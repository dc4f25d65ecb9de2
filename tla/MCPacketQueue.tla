---------------------------- MODULE MCPacketQueue ----------------------------
(***************************************************************************)
(* Model checking of PacketQueue with one closer besides the reader and    *)
(* the dispatcher, and a queue that the reader fills.                      *)
(***************************************************************************)
EXTENDS PacketQueue
=============================================================================
