--------------------------- MODULE PacketChannel ---------------------------
(***************************************************************************)
(* What the packet queue of one client connection promises to the rest of  *)
(* the server: packets are accepted in the order the peer sent them, the   *)
(* handlers see them in that order, each at most once, and once the        *)
(* connection is closed no packet is accepted and at most one more handler *)
(* invocation ends (the one that had passed its IsClosed test).            *)
(*                                                                         *)
(* Module PacketQueue, a translation of internal/connection/client.go, is  *)
(* shown to implement this one.                                            *)
(***************************************************************************)
EXTENDS Naturals, Sequences

VARIABLES
  accepted,   \* how many packets EnqueuePacket has accepted
  delivered,  \* the packets the handlers have seen, in order
  shut,       \* the connection has been closed
  last        \* the handler invocation that may outlast the close has ended

vars == <<accepted, delivered, shut, last>>

Init ==
  /\ accepted = 0
  /\ delivered = <<>>
  /\ shut = FALSE
  /\ last = FALSE

Accept ==
  /\ ~shut
  /\ accepted' = accepted + 1
  /\ UNCHANGED <<delivered, shut, last>>

Deliver ==
  /\ Len(delivered) < accepted
  /\ ~last
  /\ delivered' = Append(delivered, Len(delivered) + 1)
  /\ last' = shut
  /\ UNCHANGED <<accepted, shut>>

Shut ==
  /\ ~shut
  /\ shut' = TRUE
  /\ UNCHANGED <<accepted, delivered, last>>

Next == Accept \/ Deliver \/ Shut

Spec == Init /\ [][Next]_vars
=============================================================================
