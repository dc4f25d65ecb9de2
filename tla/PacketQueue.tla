---------------------------- MODULE PacketQueue ----------------------------
(***************************************************************************)
(* The packet path of one client connection (internal/connection):         *)
(*                                                                         *)
(*   peer -> pump goroutine -> ring -> reader -> packetQueue -> dispatcher *)
(*                                                                         *)
(* The reader is the goroutine of HandleConnection, the dispatcher the one *)
(* of dispatchLoop.  They share a bounded queue guarded by queueMu and ONE *)
(* condition variable, queueCond, and recycle buffers through packetPool.  *)
(* Any goroutine may close the client: the reader (RemoveClient), the      *)
(* dispatcher (a handler or write error), or one of Closers (an operator's *)
(* request, a login on another device, DisconnectAll).                     *)
(*                                                                         *)
(* A critical section of queueMu is one action.  sync.Cond has no spurious *)
(* wakeups: `waiting' is its wait set, Signal takes one member out of it   *)
(* and Broadcast empties it; a woken goroutine re-evaluates its condition  *)
(* in a later action, so others may get the mutex first.                   *)
(*                                                                         *)
(* Packets are numbered in the order the peer sends them; content[b] is    *)
(* the packet last read into buffer b.                                     *)
(***************************************************************************)
EXTENDS Integers, Sequences, FiniteSets

CONSTANTS
  Buffers,     \* identities of the []byte values the process can allocate
  NoBuffer,    \* nil
  Closers,     \* goroutines other than reader and dispatcher that call Close
  QueueLimit,  \* packetQueueSize
  PoolSize,    \* packetPoolSize
  RingSize,    \* packets that fit in the ring buffer of HandleConnection
  MaxPackets   \* bound: packets the peer sends in a behaviour

Reader == "reader"
Dispatcher == "dispatcher"
Workers == {Reader, Dispatcher}
Threads == Workers \cup Closers

ASSUME ConstantsAssumption ==
  /\ NoBuffer \notin Buffers
  /\ Workers \cap Closers = {}
  /\ QueueLimit \in Nat \ {0}
  /\ PoolSize \in Nat
  /\ RingSize \in Nat \ {0}
  /\ MaxPackets \in Nat

VARIABLES
  closed,      \* Client.closed
  once,        \* Client.closeOnce: "idle", "running" or "done"
  onceOwner,   \* the goroutines inside closeOnce.Do (at most one)
  queue,       \* Client.packetQueue, a sequence of buffers
  waiting,     \* the goroutines blocked in queueCond.Wait
  pool,        \* Client.packetPool, the channel of idle buffers
  content,     \* the packet each buffer holds
  hand,        \* the buffer each worker holds in its local variable `packet'
  pc,          \* where each goroutine is
  headers,     \* packet headers the pump has copied into the ring
  arrived,     \* packets the pump has copied into the ring, bodies included
  pumpEnded,   \* ring.ReadFrom has returned and the ring is closed for writing
  stalled,     \* the peer has stopped reading what is sent to it
  taken,       \* packet headers the reader has read out of the ring
  accepted,    \* packets EnqueuePacket has accepted
  delivered,   \* the packets handed to Server.Dispatcher (history)
  late         \* a handler invocation has begun after the close (history)

queueVars  == <<queue, waiting>>
bufferVars == <<pool, content, hand>>
closeVars  == <<closed, once, onceOwner>>
inputVars  == <<headers, arrived, pumpEnded, stalled, taken>>
logVars    == <<accepted, delivered, late>>
vars == <<queueVars, bufferVars, closeVars, inputVars, logVars, pc>>

InSeq(s) == {s[i] : i \in DOMAIN s}
Held == {hand[w] : w \in Workers} \ {NoBuffer}
InUse == InSeq(queue) \cup InSeq(pool) \cup Held

\* net.Conn.Close has been called: the last thing closeOnce does.
ConnClosed == once = "done"

ReaderPCs == {"start", "check", "header", "body", "enqueue", "reject", "close", "done"}
DispatcherPCs == {"unstarted", "take", "popped", "discard", "handle", "flush", "release", "close", "done"}
CloserPCs == {"idle", "close", "done"}

Init ==
  /\ closed = FALSE /\ once = "idle" /\ onceOwner = {}
  /\ queue = <<>> /\ waiting = {}
  /\ pool = <<>>
  /\ content = [b \in Buffers |-> 0]
  /\ hand = [w \in Workers |-> NoBuffer]
  /\ pc = [t \in Threads |-> IF t = Reader THEN "start"
                             ELSE IF t = Dispatcher THEN "unstarted" ELSE "idle"]
  /\ headers = 0 /\ arrived = 0 /\ pumpEnded = FALSE /\ stalled = FALSE /\ taken = 0
  /\ accepted = 0 /\ delivered = <<>> /\ late = FALSE

Goto(t, from, to) == pc[t] = from /\ pc' = [pc EXCEPT ![t] = to]

\* queueCond.Signal: wakes one of the waiting goroutines, if there is one.
Signal ==
  \/ \E t \in waiting : waiting' = waiting \ {t}
  \/ waiting = {} /\ UNCHANGED waiting

\* Sending b on a buffered channel, with a default branch: a buffer that does
\* not fit is left to the garbage collector.
Pooled(bs) ==
  LET room == PoolSize - Len(pool)
  IN  pool \o SubSeq(bs, 1, IF Len(bs) < room THEN Len(bs) ELSE room)

releasePacketBuffer(w) ==
  /\ pool' = Pooled(<<hand[w]>>)
  /\ hand' = [hand EXCEPT ![w] = NoBuffer]
  /\ UNCHANGED content

\* Takes a buffer out of the pool and uses it, or drops it because its capacity
\* is too small and allocates a new one; allocates when the pool is empty.
acquirePacketBuffer(w) ==
  /\ \/ /\ pool # <<>>
        /\ pool' = Tail(pool)
        /\ \/ hand' = [hand EXCEPT ![w] = Head(pool)]
           \/ \E b \in Buffers \ InUse : hand' = [hand EXCEPT ![w] = b]
     \/ /\ pool = <<>>
        /\ UNCHANGED pool
        /\ \E b \in Buffers \ InUse : hand' = [hand EXCEPT ![w] = b]
  /\ UNCHANGED content

-----------------------------------------------------------------------------
(* The pump: ring.ReadFrom(conn), then ring.CloseWriter().                 *)

PumpCopy ==
  /\ ~pumpEnded /\ ~ConnClosed
  /\ arrived - taken < RingSize
  /\ \/ /\ headers = arrived /\ headers < MaxPackets
        /\ headers' = headers + 1 /\ UNCHANGED arrived
     \/ /\ headers = arrived + 1
        /\ arrived' = headers /\ UNCHANGED headers
  /\ UNCHANGED <<pumpEnded, stalled, taken, queueVars, bufferVars, closeVars, logVars, pc>>

\* The peer hangs up, the connection breaks, or this side has closed it.  A pump
\* blocked on a full ring is not reading the connection and notices nothing.
PumpEnd ==
  /\ ~pumpEnded
  /\ arrived - taken < RingSize
  /\ pumpEnded' = TRUE
  /\ UNCHANGED <<headers, arrived, stalled, taken, queueVars, bufferVars, closeVars, logVars, pc>>

\* The peer stays connected and reads no more, for ever: what is written to it
\* fills the socket's buffers, and the write that finds them full blocks.
PeerStalls ==
  /\ ~stalled
  /\ stalled' = TRUE
  /\ UNCHANGED <<headers, arrived, pumpEnded, taken, queueVars, bufferVars, closeVars, logVars, pc>>

-----------------------------------------------------------------------------
(* The reader: Server.HandleConnection from StartDispatcher on.            *)

StartDispatcher ==
  /\ pc[Reader] = "start"
  /\ pc' = [pc EXCEPT ![Reader] = "check", ![Dispatcher] = "take"]
  /\ UNCHANGED <<queueVars, bufferVars, closeVars, inputVars, logVars>>

ReaderCheck ==
  /\ Goto(Reader, "check", IF closed THEN "close" ELSE "header")
  /\ UNCHANGED <<queueVars, bufferVars, closeVars, inputVars, logVars>>

\* readPacketSize succeeds and a buffer is acquired.
ReadHeader ==
  /\ Goto(Reader, "header", "body")
  /\ taken < headers
  /\ taken' = taken + 1
  /\ acquirePacketBuffer(Reader)
  /\ UNCHANGED <<headers, arrived, pumpEnded, stalled, queueVars, closeVars, logVars>>

\* readPacketSize fails: a size below 5, or nothing more will come.
ReadHeaderError ==
  /\ Goto(Reader, "header", "close")
  /\ taken < headers \/ pumpEnded
  /\ UNCHANGED <<queueVars, bufferVars, closeVars, inputVars, logVars>>

ReadBody ==
  /\ Goto(Reader, "body", "enqueue")
  /\ taken <= arrived
  /\ content' = [content EXCEPT ![hand[Reader]] = taken]
  /\ UNCHANGED <<pool, hand, queueVars, closeVars, inputVars, logVars>>

\* readPacketBody fails: the packet was cut short.
ReadBodyError ==
  /\ Goto(Reader, "body", "close")
  /\ pumpEnded
  /\ releasePacketBuffer(Reader)
  /\ UNCHANGED <<queueVars, closeVars, inputVars, logVars>>

-----------------------------------------------------------------------------
(* EnqueuePacket, called by the reader.                                    *)

CanEnter(t) == t \notin waiting

EnqueueWait ==
  /\ pc[Reader] = "enqueue" /\ CanEnter(Reader)
  /\ Len(queue) >= QueueLimit /\ ~closed
  /\ waiting' = waiting \cup {Reader}
  /\ UNCHANGED <<queue, pc, bufferVars, closeVars, inputVars, logVars>>

EnqueueClosed ==
  /\ CanEnter(Reader)
  /\ closed
  /\ Goto(Reader, "enqueue", "reject")
  /\ UNCHANGED <<queueVars, bufferVars, closeVars, inputVars, logVars>>

\* Mutant: the signal is forgotten.
AddForgetsSignal ==
  /\ CanEnter(Reader)
  /\ Len(queue) < QueueLimit /\ ~closed
  /\ Goto(Reader, "enqueue", "check")
  /\ queue' = Append(queue, hand[Reader])
  /\ hand' = [hand EXCEPT ![Reader] = NoBuffer]
  /\ accepted' = accepted + 1
  /\ UNCHANGED <<waiting, pool, content, closeVars, inputVars, delivered, late>>

EnqueueAdd ==
  /\ CanEnter(Reader)
  /\ Len(queue) < QueueLimit /\ ~closed
  /\ Goto(Reader, "enqueue", "check")
  /\ queue' = Append(queue, hand[Reader])
  /\ hand' = [hand EXCEPT ![Reader] = NoBuffer]
  /\ Signal
  /\ accepted' = accepted + 1
  /\ UNCHANGED <<pool, content, closeVars, inputVars, delivered, late>>

\* HandleConnection after ErrClientClosed.
EnqueueReject ==
  /\ Goto(Reader, "reject", "close")
  /\ releasePacketBuffer(Reader)
  /\ UNCHANGED <<queueVars, closeVars, inputVars, logVars>>

EnqueuePacket == EnqueueWait \/ EnqueueClosed \/ EnqueueAdd \/ EnqueueReject

-----------------------------------------------------------------------------
(* dispatchLoop.                                                           *)

DispatchWait ==
  /\ pc[Dispatcher] = "take" /\ CanEnter(Dispatcher)
  /\ queue = <<>> /\ ~closed
  /\ waiting' = waiting \cup {Dispatcher}
  /\ UNCHANGED <<queue, pc, bufferVars, closeVars, inputVars, logVars>>

\* Mutant: the drained queue is not reset.
DrainKeepsQueue ==
  /\ CanEnter(Dispatcher)
  /\ closed
  /\ Goto(Dispatcher, "take", "done")
  /\ pool' = Pooled(queue)
  /\ UNCHANGED <<queue, waiting, content, hand, closeVars, inputVars, logVars>>

\* drainQueueLocked, then return.
DispatchDrain ==
  /\ CanEnter(Dispatcher)
  /\ closed
  /\ Goto(Dispatcher, "take", "done")
  /\ pool' = Pooled(queue)
  /\ queue' = <<>>
  /\ UNCHANGED <<waiting, content, hand, closeVars, inputVars, logVars>>

\* Mutant: the buffer goes back to the pool as soon as it is taken.
TakeAndPool ==
  /\ CanEnter(Dispatcher)
  /\ queue # <<>> /\ ~closed
  /\ Goto(Dispatcher, "take", "popped")
  /\ hand' = [hand EXCEPT ![Dispatcher] = Head(queue)]
  /\ pool' = Pooled(<<Head(queue)>>)
  /\ queue' = Tail(queue)
  /\ Signal
  /\ UNCHANGED <<content, closeVars, inputVars, logVars>>

DispatchTake ==
  /\ CanEnter(Dispatcher)
  /\ queue # <<>> /\ ~closed
  /\ Goto(Dispatcher, "take", "popped")
  /\ hand' = [hand EXCEPT ![Dispatcher] = Head(queue)]
  /\ queue' = Tail(queue)
  /\ Signal
  /\ UNCHANGED <<pool, content, closeVars, inputVars, logVars>>

\* The IsClosed test between taking a packet and handling it.
DispatchCheck ==
  /\ Goto(Dispatcher, "popped", IF closed THEN "discard" ELSE "handle")
  /\ UNCHANGED <<queueVars, bufferVars, closeVars, inputVars, logVars>>

DispatchDiscard ==
  /\ Goto(Dispatcher, "discard", "done")
  /\ releasePacketBuffer(Dispatcher)
  /\ UNCHANGED <<queueVars, closeVars, inputVars, logVars>>

\* The handlers of client.Server.Dispatcher(&packet, ...) return; `delivered'
\* records what they have found in the buffer until then.  After an error of a
\* handler this goroutine closes the client and does not flush; when not even the
\* answer to an unknown packet can be encoded it does neither.
DispatchHandle ==
  /\ \E next \in {"flush", "close", "release"} : Goto(Dispatcher, "handle", next)
  /\ delivered' = Append(delivered, content[hand[Dispatcher]])
  /\ late' = (late \/ closed)
  /\ UNCHANGED <<accepted, queueVars, bufferVars, closeVars, inputVars>>

\* Client.Flush: one Write, without a deadline.  It fails when the connection is
\* closed or broken, and then this goroutine closes the client.
Flush ==
  /\ \E next \in {"release", "close"} :
       (ConnClosed => next = "close") /\ Goto(Dispatcher, "flush", next)
  /\ UNCHANGED <<queueVars, bufferVars, closeVars, inputVars, logVars>>

\* The Write is held up by the peer: it may not return before somebody closes.
WriteBlocks == pc[Dispatcher] = "flush" /\ stalled /\ ~ConnClosed

DispatchRelease ==
  /\ Goto(Dispatcher, "release", "take")
  /\ releasePacketBuffer(Dispatcher)
  /\ UNCHANGED <<queueVars, closeVars, inputVars, logVars>>

-----------------------------------------------------------------------------
(* CloseWithError.  The first caller runs the function passed to           *)
(* closeOnce.Do; the others block in Do until it has returned.             *)

AfterClose(t) == IF t = Dispatcher THEN "release" ELSE "done"

CloserStarts(t) ==
  /\ t \in Closers
  /\ Goto(t, "idle", "close")
  /\ UNCHANGED <<queueVars, bufferVars, closeVars, inputVars, logVars>>

\* Mutant: the sleepers are not woken.
CloseForgetsBroadcast(t) ==
  /\ pc[t] = "close" /\ once = "idle"
  /\ once' = "running" /\ onceOwner' = {t}
  /\ closed' = TRUE
  /\ UNCHANGED waiting
  /\ UNCHANGED <<queue, bufferVars, inputVars, logVars, pc>>

\* The critical section: closed = true, queueCond.Broadcast().
CloseMark(t) ==
  /\ pc[t] = "close" /\ once = "idle"
  /\ once' = "running" /\ onceOwner' = {t}
  /\ closed' = TRUE
  /\ waiting' = {}
  /\ UNCHANGED <<queue, bufferVars, inputVars, logVars, pc>>

\* The rest of the function, net.Conn.Close() in particular.
CloseConn(t) ==
  /\ t \in onceOwner
  /\ once' = "done" /\ onceOwner' = {}
  /\ Goto(t, "close", AfterClose(t))
  /\ UNCHANGED <<closed, queueVars, bufferVars, inputVars, logVars>>

CloseAgain(t) ==
  /\ once = "done"
  /\ Goto(t, "close", AfterClose(t))
  /\ UNCHANGED <<queueVars, bufferVars, closeVars, inputVars, logVars>>

CloseWithError(t) == CloseMark(t) \/ CloseConn(t) \/ CloseAgain(t)

-----------------------------------------------------------------------------
ReaderStep ==
  \/ StartDispatcher \/ ReaderCheck
  \/ ReadHeader \/ ReadHeaderError \/ ReadBody \/ ReadBodyError
  \/ EnqueuePacket

dispatchLoop ==
  \/ DispatchWait \/ DispatchDrain \/ DispatchTake
  \/ DispatchCheck \/ DispatchDiscard
  \/ DispatchHandle \/ Flush \/ DispatchRelease

Next ==
  \/ PumpCopy \/ PumpEnd \/ PeerStalls
  \/ ReaderStep
  \/ dispatchLoop
  \/ \E t \in Threads : CloserStarts(t) \/ CloseWithError(t)

Spec == Init /\ [][Next]_vars

(***************************************************************************)
(* Fairness: a goroutine that can run does run (the Go scheduler is        *)
(* preemptive), the handlers return, and reading or writing a connection   *)
(* that this side has closed fails.  A write to a peer that does not read  *)
(* need not end before that, the peer may stop sending without hanging up, *)
(* and nothing makes anyone else close.                                    *)
(***************************************************************************)
Fairness ==
  /\ WF_vars(ReaderStep)
  /\ WF_vars(~WriteBlocks /\ dispatchLoop)
  /\ WF_vars(ConnClosed /\ PumpEnd)
  /\ \A t \in Threads : WF_vars(CloseWithError(t))

FairSpec == Spec /\ Fairness

-----------------------------------------------------------------------------
(* Properties.                                                             *)

\* Every variable has its type.
TypeOK ==
  /\ closed \in BOOLEAN
  /\ once \in {"idle", "running", "done"}
  /\ onceOwner \subseteq Threads
  /\ queue \in Seq(Buffers)
  /\ waiting \subseteq Workers
  /\ pool \in Seq(Buffers)
  /\ content \in [Buffers -> Nat]
  /\ hand \in [Workers -> Buffers \cup {NoBuffer}]
  /\ pc \in [Threads -> ReaderPCs \cup DispatcherPCs \cup CloserPCs]
  /\ headers \in Nat /\ arrived \in Nat /\ pumpEnded \in BOOLEAN /\ stalled \in BOOLEAN
  /\ taken \in Nat
  /\ accepted \in Nat
  /\ delivered \in Seq(Nat)
  /\ late \in BOOLEAN

\* One condition variable serves both "not full" and "not empty", and each
\* change of the queue signals only one goroutine.  No signal is ever lost to
\* the wrong one: a goroutine sleeps only while its own condition is false, so
\* reader and dispatcher never sleep at the same time, and nobody sleeps on a
\* closed client (EnqueuePacket, dispatchLoop, CloseWithError).
NoLostWakeup ==
  /\ Reader \in waiting => Len(queue) = QueueLimit
  /\ Dispatcher \in waiting => queue = <<>>
  /\ closed => waiting = {}

\* A buffer is in at most one place: once in the queue, once in the pool, in
\* the reader's hands or in the dispatcher's.  A buffer in two places would let
\* the reader overwrite a packet that is queued or being handled.
BuffersExclusive ==
  /\ \A i, j \in DOMAIN queue : queue[i] = queue[j] => i = j
  /\ \A i, j \in DOMAIN pool : pool[i] = pool[j] => i = j
  /\ \A i \in DOMAIN queue, j \in DOMAIN pool : queue[i] # pool[j]
  /\ \A w \in Workers : \A i \in DOMAIN queue : hand[w] # queue[i]
  /\ \A w \in Workers : \A i \in DOMAIN pool : hand[w] # pool[i]
  /\ hand[Reader] = hand[Dispatcher] => hand[Reader] = NoBuffer

\* The handlers see the packets in the order the peer sent them, none twice
\* and none overwritten by a later one, whoever closes the client and when.
DeliveredInOrder == \A i \in DOMAIN delivered : delivered[i] = i

\* What goes on in front of the dispatcher is the abstract channel: accepted
\* in order, delivered in order, nothing accepted after the close and at most
\* one handler invocation finishing after it.
Channel == INSTANCE PacketChannel WITH shut <- closed, last <- late
ImplementsChannel == Channel!Spec

\* A packet that was accepted is handled, unless the client is closed or the
\* dispatcher is held up in Flush by a peer that has stopped reading (client.go:345
\* sets no deadline): no packet is stuck behind a sleeping dispatcher.
AcceptedIsHandled ==
  \A n \in 1..MaxPackets :
    accepted >= n ~> Len(delivered) >= n \/ closed \/ WriteBlocks

\* Once anyone has closed the client both goroutines return, wherever they
\* were: asleep, between two critical sections, in a handler, reading, or in a
\* write to a peer that has stopped reading, which the closing of the socket ends.
CloseTerminates ==
  closed ~> pc[Reader] = "done" /\ pc[Dispatcher] = "done"

\* Whether reader and dispatcher can take a step: ReaderStep or dispatchLoop, or
\* one of CloseWithError.
CanClose(t) == pc[t] = "close" /\ (once # "running" \/ t \in onceOwner)

ReaderCan ==
  \/ pc[Reader] \in {"start", "check", "reject"}
  \/ pc[Reader] = "header" /\ (taken < headers \/ pumpEnded)
  \/ pc[Reader] = "body" /\ (taken <= arrived \/ pumpEnded)
  \/ pc[Reader] = "enqueue" /\ CanEnter(Reader)
  \/ CanClose(Reader)

DispatcherCan ==
  \/ pc[Dispatcher] \in {"popped", "discard", "handle", "flush", "release"} /\ ~WriteBlocks
  \/ pc[Dispatcher] = "take" /\ CanEnter(Dispatcher)
  \/ CanClose(Dispatcher)

\* Once anyone has begun to close the client nobody waits for anybody but the
\* goroutine inside closeOnce, which goes on; and when that has closed the connection,
\* the reader waits at most for the pump, whose reading then fails.  Neither
\* waits for the other, for the peer, or for room in the queue or the ring.
ClosedGoesOn ==
  closed =>
    \/ ~ConnClosed /\ onceOwner # {} /\ \A t \in onceOwner : CanClose(t)
    \/ /\ ConnClosed
       /\ pc[Reader] = "done" \/ ReaderCan \/ (~pumpEnded /\ arrived - taken < RingSize)
       /\ pc[Dispatcher] = "done" \/ DispatcherCan \/ pc[Reader] = "start"

\* How many steps a closed client's reader and dispatcher have left, at most.
StepsLeft ==
  [w \in Workers |->
     IF w = Reader
     THEN [done |-> 0, close |-> 1, check |-> 2, reject |-> 2, start |-> 3, enqueue |-> 3, body |-> 4,
           header |-> 5][pc[w]]
     ELSE [done |-> 0, take |-> 1, discard |-> 1, unstarted |-> 2, release |-> 2, close |-> 3, flush |-> 4,
           handle |-> 5, popped |-> 6][pc[w]]]

\* From the close on reader and dispatcher come nearer to their end with each step
\* they take: they do not go round in their loops, nor to sleep again.
ClosedDescends ==
  [][closed =>
       /\ \A w \in Workers : pc'[w] = pc[w] \/ StepsLeft'[w] < StepsLeft[w]
       /\ ReaderStep \/ CloseWithError(Reader) => pc'[Reader] # pc[Reader]
       /\ dispatchLoop \/ CloseWithError(Dispatcher) => pc'[Dispatcher] # pc[Dispatcher]]_vars

-----------------------------------------------------------------------------
(* The inductive invariant behind the theorems of PacketQueueProofs.       *)

\* Whoever is inside closeOnce is closing; a header comes before its body.
CloseInv ==
  /\ closed <=> once # "idle"
  /\ once = "running" <=> onceOwner # {}
  /\ \A t \in onceOwner : pc[t] = "close"
  /\ arrived <= headers

\* Who holds a buffer, and what the dispatcher does before it is started.
ControlInv ==
  /\ pc[Reader] \in ReaderPCs
  /\ pc[Dispatcher] \in DispatcherPCs
  /\ pc[Reader] = "start" <=> pc[Dispatcher] = "unstarted"
  /\ hand[Reader] # NoBuffer <=> pc[Reader] \in {"body", "enqueue", "reject"}
  /\ hand[Dispatcher] # NoBuffer
       <=> pc[Dispatcher] \in {"popped", "discard", "handle", "flush", "release", "close"}

\* Who sleeps, and on what.
SleepInv ==
  /\ Reader \in waiting =>
       pc[Reader] = "enqueue" /\ Len(queue) = QueueLimit /\ ~closed
  /\ Dispatcher \in waiting =>
       pc[Dispatcher] = "take" /\ queue = <<>> /\ ~closed
  /\ Len(queue) <= QueueLimit

\* The queue holds consecutive packets, ending with the last one accepted and
\* beginning right after those that the dispatcher has taken.
NumberInv ==
  /\ \A i \in DOMAIN queue : content[queue[i]] = accepted - Len(queue) + i
  /\ pc[Dispatcher] \in {"unstarted", "take", "flush", "release", "close"} =>
       Len(delivered) = accepted - Len(queue)
  /\ pc[Dispatcher] \in {"popped", "handle"} =>
       /\ Len(delivered) = accepted - Len(queue) - 1
       /\ content[hand[Dispatcher]] = Len(delivered) + 1
  /\ pc[Reader] \in {"start", "check", "header"} => taken = accepted
  /\ pc[Reader] \in {"body", "enqueue"} => taken = accepted + 1
  /\ pc[Reader] = "enqueue" => content[hand[Reader]] = taken
  /\ late => closed /\ pc[Dispatcher] \in {"flush", "release", "close", "take", "done"}

\* The inductive invariant: a goroutine sleeps only while its condition holds,
\* each worker holds a buffer exactly where its code does, no buffer is in two
\* places, and the queue holds the packets between the last one taken and the
\* last one accepted.
IndInv ==
  /\ TypeOK
  /\ ControlInv
  /\ SleepInv
  /\ CloseInv
  /\ BuffersExclusive
  /\ NumberInv
  /\ DeliveredInOrder
=============================================================================
