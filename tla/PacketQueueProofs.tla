-------------------------- MODULE PacketQueueProofs --------------------------
(***************************************************************************)
(* Proofs about PacketQueue for every queue limit, pool size, ring size,   *)
(* number of packets, set of buffers and set of closing goroutines.        *)
(***************************************************************************)
EXTENDS PacketQueue, SequenceTheorems, TLAPS

\* What a release leaves in the pool: the old buffers, then released ones.
LEMMA PooledProperties ==
  ASSUME pool \in Seq(Buffers), NEW bs \in Seq(Buffers)
  PROVE  /\ Pooled(bs) \in Seq(Buffers)
         /\ \A i \in DOMAIN Pooled(bs) :
              \/ i \in DOMAIN pool /\ Pooled(bs)[i] = pool[i]
              \/ /\ i \notin DOMAIN pool /\ i - Len(pool) \in DOMAIN bs
                 /\ Pooled(bs)[i] = bs[i - Len(pool)]
<1> DEFINE room == PoolSize - Len(pool)
           n == IF Len(bs) < room THEN Len(bs) ELSE room
           kept == SubSeq(bs, 1, n)
<1>1. PoolSize \in Nat
  BY ConstantsAssumption
<1>2. n \in Int /\ n <= Len(bs) /\ Len(bs) \in Nat /\ Len(pool) \in Nat
  BY <1>1
<1>3. \A i \in 1..n : bs[i] \in Buffers
  BY <1>2
<1>4. /\ kept \in Seq(Buffers)
      /\ Len(kept) = IF 1 <= n THEN n ELSE 0
      /\ \A i \in 1..n : kept[i] = bs[i]
  <2>1. /\ kept \in Seq(Buffers)
        /\ Len(kept) = IF 1 <= n THEN n - 1 + 1 ELSE 0
        /\ \A i \in 1..(n - 1 + 1) : kept[i] = bs[1 + i - 1]
    <3> HIDE DEF n
    <3> QED BY <1>2, <1>3, SubSeqProperties
  <2> HIDE DEF n, kept
  <2> QED BY <2>1, <1>2
<1>5. Pooled(bs) = pool \o kept
  BY DEF Pooled
<1> HIDE DEF kept, n
<1>6. /\ pool \o kept \in Seq(Buffers)
      /\ Len(pool \o kept) = Len(pool) + Len(kept)
      /\ \A i \in 1..Len(pool) + Len(kept) :
           (pool \o kept)[i] = IF i <= Len(pool) THEN pool[i] ELSE kept[i - Len(pool)]
  BY <1>4, ConcatProperties
<1>7. ASSUME NEW i \in DOMAIN (pool \o kept)
      PROVE  \/ i \in DOMAIN pool /\ (pool \o kept)[i] = pool[i]
             \/ /\ i \notin DOMAIN pool /\ i - Len(pool) \in DOMAIN bs
                /\ (pool \o kept)[i] = bs[i - Len(pool)]
  <2>1. i \in 1..Len(pool) + Len(kept)
    BY <1>6
  <2>2. CASE i <= Len(pool)
    BY <2>1, <2>2, <1>2, <1>6
  <2>3. CASE i > Len(pool)
    <3>1. i - Len(pool) \in 1..n
      BY <2>1, <2>3, <1>2, <1>4
    <3>2. (pool \o kept)[i] = kept[i - Len(pool)]
      BY <2>1, <2>3, <1>2, <1>6
    <3>3. kept[i - Len(pool)] = bs[i - Len(pool)] /\ i - Len(pool) \in 1..Len(bs)
      BY <3>1, <1>2, <1>4
    <3>4. i \notin DOMAIN pool
      BY <2>3, <1>2
    <3> QED BY <3>2, <3>3, <3>4
  <2> QED BY <2>1, <2>2, <2>3, <1>2, <1>4
<1> QED BY <1>5, <1>6, <1>7

\* Appending adds one position, at the end.
LEMMA AppendDomain ==
  ASSUME NEW S, NEW s \in Seq(S), NEW e \in S
  PROVE  \A i \in DOMAIN Append(s, e) :
           \/ i \in DOMAIN s /\ Append(s, e)[i] = s[i]
           \/ i \notin DOMAIN s /\ i = Len(s) + 1 /\ Append(s, e)[i] = e
<1>1. /\ DOMAIN Append(s, e) = 1..Len(s) + 1
      /\ DOMAIN s = 1..Len(s) /\ Len(s) \in Nat
      /\ \A i \in 1..Len(s) : Append(s, e)[i] = s[i]
      /\ Append(s, e)[Len(s) + 1] = e
  BY AppendProperties, LenProperties
<1> QED BY <1>1

-----------------------------------------------------------------------------
(* Type correctness.                                                       *)

LEMMA InitTypeOK == Init => TypeOK
<1> SUFFICES ASSUME Init PROVE TypeOK
  OBVIOUS
<1>1. pc \in [Threads -> ReaderPCs \cup DispatcherPCs \cup CloserPCs]
  BY DEF Init, ReaderPCs, DispatcherPCs, CloserPCs
<1>2. queue \in Seq(Buffers) /\ pool \in Seq(Buffers) /\ delivered \in Seq(Nat)
  BY EmptySeq DEF Init
<1>3. content \in [Buffers -> Nat] /\ hand \in [Workers -> Buffers \cup {NoBuffer}]
  BY DEF Init
<1> QED BY <1>1, <1>2, <1>3 DEF Init, TypeOK

LEMMA PoolTyped ==
  ASSUME TypeOK, NEW w \in Workers, hand[w] # NoBuffer, releasePacketBuffer(w)
  PROVE  /\ pool' \in Seq(Buffers)
         /\ hand' \in [Workers -> Buffers \cup {NoBuffer}]
         /\ content' \in [Buffers -> Nat]
<1>1. <<hand[w]>> \in Seq(Buffers)
  BY DEF TypeOK
<1> QED BY <1>1, PooledProperties DEF TypeOK, releasePacketBuffer

LEMMA TypeStep == TypeOK /\ ControlInv /\ [Next]_vars => TypeOK'
<1> SUFFICES ASSUME TypeOK, ControlInv, [Next]_vars PROVE TypeOK'
  OBVIOUS
<1> USE DEF TypeOK, queueVars, bufferVars, closeVars, inputVars, logVars,
            Goto, ReaderPCs, DispatcherPCs, CloserPCs, ControlInv
<1> Reader \in Workers /\ Dispatcher \in Workers /\ Workers \subseteq Threads
  BY DEF Workers, Threads
<1>1. CASE PumpCopy
  BY <1>1 DEF PumpCopy
<1>2. CASE PumpEnd \/ PeerStalls
  BY <1>2 DEF PumpEnd, PeerStalls
<1>3. CASE StartDispatcher
  BY <1>3 DEF StartDispatcher
<1>4. CASE ReaderCheck
  BY <1>4 DEF ReaderCheck
<1>5. CASE ReadHeader
  <2>1. pool' \in Seq(Buffers) /\ hand' \in [Workers -> Buffers \cup {NoBuffer}]
    <3>1. CASE pool # <<>>
      <4>1. Head(pool) \in Buffers /\ Tail(pool) \in Seq(Buffers)
        BY <3>1, HeadTailProperties
      <4> QED BY <1>5, <3>1, <4>1 DEF ReadHeader, acquirePacketBuffer
    <3>2. CASE pool = <<>>
      BY <1>5, <3>2 DEF ReadHeader, acquirePacketBuffer
    <3> QED BY <3>1, <3>2
  <2>2. UNCHANGED <<content, queue, waiting>>
    BY <1>5 DEF ReadHeader, acquirePacketBuffer
  <2> QED BY <1>5, <2>1, <2>2 DEF ReadHeader
<1>6. CASE ReadHeaderError
  BY <1>6 DEF ReadHeaderError
<1>7. CASE ReadBody
  BY <1>7 DEF ReadBody
<1>8. CASE ReadBodyError
  <2>1. hand[Reader] # NoBuffer /\ releasePacketBuffer(Reader)
    BY <1>8 DEF ReadBodyError
  <2> QED BY <1>8, <2>1, PoolTyped DEF ReadBodyError
<1>9. CASE EnqueueWait
  <2>1. waiting' \subseteq Workers
    BY <1>9 DEF EnqueueWait
  <2> QED BY <1>9, <2>1 DEF EnqueueWait
<1>10. CASE EnqueueClosed
  BY <1>10 DEF EnqueueClosed
<1>11. CASE EnqueueAdd
  <2>1. queue' \in Seq(Buffers)
    BY <1>11, AppendProperties DEF EnqueueAdd
  <2>2. waiting' \subseteq Workers
    BY <1>11 DEF EnqueueAdd, Signal
  <2> QED BY <1>11, <2>1, <2>2 DEF EnqueueAdd
<1>12. CASE EnqueueReject
  <2>1. hand[Reader] # NoBuffer /\ releasePacketBuffer(Reader)
    BY <1>12 DEF EnqueueReject
  <2> QED BY <1>12, <2>1, PoolTyped DEF EnqueueReject
<1>13. CASE DispatchWait
  <2>1. waiting' \subseteq Workers
    BY <1>13 DEF DispatchWait
  <2> QED BY <1>13, <2>1 DEF DispatchWait
<1>14. CASE DispatchDrain
  <2>1. pool' \in Seq(Buffers) /\ queue' \in Seq(Buffers)
    BY <1>14, PooledProperties, EmptySeq DEF DispatchDrain
  <2> QED BY <1>14, <2>1 DEF DispatchDrain
<1>15. CASE DispatchTake
  <2>1. queue' \in Seq(Buffers) /\ Head(queue) \in Buffers
    BY <1>15, HeadTailProperties DEF DispatchTake
  <2>2. waiting' \subseteq Workers
    BY <1>15 DEF DispatchTake, Signal
  <2> QED BY <1>15, <2>1, <2>2 DEF DispatchTake
<1>16. CASE DispatchCheck
  BY <1>16 DEF DispatchCheck
<1>17. CASE DispatchDiscard
  <2>1. hand[Dispatcher] # NoBuffer /\ releasePacketBuffer(Dispatcher)
    BY <1>17 DEF DispatchDiscard
  <2> QED BY <1>17, <2>1, PoolTyped DEF DispatchDiscard
<1>18. CASE DispatchHandle
  <2>1. content[hand[Dispatcher]] \in Nat
    BY <1>18 DEF DispatchHandle
  <2>2. delivered' \in Seq(Nat)
    BY <1>18, <2>1, AppendProperties DEF DispatchHandle
  <2> QED BY <1>18, <2>2 DEF DispatchHandle
<1>19. CASE DispatchRelease
  <2>1. hand[Dispatcher] # NoBuffer /\ releasePacketBuffer(Dispatcher)
    BY <1>19 DEF DispatchRelease
  <2> QED BY <1>19, <2>1, PoolTyped DEF DispatchRelease
<1>25. CASE Flush
  BY <1>25 DEF Flush
<1>20. ASSUME NEW t \in Threads, CloserStarts(t) PROVE TypeOK'
  BY <1>20 DEF CloserStarts, AfterClose
<1>21. ASSUME NEW t \in Threads, CloseMark(t) PROVE TypeOK'
  BY <1>21 DEF CloseMark, AfterClose
<1>22. ASSUME NEW t \in Threads, CloseConn(t) PROVE TypeOK'
  BY <1>22 DEF CloseConn, AfterClose
<1>23. ASSUME NEW t \in Threads, CloseAgain(t) PROVE TypeOK'
  BY <1>23 DEF CloseAgain, AfterClose
<1>24. CASE UNCHANGED vars
  BY <1>24 DEF vars
<1> QED
  BY <1>1, <1>2, <1>3, <1>4, <1>5, <1>6, <1>7, <1>8, <1>9, <1>10, <1>11, <1>12, <1>13, <1>14, <1>15, <1>16, <1>17, <1>18, <1>19, <1>20, <1>21, <1>22, <1>23, <1>24, <1>25
  DEF Next, ReaderStep, EnqueuePacket, dispatchLoop, CloseWithError

-----------------------------------------------------------------------------
(* The parts of the inductive invariant, one after the other.              *)

LEMMA ControlStep == TypeOK /\ ControlInv /\ [Next]_vars => ControlInv'
<1> SUFFICES ASSUME TypeOK, ControlInv, [Next]_vars PROVE ControlInv'
  OBVIOUS
<1> USE DEF TypeOK, ControlInv, ReaderPCs, DispatcherPCs, CloserPCs, queueVars, bufferVars, closeVars, inputVars, logVars, Goto
<1> /\ Reader # Dispatcher /\ Reader \in Threads /\ Dispatcher \in Threads
    /\ Reader \notin Closers /\ Dispatcher \notin Closers
    /\ Workers = {Reader, Dispatcher}
  BY ConstantsAssumption DEF Reader, Dispatcher, Workers, Threads
<1>1. CASE PumpCopy
  BY <1>1 DEF PumpCopy
<1>2. CASE PumpEnd \/ PeerStalls
  BY <1>2 DEF PumpEnd, PeerStalls
<1>3. CASE StartDispatcher
  BY <1>3 DEF StartDispatcher
<1>4. CASE ReaderCheck
  BY <1>4 DEF ReaderCheck
<1>5. CASE ReadHeader
  BY <1>5, ConstantsAssumption DEF ReadHeader, acquirePacketBuffer
<1>6. CASE ReadHeaderError
  BY <1>6 DEF ReadHeaderError
<1>7. CASE ReadBody
  BY <1>7 DEF ReadBody
<1>8. CASE ReadBodyError
  BY <1>8 DEF ReadBodyError, releasePacketBuffer
<1>9. CASE EnqueueWait
  BY <1>9 DEF EnqueueWait
<1>10. CASE EnqueueClosed
  BY <1>10 DEF EnqueueClosed
<1>11. CASE EnqueueAdd
  BY <1>11 DEF EnqueueAdd
<1>12. CASE EnqueueReject
  BY <1>12 DEF EnqueueReject, releasePacketBuffer
<1>13. CASE DispatchWait
  BY <1>13 DEF DispatchWait
<1>14. CASE DispatchDrain
  BY <1>14 DEF DispatchDrain
<1>15. CASE DispatchTake
  BY <1>15, HeadTailProperties, ConstantsAssumption DEF DispatchTake
<1>16. CASE DispatchCheck
  BY <1>16 DEF DispatchCheck
<1>17. CASE DispatchDiscard
  BY <1>17 DEF DispatchDiscard, releasePacketBuffer
<1>18. CASE DispatchHandle
  BY <1>18 DEF DispatchHandle
<1>19. CASE DispatchRelease
  BY <1>19 DEF DispatchRelease, releasePacketBuffer
<1>25. CASE Flush
  BY <1>25 DEF Flush
<1>20. ASSUME NEW t \in Threads, CloserStarts(t) PROVE ControlInv'
  BY <1>20 DEF CloserStarts, AfterClose
<1>21. ASSUME NEW t \in Threads, CloseMark(t) PROVE ControlInv'
  BY <1>21 DEF CloseMark, AfterClose
<1>22. ASSUME NEW t \in Threads, CloseConn(t) PROVE ControlInv'
  BY <1>22 DEF CloseConn, AfterClose
<1>23. ASSUME NEW t \in Threads, CloseAgain(t) PROVE ControlInv'
  BY <1>23 DEF CloseAgain, AfterClose
<1>24. CASE UNCHANGED vars
  BY <1>24 DEF vars
<1> QED
  BY <1>1, <1>2, <1>3, <1>4, <1>5, <1>6, <1>7, <1>8, <1>9, <1>10, <1>11, <1>12, <1>13, <1>14, <1>15, <1>16, <1>17, <1>18, <1>19, <1>20, <1>21, <1>22, <1>23, <1>24, <1>25
  DEF Next, ReaderStep, EnqueuePacket, dispatchLoop, CloseWithError

LEMMA SleepStep == TypeOK /\ ControlInv /\ SleepInv /\ [Next]_vars => SleepInv'
<1> SUFFICES ASSUME TypeOK, ControlInv, SleepInv, [Next]_vars PROVE SleepInv'
  OBVIOUS
<1> USE DEF TypeOK, ControlInv, SleepInv, queueVars, bufferVars, closeVars, inputVars, logVars, Goto
<1> /\ Reader # Dispatcher /\ Reader \in Threads /\ Dispatcher \in Threads
    /\ Reader \notin Closers /\ Dispatcher \notin Closers
    /\ Workers = {Reader, Dispatcher}
  BY ConstantsAssumption DEF Reader, Dispatcher, Workers, Threads
<1>1. CASE PumpCopy
  BY <1>1 DEF PumpCopy
<1>2. CASE PumpEnd \/ PeerStalls
  BY <1>2 DEF PumpEnd, PeerStalls
<1>3. CASE StartDispatcher
  BY <1>3 DEF StartDispatcher
<1>4. CASE ReaderCheck
  BY <1>4 DEF ReaderCheck
<1>5. CASE ReadHeader
  BY <1>5 DEF ReadHeader
<1>6. CASE ReadHeaderError
  BY <1>6 DEF ReadHeaderError
<1>7. CASE ReadBody
  BY <1>7 DEF ReadBody
<1>8. CASE ReadBodyError
  BY <1>8 DEF ReadBodyError
<1>9. CASE EnqueueWait
  BY <1>9, ConstantsAssumption DEF EnqueueWait
<1>10. CASE EnqueueClosed
  BY <1>10 DEF EnqueueClosed
<1>11. CASE EnqueueAdd
  <2>0. hand[Reader] \in Buffers
    BY <1>11 DEF EnqueueAdd
  <2>1. Len(queue') = Len(queue) + 1 /\ Len(queue) \in Nat
    <3>1. queue' = Append(queue, hand[Reader]) /\ queue \in Seq(Buffers)
      BY <1>11 DEF EnqueueAdd
    <3>2. Len(Append(queue, hand[Reader])) = Len(queue) + 1 /\ Len(queue) \in Nat
      BY <2>0, <3>1, AppendProperties
    <3> QED BY <3>1, <3>2
  <2>2. Len(queue') <= QueueLimit
    BY <1>11, <2>1, ConstantsAssumption DEF EnqueueAdd
  <2>3. waiting' = {}
    BY <1>11 DEF EnqueueAdd, Signal, CanEnter
  <2> QED BY <2>2, <2>3
<1>12. CASE EnqueueReject
  BY <1>12 DEF EnqueueReject
<1>13. CASE DispatchWait
  BY <1>13 DEF DispatchWait
<1>14. CASE DispatchDrain
  BY <1>14, ConstantsAssumption, EmptySeq DEF DispatchDrain
<1>15. CASE DispatchTake
  <2>1. Len(queue') = Len(queue) - 1 /\ Len(queue) \in Nat
    BY <1>15, HeadTailProperties DEF DispatchTake
  <2>2. Len(queue') <= QueueLimit
    BY <2>1, ConstantsAssumption
  <2>3. waiting' = {}
    BY <1>15 DEF DispatchTake, Signal, CanEnter
  <2> QED BY <2>2, <2>3
<1>16. CASE DispatchCheck
  BY <1>16 DEF DispatchCheck
<1>17. CASE DispatchDiscard
  BY <1>17 DEF DispatchDiscard
<1>18. CASE DispatchHandle
  BY <1>18 DEF DispatchHandle
<1>19. CASE DispatchRelease
  BY <1>19 DEF DispatchRelease
<1>25. CASE Flush
  BY <1>25 DEF Flush
<1>20. ASSUME NEW t \in Threads, CloserStarts(t) PROVE SleepInv'
  BY <1>20 DEF CloserStarts, AfterClose
<1>21. ASSUME NEW t \in Threads, CloseMark(t) PROVE SleepInv'
  BY <1>21 DEF CloseMark, AfterClose
<1>22. ASSUME NEW t \in Threads, CloseConn(t) PROVE SleepInv'
  BY <1>22 DEF CloseConn, AfterClose
<1>23. ASSUME NEW t \in Threads, CloseAgain(t) PROVE SleepInv'
  BY <1>23 DEF CloseAgain, AfterClose
<1>24. CASE UNCHANGED vars
  BY <1>24 DEF vars
<1> QED
  BY <1>1, <1>2, <1>3, <1>4, <1>5, <1>6, <1>7, <1>8, <1>9, <1>10, <1>11, <1>12, <1>13, <1>14, <1>15, <1>16, <1>17, <1>18, <1>19, <1>20, <1>21, <1>22, <1>23, <1>24, <1>25
  DEF Next, ReaderStep, EnqueuePacket, dispatchLoop, CloseWithError

\* Only CloseMark and CloseConn change the closing, and whoever is inside closeOnce
\* leaves "close" by CloseConn only.
LEMMA CloseStep == TypeOK /\ ControlInv /\ CloseInv /\ [Next]_vars => CloseInv'
<1> SUFFICES ASSUME TypeOK, ControlInv, CloseInv, [Next]_vars PROVE CloseInv'
  OBVIOUS
<1> USE DEF CloseInv
<1>1. ASSUME UNCHANGED closeVars, arrived' <= headers',
             \A t \in Threads : pc[t] = "close" /\ t \in onceOwner => pc'[t] = "close"
      PROVE  CloseInv'
  BY <1>1 DEF closeVars, TypeOK
<1>2. CASE PumpCopy
  <2>1. arrived' <= headers'
    BY <1>2 DEF PumpCopy, TypeOK
  <2> QED BY <1>1, <1>2, <2>1 DEF PumpCopy
<1>3. CASE PumpEnd \/ PeerStalls
  BY <1>1, <1>3 DEF PumpEnd, PeerStalls
<1>4. CASE ReaderStep
  <2>1. UNCHANGED <<closeVars, arrived, headers>>
    BY <1>4 DEF ReaderStep, EnqueuePacket, StartDispatcher, ReaderCheck, ReadHeader, ReadHeaderError, ReadBody,
                ReadBodyError, EnqueueWait, EnqueueClosed, EnqueueAdd, EnqueueReject, inputVars
  <2>2. \A t \in Threads : pc[t] = "close" => pc'[t] = "close"
    <3>1. CASE StartDispatcher
      BY <3>1 DEF StartDispatcher, TypeOK, ControlInv
    <3>2. CASE EnqueueWait
      BY <3>2 DEF EnqueueWait
    <3>3. CASE ReaderCheck \/ ReadHeader \/ ReadHeaderError \/ ReadBody \/ ReadBodyError
      BY <3>3 DEF ReaderCheck, ReadHeader, ReadHeaderError, ReadBody, ReadBodyError, Goto, TypeOK
    <3>4. CASE EnqueueClosed \/ EnqueueAdd \/ EnqueueReject
      BY <3>4 DEF EnqueueClosed, EnqueueAdd, EnqueueReject, Goto, TypeOK
    <3> QED BY <1>4, <3>1, <3>2, <3>3, <3>4 DEF ReaderStep, EnqueuePacket
  <2> QED BY <1>1, <2>1, <2>2
<1>5. CASE dispatchLoop
  <2>1. UNCHANGED <<closeVars, arrived, headers>>
    BY <1>5 DEF dispatchLoop, DispatchWait, DispatchDrain, DispatchTake, DispatchCheck, DispatchDiscard,
                DispatchHandle, Flush, DispatchRelease, inputVars
  <2>2. \A t \in Threads : pc[t] = "close" => pc'[t] = "close"
    <3>1. PICK to : pc' = [pc EXCEPT ![Dispatcher] = to] \/ pc' = pc
      BY <1>5 DEF dispatchLoop, DispatchWait, DispatchDrain, DispatchTake, DispatchCheck, DispatchDiscard,
                  DispatchHandle, Flush, DispatchRelease, Goto
    <3>2. pc[Dispatcher] # "close"
      BY <1>5 DEF dispatchLoop, DispatchWait, DispatchDrain, DispatchTake, DispatchCheck, DispatchDiscard,
                  DispatchHandle, Flush, DispatchRelease, Goto
    <3> QED BY <3>1, <3>2 DEF TypeOK
  <2> QED BY <1>1, <2>1, <2>2
<1>6. ASSUME NEW t \in Threads, CloserStarts(t)
      PROVE  CloseInv'
  <2>1. \A u \in Threads : pc[u] = "close" => pc'[u] = "close"
    BY <1>6 DEF CloserStarts, Goto, TypeOK
  <2> QED BY <1>1, <1>6, <2>1 DEF CloserStarts, inputVars
<1>7. ASSUME NEW t \in Threads, CloseMark(t)
      PROVE  CloseInv'
  BY <1>7 DEF CloseMark, inputVars
<1>8. ASSUME NEW t \in Threads, CloseConn(t)
      PROVE  CloseInv'
  BY <1>8 DEF CloseConn, inputVars
<1>9. ASSUME NEW t \in Threads, CloseAgain(t)
      PROVE  CloseInv'
  BY <1>9 DEF CloseAgain, closeVars, inputVars
<1>10. CASE UNCHANGED vars
  BY <1>10 DEF vars, closeVars, inputVars
<1> QED
  BY <1>2, <1>3, <1>4, <1>5, <1>6, <1>7, <1>8, <1>9, <1>10 DEF Next, CloseWithError

\* A worker that gives its buffer back leaves every buffer in one place.
LEMMA ReleaseExclusive ==
  ASSUME TypeOK, BuffersExclusive, NEW w \in Workers, hand[w] # NoBuffer,
         releasePacketBuffer(w), UNCHANGED queue
  PROVE  BuffersExclusive'
<1>1. Workers = {Reader, Dispatcher} /\ Reader # Dispatcher
  BY DEF Workers, Reader, Dispatcher
<1>2. <<hand[w]>> \in Seq(Buffers) /\ DOMAIN <<hand[w]>> = {1} /\ <<hand[w]>>[1] = hand[w]
  BY DEF TypeOK
<1>3. /\ pool' \in Seq(Buffers)
      /\ \A i \in DOMAIN pool' :
           \/ i \in DOMAIN pool /\ pool'[i] = pool[i]
           \/ i \notin DOMAIN pool /\ i = Len(pool) + 1 /\ pool'[i] = hand[w]
  <2>1. /\ pool' \in Seq(Buffers)
        /\ \A i \in DOMAIN pool' :
             \/ i \in DOMAIN pool /\ pool'[i] = pool[i]
             \/ /\ i \notin DOMAIN pool /\ i - Len(pool) \in DOMAIN <<hand[w]>>
                /\ pool'[i] = <<hand[w]>>[i - Len(pool)]
    BY <1>2, PooledProperties DEF TypeOK, releasePacketBuffer
  <2>2. Len(pool) \in Nat /\ DOMAIN pool' \subseteq Nat
    BY <2>1 DEF TypeOK
  <2> QED BY <1>2, <2>1, <2>2
<1>4. \A i \in DOMAIN queue : queue[i] \in Buffers
  BY DEF TypeOK
<1>5. hand' = [hand EXCEPT ![w] = NoBuffer] /\ hand \in [Workers -> Buffers \cup {NoBuffer}]
  BY DEF TypeOK, releasePacketBuffer
<1>6. \A i \in DOMAIN pool' : pool'[i] \in Buffers
  BY <1>3
<1>7. NoBuffer \notin Buffers
  BY ConstantsAssumption
<1>8. \A i, j \in DOMAIN pool' : pool'[i] = pool'[j] => i = j
  BY <1>3 DEF BuffersExclusive
<1>9. \A i \in DOMAIN queue, j \in DOMAIN pool' : queue[i] # pool'[j]
  BY <1>3 DEF BuffersExclusive
<1>10. \A v \in Workers : \A i \in DOMAIN queue : hand'[v] # queue[i]
  BY <1>4, <1>5, <1>7 DEF BuffersExclusive
<1>11. \A v \in Workers : \A i \in DOMAIN pool' : hand'[v] # pool'[i]
  <2> SUFFICES ASSUME NEW v \in Workers, NEW i \in DOMAIN pool' PROVE hand'[v] # pool'[i]
    OBVIOUS
  <2>1. CASE v = w
    BY <2>1, <1>5, <1>6, <1>7
  <2>2. CASE v # w
    <3>1. hand'[v] = hand[v] /\ (hand[v] = hand[w] => hand[v] = NoBuffer)
      BY <2>2, <1>1, <1>5 DEF BuffersExclusive
    <3> QED BY <3>1, <1>3 DEF BuffersExclusive
  <2> QED BY <2>1, <2>2
<1>12. hand'[Reader] = hand'[Dispatcher] => hand'[Reader] = NoBuffer
  BY <1>1, <1>5 DEF BuffersExclusive
<1> QED BY <1>8, <1>9, <1>10, <1>11, <1>12 DEF BuffersExclusive

LEMMA BuffersStep == TypeOK /\ ControlInv /\ BuffersExclusive /\ [Next]_vars => BuffersExclusive'
<1> SUFFICES ASSUME TypeOK, ControlInv, BuffersExclusive, [Next]_vars PROVE BuffersExclusive'
  OBVIOUS
<1> USE DEF queueVars, bufferVars
<1> /\ Reader # Dispatcher /\ Reader \in Threads /\ Dispatcher \in Threads
    /\ Reader \notin Closers /\ Dispatcher \notin Closers
    /\ Workers = {Reader, Dispatcher}
  BY ConstantsAssumption DEF Reader, Dispatcher, Workers, Threads
<1>1. CASE PumpCopy
  BY <1>1 DEF PumpCopy, BuffersExclusive
<1>2. CASE PumpEnd \/ PeerStalls
  BY <1>2 DEF PumpEnd, PeerStalls, BuffersExclusive
<1>3. CASE StartDispatcher
  BY <1>3 DEF StartDispatcher, BuffersExclusive
<1>4. CASE ReaderCheck
  BY <1>4 DEF ReaderCheck, BuffersExclusive
<1>5. CASE ReadHeader
  <2>1. NoBuffer \notin Buffers /\ hand \in [Workers -> Buffers \cup {NoBuffer}]
    BY ConstantsAssumption DEF TypeOK
  <2>2. UNCHANGED queue
    BY <1>5 DEF ReadHeader
  <2>3. ASSUME NEW b \in Buffers \ InUse, hand' = [hand EXCEPT ![Reader] = b]
        PROVE  /\ \A i \in DOMAIN queue : hand'[Reader] # queue[i]
               /\ \A i \in DOMAIN pool : hand'[Reader] # pool[i]
               /\ hand'[Reader] # hand'[Dispatcher]
    BY <2>1, <2>3 DEF InUse, InSeq, Held
  <2>4. CASE pool = <<>>
    <3>1. PICK b \in Buffers \ InUse : hand' = [hand EXCEPT ![Reader] = b]
      BY <1>5, <2>4 DEF ReadHeader, acquirePacketBuffer
    <3>2. UNCHANGED pool
      BY <1>5, <2>4 DEF ReadHeader, acquirePacketBuffer
    <3> QED BY <2>1, <2>2, <2>3, <3>1, <3>2 DEF BuffersExclusive
  <2>5. CASE pool # <<>>
    <3>1. pool' = Tail(pool)
      BY <1>5, <2>5 DEF ReadHeader, acquirePacketBuffer
    <3>2. /\ Head(pool) = pool[1] /\ pool[1] \in Buffers /\ 1 \in DOMAIN pool
          /\ \A i \in DOMAIN pool' : i # 0 /\ i + 1 \in DOMAIN pool /\ pool'[i] = pool[i + 1]
          /\ DOMAIN pool' \subseteq Nat
      BY <2>5, <3>1, HeadTailProperties DEF TypeOK
    <3>3. /\ \A i, j \in DOMAIN pool' : pool'[i] = pool'[j] => i = j
          /\ \A i \in DOMAIN queue, j \in DOMAIN pool' : queue[i] # pool'[j]
          /\ \A i \in DOMAIN pool' : hand[Dispatcher] # pool'[i]
      BY <3>2 DEF BuffersExclusive
    <3>4. CASE hand' = [hand EXCEPT ![Reader] = Head(pool)]
      <4>1. hand'[Reader] = pool[1] /\ hand'[Dispatcher] = hand[Dispatcher]
        BY <2>1, <3>2, <3>4
      <4>2. \A i \in DOMAIN pool' : pool[1] # pool'[i]
        BY <3>2 DEF BuffersExclusive
      <4> QED BY <2>2, <3>2, <3>3, <4>1, <4>2 DEF BuffersExclusive
    <3>5. ASSUME NEW b \in Buffers \ InUse, hand' = [hand EXCEPT ![Reader] = b]
          PROVE  BuffersExclusive'
      <4>1. hand'[Dispatcher] = hand[Dispatcher]
        BY <2>1, <3>5
      <4>2. /\ \A i \in DOMAIN queue : hand'[Reader] # queue[i]
            /\ \A i \in DOMAIN pool' : hand'[Reader] # pool'[i]
            /\ hand'[Reader] # hand'[Dispatcher]
        BY <2>3, <3>2, <3>5
      <4> QED BY <2>2, <3>3, <4>1, <4>2 DEF BuffersExclusive
    <3> QED BY <1>5, <2>5, <3>4, <3>5 DEF ReadHeader, acquirePacketBuffer
  <2> QED BY <2>4, <2>5
<1>6. CASE ReadHeaderError
  BY <1>6 DEF ReadHeaderError, BuffersExclusive
<1>7. CASE ReadBody
  BY <1>7 DEF ReadBody, BuffersExclusive
<1>8. CASE ReadBodyError
  <2>1. hand[Reader] # NoBuffer /\ releasePacketBuffer(Reader) /\ UNCHANGED queue
    BY <1>8 DEF ReadBodyError, ControlInv, Goto, queueVars
  <2> QED BY <2>1, ReleaseExclusive
<1>9. CASE EnqueueWait
  BY <1>9 DEF EnqueueWait, BuffersExclusive
<1>10. CASE EnqueueClosed
  BY <1>10 DEF EnqueueClosed, BuffersExclusive
<1>11. CASE EnqueueAdd
  <2>1. hand[Reader] \in Buffers /\ NoBuffer \notin Buffers
    BY <1>11, ConstantsAssumption DEF EnqueueAdd, TypeOK, ControlInv, Goto
  <2>2. hand'[Reader] = NoBuffer /\ hand'[Dispatcher] = hand[Dispatcher] /\ UNCHANGED pool
    BY <1>11 DEF EnqueueAdd, TypeOK
  <2>4. \A i \in DOMAIN queue' :
          \/ i \in DOMAIN queue /\ queue'[i] = queue[i]
          \/ i \notin DOMAIN queue /\ i = Len(queue) + 1 /\ queue'[i] = hand[Reader]
    BY <1>11, <2>1, AppendDomain DEF EnqueueAdd, TypeOK
  <2>5. /\ \A i \in DOMAIN queue : queue[i] \in Buffers
        /\ \A i \in DOMAIN pool : pool[i] \in Buffers
    BY DEF TypeOK
  <2> QED BY <2>1, <2>2, <2>4, <2>5 DEF BuffersExclusive
<1>12. CASE EnqueueReject
  <2>1. hand[Reader] # NoBuffer /\ releasePacketBuffer(Reader) /\ UNCHANGED queue
    BY <1>12 DEF EnqueueReject, ControlInv, Goto, queueVars
  <2> QED BY <2>1, ReleaseExclusive
<1>13. CASE DispatchWait
  BY <1>13 DEF DispatchWait, BuffersExclusive
<1>14. CASE DispatchDrain
  <2>1. queue' = <<>> /\ UNCHANGED hand /\ DOMAIN queue' = {}
    BY <1>14 DEF DispatchDrain
  <2>2. /\ pool' \in Seq(Buffers)
        /\ \A i \in DOMAIN pool' :
             \/ i \in DOMAIN pool /\ pool'[i] = pool[i]
             \/ /\ i \notin DOMAIN pool /\ i - Len(pool) \in DOMAIN queue
                /\ pool'[i] = queue[i - Len(pool)]
    BY <1>14, PooledProperties DEF DispatchDrain, TypeOK
  <2>3. Len(pool) \in Nat /\ DOMAIN pool' \subseteq Nat
    BY <2>2 DEF TypeOK
  <2>4. \A i, j \in DOMAIN pool' : pool'[i] = pool'[j] => i = j
    BY <2>2, <2>3 DEF BuffersExclusive
  <2>5. \A w \in Workers : \A i \in DOMAIN pool' : hand[w] # pool'[i]
    BY <2>2 DEF BuffersExclusive
  <2> QED BY <2>1, <2>4, <2>5 DEF BuffersExclusive
<1>15. CASE DispatchTake
  <2>1. /\ Head(queue) = queue[1] /\ 1 \in DOMAIN queue /\ queue[1] \in Buffers
        /\ \A i \in DOMAIN queue' : i # 0 /\ i + 1 \in DOMAIN queue /\ queue'[i] = queue[i + 1]
        /\ DOMAIN queue' \subseteq Nat
    BY <1>15, HeadTailProperties DEF DispatchTake, TypeOK
  <2>2. hand'[Dispatcher] = queue[1] /\ hand'[Reader] = hand[Reader] /\ UNCHANGED pool
    BY <1>15, <2>1 DEF DispatchTake, TypeOK
  <2>3. /\ \A i, j \in DOMAIN queue' : queue'[i] = queue'[j] => i = j
        /\ \A i \in DOMAIN queue', j \in DOMAIN pool : queue'[i] # pool[j]
        /\ \A i \in DOMAIN queue' : queue[1] # queue'[i] /\ hand[Reader] # queue'[i]
    BY <2>1 DEF BuffersExclusive
  <2> QED BY <2>1, <2>2, <2>3 DEF BuffersExclusive
<1>16. CASE DispatchCheck
  BY <1>16 DEF DispatchCheck, BuffersExclusive
<1>17. CASE DispatchDiscard
  <2>1. hand[Dispatcher] # NoBuffer /\ releasePacketBuffer(Dispatcher) /\ UNCHANGED queue
    BY <1>17 DEF DispatchDiscard, ControlInv, Goto, queueVars
  <2> QED BY <2>1, ReleaseExclusive
<1>18. CASE DispatchHandle
  BY <1>18 DEF DispatchHandle, BuffersExclusive
<1>19. CASE DispatchRelease
  <2>1. hand[Dispatcher] # NoBuffer /\ releasePacketBuffer(Dispatcher) /\ UNCHANGED queue
    BY <1>19 DEF DispatchRelease, ControlInv, Goto, queueVars
  <2> QED BY <2>1, ReleaseExclusive
<1>25. CASE Flush
  BY <1>25 DEF Flush, BuffersExclusive
<1>20. ASSUME NEW t \in Threads, CloserStarts(t) PROVE BuffersExclusive'
  BY <1>20 DEF CloserStarts, AfterClose, BuffersExclusive
<1>21. ASSUME NEW t \in Threads, CloseMark(t) PROVE BuffersExclusive'
  BY <1>21 DEF CloseMark, AfterClose, BuffersExclusive
<1>22. ASSUME NEW t \in Threads, CloseConn(t) PROVE BuffersExclusive'
  BY <1>22 DEF CloseConn, AfterClose, BuffersExclusive
<1>23. ASSUME NEW t \in Threads, CloseAgain(t) PROVE BuffersExclusive'
  BY <1>23 DEF CloseAgain, AfterClose, BuffersExclusive
<1>24. CASE UNCHANGED vars
  BY <1>24 DEF vars, BuffersExclusive
<1> QED
  BY <1>1, <1>2, <1>3, <1>4, <1>5, <1>6, <1>7, <1>8, <1>9, <1>10, <1>11, <1>12, <1>13, <1>14, <1>15, <1>16, <1>17, <1>18, <1>19, <1>20, <1>21, <1>22, <1>23, <1>24, <1>25
  DEF Next, ReaderStep, EnqueuePacket, dispatchLoop, CloseWithError

LEMMA NumberStep ==
  TypeOK /\ ControlInv /\ BuffersExclusive /\ NumberInv /\ DeliveredInOrder /\ [Next]_vars =>
    (NumberInv /\ DeliveredInOrder)'
<1> SUFFICES ASSUME TypeOK, ControlInv, BuffersExclusive, NumberInv, DeliveredInOrder, [Next]_vars PROVE (NumberInv /\ DeliveredInOrder)'
  OBVIOUS
<1> USE DEF queueVars, bufferVars, closeVars, inputVars, logVars, Goto
<1> /\ Reader # Dispatcher /\ Reader \in Threads /\ Dispatcher \in Threads
    /\ Reader \notin Closers /\ Dispatcher \notin Closers
    /\ Workers = {Reader, Dispatcher}
  BY ConstantsAssumption DEF Reader, Dispatcher, Workers, Threads
<1>n. Len(queue) \in Nat /\ Len(delivered) \in Nat /\ accepted \in Nat /\ taken \in Nat
  BY DEF TypeOK
<1>f. hand \in [Workers -> Buffers \cup {NoBuffer}] /\ content \in [Buffers -> Nat]
  BY DEF TypeOK
<1>t. /\ pc \in [Threads -> ReaderPCs \cup DispatcherPCs \cup CloserPCs]
     /\ hand \in [Workers -> Buffers \cup {NoBuffer}]
     /\ \A i \in DOMAIN queue : queue[i] \in Buffers
     /\ Len(queue) \in Nat /\ Len(delivered) \in Nat /\ accepted \in Nat /\ taken \in Nat
     /\ content \in [Buffers -> Nat]
     /\ late \in BOOLEAN /\ closed \in BOOLEAN
  BY DEF TypeOK
<1>1. CASE PumpCopy
  BY <1>1, <1>t DEF PumpCopy, NumberInv, DeliveredInOrder
<1>2. CASE PumpEnd \/ PeerStalls
  BY <1>2, <1>t DEF PumpEnd, PeerStalls, NumberInv, DeliveredInOrder
<1>3. CASE StartDispatcher
  BY <1>3, <1>t DEF StartDispatcher, ControlInv, NumberInv, DeliveredInOrder
<1>4. CASE ReaderCheck
  BY <1>4, <1>t DEF ReaderCheck, NumberInv, DeliveredInOrder
<1>5. CASE ReadHeader
  <2>1. UNCHANGED content /\ hand'[Dispatcher] = hand[Dispatcher]
    BY <1>5, <1>t DEF ReadHeader, acquirePacketBuffer
  <2> QED BY <1>5, <1>t, <2>1 DEF ReadHeader, NumberInv, DeliveredInOrder
<1>6. CASE ReadHeaderError
  BY <1>6, <1>t DEF ReadHeaderError, NumberInv, DeliveredInOrder
<1>7. CASE ReadBody
  <2>1. hand[Reader] \in Buffers
    BY <1>7, <1>t DEF ReadBody, ControlInv
  <2>2. /\ content'[hand[Reader]] = taken
        /\ \A b \in Buffers : b # hand[Reader] => content'[b] = content[b]
    <3>1. content' = [content EXCEPT ![hand[Reader]] = taken]
      BY <1>7 DEF ReadBody
    <3>2. content'[hand[Reader]] = taken
      BY <1>f, <2>1, <3>1
    <3>3. ASSUME NEW b \in Buffers, b # hand[Reader] PROVE content'[b] = content[b]
      BY <1>t, <3>1, <3>3
    <3> QED BY <3>2, <3>3
  <2>3. \A i \in DOMAIN queue : content'[queue[i]] = content[queue[i]]
    BY <1>t, <2>2 DEF BuffersExclusive
  <2>4. hand[Dispatcher] # NoBuffer => content'[hand[Dispatcher]] = content[hand[Dispatcher]]
    BY <1>t, <2>1, <2>2 DEF BuffersExclusive
  <2> QED BY <1>7, <1>t, <2>2, <2>3, <2>4 DEF ReadBody, ControlInv, NumberInv, DeliveredInOrder
<1>8. CASE ReadBodyError
  BY <1>8, <1>t DEF ReadBodyError, releasePacketBuffer, NumberInv, DeliveredInOrder
<1>9. CASE EnqueueWait
  BY <1>9, <1>t DEF EnqueueWait, NumberInv, DeliveredInOrder
<1>10. CASE EnqueueClosed
  BY <1>10, <1>t DEF EnqueueClosed, NumberInv, DeliveredInOrder
<1>11. CASE EnqueueAdd
  <2>1. hand[Reader] \in Buffers /\ content[hand[Reader]] = accepted + 1
    BY <1>11, <1>t DEF EnqueueAdd, ControlInv, NumberInv
  <2>2. Len(queue') = Len(queue) + 1
    BY <1>11, <2>1, AppendProperties DEF EnqueueAdd, TypeOK
  <2>3. \A i \in DOMAIN queue' :
          \/ i \in DOMAIN queue /\ queue'[i] = queue[i]
          \/ i \notin DOMAIN queue /\ i = Len(queue) + 1 /\ queue'[i] = hand[Reader]
    BY <1>11, <2>1, AppendDomain DEF EnqueueAdd, TypeOK
  <2>4. UNCHANGED content /\ accepted' = accepted + 1 /\ hand'[Dispatcher] = hand[Dispatcher]
    BY <1>11, <1>t DEF EnqueueAdd
  <2>5. \A i \in DOMAIN queue' : content'[queue'[i]] = accepted' - Len(queue') + i
    <3> SUFFICES ASSUME NEW i \in DOMAIN queue'
                 PROVE content'[queue'[i]] = accepted' - Len(queue') + i
      OBVIOUS
    <3>1. CASE i \in DOMAIN queue
      <4>1. content[queue[i]] = accepted - Len(queue) + i /\ i \in Int
        BY <3>1 DEF TypeOK, NumberInv
      <4>2. content'[queue'[i]] = content[queue[i]]
        BY <2>3, <2>4, <3>1
      <4>3. accepted' - Len(queue') = accepted - Len(queue)
        BY <1>n, <2>2, <2>4
      <4> QED BY <4>1, <4>2, <4>3
    <3>2. CASE i \notin DOMAIN queue
      <4>1. i = Len(queue) + 1 /\ queue'[i] = hand[Reader]
        BY <2>3, <3>2
      <4>2. content'[queue'[i]] = accepted + 1
        BY <2>1, <2>4, <4>1
      <4>3. accepted' - Len(queue') + i = accepted + 1
        BY <1>n, <2>2, <2>4, <4>1
      <4> QED BY <4>2, <4>3
    <3> QED BY <3>1, <3>2
  <2>6. /\ pc[Reader] = "enqueue" /\ pc'[Reader] = "check"
        /\ pc'[Dispatcher] = pc[Dispatcher]
        /\ UNCHANGED <<taken, delivered, late, closed>>
    BY <1>11, <1>t DEF EnqueueAdd
  <2>7. pc[Dispatcher] \in {"unstarted", "take", "flush", "release", "close"} =>
          Len(delivered) = accepted - Len(queue)
    BY DEF NumberInv
  <2>8. pc[Dispatcher] \in {"popped", "handle"} =>
          /\ Len(delivered) = accepted - Len(queue) - 1
          /\ content[hand[Dispatcher]] = Len(delivered) + 1
    BY DEF NumberInv
  <2>9. accepted' - Len(queue') = accepted - Len(queue)
    BY <1>n, <2>2, <2>4
  <2> QED BY <2>4, <2>5, <2>6, <2>7, <2>8, <2>9 DEF NumberInv, DeliveredInOrder
<1>12. CASE EnqueueReject
  BY <1>12, <1>t DEF EnqueueReject, releasePacketBuffer, NumberInv, DeliveredInOrder
<1>13. CASE DispatchWait
  BY <1>13, <1>t DEF DispatchWait, NumberInv, DeliveredInOrder
<1>14. CASE DispatchDrain
  BY <1>14, <1>t DEF DispatchDrain, NumberInv, DeliveredInOrder
<1>15. CASE DispatchTake
  <2>1. /\ Head(queue) = queue[1] /\ 1 \in DOMAIN queue /\ queue[1] \in Buffers
        /\ \A i \in DOMAIN queue' : i # 0 /\ i + 1 \in DOMAIN queue /\ queue'[i] = queue[i + 1]
        /\ DOMAIN queue' \subseteq Nat /\ Len(queue') = Len(queue) - 1
    BY <1>15, HeadTailProperties DEF DispatchTake, TypeOK
  <2>2. /\ UNCHANGED <<content, accepted, delivered>>
        /\ hand'[Dispatcher] = queue[1] /\ hand'[Reader] = hand[Reader]
    BY <1>15, <1>t, <2>1 DEF DispatchTake
  <2>3. \A i \in DOMAIN queue' : content'[queue'[i]] = accepted' - Len(queue') + i
    <3> SUFFICES ASSUME NEW i \in DOMAIN queue'
                 PROVE content'[queue'[i]] = accepted' - Len(queue') + i
      OBVIOUS
    <3>1. content[queue[i + 1]] = accepted - Len(queue) + (i + 1) /\ i \in Nat
      BY <2>1 DEF NumberInv
    <3>2. content'[queue'[i]] = content[queue[i + 1]]
      BY <2>1, <2>2
    <3>3. accepted' - Len(queue') + i = accepted - Len(queue) + (i + 1)
      BY <1>n, <2>1, <2>2, <3>1
    <3> QED BY <3>1, <3>2, <3>3
  <2>4. content[queue[1]] = Len(delivered) + 1
    <3>1. content[queue[1]] = accepted - Len(queue) + 1 /\ Len(delivered) = accepted - Len(queue)
      BY <1>15, <2>1 DEF DispatchTake, NumberInv
    <3> QED BY <1>t, <3>1
  <2> QED BY <1>15, <1>t, <2>1, <2>2, <2>3, <2>4 DEF DispatchTake, NumberInv, DeliveredInOrder
<1>16. CASE DispatchCheck
  BY <1>16, <1>t DEF DispatchCheck, NumberInv, DeliveredInOrder
<1>17. CASE DispatchDiscard
  BY <1>17, <1>t DEF DispatchDiscard, releasePacketBuffer, NumberInv, DeliveredInOrder
<1>18. CASE DispatchHandle
  <2>1. content[hand[Dispatcher]] = Len(delivered) + 1
    BY <1>18 DEF DispatchHandle, NumberInv
  <2>2. /\ Len(delivered') = Len(delivered) + 1
        /\ \A i \in DOMAIN delivered' :
             \/ i \in DOMAIN delivered /\ delivered'[i] = delivered[i]
             \/ i = Len(delivered) + 1 /\ delivered'[i] = Len(delivered) + 1
    <3>1. delivered' = Append(delivered, content[hand[Dispatcher]]) /\ delivered \in Seq(Nat)
      BY <1>18 DEF DispatchHandle, TypeOK
    <3>2. Len(delivered) + 1 \in Nat
      BY <1>t
    <3> QED BY <2>1, <3>1, <3>2, AppendProperties, AppendDomain
  <2>3. /\ pc[Dispatcher] = "handle" /\ pc'[Dispatcher] \in {"flush", "close", "release"}
        /\ pc'[Reader] = pc[Reader]
        /\ UNCHANGED <<accepted, queue, content, hand, taken, closed>>
    BY <1>18, <1>t DEF DispatchHandle
  <2>4. late' => closed'
    <3>1. late => closed
      BY DEF NumberInv
    <3>2. late' = (late \/ closed) /\ closed' = closed
      BY <1>18 DEF DispatchHandle
    <3> QED BY <3>1, <3>2
  <2>5. DeliveredInOrder'
    BY <1>t, <2>2 DEF DeliveredInOrder
  <2>6. Len(delivered') = accepted' - Len(queue')
    <3>1. Len(delivered) = accepted - Len(queue) - 1
      BY <2>3 DEF NumberInv
    <3>2. accepted' - Len(queue') = accepted - Len(queue)
      BY <2>3
    <3> QED BY <1>n, <2>2, <3>1, <3>2
  <2> QED BY <2>3, <2>4, <2>5, <2>6 DEF NumberInv, DeliveredInOrder
<1>19. CASE DispatchRelease
  BY <1>19, <1>t DEF DispatchRelease, releasePacketBuffer, NumberInv, DeliveredInOrder
<1>25. CASE Flush
  BY <1>25, <1>t DEF Flush, NumberInv, DeliveredInOrder
<1>20. ASSUME NEW t \in Threads, CloserStarts(t) PROVE (NumberInv /\ DeliveredInOrder)'
  BY <1>20, <1>t DEF CloserStarts, AfterClose, NumberInv, DeliveredInOrder
<1>21. ASSUME NEW t \in Threads, CloseMark(t) PROVE (NumberInv /\ DeliveredInOrder)'
  BY <1>21, <1>t DEF CloseMark, AfterClose, NumberInv, DeliveredInOrder
<1>22. ASSUME NEW t \in Threads, CloseConn(t) PROVE (NumberInv /\ DeliveredInOrder)'
  BY <1>22, <1>t DEF CloseConn, AfterClose, NumberInv, DeliveredInOrder
<1>23. ASSUME NEW t \in Threads, CloseAgain(t) PROVE (NumberInv /\ DeliveredInOrder)'
  BY <1>23, <1>t DEF CloseAgain, AfterClose, NumberInv, DeliveredInOrder
<1>24. CASE UNCHANGED vars
  BY <1>24, <1>t DEF vars, NumberInv, DeliveredInOrder
<1> QED
  BY <1>1, <1>2, <1>3, <1>4, <1>5, <1>6, <1>7, <1>8, <1>9, <1>10, <1>11, <1>12, <1>13, <1>14, <1>15, <1>16, <1>17, <1>18, <1>19, <1>20, <1>21, <1>22, <1>23, <1>24, <1>25
  DEF Next, ReaderStep, EnqueuePacket, dispatchLoop, CloseWithError

-----------------------------------------------------------------------------
(* The theorems.                                                           *)

LEMMA InitIndInv == Init => IndInv
<1> SUFFICES ASSUME Init PROVE IndInv
  OBVIOUS
<1>1. Reader \in Threads /\ Dispatcher \in Threads /\ Reader # Dispatcher
  BY DEF Reader, Dispatcher, Workers, Threads
<1>2. pc[Reader] = "start" /\ pc[Dispatcher] = "unstarted"
  BY <1>1 DEF Init
<1>3. hand[Reader] = NoBuffer /\ hand[Dispatcher] = NoBuffer
  BY DEF Init, Workers
<1>4. Len(queue) = 0 /\ DOMAIN queue = {} /\ Len(delivered) = 0 /\ DOMAIN delivered = {}
      /\ DOMAIN pool = {}
  BY DEF Init
<1>5. ControlInv
  BY <1>2, <1>3 DEF ControlInv, ReaderPCs, DispatcherPCs
<1>6. SleepInv
  BY <1>4, ConstantsAssumption DEF Init, SleepInv
<1>7. BuffersExclusive
  BY <1>3, <1>4 DEF BuffersExclusive
<1>8. NumberInv /\ DeliveredInOrder
  <2>1. accepted = 0 /\ taken = 0 /\ late = FALSE
    BY DEF Init
  <2> QED BY <1>2, <1>4, <2>1 DEF NumberInv, DeliveredInOrder
<1>9. CloseInv
  BY DEF Init, CloseInv
<1> QED BY <1>5, <1>6, <1>7, <1>8, <1>9, InitTypeOK DEF IndInv

\* The inductive invariant holds in every reachable state.
THEOREM Invariance == Spec => []IndInv
<1>1. IndInv /\ [Next]_vars => IndInv'
  BY TypeStep, ControlStep, SleepStep, CloseStep, BuffersStep, NumberStep DEF IndInv
<1> QED BY <1>1, InitIndInv, PTL DEF Spec

\* Every variable of PacketQueue keeps its type.
THEOREM TypeCorrect == Spec => []TypeOK
BY Invariance, PTL DEF IndInv

\* For every queue limit, a goroutine sleeps in queueCond.Wait only while its
\* own condition is false: Signal, which wakes one goroutine, is enough.
THEOREM NoWakeupIsLost == Spec => []NoLostWakeup
<1>1. IndInv => NoLostWakeup
  <2> SUFFICES ASSUME IndInv PROVE NoLostWakeup
    OBVIOUS
  <2>1. waiting \subseteq {Reader, Dispatcher} /\ closed \in BOOLEAN
    BY DEF IndInv, TypeOK, Workers
  <2> QED BY <2>1 DEF IndInv, SleepInv, NoLostWakeup
<1> QED BY <1>1, Invariance, PTL

\* For every pool size and number of buffers, no buffer is in two places.
THEOREM BuffersAreExclusive == Spec => []BuffersExclusive
<1>1. IndInv => BuffersExclusive
  BY DEF IndInv
<1> QED BY <1>1, Invariance, PTL

\* After the close each goroutine can go on by itself, once the one inside closeOnce,
\* which can as well, has closed the connection.
THEOREM ClosedHangsNowhere == Spec => []ClosedGoesOn
<1>1. IndInv => ClosedGoesOn
  <2> SUFFICES ASSUME IndInv, closed
               PROVE  ClosedGoesOn
    BY DEF ClosedGoesOn
  <2>1. CASE once = "running"
    BY <2>1 DEF IndInv, CloseInv, ConnClosed, CanClose, ClosedGoesOn
  <2>2. CASE once = "done"
    <3>1. waiting = {}
      BY DEF IndInv, TypeOK, SleepInv, Workers
    <3>2. pc[Reader] = "done" \/ ReaderCan \/ (~pumpEnded /\ arrived - taken < RingSize)
      <4>1. /\ arrived \in Nat /\ taken \in Nat /\ headers \in Nat /\ arrived <= headers
            /\ RingSize \in Nat \ {0}
        BY ConstantsAssumption DEF IndInv, TypeOK, CloseInv
      <4>2. CASE pc[Reader] \in {"header", "body"}
        BY <4>1, <4>2 DEF ReaderCan
      <4>3. CASE pc[Reader] \notin {"header", "body"}
        BY <2>2, <3>1, <4>3 DEF IndInv, ControlInv, ReaderPCs, ReaderCan, CanClose, CanEnter
      <4> QED BY <4>2, <4>3
    <3>3. pc[Dispatcher] = "done" \/ DispatcherCan \/ pc[Reader] = "start"
      BY <2>2, <3>1 DEF IndInv, ControlInv, DispatcherPCs, DispatcherCan, WriteBlocks, ConnClosed, CanClose, CanEnter
    <3> QED BY <2>2, <3>2, <3>3 DEF ConnClosed, ClosedGoesOn
  <2> QED BY <2>1, <2>2 DEF IndInv, TypeOK, CloseInv
<1> QED BY <1>1, Invariance, PTL

\* What is left of each worker's way after the close.
LEMMA ReaderDescends ==
  ASSUME IndInv, closed, ReaderStep \/ CloseWithError(Reader)
  PROVE  /\ StepsLeft'[Reader] < StepsLeft[Reader]
         /\ pc'[Reader] # pc[Reader]
         /\ pc'[Dispatcher] = pc[Dispatcher] \/ StepsLeft'[Dispatcher] < StepsLeft[Dispatcher]
<1>1. /\ Reader \in Workers /\ Dispatcher \in Workers /\ Reader # Dispatcher
      /\ Reader \in Threads /\ Dispatcher \in Threads
  BY DEF Reader, Dispatcher, Workers, Threads
<1>2. once # "idle"
  BY DEF IndInv, CloseInv
<1>3. ASSUME StartDispatcher
      PROVE  /\ pc[Reader] = "start" /\ pc'[Reader] = "check"
             /\ pc[Dispatcher] = "unstarted" /\ pc'[Dispatcher] = "take"
  BY <1>1, <1>3 DEF StartDispatcher, IndInv, TypeOK, ControlInv
<1>4. ASSUME ~StartDispatcher
      PROVE  pc'[Dispatcher] = pc[Dispatcher]
  BY <1>1, <1>4 DEF ReaderStep, EnqueuePacket, ReaderCheck, ReadHeader, ReadHeaderError, ReadBody, ReadBodyError,
                    EnqueueWait, EnqueueClosed, EnqueueAdd, EnqueueReject, CloseWithError, CloseMark, CloseConn,
                    CloseAgain, Goto, IndInv, TypeOK
<1>5. ASSUME ~StartDispatcher
      PROVE  \/ pc[Reader] = "check" /\ pc'[Reader] = "close"
             \/ pc[Reader] = "header" /\ pc'[Reader] \in {"body", "close"}
             \/ pc[Reader] = "body" /\ pc'[Reader] \in {"enqueue", "close"}
             \/ pc[Reader] = "enqueue" /\ pc'[Reader] = "reject"
             \/ pc[Reader] = "reject" /\ pc'[Reader] = "close"
             \/ pc[Reader] = "close" /\ pc'[Reader] = "done"
  BY <1>1, <1>2, <1>5 DEF ReaderStep, EnqueuePacket, ReaderCheck, ReadHeader, ReadHeaderError, ReadBody, ReadBodyError,
                    EnqueueWait, EnqueueClosed, EnqueueAdd, EnqueueReject, CloseWithError, CloseMark, CloseConn,
                    CloseAgain, AfterClose, Goto, IndInv, TypeOK
<1> QED BY <1>1, <1>3, <1>4, <1>5 DEF StepsLeft

LEMMA DispatcherDescends ==
  ASSUME IndInv, closed, dispatchLoop \/ CloseWithError(Dispatcher)
  PROVE  /\ StepsLeft'[Dispatcher] < StepsLeft[Dispatcher]
         /\ pc'[Dispatcher] # pc[Dispatcher]
         /\ pc'[Reader] = pc[Reader]
<1>1. /\ Reader \in Workers /\ Dispatcher \in Workers /\ Reader # Dispatcher
      /\ Reader \in Threads /\ Dispatcher \in Threads
  BY DEF Reader, Dispatcher, Workers, Threads
<1>2. once # "idle"
  BY DEF IndInv, CloseInv
<1>3. pc'[Reader] = pc[Reader]
  BY <1>1 DEF dispatchLoop, DispatchWait, DispatchDrain, DispatchTake, DispatchCheck, DispatchDiscard, DispatchHandle,
              Flush, DispatchRelease, CloseWithError, CloseMark, CloseConn, CloseAgain, Goto, IndInv, TypeOK
<1>4. \/ pc[Dispatcher] = "take" /\ pc'[Dispatcher] = "done"
      \/ pc[Dispatcher] = "popped" /\ pc'[Dispatcher] = "discard"
      \/ pc[Dispatcher] = "discard" /\ pc'[Dispatcher] = "done"
      \/ pc[Dispatcher] = "handle" /\ pc'[Dispatcher] \in {"flush", "close", "release"}
      \/ pc[Dispatcher] = "flush" /\ pc'[Dispatcher] \in {"release", "close"}
      \/ pc[Dispatcher] = "release" /\ pc'[Dispatcher] = "take"
      \/ pc[Dispatcher] = "close" /\ pc'[Dispatcher] = "release"
  BY <1>1, <1>2 DEF dispatchLoop, DispatchWait, DispatchDrain, DispatchTake, DispatchCheck, DispatchDiscard,
              DispatchHandle, Flush, DispatchRelease, CloseWithError, CloseMark, CloseConn, CloseAgain, AfterClose, Goto,
              IndInv, TypeOK
<1> QED BY <1>1, <1>3, <1>4 DEF StepsLeft

\* After the close reader and dispatcher have six steps left at most; with
\* ClosedHangsNowhere this is the argument for CloseTerminates, for every size of the
\* queue, the pool and the ring, but for the rule that concludes from fairness.
THEOREM ClosedComesToAnEnd == Spec => ClosedDescends
<1>1. IndInv /\ [Next]_vars =>
        [closed =>
           /\ \A w \in Workers : pc'[w] = pc[w] \/ StepsLeft'[w] < StepsLeft[w]
           /\ ReaderStep \/ CloseWithError(Reader) => pc'[Reader] # pc[Reader]
           /\ dispatchLoop \/ CloseWithError(Dispatcher) => pc'[Dispatcher] # pc[Dispatcher]]_vars
  <2> SUFFICES ASSUME IndInv, Next, closed, NEW w \in Workers
               PROVE  /\ pc'[w] = pc[w] \/ StepsLeft'[w] < StepsLeft[w]
                      /\ ReaderStep \/ CloseWithError(Reader) => pc'[Reader] # pc[Reader]
                      /\ dispatchLoop \/ CloseWithError(Dispatcher) => pc'[Dispatcher] # pc[Dispatcher]
    BY DEF Workers
  <2>1. w = Reader \/ w = Dispatcher
    BY DEF Workers
  <2>2. \/ ReaderStep \/ CloseWithError(Reader) \/ dispatchLoop \/ CloseWithError(Dispatcher)
        \/ pc'[w] = pc[w]
    <3>1. CASE PumpCopy \/ PumpEnd \/ PeerStalls
      BY <3>1 DEF PumpCopy, PumpEnd, PeerStalls
    <3>2. ASSUME NEW t \in Closers, CloserStarts(t) \/ CloseWithError(t)
          PROVE  pc'[w] = pc[w]
      <4>1. w # t
        BY <2>1, ConstantsAssumption DEF Workers
      <4> QED BY <3>2, <4>1 DEF CloserStarts, CloseWithError, CloseMark, CloseConn, CloseAgain, Goto, IndInv, TypeOK, Threads
    <3>3. ASSUME NEW t \in Workers, CloserStarts(t)
          PROVE  FALSE
      BY <3>3, ConstantsAssumption DEF CloserStarts
    <3> QED BY <3>1, <3>2, <3>3 DEF Next, Threads, Workers
  <2> QED BY <2>1, <2>2, ReaderDescends, DispatcherDescends
<1> QED BY <1>1, Invariance, PTL DEF Spec, ClosedDescends

\* The queue implements the abstract channel: packets are delivered in order,
\* at most once, and at most one handler invocation ends after the close.
THEOREM QueueImplementsChannel == Spec => ImplementsChannel
<1>1. Init => Channel!Init
  BY DEF Init, Channel!Init
<1>2. IndInv /\ [Next]_vars => [Channel!Next]_Channel!vars
  <2> SUFFICES ASSUME IndInv, [Next]_vars PROVE [Channel!Next]_Channel!vars
    OBVIOUS
  <2> USE DEF Channel!Next, Channel!vars, queueVars, bufferVars, closeVars, inputVars, logVars
  <2>0. late \in BOOLEAN /\ closed \in BOOLEAN /\ Len(delivered) \in Nat /\ accepted \in Nat
        /\ Len(queue) \in Nat
    BY DEF IndInv, TypeOK
  <2>1. CASE EnqueueAdd
    BY <2>1 DEF EnqueueAdd, Channel!Accept
  <2>2. CASE DispatchHandle
    <3>1. /\ content[hand[Dispatcher]] = Len(delivered) + 1 /\ ~late
          /\ Len(delivered) < accepted
      BY <2>0, <2>2 DEF DispatchHandle, Goto, IndInv, NumberInv
    <3> QED BY <2>0, <2>2, <3>1 DEF DispatchHandle, Channel!Deliver
  <2>3. ASSUME NEW t \in Threads, CloseMark(t)
        PROVE  [Channel!Next]_Channel!vars
    <3>1. CASE closed
      BY <2>3, <3>1 DEF CloseMark
    <3>2. CASE ~closed
      BY <2>3, <3>2 DEF CloseMark, Channel!Shut
    <3> QED BY <3>1, <3>2
  <2>4. CASE UNCHANGED <<accepted, delivered, closed, late>>
    BY <2>4
  <2>5. ASSUME NEW t \in Threads, CloserStarts(t) \/ CloseConn(t) \/ CloseAgain(t)
        PROVE  UNCHANGED <<accepted, delivered, closed, late>>
    BY <2>5 DEF CloserStarts, CloseConn, CloseAgain
  <2>6. CASE PumpCopy \/ PumpEnd \/ PeerStalls \/ StartDispatcher \/ ReaderCheck \/ ReadHeader \/ ReadHeaderError
             \/ ReadBody \/ ReadBodyError \/ EnqueueWait \/ EnqueueClosed \/ EnqueueReject
    BY <2>4, <2>6 DEF PumpCopy, PumpEnd, PeerStalls, StartDispatcher, ReaderCheck, ReadHeader, ReadHeaderError,
      ReadBody, ReadBodyError, EnqueueWait, EnqueueClosed, EnqueueReject
  <2>7. CASE DispatchWait \/ DispatchDrain \/ DispatchTake \/ DispatchCheck \/ DispatchDiscard
             \/ Flush \/ DispatchRelease \/ UNCHANGED vars
    BY <2>4, <2>7 DEF DispatchWait, DispatchDrain, DispatchTake, DispatchCheck, DispatchDiscard,
      Flush, DispatchRelease, vars
  <2> QED BY <2>1, <2>2, <2>3, <2>4, <2>5, <2>6, <2>7
    DEF Next, ReaderStep, EnqueuePacket, dispatchLoop, CloseWithError
<1> QED BY <1>1, <1>2, Invariance, PTL DEF Spec, ImplementsChannel, Channel!Spec
=============================================================================
