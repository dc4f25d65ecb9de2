---------------------------- MODULE GatewayProofs ----------------------------
(***************************************************************************)
(* Proofs about Gateway, for any number of reloads and connections and any *)
(* bounds: the invariant, and the safety properties that follow from it.   *)
(* The steps of the watcher leave the connections alone, those of a        *)
(* handler leave the watcher and the other connections alone.              *)
(***************************************************************************)
EXTENDS Gateway, TLAPS

USE GatewayAssumption

LEMMA InitIndInv == Init => IndInv
<1> SUFFICES ASSUME Init
             PROVE  IndInv
  OBVIOUS
<1>1. /\ edits \in 0..MaxEdits /\ text \in [0..edits -> Texts]
      /\ current \in 0..edits /\ installed \in 0..edits
  BY DEF Init
<1>2. /\ sent \in [Conns -> [Directions -> Nat]] /\ taken = sent /\ delivered = sent
      /\ done \in [Conns -> [Directions -> BOOLEAN]] /\ clean = done
      /\ \A k \in Conns : \A d \in Directions : copier[k][d] = "none" /\ ~clean[k][d]
  BY DEF Init
<1>3. TypeOK
  BY <1>1, <1>2 DEF Init, TypeOK
<1> QED BY <1>1, <1>2, <1>3 DEF Init, IndInv, ReloadInv, CopyInv

-----------------------------------------------------------------------------
(* The watcher.                                                            *)

LEMMA CopyInvStays == CopyInv /\ UNCHANGED connVars => CopyInv'
  BY DEF CopyInv, connVars, copyVars

LEMMA StartInv == IndInv /\ (WatchStarts \/ WatchFails) => IndInv'
<1> SUFFICES ASSUME IndInv, WatchStarts \/ WatchFails
             PROVE  IndInv'
  OBVIOUS
<1>1. UNCHANGED <<text, edits, events, missed, reloadVars, connVars>> /\ watcher' \in {"watching", "failed"}
  BY DEF WatchStarts, WatchFails
<1>2. TypeOK'
  BY <1>1 DEF IndInv, TypeOK, reloadVars, connVars, copyVars
<1> QED BY <1>1, <1>2, CopyInvStays DEF IndInv, ReloadInv, reloadVars

LEMMA EditInv == IndInv /\ Edit => IndInv'
<1> SUFFICES ASSUME IndInv, Edit
             PROVE  IndInv'
  OBVIOUS
<1> USE DEF IndInv
<1>1. PICK c \in Texts : text' = [v \in 0..edits + 1 |-> IF v <= edits THEN text[v] ELSE c]
  BY DEF Edit
<1>2. /\ edits' = edits + 1 /\ edits' \in 0..MaxEdits
      /\ edits \in Nat /\ 0..edits \subseteq 0..edits'
  BY DEF Edit, TypeOK
<1>3. text' \in [0..edits' -> Texts]
  BY <1>1, <1>2 DEF TypeOK
<1>4. /\ loaded \in [Reloads -> 0..edits'] /\ config \in [Conns -> 0..edits']
      /\ current \in 0..edits' /\ installed \in 0..edits'
  BY <1>2 DEF TypeOK
<1>5. TypeOK'
  <2>1. missed' \in BOOLEAN
    BY Zenon DEF Edit
  <2>2. events' = events \/ events' = events + 1
    BY Zenon DEF Edit
  <2>3. events' \in Nat /\ watcher' = watcher
    BY <2>2 DEF Edit, TypeOK
  <2> QED BY <1>2, <1>3, <1>4, <2>1, <2>3 DEF Edit, TypeOK, reloadVars, connVars, copyVars
<1>6. ReloadInv'
  BY DEF Edit, ReloadInv, reloadVars
<1>7. CopyInv'
  BY CopyInvStays DEF Edit
<1> QED BY <1>5, <1>6, <1>7

LEMMA WatchInv == IndInv /\ Watch => IndInv'
<1> SUFFICES ASSUME IndInv, Watch
             PROVE  IndInv'
  OBVIOUS
<1> USE DEF IndInv
<1>1. CopyInv'
  BY CopyInvStays DEF Watch, ScheduleReload, TimerFires, DecodeFile, SetCurrent, Update
<1>2. CASE ScheduleReload
  BY <1>1, <1>2 DEF ScheduleReload, TypeOK, ReloadInv, connVars, copyVars
<1>3. ASSUME NEW r \in Reloads, TimerFires(r)
      PROVE  IndInv'
  <2>1. TypeOK'
    BY <1>3 DEF TimerFires, TypeOK, fileVars, connVars, copyVars
  <2>2. ReloadInv'
    BY <1>3 DEF TimerFires, TypeOK, ReloadInv
  <2> QED BY <1>1, <2>1, <2>2
<1>4. ASSUME NEW r \in Reloads, DecodeFile(r)
      PROVE  IndInv'
  <2>1. TypeOK'
    BY <1>4 DEF DecodeFile, TypeOK, fileVars, connVars, copyVars
  <2>2. ReloadInv'
    BY <1>4 DEF DecodeFile, TypeOK, ReloadInv
  <2> QED BY <1>1, <2>1, <2>2
<1>5. ASSUME NEW r \in Reloads, SetCurrent(r)
      PROVE  IndInv'
  <2>1. TypeOK'
    BY <1>5 DEF SetCurrent, AfterLoad, TypeOK, fileVars, connVars, copyVars
  <2>2. ReloadInv'
    <3> SUFFICES ASSUME ~overlapped
                 PROVE  ReloadInv'
      BY <1>5 DEF SetCurrent, ReloadInv
    <3>1. task' = [task EXCEPT ![r] = AfterLoad(r)] /\ AfterLoad(r) \in {"update", "none"}
      BY <1>5 DEF SetCurrent, AfterLoad
    <3>2. \A q \in Reloads : q # r => task'[q] = "none"
      BY <1>5, <3>1 DEF SetCurrent, TypeOK, ReloadInv
    <3>3. task'[r] \in {"update", "none"}
      BY <3>1 DEF TypeOK
    <3>4. current' = loaded[r] /\ loaded' = loaded /\ installed' = installed /\ current <= loaded[r]
      BY <1>5 DEF SetCurrent, ReloadInv
    <3>5. installed' <= current'
      BY <3>4 DEF TypeOK, ReloadInv
    <3> QED BY <3>2, <3>3, <3>4, <3>5 DEF ReloadInv
  <2> QED BY <1>1, <2>1, <2>2
<1>6. ASSUME NEW r \in Reloads, Update(r)
      PROVE  IndInv'
  <2>1. TypeOK'
    BY <1>6 DEF Update, TypeOK, fileVars, connVars, copyVars
  <2>2. ReloadInv'
    BY <1>6 DEF Update, TypeOK, ReloadInv
  <2> QED BY <1>1, <2>1, <2>2
<1> QED BY <1>2, <1>3, <1>4, <1>5, <1>6 DEF Watch

-----------------------------------------------------------------------------
(* The connections.                                                        *)

LEMMA ReloadInvStays == ReloadInv /\ UNCHANGED reloadVars => ReloadInv'
  BY DEF ReloadInv, reloadVars

LEMMA HandleInv ==
  ASSUME IndInv, NEW k \in Conns,
         Accept(k) \/ Reject(k) \/ DialFails(k) \/ Dial(k) \/ Return(k)
  PROVE  IndInv'
<1> USE DEF IndInv
<1>1. UNCHANGED <<fileVars, reloadVars>>
  BY DEF Accept, Reject, DialFails, Dial, Return
<1>2. ReloadInv'
  BY <1>1, ReloadInvStays
<1>3. CASE Accept(k)
  BY <1>2, <1>3 DEF Accept, TypeOK, CopyInv, fileVars, reloadVars, copyVars
<1>4. CASE Reject(k)
  BY <1>2, <1>4 DEF Reject, TypeOK, CopyInv, fileVars, reloadVars
<1>5. CASE DialFails(k)
  BY <1>2, <1>5 DEF DialFails, TypeOK, CopyInv, fileVars, reloadVars
<1>6. CASE Dial(k)
  <2>1. TypeOK'
    BY <1>6 DEF Dial, TypeOK, fileVars, reloadVars
  <2>2. CopyInv'
    BY <1>6 DEF Dial, TypeOK, CopyInv
  <2> QED BY <1>2, <2>1, <2>2
<1>7. CASE Return(k)
  BY <1>2, <1>7 DEF Return, TypeOK, CopyInv, fileVars, reloadVars, copyVars
<1> QED BY <1>3, <1>4, <1>5, <1>6, <1>7

LEMMA CopyStepInv ==
  ASSUME IndInv, NEW k \in Conns, NEW d \in Directions, Copy(k, d) \/ Send(k, d) \/ EndSending(k, d)
  PROVE  IndInv'
<1> USE DEF IndInv
<1>1. UNCHANGED <<fileVars, reloadVars, pc, config>>
  BY DEF Copy, ReadChunk, WriteChunk, EndOfInput, ConnFails, FindsClosed, Send, EndSending
<1>2. ReloadInv'
  BY <1>1, ReloadInvStays
<1>3. CASE Send(k, d)
  BY <1>2, <1>3 DEF Send, TypeOK, CopyInv, fileVars, reloadVars
<1>4. CASE EndSending(k, d)
  BY <1>2, <1>4 DEF EndSending, TypeOK, CopyInv, fileVars, reloadVars
<1>5. CASE ReadChunk(k, d)
  <2>1. TypeOK'
    BY <1>5 DEF ReadChunk, TypeOK, fileVars, reloadVars
  <2>2. CopyInv'
    BY <1>5 DEF ReadChunk, TypeOK, CopyInv
  <2> QED BY <1>2, <2>1, <2>2
<1>6. CASE WriteChunk(k, d)
  <2>1. TypeOK'
    BY <1>6 DEF WriteChunk, TypeOK, fileVars, reloadVars
  <2>2. CopyInv'
    BY <1>6 DEF WriteChunk, TypeOK, CopyInv
  <2> QED BY <1>2, <2>1, <2>2
<1>7. CASE EndOfInput(k, d)
  BY <1>2, <1>7 DEF EndOfInput, EndOne, TypeOK, CopyInv, fileVars, reloadVars
<1>8. CASE ConnFails(k, d)
  BY <1>2, <1>8 DEF ConnFails, EndOne, TypeOK, CopyInv, fileVars, reloadVars
<1>9. CASE FindsClosed(k, d)
  BY <1>2, <1>9 DEF FindsClosed, EndOne, TypeOK, CopyInv, fileVars, reloadVars
<1> QED BY <1>3, <1>4, <1>5, <1>6, <1>7, <1>8, <1>9 DEF Copy

LEMMA NextIndInv == IndInv /\ [Next]_vars => IndInv'
<1> SUFFICES ASSUME IndInv, [Next]_vars
             PROVE  IndInv'
  OBVIOUS
<1>1. CASE UNCHANGED vars
  BY <1>1 DEF vars, fileVars, reloadVars, connVars, copyVars, IndInv, TypeOK, ReloadInv, CopyInv
<1>2. CASE Edit \/ WatchStarts \/ WatchFails
  BY <1>2, EditInv, StartInv
<1>3. CASE Watch
  BY <1>3, WatchInv
<1>4. ASSUME NEW k \in Conns, Handle(k)
      PROVE  IndInv'
  BY <1>4, HandleInv, CopyStepInv DEF Handle
<1>5. ASSUME NEW k \in Conns, NEW d \in Directions, Send(k, d) \/ EndSending(k, d)
      PROVE  IndInv'
  BY <1>5, CopyStepInv
<1> QED BY <1>1, <1>2, <1>3, <1>4, <1>5 DEF Next

-----------------------------------------------------------------------------
(* What is under way.                                                      *)

\* An update that is not of the last version does not undo the installation of it,
\* because reloads that do not overlap install versions in order.
LEMMA UpdateForgetsNothing ==
  ASSUME IndInv, NothingIsForgotten, NEW r \in Reloads, Update(r)
  PROVE  NothingIsForgotten'
<1> SUFFICES ASSUME ~overlapped, ~missed, text[edits] \in Accepted, loaded[r] # edits
             PROVE  NothingIsForgotten'
  BY DEF Update, fileVars, NothingIsForgotten
<1>1. /\ loaded[r] = current /\ installed <= current
      /\ \A q \in Reloads : task[q] # "none" => q = r
  BY DEF Update, IndInv, ReloadInv
<1>2. installed # edits
  BY <1>1 DEF IndInv, TypeOK
<1>3. events > 0 \/ timer
  BY <1>1, <1>2 DEF Update, NothingIsForgotten, Brings
<1> QED BY <1>3 DEF Update, fileVars, NothingIsForgotten

LEMMA ForgetsNothing == IndInv /\ NothingIsForgotten /\ [Next]_vars => NothingIsForgotten'
<1> SUFFICES ASSUME IndInv, NothingIsForgotten, [Next]_vars
             PROVE  NothingIsForgotten'
  OBVIOUS
<1>1. CASE UNCHANGED <<text, edits, events, missed, reloadVars>>
  BY <1>1 DEF NothingIsForgotten, Brings, reloadVars
<1>2. CASE Edit
  <2>1. \/ events' = events + 1
        \/ events' = events /\ (missed' \/ Due)
    BY <1>2, Zenon DEF Edit
  <2>2. timer' = timer /\ task' = task /\ events \in Nat
    BY <1>2 DEF Edit, IndInv, TypeOK, reloadVars
  <2>3. missed' \/ events' > 0 \/ timer' \/ \E r \in Reloads : task'[r] = "load"
    BY <2>1, <2>2 DEF Due
  <2> QED BY <2>3 DEF NothingIsForgotten, Brings
<1>3. CASE ScheduleReload
  BY <1>3 DEF ScheduleReload, NothingIsForgotten
<1>4. ASSUME NEW r \in Reloads, TimerFires(r)
      PROVE  NothingIsForgotten'
  BY <1>4 DEF TimerFires, fileVars, IndInv, TypeOK, NothingIsForgotten, Brings
<1>5. ASSUME NEW r \in Reloads, DecodeFile(r)
      PROVE  NothingIsForgotten'
  BY <1>5 DEF DecodeFile, fileVars, IndInv, TypeOK, NothingIsForgotten, Brings
<1>6. ASSUME NEW r \in Reloads, SetCurrent(r)
      PROVE  NothingIsForgotten'
  BY <1>6 DEF SetCurrent, AfterLoad, fileVars, IndInv, TypeOK, NothingIsForgotten, Brings
<1>7. ASSUME NEW r \in Reloads, Update(r)
      PROVE  NothingIsForgotten'
  BY <1>7, UpdateForgetsNothing
<1>8. Edit \/ Watch \/ UNCHANGED <<text, edits, events, missed, reloadVars>>
  BY DEF Next, WatchStarts, WatchFails, Handle, Accept, Reject, DialFails, Dial, Return, Copy, ReadChunk, WriteChunk,
         EndOfInput, ConnFails, FindsClosed, Send, EndSending, vars, fileVars
<1> QED BY <1>1, <1>2, <1>3, <1>4, <1>5, <1>6, <1>7, <1>8 DEF Watch

-----------------------------------------------------------------------------
(* The theorems.                                                           *)

\* Reloads that do not overlap work on what config.current holds, and each
\* goroutine of a connection ends with both sides closed.
THEOREM Invariance == Spec => []IndInv
<1>1. Init => IndInv
  BY InitIndInv
<1>2. IndInv /\ [Next]_vars => IndInv'
  BY NextIndInv
<1> QED BY <1>1, <1>2, PTL DEF Spec

\* Until reloads overlap, config.current is at least as new as the configuration
\* that the gateway goes by.
THEOREM CurrentLeads == Spec => []CurrentIsNotOlder
<1>1. IndInv => CurrentIsNotOlder
  BY DEF IndInv, ReloadInv, CurrentIsNotOlder
<1> QED BY <1>1, Invariance, PTL

\* The last version of the file is installed, cannot be, is on its way, or was missed by
\* the watcher when nothing was due to read it.
THEOREM NoEditIsLost == Spec => []NothingIsForgotten
<1>1. Init => NothingIsForgotten
  BY DEF Init, NothingIsForgotten
<1>2. IndInv /\ NothingIsForgotten /\ [Next]_vars => NothingIsForgotten'
  BY ForgetsNothing
<1> QED BY <1>1, <1>2, Invariance, PTL DEF Spec

\* A direction that ends at the end of its input has been forwarded in full.
THEOREM EndsWhole == Spec => []EndIsWhole
<1>1. IndInv => EndIsWhole
  BY DEF IndInv, CopyInv, EndIsWhole
<1> QED BY <1>1, Invariance, PTL

\* However often and quickly the file changes, only reloads that overlap can bring an
\* older configuration back.
THEOREM OnlyOverlapGoesBack == Spec => NeverGoesBack
<1>1. IndInv /\ [Next]_vars => [~overlapped' => installed' >= installed]_vars
  <2> SUFFICES ASSUME IndInv, Next, ~overlapped'
               PROVE  installed' >= installed
    OBVIOUS
  <2>1. installed \in Nat /\ current \in Nat
    BY DEF IndInv, TypeOK
  <2>2. ASSUME NEW r \in Reloads, Update(r)
        PROVE  installed' >= installed
    BY <2>1, <2>2 DEF Update, IndInv, ReloadInv
  <2>3. CASE UNCHANGED installed
    BY <2>1, <2>3
  <2>4. (\E r \in Reloads : Update(r)) \/ UNCHANGED installed
    BY DEF Next, Edit, WatchStarts, WatchFails, Watch, ScheduleReload, TimerFires, DecodeFile, SetCurrent, Handle, Accept, Reject, DialFails,
           Dial, Return, Copy, ReadChunk, WriteChunk, EndOfInput, ConnFails, FindsClosed, Send, EndSending, reloadVars
  <2> QED BY <2>2, <2>3, <2>4
<1> QED BY <1>1, Invariance, PTL DEF Spec, NeverGoesBack
=============================================================================
