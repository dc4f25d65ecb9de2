-------------------------- MODULE ExchangeCodeProofs --------------------------
(***************************************************************************)
(* Proofs about ExchangeCode.  Two kinds of results: what redeeming never  *)
(* does to a code whatever operators and failures do, and, until operators *)
(* interfere, that quota, redeems and rewards add up.                      *)
(***************************************************************************)
EXTENDS ExchangeCode, FiniteSetTheorems, TLAPS

USE ExchangeAssumption

-----------------------------------------------------------------------------
LEMMA InitTypeOK == Init => TypeOK
<1> SUFFICES ASSUME Init PROVE TypeOK
  OBVIOUS
<1>1. exists \in BOOLEAN
  BY DEF Init
<1>2. misled \in BOOLEAN
  BY DEF Init
<1> QED BY <1>1, <1>2 DEF Init, TypeOK, PCs

\* What a session's step does to its own program counter.
LEMMA GotoTyped ==
  ASSUME pc \in [Sessions -> PCs], NEW s \in Sessions, NEW from, NEW to \in PCs,
         Goto(s, from, to)
  PROVE  pc' \in [Sessions -> PCs]
  BY DEF Goto

\* A session edits nothing, and a commit of SendMail once misreported stays so.
LEMMA SessionHistory ==
  ASSUME TypeOK, NEW s \in Sessions,
         Login(s) \/ Logout(s) \/ ExchangeCodeRedeem(s)
  PROVE  /\ edits' = edits /\ issued' = issued
         /\ misled' = misled \/ misled' = TRUE
<1>1. CASE SendMailFails(s)
  BY <1>1, Zenon DEF SendMailFails
<1>2. CASE Login(s) \/ Logout(s) \/ (ExchangeCodeRedeem(s) /\ ~SendMailFails(s))
  BY <1>2, Zenon DEF Login, Logout, ExchangeCodeRedeem, ReadCode, CheckRedeemed, RedeemConflict,
         RedeemDepleted, RedeemCommit, SendMail, Compensate, CompensateFails,
         QueryFails, historyVars, Strand
<1> QED BY <1>1, <1>2

LEMMA SessionTyped ==
  ASSUME TypeOK, NEW s \in Sessions,
         Login(s) \/ Logout(s) \/ ExchangeCodeRedeem(s)
  PROVE  TypeOK'
<1> USE DEF TypeOK
<1>1. pc' \in [Sessions -> PCs]
  BY DEF Login, Logout, ExchangeCodeRedeem, ReadCode, CheckRedeemed, RedeemConflict,
         RedeemDepleted, RedeemCommit, SendMail, SendMailFails, Compensate,
         CompensateFails, QueryFails, Goto, PCs
<1>2. exists' \in BOOLEAN /\ quota' \in Int /\ redeems' \subseteq Commanders
  BY DEF Login, Logout, ExchangeCodeRedeem, ReadCode, CheckRedeemed, RedeemConflict,
         RedeemDepleted, RedeemCommit, SendMail, SendMailFails, Compensate,
         CompensateFails, QueryFails, dbVars
<1>3. mails' \in [Commanders -> Nat]
  <2>1. CASE StoreMail(s)
    BY <2>1 DEF StoreMail
  <2>2. CASE mails' = mails
    BY <2>2
  <2> QED
    BY <2>1, <2>2 DEF Login, Logout, ExchangeCodeRedeem, ReadCode, CheckRedeemed, RedeemConflict,
         RedeemDepleted, RedeemCommit, SendMail, SendMailFails, Compensate,
         CompensateFails, QueryFails, dbVars
<1>4. cached' \in [Sessions -> Nat]
  <2>1. CASE CacheMail(s)
    BY <2>1 DEF CacheMail
  <2>2. CASE cached' = cached
    BY <2>2
  <2>3. CASE Login(s)
    BY <2>3 DEF Login
  <2> QED
    BY <2>1, <2>2, <2>3 DEF Logout, ExchangeCodeRedeem, ReadCode, CheckRedeemed, RedeemConflict,
         RedeemDepleted, RedeemCommit, SendMail, SendMailFails, Compensate,
         CompensateFails, QueryFails
<1>5. seen' \in [Sessions -> Int]
  BY DEF Login, Logout, ExchangeCodeRedeem, ReadCode, CheckRedeemed, RedeemConflict,
         RedeemDepleted, RedeemCommit, SendMail, SendMailFails, Compensate,
         CompensateFails, QueryFails
<1>6. stranded' \subseteq Commanders
  BY DEF Login, Logout, ExchangeCodeRedeem, ReadCode, CheckRedeemed, RedeemConflict,
         RedeemDepleted, RedeemCommit, SendMail, SendMailFails, Compensate,
         CompensateFails, QueryFails, historyVars, Strand
<1>7. edits' \in Nat /\ misled' \in BOOLEAN /\ issued' \in InitialQuotas
  BY SessionHistory
<1> QED BY <1>1, <1>2, <1>3, <1>4, <1>5, <1>6, <1>7

LEMMA TypeStep == TypeOK /\ [Next]_vars => TypeOK'
<1> SUFFICES ASSUME TypeOK, [Next]_vars PROVE TypeOK'
  OBVIOUS
<1>1. ASSUME NEW s \in Sessions, Login(s) \/ Logout(s) \/ ExchangeCodeRedeem(s)
      PROVE  TypeOK'
  BY <1>1, SessionTyped
<1>2. CASE Operator
  <2>1. exists' \in BOOLEAN /\ quota' \in Int /\ redeems' \subseteq Commanders
    BY <1>2 DEF Operator, UpdateExchangeCode, DeleteExchangeCode, CreateExchangeCodeRedeem,
                DeleteExchangeCodeRedeem, TypeOK
  <2>2. mails' = mails
    BY <1>2 DEF Operator, UpdateExchangeCode, DeleteExchangeCode, CreateExchangeCodeRedeem,
                DeleteExchangeCodeRedeem
  <2>3. edits' \in Nat /\ UNCHANGED <<cached, seen, pc, issued, stranded, misled>>
    BY <1>2 DEF Operator, TypeOK
  <2> QED BY <2>1, <2>2, <2>3 DEF TypeOK
<1>3. CASE Crash
  BY <1>3 DEF Crash, TypeOK, dbVars, PCs, Strand
<1>4. CASE UNCHANGED vars
  BY <1>4 DEF vars, dbVars, historyVars, TypeOK
<1> QED BY <1>1, <1>2, <1>3, <1>4 DEF Next

\* Every variable keeps its type.
THEOREM TypeCorrect == Spec => []TypeOK
  BY InitTypeOK, TypeStep, PTL DEF Spec

\* A code that has a limit keeps one, whatever operators, failures and crashes
\* do to the sessions that are redeeming it: the UPDATE of a handler that has
\* read an older quota takes nothing from a quota that is used up.
THEOREM LimitStays == Spec => LimitedStaysLimited
<1>1. TypeOK /\ [Next]_vars => [quota >= 0 => quota' >= 0 \/ Operator]_vars
  <2> SUFFICES ASSUME TypeOK, Next, quota >= 0, ~Operator PROVE quota' >= 0
    OBVIOUS
  <2>1. CASE Crash
    BY <2>1 DEF Crash, dbVars
  <2>2. ASSUME NEW s \in Sessions, Login(s) \/ Logout(s) \/ ExchangeCodeRedeem(s)
        PROVE  quota' >= 0
    <3>1. CASE RedeemCommit(s)
      BY <3>1 DEF RedeemCommit, TypeOK
    <3>2. CASE Compensate(s)
      BY <3>2 DEF Compensate, TypeOK
    <3>3. CASE quota' = quota
      BY <3>3
    <3> QED
      BY <2>2, <3>1, <3>2, <3>3 DEF Login, Logout, ExchangeCodeRedeem, ReadCode, CheckRedeemed,
           RedeemConflict, RedeemDepleted, SendMail, SendMailFails, CompensateFails, QueryFails, dbVars
  <2> QED BY <2>1, <2>2 DEF Next
<1> QED BY <1>1, TypeCorrect, PTL DEF Spec, LimitedStaysLimited

-----------------------------------------------------------------------------
(* Quota and redeems.                                                      *)

\* One session moves, and the others are where they were.
LEMMA OthersStay ==
  ASSUME TypeOK, NEW s \in Sessions, NEW from, NEW to, Goto(s, from, to)
  PROVE  /\ pc[s] = from /\ pc'[s] = to
         /\ \A t \in Sessions : t # s => pc'[t] = pc[t]
  BY DEF Goto, TypeOK

\* A session that does not enter the states between the two transactions leaves
\* UnsettledInv alone, as long as the redeems are.
LEMMA UnsettledKept ==
  ASSUME UnsettledInv, redeems' = redeems,
         \A t \in Sessions : Unsettled(t)' => Unsettled(t)
  PROVE  UnsettledInv'
  BY DEF UnsettledInv

LEMMA UnsettledStep ==
  ASSUME TypeOK, UnsettledInv, NEW s \in Sessions,
         Login(s) \/ Logout(s) \/ ExchangeCodeRedeem(s)
  PROVE  UnsettledInv'
<1>1. CASE RedeemCommit(s)
  <2>1. Who[s] \notin redeems /\ redeems' = redeems \cup {Who[s]}
    BY <1>1 DEF RedeemCommit
  <2>2. \A t \in Sessions : t # s => pc'[t] = pc[t]
    BY <1>1, OthersStay DEF RedeemCommit
  <2>3. ~Unsettled(s)
    BY <1>1 DEF RedeemCommit, Goto, Unsettled
  <2>4. \A t \in Sessions : t # s /\ Unsettled(t)' => Unsettled(t) /\ Who[t] # Who[s]
    BY <2>1, <2>2 DEF Unsettled, UnsettledInv
  <2>5. \A t \in Sessions : Unsettled(t)' => Who[t] \in redeems'
    BY <2>1, <2>4 DEF UnsettledInv
  <2>6. ASSUME NEW t \in Sessions, NEW u \in Sessions,
               Unsettled(t)', Unsettled(u)', Who[t] = Who[u]
        PROVE  t = u
    BY <2>4, <2>6 DEF UnsettledInv
  <2> QED BY <2>5, <2>6 DEF UnsettledInv
<1>2. CASE Compensate(s)
  <2>1. redeems' = redeems \ {Who[s]}
    BY <1>2 DEF Compensate
  <2>2. /\ pc[s] = "compensate" /\ pc'[s] = "offline"
        /\ \A t \in Sessions : t # s => pc'[t] = pc[t]
    BY <1>2, OthersStay DEF Compensate
  <2>3. ~Unsettled(s)' /\ Unsettled(s)
    BY <2>2 DEF Unsettled
  <2>4. \A t \in Sessions : Unsettled(t)' => Unsettled(t) /\ Who[t] # Who[s]
    BY <2>2, <2>3 DEF Unsettled, UnsettledInv
  <2> QED BY <2>1, <2>4 DEF UnsettledInv
<1>3. CASE SendMailFails(s)
  <2>1. /\ pc[s] = "mail" /\ redeems' = redeems
        /\ \A t \in Sessions : t # s => pc'[t] = pc[t]
    BY <1>3, OthersStay DEF SendMailFails
  <2>2. \A t \in Sessions : Unsettled(t)' => Unsettled(t)
    BY <2>1 DEF Unsettled
  <2> QED BY <2>1, <2>2, UnsettledKept
<1>4. CASE \/ Login(s) \/ Logout(s) \/ ReadCode(s) \/ CheckRedeemed(s) \/ RedeemConflict(s)
           \/ RedeemDepleted(s) \/ SendMail(s) \/ CompensateFails(s) \/ QueryFails(s)
  <2>1. redeems' = redeems
    BY <1>4 DEF Login, Logout, ReadCode, CheckRedeemed, RedeemConflict, RedeemDepleted, SendMail,
                CompensateFails, QueryFails, dbVars
  <2>2. \E from, to : Goto(s, from, to) /\ to \notin {"mail", "compensate"}
    BY <1>4 DEF Login, Logout, ReadCode, CheckRedeemed, RedeemConflict, RedeemDepleted, SendMail,
                CompensateFails, QueryFails
  <2>3. \A t \in Sessions : Unsettled(t)' => Unsettled(t)
    BY <2>2, OthersStay DEF Unsettled
  <2> QED BY <2>1, <2>3, UnsettledKept
<1> QED BY <1>1, <1>2, <1>3, <1>4 DEF ExchangeCodeRedeem

LEMMA SnapshotStep ==
  ASSUME TypeOK, SnapshotInv, QuotaAddsUp, NEW s \in Sessions,
         Login(s) \/ Logout(s) \/ ExchangeCodeRedeem(s)
  PROVE  SnapshotInv'
<1>1. exists'
  BY DEF SnapshotInv, Login, Logout, ExchangeCodeRedeem, ReadCode, CheckRedeemed, RedeemConflict,
         RedeemDepleted, RedeemCommit, SendMail, SendMailFails, Compensate, CompensateFails,
         QueryFails, dbVars
<1>2. ASSUME NEW t \in Sessions, pc'[t] \in PCs \ {"offline", "idle"}
      PROVE  seen'[t] >= 0 <=> issued >= 0
  <2>1. CASE ReadCode(s) /\ t = s
    <3>1. seen'[t] = quota
      BY <2>1 DEF ReadCode, TypeOK
    <3>2. quota >= 0 <=> issued >= 0
      <4>1. issued \in Int /\ issued >= -1
        BY DEF TypeOK
      <4> QED BY <4>1 DEF SnapshotInv, QuotaAddsUp
    <3> QED BY <3>1, <3>2
  <2>2. CASE ~(ReadCode(s) /\ t = s)
    <3>1. seen'[t] = seen[t]
      BY <2>2 DEF Login, Logout, ExchangeCodeRedeem, ReadCode, CheckRedeemed, RedeemConflict,
         RedeemDepleted, RedeemCommit, SendMail, SendMailFails, Compensate, CompensateFails,
         QueryFails, TypeOK
    <3>2. pc[t] \in PCs \ {"offline", "idle"}
      BY <1>2, <2>2, OthersStay DEF Login, Logout, ExchangeCodeRedeem, ReadCode, CheckRedeemed,
         RedeemConflict, RedeemDepleted, RedeemCommit, SendMail, SendMailFails, Compensate,
         CompensateFails, QueryFails, PCs
    <3> QED BY <3>1, <3>2 DEF SnapshotInv
  <2> QED BY <2>1, <2>2
<1>3. issued = -1 => quota' = -1
  <2> SUFFICES ASSUME issued = -1 PROVE quota' = -1
    OBVIOUS
  <2>1. quota = -1
    BY DEF SnapshotInv
  <2>2. pc[s] \in {"redeem", "compensate"} => ~Limited(s)
    BY DEF SnapshotInv, PCs, Limited
  <2>3. CASE RedeemCommit(s)
    BY <2>1, <2>2, <2>3 DEF RedeemCommit, Goto
  <2>4. CASE Compensate(s)
    BY <2>1, <2>2, <2>4 DEF Compensate, Goto
  <2> QED
    BY <2>1, <2>3, <2>4 DEF Login, Logout, ExchangeCodeRedeem, ReadCode, CheckRedeemed,
       RedeemConflict, RedeemDepleted, SendMail, SendMailFails, CompensateFails, QueryFails, dbVars
<1>4. issued' = issued
  BY SessionHistory
<1> QED BY <1>1, <1>2, <1>3, <1>4 DEF SnapshotInv

LEMMA QuotaStep ==
  ASSUME QuotaInv, NEW s \in Sessions,
         Login(s) \/ Logout(s) \/ ExchangeCodeRedeem(s)
  PROVE  QuotaAddsUp'
<1> SUFFICES ASSUME issued >= 0
             PROVE  quota' >= 0 /\ quota' + Cardinality(redeems') = issued
  BY SessionHistory DEF QuotaInv, QuotaAddsUp
<1>1. IsFiniteSet(redeems) /\ Cardinality(redeems) \in Nat
  BY FS_Subset, FS_CardinalityType DEF QuotaInv, TypeOK
<1>2. quota \in Int /\ quota >= 0 /\ quota + Cardinality(redeems) = issued
  BY DEF QuotaInv, QuotaAddsUp, TypeOK
<1>3. pc[s] \in {"redeem", "compensate"} => Limited(s)
  BY DEF QuotaInv, SnapshotInv, PCs, Limited
<1>4. CASE RedeemCommit(s)
  <2>1. Limited(s) /\ Who[s] \notin redeems
    BY <1>3, <1>4 DEF RedeemCommit, Goto
  <2>2. quota' = quota - 1 /\ quota > 0 /\ redeems' = redeems \cup {Who[s]}
    BY <1>4, <2>1 DEF RedeemCommit
  <2>3. Cardinality(redeems') = Cardinality(redeems) + 1
    BY <1>1, <2>1, <2>2, FS_AddElement
  <2> QED BY <1>1, <1>2, <2>2, <2>3
<1>5. CASE Compensate(s)
  <2>1. Limited(s) /\ Who[s] \in redeems /\ exists
    BY <1>3, <1>5 DEF Compensate, Goto, QuotaInv, UnsettledInv, Unsettled, SnapshotInv
  <2>2. quota' = quota + 1 /\ redeems' = redeems \ {Who[s]}
    BY <1>5, <2>1 DEF Compensate
  <2>3. Cardinality(redeems') = Cardinality(redeems) - 1
    BY <1>1, <2>1, <2>2, FS_RemoveElement
  <2> QED BY <1>1, <1>2, <2>2, <2>3
<1>6. CASE UNCHANGED <<quota, redeems>>
  BY <1>2, <1>6
<1> QED
  BY <1>4, <1>5, <1>6 DEF Login, Logout, ExchangeCodeRedeem, ReadCode, CheckRedeemed,
     RedeemConflict, RedeemDepleted, SendMail, SendMailFails, CompensateFails, QueryFails, dbVars

LEMMA CrashStep ==
  ASSUME QuotaInv, Crash
  PROVE  QuotaInv'
<1>1. TypeOK'
  BY TypeStep DEF QuotaInv, Next
<1>2. \A s \in Sessions : pc'[s] = "offline"
  BY DEF Crash
<1>3. UnsettledInv' /\ SnapshotInv' /\ QuotaAddsUp'
  BY <1>2 DEF Crash, Strand, QuotaInv, UnsettledInv, Unsettled, SnapshotInv, QuotaAddsUp, dbVars
<1> QED BY <1>1, <1>3 DEF QuotaInv

LEMMA InitQuotaInv == Init => QuotaInv
<1> SUFFICES ASSUME Init PROVE QuotaInv
  OBVIOUS
<1>1. UnsettledInv /\ SnapshotInv
  BY DEF Init, UnsettledInv, Unsettled, SnapshotInv
<1>2. QuotaAddsUp
  BY FS_EmptySet DEF Init, QuotaAddsUp
<1> QED BY <1>1, <1>2, InitTypeOK DEF QuotaInv

\* As long as an operator's step is not the one that is taken.
LEMMA QuotaInvStep ==
  ASSUME QuotaInv, [Next]_vars, ~Operator
  PROVE  QuotaInv'
<1>1. ASSUME NEW s \in Sessions, Login(s) \/ Logout(s) \/ ExchangeCodeRedeem(s)
      PROVE  QuotaInv'
  BY <1>1, SessionTyped, UnsettledStep, SnapshotStep, QuotaStep DEF QuotaInv
<1>2. CASE UNCHANGED vars
  BY <1>2 DEF vars, dbVars, historyVars, QuotaInv, TypeOK, UnsettledInv, Unsettled, SnapshotInv,
              QuotaAddsUp
<1> QED BY <1>1, <1>2, CrashStep DEF Next

\* After an operator's step the code has been edited.
LEMMA UneditedStep ==
  ASSUME TypeOK, [Next]_vars, ~Edited'
  PROVE  ~Edited /\ ~Operator
<1>1. edits \in Nat /\ ~(edits' > 0)
  BY DEF TypeOK, Edited
<1>2. ~Operator
  BY <1>1 DEF Operator
<1>3. edits' = edits
  <2>1. CASE Crash
    BY <2>1 DEF Crash, Strand
  <2>2. CASE UNCHANGED vars
    BY <2>2 DEF vars, historyVars
  <2> QED BY <1>2, <2>1, <2>2, SessionHistory DEF Next
<1> QED BY <1>1, <1>2, <1>3 DEF Edited

LEMMA QuotaUnedited ==
  ASSUME TypeOK, ~Edited => QuotaInv, [Next]_vars
  PROVE  ~Edited' => QuotaInv'
  BY QuotaInvStep, UneditedStep

\* Every limited code accounts for its redeems, for any number of commanders and
\* sessions and whatever fails: until an operator interferes, what is left of the
\* quota and the redeems on record add up to the quota it was created with.
THEOREM QuotaIsConserved == Spec => []QuotaConserved
<1>1. Init => (~Edited => QuotaInv)
  BY InitQuotaInv
<1>2. TypeOK /\ (~Edited => QuotaInv) /\ [Next]_vars => (~Edited => QuotaInv)'
  BY QuotaUnedited
<1>3. (~Edited => QuotaInv) => QuotaConserved
  BY DEF QuotaInv, QuotaConserved
<1> QED BY TypeCorrect, <1>1, <1>2, <1>3, PTL DEF Spec

-----------------------------------------------------------------------------
(* Redeems on record.                                                      *)

LEMMA AccountStep ==
  ASSUME TypeOK, RedeemAccounted, ~Edited, NEW s \in Sessions,
         Login(s) \/ Logout(s) \/ ExchangeCodeRedeem(s)
  PROVE  RedeemAccounted'
<1> SUFFICES ASSUME NEW c \in redeems'
             PROVE  \/ mails'[c] > 0
                    \/ \E t \in Sessions : Unsettled(t)' /\ Who[t] = c
                    \/ c \in stranded'
  BY DEF RedeemAccounted
<1>1. CASE RedeemCommit(s) /\ c = Who[s]
  BY <1>1, OthersStay DEF RedeemCommit, Unsettled, Strand
<1>2. CASE ~(RedeemCommit(s) /\ c = Who[s])
  <2>1. c \in redeems /\ stranded \subseteq stranded'
    BY <1>2 DEF Login, Logout, ExchangeCodeRedeem, ReadCode, CheckRedeemed, RedeemConflict,
         RedeemDepleted, RedeemCommit, SendMail, SendMailFails, Compensate, CompensateFails,
         QueryFails, dbVars, historyVars, Strand
  <2>2. mails[c] > 0 => mails'[c] > 0
    <3>1. CASE StoreMail(s)
      BY <2>1, <3>1 DEF StoreMail, TypeOK
    <3>2. CASE mails' = mails
      BY <3>2
    <3> QED
      BY <3>1, <3>2 DEF Login, Logout, ExchangeCodeRedeem, ReadCode, CheckRedeemed, RedeemConflict,
         RedeemDepleted, RedeemCommit, SendMail, SendMailFails, Compensate, CompensateFails,
         QueryFails, dbVars
  <2>3. ASSUME NEW t \in Sessions, Unsettled(t), Who[t] = c
        PROVE  \/ mails'[c] > 0 \/ Unsettled(t)' \/ c \in stranded'
    <3>1. CASE t # s
      <4>1. pc'[t] = pc[t]
        BY <3>1, OthersStay DEF Login, Logout, ExchangeCodeRedeem, ReadCode, CheckRedeemed,
           RedeemConflict, RedeemDepleted, RedeemCommit, SendMail, SendMailFails, Compensate,
           CompensateFails, QueryFails
      <4> QED BY <2>3, <4>1 DEF Unsettled
    <3>2. CASE t = s /\ SendMail(s)
      BY <2>1, <2>3, <3>2 DEF SendMail, StoreMail, TypeOK
    <3>3. CASE t = s /\ SendMailFails(s)
      BY <3>3, OthersStay DEF SendMailFails, Unsettled
    <3>4. CASE t = s /\ CompensateFails(s)
      BY <2>3, <3>4 DEF CompensateFails, Strand
    <3>5. CASE t = s /\ Compensate(s)
      BY <2>3, <3>5 DEF Compensate
    <3>6. pc[t] \in {"mail", "compensate"}
      BY <2>3 DEF Unsettled
    <3> QED
      BY <3>1, <3>2, <3>3, <3>4, <3>5, <3>6 DEF Login, Logout, ExchangeCodeRedeem, ReadCode,
         CheckRedeemed, RedeemConflict, RedeemDepleted, RedeemCommit, QueryFails, Goto
  <2> QED BY <2>1, <2>2, <2>3 DEF RedeemAccounted
<1> QED BY <1>1, <1>2

\* No redeem is forgotten: until an operator interferes, a redeem on record has
\* been rewarded, or a handler has it in hand, or one of the three failures that a
\* handler does not survive has struck it.
THEOREM RedeemsAreAccounted == Spec => []RedeemAccounted
<1>1. Init => RedeemAccounted
  BY DEF Init, RedeemAccounted
<1>2. TypeOK /\ RedeemAccounted /\ [Next]_vars => RedeemAccounted'
  <2> SUFFICES ASSUME TypeOK, RedeemAccounted, [Next]_vars, ~Edited' PROVE RedeemAccounted'
    BY DEF RedeemAccounted
  <2>0. ~Edited /\ ~Operator
    BY UneditedStep
  <2>1. ASSUME NEW s \in Sessions, Login(s) \/ Logout(s) \/ ExchangeCodeRedeem(s)
        PROVE  RedeemAccounted'
    BY <2>0, <2>1, AccountStep
  <2>2. CASE Crash
    BY <2>0, <2>2 DEF Crash, RedeemAccounted, dbVars, Strand
  <2>3. CASE UNCHANGED vars
    BY <2>0, <2>3 DEF vars, dbVars, historyVars, RedeemAccounted, Unsettled
  <2> QED BY <2>0, <2>1, <2>2, <2>3 DEF Next
<1> QED BY <1>1, <1>2, TypeCorrect, PTL DEF Spec

-----------------------------------------------------------------------------
(* Rewards.                                                                *)

\* Steps that store no mail and take back no redeem that was rewarded.
LEMMA RewardKept ==
  ASSUME QuotaInv, RewardInv, mails' = mails,
         \A t \in Sessions : Unsettled(t)' => Unsettled(t),
         \A c \in redeems : mails[c] > 0 => c \in redeems',
         \A t \in Sessions : cached'[t] <= mails[Who[t]]
  PROVE  RewardInv'
  BY DEF RewardInv, RewardsMatch

LEMMA RewardStep ==
  ASSUME QuotaInv, RewardInv, ~misled', NEW s \in Sessions,
         Login(s) \/ Logout(s) \/ ExchangeCodeRedeem(s)
  PROVE  RewardInv'
<1>t. TypeOK /\ UnsettledInv /\ RewardsMatch
  BY DEF QuotaInv, RewardInv
<1>0. \A t \in Sessions : mails[Who[t]] \in Nat /\ cached[t] \in Nat /\ cached[t] <= mails[Who[t]]
  BY <1>t DEF TypeOK, RewardsMatch
<1>1. CASE RedeemCommit(s)
  <2>1. /\ mails' = mails /\ cached' = cached
        /\ Who[s] \notin redeems /\ redeems' = redeems \cup {Who[s]}
        /\ \A t \in Sessions : t # s => pc'[t] = pc[t]
    BY <1>1, <1>t, OthersStay DEF RedeemCommit
  <2>2. mails[Who[s]] = 0
    BY <1>0, <1>t, <2>1 DEF RewardsMatch
  <2>3. \A t \in Sessions : Unsettled(t)' => mails'[Who[t]] = 0
    BY <2>1, <2>2 DEF RewardInv, Unsettled
  <2>4. RewardsMatch'
    BY <1>t, <2>1 DEF RewardsMatch
  <2> QED BY <2>3, <2>4 DEF RewardInv
<1>2. CASE SendMail(s)
  <2>1. /\ pc[s] = "mail" /\ pc'[s] = "idle" /\ redeems' = redeems
        /\ \A t \in Sessions : t # s => pc'[t] = pc[t]
    BY <1>2, <1>t, OthersStay DEF SendMail
  <2>2. Unsettled(s) /\ Who[s] \in redeems /\ mails[Who[s]] = 0
    BY <2>1, <1>t DEF Unsettled, UnsettledInv, RewardInv
  <2>3. \A c \in Commanders : mails'[c] = IF c = Who[s] THEN 1 ELSE mails[c]
    BY <1>2, <1>t, <2>2 DEF SendMail, StoreMail, TypeOK
  <2>4. \A t \in Sessions : cached'[t] = IF t = s THEN cached[t] + 1 ELSE cached[t]
    BY <1>2, <1>t DEF SendMail, CacheMail, TypeOK
  <2>5. \A t \in Sessions : Unsettled(t)' => mails'[Who[t]] = 0
    <3> SUFFICES ASSUME NEW t \in Sessions, Unsettled(t)' PROVE mails'[Who[t]] = 0
      OBVIOUS
    <3>1. t # s /\ Unsettled(t)
      BY <2>1 DEF Unsettled
    <3>2. Who[t] # Who[s]
      BY <2>2, <3>1, <1>t DEF UnsettledInv
    <3> QED BY <2>3, <3>1, <3>2 DEF RewardInv
  <2>6. \A c \in Commanders : mails'[c] > 0 => mails'[c] = 1 /\ c \in redeems'
    BY <1>t, <2>1, <2>2, <2>3 DEF RewardsMatch
  <2>7. \A t \in Sessions : cached'[t] <= mails'[Who[t]]
    <3> SUFFICES ASSUME NEW t \in Sessions PROVE cached'[t] <= mails'[Who[t]]
      OBVIOUS
    <3>1. CASE Who[t] = Who[s]
      <4>1. cached[t] = 0 /\ mails'[Who[t]] = 1
        BY <1>0, <2>2, <2>3, <3>1
      <4> QED BY <2>4, <4>1
    <3>2. CASE Who[t] # Who[s]
      <4>1. cached'[t] = cached[t] /\ mails'[Who[t]] = mails[Who[t]]
        BY <2>3, <2>4, <3>2
      <4> QED BY <1>0, <4>1
    <3> QED BY <3>1, <3>2
  <2> QED BY <2>5, <2>6, <2>7 DEF RewardInv, RewardsMatch
<1>3. CASE SendMailFails(s)
  <2>1. /\ pc[s] = "mail" /\ redeems' = redeems /\ mails' = mails /\ cached' = cached
        /\ \A t \in Sessions : t # s => pc'[t] = pc[t]
    BY <1>3, <1>t, OthersStay DEF SendMailFails
  <2>2. \A t \in Sessions : Unsettled(t)' => Unsettled(t)
    BY <2>1 DEF Unsettled
  <2> QED BY <1>0, <2>1, <2>2, RewardKept
<1>4. CASE Compensate(s)
  <2>1. /\ pc[s] = "compensate" /\ pc'[s] = "offline"
        /\ redeems' = redeems \ {Who[s]} /\ mails' = mails /\ cached' = cached
        /\ \A t \in Sessions : t # s => pc'[t] = pc[t]
    BY <1>4, <1>t, OthersStay DEF Compensate
  <2>2. mails[Who[s]] = 0
    BY <2>1 DEF Unsettled, RewardInv
  <2>3. \A t \in Sessions : Unsettled(t)' => Unsettled(t)
    BY <2>1 DEF Unsettled
  <2>4. \A c \in redeems : mails[c] > 0 => c \in redeems'
    BY <2>1, <2>2
  <2> QED BY <1>0, <2>1, <2>3, <2>4, RewardKept
<1>5. CASE Login(s)
  <2>1. /\ redeems' = redeems /\ mails' = mails
        /\ pc'[s] = "idle" /\ \A t \in Sessions : t # s => pc'[t] = pc[t]
    BY <1>5, <1>t, OthersStay DEF Login, dbVars
  <2>2. \A t \in Sessions : cached'[t] <= mails[Who[t]]
    BY <1>0, <1>5, <1>t DEF Login, TypeOK
  <2>3. \A t \in Sessions : Unsettled(t)' => Unsettled(t)
    BY <2>1 DEF Unsettled
  <2> QED BY <2>1, <2>2, <2>3, RewardKept
<1>6. CASE \/ Logout(s) \/ ReadCode(s) \/ CheckRedeemed(s) \/ RedeemConflict(s)
           \/ RedeemDepleted(s) \/ CompensateFails(s) \/ QueryFails(s)
  <2>1. redeems' = redeems /\ mails' = mails /\ cached' = cached
    BY <1>6 DEF Logout, ReadCode, CheckRedeemed, RedeemConflict, RedeemDepleted,
                CompensateFails, QueryFails, dbVars
  <2>2. \E from, to : Goto(s, from, to) /\ to \notin {"mail", "compensate"}
    BY <1>6 DEF Logout, ReadCode, CheckRedeemed, RedeemConflict, RedeemDepleted,
                CompensateFails, QueryFails
  <2>3. \A t \in Sessions : Unsettled(t)' => Unsettled(t)
    BY <1>t, <2>2, OthersStay DEF Unsettled
  <2> QED BY <1>0, <2>1, <2>3, RewardKept
<1> QED BY <1>1, <1>2, <1>3, <1>4, <1>5, <1>6 DEF ExchangeCodeRedeem

LEMMA RewardTold ==
  ASSUME IndInv, [Next]_vars, ~Edited', ~misled'
  PROVE  RewardInv'
<1>t. TypeOK
  BY DEF IndInv
<1>0. ~Edited /\ ~Operator
  BY <1>t, UneditedStep
<1>m. ~misled
  BY <1>t, <1>0, SessionHistory DEF Next, Crash, Strand, vars, historyVars, TypeOK
<1>1. QuotaInv /\ RewardInv
  BY <1>0, <1>m DEF IndInv
<1>2. ASSUME NEW s \in Sessions, Login(s) \/ Logout(s) \/ ExchangeCodeRedeem(s)
      PROVE  RewardInv'
  BY <1>1, <1>2, RewardStep
<1>3. CASE Crash \/ UNCHANGED vars
  <2>1. mails' = mails /\ redeems' = redeems /\ cached' = cached
    BY <1>3 DEF Crash, vars, dbVars
  <2>2. \A t \in Sessions : Unsettled(t)' => Unsettled(t)
    BY <1>3 DEF Crash, vars, Unsettled
  <2>3. \A t \in Sessions : cached'[t] <= mails[Who[t]]
    BY <1>1, <2>1 DEF RewardInv, RewardsMatch
  <2> QED BY <1>1, <2>1, <2>2, <2>3, RewardKept
<1> QED BY <1>0, <1>2, <1>3 DEF Next

\* The inductive invariant of quota, redeems and rewards.
THEOREM Invariance == Spec => []IndInv
<1>1. Init => IndInv
  <2> SUFFICES ASSUME Init PROVE IndInv
    OBVIOUS
  <2>1. RewardInv
    BY DEF Init, RewardInv, RewardsMatch, Unsettled
  <2> QED BY <2>1, InitTypeOK, InitQuotaInv DEF IndInv
<1>2. IndInv /\ [Next]_vars => IndInv'
  <2> SUFFICES ASSUME IndInv, [Next]_vars PROVE IndInv'
    OBVIOUS
  <2>1. TypeOK /\ (~Edited => QuotaInv)
    BY DEF IndInv
  <2>2. TypeOK' /\ (~Edited' => QuotaInv')
    BY <2>1, TypeStep, QuotaUnedited
  <2> QED BY <2>2, RewardTold DEF IndInv
<1> QED BY <1>1, <1>2, PTL DEF Spec

\* Nobody is rewarded twice or without a redeem on record, for any number of
\* commanders and sessions, through failed statements, failed compensations and
\* crashes, as long as no operator interferes and every commit of SendMail reports
\* what it did.
THEOREM NobodyRewardedTwice == Spec => []RewardedOnce
<1>1. IndInv => RewardedOnce
  BY DEF IndInv, RewardInv, RewardedOnce
<1> QED BY Invariance, <1>1, PTL
=============================================================================
