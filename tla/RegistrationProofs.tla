------------------------- MODULE RegistrationProofs -------------------------
(***************************************************************************)
(* Proofs about Registration, for any number of requests, commanders and   *)
(* PINs: a challenge opens one account at most, a superseded one opens     *)
(* none, and a challenge that has not expired is not taken from its        *)
(* commander by the requests of others.                                    *)
(***************************************************************************)
EXTENDS Registration, TLAPS

USE RegistrationAssumption

\* Rows, except those of requests that have not stored one yet, keep their PIN,
\* and their status unless they are marked expired.
Marking ==
  /\ UNCHANGED <<superseded, granted, raced>>
  /\ \A r \in Creators :
       \/ status'[r] = status[r] /\ (pin'[r] = pin[r] \/ status[r] = "none")
       \/ status[r] # "none" /\ status'[r] = "expired"

\* What a step may do to the rows.
StatusChange ==
  \/ \E r \in Creators : InsertChallenge(r)
  \/ \E v \in Verifiers : Consume(v)
  \/ Marking

\* At the start there is no challenge and no request.
LEMMA InitIndInv == Init => IndInv
  BY DEF Init, IndInv, TypeOK, StoredInv, TargetInv, OwnershipInv, GrantedInv,
         RacedInv, SupersededIsDead, PendingUnique, Statuses, PCs, Tasks

\* Types; a status is only ever written to a challenge (TargetInv).
LEMMA TypeStep ==
  ASSUME TypeOK, TargetInv, [Next]_vars
  PROVE  TypeOK'
<1>k. Creators \subseteq Tasks /\ Verifiers \subseteq Tasks /\ Pollers \subseteq Tasks
  BY DEF Tasks
<1>1. ASSUME NEW r \in Creators, Expire(r) PROVE TypeOK'
  BY <1>1, <1>k DEF Expire, rowVars, localVars, historyVars, TypeOK
<1>2. ASSUME NEW r \in Creators, CreateBegin(r) PROVE TypeOK'
  BY <1>2, <1>k DEF CreateBegin, Goto, historyVars, GeneratePin, TypeOK, PCs
<1>3. ASSUME NEW r \in Creators, CreateFails(r) PROVE TypeOK'
  BY <1>3, <1>k DEF CreateFails, GiveUp, historyVars, Goto, Forget, TypeOK, PCs
<1>4. ASSUME NEW r \in Creators, CountAccounts(r) PROVE TypeOK'
  BY <1>4, <1>k DEF CountAccounts, Goto, rowVars, localVars, historyVars, TypeOK, PCs
<1>5. ASSUME NEW r \in Creators, ReadLatest(r) PROVE TypeOK'
  BY <1>5, <1>k DEF ReadLatest, Goto, rowVars, historyVars, Pending, TypeOK, PCs
<1>6. ASSUME NEW r \in Creators, ExpireLatest(r) PROVE TypeOK'
  BY <1>6, <1>k DEF ExpireLatest, Goto, historyVars, MarkExpired, TypeOK, PCs, Statuses,
       TargetInv
<1>7. ASSUME NEW r \in Creators, CheckPin(r) PROVE TypeOK'
  <2>1. tries[r] \in 0..PinAttempts /\ PinAttempts \in Nat
    BY DEF TypeOK
  <2>2. tries' \in [Creators -> 0..PinAttempts]
    <3>1. \/ tries' = tries
          \/ tries[r] + 1 < PinAttempts /\ tries' = [tries EXCEPT ![r] = tries[r] + 1]
          \/ tries' = [tries EXCEPT ![r] = 0]
      BY <1>7 DEF CheckPin, GiveUp
    <3>2. CASE tries' = tries
      BY <3>2 DEF TypeOK
    <3>3. CASE tries[r] + 1 < PinAttempts /\ tries' = [tries EXCEPT ![r] = tries[r] + 1]
      <4>1. tries[r] + 1 \in 0..PinAttempts
        BY <2>1, <3>3
      <4> QED BY <3>3, <4>1 DEF TypeOK
    <3>4. CASE tries' = [tries EXCEPT ![r] = 0]
      <4>1. 0 \in 0..PinAttempts
        BY <2>1
      <4> QED BY <3>4, <4>1 DEF TypeOK
    <3> QED BY <3>1, <3>2, <3>3, <3>4
  <2>3. r \in Tasks /\ UNCHANGED <<status, consumedAt, account, superseded, granted, raced, overdue>>
    BY <1>7, <1>k DEF CheckPin, historyVars
  <2>4. pc' \in [Tasks -> PCs]
    BY <1>7, <2>3 DEF CheckPin, GiveUp, Goto, TypeOK, PCs
  <2>5. pin' \in [Creators -> Pins \cup {NoPin}]
    BY <1>7 DEF CheckPin, GiveUp, GeneratePin, TypeOK
  <2>6. /\ asof' \in [Tasks -> SUBSET Creators]
        /\ target' \in [Tasks -> Creators \cup {NoChallenge}]
        /\ read' \in [Tasks -> BOOLEAN]
    <3>1. UNCHANGED <<asof, target, read>> \/ Forget(r)
      BY <1>7 DEF CheckPin, GiveUp
    <3> QED BY <3>1, <2>3 DEF Forget, TypeOK
  <2> QED BY <2>2, <2>3, <2>4, <2>5, <2>6 DEF TypeOK
<1>8. ASSUME NEW r \in Creators, InsertChallenge(r) PROVE TypeOK'
  BY <1>8, <1>k DEF InsertChallenge, Goto, Rivals, StoreChallenge, Forget, TypeOK, PCs,
       Statuses, TargetInv
<1>9. ASSUME NEW r \in Creators, SendMail(r) PROVE TypeOK'
  BY <1>9, <1>k DEF SendMail, Goto, rowVars, localVars, historyVars, TypeOK, PCs
<1>10. ASSUME NEW r \in Creators, SendMailFails(r) PROVE TypeOK'
  BY <1>10, <1>k DEF SendMailFails, Goto, rowVars, historyVars, TypeOK, PCs
<1>11. ASSUME NEW t \in Creators \cup Pollers, Reload(t) PROVE TypeOK'
  BY <1>11, <1>k DEF Reload, Goto, rowVars, historyVars, TypeOK, PCs, TargetInv
<1>12. ASSUME NEW t \in Creators \cup Pollers, Write(t) PROVE TypeOK'
  <2>1. UNCHANGED <<pin, account, tries, superseded, granted, raced, overdue>> /\ t \in Tasks
    BY <1>12, <1>k DEF Write, historyVars
  <2>2. pc' \in [Tasks -> PCs]
    <3>1. \E to \in {"failed", "idle"} : pc' = [pc EXCEPT ![t] = to]
      BY <1>12 DEF Write
    <3> QED BY <2>1, <3>1 DEF TypeOK, PCs
  <2>3. status' \in [Creators -> Statuses] /\ consumedAt' \in [Creators -> BOOLEAN]
    <3>1. UNCHANGED <<status, consumedAt>> \/ (pc[t] = "write" /\ MarkExpired(t))
      BY <1>12 DEF Write
    <3>2. CASE UNCHANGED <<status, consumedAt>>
      BY <3>2 DEF TypeOK
    <3>3. CASE pc[t] = "write" /\ MarkExpired(t)
      <4>1. target[t] \in Creators
        BY <2>1, <3>3 DEF TargetInv, TypeOK
      <4>2. read[t] \in BOOLEAN /\ "expired" \in Statuses
        BY <2>1 DEF TypeOK, Statuses
      <4> QED BY <3>3, <4>1, <4>2 DEF MarkExpired, TypeOK
    <3> QED BY <3>1, <3>2, <3>3
  <2>4. /\ asof' \in [Tasks -> SUBSET Creators]
        /\ target' \in [Tasks -> Creators \cup {NoChallenge}]
        /\ read' \in [Tasks -> BOOLEAN]
    <3>1. Forget(t)
      BY <1>12 DEF Write
    <3> QED BY <2>1, <3>1 DEF Forget, TypeOK
  <2> QED BY <2>1, <2>2, <2>3, <2>4 DEF TypeOK
<1>13. ASSUME NEW t \in Pollers, NEW r \in Creators, ReadStatus(t, r) PROVE TypeOK'
  BY <1>13, <1>k DEF ReadStatus, Goto, rowVars, historyVars, TypeOK, PCs
<1>14. ASSUME NEW t \in Pollers, CompareClock(t) PROVE TypeOK'
  BY <1>14, <1>k DEF CompareClock, Goto, Forget, rowVars, historyVars, TypeOK, PCs
<1>15. ASSUME NEW v \in Verifiers, NEW r \in Creators, VerifyBegin(v, r) PROVE TypeOK'
  BY <1>15, <1>k DEF VerifyBegin, Goto, rowVars, historyVars, TypeOK, PCs
<1>16. ASSUME NEW v \in Verifiers, Consume(v) PROVE TypeOK'
  BY <1>16, <1>k DEF Consume, Goto, Forget, Grant, TypeOK, PCs, Statuses, TargetInv
<1>17. ASSUME NEW v \in Verifiers, ConsumeFails(v) PROVE TypeOK'
  BY <1>17, <1>k DEF ConsumeFails, Goto, Forget, rowVars, historyVars, TypeOK, PCs
<1>18. ASSUME NEW c \in Commanders, DeleteAccount(c) PROVE TypeOK'
  BY <1>18, <1>k DEF DeleteAccount, localVars, historyVars, TypeOK
<1>19. CASE UNCHANGED vars
  BY <1>19 DEF vars, rowVars, localVars, historyVars, TypeOK
<1> QED
  BY <1>1, <1>2, <1>3, <1>4, <1>5, <1>6, <1>7, <1>8, <1>9, <1>10, <1>11, <1>12, <1>13, <1>14,
     <1>15, <1>16, <1>17, <1>18, <1>19 DEF Next, CreateChallenge,
     UpdateUserRegistrationChallengeStatus, GetChallengeStatus, VerifyChallenge

\* A row appears with its INSERT and is never removed.
LEMMA StoredStep ==
  ASSUME TypeOK, StoredInv, TargetInv, [Next]_vars
  PROVE  StoredInv'
<1>k. Creators \subseteq Tasks /\ Verifiers \subseteq Tasks /\ Pollers \subseteq Tasks
  BY DEF Tasks
<1>1. ASSUME NEW r \in Creators, Expire(r) PROVE StoredInv'
  BY <1>1, <1>k DEF Expire, rowVars, localVars, historyVars, TypeOK, StoredInv
<1>2. ASSUME NEW r \in Creators, CreateBegin(r) PROVE StoredInv'
  BY <1>2, <1>k DEF CreateBegin, Goto, historyVars, GeneratePin, TypeOK, StoredInv
<1>3. ASSUME NEW r \in Creators, CreateFails(r) PROVE StoredInv'
  BY <1>3, <1>k DEF CreateFails, GiveUp, historyVars, Goto, Forget, TypeOK, StoredInv
<1>4. ASSUME NEW r \in Creators, CountAccounts(r) PROVE StoredInv'
  BY <1>4, <1>k DEF CountAccounts, Goto, rowVars, localVars, historyVars, TypeOK, StoredInv
<1>5. ASSUME NEW r \in Creators, ReadLatest(r) PROVE StoredInv'
  BY <1>5, <1>k DEF ReadLatest, Goto, rowVars, historyVars, Pending, TypeOK, StoredInv
<1>6. ASSUME NEW r \in Creators, ExpireLatest(r) PROVE StoredInv'
  BY <1>6, <1>k DEF ExpireLatest, Goto, historyVars, MarkExpired, TypeOK, StoredInv, TargetInv
<1>7. ASSUME NEW r \in Creators, CheckPin(r) PROVE StoredInv'
  BY <1>7, <1>k DEF CheckPin, Goto, GiveUp, historyVars, GeneratePin, Forget, TypeOK, StoredInv
<1>8. ASSUME NEW r \in Creators, InsertChallenge(r) PROVE StoredInv'
  BY <1>8, <1>k DEF InsertChallenge, Goto, Rivals, StoreChallenge, Forget, TypeOK, StoredInv,
       TargetInv
<1>9. ASSUME NEW r \in Creators, SendMail(r) PROVE StoredInv'
  BY <1>9, <1>k DEF SendMail, Goto, rowVars, localVars, historyVars, TypeOK, StoredInv
<1>10. ASSUME NEW r \in Creators, SendMailFails(r) PROVE StoredInv'
  BY <1>10, <1>k DEF SendMailFails, Goto, rowVars, historyVars, TypeOK, StoredInv
<1>11. ASSUME NEW t \in Creators \cup Pollers, Reload(t) PROVE StoredInv'
  BY <1>11, <1>k DEF Reload, Goto, rowVars, historyVars, TypeOK, StoredInv
<1>12. ASSUME NEW t \in Creators \cup Pollers, Write(t) PROVE StoredInv'
  BY <1>12, <1>k DEF Write, Forget, historyVars, MarkExpired, TypeOK, StoredInv, TargetInv
<1>13. ASSUME NEW t \in Pollers, NEW r \in Creators, ReadStatus(t, r) PROVE StoredInv'
  BY <1>13, <1>k DEF ReadStatus, Goto, rowVars, historyVars, TypeOK, StoredInv
<1>14. ASSUME NEW t \in Pollers, CompareClock(t) PROVE StoredInv'
  BY <1>14, <1>k DEF CompareClock, Goto, Forget, rowVars, historyVars, TypeOK, StoredInv
<1>15. ASSUME NEW v \in Verifiers, NEW r \in Creators, VerifyBegin(v, r) PROVE StoredInv'
  BY <1>15, <1>k DEF VerifyBegin, Goto, rowVars, historyVars, TypeOK, StoredInv
<1>16. ASSUME NEW v \in Verifiers, Consume(v) PROVE StoredInv'
  BY <1>16, <1>k DEF Consume, Goto, Forget, Grant, TypeOK, StoredInv, TargetInv
<1>17. ASSUME NEW v \in Verifiers, ConsumeFails(v) PROVE StoredInv'
  BY <1>17, <1>k DEF ConsumeFails, Goto, Forget, rowVars, historyVars, TypeOK, StoredInv
<1>18. ASSUME NEW c \in Commanders, DeleteAccount(c) PROVE StoredInv'
  BY <1>18, <1>k DEF DeleteAccount, localVars, historyVars, TypeOK, StoredInv
<1>19. CASE UNCHANGED vars
  BY <1>19 DEF vars, rowVars, localVars, historyVars, StoredInv
<1> QED
  BY <1>1, <1>2, <1>3, <1>4, <1>5, <1>6, <1>7, <1>8, <1>9, <1>10, <1>11, <1>12, <1>13, <1>14,
     <1>15, <1>16, <1>17, <1>18, <1>19 DEF Next, CreateChallenge,
     UpdateUserRegistrationChallengeStatus, GetChallengeStatus, VerifyChallenge

\* A challenge that a request has found is still there.
LEMMA TargetStep ==
  ASSUME TypeOK, StoredInv, TargetInv, [Next]_vars
  PROVE  TargetInv'
<1>k. Creators \subseteq Tasks /\ Verifiers \subseteq Tasks /\ Pollers \subseteq Tasks
  BY DEF Tasks
<1>1. ASSUME NEW r \in Creators, Expire(r) PROVE TargetInv'
  BY <1>1, <1>k DEF Expire, rowVars, localVars, historyVars, TypeOK, TargetInv
<1>2. ASSUME NEW r \in Creators, CreateBegin(r) PROVE TargetInv'
  BY <1>2, <1>k DEF CreateBegin, Goto, historyVars, GeneratePin, TypeOK, TargetInv
<1>3. ASSUME NEW r \in Creators, CreateFails(r) PROVE TargetInv'
  BY <1>3, <1>k DEF CreateFails, GiveUp, historyVars, Goto, Forget, TypeOK, TargetInv, StoredInv
<1>4. ASSUME NEW r \in Creators, CountAccounts(r) PROVE TargetInv'
  BY <1>4, <1>k DEF CountAccounts, Goto, rowVars, localVars, historyVars, TypeOK, TargetInv
<1>5. ASSUME NEW r \in Creators, ReadLatest(r) PROVE TargetInv'
  BY <1>5, <1>k DEF ReadLatest, Goto, rowVars, historyVars, Pending, TypeOK, TargetInv,
       StoredInv
<1>6. ASSUME NEW r \in Creators, ExpireLatest(r) PROVE TargetInv'
  BY <1>6, <1>k DEF ExpireLatest, Goto, historyVars, MarkExpired, TypeOK, TargetInv, StoredInv
<1>7. ASSUME NEW r \in Creators, CheckPin(r) PROVE TargetInv'
  BY <1>7, <1>k DEF CheckPin, Goto, GiveUp, historyVars, GeneratePin, Forget, TypeOK, TargetInv,
       StoredInv
<1>8. ASSUME NEW r \in Creators, InsertChallenge(r) PROVE TargetInv'
  BY <1>8, <1>k DEF InsertChallenge, Goto, Rivals, StoreChallenge, Forget, TypeOK, TargetInv,
       StoredInv
<1>9. ASSUME NEW r \in Creators, SendMail(r) PROVE TargetInv'
  BY <1>9, <1>k DEF SendMail, Goto, rowVars, localVars, historyVars, TypeOK, TargetInv
<1>10. ASSUME NEW r \in Creators, SendMailFails(r) PROVE TargetInv'
  BY <1>10, <1>k DEF SendMailFails, Goto, rowVars, historyVars, TypeOK, TargetInv, StoredInv
<1>11. ASSUME NEW t \in Creators \cup Pollers, Reload(t) PROVE TargetInv'
  BY <1>11, <1>k DEF Reload, Goto, rowVars, historyVars, TypeOK, TargetInv
<1>12. ASSUME NEW t \in Creators \cup Pollers, Write(t) PROVE TargetInv'
  BY <1>12, <1>k DEF Write, Forget, historyVars, MarkExpired, TypeOK, TargetInv, StoredInv
<1>13. ASSUME NEW t \in Pollers, NEW r \in Creators, ReadStatus(t, r) PROVE TargetInv'
  BY <1>13, <1>k DEF ReadStatus, Goto, rowVars, historyVars, TypeOK, TargetInv, StoredInv
<1>14. ASSUME NEW t \in Pollers, CompareClock(t) PROVE TargetInv'
  BY <1>14, <1>k DEF CompareClock, Goto, Forget, rowVars, historyVars, TypeOK, TargetInv,
       StoredInv
<1>15. ASSUME NEW v \in Verifiers, NEW r \in Creators, VerifyBegin(v, r) PROVE TargetInv'
  BY <1>15, <1>k DEF VerifyBegin, Goto, rowVars, historyVars, TypeOK, TargetInv, StoredInv
<1>16. ASSUME NEW v \in Verifiers, Consume(v) PROVE TargetInv'
  BY <1>16, <1>k DEF Consume, Goto, Forget, Grant, TypeOK, TargetInv, StoredInv
<1>17. ASSUME NEW v \in Verifiers, ConsumeFails(v) PROVE TargetInv'
  BY <1>17, <1>k DEF ConsumeFails, Goto, Forget, rowVars, historyVars, TypeOK, TargetInv,
       StoredInv
<1>18. ASSUME NEW c \in Commanders, DeleteAccount(c) PROVE TargetInv'
  BY <1>18, <1>k DEF DeleteAccount, localVars, historyVars, TypeOK, TargetInv
<1>19. CASE UNCHANGED vars
  BY <1>19 DEF vars, rowVars, localVars, historyVars, TargetInv
<1> QED
  BY <1>1, <1>2, <1>3, <1>4, <1>5, <1>6, <1>7, <1>8, <1>9, <1>10, <1>11, <1>12, <1>13, <1>14,
     <1>15, <1>16, <1>17, <1>18, <1>19 DEF Next, CreateChallenge,
     UpdateUserRegistrationChallengeStatus, GetChallengeStatus, VerifyChallenge

\* What a request is about to write to is chosen by its commander, by its own id, or
\* because it is overdue, and an overdue challenge remains overdue.
LEMMA OwnershipStep ==
  ASSUME TypeOK, TargetInv, OwnershipInv, [Next]_vars
  PROVE  OwnershipInv'
<1>k. Creators \subseteq Tasks /\ Verifiers \subseteq Tasks /\ Pollers \subseteq Tasks
  BY DEF Tasks
<1>1. ASSUME NEW r \in Creators, Expire(r) PROVE OwnershipInv'
  BY <1>1, <1>k DEF Expire, rowVars, localVars, historyVars, TypeOK, OwnershipInv
<1>2. ASSUME NEW r \in Creators, CreateBegin(r) PROVE OwnershipInv'
  BY <1>2, <1>k DEF CreateBegin, Goto, historyVars, GeneratePin, TypeOK, OwnershipInv
<1>3. ASSUME NEW r \in Creators, CreateFails(r) PROVE OwnershipInv'
  BY <1>3, <1>k DEF CreateFails, GiveUp, historyVars, Goto, Forget, TypeOK, OwnershipInv
<1>4. ASSUME NEW r \in Creators, CountAccounts(r) PROVE OwnershipInv'
  BY <1>4, <1>k DEF CountAccounts, Goto, rowVars, localVars, historyVars, TypeOK, OwnershipInv
<1>5. ASSUME NEW r \in Creators, ReadLatest(r) PROVE OwnershipInv'
  BY <1>5, <1>k DEF ReadLatest, Goto, rowVars, historyVars, Pending, TypeOK, OwnershipInv
<1>6. ASSUME NEW r \in Creators, ExpireLatest(r) PROVE OwnershipInv'
  BY <1>6, <1>k DEF ExpireLatest, Goto, historyVars, MarkExpired, TypeOK, OwnershipInv
<1>7. ASSUME NEW r \in Creators, CheckPin(r) PROVE OwnershipInv'
  <2>1. overdue' = overdue /\ r \in Tasks
    BY <1>7, <1>k DEF CheckPin
  <2>2. \E to \in {"insert", "count", "idle"} : pc' = [pc EXCEPT ![r] = to]
    BY <1>7 DEF CheckPin, GiveUp, Goto
  <2>3. \/ UNCHANGED <<asof, target>>
        \/ /\ asof' = [asof EXCEPT ![r] = {}]
           /\ target' = [target EXCEPT ![r] = NoChallenge]
    BY <1>7 DEF CheckPin, GiveUp, Forget
  <2>4. pc \in [Tasks -> PCs] /\ target \in [Tasks -> Creators \cup {NoChallenge}]
        /\ asof \in [Tasks -> SUBSET Creators]
    BY DEF TypeOK
  <2>5. /\ pc'[r] \notin {"expire", "reload", "write"}
        /\ \A x \in Tasks \ {r} : pc'[x] = pc[x] /\ target'[x] = target[x]
    BY <2>1, <2>2, <2>3, <2>4
  <2>6. \A x \in Tasks : asof'[x] \subseteq asof[x]
    BY <2>1, <2>3, <2>4
  <2>7. \A x \in Tasks : asof'[x] \subseteq overdue'
    BY <2>1, <2>6 DEF OwnershipInv
  <2>8. \A x \in Creators : pc'[x] = "expire" => Of[target'[x]] = Of[x]
    BY <2>5, <1>k DEF OwnershipInv
  <2>9. \A x \in Creators : pc'[x] \in {"reload", "write"} => target'[x] = x
    BY <2>5, <1>k DEF OwnershipInv
  <2>10. \A t \in Pollers : pc'[t] \in {"reload", "write"} => target'[t] \in overdue'
    BY <2>1, <2>5, <1>k DEF OwnershipInv
  <2> QED BY <2>7, <2>8, <2>9, <2>10 DEF OwnershipInv
<1>8. ASSUME NEW r \in Creators, InsertChallenge(r) PROVE OwnershipInv'
  BY <1>8, <1>k DEF InsertChallenge, Goto, Rivals, StoreChallenge, Forget, TypeOK, OwnershipInv
<1>9. ASSUME NEW r \in Creators, SendMail(r) PROVE OwnershipInv'
  BY <1>9, <1>k DEF SendMail, Goto, rowVars, localVars, historyVars, TypeOK, OwnershipInv
<1>10. ASSUME NEW r \in Creators, SendMailFails(r) PROVE OwnershipInv'
  BY <1>10, <1>k DEF SendMailFails, Goto, rowVars, historyVars, TypeOK, OwnershipInv
<1>11. ASSUME NEW t \in Creators \cup Pollers, Reload(t) PROVE OwnershipInv'
  BY <1>11, <1>k DEF Reload, Goto, rowVars, historyVars, TypeOK, OwnershipInv
<1>12. ASSUME NEW t \in Creators \cup Pollers, Write(t) PROVE OwnershipInv'
  BY <1>12, <1>k DEF Write, Forget, historyVars, MarkExpired, TypeOK, OwnershipInv
<1>13. ASSUME NEW t \in Pollers, NEW r \in Creators, ReadStatus(t, r) PROVE OwnershipInv'
  BY <1>13, <1>k DEF ReadStatus, Goto, rowVars, historyVars, TypeOK, OwnershipInv
<1>14. ASSUME NEW t \in Pollers, CompareClock(t) PROVE OwnershipInv'
  BY <1>14, <1>k DEF CompareClock, Goto, Forget, rowVars, historyVars, TypeOK, OwnershipInv
<1>15. ASSUME NEW v \in Verifiers, NEW r \in Creators, VerifyBegin(v, r) PROVE OwnershipInv'
  BY <1>15, <1>k DEF VerifyBegin, Goto, rowVars, historyVars, TypeOK, OwnershipInv
<1>16. ASSUME NEW v \in Verifiers, Consume(v) PROVE OwnershipInv'
  BY <1>16, <1>k DEF Consume, Goto, Forget, Grant, TypeOK, OwnershipInv
<1>17. ASSUME NEW v \in Verifiers, ConsumeFails(v) PROVE OwnershipInv'
  BY <1>17, <1>k DEF ConsumeFails, Goto, Forget, rowVars, historyVars, TypeOK, OwnershipInv
<1>18. ASSUME NEW c \in Commanders, DeleteAccount(c) PROVE OwnershipInv'
  BY <1>18, <1>k DEF DeleteAccount, localVars, historyVars, TypeOK, OwnershipInv
<1>19. CASE UNCHANGED vars
  BY <1>19 DEF vars, rowVars, localVars, historyVars, OwnershipInv
<1> QED
  BY <1>1, <1>2, <1>3, <1>4, <1>5, <1>6, <1>7, <1>8, <1>9, <1>10, <1>11, <1>12, <1>13, <1>14,
     <1>15, <1>16, <1>17, <1>18, <1>19 DEF Next, CreateChallenge,
     UpdateUserRegistrationChallengeStatus, GetChallengeStatus, VerifyChallenge

\* Apart from INSERTs and verifications, all that happens to a row is that it is marked
\* expired.
LEMMA StatusStep ==
  ASSUME TypeOK, StoredInv, TargetInv, [Next]_vars
  PROVE  StatusChange
<1>k. Creators \subseteq Tasks /\ Verifiers \subseteq Tasks /\ Pollers \subseteq Tasks
  BY DEF Tasks
<1>1. ASSUME NEW r \in Creators, Expire(r) PROVE StatusChange
  BY <1>1, <1>k DEF Expire, rowVars, localVars, historyVars, TypeOK, StatusChange, Marking
<1>2. ASSUME NEW r \in Creators, CreateBegin(r) PROVE StatusChange
  BY <1>2, <1>k DEF CreateBegin, Goto, historyVars, GeneratePin, TypeOK, StatusChange, Marking,
       StoredInv
<1>3. ASSUME NEW r \in Creators, CreateFails(r) PROVE StatusChange
  BY <1>3, <1>k DEF CreateFails, GiveUp, historyVars, Goto, Forget, TypeOK, StatusChange,
       Marking, StoredInv
<1>4. ASSUME NEW r \in Creators, CountAccounts(r) PROVE StatusChange
  BY <1>4, <1>k DEF CountAccounts, Goto, rowVars, localVars, historyVars, TypeOK, StatusChange,
       Marking
<1>5. ASSUME NEW r \in Creators, ReadLatest(r) PROVE StatusChange
  BY <1>5, <1>k DEF ReadLatest, Goto, rowVars, historyVars, Pending, TypeOK, StatusChange,
       Marking
<1>6. ASSUME NEW r \in Creators, ExpireLatest(r) PROVE StatusChange
  BY <1>6, <1>k DEF ExpireLatest, Goto, historyVars, MarkExpired, TypeOK, StatusChange, Marking,
       TargetInv
<1>7. ASSUME NEW r \in Creators, CheckPin(r) PROVE StatusChange
  BY <1>7, <1>k DEF CheckPin, Goto, GiveUp, historyVars, GeneratePin, Forget, TypeOK,
       StatusChange, Marking, StoredInv
<1>8. ASSUME NEW r \in Creators, InsertChallenge(r) PROVE StatusChange
  BY <1>8, <1>k DEF InsertChallenge, Goto, Rivals, StoreChallenge, Forget, TypeOK, StatusChange,
       TargetInv
<1>9. ASSUME NEW r \in Creators, SendMail(r) PROVE StatusChange
  BY <1>9, <1>k DEF SendMail, Goto, rowVars, localVars, historyVars, TypeOK, StatusChange,
       Marking
<1>10. ASSUME NEW r \in Creators, SendMailFails(r) PROVE StatusChange
  BY <1>10, <1>k DEF SendMailFails, Goto, rowVars, historyVars, TypeOK, StatusChange, Marking
<1>11. ASSUME NEW t \in Creators \cup Pollers, Reload(t) PROVE StatusChange
  BY <1>11, <1>k DEF Reload, Goto, rowVars, historyVars, TypeOK, StatusChange, Marking
<1>12. ASSUME NEW t \in Creators \cup Pollers, Write(t) PROVE StatusChange
  BY <1>12, <1>k DEF Write, Forget, historyVars, MarkExpired, TypeOK, StatusChange, Marking,
       TargetInv
<1>13. ASSUME NEW t \in Pollers, NEW r \in Creators, ReadStatus(t, r) PROVE StatusChange
  BY <1>13, <1>k DEF ReadStatus, Goto, rowVars, historyVars, TypeOK, StatusChange, Marking
<1>14. ASSUME NEW t \in Pollers, CompareClock(t) PROVE StatusChange
  BY <1>14, <1>k DEF CompareClock, Goto, Forget, rowVars, historyVars, TypeOK, StatusChange,
       Marking
<1>15. ASSUME NEW v \in Verifiers, NEW r \in Creators, VerifyBegin(v, r) PROVE StatusChange
  BY <1>15, <1>k DEF VerifyBegin, Goto, rowVars, historyVars, TypeOK, StatusChange, Marking
<1>16. ASSUME NEW v \in Verifiers, Consume(v) PROVE StatusChange
  BY <1>16, <1>k DEF Consume, Goto, Forget, Grant, TypeOK, StatusChange, TargetInv
<1>17. ASSUME NEW v \in Verifiers, ConsumeFails(v) PROVE StatusChange
  BY <1>17, <1>k DEF ConsumeFails, Goto, Forget, rowVars, historyVars, TypeOK, StatusChange,
       Marking
<1>18. ASSUME NEW c \in Commanders, DeleteAccount(c) PROVE StatusChange
  BY <1>18, <1>k DEF DeleteAccount, localVars, historyVars, TypeOK, StatusChange, Marking
<1>19. CASE UNCHANGED vars
  BY <1>19 DEF vars, rowVars, localVars, historyVars, StatusChange, Marking
<1> QED
  BY <1>1, <1>2, <1>3, <1>4, <1>5, <1>6, <1>7, <1>8, <1>9, <1>10, <1>11, <1>12, <1>13, <1>14,
     <1>15, <1>16, <1>17, <1>18, <1>19 DEF Next, CreateChallenge,
     UpdateUserRegistrationChallengeStatus, GetChallengeStatus, VerifyChallenge

-----------------------------------------------------------------------------
\* An account is made from a pending challenge, which never is pending again.
LEMMA GrantedStep ==
  ASSUME TypeOK, StoredInv, TargetInv, GrantedInv, [Next]_vars
  PROVE  GrantedInv'
<1>1. ASSUME NEW r \in Creators, InsertChallenge(r) PROVE GrantedInv'
  BY <1>1 DEF InsertChallenge, StoreChallenge, Rivals, Goto, TypeOK, StoredInv, GrantedInv
<1>2. ASSUME NEW v \in Verifiers, Consume(v) PROVE GrantedInv'
  BY <1>2 DEF Consume, Grant, Goto, TypeOK, TargetInv, GrantedInv, Tasks
<1>3. CASE Marking
  BY <1>3 DEF Marking, GrantedInv
<1> QED
  BY <1>1, <1>2, <1>3, StatusStep DEF StatusChange

\* A new row is stored only beside challenges of the commander that are not
\* pending, and what is not pending stays so.
LEMMA SupersededStep ==
  ASSUME TypeOK, StoredInv, TargetInv, SupersededIsDead, [Next]_vars
  PROVE  SupersededIsDead'
<1>1. ASSUME NEW r \in Creators, InsertChallenge(r) PROVE SupersededIsDead'
  BY <1>1 DEF InsertChallenge, StoreChallenge, Rivals, Goto, TypeOK, StoredInv,
              SupersededIsDead
<1>2. ASSUME NEW v \in Verifiers, Consume(v) PROVE SupersededIsDead'
  BY <1>2 DEF Consume, TypeOK, SupersededIsDead
<1>3. CASE Marking
  BY <1>3 DEF Marking, TypeOK, SupersededIsDead
<1> QED
  BY <1>1, <1>2, <1>3, StatusStep DEF StatusChange

\* An INSERT is the only step after which there are more pending challenges.
LEMMA UniqueStep ==
  ASSUME TypeOK, StoredInv, TargetInv, PendingUnique, [Next]_vars
  PROVE  PendingUnique'
<1>1. ASSUME NEW r \in Creators, InsertChallenge(r) PROVE PendingUnique'
  BY <1>1 DEF InsertChallenge, StoreChallenge, Rivals, PendingUnique
<1>2. ASSUME NEW v \in Verifiers, Consume(v) PROVE PendingUnique'
  BY <1>2 DEF Consume, TypeOK, PendingUnique
<1>3. CASE Marking
  BY <1>3 DEF Marking, PendingUnique
<1> QED
  BY <1>1, <1>2, <1>3, StatusStep DEF StatusChange

\* Nobody gets to know of a challenge, or comes to write to it, but those named.
Knows(t) == UNCHANGED <<pc, target, read>> \/ pc'[t] \notin {"expire", "write"}
OthersKnow(t) ==
  \A u \in Tasks \ {t} : pc'[u] = pc[u] /\ target'[u] = target[u] /\ read'[u] = read[u]

\* Who begins to write has read a pending challenge, which has opened no account,
\* or has read the consumed_at of one that has.
LEMMA RacedStep ==
  ASSUME TypeOK, StoredInv, TargetInv, GrantedInv, RacedInv, [Next]_vars
  PROVE  RacedInv'
<1>k. Creators \subseteq Tasks /\ Verifiers \subseteq Tasks /\ Pollers \subseteq Tasks
  BY DEF Tasks
<1>q. ASSUME NEW t \in Tasks, OthersKnow(t), Knows(t), UNCHANGED <<granted, raced>>,
             \A r \in Creators : consumedAt[r] => consumedAt'[r]
      PROVE  RacedInv'
  BY <1>q DEF RacedInv, AboutToWrite, OthersKnow, Knows
<1>1. ASSUME NEW r \in Creators,
             \/ CreateBegin(r) \/ CreateFails(r) \/ CountAccounts(r) \/ CheckPin(r) \/ SendMail(r)
             \/ SendMailFails(r)
      PROVE  RacedInv'
  <2>1. OthersKnow(r)
    BY <1>1, <1>k DEF CreateBegin, CreateFails, GiveUp, Forget, CountAccounts, CheckPin, SendMail, SendMailFails,
                      Goto, localVars, TypeOK, OthersKnow
  <2>2. pc'[r] \notin {"expire", "write"}
    BY <1>1, <1>k DEF CreateBegin, CreateFails, GiveUp, CountAccounts, CheckPin, SendMail, SendMailFails,
                      Goto, TypeOK
  <2>3. UNCHANGED <<granted, raced, consumedAt>>
    BY <1>1 DEF CreateBegin, CreateFails, CountAccounts, CheckPin, SendMail, SendMailFails, rowVars, historyVars
  <2> QED BY <1>k, <1>q, <2>1, <2>2, <2>3 DEF Knows
<1>2. ASSUME NEW r \in Creators, ReadLatest(r)
      PROVE  RacedInv'
  <2>1. UNCHANGED <<granted, raced, consumedAt>> /\ OthersKnow(r)
    BY <1>2, <1>k DEF ReadLatest, Goto, rowVars, historyVars, TypeOK, OthersKnow
  <2>2. CASE pc'[r] \notin {"expire", "write"}
    BY <1>k, <1>q, <2>1, <2>2 DEF Knows
  <2>3. CASE pc'[r] \in {"expire", "write"}
    <3>1. PICK x \in Creators : status[x] = "pending" /\ target'[r] = x
      BY <1>2, <1>k, <2>3 DEF ReadLatest, Goto, Pending, TypeOK
    <3>2. ~(granted[x] > 0)
      BY <3>1 DEF GrantedInv
    <3> QED BY <2>1, <3>1, <3>2 DEF RacedInv, AboutToWrite, OthersKnow
  <2> QED BY <2>2, <2>3
<1>3. ASSUME NEW r \in Creators, InsertChallenge(r)
      PROVE  RacedInv'
  <2>1. OthersKnow(r) /\ pc'[r] = "mail" /\ UNCHANGED <<granted, raced>>
    BY <1>3, <1>k DEF InsertChallenge, StoreChallenge, Forget, Goto, TypeOK, OthersKnow
  <2>2. \A x \in Creators : consumedAt[x] => consumedAt'[x]
    BY <1>3 DEF InsertChallenge, StoreChallenge
  <2> QED BY <1>k, <1>q, <2>1, <2>2 DEF Knows
<1>4. ASSUME NEW t \in Creators \cup Pollers, Reload(t)
      PROVE  RacedInv'
  <2>1. UNCHANGED <<granted, raced, consumedAt, target>> /\ OthersKnow(t)
    BY <1>4, <1>k DEF Reload, Goto, rowVars, historyVars, TypeOK, OthersKnow
  <2>2. t \in Tasks /\ read'[t] = consumedAt[target[t]]
    BY <1>4, <1>k DEF Reload, TypeOK
  <2> QED BY <2>1, <2>2 DEF RacedInv, AboutToWrite, OthersKnow
<1>5. ASSUME NEW t \in Creators \cup Pollers, Write(t) \/ (t \in Creators /\ ExpireLatest(t))
      PROVE  RacedInv'
  <2>1. t \in Tasks /\ UNCHANGED <<granted, raced>> /\ OthersKnow(t) /\ pc'[t] \notin {"expire", "write"}
    BY <1>5, <1>k DEF Write, ExpireLatest, Forget, Goto, historyVars, TypeOK, OthersKnow
  <2>2. CASE UNCHANGED consumedAt
    BY <1>q, <2>1, <2>2 DEF Knows
  <2>3. CASE MarkExpired(t) /\ pc[t] \in {"expire", "write"}
    <3>1. target[t] \in Creators
      BY <2>1, <2>3 DEF TargetInv, TypeOK
    <3>2. /\ consumedAt'[target[t]] = read[t]
          /\ \A r \in Creators \ {target[t]} : consumedAt'[r] = consumedAt[r]
      BY <2>3, <3>1 DEF MarkExpired, TypeOK
    <3>3. AboutToWrite(t, target[t])
      BY <2>3 DEF AboutToWrite
    <3>4. ASSUME NEW r \in Creators, granted[r] > 0, r \notin raced
          PROVE  consumedAt'[r]
      BY <2>1, <3>2, <3>3, <3>4 DEF RacedInv
    <3> QED BY <2>1, <3>4 DEF RacedInv, AboutToWrite, OthersKnow
  <2> QED BY <1>5, <2>2, <2>3 DEF Write, ExpireLatest, Goto
<1>6. ASSUME NEW t \in Pollers, (\E r \in Creators : ReadStatus(t, r)) \/ CompareClock(t)
      PROVE  RacedInv'
  <2>1. OthersKnow(t) /\ pc'[t] \notin {"expire", "write"}
    BY <1>6, <1>k DEF ReadStatus, CompareClock, Forget, Goto, TypeOK, OthersKnow
  <2>2. UNCHANGED <<granted, raced, consumedAt>>
    BY <1>6 DEF ReadStatus, CompareClock, rowVars, historyVars
  <2> QED BY <1>k, <1>q, <2>1, <2>2 DEF Knows
<1>7. ASSUME NEW v \in Verifiers, (\E r \in Creators : VerifyBegin(v, r)) \/ ConsumeFails(v)
      PROVE  RacedInv'
  <2>1. OthersKnow(v) /\ pc'[v] \notin {"expire", "write"}
    BY <1>7, <1>k DEF VerifyBegin, ConsumeFails, Forget, Goto, TypeOK, OthersKnow
  <2>2. UNCHANGED <<granted, raced, consumedAt>>
    BY <1>7 DEF VerifyBegin, ConsumeFails, rowVars, historyVars
  <2> QED BY <1>k, <1>q, <2>1, <2>2 DEF Knows
<1>8. ASSUME NEW v \in Verifiers, Consume(v)
      PROVE  RacedInv'
  <2>1. OthersKnow(v) /\ pc'[v] = "idle"
    BY <1>8, <1>k DEF Consume, Forget, Goto, TypeOK, OthersKnow
  <2>2. target[v] \in Creators
    BY <1>8, <1>k DEF Consume, Goto, TargetInv, TypeOK
  <2>3. /\ consumedAt' = [consumedAt EXCEPT ![target[v]] = TRUE]
        /\ granted' = [granted EXCEPT ![target[v]] = @ + 1]
        /\ raced' = IF \E t \in Tasks : AboutToWrite(t, target[v]) THEN raced \cup {target[v]} ELSE raced
    BY <1>8 DEF Consume, Grant
  <2>4. ASSUME NEW r \in Creators, granted'[r] > 0, r \notin raced'
        PROVE  /\ consumedAt'[r]
               /\ \A t \in Tasks \ {v} : AboutToWrite(t, r) => read[t]
    <3>1. CASE r = target[v]
      BY <2>3, <2>4, <3>1 DEF TypeOK
    <3>2. CASE r # target[v]
      BY <2>2, <2>3, <2>4, <3>2 DEF TypeOK, RacedInv
    <3> QED BY <3>1, <3>2
  <2> QED BY <2>1, <2>4 DEF RacedInv, AboutToWrite, OthersKnow
<1>9. CASE UNCHANGED <<granted, raced, consumedAt, pc, target, read>>
  BY <1>9 DEF RacedInv, AboutToWrite
<1>10. ASSUME NEW r \in Creators, Expire(r)
       PROVE  RacedInv'
  BY <1>9, <1>10 DEF Expire, rowVars, localVars, historyVars
<1>11. ASSUME NEW c \in Commanders, DeleteAccount(c)
       PROVE  RacedInv'
  BY <1>9, <1>11 DEF DeleteAccount, localVars, historyVars
<1>12. CASE UNCHANGED vars
  BY <1>9, <1>12 DEF vars, rowVars, localVars, historyVars
<1> QED
  BY <1>1, <1>2, <1>3, <1>4, <1>5, <1>6, <1>7, <1>8, <1>10, <1>11, <1>12 DEF Next, CreateChallenge,
     UpdateUserRegistrationChallengeStatus, GetChallengeStatus, VerifyChallenge

\* No step leaves the inductive invariant.
LEMMA NextIndInv == IndInv /\ [Next]_vars => IndInv'
  BY TypeStep, StoredStep, TargetStep, OwnershipStep, GrantedStep, RacedStep, SupersededStep, UniqueStep
     DEF IndInv

\* IndInv always holds.
THEOREM Invariance == Spec => []IndInv
  BY InitIndInv, NextIndInv, PTL DEF Spec

\* Every variable always has its type.
THEOREM TypeCorrect == Spec => []TypeOK
<1>1. IndInv => TypeOK
  BY DEF IndInv
<1> QED
  BY <1>1, Invariance, PTL

\* Whatever verifications, stale status writes and deletions of accounts come
\* between, a challenge opens one account at most.
THEOREM OneAccountPerChallenge == Spec => []GrantedOnce
<1>1. IndInv => GrantedOnce
  BY DEF IndInv, TypeOK, GrantedInv, GrantedOnce
<1> QED
  BY <1>1, Invariance, PTL

\* What was verified keeps its consumed_at, unless another request had read the
\* challenge before it was verified and wrote it afterwards: ConsumedAtStays fails for
\* no other reason.
THEOREM OnlyRacesErase ==
  Spec => [](\A r \in Creators : granted[r] > 0 /\ ~consumedAt[r] => r \in raced)
<1>1. IndInv => \A r \in Creators : granted[r] > 0 /\ ~consumedAt[r] => r \in raced
  BY DEF IndInv, RacedInv
<1> QED
  BY <1>1, Invariance, PTL

\* A challenge with a newer one of the same commander can not be verified.
THEOREM SupersededOpensNothing == Spec => []SupersededIsDead
<1>1. IndInv => SupersededIsDead
  BY DEF IndInv
<1> QED
  BY <1>1, Invariance, PTL

\* What OthersKeepTheirs says of a step, for one challenge.
Kept(r) ==
  status[r] = "pending" /\ status'[r] # "pending" /\ r \notin overdue =>
    \/ granted'[r] > granted[r]
    \/ \E x \in Creators :
         Of[x] = Of[r] /\ pc[x] \in {"expire", "write"} /\ pc'[x] # pc[x]

\* Only five actions write to status; an INSERT expires what is overdue.
LEMMA KeptStep ==
  ASSUME IndInv, [Next]_vars, NEW r \in Creators
  PROVE  Kept(r)
<1>k. Creators \subseteq Tasks /\ Verifiers \subseteq Tasks /\ Pollers \subseteq Tasks
  BY DEF Tasks
<1>1. ASSUME NEW x \in Creators, InsertChallenge(x) PROVE Kept(r)
  BY <1>1, <1>k DEF InsertChallenge, StoreChallenge, IndInv, OwnershipInv, Kept
<1>2. ASSUME NEW v \in Verifiers, Consume(v) PROVE Kept(r)
  BY <1>2, <1>k DEF Consume, Grant, Goto, IndInv, TypeOK, TargetInv, Kept
<1>3. ASSUME NEW x \in Creators, ExpireLatest(x) PROVE Kept(r)
  BY <1>3, <1>k DEF ExpireLatest, MarkExpired, Goto, IndInv, TypeOK, OwnershipInv, Kept
<1>4. ASSUME NEW t \in Creators \cup Pollers, Write(t) PROVE Kept(r)
  BY <1>4, <1>k DEF Write, MarkExpired, IndInv, TypeOK, OwnershipInv, Kept
<1>5. CASE UNCHANGED status
  BY <1>5 DEF Kept
<1> QED
  BY <1>1, <1>2, <1>3, <1>4, <1>5 DEF Next, CreateChallenge,
     UpdateUserRegistrationChallengeStatus, GetChallengeStatus, VerifyChallenge, vars, rowVars,
     Expire, CreateBegin, CreateFails, CountAccounts, ReadLatest, CheckPin, SendMail,
     SendMailFails, Reload, ReadStatus, CompareClock, VerifyBegin, ConsumeFails, DeleteAccount

\* A challenge that is not overdue is taken from its commander only by a
\* verification or by a request for the same commander.
THEOREM NobodyElseTakesIt == Spec => OthersKeepTheirs
<1>1. IndInv /\ [Next]_vars => [\A r \in Creators : Kept(r)]_vars
  BY KeptStep
<1>2. (\A r \in Creators : Kept(r)) =>
        \A r \in Creators :
          status[r] = "pending" /\ status'[r] # "pending" /\ r \notin overdue =>
            \/ granted'[r] > granted[r]
            \/ \E x \in Creators :
                 Of[x] = Of[r] /\ pc[x] \in {"expire", "write"} /\ pc'[x] # pc[x]
  BY DEF Kept
<1> QED
  BY <1>1, <1>2, Invariance, PTL DEF Spec, OthersKeepTheirs
=============================================================================
