----------------------- MODULE CommanderLedgerProofs -----------------------
(***************************************************************************)
(* Proofs about CommanderLedger, for any number of sessions, any width of  *)
(* the copies and every fault: no resource goes below zero, whatever the   *)
(* copies say, and a copy that nothing has led astray is exact.            *)
(*                                                                         *)
(* Each operation disturbs the rows, by RowPart, and one entry of one copy *)
(* at most, by CopyPart; the two halves of the invariant are proved apart. *)
(***************************************************************************)
EXTENDS CommanderLedger, TLAPS

USE LedgerAssumption

RowPart == RowsOK /\ LockInv /\ RowInv /\ NeverNegative

CopyPart ==
  /\ CopiesOK
  /\ strayed \subseteq Sessions \X Resources
  /\ UnknownInv
  /\ CopyIsExact

-----------------------------------------------------------------------------
(* Arithmetic of the copies' width.                                        *)

LEMMA MultipleAtLeast ==
  \A u \in Nat \ {0}, k \in Int :
    /\ k >= 1 => u * k >= u
    /\ k <= -1 => u * k <= -u
    /\ k = 0 => u * k = 0
  BY SMT

LEMMA Division ==
  \A x \in Int, u \in Nat \ {0} :
    /\ x % u \in 0..u - 1
    /\ x \div u \in Int
    /\ x = u * (x \div u) + (x % u)
  BY SMT

\* To reduce before an addition makes no difference to the reduced sum.
LEMMA ReduceEarly ==
  ASSUME NEW u \in Nat \ {0}, NEW x \in Int, NEW n \in Int
  PROVE  ((x % u) + n) % u = (x + n) % u
<1> DEFINE a == x \div u
           y == (x % u) + n
           b == y \div u
           z == x + n
           c == z \div u
<1>1. y \in Int /\ z \in Int /\ a \in Int /\ b \in Int /\ c \in Int
  BY Division
<1>2. y = u * b + (y % u) /\ y % u \in 0..u - 1
  BY <1>1, Division
<1>3. z = u * c + (z % u) /\ z % u \in 0..u - 1
  BY <1>1, Division
<1>4. x = u * a + (x % u)
  BY Division
<1>5. PICK k \in Int : k = c - a - b
  BY <1>1
<1> HIDE DEF a, b, c
<1>6. z - y = u * a
  BY <1>1, <1>4, SMT
<1>7. u * c - u * a - u * b = u * k
  BY <1>1, <1>5, SMT
<1>8. (y % u) - (z % u) = u * k
  BY <1>1, <1>2, <1>3, <1>6, <1>7, SMT
<1>9. k = 0
  BY <1>2, <1>3, <1>8, MultipleAtLeast, SMT
<1> QED BY <1>2, <1>3, <1>8, <1>9, SMT

-----------------------------------------------------------------------------
(* The rows.                                                               *)

LEMMA RowFacts ==
  ASSUME RowPart, NEW r \in Resources
  PROVE  /\ stored[r] \in Int /\ change[r] \in Int /\ Current(r) \in Int
         /\ stored[r] >= 0 /\ Current(r) >= 0
         /\ lock[r] \in Sessions \cup {NoSession}
         /\ lock[r] = NoSession => Current(r) = stored[r]
  BY DEF RowPart, RowsOK, LockInv, NeverNegative, Current

\* A statement that is committed by itself changes one unlocked row, to an
\* amount that is not negative.
LEMMA StatementRows ==
  ASSUME RowPart, NEW r \in Resources, NEW m \in Nat,
         lock[r] = NoSession,
         rows' = rows \cup {r},
         stored' = [stored EXCEPT ![r] = m],
         UNCHANGED <<lock, change, active>>
  PROVE  RowPart'
<1>1. RowsOK'
  BY DEF RowPart, RowsOK
<1>2. LockInv'
  BY DEF RowPart, LockInv
<1>3. RowInv'
  BY DEF RowPart, RowsOK, RowInv
<1>4. NeverNegative'
  <2> SUFFICES ASSUME NEW q \in Resources
               PROVE  stored'[q] >= 0 /\ stored'[q] + change'[q] >= 0
    BY DEF NeverNegative, Current
  <2>1. stored[q] \in Int /\ change[q] \in Int /\ stored[q] >= 0 /\ stored[q] + change[q] >= 0
    BY RowFacts DEF Current
  <2>2. CASE q = r
    <3>1. stored'[q] = m /\ change'[q] = 0
      BY <2>2 DEF RowPart, RowsOK, LockInv
    <3> QED BY <3>1
  <2>3. CASE q # r
    <3>1. stored'[q] = stored[q] /\ change'[q] = change[q]
      BY <2>3 DEF RowPart, RowsOK
    <3> QED BY <2>1, <3>1
  <2> QED BY <2>2, <2>3
<1> QED BY <1>1, <1>2, <1>3, <1>4 DEF RowPart

\* A write inside a transaction leaves the row, as it sees it, not negative.
LEMMA WriteRows ==
  ASSUME RowPart, NEW s \in active, NEW r \in Resources, NEW d \in Int,
         Current(r) + d >= 0,
         Write(s, r, d)
  PROVE  RowPart'
<1>1. RowsOK'
  BY DEF RowPart, RowsOK, Write
<1>2. LockInv'
  BY DEF RowPart, RowsOK, LockInv, Write
<1>3. RowInv'
  BY DEF RowPart, RowInv, Write
<1>4. NeverNegative'
  <2> SUFFICES ASSUME NEW q \in Resources
               PROVE  stored'[q] >= 0 /\ stored'[q] + change'[q] >= 0
    BY DEF NeverNegative, Current
  <2>1. stored[q] \in Int /\ change[q] \in Int /\ stored[q] >= 0 /\ stored[q] + change[q] >= 0
    BY RowFacts DEF Current
  <2>2. stored'[q] = stored[q] /\ change'[q] = IF q = r THEN change[q] + d ELSE change[q]
    BY DEF RowPart, RowsOK, Write
  <2> QED BY <2>1, <2>2 DEF Current
<1> QED BY <1>1, <1>2, <1>3, <1>4 DEF RowPart

\* The end of a transaction makes its changes permanent or forgets them.
LEMMA UnlockRows ==
  ASSUME RowPart, NEW s \in Sessions, Unlock(s),
         \/ UNCHANGED <<rows, stored>>
         \/ /\ rows' = rows \cup Mine(s)
            /\ stored' = [r \in Resources |-> IF r \in Mine(s) THEN Current(r) ELSE stored[r]]
  PROVE  RowPart'
<1>1. \A r \in Resources :
        /\ stored[r] \in Int /\ change[r] \in Int /\ lock[r] \in Sessions \cup {NoSession}
        /\ stored[r] >= 0 /\ Current(r) >= 0 /\ Current(r) \in Int
  BY RowFacts
<1>2. \A r \in Resources :
        /\ stored'[r] = stored[r] \/ stored'[r] = Current(r)
        /\ \/ change'[r] = 0 /\ lock'[r] = NoSession
           \/ change'[r] = change[r] /\ lock'[r] = lock[r] /\ stored'[r] = stored[r] /\ lock[r] # s
  BY DEF Unlock, Mine
<1>3. RowsOK'
  <2>1. stored' \in [Resources -> Int]
    BY <1>1 DEF RowPart, RowsOK
  <2>2. change' \in [Resources -> Int]
    BY <1>1 DEF Unlock
  <2>3. lock' \in [Resources -> Sessions \cup {NoSession}]
    BY <1>1 DEF Unlock
  <2>4. rows' \subseteq Resources /\ active' \subseteq Sessions
    BY DEF RowPart, RowsOK, Unlock, Mine
  <2> QED BY <2>1, <2>2, <2>3, <2>4 DEF RowsOK
<1>4. LockInv'
  <2> SUFFICES ASSUME NEW r \in Resources
               PROVE  lock'[r] = NoSession => change'[r] = 0
    BY DEF LockInv
  <2>1. CASE change'[r] = 0 /\ lock'[r] = NoSession
    BY <2>1
  <2>2. CASE change'[r] = change[r] /\ lock'[r] = lock[r] /\ lock[r] # s
    BY <2>2 DEF RowPart, LockInv
  <2> QED BY <1>2, <2>1, <2>2
<1>5. RowInv'
  <2> SUFFICES ASSUME NEW r \in Resources \ rows' PROVE stored'[r] = 0
    BY DEF RowInv
  <2>1. r \notin rows /\ stored'[r] = stored[r]
    BY DEF Mine
  <2> QED BY <2>1 DEF RowPart, RowInv
<1>6. NeverNegative'
  BY <1>1, <1>2 DEF NeverNegative, Current
<1> QED BY <1>3, <1>4, <1>5, <1>6 DEF RowPart

-----------------------------------------------------------------------------
(* The copies.                                                             *)

\* What a session sees of the rows other than r does not depend on what is done
\* to r, and what the others see of r only on what is committed.
Elsewhere(s, r) ==
  \A s2 \in Sessions, r2 \in Resources :
    (s2 # s \/ r2 # r) /\ <<s2, r2>> \notin strayed'
    => <<s2, r2>> \notin strayed /\ Seen(s2, r2)' = Seen(s2, r2)

\* To say m is, for s's copy of r, to say what s now reads, if it has not strayed.
Says(s, r, m) == <<s, r>> \notin strayed' => m % UintSize = Seen(s, r)' % UintSize

\* One entry of one copy is written, or appended, and says what the session now
\* reads in the row; nothing that concerns the others has happened.
LEMMA CopyStep ==
  ASSUME CopyPart, NEW s \in Sessions, NEW r \in Resources, NEW m \in Int,
         (r \in known[s] /\ WriteCopy(s, r, m)) \/ AppendCopy(s, r, m),
         strayed' \subseteq Sessions \X Resources,
         Says(s, r, m),
         Elsewhere(s, r)
  PROVE  CopyPart'
<1>1. PICK v \in 0..UintSize - 1 : v = m % UintSize
  BY Division
<1>2. /\ amount' = [amount EXCEPT ![s][r] = v]
      /\ amount' \in [Sessions -> [Resources -> 0..UintSize - 1]]
  <2>1. amount' = [amount EXCEPT ![s][r] = v]
    BY <1>1 DEF WriteCopy, AppendCopy
  <2> QED BY <2>1 DEF CopyPart, CopiesOK
<1>3. /\ known' = [known EXCEPT ![s] = @ \cup {r}]
      /\ known' \in [Sessions -> SUBSET Resources]
  <2>1. CASE r \in known[s] /\ WriteCopy(s, r, m)
    BY <2>1 DEF CopyPart, CopiesOK, WriteCopy
  <2>2. CASE AppendCopy(s, r, m)
    BY <2>2 DEF CopyPart, CopiesOK, AppendCopy
  <2> QED BY <2>1, <2>2
<1>4. CopiesOK'
  <2>1. listed' \in [Sessions -> [Resources -> 0..UintSize - 1]]
    <3>1. \/ listed' = [listed EXCEPT ![s][r] = v]
          \/ listed' = [listed EXCEPT ![s][r] = IF r \in linked[s] THEN v ELSE listed[s][r]]
      BY <1>1 DEF WriteCopy, AppendCopy
    <3>2. listed[s][r] \in 0..UintSize - 1
      BY DEF CopyPart, CopiesOK
    <3>3. PICK w \in 0..UintSize - 1 : listed' = [listed EXCEPT ![s][r] = w]
      BY <3>1, <3>2
    <3> QED BY <3>3 DEF CopyPart, CopiesOK
  <2>2. linked' \in [Sessions -> SUBSET Resources]
    <3>1. linked \in [Sessions -> SUBSET Resources]
      BY DEF CopyPart, CopiesOK
    <3>2. \/ linked' = linked
          \/ linked' = [linked EXCEPT ![s] = @ \cup {r}]
          \/ linked' = [linked EXCEPT ![s] = {r}]
      BY DEF WriteCopy, AppendCopy
    <3> QED BY <3>1, <3>2
  <2>3. spare' \in [Sessions -> Nat]
    <3>1. spare \in [Sessions -> Nat]
      BY DEF CopyPart, CopiesOK
    <3>2. CASE spare' = spare
      BY <3>1, <3>2
    <3>3. CASE spare[s] > 0 /\ spare' = [spare EXCEPT ![s] = @ - 1]
      BY <3>1, <3>3
    <3>4. ASSUME NEW n \in Nat, spare' = [spare EXCEPT ![s] = n]
          PROVE  spare' \in [Sessions -> Nat]
      BY <3>1, <3>4
    <3>5. \A n \in 0..Cardinality(known[s]) : n \in Nat
      OBVIOUS
    <3> QED BY <3>2, <3>3, <3>4, <3>5 DEF WriteCopy, AppendCopy
  <2> QED BY <1>2, <1>3, <2>1, <2>2, <2>3 DEF CopiesOK
<1>5. CopyIsExact'
  <2> SUFFICES ASSUME NEW s2 \in Sessions, NEW r2 \in known'[s2], <<s2, r2>> \notin strayed'
               PROVE  amount'[s2][r2] = Seen(s2, r2)' % UintSize
    BY DEF CopyIsExact
  <2>1. r2 \in Resources
    BY <1>3
  <2>2. CASE s2 = s /\ r2 = r
    BY <1>1, <1>2, <2>2 DEF CopyPart, CopiesOK, Says
  <2>3. CASE s2 # s \/ r2 # r
    <3>1. <<s2, r2>> \notin strayed /\ Seen(s2, r2)' = Seen(s2, r2)
      BY <2>1, <2>3 DEF Elsewhere
    <3>2. r2 \in known[s2] /\ amount'[s2][r2] = amount[s2][r2]
      BY <1>2, <1>3, <2>1, <2>3 DEF CopyPart, CopiesOK
    <3> QED BY <3>1, <3>2 DEF CopyPart, CopyIsExact
  <2> QED BY <2>2, <2>3
<1>6. UnknownInv'
  <2> SUFFICES ASSUME NEW s2 \in Sessions, NEW r2 \in Resources, r2 \notin known'[s2],
                      <<s2, r2>> \notin strayed'
               PROVE  Seen(s2, r2)' = 0
    BY DEF UnknownInv
  <2>1. r2 \notin known[s2] /\ (s2 # s \/ r2 # r)
    BY <1>3 DEF CopyPart, CopiesOK
  <2>2. <<s2, r2>> \notin strayed /\ Seen(s2, r2)' = Seen(s2, r2)
    BY <2>1 DEF Elsewhere
  <2> QED BY <2>1, <2>2 DEF CopyPart, UnknownInv
<1> QED BY <1>4, <1>5, <1>6 DEF CopyPart

\* The copies stay, and so does what those sessions see whose copy has not strayed.
LEMMA CopyStays ==
  ASSUME CopyPart, UNCHANGED copyVars,
         strayed' \subseteq Sessions \X Resources,
         \A s \in Sessions, r \in Resources :
           <<s, r>> \notin strayed' => <<s, r>> \notin strayed /\ Seen(s, r)' = Seen(s, r)
  PROVE  CopyPart'
<1>1. CopiesOK'
  BY DEF CopyPart, CopiesOK, copyVars
<1>2. CopyIsExact'
  <2> SUFFICES ASSUME NEW s \in Sessions, NEW r \in known[s], <<s, r>> \notin strayed'
               PROVE  amount[s][r] = Seen(s, r)' % UintSize
    BY DEF CopyIsExact, copyVars
  <2>1. r \in Resources
    BY DEF CopyPart, CopiesOK
  <2> QED BY <2>1 DEF CopyPart, CopyIsExact
<1>3. UnknownInv'
  <2> SUFFICES ASSUME NEW s \in Sessions, NEW r \in Resources, r \notin known[s],
                      <<s, r>> \notin strayed'
               PROVE  Seen(s, r)' = 0
    BY DEF UnknownInv, copyVars
  <2> QED BY DEF CopyPart, UnknownInv
<1> QED BY <1>1, <1>2, <1>3 DEF CopyPart

LEMMA CopyFacts ==
  ASSUME RowPart, CopyPart, NEW s \in Sessions, NEW r \in Resources
  PROVE  /\ Seen(s, r) \in Int
         /\ amount[s][r] \in Int
<1>1. Seen(s, r) \in Int
  BY RowFacts DEF Seen
<1>2. amount[s][r] \in Int
  BY DEF CopyPart, CopiesOK
<1> QED BY <1>1, <1>2

\* An operation that adds d to what its session reads in the row, and to the copy.
LEMMA AddStep ==
  ASSUME RowPart, CopyPart, NEW s \in Sessions, NEW r \in Resources, NEW d \in Int,
         \/ r \in known[s] /\ WriteCopy(s, r, amount[s][r] + d)
         \/ r \notin known[s] /\ AppendCopy(s, r, d),
         strayed' \subseteq Sessions \X Resources,
         strayed \subseteq strayed',
         Seen(s, r)' = Seen(s, r) + d,
         Elsewhere(s, r)
  PROVE  CopyPart'
<1>1. CASE r \in known[s] /\ WriteCopy(s, r, amount[s][r] + d)
  <2>1. amount[s][r] + d \in Int
    BY CopyFacts
  <2>2. Says(s, r, amount[s][r] + d)
    <3> SUFFICES ASSUME <<s, r>> \notin strayed'
                 PROVE  (amount[s][r] + d) % UintSize = Seen(s, r)' % UintSize
      BY DEF Says
    <3>1. amount[s][r] = Seen(s, r) % UintSize
      BY <1>1 DEF CopyPart, CopyIsExact
    <3>2. Seen(s, r) \in Int
      BY CopyFacts
    <3> QED BY <3>1, <3>2, ReduceEarly
  <2> QED BY <1>1, <2>1, <2>2, CopyStep
<1>2. CASE r \notin known[s] /\ AppendCopy(s, r, d)
  <2>1. Says(s, r, d)
    BY <1>2 DEF CopyPart, UnknownInv, Says
  <2> QED BY <1>2, <2>1, CopyStep
<1> QED BY <1>1, <1>2

\* A single statement changes the stored amount of one row that nobody has locked;
\* the others' copies of it have strayed.
LEMMA StatementSeen ==
  ASSUME RowPart, CopyPart, NEW s \in Sessions, NEW r \in Resources, NEW m \in Int,
         lock[r] = NoSession,
         stored' = [stored EXCEPT ![r] = m],
         lock' = lock, change' = change, active' = active,
         Surprise(Others(s), {r})
  PROVE  /\ Seen(s, r) = stored[r]
         /\ Seen(s, r)' = m
         /\ strayed' \subseteq Sessions \X Resources
         /\ strayed \subseteq strayed'
         /\ Elsewhere(s, r)
<1>1. Seen(s, r) = stored[r] /\ Seen(s, r)' = m
  BY DEF RowPart, RowsOK, Seen
<1>2. strayed' \subseteq Sessions \X Resources /\ strayed \subseteq strayed'
  BY DEF CopyPart, Surprise, Others
<1>3. Elsewhere(s, r)
  <2> SUFFICES ASSUME NEW s2 \in Sessions, NEW r2 \in Resources,
                      s2 # s \/ r2 # r, <<s2, r2>> \notin strayed'
               PROVE  <<s2, r2>> \notin strayed /\ Seen(s2, r2)' = Seen(s2, r2)
    BY DEF Elsewhere
  <2>1. r2 # r /\ <<s2, r2>> \notin strayed
    BY DEF Surprise, Others
  <2> QED BY <2>1 DEF RowPart, RowsOK, Seen, Current
<1> QED BY <1>1, <1>2, <1>3

\* The amount of the row and its session's copy change alike.
LEMMA StatementAdds ==
  ASSUME RowPart, CopyPart, NEW s \in Sessions, NEW r \in Resources, NEW d \in Int,
         lock[r] = NoSession,
         stored' = [stored EXCEPT ![r] = stored[r] + d],
         lock' = lock, change' = change, active' = active,
         Surprise(Others(s), {r}),
         \/ r \in known[s] /\ WriteCopy(s, r, amount[s][r] + d)
         \/ r \notin known[s] /\ AppendCopy(s, r, d)
  PROVE  CopyPart'
<1> DEFINE m == stored[r] + d
<1>1. m \in Int /\ stored' = [stored EXCEPT ![r] = m]
  BY RowFacts
<1> HIDE DEF m
<1>2. /\ Seen(s, r) = stored[r] /\ Seen(s, r)' = m
      /\ strayed' \subseteq Sessions \X Resources
      /\ strayed \subseteq strayed'
      /\ Elsewhere(s, r)
  BY <1>1, StatementSeen
<1>3. Seen(s, r)' = Seen(s, r) + d
  BY <1>2 DEF m
<1> QED BY <1>2, <1>3, AddStep

\* A statement that was executed and reported as failed leads every copy of its row
\* astray.
LEMMA UnansweredStep ==
  ASSUME RowPart, CopyPart, NEW r \in Resources, NEW m \in Int,
         stored' = [stored EXCEPT ![r] = m],
         lock' = lock, change' = change, active' = active,
         Unanswered(r)
  PROVE  CopyPart'
<1>1. UNCHANGED copyVars /\ strayed' = strayed \cup (Sessions \X {r})
  BY DEF Unanswered, Surprise
<1>2. strayed' \subseteq Sessions \X Resources
  BY <1>1 DEF CopyPart
<1>3. ASSUME NEW t \in Sessions, NEW q \in Resources, <<t, q>> \notin strayed'
      PROVE  <<t, q>> \notin strayed /\ Seen(t, q)' = Seen(t, q)
  <2>1. q # r /\ <<t, q>> \notin strayed
    BY <1>1, <1>3
  <2> QED BY <2>1 DEF RowPart, RowsOK, Seen, Current
<1> QED BY <1>1, <1>2, <1>3, CopyStays

\* A write inside a transaction is seen by its session only.
LEMMA WriteSeen ==
  ASSUME RowPart, CopyPart, NEW s \in active, NEW r \in Resources, NEW d \in Int,
         Free(s, r), Write(s, r, d)
  PROVE  /\ Seen(s, r)' = Seen(s, r) + d
         /\ strayed' = strayed
         /\ Elsewhere(s, r)
<1>1. s \in Sessions /\ s # NoSession
  BY DEF RowPart, RowsOK
<1>2. Seen(s, r) = Current(r)
  BY RowFacts DEF Free, Seen
<1>3. Seen(s, r)' = Current(r) + d
  BY RowFacts DEF RowPart, RowsOK, Write, Seen, Current
<1>4. Elsewhere(s, r)
  <2> SUFFICES ASSUME NEW s2 \in Sessions, NEW r2 \in Resources, s2 # s \/ r2 # r
               PROVE  Seen(s2, r2)' = Seen(s2, r2)
    BY DEF Elsewhere, Write
  <2>1. CASE r2 # r
    BY <2>1 DEF RowPart, RowsOK, Write, Seen, Current
  <2>2. CASE r2 = r /\ s2 # s
    <3>1. lock[r] # s2 /\ lock'[r] # s2
      BY <1>1, <2>2 DEF RowPart, RowsOK, Write, Free
    <3> QED BY <2>2, <3>1 DEF Write, Seen
  <2> QED BY <2>1, <2>2
<1> QED BY <1>2, <1>3, <1>4 DEF Write

-----------------------------------------------------------------------------
LEMMA InitIndInv == Init => IndInv
<1> SUFFICES ASSUME Init PROVE IndInv
  OBVIOUS
<1>1. RowPart
  BY DEF Init, RowPart, RowsOK, LockInv, RowInv, NeverNegative, Current
<1>2. \A r \in Resources : stored[r] % UintSize \in 0..UintSize - 1
  BY <1>1, RowFacts, Division
<1>3. CopiesOK
  BY <1>1, <1>2 DEF Init, CopiesOK, RowPart, RowsOK
<1>4. CopyIsExact
  BY DEF Init, CopyIsExact, Seen
<1>5. UnknownInv
  BY DEF Init, UnknownInv, Seen
<1>6. strayed \subseteq Sessions \X Resources
  BY DEF Init
<1> QED BY <1>1, <1>3, <1>4, <1>5, <1>6 DEF IndInv, TypeOK, RowPart

LEMMA StatementsStep ==
  ASSUME RowPart, CopyPart, NEW s \in Sessions, NEW r \in Resources, NEW n \in Amounts,
         ConsumeResource(s, r, n) \/ AddResource(s, r, n) \/ SetResource(s, r, n)
  PROVE  RowPart' /\ CopyPart'
<1>2. /\ stored[r] \in Int /\ stored[r] >= 0 /\ n \in Nat /\ UNCHANGED <<lock, change, active>>
      /\ lock[r] = NoSession
  BY RowFacts DEF ConsumeResource, AddResource, SetResource, Autocommit
<1>3. CASE ConsumeResource(s, r, n)
  <2>1. /\ stored[r] - n \in Nat /\ stored' = [stored EXCEPT ![r] = stored[r] - n]
        /\ r \in rows /\ rows' = rows /\ r \in known[s]
    BY <1>2, <1>3 DEF ConsumeResource, HasEnoughResource
  <2>2. RowPart'
    BY <1>2, <2>1, StatementRows
  <2>3. CASE WriteCopy(s, r, amount[s][r] - n) /\ Surprise(Others(s), {r})
    <3>1. amount[s][r] - n = amount[s][r] + (-n) /\ stored[r] - n = stored[r] + (-n) /\ -n \in Int
      BY <1>2, CopyFacts
    <3> QED BY <1>2, <2>1, <2>2, <2>3, <3>1, StatementAdds
  <2>4. CASE Unanswered(r)
    <3>1. stored[r] - n \in Int
      BY <2>1
    <3> QED BY <1>2, <2>1, <2>2, <2>4, <3>1, UnansweredStep
  <2> QED BY <1>3, <2>3, <2>4 DEF ConsumeResource
<1>4. CASE AddResource(s, r, n)
  <2>1. /\ stored[r] + n \in Nat /\ stored' = [stored EXCEPT ![r] = stored[r] + n]
        /\ rows' = rows \cup {r}
    BY <1>2, <1>4 DEF AddResource
  <2>2. RowPart'
    BY <1>2, <2>1, StatementRows
  <2>3. CASE AddCopy(s, r, n) /\ Surprise(Others(s), {r})
    <3>1. \/ r \in known[s] /\ WriteCopy(s, r, amount[s][r] + n)
          \/ r \notin known[s] /\ AppendCopy(s, r, n)
      BY <2>3 DEF AddCopy
    <3>2. n \in Int
      BY <1>2
    <3> QED BY <1>2, <2>1, <2>2, <2>3, <3>1, <3>2, StatementAdds
  <2>4. CASE Unanswered(r)
    <3>1. stored[r] + n \in Int
      BY <2>1
    <3> QED BY <1>2, <2>1, <2>2, <2>4, <3>1, UnansweredStep
  <2> QED BY <1>4, <2>3, <2>4 DEF AddResource
<1>5. CASE SetResource(s, r, n)
  <2>1. CASE /\ rows' = rows \cup {r}
             /\ stored' = [stored EXCEPT ![r] = n]
             /\ IF r \in known[s] THEN WriteCopy(s, r, n) ELSE AppendCopy(s, r, n)
             /\ Surprise(Others(s), {r})
    <3>1. RowPart'
      BY <1>2, <2>1, StatementRows
    <3>2. n \in Int
      BY <1>2
    <3>3. /\ Seen(s, r)' = n
          /\ strayed' \subseteq Sessions \X Resources
          /\ Elsewhere(s, r)
      BY <1>2, <2>1, <3>2, StatementSeen
    <3>4. Says(s, r, n)
      BY <3>3 DEF Says
    <3>5. (r \in known[s] /\ WriteCopy(s, r, n)) \/ AppendCopy(s, r, n)
      BY <2>1
    <3>6. CopyPart'
      BY <3>2, <3>3, <3>4, <3>5, CopyStep
    <3> QED BY <3>1, <3>6
  <2>2. CASE /\ r \in known[s]
             /\ WriteCopy(s, r, n)
             /\ strayed' = strayed \cup {<<s, r>>}
             /\ UNCHANGED <<rows, stored>>
    <3>1. RowPart'
      BY <1>2, <2>2 DEF RowPart, RowsOK, LockInv, RowInv, NeverNegative, Current
    <3>2. strayed' \subseteq Sessions \X Resources /\ <<s, r>> \in strayed'
      BY <2>2 DEF CopyPart
    <3>3. Elsewhere(s, r)
      BY <1>2, <2>2 DEF Elsewhere, Seen, Current
    <3>4. n \in Int /\ Says(s, r, n)
      BY <1>2, <3>2 DEF Says
    <3>5. CopyPart'
      BY <2>2, <3>2, <3>3, <3>4, CopyStep
    <3> QED BY <3>1, <3>5
  <2>3. CASE rows' = rows \cup {r} /\ stored' = [stored EXCEPT ![r] = n] /\ Unanswered(r)
    <3>1. RowPart'
      BY <1>2, <2>3, StatementRows
    <3>2. n \in Int
      BY <1>2
    <3> QED BY <1>2, <2>3, <3>1, <3>2, UnansweredStep
  <2> QED BY <1>5, <2>1, <2>2, <2>3 DEF SetResource
<1> QED BY <1>3, <1>4, <1>5

LEMMA TransactionWriteStep ==
  ASSUME RowPart, CopyPart, NEW s \in Sessions, NEW r \in Resources, NEW n \in Amounts,
         ConsumeResourceTx(s, r, n) \/ AddResourceTx(s, r, n)
  PROVE  RowPart' /\ CopyPart'
<1>2. /\ Current(r) \in Int /\ Current(r) >= 0 /\ n \in Nat /\ s \in active /\ Free(s, r)
      /\ strayed \subseteq Sessions \X Resources
  BY RowFacts DEF ConsumeResourceTx, AddResourceTx, CopyPart
<1>3. CASE ConsumeResourceTx(s, r, n)
  <2>1. /\ Write(s, r, -n) /\ -n \in Int /\ Current(r) + (-n) >= 0
        /\ r \in known[s] /\ WriteCopy(s, r, amount[s][r] - n)
    BY <1>2, <1>3 DEF ConsumeResourceTx, HasEnoughResource
  <2>2. amount[s][r] - n = amount[s][r] + (-n)
    BY <1>2, CopyFacts
  <2>3. RowPart'
    BY <1>2, <2>1, WriteRows
  <2>4. Seen(s, r)' = Seen(s, r) + (-n) /\ strayed' = strayed /\ Elsewhere(s, r)
    BY <1>2, <2>1, WriteSeen
  <2>5. CopyPart'
    BY <1>2, <2>1, <2>2, <2>4, AddStep
  <2> QED BY <2>3, <2>5
<1>4. CASE AddResourceTx(s, r, n)
  <2>1. Write(s, r, n) /\ Current(r) + n >= 0 /\ AddCopy(s, r, n)
    BY <1>2, <1>4 DEF AddResourceTx
  <2>2. RowPart'
    BY <1>2, <2>1, WriteRows
  <2>3. Seen(s, r)' = Seen(s, r) + n /\ strayed' = strayed /\ Elsewhere(s, r)
    BY <1>2, <2>1, WriteSeen
  <2>4. CopyPart'
    BY <1>2, <2>1, <2>3, AddStep DEF AddCopy
  <2> QED BY <2>2, <2>4
<1> QED BY <1>3, <1>4

LEMMA TransactionEndStep ==
  ASSUME RowPart, CopyPart, NEW s \in Sessions, Commit(s) \/ Rollback(s)
  PROVE  RowPart' /\ CopyPart'
<1>1. strayed \subseteq Sessions \X Resources
  BY DEF CopyPart
<1>2. /\ Unlock(s) /\ UNCHANGED copyVars /\ s # NoSession
      /\ s \notin active' /\ \A t \in Sessions : t # s => (t \in active' <=> t \in active)
  BY DEF Commit, Rollback, Unlock
<1>3. RowPart'
  BY <1>1, <1>2, UnlockRows DEF Commit, Rollback
<1>4. \A r \in Resources :
        /\ r \in Mine(s) => lock[r] = s /\ lock'[r] = NoSession
        /\ r \notin Mine(s) => lock[r] # s /\ lock'[r] = lock[r] /\ change'[r] = change[r]
  BY <1>2 DEF Unlock, Mine
<1>5. \A t \in Sessions, r \in Resources :
        r \notin Mine(s) /\ stored'[r] = stored[r] => Seen(t, r)' = Seen(t, r)
  BY <1>2, <1>4 DEF Seen, Current
<1>6. \A t \in Sessions, r \in Resources : r \in Mine(s) =>
        /\ Seen(t, r)' = stored'[r]
        /\ Seen(t, r) = IF t = s /\ s \in active THEN Current(r) ELSE stored[r]
  BY <1>2, <1>4 DEF Seen
<1>7. CASE Commit(s)
  <2>1. \A r \in Resources : stored'[r] = IF r \in Mine(s) THEN Current(r) ELSE stored[r]
    BY <1>7 DEF Commit
  <2>2. strayed' = strayed \cup ((IF s \in active THEN Others(s) ELSE Sessions) \X Mine(s))
    BY <1>7 DEF Commit, Surprise
  <2>3. strayed' \subseteq Sessions \X Resources
    BY <1>1, <2>2 DEF Others, Mine
  <2>4. ASSUME NEW t \in Sessions, NEW r \in Resources, <<t, r>> \notin strayed'
        PROVE  <<t, r>> \notin strayed /\ Seen(t, r)' = Seen(t, r)
    <3>1. <<t, r>> \notin strayed /\ (r \in Mine(s) => t = s /\ s \in active)
      BY <2>2, <2>4 DEF Others
    <3> QED BY <1>5, <1>6, <2>1, <3>1
  <2> QED BY <1>2, <1>3, <2>3, <2>4, CopyStays
<1>8. CASE Rollback(s)
  <2>1. strayed' = strayed \cup (({s} \cap active) \X Mine(s)) /\ stored' = stored
    BY <1>8 DEF Rollback, Surprise
  <2>2. strayed' \subseteq Sessions \X Resources
    BY <1>1, <2>1 DEF Mine
  <2>3. ASSUME NEW t \in Sessions, NEW r \in Resources, <<t, r>> \notin strayed'
        PROVE  <<t, r>> \notin strayed /\ Seen(t, r)' = Seen(t, r)
    <3>1. <<t, r>> \notin strayed /\ (r \in Mine(s) => t # s \/ s \notin active)
      BY <2>1, <2>3
    <3> QED BY <1>5, <1>6, <2>1, <3>1
  <2> QED BY <1>2, <1>3, <2>2, <2>3, CopyStays
<1> QED BY <1>7, <1>8

\* A session that has left its transaction no longer reads what it wrote there.
LEMMA AbandonStep ==
  ASSUME RowPart, CopyPart, NEW s \in Sessions, CommitUnanswered(s)
  PROVE  RowPart' /\ CopyPart'
<1>1. /\ UNCHANGED <<rows, stored, lock, change>> /\ UNCHANGED copyVars
      /\ active' = active \ {s}
      /\ strayed' = strayed \cup ({s} \X Mine(s))
  BY DEF CommitUnanswered, Surprise
<1>2. RowPart'
  BY <1>1 DEF RowPart, RowsOK, LockInv, RowInv, NeverNegative, Current
<1>3. strayed' \subseteq Sessions \X Resources
  BY <1>1 DEF CopyPart, Mine
<1>4. ASSUME NEW t \in Sessions, NEW r \in Resources, <<t, r>> \notin strayed'
      PROVE  <<t, r>> \notin strayed /\ Seen(t, r)' = Seen(t, r)
  <2>1. <<t, r>> \notin strayed /\ (t # s \/ lock[r] # s)
    BY <1>1, <1>4 DEF Mine
  <2> QED BY <1>1, <2>1 DEF Seen, Current
<1> QED BY <1>1, <1>2, <1>3, <1>4, CopyStays

\* A Load reads what is committed; its session has no transaction that sees more.
LEMMA LoadStep ==
  ASSUME RowPart, CopyPart, NEW s \in Sessions, Load(s)
  PROVE  RowPart' /\ CopyPart'
<1>2. RowPart'
  BY DEF Load, dbVars, RowPart, RowsOK, LockInv, RowInv, NeverNegative, Current
<1>3. \A r \in Resources : stored[r] % UintSize \in 0..UintSize - 1
  BY RowFacts, Division
<1>4. CopiesOK'
  BY <1>3 DEF Load, CopyPart, CopiesOK, RowPart, RowsOK
<1>5. strayed' \subseteq Sessions \X Resources
  BY DEF Load, CopyPart
<1>6. \A t \in Sessions, r \in Resources : Seen(t, r)' = Seen(t, r)
  BY DEF Load, dbVars, Seen, Current
<1>7. \A r \in Resources : Seen(s, r) = stored[r]
  BY DEF Load, Seen
<1>8. \A t \in Sessions : t # s =>
        /\ known'[t] = known[t] /\ amount'[t] = amount[t]
        /\ \A r \in Resources : <<t, r>> \in strayed' <=> <<t, r>> \in strayed
  BY DEF Load, CopyPart, CopiesOK
<1>9. known'[s] = rows /\ \A r \in Resources : amount'[s][r] = stored[r] % UintSize
  BY DEF Load, CopyPart, CopiesOK
<1>10. CopyIsExact'
  <2> SUFFICES ASSUME NEW t \in Sessions, NEW r \in known'[t], <<t, r>> \notin strayed'
               PROVE  amount'[t][r] = Seen(t, r)' % UintSize
    BY DEF CopyIsExact
  <2>1. r \in Resources
    BY <1>4 DEF CopiesOK
  <2>2. CASE t = s
    BY <1>6, <1>7, <1>9, <2>1, <2>2
  <2>3. CASE t # s
    BY <1>6, <1>8, <2>1, <2>3 DEF CopyPart, CopyIsExact
  <2> QED BY <2>2, <2>3
<1>11. UnknownInv'
  <2> SUFFICES ASSUME NEW t \in Sessions, NEW r \in Resources, r \notin known'[t],
                      <<t, r>> \notin strayed'
               PROVE  Seen(t, r)' = 0
    BY DEF UnknownInv
  <2>1. CASE t = s
    <3>1. stored[r] = 0
      BY <1>9, <2>1 DEF RowPart, RowInv
    <3> QED BY <1>6, <1>7, <2>1, <3>1
  <2>2. CASE t # s
    BY <1>6, <1>8, <2>2 DEF CopyPart, UnknownInv
  <2> QED BY <2>1, <2>2
<1> QED BY <1>2, <1>4, <1>5, <1>10, <1>11 DEF CopyPart

LEMMA NextStep == IndInv /\ [Next]_vars => IndInv'
<1> SUFFICES ASSUME IndInv, [Next]_vars PROVE IndInv'
  OBVIOUS
<1>1. RowPart /\ CopyPart
  BY DEF IndInv, TypeOK, RowPart, CopyPart
<1>2. ASSUME UNCHANGED <<rows, stored, lock, change>>, UNCHANGED copyVars, UNCHANGED strayed,
             active' \subseteq Sessions,
             \A s \in Sessions : (s \in active' <=> s \in active) \/ Mine(s) = {}
      PROVE  RowPart' /\ CopyPart'
  <2>1. RowPart'
    BY <1>1, <1>2 DEF RowPart, RowsOK, LockInv, RowInv, NeverNegative, Current
  <2>2. \A s \in Sessions, r \in Resources : Seen(s, r)' = Seen(s, r)
    BY <1>2 DEF Seen, Current, Mine
  <2>3. strayed' \subseteq Sessions \X Resources
    BY <1>1, <1>2 DEF CopyPart
  <2>4. CopyPart'
    BY <1>1, <1>2, <2>2, <2>3, CopyStays
  <2> QED BY <2>1, <2>4
<1>3. active \subseteq Sessions
  BY <1>1 DEF RowPart, RowsOK
<1>4. ASSUME NEW s \in Sessions, Begin(s) PROVE RowPart' /\ CopyPart'
  <2>1. /\ UNCHANGED <<rows, stored, lock, change>> /\ UNCHANGED copyVars /\ UNCHANGED strayed
        /\ active' = active \cup {s} /\ Mine(s) = {}
    BY <1>4 DEF Begin
  <2> QED BY <1>2, <1>3, <2>1
<1>5. ASSUME UNCHANGED vars PROVE RowPart' /\ CopyPart'
  <2>1. /\ UNCHANGED <<rows, stored, lock, change>> /\ UNCHANGED copyVars /\ UNCHANGED strayed
        /\ active' = active
    BY <1>5 DEF vars, dbVars
  <2> QED BY <1>2, <1>3, <2>1
<1>6. RowPart' /\ CopyPart'
  <2>1. ASSUME NEW s \in Sessions, Load(s) \/ Commit(s) \/ CommitUnanswered(s) \/ Rollback(s)
        PROVE  RowPart' /\ CopyPart'
    BY <1>1, <2>1, LoadStep, TransactionEndStep, AbandonStep
  <2>2. ASSUME NEW s \in Sessions, NEW r \in Resources, NEW n \in Amounts,
               \/ ConsumeResource(s, r, n) \/ AddResource(s, r, n) \/ SetResource(s, r, n)
        PROVE  RowPart' /\ CopyPart'
    BY <1>1, <2>2, StatementsStep
  <2>3. ASSUME NEW s \in Sessions, NEW r \in Resources, NEW n \in Amounts,
               ConsumeResourceTx(s, r, n) \/ AddResourceTx(s, r, n)
        PROVE  RowPart' /\ CopyPart'
    BY <1>1, <2>3, TransactionWriteStep
  <2> QED BY <1>4, <1>5, <2>1, <2>2, <2>3 DEF Next
<1> QED BY <1>6 DEF IndInv, TypeOK, RowPart, CopyPart

-----------------------------------------------------------------------------
\* The inductive invariant holds throughout, with every fault.
THEOREM Invariance == Spec => []IndInv
  BY InitIndInv, NextStep, PTL DEF Spec

\* Rows, locks, transactions and copies keep their types; in particular what
\* WriteCopy and AppendCopy store always fits into the width of the copies.
THEOREM TypeCorrect == Spec => []TypeOK
<1>1. IndInv => TypeOK
  BY DEF IndInv
<1> QED BY Invariance, <1>1, PTL

\* No resource is ever negative, however many sessions there are and however
\* their copies have come to differ from the rows: ConsumeResource and
\* ConsumeResourceTx test the row itself.
THEOREM NothingOverspent == Spec => []NeverNegative
<1>1. IndInv => NeverNegative
  BY DEF IndInv
<1> QED BY Invariance, <1>1, PTL

\* As long as no other session's commit, no failed SetResource, no rollback and no
\* lost answer to something executed has come between, the copy that Load has made
\* and the operations have carried on says, modulo its width, exactly what the
\* session reads in the database.
THEOREM CopiesAreExact == Spec => []CopyIsExact
<1>1. IndInv => CopyIsExact
  BY DEF IndInv
<1> QED BY Invariance, <1>1, PTL

-----------------------------------------------------------------------------
(* The slice.                                                              *)

LEMMA LinkStep == IndInv /\ LinkInv /\ [Next]_vars => LinkInv'
<1> SUFFICES ASSUME IndInv, LinkInv, [Next]_vars PROVE LinkInv'
  OBVIOUS
<1>c. /\ known \in [Sessions -> SUBSET Resources]
      /\ amount \in [Sessions -> [Resources -> 0..UintSize - 1]]
      /\ listed \in [Sessions -> [Resources -> 0..UintSize - 1]]
      /\ linked \in [Sessions -> SUBSET Resources]
  BY DEF IndInv, TypeOK, CopiesOK
<1>1. ASSUME NEW s \in Sessions, NEW r \in Resources, NEW n, WriteCopy(s, r, n)
      PROVE  LinkInv'
  <2>1. PICK v : v = n % UintSize
    OBVIOUS
  <2>2. amount' = [amount EXCEPT ![s][r] = v] /\ linked' = linked /\ known' = known
    BY <1>1, <2>1 DEF WriteCopy
  <2>3. PICK w : /\ listed' = [listed EXCEPT ![s][r] = w]
                 /\ w = IF r \in linked[s] THEN v ELSE listed[s][r]
    BY <1>1, <2>1 DEF WriteCopy
  <2>4. \A t \in Sessions, q \in Resources :
          /\ amount'[t][q] = IF t = s /\ q = r THEN v ELSE amount[t][q]
          /\ listed'[t][q] = IF t = s /\ q = r THEN w ELSE listed[t][q]
    BY <1>c, <2>2, <2>3
  <2> QED BY <1>c, <2>2, <2>3, <2>4 DEF LinkInv
<1>2. ASSUME NEW s \in Sessions, NEW r \in Resources, NEW n, AppendCopy(s, r, n)
      PROVE  LinkInv'
  <2>1. PICK v : v = n % UintSize
    OBVIOUS
  <2>2. /\ amount' = [amount EXCEPT ![s][r] = v]
        /\ listed' = [listed EXCEPT ![s][r] = v]
        /\ known' = [known EXCEPT ![s] = @ \cup {r}]
        /\ \/ linked' = [linked EXCEPT ![s] = @ \cup {r}]
           \/ linked' = [linked EXCEPT ![s] = {r}]
    BY <1>2, <2>1 DEF AppendCopy
  <2>3. \A t \in Sessions, q \in Resources :
          /\ amount'[t][q] = IF t = s /\ q = r THEN v ELSE amount[t][q]
          /\ listed'[t][q] = IF t = s /\ q = r THEN v ELSE listed[t][q]
    BY <1>c, <2>2
  <2>4. \A t \in Sessions : /\ known[t] \subseteq known'[t] /\ r \in known'[s]
                            /\ linked'[t] \subseteq (IF t = s THEN linked[t] \cup {r} ELSE linked[t])
    BY <1>c, <2>2
  <2> QED BY <1>c, <2>3, <2>4 DEF LinkInv
<1>3. ASSUME NEW s \in Sessions, Load(s)
      PROVE  LinkInv'
  <2>1. \A t \in Sessions : IF t = s THEN linked'[t] = known'[t] /\ amount'[t] = listed'[t]
                                     ELSE /\ linked'[t] = linked[t] /\ known'[t] = known[t]
                                          /\ amount'[t] = amount[t] /\ listed'[t] = listed[t]
    BY <1>3, <1>c DEF Load
  <2>2. known'[s] = rows /\ rows \subseteq Resources
    BY <1>3, <1>c DEF Load, IndInv, TypeOK, RowsOK
  <2> QED BY <2>1, <2>2 DEF LinkInv
<1>4. CASE UNCHANGED copyVars
  BY <1>4 DEF copyVars, LinkInv
<1>5. ASSUME NEW s \in Sessions, Begin(s) \/ Commit(s) \/ CommitUnanswered(s) \/ Rollback(s)
      PROVE  UNCHANGED copyVars
  BY <1>5 DEF Begin, Commit, CommitUnanswered, Rollback, Unlock
<1>6. ASSUME NEW s \in Sessions, NEW r \in Resources, NEW n \in Amounts,
             \/ ConsumeResource(s, r, n) \/ AddResource(s, r, n) \/ SetResource(s, r, n)
             \/ ConsumeResourceTx(s, r, n) \/ AddResourceTx(s, r, n)
      PROVE  UNCHANGED copyVars \/ \E m : WriteCopy(s, r, m) \/ AppendCopy(s, r, m)
  <2>1. CASE ConsumeResource(s, r, n)
    BY <2>1 DEF ConsumeResource, Unanswered
  <2>2. CASE ConsumeResourceTx(s, r, n)
    BY <2>2 DEF ConsumeResourceTx
  <2>3. CASE AddResource(s, r, n) \/ AddResourceTx(s, r, n)
    <3>1. UNCHANGED copyVars \/ AddCopy(s, r, n)
      BY <2>3 DEF AddResource, AddResourceTx, Unanswered
    <3> QED BY <3>1 DEF AddCopy
  <2>4. CASE SetResource(s, r, n)
    <3>1. UNCHANGED copyVars \/ WriteCopy(s, r, n) \/ AppendCopy(s, r, n)
      BY <2>4 DEF SetResource, Unanswered
    <3> QED BY <3>1
  <2> QED BY <1>6, <2>1, <2>2, <2>3, <2>4
<1>7. CASE UNCHANGED vars
  BY <1>4, <1>7 DEF vars
<1> QED BY <1>1, <1>2, <1>3, <1>4, <1>5, <1>6, <1>7 DEF Next

\* What SC_11004 sends of a resource is what the handlers have written, unless an
\* append has left the map's pointer behind in the old array: SyncIsCurrent fails for
\* no other reason.
THEOREM LinkedIsCurrent == Spec => [](LinkInv /\ (linked = known => SyncIsCurrent))
<1>1. Init => LinkInv
  BY DEF Init, LinkInv
<1>2. LinkInv => (linked = known => SyncIsCurrent)
  BY DEF LinkInv, SyncIsCurrent
<1> QED BY <1>1, <1>2, Invariance, LinkStep, PTL DEF Spec

-----------------------------------------------------------------------------
(* The rows as an account.                                                 *)

LEMMA DraftFacts ==
  ASSUME RowPart, NEW r \in Resources
  PROVE  /\ \A t \in Sessions : Drafts[t][r] = IF lock[r] = t THEN change[r] ELSE 0
         /\ lock[r] = NoSession => Account!Undrafted(r)
         /\ \A s \in Sessions : Free(s, r) =>
              Account!Mine(s, r) /\ stored[r] + Drafts[s][r] = Current(r)
<1>1. \A t \in Sessions : Drafts[t][r] = IF lock[r] = t THEN change[r] ELSE 0
  BY DEF Drafts
<1>2. \A t \in Sessions : t # NoSession
  OBVIOUS
<1>3. lock[r] = NoSession => change[r] = 0
  BY DEF RowPart, LockInv
<1>4. lock[r] = NoSession => Account!Undrafted(r)
  BY <1>1, <1>2 DEF Account!Undrafted
<1>5. ASSUME NEW s \in Sessions, Free(s, r)
      PROVE  Account!Mine(s, r) /\ stored[r] + Drafts[s][r] = Current(r)
  BY <1>1, <1>2, <1>3, <1>5, RowFacts DEF Account!Mine, Free, Current
<1> QED BY <1>1, <1>4, <1>5

\* Drafts is a table, which is written entry by entry.
LEMMA DraftWritten ==
  ASSUME NEW s \in Sessions, NEW r \in Resources, NEW v,
         \A t \in Sessions, q \in Resources :
           Drafts'[t][q] = IF t = s /\ q = r THEN v ELSE Drafts[t][q]
  PROVE  Drafts' = [Drafts EXCEPT ![s][r] = v]
<1> DEFINE row == [Drafts[s] EXCEPT ![r] = v]
<1>1. \A t \in Sessions : /\ Drafts[t] = [q \in Resources |-> Drafts[t][q]]
                          /\ Drafts'[t] = [q \in Resources |-> Drafts'[t][q]]
  BY DEF Drafts
<1>2. row = [q \in Resources |-> IF q = r THEN v ELSE Drafts[s][q]]
  BY <1>1
<1>3. Drafts'[s] = row
  BY <1>1, <1>2
<1>4. \A t \in Sessions : t # s => Drafts'[t] = Drafts[t]
  <2> SUFFICES ASSUME NEW t \in Sessions, t # s PROVE Drafts'[t] = Drafts[t]
    OBVIOUS
  <2>1. \A q \in Resources : Drafts'[t][q] = Drafts[t][q]
    OBVIOUS
  <2> QED BY <1>1, <2>1
<1>5. /\ Drafts = [t \in Sessions |-> Drafts[t]]
      /\ Drafts' = [t \in Sessions |-> Drafts'[t]]
  BY DEF Drafts
<1> HIDE DEF row
<1>6. Drafts' = [Drafts EXCEPT ![s] = row]
  BY <1>3, <1>4, <1>5
<1> QED BY <1>6 DEF row

LEMMA DraftKept ==
  ASSUME UNCHANGED <<lock, change>>
  PROVE  Drafts' = Drafts
  BY DEF Drafts

LEMMA WriteDrafts ==
  ASSUME RowPart, NEW s \in active, NEW r \in Resources, NEW d \in Int,
         Free(s, r), Write(s, r, d)
  PROVE  /\ stored' = stored
         /\ Drafts' = [Drafts EXCEPT ![s][r] = Drafts[s][r] + d]
<1>1. s \in Sessions
  BY DEF RowPart, RowsOK
<1>2. PICK v : v = Drafts[s][r] + d
  OBVIOUS
<1>3. lock' = [lock EXCEPT ![r] = s] /\ change' = [change EXCEPT ![r] = change[r] + d]
  BY DEF Write
<1>4. \A t \in Sessions, q \in Resources :
        Drafts'[t][q] = IF t = s /\ q = r THEN v ELSE Drafts[t][q]
  <2> SUFFICES ASSUME NEW t \in Sessions, NEW q \in Resources
               PROVE  Drafts'[t][q] = IF t = s /\ q = r THEN v ELSE Drafts[t][q]
    OBVIOUS
  <2>1. Drafts'[t][q] = IF lock'[q] = t THEN change'[q] ELSE 0
    BY DEF Drafts
  <2>2. Drafts[t][q] = IF lock[q] = t THEN change[q] ELSE 0
    BY DEF Drafts
  <2>3. CASE q # r
    BY <1>3, <2>1, <2>2, <2>3 DEF RowPart, RowsOK
  <2>4. CASE q = r
    <3>1. lock'[q] = s /\ change'[q] = change[q] + d
      BY <1>3, <2>4 DEF RowPart, RowsOK
    <3>2. lock[q] = s \/ (lock[q] = NoSession /\ change[q] = 0)
      BY <2>4 DEF Free, RowPart, LockInv
    <3>3. Drafts[s][r] = change[r]
      BY <1>1, <2>4, <3>2, DraftFacts
    <3>4. t # s => lock[q] # t /\ lock'[q] # t
      BY <3>1, <3>2
    <3> QED BY <1>2, <2>1, <2>2, <2>4, <3>1, <3>3, <3>4
  <2> QED BY <2>3, <2>4
<1> QED BY <1>1, <1>2, <1>4, DraftWritten DEF Write

\* A transaction ends: its drafts are gone, the others' stay.
LEMMA UnlockDrafts ==
  ASSUME RowPart, NEW s \in Sessions, Unlock(s)
  PROVE  Drafts' = [Drafts EXCEPT ![s] = Account!NoDraft]
<1>1. \A r \in Resources :
        /\ lock'[r] = IF lock[r] = s THEN NoSession ELSE lock[r]
        /\ change'[r] = IF lock[r] = s THEN 0 ELSE change[r]
  BY DEF Unlock, Mine
<1>2. \A t \in Sessions, r \in Resources :
        Drafts'[t][r] = IF t = s THEN 0 ELSE Drafts[t][r]
  BY <1>1 DEF Drafts
<1>3. \A t \in Sessions : Drafts'[t] = IF t = s THEN Account!NoDraft ELSE Drafts[t]
  BY <1>2 DEF Drafts, Account!NoDraft
<1> QED BY <1>3 DEF Drafts

LEMMA AccountInit == Init => Account!Init
<1> SUFFICES ASSUME Init PROVE Account!Init
  OBVIOUS
<1>1. stored \in [Resources -> Nat]
  BY DEF Init
<1>2. Drafts = [s \in Sessions |-> Account!NoDraft]
  BY DEF Init, Drafts, Account!NoDraft
<1> QED BY <1>1, <1>2 DEF Account!Init

LEMMA AccountStep == IndInv /\ [Next]_vars => [Account!Next]_(Account!accountVars)
<1> SUFFICES ASSUME IndInv, [Next]_vars PROVE [Account!Next]_(Account!accountVars)
  OBVIOUS
<1>r. RowPart
  BY DEF IndInv, TypeOK, RowPart
<1>k. ASSUME UNCHANGED <<stored, lock, change>>
      PROVE  UNCHANGED Account!accountVars
  BY <1>k, DraftKept DEF Account!accountVars
<1>1. ASSUME NEW s \in Sessions, NEW r \in Resources, NEW n \in Amounts,
             ConsumeResource(s, r, n) \/ AddResource(s, r, n) \/ SetResource(s, r, n)
      PROVE  \/ Account!Withdraw(r, n) \/ Account!Deposit(r, n) \/ Account!Declare(r, n)
             \/ UNCHANGED Account!accountVars
  <2>1. lock[r] = NoSession /\ UNCHANGED <<lock, change>>
    BY <1>1 DEF ConsumeResource, AddResource, SetResource, Autocommit
  <2>2. Account!Undrafted(r) /\ Drafts' = Drafts
    BY <1>r, <2>1, DraftFacts, DraftKept
  <2>3. CASE ConsumeResource(s, r, n)
    BY <2>2, <2>3 DEF ConsumeResource, Account!Withdraw
  <2>4. CASE AddResource(s, r, n)
    BY <2>2, <2>4 DEF AddResource, Account!Deposit
  <2>5. CASE SetResource(s, r, n)
    BY <2>2, <2>5 DEF SetResource, Account!Declare, Account!accountVars
  <2> QED BY <1>1, <2>3, <2>4, <2>5
<1>2. ASSUME NEW s \in Sessions, NEW r \in Resources, NEW n \in Amounts,
             ConsumeResourceTx(s, r, n) \/ AddResourceTx(s, r, n)
      PROVE  Account!DraftWithdrawal(s, r, n) \/ Account!DraftDeposit(s, r, n)
  <2>1. n \in Int /\ -n \in Int /\ s \in active /\ Free(s, r)
    BY <1>2 DEF ConsumeResourceTx, AddResourceTx
  <2>2. Account!Mine(s, r) /\ stored[r] + Drafts[s][r] = Current(r) /\ Drafts[s][r] \in Int
    BY <1>r, <2>1, DraftFacts, RowFacts
  <2>3. CASE ConsumeResourceTx(s, r, n)
    <3>1. Write(s, r, -n) /\ Current(r) >= n
      BY <2>3 DEF ConsumeResourceTx
    <3>2. stored' = stored /\ Drafts' = [Drafts EXCEPT ![s][r] = Drafts[s][r] + (-n)]
      BY <1>r, <2>1, <3>1, WriteDrafts
    <3>3. Drafts[s][r] + (-n) = Drafts[s][r] - n
      BY <2>1, <2>2
    <3> QED BY <2>2, <3>1, <3>2, <3>3 DEF Account!DraftWithdrawal
  <2>4. CASE AddResourceTx(s, r, n)
    <3>1. stored' = stored /\ Drafts' = [Drafts EXCEPT ![s][r] = Drafts[s][r] + n]
      BY <1>r, <2>1, <2>4, WriteDrafts DEF AddResourceTx
    <3> QED BY <2>2, <3>1 DEF Account!DraftDeposit
  <2> QED BY <1>2, <2>3, <2>4
<1>3. ASSUME NEW s \in Sessions, Commit(s)
      PROVE  Account!Post(s)
  <2>1. Drafts' = [Drafts EXCEPT ![s] = Account!NoDraft]
    BY <1>r, <1>3, UnlockDrafts DEF Commit
  <2>2. \A r \in Resources : (IF r \in Mine(s) THEN Current(r) ELSE stored[r]) = stored[r] + Drafts[s][r]
    BY <1>r, DraftFacts, RowFacts DEF Mine, Current
  <2>3. stored' = [r \in Resources |-> stored[r] + Drafts[s][r]]
    BY <1>3, <2>2 DEF Commit
  <2> QED BY <2>1, <2>3 DEF Account!Post
<1>4. ASSUME NEW s \in Sessions, Rollback(s)
      PROVE  Account!Cancel(s)
  BY <1>r, <1>4, UnlockDrafts DEF Rollback, Account!Cancel
<1>5. ASSUME NEW s \in Sessions, Load(s) \/ Begin(s) \/ CommitUnanswered(s)
      PROVE  UNCHANGED Account!accountVars
  BY <1>k, <1>5 DEF Load, Begin, CommitUnanswered, dbVars
<1>6. CASE UNCHANGED vars
  BY <1>k, <1>6 DEF vars, dbVars
<1> QED BY <1>1, <1>2, <1>3, <1>4, <1>5, <1>6 DEF Next, Account!Next

\* The rows of the commander's resources are an account, with every fault and however
\* wrong the copies are: no change is lost, none counts twice, and transactions are
\* posted as a whole or not at all.
THEOREM LedgerImplementsAccount == Spec => ImplementsAccount
  BY AccountInit, AccountStep, Invariance, PTL DEF Spec, Account!Spec, ImplementsAccount
=============================================================================
