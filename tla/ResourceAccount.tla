--------------------------- MODULE ResourceAccount ---------------------------
(***************************************************************************)
(* What the database promises of a commander's resources, whatever the     *)
(* sessions believe to own: one balance per resource, never below zero, to *)
(* which every deposit and withdrawal is added, none twice and none lost.  *)
(* A transaction drafts its changes, which nobody else sees, and posts or  *)
(* cancels all of them; while it drafts a resource nobody else changes it. *)
(***************************************************************************)
EXTENDS Integers

CONSTANTS Sessions, Resources, Amounts

VARIABLES
  balance,  \* what has been posted
  draft     \* what each session's transaction will add to it

accountVars == <<balance, draft>>

NoDraft == [r \in Resources |-> 0]

\* No session, or none but s, is drafting r.
Undrafted(r) == \A t \in Sessions : draft[t][r] = 0
Mine(s, r) == \A t \in Sessions \ {s} : draft[t][r] = 0

Init ==
  /\ balance \in [Resources -> Nat]
  /\ draft = [s \in Sessions |-> NoDraft]

Withdraw(r, n) ==
  /\ Undrafted(r) /\ balance[r] >= n
  /\ balance' = [balance EXCEPT ![r] = @ - n]
  /\ UNCHANGED draft

Deposit(r, n) ==
  /\ Undrafted(r)
  /\ balance' = [balance EXCEPT ![r] = @ + n]
  /\ UNCHANGED draft

Declare(r, n) ==
  /\ Undrafted(r)
  /\ balance' = [balance EXCEPT ![r] = n]
  /\ UNCHANGED draft

DraftWithdrawal(s, r, n) ==
  /\ Mine(s, r) /\ balance[r] + draft[s][r] >= n
  /\ draft' = [draft EXCEPT ![s][r] = @ - n]
  /\ UNCHANGED balance

DraftDeposit(s, r, n) ==
  /\ Mine(s, r)
  /\ draft' = [draft EXCEPT ![s][r] = @ + n]
  /\ UNCHANGED balance

Post(s) ==
  /\ balance' = [r \in Resources |-> balance[r] + draft[s][r]]
  /\ draft' = [draft EXCEPT ![s] = NoDraft]

Cancel(s) ==
  /\ draft' = [draft EXCEPT ![s] = NoDraft]
  /\ UNCHANGED balance

Next ==
  \/ \E r \in Resources, n \in Amounts :
       \/ Withdraw(r, n) \/ Deposit(r, n) \/ Declare(r, n)
       \/ \E s \in Sessions : DraftWithdrawal(s, r, n) \/ DraftDeposit(s, r, n)
  \/ \E s \in Sessions : Post(s) \/ Cancel(s)

Spec == Init /\ [][Next]_accountVars
=============================================================================
