---------------------------- MODULE ExchangeCode ----------------------------
(***************************************************************************)
(* Redeeming one exchange code (internal/answer/exchange_code_redeem.go),  *)
(* while operators edit it through the REST API                            *)
(* (internal/orm/exchange_code_queries.go).                                *)
(*                                                                         *)
(* A redemption is two database transactions, one that takes the quota and *)
(* records the redeem, one that stores the reward mail, and a third that   *)
(* undoes the first if the second fails.  Nothing joins them: the process  *)
(* may die in between, a transaction may fail, and other sessions and      *)
(* operators run in between.  A commander may have several sessions: see   *)
(* OneSessionPerCommander in ServerRegistry.                               *)
(*                                                                         *)
(* A transaction is one action, the one of its commit.  The database runs  *)
(* at READ COMMITTED, but the INSERT waits on the primary key for any      *)
(* uncommitted row of the same commander and the UPDATEs lock the code's   *)
(* row and test it again once they have it, so each statement sees what    *)
(* its commit will leave.                                                  *)
(***************************************************************************)
EXTENDS Integers, FiniteSets

CONSTANTS
  Commanders,
  Sessions,      \* logged-in clients; each has a dispatcher of its own
  Who,           \* the commander of each session
  InitialQuotas, \* the quotas the code may be created with; -1 is unlimited
  Quotas,        \* the quotas operators may write
  MaxMails,      \* bound: nobody asks again after so many rewards
  MaxEdits       \* bound: operators change the code so many times

ASSUME ExchangeAssumption ==
  /\ IsFiniteSet(Commanders)
  /\ Who \in [Sessions -> Commanders]
  /\ InitialQuotas \subseteq Int /\ \A q \in InitialQuotas : q >= -1
  /\ Quotas \subseteq Int /\ \A q \in Quotas : q >= -1
  /\ MaxMails \in Nat /\ MaxEdits \in Nat

VARIABLES
  exists,   \* the row of exchange_codes is there
  quota,    \* its quota
  redeems,  \* the commanders with a row in exchange_code_redeems
  mails,    \* reward mails stored for each commander
  cached,   \* reward mails in the Commander.Mails of each session
  seen,     \* code.Quota as each session has read it
  pc,       \* where each session is
  issued,   \* the quota the code was created with (history)
  stranded, \* commanders whose recorded redeem nobody settles any more (history)
  edits,    \* how often operators have changed the code or its redeems (history)
  misled    \* a commit of SendMail has failed, or was not told as it went (history)

dbVars == <<exists, quota, redeems, mails>>
historyVars == <<issued, stranded, edits, misled>>
vars == <<dbVars, cached, seen, pc, historyVars>>

PCs == {"offline", "idle", "lookup", "redeem", "mail", "compensate"}

\* CreateExchangeCode; nobody has redeemed it.
Init ==
  /\ exists = TRUE
  /\ issued \in InitialQuotas
  /\ quota = issued
  /\ redeems = {}
  /\ mails = [c \in Commanders |-> 0]
  /\ cached = [s \in Sessions |-> 0]
  /\ seen = [s \in Sessions |-> 0]
  /\ pc = [s \in Sessions |-> "offline"]
  /\ stranded = {}
  /\ edits = 0 /\ misled = FALSE

Goto(s, from, to) == pc[s] = from /\ pc' = [pc EXCEPT ![s] = to]
Limited(s) == seen[s] >= 0
Edited == edits > 0

\* The session has recorded a redeem and not yet settled it, by the mail or by the
\* compensation.
Unsettled(s) == pc[s] \in {"mail", "compensate"}

\* A handler is gone, or does not know that it has recorded a redeem.
Strand(cs) == stranded' = stranded \cup cs /\ UNCHANGED <<issued, edits, misled>>

-----------------------------------------------------------------------------
(* Sessions.                                                               *)

\* Commander.Load: the session lists the mails that are stored.
Login(s) ==
  /\ Goto(s, "offline", "idle")
  /\ cached' = [cached EXCEPT ![s] = mails[Who[s]]]
  /\ UNCHANGED <<dbVars, seen, historyVars>>

Logout(s) ==
  /\ Goto(s, "idle", "offline")
  /\ UNCHANGED <<dbVars, cached, seen, historyVars>>

\* A statement fails and leaves nothing.  A handler that returns an error makes
\* Dispatch close the client.
QueryFails(s) ==
  /\ \E from \in {"idle", "lookup", "redeem"} : Goto(s, from, "offline")
  /\ UNCHANGED <<dbVars, cached, seen, historyVars>>

-----------------------------------------------------------------------------
(* ExchangeCodeRedeem.                                                     *)

\* SELECT ... FROM exchange_codes, and the platform test.  There is no code, or
\* it is not for this platform: result 1.
ReadCode(s) ==
  /\ mails[Who[s]] < MaxMails /\ cached[s] < MaxMails
  /\ exists
  /\ Goto(s, "idle", "lookup")
  /\ seen' = [seen EXCEPT ![s] = quota]
  /\ UNCHANGED <<dbVars, cached, historyVars>>

\* SELECT EXISTS(... exchange_code_redeems ...), then the quota read before.
CheckRedeemed(s) ==
  /\ Goto(s, "lookup", IF Who[s] \in redeems \/ seen[s] = 0 THEN "idle" ELSE "redeem")
  /\ UNCHANGED <<dbVars, cached, seen, historyVars>>

\* The redeem cannot be recorded: its primary key is taken, or the code is gone
\* (foreign key).  Both are errors.
RedeemConflict(s) ==
  /\ Who[s] \in redeems \/ ~exists
  /\ Goto(s, "redeem", "offline")
  /\ UNCHANGED <<dbVars, cached, seen, historyVars>>

\* UPDATE ... WHERE quota > 0 affects no row: errQuotaDepleted, rolled back.
RedeemDepleted(s) ==
  /\ exists /\ Who[s] \notin redeems
  /\ Limited(s) /\ quota <= 0
  /\ Goto(s, "redeem", "idle")
  /\ UNCHANGED <<dbVars, cached, seen, historyVars>>

\* Mutants: the UPDATE lacks "AND quota > 0"; the redeem has no primary key.
CommitUnchecked(s) ==
  /\ exists /\ Who[s] \notin redeems
  /\ quota' = IF Limited(s) THEN quota - 1 ELSE quota
  /\ redeems' = redeems \cup {Who[s]}
  /\ Goto(s, "redeem", "mail")
  /\ UNCHANGED <<exists, mails, cached, seen, historyVars>>

CommitWithoutKey(s) ==
  /\ exists
  /\ Limited(s) => quota > 0
  /\ quota' = IF Limited(s) THEN quota - 1 ELSE quota
  /\ redeems' = redeems \cup {Who[s]}
  /\ Goto(s, "redeem", "mail")
  /\ UNCHANGED <<exists, mails, cached, seen, historyVars>>

\* INSERT, UPDATE ... quota - 1 if the code was limited when it was read, and
\* COMMIT, after which the handler goes on, or leaves with an error: the
\* connection to the database was lost, and the commit reports a failure.
RedeemCommit(s) ==
  /\ exists /\ Who[s] \notin redeems
  /\ Limited(s) => quota > 0
  /\ quota' = IF Limited(s) THEN quota - 1 ELSE quota
  /\ redeems' = redeems \cup {Who[s]}
  /\ \/ Goto(s, "redeem", "mail") /\ UNCHANGED historyVars
     \/ Goto(s, "redeem", "offline") /\ Strand({Who[s]})
  /\ UNCHANGED <<exists, mails, cached, seen>>

\* Commander.SendMail.  SendMailTx appends to the session's mails before the
\* commit, whatever becomes of it.
StoreMail(s) == mails' = [mails EXCEPT ![Who[s]] = @ + 1]
CacheMail(s) == cached' = [cached EXCEPT ![s] = @ + 1]

SendMail(s) ==
  /\ Goto(s, "mail", "idle")
  /\ StoreMail(s) /\ CacheMail(s)
  /\ UNCHANGED <<exists, quota, redeems, seen, historyVars>>

\* Mutant: a failed SendMail is reported and not compensated.
FailWithoutCompensation(s) ==
  /\ Goto(s, "mail", "offline")
  /\ UNCHANGED <<dbVars, cached, seen, historyVars>>

\* One of its statements fails, or its commit: the mail is not stored, or it is
\* and only the answer is lost.
SendMailFails(s) ==
  /\ Goto(s, "mail", "compensate")
  /\ \/ UNCHANGED <<mails, cached, misled>>
     \/ CacheMail(s) /\ UNCHANGED mails /\ misled' = TRUE
     \/ CacheMail(s) /\ StoreMail(s) /\ misled' = TRUE
  /\ UNCHANGED <<exists, quota, redeems, seen, issued, stranded, edits>>

\* Mutants: the quota is not given back; the redeem stays on record.
CompensateRedeemOnly(s) ==
  /\ Goto(s, "compensate", "offline")
  /\ redeems' = redeems \ {Who[s]}
  /\ UNCHANGED <<exists, quota, mails, cached, seen, historyVars>>

CompensateQuotaOnly(s) ==
  /\ Goto(s, "compensate", "offline")
  /\ quota' = IF Limited(s) /\ exists THEN quota + 1 ELSE quota
  /\ UNCHANGED <<exists, redeems, mails, cached, seen, historyVars>>

\* The transaction after a failed SendMail; its statements do not look at what
\* is there.  The handler returns an error in any case.
Compensate(s) ==
  /\ Goto(s, "compensate", "offline")
  /\ quota' = IF Limited(s) /\ exists THEN quota + 1 ELSE quota
  /\ redeems' = redeems \ {Who[s]}
  /\ UNCHANGED <<exists, mails, cached, seen, historyVars>>

CompensateFails(s) ==
  /\ Goto(s, "compensate", "offline")
  /\ Strand({Who[s]})
  /\ UNCHANGED <<dbVars, cached, seen>>

ExchangeCodeRedeem(s) ==
  \/ ReadCode(s) \/ CheckRedeemed(s)
  \/ RedeemConflict(s) \/ RedeemDepleted(s) \/ RedeemCommit(s)
  \/ SendMail(s) \/ SendMailFails(s)
  \/ Compensate(s) \/ CompensateFails(s)
  \/ QueryFails(s)

-----------------------------------------------------------------------------
(* Operators, through internal/api/handlers/exchange_codes.go.             *)

\* The request's quota replaces the stored one, whatever was redeemed.
UpdateExchangeCode ==
  /\ exists
  /\ quota' \in Quotas
  /\ UNCHANGED <<exists, redeems, mails>>

DeleteExchangeCode ==
  /\ exists
  /\ exists' = FALSE
  /\ redeems' = {}
  /\ UNCHANGED <<quota, mails>>

\* Neither of these looks at the quota.
CreateExchangeCodeRedeem(c) ==
  /\ exists
  /\ c \notin redeems
  /\ redeems' = redeems \cup {c}
  /\ UNCHANGED <<exists, quota, mails>>

DeleteExchangeCodeRedeem(c) ==
  /\ exists
  /\ c \in redeems
  /\ redeems' = redeems \ {c}
  /\ UNCHANGED <<exists, quota, mails>>

Operator ==
  /\ \/ UpdateExchangeCode \/ DeleteExchangeCode
     \/ \E c \in Commanders : CreateExchangeCodeRedeem(c) \/ DeleteExchangeCodeRedeem(c)
  /\ edits < MaxEdits /\ edits' = edits + 1
  /\ UNCHANGED <<cached, seen, pc, issued, stranded, misled>>

-----------------------------------------------------------------------------
\* The process dies and is started again; the database stays.
Crash ==
  /\ pc' = [s \in Sessions |-> "offline"]
  /\ Strand({Who[s] : s \in {t \in Sessions : Unsettled(t)}})
  /\ UNCHANGED <<dbVars, cached, seen>>

Next ==
  \/ \E s \in Sessions : Login(s) \/ Logout(s) \/ ExchangeCodeRedeem(s)
  \/ Operator
  \/ Crash

Spec == Init /\ [][Next]_vars

\* A handler that has begun runs to its end, as long as the process lives.
Fairness == \A s \in Sessions : WF_vars(pc[s] \notin {"offline", "idle"} /\ ExchangeCodeRedeem(s))

FairSpec == Spec /\ Fairness

-----------------------------------------------------------------------------
(* Properties.                                                             *)

\* Every variable has its type.
TypeOK ==
  /\ exists \in BOOLEAN
  /\ quota \in Int
  /\ redeems \subseteq Commanders
  /\ mails \in [Commanders -> Nat]
  /\ cached \in [Sessions -> Nat]
  /\ seen \in [Sessions -> Int]
  /\ pc \in [Sessions -> PCs]
  /\ issued \in InitialQuotas
  /\ stranded \subseteq Commanders
  /\ edits \in Nat /\ misled \in BOOLEAN

\* What is left of a limited quota and the recorded redeems add up to the quota
\* the code was created with.
QuotaAddsUp ==
  issued >= 0 => quota >= 0 /\ quota + Cardinality(redeems) = issued

\* Until an operator changes them by hand, they add up through concurrent
\* redeems, failed mails, crashes and lost commits: a transaction moves both or
\* none.
QuotaConserved == ~Edited => QuotaAddsUp

\* Every reward stands beside a redeem on record and is the only one, and no
\* session shows a reward that is not stored.
RewardsMatch ==
  /\ \A c \in Commanders : mails[c] > 0 => mails[c] = 1 /\ c \in redeems
  /\ \A s \in Sessions : cached[s] <= mails[Who[s]]

\* Nobody is rewarded twice, nor without a redeem on record, nor sees a reward
\* that is not stored; also when two sessions of one commander race, and when
\* the process dies.  (SendMail whose commit fails or is in doubt breaks this.)
RewardedOnce == ~Edited /\ ~misled => RewardsMatch

\* A recorded redeem is rewarded, or a handler is still settling it, or one of
\* three things has happened to the handler: a crash, a commit in doubt, a failed
\* compensation.  (Then it stays on record and the code can not be used again.)
RedeemAccounted ==
  ~Edited =>
    \A c \in redeems :
      \/ mails[c] > 0
      \/ \E s \in Sessions : Unsettled(s) /\ Who[s] = c
      \/ c \in stranded

\* Redeeming never makes a limited code unlimited (-1), whatever operators do
\* to it in the meantime: only an operator does that.
LimitedStaysLimited == [][quota >= 0 => quota' >= 0 \/ Operator]_vars

\* A redeem that is on record ends rewarded or taken back, but for the same three.
RedeemSettles ==
  \A c \in Commanders :
    c \in redeems ~> mails[c] > 0 \/ c \notin redeems \/ c \in stranded \/ Edited

-----------------------------------------------------------------------------
(* The inductive invariants behind the theorems of ExchangeCodeProofs.      *)

\* An unsettled redeem is on record and belongs to one handler alone.
UnsettledInv ==
  /\ \A s \in Sessions : Unsettled(s) => Who[s] \in redeems
  /\ \A s, t \in Sessions : Unsettled(s) /\ Unsettled(t) /\ Who[s] = Who[t] => s = t

\* The code exists, and every handler has read it as limited or as unlimited,
\* whichever it is.
SnapshotInv ==
  /\ exists
  /\ \A s \in Sessions : pc[s] \in PCs \ {"offline", "idle"} =>
       (seen[s] >= 0 <=> issued >= 0)
  /\ issued = -1 => quota = -1

QuotaInv == TypeOK /\ UnsettledInv /\ SnapshotInv /\ QuotaAddsUp

\* An unsettled redeem is not yet rewarded.
RewardInv ==
  /\ \A s \in Sessions : Unsettled(s) => mails[Who[s]] = 0
  /\ RewardsMatch

\* The inductive invariant.  While operators keep away, the first two; while the
\* commits of SendMail are told truthfully as well, a redeem is rewarded only after
\* it is on record, and only once.
IndInv ==
  /\ TypeOK
  /\ ~Edited => QuotaInv
  /\ ~Edited /\ ~misled => RewardInv
=============================================================================
