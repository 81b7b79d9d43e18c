----------------------------- MODULE CsaClients -----------------------------
(***************************************************************************)
(* Browsers beside the agreement they show: a page polls the Csa, a click  *)
(* exercises a choice on the version shown, and when that version is gone  *)
(* exerciseCsaWithRetry exercises it again, with the same argument, on the *)
(* version there is now (app/src/features/csa).  Between any two requests  *)
(* others exercise choices, each of which archives the version.            *)
(***************************************************************************)
EXTENDS Csa

CONSTANTS
  Users,         \* who sits at a browser: parties, the operator
  Attempts,      \* CONTENTION_ATTEMPTS
  MaxClicks,     \* bound: clicks of a user
  MaxOthers       \* bound: choices exercised by others

ASSUME ClientsAssumption ==
  /\ Users \subseteq Parties \union {Operator}
  /\ Attempts \in Nat \ {0}
  /\ MaxClicks \in Nat
  /\ MaxOthers \in Nat

VARIABLES
  page,          \* the Csa each page shows, and whether it is the live version
  click,         \* each user's last click: what it exercises and how far it is
  effects,       \* history: how often that click took effect
  clicks, others

clientVars == <<page, click, effects, clicks, others>>
allVars == <<vars, clientVars>>

Csas == [fresh : BOOLEAN, state : CsaState, csb : Int, dispute : Nat]

NoChoice == <<"none", 0>>

\* A choice with the argument the user gives: an amount, an exposure or none.
Choices(u) ==
  IF u = Operator THEN {"acknowledge"} \X Exposures
  ELSE ({"post", "withdraw"} \X Amounts) \union ({"dispute"} \X Exposures)
         \union ({"escalate", "agree"} \X {0})

\* sent to the version held, landed with its answer on the way, retrying after
\* the version was found gone, adrift without a browser that waits for it; or
\* over, as it was reported to the user.
Over == {"unused", "done", "failed", "timed out"}

Clicks(u) ==
  [choice : Choices(u) \union {NoChoice}, fresh : BOOLEAN, attempt : 0..Attempts,
   on : Csas, stage : {"sent", "landed", "retrying", "adrift"} \union Over]

Shown == [fresh |-> TRUE, state |-> state, csb |-> csb, dispute |-> activeDispute]

ClientsInit ==
  /\ Init
  /\ page = [u \in Users |-> Shown]
  /\ click = [u \in Users |-> [choice |-> NoChoice, fresh |-> FALSE, attempt |-> 0,
                               on |-> Shown, stage |-> "unused"]]
  /\ effects = [u \in Users |-> 0]
  /\ clicks = [u \in Users |-> 0]
  /\ others = 0

-----------------------------------------------------------------------------
(* The page.                                                               *)

\* useCsas, every five seconds and after a click.
Poll(u) ==
  /\ page' = [page EXCEPT ![u] = Shown]
  /\ UNCHANGED <<vars, click, effects, clicks, others>>

\* CsaAmountModal takes no more than is posted, as the page knows it.
BelowPosted(u, amount) == amount <= Pledge(u, page[u].csb)

\* useDisputeRecord: the record the page's version points at.
ShownDispute(u) == disputes[page[u].dispute]

\* DisputeCounterpartyActions: whoever did not open the dispute, before escalation.
AnswersDispute(u) == page[u].state = "MarkDisputed" /\ ShownDispute(u).disputer # u

\* CsaOperatorActions.
ResolvesDispute(u) == page[u].state \in {"MarkDisputed", "Escalated"}

\* The dialogs of CsaFundingActions, once open, stay open into a dispute; the
\* others go with what they answer.
Offers(u, choice) ==
  /\ choice[1] = "withdraw" => BelowPosted(u, choice[2])
  /\ choice[1] \in {"escalate", "agree"} => AnswersDispute(u)
  /\ choice[1] = "acknowledge" => ResolvesDispute(u)

\* Mutant of FirstCid: the version is resolved before the first attempt.
ResolvedCid(u) == TRUE

\* csaCid of the page.
FirstCid(u) == page[u].fresh

Confirm(u, choice) ==
  /\ click[u].stage \in Over
  /\ clicks[u] < MaxClicks
  /\ Offers(u, choice)
  /\ click' = [click EXCEPT ![u] = [choice |-> choice, fresh |-> FirstCid(u), attempt |-> 1,
                                    on |-> page[u], stage |-> "sent"]]
  /\ effects' = [effects EXCEPT ![u] = 0]
  /\ clicks' = [clicks EXCEPT ![u] = @ + 1]
  /\ UNCHANGED <<vars, page, others>>

-----------------------------------------------------------------------------
(* exerciseCsaWithRetry.                                                   *)

Exercise(u, choice) ==
  \/ choice[1] = "post" /\ PostCollateral(u, choice[2])
  \/ choice[1] = "withdraw" /\ WithdrawExcess(u, choice[2])
  \/ choice[1] = "dispute" /\ Dispute(u, choice[2])
  \/ choice[1] = "escalate" /\ EscalateDispute(u)
  \/ choice[1] = "agree" /\ AgreeToCounterMark(u)
  \/ choice[1] = "acknowledge" /\ AcknowledgeDispute(choice[2])

\* The choice's assertMsg and abort.
Allows(u, choice) ==
  CASE choice[1] = "post" -> TRUE
    [] choice[1] = "withdraw" -> MayWithdraw(u, choice[2])
    [] choice[1] = "dispute" -> MayDispute
    [] choice[1] \in {"escalate", "agree"} -> state = "MarkDisputed" /\ IsCounterparty(u)
    [] choice[1] = "acknowledge" -> Frozen

\* A consuming choice leaves every version held by anyone stale.
Stale(holders) == [u \in Users |-> [holders[u] EXCEPT !.fresh = FALSE]]

Lands(u) ==
  /\ click[u].stage \in {"sent", "adrift"}
  /\ click[u].fresh
  /\ Exercise(u, click[u].choice)
  /\ page' = Stale(page)
  /\ click' = [Stale(click) EXCEPT ![u].stage = IF @ = "sent" THEN "landed" ELSE "timed out"]
  /\ effects' = [effects EXCEPT ![u] = @ + 1]
  /\ UNCHANGED <<clicks, others>>

Goes(u, from, to) ==
  /\ click[u].stage = from
  /\ click' = [click EXCEPT ![u].stage = to]
  /\ UNCHANGED <<vars, page, effects, clicks, others>>

Answered(u) == Goes(u, "landed", "done")

\* Any other error propagates.
Refused(u) ==
  /\ click[u].fresh
  /\ ~Allows(u, click[u].choice)
  /\ Goes(u, "sent", "failed")

\* CONTRACT_NOT_FOUND, or a 404 of the proxy.
NotFound(u) ==
  /\ ~click[u].fresh
  /\ Goes(u, "sent", IF click[u].attempt < Attempts THEN "retrying" ELSE "failed")

\* resolveFreshCid; the same choice goes out again.
Retries(u) ==
  /\ click[u].stage = "retrying"
  /\ click' = [click EXCEPT ![u].stage = "sent", ![u].fresh = TRUE, ![u].attempt = @ + 1]
  /\ UNCHANGED <<vars, page, effects, clicks, others>>

\* The query of resolveFreshCid fails.
ResolveFails(u) == Goes(u, "retrying", "failed")

\* Mutant of NoAnswer: a lost answer counts as contention.
NoAnswerRetries(u) == Goes(u, "sent", "adrift") \/ Goes(u, "landed", "retrying")

\* CLIENT_TIMEOUT_MS or the connection: the ledger may have the request, still
\* get it, or never.
NoAnswer(u) == Goes(u, "sent", "adrift") \/ Goes(u, "landed", "timed out")

Vanishes(u) == Goes(u, "adrift", "timed out")

\* Anybody's choice through another client, the publisher's among them.
OthersExercise ==
  /\ others < MaxOthers
  /\ others' = others + 1
  /\ Next
  /\ page' = Stale(page)
  /\ click' = Stale(click)
  /\ UNCHANGED <<effects, clicks>>

ClientsNext ==
  \/ \E u \in Users :
       \/ Poll(u)
       \/ \E choice \in Choices(u) : Confirm(u, choice)
       \/ Lands(u)
       \/ Answered(u)
       \/ Refused(u)
       \/ NotFound(u)
       \/ Retries(u)
       \/ ResolveFails(u)
       \/ NoAnswer(u)
       \/ Vanishes(u)
  \/ OthersExercise

ClientsSpec == ClientsInit /\ [][ClientsNext]_allVars

-----------------------------------------------------------------------------
(* Correctness.                                                            *)

\* Every variable stays within its type.
ClientsTypeOK ==
  /\ TypeOK
  /\ page \in [Users -> Csas]
  /\ \A u \in Users : click[u] \in Clicks(u)
  /\ effects \in [Users -> Nat]
  /\ clicks \in [Users -> 0..MaxClicks]
  /\ others \in 0..MaxOthers

\* However often a click is repeated it takes effect once if it is reported
\* done, never if it is reported to have failed, and at most once if nobody
\* knows (isContentionError lets through only what has had no effect).
ReportsAreTrue ==
  \A u \in Users :
    /\ effects[u] <= 1
    /\ click[u].stage = "done" => effects[u] = 1
    /\ click[u].stage = "failed" => effects[u] = 0

\* A click that lands without a retry finds the agreement as the page showed it:
\* the state, the balance, the dispute whose counter-mark is agreed to.  One
\* that was retried may find another dispute than the user was asked about.
ActsOnWhatItShowed ==
  [][\A u \in Users :
       effects'[u] > effects[u] /\ click[u].attempt = 1 =>
         /\ state = click[u].on.state
         /\ csb = click[u].on.csb
         /\ activeDispute = click[u].on.dispute]_allVars

=============================================================================
