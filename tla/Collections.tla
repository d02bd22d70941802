----------------------------- MODULE Collections -----------------------------
(***************************************************************************)
(* Payments a user makes to the platform: the activation of the account    *)
(* and the PREMIUM and VIP upgrades.  The service asks the provider to     *)
(* collect and records a PENDING row; webhooks and the reconciliation cron *)
(* find out what became of the payment and grant what was paid for, while  *)
(* admins suspend, ban and activate accounts.  Each await outside a        *)
(* transaction separates two steps.                                        *)
(***************************************************************************)
EXTENDS Integers, FiniteSets

CONSTANTS
  User,
  Payment, Payer, Product,  \* calls of activateAccount and upgradeTier, by
                            \* whom, and what each buys
  Handler, Run,             \* webhook handlers and reconciliation loops in
                            \* flight (bounds)
  ActivationRun,            \* the loops over activations; the others are
                            \* over tier upgrades
  AdminDecision,            \* statuses an admin may set
  MockModes,                \* deployments: may PAYMENT_MODE be "mock"?
  WrongAmount,              \* may an event carry another amount?
  PaysEarly,                \* may the payer pay before the row is recorded?
  MaxFaults,                \* bound on crashes and failed database calls
  NoPayment

UserStatus == {"FREE", "ACTIVATED", "SUSPENDED", "BANNED"}
Blocked == {"SUSPENDED", "BANNED"}
TierName == {"NORMAL", "PREMIUM", "VIP"}
ApprovalEvent == {"transaction.approved", "transaction.completed"}
Event == ApprovalEvent \cup {"transaction.declined", "transaction.canceled"}
\* Who creates a Transaction row: the service, or the handler of one event.
Creator == {"service"} \cup ApprovalEvent

ASSUME PaymentAssumption ==
  /\ Payer \in [Payment -> User]
  /\ Product \in [Payment -> {"ACTIVATION", "PREMIUM", "VIP"}]
  /\ NoPayment \notin Payment

ASSUME BoundAssumption ==
  /\ AdminDecision \subseteq UserStatus \ {"FREE"}
  /\ MockModes \cup {WrongAmount, PaysEarly} \subseteq BOOLEAN
  /\ ActivationRun \subseteq Run
  /\ MaxFaults \in Nat

VARIABLES
  mock,              \* PAYMENT_MODE is "mock" (fixed by the deployment)
  userStatus, tier,  \* User.status and User.tier
  rows,              \* Transaction rows of each payment, by creator
  pay,               \* the provider's own record of each collection
  seen,              \* WebhookEvent rows
  pc,                \* progress of activateAccount / upgradeTier
  handler, run,      \* webhook handlers and reconciliation loops in flight
  admin,             \* a user's admin decision read and not yet written
  faults,
  manual, granted,   \* history: users an admin activated; payments granted;
  misjudged          \* those a loop was told had failed when nobody declined

users == <<userStatus, tier, granted>>
vars == <<users, rows, pay, seen, pc, handler, run, admin, faults, manual, misjudged>>

Idle  == [op |-> "idle", p |-> NoPayment, event |-> "none", row |-> "none"]
NoRun == [phase |-> "idle", todo |-> {}, p |-> NoPayment]

Init ==
  /\ mock \in MockModes
  /\ userStatus = [u \in User |-> "FREE"]
  /\ tier = [u \in User |-> "NORMAL"]
  /\ rows = [p \in Payment |-> [c \in Creator |-> "NONE"]]
  /\ pay = [p \in Payment |-> "none"]
  /\ seen = {}
  /\ pc = [p \in Payment |-> "idle"]
  /\ handler = [h \in Handler |-> Idle]
  /\ run = [n \in Run |-> NoRun]
  /\ admin = [u \in User |-> "none"]
  /\ faults = 0
  /\ manual = {}
  /\ granted = {}
  /\ misjudged = {}

-----------------------------------------------------------------------------
(***************************************************************************)
(* What a payment buys.                                                    *)
(***************************************************************************)
Rank(t) == IF t = "VIP" THEN 2 ELSE IF t = "PREMIUM" THEN 1 ELSE 0

IsActivation(p) == Product[p] = "ACTIVATION"

\* Mutant of Grant: the row is completed, the user is not written.
GrantRowOnly(p, row) ==
  /\ rows' = [rows EXCEPT ![p][row] = "COMPLETED"]
  /\ UNCHANGED users

\* One transaction writes the user and the row that stands for the payment.
Grant(p, row) ==
  /\ IF IsActivation(p)
       THEN userStatus' = [userStatus EXCEPT ![Payer[p]] = "ACTIVATED"] /\ UNCHANGED tier
       ELSE tier' = [tier EXCEPT ![Payer[p]] = Product[p]] /\ UNCHANGED userStatus
  /\ rows' = [rows EXCEPT ![p][row] = "COMPLETED"]
  /\ granted' = granted \cup {p}

-----------------------------------------------------------------------------
(***************************************************************************)
(* activateAccount and upgradeTier: read the user, collect, then record.   *)
(***************************************************************************)
Goto(p, here, there) ==
  /\ pc[p] = here
  /\ pc' = [pc EXCEPT ![p] = there]

MayBuy(p) ==
  LET u == Payer[p] IN
  IF IsActivation(p) THEN userStatus[u] = "FREE"
  ELSE userStatus[u] = "ACTIVATED" /\ Rank(Product[p]) > Rank(tier[u])

ReadUser(p) ==
  /\ MayBuy(p)
  /\ Goto(p, "idle", "checked")
  /\ UNCHANGED <<users, rows, pay, seen, handler, run, admin, faults, manual, misjudged>>

\* FedaPay: the transaction and its payment page are made in two calls; if
\* either fails the request fails and nobody can pay.
Collect(p) ==
  /\ ~mock
  /\ \/ /\ Goto(p, "checked", "collected")
        /\ pay' = [pay EXCEPT ![p] = "open"]
     \/ /\ Goto(p, "checked", "done")
        /\ UNCHANGED pay
  /\ UNCHANGED <<users, rows, seen, handler, run, admin, faults, manual, misjudged>>

RecordPending(p) ==
  /\ Goto(p, "collected", "done")
  /\ rows' = [rows EXCEPT ![p]["service"] = "PENDING"]
  /\ UNCHANGED <<users, pay, seen, handler, run, admin, faults, manual, misjudged>>

\* The mock provider collects at once, and the grant follows.
MockCollect(p) ==
  /\ mock
  /\ Goto(p, "checked", "paid")
  /\ pay' = [pay EXCEPT ![p] = "approved"]
  /\ UNCHANGED <<users, rows, seen, handler, run, admin, faults, manual, misjudged>>

GrantAtOnce(p) ==
  /\ Goto(p, "paid", "done")
  /\ Grant(p, "service")
  /\ UNCHANGED <<pay, seen, handler, run, admin, faults, manual, misjudged>>

\* The payer pays or gives up.  The service answers with the payment page after
\* it recorded the row; the provider has the page before.
ProviderDecides(p) ==
  /\ pay[p] = "open"
  /\ PaysEarly \/ rows[p]["service"] # "NONE"
  /\ \E d \in {"approved", "declined"} : pay' = [pay EXCEPT ![p] = d]
  /\ UNCHANGED <<users, rows, seen, pc, handler, run, admin, faults, manual, misjudged>>

PurchaseStep(p) ==
  \/ Collect(p) \/ RecordPending(p) \/ MockCollect(p) \/ GrantAtOnce(p)

-----------------------------------------------------------------------------
(***************************************************************************)
(* Webhooks.                                                               *)
(***************************************************************************)
Become(h, op) == handler' = [handler EXCEPT ![h].op = op]
Finish(h) == handler' = [handler EXCEPT ![h] = Idle]

Emitted(p) == CASE pay[p] = "approved" -> ApprovalEvent
                [] pay[p] = "declined" -> Event \ ApprovalEvent
                [] OTHER -> {}

LookUpWebhook(h, p) ==
  /\ ~mock
  /\ handler[h] = Idle
  /\ \E e \in Emitted(p) :
       /\ <<e, p>> \notin seen
       /\ handler' = [handler EXCEPT ![h] = [Idle EXCEPT !.op = "webhook", !.p = p, !.event = e]]
  /\ UNCHANGED <<users, rows, pay, seen, pc, run, admin, faults, manual, misjudged>>

RecordWebhook(h) ==
  LET key == <<handler[h].event, handler[h].p>> IN
  /\ handler[h].op = "webhook"
  /\ seen' = seen \cup {key}
  /\ IF key \in seen THEN Finish(h) ELSE Become(h, "recorded")
  /\ UNCHANGED <<users, rows, pay, pc, run, admin, faults, manual, misjudged>>

\* handleTransactionFailed: the PENDING row becomes FAILED.
DeclinePending(h) ==
  /\ handler[h].op = "recorded"
  /\ handler[h].event \notin ApprovalEvent
  /\ rows' = [rows EXCEPT ![handler[h].p]["service"] = IF @ = "PENDING" THEN "FAILED" ELSE @]
  /\ Finish(h)
  /\ UNCHANGED <<users, pay, seen, pc, run, admin, faults, manual, misjudged>>

\* findFirst has no order: any row of the payment may be the one found.
Existing(p) == {c \in Creator : rows[p][c] # "NONE"}

FindRow(h) ==
  LET p == handler[h].p IN
  /\ handler[h].op = "recorded"
  /\ handler[h].event \in ApprovalEvent
  /\ \/ /\ Existing(p) = {}
        /\ handler' = [handler EXCEPT ![h].op = "found"]
     \/ \E c \in Existing(p) :
          IF rows[p][c] = "COMPLETED" THEN Finish(h)
          ELSE handler' = [handler EXCEPT ![h].op = "found", ![h].row = c]
  /\ UNCHANGED <<users, rows, pay, seen, pc, run, admin, faults, manual, misjudged>>

\* The reads and tests on the user and on the amount received.
AlreadyOwned(p) ==
  IF IsActivation(p) THEN userStatus[Payer[p]] = "ACTIVATED"
  ELSE Rank(tier[Payer[p]]) >= Rank(Product[p])

CheckUser(h) ==
  LET p == handler[h].p IN
  /\ handler[h].op = "found"
  /\ IF userStatus[Payer[p]] \in Blocked THEN Finish(h)
     ELSE \E op \in IF AlreadyOwned(p) THEN {"fraud"}
                    ELSE IF WrongAmount THEN {"fraud", "verify"} ELSE {"verify"} : Become(h, op)
  /\ UNCHANGED <<users, rows, pay, seen, pc, run, admin, faults, manual, misjudged>>

\* Mutant of RecordFraud: the refusal overwrites the row found.
FailFoundRow(h) ==
  LET row == IF handler[h].row = "none" THEN handler[h].event ELSE handler[h].row IN
  /\ handler[h].op = "fraud"
  /\ rows' = [rows EXCEPT ![handler[h].p][row] = "FAILED"]
  /\ Finish(h)
  /\ UNCHANGED <<users, pay, seen, pc, run, admin, faults, manual, misjudged>>

\* A refusal is recorded as a FAILED row of its own.
RecordFraud(h) ==
  /\ handler[h].op = "fraud"
  /\ rows' = [rows EXCEPT ![handler[h].p][handler[h].event] = "FAILED"]
  /\ Finish(h)
  /\ UNCHANGED <<users, pay, seen, pc, run, admin, faults, manual, misjudged>>

\* Mutant of Answers: a payment that was merely started counts as made.
EagerAnswers(p) == IF pay[p] = "open" THEN {"completed"} ELSE {"completed", "failed"}

\* checkStatus never throws: an outage or a timeout is answered "failed" as well.
Answers(p) ==
  {"failed"} \cup
  CASE pay[p] = "approved" -> {"completed"}
    [] pay[p] = "open" -> {"pending"}
    [] OTHER -> {"failed"}

VerifyStatus(h) ==
  /\ handler[h].op = "verify"
  /\ \E answer \in Answers(handler[h].p) :
       IF answer = "completed" THEN Become(h, "grant") ELSE Finish(h)
  /\ UNCHANGED <<users, rows, pay, seen, pc, run, admin, faults, manual, misjudged>>

\* The transaction completes the row found earlier, or creates one.
CommitGrant(h) ==
  LET found == handler[h].row IN
  /\ handler[h].op = "grant"
  /\ Grant(handler[h].p, IF found = "none" THEN handler[h].event ELSE found)
  /\ Finish(h)
  /\ UNCHANGED <<pay, seen, pc, run, admin, faults, manual, misjudged>>

HandlerStep(h) ==
  \/ RecordWebhook(h) \/ DeclinePending(h) \/ FindRow(h) \/ CheckUser(h)
  \/ RecordFraud(h) \/ VerifyStatus(h) \/ CommitGrant(h)

-----------------------------------------------------------------------------
(***************************************************************************)
(* reconcileActivations and reconcileTierUpgrades, which run side by side. *)
(* Neither looks at the user, nor again at the row, before writing.        *)
(***************************************************************************)
\* Mutant of PendingRows: only activations are reconciled.
ActivationRowsOnly(n) == {p \in Payment : rows[p]["service"] = "PENDING" /\ IsActivation(p)}

PendingRows(n) ==
  {p \in Payment : rows[p]["service"] = "PENDING" /\ (IsActivation(p) <=> n \in ActivationRun)}

StartRun(n) ==
  /\ run[n] = NoRun
  /\ PendingRows(n) # {}
  /\ run' = [run EXCEPT ![n] = [phase |-> "loop", todo |-> PendingRows(n), p |-> NoPayment]]
  /\ UNCHANGED <<users, rows, pay, seen, pc, handler, admin, faults, manual, misjudged>>

Looping(todo) == IF todo = {} THEN NoRun ELSE [phase |-> "loop", todo |-> todo, p |-> NoPayment]

AskStatus(n, p) ==
  /\ run[n].phase = "loop"
  /\ p \in run[n].todo
  /\ \E answer \in Answers(p) :
       /\ run' = [run EXCEPT ![n] =
                    IF answer = "pending" THEN Looping(@.todo \ {p})
                    ELSE [phase |-> answer, todo |-> @.todo \ {p}, p |-> p]]
       /\ misjudged' = IF answer = "failed" /\ pay[p] # "declined"
                       THEN misjudged \cup {p} ELSE misjudged
  /\ UNCHANGED <<users, rows, pay, seen, pc, handler, admin, faults, manual>>

CommitRunCompleted(n) ==
  /\ run[n].phase = "completed"
  /\ Grant(run[n].p, "service")
  /\ run' = [run EXCEPT ![n] = Looping(@.todo)]
  /\ UNCHANGED <<pay, seen, pc, handler, admin, faults, manual, misjudged>>

CommitRunFailed(n) ==
  /\ run[n].phase = "failed"
  /\ rows' = [rows EXCEPT ![run[n].p]["service"] = "FAILED"]
  /\ run' = [run EXCEPT ![n] = Looping(@.todo)]
  /\ UNCHANGED <<users, pay, seen, pc, handler, admin, faults, manual, misjudged>>

RunStep(n) ==
  \/ \E p \in Payment : AskStatus(n, p)
  \/ CommitRunCompleted(n) \/ CommitRunFailed(n)

-----------------------------------------------------------------------------
(***************************************************************************)
(* Admins: read the status, then set another.                              *)
(***************************************************************************)
AdminReads(u) ==
  /\ admin[u] = "none"
  /\ \E s \in AdminDecision \ {userStatus[u]} : admin' = [admin EXCEPT ![u] = s]
  /\ UNCHANGED <<users, rows, pay, seen, pc, handler, run, faults, manual, misjudged>>

AdminWrites(u) ==
  /\ admin[u] # "none"
  /\ userStatus' = [userStatus EXCEPT ![u] = admin[u]]
  /\ manual' = IF admin[u] = "ACTIVATED" THEN manual \cup {u} ELSE manual
  /\ admin' = [admin EXCEPT ![u] = "none"]
  /\ UNCHANGED <<tier, granted, rows, pay, seen, pc, handler, run, faults, misjudged>>

-----------------------------------------------------------------------------
Fault ==
  /\ faults < MaxFaults
  /\ faults' = faults + 1
  /\ UNCHANGED <<users, rows, pay, seen, manual, misjudged>>

Stopped(p) == IF pc[p] = "idle" THEN "idle" ELSE "done"

PurchaseFault(p) ==
  /\ Fault
  /\ pc[p] \in {"checked", "collected", "paid"}
  /\ pc' = [pc EXCEPT ![p] = "done"]
  /\ UNCHANGED <<handler, run, admin>>

HandlerFault(h) ==
  /\ Fault
  /\ handler[h] # Idle
  /\ Finish(h)
  /\ UNCHANGED <<pc, run, admin>>

RunFault(n) ==
  /\ Fault
  /\ run[n] # NoRun
  /\ run' = [run EXCEPT ![n] = NoRun]
  /\ UNCHANGED <<pc, handler, admin>>

Crash ==
  /\ Fault
  /\ pc' = [p \in Payment |-> Stopped(p)]
  /\ handler' = [h \in Handler |-> Idle]
  /\ run' = [n \in Run |-> NoRun]
  /\ admin' = [u \in User |-> "none"]

Step ==
  \/ \E p \in Payment : ReadUser(p) \/ PurchaseStep(p) \/ ProviderDecides(p) \/ PurchaseFault(p)
  \/ \E h \in Handler : \/ \E p \in Payment : LookUpWebhook(h, p)
                        \/ HandlerStep(h) \/ HandlerFault(h)
  \/ \E n \in Run : StartRun(n) \/ RunStep(n) \/ RunFault(n)
  \/ \E u \in User : AdminReads(u) \/ AdminWrites(u)
  \/ Crash

Next == Step /\ mock' = mock

Spec == Init /\ [][Next]_<<mock, vars>>

\* Handlers and loops that began run on and the cron keeps firing; nobody has
\* to buy, pay, decide or deliver a webhook.
Fairness ==
  /\ \A p \in Payment : WF_vars(PurchaseStep(p))
  /\ \A h \in Handler : WF_vars(HandlerStep(h))
  /\ \A n \in Run : WF_vars(StartRun(n)) /\ WF_vars(RunStep(n))

FairSpec == Spec /\ Fairness

-----------------------------------------------------------------------------
(***************************************************************************)
(* Properties.                                                             *)
(***************************************************************************)
Bought(u, product) ==
  \E p \in Payment : Payer[p] = u /\ Product[p] = product /\ pay[p] = "approved"

\* Whatever races and fails, nobody is active without having paid or been
\* activated by an admin, and nobody holds a tier nobody paid for.
EntitlementsPaid ==
  \A u \in User :
    /\ userStatus[u] = "ACTIVATED" /\ u \notin manual => Bought(u, "ACTIVATION")
    /\ tier[u] # "NORMAL" => Bought(u, tier[u])

\* A COMPLETED row stands for a payment the provider approved and whose
\* product the user was given: the two writes are never separated.
CompletedRowsGranted ==
  \A p \in Payment : \A c \in Creator :
    rows[p][c] = "COMPLETED" => pay[p] = "approved" /\ p \in granted

\* Whatever races and fails, what was granted keeps a COMPLETED row, unless a
\* status call of the reconciliation failed: neither a refusal nor a decline nor
\* a late or overlapping loop spoils it.
GrantsKeepTheirRow ==
  \A p \in granted \ misjudged : \E c \in Creator : rows[p][c] = "COMPLETED"

\* A webhook refused the payment and kept a FAILED row of the refusal.
Refused(p) == \E e \in ApprovalEvent : rows[p][e] = "FAILED"

\* A payment made and recorded does not stay pending: should its webhooks be lost
\* or die half-way, the cron grants it.  Only if a webhook refused it, or a
\* status call failed, may it end otherwise.
RecordedPaymentsSettle ==
  \A p \in Payment :
    (pay[p] = "approved" /\ rows[p]["service"] = "PENDING")
      ~> /\ rows[p]["service"] # "PENDING"
         /\ p \notin granted => Refused(p) \/ p \in misjudged
=============================================================================
