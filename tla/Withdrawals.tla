----------------------------- MODULE Withdrawals -----------------------------
(***************************************************************************)
(* The life of a withdrawal in XEARN: the request handler debits the      *)
(* wallet and orders the payout, and four kinds of handlers settle it      *)
(* concurrently: an admin's approval or rejection, the provider's webhooks *)
(* and the reconciliation cron.                                            *)
(*                                                                         *)
(* PostgreSQL runs at READ COMMITTED: a $transaction is one step, every    *)
(* await outside one is a point where the other handlers run, so a handler *)
(* reads in one step and writes in a later one.                            *)
(***************************************************************************)
EXTENDS Integers, FiniteSets, Functions

CONSTANTS
  User, Activated,      \* accounts, and those whose status is ACTIVATED
  Tier,                 \* the tier of each account
  Request, Owner,       \* requests, and who makes each; an accepted request
                        \* r creates the withdrawal r and its ledger row r
  Amount,               \* gross amounts a client may ask for
  MinWithdrawal, MaxWithdrawal, DailyCount, DailyAmount,
  Reward, EarnCap,      \* size of an earning; bound on totalEarned
  Asset, Unavailable,   \* answers of the provider's balance API
  Handler, Run,         \* slots for HTTP handlers in flight and for
                        \* reconciliation runs in flight (bounds)
  MockModes,            \* deployments: may PAYMENT_MODE be "mock"? "fedapay"?
  SameNumber,           \* what may be answered of the provider's transaction
                        \* that has the number of a request's payout, if any
  CarriesMetadata,      \* do payout events carry {withdrawalId, userId}?
                        \* disburse sends none: only if the provider adds it
  MaxFaults,            \* bound on crashes and failed database calls
  NoRequest

InProgress == {"PENDING", "PROCESSING"}
Terminal   == {"COMPLETED", "FAILED"}
PayoutEvent == {"payout.sent", "payout.completed", "payout.failed"}

ASSUME RequestAssumption ==
  /\ Owner \in [Request -> User]
  /\ Tier \in [User -> {"NORMAL", "PREMIUM", "VIP"}]
  /\ NoRequest \notin Request

ASSUME FiniteAssumption == IsFiniteSet(Request)

ASSUME AmountAssumption ==
  /\ Amount \subseteq Nat
  /\ MinWithdrawal \in Nat \ {0}
  /\ {MaxWithdrawal, DailyCount, DailyAmount, Reward, EarnCap, MaxFaults} \subseteq Nat
  /\ Asset \subseteq Nat
  /\ Unavailable \notin Asset

ASSUME SwitchAssumption == MockModes \cup {CarriesMetadata} \subseteq BOOLEAN

ASSUME NumberAssumption ==
  SameNumber \in [Request -> SUBSET {"completed", "pending", "failed"}]

VARIABLES
  mock,                   \* PAYMENT_MODE is "mock" (fixed by the deployment)
  balance, totalEarned,   \* wallets: two columns per user
  status,                 \* Withdrawal.status, "NONE" before creation
  rowStatus,              \* Transaction.status of the WITHDRAWAL row
  payoutRef,              \* does the row's metadata hold providerTransactionId?
  recent,                 \* withdrawals created less than 24 hours ago
  seen,                   \* WebhookEvent rows: <<event type, withdrawal>>
  payout,                 \* the provider's own record of the payout
  pc, gross,              \* request handlers: progress and amount asked
  handler,                \* admin and webhook handlers in flight
  run,                    \* reconciliation runs in flight
  faults,                 \* faults so far
  stale                   \* history: withdrawals settled or reopened by a
                          \* write that found them settled already

wallets == <<balance, totalEarned>>
ledger  == <<status, rowStatus>>
request == <<pc, gross>>
vars == <<wallets, ledger, payoutRef, recent, seen, payout, request,
          handler, run, faults, stale>>

(***************************************************************************)
(* Fees.                                                                   *)
(***************************************************************************)
FeePercent(tier) == CASE tier = "VIP" -> 2
                      [] tier = "PREMIUM" -> 5
                      [] OTHER -> 10

\* Math.round(amount * percent / 100): halves round up.
Fee(amount, tier) == (amount * FeePercent(tier) + 50) \div 100

NetAmount(amount, tier) == amount - Fee(amount, tier)

Net(r) == NetAmount(gross[r], Tier[Owner[r]])

Of(u) == {r \in Request : Owner[r] = u}

-----------------------------------------------------------------------------
(***************************************************************************)
(* Type invariant and initial state.                                       *)
(***************************************************************************)
BeforeDebit == {"pendingChecked", "solvencyChecked", "limitsChecked"}
AfterDebit  == {"debited", "payoutCreated", "answeredPending", "answeredCompleted",
                "recordedPending", "recordedCompleted"}
HandlerOp == {"idle", "approve", "approveCommit", "rejectCommit", "webhook",
              "webhookRecorded", "completeCommit", "failCommit"}
Idle == [op |-> "idle", w |-> NoRequest, event |-> "none"]
NoRun == [phase |-> "idle", todo |-> {}, w |-> NoRequest]

TypeOK ==
  /\ mock \in BOOLEAN
  /\ balance \in [User -> Int]
  /\ totalEarned \in [User -> Nat]
  /\ status \in [Request -> InProgress \cup Terminal \cup {"NONE"}]
  /\ rowStatus \in [Request -> Terminal \cup {"NONE", "PENDING"}]
  /\ payoutRef \in [Request -> BOOLEAN]
  /\ recent \subseteq Request
  /\ seen \subseteq PayoutEvent \X Request
  /\ payout \in [Request -> {"none", "created", "started", "sent", "failed"}]
  /\ pc \in [Request -> {"idle", "done"} \cup BeforeDebit \cup AfterDebit]
  /\ gross \in [Request -> Nat]
  /\ handler \in [Handler -> [op : HandlerOp, w : Request \cup {NoRequest},
                              event : PayoutEvent \cup {"none"}]]
  /\ run \in [Run -> [phase : {"idle", "loop", "completed", "failed"},
                      todo : SUBSET Request, w : Request \cup {NoRequest}]]
  /\ faults \in 0..MaxFaults
  /\ stale \subseteq Request

Init ==
  /\ mock \in MockModes
  /\ balance = [u \in User |-> 0]
  /\ totalEarned = [u \in User |-> 0]
  /\ status = [r \in Request |-> "NONE"]
  /\ rowStatus = [r \in Request |-> "NONE"]
  /\ payoutRef = [r \in Request |-> FALSE]
  /\ recent = {}
  /\ seen = {}
  /\ payout = [r \in Request |-> "none"]
  /\ pc = [r \in Request |-> "idle"]
  /\ gross = [r \in Request |-> 0]
  /\ handler = [h \in Handler |-> Idle]
  /\ run = [n \in Run |-> NoRun]
  /\ faults = 0
  /\ stale = {}

-----------------------------------------------------------------------------
(***************************************************************************)
(* Earnings: a task reward, commission or badge credits both columns.      *)
(***************************************************************************)
Earn(u) ==
  /\ totalEarned[u] + Reward <= EarnCap
  /\ totalEarned' = [totalEarned EXCEPT ![u] = @ + Reward]
  /\ balance' = [balance EXCEPT ![u] = @ + Reward]
  /\ UNCHANGED <<ledger, payoutRef, recent, seen, payout, request, handler, run, faults, stale>>

\* Time: a withdrawal leaves the 24 hour window of the daily limits.
LeaveWindow(r) ==
  /\ recent' = recent \ {r}
  /\ r \in recent
  /\ UNCHANGED <<wallets, ledger, payoutRef, seen, payout, request, handler, run, faults, stale>>

-----------------------------------------------------------------------------
(***************************************************************************)
(* requestWithdrawal.  Three reads outside any transaction, then the debit *)
(* transaction, then the payout order, then two writes of its answer.  A   *)
(* refused request changes nothing and may be made again.                  *)
(***************************************************************************)
Goto(r, here, there) ==
  /\ pc[r] = here
  /\ pc' = [pc EXCEPT ![r] = there]

HasInProgress(u) == \E r \in Of(u) : status[r] \in InProgress

\* Validation of the amount and the account, and the read that looks for a
\* withdrawal already in progress.
CheckPending(r) ==
  /\ Goto(r, "idle", "pendingChecked")
  /\ Owner[r] \in Activated
  /\ ~HasInProgress(Owner[r])
  /\ \E a \in Amount :
       /\ MinWithdrawal <= a /\ a <= MaxWithdrawal
       /\ gross' = [gross EXCEPT ![r] = a]
  /\ UNCHANGED <<wallets, ledger, payoutRef, recent, seen, payout, handler, run, faults, stale>>

Refuse(r) ==
  /\ pc' = [pc EXCEPT ![r] = "idle"]
  /\ gross' = [gross EXCEPT ![r] = 0]

\* canProcessWithdrawal: all balances against the provider's balance; an
\* unreachable provider counts as solvent (fail-open).
Solvent(asset) == asset = Unavailable \/ SumFunctionOnSet(balance, User) <= asset

CheckSolvency(r) ==
  /\ \E asset \in Asset \cup {Unavailable} :
       IF Solvent(asset)
         THEN Goto(r, "pendingChecked", "solvencyChecked") /\ UNCHANGED gross
         ELSE pc[r] = "pendingChecked" /\ Refuse(r)
  /\ UNCHANGED <<wallets, ledger, payoutRef, recent, seen, payout, handler, run, faults, stale>>

Counted(u) == {r \in Of(u) \cap recent : status[r] \in InProgress \cup {"COMPLETED"}}

\* The limits add the net amounts of earlier withdrawals to the gross amount
\* of this one.
WithinDailyLimits(r) ==
  LET earlier == Counted(Owner[r]) IN
  /\ Cardinality(earlier) < DailyCount
  /\ SumFunctionOnSet([s \in Request |-> Net(s)], earlier) + gross[r] <= DailyAmount

CheckLimits(r) ==
  /\ IF WithinDailyLimits(r)
       THEN Goto(r, "solvencyChecked", "limitsChecked") /\ UNCHANGED gross
       ELSE pc[r] = "solvencyChecked" /\ Refuse(r)
  /\ UNCHANGED <<wallets, ledger, payoutRef, recent, seen, payout, handler, run, faults, stale>>

\* Mutants of Debit: trusting the balance read before the lock, and debiting
\* the net amount.
DebitUnchecked(r) ==
  /\ Goto(r, "limitsChecked", "debited")
  /\ balance' = [balance EXCEPT ![Owner[r]] = @ - gross[r]]
  /\ status' = [status EXCEPT ![r] = "PENDING"]
  /\ rowStatus' = [rowStatus EXCEPT ![r] = "PENDING"]
  /\ recent' = recent \cup {r}
  /\ UNCHANGED <<gross, totalEarned, payoutRef, seen, payout, handler, run, faults, stale>>

DebitNet(r) ==
  /\ Goto(r, "limitsChecked", "debited")
  /\ balance[Owner[r]] >= gross[r]
  /\ balance' = [balance EXCEPT ![Owner[r]] = @ - Net(r)]
  /\ status' = [status EXCEPT ![r] = "PENDING"]
  /\ rowStatus' = [rowStatus EXCEPT ![r] = "PENDING"]
  /\ recent' = recent \cup {r}
  /\ UNCHANGED <<gross, totalEarned, payoutRef, seen, payout, handler, run, faults, stale>>

\* The transaction that locks the wallet, rereads the balance, debits the gross
\* amount and creates the withdrawal and its ledger row.
Debit(r) ==
  LET u == Owner[r] IN
  /\ pc[r] = "limitsChecked"
  /\ IF balance[u] < gross[r]
       THEN Refuse(r) /\ UNCHANGED <<balance, ledger, recent>>
       ELSE /\ Goto(r, "limitsChecked", "debited")
            /\ balance' = [balance EXCEPT ![u] = @ - gross[r]]
            /\ status' = [status EXCEPT ![r] = "PENDING"]
            /\ rowStatus' = [rowStatus EXCEPT ![r] = "PENDING"]
            /\ recent' = recent \cup {r}
            /\ UNCHANGED gross
  /\ UNCHANGED <<totalEarned, payoutRef, seen, payout, handler, run, faults, stale>>

\* Mutant of CreatePayout: the payout is ordered before the debit commits.
CreatePayoutFirst(r) ==
  /\ ~mock
  /\ pc[r] = "limitsChecked"
  /\ payout' = [payout EXCEPT ![r] = "created"]
  /\ UNCHANGED <<wallets, ledger, payoutRef, recent, seen, request, handler, run, faults, stale>>

\* disburse: create the payout, then start it.  Each call may fail, or succeed
\* and lose its answer (30 second timeout); both give "failed" with no payout
\* id, and the handler ends leaving the withdrawal PENDING.
CreatePayout(r) ==
  /\ ~mock
  /\ \/ /\ Goto(r, "debited", "payoutCreated")
        /\ payout' = [payout EXCEPT ![r] = "created"]
     \/ /\ Goto(r, "debited", "done")
        /\ \E p \in {"none", "created"} : payout' = [payout EXCEPT ![r] = p]
  /\ UNCHANGED <<wallets, ledger, payoutRef, recent, seen, gross, handler, run, faults, stale>>

StartPayout(r) ==
  /\ \/ /\ Goto(r, "payoutCreated", "answeredPending")
        /\ payout' = [payout EXCEPT ![r] = "started"]
     \/ /\ Goto(r, "payoutCreated", "done")
        /\ \E p \in {"created", "started"} : payout' = [payout EXCEPT ![r] = p]
  /\ UNCHANGED <<wallets, ledger, payoutRef, recent, seen, gross, handler, run, faults, stale>>

MockDisburse(r) ==
  /\ mock
  /\ Goto(r, "debited", "answeredCompleted")
  /\ payout' = [payout EXCEPT ![r] = "sent"]
  /\ UNCHANGED <<wallets, ledger, payoutRef, recent, seen, gross, handler, run, faults, stale>>

\* updateMany on the PENDING row: store the payout id.
RecordPayoutRef(r) ==
  /\ \/ Goto(r, "answeredPending", "recordedPending")
     \/ Goto(r, "answeredCompleted", "recordedCompleted")
  /\ payoutRef' = [payoutRef EXCEPT ![r] = @ \/ rowStatus[r] = "PENDING"]
  /\ UNCHANGED <<wallets, ledger, recent, seen, payout, gross, handler, run, faults, stale>>

\* Every write of Withdrawal.status after creation is unconditional; updateMany
\* moves the ledger row only if it is still PENDING.
MarkStale(w) == stale' = IF status[w] \in Terminal THEN stale \cup {w} ELSE stale

\* Mutants of SettlePendingRow: the row is forgotten, or not filtered by status.
SettleWithdrawalOnly(w, outcome) ==
  /\ status' = [status EXCEPT ![w] = outcome]
  /\ MarkStale(w)
  /\ UNCHANGED rowStatus

SettleUnfilteredRow(w, outcome) ==
  /\ status' = [status EXCEPT ![w] = outcome]
  /\ rowStatus' = [rowStatus EXCEPT ![w] = outcome]
  /\ MarkStale(w)

SettlePendingRow(w, outcome) ==
  /\ status' = [status EXCEPT ![w] = outcome]
  /\ rowStatus' = [rowStatus EXCEPT ![w] = IF @ = "PENDING" THEN outcome ELSE @]
  /\ MarkStale(w)

\* Mutant of MarkProcessing: a status the ledger row does not have.
MarkBothProcessing(r) ==
  /\ Goto(r, "recordedPending", "done")
  /\ status' = [status EXCEPT ![r] = "PROCESSING"]
  /\ rowStatus' = [rowStatus EXCEPT ![r] = "PROCESSING"]
  /\ MarkStale(r)
  /\ UNCHANGED <<wallets, payoutRef, recent, seen, payout, gross, handler, run, faults>>

MarkProcessing(r) ==
  /\ Goto(r, "recordedPending", "done")
  /\ status' = [status EXCEPT ![r] = "PROCESSING"]
  /\ MarkStale(r)
  /\ UNCHANGED <<wallets, rowStatus, payoutRef, recent, seen, payout, gross, handler, run, faults>>

MarkCompleted(r) ==
  /\ Goto(r, "recordedCompleted", "done")
  /\ SettlePendingRow(r, "COMPLETED")
  /\ UNCHANGED <<wallets, payoutRef, recent, seen, payout, gross, handler, run, faults>>

RequestStep(r) ==
  \/ CheckSolvency(r) \/ CheckLimits(r) \/ Debit(r)
  \/ CreatePayout(r) \/ StartPayout(r) \/ MockDisburse(r)
  \/ RecordPayoutRef(r) \/ MarkProcessing(r) \/ MarkCompleted(r)

-----------------------------------------------------------------------------
(***************************************************************************)
(* approveWithdrawal and rejectWithdrawal.                                 *)
(***************************************************************************)
Become(h, op) == handler' = [handler EXCEPT ![h].op = op]
Finish(h) == handler' = [handler EXCEPT ![h] = Idle]

ReadPendingWithdrawal(h, w) ==
  /\ handler[h] = Idle
  /\ status[w] = "PENDING"
  /\ \E op \in {"approve", "rejectCommit"} :
       handler' = [handler EXCEPT ![h] = [op |-> op, w |-> w, event |-> "none"]]
  /\ UNCHANGED <<wallets, ledger, payoutRef, recent, seen, payout, request, run, faults, stale>>

\* approve looks for a PENDING ledger row.  (Its comparison of net amounts
\* cannot fail: both come from the same transaction, and the expected one is
\* lost when the payout id is stored.)
FindPendingRow(h) ==
  /\ handler[h].op = "approve"
  /\ IF rowStatus[handler[h].w] = "PENDING" THEN Become(h, "approveCommit") ELSE Finish(h)
  /\ UNCHANGED <<wallets, ledger, payoutRef, recent, seen, payout, request, run, faults, stale>>

CommitApprove(h) ==
  /\ handler[h].op = "approveCommit"
  /\ SettlePendingRow(handler[h].w, "COMPLETED")
  /\ Finish(h)
  /\ UNCHANGED <<wallets, payoutRef, recent, seen, payout, request, run, faults>>

\* Mutant of RefundGross: the withdrawal's own amount, which is net of fees.
RefundNet(w) == balance' = [balance EXCEPT ![Owner[w]] = @ + Net(w)]

RefundGross(w) == balance' = [balance EXCEPT ![Owner[w]] = @ + gross[w]]

CommitReject(h) ==
  /\ handler[h].op = "rejectCommit"
  /\ SettlePendingRow(handler[h].w, "FAILED")
  /\ RefundGross(handler[h].w)
  /\ Finish(h)
  /\ UNCHANGED <<totalEarned, payoutRef, recent, seen, payout, request, run, faults>>

-----------------------------------------------------------------------------
(***************************************************************************)
(* Payout webhooks.  The provider delivers an event any number of times.   *)
(***************************************************************************)
ProviderSettles(r) ==
  /\ payout[r] = "started"
  /\ \E p \in {"sent", "failed"} : payout' = [payout EXCEPT ![r] = p]
  /\ UNCHANGED <<wallets, ledger, payoutRef, recent, seen, request, handler, run, faults, stale>>

Emitted(w) == CASE payout[w] = "sent" -> {"payout.sent", "payout.completed"}
                [] payout[w] = "failed" -> {"payout.failed"}
                [] OTHER -> {}

\* findUnique(webhookId): an event already recorded is ignored.
LookUpWebhook(h, w) ==
  /\ ~mock
  /\ handler[h] = Idle
  /\ \E e \in Emitted(w) :
       /\ <<e, w>> \notin seen
       /\ handler' = [handler EXCEPT ![h] = [op |-> "webhook", w |-> w, event |-> e]]
  /\ UNCHANGED <<wallets, ledger, payoutRef, recent, seen, payout, request, run, faults, stale>>

\* create: the unique index on webhookId fails the later of two deliveries.
RecordWebhook(h) ==
  LET key == <<handler[h].event, handler[h].w>> IN
  /\ handler[h].op = "webhook"
  /\ seen' = seen \cup {key}
  /\ IF key \in seen THEN Finish(h) ELSE Become(h, "webhookRecorded")
  /\ UNCHANGED <<wallets, ledger, payoutRef, recent, payout, request, run, faults, stale>>

\* The read at the head of handlePayoutCompleted and handlePayoutFailed.
ReadForWebhook(h) ==
  LET failed == handler[h].event = "payout.failed"
      now    == status[handler[h].w]
      settled == now = "COMPLETED" \/ (failed /\ now = "FAILED")
  IN /\ handler[h].op = "webhookRecorded"
     /\ IF settled \/ ~CarriesMetadata THEN Finish(h)
        ELSE Become(h, IF failed THEN "failCommit" ELSE "completeCommit")
     /\ UNCHANGED <<wallets, ledger, payoutRef, recent, seen, payout, request, run, faults, stale>>

CommitPayoutCompleted(h) ==
  /\ handler[h].op = "completeCommit"
  /\ SettlePendingRow(handler[h].w, "COMPLETED")
  /\ Finish(h)
  /\ UNCHANGED <<wallets, payoutRef, recent, seen, payout, request, run, faults>>

CommitPayoutFailed(h) ==
  /\ handler[h].op = "failCommit"
  /\ RefundGross(handler[h].w)
  /\ SettlePendingRow(handler[h].w, "FAILED")
  /\ Finish(h)
  /\ UNCHANGED <<totalEarned, payoutRef, recent, seen, payout, request, run, faults>>

HandlerStep(h) ==
  \/ FindPendingRow(h) \/ CommitApprove(h) \/ CommitReject(h)
  \/ RecordWebhook(h) \/ ReadForWebhook(h)
  \/ CommitPayoutCompleted(h) \/ CommitPayoutFailed(h)

-----------------------------------------------------------------------------
(***************************************************************************)
(* reconcileWithdrawals.  The list is read once; each withdrawal is then   *)
(* settled by the provider's answer whatever became of it meanwhile.  The  *)
(* running flag is reset after four minutes, so two runs may overlap.      *)
(***************************************************************************)
\* Mutant of InProgressNow: only the PENDING withdrawals are listed.
PendingNow == {w \in Request : status[w] = "PENDING"}

InProgressNow == {w \in Request : status[w] \in InProgress}

StartRun(n) ==
  /\ run[n] = NoRun
  /\ InProgressNow # {}
  /\ run' = [run EXCEPT ![n] = [NoRun EXCEPT !.phase = "loop", !.todo = InProgressNow]]
  /\ UNCHANGED <<wallets, ledger, payoutRef, recent, seen, payout, request, handler, faults, stale>>

\* checkStatus asks for the transaction that has the payout's number, never for
\* the payout: none, an error or a timeout is "failed", and another payment that
\* happens to have the number is answered for.
Answers(w) == IF mock THEN {"completed"} ELSE {"failed"} \cup SameNumber[w]

Advance(n, w, phase) ==
  run' = [run EXCEPT ![n] =
            IF phase = "loop" /\ @.todo = {w} THEN NoRun
            ELSE [phase |-> phase, todo |-> @.todo \ {w},
                  w |-> IF phase = "loop" THEN NoRequest ELSE w]]

\* The row without a payout id is skipped; "pending" leaves the withdrawal.
AskStatus(n, w) ==
  /\ run[n].phase = "loop"
  /\ w \in run[n].todo
  /\ IF payoutRef[w]
       THEN \E answer \in Answers(w) :
              Advance(n, w, IF answer = "pending" THEN "loop" ELSE answer)
       ELSE Advance(n, w, "loop")
  /\ UNCHANGED <<wallets, ledger, payoutRef, recent, seen, payout, request, handler, faults, stale>>

\* The transaction overwrites the withdrawal and the row without condition.
SettleAnyRow(w, outcome) ==
  /\ status' = [status EXCEPT ![w] = outcome]
  /\ rowStatus' = [rowStatus EXCEPT ![w] = outcome]
  /\ MarkStale(w)

NextInRun(n) ==
  run' = [run EXCEPT ![n] = IF @.todo = {} THEN NoRun
                            ELSE [phase |-> "loop", todo |-> @.todo, w |-> NoRequest]]

CommitRunCompleted(n) ==
  /\ run[n].phase = "completed"
  /\ SettleAnyRow(run[n].w, "COMPLETED")
  /\ NextInRun(n)
  /\ UNCHANGED <<wallets, payoutRef, recent, seen, payout, request, handler, faults>>

CommitRunFailed(n) ==
  /\ run[n].phase = "failed"
  /\ SettleAnyRow(run[n].w, "FAILED")
  /\ RefundGross(run[n].w)
  /\ NextInRun(n)
  /\ UNCHANGED <<totalEarned, payoutRef, recent, seen, payout, request, handler, faults>>

RunStep(n) ==
  \/ \E w \in Request : AskStatus(n, w)
  \/ CommitRunCompleted(n) \/ CommitRunFailed(n)

-----------------------------------------------------------------------------
(***************************************************************************)
(* Faults.  A database call of one handler throws, or the process dies     *)
(* with everything it had in memory; the database keeps what was written.  *)
(***************************************************************************)
AfterFault(r) == CASE pc[r] \in BeforeDebit -> "idle"
                   [] pc[r] \in AfterDebit -> "done"
                   [] OTHER -> pc[r]

Fault ==
  /\ faults < MaxFaults
  /\ faults' = faults + 1
  /\ UNCHANGED <<wallets, ledger, payoutRef, recent, seen, payout, stale>>

RequestFault(r) ==
  /\ Fault
  /\ pc[r] \in BeforeDebit \cup AfterDebit
  /\ pc' = [pc EXCEPT ![r] = AfterFault(r)]
  /\ gross' = [gross EXCEPT ![r] = IF pc[r] \in BeforeDebit THEN 0 ELSE @]
  /\ UNCHANGED <<handler, run>>

HandlerFault(h) ==
  /\ Fault
  /\ handler[h] # Idle
  /\ Finish(h)
  /\ UNCHANGED <<request, run>>

RunFault(n) ==
  /\ Fault
  /\ run[n] # NoRun
  /\ run' = [run EXCEPT ![n] = NoRun]
  /\ UNCHANGED <<request, handler>>

Crash ==
  /\ Fault
  /\ pc' = [r \in Request |-> AfterFault(r)]
  /\ gross' = [r \in Request |-> IF pc[r] \in BeforeDebit THEN 0 ELSE gross[r]]
  /\ handler' = [h \in Handler |-> Idle]
  /\ run' = [n \in Run |-> NoRun]

-----------------------------------------------------------------------------
Step ==
  \/ \E u \in User : Earn(u)
  \/ \E r \in Request : \/ LeaveWindow(r) \/ CheckPending(r) \/ RequestStep(r)
                        \/ ProviderSettles(r) \/ RequestFault(r)
  \/ \E h \in Handler : \/ \E w \in Request : ReadPendingWithdrawal(h, w) \/ LookUpWebhook(h, w)
                        \/ HandlerStep(h) \/ HandlerFault(h)
  \/ \E n \in Run : StartRun(n) \/ RunStep(n) \/ RunFault(n)
  \/ Crash

Next == Step /\ mock' = mock

Spec == Init /\ [][Next]_<<mock, vars>>

\* A handler that has begun runs to its end and the cron keeps firing.  Nobody is
\* obliged to ask for a withdrawal, to approve or reject one, to settle a payout
\* or to deliver a webhook.
Fairness ==
  /\ \A r \in Request : WF_vars(RequestStep(r))
  /\ \A h \in Handler : WF_vars(HandlerStep(h))
  /\ \A n \in Run : WF_vars(StartRun(n)) /\ WF_vars(RunStep(n))

FairSpec == Spec /\ Fairness

-----------------------------------------------------------------------------
(***************************************************************************)
(* Properties.                                                             *)
(***************************************************************************)
\* No interleaving of requests overdraws a wallet: the balance is compared and
\* debited under the row lock, whatever was read before.
BalanceNeverNegative == \A u \in User : balance[u] >= 0

\* Gross amounts held by withdrawals that are not FAILED.
HeldGross(u) ==
  SumFunctionOnSet(gross, {r \in Of(u) : status[r] \notin {"NONE", "FAILED"}})

\* However the settling handlers race and whatever crashes, a user's balance
\* and unrefunded withdrawals never add up to less than was earned.
NoLossToUser == \A u \in User : balance[u] + HeldGross(u) >= totalEarned[u]

\* They add up to exactly what was earned as long as none of the user's
\* withdrawals was overwritten after being settled: stale writes are the only
\* way money is created.
ExactUnlessStale ==
  \A u \in User : Of(u) \cap stale = {} => balance[u] + HeldGross(u) = totalEarned[u]

\* A settled withdrawal has a settled ledger row, and without a stale write the
\* row and the withdrawal tell the same story.
RowStory(s) == IF s \in InProgress THEN "PENDING" ELSE s
RowFollowsWithdrawal ==
  \A w \in Request :
    /\ status[w] \in Terminal => rowStatus[w] \in Terminal
    /\ w \notin stale => rowStatus[w] = RowStory(status[w])

\* No payout is ordered that a crash could leave without the debit and the
\* ledger row that account for it.
PayoutHasRow ==
  \A w \in Request : payout[w] # "none" => rowStatus[w] # "NONE" /\ status[w] # "NONE"

\* Concurrent deliveries of one event are handled by at most one handler, and
\* never before the event is recorded (the unique webhookId).
Handling(h) == handler[h].op \in {"webhookRecorded", "completeCommit", "failCommit"}
EventKey(h) == <<handler[h].event, handler[h].w>>
WebhookHandledOnce ==
  \A h \in Handler : Handling(h) =>
    /\ EventKey(h) \in seen
    /\ \A g \in Handler \ {h} : Handling(g) => EventKey(g) # EventKey(h)

\* A settled ledger row is only ever rewritten by the reconciliation cron.
OnlyRunsRewriteSettledRows ==
  [][\A w \in Request :
       rowStatus[w] \in Terminal /\ rowStatus'[w] # rowStatus[w]
         => \E n \in Run : run[n].phase \in {"completed", "failed"} /\ run[n].w = w]_vars

\* A withdrawal whose payout id was stored is settled for good in the end,
\* whatever the cron is told, whoever reopens it and whatever dies meanwhile,
\* unless its number is that of a transaction that may stay pending.
RecordedPayoutSettles ==
  \A w \in {r \in Request : "pending" \notin SameNumber[r]} :
    payoutRef[w] ~> [](status[w] \in Terminal)
=============================================================================
