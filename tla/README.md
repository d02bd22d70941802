# XEARN: TLA+ models, checks and proofs

XEARN pays users for completing tasks, pays three levels of referrers a commission, and lets
users withdraw what they earned through the FedaPay provider. Accounts are activated and
upgraded (PREMIUM, VIP) by payments in the other direction. This directory models the API where
money moves and where accounts and sessions are made, and the clients that use it; it checks
them with TLC on small instances and proves the properties that matter most with TLAPS for
every instance.

Paths below are relative to `apps/api/src/` unless they start with another directory.

## 1. Inventory

The API is a NestJS application over Prisma and PostgreSQL; `prisma/prisma.service.ts:27-31`
sets READ COMMITTED for every transaction. Handlers are asynchronous functions: **between two
`await`s every other handler, cron job and request may run**, and several API processes may
share one database. Only a `$transaction` is atomic, and only a `SELECT ... FOR UPDATE`, an
atomic increment or a unique constraint orders two transactions. Every model of the API follows
from that: one action per stretch of code between awaits, one action per transaction. The clients
are single threads, but what they await ends in any order: one action per event.

| Component | State | Operations | Interacts with |
|---|---|---|---|
| Withdrawals (`wallet/wallet.service.ts`, `platform-balance.service.ts`) | `Wallet.balance`, `Withdrawal.status`, WITHDRAWAL `Transaction` rows | requestWithdrawal, approveWithdrawal, rejectWithdrawal, checkSolvency | provider (disburse, balance), webhooks, cron |
| Payments in (`wallet.service.ts`) | `User.status`, `User.tier`, ACTIVATION/upgrade rows | activateAccount, upgradeTier | provider (collect), webhooks, cron |
| Webhooks (`payment/payment-webhook.controller.ts`) | `WebhookEvent` (unique webhookId) | handlers of transaction.* and payout.* events | all of the above |
| Reconciliation (`payment/payment-reconciliation.service.ts`) | none of its own | loops over activations, upgrades, withdrawals; retry | provider (checkStatus), rows |
| Providers (`payment/fedapay.provider.ts`, `mock-payment.provider.ts`) | external | collect, disburse, checkStatus, getBalance | |
| Tasks (`tasks/tasks.service.ts`) | `Task`, `TaskSession`, `TaskCompletion`, wallets | startTask, getTaskLandingPage, completeTask, toggle/update/deleteTask | emits `task.completed`; cleanup cron |
| Referrals (`referrals/referrals.service.ts`, `events/task-completed.listener.ts`) | `Commission` (unique), wallets | distributeCommissions | task events, badges |
| Gamification (`gamification/gamification.service.ts`) | `UserBadge` (unique), streaks, wallets | recordActivity, checkAndAwardBadges | task events, referrals |
| Accounts (`auth/auth.service.ts`, `auth/anti-cheat.service.ts`) | `User`, verification links, `DeviceFingerprint` | register, login, Google sign-in, verifyEmail, resend, recordFingerprint | referrals, mail |
| Sessions (`auth/`) | `User.tokenVersion`, reset links, tokens | login, refresh, change and reset of the password | JWT strategy, clients |
| Users, admin (`users/`, `admin/`) | `User.status`, profile | suspend, ban, reactivate, changePassword, updateProfile, statistics | payments, sessions |
| Cleanup cron (`common/cleanup.cron.ts`) | none | stale sessions, overdue tasks, old notifications, expired tokens | tasks, accounts |
| Web client (`apps/web/src`) | cookies; of each tab: user, refresh under way; of each page: rows, filters, flags | api, doRefresh, AuthContext, middleware; load, handlers and effects of the pages | the API |
| Mobile client (`apps/mobile`) | of each screen: rows, flags | the same | the API |
| Notifications, ads, analytics, audit log, feature flags | rows | best effort or read only | |

What is hard in it, and what makes each component correct:

* **Withdrawals.** Four kinds of handlers settle one withdrawal, each reading its status some
  awaits before writing it. Correct means: no wallet overdrawn, no user loses money, no money
  appears, no payout without a debit, and what the provider accepted is settled in the end.
* **Payments in.** Webhook, cron and an admin write one user's status and tier. Correct means:
  nothing is granted that was not paid for, everything paid is granted, a COMPLETED row means a
  grant.
* **Tasks.** Correct means: a completion is counted once and paid once, at the reward and within
  the limit of the moment, whatever races; the daily limit is exceeded by a known amount; a
  session is not used up by a refused request.
* **Commissions and badges.** Correct means: each completion pays each level at most once, a
  wallet holds what its rows add up to, related transactions do not deadlock, streaks are earned.
* **Accounts.** Correct means: one account for an address or a number, verified by its holder.
* **Sessions.** Correct means: a change of password ends what was opened with another one.
* **Clients.** Correct means: tabs do not sign each other out, a sign-out lasts, no call waits
  for ever; a page shows what was asked for and what its user did, and its buttons come back.

`PROJECT.json` lists every hazard with its line and the properties that watch it.

## 2. Modules

| Module | Contents |
|---|---|
| `Withdrawals` | withdrawals, their settlement by admins, payout webhooks and the cron, and the provider |
| `Collections` | activations and upgrades, collection webhooks, both cron loops, admin decisions |
| `Tasks` | task sessions, codes, completion, administration of tasks, cleanup jobs |
| `PaidOnce` | abstract specification of what completing tasks promises; `Tasks` implements it |
| `Rewards` | the `task.completed` listener: commissions, badges, streaks |
| `Accounts` | registration, verification of the address, Google sign-in, first login, fingerprints |
| `Sessions` | token versions, login, refresh, change and reset of the password, bans |
| `Browser` | the web client of one account on top of `Sessions`: tabs, cookies, the shared refresh |
| `Pages`, `StaffPages` | what each page of the web client and each mobile screen does, as tables |
| `Screens` | one page of those tables in a tab, with its calls in flight |
| `Withdrawals_proofs`, `Collections_proofs`, `Tasks_proofs`, `Rewards_proofs`, `Accounts_proofs`, `Screens_proofs` | theorems about the module of that name |
| `Sessions_proofs` | theorems about `Sessions` and `Browser` |
| `Sums` | lemmas about sums over finite sets, for the proofs about money |
| `MC*` | definitions for TLC: owners and products, instances, symmetry sets |

`Browser` composes the client with the server: it EXTENDS `Sessions` and drives its requests.
The server modules are separate where the code shares only rows that the other side does not
write: `Rewards` begins with the commit of `Tasks`, `Collections` and `Withdrawals` share the
webhook controller and the cron but no row.

### Withdrawals

`pc[r]` is the progress of request `r` through `requestWithdrawal`, one value per await:
CheckPending (216-225), CheckSolvency (228), CheckLimits (239-262), Debit (the transaction,
265-307), CreatePayout and StartPayout (the two HTTP calls of `disburse`), RecordPayoutRef (320),
then MarkProcessing (354) or MarkCompleted (338). An accepted request `r` names the withdrawal
and the ledger row it creates. `handler` holds admin and webhook handlers in flight, `run` the
reconciliation loops; each keeps what it read. `seen` is the WebhookEvent table, `payout` the
provider's own record. `mock` chooses the provider at start, as PAYMENT_MODE does. The history
variable `stale` collects withdrawals that were overwritten after they had been settled, so that
a property can say that this is the *only* source of imbalance. Amounts are whole FCFA, and
fees are computed as the code computes them.

Failures: a database or provider call fails and ends its handler (RequestFault, HandlerFault,
RunFault), or the process dies (Crash); rows and the provider's record survive. `MaxFaults`
bounds them. A status call that fails is *not* a fault: `checkStatus` turns it into "failed".

What the cron is told of a payout is not what became of it. `checkStatus` asks for
`/transactions/{id}` (`fedapay.provider.ts:172`) also when the id is that of a payout. `Answers`
therefore does not look at `payout`: with FedaPay the answer is "failed" (no such transaction, an
error, a state the switch does not know) or whatever the transaction that happens to have this
number would be answered, which is the constant `SameNumber`. Payout events reach a withdrawal
only if they carry its id, which `disburse` does not send (132-142): the handlers return at
`payment-webhook.controller.ts:435, 491`. The runs take `CarriesMetadata = TRUE`, which has more
behaviours; what holds with these events holds without them.

### Collections

The same shape: `pc[p]` walks through activateAccount or upgradeTier; `rows[p][c]` are the
Transaction rows of one payment by who created them, since a webhook that finds no row creates
one; `handler` walks through record, find, verify and grant; `run` is one of the two loops;
`admin[u]` is a decision read and not yet written. Any status call may fail and be answered
"failed". `manual`, `granted` and `misjudged` are history: decisions of admins, payments whose
product was granted, payments of which a loop was told that they had failed although nobody
declined them.

### Tasks and PaidOnce

`call` holds the requests in flight (of users and admins), each at the await it has reached.
Time is reduced to the thresholds the code compares with: a session is fresh, past the minimum
duration, past the lockout, past the hour of the cleanup job, or too old; its code was not seen,
was seen just now, or long enough ago. `earned[u][t]` is the TaskCompletion row; `completionCount`
and `totalEarned` are the counters written with it. Left open: which users are refused at the door
(status, tier) and which tasks are past `expiresAt`, since a refusal changes nothing. The hourly
job deletes rows that requests have already read; their updates then fail, which rolls back.

`PaidOnce` keeps of all this a reward, a limit, what was paid and what was announced. `Tasks`
INSTANCEs it, `paid` by the completion rows and `announced` by the events, and `PaysAsPromised`
is its specification: every step of the handlers, jobs and failures is one of its steps or none.

### Rewards

One `listener[c]` per completion: the chain is read (ReadChain), the wallets of the beneficiaries
are locked one by one in the order of their ids (LockWallet, 237), all commissions are written at
once (Distribute) or not at all (RollBack), notified level by level, and then the badges of the
referrers in parallel, those of the earner in turn, and the streak between them. `job[c][u]` is
one run of checkAndAwardBadges: count, sum of the day, award under the wallet's lock. `rank` is
status and tier at once, as far as commissions ask (0 not activated, 1, 2 PREMIUM, 3 VIP) and
changes for the users in `Restless`. `income` is in centimes. `DefaultBadges` is the table the
service seeds; an ASSUME says what the instances, which use smaller badges, rely on.

### Accounts

`users` are the rows in the order they were created, `request` the handlers in flight, each one
await at a time. `inbox` is what was mailed, `holders` the addresses whose holder opened a link
or was signed by Google, `checked` the fingerprints whose comparison with other accounts was
made. A referral code given is that of the newest user, so that every user but the last may be a
referrer and nobody refers himself unless the code is read too late. Left out: the match by
network address, which works like that by device; the mail that announces an account; wrong
passwords and blocked users, who get no further.

### Sessions and Browser

`version` is `tokenVersion`; a token is the version and, as history, the password (or Google)
with which it was obtained. A request reads the row, waits for bcrypt or the signature, and then
writes or mints from what it read. The guard of changePassword reads the row a second time before
the service does.

In `Browser` every tab has a page ("in", "restoring", "expired" when api sent it to /login, "out"),
at most one refresh promise, and calls that are sent, waiting for it, or retried; the cookie jar is
shared. `Reload` is a full load of a page: middleware.ts looks whether there is an access cookie, and
`Restore` is AuthContext's restore of the user from it, a call of its own that other steps may
precede. A page that is left (`Leave`) may leave requests behind that were not aborted: their owner
is then `Gone`, and `LateAnswer` puts the cookies of the answer into the jar although nobody reads
it. `late` holds the requests in flight at the last sign-out, whose answers are the one way in which
cookies come back without a sign-in.

### Pages, StaffPages and Screens

All pages are built alike: an effect loads rows for the present filters; a handler raises a flag,
awaits one call and on success reloads, patches the rows, closes a form or leaves; a `finally`
lowers the flag. A page is therefore a record of a table (how it loads and reloads, what a failed
load does, its handlers and the buttons that call them), and `Screens` executes one such record:
its calls take effect at the API in any order, are answered in any order, and may fail before or
after having taken effect. A handler that reloads does so with the function of the render in which
its button was pressed, hence with the filters of then (`q` of a call). What the API returns is any
set of rows, since other users change them all the time; `missed` keeps, for a load that was read,
what this page changed afterwards. A page that adds rows to its list (`OpAppends`, the "more" of the
wallet) adds them to what it displays when they arrive.

`excuse` collects what the pages do not handle, each cause apart, so that a property names the one
it tolerates. A flag shared by several rows is taken over by a press on another row (`Taken`): the
calls it is taken from, and the new one as long as such calls are in flight, are marked `passed`, since
the first of them to end lowers it. `WellFormed` is what a page of the tables keeps to; TLC
evaluates it for each page, and the proofs use nothing else of the tables.

Mobile screens are modelled as written, against an API that answers them (see Section 6).

## 3. Runs

| Run | Instance | Shows |
|---|---|---|
| withdrawals_settle | 1 withdrawal, 2 handlers, 2 runs, 1 fault, any answer to the status calls | NoLossToUser, ExactUnlessStale, RowFollowsWithdrawal, PayoutHasRow, OnlyRunsRewriteSettledRows, types |
| withdrawals_compete | 2 requests with money for one, both providers, 1 run, 1 fault; no transaction has the number of the one payout, and one under way has that of the other; fairness | BalanceNeverNegative, RecordedPayoutSettles |
| collections_activation | 2 activations of one user, both providers, webhook, 2 loops, a ban, 1 fault, failing status calls | EntitlementsPaid, CompletedRowsGranted, GrantsKeepTheirRow |
| collections_upgrade | PREMIUM and VIP of one user, 1 loop, odd amounts, 1 fault, failing status calls, fairness | EntitlementsPaid, RecordedPaymentsSettle |
| tasks_race | 2 users, 1 task, 2 requests, admins change reward, limit and status, one day | BooksAgree, UsedSessionsPaid, the refinement PaysAsPromised |
| tasks_sessions | 1 user, 2 tasks (one with a code), 2 requests, cleanup, limit 1 a day | WrongCodesBounded, DailyOverrunBounded, types |
| rewards_commissions | a chain of 4 users, completions of the last and of the second, one rank changes, 1 fault, fairness | WalletsAgree, NoWaitCycle, EventsHandled |
| rewards_streaks | 3 completions of one user over 3 days, badges of three kinds, 1 fault | StreakEarned, types |
| accounts_signup | 2 requests, up to 2 accounts and 2 links, one address, number and device | OneAccountEach, VerifiedByHolder, SessionsVerified, SharedDeviceNoticed, types |
| sessions_resets | 2 requests, 2 passwords, 1 reset link, 2 changes | SessionsFollowPassword, LinkSpent, types |
| browser_tabs | 2 tabs, one of which signs out, 3 calls, 2 requests, late answers, 1 change elsewhere, 1 network failure | NoFalseExpiry, LogoutLasts, WaitingIsServed |
| screens_pages | each page and screen, 2 rows, 2 filters, 2 calls in flight | BusyHasCause, ShownMatchesQuery, OwnChangesShown, RepeatsOnlyAfterOverlap, types; no page gets stuck |

**Why the bounds are enough.** Handlers of different withdrawals of different users share no
row, and a race needs a reader and a writer: two handlers and two runs hold every pair of
settlers of one withdrawal in flight at once, with a third waiting its turn as slots are reused.
Two requests suffice for anything that depends on one user's sums. One fault covers every single
failure point; two independent failures of one withdrawal are not explored. Two calls suffice for
the races of Tasks, whose bounds are stated in terms of their number and proved for any number
where Section 5 says so. Two completions whose beneficiaries overlap in two wallets, in an order
of ids that is not the order of levels, are what a deadlock needs; three completions of one user
are two concurrent writers of a streak that exists. Uniqueness in Accounts is a matter of two rows.
In Browser three calls over two tabs put two calls behind one refresh while the other tab
refreshes as well; the tab that signs out is the one with two calls, since a second sign-out
starts the same over, and the proofs cover any number. In Screens two calls overtake each other, and a
third would only repeat it; statuses of rows are cut down to one for each set of buttons (`MCScreens`). Runs are checked
without deadlock where the system may rest: everything settled or every request refused.

**Where a run is an abstraction.** Every run of Withdrawals and Collections has status calls that
fail and are answered "failed" (`fedapay.provider.ts:187-188`). Where that decides, the property
says so: `GrantsKeepTheirRow` and `RecordedPaymentsSettle` set aside the payments a loop was told
a false answer about (`misjudged`), and no others. `CarriesMetadata = TRUE` is more than the code
provides (Section 2). `EntitlementsPaid` counts a payment as made when FedaPay approved it,
whatever its amount (Section 6). In Browser a change of password or a ban elsewhere is one step that moves the version.

## 4. Fairness

`FairSpec` adds weak fairness of what the platform runs by itself: a handler or loop that began
goes on (Node schedules every resolved promise), and the cron keeps firing. In Rewards each listener's next step is fair,
since an emitted event is handled by a function that nothing but a crash interrupts; a wallet's
lock is granted if it is free for ever, which the order of the locks provides. Nothing is assumed
of users, admins, webhook delivery, payers or the provider: in particular no webhook need ever arrive, so the
liveness properties say what the cron alone guarantees. Faults are bounded, hence stop.

Browser and Screens assume no fairness: `fetch` has no timeout there, so a call may never end.
What a user would miss is stated as safety: a call that waits has a refresh to wait for
(WaitingIsServed), a flag that is up has a call in flight that lowers it (BusyHasCause).

`RecordedPayoutSettles` is limited to withdrawals whose payout id was stored: when the process
dies between `disburse` and `updateMany` (wallet.service.ts:311-334) the cron cannot ask and the
withdrawal waits for an admin. It is limited to payouts whose number is not that of a transaction
which may stay pending: the cron then leaves the withdrawal as it is for as long as that lasts. It
says that the withdrawal comes to rest, COMPLETED or FAILED, in the books; not that the books
agree with the provider, which they do not (Section 6).

`RecordedPaymentsSettle` holds with failing calls and with a fault: a handler that dies after the
event was recorded is not repeated, and the cron then decides by itself. It grants what FedaPay says
was paid; what it is told has failed, falsely or not, it closes for good.

## 5. Proofs

Assumptions used are the ASSUMEs of the modules, which TLC evaluates in every run; besides the ranges of constants they
are `FiniteAssumption` (finitely many requests, without which a sum has no meaning),
`PagesAssumption` (every page is `WellFormed`) and `DefaultsAttainable`.

**Sums**: `SumFunctionOnSet`, a fold of the library whose order is a CHOOSE, adds a value once
whatever the order: the sum over the empty set is 0, over a set with one more element it grows
by that element's value, over two functions that agree it is the same. The library defines the
fold by a recursive function; induction, which would take an operator as a parameter, is replaced
by a smallest counterexample among the subsets of a finite set (`Smallest`).

**Withdrawals_proofs**, for any sets of users, requests, handlers and runs and any faults:

* `FeeBounds`: the fee lies between 0 and the amount for each tier, so net amounts are never
  negative.
* `TypeCorrect`, `NoOverdraft` (BalanceNeverNegative), `RowAgreement` (RowFollowsWithdrawal),
  `PayoutsHaveRows` (PayoutHasRow), `SettledRows`, the action property
  OnlyRunsRewriteSettledRows, and `AtMostOneHandler`: the unique webhookId gives an event to one
  handler, however many deliveries race.
* `NobodyLoses` (NoLossToUser) and `OnlyStaleWritesCreateMoney` (ExactUnlessStale): the wallet
  and the withdrawals not refunded add up to at least what was earned, and to exactly that while
  no settled withdrawal of the user was written again. The sum moves with the balance: a debit adds
  the term it takes, a refund takes the term it pays back, and a second refund, the only step that
  breaks the equation, breaks it upwards and is `stale`.

None of these is inductive alone. `IInv` adds `Created`: a withdrawal, its row and the passage of
its request through the debit happen together, and every handler or run in flight holds a
withdrawal that was created. A row rewritten by a webhook agrees with the withdrawal only because
the handler's withdrawal exists; the payout has a row only because its request passed the debit.
Each conjunct has a lemma with one step per action of `Next`.

**Tasks_proofs**, for any sets of users, tasks and requests, any rewards and limits:

* `TypeCorrect`; `SessionsPaid` (UsedSessionsPaid); `EventsCarryCredit`: an event announces what
  the completion row paid;
* `DailyOverrun` (DailyOverrunBounded): with n requests in flight the daily limit is exceeded by
  less than n. The argument is a potential: completions of the day plus requests that passed
  the count; it grows only in `CountToday`, where the first summand is below the limit and the
  second at most n, and `Commit` moves one from the second to the first;
* `WrongCodes` (WrongCodesBounded), that requests which read one session at once count fewer wrong
  codes beyond three than there are requests, with a like potential: the failures counted plus the
  requests that have found a code wrong and not yet counted it;
* `BooksBalance` (BooksAgree): the counter of completions and the totals of users are what the
  completion rows add up to;
* `Implements`, that `Tasks` implements `PaidOnce`. Init maps to Init, and each step to `Set`,
  `Pay`, `Announce` or nothing.

`IInv` adds `Addressed` (a request in flight knows its task and user) and `EmitterCredited` (a
request about to announce holds what the unique completion row paid, which no step changes).
`Reads` and `Beginnings` reduce the steps that change no row to two cases. The last two theorems
need more (`RInv`): `CountsAgree`, that the counter tested under the task's lock is the number of
completion rows (so that the abstract limit holds), `TotalsAgree`, and `EmitsOnce`, that one request
at most is about to announce a completion, and only while it is not announced. The counter is
compared with a cardinality, and `PaidFinite` and `CreditCounts` carry it over a new row.

**Collections_proofs**, for any users, payments, handlers and loops: `TypeCorrect`,
`Entitlements` (EntitlementsPaid), `CompletedGranted` (CompletedRowsGranted) and `GrantsKept`
(GrantsKeepTheirRow), all with failing status calls. The inductive invariant says who
may be about to grant: a handler past its status call, or a loop past its own, works for a
payment the provider approved (`Justified`); the unique event key lets one handler of an event
pass (`OneHandlerEach`), and only that handler creates the row of its event (`EventRows`). A loop
that is about to fail a row works for a payment that was declined, or is in `misjudged` by then; the
first cannot have been granted, the second is what `GrantsKeepTheirRow` sets aside.

**Rewards_proofs**, for any chains of referrers, completions and badges:

* `NoDeadlock` (NoWaitCycle). `LockOrder` says that a transaction holds a wallet only with all
  the wallets it wants below it. Were all of some listeners waiting for one another, one would
  wait for the last wallet waited for; the listener that holds it waits for a later one. The last
  of a finite set is found by the well-foundedness of < on the number of users after each.
* `StreaksEarned` (StreakEarned): the row, and the row a listener is about to write
  (`NextEarned`), stand for days of activity, which are never taken back, so a write that comes
  late replaces one true statement by another.
* `WalletsBalance` (WalletsAgree): totalEarned is what completions, commissions and badges paid. `MInv`
  adds that a listener which has not distributed has no Commission rows (`Unpaid`), so that the
  shares it adds are new terms of the sum, and that one which left the transaction has.
* `TypesHold` (TypeOK), with `StreaksOrdered`: neither the row nor the row about to be written has
  a longest streak behind its current one.

`JobsPlaced` (badges are checked at four points of a listener only) keeps both apart from the
checks, and `Aside` collects the steps that concern neither.

**Accounts_proofs**, for any addresses, numbers, devices and requests: `TypesHold`, by which a
referrer is older than whom it referred and chains of referrers end; `AccountsUnique`
(OneAccountEach), `HolderVerifies` (VerifiedByHolder), `SessionsAreVerified` (SessionsVerified),
`DevicesNoticed` (SharedDeviceNoticed). The invariant says of a request what it knows of its row
from the await it has reached (`Reached`): rows never lose their address nor its verification,
and steps only add (`Grows`), so what was read stays true while others act. `LinksOwned` says that a link, once
drawn, is only ever in the row of the address it is mailed to; without it a link might verify
another address.

**Sessions_proofs**, for any passwords, requests, links and versions: `TypeCorrect`,
`PasswordEndsSessions` (SessionsFollowPassword) and `LinksSpentOnce` (LinkSpent). The inductive
invariant says of each request in flight (`RequestSound`) that what it read is still true of the
row or is about a version the row no longer has; that is why a token it mints later is either
rejected or was obtained with the present password. A step that leaves the password alone keeps
every such record sound (`SoundKept`), a change of password makes each one old (`SoundAged`).

The same module proves of `Browser`, for any tabs, calls and requests: `NoTabExpiresAnother`
(NoFalseExpiry), `LogoutIsFinal` (LogoutLasts), `NoCallForgotten` (WaitingIsServed). `BInv` says of
an exchange under way (`Sound`) what token it presents: none if it was sent after the logout, a
valid one as long as nothing ended the session; and that a tab's promise is a refresh of its own,
still under way (`Promised`), which is what the calls that wait are woken by.

**Screens_proofs**, for any pages that are `WellFormed`, any rows, filters and number of calls in
flight:

* `ControlsComeBack` (BusyHasCause) and `NoRepeats` (RepeatsOnlyAfterOverlap) rest on `Held`: a
  handler that nothing overtook holds its flag alone, under its own tag and row; so its button
  is disabled, and a press on another row, which takes the flag over, marks it first.
* `RowsMatch` (ShownMatchesQuery) and `ChangesShown` (OwnChangesShown). `Current`: the rows
  displayed answer the filters displayed, or the last load that nothing overtook does. `Pending`: a
  change of the user will be displayed by the handler that made it, or by a load sent later than
  the one that lacks it and read after it. A new load establishes both for the whole page.
* `TypesHold`: a handler on a row is called with one.

`Follows` says where each call in flight was before a step, which has ended and which is new;
`SafeStays`, `CurrentStays` and `PendingStays` are proved once for any such step.

A press marks the calls of other rows and buttons only: were it to mark the calls of its own row
too, RepeatsOnlyAfterOverlap could not fail, and would say nothing of the buttons.

**Only model-checked:** the liveness properties (RecordedPayoutSettles, RecordedPaymentsSettle,
EventsHandled), which are beyond the proof system here.

## 6. Where code and documents differ, and what else the models show

Found while modelling. Properties state what the code does keep in each case.

* Two withdrawals of one user may be in progress at once (`wallet.service.ts:216-225` tests
  outside the transaction), against README.md:87 "empêche retraits multiples simultanés".
* A payout that failed may be refunded twice, by the webhook and by an admin or the cron, which
  test the status before their transactions (`payment-webhook.controller.ts:502`), against
  PRODUCTION-READY.md:199 "Prevented webhook double-refund". `ExactUnlessStale` says exactly when.
* The cron asks for `/transactions/{payoutId}` (`fedapay.provider.ts:172`) and so never learns what
  became of a payout: a withdrawal under way, or already sent, is taken for failed and refunded, or
  follows the state of another transaction. The "completed" that would settle it by its own payout
  does not occur with FedaPay. `disburse` sends no metadata, so payout events are ignored too
  (`payment-webhook.controller.ts:435, 491`).
* A status call that fails is taken for a failed payment (`fedapay.provider.ts:187-188`): an outage
  closes a paid collection as FAILED for good; `RecordedPaymentsSettle` names this exception.
* The webhook refuses as fraud a payment that is not of the exact amount
  (`payment-webhook.controller.ts:214-237, 349-372`, "Strict equality validation") and records a FAILED
  row of the refusal, while the PENDING row of the service stays. The cron compares no amounts
  (`payment-reconciliation.service.ts:105-123, 147-163`) and grants that very payment afterwards,
  against FINAL-REPORT.md:90 and PRODUCTION-READY.md:27, which tick "Reconciliation sans
  vérification montant" as corrected. The properties take no side: `EntitlementsPaid` counts such a
  payment as bought, and `RecordedPaymentsSettle` does not ask that a payment a webhook refused
  (`Refused`) be granted.
* A ban set while a webhook awaits the status call is overwritten by ACTIVATED
  (`payment-webhook.controller.ts:260`).
* A PREMIUM upgrade confirmed together with a VIP one may overwrite it
  (`payment-webhook.controller.ts:396`), against the comment at 321.
* Concurrent completions exceed the daily limit (`tasks.service.ts:186`), against
  `apps/api/test/integration/daily-limit.spec.ts:18`; `DailyOverrunBounded` says by how much.
* Several badges awarded at once exceed the daily cap (`gamification.service.ts:393`), against
  the comment at 171.
* The streak is written from a value read earlier: a write that straddles midnight may replace a
  longer streak by a shorter one. `StreakEarned` holds all the same.
* The referral badges count all referrals, activated or not.
* An older changePassword overwrites a reset made meanwhile; the sessions opened with the reset's
  password end with it.
* In the web client a wrong password is answered by 401, which `api` takes for an expired session:
  it refreshes, and without a session redirects instead of showing the error. The failure of the
  retry's network call redirects as well. An answer to a refresh or sign-in that was in flight at a
  sign-out, in any tab, brings the cookies back (`LogoutLasts` says that nothing else does). When the access cookie has
  expired a full load of a page goes to /login, although the refresh cookie is good.
  `refreshUser` signs the page out on any failure.
* In the task page the success of one completion closes the session that is open when it arrives,
  possibly another task's (`apps/web/src/app/dashboard/tasks/page.tsx:146`). In the wallet the answer
  to "more" is added to the list of the moment: after a reload meanwhile, the page after the one it
  was pressed at follows the first (`wallet/page.tsx:105-119`). The loading flag of
  the Google button is lowered on errors only. The layout mounts the bell twice, each with a stream
  of its own, on an address without the version prefix.
* The mobile client expects tokens in the answers, from which the API strips them, and calls
  `/wallet/overview`, which does not exist.

## 7. Not modelled

* Ads, analytics, audit log, feature flags, sanitizing, CSRF, the throttler: rows nothing else
  depends on, or stateless plumbing. The pages of ads are in Screens.
* The notification service: best effort, its failures are ignored by every caller; the number on
  the bell.
* In the web client, the exchange of a NextAuth session for cookies after a Google sign-in
  (`apps/web/src/lib/auth.tsx:97-112`): it ends like a sign-in, but its failure is ignored and the page
  is signed in without cookies, as a page is whose cookies another tab has cleared.
* The refresh of tokens in the mobile client, for the reason given in Section 6.
* The signature of webhooks, formats, wording, layout and the validation of forms; a form that
  does not validate makes no call.
* The 10-second transaction timeout, which is a failed call and so a fault; decimal cents (amounts
  are whole FCFA in every path modelled).
* Seeds, build files, tests and the texts of the public pages.

## 8. What could follow

1. A ledger of earnings and withdrawals that Withdrawals implements as long as no write is stale.
2. The bound on the daily cap of badges that Rewards exceeds by races, stated and proved like the
   daily limit of Tasks.
3. The window in which a webhook overwrites a ban, as a bound on who may be activated by it.
