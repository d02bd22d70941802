-------------------------- MODULE Withdrawals_proofs --------------------------
(***************************************************************************)
(* Theorems about Withdrawals, for every set of users, requests, handlers  *)
(* and runs.                                                               *)
(***************************************************************************)
EXTENDS Withdrawals, Sums

-----------------------------------------------------------------------------
(***************************************************************************)
(* Fees: the net amount is positive and at most the gross one.             *)
(***************************************************************************)
\* getWithdrawalFeePercent and Math.round never make a fee exceed the amount,
\* whatever the tier and the amount.
THEOREM FeeBounds ==
  ASSUME NEW amount \in Nat \ {0}, NEW tier
  PROVE  /\ Fee(amount, tier) \in 0..amount
         /\ NetAmount(amount, tier) \in 0..amount
<1>1. FeePercent(tier) \in {2, 5, 10}
  BY DEF FeePercent
<1>2. CASE FeePercent(tier) = 2
  BY <1>2 DEF Fee, NetAmount
<1>3. CASE FeePercent(tier) = 5
  BY <1>3 DEF Fee, NetAmount
<1>4. CASE FeePercent(tier) = 10
  BY <1>4 DEF Fee, NetAmount
<1> QED BY <1>1, <1>2, <1>3, <1>4
-----------------------------------------------------------------------------
(***************************************************************************)
(* The inductive invariant.  Besides the properties themselves it says     *)
(* what handlers and runs in flight may rely on: the withdrawal they hold  *)
(* was created, and the ledger row with it.                                *)
(***************************************************************************)
\* The withdrawal and its row appear together, when the request debits.
CreatedTogether ==
  \A r \in Request :
    /\ status[r] = "NONE" <=> pc[r] \in {"idle"} \cup BeforeDebit
    /\ status[r] = "NONE" <=> rowStatus[r] = "NONE"
    /\ payout[r] # "none" => status[r] # "NONE"

HandlersHoldCreated ==
  \A h \in Handler : handler[h].op # "idle" =>
    /\ handler[h].w \in Request
    /\ status[handler[h].w] # "NONE"
    /\ handler[h].op \in {"webhook"} \cup {"webhookRecorded", "completeCommit", "failCommit"}
         => (handler[h].event \in PayoutEvent)

RunsHoldCreated ==
  \A n \in Run :
    /\ \A w \in run[n].todo : status[w] # "NONE"
    /\ run[n].phase \in {"completed", "failed"} =>
         run[n].w \in Request /\ status[run[n].w] # "NONE"

Created == CreatedTogether /\ HandlersHoldCreated /\ RunsHoldCreated

IInv ==
  /\ TypeOK /\ Created /\ BalanceNeverNegative /\ RowFollowsWithdrawal /\ WebhookHandledOnce
  /\ NoLossToUser /\ ExactUnlessStale

\* Every step preserves the type invariant.
LEMMA TypeStep ==
  ASSUME TypeOK, Created, [Next]_<<mock, vars>>
  PROVE  TypeOK'
<1> USE RequestAssumption, AmountAssumption DEF TypeOK, Created, CreatedTogether, HandlersHoldCreated, RunsHoldCreated, InProgress, Terminal, PayoutEvent, BeforeDebit, AfterDebit, HandlerOp, wallets, ledger, request, Of
<1>0. mock' = mock
  BY DEF Next, vars
<1> USE <1>0
<1>1. ASSUME NEW u \in User, Earn(u) PROVE TypeOK'
  BY <1>1 DEF Earn
<1>2. ASSUME NEW r \in Request, LeaveWindow(r) PROVE TypeOK'
  BY <1>2 DEF LeaveWindow
<1>3. ASSUME NEW r \in Request, CheckPending(r) PROVE TypeOK'
  BY <1>3 DEF CheckPending, Goto
<1>4. ASSUME NEW r \in Request, CheckSolvency(r) PROVE TypeOK'
  <2>1. CASE Goto(r, "pendingChecked", "solvencyChecked") /\ UNCHANGED gross
    BY <1>4, <2>1 DEF CheckSolvency, Goto
  <2>2. CASE pc[r] = "pendingChecked" /\ Refuse(r)
    BY <1>4, <2>2 DEF CheckSolvency, Refuse
  <2> QED BY <1>4, <2>1, <2>2 DEF CheckSolvency
<1>5. ASSUME NEW r \in Request, CheckLimits(r) PROVE TypeOK'
  BY <1>5 DEF CheckLimits, Goto, Refuse
<1>6. ASSUME NEW r \in Request, Debit(r) PROVE TypeOK'
  <2>1. CASE balance[Owner[r]] < gross[r]
    BY <1>6, <2>1 DEF Debit, Refuse
  <2>2. CASE ~(balance[Owner[r]] < gross[r])
    <3>1. /\ pc' = [pc EXCEPT ![r] = "debited"]
          /\ balance' = [balance EXCEPT ![Owner[r]] = @ - gross[r]]
          /\ status' = [status EXCEPT ![r] = "PENDING"]
          /\ rowStatus' = [rowStatus EXCEPT ![r] = "PENDING"]
          /\ recent' = recent \cup {r}
          /\ UNCHANGED <<gross, totalEarned, payoutRef, seen, payout, handler, run, faults, stale>>
      BY <1>6, <2>2 DEF Debit, Goto
    <3>2. Owner[r] \in User /\ balance[Owner[r]] - gross[r] \in Int
      OBVIOUS
    <3> QED BY <3>1, <3>2
  <2> QED BY <2>1, <2>2
<1>7. ASSUME NEW r \in Request, CreatePayout(r) PROVE TypeOK'
  <2>1. PICK p \in {"none", "created"} : payout' = [payout EXCEPT ![r] = p]
    BY <1>7 DEF CreatePayout
  <2>2. PICK there \in {"payoutCreated", "done"} : pc' = [pc EXCEPT ![r] = there]
    BY <1>7 DEF CreatePayout, Goto
  <2> QED BY <1>7, <2>1, <2>2 DEF CreatePayout
<1>8. ASSUME NEW r \in Request, StartPayout(r) PROVE TypeOK'
  BY <1>8 DEF StartPayout, Goto
<1>9. ASSUME NEW r \in Request, MockDisburse(r) PROVE TypeOK'
  BY <1>9 DEF MockDisburse, Goto
<1>10. ASSUME NEW r \in Request, RecordPayoutRef(r) PROVE TypeOK'
  BY <1>10 DEF RecordPayoutRef, Goto
<1>11. ASSUME NEW r \in Request, MarkProcessing(r) PROVE TypeOK'
  BY <1>11 DEF MarkProcessing, Goto, MarkStale
<1>12. ASSUME NEW r \in Request, MarkCompleted(r) PROVE TypeOK'
  BY <1>12 DEF MarkCompleted, Goto, SettlePendingRow, MarkStale
<1>13. ASSUME NEW r \in Request, ProviderSettles(r) PROVE TypeOK'
  BY <1>13 DEF ProviderSettles
<1>14. ASSUME NEW r \in Request, RequestFault(r) PROVE TypeOK'
  BY <1>14 DEF RequestFault, Fault, AfterFault
<1>15. ASSUME NEW h \in Handler, NEW w \in Request, ReadPendingWithdrawal(h, w) PROVE TypeOK'
  BY <1>15 DEF ReadPendingWithdrawal, Idle
<1>16. ASSUME NEW h \in Handler, NEW w \in Request, LookUpWebhook(h, w) PROVE TypeOK'
  BY <1>16 DEF LookUpWebhook, Idle, Emitted
<1>17. ASSUME NEW h \in Handler, FindPendingRow(h) PROVE TypeOK'
  <2>1. CASE Become(h, "approveCommit")
    BY <1>17, <2>1 DEF FindPendingRow, Become
  <2>2. CASE Finish(h)
    BY <1>17, <2>2 DEF FindPendingRow, Finish, Idle
  <2> QED BY <1>17, <2>1, <2>2 DEF FindPendingRow
<1>18. ASSUME NEW h \in Handler, CommitApprove(h) PROVE TypeOK'
  BY <1>18 DEF CommitApprove, SettlePendingRow, MarkStale, Finish, Idle
<1>19. ASSUME NEW h \in Handler, CommitReject(h) PROVE TypeOK'
  BY <1>19 DEF CommitReject, SettlePendingRow, RefundGross, MarkStale, Finish, Idle
<1>20. ASSUME NEW h \in Handler, RecordWebhook(h) PROVE TypeOK'
  <2>1. <<handler[h].event, handler[h].w>> \in PayoutEvent \X Request
    BY <1>20 DEF RecordWebhook
  <2>2. seen' \subseteq PayoutEvent \X Request
    BY <1>20, <2>1 DEF RecordWebhook
  <2>3. CASE Become(h, "webhookRecorded")
    BY <1>20, <2>2, <2>3 DEF RecordWebhook, Become
  <2>4. CASE Finish(h)
    BY <1>20, <2>2, <2>4 DEF RecordWebhook, Finish, Idle
  <2> QED BY <1>20, <2>3, <2>4 DEF RecordWebhook
<1>21. ASSUME NEW h \in Handler, ReadForWebhook(h) PROVE TypeOK'
  <2>1. CASE Become(h, "completeCommit")
    BY <1>21, <2>1 DEF ReadForWebhook, Become
  <2>2. CASE Become(h, "failCommit")
    BY <1>21, <2>2 DEF ReadForWebhook, Become
  <2>3. CASE Finish(h)
    BY <1>21, <2>3 DEF ReadForWebhook, Finish, Idle
  <2> QED BY <1>21, <2>1, <2>2, <2>3 DEF ReadForWebhook
<1>22. ASSUME NEW h \in Handler, CommitPayoutCompleted(h) PROVE TypeOK'
  BY <1>22 DEF CommitPayoutCompleted, SettlePendingRow, MarkStale, Finish, Idle
<1>23. ASSUME NEW h \in Handler, CommitPayoutFailed(h) PROVE TypeOK'
  BY <1>23 DEF CommitPayoutFailed, SettlePendingRow, RefundGross, MarkStale, Finish, Idle
<1>24. ASSUME NEW h \in Handler, HandlerFault(h) PROVE TypeOK'
  BY <1>24 DEF HandlerFault, Fault, Finish, Idle
<1>25. ASSUME NEW n \in Run, StartRun(n) PROVE TypeOK'
  BY <1>25 DEF StartRun, InProgressNow, NoRun
<1>26. ASSUME NEW n \in Run, NEW w \in Request, AskStatus(n, w) PROVE TypeOK'
  <2>1. PICK phase \in {"loop", "completed", "failed"} : Advance(n, w, phase)
    BY <1>26, NumberAssumption DEF AskStatus, Answers
  <2>2. CASE phase = "loop" /\ run[n].todo = {w}
    BY <1>26, <2>1, <2>2 DEF AskStatus, Advance, NoRun
  <2>3. CASE ~(phase = "loop" /\ run[n].todo = {w})
    <3>1. run' = [run EXCEPT ![n] = [phase |-> phase, todo |-> run[n].todo \ {w},
                                     w |-> IF phase = "loop" THEN NoRequest ELSE w]]
      BY <2>1, <2>3 DEF Advance
    <3> QED BY <1>26, <3>1 DEF AskStatus
  <2> QED BY <2>2, <2>3
<1>27. ASSUME NEW n \in Run, CommitRunCompleted(n) PROVE TypeOK'
  <2>1. run[n].w \in Request
    BY <1>27 DEF CommitRunCompleted
  <2>2. run' \in [Run -> [phase : {"idle", "loop", "completed", "failed"},
                         todo : SUBSET Request, w : Request \cup {NoRequest}]]
    <3>1. CASE run[n].todo = {}
      BY <1>27, <3>1 DEF CommitRunCompleted, NextInRun, NoRun
    <3>2. CASE run[n].todo # {}
      <4>1. run' = [run EXCEPT ![n] = [phase |-> "loop", todo |-> run[n].todo, w |-> NoRequest]]
        BY <1>27, <3>2 DEF CommitRunCompleted, NextInRun
      <4> QED BY <4>1
    <3> QED BY <3>1, <3>2
  <2> QED BY <1>27, <2>1, <2>2 DEF CommitRunCompleted, SettleAnyRow, MarkStale
<1>28. ASSUME NEW n \in Run, CommitRunFailed(n) PROVE TypeOK'
  <2>1. run[n].w \in Request
    BY <1>28 DEF CommitRunFailed
  <2>2. run' \in [Run -> [phase : {"idle", "loop", "completed", "failed"},
                         todo : SUBSET Request, w : Request \cup {NoRequest}]]
    <3>1. CASE run[n].todo = {}
      BY <1>28, <3>1 DEF CommitRunFailed, NextInRun, NoRun
    <3>2. CASE run[n].todo # {}
      <4>1. run' = [run EXCEPT ![n] = [phase |-> "loop", todo |-> run[n].todo, w |-> NoRequest]]
        BY <1>28, <3>2 DEF CommitRunFailed, NextInRun
      <4> QED BY <4>1
    <3> QED BY <3>1, <3>2
  <2> QED BY <1>28, <2>1, <2>2 DEF CommitRunFailed, SettleAnyRow, MarkStale, RefundGross
<1>29. ASSUME NEW n \in Run, RunFault(n) PROVE TypeOK'
  BY <1>29 DEF RunFault, Fault, NoRun
<1>30. ASSUME Crash PROVE TypeOK'
  BY <1>30 DEF Crash, Fault, AfterFault, Idle, NoRun
<1>31. CASE UNCHANGED <<mock, vars>>
  BY <1>31 DEF vars
<1> QED
  BY <1>1, <1>2, <1>3, <1>4, <1>5, <1>6, <1>7, <1>8, <1>9, <1>10, <1>11, <1>12, <1>13, <1>14, <1>15, <1>16, <1>17, <1>18, <1>19, <1>20, <1>21, <1>22, <1>23, <1>24, <1>25, <1>26, <1>27, <1>28, <1>29, <1>30, <1>31 DEF Next, Step, RequestStep, HandlerStep, RunStep

\* Handlers and runs keep holding withdrawals that exist.
LEMMA CreatedStep ==
  ASSUME TypeOK, Created, [Next]_<<mock, vars>>
  PROVE  Created'
<1> USE RequestAssumption, AmountAssumption DEF TypeOK, Created, CreatedTogether, HandlersHoldCreated, RunsHoldCreated, InProgress, Terminal, PayoutEvent, BeforeDebit, AfterDebit, HandlerOp, wallets, ledger, request, Of
<1>1. ASSUME NEW u \in User, Earn(u) PROVE Created'
  BY <1>1 DEF Earn
<1>2. ASSUME NEW r \in Request, LeaveWindow(r) PROVE Created'
  BY <1>2 DEF LeaveWindow
<1>3. ASSUME NEW r \in Request, CheckPending(r) PROVE Created'
  BY <1>3 DEF CheckPending, Goto
<1>4. ASSUME NEW r \in Request, CheckSolvency(r) PROVE Created'
  BY <1>4 DEF CheckSolvency, Goto, Refuse
<1>5. ASSUME NEW r \in Request, CheckLimits(r) PROVE Created'
  BY <1>5 DEF CheckLimits, Goto, Refuse
<1>6. ASSUME NEW r \in Request, Debit(r) PROVE Created'
  BY <1>6 DEF Debit, Goto, Refuse
<1>7. ASSUME NEW r \in Request, CreatePayout(r) PROVE Created'
  BY <1>7 DEF CreatePayout, Goto
<1>8. ASSUME NEW r \in Request, StartPayout(r) PROVE Created'
  BY <1>8 DEF StartPayout, Goto
<1>9. ASSUME NEW r \in Request, MockDisburse(r) PROVE Created'
  BY <1>9 DEF MockDisburse, Goto
<1>10. ASSUME NEW r \in Request, RecordPayoutRef(r) PROVE Created'
  BY <1>10 DEF RecordPayoutRef, Goto
<1>11. ASSUME NEW r \in Request, MarkProcessing(r) PROVE Created'
  BY <1>11 DEF MarkProcessing, Goto, MarkStale
<1>12. ASSUME NEW r \in Request, MarkCompleted(r) PROVE Created'
  BY <1>12 DEF MarkCompleted, Goto, SettlePendingRow, MarkStale
<1>13. ASSUME NEW r \in Request, ProviderSettles(r) PROVE Created'
  BY <1>13 DEF ProviderSettles
<1>14. ASSUME NEW r \in Request, RequestFault(r) PROVE Created'
  BY <1>14 DEF RequestFault, Fault, AfterFault
<1>15. ASSUME NEW h \in Handler, NEW w \in Request, ReadPendingWithdrawal(h, w) PROVE Created'
  BY <1>15 DEF ReadPendingWithdrawal, Idle
<1>16. ASSUME NEW h \in Handler, NEW w \in Request, LookUpWebhook(h, w) PROVE Created'
  BY <1>16 DEF LookUpWebhook, Idle, Emitted
<1>17. ASSUME NEW h \in Handler, FindPendingRow(h) PROVE Created'
  <2>1. CASE Become(h, "approveCommit")
    BY <1>17, <2>1 DEF FindPendingRow, Become
  <2>2. CASE Finish(h)
    BY <1>17, <2>2 DEF FindPendingRow, Finish, Idle
  <2> QED BY <1>17, <2>1, <2>2 DEF FindPendingRow
<1>18. ASSUME NEW h \in Handler, CommitApprove(h) PROVE Created'
  BY <1>18 DEF CommitApprove, SettlePendingRow, MarkStale, Finish, Idle
<1>19. ASSUME NEW h \in Handler, CommitReject(h) PROVE Created'
  BY <1>19 DEF CommitReject, SettlePendingRow, RefundGross, MarkStale, Finish, Idle
<1>20. ASSUME NEW h \in Handler, RecordWebhook(h) PROVE Created'
  BY <1>20 DEF RecordWebhook, Become, Finish, Idle
<1>21. ASSUME NEW h \in Handler, ReadForWebhook(h) PROVE Created'
  BY <1>21 DEF ReadForWebhook, Become, Finish, Idle
<1>22. ASSUME NEW h \in Handler, CommitPayoutCompleted(h) PROVE Created'
  BY <1>22 DEF CommitPayoutCompleted, SettlePendingRow, MarkStale, Finish, Idle
<1>23. ASSUME NEW h \in Handler, CommitPayoutFailed(h) PROVE Created'
  BY <1>23 DEF CommitPayoutFailed, SettlePendingRow, RefundGross, MarkStale, Finish, Idle
<1>24. ASSUME NEW h \in Handler, HandlerFault(h) PROVE Created'
  BY <1>24 DEF HandlerFault, Fault, Finish, Idle
<1>25. ASSUME NEW n \in Run, StartRun(n) PROVE Created'
  BY <1>25 DEF StartRun, InProgressNow, NoRun
<1>26. ASSUME NEW n \in Run, NEW w \in Request, AskStatus(n, w) PROVE Created'
  <2>1. PICK phase \in {"loop", "completed", "failed"} : Advance(n, w, phase)
    BY <1>26, NumberAssumption DEF AskStatus, Answers
  <2> QED BY <1>26, <2>1 DEF AskStatus, Advance, NoRun
<1>27. ASSUME NEW n \in Run, CommitRunCompleted(n) PROVE Created'
  BY <1>27 DEF CommitRunCompleted, SettleAnyRow, MarkStale, NextInRun, NoRun
<1>28. ASSUME NEW n \in Run, CommitRunFailed(n) PROVE Created'
  BY <1>28 DEF CommitRunFailed, SettleAnyRow, MarkStale, RefundGross, NextInRun, NoRun
<1>29. ASSUME NEW n \in Run, RunFault(n) PROVE Created'
  BY <1>29 DEF RunFault, Fault, NoRun
<1>30. ASSUME Crash PROVE Created'
  BY <1>30 DEF Crash, Fault, AfterFault, Idle, NoRun
<1>31. CASE UNCHANGED <<mock, vars>>
  BY <1>31 DEF vars
<1> QED
  BY <1>1, <1>2, <1>3, <1>4, <1>5, <1>6, <1>7, <1>8, <1>9, <1>10, <1>11, <1>12, <1>13, <1>14, <1>15, <1>16, <1>17, <1>18, <1>19, <1>20, <1>21, <1>22, <1>23, <1>24, <1>25, <1>26, <1>27, <1>28, <1>29, <1>30, <1>31 DEF Next, Step, RequestStep, HandlerStep, RunStep

\* No step overdraws a wallet.
LEMMA BalanceStep ==
  ASSUME TypeOK, Created, BalanceNeverNegative, [Next]_<<mock, vars>>
  PROVE  BalanceNeverNegative'
<1> USE RequestAssumption, AmountAssumption DEF TypeOK, Created, HandlersHoldCreated, RunsHoldCreated, BalanceNeverNegative, wallets, ledger, request, Of
<1>1. ASSUME NEW u \in User, Earn(u) PROVE BalanceNeverNegative'
  BY <1>1 DEF Earn
<1>2. ASSUME NEW r \in Request, LeaveWindow(r) PROVE BalanceNeverNegative'
  BY <1>2 DEF LeaveWindow
<1>3. ASSUME NEW r \in Request, CheckPending(r) PROVE BalanceNeverNegative'
  BY <1>3 DEF CheckPending, Goto
<1>4. ASSUME NEW r \in Request, CheckSolvency(r) PROVE BalanceNeverNegative'
  BY <1>4 DEF CheckSolvency, Goto, Refuse
<1>5. ASSUME NEW r \in Request, CheckLimits(r) PROVE BalanceNeverNegative'
  BY <1>5 DEF CheckLimits, Goto, Refuse
<1>6. ASSUME NEW r \in Request, Debit(r) PROVE BalanceNeverNegative'
  BY <1>6 DEF Debit, Goto, Refuse
<1>7. ASSUME NEW r \in Request, CreatePayout(r) PROVE BalanceNeverNegative'
  BY <1>7 DEF CreatePayout, Goto
<1>8. ASSUME NEW r \in Request, StartPayout(r) PROVE BalanceNeverNegative'
  BY <1>8 DEF StartPayout, Goto
<1>9. ASSUME NEW r \in Request, MockDisburse(r) PROVE BalanceNeverNegative'
  BY <1>9 DEF MockDisburse, Goto
<1>10. ASSUME NEW r \in Request, RecordPayoutRef(r) PROVE BalanceNeverNegative'
  BY <1>10 DEF RecordPayoutRef, Goto
<1>11. ASSUME NEW r \in Request, MarkProcessing(r) PROVE BalanceNeverNegative'
  BY <1>11 DEF MarkProcessing, Goto, MarkStale
<1>12. ASSUME NEW r \in Request, MarkCompleted(r) PROVE BalanceNeverNegative'
  BY <1>12 DEF MarkCompleted, Goto, SettlePendingRow, MarkStale
<1>13. ASSUME NEW r \in Request, ProviderSettles(r) PROVE BalanceNeverNegative'
  BY <1>13 DEF ProviderSettles
<1>14. ASSUME NEW r \in Request, RequestFault(r) PROVE BalanceNeverNegative'
  BY <1>14 DEF RequestFault, Fault, AfterFault
<1>15. ASSUME NEW h \in Handler, NEW w \in Request, ReadPendingWithdrawal(h, w) PROVE BalanceNeverNegative'
  BY <1>15 DEF ReadPendingWithdrawal, Idle
<1>16. ASSUME NEW h \in Handler, NEW w \in Request, LookUpWebhook(h, w) PROVE BalanceNeverNegative'
  BY <1>16 DEF LookUpWebhook, Idle, Emitted
<1>17. ASSUME NEW h \in Handler, FindPendingRow(h) PROVE BalanceNeverNegative'
  BY <1>17 DEF FindPendingRow, Become, Finish, Idle
<1>18. ASSUME NEW h \in Handler, CommitApprove(h) PROVE BalanceNeverNegative'
  BY <1>18 DEF CommitApprove, SettlePendingRow, MarkStale, Finish, Idle
<1>19. ASSUME NEW h \in Handler, CommitReject(h) PROVE BalanceNeverNegative'
  BY <1>19 DEF CommitReject, SettlePendingRow, RefundGross, MarkStale, Finish, Idle
<1>20. ASSUME NEW h \in Handler, RecordWebhook(h) PROVE BalanceNeverNegative'
  BY <1>20 DEF RecordWebhook, Become, Finish, Idle
<1>21. ASSUME NEW h \in Handler, ReadForWebhook(h) PROVE BalanceNeverNegative'
  BY <1>21 DEF ReadForWebhook, Become, Finish, Idle
<1>22. ASSUME NEW h \in Handler, CommitPayoutCompleted(h) PROVE BalanceNeverNegative'
  BY <1>22 DEF CommitPayoutCompleted, SettlePendingRow, MarkStale, Finish, Idle
<1>23. ASSUME NEW h \in Handler, CommitPayoutFailed(h) PROVE BalanceNeverNegative'
  BY <1>23 DEF CommitPayoutFailed, SettlePendingRow, RefundGross, MarkStale, Finish, Idle
<1>24. ASSUME NEW h \in Handler, HandlerFault(h) PROVE BalanceNeverNegative'
  BY <1>24 DEF HandlerFault, Fault, Finish, Idle
<1>25. ASSUME NEW n \in Run, StartRun(n) PROVE BalanceNeverNegative'
  BY <1>25 DEF StartRun, InProgressNow, NoRun
<1>26. ASSUME NEW n \in Run, NEW w \in Request, AskStatus(n, w) PROVE BalanceNeverNegative'
  BY <1>26 DEF AskStatus, Advance, NoRun
<1>27. ASSUME NEW n \in Run, CommitRunCompleted(n) PROVE BalanceNeverNegative'
  BY <1>27 DEF CommitRunCompleted, SettleAnyRow, MarkStale, NextInRun, NoRun
<1>28. ASSUME NEW n \in Run, CommitRunFailed(n) PROVE BalanceNeverNegative'
  BY <1>28 DEF CommitRunFailed, SettleAnyRow, MarkStale, RefundGross, NextInRun, NoRun
<1>29. ASSUME NEW n \in Run, RunFault(n) PROVE BalanceNeverNegative'
  BY <1>29 DEF RunFault, Fault, NoRun
<1>30. ASSUME Crash PROVE BalanceNeverNegative'
  BY <1>30 DEF Crash, Fault, AfterFault, Idle, NoRun
<1>31. CASE UNCHANGED <<mock, vars>>
  BY <1>31 DEF vars
<1> QED
  BY <1>1, <1>2, <1>3, <1>4, <1>5, <1>6, <1>7, <1>8, <1>9, <1>10, <1>11, <1>12, <1>13, <1>14, <1>15, <1>16, <1>17, <1>18, <1>19, <1>20, <1>21, <1>22, <1>23, <1>24, <1>25, <1>26, <1>27, <1>28, <1>29, <1>30, <1>31 DEF Next, Step, RequestStep, HandlerStep, RunStep

\* Every step keeps the ledger row with its withdrawal.
LEMMA RowStep ==
  ASSUME TypeOK, Created, RowFollowsWithdrawal, [Next]_<<mock, vars>>
  PROVE  RowFollowsWithdrawal'
<1> USE RequestAssumption, AmountAssumption DEF TypeOK, Created, CreatedTogether, HandlersHoldCreated, RunsHoldCreated, RowFollowsWithdrawal, RowStory, InProgress, Terminal, BeforeDebit, wallets, ledger, request, Of
<1>1. ASSUME NEW u \in User, Earn(u) PROVE RowFollowsWithdrawal'
  BY <1>1 DEF Earn
<1>2. ASSUME NEW r \in Request, LeaveWindow(r) PROVE RowFollowsWithdrawal'
  BY <1>2 DEF LeaveWindow
<1>3. ASSUME NEW r \in Request, CheckPending(r) PROVE RowFollowsWithdrawal'
  BY <1>3 DEF CheckPending, Goto
<1>4. ASSUME NEW r \in Request, CheckSolvency(r) PROVE RowFollowsWithdrawal'
  BY <1>4 DEF CheckSolvency, Goto, Refuse
<1>5. ASSUME NEW r \in Request, CheckLimits(r) PROVE RowFollowsWithdrawal'
  BY <1>5 DEF CheckLimits, Goto, Refuse
<1>6. ASSUME NEW r \in Request, Debit(r) PROVE RowFollowsWithdrawal'
  BY <1>6 DEF Debit, Goto, Refuse
<1>7. ASSUME NEW r \in Request, CreatePayout(r) PROVE RowFollowsWithdrawal'
  BY <1>7 DEF CreatePayout, Goto
<1>8. ASSUME NEW r \in Request, StartPayout(r) PROVE RowFollowsWithdrawal'
  BY <1>8 DEF StartPayout, Goto
<1>9. ASSUME NEW r \in Request, MockDisburse(r) PROVE RowFollowsWithdrawal'
  BY <1>9 DEF MockDisburse, Goto
<1>10. ASSUME NEW r \in Request, RecordPayoutRef(r) PROVE RowFollowsWithdrawal'
  BY <1>10 DEF RecordPayoutRef, Goto
<1>11. ASSUME NEW r \in Request, MarkProcessing(r) PROVE RowFollowsWithdrawal'
  BY <1>11 DEF MarkProcessing, Goto, MarkStale
<1>12. ASSUME NEW r \in Request, MarkCompleted(r) PROVE RowFollowsWithdrawal'
  BY <1>12 DEF MarkCompleted, Goto, SettlePendingRow, MarkStale
<1>13. ASSUME NEW r \in Request, ProviderSettles(r) PROVE RowFollowsWithdrawal'
  BY <1>13 DEF ProviderSettles
<1>14. ASSUME NEW r \in Request, RequestFault(r) PROVE RowFollowsWithdrawal'
  BY <1>14 DEF RequestFault, Fault, AfterFault
<1>15. ASSUME NEW h \in Handler, NEW w \in Request, ReadPendingWithdrawal(h, w) PROVE RowFollowsWithdrawal'
  BY <1>15 DEF ReadPendingWithdrawal, Idle
<1>16. ASSUME NEW h \in Handler, NEW w \in Request, LookUpWebhook(h, w) PROVE RowFollowsWithdrawal'
  BY <1>16 DEF LookUpWebhook, Idle, Emitted
<1>17. ASSUME NEW h \in Handler, FindPendingRow(h) PROVE RowFollowsWithdrawal'
  BY <1>17 DEF FindPendingRow, Become, Finish, Idle
<1>18. ASSUME NEW h \in Handler, CommitApprove(h) PROVE RowFollowsWithdrawal'
  BY <1>18 DEF CommitApprove, SettlePendingRow, MarkStale, Finish, Idle
<1>19. ASSUME NEW h \in Handler, CommitReject(h) PROVE RowFollowsWithdrawal'
  BY <1>19 DEF CommitReject, SettlePendingRow, RefundGross, MarkStale, Finish, Idle
<1>20. ASSUME NEW h \in Handler, RecordWebhook(h) PROVE RowFollowsWithdrawal'
  BY <1>20 DEF RecordWebhook, Become, Finish, Idle
<1>21. ASSUME NEW h \in Handler, ReadForWebhook(h) PROVE RowFollowsWithdrawal'
  BY <1>21 DEF ReadForWebhook, Become, Finish, Idle
<1>22. ASSUME NEW h \in Handler, CommitPayoutCompleted(h) PROVE RowFollowsWithdrawal'
  BY <1>22 DEF CommitPayoutCompleted, SettlePendingRow, MarkStale, Finish, Idle
<1>23. ASSUME NEW h \in Handler, CommitPayoutFailed(h) PROVE RowFollowsWithdrawal'
  BY <1>23 DEF CommitPayoutFailed, SettlePendingRow, RefundGross, MarkStale, Finish, Idle
<1>24. ASSUME NEW h \in Handler, HandlerFault(h) PROVE RowFollowsWithdrawal'
  BY <1>24 DEF HandlerFault, Fault, Finish, Idle
<1>25. ASSUME NEW n \in Run, StartRun(n) PROVE RowFollowsWithdrawal'
  BY <1>25 DEF StartRun, InProgressNow, NoRun
<1>26. ASSUME NEW n \in Run, NEW w \in Request, AskStatus(n, w) PROVE RowFollowsWithdrawal'
  BY <1>26 DEF AskStatus, Advance, NoRun
<1>27. ASSUME NEW n \in Run, CommitRunCompleted(n) PROVE RowFollowsWithdrawal'
  BY <1>27 DEF CommitRunCompleted, SettleAnyRow, MarkStale, NextInRun, NoRun
<1>28. ASSUME NEW n \in Run, CommitRunFailed(n) PROVE RowFollowsWithdrawal'
  BY <1>28 DEF CommitRunFailed, SettleAnyRow, MarkStale, RefundGross, NextInRun, NoRun
<1>29. ASSUME NEW n \in Run, RunFault(n) PROVE RowFollowsWithdrawal'
  BY <1>29 DEF RunFault, Fault, NoRun
<1>30. ASSUME Crash PROVE RowFollowsWithdrawal'
  BY <1>30 DEF Crash, Fault, AfterFault, Idle, NoRun
<1>31. CASE UNCHANGED <<mock, vars>>
  BY <1>31 DEF vars
<1> QED
  BY <1>1, <1>2, <1>3, <1>4, <1>5, <1>6, <1>7, <1>8, <1>9, <1>10, <1>11, <1>12, <1>13, <1>14, <1>15, <1>16, <1>17, <1>18, <1>19, <1>20, <1>21, <1>22, <1>23, <1>24, <1>25, <1>26, <1>27, <1>28, <1>29, <1>30, <1>31 DEF Next, Step, RequestStep, HandlerStep, RunStep

\* No step gives an event to a second handler.
LEMMA OnceStep ==
  ASSUME TypeOK, Created, WebhookHandledOnce, [Next]_<<mock, vars>>
  PROVE  WebhookHandledOnce'
<1> USE RequestAssumption, AmountAssumption DEF TypeOK, WebhookHandledOnce, Handling, EventKey, wallets, ledger, request, Of
<1>1. ASSUME NEW u \in User, Earn(u) PROVE WebhookHandledOnce'
  BY <1>1 DEF Earn
<1>2. ASSUME NEW r \in Request, LeaveWindow(r) PROVE WebhookHandledOnce'
  BY <1>2 DEF LeaveWindow
<1>3. ASSUME NEW r \in Request, CheckPending(r) PROVE WebhookHandledOnce'
  BY <1>3 DEF CheckPending, Goto
<1>4. ASSUME NEW r \in Request, CheckSolvency(r) PROVE WebhookHandledOnce'
  BY <1>4 DEF CheckSolvency, Goto, Refuse
<1>5. ASSUME NEW r \in Request, CheckLimits(r) PROVE WebhookHandledOnce'
  BY <1>5 DEF CheckLimits, Goto, Refuse
<1>6. ASSUME NEW r \in Request, Debit(r) PROVE WebhookHandledOnce'
  BY <1>6 DEF Debit, Goto, Refuse
<1>7. ASSUME NEW r \in Request, CreatePayout(r) PROVE WebhookHandledOnce'
  BY <1>7 DEF CreatePayout, Goto
<1>8. ASSUME NEW r \in Request, StartPayout(r) PROVE WebhookHandledOnce'
  BY <1>8 DEF StartPayout, Goto
<1>9. ASSUME NEW r \in Request, MockDisburse(r) PROVE WebhookHandledOnce'
  BY <1>9 DEF MockDisburse, Goto
<1>10. ASSUME NEW r \in Request, RecordPayoutRef(r) PROVE WebhookHandledOnce'
  BY <1>10 DEF RecordPayoutRef, Goto
<1>11. ASSUME NEW r \in Request, MarkProcessing(r) PROVE WebhookHandledOnce'
  BY <1>11 DEF MarkProcessing, Goto, MarkStale
<1>12. ASSUME NEW r \in Request, MarkCompleted(r) PROVE WebhookHandledOnce'
  BY <1>12 DEF MarkCompleted, Goto, SettlePendingRow, MarkStale
<1>13. ASSUME NEW r \in Request, ProviderSettles(r) PROVE WebhookHandledOnce'
  BY <1>13 DEF ProviderSettles
<1>14. ASSUME NEW r \in Request, RequestFault(r) PROVE WebhookHandledOnce'
  BY <1>14 DEF RequestFault, Fault, AfterFault
<1>15. ASSUME NEW h \in Handler, NEW w \in Request, ReadPendingWithdrawal(h, w) PROVE WebhookHandledOnce'
  BY <1>15 DEF ReadPendingWithdrawal, Idle
<1>16. ASSUME NEW h \in Handler, NEW w \in Request, LookUpWebhook(h, w) PROVE WebhookHandledOnce'
  BY <1>16 DEF LookUpWebhook, Idle, Emitted
<1>17. ASSUME NEW h \in Handler, FindPendingRow(h) PROVE WebhookHandledOnce'
  <2>1. CASE Become(h, "approveCommit")
    BY <1>17, <2>1 DEF FindPendingRow, Become
  <2>2. CASE Finish(h)
    BY <1>17, <2>2 DEF FindPendingRow, Finish, Idle
  <2> QED BY <1>17, <2>1, <2>2 DEF FindPendingRow
<1>18. ASSUME NEW h \in Handler, CommitApprove(h) PROVE WebhookHandledOnce'
  BY <1>18 DEF CommitApprove, SettlePendingRow, MarkStale, Finish, Idle
<1>19. ASSUME NEW h \in Handler, CommitReject(h) PROVE WebhookHandledOnce'
  BY <1>19 DEF CommitReject, SettlePendingRow, RefundGross, MarkStale, Finish, Idle
<1>20. ASSUME NEW h \in Handler, RecordWebhook(h) PROVE WebhookHandledOnce'
  <2>1. CASE EventKey(h) \in seen
    <3>1. handler' = [handler EXCEPT ![h] = Idle] /\ seen' = seen
      <4>1. Finish(h) /\ seen' = seen \cup {EventKey(h)}
        BY ONLY <1>20, <2>1 DEF RecordWebhook, EventKey
      <4> QED BY ONLY <4>1, <2>1 DEF Finish
    <3>2. \A g \in Handler : Handling(g)' => Handling(g) /\ EventKey(g)' = EventKey(g)
      BY <3>1 DEF Idle
    <3> QED BY <3>1, <3>2
  <2>2. CASE EventKey(h) \notin seen
    <3>1. Become(h, "webhookRecorded") /\ seen' = seen \cup {EventKey(h)}
      BY ONLY <1>20, <2>2 DEF RecordWebhook, EventKey
    <3>2. \A g \in Handler : EventKey(g)' = EventKey(g)
      BY <3>1 DEF Become
    <3>3. \A g \in Handler \ {h} : Handling(g)' => Handling(g) /\ EventKey(g) # EventKey(h)
      BY <3>1, <2>2 DEF Become
    <3> QED BY <3>1, <3>2, <3>3
  <2> QED BY <2>1, <2>2
<1>21. ASSUME NEW h \in Handler, ReadForWebhook(h) PROVE WebhookHandledOnce'
  <2>1. /\ handler[h].op = "webhookRecorded"
        /\ \/ Finish(h)
           \/ \E op \in {"failCommit", "completeCommit"} : Become(h, op)
        /\ seen' = seen
    BY ONLY <1>21 DEF ReadForWebhook
  <2>2. CASE Finish(h)
    BY <2>1, <2>2 DEF Finish, Idle
  <2>3. ASSUME NEW op \in {"failCommit", "completeCommit"}, Become(h, op) PROVE WebhookHandledOnce'
    BY <2>1, <2>3 DEF Become
  <2> QED BY <2>1, <2>2, <2>3
<1>22. ASSUME NEW h \in Handler, CommitPayoutCompleted(h) PROVE WebhookHandledOnce'
  BY <1>22 DEF CommitPayoutCompleted, SettlePendingRow, MarkStale, Finish, Idle
<1>23. ASSUME NEW h \in Handler, CommitPayoutFailed(h) PROVE WebhookHandledOnce'
  BY <1>23 DEF CommitPayoutFailed, SettlePendingRow, RefundGross, MarkStale, Finish, Idle
<1>24. ASSUME NEW h \in Handler, HandlerFault(h) PROVE WebhookHandledOnce'
  BY <1>24 DEF HandlerFault, Fault, Finish, Idle
<1>25. ASSUME NEW n \in Run, StartRun(n) PROVE WebhookHandledOnce'
  BY <1>25 DEF StartRun, InProgressNow, NoRun
<1>26. ASSUME NEW n \in Run, NEW w \in Request, AskStatus(n, w) PROVE WebhookHandledOnce'
  BY <1>26 DEF AskStatus, Advance, NoRun
<1>27. ASSUME NEW n \in Run, CommitRunCompleted(n) PROVE WebhookHandledOnce'
  BY <1>27 DEF CommitRunCompleted, SettleAnyRow, MarkStale, NextInRun, NoRun
<1>28. ASSUME NEW n \in Run, CommitRunFailed(n) PROVE WebhookHandledOnce'
  BY <1>28 DEF CommitRunFailed, SettleAnyRow, MarkStale, RefundGross, NextInRun, NoRun
<1>29. ASSUME NEW n \in Run, RunFault(n) PROVE WebhookHandledOnce'
  BY <1>29 DEF RunFault, Fault, NoRun
<1>30. ASSUME Crash PROVE WebhookHandledOnce'
  BY <1>30 DEF Crash, Fault, AfterFault, Idle, NoRun
<1>31. CASE UNCHANGED <<mock, vars>>
  BY <1>31 DEF vars
<1> QED
  BY <1>1, <1>2, <1>3, <1>4, <1>5, <1>6, <1>7, <1>8, <1>9, <1>10, <1>11, <1>12, <1>13, <1>14, <1>15, <1>16, <1>17, <1>18, <1>19, <1>20, <1>21, <1>22, <1>23, <1>24, <1>25, <1>26, <1>27, <1>28, <1>29, <1>30, <1>31 DEF Next, Step, RequestStep, HandlerStep, RunStep

\* Only the reconciliation cron's transactions touch a settled row.
RowsKept ==
  \A w \in Request :
    rowStatus[w] \in Terminal /\ rowStatus'[w] # rowStatus[w]
      => \E n \in Run : run[n].phase \in {"completed", "failed"} /\ run[n].w = w

LEMMA RewriteStep ==
  ASSUME TypeOK, Created, [Next]_<<mock, vars>>
  PROVE  RowsKept
<1> USE DEF TypeOK, Created, CreatedTogether, RowsKept, Terminal, BeforeDebit, wallets, ledger, request
<1>1. ASSUME NEW u \in User, Earn(u) PROVE RowsKept
  BY <1>1 DEF Earn
<1>2. ASSUME NEW r \in Request, LeaveWindow(r) PROVE RowsKept
  BY <1>2 DEF LeaveWindow
<1>3. ASSUME NEW r \in Request, CheckPending(r) PROVE RowsKept
  BY <1>3 DEF CheckPending, Goto
<1>4. ASSUME NEW r \in Request, CheckSolvency(r) PROVE RowsKept
  BY <1>4 DEF CheckSolvency, Goto, Refuse
<1>5. ASSUME NEW r \in Request, CheckLimits(r) PROVE RowsKept
  BY <1>5 DEF CheckLimits, Goto, Refuse
<1>6. ASSUME NEW r \in Request, Debit(r) PROVE RowsKept
  BY <1>6 DEF Debit, Goto, Refuse
<1>7. ASSUME NEW r \in Request, CreatePayout(r) PROVE RowsKept
  BY <1>7 DEF CreatePayout, Goto
<1>8. ASSUME NEW r \in Request, StartPayout(r) PROVE RowsKept
  BY <1>8 DEF StartPayout, Goto
<1>9. ASSUME NEW r \in Request, MockDisburse(r) PROVE RowsKept
  BY <1>9 DEF MockDisburse, Goto
<1>10. ASSUME NEW r \in Request, RecordPayoutRef(r) PROVE RowsKept
  BY <1>10 DEF RecordPayoutRef, Goto
<1>11. ASSUME NEW r \in Request, MarkProcessing(r) PROVE RowsKept
  BY <1>11 DEF MarkProcessing, Goto, MarkStale
<1>12. ASSUME NEW r \in Request, MarkCompleted(r) PROVE RowsKept
  BY <1>12 DEF MarkCompleted, Goto, SettlePendingRow, MarkStale
<1>13. ASSUME NEW r \in Request, ProviderSettles(r) PROVE RowsKept
  BY <1>13 DEF ProviderSettles
<1>14. ASSUME NEW r \in Request, RequestFault(r) PROVE RowsKept
  BY <1>14 DEF RequestFault, Fault, AfterFault
<1>15. ASSUME NEW h \in Handler, NEW w \in Request, ReadPendingWithdrawal(h, w) PROVE RowsKept
  BY <1>15 DEF ReadPendingWithdrawal, Idle
<1>16. ASSUME NEW h \in Handler, NEW w \in Request, LookUpWebhook(h, w) PROVE RowsKept
  BY <1>16 DEF LookUpWebhook, Idle, Emitted
<1>17. ASSUME NEW h \in Handler, FindPendingRow(h) PROVE RowsKept
  BY <1>17 DEF FindPendingRow, Become, Finish, Idle
<1>18. ASSUME NEW h \in Handler, CommitApprove(h) PROVE RowsKept
  BY <1>18 DEF CommitApprove, SettlePendingRow, MarkStale, Finish, Idle
<1>19. ASSUME NEW h \in Handler, CommitReject(h) PROVE RowsKept
  BY <1>19 DEF CommitReject, SettlePendingRow, RefundGross, MarkStale, Finish, Idle
<1>20. ASSUME NEW h \in Handler, RecordWebhook(h) PROVE RowsKept
  BY <1>20 DEF RecordWebhook, Become, Finish, Idle
<1>21. ASSUME NEW h \in Handler, ReadForWebhook(h) PROVE RowsKept
  BY <1>21 DEF ReadForWebhook, Become, Finish, Idle
<1>22. ASSUME NEW h \in Handler, CommitPayoutCompleted(h) PROVE RowsKept
  BY <1>22 DEF CommitPayoutCompleted, SettlePendingRow, MarkStale, Finish, Idle
<1>23. ASSUME NEW h \in Handler, CommitPayoutFailed(h) PROVE RowsKept
  BY <1>23 DEF CommitPayoutFailed, SettlePendingRow, RefundGross, MarkStale, Finish, Idle
<1>24. ASSUME NEW h \in Handler, HandlerFault(h) PROVE RowsKept
  BY <1>24 DEF HandlerFault, Fault, Finish, Idle
<1>25. ASSUME NEW n \in Run, StartRun(n) PROVE RowsKept
  BY <1>25 DEF StartRun, InProgressNow, NoRun
<1>26. ASSUME NEW n \in Run, NEW w \in Request, AskStatus(n, w) PROVE RowsKept
  BY <1>26 DEF AskStatus, Advance, NoRun
<1>27. ASSUME NEW n \in Run, CommitRunCompleted(n) PROVE RowsKept
  BY <1>27 DEF CommitRunCompleted, SettleAnyRow, MarkStale, NextInRun, NoRun
<1>28. ASSUME NEW n \in Run, CommitRunFailed(n) PROVE RowsKept
  BY <1>28 DEF CommitRunFailed, SettleAnyRow, MarkStale, RefundGross, NextInRun, NoRun
<1>29. ASSUME NEW n \in Run, RunFault(n) PROVE RowsKept
  BY <1>29 DEF RunFault, Fault, NoRun
<1>30. ASSUME Crash PROVE RowsKept
  BY <1>30 DEF Crash, Fault, AfterFault, Idle, NoRun
<1>31. CASE UNCHANGED <<mock, vars>>
  BY <1>31 DEF vars
<1> QED
  BY <1>1, <1>2, <1>3, <1>4, <1>5, <1>6, <1>7, <1>8, <1>9, <1>10, <1>11, <1>12, <1>13, <1>14, <1>15, <1>16, <1>17, <1>18, <1>19, <1>20, <1>21, <1>22, <1>23, <1>24, <1>25, <1>26, <1>27, <1>28, <1>29, <1>30, <1>31 DEF Next, Step, RequestStep, HandlerStep, RunStep

-----------------------------------------------------------------------------
(***************************************************************************)
(* The books: what a user has and holds against what was earned.  For      *)
(* them a step is one of four moves.                                       *)
(***************************************************************************)
Held(u) == {r \in Of(u) : status[r] \notin {"NONE", "FAILED"}}

Books == NoLossToUser /\ ExactUnlessStale

\* Nothing the books depend on changes.
Quiet ==
  /\ UNCHANGED <<balance, totalEarned, status, stale>>
  /\ \A r \in Request : status[r] # "NONE" => gross'[r] = gross[r]

Earned(u) ==
  /\ balance' = [balance EXCEPT ![u] = @ + Reward]
  /\ totalEarned' = [totalEarned EXCEPT ![u] = @ + Reward]
  /\ UNCHANGED <<status, gross, stale>>

\* A withdrawal is created and paid for.
Debited(r) ==
  /\ status[r] = "NONE"
  /\ status' = [status EXCEPT ![r] = "PENDING"]
  /\ balance' = [balance EXCEPT ![Owner[r]] = @ - gross[r]]
  /\ UNCHANGED <<gross, totalEarned, stale>>

\* A withdrawal's status is written, and a failed one is refunded.
Overwritten(w, s) ==
  /\ status[w] # "NONE"
  /\ status' = [status EXCEPT ![w] = s]
  /\ IF s = "FAILED" THEN RefundGross(w) ELSE balance' = balance
  /\ MarkStale(w)
  /\ UNCHANGED <<gross, totalEarned>>

Moves ==
  \/ Quiet
  \/ \E u \in User : Earned(u)
  \/ \E r \in Request : Debited(r)
  \/ \E w \in Request, s \in InProgress \cup Terminal : Overwritten(w, s)

LEMMA MovesStep ==
  ASSUME TypeOK, Created, [Next]_<<mock, vars>>
  PROVE  Moves
<1> USE DEF Moves, TypeOK, Created, CreatedTogether, HandlersHoldCreated, RunsHoldCreated, InProgress, Terminal, BeforeDebit, wallets, ledger, request
<1>1. ASSUME NEW u \in User, Earn(u) PROVE Moves
  BY <1>1 DEF Earn, Earned
<1>2. ASSUME NEW r \in Request, LeaveWindow(r) PROVE Moves
  BY <1>2 DEF LeaveWindow, Quiet
<1>3. ASSUME NEW r \in Request, CheckPending(r) PROVE Moves
  BY <1>3 DEF CheckPending, Goto, Quiet
<1>4. ASSUME NEW r \in Request, CheckSolvency(r) PROVE Moves
  BY <1>4 DEF CheckSolvency, Goto, Refuse, Quiet
<1>5. ASSUME NEW r \in Request, CheckLimits(r) PROVE Moves
  BY <1>5 DEF CheckLimits, Goto, Refuse, Quiet
<1>6. ASSUME NEW r \in Request, Debit(r) PROVE Moves
  <2>1. CASE balance[Owner[r]] < gross[r]
    BY <1>6, <2>1 DEF Debit, Refuse, Quiet
  <2>2. CASE ~(balance[Owner[r]] < gross[r])
    BY <1>6, <2>2 DEF Debit, Goto, Debited
  <2> QED BY <2>1, <2>2
<1>7. ASSUME NEW r \in Request, CreatePayout(r) PROVE Moves
  BY <1>7 DEF CreatePayout, Quiet
<1>8. ASSUME NEW r \in Request, StartPayout(r) PROVE Moves
  BY <1>8 DEF StartPayout, Quiet
<1>9. ASSUME NEW r \in Request, MockDisburse(r) PROVE Moves
  BY <1>9 DEF MockDisburse, Quiet
<1>10. ASSUME NEW r \in Request, RecordPayoutRef(r) PROVE Moves
  BY <1>10 DEF RecordPayoutRef, Quiet
<1>11. ASSUME NEW r \in Request, MarkProcessing(r) PROVE Moves
  <2>1. Overwritten(r, "PROCESSING")
    BY <1>11 DEF MarkProcessing, Goto, Overwritten
  <2> QED BY <2>1
<1>12. ASSUME NEW r \in Request, MarkCompleted(r) PROVE Moves
  <2>1. Overwritten(r, "COMPLETED")
    BY <1>12 DEF MarkCompleted, Goto, SettlePendingRow, Overwritten
  <2> QED BY <2>1
<1>13. ASSUME NEW r \in Request, ProviderSettles(r) PROVE Moves
  BY <1>13 DEF ProviderSettles, Quiet
<1>14. ASSUME NEW r \in Request, RequestFault(r) PROVE Moves
  BY <1>14 DEF RequestFault, Fault, Quiet
<1>15. ASSUME NEW h \in Handler, NEW w \in Request, ReadPendingWithdrawal(h, w) PROVE Moves
  BY <1>15 DEF ReadPendingWithdrawal, Quiet
<1>16. ASSUME NEW h \in Handler, NEW w \in Request, LookUpWebhook(h, w) PROVE Moves
  BY <1>16 DEF LookUpWebhook, Quiet
<1>17. ASSUME NEW h \in Handler, FindPendingRow(h) PROVE Moves
  BY <1>17 DEF FindPendingRow, Quiet
<1>18. ASSUME NEW h \in Handler, CommitApprove(h) PROVE Moves
  <2>1. Overwritten(handler[h].w, "COMPLETED")
    BY <1>18 DEF CommitApprove, SettlePendingRow, Overwritten
  <2> QED BY <1>18, <2>1 DEF CommitApprove
<1>19. ASSUME NEW h \in Handler, CommitReject(h) PROVE Moves
  <2>1. Overwritten(handler[h].w, "FAILED")
    BY <1>19 DEF CommitReject, SettlePendingRow, Overwritten
  <2> QED BY <1>19, <2>1 DEF CommitReject
<1>20. ASSUME NEW h \in Handler, RecordWebhook(h) PROVE Moves
  BY <1>20 DEF RecordWebhook, Quiet
<1>21. ASSUME NEW h \in Handler, ReadForWebhook(h) PROVE Moves
  BY <1>21 DEF ReadForWebhook, Quiet
<1>22. ASSUME NEW h \in Handler, CommitPayoutCompleted(h) PROVE Moves
  <2>1. Overwritten(handler[h].w, "COMPLETED")
    BY <1>22 DEF CommitPayoutCompleted, SettlePendingRow, Overwritten
  <2> QED BY <1>22, <2>1 DEF CommitPayoutCompleted
<1>23. ASSUME NEW h \in Handler, CommitPayoutFailed(h) PROVE Moves
  <2>1. Overwritten(handler[h].w, "FAILED")
    BY <1>23 DEF CommitPayoutFailed, SettlePendingRow, Overwritten
  <2> QED BY <1>23, <2>1 DEF CommitPayoutFailed
<1>24. ASSUME NEW h \in Handler, HandlerFault(h) PROVE Moves
  BY <1>24 DEF HandlerFault, Fault, Quiet
<1>25. ASSUME NEW n \in Run, StartRun(n) PROVE Moves
  BY <1>25 DEF StartRun, Quiet
<1>26. ASSUME NEW n \in Run, NEW w \in Request, AskStatus(n, w) PROVE Moves
  BY <1>26 DEF AskStatus, Quiet
<1>27. ASSUME NEW n \in Run, CommitRunCompleted(n) PROVE Moves
  <2>1. Overwritten(run[n].w, "COMPLETED")
    BY <1>27 DEF CommitRunCompleted, SettleAnyRow, Overwritten
  <2> QED BY <1>27, <2>1 DEF CommitRunCompleted
<1>28. ASSUME NEW n \in Run, CommitRunFailed(n) PROVE Moves
  <2>1. Overwritten(run[n].w, "FAILED")
    BY <1>28 DEF CommitRunFailed, SettleAnyRow, Overwritten
  <2> QED BY <1>28, <2>1 DEF CommitRunFailed
<1>29. ASSUME NEW n \in Run, RunFault(n) PROVE Moves
  BY <1>29 DEF RunFault, Fault, Quiet
<1>30. ASSUME Crash PROVE Moves
  BY <1>30 DEF Crash, Fault, Quiet
<1>31. CASE UNCHANGED <<mock, vars>>
  BY <1>31 DEF vars, Quiet
<1> QED
  BY <1>1, <1>2, <1>3, <1>4, <1>5, <1>6, <1>7, <1>8, <1>9, <1>10, <1>11, <1>12, <1>13, <1>14, <1>15, <1>16, <1>17, <1>18, <1>19, <1>20, <1>21, <1>22, <1>23, <1>24, <1>25, <1>26, <1>27, <1>28, <1>29, <1>30, <1>31 DEF Next, Step, RequestStep, HandlerStep, RunStep

\* What is held is a finite sum of naturals.
LEMMA HeldFinite == \A u : IsFiniteSet(Held(u)) /\ Held(u) \subseteq Request
<1> SUFFICES ASSUME NEW u PROVE IsFiniteSet(Held(u)) /\ Held(u) \subseteq Request
  OBVIOUS
<1>1. Held(u) \subseteq Request
  BY DEF Held, Of
<1> QED BY <1>1, FS_Subset, FiniteAssumption

LEMMA HeldInt == ASSUME TypeOK PROVE \A u : HeldGross(u) \in Int
<1> SUFFICES ASSUME NEW u PROVE HeldGross(u) \in Int
  OBVIOUS
<1>1. \A r \in Held(u) : gross[r] \in Int
  BY HeldFinite DEF TypeOK
<1>2. SumFunctionOnSet(gross, Held(u)) \in Int
  BY <1>1, HeldFinite, SumInt
<1> QED BY <1>2 DEF HeldGross, Held

\* The sum at the end of a step that leaves the gross amounts held alone.
LEMMA HeldNext ==
  ASSUME TypeOK, TypeOK', NEW u, \A r \in Held(u)' : gross'[r] = gross[r]
  PROVE  HeldGross(u)' = SumFunctionOnSet(gross, Held(u)')
<1>1. IsFiniteSet(Held(u)')
  <2>1. Held(u)' \subseteq Request
    BY DEF Held, Of
  <2> QED BY <2>1, FS_Subset, FiniteAssumption
<1>2. SumFunctionOnSet(gross', Held(u)') = SumFunctionOnSet(gross, Held(u)')
  BY <1>1, SumSame
<1> QED BY <1>2 DEF HeldGross, Held

LEMMA QuietBooks ==
  ASSUME TypeOK, TypeOK', Books, Quiet
  PROVE  Books'
<1>1. \A u \in User : Held(u)' = Held(u)
  BY DEF Quiet, Held, Of
<1>2. \A u \in User : HeldGross(u)' = HeldGross(u)
  <2> SUFFICES ASSUME NEW u \in User PROVE HeldGross(u)' = HeldGross(u)
    OBVIOUS
  <2>1. \A r \in Held(u)' : gross'[r] = gross[r]
    BY <1>1 DEF Quiet, Held, Of
  <2>2. HeldGross(u)' = SumFunctionOnSet(gross, Held(u)')
    BY <2>1, HeldNext
  <2>3. HeldGross(u) = SumFunctionOnSet(gross, Held(u))
    BY DEF HeldGross, Held
  <2> QED BY <1>1, <2>2, <2>3
<1> QED BY <1>2 DEF Books, NoLossToUser, ExactUnlessStale, Quiet, Of

LEMMA EarnedBooks ==
  ASSUME TypeOK, TypeOK', Books, NEW u \in User, Earned(u)
  PROVE  Books'
<1>1. \A v \in User : HeldGross(v)' = HeldGross(v)
  BY DEF Earned, HeldGross, Of
<1>2. \A v \in User : balance'[v] - balance[v] = totalEarned'[v] - totalEarned[v]
  BY AmountAssumption DEF Earned, TypeOK
<1>3. \A v \in User : HeldGross(v) \in Int /\ balance[v] \in Int /\ balance'[v] \in Int
                      /\ totalEarned[v] \in Int /\ totalEarned'[v] \in Int
  BY HeldInt DEF TypeOK
<1>5. stale' = stale
  BY DEF Earned
<1> HIDE DEF TypeOK, HeldGross
<1>6. NoLossToUser'
  BY <1>1, <1>2, <1>3 DEF Books, NoLossToUser
<1>7. ExactUnlessStale'
  <2> SUFFICES ASSUME NEW v \in User, Of(v) \cap stale' = {}
               PROVE  balance'[v] + HeldGross(v)' = totalEarned'[v]
    BY DEF ExactUnlessStale, Of
  <2>1. balance[v] + HeldGross(v) = totalEarned[v]
    BY <1>5 DEF Books, ExactUnlessStale
  <2> QED BY <1>1, <1>2, <1>3, <2>1
<1> QED BY <1>6, <1>7 DEF Books

LEMMA DebitedBooks ==
  ASSUME TypeOK, TypeOK', Books, NEW w \in Request, Debited(w)
  PROVE  Books'
<1> DEFINE o == Owner[w]
<1>1. o \in User
  BY RequestAssumption
<1>2. \A v \in User : HeldGross(v)' = HeldGross(v) + (IF v = o THEN gross[w] ELSE 0)
  <2> SUFFICES ASSUME NEW v \in User
               PROVE  HeldGross(v)' = HeldGross(v) + (IF v = o THEN gross[w] ELSE 0)
    OBVIOUS
  <2>1. HeldGross(v)' = SumFunctionOnSet(gross, Held(v)')
    BY HeldNext DEF Debited
  <2>2. HeldGross(v) = SumFunctionOnSet(gross, Held(v))
    BY DEF HeldGross, Held
  <2>3. CASE v = o
    <3>1. Held(v)' = Held(v) \cup {w} /\ w \notin Held(v)
      BY <2>3 DEF Debited, Held, Of, TypeOK
    <3>2. \A r \in Held(v) \cup {w} : gross[r] \in Int
      BY HeldFinite DEF TypeOK
    <3>3. SumFunctionOnSet(gross, Held(v) \cup {w}) = SumFunctionOnSet(gross, Held(v)) + gross[w]
      BY <3>1, <3>2, HeldFinite, SumAdd
    <3> QED BY <2>1, <2>2, <2>3, <3>1, <3>3
  <2>4. CASE v # o
    <3>1. Held(v)' = Held(v)
      BY <2>4 DEF Debited, Held, Of, TypeOK
    <3>2. HeldGross(v) \in Int
      BY HeldInt
    <3> QED BY <2>1, <2>2, <2>4, <3>1, <3>2
  <2> QED BY <2>3, <2>4
<1>3. \A v \in User : balance'[v] = balance[v] - (IF v = o THEN gross[w] ELSE 0)
  BY <1>1 DEF Debited, TypeOK
<1>4. \A v \in User : HeldGross(v) \in Int /\ balance[v] \in Int /\ totalEarned[v] \in Int
  BY HeldInt DEF TypeOK
<1>5. totalEarned' = totalEarned /\ stale' = stale /\ gross[w] \in Int
  BY DEF Debited, TypeOK
<1>6. \A v \in User : balance'[v] + HeldGross(v)' = balance[v] + HeldGross(v)
  BY <1>2, <1>3, <1>4, <1>5
<1>7. NoLossToUser'
  BY <1>5, <1>6 DEF Books, NoLossToUser
<1>8. ExactUnlessStale'
  BY <1>5, <1>6 DEF Books, ExactUnlessStale, Of
<1> QED BY <1>7, <1>8 DEF Books

\* Only a withdrawal already FAILED makes the sum grow, and it is then stale.
LEMMA OverwrittenBooks ==
  ASSUME TypeOK, TypeOK', Books, NEW w \in Request,
         NEW s \in InProgress \cup Terminal, Overwritten(w, s)
  PROVE  Books'
<1> DEFINE o == Owner[w]
           in == IF status[w] = "FAILED" THEN 0 ELSE gross[w]
           out == IF s = "FAILED" THEN 0 ELSE gross[w]
           refund == IF s = "FAILED" THEN gross[w] ELSE 0
<1>1. o \in User /\ gross[w] \in Nat /\ status[w] \in InProgress \cup Terminal
  <2>1. status[w] \in InProgress \cup Terminal \cup {"NONE"} /\ status[w] # "NONE"
    BY DEF TypeOK, Overwritten
  <2> QED BY <2>1, RequestAssumption DEF TypeOK
<1>2. \A v \in User : HeldGross(v)' = HeldGross(v) + (IF v = o THEN out - in ELSE 0)
  <2> SUFFICES ASSUME NEW v \in User
               PROVE  HeldGross(v)' = HeldGross(v) + (IF v = o THEN out - in ELSE 0)
    OBVIOUS
  <2>1. HeldGross(v)' = SumFunctionOnSet(gross, Held(v)')
    BY HeldNext DEF Overwritten
  <2>2. HeldGross(v) = SumFunctionOnSet(gross, Held(v)) /\ HeldGross(v) \in Int
    BY HeldInt DEF HeldGross, Held
  <2>3. CASE v = o
    <3> DEFINE R == Held(v) \ {w}
    <3>1. R \subseteq Request /\ w \notin R /\ IsFiniteSet(R)
      BY HeldFinite, FS_Subset
    <3>2. \A r \in R \cup {w} : gross[r] \in Int
      BY <3>1 DEF TypeOK
    <3>3. SumFunctionOnSet(gross, R \cup {w}) = SumFunctionOnSet(gross, R) + gross[w]
      BY <3>1, <3>2, SumAdd
    <3>4. Held(v) = IF status[w] = "FAILED" THEN R ELSE R \cup {w}
      BY <2>3, <1>1 DEF Held, Of, InProgress, Terminal
    <3>5. Held(v)' = IF s = "FAILED" THEN R ELSE R \cup {w}
      BY <2>3, <1>1 DEF Held, Of, Overwritten, TypeOK, InProgress, Terminal
    <3>6. SumFunctionOnSet(gross, R) \in Int
      BY <3>1, <3>2, SumInt
    <3> HIDE DEF R
    <3>7. HeldGross(v) = SumFunctionOnSet(gross, R) + in
      BY <2>2, <3>3, <3>4, <3>6
    <3>8. HeldGross(v)' = SumFunctionOnSet(gross, R) + out
      BY <2>1, <3>3, <3>5, <3>6
    <3>9. in \in Int /\ out \in Int
      BY <1>1
    <3> HIDE DEF in, out
    <3> QED BY <2>3, <3>6, <3>7, <3>8, <3>9
  <2>4. CASE v # o
    <3>1. Held(v)' = Held(v)
      BY <2>4 DEF Overwritten, Held, Of, TypeOK
    <3> QED BY <2>1, <2>2, <2>4, <3>1
  <2> QED BY <2>3, <2>4
<1>3. \A v \in User : balance'[v] = balance[v] + (IF v = o THEN refund ELSE 0)
  BY <1>1 DEF Overwritten, RefundGross, TypeOK
<1>4. \A v \in User : HeldGross(v) \in Int /\ balance[v] \in Int /\ totalEarned[v] \in Int
  BY HeldInt DEF TypeOK
<1>5. totalEarned' = totalEarned /\ stale \subseteq stale'
  BY DEF Overwritten, MarkStale
<1>6. out + refund = gross[w]
  BY <1>1
<1>7. \A v \in User : balance'[v] + HeldGross(v)'
                      = (balance[v] + HeldGross(v)) + (IF v = o THEN gross[w] - in ELSE 0)
  <2>1. in \in Int /\ out \in Int /\ refund \in Int /\ gross[w] \in Int
    BY <1>1
  <2> HIDE DEF in, out, refund
  <2> QED BY <1>2, <1>3, <1>4, <1>6, <2>1
<1>8. NoLossToUser'
  <2>1. gross[w] - in \in Nat
    BY <1>1
  <2> HIDE DEF in
  <2> QED BY <1>4, <1>5, <1>7, <2>1 DEF Books, NoLossToUser
<1>9. ExactUnlessStale'
  <2> SUFFICES ASSUME NEW v \in User, Of(v) \cap stale' = {}
               PROVE  balance'[v] + HeldGross(v)' = totalEarned'[v]
    BY DEF ExactUnlessStale, Of
  <2>1. balance[v] + HeldGross(v) = totalEarned[v]
    BY <1>5 DEF Books, ExactUnlessStale
  <2>2. v = o => in = gross[w]
    BY DEF Overwritten, MarkStale, Of, Terminal
  <2>3. in \in Int /\ gross[w] \in Int
    BY <1>1
  <2> HIDE DEF in
  <2> QED BY <1>4, <1>5, <1>7, <2>1, <2>2, <2>3
<1> QED BY <1>8, <1>9 DEF Books

\* Whatever handlers, runs, webhooks and crashes do, the books stay right.
LEMMA BooksStep ==
  ASSUME TypeOK, Created, Books, [Next]_<<mock, vars>>
  PROVE  Books'
BY TypeStep, MovesStep, QuietBooks, EarnedBooks, DebitedBooks, OverwrittenBooks DEF Moves

-----------------------------------------------------------------------------
(***************************************************************************)
(* The theorems.                                                           *)
(***************************************************************************)
LEMMA InitIInv == Init => IInv
<1> SUFFICES ASSUME Init PROVE IInv
  OBVIOUS
<1> USE AmountAssumption, SwitchAssumption DEF Init, InProgress, Terminal, BeforeDebit, Idle, NoRun
<1>1. TypeOK
  BY DEF TypeOK, HandlerOp
<1>2. Created
  BY DEF Created, CreatedTogether, HandlersHoldCreated, RunsHoldCreated
<1>3. BalanceNeverNegative /\ RowFollowsWithdrawal /\ WebhookHandledOnce
  BY DEF BalanceNeverNegative, RowFollowsWithdrawal, RowStory, WebhookHandledOnce, Handling
<1>4. \A u \in User : HeldGross(u) = 0
  <2>1. \A u \in User : {r \in Of(u) : status[r] \notin {"NONE", "FAILED"}} = {}
    BY DEF Of
  <2> QED BY <2>1, SumEmpty DEF HeldGross
<1>5. NoLossToUser /\ ExactUnlessStale
  BY <1>4 DEF NoLossToUser, ExactUnlessStale
<1> QED BY <1>1, <1>2, <1>3, <1>5 DEF IInv

LEMMA StepIInv == IInv /\ [Next]_<<mock, vars>> => IInv'
BY TypeStep, CreatedStep, BalanceStep, RowStep, OnceStep, BooksStep DEF IInv, Books

LEMMA Invariance == Spec => []IInv
BY InitIInv, StepIInv, PTL DEF Spec

\* Every variable keeps its type, the ledger row and the withdrawal included.
THEOREM TypeCorrect == Spec => []TypeOK
BY Invariance, PTL DEF IInv

\* requestWithdrawal's transaction never overdraws a wallet, however many
\* requests passed the earlier checks together.
THEOREM NoOverdraft == Spec => []BalanceNeverNegative
BY Invariance, PTL DEF IInv

\* A settled withdrawal has a settled ledger row, and only a write to a
\* withdrawal already settled makes the two disagree.
THEOREM RowAgreement == Spec => []RowFollowsWithdrawal
BY Invariance, PTL DEF IInv

\* The unique webhookId gives an event to one handler at a time.
THEOREM AtMostOneHandler == Spec => []WebhookHandledOnce
BY Invariance, PTL DEF IInv

\* disburse comes after the transaction that creates withdrawal and row, so no
\* crash leaves a payout without them.
THEOREM PayoutsHaveRows == Spec => []PayoutHasRow
<1>1. IInv => PayoutHasRow
  BY DEF IInv, Created, CreatedTogether, PayoutHasRow
<1> QED BY <1>1, Invariance, PTL

\* No handler but the reconciliation cron rewrites a settled ledger row.
THEOREM SettledRows == Spec => OnlyRunsRewriteSettledRows
<1>1. IInv /\ [Next]_<<mock, vars>> => [RowsKept]_vars
  BY RewriteStep DEF IInv
<1> QED BY <1>1, Invariance, PTL DEF Spec, OnlyRunsRewriteSettledRows, RowsKept

\* However approvals, rejections, webhooks, the cron and crashes interleave, no
\* user ever loses money: the wallet and the withdrawals not refunded add up to
\* at least what was earned.
THEOREM NobodyLoses == Spec => []NoLossToUser
BY Invariance, PTL DEF IInv

\* They add up to exactly that until a withdrawal already settled is written
\* again: stale writes are the only way money appears.
THEOREM OnlyStaleWritesCreateMoney == Spec => []ExactUnlessStale
BY Invariance, PTL DEF IInv
=============================================================================
