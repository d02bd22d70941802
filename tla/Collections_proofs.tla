-------------------------- MODULE Collections_proofs --------------------------
(***************************************************************************)
(* Theorems about Collections, for any users, payments, products, handlers *)
(* and reconciliation loops in flight, any decisions of admins and faults. *)
(***************************************************************************)
EXTENDS Collections, TLAPS

RowStatus == {"NONE", "PENDING", "COMPLETED", "FAILED"}
PayStatus == {"none", "open", "approved", "declined"}
HandlerOp == {"idle", "webhook", "recorded", "found", "fraud", "verify", "grant"}
HandlerRow ==
  [op : HandlerOp, p : Payment \cup {NoPayment}, event : Event \cup {"none"},
   row : Creator \cup {"none"}]
RunRow ==
  [phase : {"idle", "loop", "completed", "failed"}, todo : SUBSET Payment,
   p : Payment \cup {NoPayment}]

TypeOK ==
  /\ mock \in MockModes
  /\ userStatus \in [User -> UserStatus]
  /\ tier \in [User -> TierName]
  /\ rows \in [Payment -> [Creator -> RowStatus]]
  /\ pay \in [Payment -> PayStatus]
  /\ seen \subseteq Event \X Payment
  /\ pc \in [Payment -> {"idle", "checked", "collected", "paid", "done"}]
  /\ handler \in [Handler -> HandlerRow]
  /\ run \in [Run -> RunRow]
  /\ admin \in [User -> AdminDecision \cup {"none"}]
  /\ faults \in Nat
  /\ manual \subseteq User
  /\ granted \subseteq Payment
  /\ misjudged \subseteq Payment

\* A handler in flight knows its payment and event, a loop past the status call
\* its payment.
Granting == {"found", "fraud", "verify", "grant"}
Addressed ==
  /\ \A h \in Handler : handler[h].op # "idle" =>
       /\ handler[h].p \in Payment /\ handler[h].event \in Event
       /\ handler[h].op \in Granting => handler[h].event \in ApprovalEvent
  /\ \A n \in Run : run[n].phase \in {"completed", "failed"} => run[n].p \in Payment

\* Whoever is about to grant a payment knows it is approved, and a payment not
\* yet collected is not.
Justified ==
  /\ \A p \in Payment : pc[p] \in {"idle", "checked"} => pay[p] = "none"
  /\ \A p \in Payment : pc[p] = "collected" => pay[p] # "none"
  /\ \A p \in Payment : pc[p] = "paid" => pay[p] = "approved"
  /\ \A h \in Handler : handler[h].op = "grant" => pay[handler[h].p] = "approved"
  /\ \A n \in Run : run[n].phase = "completed" => pay[run[n].p] = "approved"

\* The unique key of an event lets one handler pass, which alone creates the
\* event's row, and only as it ends.
Recorded == {"recorded", "found", "fraud", "verify", "grant"}
OneHandlerEach ==
  \A h, k \in Handler :
    /\ handler[h].op \in Recorded /\ handler[k].op \in Recorded
    /\ handler[h].event = handler[k].event /\ handler[h].p = handler[k].p
    => h = k
EventRows ==
  /\ \A h \in Handler : handler[h].op \in Recorded =>
       /\ <<handler[h].event, handler[h].p>> \in seen
       /\ handler[h].event \in ApprovalEvent => rows[handler[h].p][handler[h].event] = "NONE"
  /\ \A h \in Handler : handler[h].op # "idle" /\ handler[h].row # "none" =>
       rows[handler[h].p][handler[h].row] # "NONE"
  /\ \A p \in Payment, e \in ApprovalEvent : rows[p][e] # "NONE" => <<e, p>> \in seen

\* The service's row is not there before the service records it, and is only
\* there for a payment that was collected.
ServiceRows ==
  /\ \A p \in Payment : pc[p] \in {"idle", "checked", "collected"} => rows[p]["service"] = "NONE"
  /\ \A p \in Payment : rows[p]["service"] = "PENDING" => pay[p] # "none"
  /\ \A n \in Run, p \in Payment : p \in run[n].todo =>
       pay[p] # "none" /\ rows[p]["service"] # "NONE"
  /\ \A n \in Run : run[n].phase \in {"completed", "failed"} => rows[run[n].p]["service"] # "NONE"
  /\ \A n \in Run : run[n].phase = "failed" =>
       pay[run[n].p] = "declined" \/ run[n].p \in misjudged

IInv ==
  /\ TypeOK /\ Addressed /\ Justified
  /\ OneHandlerEach /\ EventRows /\ ServiceRows
  /\ CompletedRowsGranted /\ EntitlementsPaid
  /\ GrantsKeepTheirRow
-----------------------------------------------------------------------------
(***************************************************************************)
(* Writes.                                                                 *)
(***************************************************************************)
\* A step writes one row.
LEMMA RowWrites ==
  ASSUME TypeOK, NEW p \in Payment, NEW c \in Creator, NEW s \in RowStatus,
         rows' = [rows EXCEPT ![p][c] = s]
  PROVE  /\ rows' \in [Payment -> [Creator -> RowStatus]]
         /\ rows'[p][c] = s
         /\ \A q \in Payment, d \in Creator : q # p \/ d # c => rows'[q][d] = rows[q][d]
<1>1. rows \in [Payment -> [Creator -> RowStatus]]
  BY DEF TypeOK
<1> QED BY ONLY <1>1, p \in Payment, c \in Creator, s \in RowStatus,
           rows' = [rows EXCEPT ![p][c] = s]

\* A grant writes the payer, and completes one row.
LEMMA GrantWrites ==
  ASSUME TypeOK, NEW p \in Payment, NEW c \in Creator, Grant(p, c)
  PROVE  /\ userStatus' \in [User -> UserStatus]
         /\ tier' \in [User -> TierName]
         /\ rows' \in [Payment -> [Creator -> RowStatus]]
         /\ rows'[p][c] = "COMPLETED"
         /\ \A q \in Payment, d \in Creator : q # p \/ d # c => rows'[q][d] = rows[q][d]
         /\ granted' = granted \cup {p}
<1>1. rows' = [rows EXCEPT ![p][c] = "COMPLETED"] /\ granted' = granted \cup {p}
  BY DEF Grant
<1>2. "COMPLETED" \in RowStatus
  BY DEF RowStatus
<1>3. userStatus' \in [User -> UserStatus]
  BY DEF Grant, TypeOK, UserStatus
<1>4. Product[p] \in {"ACTIVATION", "PREMIUM", "VIP"}
  BY PaymentAssumption
<1>5. tier' \in [User -> TierName]
  BY <1>4 DEF Grant, TypeOK, TierName, IsActivation
<1> QED BY <1>1, <1>2, <1>3, <1>5, RowWrites

\* A handler goes on, with its payment, event and row,
LEMMA Becomes ==
  ASSUME TypeOK, NEW h \in Handler, NEW op \in HandlerOp, Become(h, op)
  PROVE  /\ handler' \in [Handler -> HandlerRow]
         /\ handler'[h].op = op
         /\ handler'[h].p = handler[h].p /\ handler'[h].event = handler[h].event
         /\ handler'[h].row = handler[h].row
         /\ \A k \in Handler : k # h => handler'[k] = handler[k]
<1>1. handler \in [Handler -> HandlerRow]
  BY DEF TypeOK
<1>2. handler' = [handler EXCEPT ![h] = [handler[h] EXCEPT !.op = op]]
  BY DEF Become
<1>3. ASSUME NEW r \in HandlerRow
      PROVE  /\ [r EXCEPT !.op = op] \in HandlerRow
             /\ [r EXCEPT !.op = op].op = op /\ [r EXCEPT !.op = op].p = r.p
             /\ [r EXCEPT !.op = op].event = r.event /\ [r EXCEPT !.op = op].row = r.row
  BY DEF HandlerRow
<1> QED BY <1>1, <1>2, <1>3

\* ends,
LEMMA Finishes ==
  ASSUME TypeOK, NEW h \in Handler, Finish(h)
  PROVE  /\ handler' \in [Handler -> HandlerRow]
         /\ handler'[h].op = "idle"
         /\ \A k \in Handler : k # h => handler'[k] = handler[k]
<1>1. Idle \in HandlerRow /\ Idle.op = "idle"
  BY DEF Idle, HandlerRow, HandlerOp
<1>2. handler \in [Handler -> HandlerRow] /\ handler' = [handler EXCEPT ![h] = Idle]
  BY DEF TypeOK, Finish
<1> QED BY ONLY <1>1, <1>2, h \in Handler

\* begins with the event of a payment,
LEMMA LooksUp ==
  ASSUME TypeOK, NEW h \in Handler, NEW p \in Payment, LookUpWebhook(h, p)
  PROVE  /\ handler' \in [Handler -> HandlerRow]
         /\ handler'[h].op = "webhook" /\ handler'[h].p = p
         /\ handler'[h].event \in Event /\ handler'[h].row = "none"
         /\ \A k \in Handler : k # h => handler'[k] = handler[k]
<1>1. PICK e \in Emitted(p) :
        handler' = [handler EXCEPT ![h] = [Idle EXCEPT !.op = "webhook", !.p = p, !.event = e]]
  BY DEF LookUpWebhook
<1>2. e \in Event
  BY DEF Emitted, Event, ApprovalEvent
<1> DEFINE r == [Idle EXCEPT !.op = "webhook", !.p = p, !.event = e]
<1>3. r.op = "webhook" /\ r.p = p /\ r.event = e /\ r.row = "none" /\ r \in HandlerRow
  BY <1>2 DEF Idle, HandlerRow, HandlerOp
<1>4. handler \in [Handler -> HandlerRow] /\ handler' = [handler EXCEPT ![h] = r]
  BY <1>1 DEF TypeOK
<1> HIDE DEF r
<1> QED BY ONLY <1>2, <1>3, <1>4, h \in Handler

\* and finds a row of its payment or none.
LEMMA Finds ==
  ASSUME TypeOK, Addressed, NEW h \in Handler, FindRow(h)
  PROVE  \/ Finish(h)
         \/ Become(h, "found")
         \/ \E c \in Creator :
              /\ rows[handler[h].p][c] # "NONE"
              /\ handler' \in [Handler -> HandlerRow]
              /\ handler'[h].op = "found" /\ handler'[h].p = handler[h].p
              /\ handler'[h].event = handler[h].event /\ handler'[h].row = c
              /\ \A k \in Handler : k # h => handler'[k] = handler[k]
<1>1. ASSUME NEW c \in Existing(handler[h].p),
             handler' = [handler EXCEPT ![h].op = "found", ![h].row = c]
      PROVE  /\ c \in Creator /\ rows[handler[h].p][c] # "NONE"
             /\ handler' \in [Handler -> HandlerRow]
             /\ handler'[h].op = "found" /\ handler'[h].p = handler[h].p
             /\ handler'[h].event = handler[h].event /\ handler'[h].row = c
             /\ \A k \in Handler : k # h => handler'[k] = handler[k]
  <2>1. c \in Creator /\ rows[handler[h].p][c] # "NONE"
    BY DEF Existing
  <2>2. ASSUME NEW r \in HandlerRow
        PROVE  /\ [r EXCEPT !.op = "found", !.row = c] \in HandlerRow
               /\ [r EXCEPT !.op = "found", !.row = c].op = "found"
               /\ [r EXCEPT !.op = "found", !.row = c].p = r.p
               /\ [r EXCEPT !.op = "found", !.row = c].event = r.event
               /\ [r EXCEPT !.op = "found", !.row = c].row = c
    BY <2>1 DEF HandlerRow, HandlerOp
  <2>3. handler \in [Handler -> HandlerRow]
    BY DEF TypeOK
  <2>4. handler' = [handler EXCEPT ![h] = [handler[h] EXCEPT !.op = "found", !.row = c]]
    BY <1>1
  <2> QED BY <2>1, <2>2, <2>3, <2>4
<1>2. CASE handler' = [handler EXCEPT ![h].op = "found"]
  BY <1>2 DEF Become
<1>3. CASE Finish(h)
  BY <1>3
<1>4. CASE \E c \in Existing(handler[h].p) :
             handler' = [handler EXCEPT ![h].op = "found", ![h].row = c]
  BY <1>1, <1>4
<1> QED BY <1>2, <1>3, <1>4 DEF FindRow

\* A loop ends or goes on to other payments.
LEMMA Loops ==
  ASSUME NEW S \in SUBSET Payment
  PROVE  /\ Looping(S) \in RunRow /\ Looping(S).todo = S
         /\ Looping(S).phase \in {"idle", "loop"}
  BY DEF Looping, NoRun, RunRow

\* A loop writes its own record only.
LEMMA RunWrites ==
  ASSUME TypeOK, NEW n \in Run, NEW r \in RunRow, run' = [run EXCEPT ![n] = r]
  PROVE  /\ run' \in [Run -> RunRow] /\ run'[n] = r
         /\ \A m \in Run : m # n => run'[m] = run[m]
BY DEF TypeOK

\* What a status call answers, and who is misjudged by it.
LEMMA Asks ==
  ASSUME TypeOK, NEW n \in Run, NEW p \in Payment, AskStatus(n, p)
  PROVE  \E r \in RunRow :
           /\ run' = [run EXCEPT ![n] = r]
           /\ r.todo \subseteq run[n].todo
           /\ r.phase \in {"completed", "failed"} => r.p = p /\ p \in run[n].todo
           /\ r.phase = "completed" => pay[p] = "approved"
           /\ r.phase = "failed" => pay[p] = "declined" \/ p \in misjudged'
<1>1. PICK answer \in Answers(p) :
        /\ run' = [run EXCEPT ![n] =
                     IF answer = "pending" THEN Looping(run[n].todo \ {p})
                     ELSE [phase |-> answer, todo |-> run[n].todo \ {p}, p |-> p]]
        /\ misjudged' = IF answer = "failed" /\ pay[p] # "declined"
                        THEN misjudged \cup {p} ELSE misjudged
  BY DEF AskStatus
<1>2. run[n].todo \in SUBSET Payment /\ p \in run[n].todo
  BY DEF TypeOK, RunRow, AskStatus
<1>3. pay[p] \in PayStatus
  BY DEF TypeOK
<1>4. /\ answer \in {"pending", "completed", "failed"}
      /\ answer = "completed" => pay[p] = "approved"
      /\ answer = "failed" => pay[p] = "declined" \/ p \in misjudged'
  BY <1>1, <1>3 DEF Answers, PayStatus
<1>5. CASE answer = "pending"
  <2> DEFINE S == run[n].todo \ {p}
  <2>1. S \in SUBSET Payment
    BY <1>2
  <2>2. run' = [run EXCEPT ![n] = Looping(S)]
    BY <1>1, <1>5
  <2> HIDE DEF S
  <2>3. Looping(S) \in RunRow /\ Looping(S).todo = S /\ Looping(S).phase \in {"idle", "loop"}
    BY <2>1, Loops
  <2> QED BY <2>2, <2>3 DEF S
<1>6. CASE answer # "pending"
  <2> DEFINE r == [phase |-> answer, todo |-> run[n].todo \ {p}, p |-> p]
  <2>1. r \in RunRow
    BY <1>2, <1>4, <1>6 DEF RunRow
  <2> WITNESS r \in RunRow
  <2> QED BY <1>1, <1>2, <1>4, <1>6
<1> QED BY <1>5, <1>6

-----------------------------------------------------------------------------
(***************************************************************************)
(* The invariant: types and addresses.                                     *)
(***************************************************************************)
\* The statuses admins set are statuses of users.
LEMMA TypeStep ==
  ASSUME TypeOK, Addressed, Step, mock' = mock
  PROVE  TypeOK'
<1> USE DEF users
<1>1. ASSUME NEW p \in Payment,
             ReadUser(p) \/ Collect(p) \/ MockCollect(p) \/ ProviderDecides(p) \/ PurchaseFault(p)
      PROVE  TypeOK'
  <2>1. pc' \in [Payment -> {"idle", "checked", "collected", "paid", "done"}]
    BY <1>1 DEF ReadUser, Collect, MockCollect, ProviderDecides, PurchaseFault, Goto, TypeOK
  <2>2. pay' \in [Payment -> PayStatus]
    BY <1>1 DEF ReadUser, Collect, MockCollect, ProviderDecides, PurchaseFault, Fault, TypeOK,
       PayStatus
  <2>3. faults' \in Nat
    BY <1>1 DEF ReadUser, Collect, MockCollect, ProviderDecides, PurchaseFault, Fault, TypeOK
  <2> QED BY <1>1, <2>1, <2>2, <2>3 DEF ReadUser, Collect, MockCollect, ProviderDecides,
         PurchaseFault, Fault, TypeOK
<1>2. ASSUME NEW p \in Payment, RecordPending(p) PROVE TypeOK'
  <2>1. "service" \in Creator /\ "PENDING" \in RowStatus
    BY DEF Creator, RowStatus
  <2>2. rows' \in [Payment -> [Creator -> RowStatus]]
    BY <1>2, <2>1, RowWrites DEF RecordPending
  <2> QED BY <1>2, <2>2 DEF RecordPending, Goto, TypeOK
<1>3. ASSUME NEW p \in Payment, GrantAtOnce(p) PROVE TypeOK'
  <2>1. "service" \in Creator
    BY DEF Creator
  <2> QED BY <1>3, <2>1, GrantWrites DEF GrantAtOnce, Goto, TypeOK
<1>4. ASSUME NEW h \in Handler, NEW p \in Payment, LookUpWebhook(h, p) PROVE TypeOK'
  BY <1>4, LooksUp DEF LookUpWebhook, TypeOK
<1>5. ASSUME NEW h \in Handler, RecordWebhook(h) PROVE TypeOK'
  <2>1. handler[h].p \in Payment /\ handler[h].event \in Event
    BY <1>5 DEF Addressed, RecordWebhook
  <2>2. "recorded" \in HandlerOp
    BY DEF HandlerOp
  <2>3. handler' \in [Handler -> HandlerRow]
    BY <1>5, <2>2, Becomes, Finishes DEF RecordWebhook
  <2> QED BY <1>5, <2>1, <2>3 DEF RecordWebhook, TypeOK
<1>6. ASSUME NEW h \in Handler, DeclinePending(h) PROVE TypeOK'
  <2> DEFINE p == handler[h].p
             s == IF rows[p]["service"] = "PENDING" THEN "FAILED" ELSE rows[p]["service"]
  <2>1. p \in Payment
    BY <1>6 DEF Addressed, DeclinePending
  <2>2. "service" \in Creator
    BY DEF Creator
  <2>3. s \in RowStatus
    BY <2>1, <2>2 DEF TypeOK, RowStatus
  <2>4. rows' = [rows EXCEPT ![p]["service"] = s]
    BY <1>6 DEF DeclinePending
  <2> HIDE DEF s
  <2>5. rows' \in [Payment -> [Creator -> RowStatus]]
    BY <2>1, <2>2, <2>3, <2>4, RowWrites
  <2> QED BY <1>6, <2>5, Finishes DEF DeclinePending, TypeOK
<1>7. ASSUME NEW h \in Handler, FindRow(h) PROVE TypeOK'
  <2>1. "found" \in HandlerOp
    BY DEF HandlerOp
  <2>2. handler' \in [Handler -> HandlerRow]
    BY <1>7, <2>1, Finds, Becomes, Finishes
  <2> QED BY <1>7, <2>2 DEF FindRow, TypeOK
<1>8. ASSUME NEW h \in Handler, CheckUser(h) \/ VerifyStatus(h) \/ HandlerFault(h) PROVE TypeOK'
  <2>1. Finish(h) \/ \E op \in HandlerOp : Become(h, op)
    BY <1>8 DEF CheckUser, VerifyStatus, HandlerFault, HandlerOp
  <2>2. handler' \in [Handler -> HandlerRow]
    BY <2>1, Becomes, Finishes
  <2>3. faults' \in Nat
    BY <1>8 DEF CheckUser, VerifyStatus, HandlerFault, Fault, TypeOK
  <2> QED BY <1>8, <2>2, <2>3 DEF CheckUser, VerifyStatus, HandlerFault, Fault, TypeOK
<1>9. ASSUME NEW h \in Handler, RecordFraud(h) PROVE TypeOK'
  <2>1. handler[h].p \in Payment /\ handler[h].event \in Creator
    BY <1>9 DEF Addressed, RecordFraud, Granting, Creator
  <2>2. "FAILED" \in RowStatus
    BY DEF RowStatus
  <2>3. rows' \in [Payment -> [Creator -> RowStatus]]
    BY <1>9, <2>1, <2>2, RowWrites DEF RecordFraud
  <2> QED BY <1>9, <2>3, Finishes DEF RecordFraud, TypeOK
<1>10. ASSUME NEW h \in Handler, CommitGrant(h) PROVE TypeOK'
  <2> DEFINE c == IF handler[h].row = "none" THEN handler[h].event ELSE handler[h].row
  <2>1. handler[h].p \in Payment /\ c \in Creator
    BY <1>10 DEF Addressed, CommitGrant, Granting, Creator, TypeOK, HandlerRow
  <2>2. Grant(handler[h].p, c)
    BY <1>10 DEF CommitGrant
  <2> HIDE DEF c
  <2> QED BY <1>10, <2>1, <2>2, GrantWrites, Finishes DEF CommitGrant, TypeOK
<1>11. ASSUME NEW n \in Run, StartRun(n) PROVE TypeOK'
  <2>1. [phase |-> "loop", todo |-> PendingRows(n), p |-> NoPayment] \in RunRow
    BY DEF PendingRows, RunRow
  <2> QED BY <1>11, <2>1 DEF StartRun, TypeOK
<1>12. ASSUME NEW n \in Run, NEW p \in Payment, AskStatus(n, p) PROVE TypeOK'
  <2>1. run' \in [Run -> RunRow]
    BY <1>12, Asks, RunWrites
  <2>2. misjudged' \subseteq Payment
    BY <1>12 DEF AskStatus, TypeOK
  <2> QED BY <1>12, <2>1, <2>2 DEF AskStatus, TypeOK
<1>13. ASSUME NEW n \in Run, CommitRunCompleted(n) PROVE TypeOK'
  <2>1. run[n].p \in Payment /\ "service" \in Creator
    BY <1>13 DEF Addressed, CommitRunCompleted, Creator
  <2>2. run[n].todo \in SUBSET Payment
    BY DEF TypeOK, RunRow
  <2>3. run' \in [Run -> RunRow]
    BY <1>13, <2>2, Loops, RunWrites DEF CommitRunCompleted
  <2> QED BY <1>13, <2>1, <2>3, GrantWrites DEF CommitRunCompleted, TypeOK
<1>14. ASSUME NEW n \in Run, CommitRunFailed(n) PROVE TypeOK'
  <2>1. run[n].p \in Payment /\ "service" \in Creator /\ "FAILED" \in RowStatus
    BY <1>14 DEF Addressed, CommitRunFailed, Creator, RowStatus
  <2>2. run[n].todo \in SUBSET Payment
    BY DEF TypeOK, RunRow
  <2>3. run' \in [Run -> RunRow]
    BY <1>14, <2>2, Loops, RunWrites DEF CommitRunFailed
  <2>4. rows' \in [Payment -> [Creator -> RowStatus]]
    BY <1>14, <2>1, RowWrites DEF CommitRunFailed
  <2> QED BY <1>14, <2>3, <2>4 DEF CommitRunFailed, TypeOK
<1>15. NoRun \in RunRow /\ Idle \in HandlerRow
  BY DEF NoRun, RunRow, Idle, HandlerRow, HandlerOp
<1>16. ASSUME NEW n \in Run, RunFault(n) PROVE TypeOK'
  BY <1>15, <1>16 DEF RunFault, Fault, TypeOK
<1>17. ASSUME NEW u \in User, AdminReads(u) \/ AdminWrites(u) PROVE TypeOK'
  <2>1. admin' \in [User -> AdminDecision \cup {"none"}]
    BY <1>17 DEF AdminReads, AdminWrites, TypeOK
  <2>2. userStatus' \in [User -> UserStatus]
    BY <1>17, BoundAssumption DEF AdminReads, AdminWrites, TypeOK
  <2>3. manual' \subseteq User
    BY <1>17 DEF AdminReads, AdminWrites, TypeOK
  <2> QED BY <1>17, <2>1, <2>2, <2>3 DEF AdminReads, AdminWrites, TypeOK
<1>18. ASSUME Crash PROVE TypeOK'
  BY <1>15, <1>18 DEF Crash, Fault, Stopped, TypeOK
<1> QED
  BY <1>1, <1>2, <1>3, <1>4, <1>5, <1>6, <1>7, <1>8, <1>9, <1>10, <1>11, <1>12, <1>13, <1>14,
     <1>16, <1>17, <1>18 DEF Step, PurchaseStep, HandlerStep, RunStep

-----------------------------------------------------------------------------
(***************************************************************************)
(* How a handler moves.                                                    *)
(***************************************************************************)
Same(h) ==
  /\ handler'[h].p = handler[h].p /\ handler'[h].event = handler[h].event
  /\ handler'[h].row = handler[h].row

Ends(h) == handler'[h].op = "idle"
StartsWith(h) ==
  /\ handler'[h].op = "webhook" /\ handler'[h].row = "none"
  /\ handler'[h].p \in Payment /\ handler'[h].event \in Event
Passes(h) ==
  /\ handler[h].op = "webhook" /\ handler'[h].op = "recorded" /\ Same(h)
  /\ <<handler[h].event, handler[h].p>> \notin seen
  /\ seen' = seen \cup {<<handler[h].event, handler[h].p>>}
FindsRow(h) ==
  /\ handler[h].op = "recorded" /\ handler'[h].op = "found"
  /\ handler[h].event \in ApprovalEvent
  /\ handler'[h].p = handler[h].p /\ handler'[h].event = handler[h].event
  /\ \/ handler'[h].row = handler[h].row
     \/ rows[handler[h].p][handler'[h].row] # "NONE"
Judges(h) ==
  /\ handler[h].op = "found" /\ handler'[h].op \in {"fraud", "verify"} /\ Same(h)
Decides(h) ==
  /\ handler[h].op = "verify" /\ handler'[h].op = "grant" /\ Same(h)
  /\ pay[handler[h].p] = "approved"

Moves(h) ==
  /\ Ends(h) \/ StartsWith(h) \/ Passes(h) \/ FindsRow(h) \/ Judges(h) \/ Decides(h)
  /\ \A k \in Handler : k # h => handler'[k] = handler[k]
  /\ seen \subseteq seen'

HandlerActs(h) ==
  HandlerStep(h) \/ HandlerFault(h) \/ \E p \in Payment : LookUpWebhook(h, p)

\* An answer "completed" means that the payment is approved.
LEMMA CompletedIsApproved ==
  ASSUME TypeOK, NEW p \in Payment, "completed" \in Answers(p)
  PROVE  pay[p] = "approved"
BY DEF Answers, TypeOK, PayStatus

\* Every step of a handler is one of these.
LEMMA HandlerMoves ==
  ASSUME TypeOK, Addressed, NEW h \in Handler, HandlerActs(h)
  PROVE  Moves(h)
<1>1. ASSUME Finish(h), seen \subseteq seen' PROVE Moves(h)
  BY <1>1, Finishes DEF Moves, Ends
<1>2. ASSUME NEW p \in Payment, LookUpWebhook(h, p) PROVE Moves(h)
  <2>1. StartsWith(h) /\ \A k \in Handler : k # h => handler'[k] = handler[k]
    BY <1>2, LooksUp DEF StartsWith
  <2>2. seen' = seen
    BY <1>2 DEF LookUpWebhook
  <2> QED BY <2>1, <2>2 DEF Moves
<1>3. ASSUME RecordWebhook(h) PROVE Moves(h)
  <2> DEFINE key == <<handler[h].event, handler[h].p>>
  <2>1. seen' = seen \cup {key}
    BY <1>3 DEF RecordWebhook
  <2>2. CASE Finish(h)
    BY <1>1, <2>1, <2>2
  <2>3. CASE key \notin seen /\ Become(h, "recorded")
    <3>1. "recorded" \in HandlerOp
      BY DEF HandlerOp
    <3>2. /\ handler'[h].op = "recorded" /\ Same(h)
          /\ \A k \in Handler : k # h => handler'[k] = handler[k]
      BY <2>3, <3>1, Becomes DEF Same
    <3>3. Passes(h)
      BY <1>3, <2>1, <2>3, <3>2 DEF RecordWebhook, Passes
    <3> QED BY <2>1, <3>2, <3>3 DEF Moves
  <2> QED BY <1>3, <2>2, <2>3 DEF RecordWebhook
<1>4. ASSUME FindRow(h) PROVE Moves(h)
  <2>1. /\ handler[h].op = "recorded" /\ handler[h].event \in ApprovalEvent
        /\ seen' = seen
    BY <1>4 DEF FindRow
  <2>2. CASE Become(h, "found")
    <3>1. "found" \in HandlerOp
      BY DEF HandlerOp
    <3>2. /\ handler'[h].op = "found" /\ Same(h)
          /\ \A k \in Handler : k # h => handler'[k] = handler[k]
      BY <2>2, <3>1, Becomes DEF Same
    <3>3. FindsRow(h)
      BY <2>1, <3>2 DEF FindsRow, Same
    <3> QED BY <2>1, <3>2, <3>3 DEF Moves
  <2>3. CASE Finish(h)
    BY <1>1, <2>1, <2>3
  <2>4. CASE \E c \in Creator :
              /\ rows[handler[h].p][c] # "NONE"
              /\ handler'[h].op = "found" /\ handler'[h].p = handler[h].p
              /\ handler'[h].event = handler[h].event /\ handler'[h].row = c
              /\ \A k \in Handler : k # h => handler'[k] = handler[k]
    <3>1. FindsRow(h) /\ \A k \in Handler : k # h => handler'[k] = handler[k]
      BY <2>1, <2>4 DEF FindsRow
    <3> QED BY <2>1, <3>1 DEF Moves
  <2> QED BY <1>4, <2>2, <2>3, <2>4, Finds
<1>5. ASSUME CheckUser(h) PROVE Moves(h)
  <2>1. handler[h].op = "found" /\ seen' = seen
    BY <1>5 DEF CheckUser
  <2>2. CASE Finish(h)
    BY <1>1, <2>1, <2>2
  <2>3. CASE \E op \in {"fraud", "verify"} : Become(h, op)
    <3>1. {"fraud", "verify"} \subseteq HandlerOp
      BY DEF HandlerOp
    <3>2. Judges(h) /\ \A k \in Handler : k # h => handler'[k] = handler[k]
      BY <2>1, <2>3, <3>1, Becomes DEF Judges, Same
    <3> QED BY <2>1, <3>2 DEF Moves
  <2> QED BY <1>5, <2>2, <2>3 DEF CheckUser
<1>6. ASSUME VerifyStatus(h) PROVE Moves(h)
  <2>1. handler[h].op = "verify" /\ seen' = seen /\ handler[h].p \in Payment
    BY <1>6 DEF VerifyStatus, Addressed
  <2>2. CASE Finish(h)
    BY <1>1, <2>1, <2>2
  <2>3. CASE "completed" \in Answers(handler[h].p) /\ Become(h, "grant")
    <3>1. "grant" \in HandlerOp
      BY DEF HandlerOp
    <3>2. pay[handler[h].p] = "approved"
      BY <2>1, <2>3, CompletedIsApproved
    <3>3. Decides(h) /\ \A k \in Handler : k # h => handler'[k] = handler[k]
      BY <2>1, <2>3, <3>1, <3>2, Becomes DEF Decides, Same
    <3> QED BY <2>1, <3>3 DEF Moves
  <2> QED BY <1>6, <2>2, <2>3 DEF VerifyStatus
<1>7. ASSUME DeclinePending(h) \/ RecordFraud(h) \/ CommitGrant(h) \/ HandlerFault(h)
      PROVE  Moves(h)
  BY <1>1, <1>7 DEF DeclinePending, RecordFraud, CommitGrant, HandlerFault, Fault
<1> QED
  BY <1>2, <1>3, <1>4, <1>5, <1>6, <1>7 DEF HandlerActs, HandlerStep

-----------------------------------------------------------------------------
(***************************************************************************)
(* How the other processes move.                                           *)
(***************************************************************************)
RunActs(n) == StartRun(n) \/ RunStep(n) \/ RunFault(n)
PurchaseActs(p) ==
  ReadUser(p) \/ PurchaseStep(p) \/ ProviderDecides(p) \/ PurchaseFault(p)
AdminActs(u) == AdminReads(u) \/ AdminWrites(u)

\* Each step is one of a handler, a loop, a purchase, an admin, or a crash, and
\* leaves the records of the others alone.
LEMMA Steps ==
  ASSUME Step
  PROVE  \/ \E h \in Handler : HandlerActs(h) /\ UNCHANGED <<run, pc, pay, admin, manual>>
         \/ \E n \in Run : RunActs(n) /\ UNCHANGED <<handler, pc, pay, seen, admin, manual>>
         \/ \E p \in Payment : PurchaseActs(p) /\ UNCHANGED <<handler, run, seen, admin, manual>>
         \/ \E u \in User : AdminActs(u) /\ UNCHANGED <<handler, run, pc, pay, seen, rows>>
         \/ Crash
<1>1. ASSUME NEW h \in Handler, HandlerActs(h) PROVE UNCHANGED <<run, pc, pay, admin, manual>>
  BY <1>1 DEF HandlerActs, HandlerStep, LookUpWebhook, RecordWebhook, DeclinePending, FindRow,
     CheckUser, RecordFraud, VerifyStatus, CommitGrant, HandlerFault, Fault
<1>2. ASSUME NEW n \in Run, RunActs(n) PROVE UNCHANGED <<handler, pc, pay, seen, admin, manual>>
  BY <1>2 DEF RunActs, RunStep, StartRun, AskStatus, CommitRunCompleted, CommitRunFailed,
     RunFault, Fault
<1>3. ASSUME NEW p \in Payment, PurchaseActs(p)
      PROVE  UNCHANGED <<handler, run, seen, admin, manual>>
  BY <1>3 DEF PurchaseActs, PurchaseStep, ReadUser, Collect, RecordPending, MockCollect,
     GrantAtOnce, ProviderDecides, PurchaseFault, Fault
<1>4. ASSUME NEW u \in User, AdminActs(u) PROVE UNCHANGED <<handler, run, pc, pay, seen, rows>>
  BY <1>4 DEF AdminActs, AdminReads, AdminWrites
<1> QED
  BY <1>1, <1>2, <1>3, <1>4 DEF Step, HandlerActs, RunActs, PurchaseActs, AdminActs

\* After a crash nothing is in flight.
LEMMA Crashes ==
  ASSUME TypeOK, Crash
  PROVE  /\ \A h \in Handler : handler'[h].op = "idle"
         /\ \A n \in Run : run'[n].phase = "idle" /\ run'[n].todo = {}
         /\ \A p \in Payment : pc'[p] \in {"idle", "done"} /\ (pc'[p] = "idle" => pc[p] = "idle")
         /\ UNCHANGED <<users, rows, pay, seen, manual>>
BY DEF Crash, Fault, Idle, NoRun, Stopped, TypeOK

\* What is settled with the provider stays settled.
LEMMA Settled ==
  ASSUME TypeOK, Justified, Step
  PROVE  \A p \in Payment :
           /\ pay[p] \in {"approved", "declined"} => pay'[p] = pay[p]
           /\ pay[p] # "none" => pay'[p] # "none"
<1>1. ASSUME NEW q \in Payment, PurchaseActs(q)
      PROVE  \A p \in Payment :
               /\ pay[p] \in {"approved", "declined"} => pay'[p] = pay[p]
               /\ pay[p] # "none" => pay'[p] # "none"
  <2>1. CASE pay' = pay
    BY <2>1
  <2>2. CASE Collect(q)
    BY <2>2 DEF Collect, Goto, Justified, TypeOK
  <2>3. CASE MockCollect(q)
    BY <2>3 DEF MockCollect, Goto, Justified, TypeOK
  <2>4. CASE ProviderDecides(q)
    BY <2>4 DEF ProviderDecides, TypeOK
  <2> QED BY <1>1, <2>1, <2>2, <2>3, <2>4 DEF PurchaseActs, PurchaseStep, ReadUser,
         RecordPending, GrantAtOnce, PurchaseFault, Fault
<1> QED BY <1>1, Steps, Crashes

\* No step forgets which payments were misjudged.
LEMMA MisjudgedGrows ==
  ASSUME Step
  PROVE  misjudged \subseteq misjudged'
<1>1. ASSUME NEW h \in Handler, HandlerActs(h) PROVE misjudged' = misjudged
  BY <1>1 DEF HandlerActs, HandlerStep, LookUpWebhook, RecordWebhook, DeclinePending, FindRow,
     CheckUser, RecordFraud, VerifyStatus, CommitGrant, HandlerFault, Fault
<1>2. ASSUME NEW n \in Run, RunActs(n) PROVE misjudged \subseteq misjudged'
  BY <1>2 DEF RunActs, RunStep, StartRun, AskStatus, CommitRunCompleted, CommitRunFailed,
     RunFault, Fault
<1>3. ASSUME NEW p \in Payment, PurchaseActs(p) PROVE misjudged' = misjudged
  BY <1>3 DEF PurchaseActs, PurchaseStep, ReadUser, Collect, RecordPending, MockCollect,
     GrantAtOnce, ProviderDecides, PurchaseFault, Fault
<1>4. ASSUME NEW u \in User, AdminActs(u) PROVE misjudged' = misjudged
  BY <1>4 DEF AdminActs, AdminReads, AdminWrites
<1>5. CASE Crash
  BY <1>5 DEF Crash, Fault
<1> QED BY <1>1, <1>2, <1>3, <1>4, <1>5, Steps

\* How a loop moves: it starts over pending rows, goes on with less, learns of
\* one payment, or ends.
LEMMA RunMoves ==
  ASSUME TypeOK, NEW n \in Run, RunActs(n)
  PROVE  /\ \A m \in Run : m # n => run'[m] = run[m]
         /\ \A p \in Payment : p \in run'[n].todo =>
              p \in run[n].todo \/ rows[p]["service"] = "PENDING"
         /\ run'[n].phase \in {"completed", "failed"} =>
              run'[n].p \in Payment /\ run'[n].p \in run[n].todo
         /\ run'[n].phase = "completed" => pay[run'[n].p] = "approved"
         /\ run'[n].phase = "failed" => pay[run'[n].p] = "declined" \/ run'[n].p \in misjudged'
<1>1. CASE StartRun(n)
  <2> DEFINE r == [phase |-> "loop", todo |-> PendingRows(n), p |-> NoPayment]
  <2>1. /\ r \in RunRow /\ r.phase = "loop"
        /\ \A p \in Payment : p \in r.todo => rows[p]["service"] = "PENDING"
    BY DEF PendingRows, RunRow
  <2>2. run' = [run EXCEPT ![n] = r]
    BY <1>1 DEF StartRun
  <2> HIDE DEF r
  <2> QED BY <2>1, <2>2, RunWrites
<1>2. CASE \E p \in Payment : AskStatus(n, p)
  <2>1. PICK p \in Payment, r \in RunRow :
           /\ run' = [run EXCEPT ![n] = r]
           /\ r.todo \subseteq run[n].todo
           /\ r.phase \in {"completed", "failed"} => r.p = p /\ p \in run[n].todo
           /\ r.phase = "completed" => pay[p] = "approved"
           /\ r.phase = "failed" => pay[p] = "declined" \/ p \in misjudged'
    BY <1>2, Asks
  <2>2. run'[n] = r /\ \A m \in Run : m # n => run'[m] = run[m]
    BY <2>1, RunWrites
  <2> QED BY <2>1, <2>2
<1>3. CASE run' = [run EXCEPT ![n] = Looping(run[n].todo)]
  <2>1. run[n].todo \in SUBSET Payment
    BY DEF TypeOK, RunRow
  <2>2. PICK r \in RunRow : r = Looping(run[n].todo)
    BY <2>1, Loops
  <2>3. r.todo = run[n].todo /\ r.phase \in {"idle", "loop"}
    BY <2>1, <2>2, Loops
  <2> QED BY <1>3, <2>2, <2>3, RunWrites
<1>4. CASE RunFault(n)
  <2>1. NoRun \in RunRow /\ NoRun.phase = "idle" /\ NoRun.todo = {}
    BY DEF NoRun, RunRow
  <2> QED BY <1>4, <2>1, RunWrites DEF RunFault
<1> QED
  BY <1>1, <1>2, <1>3, <1>4 DEF RunActs, RunStep, CommitRunCompleted, CommitRunFailed

-----------------------------------------------------------------------------
(***************************************************************************)
(* The invariant: what the processes in flight know.                       *)
(***************************************************************************)
\* No step loses an address.
LEMMA AddressedStep ==
  ASSUME TypeOK, Addressed, Step
  PROVE  Addressed'
<1>1. ASSUME NEW h \in Handler, HandlerActs(h), run' = run PROVE Addressed'
  BY <1>1, HandlerMoves DEF Addressed, Moves, Ends, StartsWith, Passes, FindsRow, Judges, Decides,
     Same, Granting
<1>2. ASSUME NEW n \in Run, RunActs(n), handler' = handler PROVE Addressed'
  BY <1>2, RunMoves DEF Addressed
<1>3. ASSUME UNCHANGED <<handler, run>> PROVE Addressed'
  BY <1>3 DEF Addressed
<1>4. ASSUME Crash PROVE Addressed'
  BY <1>4, Crashes DEF Addressed
<1> QED BY <1>1, <1>2, <1>3, <1>4, Steps

\* Each step of a purchase keeps the order of its stages.
LEMMA PurchaseMoves ==
  ASSUME TypeOK, Justified, NEW p \in Payment, PurchaseActs(p)
  PROVE  /\ pc'[p] \in {"idle", "checked"} => pay'[p] = "none"
         /\ pc'[p] = "paid" => pay'[p] = "approved"
         /\ pc'[p] = "collected" => pay'[p] # "none"
         /\ pc'[p] \in {"idle", "checked", "collected"} =>
              pc[p] \in {"idle", "checked", "collected"} /\ rows'[p] = rows[p]
         /\ \A q \in Payment : q # p => pc'[q] = pc[q] /\ pay'[q] = pay[q] /\ rows'[q] = rows[q]
<1> USE DEF Goto, Justified, TypeOK
<1>1. CASE ReadUser(p)
  BY <1>1 DEF ReadUser
<1>2. CASE Collect(p)
  <2>1. rows' = rows /\ pc[p] = "checked"
    BY <1>2 DEF Collect
  <2>2. CASE pc' = [pc EXCEPT ![p] = "collected"] /\ pay' = [pay EXCEPT ![p] = "open"]
    BY <2>1, <2>2
  <2>3. CASE pc' = [pc EXCEPT ![p] = "done"] /\ pay' = pay
    BY <2>1, <2>3
  <2> QED BY <1>2, <2>2, <2>3 DEF Collect
<1>3. CASE RecordPending(p)
  BY <1>3 DEF RecordPending
<1>4. CASE MockCollect(p)
  BY <1>4 DEF MockCollect
<1>5. CASE GrantAtOnce(p)
  BY <1>5 DEF GrantAtOnce, Grant
<1>6. CASE ProviderDecides(p)
  <2>1. pc' = pc /\ rows' = rows /\ pay[p] = "open"
    BY <1>6 DEF ProviderDecides
  <2>2. pc[p] \notin {"idle", "checked", "paid"}
    BY <2>1
  <2>3. PICK d \in {"approved", "declined"} : pay' = [pay EXCEPT ![p] = d]
    BY <1>6 DEF ProviderDecides
  <2> QED BY <2>1, <2>2, <2>3
<1>7. CASE PurchaseFault(p)
  BY <1>7 DEF PurchaseFault, Fault
<1> QED BY <1>1, <1>2, <1>3, <1>4, <1>5, <1>6, <1>7 DEF PurchaseActs, PurchaseStep

\* No step takes away the reason of a grant.
LEMMA JustifiedStep ==
  ASSUME TypeOK, Addressed, Justified, Step
  PROVE  Justified'
<1>1. ASSUME NEW h \in Handler, HandlerActs(h), UNCHANGED <<run, pc, pay>> PROVE Justified'
  <2>1. ASSUME NEW k \in Handler, handler'[k].op = "grant" PROVE pay'[handler'[k].p] = "approved"
    <3>1. CASE k = h
      <4>1. Decides(h)
        BY <1>1, <2>1, <3>1, HandlerMoves DEF Moves, Ends, StartsWith, Passes, FindsRow, Judges
      <4> QED BY <1>1, <3>1, <4>1 DEF Decides, Same
    <3>2. CASE k # h
      BY <1>1, <2>1, <3>2, HandlerMoves DEF Moves, Justified
    <3> QED BY <3>1, <3>2
  <2> QED BY <1>1, <2>1 DEF Justified
<1>2. ASSUME NEW n \in Run, RunActs(n), UNCHANGED <<handler, pc, pay>> PROVE Justified'
  BY <1>2, RunMoves DEF Justified
<1>3. ASSUME NEW p \in Payment, PurchaseActs(p), UNCHANGED <<handler, run>> PROVE Justified'
  <2>1. \A h \in Handler : handler'[h].op = "grant" => pay'[handler'[h].p] = "approved"
    BY <1>3, Settled DEF Justified, Addressed
  <2>2. \A n \in Run : run'[n].phase = "completed" => pay'[run'[n].p] = "approved"
    BY <1>3, Settled DEF Justified, Addressed
  <2>3. \A q \in Payment : /\ pc'[q] \in {"idle", "checked"} => pay'[q] = "none"
                           /\ pc'[q] = "collected" => pay'[q] # "none"
                           /\ pc'[q] = "paid" => pay'[q] = "approved"
    <3>1. ASSUME NEW q \in Payment, q # p PROVE pc'[q] = pc[q] /\ pay'[q] = pay[q]
      BY <1>3, <3>1, PurchaseMoves
    <3>2. /\ pc'[p] \in {"idle", "checked"} => pay'[p] = "none"
          /\ pc'[p] = "collected" => pay'[p] # "none"
          /\ pc'[p] = "paid" => pay'[p] = "approved"
      BY <1>3, PurchaseMoves
    <3> QED BY <3>1, <3>2 DEF Justified
  <2> QED BY <2>1, <2>2, <2>3 DEF Justified
<1>4. ASSUME NEW u \in User, AdminActs(u), UNCHANGED <<handler, run, pc, pay>> PROVE Justified'
  BY <1>4 DEF Justified
<1>5. ASSUME Crash PROVE Justified'
  BY <1>5, Crashes DEF Justified
<1> QED BY <1>1, <1>2, <1>3, <1>4, <1>5, Steps

\* A second handler of an event does not pass.
LEMMA OneHandlerStep ==
  ASSUME TypeOK, Addressed, OneHandlerEach, EventRows, Step
  PROVE  OneHandlerEach'
<1>1. ASSUME NEW h \in Handler, HandlerActs(h) PROVE OneHandlerEach'
  <2>1. SUFFICES ASSUME NEW k \in Handler, k # h, handler'[h].op \in Recorded,
                        handler'[k].op \in Recorded,
                        handler'[h].event = handler'[k].event, handler'[h].p = handler'[k].p
                 PROVE  FALSE
    BY <1>1, HandlerMoves DEF OneHandlerEach, Moves
  <2>2. handler'[k] = handler[k] /\ handler[k].op \in Recorded
    BY <1>1, <2>1, HandlerMoves DEF Moves
  <2>3. <<handler[k].event, handler[k].p>> \in seen
    BY <2>2 DEF EventRows
  <2>4. CASE handler[h].op \in Recorded /\ handler'[h].event = handler[h].event
             /\ handler'[h].p = handler[h].p
    BY <2>1, <2>2, <2>4 DEF OneHandlerEach
  <2>5. CASE Passes(h)
    BY <2>1, <2>2, <2>3, <2>5 DEF Passes, Same
  <2> QED BY <1>1, <2>1, <2>4, <2>5, HandlerMoves DEF Moves, Ends, StartsWith, FindsRow, Judges,
         Decides, Same, Recorded
<1>2. ASSUME handler' = handler PROVE OneHandlerEach'
  BY <1>2 DEF OneHandlerEach
<1>3. ASSUME Crash PROVE OneHandlerEach'
  BY <1>3, Crashes DEF OneHandlerEach, Recorded
<1> QED BY <1>1, <1>2, <1>3, Steps

\* A handler leaves the rows alone, or ends as it writes one.
LEMMA HandlerRows ==
  ASSUME NEW h \in Handler, HandlerActs(h)
  PROVE  UNCHANGED <<rows, users>> \/ DeclinePending(h) \/ RecordFraud(h) \/ CommitGrant(h)
BY DEF HandlerActs, HandlerStep, LookUpWebhook, RecordWebhook, FindRow, CheckUser, VerifyStatus,
   HandlerFault, Fault

\* A row written is never the row of nothing.
LEMMA RowKept ==
  ASSUME TypeOK, NEW p \in Payment, NEW c \in Creator, NEW s \in RowStatus \ {"NONE"},
         rows' = [rows EXCEPT ![p][c] = s]
  PROVE  \A q \in Payment, d \in Creator :
           /\ rows[q][d] # "NONE" => rows'[q][d] # "NONE"
           /\ rows'[q][d] # "NONE" => rows[q][d] # "NONE" \/ (q = p /\ d = c)
<1> SUFFICES ASSUME NEW q \in Payment, NEW d \in Creator
    PROVE  /\ rows[q][d] # "NONE" => rows'[q][d] # "NONE"
           /\ rows'[q][d] # "NONE" => rows[q][d] # "NONE" \/ (q = p /\ d = c)
  OBVIOUS
<1>1. CASE q = p /\ d = c
  BY <1>1, RowWrites
<1>2. CASE q # p \/ d # c
  BY <1>2, RowWrites
<1> QED BY <1>1, <1>2

\* Writing the service's row, while handlers rest or one ends, keeps the rows of
\* events.
LEMMA ServiceWrite ==
  ASSUME TypeOK, Addressed, EventRows, NEW p \in Payment, NEW s \in RowStatus \ {"NONE"},
         rows' = [rows EXCEPT ![p]["service"] = s], seen' = seen,
         \A h \in Handler : handler'[h] = handler[h] \/ handler'[h].op = "idle"
  PROVE  EventRows'
<1>1. "service" \in Creator /\ "service" \notin ApprovalEvent /\ ApprovalEvent \subseteq Creator
  BY DEF Creator, ApprovalEvent
<1>2. \A q \in Payment, e \in ApprovalEvent : rows'[q][e] = rows[q][e]
  BY <1>1, RowWrites
<1>3. \A q \in Payment, d \in Creator : rows[q][d] # "NONE" => rows'[q][d] # "NONE"
  BY <1>1, RowKept
<1>4. ASSUME NEW h \in Handler, handler'[h].op \in Recorded
      PROVE  /\ <<handler'[h].event, handler'[h].p>> \in seen'
             /\ handler'[h].event \in ApprovalEvent => rows'[handler'[h].p][handler'[h].event] = "NONE"
  <2>1. handler'[h] = handler[h] /\ handler[h].op \in Recorded /\ handler[h].p \in Payment
    BY <1>4 DEF Recorded, Addressed
  <2> QED BY <1>2, <2>1 DEF EventRows
<1>5. ASSUME NEW h \in Handler, handler'[h].op # "idle", handler'[h].row # "none"
      PROVE  rows'[handler'[h].p][handler'[h].row] # "NONE"
  <2>1. handler'[h] = handler[h] /\ handler[h].p \in Payment
    BY <1>5 DEF Addressed
  <2>2. handler[h].row \in Creator
    BY <1>5, <2>1 DEF TypeOK, HandlerRow
  <2> QED BY <1>3, <1>5, <2>1, <2>2 DEF EventRows
<1>6. \A q \in Payment, e \in ApprovalEvent : rows'[q][e] # "NONE" => <<e, q>> \in seen'
  BY <1>2 DEF EventRows
<1> QED BY <1>4, <1>5, <1>6 DEF EventRows

\* A handler that ends as it writes its event's row, or one it found, keeps the
\* rows the others have yet to create absent.
LEMMA EventWrite ==
  ASSUME TypeOK, Addressed, OneHandlerEach, EventRows,
         NEW h \in Handler, handler[h].op \in Granting, Finish(h), seen' = seen,
         NEW c \in Creator, c = handler[h].event \/ (c = handler[h].row /\ c # "none"),
         NEW s \in RowStatus \ {"NONE"}, rows' = [rows EXCEPT ![handler[h].p][c] = s]
  PROVE  EventRows'
<1> DEFINE p == handler[h].p
<1>1. /\ p \in Payment /\ handler[h].op \in Recorded /\ handler[h].op # "idle"
      /\ handler[h].event \in ApprovalEvent
  BY DEF Addressed, Granting, Recorded
<1>2. ApprovalEvent \subseteq Creator
  BY DEF Creator
<1>3. \A k \in Handler : handler'[k].op # "idle" => k # h /\ handler'[k] = handler[k]
  BY Finishes
<1>4. \A q \in Payment, d \in Creator :
        /\ rows[q][d] # "NONE" => rows'[q][d] # "NONE"
        /\ rows'[q][d] # "NONE" => rows[q][d] # "NONE" \/ (q = p /\ d = c)
  BY <1>1, RowKept
<1>5. ASSUME NEW k \in Handler, handler'[k].op \in Recorded
      PROVE  /\ <<handler'[k].event, handler'[k].p>> \in seen'
             /\ handler'[k].event \in ApprovalEvent => rows'[handler'[k].p][handler'[k].event] = "NONE"
  <2>1. k # h /\ handler'[k] = handler[k] /\ handler[k].op \in Recorded /\ handler[k].p \in Payment
    BY <1>3, <1>5 DEF Recorded, Addressed
  <2>2. <<handler[k].event, handler[k].p>> \in seen
    BY <2>1 DEF EventRows
  <2>3. ASSUME handler[k].event \in ApprovalEvent
        PROVE  rows'[handler[k].p][handler[k].event] = "NONE"
    <3>1. rows[handler[k].p][handler[k].event] = "NONE"
      BY <2>1, <2>3 DEF EventRows
    <3>2. ~(handler[k].p = p /\ handler[k].event = c)
      <4>1. CASE c = handler[h].event
        BY <1>1, <2>1, <4>1 DEF OneHandlerEach
      <4>2. CASE c = handler[h].row /\ c # "none"
        <5>1. rows[p][c] # "NONE"
          BY <1>1, <4>2 DEF EventRows
        <5> QED BY <3>1, <5>1
      <4> QED BY <4>1, <4>2
    <3> QED BY <1>2, <1>4, <2>1, <2>3, <3>1, <3>2
  <2> QED BY <2>1, <2>2, <2>3
<1>6. ASSUME NEW k \in Handler, handler'[k].op # "idle", handler'[k].row # "none"
      PROVE  rows'[handler'[k].p][handler'[k].row] # "NONE"
  <2>1. handler'[k] = handler[k] /\ handler[k].p \in Payment
    BY <1>3, <1>6 DEF Addressed
  <2>2. handler[k].row \in Creator
    BY <1>6, <2>1 DEF TypeOK, HandlerRow
  <2> QED BY <1>4, <1>6, <2>1, <2>2 DEF EventRows
<1>7. ASSUME NEW q \in Payment, NEW e \in ApprovalEvent, rows'[q][e] # "NONE"
      PROVE  <<e, q>> \in seen'
  <2>1. CASE rows[q][e] # "NONE"
    BY <2>1 DEF EventRows
  <2>2. CASE rows[q][e] = "NONE"
    <3>1. q = p /\ e = c
      BY <1>2, <1>4, <1>7, <2>2
    <3>2. e = handler[h].event
      BY <1>1, <2>2, <3>1 DEF EventRows
    <3> QED BY <1>1, <3>1, <3>2 DEF EventRows
  <2> QED BY <2>1, <2>2
<1> QED BY <1>5, <1>6, <1>7 DEF EventRows

\* A handler that moves and writes no row finds those of the invariant.
LEMMA EventRead ==
  ASSUME TypeOK, Addressed, EventRows, NEW h \in Handler, Moves(h), rows' = rows
  PROVE  EventRows'
<1>1. ASSUME NEW k \in Handler, handler'[k].op \in Recorded
      PROVE  /\ <<handler'[k].event, handler'[k].p>> \in seen'
             /\ handler'[k].event \in ApprovalEvent => rows'[handler'[k].p][handler'[k].event] = "NONE"
  <2>1. CASE handler[k].op \in Recorded /\ handler'[k].event = handler[k].event
             /\ handler'[k].p = handler[k].p
    BY <2>1 DEF EventRows, Moves
  <2>2. CASE k = h /\ Passes(h)
    <3>1. handler[h].p \in Payment
      BY <2>2 DEF Addressed, Passes
    <3> QED BY <2>2, <3>1 DEF EventRows, Passes, Same
  <2> QED BY <1>1, <2>1, <2>2 DEF Moves, Ends, StartsWith, FindsRow, Judges, Decides, Same, Recorded
<1>2. ASSUME NEW k \in Handler, handler'[k].op # "idle", handler'[k].row # "none"
      PROVE  rows'[handler'[k].p][handler'[k].row] # "NONE"
  <2>1. CASE handler[k].op # "idle" /\ handler'[k].row = handler[k].row
             /\ handler'[k].p = handler[k].p
    BY <1>2, <2>1 DEF EventRows
  <2>2. CASE k = h /\ FindsRow(h)
    BY <1>2, <2>1, <2>2 DEF FindsRow
  <2> QED BY <1>2, <2>1, <2>2 DEF Moves, Ends, StartsWith, Passes, Judges, Decides, Same
<1>3. \A p \in Payment, e \in ApprovalEvent : rows'[p][e] # "NONE" => <<e, p>> \in seen'
  BY DEF EventRows, Moves
<1> QED BY <1>1, <1>2, <1>3 DEF EventRows

\* No step creates an event's row but the one handler that passed with it.
LEMMA EventRowsStep ==
  ASSUME TypeOK, Addressed, OneHandlerEach, EventRows, Step
  PROVE  EventRows'
<1>1. "COMPLETED" \in RowStatus \ {"NONE"} /\ "FAILED" \in RowStatus \ {"NONE"}
      /\ "PENDING" \in RowStatus \ {"NONE"}
  BY DEF RowStatus
<1>2. ASSUME NEW h \in Handler, HandlerActs(h) PROVE EventRows'
  <2>1. CASE rows' = rows
    BY <1>2, <2>1, HandlerMoves, EventRead
  <2>2. CASE DeclinePending(h)
    <3>1. handler[h].p \in Payment /\ seen' = seen
      BY <2>2 DEF DeclinePending, Addressed
    <3>2. \A k \in Handler : handler'[k] = handler[k] \/ handler'[k].op = "idle"
      BY <2>2, Finishes DEF DeclinePending
    <3>3. CASE rows[handler[h].p]["service"] = "PENDING"
      <4>1. rows' = [rows EXCEPT ![handler[h].p]["service"] = "FAILED"]
        BY <2>2, <3>3 DEF DeclinePending
      <4> QED BY <1>1, <3>1, <3>2, <4>1, ServiceWrite
    <3>4. CASE rows[handler[h].p]["service"] # "PENDING"
      <4>1. rows' = rows
        BY <2>2, <3>4 DEF DeclinePending, TypeOK
      <4> QED BY <2>1, <4>1
    <3> QED BY <3>3, <3>4
  <2>3. CASE RecordFraud(h)
    <3>1. handler[h].op \in Granting /\ handler[h].event \in Creator
      BY <2>3 DEF RecordFraud, Granting, Addressed, Creator
    <3> QED BY <1>1, <2>3, <3>1, EventWrite DEF RecordFraud
  <2>4. CASE CommitGrant(h)
    <3>1. handler[h].op \in Granting /\ handler[h].event \in Creator
      BY <2>4 DEF CommitGrant, Granting, Addressed, Creator
    <3>2. PICK c \in Creator : /\ c = handler[h].event \/ (c = handler[h].row /\ c # "none")
                              /\ rows' = [rows EXCEPT ![handler[h].p][c] = "COMPLETED"]
      <4>1. CASE handler[h].row = "none"
        BY <2>4, <3>1, <4>1 DEF CommitGrant, Grant
      <4>2. CASE handler[h].row # "none"
        <5>1. handler[h].row \in Creator
          BY <4>2 DEF TypeOK, HandlerRow
        <5> QED BY <2>4, <4>2, <5>1 DEF CommitGrant, Grant
      <4> QED BY <4>1, <4>2
    <3> QED BY <1>1, <2>4, <3>1, <3>2, EventWrite DEF CommitGrant
  <2> QED BY <1>2, <2>1, <2>2, <2>3, <2>4, HandlerRows
<1>3. ASSUME UNCHANGED <<handler, seen, rows>> PROVE EventRows'
  BY <1>3 DEF EventRows
<1>4. ASSUME NEW n \in Run, RunActs(n), UNCHANGED <<handler, seen>> PROVE EventRows'
  <2>1. CASE rows' = rows
    BY <1>3, <1>4, <2>1
  <2>2. CASE CommitRunCompleted(n)
    BY <1>1, <1>4, <2>2, ServiceWrite DEF CommitRunCompleted, Grant, Addressed
  <2>3. CASE CommitRunFailed(n)
    BY <1>1, <1>4, <2>3, ServiceWrite DEF CommitRunFailed, Addressed
  <2> QED BY <1>4, <2>1, <2>2, <2>3 DEF RunActs, RunStep, StartRun, AskStatus, RunFault, Fault
<1>5. ASSUME NEW p \in Payment, PurchaseActs(p), UNCHANGED <<handler, seen>> PROVE EventRows'
  <2>1. CASE rows' = rows
    BY <1>3, <1>5, <2>1
  <2>2. CASE RecordPending(p)
    BY <1>1, <1>5, <2>2, ServiceWrite DEF RecordPending
  <2>3. CASE GrantAtOnce(p)
    BY <1>1, <1>5, <2>3, ServiceWrite DEF GrantAtOnce, Grant
  <2> QED BY <1>5, <2>1, <2>2, <2>3 DEF PurchaseActs, PurchaseStep, ReadUser, Collect,
         MockCollect, ProviderDecides, PurchaseFault, Fault
<1>6. ASSUME Crash PROVE EventRows'
  BY <1>6, Crashes DEF EventRows, Recorded
<1> QED BY <1>2, <1>3, <1>4, <1>5, <1>6, Steps

\* The service's row appears as activateAccount ends, and is PENDING only when a
\* payment was collected.
LEMMA ServiceEffect ==
  ASSUME TypeOK, Addressed, EventRows, ServiceRows, Step, NEW p \in Payment
  PROVE  /\ rows[p]["service"] # "NONE" => rows'[p]["service"] # "NONE"
         /\ rows'[p]["service"] # "NONE" => rows[p]["service"] # "NONE" \/ pc'[p] = "done"
         /\ rows'[p]["service"] = "PENDING" => rows[p]["service"] = "PENDING" \/ pc[p] = "collected"
<1>1. "service" \in Creator /\ "service" \notin ApprovalEvent
  BY DEF Creator, ApprovalEvent
<1>2. CASE rows' = rows
  BY <1>2
<1>3. ASSUME NEW q \in Payment, NEW c \in Creator, NEW s \in RowStatus \ {"NONE", "PENDING"},
             rows' = [rows EXCEPT ![q][c] = s], c = "service" => rows[q][c] # "NONE"
      PROVE  /\ rows[p]["service"] # "NONE" => rows'[p]["service"] # "NONE"
             /\ rows'[p]["service"] # "NONE" => rows[p]["service"] # "NONE"
             /\ rows'[p]["service"] = "PENDING" => rows[p]["service"] = "PENDING"
  <2>1. CASE p = q /\ c = "service"
    BY <1>1, <1>3, <2>1, RowWrites
  <2>2. CASE p # q \/ c # "service"
    BY <1>1, <1>3, <2>2, RowWrites
  <2> QED BY <2>1, <2>2
<1>4. /\ "COMPLETED" \in RowStatus \ {"NONE", "PENDING"}
      /\ "FAILED" \in RowStatus \ {"NONE", "PENDING"}
  BY DEF RowStatus
<1>5. ASSUME NEW h \in Handler, HandlerActs(h), rows' # rows
      PROVE  \E q \in Payment, c \in Creator, s \in RowStatus \ {"NONE", "PENDING"} :
               rows' = [rows EXCEPT ![q][c] = s] /\ (c = "service" => rows[q][c] # "NONE")
  <2>1. CASE DeclinePending(h)
    <3>1. handler[h].p \in Payment
      BY <2>1 DEF DeclinePending, Addressed
    <3>2. rows[handler[h].p]["service"] = "PENDING"
      BY <1>5, <2>1 DEF DeclinePending, TypeOK
    <3>3. rows' = [rows EXCEPT ![handler[h].p]["service"] = "FAILED"]
      BY <2>1, <3>2 DEF DeclinePending
    <3> QED BY <1>1, <1>4, <3>1, <3>2, <3>3
  <2>2. CASE RecordFraud(h)
    <3>1. handler[h].p \in Payment /\ handler[h].event \in ApprovalEvent
      BY <2>2 DEF RecordFraud, Addressed, Granting
    <3>2. handler[h].event \in Creator /\ handler[h].event # "service"
      BY <1>1, <3>1 DEF Creator
    <3> QED BY <1>4, <2>2, <3>1, <3>2 DEF RecordFraud
  <2>3. CASE CommitGrant(h)
    <3>1. handler[h].p \in Payment /\ handler[h].event \in ApprovalEvent /\ handler[h].op # "idle"
      BY <2>3 DEF CommitGrant, Addressed, Granting
    <3>2. CASE handler[h].row = "none"
      <4>1. handler[h].event \in Creator /\ handler[h].event # "service"
        BY <1>1, <3>1 DEF Creator
      <4> QED BY <1>4, <2>3, <3>1, <3>2, <4>1 DEF CommitGrant, Grant
    <3>3. CASE handler[h].row # "none"
      <4>1. handler[h].row \in Creator /\ rows[handler[h].p][handler[h].row] # "NONE"
        BY <3>1, <3>3 DEF TypeOK, HandlerRow, EventRows
      <4> QED BY <1>4, <2>3, <3>1, <3>3, <4>1 DEF CommitGrant, Grant
    <3> QED BY <3>2, <3>3
  <2> QED BY <1>5, <2>1, <2>2, <2>3, HandlerRows
<1>6. ASSUME NEW n \in Run, RunActs(n), rows' # rows
      PROVE  \E q \in Payment, c \in Creator, s \in RowStatus \ {"NONE", "PENDING"} :
               rows' = [rows EXCEPT ![q][c] = s] /\ (c = "service" => rows[q][c] # "NONE")
  <2>1. CommitRunCompleted(n) \/ CommitRunFailed(n)
    BY <1>6 DEF RunActs, RunStep, StartRun, AskStatus, RunFault, Fault
  <2>2. run[n].p \in Payment /\ rows[run[n].p]["service"] # "NONE"
    BY <2>1 DEF CommitRunCompleted, CommitRunFailed, Addressed, ServiceRows
  <2>3. \E s \in RowStatus \ {"NONE", "PENDING"} : rows' = [rows EXCEPT ![run[n].p]["service"] = s]
    BY <1>4, <2>1 DEF CommitRunCompleted, CommitRunFailed, Grant
  <2> QED BY <1>1, <2>2, <2>3
<1>7. ASSUME NEW q \in Payment, PurchaseActs(q), rows' # rows
      PROVE  /\ rows[p]["service"] # "NONE" => rows'[p]["service"] # "NONE"
             /\ rows'[p]["service"] # "NONE" => rows[p]["service"] # "NONE" \/ pc'[p] = "done"
             /\ rows'[p]["service"] = "PENDING" => rows[p]["service"] = "PENDING" \/ pc[p] = "collected"
  <2>1. CASE RecordPending(q)
    <3>1. rows' = [rows EXCEPT ![q]["service"] = "PENDING"] /\ "PENDING" \in RowStatus
      BY <2>1 DEF RecordPending, RowStatus
    <3>2. pc[q] = "collected" /\ pc'[q] = "done"
      BY <2>1 DEF RecordPending, Goto, TypeOK
    <3>3. rows'[q]["service"] = "PENDING" /\ (p # q => rows'[p]["service"] = rows[p]["service"])
      BY <1>1, <3>1, RowWrites
    <3> QED BY <3>2, <3>3
  <2>2. CASE GrantAtOnce(q)
    <3>1. rows' = [rows EXCEPT ![q]["service"] = "COMPLETED"] /\ "COMPLETED" \in RowStatus
      BY <2>2 DEF GrantAtOnce, Grant, RowStatus
    <3>2. pc'[q] = "done"
      BY <2>2 DEF GrantAtOnce, Goto, TypeOK
    <3>3. rows'[q]["service"] = "COMPLETED" /\ (p # q => rows'[p]["service"] = rows[p]["service"])
      BY <1>1, <3>1, RowWrites
    <3> QED BY <3>2, <3>3
  <2> QED BY <1>7, <2>1, <2>2 DEF PurchaseActs, PurchaseStep, ReadUser, Collect, MockCollect,
         ProviderDecides, PurchaseFault, Fault
<1>8. CASE Crash
  BY <1>2, <1>8, Crashes
<1> QED BY <1>2, <1>3, <1>5, <1>6, <1>7, <1>8, Steps

\* A purchase does not go back.
LEMMA Onward ==
  ASSUME TypeOK, Justified, Step, NEW p \in Payment,
         pc'[p] \in {"idle", "checked", "collected"}
  PROVE  pc[p] \in {"idle", "checked", "collected"}
<1>1. ASSUME NEW q \in Payment, PurchaseActs(q) PROVE pc[p] \in {"idle", "checked", "collected"}
  BY <1>1, PurchaseMoves
<1> QED BY <1>1, Steps, Crashes

\* No step puts a payment nobody collected before the reconciliation, and no loop
\* is about to fail one that was neither declined nor misjudged.
LEMMA ServiceRowsStep ==
  ASSUME TypeOK, Addressed, Justified, EventRows, ServiceRows, Step
  PROVE  ServiceRows'
<1>1. \A p \in Payment : pc'[p] \in {"idle", "checked", "collected"} => rows'[p]["service"] = "NONE"
  BY ServiceEffect, Onward DEF ServiceRows
<1>2. \A p \in Payment : rows'[p]["service"] = "PENDING" => pay'[p] # "none"
  BY ServiceEffect, Settled DEF ServiceRows, Justified
<1>3. ASSUME NEW n \in Run
      PROVE  /\ \A p \in Payment : p \in run'[n].todo =>
                  pay[p] # "none" /\ rows[p]["service"] # "NONE"
             /\ run'[n].phase \in {"completed", "failed"} =>
                  run'[n].p \in Payment /\ rows[run'[n].p]["service"] # "NONE"
             /\ run'[n].phase = "failed" =>
                  pay[run'[n].p] = "declined" \/ run'[n].p \in misjudged'
  <2>1. CASE run'[n] = run[n]
    BY <2>1, MisjudgedGrows DEF ServiceRows, Addressed
  <2>2. CASE RunActs(n)
    BY <2>2, RunMoves DEF ServiceRows
  <2>3. ASSUME NEW m \in Run, RunActs(m), m # n PROVE run'[n] = run[n]
    BY <2>3, RunMoves
  <2>4. CASE Crash
    BY <2>4, Crashes
  <2> QED BY <2>1, <2>2, <2>3, <2>4, Steps
<1>4. \A n \in Run, p \in Payment : p \in run'[n].todo =>
        pay'[p] # "none" /\ rows'[p]["service"] # "NONE"
  BY <1>3, ServiceEffect, Settled
<1>5. \A n \in Run : run'[n].phase \in {"completed", "failed"} => rows'[run'[n].p]["service"] # "NONE"
  BY <1>3, ServiceEffect
<1>6. \A n \in Run : run'[n].phase = "failed" =>
        pay'[run'[n].p] = "declined" \/ run'[n].p \in misjudged'
  BY <1>3, Settled
<1> QED BY <1>1, <1>2, <1>4, <1>5, <1>6 DEF ServiceRows

-----------------------------------------------------------------------------
(***************************************************************************)
(* What is granted.                                                        *)
(***************************************************************************)
Spares(p, c) == rows[p][c] # "COMPLETED" \/ p \in misjudged

\* A step leaves users and their rows alone, writes a row that does not grant,
\* grants an approved payment, or is an admin's decision.
LEMMA Effects ==
  ASSUME IInv, Step
  PROVE  \/ UNCHANGED <<rows, users, manual>>
         \/ /\ UNCHANGED <<users, manual>>
            /\ \E p \in Payment, c \in Creator, s \in RowStatus \ {"COMPLETED"} :
                 Spares(p, c) /\ rows' = [rows EXCEPT ![p][c] = s]
         \/ /\ UNCHANGED manual
            /\ \E p \in Payment, c \in Creator : pay[p] = "approved" /\ Grant(p, c)
         \/ \E u \in User : AdminWrites(u)
<1> USE DEF IInv
<1>1. /\ "service" \in Creator /\ ApprovalEvent \subseteq Creator
      /\ "FAILED" \in RowStatus \ {"COMPLETED"} /\ "PENDING" \in RowStatus \ {"COMPLETED"}
  BY DEF Creator, ApprovalEvent, RowStatus
<1> DEFINE Marking == \E p \in Payment, c \in Creator, s \in RowStatus \ {"COMPLETED"} :
                        Spares(p, c) /\ rows' = [rows EXCEPT ![p][c] = s]
           Giving == \E p \in Payment, c \in Creator : pay[p] = "approved" /\ Grant(p, c)
<1>2. ASSUME NEW h \in Handler, HandlerActs(h)
      PROVE  UNCHANGED <<rows, users>> \/ (Marking /\ UNCHANGED users) \/ Giving
  <2>1. CASE DeclinePending(h)
    <3>1. handler[h].p \in Payment /\ UNCHANGED users
      BY <2>1 DEF DeclinePending, Addressed
    <3>2. CASE rows[handler[h].p]["service"] = "PENDING"
      <4>1. rows' = [rows EXCEPT ![handler[h].p]["service"] = "FAILED"]
        BY <2>1, <3>2 DEF DeclinePending
      <4>2. Spares(handler[h].p, "service")
        BY <3>2 DEF Spares
      <4> QED BY <1>1, <3>1, <4>1, <4>2
    <3>3. CASE rows[handler[h].p]["service"] # "PENDING"
      <4>1. rows' = rows
        BY <2>1, <3>3 DEF DeclinePending, TypeOK
      <4> QED BY <3>1, <4>1
    <3> QED BY <3>2, <3>3
  <2>2. CASE RecordFraud(h)
    <3>1. handler[h].p \in Payment /\ handler[h].event \in ApprovalEvent /\ handler[h].op \in Recorded
      BY <2>2 DEF RecordFraud, Addressed, Granting, Recorded
    <3>2. Spares(handler[h].p, handler[h].event)
      BY <3>1 DEF EventRows, Spares
    <3> QED BY <1>1, <2>2, <3>1, <3>2 DEF RecordFraud
  <2>3. CASE CommitGrant(h)
    <3>1. handler[h].p \in Payment /\ handler[h].event \in Creator /\ pay[handler[h].p] = "approved"
      BY <1>1, <2>3 DEF CommitGrant, Addressed, Granting, Justified
    <3>2. handler[h].row # "none" => handler[h].row \in Creator
      BY DEF TypeOK, HandlerRow
    <3>3. PICK c \in Creator : Grant(handler[h].p, c)
      BY <2>3, <3>1, <3>2 DEF CommitGrant
    <3> QED BY <3>1, <3>3
  <2> QED BY <1>2, <2>1, <2>2, <2>3, HandlerRows
<1>3. ASSUME NEW n \in Run, RunActs(n)
      PROVE  UNCHANGED <<rows, users>> \/ (Marking /\ UNCHANGED users) \/ Giving
  <2>1. CASE CommitRunCompleted(n)
    BY <1>1, <2>1 DEF CommitRunCompleted, Addressed, Justified
  <2>2. CASE CommitRunFailed(n)
    <3>1. run[n].p \in Payment
      BY <2>2 DEF CommitRunFailed, Addressed
    <3>2. Spares(run[n].p, "service")
      BY <1>1, <2>2, <3>1 DEF CommitRunFailed, ServiceRows, CompletedRowsGranted, Spares
    <3> QED BY <1>1, <2>2, <3>1, <3>2 DEF CommitRunFailed
  <2> QED BY <1>3, <2>1, <2>2 DEF RunActs, RunStep, StartRun, AskStatus, RunFault, Fault
<1>4. ASSUME NEW p \in Payment, PurchaseActs(p)
      PROVE  UNCHANGED <<rows, users>> \/ (Marking /\ UNCHANGED users) \/ Giving
  <2>1. CASE RecordPending(p)
    <3>1. Spares(p, "service")
      BY <2>1 DEF RecordPending, Goto, ServiceRows, Spares
    <3> QED BY <1>1, <2>1, <3>1 DEF RecordPending
  <2>2. CASE GrantAtOnce(p)
    BY <1>1, <2>2 DEF GrantAtOnce, Goto, Justified
  <2> QED BY <1>4, <2>1, <2>2 DEF PurchaseActs, PurchaseStep, ReadUser, Collect, MockCollect,
         ProviderDecides, PurchaseFault, Fault
<1>5. ASSUME NEW u \in User, AdminActs(u) PROVE UNCHANGED <<rows, users, manual>> \/ AdminWrites(u)
  BY <1>5 DEF AdminActs, AdminReads
<1> QED BY <1>2, <1>3, <1>4, <1>5, Steps, Crashes

\* A completed row stays one of a grant.
LEMMA CompletedStep ==
  ASSUME IInv, Step
  PROVE  CompletedRowsGranted'
<1> USE DEF IInv
<1> SUFFICES ASSUME NEW q \in Payment, NEW d \in Creator, rows'[q][d] = "COMPLETED"
    PROVE  pay'[q] = "approved" /\ q \in granted'
  BY DEF CompletedRowsGranted
<1>1. CASE rows[q][d] = "COMPLETED" /\ granted \subseteq granted'
  BY <1>1, Settled DEF CompletedRowsGranted
<1>2. ASSUME UNCHANGED users PROVE granted \subseteq granted'
  BY <1>2 DEF users
<1>3. ASSUME NEW p \in Payment, NEW c \in Creator, NEW s \in RowStatus \ {"COMPLETED"},
             rows' = [rows EXCEPT ![p][c] = s], UNCHANGED users
      PROVE  rows[q][d] = "COMPLETED"
  BY <1>3, RowWrites
<1>4. ASSUME NEW p \in Payment, NEW c \in Creator, pay[p] = "approved", Grant(p, c)
      PROVE  pay'[q] = "approved" /\ q \in granted'
  <2>1. granted' = granted \cup {p}
    BY <1>4, GrantWrites
  <2>2. CASE q = p
    BY <1>4, <2>1, <2>2, Settled
  <2>3. CASE q # p
    <3>1. rows'[q][d] = rows[q][d]
      BY <1>4, <2>3, GrantWrites
    <3> QED BY <1>1, <2>1, <3>1
  <2> QED BY <2>2, <2>3
<1>5. ASSUME NEW u \in User, AdminWrites(u) PROVE rows' = rows /\ granted' = granted
  BY <1>5 DEF AdminWrites
<1> QED BY <1>1, <1>2, <1>3, <1>4, <1>5, Effects DEF users

\* Bought by the end of the step.
BoughtAfter(u, product) ==
  \E p \in Payment : Payer[p] = u /\ Product[p] = product /\ pay'[p] = "approved"

\* What was bought stays bought.
LEMMA BoughtStays ==
  ASSUME TypeOK, Justified, Step, NEW u \in User, NEW product, Bought(u, product)
  PROVE  BoughtAfter(u, product)
BY Settled DEF Bought, BoughtAfter

\* Nobody is given what was not paid for.
LEMMA EntitlementsStep ==
  ASSUME IInv, Step
  PROVE  EntitlementsPaid'
<1> USE DEF IInv
<1> SUFFICES ASSUME NEW u \in User
    PROVE  /\ userStatus'[u] = "ACTIVATED" /\ u \notin manual' => BoughtAfter(u, "ACTIVATION")
           /\ tier'[u] # "NORMAL" => BoughtAfter(u, tier'[u])
  BY DEF EntitlementsPaid, Bought, BoughtAfter
<1>1. CASE UNCHANGED <<userStatus, tier, manual>>
  BY <1>1, BoughtStays DEF EntitlementsPaid
<1>2. ASSUME NEW p \in Payment, NEW c \in Creator, pay[p] = "approved", Grant(p, c),
             UNCHANGED manual
      PROVE  /\ userStatus'[u] = "ACTIVATED" /\ u \notin manual' => BoughtAfter(u, "ACTIVATION")
             /\ tier'[u] # "NORMAL" => BoughtAfter(u, tier'[u])
  <2>1. Payer[p] \in User
    BY PaymentAssumption
  <2>2. pay'[p] = "approved"
    BY <1>2, Settled
  <2>3. CASE u = Payer[p] /\ IsActivation(p)
    <3>1. BoughtAfter(u, "ACTIVATION") /\ tier' = tier
      BY <1>2, <2>2, <2>3 DEF Grant, IsActivation, BoughtAfter
    <3> QED BY <3>1, BoughtStays DEF EntitlementsPaid
  <2>4. CASE u = Payer[p] /\ ~IsActivation(p)
    <3>1. userStatus' = userStatus /\ tier'[u] = Product[p]
      BY <1>2, <2>1, <2>4 DEF Grant, TypeOK
    <3>2. BoughtAfter(u, Product[p])
      BY <2>2, <2>4 DEF BoughtAfter
    <3> QED BY <1>2, <3>1, <3>2, BoughtStays DEF EntitlementsPaid
  <2>5. CASE u # Payer[p]
    <3>1. userStatus'[u] = userStatus[u] /\ tier'[u] = tier[u]
      BY <1>2, <2>5 DEF Grant, TypeOK
    <3> QED BY <1>2, <3>1, BoughtStays DEF EntitlementsPaid
  <2> QED BY <2>3, <2>4, <2>5
<1>3. ASSUME NEW v \in User, AdminWrites(v)
      PROVE  /\ userStatus'[u] = "ACTIVATED" /\ u \notin manual' => BoughtAfter(u, "ACTIVATION")
             /\ tier'[u] # "NORMAL" => BoughtAfter(u, tier'[u])
  <2>1. tier' = tier
    BY <1>3 DEF AdminWrites
  <2>2. userStatus'[u] = "ACTIVATED" /\ u \notin manual' => userStatus[u] = "ACTIVATED" /\ u \notin manual
    BY <1>3 DEF AdminWrites, TypeOK
  <2> QED BY <2>1, <2>2, BoughtStays DEF EntitlementsPaid
<1> QED BY <1>1, <1>2, <1>3, Effects DEF users

\* No step spoils the row of a grant that was not misjudged.
LEMMA KeepStep ==
  ASSUME IInv, Step
  PROVE  GrantsKeepTheirRow'
<1> USE DEF IInv
<1> SUFFICES ASSUME NEW q \in granted' \ misjudged', q \notin misjudged
    PROVE  \E d \in Creator : rows'[q][d] = "COMPLETED"
  BY MisjudgedGrows DEF GrantsKeepTheirRow
<1>1. CASE UNCHANGED <<rows, granted>>
  BY <1>1 DEF GrantsKeepTheirRow
<1>2. ASSUME NEW p \in Payment, NEW c \in Creator, NEW s \in RowStatus \ {"COMPLETED"},
             Spares(p, c), rows' = [rows EXCEPT ![p][c] = s], UNCHANGED users
      PROVE  \E d \in Creator : rows'[q][d] = "COMPLETED"
  <2>1. q \in granted /\ q \in Payment
    BY <1>2 DEF users, TypeOK
  <2>2. PICK d \in Creator : rows[q][d] = "COMPLETED"
    BY <2>1 DEF GrantsKeepTheirRow
  <2>3. q # p \/ d # c
    BY <1>2, <2>2 DEF Spares
  <2>4. rows'[q][d] = "COMPLETED"
    BY <1>2, <2>1, <2>2, <2>3, RowWrites
  <2> QED BY <2>4
<1>3. ASSUME NEW p \in Payment, NEW c \in Creator, Grant(p, c)
      PROVE  \E d \in Creator : rows'[q][d] = "COMPLETED"
  <2>1. CASE q = p
    BY <1>3, <2>1, GrantWrites
  <2>2. CASE q # p
    <3>1. q \in granted /\ q \in Payment
      BY <1>3, <2>2, GrantWrites DEF TypeOK
    <3>2. PICK d \in Creator : rows[q][d] = "COMPLETED"
      BY <3>1 DEF GrantsKeepTheirRow
    <3>3. rows'[q][d] = "COMPLETED"
      BY <1>3, <2>2, <3>1, <3>2, GrantWrites
    <3> QED BY <3>3
  <2> QED BY <2>1, <2>2
<1>4. ASSUME NEW u \in User, AdminWrites(u) PROVE UNCHANGED <<rows, granted>>
  BY <1>4 DEF AdminWrites
<1> QED BY <1>1, <1>2, <1>3, <1>4, Effects DEF users

-----------------------------------------------------------------------------
\* The invariant holds at first,
LEMMA InitIInv == Init => IInv
<1> SUFFICES ASSUME Init
    PROVE  IInv
  OBVIOUS
<1> USE DEF Init
<1>1. TypeOK
  BY DEF TypeOK, UserStatus, TierName, RowStatus, PayStatus, Idle, HandlerRow, HandlerOp, NoRun, RunRow
<1>2. /\ \A h \in Handler : handler[h].op = "idle"
      /\ \A n \in Run : run[n].phase = "idle" /\ run[n].todo = {}
  BY DEF Idle, NoRun
<1>3. Addressed /\ Justified
  BY <1>2 DEF Addressed, Justified
<1>4. ApprovalEvent \subseteq Creator /\ "service" \in Creator
  BY DEF Creator
<1>5. OneHandlerEach /\ EventRows /\ ServiceRows
  BY <1>2, <1>4 DEF OneHandlerEach, EventRows, ServiceRows, Recorded
<1>6. CompletedRowsGranted /\ EntitlementsPaid /\ GrantsKeepTheirRow
  BY DEF CompletedRowsGranted, EntitlementsPaid, GrantsKeepTheirRow
<1> QED BY <1>1, <1>3, <1>5, <1>6 DEF IInv

\* every step keeps it,
LEMMA StepIInv == IInv /\ [Next]_<<mock, vars>> => IInv'
<1>1. ASSUME IInv, Next PROVE IInv'
  <2>1. Step /\ mock' = mock
    BY <1>1 DEF Next
  <2>2. TypeOK' /\ Addressed' /\ Justified' /\ OneHandlerEach' /\ EventRows' /\ ServiceRows'
    BY <1>1, <2>1, TypeStep, AddressedStep, JustifiedStep, OneHandlerStep, EventRowsStep,
       ServiceRowsStep DEF IInv
  <2> QED BY <1>1, <2>1, <2>2, CompletedStep, EntitlementsStep, KeepStep DEF IInv
<1>2. ASSUME IInv, UNCHANGED <<mock, vars>> PROVE IInv'
  BY <1>2 DEF vars, users, IInv, TypeOK, Addressed, Justified, OneHandlerEach, EventRows,
     ServiceRows, CompletedRowsGranted, EntitlementsPaid, GrantsKeepTheirRow, Bought
<1> QED BY <1>1, <1>2

\* and so it always holds.
LEMMA Invariance == Spec => []IInv
BY InitIInv, StepIInv, PTL DEF Spec

\* Every row, record and status keeps its type.
THEOREM TypeCorrect == Spec => []TypeOK
BY Invariance, PTL DEF IInv

\* Whatever webhooks, loops, admins, faults and crashes do, nobody is active who
\* neither paid nor was activated by an admin, and nobody holds a tier unpaid.
THEOREM Entitlements == Spec => []EntitlementsPaid
BY Invariance, PTL DEF IInv

\* A COMPLETED row stands for an approved payment whose product was granted.
THEOREM CompletedGranted == Spec => []CompletedRowsGranted
BY Invariance, PTL DEF IInv

\* Failing status calls included, what was granted keeps a COMPLETED row unless a
\* loop was told that this payment had failed: no refusal or decline of a webhook,
\* no second row, no overlapping loop, crash or fault takes it away.
THEOREM GrantsKept == Spec => []GrantsKeepTheirRow
BY Invariance, PTL DEF IInv
=============================================================================
