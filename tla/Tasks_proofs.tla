----------------------------- MODULE Tasks_proofs -----------------------------
(***************************************************************************)
(* Theorems about Tasks, for any users, tasks, requests in flight, rewards *)
(* and limits: types, credits, sessions, codes, the daily limit, the       *)
(* counters and totals, and that completing tasks implements PaidOnce.     *)
(***************************************************************************)
EXTENDS Tasks, Sums, FiniteSetTheorems, TLAPS

\* A request knows its task, and one made by a user knows the user.
Addressed ==
  \A c \in Call : call[c].op # "idle" =>
    /\ call[c].t \in Task
    /\ call[c].op \notin {"pause", "resume"} => call[c].u \in User

\* A request about to announce its reward has credited just that.
EmitterCredited ==
  \A c \in Call : call[c].op = "emit" =>
    /\ call[c].amount # 0
    /\ earned[call[c].u][call[c].t] = call[c].amount

IInv ==
  /\ TypeOK /\ Addressed /\ EmitterCredited
  /\ EventMatchesCredit /\ UsedSessionsPaid
  /\ DailyOverrunBounded

-----------------------------------------------------------------------------
(***************************************************************************)
(* Steps that only read: a request goes on or ends.                        *)
(***************************************************************************)
Testing == {"admitted", "counted", "unpaid", "checked", "starting", "notDone"}
Passed  == {"notDone", "upsert", "counted", "unpaid", "checked", "commit", "wrong"}

Read(c) ==
  /\ \/ Finish(c)
     \/ /\ call[c].op \in Testing
        /\ \E op \in Passed : Become(c, op)
  /\ UNCHANGED <<tasks, books, session, event>>

\* A request begins: a user's, or an admin's.
Begins(c) ==
  /\ \E op \in {"starting", "view", "admitted", "pause", "resume"}, t \in Task, full \in BOOLEAN :
       \E u \in User \cup {NoUser} :
         /\ u = NoUser => op \in {"pause", "resume"}
         /\ call' = [call EXCEPT ![c] = [op |-> op, u |-> u, t |-> t, full |-> full, amount |-> 0]]
  /\ UNCHANGED <<tasks, books, session, event>>

\* The tests of startTask and completeTask, and the death of a request, change
\* no row.
LEMMA Reads ==
  ASSUME NEW c \in Call
  PROVE  \/ CheckNotDone(c) \/ CheckLockout(c) \/ CountToday(c) \/ CheckUnpaid(c)
         \/ AcceptSession(c) \/ MistypeCode(c) \/ CheckCooldown(c) \/ Abort(c)
         => Read(c)
<1> USE DEF Read, Testing, Passed
<1>1. CheckNotDone(c) => Read(c)
  BY DEF CheckNotDone, Test
<1>2. CheckLockout(c) => Read(c)
  BY DEF CheckLockout, Test
<1>3. CountToday(c) => Read(c)
  BY DEF CountToday, Test
<1>4. CheckUnpaid(c) => Read(c)
  BY DEF CheckUnpaid, Test
<1>5. AcceptSession(c) => Read(c)
  BY DEF AcceptSession, Test
<1>6. MistypeCode(c) => Read(c)
  BY DEF MistypeCode, Goto
<1>7. CheckCooldown(c) => Read(c)
  BY DEF CheckCooldown, Test
<1>8. Abort(c) => Read(c)
  BY DEF Abort
<1> QED BY <1>1, <1>2, <1>3, <1>4, <1>5, <1>6, <1>7, <1>8

\* startTask, completeTask and getTaskLandingPage begin by reading, and so does
\* toggleTask.
LEMMA Beginnings ==
  ASSUME NEW c \in Call, NEW u \in User, NEW t \in Task
  PROVE  AdmitStart(c, u, t) \/ ReadLandingPage(c, u, t) \/ Admit(c, u, t) => Begins(c)
<1> USE TaskAssumption DEF Begins, Begin
<1>1. AdmitStart(c, u, t) => Begins(c)
  BY DEF AdmitStart
<1>2. ReadLandingPage(c, u, t) => Begins(c)
  BY DEF ReadLandingPage
<1>3. Admit(c, u, t) => Begins(c)
  <2> DEFINE full == ~BelowLimit(t)
  <2>1. full \in BOOLEAN
    OBVIOUS
  <2> QED BY <2>1 DEF Admit
<1> QED BY <1>1, <1>2, <1>3

\* An admin's toggle begins by reading too.
LEMMA ToggleBegins ==
  ASSUME NEW c \in Call, NEW t \in Task
  PROVE  ReadToToggle(c, t) => Begins(c)
BY DEF ReadToToggle, Begins, Begin

-----------------------------------------------------------------------------
(***************************************************************************)
(* Rows.                                                                   *)
(***************************************************************************)
\* What is written to a session is a session, and only the credit marks it
\* completed.
LEMMA SessionWrites ==
  ASSUME NEW s \in SessionRow
  PROVE  /\ [s EXCEPT !.viewed = "justNow"] \in SessionRow
         /\ [s EXCEPT !.viewed = "justNow"].completed = s.completed
         /\ [s EXCEPT !.viewed = "longEnough"] \in SessionRow
         /\ [s EXCEPT !.viewed = "longEnough"].completed = s.completed
         /\ [s EXCEPT !.failed = s.failed + 1] \in SessionRow
         /\ [s EXCEPT !.failed = s.failed + 1].completed = s.completed
         /\ [s EXCEPT !.completed = TRUE] \in SessionRow
         /\ [s EXCEPT !.started = TRUE] \in SessionRow
         /\ [s EXCEPT !.started = TRUE].completed = s.completed
<1> USE DEF SessionRow
<1>1. /\ [s EXCEPT !.viewed = "justNow"] \in SessionRow
      /\ [s EXCEPT !.viewed = "justNow"].completed = s.completed
  OBVIOUS
<1>2. /\ [s EXCEPT !.viewed = "longEnough"] \in SessionRow
      /\ [s EXCEPT !.viewed = "longEnough"].completed = s.completed
  OBVIOUS
<1>3. /\ [s EXCEPT !.failed = s.failed + 1] \in SessionRow
      /\ [s EXCEPT !.failed = s.failed + 1].completed = s.completed
  OBVIOUS
<1>4. /\ [s EXCEPT !.completed = TRUE] \in SessionRow
      /\ [s EXCEPT !.started = TRUE] \in SessionRow
      /\ [s EXCEPT !.started = TRUE].completed = s.completed
  OBVIOUS
<1> QED BY <1>1, <1>2, <1>3, <1>4

\* A session below MaxAge may grow older.
LEMMA SessionAges ==
  ASSUME NEW s \in SessionRow, s.age < MaxAge
  PROVE  /\ [s EXCEPT !.age = s.age + 1] \in SessionRow
         /\ [s EXCEPT !.age = s.age + 1].completed = s.completed
<1>1. s.age + 1 \in Fresh..TooOld
  BY TaskAssumption DEF SessionRow, Fresh, TooOld
<1>2. ASSUME NEW n \in Fresh..TooOld
      PROVE  [s EXCEPT !.age = n] \in SessionRow /\ [s EXCEPT !.age = n].completed = s.completed
  BY DEF SessionRow
<1> QED BY <1>1, <1>2

\* The state before any session.
LEMMA NoSessionIsOne == NoSession \in SessionRow /\ ~NoSession.completed
BY DEF NoSession, SessionRow, Fresh, TooOld

\* startTask resets the row to a session not completed.
LEMMA NewSessionIsOne == NewSession \in SessionRow /\ ~NewSession.completed
<1> DEFINE s == NoSession
<1>1. s \in SessionRow /\ ~s.completed
  BY NoSessionIsOne
<1> HIDE DEF s
<1>2. [s EXCEPT !.started = TRUE] \in SessionRow /\ ~[s EXCEPT !.started = TRUE].completed
  BY <1>1, SessionWrites
<1> QED BY <1>2 DEF NewSession, s

\* A request goes on as a request.
LEMMA CallWrites ==
  ASSUME NEW r \in CallRow, NEW op \in Passed
  PROVE  /\ [r EXCEPT !.op = op] \in CallRow
         /\ [r EXCEPT !.op = op].op = op
         /\ [r EXCEPT !.op = op].u = r.u
         /\ [r EXCEPT !.op = op].t = r.t
BY DEF CallRow, Passed

\* The request that credited goes on to announce the amount.
LEMMA EmitWrites ==
  ASSUME NEW r \in CallRow, NEW x \in Rewards
  PROVE  /\ [r EXCEPT !.op = "emit", !.amount = x] \in CallRow
         /\ [r EXCEPT !.op = "emit", !.amount = x].op = "emit"
         /\ [r EXCEPT !.op = "emit", !.amount = x].u = r.u
         /\ [r EXCEPT !.op = "emit", !.amount = x].t = r.t
         /\ [r EXCEPT !.op = "emit", !.amount = x].amount = x
BY DEF CallRow

\* The request that credited goes on to announce what it credited; no other
\* request is touched.
LEMMA CreditCall ==
  ASSUME TypeOK, NEW c \in Call, call[c].t \in Task, Credit(c, call[c].u, call[c].t)
  PROVE  /\ call' \in [Call -> CallRow]
         /\ call'[c].op = "emit" /\ call'[c].u = call[c].u /\ call'[c].t = call[c].t
         /\ call'[c].amount = reward[call[c].t]
         /\ \A d \in Call : d # c => call'[d] = call[d]
<1> DEFINE r == call[c]  x == reward[call[c].t]
           q == [r EXCEPT !.op = "emit", !.amount = x]
<1>1. r \in CallRow /\ x \in Rewards
  BY DEF TypeOK
<1>2. call' = [call EXCEPT ![c] = q] /\ call \in [Call -> CallRow]
  BY DEF Credit, TypeOK
<1>3. q \in CallRow /\ q.op = "emit" /\ q.u = r.u /\ q.t = r.t /\ q.amount = x
  <2> HIDE DEF r, x
  <2> QED BY ONLY <1>1, EmitWrites
<1> HIDE DEF q
<1> QED BY ONLY <1>2, <1>3, c \in Call

\* A finished request leaves its slot idle.
LEMMA IdleIsOne == Idle \in CallRow /\ Idle.op = "idle"
BY DEF Idle, CallRow

\* The steps that write to sessions: of one user and task, by one of the writes
\* above.
LEMMA SessionStep ==
  ASSUME TypeOK, NEW u \in User, NEW t \in Task, NEW row \in SessionRow,
         session' = [session EXCEPT ![u][t] = row]
  PROVE  /\ session' \in [User -> [Task -> SessionRow]]
         /\ session'[u][t] = row
         /\ \A v \in User, w \in Task : v # u \/ w # t => session'[v][w] = session[v][w]
<1> USE DEF TypeOK
<1>1. session \in [User -> [Task -> SessionRow]]
  OBVIOUS
<1> QED BY ONLY <1>1, u \in User, t \in Task, row \in SessionRow,
           session' = [session EXCEPT ![u][t] = row]

-----------------------------------------------------------------------------
(***************************************************************************)
(* The invariant.                                                          *)
(***************************************************************************)
\* No step breaks a type.
LEMMA TypeStep ==
  ASSUME TypeOK, Addressed, [Next]_vars
  PROVE  TypeOK'
<1> USE TaskAssumption DEF TypeOK, Addressed, tasks, books
<1>1. ASSUME NEW c \in Call, Read(c) PROVE TypeOK'
  <2>1. CASE Finish(c)
    BY <1>1, <2>1, IdleIsOne DEF Read, Finish
  <2>2. ASSUME NEW op \in Passed, call[c].op \in Testing, Become(c, op) PROVE TypeOK'
    <3>1. call' = [call EXCEPT ![c] = [call[c] EXCEPT !.op = op]]
      BY <2>2 DEF Become
    <3>2. /\ call'[c].op = op /\ call'[c].u = call[c].u /\ call'[c].t = call[c].t
          /\ call'[c] \in CallRow
      BY <3>1, CallWrites
    <3>3. \A d \in Call : d # c => call'[d] = call[d]
      BY <3>1
    <3>4. call' \in [Call -> CallRow]
      BY <3>1, <3>2
    <3> HIDE DEF CallRow
    <3> QED BY <1>1, <2>2, <3>2, <3>3, <3>4 DEF Read, Testing, Passed
  <2> QED BY <1>1, <2>1, <2>2 DEF Read
<1>2. ASSUME NEW c \in Call, Begins(c) PROVE TypeOK'
  BY <1>2 DEF Begins, CallRow
<1>3. ASSUME NEW c \in Call, UpsertSession(c) PROVE TypeOK'
  <2> DEFINE s == session[call[c].u][call[c].t]  row == NewSession
  <2>1. call[c].u \in User /\ call[c].t \in Task
    BY <1>3 DEF UpsertSession
  <2>2. s \in SessionRow
    BY <2>1
  <2>3. row \in SessionRow /\ row.completed = FALSE
    BY <2>2, SessionWrites, NewSessionIsOne
  <2>4. session' = [session EXCEPT ![call[c].u][call[c].t] = row]
    BY <1>3, <2>1 DEF UpsertSession
  <2>5. session' \in [User -> [Task -> SessionRow]]
    BY <2>1, <2>3, <2>4, SessionStep
  <2> QED BY <2>5, <1>3, IdleIsOne DEF UpsertSession, Finish
<1>4. ASSUME NEW c \in Call, MarkViewed(c) PROVE TypeOK'
  <2> DEFINE s == session[call[c].u][call[c].t]  row == [s EXCEPT !.viewed = "justNow"]
  <2>1. call[c].u \in User /\ call[c].t \in Task
    BY <1>4 DEF MarkViewed
  <2>2. s \in SessionRow
    BY <2>1
  <2>3. row \in SessionRow /\ row.completed = s.completed
    BY <2>2, SessionWrites, NewSessionIsOne
  <2>4. session' = [session EXCEPT ![call[c].u][call[c].t] = row]
    BY <1>4, <2>1 DEF MarkViewed
  <2>5. session' \in [User -> [Task -> SessionRow]]
    BY <2>1, <2>3, <2>4, SessionStep
  <2> QED BY <2>5, <1>4, IdleIsOne DEF MarkViewed, Finish
<1>5. ASSUME NEW c \in Call, CountWrongCode(c) PROVE TypeOK'
  <2> DEFINE s == session[call[c].u][call[c].t]  row == [s EXCEPT !.failed = s.failed + 1]
  <2>1. call[c].u \in User /\ call[c].t \in Task
    BY <1>5 DEF CountWrongCode
  <2>2. s \in SessionRow
    BY <2>1
  <2>3. row \in SessionRow /\ row.completed = s.completed
    BY <2>2, SessionWrites, NewSessionIsOne
  <2>4. session' = [session EXCEPT ![call[c].u][call[c].t] = row] \/ session' = session
    BY <1>5, <2>1 DEF CountWrongCode
  <2>5. session' \in [User -> [Task -> SessionRow]]
    BY <2>1, <2>3, <2>4, SessionStep
  <2> QED BY <2>5, <1>5, IdleIsOne DEF CountWrongCode, Finish
<1>6. ASSUME NEW c \in Call, Commit(c) PROVE TypeOK'
  <2>1. CASE Credit(c, call[c].u, call[c].t) /\ ~IsCompleted(c)
    <3> DEFINE u == call[c].u  t == call[c].t  row == [session[u][t] EXCEPT !.completed = TRUE]
    <3>1. u \in User /\ t \in Task /\ reward[t] \in Rewards /\ reward[t] \in Nat \ {0}
      BY <1>6 DEF Commit
    <3>2. call' = [call EXCEPT ![c] = [call[c] EXCEPT !.op = "emit", !.amount = reward[t]]]
      BY <2>1 DEF Credit
    <3>3. session' = [session EXCEPT ![u][t] = row]
      BY <2>1 DEF Credit
    <3>4. earned' = [earned EXCEPT ![u][t] = reward[t]] /\ earned[u][t] = 0
      BY <2>1 DEF Credit, IsCompleted
    <3>5. session[u][t] \in SessionRow
      BY <3>1
    <3>6. row \in SessionRow
      BY <3>5, SessionWrites
    <3>7. session' \in [User -> [Task -> SessionRow]]
      BY <3>1, <3>3, <3>6, SessionStep
    <3>8. earned' \in [User -> [Task -> Rewards \cup {0}]]
      BY <3>1, <3>4
    <3>9. completionCount' \in [Task -> Nat] /\ totalEarned' \in [User -> Nat]
      BY <2>1, <3>1 DEF Credit
    <3>10. today' \in [User -> SUBSET Task] /\ cooling' \subseteq User
      BY <2>1, <3>1 DEF Credit
    <3>11. call' \in [Call -> CallRow]
      BY <2>1, <3>1, CreditCall
    <3> QED BY <1>6, <3>7, <3>8, <3>9, <3>10, <3>11 DEF Commit
  <2>2. CASE Finish(c) /\ UNCHANGED <<session, books>>
    BY <1>6, <2>2, IdleIsOne DEF Commit, Finish
  <2> QED BY <1>6, <2>1, <2>2 DEF Commit
<1>7. ASSUME NEW c \in Call, Emit(c) PROVE TypeOK'
  <2>1. event' \in [User -> [Task -> Rewards \cup {0}]]
    <3>1. call[c].u \in User /\ call[c].t \in Task
      BY <1>7 DEF Emit
    <3>2. call[c].amount \in Rewards \cup {0}
      BY DEF CallRow
    <3> QED BY <1>7, <3>1, <3>2 DEF Emit
  <2> QED BY <1>7, <2>1, IdleIsOne DEF Emit, Finish
<1>8. ASSUME NEW c \in Call, WriteToggle(c) PROVE TypeOK'
  <2>1. status' \in [Task -> {"ACTIVE", "PAUSED", "EXPIRED"}]
    BY <1>8 DEF WriteToggle
  <2> QED BY <1>8, <2>1, IdleIsOne DEF WriteToggle, Finish
<1>9. ASSUME NEW t \in Task, UpdateTask(t) PROVE TypeOK'
  <2>1. reward' \in [Task -> Rewards]
    BY <1>9 DEF UpdateTask
  <2>2. maxCompletions' \in [Task -> Limits]
    BY <1>9 DEF UpdateTask
  <2> QED BY <2>1, <2>2, <1>9 DEF UpdateTask
<1>10. ASSUME NEW t \in Task, DeleteTask(t) PROVE TypeOK'
  BY <1>10 DEF DeleteTask
<1>11. ASSUME NEW u \in User, NEW t \in Task, Elapse(u, t) PROVE TypeOK'
  <2> DEFINE s == session[u][t]
  <2>1. s \in SessionRow
    OBVIOUS
  <2>2. CASE s.age < MaxAge /\ session' = [session EXCEPT ![u][t] = [s EXCEPT !.age = s.age + 1]]
    <3> DEFINE row == [s EXCEPT !.age = s.age + 1]
    <3>1. row \in SessionRow /\ row.completed = s.completed
      BY <2>1, <2>2, SessionWrites, SessionAges
    <3>2. session' = [session EXCEPT ![u][t] = row]
      BY <2>2
    <3> HIDE DEF row
    <3>3. session' \in [User -> [Task -> SessionRow]]
      BY <3>1, <3>2, SessionStep
    <3> QED BY <3>3, <1>11 DEF Elapse
  <2>3. CASE session' = [session EXCEPT ![u][t] = [s EXCEPT !.viewed = "longEnough"]]
    <3> DEFINE row == [s EXCEPT !.viewed = "longEnough"]
    <3>1. row \in SessionRow /\ row.completed = s.completed
      BY <2>1, <2>3, SessionWrites, SessionAges
    <3>2. session' = [session EXCEPT ![u][t] = row]
      BY <2>3
    <3> HIDE DEF row
    <3>3. session' \in [User -> [Task -> SessionRow]]
      BY <3>1, <3>2, SessionStep
    <3> QED BY <3>3, <1>11 DEF Elapse
  <2> QED BY <1>11, <2>2, <2>3 DEF Elapse
<1>12. ASSUME NEW u \in User, CoolDown(u) PROVE TypeOK'
  BY <1>12 DEF CoolDown
<1>13. ASSUME Midnight PROVE TypeOK'
  BY <1>13 DEF Midnight
<1>14. CASE UNCHANGED vars
  BY <1>14 DEF vars
<1>15. ASSUME CleanupStaleSessions PROVE TypeOK'
  <2>1. session' \in [User -> [Task -> SessionRow]]
    BY <1>15, NoSessionIsOne DEF CleanupStaleSessions
  <2>2. call' \in [Call -> CallRow]
    BY <1>15, IdleIsOne DEF CleanupStaleSessions
  <2> QED BY <1>15, <2>1, <2>2 DEF CleanupStaleSessions
<1>16. ASSUME NEW t \in Task, ExpireOverdueTasks(t) PROVE TypeOK'
  BY <1>16 DEF ExpireOverdueTasks
<1> QED
  BY <1>1, <1>2, <1>3, <1>4, <1>5, <1>6, <1>7, <1>8, <1>9, <1>10, <1>11, <1>12, <1>13, <1>14,
     <1>15, <1>16, Reads, Beginnings, ToggleBegins DEF Next, CallStep

\* No request in flight is without its task and user.
LEMMA AddressedStep ==
  ASSUME TypeOK, Addressed, [Next]_vars
  PROVE  Addressed'
<1> USE TaskAssumption DEF TypeOK, Addressed, tasks, books
<1>1. ASSUME NEW c \in Call, Read(c) PROVE Addressed'
  <2>1. CASE Finish(c)
    BY <1>1, <2>1, IdleIsOne DEF Read, Finish
  <2>2. ASSUME NEW op \in Passed, call[c].op \in Testing, Become(c, op) PROVE Addressed'
    <3>1. call' = [call EXCEPT ![c] = [call[c] EXCEPT !.op = op]]
      BY <2>2 DEF Become
    <3>2. /\ call'[c].op = op /\ call'[c].u = call[c].u /\ call'[c].t = call[c].t
          /\ call'[c] \in CallRow
      BY <3>1, CallWrites
    <3>3. \A d \in Call : d # c => call'[d] = call[d]
      BY <3>1
    <3>4. call' \in [Call -> CallRow]
      BY <3>1, <3>2
    <3> HIDE DEF CallRow
    <3> QED BY <1>1, <2>2, <3>2, <3>3, <3>4 DEF Read, Testing, Passed
  <2> QED BY <1>1, <2>1, <2>2 DEF Read
<1>2. ASSUME NEW c \in Call, Begins(c) PROVE Addressed'
  BY <1>2 DEF Begins
<1>3. ASSUME NEW c \in Call, UpsertSession(c) PROVE Addressed'
  BY <1>3, IdleIsOne DEF UpsertSession, Finish
<1>4. ASSUME NEW c \in Call, MarkViewed(c) PROVE Addressed'
  BY <1>4, IdleIsOne DEF MarkViewed, Finish
<1>5. ASSUME NEW c \in Call, CountWrongCode(c) PROVE Addressed'
  BY <1>5, IdleIsOne DEF CountWrongCode, Finish
<1>6. ASSUME NEW c \in Call, Commit(c) PROVE Addressed'
  <2>1. CASE Credit(c, call[c].u, call[c].t) /\ ~IsCompleted(c)
    <3> DEFINE u == call[c].u  t == call[c].t  row == [session[u][t] EXCEPT !.completed = TRUE]
    <3>1. u \in User /\ t \in Task /\ reward[t] \in Rewards /\ reward[t] \in Nat \ {0}
      BY <1>6 DEF Commit
    <3>2. call' = [call EXCEPT ![c] = [call[c] EXCEPT !.op = "emit", !.amount = reward[t]]]
      BY <2>1 DEF Credit
    <3>3. session' = [session EXCEPT ![u][t] = row]
      BY <2>1 DEF Credit
    <3>4. earned' = [earned EXCEPT ![u][t] = reward[t]] /\ earned[u][t] = 0
      BY <2>1 DEF Credit, IsCompleted
    <3>5. /\ call'[c].op = "emit" /\ call'[c].u = u /\ call'[c].t = t
      BY <2>1, <3>1, CreditCall
    <3>6. \A d \in Call : d # c => call'[d] = call[d]
      BY <3>2
    <3> QED BY <3>1, <3>5, <3>6
  <2>2. CASE Finish(c) /\ UNCHANGED <<session, books>>
    BY <1>6, <2>2, IdleIsOne DEF Commit, Finish
  <2> QED BY <1>6, <2>1, <2>2 DEF Commit
<1>7. ASSUME NEW c \in Call, Emit(c) PROVE Addressed'
  BY <1>7, IdleIsOne DEF Emit, Finish
<1>8. ASSUME NEW c \in Call, WriteToggle(c) PROVE Addressed'
  BY <1>8, IdleIsOne DEF WriteToggle, Finish
<1>9. ASSUME NEW t \in Task, UpdateTask(t) PROVE Addressed'
  BY <1>9 DEF UpdateTask
<1>10. ASSUME NEW t \in Task, DeleteTask(t) PROVE Addressed'
  BY <1>10 DEF DeleteTask
<1>11. ASSUME NEW u \in User, NEW t \in Task, Elapse(u, t) PROVE Addressed'
  BY <1>11 DEF Elapse
<1>12. ASSUME NEW u \in User, CoolDown(u) PROVE Addressed'
  BY <1>12 DEF CoolDown
<1>13. ASSUME Midnight PROVE Addressed'
  BY <1>13 DEF Midnight
<1>14. CASE UNCHANGED vars
  BY <1>14 DEF vars
<1>15. ASSUME CleanupStaleSessions PROVE Addressed'
  <2>1. \A d \in Call : call'[d] = call[d] \/ call'[d] = Idle
    BY <1>15 DEF CleanupStaleSessions
  <2> QED BY <1>15, <2>1, IdleIsOne DEF CleanupStaleSessions
<1>16. ASSUME NEW t \in Task, ExpireOverdueTasks(t) PROVE Addressed'
  BY <1>16 DEF ExpireOverdueTasks
<1> QED
  BY <1>1, <1>2, <1>3, <1>4, <1>5, <1>6, <1>7, <1>8, <1>9, <1>10, <1>11, <1>12, <1>13, <1>14,
     <1>15, <1>16, Reads, Beginnings, ToggleBegins DEF Next, CallStep

\* Nothing changes what a request about to announce has credited: the unique
\* completion is never written again.
LEMMA EmitterStep ==
  ASSUME TypeOK, Addressed, EmitterCredited, [Next]_vars
  PROVE  EmitterCredited'
<1> USE TaskAssumption DEF TypeOK, Addressed, EmitterCredited, tasks, books
<1>1. ASSUME NEW c \in Call, Read(c) PROVE EmitterCredited'
  <2>1. CASE Finish(c)
    BY <1>1, <2>1, IdleIsOne DEF Read, Finish
  <2>2. ASSUME NEW op \in Passed, call[c].op \in Testing, Become(c, op) PROVE EmitterCredited'
    <3>1. call' = [call EXCEPT ![c] = [call[c] EXCEPT !.op = op]]
      BY <2>2 DEF Become
    <3>2. /\ call'[c].op = op /\ call'[c].u = call[c].u /\ call'[c].t = call[c].t
          /\ call'[c] \in CallRow
      BY <3>1, CallWrites
    <3>3. \A d \in Call : d # c => call'[d] = call[d]
      BY <3>1
    <3>4. call' \in [Call -> CallRow]
      BY <3>1, <3>2
    <3> HIDE DEF CallRow
    <3> QED BY <1>1, <2>2, <3>2, <3>3, <3>4 DEF Read, Testing, Passed
  <2> QED BY <1>1, <2>1, <2>2 DEF Read
<1>2. ASSUME NEW c \in Call, Begins(c) PROVE EmitterCredited'
  BY <1>2 DEF Begins
<1>3. ASSUME NEW c \in Call, UpsertSession(c) PROVE EmitterCredited'
  BY <1>3, IdleIsOne DEF UpsertSession, Finish
<1>4. ASSUME NEW c \in Call, MarkViewed(c) PROVE EmitterCredited'
  BY <1>4, IdleIsOne DEF MarkViewed, Finish
<1>5. ASSUME NEW c \in Call, CountWrongCode(c) PROVE EmitterCredited'
  BY <1>5, IdleIsOne DEF CountWrongCode, Finish
<1>6. ASSUME NEW c \in Call, Commit(c) PROVE EmitterCredited'
  <2>1. CASE Credit(c, call[c].u, call[c].t) /\ ~IsCompleted(c)
    <3> DEFINE u == call[c].u  t == call[c].t  row == [session[u][t] EXCEPT !.completed = TRUE]
    <3>1. u \in User /\ t \in Task /\ reward[t] \in Rewards /\ reward[t] \in Nat \ {0}
      BY <1>6 DEF Commit
    <3>2. call' = [call EXCEPT ![c] = [call[c] EXCEPT !.op = "emit", !.amount = reward[t]]]
      BY <2>1 DEF Credit
    <3>3. session' = [session EXCEPT ![u][t] = row]
      BY <2>1 DEF Credit
    <3>4. earned' = [earned EXCEPT ![u][t] = reward[t]] /\ earned[u][t] = 0
      BY <2>1 DEF Credit, IsCompleted
    <3>5. ASSUME NEW d \in Call, d # c, call'[d].op = "emit"
          PROVE  /\ call'[d].amount # 0
                 /\ earned'[call'[d].u][call'[d].t] = call'[d].amount
      <4>1. call'[d] = call[d]
        BY <3>2, <3>5
      <4>2. call[d].u \in User /\ call[d].t \in Task
        BY <3>5, <4>1
      <4>3. earned[call[d].u][call[d].t] = call[d].amount /\ call[d].amount # 0
        BY <3>5, <4>1
      <4>4. call[d].u # u \/ call[d].t # t
        BY <3>4, <4>3
      <4> QED BY <3>1, <3>4, <4>1, <4>2, <4>3, <4>4
    <3>6. /\ call'[c].op = "emit" /\ call'[c].u = u /\ call'[c].t = t
          /\ call'[c].amount = reward[t]
      BY <2>1, <3>1, CreditCall
    <3>7. earned'[u][t] = reward[t] /\ reward[t] # 0
      BY <3>1, <3>4
    <3>8. call'[c].amount # 0 /\ earned'[call'[c].u][call'[c].t] = call'[c].amount
      BY <3>6, <3>7
    <3> QED BY <3>5, <3>8
  <2>2. CASE Finish(c) /\ UNCHANGED <<session, books>>
    BY <1>6, <2>2, IdleIsOne DEF Commit, Finish
  <2> QED BY <1>6, <2>1, <2>2 DEF Commit
<1>7. ASSUME NEW c \in Call, Emit(c) PROVE EmitterCredited'
  BY <1>7, IdleIsOne DEF Emit, Finish
<1>8. ASSUME NEW c \in Call, WriteToggle(c) PROVE EmitterCredited'
  BY <1>8, IdleIsOne DEF WriteToggle, Finish
<1>9. ASSUME NEW t \in Task, UpdateTask(t) PROVE EmitterCredited'
  BY <1>9 DEF UpdateTask
<1>10. ASSUME NEW t \in Task, DeleteTask(t) PROVE EmitterCredited'
  BY <1>10 DEF DeleteTask
<1>11. ASSUME NEW u \in User, NEW t \in Task, Elapse(u, t) PROVE EmitterCredited'
  BY <1>11 DEF Elapse
<1>12. ASSUME NEW u \in User, CoolDown(u) PROVE EmitterCredited'
  BY <1>12 DEF CoolDown
<1>13. ASSUME Midnight PROVE EmitterCredited'
  BY <1>13 DEF Midnight
<1>14. CASE UNCHANGED vars
  BY <1>14 DEF vars
<1>15. ASSUME CleanupStaleSessions PROVE EmitterCredited'
  <2>1. \A d \in Call : call'[d] = call[d] \/ call'[d] = Idle
    BY <1>15 DEF CleanupStaleSessions
  <2> QED BY <1>15, <2>1, IdleIsOne DEF CleanupStaleSessions
<1>16. ASSUME NEW t \in Task, ExpireOverdueTasks(t) PROVE EmitterCredited'
  BY <1>16 DEF ExpireOverdueTasks
<1> QED
  BY <1>1, <1>2, <1>3, <1>4, <1>5, <1>6, <1>7, <1>8, <1>9, <1>10, <1>11, <1>12, <1>13, <1>14,
     <1>15, <1>16, Reads, Beginnings, ToggleBegins DEF Next, CallStep

\* Only the credit is announced.
LEMMA EventStep ==
  ASSUME TypeOK, Addressed, EmitterCredited, EventMatchesCredit, [Next]_vars
  PROVE  EventMatchesCredit'
<1> USE TaskAssumption DEF TypeOK, Addressed, EmitterCredited, EventMatchesCredit, tasks, books
<1>1. ASSUME NEW c \in Call, Read(c) PROVE EventMatchesCredit'
  BY <1>1 DEF Read
<1>2. ASSUME NEW c \in Call, Begins(c) PROVE EventMatchesCredit'
  BY <1>2 DEF Begins
<1>3. ASSUME NEW c \in Call, UpsertSession(c) PROVE EventMatchesCredit'
  BY <1>3 DEF UpsertSession
<1>4. ASSUME NEW c \in Call, MarkViewed(c) PROVE EventMatchesCredit'
  BY <1>4 DEF MarkViewed
<1>5. ASSUME NEW c \in Call, CountWrongCode(c) PROVE EventMatchesCredit'
  BY <1>5 DEF CountWrongCode
<1>6. ASSUME NEW c \in Call, Commit(c) PROVE EventMatchesCredit'
  <2>1. CASE Credit(c, call[c].u, call[c].t) /\ ~IsCompleted(c)
    <3> DEFINE u == call[c].u  t == call[c].t  row == [session[u][t] EXCEPT !.completed = TRUE]
    <3>1. u \in User /\ t \in Task /\ reward[t] \in Rewards /\ reward[t] \in Nat \ {0}
      BY <1>6 DEF Commit
    <3>2. call' = [call EXCEPT ![c] = [call[c] EXCEPT !.op = "emit", !.amount = reward[t]]]
      BY <2>1 DEF Credit
    <3>3. session' = [session EXCEPT ![u][t] = row]
      BY <2>1 DEF Credit
    <3>4. earned' = [earned EXCEPT ![u][t] = reward[t]] /\ earned[u][t] = 0
      BY <2>1 DEF Credit, IsCompleted
    <3>5. event' = event
      BY <1>6 DEF Commit
    <3> QED BY <3>1, <3>4, <3>5
  <2>2. CASE Finish(c) /\ UNCHANGED <<session, books>>
    BY <1>6, <2>2, IdleIsOne DEF Commit, Finish
  <2> QED BY <1>6, <2>1, <2>2 DEF Commit
<1>7. ASSUME NEW c \in Call, Emit(c) PROVE EventMatchesCredit'
  BY <1>7 DEF Emit
<1>8. ASSUME NEW c \in Call, WriteToggle(c) PROVE EventMatchesCredit'
  BY <1>8 DEF WriteToggle
<1>9. ASSUME NEW t \in Task, UpdateTask(t) PROVE EventMatchesCredit'
  BY <1>9 DEF UpdateTask
<1>10. ASSUME NEW t \in Task, DeleteTask(t) PROVE EventMatchesCredit'
  BY <1>10 DEF DeleteTask
<1>11. ASSUME NEW u \in User, NEW t \in Task, Elapse(u, t) PROVE EventMatchesCredit'
  BY <1>11 DEF Elapse
<1>12. ASSUME NEW u \in User, CoolDown(u) PROVE EventMatchesCredit'
  BY <1>12 DEF CoolDown
<1>13. ASSUME Midnight PROVE EventMatchesCredit'
  BY <1>13 DEF Midnight
<1>14. CASE UNCHANGED vars
  BY <1>14 DEF vars
<1>15. ASSUME CleanupStaleSessions PROVE EventMatchesCredit'
  BY <1>15 DEF CleanupStaleSessions
<1>16. ASSUME NEW t \in Task, ExpireOverdueTasks(t) PROVE EventMatchesCredit'
  BY <1>16 DEF ExpireOverdueTasks
<1> QED
  BY <1>1, <1>2, <1>3, <1>4, <1>5, <1>6, <1>7, <1>8, <1>9, <1>10, <1>11, <1>12, <1>13, <1>14,
     <1>15, <1>16, Reads, Beginnings, ToggleBegins DEF Next, CallStep

\* No step uses a session up without paying.
LEMMA UsedStep ==
  ASSUME TypeOK, Addressed, UsedSessionsPaid, [Next]_vars
  PROVE  UsedSessionsPaid'
<1> USE TaskAssumption DEF TypeOK, Addressed, UsedSessionsPaid, tasks, books
<1>1. ASSUME NEW c \in Call, Read(c) PROVE UsedSessionsPaid'
  BY <1>1 DEF Read
<1>2. ASSUME NEW c \in Call, Begins(c) PROVE UsedSessionsPaid'
  BY <1>2 DEF Begins
<1>3. ASSUME NEW c \in Call, UpsertSession(c) PROVE UsedSessionsPaid'
  <2> DEFINE s == session[call[c].u][call[c].t]  row == NewSession
  <2>1. call[c].u \in User /\ call[c].t \in Task
    BY <1>3 DEF UpsertSession
  <2>2. s \in SessionRow
    BY <2>1
  <2>3. row \in SessionRow /\ row.completed = FALSE
    BY <2>2, SessionWrites, NewSessionIsOne
  <2>4. session' = [session EXCEPT ![call[c].u][call[c].t] = row]
    BY <1>3, <2>1 DEF UpsertSession
  <2> HIDE DEF row
  <2>5. \A v \in User, w \in Task : session'[v][w].completed => session[v][w].completed
    BY <2>1, <2>3, <2>4, SessionStep
  <2> QED BY <2>5, <1>3 DEF UpsertSession
<1>4. ASSUME NEW c \in Call, MarkViewed(c) PROVE UsedSessionsPaid'
  <2> DEFINE s == session[call[c].u][call[c].t]  row == [s EXCEPT !.viewed = "justNow"]
  <2>1. call[c].u \in User /\ call[c].t \in Task
    BY <1>4 DEF MarkViewed
  <2>2. s \in SessionRow
    BY <2>1
  <2>3. row \in SessionRow /\ row.completed = s.completed
    BY <2>2, SessionWrites, NewSessionIsOne
  <2>4. session' = [session EXCEPT ![call[c].u][call[c].t] = row]
    BY <1>4, <2>1 DEF MarkViewed
  <2> HIDE DEF row
  <2>5. \A v \in User, w \in Task : session'[v][w].completed => session[v][w].completed
    BY <2>1, <2>3, <2>4, SessionStep
  <2> QED BY <2>5, <1>4 DEF MarkViewed
<1>5. ASSUME NEW c \in Call, CountWrongCode(c) PROVE UsedSessionsPaid'
  <2> DEFINE s == session[call[c].u][call[c].t]  row == [s EXCEPT !.failed = s.failed + 1]
  <2>1. call[c].u \in User /\ call[c].t \in Task
    BY <1>5 DEF CountWrongCode
  <2>2. s \in SessionRow
    BY <2>1
  <2>3. row \in SessionRow /\ row.completed = s.completed
    BY <2>2, SessionWrites, NewSessionIsOne
  <2>4. session' = [session EXCEPT ![call[c].u][call[c].t] = row] \/ session' = session
    BY <1>5, <2>1 DEF CountWrongCode
  <2> HIDE DEF row
  <2>5. CASE session' = [session EXCEPT ![call[c].u][call[c].t] = row]
    <3>1. \A v \in User, w \in Task : session'[v][w].completed => session[v][w].completed
      BY <2>1, <2>3, <2>5, SessionStep
    <3> QED BY <3>1, <1>5 DEF CountWrongCode
  <2>6. CASE session' = session
    BY <2>6, <1>5 DEF CountWrongCode
  <2> QED BY <2>4, <2>5, <2>6
<1>6. ASSUME NEW c \in Call, Commit(c) PROVE UsedSessionsPaid'
  <2>1. CASE Credit(c, call[c].u, call[c].t) /\ ~IsCompleted(c)
    <3> DEFINE u == call[c].u  t == call[c].t  row == [session[u][t] EXCEPT !.completed = TRUE]
    <3>1. u \in User /\ t \in Task /\ reward[t] \in Rewards /\ reward[t] \in Nat \ {0}
      BY <1>6 DEF Commit
    <3>2. call' = [call EXCEPT ![c] = [call[c] EXCEPT !.op = "emit", !.amount = reward[t]]]
      BY <2>1 DEF Credit
    <3>3. session' = [session EXCEPT ![u][t] = row]
      BY <2>1 DEF Credit
    <3>4. earned' = [earned EXCEPT ![u][t] = reward[t]] /\ earned[u][t] = 0
      BY <2>1 DEF Credit, IsCompleted
    <3>5. row \in SessionRow
      <4>1. session[u][t] \in SessionRow
        BY <3>1
      <4> QED BY <4>1, SessionWrites
    <3> HIDE DEF row
    <3>6. \A v \in User, w \in Task : v # u \/ w # t => session'[v][w] = session[v][w]
      BY <3>1, <3>3, <3>5, SessionStep
    <3>7. \A v \in User, w \in Task : v # u \/ w # t => earned'[v][w] = earned[v][w]
      BY <3>1, <3>4
    <3>8. earned'[u][t] # 0
      BY <3>1, <3>4
    <3> HIDE DEF u, t
    <3>9. SUFFICES ASSUME NEW v \in User, NEW w \in Task, session'[v][w].completed
          PROVE earned'[v][w] # 0
      OBVIOUS
    <3>10. CASE v = u /\ w = t
      BY ONLY <3>8, <3>10
    <3>11. CASE v # u \/ w # t
      BY <3>6, <3>7, <3>9, <3>11
    <3> QED BY <3>10, <3>11
  <2>2. CASE Finish(c) /\ UNCHANGED <<session, books>>
    BY <1>6, <2>2, IdleIsOne DEF Commit, Finish
  <2> QED BY <1>6, <2>1, <2>2 DEF Commit
<1>7. ASSUME NEW c \in Call, Emit(c) PROVE UsedSessionsPaid'
  BY <1>7 DEF Emit
<1>8. ASSUME NEW c \in Call, WriteToggle(c) PROVE UsedSessionsPaid'
  BY <1>8 DEF WriteToggle
<1>9. ASSUME NEW t \in Task, UpdateTask(t) PROVE UsedSessionsPaid'
  BY <1>9 DEF UpdateTask
<1>10. ASSUME NEW t \in Task, DeleteTask(t) PROVE UsedSessionsPaid'
  BY <1>10 DEF DeleteTask
<1>11. ASSUME NEW u \in User, NEW t \in Task, Elapse(u, t) PROVE UsedSessionsPaid'
  <2> DEFINE s == session[u][t]
  <2>1. s \in SessionRow
    OBVIOUS
  <2>2. CASE s.age < MaxAge /\ session' = [session EXCEPT ![u][t] = [s EXCEPT !.age = s.age + 1]]
    <3> DEFINE row == [s EXCEPT !.age = s.age + 1]
    <3>1. row \in SessionRow /\ row.completed = s.completed
      BY <2>1, <2>2, SessionWrites, SessionAges
    <3>2. session' = [session EXCEPT ![u][t] = row]
      BY <2>2
    <3> HIDE DEF row
    <3>3. \A v \in User, w \in Task : session'[v][w].completed => session[v][w].completed
      BY <3>1, <3>2, SessionStep
    <3> QED BY <3>3, <1>11 DEF Elapse
  <2>3. CASE session' = [session EXCEPT ![u][t] = [s EXCEPT !.viewed = "longEnough"]]
    <3> DEFINE row == [s EXCEPT !.viewed = "longEnough"]
    <3>1. row \in SessionRow /\ row.completed = s.completed
      BY <2>1, <2>3, SessionWrites, SessionAges
    <3>2. session' = [session EXCEPT ![u][t] = row]
      BY <2>3
    <3> HIDE DEF row
    <3>3. \A v \in User, w \in Task : session'[v][w].completed => session[v][w].completed
      BY <3>1, <3>2, SessionStep
    <3> QED BY <3>3, <1>11 DEF Elapse
  <2> QED BY <1>11, <2>2, <2>3 DEF Elapse
<1>12. ASSUME NEW u \in User, CoolDown(u) PROVE UsedSessionsPaid'
  BY <1>12 DEF CoolDown
<1>13. ASSUME Midnight PROVE UsedSessionsPaid'
  BY <1>13 DEF Midnight
<1>14. CASE UNCHANGED vars
  BY <1>14 DEF vars
<1>15. ASSUME CleanupStaleSessions PROVE UsedSessionsPaid'
  <2>1. \A v \in User, w \in Task : session'[v][w].completed => session[v][w].completed
    BY <1>15, NoSessionIsOne DEF CleanupStaleSessions
  <2> QED BY <1>15, <2>1 DEF CleanupStaleSessions
<1>16. ASSUME NEW t \in Task, ExpireOverdueTasks(t) PROVE UsedSessionsPaid'
  BY <1>16 DEF ExpireOverdueTasks
<1> QED
  BY <1>1, <1>2, <1>3, <1>4, <1>5, <1>6, <1>7, <1>8, <1>9, <1>10, <1>11, <1>12, <1>13, <1>14,
     <1>15, <1>16, Reads, Beginnings, ToggleBegins DEF Next, CallStep

-----------------------------------------------------------------------------
(***************************************************************************)
(* The daily limit: |today[u]| + |Counted(u)| only grows when a request    *)
(* passes CountToday, which bounds |today[u]|.                             *)
(***************************************************************************)
Counting == {"counted", "unpaid", "checked", "commit"}

\* No request starts to count, and the completions of the day do not change.
Quiet ==
  /\ today' = today
  /\ \A d \in Call :
       call'[d].op \in Counting => call[d].op \in Counting /\ call'[d].u = call[d].u

\* The sets counted are finite.
LEMMA Sizes ==
  ASSUME TypeOK, NEW u \in User
  PROVE  /\ IsFiniteSet(today[u]) /\ Cardinality(today[u]) \in Nat
         /\ IsFiniteSet(Counted(u)) /\ Cardinality(Counted(u)) \in Nat
         /\ Cardinality(Counted(u)) <= Cardinality(Call)
         /\ Cardinality(Call) \in Nat
<1>1. today[u] \in SUBSET Task /\ Counted(u) \in SUBSET Call
  BY DEF TypeOK, Counted
<1>2. IsFiniteSet(Task) /\ IsFiniteSet(Call)
  BY TaskAssumption
<1> QED BY <1>1, <1>2, FS_Subset, FS_CardinalityType

\* A quiet step keeps the bound: fewer count, and none completes.
LEMMA CountedShrinks ==
  ASSUME TypeOK, DailyOverrunBounded, Quiet
  PROVE  DailyOverrunBounded'
<1>1. SUFFICES ASSUME NEW u \in User
      PROVE Cardinality(today'[u]) + Cardinality(Counted(u)') < MaxDaily + Cardinality(Call)
  BY DEF DailyOverrunBounded
<1>2. Counted(u)' \in SUBSET Counted(u) /\ today'[u] = today[u]
  BY DEF Quiet, Counted, Counting
<1>3. Cardinality(Counted(u)') <= Cardinality(Counted(u)) /\ Cardinality(Counted(u)') \in Nat
  BY <1>2, Sizes, FS_Subset, FS_CardinalityType
<1> QED BY <1>2, <1>3, Sizes, TaskAssumption DEF DailyOverrunBounded

\* A test other than CountToday leaves a request counted or not.
LEMMA TestQuiet ==
  ASSUME TypeOK, NEW c \in Call, NEW op \in Passed, today' = today,
         op \in Counting => call[c].op \in Counting,
         Become(c, op) \/ Finish(c)
  PROVE  Quiet
<1>1. CASE Finish(c)
  BY <1>1, IdleIsOne DEF Finish, Quiet, Counting, TypeOK
<1>2. CASE Become(c, op)
  <2>1. call[c] \in CallRow
    BY DEF TypeOK
  <2>2. call'[c] = [call[c] EXCEPT !.op = op]
    BY <1>2 DEF Become, TypeOK
  <2>3. call'[c].op = op /\ call'[c].u = call[c].u
    BY <2>1, <2>2, CallWrites
  <2>4. \A d \in Call : d # c => call'[d] = call[d]
    BY <1>2 DEF Become, TypeOK
  <2> QED BY <2>3, <2>4 DEF Quiet
<1> QED BY <1>1, <1>2

\* The requests that count are fewer than all, so whoever passes CountToday may
\* join them.
LEMMA CountTodayStep ==
  ASSUME TypeOK, TypeOK', DailyOverrunBounded, NEW c \in Call, CountToday(c)
  PROVE  DailyOverrunBounded'
<1>1. CASE Finish(c)
  BY <1>1, TestQuiet, CountedShrinks DEF CountToday, books, Passed, Counting
<1>2. CASE Become(c, "counted") /\ Cardinality(today[call[c].u]) < MaxDaily
  <2>1. SUFFICES ASSUME NEW u \in User
        PROVE Cardinality(today'[u]) + Cardinality(Counted(u)') < MaxDaily + Cardinality(Call)
    BY DEF DailyOverrunBounded
  <2>2. today' = today
    BY DEF CountToday, books
  <2>3. Cardinality(Counted(u)') <= Cardinality(Call) /\ Cardinality(Counted(u)') \in Nat
    <3>1. Counted(u)' \in SUBSET Call
      BY DEF Counted
    <3> QED BY <3>1, TaskAssumption, FS_Subset, FS_CardinalityType
  <2>4. CASE u = call[c].u
    BY <1>2, <2>2, <2>3, <2>4, Sizes, TaskAssumption
  <2>5. CASE u # call[c].u
    <3>1. call[c] \in CallRow /\ call'[c] = [call[c] EXCEPT !.op = "counted"]
      BY <1>2 DEF Become, TypeOK
    <3>2. call'[c].u = call[c].u
      BY <3>1, CallWrites DEF Passed
    <3>3. \A d \in Call : d # c => call'[d] = call[d]
      BY <1>2 DEF Become, TypeOK
    <3>4. Counted(u)' \in SUBSET Counted(u)
      BY <2>5, <3>2, <3>3 DEF Counted
    <3>5. Cardinality(Counted(u)') <= Cardinality(Counted(u))
      BY <3>4, Sizes, FS_Subset
    <3> QED BY <2>2, <2>3, <3>5, Sizes, TaskAssumption DEF DailyOverrunBounded
  <2> QED BY <2>4, <2>5
<1> QED BY <1>1, <1>2 DEF CountToday, Test

\* A request that commits stops counting as its task is added.
LEMMA CreditDaily ==
  ASSUME TypeOK, Addressed, DailyOverrunBounded, NEW c \in Call, call[c].op = "commit",
         Credit(c, call[c].u, call[c].t)
  PROVE  DailyOverrunBounded'
<1> DEFINE v == call[c].u
<1>1. SUFFICES ASSUME NEW u \in User
      PROVE Cardinality(today'[u]) + Cardinality(Counted(u)') < MaxDaily + Cardinality(Call)
  BY DEF DailyOverrunBounded
<1>2. v \in User
  BY DEF Addressed
<1>3. call'[c].op = "emit" /\ \A d \in Call : d # c => call'[d] = call[d]
  BY CreditCall DEF Addressed
<1>4. Counted(u)' = Counted(u) \ {c}
  BY <1>3 DEF Counted
<1>5. CASE u = v
  <2>1. c \in Counted(u)
    BY <1>5 DEF Counted
  <2>2. Cardinality(Counted(u)') = Cardinality(Counted(u)) - 1
    BY <1>4, <2>1, Sizes, FS_RemoveElement
  <2>3. today'[u] = today[u] \cup {call[c].t}
    BY <1>5 DEF Credit, TypeOK
  <2>4. Cardinality(today'[u]) <= Cardinality(today[u]) + 1 /\ Cardinality(today'[u]) \in Nat
    <3> DEFINE S == today[u]  x == call[c].t  T == S \cup {x}
    <3>1. IsFiniteSet(S) /\ Cardinality(S) \in Nat
      BY Sizes
    <3>2. today'[u] = T
      BY <2>3
    <3> HIDE DEF S, x
    <3>3. Cardinality(T) = IF x \in S THEN Cardinality(S) ELSE Cardinality(S) + 1
      BY ONLY <3>1, FS_AddElement
    <3> DEFINE n == Cardinality(S)  m == Cardinality(T)
    <3>4. n \in Nat /\ (m = n \/ m = n + 1)
      BY <3>1, <3>3
    <3>5. m = Cardinality(today'[u])
      BY <3>2
    <3> HIDE DEF n, m
    <3>6. m \in Nat /\ m <= n + 1
      BY <3>4
    <3> QED BY <3>5, <3>6 DEF n, S
  <2> QED BY <2>2, <2>4, Sizes, TaskAssumption DEF DailyOverrunBounded
<1>6. CASE u # v
  <2>1. today'[u] = today[u]
    BY <1>2, <1>6 DEF Credit, TypeOK
  <2>2. Counted(u)' = Counted(u)
    BY <1>4, <1>6 DEF Counted
  <2> QED BY <2>1, <2>2 DEF DailyOverrunBounded
<1> QED BY <1>5, <1>6

\* No step breaks the bound on the daily limit.
LEMMA DailyStep ==
  ASSUME TypeOK, TypeOK', Addressed, DailyOverrunBounded, [Next]_vars
  PROVE  DailyOverrunBounded'
<1> USE DEF tasks, books
<1>1. ASSUME NEW c \in Call, CheckNotDone(c) \/ CheckLockout(c) PROVE Quiet
  BY <1>1, TestQuiet DEF CheckNotDone, CheckLockout, Test, Passed, Counting
<1>2. ASSUME NEW c \in Call, CountToday(c) PROVE DailyOverrunBounded'
  BY <1>2, CountTodayStep
<1>3. ASSUME NEW c \in Call, CheckUnpaid(c) \/ AcceptSession(c) \/ CheckCooldown(c) PROVE Quiet
  BY <1>3, TestQuiet DEF CheckUnpaid, AcceptSession, CheckCooldown, Test, Passed, Counting
<1>4. ASSUME NEW c \in Call, MistypeCode(c) PROVE Quiet
  BY <1>4, TestQuiet DEF MistypeCode, Goto, Passed, Counting
<1>5. ASSUME NEW c \in Call,
             UpsertSession(c) \/ MarkViewed(c) \/ CountWrongCode(c) \/ Emit(c)
               \/ WriteToggle(c) \/ Abort(c)
      PROVE  Quiet
  BY <1>5, TestQuiet DEF UpsertSession, MarkViewed, CountWrongCode, Emit, WriteToggle, Abort,
     Passed, Counting
<1>6. ASSUME NEW c \in Call, Begins(c) PROVE Quiet
  BY <1>6 DEF Begins, Quiet, Counting, TypeOK
<1>7. ASSUME NEW c \in Call, Commit(c) PROVE DailyOverrunBounded'
  <2>1. CASE Credit(c, call[c].u, call[c].t)
    BY <1>7, <2>1, CreditDaily DEF Commit
  <2>2. CASE Finish(c) /\ UNCHANGED <<session, books>>
    BY <2>2, TestQuiet, CountedShrinks DEF Passed, Counting
  <2> QED BY <1>7, <2>1, <2>2 DEF Commit
<1>8. ASSUME UNCHANGED <<today, call>> PROVE Quiet
  BY <1>8 DEF Quiet
<1>9. ASSUME NEW t \in Task, UpdateTask(t) \/ DeleteTask(t) \/ ExpireOverdueTasks(t) PROVE Quiet
  BY <1>8, <1>9 DEF UpdateTask, DeleteTask, ExpireOverdueTasks
<1>10. ASSUME NEW u \in User, CoolDown(u) PROVE Quiet
  BY <1>8, <1>10 DEF CoolDown
<1>11. ASSUME NEW u \in User, NEW t \in Task, Elapse(u, t) PROVE Quiet
  BY <1>8, <1>11 DEF Elapse
<1>12. ASSUME Midnight PROVE DailyOverrunBounded'
  <2>1. SUFFICES ASSUME NEW u \in User
        PROVE Cardinality(today'[u]) + Cardinality(Counted(u)') < MaxDaily + Cardinality(Call)
    BY DEF DailyOverrunBounded
  <2>2. Cardinality(today'[u]) = 0
    BY <1>12, FS_EmptySet DEF Midnight
  <2>3. Counted(u)' = Counted(u)
    BY <1>12 DEF Midnight, Counted
  <2> QED BY <2>2, <2>3, Sizes, TaskAssumption
<1>13. CASE UNCHANGED vars
  BY <1>8, <1>13, CountedShrinks DEF vars
<1>14. ASSUME CleanupStaleSessions PROVE Quiet
  <2>1. \A d \in Call : call'[d] = call[d] \/ call'[d] = Idle
    BY <1>14 DEF CleanupStaleSessions
  <2> QED BY <1>14, <2>1, IdleIsOne DEF CleanupStaleSessions, Quiet, Counting
<1> QED
  BY <1>1, <1>2, <1>3, <1>4, <1>5, <1>6, <1>7, <1>9, <1>10, <1>11, <1>12, <1>13, <1>14,
     Beginnings, ToggleBegins, CountedShrinks DEF Next, CallStep

\* The invariant holds at first,
LEMMA InitIInv == Init => IInv
<1> USE DEF Init
<1>1. Init => TypeOK
  BY TaskAssumption, NoSessionIsOne, IdleIsOne DEF TypeOK
<1>2. Init => Addressed /\ EmitterCredited
  BY IdleIsOne DEF Addressed, EmitterCredited
<1>3. Init => EventMatchesCredit
  BY DEF EventMatchesCredit
<1>4. Init => UsedSessionsPaid
  BY NoSessionIsOne DEF UsedSessionsPaid
<1>5. Init => DailyOverrunBounded
  <2>1. SUFFICES ASSUME Init, NEW u \in User
        PROVE Cardinality(today[u]) + Cardinality(Counted(u)) < MaxDaily + Cardinality(Call)
    BY DEF DailyOverrunBounded
  <2>2. Cardinality(today[u]) = 0
    BY <2>1, FS_EmptySet
  <2> QED BY <1>1, <2>1, <2>2, Sizes, TaskAssumption
<1> QED BY <1>1, <1>2, <1>3, <1>4, <1>5 DEF IInv

\* and every step keeps it.
LEMMA StepIInv == IInv /\ [Next]_vars => IInv'
BY TypeStep, AddressedStep, EmitterStep, EventStep, UsedStep, DailyStep DEF IInv

\* So it always holds.
LEMMA Invariance == Spec => []IInv
BY InitIInv, StepIInv, PTL DEF Spec

\* Every row and counter keeps its type.
THEOREM TypeCorrect == Spec => []TypeOK
BY Invariance, PTL DEF IInv

\* The task.completed event carries the amount credited under the lock.
THEOREM EventsCarryCredit == Spec => []EventMatchesCredit
BY Invariance, PTL DEF IInv

\* completeTask marks a session completed only together with the completion.
THEOREM SessionsPaid == Spec => []UsedSessionsPaid
BY Invariance, PTL DEF IInv

\* Requests that race overrun the daily limit by less than their number.
THEOREM DailyOverrun == Spec => []DailyOverrunBounded
BY Invariance, PTL DEF IInv

-----------------------------------------------------------------------------
(***************************************************************************)
(* The bound on wrong codes.                                               *)
(***************************************************************************)
\* The requests that found the code wrong and have yet to count it.
Wrong(u, t) == {c \in Call : call[c].op = "wrong" /\ call[c].u = u /\ call[c].t = t}

\* What the counter shows and what is still to be added to it.  Only MistypeCode
\* makes the sum grow, and it finds the counter at two at most.
WrongPotential ==
  \A u \in User, t \in Task :
    session[u][t].failed + Cardinality(Wrong(u, t)) <= 2 + Cardinality(Call)

\* No counter grows, and no request finds a code wrong.
Calm ==
  /\ \A u \in User, t \in Task : session'[u][t].failed <= session[u][t].failed
  /\ \A d \in Call : call'[d].op = "wrong" =>
       call[d].op = "wrong" /\ call'[d].u = call[d].u /\ call'[d].t = call[d].t

-----------------------------------------------------------------------------
\* The counters and the sets counted are numbers.
LEMMA WrongSizes ==
  ASSUME TypeOK, NEW u \in User, NEW t \in Task
  PROVE  /\ session[u][t].failed \in Nat
         /\ IsFiniteSet(Wrong(u, t)) /\ Cardinality(Wrong(u, t)) \in Nat
         /\ Cardinality(Wrong(u, t)) <= Cardinality(Call)
         /\ Cardinality(Call) \in Nat
<1>1. session[u][t] \in SessionRow
  BY DEF TypeOK
<1>2. session[u][t].failed \in Nat
  BY <1>1 DEF SessionRow
<1>3. Wrong(u, t) \in SUBSET Call
  BY DEF Wrong
<1> QED BY <1>2, <1>3, TaskAssumption, FS_Subset, FS_CardinalityType

\* The same of the next state.
LEMMA WrongSizesNext ==
  ASSUME TypeOK', NEW u \in User, NEW t \in Task
  PROVE  /\ session'[u][t].failed \in Nat
         /\ IsFiniteSet(Wrong(u, t)') /\ Cardinality(Wrong(u, t)') \in Nat
         /\ Cardinality(Wrong(u, t)') <= Cardinality(Call)
<1>1. session'[u][t] \in SessionRow
  BY DEF TypeOK
<1>2. session'[u][t].failed \in Nat
  BY <1>1 DEF SessionRow
<1>3. Wrong(u, t)' \in SUBSET Call
  BY DEF Wrong
<1> QED BY <1>2, <1>3, TaskAssumption, FS_Subset, FS_CardinalityType

\* A calm step keeps the bound.
LEMMA CalmKeeps ==
  ASSUME TypeOK, TypeOK', WrongPotential, Calm
  PROVE  WrongPotential'
<1>1. SUFFICES ASSUME NEW u \in User, NEW t \in Task
      PROVE session'[u][t].failed + Cardinality(Wrong(u, t)') <= 2 + Cardinality(Call)
  BY DEF WrongPotential
<1>2. Wrong(u, t)' \in SUBSET Wrong(u, t)
  BY DEF Calm, Wrong
<1>3. Cardinality(Wrong(u, t)') <= Cardinality(Wrong(u, t))
  BY <1>2, WrongSizes, FS_Subset
<1>4. session'[u][t].failed <= session[u][t].failed
  BY DEF Calm
<1>5. session[u][t].failed + Cardinality(Wrong(u, t)) <= 2 + Cardinality(Call)
  BY DEF WrongPotential
<1> QED BY ONLY <1>3, <1>4, <1>5, WrongSizes, WrongSizesNext, TypeOK, TypeOK',
       u \in User, t \in Task

\* No write to a session but CountWrongCode's raises its counter, and the row of
\* startTask starts it again.
LEMMA FailedKept ==
  ASSUME NEW s \in SessionRow
  PROVE  /\ [s EXCEPT !.viewed = "justNow"].failed = s.failed
         /\ [s EXCEPT !.viewed = "longEnough"].failed = s.failed
         /\ [s EXCEPT !.completed = TRUE].failed = s.failed
         /\ [s EXCEPT !.started = TRUE].failed = s.failed
         /\ [s EXCEPT !.age = s.age + 1].failed = s.failed
         /\ [s EXCEPT !.failed = s.failed + 1].failed = s.failed + 1
BY DEF SessionRow

\* A new session has counted no wrong code.
LEMMA NoneFailed == NoSession.failed = 0 /\ NewSession.failed = 0
<1>1. NoSession.failed = 0
  BY DEF NoSession
<1> DEFINE s == NoSession
<1>2. s \in SessionRow
  BY NoSessionIsOne
<1> HIDE DEF s
<1>3. [s EXCEPT !.started = TRUE].failed = s.failed
  BY <1>2, FailedKept
<1> QED BY <1>1, <1>3 DEF NewSession, s

\* A step that writes one session without raising its counter, and begins to
\* count no wrong code, is calm.
LEMMA CalmWrite ==
  ASSUME TypeOK, NEW u \in User, NEW t \in Task, NEW row \in SessionRow,
         session' = [session EXCEPT ![u][t] = row],
         row.failed <= session[u][t].failed,
         \A d \in Call : call'[d].op = "wrong" => call'[d] = call[d]
  PROVE  Calm
<1>1. \A v \in User, w \in Task : session[v][w].failed \in Nat
  BY WrongSizes
<1>2. ASSUME NEW v \in User, NEW w \in Task
      PROVE  session'[v][w].failed <= session[v][w].failed
  <2>1. CASE v = u /\ w = t
    BY <2>1, SessionStep
  <2>2. CASE v # u \/ w # t
    BY <1>1, <2>2, SessionStep
  <2> QED BY <2>1, <2>2
<1> QED BY <1>2 DEF Calm

\* A step that writes no session, and begins to count no wrong code, is calm.
LEMMA CalmRead ==
  ASSUME TypeOK, session' = session,
         \A d \in Call : call'[d].op = "wrong" => call'[d] = call[d]
  PROVE  Calm
BY WrongSizes DEF Calm

\* A request that ends counts nothing more.
LEMMA FinishCalm ==
  ASSUME TypeOK, NEW c \in Call, Finish(c)
  PROVE  \A d \in Call : call'[d].op = "wrong" => call'[d] = call[d]
BY IdleIsOne DEF Finish, TypeOK

\* A request that goes on otherwise than to count a wrong code counts none.
LEMMA BecomeCalm ==
  ASSUME TypeOK, NEW c \in Call, NEW op \in Passed \ {"wrong"}, Become(c, op)
  PROVE  \A d \in Call : call'[d].op = "wrong" => call'[d] = call[d]
<1>1. call[c] \in CallRow /\ call'[c] = [call[c] EXCEPT !.op = op]
  BY DEF Become, TypeOK
<1>2. call'[c].op = op
  BY <1>1, CallWrites
<1>3. \A d \in Call : d # c => call'[d] = call[d]
  BY DEF Become, TypeOK
<1> QED BY <1>2, <1>3

-----------------------------------------------------------------------------
\* The code is found wrong only while two at most are counted, and all that can
\* be added is one for each request.
LEMMA MistypeStep ==
  ASSUME TypeOK, TypeOK', WrongPotential, NEW c \in Call, MistypeCode(c)
  PROVE  WrongPotential'
<1>1. SUFFICES ASSUME NEW u \in User, NEW t \in Task
      PROVE session'[u][t].failed + Cardinality(Wrong(u, t)') <= 2 + Cardinality(Call)
  BY DEF WrongPotential
<1>2. session' = session
  BY DEF MistypeCode
<1>3. CASE u = call[c].u /\ t = call[c].t
  <2>1. session[u][t].failed < 3
    BY <1>3 DEF MistypeCode, Usable, MySession
  <2> QED BY ONLY <1>2, <2>1, WrongSizes, WrongSizesNext, TypeOK, TypeOK', u \in User, t \in Task
<1>4. CASE u # call[c].u \/ t # call[c].t
  <2>1. call[c] \in CallRow /\ call'[c] = [call[c] EXCEPT !.op = "wrong"]
    BY DEF MistypeCode, Goto, Become, TypeOK
  <2>2. call'[c].u = call[c].u /\ call'[c].t = call[c].t
    BY <2>1, CallWrites DEF Passed
  <2>3. \A d \in Call : d # c => call'[d] = call[d]
    BY DEF MistypeCode, Goto, Become, TypeOK
  <2>4. Wrong(u, t)' \in SUBSET Wrong(u, t)
    BY <1>4, <2>2, <2>3 DEF Wrong
  <2>5. Cardinality(Wrong(u, t)') <= Cardinality(Wrong(u, t))
    BY <2>4, WrongSizes, FS_Subset
  <2>6. session[u][t].failed + Cardinality(Wrong(u, t)) <= 2 + Cardinality(Call)
    BY DEF WrongPotential
  <2> QED BY ONLY <1>2, <2>5, <2>6, WrongSizes, WrongSizesNext, TypeOK, TypeOK',
         u \in User, t \in Task
<1> QED BY <1>3, <1>4

\* A request that counts its wrong code adds one, and ends.
LEMMA AddsOne ==
  ASSUME TypeOK, WrongPotential, NEW c \in Call, NEW v \in User, NEW w \in Task,
         call[c].op = "wrong", call[c].u = v, call[c].t = w, Finish(c),
         session' = [session EXCEPT ![v][w] = [session[v][w] EXCEPT !.failed = @ + 1]]
  PROVE  WrongPotential'
<1> DEFINE s == session[v][w]  row == [s EXCEPT !.failed = s.failed + 1]
<1>1. s \in SessionRow
  BY DEF TypeOK
<1>2. row \in SessionRow /\ row.failed = s.failed + 1
  BY <1>1, SessionWrites, FailedKept
<1>3. session' = [session EXCEPT ![v][w] = row]
  OBVIOUS
<1>4. PICK r \in SessionRow :
        r.failed = s.failed + 1 /\ session' = [session EXCEPT ![v][w] = r]
  BY ONLY <1>2, <1>3
<1>5. /\ session'[v][w] = r
      /\ \A x \in User, y \in Task : x # v \/ y # w => session'[x][y] = session[x][y]
  BY ONLY <1>4, TypeOK, v \in User, w \in Task, SessionStep
<1>6. SUFFICES ASSUME NEW u \in User, NEW t \in Task
      PROVE session'[u][t].failed + Cardinality(Wrong(u, t)') <= 2 + Cardinality(Call)
  BY DEF WrongPotential
<1>7. Wrong(u, t)' = Wrong(u, t) \ {c}
  <2>1. call'[c].op # "wrong" /\ \A d \in Call : d # c => call'[d] = call[d]
    BY IdleIsOne DEF Finish, TypeOK
  <2> QED BY <2>1 DEF Wrong
<1>8. session[u][t].failed + Cardinality(Wrong(u, t)) <= 2 + Cardinality(Call)
  BY DEF WrongPotential
<1>9. CASE u = v /\ t = w
  <2>1. c \in Wrong(u, t)
    BY <1>9 DEF Wrong
  <2>2. Cardinality(Wrong(u, t)') = Cardinality(Wrong(u, t)) - 1
    BY <1>7, <2>1, WrongSizes, FS_RemoveElement
  <2>3. session'[u][t].failed = session[u][t].failed + 1
    BY <1>4, <1>5, <1>9
  <2> QED BY ONLY <1>8, <2>2, <2>3, WrongSizes, TypeOK, u \in User, t \in Task
<1>10. CASE u # v \/ t # w
  <2>1. Wrong(u, t)' = Wrong(u, t)
    BY <1>7, <1>10 DEF Wrong
  <2>2. session'[u][t] = session[u][t]
    BY <1>5, <1>10
  <2> QED BY <1>8, <2>1, <2>2
<1> QED BY <1>9, <1>10

\* So counting keeps the bound; the row may also have been deleted.
LEMMA CountStep ==
  ASSUME TypeOK, TypeOK', Addressed, WrongPotential, NEW c \in Call, CountWrongCode(c)
  PROVE  WrongPotential'
<1>1. call[c].u \in User /\ call[c].t \in Task /\ call[c].op = "wrong" /\ Finish(c)
  BY DEF Addressed, CountWrongCode
<1>2. CASE session' = session
  <2>1. \A d \in Call : call'[d].op = "wrong" => call'[d] = call[d]
    BY <1>1, FinishCalm
  <2> QED BY <1>2, <2>1, CalmRead, CalmKeeps
<1>3. CASE session' = [session EXCEPT ![call[c].u][call[c].t].failed = @ + 1]
  <2>1. PICK v \in User, w \in Task : v = call[c].u /\ w = call[c].t
    BY <1>1
  <2> QED BY <1>1, <1>3, <2>1, AddsOne
<1> QED BY <1>2, <1>3 DEF CountWrongCode

\* No step breaks the bound.
LEMMA WrongStep ==
  ASSUME TypeOK, TypeOK', Addressed, WrongPotential, [Next]_vars
  PROVE  WrongPotential'
<1> USE DEF tasks, books
<1>1. ASSUME NEW c \in Call,
             CheckNotDone(c) \/ CheckLockout(c) \/ CountToday(c) \/ CheckUnpaid(c)
               \/ AcceptSession(c) \/ CheckCooldown(c)
      PROVE  Calm
  <2>1. session' = session
    BY <1>1 DEF CheckNotDone, CheckLockout, CountToday, CheckUnpaid, AcceptSession, CheckCooldown
  <2>2. Finish(c) \/ \E op \in Passed \ {"wrong"} : Become(c, op)
    BY <1>1 DEF CheckNotDone, CheckLockout, CountToday, CheckUnpaid, AcceptSession,
       CheckCooldown, Test, Passed
  <2> QED BY <2>1, <2>2, FinishCalm, BecomeCalm, CalmRead
<1>2. ASSUME NEW c \in Call, MistypeCode(c) PROVE WrongPotential'
  BY <1>2, MistypeStep
<1>3. ASSUME NEW c \in Call, CountWrongCode(c) PROVE WrongPotential'
  BY <1>3, CountStep
<1>4. ASSUME NEW c \in Call, UpsertSession(c) PROVE Calm
  <2>1. call[c].u \in User /\ call[c].t \in Task
    BY <1>4 DEF UpsertSession, Addressed
  <2>2. session' = [session EXCEPT ![call[c].u][call[c].t] = NewSession] /\ Finish(c)
    BY <1>4 DEF UpsertSession
  <2>3. NewSession.failed <= session[call[c].u][call[c].t].failed
    BY <2>1, NoneFailed, WrongSizes
  <2> QED BY <2>1, <2>2, <2>3, NewSessionIsOne, FinishCalm, CalmWrite
<1>5. ASSUME NEW c \in Call, MarkViewed(c) PROVE Calm
  <2> DEFINE s == session[call[c].u][call[c].t]  row == [s EXCEPT !.viewed = "justNow"]
  <2>1. call[c].u \in User /\ call[c].t \in Task
    BY <1>5 DEF MarkViewed, Addressed
  <2>2. session' = [session EXCEPT ![call[c].u][call[c].t] = row] /\ Finish(c)
    BY <1>5 DEF MarkViewed
  <2>3. s \in SessionRow /\ s.failed \in Nat
    BY <2>1, WrongSizes DEF TypeOK
  <2>4. row \in SessionRow /\ row.failed = s.failed
    BY <2>3, SessionWrites, FailedKept
  <2> HIDE DEF row
  <2>5. row.failed <= s.failed
    BY ONLY <2>3, <2>4
  <2> QED BY <2>1, <2>2, <2>4, <2>5, FinishCalm, CalmWrite
<1>6. ASSUME NEW c \in Call, Emit(c) \/ WriteToggle(c) \/ Abort(c) PROVE Calm
  BY <1>6, FinishCalm, CalmRead DEF Emit, WriteToggle, Abort
<1>7. ASSUME NEW c \in Call, Begins(c) PROVE Calm
  <2>1. \A d \in Call : call'[d].op = "wrong" => call'[d] = call[d]
    BY <1>7 DEF Begins, TypeOK
  <2> QED BY <1>7, <2>1, CalmRead DEF Begins
<1>8. ASSUME NEW c \in Call, Commit(c) PROVE Calm
  <2>1. CASE Credit(c, call[c].u, call[c].t)
    <3> DEFINE s == session[call[c].u][call[c].t]  row == [s EXCEPT !.completed = TRUE]
    <3>1. call[c].u \in User /\ call[c].t \in Task
      BY <1>8 DEF Commit, Addressed
    <3>2. session' = [session EXCEPT ![call[c].u][call[c].t] = row]
      BY <2>1 DEF Credit
    <3>3. s \in SessionRow /\ s.failed \in Nat
      BY <3>1, WrongSizes DEF TypeOK
    <3>4. row \in SessionRow /\ row.failed <= s.failed
      <4>1. row \in SessionRow /\ row.failed = s.failed
        BY <3>3, SessionWrites, FailedKept
      <4> HIDE DEF row, s
      <4> QED BY ONLY <3>3, <4>1
    <3>5. \A d \in Call : call'[d].op = "wrong" => call'[d] = call[d]
      BY <2>1, <3>1, CreditCall
    <3> HIDE DEF row
    <3> QED BY <3>1, <3>2, <3>4, <3>5, CalmWrite
  <2>2. CASE Finish(c) /\ session' = session
    BY <2>2, FinishCalm, CalmRead
  <2> QED BY <1>8, <2>1, <2>2 DEF Commit
<1>9. ASSUME UNCHANGED <<session, call>> PROVE Calm
  BY <1>9, CalmRead
<1>10. ASSUME NEW t \in Task, UpdateTask(t) \/ DeleteTask(t) \/ ExpireOverdueTasks(t) PROVE Calm
  BY <1>9, <1>10 DEF UpdateTask, DeleteTask, ExpireOverdueTasks
<1>11. ASSUME NEW u \in User, CoolDown(u) PROVE Calm
  BY <1>9, <1>11 DEF CoolDown
<1>12. ASSUME Midnight PROVE Calm
  BY <1>9, <1>12 DEF Midnight
<1>13. CASE UNCHANGED vars
  BY <1>9, <1>13, CalmKeeps DEF vars
<1>14. ASSUME NEW u \in User, NEW t \in Task, Elapse(u, t) PROVE Calm
  <2> DEFINE s == session[u][t]
  <2>1. s \in SessionRow /\ s.failed \in Nat
    BY WrongSizes DEF TypeOK
  <2>2. \A d \in Call : call'[d].op = "wrong" => call'[d] = call[d]
    BY <1>14 DEF Elapse
  <2>3. CASE s.age < MaxAge /\ session' = [session EXCEPT ![u][t] = [s EXCEPT !.age = s.age + 1]]
    <3> DEFINE row == [s EXCEPT !.age = s.age + 1]
    <3>1. row \in SessionRow /\ row.failed <= s.failed
      BY <2>1, <2>3, SessionAges, FailedKept
    <3> HIDE DEF row
    <3> QED BY <2>2, <2>3, <3>1, CalmWrite DEF row
  <2>4. CASE session' = [session EXCEPT ![u][t] = [s EXCEPT !.viewed = "longEnough"]]
    <3> DEFINE row == [s EXCEPT !.viewed = "longEnough"]
    <3>1. row \in SessionRow /\ row.failed <= s.failed
      <4>1. row \in SessionRow /\ row.failed = s.failed
        BY <2>1, SessionWrites, FailedKept
      <4> HIDE DEF row, s
      <4> QED BY ONLY <2>1, <4>1
    <3> QED BY <2>2, <2>4, <3>1, CalmWrite
  <2> QED BY <1>14, <2>3, <2>4 DEF Elapse
<1>15. ASSUME CleanupStaleSessions PROVE Calm
  <2>1. \A d \in Call : call'[d].op = "wrong" => call'[d] = call[d]
    BY <1>15, IdleIsOne DEF CleanupStaleSessions
  <2>2. \A u \in User, t \in Task : session'[u][t].failed <= session[u][t].failed
    <3>1. SUFFICES ASSUME NEW u \in User, NEW t \in Task
          PROVE session'[u][t].failed <= session[u][t].failed
      OBVIOUS
    <3>2. session'[u][t] = NoSession \/ session'[u][t] = session[u][t]
      BY <1>15 DEF CleanupStaleSessions
    <3>3. session[u][t].failed \in Nat
      BY WrongSizes
    <3> QED BY ONLY <3>2, <3>3, NoneFailed
  <2> QED BY <2>1, <2>2 DEF Calm
<1> QED
  BY <1>1, <1>2, <1>3, <1>4, <1>5, <1>6, <1>7, <1>8, <1>10, <1>11, <1>12, <1>13, <1>14, <1>15,
     Beginnings, ToggleBegins, CalmKeeps DEF Next, CallStep

-----------------------------------------------------------------------------
\* Nothing is counted at first.
LEMMA InitWrong == Init => WrongPotential
<1>1. SUFFICES ASSUME Init, NEW u \in User, NEW t \in Task
      PROVE session[u][t].failed + Cardinality(Wrong(u, t)) <= 2 + Cardinality(Call)
  BY DEF WrongPotential
<1>2. TypeOK
  BY <1>1, InitIInv DEF IInv
<1>3. session[u][t].failed = 0
  BY <1>1, NoneFailed DEF Init
<1> QED BY ONLY <1>2, <1>3, WrongSizes, u \in User, t \in Task

\* Every step keeps the bound, with the invariant it needs.
LEMMA StepWrong == IInv /\ WrongPotential /\ [Next]_vars => WrongPotential'
BY StepIInv, WrongStep DEF IInv

\* The bound on the sum bounds the counter.
LEMMA PotentialBounds == IInv /\ WrongPotential => WrongCodesBounded
<1>1. SUFFICES ASSUME IInv, WrongPotential, NEW u \in User, NEW t \in Task
      PROVE session[u][t].failed < 3 + Cardinality(Call)
  BY DEF WrongCodesBounded
<1>2. session[u][t].failed + Cardinality(Wrong(u, t)) <= 2 + Cardinality(Call)
  BY <1>1 DEF WrongPotential
<1>3. TypeOK
  BY <1>1 DEF IInv
<1> QED BY ONLY <1>2, <1>3, WrongSizes, u \in User, t \in Task

\* Requests that all read a valid session raise the counter of completeTask's
\* wrong codes past three by less than their number, restarts included.
THEOREM WrongCodes == Spec => []WrongCodesBounded
<1>1. Spec => []WrongPotential
  BY InitWrong, Invariance, StepWrong, PTL DEF Spec
<1> QED BY <1>1, Invariance, PotentialBounds, PTL

-----------------------------------------------------------------------------
\* That completing tasks implements PaidOnce: what the invariant above lacks.

Completed(t) == {u \in User : earned[u][t] # 0}

\* The counter compared with the limit is the number of users paid.
CountsAgree == \A t \in Task : completionCount[t] = Cardinality(Completed(t))

\* A payment is announced by one request, and has not been announced before.
EmitsOnce ==
  \A c \in Call : call[c].op = "emit" =>
    /\ event[call[c].u][call[c].t] = 0
    /\ \A d \in Call : (call[d].op = "emit" /\ call[d].u = call[c].u /\ call[d].t = call[c].t)
                         => d = c

\* A wallet's total is the sum of what the user's completions paid.
TotalsAgree == \A u \in User : totalEarned[u] = SumFunctionOnSet(earned[u], Task)

RInv == IInv /\ CountsAgree /\ TotalsAgree /\ EmitsOnce

-----------------------------------------------------------------------------
\* Steps that pay, announce and set nothing; requests that were about to
\* announce may only end.
Unpaying ==
  /\ UNCHANGED <<reward, maxCompletions, completionCount, earned, totalEarned, event>>
  /\ \A d \in Call : call'[d].op = "emit" => call'[d] = call[d]

LEMMA ReadsUnpaying ==
  ASSUME TypeOK, NEW c \in Call, Read(c)
  PROVE  Unpaying
<1>1. CASE Finish(c)
  BY <1>1, IdleIsOne DEF Read, Finish, TypeOK, Unpaying, tasks, books
<1>2. CASE \E op \in Passed : Become(c, op)
  <2>1. PICK op \in Passed : Become(c, op)
    BY <1>2
  <2>2. call[c] \in CallRow
    BY DEF TypeOK
  <2>3. call'[c] = [call[c] EXCEPT !.op = op] /\ \A d \in Call : d # c => call'[d] = call[d]
    BY <2>1, Zenon DEF Become, TypeOK
  <2>4. call'[c].op = op /\ op # "emit"
    BY <2>2, <2>3, CallWrites DEF Passed
  <2> QED
    BY <2>3, <2>4 DEF Read, TypeOK, Unpaying, tasks, books
<1> QED
  BY <1>1, <1>2 DEF Read

LEMMA BeginsUnpaying ==
  ASSUME TypeOK, NEW c \in Call, Begins(c)
  PROVE  Unpaying
BY DEF Begins, TypeOK, Unpaying, tasks, books

LEMMA Steps ==
  ASSUME TypeOK, [Next]_vars
  PROVE  \/ Unpaying
         \/ \E c \in Call : Commit(c) \/ Emit(c)
         \/ \E t \in Task : UpdateTask(t)
<1> USE DEF tasks, books, Unpaying
<1>1. ASSUME NEW c \in Call, UpsertSession(c) \/ MarkViewed(c) \/ CountWrongCode(c) \/ WriteToggle(c)
      PROVE Unpaying
  BY <1>1, IdleIsOne DEF UpsertSession, MarkViewed, CountWrongCode, WriteToggle, Finish, TypeOK
<1>2. ASSUME NEW t \in Task, DeleteTask(t) \/ ExpireOverdueTasks(t) PROVE Unpaying
  BY <1>2 DEF DeleteTask, ExpireOverdueTasks
<1>3. CASE CleanupStaleSessions
  BY <1>3, IdleIsOne DEF CleanupStaleSessions
<1>4. ASSUME NEW u \in User, CoolDown(u) PROVE Unpaying
  BY <1>4 DEF CoolDown
<1>5. ASSUME NEW u \in User, NEW t \in Task, Elapse(u, t) PROVE Unpaying
  BY <1>5 DEF Elapse
<1>6. CASE Midnight
  BY <1>6 DEF Midnight
<1>7. CASE UNCHANGED vars
  BY <1>7 DEF vars
<1> QED
  BY <1>1, <1>2, <1>3, <1>4, <1>5, <1>6, <1>7, Reads, Beginnings, ToggleBegins,
     ReadsUnpaying, BeginsUnpaying DEF Next, CallStep

\* The two outcomes of the transaction.
LEMMA CommitCases ==
  ASSUME RInv, NEW c \in Call, Commit(c)
  PROVE  \/ Unpaying
         \/ /\ Credit(c, call[c].u, call[c].t)
            /\ call[c].u \in User /\ call[c].t \in Task
            /\ earned[call[c].u][call[c].t] = 0
            /\ BelowLimit(call[c].t)
            /\ UNCHANGED <<tasks, event>>
<1>1. call[c].u \in User /\ call[c].t \in Task
  BY DEF RInv, IInv, Addressed, Commit
<1>2. CASE BelowLimit(call[c].t) /\ MySession(c).started /\ ~IsCompleted(c)
  BY <1>1, <1>2 DEF Commit, IsCompleted
<1>3. CASE ~(BelowLimit(call[c].t) /\ MySession(c).started /\ ~IsCompleted(c))
  BY <1>3, IdleIsOne DEF Commit, Finish, RInv, IInv, TypeOK, Unpaying, tasks, books
<1> QED
  BY <1>2, <1>3

-----------------------------------------------------------------------------
\* The counter.

LEMMA PaidFinite ==
  ASSUME NEW t \in Task
  PROVE  IsFiniteSet(Completed(t))
BY FS_Subset, TaskAssumption DEF Completed

LEMMA CreditCounts ==
  ASSUME RInv, NEW u \in User, NEW t \in Task, earned[u][t] = 0,
         earned' = [earned EXCEPT ![u][t] = reward[t]],
         completionCount' = [completionCount EXCEPT ![t] = @ + 1]
  PROVE  CountsAgree'
<1>1. reward[t] # 0
  BY TaskAssumption DEF RInv, IInv, TypeOK
<1>2. Completed(t)' = Completed(t) \cup {u} /\ u \notin Completed(t)
  BY <1>1 DEF Completed, RInv, IInv, TypeOK
<1>3. Cardinality(Completed(t)') = Cardinality(Completed(t)) + 1
  BY <1>2, PaidFinite, FS_AddElement
<1>4. ASSUME NEW s \in Task, s # t PROVE Completed(s)' = Completed(s)
  BY <1>4 DEF Completed, RInv, IInv, TypeOK
<1>5. ASSUME NEW s \in Task PROVE completionCount'[s] = Cardinality(Completed(s)')
  <2>1. CASE s = t
    BY <1>3, <2>1 DEF RInv, IInv, TypeOK, CountsAgree
  <2>2. CASE s # t
    BY <1>4, <2>2 DEF RInv, IInv, TypeOK, CountsAgree
  <2> QED
    BY <2>1, <2>2
<1> QED
  BY <1>5 DEF CountsAgree

LEMMA CountsStep == RInv /\ [Next]_vars => CountsAgree'
<1> SUFFICES ASSUME RInv, [Next]_vars PROVE CountsAgree'
  OBVIOUS
<1>1. ASSUME UNCHANGED <<completionCount, earned>> PROVE CountsAgree'
  BY <1>1 DEF RInv, CountsAgree, Completed
<1>2. ASSUME NEW c \in Call, Commit(c) PROVE CountsAgree'
  <2> DEFINE u == call[c].u  t == call[c].t
  <2>1. CASE Unpaying
    BY <1>1, <2>1 DEF Unpaying
  <2>2. CASE /\ Credit(c, u, t)
             /\ u \in User /\ t \in Task /\ earned[u][t] = 0
    <3>1. /\ earned' = [earned EXCEPT ![u][t] = reward[t]]
          /\ completionCount' = [completionCount EXCEPT ![t] = @ + 1]
      BY <2>2 DEF Credit
    <3> HIDE DEF u, t
    <3> QED
      BY <2>2, <3>1, CreditCounts
  <2> QED
    BY <1>2, <2>1, <2>2, CommitCases
<1>3. ASSUME NEW c \in Call, Emit(c) PROVE CountsAgree'
  BY <1>1, <1>3 DEF Emit, books
<1>4. ASSUME NEW t \in Task, UpdateTask(t) PROVE CountsAgree'
  BY <1>1, <1>4 DEF UpdateTask, books
<1> QED
  BY <1>1, <1>2, <1>3, <1>4, Steps DEF RInv, IInv, Unpaying

-----------------------------------------------------------------------------
\* The wallets.

LEMMA CreditTotals ==
  ASSUME RInv, NEW u \in User, NEW t \in Task, earned[u][t] = 0,
         earned' = [earned EXCEPT ![u][t] = reward[t]],
         totalEarned' = [totalEarned EXCEPT ![u] = @ + reward[t]]
  PROVE  TotalsAgree'
<1>1. earned \in [User -> [Task -> Rewards \cup {0}]] /\ reward[t] \in Rewards
      /\ totalEarned \in [User -> Nat]
  BY DEF RInv, IInv, TypeOK
<1>2. \A v \in User, s \in Task : earned[v][s] \in Int
  <2>1. Rewards \cup {0} \subseteq Int
    BY TaskAssumption
  <2>2. \A v \in User : earned[v] \in [Task -> Rewards \cup {0}]
    BY <1>1
  <2> QED
    BY <2>1, <2>2
<1>3. reward[t] \in Int
  <2>1. Rewards \subseteq Int
    BY TaskAssumption
  <2> QED
    BY <1>1, <2>1
<1>4. IsFiniteSet(Task)
  BY TaskAssumption
<1>5. ASSUME NEW v \in User PROVE totalEarned'[v] = SumFunctionOnSet(earned'[v], Task)
  <2>1. CASE v = u
    <3>1. earned'[u][t] = reward[t] /\ \A s \in Task \ {t} : earned'[u][s] = earned[u][s]
      BY <1>1
    <3>2. SumFunctionOnSet(earned'[u], Task)
            = SumFunctionOnSet(earned[u], Task) + (earned'[u][t] - earned[u][t])
      <4> DEFINE f == earned[u]  g == earned'[u]
      <4>1. \A s \in Task : f[s] \in Int
        BY <1>2
      <4>2. g[t] \in Int /\ \A s \in Task \ {t} : g[s] = f[s]
        BY <1>3, <3>1
      <4> HIDE DEF f, g
      <4>3. SumFunctionOnSet(g, Task) = SumFunctionOnSet(f, Task) + (g[t] - f[t])
        BY <1>4, <4>1, <4>2, SumUpdate
      <4> QED
        BY <4>3 DEF f, g
    <3>3. totalEarned'[u] = totalEarned[u] + reward[t]
      BY <1>1
    <3>4. totalEarned[u] = SumFunctionOnSet(earned[u], Task)
      BY DEF RInv, TotalsAgree
    <3> QED
      BY <1>3, <2>1, <3>1, <3>2, <3>3, <3>4
  <2>2. CASE v # u
    BY <1>1, <2>2 DEF RInv, TotalsAgree
  <2> QED
    BY <2>1, <2>2
<1> QED
  BY <1>5 DEF TotalsAgree

LEMMA TotalsStep == RInv /\ [Next]_vars => TotalsAgree'
<1> SUFFICES ASSUME RInv, [Next]_vars PROVE TotalsAgree'
  OBVIOUS
<1>1. ASSUME UNCHANGED <<totalEarned, earned>> PROVE TotalsAgree'
  BY <1>1 DEF RInv, TotalsAgree
<1>2. ASSUME NEW c \in Call, Commit(c) PROVE TotalsAgree'
  <2> DEFINE u == call[c].u  t == call[c].t
  <2>1. CASE Unpaying
    BY <1>1, <2>1 DEF Unpaying
  <2>2. CASE /\ Credit(c, u, t)
             /\ u \in User /\ t \in Task /\ earned[u][t] = 0
    <3>1. /\ earned' = [earned EXCEPT ![u][t] = reward[t]]
          /\ totalEarned' = [totalEarned EXCEPT ![u] = @ + reward[t]]
      BY <2>2 DEF Credit
    <3> HIDE DEF u, t
    <3> QED
      BY <2>2, <3>1, CreditTotals
  <2> QED
    BY <1>2, <2>1, <2>2, CommitCases
<1>3. ASSUME NEW c \in Call, Emit(c) PROVE TotalsAgree'
  BY <1>1, <1>3 DEF Emit, books
<1>4. ASSUME NEW t \in Task, UpdateTask(t) PROVE TotalsAgree'
  BY <1>1, <1>4 DEF UpdateTask, books
<1> QED
  BY <1>1, <1>2, <1>3, <1>4, Steps DEF RInv, IInv, Unpaying

-----------------------------------------------------------------------------
\* The announcements.

LEMMA CreditEmitsOnce ==
  ASSUME RInv, NEW c \in Call, Credit(c, call[c].u, call[c].t),
         call[c].u \in User, call[c].t \in Task, earned[call[c].u][call[c].t] = 0,
         event' = event
  PROVE  EmitsOnce'
<1> DEFINE u == call[c].u  t == call[c].t
<1>1. call' = [call EXCEPT ![c] = [call[c] EXCEPT !.op = "emit", !.amount = reward[t]]]
  BY DEF Credit
<1>2. call'[c].u = u /\ call'[c].t = t
  BY CreditCall DEF RInv, IInv
<1>3. \A d \in Call : d # c => call'[d] = call[d]
  BY <1>1 DEF RInv, IInv, TypeOK
<1>4. event[u][t] = 0
  BY DEF RInv, IInv, EventMatchesCredit, TypeOK
<1>5. \A d \in Call : call[d].op = "emit" => ~(call[d].u = u /\ call[d].t = t)
  BY DEF RInv, IInv, EmitterCredited
<1> HIDE DEF u, t
<1>6. ASSUME NEW d \in Call, call'[d].op = "emit"
      PROVE  /\ event[call'[d].u][call'[d].t] = 0
             /\ \A e \in Call : (call'[e].op = "emit" /\ call'[e].u = call'[d].u
                                   /\ call'[e].t = call'[d].t) => e = d
  <2>1. CASE d = c
    BY <1>2, <1>3, <1>4, <1>5, <2>1
  <2>2. CASE d # c
    BY <1>2, <1>3, <1>5, <1>6, <2>2 DEF RInv, EmitsOnce
  <2> QED
    BY <2>1, <2>2
<1> QED
  BY <1>6 DEF EmitsOnce

LEMMA EmitsStep == RInv /\ [Next]_vars => EmitsOnce'
<1> SUFFICES ASSUME RInv, [Next]_vars PROVE EmitsOnce'
  OBVIOUS
<1>1. ASSUME Unpaying PROVE EmitsOnce'
  BY <1>1 DEF Unpaying, RInv, EmitsOnce
<1>2. ASSUME NEW c \in Call, Commit(c) PROVE EmitsOnce'
  BY <1>1, <1>2, CommitCases, CreditEmitsOnce
<1>3. ASSUME NEW c \in Call, Emit(c) PROVE EmitsOnce'
  <2> DEFINE u == call[c].u  t == call[c].t
  <2>1. u \in User /\ t \in Task
    BY <1>3 DEF RInv, IInv, Addressed, Emit
  <2>2. \A d \in Call : d # c => call'[d] = call[d]
    BY <1>3 DEF Emit, Finish, RInv, IInv, TypeOK
  <2>3. call'[c].op # "emit"
    BY <1>3, IdleIsOne DEF Emit, Finish, RInv, IInv, TypeOK
  <2>4. ASSUME NEW d \in Call, call'[d].op = "emit"
        PROVE event'[call'[d].u][call'[d].t] = 0
    <3>1. d # c /\ call'[d] = call[d] /\ call[d].op = "emit"
      BY <2>2, <2>3, <2>4
    <3>2. ~(call[d].u = u /\ call[d].t = t)
      BY <1>3, <3>1 DEF RInv, EmitsOnce, Emit
    <3>3. call[d].u \in User /\ call[d].t \in Task
      BY <3>1 DEF RInv, IInv, Addressed
    <3>4. event[call[d].u][call[d].t] = 0
      BY <3>1 DEF RInv, EmitsOnce
    <3>5. event' = [event EXCEPT ![u][t] = call[c].amount]
      BY <1>3 DEF Emit
    <3>6. event \in [User -> [Task -> Rewards \cup {0}]]
      BY DEF RInv, IInv, TypeOK
    <3> HIDE DEF u, t
    <3> QED
      BY <2>1, <3>1, <3>2, <3>3, <3>4, <3>5, <3>6
  <2> QED
    BY <2>2, <2>3, <2>4 DEF RInv, EmitsOnce
<1>4. ASSUME NEW t \in Task, UpdateTask(t) PROVE EmitsOnce'
  BY <1>4 DEF UpdateTask, RInv, EmitsOnce
<1> QED
  BY <1>1, <1>2, <1>3, <1>4, Steps DEF RInv, IInv

LEMMA InitRInv == Init => RInv
<1> SUFFICES ASSUME Init PROVE RInv
  OBVIOUS
<1>1. \A t \in Task : Completed(t) = {}
  BY DEF Init, Completed
<1>2. CountsAgree
  BY <1>1, FS_EmptySet DEF Init, CountsAgree
<1>3. EmitsOnce
  BY IdleIsOne DEF Init, EmitsOnce
<1>4. TotalsAgree
  <2>1. SUFFICES ASSUME NEW u \in User PROVE SumFunctionOnSet(earned[u], Task) = 0
    BY DEF Init, TotalsAgree
  <2>2. \A t \in Task : earned[u][t] = 0
    BY DEF Init
  <2> QED
    BY <2>2, TaskAssumption, SumZero
<1> QED
  BY <1>2, <1>3, <1>4, InitIInv DEF RInv

LEMMA RInvariance == Spec => []RInv
<1>1. RInv /\ [Next]_vars => RInv'
  BY StepIInv, CountsStep, TotalsStep, EmitsStep DEF RInv
<1> QED
  BY <1>1, InitRInv, PTL DEF Spec

\* However many requests race for a user and a task, completionCount is the
\* number of completions and totalEarned the sum of what they paid.
THEOREM BooksBalance == Spec => []BooksAgree
<1>1. RInv => BooksAgree
  <2> SUFFICES ASSUME RInv PROVE BooksAgree
    OBVIOUS
  <2>1. \A u \in User : SumFunction(earned[u]) = SumFunctionOnSet(earned[u], Task)
    BY DEF SumFunction, RInv, IInv, TypeOK
  <2> QED
    BY <2>1 DEF RInv, CountsAgree, Completed, TotalsAgree, BooksAgree
<1> QED
  BY <1>1, RInvariance, PTL

-----------------------------------------------------------------------------
\* The refinement.

LEMMA InitMaps == Init => Promise!Init
BY DEF Init, Promise!Init

LEMMA StepMaps == RInv /\ [Next]_vars => [Promise!Next]_(Promise!vars)
<1> SUFFICES ASSUME RInv, [Next]_vars PROVE [Promise!Next]_(Promise!vars)
  OBVIOUS
<1>1. ASSUME Unpaying PROVE UNCHANGED Promise!vars
  BY <1>1 DEF Unpaying, Promise!vars
<1>2. ASSUME NEW c \in Call, Commit(c) PROVE [Promise!Next]_(Promise!vars)
  <2>1. CASE Unpaying
    BY <1>1, <2>1
  <2>2. CASE /\ Credit(c, call[c].u, call[c].t)
             /\ call[c].u \in User /\ call[c].t \in Task
             /\ earned[call[c].u][call[c].t] = 0
             /\ BelowLimit(call[c].t)
             /\ UNCHANGED <<tasks, event>>
    <3>1. completionCount[call[c].t] = Cardinality({v \in User : earned[v][call[c].t] # 0})
      BY <2>2 DEF RInv, CountsAgree, Completed
    <3> DEFINE n == Cardinality({v \in User : earned[v][call[c].t] # 0})
    <3>2. Promise!Cardinality({v \in User : earned[v][call[c].t] # 0}) = n
      BY DEF Cardinality, Promise!Cardinality, IsFiniteSet, Promise!IsFiniteSet
    <3>3. Promise!Pay(call[c].u, call[c].t)
      BY <2>2, <3>1, <3>2, Zenon DEF Promise!Pay, Credit, BelowLimit, tasks
    <3> QED
      BY <2>2, <3>3 DEF Promise!Next
  <2> QED
    BY <1>2, <2>1, <2>2, CommitCases
<1>3. ASSUME NEW c \in Call, Emit(c) PROVE [Promise!Next]_(Promise!vars)
  <2>1. call[c].u \in User /\ call[c].t \in Task
    BY <1>3 DEF RInv, IInv, Addressed, Emit
  <2>2. /\ earned[call[c].u][call[c].t] = call[c].amount /\ call[c].amount # 0
        /\ event[call[c].u][call[c].t] = 0
    BY <1>3 DEF RInv, IInv, EmitterCredited, EmitsOnce, Emit
  <2>3. Promise!Announce(call[c].u, call[c].t)
    BY <1>3, <2>2 DEF Promise!Announce, Emit, tasks, books
  <2> QED
    BY <2>1, <2>3 DEF Promise!Next
<1>4. ASSUME NEW t \in Task, UpdateTask(t) PROVE [Promise!Next]_(Promise!vars)
  <2>1. PICK x \in Rewards : reward' = [reward EXCEPT ![t] = x]
    BY <1>4 DEF UpdateTask
  <2>2. PICK l \in Limits : maxCompletions' = [maxCompletions EXCEPT ![t] = l]
    BY <1>4 DEF UpdateTask
  <2>3. Promise!Set(t, x, l)
    BY <1>4, <2>1, <2>2 DEF Promise!Set, UpdateTask, books
  <2> QED
    BY <2>3 DEF Promise!Next
<1> QED
  BY <1>1, <1>2, <1>3, <1>4, Steps DEF RInv, IInv

\* Completing tasks, with its sessions, races, jobs and failures, is paying
\* once, under the limit in force, and announcing what was paid.
THEOREM Implements == Spec => PaysAsPromised
<1>1. RInv /\ [Next]_vars => [Promise!Next]_(Promise!vars)
  BY StepMaps
<1> QED
  BY <1>1, InitMaps, RInvariance, PTL DEF Spec, PaysAsPromised, Promise!Spec
=============================================================================
