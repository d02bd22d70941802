-------------------------------- MODULE Tasks --------------------------------
(***************************************************************************)
(* Tasks: a user starts one (a session with, for some tasks, a code to     *)
(* find), waits, and completes it for a reward.  startTask, completeTask   *)
(* and getTaskLandingPage test what they read one await at a time; only    *)
(* the credit is a transaction.  Time is reduced to the thresholds the     *)
(* code compares with.                                                     *)
(***************************************************************************)
EXTENDS Integers, FiniteSets, Functions

CONSTANTS
  User, Task,
  CodeTask,          \* tasks with requiresCode
  Call,              \* requests in flight (a bound)
  Rewards, Limits,   \* what an admin may set reward and maxCompletions to
  Overnight,         \* whether midnight may pass (a bound)
  Managed,           \* tasks that are paused, resumed, archived, or expire
  MaxDaily,          \* MAX_DAILY_COMPLETIONS
  MaxAge,            \* ages of sessions considered (a bound)
  NoLimit, NoUser, NoTask

ASSUME TaskAssumption ==
  /\ IsFiniteSet(User) /\ IsFiniteSet(Task) /\ IsFiniteSet(Call)
  /\ CodeTask \subseteq Task
  /\ Rewards \subseteq Nat \ {0} /\ Rewards # {}
  /\ Limits \subseteq (Nat \ {0}) \cup {NoLimit} /\ Limits # {}
  /\ NoLimit \notin Nat
  /\ Managed \subseteq Task
  /\ MaxDaily \in Nat \ {0}
  /\ MaxAge \in 1..4
  /\ NoUser \notin User /\ NoTask \notin Task

ASSUME OvernightAssumption == Overnight \in BOOLEAN

VARIABLES
  status, reward, maxCompletions, completionCount,  \* of each task
  session,      \* TaskSession rows
  earned,       \* TaskCompletion rows: what each paid, 0 when there is none
  totalEarned,  \* of the user's wallet, counting only rewards
  today,        \* tasks each user completed since midnight
  cooling,      \* users who completed a task less than 10 s ago
  event,        \* amount announced to the task.completed listener, 0 before
  call          \* requests in flight

tasks == <<status, reward, maxCompletions>>
books == <<completionCount, earned, totalEarned, today, cooling>>
vars == <<tasks, books, session, event, call>>

\* Ages of a session: fresh, past the minimum duration, past the five minutes
\* of a lockout, past the hour after which the cron deletes it, past 24 hours.
Fresh == 0
Ripe == 1
PastLockout == 2
Stale == 3
TooOld == 4

NoSession  == [started |-> FALSE, completed |-> FALSE, age |-> Fresh, failed |-> 0, viewed |-> "no"]
NewSession == [NoSession EXCEPT !.started = TRUE]
Idle == [op |-> "idle", u |-> NoUser, t |-> NoTask, full |-> FALSE, amount |-> 0]

SessionRow ==
  [started : BOOLEAN, completed : BOOLEAN, age : Fresh..TooOld, failed : Nat,
   viewed : {"no", "justNow", "longEnough"}]
CallRow ==
  [op : {"idle", "starting", "notDone", "upsert", "view", "admitted", "counted", "unpaid",
         "wrong", "checked", "commit", "emit", "pause", "resume"},
   u : User \cup {NoUser}, t : Task \cup {NoTask}, full : BOOLEAN, amount : Rewards \cup {0}]

TypeOK ==
  /\ status \in [Task -> {"ACTIVE", "PAUSED", "EXPIRED"}]
  /\ reward \in [Task -> Rewards]
  /\ maxCompletions \in [Task -> Limits]
  /\ completionCount \in [Task -> Nat]
  /\ session \in [User -> [Task -> SessionRow]]
  /\ earned \in [User -> [Task -> Rewards \cup {0}]]
  /\ totalEarned \in [User -> Nat]
  /\ today \in [User -> SUBSET Task]
  /\ cooling \subseteq User
  /\ event \in [User -> [Task -> Rewards \cup {0}]]
  /\ call \in [Call -> CallRow]

Init ==
  /\ status = [t \in Task |-> "ACTIVE"]
  /\ reward \in [Task -> Rewards]
  /\ maxCompletions \in [Task -> Limits]
  /\ completionCount = [t \in Task |-> 0]
  /\ session = [u \in User |-> [t \in Task |-> NoSession]]
  /\ earned = [u \in User |-> [t \in Task |-> 0]]
  /\ totalEarned = [u \in User |-> 0]
  /\ today = [u \in User |-> {}]
  /\ cooling = {}
  /\ event = [u \in User |-> [t \in Task |-> 0]]
  /\ call = [c \in Call |-> Idle]

-----------------------------------------------------------------------------
Begin(c, op, u, t, full) ==
  /\ call[c] = Idle
  /\ call' = [call EXCEPT ![c] = [op |-> op, u |-> u, t |-> t, full |-> full, amount |-> 0]]

Become(c, op) == call' = [call EXCEPT ![c].op = op]
Finish(c) == call' = [call EXCEPT ![c] = Idle]

Goto(c, here, there) == call[c].op = here /\ Become(c, there)

\* A step that reads and tests, and ends the request when the test fails.
Test(c, here, passes, there) ==
  /\ call[c].op = here
  /\ IF passes THEN Become(c, there) ELSE Finish(c)

MySession(c) == session[call[c].u][call[c].t]
IsCompleted(c) == earned[call[c].u][call[c].t] # 0

-----------------------------------------------------------------------------
(***************************************************************************)
(* startTask.                                                              *)
(***************************************************************************)
\* A request refused at the door leaves no trace, so who else is refused there
\* (a user not ACTIVATED or below the tier, a task past expiresAt) is left open.
AdmitStart(c, u, t) ==
  /\ status[t] = "ACTIVE"
  /\ Begin(c, "starting", u, t, FALSE)
  /\ UNCHANGED <<tasks, books, session, event>>

CheckNotDone(c) ==
  /\ Test(c, "starting", ~IsCompleted(c), "notDone")
  /\ UNCHANGED <<tasks, books, session, event>>

LockedOut(s) == s.failed >= 3 /\ s.age < PastLockout

CheckLockout(c) ==
  /\ Test(c, "notDone", ~LockedOut(MySession(c)), "upsert")
  /\ UNCHANGED <<tasks, books, session, event>>

UpsertSession(c) ==
  /\ call[c].op = "upsert"
  /\ session' = [session EXCEPT ![call[c].u][call[c].t] = NewSession]
  /\ Finish(c)
  /\ UNCHANGED <<tasks, books, event>>

-----------------------------------------------------------------------------
(***************************************************************************)
(* getTaskLandingPage shows the code and notes when it was first seen.     *)
(***************************************************************************)
ReadLandingPage(c, u, t) ==
  /\ t \in CodeTask
  /\ session[u][t].started /\ session[u][t].viewed = "no"
  /\ Begin(c, "view", u, t, FALSE)
  /\ UNCHANGED <<tasks, books, session, event>>

MarkViewed(c) ==
  /\ call[c].op = "view"
  /\ session' = [session EXCEPT ![call[c].u][call[c].t].viewed = "justNow"]
  /\ Finish(c)
  /\ UNCHANGED <<tasks, books, event>>

-----------------------------------------------------------------------------
(***************************************************************************)
(* completeTask.                                                           *)
(***************************************************************************)
BelowLimit(t) == maxCompletions[t] # NoLimit => completionCount[t] < maxCompletions[t]

\* The task read here is also the one the preliminary limit test uses later.
Admit(c, u, t) ==
  /\ status[t] = "ACTIVE"
  /\ Begin(c, "admitted", u, t, ~BelowLimit(t))
  /\ UNCHANGED <<tasks, books, session, event>>

\* Mutant of CountToday: off by one.
CountTodayLate(c) ==
  /\ Test(c, "admitted", Cardinality(today[call[c].u]) <= MaxDaily, "counted")
  /\ UNCHANGED <<tasks, books, session, event>>

CountToday(c) ==
  /\ Test(c, "admitted", Cardinality(today[call[c].u]) < MaxDaily, "counted")
  /\ UNCHANGED <<tasks, books, session, event>>

CheckUnpaid(c) ==
  /\ Test(c, "counted", ~IsCompleted(c), "unpaid")
  /\ UNCHANGED <<tasks, books, session, event>>

\* Mutant of Usable: wrong codes never invalidate the session.
UsableForever(c) ==
  LET s == MySession(c) IN s.started /\ ~s.completed /\ s.age < TooOld

\* A session in use, and for a code task one that still accepts codes.
Usable(c) ==
  LET s == MySession(c) IN
  /\ s.started /\ ~s.completed /\ s.age < TooOld
  /\ call[c].t \in CodeTask => s.failed < 3

AcceptSession(c) ==
  LET s == MySession(c) IN
  /\ Test(c, "unpaid",
          /\ Usable(c)
          /\ call[c].t \in CodeTask => s.viewed = "longEnough"
          /\ s.age >= Ripe, "checked")
  /\ UNCHANGED <<tasks, books, session, event>>

MistypeCode(c) ==
  /\ Goto(c, "unpaid", "wrong")
  /\ call[c].t \in CodeTask /\ Usable(c)
  /\ UNCHANGED <<tasks, books, session, event>>

\* The row may have been deleted since: then the update fails.
CountWrongCode(c) ==
  /\ call[c].op = "wrong"
  /\ IF MySession(c).started
     THEN session' = [session EXCEPT ![call[c].u][call[c].t].failed = @ + 1]
     ELSE UNCHANGED session
  /\ Finish(c)
  /\ UNCHANGED <<tasks, books, event>>

CheckCooldown(c) ==
  /\ Test(c, "checked", call[c].u \notin cooling /\ ~call[c].full, "commit")
  /\ UNCHANGED <<tasks, books, session, event>>

\* The writes of the transaction; the lock on the task row orders them.
Credit(c, u, t) ==
  /\ session' = [session EXCEPT ![u][t].completed = TRUE]
  /\ earned' = [earned EXCEPT ![u][t] = reward[t]]
  /\ completionCount' = [completionCount EXCEPT ![t] = @ + 1]
  /\ totalEarned' = [totalEarned EXCEPT ![u] = @ + reward[t]]
  /\ today' = [today EXCEPT ![u] = @ \cup {t}]
  /\ cooling' = cooling \cup {u}
  /\ call' = [call EXCEPT ![c].op = "emit", ![c].amount = reward[t]]

\* Mutant of Commit: a second completion adds to the first.
CommitAccumulates(c) ==
  LET u == call[c].u  t == call[c].t IN
  /\ call[c].op = "commit"
  /\ earned' = [earned EXCEPT ![u][t] = @ + reward[t]]
  /\ Finish(c)
  /\ UNCHANGED <<tasks, completionCount, totalEarned, today, cooling, session, event>>

\* Mutant of Commit: nothing makes a completion unique.
CommitAgain(c) ==
  /\ call[c].op = "commit"
  /\ IF BelowLimit(call[c].t) /\ MySession(c).started THEN Credit(c, call[c].u, call[c].t)
     ELSE Finish(c) /\ UNCHANGED <<session, books>>
  /\ UNCHANGED <<tasks, event>>

\* Mutant of Commit: the limit is not tested again under the lock.
CommitUnlimited(c) ==
  /\ call[c].op = "commit"
  /\ IF MySession(c).started /\ ~IsCompleted(c) THEN Credit(c, call[c].u, call[c].t)
     ELSE Finish(c) /\ UNCHANGED <<session, books>>
  /\ UNCHANGED <<tasks, event>>

\* Mutant of Commit: the session is marked before, outside the transaction.
CommitMarksFirst(c) ==
  /\ call[c].op = "commit"
  /\ IF BelowLimit(call[c].t) /\ ~IsCompleted(c) THEN Credit(c, call[c].u, call[c].t)
     ELSE /\ Finish(c)
          /\ session' = [session EXCEPT ![call[c].u][call[c].t].completed = TRUE]
          /\ UNCHANGED books
  /\ UNCHANGED <<tasks, event>>

\* The limit is tested again under the row lock, a session deleted meanwhile
\* cannot be updated and the unique index refuses a second completion; each
\* ends the request and rolls everything back.
Commit(c) ==
  /\ call[c].op = "commit"
  /\ IF BelowLimit(call[c].t) /\ MySession(c).started /\ ~IsCompleted(c) THEN Credit(c, call[c].u, call[c].t)
     ELSE Finish(c) /\ UNCHANGED <<session, books>>
  /\ UNCHANGED <<tasks, event>>

\* The event exists in memory only.
Emit(c) ==
  /\ call[c].op = "emit"
  /\ event' = [event EXCEPT ![call[c].u][call[c].t] = call[c].amount]
  /\ Finish(c)
  /\ UNCHANGED <<tasks, books, session>>

-----------------------------------------------------------------------------
(***************************************************************************)
(* Admins: toggleTask reads before it writes, updateTask and deleteTask do *)
(* not use what they read.                                                 *)
(***************************************************************************)
ReadToToggle(c, t) ==
  /\ t \in Managed
  /\ Begin(c, IF status[t] = "ACTIVE" THEN "pause" ELSE "resume", NoUser, t, FALSE)
  /\ UNCHANGED <<tasks, books, session, event>>

WriteToggle(c) ==
  /\ call[c].op \in {"pause", "resume"}
  /\ status' = [status EXCEPT ![call[c].t] = IF call[c].op = "pause" THEN "PAUSED" ELSE "ACTIVE"]
  /\ Finish(c)
  /\ UNCHANGED <<reward, maxCompletions, books, session, event>>

UpdateTask(t) ==
  /\ reward' \in {[reward EXCEPT ![t] = x] : x \in Rewards}
  /\ maxCompletions' \in {[maxCompletions EXCEPT ![t] = x] : x \in Limits}
  /\ UNCHANGED <<status, books, session, event, call>>

DeleteTask(t) ==
  /\ t \in Managed
  /\ status' = [status EXCEPT ![t] = "EXPIRED"]
  /\ UNCHANGED <<reward, maxCompletions, books, session, event, call>>

-----------------------------------------------------------------------------
(***************************************************************************)
(* The hourly and daily jobs of cleanup.cron.ts.                           *)
(***************************************************************************)
Abandoned(u, t) ==
  session[u][t].started /\ ~session[u][t].completed /\ session[u][t].age >= Stale

\* MarkViewed updates a session by its id, so it fails once that one is deleted
\* even if the task is started again: it ends here.
CleanupStaleSessions ==
  /\ session' = [u \in User |-> [t \in Task |->
                    IF Abandoned(u, t) THEN NoSession ELSE session[u][t]]]
  /\ call' = [c \in Call |->
                 IF call[c].op = "view" /\ Abandoned(call[c].u, call[c].t) THEN Idle ELSE call[c]]
  /\ UNCHANGED <<tasks, books, event>>

\* Which of the active tasks are past expiresAt is left open.
ExpireOverdueTasks(t) ==
  /\ t \in Managed /\ status[t] = "ACTIVE"
  /\ status' = [status EXCEPT ![t] = "EXPIRED"]
  /\ UNCHANGED <<reward, maxCompletions, books, session, event, call>>

-----------------------------------------------------------------------------
(***************************************************************************)
(* Time and failures.                                                      *)
(***************************************************************************)
\* A session grows older, or ten seconds pass after its code was seen.
Elapse(u, t) ==
  /\ session[u][t].started
  /\ \/ /\ session[u][t].age < MaxAge
        /\ session' = [session EXCEPT ![u][t].age = @ + 1]
     \/ /\ session[u][t].viewed = "justNow"
        /\ session' = [session EXCEPT ![u][t].viewed = "longEnough"]
  /\ UNCHANGED <<tasks, books, event, call>>

CoolDown(u) ==
  /\ cooling' = cooling \ {u}
  /\ UNCHANGED <<tasks, completionCount, earned, totalEarned, today, session, event, call>>

Midnight ==
  /\ Overnight
  /\ today' = [u \in User |-> {}]
  /\ UNCHANGED <<tasks, completionCount, earned, totalEarned, cooling, session, event, call>>

\* A request dies between two awaits.
Abort(c) ==
  /\ call[c] # Idle
  /\ Finish(c)
  /\ UNCHANGED <<tasks, books, session, event>>

CallStep(c) ==
  \/ CheckNotDone(c) \/ CheckLockout(c) \/ UpsertSession(c) \/ MarkViewed(c)
  \/ CountToday(c) \/ CheckUnpaid(c) \/ AcceptSession(c) \/ MistypeCode(c)
  \/ CountWrongCode(c) \/ CheckCooldown(c) \/ Commit(c) \/ Emit(c)
  \/ WriteToggle(c) \/ Abort(c)

Next ==
  \/ \E c \in Call : CallStep(c)
  \/ \E c \in Call, u \in User, t \in Task :
        AdmitStart(c, u, t) \/ ReadLandingPage(c, u, t) \/ Admit(c, u, t)
  \/ \E c \in Call, t \in Task : ReadToToggle(c, t)
  \/ \E t \in Task : UpdateTask(t) \/ DeleteTask(t) \/ ExpireOverdueTasks(t)
  \/ CleanupStaleSessions
  \/ \E u \in User : CoolDown(u)
  \/ \E u \in User, t \in Task : Elapse(u, t)
  \/ Midnight

Spec == Init /\ [][Next]_vars

-----------------------------------------------------------------------------
(***************************************************************************)
(* Properties.                                                             *)
(***************************************************************************)
\* However many requests race for a user and a task, counters and wallets agree
\* with the completions: each is counted once and paid once.
BooksAgree ==
  /\ \A t \in Task : completionCount[t] = Cardinality({u \in User : earned[u][t] # 0})
  /\ \A u \in User : totalEarned[u] = SumFunction(earned[u])

\* Whatever the requests read and when, completing tasks does what PaidOnce
\* promises: one payment each, under the limit in force, announced once as made.
Promise == INSTANCE PaidOnce WITH limit <- maxCompletions, paid <- earned, announced <- event
PaysAsPromised == Promise!Spec

\* What the listener is told, and commissions are computed from, is what the
\* wallet was credited with, though admins change rewards meanwhile.
EventMatchesCredit ==
  \A u \in User, t \in Task : event[u][t] # 0 => event[u][t] = earned[u][t]

\* A session is only used up by a completion: a request refused or killed at
\* any point leaves the user able to try again.
UsedSessionsPaid ==
  \A u \in User, t \in Task : session[u][t].completed => earned[u][t] # 0

\* The count read first is used last, so concurrent requests may overrun the
\* daily limit, but by less than the requests in flight: those that have counted
\* and not yet committed can add no more than that.
Counted(u) ==
  {c \in Call : call[c].u = u /\ call[c].op \in {"counted", "unpaid", "checked", "commit"}}
DailyOverrunBounded ==
  \A u \in User : Cardinality(today[u]) + Cardinality(Counted(u)) < MaxDaily + Cardinality(Call)

\* Wrong codes are counted by atomic increments: requests that all read a valid
\* session add at most one each to the two it tolerates, even across restarts.
WrongCodesBounded ==
  \A u \in User, t \in Task : session[u][t].failed < 3 + Cardinality(Call)
=============================================================================
