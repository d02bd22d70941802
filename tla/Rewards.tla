------------------------------- MODULE Rewards -------------------------------
(***************************************************************************)
(* What follows a completed task.  TaskCompletedListener takes the event,  *)
(* pays commissions to up to three levels of referrers in one transaction  *)
(* that locks their wallets, then checks badges and the streak of          *)
(* everyone concerned.  Events live in memory; listeners of different      *)
(* completions interleave at every await.                                  *)
(***************************************************************************)
EXTENDS Integers, FiniteSets, Functions

CONSTANTS
  User,              \* ids, whose order is the order of the sorted lock list
  Referrer,          \* referredBy of each user, or NoUser
  Completion, Earner, Reward,   \* completions, whose, and what each pays
  Percent,           \* REFERRAL_LEVELn_PERCENT
  Badge,             \* rows of the badges table
  Cap,               \* DAILY_BADGE_REWARD_CAP
  InitialRank,
  Restless,          \* users who change status or tier while events run
  MaxDay,            \* days considered (a bound)
  MaxFaults,         \* failed calls and crashes considered (a bound)
  NoUser, NoCompletion

Level == 1..3
Category == {"TASKS", "REFERRALS", "EARNINGS", "STREAK"}
NoDay == -1

\* A user counts for a level of commission when the rank is at least the
\* level: 0 not ACTIVATED, 1 NORMAL, 2 PREMIUM, 3 VIP.
Rank == 0..3

ASSUME RewardsAssumption ==
  /\ IsFiniteSet(User) /\ User \subseteq Nat
  /\ NoUser \notin User
  /\ IsFiniteSet(Completion) /\ NoCompletion \notin Completion
  /\ Referrer \in [User -> User \cup {NoUser}]
  /\ Earner \in [Completion -> User]
  /\ Reward \in [Completion -> Nat]
  /\ Percent \in [Level -> 0..100]
  /\ IsFiniteSet(Badge)
  /\ Badge \subseteq [category : Category, threshold : Nat, reward : Nat]
  /\ Cap \in Nat /\ MaxDay \in Nat \ {0} /\ MaxFaults \in Nat
  /\ InitialRank \in [User -> Rank]
  /\ Restless \subseteq User

VARIABLES
  rank,         \* status and tier of each user, as a Rank
  income,       \* totalEarned of each wallet, in centimes
  commissions,  \* Commission rows: completion and level
  notified,     \* commissions announced to their beneficiary
  earned,       \* UserBadge rows
  bonus,        \* badge rewards each user received since midnight
  streak,       \* UserStreak rows
  active,       \* days on which recordActivity ran for each user
  day,
  lock,         \* who holds the row lock of each wallet
  listener,     \* the run of handleTaskCompleted for each completion
  job,          \* its badge checks in progress
  faults

rows  == <<income, commissions, notified, earned, bonus>>
days  == <<streak, active>>
world == <<rank, day, faults>>
vars  == <<rows, days, world, lock, listener, job>>

NoJob == [pc |-> "none", category |-> "TASKS", value |-> 0, total |-> 0]
NoStreak == [current |-> 0, longest |-> 0, last |-> NoDay]
Waiting == [pc |-> "idle", levels |-> {}, left |-> {}, next |-> NoStreak]

StreakRow == [current : Nat, longest : Nat, last : Nat \cup {NoDay}]
Job == [pc : {"none", "count", "sum", "award"}, category : Category,
        value : Nat, total : Nat]
Listener ==
  [pc : {"idle", "read", "lock", "notify", "referrals", "tasks", "activity",
         "write", "streak", "earnings", "done", "lost"},
   levels : SUBSET Level,   \* levels with a beneficiary when the chain was read
   left : SUBSET Level,     \* of those, the ones still to notify
   next : StreakRow]        \* what recordActivity is about to write

Init ==
  /\ rank = InitialRank
  /\ income = [u \in User |-> 0]
  /\ commissions = {} /\ notified = {}
  /\ earned = [u \in User |-> {}]
  /\ bonus = [u \in User |-> 0]
  /\ streak = [u \in User |-> NoStreak]
  /\ active = [u \in User |-> {}]
  /\ day = 1
  /\ lock = [u \in User |-> NoCompletion]
  /\ listener = [c \in Completion |-> Waiting]
  /\ job = [c \in Completion |-> [u \in User |-> NoJob]]
  /\ faults = 0

-----------------------------------------------------------------------------
\* DEFAULT_BADGES, the rows ensureBadgesSeeded writes, in francs.

Seed(category, steps) ==
  {[category |-> category, threshold |-> s[1], reward |-> s[2]] : s \in steps}

DefaultBadges ==
  Seed("STREAK", {<<3, 100>>, <<7, 300>>, <<30, 1500>>, <<100, 5000>>})
  \cup Seed("TASKS", {<<10, 200>>, <<50, 500>>, <<200, 2000>>, <<500, 5000>>})
  \cup Seed("REFERRALS", {<<3, 500>>, <<10, 2000>>, <<50, 10000>>})
  \cup Seed("EARNINGS", {<<5000, 200>>, <<50000, 1000>>, <<500000, 5000>>})

DefaultCap == 10000

\* No badge is out of reach of the daily cap, so that a user who deserves one is
\* granted it some day; within a category the further badge pays more.
ASSUME DefaultsAttainable ==
  \A b \in DefaultBadges :
    /\ b.reward <= DefaultCap
    /\ \A c \in DefaultBadges :
         c.category = b.category /\ c.threshold > b.threshold => c.reward > b.reward

-----------------------------------------------------------------------------
\* The chain of referrers and what each level earns.

Above(u) == IF u = NoUser THEN NoUser ELSE Referrer[u]

Beneficiary(c, l) ==
  CASE l = 1 -> Above(Earner[c])
    [] l = 2 -> Above(Above(Earner[c]))
    [] l = 3 -> Above(Above(Above(Earner[c])))

Ancestors(c) == {Beneficiary(c, l) : l \in Level} \ {NoUser}

\* Level 2 asks for PREMIUM or VIP, level 3 for VIP, all for ACTIVATED.
Eligible(c) ==
  {l \in Level : Beneficiary(c, l) # NoUser /\ rank[Beneficiary(c, l)] >= l}

\* Rewards are in whole francs: the percentage, in centimes, is exact.
Share(c, l) == Reward[c] * Percent[l]

Wanted(c) == {Beneficiary(c, l) : l \in listener[c].levels}
Held(c) == {u \in User : lock[u] = c}

Released(c) == [u \in User |-> IF lock[u] = c THEN NoCompletion ELSE lock[u]]

-----------------------------------------------------------------------------
\* Moves of a listener and of its badge checks.

Move(c, pc) == listener' = [listener EXCEPT ![c].pc = pc]

StartJob(c, u, pc, category, value) ==
  job' = [job EXCEPT ![c][u] =
            [pc |-> pc, category |-> category, value |-> value, total |-> 0]]

CheckTasks(c) ==
  Move(c, "tasks") /\ StartJob(c, Earner[c], "count", "TASKS", 0)

CheckEarnings(c) ==
  Move(c, "earnings") /\ StartJob(c, Earner[c], "count", "EARNINGS", 0)

\* One try covers the earner's three checks: a failure skips the rest.
EndOwnCheck(c, ok) ==
  IF ~ok \/ listener[c].pc = "earnings"
  THEN /\ Move(c, "done")
       /\ job' = [job EXCEPT ![c][Earner[c]] = NoJob]
  ELSE IF listener[c].pc = "tasks"
  THEN /\ Move(c, "activity")
       /\ job' = [job EXCEPT ![c][Earner[c]] = NoJob]
  ELSE CheckEarnings(c)

\* allSettled: the checks of the referrers end independently, and the
\* listener goes on after the last.
EndReferralCheck(c, u) ==
  IF \A v \in User \ {u} : job[c][v].pc = "none"
  THEN /\ Move(c, "tasks")
       /\ job' = [job EXCEPT ![c] = [v \in User |->
                    IF v = Earner[c] THEN [NoJob EXCEPT !.pc = "count"] ELSE NoJob]]
  ELSE job' = [job EXCEPT ![c][u] = NoJob] /\ UNCHANGED listener

EndCheck(c, u, ok) ==
  IF listener[c].pc = "referrals"
  THEN EndReferralCheck(c, u)
  ELSE EndOwnCheck(c, ok)

-----------------------------------------------------------------------------
\* distributeCommissions

\* completeTask committed the reward and emitted the event.
Complete(c) ==
  /\ listener[c].pc = "idle"
  /\ income' = [income EXCEPT ![Earner[c]] = @ + 100 * Reward[c]]
  /\ Move(c, "read")
  /\ UNCHANGED <<commissions, notified, earned, bonus, days, world, lock, job>>

ReadChain(c) ==
  /\ listener[c].pc = "read"
  /\ IF Eligible(c) = {}
     THEN CheckTasks(c)
     ELSE /\ listener' = [listener EXCEPT ![c].pc = "lock", ![c].levels = Eligible(c)]
          /\ UNCHANGED job
  /\ UNCHANGED <<rows, days, world, lock>>

\* Mutant of LockWallet: wallets are locked in no particular order.
LockAnyWallet(c, u) ==
  /\ listener[c].pc = "lock"
  /\ u \in Wanted(c)
  /\ lock[u] = NoCompletion
  /\ lock' = [lock EXCEPT ![u] = c]
  /\ UNCHANGED <<rows, days, world, listener, job>>

\* The sorted list: a wallet is locked after every wanted one below it.
LockWallet(c, u) ==
  /\ listener[c].pc = "lock"
  /\ u \in Wanted(c)
  /\ lock[u] = NoCompletion
  /\ \A v \in Wanted(c) : v < u => lock[v] = c
  /\ lock' = [lock EXCEPT ![u] = c]
  /\ UNCHANGED <<rows, days, world, listener, job>>

\* What the levels of c bring user u.
Part(c, l, u) ==
  IF l \in listener[c].levels /\ Beneficiary(c, l) = u THEN Share(c, l) ELSE 0
Due(c, u) == Part(c, 1, u) + Part(c, 2, u) + Part(c, 3, u)

Distribute(c) ==
  /\ listener[c].pc = "lock" /\ Wanted(c) \subseteq Held(c)
  /\ commissions' = commissions \cup {<<c, l>> : l \in listener[c].levels}
  /\ income' = [u \in User |-> income[u] + Due(c, u)]
  /\ lock' = Released(c)
  /\ listener' = [listener EXCEPT ![c].pc = "notify", ![c].left = listener[c].levels]
  /\ UNCHANGED <<notified, earned, bonus, days, world, job>>

\* Mutant of RollBack: the wallets are updated outside the transaction.
RollBackRowsOnly(c) ==
  /\ listener[c].pc = "lock" /\ faults < MaxFaults
  /\ lock' = Released(c)
  /\ income' = [u \in User |-> income[u] + IF u \in Held(c) THEN Due(c, u) ELSE 0]
  /\ CheckTasks(c)
  /\ faults' = faults + 1
  /\ UNCHANGED <<commissions, notified, earned, bonus, days, rank, day>>

\* Mutant of RollBack: the locks are kept.
RollBackKeepLocks(c) ==
  /\ listener[c].pc = "lock" /\ faults < MaxFaults
  /\ CheckTasks(c)
  /\ faults' = faults + 1
  /\ UNCHANGED <<rows, days, rank, day, lock>>

\* The transaction fails, before or after its updates, or times out waiting
\* for a lock: everything is rolled back and the listener goes on.
RollBack(c) ==
  /\ listener[c].pc = "lock" /\ faults < MaxFaults
  /\ lock' = Released(c)
  /\ CheckTasks(c)
  /\ faults' = faults + 1
  /\ UNCHANGED <<rows, days, rank, day>>

\* notifyCommission, level by level; a failure is ignored.  After the last
\* one, the referral badges of all ancestors are checked in parallel.
NotifyCommission(c, l, ok) ==
  /\ listener[c].pc = "notify"
  /\ l \in listener[c].left /\ \A k \in listener[c].left : l <= k
  /\ ok \/ faults < MaxFaults
  /\ faults' = IF ok THEN faults ELSE faults + 1
  /\ notified' = IF ok THEN notified \cup {<<c, l>>} ELSE notified
  /\ IF listener[c].left = {l}
     THEN /\ listener' = [listener EXCEPT ![c].pc = "referrals", ![c].left = {}]
          /\ job' = [job EXCEPT ![c] = [u \in User |->
                       IF u \in Ancestors(c)
                       THEN [NoJob EXCEPT !.pc = "count", !.category = "REFERRALS"]
                       ELSE NoJob]]
     ELSE /\ listener' = [listener EXCEPT ![c].left = @ \ {l}]
          /\ UNCHANGED job
  /\ UNCHANGED <<income, commissions, earned, bonus, days, rank, day, lock>>

-----------------------------------------------------------------------------
\* checkAndAwardBadges and its callers.  What it notifies is left out.

Value(c, u) ==
  CASE job[c][u].category = "TASKS" ->
         Cardinality({d \in Completion : Earner[d] = u /\ listener[d].pc # "idle"})
    [] job[c][u].category = "REFERRALS" ->
         Cardinality({v \in User : Referrer[v] = u})
    [] OTHER -> income[u] \div 100

Count(c, u) ==
  /\ job[c][u].pc = "count"
  /\ job' = [job EXCEPT ![c][u].pc = "sum", ![c][u].value = Value(c, u)]
  /\ UNCHANGED <<rows, days, world, lock, listener>>

SumToday(c, u) ==
  /\ job[c][u].pc = "sum"
  /\ IF bonus[u] >= Cap
     THEN EndCheck(c, u, TRUE)
     ELSE /\ job' = [job EXCEPT ![c][u].pc = "award", ![c][u].total = bonus[u]]
          /\ UNCHANGED listener
  /\ UNCHANGED <<rows, days, world, lock>>

\* What one check grants: each badge is held against the cap on its own.
Granted(c, u) ==
  {b \in Badge : /\ b.category = job[c][u].category
                /\ b.threshold <= job[c][u].value
                /\ b \notin earned[u]
                /\ job[c][u].total + b.reward <= Cap}

Bonus(bs) == SumFunctionOnSet([b \in Badge |-> b.reward], bs)

\* A transaction under the lock of the one wallet it touches.
Award(c, u) ==
  /\ job[c][u].pc = "award" /\ lock[u] = NoCompletion
  /\ earned' = [earned EXCEPT ![u] = @ \cup Granted(c, u)]
  /\ income' = [income EXCEPT ![u] = @ + 100 * Bonus(Granted(c, u))]
  /\ bonus' = [bonus EXCEPT ![u] = @ + Bonus(Granted(c, u))]
  /\ EndCheck(c, u, TRUE)
  /\ UNCHANGED <<commissions, notified, days, world, lock>>

CheckFails(c, u) ==
  /\ job[c][u].pc # "none" /\ faults < MaxFaults
  /\ EndCheck(c, u, FALSE)
  /\ faults' = faults + 1
  /\ UNCHANGED <<rows, days, rank, day, lock>>

-----------------------------------------------------------------------------
\* recordActivity

Larger(i, j) == IF i < j THEN j ELSE i

\* Mutant of NextStreak: the longest streak is kept as it was.
NextStreakLongestKept(s) ==
  LET current == IF s.last = day - 1 THEN s.current + 1 ELSE 1
  IN  [current |-> current, longest |-> Larger(s.longest, 1), last |-> day]

\* The row as it should be after an activity today.
NextStreak(s) ==
  LET current == IF s.last = day - 1 THEN s.current + 1 ELSE 1
  IN  [current |-> current, longest |-> Larger(s.longest, current), last |-> day]

\* The upsert creates the first row already counted, and then, like a row
\* of today, it ends the call: no streak badge is checked.
ReadStreak(c) ==
  LET u == Earner[c]
  IN  /\ listener[c].pc = "activity"
      /\ active' = [active EXCEPT ![u] = @ \cup {day}]
      /\ IF streak[u].last \in {NoDay, day}
         THEN /\ streak' = [streak EXCEPT ![u] =
                    IF @.last = NoDay THEN NextStreak(NoStreak) ELSE @]
              /\ CheckEarnings(c)
         ELSE /\ listener' = [listener EXCEPT ![c].pc = "write",
                                             ![c].next = NextStreak(streak[u])]
              /\ UNCHANGED <<streak, job>>
      /\ UNCHANGED <<rows, world, lock>>

\* Mutant of WriteStreak: the counter is incremented in the database.
IncrementStreak(c) ==
  /\ listener[c].pc = "write"
  /\ streak' = [streak EXCEPT ![Earner[c]] =
        IF listener[c].next.current = 1 THEN listener[c].next
        ELSE [listener[c].next EXCEPT !.current = streak[Earner[c]].current + 1]]
  /\ Move(c, "streak")
  /\ StartJob(c, Earner[c], "sum", "STREAK", listener[c].next.current)
  /\ UNCHANGED <<rows, active, world, lock>>

WriteStreak(c) ==
  /\ listener[c].pc = "write"
  /\ streak' = [streak EXCEPT ![Earner[c]] = listener[c].next]
  /\ Move(c, "streak")
  /\ StartJob(c, Earner[c], "sum", "STREAK", listener[c].next.current)
  /\ UNCHANGED <<rows, active, world, lock>>

ActivityFails(c) ==
  /\ listener[c].pc \in {"activity", "write"} /\ faults < MaxFaults
  /\ Move(c, "done")
  /\ faults' = faults + 1
  /\ UNCHANGED <<rows, days, rank, day, lock, job>>

-----------------------------------------------------------------------------
\* The surroundings.

Midnight ==
  /\ day < MaxDay
  /\ day' = day + 1
  /\ bonus' = [u \in User |-> 0]
  /\ UNCHANGED <<income, commissions, notified, earned, days, rank, faults,
                 lock, listener, job>>

\* Activation, upgrade, suspension.
ChangeRank(u) ==
  /\ u \in Restless
  /\ \E r \in Rank \ {rank[u]} : rank' = [rank EXCEPT ![u] = r]
  /\ UNCHANGED <<rows, days, day, faults, lock, listener, job>>

\* The process dies: what listeners were doing is lost, open transactions
\* are rolled back.
Crash ==
  /\ faults < MaxFaults
  /\ faults' = faults + 1
  /\ lock' = [u \in User |-> NoCompletion]
  /\ listener' = [c \in Completion |->
        IF listener[c].pc \in {"idle", "done"} THEN listener[c]
        ELSE [listener[c] EXCEPT !.pc = "lost", !.left = {}]]
  /\ job' = [c \in Completion |-> [u \in User |-> NoJob]]
  /\ UNCHANGED <<rows, days, rank, day>>

Step(c) ==
  \/ ReadChain(c) \/ Distribute(c) \/ RollBack(c)
  \/ ReadStreak(c) \/ WriteStreak(c) \/ ActivityFails(c)
  \/ \E l \in Level, ok \in BOOLEAN : NotifyCommission(c, l, ok)
  \/ \E u \in User :
       \/ LockWallet(c, u)
       \/ Count(c, u) \/ SumToday(c, u) \/ Award(c, u) \/ CheckFails(c, u)

Next ==
  \/ \E c \in Completion : Complete(c) \/ Step(c)
  \/ \E u \in User : ChangeRank(u)
  \/ Midnight
  \/ Crash

Spec == Init /\ [][Next]_vars

\* Once emitted, an event runs to its end unless the process dies.
Fairness == \A c \in Completion : WF_vars(Step(c))

FairSpec == Spec /\ Fairness

-----------------------------------------------------------------------------
\* Properties.

\* Rows hold what their columns allow, and the longest streak is at least
\* the current one.
TypeOK ==
  /\ rank \in [User -> Rank]
  /\ income \in [User -> Nat]
  /\ commissions \subseteq Completion \X Level
  /\ notified \subseteq Completion \X Level
  /\ earned \in [User -> SUBSET Badge]
  /\ bonus \in [User -> Nat]
  /\ streak \in [User -> StreakRow]
  /\ \A u \in User : streak[u].current <= streak[u].longest
  /\ active \in [User -> SUBSET (1..MaxDay)]
  /\ day \in 1..MaxDay
  /\ lock \in [User -> Completion \cup {NoCompletion}]
  /\ listener \in [Completion -> Listener]
  /\ job \in [Completion -> [User -> Job]]
  /\ faults \in 0..MaxFaults

Payments == [c \in Completion |-> 100 * Reward[c]]
Paid(u) == {c \in Completion : Earner[c] = u /\ listener[c].pc # "idle"}

Shares == [r \in Completion \X Level |-> Share(r[1], r[2])]
Received(u) == {r \in commissions : Beneficiary(r[1], r[2]) = u}

\* totalEarned is what the completions, Commission rows and UserBadge rows of
\* the user add up to, through rollbacks and crashes, and nobody is told of a
\* commission without having received it.
WalletsAgree ==
  /\ notified \subseteq commissions
  /\ \A u \in User :
       income[u] = SumFunctionOnSet(Payments, Paid(u))
                   + SumFunctionOnSet(Shares, Received(u)) + 100 * Bonus(earned[u])

\* c waits for a wallet that d has locked.
WaitsFor(c, d) ==
  /\ listener[c].pc = "lock"
  /\ \E u \in Wanted(c) :
       /\ lock[u] = d /\ d # c
       /\ \A v \in Wanted(c) : v < u => lock[v] = c

\* Commissions of related users never wait on each other in a circle: in any
\* set of listeners, one waits for none of the others.
NoWaitCycle ==
  \A S \in SUBSET Completion :
    S # {} => \E c \in S : \A d \in S : ~WaitsFor(c, d)

\* A streak of k days stands for k consecutive days of activity, whatever
\* completions of the same user, or midnights, fall between its read and its
\* write.
StreakEarned ==
  \A u \in User :
    \A d \in 1..MaxDay :
      (streak[u].last - streak[u].current < d /\ d <= streak[u].last) => d \in active[u]

\* Every event is handled to its end, contended wallets or not, unless the
\* process dies: nothing brings a lost event back.
EventsHandled ==
  \A c \in Completion :
    (listener[c].pc = "read") ~> (listener[c].pc \in {"done", "lost"})
=============================================================================
