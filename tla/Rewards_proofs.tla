---------------------------- MODULE Rewards_proofs ----------------------------
(***************************************************************************)
(* Theorems about Rewards, for any users and referrers, any completions in *)
(* flight, any badges, percentages and faults: listeners do not deadlock,  *)
(* streaks are earned, and wallets are what their rows add up to.          *)
(***************************************************************************)
EXTENDS Rewards, Sums

\* What the arguments need of the types; sums, which they do not need, are left
\* out.
Shape ==
  /\ lock \in [User -> Completion \cup {NoCompletion}]
  /\ listener \in [Completion -> Listener]
  /\ streak \in [User -> StreakRow]
  /\ active \in [User -> SUBSET Nat]
  /\ day \in Nat
  /\ DOMAIN job = Completion
  /\ \A c \in Completion : DOMAIN job[c] = User

\* Badges are checked at four points of a listener, and but for the referrers'
\* at one, only for the earner.
Checking == {"referrals", "tasks", "streak", "earnings"}
JobsPlaced ==
  \A c \in Completion, u \in User : job[c][u].pc # "none" =>
    /\ listener[c].pc \in Checking
    /\ listener[c].pc # "referrals" => u = Earner[c]

\* A level noted has a beneficiary.
LevelsTaken ==
  \A c \in Completion, l \in Level : l \in listener[c].levels => Beneficiary(c, l) # NoUser

\* Only a transaction holds locks, of wallets it wants, and of each with all
\* those below it.
LockOrder ==
  \A c \in Completion, u \in User : lock[u] = c =>
    /\ listener[c].pc = "lock"
    /\ u \in Wanted(c)
    /\ \A v \in Wanted(c) : v < u => lock[v] = c

\* A row stands for that many consecutive days of those given.
Earned(s, when) ==
  \A d \in 1..MaxDay : s.last - s.current < d /\ d <= s.last => d \in when

\* What recordActivity is about to write is earned too.
NextEarned ==
  \A c \in Completion : listener[c].pc = "write" => Earned(listener[c].next, active[Earner[c]])

IInv ==
  /\ Shape /\ JobsPlaced /\ LevelsTaken /\ LockOrder
  /\ StreakEarned /\ NextEarned

\* The steps away from the transaction and from the streak: no lock changes hands,
\* and nobody enters, leaves or alters what "lock" and "write" rest on.
Aside ==
  /\ UNCHANGED <<lock, days>>
  /\ \A d \in Completion :
       /\ listener[d].pc = "lock" \/ listener'[d].pc \in {"lock", "write"}
            => listener'[d] = listener[d]
       /\ listener'[d].levels = listener[d].levels

-----------------------------------------------------------------------------
\* Users up the chain.

\* A beneficiary is a user, unless the chain ends before.
LEMMA BeneficiaryType ==
  ASSUME NEW c \in Completion, NEW l \in Level
  PROVE  Beneficiary(c, l) \in User \cup {NoUser}
<1>1. \A u \in User \cup {NoUser} : Above(u) \in User \cup {NoUser}
  BY RewardsAssumption DEF Above
<1>2. Earner[c] \in User
  BY RewardsAssumption
<1>3. l \in {1, 2, 3}
  BY DEF Level
<1> QED BY <1>1, <1>2, <1>3 DEF Beneficiary

\* The wallets a transaction locks are those of users.
LEMMA WantedUsers ==
  ASSUME Shape, LevelsTaken, NEW c \in Completion
  PROVE  Wanted(c) \subseteq User
<1>1. listener[c].levels \subseteq Level
  BY DEF Shape, Listener
<1> QED BY <1>1, BeneficiaryType DEF Wanted, LevelsTaken

\* An activity turns a row into a row.
LEMMA NextStreakType ==
  ASSUME NEW s \in StreakRow, day \in Nat
  PROVE  NextStreak(s) \in StreakRow
BY DEF NextStreak, StreakRow, Larger, NoDay

\* The row before the first activity is a row.
LEMMA NoStreakType == NoStreak \in StreakRow
BY DEF NoStreak, StreakRow, NoDay

\* A listener stays one when it moves.
LEMMA Moved ==
  ASSUME NEW r \in Listener,
         NEW pc \in {"idle", "read", "lock", "notify", "referrals", "tasks", "activity",
                     "write", "streak", "earnings", "done", "lost"}
  PROVE  [r EXCEPT !.pc = pc] \in Listener /\ [r EXCEPT !.pc = pc].pc = pc
BY DEF Listener

\* So does the table of listeners when one of them moves.
LEMMA MovedOne ==
  ASSUME NEW s \in [Completion -> Listener], NEW c \in Completion,
         NEW pc \in {"tasks", "activity", "streak", "earnings", "done"}
  PROVE  [s EXCEPT ![c].pc = pc] \in [Completion -> Listener]
<1>1. s[c] \in Listener
  OBVIOUS
<1>2. [s[c] EXCEPT !.pc = pc] \in Listener
  BY <1>1, Moved
<1> QED BY <1>2

\* recordActivity notes the row it is about to write.
LEMMA NextNoted ==
  ASSUME NEW r \in Listener, NEW s \in StreakRow
  PROVE  LET q == [r EXCEPT !.pc = "write", !.next = s] IN q \in Listener /\ q.pc = "write"
BY DEF Listener

\* The chain of referrers notes the levels that earn.
LEMMA LevelsNoted ==
  ASSUME NEW r \in Listener, NEW ls \in SUBSET Level
  PROVE  LET q == [r EXCEPT !.pc = "lock", !.levels = ls] IN q \in Listener /\ q.pc = "lock"
BY DEF Listener

\* All the levels paid are left to notify.
LEMMA LevelsLeft ==
  ASSUME NEW r \in Listener
  PROVE  LET q == [r EXCEPT !.pc = "notify", !.left = r.levels]
         IN  q \in Listener /\ q.pc = "notify"
BY DEF Listener

\* One of them is notified.
LEMMA LeftNext ==
  ASSUME NEW r \in Listener, r.pc = "notify", NEW l
  PROVE  LET q == [r EXCEPT !.left = @ \ {l}] IN q \in Listener /\ q.pc = "notify"
BY DEF Listener

\* The last of them is notified.
LEMMA ReferralsNext ==
  ASSUME NEW s \in [Completion -> Listener], NEW c \in Completion
  PROVE  [s EXCEPT ![c].pc = "referrals", ![c].left = {}] \in [Completion -> Listener]
<1>1. [s[c] EXCEPT !.pc = "referrals", !.left = {}] \in Listener
  BY DEF Listener
<1> QED BY <1>1

-----------------------------------------------------------------------------
\* The end of a badge check moves the listener among checks or past them, and
\* leaves jobs only where it moves to.
LEMMA CheckEnds ==
  ASSUME Shape, JobsPlaced, NEW c \in Completion, NEW u \in User, NEW ok \in BOOLEAN,
         job[c][u].pc # "none", EndCheck(c, u, ok)
  PROVE  /\ listener[c].pc \in Checking
         /\ \/ listener' = listener
            \/ \E pc \in {"tasks", "earnings", "activity", "done"} :
                 listener' = [listener EXCEPT ![c].pc = pc]
         /\ DOMAIN job' = Completion
         /\ \A d \in Completion : DOMAIN job'[d] = User
         /\ JobsPlaced'
<1> USE DEF Shape, JobsPlaced
<1>0. /\ listener[c].pc \in Checking
      /\ listener[c].pc # "referrals" => u = Earner[c]
      /\ Earner[c] \in User
  BY RewardsAssumption
<1>1. CASE listener[c].pc = "referrals"
  <2>1. EndReferralCheck(c, u)
    BY <1>1 DEF EndCheck
  <2>2. CASE \A v \in User \ {u} : job[c][v].pc = "none"
    <3>1. /\ listener' = [listener EXCEPT ![c].pc = "tasks"]
          /\ job' = [job EXCEPT ![c] = [v \in User |->
                       IF v = Earner[c] THEN [NoJob EXCEPT !.pc = "count"] ELSE NoJob]]
      BY <2>1, <2>2 DEF EndReferralCheck, Move
    <3>2. \A v \in User : job'[c][v].pc # "none" => v = Earner[c]
      BY <3>1 DEF NoJob
    <3> QED BY <1>0, <3>1, <3>2 DEF Checking
  <2>3. CASE ~ \A v \in User \ {u} : job[c][v].pc = "none"
    <3>1. listener' = listener /\ job' = [job EXCEPT ![c][u] = NoJob]
      BY <2>1, <2>3 DEF EndReferralCheck
    <3>2. \A d \in Completion, v \in User :
            job'[d][v].pc # "none" => job'[d][v] = job[d][v]
      BY <3>1 DEF NoJob
    <3> QED BY <1>0, <3>1, <3>2
  <2> QED BY <2>2, <2>3
<1>2. CASE listener[c].pc # "referrals"
  <2>1. EndOwnCheck(c, ok) /\ u = Earner[c]
    BY <1>0, <1>2 DEF EndCheck
  <2>2. \A v \in User \ {u} : job[c][v].pc = "none"
    BY <1>2, <2>1
  <2>3. \/ /\ \E pc \in {"done", "activity"} : listener' = [listener EXCEPT ![c].pc = pc]
           /\ job' = [job EXCEPT ![c][u] = NoJob]
        \/ /\ listener' = [listener EXCEPT ![c].pc = "earnings"]
           /\ StartJob(c, u, "count", "EARNINGS", 0)
    BY <2>1 DEF EndOwnCheck, CheckEarnings, Move
  <2>4. CASE \E pc \in {"done", "activity"} : /\ listener' = [listener EXCEPT ![c].pc = pc]
                                              /\ job' = [job EXCEPT ![c][u] = NoJob]
    <3>1. \A v \in User : job'[c][v].pc = "none"
      BY <2>2, <2>4 DEF NoJob
    <3>2. /\ DOMAIN job' = Completion
          /\ \A d \in Completion : DOMAIN job'[d] = User /\ (d # c => job'[d] = job[d])
      BY <2>4
    <3>3. \A d \in Completion \ {c} : listener'[d] = listener[d]
      BY <2>4
    <3>4. JobsPlaced'
      BY <3>1, <3>2, <3>3
    <3> QED BY <1>0, <2>4, <3>2, <3>4
  <2>5. CASE /\ listener' = [listener EXCEPT ![c].pc = "earnings"]
             /\ StartJob(c, u, "count", "EARNINGS", 0)
    <3>1. \A v \in User : job'[c][v].pc # "none" => v = u
      BY <2>2, <2>5 DEF StartJob
    <3> QED BY <1>0, <2>1, <2>5, <3>1 DEF StartJob, Checking
  <2> QED BY <2>3, <2>4, <2>5
<1> QED BY <1>1, <1>2

-----------------------------------------------------------------------------
\* One lemma for each conjunct of the invariant, beginning with the shape and the
\* place of the jobs, to which every step matters.

\* Every step keeps the shape, and leaves jobs where badges are checked.
LEMMA Shaped ==
  ASSUME Shape, JobsPlaced, [Next]_vars
  PROVE  Shape' /\ JobsPlaced'
<1> USE DEF Shape, JobsPlaced, rows, days, world
<1>0. \A c \in Completion :
        /\ Earner[c] \in User /\ listener[c] \in Listener
        /\ streak[Earner[c]] \in StreakRow /\ active[Earner[c]] \in SUBSET Nat
  BY RewardsAssumption
<1>2. ASSUME NEW c \in Completion, listener[c].pc \notin Checking,
             lock' \in [User -> Completion \cup {NoCompletion}],
             UNCHANGED <<streak, active, day>>, CheckTasks(c)
      PROVE  Shape' /\ JobsPlaced'
  <2>1. /\ listener' = [listener EXCEPT ![c].pc = "tasks"]
        /\ StartJob(c, Earner[c], "count", "TASKS", 0)
    BY <1>2 DEF CheckTasks, Move
  <2>2. \A u \in User : job[c][u].pc = "none"
    BY <1>2
  <2>3. /\ DOMAIN job' = Completion
        /\ \A d \in Completion : DOMAIN job'[d] = User /\ (d # c => job'[d] = job[d])
        /\ \A u \in User : u # Earner[c] => job'[c][u] = job[c][u]
    BY <2>1 DEF StartJob
  <2>4. Shape'
    <3>1. listener' \in [Completion -> Listener]
      BY <2>1, MovedOne
    <3> QED BY <1>2, <2>3, <3>1
  <2>5. JobsPlaced'
    BY <2>1, <2>2, <2>3 DEF Checking
  <2> QED BY <2>4, <2>5
<1>3. ASSUME NEW c \in Completion, listener[c].pc \notin Checking,
             NEW row \in Listener, row.pc \notin Checking, listener' = [listener EXCEPT ![c] = row],
             lock' \in [User -> Completion \cup {NoCompletion}],
             streak' \in [User -> StreakRow], active' \in [User -> SUBSET Nat], UNCHANGED <<day, job>>
      PROVE  Shape' /\ JobsPlaced'
  <2>1. \A u \in User : job[c][u].pc = "none"
    BY <1>3
  <2> QED BY <1>3, <2>1
<1>1. ASSUME NEW c \in Completion, Complete(c)
      PROVE  Shape' /\ JobsPlaced'
  <2> DEFINE row == [listener[c] EXCEPT !.pc = "read"]
  <2>1. row \in Listener /\ row.pc = "read"
    <3>1. listener[c] \in Listener
      BY <1>0
    <3> HIDE DEF Shape, JobsPlaced
    <3> QED BY <3>1, Moved
  <2>2. /\ listener[c].pc = "idle" /\ UNCHANGED <<lock, streak, active, day, job>>
        /\ listener' = [listener EXCEPT ![c] = row]
    BY <1>1 DEF Complete, Move
  <2> HIDE DEF row
  <2> QED BY <1>3, <2>1, <2>2 DEF Checking
<1>4. ASSUME NEW c \in Completion, NEW u \in User, NEW ok \in BOOLEAN,
             job[c][u].pc # "none", EndCheck(c, u, ok), UNCHANGED <<lock, days, day>>
      PROVE  Shape' /\ JobsPlaced'
  <2>1. listener' \in [Completion -> Listener]
    <3>1. \/ listener' = listener
          \/ \E pc \in {"tasks", "earnings", "activity", "done"} :
               listener' = [listener EXCEPT ![c].pc = pc]
      BY <1>4, CheckEnds
    <3>2. ASSUME NEW pc \in {"tasks", "earnings", "activity", "done"},
                 listener' = [listener EXCEPT ![c].pc = pc]
          PROVE  listener' \in [Completion -> Listener]
      BY <3>2, MovedOne
    <3>3. CASE listener' = listener
      BY <3>3
    <3> QED BY <3>1, <3>2, <3>3
  <2>2. /\ DOMAIN job' = Completion
        /\ \A d \in Completion : DOMAIN job'[d] = User
        /\ JobsPlaced'
    BY <1>4, CheckEnds
  <2> QED BY <1>4, <2>1, <2>2
<1>5. ASSUME NEW c \in Completion, ReadChain(c)
      PROVE  Shape' /\ JobsPlaced'
  <2>1. listener[c].pc \notin Checking /\ UNCHANGED <<streak, active, day, lock>>
    BY <1>5 DEF ReadChain, Checking
  <2>2. CASE Eligible(c) = {}
    BY <1>2, <1>5, <2>1, <2>2 DEF ReadChain
  <2>3. CASE Eligible(c) # {}
    <3> DEFINE row == [listener[c] EXCEPT !.pc = "lock", !.levels = Eligible(c)]
    <3>1. row \in Listener /\ row.pc = "lock"
      <4>1. Eligible(c) \in SUBSET Level
        BY DEF Eligible
      <4> QED BY <1>0, <4>1, LevelsNoted
    <3>2. listener' = [listener EXCEPT ![c] = row] /\ UNCHANGED job
      BY <1>5, <2>3 DEF ReadChain
    <3> HIDE DEF row
    <3> QED BY <1>3, <2>1, <3>1, <3>2 DEF Checking
  <2> QED BY <2>2, <2>3
<1>6. ASSUME NEW c \in Completion, NEW u \in User, LockWallet(c, u)
      PROVE  Shape' /\ JobsPlaced'
  BY <1>6 DEF LockWallet
<1>7. \A c \in Completion : Released(c) \in [User -> Completion \cup {NoCompletion}]
  BY DEF Released
<1>8. ASSUME NEW c \in Completion, Distribute(c)
      PROVE  Shape' /\ JobsPlaced'
  <2> DEFINE row == [listener[c] EXCEPT !.pc = "notify", !.left = listener[c].levels]
  <2>1. row \in Listener /\ row.pc = "notify"
    BY <1>0, LevelsLeft
  <2>2. /\ listener[c].pc = "lock" /\ lock' = Released(c)
        /\ listener' = [listener EXCEPT ![c] = row] /\ UNCHANGED <<streak, active, day, job>>
    BY <1>8 DEF Distribute
  <2> HIDE DEF row
  <2> QED BY <1>3, <1>7, <2>1, <2>2 DEF Checking
<1>9. ASSUME NEW c \in Completion, RollBack(c)
      PROVE  Shape' /\ JobsPlaced'
  <2>1. /\ listener[c].pc = "lock" /\ lock' = Released(c)
        /\ CheckTasks(c) /\ UNCHANGED <<streak, active, day>>
    BY <1>9 DEF RollBack
  <2> QED BY <1>2, <1>7, <2>1 DEF Checking
<1>10. ASSUME NEW c \in Completion, NEW l \in Level, NEW ok \in BOOLEAN,
              NotifyCommission(c, l, ok)
       PROVE  Shape' /\ JobsPlaced'
  <2>1. listener[c].pc = "notify" /\ UNCHANGED <<streak, active, day, lock>>
    BY <1>10 DEF NotifyCommission
  <2>2. CASE listener[c].left = {l}
    <3>1. /\ listener' = [listener EXCEPT ![c].pc = "referrals", ![c].left = {}]
          /\ job' = [job EXCEPT ![c] = [u \in User |->
                       IF u \in Ancestors(c)
                       THEN [NoJob EXCEPT !.pc = "count", !.category = "REFERRALS"]
                       ELSE NoJob]]
      BY <1>10, <2>2 DEF NotifyCommission
    <3>2. listener' \in [Completion -> Listener]
      BY <3>1, ReferralsNext
    <3>3. /\ DOMAIN job' = Completion
          /\ \A d \in Completion : DOMAIN job'[d] = User /\ (d # c => job'[d] = job[d])
      BY <3>1
    <3>4. listener'[c].pc = "referrals" /\ \A d \in Completion \ {c} : listener'[d] = listener[d]
      BY <1>0, <3>1 DEF Listener
    <3>5. JobsPlaced'
      BY <3>3, <3>4 DEF Checking
    <3> QED BY <2>1, <3>2, <3>3, <3>5
  <2>3. CASE listener[c].left # {l}
    <3> DEFINE row == [listener[c] EXCEPT !.left = @ \ {l}]
    <3>1. row \in Listener /\ row.pc = "notify"
      BY <1>0, <2>1, LeftNext
    <3>2. listener' = [listener EXCEPT ![c] = row] /\ UNCHANGED job
      BY <1>10, <2>3 DEF NotifyCommission
    <3> HIDE DEF row
    <3> QED BY <1>3, <2>1, <3>1, <3>2 DEF Checking
  <2> QED BY <2>2, <2>3
<1>11. ASSUME NEW c \in Completion, NEW u \in User, job[c][u].pc # "none",
              UNCHANGED <<lock, days, day, listener>>,
              NEW j, job' = [job EXCEPT ![c][u] = j]
       PROVE  Shape' /\ JobsPlaced'
  <2>1. /\ DOMAIN job' = Completion
        /\ \A d \in Completion : DOMAIN job'[d] = User
        /\ \A d \in Completion, v \in User : d # c \/ v # u => job'[d][v] = job[d][v]
    BY <1>11
  <2>2. JobsPlaced'
    BY <1>11, <2>1
  <2> QED BY <1>11, <2>1, <2>2
<1>12. ASSUME NEW c \in Completion, NEW u \in User, Count(c, u)
       PROVE  Shape' /\ JobsPlaced'
  <2>1. /\ job[c][u].pc # "none" /\ UNCHANGED <<lock, days, day, listener>>
        /\ job' = [job EXCEPT ![c][u] = [job[c][u] EXCEPT !.pc = "sum", !.value = Value(c, u)]]
    BY <1>12 DEF Count
  <2> QED BY <1>11, <2>1
<1>13. ASSUME NEW c \in Completion, NEW u \in User, SumToday(c, u)
       PROVE  Shape' /\ JobsPlaced'
  <2>1. job[c][u].pc # "none" /\ UNCHANGED <<lock, days, day>>
    BY <1>13 DEF SumToday
  <2>2. CASE EndCheck(c, u, TRUE)
    BY <1>4, <2>1, <2>2
  <2>3. CASE ~EndCheck(c, u, TRUE)
    <3>1. /\ job' = [job EXCEPT ![c][u] = [job[c][u] EXCEPT !.pc = "award", !.total = bonus[u]]]
          /\ UNCHANGED listener
      BY <1>13, <2>3 DEF SumToday
    <3> QED BY <1>11, <2>1, <3>1
  <2> QED BY <2>2, <2>3
<1>14. ASSUME NEW c \in Completion, NEW u \in User, Award(c, u) \/ CheckFails(c, u)
       PROVE  Shape' /\ JobsPlaced'
  <2>1. job[c][u].pc # "none" /\ UNCHANGED <<lock, days, day>> /\ \E ok \in BOOLEAN : EndCheck(c, u, ok)
    BY <1>14 DEF Award, CheckFails
  <2> QED BY <1>4, <2>1
<1>15. ASSUME NEW c \in Completion, ReadStreak(c)
       PROVE  Shape' /\ JobsPlaced'
  <2> DEFINE u == Earner[c]
  <2>1. /\ listener[c].pc = "activity" /\ UNCHANGED <<lock, day>>
        /\ active' \in [User -> SUBSET Nat]
    BY <1>0, <1>15 DEF ReadStreak
  <2>2. CASE streak[u].last \in {NoDay, day}
    <3>1. streak' \in [User -> StreakRow]
      BY <1>0, <1>15, <2>2, NextStreakType, NoStreakType DEF ReadStreak
    <3>2. /\ listener' = [listener EXCEPT ![c].pc = "earnings"]
          /\ StartJob(c, u, "count", "EARNINGS", 0)
      BY <1>15, <2>2 DEF ReadStreak, CheckEarnings, Move
    <3>3. listener' \in [Completion -> Listener]
      BY <3>2, MovedOne
    <3>4. /\ DOMAIN job' = Completion
          /\ \A d \in Completion : DOMAIN job'[d] = User /\ (d # c => job'[d] = job[d])
          /\ \A v \in User : v # u => job'[c][v] = job[c][v]
      BY <3>2 DEF StartJob
    <3>5. \A v \in User : job[c][v].pc = "none"
      BY <2>1 DEF Checking
    <3>6. JobsPlaced'
      BY <3>2, <3>4, <3>5 DEF Checking
    <3> QED BY <2>1, <3>1, <3>3, <3>4, <3>6
  <2>3. CASE streak[u].last \notin {NoDay, day}
    <3> DEFINE row == [listener[c] EXCEPT !.pc = "write", !.next = NextStreak(streak[u])]
    <3>1. row \in Listener /\ row.pc = "write"
      BY <1>0, NextStreakType, NextNoted
    <3>2. listener' = [listener EXCEPT ![c] = row] /\ UNCHANGED <<streak, job>>
      BY <1>15, <2>3 DEF ReadStreak
    <3> HIDE DEF row
    <3> QED BY <1>3, <2>1, <3>1, <3>2 DEF Checking
  <2> QED BY <2>2, <2>3
<1>16. ASSUME NEW c \in Completion, WriteStreak(c)
       PROVE  Shape' /\ JobsPlaced'
  <2> DEFINE u == Earner[c]
  <2>1. /\ listener[c].pc = "write" /\ UNCHANGED <<active, lock, day>>
        /\ listener' = [listener EXCEPT ![c].pc = "streak"]
        /\ StartJob(c, u, "sum", "STREAK", listener[c].next.current)
        /\ streak' = [streak EXCEPT ![u] = listener[c].next]
    BY <1>16 DEF WriteStreak, Move
  <2>2. streak' \in [User -> StreakRow]
    BY <1>0, <2>1 DEF Listener
  <2>3. listener' \in [Completion -> Listener]
    BY <2>1, MovedOne
  <2>4. /\ DOMAIN job' = Completion
        /\ \A d \in Completion : DOMAIN job'[d] = User /\ (d # c => job'[d] = job[d])
        /\ \A v \in User : v # u => job'[c][v] = job[c][v]
    BY <2>1 DEF StartJob
  <2>5. \A v \in User : job[c][v].pc = "none"
    BY <2>1 DEF Checking
  <2>6. JobsPlaced'
    BY <2>1, <2>4, <2>5 DEF Checking
  <2> QED BY <2>1, <2>2, <2>3, <2>4, <2>6
<1>17. ASSUME NEW c \in Completion, ActivityFails(c)
       PROVE  Shape' /\ JobsPlaced'
  <2> DEFINE row == [listener[c] EXCEPT !.pc = "done"]
  <2>1. row \in Listener /\ row.pc = "done"
    BY <1>0, Moved
  <2>2. /\ listener[c].pc \in {"activity", "write"} /\ UNCHANGED <<lock, streak, active, day, job>>
        /\ listener' = [listener EXCEPT ![c] = row]
    BY <1>17 DEF ActivityFails, Move
  <2> HIDE DEF row
  <2> QED BY <1>3, <2>1, <2>2 DEF Checking
<1>18. ASSUME NEW u \in User, ChangeRank(u)
       PROVE  Shape' /\ JobsPlaced'
  BY <1>18 DEF ChangeRank
<1>19. ASSUME Midnight
       PROVE  Shape' /\ JobsPlaced'
  BY <1>19 DEF Midnight
<1>20. ASSUME Crash
       PROVE  Shape' /\ JobsPlaced'
  <2>1. \A c \in Completion, u \in User : job'[c][u].pc = "none"
    BY <1>20 DEF Crash, NoJob
  <2>2. listener' \in [Completion -> Listener]
    <3>1. \A r \in Listener : [r EXCEPT !.pc = "lost", !.left = {}] \in Listener
      BY DEF Listener
    <3> QED BY <1>0, <1>20, <3>1 DEF Crash
  <2> QED BY <1>20, <2>1, <2>2 DEF Crash
<1>21. CASE UNCHANGED vars
  BY <1>21 DEF vars
<1> QED
  BY <1>1, <1>5, <1>6, <1>8, <1>9, <1>10, <1>12, <1>13, <1>14, <1>15, <1>16, <1>17, <1>18,
     <1>19, <1>20, <1>21 DEF Next, Step

-----------------------------------------------------------------------------
\* Locks and streaks: most steps leave them aside.

\* The steps that touch neither locks nor streaks.
LEMMA StepsAside ==
  ASSUME IInv,
         \/ \E c \in Completion :
              \/ Complete(c) \/ ActivityFails(c)
              \/ \E l \in Level, ok \in BOOLEAN : NotifyCommission(c, l, ok)
              \/ \E u \in User :
                   Count(c, u) \/ SumToday(c, u) \/ Award(c, u) \/ CheckFails(c, u)
         \/ \E u \in User : ChangeRank(u)
         \/ Midnight
         \/ UNCHANGED vars
  PROVE  Aside
<1> USE DEF days
<1>0. Shape /\ JobsPlaced /\ listener \in [Completion -> Listener]
  BY DEF IInv, Shape
<1>1. ASSUME NEW c \in Completion, listener[c].pc \notin {"lock"},
             UNCHANGED <<lock, days>>,
             NEW row, listener' = [listener EXCEPT ![c] = row],
             row.pc \notin {"lock", "write"}, row.levels = listener[c].levels
      PROVE  Aside
  BY <1>0, <1>1 DEF Aside
<1>2. ASSUME NEW c \in Completion, listener[c].pc \notin {"lock"},
             UNCHANGED <<lock, days>>,
             NEW pc \in {"read", "tasks", "activity", "earnings", "done"},
             listener' = [listener EXCEPT ![c].pc = pc]
      PROVE  Aside
  <2>1. /\ [listener[c] EXCEPT !.pc = pc].pc = pc
        /\ [listener[c] EXCEPT !.pc = pc].levels = listener[c].levels
    <3>1. listener[c] \in Listener
      BY <1>0
    <3> QED BY <3>1 DEF Listener
  <2>2. listener' = [listener EXCEPT ![c] = [listener[c] EXCEPT !.pc = pc]]
    BY <1>2
  <2> QED BY <1>1, <1>2, <2>1, <2>2
<1>3. ASSUME NEW c \in Completion, NEW u \in User, NEW ok \in BOOLEAN,
             job[c][u].pc # "none", EndCheck(c, u, ok), UNCHANGED <<lock, days>>
      PROVE  Aside
  <2>1. /\ listener[c].pc \notin {"lock"}
        /\ \/ listener' = listener
           \/ \E pc \in {"tasks", "earnings", "activity", "done"} :
                listener' = [listener EXCEPT ![c].pc = pc]
    BY <1>0, <1>3, CheckEnds DEF Checking
  <2>2. CASE listener' = listener
    BY <1>3, <2>2 DEF Aside
  <2>3. CASE \E pc \in {"tasks", "earnings", "activity", "done"} :
               listener' = [listener EXCEPT ![c].pc = pc]
    BY <1>2, <1>3, <2>1, <2>3
  <2> QED BY <2>1, <2>2, <2>3
<1>4. ASSUME NEW c \in Completion, Complete(c)
      PROVE  Aside
  BY <1>2, <1>4 DEF Complete, Move
<1>5. ASSUME NEW c \in Completion, ActivityFails(c)
      PROVE  Aside
  BY <1>2, <1>5 DEF ActivityFails, Move
<1>6. ASSUME NEW c \in Completion, NEW l \in Level, NEW ok \in BOOLEAN, NotifyCommission(c, l, ok)
      PROVE  Aside
  <2>1. listener[c].pc = "notify" /\ UNCHANGED <<lock, days>>
    BY <1>6 DEF NotifyCommission
  <2>2. \E row : /\ listener' = [listener EXCEPT ![c] = row]
                 /\ row.pc \notin {"lock", "write"} /\ row.levels = listener[c].levels
    <3> DEFINE last == [listener[c] EXCEPT !.pc = "referrals", !.left = {}]
               more == [listener[c] EXCEPT !.left = @ \ {l}]
    <3>1. listener[c] \in Listener
      BY <1>0
    <3>2. /\ last.pc = "referrals" /\ last.levels = listener[c].levels
          /\ more.pc = "notify" /\ more.levels = listener[c].levels
      BY <2>1, <3>1 DEF Listener
    <3>3. listener' = [listener EXCEPT ![c] = last] \/ listener' = [listener EXCEPT ![c] = more]
      BY <1>6 DEF NotifyCommission
    <3> HIDE DEF last, more
    <3> QED BY <3>2, <3>3
  <2> QED BY <1>1, <2>1, <2>2
<1>7. ASSUME NEW c \in Completion, NEW u \in User, Count(c, u)
      PROVE  Aside
  BY <1>7 DEF Count, Aside
<1>8. ASSUME NEW c \in Completion, NEW u \in User, SumToday(c, u)
      PROVE  Aside
  <2>1. job[c][u].pc # "none" /\ UNCHANGED <<lock, days>>
    BY <1>8 DEF SumToday
  <2>2. CASE EndCheck(c, u, TRUE)
    BY <1>3, <2>1, <2>2
  <2>3. CASE UNCHANGED listener
    BY <2>1, <2>3 DEF Aside
  <2> QED BY <1>8, <2>2, <2>3 DEF SumToday
<1>9. ASSUME NEW c \in Completion, NEW u \in User, Award(c, u) \/ CheckFails(c, u)
      PROVE  Aside
  <2>1. job[c][u].pc # "none" /\ UNCHANGED <<lock, days>> /\ \E ok \in BOOLEAN : EndCheck(c, u, ok)
    BY <1>9 DEF Award, CheckFails
  <2> QED BY <1>3, <2>1
<1>10. ASSUME NEW u \in User, ChangeRank(u)
       PROVE  Aside
  BY <1>10 DEF ChangeRank, Aside
<1>11. CASE Midnight
  BY <1>11 DEF Midnight, Aside
<1>12. CASE UNCHANGED vars
  BY <1>12 DEF vars, Aside
<1> QED
  BY <1>4, <1>5, <1>6, <1>7, <1>8, <1>9, <1>10, <1>11, <1>12

-----------------------------------------------------------------------------
\* The order of the locks.

\* Every step keeps the locks in order.
LEMMA Ordered ==
  ASSUME IInv, [Next]_vars
  PROVE  LevelsTaken' /\ LockOrder'
<1>0. /\ listener \in [Completion -> Listener]
      /\ lock \in [User -> Completion \cup {NoCompletion}]
      /\ LevelsTaken /\ LockOrder
      /\ \A c \in Completion : Wanted(c) \subseteq User
  BY WantedUsers DEF IInv, Shape
<1>00. NoCompletion \notin Completion
  BY RewardsAssumption
<1>1. ASSUME \A d \in Completion :
               listener'[d].levels = listener[d].levels \/ listener'[d].levels = Eligible(d)
      PROVE  LevelsTaken'
  <2>1. \A d \in Completion, l \in Level : Beneficiary(d, l)' = Beneficiary(d, l)
    BY DEF Beneficiary, Above
  <2> QED BY <1>0, <1>1, <2>1 DEF LevelsTaken, Eligible
<1>2. ASSUME \A d \in Completion, u \in User : lock'[u] = d => lock[u] = d,
             \A d \in Completion, v \in User :
               lock[v] = d /\ (\E u \in User : lock'[u] = d) => lock'[v] = d,
             \A d \in Completion :
               listener[d].pc = "lock" /\ (\E u \in User : lock'[u] = d) =>
                 listener'[d].pc = "lock" /\ listener'[d].levels = listener[d].levels
      PROVE  LockOrder'
  <2> SUFFICES ASSUME NEW d \in Completion, NEW u \in User, lock'[u] = d
               PROVE  /\ listener'[d].pc = "lock"
                      /\ u \in Wanted(d)'
                      /\ \A v \in Wanted(d)' : v < u => lock'[v] = d
    BY DEF LockOrder
  <2>1. /\ listener[d].pc = "lock" /\ u \in Wanted(d)
        /\ \A v \in Wanted(d) : v < u => lock[v] = d
    BY <1>0, <1>2 DEF LockOrder
  <2>2. listener'[d].pc = "lock" /\ listener'[d].levels = listener[d].levels
    BY <1>2, <2>1
  <2>3. Wanted(d)' = Wanted(d)
    BY <2>2 DEF Wanted, Beneficiary, Above
  <2> QED BY <1>0, <1>2, <2>1, <2>2, <2>3
<1>3. CASE Aside
  <2>1. LevelsTaken'
    BY <1>1, <1>3 DEF Aside
  <2>2. LockOrder'
    BY <1>2, <1>3 DEF Aside
  <2> QED BY <2>1, <2>2
<1>4. ASSUME NEW c \in Completion, ReadChain(c)
      PROVE  LevelsTaken' /\ LockOrder'
  <2>1. /\ listener[c].pc = "read" /\ UNCHANGED lock
        /\ \/ listener' = [listener EXCEPT ![c].pc = "tasks"]
           \/ listener' = [listener EXCEPT ![c].pc = "lock", ![c].levels = Eligible(c)]
    BY <1>4 DEF ReadChain, CheckTasks, Move
  <2>2. listener[c] \in Listener
    BY <1>0
  <2>3. /\ listener'[c].levels = listener[c].levels \/ listener'[c].levels = Eligible(c)
        /\ \A d \in Completion \ {c} : listener'[d] = listener[d]
    BY <1>0, <2>1, <2>2 DEF Listener
  <2>4. LevelsTaken'
    BY <1>1, <2>3
  <2>5. LockOrder'
    BY <1>2, <2>1, <2>3
  <2> QED BY <2>4, <2>5
<1>5. ASSUME NEW c \in Completion, NEW w \in User, LockWallet(c, w)
      PROVE  LevelsTaken' /\ LockOrder'
  <2>1. /\ listener[c].pc = "lock" /\ w \in Wanted(c) /\ lock[w] = NoCompletion
        /\ \A v \in Wanted(c) : v < w => lock[v] = c
        /\ lock' = [lock EXCEPT ![w] = c] /\ UNCHANGED listener
    BY <1>5 DEF LockWallet
  <2>2. LevelsTaken'
    BY <1>1, <2>1
  <2> SUFFICES ASSUME NEW d \in Completion, NEW u \in User, lock'[u] = d
               PROVE  /\ listener'[d].pc = "lock"
                      /\ u \in Wanted(d)'
                      /\ \A v \in Wanted(d)' : v < u => lock'[v] = d
    BY <2>2 DEF LockOrder
  <2>3. Wanted(d)' = Wanted(d)
    BY <2>1 DEF Wanted, Beneficiary, Above
  <2>4. CASE u = w
    <3>1. d = c
      BY <1>0, <2>1, <2>4
    <3>2. w \in Nat
      BY RewardsAssumption
    <3>3. \A v \in Wanted(d) : v < u => lock'[v] = d
      BY <1>0, <2>1, <2>4, <3>1, <3>2
    <3> QED BY <2>1, <2>3, <2>4, <3>1, <3>3
  <2>5. CASE u # w
    <3>1. lock[u] = d
      BY <1>0, <2>1, <2>5
    <3>2. /\ listener[d].pc = "lock" /\ u \in Wanted(d)
          /\ \A v \in Wanted(d) : v < u => lock[v] = d
      BY <1>0, <3>1 DEF LockOrder
    <3>3. \A v \in Wanted(d) : v < u => lock'[v] = d
      BY <1>0, <1>00, <2>1, <3>2
    <3> QED BY <2>1, <2>3, <3>2, <3>3
  <2> QED BY <2>4, <2>5
<1>6. ASSUME NEW c \in Completion, lock' = Released(c),
             \A d \in Completion \ {c} : listener'[d] = listener[d],
             listener'[c].levels = listener[c].levels
      PROVE  LevelsTaken' /\ LockOrder'
  <2>1. LevelsTaken'
    BY <1>1, <1>6
  <2>2. \A d \in Completion, u \in User : lock'[u] = d <=> lock[u] = d /\ d # c
    BY <1>0, <1>00, <1>6 DEF Released
  <2>3. LockOrder'
    BY <1>2, <1>6, <2>2
  <2> QED BY <2>1, <2>3
<1>7. ASSUME NEW c \in Completion, Distribute(c) \/ RollBack(c)
      PROVE  LevelsTaken' /\ LockOrder'
  <2>1. /\ lock' = Released(c)
        /\ \/ listener' = [listener EXCEPT ![c].pc = "tasks"]
           \/ listener' = [listener EXCEPT ![c].pc = "notify", ![c].left = listener[c].levels]
    BY <1>7 DEF Distribute, RollBack, CheckTasks, Move
  <2>2. listener[c] \in Listener
    BY <1>0
  <2>3. /\ \A d \in Completion \ {c} : listener'[d] = listener[d]
        /\ listener'[c].levels = listener[c].levels
    BY <1>0, <2>1, <2>2 DEF Listener
  <2> QED BY <1>6, <2>1, <2>3
<1>8. ASSUME NEW c \in Completion, ReadStreak(c) \/ WriteStreak(c)
      PROVE  LevelsTaken' /\ LockOrder'
  <2>1. /\ listener[c].pc \in {"activity", "write"} /\ UNCHANGED lock
        /\ \/ listener' = [listener EXCEPT ![c].pc = "earnings"]
           \/ listener' = [listener EXCEPT ![c].pc = "streak"]
           \/ listener' = [listener EXCEPT ![c].pc = "write",
                                           ![c].next = NextStreak(streak[Earner[c]])]
    BY <1>8 DEF ReadStreak, WriteStreak, CheckEarnings, Move
  <2>2. listener[c] \in Listener
    BY <1>0
  <2>3. /\ listener'[c].levels = listener[c].levels
        /\ \A d \in Completion \ {c} : listener'[d] = listener[d]
    BY <1>0, <2>1, <2>2 DEF Listener
  <2>4. LevelsTaken'
    BY <1>1, <2>3
  <2>5. LockOrder'
    BY <1>2, <2>1, <2>3
  <2> QED BY <2>4, <2>5
<1>9. CASE Crash
  <2>1. \A d \in Completion : listener'[d].levels = listener[d].levels
    <3> SUFFICES ASSUME NEW d \in Completion
                 PROVE  listener'[d].levels = listener[d].levels
      OBVIOUS
    <3>1. listener[d] \in Listener
      BY <1>0
    <3>2. \/ listener'[d] = listener[d]
          \/ listener'[d] = [listener[d] EXCEPT !.pc = "lost", !.left = {}]
      BY <1>9 DEF Crash
    <3> QED BY <3>1, <3>2 DEF Listener
  <2>2. LevelsTaken'
    BY <1>1, <2>1
  <2>3. \A u \in User : lock'[u] \notin Completion
    BY <1>9, <1>00 DEF Crash
  <2> QED BY <2>2, <2>3 DEF LockOrder
<1> QED
  BY <1>3, <1>4, <1>5, <1>7, <1>8, <1>9, StepsAside DEF Next, Step

-----------------------------------------------------------------------------
\* The days a row stands for.

\* An activity today adds today to what the row stood for.
LEMMA TodayAdded ==
  ASSUME NEW s \in StreakRow, day \in Nat, NEW when, Earned(s, when)
  PROVE  Earned(NextStreak(s), when \cup {day})
<1> SUFFICES ASSUME NEW d \in 1..MaxDay, NEW next, next = NextStreak(s),
                    next.last - next.current < d, d <= next.last, d # day
             PROVE  d \in when
  BY DEF Earned
<1>1. /\ next.last = day
      /\ next.current = IF s.last = day - 1 THEN s.current + 1 ELSE 1
  BY DEF NextStreak
<1>2. s.current \in Nat /\ s.last \in Int /\ d \in Int /\ MaxDay \in Nat
  BY RewardsAssumption DEF StreakRow, NoDay
<1>3. s.last = day - 1 /\ s.last - s.current < d /\ d <= s.last
  BY <1>1, <1>2
<1> QED BY <1>3 DEF Earned

\* The first row stands for today alone.
LEMMA FirstDay ==
  ASSUME day \in Nat, NEW when
  PROVE  Earned(NextStreak(NoStreak), when \cup {day})
<1>1. Earned(NoStreak, when)
  BY RewardsAssumption DEF Earned, NoStreak, NoDay
<1> QED BY <1>1, TodayAdded, NoStreakType

\* A row stands for its days whatever days are added.
LEMMA MoreDays ==
  ASSUME NEW s, NEW when, NEW more, Earned(s, when), when \subseteq more
  PROVE  Earned(s, more)
BY DEF Earned

\* An update of one row.
LEMMA OneRow ==
  ASSUME NEW rs \in [User -> StreakRow], NEW u, NEW row, NEW w \in User
  PROVE  [rs EXCEPT ![u] = row][w] = rs[w] \/ (w = u /\ [rs EXCEPT ![u] = row][w] = row)
OBVIOUS

\* Rows written and about to be written stand for days of activity.
LEMMA Streaks ==
  ASSUME IInv, [Next]_vars
  PROVE  StreakEarned' /\ NextEarned'
<1> USE DEF days
<1>0. /\ listener \in [Completion -> Listener]
      /\ streak \in [User -> StreakRow]
      /\ active \in [User -> SUBSET Nat]
      /\ day \in Nat
      /\ \A u \in User : Earned(streak[u], active[u])
      /\ NextEarned
      /\ \A c \in Completion : Earner[c] \in User
  BY RewardsAssumption DEF IInv, Shape, StreakEarned, Earned
<1>1. ASSUME \A u \in User : Earned(streak'[u], active'[u])
      PROVE  StreakEarned'
  BY <1>1 DEF StreakEarned, Earned
<1>2. ASSUME UNCHANGED days,
             \A d \in Completion : listener'[d].pc = "write" => listener'[d] = listener[d]
      PROVE  StreakEarned' /\ NextEarned'
  <2>1. StreakEarned'
    BY <1>0, <1>1, <1>2
  <2>2. NextEarned'
    BY <1>0, <1>2 DEF NextEarned
  <2> QED BY <2>1, <2>2
<1>3. CASE Aside
  BY <1>2, <1>3 DEF Aside
<1>4. ASSUME NEW c \in Completion,
             ReadChain(c) \/ Distribute(c) \/ RollBack(c) \/ (\E u \in User : LockWallet(c, u))
      PROVE  StreakEarned' /\ NextEarned'
  <2>1. /\ UNCHANGED days
        /\ \/ listener' = listener
           \/ listener' = [listener EXCEPT ![c].pc = "tasks"]
           \/ listener' = [listener EXCEPT ![c].pc = "lock", ![c].levels = Eligible(c)]
           \/ listener' = [listener EXCEPT ![c].pc = "notify", ![c].left = listener[c].levels]
    BY <1>4 DEF ReadChain, Distribute, RollBack, LockWallet, CheckTasks, Move
  <2>2. listener[c] \in Listener
    BY <1>0
  <2>3. \A d \in Completion : listener'[d].pc = "write" => listener'[d] = listener[d]
    BY <1>0, <2>1, <2>2 DEF Listener
  <2> QED BY <1>2, <2>1, <2>3
<1>5. ASSUME NEW c \in Completion, ReadStreak(c)
      PROVE  StreakEarned' /\ NextEarned'
  <2> DEFINE u == Earner[c]
  <2>1. /\ active' = [active EXCEPT ![u] = @ \cup {day}]
        /\ active'[u] = active[u] \cup {day}
        /\ \A w \in User : active[w] \subseteq active'[w]
    BY <1>0, <1>5 DEF ReadStreak
  <2>2. \A w \in User : Earned(streak[w], active'[w])
    BY <1>0, <2>1, MoreDays
  <2>3. CASE streak[u].last \in {NoDay, day}
    <3>1. /\ listener' = [listener EXCEPT ![c].pc = "earnings"]
          /\ streak' = [streak EXCEPT ![u] = IF @.last = NoDay THEN NextStreak(NoStreak) ELSE @]
      BY <1>5, <2>3 DEF ReadStreak, CheckEarnings, Move
    <3>2. Earned(NextStreak(NoStreak), active'[u])
      BY <1>0, <2>1, FirstDay
    <3>3. \A w \in User : streak'[w] = streak[w] \/ (w = u /\ streak'[w] = NextStreak(NoStreak))
      <4>1. streak' = [streak EXCEPT ![u] =
              IF streak[u].last = NoDay THEN NextStreak(NoStreak) ELSE streak[u]]
        BY <3>1
      <4> QED BY <1>0, <4>1, OneRow
    <3>4. StreakEarned'
      BY <1>1, <2>2, <3>2, <3>3
    <3>5. \A d \in Completion : listener'[d].pc = "write" =>
            listener[d].pc = "write" /\ listener'[d].next = listener[d].next
      <4>1. listener[c] \in Listener
        BY <1>0
      <4> QED BY <1>0, <3>1, <4>1 DEF Listener
    <3>6. NextEarned'
      BY <1>0, <2>1, <3>5, MoreDays DEF NextEarned
    <3> QED BY <3>4, <3>6
  <2>4. CASE streak[u].last \notin {NoDay, day}
    <3>1. /\ listener' = [listener EXCEPT ![c].pc = "write", ![c].next = NextStreak(streak[u])]
          /\ UNCHANGED streak
      BY <1>5, <2>4 DEF ReadStreak
    <3>2. StreakEarned'
      BY <1>1, <2>2, <3>1
    <3>3. Earned(NextStreak(streak[u]), active'[u])
      BY <1>0, <2>1, TodayAdded
    <3>4. \A d \in Completion : listener'[d].pc = "write" =>
            \/ d = c /\ listener'[d].next = NextStreak(streak[u])
            \/ listener[d].pc = "write" /\ listener'[d].next = listener[d].next
      <4>1. listener[c] \in Listener
        BY <1>0
      <4> QED BY <1>0, <3>1, <4>1 DEF Listener
    <3>5. NextEarned'
      BY <1>0, <2>1, <3>3, <3>4, MoreDays DEF NextEarned
    <3> QED BY <3>2, <3>5
  <2> QED BY <2>3, <2>4
<1>6. ASSUME NEW c \in Completion, WriteStreak(c)
      PROVE  StreakEarned' /\ NextEarned'
  <2>1. /\ listener[c].pc = "write" /\ UNCHANGED active
        /\ streak' = [streak EXCEPT ![Earner[c]] = listener[c].next]
        /\ listener' = [listener EXCEPT ![c].pc = "streak"]
    BY <1>6 DEF WriteStreak, Move
  <2>2. \A w \in User : streak'[w] = streak[w] \/ (w = Earner[c] /\ streak'[w] = listener[c].next)
    BY <1>0, <2>1, OneRow
  <2>3. StreakEarned'
    BY <1>0, <1>1, <2>1, <2>2 DEF NextEarned
  <2>4. \A d \in Completion : listener'[d].pc = "write" => listener'[d] = listener[d]
    <3>1. listener[c] \in Listener
      BY <1>0
    <3> QED BY <1>0, <2>1, <3>1 DEF Listener
  <2>5. NextEarned'
    BY <1>0, <2>1, <2>4 DEF NextEarned
  <2> QED BY <2>3, <2>5
<1>7. CASE Crash
  <2>1. \A d \in Completion : listener'[d].pc = "write" => listener'[d] = listener[d]
    <3> SUFFICES ASSUME NEW d \in Completion, listener'[d].pc = "write"
                 PROVE  listener'[d] = listener[d]
      OBVIOUS
    <3>1. listener[d] \in Listener
      BY <1>0
    <3>2. \/ listener'[d] = listener[d]
          \/ listener'[d] = [listener[d] EXCEPT !.pc = "lost", !.left = {}]
      BY <1>7 DEF Crash
    <3> QED BY <3>1, <3>2 DEF Listener
  <2> QED BY <1>2, <1>7, <2>1 DEF Crash
<1> QED
  BY <1>3, <1>4, <1>5, <1>6, <1>7, StepsAside DEF Next, Step

-----------------------------------------------------------------------------
\* No circle.

\* A set of numbers has a least one.
LEMMA Least ==
  ASSUME NEW T \in SUBSET Nat, T # {}
  PROVE  \E x \in T : \A y \in T : x <= y
<1> DEFINE R == OpToRel(<, Nat)
<1>1. IsWellFoundedOn(R, Nat)
  BY NatLessThanWellFounded
<1>2. \A x, y \in Nat : x < y => <<x, y>> \in R
  BY DEF OpToRel
<1> HIDE DEF R
<1>3. PICK x \in T : \A y \in T : ~(<<y, x>> \in R)
  BY <1>1, WFMin
<1>4. \A y \in T : ~(y < x)
  BY <1>2, <1>3
<1> QED BY <1>4

\* In a set of users, some user is the last.
LEMMA Last ==
  ASSUME NEW U \in SUBSET User, U # {}
  PROVE  \E u \in U : \A v \in U : ~(u < v)
<1> DEFINE After(u) == {w \in User : u < w}
           T == {Cardinality(After(u)) : u \in U}
<1>1. IsFiniteSet(User) /\ User \subseteq Nat
  BY RewardsAssumption
<1>2. \A u \in User : IsFiniteSet(After(u)) /\ Cardinality(After(u)) \in Nat
  <2> SUFFICES ASSUME NEW u \in User
               PROVE  IsFiniteSet(After(u)) /\ Cardinality(After(u)) \in Nat
    OBVIOUS
  <2>1. After(u) \in SUBSET User
    OBVIOUS
  <2> HIDE DEF After
  <2>2. IsFiniteSet(After(u))
    BY <1>1, <2>1, FS_Subset
  <2> QED BY <2>2, FS_CardinalityType
<1>3. \A u, v \in User : u < v => Cardinality(After(v)) < Cardinality(After(u))
  <2> SUFFICES ASSUME NEW u \in User, NEW v \in User, u < v
               PROVE  Cardinality(After(v)) < Cardinality(After(u))
    OBVIOUS
  <2>1. After(v) \in SUBSET After(u) /\ v \in After(u) /\ v \notin After(v)
    <3>1. u \in Nat /\ v \in Nat /\ \A w \in User : w \in Nat
      BY <1>1
    <3>2. ASSUME NEW w \in User, v < w
          PROVE  u < w
      BY <3>1, <3>2
    <3>3. v \in After(u)
      OBVIOUS
    <3>4. v \notin After(v)
      BY <3>1
    <3> QED BY <3>2, <3>3, <3>4
  <2> HIDE DEF After
  <2>2. After(v) # After(u)
    BY <2>1
  <2>3. /\ Cardinality(After(v)) <= Cardinality(After(u))
        /\ Cardinality(After(u)) = Cardinality(After(v)) => After(u) = After(v)
    BY <1>2, <2>1, FS_Subset
  <2> QED BY <1>2, <2>2, <2>3
<1> HIDE DEF After
<1>4. T \in SUBSET Nat /\ T # {}
  BY <1>2, U # {}
<1>5. PICK n \in T : \A m \in T : n <= m
  <2> HIDE DEF T
  <2> QED BY <1>4, Least
<1>6. PICK u \in U : n = Cardinality(After(u))
  OBVIOUS
<1>7. \A v \in U : ~(Cardinality(After(v)) < Cardinality(After(u)))
  BY <1>2, <1>5, <1>6
<1> QED BY <1>3, <1>7

\* Were all of some listeners to wait on one another, one of them would wait for
\* the last wallet waited for.  The listener that holds it waits too, for a wallet
\* after it, since it has all those before.
LEMMA NoCircle ==
  ASSUME Shape, LevelsTaken, LockOrder
  PROVE  NoWaitCycle
<1> SUFFICES ASSUME NEW S \in SUBSET Completion, S # {},
                    \A c \in S : \E d \in S : WaitsFor(c, d)
             PROVE  FALSE
  BY DEF NoWaitCycle
<1> DEFINE Stops(c, d, u) ==
             /\ u \in Wanted(c) /\ lock[u] = d /\ d # c
             /\ \A v \in Wanted(c) : v < u => lock[v] = c
           Stuck == {u \in User : \E c \in S, d \in S : Stops(c, d, u)}
<1>1. User \subseteq Nat /\ \A c \in Completion : Wanted(c) \subseteq User
  BY RewardsAssumption, WantedUsers
<1>2. \A c \in S : \E d \in S, u \in User : Stops(c, d, u)
  BY <1>1 DEF WaitsFor
<1>3. Stuck # {}
  <2>1. PICK c \in S : TRUE
    BY S # {}
  <2>2. PICK d \in S, u \in User : Stops(c, d, u)
    BY <1>2
  <2>3. u \in Stuck
    BY <2>2
  <2> QED BY <2>3
<1>4. PICK u \in Stuck : \A v \in Stuck : ~(u < v)
  <2>1. Stuck \in SUBSET User
    OBVIOUS
  <2> HIDE DEF Stuck
  <2> QED BY <1>3, <2>1, Last
<1>5. PICK c \in S, d \in S : Stops(c, d, u)
  OBVIOUS
<1>6. PICK e \in S, v \in User : Stops(d, e, v)
  BY <1>2
<1>7. /\ u \in Wanted(d)
      /\ \A w \in Wanted(d) : w < u => lock[w] = d
  BY <1>5 DEF LockOrder
<1>8. ~(v < u) /\ v # u
  BY <1>5, <1>6, <1>7
<1>9. v \in Stuck /\ u \in User
  BY <1>6
<1>10. u < v
  BY <1>1, <1>8, <1>9
<1> QED BY <1>4, <1>9, <1>10

-----------------------------------------------------------------------------
(***************************************************************************)
(* The wallets: what a step pays, and to whom.                             *)
(***************************************************************************)

\* Commissions are written only from "lock" on,
Unpaid ==
  \A c \in Completion, l \in Level :
    listener[c].pc \in {"idle", "read", "lock"} => <<c, l>> \notin commissions

\* and a level left to notify has been paid.
LeftPaid ==
  \A c \in Completion : listener[c].pc = "notify" =>
    \A l \in listener[c].left : <<c, l>> \in commissions

MoneyTyped ==
  /\ income \in [User -> Nat]
  /\ commissions \subseteq Completion \X Level
  /\ earned \in [User -> SUBSET Badge]

MInv == IInv /\ MoneyTyped /\ Unpaid /\ LeftPaid /\ WalletsAgree

\* Steps that pay nobody, and steps that change no more than wallets: listeners
\* past the transaction go on, the others wait.
Onward ==
  \A d \in Completion :
    \/ listener'[d] = listener[d]
    \/ listener[d].pc # "idle" /\ listener'[d].pc \notin {"idle", "read", "lock", "notify"}
Calm == UNCHANGED <<income, commissions, notified, earned>> /\ Onward

\* A listener that moves past the commissions moves onward.
LEMMA MovesOnward ==
  ASSUME Shape, NEW c \in Completion, listener[c].pc # "idle",
         NEW pc \in {"tasks", "activity", "write", "streak", "earnings", "done"},
         listener' = [listener EXCEPT ![c].pc = pc]
  PROVE  Onward
<1>1. listener[c] \in Listener /\ listener \in [Completion -> Listener]
  BY DEF Shape
<1>2. [listener[c] EXCEPT !.pc = pc].pc = pc
  BY <1>1, Moved
<1>3. listener' = [listener EXCEPT ![c] = [listener[c] EXCEPT !.pc = pc]]
  OBVIOUS
<1>4. listener'[c].pc = pc /\ \A d \in Completion : d # c => listener'[d] = listener[d]
  BY <1>1, <1>2, <1>3
<1> QED BY <1>4 DEF Onward

\* The end of a badge check is such a move.
LEMMA CheckOnward ==
  ASSUME Shape, JobsPlaced, NEW c \in Completion, NEW u \in User, NEW ok \in BOOLEAN,
         job[c][u].pc # "none", EndCheck(c, u, ok)
  PROVE  Onward
<1>1. /\ listener[c].pc # "idle"
      /\ \/ listener' = listener
         \/ \E pc \in {"tasks", "earnings", "activity", "done"} :
              listener' = [listener EXCEPT ![c].pc = pc]
  BY CheckEnds DEF Checking
<1>2. CASE listener' = listener
  BY <1>2 DEF Onward
<1>3. CASE \E pc \in {"tasks", "earnings", "activity", "done"} :
             listener' = [listener EXCEPT ![c].pc = pc]
  BY <1>1, <1>3, MovesOnward
<1> QED BY <1>1, <1>2, <1>3

\* Most steps pay nobody.
LEMMA StepsCalm ==
  ASSUME Shape, JobsPlaced,
         \/ \E c \in Completion :
              \/ ReadChain(c) /\ Eligible(c) = {}
              \/ RollBack(c) \/ ReadStreak(c) \/ WriteStreak(c) \/ ActivityFails(c)
              \/ \E u \in User :
                   LockWallet(c, u) \/ Count(c, u) \/ SumToday(c, u) \/ CheckFails(c, u)
         \/ \E u \in User : ChangeRank(u)
         \/ Midnight \/ Crash \/ UNCHANGED vars
  PROVE  Calm
<1> USE DEF Calm, rows
<1>1. ASSUME NEW c \in Completion, ReadChain(c), Eligible(c) = {} PROVE Calm
  BY <1>1, MovesOnward DEF ReadChain, CheckTasks, Move
<1>2. ASSUME NEW c \in Completion, RollBack(c) PROVE Calm
  BY <1>2, MovesOnward DEF RollBack, CheckTasks, Move
<1>3. ASSUME NEW c \in Completion, ReadStreak(c) PROVE Calm
  <2>1. CASE streak[Earner[c]].last \in {NoDay, day}
    BY <1>3, <2>1, MovesOnward DEF ReadStreak, CheckEarnings, Move
  <2>2. CASE streak[Earner[c]].last \notin {NoDay, day}
    <3> DEFINE s == NextStreak(streak[Earner[c]])
               q == [listener[c] EXCEPT !.pc = "write", !.next = s]
    <3>1. listener[c] \in Listener /\ listener \in [Completion -> Listener]
      BY DEF Shape
    <3>2. q.pc = "write"
      BY <3>1 DEF Listener
    <3>3. listener' = [listener EXCEPT ![c] = q] /\ listener[c].pc = "activity"
      BY <1>3, <2>2 DEF ReadStreak
    <3> HIDE DEF q, s
    <3>4. Onward
      BY <3>1, <3>2, <3>3 DEF Onward
    <3> QED BY <1>3, <3>4 DEF ReadStreak
  <2> QED BY <2>1, <2>2
<1>4. ASSUME NEW c \in Completion, WriteStreak(c) PROVE Calm
  BY <1>4, MovesOnward DEF WriteStreak, Move
<1>5. ASSUME NEW c \in Completion, ActivityFails(c) PROVE Calm
  BY <1>5, MovesOnward DEF ActivityFails, Move
<1>6. ASSUME NEW c \in Completion, NEW u \in User, LockWallet(c, u) \/ Count(c, u) PROVE Calm
  BY <1>6 DEF LockWallet, Count, Onward
<1>7. ASSUME NEW c \in Completion, NEW u \in User, SumToday(c, u) PROVE Calm
  <2>1. CASE EndCheck(c, u, TRUE)
    BY <1>7, <2>1, CheckOnward DEF SumToday
  <2>2. CASE UNCHANGED listener
    BY <1>7, <2>2 DEF SumToday, Onward
  <2> QED BY <1>7, <2>1, <2>2 DEF SumToday
<1>8. ASSUME NEW c \in Completion, NEW u \in User, CheckFails(c, u) PROVE Calm
  BY <1>8, CheckOnward DEF CheckFails
<1>9. ASSUME NEW u \in User, ChangeRank(u) PROVE Calm
  BY <1>9 DEF ChangeRank, Onward
<1>10. CASE Midnight
  BY <1>10 DEF Midnight, Onward
<1>11. CASE Crash
  <2>1. ASSUME NEW d \in Completion
        PROVE  \/ listener'[d] = listener[d]
               \/ listener[d].pc # "idle" /\ listener'[d].pc = "lost"
    <3>1. listener[d] \in Listener
      BY DEF Shape
    <3>2. [listener[d] EXCEPT !.pc = "lost", !.left = {}].pc = "lost"
      BY <3>1 DEF Listener
    <3> QED BY <1>11, <3>2 DEF Crash
  <2>2. Onward
    BY <2>1 DEF Onward
  <2> QED BY <1>11, <2>2 DEF Crash
<1>12. CASE UNCHANGED vars
  BY <1>12 DEF vars, Onward
<1> QED BY <1>1, <1>2, <1>3, <1>4, <1>5, <1>6, <1>7, <1>8, <1>9, <1>10, <1>11, <1>12

\* Onward, who was unpaid stays so and who has been paid stays paid.
LEMMA OnwardKeeps ==
  ASSUME Unpaid, LeftPaid, UNCHANGED commissions, Onward
  PROVE  Unpaid' /\ LeftPaid' /\ \A u : Paid(u)' = Paid(u)
<1>1. Unpaid'
  BY DEF Unpaid, Onward
<1>2. LeftPaid'
  BY DEF LeftPaid, Onward
<1>3. \A u : Paid(u)' = Paid(u)
  BY DEF Paid, Onward
<1> QED BY <1>1, <1>2, <1>3

\* Nor do they disturb the wallets.
LEMMA CalmKeeps ==
  ASSUME MoneyTyped, Unpaid, LeftPaid, WalletsAgree, Calm
  PROVE  MoneyTyped' /\ Unpaid' /\ LeftPaid' /\ WalletsAgree'
<1>1. Unpaid' /\ LeftPaid' /\ \A u : Paid(u)' = Paid(u)
  BY OnwardKeeps DEF Calm
<1>2. \A u : Received(u)' = Received(u)
  BY DEF Calm, Received
<1>3. WalletsAgree'
  BY <1>1, <1>2 DEF WalletsAgree, Calm
<1> QED BY <1>1, <1>3 DEF MoneyTyped, Calm

-----------------------------------------------------------------------------
\* The sums.

\* What is summed, and over what.
LEMMA Amounts ==
  /\ Payments \in [Completion -> Nat] /\ Shares \in [Completion \X Level -> Nat]
  /\ [b \in Badge |-> b.reward] \in [Badge -> Nat]
  /\ IsFiniteSet(Completion \X Level)
<1>1. Payments \in [Completion -> Nat]
  BY RewardsAssumption DEF Payments
<1>2. ASSUME NEW r \in Completion \X Level PROVE Share(r[1], r[2]) \in Nat
  <2>1. Reward[r[1]] \in Nat /\ Percent[r[2]] \in Nat
    BY RewardsAssumption
  <2>2. \A m, n \in Nat : m * n \in Nat
    OBVIOUS
  <2> QED BY <2>1, <2>2 DEF Share
<1>3. Shares \in [Completion \X Level -> Nat]
  BY <1>2 DEF Shares
<1>4. [b \in Badge |-> b.reward] \in [Badge -> Nat]
  BY RewardsAssumption
<1>5. IsFiniteSet(Level)
  <2>1. Level = {1} \cup ({2} \cup {3})
    BY DEF Level
  <2>2. IsFiniteSet({1}) /\ IsFiniteSet({2}) /\ IsFiniteSet({3})
    BY FS_Singleton
  <2> QED BY <2>1, <2>2, FS_Union
<1>6. IsFiniteSet(Completion \X Level)
  BY <1>5, FS_Product, RewardsAssumption
<1> QED BY <1>1, <1>3, <1>4, <1>6

\* Rewards of badges are amounts.
LEMMA BonusType ==
  ASSUME NEW bs \in SUBSET Badge
  PROVE  IsFiniteSet(bs) /\ Bonus(bs) \in Nat
<1>1. IsFiniteSet(bs)
  BY FS_Subset, RewardsAssumption
<1>2. \A b \in bs : [x \in Badge |-> x.reward][b] \in Nat
  BY Amounts
<1>3. SumFunctionOnSet([x \in Badge |-> x.reward], bs) \in Nat
  BY <1>1, <1>2, SumNat
<1> QED BY <1>1, <1>3 DEF Bonus

\* What a wallet is the sum of.
LEMMA Parts ==
  ASSUME MoneyTyped, NEW u
  PROVE  /\ IsFiniteSet(Paid(u)) /\ Paid(u) \subseteq Completion
         /\ IsFiniteSet(Received(u)) /\ Received(u) \subseteq Completion \X Level
         /\ SumFunctionOnSet(Payments, Paid(u)) \in Nat
         /\ SumFunctionOnSet(Shares, Received(u)) \in Nat
<1>1. Paid(u) \subseteq Completion /\ Received(u) \subseteq Completion \X Level
  BY DEF Paid, Received, MoneyTyped
<1>2. IsFiniteSet(Paid(u)) /\ IsFiniteSet(Received(u))
  BY <1>1, Amounts, FS_Subset, RewardsAssumption
<1>3. \A c \in Paid(u) : Payments[c] \in Nat
  BY <1>1, Amounts
<1>4. \A r \in Received(u) : Shares[r] \in Nat
  BY <1>1, Amounts
<1>5. SumFunctionOnSet(Payments, Paid(u)) \in Nat
  BY <1>2, <1>3, SumNat
<1>6. SumFunctionOnSet(Shares, Received(u)) \in Nat
  BY <1>2, <1>4, SumNat
<1> QED BY <1>1, <1>2, <1>5, <1>6

-----------------------------------------------------------------------------
\* The steps that pay.

\* completeTask credits its reward, and the completion counts from then on.
LEMMA CompletePays ==
  ASSUME MInv, NEW c \in Completion, Complete(c)
  PROVE  MoneyTyped' /\ Unpaid' /\ LeftPaid' /\ WalletsAgree'
<1> DEFINE o == Earner[c]
<1>1. /\ o \in User /\ Reward[c] \in Nat
      /\ MoneyTyped /\ Unpaid /\ LeftPaid /\ WalletsAgree
      /\ listener \in [Completion -> Listener]
  BY RewardsAssumption DEF MInv, IInv, Shape
<1>2. /\ listener[c].pc = "idle" /\ UNCHANGED <<commissions, notified, earned>>
      /\ income' = [income EXCEPT ![o] = @ + 100 * Reward[c]]
      /\ listener' = [listener EXCEPT ![c] = [listener[c] EXCEPT !.pc = "read"]]
  BY DEF Complete, Move
<1>3. listener'[c].pc = "read" /\ \A d \in Completion : d # c => listener'[d] = listener[d]
  <2>1. [listener[c] EXCEPT !.pc = "read"].pc = "read"
    BY <1>1, Moved
  <2> QED BY <1>1, <1>2, <2>1
<1>4. MoneyTyped'
  BY <1>1, <1>2 DEF MoneyTyped
<1>5. Unpaid' /\ LeftPaid'
  BY <1>1, <1>2, <1>3 DEF Unpaid, LeftPaid
<1>6. ASSUME NEW u \in User
      PROVE  income'[u] = SumFunctionOnSet(Payments, Paid(u)')
                          + SumFunctionOnSet(Shares, Received(u)') + 100 * Bonus(earned'[u])
  <2>1. Received(u)' = Received(u) /\ earned'[u] = earned[u]
    BY <1>2 DEF Received
  <2>2. Bonus(earned[u]) \in Nat
    BY <1>1, BonusType DEF MoneyTyped
  <2>3. income[u] = SumFunctionOnSet(Payments, Paid(u))
                    + SumFunctionOnSet(Shares, Received(u)) + 100 * Bonus(earned[u])
    BY <1>1 DEF WalletsAgree
  <2>4. /\ SumFunctionOnSet(Payments, Paid(u)) \in Nat
        /\ SumFunctionOnSet(Shares, Received(u)) \in Nat
    BY <1>1, Parts
  <2>5. CASE u = o
    <3>1. Paid(u)' = Paid(u) \cup {c} /\ c \notin Paid(u)
      BY <1>2, <1>3, <2>5 DEF Paid
    <3>2. \A d \in Paid(u) \cup {c} : Payments[d] \in Int
      BY Amounts DEF Paid
    <3>3. SumFunctionOnSet(Payments, Paid(u) \cup {c})
            = SumFunctionOnSet(Payments, Paid(u)) + Payments[c]
      BY <1>1, <3>1, <3>2, Parts, SumAdd
    <3>4. Payments[c] = 100 * Reward[c] /\ income'[u] = income[u] + 100 * Reward[c]
      BY <1>1, <1>2, <2>5 DEF Payments, MoneyTyped
    <3> HIDE DEF o
    <3> QED BY <1>1, <2>1, <2>2, <2>3, <2>4, <3>1, <3>3, <3>4
  <2>6. CASE u # o
    <3>1. Paid(u)' = Paid(u)
      BY <1>3, <2>6 DEF Paid
    <3>2. income'[u] = income[u]
      BY <1>1, <1>2, <2>6 DEF MoneyTyped
    <3> QED BY <2>1, <2>3, <3>1, <3>2
  <2> QED BY <2>5, <2>6
<1>7. WalletsAgree'
  BY <1>1, <1>2, <1>6 DEF WalletsAgree
<1> QED BY <1>4, <1>5, <1>7

\* The levels are noted before the transaction pays them.
LEMMA ReadKeeps ==
  ASSUME MInv, NEW c \in Completion, ReadChain(c), Eligible(c) # {}
  PROVE  MoneyTyped' /\ Unpaid' /\ LeftPaid' /\ WalletsAgree'
<1>1. /\ MoneyTyped /\ Unpaid /\ LeftPaid /\ WalletsAgree
      /\ listener \in [Completion -> Listener]
  BY DEF MInv, IInv, Shape
<1>2. /\ listener[c].pc = "read" /\ UNCHANGED rows
      /\ listener' = [listener EXCEPT ![c].pc = "lock", ![c].levels = Eligible(c)]
  BY DEF ReadChain
<1>3. listener'[c].pc = "lock" /\ \A d \in Completion : d # c => listener'[d] = listener[d]
  <2> DEFINE q == [listener[c] EXCEPT !.pc = "lock", !.levels = Eligible(c)]
  <2>1. q.pc = "lock"
    BY <1>1 DEF Listener
  <2>2. listener' = [listener EXCEPT ![c] = q]
    BY <1>2
  <2> HIDE DEF q
  <2> QED BY <1>1, <2>1, <2>2
<1>4. Unpaid' /\ LeftPaid'
  BY <1>1, <1>2, <1>3 DEF Unpaid, LeftPaid, rows
<1>5. \A u : Paid(u)' = Paid(u) /\ Received(u)' = Received(u)
  BY <1>2, <1>3 DEF Paid, Received, rows
<1> QED BY <1>1, <1>2, <1>4, <1>5 DEF MoneyTyped, WalletsAgree, rows

\* The row that level l of c brings user u, if it does.
NewRow(c, l, u) ==
  IF l \in listener[c].levels /\ Beneficiary(c, l) = u THEN {<<c, l>>} ELSE {}

\* One level adds its part.
LEMMA PartAdded ==
  ASSUME NEW c \in Completion, NEW l \in Level, NEW u,
         NEW S \in SUBSET (Completion \X Level), <<c, l>> \notin S
  PROVE  /\ SumFunctionOnSet(Shares, S \cup NewRow(c, l, u))
              = SumFunctionOnSet(Shares, S) + Part(c, l, u)
         /\ S \cup NewRow(c, l, u) \in SUBSET (Completion \X Level)
         /\ SumFunctionOnSet(Shares, S) \in Nat
<1>1. IsFiniteSet(S)
  BY Amounts, FS_Subset
<1>2. \A r \in S : Shares[r] \in Nat
  BY Amounts
<1>3. SumFunctionOnSet(Shares, S) \in Nat
  BY <1>1, <1>2, SumNat
<1>4. CASE l \in listener[c].levels /\ Beneficiary(c, l) = u
  <2> DEFINE e == <<c, l>>
  <2>1. NewRow(c, l, u) = {e} /\ Part(c, l, u) = Share(c, l) /\ e \in Completion \X Level
    BY <1>4 DEF NewRow, Part
  <2>2. Shares[e] = Share(c, l)
    BY DEF Shares
  <2>3. \A r \in S \cup {e} : Shares[r] \in Int
    BY <2>1, Amounts
  <2>4. e \notin S
    OBVIOUS
  <2> HIDE DEF e
  <2>5. SumFunctionOnSet(Shares, S \cup {e}) = SumFunctionOnSet(Shares, S) + Shares[e]
    BY <1>1, <2>3, <2>4, SumAdd
  <2> QED BY <1>3, <2>1, <2>2, <2>5
<1>5. CASE ~(l \in listener[c].levels /\ Beneficiary(c, l) = u)
  <2> DEFINE x == SumFunctionOnSet(Shares, S)
  <2>1. S \cup NewRow(c, l, u) = S /\ Part(c, l, u) = 0
    BY <1>5 DEF NewRow, Part
  <2>2. x \in Nat /\ SumFunctionOnSet(Shares, S \cup NewRow(c, l, u)) = x
    BY <1>3, <2>1
  <2>3. x = x + Part(c, l, u)
    <3> HIDE DEF x
    <3> QED BY <2>1, <2>2
  <2>4. S \cup NewRow(c, l, u) \in SUBSET (Completion \X Level)
    BY <2>1
  <2> QED BY <2>2, <2>3, <2>4
<1> QED BY <1>4, <1>5

\* What the transaction brings a user.
LEMMA DueType ==
  ASSUME NEW c \in Completion, NEW u, Shape
  PROVE  /\ Part(c, 1, u) \in Nat /\ Part(c, 2, u) \in Nat /\ Part(c, 3, u) \in Nat
         /\ Due(c, u) \in Nat
<1>1. ASSUME NEW l \in Level PROVE Part(c, l, u) \in Nat
  <2>1. Shares[<<c, l>>] = Share(c, l) /\ Shares[<<c, l>>] \in Nat
    BY Amounts DEF Shares
  <2> QED BY <2>1 DEF Part
<1>2. 1 \in Level /\ 2 \in Level /\ 3 \in Level
  BY DEF Level
<1>3. Part(c, 1, u) \in Nat /\ Part(c, 2, u) \in Nat /\ Part(c, 3, u) \in Nat
  BY <1>1, <1>2
<1> QED BY <1>3 DEF Due

\* distributeCommissions writes each wallet what its rows say.
LEMMA DistributePays ==
  ASSUME MInv, NEW c \in Completion, Distribute(c)
  PROVE  MoneyTyped' /\ Unpaid' /\ LeftPaid' /\ WalletsAgree'
<1>1. /\ MoneyTyped /\ Unpaid /\ LeftPaid /\ WalletsAgree /\ Shape
      /\ listener \in [Completion -> Listener] /\ listener[c].levels \in SUBSET Level
  BY DEF MInv, IInv, Shape, Listener
<1>2. /\ listener[c].pc = "lock" /\ UNCHANGED <<notified, earned>>
      /\ commissions' = commissions \cup {<<c, l>> : l \in listener[c].levels}
      /\ income' = [u \in User |-> income[u] + Due(c, u)]
      /\ listener' = [listener EXCEPT ![c].pc = "notify", ![c].left = listener[c].levels]
  BY DEF Distribute
<1>3. /\ listener'[c].pc = "notify" /\ listener'[c].left = listener[c].levels
      /\ \A d \in Completion : d # c => listener'[d] = listener[d]
  <2> DEFINE q == [listener[c] EXCEPT !.pc = "notify", !.left = listener[c].levels]
  <2>1. q.pc = "notify" /\ q.left = listener[c].levels
    BY <1>1 DEF Listener
  <2>2. listener' = [listener EXCEPT ![c] = q]
    BY <1>2
  <2> HIDE DEF q
  <2> QED BY <1>1, <2>1, <2>2
<1>4. MoneyTyped'
  <2>1. commissions' \subseteq Completion \X Level
    BY <1>1, <1>2 DEF MoneyTyped
  <2>2. \A u \in User : income[u] + Due(c, u) \in Nat
    BY <1>1, DueType DEF MoneyTyped
  <2> QED BY <1>1, <1>2, <2>1, <2>2 DEF MoneyTyped
<1>5. Unpaid'
  BY <1>1, <1>2, <1>3 DEF Unpaid
<1>6. LeftPaid'
  BY <1>1, <1>2, <1>3 DEF LeftPaid
<1>7. \A u : Paid(u)' = Paid(u)
  BY <1>2, <1>3 DEF Paid
<1>8. ASSUME NEW u \in User
      PROVE  income'[u] = SumFunctionOnSet(Payments, Paid(u)')
                          + SumFunctionOnSet(Shares, Received(u)') + 100 * Bonus(earned'[u])
  <2> DEFINE S0 == Received(u)
             S1 == S0 \cup NewRow(c, 1, u)
             S2 == S1 \cup NewRow(c, 2, u)
             S3 == S2 \cup NewRow(c, 3, u)
  <2>1. \A l \in Level : <<c, l>> \notin S0
    BY <1>1, <1>2 DEF Unpaid, Received
  <2>2. S0 \in SUBSET (Completion \X Level)
    BY <1>1, Parts
  <2>3. Received(u)' = S3
    <3>1. Received(u)' = Received(u) \cup
            {r \in {<<c, l>> : l \in listener[c].levels} : Beneficiary(r[1], r[2]) = u}
      BY <1>2 DEF Received
    <3>2. {r \in {<<c, l>> : l \in listener[c].levels} : Beneficiary(r[1], r[2]) = u}
            = {<<c, l>> : l \in {k \in listener[c].levels : Beneficiary(c, k) = u}}
      OBVIOUS
    <3>3. {<<c, l>> : l \in {k \in listener[c].levels : Beneficiary(c, k) = u}}
            = NewRow(c, 1, u) \cup NewRow(c, 2, u) \cup NewRow(c, 3, u)
      <4>1. listener[c].levels \subseteq {1, 2, 3}
        BY <1>1 DEF Level
      <4> QED BY <4>1 DEF NewRow
    <3> QED BY <3>1, <3>2, <3>3
  <2>4. 1 \in Level /\ 2 \in Level /\ 3 \in Level
    BY DEF Level
  <2>5. <<c, 1>> \notin S0 /\ <<c, 2>> \notin S1 /\ <<c, 3>> \notin S2
    BY <2>1, <2>4 DEF NewRow
  <2> DEFINE x == SumFunctionOnSet(Shares, S0)
  <2> HIDE DEF S0
  <2>6. SumFunctionOnSet(Shares, S1) = x + Part(c, 1, u) /\ S1 \in SUBSET (Completion \X Level)
        /\ x \in Nat
    <3>1. /\ SumFunctionOnSet(Shares, S0 \cup NewRow(c, 1, u))
                = SumFunctionOnSet(Shares, S0) + Part(c, 1, u)
          /\ S0 \cup NewRow(c, 1, u) \in SUBSET (Completion \X Level)
          /\ SumFunctionOnSet(Shares, S0) \in Nat
      BY <2>2, <2>4, <2>5, PartAdded
    <3> QED BY ONLY <3>1
  <2> HIDE DEF S1
  <2>7. SumFunctionOnSet(Shares, S2) = SumFunctionOnSet(Shares, S1) + Part(c, 2, u)
        /\ S2 \in SUBSET (Completion \X Level)
    BY <2>4, <2>5, <2>6, PartAdded
  <2> HIDE DEF S2
  <2>8. SumFunctionOnSet(Shares, S3) = SumFunctionOnSet(Shares, S2) + Part(c, 3, u)
    BY <2>4, <2>5, <2>7, PartAdded
  <2>9. SumFunctionOnSet(Shares, S3) = x + Due(c, u)
    <3>1. Part(c, 1, u) \in Nat /\ Part(c, 2, u) \in Nat /\ Part(c, 3, u) \in Nat
      BY <1>1, DueType
    <3>2. SumFunctionOnSet(Shares, S3) = ((x + Part(c, 1, u)) + Part(c, 2, u)) + Part(c, 3, u)
      BY <2>6, <2>7, <2>8
    <3>3. Due(c, u) = (Part(c, 1, u) + Part(c, 2, u)) + Part(c, 3, u)
      BY DEF Due
    <3> HIDE DEF x
    <3> QED BY <2>6, <3>1, <3>2, <3>3
  <2>10. income[u] = SumFunctionOnSet(Payments, Paid(u)) + x + 100 * Bonus(earned[u])
    BY <1>1 DEF WalletsAgree, S0
  <2>11. Bonus(earned[u]) \in Nat /\ SumFunctionOnSet(Payments, Paid(u)) \in Nat /\ Due(c, u) \in Nat
    BY <1>1, BonusType, Parts, DueType DEF MoneyTyped
  <2>12. income'[u] = income[u] + Due(c, u) /\ earned'[u] = earned[u]
    BY <1>2
  <2> HIDE DEF x, S3
  <2> QED BY <1>7, <2>3, <2>6, <2>9, <2>10, <2>11, <2>12
<1>9. WalletsAgree'
  BY <1>1, <1>2, <1>8 DEF WalletsAgree
<1> QED BY <1>4, <1>5, <1>6, <1>9

\* Only commissions received are announced.
LEMMA NotifyKeeps ==
  ASSUME MInv, NEW c \in Completion, NEW l \in Level, NEW ok \in BOOLEAN,
         NotifyCommission(c, l, ok)
  PROVE  MoneyTyped' /\ Unpaid' /\ LeftPaid' /\ WalletsAgree'
<1>1. /\ MoneyTyped /\ Unpaid /\ LeftPaid /\ WalletsAgree
      /\ listener \in [Completion -> Listener] /\ listener[c] \in Listener
  BY DEF MInv, IInv, Shape
<1>2. /\ listener[c].pc = "notify" /\ l \in listener[c].left
      /\ UNCHANGED <<income, commissions, earned>>
      /\ notified' \subseteq notified \cup {<<c, l>>}
  BY DEF NotifyCommission
<1>3. /\ \A d \in Completion : d # c => listener'[d] = listener[d]
      /\ \/ listener'[c].pc = "referrals"
         \/ listener'[c].pc = "notify" /\ listener'[c].left \subseteq listener[c].left
  <2> DEFINE last == [listener[c] EXCEPT !.pc = "referrals", !.left = {}]
             more == [listener[c] EXCEPT !.left = @ \ {l}]
  <2>1. /\ last.pc = "referrals"
        /\ more.pc = "notify" /\ more.left \subseteq listener[c].left
    BY <1>1, <1>2 DEF Listener
  <2>2. listener' = [listener EXCEPT ![c] = last] \/ listener' = [listener EXCEPT ![c] = more]
    BY DEF NotifyCommission
  <2> HIDE DEF last, more
  <2> QED BY <1>1, <2>1, <2>2
<1>4. Unpaid'
  BY <1>1, <1>2, <1>3 DEF Unpaid
<1>5. LeftPaid'
  BY <1>1, <1>2, <1>3 DEF LeftPaid
<1>6. notified' \subseteq commissions'
  BY <1>1, <1>2 DEF LeftPaid, WalletsAgree
<1>7. \A u : Paid(u)' = Paid(u) /\ Received(u)' = Received(u)
  BY <1>2, <1>3 DEF Paid, Received
<1> QED BY <1>1, <1>2, <1>4, <1>5, <1>6, <1>7 DEF MoneyTyped, WalletsAgree

\* A check grants badges not held yet, and pays each.
LEMMA AwardPays ==
  ASSUME MInv, NEW c \in Completion, NEW u \in User, Award(c, u)
  PROVE  MoneyTyped' /\ Unpaid' /\ LeftPaid' /\ WalletsAgree'
<1> DEFINE bs == Granted(c, u)
<1>1. /\ MoneyTyped /\ Unpaid /\ LeftPaid /\ WalletsAgree /\ Shape /\ JobsPlaced
  BY DEF MInv, IInv
<1>2. /\ earned' = [earned EXCEPT ![u] = @ \cup bs]
      /\ income' = [income EXCEPT ![u] = @ + 100 * Bonus(bs)]
      /\ UNCHANGED <<commissions, notified>>
      /\ job[c][u].pc # "none" /\ EndCheck(c, u, TRUE)
  BY DEF Award
<1>3. Onward
  BY <1>1, <1>2, CheckOnward
<1>4. Unpaid' /\ LeftPaid' /\ \A v : Paid(v)' = Paid(v)
  BY <1>1, <1>2, <1>3, OnwardKeeps
<1>5. \A v : Received(v)' = Received(v)
  BY <1>2 DEF Received
<1>6. bs \in SUBSET Badge /\ earned[u] \in SUBSET Badge /\ earned[u] \cap bs = {}
  BY <1>1 DEF Granted, MoneyTyped
<1> HIDE DEF bs
<1>7. Bonus(bs) \in Nat /\ IsFiniteSet(bs) /\ Bonus(earned[u]) \in Nat /\ IsFiniteSet(earned[u])
  BY <1>6, BonusType
<1>8. Bonus(earned[u] \cup bs) = Bonus(earned[u]) + Bonus(bs)
  <2> DEFINE f == [b \in Badge |-> b.reward]
  <2>1. \A b \in earned[u] \cup bs : f[b] \in Int
    BY <1>6, Amounts
  <2> HIDE DEF f
  <2>2. SumFunctionOnSet(f, earned[u] \cup bs)
          = SumFunctionOnSet(f, earned[u]) + SumFunctionOnSet(f, bs)
    BY <1>6, <1>7, <2>1, SumUnion
  <2> QED BY <2>2 DEF Bonus, f
<1>9. MoneyTyped'
  BY <1>1, <1>2, <1>6, <1>7 DEF MoneyTyped
<1>10. ASSUME NEW v \in User
       PROVE  income'[v] = SumFunctionOnSet(Payments, Paid(v)')
                           + SumFunctionOnSet(Shares, Received(v)') + 100 * Bonus(earned'[v])
  <2>1. income[v] = SumFunctionOnSet(Payments, Paid(v))
                    + SumFunctionOnSet(Shares, Received(v)) + 100 * Bonus(earned[v])
    BY <1>1 DEF WalletsAgree
  <2>2. /\ SumFunctionOnSet(Payments, Paid(v)) \in Nat
        /\ SumFunctionOnSet(Shares, Received(v)) \in Nat
    BY <1>1, Parts
  <2>3. CASE v = u
    <3>1. income'[v] = income[v] + 100 * Bonus(bs) /\ earned'[v] = earned[v] \cup bs
      BY <1>1, <1>2, <2>3 DEF MoneyTyped
    <3> QED BY <1>4, <1>5, <1>7, <1>8, <2>1, <2>2, <2>3, <3>1
  <2>4. CASE v # u
    <3>1. income'[v] = income[v] /\ earned'[v] = earned[v]
      BY <1>1, <1>2, <2>4 DEF MoneyTyped
    <3> QED BY <1>4, <1>5, <2>1, <3>1
  <2> QED BY <2>3, <2>4
<1>11. WalletsAgree'
  BY <1>1, <1>2, <1>10 DEF WalletsAgree
<1> QED BY <1>4, <1>9, <1>11

\* Every step keeps wallets and rows together.
LEMMA MoneyStep ==
  ASSUME MInv, [Next]_vars
  PROVE  MoneyTyped' /\ Unpaid' /\ LeftPaid' /\ WalletsAgree'
<1>1. MoneyTyped /\ Unpaid /\ LeftPaid /\ WalletsAgree /\ Shape /\ JobsPlaced
  BY DEF MInv, IInv
<1>2. CASE Calm
  BY <1>1, <1>2, CalmKeeps
<1>3. CASE \E c \in Completion : Complete(c)
  BY <1>3, CompletePays
<1>4. CASE \E c \in Completion : ReadChain(c) /\ Eligible(c) # {}
  BY <1>4, ReadKeeps
<1>5. CASE \E c \in Completion : Distribute(c)
  BY <1>5, DistributePays
<1>6. CASE \E c \in Completion, l \in Level, ok \in BOOLEAN : NotifyCommission(c, l, ok)
  BY <1>6, NotifyKeeps
<1>7. CASE \E c \in Completion, u \in User : Award(c, u)
  BY <1>7, AwardPays
<1> QED BY <1>1, <1>2, <1>3, <1>4, <1>5, <1>6, <1>7, StepsCalm DEF Next, Step

-----------------------------------------------------------------------------
(***************************************************************************)
(* The rest of the types: rows written from other rows, counters, jobs.    *)
(***************************************************************************)
\* The row recordActivity is about to write is ordered, like those written.
StreaksOrdered ==
  /\ \A u \in User : streak[u].current <= streak[u].longest
  /\ \A c \in Completion : listener[c].pc = "write" =>
       listener[c].next.current <= listener[c].next.longest

\* What steps change by little, or not at all.
Bounded ==
  /\ rank \in [User -> Rank]
  /\ active \in [User -> SUBSET (1..MaxDay)]
  /\ day \in 1..MaxDay
  /\ faults \in 0..MaxFaults

JobsTyped == job \in [Completion -> [User -> Job]]
BonusTyped == bonus \in [User -> Nat]

TInv == MInv /\ StreaksOrdered /\ Bounded /\ JobsTyped /\ BonusTyped

\* A listener enters "write" in ReadStreak only, and leaves it in WriteStreak with
\* its row.
LEMMA WritesApart ==
  ASSUME IInv, [Next]_vars
  PROVE  \/ /\ UNCHANGED streak
            /\ \A d \in Completion : listener'[d].pc = "write" => listener'[d] = listener[d]
         \/ \E c \in Completion : ReadStreak(c) \/ WriteStreak(c)
<1> USE DEF days
<1>0. listener \in [Completion -> Listener]
  BY DEF IInv, Shape
<1>1. CASE Aside
  BY <1>1 DEF Aside
<1>2. ASSUME NEW c \in Completion,
             ReadChain(c) \/ Distribute(c) \/ RollBack(c) \/ (\E u \in User : LockWallet(c, u))
      PROVE  /\ UNCHANGED streak
             /\ \A d \in Completion : listener'[d].pc = "write" => listener'[d] = listener[d]
  <2>1. /\ UNCHANGED streak
        /\ \/ listener' = listener
           \/ listener' = [listener EXCEPT ![c].pc = "tasks"]
           \/ listener' = [listener EXCEPT ![c].pc = "lock", ![c].levels = Eligible(c)]
           \/ listener' = [listener EXCEPT ![c].pc = "notify", ![c].left = listener[c].levels]
    BY <1>2 DEF ReadChain, Distribute, RollBack, LockWallet, CheckTasks, Move
  <2>2. listener[c] \in Listener
    BY <1>0
  <2> QED BY <1>0, <2>1, <2>2 DEF Listener
<1>3. CASE Crash
  <2>1. UNCHANGED streak
    BY <1>3 DEF Crash
  <2>2. ASSUME NEW d \in Completion, listener'[d].pc = "write"
        PROVE  listener'[d] = listener[d]
    <3>1. listener[d] \in Listener
      BY <1>0
    <3>2. \/ listener'[d] = listener[d]
          \/ listener'[d] = [listener[d] EXCEPT !.pc = "lost", !.left = {}]
      BY <1>3 DEF Crash
    <3> QED BY <2>2, <3>1, <3>2 DEF Listener
  <2> QED BY <2>1, <2>2
<1> QED BY <1>1, <1>2, <1>3, StepsAside DEF Next, Step

\* An activity never leaves the longest streak behind.
LEMMA NextOrdered ==
  ASSUME NEW s \in StreakRow
  PROVE  NextStreak(s).current <= NextStreak(s).longest
<1>1. \A m, n \in Nat : n <= Larger(m, n)
  BY DEF Larger
<1>2. /\ NextStreak(s).current = IF s.last = day - 1 THEN s.current + 1 ELSE 1
      /\ NextStreak(s).longest = Larger(s.longest, NextStreak(s).current)
  BY DEF NextStreak
<1>3. s.longest \in Nat /\ s.current + 1 \in Nat
  BY DEF StreakRow
<1> QED BY <1>1, <1>2, <1>3

\* Streaks stay ordered.
LEMMA OrderKept ==
  ASSUME IInv, StreaksOrdered, [Next]_vars
  PROVE  StreaksOrdered'
<1>0. /\ listener \in [Completion -> Listener] /\ streak \in [User -> StreakRow]
      /\ \A c \in Completion : Earner[c] \in User
  BY RewardsAssumption DEF IInv, Shape
<1>1. CASE /\ UNCHANGED streak
           /\ \A d \in Completion : listener'[d].pc = "write" => listener'[d] = listener[d]
  BY <1>1 DEF StreaksOrdered
<1>2. ASSUME NEW c \in Completion, ReadStreak(c)
      PROVE  StreaksOrdered'
  <2> DEFINE u == Earner[c]
  <2>1. CASE streak[u].last \in {NoDay, day}
    <3>1. /\ listener' = [listener EXCEPT ![c].pc = "earnings"]
          /\ streak' = [streak EXCEPT ![u] = IF @.last = NoDay THEN NextStreak(NoStreak) ELSE @]
      BY <1>2, <2>1 DEF ReadStreak, CheckEarnings, Move
    <3>2. NextStreak(NoStreak).current <= NextStreak(NoStreak).longest
      BY NoStreakType, NextOrdered
    <3>3. \A w \in User : streak'[w] = streak[w] \/ streak'[w] = NextStreak(NoStreak)
      <4>1. streak' = [streak EXCEPT ![u] =
              IF streak[u].last = NoDay THEN NextStreak(NoStreak) ELSE streak[u]]
        BY <3>1
      <4> QED BY <1>0, <4>1, OneRow
    <3>4. \A d \in Completion : listener'[d].pc = "write" =>
            listener[d].pc = "write" /\ listener'[d].next = listener[d].next
      <4>1. listener[c] \in Listener
        BY <1>0
      <4> QED BY <1>0, <3>1, <4>1 DEF Listener
    <3> QED BY <3>2, <3>3, <3>4 DEF StreaksOrdered
  <2>2. CASE streak[u].last \notin {NoDay, day}
    <3>1. /\ listener' = [listener EXCEPT ![c].pc = "write", ![c].next = NextStreak(streak[u])]
          /\ UNCHANGED streak
      BY <1>2, <2>2 DEF ReadStreak
    <3>2. \A d \in Completion : listener'[d].pc = "write" =>
            \/ listener'[d].next = NextStreak(streak[u])
            \/ listener[d].pc = "write" /\ listener'[d].next = listener[d].next
      <4>1. listener[c] \in Listener
        BY <1>0
      <4> QED BY <1>0, <3>1, <4>1 DEF Listener
    <3>3. NextStreak(streak[u]).current <= NextStreak(streak[u]).longest
      BY <1>0, NextOrdered
    <3> QED BY <3>1, <3>2, <3>3 DEF StreaksOrdered
  <2> QED BY <2>1, <2>2
<1>3. ASSUME NEW c \in Completion, WriteStreak(c)
      PROVE  StreaksOrdered'
  <2>1. /\ listener[c].pc = "write"
        /\ streak' = [streak EXCEPT ![Earner[c]] = listener[c].next]
        /\ listener' = [listener EXCEPT ![c].pc = "streak"]
    BY <1>3 DEF WriteStreak, Move
  <2>2. \A w \in User : streak'[w] = streak[w] \/ streak'[w] = listener[c].next
    BY <1>0, <2>1, OneRow
  <2>3. \A d \in Completion : listener'[d].pc = "write" => listener'[d] = listener[d]
    <3>1. listener[c] \in Listener
      BY <1>0
    <3> QED BY <1>0, <2>1, <3>1 DEF Listener
  <2> QED BY <2>1, <2>2, <2>3 DEF StreaksOrdered
<1> QED BY <1>1, <1>2, <1>3, WritesApart

\* Ranks, days and faults stay within bounds.
LEMMA BoundsKept ==
  ASSUME Bounded, [Next]_vars
  PROVE  Bounded'
<1> USE RewardsAssumption DEF Bounded, rows, days, world
<1>1. MaxDay \in Int /\ MaxFaults \in Int /\ day \in Int /\ faults \in Int
      /\ 1 <= day /\ day <= MaxDay
  OBVIOUS
<1>2. CASE UNCHANGED <<rank, active, day>> /\ faults' \in {faults, faults + 1}
           /\ (faults' = faults + 1 => faults < MaxFaults)
  BY <1>1, <1>2
<1>3. ASSUME NEW c \in Completion, ReadStreak(c)
      PROVE  Bounded'
  <2>1. active' = [active EXCEPT ![Earner[c]] = @ \cup {day}] /\ UNCHANGED <<rank, day, faults>>
    BY <1>3 DEF ReadStreak
  <2>2. Earner[c] \in User /\ active[Earner[c]] \cup {day} \in SUBSET (1..MaxDay)
    OBVIOUS
  <2> QED BY <2>1, <2>2
<1>4. ASSUME NEW u \in User, ChangeRank(u)
      PROVE  Bounded'
  BY <1>4 DEF ChangeRank
<1>5. CASE Midnight
  <2>1. day' = day + 1 /\ day < MaxDay /\ UNCHANGED <<rank, active, faults>>
    BY <1>5 DEF Midnight
  <2>2. day' \in 1..MaxDay
    BY <1>1, <2>1
  <2> QED BY <2>1, <2>2
<1>6. ASSUME NEW c \in Completion,
             \/ Complete(c) \/ ReadChain(c) \/ Distribute(c) \/ WriteStreak(c)
             \/ \E u \in User : LockWallet(c, u) \/ Count(c, u) \/ SumToday(c, u) \/ Award(c, u)
      PROVE  UNCHANGED <<rank, active, day, faults>>
  BY <1>6 DEF Complete, ReadChain, Distribute, WriteStreak, LockWallet, Count, SumToday, Award
<1>7. ASSUME NEW c \in Completion,
             \/ RollBack(c) \/ ActivityFails(c)
             \/ \E u \in User : CheckFails(c, u)
      PROVE  UNCHANGED <<rank, active, day>> /\ faults' = faults + 1 /\ faults < MaxFaults
  BY <1>7 DEF RollBack, ActivityFails, CheckFails
<1>8. ASSUME NEW c \in Completion, NEW l \in Level, NEW ok \in BOOLEAN, NotifyCommission(c, l, ok)
      PROVE  UNCHANGED <<rank, active, day>> /\ faults' \in {faults, faults + 1}
             /\ (faults' = faults + 1 => faults < MaxFaults)
  <2>1. UNCHANGED <<rank, active, day>> /\ (ok \/ faults < MaxFaults)
        /\ faults' = IF ok THEN faults ELSE faults + 1
    BY <1>8 DEF NotifyCommission
  <2> QED BY <1>1, <2>1
<1>9. CASE Crash
  <2>1. UNCHANGED <<rank, active, day>> /\ faults' = faults + 1 /\ faults < MaxFaults
    BY <1>9 DEF Crash
  <2> QED BY <1>2, <2>1
<1>10. CASE UNCHANGED vars
  BY <1>1, <1>10 DEF vars
<1> QED BY <1>1, <1>2, <1>3, <1>4, <1>5, <1>6, <1>7, <1>8, <1>9, <1>10 DEF Next, Step

\* Badge rewards since midnight are amounts.
LEMMA BonusKept ==
  ASSUME BonusTyped, [Next]_vars
  PROVE  BonusTyped'
<1> USE DEF BonusTyped, rows
<1>1. ASSUME NEW c \in Completion, NEW u \in User, Award(c, u)
      PROVE  BonusTyped'
  <2>1. bonus' = [bonus EXCEPT ![u] = @ + Bonus(Granted(c, u))]
    BY <1>1 DEF Award
  <2> DEFINE n == Bonus(Granted(c, u))
  <2>2. Granted(c, u) \in SUBSET Badge
    BY DEF Granted
  <2>3. n \in Nat /\ bonus[u] \in Nat
    BY <2>2, BonusType
  <2>4. bonus' = [bonus EXCEPT ![u] = @ + n]
    BY <2>1
  <2> HIDE DEF n
  <2> QED BY <2>3, <2>4
<1>2. CASE Midnight
  BY <1>2 DEF Midnight
<1>3. CASE UNCHANGED bonus
  BY <1>3
<1>4. ASSUME NEW c \in Completion,
             \/ Complete(c) \/ ReadChain(c) \/ Distribute(c) \/ RollBack(c)
             \/ ReadStreak(c) \/ WriteStreak(c) \/ ActivityFails(c)
      PROVE  UNCHANGED bonus
  BY <1>4 DEF Complete, ReadChain, Distribute, RollBack, ReadStreak, WriteStreak, ActivityFails
<1>5. ASSUME NEW c \in Completion, NEW u \in User,
             LockWallet(c, u) \/ Count(c, u) \/ SumToday(c, u) \/ CheckFails(c, u)
      PROVE  UNCHANGED bonus
  BY <1>5 DEF LockWallet, Count, SumToday, CheckFails
<1>6. ASSUME NEW c \in Completion, NEW l \in Level, NEW ok \in BOOLEAN, NotifyCommission(c, l, ok)
      PROVE  UNCHANGED bonus
  BY <1>6 DEF NotifyCommission
<1>7. ASSUME (\E u \in User : ChangeRank(u)) \/ Crash \/ UNCHANGED vars
      PROVE  UNCHANGED bonus
  BY <1>7 DEF ChangeRank, Crash, vars
<1> QED BY <1>1, <1>2, <1>3, <1>4, <1>5, <1>6, <1>7 DEF Next, Step

\* One badge check changes.
LEMMA OneJob ==
  ASSUME JobsTyped, NEW c \in Completion, NEW u \in User, NEW j \in Job
  PROVE  [job EXCEPT ![c][u] = j] \in [Completion -> [User -> Job]]
<1>1. job[c] \in [User -> Job]
  BY DEF JobsTyped
<1>2. [job[c] EXCEPT ![u] = j] \in [User -> Job]
  BY <1>1
<1> QED BY <1>2 DEF JobsTyped

\* The checks of one listener change.
LEMMA OneListener ==
  ASSUME JobsTyped, NEW c \in Completion, NEW js \in [User -> Job]
  PROVE  [job EXCEPT ![c] = js] \in [Completion -> [User -> Job]]
BY DEF JobsTyped

\* Checks as they begin.
LEMMA NewJobs ==
  /\ NoJob \in Job /\ [NoJob EXCEPT !.pc = "count"] \in Job
  /\ [NoJob EXCEPT !.pc = "count", !.category = "REFERRALS"] \in Job
  /\ \A pc \in {"count", "sum"}, category \in Category, value \in Nat :
       [pc |-> pc, category |-> category, value |-> value, total |-> 0] \in Job
BY DEF NoJob, Job, Category

\* A check starts.
LEMMA Started ==
  ASSUME JobsTyped, NEW c \in Completion, NEW pc \in {"count", "sum"},
         NEW category \in Category, NEW value \in Nat,
         StartJob(c, Earner[c], pc, category, value)
  PROVE  JobsTyped'
<1>1. Earner[c] \in User
  BY RewardsAssumption
<1> QED BY <1>1, NewJobs, OneJob DEF StartJob, JobsTyped

\* A check ends, and others may start.
LEMMA Ended ==
  ASSUME JobsTyped, NEW c \in Completion, NEW u \in User, NEW ok, EndCheck(c, u, ok)
  PROVE  JobsTyped'
<1>1. Earner[c] \in User
  BY RewardsAssumption
<1>2. \/ job' = [job EXCEPT ![c][Earner[c]] = NoJob]
      \/ job' = [job EXCEPT ![c][u] = NoJob]
      \/ StartJob(c, Earner[c], "count", "EARNINGS", 0)
      \/ job' = [job EXCEPT ![c] = [v \in User |->
                   IF v = Earner[c] THEN [NoJob EXCEPT !.pc = "count"] ELSE NoJob]]
  BY DEF EndCheck, EndReferralCheck, EndOwnCheck, CheckEarnings
<1>3. [v \in User |-> IF v = Earner[c] THEN [NoJob EXCEPT !.pc = "count"] ELSE NoJob]
        \in [User -> Job]
  BY NewJobs
<1>4. "EARNINGS" \in Category
  BY DEF Category
<1>5. CASE job' = [job EXCEPT ![c][Earner[c]] = NoJob]
  BY <1>1, <1>5, NewJobs, OneJob DEF JobsTyped
<1>6. CASE job' = [job EXCEPT ![c][u] = NoJob]
  BY <1>6, NewJobs, OneJob DEF JobsTyped
<1>7. CASE StartJob(c, Earner[c], "count", "EARNINGS", 0)
  BY <1>4, <1>7, Started
<1>8. CASE job' = [job EXCEPT ![c] = [v \in User |->
                     IF v = Earner[c] THEN [NoJob EXCEPT !.pc = "count"] ELSE NoJob]]
  BY <1>3, <1>8, OneListener DEF JobsTyped
<1> QED BY <1>2, <1>5, <1>6, <1>7, <1>8

\* What a check counts is a number.
LEMMA ValueType ==
  ASSUME MoneyTyped, NEW c \in Completion, NEW u \in User
  PROVE  Value(c, u) \in Nat
<1>1. \A S : S \subseteq Completion \/ S \subseteq User => Cardinality(S) \in Nat
  BY FS_Subset, FS_CardinalityType, RewardsAssumption
<1>2. income[u] \div 100 \in Nat
  BY DEF MoneyTyped
<1>3. CASE job[c][u].category = "TASKS"
  <2>1. Value(c, u) = Cardinality({d \in Completion : Earner[d] = u /\ listener[d].pc # "idle"})
    BY <1>3 DEF Value
  <2> QED BY <1>1, <2>1
<1>4. CASE job[c][u].category = "REFERRALS"
  <2>1. Value(c, u) = Cardinality({v \in User : Referrer[v] = u})
    BY <1>4 DEF Value
  <2> QED BY <1>1, <2>1
<1>5. CASE job[c][u].category \notin {"TASKS", "REFERRALS"}
  <2>1. Value(c, u) = income[u] \div 100
    BY <1>5 DEF Value
  <2> QED BY <1>2, <2>1
<1> QED BY <1>3, <1>4, <1>5

\* Jobs stay jobs.
LEMMA JobsKept ==
  ASSUME MInv, JobsTyped, BonusTyped, [Next]_vars
  PROVE  JobsTyped'
<1> USE DEF days, rows
<1>0. MoneyTyped /\ listener \in [Completion -> Listener] /\ streak \in [User -> StreakRow]
  BY DEF MInv, IInv, Shape
<1>1. CASE UNCHANGED job
  BY <1>1 DEF JobsTyped
<1>2. ASSUME NEW c \in Completion,
             CheckTasks(c) \/ CheckEarnings(c)
      PROVE  JobsTyped'
  BY <1>2, Started DEF CheckTasks, CheckEarnings, Category
<1>3. ASSUME NEW c \in Completion, WriteStreak(c)
      PROVE  JobsTyped'
  <2>1. StartJob(c, Earner[c], "sum", "STREAK", listener[c].next.current)
    BY <1>3 DEF WriteStreak
  <2>2. listener[c].next.current \in Nat
    BY <1>0 DEF Listener, StreakRow
  <2> QED BY <2>1, <2>2, Started DEF Category
<1>4. ASSUME NEW c \in Completion, NEW u \in User, NEW ok \in BOOLEAN, EndCheck(c, u, ok)
      PROVE  JobsTyped'
  BY <1>4, Ended
<1>5. ASSUME NEW c \in Completion, NEW u \in User,
             NEW j \in Job, job' = [job EXCEPT ![c][u] = j]
      PROVE  JobsTyped'
  BY <1>5, OneJob DEF JobsTyped
<1>6. ASSUME NEW c \in Completion, NEW u \in User, Count(c, u)
      PROVE  JobsTyped'
  <2> DEFINE j == [job[c][u] EXCEPT !.pc = "sum", !.value = Value(c, u)]
  <2>1. job[c][u] \in Job
    BY DEF JobsTyped
  <2>2. j \in Job
    BY <1>0, <2>1, ValueType DEF Job
  <2>3. job' = [job EXCEPT ![c][u] = j]
    BY <1>6 DEF Count
  <2> QED BY <1>5, <2>2, <2>3
<1>7. ASSUME NEW c \in Completion, NEW u \in User, SumToday(c, u)
      PROVE  JobsTyped'
  <2> DEFINE j == [job[c][u] EXCEPT !.pc = "award", !.total = bonus[u]]
  <2>1. job[c][u] \in Job /\ bonus[u] \in Nat
    BY DEF JobsTyped, BonusTyped
  <2>2. j \in Job
    BY <2>1 DEF Job
  <2>3. EndCheck(c, u, TRUE) \/ job' = [job EXCEPT ![c][u] = j]
    BY <1>7 DEF SumToday
  <2> QED BY <1>4, <1>5, <2>2, <2>3
<1>8. ASSUME NEW c \in Completion, NEW l \in Level, NEW ok \in BOOLEAN, NotifyCommission(c, l, ok)
      PROVE  JobsTyped'
  <2> DEFINE js == [u \in User |->
               IF u \in Ancestors(c)
               THEN [NoJob EXCEPT !.pc = "count", !.category = "REFERRALS"]
               ELSE NoJob]
  <2>1. js \in [User -> Job]
    BY NewJobs
  <2>2. UNCHANGED job \/ job' = [job EXCEPT ![c] = js]
    BY <1>8 DEF NotifyCommission
  <2> HIDE DEF js
  <2> QED BY <1>1, <2>1, <2>2, OneListener DEF JobsTyped
<1>9. CASE Crash
  <2>1. job' = [c \in Completion |-> [u \in User |-> NoJob]]
    BY <1>9 DEF Crash
  <2> QED BY <2>1, NewJobs DEF JobsTyped
<1>10. ASSUME NEW c \in Completion,
              \/ Complete(c) \/ ReadChain(c) \/ Distribute(c) \/ RollBack(c)
              \/ ReadStreak(c) \/ ActivityFails(c)
       PROVE  UNCHANGED job \/ CheckTasks(c) \/ CheckEarnings(c)
  BY <1>10 DEF Complete, ReadChain, Distribute, RollBack, ReadStreak, ActivityFails
<1>11. ASSUME NEW c \in Completion, NEW u \in User, LockWallet(c, u)
       PROVE  UNCHANGED job
  BY <1>11 DEF LockWallet
<1>12. ASSUME NEW c \in Completion, NEW u \in User, Award(c, u) \/ CheckFails(c, u)
       PROVE  \E ok \in BOOLEAN : EndCheck(c, u, ok)
  BY <1>12 DEF Award, CheckFails
<1>13. ASSUME (\E u \in User : ChangeRank(u)) \/ Midnight \/ UNCHANGED vars
       PROVE  UNCHANGED job
  BY <1>13 DEF ChangeRank, Midnight, vars
<1> QED BY <1>1, <1>2, <1>3, <1>4, <1>6, <1>7, <1>8, <1>9, <1>10, <1>11, <1>12, <1>13
  DEF Next, Step

-----------------------------------------------------------------------------
\* The theorems.

\* The invariant holds at the start,
LEMMA Initially == Init => IInv
<1> SUFFICES ASSUME Init PROVE IInv
  OBVIOUS
<1> USE RewardsAssumption DEF Init
<1>1. Shape
  <2>1. Waiting \in Listener
    BY NoStreakType DEF Waiting, Listener
  <2> QED BY <2>1, NoStreakType DEF Shape
<1>2. JobsPlaced
  BY DEF JobsPlaced, NoJob
<1>3. LevelsTaken /\ NextEarned
  BY DEF LevelsTaken, NextEarned, Waiting
<1>4. LockOrder
  BY DEF LockOrder
<1>5. StreakEarned
  BY DEF StreakEarned, NoStreak, NoDay
<1> QED BY <1>1, <1>2, <1>3, <1>4, <1>5 DEF IInv

\* is kept by every step,
LEMMA Inductive == IInv /\ [Next]_vars => IInv'
BY Shaped, Ordered, Streaks DEF IInv

\* and so holds throughout.
LEMMA Invariance == Spec => []IInv
BY Initially, Inductive, PTL DEF Spec

\* Transactions that pay commissions to related users lock their wallets in one
\* order: however many run at once, they never wait on each other in a circle.
THEOREM NoDeadlock == Spec => []NoWaitCycle
<1>1. IInv => NoWaitCycle
  BY NoCircle DEF IInv
<1> QED BY <1>1, Invariance, PTL

\* A streak stands for as many consecutive days with a completion, although it is
\* written from a value that another completion or midnight may have outdated.
THEOREM StreaksEarned == Spec => []StreakEarned
<1>1. IInv => StreakEarned
  BY DEF IInv
<1> QED BY <1>1, Invariance, PTL

\* The wallets agree at the start,
LEMMA InitMoney == Init => MInv
<1> SUFFICES ASSUME Init PROVE MInv
  OBVIOUS
<1>1. IInv
  BY Initially
<1>2. MoneyTyped /\ Unpaid /\ LeftPaid
  BY DEF Init, MoneyTyped, Unpaid, LeftPaid, Waiting
<1>3. \A u \in User : Paid(u) = {} /\ Received(u) = {} /\ earned[u] = {} /\ income[u] = 0
  BY DEF Init, Paid, Received, Waiting
<1>4. WalletsAgree
  <2>1. \A u \in User : /\ SumFunctionOnSet(Payments, Paid(u)) = 0
                        /\ SumFunctionOnSet(Shares, Received(u)) = 0
                        /\ Bonus(earned[u]) = 0
    BY <1>3, SumEmpty DEF Bonus
  <2>2. notified \subseteq commissions
    BY DEF Init
  <2> QED BY <1>3, <2>1, <2>2 DEF WalletsAgree
<1> QED BY <1>1, <1>2, <1>4 DEF MInv

\* and after every step.
LEMMA MoneyInvariance == Spec => []MInv
<1>1. MInv /\ [Next]_vars => MInv'
  BY Inductive, MoneyStep DEF MInv
<1> QED BY <1>1, InitMoney, PTL DEF Spec

\* Through rollbacks, crashes and listeners interleaved at will, totalEarned is
\* what completions, Commission and UserBadge rows add up to, and a commission
\* announced has been received.
THEOREM WalletsBalance == Spec => []WalletsAgree
<1>1. MInv => WalletsAgree
  BY DEF MInv
<1> QED BY <1>1, MoneyInvariance, PTL

\* The types hold at the start.
LEMMA InitTypes == Init => TInv
<1> SUFFICES ASSUME Init PROVE TInv
  OBVIOUS
<1>1. MInv
  BY InitMoney
<1>2. StreaksOrdered
  BY DEF Init, StreaksOrdered, NoStreak, Waiting
<1>3. Bounded
  <2>1. 1 \in 1..MaxDay /\ 0 \in 0..MaxFaults
    BY RewardsAssumption
  <2> QED BY <2>1, RewardsAssumption DEF Init, Bounded
<1>4. JobsTyped /\ BonusTyped
  BY NewJobs DEF Init, JobsTyped, BonusTyped
<1> QED BY <1>1, <1>2, <1>3, <1>4 DEF TInv

\* Rows keep to their columns, and the longest streak is never behind the current
\* one, although the row written is computed from one read before.
THEOREM TypesHold == Spec => []TypeOK
<1>1. TInv /\ [Next]_vars => TInv'
  <2> SUFFICES ASSUME TInv, [Next]_vars PROVE TInv'
    OBVIOUS
  <2>1. MInv /\ IInv /\ StreaksOrdered /\ Bounded /\ JobsTyped /\ BonusTyped
    BY DEF TInv, MInv
  <2>2. MInv'
    BY <2>1, Inductive, MoneyStep DEF MInv
  <2> QED BY <2>1, <2>2, OrderKept, BoundsKept, JobsKept, BonusKept DEF TInv
<1>2. TInv => TypeOK
  <2> SUFFICES ASSUME TInv PROVE TypeOK
    OBVIOUS
  <2>1. notified \subseteq commissions
    BY DEF TInv, MInv, WalletsAgree
  <2> QED BY <2>1
    DEF TInv, MInv, IInv, Shape, MoneyTyped, StreaksOrdered, Bounded, JobsTyped, BonusTyped, TypeOK
<1> QED BY <1>1, <1>2, InitTypes, PTL DEF Spec
=============================================================================
