-------------------------------- MODULE Pages --------------------------------
(***************************************************************************)
(* The pages of a signed-in user (apps/web/src/app/dashboard, app/go) and  *)
(* of the way in (login, register, ...), as tables for module Screens: how *)
(* a page loads, what may be pressed where, what each handler does.        *)
(*                                                                         *)
(* A handler sets `flag` (to `tag` and the row's id) before its await and  *)
(* lowers it in its finally; `opens` and `won` are the parts of the page   *)
(* it sets before the await and on success; `ends` is what it does last on *)
(* success, one of                                                         *)
(*   "reload"  await the page's load      "kick"    start it, not awaited  *)
(*   "patch"   set the row to `patch`     "append"  add rows to the list   *)
(*   "rest"    nothing                                                     *)
(*   "leave"   go to another page (`anyway`: on failure too);              *)
(* `keeps` are the ends after which `won` is not set.                      *)
(***************************************************************************)
EXTENDS TLC

None == "none"
Same == "same"

Handler == [key |-> None, flag |-> None, tag |-> "", ends |-> {"reload"},
            anyway |-> FALSE, opens |-> Same, won |-> Same, keeps |-> {}, patch |-> Same]

\* Where the page offers a handler: in the stages `where`, on a "row" that
\* shows a status of `on`, on the item "picked" before, or on the "page";
\* `alone`: not while its flag is up for any row; `outside`: even while the
\* page is replaced by its skeleton.
Button == [where |-> {"list"}, target |-> "row", on |-> {"listed"},
           alone |-> FALSE, outside |-> FALSE]
Form == [Button EXCEPT !.target = "page", !.on = {}, !.alone = TRUE]

\* A step within the page, which may pick a row showing a status of `on`, load
\* the rows, and be disabled by a flag.
Move(from, to) ==
  [from |-> from, to |-> to, on |-> {}, flag |-> None, loads |-> FALSE, outside |-> FALSE]

\* `spins`: the load replaces the page "always", at the mount only ("once"),
\* or when there is nothing to show ("blank"); `failure`: a load that fails
\* keeps what is shown, empties it, or signs the user out ("leave");
\* `browse`: filters and paging work "never", "anytime", or when "loaded";
\* `pushed`: the status of a row that the API may push, if it pushes any.
Page == [loads |-> TRUE, spins |-> "once", failure |-> "keep", browse |-> "never",
         refresher |-> "never", refreshing |-> None, statuses |-> {},
         pushed |-> None, first |-> {"list"}, moves |-> {}, ops |-> {}]

-----------------------------------------------------------------------------
\* dashboard/wallet/page.tsx. The user's status decides between "free" and
\* "activated"; "form" is the withdrawal form. The rows are the transactions.

\* A payment to finish elsewhere leaves the page, and the status, as they are;
\* refreshUser signs out when it fails.
WalletActivate ==
  [Handler EXCEPT !.key = "activate", !.flag = "activating", !.won = "activated",
                  !.ends = {"rest", "reload", "leave"}, !.keeps = {"rest"}]
WalletActivateButton == [Form EXCEPT !.where = {"free"}]

WalletUpgrade ==
  [Handler EXCEPT !.key = "upgrade", !.flag = "upgrading", !.ends = {"rest", "reload", "leave"}]
WalletUpgradeButton == [Form EXCEPT !.where = {"activated", "form"}]

WalletWithdraw ==
  [Handler EXCEPT !.key = "withdraw", !.flag = "withdrawing", !.won = "activated"]
WalletWithdrawForm == [Form EXCEPT !.where = {"form"}]

\* The page after the one shown when it is pressed: its rows are added to
\* whatever the list holds when they arrive.
WalletMore == [Handler EXCEPT !.key = "more", !.flag = "loadingMore", !.ends = {"append"}]
WalletMoreButton == [Form EXCEPT !.where = {"free", "activated", "form"}, !.on = {"listed"}]

WalletMoves == {Move({"activated"}, "form"), Move({"form"}, "activated")}

WalletPage ==
  [Page EXCEPT !.statuses = {"listed"}, !.first = {"free", "activated"}, !.moves = WalletMoves,
     !.ops = {WalletActivate @@ WalletActivateButton, WalletUpgrade @@ WalletUpgradeButton,
              WalletWithdraw @@ WalletWithdrawForm, WalletMore @@ WalletMoreButton}]

\* dashboard/wallet/withdrawals/page.tsx
WithdrawalsPage == [Page EXCEPT !.refresher = "guarded", !.refreshing = "refreshing"]

\* dashboard/page.tsx
DashboardActivate ==
  [Handler EXCEPT !.key = "activate", !.flag = "activating", !.won = "activated",
                  !.ends = {"leave", "reload"}]
DashboardActivateButton == [Form EXCEPT !.where = {"free"}]
DashboardPage ==
  [Page EXCEPT !.first = {"free", "activated"},
               !.ops = {DashboardActivate @@ DashboardActivateButton}]

-----------------------------------------------------------------------------
\* dashboard/tasks/page.tsx. A row shows a task that is "open", "coded" (a
\* code found on its landing page), "slugless" (a code, no landing page) or
\* "done". The session started goes from "wait" to "ready" when its link, if it
\* has one, was opened ("opened") and its time is over ("timed"), then to "code".

Startable == {"open", "coded", "slugless"}

TaskStart ==
  [Handler EXCEPT !.key = "start", !.flag = "starting", !.won = "wait", !.ends = {"rest"}]
TaskStartCoded == [TaskStart EXCEPT !.won = Same, !.ends = {"leave"}]
TaskStartButton(on) == [Button EXCEPT !.on = on, !.alone = TRUE]

TaskComplete ==
  [Handler EXCEPT !.key = "complete", !.flag = "completing", !.won = "list",
                  !.ends = {"patch"}, !.patch = "done"]
TaskCompleteButton ==
  [Button EXCEPT !.where = {"ready"}, !.target = "picked", !.on = {"open"}, !.alone = TRUE]
TaskCompleteWithCode == [TaskComplete EXCEPT !.key = "code"]
TaskCodeForm == [TaskCompleteButton EXCEPT !.where = {"code"}, !.on = {"slugless"}]

TaskOpenLink == Move({"wait"}, "opened")
TaskCountdown == {Move({"wait"}, "timed"), Move({"opened"}, "ready")}
\* The link is opened now, or there is none.
TaskCanComplete == Move({"timed"}, "ready")
TaskAsksCode == [Move({"ready"}, "code") EXCEPT !.on = {"slugless"}]
TaskCodeCancel == [Move({"code"}, "ready") EXCEPT !.flag = "completing"]
TaskCancel == Move({"wait", "opened", "timed", "ready"}, "list")

TasksPage ==
  [Page EXCEPT !.statuses = Startable \cup {"done"},
     !.moves = TaskCountdown
       \cup {TaskOpenLink, TaskCanComplete, TaskAsksCode, TaskCodeCancel, TaskCancel},
     !.ops = {TaskStart @@ TaskStartButton({"open", "slugless"}),
              TaskStartCoded @@ TaskStartButton({"coded"}),
              TaskComplete @@ TaskCompleteButton, TaskCompleteWithCode @@ TaskCodeForm}]

\* app/go/[taskSlug]/page.tsx
LandingProceed == Move({"wait"}, "ready")
LandingPage == [Page EXCEPT !.failure = "empty", !.first = {"wait"}, !.moves = {LandingProceed}]

-----------------------------------------------------------------------------
\* dashboard/referrals, gamification, profile, ads, notifications.

\* Each of its three requests falls back to nothing when it fails.
ReferralsTabs == {"level1", "level2", "level3", "commissions"}
ReferralsPage ==
  [Page EXCEPT !.failure = "empty", !.first = {"level1"},
               !.moves = {Move(ReferralsTabs, t) : t \in ReferralsTabs}]

GamificationPage == Page

\* The profile shown is AuthContext's user: nothing is loaded at the mount, and
\* refreshUser after a change.
ProfileLoad == "leave"
ProfileSave == [Handler EXCEPT !.key = "profile", !.flag = "savingProfile", !.ends = {"kick"}]
ProfilePassword == [Handler EXCEPT !.key = "password", !.flag = "savingPassword", !.ends = {"rest"}]
ProfileForm == Form
PasswordForm == Form
ProfilePage ==
  [Page EXCEPT !.loads = FALSE, !.failure = ProfileLoad,
               !.ops = {ProfileSave @@ ProfileForm, ProfilePassword @@ PasswordForm}]

AdCreate == [Handler EXCEPT !.key = "create", !.flag = "creating", !.won = "list"]
AdCreateForm == [Form EXCEPT !.where = {"form"}]
AdDelete == [Handler EXCEPT !.key = "delete", !.flag = "deleting"]
AdDeleteButton == [Button EXCEPT !.where = {"list", "form"}]
AdsPage ==
  [Page EXCEPT !.statuses = {"listed"},
     !.moves = {Move({"list"}, "form"), Move({"form"}, "list")},
     !.ops = {AdCreate @@ AdCreateForm, AdDelete @@ AdDeleteButton}]

NoticeRead == [Handler EXCEPT !.key = "read", !.ends = {"patch"}, !.patch = "read"]
NoticeReadButton == [Button EXCEPT !.on = {"unread"}]
NoticeReadAll == [NoticeRead EXCEPT !.key = "all"]
NoticeReadAllButton == [Button EXCEPT !.target = "page", !.on = {"unread"}]
NotificationsPaging == "loaded"
NotificationsPage ==
  [Page EXCEPT !.browse = NotificationsPaging, !.statuses = {"unread", "read"},
     !.ops = {NoticeRead @@ NoticeReadButton, NoticeReadAll @@ NoticeReadAllButton}]

\* components/NotificationBell.tsx, in the header of every page: its rows are
\* loaded each time it is opened, and pushed over SSE. The badge's count, which
\* offers "read all", is left open.
BellOpens == [Move({"closed"}, "open") EXCEPT !.loads = TRUE, !.outside = TRUE]
BellCloses == [Move({"open"}, "closed") EXCEPT !.outside = TRUE]
BellPushed == "unread"
BellRead == NoticeRead
BellRow == [Button EXCEPT !.where = {"open"}, !.on = {"unread"}]
BellReadAll == NoticeReadAll
BellHeader == [Button EXCEPT !.where = {"open"}, !.target = "page", !.on = {}, !.outside = TRUE]
NotificationBell ==
  [Page EXCEPT !.loads = FALSE, !.spins = "always", !.statuses = {"unread", "read"},
     !.pushed = BellPushed, !.first = {"closed"}, !.moves = {BellOpens, BellCloses},
     !.ops = {BellRead @@ BellRow, BellReadAll @@ BellHeader}]

\* dashboard/layout.tsx, around every page: a menu, and the logout, which leaves
\* whatever the API answers.
MenuToggle == {Move({"closed"}, "menu"), Move({"menu"}, "closed")}
Logout == [Handler EXCEPT !.key = "logout", !.ends = {"leave"}, !.anyway = TRUE]
LogoutButton == [Button EXCEPT !.where = {"closed", "menu"}, !.target = "page", !.on = {}]
DashboardLayout ==
  [Page EXCEPT !.loads = FALSE, !.first = {"closed"}, !.moves = MenuToggle,
               !.ops = {Logout @@ LogoutButton}]

-----------------------------------------------------------------------------
\* The way in. These pages load nothing.

EntryPage == [Page EXCEPT !.loads = FALSE]

\* Login goes to a dashboard, registration to one or to "check your mail".
LoginEnds == {"leave"}
RegisterEnds == {"leave"}

LoginSubmit == [Handler EXCEPT !.key = "login", !.flag = "loading", !.ends = LoginEnds]
LoginGoogle == [LoginSubmit EXCEPT !.key = "google", !.flag = "googleLoading"]
LoginForm == Form
LoginPage == [EntryPage EXCEPT !.ops = {LoginSubmit @@ LoginForm, LoginGoogle @@ Form}]

RegisterSubmit == [Handler EXCEPT !.key = "register", !.flag = "loading", !.ends = RegisterEnds]
RegisterForm == Form
RegisterGoogle == [Handler EXCEPT !.key = "google", !.ends = {"leave"}]
RegisterPage ==
  [EntryPage EXCEPT !.ops = {RegisterSubmit @@ RegisterForm, RegisterGoogle @@ Form}]

ForgotSubmit ==
  [Handler EXCEPT !.key = "forgot", !.flag = "loading", !.won = "sent", !.ends = {"rest"}]
ForgotForm == Form
ForgotPage == [EntryPage EXCEPT !.ops = {ForgotSubmit @@ ForgotForm}]

ResetSubmit == [ForgotSubmit EXCEPT !.key = "reset", !.won = "success"]
ResetForm == Form
ResetPage == [EntryPage EXCEPT !.ops = {ResetSubmit @@ ResetForm}]

Resend == [Handler EXCEPT !.key = "resend", !.flag = "resending", !.ends = {"rest"}]
PendingPage == [EntryPage EXCEPT !.ops = {Resend @@ Form}]

\* The link is spent by the page's load; what follows is a countdown to /login.
VerifyEmailPage == [Page EXCEPT !.failure = "empty"]

-----------------------------------------------------------------------------
\* Parts without calls of their own: the bar of the public pages, whose links
\* close its menu; the boundary that replaces a part which throws, until a
\* retry; the messages, which go by themselves or when closed.
Navbar == [EntryPage EXCEPT !.first = {"closed"}, !.moves = MenuToggle]
BoundaryCatches == Move({"fine"}, "error")
BoundaryReset == Move({"error"}, "fine")
ErrorBoundary ==
  [EntryPage EXCEPT !.first = {"fine"}, !.moves = {BoundaryCatches, BoundaryReset}]
ToastAdded == Move({"none", "shown"}, "shown")
ToastRemoved == Move({"shown"}, "none")
ToastProvider == [EntryPage EXCEPT !.first = {"none"}, !.moves = {ToastAdded, ToastRemoved}]

UserPages ==
  {WalletPage, WithdrawalsPage, DashboardPage, TasksPage, LandingPage, ReferralsPage,
   GamificationPage, ProfilePage, AdsPage, NotificationsPage, NotificationBell,
   DashboardLayout, LoginPage, RegisterPage, ForgotPage, ResetPage, PendingPage, VerifyEmailPage,
   Navbar, ErrorBoundary, ToastProvider}
=============================================================================
