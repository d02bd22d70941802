------------------------------ MODULE StaffPages ------------------------------
(***************************************************************************)
(* The administration (apps/web/src/app/admin and dashboard/admin) and the *)
(* mobile app (apps/mobile/app), as tables for module Screens.             *)
(***************************************************************************)
EXTENDS Pages

UserStatus == {"FREE", "ACTIVATED", "SUSPENDED", "BANNED"}

\* A row of an administrator has no buttons. Any other user may be given the
\* status he does not have.
UserActions == {<<"activate", "ACTIVATED">>, <<"suspend", "SUSPENDED">>, <<"ban", "BANNED">>}

\* admin/users/page.tsx: a native dialogue asks before the call.
UserAction(key) == [Handler EXCEPT !.key = key, !.flag = "actionLoading"]
UserActionButton(status) == [Button EXCEPT !.on = UserStatus \ {status}]
UsersFilters == "anytime"
UsersPage ==
  [Page EXCEPT !.spins = "always", !.browse = UsersFilters, !.statuses = UserStatus \cup {"ADMIN"},
     !.ops = {UserAction(a[1]) @@ UserActionButton(a[2]) : a \in UserActions}]

\* dashboard/admin/users/page.tsx: the row is picked, then confirmed in a modal
\* that stays open whatever the page loads meanwhile.
ConfirmedAction(key) == [UserAction(key) EXCEPT !.opens = "list"]
ConfirmButton(key) ==
  [Button EXCEPT !.where = {key}, !.target = "picked", !.on = {}, !.outside = TRUE]
AskConfirmation(key, status) ==
  [Move({"list"}, key) EXCEPT !.on = UserStatus \ {status}, !.flag = "actionLoading"]
Cancel == [Move({a[1] : a \in UserActions}, "list") EXCEPT !.outside = TRUE]
ConfirmedFilters == "anytime"
ConfirmedUsersPage ==
  [UsersPage EXCEPT !.browse = ConfirmedFilters,
     !.moves = {AskConfirmation(a[1], a[2]) : a \in UserActions} \cup {Cancel},
     !.ops = {ConfirmedAction(a[1]) @@ ConfirmButton(a[1]) : a \in UserActions}]

-----------------------------------------------------------------------------
\* admin/tasks/page.tsx. The form to create stays open beside the list, the
\* one to edit covers it.

TaskCreate == [Handler EXCEPT !.key = "create", !.flag = "creating", !.won = "list"]
TaskCreateForm == [Form EXCEPT !.where = {"create"}, !.outside = TRUE]
TaskFormToggle == [Move({"list"}, "create") EXCEPT !.outside = TRUE]
TaskFormClose == [Move({"create", "edit"}, "list") EXCEPT !.outside = TRUE]
TaskToggle == [Handler EXCEPT !.key = "toggle", !.flag = "actionLoading"]
TaskDelete == [TaskToggle EXCEPT !.key = "delete"]
TaskRowButton == [Button EXCEPT !.where = {"list", "create"}]
TaskOpenEdit == [Move({"list"}, "edit") EXCEPT !.on = {"listed"}, !.flag = "actionLoading"]
TaskEdit == [Handler EXCEPT !.key = "edit", !.flag = "saving", !.won = "list"]
TaskEditForm ==
  [Button EXCEPT !.where = {"edit"}, !.target = "picked", !.on = {}, !.alone = TRUE,
                 !.outside = TRUE]
TasksAdminPaging == "loaded"
TasksAdminPage ==
  [Page EXCEPT !.spins = "always", !.browse = TasksAdminPaging, !.statuses = {"listed"},
     !.moves = {TaskFormToggle, TaskFormClose, TaskOpenEdit},
     !.ops = {TaskCreate @@ TaskCreateForm, TaskToggle @@ TaskRowButton,
              TaskDelete @@ TaskRowButton, TaskEdit @@ TaskEditForm}]

\* admin/ads/page.tsx
AdStatus == {"PENDING", "ACTIVE", "PAUSED", "REJECTED", "EXPIRED"}
AdApprove == [Handler EXCEPT !.key = "approve", !.flag = "actionLoading"]
AdReject == [AdApprove EXCEPT !.key = "reject"]
AdPause == [AdApprove EXCEPT !.key = "pause"]
AdButton(on) == [Button EXCEPT !.on = on]
AdsFilter == "anytime"
AdsAdminPage ==
  [Page EXCEPT !.spins = "always", !.browse = AdsFilter, !.statuses = AdStatus,
     !.ops = {AdApprove @@ AdButton({"PENDING", "PAUSED"}), AdPause @@ AdButton({"ACTIVE"}),
              AdReject @@ AdButton(AdStatus \ {"REJECTED", "EXPIRED"})}]

\* admin/transactions/page.tsx
WithdrawalApprove == [Handler EXCEPT !.key = "approve", !.flag = "actionLoading"]
WithdrawalReject == [WithdrawalApprove EXCEPT !.key = "reject"]
WithdrawalButton == Button
TransactionsPaging == "loaded"
TransactionsPage ==
  [Page EXCEPT !.spins = "always", !.browse = TransactionsPaging, !.statuses = {"listed"},
     !.ops = {WithdrawalApprove @@ WithdrawalButton, WithdrawalReject @@ WithdrawalButton}]

\* dashboard/admin/logs, dashboard/admin/stats, admin, admin/analytics.
LogsFilters == "anytime"
LogsPage == [Page EXCEPT !.spins = "always", !.failure = "empty", !.browse = LogsFilters]
StatsPage == [Page EXCEPT !.failure = "empty"]
AdminHomePage == [Page EXCEPT !.failure = "empty"]
\* The administration has a layout of its own, which works like the other.
AdminLayout == DashboardLayout
\* Its pages in the dashboard are shown once the user is known for an ADMIN, and
\* from then on; anybody else is sent elsewhere.
AdminAuthorized == Move({"checking"}, "authorized")
DashboardAdminLayout ==
  [EntryPage EXCEPT !.first = {"checking"}, !.moves = {AdminAuthorized}]
\* Loaded again every minute, and by its button.
AnalyticsPage ==
  [Page EXCEPT !.spins = "always", !.failure = "empty", !.refresher = "timer"]

StaffOnlyPages ==
  {UsersPage, ConfirmedUsersPage, TasksAdminPage, AdsAdminPage, TransactionsPage,
   LogsPage, StatsPage, AdminHomePage, AdminLayout, DashboardAdminLayout, AnalyticsPage}

-----------------------------------------------------------------------------
\* The mobile app. A screen whose load failed is an error message with a retry.

MobileScreen ==
  [Page EXCEPT !.spins = "blank", !.failure = "empty", !.refresher = "free",
               !.refreshing = "refreshing", !.statuses = {"listed"}]
MobileButton == [Button EXCEPT !.target = "page"]

\* The token kept on the device decides which screen comes first.
RootReady == Move({"starting"}, "ready")
RootLayout == [EntryPage EXCEPT !.first = {"starting"}, !.moves = {RootReady}]

MobileHome == MobileScreen

MobileStart == [Handler EXCEPT !.key = "start", !.flag = "actionLoading", !.ends = {"kick"}]
MobileComplete == [MobileStart EXCEPT !.key = "complete", !.tag = "complete"]
MobileTaskCard == Button
MobileTasks ==
  [MobileScreen EXCEPT !.ops = {MobileStart @@ MobileTaskCard, MobileComplete @@ MobileTaskCard}]

MobileWithdraw ==
  [Handler EXCEPT !.key = "withdraw", !.flag = "withdrawing", !.ends = {"kick"}]
MobileWithdrawButton == [MobileButton EXCEPT !.alone = TRUE]
MobileUpgrade == [Handler EXCEPT !.key = "upgrade", !.ends = {"rest"}]
MobileWallet ==
  [MobileScreen EXCEPT
     !.ops = {MobileWithdraw @@ MobileWithdrawButton, MobileUpgrade @@ MobileButton}]

\* "Copied !" goes away by itself.
MobileCopyCode == {Move({"list", "copied"}, "copied"), Move({"copied"}, "list")}
MobileReferrals == [MobileScreen EXCEPT !.moves = MobileCopyCode]

MobileLogout == [Handler EXCEPT !.key = "logout", !.ends = {"leave"}, !.anyway = TRUE]
MobileMore == [MobileScreen EXCEPT !.ops = {MobileLogout @@ MobileButton}]

MobileLoginSubmit == [Handler EXCEPT !.key = "login", !.flag = "loading", !.ends = {"leave"}]
MobileLoginForm == Form
MobileLogin == [EntryPage EXCEPT !.ops = {MobileLoginSubmit @@ MobileLoginForm}]
MobileRegisterSubmit ==
  [Handler EXCEPT !.key = "register", !.flag = "loading", !.won = "success", !.ends = {"rest"}]
MobileRegisterForm == Form
MobileRegister == [EntryPage EXCEPT !.ops = {MobileRegisterSubmit @@ MobileRegisterForm}]

MobileScreens ==
  {RootLayout, MobileHome, MobileTasks, MobileWallet, MobileReferrals, MobileMore, MobileLogin, MobileRegister}
=============================================================================
