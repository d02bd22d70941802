------------------------------- MODULE Browser -------------------------------
(***************************************************************************)
(* The web client of one account (lib/api.ts, lib/auth.tsx) on top of the  *)
(* server of Sessions: tabs that share one cookie jar, each with calls in  *)
(* flight and at most one refresh that all its rejected calls await.       *)
(* The password may be changed from elsewhere.                             *)
(***************************************************************************)
EXTENDS Sessions

CONSTANTS
  Tab,
  Call, TabOf,  \* calls in flight (a bound) and the tab of each
  SigningOut,   \* tabs in which the user signs out (a bound)
  MaxFaults,    \* network failures considered (a bound)
  NoTab, NoRequest,
  Gone          \* in the place of a tab that left while its request was in flight

ASSUME BrowserAssumption ==
  /\ TabOf \in [Call -> Tab] /\ SigningOut \subseteq Tab
  /\ NoTab \notin Tab /\ Gone \notin Tab \cup {NoTab} /\ NoRequest \notin Request

VARIABLES
  jar,       \* cookies accessToken and refreshToken, cleared and set together
             \* except that the access cookie expires
  page,      \* of each tab: "restoring", signed "in", sent to /login by api
             \* ("expired"), or without a user ("out")
  promise,   \* refreshPromise of each tab
  call,
  leaving,   \* tabs whose logout is in flight
  owner,     \* the tab that sent each request, if a tab did
  faults,
  ended,     \* something ended the session: logout, change of password
  loggedOut, \* since the last logout nobody signed in, and no answer came late
  late       \* requests in flight at the last logout, and still

browser == <<jar, page, promise, call, leaving, owner>>
history == <<faults, ended, loggedOut, late>>
bvars == <<serverVars, browser, history>>

NoCall == [pc |-> "idle", cookie |-> NoToken]
EmptyJar == [access |-> NoToken, refresh |-> NoToken]
Filled(t) == [access |-> t, refresh |-> t]

FirstToken == [version |-> 0, proof |-> password]

\* Every tab is open on a page of the account, signed in.
BrowserInit ==
  /\ version = 0 /\ password \in Password /\ blocked = FALSE /\ link = NoLink
  /\ spent = {} /\ mailed = {} /\ tokens = {FirstToken}
  /\ request = [r \in Request |-> Idle]
  /\ jar = Filled(FirstToken)
  /\ page = [t \in Tab |-> "in"]
  /\ promise = [t \in Tab |-> NoRequest]
  /\ call = [k \in Call |-> NoCall]
  /\ leaving = {}
  /\ owner = [r \in Request |-> NoTab]
  /\ faults = 0 /\ ended = FALSE /\ loggedOut = FALSE /\ late = {}

-----------------------------------------------------------------------------
\* Calls.

\* rawFetch sends the cookies of the moment.
SendCall(k) ==
  /\ page[TabOf[k]] = "in" /\ call[k].pc = "idle"
  /\ call' = [call EXCEPT ![k] = [pc |-> "sent", cookie |-> jar.access]]
  /\ UNCHANGED <<serverVars, jar, page, promise, leaving, owner, history>>

CallSucceeds(k) ==
  /\ call[k].pc \in {"sent", "retried"} /\ Valid(call[k].cookie)
  /\ call' = [call EXCEPT ![k] = NoCall]
  /\ UNCHANGED <<serverVars, jar, page, promise, leaving, owner, history>>

Refresh == [Idle EXCEPT !.pc = "sent", !.op = "refresh", !.token = jar.refresh]

StartRefresh(t, r) ==
  /\ Send(r, Refresh)
  /\ owner' = [owner EXCEPT ![r] = t]
  /\ promise' = [promise EXCEPT ![t] = r]

\* A first 401: doRefresh, or the refresh already under way.
CallRejected(k) ==
  /\ call[k].pc = "sent" /\ ~Valid(call[k].cookie)
  /\ call' = [call EXCEPT ![k] = [pc |-> "waiting", cookie |-> NoToken]]
  /\ IF promise[TabOf[k]] = NoRequest
     THEN \E r \in Request : StartRefresh(TabOf[k], r)
     ELSE UNCHANGED <<request, owner, promise>>
  /\ UNCHANGED <<row, spent, mailed, tokens, jar, page, leaving, history>>

\* A 401 to the retry is an error of the page, without redirection.
RetryRejected(k) ==
  /\ call[k].pc = "retried" /\ ~Valid(call[k].cookie)
  /\ call' = [call EXCEPT ![k] = NoCall]
  /\ UNCHANGED <<serverVars, jar, page, promise, leaving, owner, history>>

\* The slot of a request is free again.
Close(r) ==
  /\ request' = [request EXCEPT ![r] = Idle]
  /\ owner' = [owner EXCEPT ![r] = NoTab]

\* Whether the logout still stands when the answer to r has set the cookies.
Stands(r, still) ==
  /\ loggedOut' = (still /\ loggedOut /\ r \notin late)
  /\ late' = IF loggedOut' THEN late ELSE {}

\* AuthContext is given a user, and its redirect effect leaves /login.
SetUser(t) == page' = [page EXCEPT ![t] = "in"]

Awaiting(t) == {k \in Call : TabOf[k] = t /\ call[k].pc = "waiting"}

\* Mutant of RefreshArrives: only one of the calls that wait is retried.
RefreshWakesOne(t) ==
  LET r == promise[t]
  IN  /\ r # NoRequest /\ request[r].pc = "answered"
      /\ jar' = Filled(request[r].token)
      /\ \E k \in Awaiting(t) :
           call' = [call EXCEPT ![k] = [pc |-> "retried", cookie |-> request[r].token]]
      /\ SetUser(t)
      /\ promise' = [promise EXCEPT ![t] = NoRequest]
      /\ Close(r)
      /\ Stands(r, TRUE)
      /\ UNCHANGED <<row, spent, mailed, tokens, leaving, faults, ended>>

\* The answer sets both cookies and AuthContext's user, signed out or not,
\* and the calls that waited are sent again.
RefreshArrives(t) ==
  LET r == promise[t]
  IN  /\ r # NoRequest /\ request[r].pc = "answered"
      /\ jar' = Filled(request[r].token)
      /\ call' = [k \in Call |->
           IF k \in Awaiting(t)
           THEN [pc |-> "retried", cookie |-> request[r].token]
           ELSE call[k]]
      /\ SetUser(t)
      /\ promise' = [promise EXCEPT ![t] = NoRequest]
      /\ Close(r)
      /\ Stands(r, TRUE)
      /\ UNCHANGED <<row, spent, mailed, tokens, leaving, faults, ended>>

\* A new page is loaded: what the tab was doing is gone, but a request that was
\* not aborted in time may still be answered.
Leave(t, where) ==
  /\ page' = [page EXCEPT ![t] = where]
  /\ call' = [k \in Call |-> IF TabOf[k] = t THEN NoCall ELSE call[k]]
  /\ promise' = [promise EXCEPT ![t] = NoRequest]
  /\ leaving' = leaving \ {t}
  /\ \E aborted \in SUBSET {r \in Request : owner[r] = t} :
       /\ request' = [r \in Request |-> IF r \in aborted THEN Idle ELSE request[r]]
       /\ owner' = [r \in Request |->
            IF r \in aborted THEN NoTab ELSE IF owner[r] = t THEN Gone ELSE owner[r]]
       /\ late' = late \ aborted
  /\ UNCHANGED <<row, spent, mailed, tokens, jar>>

\* The browser keeps the cookies of an answer whose page is gone.
LateAnswer(r) ==
  /\ owner[r] = Gone
  /\ \/ /\ request[r].pc = "answered"
        /\ jar' = Filled(request[r].token)
        /\ Stands(r, request[r].op = "refresh")
     \/ /\ request[r].pc = "refused"
        /\ late' = late \ {r}
        /\ UNCHANGED <<jar, loggedOut>>
  /\ Close(r)
  /\ UNCHANGED <<row, spent, mailed, tokens, page, promise, call, leaving, faults, ended>>

\* api sets window.location.href.
Redirect(t) == Leave(t, "expired")

RefreshRefused(t) ==
  /\ promise[t] # NoRequest /\ request[promise[t]].pc = "refused"
  /\ Redirect(t)
  /\ UNCHANGED <<faults, ended, loggedOut>>

\* The network fails or, where the answer is not looked at further, the
\* server answers with a 5xx or the 429 of its throttler.
NetworkFault ==
  /\ faults < MaxFaults
  /\ faults' = faults + 1
  /\ UNCHANGED <<ended, loggedOut>>

\* The retry is inside the try of the refresh: its failure redirects as well.
RefreshOrRetryLost(t) ==
  /\ \/ promise[t] # NoRequest
     \/ \E k \in Call : TabOf[k] = t /\ call[k].pc = "retried"
  /\ Redirect(t)
  /\ NetworkFault

CallLost(k) ==
  /\ call[k].pc = "sent"
  /\ call' = [call EXCEPT ![k] = NoCall]
  /\ NetworkFault
  /\ UNCHANGED <<serverVars, jar, page, promise, leaving, owner, late>>
-----------------------------------------------------------------------------
\* Signing out and in.

StartLogout(t) ==
  /\ t \in SigningOut /\ page[t] = "in" /\ t \notin leaving
  /\ leaving' = leaving \cup {t}
  /\ UNCHANGED <<serverVars, jar, page, promise, call, owner, history>>

\* Tokens may still be on their way to the jar.
InFlight == {r \in Request : owner[r] # NoTab}

\* Mutant of LogoutArrives: one of the cookies stays.
LogoutKeepsRefresh(t) ==
  /\ t \in leaving
  /\ leaving' = leaving \ {t}
  /\ jar' = [jar EXCEPT !.access = NoToken]
  /\ page' = [page EXCEPT ![t] = "out"]
  /\ ended' = TRUE /\ loggedOut' = TRUE /\ late' = InFlight
  /\ UNCHANGED <<serverVars, promise, call, owner, faults>>

LogoutArrives(t) ==
  /\ t \in leaving
  /\ leaving' = leaving \ {t}
  /\ jar' = EmptyJar
  /\ page' = [page EXCEPT ![t] = "out"]
  /\ ended' = TRUE /\ loggedOut' = TRUE /\ late' = InFlight
  /\ UNCHANGED <<serverVars, promise, call, owner, faults>>

\* The error is ignored: the page signs out, the cookies remain.
LogoutLost(t) ==
  /\ t \in leaving
  /\ leaving' = leaving \ {t}
  /\ page' = [page EXCEPT ![t] = "out"]
  /\ NetworkFault
  /\ UNCHANGED <<serverVars, jar, promise, call, owner, late>>

Pending(t) == {r \in Request : owner[r] = t /\ request[r].op = "login"}

SignIn(t, r) ==
  /\ page[t] = "out" /\ Pending(t) = {}
  /\ \E p \in Password : Send(r, [Idle EXCEPT !.pc = "sent", !.password = p])
  /\ owner' = [owner EXCEPT ![r] = t]
  /\ UNCHANGED <<row, spent, mailed, tokens, jar, page, promise, call, leaving, history>>

SignInAccepted(t, r) ==
  /\ r \in Pending(t) /\ request[r].pc = "answered"
  /\ jar' = Filled(request[r].token)
  /\ SetUser(t)
  /\ Stands(r, FALSE)
  /\ Close(r)
  /\ UNCHANGED <<row, spent, mailed, tokens, promise, call, leaving, faults, ended>>

\* The 401 of a wrong password goes the way of every 401: api refreshes, and
\* redirects when that fails.  When it succeeds, RefreshArrives signs the
\* page in and the repeated login, refused as before, changes nothing.
SignInRefused(t, r) ==
  /\ r \in Pending(t) /\ request[r].pc = "refused"
  /\ IF promise[t] = NoRequest
     THEN /\ request' = [request EXCEPT ![r] = Refresh]
          /\ promise' = [promise EXCEPT ![t] = r]
          /\ UNCHANGED owner
     ELSE Close(r) /\ UNCHANGED promise
  /\ late' = late \ {r}
  /\ UNCHANGED <<row, spent, mailed, tokens, jar, page, call, leaving, faults, ended, loggedOut>>

\* middleware.ts lets the pages of the account be opened with an access cookie,
\* whatever it is worth.  Its other way in, the cookie of NextAuth, ends at
\* /login as well when the profile is refused.
Admitted == jar.access # NoToken

\* A page is opened anew, by the user or after a redirection.
Reload(t) ==
  /\ Leave(t, IF Admitted THEN "restoring" ELSE "out")
  /\ UNCHANGED <<faults, ended, loggedOut>>

\* AuthContext restores the session from the access cookie, without a refresh;
\* any failure leaves the page without a user.
Restore(t) ==
  /\ page[t] = "restoring"
  /\ \/ Valid(jar.access) /\ SetUser(t) /\ UNCHANGED faults
     \/ /\ page' = [page EXCEPT ![t] = "out"]
        /\ IF Valid(jar.access) THEN NetworkFault ELSE UNCHANGED faults
  /\ UNCHANGED <<serverVars, jar, promise, call, leaving, owner, ended, loggedOut, late>>

ExpireAccess ==
  /\ jar.access # NoToken
  /\ jar' = [jar EXCEPT !.access = NoToken]
  /\ UNCHANGED <<serverVars, page, promise, call, leaving, owner, history>>

-----------------------------------------------------------------------------
\* The server and what happens elsewhere.

Serve(r) ==
  /\ Handle(r)
  /\ UNCHANGED <<browser, history>>

\* A change or reset of the password by another device: its steps are those
\* of Sessions, here only what the browser sees of it, the version.
\* A ban would look the same to it.
ChangeElsewhere ==
  /\ version < MaxVersion
  /\ version' = version + 1
  /\ ended' = TRUE
  /\ UNCHANGED <<password, blocked, link, spent, mailed, tokens, request, browser>>
  /\ UNCHANGED <<faults, loggedOut, late>>

RefreshEnds(t) == RefreshArrives(t) \/ RefreshRefused(t)

CallStep(k) ==
  SendCall(k) \/ CallSucceeds(k) \/ CallRejected(k) \/ RetryRejected(k)

BrowserNext ==
  \/ \E t \in Tab :
       \/ RefreshEnds(t) \/ RefreshOrRetryLost(t)
       \/ StartLogout(t) \/ LogoutArrives(t) \/ LogoutLost(t) \/ Reload(t) \/ Restore(t)
       \/ \E r \in Request : SignIn(t, r) \/ SignInAccepted(t, r) \/ SignInRefused(t, r)
  \/ \E k \in Call : CallStep(k) \/ CallLost(k)
  \/ \E r \in Request : Serve(r) \/ LateAnswer(r)
  \/ ChangeElsewhere
  \/ ExpireAccess

BrowserSpec == BrowserInit /\ [][BrowserNext]_bvars

-----------------------------------------------------------------------------
\* Properties.

\* While the network works, api sends a tab to /login only if the session was
\* really ended: tabs that refresh together do not expire each other.
NoFalseExpiry ==
  (\E t \in Tab : page[t] = "expired") => ended \/ faults > 0

\* After a logout no cookie comes back before somebody signs in, in whatever tab
\* and however calls are retried: only the answer to a request that was in flight
\* at the logout can bring one.
LogoutLasts == loggedOut => jar = EmptyJar

\* A call that waits for a refresh has one to wait for: it is never left
\* behind by the answer, by a redirection or by a logout.
WaitingIsServed ==
  \A k \in Call :
    call[k].pc = "waiting" =>
      /\ promise[TabOf[k]] # NoRequest
      /\ owner[promise[TabOf[k]]] = TabOf[k]
      /\ request[promise[TabOf[k]]].op = "refresh"
      /\ request[promise[TabOf[k]]].pc # "idle"
=============================================================================
