--------------------------- MODULE Sessions_proofs ---------------------------
(***************************************************************************)
(* About the server, for any number of requests, links, passwords and      *)
(* changes: a change of password ends every older session, and a used link *)
(* is never found again.  About the client on top of it, for any number of *)
(* tabs and calls: while nothing ends the session no tab reports it        *)
(* expired, a logout is final, and no call is forgotten by the refresh it  *)
(* waits for.                                                              *)
(***************************************************************************)
EXTENDS Browser, TLAPS

-----------------------------------------------------------------------------
\* The invariant.  What a request has read is still true of the row, or is
\* about a version the row no longer has.

RequestSound(q) ==
  /\ q \in RequestRow
  /\ q.version <= version
  /\ q.op = "refresh" => q.token \in tokens
  /\ q.op = "reset" => q.link \in mailed
  /\ q.op = "google" => q.password = ByGoogle
  /\ (q.pc = "mint" /\ q.version = version) =>
       IF q.op = "refresh" THEN q.token.version = version
       ELSE q.password \in {password, ByGoogle}

\* The state apart from the requests.
RowOK ==
  /\ version \in 0..MaxVersion
  /\ password \in Password
  /\ blocked \in BOOLEAN
  /\ link \in mailed \cup {NoLink}
  /\ mailed \subseteq Link /\ spent \subseteq mailed
  /\ tokens \subseteq Token

TokensSound ==
  /\ \A t \in tokens : t.version <= version
  /\ SessionsFollowPassword

Inv ==
  /\ RowOK /\ TokensSound /\ LinkSpent
  /\ request \in [Request -> RequestRow]
  /\ \A r \in Request : RequestSound(request[r])

-----------------------------------------------------------------------------
\* The requests that do not move.

\* Nothing that a sound record speaks of goes away while the password stays.
LEMMA SoundKept ==
  ASSUME NEW q, RequestSound(q),
         version' = version, password' = password,
         tokens \subseteq tokens', mailed \subseteq mailed'
  PROVE  RequestSound(q)'
  BY DEF RequestSound

\* A change of password leaves every record with a version of the past.
LEMMA SoundAged ==
  ASSUME NEW q, RequestSound(q), version \in Nat,
         version' = version + 1, tokens' = tokens, mailed' = mailed
  PROVE  RequestSound(q)'
<1>1. q.version \in Nat
  BY DEF RequestSound, RequestRow
<1>2. q.version # version + 1 /\ q.version <= version + 1
  BY <1>1 DEF RequestSound
<1> QED
  BY <1>2 DEF RequestSound

\* When one request moves, its new record has to be sound and the others'
\* have to stay so.
LEMMA OneRequest ==
  ASSUME Inv, NEW r \in Request, NEW q,
         request' = [request EXCEPT ![r] = q],
         RowOK', TokensSound', LinkSpent', RequestSound(q)',
         \A p : RequestSound(p) => RequestSound(p)'
  PROVE  Inv'
<1>1. q \in RequestRow
  BY DEF RequestSound
<1>2. request' \in [Request -> RequestRow]
  BY <1>1 DEF Inv
<1>3. ASSUME NEW s \in Request PROVE RequestSound(request[s])'
  <2>1. CASE s = r
    <3>1. request'[s] = q
      BY <2>1 DEF Inv
    <3> QED
      BY <3>1 DEF RequestSound
  <2>2. CASE s # r
    <3>1. PICK p : p = request[s]
      OBVIOUS
    <3>2. RequestSound(p)
      BY <3>1 DEF Inv
    <3>3. RequestSound(p)'
      BY <3>2
    <3>4. request'[s] = p
      BY <2>2, <3>1 DEF Inv
    <3> QED
      BY <3>3, <3>4 DEF RequestSound
  <2> QED
    BY <2>1, <2>2
<1> QED
  BY <1>2, <1>3 DEF Inv

-----------------------------------------------------------------------------
\* The row read by a request is described by the invariant.

LEMMA InitInv == Init => Inv
<1> SUFFICES ASSUME Init PROVE Inv
  OBVIOUS
<1>1. RowOK
  <2>1. version \in 0..MaxVersion
    BY SessionsAssumption DEF Init
  <2>2. blocked \in BOOLEAN /\ link \in mailed \cup {NoLink}
    BY DEF Init
  <2>3. mailed \subseteq Link /\ spent \subseteq mailed /\ tokens \subseteq Token
    BY DEF Init
  <2> QED
    BY <2>1, <2>2, <2>3 DEF Init, RowOK
<1>2. TokensSound /\ LinkSpent
  BY DEF Init, TokensSound, SessionsFollowPassword, LinkSpent
<1>3. Idle \in RequestRow
  BY SessionsAssumption DEF Idle, RequestRow, Op
<1>4. RequestSound(Idle)
  BY <1>3, SessionsAssumption DEF Init, Idle, RequestSound
<1>5. \A r \in Request : request[r] = Idle
  BY DEF Init
<1>6. request \in [Request -> RequestRow]
  BY <1>3 DEF Init
<1> QED
  BY <1>1, <1>2, <1>4, <1>5, <1>6 DEF Inv

\* What the steps of requests that only move their record have in common.
LEMMA RecordOnly ==
  ASSUME Inv, NEW r \in Request, NEW q,
         request' = [request EXCEPT ![r] = q], RequestSound(q),
         UNCHANGED <<row, spent, mailed, tokens>>
  PROVE  Inv'
<1> USE DEF row
<1>1. RowOK' /\ TokensSound' /\ LinkSpent'
  BY DEF Inv, RowOK, TokensSound, SessionsFollowPassword, LinkSpent
<1>2. \A p : RequestSound(p) => RequestSound(p)'
  BY SoundKept
<1> QED
  BY <1>1, <1>2, OneRequest

LEMMA IdleSound ==
  ASSUME Inv
  PROVE  RequestSound(Idle)
BY SessionsAssumption DEF Inv, RowOK, Idle, RequestSound, RequestRow, Op

LEMMA AskPreserves ==
  ASSUME Inv, NEW r \in Request, Ask(r)
  PROVE  Inv'
<1>0. UNCHANGED <<row, spent, mailed, tokens>>
  BY DEF Ask
<1>1. ASSUME NEW q, Send(r, q), RequestSound(q) PROVE Inv'
  BY <1>0, <1>1, RecordOnly DEF Send
<1>2. PICK i \in RequestRow :
        i = Idle /\ RequestSound(i) /\ i.op = "login" /\ i.password = ByGoogle
  BY IdleSound DEF Idle, RequestSound
<1>3. tokens \subseteq Token /\ mailed \subseteq Link
  BY DEF Inv, RowOK
<1>4. \A p \in Password :
        RequestSound([i EXCEPT !.pc = "sent", !.password = p])
  BY <1>2, <1>3 DEF RequestSound, RequestRow, Op
<1>5. RequestSound([i EXCEPT !.pc = "sent", !.op = "google"])
  BY <1>2, <1>3 DEF RequestSound, RequestRow, Op
<1>6. RequestSound([i EXCEPT !.pc = "sent", !.op = "forgot"])
  BY <1>2, <1>3 DEF RequestSound, RequestRow, Op
<1>7. \A t \in tokens :
        RequestSound([i EXCEPT !.pc = "sent", !.op = "refresh", !.token = t])
  BY <1>2, <1>3 DEF RequestSound, RequestRow, Op
<1>8. \A t \in tokens, p \in Password :
        RequestSound([i EXCEPT !.pc = "sent", !.op = "change", !.token = t,
                         !.password = p])
  BY <1>2, <1>3 DEF RequestSound, RequestRow, Op
<1>9. \A k \in mailed :
        RequestSound([i EXCEPT !.pc = "sent", !.op = "reset", !.link = k])
  BY <1>2, <1>3 DEF RequestSound, RequestRow, Op
<1> QED
  BY <1>1, <1>2, <1>4, <1>5, <1>6, <1>7, <1>8, <1>9, Zenon DEF Ask

\* A sound record stays sound when its request is refused, answered or let
\* through by the guard: none of these mints.
LEMMA MovedSound ==
  ASSUME NEW q, RequestSound(q),
         NEW pc \in {"guarded", "answered", "refused"}
  PROVE  RequestSound([q EXCEPT !.pc = pc])
<1>1. q \in RequestRow
  BY DEF RequestSound
<1>2. [q EXCEPT !.pc = pc] \in RequestRow
  BY <1>1 DEF RequestRow
<1> QED
  BY <1>1, <1>2 DEF RequestSound, RequestRow

\* The record a request has, as a value.
LEMMA Record ==
  ASSUME Inv, NEW r \in Request
  PROVE  \E q \in RequestRow :
           /\ q = request[r] /\ RequestSound(q)
           /\ \A pc : Goto(r, pc) <=> request' = [request EXCEPT ![r] = [q EXCEPT !.pc = pc]]
<1>1. request[r] \in RequestRow /\ RequestSound(request[r])
  BY DEF Inv
<1>2. PICK q \in RequestRow : q = request[r]
  BY <1>1
<1>3. \A pc : [request EXCEPT ![r].pc = pc] = [request EXCEPT ![r] = [q EXCEPT !.pc = pc]]
  BY <1>2 DEF Inv
<1> QED
  BY <1>1, <1>2, <1>3 DEF Goto

LEMMA GuardPreserves ==
  ASSUME Inv, NEW r \in Request, Guard(r)
  PROVE  Inv'
<1>1. PICK q \in RequestRow :
        /\ q = request[r] /\ RequestSound(q)
        /\ \A pc : Goto(r, pc) <=> request' = [request EXCEPT ![r] = [q EXCEPT !.pc = pc]]
  BY Record
<1>2. \E pc \in {"guarded", "refused"} : Goto(r, pc)
  BY DEF Guard
<1>3. PICK pc \in {"guarded", "refused"} :
        request' = [request EXCEPT ![r] = [q EXCEPT !.pc = pc]]
  BY <1>1, <1>2
<1>4. RequestSound([q EXCEPT !.pc = pc])
  BY <1>1, MovedSound
<1> QED
  BY <1>3, <1>4, RecordOnly DEF Guard

LEMMA EndPreserves ==
  ASSUME Inv, NEW r \in Request, End(r)
  PROVE  Inv'
BY IdleSound, RecordOnly DEF End

\* A request accepted on the row it reads carries what the row then says.
LEMMA ReadSound ==
  ASSUME Inv, NEW q, RequestSound(q), Accepted(q),
         NEW pc \in {"mint", "write"},
         pc = "mint" => q.op \in {"login", "google", "refresh"}
  PROVE  RequestSound([q EXCEPT !.pc = pc, !.version = version])
<1> DEFINE n == [q EXCEPT !.pc = pc, !.version = version]
<1>1. q \in RequestRow
  BY DEF RequestSound
<1>2. n \in RequestRow
  BY <1>1 DEF Inv, RowOK, RequestRow
<1>3. /\ n.op = q.op /\ n.token = q.token /\ n.password = q.password
      /\ n.link = q.link /\ n.version = version /\ n.pc = pc
  BY <1>1 DEF RequestRow
<1>4. version <= version
  BY SessionsAssumption DEF Inv, RowOK
<1>5. CASE pc = "write"
  BY <1>2, <1>3, <1>4, <1>5 DEF RequestSound
<1>6. CASE pc = "mint" /\ q.op = "login"
  <2>1. q.password = password
    BY <1>6 DEF Accepted
  <2> QED
    BY <1>2, <1>3, <1>4, <1>6, <2>1 DEF RequestSound
<1>7. CASE pc = "mint" /\ q.op = "google"
  <2>1. q.password = ByGoogle
    BY <1>7 DEF RequestSound
  <2> QED
    BY <1>2, <1>3, <1>4, <1>7, <2>1 DEF RequestSound
<1>8. CASE pc = "mint" /\ q.op = "refresh"
  <2>1. q.token.version = version
    BY <1>8 DEF Accepted, Valid
  <2> QED
    BY <1>2, <1>3, <1>4, <1>8, <2>1 DEF RequestSound
<1> QED
  BY <1>5, <1>6, <1>7, <1>8

LEMMA ReadPreserves ==
  ASSUME Inv, NEW r \in Request, Read(r)
  PROVE  Inv'
<1>1. PICK q \in RequestRow : q = request[r] /\ RequestSound(q)
  BY Record
<1> DEFINE next == IF q.op \in {"login", "google", "refresh"} THEN "mint" ELSE "write"
           pc == IF Accepted(q) THEN next ELSE "refused"
           n == [q EXCEPT !.pc = pc, !.version = version]
<1>2. request' = [request EXCEPT ![r].pc = pc, ![r].version = version]
  BY <1>1 DEF Read
<1>3. request' = [request EXCEPT ![r] = n]
  BY <1>1, <1>2 DEF Inv
<1>4. RequestSound(n)
  <2>1. CASE Accepted(q)
    BY <1>1, <2>1, ReadSound
  <2>2. CASE ~Accepted(q)
    <3>1. n \in RequestRow
      BY <1>1, <2>2 DEF Inv, RowOK, RequestRow
    <3>2. version <= version
      BY SessionsAssumption DEF Inv, RowOK
    <3> QED
      BY <1>1, <2>2, <3>1, <3>2 DEF RequestSound, RequestRow
  <2> QED
    BY <2>1, <2>2
<1>5. UNCHANGED <<row, spent, mailed, tokens>>
  BY DEF Read
<1> QED
  BY <1>3, <1>4, <1>5, RecordOnly

LEMMA MintPreserves ==
  ASSUME Inv, NEW r \in Request, Mint(r)
  PROVE  Inv'
<1>1. PICK q \in RequestRow : q = request[r] /\ RequestSound(q)
  BY Record
<1>2. PICK t : t = Minted(q, q.version)
  OBVIOUS
<1>3. q.pc = "mint" /\ tokens' = tokens \cup {t}
  BY <1>1, <1>2 DEF Mint
<1>4. t \in Token /\ t.version = q.version /\ t.version <= version
  <2>1. CASE q.op = "refresh"
    BY <1>1, <1>2, <2>1 DEF Inv, RowOK, RequestSound, RequestRow, Minted, Token
  <2>2. CASE q.op # "refresh"
    BY <1>1, <1>2, <2>2 DEF RequestSound, RequestRow, Minted, Token
  <2> QED
    BY <2>1, <2>2
<1>5. t.version = version => t.proof \in {password, ByGoogle}
  <2>1. CASE q.op = "refresh"
    <3>1. q.token \in tokens /\ t.proof = q.token.proof
      BY <1>1, <1>2, <2>1 DEF RequestSound, Minted
    <3>2. t.version = version => q.token.version = version
      BY <1>1, <1>3, <1>4, <2>1 DEF RequestSound
    <3> QED
      BY <3>1, <3>2 DEF Inv, TokensSound, SessionsFollowPassword
  <2>2. CASE q.op # "refresh"
    BY <1>1, <1>2, <1>3, <1>4, <2>2 DEF RequestSound, Minted
  <2> QED
    BY <2>1, <2>2
<1> DEFINE n == [q EXCEPT !.pc = "answered", !.token = t]
<1>6. request' = [request EXCEPT ![r].pc = "answered", ![r].token = t]
  BY <1>1, <1>2 DEF Mint
<1>7. request' = [request EXCEPT ![r] = n]
  BY <1>1, <1>6 DEF Inv
<1>8. UNCHANGED <<version, password, blocked, link, spent, mailed>>
  BY DEF Mint, row
<1>9. RequestSound(n)'
  <2>1. n \in RequestRow
    BY <1>1, <1>4 DEF RequestRow
  <2> QED
    BY <1>1, <1>3, <1>8, <2>1 DEF RequestSound, RequestRow
<1>10. RowOK' /\ LinkSpent'
  BY <1>3, <1>4, <1>8 DEF Inv, RowOK, LinkSpent
<1>11. TokensSound'
  BY <1>3, <1>4, <1>5, <1>8 DEF Inv, TokensSound, SessionsFollowPassword
<1>12. \A p : RequestSound(p) => RequestSound(p)'
  BY <1>3, <1>8, SoundKept
<1> QED
  BY <1>7, <1>9, <1>10, <1>11, <1>12, OneRequest

\* Writing a new password: every token and every record of a read is now of
\* an older version.
LEMMA PasswordWritten ==
  ASSUME Inv, NEW r \in Request, Goto(r, "answered"),
         version < MaxVersion, version' = version + 1, password' \in Password,
         blocked' = blocked, tokens' = tokens, mailed' = mailed,
         spent' \subseteq mailed, link' \in mailed \cup {NoLink}, LinkSpent'
  PROVE  Inv'
<1>1. version \in Nat /\ MaxVersion \in Nat /\ version' \in 0..MaxVersion
  BY SessionsAssumption DEF Inv, RowOK
<1>2. RowOK'
  BY <1>1 DEF Inv, RowOK
<1>3. \A t \in tokens : t.version \in Nat /\ t.version <= version
  BY DEF Inv, RowOK, TokensSound, Token
<1>4. TokensSound'
  BY <1>1, <1>3 DEF TokensSound, SessionsFollowPassword
<1>5. PICK q \in RequestRow :
        /\ q = request[r] /\ RequestSound(q)
        /\ \A pc : Goto(r, pc) <=> request' = [request EXCEPT ![r] = [q EXCEPT !.pc = pc]]
  BY Record
<1>6. \A p : RequestSound(p) => RequestSound(p)'
  BY <1>1, SoundAged
<1>7. RequestSound([q EXCEPT !.pc = "answered"])
  BY <1>5, MovedSound
<1>8. RequestSound([q EXCEPT !.pc = "answered"])'
  BY <1>1, <1>7, SoundAged
<1>9. request' = [request EXCEPT ![r] = [q EXCEPT !.pc = "answered"]]
  BY <1>5
<1> QED
  BY <1>2, <1>4, <1>6, <1>8, <1>9, OneRequest

LEMMA WriteChangePreserves ==
  ASSUME Inv, NEW r \in Request, WriteChange(r)
  PROVE  Inv'
<1>1. LinkSpent'
  BY DEF Inv, LinkSpent, WriteChange
<1>2. spent' \subseteq mailed /\ link' \in mailed \cup {NoLink}
  BY DEF Inv, RowOK, WriteChange
<1> QED
  BY <1>1, <1>2, PasswordWritten DEF WriteChange

LEMMA WriteResetPreserves ==
  ASSUME Inv, NEW r \in Request, WriteReset(r)
  PROVE  Inv'
<1>1. request[r].link \in mailed
  BY DEF Inv, RequestSound, WriteReset
<1>2. spent' \subseteq mailed /\ link' \in mailed \cup {NoLink}
  BY <1>1 DEF Inv, RowOK, WriteReset
<1>3. LinkSpent'
  BY <1>2, SessionsAssumption DEF Inv, RowOK, LinkSpent, WriteReset
<1> QED
  BY <1>2, <1>3, PasswordWritten DEF WriteReset

LEMMA WriteForgotPreserves ==
  ASSUME Inv, NEW r \in Request, WriteForgot(r)
  PROVE  Inv'
<1>1. PICK k \in Link \ mailed : link' = k /\ mailed' = mailed \cup {k}
  BY DEF WriteForgot
<1>2. UNCHANGED <<version, password, blocked, spent, tokens>> /\ Goto(r, "answered")
  BY DEF WriteForgot
<1>3. RowOK' /\ LinkSpent'
  BY <1>1, <1>2 DEF Inv, RowOK, LinkSpent
<1>4. TokensSound'
  BY <1>2 DEF Inv, TokensSound, SessionsFollowPassword
<1>5. PICK q \in RequestRow :
        /\ q = request[r] /\ RequestSound(q)
        /\ \A pc : Goto(r, pc) <=> request' = [request EXCEPT ![r] = [q EXCEPT !.pc = pc]]
  BY Record
<1>6. \A p : RequestSound(p) => RequestSound(p)'
  BY <1>1, <1>2, SoundKept
<1>7. RequestSound([q EXCEPT !.pc = "answered"])'
  BY <1>5, <1>6, MovedSound
<1> QED
  BY <1>2, <1>3, <1>4, <1>5, <1>6, <1>7, OneRequest

\* Administration, expiry and stuttering touch no request.
LEMMA RowMoves ==
  ASSUME Inv, UNCHANGED <<version, password, spent, mailed, tokens, request>>,
         blocked' \in BOOLEAN, link' \in {link, NoLink}
  PROVE  Inv'
<1>1. RowOK' /\ TokensSound'
  BY DEF Inv, RowOK, TokensSound, SessionsFollowPassword
<1>2. LinkSpent'
  BY SessionsAssumption DEF Inv, RowOK, LinkSpent
<1>3. \A r \in Request : RequestSound(request[r])'
  BY DEF Inv, RequestSound
<1> QED
  BY <1>1, <1>2, <1>3 DEF Inv

-----------------------------------------------------------------------------
LEMMA NextPreserves == Inv /\ [Next]_serverVars => Inv'
<1> SUFFICES ASSUME Inv, [Next]_serverVars PROVE Inv'
  OBVIOUS
<1>1. ASSUME NEW r \in Request, Ask(r) \/ Handle(r) \/ End(r) PROVE Inv'
  BY <1>1, AskPreserves, GuardPreserves, ReadPreserves, MintPreserves,
     WriteChangePreserves, WriteResetPreserves, WriteForgotPreserves,
     EndPreserves DEF Handle
<1>2. CASE SetBlocked
  <2>1. blocked' \in BOOLEAN
    BY <1>2 DEF SetBlocked
  <2> QED
    BY <1>2, <2>1, RowMoves DEF SetBlocked
<1>3. CASE ExpireLink
  BY <1>3, RowMoves DEF ExpireLink, Inv, RowOK
<1>4. CASE UNCHANGED serverVars
  BY <1>4, RowMoves DEF serverVars, row, Inv, RowOK
<1> QED
  BY <1>1, <1>2, <1>3, <1>4 DEF Next

\* Every reachable state is described by the invariant.
LEMMA Invariance == Spec => []Inv
<1> QED
  BY InitInv, NextPreserves, PTL DEF Spec

\* Columns, tokens and requests always hold what they may.
THEOREM TypeCorrect == Spec => []TypeOK
<1>1. Inv => TypeOK
  BY DEF Inv, RowOK, TypeOK
<1> QED
  BY <1>1, Invariance, PTL

\* However requests, resets and bans interleave, a change of password ends
\* every session opened with another one.
THEOREM PasswordEndsSessions == Spec => []SessionsFollowPassword
<1>1. Inv => SessionsFollowPassword
  BY DEF Inv, TokensSound
<1> QED
  BY <1>1, Invariance, PTL

\* No request finds a link once a reset has gone through with it.
THEOREM LinksSpentOnce == Spec => []LinkSpent
<1>1. Inv => LinkSpent
  BY DEF Inv
<1> QED
  BY <1>1, Invariance, PTL

-----------------------------------------------------------------------------
\* The client.  Its invariant adds to each request whose it is, to each tab the
\* refresh it waits for, and to the jar that the session in it is still good.

\* Nothing has ended the session so far, and the network has held.
Quiet == ~ended /\ faults = 0

Cookie == Token \cup {NoToken}
Owner == Tab \cup {NoTab, Gone}
CallRow == [pc : {"idle", "sent", "waiting", "retried"}, cookie : Cookie]

\* What the client keeps has its type; from here on nobody blocks the account.
ClientTyped ==
  /\ version \in 0..MaxVersion /\ blocked = FALSE
  /\ request \in [Request -> RequestRow]
  /\ owner \in [Request -> Owner]
  /\ promise \in [Tab -> Request \cup {NoRequest}]
  /\ call \in [Call -> CallRow]
  /\ DOMAIN page = Tab /\ jar \in [access : Cookie, refresh : Cookie]
  /\ ended \in BOOLEAN /\ loggedOut \in BOOLEAN /\ faults \in Nat

\* The logout still stands, and r was not in flight then.
After(r) == loggedOut /\ r \notin late

\* A request of the browser is a login or a refresh; only those that a tab sent are
\* under way.  One that mints or has minted holds a token.  A refresh sent after the
\* logout has none to present; one sent while nothing was ended has a valid one.
Sound(r) ==
  /\ request[r].op \in {"login", "refresh"} /\ request[r].pc \notin {"guarded", "write"}
  /\ owner[r] = NoTab \/ request[r].pc = "idle" => request[r] = Idle
  /\ request[r].op = "refresh" /\ request[r].pc = "mint" => request[r].token # NoToken
  /\ request[r].pc = "answered" => request[r].token # NoToken
  /\ After(r) /\ request[r].op = "refresh" =>
       request[r].token = NoToken /\ request[r].pc \in {"sent", "refused"}
  /\ Quiet =>
       /\ request[r].version = 0
       /\ request[r].op = "refresh" \/ request[r].pc = "answered" =>
            request[r].token # NoToken /\ request[r].token.version = 0
       /\ request[r].op = "refresh" => request[r].pc # "refused"

\* The refresh of a tab is one of its requests.
Promised(t) ==
  promise[t] # NoRequest =>
    /\ owner[promise[t]] = t
    /\ request[promise[t]].op = "refresh"
    /\ request[promise[t]].pc # "idle"

Served(k) == call[k].pc = "waiting" => promise[TabOf[k]] # NoRequest

\* Until something ends it, the session is in the jar.
Undisturbed ==
  Quiet =>
    /\ version = 0
    /\ jar.refresh # NoToken /\ jar.refresh.version = 0
    /\ \A t \in Tab : page[t] # "expired"

Exchanges ==
  /\ \A r \in Request : Sound(r)
  /\ \A t \in Tab : Promised(t)
  /\ \A k \in Call : Served(k)

BInv ==
  /\ ClientTyped /\ LogoutLasts /\ Undisturbed
  /\ Exchanges

-----------------------------------------------------------------------------
\* One exchange at a time.

\* An exchange that does not move stays sound.
LEMMA SoundStays ==
  ASSUME NEW r \in Request, Sound(r), request'[r] = request[r],
         owner'[r] = NoTab => owner[r] = NoTab,
         After(r)' => After(r), Quiet' => Quiet
  PROVE  Sound(r)'
<1> DEFINE same == request'[r] = request[r]
<1>1. same
  OBVIOUS
<1> QED BY <1>1 DEF Sound

\* Idle slots say nothing.
LEMMA SoundIdle ==
  ASSUME NEW r \in Request, request'[r] = Idle
  PROVE  Sound(r)'
BY DEF Sound, Idle

\* A refresh presents the cookie of the moment.
LEMMA RefreshSound ==
  ASSUME BInv, NEW r \in Request, request'[r] = Refresh, owner'[r] # NoTab,
         loggedOut' => loggedOut, Quiet' => Quiet
  PROVE  Sound(r)'
<1>1. /\ Refresh.pc = "sent" /\ Refresh.op = "refresh" /\ Refresh.token = jar.refresh
      /\ Refresh.version = 0
  BY DEF Refresh, Idle
<1>2. loggedOut => jar.refresh = NoToken
  BY DEF BInv, LogoutLasts, EmptyJar
<1>3. Quiet => jar.refresh # NoToken /\ jar.refresh.version = 0
  BY DEF BInv, Undisturbed
<1>4. After(r)' => loggedOut
  BY DEF After
<1> QED BY <1>1, <1>2, <1>3, <1>4 DEF Sound

\* It is a record like the others.
LEMMA RefreshType ==
  ASSUME ClientTyped
  PROVE  Refresh \in RequestRow /\ Idle \in RequestRow
<1>1. jar.refresh \in Token \cup {NoToken} /\ 0 \in 0..MaxVersion
  BY SessionsAssumption DEF ClientTyped, Cookie
<1> QED BY <1>1 DEF Refresh, Idle, RequestRow, Op

\* The promise of a tab holds while its request does.
LEMMA PromiseStays ==
  ASSUME NEW t \in Tab, Promised(t), promise'[t] = promise[t],
         promise[t] # NoRequest =>
           request'[promise[t]] = request[promise[t]] /\ owner'[promise[t]] = owner[promise[t]]
  PROVE  Promised(t)'
BY DEF Promised

\* What a step changes that exchanges nothing with the server.
Local ==
  /\ UNCHANGED <<request, owner, promise, blocked, loggedOut, late>>
  /\ version' \in 0..MaxVersion
  /\ call' \in [Call -> CallRow]
  /\ \A k \in Call : call'[k].pc = "waiting" => call[k].pc = "waiting"
  /\ DOMAIN page' = Tab /\ jar' \in [access : Cookie, refresh : Cookie]
  /\ ended' \in BOOLEAN /\ faults' \in Nat

\* Such a step leaves the exchanges as they were.
LEMMA LocalKeeps ==
  ASSUME BInv, Local, Quiet' => Quiet
  PROVE  ClientTyped' /\ Exchanges'
<1>1. ClientTyped /\ Exchanges
  BY DEF BInv
<1>2. ClientTyped'
  BY <1>1 DEF ClientTyped, Local
<1>3. \A r \in Request : Sound(r)'
  BY <1>1, SoundStays DEF Exchanges, Local, After
<1>4. \A t \in Tab : Promised(t)'
  BY <1>1, PromiseStays DEF Exchanges, Local
<1>5. \A k \in Call : Served(k)'
  BY <1>1 DEF Exchanges, Local, Served
<1> QED BY <1>2, <1>3, <1>4, <1>5 DEF Exchanges

-----------------------------------------------------------------------------
\* Steps of the page and of its surroundings.

\* Calls are sent, answered, and lost.
LEMMA CallsKeep ==
  ASSUME BInv, NEW k \in Call,
         SendCall(k) \/ CallSucceeds(k) \/ RetryRejected(k) \/ CallLost(k)
  PROVE  BInv'
<1>1. ClientTyped /\ Exchanges /\ LogoutLasts /\ Undisturbed
  BY DEF BInv
<1>2. /\ UNCHANGED <<request, owner, promise, blocked, version, page, jar, ended, loggedOut, late>>
      /\ faults' = faults \/ faults' = faults + 1
  BY DEF SendCall, CallSucceeds, RetryRejected, CallLost, NetworkFault, serverVars, row, history
<1>3. \/ call' = [call EXCEPT ![k] = [pc |-> "sent", cookie |-> jar.access]]
      \/ call' = [call EXCEPT ![k] = NoCall]
  BY DEF SendCall, CallSucceeds, RetryRejected, CallLost
<1>4. faults \in Nat /\ faults' \in Nat /\ (faults' = 0 => faults = 0)
  BY <1>1, <1>2 DEF ClientTyped
<1>5. call' \in [Call -> CallRow] /\ \A j \in Call : call'[j].pc = "waiting" => call[j].pc = "waiting"
  BY <1>1, <1>3 DEF ClientTyped, CallRow, NoCall, Cookie
<1>6. Local /\ (Quiet' => Quiet)
  BY <1>1, <1>2, <1>4, <1>5 DEF Local, ClientTyped, Quiet
<1>7. LogoutLasts' /\ Undisturbed'
  BY <1>1, <1>2, <1>6 DEF LogoutLasts, Undisturbed
<1> QED BY <1>6, <1>7, LocalKeeps DEF BInv

\* Logging out, cookies that expire, passwords changed elsewhere.
LEMMA LocalSteps ==
  ASSUME BInv,
         \/ \E t \in Tab : StartLogout(t) \/ LogoutLost(t)
         \/ ChangeElsewhere
         \/ \E t \in Tab : Restore(t)
         \/ ExpireAccess
         \/ UNCHANGED bvars
  PROVE  BInv'
<1>1. ClientTyped /\ Exchanges /\ LogoutLasts /\ Undisturbed /\ MaxVersion \in Nat
      /\ version \in 0..MaxVersion /\ faults \in Nat /\ jar \in [access : Cookie, refresh : Cookie]
  BY SessionsAssumption DEF BInv, ClientTyped
<1>2. CASE (\E t \in Tab : StartLogout(t)) \/ UNCHANGED bvars
  <2>1. UNCHANGED <<request, owner, promise, blocked, version, page, jar, call, ended, loggedOut, faults,
                  late>>
    BY <1>2 DEF StartLogout, bvars, browser, serverVars, row, history
  <2>2. Local /\ (Quiet' => Quiet)
    BY <1>1, <2>1 DEF Local, ClientTyped, Quiet
  <2>3. LogoutLasts' /\ Undisturbed'
    BY <1>1, <2>1, <2>2 DEF LogoutLasts, Undisturbed
  <2> QED BY <2>2, <2>3, LocalKeeps DEF BInv
<1>3. CASE \E t \in Tab : LogoutLost(t)
  <2>1. /\ UNCHANGED <<request, owner, promise, blocked, version, jar, call, ended, loggedOut, late>>
        /\ faults' = faults + 1 /\ DOMAIN page' = DOMAIN page
    BY <1>3 DEF LogoutLost, NetworkFault, serverVars, row
  <2>2. faults' \in Nat /\ faults' # 0
    BY <1>1, <2>1
  <2>3. Local /\ ~Quiet'
    BY <1>1, <2>1, <2>2 DEF Local, ClientTyped, Quiet
  <2>4. LogoutLasts' /\ Undisturbed'
    BY <1>1, <2>1, <2>3 DEF LogoutLasts, Undisturbed
  <2> QED BY <2>3, <2>4, LocalKeeps DEF BInv
<1>4. CASE ChangeElsewhere
  <2>1. /\ UNCHANGED <<request, owner, promise, blocked, page, jar, call, loggedOut, faults, late>>
        /\ version' = version + 1 /\ version < MaxVersion /\ ended' = TRUE
    BY <1>4 DEF ChangeElsewhere, browser
  <2>2. version' \in 0..MaxVersion
    BY <1>1, <2>1
  <2>3. Local /\ ~Quiet'
    BY <1>1, <2>1, <2>2 DEF Local, ClientTyped, Quiet
  <2>4. LogoutLasts' /\ Undisturbed'
    BY <1>1, <2>1, <2>3 DEF LogoutLasts, Undisturbed
  <2> QED BY <2>3, <2>4, LocalKeeps DEF BInv
<1>5. CASE ExpireAccess
  <2>1. /\ UNCHANGED <<request, owner, promise, blocked, version, page, call, ended, loggedOut, faults,
                     late>>
        /\ jar' = [jar EXCEPT !.access = NoToken] /\ jar.access # NoToken
    BY <1>5 DEF ExpireAccess, serverVars, row, history
  <2>2. jar' \in [access : Cookie, refresh : Cookie] /\ jar'.refresh = jar.refresh
    BY <1>1, <2>1 DEF Cookie
  <2>3. Local /\ (Quiet' => Quiet)
    BY <1>1, <2>1, <2>2 DEF Local, ClientTyped, Quiet
  <2>4. LogoutLasts' /\ Undisturbed'
    BY <1>1, <2>1, <2>2, <2>3 DEF LogoutLasts, Undisturbed, EmptyJar
  <2> QED BY <2>3, <2>4, LocalKeeps DEF BInv
<1>6. CASE \E t \in Tab : Restore(t)
  <2>1. PICK t \in Tab : Restore(t)
    BY <1>6
  <2>2. /\ UNCHANGED <<request, owner, promise, blocked, version, jar, call, ended, loggedOut, late>>
        /\ page' = [page EXCEPT ![t] = "in"] \/ page' = [page EXCEPT ![t] = "out"]
        /\ faults' = faults \/ faults' = faults + 1
    BY <2>1 DEF Restore, SetUser, NetworkFault, serverVars, row
  <2>3. faults' \in Nat /\ (faults' = 0 => faults = 0)
    BY <1>1, <2>2
  <2>4. DOMAIN page' = Tab /\ \A s \in Tab : page'[s] = "expired" => page[s] = "expired"
    BY <1>1, <2>2 DEF ClientTyped
  <2>5. Local /\ (Quiet' => Quiet)
    BY <1>1, <2>2, <2>3, <2>4 DEF Local, ClientTyped, Quiet
  <2>6. LogoutLasts' /\ Undisturbed'
    BY <1>1, <2>2, <2>4, <2>5 DEF LogoutLasts, Undisturbed
  <2> QED BY <2>5, <2>6, LocalKeeps DEF BInv
<1> QED BY <1>2, <1>3, <1>4, <1>5, <1>6

\* When the cookies go, whatever is under way is late.
LEMMA LogoutKeeps ==
  ASSUME BInv, NEW t \in Tab, LogoutArrives(t)
  PROVE  BInv'
<1>1. ClientTyped /\ Exchanges
  BY DEF BInv
<1>2. /\ UNCHANGED <<request, owner, promise, blocked, version, call, faults>>
      /\ jar' = EmptyJar /\ ended' = TRUE /\ loggedOut' = TRUE /\ late' = InFlight
      /\ DOMAIN page' = DOMAIN page
  BY DEF LogoutArrives, serverVars, row
<1>3. EmptyJar \in [access : Cookie, refresh : Cookie] /\ loggedOut' \in BOOLEAN /\ ~Quiet'
  BY <1>2 DEF EmptyJar, Cookie, Quiet
<1>4. ClientTyped'
  BY <1>1, <1>2, <1>3 DEF ClientTyped
<1>5. ASSUME NEW r \in Request PROVE Sound(r)'
  <2>1. CASE r \in InFlight
    <3>1. ~After(r)'
      BY <1>2, <2>1 DEF After
    <3> QED BY <1>1, <1>2, <1>3, <3>1, SoundStays DEF Exchanges
  <2>2. CASE r \notin InFlight
    <3>1. owner[r] = NoTab /\ request'[r] = Idle
      BY <1>1, <1>2, <2>2 DEF InFlight, Exchanges, Sound
    <3> QED BY <3>1, SoundIdle
  <2> QED BY <2>1, <2>2
<1>6. \A s \in Tab : Promised(s)'
  BY <1>1, <1>2, PromiseStays DEF Exchanges
<1>7. \A k \in Call : Served(k)'
  BY <1>1, <1>2 DEF Exchanges, Served
<1>8. LogoutLasts' /\ Undisturbed'
  BY <1>2, <1>3 DEF LogoutLasts, Undisturbed
<1> QED BY <1>4, <1>5, <1>6, <1>7, <1>8 DEF BInv, Exchanges

-----------------------------------------------------------------------------
\* Steps that send a request or take its answer.

\* A refresh starts in a free slot, and the tab has its promise.
LEMMA StartKeeps ==
  ASSUME BInv, NEW t \in Tab, NEW r \in Request,
         request[r] = Idle \/ (owner[r] = t /\ request[r].op = "login"),
         request' = [request EXCEPT ![r] = Refresh],
         owner' = [owner EXCEPT ![r] = t], promise' = [promise EXCEPT ![t] = r],
         loggedOut' => loggedOut, Quiet' => Quiet,
         \A d \in Request : d # r /\ After(d)' => After(d)
  PROVE  /\ request' \in [Request -> RequestRow] /\ owner' \in [Request -> Owner]
         /\ promise' \in [Tab -> Request \cup {NoRequest}]
         /\ \A d \in Request : Sound(d)'
         /\ \A s \in Tab : Promised(s)'
         /\ promise'[t] # NoRequest /\ \A s \in Tab : s # t => promise'[s] = promise[s]
<1>1. ClientTyped /\ Exchanges
  BY DEF BInv
<1>2. /\ request' \in [Request -> RequestRow] /\ owner' \in [Request -> Owner]
      /\ promise' \in [Tab -> Request \cup {NoRequest}]
  BY <1>1, RefreshType DEF ClientTyped, Owner
<1>3. /\ request'[r] = Refresh /\ owner'[r] = t /\ promise'[t] = r
      /\ \A d \in Request : d # r => request'[d] = request[d] /\ owner'[d] = owner[d]
      /\ \A s \in Tab : s # t => promise'[s] = promise[s]
  BY <1>1 DEF ClientTyped
<1>4. r # NoRequest /\ t # NoTab
  BY BrowserAssumption
<1>5. ASSUME NEW d \in Request PROVE Sound(d)'
  BY <1>1, <1>3, <1>4, SoundStays, RefreshSound DEF Exchanges
<1>6. ASSUME NEW s \in Tab PROVE Promised(s)'
  <2>1. CASE s = t
    <3>1. Refresh.op = "refresh" /\ Refresh.pc = "sent"
      BY DEF Refresh, Idle
    <3> QED BY <1>3, <2>1, <3>1 DEF Promised
  <2>2. CASE s # t
    <3>1. promise[s] # r
      BY <1>1, <1>4, <2>2 DEF Exchanges, Promised, Idle
    <3>2. promise[s] \in Request \cup {NoRequest}
      BY <1>1 DEF ClientTyped
    <3> QED BY <1>1, <1>3, <2>2, <3>1, <3>2, PromiseStays DEF Exchanges
  <2> QED BY <2>1, <2>2
<1> QED BY <1>2, <1>3, <1>4, <1>5, <1>6

\* A call refused awaits the refresh of its tab.
LEMMA RejectedKeeps ==
  ASSUME BInv, NEW k \in Call, CallRejected(k)
  PROVE  BInv'
<1> DEFINE t == TabOf[k]
<1>1. ClientTyped /\ Exchanges /\ LogoutLasts /\ Undisturbed /\ t \in Tab
      /\ \A j \in Call : TabOf[j] \in Tab
  BY BrowserAssumption DEF BInv
<1>2. /\ UNCHANGED <<version, blocked, jar, page, faults, ended, loggedOut, late>>
      /\ call' = [call EXCEPT ![k] = [pc |-> "waiting", cookie |-> NoToken]]
  BY DEF CallRejected, row, history
<1>3. /\ call' \in [Call -> CallRow]
      /\ \A j \in Call : j # k => call'[j] = call[j]
  BY <1>1, <1>2 DEF ClientTyped, CallRow, Cookie
<1>4. /\ (loggedOut' => loggedOut) /\ (Quiet' => Quiet)
      /\ \A d \in Request : After(d)' => After(d)
  BY <1>2 DEF Quiet, After
<1>5. /\ request' \in [Request -> RequestRow] /\ owner' \in [Request -> Owner]
      /\ promise' \in [Tab -> Request \cup {NoRequest}]
      /\ \A d \in Request : Sound(d)'
      /\ \A s \in Tab : Promised(s)'
      /\ promise'[t] # NoRequest /\ \A s \in Tab : s # t => promise'[s] = promise[s]
  <2>1. CASE promise[t] = NoRequest
    <3>1. PICK r \in Request : StartRefresh(t, r)
      BY <2>1 DEF CallRejected
    <3>2. /\ request[r].pc = "idle" /\ request' = [request EXCEPT ![r] = Refresh]
          /\ owner' = [owner EXCEPT ![r] = t] /\ promise' = [promise EXCEPT ![t] = r]
      BY <3>1 DEF StartRefresh, Send
    <3>3. request[r] = Idle
      BY <1>1, <3>2 DEF Exchanges, Sound
    <3> QED BY <1>1, <1>4, <3>2, <3>3, StartKeeps
  <2>2. CASE promise[t] # NoRequest
    <3>1. UNCHANGED <<request, owner, promise>>
      BY <2>2 DEF CallRejected
    <3> QED BY <1>1, <1>4, <2>2, <3>1, SoundStays, PromiseStays DEF ClientTyped, Exchanges
  <2> QED BY <2>1, <2>2
<1>6. ClientTyped'
  BY <1>1, <1>2, <1>3, <1>5 DEF ClientTyped
<1>7. ASSUME NEW j \in Call PROVE Served(j)'
  BY <1>1, <1>3, <1>5 DEF Exchanges, Served
<1>8. LogoutLasts' /\ Undisturbed'
  BY <1>1, <1>2, <1>4 DEF LogoutLasts, Undisturbed
<1> QED BY <1>5, <1>6, <1>7, <1>8 DEF BInv, Exchanges

\* A slot is freed that no promise is about.
LEMMA CloseKeeps ==
  ASSUME BInv, NEW r \in Request, Close(r),
         \A t \in Tab : promise'[t] # NoRequest => promise'[t] = promise[t] /\ promise[t] # r,
         \A d \in Request : d # r /\ After(d)' => After(d), Quiet' => Quiet
  PROVE  /\ request' \in [Request -> RequestRow] /\ owner' \in [Request -> Owner]
         /\ \A d \in Request : Sound(d)'
         /\ \A s \in Tab : Promised(s)'
<1>1. ClientTyped /\ Exchanges
  BY DEF BInv
<1>2. request' = [request EXCEPT ![r] = Idle] /\ owner' = [owner EXCEPT ![r] = NoTab]
  BY DEF Close
<1>3. request' \in [Request -> RequestRow] /\ owner' \in [Request -> Owner]
  BY <1>1, <1>2, RefreshType DEF ClientTyped, Owner
<1>4. /\ request'[r] = Idle
      /\ \A d \in Request : d # r => request'[d] = request[d] /\ owner'[d] = owner[d]
  BY <1>1, <1>2 DEF ClientTyped
<1>5. ASSUME NEW d \in Request PROVE Sound(d)'
  BY <1>1, <1>4, SoundIdle, SoundStays DEF Exchanges
<1>6. ASSUME NEW s \in Tab PROVE Promised(s)'
  <2>1. CASE promise'[s] = NoRequest
    BY <2>1 DEF Promised
  <2>2. CASE promise'[s] # NoRequest
    <3>1. promise'[s] = promise[s] /\ promise[s] # r /\ promise[s] \in Request
      BY <1>1, <2>2 DEF ClientTyped
    <3> QED BY <1>1, <1>4, <3>1, PromiseStays DEF Exchanges
  <2> QED BY <2>1, <2>2
<1> QED BY <1>3, <1>5, <1>6

\* The answer fills the jar and is every waiting call's.
LEMMA ArrivesKeeps ==
  ASSUME BInv, NEW t \in Tab, RefreshArrives(t)
  PROVE  BInv'
<1> DEFINE r == promise[t]
<1>1. ClientTyped /\ Exchanges /\ LogoutLasts /\ Undisturbed
      /\ \A j \in Call : TabOf[j] \in Tab
  BY BrowserAssumption DEF BInv
<1>2. /\ r # NoRequest /\ request[r].pc = "answered" /\ jar' = Filled(request[r].token)
      /\ call' = [k \in Call |->
           IF k \in Awaiting(t) THEN [pc |-> "retried", cookie |-> request[r].token] ELSE call[k]]
      /\ page' = [page EXCEPT ![t] = "in"] /\ promise' = [promise EXCEPT ![t] = NoRequest]
      /\ Close(r) /\ Stands(r, TRUE) /\ UNCHANGED <<version, blocked, faults, ended>>
  BY DEF RefreshArrives, SetUser, row, history
<1>3. /\ r \in Request /\ request[r] \in RequestRow /\ request[r].op = "refresh" /\ Sound(r)
      /\ request[r].token \in Token /\ request[r].token # NoToken
  BY <1>1, <1>2, NoTokenAssumption DEF ClientTyped, Exchanges, Promised, Sound, RequestRow
<1>4. ~After(r)
  BY <1>2, <1>3 DEF Sound
<1>5. (\A d \in Request : d # r /\ After(d)' => After(d)) /\ (Quiet' => Quiet) /\ loggedOut' = FALSE
  BY <1>2, <1>4 DEF Quiet, Stands, After
<1>6. /\ promise' \in [Tab -> Request \cup {NoRequest}] /\ promise'[t] = NoRequest
      /\ \A s \in Tab : s # t => promise'[s] = promise[s]
  BY <1>1, <1>2 DEF ClientTyped
<1>7. \A s \in Tab : promise'[s] # NoRequest => promise'[s] = promise[s] /\ promise[s] # r
  BY <1>1, <1>2, <1>6 DEF Exchanges, Promised
<1>8. /\ request' \in [Request -> RequestRow] /\ owner' \in [Request -> Owner]
      /\ \A d \in Request : Sound(d)'
      /\ \A s \in Tab : Promised(s)'
  BY <1>2, <1>3, <1>5, <1>7, CloseKeeps
<1>9. /\ jar' \in [access : Cookie, refresh : Cookie] /\ DOMAIN page' = Tab
      /\ jar'.refresh = request[r].token
  BY <1>1, <1>2, <1>3 DEF Filled, Cookie, ClientTyped
<1>10. call' \in [Call -> CallRow]
  <2>1. [pc |-> "retried", cookie |-> request[r].token] \in CallRow
    BY <1>3 DEF CallRow, Cookie
  <2> QED BY <1>1, <1>2, <2>1 DEF ClientTyped
<1>11. ClientTyped'
  BY <1>1, <1>2, <1>5, <1>6, <1>8, <1>9, <1>10 DEF ClientTyped
<1>12. ASSUME NEW k \in Call PROVE Served(k)'
  <2>1. CASE k \in Awaiting(t)
    BY <1>2, <2>1 DEF Served
  <2>2. CASE k \notin Awaiting(t)
    <3>1. call'[k] = call[k] /\ (TabOf[k] = t => call[k].pc # "waiting")
      BY <1>2, <2>2 DEF Awaiting
    <3> QED BY <1>1, <1>6, <3>1 DEF Served, Exchanges
  <2> QED BY <2>1, <2>2
<1>13. LogoutLasts' /\ Undisturbed'
  <2>1. Quiet' => request[r].token.version = 0 /\ version' = 0
                  /\ \A s \in Tab : page'[s] # "expired"
    BY <1>1, <1>2, <1>3, <1>5 DEF Sound, Undisturbed, ClientTyped
  <2> QED BY <1>3, <1>5, <1>9, <2>1 DEF LogoutLasts, Undisturbed
<1> QED BY <1>8, <1>11, <1>12, <1>13 DEF BInv, Exchanges

\* A tab left loses its calls and its requests together; a request that goes on
\* has no tab any more.
LEMMA LeaveKeeps ==
  ASSUME BInv, NEW t \in Tab, NEW where, Leave(t, where),
         UNCHANGED <<ended, loggedOut>>, faults' \in Nat, Quiet' => Quiet,
         Quiet' => where # "expired"
  PROVE  BInv'
<1>1. ClientTyped /\ Exchanges /\ LogoutLasts /\ Undisturbed
      /\ \A j \in Call : TabOf[j] \in Tab
  BY BrowserAssumption DEF BInv
<1>2. /\ page' = [page EXCEPT ![t] = where]
      /\ call' = [k \in Call |-> IF TabOf[k] = t THEN NoCall ELSE call[k]]
      /\ promise' = [promise EXCEPT ![t] = NoRequest]
      /\ UNCHANGED <<version, blocked, jar>>
  BY DEF Leave, row
<1>3. /\ NoCall \in CallRow /\ NoCall.pc # "waiting"
  BY DEF NoCall, CallRow, Cookie
<1>4. PICK aborted \in SUBSET {d \in Request : owner[d] = t} :
        /\ request' = [d \in Request |-> IF d \in aborted THEN Idle ELSE request[d]]
        /\ owner' = [d \in Request |->
             IF d \in aborted THEN NoTab ELSE IF owner[d] = t THEN Gone ELSE owner[d]]
        /\ late' = late \ aborted
  BY DEF Leave
<1>5. Gone # NoTab /\ t # NoTab
  BY BrowserAssumption
<1>6. ClientTyped'
  <2>1. request' \in [Request -> RequestRow] /\ owner' \in [Request -> Owner]
    BY <1>1, <1>4, RefreshType DEF ClientTyped, Owner
  <2> QED BY <1>1, <1>2, <1>3, <2>1 DEF ClientTyped
<1>7. ASSUME NEW d \in Request PROVE Sound(d)'
  <2>1. CASE d \in aborted
    BY <1>4, <2>1, SoundIdle
  <2>2. CASE d \notin aborted
    <3>1. request'[d] = request[d] /\ (owner'[d] = NoTab => owner[d] = NoTab)
      BY <1>4, <1>5, <2>2
    <3>2. After(d)' => After(d)
      BY <1>4, <2>2 DEF After
    <3> QED BY <1>1, <3>1, <3>2, SoundStays DEF Exchanges
  <2> QED BY <2>1, <2>2
<1>8. ASSUME NEW s \in Tab PROVE Promised(s)'
  <2>1. CASE s = t
    BY <1>1, <1>2, <2>1 DEF Promised, ClientTyped
  <2>2. CASE s # t
    <3>1. promise'[s] = promise[s] /\ promise[s] \in Request \cup {NoRequest}
      BY <1>1, <1>2, <2>2 DEF ClientTyped
    <3>2. promise[s] # NoRequest => owner[promise[s]] = s
      BY <1>1 DEF Exchanges, Promised
    <3>3. promise[s] # NoRequest =>
            request'[promise[s]] = request[promise[s]] /\ owner'[promise[s]] = owner[promise[s]]
      BY <1>4, <2>2, <3>1, <3>2
    <3> QED BY <1>1, <3>1, <3>3, PromiseStays DEF Exchanges
  <2> QED BY <2>1, <2>2
<1>9. ASSUME NEW k \in Call PROVE Served(k)'
  <2>1. CASE TabOf[k] = t
    BY <1>2, <1>3, <2>1 DEF Served
  <2>2. CASE TabOf[k] # t
    BY <1>1, <1>2, <2>2 DEF Served, Exchanges, ClientTyped
  <2> QED BY <2>1, <2>2
<1>10. LogoutLasts' /\ Undisturbed'
  BY <1>1, <1>2 DEF LogoutLasts, Undisturbed, ClientTyped
<1> QED BY <1>6, <1>7, <1>8, <1>9, <1>10 DEF BInv, Exchanges

\* A tab is sent to /login by a refused refresh only when something ended the
\* session, by a lost one only when the network failed.
LEMMA LeavingKeeps ==
  ASSUME BInv, NEW t \in Tab, RefreshRefused(t) \/ RefreshOrRetryLost(t) \/ Reload(t)
  PROVE  BInv'
<1>1. faults \in Nat /\ ClientTyped /\ Exchanges
  BY DEF BInv, ClientTyped
<1>2. CASE RefreshRefused(t)
  <2>1. Leave(t, "expired") /\ UNCHANGED <<faults, ended, loggedOut>>
    BY <1>2 DEF RefreshRefused, Redirect
  <2>2. ~Quiet
    <3>1. /\ promise[t] \in Request /\ request[promise[t]].op = "refresh"
          /\ request[promise[t]].pc = "refused"
      BY <1>1, <1>2 DEF RefreshRefused, ClientTyped, Exchanges, Promised
    <3> QED BY <1>1, <3>1 DEF Exchanges, Sound
  <2>3. ~Quiet'
    BY <2>1, <2>2 DEF Quiet
  <2> QED BY <1>1, <2>1, <2>3, LeaveKeeps
<1>3. CASE RefreshOrRetryLost(t)
  <2>1. Leave(t, "expired") /\ UNCHANGED <<ended, loggedOut>> /\ faults' = faults + 1
    BY <1>3 DEF RefreshOrRetryLost, Redirect, NetworkFault
  <2>2. faults' \in Nat /\ faults' # 0
    BY <1>1, <2>1
  <2>3. ~Quiet'
    BY <2>2 DEF Quiet
  <2> QED BY <2>1, <2>2, <2>3, LeaveKeeps
<1>4. CASE Reload(t)
  <2>1. /\ Leave(t, IF Admitted THEN "restoring" ELSE "out")
        /\ UNCHANGED <<faults, ended, loggedOut>>
    BY <1>4 DEF Reload
  <2>2. (IF Admitted THEN "restoring" ELSE "out") # "expired"
    OBVIOUS
  <2>3. Quiet' => Quiet
    BY <2>1 DEF Quiet
  <2> QED BY <1>1, <2>1, <2>2, <2>3, LeaveKeeps
<1> QED BY <1>2, <1>3, <1>4

\* A login is sent, from a slot no promise is about.
LEMMA SignInKeeps ==
  ASSUME BInv, NEW t \in Tab, NEW r \in Request, SignIn(t, r)
  PROVE  BInv'
<1>1. ClientTyped /\ Exchanges /\ LogoutLasts /\ Undisturbed
  BY DEF BInv
<1>2. /\ owner' = [owner EXCEPT ![r] = t] /\ request[r].pc = "idle"
      /\ UNCHANGED <<version, blocked, jar, page, promise, call, faults, ended, loggedOut, late>>
  BY DEF SignIn, Send, row, history
<1>3. PICK p \in Password : request' = [request EXCEPT ![r] = [Idle EXCEPT !.pc = "sent", !.password = p]]
  BY DEF SignIn, Send
<1> DEFINE q == [Idle EXCEPT !.pc = "sent", !.password = p]
<1>4. /\ q \in RequestRow /\ q.pc = "sent" /\ q.op = "login" /\ q.version = 0
  BY <1>1, RefreshType DEF Idle, RequestRow
<1>5. request' = [request EXCEPT ![r] = q]
  BY <1>3
<1> HIDE DEF q
<1>6. /\ request' \in [Request -> RequestRow] /\ owner' \in [Request -> Owner]
      /\ request'[r] = q /\ owner'[r] = t
      /\ \A d \in Request : d # r => request'[d] = request[d] /\ owner'[d] = owner[d]
  BY <1>1, <1>2, <1>4, <1>5 DEF ClientTyped, Owner
<1>7. Quiet' => Quiet
  BY <1>2 DEF Quiet
<1>8. ASSUME NEW d \in Request PROVE Sound(d)'
  <2>1. CASE d = r
    <3>1. t # NoTab
      BY BrowserAssumption
    <3> QED BY <1>4, <1>6, <2>1, <3>1 DEF Sound
  <2>2. CASE d # r
    BY <1>1, <1>2, <1>6, <1>7, <2>2, SoundStays DEF Exchanges, After
  <2> QED BY <2>1, <2>2
<1>9. ASSUME NEW s \in Tab PROVE Promised(s)'
  <2>1. promise[s] # r /\ promise[s] \in Request \cup {NoRequest}
    BY <1>1, <1>2, BrowserAssumption DEF Exchanges, Promised, ClientTyped
  <2> QED BY <1>1, <1>2, <1>6, <2>1, PromiseStays DEF Exchanges
<1>10. \A k \in Call : Served(k)'
  BY <1>1, <1>2 DEF Exchanges, Served
<1>11. ClientTyped' /\ LogoutLasts' /\ Undisturbed'
  BY <1>1, <1>2, <1>6, <1>7 DEF ClientTyped, LogoutLasts, Undisturbed
<1> QED BY <1>8, <1>9, <1>10, <1>11 DEF BInv, Exchanges

\* Its answer fills the jar and ends the logout.
LEMMA AcceptedKeeps ==
  ASSUME BInv, NEW t \in Tab, NEW r \in Request, SignInAccepted(t, r)
  PROVE  BInv'
<1>1. ClientTyped /\ Exchanges /\ LogoutLasts /\ Undisturbed
  BY DEF BInv
<1>2. /\ request[r].pc = "answered" /\ request[r].op = "login" /\ owner[r] = t
      /\ jar' = Filled(request[r].token) /\ page' = [page EXCEPT ![t] = "in"]
      /\ loggedOut' = FALSE /\ Close(r)
      /\ UNCHANGED <<version, blocked, promise, call, faults, ended>>
  BY DEF SignInAccepted, Stands, Pending, SetUser, row
<1>3. /\ request[r] \in RequestRow /\ Sound(r) /\ request[r].token \in Token
      /\ request[r].token # NoToken
  BY <1>1, <1>2, NoTokenAssumption DEF ClientTyped, Exchanges, Sound, RequestRow
<1>4. (\A d \in Request : ~After(d)') /\ (Quiet' => Quiet) /\ ~loggedOut' /\ loggedOut' \in BOOLEAN
  BY <1>2 DEF Quiet, After
<1>5. \A s \in Tab : promise'[s] # NoRequest => promise'[s] = promise[s] /\ promise[s] # r
  BY <1>1, <1>2 DEF Exchanges, Promised
<1>6. /\ request' \in [Request -> RequestRow] /\ owner' \in [Request -> Owner]
      /\ \A d \in Request : Sound(d)'
      /\ \A s \in Tab : Promised(s)'
  BY <1>2, <1>4, <1>5, CloseKeeps
<1>7. /\ jar' \in [access : Cookie, refresh : Cookie] /\ DOMAIN page' = Tab
      /\ jar'.refresh = request[r].token
  BY <1>1, <1>2, <1>3 DEF Filled, Cookie, ClientTyped
<1>8. ClientTyped'
  BY <1>1, <1>2, <1>4, <1>6, <1>7 DEF ClientTyped
<1>9. \A k \in Call : Served(k)'
  BY <1>1, <1>2 DEF Exchanges, Served
<1>10. LogoutLasts' /\ Undisturbed'
  <2>1. Quiet' => request[r].token.version = 0 /\ version' = 0
                  /\ \A s \in Tab : page'[s] # "expired"
    BY <1>1, <1>2, <1>3, <1>4 DEF Sound, Undisturbed, ClientTyped
  <2> QED BY <1>3, <1>4, <1>7, <2>1 DEF LogoutLasts, Undisturbed
<1> QED BY <1>6, <1>8, <1>9, <1>10 DEF BInv, Exchanges

\* The answer of a page that is gone fills the jar, and ends the logout if it came
\* late or to a login, or does nothing.
LEMMA LateKeeps ==
  ASSUME BInv, NEW r \in Request, LateAnswer(r)
  PROVE  BInv'
<1>1. ClientTyped /\ Exchanges /\ LogoutLasts /\ Undisturbed
  BY DEF BInv
<1>2. /\ owner[r] = Gone /\ Close(r)
      /\ UNCHANGED <<version, blocked, page, promise, call, faults, ended>>
  BY DEF LateAnswer, row
<1>3. /\ request[r] \in RequestRow /\ Sound(r)
  BY <1>1 DEF ClientTyped, Exchanges
<1>4. /\ \A d \in Request : d # r /\ After(d)' => After(d)
      /\ loggedOut' \in BOOLEAN /\ (Quiet' => Quiet)
  <2>1. Quiet' => Quiet
    BY <1>2 DEF Quiet
  <2>2. CASE \E still \in BOOLEAN : Stands(r, still)
    <3>1. loggedOut' \in BOOLEAN /\ (loggedOut' => loggedOut)
      BY <1>1, <2>2 DEF Stands, ClientTyped
    <3>2. loggedOut' => late' = late
      BY <2>2 DEF Stands
    <3> QED BY <2>1, <3>1, <3>2 DEF After
  <2>3. CASE loggedOut' = loggedOut /\ late' = late \ {r}
    BY <1>1, <2>1, <2>3 DEF After, ClientTyped
  <2>4. (request[r].op = "refresh") \in BOOLEAN
    OBVIOUS
  <2> QED BY <2>2, <2>3, <2>4 DEF LateAnswer
<1>5. \A s \in Tab : promise'[s] # NoRequest => promise'[s] = promise[s] /\ promise[s] # r
  BY <1>1, <1>2, BrowserAssumption DEF Exchanges, Promised
<1>6. /\ request' \in [Request -> RequestRow] /\ owner' \in [Request -> Owner]
      /\ \A d \in Request : Sound(d)'
      /\ \A s \in Tab : Promised(s)'
  BY <1>4, <1>5, <1>2, CloseKeeps
<1>7. \A k \in Call : Served(k)'
  BY <1>1, <1>2 DEF Exchanges, Served
<1>8. jar' \in [access : Cookie, refresh : Cookie] /\ LogoutLasts' /\ Undisturbed'
  <2>1. CASE request[r].pc = "answered"
    <3>1. jar' = Filled(request[r].token) /\ Stands(r, request[r].op = "refresh")
      BY <2>1 DEF LateAnswer
    <3>2. request[r].token \in Token /\ request[r].token # NoToken
      BY <1>3, <2>1, NoTokenAssumption DEF Sound, RequestRow
    <3>3. ~loggedOut'
      BY <1>3, <2>1, <3>1 DEF Stands, Sound, After
    <3>4. jar' \in [access : Cookie, refresh : Cookie] /\ jar'.refresh = request[r].token
      BY <3>1, <3>2 DEF Filled, Cookie
    <3>5. Quiet' => request[r].token.version = 0 /\ version' = 0
                    /\ \A s \in Tab : page'[s] # "expired"
      BY <1>1, <1>2, <1>3, <1>4, <2>1 DEF Sound, Undisturbed
    <3> QED BY <3>2, <3>3, <3>4, <3>5 DEF LogoutLasts, Undisturbed
  <2>2. CASE request[r].pc # "answered"
    <3>1. UNCHANGED <<jar, loggedOut>>
      BY <2>2 DEF LateAnswer
    <3> QED BY <1>1, <1>2, <1>4, <3>1 DEF LogoutLasts, Undisturbed, ClientTyped
  <2> QED BY <2>1, <2>2
<1>9. ClientTyped'
  BY <1>1, <1>2, <1>4, <1>6, <1>8 DEF ClientTyped
<1> QED BY <1>6, <1>7, <1>8, <1>9 DEF BInv, Exchanges

\* A login refused becomes a refresh, or ends.
LEMMA RefusedKeeps ==
  ASSUME BInv, NEW t \in Tab, NEW r \in Request, SignInRefused(t, r)
  PROVE  BInv'
<1>1. ClientTyped /\ Exchanges /\ LogoutLasts /\ Undisturbed
      /\ \A j \in Call : TabOf[j] \in Tab
  BY BrowserAssumption DEF BInv
<1>2. /\ request[r].pc = "refused" /\ request[r].op = "login" /\ owner[r] = t
      /\ late' = late \ {r}
      /\ UNCHANGED <<version, blocked, jar, page, call, faults, ended, loggedOut>>
  BY DEF SignInRefused, Pending, row
<1>3. /\ (loggedOut' => loggedOut) /\ (Quiet' => Quiet)
      /\ \A d \in Request : d # r /\ After(d)' => After(d)
  BY <1>2 DEF Quiet, After
<1>4. /\ request' \in [Request -> RequestRow] /\ owner' \in [Request -> Owner]
      /\ promise' \in [Tab -> Request \cup {NoRequest}]
      /\ \A d \in Request : Sound(d)'
      /\ \A s \in Tab : Promised(s)' /\ (promise[s] # NoRequest => promise'[s] # NoRequest)
  <2>1. CASE promise[t] = NoRequest
    <3>1. request' = [request EXCEPT ![r] = Refresh] /\ promise' = [promise EXCEPT ![t] = r]
          /\ owner' = owner
      BY <2>1 DEF SignInRefused
    <3>2. owner' = [owner EXCEPT ![r] = t]
      BY <1>1, <1>2, <3>1 DEF ClientTyped
    <3> QED BY <1>2, <1>3, <2>1, <3>1, <3>2, StartKeeps
  <2>2. CASE promise[t] # NoRequest
    <3>1. Close(r) /\ promise' = promise
      BY <2>2 DEF SignInRefused
    <3>2. \A s \in Tab : promise'[s] # NoRequest => promise'[s] = promise[s] /\ promise[s] # r
      BY <1>1, <1>2, <3>1 DEF Exchanges, Promised
    <3> QED BY <1>1, <1>3, <3>1, <3>2, CloseKeeps DEF ClientTyped
  <2> QED BY <2>1, <2>2
<1>5. \A k \in Call : Served(k)'
  BY <1>1, <1>2, <1>4 DEF Exchanges, Served
<1>6. ClientTyped' /\ LogoutLasts' /\ Undisturbed'
  BY <1>1, <1>2, <1>3, <1>4 DEF ClientTyped, LogoutLasts, Undisturbed
<1> QED BY <1>4, <1>5, <1>6 DEF BInv, Exchanges

-----------------------------------------------------------------------------
\* The server.

\* It answers what it was sent, from the row it read.
LEMMA ServeKeeps ==
  ASSUME BInv, NEW r \in Request, Serve(r)
  PROVE  BInv'
<1>1. ClientTyped /\ Exchanges /\ LogoutLasts /\ Undisturbed
  BY DEF BInv
<1>2. /\ UNCHANGED <<jar, page, promise, call, leaving, owner, faults, ended, loggedOut, late>>
      /\ Handle(r)
  BY DEF Serve, browser, history
<1>3. /\ Sound(r) /\ request[r] \in RequestRow /\ request[r].op \in {"login", "refresh"}
      /\ request[r].pc \notin {"guarded", "write"}
  BY <1>1 DEF Exchanges, Sound, ClientTyped
<1>4. Read(r) \/ Mint(r)
  BY <1>2, <1>3 DEF Handle, Guard, WriteChange, WriteReset, WriteForgot
<1>5. version' = version /\ blocked' = blocked /\ blocked = FALSE /\ version \in 0..MaxVersion
      /\ 0 \in 0..MaxVersion
  BY <1>1, <1>4, SessionsAssumption DEF Read, Mint, row, ClientTyped
<1>6. /\ (loggedOut' => loggedOut) /\ (Quiet' => Quiet) /\ (Quiet => version = 0)
      /\ \A d \in Request : After(d)' => After(d)
  BY <1>1, <1>2 DEF Quiet, Undisturbed, After
<1>7. /\ request' = [request EXCEPT ![r] = request'[r]]
      /\ request'[r] \in RequestRow /\ request'[r].op = request[r].op
      /\ request[r].pc # "idle" /\ request'[r].pc # "idle" /\ Sound(r)'
  <2>1. CASE Read(r)
    <3> DEFINE pc == IF Accepted(request[r]) THEN "mint" ELSE "refused"
               q == [request[r] EXCEPT !.pc = pc, !.version = version]
    <3>1. request[r].pc = "sent" /\ request' = [request EXCEPT ![r] = q]
      BY <1>3, <2>1 DEF Read
    <3>2. /\ q \in RequestRow /\ q.op = request[r].op /\ q.pc = pc /\ q.version = version
          /\ q.token = request[r].token
      BY <1>3, <1>5 DEF RequestRow
    <3>3. request'[r] = q /\ request' = [request EXCEPT ![r] = request'[r]]
      BY <1>1, <3>1 DEF ClientTyped
    <3>4. request[r].op = "refresh" =>
            (Accepted(request[r]) <=> request[r].token # NoToken /\ request[r].token.version = version)
      BY <1>5 DEF Accepted, Valid
    <3> HIDE DEF q
    <3>5. owner[r] # NoTab
      BY <1>3, <3>1 DEF Sound, Idle
    <3>6. Sound(r)'
      BY <1>2, <1>3, <1>5, <1>6, <3>1, <3>2, <3>3, <3>4, <3>5 DEF Sound
    <3> QED BY <3>1, <3>2, <3>3, <3>6
  <2>2. CASE Mint(r)
    <3> DEFINE m == Minted(request[r], request[r].version)
               q == [request[r] EXCEPT !.pc = "answered", !.token = m]
    <3>1. request[r].pc = "mint" /\ request' = [request EXCEPT ![r] = q]
      BY <2>2 DEF Mint
    <3>2. m \in Token /\ m.version = request[r].version
      <4>1. request[r].op = "refresh" => request[r].token \in Token
        BY <1>3, <3>1 DEF Sound, RequestRow
      <4>2. /\ request[r].version \in 0..MaxVersion
            /\ request[r].password \in Password \cup {ByGoogle}
        BY <1>3 DEF RequestRow
      <4> QED BY <4>1, <4>2 DEF Minted, Token
    <3>3. m # NoToken
      BY <3>2, NoTokenAssumption
    <3> HIDE DEF m
    <3>4. /\ q \in RequestRow /\ q.op = request[r].op /\ q.pc = "answered"
          /\ q.version = request[r].version /\ q.token = m
      BY <1>3, <3>2 DEF RequestRow
    <3>5. request'[r] = q /\ request' = [request EXCEPT ![r] = request'[r]]
      BY <1>1, <3>1 DEF ClientTyped
    <3> HIDE DEF q
    <3>6. owner[r] # NoTab
      BY <1>3, <3>1 DEF Sound, Idle
    <3>7. Sound(r)'
      BY <1>2, <1>3, <1>6, <3>1, <3>2, <3>3, <3>4, <3>5, <3>6 DEF Sound
    <3> QED BY <3>1, <3>4, <3>5, <3>7
  <2> QED BY <1>4, <2>1, <2>2
<1>8. \A d \in Request : d # r => request'[d] = request[d]
  BY <1>1, <1>7 DEF ClientTyped
<1>9. request' \in [Request -> RequestRow]
  BY <1>1, <1>7 DEF ClientTyped
<1>10. \A d \in Request : Sound(d)'
  BY <1>1, <1>2, <1>6, <1>7, <1>8, SoundStays DEF Exchanges
<1>11. ASSUME NEW s \in Tab PROVE Promised(s)'
  <2>1. promise[s] \in Request \cup {NoRequest}
    BY <1>1 DEF ClientTyped
  <2> QED BY <1>1, <1>2, <1>7, <1>8, <2>1 DEF Exchanges, Promised
<1>12. \A k \in Call : Served(k)'
  BY <1>1, <1>2 DEF Exchanges, Served
<1>13. ClientTyped' /\ LogoutLasts' /\ Undisturbed'
  BY <1>1, <1>2, <1>5, <1>6, <1>9 DEF ClientTyped, LogoutLasts, Undisturbed
<1> QED BY <1>10, <1>11, <1>12, <1>13 DEF BInv, Exchanges

-----------------------------------------------------------------------------
\* The theorems.

\* The invariant holds at the start,
LEMMA BrowserInitially == BrowserInit => BInv
<1> SUFFICES ASSUME BrowserInit PROVE BInv
  OBVIOUS
<1>1. FirstToken \in Token /\ FirstToken # NoToken /\ FirstToken.version = 0
  <2>1. 0 \in 0..MaxVersion /\ password \in Password
    BY SessionsAssumption DEF BrowserInit
  <2>2. FirstToken \in Token /\ FirstToken.version = 0
    BY <2>1 DEF FirstToken, Token
  <2> QED BY <2>2, NoTokenAssumption
<1>2. /\ Filled(FirstToken) \in [access : Cookie, refresh : Cookie]
      /\ Filled(FirstToken).refresh = FirstToken
  BY <1>1 DEF Filled, Cookie
<1>3. Idle \in RequestRow /\ NoCall \in CallRow /\ 0 \in 0..MaxVersion
  BY SessionsAssumption DEF Idle, RequestRow, Op, NoCall, CallRow, Cookie
<1>4. ClientTyped
  BY <1>2, <1>3 DEF BrowserInit, ClientTyped, Owner
<1>5. LogoutLasts /\ Undisturbed
  BY <1>1, <1>2 DEF BrowserInit, LogoutLasts, Undisturbed
<1>6. Exchanges
  <2>1. \A r \in Request : Sound(r)
    BY DEF BrowserInit, Sound, Idle
  <2>2. (\A t \in Tab : Promised(t)) /\ \A k \in Call : Served(k)
    BY DEF BrowserInit, Promised, Served, NoCall
  <2> QED BY <2>1, <2>2 DEF Exchanges
<1> QED BY <1>4, <1>5, <1>6 DEF BInv

\* is kept by every step,
LEMMA BrowserInductive == BInv /\ [BrowserNext]_bvars => BInv'
BY CallsKeep, LocalSteps, LogoutKeeps, RejectedKeeps, ArrivesKeeps, LeavingKeeps, SignInKeeps,
   AcceptedKeeps, RefusedKeeps, LateKeeps, ServeKeeps
DEF BrowserNext, RefreshEnds, CallStep

\* and so holds throughout.
LEMMA BrowserInvariance == BrowserSpec => []BInv
BY BrowserInitially, BrowserInductive, PTL DEF BrowserSpec

\* Tabs that refresh together, over one jar, do not send each other to /login: only
\* a logout, a change of password or the network does.
THEOREM NoTabExpiresAnother == BrowserSpec => []NoFalseExpiry
<1>1. BInv => NoFalseExpiry
  <2> SUFFICES ASSUME BInv PROVE NoFalseExpiry
    OBVIOUS
  <2>1. faults \in Nat /\ Undisturbed
    BY DEF BInv, ClientTyped
  <2>2. faults = 0 \/ faults > 0
    BY <2>1
  <2> QED BY <2>1, <2>2 DEF Undisturbed, Quiet, NoFalseExpiry
<1> QED BY <1>1, BrowserInvariance, PTL

\* After a logout no cookie comes back before somebody signs in, but by the answer
\* to a request that was in flight at the logout.
THEOREM LogoutIsFinal == BrowserSpec => []LogoutLasts
<1>1. BInv => LogoutLasts
  BY DEF BInv
<1> QED BY <1>1, BrowserInvariance, PTL

\* A call that waits has a refresh of its own tab to wait for.
THEOREM NoCallForgotten == BrowserSpec => []WaitingIsServed
<1>1. BInv => WaitingIsServed
  <2> SUFFICES ASSUME BInv, NEW k \in Call, call[k].pc = "waiting"
               PROVE  /\ promise[TabOf[k]] # NoRequest
                      /\ owner[promise[TabOf[k]]] = TabOf[k]
                      /\ request[promise[TabOf[k]]].op = "refresh"
                      /\ request[promise[TabOf[k]]].pc # "idle"
    BY DEF WaitingIsServed
  <2>1. TabOf[k] \in Tab
    BY BrowserAssumption
  <2>2. Exchanges
    BY DEF BInv
  <2>3. promise[TabOf[k]] # NoRequest
    BY <2>2 DEF Exchanges, Served
  <2> QED BY <2>1, <2>2, <2>3 DEF Exchanges, Promised
<1> QED BY <1>1, BrowserInvariance, PTL
=============================================================================
