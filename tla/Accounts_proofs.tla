--------------------------- MODULE Accounts_proofs ---------------------------
(***************************************************************************)
(* Theorems about Accounts, for any addresses, numbers and devices and any *)
(* number of requests: types, one account for each identity, addresses     *)
(* verified by their holders only and before any session, shared devices   *)
(* noticed.                                                                *)
(***************************************************************************)
EXTENDS Accounts, TLAPS

\* Rows hold what their columns allow, and refer to rows there are.
RowsTyped ==
  /\ users \in Seq(User) /\ Len(users) <= MaxUsers
  /\ \A u \in Existing : users[u].referrer < u
  /\ links \in 0..MaxLinks
  /\ devices \subseteq Existing \X Device /\ checked \subseteq devices
  /\ noticed \subseteq Existing /\ sessions \subseteq Existing
  /\ inbox \subseteq [to : Address, link : 1..MaxLinks]
  /\ holders \subseteq Address

\* A link, once drawn, is only ever in the row of the address it is mailed to.
LinksOwned ==
  /\ \A u \in Existing : users[u].link <= links
  /\ \A m \in inbox :
       /\ m.link <= links
       /\ \A u \in Existing : users[u].link = m.link => users[u].email = m.to

\* What a request was given,
Given(q) ==
  /\ q.code <= Len(users)
  /\ q.op \in {"register", "login"} /\ q.pc # "idle" => q.device \in Device
  /\ q.op \in {"google", "resend", "verify"} => q.email \in Address
  /\ q.op \in {"google", "verify"} => q.email \in holders
  /\ q.op = "verify" => [to |-> q.email, link |-> q.link] \in inbox
  /\ q.op = "profile" => q.phone \in Number /\ q.user \in sessions

\* and what it knows of the row it is about from where it got to.  Rows never lose
\* their address nor its verification, so that it stays true while others act.
Reached(q) ==
  /\ q.pc \in {"upsert", "match", "link", "mail", "mint", "write"} => q.user \in Existing
  /\ q.pc \in {"upsert", "match"} => q.op \in {"register", "login"}
  /\ q.pc = "write" => q.op \in {"google", "verify", "profile"}
  /\ q.pc \in {"link", "mail"} => q.email \in Address /\ q.op \in {"register", "resend"}
  /\ \/ q.pc \in {"link", "mail"}
     \/ q.pc \in {"upsert", "match"} /\ q.op = "register"
     \/ q.pc = "write" /\ q.op \in {"google", "verify"}
     => users[q.user].email = q.email
  /\ q.pc = "mint" => (users[q.user].email # None => users[q.user].verified)
  /\ q.pc = "match" => <<q.user, q.device>> \in devices
  /\ q.pc = "mail" =>
       /\ q.link \in 1..links
       /\ \A u \in Existing : users[u].link = q.link => users[u].email = q.email

Requests ==
  /\ request \in [Request -> RequestRow]
  /\ \A r \in Request : Given(request[r]) /\ Reached(request[r])

IInv ==
  /\ RowsTyped /\ LinksOwned /\ Requests
  /\ OneAccountEach /\ VerifiedByHolder /\ SessionsVerified /\ SharedDeviceNoticed

\* Every step only adds: rows, verifications, mails.  A link appears in a row when
\* it is drawn, and never again.
Grows ==
  /\ Existing \subseteq Existing' /\ Len(users) <= Len(users')
  /\ \A u \in Existing :
       /\ users'[u].email = users[u].email
       /\ users[u].verified => users'[u].verified
  /\ \A u \in Existing' :
       \/ u \in Existing /\ users'[u].link = users[u].link
       \/ users'[u].link = NoLink
       \/ links < users'[u].link
  /\ links <= links' /\ holders \subseteq holders' /\ inbox \subseteq inbox'
  /\ devices \subseteq devices' /\ sessions \subseteq sessions'

PC == {"idle", "email", "phone", "create", "upsert", "match",
       "link", "mail", "find", "mint", "write"}

-----------------------------------------------------------------------------
\* Sequences of rows.

\* A row of the table.
LEMMA Rows ==
  ASSUME RowsTyped
  PROVE  /\ Len(users) \in Nat /\ Existing = 1..Len(users)
         /\ \A u \in Existing : users[u] \in User /\ u \in Int
         /\ Existing \subseteq 1..MaxUsers
<1>1. Len(users) \in Nat /\ Existing = 1..Len(users)
  BY DEF RowsTyped, Existing
<1>2. \A u \in 1..Len(users) : users[u] \in User
  BY DEF RowsTyped
<1>3. MaxUsers \in Nat /\ Len(users) <= MaxUsers
  BY AccountsAssumption DEF RowsTyped
<1> QED BY <1>1, <1>2, <1>3

\* One row is updated.
LEMMA RowUpdate ==
  ASSUME RowsTyped, NEW u \in Existing, NEW row \in User, users' = [users EXCEPT ![u] = row]
  PROVE  /\ users' \in Seq(User) /\ Len(users') = Len(users) /\ Existing' = Existing
         /\ users'[u] = row
         /\ \A v \in Existing : v # u => users'[v] = users[v]
BY DEF RowsTyped, Existing

\* One is added.
LEMMA RowAdded ==
  ASSUME RowsTyped, NEW row \in User, users' = Append(users, row)
  PROVE  /\ users' \in Seq(User) /\ Len(users') = Len(users) + 1
         /\ Existing' = Existing \cup {Len(users) + 1}
         /\ Len(users) + 1 \notin Existing
         /\ users'[Len(users) + 1] = row
         /\ \A v \in Existing : users'[v] = users[v]
<1>1. /\ users' \in Seq(User) /\ Len(users') = Len(users) + 1
      /\ users'[Len(users) + 1] = row
      /\ \A v \in 1..Len(users) : users'[v] = users[v]
  BY DEF RowsTyped
<1>2. Existing = 1..Len(users) /\ Len(users) \in Nat
  BY Rows
<1>3. Existing' = 1..(Len(users) + 1)
  BY <1>1 DEF Existing
<1>4. \A n \in Nat : 1..(n + 1) = (1..n) \cup {n + 1} /\ n + 1 \notin 1..n
  OBVIOUS
<1> QED BY <1>1, <1>2, <1>3, <1>4

-----------------------------------------------------------------------------
\* What requests know stays true.

\* Of another request,
LEMMA KnowsStill ==
  ASSUME RowsTyped, RowsTyped', Grows, Requests, NEW r \in Request, request'[r] = request[r]
  PROVE  Given(request[r])' /\ Reached(request[r])'
<1> DEFINE q == request[r]
<1>1. q \in RequestRow /\ Given(q) /\ Reached(q)
  BY DEF Requests
<1>2. /\ q.code \in Int /\ q.link \in Int /\ q.user \in Int
      /\ Len(users) \in Int /\ Len(users') \in Int /\ links \in Int /\ links' \in Int
  BY <1>1, AccountsAssumption DEF RequestRow, RowsTyped
<1>3. Given(request[r])'
  BY <1>1, <1>2 DEF Given, Grows
<1>4. ASSUME q.pc = "mail"
      PROVE  /\ q.link \in 1..links'
             /\ \A u \in Existing' : users'[u].link = q.link => users'[u].email = q.email
  <2>1. q.link \in 1..links
        /\ \A u \in Existing : users[u].link = q.link => users[u].email = q.email
    BY <1>1, <1>4 DEF Reached
  <2>2. q.link \in 1..links' /\ q.link # NoLink /\ ~(links < q.link)
    BY <1>2, <2>1 DEF Grows, NoLink
  <2>3. ASSUME NEW u \in Existing', users'[u].link = q.link
        PROVE  users'[u].email = q.email
    <3>1. u \in Existing /\ users'[u].link = users[u].link
      BY <2>2, <2>3 DEF Grows
    <3> QED BY <2>1, <2>3, <3>1 DEF Grows
  <2> QED BY <2>2, <2>3
<1>5. Reached(request[r])'
  BY <1>1, <1>4 DEF Reached, Grows
<1> QED BY <1>3, <1>5

\* and of the one that moves, what it was given.
LEMMA GivenStill ==
  ASSUME RowsTyped, RowsTyped', Grows, Requests, NEW r \in Request,
         request[r].pc # "idle",
         request'[r].op = request[r].op, request'[r].email = request[r].email,
         request'[r].phone = request[r].phone, request'[r].device = request[r].device,
         request'[r].code \in {request[r].code, NoUser},
         request[r].op = "verify" => request'[r].link = request[r].link,
         request[r].op = "profile" => request'[r].user = request[r].user
  PROVE  Given(request[r])'
<1>1. request[r] \in RequestRow /\ Given(request[r])
  BY DEF Requests
<1>2. /\ request[r].code \in Int /\ Len(users) \in Nat /\ Len(users') \in Nat
      /\ Len(users) <= Len(users')
  BY <1>1, AccountsAssumption DEF RequestRow, RowsTyped, Grows
<1>3. request'[r].code <= Len(users')
  BY <1>1, <1>2 DEF Given, NoUser
<1> QED BY <1>1, <1>3 DEF Given, Grows

\* A request that is over knows nothing.
LEMMA IdleKnows ==
  ASSUME RowsTyped', NEW r, request'[r] = Idle
  PROVE  Given(request[r])' /\ Reached(request[r])' /\ Idle \in RequestRow
<1>1. Len(users') \in Nat /\ MaxUsers \in Nat /\ MaxLinks \in Nat
  BY AccountsAssumption DEF RowsTyped
<1>2. Idle.pc = "idle" /\ Idle.op = "register" /\ Idle.code = 0
  BY DEF Idle, NoUser
<1>3. Idle \in RequestRow
  BY <1>1 DEF Idle, RequestRow, NoUser, NoLink
<1>4. Given(request[r])'
  BY <1>1, <1>2 DEF Given
<1>5. Reached(request[r])'
  BY <1>2 DEF Reached
<1> QED BY <1>3, <1>4, <1>5

\* One request changes: it remains to see what it knows.
LEMMA OneMoves ==
  ASSUME RowsTyped, RowsTyped', Grows, Requests, NEW r \in Request,
         NEW q \in RequestRow, request' = [request EXCEPT ![r] = q],
         Given(request[r])', Reached(request[r])'
  PROVE  Requests'
<1>1. request' \in [Request -> RequestRow]
      /\ \A d \in Request : d # r => request'[d] = request[d]
  BY DEF Requests
<1>2. \A d \in Request : d # r => Given(request[d])' /\ Reached(request[d])'
  BY <1>1, KnowsStill
<1> QED BY <1>1, <1>2 DEF Requests

\* Or it ends.
LEMMA OneEnds ==
  ASSUME RowsTyped, RowsTyped', Grows, Requests, NEW r \in Request, End(r)
  PROVE  Requests'
<1>1. request' = [request EXCEPT ![r] = Idle] /\ request'[r] = Idle
  BY DEF End, Requests
<1>2. Given(request[r])' /\ Reached(request[r])'
  BY <1>1, IdleKnows
<1>3. Idle \in RequestRow
  BY <1>1, IdleKnows
<1> QED BY <1>1, <1>2, <1>3, OneMoves

\* It goes on to another step with all it was given.
LEMMA Gone ==
  ASSUME Requests, NEW r \in Request, NEW pc \in PC, Goto(r, pc)
  PROVE  /\ request' = [request EXCEPT ![r] = [request[r] EXCEPT !.pc = pc]]
         /\ request'[r] \in RequestRow /\ request'[r] = [request[r] EXCEPT !.pc = pc]
         /\ request'[r].pc = pc /\ request'[r].op = request[r].op
         /\ request'[r].email = request[r].email /\ request'[r].phone = request[r].phone
         /\ request'[r].device = request[r].device /\ request'[r].code = request[r].code
         /\ request'[r].user = request[r].user /\ request'[r].link = request[r].link
<1>1. request[r] \in RequestRow /\ request' = [request EXCEPT ![r] = [request[r] EXCEPT !.pc = pc]]
  BY DEF Requests, Goto
<1>2. request'[r] = [request[r] EXCEPT !.pc = pc]
  BY <1>1 DEF Requests
<1> QED BY <1>1, <1>2 DEF RequestRow, PC

\* What is left to see is what it knows where it goes.
LEMMA GoesOn ==
  ASSUME RowsTyped, RowsTyped', Grows, Requests, NEW r \in Request, NEW pc \in PC,
         Goto(r, pc), ~At(r, "idle"), Reached(request[r])'
  PROVE  Requests'
<1>1. Given(request[r])'
  BY Gone, GivenStill DEF At
<1> DEFINE q == [request[r] EXCEPT !.pc = pc]
<1>2. q \in RequestRow /\ request' = [request EXCEPT ![r] = q]
  BY Gone
<1> HIDE DEF q
<1> QED BY <1>1, <1>2, OneMoves

\* Or it also learns which row it is about.
LEMMA Found ==
  ASSUME RowsTyped, RowsTyped', Grows, Requests, NEW r \in Request, NEW pc \in PC, NEW u \in Id,
         ~At(r, "idle"), request[r].op # "profile",
         request' = [request EXCEPT ![r] = [request[r] EXCEPT !.pc = pc, !.user = u]],
         (/\ request'[r].pc = pc /\ request'[r].user = u
          /\ request'[r].op = request[r].op /\ request'[r].email = request[r].email
          /\ request'[r].device = request[r].device)
           => Reached(request[r])'
  PROVE  Requests'
<1> DEFINE q == [request[r] EXCEPT !.pc = pc, !.user = u]
<1>1. request[r] \in RequestRow
  BY DEF Requests
<1>2. q \in RequestRow
  <2>1. u \in 0..MaxUsers
    BY AccountsAssumption DEF Id
  <2> QED BY <1>1, <2>1 DEF RequestRow, PC
<1>3. /\ q.pc = pc /\ q.user = u /\ q.op = request[r].op /\ q.email = request[r].email
      /\ q.phone = request[r].phone /\ q.device = request[r].device
      /\ q.code = request[r].code /\ q.link = request[r].link
  BY <1>1 DEF RequestRow
<1>4. request' = [request EXCEPT ![r] = q] /\ request'[r] = q
  BY DEF Requests
<1> HIDE DEF q
<1>5. Given(request[r])'
  BY <1>3, <1>4, GivenStill DEF At
<1>6. Reached(request[r])'
  BY <1>3, <1>4
<1> QED BY <1>2, <1>4, <1>5, <1>6, OneMoves

-----------------------------------------------------------------------------
\* Steps that change no row and nothing outside.

\* Only requests are to be looked at.
LEMMA Still ==
  ASSUME IInv, UNCHANGED <<rows, outside>>
  PROVE  /\ RowsTyped' /\ LinksOwned' /\ Grows
         /\ OneAccountEach' /\ VerifiedByHolder' /\ SessionsVerified' /\ SharedDeviceNoticed'
<1>1. users' = users /\ links' = links /\ devices' = devices /\ UNCHANGED outside
  BY DEF rows
<1>2. Existing' = Existing
  BY <1>1 DEF Existing
<1>3. RowsTyped' /\ LinksOwned'
  BY <1>1, <1>2 DEF IInv, RowsTyped, LinksOwned, outside
<1>4. Grows
  <2>1. Len(users) \in Nat /\ links \in Int
    BY Rows DEF IInv, RowsTyped
  <2> QED BY <1>1, <1>2, <2>1 DEF Grows, outside
<1>5. OneAccountEach' /\ VerifiedByHolder' /\ SessionsVerified' /\ SharedDeviceNoticed'
  BY <1>1, <1>2 DEF IInv, outside, OneAccountEach, VerifiedByHolder, SessionsVerified, SharedDeviceNoticed
<1> QED BY <1>3, <1>4, <1>5

\* After recordFingerprint a registration knows its row, the others end.
LEMMA RecordedKnows ==
  ASSUME RowsTyped, RowsTyped', Grows, Requests, UNCHANGED users, NEW r \in Request,
         At(r, "upsert") \/ At(r, "match"), Recorded(r)
  PROVE  Requests'
<1>1. /\ request[r] \in RequestRow /\ Reached(request[r]) /\ request[r].pc \in {"upsert", "match"}
      /\ Existing' = Existing
  BY DEF Requests, At, Existing
<1>2. CASE request[r].op # "register"
  BY <1>2, OneEnds DEF Recorded, AfterDevice
<1>3. CASE request[r].op = "register" /\ request[r].email # None
  <2>1. Goto(r, "link")
    BY <1>3 DEF Recorded, AfterDevice
  <2>2. Reached(request[r])'
    BY <1>1, <1>3, <2>1, Gone DEF Reached, PC, RequestRow
  <2> QED BY <1>1, <2>1, <2>2, GoesOn DEF PC, At
<1>4. CASE request[r].op = "register" /\ request[r].email = None
  <2>1. Goto(r, "mint")
    BY <1>4 DEF Recorded, AfterDevice
  <2>2. Reached(request[r])'
    BY <1>1, <1>4, <2>1, Gone DEF Reached, PC
  <2> QED BY <1>1, <2>1, <2>2, GoesOn DEF PC, At
<1> QED BY <1>2, <1>3, <1>4

\* Of the row it has found, a request knows what it looked for.
LEMMA StillSteps ==
  ASSUME IInv, NEW r \in Request,
         \/ CheckEmail(r) \/ CheckPhone(r) \/ DeviceFails(r)
         \/ FindUnverified(r) \/ FindLink(r) \/ FindLogin(r) \/ FindGoogle(r)
         \/ CheckNumber(r) \/ Abort(r)
  PROVE  IInv'
<1>1. RowsTyped /\ LinksOwned /\ Requests
  BY DEF IInv
<1>2. UNCHANGED <<rows, outside>>
  BY DEF CheckEmail, CheckPhone, DeviceFails, FindUnverified, FindLink, FindLogin, FindGoogle,
         CheckNumber, Abort
<1>3. /\ RowsTyped' /\ LinksOwned' /\ Grows
      /\ OneAccountEach' /\ VerifiedByHolder' /\ SessionsVerified' /\ SharedDeviceNoticed'
  BY <1>2, Still
<1>4. users' = users /\ Existing' = Existing /\ links' = links /\ Existing \subseteq Id
  BY <1>1, <1>2, Rows DEF rows, Existing, Id
<1>5. request[r] \in RequestRow /\ Given(request[r]) /\ Reached(request[r])
  BY <1>1 DEF Requests
<1>6. Requests'
  <2>1. CASE End(r)
    BY <1>1, <1>3, <2>1, OneEnds
  <2>2. ASSUME NEW pc \in {"phone", "create"}, Goto(r, pc), ~At(r, "idle")
        PROVE  Requests'
    <3>1. pc \in PC
      BY DEF PC
    <3>2. Reached(request[r])'
      BY <1>1, <2>2, <3>1, Gone DEF Reached
    <3> QED BY <1>1, <1>3, <2>2, <3>1, <3>2, GoesOn
  <2>3. CASE CheckEmail(r) \/ CheckPhone(r)
    BY <2>1, <2>2, <2>3 DEF CheckEmail, CheckPhone, At
  <2>4. CASE DeviceFails(r)
    BY <1>1, <1>3, <1>4, <2>4, RecordedKnows DEF DeviceFails
  <2>5. CASE FindUnverified(r)
    <3>1. CASE \E u \in ByEmail(request[r].email) :
                 request' = [request EXCEPT ![r].pc = "link", ![r].user = u]
      <4>1. PICK u \in ByEmail(request[r].email) :
              request' = [request EXCEPT ![r] = [request[r] EXCEPT !.pc = "link", !.user = u]]
        BY <3>1
      <4>2. /\ u \in Id /\ u \in Existing /\ users[u].email = request[r].email
            /\ request[r].email \in Address /\ request[r].op = "resend" /\ ~At(r, "idle")
        BY <1>4, <1>5, <2>5 DEF ByEmail, FindUnverified, Given, At
      <4>3. (/\ request'[r].pc = "link" /\ request'[r].user = u
             /\ request'[r].op = request[r].op /\ request'[r].email = request[r].email)
              => Reached(request[r])'
        BY <1>4, <4>2 DEF Reached
      <4>4. "link" \in PC /\ request[r].op # "profile"
        BY <4>2 DEF PC
      <4> QED BY <1>1, <1>3, <4>1, <4>2, <4>3, <4>4, Found
    <3> QED BY <2>1, <2>5, <3>1 DEF FindUnverified
  <2>6. CASE FindLink(r)
    <3>1. CASE \E u \in Existing :
                 /\ users[u].link = request[r].link
                 /\ request' = [request EXCEPT ![r].pc = "write", ![r].user = u]
      <4>1. PICK u \in Existing :
              /\ users[u].link = request[r].link
              /\ request' = [request EXCEPT ![r] = [request[r] EXCEPT !.pc = "write", !.user = u]]
        BY <3>1
      <4>2. /\ u \in Id /\ request[r].op = "verify" /\ ~At(r, "idle")
            /\ [to |-> request[r].email, link |-> request[r].link] \in inbox
        BY <1>4, <1>5, <2>6 DEF FindLink, Given, At
      <4>3. users[u].email = request[r].email
        BY <1>1, <4>1, <4>2 DEF LinksOwned
      <4>4. (/\ request'[r].pc = "write" /\ request'[r].user = u
             /\ request'[r].op = request[r].op /\ request'[r].email = request[r].email)
              => Reached(request[r])'
        BY <1>4, <4>2, <4>3 DEF Reached
      <4>5. "write" \in PC /\ request[r].op # "profile"
        BY <4>2 DEF PC
      <4> QED BY <1>1, <1>3, <4>1, <4>2, <4>4, <4>5, Found
    <3> QED BY <2>1, <2>6, <3>1 DEF FindLink
  <2>7. CASE FindLogin(r)
    <3> DEFINE found == ByEmail(request[r].email) \cup ByPhone(request[r].phone)
    <3>1. CASE \E u \in found :
                 /\ MayLogIn(request[r], u)
                 /\ request' = [request EXCEPT ![r].pc = "mint", ![r].user = u]
      <4>1. PICK u \in found :
              /\ MayLogIn(request[r], u)
              /\ request' = [request EXCEPT ![r] = [request[r] EXCEPT !.pc = "mint", !.user = u]]
        BY <3>1
      <4>2. /\ u \in Id /\ u \in Existing /\ users[u].email # None => users[u].verified
            /\ request[r].op # "profile" /\ ~At(r, "idle")
        BY <1>4, <2>7, <4>1 DEF ByEmail, ByPhone, FindLogin, MayLogIn, At
      <4>3. (request'[r].pc = "mint" /\ request'[r].user = u) => Reached(request[r])'
        BY <1>4, <4>1, <4>2 DEF Reached, MayLogIn, ByEmail, ByPhone
      <4>4. "mint" \in PC
        BY DEF PC
      <4>5. u \in Id /\ request[r].op # "profile" /\ ~At(r, "idle")
        BY <1>4, <2>7, <4>1 DEF ByEmail, ByPhone, FindLogin, At
      <4> QED BY <1>1, <1>3, <4>1, <4>3, <4>4, <4>5, Found
    <3> QED BY <2>1, <2>7, <3>1 DEF FindLogin
  <2>8. CASE FindGoogle(r)
    <3>1. CASE \E u \in ByEmail(request[r].email) :
                 request' = [request EXCEPT ![r].pc = "write", ![r].user = u, ![r].code = NoUser]
      <4>1. PICK u \in ByEmail(request[r].email) :
              request' = [request EXCEPT ![r] =
                            [request[r] EXCEPT !.pc = "write", !.user = u, !.code = NoUser]]
        BY <3>1
      <4> DEFINE q == [request[r] EXCEPT !.pc = "write", !.user = u, !.code = NoUser]
      <4>2. u \in 0..MaxUsers /\ 0 \in 0..MaxUsers
        BY <1>4, AccountsAssumption DEF ByEmail, Id
      <4>3. q \in RequestRow
        BY <1>5, <4>2 DEF RequestRow, NoUser
      <4>4. /\ q.pc = "write" /\ q.user = u /\ q.op = request[r].op /\ q.email = request[r].email
            /\ q.phone = request[r].phone /\ q.device = request[r].device
            /\ q.code = NoUser /\ q.link = request[r].link
        BY <1>5 DEF RequestRow
      <4>5. request' = [request EXCEPT ![r] = q] /\ request'[r] = q
        BY <1>1, <4>1 DEF Requests
      <4> HIDE DEF q
      <4>6. Given(request[r])'
        BY <1>1, <1>3, <2>8, <4>4, <4>5, GivenStill DEF At, FindGoogle
      <4>7. Reached(request[r])'
        BY <1>4, <2>8, <4>1, <4>4, <4>5 DEF Reached, ByEmail, FindGoogle
      <4> QED BY <1>1, <1>3, <4>3, <4>5, <4>6, <4>7, OneMoves
    <3>2. CASE Goto(r, "create")
      BY <2>2, <2>8, <3>2 DEF FindGoogle, At
    <3> QED BY <2>8, <3>1, <3>2 DEF FindGoogle
  <2>9. CASE CheckNumber(r)
    <3>1. CASE Goto(r, "write")
      <4>1. "write" \in PC
        BY DEF PC
      <4>2. request[r].op = "profile" /\ ~At(r, "idle") /\ request[r].user \in Existing
        BY <1>1, <1>5, <2>9 DEF CheckNumber, At, Given, RowsTyped
      <4>3. Reached(request[r])'
        BY <1>1, <1>4, <3>1, <4>1, <4>2, Gone DEF Reached
      <4> QED BY <1>1, <1>3, <3>1, <4>1, <4>2, <4>3, GoesOn
    <3> QED BY <2>1, <2>9, <3>1 DEF CheckNumber
  <2>10. CASE Abort(r)
    BY <2>1, <2>10 DEF Abort
  <2> QED BY <2>3, <2>4, <2>5, <2>6, <2>7, <2>8, <2>9, <2>10
<1> QED BY <1>3, <1>6 DEF IInv

-----------------------------------------------------------------------------
\* Steps that change what is outside the rows of users.

\* What requests carry when they arrive.
LEMMA AskedType ==
  ASSUME RowsTyped,
         NEW q \in Registrations \cup Logins \cup ByGoogle \cup Resends \cup LinksOpened \cup ProfileChanges
  PROVE  /\ q \in RequestRow /\ q.pc \in {"email", "find"} /\ q.code \in {0, Len(users)}
         /\ q.op \in {"register", "login"} => q.device \in Device
         /\ q.op \in {"google", "resend", "verify"} => q.email \in Address
         /\ q.op = "verify" => [to |-> q.email, link |-> q.link] \in inbox
         /\ q.op = "profile" => q.phone \in Number /\ q.user \in sessions
<1>1. Len(users) \in 0..MaxUsers /\ 0 \in 0..MaxUsers /\ 0 \in 0..MaxLinks
  BY Rows, AccountsAssumption DEF RowsTyped
<1>2. CASE q \in LinksOpened
  <2>1. PICK m \in inbox :
          q = [Idle EXCEPT !.op = "verify", !.pc = "find", !.email = m.to, !.link = m.link]
    BY <1>2 DEF LinksOpened
  <2>2. m \in [to : Address, link : 1..MaxLinks] /\ m.to \in Address /\ m.link \in 0..MaxLinks
        /\ m = [to |-> m.to, link |-> m.link]
    BY AccountsAssumption DEF RowsTyped
  <2> QED BY <1>1, <2>1, <2>2 DEF Idle, RequestRow, NoUser, NoLink
<1>3. ASSUME q \in Registrations \/ q \in Logins \/ q \in ByGoogle \/ q \in Resends
      PROVE  /\ q \in RequestRow /\ q.pc \in {"email", "find"} /\ q.code \in {0, Len(users)}
             /\ q.op \in {"register", "login"} => q.device \in Device
             /\ q.op \in {"google", "resend"} => q.email \in Address
             /\ q.op \notin {"verify", "profile"}
  BY <1>1, <1>3 DEF Registrations, Logins, ByGoogle, Resends, Sent, Codes, RequestRow, NoUser, NoLink
<1>4. CASE q \in ProfileChanges
  <2>1. \A u \in sessions : u \in 0..MaxUsers
    BY Rows, AccountsAssumption DEF RowsTyped
  <2> QED BY <1>1, <1>4, <2>1 DEF ProfileChanges, Sent, RequestRow, NoUser, NoLink
<1> QED BY <1>2, <1>3, <1>4

\* A request arrives.
LEMMA AskKeeps ==
  ASSUME IInv, NEW r \in Request, Ask(r)
  PROVE  IInv'
<1>1. /\ RowsTyped /\ LinksOwned /\ Requests
      /\ OneAccountEach /\ VerifiedByHolder /\ SessionsVerified /\ SharedDeviceNoticed
  BY DEF IInv
<1>2. UNCHANGED <<rows, inbox, noticed, checked, sessions>>
  BY DEF Ask
<1>3. users' = users /\ links' = links /\ devices' = devices /\ Existing' = Existing
      /\ inbox' = inbox /\ sessions' = sessions
  BY <1>2 DEF rows, Existing
<1>4. Len(users) \in Nat /\ Len(users) \in 0..MaxUsers /\ 0 \in 0..MaxUsers /\ 0 \in 0..MaxLinks
      /\ links \in Int
  BY <1>1, Rows, AccountsAssumption DEF RowsTyped
<1>5. PICK q \in Registrations \cup Logins \cup ByGoogle \cup Resends \cup LinksOpened \cup ProfileChanges :
       /\ request' = [request EXCEPT ![r] = q]
       /\ holders' = IF q.op \in {"google", "verify"} THEN holders \cup {q.email} ELSE holders
  BY DEF Ask
<1>6. /\ q \in RequestRow /\ q.pc \in {"email", "find"} /\ q.code \in {0, Len(users)}
      /\ q.op \in {"register", "login"} => q.device \in Device
      /\ q.op \in {"google", "resend", "verify"} => q.email \in Address
      /\ q.op = "verify" => [to |-> q.email, link |-> q.link] \in inbox
      /\ q.op = "profile" => q.phone \in Number /\ q.user \in sessions
  BY <1>1, <1>5, AskedType
<1>7. holders \subseteq holders' /\ holders' \subseteq Address
      /\ (q.op \in {"google", "verify"} => q.email \in holders')
  BY <1>1, <1>5, <1>6 DEF RowsTyped
<1>8. RowsTyped' /\ LinksOwned'
  BY <1>1, <1>2, <1>3, <1>7 DEF RowsTyped, LinksOwned
<1>9. Grows
  BY <1>3, <1>4, <1>7 DEF Grows
<1>10. Requests'
  <2>1. request'[r] = q
    BY <1>1, <1>5 DEF Requests
  <2>2. Given(request[r])'
    BY <1>3, <1>4, <1>6, <1>7, <2>1 DEF Given
  <2>3. Reached(request[r])'
    BY <1>6, <2>1 DEF Reached
  <2> QED BY <1>1, <1>5, <1>6, <1>8, <1>9, <2>2, <2>3, OneMoves
<1>11. OneAccountEach' /\ VerifiedByHolder' /\ SessionsVerified' /\ SharedDeviceNoticed'
  BY <1>1, <1>2, <1>3, <1>7 DEF OneAccountEach, VerifiedByHolder, SessionsVerified, SharedDeviceNoticed
<1> QED BY <1>8, <1>10, <1>11 DEF IInv

\* Tokens are given for accounts whose address, if any, is verified.
LEMMA MintKeeps ==
  ASSUME IInv, NEW r \in Request, Mint(r)
  PROVE  IInv'
<1> DEFINE w == request[r].user
<1>1. /\ RowsTyped /\ LinksOwned /\ Requests
      /\ OneAccountEach /\ VerifiedByHolder /\ SessionsVerified /\ SharedDeviceNoticed
  BY DEF IInv
<1>2. /\ UNCHANGED <<rows, inbox, holders, noticed, checked>> /\ At(r, "mint")
      /\ sessions' = sessions \cup {w}
  BY DEF Mint
<1>3. users' = users /\ links' = links /\ devices' = devices /\ Existing' = Existing
  BY <1>2 DEF rows, Existing
<1>4. /\ request[r] \in RequestRow /\ Given(request[r]) /\ Reached(request[r])
      /\ w \in Existing /\ (users[w].email # None => users[w].verified)
  BY <1>1, <1>2 DEF Requests, Reached, At
<1>5. RowsTyped' /\ LinksOwned'
  BY <1>1, <1>2, <1>3, <1>4 DEF RowsTyped, LinksOwned
<1>6. Grows
  <2>1. Len(users) \in Nat /\ links \in Int
    BY <1>1, Rows DEF RowsTyped
  <2> QED BY <1>2, <1>3, <2>1 DEF Grows
<1>7. Requests'
  <2>1. CASE request[r].op = "login"
    <3>1. Goto(r, "upsert") /\ "upsert" \in PC /\ ~At(r, "idle")
      BY <1>2, <2>1 DEF Mint, PC, At
    <3>2. Reached(request[r])'
      BY <1>1, <1>3, <1>4, <2>1, <3>1, Gone DEF Reached
    <3> QED BY <1>1, <1>5, <1>6, <3>1, <3>2, GoesOn
  <2>2. CASE request[r].op # "login"
    BY <1>1, <1>5, <1>6, <2>2, OneEnds DEF Mint
  <2> QED BY <2>1, <2>2
<1>8. OneAccountEach' /\ VerifiedByHolder' /\ SharedDeviceNoticed'
  BY <1>1, <1>2, <1>3 DEF OneAccountEach, VerifiedByHolder, SharedDeviceNoticed
<1>9. SessionsVerified'
  BY <1>1, <1>2, <1>3, <1>4 DEF SessionsVerified
<1> QED BY <1>5, <1>7, <1>8, <1>9 DEF IInv

\* A link goes out to the address in whose row it was written.
LEMMA SendMailKeeps ==
  ASSUME IInv, NEW r \in Request, NEW ok \in BOOLEAN, SendMail(r, ok)
  PROVE  IInv'
<1> DEFINE m == [to |-> request[r].email, link |-> request[r].link]
<1>1. /\ RowsTyped /\ LinksOwned /\ Requests
      /\ OneAccountEach /\ VerifiedByHolder /\ SessionsVerified /\ SharedDeviceNoticed
  BY DEF IInv
<1>2. /\ UNCHANGED <<rows, holders, noticed, checked, sessions>> /\ At(r, "mail") /\ End(r)
      /\ inbox' \in {inbox, inbox \cup {m}}
  BY DEF SendMail
<1>3. users' = users /\ links' = links /\ devices' = devices /\ Existing' = Existing
  BY <1>2 DEF rows, Existing
<1>4. /\ m.to \in Address /\ m.link \in 1..links
      /\ \A u \in Existing : users[u].link = m.link => users[u].email = m.to
  BY <1>1, <1>2 DEF Requests, Reached, At
<1>5. m \in [to : Address, link : 1..MaxLinks]
  <2>1. links \in 0..MaxLinks /\ MaxLinks \in Nat
    BY <1>1, AccountsAssumption DEF RowsTyped
  <2>2. m.link \in 1..MaxLinks
    BY <1>4, <2>1
  <2> QED BY <1>4, <2>2
<1>6. m.link <= links /\ links \in Int /\ Len(users) \in Nat
  BY <1>1, <1>4, Rows DEF RowsTyped
<1> HIDE DEF m
<1>7. RowsTyped' /\ LinksOwned'
  BY <1>1, <1>2, <1>3, <1>4, <1>5, <1>6 DEF RowsTyped, LinksOwned
<1>8. Grows
  BY <1>2, <1>3, <1>6 DEF Grows
<1>9. Requests'
  BY <1>1, <1>2, <1>7, <1>8, OneEnds
<1>10. OneAccountEach' /\ VerifiedByHolder' /\ SessionsVerified' /\ SharedDeviceNoticed'
  BY <1>1, <1>2, <1>3 DEF OneAccountEach, VerifiedByHolder, SessionsVerified, SharedDeviceNoticed
<1> QED BY <1>7, <1>9, <1>10 DEF IInv

\* A device is recorded,
LEMMA UpsertKeeps ==
  ASSUME IInv, NEW r \in Request, UpsertDevice(r)
  PROVE  IInv'
<1> DEFINE x == <<request[r].user, request[r].device>>
<1>1. /\ RowsTyped /\ LinksOwned /\ Requests
      /\ OneAccountEach /\ VerifiedByHolder /\ SessionsVerified /\ SharedDeviceNoticed
  BY DEF IInv
<1>2. /\ UNCHANGED <<users, links, outside>> /\ At(r, "upsert") /\ Goto(r, "match")
      /\ devices' = devices \cup {x}
  BY DEF UpsertDevice
<1>3. Existing' = Existing /\ UNCHANGED <<inbox, holders, noticed, checked, sessions>>
  BY <1>2 DEF Existing, outside
<1>4. /\ request[r] \in RequestRow /\ Given(request[r]) /\ Reached(request[r])
      /\ x \in Existing \X Device /\ request[r].op \in {"register", "login"}
  BY <1>1, <1>2 DEF Requests, Reached, Given, At
<1>5. RowsTyped' /\ LinksOwned'
  BY <1>1, <1>2, <1>3, <1>4 DEF RowsTyped, LinksOwned
<1>6. Grows
  <2>1. Len(users) \in Nat /\ links \in Int
    BY <1>1, Rows DEF RowsTyped
  <2> QED BY <1>2, <1>3, <2>1 DEF Grows
<1>7. Requests'
  <2>1. "match" \in PC /\ ~At(r, "idle")
    BY <1>2 DEF PC, At
  <2>2. Reached(request[r])'
    BY <1>1, <1>2, <1>3, <1>4, <2>1, Gone DEF Reached, At
  <2> QED BY <1>1, <1>2, <1>5, <1>6, <2>1, <2>2, GoesOn
<1>8. OneAccountEach' /\ VerifiedByHolder' /\ SessionsVerified' /\ SharedDeviceNoticed'
  BY <1>1, <1>2, <1>3 DEF OneAccountEach, VerifiedByHolder, SessionsVerified, SharedDeviceNoticed
<1> QED BY <1>5, <1>7, <1>8 DEF IInv

\* and compared with those recorded: of two users compared, the later one saw the
\* row of the other.
LEMMA MatchKeeps ==
  ASSUME IInv, NEW r \in Request, MatchDevice(r)
  PROVE  IInv'
<1> DEFINE x == <<request[r].user, request[r].device>>
<1>1. /\ RowsTyped /\ LinksOwned /\ Requests
      /\ OneAccountEach /\ VerifiedByHolder /\ SessionsVerified /\ SharedDeviceNoticed
  BY DEF IInv
<1>2. /\ UNCHANGED <<rows, inbox, holders, sessions>> /\ At(r, "match") /\ Recorded(r)
      /\ checked' = checked \cup {x}
      /\ noticed' = IF \E y \in devices : y[2] = x[2] /\ y[1] # x[1]
                    THEN noticed \cup {x[1]} ELSE noticed
  BY DEF MatchDevice
<1>3. users' = users /\ links' = links /\ devices' = devices /\ Existing' = Existing
  BY <1>2 DEF rows, Existing
<1>4. x \in devices /\ x[1] \in Existing
  BY <1>1, <1>2 DEF Requests, Reached, At
<1> HIDE DEF x
<1>5. RowsTyped' /\ LinksOwned'
  BY <1>1, <1>2, <1>3, <1>4 DEF RowsTyped, LinksOwned
<1>6. Grows
  <2>1. Len(users) \in Nat /\ links \in Int
    BY <1>1, Rows DEF RowsTyped
  <2> QED BY <1>2, <1>3, <2>1 DEF Grows
<1>7. Requests'
  BY <1>1, <1>2, <1>3, <1>5, <1>6, RecordedKnows
<1>8. OneAccountEach' /\ VerifiedByHolder' /\ SessionsVerified'
  BY <1>1, <1>2, <1>3 DEF OneAccountEach, VerifiedByHolder, SessionsVerified
<1>9. SharedDeviceNoticed'
  <2>1. ASSUME NEW y \in checked, y[2] = x[2], y[1] # x[1] PROVE x[1] \in noticed'
    BY <1>1, <1>2, <2>1 DEF RowsTyped
  <2>2. noticed \subseteq noticed'
    BY <1>2
  <2> QED BY <1>1, <1>2, <2>1, <2>2 DEF SharedDeviceNoticed
<1> QED BY <1>5, <1>7, <1>8, <1>9 DEF IInv

-----------------------------------------------------------------------------
\* Steps that change a row of users.

\* What an update preserves that touches neither the address nor, once set, its
\* verification, and puts no old link in the row.
LEMMA UpdateKeeps ==
  ASSUME IInv, NEW u \in Existing, NEW row \in User, users' = [users EXCEPT ![u] = row],
         row.email = users[u].email, row.referrer = users[u].referrer,
         users[u].verified => row.verified, row.verified => row.email \in holders,
         row.link \in {users[u].link, NoLink} \/ (links < row.link /\ row.link = links'),
         links' \in 0..MaxLinks, links <= links', UNCHANGED <<devices, outside>>
  PROVE  /\ RowsTyped' /\ LinksOwned' /\ Grows /\ Existing' = Existing
         /\ users'[u] = row /\ \A v \in Existing : v # u => users'[v] = users[v]
         /\ VerifiedByHolder' /\ SessionsVerified' /\ SharedDeviceNoticed'
<1>1. /\ RowsTyped /\ LinksOwned /\ VerifiedByHolder /\ SessionsVerified /\ SharedDeviceNoticed
  BY DEF IInv
<1>2. /\ users' \in Seq(User) /\ Len(users') = Len(users) /\ Existing' = Existing
      /\ users'[u] = row
      /\ \A v \in Existing : v # u => users'[v] = users[v]
  BY <1>1, RowUpdate
<1>3. UNCHANGED <<inbox, holders, noticed, checked, sessions, devices>>
  BY DEF outside
<1>4. /\ Len(users) \in Nat /\ links \in Int /\ links' \in Int /\ row.link \in Int
      /\ \A v \in Existing : users[v] \in User /\ users[v].link \in Int
  BY <1>1, Rows, AccountsAssumption DEF RowsTyped, User
<1>5. \A v \in Existing : /\ users'[v].email = users[v].email
                          /\ users'[v].referrer = users[v].referrer
                          /\ users[v].verified => users'[v].verified
                          /\ users'[v].verified => users'[v].email \in holders
  BY <1>1, <1>2 DEF VerifiedByHolder
<1>6. RowsTyped'
  BY <1>1, <1>2, <1>3, <1>5 DEF RowsTyped
<1>7. \A v \in Existing : \/ users'[v].link = users[v].link
                          \/ users'[v].link = NoLink
                          \/ links < users'[v].link /\ users'[v].link = links'
  BY <1>2
<1>8. LinksOwned'
  <2>1. \A v \in Existing : users'[v].link <= links'
    BY <1>1, <1>4, <1>7 DEF LinksOwned, RowsTyped, NoLink
  <2>2. ASSUME NEW m \in inbox
        PROVE  /\ m.link <= links'
               /\ \A v \in Existing : users'[v].link = m.link => users'[v].email = m.to
    <3>1. m.link \in Int /\ m.link # NoLink /\ m.link <= links
      BY <1>1 DEF RowsTyped, LinksOwned, NoLink
    <3>2. ASSUME NEW v \in Existing, users'[v].link = m.link PROVE users'[v].email = m.to
      <4>1. users'[v].link = users[v].link
        BY <1>4, <1>7, <3>1, <3>2
      <4> QED BY <1>1, <1>5, <3>2, <4>1 DEF LinksOwned
    <3> QED BY <1>4, <3>1, <3>2
  <2> QED BY <1>2, <1>3, <2>1, <2>2 DEF LinksOwned
<1>9. Grows
  BY <1>2, <1>3, <1>4, <1>5, <1>7 DEF Grows
<1>10. VerifiedByHolder' /\ SessionsVerified' /\ SharedDeviceNoticed'
  <2>1. sessions \subseteq Existing
    BY <1>1 DEF RowsTyped
  <2> QED BY <1>1, <1>2, <1>3, <1>5, <2>1 DEF VerifiedByHolder, SessionsVerified, SharedDeviceNoticed
<1> QED BY <1>2, <1>6, <1>8, <1>9, <1>10

\* A row is known by its address and number, which an update may leave alone.
LEMMA AccountsApart ==
  ASSUME OneAccountEach, Existing' = Existing,
         \A v \in Existing : users'[v].email = users[v].email /\ users'[v].phone = users[v].phone
  PROVE  OneAccountEach'
BY DEF OneAccountEach

\* A new link replaces the one in the row.
LEMMA WriteLinkKeeps ==
  ASSUME IInv, NEW r \in Request, WriteLink(r)
  PROVE  IInv'
<1> DEFINE u == request[r].user
           row == [users[u] EXCEPT !.link = links + 1]
<1>1. RowsTyped /\ LinksOwned /\ Requests /\ OneAccountEach
  BY DEF IInv
<1>2. /\ At(r, "link") /\ links < MaxLinks /\ links' = links + 1
      /\ users' = [users EXCEPT ![u] = row]
      /\ request' = [request EXCEPT ![r] = [request[r] EXCEPT !.pc = "mail", !.link = links + 1]]
      /\ UNCHANGED <<devices, outside>>
  BY DEF WriteLink
<1>3. /\ request[r] \in RequestRow /\ Given(request[r]) /\ Reached(request[r])
      /\ u \in Existing /\ request[r].email \in Address /\ request[r].op \in {"register", "resend"}
      /\ users[u].email = request[r].email
  BY <1>1, <1>2 DEF Requests, Reached, At
<1>4. /\ links \in Nat /\ MaxLinks \in Nat /\ links + 1 \in 0..MaxLinks /\ links < links + 1
      /\ links <= links + 1
  BY <1>1, <1>2, AccountsAssumption DEF RowsTyped
<1>5. users[u] \in User
  BY <1>1, <1>3, Rows
<1>6. /\ row \in User /\ row.email = users[u].email /\ row.referrer = users[u].referrer
      /\ row.verified = users[u].verified /\ row.link = links + 1 /\ row.phone = users[u].phone
  BY <1>4, <1>5 DEF User
<1>7. users[u].verified => users[u].email \in holders
  BY <1>3 DEF IInv, VerifiedByHolder
<1> HIDE DEF row
<1>8. /\ RowsTyped' /\ LinksOwned' /\ Grows /\ Existing' = Existing
      /\ users'[u] = row /\ \A v \in Existing : v # u => users'[v] = users[v]
      /\ VerifiedByHolder' /\ SessionsVerified' /\ SharedDeviceNoticed'
  BY <1>2, <1>3, <1>4, <1>6, <1>7, UpdateKeeps
<1>9. OneAccountEach'
  BY <1>1, <1>6, <1>8, AccountsApart
<1>10. Requests'
  <2> DEFINE q == [request[r] EXCEPT !.pc = "mail", !.link = links + 1]
  <2>1. /\ q \in RequestRow /\ q.pc = "mail" /\ q.link = links + 1 /\ q.op = request[r].op
        /\ q.email = request[r].email /\ q.phone = request[r].phone
        /\ q.device = request[r].device /\ q.code = request[r].code /\ q.user = u
    BY <1>3, <1>4 DEF RequestRow
  <2>2. request'[r] = q /\ request' = [request EXCEPT ![r] = q]
    BY <1>1, <1>2 DEF Requests
  <2> HIDE DEF q
  <2>3. Given(request[r])'
    BY <1>1, <1>2, <1>3, <1>8, <2>1, <2>2, GivenStill DEF At
  <2>4. \A v \in Existing : users'[v].link = links + 1 => users'[v].email = request[r].email
    <3>1. \A v \in Existing : users[v].link \in Int /\ users[v].link <= links
      BY <1>1, <1>4, Rows DEF LinksOwned, User
    <3> QED BY <1>3, <1>4, <1>6, <1>8, <3>1
  <2>5. links + 1 \in 1..links'
    BY <1>2, <1>4
  <2>6. Reached(request[r])'
    BY <1>2, <1>3, <1>6, <1>8, <2>1, <2>2, <2>4, <2>5 DEF Reached
  <2> QED BY <1>1, <1>8, <2>1, <2>2, <2>3, <2>6, OneMoves
<1> QED BY <1>8, <1>9, <1>10 DEF IInv

\* The address is verified by the request that a link brought.
LEMMA VerifyKeeps ==
  ASSUME IInv, NEW r \in Request, VerifyEmail(r)
  PROVE  IInv'
<1> DEFINE u == request[r].user
           row == [users[u] EXCEPT !.verified = TRUE, !.link = NoLink]
<1>1. RowsTyped /\ LinksOwned /\ Requests /\ OneAccountEach
  BY DEF IInv
<1>2. /\ At(r, "write") /\ request[r].op = "verify" /\ End(r)
      /\ users' = [users EXCEPT ![u] = row]
      /\ UNCHANGED <<links, devices, outside>>
  BY DEF VerifyEmail
<1>3. /\ u \in Existing /\ users[u].email = request[r].email /\ request[r].email \in holders
  BY <1>1, <1>2 DEF Requests, Reached, Given, At
<1>4. links \in Nat /\ links' \in 0..MaxLinks /\ links <= links' /\ NoLink \in 0..MaxLinks
  BY <1>1, <1>2, AccountsAssumption DEF RowsTyped, NoLink
<1>5. users[u] \in User
  BY <1>1, <1>3, Rows
<1>6. /\ row \in User /\ row.email = users[u].email /\ row.referrer = users[u].referrer
      /\ row.verified = TRUE /\ row.link = NoLink /\ row.phone = users[u].phone
  BY <1>4, <1>5 DEF User
<1> HIDE DEF row
<1>7. /\ RowsTyped' /\ LinksOwned' /\ Grows /\ Existing' = Existing
      /\ users'[u] = row /\ \A v \in Existing : v # u => users'[v] = users[v]
      /\ VerifiedByHolder' /\ SessionsVerified' /\ SharedDeviceNoticed'
  BY <1>2, <1>3, <1>4, <1>6, UpdateKeeps
<1>8. OneAccountEach'
  BY <1>1, <1>6, <1>7, AccountsApart
<1>9. Requests'
  BY <1>1, <1>2, <1>7, OneEnds
<1> QED BY <1>7, <1>8, <1>9 DEF IInv

\* A link that expires verifies nothing.
LEMMA ExpireKeeps ==
  ASSUME IInv, NEW u \in Id, ExpireLink(u)
  PROVE  IInv'
<1> DEFINE row == [users[u] EXCEPT !.link = NoLink]
<1>1. RowsTyped /\ LinksOwned /\ Requests /\ OneAccountEach
  BY DEF IInv
<1>2. /\ u \in Existing /\ users' = [users EXCEPT ![u] = row]
      /\ UNCHANGED <<links, devices, outside, request>>
  BY DEF ExpireLink
<1>3. links \in Nat /\ links' \in 0..MaxLinks /\ links <= links' /\ NoLink \in 0..MaxLinks
  BY <1>1, <1>2, AccountsAssumption DEF RowsTyped, NoLink
<1>4. users[u] \in User /\ (users[u].verified => users[u].email \in holders)
  BY <1>1, <1>2, Rows DEF IInv, VerifiedByHolder
<1>5. /\ row \in User /\ row.email = users[u].email /\ row.referrer = users[u].referrer
      /\ row.verified = users[u].verified /\ row.link = NoLink /\ row.phone = users[u].phone
  BY <1>3, <1>4 DEF User
<1> HIDE DEF row
<1>6. /\ RowsTyped' /\ LinksOwned' /\ Grows /\ Existing' = Existing
      /\ users'[u] = row /\ \A v \in Existing : v # u => users'[v] = users[v]
      /\ VerifiedByHolder' /\ SessionsVerified' /\ SharedDeviceNoticed'
  BY <1>2, <1>3, <1>4, <1>5, UpdateKeeps
<1>7. OneAccountEach'
  BY <1>1, <1>5, <1>6, AccountsApart
<1>8. Requests'
  <2>1. \A d \in Request : Given(request[d])' /\ Reached(request[d])'
    BY <1>1, <1>2, <1>6, KnowsStill
  <2> QED BY <1>1, <1>2, <2>1 DEF Requests
<1> QED BY <1>6, <1>7, <1>8 DEF IInv

\* Google vouches for the address of the row.
LEMMA LinkGoogleKeeps ==
  ASSUME IInv, NEW r \in Request, LinkGoogle(r)
  PROVE  IInv'
<1> DEFINE u == request[r].user
           row == [users[u] EXCEPT !.verified = TRUE]
<1>1. RowsTyped /\ LinksOwned /\ Requests /\ OneAccountEach
  BY DEF IInv
<1>2. /\ At(r, "write") /\ request[r].op = "google" /\ Goto(r, "mint")
      /\ users' = [users EXCEPT ![u] = row]
      /\ UNCHANGED <<links, devices, outside>>
  BY DEF LinkGoogle
<1>3. /\ u \in Existing /\ users[u].email = request[r].email /\ request[r].email \in holders
      /\ request[r] \in RequestRow /\ Reached(request[r])
  BY <1>1, <1>2 DEF Requests, Reached, Given, At
<1>4. links \in Nat /\ links' \in 0..MaxLinks /\ links <= links'
  BY <1>1, <1>2 DEF RowsTyped
<1>5. users[u] \in User
  BY <1>1, <1>3, Rows
<1>6. /\ row \in User /\ row.email = users[u].email /\ row.referrer = users[u].referrer
      /\ row.verified = TRUE /\ row.link = users[u].link /\ row.phone = users[u].phone
  BY <1>5 DEF User
<1> HIDE DEF row
<1>7. /\ RowsTyped' /\ LinksOwned' /\ Grows /\ Existing' = Existing
      /\ users'[u] = row /\ \A v \in Existing : v # u => users'[v] = users[v]
      /\ VerifiedByHolder' /\ SessionsVerified' /\ SharedDeviceNoticed'
  BY <1>2, <1>3, <1>4, <1>6, UpdateKeeps
<1>8. OneAccountEach'
  BY <1>1, <1>6, <1>7, AccountsApart
<1>9. Requests'
  <2>1. "mint" \in PC /\ ~At(r, "idle")
    BY <1>2 DEF PC, At
  <2>2. Reached(request[r])'
    BY <1>1, <1>2, <1>3, <1>6, <1>7, <2>1, Gone DEF Reached
  <2> QED BY <1>1, <1>2, <1>7, <2>1, <2>2, GoesOn
<1> QED BY <1>7, <1>8, <1>9 DEF IInv

\* A number is written where no other row has it.
LEMMA WriteNumberKeeps ==
  ASSUME IInv, NEW r \in Request, WriteNumber(r)
  PROVE  IInv'
<1> DEFINE u == request[r].user
           row == [users[u] EXCEPT !.phone = request[r].phone]
<1>1. RowsTyped /\ LinksOwned /\ Requests /\ OneAccountEach
  BY DEF IInv
<1>2. /\ At(r, "write") /\ request[r].op = "profile" /\ End(r)
      /\ UNCHANGED <<links, devices, outside>>
  BY DEF WriteNumber
<1>3. CASE users' = users
  <2>1. UNCHANGED <<rows, outside>>
    BY <1>2, <1>3 DEF rows
  <2>2. /\ RowsTyped' /\ LinksOwned' /\ Grows
        /\ OneAccountEach' /\ VerifiedByHolder' /\ SessionsVerified' /\ SharedDeviceNoticed'
    BY <2>1, Still
  <2>3. Requests'
    BY <1>1, <1>2, <2>2, OneEnds
  <2> QED BY <2>2, <2>3 DEF IInv
<1>4. CASE ByPhone(request[r].phone) \subseteq {u} /\ users' = [users EXCEPT ![u] = row]
  <2>1. u \in Existing /\ request[r].phone \in Number
    BY <1>1, <1>2 DEF Requests, Reached, Given, At
  <2>2. links \in Nat /\ links' \in 0..MaxLinks /\ links <= links'
    BY <1>1, <1>2 DEF RowsTyped
  <2>3. users[u] \in User /\ (users[u].verified => users[u].email \in holders)
    BY <1>1, <2>1, Rows DEF IInv, VerifiedByHolder
  <2>4. /\ row \in User /\ row.email = users[u].email /\ row.referrer = users[u].referrer
        /\ row.verified = users[u].verified /\ row.link = users[u].link
        /\ row.phone = request[r].phone
    BY <2>1, <2>3 DEF User
  <2> HIDE DEF row
  <2>5. /\ RowsTyped' /\ LinksOwned' /\ Grows /\ Existing' = Existing
        /\ users'[u] = row /\ \A v \in Existing : v # u => users'[v] = users[v]
        /\ VerifiedByHolder' /\ SessionsVerified' /\ SharedDeviceNoticed'
    BY <1>2, <1>4, <2>1, <2>2, <2>3, <2>4, UpdateKeeps
  <2>6. \A v \in Existing : v # u => users[v].phone # request[r].phone
    BY <1>4, <2>1, AccountsAssumption DEF ByPhone
  <2>7. OneAccountEach'
    BY <1>1, <2>4, <2>5, <2>6 DEF OneAccountEach
  <2>8. Requests'
    BY <1>1, <1>2, <2>5, OneEnds
  <2> QED BY <2>5, <2>7, <2>8 DEF IInv
<1> QED BY <1>3, <1>4 DEF WriteNumber

-----------------------------------------------------------------------------
\* Accounts are created.

\* The unique indexes keep the new row apart from the others.
LEMMA InsertKeeps ==
  ASSUME IInv, NEW r \in Request, NEW verified \in BOOLEAN, NEW next \in {"upsert", "mint"},
         Insert(r, verified, next), UNCHANGED <<links, devices, outside>>,
         ~At(r, "idle"), request[r].op = (IF verified THEN "google" ELSE "register"),
         next = (IF verified THEN "mint" ELSE "upsert")
  PROVE  IInv'
<1> DEFINE q == request[r]
           w == Len(users) + 1
           row == [email |-> q.email, phone |-> q.phone, password |-> q.op = "register",
                   verified |-> verified, link |-> NoLink, referrer |-> q.code]
<1>1. /\ RowsTyped /\ LinksOwned /\ Requests
      /\ OneAccountEach /\ VerifiedByHolder /\ SessionsVerified /\ SharedDeviceNoticed
  BY DEF IInv
<1>2. q \in RequestRow /\ Given(q) /\ Reached(q)
  BY <1>1 DEF Requests
<1>3. CASE End(r) /\ UNCHANGED users
  <2>1. UNCHANGED <<rows, outside>>
    BY <1>3 DEF rows
  <2>2. /\ RowsTyped' /\ LinksOwned' /\ Grows
        /\ OneAccountEach' /\ VerifiedByHolder' /\ SessionsVerified' /\ SharedDeviceNoticed'
    BY <2>1, Still
  <2>3. Requests'
    BY <1>1, <1>3, <2>2, OneEnds
  <2> QED BY <2>2, <2>3 DEF IInv
<1>4. CASE /\ Free(q) /\ Len(users) < MaxUsers /\ users' = Append(users, row)
           /\ request' = [request EXCEPT ![r].pc = next, ![r].user = w]
  <2>1. /\ Len(users) \in Nat /\ Existing = 1..Len(users) /\ MaxUsers \in Nat /\ MaxLinks \in Nat
        /\ links \in Nat /\ w \in Id /\ w <= MaxUsers /\ w \in Nat /\ Len(users) <= w
        /\ \A v \in Existing : users[v].link \in Int
    BY <1>1, <1>4, Rows, AccountsAssumption DEF RowsTyped, Id, User
  <2>2. q.code \in 0..MaxUsers /\ q.code < w
    BY <1>2, <2>1 DEF RequestRow, Given
  <2>3. /\ row \in User /\ row.email = q.email /\ row.phone = q.phone /\ row.verified = verified
        /\ row.link = NoLink /\ row.referrer = q.code
    BY <1>2, <2>1, <2>2 DEF User, RequestRow, NoLink
  <2>4. verified => q.email \in holders
    BY <1>2 DEF Given
  <2> HIDE DEF row
  <2>5. /\ users' \in Seq(User) /\ Len(users') = w /\ Existing' = Existing \cup {w}
        /\ w \notin Existing /\ users'[w] = row
        /\ \A v \in Existing : users'[v] = users[v]
    BY <1>1, <1>4, <2>3, RowAdded
  <2>6. links' = links /\ devices' = devices
        /\ UNCHANGED <<inbox, holders, noticed, checked, sessions>>
    BY DEF outside
  <2>7. RowsTyped'
    BY <1>1, <2>1, <2>2, <2>3, <2>5, <2>6 DEF RowsTyped
  <2>8. LinksOwned'
    <3>1. \A m \in inbox : m.link # NoLink
      BY <1>1 DEF RowsTyped, NoLink
    <3>2. 0 <= links
      BY <2>1
    <3> QED BY <1>1, <2>3, <2>5, <2>6, <3>1, <3>2 DEF LinksOwned, NoLink
  <2>9. Grows
    BY <2>1, <2>3, <2>5, <2>6 DEF Grows
  <2>10. OneAccountEach'
    <3>1. \A v \in Existing : /\ q.email = None \/ users[v].email # q.email
                              /\ q.phone = None \/ users[v].phone # q.phone
      BY <1>4 DEF Free, ByEmail, ByPhone
    <3> QED BY <1>1, <2>3, <2>5, <3>1 DEF OneAccountEach
  <2>11. VerifiedByHolder' /\ SessionsVerified' /\ SharedDeviceNoticed'
    <3>1. sessions \subseteq Existing
      BY <1>1 DEF RowsTyped
    <3> QED BY <1>1, <2>3, <2>4, <2>5, <2>6, <3>1
          DEF VerifiedByHolder, SessionsVerified, SharedDeviceNoticed
  <2>12. Requests'
    <3>1. request' = [request EXCEPT ![r] = [request[r] EXCEPT !.pc = next, !.user = w]]
      BY <1>4
    <3>2. (/\ request'[r].pc = next /\ request'[r].user = w
           /\ request'[r].op = request[r].op /\ request'[r].email = request[r].email
           /\ request'[r].device = request[r].device)
             => Reached(request[r])'
      BY <1>2, <2>3, <2>5 DEF Reached
    <3>3. next \in PC /\ q.op # "profile"
      BY DEF PC
    <3> QED BY <1>1, <2>1, <2>7, <2>9, <3>1, <3>2, <3>3, Found
  <2> QED BY <2>7, <2>8, <2>10, <2>11, <2>12 DEF IInv
<1> QED BY <1>3, <1>4 DEF Insert

-----------------------------------------------------------------------------
\* The theorems.

\* The invariant holds at the start,
LEMMA Initially == Init => IInv
<1> SUFFICES ASSUME Init PROVE IInv
  OBVIOUS
<1>1. Len(users) = 0 /\ Existing = {}
  BY DEF Init, Existing
<1>2. RowsTyped
  BY <1>1, AccountsAssumption DEF Init, RowsTyped
<1>3. LinksOwned /\ OneAccountEach /\ VerifiedByHolder /\ SessionsVerified /\ SharedDeviceNoticed
  BY <1>1 DEF Init, LinksOwned, OneAccountEach, VerifiedByHolder, SessionsVerified, SharedDeviceNoticed
<1>4. Requests
  <2>1. Idle \in RequestRow
    BY AccountsAssumption DEF Idle, RequestRow, NoUser, NoLink
  <2>2. Given(Idle) /\ Reached(Idle)
    BY <1>1 DEF Given, Reached, Idle, NoUser
  <2> QED BY <2>1, <2>2 DEF Init, Requests
<1> QED BY <1>2, <1>3, <1>4 DEF IInv

\* is kept by every step,
LEMMA Inductive == IInv /\ [Next]_vars => IInv'
<1> SUFFICES ASSUME IInv, [Next]_vars PROVE IInv'
  OBVIOUS
<1>1. CASE UNCHANGED vars
  <2>1. UNCHANGED <<rows, outside>> /\ request' = request
    BY <1>1 DEF vars
  <2>2. /\ RowsTyped' /\ LinksOwned' /\ Grows
        /\ OneAccountEach' /\ VerifiedByHolder' /\ SessionsVerified' /\ SharedDeviceNoticed'
    BY <2>1, Still
  <2>3. RowsTyped /\ Requests
    BY DEF IInv
  <2>4. \A r \in Request : Given(request[r])' /\ Reached(request[r])'
    BY <2>1, <2>2, <2>3, KnowsStill
  <2> QED BY <2>1, <2>2, <2>3, <2>4 DEF IInv, Requests
<1>2. ASSUME NEW r \in Request, Create(r) \/ CreateGoogle(r) PROVE IInv'
  BY <1>2, InsertKeeps DEF Create, CreateGoogle, At
<1> QED BY <1>1, <1>2, StillSteps, AskKeeps, MintKeeps, SendMailKeeps, UpsertKeeps, MatchKeeps,
           WriteLinkKeeps, VerifyKeeps, ExpireKeeps, LinkGoogleKeeps, WriteNumberKeeps
     DEF Next, Handle

\* and so holds throughout.
LEMMA Invariance == Spec => []IInv
BY Initially, Inductive, PTL DEF Spec

\* Rows hold what they may, and a referrer is older than whom it referred, so that
\* the chains commissions follow end.
THEOREM TypesHold == Spec => []TypeOK
<1>1. IInv => TypeOK
  BY DEF IInv, RowsTyped, Requests, TypeOK
<1> QED BY <1>1, Invariance, PTL

\* An address or a number leads to one account, however the handlers that tested
\* it interleave.
THEOREM AccountsUnique == Spec => []OneAccountEach
<1>1. IInv => OneAccountEach
  BY DEF IInv
<1> QED BY <1>1, Invariance, PTL

\* An address is verified by its holder: a link reaches a row only while it is the
\* one mailed to the row's address.
THEOREM HolderVerifies == Spec => []VerifiedByHolder
<1>1. IInv => VerifiedByHolder
  BY DEF IInv
<1> QED BY <1>1, Invariance, PTL

\* No session comes before the verification of the account's address.
THEOREM SessionsAreVerified == Spec => []SessionsVerified
<1>1. IInv => SessionsVerified
  BY DEF IInv
<1> QED BY <1>1, Invariance, PTL

\* Of two accounts compared on one device, the one compared last is noticed.
THEOREM DevicesNoticed == Spec => []SharedDeviceNoticed
<1>1. IInv => SharedDeviceNoticed
  BY DEF IInv
<1> QED BY <1>1, Invariance, PTL
=============================================================================
