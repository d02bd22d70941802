------------------------------ MODULE Accounts ------------------------------
(***************************************************************************)
(* Accounts from registration to the first sign-in: by e-mail or phone or  *)
(* by Google, with the link that verifies an address, the referrer, and    *)
(* the devices by which accounts of one person are recognised.  Every      *)
(* handler tests what it read one await at a time; only the unique indexes *)
(* of the users table are exclusive.                                       *)
(***************************************************************************)
EXTENDS Integers, Sequences, FiniteSets

CONSTANTS
  Address, Number, Device,
  Request,               \* requests in flight (a bound)
  MaxUsers, MaxLinks,    \* accounts created and links mailed (bounds)
  None

ASSUME AccountsAssumption ==
  /\ IsFiniteSet(Request)
  /\ MaxUsers \in Nat /\ MaxLinks \in Nat
  /\ None \notin Address \cup Number \cup Device

VARIABLES
  users,      \* User rows, in order of creation
  inbox,      \* verification links mailed: to an address, with a number
  links,      \* links drawn so far
  holders,    \* addresses whose holder opened a link or signed in by Google
  devices,    \* DeviceFingerprint rows
  noticed,    \* users logged as sharing a device
  checked,    \* of the rows of devices, those whose user was compared with others
  sessions,   \* users given tokens
  request

rows == <<users, links, devices>>
outside == <<inbox, holders, noticed, checked, sessions>>
vars == <<rows, outside, request>>

Id == 1..MaxUsers
NoUser == 0
NoLink == 0

User == [email : Address \cup {None}, phone : Number \cup {None},
         password : BOOLEAN, verified : BOOLEAN, link : 0..MaxLinks,
         referrer : 0..MaxUsers]

Idle == [pc |-> "idle", op |-> "register", email |-> None, phone |-> None,
         device |-> None, code |-> NoUser, user |-> NoUser, link |-> NoLink]

RequestRow ==
  [pc : {"idle", "email", "phone", "create", "upsert", "match",
         "link", "mail", "find", "mint", "write"},
   op : {"register", "login", "google", "resend", "verify", "profile"},
   email : Address \cup {None}, phone : Number \cup {None},
   device : Device \cup {None},
   code : 0..MaxUsers,    \* whose referral code was given, then whose was found
   user : 0..MaxUsers,    \* the row found or created
   link : 0..MaxLinks]    \* presented, or to be mailed

Init ==
  /\ users = <<>> /\ links = 0 /\ devices = {}
  /\ inbox = {} /\ holders = {} /\ noticed = {} /\ checked = {} /\ sessions = {}
  /\ request = [r \in Request |-> Idle]

-----------------------------------------------------------------------------
Existing == DOMAIN users
ByEmail(a) == {u \in Existing : a # None /\ users[u].email = a}
ByPhone(n) == {u \in Existing : n # None /\ users[u].phone = n}

At(r, pc) == request[r].pc = pc
Goto(r, pc) == request' = [request EXCEPT ![r].pc = pc]
End(r) == request' = [request EXCEPT ![r] = Idle]

\* What a visitor or a user may send; a code given is the newest user's.
Codes == {NoUser, Len(users)}

Sent(pc, op, emails, phones, used, codes, ids) ==
  [pc : {pc}, op : {op}, email : emails, phone : phones, device : used,
   code : codes, user : ids, link : {NoLink}]

Registrations ==
  Sent("email", "register", Address \cup {None}, Number \cup {None}, Device, Codes, {NoUser})

Logins ==
  Sent("find", "login", Address, {None}, Device, {NoUser}, {NoUser})
  \cup Sent("find", "login", {None}, Number, Device, {NoUser}, {NoUser})

\* NextAuth's callback passes the identity on, with the code of the cookie that
\* the registration page leaves, if any.
ByGoogle == Sent("find", "google", Address, {None}, {None}, Codes, {NoUser})

Resends == Sent("find", "resend", Address, {None}, {None}, {NoUser}, {NoUser})

LinksOpened ==
  {[Idle EXCEPT !.op = "verify", !.pc = "find", !.email = m.to, !.link = m.link] : m \in inbox}

ProfileChanges == Sent("find", "profile", {None}, Number, {None}, {NoUser}, sessions)

Ask(r) ==
  /\ At(r, "idle")
  /\ \E q \in Registrations \cup Logins \cup ByGoogle \cup Resends \cup LinksOpened \cup ProfileChanges :
       /\ q.email # None \/ q.phone # None \/ q.op = "profile"
       /\ request' = [request EXCEPT ![r] = q]
       /\ holders' = IF q.op \in {"google", "verify"} THEN holders \cup {q.email} ELSE holders
  /\ UNCHANGED <<rows, inbox, noticed, checked, sessions>>

-----------------------------------------------------------------------------
\* register

CheckEmail(r) ==
  /\ At(r, "email")
  /\ IF ByEmail(request[r].email) = {} THEN Goto(r, "phone") ELSE End(r)
  /\ UNCHANGED <<rows, outside>>

\* Then the referrer is looked up by a code, which no row ever loses; code 0 is
\* none, or one nobody has.
CheckPhone(r) ==
  /\ At(r, "phone")
  /\ IF ByPhone(request[r].phone) = {} THEN Goto(r, "create") ELSE End(r)
  /\ UNCHANGED <<rows, outside>>

\* The unique indexes on email and phone.
Free(q) == ByEmail(q.email) = {} /\ ByPhone(q.phone) = {}

\* Mutant of Insert: the tests made before are relied on.
InsertAnyway(r, verified, next) ==
  LET q == request[r]
  IN  /\ Len(users) < MaxUsers
      /\ users' = Append(users, [email |-> q.email, phone |-> q.phone,
                                 password |-> q.op = "register", verified |-> verified,
                                 link |-> NoLink, referrer |-> q.code])
      /\ request' = [request EXCEPT ![r].pc = next, ![r].user = Len(users) + 1]

\* Mutant of Insert: the code is looked up once the row has its own.
InsertFirst(r, verified, next) ==
  LET q == request[r]
  IN  IF Free(q)
      THEN /\ Len(users) < MaxUsers
           /\ users' = Append(users, [email |-> q.email, phone |-> q.phone,
                                      password |-> q.op = "register", verified |-> verified,
                                      link |-> NoLink, referrer |-> Len(users) + 1])
           /\ request' = [request EXCEPT ![r].pc = next, ![r].user = Len(users) + 1]
      ELSE End(r) /\ UNCHANGED users

\* The row and its wallet; a duplicate makes the request fail.
Insert(r, verified, next) ==
  LET q == request[r]
  IN  IF Free(q)
      THEN /\ Len(users) < MaxUsers
           /\ users' = Append(users, [email |-> q.email, phone |-> q.phone,
                                      password |-> q.op = "register", verified |-> verified,
                                      link |-> NoLink, referrer |-> q.code])
           /\ request' = [request EXCEPT ![r].pc = next, ![r].user = Len(users) + 1]
      ELSE End(r) /\ UNCHANGED users

\* Mutant of Create: the address is trusted, as Google's are.
CreateTrusting(r) ==
  /\ At(r, "create") /\ request[r].op = "register"
  /\ Insert(r, TRUE, "upsert")
  /\ UNCHANGED <<links, devices, outside>>

Create(r) ==
  /\ At(r, "create") /\ request[r].op = "register"
  /\ Insert(r, FALSE, "upsert")
  /\ UNCHANGED <<links, devices, outside>>

-----------------------------------------------------------------------------
\* recordFingerprint, for registrations and logins.  Addresses of the network,
\* compared in the same way afterwards, are left out.

AfterDevice(q) ==
  IF q.op = "register" THEN IF q.email # None THEN "link" ELSE "mint" ELSE "idle"

Recorded(r) ==
  LET next == AfterDevice(request[r])
  IN  IF next = "idle" THEN End(r) ELSE Goto(r, next)

UpsertDevice(r) ==
  /\ At(r, "upsert")
  /\ devices' = devices \cup {<<request[r].user, request[r].device>>}
  /\ Goto(r, "match")
  /\ UNCHANGED <<users, links, outside>>

\* Mutant of MatchDevice: only accounts created before are looked at.
MatchOlder(r) ==
  LET q == request[r]
  IN  /\ At(r, "match")
      /\ noticed' = IF \E x \in devices : x[2] = q.device /\ x[1] < q.user
                    THEN noticed \cup {q.user} ELSE noticed
      /\ checked' = checked \cup {<<q.user, q.device>>}
      /\ Recorded(r)
      /\ UNCHANGED <<rows, inbox, holders, sessions>>

MatchDevice(r) ==
  LET q == request[r]
  IN  /\ At(r, "match")
      /\ noticed' = IF \E x \in devices : x[2] = q.device /\ x[1] # q.user
                    THEN noticed \cup {q.user} ELSE noticed
      /\ checked' = checked \cup {<<q.user, q.device>>}
      /\ Recorded(r)
      /\ UNCHANGED <<rows, inbox, holders, sessions>>

\* Failures of recordFingerprint are ignored.
DeviceFails(r) ==
  /\ At(r, "upsert") \/ At(r, "match")
  /\ Recorded(r)
  /\ UNCHANGED <<rows, outside>>

-----------------------------------------------------------------------------
\* sendVerificationEmail: a new link replaces the previous one, then goes out.

WriteLink(r) ==
  /\ At(r, "link") /\ links < MaxLinks
  /\ links' = links + 1
  /\ users' = [users EXCEPT ![request[r].user].link = links + 1]
  /\ request' = [request EXCEPT ![r].pc = "mail", ![r].link = links + 1]
  /\ UNCHANGED <<devices, outside>>

SendMail(r, ok) ==
  /\ At(r, "mail")
  /\ inbox' = IF ok THEN inbox \cup {[to |-> request[r].email, link |-> request[r].link]}
              ELSE inbox
  /\ End(r)
  /\ UNCHANGED <<rows, holders, noticed, checked, sessions>>

\* resendVerification says the same whether or not it sends.
FindUnverified(r) ==
  /\ At(r, "find") /\ request[r].op = "resend"
  /\ \/ \E u \in ByEmail(request[r].email) :
          /\ ~users[u].verified
          /\ request' = [request EXCEPT ![r].pc = "link", ![r].user = u]
     \/ /\ \A u \in ByEmail(request[r].email) : users[u].verified
        /\ End(r)
  /\ UNCHANGED <<rows, outside>>

FindLink(r) ==
  /\ At(r, "find") /\ request[r].op = "verify"
  /\ \/ \E u \in Existing :
          /\ users[u].link = request[r].link
          /\ request' = [request EXCEPT ![r].pc = "write", ![r].user = u]
     \/ /\ \A u \in Existing : users[u].link # request[r].link
        /\ End(r)
  /\ UNCHANGED <<rows, outside>>

\* The link in the row is cleared even if a resend has replaced it meanwhile.
VerifyEmail(r) ==
  /\ At(r, "write") /\ request[r].op = "verify"
  /\ users' = [users EXCEPT ![request[r].user].verified = TRUE,
                            ![request[r].user].link = NoLink]
  /\ End(r)
  /\ UNCHANGED <<links, devices, outside>>

\* A link is a day old, or the cron clears it.
ExpireLink(u) ==
  /\ u \in Existing /\ users[u].link # NoLink
  /\ users' = [users EXCEPT ![u].link = NoLink]
  /\ UNCHANGED <<links, devices, outside, request>>

-----------------------------------------------------------------------------
\* login.  The password given is taken to be right, and the account neither
\* suspended nor banned.

\* Mutant of MayLogIn: the address is asked about when it is what one logs in with.
MayLogInByPhone(q, u) == users[u].password /\ (q.email # None => users[u].verified)

MayLogIn(q, u) == users[u].password /\ (users[u].email # None => users[u].verified)

FindLogin(r) ==
  LET q == request[r]  found == ByEmail(q.email) \cup ByPhone(q.phone)
  IN  /\ At(r, "find") /\ q.op = "login"
      /\ \/ \E u \in found :
              /\ MayLogIn(q, u)
              /\ request' = [request EXCEPT ![r].pc = "mint", ![r].user = u]
         \/ /\ \A u \in found : ~MayLogIn(q, u)
            /\ End(r)
      /\ UNCHANGED <<rows, outside>>

\* Tokens are signed, and for a login the device is recorded afterwards.
Mint(r) ==
  /\ At(r, "mint")
  /\ sessions' = sessions \cup {request[r].user}
  /\ IF request[r].op = "login" THEN Goto(r, "upsert") ELSE End(r)
  /\ UNCHANGED <<rows, inbox, holders, noticed, checked>>

-----------------------------------------------------------------------------
\* googleAuth, once Google has signed the address.

FindGoogle(r) ==
  /\ At(r, "find") /\ request[r].op = "google"
  /\ \/ \E u \in ByEmail(request[r].email) :
          request' = [request EXCEPT ![r].pc = "write", ![r].user = u, ![r].code = NoUser]
     \/ ByEmail(request[r].email) = {} /\ Goto(r, "create")
  /\ UNCHANGED <<rows, outside>>

\* An existing account only gains what it lacks.
LinkGoogle(r) ==
  /\ At(r, "write") /\ request[r].op = "google"
  /\ users' = [users EXCEPT ![request[r].user].verified = TRUE]
  /\ Goto(r, "mint")
  /\ UNCHANGED <<links, devices, outside>>

CreateGoogle(r) ==
  /\ At(r, "create") /\ request[r].op = "google"
  /\ Insert(r, TRUE, "mint")
  /\ UNCHANGED <<links, devices, outside>>

-----------------------------------------------------------------------------
\* updateProfile: the number is looked up, then written.

CheckNumber(r) ==
  /\ At(r, "find") /\ request[r].op = "profile"
  /\ IF ByPhone(request[r].phone) \subseteq {request[r].user} THEN Goto(r, "write") ELSE End(r)
  /\ UNCHANGED <<rows, outside>>

WriteNumber(r) ==
  LET q == request[r]
  IN  /\ At(r, "write") /\ q.op = "profile"
      /\ users' = IF ByPhone(q.phone) \subseteq {q.user}
                  THEN [users EXCEPT ![q.user].phone = q.phone] ELSE users
      /\ End(r)
      /\ UNCHANGED <<links, devices, outside>>

\* A request dies between two awaits.
Abort(r) ==
  /\ ~At(r, "idle")
  /\ End(r)
  /\ UNCHANGED <<rows, outside>>

Handle(r) ==
  \/ CheckEmail(r) \/ CheckPhone(r) \/ Create(r)
  \/ UpsertDevice(r) \/ MatchDevice(r) \/ DeviceFails(r)
  \/ WriteLink(r) \/ (\E ok \in BOOLEAN : SendMail(r, ok))
  \/ FindUnverified(r) \/ FindLink(r) \/ VerifyEmail(r)
  \/ FindLogin(r) \/ Mint(r)
  \/ FindGoogle(r) \/ LinkGoogle(r) \/ CreateGoogle(r)
  \/ CheckNumber(r) \/ WriteNumber(r) \/ Abort(r)

Next ==
  \/ \E r \in Request : Ask(r) \/ Handle(r)
  \/ \E u \in Id : ExpireLink(u)

Spec == Init /\ [][Next]_vars

-----------------------------------------------------------------------------
\* Properties.

\* Rows and requests hold what they may; a user's referrer is older.
TypeOK ==
  /\ users \in Seq(User) /\ Len(users) <= MaxUsers
  /\ \A u \in Existing : users[u].referrer < u
  /\ links \in 0..MaxLinks
  /\ devices \subseteq Existing \X Device /\ checked \subseteq devices
  /\ noticed \subseteq Existing /\ sessions \subseteq Existing
  /\ inbox \subseteq [to : Address, link : 1..MaxLinks]
  /\ holders \subseteq Address
  /\ request \in [Request -> RequestRow]

\* However registrations, Google sign-ins and profile changes race, an address
\* or a number leads to one account.
OneAccountEach ==
  \A u, v \in Existing :
    u # v => /\ users[u].email = None \/ users[u].email # users[v].email
             /\ users[u].phone = None \/ users[u].phone # users[v].phone

\* An address is verified by its holder, whatever links were resent, expired or
\* opened late.
VerifiedByHolder ==
  \A u \in Existing : users[u].verified => users[u].email \in holders

\* Whoever has a session for an account with an address has verified it, by
\* whichever of the ways in.
SessionsVerified ==
  \A u \in sessions : users[u].email # None => users[u].verified

\* Of two accounts used on one device, at least one is noticed, even when they
\* are used at the same moment.
SharedDeviceNoticed ==
  \A x, y \in checked :
    (x[2] = y[2] /\ x[1] # y[1]) => x[1] \in noticed \/ y[1] \in noticed
=============================================================================
