------------------------------ MODULE Sessions ------------------------------
(***************************************************************************)
(* Passwords and sessions of one account.  Tokens are not stored: each     *)
(* carries the tokenVersion of the row it was minted from and is accepted  *)
(* while the row still has that version.  Every request reads the row,     *)
(* waits for bcrypt or for the signature, and then writes or mints from    *)
(* what it read.                                                           *)
(***************************************************************************)
EXTENDS Integers, FiniteSets

CONSTANTS
  Password,
  Request,      \* requests in flight (a bound)
  Link,         \* reset links that may be mailed (a bound)
  MaxVersion,   \* password changes considered (a bound)
  ByGoogle,     \* stands for the password of a Google login
  NoLink, NoToken

ASSUME SessionsAssumption ==
  /\ IsFiniteSet(Request) /\ IsFiniteSet(Link)
  /\ MaxVersion \in Nat
  /\ ByGoogle \notin Password
  /\ NoLink \notin Link

VARIABLES
  version, password, blocked, link,  \* columns of the User row
  spent,     \* links with which a password was reset
  mailed,    \* links sent so far
  tokens,    \* tokens minted so far, each with what its holder presented
  request

row == <<version, password, blocked, link>>
serverVars == <<row, spent, mailed, tokens, request>>

Token == [version : 0..MaxVersion, proof : Password \cup {ByGoogle}]

ASSUME NoTokenAssumption == NoToken \notin Token

Op == {"login", "google", "refresh", "change", "forgot", "reset"}
Idle == [pc |-> "idle", op |-> "login", token |-> NoToken, password |-> ByGoogle,
         link |-> NoLink, version |-> 0]
RequestRow ==
  [pc : {"idle", "sent", "guarded", "mint", "write", "answered", "refused"},
   op : Op,
   token : Token \cup {NoToken},          \* presented, or given in the answer
   password : Password \cup {ByGoogle},   \* presented, or new
   link : Link \cup {NoLink},
   version : 0..MaxVersion]               \* of the row it read

Init ==
  /\ version = 0 /\ password \in Password /\ blocked = FALSE /\ link = NoLink
  /\ spent = {} /\ mailed = {} /\ tokens = {}
  /\ request = [r \in Request |-> Idle]

-----------------------------------------------------------------------------
\* JwtStrategy.validate and the test of refreshToken.
Valid(t) == t # NoToken /\ t.version = version /\ ~blocked

Send(r, q) ==
  /\ request[r].pc = "idle"
  /\ request' = [request EXCEPT ![r] = q]

Goto(r, pc) == request' = [request EXCEPT ![r].pc = pc]

\* What a client may send.
Ask(r) ==
  /\ \/ \E p \in Password : Send(r, [Idle EXCEPT !.pc = "sent", !.password = p])
     \/ Send(r, [Idle EXCEPT !.pc = "sent", !.op = "google"])
     \/ Send(r, [Idle EXCEPT !.pc = "sent", !.op = "forgot"])
     \/ \E t \in tokens : Send(r, [Idle EXCEPT !.pc = "sent", !.op = "refresh", !.token = t])
     \/ \E t \in tokens, p \in Password :
          Send(r, [Idle EXCEPT !.pc = "sent", !.op = "change", !.token = t, !.password = p])
     \/ \E k \in mailed : Send(r, [Idle EXCEPT !.pc = "sent", !.op = "reset", !.link = k])
  /\ UNCHANGED <<row, spent, mailed, tokens>>

\* The guard of PATCH /users/me/password runs before the handler reads.
Guard(r) ==
  /\ request[r].pc = "sent" /\ request[r].op = "change"
  /\ Goto(r, IF Valid(request[r].token) THEN "guarded" ELSE "refused")
  /\ UNCHANGED <<row, spent, mailed, tokens>>

\* What each handler asks of the row it read; Google logins are not refused
\* to a blocked account.
Accepted(q) ==
  CASE q.op = "login"   -> q.password = password /\ ~blocked
    [] q.op = "refresh" -> Valid(q.token)
    [] q.op = "change"  -> q.password = password
    [] q.op = "reset"   -> link = q.link
    [] OTHER            -> TRUE

Read(r) ==
  LET q == request[r]
      ready == IF q.op = "change" THEN "guarded" ELSE "sent"
      next == IF q.op \in {"login", "google", "refresh"} THEN "mint" ELSE "write"
  IN  /\ q.pc = ready
      /\ request' = [request EXCEPT ![r].pc = IF Accepted(q) THEN next ELSE "refused",
                                    ![r].version = version]
      /\ UNCHANGED <<row, spent, mailed, tokens>>

\* A refreshed token rests on what its holder presented at the login.
Minted(q, v) ==
  [version |-> v, proof |-> IF q.op = "refresh" THEN q.token.proof ELSE q.password]

\* Mutant of Mint: the version is read again when the token is signed.
MintCurrent(r) ==
  LET t == Minted(request[r], version)
  IN  /\ request[r].pc = "mint"
      /\ tokens' = tokens \cup {t}
      /\ request' = [request EXCEPT ![r].pc = "answered", ![r].token = t]
      /\ UNCHANGED <<row, spent, mailed>>

\* Mutant of Mint: refresh tokens are rotated by raising the version.
MintRotating(r) ==
  LET t == Minted(request[r], version + 1)
  IN  /\ request[r].pc = "mint" /\ version < MaxVersion
      /\ version' = version + 1
      /\ tokens' = tokens \cup {t}
      /\ request' = [request EXCEPT ![r].pc = "answered", ![r].token = t]
      /\ UNCHANGED <<password, blocked, link, spent, mailed>>

\* Mutant of Mint: the version signed is the one the next change will have.
MintAhead(r) ==
  LET t == Minted(request[r], request[r].version + 1)
  IN  /\ request[r].pc = "mint"
      /\ tokens' = tokens \cup {t}
      /\ request' = [request EXCEPT ![r].pc = "answered", ![r].token = t]
      /\ UNCHANGED <<row, spent, mailed>>

\* generateTokens signs the version of the row that was read.
Mint(r) ==
  LET t == Minted(request[r], request[r].version)
  IN  /\ request[r].pc = "mint"
      /\ tokens' = tokens \cup {t}
      /\ request' = [request EXCEPT ![r].pc = "answered", ![r].token = t]
      /\ UNCHANGED <<row, spent, mailed>>

WriteChange(r) ==
  /\ request[r].pc = "write" /\ request[r].op = "change"
  /\ version < MaxVersion
  /\ password' \in Password
  /\ version' = version + 1
  /\ Goto(r, "answered")
  /\ UNCHANGED <<blocked, link, spent, mailed, tokens>>

\* Mutant of WriteReset: the link stays in the row.
WriteResetKeepLink(r) ==
  /\ request[r].pc = "write" /\ request[r].op = "reset"
  /\ version < MaxVersion
  /\ password' \in Password
  /\ version' = version + 1
  /\ spent' = spent \cup {request[r].link}
  /\ Goto(r, "answered")
  /\ UNCHANGED <<blocked, link, mailed, tokens>>

\* The row is written whatever happened since it was found by its link; the
\* link it holds by then, even a newer one, is cleared.
WriteReset(r) ==
  /\ request[r].pc = "write" /\ request[r].op = "reset"
  /\ version < MaxVersion
  /\ password' \in Password
  /\ version' = version + 1
  /\ link' = NoLink
  /\ spent' = spent \cup {request[r].link}
  /\ Goto(r, "answered")
  /\ UNCHANGED <<blocked, mailed, tokens>>

\* A new random link replaces the previous one.
WriteForgot(r) ==
  /\ request[r].pc = "write" /\ request[r].op = "forgot"
  /\ \E k \in Link \ mailed : link' = k /\ mailed' = mailed \cup {k}
  /\ Goto(r, "answered")
  /\ UNCHANGED <<version, password, blocked, spent, tokens>>

\* suspendUser, banUser, activateUser, reactivateUser.
SetBlocked ==
  /\ blocked' = ~blocked
  /\ UNCHANGED <<version, password, link, spent, mailed, tokens, request>>

\* The link is an hour old, or the cron clears it.
ExpireLink ==
  /\ link # NoLink
  /\ link' = NoLink
  /\ UNCHANGED <<version, password, blocked, spent, mailed, tokens, request>>

\* The answer reaches the client, or a failure ends the request.
End(r) ==
  /\ request[r].pc # "idle"
  /\ request' = [request EXCEPT ![r] = Idle]
  /\ UNCHANGED <<row, spent, mailed, tokens>>

Handle(r) ==
  Guard(r) \/ Read(r) \/ Mint(r) \/ WriteChange(r) \/ WriteReset(r) \/ WriteForgot(r)

Next ==
  \/ \E r \in Request : Ask(r) \/ Handle(r) \/ End(r)
  \/ SetBlocked
  \/ ExpireLink

Spec == Init /\ [][Next]_serverVars

-----------------------------------------------------------------------------
\* Properties.

\* Columns, tokens and requests hold what they may; a link in the row was
\* mailed.
TypeOK ==
  /\ version \in 0..MaxVersion
  /\ password \in Password
  /\ blocked \in BOOLEAN
  /\ link \in mailed \cup {NoLink}
  /\ mailed \subseteq Link /\ spent \subseteq mailed
  /\ tokens \subseteq Token
  /\ request \in [Request -> RequestRow]

\* A change or reset of the password ends every session opened with another
\* one, the logins and refreshes in flight included.
SessionsFollowPassword ==
  \A t \in tokens :
    t.version = version => t.proof \in {password, ByGoogle}

\* Once a reset has gone through with a link, no request finds it again: only
\* those that had already read it may still write.
LinkSpent == link \notin spent
=============================================================================
