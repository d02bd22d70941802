--------------------------- MODULE Screens_proofs ---------------------------
(***************************************************************************)
(* That whatever a page of the tables and its calls in flight go through,  *)
(* no button and no skeleton stays for good, the rows displayed are those  *)
(* asked for and include the user's own changes, and a handler is not sent *)
(* twice: for any pages that keep to WellFormed, any rows, filters and     *)
(* number of calls.                                                        *)
(***************************************************************************)
EXTENDS Screens, SequenceTheorems, TLAPS

-----------------------------------------------------------------------------
\* Sequences.

\* A sequence without its k-th element: what was after it moves up.
LEMMA Removed ==
  ASSUME NEW S, NEW s \in Seq(S), NEW k \in DOMAIN s
  PROVE  /\ RemoveAt(s, k) \in Seq(S)
         /\ DOMAIN s = 1..Len(s) /\ Len(s) \in Nat
         /\ DOMAIN RemoveAt(s, k) = 1..(Len(s) - 1)
         /\ \A j \in 1..(Len(s) - 1) :
              RemoveAt(s, k)[j] = IF j < k THEN s[j] ELSE s[j + 1]
<1> DEFINE a == SubSeq(s, 1, k - 1)
           b == SubSeq(s, k + 1, Len(s))
<1>1. Len(s) \in Nat /\ DOMAIN s = 1..Len(s) /\ k \in 1..Len(s)
  BY LenProperties
<1>2. \A i \in 1..Len(s) : s[i] \in S
  BY ElementOfSeq
<1>3. /\ a \in Seq(S)
      /\ Len(a) = IF 1 <= k - 1 THEN (k - 1) - 1 + 1 ELSE 0
      /\ \A i \in 1..((k - 1) - 1 + 1) : a[i] = s[1 + i - 1]
  <2>1. \A i \in 1..(k - 1) : s[i] \in S
    BY <1>1, <1>2
  <2>2. 1 \in Int /\ k - 1 \in Int
    BY <1>1
  <2> QED
    BY <2>1, <2>2, SubSeqProperties
<1>4. /\ b \in Seq(S)
      /\ Len(b) = IF k + 1 <= Len(s) THEN Len(s) - (k + 1) + 1 ELSE 0
      /\ \A i \in 1..(Len(s) - (k + 1) + 1) : b[i] = s[(k + 1) + i - 1]
  <2>1. \A i \in (k + 1)..Len(s) : s[i] \in S
    BY <1>1, <1>2
  <2>2. k + 1 \in Int /\ Len(s) \in Int
    BY <1>1
  <2> QED
    BY <2>1, <2>2, SubSeqProperties
<1>5. RemoveAt(s, k) = a \o b
  BY DEF RemoveAt
<1> HIDE DEF a, b
<1>6. Len(a) = k - 1 /\ Len(b) = Len(s) - k
  BY <1>1, <1>3, <1>4
<1>7. /\ a \o b \in Seq(S)
      /\ Len(a \o b) = Len(a) + Len(b)
      /\ \A i \in 1..(Len(a) + Len(b)) : (a \o b)[i] = IF i <= Len(a) THEN a[i] ELSE b[i - Len(a)]
  BY <1>3, <1>4, ConcatProperties
<1>8. Len(a \o b) = Len(s) - 1
  BY <1>1, <1>6, <1>7
<1>9. DOMAIN (a \o b) = 1..(Len(s) - 1)
  BY <1>7, <1>8, LenProperties
<1>10. ASSUME NEW j \in 1..(Len(s) - 1)
       PROVE  (a \o b)[j] = IF j < k THEN s[j] ELSE s[j + 1]
  <2>1. (a \o b)[j] = IF j <= k - 1 THEN a[j] ELSE b[j - (k - 1)]
    BY <1>1, <1>6, <1>7
  <2>2. CASE j < k
    BY <2>1, <2>2, <1>1, <1>3
  <2>3. CASE ~(j < k)
    <3>1. j - (k - 1) \in 1..(Len(s) - (k + 1) + 1)
      BY <2>3, <1>1
    <3>2. b[j - (k - 1)] = s[(k + 1) + (j - (k - 1)) - 1]
      BY <3>1, <1>4
    <3> QED
      BY <2>1, <2>3, <3>2, <1>1
  <2> QED
    BY <2>2, <2>3
<1> QED
  BY <1>1, <1>5, <1>7, <1>9, <1>10

\* A sequence with one more element.
LEMMA Appended ==
  ASSUME NEW S, NEW s \in Seq(S), NEW e \in S
  PROVE  /\ Append(s, e) \in Seq(S)
         /\ Len(s) \in Nat /\ Len(Append(s, e)) = Len(s) + 1
         /\ DOMAIN s = 1..Len(s) /\ DOMAIN Append(s, e) = 1..(Len(s) + 1)
         /\ \A j \in 1..Len(s) : Append(s, e)[j] = s[j]
         /\ Append(s, e)[Len(s) + 1] = e
  BY AppendProperties, LenProperties

\* A sequence changed element by element.
LEMMA Mapped ==
  ASSUME NEW S, NEW s \in Seq(S), NEW t, t = [j \in DOMAIN s |-> t[j]],
         \A j \in DOMAIN s : t[j] \in S
  PROVE  t \in Seq(S) /\ Len(t) = Len(s)
  BY LenProperties

-----------------------------------------------------------------------------
\* The invariant.

Named == {o.flag : o \in page.ops} \cup {page.refreshing, None}
CallRow ==
  [op : page.ops \cup {Fetch}, item : Item \cup {NoItem},
   at : {"sent", "reload", "kick", "patch", "append", "rest", "leave", "rows"},
   q : Query, frees : SUBSET Named, missed : SUBSET (Item \cup {NoItem}), passed : BOOLEAN]

\* A load lowers the page's flag and has missed nothing before it is read; a handler
\* lowers the flag it raised.
InFlight == {c \in CallRow :
  /\ c.item \in IF c.op.target = "page" THEN {NoItem} ELSE Item
  /\ c.at # "sent" => c.at \in c.op.ends
  /\ IsLoad(c) => c.at \in {"sent", "rows"} /\ page.refreshing \in c.frees
  /\ IsLoad(c) /\ c.at = "sent" => c.missed = {}
  /\ ~IsLoad(c) => c.at # "rows" /\ c.frees = {c.op.flag}}

Typed ==
  /\ page \in Opened /\ query \in Query
  /\ shown \in [q : Query \cup {NoQuery}, rows : Rows]
  /\ loading \in BOOLEAN
  /\ DOMAIN busy = Flags
  /\ picked \in Item \cup {NoItem}
  /\ calls \in Seq(InFlight) /\ Len(calls) <= MaxCalls
  /\ unseen \subseteq Item \cup {NoItem}
  /\ excuse \subseteq {"stale", "crossed", "spoilt"}

\* A handler that nothing has overtaken holds its flag alone.
Held(k) ==
  ~IsLoad(calls[k]) /\ ~calls[k].passed /\ calls[k].op.flag # None =>
    /\ busy[calls[k].op.flag] = <<calls[k].op.tag, calls[k].item>>
    /\ \A j \in DOMAIN calls \ {k} : calls[k].op.flag \notin calls[j].frees

\* Loads whose answer will not come after that of a later one.
Fresh == {k \in DOMAIN calls : IsLoad(calls[k]) /\ ~calls[k].passed}

\* The rows displayed, or the last load, answer the filters displayed.
Current ==
  page.loads /\ excuse \subseteq {"crossed"} =>
    /\ shown.q = query \/ Fresh # {}
    /\ \A k \in Fresh : calls[k].q = query \/ \E j \in Fresh : j > k

\* A change of item i will be displayed: by the handler that made it, or by a load
\* sent after the k-th call and read after the change.
Pending(i, k) ==
  \/ \E j \in DOMAIN calls :
       ~IsLoad(calls[j]) /\ calls[j].item = i /\ calls[j].at \in {"reload", "kick", "patch"}
  \/ \E j \in Fresh : j > k /\ i \notin calls[j].missed

NothingForgotten ==
  excuse \subseteq {"stale"} =>
    /\ \A i \in unseen : Pending(i, 0)
    /\ \A k \in Fresh : \A i \in calls[k].missed : Pending(i, k)

IInv ==
  /\ Typed /\ BusyHasCause /\ RepeatsOnlyAfterOverlap
  /\ \A k \in DOMAIN calls : Held(k)
  /\ Current /\ NothingForgotten

-----------------------------------------------------------------------------
\* Types.

LEMMA PageOK == Typed => WellFormed(page)
  BY PagesAssumption DEF Typed

\* No handler of a page is a load.
LEMMA OpOK ==
  ASSUME Typed, NEW o \in page.ops
  PROVE  /\ o # Fetch
         /\ o.target \in {"row", "picked", "page"}
         /\ o.ends \subseteq {"reload", "kick", "patch", "append", "rest", "leave"}
         /\ "patch" \in o.ends => o.patch \in page.statuses
         /\ o.flag # None => o.flag # page.refreshing
         /\ o.flag \in Named
<1>1. WellFormed(page)
  BY PageOK
<1>2. o.ends # {"rows"}
  BY <1>1 DEF WellFormed
<1> QED
  BY <1>1, <1>2 DEF WellFormed, Fetch, Named

LEMMA SamePage ==
  ASSUME page' = page
  PROVE  InFlight' = InFlight /\ Flags' = Flags /\ Rows' = Rows /\ Named' = Named
  BY DEF InFlight, CallRow, Named, IsLoad, Flags, Rows

LEMMA FlagsNamed == ASSUME NEW f \in Named, f # None PROVE f \in Flags
  BY DEF Named, Flags

LEMMA FlagsAre == Flags = Named \ {None}
  BY DEF Named, Flags

\* Calls that are sent.
LEMMA LoadIn ==
  ASSUME NEW q \in Query, NEW flags \in SUBSET Named
  PROVE  /\ Load(q, flags) \in InFlight
         /\ IsLoad(Load(q, flags)) /\ ~Load(q, flags).passed
         /\ Load(q, flags).missed = {} /\ Load(q, flags).q = q
         /\ Load(q, flags).frees = flags \cup {page.refreshing}
<1>1. Fetch.target = "page"
  BY DEF Fetch
<1>2. flags \cup {page.refreshing} \in SUBSET Named
  BY DEF Named
<1>3. Load(q, flags) \in CallRow
  BY <1>2 DEF CallRow, Load
<1> QED
  BY <1>1, <1>3 DEF InFlight, Load, IsLoad

LEMMA SentIn ==
  ASSUME Typed, NEW o \in page.ops, NEW i \in Item \cup {NoItem}, Offered(o, i)
  PROVE  /\ Sent(o, i) \in InFlight
         /\ Sent(o, i).op = o /\ Sent(o, i).item = i /\ ~IsLoad(Sent(o, i))
         /\ Sent(o, i).frees = {o.flag} /\ Sent(o, i).at = "sent"
         /\ Sent(o, i).passed = (Holders(o) # {})
<1>1. i \in IF o.target = "page" THEN {NoItem} ELSE Item
  BY OpOK DEF Offered
<1>2. o # Fetch /\ {o.flag} \in SUBSET Named /\ query \in Query
  BY OpOK DEF Typed
<1>3. Sent(o, i) \in CallRow
  BY <1>2 DEF CallRow, Sent
<1> QED
  BY <1>1, <1>2, <1>3 DEF InFlight, Sent, IsLoad

\* Calls that change.
LEMMA PassedIn ==
  ASSUME NEW c \in InFlight
  PROVE  /\ [c EXCEPT !.passed = TRUE] \in InFlight
         /\ [c EXCEPT !.passed = TRUE].op = c.op /\ [c EXCEPT !.passed = TRUE].item = c.item
         /\ [c EXCEPT !.passed = TRUE].at = c.at /\ [c EXCEPT !.passed = TRUE].q = c.q
         /\ [c EXCEPT !.passed = TRUE].frees = c.frees /\ [c EXCEPT !.passed = TRUE].missed = c.missed
         /\ [c EXCEPT !.passed = TRUE].passed
  BY DEF InFlight, CallRow, IsLoad

LEMMA EndIn ==
  ASSUME Typed, NEW c \in InFlight, NEW e \in c.op.ends
  PROVE  /\ [c EXCEPT !.at = e] \in InFlight
         /\ [c EXCEPT !.at = e].op = c.op /\ [c EXCEPT !.at = e].item = c.item
         /\ [c EXCEPT !.at = e].at = e /\ [c EXCEPT !.at = e].q = c.q
         /\ [c EXCEPT !.at = e].frees = c.frees /\ [c EXCEPT !.at = e].missed = c.missed
         /\ [c EXCEPT !.at = e].passed = c.passed
<1>1. c \in CallRow
  BY DEF InFlight
<1>2. CASE IsLoad(c)
  <2>1. e = "rows"
    BY <1>2 DEF IsLoad, Fetch
  <2> QED
    BY <1>1, <1>2, <2>1 DEF InFlight, CallRow, IsLoad
<1>3. CASE ~IsLoad(c)
  <2>1. e \in {"reload", "kick", "patch", "append", "rest", "leave"}
    BY <1>1, <1>3, OpOK DEF CallRow, IsLoad
  <2> QED
    BY <1>1, <1>3, <2>1 DEF InFlight, CallRow, IsLoad
<1> QED
  BY <1>2, <1>3

LEMMA MissIn ==
  ASSUME NEW c \in InFlight, IsLoad(c), c.at # "sent", NEW X \in SUBSET (Item \cup {NoItem})
  PROVE  /\ [c EXCEPT !.missed = @ \cup X] \in InFlight
         /\ [c EXCEPT !.missed = @ \cup X].op = c.op /\ [c EXCEPT !.missed = @ \cup X].item = c.item
         /\ [c EXCEPT !.missed = @ \cup X].at = c.at /\ [c EXCEPT !.missed = @ \cup X].q = c.q
         /\ [c EXCEPT !.missed = @ \cup X].frees = c.frees
         /\ [c EXCEPT !.missed = @ \cup X].missed = c.missed \cup X
         /\ [c EXCEPT !.missed = @ \cup X].passed = c.passed
<1>1. c.missed \cup X \in SUBSET (Item \cup {NoItem})
  BY DEF InFlight, CallRow
<1> QED
  BY <1>1 DEF InFlight, CallRow, IsLoad

\* What is known of a call in flight.
LEMMA CallOK ==
  ASSUME Typed, NEW k \in DOMAIN calls
  PROVE  /\ calls[k] \in InFlight
         /\ Len(calls) \in Nat /\ DOMAIN calls = 1..Len(calls) /\ k \in Nat
         /\ calls[k].q \in Query /\ calls[k].frees \subseteq Named
         /\ calls[k].item \in Item \cup {NoItem}
         /\ calls[k].missed \subseteq Item \cup {NoItem}
         /\ calls[k].passed \in BOOLEAN
         /\ calls[k].at # "sent" => calls[k].at \in calls[k].op.ends
         /\ ~IsLoad(calls[k]) => calls[k].op \in page.ops
         /\ IsLoad(calls[k]) => page.refreshing \in calls[k].frees /\ calls[k].at \in {"sent", "rows"}
         /\ IsLoad(calls[k]) /\ calls[k].at = "sent" => calls[k].missed = {}
         /\ ~IsLoad(calls[k]) => calls[k].at # "rows" /\ calls[k].frees = {calls[k].op.flag}
<1>1. Len(calls) \in Nat /\ DOMAIN calls = 1..Len(calls)
  BY LenProperties DEF Typed
<1>2. calls[k] \in InFlight
  BY <1>1, ElementOfSeq DEF Typed
<1> QED
  BY <1>1, <1>2 DEF InFlight, CallRow, IsLoad

-----------------------------------------------------------------------------
\* The sequences that the actions leave.

\* A load sent after the others.
LEMMA LoadSent ==
  ASSUME NEW others \in Seq(InFlight), NEW q \in Query, NEW flags \in SUBSET Named,
         SendLoad(others, q, flags)
  PROVE  /\ calls' \in Seq(InFlight) /\ Len(others) \in Nat
         /\ Len(calls') = Len(others) + 1
         /\ DOMAIN others = 1..Len(others) /\ DOMAIN calls' = 1..(Len(others) + 1)
         /\ \A j \in DOMAIN others : calls'[j] = others[j]
         /\ calls'[Len(others) + 1] = Load(q, flags)
<1>1. calls' = Append(others, Load(q, flags))
  BY DEF SendLoad
<1> QED
  BY <1>1, LoadIn, Appended

\* Where a call is once the k-th is gone, and where it was.
Now(j, k) == IF j < k THEN j ELSE j - 1
Then(j, k) == IF j < k THEN j ELSE j + 1

\* The k-th call is gone.
LEMMA Gone ==
  ASSUME NEW S, NEW s \in Seq(S), NEW k \in DOMAIN s
  PROVE  /\ RemoveAt(s, k) \in Seq(S)
         /\ Len(s) \in Nat /\ DOMAIN s = 1..Len(s)
         /\ Len(RemoveAt(s, k)) = Len(s) - 1
         /\ DOMAIN RemoveAt(s, k) = 1..(Len(s) - 1)
         /\ \A j \in DOMAIN RemoveAt(s, k) :
              /\ Then(j, k) \in DOMAIN s \ {k}
              /\ RemoveAt(s, k)[j] = s[Then(j, k)]
         /\ \A j \in DOMAIN s \ {k} :
              /\ Now(j, k) \in DOMAIN RemoveAt(s, k)
              /\ RemoveAt(s, k)[Now(j, k)] = s[j]
<1> DEFINE t == RemoveAt(s, k)
<1>1. /\ t \in Seq(S)
      /\ DOMAIN s = 1..Len(s) /\ Len(s) \in Nat
      /\ DOMAIN t = 1..(Len(s) - 1)
      /\ \A j \in 1..(Len(s) - 1) : t[j] = IF j < k THEN s[j] ELSE s[j + 1]
  BY Removed
<1>2. Len(t) \in Nat /\ DOMAIN t = 1..Len(t)
  BY <1>1, LenProperties
<1>3. k \in 1..Len(s)
  BY <1>1
<1> HIDE DEF t
<1>4. Len(t) = Len(s) - 1
  <2>1. \A n, m \in Nat : 1..n = 1..m => n = m
    <3> SUFFICES ASSUME NEW n \in Nat, NEW m \in Nat, 1..n = 1..m, n < m PROVE FALSE
      OBVIOUS
    <3>1. m \in 1..m /\ m \notin 1..n
      OBVIOUS
    <3> QED
      BY <3>1
  <2>2. Len(s) - 1 \in Nat
    BY <1>1, <1>3
  <2>3. 1..Len(t) = 1..(Len(s) - 1)
    BY <1>1, <1>2
  <2> QED
    BY <1>2, <2>1, <2>2, <2>3
<1>5. \A j \in DOMAIN t : Then(j, k) \in DOMAIN s \ {k} /\ t[j] = s[Then(j, k)]
  BY <1>1, <1>3 DEF Then
<1>6. ASSUME NEW j \in DOMAIN s \ {k}
      PROVE  Now(j, k) \in DOMAIN t /\ t[Now(j, k)] = s[j]
  <2>1. j \in 1..Len(s) /\ j # k
    BY <1>1
  <2>2. CASE j < k
    <3>1. j \in 1..(Len(s) - 1) /\ Now(j, k) = j
      BY <1>1, <1>3, <2>1, <2>2 DEF Now
    <3> QED
      BY <1>1, <2>2, <3>1
  <2>3. CASE j > k
    <3>1. j - 1 \in 1..(Len(s) - 1) /\ Now(j, k) = j - 1 /\ ~(j - 1 < k) /\ (j - 1) + 1 = j
      BY <1>1, <1>3, <2>1, <2>3 DEF Now
    <3> QED
      BY <1>1, <3>1
  <2> QED
    BY <1>1, <1>3, <2>1, <2>2, <2>3
<1> QED
  BY <1>1, <1>4, <1>5, <1>6 DEF t

\* The order of the calls stays.
LEMMA OrderStays ==
  ASSUME NEW k \in Nat, NEW i \in Nat, NEW j \in Nat
  PROVE  /\ i < j => Then(i, k) < Then(j, k)
         /\ i # k /\ j # k /\ i < j => Now(i, k) < Now(j, k)
         /\ i # j => Then(i, k) # Then(j, k)
  BY DEF Now, Then

\* The calls once the handler of button o was pressed on row i.
LEMMA Pressed ==
  ASSUME Typed, NEW o \in page.ops, NEW i \in Item \cup {NoItem}, Press(o, i)
  PROVE  /\ calls' \in Seq(InFlight) /\ Len(calls) \in Nat
         /\ DOMAIN calls = 1..Len(calls) /\ DOMAIN calls' = 1..(Len(calls) + 1)
         /\ Len(calls') = Len(calls) + 1
         /\ \A j \in DOMAIN calls :
              /\ calls'[j].op = calls[j].op /\ calls'[j].item = calls[j].item
              /\ calls'[j].frees = calls[j].frees /\ calls'[j].at = calls[j].at
              /\ calls'[j].missed = calls[j].missed /\ calls'[j].q = calls[j].q
              /\ IsLoad(calls[j]) => calls'[j] = calls[j]
              /\ calls[j].passed => calls'[j].passed
              /\ ~calls'[j].passed /\ ~IsLoad(calls[j]) /\ j \in Holders(o) =>
                   <<calls[j].op.tag, calls[j].item>> = <<o.tag, i>>
         /\ calls'[Len(calls) + 1] = Sent(o, i)
<1> DEFINE t == Taken(o, i)
<1>1. calls \in Seq(InFlight) /\ Len(calls) \in Nat /\ DOMAIN calls = 1..Len(calls)
  BY LenProperties DEF Typed
<1>2. calls' = Append(t, Sent(o, i)) /\ Offered(o, i)
  BY DEF Press
<1>3. Sent(o, i) \in InFlight
  BY <1>2, SentIn
<1>4. DOMAIN t = DOMAIN calls /\ t = [j \in DOMAIN calls |-> t[j]]
  BY DEF Taken
<1>5. ASSUME NEW j \in DOMAIN calls
      PROVE  /\ t[j] \in InFlight
             /\ t[j].op = calls[j].op /\ t[j].item = calls[j].item
             /\ t[j].frees = calls[j].frees /\ t[j].at = calls[j].at
             /\ t[j].missed = calls[j].missed /\ t[j].q = calls[j].q
             /\ IsLoad(calls[j]) => t[j] = calls[j]
             /\ calls[j].passed => t[j].passed
             /\ ~t[j].passed /\ ~IsLoad(calls[j]) /\ j \in Holders(o) =>
                  <<calls[j].op.tag, calls[j].item>> = <<o.tag, i>>
  <2>1. calls[j] \in InFlight
    BY CallOK
  <2>2. t[j] = IF j \in Holders(o) /\ ~IsLoad(calls[j])
                    /\ <<calls[j].op.tag, calls[j].item>> # <<o.tag, i>>
               THEN [calls[j] EXCEPT !.passed = TRUE] ELSE calls[j]
    BY DEF Taken
  <2> QED
    BY <2>1, <2>2, PassedIn
<1> HIDE DEF t
<1>6. t \in Seq(InFlight) /\ Len(t) = Len(calls)
  BY <1>1, <1>4, <1>5, Mapped
<1>7. /\ calls' \in Seq(InFlight)
      /\ Len(calls') = Len(calls) + 1 /\ DOMAIN calls' = 1..(Len(calls) + 1)
      /\ \A j \in 1..Len(calls) : calls'[j] = t[j]
      /\ calls'[Len(calls) + 1] = Sent(o, i)
  BY <1>2, <1>3, <1>6, Appended
<1> QED
  BY <1>1, <1>5, <1>7

\* The rows that an answer of kind e to the k-th call changes.
Changed(k, e) == IF IsLoad(calls[k]) \/ e \in {"append", "rest", "leave"} THEN {} ELSE {calls[k].item}

\* It has been answered so.
AnsweredBy(k, e) ==
  /\ e \in calls[k].op.ends
  /\ unseen' = unseen \cup Changed(k, e)
  /\ calls' \in Seq(InFlight) /\ Len(calls') = Len(calls) /\ DOMAIN calls' = DOMAIN calls
  /\ \A j \in DOMAIN calls :
       /\ calls'[j].op = calls[j].op /\ calls'[j].item = calls[j].item
       /\ calls'[j].frees = calls[j].frees /\ calls'[j].q = calls[j].q
       /\ calls'[j].passed = calls[j].passed
       /\ calls'[j].at = IF j = k THEN e ELSE calls[j].at
       /\ calls'[j].missed = IF j # k /\ IsLoad(calls[j]) /\ calls[j].at # "sent"
                             THEN calls[j].missed \cup Changed(k, e) ELSE calls[j].missed

\* A call takes effect at the API.
LEMMA Served ==
  ASSUME Typed, NEW k \in DOMAIN calls, Serve(k)
  PROVE  \E e \in calls[k].op.ends : AnsweredBy(k, e)
<1>1. PICK e \in calls[k].op.ends :
        /\ unseen' = unseen \cup Changed(k, e)
        /\ calls' = [j \in DOMAIN calls |->
             IF j = k THEN [calls[j] EXCEPT !.at = e]
             ELSE IF IsLoad(calls[j]) /\ calls[j].at # "sent"
             THEN [calls[j] EXCEPT !.missed = @ \cup Changed(k, e)] ELSE calls[j]]
  BY DEF Serve, Changed
<1>2. Changed(k, e) \in SUBSET (Item \cup {NoItem})
  BY CallOK DEF Changed
<1>5. ASSUME NEW j \in DOMAIN calls
      PROVE  /\ calls'[j] \in InFlight
             /\ calls'[j].op = calls[j].op /\ calls'[j].item = calls[j].item
             /\ calls'[j].frees = calls[j].frees /\ calls'[j].q = calls[j].q
             /\ calls'[j].passed = calls[j].passed
             /\ calls'[j].at = IF j = k THEN e ELSE calls[j].at
             /\ calls'[j].missed = IF j # k /\ IsLoad(calls[j]) /\ calls[j].at # "sent"
                                   THEN calls[j].missed \cup Changed(k, e) ELSE calls[j].missed
  <2>1. calls[j] \in InFlight
    BY CallOK
  <2>2. calls'[j] = IF j = k THEN [calls[j] EXCEPT !.at = e]
                    ELSE IF IsLoad(calls[j]) /\ calls[j].at # "sent"
                    THEN [calls[j] EXCEPT !.missed = @ \cup Changed(k, e)] ELSE calls[j]
    BY <1>1
  <2>3. CASE j = k
    BY <2>1, <2>2, <2>3, EndIn
  <2>4. CASE j # k /\ IsLoad(calls[j]) /\ calls[j].at # "sent"
    BY <1>2, <2>1, <2>2, <2>4, MissIn
  <2>5. CASE j # k /\ ~(IsLoad(calls[j]) /\ calls[j].at # "sent")
    BY <2>1, <2>2, <2>5
  <2> QED
    BY <2>3, <2>4, <2>5
<1>6. DOMAIN calls' = DOMAIN calls /\ calls' = [j \in DOMAIN calls |-> calls'[j]]
  BY <1>1
<1>7. calls' \in Seq(InFlight) /\ Len(calls') = Len(calls)
  <2>1. calls \in Seq(InFlight)
    BY DEF Typed
  <2> QED
    BY <1>5, <1>6, <2>1, Mapped
<1>8. AnsweredBy(k, e)
  BY <1>1, <1>5, <1>6, <1>7 DEF AnsweredBy
<1> QED
  BY <1>8

\* The m-th call is the j-th once the answer to the k-th has arrived: a load sent
\* before is overtaken.
Survives(j, m, k) ==
  /\ calls'[j].op = calls[m].op /\ calls'[j].item = calls[m].item
  /\ calls'[j].at = calls[m].at /\ calls'[j].q = calls[m].q
  /\ calls'[j].frees = calls[m].frees /\ calls'[j].missed = calls[m].missed
  /\ calls'[j].passed = (calls[m].passed \/ (m < k /\ IsLoad(calls[m])))

LEMMA Arrived ==
  ASSUME Typed, NEW k \in DOMAIN calls, LoadArrives(k)
  PROVE  /\ calls' \in Seq(InFlight) /\ DOMAIN calls' = 1..(Len(calls) - 1)
         /\ Len(calls') = Len(calls) - 1
         /\ \A j \in DOMAIN calls' :
              Then(j, k) \in DOMAIN calls \ {k} /\ Survives(j, Then(j, k), k)
         /\ \A m \in DOMAIN calls \ {k} :
              Now(m, k) \in DOMAIN calls' /\ Survives(Now(m, k), m, k)
<1> DEFINE t == [j \in DOMAIN calls |->
             IF j < k /\ IsLoad(calls[j]) THEN [calls[j] EXCEPT !.passed = TRUE] ELSE calls[j]]
<1>1. calls' = RemoveAt(t, k)
  BY DEF LoadArrives
<1>2. ASSUME NEW j \in DOMAIN calls
      PROVE  /\ t[j] \in InFlight
             /\ t[j].op = calls[j].op /\ t[j].item = calls[j].item
             /\ t[j].frees = calls[j].frees /\ t[j].at = calls[j].at
             /\ t[j].missed = calls[j].missed /\ t[j].q = calls[j].q
             /\ t[j].passed = (calls[j].passed \/ (j < k /\ IsLoad(calls[j])))
  <2>1. calls[j] \in InFlight /\ calls[j].passed \in BOOLEAN
    BY CallOK
  <2>2. t[j] = IF j < k /\ IsLoad(calls[j]) THEN [calls[j] EXCEPT !.passed = TRUE] ELSE calls[j]
    OBVIOUS
  <2> HIDE DEF t
  <2> QED
    BY <2>1, <2>2, PassedIn
<1>3. DOMAIN t = DOMAIN calls /\ t = [j \in DOMAIN calls |-> t[j]]
  OBVIOUS
<1> HIDE DEF t
<1>4. t \in Seq(InFlight) /\ Len(t) = Len(calls)
  <2>1. calls \in Seq(InFlight)
    BY DEF Typed
  <2> QED
    BY <1>2, <1>3, <2>1, Mapped
<1>5. k \in DOMAIN t /\ Len(calls) \in Nat
  BY <1>3, CallOK
<1>6. /\ calls' \in Seq(InFlight) /\ Len(calls') = Len(t) - 1
      /\ DOMAIN calls' = 1..(Len(t) - 1)
      /\ \A j \in DOMAIN calls' : Then(j, k) \in DOMAIN t \ {k} /\ calls'[j] = t[Then(j, k)]
      /\ \A j \in DOMAIN t \ {k} : Now(j, k) \in DOMAIN calls' /\ calls'[Now(j, k)] = t[j]
  BY <1>1, <1>4, <1>5, Gone
<1>7. ASSUME NEW j, NEW m \in DOMAIN calls, calls'[j] = t[m] PROVE Survives(j, m, k)
  BY <1>2, <1>7 DEF Survives
<1> QED
  BY <1>3, <1>4, <1>6, <1>7

-----------------------------------------------------------------------------
\* Types are kept.

\* What is typed apart from the calls.
Display ==
  /\ page \in Opened /\ query \in Query
  /\ shown \in [q : Query \cup {NoQuery}, rows : Rows]
  /\ loading \in BOOLEAN
  /\ DOMAIN busy = Flags
  /\ picked \in Item \cup {NoItem}
  /\ unseen \subseteq Item \cup {NoItem}
  /\ excuse \subseteq {"stale", "crossed", "spoilt"}

LEMMA Split == Typed <=> Display /\ calls \in Seq(InFlight) /\ Len(calls) <= MaxCalls
  BY DEF Typed, Display

LEMMA Retyped ==
  ASSUME Display', page' = page, calls' \in Seq(InFlight), Len(calls') <= MaxCalls
  PROVE  Typed'
<1>1. InFlight' = InFlight
  BY SamePage
<1> QED
  BY <1>1 DEF Typed, Display

LEMMA BlankIs == Blank \in [q : Query \cup {NoQuery}, rows : Rows]
  BY DEF Blank, Rows

\* The page when it is opened.
LEMMA Opens ==
  ASSUME page \in Opened, query \in Query, Mounted
  PROVE  /\ Typed
         /\ \A k \in DOMAIN calls : IsLoad(calls[k]) /\ ~calls[k].passed /\ calls[k].missed = {}
                                      /\ calls[k].q = query
         /\ page.loads => Fresh # {}
         /\ \A j, k \in DOMAIN calls : j = k
<1>1. WellFormed(page)
  BY PagesAssumption
<1>2. /\ page.loads \in BOOLEAN /\ shown = Blank /\ loading = page.loads
      /\ DOMAIN busy = Flags /\ picked = NoItem /\ unseen = {} /\ excuse = {}
  BY <1>1 DEF Mounted, WellFormed
<1>3. Display
  BY <1>2, BlankIs DEF Display
<1>4. CASE page.loads
  <2>1. calls = <<Load(query, {})>>
    BY <1>4 DEF Mounted
  <2>2. /\ Load(query, {}) \in InFlight
        /\ IsLoad(Load(query, {})) /\ ~Load(query, {}).passed
        /\ Load(query, {}).missed = {} /\ Load(query, {}).q = query
    BY LoadIn
  <2>3. /\ calls \in Seq(InFlight) /\ Len(calls) = 1 /\ DOMAIN calls = {1}
        /\ calls[1] = Load(query, {})
    BY <2>1, <2>2
  <2>4. Typed
    BY <1>3, <2>3, Split, ScreensAssumption
  <2>5. 1 \in Fresh
    BY <2>2, <2>3 DEF Fresh
  <2> QED
    BY <2>2, <2>3, <2>4, <2>5
<1>5. CASE ~page.loads
  <2>1. calls = <<>>
    BY <1>5 DEF Mounted
  <2>2. calls \in Seq(InFlight) /\ Len(calls) = 0 /\ DOMAIN calls = {}
    BY <2>1, EmptySeq
  <2>3. Typed
    BY <1>3, <2>2, Split, ScreensAssumption
  <2> QED
    BY <1>5, <2>2, <2>3
<1> QED
  BY <1>2, <1>4, <1>5

LEMMA Reopens ==
  ASSUME Typed, Remount
  PROVE  page' \in Opened /\ query' \in Query /\ Mounted'
<1>1. Flags' = Flags
  BY SamePage DEF Remount
<1>2. Load(query, {})' = Load(query', {})
  BY DEF Remount, Load
<1> QED
  BY <1>1, <1>2 DEF Remount, Mounted, Typed, Blank

LEMMA Starts == page \in Opened /\ query \in Query /\ Mounted => IInv
<1> SUFFICES ASSUME page \in Opened, query \in Query, Mounted PROVE IInv
  OBVIOUS
<1>1. /\ Typed
      /\ \A k \in DOMAIN calls : IsLoad(calls[k]) /\ ~calls[k].passed /\ calls[k].missed = {}
                                   /\ calls[k].q = query
      /\ page.loads => Fresh # {}
      /\ \A j, k \in DOMAIN calls : j = k
  BY Opens
<1>2. busy = [f \in Flags |-> Down] /\ loading = page.loads /\ unseen = {}
  BY DEF Mounted
<1>3. \A j, k \in DOMAIN calls : ~(j < k)
  <2>1. \A j \in DOMAIN calls : j \in Nat
    BY <1>1, CallOK
  <2> QED
    BY <1>1, <2>1
<1>4. BusyHasCause
  BY <1>1, <1>2 DEF BusyHasCause, Fresh, LoadsIn
<1>5. RepeatsOnlyAfterOverlap
  BY <1>3 DEF RepeatsOnlyAfterOverlap
<1>6. \A k \in DOMAIN calls : Held(k)
  BY <1>1 DEF Held
<1>7. Current
  BY <1>1 DEF Current, Fresh
<1>8. NothingForgotten
  BY <1>1, <1>2 DEF NothingForgotten, Fresh
<1> QED
  BY <1>1, <1>4, <1>5, <1>6, <1>7, <1>8 DEF IInv

\* The same when it is opened again.
LEMMA StartsAgain == (page \in Opened /\ query \in Query /\ Mounted => IInv)'
  BY Starts, PTL

\* Flags keep their names.
LEMMA FlagsKept ==
  /\ \A flags : DOMAIN Lower(flags) = Flags
  /\ \A f, tag, i : DOMAIN Raise(f, tag, i) = Flags
  BY DEF Lower, Raise

LEMMA WonTyped ==
  ASSUME Typed, NEW k \in DOMAIN calls, Won(calls[k])
  PROVE  picked' \in Item \cup {NoItem}
<1>1. calls[k].item \in Item \cup {NoItem} /\ picked \in Item \cup {NoItem}
  BY CallOK DEF Typed
<1> QED
  BY <1>1 DEF Won

\* The actions that send a load, after the other calls.
LEMMA LoadTyped ==
  ASSUME Typed, page' = page, NEW others \in Seq(InFlight), Len(others) < MaxCalls,
         NEW q \in Query, NEW flags \in SUBSET Named, SendLoad(others, q, flags),
         query' \in Query, UNCHANGED <<shown, unseen>>, DOMAIN busy' = Flags,
         picked' \in Item \cup {NoItem}
  PROVE  Typed'
<1>1. calls' \in Seq(InFlight) /\ Len(calls') <= MaxCalls
  <2>1. Len(calls') = Len(others) + 1 /\ calls' \in Seq(InFlight) /\ Len(others) \in Nat
    BY LoadSent
  <2> QED
    BY <2>1, ScreensAssumption
<1>2. loading' \in BOOLEAN /\ excuse' \subseteq {"stale", "crossed", "spoilt"}
  BY DEF SendLoad, Typed, Spins
<1>3. Display'
  BY <1>2, SamePage DEF Display, Typed
<1> QED
  BY <1>1, <1>3, Retyped

\* The others are the present calls.
LEMMA Present ==
  ASSUME Typed
  PROVE  calls \in Seq(InFlight) /\ Len(calls) \in Nat /\ DOMAIN calls = 1..Len(calls) /\ {} \in SUBSET Named
  BY LenProperties DEF Typed

LEMMA GoneTyped ==
  ASSUME Typed, NEW k \in DOMAIN calls
  PROVE  /\ RemoveAt(calls, k) \in Seq(InFlight)
         /\ Len(RemoveAt(calls, k)) < MaxCalls
         /\ Len(RemoveAt(calls, k)) <= MaxCalls
<1>1. calls \in Seq(InFlight) /\ Len(calls) <= MaxCalls /\ Len(calls) \in Nat
  BY Present DEF Typed
<1>2. RemoveAt(calls, k) \in Seq(InFlight) /\ Len(RemoveAt(calls, k)) = Len(calls) - 1
  BY <1>1, Gone
<1> QED
  BY <1>1, <1>2, ScreensAssumption

LEMMA PatchTyped ==
  ASSUME Typed, NEW k \in DOMAIN calls, OpPatches(k)
  PROVE  shown' \in [q : Query \cup {NoQuery}, rows : Rows] /\ shown'.q = shown.q
<1> DEFINE c == calls[k]
           rows == IF c.item = NoItem THEN Item ELSE {c.item}
           new == [i \in Item |-> IF i \in rows /\ shown.rows[i] # Absent THEN c.op.patch ELSE shown.rows[i]]
<1>1. shown' = [shown EXCEPT !.rows = new]
  BY DEF OpPatches
<1>2. c.op.patch \in page.statuses
  <2>1. c.op \in page.ops /\ c.at = "patch" /\ c.at # "sent" /\ c.at \in c.op.ends
    BY CallOK DEF OpPatches
  <2> QED
    BY <2>1, OpOK
<1>3. shown \in [q : Query \cup {NoQuery}, rows : Rows]
  BY DEF Typed
<1>4. new \in Rows
  <2>1. \A i \in Item : shown.rows[i] \in page.statuses \cup {Absent}
    BY <1>3 DEF Rows
  <2> QED
    BY <1>2, <2>1 DEF Rows
<1> QED
  BY <1>1, <1>3, <1>4

LEMMA AppendTyped ==
  ASSUME Typed, NEW k \in DOMAIN calls, OpAppends(k)
  PROVE  shown' \in [q : Query \cup {NoQuery}, rows : Rows] /\ shown'.q = shown.q
<1>1. PICK rows \in Rows : shown' = [shown EXCEPT !.rows = rows]
  BY DEF OpAppends
<1> QED
  BY <1>1 DEF Typed

\* A handler's call is gone and its flag lowered.
LEMMA OpTyped ==
  ASSUME Typed, NEW k \in DOMAIN calls, calls' = RemoveAt(calls, k), page' = page,
         query' = query, shown' \in [q : Query \cup {NoQuery}, rows : Rows],
         loading' \in BOOLEAN, busy' = Lower(calls[k].frees),
         picked' \in Item \cup {NoItem}, unseen' \subseteq unseen,
         excuse' \subseteq {"stale", "crossed", "spoilt"}
  PROVE  Typed'
<1>1. calls' \in Seq(InFlight) /\ Len(calls') <= MaxCalls
  BY GoneTyped
<1>2. Display'
  BY FlagsKept, SamePage DEF Display, Typed
<1> QED
  BY <1>1, <1>2, Retyped

LEMMA TypedKept == Typed /\ [Next]_vars => Typed'
<1> SUFFICES ASSUME Typed, [Next]_vars PROVE Typed'
  OBVIOUS
<1> USE DEF display, local
<1>0. /\ calls \in Seq(InFlight) /\ Len(calls) \in Nat /\ Len(calls) <= MaxCalls
      /\ {} \in SUBSET Named /\ query \in Query /\ picked \in Item \cup {NoItem}
      /\ DOMAIN busy = Flags /\ loading \in BOOLEAN
      /\ excuse \subseteq {"stale", "crossed", "spoilt"} /\ unseen \subseteq Item \cup {NoItem}
      /\ shown \in [q : Query \cup {NoQuery}, rows : Rows] /\ page \in Opened
  BY Present DEF Typed
<1>1. CASE Remount
  BY <1>1, Reopens, StartsAgain DEF IInv
<1>2. CASE Browse
  <2>1. PICK q \in Query \ {query} : query' = q /\ SendLoad(calls, q, {})
    BY <1>2 DEF Browse
  <2>2. page' = page /\ Len(calls) < MaxCalls /\ UNCHANGED <<shown, local, unseen>>
    BY <1>2 DEF Browse
  <2> QED
    BY <1>0, <2>1, <2>2, LoadTyped
<1>3. CASE Refresh
  <2>1. /\ page' = page /\ query' = query /\ Len(calls) < MaxCalls /\ UNCHANGED <<shown, picked, unseen>>
        /\ SendLoad(calls, query, {})
        /\ busy' = busy \/ busy' = Raise(page.refreshing, "", NoItem)
    BY <1>3 DEF Refresh
  <2>2. DOMAIN busy = Flags
    BY <1>0
  <2>3. DOMAIN Raise(page.refreshing, "", NoItem) = Flags
    BY FlagsKept
  <2>4. DOMAIN busy' = Flags
    BY <2>1, <2>2, <2>3
  <2> QED
    BY <1>0, <2>1, <2>4, LoadTyped
<1>4. CASE \E m \in page.moves : Step(m)
  <2>1. PICK m \in page.moves : Step(m)
    BY <1>4
  <2>2. /\ UNCHANGED <<page, shown, busy, unseen>>
        /\ picked' \in Item \cup {NoItem}
    BY <1>0, <2>1 DEF Step
  <2>3. CASE m.loads
    <3>1. Len(calls) < MaxCalls /\ query' = query /\ SendLoad(calls, query, {})
      BY <2>1, <2>3 DEF Step
    <3> QED
      BY <1>0, <2>2, <3>1, LoadTyped
  <2>4. CASE ~m.loads
    <3>1. UNCHANGED <<query, loading, calls, excuse>>
      BY <2>1, <2>4 DEF Step
    <3>2. Display'
      BY <1>0, <2>2, <3>1, SamePage DEF Display
    <3> QED
      BY <1>0, <2>2, <3>1, <3>2, Retyped
  <2> QED
    BY <2>3, <2>4
<1>5. CASE \E i \in Item : Pushed(i)
  <2>1. PICK i \in Item : Pushed(i)
    BY <1>5
  <2>2. /\ UNCHANGED <<page, query, loading, local, calls, unseen, excuse>>
        /\ shown' = [shown EXCEPT !.rows[i] = page.pushed] /\ page.pushed # None
    BY <2>1 DEF Pushed
  <2>3. page.pushed \in page.statuses
    BY <2>2, PageOK DEF WellFormed
  <2>4. shown' \in [q : Query \cup {NoQuery}, rows : Rows]
    BY <1>0, <2>2, <2>3 DEF Rows
  <2>5. Display'
    BY <1>0, <2>2, <2>4, SamePage DEF Display
  <2> QED
    BY <1>0, <2>2, <2>5, Retyped
<1>6. CASE \E o \in page.ops, i \in Item \cup {NoItem} : Press(o, i)
  <2>1. PICK o \in page.ops, i \in Item \cup {NoItem} : Press(o, i)
    BY <1>6
  <2>2. /\ UNCHANGED <<page, display, unseen, excuse>> /\ Len(calls) < MaxCalls
        /\ busy' = Raise(o.flag, o.tag, i) /\ picked' \in Item \cup {NoItem}
    BY <1>0, <2>1 DEF Press
  <2>3. calls' \in Seq(InFlight) /\ Len(calls') = Len(calls) + 1
    BY <2>1, Pressed
  <2>4. Len(calls') <= MaxCalls
    BY <1>0, <2>2, <2>3, ScreensAssumption
  <2>5. Display'
    BY <1>0, <2>2, SamePage, FlagsKept DEF Display
  <2> QED
    BY <2>2, <2>3, <2>4, <2>5, Retyped
<1>7. ASSUME NEW k \in DOMAIN calls, Serve(k) PROVE Typed'
  <2>1. PICK e \in calls[k].op.ends : AnsweredBy(k, e)
    BY <1>7, Served
  <2>2. UNCHANGED <<page, display, local, excuse>>
    BY <1>7 DEF Serve
  <2>3. unseen' \subseteq Item \cup {NoItem}
    BY <1>0, <2>1, CallOK DEF AnsweredBy, Changed
  <2>4. Display'
    BY <1>0, <2>2, <2>3, SamePage DEF Display
  <2>5. calls' \in Seq(InFlight) /\ Len(calls') = Len(calls)
    BY <2>1 DEF AnsweredBy
  <2> QED
    BY <1>0, <2>2, <2>4, <2>5, Retyped
<1>8. ASSUME NEW k \in DOMAIN calls, OpFails(k) PROVE Typed'
  <2>1. /\ calls' = RemoveAt(calls, k) /\ busy' = Lower(calls[k].frees)
        /\ UNCHANGED <<page, display, stage, picked, unseen>>
        /\ excuse' \subseteq {"stale", "crossed", "spoilt"}
    BY <1>0, <1>8 DEF OpFails
  <2> QED
    BY <1>0, <2>1, OpTyped
<1>9. ASSUME NEW k \in DOMAIN calls, OpReloads(k) PROVE Typed'
  <2>1. /\ UNCHANGED <<query, busy, page, shown, unseen>>
        /\ SendLoad(RemoveAt(calls, k), calls[k].q, calls[k].frees) /\ Won(calls[k])
    BY <1>9 DEF OpReloads
  <2>2. calls[k].q \in Query /\ calls[k].frees \in SUBSET Named
    BY CallOK
  <2> QED
    BY <1>0, <2>1, <2>2, GoneTyped, WonTyped, LoadTyped
<1>10. ASSUME NEW k \in DOMAIN calls, OpKicks(k) PROVE Typed'
  <2>1. /\ UNCHANGED <<query, page, shown, unseen>> /\ DOMAIN busy' = Flags
        /\ SendLoad(RemoveAt(calls, k), calls[k].q, {}) /\ Won(calls[k])
    BY <1>10 DEF OpKicks
  <2>2. calls[k].q \in Query
    BY CallOK
  <2> QED
    BY <1>0, <2>1, <2>2, GoneTyped, WonTyped, LoadTyped
<1>11. ASSUME NEW k \in DOMAIN calls, OpPatches(k) PROVE Typed'
  <2>1. /\ calls' = RemoveAt(calls, k) /\ busy' = Lower(calls[k].frees) /\ Won(calls[k])
        /\ UNCHANGED <<page, query, loading>> /\ unseen' \subseteq unseen
        /\ excuse' \subseteq {"stale", "crossed", "spoilt"}
    BY <1>0, <1>11 DEF OpPatches
  <2> QED
    BY <1>0, <1>11, <2>1, OpTyped, WonTyped, PatchTyped
<1>12. ASSUME NEW k \in DOMAIN calls, OpRests(k) PROVE Typed'
  <2>1. /\ calls' = RemoveAt(calls, k) /\ busy' = Lower(calls[k].frees) /\ Won(calls[k])
        /\ UNCHANGED <<page, display, unseen, excuse>>
    BY <1>12 DEF OpRests
  <2> QED
    BY <1>0, <2>1, OpTyped, WonTyped
<1>13. ASSUME NEW k \in DOMAIN calls, LoadArrives(k) PROVE Typed'
  <2>1. PICK rows \in Rows : shown' = [q |-> calls[k].q, rows |-> rows]
    BY <1>13 DEF LoadArrives
  <2>2. /\ UNCHANGED <<page, query, stage, picked>> /\ loading' = FALSE
        /\ busy' = Lower(calls[k].frees) /\ unseen' = calls[k].missed
        /\ excuse' \subseteq {"stale", "crossed", "spoilt"}
    BY <1>0, <1>13 DEF LoadArrives
  <2>3. calls[k].q \in Query /\ calls[k].missed \subseteq Item \cup {NoItem}
    BY CallOK
  <2>4. Display'
    BY <1>0, <2>1, <2>2, <2>3, SamePage, FlagsKept DEF Display
  <2>5. calls' \in Seq(InFlight) /\ Len(calls') <= MaxCalls
    <3>1. calls' \in Seq(InFlight) /\ Len(calls') = Len(calls) - 1
      BY <1>13, Arrived
    <3> QED
      BY <1>0, <3>1, ScreensAssumption
  <2> QED
    BY <2>2, <2>4, <2>5, Retyped
<1>14. ASSUME NEW k \in DOMAIN calls, LoadFails(k) PROVE Typed'
  <2>1. /\ calls' = RemoveAt(calls, k) /\ busy' = Lower(calls[k].frees)
        /\ UNCHANGED <<page, query, stage, picked, unseen>> /\ loading' = FALSE
        /\ shown' \in [q : Query \cup {NoQuery}, rows : Rows]
        /\ excuse' \subseteq {"stale", "crossed", "spoilt"}
    BY <1>0, <1>14, BlankIs DEF LoadFails
  <2> QED
    BY <1>0, <2>1, OpTyped
<1>15. ASSUME NEW k \in DOMAIN calls, OpAppends(k) PROVE Typed'
  <2>1. /\ calls' = RemoveAt(calls, k) /\ busy' = Lower(calls[k].frees) /\ Won(calls[k])
        /\ UNCHANGED <<page, query, loading, unseen, excuse>>
    BY <1>15 DEF OpAppends
  <2> QED
    BY <1>0, <1>15, <2>1, OpTyped, WonTyped, AppendTyped
<1>16. CASE UNCHANGED vars
  <2>1. Display'
    BY <1>0, <1>16, SamePage DEF Display, vars
  <2> QED
    BY <1>0, <1>16, <2>1, Retyped DEF vars
<1> QED
  BY <1>1, <1>2, <1>3, <1>4, <1>5, <1>6, <1>7, <1>8, <1>9, <1>10, <1>11, <1>12, <1>13, <1>14, <1>15, <1>16
     DEF Next, OpLeaves, LoadSignsOut

-----------------------------------------------------------------------------
\* What a step leaves of the calls in flight.

\* The m-th call is now the j-th.
Kept(j, m) ==
  /\ calls'[j].op = calls[m].op /\ calls'[j].item = calls[m].item
  /\ calls'[j].frees = calls[m].frees /\ calls'[j].q = calls[m].q
  /\ calls[m].at # "sent" => calls'[j].at = calls[m].at
  /\ calls[m].passed => calls'[j].passed

\* The calls at `old` were at `from`, those of `gone` have ended, the others are new.
Follows(old, from, gone) ==
  /\ old \subseteq DOMAIN calls' /\ from \in [old -> DOMAIN calls \ gone]
  /\ gone \subseteq DOMAIN calls
  /\ \A m \in DOMAIN calls \ gone : \E j \in old : from[j] = m
  /\ \A i, j \in old : (i < j => from[i] < from[j]) /\ (i # j => from[i] # from[j])
  /\ \A j \in old : Kept(j, from[j])

Identity(s) == [j \in s |-> j]
Shift(s, k) == [j \in s |-> Then(j, k)]


LEMMA SameKept == ASSUME NEW j, NEW m, calls'[j] = calls[m] PROVE Kept(j, m)
  BY DEF Kept

LEMMA FollowSame ==
  ASSUME Typed, calls' = calls
  PROVE  Follows(DOMAIN calls, Identity(DOMAIN calls), {}) /\ DOMAIN calls' = DOMAIN calls
<1>1. \A j \in DOMAIN calls : Kept(j, j)
  BY SameKept
<1> QED
  BY <1>1 DEF Follows, Identity

LEMMA FollowSent ==
  ASSUME Typed, NEW q \in Query, NEW flags \in SUBSET Named, SendLoad(calls, q, flags)
  PROVE  /\ Follows(DOMAIN calls, Identity(DOMAIN calls), {})
         /\ DOMAIN calls' \ DOMAIN calls = {Len(calls) + 1}
<1>1. /\ calls \in Seq(InFlight) /\ Len(calls) \in Nat /\ DOMAIN calls = 1..Len(calls)
      /\ DOMAIN calls' = 1..(Len(calls) + 1)
      /\ \A j \in DOMAIN calls : calls'[j] = calls[j]
  BY LoadSent, Present
<1>2. \A j \in DOMAIN calls : Kept(j, j)
  BY <1>1, SameKept
<1>3. DOMAIN calls \subseteq DOMAIN calls' /\ DOMAIN calls' \ DOMAIN calls = {Len(calls) + 1}
  BY <1>1
<1> QED
  BY <1>2, <1>3 DEF Follows, Identity

\* Without the k-th call.
LEMMA FollowShift ==
  ASSUME Typed, NEW k \in DOMAIN calls, NEW s, s = 1..(Len(calls) - 1), s \subseteq DOMAIN calls',
         \A j \in s : Kept(j, Then(j, k))
  PROVE  Follows(s, Shift(s, k), {k})
<1>1. Len(calls) \in Nat /\ DOMAIN calls = 1..Len(calls) /\ k \in 1..Len(calls)
  BY CallOK
<1>2. \A j \in s : Then(j, k) \in DOMAIN calls \ {k}
  BY <1>1 DEF Then
<1>3. \A m \in DOMAIN calls \ {k} : Now(m, k) \in s /\ Then(Now(m, k), k) = m
  BY <1>1 DEF Now, Then
<1>4. \A i, j \in s : (i < j => Then(i, k) < Then(j, k)) /\ (i # j => Then(i, k) # Then(j, k))
  <2>1. \A i \in s : i \in Nat
    BY <1>1
  <2> QED
    BY <1>1, <2>1, OrderStays
<1>5. \A j \in s : Shift(s, k)[j] = Then(j, k)
  BY DEF Shift
<1>6. Shift(s, k) \in [s -> DOMAIN calls \ {k}]
  BY <1>2 DEF Shift
<1>7. \A m \in DOMAIN calls \ {k} : \E j \in s : Shift(s, k)[j] = m
  BY <1>3, <1>5
<1>8. \A i, j \in s : /\ i < j => Shift(s, k)[i] < Shift(s, k)[j]
                      /\ i # j => Shift(s, k)[i] # Shift(s, k)[j]
  BY <1>4, <1>5
<1>9. \A j \in s : Kept(j, Shift(s, k)[j])
  BY <1>5
<1> QED
  BY <1>6, <1>7, <1>8, <1>9 DEF Follows

LEMMA FollowGone ==
  ASSUME Typed, NEW k \in DOMAIN calls, calls' = RemoveAt(calls, k)
  PROVE  /\ Follows(DOMAIN calls', Shift(DOMAIN calls', k), {k})
         /\ \A j \in DOMAIN calls' : calls'[j] = calls[Shift(DOMAIN calls', k)[j]]
<1>1. calls \in Seq(InFlight)
  BY DEF Typed
<1>2. /\ DOMAIN calls' = 1..(Len(calls) - 1)
      /\ \A j \in DOMAIN calls' : calls'[j] = calls[Then(j, k)]
  BY <1>1, Gone
<1>3. \A j \in DOMAIN calls' : Kept(j, Then(j, k))
  BY <1>2, SameKept
<1>4. Follows(DOMAIN calls', Shift(DOMAIN calls', k), {k})
  BY <1>2, <1>3, FollowShift
<1> QED
  BY <1>2, <1>4 DEF Shift

LEMMA FollowReplaced ==
  ASSUME Typed, NEW k \in DOMAIN calls, NEW q \in Query, NEW flags \in SUBSET Named,
         SendLoad(RemoveAt(calls, k), q, flags)
  PROVE  LET s == 1..(Len(calls) - 1) IN
         /\ Follows(s, Shift(s, k), {k})
         /\ DOMAIN calls' \ s = {Len(RemoveAt(calls, k)) + 1}
<1> DEFINE others == RemoveAt(calls, k)
           s == 1..(Len(calls) - 1)
<1>1. calls \in Seq(InFlight) /\ Len(calls) \in Nat /\ k \in 1..Len(calls)
  BY CallOK DEF Typed
<1>2. /\ others \in Seq(InFlight) /\ DOMAIN others = s /\ Len(others) = Len(calls) - 1
      /\ \A j \in s : others[j] = calls[Then(j, k)]
  BY <1>1, Gone
<1>3. /\ DOMAIN calls' = 1..(Len(others) + 1)
      /\ \A j \in s : calls'[j] = others[j]
  <2> HIDE DEF others
  <2> QED
    BY <1>2, LoadSent DEF others
<1> HIDE DEF others
<1>4. \A j \in s : Kept(j, Then(j, k))
  BY <1>2, <1>3, SameKept
<1>5. s \subseteq DOMAIN calls' /\ DOMAIN calls' \ s = {Len(others) + 1}
  BY <1>1, <1>2, <1>3
<1>6. Follows(s, Shift(s, k), {k})
  BY <1>4, <1>5, FollowShift
<1> QED
  BY <1>5, <1>6 DEF others

LEMMA FollowServed ==
  ASSUME Typed, NEW k \in DOMAIN calls, calls[k].at = "sent", NEW e, AnsweredBy(k, e)
  PROVE  Follows(DOMAIN calls, Identity(DOMAIN calls), {}) /\ DOMAIN calls' = DOMAIN calls
<1>1. \A j \in DOMAIN calls : Kept(j, j)
  BY DEF Kept, AnsweredBy
<1>2. DOMAIN calls' = DOMAIN calls
  BY DEF AnsweredBy
<1> QED
  BY <1>1, <1>2 DEF Follows, Identity

LEMMA FollowArrived ==
  ASSUME Typed, NEW k \in DOMAIN calls, LoadArrives(k)
  PROVE  /\ Follows(DOMAIN calls', Shift(DOMAIN calls', k), {k})
         /\ DOMAIN calls' = 1..(Len(calls) - 1)
         /\ \A j \in DOMAIN calls' : Survives(j, Then(j, k), k)
<1>1. DOMAIN calls' = 1..(Len(calls) - 1) /\ \A j \in DOMAIN calls' : Survives(j, Then(j, k), k)
  BY Arrived
<1>2. \A j \in DOMAIN calls' : Kept(j, Then(j, k))
  BY <1>1 DEF Survives, Kept
<1> QED
  BY <1>1, <1>2, FollowShift

LEMMA FollowPressed ==
  ASSUME Typed, NEW o \in page.ops, NEW i \in Item \cup {NoItem}, Press(o, i)
  PROVE  /\ Follows(DOMAIN calls, Identity(DOMAIN calls), {})
         /\ DOMAIN calls' \ DOMAIN calls = {Len(calls) + 1}
<1>1. /\ Len(calls) \in Nat /\ DOMAIN calls = 1..Len(calls) /\ DOMAIN calls' = 1..(Len(calls) + 1)
      /\ \A j \in DOMAIN calls : Kept(j, j)
  BY Pressed DEF Kept
<1>2. DOMAIN calls \subseteq DOMAIN calls' /\ DOMAIN calls' \ DOMAIN calls = {Len(calls) + 1}
  BY <1>1
<1> QED
  BY <1>1, <1>2 DEF Follows, Identity

\* A flag that is up was up, and is not the one of a call that ended, or a new call
\* lowers it; a new load lowers what the call it follows would have.
FlagsFollow(old, gone) ==
  /\ \A f \in Flags : busy'[f] # Down =>
       \/ \E n \in DOMAIN calls' \ old : f \in calls'[n].frees
       \/ busy[f] # Down /\ \A g \in gone : f \notin calls[g].frees
  /\ \A f \in Flags :
       f # page.refreshing /\ (\A g \in gone : f \notin calls[g].frees) => busy'[f] = busy[f]
  /\ \A n \in DOMAIN calls' \ old :
       /\ IsLoad(calls'[n])
       /\ \A f \in calls'[n].frees : f = page.refreshing \/ \E g \in gone : f \in calls[g].frees
  /\ loading' => LoadsIn(calls') # {} \/ (loading /\ \A g \in gone : ~IsLoad(calls[g]))

LEMMA CausesStay ==
  ASSUME BusyHasCause, page' = page, NEW old, NEW from, NEW gone, Follows(old, from, gone),
         \A f \in Flags : busy'[f] # Down =>
           \/ \E n \in DOMAIN calls' \ old : f \in calls'[n].frees
           \/ busy[f] # Down /\ \A g \in gone : f \notin calls[g].frees,
         loading' => LoadsIn(calls') # {} \/ (loading /\ \A g \in gone : ~IsLoad(calls[g]))
  PROVE  BusyHasCause'
<1>1. Flags' = Flags
  BY SamePage
<1>2. ASSUME NEW f \in Flags, busy'[f] # Down PROVE \E k \in DOMAIN calls' : f \in calls'[k].frees
  <2>1. CASE \E n \in DOMAIN calls' \ old : f \in calls'[n].frees
    BY <2>1
  <2>2. CASE busy[f] # Down /\ \A g \in gone : f \notin calls[g].frees
    <3>1. PICK m \in DOMAIN calls : f \in calls[m].frees
      BY <2>2 DEF BusyHasCause
    <3>2. m \in DOMAIN calls \ gone
      BY <2>2, <3>1
    <3>3. PICK j \in old : from[j] = m
      BY <3>2 DEF Follows
    <3>4. j \in DOMAIN calls' /\ Kept(j, m)
      BY <3>3 DEF Follows
    <3>5. calls'[j].frees = calls[m].frees
      BY <3>4 DEF Kept
    <3> QED
      BY <3>1, <3>4, <3>5
  <2> QED
    BY <1>2, <2>1, <2>2
<1>3. ASSUME loading' PROVE LoadsIn(calls') # {}
  <2>1. SUFFICES ASSUME loading, \A g \in gone : ~IsLoad(calls[g]) PROVE LoadsIn(calls') # {}
    BY <1>3
  <2>2. PICK m \in DOMAIN calls : IsLoad(calls[m])
    BY <2>1 DEF BusyHasCause, LoadsIn
  <2>3. m \in DOMAIN calls \ gone
    BY <2>1, <2>2
  <2>4. PICK j \in old : from[j] = m
    BY <2>3 DEF Follows
  <2>5. j \in DOMAIN calls' /\ Kept(j, m)
    BY <2>4 DEF Follows
  <2>6. IsLoad(calls'[j])
    BY <2>2, <2>5 DEF Kept, IsLoad
  <2> QED
    BY <2>5, <2>6 DEF LoadsIn
<1> QED
  BY <1>1, <1>2, <1>3 DEF BusyHasCause, LoadsIn

LEMMA HeldStays ==
  ASSUME IInv, page' = page, NEW old, NEW from, NEW gone, Follows(old, from, gone),
         FlagsFollow(old, gone)
  PROVE  \A j \in DOMAIN calls' : Held(j)'
<1> SUFFICES ASSUME NEW j \in DOMAIN calls', ~IsLoad(calls'[j]), ~calls'[j].passed,
                    calls'[j].op.flag # None
             PROVE  /\ busy'[calls'[j].op.flag] = <<calls'[j].op.tag, calls'[j].item>>
                    /\ \A n \in DOMAIN calls' \ {j} : calls'[j].op.flag \notin calls'[n].frees
  BY DEF Held, IsLoad
<1>1. j \in old
  BY DEF FlagsFollow
<1> DEFINE m == from[j]
           f == calls[m].op.flag
<1>2. m \in DOMAIN calls /\ m \notin gone /\ Kept(j, m) /\ gone \subseteq DOMAIN calls
  BY <1>1 DEF Follows
<1> HIDE DEF m
<1>3. ~IsLoad(calls[m]) /\ ~calls[m].passed /\ calls'[j].op = calls[m].op /\ calls'[j].item = calls[m].item
  BY <1>2 DEF Kept, IsLoad
<1>4. /\ busy[f] = <<calls[m].op.tag, calls[m].item>> /\ f # None
      /\ \A n \in DOMAIN calls \ {m} : f \notin calls[n].frees
  BY <1>2, <1>3 DEF IInv, Held
<1>5. f \in Flags /\ f # page.refreshing
  <2>1. calls[m].op \in page.ops
    BY <1>2, <1>3, CallOK DEF IInv
  <2> QED
    BY <1>4, <2>1, OpOK, FlagsNamed DEF IInv
<1>6. \A g \in gone : f \notin calls[g].frees
  BY <1>2, <1>4
<1>7. busy'[f] = busy[f]
  BY <1>5, <1>6 DEF FlagsFollow
<1>8. ASSUME NEW n \in DOMAIN calls' \ {j} PROVE f \notin calls'[n].frees
  <2>1. CASE n \in old
    <3>1. from[n] \in DOMAIN calls /\ from[n] # m /\ Kept(n, from[n])
      BY <1>1, <2>1 DEF Follows, m
    <3> QED
      BY <1>4, <3>1 DEF Kept
  <2>2. CASE n \notin old
    BY <1>5, <1>6, <2>2 DEF FlagsFollow
  <2> QED
    BY <2>1, <2>2
<1> QED
  BY <1>3, <1>4, <1>7, <1>8

LEMMA RepeatsStay ==
  ASSUME IInv, page' = page, NEW old, NEW from, NEW gone, Follows(old, from, gone),
         FlagsFollow(old, gone)
  PROVE  RepeatsOnlyAfterOverlap'
<1> SUFFICES ASSUME NEW j \in DOMAIN calls', NEW k \in DOMAIN calls',
                    j < k, ~IsLoad(calls'[j]), calls'[j].op = calls'[k].op,
                    calls'[j].item = calls'[k].item
             PROVE  calls'[j].op.flag = None \/ calls'[j].passed
  BY DEF RepeatsOnlyAfterOverlap, IsLoad
<1>1. j \in old /\ k \in old
  BY DEF FlagsFollow, IsLoad
<1>2. /\ from[j] \in DOMAIN calls /\ from[k] \in DOMAIN calls /\ from[j] < from[k]
      /\ Kept(j, from[j]) /\ Kept(k, from[k])
  BY <1>1 DEF Follows
<1>3. /\ ~IsLoad(calls[from[j]]) /\ calls[from[j]].op = calls[from[k]].op
      /\ calls[from[j]].item = calls[from[k]].item
  BY <1>2 DEF Kept, IsLoad
<1>4. calls[from[j]].op.flag = None \/ calls[from[j]].passed
  BY <1>2, <1>3 DEF IInv, RepeatsOnlyAfterOverlap
<1> QED
  BY <1>2, <1>4 DEF Kept

\* The flags after each kind of step.
Safe == BusyHasCause /\ RepeatsOnlyAfterOverlap /\ \A k \in DOMAIN calls : Held(k)

LEMMA SafeStays ==
  ASSUME IInv, page' = page, NEW old, NEW from, NEW gone, Follows(old, from, gone),
         FlagsFollow(old, gone)
  PROVE  Safe'
<1>1. BusyHasCause
  BY DEF IInv
<1>2. BusyHasCause'
  BY <1>1, CausesStay DEF FlagsFollow
<1> QED
  BY <1>2, HeldStays, RepeatsStay DEF Safe

\* Nothing in flight has changed, nor a flag.
LEMMA SafeSame ==
  ASSUME IInv, page' = page, calls' = calls, busy' = busy, loading' = loading
  PROVE  Safe'
<1>1. Follows(DOMAIN calls, Identity(DOMAIN calls), {}) /\ DOMAIN calls' = DOMAIN calls
  BY FollowSame DEF IInv
<1>2. FlagsFollow(DOMAIN calls, {})
  BY <1>1 DEF FlagsFollow
<1> QED
  BY <1>1, <1>2, SafeStays

\* The load that is sent.
LEMMA NewLoad ==
  ASSUME NEW others \in Seq(InFlight), NEW q \in Query, NEW flags \in SUBSET Named,
         SendLoad(others, q, flags)
  PROVE  /\ Len(others) + 1 \in DOMAIN calls' /\ Len(others) \in Nat
         /\ IsLoad(calls'[Len(others) + 1]) /\ ~calls'[Len(others) + 1].passed
         /\ calls'[Len(others) + 1].missed = {} /\ calls'[Len(others) + 1].q = q
         /\ calls'[Len(others) + 1].frees = flags \cup {page.refreshing}
         /\ LoadsIn(calls') # {}
<1>1. Len(others) \in Nat /\ DOMAIN calls' = 1..(Len(others) + 1) /\ calls'[Len(others) + 1] = Load(q, flags)
  BY LoadSent
<1>2. Len(others) + 1 \in DOMAIN calls'
  BY <1>1
<1> QED
  BY <1>1, <1>2, LoadIn DEF LoadsIn

\* A load is sent, and perhaps the page's flag raised.
LEMMA SafeSent ==
  ASSUME IInv, page' = page, NEW q \in Query, SendLoad(calls, q, {}),
         busy' = busy \/ busy' = Raise(page.refreshing, "", NoItem)
  PROVE  Safe'
<1> DEFINE n == Len(calls) + 1
<1>1. Typed /\ calls \in Seq(InFlight) /\ {} \in SUBSET Named /\ DOMAIN busy = Flags
  BY Present DEF IInv, Typed
<1>2. Follows(DOMAIN calls, Identity(DOMAIN calls), {}) /\ DOMAIN calls' \ DOMAIN calls = {n}
  BY <1>1, FollowSent
<1>3. IsLoad(calls'[n]) /\ calls'[n].frees = {} \cup {page.refreshing} /\ LoadsIn(calls') # {}
  BY <1>1, NewLoad
<1> HIDE DEF n
<1>4. \A f \in Flags : f # page.refreshing => busy'[f] = busy[f]
  BY DEF Raise
<1>5. FlagsFollow(DOMAIN calls, {})
  BY <1>2, <1>3, <1>4 DEF FlagsFollow
<1> QED
  BY <1>2, <1>5, SafeStays

\* A call has ended and its flag is lowered.
LEMMA Lowered ==
  ASSUME NEW k, NEW f \in Flags, busy' = Lower(calls[k].frees)
  PROVE  /\ busy'[f] # Down => busy[f] # Down /\ f \notin calls[k].frees
         /\ f \notin calls[k].frees => busy'[f] = busy[f]
  BY DEF Lower

LEMMA SafeGone ==
  ASSUME IInv, page' = page, NEW k \in DOMAIN calls, calls' = RemoveAt(calls, k),
         busy' = Lower(calls[k].frees), loading' => loading /\ ~IsLoad(calls[k])
  PROVE  Safe'
<1>1. Follows(DOMAIN calls', Shift(DOMAIN calls', k), {k})
  BY FollowGone DEF IInv
<1>2. FlagsFollow(DOMAIN calls', {k})
  BY Lowered DEF FlagsFollow
<1> QED
  BY <1>1, <1>2, SafeStays

LEMMA SafeArrived ==
  ASSUME IInv, NEW k \in DOMAIN calls, LoadArrives(k)
  PROVE  Safe'
<1>1. Follows(DOMAIN calls', Shift(DOMAIN calls', k), {k})
  BY FollowArrived DEF IInv
<1>2. page' = page /\ loading' = FALSE /\ busy' = Lower(calls[k].frees)
  BY DEF LoadArrives
<1>3. FlagsFollow(DOMAIN calls', {k})
  BY <1>2, Lowered DEF FlagsFollow
<1> QED
  BY <1>1, <1>2, <1>3, SafeStays

\* A handler loads the page again: the load takes over its flag, or the flag is lowered.
LEMMA SafeReloads ==
  ASSUME IInv, NEW k \in DOMAIN calls, OpReloads(k) \/ OpKicks(k)
  PROVE  Safe'
<1> DEFINE n == Len(RemoveAt(calls, k)) + 1
           s == 1..(Len(calls) - 1)
<1>1. Typed /\ DOMAIN busy = Flags
  BY DEF IInv, Typed
<1>2. RemoveAt(calls, k) \in Seq(InFlight) /\ {} \in SUBSET Named
  BY <1>1, GoneTyped, Present
<1>3. calls[k].q \in Query /\ calls[k].frees \in SUBSET Named
  BY <1>1, CallOK
<1>4. page' = page
  BY DEF OpReloads, OpKicks
<1>5. CASE OpReloads(k)
  <2>1. SendLoad(RemoveAt(calls, k), calls[k].q, calls[k].frees) /\ busy' = busy
    BY <1>5 DEF OpReloads
  <2>2. Follows(s, Shift(s, k), {k}) /\ DOMAIN calls' \ s = {n}
    BY <1>1, <1>3, <2>1, FollowReplaced
  <2>3. IsLoad(calls'[n]) /\ calls'[n].frees = calls[k].frees \cup {page.refreshing} /\ LoadsIn(calls') # {}
    BY <1>2, <1>3, <2>1, NewLoad
  <2> HIDE DEF n, s
  <2>4. FlagsFollow(s, {k})
    BY <2>1, <2>2, <2>3 DEF FlagsFollow
  <2> QED
    BY <1>4, <2>2, <2>4, SafeStays
<1>6. CASE OpKicks(k)
  <2>1. /\ SendLoad(RemoveAt(calls, k), calls[k].q, {})
        /\ busy' = [f \in Flags |->
             IF f = page.refreshing THEN <<"", NoItem>> ELSE Lower(calls[k].frees)[f]]
    BY <1>6 DEF OpKicks
  <2>2. Follows(s, Shift(s, k), {k}) /\ DOMAIN calls' \ s = {n}
    BY <1>1, <1>2, <1>3, <2>1, FollowReplaced
  <2>3. IsLoad(calls'[n]) /\ calls'[n].frees = {} \cup {page.refreshing} /\ LoadsIn(calls') # {}
    BY <1>2, <1>3, <2>1, NewLoad
  <2> HIDE DEF n, s
  <2>4. ASSUME NEW f \in Flags, f # page.refreshing
        PROVE  /\ busy'[f] # Down => busy[f] # Down /\ f \notin calls[k].frees
               /\ f \notin calls[k].frees => busy'[f] = busy[f]
    BY <2>1, <2>4 DEF Lower
  <2>5. FlagsFollow(s, {k})
    BY <2>2, <2>3, <2>4 DEF FlagsFollow
  <2> QED
    BY <1>4, <2>2, <2>5, SafeStays
<1> QED
  BY <1>5, <1>6

LEMMA SafeServed ==
  ASSUME IInv, NEW k \in DOMAIN calls, Serve(k)
  PROVE  Safe'
<1>1. PICK e \in calls[k].op.ends : AnsweredBy(k, e)
  BY Served DEF IInv
<1>2. /\ calls[k].at = "sent" /\ UNCHANGED <<page, busy, loading>>
  BY DEF Serve, display, local
<1>3. Follows(DOMAIN calls, Identity(DOMAIN calls), {}) /\ DOMAIN calls' = DOMAIN calls
  BY <1>1, <1>2, FollowServed DEF IInv
<1>4. FlagsFollow(DOMAIN calls, {})
  BY <1>2, <1>3 DEF FlagsFollow
<1> QED
  BY <1>2, <1>3, <1>4, SafeStays

\* A press takes the flag over from the calls that would lower it, or raises it.
LEMMA SafePressed ==
  ASSUME IInv, NEW o \in page.ops, NEW i \in Item \cup {NoItem}, Press(o, i)
  PROVE  Safe'
<1> DEFINE n == Len(calls) + 1
<1>1. Typed /\ BusyHasCause
  BY DEF IInv
<1>2. /\ Len(calls) \in Nat /\ DOMAIN calls = 1..Len(calls) /\ DOMAIN calls' = 1..n
      /\ calls'[n] = Sent(o, i)
      /\ \A j \in DOMAIN calls :
           /\ calls'[j].op = calls[j].op /\ calls'[j].item = calls[j].item
           /\ calls'[j].frees = calls[j].frees
           /\ calls[j].passed => calls'[j].passed
           /\ ~calls'[j].passed /\ ~IsLoad(calls[j]) /\ j \in Holders(o) =>
                <<calls[j].op.tag, calls[j].item>> = <<o.tag, i>>
  BY <1>1, Pressed
<1>3. /\ UNCHANGED <<page, loading>> /\ busy' = Raise(o.flag, o.tag, i)
      /\ Offered(o, i) /\ Enabled(o, i)
  BY DEF Press, display
<1>4. /\ calls'[n].op = o /\ calls'[n].item = i /\ ~IsLoad(calls'[n])
      /\ calls'[n].frees = {o.flag} /\ calls'[n].passed = (Holders(o) # {})
  BY <1>1, <1>2, <1>3, SentIn
<1>5. DOMAIN calls' \ DOMAIN calls = {n} /\ n \in DOMAIN calls' /\ \A j \in DOMAIN calls : j < n /\ ~(n < j)
  BY <1>2
<1>6. Follows(DOMAIN calls, Identity(DOMAIN calls), {})
  BY <1>1, FollowPressed
<1> HIDE DEF n
<1>7. \A f \in Flags : (f = o.flag => busy'[f] = <<o.tag, i>>) /\ (f # o.flag => busy'[f] = busy[f])
  BY <1>3 DEF Raise
<1>8. o.flag # None => o.flag \in Flags
  BY <1>1, OpOK, FlagsNamed
<1>9. BusyHasCause'
  <2>1. ASSUME NEW f \in Flags, busy'[f] # Down
        PROVE  \/ \E j \in DOMAIN calls' \ DOMAIN calls : f \in calls'[j].frees
               \/ busy[f] # Down
    BY <1>4, <1>5, <1>7, <2>1
  <2>2. loading' => loading
    BY <1>3
  <2> QED
    BY <1>1, <1>3, <1>6, <2>1, <2>2, CausesStay
\* A handler on its own holds the flag: the button would be disabled.
<1>10. ASSUME NEW j \in DOMAIN calls, ~IsLoad(calls[j]), ~calls'[j].passed, j \in Holders(o)
       PROVE  FALSE
  <2>1. <<calls[j].op.tag, calls[j].item>> = <<o.tag, i>> /\ ~calls[j].passed
    BY <1>2, <1>10
  <2>2. calls[j].frees = {calls[j].op.flag} /\ o.flag # None /\ o.flag \in calls[j].frees
    BY <1>1, <1>10, CallOK DEF Holders
  <2>3. busy[o.flag] = <<o.tag, i>>
    BY <1>10, <2>1, <2>2 DEF IInv, Held
  <2>4. <<o.tag, i>> # <<>>
    OBVIOUS
  <2> QED
    BY <1>3, <2>2, <2>3, <2>4 DEF Enabled, Down
<1>11. ASSUME NEW j \in DOMAIN calls', ~IsLoad(calls'[j]), ~calls'[j].passed, calls'[j].op.flag # None
       PROVE  /\ busy'[calls'[j].op.flag] = <<calls'[j].op.tag, calls'[j].item>>
              /\ \A m \in DOMAIN calls' \ {j} : calls'[j].op.flag \notin calls'[m].frees
  <2>1. CASE j = n
    <3>1. Holders(o) = {} /\ o.flag # None
      BY <1>4, <1>11, <2>1
    <3>2. \A m \in DOMAIN calls : o.flag \notin calls'[m].frees
      BY <1>2, <3>1 DEF Holders
    <3>3. busy'[o.flag] = <<o.tag, i>>
      BY <1>7, <1>8, <3>1
    <3> QED
      BY <1>4, <1>5, <2>1, <3>2, <3>3
  <2>2. CASE j # n
    <3> DEFINE f == calls[j].op.flag
    <3>1. j \in DOMAIN calls
      BY <1>5, <2>2
    <3>2. /\ ~IsLoad(calls[j]) /\ ~calls[j].passed /\ f # None
          /\ calls'[j].op = calls[j].op /\ calls'[j].item = calls[j].item
      BY <1>2, <1>11, <3>1 DEF IsLoad
    <3>3. /\ busy[f] = <<calls[j].op.tag, calls[j].item>>
          /\ \A m \in DOMAIN calls \ {j} : f \notin calls[m].frees
      BY <3>1, <3>2 DEF IInv, Held
    <3>4. f \in calls[j].frees /\ f \in Flags
      BY <1>1, <3>1, <3>2, CallOK, FlagsNamed
    <3>5. f # o.flag
      BY <1>10, <1>11, <3>1, <3>2, <3>4 DEF Holders
    <3>6. busy'[f] = busy[f]
      BY <1>7, <3>4, <3>5
    <3>7. \A m \in DOMAIN calls' \ {j} : f \notin calls'[m].frees
      BY <1>2, <1>4, <1>5, <3>3, <3>5
    <3> QED
      BY <3>2, <3>3, <3>6, <3>7
  <2> QED
    BY <2>1, <2>2
<1>12. \A j \in DOMAIN calls' : Held(j)'
  BY <1>11 DEF Held, IsLoad
<1>13. RepeatsOnlyAfterOverlap'
  <2> SUFFICES ASSUME NEW j \in DOMAIN calls', NEW k \in DOMAIN calls',
                      j < k, ~IsLoad(calls'[j]), calls'[j].op = calls'[k].op,
                      calls'[j].item = calls'[k].item, calls'[j].op.flag # None
               PROVE  calls'[j].passed
    BY DEF RepeatsOnlyAfterOverlap, IsLoad
  <2>1. j # n
    <3>1. k = n \/ k \in DOMAIN calls
      BY <1>5
    <3> QED
      BY <1>2, <1>5, <3>1 DEF n
  <2>2. j \in DOMAIN calls /\ ~IsLoad(calls[j]) /\ calls[j].op.flag # None
    BY <1>2, <1>5, <2>1 DEF IsLoad
  <2>3. CASE k = n
    <3>1. calls[j].op = o
      BY <1>2, <1>4, <2>2, <2>3
    <3>2. j \in Holders(o)
      BY <1>1, <2>2, <3>1, CallOK DEF Holders
    <3> QED
      BY <1>10, <2>2, <3>2
  <2>4. CASE k # n
    <3>1. k \in DOMAIN calls
      BY <1>5, <2>4
    <3>2. calls[j].op = calls[k].op /\ calls[j].item = calls[k].item
      BY <1>2, <2>2, <3>1
    <3>3. calls[j].passed
      BY <2>2, <3>1, <3>2 DEF IInv, RepeatsOnlyAfterOverlap
    <3> QED
      BY <1>2, <2>2, <3>3
  <2> QED
    BY <2>3, <2>4
<1> QED
  BY <1>9, <1>12, <1>13 DEF Safe

-----------------------------------------------------------------------------
\* The rows displayed.

\* Loads are what they were, and none is new.
LoadsFollow(old, from) ==
  /\ \A j \in DOMAIN calls' \ old : ~IsLoad(calls'[j])
  /\ \A j \in old : IsLoad(calls[from[j]]) =>
       calls'[j].passed = calls[from[j]].passed /\ calls'[j].missed = calls[from[j]].missed

\* A load that is sent now will answer the filters displayed, and has missed nothing.
LEMMA Loaded ==
  ASSUME Typed, page' = page, query' \in Query, NEW others \in Seq(InFlight), NEW q \in Query,
         NEW flags \in SUBSET Named, SendLoad(others, q, flags)
  PROVE  Current' /\ NothingForgotten'
<1> DEFINE n == Len(others) + 1
<1>1. /\ n \in DOMAIN calls' /\ n \in Nat /\ n > 0
      /\ IsLoad(calls'[n]) /\ ~calls'[n].passed /\ calls'[n].missed = {} /\ calls'[n].q = q
  BY NewLoad
<1>2. DOMAIN calls' = 1..n
  BY LoadSent
<1> HIDE DEF n
<1>3. n \in Fresh' /\ \A k \in Fresh' : k \in Nat /\ k <= n
  BY <1>1, <1>2 DEF Fresh, IsLoad
<1>4. excuse' \subseteq {"crossed"} => q = query'
  BY DEF SendLoad
<1>5. Current'
  <2> SUFFICES ASSUME excuse' \subseteq {"crossed"}
               PROVE  \A k \in Fresh' : calls'[k].q = query' \/ \E j \in Fresh' : j > k
    BY <1>3 DEF Current
  <2> TAKE k \in Fresh'
  <2>1. CASE k = n
    BY <1>1, <1>4, <2>1
  <2>2. CASE k # n
    BY <1>1, <1>3, <2>2
  <2> QED
    BY <2>1, <2>2
<1>6. \A i : i \notin calls'[n].missed
  BY <1>1
<1>7. \A i, k : k \in Nat /\ k < n => Pending(i, k)'
  BY <1>1, <1>3, <1>6 DEF Pending
<1>8. NothingForgotten'
  <2>1. \A i \in unseen' : Pending(i, 0)'
    BY <1>1, <1>7
  <2>2. \A k \in Fresh' : \A i \in calls'[k].missed : Pending(i, k)'
    <3> TAKE k \in Fresh'
    <3> TAKE i \in calls'[k].missed
    <3>1. k # n
      BY <1>6
    <3> QED
      BY <1>1, <1>3, <1>7, <3>1
  <2> QED
    BY <2>1, <2>2 DEF NothingForgotten, Fresh, IsLoad
<1> QED
  BY <1>5, <1>8

\* Fresh loads stay so.
LEMMA FreshStays ==
  ASSUME Typed, NEW old, NEW from, NEW gone, Follows(old, from, gone), LoadsFollow(old, from)
  PROVE  /\ \A j \in Fresh' : j \in old /\ from[j] \in Fresh
         /\ \A j \in old : from[j] \in Fresh => j \in Fresh'
<1>1. ASSUME NEW j \in Fresh' PROVE j \in old /\ from[j] \in Fresh
  <2>1. j \in DOMAIN calls' /\ IsLoad(calls'[j]) /\ ~calls'[j].passed
    BY DEF Fresh, IsLoad
  <2>2. j \in old
    BY <2>1 DEF LoadsFollow
  <2>3. from[j] \in DOMAIN calls /\ Kept(j, from[j])
    BY <2>2 DEF Follows
  <2> QED
    BY <2>1, <2>2, <2>3 DEF Kept, Fresh, IsLoad, LoadsFollow
<1>2. ASSUME NEW j \in old, from[j] \in Fresh PROVE j \in Fresh'
  <2>1. j \in DOMAIN calls' /\ Kept(j, from[j])
    BY DEF Follows
  <2>2. IsLoad(calls[from[j]]) /\ ~calls[from[j]].passed
    BY <1>2 DEF Fresh
  <2> QED
    BY <2>1, <2>2 DEF Kept, Fresh, IsLoad, LoadsFollow
<1> QED
  BY <1>1, <1>2

\* A step that sends no load and ends none.
LEMMA CurrentStays ==
  ASSUME Typed, Typed', Current, UNCHANGED <<page, query>>, shown'.q = shown.q, excuse \subseteq excuse',
         NEW old, NEW from, NEW gone, Follows(old, from, gone), LoadsFollow(old, from),
         \A g \in gone : ~IsLoad(calls[g])
  PROVE  Current'
<1>1. /\ \A j \in Fresh' : j \in old /\ from[j] \in Fresh
      /\ \A j \in old : from[j] \in Fresh => j \in Fresh'
  BY FreshStays
<1>2. \A m \in Fresh : \E j \in old : from[j] = m /\ j \in Fresh'
  <2> TAKE m \in Fresh
  <2>1. m \in DOMAIN calls \ gone
    BY DEF Fresh
  <2>2. PICK j \in old : from[j] = m
    BY <2>1 DEF Follows
  <2> QED
    BY <1>1, <2>2
<1>3. SUFFICES ASSUME page.loads, excuse' \subseteq {"crossed"}
               PROVE  /\ shown.q = query \/ Fresh' # {}
                      /\ \A k \in Fresh' : calls'[k].q = query \/ \E j \in Fresh' : j > k
  BY DEF Current
<1>4. /\ shown.q = query \/ Fresh # {}
      /\ \A k \in Fresh : calls[k].q = query \/ \E j \in Fresh : j > k
  BY <1>3 DEF Current
<1>5. ASSUME NEW k \in Fresh' PROVE calls'[k].q = query \/ \E j \in Fresh' : j > k
  <2>1. k \in old /\ from[k] \in Fresh
    BY <1>1
  <2>2. calls'[k].q = calls[from[k]].q
    BY <2>1 DEF Follows, Kept
  <2>3. CASE calls[from[k]].q = query
    BY <2>2, <2>3
  <2>4. CASE \E m \in Fresh : m > from[k]
    <3>1. PICK m \in Fresh : m > from[k]
      BY <2>4
    <3>2. PICK j \in old : from[j] = m /\ j \in Fresh'
      BY <1>2
    <3>3. from[k] \in Nat /\ m \in Nat /\ j \in Nat /\ k \in Nat
      <4>1. \A l \in DOMAIN calls : l \in Nat
        BY CallOK
      <4>2. \A l \in old : l \in DOMAIN calls' /\ from[l] \in DOMAIN calls
        BY DEF Follows
      <4>3. \A l \in DOMAIN calls' : l \in Nat
        BY LenProperties DEF Typed
      <4> QED
        BY <2>1, <3>2, <4>1, <4>2, <4>3
    <3>4. j > k
      <4>1. ~(j < k) /\ j # k
        BY <2>1, <3>1, <3>2, <3>3 DEF Follows
      <4> QED
        BY <3>3, <4>1
    <3> QED
      BY <3>2, <3>4
  <2> QED
    BY <1>4, <2>1, <2>3, <2>4
<1> QED
  BY <1>2, <1>4, <1>5

\* A change that will be displayed still will be, when the handler that made it and
\* the loads that read it are still there.
LEMMA PendingStays ==
  ASSUME Typed, NEW old, NEW from, NEW gone, Follows(old, from, gone),
         NEW i, NEW m, Pending(i, m), NEW k,
         \A j \in old : from[j] > m => j > k,
         \A j \in old : from[j] \in Fresh /\ from[j] > m =>
           j \in Fresh' /\ (i \in calls'[j].missed => i \in calls[from[j]].missed),
         \A g \in gone : /\ IsLoad(calls[g]) => ~(g > m)
                         /\ ~IsLoad(calls[g]) => calls[g].item # i \/ calls[g].at \notin {"reload", "kick", "patch"}
  PROVE  Pending(i, k)'
<1>1. CASE \E l \in DOMAIN calls :
             ~IsLoad(calls[l]) /\ calls[l].item = i /\ calls[l].at \in {"reload", "kick", "patch"}
  <2>1. PICK l \in DOMAIN calls :
             ~IsLoad(calls[l]) /\ calls[l].item = i /\ calls[l].at \in {"reload", "kick", "patch"}
    BY <1>1
  <2>2. l \in DOMAIN calls \ gone
    BY <2>1
  <2>3. PICK j \in old : from[j] = l
    BY <2>2 DEF Follows
  <2>4. j \in DOMAIN calls' /\ Kept(j, l)
    BY <2>3 DEF Follows
  <2>5. ~IsLoad(calls'[j]) /\ calls'[j].item = i /\ calls'[j].at \in {"reload", "kick", "patch"}
    BY <2>1, <2>4 DEF Kept, IsLoad
  <2> QED
    BY <2>4, <2>5 DEF Pending, IsLoad
<1>2. CASE \E l \in Fresh : l > m /\ i \notin calls[l].missed
  <2>1. PICK l \in Fresh : l > m /\ i \notin calls[l].missed
    BY <1>2
  <2>2. l \in DOMAIN calls \ gone
    BY <2>1 DEF Fresh
  <2>3. PICK j \in old : from[j] = l
    BY <2>2 DEF Follows
  <2>4. j > k /\ j \in Fresh' /\ i \notin calls'[j].missed
    BY <2>1, <2>3
  <2> QED
    BY <2>4 DEF Pending
<1> QED
  BY <1>1, <1>2 DEF Pending

\* The order of the calls that are left.
LEMMA OrderKept ==
  ASSUME Typed, Typed', NEW old, NEW from, NEW gone, Follows(old, from, gone)
  PROVE  /\ \A j \in old : j \in Nat /\ j > 0 /\ from[j] \in Nat /\ from[j] \in DOMAIN calls
         /\ \A j, k \in old : from[j] > from[k] => j > k
<1>1. \A l \in DOMAIN calls : l \in Nat
  BY CallOK
<1>2. \A l \in old : l \in DOMAIN calls' /\ from[l] \in DOMAIN calls
  BY DEF Follows
<1>3. \A l \in DOMAIN calls' : l \in Nat /\ l > 0
  BY LenProperties DEF Typed
<1>4. ASSUME NEW j \in old, NEW k \in old, from[j] > from[k] PROVE j > k
  <2>1. j \in Nat /\ k \in Nat /\ from[j] \in Nat /\ from[k] \in Nat
    BY <1>1, <1>2, <1>3
  <2>2. ~(j < k) /\ j # k
    BY <1>4, <2>1 DEF Follows
  <2> QED
    BY <2>1, <2>2
<1> QED
  BY <1>1, <1>2, <1>3, <1>4

\* A step that changes no row and ends no handler that would show one.
LEMMA ForgottenStays ==
  ASSUME Typed, Typed', NothingForgotten, page' = page, excuse \subseteq excuse', unseen' \subseteq unseen,
         NEW old, NEW from, NEW gone, Follows(old, from, gone), LoadsFollow(old, from),
         \A g \in gone : ~IsLoad(calls[g]) /\ calls[g].at \notin {"reload", "kick", "patch"}
  PROVE  NothingForgotten'
<1>1. /\ \A j \in Fresh' : j \in old /\ from[j] \in Fresh
      /\ \A j \in old : from[j] \in Fresh => j \in Fresh'
  BY FreshStays
<1>2. /\ \A j \in old : j \in Nat /\ j > 0 /\ from[j] \in Nat
      /\ \A j, k \in old : from[j] > from[k] => j > k
  BY OrderKept
<1>3. \A j \in old : from[j] \in Fresh => calls'[j].missed = calls[from[j]].missed
  BY DEF LoadsFollow, Fresh
<1>4. SUFFICES ASSUME excuse' \subseteq {"stale"}
               PROVE  /\ \A i \in unseen' : Pending(i, 0)'
                      /\ \A k \in Fresh' : \A i \in calls'[k].missed : Pending(i, k)'
  BY DEF NothingForgotten, Fresh, IsLoad
<1>5. /\ \A i \in unseen : Pending(i, 0)
      /\ \A k \in Fresh : \A i \in calls[k].missed : Pending(i, k)
  BY <1>4 DEF NothingForgotten
<1>6. ASSUME NEW i \in unseen' PROVE Pending(i, 0)'
  BY <1>1, <1>2, <1>3, <1>5, PendingStays
<1>7. ASSUME NEW k \in Fresh', NEW i \in calls'[k].missed PROVE Pending(i, k)'
  <2>1. k \in old /\ from[k] \in Fresh /\ i \in calls[from[k]].missed
    BY <1>1, <1>3
  <2>2. Pending(i, from[k])
    BY <1>5, <2>1
  <2>3. \A j \in old : from[j] > from[k] => j > k
    BY <1>2, <2>1
  <2> QED
    BY <1>1, <1>3, <2>2, <2>3, PendingStays
<1> QED
  BY <1>6, <1>7

\* What is displayed and what is known of it.
Seen == Current /\ NothingForgotten

LEMMA SeenStays ==
  ASSUME IInv, Typed', UNCHANGED <<page, query>>, shown'.q = shown.q, excuse \subseteq excuse',
         unseen' \subseteq unseen,
         NEW old, NEW from, NEW gone, Follows(old, from, gone), LoadsFollow(old, from),
         \A g \in gone : ~IsLoad(calls[g]) /\ calls[g].at \notin {"reload", "kick", "patch"}
  PROVE  Seen'
<1>1. Typed /\ Current /\ NothingForgotten
  BY DEF IInv
<1>2. Current'
  BY <1>1, CurrentStays
<1>3. NothingForgotten'
  BY <1>1, ForgottenStays
<1> QED
  BY <1>2, <1>3 DEF Seen

LEMMA SeenSame ==
  ASSUME IInv, Typed', UNCHANGED <<page, query, calls, excuse, unseen>>, shown'.q = shown.q
  PROVE  Seen'
<1>1. Follows(DOMAIN calls, Identity(DOMAIN calls), {}) /\ DOMAIN calls' = DOMAIN calls
  BY FollowSame DEF IInv
<1>2. LoadsFollow(DOMAIN calls, Identity(DOMAIN calls))
  BY <1>1 DEF LoadsFollow, Identity
<1> QED
  BY <1>1, <1>2, SeenStays

LEMMA SeenPressed ==
  ASSUME IInv, Typed', NEW o \in page.ops, NEW i \in Item \cup {NoItem}, Press(o, i)
  PROVE  Seen'
<1>1. Typed
  BY DEF IInv
<1>2. /\ UNCHANGED <<page, query, shown, unseen, excuse>> /\ Offered(o, i)
  BY DEF Press, display
<1>3. /\ Follows(DOMAIN calls, Identity(DOMAIN calls), {})
      /\ DOMAIN calls' \ DOMAIN calls = {Len(calls) + 1}
  BY <1>1, FollowPressed
<1>4. /\ \A j \in DOMAIN calls : IsLoad(calls[j]) => calls'[j] = calls[j]
      /\ calls'[Len(calls) + 1] = Sent(o, i)
  BY <1>1, Pressed
<1>5. ~IsLoad(calls'[Len(calls) + 1])
  BY <1>1, <1>2, <1>4, SentIn
<1>6. LoadsFollow(DOMAIN calls, Identity(DOMAIN calls))
  BY <1>3, <1>4, <1>5 DEF LoadsFollow, Identity
<1> QED
  BY <1>2, <1>3, <1>6, SeenStays

\* A handler ends without a change to show.
LEMMA SeenGone ==
  ASSUME IInv, Typed', NEW k \in DOMAIN calls, calls' = RemoveAt(calls, k), ~IsLoad(calls[k]),
         UNCHANGED <<page, query, unseen, excuse>>, shown'.q = shown.q,
         calls[k].at \in {"sent", "rest", "append"}
  PROVE  Seen'
<1>1. /\ Follows(DOMAIN calls', Shift(DOMAIN calls', k), {k})
      /\ \A j \in DOMAIN calls' : calls'[j] = calls[Shift(DOMAIN calls', k)[j]]
  BY FollowGone DEF IInv
<1>2. LoadsFollow(DOMAIN calls', Shift(DOMAIN calls', k))
  BY <1>1 DEF LoadsFollow
<1>3. calls[k].at \notin {"reload", "kick", "patch"}
  OBVIOUS
<1> QED
  BY <1>1, <1>2, <1>3, SeenStays

\* Nothing is promised of rows when an answer was lost or overtaken.
LEMMA SeenSpoilt == ASSUME "spoilt" \in excuse' PROVE Seen'
<1>1. "spoilt" # "stale" /\ "spoilt" # "crossed"
  OBVIOUS
<1> QED
  BY <1>1 DEF Seen, Current, NothingForgotten

LEMMA SeenPatched ==
  ASSUME IInv, Typed', NEW k \in DOMAIN calls, OpPatches(k)
  PROVE  Seen'
<1>1. Typed /\ Current /\ NothingForgotten
  BY DEF IInv
<1>2. /\ UNCHANGED <<page, query>> /\ calls' = RemoveAt(calls, k) /\ ~IsLoad(calls[k])
      /\ unseen' = unseen \ {calls[k].item}
      /\ excuse' = excuse \cup (IF LoadsIn(calls) = {} THEN {} ELSE {"crossed"})
  BY DEF OpPatches
<1>3. shown'.q = shown.q
  BY <1>1, PatchTyped
<1>4. /\ Follows(DOMAIN calls', Shift(DOMAIN calls', k), {k})
      /\ \A j \in DOMAIN calls' : calls'[j] = calls[Shift(DOMAIN calls', k)[j]]
  BY <1>1, <1>2, FollowGone
<1> DEFINE from == Shift(DOMAIN calls', k)
<1> HIDE DEF from
<1>5. LoadsFollow(DOMAIN calls', from)
  BY <1>4 DEF LoadsFollow, from
<1>6. Current'
  BY <1>1, <1>2, <1>3, <1>4, <1>5, CurrentStays DEF from
<1>7. NothingForgotten'
  <2>1. SUFFICES ASSUME excuse' \subseteq {"stale"}
                 PROVE  (\A i \in unseen' : Pending(i, 0)') /\ Fresh' = {}
    BY DEF NothingForgotten, Fresh, IsLoad
  <2>2. LoadsIn(calls) = {} /\ excuse \subseteq {"stale"}
    <3>1. "crossed" # "stale"
      OBVIOUS
    <3> QED
      BY <1>2, <2>1, <3>1
  <2>3. Fresh = {}
    BY <2>2 DEF Fresh, LoadsIn
  <2>4. Fresh' = {}
    BY <1>1, <1>4, <1>5, <2>3, FreshStays DEF from
  <2>5. ASSUME NEW i \in unseen' PROVE Pending(i, 0)'
    <3>1. Pending(i, 0) /\ i # calls[k].item
      BY <1>1, <1>2, <2>2 DEF NothingForgotten
    <3>2. \A j \in DOMAIN calls' : j > 0
      BY LenProperties DEF Typed
    <3> QED
      BY <1>1, <1>2, <1>4, <2>3, <3>1, <3>2, PendingStays
  <2> QED
    BY <2>4, <2>5
<1> QED
  BY <1>6, <1>7 DEF Seen

\* A handler's call that takes effect will itself show what it changed.
LEMMA SeenServed ==
  ASSUME IInv, Typed', NEW k \in DOMAIN calls, Serve(k)
  PROVE  Seen'
<1>1. Typed /\ Current /\ NothingForgotten
  BY DEF IInv
<1>2. calls[k].at = "sent" /\ UNCHANGED <<page, query, shown, excuse>>
  BY DEF Serve, display
<1>3. PICK e \in calls[k].op.ends : AnsweredBy(k, e)
  BY <1>1, Served
<1> DEFINE from == Identity(DOMAIN calls)
<1>4. Follows(DOMAIN calls, from, {}) /\ DOMAIN calls' = DOMAIN calls
  BY <1>1, <1>2, <1>3, FollowServed
<1>5. \A j \in DOMAIN calls : from[j] = j
  BY DEF Identity
<1> HIDE DEF from
<1>6. /\ unseen' = unseen \cup Changed(k, e)
      /\ \A j \in DOMAIN calls :
           /\ calls'[j].op = calls[j].op /\ calls'[j].item = calls[j].item
           /\ calls'[j].q = calls[j].q /\ calls'[j].passed = calls[j].passed
           /\ calls'[j].at = IF j = k THEN e ELSE calls[j].at
           /\ calls'[j].missed \subseteq calls[j].missed \cup Changed(k, e)
  BY <1>3 DEF AnsweredBy
<1>7. Fresh' = Fresh
  BY <1>4, <1>6 DEF Fresh, IsLoad
<1>8. Current'
  <2>1. \A j \in Fresh : calls'[j].q = calls[j].q
    BY <1>6 DEF Fresh
  <2> QED
    BY <1>1, <1>2, <1>7, <2>1 DEF Current
<1>9. ASSUME NEW i \in Changed(k, e), NEW m PROVE Pending(i, m)'
  <2>1. ~IsLoad(calls[k]) /\ e \notin {"append", "rest", "leave"} /\ i = calls[k].item
    BY <1>9 DEF Changed
  <2>2. e \in {"reload", "kick", "patch"}
    <3>1. calls[k].op \in page.ops
      BY <1>1, <2>1, CallOK
    <3> QED
      BY <1>1, <2>1, <3>1, OpOK
  <2>3. ~IsLoad(calls'[k]) /\ calls'[k].item = i /\ calls'[k].at \in {"reload", "kick", "patch"} /\ k \in DOMAIN calls'
    BY <1>4, <1>6, <2>1, <2>2 DEF IsLoad
  <2> QED
    BY <2>3 DEF Pending, IsLoad
<1>10. ASSUME NEW i, NEW m, Pending(i, m), i \notin Changed(k, e) PROVE Pending(i, m)'
  <2>1. /\ \A j \in DOMAIN calls : from[j] > m => j > m
        /\ \A j \in DOMAIN calls : from[j] \in Fresh /\ from[j] > m =>
             j \in Fresh' /\ (i \in calls'[j].missed => i \in calls[from[j]].missed)
    BY <1>5, <1>6, <1>7, <1>10
  <2> QED
    BY <1>1, <1>4, <1>10, <2>1, PendingStays
<1>11. NothingForgotten'
  <2>1. SUFFICES ASSUME excuse \subseteq {"stale"}
                 PROVE  /\ \A i \in unseen' : Pending(i, 0)'
                        /\ \A j \in Fresh' : \A i \in calls'[j].missed : Pending(i, j)'
    BY <1>2 DEF NothingForgotten, Fresh, IsLoad
  <2>2. \A i \in unseen' : Pending(i, 0)'
    BY <1>1, <1>6, <1>9, <1>10, <2>1 DEF NothingForgotten
  <2>3. ASSUME NEW j \in Fresh', NEW i \in calls'[j].missed PROVE Pending(i, j)'
    <3>1. j \in Fresh /\ j \in DOMAIN calls
      BY <1>7 DEF Fresh
    <3>2. i \in calls[j].missed \/ i \in Changed(k, e)
      BY <1>6, <3>1
    <3>3. i \in calls[j].missed => Pending(i, j)
      BY <1>1, <2>1, <3>1 DEF NothingForgotten
    <3> QED
      BY <1>9, <1>10, <3>2, <3>3
  <2> QED
    BY <2>2, <2>3
<1> QED
  BY <1>8, <1>11 DEF Seen

\* A load that no later one overtook shows the filters displayed, or one sent after it will.
LEMMA SeenArrived ==
  ASSUME IInv, Typed', NEW k \in DOMAIN calls, LoadArrives(k), "spoilt" \notin excuse'
  PROVE  Seen'
<1>1. Typed /\ Current /\ NothingForgotten
  BY DEF IInv
<1>2. /\ UNCHANGED <<page, query>> /\ IsLoad(calls[k]) /\ unseen' = calls[k].missed
      /\ shown'.q = calls[k].q
      /\ excuse' = IF calls[k].passed THEN excuse \cup {"spoilt"} ELSE excuse
  BY DEF LoadArrives
<1>3. ~calls[k].passed /\ excuse' = excuse /\ k \in Fresh
  BY <1>2 DEF Fresh
<1> DEFINE s == DOMAIN calls'
           from == Shift(s, k)
<1>4. Follows(s, from, {k}) /\ \A j \in s : Survives(j, Then(j, k), k)
  BY <1>1, FollowArrived
<1>5. \A j \in s : from[j] = Then(j, k)
  BY DEF Shift
<1> HIDE DEF from
<1>6. /\ \A j \in s : j \in Nat /\ j > 0 /\ from[j] \in Nat /\ from[j] \in DOMAIN calls /\ from[j] # k
      /\ \A j, l \in s : from[j] > from[l] => j > l
  <2>1. \A j \in s : from[j] # k
    BY <1>4 DEF Follows
  <2> QED
    BY <1>1, <1>4, <2>1, OrderKept
<1>7. k \in Nat /\ \A m \in DOMAIN calls : m \in Nat
  BY <1>1, CallOK
<1>8. ASSUME NEW j \in s
      PROVE  /\ j \in Fresh' <=> from[j] \in Fresh /\ from[j] > k
             /\ calls'[j].q = calls[from[j]].q /\ calls'[j].missed = calls[from[j]].missed
  <2>1. Survives(j, from[j], k)
    BY <1>4, <1>5
  <2>2. ~(from[j] < k) <=> from[j] > k
    BY <1>6, <1>7
  <2> QED
    BY <1>6, <2>1, <2>2 DEF Survives, Fresh, IsLoad
<1>9. \A j \in Fresh' : j \in s
  BY DEF Fresh
<1>10. \A m \in Fresh : m > k => \E j \in s : from[j] = m /\ j \in Fresh'
  <2> TAKE m \in Fresh
  <2> HAVE m > k
  <2>1. m \in DOMAIN calls \ {k}
    BY <1>7 DEF Fresh
  <2>2. PICK j \in s : from[j] = m
    BY <1>4, <2>1 DEF Follows
  <2> QED
    BY <1>8, <2>2
<1>11. Current'
  <2>1. SUFFICES ASSUME page.loads, excuse \subseteq {"crossed"}
                 PROVE  /\ calls[k].q = query \/ Fresh' # {}
                        /\ \A j \in Fresh' : calls'[j].q = query \/ \E l \in Fresh' : l > j
    BY <1>2, <1>3 DEF Current
  <2>2. \A m \in Fresh : calls[m].q = query \/ \E l \in Fresh : l > m
    BY <1>1, <2>1 DEF Current
  <2>3. calls[k].q = query \/ Fresh' # {}
    BY <1>3, <1>10, <2>2
  <2>4. ASSUME NEW j \in Fresh' PROVE calls'[j].q = query \/ \E l \in Fresh' : l > j
    <3>1. from[j] \in Fresh /\ from[j] > k /\ calls'[j].q = calls[from[j]].q
      BY <1>8, <1>9
    <3>2. CASE calls[from[j]].q = query
      BY <3>1, <3>2
    <3>3. CASE \E l \in Fresh : l > from[j]
      <4>1. PICK m \in Fresh : m > from[j]
        BY <3>3
      <4>2. m \in Nat /\ from[j] \in Nat
        BY <1>6, <1>7, <1>9 DEF Fresh
      <4>3. m > k
        BY <1>7, <3>1, <4>1, <4>2
      <4>4. PICK l \in s : from[l] = m /\ l \in Fresh'
        BY <1>10, <4>3
      <4> QED
        BY <1>6, <1>9, <4>1, <4>4
    <3> QED
      BY <2>2, <3>1, <3>2, <3>3
  <2> QED
    BY <2>3, <2>4
<1>12. NothingForgotten'
  <2>1. SUFFICES ASSUME excuse \subseteq {"stale"}
                 PROVE  /\ \A i \in unseen' : Pending(i, 0)'
                        /\ \A j \in Fresh' : \A i \in calls'[j].missed : Pending(i, j)'
    BY <1>3 DEF NothingForgotten, Fresh, IsLoad
  <2>2. \A m \in Fresh : \A i \in calls[m].missed : Pending(i, m)
    BY <1>1, <2>1 DEF NothingForgotten
  <2>3. ASSUME NEW i \in unseen' PROVE Pending(i, 0)'
    <3>1. Pending(i, k)
      BY <1>2, <1>3, <2>2
    <3>2. ~(k > k)
      BY <1>7
    <3> QED
      BY <1>1, <1>2, <1>4, <1>6, <1>8, <3>1, <3>2, PendingStays
  <2>4. ASSUME NEW j \in Fresh', NEW i \in calls'[j].missed PROVE Pending(i, j)'
    <3>1. j \in s /\ from[j] \in Fresh /\ from[j] > k /\ i \in calls[from[j]].missed
      BY <1>8, <1>9
    <3>2. Pending(i, from[j]) /\ from[j] \in Nat
      BY <1>6, <2>2, <3>1
    <3>3. ~(k > from[j])
      BY <1>7, <3>1, <3>2
    <3>4. \A l \in s : from[l] > from[j] => l > j
      BY <1>6, <3>1
    <3>5. \A l \in s : from[l] > from[j] => from[l] > k
      BY <1>6, <1>7, <3>1, <3>2
    <3>6. \A l \in s : from[l] \in Fresh /\ from[l] > from[j] =>
            l \in Fresh' /\ (i \in calls'[l].missed => i \in calls[from[l]].missed)
      BY <1>8, <3>5
    <3> QED
      BY <1>1, <1>2, <1>4, <3>2, <3>3, <3>4, <3>6, PendingStays
  <2> QED
    BY <2>3, <2>4
<1> QED
  BY <1>11, <1>12 DEF Seen

-----------------------------------------------------------------------------
\* Every step.

LEMMA IInvIs == IInv <=> Typed /\ Safe /\ Seen
  BY DEF IInv, Safe, Seen

LEMMA Sends ==
  ASSUME IInv, Typed', page' = page, query' \in Query, NEW q \in Query, SendLoad(calls, q, {})
  PROVE  Seen'
<1>1. Typed /\ calls \in Seq(InFlight) /\ {} \in SUBSET Named
  BY Present DEF IInv
<1> QED
  BY <1>1, Loaded DEF Seen

LEMMA Inductive == IInv /\ [Next]_vars => IInv'
<1> SUFFICES ASSUME IInv, [Next]_vars PROVE IInv'
  OBVIOUS
<1>1. Typed /\ Typed'
  BY TypedKept DEF IInv
<1>2. query \in Query /\ query' \in Query
  BY <1>1 DEF Typed
<1>3. SUFFICES Remount \/ (Safe' /\ Seen')
  <2>1. CASE Remount
    BY <1>1, <2>1, Reopens, StartsAgain
  <2>2. CASE Safe' /\ Seen'
    BY <1>1, <2>2 DEF IInv, Safe, Seen
  <2> QED
    BY <1>3, <2>1, <2>2
<1>4. CASE Browse
  <2>1. PICK q \in Query : query' = q /\ SendLoad(calls, q, {})
    BY <1>4 DEF Browse
  <2>2. UNCHANGED <<page, busy>>
    BY <1>4 DEF Browse, local
  <2> QED
    BY <1>1, <1>2, <2>1, <2>2, SafeSent, Sends
<1>5. CASE Refresh
  <2>1. SendLoad(calls, query, {}) /\ page' = page
    BY <1>5 DEF Refresh
  <2>2. busy' = busy \/ busy' = Raise(page.refreshing, "", NoItem)
    BY <1>5 DEF Refresh
  <2> QED
    BY <1>1, <1>2, <2>1, <2>2, SafeSent, Sends
<1>6. ASSUME NEW m \in page.moves, Step(m) PROVE Safe' /\ Seen'
  <2>1. UNCHANGED <<page, shown, busy, unseen>>
    BY <1>6 DEF Step
  <2>2. CASE m.loads
    <3>1. SendLoad(calls, query, {})
      BY <1>6, <2>2 DEF Step
    <3> QED
      BY <1>1, <1>2, <2>1, <3>1, SafeSent, Sends
  <2>3. CASE ~m.loads
    <3>1. UNCHANGED <<query, loading, calls, excuse>>
      BY <1>6, <2>3 DEF Step
    <3> QED
      BY <1>1, <2>1, <3>1, SafeSame, SeenSame
  <2> QED
    BY <2>2, <2>3
<1>7. ASSUME NEW i \in Item, Pushed(i) PROVE Safe' /\ Seen'
  <2>1. UNCHANGED <<page, query, loading, busy, calls, unseen, excuse>>
    BY <1>7 DEF Pushed, local
  <2>2. shown'.q = shown.q
    BY <1>1, <1>7 DEF Pushed, Typed
  <2> QED
    BY <1>1, <2>1, <2>2, SafeSame, SeenSame
<1>8. ASSUME NEW o \in page.ops, NEW i \in Item \cup {NoItem}, Press(o, i) PROVE Safe' /\ Seen'
  BY <1>1, <1>8, SafePressed, SeenPressed
<1>9. ASSUME NEW k \in DOMAIN calls, Serve(k) PROVE Safe' /\ Seen'
  BY <1>1, <1>9, SafeServed, SeenServed
<1>10. ASSUME NEW k \in DOMAIN calls, OpFails(k) PROVE Safe' /\ Seen'
  <2>1. /\ ~IsLoad(calls[k]) /\ calls' = RemoveAt(calls, k) /\ busy' = Lower(calls[k].frees)
        /\ UNCHANGED <<page, query, shown, loading, unseen>>
        /\ (calls[k].at = "sent" /\ excuse' = excuse) \/ "spoilt" \in excuse'
    BY <1>10 DEF OpFails, display
  <2> QED
    BY <1>1, <2>1, SafeGone, SeenGone, SeenSpoilt
<1>11. ASSUME NEW k \in DOMAIN calls, OpReloads(k) \/ OpKicks(k) PROVE Safe' /\ Seen'
  <2>1. page' = page /\ query' = query /\ calls[k].frees \in SUBSET Named /\ calls[k].q \in Query
    BY <1>1, <1>11, CallOK DEF OpReloads, OpKicks
  <2>2. RemoveAt(calls, k) \in Seq(InFlight) /\ {} \in SUBSET Named
    BY <1>1, GoneTyped, Present
  <2>3. \/ SendLoad(RemoveAt(calls, k), calls[k].q, calls[k].frees)
        \/ SendLoad(RemoveAt(calls, k), calls[k].q, {})
    BY <1>11 DEF OpReloads, OpKicks
  <2>4. Seen'
    BY <1>1, <1>2, <2>1, <2>2, <2>3, Loaded DEF Seen
  <2> QED
    BY <1>11, <2>4, SafeReloads
<1>12. ASSUME NEW k \in DOMAIN calls, OpPatches(k) PROVE Safe' /\ Seen'
  <2>1. /\ ~IsLoad(calls[k]) /\ calls' = RemoveAt(calls, k) /\ busy' = Lower(calls[k].frees)
        /\ UNCHANGED <<page, loading>>
    BY <1>12 DEF OpPatches
  <2> QED
    BY <1>1, <1>12, <2>1, SafeGone, SeenPatched
<1>13. ASSUME NEW k \in DOMAIN calls, OpRests(k) PROVE Safe' /\ Seen'
  <2>1. /\ ~IsLoad(calls[k]) /\ calls[k].at = "rest"
        /\ calls' = RemoveAt(calls, k) /\ busy' = Lower(calls[k].frees)
        /\ UNCHANGED <<page, query, shown, loading, unseen, excuse>>
    BY <1>13 DEF OpRests, display
  <2> QED
    BY <1>1, <2>1, SafeGone, SeenGone
<1>14. ASSUME NEW k \in DOMAIN calls, LoadArrives(k) PROVE Safe' /\ Seen'
  BY <1>1, <1>14, SafeArrived, SeenArrived, SeenSpoilt
<1>15. ASSUME NEW k \in DOMAIN calls, LoadFails(k) PROVE Safe' /\ Seen'
  <2>1. /\ calls' = RemoveAt(calls, k) /\ busy' = Lower(calls[k].frees)
        /\ page' = page /\ loading' = FALSE /\ "spoilt" \in excuse'
    BY <1>15 DEF LoadFails
  <2> QED
    BY <2>1, SafeGone, SeenSpoilt
<1>16. ASSUME NEW k \in DOMAIN calls, OpAppends(k) PROVE Safe' /\ Seen'
  <2>1. /\ ~IsLoad(calls[k]) /\ calls[k].at = "append"
        /\ calls' = RemoveAt(calls, k) /\ busy' = Lower(calls[k].frees)
        /\ UNCHANGED <<page, query, loading, unseen, excuse>>
    BY <1>16 DEF OpAppends
  <2>2. shown'.q = shown.q
    BY <1>1, <1>16, AppendTyped
  <2> QED
    BY <1>1, <2>1, <2>2, SafeGone, SeenGone
<1>17. CASE UNCHANGED vars
  BY <1>1, <1>17, SafeSame, SeenSame DEF vars, display, local
<1>18. CASE \E k \in DOMAIN calls : OpLeaves(k) \/ LoadSignsOut(k)
  BY <1>18 DEF OpLeaves, LoadSignsOut
<1>19. ASSUME NEW k \in DOMAIN calls,
              \/ Serve(k) \/ OpFails(k) \/ OpReloads(k) \/ OpKicks(k) \/ OpPatches(k) \/ OpAppends(k)
              \/ OpRests(k) \/ LoadArrives(k) \/ LoadFails(k)
       PROVE  Safe' /\ Seen'
  BY <1>9, <1>10, <1>11, <1>12, <1>13, <1>14, <1>15, <1>16, <1>19
<1> QED
  BY <1>4, <1>5, <1>6, <1>7, <1>8, <1>17, <1>18, <1>19 DEF Next

LEMMA Always == Spec => []IInv
<1>1. Init => IInv
  <2>1. Init => page \in Opened /\ query \in Query /\ Mounted
    BY DEF Init, Mounted
  <2> QED
    BY <2>1, Starts
<1> QED
  BY <1>1, Inductive, PTL DEF Spec

-----------------------------------------------------------------------------
\* The theorems.

\* The variables keep their types, and a handler on a row is called with one
\* whatever the part of the page that is open (handleApprove(id) and its like).
THEOREM TypesHold == Spec => []TypeOK
<1>1. IInv => TypeOK
  <2> SUFFICES ASSUME IInv PROVE TypeOK
    OBVIOUS
  <2>1. Typed
    BY DEF IInv
  <2>2. \A k \in DOMAIN calls :
          calls[k].item \in IF calls[k].op.target = "page" THEN {NoItem} ELSE Item
    <3> TAKE k \in DOMAIN calls
    <3>1. calls[k] \in InFlight
      BY <2>1, CallOK
    <3> QED
      BY <3>1 DEF InFlight
  <2> QED
    BY <2>1, <2>2 DEF Typed, TypeOK
<1> QED
  BY <1>1, Always, PTL

\* No skeleton and no disabled button stays for good: whatever fails or is lost, a
\* call is in flight whose finally lowers the flag (setLoading(false), setActionLoading(null)).
THEOREM ControlsComeBack == Spec => []BusyHasCause
<1>1. IInv => BusyHasCause
  BY DEF IInv
<1> QED
  BY <1>1, Always, PTL

\* Once nothing is in flight, the rows are those of the filters displayed, unless
\* answers overtook each other, failed, or a handler of an earlier render reloaded.
THEOREM RowsMatch == Spec => []ShownMatchesQuery
<1>1. IInv => ShownMatchesQuery
  <2> SUFFICES ASSUME IInv, calls = <<>>, excuse \subseteq {"crossed"}, page.loads PROVE shown.q = query
    BY DEF ShownMatchesQuery
  <2>1. Fresh = {}
    BY DEF Fresh
  <2> QED
    BY <2>1 DEF IInv, Current
<1> QED
  BY <1>1, Always, PTL

\* Once nothing is in flight, the rows show what the user changed from the page (the
\* reload, or the row patched, of every handler), but for what was lost or crossed.
THEOREM ChangesShown == Spec => []OwnChangesShown
<1>1. IInv => OwnChangesShown
  <2> SUFFICES ASSUME IInv, calls = <<>>, excuse \subseteq {"stale"} PROVE unseen = {}
    BY DEF OwnChangesShown
  <2>1. Fresh = {} /\ DOMAIN calls = {}
    BY DEF Fresh
  <2>2. \A i \in unseen : Pending(i, 0)
    BY DEF IInv, NothingForgotten
  <2> QED
    BY <2>1, <2>2 DEF Pending
<1> QED
  BY <1>1, Always, PTL

\* A button pressed again while its handler runs does nothing (disabled by
\* actionLoading), unless presses on several rows overlapped.
THEOREM NoRepeats == Spec => []RepeatsOnlyAfterOverlap
<1>1. IInv => RepeatsOnlyAfterOverlap
  BY DEF IInv
<1> QED
  BY <1>1, Always, PTL
=============================================================================
