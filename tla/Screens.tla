------------------------------- MODULE Screens -------------------------------
(***************************************************************************)
(* One page of the web client or screen of the mobile app, open in one tab *)
(* (tables Pages and StaffPages): what it shows, the flags that disable    *)
(* its buttons, and its calls in flight, which may be answered, lost and   *)
(* overtaken in any order.  Other users change the rows at any time, so a  *)
(* load may return any.                                                    *)
(***************************************************************************)
EXTENDS StaffPages, Naturals, FiniteSets, SequencesExt

CONSTANTS
  Opened,    \* the pages considered
  Item,      \* ids of rows
  Query,     \* filters and page numbers
  MaxCalls,  \* calls in flight (a bound)
  NoItem, NoQuery

ASSUME ScreensAssumption == NoItem \notin Item /\ NoQuery \notin Query /\ MaxCalls \in Nat \ {0}

\* What the tables keep to.
WellFormed(p) ==
  /\ p.loads \in BOOLEAN
  /\ p.pushed \in p.statuses \cup {None}
  /\ \A o \in p.ops :
       /\ o.target \in {"row", "picked", "page"}
       /\ o.ends \subseteq {"reload", "kick", "patch", "append", "rest", "leave"}
       /\ "patch" \in o.ends => o.patch \in p.statuses
       /\ o.flag # None => o.flag # p.refreshing

ASSUME PagesAssumption == \A p \in Opened : WellFormed(p)

VARIABLES
  page,     \* the page
  query,    \* the filters it displays
  shown,    \* the rows it displays and the query they answer
  loading,  \* its skeleton replaces the rows
  busy,     \* its flags
  stage,    \* the part that is open, and the row picked for it
  picked,
  calls,    \* calls in flight, in the order they were sent
  unseen,   \* items changed from this page since the rows displayed were read
  excuse    \* what went wrong since a load was sent with no other call in flight:
            \* a reload with old filters ("stale"), a row patched while a load was
            \* in flight ("crossed"), an answer lost or overtaken ("spoilt")

display == <<query, shown, loading>>
local == <<busy, stage, picked>>
vars == <<page, display, local, calls, unseen, excuse>>

-----------------------------------------------------------------------------
Down == <<>>
Absent == "absent"
Rows == [Item -> page.statuses \cup {Absent}]
Blank == [q |-> NoQuery, rows |-> [i \in Item |-> Absent]]

Flags == ({o.flag : o \in page.ops} \cup {page.refreshing}) \ {None}
Lower(flags) == [f \in Flags |-> IF f \in flags THEN Down ELSE busy[f]]
Raise(f, tag, i) == [g \in Flags |-> IF g = f THEN <<tag, i>> ELSE busy[g]]

\* A load, in the place of a handler.
Fetch == [target |-> "page", ends |-> {"rows"}, anyway |-> FALSE]
Load(q, flags) ==
  [op |-> Fetch, item |-> NoItem, at |-> "sent", q |-> q,
   frees |-> flags \cup {page.refreshing}, missed |-> {}, passed |-> FALSE]
IsLoad(c) == c.op = Fetch

LoadsIn(s) == {k \in DOMAIN s : IsLoad(s[k])}
Spins == page.spins = "always" \/ (page.spins = "blank" /\ shown = Blank)

\* A load of q is sent after `others`.
SendLoad(others, q, flags) ==
  /\ calls' = Append(others, Load(q, flags))
  /\ excuse' = (IF others = <<>> THEN {} ELSE excuse)
                 \cup (IF q = query' THEN {} ELSE {"stale"})
  /\ loading' = (loading \/ Spins)

\* Some row shows what the page-wide button asks for.
Offered(o, i) ==
  CASE o.target = "page" -> i = NoItem /\ (o.on = {} \/ \E j \in Item : shown.rows[j] \in o.on)
    [] o.target = "picked" -> i = picked /\ i # NoItem /\ (o.on = {} \/ shown.rows[i] \in o.on)
    [] o.target = "row" -> i \in Item /\ shown.rows[i] \in o.on

\* The button is not disabled by the flag.
Enabled(o, i) ==
  IF o.flag = None THEN TRUE
  ELSE busy[o.flag] = Down \/ (~o.alone /\ busy[o.flag] # <<o.tag, i>>)

-----------------------------------------------------------------------------
\* The page is mounted.
Mounted ==
  /\ query \in Query /\ shown = Blank /\ loading = page.loads
  /\ busy = [f \in Flags |-> Down]
  /\ stage \in page.first /\ picked = NoItem
  /\ calls = IF page.loads THEN <<Load(query, {})>> ELSE <<>>
  /\ unseen = {} /\ excuse = {}

Init == page \in Opened /\ Mounted

\* It is left and opened again: answers to its calls find nobody.
Remount ==
  /\ query' \in Query /\ shown' = Blank /\ loading' = page.loads
  /\ busy' = [f \in Flags |-> Down]
  /\ stage' \in page.first /\ picked' = NoItem
  /\ calls' = IF page.loads THEN <<Load(query', {})>> ELSE <<>>
  /\ unseen' = {} /\ excuse' = {}
  /\ UNCHANGED page

\* The user.

\* Mutant of Browse: the effect does not depend on the filter.
BrowseWithoutLoad ==
  /\ page.browse = "anytime" \/ (page.browse = "loaded" /\ ~loading)
  /\ Len(calls) < MaxCalls
  /\ \E q \in Query \ {query} : query' = q
  /\ UNCHANGED <<page, shown, loading, local, calls, unseen, excuse>>

\* Another filter or page number, whose effect loads its rows.
Browse ==
  /\ page.browse = "anytime" \/ (page.browse = "loaded" /\ ~loading)
  /\ Len(calls) < MaxCalls
  /\ \E q \in Query \ {query} : query' = q /\ SendLoad(calls, q, {})
  /\ UNCHANGED <<page, shown, local, unseen>>

\* By a button, a gesture, a retry, or a timer.
Refresh ==
  /\ page.refresher # "never" /\ (loading => page.refresher = "timer")
  /\ page.refresher = "guarded" => busy[page.refreshing] = Down
  /\ Len(calls) < MaxCalls
  /\ busy' = IF Spins THEN busy ELSE Raise(page.refreshing, "", NoItem)
  /\ UNCHANGED query /\ SendLoad(calls, query, {})
  /\ UNCHANGED <<page, shown, stage, picked, unseen>>

\* A step within the page: a form, a modal, a countdown.
Step(m) ==
  /\ stage \in m.from /\ (loading => m.outside)
  /\ stage' = m.to
  /\ IF m.on = {}
     THEN /\ m.flag # None => busy[m.flag] = Down
          /\ picked' = IF m.to = "list" THEN NoItem ELSE picked
     ELSE \E i \in IF picked = NoItem THEN Item ELSE {picked} :
            /\ shown.rows[i] \in m.on
            /\ m.flag # None => busy[m.flag] # <<"", i>>
            /\ picked' = i
  /\ IF m.loads
     THEN Len(calls) < MaxCalls /\ UNCHANGED query /\ SendLoad(calls, query, {})
     ELSE UNCHANGED <<query, loading, calls, excuse>>
  /\ UNCHANGED <<page, shown, busy, unseen>>

\* Calls in flight that will lower the flag of a button.
Holders(o) == {k \in DOMAIN calls : o.flag # None /\ o.flag \in calls[k].frees}

\* A press on another row, or of another button, takes the flag over from them.
Taken(o, i) == [k \in DOMAIN calls |->
  IF k \in Holders(o) /\ ~IsLoad(calls[k]) /\ <<calls[k].op.tag, calls[k].item>> # <<o.tag, i>>
  THEN [calls[k] EXCEPT !.passed = TRUE] ELSE calls[k]]

\* Its own call is overtaken from the start if others will lower the flag.
Sent(o, i) ==
  [op |-> o, item |-> i, at |-> "sent", q |-> query, frees |-> {o.flag},
   missed |-> {}, passed |-> Holders(o) # {}]

\* Mutant of Press: the button stays enabled.
PressAgain(o, i) ==
  /\ stage \in o.where /\ (loading => o.outside)
  /\ Offered(o, i)
  /\ Len(calls) < MaxCalls
  /\ busy' = Raise(o.flag, o.tag, i)
  /\ calls' = Append(calls, Sent(o, i))
  /\ stage' = IF o.opens = Same THEN stage ELSE o.opens
  /\ picked' = IF o.opens = Same THEN picked ELSE NoItem
  /\ UNCHANGED <<page, display, unseen, excuse>>

\* Mutant of Press: the modal is closed before its row is read.
PressCleared(o, i) ==
  /\ stage \in o.where /\ (loading => o.outside)
  /\ Offered(o, i) /\ Enabled(o, i)
  /\ Len(calls) < MaxCalls
  /\ stage' = IF o.opens = Same THEN stage ELSE o.opens
  /\ picked' = IF o.opens = Same THEN picked ELSE NoItem
  /\ busy' = Raise(o.flag, o.tag, IF o.target = "picked" THEN picked' ELSE i)
  /\ calls' = Append(Taken(o, i), Sent(o, IF o.target = "picked" THEN picked' ELSE i))
  /\ UNCHANGED <<page, display, unseen, excuse>>

\* A handler, up to its await.
Press(o, i) ==
  /\ stage \in o.where /\ (loading => o.outside)
  /\ Offered(o, i) /\ Enabled(o, i)
  /\ Len(calls) < MaxCalls
  /\ busy' = Raise(o.flag, o.tag, i)
  /\ calls' = Append(Taken(o, i), Sent(o, i))
  /\ stage' = IF o.opens = Same THEN stage ELSE o.opens
  /\ picked' = IF o.opens = Same THEN picked ELSE NoItem
  /\ UNCHANGED <<page, display, unseen, excuse>>

-----------------------------------------------------------------------------
\* The API.

\* The request takes effect: what a load reads now lacks every later change.
Serve(k) ==
  /\ calls[k].at = "sent"
  /\ \E e \in calls[k].op.ends :
       LET changed == IF IsLoad(calls[k]) \/ e \in {"append", "rest", "leave"} THEN {} ELSE {calls[k].item}
       IN  /\ unseen' = unseen \cup changed
           /\ calls' = [j \in DOMAIN calls |->
                IF j = k THEN [calls[j] EXCEPT !.at = e]
                ELSE IF IsLoad(calls[j]) /\ calls[j].at # "sent"
                THEN [calls[j] EXCEPT !.missed = @ \cup changed] ELSE calls[j]]
  /\ UNCHANGED <<page, display, local, excuse>>

\* A new row is pushed to the page.
Pushed(i) ==
  /\ page.pushed # None
  /\ shown' = [shown EXCEPT !.rows[i] = page.pushed]
  /\ UNCHANGED <<page, query, loading, local, calls, unseen, excuse>>

-----------------------------------------------------------------------------
\* The handlers, after their await.

\* The parts of the page a success sets.
Won(c) ==
  IF c.op.won = Same \/ c.at \in c.op.keeps THEN UNCHANGED <<stage, picked>>
  ELSE stage' = c.op.won /\ picked' = IF c.op.target = "row" THEN c.item ELSE NoItem

\* Mutant of OpFails: the flag is lowered on success only.
OpFailsRaised(k) ==
  /\ ~IsLoad(calls[k])
  /\ calls' = RemoveAt(calls, k)
  /\ UNCHANGED <<page, display, local, unseen, excuse>>

\* The API refuses, or the answer is lost and the request may take effect all
\* the same: an error message, and finally.
OpFails(k) ==
  /\ ~IsLoad(calls[k]) /\ ~calls[k].op.anyway
  /\ calls' = RemoveAt(calls, k)
  /\ busy' = Lower(calls[k].frees)
  /\ \/ calls[k].at = "sent" /\ UNCHANGED excuse
     \/ excuse' = excuse \cup {"spoilt"}
  /\ UNCHANGED <<page, display, stage, picked, unseen>>

\* Mutant of OpReloads: the page is not loaded again.
OpForgets(k) ==
  /\ ~IsLoad(calls[k]) /\ calls[k].at = "reload"
  /\ calls' = RemoveAt(calls, k)
  /\ busy' = Lower(calls[k].frees)
  /\ Won(calls[k])
  /\ UNCHANGED <<page, display, unseen, excuse>>

\* The page is loaded again, by the function of the render in which the button
\* was pressed, and so with the filters of then; the flag stays up meanwhile.
OpReloads(k) ==
  /\ ~IsLoad(calls[k]) /\ calls[k].at = "reload"
  /\ UNCHANGED <<query, busy>>
  /\ SendLoad(RemoveAt(calls, k), calls[k].q, calls[k].frees)
  /\ Won(calls[k])
  /\ UNCHANGED <<page, shown, unseen>>

OpKicks(k) ==
  /\ ~IsLoad(calls[k]) /\ calls[k].at = "kick"
  /\ busy' = [f \in Flags |->
       IF f = page.refreshing THEN <<"", NoItem>> ELSE Lower(calls[k].frees)[f]]
  /\ UNCHANGED query
  /\ SendLoad(RemoveAt(calls, k), calls[k].q, {})
  /\ Won(calls[k])
  /\ UNCHANGED <<page, shown, unseen>>

\* The row, or every row, is changed in the page itself. An older load still in
\* flight will undo it.
OpPatches(k) ==
  LET c == calls[k]
      rows == IF c.item = NoItem THEN Item ELSE {c.item}
  IN  /\ ~IsLoad(c) /\ c.at = "patch"
      /\ shown' = [shown EXCEPT !.rows = [i \in Item |->
           IF i \in rows /\ @[i] # Absent THEN c.op.patch ELSE @[i]]]
      /\ unseen' = unseen \ {c.item}
      /\ excuse' = excuse \cup (IF LoadsIn(calls) = {} THEN {} ELSE {"crossed"})
      /\ calls' = RemoveAt(calls, k)
      /\ busy' = Lower(c.frees)
      /\ Won(c)
      /\ UNCHANGED <<page, query, loading>>

\* Rows are added to those displayed, whatever they are by now.
OpAppends(k) ==
  /\ ~IsLoad(calls[k]) /\ calls[k].at = "append"
  /\ \E rows \in Rows :
       /\ \A i \in Item : shown.rows[i] # Absent => rows[i] = shown.rows[i]
       /\ shown' = [shown EXCEPT !.rows = rows]
  /\ calls' = RemoveAt(calls, k)
  /\ busy' = Lower(calls[k].frees)
  /\ Won(calls[k])
  /\ UNCHANGED <<page, query, loading, unseen, excuse>>

OpRests(k) ==
  /\ ~IsLoad(calls[k]) /\ calls[k].at = "rest"
  /\ calls' = RemoveAt(calls, k)
  /\ busy' = Lower(calls[k].frees)
  /\ Won(calls[k])
  /\ UNCHANGED <<page, display, unseen, excuse>>

OpLeaves(k) == (calls[k].at = "leave" \/ calls[k].op.anyway) /\ Remount

\* The rows of a load replace those displayed, whichever was sent first.
LoadArrives(k) ==
  LET c == calls[k] IN
  /\ IsLoad(c) /\ c.at = "rows"
  /\ \E rows \in Rows : shown' = [q |-> c.q, rows |-> rows]
  /\ loading' = FALSE
  /\ busy' = Lower(c.frees)
  /\ calls' = RemoveAt([j \in DOMAIN calls |->
       IF j < k /\ IsLoad(calls[j]) THEN [calls[j] EXCEPT !.passed = TRUE] ELSE calls[j]], k)
  /\ unseen' = c.missed
  /\ excuse' = IF c.passed THEN excuse \cup {"spoilt"} ELSE excuse
  /\ UNCHANGED <<page, query, stage, picked>>

LoadFails(k) ==
  LET c == calls[k] IN
  /\ IsLoad(c) /\ page.failure # "leave"
  /\ shown' = IF page.failure = "empty" THEN Blank ELSE shown
  /\ loading' = FALSE
  /\ busy' = Lower(c.frees)
  /\ calls' = RemoveAt(calls, k)
  /\ excuse' = excuse \cup {"spoilt"}
  /\ UNCHANGED <<page, query, stage, picked, unseen>>

LoadSignsOut(k) ==
  IsLoad(calls[k]) /\ page.failure = "leave" /\ Remount

-----------------------------------------------------------------------------
Next ==
  \/ Remount \/ Browse \/ Refresh
  \/ \E m \in page.moves : Step(m)
  \/ \E i \in Item : Pushed(i)
  \/ \E o \in page.ops, i \in Item \cup {NoItem} : Press(o, i)
  \/ \E k \in DOMAIN calls :
       \/ Serve(k) \/ OpFails(k) \/ OpReloads(k) \/ OpKicks(k) \/ OpPatches(k) \/ OpAppends(k)
       \/ OpRests(k) \/ OpLeaves(k) \/ LoadArrives(k) \/ LoadFails(k) \/ LoadSignsOut(k)

Spec == Init /\ [][Next]_vars

-----------------------------------------------------------------------------
\* Types; a handler on a row is called with one.
TypeOK ==
  /\ page \in Opened /\ query \in Query
  /\ shown.q \in Query \cup {NoQuery} /\ shown.rows \in Rows
  /\ loading \in BOOLEAN /\ DOMAIN busy = Flags
  /\ picked \in Item \cup {NoItem}
  /\ Len(calls) <= MaxCalls
  /\ \A k \in DOMAIN calls :
       calls[k].item \in IF calls[k].op.target = "page" THEN {NoItem} ELSE Item
  /\ unseen \subseteq Item \cup {NoItem}
  /\ excuse \subseteq {"stale", "crossed", "spoilt"}

\* No spinner that nothing will stop, no button disabled for good: whatever the
\* answers and the errors, a flag that is up or a skeleton has a call in flight
\* whose end lowers it (the finally of every handler and load).
BusyHasCause ==
  /\ \A f \in Flags : busy[f] # Down => \E k \in DOMAIN calls : f \in calls[k].frees
  /\ loading => LoadsIn(calls) # {}

\* When nothing is in flight the rows are those of the filters displayed, but
\* for the cases the pages do not handle: answers that overtook each other, a
\* reload with the filters of an earlier render, a load that failed.
ShownMatchesQuery ==
  calls = <<>> /\ excuse \subseteq {"crossed"} /\ page.loads
    => shown.q = query

\* When nothing is in flight the rows include what was changed from the page,
\* but for answers lost or overtaken, loads that failed, and a row patched while
\* an older load was in flight.
OwnChangesShown ==
  calls = <<>> /\ excuse \subseteq {"stale"} => unseen = {}

\* One press, one call: the same handler is not sent twice for one row unless
\* presses on several rows overlapped, which share one flag (actionLoading).
RepeatsOnlyAfterOverlap ==
  \A j, k \in DOMAIN calls :
    j < k /\ ~IsLoad(calls[j]) /\ calls[j].op = calls[k].op /\ calls[j].item = calls[k].item
      => calls[j].op.flag = None \/ calls[j].passed
=============================================================================
