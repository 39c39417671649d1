------------------------------ MODULE LivePage ------------------------------
(* How an open page follows the server: the freshness poller                   *)
(* (components/freshness-poll.ts, useFreshness.ts; day-tracker-tick.ts is the  *)
(* same machine) and the loads of a view.  The poller's stamp is the number of *)
(* changes of what it watches; a view that fetches is a person panel, whose    *)
(* first loads are cancelled when the person changes; a view whose parameters  *)
(* change (Cohorts, and with one subject DotPlot and PMF), which cancels       *)
(* nothing; the WBR, which tries three times; or the calendar, which loads     *)
(* again after every render, its `today` being new each time.                  *)
EXTENDS Naturals, FiniteSets

CONSTANTS
  Kinds,         \* of "panel", "view", "wbr", "calendar"
  Subjects,      \* persons, or parameters of a view
  MaxVersion,    \* bound: changes on the server
  MaxMoves,      \* bound: opening, closing, hiding, choosing
  MaxFails,      \* bound: freshness requests that fail
  MaxTicks       \* bound: freshness requests under way when the interval adds one

VARIABLES
  kind, version, hidden, moves, fails,
  subject,       \* what the page is about; "none" while it is closed
  loads,         \* under way: [subject, refresh, attempt, v]; v = 0 until read
  data,          \* painted: [subject, refresh, v]
  spinning,      \* loading, or the panel without data and error
  known,         \* the poller's stamp; 0 before the first
  first,         \* history: the stamp once the mounting tick was answered
  timers,        \* intervals running
  ticks,         \* freshness requests: [trigger, mount, v]
  asked          \* history: the newest version when a load reached the server
liveVars == <<kind, version, hidden, moves, fails, subject, loads, data, spinning, known, first, timers, ticks, asked>>

Failed == MaxVersion + 1
Open == subject # "none"
NoData == [subject |-> "none", refresh |-> FALSE, v |-> 0]
ALoad(s, refresh) == [subject |-> s, refresh |-> refresh, attempt |-> 0, v |-> 0]
Tick(trigger, mount) == [trigger |-> trigger, mount |-> mount, v |-> 0]

Init ==
  /\ kind \in Kinds /\ version = 1 /\ hidden = FALSE /\ moves = 0 /\ fails = 0
  /\ subject = "none" /\ loads = {} /\ data = NoData /\ spinning = FALSE
  /\ known = 0 /\ first = 0 /\ timers = 0 /\ ticks = {} /\ asked = 0

-----------------------------------------------------------------------------
(* The interval is started once, and never for a hidden tab.                   *)
start(n, isHidden) == IF n > 0 \/ isHidden THEN n ELSE 1
stop(n) == IF n > 0 THEN n - 1 ELSE 0

page == <<loads, data, spinning, asked>>
stamps == <<known, first>>
Move == moves < MaxMoves /\ moves' = moves + 1
(* The page is opened: it loads, and the poller mounts with a first tick.      *)
Mount(s) ==
  /\ Move /\ ~Open /\ subject' = s
  /\ loads' = {ALoad(s, FALSE)} /\ data' = NoData /\ spinning' = TRUE /\ asked' = 0
  /\ known' = 0 /\ first' = 0 /\ timers' = 0 /\ ticks' = IF hidden THEN {} ELSE {Tick(FALSE, TRUE)}
  /\ UNCHANGED <<kind, version, hidden, fails>>
(* dispose: what is under way changes nothing any more.                        *)
Unmount ==
  /\ Move /\ Open /\ subject' = "none"
  /\ loads' = {} /\ data' = NoData /\ spinning' = FALSE /\ asked' = 0
  /\ known' = 0 /\ first' = 0 /\ timers' = stop(timers) /\ ticks' = {}
  /\ UNCHANGED <<kind, version, hidden, fails>>
handleVisibility ==
  /\ Move /\ hidden' = ~hidden
  /\ IF ~Open THEN UNCHANGED <<timers, ticks>>
     ELSE IF hidden' THEN timers' = stop(timers) /\ UNCHANGED ticks
     ELSE timers' = start(timers, FALSE) /\ ticks' = ticks \cup {Tick(TRUE, FALSE)}
  /\ UNCHANGED <<kind, version, fails, subject, page, stamps>>
Fire ==
  /\ timers > 0 /\ ~hidden /\ Cardinality(ticks) < MaxTicks
  /\ ticks' = ticks \cup {Tick(TRUE, FALSE)} /\ ticks' # ticks
  /\ UNCHANGED <<kind, version, hidden, moves, fails, subject, page, stamps, timers>>
TickRead(k) ==
  /\ k.v = 0 /\ ticks' = (ticks \ {k}) \cup {[k EXCEPT !.v = version]}
  /\ UNCHANGED <<kind, version, hidden, moves, fails, subject, page, stamps, timers>>
TickFails(k) ==
  /\ k.v = 0 /\ fails < MaxFails /\ fails' = fails + 1
  /\ ticks' = (ticks \ {k}) \cup {[k EXCEPT !.v = Failed]}
  /\ UNCHANGED <<kind, version, hidden, moves, subject, page, stamps, timers>>
(* Mutant: nothing is asked for while a load is under way.                     *)
BugSkipsWhileLoading(k) ==
  /\ k.v # 0 /\ ticks' = ticks \ {k}
  /\ timers' = IF k.mount THEN start(timers, hidden) ELSE timers
  /\ known' = IF k.v = Failed THEN known ELSE k.v
  /\ first' = IF first = 0 \/ \E t \in ticks : t.mount THEN known' ELSE first
  /\ loads' = IF k.v # Failed /\ k.trigger /\ known \notin {0, k.v} /\ loads = {}
              THEN loads \cup {ALoad(subject, TRUE)} ELSE loads
  /\ UNCHANGED <<kind, version, hidden, moves, fails, subject, data, spinning, asked>>
tick(k) ==
  /\ k.v # 0 /\ ticks' = ticks \ {k}
  /\ timers' = IF k.mount THEN start(timers, hidden) ELSE timers
  /\ known' = IF k.v = Failed THEN known ELSE k.v
  /\ first' = IF first = 0 \/ \E t \in ticks : t.mount THEN known' ELSE first
  /\ loads' = IF k.v # Failed /\ k.trigger /\ known \notin {0, k.v}
              THEN loads \cup {ALoad(subject, TRUE)} ELSE loads
  /\ UNCHANGED <<kind, version, hidden, moves, fails, subject, data, spinning, asked>>

-----------------------------------------------------------------------------
Kept(of) == IF kind = "panel" THEN {l \in of : l.refresh} ELSE of
Choose(s) ==
  /\ Move /\ Open /\ s # subject /\ kind \in {"panel", "view"}
  /\ subject' = s /\ loads' = Kept(loads) \cup {ALoad(s, FALSE)}
  /\ data' = IF kind = "panel" THEN NoData ELSE data
  /\ spinning' = IF kind = "panel" THEN TRUE ELSE spinning
  /\ UNCHANGED <<kind, version, hidden, fails, stamps, timers, ticks, asked>>
LoadRead(l) ==
  /\ l.v = 0 /\ \E v \in {version, Failed} : loads' = (loads \ {l}) \cup {[l EXCEPT !.v = v]}
  /\ asked' = IF version > asked THEN version ELSE asked
  /\ UNCHANGED <<kind, version, hidden, moves, fails, subject, data, spinning, stamps, timers, ticks>>
Again(l) == [ALoad(l.subject, l.refresh) EXCEPT !.attempt = l.attempt + 1]
LoadFails(l) ==
  /\ l.v = Failed
  /\ IF kind = "wbr" /\ l.attempt < 2
     THEN loads' = (loads \ {l}) \cup {Again(l)} /\ UNCHANGED spinning
     ELSE loads' = loads \ {l} /\ spinning' = (spinning /\ l.refresh)
  /\ UNCHANGED <<kind, version, hidden, moves, fails, subject, data, stamps, timers, ticks, asked>>
(* A refresh of the panel shows too, whoever it was for; of a view, whatever   *)
(* the parameters were.                                                        *)
LoadAnswers(l) ==
  /\ l.v \notin {0, Failed}
  /\ data' = [subject |-> l.subject, refresh |-> l.refresh, v |-> l.v]
  /\ loads' = (loads \ {l}) \cup IF kind = "calendar" THEN {ALoad(subject, FALSE)} ELSE {}
  /\ spinning' = (spinning /\ l.refresh /\ kind # "panel")
  /\ UNCHANGED <<kind, version, hidden, moves, fails, subject, stamps, timers, ticks, asked>>
(* A sync or an ingest.                                                        *)
ServerChange ==
  /\ version < MaxVersion /\ version' = version + 1
  /\ UNCHANGED <<kind, hidden, moves, fails, subject, page, stamps, timers, ticks>>

TickServed == \E k \in ticks : TickRead(k)
Ticked == \E k \in ticks : tick(k)
LoadServed == \E l \in loads : LoadRead(l)
Loaded == \E l \in loads : LoadFails(l) \/ LoadAnswers(l)
Next ==
  \/ \E s \in Subjects : Mount(s) \/ Choose(s)
  \/ Unmount \/ handleVisibility \/ Fire \/ ServerChange
  \/ TickServed \/ Ticked \/ LoadServed \/ Loaded
  \/ \E k \in ticks : TickFails(k)

(* The interval fires for an open, visible tab; what was asked is answered.    *)
PageSpec ==
  /\ Init /\ [][Next]_liveVars
  /\ WF_liveVars(Fire) /\ WF_liveVars(TickServed) /\ WF_liveVars(Ticked)
  /\ WF_liveVars(LoadServed) /\ WF_liveVars(Loaded)

-----------------------------------------------------------------------------
(* One interval follows an open, visible page once its first tick is in; none  *)
(* runs for a hidden tab or a closed page (start's guard, handleVisibility     *)
(* while the first tick is under way, dispose).                                *)
OneInterval ==
  /\ timers <= 1 /\ (hidden \/ ~Open => timers = 0)
  /\ Open /\ ~hidden /\ (\A k \in ticks : ~k.mount) => timers = 1
(* What a first load paints in the panel is of the person shown (loadPerson).  *)
PanelIsOfThePerson == kind = "panel" /\ data.v # 0 /\ ~data.refresh => data.subject = subject
(* A stamp that moved was acted on: what it stands for has been asked for, or  *)
(* will be by a load under way, whatever else is under way (tick, onStale).    *)
(* Up to the mounting tick's answer, which never triggers, a change is missed. *)
NoticedIsAsked == Open /\ known # first => asked >= known \/ \E l \in loads : l.v = 0
(* A page that waits for its first answer has one coming (setLoading, setError,*)
(* and a person chosen while another's load is under way).                     *)
SpinnerIsForALoad == spinning => \E l \in loads : ~l.refresh
(* A view refetches when a stamp moved (CHANGELOG.md:257): when nothing        *)
(* changes any more, its loads come to an end.                                 *)
RefetchesOnChange == <>[](loads = {})
=============================================================================
