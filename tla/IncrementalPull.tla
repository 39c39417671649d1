--------------------------- MODULE IncrementalPull ---------------------------
(* The three connectors that resume from a stored cursor                      *)
(* (src/src/connectors/posthog.ts, mixpanel.ts, amplitude.ts): they page      *)
(* through persons, then events, save the cursor after every page, and stop   *)
(* anywhere when upstream answers an error, a statement fails or the process  *)
(* dies. Runs of one source never overlap (SourceSync), so there is one run.  *)
EXTENDS Naturals, FiniteSets

CONSTANTS
  Events,       \* what upstream will ever hold
  TimeOf,       \* an event's timestamp, which events may share; 0 stands for none
  MaxTime,
  Styles,       \* how a page of events is asked for and continued:
                \*   "link"  newest first, upstream's own next URL (PostHog)
                \*   "above" oldest first, strictly later than a time (Mixpanel)
                \*   "from"  oldest first, from a time on (Amplitude)
  PageSize,     \* the connectors' export limits
  PersonPages,  \* how many pages of persons upstream has
  MaxPages,     \* MAX_PAGES
  MaxStops      \* bound: runs that fail or are killed

ASSUME PullAssumption ==
  /\ MaxTime \in Nat /\ TimeOf \in [Events -> 1..MaxTime]
  /\ Styles \subseteq {"link", "above", "from"}
  /\ PageSize \in Nat \ {0} /\ PersonPages \in Nat \ {0}
  /\ MaxPages \in Nat \ {0} /\ MaxStops \in Nat

VARIABLES
  style,   \* the connector this source uses, one of Styles
  remote,  \* events upstream has so far
  stored,  \* activity rows, unique on (workspace, externalId)
  people,  \* pages of persons imported
  slot,    \* the stored cursor
  run,     \* the pull in progress
  health,  \* what the last pull answered
  stops,
  capped,  \* history: a pull left a loop at MAX_PAGES
  had,     \* history: the events upstream had when the pull began
  began,   \* history: and what it asked for first
  seams    \* history: the latest times pages ended at

pullHistory == <<had, began, seams>>
vars == <<style, remote, stored, people, slot, run, health, stops, capped, pullHistory>>

(* A SourceCursor. person is the page of persons, after and rest the page     *)
(* token of the events (a time, or what upstream's link still lists); absent  *)
(* times are 0. A missing or malformed cursor parses to Beginning.            *)
Cursor == [phase : {"persons", "events", "caught_up"}, person : 0..(PersonPages - 1),
           paged : BOOLEAN, after : 0..MaxTime, rest : SUBSET Events,
           since : 0..MaxTime]
Beginning == [phase |-> "persons", person |-> 0, paged |-> FALSE, after |-> 0,
              rest |-> {}, since |-> 0]
CaughtUp(t) == [Beginning EXCEPT !.phase = "caught_up", !.since = t]

Run == [pc : {"idle", "persons", "savePersons", "leavePersons", "fetch", "insert",
              "savePage", "saveDone"},
        cur : Cursor, batch : SUBSET Events, more : BOOLEAN, pages : Nat]
IdleRun == [pc |-> "idle", cur |-> Beginning, batch |-> {}, more |-> FALSE, pages |-> 0]

Init ==
  /\ style \in Styles /\ remote = {} /\ stored = {} /\ people = {} /\ slot = Beginning
  /\ run = IdleRun /\ health = "none" /\ stops = 0
  /\ capped = FALSE /\ had = {} /\ began = "beginning" /\ seams = {}

(* Upstream receives events in the order of their timestamps.                 *)
Arrive ==
  /\ \E e \in Events \ remote :
       /\ \A f \in remote : TimeOf[f] <= TimeOf[e]
       /\ remote' = remote \cup {e}
  /\ UNCHANGED <<style, stored, people, slot, run, health, stops, capped, pullHistory>>

(* A run starts from the stored cursor, a nightly one from the beginning.     *)
AskedFirst(cur) == IF cur.paged THEN "page"
                   ELSE IF cur.phase = "caught_up" THEN "watermark" ELSE "beginning"
Begin(full) ==
  /\ run.pc = "idle"
  /\ LET cur == IF full THEN Beginning ELSE slot
     IN /\ run' = [IdleRun EXCEPT !.cur = cur,
                     !.pc = IF cur.phase = "persons" THEN "persons" ELSE "fetch"]
        /\ began' = AskedFirst(cur)
  /\ had' = remote
  /\ UNCHANGED <<style, remote, stored, people, slot, health, stops, capped, seams>>

-----------------------------------------------------------------------------
(* Persons: one page imported, its successor saved, then the events phase.    *)
ImportPersons ==
  /\ run.pc = "persons" /\ people' = people \cup {run.cur.person}
  /\ run' = [run EXCEPT !.pc = IF run.cur.person + 1 < PersonPages
                                 THEN "savePersons" ELSE "leavePersons"]
  /\ UNCHANGED <<style, remote, stored, slot, health, stops, capped, pullHistory>>

NextPage(here) ==
  /\ run' = [run EXCEPT !.pages = @ + 1, !.cur = slot',
               !.pc = IF run.pages + 1 < MaxPages THEN here.again ELSE here.past]
  /\ capped' = (capped \/ run.pages + 1 >= MaxPages)

SavePersons ==
  /\ run.pc = "savePersons"
  /\ slot' = [run.cur EXCEPT !.person = @ + 1]
  /\ NextPage([again |-> "persons", past |-> "leavePersons"])
  /\ UNCHANGED <<style, remote, stored, people, health, stops, pullHistory>>

BugLeavesEarly ==
  /\ run.pc \in {"savePersons", "leavePersons"}
  /\ slot' = [Beginning EXCEPT !.phase = "events", !.since = run.cur.since]
  /\ run' = [run EXCEPT !.pc = "fetch", !.cur = slot', !.pages = 0]
  /\ UNCHANGED <<style, remote, stored, people, health, stops, capped, pullHistory>>
LeavePersons ==
  /\ run.pc = "leavePersons"
  /\ slot' = [Beginning EXCEPT !.phase = "events", !.since = run.cur.since]
  /\ run' = [run EXCEPT !.pc = "fetch", !.cur = slot', !.pages = 0]
  /\ UNCHANGED <<style, remote, stored, people, health, stops, capped, pullHistory>>

(* Events: the page that answers the query of the cursor's position.          *)
Bound(cur) == IF cur.paged THEN cur.after
              ELSE IF cur.phase = "caught_up" THEN cur.since ELSE 0

Answer(cur) ==
  CASE style = "link"  -> IF cur.paged THEN cur.rest
                                       ELSE {e \in remote : TimeOf[e] > cur.since}
    [] style = "above" -> {e \in remote : TimeOf[e] > Bound(cur)}
    [] style = "from"  -> {e \in remote : TimeOf[e] >= Bound(cur)}

Pages(answer) ==
  {p \in SUBSET answer :
     /\ Cardinality(p) <= PageSize
     /\ p = answer \/ Cardinality(p) = PageSize
     /\ \A e \in p, f \in answer \ p : IF style = "link" THEN TimeOf[e] >= TimeOf[f]
                                                         ELSE TimeOf[e] <= TimeOf[f]}

(* laterIso over a page: the latest of a time and the page's timestamps.      *)
IsLatest(t, base, page) ==
  /\ t = base \/ \E e \in page : TimeOf[e] = t
  /\ t >= base /\ \A e \in page : TimeOf[e] <= t

BugMoreThanFull(answer, page) == Cardinality(page) > PageSize
More(answer, page) ==
  IF style = "link" THEN page # answer /\ page # {} ELSE Cardinality(page) >= PageSize

FetchEvents ==
  /\ run.pc = "fetch"
  /\ LET cur == run.cur
         answer == Answer(cur)
     IN \E page \in Pages(answer), since, after \in 0..MaxTime :
          /\ IsLatest(since, cur.since, page)
          /\ IsLatest(after, Bound(cur), page)
          /\ run' = [run EXCEPT !.pc = "insert", !.batch = page,
                       !.more = More(answer, page),
                       !.cur = [phase |-> "events", person |-> 0, paged |-> TRUE,
                                after |-> after, since |-> since,
                                rest |-> IF style = "link" THEN answer \ page ELSE {}]]
          /\ seams' = seams \cup {since, after}
  /\ UNCHANGED <<style, remote, stored, people, slot, health, stops, capped, had, began>>

InsertEvents ==
  /\ run.pc = "insert" /\ stored' = stored \cup run.batch
  /\ run' = [run EXCEPT !.pc = IF run.more THEN "savePage" ELSE "saveDone", !.batch = {}]
  /\ UNCHANGED <<style, remote, people, slot, health, stops, capped, pullHistory>>

BugSaveBeforeInsert ==
  /\ run.pc \in {"insert", "savePage"}
  /\ IF run.pc = "insert" /\ run.more
       THEN slot' = run.cur /\ UNCHANGED <<run, capped>>
       ELSE run.pc = "savePage" /\ slot' = run.cur
            /\ NextPage([again |-> "fetch", past |-> "saveDone"])
  /\ UNCHANGED <<style, remote, stored, people, health, stops, pullHistory>>
SavePage ==
  /\ run.pc = "savePage" /\ slot' = run.cur
  /\ NextPage([again |-> "fetch", past |-> "saveDone"])
  /\ UNCHANGED <<style, remote, stored, people, health, stops, pullHistory>>

(* The watermark: with no event seen it is the current time, before anything  *)
(* that will arrive, as is 0. runSource saves the returned cursor once more.  *)
SaveDone ==
  /\ run.pc = "saveDone" /\ slot' = CaughtUp(run.cur.since)
  /\ run' = IdleRun /\ health' = "ok"
  /\ UNCHANGED <<style, remote, stored, people, stops, capped, pullHistory>>

(* An error answer, a throw, or the process dying, at any await; the batches  *)
(* of one insert are separate statements.                                     *)
BugStopSaves ==
  /\ run.pc # "idle" /\ stops < MaxStops /\ stops' = stops + 1
  /\ slot' = CaughtUp(run.cur.since) /\ run' = IdleRun /\ health' = "error"
  /\ UNCHANGED <<style, remote, stored, people, capped, pullHistory>>
Stop ==
  /\ run.pc # "idle" /\ stops < MaxStops /\ stops' = stops + 1
  /\ \E landed \in SUBSET run.batch :
       stored' = IF run.pc = "insert" THEN stored \cup landed ELSE stored
  /\ run' = IdleRun /\ health' = "error"
  /\ UNCHANGED <<style, remote, people, slot, capped, pullHistory>>

Pull == \/ ImportPersons \/ SavePersons \/ LeavePersons
        \/ FetchEvents \/ InsertEvents \/ SavePage \/ SaveDone

Next == Arrive \/ Begin(FALSE) \/ Begin(TRUE) \/ Pull \/ Stop

Spec == Init /\ [][Next]_vars

(* The scheduler starts a pull whenever none runs, and awaits return.         *)
FairSpec == Spec /\ WF_vars(Begin(FALSE)) /\ WF_vars(Pull)

-----------------------------------------------------------------------------
TypeOK ==
  /\ style \in Styles /\ remote \subseteq Events /\ stored \subseteq Events
  /\ people \subseteq 0..(PersonPages - 1)
  /\ slot \in Cursor /\ run \in Run /\ health \in {"none", "ok", "error"}
  /\ stops \in 0..MaxStops /\ capped \in BOOLEAN
  /\ had \subseteq Events /\ began \in {"beginning", "page", "watermark"}
  /\ seams \subseteq 0..MaxTime

(* Where a connector asks for what is strictly later (PostHog, Mixpanel), an  *)
(* event at the very time a page ended, beside one that is stored, may never  *)
(* be asked for (mixpanel.ts:73,242). Amplitude asks from that time on.       *)
SplitIn(e, rows) ==
  style # "from" /\ TimeOf[e] \in seams /\ \E f \in rows : TimeOf[f] = TimeOf[e]
Split(e) == SplitIn(e, stored)
Whole(rows) == \A e \in had : e \in rows \/ SplitIn(e, rows)

(* A caught-up cursor is true: what upstream has is stored or still to come,  *)
(* whatever errors, kills, resumed pages and nightly pulls came before        *)
(* (cursor.ts:5-7), as long as no pull ran out of pages.                      *)
ToCome(e) == IF style = "from" THEN TimeOf[e] >= slot.since ELSE TimeOf[e] > slot.since
NoGap ==
  slot.phase = "caught_up" /\ ~capped =>
    \A e \in remote : e \in stored \/ ToCome(e) \/ Split(e)

(* A pull that answers ok has paginated to completion (CHANGELOG.md:247):     *)
(* every event upstream had when it began is stored, but for one split from   *)
(* those of its time. Of PostHog this holds only of pulls that do not follow  *)
(* a link saved by an earlier one.                                            *)
Fresh == ~capped /\ (style = "link" => began # "page")
PullIsComplete ==
  [][run.pc = "saveDone" /\ run'.pc = "idle" /\ health' = "ok" /\ Fresh => Whole(stored)]_vars

(* The events phase is reached only with every page of persons imported.      *)
PersonsFirst ==
  slot.phase # "persons" /\ ~capped => \A p \in 0..(PersonPages - 1) : p \in people

(* Once upstream is quiet and pulls stop failing, everything it holds is      *)
(* stored, but for such an event, and for Amplitude's when the events of one  *)
(* time fill a page: asked for again from that time on, it comes again.       *)
Stuck == style = "from" /\ Cardinality({f \in remote : TimeOf[f] = slot.since}) >= PageSize
EventuallyComplete == \A e \in Events : e \in remote ~> e \in stored \/ Split(e) \/ Stuck

-----------------------------------------------------------------------------
(* The invariant behind NoGap: what each position of the cursor stands for.   *)
(* rows are the stored events, or those and the page about to be stored.      *)
Passed(e, t) == IF style = "from" THEN TimeOf[e] < t ELSE TimeOf[e] <= t
Covered(t, rows) == ~capped => \A e \in remote : Passed(e, t) => e \in rows \/ SplitIn(e, rows)
Known(t) == t = 0 \/ (t \in seams /\ \E e \in remote : TimeOf[e] = t)

Position(cur, rows) ==
  /\ Known(cur.since) /\ Known(cur.after) /\ cur.rest \subseteq remote
  /\ cur.phase = "caught_up" => ~cur.paged /\ Covered(cur.since, rows)
  /\ cur.phase = "persons" => ~cur.paged
  /\ cur.phase # "caught_up" /\ ~cur.paged => cur.since = 0
  /\ cur.paged => IF style = "link"
                    THEN /\ Covered(cur.since, rows \cup cur.rest)
                         /\ \A e \in cur.rest : TimeOf[e] <= cur.since
                    ELSE Covered(cur.after, rows)

InPersons == {"persons", "savePersons", "leavePersons"}
RunPosition ==
  /\ run.pc \in InPersons \cup {"fetch", "savePage"} => Position(run.cur, stored)
  /\ run.pc \in InPersons => run.cur.phase = "persons"
  /\ run.pc = "savePersons" => run.cur.person + 1 < PersonPages
  /\ run.pc = "insert" =>
       IF run.more THEN Position(run.cur, stored \cup run.batch)
       ELSE Known(run.cur.since) /\ Covered(run.cur.since, stored \cup run.batch)
  /\ run.pc = "saveDone" => Known(run.cur.since) /\ Covered(run.cur.since, stored)
  /\ run.batch \subseteq remote

IInv == TypeOK /\ Position(slot, stored) /\ RunPosition

(* Behind PersonsFirst: the persons' pages a cursor has left behind are        *)
(* imported, and a pull leaves them with the last one imported.                *)
Imported(cur) ==
  ~capped => \A p \in 0..(PersonPages - 1) : cur.phase # "persons" \/ p < cur.person => p \in people
RunImported ==
  /\ run.pc \in {"persons", "savePersons"} => Imported(run.cur) /\ run.cur.phase = "persons"
  /\ run.pc = "savePersons" => run.cur.person \in people /\ run.cur.person + 1 < PersonPages
  /\ run.pc = "leavePersons" /\ ~capped =>
       /\ Imported(run.cur) /\ run.cur.person \in people
       /\ run.cur.person + 1 >= PersonPages
  /\ run.pc \in {"fetch", "insert", "savePage", "saveDone"} =>
       run.cur.phase # "persons" /\ Imported(run.cur)

(* Behind PullIsComplete: what is stored, on the page and behind PostHog's    *)
(* link is all that upstream had, and the page that ends a pull is the rest.  *)
Complete ==
  /\ run.pc # "idle" => had \subseteq remote
  /\ Fresh /\ style = "link" =>
       /\ run.pc \in {"fetch", "savePage"} /\ run.cur.paged => Whole(stored \cup run.cur.rest)
       /\ run.pc = "insert" => Whole(stored \cup run.batch \cup run.cur.rest)
  /\ Fresh =>
       /\ run.pc = "insert" /\ ~run.more => Whole(stored \cup run.batch)
       /\ run.pc = "saveDone" => Whole(stored)

PersonsInv == TypeOK /\ Imported(slot) /\ RunImported
=============================================================================
