------------------------------ MODULE ViewUrl ------------------------------
(* The URL of a dashboard view and the state it stands for (DotPlot, Cohorts,  *)
(* WBR, Calendar; app/dashboard): a state is encoded into the keys that are    *)
(* not at their default, an effect merges them into the URL of the last        *)
(* render, and a replace of the URL is committed later, or overtaken by the    *)
(* next one.  Opened again, the URL is decoded.  A value is abstracted to its  *)
(* key being set, but for the cohorts' compared series.                        *)
EXTENDS Naturals, Sequences, SequencesExt

CONSTANTS
  Varied,        \* the keys that are changed, of those a view has
  SeriesKeys,    \* groups of a split, largest first
  MaxMoves       \* bound: clicks

VARIABLES
  view, state, url, pending,
  rendered,      \* the effect has to run: the state or the URL changed
  asked,         \* cohorts: splits whose answers are under way
  people,        \* cohorts: the people are loaded
  overtaken,     \* history: a person was opened over a replace under way
  moves
urlVars == <<view, state, url, pending, rendered, asked, people, overtaken, moves>>

-----------------------------------------------------------------------------
(* The keys each view encodes, deletes at their default, and decodes.          *)
CellKeys == {"cs", "ce", "csc", "cc", "cl", "cem", "cm", "cn", "ct", "cta", "cg", "cln", "crh", "ccl", "cp"}
ViewKeys == {"z", "g", "v", "w", "win", "wl", "c"}
dotplotEncoded == ViewKeys \cup CellKeys \cup {"f"}
dotplotDecoded == ViewKeys \cup CellKeys
dotplotDeleted == ViewKeys \cup {"cs", "ce", "csc", "cc", "cl", "cem", "cey", "cew", "cel"}
cohortsEncoded == {"g", "c", "cel", "a", "p"}
wbrEncoded == {"m", "i"}
calendarEncoded == {"v", "o", "x", "f"}
encodedBy == [dotplot |-> dotplotEncoded, cohorts |-> cohortsEncoded, wbr |-> wbrEncoded, calendar |-> calendarEncoded]
decodedBy == [encodedBy EXCEPT !.dotplot = dotplotDecoded]
deletedBy == [encodedBy EXCEPT !.dotplot = dotplotDeleted]
(* DotPlot and WBR leave the URL alone when everything is at its default.      *)
LeavesDefaults == {"dotplot", "wbr"}

COHORT_COMPARE_MAX_SERIES == 3
Fresh == [keys |-> {}, split |-> "none", series |-> <<>>]
Blank == [keys |-> {}, split |-> "none", series |-> <<>>, user |-> FALSE]
capCohortSeries(s) == SubSeq(s, 1, IF Len(s) < COHORT_COMPARE_MAX_SERIES THEN Len(s) ELSE COHORT_COMPARE_MAX_SERIES)
encodeViewState(s) == [keys |-> s.keys, split |-> s.split,
                       series |-> IF s.split = "none" THEN <<>> ELSE capCohortSeries(s.series)]
decodeViewState(u) == [keys |-> u.keys \cap decodedBy[view], split |-> u.split,
                       series |-> IF u.split = "none" THEN <<>> ELSE capCohortSeries(u.series)]
(* What the effect makes of the URL it was rendered with.                      *)
mergeIntoUrl(u, s) ==
  LET e == encodeViewState(s)
  IN IF e = Fresh /\ view \in LeavesDefaults THEN u
     ELSE [u EXCEPT !.keys = (u.keys \ deletedBy[view]) \cup e.keys, !.split = e.split, !.series = e.series]

Init ==
  /\ view \in {"dotplot", "cohorts", "wbr", "calendar"}
  /\ url = Blank /\ pending = Blank /\ state = Fresh /\ rendered = FALSE
  /\ asked = (IF view = "cohorts" THEN {"none"} ELSE {}) /\ people = FALSE
  /\ overtaken = FALSE /\ moves = 0

-----------------------------------------------------------------------------
Move == moves < MaxMoves /\ moves' = moves + 1
(* A click: what it shows next is rendered before the next click.              *)
Set(s) ==
  /\ Move /\ ~rendered /\ state' = s /\ rendered' = TRUE
  /\ asked' = IF view = "cohorts" /\ [s EXCEPT !.keys = {}] # [state EXCEPT !.keys = {}]
              THEN asked \cup {s.split} ELSE asked
  /\ UNCHANGED <<view, overtaken, url, pending, people>>
Toggle(k) ==
  /\ k \in Varied \cap encodedBy[view]
  /\ Set([state EXCEPT !.keys = IF k \in @ THEN @ \ {k} ELSE @ \cup {k}])
Top == capCohortSeries(SeriesKeys)
setSplit(split) ==
  /\ view = "cohorts"
  /\ Set(IF split = state.split THEN [state EXCEPT !.split = "none", !.series = <<>>]
         ELSE [state EXCEPT !.split = split, !.series = IF people THEN Top ELSE <<>>])
(* filter: the elements of s that are in S, in their order.                    *)
Only(s, S) ==
  LET kept[i \in 0..Len(s)] ==
        IF i = 0 THEN <<>> ELSE IF s[i] \in S THEN Append(kept[i - 1], s[i]) ELSE kept[i - 1]
  IN kept[Len(s)]
toggleSeries(key) ==
  /\ view = "cohorts" /\ state.split # "none"
  /\ IF key \in Range(state.series)
     THEN LET next == Only(state.series, Range(state.series) \ {key})
          IN Set([state EXCEPT !.series = next, !.split = IF next = <<>> THEN "none" ELSE @])
     ELSE /\ Len(state.series) < COHORT_COMPARE_MAX_SERIES
          /\ Set([state EXCEPT !.series = Append(@, key)])
(* An answer for a split fills in its series if nothing is chosen by then.     *)
loadCohorts(split) ==
  /\ split \in asked /\ asked' = asked \ {split} /\ people' = TRUE
  /\ state' = IF split # "none" /\ state.split = split /\ state.series = <<>>
              THEN [state EXCEPT !.series = Top] ELSE state
  /\ rendered' = (rendered \/ state' # state)
  /\ UNCHANGED <<view, overtaken, url, pending, moves>>
Replace(u) ==
  /\ Move /\ view = "dotplot" /\ ~rendered
  /\ pending' = u /\ overtaken' = (overtaken \/ pending # url)
  /\ UNCHANGED <<view, state, url, rendered, asked, people>>
openPerson == Replace([url EXCEPT !.user = TRUE])
closePerson == url.user /\ Replace([url EXCEPT !.user = FALSE])

syncUrl ==
  /\ rendered /\ rendered' = FALSE
  /\ pending' = IF mergeIntoUrl(url, state) # url THEN mergeIntoUrl(url, state) ELSE pending
  /\ UNCHANGED <<view, overtaken, state, url, asked, people, moves>>
(* router.replace takes effect: the new search params render the view again.   *)
Commit ==
  /\ pending # url /\ url' = pending /\ rendered' = TRUE
  /\ UNCHANGED <<view, overtaken, state, pending, asked, people, moves>>
(* The URL is opened anew, or by somebody else.                                *)
Open ==
  /\ Move /\ state' = decodeViewState(url) /\ pending' = url /\ rendered' = FALSE
  /\ asked' = (IF view = "cohorts" THEN {state'.split} ELSE {}) /\ people' = FALSE
  /\ UNCHANGED <<view, overtaken, url>>

Splits == {"platform", "country"}
Next ==
  \/ \E k \in Varied : Toggle(k)
  \/ \E s \in Splits : setSplit(s)
  \/ \E k \in Range(SeriesKeys) : toggleSeries(k)
  \/ \E s \in Splits \cup {"none"} : loadCohorts(s)
  \/ openPerson \/ closePerson \/ syncUrl \/ Commit \/ Open

-----------------------------------------------------------------------------
Settled == ~rendered /\ pending = url
(* Once the URL has settled, whoever opens it sees the same view, series and   *)
(* all: always for Cohorts and Calendar; for WBR but at its defaults; and for  *)
(* DotPlot in the keys it deletes, unless a person was opened meanwhile.       *)
UrlOpensTheView ==
  Settled =>
    LET opened == decodeViewState(url) IN
    /\ view \notin LeavesDefaults => opened = state
    /\ view = "wbr" /\ state # Fresh => opened = state
    /\ view = "dotplot" /\ state # Fresh /\ ~overtaken =>
         opened.keys \cap dotplotDeleted = state.keys \cap dotplotDeleted
(* No more than three series are compared, none twice, and a view without a    *)
(* split compares none (setSplit, toggleSeries, loadCohorts).                  *)
SeriesFit ==
  /\ Len(state.series) <= COHORT_COMPARE_MAX_SERIES /\ IsInjective(state.series)
  /\ state.split = "none" => state.series = <<>>
=============================================================================
