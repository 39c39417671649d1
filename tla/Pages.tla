-------------------------------- MODULE Pages --------------------------------
(* The pages of a browser that show a workspace.  Here: the gate before the    *)
(* live workspaces (components/WorkspaceSession.tsx).  It asks whether the     *)
(* cookie opens the workspace of the URL, unlocks it with a key, logs out;     *)
(* answers come when they come.  The cookie expiring in its twelve hours is    *)
(* left out.  Behind the gate, each module by itself: the outreach queue       *)
(* (PmfPage), the Day module (DayTracker), the URL of a view (ViewUrl), a page *)
(* that follows the server (LivePage), the connect page with its forms and its *)
(* health panel (Settings).                                                    *)
EXTENDS Naturals, Sequences, FiniteSets, Functions

CONSTANTS       \* of the gate
  Lives,        \* live workspaces; "demo" is open to all
  Opens,        \* key the founder types -> the workspaces it opens
  Admin,        \* the keys among them that open any
  MaxVisits     \* bound: switches, unlocks and logouts
CONSTANTS       \* of the modules behind it, whose text says what they are
  People, MaxDrafts, MaxTexts, MaxMarks, DraftCalls,
  Tabs, DemoCast, Rankings, Homes, MilestoneKeys, MaxChanges, MaxPicks, MaxReloads, Loads,
  Varied, SeriesKeys, MaxClicks,
  Kinds, Watched, MaxVersion, MaxTurns, MaxFails, MaxTicks,
  ProfileSpaces, Locked, FirstStored, Drafts, Forms, MaxActs, MaxRefused,
  Sources, Errors, PanelKeys, MaxLoads, MaxPresses

ASSUME GateAssumption == "none" \notin Lives
(* No city is listed twice, and none is called like the list never chosen.     *)
ASSUME DayAssumption ==
  \A c \in Rankings \cup {DemoCast} : c \in Seq(Range(c)) /\ IsInjective(c) /\ "unset" \notin Range(c)
ASSUME UrlAssumption == SeriesKeys \in Seq(Range(SeriesKeys)) /\ IsInjective(SeriesKeys)
ASSUME ProfileAssumption ==
  /\ ProfileSpaces \ Locked # {} /\ FirstStored = [s \in ProfileSpaces |-> FirstStored[s]]
  /\ \A p \in Drafts \cup {FirstStored[s] : s \in ProfileSpaces} :
       p = [name |-> p.name, founded |-> p.founded, city |-> p.city]
ASSUME PanelAssumption ==
  UNION {Sources[w] : w \in DOMAIN Sources} # {} /\ \A w \in DOMAIN Sources : "refused" \notin Sources[w]
ASSUME LiveAssumption == "none" \notin Watched /\ MaxVersion \in Nat \ {0}

VARIABLES
  ticket,   \* the cookie: workspaces unlocked, and "any" for one that may choose
  viewed,   \* the URL's workspace
  gate,     \* loading, in, out
  listed,   \* the workspaces of the switcher
  get,      \* the session request of the present workspace
  unlock,   \* the unlock under way: the form has one
  leaving,  \* logouts under way, by the workspace they were clicked in
  visits,
  crossed   \* history: an answer came under another workspace, about an older cookie, or not at all
VARIABLES
  outreach, shown, calls, typed, made,                                                        \* PmfPage
  overview, prefs, local, tab, loading, patches, fired, picked, blind, changes, picks, reloads, \* DayTracker
  view, state, url, pending, rendered, splits, peopleIn, overtaken, clicks,                   \* ViewUrl
  kind, version, hidden, moves, fails, subject, loads, data, spinning, known, first, timers, ticks, newest, \* LivePage
  spaces, space, key, form, gets, save, status, stage, setup, prompt, reading, file, csvKind, columns,
  import, imported, last, overlapped, acts, failed,                                           \* Settings
  backend, panelForm, asking, busyLoad, health, requests, busy, presses, whole                \* its panel
gateVars == <<ticket, viewed, gate, listed, get, unlock, leaving, visits, crossed>>
draftVars == <<outreach, shown, calls, typed, made>>
dayVars == <<overview, prefs, local, tab, loading, patches, fired, picked, blind, changes, picks, reloads>>
urlVars == <<view, state, url, pending, rendered, splits, peopleIn, overtaken, clicks>>
liveVars == <<kind, version, hidden, moves, fails, subject, loads, data, spinning, known, first, timers, ticks, newest>>
settingsVars == <<spaces, space, key, form, gets, save, status, stage, setup, prompt, reading, file, csvKind, columns,
                  import, imported, last, overlapped, acts, failed>>
panelVars == <<backend, panelForm, asking, busyLoad, health, requests, busy, presses, whole>>
behindVars == <<draftVars, dayVars, urlVars, liveVars, settingsVars, panelVars>>
pagesVars == <<gateVars, behindVars>>

-----------------------------------------------------------------------------
(* The gate.                                                                   *)
None == [ws |-> "none", sent |-> {}, key |-> "none"]
Authorized(cookie, w) == w = "demo" \/ w \in cookie \/ "any" \in cookie
(* A mount or another workspace: its answer is the only one still listened to. *)
AskSession(w) ==
  IF w = "demo" THEN gate' = "in" /\ get' = None
  ELSE gate' = "loading" /\ get' = [None EXCEPT !.ws = w, !.sent = ticket]
GateInit ==
  /\ ticket = {} /\ viewed = "demo" /\ gate = "in" /\ listed = {"demo"}
  /\ get = None /\ unlock = None /\ leaving = {} /\ visits = 0 /\ crossed = FALSE

Visit == visits < MaxVisits /\ visits' = visits + 1
Switch(w) ==
  /\ Visit /\ w # viewed /\ viewed' = w /\ AskSession(w)
  /\ UNCHANGED <<ticket, listed, unlock, leaving, crossed>>
GetAnswers ==
  /\ get # None /\ get' = None
  /\ \/ /\ listed' = get.sent \ {"any"} /\ gate' = (IF Authorized(get.sent, get.ws) THEN "in" ELSE "out")
        /\ crossed' = (crossed /\ get.sent # ticket)
     \/ gate' = "out" /\ crossed' = TRUE /\ UNCHANGED listed
  /\ UNCHANGED <<ticket, viewed, unlock, leaving, visits>>

(* The form is there when the gate is out; it stays mounted, and busy, behind  *)
(* another workspace.                                                          *)
onSubmit(k) ==
  /\ Visit /\ viewed # "demo" /\ gate = "out" /\ unlock = None
  /\ unlock' = [ws |-> viewed, sent |-> ticket, key |-> k]
  /\ UNCHANGED <<ticket, viewed, gate, listed, get, leaving, crossed>>
enter ==
  /\ ticket' = unlock.sent \cup {unlock.ws} \cup (IF unlock.key \in Admin THEN {"any"} ELSE {})
  /\ gate' = "in" /\ listed' = listed \cup {unlock.ws}
  /\ crossed' = (crossed \/ viewed # unlock.ws \/ get # None)
PostAnswers ==
  /\ unlock # None /\ unlock' = None
  /\ \/ unlock.ws \in Opens[unlock.key] /\ enter
     \/ UNCHANGED <<ticket, gate, listed, crossed>>
  /\ UNCHANGED <<viewed, get, leaving, visits>>
logout ==
  /\ Visit /\ viewed # "demo" /\ gate = "in" /\ leaving' = leaving \cup {viewed}
  /\ UNCHANGED <<ticket, viewed, gate, listed, get, unlock, crossed>>
LogoutAnswers ==
  /\ \E w \in leaving : leaving' = leaving \ {w}
  /\ \/ /\ ticket' = {} /\ listed' = {} /\ gate' = "out"
        /\ crossed' = (crossed \/ get # None \/ unlock # None)
     \/ UNCHANGED <<ticket, listed, gate, crossed>>
  /\ UNCHANGED <<viewed, get, unlock, visits>>
GateNext ==
  \/ \E w \in Lives \cup {"demo"} : Switch(w)
  \/ GetAnswers \/ PostAnswers \/ logout \/ LogoutAnswers
  \/ \E k \in DOMAIN Opens : onSubmit(k)

-----------------------------------------------------------------------------
(* What is behind the gate.                                                    *)
Pmf == INSTANCE PmfPage
  WITH MaxEdits <- MaxTexts, MaxCalls <- MaxMarks, Calls <- DraftCalls, rows <- outreach
Day == INSTANCE DayTracker WITH config <- prefs
Url == INSTANCE ViewUrl WITH MaxMoves <- MaxClicks, asked <- splits, people <- peopleIn, moves <- clicks
Live == INSTANCE LivePage WITH Subjects <- Watched, MaxMoves <- MaxTurns, asked <- newest
Set == INSTANCE Settings
  WITH Spaces <- ProfileSpaces, Files <- Forms, MaxMoves <- MaxActs, MaxFaults <- MaxRefused, Keys <- PanelKeys,
       stored <- spaces, kind <- csvKind, moves <- acts, field <- space, step <- stage, mapping <- columns, text <- file,
       faults <- failed, server <- backend, loads <- asking, loading <- busyLoad, calls <- requests

PagesInit ==
  GateInit /\ Pmf!Init /\ Day!Init /\ Url!Init /\ Live!Init /\ Set!Init /\ Set!PanelInit
GateStep == GateNext /\ UNCHANGED behindVars
DraftStep == Pmf!Next /\ UNCHANGED <<gateVars, dayVars, urlVars, liveVars, settingsVars, panelVars>>
DayStep == Day!Next /\ UNCHANGED <<gateVars, draftVars, urlVars, liveVars, settingsVars, panelVars>>
UrlStep == Url!Next /\ UNCHANGED <<gateVars, draftVars, dayVars, liveVars, settingsVars, panelVars>>
LiveStep == Live!Next /\ UNCHANGED <<gateVars, draftVars, dayVars, urlVars, settingsVars, panelVars>>
ProfileStep == Set!ProfileNext /\ UNCHANGED <<gateVars, draftVars, dayVars, urlVars, liveVars, panelVars>>
FormStep == Set!CsvNext /\ UNCHANGED <<gateVars, draftVars, dayVars, urlVars, liveVars, panelVars>>
PanelStep == Set!PanelNext /\ UNCHANGED <<gateVars, draftVars, dayVars, urlVars, liveVars, settingsVars>>
PagesNext ==
  \/ GateStep \/ DraftStep \/ DayStep \/ UrlStep \/ LiveStep
  \/ ProfileStep \/ FormStep \/ PanelStep
PagesSpec == PagesInit /\ [][PagesNext]_pagesVars

-----------------------------------------------------------------------------
(* When its request is answered, a gate that no late answer has crossed is in  *)
(* exactly where the cookie opens the workspace, and the switcher lists no     *)
(* other as unlocked.                                                          *)
GateIsTrue ==
  get = None /\ ~crossed =>
    /\ viewed # "demo" => (gate = "in" <=> Authorized(ticket, viewed))
    /\ listed \subseteq ticket \cup {"demo"}

(* The outreach queue is not ahead of its rows, a settled URL opens the view   *)
(* it was made for, a page has one interval, no stranger's panel and no        *)
(* spinner without a load, and a milestone is celebrated once (PMF.tsx,        *)
(* mergeIntoUrl, freshness-poll.ts, shouldFireCelebration); the gate is in     *)
(* where the cookie opens the workspace (WorkspaceSession.tsx).                *)
PagesHold ==
  /\ GateIsTrue
  /\ Pmf!PageIsNotAhead
  /\ Url!UrlOpensTheView /\ Url!SeriesFit
  /\ Live!OneInterval /\ Live!PanelIsOfThePerson /\ Live!NoticedIsAsked /\ Live!SpinnerIsForALoad
  /\ Day!CelebratedOnce
(* The cities the Day module shows are whole (resolveShownKeys).               *)
DayHolds == Day!ShownIsWhole
(* A save that is answered is stored whole, an import has its own mapping, and *)
(* the panel shows what it read of the server while nothing overtook it        *)
(* (saveCompanyProfile, applyCsv, ConnectorHealthPanel).                       *)
SettingsHold == Set!SavedIsStored /\ Set!ImportFits /\ Set!ShownIsTheServers
=============================================================================
