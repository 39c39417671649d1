------------------------------ MODULE Settings ------------------------------
(* The connect page, the first-run setup and the connector health panel.        *)
EXTENDS Naturals, FiniteSets, Sequences, SequencesExt

(* The connect page (app/connect/page.tsx), the first-run setup                *)
(* (SetupFlow.tsx, core/setup-flow.ts, SetupPrompt.tsx), and what they save:   *)
(* the company profile (PATCH /api/v1/config, core/company-profile.ts), written*)
(* field by field, and a CSV file with its mapping.  The settings form takes   *)
(* whatever config answer comes in last; the setup form takes none and starts  *)
(* at the defaults.                                                            *)
CONSTANTS
  Spaces,
  Locked,        \* spaces whose config is refused without the admin key
  FirstStored,   \* by space: its profile to begin with
  Drafts,        \* profiles the founder types
  Files,         \* CSV files: what kind each is detected as, or "broken"
  MaxMoves,      \* bound: what the founder does
  MaxFaults      \* bound: statements that fail

VARIABLES
  stored,        \* by space: the profile's rows in config
  field, key,    \* the workspace field; the admin key is filled in
  form,          \* by page: the profile form
  gets,          \* config requests: [space, key, answer]
  save,          \* by page: its save, from click to answer
  status,        \* by page: what it says of its last save
  step, setup,   \* the setup's step; localStorage's status by space
  prompt,        \* the dashboard's: asked, and whether it shows
  reading, text, kind, mapping,   \* the CSV form; a mapping is of a file and a kind
  import, imported,               \* the import; history: what was imported
  last, overlapped,               \* history: the page that saved last; two saves met
  moves, faults
profileVars == <<stored, form, gets, save, status, last, overlapped>>
csvFormVars == <<reading, text, kind, mapping, import, imported>>
setupVars == <<step, setup, prompt>>
settingsVars == <<profileVars, field, key, setupVars, csvFormVars, moves, faults>>

Pages == {"settings", "setup"}
Default == [name |-> "default", founded |-> "none", city |-> "none"]
Blank == [name |-> "default", founded |-> "none", city |-> "sf"]   \* a form's first contents
NoSave == [pc |-> "idle", space |-> "none", key |-> FALSE, sent |-> Blank]
NoStatus == [kind |-> "none", space |-> "none", sent |-> Blank]
NoMapping == [file |-> "none", kind |-> "none"]
Home == CHOOSE s \in Spaces : s \notin Locked

Init ==
  /\ stored = FirstStored /\ field = Home /\ key = FALSE
  /\ form = [p \in Pages |-> Blank] /\ gets = {} /\ save = [p \in Pages |-> NoSave]
  /\ status = [p \in Pages |-> NoStatus] /\ step = 0 /\ setup = [s \in Spaces |-> "pending"]
  /\ prompt = "none" /\ last = "none" /\ overlapped = FALSE
  /\ reading = {} /\ text = "none" /\ kind = "events" /\ mapping = NoMapping
  /\ import = [pc |-> "idle", file |-> "none", kind |-> "none", mapping |-> NoMapping, result |-> "none"]
  /\ imported = {} /\ moves = 0 /\ faults = 0

Move == moves < MaxMoves /\ moves' = moves + 1 /\ UNCHANGED faults
Rest == UNCHANGED <<moves, faults>>
Fault == faults < MaxFaults /\ faults' = faults + 1 /\ UNCHANGED moves

-----------------------------------------------------------------------------
(* The settings form.  Another workspace or key asks for the config again.     *)
LoadConfig(s, k) ==
  /\ Move /\ <<s, k>> # <<field, key>> /\ (key => k) /\ field' = s /\ key' = k
  /\ gets' = gets \cup {[space |-> s, key |-> k, answer |-> "none", profile |-> Default]}
  /\ UNCHANGED <<stored, form, save, status, last, overlapped, setupVars, csvFormVars>>
Allowed(s, k) == s \notin Locked \/ k
ServeConfig(g) ==
  /\ g.answer = "none"
  /\ gets' = (gets \ {g}) \cup
       {[g EXCEPT !.answer = IF Allowed(g.space, g.key) THEN "ok" ELSE "refused",
                  !.profile = IF Allowed(g.space, g.key) THEN stored[g.space] ELSE Default]}
  /\ Rest /\ UNCHANGED <<stored, field, key, form, save, status, last, overlapped, setupVars, csvFormVars>>
(* A refusal leaves the form, and a profile without a city its city, as they   *)
(* are: possibly another workspace's.                                          *)
Taken(old, p) == [p EXCEPT !.city = IF p.city = "none" THEN old.city ELSE p.city]
ConfigAnswers(g) ==
  /\ g.answer # "none" /\ gets' = gets \ {g}
  /\ form' = IF g.answer = "ok" THEN [form EXCEPT !["settings"] = Taken(@, g.profile)] ELSE form
  /\ Rest /\ UNCHANGED <<stored, field, key, save, status, last, overlapped, setupVars, csvFormVars>>
Type(p, draft) ==
  /\ Move /\ form[p] # draft /\ form' = [form EXCEPT ![p] = draft]
  /\ UNCHANGED <<stored, field, key, gets, save, status, last, overlapped, setupVars, csvFormVars>>

(* A save of either page: its own button is disabled until it is answered.     *)
SaveProfile(p) ==
  /\ Move /\ save[p].pc = "idle" /\ (p = "setup" => step = 0)
  /\ save' = [save EXCEPT ![p] = [pc |-> "name", space |-> field, key |-> key, sent |-> form[p]]]
  /\ status' = [status EXCEPT ![p] = NoStatus]
  /\ last' = p /\ overlapped' = (\E q \in Pages : save[q].pc # "idle")
  /\ UNCHANGED <<stored, field, key, form, gets, setupVars, csvFormVars>>
(* saveCompanyProfile writes the name, the date and the city, each by a        *)
(* statement of its own; a blank name, a date to come or a zone unknown        *)
(* refuses the rest of it.  The audit row may fail when all of it is stored.    *)
SaveStep(p, at, next, invalid, profile) ==
  LET q == save[p] IN
  /\ q.pc = at
  /\ \/ /\ Rest
        /\ IF ~Allowed(q.space, q.key) \/ invalid
           THEN save' = [save EXCEPT ![p].pc = "refused"] /\ UNCHANGED stored
           ELSE save' = [save EXCEPT ![p].pc = next] /\ stored' = [stored EXCEPT ![q.space] = profile]
     \/ /\ Fault /\ Allowed(q.space, q.key) /\ ~invalid
        /\ save' = [save EXCEPT ![p].pc = "refused"]
        /\ stored' \in {stored, [stored EXCEPT ![q.space] = profile]}
  /\ UNCHANGED <<field, key, form, gets, status, last, overlapped, setupVars, csvFormVars>>
SaveName(p) ==
  SaveStep(p, "name", "founded", save[p].sent.name = "blank",
           [stored[save[p].space] EXCEPT !.name = save[p].sent.name])
SaveFounded(p) ==
  SaveStep(p, "founded", "city", save[p].sent.founded = "future",
           [stored[save[p].space] EXCEPT !.founded = save[p].sent.founded])
SaveCity(p) ==
  SaveStep(p, "city", "saved", save[p].sent.city = "nowhere",
           [stored[save[p].space] EXCEPT !.city = save[p].sent.city])
(* The settings form takes the answer, over what was typed since; the setup    *)
(* goes on to its next step.                                                   *)
SaveAnswers(p) ==
  LET q == save[p] IN
  /\ q.pc \in {"saved", "refused"} /\ save' = [save EXCEPT ![p] = NoSave]
  /\ status' = [status EXCEPT ![p] =
       [kind |-> IF q.pc = "saved" THEN "ok" ELSE "error", space |-> q.space, sent |-> q.sent]]
  /\ form' = IF p = "settings" /\ q.pc = "saved" THEN [form EXCEPT ![p] = Taken(@, stored[q.space])] ELSE form
  /\ step' = IF p = "setup" /\ q.pc = "saved" THEN 1 ELSE step
  /\ Rest /\ UNCHANGED <<stored, field, key, gets, last, overlapped, setup, prompt, csvFormVars>>

-----------------------------------------------------------------------------
(* The setup's other steps, and the prompt that leads to it.                   *)
Go(to) ==
  /\ Move /\ step # 0 /\ to \in {step - 1, step + 1} /\ to < 3 /\ step' = to
  /\ UNCHANGED <<profileVars, field, key, setup, prompt, csvFormVars>>
finish(how) ==
  /\ Move /\ (how = "skipped" \/ step = 2) /\ setup' = [setup EXCEPT ![field] = how] /\ step' = 0
  /\ UNCHANGED <<profileVars, field, key, prompt, csvFormVars>>
hasCompanyProfile(p) == p # Default
shouldShowSetup(s, p, connected) == setup[s] = "pending" /\ ~hasCompanyProfile(p) /\ ~connected
(* A config that is refused or fails counts as no profile.                     *)
SetupPrompt(got, connected) ==
  /\ Move
  /\ prompt' = IF shouldShowSetup(field, IF got /\ Allowed(field, key) THEN stored[field] ELSE Default, connected)
               THEN (IF got THEN "shown" ELSE "shown blind") ELSE "none"
  /\ UNCHANGED <<profileVars, field, key, step, setup, csvFormVars>>

-----------------------------------------------------------------------------
(* The CSV form.  A file is read in its own time: the one read last is shown.  *)
suggestMapping(f, k) == [file |-> f, kind |-> k]
applyCsv(f, k) ==
  /\ text' = f
  /\ IF Files[f] = "broken" THEN mapping' = NoMapping /\ UNCHANGED kind
     ELSE kind' = k /\ mapping' = suggestMapping(f, k)
  /\ import' = [import EXCEPT !.result = "none"]
handleCsvFile(f) ==
  /\ Move /\ reading' = reading \cup {f}
  /\ UNCHANGED <<profileVars, field, key, setupVars, text, kind, mapping, import, imported>>
FileRead(f) ==
  /\ f \in reading /\ reading' = reading \ {f} /\ applyCsv(f, Files[f])
  /\ Rest /\ UNCHANGED <<profileVars, field, key, setupVars, imported>>
(* Mutant: the mapping stays that of the other kind.                           *)
BugKindOnly(k) ==
  /\ Move /\ k # kind /\ kind' = k
  /\ UNCHANGED <<profileVars, field, key, setupVars, reading, text, mapping, import, imported>>
handleCsvKindChange(k) ==
  /\ Move /\ k # kind
  /\ IF text = "none" THEN kind' = k /\ UNCHANGED <<text, mapping, import>> ELSE applyCsv(text, k)
  /\ UNCHANGED <<profileVars, field, key, setupVars, reading, imported>>
(* The mapping is stored with the source, then the text is sent with it.       *)
handleCsvImport ==
  /\ Move /\ import.pc = "idle" /\ text # "none"
  /\ import' = [pc |-> "connect", file |-> text, kind |-> kind, mapping |-> mapping, result |-> "none"]
  /\ UNCHANGED <<profileVars, field, key, setupVars, reading, text, kind, mapping, imported>>
ImportStep ==
  /\ import.pc \in {"connect", "import"}
  /\ \/ /\ Rest /\ import.pc = "connect" /\ import' = [import EXCEPT !.pc = "import"] /\ UNCHANGED imported
     \/ /\ Rest /\ import.pc = "import" /\ Files[import.file] # "broken"
        /\ import' = [import EXCEPT !.pc = "idle", !.result = "ok"]
        /\ imported' = imported \cup {[file |-> import.file, kind |-> import.kind, mapping |-> import.mapping]}
     \/ /\ Rest /\ Files[import.file] = "broken" /\ import' = [import EXCEPT !.pc = "idle", !.result = "error"]
        /\ UNCHANGED imported
     \/ Fault /\ import' = [import EXCEPT !.pc = "idle", !.result = "error"] /\ UNCHANGED imported
  /\ UNCHANGED <<profileVars, field, key, setupVars, reading, text, kind, mapping>>

ProfileNext ==
  \/ \E s \in Spaces, k \in BOOLEAN : LoadConfig(s, k)
  \/ \E g \in gets : ServeConfig(g) \/ ConfigAnswers(g)
  \/ \E p \in Pages :
       \/ SaveProfile(p) \/ SaveName(p) \/ SaveFounded(p) \/ SaveCity(p) \/ SaveAnswers(p)
       \/ \E d \in Drafts : Type(p, d)
  \/ \E to \in 0..2 : Go(to)
  \/ \E how \in {"skipped", "complete"} : finish(how)
  \/ \E got, connected \in BOOLEAN : SetupPrompt(got, connected)
CsvNext ==
  \/ \E f \in DOMAIN Files : handleCsvFile(f) \/ FileRead(f)
  \/ \E k \in {"users", "events"} : handleCsvKindChange(k)
  \/ handleCsvImport \/ ImportStep

-----------------------------------------------------------------------------
(* A page that says saved stored the profile it sent, whole, with no other     *)
(* save beside or after it (saveCompanyProfile: null deletes, an error stops). *)
SavedIsStored ==
  \A p \in Pages :
    status[p].kind = "ok" /\ last = p /\ ~overlapped => stored[status[p].space] = status[p].sent
(* What is imported is a file with a mapping of its own and of the kind it is  *)
(* sent as (applyCsv, over reads that overtake each other and kinds changed).  *)
ImportFits ==
  /\ text # "none" /\ Files[text] # "broken" => mapping = suggestMapping(text, kind)
  /\ \A i \in imported : i.mapping = suggestMapping(i.file, i.kind)

-----------------------------------------------------------------------------
(* The connector health panel (app/connect/ConnectorHealthPanel.tsx,           *)
(* core/connector-health.ts).  A load asks twice, for the overview and for the *)
(* sync states, and each is read when the server comes to it; loads begin with *)
(* the page, with every change of workspace or key, with Refresh and after a   *)
(* call, and nothing keeps an older one from answering later.  The count of    *)
(* rows a source last pulled and the message of a failed call are left out;    *)
(* how runs of a source wait for each other is SourceSync's.                   *)
CONSTANTS
  Sources,       \* workspace -> its sources
  Errors,        \* errors a pull may leave: "401", "429", "503", "sync failed"
  Keys,          \* keys the founder may type; "none" is the empty field
  MaxLoads,      \* bound: loads at once
  MaxPresses     \* bound: changes of workspace or key, buttons pressed, runs of the scheduler

VARIABLES
  server,     \* workspace -> source -> its rows of sync_state and sources
  panelForm,  \* the workspace and the key of the page
  loads,      \* loads in flight
  loading,    \* the one flag of them all
  health,     \* what is shown: source -> Row or Absent; or Null
  calls,      \* calls in flight
  busy,       \* slot -> the source whose button is off
  presses,
  whole       \* history: what is shown was loaded alone, under this form, and nothing has changed since
panelVars == <<server, panelForm, loads, loading, health, calls, busy, presses, whole>>

Row(st, error, paused) == [status |-> st, error |-> error, paused |-> paused]
Absent == Row("none", "none", FALSE)
(* stamped: it has a lastSync; connected: it has stored credentials.           *)
State(st, error, stamped, connected, paused) ==
  [status |-> st, error |-> error, stamped |-> stamped, connected |-> connected, paused |-> paused]
Gone == State("none", "none", FALSE, FALSE, FALSE)
AllSources == UNION {Sources[w] : w \in DOMAIN Sources}
NoRows == [s \in AllSources |-> Absent]
Null == [s \in {} |-> Absent]
Refused == [s \in {"refused"} |-> Absent]

-----------------------------------------------------------------------------
humanizeSyncError(e) ==
  CASE e = "401" -> "rejected the credentials" [] e = "429" -> "asked to wait"
    [] e = "503" -> "did not complete" [] OTHER -> "did not finish"
presentConnectorHealth(row) ==
  [status |-> row.status, paused |-> row.paused,
   problem |-> IF ~row.paused /\ row.status = "error" THEN humanizeSyncError(row.error) ELSE "none"]
(* loadWorkspaceSyncStates: a paused source without a sync_state is listed as  *)
(* one that has not run.                                                       *)
Read(w) ==
  [s \in AllSources |->
     LET r == server[w][s]
     IN IF r.status = "none" THEN (IF r.paused THEN Row("pending", "none", TRUE) ELSE Absent)
        ELSE Row(r.status, r.error, r.paused)]
(* A row of the overview with the pause of the sync states, which is there     *)
(* when it is; a row only the sync states have.                                *)
Merge(overview, states) ==
  LET of(answer) == IF answer = Refused THEN NoRows ELSE answer
      o == of(overview)
      t == of(states)
  IN [s \in AllSources |->
        IF o[s] = Absent THEN t[s] ELSE IF t[s] = Absent THEN o[s] ELSE [o[s] EXCEPT !.paused = t[s].paused]]
Readable(w, k) == w = "demo" \/ k # "none"
Answer(l) == IF Readable(l.ws, l.key) THEN Read(l.ws) ELSE Refused

Began(f, by) ==
  Append([k \in DOMAIN loads |-> [loads[k] EXCEPT !.alone = FALSE]],
         [ws |-> f.ws, key |-> f.key, over |-> Null, states |-> Null, by |-> by, alone |-> loads = <<>> /\ f = panelForm'])
(* Where the server changes, what was read of it may be old.                   *)
Stale(w) ==
  /\ whole' = (whole /\ panelForm.ws # w)
  /\ loads' = [k \in DOMAIN loads |-> IF loads[k].ws = w THEN [loads[k] EXCEPT !.alone = FALSE] ELSE loads[k]]

PanelInit ==
  /\ server = [w \in DOMAIN Sources |-> [s \in AllSources |-> IF s \in Sources[w] THEN State("success", "none", TRUE, TRUE, FALSE) ELSE Gone]]
  /\ (\E w \in DOMAIN Sources : panelForm = [ws |-> w, key |-> "none"]) /\ health = Null /\ calls = <<>> /\ busy = [slot \in {"sync", "acting"} |-> "none"]
  /\ loads = <<[ws |-> panelForm.ws, key |-> "none", over |-> Null, states |-> Null, by |-> "page", alone |-> TRUE]>>
  /\ loading = TRUE /\ presses = 0 /\ whole = FALSE

-----------------------------------------------------------------------------
Acts == presses < MaxPresses /\ presses' = presses + 1
TypeKey(f) ==
  /\ Acts /\ f # panelForm /\ panelForm' = f /\ Len(loads) < MaxLoads
  /\ loads' = Began(f, "page") /\ loading' = TRUE /\ whole' = FALSE
  /\ UNCHANGED <<server, health, calls, busy>>
Refresh ==
  /\ ~loading /\ Acts /\ Len(loads) < MaxLoads
  /\ UNCHANGED <<server, panelForm, health, calls, busy, whole>>
  /\ loads' = Began(panelForm, "page") /\ loading' = TRUE
ReadOverview(k) ==
  /\ loads[k].over = Null
  /\ loads' = [loads EXCEPT ![k].over = Answer(loads[k])]
  /\ UNCHANGED <<server, panelForm, loading, health, calls, busy, presses, whole>>
ReadStates(k) ==
  /\ loads[k].states = Null
  /\ loads' = [loads EXCEPT ![k].states = Answer(loads[k])]
  /\ UNCHANGED <<server, panelForm, loading, health, calls, busy, presses, whole>>
(* A load ends by its answers, or shows nothing when one of them is lost; the  *)
(* call it followed is then over too.                                          *)
LoadEnds(k) ==
  LET l == loads[k] IN
  /\ loads' = RemoveAt(loads, k) /\ loading' = FALSE
  /\ busy' = IF l.by \in DOMAIN busy THEN [busy EXCEPT ![l.by] = "none"] ELSE busy
  /\ \/ /\ l.over # Null /\ l.states # Null
        /\ health' = IF l.over = Refused /\ l.states = Refused THEN Null ELSE Merge(l.over, l.states)
        /\ whole' = l.alone
     \/ health' = Null /\ whole' = FALSE
  /\ UNCHANGED <<server, panelForm, calls, presses>>

(* Whatever the panel shows is shown with its buttons.                         *)
Listed(s) == health # Null /\ health[s] # Absent
Enabled(slot, s) == Listed(s) /\ busy[slot] # s
Buttons(s) ==
  {[slot |-> "sync", does |-> "sync"], [slot |-> "acting", does |-> "disconnect"],
   [slot |-> "acting", does |-> IF health[s].paused THEN "resume" ELSE "pause"]}
  \cup (IF health[s].status = "error" /\ ~health[s].paused THEN {[slot |-> "acting", does |-> "clear-error"]} ELSE {})
(* syncNow, runLifecycle: without a key nothing is sent.  There is one slot of *)
(* a kind for all sources: a call of another source enables this one's button. *)
Press(s) ==
  /\ Acts /\ panelForm.key # "none" /\ Listed(s)
  /\ \E b \in Buttons(s) :
       /\ Enabled(b.slot, s) /\ busy' = [busy EXCEPT ![b.slot] = s]
       /\ calls' = Append(calls, [slot |-> b.slot, does |-> b.does, source |-> s, form |-> panelForm, at |-> "sent"])
  /\ UNCHANGED <<server, panelForm, loads, loading, health, whole>>
(* What the route leaves of the source's rows, and how far the call is: a sync *)
(* is pending before it has pulled, and one without credentials fails.         *)
Done(row, at) == [row |-> row, at |-> at]
Ran(row, st, error) == [row EXCEPT !.status = st, !.error = error, !.stamped = TRUE]
After(c, row) ==
  CASE c.at = "pulling" -> {Done(Ran(row, "success", "none"), "served")} \cup {Done(Ran(row, "error", e), "served") : e \in Errors}
    [] c.at = "without credentials" -> {Done(Ran(row, "error", "sync failed"), "served")}
    [] c.does = "sync" -> {Done([row EXCEPT !.status = "pending", !.error = "none"],
                                IF row.connected THEN "pulling" ELSE "without credentials")}
    [] c.does \in {"pause", "resume"} ->
         {IF row.connected THEN Done([row EXCEPT !.paused = (c.does = "pause")], "served") ELSE Done(row, "refused")}
    [] c.does = "clear-error" ->
         {IF row.status = "none" THEN Done(row, IF row.connected THEN "served" ELSE "refused")
          ELSE Done([row EXCEPT !.status = IF row.stamped THEN "success" ELSE "pending", !.error = "none"], "served")}
    [] c.does = "disconnect" -> {Done(Gone, IF row = Gone THEN "refused" ELSE "served")}
Serve(k) ==
  LET c == calls[k]
      w == c.form.ws
  IN /\ c.at \in {"sent", "pulling", "without credentials"}
     /\ \E d \in After(c, server[w][c.source]) :
          /\ server' = [server EXCEPT ![w][c.source] = d.row] /\ calls' = [calls EXCEPT ![k].at = d.at]
     /\ Stale(w) /\ UNCHANGED <<panelForm, loading, health, busy, presses>>
(* An answered call loads again, with the form it was pressed under; a refused *)
(* or lost one frees its button.                                               *)
CallAnswers(k) ==
  LET c == calls[k] IN
  /\ calls' = RemoveAt(calls, k) /\ UNCHANGED <<server, panelForm, health, presses, whole>>
  /\ \/ /\ c.at = "served" /\ Len(loads) < MaxLoads
        /\ loads' = Began(c.form, c.slot) /\ loading' = TRUE /\ UNCHANGED busy
     \/ busy' = [busy EXCEPT ![c.slot] = "none"] /\ UNCHANGED <<loads, loading>>
SchedulerRuns ==
  /\ Acts /\ \E w \in DOMAIN Sources : \E s \in Sources[w], e \in Errors \cup {"none"} :
       LET ran == Ran(server[w][s], IF e = "none" THEN "success" ELSE "error", e)
       IN /\ server[w][s].connected /\ ~server[w][s].paused /\ server[w][s] # ran
          /\ server' = [server EXCEPT ![w][s] = ran] /\ Stale(w)
  /\ UNCHANGED <<panelForm, loading, health, calls, busy>>
PanelNext ==
  \/ \E w \in DOMAIN Sources, k \in Keys : TypeKey([ws |-> w, key |-> k])
  \/ Refresh \/ SchedulerRuns
  \/ \E k \in DOMAIN loads : ReadOverview(k) \/ ReadStates(k) \/ LoadEnds(k)
  \/ \E s \in AllSources : Press(s)
  \/ \E k \in DOMAIN calls : Serve(k) \/ CallAnswers(k)

-----------------------------------------------------------------------------
(* What a load read alone, and the server kept since, is what the panel shows, *)
(* with the problem of the source, and nothing without a key for it; an older  *)
(* answer, or one of another form, may still take its place.                   *)
ShownIsTheServers ==
  whole =>
    IF Readable(panelForm.ws, panelForm.key)
    THEN health # Null /\ \A s \in AllSources :
           presentConnectorHealth(health[s]) = presentConnectorHealth(Read(panelForm.ws)[s])
    ELSE health = Null
=============================================================================
