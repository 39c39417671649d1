----------------------------- MODULE SourceSync -----------------------------
(* One workspace's pull sources: the registry's sync() behind the in-process  *)
(* coalesce lock (src/src/connectors/index.ts, lock.ts), the scheduler that   *)
(* drives it (core/scheduler.ts), POST /api/v1/sync, and the lifecycle calls  *)
(* of core/sources.ts that rewrite the same two tables. Every await is a step *)
(* of its own: a run, a request, a pass and a lifecycle call interleave.      *)
(* What a connector does page by page is in IncrementalPull; here a pull is   *)
(* its outcome and the writes it makes to sync_state; the cursor slot it and  *)
(* SaveCursor write, which no other part reads, is in IncrementalPull too.    *)
EXTENDS Naturals, FiniteSets

CONSTANTS
  Keys,         \* registered sources of the workspace
  Incremental,  \* those that keep a cursor (posthog, mixpanel, amplitude)
  EnvKeys,      \* those with credentials in the environment
  Connected,    \* those with stored credentials at the start
  Slots,        \* room for runs of one source, so that two could coexist
  NoSlot,
  Requests,     \* POST /api/v1/sync calls
  Ops,          \* connect / disconnect / pause / resume / clear calls
  OpKinds,      \* the kinds of Ops a configuration uses
  MaxDay,       \* bound: UTC days that pass
  MaxFaults,    \* bound: database statements that fail
  MaxCrashes    \* bound: process restarts

ASSUME KeysAssumption ==
  /\ Incremental \subseteq Keys /\ EnvKeys \subseteq Keys /\ Connected \subseteq Keys
  /\ Slots # {} /\ NoSlot \notin Slots
  /\ OpKinds \subseteq {"connect", "disconnect", "pause", "resume", "clear"}
  /\ MaxDay \in Nat \ {0} /\ MaxFaults \in Nat /\ MaxCrashes \in Nat

VARIABLES
  sources,     \* sources rows: "absent", "active", or "paused" (paused_at set)
  state,       \* sync_state rows
  audit,       \* audit rows, by the call that wrote them
  run,         \* run[k][s]: the runSource invocations in progress
  inflight,    \* the lock's map: the run that owns a source
  request,     \* POST /sync handlers
  op,          \* lifecycle handlers
  pass,        \* the scheduler's current pass (state.inflight)
  lastNightly, \* the scheduler's lastNightlyKey, 0 for null
  day,         \* the UTC day
  faults, crashes,
  answer,      \* history: how the last run of a source settled
  reconciled,  \* history: the day of the last pull from the beginning
  gone,        \* history: disconnected, and no run has started since
  voided       \* history: a clear rewrote the row, or a restart cut its run
               \* short, and no run has started since

db      == <<sources, state, audit>>
sched   == <<pass, lastNightly>>
bounds  == <<faults, crashes>>
history == <<answer, reconciled, gone, voided>>
vars    == <<db, run, inflight, request, op, sched, day, bounds, history>>

SourceRows == {"absent", "active", "paused"}
Statuses   == {"absent", "pending", "success", "error"}
(* last_sync is a date: "none" is null, and the other two tell by which write *)
(* it was stamped. The code only tests it against null.                       *)
Stamps     == {"none", "ok", "failed"}
StateRow   == [status : Statuses, stamp : Stamps]
NoState    == [status |-> "absent", stamp |-> "none"]

RunPcs == {"idle", "readState", "markPending", "loadConfig", "loadCursor", "pull",
           "stampOk", "stampFailed", "stampThrow", "saveCursor", "clusters",
           "milestones", "markError"}
Run     == [pc : RunPcs, full : BOOLEAN, stamp : Stamps]
IdleRun == [pc |-> "idle", full |-> FALSE, stamp |-> "none"]
Request == [pc : {"new", "waiting", "answered", "failed", "lost"},
            waits : SUBSET (Keys \X Slots)]
Op      == [pc : {"new", "read", "readState", "readSource", "write", "writeState",
                  "audit", "answered", "refused", "failed", "lost"},
            kind : OpKinds, key : Keys, source : SourceRows, state : StateRow]
Pass    == [pc : {"idle", "listing", "pulling"}, full : BOOLEAN, day : 0..MaxDay,
            waits : SUBSET (Keys \X Slots)]
IdlePass == [pc |-> "idle", full |-> FALSE, day |-> 0, waits |-> {}]

Init ==
  /\ sources = [k \in Keys |-> IF k \in Connected THEN "active" ELSE "absent"]
  /\ state = [k \in Keys |-> NoState]
  /\ audit = {}
  /\ run = [k \in Keys |-> [s \in Slots |-> IdleRun]]
  /\ inflight = [k \in Keys |-> NoSlot]
  /\ request = [r \in Requests |-> [pc |-> "new", waits |-> {}]]
  /\ op \in [Ops -> {[pc |-> "new", kind |-> c, key |-> k, source |-> "absent",
                      state |-> NoState] : c \in OpKinds, k \in Keys}]
  /\ pass = IdlePass /\ lastNightly = 0 /\ day = 1
  /\ faults = 0 /\ crashes = 0
  /\ answer = [k \in Keys |-> "none"]
  /\ reconciled = [k \in Keys |-> 0]
  /\ gone = [k \in Keys |-> FALSE] /\ voided = [k \in Keys |-> FALSE]

-----------------------------------------------------------------------------
(* withSourceLock: every source of ks that is not in flight gets a run, the    *)
(* others are joined and the caller's options are dropped.                    *)
FreeSlot(k) == CHOOSE s \in Slots : run[k][s].pc = "idle"

BugLockIgnored(ks) == ks
Unowned(ks) == {k \in ks : inflight[k] = NoSlot}

StartOrJoin(ks, full) ==
  LET new == Unowned(ks)
  IN /\ \A k \in new : \E s \in Slots : run[k][s].pc = "idle"
     /\ run' = [k \in Keys |->
          IF k \in new
            THEN [run[k] EXCEPT ![FreeSlot(k)] =
                    [pc |-> "readState", full |-> full, stamp |-> "none"]]
            ELSE run[k]]
     /\ inflight' = [k \in Keys |-> IF k \in new THEN FreeSlot(k) ELSE inflight[k]]
     /\ reconciled' = [k \in Keys |->
          IF full /\ k \in new THEN day ELSE reconciled[k]]
     /\ gone' = [k \in Keys |-> gone[k] /\ k \notin new]
     /\ voided' = [k \in Keys |-> voided[k] /\ k \notin new]

Awaited(ks) == {<<k, inflight'[k]>> : k \in ks}

(* The shared promise settles: the lock's finally frees the source, and every *)
(* caller that awaits it goes on. A rejection fails a request's Promise.all;  *)
(* the scheduler catches it.                                                  *)
Without(rec, x) == [rec EXCEPT !.waits = @ \ {x}]
Release(k, s, how) == [inflight EXCEPT ![k] = IF @ = s THEN NoSlot ELSE @]

Notify(k, s, how) ==
  [r \in Requests |->
     IF how = "rejected" /\ <<k, s>> \in request[r].waits
       THEN [pc |-> "failed", waits |-> {}]
       ELSE Without(request[r], <<k, s>>)]

Settle(k, s, how) ==
  /\ run' = [run EXCEPT ![k][s] = IdleRun]
  /\ inflight' = Release(k, s, how)
  /\ request' = Notify(k, s, how)
  /\ pass' = Without(pass, <<k, s>>)
  /\ answer' = [answer EXCEPT ![k] = how]
  /\ UNCHANGED <<lastNightly, reconciled, gone, voided>>

Goto(k, s, pc) ==
  /\ run' = [run EXCEPT ![k][s].pc = pc]
  /\ UNCHANGED <<inflight, request, sched, history>>

Stamp(k, status, stamp) ==
  state' = [state EXCEPT ![k] = [status |-> status, stamp |-> stamp]]

-----------------------------------------------------------------------------
(* runSource. Frame of every step but the ones that write tables.             *)
At(k, s, pc) == run[k][s].pc = pc /\ UNCHANGED <<sources, audit, op, day, bounds>>
NoWrite      == UNCHANGED state

ReadState(k, s) ==
  /\ At(k, s, "readState") /\ NoWrite
  /\ run' = [run EXCEPT ![k][s].pc = "markPending", ![k][s].stamp = state[k].stamp]
  /\ UNCHANGED <<inflight, request, sched, history>>

MarkPending(k, s) ==
  /\ At(k, s, "markPending") /\ Goto(k, s, "loadConfig")
  /\ Stamp(k, "pending", run[k][s].stamp)

(* A connector with no credentials throws before its own try block.           *)
LoadConfig(k, s) ==
  /\ At(k, s, "loadConfig") /\ NoWrite
  /\ IF sources[k] = "absent" /\ k \notin EnvKeys THEN Goto(k, s, "markError")
     ELSE IF k \in Incremental /\ ~run[k][s].full THEN Goto(k, s, "loadCursor")
     ELSE Goto(k, s, "pull")

LoadCursor(k, s) == At(k, s, "loadCursor") /\ NoWrite /\ Goto(k, s, "pull")

PullEnds(k, s) == At(k, s, "pull") /\ NoWrite /\ Goto(k, s, "stampOk")

(* Upstream answers an error status (failedSync), or fetch or parsing throws. *)
PullFails(k, s) ==
  /\ At(k, s, "pull") /\ NoWrite
  /\ \E pc \in {"stampFailed", "stampThrow"} : Goto(k, s, pc)

StampOk(k, s) ==
  /\ At(k, s, "stampOk") /\ Stamp(k, "success", "ok")
  /\ Goto(k, s, IF k \in Incremental THEN "saveCursor" ELSE "clusters")

BugFailedSyncUnstamped(k, s) ==
  At(k, s, "stampFailed") /\ NoWrite /\ UNCHANGED op /\ Settle(k, s, "error")
StampFailed(k, s) ==
  /\ At(k, s, "stampFailed") /\ Stamp(k, "error", "failed")
  /\ Settle(k, s, "error")

StampThrow(k, s) ==
  /\ At(k, s, "stampThrow") /\ Stamp(k, "error", "failed")
  /\ Goto(k, s, "markError")

SaveCursor(k, s) == At(k, s, "saveCursor") /\ NoWrite /\ Goto(k, s, "clusters")

RefreshClusters(k, s) == At(k, s, "clusters") /\ NoWrite /\ Goto(k, s, "milestones")

PersistMilestones(k, s) == At(k, s, "milestones") /\ NoWrite /\ Settle(k, s, "ok")

MarkError(k, s) ==
  /\ At(k, s, "markError") /\ Stamp(k, "error", "failed")
  /\ Settle(k, s, "error")

(* Where a failing statement of each step lands: markPending is outside the   *)
(* try, `return failedSync()` leaves the connector's own try unawaited, and   *)
(* a failing markError rejects the run.                                       *)
Catch ==
  [pc \in RunPcs \ {"idle"} |->
     CASE pc \in {"readState", "markPending", "markError"} -> "rejected"
       [] pc \in {"pull", "stampOk"} -> "stampThrow"
       [] OTHER -> "markError"]

RunFault(k, s) ==
  /\ run[k][s].pc # "idle" /\ faults < MaxFaults /\ faults' = faults + 1
  /\ UNCHANGED <<db, op, day, crashes>>
  /\ LET to == Catch[run[k][s].pc]
     IN IF to = "rejected" THEN Settle(k, s, "rejected") ELSE Goto(k, s, to)

RunStep(k, s) ==
  \/ ReadState(k, s) \/ MarkPending(k, s) \/ LoadConfig(k, s) \/ LoadCursor(k, s)
  \/ PullEnds(k, s) \/ PullFails(k, s)
  \/ StampOk(k, s) \/ StampFailed(k, s) \/ StampThrow(k, s)
  \/ SaveCursor(k, s) \/ RefreshClusters(k, s) \/ PersistMilestones(k, s)
  \/ MarkError(k, s)

-----------------------------------------------------------------------------
(* POST /api/v1/sync for one source or for all registered ones.               *)
RequestSync(r) ==
  /\ request[r].pc = "new"
  /\ \E ks \in {{k} : k \in Keys} \cup {Keys} :
       /\ StartOrJoin(ks, FALSE)
       /\ request' = [request EXCEPT ![r] = [pc |-> "waiting", waits |-> Awaited(ks)]]
  /\ UNCHANGED <<db, op, sched, day, bounds, answer>>

RequestAnswers(r) ==
  /\ request[r].pc = "waiting" /\ request[r].waits = {}
  /\ request' = [request EXCEPT ![r].pc = "answered"]
  /\ audit' = audit \cup {r}
  /\ UNCHANGED <<sources, state, run, inflight, op, sched, day, bounds, history>>

(* The scheduler: the boot timer and every interval call tick().              *)
BugSkipsPending == {k \in Keys : sources[k] = "active" /\ state[k].status # "pending"}
Scheduled == {k \in Keys : /\ sources[k] # "paused"
                           /\ sources[k] = "active" \/ k \in EnvKeys}

Tick ==
  /\ pass.pc = "idle"
  /\ pass' = [pc |-> "listing", full |-> lastNightly # day, day |-> day, waits |-> {}]
  /\ UNCHANGED <<db, run, inflight, request, op, lastNightly, day, bounds, history>>

ListTargets ==
  /\ pass.pc = "listing"
  /\ StartOrJoin(Scheduled, pass.full)
  /\ pass' = [pass EXCEPT !.pc = "pulling", !.waits = Awaited(Scheduled)]
  /\ UNCHANGED <<db, request, op, lastNightly, day, bounds, answer>>

(* A failing list is caught, and the pass ends as if it had nothing to do.    *)
ListFault ==
  /\ pass.pc = "listing" /\ faults < MaxFaults
  /\ faults' = faults + 1 /\ pass' = [pass EXCEPT !.pc = "pulling"]
  /\ UNCHANGED <<db, run, inflight, request, op, lastNightly, day, crashes, history>>

\* Mutant: the day is read again when the pass ends.
BugMarksTheDayItEnds ==
  /\ pass.pc = "pulling" /\ pass.waits = {} /\ pass' = IdlePass
  /\ lastNightly' = IF pass.full THEN day ELSE lastNightly
  /\ UNCHANGED <<db, run, inflight, request, op, day, bounds, history>>
PassEnds ==
  /\ pass.pc = "pulling" /\ pass.waits = {}
  /\ pass' = IdlePass
  /\ lastNightly' = IF pass.full THEN pass.day ELSE lastNightly
  /\ UNCHANGED <<db, run, inflight, request, op, day, bounds, history>>

NextDay ==
  /\ day < MaxDay /\ day' = day + 1
  /\ UNCHANGED <<db, run, inflight, request, op, sched, bounds, history>>

-----------------------------------------------------------------------------
(* The lifecycle calls of /api/v1/connect, one action per awaited statement.  *)
OpAt(o, pc) == op[o].pc = pc /\ UNCHANGED <<run, inflight, request, sched, day, answer,
                                            reconciled>>
OpGoto(o, pc) == op' = [op EXCEPT ![o].pc = pc]

OpBegins(o) ==
  /\ OpAt(o, "new") /\ UNCHANGED <<sources, state, audit, bounds, gone, voided>>
  /\ OpGoto(o, IF op[o].kind = "clear" THEN "readState" ELSE "read")

OpReadsSource(o) ==
  LET row == sources[op[o].key]
  IN /\ OpAt(o, "read") /\ UNCHANGED <<sources, state, audit, bounds, gone, voided>>
     /\ op' = [op EXCEPT ![o].source = row,
          ![o].pc = CASE op[o].kind = "connect" -> "write"
                      [] op[o].kind = "disconnect" -> "readState"
                      [] op[o].kind \in {"pause", "resume"} /\ row = "absent" -> "refused"
                      [] op[o].kind = "pause" /\ row = "paused" -> "audit"
                      [] op[o].kind = "resume" /\ row = "active" -> "audit"
                      [] OTHER -> "write"]

OpReadsState(o) ==
  LET row == state[op[o].key]
  IN /\ OpAt(o, "readState") /\ UNCHANGED <<sources, state, audit, bounds, gone, voided>>
     /\ op' = [op EXCEPT ![o].state = row,
          ![o].pc = IF op[o].kind = "disconnect" /\ op[o].source # "absent" THEN "write"
                    ELSE IF row.status # "absent" THEN "writeState"
                    ELSE IF op[o].kind = "clear" THEN "readSource" ELSE "refused"]

(* clearSourceError with no state row only tells a connected source apart.    *)
OpClearsNothing(o) ==
  /\ OpAt(o, "readSource") /\ UNCHANGED <<sources, state, audit, bounds, gone, voided>>
  /\ OpGoto(o, IF sources[op[o].key] = "absent" THEN "refused" ELSE "audit")

(* saveSourceConfig keeps paused_at of a row it rotates; UPDATE and DELETE do *)
(* nothing to a row that has gone.                                            *)
OpWritesSource(o) ==
  LET k == op[o].key
      new == CASE op[o].kind = "disconnect" -> "absent"
               [] op[o].kind = "connect" /\ sources[k] = "absent" -> "active"
               [] op[o].kind = "pause" /\ sources[k] # "absent" -> "paused"
               [] op[o].kind = "resume" /\ sources[k] # "absent" -> "active"
               [] OTHER -> sources[k]
  IN /\ OpAt(o, "write") /\ UNCHANGED <<state, audit, bounds, gone, voided>>
     /\ sources' = [sources EXCEPT ![k] = new]
     /\ OpGoto(o, IF op[o].kind = "disconnect" /\ op[o].state.status # "absent"
                    THEN "writeState" ELSE "audit")

(* disconnect deletes the row; clear rewrites it from the row it read.        *)
OpWritesState(o) ==
  LET k == op[o].key
      cleared == IF op[o].state.stamp # "none" THEN "success" ELSE "pending"
  IN /\ OpAt(o, "writeState") /\ UNCHANGED <<sources, audit, bounds, gone>>
     /\ OpGoto(o, "audit")
     /\ voided' = [voided EXCEPT ![k] = @ \/ op[o].kind # "disconnect"]
     /\ state' = IF op[o].kind = "disconnect" THEN [state EXCEPT ![k] = NoState]
                 ELSE IF state[k].status = "absent" THEN state
                 ELSE [state EXCEPT ![k].status = cleared]

OpAudits(o) ==
  /\ OpAt(o, "audit") /\ OpGoto(o, "answered") /\ audit' = audit \cup {o}
  /\ gone' = [gone EXCEPT ![op[o].key] = @ \/ op[o].kind = "disconnect"]
  /\ UNCHANGED <<sources, state, bounds, voided>>

OpFault(o) ==
  /\ OpAt(o, op[o].pc) /\ op[o].pc \notin {"new", "answered", "refused", "failed", "lost"}
  /\ faults < MaxFaults /\ faults' = faults + 1 /\ OpGoto(o, "failed")
  /\ UNCHANGED <<sources, state, audit, crashes, gone, voided>>

OpStep(o) ==
  \/ OpBegins(o) \/ OpReadsSource(o) \/ OpReadsState(o) \/ OpClearsNothing(o)
  \/ OpWritesSource(o) \/ OpWritesState(o) \/ OpAudits(o)

(* The process restarts: the tables survive, the lock, the pass and every     *)
(* handler do not.                                                            *)
Crash ==
  /\ crashes < MaxCrashes /\ crashes' = crashes + 1
  /\ run' = [k \in Keys |-> [s \in Slots |-> IdleRun]]
  /\ inflight' = [k \in Keys |-> NoSlot]
  /\ request' = [r \in Requests |->
       [pc |-> IF request[r].pc = "waiting" THEN "lost" ELSE request[r].pc, waits |-> {}]]
  /\ op' = [o \in Ops |-> IF op[o].pc \in {"new", "answered", "refused", "failed"}
                            THEN op[o] ELSE [op[o] EXCEPT !.pc = "lost"]]
  /\ pass' = IdlePass /\ lastNightly' = 0
  /\ voided' = [k \in Keys |-> voided[k] \/ inflight[k] # NoSlot]
  /\ UNCHANGED <<db, day, faults, answer, reconciled, gone>>

Next ==
  \/ \E k \in Keys, s \in Slots : RunStep(k, s) \/ RunFault(k, s)
  \/ \E r \in Requests : RequestSync(r) \/ RequestAnswers(r)
  \/ Tick \/ ListTargets \/ ListFault \/ PassEnds \/ NextDay
  \/ \E o \in Ops : OpStep(o) \/ OpFault(o)
  \/ Crash

Spec == Init /\ [][Next]_vars

(* Awaited statements and upstream requests complete or fail (fetch has       *)
(* undici's header and body timeouts), and the interval timer keeps firing.   *)
FairSpec ==
  /\ Spec
  /\ \A k \in Keys, s \in Slots : WF_vars(RunStep(k, s))
  /\ \A r \in Requests : WF_vars(RequestAnswers(r))
  /\ WF_vars(Tick) /\ WF_vars(ListTargets) /\ WF_vars(PassEnds)
-----------------------------------------------------------------------------
Active(k, s) == run[k][s].pc # "idle"
AtRest(k)    == \A s \in Slots : ~Active(k, s)

TypeOK ==
  /\ sources \in [Keys -> SourceRows] /\ state \in [Keys -> StateRow]
  /\ audit \subseteq Requests \cup Ops
  /\ run \in [Keys -> [Slots -> Run]] /\ inflight \in [Keys -> Slots \cup {NoSlot}]
  /\ request \in [Requests -> Request] /\ op \in [Ops -> Op] /\ pass \in Pass
  /\ lastNightly \in 0..MaxDay /\ day \in 1..MaxDay
  /\ faults \in 0..MaxFaults /\ crashes \in 0..MaxCrashes
  /\ answer \in [Keys -> {"none", "ok", "error", "rejected"}]
  /\ reconciled \in [Keys -> 0..MaxDay] /\ gone \in [Keys -> BOOLEAN]
  /\ voided \in [Keys -> BOOLEAN]

(* The lock's map names exactly the runs in progress: a run that settles, in  *)
(* any way, frees its source, and nothing else does.                          *)
LockNamesRuns == \A k \in Keys, s \in Slots : Active(k, s) <=> inflight[k] = s

(* Overlapping triggers of one source share one run (lock.ts:4): a source is  *)
(* never pulled twice at once, whatever requests, ticks and failures overlap. *)
OneRunPerSource ==
  \A k \in Keys, s, t \in Slots : Active(k, s) /\ Active(k, t) => s = t

(* Nobody awaits a promise that has already settled: every caller that joined *)
(* a run is among those its end wakes.                                        *)
NoLostWakeup ==
  /\ \A r \in Requests : \A w \in request[r].waits : Active(w[1], w[2])
  /\ \A w \in pass.waits : Active(w[1], w[2])

IInv == TypeOK /\ LockNamesRuns /\ NoLostWakeup

(* What a trigger was told and what the tables say agree once the source is   *)
(* at rest: an ok answer left "success" stamped by it, an error left "error", *)
(* and "pending" survives only a run that could not even record its failure.  *)
(* A disconnect may have deleted the row, a clear rewritten it.               *)
StateMatchesAnswer ==
  \A k \in Keys :
    AtRest(k) /\ ~voided[k] /\ state[k].status # "absent" =>
      CASE answer[k] = "ok"    -> state[k] = [status |-> "success", stamp |-> "ok"]
        [] answer[k] = "error" -> state[k].status = "error"
        [] answer[k] = "none"  -> FALSE
        [] OTHER               -> TRUE

(* Behind StateMatchesAnswer: nothing touches the row between the connector's  *)
(* "success" and the end of the run.                                          *)
RowStaysStamped ==
  \A k \in Keys, s \in Slots :
    run[k][s].pc \in {"saveCursor", "clusters", "milestones"} /\ ~voided[k] =>
      state[k] \in {NoState, [status |-> "success", stamp |-> "ok"]}

(* Disconnecting removes the credentials and the sync state (sources.ts:200): *)
(* they stay removed until a new run is asked for.                            *)
DisconnectRemovesState == \A k \in Keys : gone[k] => state[k].status = "absent"

(* A day recorded as reconciled had each scheduled source pulled from the     *)
(* beginning on that day or later, also when the pass runs past midnight      *)
(* (scheduler.ts:173-188). Only the scheduler's own work is judged: a pass    *)
(* that joins a manual incremental run, or whose target list fails, is        *)
(* recorded all the same.                                                     *)
OnlyScheduled ==
  /\ faults = 0
  /\ \A r \in Requests : request[r].pc = "new"
  /\ \A o \in Ops : op[o].pc = "new"
NightlyReconciles ==
  [][(lastNightly' \notin {lastNightly, 0} /\ OnlyScheduled)
       => \A k \in Scheduled : reconciled[k] >= lastNightly']_vars

(* Behind NightlyReconciles: the scheduler's runs are those its pass awaits.   *)
NightInv ==
  /\ pass.pc # "idle" => pass.day <= day
  /\ OnlyScheduled =>
       /\ \A k \in Keys, s \in Slots :
            Active(k, s) => pass.pc = "pulling" /\ <<k, s>> \in pass.waits
       /\ pass.pc = "pulling" /\ pass.full => \A k \in Scheduled : reconciled[k] >= pass.day

(* Every trigger is answered, unless the process dies under it.               *)
RequestsSettle ==
  \A r \in Requests : request[r].pc = "waiting" ~> request[r].pc \in {"answered", "failed", "lost"}

(* The scheduler's guard against overlapping passes never wedges it.          *)
PassesEnd == pass.pc # "idle" ~> pass.pc = "idle"

(* "pending" left by a crash or by a failure to record one does not stay: a   *)
(* later tick pulls the source again, as long as it is connected and active.  *)
PendingResolves ==
  \A k \in Keys : state[k].status = "pending" ~>
                   (state[k].status # "pending" \/ sources[k] # "active")

(* Together: requests, passes and pending sources all come to an end           *)
(* (lock.ts:15-33, scheduler.ts:173-204).                                      *)
EverythingSettles == RequestsSettle /\ PassesEnd /\ PendingResolves
=============================================================================
