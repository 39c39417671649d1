--------------------------- MODULE SourceSyncProofs ---------------------------
(* The coalesce lock of SourceSync, for any number of sources, requests,      *)
(* lifecycle calls, failures and restarts: IInv is inductive, so one run at a *)
(* time per source, and nobody waits on a run that has settled.  And what a   *)
(* good run ends with, the milestones it stores (Milestones).                 *)
EXTENDS SourceSync, Milestones, TLAPS

(* TypeOK in two parts: what the lock and its callers hold, and the tables.   *)
TypeLock ==
  /\ run \in [Keys -> [Slots -> Run]] /\ inflight \in [Keys -> Slots \cup {NoSlot}]
  /\ request \in [Requests -> Request] /\ pass \in Pass
  /\ lastNightly \in 0..MaxDay /\ day \in 1..MaxDay
  /\ answer \in [Keys -> {"none", "ok", "error", "rejected"}]
  /\ reconciled \in [Keys -> 0..MaxDay] /\ gone \in [Keys -> BOOLEAN]
  /\ voided \in [Keys -> BOOLEAN]

TypeTables ==
  /\ sources \in [Keys -> SourceRows] /\ state \in [Keys -> StateRow]
  /\ audit \subseteq Requests \cup Ops /\ op \in [Ops -> Op]
  /\ faults \in 0..MaxFaults /\ crashes \in 0..MaxCrashes

LockInv == TypeLock /\ LockNamesRuns /\ NoLostWakeup

(* The invariant is those two parts.                                          *)
LEMMA Parts == IInv <=> LockInv /\ TypeTables
  BY DEF IInv, LockInv, TypeOK, TypeLock, TypeTables

(* A run that moves to another of its steps keeps the lock as it is.          *)
LEMMA GotoKeepsLock ==
  ASSUME LockInv, NEW k \in Keys, NEW s \in Slots, NEW pc \in RunPcs \ {"idle"},
         run[k][s].pc # "idle", Goto(k, s, pc), day' = day
  PROVE  LockInv'
<1>1. /\ run' \in [Keys -> [Slots -> Run]]
      /\ \A j \in Keys, t \in Slots : Active(j, t)' <=> Active(j, t)
  <2>1. run[k] \in [Slots -> Run] /\ run[k][s] \in Run
    BY DEF LockInv, TypeLock
  <2>2. [run[k][s] EXCEPT !.pc = pc] \in Run
    BY <2>1 DEF Run
  <2>3. run' = [run EXCEPT ![k] = [run[k] EXCEPT ![s] = [run[k][s] EXCEPT !.pc = pc]]]
    BY DEF Goto
  <2>4. run' \in [Keys -> [Slots -> Run]]
    BY <2>1, <2>2, <2>3 DEF LockInv, TypeLock
  <2>5. ASSUME NEW j \in Keys, NEW t \in Slots
        PROVE  Active(j, t)' <=> Active(j, t)
    <3>1. CASE j = k /\ t = s
      BY <2>1, <2>3, <3>1 DEF LockInv, TypeLock, Active, Run
    <3>2. CASE ~(j = k /\ t = s)
      BY <2>3, <3>2 DEF LockInv, TypeLock, Active
    <3> QED BY <3>1, <3>2
  <2> QED BY <2>4, <2>5
<1>2. TypeLock'
  BY <1>1 DEF LockInv, TypeLock, Goto, sched, history
<1>3. LockNamesRuns'
  BY <1>1 DEF LockInv, LockNamesRuns, Goto
<1>4. NoLostWakeup'
  BY <1>1 DEF LockInv, NoLostWakeup, TypeLock, Request, Pass, Goto, sched
<1> QED BY <1>2, <1>3, <1>4 DEF LockInv

(* A run that settles frees its source and wakes all its waiters.             *)
LEMMA SettleKeepsLock ==
  ASSUME LockInv, NEW k \in Keys, NEW s \in Slots, NEW how \in {"ok", "error", "rejected"},
         run[k][s].pc # "idle", Settle(k, s, how), day' = day
  PROVE  LockInv'
<1>1. run' \in [Keys -> [Slots -> Run]]
  BY DEF LockInv, TypeLock, Settle, IdleRun, Run, RunPcs, Stamps
<1>2. \A j \in Keys, t \in Slots :
        Active(j, t)' <=> Active(j, t) /\ ~(j = k /\ t = s)
  BY DEF LockInv, TypeLock, Settle, IdleRun, Run, Active
<1>3. inflight[k] = s
  BY DEF LockInv, LockNamesRuns, Active
<1>4. inflight' = [inflight EXCEPT ![k] = NoSlot]
  BY <1>3 DEF Settle, Release, LockInv, TypeLock
<1>5. request' \in [Requests -> Request]
  <2>1. SUFFICES ASSUME NEW r \in Requests
                 PROVE  (IF how = "rejected" /\ <<k, s>> \in request[r].waits
                           THEN [pc |-> "failed", waits |-> {}]
                           ELSE Without(request[r], <<k, s>>)) \in Request
    BY DEF Settle, Notify
  <2>2. request[r] \in Request
    BY DEF LockInv, TypeLock
  <2> QED BY <2>2 DEF Request, Without
<1>6. \A r \in Requests : request'[r].waits \subseteq request[r].waits \ {<<k, s>>}
  <2>1. TAKE r \in Requests
  <2>2. request[r] \in Request
    BY DEF LockInv, TypeLock
  <2> QED BY <2>2 DEF Settle, Notify, Request, Without
<1>7. pass' \in Pass /\ pass'.waits = pass.waits \ {<<k, s>>}
  BY DEF LockInv, TypeLock, Settle, Pass, Without
<1>8. TypeLock'
  BY <1>1, <1>4, <1>5, <1>7 DEF LockInv, TypeLock, Settle
<1>9. LockNamesRuns'
  <2>1. ASSUME NEW j \in Keys, NEW t \in Slots
        PROVE  Active(j, t)' <=> inflight'[j] = t
    <3>1. Active(j, t) <=> inflight[j] = t
      BY DEF LockInv, LockNamesRuns
    <3>2. inflight'[j] = IF j = k THEN NoSlot ELSE inflight[j]
      BY <1>4 DEF LockInv, TypeLock
    <3> QED BY <1>2, <1>3, <3>1, <3>2, KeysAssumption
  <2> QED BY <2>1 DEF LockNamesRuns
<1>10. NoLostWakeup'
  <2>1. ASSUME NEW w \in Keys \X Slots, w # <<k, s>>, Active(w[1], w[2])
        PROVE  Active(w[1], w[2])'
    BY <2>1, <1>2
  <2>2. \A r \in Requests : request[r].waits \subseteq Keys \X Slots
    BY DEF LockInv, TypeLock, Request
  <2>3. pass.waits \subseteq Keys \X Slots
    BY DEF LockInv, TypeLock, Pass
  <2> QED BY <1>6, <1>7, <2>1, <2>2, <2>3 DEF LockInv, NoLostWakeup
<1> QED BY <1>8, <1>9, <1>10 DEF LockInv

(* Triggers start runs only for free sources, each in a slot of its own, and  *)
(* whatever they await is then in progress.                                   *)
LEMMA StartKeepsLock ==
  ASSUME LockInv, NEW ks \in SUBSET Keys, NEW full \in BOOLEAN, StartOrJoin(ks, full)
  PROVE  /\ run' \in [Keys -> [Slots -> Run]] /\ inflight' \in [Keys -> Slots \cup {NoSlot}]
         /\ reconciled' \in [Keys -> 0..MaxDay] /\ gone' \in [Keys -> BOOLEAN]
         /\ voided' \in [Keys -> BOOLEAN]
         /\ LockNamesRuns'
         /\ \A j \in Keys, t \in Slots : Active(j, t) => Active(j, t)'
         /\ Awaited(ks) \subseteq Keys \X Slots
         /\ \A w \in Awaited(ks) : Active(w[1], w[2])'
<1> DEFINE fresh == [pc |-> "readState", full |-> full, stamp |-> "none"]
<1>1. fresh \in Run
  BY DEF Run, RunPcs, Stamps
<1>2. ASSUME NEW j \in Unowned(ks)
      PROVE  FreeSlot(j) \in Slots /\ run[j][FreeSlot(j)].pc = "idle"
  <2>1. \E t \in Slots : run[j][t].pc = "idle"
    BY DEF StartOrJoin
  <2> QED BY <2>1 DEF FreeSlot
<1>3. run' = [j \in Keys |-> IF j \in Unowned(ks)
                THEN [run[j] EXCEPT ![FreeSlot(j)] = fresh] ELSE run[j]]
  BY DEF StartOrJoin
<1>4. inflight' = [j \in Keys |-> IF j \in Unowned(ks) THEN FreeSlot(j) ELSE inflight[j]]
  BY DEF StartOrJoin
<1>5. ASSUME NEW j \in Keys
      PROVE  run[j] \in [Slots -> Run] /\ inflight[j] \in Slots \cup {NoSlot}
  BY DEF LockInv, TypeLock
<1>6. run' \in [Keys -> [Slots -> Run]]
  <2>1. ASSUME NEW j \in Keys PROVE run'[j] \in [Slots -> Run]
    BY <1>1, <1>2, <1>3, <1>5
  <2> QED BY <2>1, <1>3
<1>7. inflight' \in [Keys -> Slots \cup {NoSlot}]
  BY <1>2, <1>4, <1>5
<1>8. reconciled' \in [Keys -> 0..MaxDay] /\ gone' \in [Keys -> BOOLEAN] /\ voided' \in [Keys -> BOOLEAN]
  <2>1. day \in 0..MaxDay
    BY KeysAssumption DEF LockInv, TypeLock
  <2>2. reconciled' \in [Keys -> 0..MaxDay]
    BY <2>1 DEF LockInv, TypeLock, StartOrJoin
  <2>3. gone' \in [Keys -> BOOLEAN] /\ voided' \in [Keys -> BOOLEAN]
    BY DEF StartOrJoin
  <2> QED BY <2>2, <2>3
<1> HIDE DEF fresh
<1>9. ASSUME NEW j \in Keys, NEW t \in Slots
      PROVE  /\ Active(j, t)' <=> inflight'[j] = t
             /\ Active(j, t) => Active(j, t)'
  <2>1. Active(j, t) <=> inflight[j] = t
    BY DEF LockInv, LockNamesRuns
  <2>2. CASE j \notin Unowned(ks)
    BY <2>1, <2>2, <1>3, <1>4 DEF Active
  <2>3. CASE j \in Unowned(ks)
    <3>1. inflight[j] = NoSlot /\ inflight'[j] = FreeSlot(j)
      BY <2>3, <1>4 DEF Unowned
    <3>2. ~Active(j, t)
      BY <3>1, <2>1, KeysAssumption
    <3>3. run'[j][t] = IF t = FreeSlot(j) THEN fresh ELSE run[j][t]
      BY <2>3, <1>3, <1>5
    <3>4. fresh.pc # "idle"
      BY DEF fresh
    <3> QED BY <3>1, <3>2, <3>3, <3>4 DEF Active
  <2> QED BY <2>2, <2>3
<1>10. LockNamesRuns'
  BY <1>9 DEF LockNamesRuns
<1>11. ASSUME NEW j \in ks PROVE inflight'[j] \in Slots
  BY <1>2, <1>4, <1>5 DEF Unowned
<1>12. Awaited(ks) \subseteq Keys \X Slots
  BY <1>11 DEF Awaited
<1>13. \A w \in Awaited(ks) : Active(w[1], w[2])'
  <2>1. TAKE w \in Awaited(ks)
  <2>2. PICK j \in ks : w = <<j, inflight'[j]>>
    BY DEF Awaited
  <2>3. PICK t \in Slots : t = inflight'[j]
    BY <1>11
  <2>4. Active(j, t)'
    BY <1>9, <2>3
  <2> QED BY <2>2, <2>3, <2>4
<1> QED BY <1>6, <1>7, <1>8, <1>9, <1>10, <1>12, <1>13

-----------------------------------------------------------------------------
(* Every step keeps the lock's part.                                          *)
LEMMA RunStepKeepsLock ==
  ASSUME IInv, NEW k \in Keys, NEW s \in Slots, RunStep(k, s) \/ RunFault(k, s)
  PROVE  LockInv'
<1>1. LockInv
  BY Parts
<1>2. \A pc \in RunPcs \ {"idle"} :
        run[k][s].pc # "idle" /\ Goto(k, s, pc) /\ day' = day => LockInv'
  BY <1>1, GotoKeepsLock
<1>3. \A how \in {"ok", "error", "rejected"} :
        run[k][s].pc # "idle" /\ Settle(k, s, how) /\ day' = day => LockInv'
  BY <1>1, SettleKeepsLock
<1>4. CASE ReadState(k, s)
  <2>1. state[k].stamp \in Stamps
    BY Parts DEF TypeTables, StateRow
  <2>2. run[k] \in [Slots -> Run] /\ run[k][s] \in Run
    BY <1>1 DEF LockInv, TypeLock
  <2> DEFINE new == [[run[k][s] EXCEPT !.pc = "markPending"] EXCEPT !.stamp = state[k].stamp]
  <2>3. new \in Run /\ new.pc # "idle" /\ run[k][s].pc # "idle"
    BY <1>4, <2>1, <2>2 DEF Run, RunPcs, ReadState, At
  <2>4. run' = [run EXCEPT ![k] = [run[k] EXCEPT ![s] = new]]
    BY <1>1, <1>4, <2>2 DEF ReadState, LockInv, TypeLock
  <2> HIDE DEF new
  <2>5. run' \in [Keys -> [Slots -> Run]]
    BY <1>1, <2>2, <2>3, <2>4 DEF LockInv, TypeLock
  <2>6. \A j \in Keys, t \in Slots : Active(j, t)' <=> Active(j, t)
    <3>1. TAKE j \in Keys, t \in Slots
    <3>2. CASE j = k /\ t = s
      BY <1>1, <2>2, <2>3, <2>4, <3>2 DEF Active, LockInv, TypeLock
    <3>3. CASE ~(j = k /\ t = s)
      BY <1>1, <2>4, <3>3 DEF Active, LockInv, TypeLock
    <3> QED BY <3>2, <3>3
  <2>7. UNCHANGED <<inflight, request, pass, lastNightly, day, answer, reconciled, gone, voided>>
    BY <1>4 DEF ReadState, At, sched, history
  <2>8. TypeLock'
    BY <1>1, <2>5, <2>7 DEF LockInv, TypeLock
  <2>9. LockNamesRuns'
    BY <1>1, <2>6, <2>7 DEF LockInv, LockNamesRuns
  <2>10. NoLostWakeup'
    BY <1>1, <2>6, <2>7 DEF LockInv, NoLostWakeup, TypeLock, Request, Pass
  <2> QED BY <2>8, <2>9, <2>10 DEF LockInv
<1>5. CASE MarkPending(k, s) \/ LoadConfig(k, s) \/ LoadCursor(k, s)
  BY <1>2, <1>5 DEF MarkPending, LoadConfig, LoadCursor, At, RunPcs
<1>6. CASE PullEnds(k, s) \/ PullFails(k, s) \/ StampOk(k, s) \/ StampThrow(k, s)
  BY <1>2, <1>6 DEF PullEnds, PullFails, StampOk, StampThrow, At, RunPcs
<1>7. CASE SaveCursor(k, s) \/ RefreshClusters(k, s)
  BY <1>2, <1>7 DEF SaveCursor, RefreshClusters, At, RunPcs
<1>8. CASE StampFailed(k, s) \/ PersistMilestones(k, s) \/ MarkError(k, s)
  BY <1>3, <1>8 DEF StampFailed, PersistMilestones, MarkError, At
<1>9. CASE RunFault(k, s)
  <2>1. run[k][s].pc \in RunPcs \ {"idle"}
    BY <1>1, <1>9 DEF RunFault, LockInv, TypeLock, Run
  <2>2. Catch[run[k][s].pc] \in (RunPcs \ {"idle"}) \cup {"rejected"}
    BY <2>1 DEF Catch, RunPcs
  <2> QED BY <1>2, <1>3, <1>9, <2>2 DEF RunFault
<1> QED BY <1>4, <1>5, <1>6, <1>7, <1>8, <1>9 DEF RunStep

LEMMA RequestKeepsLock ==
  ASSUME LockInv, NEW r \in Requests, RequestSync(r) \/ RequestAnswers(r)
  PROVE  LockInv'
<1>1. CASE RequestSync(r)
  <2>1. PICK ks \in {{k} : k \in Keys} \cup {Keys} :
          /\ StartOrJoin(ks, FALSE)
          /\ request' = [request EXCEPT ![r] = [pc |-> "waiting", waits |-> Awaited(ks)]]
    BY <1>1 DEF RequestSync
  <2>2. ks \in SUBSET Keys
    OBVIOUS
  <2> DEFINE Started ==
         /\ run' \in [Keys -> [Slots -> Run]] /\ inflight' \in [Keys -> Slots \cup {NoSlot}]
         /\ reconciled' \in [Keys -> 0..MaxDay] /\ gone' \in [Keys -> BOOLEAN]
         /\ voided' \in [Keys -> BOOLEAN]
         /\ LockNamesRuns'
         /\ \A j \in Keys, t \in Slots : Active(j, t) => Active(j, t)'
         /\ Awaited(ks) \subseteq Keys \X Slots
         /\ \A w \in Awaited(ks) : Active(w[1], w[2])'
  <2>3. Started
    BY <2>1, <2>2, StartKeepsLock
  <2>4. request' \in [Requests -> Request]
    BY <2>1, <2>3 DEF LockInv, TypeLock, Request
  <2>5. \A q \in Requests : \A w \in request'[q].waits :
          w \in request[q].waits \/ w \in Awaited(ks)
    BY <2>1 DEF LockInv, TypeLock
  <2>6. UNCHANGED <<pass, lastNightly, day, answer>>
    BY <1>1 DEF RequestSync, sched
  <2>7. TypeLock'
    BY <2>3, <2>4, <2>6 DEF LockInv, TypeLock
  <2>8. NoLostWakeup'
    <3>1. \A q \in Requests : request[q].waits \subseteq Keys \X Slots
      BY DEF LockInv, TypeLock, Request
    <3>2. pass.waits \subseteq Keys \X Slots
      BY DEF LockInv, TypeLock, Pass
    <3> QED BY <2>3, <2>5, <2>6, <3>1, <3>2 DEF LockInv, NoLostWakeup
  <2> QED BY <2>3, <2>7, <2>8 DEF LockInv
<1>2. CASE RequestAnswers(r)
  <2>1. UNCHANGED <<run, inflight, pass, lastNightly, day, answer, reconciled, gone, voided>>
    BY <1>2 DEF RequestAnswers, sched, history
  <2>2. request' \in [Requests -> Request] /\ \A q \in Requests : request'[q].waits = request[q].waits
    BY SMTT(60), <1>2 DEF RequestAnswers, LockInv, TypeLock, Request
  <2>3. TypeLock'
    BY <2>1, <2>2 DEF LockInv, TypeLock
  <2>4. LockNamesRuns' /\ NoLostWakeup'
    BY <2>1, <2>2 DEF LockInv, LockNamesRuns, NoLostWakeup, Active
  <2> QED BY <2>3, <2>4 DEF LockInv
<1> QED BY <1>1, <1>2

LEMMA SchedulerKeepsLock ==
  ASSUME LockInv, Tick \/ ListTargets \/ ListFault \/ PassEnds \/ NextDay
  PROVE  LockInv'
<1>1. CASE ListTargets
  <2>1. StartOrJoin(Scheduled, pass.full) /\ UNCHANGED <<request, lastNightly, day, answer>>
    BY <1>1 DEF ListTargets
  <2>2. Scheduled \in SUBSET Keys /\ pass.full \in BOOLEAN
    BY DEF Scheduled, LockInv, TypeLock, Pass
  <2> DEFINE Started ==
         /\ run' \in [Keys -> [Slots -> Run]] /\ inflight' \in [Keys -> Slots \cup {NoSlot}]
         /\ reconciled' \in [Keys -> 0..MaxDay] /\ gone' \in [Keys -> BOOLEAN]
         /\ voided' \in [Keys -> BOOLEAN]
         /\ LockNamesRuns'
         /\ \A j \in Keys, t \in Slots : Active(j, t) => Active(j, t)'
         /\ Awaited(Scheduled) \subseteq Keys \X Slots
         /\ \A w \in Awaited(Scheduled) : Active(w[1], w[2])'
  <2>3. Started
    BY <2>1, <2>2, StartKeepsLock
  <2>4. pass' \in Pass /\ pass'.waits = Awaited(Scheduled)
    BY <1>1, <2>3 DEF ListTargets, LockInv, TypeLock, Pass
  <2>5. TypeLock'
    BY <2>1, <2>3, <2>4 DEF LockInv, TypeLock
  <2>6. \A q \in Requests : request[q].waits \subseteq Keys \X Slots
    BY DEF LockInv, TypeLock, Request
  <2>7. NoLostWakeup'
    BY <2>1, <2>3, <2>4, <2>6 DEF LockInv, NoLostWakeup
  <2> QED BY <2>3, <2>5, <2>7 DEF LockInv
<1>2. CASE Tick \/ ListFault \/ PassEnds \/ NextDay
  <2>1. UNCHANGED <<run, inflight, request, answer, reconciled, gone, voided>>
    BY <1>2 DEF Tick, ListFault, PassEnds, NextDay, history
  <2>2. /\ pass' \in Pass /\ pass'.waits \subseteq pass.waits
        /\ lastNightly' \in 0..MaxDay /\ day' \in 1..MaxDay
    <3>1. pass \in Pass /\ lastNightly \in 0..MaxDay /\ day \in 1..MaxDay
      BY DEF LockInv, TypeLock
    <3>2. CASE Tick
      BY <3>1, <3>2, KeysAssumption DEF Tick, Pass
    <3>3. CASE ListFault
      BY <3>1, <3>3 DEF ListFault, Pass
    <3>4. CASE PassEnds
      BY <3>1, <3>4, KeysAssumption DEF PassEnds, Pass, IdlePass
    <3>5. CASE NextDay
      BY <3>1, <3>5, KeysAssumption DEF NextDay, sched
    <3> QED BY <1>2, <3>2, <3>3, <3>4, <3>5
  <2>3. TypeLock'
    BY <2>1, <2>2 DEF LockInv, TypeLock
  <2>4. LockNamesRuns' /\ NoLostWakeup'
    BY <2>1, <2>2 DEF LockInv, LockNamesRuns, NoLostWakeup, Active
  <2> QED BY <2>3, <2>4 DEF LockInv
<1> QED BY <1>1, <1>2

LEMMA OpKeepsLock ==
  ASSUME LockInv, NEW o \in Ops, OpStep(o) \/ OpFault(o)
  PROVE  LockInv'
<1>1. UNCHANGED <<run, inflight, request, pass, lastNightly, day, answer, reconciled>>
  BY SMTT(60) DEF OpStep, OpFault, OpBegins, OpReadsSource, OpReadsState, OpClearsNothing,
         OpWritesSource, OpWritesState, OpAudits, OpAt, sched
<1>2. gone' \in [Keys -> BOOLEAN] /\ voided' \in [Keys -> BOOLEAN]
  BY DEF OpStep, OpFault, OpBegins, OpReadsSource, OpReadsState, OpClearsNothing,
         OpWritesSource, OpWritesState, OpAudits, LockInv, TypeLock
<1>3. TypeLock' /\ LockNamesRuns' /\ NoLostWakeup'
  BY <1>1, <1>2 DEF LockInv, TypeLock, LockNamesRuns, NoLostWakeup, Active
<1> QED BY SMTT(60), <1>3 DEF LockInv

LEMMA CrashKeepsLock ==
  ASSUME LockInv, Crash
  PROVE  LockInv'
<1>1. IdleRun \in Run /\ IdleRun.pc = "idle"
  BY DEF IdleRun, Run, RunPcs, Stamps
<1>2. run' \in [Keys -> [Slots -> Run]] /\ inflight' \in [Keys -> Slots \cup {NoSlot}]
  BY <1>1 DEF Crash
<1>3. request' \in [Requests -> Request] /\ \A r \in Requests : request'[r].waits = {}
  BY DEF Crash, LockInv, TypeLock, Request
<1>4. pass' \in Pass /\ lastNightly' \in 0..MaxDay
  BY KeysAssumption DEF Crash, Pass, IdlePass
<1>5. UNCHANGED <<day, answer, reconciled, gone>> /\ voided' \in [Keys -> BOOLEAN]
  BY DEF Crash, LockInv, TypeLock
<1>6. TypeLock'
  BY <1>2, <1>3, <1>4, <1>5 DEF LockInv, TypeLock
<1>7. LockNamesRuns'
  BY <1>1, KeysAssumption DEF Crash, LockNamesRuns, Active
<1>8. NoLostWakeup'
  BY <1>3 DEF Crash, IdlePass, NoLostWakeup
<1> QED BY <1>6, <1>7, <1>8 DEF LockInv

-----------------------------------------------------------------------------
(* Every step keeps the tables well typed.                                    *)
LEMMA StepKeepsTables ==
  ASSUME IInv, Next
  PROVE  TypeTables'
<1>1. TypeTables /\ LockInv
  BY Parts
<1>2. ASSUME NEW k \in Keys, NEW s \in Slots, RunStep(k, s) \/ RunFault(k, s)
      PROVE  TypeTables'
  <2>1. UNCHANGED <<sources, audit, op, crashes>> /\ faults' \in 0..MaxFaults
    BY <1>1, <1>2, KeysAssumption
    DEF RunStep, RunFault, ReadState, MarkPending, LoadConfig, LoadCursor, PullEnds, PullFails,
        StampOk, StampFailed, StampThrow, SaveCursor, RefreshClusters, PersistMilestones,
        MarkError, At, TypeTables, db, bounds
  <2>2. run[k][s].stamp \in Stamps
    BY <1>1 DEF LockInv, TypeLock, Run
  <2>3. \/ UNCHANGED state
        \/ \E status \in Statuses, stamp \in Stamps : Stamp(k, status, stamp)
    BY <1>2, <2>2
    DEF RunStep, RunFault, ReadState, MarkPending, LoadConfig, LoadCursor, PullEnds, PullFails,
        StampOk, StampFailed, StampThrow, SaveCursor, RefreshClusters, PersistMilestones,
        MarkError, NoWrite, Statuses, Stamps, db
  <2>4. state' \in [Keys -> StateRow]
    BY <1>1, <2>3 DEF Stamp, TypeTables, StateRow
  <2> QED BY <1>1, <2>1, <2>4 DEF TypeTables
<1>3. ASSUME NEW r \in Requests, RequestSync(r) \/ RequestAnswers(r)
      PROVE  TypeTables'
  BY <1>1, <1>3 DEF RequestSync, RequestAnswers, TypeTables, db, bounds
<1>4. CASE Tick \/ ListTargets \/ ListFault \/ PassEnds \/ NextDay
  BY <1>1, <1>4, KeysAssumption
  DEF Tick, ListTargets, ListFault, PassEnds, NextDay, TypeTables, db, bounds
<1>5. ASSUME NEW o \in Ops, OpStep(o) \/ OpFault(o)
      PROVE  TypeTables'
  <2>1. op[o] \in Op /\ sources[op[o].key] \in SourceRows /\ state[op[o].key] \in StateRow
    BY <1>1 DEF TypeTables, Op
  <2>2. sources' \in [Keys -> SourceRows]
    BY <1>1, <1>5, <2>1
    DEF OpStep, OpFault, OpBegins, OpReadsSource, OpReadsState, OpClearsNothing,
        OpWritesSource, OpWritesState, OpAudits, TypeTables, SourceRows
  <2>3. state' \in [Keys -> StateRow]
    <3>1. CASE OpWritesState(o)
      <4>1. NoState \in StateRow
        BY DEF NoState, StateRow, Statuses, Stamps
      <4>2. \A c \in {"success", "pending"} : [state[op[o].key] EXCEPT !.status = c] \in StateRow
        BY <2>1 DEF StateRow, Statuses
      <4> QED BY <1>1, <3>1, <4>1, <4>2 DEF OpWritesState, TypeTables
    <3>2. CASE ~OpWritesState(o)
      BY <1>1, <1>5, <3>2
      DEF OpStep, OpFault, OpBegins, OpReadsSource, OpReadsState, OpClearsNothing,
          OpWritesSource, OpAudits, TypeTables
    <3> QED BY <3>1, <3>2
  <2>4. op' \in [Ops -> Op]
    <3>1. CASE OpReadsSource(o)
      BY <1>1, <2>1, <3>1 DEF OpReadsSource, TypeTables, Op
    <3>2. CASE OpReadsState(o)
      BY <1>1, <2>1, <3>2 DEF OpReadsState, TypeTables, Op
    <3>3. CASE OpFault(o) \/ OpBegins(o) \/ OpClearsNothing(o) \/ OpWritesSource(o)
               \/ OpWritesState(o) \/ OpAudits(o)
      BY <1>1, <2>1, <3>3
      DEF OpFault, OpBegins, OpClearsNothing, OpWritesSource, OpWritesState, OpAudits, OpGoto,
          TypeTables, Op
    <3> QED BY SMTT(60), <1>5, <3>1, <3>2, <3>3 DEF OpStep
  <2>5. audit' \subseteq Requests \cup Ops
    BY <1>1, <1>5
    DEF OpStep, OpFault, OpBegins, OpReadsSource, OpReadsState, OpClearsNothing,
        OpWritesSource, OpWritesState, OpAudits, TypeTables
  <2>6. faults' \in 0..MaxFaults /\ crashes' \in 0..MaxCrashes
    BY <1>1, <1>5, KeysAssumption
    DEF OpStep, OpFault, OpBegins, OpReadsSource, OpReadsState, OpClearsNothing,
        OpWritesSource, OpWritesState, OpAudits, TypeTables, bounds
  <2> QED BY <2>2, <2>3, <2>4, <2>5, <2>6 DEF TypeTables
<1>6. CASE Crash
  <2>1. op' \in [Ops -> Op]
    BY SMTT(60), <1>1, <1>6 DEF Crash, TypeTables, Op
  <2>2. UNCHANGED <<sources, state, audit, faults>> /\ crashes' \in 0..MaxCrashes
    BY <1>1, <1>6, KeysAssumption DEF Crash, TypeTables, db
  <2> QED BY <1>1, <2>1, <2>2 DEF TypeTables
<1> QED BY <1>2, <1>3, <1>4, <1>5, <1>6 DEF Next

(* The lock's invariant holds in every behaviour.                             *)
THEOREM Inductive == Spec => []IInv
<1>1. Init => IInv
  <2> SUFFICES ASSUME Init PROVE IInv
    OBVIOUS
  <2>1. IdleRun \in Run /\ IdleRun.pc = "idle" /\ NoState \in StateRow /\ IdlePass \in Pass
    BY KeysAssumption DEF IdleRun, Run, RunPcs, Stamps, NoState, StateRow, Statuses, IdlePass, Pass
  <2>2. op \in [Ops -> Op]
    BY <2>1, KeysAssumption DEF Init, Op, SourceRows
  <2>3. TypeTables
    BY <2>1, <2>2, KeysAssumption DEF Init, TypeTables, SourceRows
  <2>4. TypeLock
    BY <2>1, KeysAssumption DEF Init, TypeLock, Request
  <2>5. LockNamesRuns /\ NoLostWakeup
    BY <2>1, KeysAssumption DEF Init, LockNamesRuns, NoLostWakeup, Active, IdlePass
  <2> QED BY <2>3, <2>4, <2>5, Parts DEF LockInv
<1>2. IInv /\ [Next]_vars => IInv'
  <2> SUFFICES ASSUME IInv, [Next]_vars PROVE IInv'
    OBVIOUS
  <2>1. CASE Next
    <3>1. LockInv
      BY Parts
    <3>2. LockInv'
      BY <2>1, <3>1, RunStepKeepsLock, RequestKeepsLock, SchedulerKeepsLock, OpKeepsLock,
         CrashKeepsLock DEF Next
    <3>3. TypeTables'
      BY <2>1, StepKeepsTables
    <3> QED BY <3>2, <3>3 DEF IInv, LockInv, TypeOK, TypeLock, TypeTables
  <2>2. CASE UNCHANGED vars
    BY <2>2 DEF vars, db, sched, bounds, history, IInv, TypeOK, LockNamesRuns, NoLostWakeup, Active
  <2> QED BY <2>1, <2>2
<1> QED BY <1>1, <1>2, PTL DEF Spec

(* However triggers, failures and restarts interleave, one run per source.    *)
THEOREM MutualExclusion == Spec => []OneRunPerSource
<1>1. IInv => OneRunPerSource
  BY DEF IInv, LockNamesRuns, OneRunPerSource
<1> QED BY <1>1, Inductive, PTL

(* No caller of sync() awaits a run that has ended.                           *)
THEOREM NobodyIsForgotten == Spec => []NoLostWakeup
<1>1. IInv => NoLostWakeup
  BY DEF IInv
<1> QED BY <1>1, Inductive, PTL

-----------------------------------------------------------------------------
(* The row of a source at rest and the answer of its last run.                *)
MatchInv == StateMatchesAnswer /\ RowStaysStamped
Stamped  == {NoState, [status |-> "success", stamp |-> "ok"]}
Late     == {"saveCursor", "clusters", "milestones"}

(* One run's step, whatever it writes to its own source's row.                *)
LEMMA MoveKeepsMatch ==
  ASSUME IInv, MatchInv, NEW k \in Keys, NEW s \in Slots, NEW new \in Run,
         run[k][s].pc # "idle", new.pc # "idle",
         run' = [run EXCEPT ![k][s] = new], UNCHANGED <<answer, voided>>,
         \A j \in Keys \ {k} : state'[j] = state[j],
         new.pc \in Late /\ ~voided[k] => state'[k] \in Stamped
  PROVE  MatchInv'
<1>1. run \in [Keys -> [Slots -> Run]]
  BY DEF IInv, TypeOK
<1>2. \A j \in Keys, t \in Slots : run'[j][t] = IF j = k /\ t = s THEN new ELSE run[j][t]
  BY <1>1
<1>3. \A t \in Slots \ {s} : run[k][t].pc = "idle"
  BY DEF IInv, LockNamesRuns, Active
<1>4. RowStaysStamped'
  <2> SUFFICES ASSUME NEW j \in Keys, NEW t \in Slots, run'[j][t].pc \in Late, ~voided[j]
               PROVE  state'[j] \in Stamped
    BY DEF RowStaysStamped, Stamped, Late
  <2>1. CASE j = k
    BY <1>2, <1>3, <2>1 DEF Late
  <2>2. CASE j # k
    BY <1>2, <2>2 DEF MatchInv, RowStaysStamped, Late, Stamped
  <2> QED BY <2>1, <2>2
<1>5. StateMatchesAnswer'
  <2>1. ~AtRest(k)'
    BY <1>2 DEF AtRest, Active
  <2>2. \A j \in Keys \ {k} : AtRest(j)' <=> AtRest(j)
    BY <1>2 DEF AtRest, Active
  <2> QED BY <2>1, <2>2 DEF MatchInv, StateMatchesAnswer
<1> QED BY <1>4, <1>5 DEF MatchInv

LEMMA SettleKeepsMatch ==
  ASSUME IInv, MatchInv, NEW k \in Keys, NEW s \in Slots, NEW how \in {"ok", "error", "rejected"},
         run[k][s].pc # "idle", Settle(k, s, how), \A j \in Keys \ {k} : state'[j] = state[j],
         how = "ok" /\ ~voided[k] => state'[k] \in Stamped,
         how = "error" => state'[k].status = "error"
  PROVE  MatchInv'
<1>1. run \in [Keys -> [Slots -> Run]] /\ answer \in [Keys -> {"none", "ok", "error", "rejected"}]
  BY DEF IInv, TypeOK
<1>2. \A j \in Keys, t \in Slots : run'[j][t] = IF j = k /\ t = s THEN IdleRun ELSE run[j][t]
  BY <1>1 DEF Settle
<1>3. answer' = [answer EXCEPT ![k] = how] /\ voided' = voided
  BY DEF Settle
<1>4. RowStaysStamped'
  <2> SUFFICES ASSUME NEW j \in Keys, NEW t \in Slots, run'[j][t].pc \in Late, ~voided[j]
               PROVE  state'[j] \in Stamped
    BY <1>3 DEF RowStaysStamped, Stamped, Late
  <2>1. run'[j][t] = run[j][t]
    BY <1>2 DEF IdleRun, Late
  <2>2. state[j] \in Stamped
    BY <2>1 DEF MatchInv, RowStaysStamped, Late, Stamped
  <2>3. CASE j = k
    <3>1. t # s
      BY <1>2, <2>3 DEF IdleRun, Late
    <3>2. run[k][t].pc = "idle"
      BY <3>1 DEF IInv, LockNamesRuns, Active
    <3> QED BY <2>1, <2>3, <3>2 DEF Late
  <2> QED BY <2>2, <2>3
<1>5. StateMatchesAnswer'
  <2> SUFFICES ASSUME NEW j \in Keys, AtRest(j)', ~voided[j], state'[j].status # "absent"
               PROVE  CASE answer'[j] = "ok" -> state'[j] = [status |-> "success", stamp |-> "ok"]
                        [] answer'[j] = "error" -> state'[j].status = "error"
                        [] answer'[j] = "none" -> FALSE
                        [] OTHER -> TRUE
    BY <1>3 DEF StateMatchesAnswer
  <2>1. CASE j = k
    BY <1>1, <1>3, <2>1 DEF Stamped, NoState
  <2>2. CASE j # k
    <3>1. AtRest(j)
      BY <1>2, <2>2 DEF AtRest, Active
    <3> QED BY <1>1, <1>3, <2>2, <3>1 DEF MatchInv, StateMatchesAnswer
  <2> QED BY <2>1, <2>2
<1> QED BY <1>4, <1>5 DEF MatchInv

LEMMA StartKeepsMatch ==
  ASSUME IInv, MatchInv, NEW ks \in SUBSET Keys, NEW full \in BOOLEAN, StartOrJoin(ks, full),
         UNCHANGED <<state, answer>>
  PROVE  MatchInv'
<1> DEFINE fresh == [pc |-> "readState", full |-> full, stamp |-> "none"]
<1>1. ASSUME NEW j \in Unowned(ks)
      PROVE  /\ FreeSlot(j) \in Slots /\ voided'[j] = FALSE
             /\ run'[j] = [run[j] EXCEPT ![FreeSlot(j)] = fresh]
  <2>1. \E t \in Slots : run[j][t].pc = "idle"
    BY <1>1 DEF StartOrJoin
  <2> QED BY <2>1 DEF FreeSlot, StartOrJoin, Unowned
<1>2. ASSUME NEW j \in Keys, j \notin Unowned(ks)
      PROVE  run'[j] = run[j] /\ voided'[j] = voided[j]
  <2>1. voided[j] \in BOOLEAN
    BY DEF IInv, TypeOK
  <2> QED BY <1>2, <2>1 DEF StartOrJoin
<1>3. ASSUME NEW j \in Unowned(ks)
      PROVE  ~AtRest(j)' /\ \A t \in Slots : run'[j][t].pc \notin Late
  <2>1. run[j] \in [Slots -> Run] /\ inflight[j] = NoSlot /\ j \in Keys
    BY DEF Unowned, IInv, TypeOK
  <2>2. \A t \in Slots : run[j][t].pc = "idle"
    BY <2>1, KeysAssumption DEF IInv, LockNamesRuns, Active
  <2>3. \A t \in Slots : run'[j][t] = IF t = FreeSlot(j) THEN fresh ELSE run[j][t]
    BY <1>1, <2>1
  <2>4. fresh.pc # "idle" /\ fresh.pc \notin Late /\ "idle" \notin Late
    BY DEF Late
  <2> HIDE DEF fresh
  <2>5. \A t \in Slots : run'[j][t].pc \notin Late
    BY <2>2, <2>3, <2>4
  <2>6. run'[j][FreeSlot(j)].pc # "idle"
    BY <1>1, <2>3, <2>4
  <2> QED BY <1>1, <2>5, <2>6 DEF AtRest, Active
<1>4. RowStaysStamped'
  BY <1>2, <1>3 DEF MatchInv, RowStaysStamped, Late
<1>5. StateMatchesAnswer'
  <2> SUFFICES ASSUME NEW j \in Keys, AtRest(j)', ~voided'[j], state[j].status # "absent"
               PROVE  CASE answer[j] = "ok" -> state[j] = [status |-> "success", stamp |-> "ok"]
                        [] answer[j] = "error" -> state[j].status = "error"
                        [] answer[j] = "none" -> FALSE
                        [] OTHER -> TRUE
    BY DEF StateMatchesAnswer
  <2>1. AtRest(j) /\ ~voided[j]
    BY <1>2, <1>3 DEF AtRest, Active
  <2> QED BY <2>1 DEF MatchInv, StateMatchesAnswer
<1> QED BY <1>4, <1>5 DEF MatchInv

LEMMA RunStepKeepsMatch ==
  ASSUME IInv, MatchInv, NEW k \in Keys, NEW s \in Slots, RunStep(k, s) \/ RunFault(k, s)
  PROVE  MatchInv'
<1>1. /\ run \in [Keys -> [Slots -> Run]] /\ run[k] \in [Slots -> Run] /\ run[k][s] \in Run
      /\ state \in [Keys -> StateRow]
  BY DEF IInv, TypeOK
<1>2. ASSUME NEW pc \in RunPcs \ {"idle"}, run[k][s].pc # "idle", Goto(k, s, pc),
             \A j \in Keys \ {k} : state'[j] = state[j],
             pc \in Late /\ ~voided[k] => state'[k] \in Stamped
      PROVE  MatchInv'
  <2> DEFINE new == [run[k][s] EXCEPT !.pc = pc]
  <2>1. new \in Run /\ new.pc = pc
    BY <1>1 DEF Run
  <2>2. run' = [run EXCEPT ![k][s] = new] /\ UNCHANGED <<answer, voided>>
    BY <1>1, <1>2 DEF Goto, history
  <2> HIDE DEF new
  <2> QED BY <1>2, <2>1, <2>2, MoveKeepsMatch
<1>3. ASSUME NEW how \in {"ok", "error", "rejected"}, run[k][s].pc # "idle", Settle(k, s, how),
             \A j \in Keys \ {k} : state'[j] = state[j],
             how = "ok" /\ ~voided[k] => state'[k] \in Stamped,
             how = "error" => state'[k].status = "error"
      PROVE  MatchInv'
  BY <1>3, SettleKeepsMatch
<1>4. run[k][s].pc \in Late /\ ~voided[k] => state[k] \in Stamped
  BY DEF MatchInv, RowStaysStamped, Late, Stamped
<1>5. ASSUME NEW status, NEW stamp, Stamp(k, status, stamp)
      PROVE  /\ \A j \in Keys \ {k} : state'[j] = state[j]
             /\ state'[k] = [status |-> status, stamp |-> stamp]
  BY <1>1, <1>5 DEF Stamp
<1>6. CASE ReadState(k, s)
  <2> DEFINE new == [run[k][s] EXCEPT !.pc = "markPending", !.stamp = state[k].stamp]
  <2>1. new \in Run /\ new.pc = "markPending"
    BY <1>1 DEF Run, RunPcs, StateRow
  <2>2. /\ run' = [run EXCEPT ![k][s] = new] /\ UNCHANGED <<state, answer, voided>>
        /\ run[k][s].pc = "readState"
    BY <1>1, <1>6 DEF ReadState, At, NoWrite, history
  <2> HIDE DEF new
  <2> QED BY <2>1, <2>2, MoveKeepsMatch DEF Late
<1>7. CASE MarkPending(k, s)
  <2>1. /\ run[k][s].pc = "markPending" /\ Goto(k, s, "loadConfig")
        /\ \A j \in Keys \ {k} : state'[j] = state[j]
    BY <1>5, <1>7 DEF MarkPending, At
  <2> QED BY <1>2, <2>1 DEF Late, RunPcs
<1>8. CASE LoadConfig(k, s) \/ LoadCursor(k, s) \/ PullEnds(k, s) \/ PullFails(k, s)
  <2>1. /\ run[k][s].pc # "idle" /\ UNCHANGED state
        /\ \E pc \in {"markError", "loadCursor", "pull", "stampOk", "stampFailed", "stampThrow"} :
             Goto(k, s, pc)
    BY <1>8 DEF LoadConfig, LoadCursor, PullEnds, PullFails, At, NoWrite
  <2> QED BY <1>2, <2>1 DEF Late, RunPcs
<1>9. CASE StampOk(k, s)
  <2>1. /\ run[k][s].pc = "stampOk" /\ state'[k] \in Stamped
        /\ \A j \in Keys \ {k} : state'[j] = state[j]
        /\ \E pc \in {"saveCursor", "clusters"} : Goto(k, s, pc)
    BY <1>5, <1>9 DEF StampOk, At, Stamped
  <2> QED BY <1>2, <2>1 DEF RunPcs
<1>10. CASE StampThrow(k, s)
  <2>1. /\ run[k][s].pc = "stampThrow" /\ Goto(k, s, "markError")
        /\ \A j \in Keys \ {k} : state'[j] = state[j]
    BY <1>5, <1>10 DEF StampThrow, At
  <2> QED BY <1>2, <2>1 DEF Late, RunPcs
<1>11. CASE SaveCursor(k, s) \/ RefreshClusters(k, s)
  <2>1. /\ run[k][s].pc \in Late /\ UNCHANGED state
        /\ \E pc \in {"clusters", "milestones"} : Goto(k, s, pc)
    BY <1>11 DEF SaveCursor, RefreshClusters, At, NoWrite, Late
  <2> QED BY <1>2, <1>4, <2>1 DEF RunPcs, Late
<1>12. CASE PersistMilestones(k, s)
  <2>1. run[k][s].pc \in Late /\ run[k][s].pc # "idle" /\ UNCHANGED state /\ Settle(k, s, "ok")
    BY <1>12 DEF PersistMilestones, At, NoWrite, Late
  <2> QED BY <1>3, <1>4, <2>1
<1>13. CASE StampFailed(k, s) \/ MarkError(k, s)
  <2>1. /\ run[k][s].pc # "idle" /\ Settle(k, s, "error") /\ state'[k].status = "error"
        /\ \A j \in Keys \ {k} : state'[j] = state[j]
    <3>1. /\ run[k][s].pc \in {"stampFailed", "markError"} /\ Stamp(k, "error", "failed")
          /\ Settle(k, s, "error")
      BY <1>13 DEF StampFailed, MarkError, At
    <3>2. state'[k] = [status |-> "error", stamp |-> "failed"]
      BY <1>5, <3>1
    <3>3. \A j \in Keys \ {k} : state'[j] = state[j]
      BY <1>5, <3>1
    <3> QED BY <3>1, <3>2, <3>3
  <2>2. "error" \in {"ok", "error", "rejected"} /\ "error" # "ok"
    OBVIOUS
  <2> QED BY <1>3, <2>1, <2>2
<1>14. CASE RunFault(k, s)
  <2>1. run[k][s].pc \in RunPcs \ {"idle"} /\ UNCHANGED state
    BY <1>1, <1>14 DEF RunFault, Run, db
  <2>2. Catch[run[k][s].pc] \in {"rejected", "stampThrow", "markError"}
    BY <2>1 DEF Catch
  <2>3. CASE Catch[run[k][s].pc] = "rejected"
    BY <1>3, <1>14, <2>1, <2>3 DEF RunFault
  <2>4. CASE Catch[run[k][s].pc] # "rejected"
    <3>1. \E pc \in {"stampThrow", "markError"} : Goto(k, s, pc)
      BY <1>14, <2>2, <2>4 DEF RunFault
    <3> QED BY <1>2, <2>1, <3>1 DEF Late, RunPcs
  <2> QED BY <2>3, <2>4
<1> QED
  BY <1>6, <1>7, <1>8, <1>9, <1>10, <1>11, <1>12, <1>13, <1>14 DEF RunStep

LEMMA OpKeepsMatch ==
  ASSUME IInv, MatchInv, NEW o \in Ops, OpStep(o) \/ OpFault(o)
  PROVE  MatchInv'
<1>1. UNCHANGED <<run, answer>>
  BY DEF OpStep, OpFault, OpBegins, OpReadsSource, OpReadsState, OpClearsNothing,
         OpWritesSource, OpWritesState, OpAudits, OpAt
<1>2. \A k \in Keys : /\ voided[k] => voided'[k]
                      /\ ~voided'[k] => state'[k] \in {state[k], NoState}
  <2>1. CASE ~OpWritesState(o)
    BY <2>1 DEF OpStep, OpFault, OpBegins, OpReadsSource, OpReadsState, OpClearsNothing,
                OpWritesSource, OpAudits
  <2>2. CASE OpWritesState(o)
    <3>1. op[o].key \in Keys /\ state \in [Keys -> StateRow] /\ voided \in [Keys -> BOOLEAN]
      BY DEF IInv, TypeOK, Op
    <3>2. CASE op[o].kind = "disconnect"
      <4>1. state' = [state EXCEPT ![op[o].key] = NoState]
        BY <2>2, <3>2 DEF OpWritesState
      <4>2. \A k \in Keys : state'[k] \in {state[k], NoState}
        BY <3>1, <4>1
      <4>3. \A k \in Keys : voided[k] => voided'[k]
        BY <2>2, <3>1 DEF OpWritesState
      <4> QED BY <4>2, <4>3
    <3>3. CASE op[o].kind # "disconnect"
      BY <2>2, <3>1, <3>3 DEF OpWritesState
    <3> QED BY <3>2, <3>3
  <2> QED BY <2>1, <2>2
<1>3. RowStaysStamped'
  BY <1>1, <1>2 DEF MatchInv, RowStaysStamped
<1>4. StateMatchesAnswer'
  <2>1. \A k \in Keys : AtRest(k)' <=> AtRest(k)
    BY <1>1 DEF AtRest, Active
  <2>2. NoState.status = "absent"
    BY DEF NoState
  <2> QED BY <1>1, <1>2, <2>1, <2>2 DEF MatchInv, StateMatchesAnswer
<1> QED BY SMTT(60), <1>3, <1>4 DEF MatchInv

LEMMA CrashKeepsMatch ==
  ASSUME IInv, MatchInv, Crash
  PROVE  MatchInv'
<1>1. \A k \in Keys, s \in Slots : run'[k][s].pc = "idle"
  BY DEF Crash, IdleRun
<1>2. \A k \in Keys : ~voided'[k] => ~voided[k] /\ AtRest(k)
  BY KeysAssumption DEF Crash, IInv, TypeOK, LockNamesRuns, AtRest
<1>3. UNCHANGED <<state, answer>>
  BY DEF Crash, db
<1> QED BY <1>1, <1>2, <1>3 DEF MatchInv, StateMatchesAnswer, RowStaysStamped

(* Once a source is at rest its sync_state row says what the last run of it    *)
(* answered, whatever triggers, lifecycle calls, failed statements and         *)
(* restarts came in between.                                                   *)
THEOREM RowsMatchAnswers == Spec => []StateMatchesAnswer
<1>1. Init => MatchInv
  BY DEF Init, MatchInv, StateMatchesAnswer, RowStaysStamped, NoState, IdleRun
<1>2. IInv /\ MatchInv /\ [Next]_vars => MatchInv'
  <2> SUFFICES ASSUME IInv, MatchInv, [Next]_vars PROVE MatchInv'
    OBVIOUS
  <2>1. ASSUME NEW r \in Requests, RequestSync(r) PROVE MatchInv'
    <3>1. PICK ks \in {{k} : k \in Keys} \cup {Keys} : StartOrJoin(ks, FALSE)
      BY <2>1 DEF RequestSync
    <3>2. ks \in SUBSET Keys /\ UNCHANGED <<state, answer>>
      BY <2>1 DEF RequestSync, db
    <3> QED BY <3>1, <3>2, StartKeepsMatch
  <2>2. CASE ListTargets
    <3>1. Scheduled \in SUBSET Keys /\ pass.full \in BOOLEAN
      BY DEF Scheduled, IInv, TypeOK, Pass
    <3>2. StartOrJoin(Scheduled, pass.full) /\ UNCHANGED <<state, answer>>
      BY <2>2 DEF ListTargets, db
    <3> QED BY <3>1, <3>2, StartKeepsMatch
  <2>3. CASE \/ \E r \in Requests : RequestAnswers(r)
             \/ Tick \/ ListFault \/ PassEnds \/ NextDay \/ UNCHANGED vars
    <3>1. UNCHANGED <<run, state, answer, voided>>
      BY <2>3 DEF RequestAnswers, Tick, ListFault, PassEnds, NextDay, vars, db, history
    <3> QED BY <3>1 DEF MatchInv, StateMatchesAnswer, RowStaysStamped, AtRest, Active
  <2> QED BY <2>1, <2>2, <2>3, RunStepKeepsMatch, OpKeepsMatch, CrashKeepsMatch DEF Next
<1>3. MatchInv => StateMatchesAnswer
  BY DEF MatchInv
<1> QED BY <1>1, <1>2, <1>3, Inductive, PTL DEF Spec

-----------------------------------------------------------------------------
(* A run's step starts no other run, and takes out of what the pass awaits    *)
(* only a run that has ended.                                                 *)
LEMMA RunStepOnlyEnds ==
  ASSUME IInv, NEW k \in Keys, NEW s \in Slots, RunStep(k, s)
  PROVE  /\ UNCHANGED <<sources, op, day, faults, reconciled>>
         /\ pass'.pc = pass.pc /\ pass'.full = pass.full /\ pass'.day = pass.day
         /\ \A r \in Requests : request'[r].pc = "new" => request[r].pc = "new"
         /\ \A j \in Keys, t \in Slots : Active(j, t)' =>
              Active(j, t) /\ (<<j, t>> \in pass.waits => <<j, t>> \in pass'.waits)
<1>1. /\ run \in [Keys -> [Slots -> Run]] /\ run[k] \in [Slots -> Run] /\ run[k][s] \in Run
      /\ pass \in Pass /\ request \in [Requests -> Request]
  BY DEF IInv, TypeOK
<1>2. UNCHANGED <<sources, op, day, faults>> /\ run[k][s].pc # "idle"
  BY DEF RunStep, ReadState, MarkPending, LoadConfig, LoadCursor, PullEnds, PullFails,
         StampOk, StampFailed, StampThrow, SaveCursor, RefreshClusters, PersistMilestones,
         MarkError, At, bounds
<1>3. CASE \/ ReadState(k, s) \/ \E pc \in RunPcs : Goto(k, s, pc)
  <2>1. UNCHANGED <<pass, request, reconciled>>
    BY <1>3 DEF ReadState, Goto, sched, history
  <2>2. \E new : run' = [run EXCEPT ![k] = [run[k] EXCEPT ![s] = new]]
    <3>1. CASE ReadState(k, s)
      <4>1. run' = [run EXCEPT ![k] = [run[k] EXCEPT ![s] =
              [[run[k][s] EXCEPT !.pc = "markPending"] EXCEPT !.stamp = state[k].stamp]]]
        BY <1>1, <3>1 DEF ReadState
      <4> QED BY <4>1
    <3>2. ASSUME NEW pc \in RunPcs, Goto(k, s, pc)
          PROVE  \E new : run' = [run EXCEPT ![k] = [run[k] EXCEPT ![s] = new]]
      <4>1. run' = [run EXCEPT ![k] = [run[k] EXCEPT ![s] = [run[k][s] EXCEPT !.pc = pc]]]
        BY <1>1, <3>2 DEF Goto
      <4> QED BY <4>1
    <3> QED BY <1>3, <3>1, <3>2
  <2>3. \A j \in Keys, t \in Slots : ~(j = k /\ t = s) => run'[j][t] = run[j][t]
    BY <1>1, <2>2
  <2> QED BY <1>2, <2>1, <2>3 DEF Active
<1>4. CASE \E how \in {"ok", "error"} : Settle(k, s, how)
  <2>1. /\ run' = [run EXCEPT ![k] = [run[k] EXCEPT ![s] = IdleRun]]
        /\ pass' = Without(pass, <<k, s>>) /\ reconciled' = reconciled
    BY <1>1, <1>4 DEF Settle
  <2>2. pass' = [pass EXCEPT !.waits = @ \ {<<k, s>>}]
    BY <2>1 DEF Without
  <2>3. /\ pass'.pc = pass.pc /\ pass'.full = pass.full /\ pass'.day = pass.day
        /\ pass'.waits = pass.waits \ {<<k, s>>}
    BY <1>1, <2>2 DEF Pass
  <2>4. \A j \in Keys, t \in Slots : run'[j][t] = IF j = k /\ t = s THEN IdleRun ELSE run[j][t]
    BY <1>1, <2>1
  <2>5. \A r \in Requests : request'[r].pc = "new" => request[r].pc = "new"
    <3>1. TAKE r \in Requests
    <3>2. request[r] \in Request
      BY <1>1
    <3> QED BY <1>4, <3>2 DEF Settle, Notify, Without, Request
  <2> QED BY <1>2, <2>1, <2>3, <2>4, <2>5 DEF Active, IdleRun
<1>5. ReadState(k, s) \/ (\E pc \in RunPcs : Goto(k, s, pc)) \/ \E how \in {"ok", "error"} : Settle(k, s, how)
  BY DEF RunStep, MarkPending, LoadConfig, LoadCursor, PullEnds, PullFails, StampOk, StampFailed,
         StampThrow, SaveCursor, RefreshClusters, PersistMilestones, MarkError, RunPcs
<1> QED BY <1>3, <1>4, <1>5

LEMMA NightStep ==
  ASSUME IInv, IInv', NightInv, [Next]_vars
  PROVE  NightInv'
<1>1. /\ pass \in Pass /\ day \in 1..MaxDay /\ day \in Nat /\ faults \in Nat /\ pass.day \in Nat
      /\ request \in [Requests -> Request] /\ op \in [Ops -> Op]
  BY KeysAssumption DEF IInv, TypeOK, Pass
<1>2. ASSUME NEW k \in Keys, NEW s \in Slots, RunStep(k, s)
      PROVE  NightInv'
  <2>1. OnlyScheduled' => OnlyScheduled
    BY <1>2, RunStepOnlyEnds DEF OnlyScheduled
  <2>2. Scheduled' = Scheduled
    BY <1>2, RunStepOnlyEnds DEF Scheduled
  <2> QED BY <1>2, <2>1, <2>2, RunStepOnlyEnds DEF NightInv
<1>3. ASSUME NEW k \in Keys, NEW s \in Slots, RunFault(k, s)
      PROVE  NightInv'
  <2>1. faults' # 0 /\ day' = day
    BY <1>1, <1>3 DEF RunFault
  <2>2. pass'.pc = pass.pc /\ pass'.day = pass.day
    BY <1>1, <1>3 DEF RunFault, Settle, Goto, Without, Pass, sched
  <2> QED BY <2>1, <2>2 DEF NightInv, OnlyScheduled
<1>4. ASSUME NEW r \in Requests, RequestSync(r) \/ RequestAnswers(r)
      PROVE  NightInv'
  <2>1. UNCHANGED <<pass, day>>
    BY <1>4 DEF RequestSync, RequestAnswers, sched
  <2>2. request'[r].pc # "new"
    <3>1. CASE RequestSync(r)
      <4>1. PICK ks \in {{k} : k \in Keys} \cup {Keys} :
              request' = [request EXCEPT ![r] = [pc |-> "waiting", waits |-> Awaited(ks)]]
        BY <3>1 DEF RequestSync
      <4> QED BY <1>1, <4>1
    <3>2. CASE RequestAnswers(r)
      <4>1. request[r] \in Request /\ request' = [request EXCEPT ![r] = [request[r] EXCEPT !.pc = "answered"]]
        BY <1>1, <3>2 DEF RequestAnswers
      <4> QED BY <1>1, <4>1 DEF Request
    <3> QED BY <1>4, <3>1, <3>2
  <2> QED BY <2>1, <2>2 DEF NightInv, OnlyScheduled
<1>5. ASSUME NEW o \in Ops, OpStep(o) \/ OpFault(o)
      PROVE  NightInv'
  <2>1. UNCHANGED <<pass, day>>
    BY SMTT(60), <1>5 DEF OpStep, OpFault, OpBegins, OpReadsSource, OpReadsState, OpClearsNothing,
                OpWritesSource, OpWritesState, OpAudits, OpAt, sched
  <2>2. op'[o].pc # "new"
    <3>1. op[o] \in Op
      BY <1>1
    <3> QED BY <1>1, <1>5, <3>1
      DEF OpStep, OpFault, OpBegins, OpReadsSource, OpReadsState, OpClearsNothing,
          OpWritesSource, OpWritesState, OpAudits, OpAt, OpGoto, Op
  <2> QED BY SMTT(60), <2>1, <2>2 DEF NightInv, OnlyScheduled
<1>6. CASE Tick
  <2>1. /\ pass.pc = "idle" /\ pass'.pc = "listing" /\ pass'.day = day
        /\ UNCHANGED <<run, faults, request, op, day>>
    BY <1>6 DEF Tick, bounds
  <2> QED BY <1>1, <2>1 DEF NightInv, OnlyScheduled, Active
<1>7. CASE ListTargets
  <2>1. /\ pass.pc = "listing" /\ StartOrJoin(Scheduled, pass.full)
        /\ pass'.pc = "pulling" /\ pass'.waits = Awaited(Scheduled)
        /\ pass'.full = pass.full /\ pass'.day = pass.day
        /\ UNCHANGED <<sources, faults, request, op, day>>
    BY <1>1, <1>7 DEF ListTargets, Pass, db, bounds
  <2>2. Scheduled' = Scheduled /\ Scheduled \subseteq Keys
    BY <2>1 DEF Scheduled
  <2> SUFFICES ASSUME OnlyScheduled'
               PROVE  /\ \A k \in Keys, s \in Slots : Active(k, s)' => <<k, s>> \in pass'.waits
                      /\ pass.full => \A k \in Scheduled : reconciled'[k] >= pass.day
    BY <2>1, <2>2 DEF NightInv
  <2>3. \A k \in Keys, s \in Slots : ~Active(k, s)
    BY <2>1 DEF NightInv, OnlyScheduled
  <2>4. \A k \in Keys : inflight[k] = NoSlot
    BY <2>3 DEF IInv, TypeOK, LockNamesRuns
  <2>5. \A k \in Keys \ Scheduled : run'[k] = run[k]
    BY <2>1 DEF StartOrJoin, Unowned
  <2>6. ASSUME NEW k \in Keys, NEW s \in Slots, Active(k, s)'
        PROVE  <<k, s>> \in pass'.waits
    <3>1. inflight'[k] = s
      BY <2>6 DEF IInv, LockNamesRuns
    <3>2. k \in Scheduled
      BY <2>3, <2>5, <2>6 DEF Active
    <3> QED BY <2>1, <3>1, <3>2 DEF Awaited
  <2>7. ASSUME pass.full, NEW k \in Scheduled
        PROVE  reconciled'[k] >= pass.day
    <3>1. reconciled'[k] = day
      BY <2>1, <2>2, <2>4, <2>7 DEF StartOrJoin, Unowned
    <3> QED BY <1>1, <2>1, <3>1 DEF NightInv
  <2> QED BY <2>6, <2>7
<1>8. CASE ListFault
  <2>1. faults' # 0 /\ pass.pc # "idle" /\ pass'.day = pass.day /\ day' = day
    BY <1>1, <1>8 DEF ListFault, Pass
  <2> QED BY <2>1 DEF NightInv, OnlyScheduled
<1>9. CASE PassEnds
  <2>1. /\ pass.waits = {} /\ pass'.pc = "idle" /\ UNCHANGED <<run, faults, request, op, day>>
    BY <1>9 DEF PassEnds, IdlePass, bounds
  <2> QED BY <2>1 DEF NightInv, OnlyScheduled, Active
<1>10. CASE NextDay
  <2>1. day' = day + 1 /\ UNCHANGED <<sources, run, faults, request, op, pass, reconciled>>
    BY <1>10 DEF NextDay, bounds, sched, db, history
  <2>2. pass.day <= day => pass.day <= day + 1
    BY <1>1
  <2> QED BY <2>1, <2>2 DEF NightInv, OnlyScheduled, Active, Scheduled
<1>11. CASE Crash
  <2>1. pass'.pc = "idle" /\ \A k \in Keys, s \in Slots : ~Active(k, s)'
    BY <1>11 DEF Crash, IdlePass, IdleRun, Active
  <2> QED BY <2>1 DEF NightInv
<1>12. CASE UNCHANGED vars
  BY <1>12 DEF vars, db, sched, bounds, history, NightInv, OnlyScheduled, Active, Scheduled
<1> QED
  BY <1>2, <1>3, <1>4, <1>5, <1>6, <1>7, <1>8, <1>9, <1>10, <1>11, <1>12 DEF Next

(* A day is recorded as reconciled only when every scheduled source was pulled *)
(* from the beginning on it or later, however long the pass took.              *)
THEOREM NightsReconcile == Spec => NightlyReconciles
<1>1. Init => NightInv
  BY DEF Init, NightInv, IdlePass, IdleRun, Active
<1>2. NightInv /\ [Next]_vars =>
        [(lastNightly' \notin {lastNightly, 0} /\ OnlyScheduled)
           => \A k \in Scheduled : reconciled[k] >= lastNightly']_vars
  <2> SUFFICES ASSUME NightInv, Next, lastNightly' \notin {lastNightly, 0}, OnlyScheduled,
                      NEW k \in Scheduled
               PROVE  reconciled[k] >= lastNightly'
    OBVIOUS
  <2>1. PassEnds
    <3>1. ASSUME NEW j \in Keys, NEW s \in Slots, RunStep(j, s) \/ RunFault(j, s)
          PROVE  lastNightly' = lastNightly
      BY <3>1 DEF RunStep, RunFault, ReadState, MarkPending, LoadConfig, LoadCursor, PullEnds,
             PullFails, StampOk, StampFailed, StampThrow, SaveCursor, RefreshClusters,
             PersistMilestones, MarkError, Goto, Settle, sched
    <3>2. ASSUME NEW r \in Requests, RequestSync(r) \/ RequestAnswers(r)
          PROVE  lastNightly' = lastNightly
      BY <3>2 DEF RequestSync, RequestAnswers, sched
    <3>3. ASSUME NEW o \in Ops, OpStep(o) \/ OpFault(o)
          PROVE  lastNightly' = lastNightly
      BY <3>3 DEF OpStep, OpFault, OpBegins, OpReadsSource, OpReadsState, OpClearsNothing,
             OpWritesSource, OpWritesState, OpAudits, OpAt, sched
    <3>4. Tick \/ ListTargets \/ ListFault \/ NextDay => lastNightly' = lastNightly
      BY DEF Tick, ListTargets, ListFault, NextDay, sched
    <3>5. Crash => lastNightly' = 0
      BY DEF Crash
    <3> QED BY SMTT(60), <3>1, <3>2, <3>3, <3>4, <3>5 DEF Next
  <2> QED BY <2>1 DEF PassEnds, NightInv
<1>3. IInv /\ IInv' /\ NightInv /\ [Next]_vars => NightInv'
  BY NightStep
<1> QED BY <1>1, <1>2, <1>3, Inductive, PTL DEF Spec, NightlyReconciles
-----------------------------------------------------------------------------
(* The runs that store milestones (Milestones).  What a run found has a key of *)
(* its own each; while no two insert at once, what the one still has to insert *)
(* is in no row.                                                               *)
Inserting(r) == runs[r].at = "inserting"
KeysDiffer(S) ==
  /\ \A a, b \in S : milestoneKey(a) = milestoneKey(b) => a = b
  /\ \A a \in S : eventMilestoneKey(a) = milestoneKey(a)
FoundFits(r) == runs[r] = [at |-> runs[r].at, todo |-> runs[r].todo] /\ KeysDiffer(runs[r].todo)
OneInserts == ~overlap => \A r, s \in Runs : Inserting(r) /\ Inserting(s) => r = s
NotYetStored ==
  ~overlap => \A r \in Runs : Inserting(r) => \A mo \in runs[r].todo : milestoneKey(mo) \notin StoredKeys
MilestonesInv ==
  /\ rows \in Seq({rows[k] : k \in DOMAIN rows}) /\ overlap \in BOOLEAN
  /\ runs = [r \in Runs |-> runs[r]] /\ \A r \in Runs : FoundFits(r)
  /\ OneInserts /\ NotYetStored /\ OneRowPerKey

(* What detectMilestones finds: of the moments that are numbered, one of each  *)
(* number; of the others, one.                                                 *)
LEMMA FoundByKind ==
  ASSUME NEW su, NEW ac, NEW fo, NEW sm, NEW asOf
  PROVE  /\ \A a, b \in detectNthSignups(su, asOf) : a.kind = "nth_signup" /\ (a.n = b.n => a = b)
         /\ \A a, b \in detectLongestStreak(ac, asOf) : a.kind = "longest_streak" /\ a = b
         /\ \A a, b \in detectCompanyBirthday(fo, asOf) : a.kind = "company_birthday" /\ a.n = YearOf(a.at) /\ a = b
         /\ \A a, b \in detectCompanyDays(fo, asOf) : a.kind = "company_day" /\ (a.n = b.n => a = b)
         /\ \A a, b \in detectFirstSmile(sm, asOf) : a.kind = "first_smile" /\ a = b
<1>1. \A a, b \in detectNthSignups(su, asOf) : a.kind = "nth_signup" /\ (a.n = b.n => a = b)
  <2> SUFFICES ASSUME NEW a \in detectNthSignups(su, asOf), NEW b \in detectNthSignups(su, asOf)
               PROVE  a.kind = "nth_signup" /\ (a.n = b.n => a = b)
    OBVIOUS
  <2>1. PICK m : a = Moment("nth_signup", m, NthDay(su, asOf, m))
    BY DEF detectNthSignups
  <2>2. PICK n : b = Moment("nth_signup", n, NthDay(su, asOf, n))
    BY DEF detectNthSignups
  <2> QED
    BY <2>1, <2>2 DEF Moment
<1>2. \A a, b \in detectLongestStreak(ac, asOf) : a.kind = "longest_streak" /\ a = b
  <2>1. detectLongestStreak(ac, asOf) = {} \/ \E n, at : detectLongestStreak(ac, asOf) = {Moment("longest_streak", n, at)}
    BY DEF detectLongestStreak
  <2> QED
    BY <2>1 DEF Moment
<1>3. \A a, b \in detectCompanyBirthday(fo, asOf) : a.kind = "company_birthday" /\ a.n = YearOf(a.at) /\ a = b
  <2>1. \/ detectCompanyBirthday(fo, asOf) = {}
        \/ \E at : detectCompanyBirthday(fo, asOf) = {Moment("company_birthday", YearOf(at), at)}
    BY DEF detectCompanyBirthday
  <2> QED
    BY <2>1 DEF Moment
<1>4. \A a, b \in detectCompanyDays(fo, asOf) : a.kind = "company_day" /\ (a.n = b.n => a = b)
  <2> SUFFICES ASSUME NEW a \in detectCompanyDays(fo, asOf), NEW b \in detectCompanyDays(fo, asOf)
               PROVE  a.kind = "company_day" /\ (a.n = b.n => a = b)
    OBVIOUS
  <2>1. (\E n : a = Moment("company_day", n, fo + n)) /\ \E n : b = Moment("company_day", n, fo + n)
    BY DEF detectCompanyDays
  <2> QED
    BY <2>1 DEF Moment
<1>5. \A a, b \in detectFirstSmile(sm, asOf) : a.kind = "first_smile" /\ a = b
  BY DEF detectFirstSmile, Moment
<1> QED
  BY <1>1, <1>2, <1>3, <1>4, <1>5

LEMMA FoundKeys == \A su, ac, asOf : KeysDiffer(detectMilestones(su, ac, asOf))
<1> SUFFICES ASSUME NEW su, NEW ac, NEW asOf PROVE KeysDiffer(detectMilestones(su, ac, asOf))
  OBVIOUS
<1> DEFINE fo == Founding(su, foundedAt)
           S == detectMilestones(su, ac, asOf)
<1> HIDE DEF fo
<1>1. \A a, b \in S : a.kind = b.kind /\ a.n = b.n => a = b
  <2>1. S = detectNthSignups(su, asOf) \cup detectLongestStreak(ac, asOf)
            \cup detectCompanyBirthday(fo, asOf) \cup detectCompanyDays(fo, asOf) \cup detectFirstSmile(smileOn, asOf)
    BY DEF detectMilestones, fo
  <2> QED
    BY <2>1, FoundByKind
<1>2. \A a \in S : a.kind = "company_birthday" => a.n = YearOf(a.at)
  <2>1. S = detectNthSignups(su, asOf) \cup detectLongestStreak(ac, asOf)
            \cup detectCompanyBirthday(fo, asOf) \cup detectCompanyDays(fo, asOf) \cup detectFirstSmile(smileOn, asOf)
    BY DEF detectMilestones, fo
  <2> QED
    BY <2>1, FoundByKind
<1> HIDE DEF S
<1>3. \A a, b \in S : milestoneKey(a) = milestoneKey(b) => a = b
  BY <1>1 DEF milestoneKey
<1>4. \A a \in S : eventMilestoneKey(a) = milestoneKey(a)
  BY <1>2 DEF milestoneKey, eventMilestoneKey
<1> QED
  BY <1>3, <1>4 DEF KeysDiffer, S

LEMMA MilestonesBegin == MilestonesInit => MilestonesInv
<1> SUFFICES ASSUME MilestonesInit PROVE MilestonesInv
  OBVIOUS
<1>1. \A r \in Runs : runs[r] = [at |-> "idle", todo |-> {}]
  BY DEF MilestonesInit, NotRun
<1>2. \A r \in Runs : FoundFits(r) /\ ~Inserting(r)
  BY <1>1 DEF FoundFits, KeysDiffer, Inserting
<1>3. runs = [r \in Runs |-> runs[r]] /\ overlap \in BOOLEAN
  BY DEF MilestonesInit
<1>4. rows = <<>> /\ DOMAIN rows = {}
  BY DEF MilestonesInit
<1>5. rows \in Seq({rows[k] : k \in DOMAIN rows})
  BY <1>4
<1> QED
  BY <1>2, <1>3, <1>4, <1>5 DEF MilestonesInv, OneInserts, NotYetStored, OneRowPerKey

(* One run moves.                                                              *)
LEMMA OtherRuns ==
  ASSUME MilestonesInv, NEW r \in Runs, NEW at, NEW todo, KeysDiffer(todo),
         runs' = [runs EXCEPT ![r] = [at |-> at, todo |-> todo]]
  PROVE  /\ runs' = [s \in Runs |-> runs'[s]] /\ \A s \in Runs : FoundFits(s)'
         /\ runs'[r].at = at /\ runs'[r].todo = todo
         /\ \A s \in Runs : s # r => runs'[s] = runs[s] /\ (Inserting(s)' <=> Inserting(s))
<1>1. runs = [s \in Runs |-> runs[s]] /\ \A s \in Runs : FoundFits(s)
  BY DEF MilestonesInv
<1>2. runs' = [s \in Runs |-> IF s = r THEN [at |-> at, todo |-> todo] ELSE runs[s]]
  BY <1>1
<1>3. \A s \in Runs : s # r => runs'[s] = runs[s]
  BY <1>2
<1>4. runs'[r] = [at |-> at, todo |-> todo]
  BY <1>2
<1>5. \A s \in Runs : FoundFits(s)'
  <2> SUFFICES ASSUME NEW s \in Runs PROVE FoundFits(s)'
    OBVIOUS
  <2>1. CASE s = r
    BY <1>4, <2>1 DEF FoundFits, KeysDiffer, milestoneKey, eventMilestoneKey
  <2>2. CASE s # r
    BY <1>1, <1>3, <2>2 DEF FoundFits, KeysDiffer, milestoneKey, eventMilestoneKey
  <2> QED
    BY <2>1, <2>2
<1>6. runs' = [s \in Runs |-> runs'[s]]
  BY <1>2
<1>7. runs'[r].at = at /\ runs'[r].todo = todo
  BY <1>4
<1>8. \A s \in Runs : s # r => runs'[s] = runs[s] /\ (Inserting(s)' <=> Inserting(s))
  BY <1>3 DEF Inserting
<1> QED
  BY <1>5, <1>6, <1>7, <1>8

(* A run that does not insert after its step, over the same rows.              *)
LEMMA NoInsert ==
  ASSUME MilestonesInv, NEW r \in Runs, NEW at, NEW todo, KeysDiffer(todo), at # "inserting",
         runs' = [runs EXCEPT ![r] = [at |-> at, todo |-> todo]], rows' = rows, overlap' = overlap
  PROVE  MilestonesInv'
<1>1. /\ runs' = [s \in Runs |-> runs'[s]] /\ \A s \in Runs : FoundFits(s)'
      /\ ~Inserting(r)' /\ \A s \in Runs : s # r => runs'[s] = runs[s] /\ (Inserting(s)' <=> Inserting(s))
  BY OtherRuns DEF Inserting
<1>2. StoredKeys' = StoredKeys
  BY DEF StoredKeys, eventMilestoneKey
<1>3. OneInserts'
  BY <1>1 DEF MilestonesInv, OneInserts
<1>4. NotYetStored'
  BY <1>1, <1>2 DEF MilestonesInv, NotYetStored
<1>5. OneRowPerKey'
  BY DEF MilestonesInv, OneRowPerKey, eventMilestoneKey
<1> QED
  BY <1>1, <1>3, <1>4, <1>5 DEF MilestonesInv

LEMMA DetectKeeps ==
  ASSUME MilestonesInv, NEW r \in Runs, NEW su, NEW ac, NEW found, found = detectMilestones(su, ac, today),
         runs' = [runs EXCEPT ![r] = IF found = {} THEN [at |-> "done", todo |-> {}] ELSE [at |-> "detected", todo |-> found]],
         rows' = rows, overlap' = overlap
  PROVE  MilestonesInv'
<1>1. KeysDiffer(found) /\ KeysDiffer({})
  BY FoundKeys DEF KeysDiffer
<1>2. CASE found = {}
  <2>1. runs' = [runs EXCEPT ![r] = [at |-> "done", todo |-> {}]]
    BY <1>2
  <2> QED
    BY <1>1, <2>1, NoInsert
<1>3. CASE found # {}
  <2>1. runs' = [runs EXCEPT ![r] = [at |-> "detected", todo |-> found]]
    BY <1>3
  <2> QED
    BY <1>1, <2>1, NoInsert
<1> QED
  BY <1>2, <1>3

LEMMA LookAtRowsKeeps == ASSUME MilestonesInv, NEW r \in Runs, LookAtRows(r) PROVE MilestonesInv'
<1> DEFINE todo == {mo \in runs[r].todo : milestoneKey(mo) \notin StoredKeys}
<1>1. /\ runs' = [runs EXCEPT ![r] = [at |-> "inserting", todo |-> todo]] /\ rows' = rows
      /\ overlap' = (overlap \/ \E o \in Runs \ {r} : runs[o].at = "inserting")
  BY DEF LookAtRows
<1>2. KeysDiffer(todo)
  BY DEF MilestonesInv, FoundFits, KeysDiffer
<1>3. StoredKeys' = StoredKeys
  BY <1>1 DEF StoredKeys, eventMilestoneKey
<1>4. \A mo \in todo : milestoneKey(mo) \notin StoredKeys
  OBVIOUS
<1> HIDE DEF todo
<1>5. /\ runs' = [s \in Runs |-> runs'[s]] /\ \A s \in Runs : FoundFits(s)'
      /\ runs'[r].todo = todo
      /\ \A s \in Runs : s # r => runs'[s] = runs[s] /\ (Inserting(s)' <=> Inserting(s))
  BY <1>1, <1>2, OtherRuns
<1>6. ~overlap' => ~overlap /\ \A s \in Runs : s # r => ~Inserting(s)'
  BY <1>1, <1>5 DEF Inserting
<1>7. OneInserts'
  BY <1>6 DEF OneInserts
<1>8. NotYetStored'
  BY <1>3, <1>4, <1>5, <1>6 DEF NotYetStored, milestoneKey
<1>9. OneRowPerKey' /\ rows' \in Seq({rows'[k] : k \in DOMAIN rows'}) /\ overlap' \in BOOLEAN
  BY <1>1 DEF MilestonesInv, OneRowPerKey, eventMilestoneKey
<1> QED
  BY <1>5, <1>7, <1>8, <1>9 DEF MilestonesInv

LEMMA InsertKeeps == ASSUME MilestonesInv, NEW r \in Runs, Insert(r) PROVE MilestonesInv'
<1> DEFINE mo == FirstOf(runs[r].todo)
           todo == runs[r].todo \ {mo}
           n == Len(rows) + 1
<1>1. /\ Inserting(r) /\ runs[r].todo # {} /\ rows' = Append(rows, mo) /\ overlap' = overlap
      /\ runs' = [runs EXCEPT ![r] = [at |-> "inserting", todo |-> todo]]
  BY DEF Insert, Inserting
<1>2. mo \in runs[r].todo
  BY <1>1 DEF FirstOf
<1>3. KeysDiffer(runs[r].todo) /\ eventMilestoneKey(mo) = milestoneKey(mo)
  BY <1>2 DEF MilestonesInv, FoundFits, KeysDiffer
<1> HIDE DEF mo
<1>4. KeysDiffer(todo) /\ \A o \in todo : milestoneKey(o) # milestoneKey(mo)
  BY <1>2, <1>3 DEF KeysDiffer
<1>5. rows \in Seq({rows[k] : k \in DOMAIN rows})
  BY DEF MilestonesInv
<1>6. /\ Len(rows) \in Nat /\ DOMAIN rows = 1..Len(rows) /\ DOMAIN rows' = 1..n
      /\ rows'[n] = mo /\ \A k \in 1..Len(rows) : rows'[k] = rows[k]
  BY <1>1, <1>5
<1>7. rows' \in Seq({rows'[k] : k \in DOMAIN rows'})
  <2>1. rows \in Seq({rows'[k] : k \in DOMAIN rows'}) /\ mo \in {rows'[k] : k \in DOMAIN rows'}
    BY <1>5, <1>6
  <2> QED
    BY <1>1, <2>1
<1>8. /\ runs' = [s \in Runs |-> runs'[s]] /\ \A s \in Runs : FoundFits(s)'
      /\ runs'[r].at = "inserting" /\ runs'[r].todo = todo
      /\ \A s \in Runs : s # r => runs'[s] = runs[s] /\ (Inserting(s)' <=> Inserting(s))
  BY <1>1, <1>4, OtherRuns
<1>9. OneInserts'
  BY <1>1, <1>8 DEF MilestonesInv, OneInserts, Inserting
<1>10. \A key : key \in StoredKeys' => key \in StoredKeys \/ key = milestoneKey(mo)
  <2> SUFFICES ASSUME NEW k \in DOMAIN rows' PROVE eventMilestoneKey(rows'[k]) \in StoredKeys \/ eventMilestoneKey(rows'[k]) = milestoneKey(mo)
    BY DEF StoredKeys
  <2>1. CASE k = n
    BY <1>3, <1>6, <2>1 DEF eventMilestoneKey
  <2>2. CASE k # n
    <3>1. k \in DOMAIN rows /\ rows'[k] = rows[k]
      BY <1>6, <2>2
    <3> QED
      BY <3>1 DEF StoredKeys, eventMilestoneKey
  <2> QED
    BY <2>1, <2>2
<1>11. NotYetStored'
  <2> SUFFICES ASSUME ~overlap', NEW s \in Runs, Inserting(s)', NEW o \in runs'[s].todo PROVE milestoneKey(o) \notin StoredKeys'
    BY DEF NotYetStored, milestoneKey
  <2>1. s = r
    BY <1>1, <1>8 DEF MilestonesInv, OneInserts
  <2>2. o \in todo /\ o \in runs[r].todo
    BY <1>8, <2>1
  <2>3. milestoneKey(o) \notin StoredKeys
    BY <1>1, <2>2 DEF MilestonesInv, NotYetStored
  <2> QED
    BY <1>4, <1>10, <2>2, <2>3
<1>12. OneRowPerKey'
  <2> SUFFICES ASSUME ~overlap', NEW k \in DOMAIN rows', NEW l \in DOMAIN rows',
                      eventMilestoneKey(rows'[k]) = eventMilestoneKey(rows'[l])
               PROVE  k = l
    BY DEF OneRowPerKey
  <2>1. milestoneKey(mo) \notin StoredKeys
    BY <1>1, <1>2 DEF MilestonesInv, NotYetStored
  <2>2. \A i \in DOMAIN rows' : i # n => /\ i \in DOMAIN rows /\ eventMilestoneKey(rows'[i]) = eventMilestoneKey(rows[i])
                                         /\ eventMilestoneKey(rows[i]) # milestoneKey(mo)
    <3> SUFFICES ASSUME NEW i \in DOMAIN rows', i # n
                 PROVE  /\ i \in DOMAIN rows /\ eventMilestoneKey(rows'[i]) = eventMilestoneKey(rows[i])
                        /\ eventMilestoneKey(rows[i]) # milestoneKey(mo)
      OBVIOUS
    <3>1. i \in DOMAIN rows /\ rows'[i] = rows[i]
      BY <1>6
    <3> QED
      BY <2>1, <3>1 DEF StoredKeys, eventMilestoneKey
  <2>3. eventMilestoneKey(rows'[n]) = milestoneKey(mo)
    BY <1>3, <1>6 DEF eventMilestoneKey
  <2>4. OneRowPerKey /\ ~overlap
    BY <1>1 DEF MilestonesInv
  <2> QED
    BY <2>2, <2>3, <2>4 DEF OneRowPerKey
<1> QED
  BY <1>1, <1>7, <1>8, <1>9, <1>11, <1>12 DEF MilestonesInv

LEMMA MilestonesStep == ASSUME MilestonesInv, [MilestonesNext]_milestoneVars PROVE MilestonesInv'
<1>1. ASSUME rows' = rows, runs' = runs, overlap' = overlap PROVE MilestonesInv'
  BY <1>1 DEF MilestonesInv, FoundFits, KeysDiffer, OneInserts, NotYetStored, OneRowPerKey, Inserting, StoredKeys,
       milestoneKey, eventMilestoneKey
<1>2. ASSUME NEW p \in Persons, NEW d \in Dates, SignUp(p, d) \/ Act(p, d) PROVE MilestonesInv'
  BY <1>1, <1>2 DEF SignUp, Act
<1>3. ASSUME NEW d \in Dates \cup {never}, SetFoundedAt(d) \/ SmileOrNot(d) PROVE MilestonesInv'
  BY <1>1, <1>3 DEF SetFoundedAt, SmileOrNot
<1>4. CASE DayGoesBy \/ UNCHANGED milestoneVars
  BY <1>1, <1>4 DEF DayGoesBy, milestoneVars
<1>5. ASSUME NEW r \in Runs, AfterSync(r) PROVE MilestonesInv'
  BY <1>5, DetectKeeps DEF AfterSync, Detect
<1>6. ASSUME NEW r \in Runs, NEW p \in Persons, DeletePerson(r, p) PROVE MilestonesInv'
  BY <1>6, DetectKeeps DEF DeletePerson, Detect
<1>7. ASSUME NEW r \in Runs, EndRun(r) PROVE MilestonesInv'
  <2>1. KeysDiffer({}) /\ (IF runs[r].todo = {} THEN "done" ELSE "failed") # "inserting"
    BY DEF KeysDiffer
  <2> QED
    BY <1>7, <2>1, NoInsert DEF EndRun
<1> QED
  BY <1>2, <1>3, <1>4, <1>5, <1>6, <1>7, LookAtRowsKeeps, InsertKeeps DEF MilestonesNext

LEMMA ViewShowsOnce == MilestonesInv => ShownOnce
<1> SUFFICES ASSUME MilestonesInv PROVE ShownOnce
  OBVIOUS
<1> DEFINE view == loadCalendarView
           extra == {mo \in Detected : milestoneKey(mo) \notin StoredKeys}
<1>1. KeysDiffer(Detected)
  BY FoundKeys DEF Detected
<1>2. \A k \in DOMAIN rows : k # 0 /\ eventMilestoneKey(rows[k]) \in StoredKeys
  <2>1. DOMAIN rows = 1..Len(rows) /\ Len(rows) \in Nat
    BY DEF MilestonesInv
  <2> QED
    BY <2>1 DEF StoredKeys
<1>3. \A e \in view : \/ \E k \in DOMAIN rows : e = [row |-> k, shown |-> rows[k]] /\ keyOf(e) = eventMilestoneKey(rows[k])
                      \/ \E mo \in extra : e = [row |-> 0, shown |-> mo] /\ keyOf(e) = milestoneKey(mo)
  BY <1>2 DEF loadCalendarView, keyOf
<1>4. keysOf(Detected) \subseteq {keyOf(e) : e \in view}
  <2> SUFFICES ASSUME NEW mo \in Detected PROVE milestoneKey(mo) \in {keyOf(e) : e \in view}
    BY DEF keysOf
  <2>1. CASE milestoneKey(mo) \in StoredKeys
    <3>1. PICK k \in DOMAIN rows : milestoneKey(mo) = eventMilestoneKey(rows[k])
      BY <2>1 DEF StoredKeys
    <3>2. [row |-> k, shown |-> rows[k]] \in view
      BY DEF loadCalendarView
    <3>3. keyOf([row |-> k, shown |-> rows[k]]) = milestoneKey(mo)
      BY <1>2, <3>1 DEF keyOf
    <3> QED
      BY <3>2, <3>3
  <2>2. CASE milestoneKey(mo) \notin StoredKeys
    <3>1. [row |-> 0, shown |-> mo] \in view
      BY <2>2 DEF loadCalendarView
    <3>2. keyOf([row |-> 0, shown |-> mo]) = milestoneKey(mo)
      BY DEF keyOf
    <3> QED
      BY <3>1, <3>2
  <2> QED
    BY <2>1, <2>2
<1>5. ASSUME ~overlap, NEW e \in view, NEW f \in view, keyOf(e) = keyOf(f) PROVE e = f
  <2>1. \A k, l \in DOMAIN rows : eventMilestoneKey(rows[k]) = eventMilestoneKey(rows[l]) => k = l
    BY <1>5 DEF MilestonesInv, OneRowPerKey
  <2>2. \A a, b \in extra : milestoneKey(a) = milestoneKey(b) => a = b
    BY <1>1 DEF KeysDiffer
  <2>3. \A a \in extra, k \in DOMAIN rows : milestoneKey(a) # eventMilestoneKey(rows[k])
    BY <1>2
  <2> HIDE DEF view, extra
  <2> QED
    BY <1>3, <1>5, <2>1, <2>2, <2>3
<1> QED
  BY <1>4, <1>5 DEF ShownOnce

(* For any people, dates, thresholds, ladder and number of runs at once: while *)
(* no run looked at the rows as another was inserting, a milestone has one     *)
(* row, and the calendar lists every milestone earned, and each once           *)
(* (persistWorkspaceMilestones, mergeCalendarMilestones).                      *)
THEOREM MilestonesAreShownOnce == MilestonesSpec => [](OneRowPerKey /\ ShownOnce)
<1>1. MilestonesInit => MilestonesInv
  BY MilestonesBegin
<1>2. MilestonesInv /\ [MilestonesNext]_milestoneVars => MilestonesInv'
  BY MilestonesStep
<1>3. MilestonesInv => OneRowPerKey /\ ShownOnce
  BY ViewShowsOnce DEF MilestonesInv
<1> QED
  BY <1>1, <1>2, <1>3, PTL DEF MilestonesSpec
=============================================================================
