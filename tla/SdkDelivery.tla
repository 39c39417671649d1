---------------------------- MODULE SdkDelivery ----------------------------
(* The SDK's event buffer against the batch endpoint: track() and flush() of  *)
(* one client (packages/sdk/src/index.ts), its send loop with retries, and    *)
(* POST /api/ingest/batch, with requests that arrive late or not at all and   *)
(* answers that are lost. JavaScript runs a call up to its first await in one *)
(* step; the loop awaits its fetch and its backoff, and nothing else.         *)
(* A track() before identify() returns at once and leaves no trace; what a    *)
(* person's tombstones do to an event is in People.                           *)
EXTENDS Integers, Sequences, Functions

CONSTANTS
  Tracks,      \* track() calls, each standing for its event
  Flushes,     \* flush() calls
  MaxBatch,    \* MAX_BATCH_EVENTS
  MaxRetries,  \* maxRetries
  MaxFaults    \* bound: requests that fail, are turned away or lose their answer

ASSUME SdkAssumption ==
  /\ MaxBatch \in Nat \ {0} /\ MaxRetries \in Nat \ {0} /\ MaxFaults \in Nat
  /\ Tracks \cap Flushes = {}

VARIABLES
  delays,   \* flushIntervalMs > 0: track() waits for a timer
  called,   \* the calls made
  queue,    \* the buffered events
  timer,    \* flushTimer is armed
  gate,     \* the calls whose promise is the gate; none when there is no gate
  loop,     \* sendLoop: idle, awaiting its fetch, or backing off
  posts,    \* requests sent so far: the last one is the loop's
  wire,     \* requests the server has yet to handle
  reply,    \* the answer to the loop's request
  rows,     \* activity rows: event and external id
  refused,  \* history: events of batches answered with a final 4xx
  gaveUp,   \* history: the last loop ran out of attempts
  faults

client  == <<called, queue, timer, gate, loop, posts>>
history == <<refused, gaveUp>>
sdkVars    == <<delays, client, wire, reply, rows, history, faults>>

Calls == Tracks \cup Flushes

Idle == [pc |-> "idle", batch |-> <<>>, attempt |-> 0]

(* The idempotency key is made by track(), once for the event.                *)
Key(e, n)    == <<e>>
Body(batch, n) == {[event |-> e, key |-> Key(e, n)] : e \in Range(batch)}

SdkInit ==
  /\ delays \in BOOLEAN
  /\ called = {} /\ queue = <<>> /\ timer = FALSE /\ gate = {}
  /\ loop = Idle /\ posts = 0 /\ wire = {} /\ reply = "none"
  /\ rows = {} /\ refused = {} /\ gaveUp = FALSE /\ faults = 0

-----------------------------------------------------------------------------
Post(batch) ==
  /\ posts' = posts + 1 /\ reply' = "none"
  /\ wire' = wire \cup {[n |-> posts + 1, body |-> Body(batch, posts + 1)]}

(* sendLoop from its while on, with events q buffered and the calls g waiting:*)
(* it posts the first batch, or settles the gate when all are sent.           *)
NextBatch(q) == SubSeq(q, 1, IF Len(q) < MaxBatch THEN Len(q) ELSE MaxBatch)

SendFrom(q, g) ==
  IF q = <<>>
    THEN /\ loop' = Idle /\ gate' = {} /\ reply' = "none" /\ UNCHANGED <<posts, wire>>
    ELSE /\ loop' = [pc |-> "posting", batch |-> NextBatch(q), attempt |-> 1]
         /\ gate' = g /\ Post(NextBatch(q))

(* flush(), called with events q buffered: it starts the loop, or joins it.   *)
Flush(q, g) ==
  /\ queue' = q /\ timer' = FALSE
  /\ \/ loop.pc = "idle" /\ SendFrom(q, g) /\ gaveUp' = FALSE
     \/ /\ loop.pc # "idle" /\ gate' = g
        /\ UNCHANGED <<loop, posts, wire, reply, gaveUp>>

(* scheduleFlush with a delay: the timer is armed unless the loop, which      *)
(* takes up what is added while it runs, is sending.                          *)
Schedule(q, g) ==
  /\ queue' = q /\ gate' = g /\ timer' = (timer \/ loop.pc = "idle")
  /\ UNCHANGED <<loop, posts, wire, reply, gaveUp>>

Track(c) ==
  /\ c \in Tracks \ called /\ called' = called \cup {c}
  /\ LET q == Append(queue, c)
     IN IF delays /\ Len(q) < MaxBatch THEN Schedule(q, gate \cup {c})
                                       ELSE Flush(q, gate \cup {c})
  /\ UNCHANGED <<delays, rows, refused, faults>>

CallFlush(c) ==
  /\ c \in Flushes \ called /\ called' = called \cup {c}
  /\ Flush(queue, gate \cup {c})
  /\ UNCHANGED <<delays, rows, refused, faults>>

TimerFires ==
  /\ timer /\ Flush(queue, gate)
  /\ UNCHANGED <<delays, called, rows, refused, faults>>

-----------------------------------------------------------------------------
(* postBatch: an attempt that fails is followed by a backoff, or is the last. *)
BugGiveUp == gate' = gate
GiveUp    == gate' = {}

AttemptFails ==
  /\ reply' = "none" /\ UNCHANGED <<queue, posts>>
  /\ \/ /\ loop.attempt >= MaxRetries
        /\ loop' = Idle /\ GiveUp /\ gaveUp' = TRUE
     \/ /\ loop.attempt < MaxRetries
        /\ loop' = [loop EXCEPT !.pc = "sleeping", !.attempt = @ + 1]
        /\ UNCHANGED <<gate, gaveUp>>

Wake ==
  /\ loop.pc = "sleeping" /\ loop' = [loop EXCEPT !.pc = "posting"] /\ Post(loop.batch)
  /\ UNCHANGED <<delays, called, queue, timer, gate, rows, history, faults>>

(* What is left when the batch is done with: calls made while it was in       *)
(* flight have added to the queue.                                            *)
BugRest == <<>>
Rest    == SubSeq(queue, Len(loop.batch) + 1, Len(queue))

(* A 2xx ends the batch, and so does a status that is not worth a retry.      *)
Done(status) ==
  /\ loop.pc = "posting" /\ reply = status
  /\ queue' = Rest /\ SendFrom(Rest, gate)
  /\ UNCHANGED <<delays, called, timer, rows, gaveUp, faults>>

Accepted == Done("ok") /\ UNCHANGED refused
Dropped  == Done("refused") /\ refused' = refused \cup Range(loop.batch)

TurnedAway ==
  /\ loop.pc = "posting" /\ reply = "again" /\ AttemptFails
  /\ UNCHANGED <<delays, called, timer, wire, rows, refused, faults>>

(* The fetch rejects: the connection breaks before the request or the answer  *)
(* got through, and the server may yet handle the request.                    *)
Rejected ==
  /\ loop.pc = "posting" /\ faults < MaxFaults /\ faults' = faults + 1
  /\ \/ UNCHANGED wire
     \/ \E r \in wire : r.n = posts /\ wire' = wire \ {r}
  /\ AttemptFails /\ UNCHANGED <<delays, called, timer, rows, refused>>

-----------------------------------------------------------------------------
(* POST /api/ingest/batch: one transaction, then the audit row.               *)
Insert(body) == rows \cup {b \in body : \A r \in rows : r.key # b.key}

Answered(r, status) ==
  /\ r \in wire /\ wire' = wire \ {r}
  /\ reply' = IF r.n = posts /\ loop.pc = "posting" THEN status ELSE reply
  /\ UNCHANGED <<delays, client, history>>

Store(r) == Answered(r, "ok") /\ rows' = Insert(r.body) /\ UNCHANGED faults

Fault == faults < MaxFaults /\ faults' = faults + 1

(* The audit insert fails after the commit.                                   *)
StoreUnaudited(r) == Answered(r, "again") /\ rows' = Insert(r.body) /\ Fault

(* Rate limit, overload, a failing transaction.                               *)
TurnAway(r) == Answered(r, "again") /\ UNCHANGED rows /\ Fault

(* A key that is no longer valid, a body that is too large, one bad event.    *)
Refuse(r) == Answered(r, "refused") /\ UNCHANGED rows /\ Fault

Handle(r) == Store(r) \/ StoreUnaudited(r) \/ TurnAway(r) \/ Refuse(r)

-----------------------------------------------------------------------------
SdkNext ==
  \/ \E c \in Calls : Track(c) \/ CallFlush(c)
  \/ TimerFires \/ Wake \/ Accepted \/ Dropped \/ TurnedAway \/ Rejected
  \/ \E r \in wire : Handle(r)

SdkSpec == SdkInit /\ [][SdkNext]_sdkVars
-----------------------------------------------------------------------------
Row    == [event : Tracks, key : {<<e>> : e \in Tracks}]
Loop   == [pc : {"idle", "posting", "sleeping"}, batch : Seq(Tracks), attempt : 0..MaxRetries]

SdkTypeOK ==
  /\ delays \in BOOLEAN /\ called \subseteq Calls /\ queue \in Seq(Tracks)
  /\ timer \in BOOLEAN /\ gate \subseteq called /\ loop \in Loop /\ posts \in Nat
  /\ reply \in {"none", "ok", "again", "refused"}
  /\ \A r \in wire : r.n \in 1..posts /\ r.body \subseteq Row
  /\ rows \subseteq Row /\ refused \subseteq Tracks /\ gaveUp \in BOOLEAN
  /\ faults \in 0..MaxFaults

Stored == {r.event : r \in rows}

(* An event is counted once, however often its batch is retried while earlier *)
(* requests are still being handled (CHANGELOG.md:239).                       *)
CountedOnce == \A r, s \in rows : r.event = s.event => r = s

(* Every event that was tracked is stored, still buffered, or in a batch that *)
(* the server refused for good: what is tracked while a batch is in flight is *)
(* not thrown away with it.                                                   *)
NothingLost == called \cap Tracks \subseteq Range(queue) \cup Stored \cup refused

(* Together: an event is never lost and never counted twice.                  *)
KeptAndCountedOnce == CountedOnce /\ NothingLost

(* Nobody waits for a client that does nothing, and it does nothing about a   *)
(* buffered event only after it ran out of attempts.                          *)
Served ==
  /\ gate # {} => timer \/ loop.pc # "idle"
  /\ queue # <<>> => timer \/ loop.pc # "idle" \/ gaveUp

(* What keeps them so: the loop's batch is the head of the queue, it is       *)
(* stored once the server has said so, and every copy of an event carries the *)
(* one key of the event.                                                      *)
BatchAhead ==
  /\ loop.pc # "idle" => /\ loop.batch # <<>> /\ Len(loop.batch) <= Len(queue)
                         /\ loop.batch = SubSeq(queue, 1, Len(loop.batch))
                         /\ loop.attempt > 0
  /\ reply # "none" => loop.pc = "posting"
  /\ reply = "ok" => Range(loop.batch) \subseteq Stored
  /\ \A r \in wire : r.n = posts /\ loop.pc = "posting" =>
       Range(loop.batch) \subseteq {b.event : b \in r.body}
  /\ Range(queue) \subseteq called

OneKey ==
  /\ \A r \in rows : r.key = <<r.event>>
  /\ \A r \in wire : \A b \in r.body : b.key = <<b.event>>

SdkInv == SdkTypeOK /\ NothingLost /\ Served /\ BatchAhead /\ OneKey

(* Every track() and flush() returns, whatever fails.                         *)
CallersReturn == \A c \in Calls : c \in called ~> c \notin gate

(* An event reaches the server, unless a loop runs out of attempts.           *)
Delivered ==
  \A c \in Tracks : c \in called ~> c \in Stored \cup refused \/ gaveUp

(* Together: whoever tracks or flushes is served, and so is what was tracked.  *)
EveryoneIsServed == CallersReturn /\ Delivered
=============================================================================
