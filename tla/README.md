# anykpi in TLA+

A verification project for [anykpi](../src/README.md): TLA+ models of the parts of the
system in which order, interleaving and failure decide whether the data is right, and of the
arithmetic its views rest on; the TLC runs that check them on small instances; and TLAPS
proofs of the results that matter most. Paths are relative to the repository; `core/…`,
`connectors/…`, `outreach/…`, `components/…` and `app/…` are below its `src` directory.

Contents: 1 the system, 2 what is done and what is next, 3 models and runs, 4 bounds and
reductions, 5 fairness, 6 proofs, 7 what the runs disagree with, 8 remarks on the code,
9 not modelled.

## 1. The system

anykpi is one Node process: a Next.js server with HTTP routes and an MCP endpoint, an
in-process scheduler that pulls connected sources, and one database (SQLite, or Postgres).
Apart from batch ingest and CSV import no handler opens a transaction, so **every awaited
database statement is an atomic step, and every await is a point at which any other handler
may run**. With Postgres each statement is a round trip; with SQLite the driver is
synchronous and the points that really yield are those on the network (a provider call, the
mail server). The models take the Postgres view, whose behaviours include the other's. Beside
the server there are an SDK, which buffers events in the customer's process, a CLI, and the
dashboard's pages, whose handlers act on what they closed over when they were rendered.

### Components

| component | state it keeps | operations | talks to |
|---|---|---|---|
| Outreach (`outreach/`, `core/outreach-outcomes.ts`) | `outreach`, `outreach_delivery`, tags in `config`, `audit_log` | queue, approve, edit, deliver, tag | mail transport, `users`, person deletion |
| Mail transport (`outreach/transport.ts`) | one SMTP dialogue, or one HTTP call | sendMail | deliverOutreach |
| Source registry (`connectors/index.ts`, `lock.ts`, `core/sources.ts`) | in-flight map, `sources`, `sync_state` | sync, connect, pause, resume, disconnect, clear error | connectors, scheduler, routes, MCP |
| Scheduler (`core/scheduler.ts`) | timer, pass in flight, last nightly day | start, stop, tick | registry |
| Incremental connectors (`posthog.ts`, `mixpanel.ts`, `amplitude.ts`) | cursor in `config`, `activity`, `users` | paged pull, resume | registry, tombstones |
| Revenue connectors (`stripe.ts`, `revenuecat.ts`, `app/api/webhooks/stripe`) | `person_revenue`, `subscription_events`, `mrr_snapshots` | pull, webhook | registry, tombstones |
| Snapshot connectors (`mercury.ts`, `ics.ts`, `github.ts`) | `balance_snapshots`, `cal_events`, metric rows | replace | registry |
| Person ingest (`app/api/ingest`, `core/ingest-batch.ts`, `core/csv-import.ts`) | `activity`, `users`, the stored import plan | identify, event, batch, webhook, import | tombstones |
| Person deletion (`core/tombstones.ts`) | `tombstones`, every table with person rows | purge, tombstone | every writer |
| SDK (`packages/sdk`) | event queue, timer, gate, send loop | identify, track, flush | batch ingest |
| Workspaces (`core/workspaces.ts`) | catalog rows | ensure, create, archive, delete | everything keyed by workspace |
| Keys and sessions (`core/auth.ts`, `core/session.ts`) | `api_keys`, signed cookie | authorize, unlock, merge, revoke | every route |
| MCP (`app/api/mcp`, `mcp/server.ts`, `core/mcp-write-tools.ts`) | `audit_log` | read and write tools, two surfaces | everything |
| Rate limit (`core/rate-limit.ts`) | fixed-window counters | check | write routes |
| Deck builder (`core/wbr-builder.ts`) | `metric_defs`, `metric_points`, the deck in `config` | define, edit, retire, reorder, import | views |
| Derived data (`core/clustering.ts`, `core/milestones.ts`) | `users.cluster`, `cal_events` | recompute | registry, ingest, deletion |
| Read models (`core/views`, `core/day.ts`, `core/presence.ts`) | none | weekly review, cohorts, day clock, presence | all tables |
| Research (`core/research.ts`, `ResearchDisclosure.tsx`) | a cache of answers | list, approve, search | a provider |
| Pages (`components/`, `app/connect`) | their form, what they last read, the URL | loads, saves, polls | HTTP routes |
| CLI (`packages/cli`) | a config file | one request per command | HTTP routes |

Components interact by calls (route to registry, registry to connector), by shared tables
(every writer and the deletion), by shared promises (callers of one source's run, callers of
one SDK flush) and by messages that may be lost, late or out of order (SDK to batch route,
mail, provider pages, webhooks, a page's requests).

### What is hard, and what makes each component correct

| component | hard behaviour | correct when |
|---|---|---|
| Outreach | a draft is edited, re-approved, sent and deleted between the statements of a delivery; the provider accepts and the answer is lost | only a text some approver accepted ever leaves; the log claims no more than happened |
| Mail | replies of any code, silence, a close in the middle | a mail counts as sent only when the server took it; a send ends |
| Source registry, scheduler | triggers overlap; a run fails at any statement; restart in the middle; lifecycle calls rewrite the rows a run writes | one run per source; the row agrees with the answer; no waiter is forgotten; nothing stays pending |
| Incremental connectors | a pull stops on any page and another resumes from the saved cursor | a caught-up cursor leaves no gap below its watermark |
| Revenue | webhooks delivered twice and in any order, beside a pull that stops, beside a deletion | the ledger has each event once, of nobody erased, and rows end at what the provider says |
| Person ingest and deletion | seven kinds of writers check tombstones at one await and write at another | nobody deleted comes back through a later request; accepted data has a user |
| SDK and batch route | calls during a flight, retries of what was stored, late copies, lost answers | nothing lost, nothing counted twice, nobody waits for ever |
| Workspaces, keys, sessions, MCP | a key is revoked, minted or downgraded and a workspace deleted between a request's check and its write | nothing is stored, minted or taken back but where the key may; a deleted workspace stays empty; every write is logged |
| Rate limit | windows that meet, a sweep when there are many clients | the limit holds, and a Retry-After is never too short |
| CSV import | quotes over lines, imports beside deletions and each other | a row is reported at its line; what is answered is stored |
| Deck, clusters, milestones | check then insert; stale copies written back | a defined metric is shown, a week has one point, a milestone one row |
| Views | leap years, changes of the clocks, weeks without data | windows partition their days; everybody is counted once; grades are fair |
| Pages | answers overtake each other, a tab is hidden, the workspace changes under a request | what is shown is what the server has, or is asked for again |

The full list of hazards, each at its line and with the properties that would catch it, is
in `PROJECT.json`.

## 2. What is done, and what is next

The models were written in the order of what is lost when they are wrong: outreach, the
registry, the incremental pulls, people, the SDK; then revenue, access and MCP, mail, limits,
imports; then the deck and the read models, the snapshot connectors, and the pages. Modules
compose as follows: `SourceSync` treats a pull as its outcome, which `IncrementalPull` and
`Revenue` refine (one run of a source at a time, proved of `SourceSync`, is their assumption);
the inserts of every writer are the writers of `People`; the batch endpoint of `SdkDelivery`
is the `batch` writer of `People`; `Mcp` extends `Access`, whose steps its tool calls share;
the mail step of `Outreach` is a send of `Smtp`.

Proved so far (section 6): every safety property and action property of outreach, the
registry, the pulls, people, the SDK, revenue, access, MCP, mail, the limiter, research,
the CSV parser and import, the pages, the deck and the labels that a passing run checks, and
of the earned moments that each is stored and shown once. What is next: that a pull of
`IncrementalPull` is a step of `SourceSync`'s run.

## 3. Models and runs

Components that do not share state are checked in one run, as parts of one instance: a
variable `part` is chosen at the start and only that part's actions are taken, so a run is
the disjoint union of the parts and its properties say what each part must keep.

### Outreach (`Outreach`, `OutreachPromise`, `MCOutreach`)

`outreach`, `deliveries`, `audited`, `tags`, `emails` are the tables; `req[r]` is a handler
with its program counter (`pc`, named for the statement it is about to make), its call's
arguments, and `seen`, the copy of the row it read before an await and acts on later.
`approvals` and `mailed` are history variables, and so is `calm`, which ends when two
requests meet or a send is cut short after its message left. Actions, one per awaited
statement: `QueueInsert`, `ApproveLoad`, `ApproveUpdate`, `EditLoad`, `EditUpdate`,
`SendLookup`, `DeliverLoad` to `DeliverLog`, `TagCheck`, `TagWrite`, `WriteAudit`, `Reload`,
`Fail` at any of them, and the deletion's statements on drafts (`Purge…`). The mail step has
three outcomes: delivered, failed, delivered with the answer lost. `updateOutreachBody` is an
exported operation with no caller in `src/`; it is modelled as the action a caller would make.
`OutreachPromise` is what is seen from outside: approve, mail an approved text once per
request, log what was mailed, erase. `Outreach` implements it (`Promised`).

| run | asks | shows |
|---|---|---|
| `outreach_safety` | `NothingSendsUnapproved`, `RecordsAreTrue`, `CalmMailsOnce`, `Promised`, `CalmSentIsFinal` | four handlers of any kinds on one draft, two texts, faults anywhere, a deletion |
| `outreach_resend` | `OneMailPerApproval` | violated as soon as two sends overlap (section 7) |

### Source registry, scheduler, mail (`SourceSync`, `MCSourceSync`, `MCInFlight`, `Smtp`, `MailPromise`)

`sources` and `state` are the tables (`last_sync` reduced to which write stamped it),
`inflight` the lock's map, `run[k][s]` the `runSource` invocations (more than one slot per
source, so that a broken lock could show), `request` the POST /sync handlers, `pass` and
`lastNightly` the scheduler, `op` the lifecycle handlers. A run's steps are the awaits of
`sync()`/`runSource` in order with the try/catch that each is under; a connector's own
`sync_state` writes (success, failed, thrown) are steps of the run; a restart drops
everything but the tables. `Settle` runs the lock's `finally` and wakes every joiner in one
step, as the shared promise does. `voided` is history: a clear-error rewrote a row, or a
restart cut its run short.

`Smtp` is one send: which credentials are found (Resend before SMTP), the Resend call, and
the dialogue of `sendSmtp` step by step with every reply, continuation line, silence, error
and quiet close. `MailPromise` is what `sendMail` promises its caller; `Smtp` implements it.

| run | asks | shows |
|---|---|---|
| `in_flight` | `IInv`, `StateMatchesAnswer`, `NightlyReconciles` | part sync: two requests, the scheduler over two days and one lifecycle call of any kind, with a failing statement or a restart |
| `sync_live` | `EverythingSettles`, `MailPromiseKept`, `SendSettles` | every trigger is answered, passes end, `pending` does not stay, with a restart, a fault, a pause or clear-error; a send ends, unless the server closes the connection without a word |
| `sync_disconnect` | `DisconnectRemovesState` | violated (section 7) |

### Events coming in (`IncrementalPull`, `SdkDelivery`, `MCIngest`)

`IncrementalPull`: upstream's events arrive in time order (`remote`); a pull reads the stored
cursor (`slot`), imports pages of persons, then pages of events in the style of its provider
(`link`: newest first behind upstream's own URL; `above`: strictly later than the last second
seen; `from`: from the last time on), saves the cursor after every page, and may stop at any
await. Events may share a time, as seconds and
milliseconds do; `seams` are the times at which a page or a watermark has cut the order, and
an event is `Split` when it has the time of such a cut and of a stored event: only PostHog and
Mixpanel, which go on strictly beside that time, can lose it. `MAX_PAGES` is `MaxPages`;
`capped` records that a pull ran into it, in which case the code falls through to `caught_up` with pages left (a false watermark when the pages come
newest first), and the safety properties make no claim.

`SdkDelivery`: `queue`, `timer`, `gate` (the calls that hold the gate's promise), `loop` (what
`sendLoop` awaits, its batch and attempt) are the client's fields; `wire` holds requests the
server has yet to handle, including those the client gave up on, and `rows` the stored events
by external id. A call runs up to its first await in one step, so `Track` contains the whole
of `flush()`, the loop's first snapshot and its `fetch`. A request may be handled late, after
its retry; it may be refused, turned away, committed with the audit row failing; its answer
may be lost. `drained && queue.length > 0` (`index.ts:212`) never holds, since nothing runs
between the two tests, and has no action.

| run | asks | shows |
|---|---|---|
| `ingest` | `NoGap`, `PersonsFirst`, `PullIsComplete`, `EventuallyComplete`; `KeptAndCountedOnce`, `EveryoneIsServed` | part pull: three styles, four events two of which share a second, an interrupted pull, nightly pulls from the beginning; part sdk: three `track()` calls and a `flush()`, batches of two, two attempts, three faults, timer or no timer |

`NoGap`, `PullIsComplete` and `EventuallyComplete` except `Split` events and no others, so that
a page that ends inside a second happens in the run and costs the rest of that second and
nothing else. That is less than CHANGELOG.md:246-249 says ("PostHog, Mixpanel, and Amplitude
paginate to completion"): Mixpanel's next page asks for times above the last second of a full
page (`connectors/mixpanel.ts:73,242`), so the events of that second that did not fit are asked
for neither by that pull nor by those that go on from its watermark, and a nightly pull pages
the same way. `PullIsComplete` also exempts a PostHog pull that resumes an earlier pull's
link, which lists what that link listed: newer events wait for the next pull, and
`EventuallyComplete` covers them. `EventuallyComplete` excepts Amplitude when the events of
one time fill a page (`Stuck`): it asks again from that time on, gets the same page, and does
so until `MAX_PAGES`, pull after pull.

### Person ingest and deletion (`People`, `MCPeople`, `MCInFlight`)

`users`, `activity`, `revenue`, `subEvents` hold, for each row, the author that wrote it;
`writer[w]` is a writing handler of one of seven kinds, `deletion[d]` a DELETE handler, both
with a step per awaited statement in the code's order. `began` is what was tombstoned when a
writer arrived, `done` the writers that had settled when a deletion began; both are history.
A CSV file of events writes as a `batch` of people without emails; a Stripe invoice is a
`revenue` writer that stops after the upsert; a webhook delivery's event is an `event`; the
account ids that a deletion also tombstones are members of `Emails`.

| run | asks | shows |
|---|---|---|
| `in_flight` | `ErasureHolds`, `AcceptedHasUser` | part people: any two writers of all kinds beside a deletion, one handler failing |
| `people_retry` | `RetryTombstones` | violated (section 7) |

### Revenue (`Revenue`)

`up` is what a provider holds, `mail` the webhooks it has yet to deliver (at least once, in
any order); `rows`, `ledger` and `snapshot` are the tables; `proc` is what each webhook
request and each pull is doing, with a step per awaited statement (`Receive`, `Begin`,
`Pull`, `Apply`, `Answer`); `del` is how far the deletion of a customer's person has come.
`answered`, `charged` and `straddled` are history.

| run | asks | shows |
|---|---|---|
| `revenue_live` | `LedgerIsTrue`, `RevenueSettles` | two workspaces (a Stripe customer with two webhook requests at a time, which race each other and a pull; two RevenueCat customers, a page each; any two changes, invoices, deletions or failures): the ledger has what was answered and nothing it cannot have, rows come to agree with the provider and the week's snapshot with the rows |

### The server's edge and the pages (`Access`, `Mcp`, `RateLimit`, `Csv`, `Research`, `PmfPage`, `DayTracker`, `ViewUrl`, `LivePage`, `Settings`, `Pages`, `MCServer`)

* `Access`: requests of eleven kinds against `api_keys`, the catalog, the session cookie and
  the audit log; one record per request, one action per awaited statement, the purge of a
  workspace in its two steps. `Mcp` extends it with the tool calls of both surfaces.
* `RateLimit`: the fixed window of `core/rate-limit.ts` with its sweep over full tables.
* `Csv`: `parseCsv` one character per step; and imports (kind and mapping resolved against
  the stored plan, validation, tombstones, the counts around one transaction, the plan saved)
  beside other imports and deletions.
* `Research`: the dialog over a queue of people, the fields it lists and the founder unticks,
  the search by either provider, the cache, other callers of the route.
* `PmfPage`: the outreach queue with the list each of its handlers closed over. `DayTracker`:
  the Day page's ticks, cities, celebrations and preferences over several tabs' storage.
  `ViewUrl`: what four views write to the address and read back, replaced when the router
  comes to it. `LivePage`: the freshness poller and the four pages that use it.
* `Settings`: the connect page's profile form, CSV form and connector health panel, and the
  setup flow, with overlapping requests.
* `Pages`: the gate of a live workspace (the session request, the unlock form and logout,
  answered in any order), and the composition of the five modules above behind it, each by
  itself. Its properties are what `server` checks and section 6 proves of the pages.

| run | asks | of parts |
|---|---|---|
| `server` | `KeysAreObeyed`, `NoGhosts` | access, tools: three requests; two tool calls beside one request |
| | `WritesAreAudited` | access, tools; a tool call whose answer repeats the words "not implemented" out of its arguments is excepted, since the code takes it for one that did not run |
| | `LimitHolds` | rate: two clients, a window of three ticks, a table that is full |
| | `RowsAreReported` | csv: every text of up to five characters of the five kinds that matter |
| | `ImportIsTrue` | import: two imports, a failing statement, a deletion |
| | `ResearchHolds` | research |
| | `PagesHold` | gate, drafts, url, page |
| | `DayHolds` | day: one tab with one load, a pick and a reload; several tabs and loads are left to the proof (section 6) |
| | `SettingsHold` | profile, form, panel |
| `calendar_refetch` | `RefetchesOnChange` | violated (section 7): `LivePage` alone, with the Calendar |

### The read models and snapshot connectors (`DayClock`, `WbrSeries`, `WbrLanes`, `WbrDeck`, `Milestones`, `Cohorts`, `Presence`, `Clusters`, `Snapshots`, `MCViews`)

Where a model is of an algorithm, its data grows step by step (a day passes, a week is
appended, a person joins, a row arrives late), so that the properties hold the operator
against its reference at every size up to the bound.

| run | asks | of parts |
|---|---|---|
| `views` | `ClockIsRight` | clock: `core/day.ts` at every quarter of a day over years with a leap day, in zones that change their clocks in the morning, at midnight, never |
| | `WbrHolds` | series: the windows of a metric, day by day for a year; stat: the grade of every series of up to five weeks; lanes: the finance lanes over histories with gaps agree in their weeks and count each subscription once |
| | `MilestonesHold` | moments: overlapping runs and deletions |
| | `CohortsHold` | cohorts: three people join, use, and sources bring days late, in cohorts of three days of which the last may be cut short |
| | `DeckHolds`, `WritesOnlyFill` | deck: three overlapping calls, every kind of call among them |
| | `PresenceHolds` | presence: rows in any order |
| | `ArchetypesFit`, `WritesOnlyFill` | clusters: a person of every rhythm, the two writers of labels |
| | `SnapshotsHold` | feed: rules of every frequency, across changes of the clocks; lines: every feed of five lines; bank: pages while money moves; hub: rows and points replaced one by one |
| `lanes_yoy` | `SameWeekLastYear` | violated (section 7): the part lanes alone |

Where two runs overlap the milestones' properties are excepted (`overlap`): the table has no
key, two runs may both look before either inserts, and what then becomes of the rows nothing
promises. `OnlineIsReal` likewise speaks of rows that arrive in the order of their times; the
other parts of `PresenceHolds` hold of rows in any order.

## 4. Bounds and reductions

Every bound is a constant. `Requests`, `Writers`, `Ops`, `Calls`, `Jobs`, `Imports`,
`Deletions`, `Tracks` and `Flushes` bound the handlers, each used once; `Max…` constants
bound failures, restarts, days, changes and moves. No counter is compared with a bound
anywhere else.

Why these sizes: a race of this code is between two handlers that act on one row, so one
draft, one source, one customer or one person with its two spellings, and two to four
handlers, reach every pair and every chain of the kind "read, overtaken, overtaken again,
write". Two attempts a batch and three faults exhaust the SDK's attempts on one batch with a
fault left for the next; three events in batches of two make a second batch that is not full.
Four events in pages of two give two full pages and an empty one; with `MaxPages` of three a
pull with every event in front of it completes, except that a provider asked from a time on
repeats the last event on each page and runs into the limit, so capped and complete pulls both
happen. The second and third of them share a second, so that a full page ends inside it or not,
depending on how many have arrived; that any number may, in any place, is what the theorems
add. The cohorts' periods are three days in a window of up to six, the least in which rounding
the number of periods down loses a day of use. Two sources are not needed for safety of the
registry: the code keeps nothing across sources but the pass, and the theorem about the lock
holds for any set of them. The server's first request is of those that take something away or open a workspace, the second of those
that store, mint or unlock, the third of any; two of a kind differ only in what the lists of
`MCServer` name.

Reductions: `OneSideCall` (`outreach_safety`: at most one of the four requests edits or tags)
and `OneMishap` (`in_flight`, syncs: one fault or one restart, and with it one of the two
requests) are state constraints, used only in runs without liveness. `Live` (in `MCOutreach`
and, for the people of `in_flight`, in `MCPeople`), given as VIEW, drops the locals of settled
handlers, which no guard and no property of those runs reads; `Live` of `MCPeople`
keeps of them exactly what the properties ask. Symmetry is used only over handlers, two
texts and the two spellings, that the instance does not distinguish, and only in runs without
liveness properties; the requests and the writers of `in_flight` share their names, as neither
part tells them apart. `CHECK_DEADLOCK FALSE` everywhere: each handler is used once, so an
instance ends when all have settled.

`MCPeople` starts with people who exist with all their rows, or not at all.

## 5. Fairness

Liveness is asked in three runs and in one run that is violated.

* `SourceSync`: weak fairness of each run's step, of answering a request whose runs have
  settled, of the tick, the listing of targets and the end of a pass. Awaited statements
  return or throw, `fetch` has header and body timeouts, and `setInterval` goes on firing. No
  fairness of faults, restarts, lifecycle calls or new requests.
* `Smtp`: of the two loads, of the Resend call (bounded by fetch's timeouts) and of `Fail`,
  the 15 seconds of a silent dialogue; not of the server's replies. A server that closes the
  connection without an error leaves the promise open, and `SendSettles` excepts it.
* `IncrementalPull`: of starting an incremental pull (the scheduler) and of a pull's steps;
  nothing about upstream's arrivals. Interruptions are bounded, which is what "once pulls
  stop failing" means.
* `SdkDelivery`: of the timer, of the backoff, of the loop going on when its answer is there,
  and of the server handling the request the client waits for. A request that was removed
  from the wire is one whose `fetch` rejects in the same step. Requests that the client no
  longer awaits may stay unhandled for ever.
* `Revenue`: Stripe goes on delivering an event until it is answered ok; the steps of a
  request and of a pull are taken; the scheduler starts pulls. Failures are bounded.
* `LivePage` (in the run that is violated): of the interval, of requests being served and of
  answers being read. Without it the page would be allowed to stop instead of looping.

## 6. Proofs

The theorems hold for any sets of handlers, people, sources and events, any number of faults
and any sizes, under the named ASSUMEs of each module (which only say what kind of values the
constants are). Each follows one argument: a strengthening is initial and kept by each
action, one lemma per action or group of actions, and implies the property. Everything a
composition (`MCIngest`, `MCServer`, `MCSourceSync`, …) adds is bounds and the choice of a
part: it extends the modules the theorems are about.

* `OutreachProofs`: the properties speak of what has been mailed, while a delivery acts on a
  copy it read before several awaits. `IInv` adds that an approved row carries a text its
  approver accepted (`RowsApproved`), that so does every copy in flight (`CopiesApproved`:
  approvals are never withdrawn from the history, so a copy stays true however old), and
  that handlers past the provider have their message (`MailOnce`). `CalmInv` is a count: while
  no two requests have met, an approved row, or the one delivery that has read it, stands for
  an approval not yet mailed, so that mails never outnumber approvals. Theorems: `Inductive`,
  `TypeCorrect`, `NothingUnapprovedIsSent`, `LogIsTruthful`, `SentRowsWereMailed`,
  `AnsweredSendsAreAudited`, `RecordsStayTrue`, `CalmMailsOncePerApproval`,
  `CalmSentStaysSent`, and `ImplementsPromise`, that each step is a step of `OutreachPromise`
  or a stutter.
* `SourceSyncProofs`: that one run pulls a source is not inductive alone; `LockNamesRuns` (the
  map names exactly the runs in progress) and `NoLostWakeup` (who waits, waits on a run in
  progress) are. That a row at rest says what its last run answered (`StateMatchesAnswer`)
  needs that a run's own writes stamp the row it will answer from (`RowStaysStamped`), with
  the two exceptions that `voided` records. `NightlyReconciles` follows from `NightInv`: of a
  pass nobody disturbed, what it has left to pull and what it has pulled are its targets.
  Theorems: `Inductive`, `MutualExclusion`, `NobodyIsForgotten`, `RowsMatchAnswers`,
  `NightsReconcile`.
* `SourceSyncProofs`, milestones: the table has no key of its own, so that a row is the only
  one of its key is a matter of what each run holds. `MilestonesInv` says that what a run
  found has one moment of each key (`FoundFits`, `KeysDiffer`, from `FoundByKind`, what each
  detector can find), that one run inserts at a time (`OneInserts`) and that what it has left
  to insert is in no row (`NotYetStored`), the last two as long as no run looked at the rows
  while another was inserting (`overlap`). Theorem: `MilestonesAreShownOnce`, which holds for
  whatever the detectors say of dates and streaks.
* `IngestProofs`, pulls: `Position(cur, rows)` says what each position of a cursor claims
  about the stored rows; `IInv` says it of the stored cursor and of the running pull's.
  `PersonsInv` says that a position in the events was reached over all pages of persons.
  Events may share times in any way. What a position claims is therefore that everything up
  to its time is stored or split from a stored event of its time (`Covered`), and every time a
  cursor names is one the history `seams` knows (`Known`), so that the exemption is only of
  times at which a page was cut. Theorems: `PullInductive`, `CaughtUpIsTrue`,
  `PersonsComeFirst`, `PullsAreComplete`.
* `PeopleProofs`: `Clear` says a writer past its check carries only names that were free when
  it arrived; `Swept` says a table a deletion has passed holds nothing of the writers it
  found settled. Theorems: `Inductive`, `OnlyStraddlers`, `NamesStay`, `Accepted`,
  `ErasedStayErased`.
* `IngestProofs`, the SDK: `BatchAhead` says the loop's batch is the head of the queue and is
  stored once the server said so, and that the request awaited carries it; `OneKey` that all
  copies of an event carry its key. Theorems: `DeliveryInductive`, `NeverTwice`,
  `KeptUntilStored`, `NobodyForgotten`, `KeptOnce`.
* `BusinessProofs`, revenue: `LedgerInv` adds to the property what each request in progress
  has established: that the ledger names no invoice whose handling has not begun
  (`NoChargeInvented`), that a row of an erased person can only be of one who was looked up
  before (`StaysErased`, `ErasedFit`). Theorem: `LedgerStaysTrue`.
* `BusinessProofs`, the deck: every call carries a copy of the deck's JSON, of a row and of
  the points, and writes from it awaits later, so `DeckInv` says what the copies may hold
  whoever wrote meanwhile. `RetiredInv`: no deck, stored or in hand, has a metric retired that
  nobody asked to retire. `RowsInv`: a call past its write of a metric's row finds the row.
  `PointsInv`: the map an import made of the points names rows of its own metric and week
  (`KnownFits`), misses no week but one another import writes (`NewFits`), and what it is
  through with is stored (`StoredFits`); `Contested` is the exception, and there is none while
  calls do not overlap. `AloneInv`: until calls that write overlap, the one there is stands at
  a stage (`StageFits`) where the deck, or its copy, is what is due. The proof of each action
  says what it makes of its own call; `Keeps` and the lemmas ending in `Stay` say that the
  others are not disturbed. Theorems: `DeckStaysTrue`, `ImportsAreStored`.
* `BusinessProofs`, labels: a job writes names for the people it read two awaits earlier.
  `LabelsInv` says that until two jobs meet there is one (`OneAtATime`), and that those an
  ensure is about to label have no label yet (`EnsureFindsNone`). Theorem: `EnsureFillsOnly`.
* `AccessProofs`: a request's check and its write are several awaits apart, so the invariants
  say what a request carries: the caller it was authorized as, the keys barred when it began,
  the workspace it may write. A step of a request is summarized once (`Wrote`, `Paced`) and
  used for requests and tool calls alike; `McpInv` says the same of tool calls. The histories
  `late`, `sealed` and `purged` delimit what a deletion found. What a tool wrote is logged before
  it is answered, except calls with arguments `"echo"`, whose answer the guard of
  `recordMcpWriteAudit` passes over. Theorems:
  `AccessKeepsKeysObeyed`, `DeletedStaysEmpty`, `AnsweredWritesAreLogged`.
* `EdgeProofs`: mail (`SmtpInv` says what the server must have answered for the dialogue to
  stand where it stands; `MailKeepsPromise` maps each step to a step of `MailPromise` or a
  stutter); the limiter (`RateInv`: what a window counted, and how two windows meet,
  `TwoWindowsMeet`; `LimitIsKept`); research (`ResearchInv`: what a search carries was listed
  by the dialog that was approved; `OnlyTheApprovedLeaves`); imports (`ImportInv`: the
  tombstones a request holds cover who was erased before it began, what it has written stays
  written, and its counts are its own while no other write came between them;
  `ImportsStayTrue`); and the parser (`ParseInv`). What the text says is defined by counting
  over the whole of it: a character is quoted when an odd number of quotes stands before it.
  The parser keeps flags and counters instead. `ParseInv` ties them together: `inQuotes` and
  `line` are the counts up to `i`, and there is a start `s` such that the records are the rows
  before `s` and the row in hand is `s` to `i` (`RowInHand`). Each step moves both sides by one
  character, which needs no induction over data but the parser's own; `EveryRowIsReported`
  holds for a text of any length.
* `PagesProofs`: a page acts on what a request closed over, so each invariant says what the
  requests under way carry, and `PagesInv` is their conjunction. `GateInv`: a session request
  is of the workspace shown and, if nothing crossed it, was sent with the cookie there is; an
  unlock may be older, but only a logout can have come since. `DraftInv`: the draft shown and
  the copy that a handler closed over are at most as far as their row, and rows only go
  forward (`Later`). `LiveInv`: a tick carries a version the server has had, and a load of
  the page's subject is under way or answered whenever the page spins. `UrlInv`: what a view
  wrote reads back as it is (`CapIs` and its kin, about the codecs of a link). `ProfileInv`,
  `ImportInv`, `PanelInv`: a save carries the form of its space, an import the mapping of its
  own file, and a load that met no other has read what the server says (`AloneIsRead`); only
  the refetch that a call ends with may be left to read. `DayInv` and `DayLists`: a milestone
  that fired is in the local record unless its save was lost (`blind`); every list kept, in
  the preferences, the local storage, a patch or a load under way, is one that can be chosen;
  a painted tab's keys are what its list resolves to for its cities; and a pick is the tab's
  list until the page is loaded anew. The lemmas about lists (`OnlyGives`, `JoinedIs`,
  `PrefixIs`, `HeadedIs`, `ResolveIs`) say what filtering, joining, cutting and heading a
  list without duplicates gives; as the library's induction theorems cannot be used, they go
  by the least position at which a claim fails (`Least`). Assumed: the names of the code's
  special values name nothing else, and a ranking lists no city twice. Theorems:
  `PagesAreTrue`, `SettingsAreTrue`, `CitiesAreTrue`, of the composition; `GateOpensByCookie`,
  `QueueIsNotAhead`, `PageFollowsServer`, `MilestoneIsCelebratedOnce`, `ShownCitiesAreWhole`,
  `SettledUrlOpensTheView`, `PanelShowsTheServer`, of each module alone.

Out of the installed provers' reach, and model-checked only: liveness under fairness
(`EverythingSettles`, `SendSettles`, `EventuallyComplete`, `EveryoneIsServed`,
`RevenueSettles`), and what a fold or a recursive function computes for every input
(`WbrHolds`, `CohortsHold`, `PresenceHolds`, `ArchetypesFit`, `ClockIsRight`,
`SnapshotsHold`: series, calendars, recurrences, averages). Of `MilestonesHold`,
`OneRowPerKey` and `ShownOnce` are proved; `NothingIsProjected` and `StreakIsLongest` are
model-checked, as they rest on the recursive function in `longestRunOfDays`.

## 7. What the runs disagree with

* `outreach_resend`: CHANGELOG.md:198 speaks of structural per-send approval; the row is
  marked sent after the mail without a condition on its state, so two overlapping sends of
  one approval mail twice.
* `sync_disconnect`: `core/sources.ts:200` says disconnect deletes credentials and sync state;
  a run in flight writes the row again.
* `people_retry`: SECURITY.md:17 says a deleted person is tombstoned; a deletion that fails
  between its deletes and its tombstones leaves none, and the retry answers 404
  (`core/tombstones.ts:229`).
* `lanes_yoy`: spec/architecture.md:137 says "this week vs. same week last year"
  (docs/introduction.md:216 "real YOY", `core/views/revenue-math.ts:5`); the finance lanes take
  last year's weeks with a margin, keep the latest six, and compare with the last of those
  (`core/views/revenue.ts:51-62`): with a snapshot every week, the week 49 back.
* `calendar_refetch`: CHANGELOG.md:257 says views refetch when a stamp moves; the Calendar
  makes a new `today` on every render (`components/Calendar.tsx:90`), on which its load
  depends (lines 137 and 141), so every answer loads again.

## 8. Remarks on the code

Seen while modelling. The models contain each of these; the properties are stated so as to
hold in spite of them, and say so in their comments.

Delivery and sources
* Approving a draft that is already sent, between the check and the update, opens it again
  (`outreach/index.ts:206`); a delivery inserts its log row even when the person was deleted
  meanwhile (`outreach/deliver.ts:115`).
* Clearing an error reports success after a pull that failed, since failures stamp
  `last_sync` too (`core/sources.ts:281`); one during a first run leaves `pending` after an
  answer of ok. A sync pressed after a disconnect leaves an error row of a source that is no
  longer connected.
* A nightly pass that joins an incremental run, or cannot list its targets, still marks the
  day reconciled (`core/scheduler.ts:183`; docs/cron.md:39 promises a full reconcile).
* Amplitude asks again from the last time on: when the events of one time fill a page, it gets
  that page until `MAX_PAGES`, and newer events wait for ever.
* The cursor is saved after every page, also by a run that then fails, though
  `connectors/index.ts:13` reads as if only a successful run saved it.
* Stripe and RevenueCat: of two subscriptions the oldest decides a row; one subscription can
  be in the ledger under an `evt:` and a `sub:` id; the snapshot row of a week is shared by
  both sources; more than fifty pages are never reconciled; a nightly pull reads one page and
  answers ok.
* Mixpanel leaves out what did not fit on a full page of the events of its last second (section
  3, `ingest`), against CHANGELOG.md:246-249.
* Mercury's offset paging counts a transaction twice when another arrives in the middle of a
  pull; a company with positive cash flow has a runway of 0.
* GitHub: after a failure among the commit points, a sync that gets a 202 answers ok with
  weeks missing; each sync overwrites the founder's edits of its metric definitions.
* Calendar feeds: a monthly series begun on the 29th to 31st drifts to the shortest month's
  day; a bounded series stops after its first thousand occurrences even when they are all in
  the past; EXDATE, RECURRENCE-ID and monthly BYDAY are ignored; an alarm's SUMMARY replaces
  the event's.

People and events
* A deletion under one spelling of an id tombstones both but deletes the rows of one.
* Batch ingest's `inserted` and `duplicates` come from two counts of the whole workspace and
  can be wrong, even negative, beside another writer.
* CSV: a users file without an email column empties emails it updates, and counts updates as
  skipped; a person twice in one batch fails on Postgres; a row of nothing but escaped quotes
  is dropped; an omitted `kind` is the stored plan's before it is detected
  (`core/mcp-write-tools.ts:119` says detected).
* SDK: one invalid event, an oversized body or a revoked key drops the whole batch; after
  the last attempt nothing is retried until the next call; timers are unreferenced, so the
  buffer ends with the process; a caller waits while others keep tracking, since the gate
  settles only on an empty queue. `maxRetries: 0` sends nothing and is outside the model.

Keys and tools
* A key minted while its workspace is being deleted, between the purge of keys and the
  catalog row, outlives the workspace and stores rows in it.
* `core/session.ts` says writes ignore the session; the workspaces, config, metrics and
  annotations routes accept one. A session outlives the revocation of its key by up to twelve
  hours. Of two first callers of `ensureWorkspace` one fails.
* MCP over stdio: write tools write to the workspace they name, whatever the key's, and leave
  no audit row; read tools need no key. Over HTTP a write tool that fails is logged too, as is
  a preview of an import.
* `recordMcpWriteAudit` passes over a result whose text matches "not implemented", meant for
  tools a surface lacks (`core/audit.ts:156-161,171`); annotate repeats its content and
  define_metric its name in that text, so such an http call writes, answers ok and is not
  logged, against CONTRIBUTING.md:30-31 ("Write tools must write and land in the audit log").

Views
* An edit revives a retired metric but not its place in the order; two overlapping calls lose
  one's change of the deck's JSON; a week given twice in one import answers "updated" and
  writes no row (`core/wbr-builder.ts:647`).
* The weekly review: months are windows of 32 days; the trailing weeks end with the one that
  is not over; a manual metric's points are compared with a year ago by position; with
  `consecutiveMissesForWatch` of 2 a metric off target reads "ok: on target"; with six
  snapshots or fewer the lanes show old gaps as adjacent weeks.
* Milestones: the table has no unique key; a `company_day` in a zone ahead of UTC reads as of
  the future; rows of a former founding date stay.
* Cohorts: the window is padded to 168 days, so periods to come count as 0 %; the loyal core's
  text says every week, its code every one of 56 days; the client's month has 28 days and the
  server's 30.
* Presence: "as of" is the row inserted last; two cities can be marked as home.
* Clusters: somebody only ever seen monthly stays monthly; before 40 days they are fading;
  `ensureWorkspaceClusters` writes over labels of a refresh that ran beside it.

Pages
* PMF: texts edited in the page are never sent to the server; two answers to handlers that
  closed over one list undo each other; generating twice makes two drafts and shows the older.
* Day tracker: preferences may be saved out of order; a config that fails on reload celebrates
  again and overwrites the list; another workspace's late load fills the new one's.
* URL: ten keys of the dot plot and the review are written and never deleted, and `f` is never
  read back; opening a person over a pending replacement loses the state's address.
* Polling: a change between a page's load and the poller's first answer is never noticed; a
  refresh that failed is not tried again, except by the weekly review; a late answer shows an
  earlier person or earlier parameters.
* Connect page: a late config answer fills another workspace's form, and a locked workspace
  keeps the former's values; a profile's name is stored before its bad date is refused; a
  save is answered with an error when only its audit row failed; entering the setup again
  overwrites the profile with defaults; an import's result is shown under a file chosen later.
* Health panel: loads may overtake each other, and one slot of a kind for all sources lets a
  button be pressed twice. Gate: an unlock answered under another workspace opens that one's
  gate; an unlock in flight over a logout revives the former session.
* Research: the cache survives a person's deletion; the dialog's boxes stay enabled while it
  searches.

## 9. Not modelled, and why

`PROJECT.json` lists every component with its status. Left out because they keep no state and
interleave with nothing: ask, annotations, export, contracts and OpenAPI, value events,
encryption, the operator proxy, the demo seed, charts and layout, the CLI (a client of the
routes: one request a command). Left out as a boundary: the schema and migrations, and the
database below the level of a statement or transaction. Partly modelled: `identify()` of the
SDK and the batch route's validation (one request without a buffer; a refused batch), the
review's formatting, the cohorts' best vintage and loyal core (reads of the same rows), the
clusters' labels by a remote model. Abstracted everywhere: contents of rows beyond the fields
named, texts, wording of errors and logging.
