------------------------------- MODULE Revenue -------------------------------
(* The revenue read models (src/src/connectors/stripe.ts, revenuecat.ts and   *)
(* src/src/app/api/webhooks/stripe/route.ts): one row per person, a ledger of *)
(* subscription events, one MRR snapshot per week.  Stripe posts webhooks, at *)
(* least once and in any order; a pull per source is the reconciliation.      *)
EXTENDS Integers, Sequences, FiniteSets, FiniteSetsExt, SequencesExt

CONSTANTS
  Listings,     \* workspaces: source -> its customers in the order upstream lists them
  Prices,       \* monthly prices, positive
  Requests,     \* webhook requests that may be in progress at once
  PageSize, MaxPages,
  MaxChanges,   \* bound: changes upstream
  MaxBills,     \* bound: invoices paid
  MaxErased,    \* bound: persons deleted
  MaxFaults,    \* bound: failures, lost answers, doubled deliveries, nightly passes
  MaxEvents     \* bound: all of these together

ASSUME RevenueAssumption ==
  /\ \A l \in Listings :
       /\ DOMAIN l \subseteq {"stripe", "revenuecat"}
       /\ \A s, t \in DOMAIN l : s # t => ToSet(l[s]) \cap ToSet(l[t]) = {}
       /\ \A s \in DOMAIN l : IsInjective(l[s]) /\ s \notin Requests
  /\ IsFiniteSet(Requests)
  /\ Prices \subseteq Nat \ {0} /\ PageSize \in Nat \ {0} /\ MaxPages \in Nat \ {0}
  /\ {MaxChanges, MaxBills, MaxErased, MaxFaults, MaxEvents} \subseteq Nat

VARIABLES
  listing,   \* which workspace this is; it never changes
  up,        \* upstream: customer -> subscription and invoices paid so far
  mail,      \* events Stripe still has to deliver
  rows,      \* person_revenue, or NoRow
  ledger,    \* subscription_events, unique on sourceEventId
  snapshot,  \* this week's mrr_snapshots row, shared by the sources
  proc,      \* what each request and each pull is doing
  del,       \* customer -> how far deleting the person has come
  changes, faults,
  answered,  \* history: events answered ok
  charged,   \* history: customer -> invoice events whose handling began
  straddled  \* history: erased after somebody had looked them up

vars == <<listing, up, mail, rows, ledger, snapshot, proc, del, changes, faults,
          answered, charged, straddled>>
world == <<listing, up, mail, changes>>
history == <<answered, charged, straddled>>

Sources == DOMAIN listing
CustomersOf(s) == ToSet(listing[s])
Customers == UNION {CustomersOf(s) : s \in Sources}
SourceOf(c) == CHOOSE s \in Sources : c \in CustomersOf(s)
Procs == Requests \cup Sources
AllSources == UNION {DOMAIN l : l \in Listings}
AllCustomers == UNION {UNION {ToSet(l[s]) : s \in DOMAIN l} : l \in Listings}

-----------------------------------------------------------------------------
Erased == {c \in Customers : del[c] = "yes"}
Erasing == {c \in Customers : del[c] # "no"}
Billed == MapThenSumSet(LAMBDA c : up[c].billed, Customers)
Room == changes + Billed + Cardinality(Erasing) + faults < MaxEvents

NoRow == [status |-> "none", mrr |-> 0, ltv |-> 0, count |-> 0]
NoSnapshot == [source |-> "none", mrr |-> 0, subscribers |-> 0]

personStatus(s) == CASE s \in {"active", "past_due"} -> "active"
                     [] s = "trialing" -> "trial"
                     [] s \in {"canceled", "unpaid", "expired"} -> "churned"
                     [] OTHER -> "free"
contributingMrr(s, mrr) == IF personStatus(s) = "active" THEN mrr ELSE 0
backfillEventType(s) == IF personStatus(s) = "churned" THEN "churned" ELSE "new"

(* An updated event names only the attributes that changed: previous_attributes *)
(* hold the old status, or the old items.                                       *)
changeEvent(old, new) ==
  LET next == contributingMrr(new.status, new.price)
      was == personStatus(old.status)
      prev == IF old.price # new.price
                THEN contributingMrr(old.status, old.price)
                ELSE IF was # "active" THEN 0 ELSE next
  IN CASE personStatus(new.status) = "churned" /\ was # "churned" ->
            [type |-> "churned", delta |-> IF prev # 0 THEN -prev ELSE -next]
       [] was # "active" /\ personStatus(new.status) = "active" ->
            [type |-> "new", delta |-> next]
       [] OTHER -> [type |-> IF next > prev THEN "upgraded"
                             ELSE IF next < prev THEN "downgraded" ELSE "renewed",
                    delta |-> next - prev]

(* What one subscription or invoice asks applySubscription or applyInvoice to do. *)
SubJob(c, sub, key, type, delta) ==
  [kind |-> "sub", cust |-> c, status |-> sub.status, price |-> sub.price,
   gross |-> sub.billed, key |-> key, type |-> type, delta |-> delta]
PullJob(c, sub) ==
  LET type == backfillEventType(sub.status)
      mrr == contributingMrr(sub.status, sub.price)
  IN SubJob(c, sub, <<"sub", c, type>>, type,
            IF type # "churned" THEN mrr
            ELSE IF SourceOf(c) = "stripe" THEN -mrr ELSE -sub.price)
NoJob == SubJob("none", [status |-> "none", price |-> 0, billed |-> 0], <<>>, "none", 0)

Idle == [pc |-> "idle", job |-> NoJob, row |-> NoRow, sum |-> NoSnapshot, page |-> <<>>, at |-> 0, pages |-> 0, one |-> FALSE]

Init ==
  /\ listing \in Listings
  /\ up = [c \in Customers |-> [status |-> "none", price |-> 0, billed |-> 0]]
  /\ mail = {} /\ rows = [c \in Customers |-> NoRow] /\ ledger = {}
  /\ snapshot = NoSnapshot /\ proc = [p \in Procs |-> Idle]
  /\ del = [c \in Customers |-> "no"] /\ changes = 0 /\ faults = 0
  /\ answered = {} /\ charged = [c \in Customers |-> 0] /\ straddled = {}

-----------------------------------------------------------------------------
(* Upstream: subscriptions are created, change and end; invoices are paid.    *)
(* Stripe announces each; a payment twice, as invoice.paid and as             *)
(* invoice.payment_succeeded.                                                 *)
Announce(c, jobs) ==
  mail' = IF SourceOf(c) = "stripe" THEN mail \cup jobs ELSE mail

Becomes(c, sub, type, delta) ==
  /\ changes < MaxChanges /\ Room /\ changes' = changes + 1
  /\ up' = [up EXCEPT ![c] = sub]
  /\ Announce(c, {SubJob(c, sub, <<"evt", c, changes>>, type, delta)})
  /\ UNCHANGED <<listing, rows, ledger, snapshot, proc, del, faults, history>>

Subscribe(c) ==
  \E s \in {"trialing", "active"}, p \in Prices :
    LET sub == [status |-> s, price |-> p, billed |-> 0]
    IN up[c].status = "none" /\ Becomes(c, sub, "new", contributingMrr(s, p))

Change(c) ==
  \E s \in {"active", "unpaid"}, p \in Prices :
    LET sub == [up[c] EXCEPT !.status = s, !.price = p]
        e == changeEvent(up[c], sub)
    IN /\ up[c].status \in {"trialing", "active", "unpaid"} /\ sub # up[c]
       /\ s = up[c].status \/ p = up[c].price
       /\ Becomes(c, sub, e.type, e.delta)

Cancel(c) ==
  /\ up[c].status \in {"trialing", "active", "unpaid"}
  /\ Becomes(c, [up[c] EXCEPT !.status = "canceled"], "churned", -up[c].price)

Bill(c) ==
  /\ up[c].status = "active"
  /\ Billed < MaxBills /\ Room
  /\ up' = [up EXCEPT ![c].billed = @ + 1]
  /\ Announce(c, {[NoJob EXCEPT !.kind = "invoice", !.cust = c,
                     !.key = <<name, up[c].billed>>]
                    : name \in {"invoice.paid", "invoice.payment_succeeded"}})
  /\ UNCHANGED <<listing, rows, ledger, snapshot, proc, del, changes, faults, history>>

-----------------------------------------------------------------------------
(* A verified webhook begins. Stripe delivers an event again while the first  *)
(* delivery is still handled when it has waited too long.                     *)
Handled(m) == \E r \in Requests : proc[r].pc # "idle" /\ proc[r].job = m
Receive(r, m) ==
  /\ proc[r].pc = "idle" /\ m \in mail
  /\ IF Handled(m) THEN faults < MaxFaults /\ Room /\ faults' = faults + 1 ELSE faults' = faults
  /\ proc' = [proc EXCEPT ![r] = [Idle EXCEPT !.pc = "read", !.job = m]]
  /\ charged' = IF m.kind = "invoice" THEN [charged EXCEPT ![m.cust] = @ + 1] ELSE charged
  /\ UNCHANGED <<world, rows, ledger, snapshot, del, answered, straddled>>

(* The answer ends the delivery, unless it is lost on its way back.           *)
Answer(r) ==
  /\ proc[r].pc = "done"
  /\ proc' = [proc EXCEPT ![r] = Idle]
  /\ answered' = answered \cup {proc[r].job}
  /\ \/ mail' = mail \ {proc[r].job} /\ faults' = faults
     \/ mail' = mail /\ faults < MaxFaults /\ Room /\ faults' = faults + 1
  /\ UNCHANGED <<listing, up, changes, rows, ledger, snapshot, del, charged, straddled>>

-----------------------------------------------------------------------------
(* The writes: applySubscription, applyInvoice, upsertPersonRevenue,          *)
(* insertSubscriptionEvent and refresh, a step per awaited statement. Only a  *)
(* tombstone can come between isTombstoned and the statement after it, and it *)
(* changes nothing that statement reads, so the two are one step.             *)
At(p, pc) == proc[p].pc = pc
Goto(p, pc) == proc' = [proc EXCEPT ![p].pc = pc]
Cust(p) == proc[p].job.cust

AfterRow(p) == IF proc[p].job.kind = "invoice" THEN "sum" ELSE "ledger"

ReadRow(p) ==
  /\ At(p, "read")
  /\ IF Cust(p) \in Erased THEN Goto(p, AfterRow(p))
     ELSE proc' = [proc EXCEPT ![p].row = rows[Cust(p)], ![p].pc = "write"]
  /\ UNCHANGED <<world, rows, ledger, snapshot, del, faults, history>>

(* An invoice keeps the status it read, active for a person never seen, and   *)
(* adds to the totals it read; a Stripe subscription keeps the totals it      *)
(* read; RevenueCat brings the totals.                                        *)
SubRow(p) ==
  LET j == proc[p].job
      gross == SourceOf(j.cust) = "revenuecat"
  IN [status |-> personStatus(j.status), mrr |-> contributingMrr(j.status, j.price),
      ltv |-> IF gross THEN j.gross ELSE proc[p].row.ltv,
      count |-> IF ~gross THEN proc[p].row.count ELSE IF j.gross > 0 THEN 1 ELSE 0]
InvoiceRow(p) ==
  LET old == proc[p].row
      status == IF old.status = "none" THEN "active" ELSE old.status
  IN [status |-> status, mrr |-> IF status = "active" THEN old.mrr ELSE 0,
      ltv |-> old.ltv + 1, count |-> old.count + 1]

WriteRow(p) ==
  /\ At(p, "write")
  /\ rows' = [rows EXCEPT ![Cust(p)] = IF proc[p].job.kind = "invoice" THEN InvoiceRow(p)
                                       ELSE SubRow(p)]
  /\ proc' = [proc EXCEPT ![p].row = NoRow, ![p].pc = AfterRow(p)]
  /\ UNCHANGED <<world, ledger, snapshot, del, faults, history>>

(* A pull goes on with its page, a request with the refresh.                  *)
SubDone(p) ==
  IF p \in Sources THEN [proc[p] EXCEPT !.pc = "next", !.job = NoJob]
                   ELSE [proc[p] EXCEPT !.pc = "sum"]

BugLedgerByType(p) ==
  LET j == proc[p].job
  IN /\ At(p, "ledger")
     /\ ledger' = IF j.cust \in Erased \/ \E l \in ledger : l.cust = j.cust /\ l.type = j.type
                     THEN ledger
                     ELSE ledger \cup {[key |-> j.key, cust |-> j.cust, type |-> j.type]}
     /\ proc' = [proc EXCEPT ![p] = SubDone(p)]
     /\ UNCHANGED <<world, rows, snapshot, del, faults, history>>
InsertLedger(p) ==
  LET j == proc[p].job
  IN /\ At(p, "ledger")
     /\ ledger' = IF j.cust \in Erased \/ \E l \in ledger : l.key = j.key THEN ledger
                  ELSE ledger \cup {[key |-> j.key, cust |-> j.cust, type |-> j.type]}
     /\ proc' = [proc EXCEPT ![p] = SubDone(p)]
     /\ UNCHANGED <<world, rows, snapshot, del, faults, history>>

(* refreshMrrSnapshot: read the source's rows, then write the week's one row. *)
MrrSource(p) == IF p \in Sources THEN p ELSE "stripe"
Totals(s) ==
  LET paying == {c \in CustomersOf(s) : rows[c].status = "active" /\ rows[c].mrr > 0}
  IN [source |-> s, mrr |-> MapThenSumSet(LAMBDA c : rows[c].mrr, paying),
      subscribers |-> Cardinality(paying)]
ReadTotals(p) ==
  /\ At(p, "sum")
  /\ proc' = [proc EXCEPT ![p] = [Idle EXCEPT !.pc = "snap", !.job = proc[p].job,
                                              !.sum = Totals(MrrSource(p))]]
  /\ UNCHANGED <<world, rows, ledger, snapshot, del, faults, history>>
BugKeepsSnapshot(p) ==
  /\ At(p, "snap")
  /\ snapshot' = IF snapshot = NoSnapshot THEN proc[p].sum ELSE snapshot
  /\ Goto(p, "done")
  /\ UNCHANGED <<world, rows, ledger, del, faults, history>>
WriteSnapshot(p) ==
  /\ At(p, "snap") /\ snapshot' = proc[p].sum
  /\ proc' = [proc EXCEPT ![p].sum = NoSnapshot, ![p].pc = "done"]
  /\ UNCHANGED <<world, rows, ledger, del, faults, history>>

Apply(p) ==
  ReadRow(p) \/ WriteRow(p) \/ InsertLedger(p) \/ ReadTotals(p) \/ WriteSnapshot(p)

-----------------------------------------------------------------------------
(* The pull of a source: from the beginning to the end, or one page of it when *)
(* the nightly pass hands it an empty cursor. Stripe's page carries the        *)
(* subscriptions, RevenueCat's names customers whose subscriptions are fetched *)
(* one customer at a time.                                                     *)
Begin(s, full) ==
  /\ At(s, "idle")
  /\ IF full THEN faults < MaxFaults /\ Room /\ faults' = faults + 1 ELSE faults' = faults
  /\ proc' = [proc EXCEPT ![s] = [Idle EXCEPT !.pc = "fetch", !.one = full]]
  /\ UNCHANGED <<world, rows, ledger, snapshot, del, history>>

(* A page holds the jobs of the next customers, by their place upstream.       *)
Live(s, from) == {i \in from + 1 .. Len(listing[s]) : up[listing[s][i]].status # "none"}
FirstOf(n, S) == {i \in S : Cardinality({j \in S : j < i}) < n}
Fetch(s) ==
  /\ At(s, "fetch")
  /\ proc' = [proc EXCEPT ![s].pc = "next", ![s].pages = @ + 1,
                ![s].page = [i \in FirstOf(PageSize, Live(s, proc[s].at)) |->
                               PullJob(listing[s][i], up[listing[s][i]])]]
  /\ UNCHANGED <<world, rows, ledger, snapshot, del, faults, history>>

TakeNext(s) ==
  LET page == proc[s].page
  IN /\ At(s, "next")
     /\ \E i \in DOMAIN page :
          /\ \A j \in DOMAIN page : i <= j
          /\ proc' = [proc EXCEPT ![s].pc = "read", ![s].at = i,
                       ![s].page = [j \in DOMAIN page \ {i} |-> page[j]],
                       ![s].job = IF s = "stripe" THEN page[i]
                                  ELSE PullJob(listing[s][i], up[listing[s][i]])]
     /\ UNCHANGED <<world, rows, ledger, snapshot, del, faults, history>>

More(s) == Live(s, proc[s].at) # {}
PageDone(s) ==
  /\ At(s, "next") /\ proc[s].page = <<>>
  /\ Goto(s, IF More(s) /\ ~proc[s].one /\ proc[s].pages < MaxPages THEN "fetch" ELSE "sum")
  /\ UNCHANGED <<world, rows, ledger, snapshot, del, faults, history>>

(* 429 after some rows: the pull answers ok with what it has.                  *)
RateLimited(s) ==
  /\ At(s, "fetch") \/ (s = "revenuecat" /\ At(s, "next") /\ proc[s].page # <<>>)
  /\ proc[s].at > 0 /\ faults < MaxFaults /\ Room /\ faults' = faults + 1
  /\ Goto(s, "sum")
  /\ UNCHANGED <<world, rows, ledger, snapshot, del, history>>

(* The answer; the cursor of these sources is not stored.                      *)
Finish(s) ==
  /\ At(s, "done") /\ proc' = [proc EXCEPT ![s] = Idle]
  /\ UNCHANGED <<world, rows, ledger, snapshot, del, faults, history>>

Pull(s) == Fetch(s) \/ TakeNext(s) \/ PageDone(s) \/ Finish(s)

(* A statement or an answer fails, or the process dies: what was written      *)
(* stays, the cursor does not move, Stripe will deliver the event again.      *)
Fail(p) ==
  /\ proc[p].pc # "idle" /\ faults < MaxFaults /\ Room /\ faults' = faults + 1
  /\ proc' = [proc EXCEPT ![p] = Idle]
  /\ UNCHANGED <<world, rows, ledger, snapshot, del, history>>

(* Deleting a person: the rows, the ledger, and the tombstone after them.      *)
EraseRows(c) ==
  /\ del[c] = "no" /\ Cardinality(Erasing) < MaxErased /\ Room
  /\ del' = [del EXCEPT ![c] = "rows"] /\ rows' = [rows EXCEPT ![c] = NoRow]
  /\ UNCHANGED <<world, ledger, snapshot, proc, faults, history>>
EraseLedger(c) ==
  /\ del[c] = "rows" /\ del' = [del EXCEPT ![c] = "ledger"]
  /\ ledger' = {l \in ledger : l.cust # c}
  /\ UNCHANGED <<world, rows, snapshot, proc, faults, history>>

Kept(c) == rows[c] # NoRow \/ \E l \in ledger : l.cust = c
LookedUp(c) == \E p \in Procs : Cust(p) = c /\ proc[p].pc = "write"
Tombstone(c) ==
  /\ del[c] = "ledger" /\ del' = [del EXCEPT ![c] = "yes"]
  /\ straddled' = IF Kept(c) \/ LookedUp(c) THEN straddled \cup {c} ELSE straddled
  /\ UNCHANGED <<world, rows, ledger, snapshot, proc, faults, answered, charged>>
Erase(c) == EraseRows(c) \/ EraseLedger(c) \/ Tombstone(c)

Next ==
  \/ \E c \in Customers : Subscribe(c) \/ Change(c) \/ Cancel(c) \/ Bill(c) \/ Erase(c)
  \/ \E r \in Requests : Answer(r) \/ \E m \in mail : Receive(r, m)
  \/ \E p \in Procs : Apply(p) \/ Fail(p)
  \/ \E s \in Sources : Begin(s, TRUE) \/ Begin(s, FALSE) \/ Pull(s) \/ RateLimited(s)

Spec == Init /\ [][Next]_vars

(* Stripe keeps delivering, handlers run, the scheduler keeps starting pulls. *)
FairSpec ==
  /\ Spec
  /\ WF_vars(\E r \in Requests, m \in mail : Receive(r, m))
  /\ \A p \in Requests \cup AllSources : WF_vars(p \in Procs /\ Apply(p))
  /\ \A r \in Requests : WF_vars(Answer(r))
  /\ \A s \in AllSources : WF_vars(s \in Sources /\ (Begin(s, FALSE) \/ Pull(s)))
-----------------------------------------------------------------------------
Jobs == {proc[p].job : p \in Procs} \cup mail
RowType == [status : {"none", "active", "trial", "churned", "free"},
            mrr : Prices \cup {0}, ltv : Nat, count : Nat]
TypeOK ==
  /\ up \in [Customers -> [status : {"none", "trialing", "active", "unpaid", "canceled"},
                           price : Prices \cup {0}, billed : 0..MaxBills]]
  /\ rows \in [Customers -> RowType]
  /\ \A j \in Jobs : j.cust \in Customers \/ j = NoJob
  /\ del \in [Customers -> {"no", "rows", "ledger", "yes"}]
  /\ changes \in 0..MaxChanges /\ faults \in 0..MaxFaults
  /\ charged \in [Customers -> Nat] /\ straddled \subseteq Customers

(* An answered subscription event is in the ledger, however often it came and *)
(* whatever failed before, unless its person is being deleted.                *)
Ledgered(m) == m.kind = "sub" /\ del[m.cust] = "no" => \E l \in ledger : l.key = m.key
AnsweredIsLedgered == \A m \in answered : Ledgered(m)

(* No charge is invented: requests that overlap may lose one, none adds one   *)
(* that no delivery brought.                                                  *)
NoChargeInvented ==
  \A c \in Customers : SourceOf(c) = "stripe" => rows[c].count <= charged[c]

(* A deleted person stays out of the read models, unless a handler had looked *)
(* them up, or written them again, before the tombstone was there.            *)
StaysErased == \A c \in Erased \ straddled : ~Kept(c)

(* Together, what the tables may say of a person (stripe.ts:234-338).         *)
LedgerIsTrue == AnsweredIsLedgered /\ NoChargeInvented /\ StaysErased

(* Why they are: a key belongs to one customer, and a request that is past the *)
(* ledger has its event there; what a handler has read of a row, with every    *)
(* charge still on its way to that row, is within the charges that arrived;    *)
(* nobody still holds the row of an erased person, or they are in straddled.   *)
EventFits(m) ==
  /\ m.cust \in Customers /\ m.kind \in {"sub", "invoice"}
  /\ m.kind = "sub" => m.key[2] = m.cust
PulledFits(j) == j.kind = "sub" /\ j.key[2] = j.cust
RequestFits(q) ==
  q.pc # "idle" =>
    /\ EventFits(q.job) /\ q.pc \in {"read", "write", "ledger", "sum", "snap", "done"}
    /\ q.pc = "ledger" => q.job.kind = "sub"
    /\ q.pc \in {"sum", "snap", "done"} => Ledgered(q.job)
PullFits(q) ==
  /\ q.pc \in {"read", "write", "ledger"} => PulledFits(q.job)
  /\ \A i \in DOMAIN q.page : PulledFits(q.page[i])
ProcFits(p, q) ==
  /\ DOMAIN q = {"pc", "job", "row", "sum", "page", "at", "pages", "one"}
  /\ IF p \in Sources THEN PullFits(q) ELSE RequestFits(q)
  /\ q.pc = "write" => q.job.cust \notin Customers \/ q.row.count \in Nat
TablesFit ==
  /\ listing \in Listings
  /\ DOMAIN proc = Procs /\ \A p \in Procs : \A q \in {proc[p]} : ProcFits(p, q)
  /\ DOMAIN rows = Customers /\ \A c \in Customers : rows[c].count \in Nat
  /\ DOMAIN del = Customers /\ charged \in [Customers -> Nat]
  /\ \A m \in mail \cup answered : EventFits(m)
  /\ \A l \in ledger : l.key[2] = l.cust
InFlight(c) == {r \in Requests : /\ proc[r].pc \in {"read", "write"}
                                 /\ proc[r].job.kind = "invoice" /\ Cust(r) = c}
ChargesFit ==
  \A c \in Customers : SourceOf(c) = "stripe" =>
    /\ rows[c].count + Cardinality(InFlight(c)) <= charged[c]
    /\ \A p \in Procs : proc[p].pc = "write" /\ Cust(p) = c =>
         proc[p].row.count + Cardinality(InFlight(c)) <= charged[c]
ErasedFit == \A c \in Erased \ straddled : ~Kept(c) /\ ~LookedUp(c)
LedgerInv == TablesFit /\ AnsweredIsLedgered /\ ChargesFit /\ ErasedFit

(* "Scheduled sync is the reconciliation pass" (CHANGELOG.md:275): once        *)
(* upstream, the failures and the nightly passes are over, every row agrees    *)
(* with upstream, whatever was applied late, twice or out of order before.     *)
Agrees(c) ==
  /\ rows[c].status = personStatus(up[c].status)
  /\ rows[c].mrr = contributingMrr(up[c].status, up[c].price)
Reconciled ==
  \A c \in AllCustomers :
    <>[](c \in Customers /\ up[c].status # "none" /\ del[c] = "no" => Agrees(c))

(* And the week's snapshot comes to be the totals of one source's rows.        *)
SnapshotCatchesUp ==
  []<>(snapshot = NoSnapshot \/ snapshot = Totals(snapshot.source))

(* Together: rows and the week's snapshot come right in the end.               *)
RevenueSettles == Reconciled /\ SnapshotCatchesUp

-----------------------------------------------------------------------------
(* The workspaces TLC checks: one with a Stripe customer a, whose webhooks     *)
(* race each other and a pull; one with two RevenueCat customers, a page each. *)
Workspaces == {[stripe |-> <<"a">>], [revenuecat |-> <<"y", "z">>]}
=============================================================================
