--------------------------- MODULE BusinessProofs ---------------------------
(* What the business's own books promise: the tables of revenue (LedgerIsTrue  *)
(* of Revenue), for any customers, requests in progress, page size and bounds, *)
(* the deck of its metrics (DeckHolds and ImportedIsStored of WbrDeck), for    *)
(* any metrics and any calls of the builder and of the view at once; and the   *)
(* labels of its people (EnsureOnlyFills of Clusters), whoever they are.       *)
EXTENDS Revenue, WbrDeck, Clusters, TLAPS, SequenceTheorems, FiniteSetTheorems, WellFoundedInduction

-----------------------------------------------------------------------------
(* The workspace does not change, and the sources are no requests.            *)
LEMMA Places ==
  ASSUME listing' = listing
  PROVE  /\ Sources' = Sources /\ Customers' = Customers /\ Procs' = Procs
         /\ \A c : SourceOf(c)' = SourceOf(c)
BY DEF Sources, Customers, CustomersOf, Procs, SourceOf

LEMMA SourcesAreNoRequests == ASSUME TablesFit PROVE Sources \cap Requests = {}
BY RevenueAssumption DEF TablesFit, Sources

\* A fit outlives a step that changes neither the person's deletion nor the ledger
\* to its harm.
LEMMA FitsStay ==
  ASSUME listing' = listing, NEW p, NEW q, ProcFits(p, q),
         \A m : EventFits(m) /\ Ledgered(m) => Ledgered(m)'
  PROVE  ProcFits(p, q)'
<1> USE Places
<1>1. PullFits(q) => PullFits(q)'
  BY DEF PullFits
<1>2. EventFits(q.job) => EventFits(q.job)'
  BY DEF EventFits
<1>3. RequestFits(q) => RequestFits(q)'
  BY <1>2 DEF RequestFits, EventFits
<1> QED
  BY <1>1, <1>3 DEF ProcFits

LEMMA FlightIsFinite ==
  ASSUME NEW c
  PROVE  IsFiniteSet(InFlight(c)) /\ Cardinality(InFlight(c)) \in Nat
<1>1. InFlight(c) \subseteq Requests /\ IsFiniteSet(Requests)
  BY RevenueAssumption DEF InFlight
<1> QED
  BY <1>1, FS_Subset, FS_CardinalityType

LEMMA RevenueBegins == Init => LedgerInv
<1> SUFFICES ASSUME Init PROVE LedgerInv
  OBVIOUS
<1>1. /\ DOMAIN Idle = {"pc", "job", "row", "sum", "page", "at", "pages", "one"}
      /\ Idle.pc = "idle" /\ Idle.page = <<>>
  BY DEF Idle
<1>2. DOMAIN proc = Procs /\ \A p \in Procs : proc[p] = Idle
  BY DEF Init
<1>3. NoRow.count = 0
  BY DEF NoRow
<1>4. \A p : ProcFits(p, Idle)
  BY <1>1 DEF ProcFits, PullFits, RequestFits
<1>5. TablesFit
  BY <1>2, <1>3, <1>4 DEF Init, TablesFit
<1>6. ChargesFit
  <2> SUFFICES ASSUME NEW c \in Customers
               PROVE  /\ rows[c].count + Cardinality(InFlight(c)) <= charged[c]
                      /\ \A p \in Procs : proc[p].pc # "write"
    BY DEF ChargesFit
  <2>1. InFlight(c) = {}
    BY <1>1, <1>2 DEF InFlight, Procs
  <2> QED
    BY <1>1, <1>2, <1>3, <2>1, FS_EmptySet DEF Init
<1>7. ErasedFit
  BY DEF Init, ErasedFit, Erased
<1> QED
  BY <1>5, <1>6, <1>7 DEF LedgerInv, AnsweredIsLedgered, Init

-----------------------------------------------------------------------------
(* A step of one handler that writes nothing: it only goes on, reads a row or *)
(* begins again.                                                              *)
LEMMA HandlerGoesOn ==
  ASSUME LedgerInv, listing' = listing, UNCHANGED <<mail, rows, ledger, del, history>>,
         NEW p \in Procs, NEW q, proc' = [proc EXCEPT ![p] = q], ProcFits(p, q),
         q.pc \in {"read", "write"} /\ q.job.kind = "invoice" /\ p \in Requests =>
           proc[p].pc \in {"read", "write"} /\ q.job = proc[p].job,
         q.pc = "write" => q.row = rows[q.job.cust] /\ q.job.cust \notin Erased
  PROVE  LedgerInv'
<1> USE Places DEF history
<1>1. TablesFit'
  <2>0. \A m : Ledgered(m) => Ledgered(m)'
    BY DEF Ledgered
  <2>1. ASSUME NEW x \in Procs, NEW v \in {proc'[x]} PROVE ProcFits(x, v)'
    <3>1. v = IF x = p THEN q ELSE proc[x]
      BY DEF LedgerInv, TablesFit
    <3>2. ProcFits(x, v)
      BY <3>1 DEF LedgerInv, TablesFit
    <3> QED
      BY <2>0, <3>2, FitsStay
  <2>2. \A m \in mail \cup answered : EventFits(m)'
    BY DEF LedgerInv, TablesFit, EventFits
  <2> QED
    BY <2>1, <2>2 DEF LedgerInv, TablesFit
<1>2. AnsweredIsLedgered'
  BY DEF LedgerInv, AnsweredIsLedgered, Ledgered
<1>3. ChargesFit'
  <2> SUFFICES ASSUME NEW c \in Customers, SourceOf(c) = "stripe"
               PROVE  /\ rows[c].count + Cardinality(InFlight(c)') <= charged[c]
                      /\ \A x \in Procs : proc'[x].pc = "write" /\ proc'[x].job.cust = c =>
                           proc'[x].row.count + Cardinality(InFlight(c)') <= charged[c]
    BY DEF ChargesFit, Cust
  <2>1. InFlight(c)' \subseteq InFlight(c)
    BY DEF InFlight, Cust, LedgerInv, TablesFit
  <2>2. Cardinality(InFlight(c)') \in Nat /\ Cardinality(InFlight(c)') <= Cardinality(InFlight(c))
    BY <2>1, FlightIsFinite, FS_Subset, FS_CardinalityType
  <2>3. /\ rows[c].count \in Nat /\ charged[c] \in Nat /\ Cardinality(InFlight(c)) \in Nat
        /\ rows[c].count + Cardinality(InFlight(c)) <= charged[c]
    BY FlightIsFinite DEF LedgerInv, TablesFit, ChargesFit
  <2>4. ASSUME NEW x \in Procs, proc'[x].pc = "write", proc'[x].job.cust = c
        PROVE  proc'[x].row.count + Cardinality(InFlight(c)') <= charged[c]
    <3>1. CASE x = p
      BY <2>2, <2>3, <2>4, <3>1 DEF LedgerInv, TablesFit
    <3>2. CASE x # p
      <4>1. proc'[x] = proc[x] /\ proc[x].row.count \in Nat
        BY <2>4, <3>2 DEF LedgerInv, TablesFit, ProcFits
      <4>2. proc[x].row.count + Cardinality(InFlight(c)) <= charged[c]
        BY <2>4, <4>1 DEF LedgerInv, ChargesFit, Cust
      <4> QED
        BY <2>2, <2>3, <4>1, <4>2
    <3> QED
      BY <3>1, <3>2
  <2> QED
    BY <2>2, <2>3, <2>4
<1>4. ErasedFit'
  BY ZenonT(60) DEF LedgerInv, TablesFit, ErasedFit, Erased, Kept, LookedUp, Cust
<1> QED
  BY <1>1, <1>2, <1>3, <1>4 DEF LedgerInv

\* What the steps of a handler keep of its record.
HandlerFields == {"pc", "job", "row", "sum", "page", "at", "pages", "one"}
LEMMA HandlerIs ==
  ASSUME LedgerInv, NEW p \in Procs
  PROVE  /\ ProcFits(p, proc[p]) /\ p \in DOMAIN proc /\ DOMAIN proc[p] = HandlerFields
         /\ p \in Sources <=> p \notin Requests
BY SourcesAreNoRequests DEF LedgerInv, TablesFit, ProcFits, HandlerFields, Procs

LEMMA IdleIs == /\ DOMAIN Idle = HandlerFields /\ Idle.pc = "idle" /\ \A i \in DOMAIN Idle.page : FALSE
                /\ \A p : ProcFits(p, Idle)
<1>1. DOMAIN Idle = HandlerFields /\ Idle.pc = "idle" /\ Idle.page = <<>>
  BY DEF Idle, HandlerFields
<1>2. \A i \in DOMAIN Idle.page : FALSE
  BY <1>1
<1> QED
  BY <1>1, <1>2 DEF ProcFits, PullFits, RequestFits, HandlerFields

LEMMA ReadRowKeeps == ASSUME LedgerInv, NEW p \in Procs, ReadRow(p) PROVE LedgerInv'
<1>0. /\ ProcFits(p, proc[p]) /\ p \in DOMAIN proc /\ DOMAIN proc[p] = HandlerFields
      /\ p \in Sources <=> p \notin Requests
  BY HandlerIs
<1>1. /\ proc[p].pc = "read" /\ listing' = listing
      /\ UNCHANGED <<mail, rows, ledger, del, history>>
  BY DEF ReadRow, At, world
<1>2. CASE Cust(p) \in Erased
  <2> DEFINE q == [proc[p] EXCEPT !.pc = AfterRow(p)]
  <2>1. proc' = [proc EXCEPT ![p] = q]
    BY <1>2 DEF ReadRow, Goto
  <2>2. /\ q.pc = AfterRow(p) /\ q.job = proc[p].job /\ q.page = proc[p].page
        /\ DOMAIN q = HandlerFields
    BY <1>0 DEF HandlerFields
  <2> HIDE DEF q
  <2>3. q.pc = IF q.job.kind = "invoice" THEN "sum" ELSE "ledger"
    BY <2>2 DEF AfterRow
  <2>4. ProcFits(p, q)
    BY <1>0, <1>1, <2>2, <2>3 DEF ProcFits, PullFits, PulledFits, RequestFits, EventFits, Ledgered, HandlerFields
  <2> QED
    BY <1>1, <2>1, <2>3, <2>4, HandlerGoesOn
<1>3. CASE Cust(p) \notin Erased
  <2> DEFINE q == [proc[p] EXCEPT !.row = rows[Cust(p)], !.pc = "write"]
  <2>1. proc' = [proc EXCEPT ![p] = q]
    BY <1>3 DEF ReadRow
  <2>2. /\ q.pc = "write" /\ q.job = proc[p].job /\ q.page = proc[p].page /\ q.row = rows[Cust(p)]
        /\ DOMAIN q = HandlerFields
    BY <1>0 DEF HandlerFields
  <2> HIDE DEF q
  <2>3. q.job.cust = Cust(p) /\ (Cust(p) \in Customers => rows[Cust(p)].count \in Nat)
    BY <2>2 DEF Cust, LedgerInv, TablesFit
  <2>4. ProcFits(p, q)
    BY <1>0, <1>1, <2>2, <2>3 DEF ProcFits, PullFits, RequestFits, Ledgered, HandlerFields
  <2> QED
    BY <1>1, <1>3, <2>1, <2>2, <2>3, <2>4, HandlerGoesOn
<1> QED
  BY <1>2, <1>3

LEMMA TotalsKeep ==
  ASSUME LedgerInv, NEW p \in Procs, ReadTotals(p) \/ WriteSnapshot(p) PROVE LedgerInv'
<1>0. /\ ProcFits(p, proc[p]) /\ p \in DOMAIN proc /\ DOMAIN proc[p] = HandlerFields
      /\ p \in Sources <=> p \notin Requests
  BY HandlerIs
<1>1. /\ listing' = listing /\ UNCHANGED <<mail, rows, ledger, del, history>>
      /\ proc[p].pc \in {"sum", "snap"}
  BY DEF ReadTotals, WriteSnapshot, At, world
<1>2. ASSUME NEW q, proc' = [proc EXCEPT ![p] = q], DOMAIN q = HandlerFields,
             q.pc \in {"snap", "done"}, q.job = proc[p].job,
             \A i \in DOMAIN q.page : PulledFits(q.page[i])
      PROVE  LedgerInv'
  <2>1. ProcFits(p, q)
    BY <1>0, <1>1, <1>2 DEF ProcFits, PullFits, RequestFits, HandlerFields
  <2> QED
    BY <1>1, <1>2, <2>1, HandlerGoesOn
<1>3. CASE ReadTotals(p)
  <2> DEFINE q == [Idle EXCEPT !.pc = "snap", !.job = proc[p].job, !.sum = Totals(MrrSource(p))]
  <2>1. proc' = [proc EXCEPT ![p] = q]
    BY <1>3 DEF ReadTotals
  <2>2. /\ q.pc = "snap" /\ q.job = proc[p].job /\ DOMAIN q = HandlerFields
        /\ q.page = Idle.page
    BY IdleIs DEF HandlerFields
  <2> HIDE DEF q
  <2> QED
    BY <1>2, <2>1, <2>2, IdleIs
<1>4. CASE WriteSnapshot(p)
  <2> DEFINE q == [proc[p] EXCEPT !.sum = NoSnapshot, !.pc = "done"]
  <2>1. proc' = [proc EXCEPT ![p] = q]
    BY <1>4 DEF WriteSnapshot
  <2>2. /\ q.pc = "done" /\ q.job = proc[p].job /\ DOMAIN q = HandlerFields
        /\ q.page = proc[p].page
    BY <1>0 DEF HandlerFields
  <2>3. \A i \in DOMAIN proc[p].page : p \in Sources => PulledFits(proc[p].page[i])
    BY <1>0 DEF ProcFits, PullFits
  <2> HIDE DEF q
  <2>4. ProcFits(p, q)
    BY <1>0, <1>1, <2>2, <2>3 DEF ProcFits, PullFits, RequestFits, HandlerFields
  <2> QED
    BY <1>1, <2>1, <2>2, <2>4, HandlerGoesOn
<1> QED
  BY <1>3, <1>4

LEMMA FailKeeps ==
  ASSUME LedgerInv, NEW p \in Procs, Fail(p) \/ (p \in Sources /\ Finish(p)) PROVE LedgerInv'
<1>1. /\ proc' = [proc EXCEPT ![p] = Idle] /\ listing' = listing
      /\ UNCHANGED <<mail, rows, ledger, del, history>>
  BY DEF Fail, Finish, world
<1> QED
  BY <1>1, IdleIs, HandlerGoesOn

LEMMA PullKeeps ==
  ASSUME LedgerInv, NEW s \in Sources,
         Begin(s, TRUE) \/ Begin(s, FALSE) \/ Fetch(s) \/ TakeNext(s) \/ PageDone(s) \/ RateLimited(s)
  PROVE  LedgerInv'
<1>0. /\ s \in Procs /\ ProcFits(s, proc[s]) /\ DOMAIN proc[s] = HandlerFields /\ s \notin Requests
  BY HandlerIs DEF Procs
<1>1. listing' = listing /\ UNCHANGED <<mail, rows, ledger, del, history>>
  BY DEF Begin, Fetch, TakeNext, PageDone, RateLimited, world
<1>2. \A c, sub : PulledFits(PullJob(c, sub))
  BY DEF PulledFits, PullJob, SubJob
<1>3. ASSUME NEW q, proc' = [proc EXCEPT ![s] = q], DOMAIN q = HandlerFields,
             q.pc \in {"fetch", "next", "sum", "read"}, q.pc = "read" => PulledFits(q.job),
             \A i \in DOMAIN q.page : PulledFits(q.page[i])
      PROVE  LedgerInv'
  <2>1. ProcFits(s, q)
    BY <1>3 DEF ProcFits, PullFits, HandlerFields
  <2> QED
    BY <1>0, <1>1, <1>3, <2>1, HandlerGoesOn
<1>4. \A i \in DOMAIN proc[s].page : PulledFits(proc[s].page[i])
  BY <1>0 DEF ProcFits, PullFits
<1>5. ASSUME NEW full, Begin(s, full) PROVE LedgerInv'
  <2> DEFINE q == [Idle EXCEPT !.pc = "fetch", !.one = full]
  <2>1. proc' = [proc EXCEPT ![s] = q]
    BY <1>5 DEF Begin
  <2>2. q.pc = "fetch" /\ DOMAIN q = HandlerFields /\ q.page = Idle.page
    BY IdleIs DEF HandlerFields
  <2> HIDE DEF q
  <2> QED
    BY <1>3, <2>1, <2>2, IdleIs
<1>6. CASE Fetch(s)
  <2> DEFINE page == [i \in FirstOf(PageSize, Live(s, proc[s].at)) |-> PullJob(listing[s][i], up[listing[s][i]])]
             q == [proc[s] EXCEPT !.pc = "next", !.pages = @ + 1, !.page = page]
  <2>1. proc' = [proc EXCEPT ![s] = q]
    BY <1>6 DEF Fetch
  <2>2. \A i \in DOMAIN page : PulledFits(page[i])
    BY <1>2
  <2> HIDE DEF page
  <2>3. q.pc = "next" /\ DOMAIN q = HandlerFields /\ q.page = page
    BY <1>0 DEF HandlerFields
  <2> HIDE DEF q
  <2> QED
    BY <1>3, <2>1, <2>2, <2>3
<1>7. CASE TakeNext(s)
  <2>1. PICK i \in DOMAIN proc[s].page :
          proc' = [proc EXCEPT ![s].pc = "read", ![s].at = i,
                     ![s].page = [j \in DOMAIN proc[s].page \ {i} |-> proc[s].page[j]],
                     ![s].job = IF s = "stripe" THEN proc[s].page[i]
                                ELSE PullJob(listing[s][i], up[listing[s][i]])]
    BY ZenonT(60), <1>7 DEF TakeNext
  <2> DEFINE page == [j \in DOMAIN proc[s].page \ {i} |-> proc[s].page[j]]
             job == IF s = "stripe" THEN proc[s].page[i] ELSE PullJob(listing[s][i], up[listing[s][i]])
             q == [proc[s] EXCEPT !.pc = "read", !.at = i, !.page = page, !.job = job]
  <2>2. proc' = [proc EXCEPT ![s] = q]
    BY <2>1
  <2>3. PulledFits(job) /\ \A j \in DOMAIN page : PulledFits(page[j])
    BY <1>2, <1>4
  <2> HIDE DEF page, job
  <2>4. q.pc = "read" /\ DOMAIN q = HandlerFields /\ q.page = page /\ q.job = job
    BY <1>0 DEF HandlerFields
  <2> HIDE DEF q
  <2> QED
    BY ZenonT(60), <1>3, <2>2, <2>3, <2>4
<1>8. ASSUME NEW pc \in {"fetch", "sum"}, Goto(s, pc) PROVE LedgerInv'
  <2> DEFINE q == [proc[s] EXCEPT !.pc = pc]
  <2>1. proc' = [proc EXCEPT ![s] = q]
    BY <1>8 DEF Goto
  <2>2. q.pc = pc /\ DOMAIN q = HandlerFields /\ q.page = proc[s].page
    BY <1>0 DEF HandlerFields
  <2> HIDE DEF q
  <2> QED
    BY <1>3, <1>4, <2>1, <2>2
<1>9. CASE PageDone(s) \/ RateLimited(s)
  BY <1>8, <1>9 DEF PageDone, RateLimited
<1> QED
  BY <1>5, <1>6, <1>7, <1>9

-----------------------------------------------------------------------------
(* The steps that write.                                                      *)

\* The tables' part of a step in which one handler moves.
LEMMA TablesKeep ==
  ASSUME TablesFit, listing' = listing, NEW p \in Procs, NEW q, proc' = [proc EXCEPT ![p] = q],
         UNCHANGED <<mail, del, charged, answered>>, ProcFits(p, q)',
         \A m : EventFits(m) /\ Ledgered(m) => Ledgered(m)',
         DOMAIN rows' = Customers, \A c \in Customers : rows'[c].count \in Nat,
         \A l \in ledger' : l.key[2] = l.cust
  PROVE  TablesFit'
<1> USE Places
<1>1. ASSUME NEW x \in Procs, NEW v \in {proc'[x]} PROVE ProcFits(x, v)'
  <2>1. CASE x = p
    BY <1>1, <2>1 DEF TablesFit
  <2>2. CASE x # p
    <3>1. ProcFits(x, v)
      BY <1>1, <2>2 DEF TablesFit
    <3> QED
      BY <3>1, FitsStay
  <2> QED
    BY <2>1, <2>2
<1>2. \A m \in mail \cup answered : EventFits(m)'
  BY DEF TablesFit, EventFits
<1> QED
  BY <1>1, <1>2 DEF TablesFit

LEMMA WriteRowKeeps == ASSUME LedgerInv, NEW p \in Procs, WriteRow(p) PROVE LedgerInv'
<1> USE Places
<1>x. PICK x : x = Cust(p)
  OBVIOUS
<1>r. PICK row : row = IF proc[p].job.kind = "invoice" THEN InvoiceRow(p) ELSE SubRow(p)
  OBVIOUS
<1>q. PICK q : q = [proc[p] EXCEPT !.row = NoRow, !.pc = AfterRow(p)]
  OBVIOUS
<1>0. /\ ProcFits(p, proc[p]) /\ p \in DOMAIN proc /\ DOMAIN proc[p] = HandlerFields
      /\ p \in Sources <=> p \notin Requests
  BY HandlerIs
<1>1. /\ proc[p].pc = "write" /\ listing' = listing /\ UNCHANGED <<mail, ledger, del, history>>
      /\ rows' = [rows EXCEPT ![x] = row] /\ proc' = [proc EXCEPT ![p] = q]
  BY <1>x, <1>r, <1>q DEF WriteRow, At, world
<1>2. /\ q.pc = AfterRow(p) /\ q.job = proc[p].job /\ q.page = proc[p].page /\ DOMAIN q = HandlerFields
  BY <1>0, <1>q DEF HandlerFields
<1>3. q.pc = IF q.job.kind = "invoice" THEN "sum" ELSE "ledger"
  BY <1>2 DEF AfterRow
<1>4. x = proc[p].job.cust /\ (x \in Customers => proc[p].row.count \in Nat)
  BY <1>0, <1>1, <1>x DEF Cust, ProcFits
<1>5. /\ x \in Customers => row.count \in Nat
      /\ x \in Customers /\ SourceOf(x) = "stripe" =>
           row.count = proc[p].row.count + IF proc[p].job.kind = "invoice" THEN 1 ELSE 0
  BY <1>4, <1>r DEF InvoiceRow, SubRow
<1>6. ProcFits(p, q)
  BY <1>0, <1>1, <1>2, <1>3 DEF ProcFits, PullFits, PulledFits, RequestFits, EventFits, Ledgered, HandlerFields
<1>7. \A m : Ledgered(m) => Ledgered(m)'
  BY <1>1 DEF Ledgered
<1>8. DOMAIN rows = Customers /\ \A c \in Customers : rows[c].count \in Nat /\ rows'[c] = IF c = x THEN row ELSE rows[c]
  BY <1>1 DEF LedgerInv, TablesFit
<1>9. TablesFit'
  <2>1. DOMAIN rows' = Customers /\ \A c \in Customers : rows'[c].count \in Nat
    BY <1>1, <1>5, <1>8
  <2>2. ProcFits(p, q)'
    BY <1>1, <1>6, <1>7, FitsStay
  <2> QED
    BY <1>1, <1>6, <1>7, <2>1, <2>2, TablesKeep DEF LedgerInv, TablesFit, history
<1>10. AnsweredIsLedgered'
  BY <1>1, <1>7 DEF LedgerInv, AnsweredIsLedgered, history
<1>11. ChargesFit'
  <2> SUFFICES ASSUME NEW c \in Customers, SourceOf(c) = "stripe"
               PROVE  /\ rows'[c].count + Cardinality(InFlight(c)') <= charged[c]
                      /\ \A y \in Procs : proc'[y].pc = "write" /\ proc'[y].job.cust = c =>
                           proc'[y].row.count + Cardinality(InFlight(c)') <= charged[c]
    BY <1>1 DEF ChargesFit, Cust, history
  <2> DEFINE gone == c = x /\ proc[p].job.kind = "invoice"
  <2>1. gone => p \in Requests
    BY <1>0, <1>1 DEF ProcFits, PullFits, PulledFits
  <2>2. InFlight(c)' = IF gone THEN InFlight(c) \ {p} ELSE InFlight(c)
    BY <1>0, <1>1, <1>2, <1>3, <1>4 DEF InFlight, Cust, LedgerInv, TablesFit
  <2>3. gone => p \in InFlight(c)
    BY <1>1, <1>4, <2>1 DEF InFlight, Cust
  <2>4. /\ Cardinality(InFlight(c)) \in Nat /\ charged[c] \in Nat
        /\ Cardinality(InFlight(c)') = IF gone THEN Cardinality(InFlight(c)) - 1 ELSE Cardinality(InFlight(c))
    BY ZenonT(60), <2>2, <2>3, FlightIsFinite, FS_RemoveElement DEF LedgerInv, TablesFit
  <2>5. rows'[c].count + Cardinality(InFlight(c)') <= charged[c]
    <3>1. CASE c = x
      <4>1. proc[p].row.count + Cardinality(InFlight(c)) <= charged[c] /\ proc[p].row.count \in Nat
        BY <1>1, <1>4, <3>1 DEF LedgerInv, ChargesFit, Cust
      <4> QED
        BY <1>5, <1>8, <2>4, <3>1, <4>1
    <3>2. CASE c # x
      BY <1>8, <2>4, <3>2 DEF LedgerInv, ChargesFit
    <3> QED
      BY <3>1, <3>2
  <2>6. ASSUME NEW y \in Procs, proc'[y].pc = "write", proc'[y].job.cust = c
        PROVE  proc'[y].row.count + Cardinality(InFlight(c)') <= charged[c]
    <3>1. y # p
      BY <1>0, <1>1, <1>3, <2>6
    <3>2. proc'[y] = proc[y] /\ proc[y].row.count \in Nat
      BY <1>1, <2>6, <3>1 DEF LedgerInv, TablesFit, ProcFits
    <3>3. proc[y].row.count + Cardinality(InFlight(c)) <= charged[c]
      BY <2>6, <3>2 DEF LedgerInv, ChargesFit, Cust
    <3> QED
      BY <2>4, <3>2, <3>3
  <2> QED
    BY <2>5, <2>6
<1>12. ErasedFit'
  <2>1. \A c \in Erased \ straddled : c # x
    BY <1>1, <1>4 DEF LedgerInv, ErasedFit, LookedUp, Cust
  <2>2. \A y \in Procs : proc'[y].pc = "write" => proc'[y] = proc[y]
    BY <1>0, <1>1, <1>3 DEF LedgerInv, TablesFit
  <2> QED
    BY <1>1, <1>8, <2>1, <2>2 DEF LedgerInv, ErasedFit, Erased, Kept, LookedUp, Cust, history
<1> QED
  BY <1>9, <1>10, <1>11, <1>12 DEF LedgerInv

LEMMA InsertLedgerKeeps == ASSUME LedgerInv, NEW p \in Procs, InsertLedger(p) PROVE LedgerInv'
<1> USE Places
<1>j. PICK j : j = proc[p].job
  OBVIOUS
<1>q. PICK q : q = SubDone(p)
  OBVIOUS
<1>0. /\ ProcFits(p, proc[p]) /\ p \in DOMAIN proc /\ DOMAIN proc[p] = HandlerFields
      /\ p \in Sources <=> p \notin Requests
  BY HandlerIs
<1>1. /\ proc[p].pc = "ledger" /\ listing' = listing /\ UNCHANGED <<mail, rows, del, history>>
      /\ proc' = [proc EXCEPT ![p] = q]
      /\ ledger' = IF j.cust \in Erased \/ \E l \in ledger : l.key = j.key THEN ledger
                   ELSE ledger \cup {[key |-> j.key, cust |-> j.cust, type |-> j.type]}
  BY <1>j, <1>q DEF InsertLedger, At, world
<1>2. /\ DOMAIN q = HandlerFields /\ q.page = proc[p].page
      /\ q.pc = IF p \in Sources THEN "next" ELSE "sum"
      /\ p \notin Sources => q.job = j
  BY <1>0, <1>j, <1>q DEF SubDone, HandlerFields
<1>3. j.key[2] = j.cust /\ j.kind = "sub" /\ (p \notin Sources => j.cust \in Customers)
  BY <1>0, <1>1, <1>j DEF ProcFits, PullFits, PulledFits, RequestFits, EventFits
<1>4. /\ \A l \in ledger : l \in ledger'
      /\ j.cust \in Erased \/ \E l \in ledger' : l.key = j.key
      /\ \A l \in ledger' : l \in ledger \/ (l.key = j.key /\ l.cust = j.cust /\ j.cust \notin Erased)
  <2> PICK row : row = [key |-> j.key, cust |-> j.cust, type |-> j.type]
    OBVIOUS
  <2>1. CASE j.cust \in Erased \/ \E l \in ledger : l.key = j.key
    BY <1>1, <2>1
  <2>2. CASE ~(j.cust \in Erased \/ \E l \in ledger : l.key = j.key)
    BY <1>1, <2>2
  <2> QED
    BY <2>1, <2>2
<1>5. \A m : Ledgered(m) => Ledgered(m)'
  BY <1>1, <1>4 DEF Ledgered
<1>6. ProcFits(p, q)'
  <2>1. CASE p \in Sources
    BY <1>0, <1>1, <1>2, <2>1 DEF ProcFits, PullFits, HandlerFields
  <2>2. CASE p \notin Sources
    <3>1. j.cust \in Customers /\ j.kind = "sub" /\ j.key[2] = j.cust /\ q.pc = "sum" /\ q.job = j
      BY <1>2, <1>3, <2>2
    <3>2. Ledgered(j)'
      BY <1>1, <1>4 DEF Ledgered, Erased
    <3> QED
      BY <1>1, <1>2, <2>2, <3>1, <3>2 DEF ProcFits, RequestFits, EventFits, HandlerFields
  <2> QED
    BY <2>1, <2>2
<1>7. TablesFit'
  <2>1. \A l \in ledger' : l.key[2] = l.cust
    BY <1>3, <1>4 DEF LedgerInv, TablesFit
  <2>2. DOMAIN rows' = Customers /\ \A c \in Customers : rows'[c].count \in Nat
    BY <1>1 DEF LedgerInv, TablesFit
  <2> QED
    BY <1>1, <1>5, <1>6, <2>1, <2>2, TablesKeep DEF LedgerInv, TablesFit, history
<1>8. AnsweredIsLedgered'
  BY <1>1, <1>5 DEF LedgerInv, AnsweredIsLedgered, history
<1>9. \A y \in Procs : proc'[y].pc \in {"read", "write"} <=> y # p /\ proc[y].pc \in {"read", "write"}
  BY <1>0, <1>1, <1>2 DEF LedgerInv, TablesFit
<1>10. \A y \in Procs : y # p => proc'[y] = proc[y]
  BY <1>0, <1>1 DEF LedgerInv, TablesFit
<1>11. ChargesFit'
  <2>1. \A c : InFlight(c)' = InFlight(c)
    BY <1>1, <1>9, <1>10 DEF InFlight, Cust, Procs
  <2>2. \A y \in Procs : proc'[y].pc = "write" => proc'[y] = proc[y]
    BY <1>2, <1>1, <1>0, <1>10
  <2> QED
    BY <1>1, <2>1, <2>2 DEF LedgerInv, ChargesFit, Cust, history
<1>12. ErasedFit'
  <2>1. \A y \in Procs : proc'[y].pc = "write" => proc'[y] = proc[y]
    BY <1>2, <1>1, <1>0, <1>10
  <2> QED
    BY <1>1, <1>4, <2>1 DEF LedgerInv, ErasedFit, Erased, Kept, LookedUp, Cust, history
<1> QED
  BY <1>7, <1>8, <1>11, <1>12 DEF LedgerInv

\* The charge that arrives is counted before its handler has read the row.
LEMMA ReceiveKeeps ==
  ASSUME LedgerInv, NEW r \in Requests, NEW m \in mail, Receive(r, m) PROVE LedgerInv'
<1> USE Places
<1>q. PICK q : q = [Idle EXCEPT !.pc = "read", !.job = m]
  OBVIOUS
<1>0. r \in Procs /\ r \in DOMAIN proc /\ r \notin Sources
  BY HandlerIs DEF Procs
<1>1. /\ proc[r].pc = "idle" /\ listing' = listing
      /\ UNCHANGED <<mail, rows, ledger, del, answered, straddled>>
      /\ proc' = [proc EXCEPT ![r] = q]
      /\ charged' = IF m.kind = "invoice" THEN [charged EXCEPT ![m.cust] = @ + 1] ELSE charged
  BY <1>q DEF Receive, At, world
<1>2. q.pc = "read" /\ q.job = m /\ DOMAIN q = HandlerFields
  BY <1>q, IdleIs DEF HandlerFields
<1>3. m.cust \in Customers /\ EventFits(m)
  BY DEF LedgerInv, TablesFit, EventFits
<1>4. \A y \in Procs : proc'[y] = IF y = r THEN q ELSE proc[y]
  BY <1>1 DEF LedgerInv, TablesFit
<1>5. \A m1 : Ledgered(m1) => Ledgered(m1)'
  BY <1>1 DEF Ledgered
<1>6. ProcFits(r, q)
  BY <1>0, <1>2, <1>3 DEF ProcFits, RequestFits, HandlerFields
<1>7. charged \in [Customers -> Nat] /\ charged' \in [Customers -> Nat]
  BY <1>1, <1>3 DEF LedgerInv, TablesFit
<1>8. TablesFit'
  <2>1. ASSUME NEW x \in Procs, NEW v \in {proc'[x]} PROVE ProcFits(x, v)'
    <3>1. ProcFits(x, v)
      BY <1>4, <1>6, <2>1 DEF LedgerInv, TablesFit
    <3> QED
      BY <1>1, <1>5, <3>1, FitsStay
  <2>2. \A m1 \in mail \cup answered : EventFits(m1)'
    BY <1>1 DEF LedgerInv, TablesFit, EventFits
  <2> QED
    BY <1>1, <1>7, <2>1, <2>2 DEF LedgerInv, TablesFit
<1>9. AnsweredIsLedgered'
  BY <1>1, <1>5 DEF LedgerInv, AnsweredIsLedgered
<1>10. ChargesFit'
  <2> SUFFICES ASSUME NEW c \in Customers, SourceOf(c) = "stripe"
               PROVE  /\ rows[c].count + Cardinality(InFlight(c)') <= charged'[c]
                      /\ \A y \in Procs : proc'[y].pc = "write" /\ proc'[y].job.cust = c =>
                           proc'[y].row.count + Cardinality(InFlight(c)') <= charged'[c]
    BY <1>1 DEF ChargesFit, Cust
  <2> DEFINE more == c = m.cust /\ m.kind = "invoice"
  <2>1. InFlight(c)' = IF more THEN InFlight(c) \cup {r} ELSE InFlight(c)
    BY <1>1, <1>2, <1>4 DEF InFlight, Cust, Procs
  <2>2. r \notin InFlight(c)
    BY <1>1 DEF InFlight
  <2>3. /\ Cardinality(InFlight(c)) \in Nat
        /\ Cardinality(InFlight(c)') = IF more THEN Cardinality(InFlight(c)) + 1 ELSE Cardinality(InFlight(c))
    BY ZenonT(60), <2>1, <2>2, FlightIsFinite, FS_AddElement
  <2>4. /\ charged[c] \in Nat /\ charged'[c] = IF more THEN charged[c] + 1 ELSE charged[c]
        /\ rows[c].count \in Nat
    BY <1>1, <1>7 DEF LedgerInv, TablesFit
  <2>5. rows[c].count + Cardinality(InFlight(c)) <= charged[c]
    BY DEF LedgerInv, ChargesFit
  <2>6. ASSUME NEW y \in Procs, proc'[y].pc = "write", proc'[y].job.cust = c
        PROVE  proc'[y].row.count + Cardinality(InFlight(c)') <= charged'[c]
    <3>1. proc'[y] = proc[y]
      BY <1>2, <1>4, <2>6
    <3>2. proc[y].row.count + Cardinality(InFlight(c)) <= charged[c] /\ proc[y].row.count \in Nat
      BY <2>6, <3>1 DEF LedgerInv, ChargesFit, Cust, TablesFit, ProcFits
    <3> QED
      BY <2>3, <2>4, <3>1, <3>2
  <2> QED
    BY <2>3, <2>4, <2>5, <2>6
<1>11. ErasedFit'
  BY <1>1, <1>2, <1>4 DEF LedgerInv, ErasedFit, Erased, Kept, LookedUp, Cust
<1> QED
  BY <1>8, <1>9, <1>10, <1>11 DEF LedgerInv

LEMMA AnswerKeeps == ASSUME LedgerInv, NEW r \in Requests, Answer(r) PROVE LedgerInv'
<1> USE Places
<1>j. PICK j : j = proc[r].job
  OBVIOUS
<1>0. r \in Procs /\ r \in DOMAIN proc /\ r \notin Sources /\ ProcFits(r, proc[r])
  BY HandlerIs DEF Procs
<1>1. /\ proc[r].pc = "done" /\ listing' = listing
      /\ UNCHANGED <<rows, ledger, del, charged, straddled>>
      /\ proc' = [proc EXCEPT ![r] = Idle] /\ mail' \subseteq mail /\ answered' = answered \cup {j}
  BY <1>j DEF Answer, At
<1>2. EventFits(j) /\ Ledgered(j)
  BY <1>0, <1>1, <1>j DEF ProcFits, RequestFits
<1>3. \A y \in Procs : proc'[y] = IF y = r THEN Idle ELSE proc[y]
  BY <1>1 DEF LedgerInv, TablesFit
<1>4. \A m : Ledgered(m) => Ledgered(m)'
  BY <1>1 DEF Ledgered
<1>5. TablesFit'
  <2>1. ASSUME NEW x \in Procs, NEW v \in {proc'[x]} PROVE ProcFits(x, v)'
    <3>1. ProcFits(x, v)
      BY <1>3, <2>1, IdleIs DEF LedgerInv, TablesFit
    <3> QED
      BY <1>1, <1>4, <3>1, FitsStay
  <2>2. \A m \in mail' \cup answered' : EventFits(m)'
    BY <1>1, <1>2 DEF LedgerInv, TablesFit, EventFits
  <2> QED
    BY <1>1, <2>1, <2>2 DEF LedgerInv, TablesFit
<1>6. AnsweredIsLedgered'
  BY <1>1, <1>2, <1>4 DEF LedgerInv, AnsweredIsLedgered
<1>7. \A y \in Procs : proc'[y].pc = "write" => proc'[y] = proc[y]
  BY <1>3, IdleIs
<1>8. ChargesFit'
  <2>1. \A c : InFlight(c)' = InFlight(c)
    BY <1>1, <1>3, IdleIs DEF InFlight, Cust, Procs
  <2> QED
    BY <1>1, <1>7, <2>1 DEF LedgerInv, ChargesFit, Cust
<1>9. ErasedFit'
  BY <1>1, <1>7 DEF LedgerInv, ErasedFit, Erased, Kept, LookedUp, Cust
<1> QED
  BY <1>5, <1>6, <1>8, <1>9 DEF LedgerInv

\* Deleting a person takes rows away, then their ledger, whose keys are theirs,
\* and says who still had looked them up.
LEMMA EraseKeeps == ASSUME LedgerInv, NEW c \in Customers, Erase(c) PROVE LedgerInv'
<1> USE Places
<1>1. listing' = listing /\ UNCHANGED <<mail, proc, answered, charged>>
  BY DEF Erase, EraseRows, EraseLedger, Tombstone, world, history
<1>2. \A x \in Customers : SourceOf(x)' = SourceOf(x) /\ InFlight(x)' = InFlight(x)
  BY <1>1 DEF InFlight, Cust
<1>3. ASSUME \A m : EventFits(m) /\ Ledgered(m) => Ledgered(m)',
             DOMAIN rows' = Customers, \A x \in Customers : rows'[x].count \in Nat,
             DOMAIN del' = Customers, \A l \in ledger' : l \in ledger
      PROVE  TablesFit' /\ AnsweredIsLedgered'
  <2>1. ASSUME NEW x \in Procs, NEW v \in {proc'[x]} PROVE ProcFits(x, v)'
    <3>1. ProcFits(x, v)
      BY <1>1, <2>1 DEF LedgerInv, TablesFit
    <3> QED
      BY <1>1, <1>3, <3>1, FitsStay
  <2>2. \A m \in mail \cup answered : EventFits(m) /\ EventFits(m)'
    BY <1>1 DEF LedgerInv, TablesFit, EventFits
  <2>3. TablesFit'
    BY <1>1, <1>3, <2>1, <2>2 DEF LedgerInv, TablesFit
  <2>4. AnsweredIsLedgered'
    BY <1>1, <1>3, <2>2 DEF LedgerInv, AnsweredIsLedgered, EventFits
  <2> QED
    BY <2>3, <2>4
<1>4. DOMAIN rows = Customers /\ DOMAIN del = Customers /\ \A x \in Customers : rows[x].count \in Nat
  BY DEF LedgerInv, TablesFit
<1>5. rows' = rows => ChargesFit'
  BY <1>1, <1>2 DEF LedgerInv, ChargesFit, Cust
<1>6. CASE EraseRows(c)
  <2>1. /\ del[c] = "no" /\ del' = [del EXCEPT ![c] = "rows"] /\ rows' = [rows EXCEPT ![c] = NoRow]
        /\ UNCHANGED <<ledger, straddled>> /\ NoRow.count = 0
    BY <1>6 DEF EraseRows, history, NoRow
  <2>2. \A m : EventFits(m) /\ Ledgered(m) => Ledgered(m)'
    BY <1>4, <2>1 DEF Ledgered, EventFits
  <2>3. \A x \in Customers : rows'[x].count \in Nat /\ rows'[x].count <= rows[x].count
    BY <1>4, <2>1
  <2>4. ChargesFit'
    <3> SUFFICES ASSUME NEW x \in Customers, SourceOf(x) = "stripe"
                 PROVE  rows'[x].count + Cardinality(InFlight(x)) <= charged[x]
      BY <1>1, <1>2 DEF LedgerInv, ChargesFit, Cust
    <3>1. /\ rows[x].count + Cardinality(InFlight(x)) <= charged[x]
          /\ Cardinality(InFlight(x)) \in Nat /\ charged[x] \in Nat
      BY FlightIsFinite DEF LedgerInv, ChargesFit, TablesFit
    <3> QED
      BY <1>4, <2>3, <3>1
  <2>5. ErasedFit'
    BY <1>1, <1>4, <2>1 DEF LedgerInv, ErasedFit, Erased, Kept, LookedUp, Cust
  <2> QED
    BY <1>3, <1>4, <2>1, <2>2, <2>3, <2>4, <2>5 DEF LedgerInv
<1>7. CASE EraseLedger(c)
  <2>1. /\ del' = [del EXCEPT ![c] = "ledger"] /\ ledger' = {l \in ledger : l.cust # c}
        /\ UNCHANGED <<rows, straddled>> /\ del[c] = "rows"
    BY <1>7 DEF EraseLedger, history
  <2>2. ASSUME NEW m, EventFits(m), Ledgered(m)
        PROVE  Ledgered(m)'
    <3> SUFFICES ASSUME m.kind = "sub", del'[m.cust] = "no" PROVE \E l \in ledger' : l.key = m.key
      BY DEF Ledgered
    <3>1. m.cust # c /\ del[m.cust] = "no"
      BY <1>4, <2>1, <2>2 DEF EventFits
    <3>2. PICK l \in ledger : l.key = m.key
      BY <2>2, <3>1 DEF Ledgered
    <3>3. l.cust = m.cust
      BY <2>2, <3>2 DEF LedgerInv, TablesFit, EventFits
    <3> QED
      BY <2>1, <3>1, <3>2, <3>3
  <2>3. ErasedFit'
    BY <1>1, <1>4, <2>1 DEF LedgerInv, ErasedFit, Erased, Kept, LookedUp, Cust
  <2> QED
    BY <1>3, <1>4, <1>5, <2>1, <2>2, <2>3 DEF LedgerInv
<1>8. CASE Tombstone(c)
  <2>1. /\ del' = [del EXCEPT ![c] = "yes"] /\ UNCHANGED <<rows, ledger>>
        /\ straddled' = IF Kept(c) \/ LookedUp(c) THEN straddled \cup {c} ELSE straddled
    BY <1>8 DEF Tombstone
  <2>2. \A m : EventFits(m) /\ Ledgered(m) => Ledgered(m)'
    BY <1>4, <2>1 DEF Ledgered, EventFits
  <2>3. ErasedFit'
    BY <1>1, <1>4, <2>1 DEF LedgerInv, ErasedFit, Erased, Kept, LookedUp, Cust
  <2> QED
    BY <1>3, <1>4, <1>5, <2>1, <2>2, <2>3 DEF LedgerInv
<1> QED
  BY <1>6, <1>7, <1>8 DEF Erase

\* Upstream only announces what fits.
LEMMA UpstreamKeeps ==
  ASSUME LedgerInv, NEW c \in Customers, Subscribe(c) \/ Change(c) \/ Cancel(c) \/ Bill(c)
  PROVE  LedgerInv'
<1> USE Places
<1>1. ASSUME listing' = listing, UNCHANGED <<rows, ledger, proc, del, history>>,
             \A m \in mail' : m \in mail \/ EventFits(m)
      PROVE  LedgerInv'
  <2>1. \A m : Ledgered(m) => Ledgered(m)'
    BY <1>1 DEF Ledgered
  <2>2. ASSUME NEW x \in Procs, NEW v \in {proc'[x]} PROVE ProcFits(x, v)'
    <3>1. ProcFits(x, v)
      BY <1>1, <2>2 DEF LedgerInv, TablesFit
    <3> QED
      BY <1>1, <2>1, <3>1, FitsStay
  <2>3. \A m \in mail' \cup answered' : EventFits(m)'
    BY <1>1 DEF LedgerInv, TablesFit, EventFits, history
  <2>4. TablesFit'
    BY <1>1, <2>2, <2>3 DEF LedgerInv, TablesFit, history
  <2>5. AnsweredIsLedgered'
    BY <1>1, <2>1 DEF LedgerInv, AnsweredIsLedgered, history
  <2>6. ChargesFit'
    BY <1>1 DEF LedgerInv, ChargesFit, InFlight, Cust, history
  <2>7. ErasedFit'
    BY <1>1 DEF LedgerInv, ErasedFit, Erased, Kept, LookedUp, Cust, history
  <2> QED
    BY <2>4, <2>5, <2>6, <2>7 DEF LedgerInv
<1>2. ASSUME NEW sub, NEW type, NEW delta, Becomes(c, sub, type, delta) PROVE LedgerInv'
  <2>1. PICK j : j = SubJob(c, sub, <<"evt", c, changes>>, type, delta)
    OBVIOUS
  <2>2. EventFits(j)
    BY <2>1 DEF SubJob, EventFits
  <2>3. \A m \in mail' : m \in mail \/ m = j
    BY <1>2, <2>1 DEF Becomes, Announce
  <2>4. listing' = listing /\ UNCHANGED <<rows, ledger, proc, del, history>>
    BY <1>2 DEF Becomes
  <2> QED
    BY <1>1, <2>2, <2>3, <2>4
<1>3. CASE Bill(c)
  <2>1. \A n : EventFits([NoJob EXCEPT !.kind = "invoice", !.cust = c, !.key = n])
    BY DEF EventFits, NoJob, SubJob
  <2>2. \A m \in mail' : m \in mail \/ EventFits(m)
    BY ZenonT(60), <1>3, <2>1 DEF Bill, Announce
  <2> QED
    BY <1>1, <1>3, <2>2 DEF Bill
<1>4. CASE Subscribe(c)
  BY <1>2, <1>4 DEF Subscribe
<1>5. CASE Change(c)
  BY <1>2, <1>5 DEF Change
<1>6. CASE Cancel(c)
  BY <1>2, <1>6 DEF Cancel
<1> QED
  BY <1>3, <1>4, <1>5, <1>6

-----------------------------------------------------------------------------
LEMMA RevenueStep == ASSUME LedgerInv, [Next]_vars PROVE LedgerInv'
<1>1. CASE UNCHANGED vars
  <2> USE <1>1, Places DEF vars
  <2>1. \A m : Ledgered(m) => Ledgered(m)'
    BY DEF Ledgered
  <2>2. ASSUME NEW x \in Procs, NEW v \in {proc'[x]} PROVE ProcFits(x, v)'
    <3>1. ProcFits(x, v)
      BY <2>2 DEF LedgerInv, TablesFit
    <3> QED
      BY <2>1, <3>1, FitsStay
  <2>3. \A m \in mail' \cup answered' : EventFits(m)'
    BY DEF LedgerInv, TablesFit, EventFits
  <2>4. TablesFit'
    BY <2>2, <2>3 DEF LedgerInv, TablesFit
  <2>5. ChargesFit'
    BY DEF LedgerInv, ChargesFit, InFlight, Cust
  <2>6. ErasedFit'
    BY DEF LedgerInv, ErasedFit, Erased, Kept, LookedUp, Cust
  <2> QED
    BY <2>1, <2>4, <2>5, <2>6 DEF LedgerInv, AnsweredIsLedgered
<1>2. CASE \E c \in Customers : Subscribe(c) \/ Change(c) \/ Cancel(c) \/ Bill(c) \/ Erase(c)
  BY <1>2, UpstreamKeeps, EraseKeeps
<1>3. CASE \E r \in Requests : Answer(r) \/ \E m \in mail : Receive(r, m)
  BY <1>3, AnswerKeeps, ReceiveKeeps
<1>4. CASE \E p \in Procs : Apply(p) \/ Fail(p)
  BY <1>4, ReadRowKeeps, WriteRowKeeps, InsertLedgerKeeps, TotalsKeep, FailKeeps DEF Apply
<1>5. CASE \E s \in Sources : Begin(s, TRUE) \/ Begin(s, FALSE) \/ Pull(s) \/ RateLimited(s)
  <2>1. Sources \subseteq Procs
    BY DEF Procs
  <2> QED
    BY <1>5, <2>1, PullKeeps, FailKeeps DEF Pull
<1> QED
  BY <1>1, <1>2, <1>3, <1>4, <1>5 DEF Next

LEMMA LedgerInvHolds == LedgerInv => LedgerIsTrue
<1> SUFFICES ASSUME LedgerInv PROVE LedgerIsTrue
  OBVIOUS
<1>1. ASSUME NEW c \in Customers, SourceOf(c) = "stripe" PROVE rows[c].count <= charged[c]
  <2>1. /\ rows[c].count + Cardinality(InFlight(c)) <= charged[c]
        /\ rows[c].count \in Nat /\ charged[c] \in Nat /\ Cardinality(InFlight(c)) \in Nat
    BY <1>1, FlightIsFinite DEF LedgerInv, ChargesFit, TablesFit
  <2> QED
    BY <2>1
<1> QED
  BY <1>1 DEF LedgerInv, LedgerIsTrue, NoChargeInvented, StaysErased, ErasedFit

\* stripe.ts and revenuecat.ts, for any customers, prices, requests in progress
\* and bounds: an answered subscription event is in the ledger, no charge is
\* counted that no delivery brought, and a deleted person whom nobody had looked
\* up stays out of the rows and the ledger.
THEOREM LedgerStaysTrue == Spec => []LedgerIsTrue
BY RevenueBegins, RevenueStep, LedgerInvHolds, PTL DEF Spec

-----------------------------------------------------------------------------
(* The deck.  What every call and row keeps whatever the others do.            *)
AList(s) == \E S : s \in Seq(S)
Lifecycles == {"none", "active", "retired"}
DeckFits(sp) ==
  /\ sp = [m \in Metrics |-> sp[m]]
  /\ \A m \in Metrics : sp[m] = [src |-> sp[m].src, life |-> sp[m].life] /\ sp[m].life \in Lifecycles
Writing == {"load", "row", "write", "save", "points", "put", "defs", "move", "audit"}
(* A call by itself: what it asks for, and what it has left to store of it.    *)
ShapeFits(q) ==
  /\ q = [at |-> q.at, req |-> q.req, meta |-> q.meta, row |-> q.row, rows |-> q.rows, queue |-> q.queue,
          todo |-> q.todo, byKey |-> q.byKey, shown |-> q.shown, proposed |-> q.proposed, asked |-> q.asked]
  /\ q.req = [op |-> q.req.op, id |-> q.req.id, src |-> q.req.src, points |-> q.req.points, order |-> q.req.order]
  /\ q.meta = [specs |-> q.meta.specs, order |-> q.meta.order] /\ DeckFits(q.meta.specs)
  /\ AList(q.req.points) /\ AList(q.todo) /\ Len(q.todo) <= Len(q.req.points)
  /\ \A i \in 1..Len(q.todo) : q.todo[i] = q.req.points[Len(q.req.points) - Len(q.todo) + i]
AskFits(q) ==
  /\ q.at \in {"editRow", "editMeta"} => q.req.op = "edit"
  /\ q.at \in {"list", "listDefs"} => q.req.op = "accept"
  /\ q.at \in {"viewDefs", "viewMeta"} <=> q.req.op = "view" /\ q.at # "ok"
  /\ q.at = "row" => q.req.op # "reorder"
  /\ q.at = "write" => q.req.op \in {"define", "edit", "accept"}
  /\ q.at \in {"points", "put"} => q.req.op \in {"define", "import"}
  /\ q.at \in {"defs", "move"} => q.req.op = "reorder"
  /\ q.at = "audit" => q.todo = <<>>
  /\ q.at \in Writing \cup {"editRow", "editMeta", "list", "listDefs"} =>
       /\ q.asked.op = q.req.op
       /\ q.req.op \in {"define", "edit", "accept", "retire", "reorder", "import"}
       /\ q.req.op \in {"define", "edit", "retire", "import"} => q.req.id \in Metrics
       /\ q.req.op = "define" => q.req.src = q.asked.src /\ q.req.src # "none"
       /\ q.req.op = "accept" /\ q.at \notin {"list", "listDefs"} => q.req.src = "count"
       /\ q.at \in {"editRow", "editMeta"} => q.req.src = q.asked.src
       /\ q.req.points # <<>> => q.req.op \in {"define", "import"}
       /\ q.at \in {"load", "row", "write", "save", "points"} => q.todo = q.req.points
  /\ q.at = "idle" => q.req = NoRequest
  /\ q.shown \cap q.proposed = {}
CallTypes ==
  /\ DeckFits(specs) /\ DeckFits(wanted) /\ defs = [m \in Metrics |-> defs[m]] /\ alone \in BOOLEAN
  /\ AList(points) /\ \A k \in 1..Len(points) : points[k] = [id |-> points[k].id, at |-> points[k].at, value |-> points[k].value]
  /\ ops = [o \in Ops |-> ops[o]] /\ \A o \in Ops : ShapeFits(ops[o]) /\ AskFits(ops[o])

(* Only a call that asked for it has a metric retired.                         *)
Retires(m) == \E p \in Ops : Op(p) = "retire" /\ Id(p) = m
RetiredFits(sp) == \A m \in Metrics : sp[m].life = "retired" => Retires(m)
RetiredInv == RetiredFits(specs) /\ \A o \in Ops : RetiredFits(ops[o].meta.specs)
(* A call that has written its metric's row finds it there ever after.         *)
RowsInv ==
  \A o \in Ops : Defines(o) /\ Id(o) \in Metrics /\ ops[o].at \in {"save", "points", "put", "audit", "ok"} =>
    defs[Id(o)] # NoDef

(* What a call that stores points knows of the rows of its metric, but for     *)
(* weeks that another call stores too.                                         *)
Lies(id, t, k) == points[k].id = id /\ points[k].at = t
Done(o) == 1..(Len(ops[o].req.points) - Len(ops[o].todo))
KnownFits(o) ==
  \A t \in DOMAIN ops[o].byKey :
    LET b == ops[o].byKey[t] IN
    \/ b.row = -1 /\ \E k \in Done(o) : ops[o].req.points[k].at = t
    \/ /\ b.row \in 1..Len(points) /\ Lies(Id(o), t, b.row)
       /\ \/ Contested(o, t) \/ points[b.row].value = b.value
          \/ \E k \in Done(o) : ops[o].req.points[k].at = t
NewFits(o) ==
  \A k \in 1..Len(points) : points[k].id = Id(o) =>
    points[k].at \in DOMAIN ops[o].byKey \/ Contested(o, points[k].at)
StoredFits(o) ==
  \A k \in Done(o) :
    \/ Twice(ops[o].req, k) \/ Contested(o, ops[o].req.points[k].at) \/ Stored(Id(o), ops[o].req.points[k])
PointsInv ==
  /\ OnePointAWeek
  /\ \A o \in Ops : /\ ops[o].at = "put" => KnownFits(o) /\ NewFits(o)
                    /\ ops[o].at \in {"put", "audit"} => StoredFits(o)

(* While no two calls that write have overlapped, the one there is stands so.  *)
RowsOf(sp) == \A m \in Metrics : (sp[m].life = "active" => defs[m] # NoDef) /\ (defs[m] # NoDef => sp[m].src # "none")
Early == {"editRow", "editMeta", "list", "listDefs", "load"}
Late == {"defs", "move", "points", "put", "audit"}
StageFits(o) ==
  LET c == ops[o] IN
  /\ c.at \in Early \cup {"row", "write"} => specs = wanted /\ RowsOf(specs)
  /\ c.at \in {"row", "write"} => c.meta.specs = specs
  /\ c.at = "write" => c.row = defs[Id(o)]
  /\ c.at \in {"load", "row", "write"} /\ Defines(o) =>
       Asked(o) = Spec_(c.req.src, "active") /\ c.req.src # "none"
  /\ c.at = "save" => specs = wanted /\ c.meta.specs = Due(o) /\ RowsOf(c.meta.specs)
  /\ c.at \in Late => specs = Due(o) /\ RowsOf(specs)
AloneInv ==
  alone =>
    /\ \A o, p \in Ops : Running(o) /\ Writes(o) /\ Running(p) /\ Writes(p) => o = p
    /\ (\A o \in Ops : Running(o) => ~Writes(o)) => specs = wanted /\ RowsOf(specs)
    /\ \A o \in Ops : Running(o) /\ Writes(o) => StageFits(o)

DeckInv == CallTypes /\ RetiredInv /\ RowsInv /\ PointsInv /\ AloneInv

-----------------------------------------------------------------------------
LEMMA GoesIs ==
  ASSUME CallTypes, NEW o \in Ops, NEW q, Goes(o, q)
  PROVE  ops'[o] = q /\ (\A p \in Ops : p # o => ops'[p] = ops[p]) /\ ops' = [p \in Ops |-> ops'[p]]
<1>1. ops = [p \in Ops |-> ops[p]] /\ ops' = [ops EXCEPT ![o] = q]
  BY DEF CallTypes, Goes
<1> QED BY <1>1

(* A step of call o leaves the other calls alone; what the calls asked for     *)
(* stays asked for.                                                            *)
Keeps(o) ==
  /\ ops' = [p \in Ops |-> ops'[p]] /\ \A p \in Ops : p # o => ops'[p] = ops[p]
  /\ ShapeFits(ops'[o]) /\ AskFits(ops'[o])
  /\ ops[o].req.op = "retire" => ops'[o].req.op = "retire" /\ ops'[o].req.id = ops[o].req.id
  /\ ops[o].req.points = <<>> \/ ops'[o].req.points = ops[o].req.points
  /\ (alone' => alone) /\ alone' \in BOOLEAN

LEMMA RetiresStays == ASSUME NEW o \in Ops, Keeps(o), NEW m, Retires(m) PROVE Retires(m)'
<1>1. PICK p \in Ops : ops[p].req.op = "retire" /\ ops[p].req.id = m
  BY DEF Retires, Op, Id
<1>2. ops'[p].req.op = "retire" /\ ops'[p].req.id = m
  BY <1>1 DEF Keeps
<1> QED BY <1>2 DEF Retires, Op, Id

LEMMA RetiredStays ==
  ASSUME RetiredInv, NEW o \in Ops, Keeps(o),
         \A m \in Metrics : specs'[m].life = "retired" \/ ops'[o].meta.specs[m].life = "retired"
                            => Retires(m) \/ Retires(m)'
  PROVE  RetiredInv'
<1>1. \A m : Retires(m) => Retires(m)'
  BY RetiresStays
<1>2. \A m \in Metrics : specs'[m].life = "retired" => Retires(m)'
  BY <1>1
<1>3. ASSUME NEW p \in Ops, NEW m \in Metrics, ops'[p].meta.specs[m].life = "retired" PROVE Retires(m)'
  <2>1. CASE p = o
    BY <1>1, <1>3, <2>1
  <2>2. CASE p # o
    BY <1>1, <1>3, <2>2 DEF Keeps, RetiredInv, RetiredFits
  <2> QED BY <2>1, <2>2
<1> QED BY <1>2, <1>3 DEF RetiredInv, RetiredFits

HasRow(q) == q.req.op \in {"define", "edit", "accept"} /\ q.req.id \in Metrics /\ q.at \in {"save", "points", "put", "audit", "ok"}
LEMMA RowsStay ==
  ASSUME RowsInv, NEW o \in Ops, Keeps(o), \A m \in Metrics : defs[m] # NoDef => defs'[m] # NoDef,
         HasRow(ops'[o]) => defs'[ops'[o].req.id] # NoDef
  PROVE  RowsInv'
<1>1. ASSUME NEW p \in Ops, HasRow(ops'[p]) PROVE defs'[ops'[p].req.id] # NoDef
  <2>1. CASE p = o
    BY <1>1, <2>1
  <2>2. CASE p # o
    BY <1>1, <2>2 DEF Keeps, RowsInv, HasRow, Op, Id, Defines
  <2> QED BY <2>1, <2>2
<1> QED BY <1>1 DEF RowsInv, HasRow, Op, Id, Defines

LEMMA ContestedStays ==
  ASSUME CallTypes, NEW o \in Ops, Keeps(o), NEW p \in Ops, NEW t, Contested(p, t)
  PROVE  Contested(p, t)'
<1>1. PICK x \in Ops \ {p} : \E j \in DOMAIN ops[x].req.points : ops[x].req.points[j].at = t
  BY DEF Contested
<1>2. ops'[x].req.points = ops[x].req.points
  BY <1>1 DEF Keeps
<1>3. ~alone'
  BY DEF Contested, Keeps
<1> QED BY <1>1, <1>2, <1>3 DEF Contested

(* Where the points are left alone, and the call that moves keeps its part.    *)
LEMMA PointsStay ==
  ASSUME CallTypes, PointsInv, NEW o \in Ops, Keeps(o), points' = points,
         ops'[o].at = "put" => KnownFits(o)' /\ NewFits(o)',
         ops'[o].at \in {"put", "audit"} => StoredFits(o)'
  PROVE  PointsInv'
<1>1. OnePointAWeek'
  BY DEF PointsInv, OnePointAWeek, Keeps
<1>2. \A p \in Ops : \A t : Contested(p, t) => Contested(p, t)'
  BY ContestedStays
<1>3. ASSUME NEW p \in Ops, p # o, ops'[p].at = "put" PROVE KnownFits(p)' /\ NewFits(p)'
  <2>1. ops'[p] = ops[p] /\ KnownFits(p) /\ NewFits(p)
    BY SMTT(60), <1>3 DEF Keeps, PointsInv
  <2>2. KnownFits(p)'
    BY <1>2, <2>1 DEF KnownFits, Done, Lies, Id
  <2>3. NewFits(p)'
    BY <1>2, <2>1 DEF NewFits, Id
  <2> QED BY <2>2, <2>3
<1>4. ASSUME NEW p \in Ops, p # o, ops'[p].at \in {"put", "audit"} PROVE StoredFits(p)'
  <2>1. ops'[p] = ops[p] /\ StoredFits(p)
    BY <1>4 DEF Keeps, PointsInv
  <2>2. Done(p)' = Done(p) /\ ops'[p].req = ops[p].req /\ Id(p)' = Id(p)
    BY <2>1 DEF Done, Id
  <2>3. \A y : Stored(Id(p), y) => Stored(Id(p), y)'
    BY <2>2 DEF Stored
  <2> QED BY <1>2, <2>1, <2>2, <2>3 DEF StoredFits
<1> QED BY <1>1, <1>3, <1>4 DEF PointsInv

(* While the calls that write do not overlap, the one that moves keeps its     *)
(* part, or leaves the deck as it is due.                                      *)
Busy(q) == q.at \notin {"idle", "ok", "refused", "failed"} /\ q.req.op # "view"
LEMMA WriterMoves ==
  ASSUME AloneInv, NEW o \in Ops, Keeps(o), Busy(ops[o]),
         alone' => IF Busy(ops'[o]) THEN StageFits(o)' ELSE specs' = wanted' /\ RowsOf(specs)'
  PROVE  AloneInv'
<1> SUFFICES ASSUME alone' PROVE AloneInv!2'
  BY DEF AloneInv
<1>1. alone /\ \A p \in Ops : Busy(ops[p]) => p = o
  BY DEF Keeps, AloneInv, Busy, Running, Writes
<1>2. \A p \in Ops : Busy(ops'[p]) => p = o
  BY <1>1 DEF Keeps
<1> QED BY <1>2 DEF Busy, Running, Writes

LEMMA ReaderMoves ==
  ASSUME AloneInv, NEW o \in Ops, Keeps(o), ~Busy(ops[o]), ~Busy(ops'[o]), UNCHANGED <<specs, defs, wanted>>
  PROVE  AloneInv'
<1> SUFFICES ASSUME alone' PROVE AloneInv!2'
  BY DEF AloneInv
<1>1. \A p \in Ops : Busy(ops'[p]) <=> Busy(ops[p])
  BY SMTT(60) DEF Keeps
<1>2. ASSUME NEW p \in Ops, Busy(ops[p]) PROVE StageFits(p)'
  <2>1. StageFits(p) /\ ops'[p] = ops[p]
    BY <1>2 DEF AloneInv, Keeps, Busy, Running, Writes
  <2> QED BY <2>1 DEF StageFits, Due, Asked, RowsOf, Op, Id, Defines
<1>3. (\A p \in Ops : ~Busy(ops[p])) => specs' = wanted' /\ RowsOf(specs)'
  BY DEF AloneInv, Keeps, Busy, Running, Writes, RowsOf
<1>4. \A p, x \in Ops : Busy(ops[p]) /\ Busy(ops[x]) => p = x
  BY DEF AloneInv, Keeps, Busy, Running, Writes
<1> QED BY <1>1, <1>2, <1>3, <1>4 DEF Busy, Running, Writes

LEMMA TypesStay ==
  ASSUME CallTypes, NEW o \in Ops, Keeps(o),
         specs' = specs \/ DeckFits(specs)', wanted' = wanted \/ DeckFits(wanted)', defs' = [m \in Metrics |-> defs'[m]],
         points' = points
  PROVE  CallTypes'
<1>1. DeckFits(specs') /\ DeckFits(wanted')
  BY DEF CallTypes, DeckFits
<1>2. ASSUME NEW p \in Ops PROVE ShapeFits(ops'[p]) /\ AskFits(ops'[p])
  BY DEF CallTypes, Keeps
<1> QED BY <1>1, <1>2 DEF CallTypes, Keeps

LEMMA FreshFits ==
  ASSUME NEW q,
         q = [at |-> q.at, req |-> q.req, meta |-> q.meta, row |-> q.row, rows |-> q.rows, queue |-> q.queue,
              todo |-> q.todo, byKey |-> q.byKey, shown |-> q.shown, proposed |-> q.proposed, asked |-> q.asked],
         q.req = [op |-> q.req.op, id |-> q.req.id, src |-> q.req.src, points |-> q.req.points, order |-> q.req.order],
         q.meta = NoCall.meta, AList(q.req.points), q.todo = <<>> \/ q.todo = q.req.points
  PROVE  ShapeFits(q) /\ q.meta.specs = [m \in Metrics |-> Nothing]
<1>1. q.meta = [specs |-> q.meta.specs, order |-> q.meta.order] /\ q.meta.specs = [m \in Metrics |-> Nothing]
  BY DEF NoCall
<1>2. DeckFits(q.meta.specs)
  BY <1>1 DEF DeckFits, Nothing, Lifecycles
<1>3. AList(<<>>) /\ Len(<<>>) = 0 /\ Len(q.req.points) \in Nat
  BY LenProperties, EmptySeq DEF AList
<1>4. AList(q.todo) /\ Len(q.todo) <= Len(q.req.points)
  BY <1>3
<1>5. \A i \in 1..Len(q.todo) : q.todo[i] = q.req.points[Len(q.req.points) - Len(q.todo) + i]
  BY <1>3
<1> QED BY <1>1, <1>2, <1>4, <1>5 DEF ShapeFits

(* A call that ends keeps what it asked for.                                   *)
LEMMA EndsIs ==
  ASSUME CallTypes, NEW o \in Ops, NEW at \in {"ok", "refused", "failed"}, Ends(o, at), alone' = alone,
         ops[o].at \notin {"idle", "viewDefs", "viewMeta"}, Op(o) # "view"
  PROVE  Keeps(o) /\ ops'[o].at = at /\ ops'[o].req = ops[o].req /\ ops'[o].meta.specs = [m \in Metrics |-> Nothing]
<1>1. PICK q : q = [NoCall EXCEPT !.at = at, !.req = ops[o].req]
  OBVIOUS
<1>2. ops'[o] = q /\ (\A p \in Ops : p # o => ops'[p] = ops[p]) /\ ops' = [p \in Ops |-> ops'[p]]
  BY <1>1, GoesIs DEF Ends
<1>3. ShapeFits(ops[o])
  BY DEF CallTypes
<1>4. /\ q = [at |-> at, req |-> ops[o].req, meta |-> NoCall.meta, row |-> NoDef, rows |-> NoCall.rows, queue |-> <<>>,
              todo |-> <<>>, byKey |-> <<>>, shown |-> {}, proposed |-> {}, asked |-> NoRequest]
  BY ZenonT(60), <1>1 DEF NoCall
<1>5. /\ q.at = at /\ q.req = ops[o].req /\ q.todo = <<>> /\ q.shown = {} /\ q.proposed = {} /\ q.meta = NoCall.meta
      /\ q = [at |-> q.at, req |-> q.req, meta |-> q.meta, row |-> q.row, rows |-> q.rows, queue |-> q.queue,
              todo |-> q.todo, byKey |-> q.byKey, shown |-> q.shown, proposed |-> q.proposed, asked |-> q.asked]
  BY <1>4
<1>6. ShapeFits(q) /\ q.meta.specs = [m \in Metrics |-> Nothing]
  BY <1>3, <1>5, FreshFits DEF ShapeFits
<1>7. AskFits(q)
  BY <1>5 DEF AskFits, Op, Writing
<1> QED BY <1>2, <1>5, <1>6, <1>7 DEF Keeps, CallTypes

LEMMA EndKeeps ==
  ASSUME DeckInv, NEW o \in Ops, NEW at \in {"refused", "failed"}, Ends(o, at), Busy(ops[o]),
         alone => specs = wanted /\ RowsOf(specs),
         UNCHANGED <<specs, defs, points, wanted, alone>>
  PROVE  DeckInv'
<1>1. Keeps(o) /\ ops'[o].at = at /\ ops'[o].req = ops[o].req /\ ops'[o].meta.specs = [m \in Metrics |-> Nothing]
  BY EndsIs DEF DeckInv, CallTypes, AskFits, Busy, Op
<1>2. CallTypes'
  BY <1>1, TypesStay DEF DeckInv, CallTypes
<1>3. RetiredInv'
  BY <1>1, RetiredStays DEF DeckInv, RetiredInv, RetiredFits, Nothing
<1>4. RowsInv'
  BY <1>1, RowsStay DEF DeckInv, HasRow
<1>5. PointsInv'
  BY <1>1, PointsStay DEF DeckInv
<1>6. AloneInv'
  BY <1>1, WriterMoves DEF DeckInv, Busy, RowsOf
<1> QED BY SMTT(60), <1>2, <1>3, <1>4, <1>5, <1>6 DEF DeckInv

(* A call begins.                                                              *)
LEMMA WriterStarts ==
  ASSUME AloneInv, NEW o \in Ops, Keeps(o), alone' => \A p \in Ops : ~Busy(ops[p]), UNCHANGED <<specs, defs, wanted>>,
         alone' /\ specs = wanted /\ RowsOf(specs) => StageFits(o)', Busy(ops'[o])
  PROVE  AloneInv'
<1> SUFFICES ASSUME alone' PROVE AloneInv!2'
  BY DEF AloneInv
<1>1. \A p \in Ops : Busy(ops'[p]) => p = o
  BY DEF Keeps
<1>2. specs = wanted /\ RowsOf(specs)
  BY DEF Keeps, AloneInv, Busy, Running, Writes
<1> QED BY <1>1, <1>2 DEF Busy, Running, Writes

First(op) == CASE op = "edit" -> "editRow" [] op = "accept" -> "list" [] op = "view" -> "viewDefs" [] OTHER -> "load"
LEMMA FirstIs ==
  ASSUME NEW op \in {"define", "edit", "accept", "retire", "reorder", "import", "view"}
  PROVE  /\ First(op) \in {"editRow", "list", "viewDefs", "load"}
         /\ First(op) = "editRow" <=> op = "edit"
         /\ First(op) = "list" <=> op = "accept"
         /\ First(op) = "viewDefs" <=> op = "view"
BY DEF First

LEMMA StartIs ==
  ASSUME CallTypes, NEW o \in Ops, Start(o)
  PROVE  \E r \in Wishes[o] :
           /\ Keeps(o) /\ ops'[o].at = First(r.op) /\ ops'[o].req = r /\ ops'[o].asked = r
           /\ ops'[o].meta.specs = [m \in Metrics |-> Nothing] /\ ops[o].req = NoRequest
           /\ alone' = (alone /\ (r.op = "view" \/ \A p \in Ops : Running(p) => ~Writes(p)))
           /\ r.op \in {"define", "edit", "accept", "retire", "reorder", "import", "view"}
           /\ r.op = "define" => r.src # "none"
<1>1. PICK r \in Wishes[o] :
        /\ Goes(o, [NoCall EXCEPT !.req = r, !.asked = r, !.todo = r.points, !.at = First(r.op)])
        /\ alone' = (alone /\ (r.op = "view" \/ \A p \in Ops : Running(p) => ~Writes(p)))
  BY DEF Start, First
<1>2. PICK q : q = [NoCall EXCEPT !.req = r, !.asked = r, !.todo = r.points, !.at = First(r.op)]
  OBVIOUS
<1>3. ops'[o] = q /\ (\A p \in Ops : p # o => ops'[p] = ops[p]) /\ ops' = [p \in Ops |-> ops'[p]]
  BY <1>1, <1>2, GoesIs
<1>4. /\ r = [op |-> r.op, id |-> r.id, src |-> r.src, points |-> r.points, order |-> r.order]
      /\ r.op \in {"define", "edit", "accept", "retire", "reorder", "import", "view"}
      /\ r.op \in {"define", "edit", "retire", "import"} => r.id \in Metrics
      /\ r.op = "define" => r.src # "none"
      /\ r.points = <<>> \/ (r.points \in Seq(ToSet(r.points)) /\ r.op \in {"define", "import"})
  BY DeckAssumption
<1>5. AList(r.points)
  BY <1>4, EmptySeq DEF AList
<1>6. PICK f : f = First(r.op)
  OBVIOUS
<1>7. q = [at |-> f, req |-> r, meta |-> NoCall.meta, row |-> NoDef, rows |-> NoCall.rows, queue |-> <<>>,
           todo |-> r.points, byKey |-> <<>>, shown |-> {}, proposed |-> {}, asked |-> r]
  BY ZenonT(60), <1>2, <1>6 DEF NoCall
<1>8. /\ q.at = f /\ q.req = r /\ q.todo = r.points /\ q.shown = {} /\ q.proposed = {} /\ q.meta = NoCall.meta /\ q.asked = r
      /\ q = [at |-> q.at, req |-> q.req, meta |-> q.meta, row |-> q.row, rows |-> q.rows, queue |-> q.queue,
              todo |-> q.todo, byKey |-> q.byKey, shown |-> q.shown, proposed |-> q.proposed, asked |-> q.asked]
  BY <1>7
<1>9. ShapeFits(q) /\ q.meta.specs = [m \in Metrics |-> Nothing]
  BY <1>4, <1>5, <1>8, FreshFits
<1>10. /\ f \in {"editRow", "list", "viewDefs", "load"}
       /\ f = "editRow" <=> r.op = "edit"
       /\ f = "list" <=> r.op = "accept"
       /\ f = "viewDefs" <=> r.op = "view"
  BY <1>4, <1>6, FirstIs
<1>11. AskFits(q)
  BY SMTT(60), <1>4, <1>8, <1>10 DEF AskFits, Writing
<1>12. ops[o].req = NoRequest
  BY DEF Start, Stands, CallTypes, AskFits
<1>13. Keeps(o)
  BY <1>1, <1>3, <1>9, <1>11, <1>12 DEF Keeps, CallTypes, NoRequest
<1> QED BY <1>1, <1>3, <1>4, <1>6, <1>8, <1>9, <1>12, <1>13

LEMMA StartKeeps == ASSUME DeckInv, NEW o \in Ops, Start(o) PROVE DeckInv'
<1>1. PICK r \in Wishes[o] :
        /\ Keeps(o) /\ ops'[o].at = First(r.op) /\ ops'[o].req = r /\ ops'[o].asked = r
        /\ ops'[o].meta.specs = [m \in Metrics |-> Nothing] /\ ops[o].req = NoRequest
        /\ alone' = (alone /\ (r.op = "view" \/ \A p \in Ops : Running(p) => ~Writes(p)))
        /\ r.op \in {"define", "edit", "accept", "retire", "reorder", "import", "view"}
        /\ r.op = "define" => r.src # "none"
  BY StartIs DEF DeckInv
<1>2. PICK f : f = First(r.op)
  OBVIOUS
<1>3. /\ f \in {"editRow", "list", "viewDefs", "load"}
      /\ f = "editRow" <=> r.op = "edit"
      /\ f = "list" <=> r.op = "accept"
      /\ f = "viewDefs" <=> r.op = "view"
  BY <1>1, <1>2, FirstIs
<1>4. ops'[o].at = f /\ ops[o].at = "idle" /\ UNCHANGED <<specs, defs, points, wanted>>
  BY <1>1, <1>2 DEF Start, Stands
<1>5. CallTypes'
  BY <1>1, <1>4, TypesStay DEF DeckInv, CallTypes
<1>6. RetiredInv'
  BY <1>1, <1>4, RetiredStays DEF DeckInv, RetiredInv, RetiredFits, Nothing
<1>7. RowsInv'
  BY <1>1, <1>3, <1>4, RowsStay DEF DeckInv, HasRow
<1>8. PointsInv'
  BY <1>1, <1>3, <1>4, PointsStay DEF DeckInv
<1>9. AloneInv'
  <2>1. CASE r.op = "view"
    BY <1>1, <1>4, <2>1, ReaderMoves DEF DeckInv, Busy
  <2>2. CASE r.op # "view"
    <3>1. Busy(ops'[o])
      BY <1>1, <1>3, <1>4, <2>2 DEF Busy
    <3>2. alone' => \A p \in Ops : ~Busy(ops[p])
      BY <1>1, <2>2 DEF Busy, Running, Writes
    <3>3. f = "load" /\ r.op \in {"define", "edit", "accept"} => Asked(o)' = Spec_(r.src, "active") /\ r.src # "none"
      BY <1>1, <1>3 DEF Asked
    <3>4. specs = wanted /\ RowsOf(specs) => StageFits(o)'
      BY <1>1, <1>3, <1>4, <2>2, <3>3 DEF StageFits, RowsOf, Early, Late, Defines, Op
    <3> QED BY <1>1, <1>4, <3>1, <3>2, <3>4, WriterStarts DEF DeckInv
  <2> QED BY <2>1, <2>2
<1> QED BY <1>5, <1>6, <1>7, <1>8, <1>9 DEF DeckInv

(* A call that goes on, with another deck in hand or the same.                 *)
LEMMA AtIs ==
  ASSUME NEW c, ShapeFits(c), NEW a, NEW q, q = [c EXCEPT !.at = a]
  PROVE  /\ ShapeFits(q) /\ q.at = a /\ q.req = c.req /\ q.asked = c.asked /\ q.meta = c.meta /\ q.row = c.row
         /\ q.todo = c.todo /\ q.byKey = c.byKey /\ q.shown = c.shown /\ q.proposed = c.proposed /\ q.queue = c.queue
<1>1. q = [at |-> a, req |-> c.req, meta |-> c.meta, row |-> c.row, rows |-> c.rows, queue |-> c.queue, todo |-> c.todo,
           byKey |-> c.byKey, shown |-> c.shown, proposed |-> c.proposed, asked |-> c.asked]
  BY DEF ShapeFits
<1>2. /\ q.at = a /\ q.req = c.req /\ q.asked = c.asked /\ q.meta = c.meta /\ q.row = c.row /\ q.todo = c.todo
      /\ q.byKey = c.byKey /\ q.shown = c.shown /\ q.proposed = c.proposed /\ q.queue = c.queue
      /\ q = [at |-> q.at, req |-> q.req, meta |-> q.meta, row |-> q.row, rows |-> q.rows, queue |-> q.queue,
              todo |-> q.todo, byKey |-> q.byKey, shown |-> q.shown, proposed |-> q.proposed, asked |-> q.asked]
  BY <1>1
<1> QED BY <1>2 DEF ShapeFits

MetaFits(x) == x = [specs |-> x.specs, order |-> x.order] /\ DeckFits(x.specs)
Turns(c, a, x, q) == q = [c EXCEPT !.at = a, !.meta = x]
LEMMA MetaIs ==
  ASSUME NEW c, ShapeFits(c), NEW a, NEW x, MetaFits(x), NEW q, Turns(c, a, x, q)
  PROVE  /\ ShapeFits(q) /\ q.at = a /\ q.req = c.req /\ q.asked = c.asked /\ q.meta = x /\ q.row = c.row
         /\ q.todo = c.todo /\ q.byKey = c.byKey /\ q.shown = c.shown /\ q.proposed = c.proposed /\ q.queue = c.queue
<1>1. q = [at |-> a, req |-> c.req, meta |-> x, row |-> c.row, rows |-> c.rows, queue |-> c.queue, todo |-> c.todo,
           byKey |-> c.byKey, shown |-> c.shown, proposed |-> c.proposed, asked |-> c.asked]
  BY DEF ShapeFits, Turns
<1>2. /\ q.at = a /\ q.req = c.req /\ q.asked = c.asked /\ q.meta = x /\ q.row = c.row /\ q.todo = c.todo
      /\ q.byKey = c.byKey /\ q.shown = c.shown /\ q.proposed = c.proposed /\ q.queue = c.queue
      /\ q = [at |-> q.at, req |-> q.req, meta |-> q.meta, row |-> q.row, rows |-> q.rows, queue |-> q.queue,
              todo |-> q.todo, byKey |-> q.byKey, shown |-> q.shown, proposed |-> q.proposed, asked |-> q.asked]
  BY ONLY <1>1
<1> QED BY <1>2 DEF ShapeFits, MetaFits

LEMMA EditRowKeeps == ASSUME DeckInv, NEW o \in Ops, EditRow(o) PROVE DeckInv'
<1>1. /\ ShapeFits(ops[o]) /\ AskFits(ops[o]) /\ ops[o].at = "editRow" /\ ops[o].req.op = "edit"
      /\ UNCHANGED <<specs, defs, points, wanted, alone>>
  BY DEF EditRow, Stands, DeckInv, CallTypes, AskFits
<1>2. Busy(ops[o]) /\ (alone => specs = wanted /\ RowsOf(specs))
  BY <1>1 DEF Busy, DeckInv, AloneInv, Running, Writes, StageFits, Early
<1>3. CASE Ends(o, "refused")
  BY <1>1, <1>2, <1>3, EndKeeps
<1>4. CASE Goes(o, [ops[o] EXCEPT !.at = "editMeta"])
  <2>1. PICK q : q = [ops[o] EXCEPT !.at = "editMeta"]
    OBVIOUS
  <2>2. ops'[o] = q /\ (\A p \in Ops : p # o => ops'[p] = ops[p]) /\ ops' = [p \in Ops |-> ops'[p]]
    BY <1>4, <2>1, GoesIs DEF DeckInv
  <2>3. /\ ShapeFits(q) /\ q.at = "editMeta" /\ q.req = ops[o].req /\ q.asked = ops[o].asked /\ q.meta = ops[o].meta
        /\ q.todo = ops[o].todo /\ q.shown = ops[o].shown /\ q.proposed = ops[o].proposed
    BY <1>1, <2>1, AtIs
  <2>4. AskFits(q)
    BY <1>1, <2>3 DEF AskFits, Writing
  <2>5. Keeps(o)
    BY <1>1, <2>2, <2>3, <2>4 DEF Keeps, DeckInv, CallTypes
  <2>6. CallTypes'
    BY <1>1, <2>5, TypesStay DEF DeckInv, CallTypes
  <2>7. RetiredInv'
    BY <1>1, <2>2, <2>3, <2>5, RetiredStays DEF DeckInv, RetiredInv, RetiredFits
  <2>8. RowsInv'
    BY <1>1, <2>2, <2>3, <2>5, RowsStay DEF DeckInv, HasRow
  <2>9. PointsInv'
    BY <1>1, <2>2, <2>3, <2>5, PointsStay DEF DeckInv
  <2>10. alone => StageFits(o)'
    BY <1>1, <1>2, <2>2, <2>3 DEF StageFits, RowsOf, Early, Late
  <2>11. AloneInv'
    BY <1>1, <1>2, <2>2, <2>3, <2>5, <2>10, WriterMoves DEF DeckInv, Busy
  <2> QED BY <2>6, <2>7, <2>8, <2>9, <2>11 DEF DeckInv
<1> QED BY <1>3, <1>4 DEF EditRow

(* A call that writes goes on, and leaves the points alone.                    *)
LEMMA WriterKeeps ==
  ASSUME DeckInv, NEW o \in Ops, Keeps(o), Busy(ops[o]), points' = points,
         specs' = specs \/ DeckFits(specs)', wanted' = wanted \/ DeckFits(wanted)', defs' = [m \in Metrics |-> defs'[m]],
         \A m \in Metrics : specs'[m].life = "retired" \/ ops'[o].meta.specs[m].life = "retired"
                            => Retires(m) \/ Retires(m)',
         \A m \in Metrics : defs[m] # NoDef => defs'[m] # NoDef,
         HasRow(ops'[o]) => defs'[ops'[o].req.id] # NoDef,
         ops'[o].at = "put" => KnownFits(o)' /\ NewFits(o)',
         ops'[o].at \in {"put", "audit"} => StoredFits(o)',
         alone' => IF Busy(ops'[o]) THEN StageFits(o)' ELSE specs' = wanted' /\ RowsOf(specs)'
  PROVE  DeckInv'
<1>1. CallTypes'
  BY TypesStay DEF DeckInv
<1>2. RetiredInv'
  BY RetiredStays DEF DeckInv
<1>3. RowsInv'
  BY RowsStay DEF DeckInv
<1>4. PointsInv'
  BY PointsStay DEF DeckInv
<1>5. AloneInv'
  BY WriterMoves DEF DeckInv
<1> QED BY <1>1, <1>2, <1>3, <1>4, <1>5 DEF DeckInv

LEMMA WriterIs ==
  ASSUME DeckInv, NEW o \in Ops, ops[o].at \in Writing \cup {"editRow", "editMeta", "list", "listDefs"}
  PROVE  /\ Busy(ops[o]) /\ ShapeFits(ops[o]) /\ AskFits(ops[o]) /\ (alone => StageFits(o))
         /\ DeckFits(specs) /\ DeckFits(wanted) /\ defs = [m \in Metrics |-> defs[m]]
         /\ \A m \in Metrics : specs[m].life = "retired" \/ ops[o].meta.specs[m].life = "retired" => Retires(m)
<1>1. ShapeFits(ops[o]) /\ AskFits(ops[o])
  BY DEF DeckInv, CallTypes
<1>2. Busy(ops[o])
  BY <1>1 DEF AskFits, Busy, Writing
<1>3. alone => StageFits(o)
  BY <1>2 DEF DeckInv, AloneInv, Busy, Running, Writes
<1> QED BY <1>1, <1>2, <1>3 DEF DeckInv, CallTypes, RetiredInv, RetiredFits

LEMMA NoPoints == ASSUME NEW c, ShapeFits(c), c.req.points = <<>> PROVE c.todo = <<>>
<1>1. PICK S : c.todo \in Seq(S)
  BY DEF ShapeFits, AList
<1>2. Len(c.todo) <= 0 /\ Len(c.todo) \in Nat
  BY <1>1, LenProperties, EmptySeq DEF ShapeFits
<1> QED BY <1>1, <1>2, EmptySeq

LEMMA ReqIs ==
  ASSUME NEW c, ShapeFits(c), NEW q,
         q.req = [op |-> q.req.op, id |-> q.req.id, src |-> q.req.src, points |-> q.req.points, order |-> q.req.order],
         q = [at |-> q.at, req |-> q.req, meta |-> q.meta, row |-> q.row, rows |-> q.rows, queue |-> q.queue,
              todo |-> q.todo, byKey |-> q.byKey, shown |-> q.shown, proposed |-> q.proposed, asked |-> q.asked],
         q.req.points = c.req.points, q.todo = c.todo, q.meta = c.meta
  PROVE  ShapeFits(q)
BY DEF ShapeFits

LEMMA EditMetaKeeps == ASSUME DeckInv, NEW o \in Ops, EditMeta(o) PROVE DeckInv'
<1>1. ops[o].at = "editMeta" /\ UNCHANGED <<specs, defs, points, wanted, alone>>
  BY DEF EditMeta, Stands
<1>2. /\ Busy(ops[o]) /\ ShapeFits(ops[o]) /\ AskFits(ops[o]) /\ (alone => StageFits(o)) /\ defs = [m \in Metrics |-> defs[m]]
      /\ \A m \in Metrics : specs[m].life = "retired" \/ ops[o].meta.specs[m].life = "retired" => Retires(m)
  BY <1>1, WriterIs DEF Writing
<1>3. /\ ops[o].req.op = "edit" /\ ops[o].req.src = ops[o].asked.src /\ ops[o].req.points = <<>>
      /\ ops[o].asked.op = "edit" /\ ops[o].req.id \in Metrics
  BY <1>1, <1>2 DEF AskFits
<1>4. PICK s : s = IF ops[o].req.src # "none" THEN ops[o].req.src ELSE Source(specs[Id(o)])
  OBVIOUS
<1>5. PICK x : x = [ops[o].req EXCEPT !.src = s]
  OBVIOUS
<1>6. /\ x.op = "edit" /\ x.id = ops[o].req.id /\ x.src = s /\ x.points = <<>>
      /\ x = [op |-> x.op, id |-> x.id, src |-> x.src, points |-> x.points, order |-> x.order]
  <2>1. x = [op |-> ops[o].req.op, id |-> ops[o].req.id, src |-> s, points |-> ops[o].req.points, order |-> ops[o].req.order]
    BY <1>2, <1>5 DEF ShapeFits
  <2> QED BY ONLY <2>1, <1>3
<1>7. PICK q : q = [ops[o] EXCEPT !.at = "load", !.req = x]
  OBVIOUS
<1>8. Goes(o, q)
  BY <1>4, <1>5, <1>7 DEF EditMeta
<1>9. ops'[o] = q /\ (\A p \in Ops : p # o => ops'[p] = ops[p]) /\ ops' = [p \in Ops |-> ops'[p]]
  BY <1>8, GoesIs DEF DeckInv
<1>10. /\ q.at = "load" /\ q.req = x /\ q.asked = ops[o].asked /\ q.meta = ops[o].meta
       /\ q.todo = ops[o].todo /\ q.shown = ops[o].shown /\ q.proposed = ops[o].proposed
       /\ q = [at |-> q.at, req |-> q.req, meta |-> q.meta, row |-> q.row, rows |-> q.rows, queue |-> q.queue,
               todo |-> q.todo, byKey |-> q.byKey, shown |-> q.shown, proposed |-> q.proposed, asked |-> q.asked]
  <2>1. q = [at |-> "load", req |-> x, meta |-> ops[o].meta, row |-> ops[o].row, rows |-> ops[o].rows, queue |-> ops[o].queue,
             todo |-> ops[o].todo, byKey |-> ops[o].byKey, shown |-> ops[o].shown, proposed |-> ops[o].proposed,
             asked |-> ops[o].asked]
    BY <1>2, <1>7 DEF ShapeFits
  <2> QED BY ONLY SMTT(60), <2>1
<1>11. ShapeFits(q)
  BY <1>2, <1>3, <1>6, <1>10, ReqIs
<1>12. ops[o].todo = <<>>
  BY <1>2, <1>3, NoPoints
<1>13. AskFits(q)
  BY <1>1, <1>2, <1>3, <1>6, <1>10, <1>12 DEF AskFits, Writing
<1>14. Keeps(o)
  BY <1>1, <1>3, <1>6, <1>9, <1>10, <1>11, <1>13 DEF Keeps, DeckInv, CallTypes
<1>15. alone => StageFits(o)'
  <2> SUFFICES ASSUME alone PROVE StageFits(o)'
    OBVIOUS
  <2>1. specs = wanted /\ RowsOf(specs)
    BY <1>1, <1>2 DEF StageFits, Early
  <2>2. s # "none"
    BY <1>4 DEF Source
  <2>3. Asked(o)' = Spec_(s, "active")
    BY SMTT(60), <1>1, <1>3, <1>4, <1>6, <1>9, <1>10, <2>1 DEF Asked, Id, Spec_
  <2> QED BY <1>1, <1>6, <1>9, <1>10, <2>1, <2>2, <2>3 DEF StageFits, RowsOf, Early, Late
<1> QED BY <1>1, <1>2, <1>3, <1>6, <1>9, <1>10, <1>14, <1>15, WriterKeeps DEF Busy, HasRow

LEMMA ListKeeps == ASSUME DeckInv, NEW o \in Ops, List(o) PROVE DeckInv'
<1>1. ops[o].at = "list" /\ UNCHANGED <<specs, defs, points, wanted, alone>>
  BY DEF List, Stands
<1>2. /\ Busy(ops[o]) /\ ShapeFits(ops[o]) /\ AskFits(ops[o]) /\ (alone => StageFits(o)) /\ defs = [m \in Metrics |-> defs[m]]
      /\ \A m \in Metrics : specs[m].life = "retired" \/ ops[o].meta.specs[m].life = "retired" => Retires(m)
      /\ DeckFits(specs)
  BY <1>1, WriterIs DEF Writing
<1>10. PICK x : x = [specs |-> specs, order |-> order]
  OBVIOUS
<1>11. x.specs = specs /\ MetaFits(x)
  BY <1>2, <1>10 DEF MetaFits
<1>3. PICK q : Turns(ops[o], "listDefs", x, q)
  BY DEF Turns
<1>4. Goes(o, q)
  BY <1>3, <1>10 DEF List, Turns
<1>5. ops'[o] = q /\ (\A p \in Ops : p # o => ops'[p] = ops[p]) /\ ops' = [p \in Ops |-> ops'[p]]
  BY <1>4, GoesIs DEF DeckInv
<1>6. /\ ShapeFits(q) /\ q.at = "listDefs" /\ q.req = ops[o].req /\ q.asked = ops[o].asked /\ q.meta = x
      /\ q.todo = ops[o].todo /\ q.shown = ops[o].shown /\ q.proposed = ops[o].proposed
  BY <1>2, <1>3, <1>11, MetaIs
<1>7. AskFits(q)
  BY <1>1, <1>2, <1>6 DEF AskFits, Writing
<1>8. Keeps(o)
  BY <1>1, <1>5, <1>6, <1>7 DEF Keeps, DeckInv, CallTypes
<1>9. alone => StageFits(o)'
  BY SMTT(60), <1>1, <1>2, <1>5, <1>6 DEF StageFits, RowsOf, Early, Late
<1> QED BY <1>1, <1>2, <1>5, <1>6, <1>8, <1>9, <1>11, WriterKeeps DEF Busy, HasRow

LEMMA ListDefsKeeps == ASSUME DeckInv, NEW o \in Ops, ListDefs(o) PROVE DeckInv'
<1>1. ops[o].at = "listDefs" /\ UNCHANGED <<specs, defs, points, wanted, alone>>
  BY DEF ListDefs, Stands
<1>2. /\ Busy(ops[o]) /\ ShapeFits(ops[o]) /\ AskFits(ops[o]) /\ (alone => StageFits(o)) /\ defs = [m \in Metrics |-> defs[m]]
      /\ \A m \in Metrics : specs[m].life = "retired" \/ ops[o].meta.specs[m].life = "retired" => Retires(m)
  BY <1>1, WriterIs DEF Writing
<1>3. ops[o].req.op = "accept" /\ ops[o].req.points = <<>> /\ ops[o].asked.op = "accept"
  BY <1>1, <1>2 DEF AskFits
<1>4. alone => specs = wanted /\ RowsOf(specs)
  BY <1>1, <1>2 DEF StageFits, Early
<1>5. CASE Ends(o, "refused")
  BY <1>1, <1>2, <1>4, <1>5, EndKeeps
<1>6. ASSUME NEW u, Goes(o, [ops[o] EXCEPT !.at = "load", !.queue = u, !.req = [@ EXCEPT !.id = u[1], !.src = "count"]])
      PROVE  DeckInv'
  <2>1. PICK x : x = [ops[o].req EXCEPT !.id = u[1], !.src = "count"]
    OBVIOUS
  <2>2. /\ x.op = "accept" /\ x.src = "count" /\ x.points = <<>>
        /\ x = [op |-> x.op, id |-> x.id, src |-> x.src, points |-> x.points, order |-> x.order]
    <3>1. x = [op |-> ops[o].req.op, id |-> u[1], src |-> "count", points |-> ops[o].req.points, order |-> ops[o].req.order]
      BY <1>2, <2>1 DEF ShapeFits
    <3> QED BY ONLY SMTT(60), <3>1, <1>3
  <2>3. PICK q : q = [ops[o] EXCEPT !.at = "load", !.queue = u, !.req = x]
    OBVIOUS
  <2>4. q = [at |-> "load", req |-> x, meta |-> ops[o].meta, row |-> ops[o].row, rows |-> ops[o].rows, queue |-> u,
             todo |-> ops[o].todo, byKey |-> ops[o].byKey, shown |-> ops[o].shown, proposed |-> ops[o].proposed,
             asked |-> ops[o].asked]
    BY <1>2, <2>3 DEF ShapeFits
  <2>6. ops'[o] = q /\ (\A p \in Ops : p # o => ops'[p] = ops[p]) /\ ops' = [p \in Ops |-> ops'[p]]
    <3>1. Goes(o, q)
      BY <1>6, <2>1, <2>3
    <3> QED BY <3>1, GoesIs DEF DeckInv
  <2>7. /\ q.at = "load" /\ q.req = x /\ q.asked = ops[o].asked /\ q.meta = ops[o].meta
        /\ q.todo = ops[o].todo /\ q.shown = ops[o].shown /\ q.proposed = ops[o].proposed
        /\ q = [at |-> q.at, req |-> q.req, meta |-> q.meta, row |-> q.row, rows |-> q.rows, queue |-> q.queue,
                todo |-> q.todo, byKey |-> q.byKey, shown |-> q.shown, proposed |-> q.proposed, asked |-> q.asked]
    BY ONLY <2>4
  <2>8. ShapeFits(q)
    BY <1>2, <1>3, <2>2, <2>7, ReqIs
  <2>9. ops[o].todo = <<>>
    BY <1>2, <1>3, NoPoints
  <2>10. AskFits(q)
    BY <1>1, <1>2, <1>3, <2>2, <2>7, <2>9 DEF AskFits, Writing
  <2>11. Keeps(o)
    BY <1>1, <1>3, <2>2, <2>6, <2>7, <2>8, <2>10 DEF Keeps, DeckInv, CallTypes
  <2>12. alone => StageFits(o)'
    <3>1. Asked(o)' = Spec_("count", "active")
      BY <1>3, <2>6, <2>7 DEF Asked
    <3> QED BY <1>1, <1>4, <2>2, <2>6, <2>7, <3>1 DEF StageFits, RowsOf, Early, Late
  <2>13. Busy(ops'[o]) /\ ~HasRow(ops'[o]) /\ ops'[o].at = "load" /\ ops'[o].meta = ops[o].meta
    BY <1>3, <2>2, <2>6, <2>7 DEF Busy, HasRow
  <2> QED BY <1>1, <1>2, <2>11, <2>12, <2>13, WriterKeeps
<1> QED BY <1>5, <1>6 DEF ListDefs

LEMMA LoadKeeps == ASSUME DeckInv, NEW o \in Ops, Load(o) PROVE DeckInv'
<1>1. ops[o].at = "load" /\ UNCHANGED <<specs, defs, points, wanted, alone>>
  BY DEF Load, Stands
<1>2. /\ Busy(ops[o]) /\ ShapeFits(ops[o]) /\ AskFits(ops[o]) /\ (alone => StageFits(o)) /\ defs = [m \in Metrics |-> defs[m]]
      /\ \A m \in Metrics : specs[m].life = "retired" \/ ops[o].meta.specs[m].life = "retired" => Retires(m)
      /\ DeckFits(specs)
  BY <1>1, WriterIs DEF Writing
<1>3. alone => /\ specs = wanted /\ RowsOf(specs)
               /\ Defines(o) => Asked(o) = Spec_(ops[o].req.src, "active") /\ ops[o].req.src # "none"
  BY <1>1, <1>2 DEF StageFits, Early
<1>4. ASSUME NEW od, NEW a, a = IF Op(o) = "reorder" THEN "save" ELSE "row",
             Goes(o, [ops[o] EXCEPT !.at = a, !.meta = [specs |-> specs, order |-> od]])
      PROVE  DeckInv'
  <2>1. PICK x : x = [specs |-> specs, order |-> od]
    OBVIOUS
  <2>2. x.specs = specs /\ MetaFits(x)
    BY <1>2, <2>1 DEF MetaFits
  <2>3. PICK q : Turns(ops[o], a, x, q)
    BY DEF Turns
  <2>4. Goes(o, q)
    BY <1>4, <2>1, <2>3 DEF Turns
  <2>5. ops'[o] = q /\ (\A p \in Ops : p # o => ops'[p] = ops[p]) /\ ops' = [p \in Ops |-> ops'[p]]
    BY <2>4, GoesIs DEF DeckInv
  <2>6. /\ ShapeFits(q) /\ q.at = a /\ q.req = ops[o].req /\ q.asked = ops[o].asked /\ q.meta = x
        /\ q.todo = ops[o].todo /\ q.shown = ops[o].shown /\ q.proposed = ops[o].proposed
    BY <1>2, <2>2, <2>3, MetaIs
  <2>7. (a = "save" /\ ops[o].req.op = "reorder") \/ (a = "row" /\ ops[o].req.op # "reorder")
    BY SMTT(60), <1>4 DEF Op
  <2>8. AskFits(q)
    BY <1>1, <1>2, <2>6, <2>7 DEF AskFits, Writing
  <2>9. Keeps(o)
    BY <1>1, <2>5, <2>6, <2>8 DEF Keeps, DeckInv, CallTypes
  <2>10. alone => StageFits(o)'
    <3>1. Op(o)' = Op(o) /\ Id(o)' = Id(o) /\ Defines(o)' = Defines(o) /\ Asked(o)' = Asked(o) /\ Due(o)' = Due(o)
      BY <1>1, <2>5, <2>6 DEF Op, Id, Defines, Asked, Due
    <3>2. CASE a = "save"
      <4>1. Due(o) = wanted
        BY <2>7, <3>2 DEF Due, Op
      <4> QED BY <1>1, <1>3, <2>2, <2>5, <2>6, <3>1, <3>2, <4>1 DEF StageFits, RowsOf, Early, Late
    <3>3. CASE a = "row"
      BY <1>1, <1>3, <2>2, <2>5, <2>6, <3>1, <3>3 DEF StageFits, RowsOf, Early, Late
    <3> QED BY <2>7, <3>2, <3>3
  <2>11. Busy(ops'[o]) /\ ~HasRow(ops'[o]) /\ ops'[o].at \notin {"put", "audit"} /\ ops'[o].meta.specs = specs
    BY <1>2, <2>2, <2>5, <2>6, <2>7 DEF Busy, HasRow
  <2> QED BY <1>1, <1>2, <2>9, <2>10, <2>11, WriterKeeps
<1> QED BY <1>4 DEF Load

(* What retiring and importing make of the deck in hand.                       *)
LEMMA SpecFits ==
  ASSUME NEW sp, DeckFits(sp), NEW m, NEW src, NEW life \in Lifecycles
  PROVE  /\ DeckFits([sp EXCEPT ![m] = Spec_(src, life)])
         /\ \A x \in Metrics : [sp EXCEPT ![m] = Spec_(src, life)][x] = IF x = m THEN Spec_(src, life) ELSE sp[x]
<1>1. PICK t : t = [sp EXCEPT ![m] = Spec_(src, life)]
  OBVIOUS
<1>2. t = [x \in Metrics |-> IF x = m THEN Spec_(src, life) ELSE sp[x]]
  BY <1>1 DEF DeckFits
<1>3. \A x \in Metrics : t[x] = IF x = m THEN Spec_(src, life) ELSE sp[x]
  BY <1>2
<1>4. Spec_(src, life) = [src |-> Spec_(src, life).src, life |-> Spec_(src, life).life] /\ Spec_(src, life).life = life
  BY DEF Spec_
<1>5. t = [x \in Metrics |-> t[x]]
  BY <1>2
<1>6. ASSUME NEW x \in Metrics PROVE t[x] = [src |-> t[x].src, life |-> t[x].life] /\ t[x].life \in Lifecycles
  <2>1. CASE x = m
    BY <1>3, <1>4, <2>1
  <2>2. CASE x # m
    BY SMTT(60), <1>3, <2>2 DEF DeckFits
  <2> QED BY <2>1, <2>2
<1> QED BY <1>1, <1>3, <1>5, <1>6 DEF DeckFits

(* A call that saves next: the deck in hand is the one that is due.            *)
LEMMA TurnsToSave ==
  ASSUME DeckInv, NEW o \in Ops, ops[o].at \in {"row", "write"}, NEW sp, DeckFits(sp), NEW od,
         Goes(o, [ops[o] EXCEPT !.at = "save", !.meta = [specs |-> sp, order |-> od]]),
         UNCHANGED <<specs, points, wanted, alone>>, defs' = [m \in Metrics |-> defs'[m]],
         \A m \in Metrics : sp[m].life = "retired" => Retires(m),
         \A m \in Metrics : defs[m] # NoDef => defs'[m] # NoDef,
         Defines(o) /\ Id(o) \in Metrics => defs'[Id(o)] # NoDef,
         alone => sp = Due(o) /\ \A m \in Metrics : (sp[m].life = "active" => defs'[m] # NoDef)
                                                    /\ (defs'[m] # NoDef => sp[m].src # "none")
  PROVE  DeckInv'
<1>1. /\ Busy(ops[o]) /\ ShapeFits(ops[o]) /\ AskFits(ops[o]) /\ (alone => StageFits(o)) /\ defs = [m \in Metrics |-> defs[m]]
      /\ \A m \in Metrics : specs[m].life = "retired" \/ ops[o].meta.specs[m].life = "retired" => Retires(m)
  BY WriterIs DEF Writing
<1>2. PICK x : x = [specs |-> sp, order |-> od]
  OBVIOUS
<1>3. x.specs = sp /\ MetaFits(x)
  BY <1>2 DEF MetaFits
<1>4. PICK q : Turns(ops[o], "save", x, q)
  BY DEF Turns
<1>5. Goes(o, q)
  BY <1>2, <1>4 DEF Turns
<1>6. ops'[o] = q /\ (\A p \in Ops : p # o => ops'[p] = ops[p]) /\ ops' = [p \in Ops |-> ops'[p]]
  BY <1>5, GoesIs DEF DeckInv
<1>7. /\ ShapeFits(q) /\ q.at = "save" /\ q.req = ops[o].req /\ q.asked = ops[o].asked /\ q.meta = x
      /\ q.todo = ops[o].todo /\ q.shown = ops[o].shown /\ q.proposed = ops[o].proposed
  BY SMTT(60), <1>1, <1>3, <1>4, MetaIs
<1>8. AskFits(q)
  BY <1>1, <1>7 DEF AskFits, Writing
<1>9. Keeps(o)
  BY <1>6, <1>7, <1>8 DEF Keeps, DeckInv, CallTypes
<1>10. alone => StageFits(o)'
  <2>1. Due(o)' = Due(o)
    BY <1>6, <1>7 DEF Op, Id, Asked, Due
  <2>2. alone => specs = wanted
    BY <1>1 DEF StageFits
  <2>3. alone => RowsOf(sp)'
    BY DEF RowsOf
  <2> QED BY SMTT(60), <1>3, <1>6, <1>7, <2>1, <2>2, <2>3 DEF StageFits, RowsOf, Early, Late
<1>11. Busy(ops'[o]) /\ ops'[o].at = "save" /\ ops'[o].meta.specs = sp
  BY <1>1, <1>3, <1>6, <1>7 DEF Busy
<1>12. HasRow(ops'[o]) => defs'[ops'[o].req.id] # NoDef
  BY SMTT(60), <1>6, <1>7 DEF HasRow, Defines, Op, Id
<1> QED BY <1>1, <1>9, <1>10, <1>11, <1>12, WriterKeeps

LEMMA RowKeeps == ASSUME DeckInv, NEW o \in Ops, Row(o) PROVE DeckInv'
<1>1. ops[o].at = "row" /\ UNCHANGED <<specs, defs, points, wanted, alone>>
  BY DEF Row, Stands
<1>2. /\ Busy(ops[o]) /\ ShapeFits(ops[o]) /\ AskFits(ops[o]) /\ (alone => StageFits(o)) /\ defs = [m \in Metrics |-> defs[m]]
      /\ \A m \in Metrics : specs[m].life = "retired" \/ ops[o].meta.specs[m].life = "retired" => Retires(m)
      /\ DeckFits(specs) /\ DeckFits(wanted)
  BY <1>1, WriterIs DEF Writing
<1>3. alone => /\ specs = wanted /\ RowsOf(specs) /\ ops[o].meta.specs = specs
               /\ Defines(o) => Asked(o) = Spec_(ops[o].req.src, "active") /\ ops[o].req.src # "none"
  BY SMTT(60), <1>1, <1>2 DEF StageFits
<1>4. /\ ops[o].req.op \in {"define", "edit", "accept", "retire", "import"} /\ ops[o].asked.op = ops[o].req.op
      /\ ops[o].req.op \in {"retire", "import"} => ops[o].req.id \in Metrics
      /\ DeckFits(ops[o].meta.specs)
  BY <1>1, <1>2 DEF AskFits, ShapeFits, Writing
<1>5. CASE Defines(o) /\ Goes(o, [ops[o] EXCEPT !.at = "write", !.row = defs[Id(o)]])
  <2>1. PICK r : r = defs[Id(o)]
    OBVIOUS
  <2>2. PICK q : q = [ops[o] EXCEPT !.at = "write", !.row = r]
    BY SMTT(60)
  <2>3. q = [at |-> "write", req |-> ops[o].req, meta |-> ops[o].meta, row |-> r, rows |-> ops[o].rows, queue |-> ops[o].queue,
             todo |-> ops[o].todo, byKey |-> ops[o].byKey, shown |-> ops[o].shown, proposed |-> ops[o].proposed,
             asked |-> ops[o].asked]
    BY <1>2, <2>2 DEF ShapeFits
  <2>4. ops'[o] = q /\ (\A p \in Ops : p # o => ops'[p] = ops[p]) /\ ops' = [p \in Ops |-> ops'[p]]
    BY <1>5, <2>1, <2>2, GoesIs DEF DeckInv
  <2>5. /\ q.at = "write" /\ q.req = ops[o].req /\ q.asked = ops[o].asked /\ q.meta = ops[o].meta /\ q.row = r
        /\ q.todo = ops[o].todo /\ q.shown = ops[o].shown /\ q.proposed = ops[o].proposed
        /\ q = [at |-> q.at, req |-> q.req, meta |-> q.meta, row |-> q.row, rows |-> q.rows, queue |-> q.queue,
                todo |-> q.todo, byKey |-> q.byKey, shown |-> q.shown, proposed |-> q.proposed, asked |-> q.asked]
    BY ONLY SMTT(60), <2>3
  <2>6. ShapeFits(q)
    BY SMTT(60), <1>2, <2>5, ReqIs DEF ShapeFits
  <2>7. AskFits(q)
    BY <1>1, <1>2, <1>5, <2>5 DEF AskFits, Writing, Defines, Op
  <2>8. Keeps(o)
    BY <1>1, <2>4, <2>5, <2>6, <2>7 DEF Keeps, DeckInv, CallTypes
  <2>9. alone => StageFits(o)'
    <3>1. Op(o)' = Op(o) /\ Id(o)' = Id(o) /\ Defines(o)' = Defines(o) /\ Asked(o)' = Asked(o)
      BY <1>1, <2>4, <2>5 DEF Op, Id, Defines, Asked
    <3> QED BY <1>1, <1>3, <2>1, <2>4, <2>5, <3>1 DEF StageFits, RowsOf, Early, Late
  <2>10. Busy(ops'[o]) /\ ops'[o].at = "write" /\ ops'[o].meta.specs = ops[o].meta.specs /\ ~HasRow(ops'[o])
    BY <1>4, <2>4, <2>5 DEF Busy, HasRow
  <2> QED BY <1>1, <1>2, <2>8, <2>9, <2>10, WriterKeeps
<1>6. CASE Ends(o, "refused")
  BY SMTT(60), <1>1, <1>2, <1>3, <1>6, EndKeeps
<1>7. ASSUME NEW src, src = Source(ops[o].meta.specs[Id(o)]), NEW sp, NEW od,
             \/ Op(o) = "retire" /\ sp = [ops[o].meta.specs EXCEPT ![Id(o)] = Spec_(src, "retired")]
             \/ /\ Op(o) = "import" /\ defs[Id(o)] # NoDef
                /\ sp = [ops[o].meta.specs EXCEPT ![Id(o)] = Spec_("manual", ops[o].meta.specs[Id(o)].life)],
             Goes(o, [ops[o] EXCEPT !.at = "save", !.meta = [specs |-> sp, order |-> od]])
      PROVE  DeckInv'
  <2>1. Id(o) \in Metrics /\ src # "none" /\ ~Defines(o) /\ DeckFits(ops[o].meta.specs)
    BY ZenonT(60), <1>4, <1>7 DEF Source, Id, Op, Defines
  <2>2. PICK s : s = ops[o].meta.specs
    BY SMTT(60)
  <2>3. CASE Op(o) = "retire"
    <3>1. sp = [s EXCEPT ![Id(o)] = Spec_(src, "retired")]
      BY <1>7, <2>2, <2>3
    <3>2. DeckFits(sp) /\ \A x \in Metrics : sp[x] = IF x = Id(o) THEN Spec_(src, "retired") ELSE s[x]
      <4>1. PICK l : l = "retired"
        OBVIOUS
      <4>2. l \in Lifecycles /\ sp = [s EXCEPT ![Id(o)] = Spec_(src, l)]
        BY <3>1, <4>1 DEF Lifecycles
      <4>3. DeckFits(sp) /\ \A x \in Metrics : sp[x] = IF x = Id(o) THEN Spec_(src, l) ELSE s[x]
        <5>1. DeckFits(s)
          BY <2>1, <2>2
        <5>2. DeckFits([s EXCEPT ![Id(o)] = Spec_(src, l)])
          BY ONLY <4>2, <5>1, SpecFits
        <5>3. \A x \in Metrics : [s EXCEPT ![Id(o)] = Spec_(src, l)][x] = IF x = Id(o) THEN Spec_(src, l) ELSE s[x]
          BY ONLY <4>2, <5>1, SpecFits
        <5> QED BY <4>2, <5>2, <5>3
      <4> QED BY <4>1, <4>3
    <3>3. Retires(Id(o)) /\ \A m \in Metrics : s[m].life = "retired" => Retires(m)
      BY <1>2, <2>2, <2>3 DEF Retires
    <3>4. \A m \in Metrics : sp[m].life = "retired" => Retires(m)
      BY <3>2, <3>3
    <3>5. alone => sp = Due(o)
      <4>1. alone => Asked(o) = Spec_(src, "retired")
        BY <1>3, <1>4, <1>7, <2>3 DEF Asked, Op
      <4> QED BY <1>3, <2>2, <2>3, <3>1, <4>1 DEF Due
    <3>6. Spec_(src, "retired").life # "active" /\ Spec_(src, "retired").src # "none"
      BY <2>1 DEF Spec_
    <3>7. alone => \A m \in Metrics : (sp[m].life = "active" => defs[m] # NoDef) /\ (defs[m] # NoDef => sp[m].src # "none")
      BY SMTT(60), <1>3, <2>2, <3>2, <3>6 DEF RowsOf
    <3> QED BY ZenonT(60), <1>1, <1>2, <1>7, <2>1, <3>2, <3>4, <3>5, <3>7, TurnsToSave
  <2>4. CASE Op(o) = "import" /\ defs[Id(o)] # NoDef
    <3>1. PICK l : l = s[Id(o)].life
      OBVIOUS
    <3>2. sp = [s EXCEPT ![Id(o)] = Spec_("manual", l)] /\ l \in Lifecycles
      BY ZenonT(60), <1>7, <2>1, <2>2, <2>4, <3>1 DEF DeckFits
    <3>3. DeckFits(sp) /\ \A x \in Metrics : sp[x] = IF x = Id(o) THEN Spec_("manual", l) ELSE s[x]
      BY SMTT(60), <2>1, <2>2, <3>2, SpecFits
    <3>4. Spec_("manual", l).life = l /\ Spec_("manual", l).src = "manual"
      BY DEF Spec_
    <3>5. \A m \in Metrics : sp[m].life = "retired" => Retires(m)
      BY <1>2, <2>2, <3>1, <3>3, <3>4
    <3>6. alone => sp = Due(o)
      <4>1. alone => Asked(o) = Spec_("manual", l)
        BY SMTT(60), <1>3, <1>4, <2>2, <2>4, <3>1 DEF Asked, Op
      <4> QED BY <1>3, <2>2, <2>4, <3>2, <4>1 DEF Due
    <3>7. alone => \A m \in Metrics : (sp[m].life = "active" => defs[m] # NoDef) /\ (defs[m] # NoDef => sp[m].src # "none")
      BY <1>3, <2>2, <2>4, <3>1, <3>3, <3>4 DEF RowsOf
    <3> QED BY ZenonT(60), <1>1, <1>2, <1>7, <2>1, <3>3, <3>5, <3>6, <3>7, TurnsToSave
  <2> QED BY SMTT(60), <1>7, <2>3, <2>4
<1>8. CASE /\ Op(o) = "import" /\ defs[Id(o)] # NoDef /\ Source(ops[o].meta.specs[Id(o)]) = "manual"
           /\ Goes(o, [ops[o] EXCEPT !.at = "points"])
  <2>1. PICK q : q = [ops[o] EXCEPT !.at = "points"]
    OBVIOUS
  <2>2. ops'[o] = q /\ (\A p \in Ops : p # o => ops'[p] = ops[p]) /\ ops' = [p \in Ops |-> ops'[p]]
    BY <1>8, <2>1, GoesIs DEF DeckInv
  <2>3. /\ ShapeFits(q) /\ q.at = "points" /\ q.req = ops[o].req /\ q.asked = ops[o].asked /\ q.meta = ops[o].meta
        /\ q.todo = ops[o].todo /\ q.shown = ops[o].shown /\ q.proposed = ops[o].proposed
    <3>1. ShapeFits(ops[o])
      BY <1>2
    <3> QED BY <2>1, <3>1, AtIs
  <2>4. AskFits(q)
    BY <1>1, <1>2, <1>8, <2>3 DEF AskFits, Writing, Op
  <2>5. Keeps(o)
    BY <1>1, <2>2, <2>3, <2>4 DEF Keeps, DeckInv, CallTypes
  <2>6. alone => StageFits(o)'
    <3> SUFFICES ASSUME alone PROVE StageFits(o)'
      OBVIOUS
    <3>1. Op(o)' = Op(o) /\ Id(o)' = Id(o) /\ Due(o)' = Due(o)
      BY SMTT(60), <1>1, <2>2, <2>3 DEF Op, Id, Asked, Due
    <3>2. Id(o) \in Metrics /\ wanted[Id(o)].src = "manual"
      BY <1>3, <1>4, <1>8 DEF Id, Op, RowsOf, Source
    <3>3. Asked(o) = Spec_("manual", wanted[Id(o)].life)
      BY <1>4, <1>8 DEF Asked, Op
    <3>4. wanted[Id(o)] = [src |-> wanted[Id(o)].src, life |-> wanted[Id(o)].life] /\ wanted = [m \in Metrics |-> wanted[m]]
      BY <1>2, <3>2 DEF DeckFits
    <3>5. Asked(o) = wanted[Id(o)]
      BY <3>2, <3>3, <3>4 DEF Spec_
    <3>6. Due(o) = [wanted EXCEPT ![Id(o)] = wanted[Id(o)]]
      BY <1>8, <3>5 DEF Due
    <3>7. Due(o) = wanted
      BY <3>4, <3>6
    <3> QED BY <1>1, <1>3, <2>2, <2>3, <3>1, <3>7 DEF StageFits, RowsOf, Early, Late
  <2>7. Busy(ops'[o]) /\ ops'[o].at = "points" /\ ops'[o].meta = ops[o].meta /\ ~HasRow(ops'[o])
    BY SMTT(60), <1>4, <1>8, <2>2, <2>3 DEF Busy, HasRow, Op
  <2> QED BY <1>1, <1>2, <2>5, <2>6, <2>7, WriterKeeps
<1> QED BY ZenonT(60), <1>5, <1>6, <1>7, <1>8 DEF Row

LEMMA WriteKeeps == ASSUME DeckInv, NEW o \in Ops, Write(o) PROVE DeckInv'
<1>1. ops[o].at = "write" /\ UNCHANGED <<specs, points, wanted, alone>>
  BY DEF Write, Stands
<1>2. /\ Busy(ops[o]) /\ ShapeFits(ops[o]) /\ AskFits(ops[o]) /\ (alone => StageFits(o)) /\ defs = [m \in Metrics |-> defs[m]]
      /\ \A m \in Metrics : specs[m].life = "retired" \/ ops[o].meta.specs[m].life = "retired" => Retires(m)
  BY SMTT(60), <1>1, WriterIs DEF Writing
<1>3. Defines(o) /\ DeckFits(ops[o].meta.specs)
  BY <1>1, <1>2 DEF AskFits, ShapeFits, Defines, Op
<1>4. alone => /\ specs = wanted /\ RowsOf(specs) /\ ops[o].meta.specs = specs
               /\ Asked(o) = Spec_(ops[o].req.src, "active") /\ ops[o].req.src # "none"
  BY <1>1, <1>2, <1>3 DEF StageFits
<1>5. CASE Ends(o, "failed") /\ UNCHANGED defs
  BY SMTT(60), <1>1, <1>2, <1>4, <1>5, EndKeeps
<1>6. ASSUME NEW v, v # NoDef, defs' = [defs EXCEPT ![Id(o)] = v], NEW od,
             Goes(o, [ops[o] EXCEPT !.at = "save",
               !.meta = [specs |-> [ops[o].meta.specs EXCEPT ![Id(o)] = Spec_(ops[o].req.src, "active")], order |-> od]])
      PROVE  DeckInv'
  <2>1. PICK s : s = ops[o].meta.specs
    OBVIOUS
  <2>2. PICK src : src = ops[o].req.src
    OBVIOUS
  <2>3. PICK l : l = "active"
    OBVIOUS
  <2>4. PICK sp : sp = [s EXCEPT ![Id(o)] = Spec_(src, l)]
    OBVIOUS
  <2>5. l \in Lifecycles /\ DeckFits(s)
    BY <1>3, <2>1, <2>3 DEF Lifecycles
  <2>6. DeckFits([s EXCEPT ![Id(o)] = Spec_(src, l)])
    BY ONLY <2>5, SpecFits
  <2>7. \A x \in Metrics : [s EXCEPT ![Id(o)] = Spec_(src, l)][x] = IF x = Id(o) THEN Spec_(src, l) ELSE s[x]
    BY ONLY <2>5 DEF DeckFits
  <2>8. DeckFits(sp) /\ \A x \in Metrics : sp[x] = IF x = Id(o) THEN Spec_(src, l) ELSE s[x]
    BY <2>4, <2>6, <2>7
  <2>9. Goes(o, [ops[o] EXCEPT !.at = "save", !.meta = [specs |-> sp, order |-> od]])
    BY <1>6, <2>1, <2>2, <2>3, <2>4
  <2>10. defs' = [m \in Metrics |-> defs'[m]] /\ \A m \in Metrics : defs'[m] = IF m = Id(o) THEN v ELSE defs[m]
    BY <1>2, <1>6
  <2>11. Spec_(src, l).life = "active" /\ Spec_(src, l).src = src
    BY <2>3 DEF Spec_
  <2>12. \A m \in Metrics : sp[m].life = "retired" => Retires(m)
    BY <1>2, <2>1, <2>8, <2>11
  <2>13. \A m \in Metrics : defs[m] # NoDef => defs'[m] # NoDef
    BY <1>6, <2>10
  <2>14. Id(o) \in Metrics => defs'[Id(o)] # NoDef
    BY <1>6, <2>10
  <2>15. alone => sp = Due(o)
    <3>1. Op(o) # "reorder"
      BY <1>3 DEF Defines
    <3>2. alone => sp = [wanted EXCEPT ![Id(o)] = Asked(o)]
      BY <1>4, <2>1, <2>2, <2>3, <2>4
    <3> QED BY <3>1, <3>2 DEF Due
  <2>16. alone => \A m \in Metrics : (sp[m].life = "active" => defs'[m] # NoDef) /\ (defs'[m] # NoDef => sp[m].src # "none")
    BY <1>4, <1>6, <2>1, <2>2, <2>8, <2>10, <2>11 DEF RowsOf
  <2> QED BY ZenonT(60), <1>1, <2>8, <2>9, <2>10, <2>12, <2>13, <2>14, <2>15, <2>16, TurnsToSave
<1>7. ASSUME ~(ops[o].row = NoDef /\ defs[Id(o)] # NoDef), NEW od, NEW v,
             v = IF ops[o].row = NoDef THEN <<nextSectionOrder(Place(ops[o].meta.order, Id(o)))>> ELSE ops[o].row
      PROVE  v # NoDef
  BY <1>7 DEF NoDef
<1> QED BY <1>5, <1>6, <1>7 DEF Write

LEMMA NothingDone ==
  ASSUME NEW o \in Ops, ops'[o].todo = ops'[o].req.points, AList(ops'[o].req.points)
  PROVE  StoredFits(o)' /\ Done(o)' = {}
<1>1. Len(ops'[o].req.points) \in Nat
  BY LenProperties DEF AList
<1>2. Done(o)' = {}
  BY SMTT(60), <1>1 DEF Done
<1> QED BY <1>2 DEF StoredFits

LEMMA SaveKeeps == ASSUME DeckInv, NEW o \in Ops, Save(o) PROVE DeckInv'
<1>1. ops[o].at = "save" /\ UNCHANGED <<defs, points, alone>> /\ specs' = ops[o].meta.specs
  BY DEF Save, Stands
<1>2. /\ Busy(ops[o]) /\ ShapeFits(ops[o]) /\ AskFits(ops[o]) /\ (alone => StageFits(o)) /\ defs = [m \in Metrics |-> defs[m]]
      /\ \A m \in Metrics : specs[m].life = "retired" \/ ops[o].meta.specs[m].life = "retired" => Retires(m)
      /\ DeckFits(wanted)
  BY <1>1, WriterIs DEF Writing
<1>3. alone => specs' = Due(o) /\ RowsOf(specs')
  BY <1>1, <1>2 DEF StageFits
<1>4. /\ ops[o].req.op \in {"define", "edit", "accept", "retire", "reorder", "import"}
      /\ ops[o].todo = ops[o].req.points /\ ops[o].asked.op = ops[o].req.op
      /\ ops[o].req.points # <<>> => ops[o].req.op \in {"define", "import"}
      /\ ops[o].req.op = "accept" => ops[o].req.src = "count"
  BY <1>1, <1>2 DEF AskFits, Writing
<1>5. Defines(o) /\ Id(o) \in Metrics => defs[Id(o)] # NoDef
  BY SMTT(60), <1>1 DEF DeckInv, RowsInv
<1>6. DeckFits(specs')
  BY SMTT(60), <1>1, <1>2 DEF ShapeFits
<1>7. ASSUME NEW a, a = IF Op(o) = "reorder" THEN "defs"
                        ELSE IF Op(o) = "import" \/ (Op(o) = "define" /\ ops[o].todo # <<>>) THEN "points" ELSE "audit",
             Goes(o, [ops[o] EXCEPT !.at = a]), UNCHANGED wanted
      PROVE  DeckInv'
  <2>1. PICK q : q = [ops[o] EXCEPT !.at = a]
    OBVIOUS
  <2>2. ops'[o] = q /\ (\A p \in Ops : p # o => ops'[p] = ops[p]) /\ ops' = [p \in Ops |-> ops'[p]]
    BY <1>7, <2>1, GoesIs DEF DeckInv
  <2>3. /\ ShapeFits(q) /\ q.at = a /\ q.req = ops[o].req /\ q.asked = ops[o].asked /\ q.meta = ops[o].meta
        /\ q.todo = ops[o].todo /\ q.shown = ops[o].shown /\ q.proposed = ops[o].proposed
    <3>1. ShapeFits(ops[o])
      BY <1>2
    <3> QED BY <2>1, <3>1, AtIs
  <2>4. \/ a = "defs" /\ ops[o].req.op = "reorder"
        \/ a = "points" /\ ops[o].req.op \in {"define", "import"}
        \/ a = "audit" /\ ops[o].todo = <<>>
    BY SMTT(60), <1>4, <1>7 DEF Op
  <2>5. AskFits(q)
    BY <1>1, <1>2, <1>4, <2>3, <2>4 DEF AskFits, Writing
  <2>6. Keeps(o)
    BY <1>1, <2>2, <2>3, <2>5 DEF Keeps, DeckInv, CallTypes
  <2>7. alone => StageFits(o)'
    <3>1. Due(o)' = Due(o)
      BY <1>7, <2>2, <2>3 DEF Op, Id, Asked, Due
    <3>2. alone => RowsOf(specs)'
      BY SMTT(60), <1>1, <1>3 DEF RowsOf
    <3> QED BY <1>3, <2>2, <2>3, <2>4, <3>1, <3>2 DEF StageFits, Early, Late
  <2>8. StoredFits(o)'
    BY <1>2, <1>4, <2>2, <2>3, NothingDone DEF ShapeFits
  <2>9. Busy(ops'[o]) /\ ops'[o].at # "put" /\ ops'[o].meta = ops[o].meta
    BY <1>4, <2>2, <2>3, <2>4 DEF Busy
  <2>10. HasRow(ops'[o]) => defs'[ops'[o].req.id] # NoDef
    BY <1>1, <1>5, <2>2, <2>3 DEF HasRow, Defines, Op, Id
  <2>11. \A m \in Metrics : specs'[m].life = "retired" \/ ops'[o].meta.specs[m].life = "retired" => Retires(m)
    BY SMTT(60), <1>1, <1>2, <2>9
  <2> QED BY <1>1, <1>2, <1>6, <1>7, <2>6, <2>7, <2>8, <2>9, <2>10, <2>11, WriterKeeps
<1>8. ASSUME NEW u, NEW i, Op(o) = "accept", wanted' = Due(o), Goes(o, [ops[o] EXCEPT !.at = "load", !.queue = u, !.req.id = i])
      PROVE  DeckInv'
  <2>1. PICK x : x = [ops[o].req EXCEPT !.id = i]
    OBVIOUS
  <2>2. /\ x.op = "accept" /\ x.src = "count" /\ x.points = <<>>
        /\ x = [op |-> x.op, id |-> x.id, src |-> x.src, points |-> x.points, order |-> x.order]
    <3>1. x = [op |-> ops[o].req.op, id |-> i, src |-> ops[o].req.src, points |-> ops[o].req.points, order |-> ops[o].req.order]
      BY <1>2, <2>1 DEF ShapeFits
    <3>2. ops[o].req.op = "accept" /\ ops[o].req.src = "count" /\ ops[o].req.points = <<>>
      BY SMTT(60), <1>4, <1>8 DEF Op
    <3> QED BY ONLY <3>1, <3>2
  <2>3. PICK q : q = [ops[o] EXCEPT !.at = "load", !.queue = u, !.req = x]
    OBVIOUS
  <2>4. q = [at |-> "load", req |-> x, meta |-> ops[o].meta, row |-> ops[o].row, rows |-> ops[o].rows, queue |-> u,
             todo |-> ops[o].todo, byKey |-> ops[o].byKey, shown |-> ops[o].shown, proposed |-> ops[o].proposed,
             asked |-> ops[o].asked]
    BY <1>2, <2>3 DEF ShapeFits
  <2>5. ops'[o] = q /\ (\A p \in Ops : p # o => ops'[p] = ops[p]) /\ ops' = [p \in Ops |-> ops'[p]]
    <3>1. Goes(o, q)
      BY <1>8, <2>1, <2>3
    <3> QED BY <3>1, GoesIs DEF DeckInv
  <2>6. /\ q.at = "load" /\ q.req = x /\ q.asked = ops[o].asked /\ q.meta = ops[o].meta
        /\ q.todo = ops[o].todo /\ q.shown = ops[o].shown /\ q.proposed = ops[o].proposed
        /\ q = [at |-> q.at, req |-> q.req, meta |-> q.meta, row |-> q.row, rows |-> q.rows, queue |-> q.queue,
                todo |-> q.todo, byKey |-> q.byKey, shown |-> q.shown, proposed |-> q.proposed, asked |-> q.asked]
    BY ONLY <2>4
  <2>7. ops[o].req.points = <<>> /\ ops[o].req.op = "accept" /\ ops[o].asked.op = "accept"
    BY <1>4, <1>8 DEF Op
  <2>8. ShapeFits(q)
    BY <1>2, <2>2, <2>6, <2>7, ReqIs
  <2>9. AskFits(q)
    BY <1>1, <1>2, <1>4, <2>2, <2>6, <2>7 DEF AskFits, Writing
  <2>10. Keeps(o)
    BY <1>1, <2>2, <2>5, <2>6, <2>7, <2>8, <2>9 DEF Keeps, DeckInv, CallTypes
  <2>11. DeckFits(wanted')
    <3>1. PICK l : l = "active"
      OBVIOUS
    <3>2. l \in Lifecycles
      BY <3>1 DEF Lifecycles
    <3>3. DeckFits([wanted EXCEPT ![Id(o)] = Spec_("count", l)])
      BY ONLY <1>2, <3>2, SpecFits
    <3>4. Asked(o) = Spec_("count", l)
      BY <2>7, <3>1 DEF Asked
    <3>5. wanted' = [wanted EXCEPT ![Id(o)] = Asked(o)]
      BY <1>8 DEF Due
    <3> QED BY <3>3, <3>4, <3>5
  <2>12. alone => StageFits(o)'
    <3>1. Asked(o)' = Spec_("count", "active")
      BY <2>5, <2>6, <2>7 DEF Asked
    <3>2. alone => RowsOf(specs)' /\ specs' = wanted'
      BY <1>1, <1>3, <1>8 DEF RowsOf
    <3> QED BY <2>2, <2>5, <2>6, <3>1, <3>2 DEF StageFits, Early, Late
  <2>13. Busy(ops'[o]) /\ ops'[o].at = "load" /\ ops'[o].meta = ops[o].meta /\ ~HasRow(ops'[o])
    BY <2>2, <2>5, <2>6 DEF Busy, HasRow
  <2>14. \A m \in Metrics : specs'[m].life = "retired" \/ ops'[o].meta.specs[m].life = "retired" => Retires(m)
    BY <1>1, <1>2, <2>13
  <2> QED BY <1>1, <1>2, <1>6, <2>10, <2>11, <2>12, <2>13, <2>14, WriterKeeps
<1> QED BY <1>7, <1>8 DEF Save

(* A call past its write of the deck goes on.                                  *)
LEMMA LateKeeps ==
  ASSUME DeckInv, NEW o \in Ops, ops[o].at \in Late, NEW q, Goes(o, q), ShapeFits(q), AskFits(q),
         q.req = ops[o].req, q.asked = ops[o].asked, q.meta = ops[o].meta, q.at \in Late,
         UNCHANGED <<specs, points, wanted, alone>>, defs' = [m \in Metrics |-> defs'[m]],
         \A m \in Metrics : defs[m] = NoDef <=> defs'[m] = NoDef,
         q.at = "put" => KnownFits(o)' /\ NewFits(o)',
         q.at \in {"put", "audit"} => StoredFits(o)'
  PROVE  DeckInv'
<1>1. /\ Busy(ops[o]) /\ ShapeFits(ops[o]) /\ AskFits(ops[o]) /\ (alone => StageFits(o)) /\ defs = [m \in Metrics |-> defs[m]]
      /\ \A m \in Metrics : specs[m].life = "retired" \/ ops[o].meta.specs[m].life = "retired" => Retires(m)
  BY WriterIs DEF Writing, Late
<1>2. ops'[o] = q /\ (\A p \in Ops : p # o => ops'[p] = ops[p]) /\ ops' = [p \in Ops |-> ops'[p]]
  BY GoesIs DEF DeckInv
<1>3. Keeps(o)
  BY <1>2 DEF Keeps, DeckInv, CallTypes
<1>4. alone => StageFits(o)'
  <2>1. Due(o)' = Due(o)
    BY ZenonT(60), <1>2 DEF Op, Id, Asked, Due
  <2>2. alone => specs = Due(o) /\ RowsOf(specs)
    BY <1>1 DEF StageFits
  <2>3. alone => RowsOf(specs)'
    BY <2>2 DEF RowsOf
  <2> QED BY <1>2, <2>1, <2>2, <2>3 DEF StageFits, Early, Late
<1>5. Busy(ops'[o])
  BY SMTT(60), <1>1, <1>2 DEF Busy, Late
<1>6. HasRow(ops'[o]) => ops[o].at \in {"points", "put", "audit"}
  BY <1>1, <1>2 DEF HasRow, AskFits, Late
<1>7. HasRow(ops'[o]) => defs'[ops'[o].req.id] # NoDef
  BY <1>2, <1>6 DEF DeckInv, RowsInv, HasRow, Defines, Op, Id
<1>8. ops'[o].meta = ops[o].meta
  BY <1>2
<1> QED BY <1>1, <1>2, <1>3, <1>4, <1>5, <1>7, <1>8, WriterKeeps

LEMMA ReadDefsKeeps == ASSUME DeckInv, NEW o \in Ops, ReadDefs(o) PROVE DeckInv'
<1>1. ops[o].at = "defs" /\ UNCHANGED <<specs, defs, points, wanted, alone>>
  BY DEF ReadDefs, Stands
<1>2. ShapeFits(ops[o]) /\ AskFits(ops[o]) /\ defs = [m \in Metrics |-> defs[m]]
  BY DEF DeckInv, CallTypes
<1>3. PICK u, r : Goes(o, [ops[o] EXCEPT !.at = "move", !.rows = r, !.queue = u])
  BY DEF ReadDefs
<1>4. PICK q : q = [ops[o] EXCEPT !.at = "move", !.rows = r, !.queue = u]
  BY SMTT(60)
<1>5. q = [at |-> "move", req |-> ops[o].req, meta |-> ops[o].meta, row |-> ops[o].row, rows |-> r, queue |-> u,
           todo |-> ops[o].todo, byKey |-> ops[o].byKey, shown |-> ops[o].shown, proposed |-> ops[o].proposed,
           asked |-> ops[o].asked]
  BY <1>2, <1>4 DEF ShapeFits
<1>6. /\ q.at = "move" /\ q.req = ops[o].req /\ q.asked = ops[o].asked /\ q.meta = ops[o].meta
      /\ q.todo = ops[o].todo /\ q.shown = ops[o].shown /\ q.proposed = ops[o].proposed
      /\ q = [at |-> q.at, req |-> q.req, meta |-> q.meta, row |-> q.row, rows |-> q.rows, queue |-> q.queue,
              todo |-> q.todo, byKey |-> q.byKey, shown |-> q.shown, proposed |-> q.proposed, asked |-> q.asked]
  BY ONLY <1>5
<1>7. ShapeFits(q)
  BY <1>2, <1>6, ReqIs DEF ShapeFits
<1>8. AskFits(q)
  BY <1>1, <1>2, <1>6 DEF AskFits, Writing
<1>9. Goes(o, q)
  BY SMTT(60), <1>3, <1>4
<1> QED BY <1>1, <1>2, <1>6, <1>7, <1>8, <1>9, LateKeeps DEF Late

LEMMA MoveKeeps == ASSUME DeckInv, NEW o \in Ops, Move(o) PROVE DeckInv'
<1>1. ops[o].at = "move" /\ UNCHANGED <<specs, points, wanted, alone>>
  BY DEF Move, Stands
<1>2. ShapeFits(ops[o]) /\ AskFits(ops[o]) /\ defs = [m \in Metrics |-> defs[m]]
  BY DEF DeckInv, CallTypes
<1>3. ops[o].req.points = <<>> /\ ops[o].req.op = "reorder"
  BY <1>1, <1>2 DEF AskFits, Writing
<1>4. ops[o].todo = <<>>
  BY <1>2, <1>3, NoPoints
<1>5. CASE UNCHANGED defs /\ Goes(o, [ops[o] EXCEPT !.at = "audit"])
  <2>1. PICK q : q = [ops[o] EXCEPT !.at = "audit"]
    OBVIOUS
  <2>2. Goes(o, q)
    BY <1>5, <2>1
  <2>3. /\ ShapeFits(q) /\ q.at = "audit" /\ q.req = ops[o].req /\ q.asked = ops[o].asked /\ q.meta = ops[o].meta
        /\ q.todo = ops[o].todo /\ q.shown = ops[o].shown /\ q.proposed = ops[o].proposed
    <3>1. ShapeFits(ops[o])
      BY <1>2
    <3> QED BY <2>1, <3>1, AtIs
  <2>4. AskFits(q)
    BY <1>1, <1>2, <1>4, <2>3 DEF AskFits, Writing
  <2>5. ops'[o] = q
    BY SMTT(60), <2>2, GoesIs DEF DeckInv
  <2>6. StoredFits(o)'
    BY <1>2, <1>3, <1>4, <2>3, <2>5, NothingDone DEF ShapeFits
  <2> QED BY <1>1, <1>2, <1>5, <2>2, <2>3, <2>4, <2>6, LateKeeps DEF Late
<1>6. ASSUME NEW u, Goes(o, [ops[o] EXCEPT !.queue = u]), NEW m, NEW v, v # NoDef,
             defs' = defs \/ defs' = [defs EXCEPT ![m] = IF @ = NoDef THEN NoDef ELSE v]
      PROVE  DeckInv'
  <2>1. PICK q : q = [ops[o] EXCEPT !.queue = u]
    OBVIOUS
  <2>2. q = [at |-> ops[o].at, req |-> ops[o].req, meta |-> ops[o].meta, row |-> ops[o].row, rows |-> ops[o].rows, queue |-> u,
             todo |-> ops[o].todo, byKey |-> ops[o].byKey, shown |-> ops[o].shown, proposed |-> ops[o].proposed,
             asked |-> ops[o].asked]
    BY <1>2, <2>1 DEF ShapeFits
  <2>3. /\ q.at = ops[o].at /\ q.req = ops[o].req /\ q.asked = ops[o].asked /\ q.meta = ops[o].meta
        /\ q.todo = ops[o].todo /\ q.shown = ops[o].shown /\ q.proposed = ops[o].proposed
        /\ q = [at |-> q.at, req |-> q.req, meta |-> q.meta, row |-> q.row, rows |-> q.rows, queue |-> q.queue,
                todo |-> q.todo, byKey |-> q.byKey, shown |-> q.shown, proposed |-> q.proposed, asked |-> q.asked]
    BY ONLY SMTT(60), <2>2
  <2>4. ShapeFits(q)
    BY <1>2, <2>3, ReqIs DEF ShapeFits
  <2>5. AskFits(q)
    BY <1>1, <1>2, <2>3 DEF AskFits, Writing
  <2>6. Goes(o, q)
    BY <1>6, <2>1
  <2>7. defs' = [x \in Metrics |-> defs'[x]]
    BY <1>2, <1>6
  <2>8. \A x \in Metrics : defs[x] = NoDef <=> defs'[x] = NoDef
    BY <1>2, <1>6
  <2> QED BY <1>1, <2>3, <2>4, <2>5, <2>6, <2>7, <2>8, LateKeeps DEF Late
<1>7. \A n : <<nextSectionOrder(n)>> # NoDef
  BY DEF NoDef
<1> QED BY <1>5, <1>6, <1>7 DEF Move

LEMMA Least ==
  ASSUME NEW T \in SUBSET Nat, T # {}
  PROVE  \E m \in T : \A k \in T : m <= k
<1>1. PICK m \in T : \A k \in T : <<k, m>> \notin OpToRel(<, Nat)
  BY WFMin, NatLessThanWellFounded, Zenon
<1>2. \A k \in T : ~(k < m)
  BY <1>1, Zenon DEF OpToRel
<1> QED BY <1>2

LEMMA LastIs ==
  ASSUME AList(points), NEW id, NEW t, NEW k \in Mine(id), points[k].at = t
  PROVE  LastOf(id, t) \in Mine(id) /\ points[LastOf(id, t)].at = t
<1>1. PICK n \in Nat : DOMAIN points = 1..n
  BY LenProperties DEF AList
<1> DEFINE T == {l \in Nat : \E j \in Mine(id) : points[j].at = t /\ l = n - j}
<1>2. Mine(id) \subseteq 1..n
  BY <1>1 DEF Mine
<1>3. \A i \in Mine(id) : points[i].at = t => n - i \in T
  BY <1>2
<1>4. PICK m \in T : \A l \in T : m <= l
  BY <1>3, Least
<1>5. PICK j \in Mine(id) : points[j].at = t /\ m = n - j
  BY <1>4
<1> HIDE DEF T
<1>6. ASSUME NEW i \in Mine(id), points[i].at = t PROVE i <= j
  <2>1. n - j <= n - i
    BY <1>3, <1>4, <1>5, <1>6
  <2>2. i \in Int /\ j \in Int /\ n \in Int
    BY <1>2, <1>6
  <2> QED BY ONLY <2>1, <2>2
<1> QED BY <1>5, <1>6 DEF LastOf, pointKey

LEMMA ReadPointsKeeps == ASSUME DeckInv, NEW o \in Ops, ReadPoints(o) PROVE DeckInv'
<1>1. ops[o].at = "points" /\ UNCHANGED <<specs, defs, points, wanted, alone>>
  BY DEF ReadPoints, Stands
<1>2. ShapeFits(ops[o]) /\ AskFits(ops[o]) /\ defs = [m \in Metrics |-> defs[m]] /\ AList(points)
  BY DEF DeckInv, CallTypes
<1>3. DOMAIN points = 1..Len(points) /\ Len(points) \in Nat
  BY SMTT(60), <1>2, LenProperties DEF AList
<1>4. ops[o].todo = ops[o].req.points /\ AList(ops[o].req.points)
  BY <1>1, <1>2 DEF AskFits, Writing, ShapeFits
<1>5. PICK b : b = [t \in {pointKey(points[k]) : k \in Mine(Id(o))} |->
                     [row |-> LastOf(Id(o), t), value |-> points[LastOf(Id(o), t)].value]]
  OBVIOUS
<1>6. PICK q : q = [ops[o] EXCEPT !.at = "put", !.byKey = b]
  OBVIOUS
<1>7. Goes(o, q)
  BY <1>5, <1>6 DEF ReadPoints
<1>8. q = [at |-> "put", req |-> ops[o].req, meta |-> ops[o].meta, row |-> ops[o].row, rows |-> ops[o].rows, queue |-> ops[o].queue,
           todo |-> ops[o].todo, byKey |-> b, shown |-> ops[o].shown, proposed |-> ops[o].proposed, asked |-> ops[o].asked]
  BY <1>2, <1>6 DEF ShapeFits
<1>9. /\ q.at = "put" /\ q.req = ops[o].req /\ q.asked = ops[o].asked /\ q.meta = ops[o].meta /\ q.byKey = b
      /\ q.todo = ops[o].todo /\ q.shown = ops[o].shown /\ q.proposed = ops[o].proposed
      /\ q = [at |-> q.at, req |-> q.req, meta |-> q.meta, row |-> q.row, rows |-> q.rows, queue |-> q.queue,
              todo |-> q.todo, byKey |-> q.byKey, shown |-> q.shown, proposed |-> q.proposed, asked |-> q.asked]
  BY ONLY <1>8
<1>10. ShapeFits(q)
  BY <1>2, <1>9, ReqIs DEF ShapeFits
<1>11. AskFits(q)
  BY <1>1, <1>2, <1>9 DEF AskFits, Writing
<1>12. ops'[o] = q
  BY <1>7, GoesIs DEF DeckInv
<1>13. StoredFits(o)'
  BY <1>4, <1>9, <1>12, NothingDone
<1>14. DOMAIN b = {points[k].at : k \in Mine(Id(o))}
  BY <1>5 DEF pointKey
<1>15. Id(o)' = Id(o)
  BY <1>9, <1>12 DEF Id
<1>16. KnownFits(o)'
  <2>1. ASSUME NEW t \in DOMAIN b
        PROVE  b[t].row \in 1..Len(points) /\ Lies(Id(o), t, b[t].row) /\ points[b[t].row].value = b[t].value
    <3>1. b[t].row = LastOf(Id(o), t) /\ b[t].value = points[LastOf(Id(o), t)].value
      BY <1>5, <2>1
    <3>2. LastOf(Id(o), t) \in Mine(Id(o)) /\ points[LastOf(Id(o), t)].at = t
      BY <1>2, <1>14, LastIs
    <3> QED BY <1>3, <3>1, <3>2 DEF Mine, Lies
  <2>2. points' = points /\ ops'[o].byKey = b
    BY <1>1, <1>9, <1>12
  <2> QED BY <1>15, <2>1, <2>2 DEF KnownFits, Lies
<1>17. NewFits(o)'
  BY <1>1, <1>3, <1>9, <1>12, <1>14, <1>15 DEF NewFits, Mine
<1> QED BY <1>1, <1>2, <1>7, <1>9, <1>10, <1>11, <1>13, <1>16, <1>17, LateKeeps DEF Late

LEMMA PutDoneKeeps == ASSUME DeckInv, NEW o \in Ops, PutDone(o) PROVE DeckInv'
<1>1. ops[o].at = "put" /\ ops[o].todo = <<>> /\ UNCHANGED <<specs, defs, points, wanted, alone>>
  BY DEF PutDone, Stands
<1>2. ShapeFits(ops[o]) /\ AskFits(ops[o]) /\ defs = [m \in Metrics |-> defs[m]]
  BY DEF DeckInv, CallTypes
<1>3. PICK q : q = [ops[o] EXCEPT !.at = "audit"]
  OBVIOUS
<1>4. Goes(o, q)
  BY <1>3 DEF PutDone
<1>5. /\ ShapeFits(q) /\ q.at = "audit" /\ q.req = ops[o].req /\ q.asked = ops[o].asked /\ q.meta = ops[o].meta
      /\ q.todo = ops[o].todo /\ q.shown = ops[o].shown /\ q.proposed = ops[o].proposed
  <2>1. ShapeFits(ops[o])
    BY <1>2
  <2> QED BY <1>3, <2>1, AtIs
<1>6. AskFits(q)
  BY <1>1, <1>2, <1>5 DEF AskFits, Writing
<1>7. ops'[o] = q /\ \A p \in Ops : p # o => ops'[p] = ops[p]
  BY <1>4, GoesIs DEF DeckInv
<1>8. StoredFits(o)'
  <2>1. StoredFits(o)
    BY <1>1 DEF DeckInv, PointsInv
  <2>2. \A t : Contested(o, t)' = Contested(o, t)
    BY <1>1, <1>7 DEF Contested
  <2>3. Done(o)' = Done(o) /\ ops'[o].req = ops[o].req /\ Id(o)' = Id(o)
    BY <1>5, <1>7 DEF Done, Id
  <2>4. \A y : Stored(Id(o), y) => Stored(Id(o), y)'
    BY <1>1, <2>3 DEF Stored
  <2> QED BY <2>1, <2>2, <2>3, <2>4 DEF StoredFits
<1> QED BY <1>1, <1>2, <1>4, <1>5, <1>6, <1>8, LateKeeps DEF Late

LEMMA DueFits ==
  ASSUME NEW o \in Ops, DeckFits(wanted), ops[o].asked.op = ops[o].req.op,
         ops[o].req.op \in {"define", "edit", "accept", "retire", "reorder", "import"},
         ops[o].req.op = "import" => ops[o].req.id \in Metrics
  PROVE  DeckFits(Due(o))
<1>1. ASSUME ops[o].req.op # "reorder" PROVE \E src : \E l \in Lifecycles : Asked(o) = Spec_(src, l)
  <2>1. CASE ops[o].req.op = "import"
    <3>1. wanted[Id(o)].life \in Lifecycles
      BY <2>1 DEF DeckFits, Id
    <3>2. Asked(o) = Spec_("manual", wanted[Id(o)].life)
      BY <2>1 DEF Asked
    <3> QED BY <3>1, <3>2
  <2>2. CASE ops[o].req.op = "retire"
    <3>1. Asked(o) = Spec_(Source(wanted[Id(o)]), "retired") /\ "retired" \in Lifecycles
      BY <2>2 DEF Asked, Lifecycles
    <3> QED BY <3>1
  <2>3. CASE ops[o].req.op \in {"define", "edit", "accept"}
    <3>1. \E src : Asked(o) = Spec_(src, "active")
      BY <2>3 DEF Asked
    <3>2. "active" \in Lifecycles
      BY DEF Lifecycles
    <3> QED BY <3>1, <3>2
  <2> QED BY <1>1, <2>1, <2>2, <2>3
<1>2. CASE ops[o].req.op = "reorder"
  BY <1>2 DEF Due, Op
<1>3. CASE ops[o].req.op # "reorder"
  <2>1. PICK src : \E l \in Lifecycles : Asked(o) = Spec_(src, l)
    BY <1>1, <1>3
  <2>2. PICK l \in Lifecycles : Asked(o) = Spec_(src, l)
    BY <2>1
  <2>3. DeckFits([wanted EXCEPT ![Id(o)] = Spec_(src, l)])
    BY SpecFits
  <2>4. Due(o) = [wanted EXCEPT ![Id(o)] = Spec_(src, l)]
    BY <1>3, <2>2 DEF Due, Op
  <2> QED BY <2>3, <2>4
<1> QED BY <1>2, <1>3

LEMMA AnswerCallKeeps == ASSUME DeckInv, NEW o \in Ops, AnswerCall(o) PROVE DeckInv'
<1>1. ops[o].at = "audit" /\ UNCHANGED <<specs, defs, points, alone>> /\ wanted' = Due(o) /\ Ends(o, "ok")
  BY DEF AnswerCall, Stands
<1>2. /\ Busy(ops[o]) /\ ShapeFits(ops[o]) /\ AskFits(ops[o]) /\ (alone => StageFits(o)) /\ defs = [m \in Metrics |-> defs[m]]
      /\ \A m \in Metrics : specs[m].life = "retired" \/ ops[o].meta.specs[m].life = "retired" => Retires(m)
      /\ DeckFits(wanted)
  BY <1>1, WriterIs DEF Writing
<1>3. Keeps(o) /\ ops'[o].at = "ok" /\ ops'[o].req = ops[o].req /\ ops'[o].meta.specs = [m \in Metrics |-> Nothing]
  <2>1. "ok" \in {"ok", "refused", "failed"} /\ ops[o].at \notin {"idle", "viewDefs", "viewMeta"} /\ Op(o) # "view" /\ CallTypes
    BY <1>1, <1>2 DEF Busy, Op, DeckInv
  <2> QED BY <1>1, <2>1, EndsIs
<1>4. DeckFits(wanted')
  BY <1>1, <1>2, DueFits DEF AskFits, Writing
<1>5. HasRow(ops'[o]) => defs'[ops'[o].req.id] # NoDef
  BY <1>1, <1>3 DEF DeckInv, RowsInv, HasRow, Defines, Op, Id
<1>6. alone => specs' = wanted' /\ RowsOf(specs)'
  BY <1>1, <1>2 DEF StageFits, RowsOf, Late
<1>7. ~Busy(ops'[o])
  BY <1>3 DEF Busy
<1>8. \A m \in Metrics : specs'[m].life = "retired" \/ ops'[o].meta.specs[m].life = "retired" => Retires(m)
  BY <1>1, <1>2, <1>3 DEF Nothing
<1>9. ops'[o].at \notin {"put", "audit"}
  BY <1>3
<1> QED BY <1>1, <1>2, <1>3, <1>4, <1>5, <1>6, <1>7, <1>8, <1>9, WriterKeeps

(* A view reads.                                                               *)
LEMMA ReaderKeeps ==
  ASSUME DeckInv, NEW o \in Ops, Keeps(o), ops[o].req.op = "view", ops'[o].req = ops[o].req,
         ops'[o].at \in {"viewMeta", "ok"}, UNCHANGED <<specs, defs, points, wanted, alone>>,
         \A m \in Metrics : ops'[o].meta.specs[m].life = "retired" => ops[o].meta.specs[m].life = "retired"
  PROVE  DeckInv'
<1>1. CallTypes'
  BY TypesStay DEF DeckInv, CallTypes
<1>2. RetiredInv'
  BY RetiredStays DEF DeckInv, RetiredInv, RetiredFits
<1>3. RowsInv'
  BY RowsStay DEF DeckInv, HasRow
<1>4. PointsInv'
  BY PointsStay DEF DeckInv
<1>5. AloneInv'
  BY ReaderMoves DEF DeckInv, Busy
<1> QED BY <1>1, <1>2, <1>3, <1>4, <1>5 DEF DeckInv

LEMMA ViewDefsKeeps == ASSUME DeckInv, NEW o \in Ops, ViewDefs(o) PROVE DeckInv'
<1>1. ops[o].at = "viewDefs" /\ UNCHANGED <<specs, defs, points, wanted, alone>>
  BY SMTT(60) DEF ViewDefs, Stands
<1>2. ShapeFits(ops[o]) /\ AskFits(ops[o]) /\ ops[o].req.op = "view"
  BY <1>1 DEF DeckInv, CallTypes, AskFits
<1>3. PICK q : q = [ops[o] EXCEPT !.at = "viewMeta", !.rows = defs]
  BY SMTT(60)
<1>4. q = [at |-> "viewMeta", req |-> ops[o].req, meta |-> ops[o].meta, row |-> ops[o].row, rows |-> defs, queue |-> ops[o].queue,
           todo |-> ops[o].todo, byKey |-> ops[o].byKey, shown |-> ops[o].shown, proposed |-> ops[o].proposed,
           asked |-> ops[o].asked]
  BY <1>2, <1>3 DEF ShapeFits
<1>5. /\ q.at = "viewMeta" /\ q.req = ops[o].req /\ q.asked = ops[o].asked /\ q.meta = ops[o].meta
      /\ q.todo = ops[o].todo /\ q.shown = ops[o].shown /\ q.proposed = ops[o].proposed
      /\ q = [at |-> q.at, req |-> q.req, meta |-> q.meta, row |-> q.row, rows |-> q.rows, queue |-> q.queue,
              todo |-> q.todo, byKey |-> q.byKey, shown |-> q.shown, proposed |-> q.proposed, asked |-> q.asked]
  BY ONLY <1>4
<1>6. ShapeFits(q)
  BY <1>2, <1>5, ReqIs DEF ShapeFits
<1>7. AskFits(q)
  BY <1>1, <1>2, <1>5 DEF AskFits, Writing
<1>8. ops'[o] = q /\ (\A p \in Ops : p # o => ops'[p] = ops[p]) /\ ops' = [p \in Ops |-> ops'[p]]
  <2>1. Goes(o, q)
    BY <1>3 DEF ViewDefs
  <2> QED BY <2>1, GoesIs DEF DeckInv
<1>9. Keeps(o)
  BY <1>1, <1>5, <1>6, <1>7, <1>8 DEF Keeps, DeckInv, CallTypes
<1> QED BY <1>1, <1>2, <1>5, <1>8, <1>9, ReaderKeeps

LEMMA NeverOffered ==
  ASSUME NEW sp, DeckFits(sp), NEW df
  PROVE  Shown(sp, df) \cap starterProposals(sp, df) = {}
<1>1. \A m \in Metrics : sp[m].life # "retired" => sp[m].life \in {"none", "active"}
  BY DEF DeckFits, Lifecycles
<1> QED BY <1>1 DEF Shown, starterProposals, takenMetricIds

LEMMA ViewMetaKeeps == ASSUME DeckInv, NEW o \in Ops, ViewMeta(o) PROVE DeckInv'
<1>1. ops[o].at = "viewMeta" /\ UNCHANGED <<specs, defs, points, wanted, alone>>
  BY SMTT(60) DEF ViewMeta, Stands
<1>2. ShapeFits(ops[o]) /\ AskFits(ops[o]) /\ ops[o].req.op = "view" /\ DeckFits(specs)
  BY <1>1 DEF DeckInv, CallTypes, AskFits
<1>3. PICK s : s = Shown(specs, ops[o].rows)
  OBVIOUS
<1>4. PICK p : p = starterProposals(specs, ops[o].rows)
  OBVIOUS
<1>5. s \cap p = {}
  BY <1>2, <1>3, <1>4, NeverOffered
<1>6. PICK q : q = [NoCall EXCEPT !.at = "ok", !.req = ops[o].req, !.shown = s, !.proposed = p]
  OBVIOUS
<1>7. Goes(o, q)
  BY <1>3, <1>4, <1>6 DEF ViewMeta
<1>8. ops'[o] = q /\ (\A x \in Ops : x # o => ops'[x] = ops[x]) /\ ops' = [x \in Ops |-> ops'[x]]
  BY <1>7, GoesIs DEF DeckInv
<1>9. q = [at |-> "ok", req |-> ops[o].req, meta |-> NoCall.meta, row |-> NoDef, rows |-> NoCall.rows, queue |-> <<>>,
           todo |-> <<>>, byKey |-> <<>>, shown |-> s, proposed |-> p, asked |-> NoRequest]
  BY ZenonT(60), <1>6 DEF NoCall
<1>10. /\ q.at = "ok" /\ q.req = ops[o].req /\ q.todo = <<>> /\ q.shown = s /\ q.proposed = p /\ q.meta = NoCall.meta
       /\ q = [at |-> q.at, req |-> q.req, meta |-> q.meta, row |-> q.row, rows |-> q.rows, queue |-> q.queue,
               todo |-> q.todo, byKey |-> q.byKey, shown |-> q.shown, proposed |-> q.proposed, asked |-> q.asked]
  BY ONLY <1>9
<1>11. ShapeFits(q) /\ q.meta.specs = [m \in Metrics |-> Nothing]
  BY <1>2, <1>10, FreshFits DEF ShapeFits
<1>12. AskFits(q)
  BY <1>2, <1>5, <1>10 DEF AskFits, Writing
<1>13. Keeps(o)
  BY <1>1, <1>8, <1>10, <1>11, <1>12 DEF Keeps, DeckInv, CallTypes
<1>14. \A m \in Metrics : ops'[o].meta.specs[m].life # "retired"
  BY <1>8, <1>11 DEF Nothing
<1> QED BY <1>1, <1>2, <1>8, <1>10, <1>13, <1>14, ReaderKeeps

(* An import writes the rows of one week.                                      *)
Grows(key) ==
  \E n, x \in Nat :
    /\ DOMAIN points = 1..n /\ Len(points) = n /\ DOMAIN points' = 1..x /\ Len(points') = x /\ n <= x
    /\ \A k \in 1..n : /\ points'[k].id = points[k].id /\ points'[k].at = points[k].at
                       /\ points'[k] = points[k] \/ points[k].at = key
    /\ \A k \in 1..x : k \notin 1..n => points'[k].at = key

LEMMA OthersFit ==
  ASSUME CallTypes, NEW o \in Ops, Keeps(o), NEW key, Grows(key), NEW p \in Ops, ops'[p] = ops[p], Contested(p, key)'
  PROVE  /\ KnownFits(p) => KnownFits(p)'
         /\ NewFits(p) => NewFits(p)'
         /\ StoredFits(p) => StoredFits(p)'
<1>1. PICK n \in Nat, x \in Nat :
        /\ DOMAIN points = 1..n /\ Len(points) = n /\ DOMAIN points' = 1..x /\ Len(points') = x /\ n <= x
        /\ \A k \in 1..n : /\ points'[k].id = points[k].id /\ points'[k].at = points[k].at
                           /\ points'[k] = points[k] \/ points[k].at = key
        /\ \A k \in 1..x : k \notin 1..n => points'[k].at = key
  BY DEF Grows
<1>2. \A t : Contested(p, t) => Contested(p, t)'
  BY ContestedStays
<1>3. Done(p)' = Done(p) /\ Id(p)' = Id(p)
  BY DEF Done, Id
<1>4. 1..n \subseteq 1..x
  BY <1>1
<1>5. ASSUME KnownFits(p) PROVE KnownFits(p)'
  <2>1. PICK b : b = ops[p].byKey
    OBVIOUS
  <2>2. ops'[p].byKey = b /\ ops'[p].req = ops[p].req
    BY SMTT(60), <2>1
  <2>3. ASSUME NEW t \in DOMAIN b
        PROVE  \/ b[t].row = -1 /\ \E k \in Done(p) : ops[p].req.points[k].at = t
               \/ /\ b[t].row \in 1..x /\ points'[b[t].row].id = Id(p) /\ points'[b[t].row].at = t
                  /\ \/ Contested(p, t)' \/ points'[b[t].row].value = b[t].value
                     \/ \E k \in Done(p) : ops[p].req.points[k].at = t
    <3>1. \/ b[t].row = -1 /\ \E k \in Done(p) : ops[p].req.points[k].at = t
          \/ /\ b[t].row \in 1..n /\ points[b[t].row].id = Id(p) /\ points[b[t].row].at = t
             /\ \/ Contested(p, t) \/ points[b[t].row].value = b[t].value
                \/ \E k \in Done(p) : ops[p].req.points[k].at = t
      BY <1>1, <1>5, <2>1 DEF KnownFits, Lies
    <3>2. CASE b[t].row = -1 /\ \E k \in Done(p) : ops[p].req.points[k].at = t
      BY SMTT(60), <3>2
    <3>3. CASE b[t].row \in 1..n /\ points[b[t].row].id = Id(p) /\ points[b[t].row].at = t
      BY <1>1, <1>2, <1>4, <3>1, <3>3
    <3> QED BY SMTT(60), <3>1, <3>2, <3>3
  <2> QED BY <1>1, <1>3, <2>2, <2>3 DEF KnownFits, Lies
<1>6. ASSUME NewFits(p) PROVE NewFits(p)'
  <2>1. ASSUME NEW k \in 1..x, points'[k].id = Id(p), NEW t, t = points'[k].at
        PROVE  t \in DOMAIN ops[p].byKey \/ Contested(p, t)'
    <3>1. CASE k \in 1..n
      <4>1. points[k].id = Id(p) /\ t = points[k].at
        BY <1>1, <2>1, <3>1
      <4> QED BY <1>1, <1>2, <1>6, <3>1, <4>1 DEF NewFits
    <3>2. CASE k \notin 1..n
      BY <1>1, <2>1, <3>2
    <3> QED BY <3>1, <3>2
  <2>2. PICK b : b = ops[p].byKey
    OBVIOUS
  <2>3. ops'[p].byKey = b
    BY SMTT(60), <2>2
  <2> QED BY <1>1, <1>3, <2>1, <2>2, <2>3 DEF NewFits
<1>7. ASSUME StoredFits(p) PROVE StoredFits(p)'
  <2>1. PICK r : r = ops[p].req
    OBVIOUS
  <2>2. ASSUME NEW k \in Done(p), ~Twice(r, k), ~Contested(p, r.points[k].at)'
        PROVE  \E j \in 1..x : points'[j] = [id |-> Id(p), at |-> r.points[k].at, value |-> r.points[k].value]
    <3>1. Stored(Id(p), r.points[k])
      BY <1>2, <1>7, <2>1, <2>2 DEF StoredFits
    <3>2. PICK j \in 1..n : points[j] = [id |-> Id(p), at |-> r.points[k].at, value |-> r.points[k].value]
      BY <1>1, <3>1 DEF Stored
    <3>3. points[j].at # key
      BY <2>2, <3>2
    <3> QED BY <1>1, <1>4, <3>2, <3>3
  <2> QED BY <1>1, <1>3, <2>1, <2>2 DEF StoredFits, Stored
<1> QED BY <1>5, <1>6, <1>7

LEMMA PointsMove ==
  ASSUME DeckInv, NEW o \in Ops, ops[o].at = "put", NEW key, NEW k \in DOMAIN ops[o].req.points, ops[o].req.points[k].at = key,
         Grows(key), AList(points'),
         \A j \in 1..Len(points') : points'[j] = [id |-> points'[j].id, at |-> points'[j].at, value |-> points'[j].value],
         NEW q, Goes(o, q), ShapeFits(q), AskFits(q), q.at = "put", q.req = ops[o].req, q.asked = ops[o].asked, q.meta = ops[o].meta,
         UNCHANGED <<specs, defs, wanted, alone>>,
         OnePointAWeek', KnownFits(o)', NewFits(o)', StoredFits(o)'
  PROVE  DeckInv'
<1>1. /\ Busy(ops[o]) /\ (alone => StageFits(o)) /\ defs = [m \in Metrics |-> defs[m]]
      /\ \A m \in Metrics : specs[m].life = "retired" \/ ops[o].meta.specs[m].life = "retired" => Retires(m)
  BY WriterIs DEF Writing
<1>2. ops'[o] = q /\ (\A p \in Ops : p # o => ops'[p] = ops[p]) /\ ops' = [p \in Ops |-> ops'[p]]
  BY GoesIs DEF DeckInv
<1>3. Keeps(o)
  BY <1>2 DEF Keeps, DeckInv, CallTypes
<1>4. CallTypes'
  <2>1. DeckFits(specs') /\ DeckFits(wanted') /\ defs' = [m \in Metrics |-> defs'[m]] /\ alone' \in BOOLEAN
    BY DEF DeckInv, CallTypes, DeckFits
  <2>2. ASSUME NEW p \in Ops PROVE ShapeFits(ops'[p]) /\ AskFits(ops'[p])
    BY <1>3 DEF DeckInv, CallTypes, Keeps
  <2> QED BY <1>2, <2>1, <2>2 DEF CallTypes
<1>5. RetiredInv'
  BY <1>1, <1>2, <1>3, RetiredStays DEF DeckInv
<1>6. RowsInv'
  <2>1. HasRow(ops'[o]) => defs'[ops'[o].req.id] # NoDef
    BY <1>2 DEF DeckInv, RowsInv, HasRow, Defines, Op, Id
  <2> QED BY <1>3, <2>1, RowsStay DEF DeckInv
<1>7. AloneInv'
  <2>1. Due(o)' = Due(o)
    BY ZenonT(60), <1>2 DEF Op, Id, Asked, Due
  <2>2. alone => StageFits(o)'
    BY <1>1, <1>2, <2>1 DEF StageFits, Early, Late, RowsOf
  <2>3. Busy(ops'[o])
    BY <1>1, <1>2 DEF Busy
  <2> QED BY <1>1, <1>3, <2>2, <2>3, WriterMoves DEF DeckInv
<1>8. ASSUME NEW p \in Ops, p # o, ops[p].at \in {"put", "audit"} PROVE Contested(p, key)'
  <2>1. Busy(ops[p])
    BY <1>8, WriterIs DEF Writing
  <2>2. ~alone
    BY <1>1, <1>8, <2>1 DEF DeckInv, AloneInv, Busy, Running, Writes
  <2> QED BY <1>2, <1>8, <2>2 DEF Contested
<1>9. PointsInv'
  <2>1. CallTypes /\ \A p \in Ops : /\ ops[p].at = "put" => KnownFits(p) /\ NewFits(p)
                                   /\ ops[p].at \in {"put", "audit"} => StoredFits(p)
    BY DEF DeckInv, PointsInv
  <2>2. ASSUME NEW p \in Ops, p # o, ops[p].at \in {"put", "audit"}
        PROVE  /\ ops'[p].at = "put" => KnownFits(p)' /\ NewFits(p)'
               /\ StoredFits(p)'
    <3>1. ops'[p] = ops[p] /\ Contested(p, key)'
      BY <1>2, <1>8, <2>2
    <3>2. /\ KnownFits(p) => KnownFits(p)'
          /\ NewFits(p) => NewFits(p)'
          /\ StoredFits(p) => StoredFits(p)'
      BY <1>3, <2>1, <3>1, OthersFit
    <3>3. (ops[p].at = "put" => KnownFits(p) /\ NewFits(p)) /\ StoredFits(p)
      BY <2>2 DEF DeckInv, PointsInv
    <3>4. ops'[p].at = ops[p].at
      BY <3>1
    <3> QED BY <3>2, <3>3, <3>4
  <2> QED BY <1>2, <2>2 DEF PointsInv
<1> QED BY <1>4, <1>5, <1>6, <1>7, <1>9 DEF DeckInv

LEMMA RowIsPut ==
  ASSUME AList(points), NEW n \in Nat, DOMAIN points = 1..n, Len(points) = n, NEW i \in 1..n, NEW e, NEW s,
         s = [points EXCEPT ![i] = e]
  PROVE  AList(s) /\ DOMAIN s = 1..n /\ Len(s) = n /\ \A j \in 1..n : s[j] = IF j = i THEN e ELSE points[j]
<1>1. PICK S : points \in Seq(S)
  BY DEF AList
<1>2. points \in Seq(S \cup {e})
  BY <1>1, SeqMonotonic
<1>3. s \in Seq(S \cup {e}) /\ Len(s) = n /\ \A j \in 1..n : s[j] = IF j = i THEN e ELSE points[j]
  BY <1>2, ExceptSeq
<1> QED BY <1>3, LenProperties DEF AList

LEMMA RowIsAdded ==
  ASSUME AList(points), NEW n \in Nat, DOMAIN points = 1..n, Len(points) = n, NEW e, NEW s, s = Append(points, e)
  PROVE  AList(s) /\ DOMAIN s = 1..(n + 1) /\ Len(s) = n + 1 /\ s[n + 1] = e /\ \A j \in 1..n : s[j] = points[j]
<1>1. PICK S : points \in Seq(S)
  BY DEF AList
<1>2. points \in Seq(S \cup {e})
  BY <1>1, SeqMonotonic
<1>3. s \in Seq(S \cup {e}) /\ Len(s) = n + 1 /\ s[n + 1] = e /\ \A j \in 1..n : s[j] = points[j]
  BY SMTT(60), <1>2, AppendProperties
<1> QED BY <1>3, LenProperties DEF AList

Puts(c, todo, byKey, q) == q = [c EXCEPT !.todo = todo, !.byKey = byKey]
LEMMA PutKeeps == ASSUME DeckInv, NEW o \in Ops, Put(o) PROVE DeckInv'
<1>1. ops[o].at = "put" /\ ops[o].todo # <<>> /\ UNCHANGED <<specs, defs, wanted, alone>>
  BY ZenonT(60) DEF Put, Stands
<1>2. /\ ShapeFits(ops[o]) /\ AskFits(ops[o]) /\ KnownFits(o) /\ NewFits(o) /\ StoredFits(o) /\ OnePointAWeek
      /\ AList(points) /\ \A k \in 1..Len(points) : points[k] = [id |-> points[k].id, at |-> points[k].at, value |-> points[k].value]
  BY <1>1 DEF DeckInv, CallTypes, PointsInv
<1>3. PICK r : r = ops[o].req
  OBVIOUS
<1>4. PICK S : r.points \in Seq(S)
  BY <1>2, <1>3 DEF ShapeFits, AList
<1>5. PICK R : ops[o].todo \in Seq(R)
  BY <1>2 DEF ShapeFits, AList
<1>6. PICK m \in Nat : Len(r.points) = m /\ DOMAIN r.points = 1..m
  BY <1>4, LenProperties
<1>7. PICK l \in Nat : Len(ops[o].todo) = l /\ l >= 1 /\ l <= m
  BY <1>1, <1>2, <1>3, <1>5, <1>6, LenProperties, EmptySeq DEF ShapeFits
<1>8. PICK p : p = Head(ops[o].todo)
  OBVIOUS
<1>9. PICK tl : tl = Tail(ops[o].todo)
  OBVIOUS
<1>10. p = ops[o].todo[1] /\ tl \in Seq(R) /\ Len(tl) = l - 1 /\ \A i \in 1..l - 1 : tl[i] = ops[o].todo[i + 1]
  BY <1>1, <1>5, <1>7, <1>8, <1>9, HeadTailProperties
<1>11. PICK k \in 1..m : k = m - l + 1
  BY <1>7
<1>12. r.points[k] = p
  BY <1>2, <1>3, <1>6, <1>7, <1>10, <1>11 DEF ShapeFits
<1>13. Done(o) = 1..(m - l) /\ k \notin Done(o)
  BY <1>3, <1>6, <1>7, <1>11 DEF Done
<1>14. PICK n \in Nat : DOMAIN points = 1..n /\ Len(points) = n
  BY <1>2, LenProperties DEF AList
<1>15. PICK key : key = p.at
  OBVIOUS
<1>16. PICK known : known = ops[o].byKey
  OBVIOUS
(* The call after the week: what it has handled grows by the week's point.     *)
<1>17. ASSUME NEW b, NEW q, Puts(ops[o], tl, b, q), Goes(o, q)
       PROVE  /\ q.req = r /\ q.at = "put" /\ q.asked = ops[o].asked /\ q.meta = ops[o].meta /\ q.byKey = b
              /\ ShapeFits(q) /\ AskFits(q) /\ ops'[o] = q /\ (\A x \in Ops : x # o => ops'[x] = ops[x])
              /\ Done(o)' = Done(o) \cup {k} /\ Id(o)' = Id(o)
  <2>1. q = [at |-> ops[o].at, req |-> ops[o].req, meta |-> ops[o].meta, row |-> ops[o].row, rows |-> ops[o].rows,
             queue |-> ops[o].queue, todo |-> tl, byKey |-> b, shown |-> ops[o].shown, proposed |-> ops[o].proposed,
             asked |-> ops[o].asked]
    BY <1>2, <1>17 DEF ShapeFits, Puts
  <2>2. /\ q.at = ops[o].at /\ q.req = ops[o].req /\ q.asked = ops[o].asked /\ q.meta = ops[o].meta /\ q.byKey = b
        /\ q.todo = tl /\ q.shown = ops[o].shown /\ q.proposed = ops[o].proposed
        /\ q = [at |-> q.at, req |-> q.req, meta |-> q.meta, row |-> q.row, rows |-> q.rows, queue |-> q.queue,
                todo |-> q.todo, byKey |-> q.byKey, shown |-> q.shown, proposed |-> q.proposed, asked |-> q.asked]
    BY ONLY <2>1
  <2>3. ops'[o] = q /\ \A x \in Ops : x # o => ops'[x] = ops[x]
    BY <1>17, GoesIs DEF DeckInv
  <2>4. AList(q.todo) /\ Len(q.todo) <= Len(q.req.points)
    BY SMTT(60), <1>3, <1>6, <1>7, <1>10, <2>2 DEF AList
  <2>5. \A i \in 1..l : ops[o].todo[i] = r.points[m - l + i]
    BY <1>2, <1>3, <1>6, <1>7 DEF ShapeFits
  <2>6. \A i \in 1..l - 1 : tl[i] = r.points[m - (l - 1) + i]
    <3> TAKE i \in 1..l - 1
    <3>1. i + 1 \in 1..l /\ m - l + (i + 1) = m - (l - 1) + i
      BY <1>7
    <3> QED BY <1>10, <2>5, <3>1
  <2>7. \A i \in 1..Len(q.todo) : q.todo[i] = q.req.points[Len(q.req.points) - Len(q.todo) + i]
    BY <1>3, <1>6, <1>10, <2>2, <2>6
  <2>8. ShapeFits(q)
    BY <1>2, <2>2, <2>4, <2>7 DEF ShapeFits
  <2>9. AskFits(q)
    BY <1>1, <1>2, <2>2 DEF AskFits, Writing
  <2>10. Done(o)' = 1..(m - (l - 1))
    BY <1>3, <1>6, <1>10, <2>2, <2>3 DEF Done
  <2>11. 1..(m - (l - 1)) = 1..(m - l) \cup {k}
    BY <1>7, <1>11
  <2> QED BY SMTT(60), <1>1, <1>3, <1>13, <2>2, <2>3, <2>8, <2>9, <2>10, <2>11 DEF Id
<1>18. ASSUME \A x \in Ops : x # o => ops'[x] = ops[x] PROVE \A t : Contested(o, t)' <=> Contested(o, t)
  BY <1>1, <1>18 DEF Contested
<1>19. ASSUME NEW j \in Done(o), r.points[j].at = key PROVE Twice(r, j) /\ Twice(r, k)
  <2>1. j \in 1..m /\ j # k
    BY <1>7, <1>13, <1>19
  <2> QED BY <1>6, <1>12, <1>15, <1>19, <2>1 DEF Twice
<1>20. CASE /\ key \in DOMAIN known
            /\ points' = IF known[key].row = -1 \/ known[key].value = p.value THEN points
                         ELSE [points EXCEPT ![known[key].row].value = p.value]
            /\ Goes(o, [ops[o] EXCEPT !.todo = tl])
  <2>1. PICK row, value : row = known[key].row /\ value = known[key].value
    OBVIOUS
  <2>2. PICK q : Puts(ops[o], tl, known, q)
    BY DEF Puts
  <2>3. Goes(o, q)
    <3>1. [ops[o] EXCEPT !.todo = tl] = q
      BY <1>2, <1>16, <2>2 DEF ShapeFits, Puts
    <3> QED BY SMTT(60), <1>20, <3>1
  <2>4. /\ q.req = r /\ q.at = "put" /\ q.asked = ops[o].asked /\ q.meta = ops[o].meta /\ q.byKey = known
        /\ ShapeFits(q) /\ AskFits(q) /\ ops'[o] = q /\ (\A x \in Ops : x # o => ops'[x] = ops[x])
        /\ Done(o)' = Done(o) \cup {k} /\ Id(o)' = Id(o)
    BY <1>17, <2>2, <2>3
  <2>5. \A t : Contested(o, t)' <=> Contested(o, t)
    BY SMTT(60), <1>18, <2>4
  <2>6. \/ row = -1 /\ \E j \in Done(o) : r.points[j].at = key
        \/ /\ row \in 1..n /\ Lies(Id(o), key, row)
           /\ Contested(o, key) \/ points[row].value = value \/ \E j \in Done(o) : r.points[j].at = key
    BY <1>2, <1>3, <1>14, <1>16, <1>20, <2>1 DEF KnownFits
  <2>7. CASE row = -1 \/ value = p.value
    <3>1. points' = points
      BY SMTT(60), <1>20, <2>1, <2>7
    <3>2. KnownFits(o)'
      BY SMTT(60), <1>2, <1>3, <1>16, <2>4, <2>5, <3>1 DEF KnownFits, Lies
    <3>3. NewFits(o)'
      BY <1>2, <1>16, <2>4, <2>5, <3>1 DEF NewFits
    <3>4. Twice(r, k) \/ Contested(o, key) \/ Stored(Id(o), p)
      <4>1. CASE \E j \in Done(o) : r.points[j].at = key
        BY <1>19, <4>1
      <4>2. CASE row \in 1..n /\ Lies(Id(o), key, row) /\ points[row].value = value
        <5>1. row # -1
          BY <4>2
        <5>2. points[row] = [id |-> Id(o), at |-> p.at, value |-> p.value]
          BY <1>2, <1>14, <1>15, <2>7, <4>2, <5>1 DEF Lies
        <5> QED BY <1>14, <4>2, <5>2 DEF Stored
      <4> QED BY <2>6, <4>1, <4>2
    <3>5. StoredFits(o)'
      <4>1. ASSUME NEW j \in Done(o) \cup {k}
            PROVE  Twice(r, j) \/ Contested(o, r.points[j].at) \/ Stored(Id(o), r.points[j])
        <5>1. CASE j = k
          BY <1>12, <1>15, <3>4, <5>1
        <5>2. CASE j \in Done(o)
          BY <1>2, <1>3, <5>2 DEF StoredFits
        <5> QED BY <5>1, <5>2
      <4>2. \A y : Stored(Id(o), y)' <=> Stored(Id(o), y)
        BY <2>4, <3>1 DEF Stored
      <4> QED BY <2>4, <2>5, <4>1, <4>2, <3>1 DEF StoredFits, Stored
    <3> QED BY <1>1, <1>3, <2>3, <2>4, <3>1, <3>2, <3>3, <3>5, LateKeeps DEF Late, DeckInv, CallTypes
  <2>8. CASE row # -1 /\ value # p.value
    <3>1. row \in 1..n /\ points[row].id = Id(o) /\ points[row].at = key
      BY <2>6, <2>8 DEF Lies
    <3>2. PICK e : e = [points[row] EXCEPT !.value = p.value]
      OBVIOUS
    <3>3. points' = [points EXCEPT ![row] = e]
      BY <1>20, <2>1, <2>8, <3>2
    <3>4. e = [id |-> Id(o), at |-> key, value |-> p.value]
      <4>1. points[row] = [id |-> points[row].id, at |-> points[row].at, value |-> points[row].value]
        BY <1>2, <1>14, <3>1
      <4> QED BY <3>1, <3>2, <4>1
    <3>5. e.id = Id(o) /\ e.at = key /\ e.value = p.value /\ e = [id |-> e.id, at |-> e.at, value |-> e.value]
      BY ONLY <3>4
    <3>6. AList(points') /\ DOMAIN points' = 1..n /\ Len(points') = n /\ \A j \in 1..n : points'[j] = IF j = row THEN e ELSE points[j]
      BY <1>2, <1>14, <3>1, <3>3, RowIsPut
    <3>7. \A j \in 1..n : points'[j].id = points[j].id /\ points'[j].at = points[j].at /\ (points'[j] = points[j] \/ points[j].at = key)
      BY <3>1, <3>5, <3>6
    <3>8. Grows(key)
      BY <1>14, <3>6, <3>7 DEF Grows
    <3>9. OnePointAWeek'
      BY SMTT(60), <1>1, <1>2, <1>14, <3>6, <3>7 DEF OnePointAWeek
    <3>10. KnownFits(o)'
      <4>1. ASSUME NEW t \in DOMAIN known
            PROVE  \/ known[t].row = -1 /\ \E j \in Done(o) \cup {k} : r.points[j].at = t
                   \/ /\ known[t].row \in 1..n /\ points'[known[t].row].id = Id(o) /\ points'[known[t].row].at = t
                      /\ \/ Contested(o, t) \/ points'[known[t].row].value = known[t].value
                         \/ \E j \in Done(o) \cup {k} : r.points[j].at = t
        <5>1. \/ known[t].row = -1 /\ \E j \in Done(o) : r.points[j].at = t
              \/ /\ known[t].row \in 1..n /\ points[known[t].row].id = Id(o) /\ points[known[t].row].at = t
                 /\ \/ Contested(o, t) \/ points[known[t].row].value = known[t].value
                    \/ \E j \in Done(o) : r.points[j].at = t
          BY <1>2, <1>3, <1>14, <1>16 DEF KnownFits, Lies
        <5>2. t = key => \E j \in Done(o) \cup {k} : r.points[j].at = t
          BY <1>12, <1>15
        <5>3. CASE known[t].row = -1 /\ \E j \in Done(o) : r.points[j].at = t
          BY <5>3
        <5>4. CASE known[t].row \in 1..n /\ points[known[t].row].id = Id(o) /\ points[known[t].row].at = t
          BY <3>7, <5>1, <5>2, <5>4
        <5> QED BY SMTT(60), <5>1, <5>3, <5>4
      <4> QED BY <2>4, <2>5, <3>6, <4>1 DEF KnownFits, Lies
    <3>11. NewFits(o)'
      BY <1>2, <1>14, <1>16, <2>4, <2>5, <3>6, <3>7 DEF NewFits
    <3>12. StoredFits(o)'
      <4>1. ASSUME NEW j \in Done(o) \cup {k}, ~Twice(r, j), ~Contested(o, r.points[j].at)
            PROVE  \E i \in 1..n : points'[i] = [id |-> Id(o), at |-> r.points[j].at, value |-> r.points[j].value]
        <5>1. CASE j = k
          BY <1>12, <1>15, <3>1, <3>4, <3>6, <5>1
        <5>2. CASE j \in Done(o)
          <6>1. Stored(Id(o), r.points[j])
            BY <1>2, <1>3, <4>1, <5>2 DEF StoredFits
          <6>2. PICK i \in 1..n : points[i] = [id |-> Id(o), at |-> r.points[j].at, value |-> r.points[j].value]
            BY <1>14, <6>1 DEF Stored
          <6>3. points[i].at # key
            BY <1>19, <4>1, <5>2, <6>2
          <6> QED BY <3>7, <6>2, <6>3
        <5> QED BY <5>1, <5>2
      <4> QED BY SMTT(60), <2>4, <2>5, <3>6, <4>1 DEF StoredFits, Stored
    <3>13. \A j \in 1..Len(points') : points'[j] = [id |-> points'[j].id, at |-> points'[j].at, value |-> points'[j].value]
      BY <1>2, <1>14, <3>5, <3>6
    <3>14. k \in DOMAIN ops[o].req.points /\ ops[o].req.points[k].at = key
      BY <1>3, <1>6, <1>12, <1>15
    <3> QED BY <1>1, <1>3, <2>3, <2>4, <3>6, <3>8, <3>9, <3>10, <3>11, <3>12, <3>13, <3>14, PointsMove
  <2> QED BY <2>7, <2>8
<1>21. ASSUME key \notin DOMAIN known, NEW e, e = [id |-> Id(o), at |-> key, value |-> p.value], points' = Append(points, e),
              NEW b, b = [t \in DOMAIN known \cup {key} |-> IF t = key THEN [row |-> -1, value |-> p.value] ELSE known[t]],
              Goes(o, [ops[o] EXCEPT !.todo = tl, !.byKey = b])
       PROVE  DeckInv'
  <2>1. PICK q : Puts(ops[o], tl, b, q)
    BY DEF Puts
  <2>2. Goes(o, q)
    BY <1>21, <2>1 DEF Puts
  <2>3. /\ q.req = r /\ q.at = "put" /\ q.asked = ops[o].asked /\ q.meta = ops[o].meta /\ q.byKey = b
        /\ ShapeFits(q) /\ AskFits(q) /\ ops'[o] = q /\ (\A x \in Ops : x # o => ops'[x] = ops[x])
        /\ Done(o)' = Done(o) \cup {k} /\ Id(o)' = Id(o)
    BY <1>17, <2>1, <2>2
  <2>4. \A t : Contested(o, t)' <=> Contested(o, t)
    BY <1>18, <2>3
  <2>5. e.id = Id(o) /\ e.at = key /\ e.value = p.value /\ e = [id |-> e.id, at |-> e.at, value |-> e.value]
    BY <1>21
  <2>6. /\ AList(points') /\ DOMAIN points' = 1..(n + 1) /\ Len(points') = n + 1 /\ points'[n + 1] = e
        /\ \A j \in 1..n : points'[j] = points[j]
    <3>1. AList(points) /\ n \in Nat
      BY <1>2
    <3>2. PICK s : s = points'
      OBVIOUS
    <3>3. s = Append(points, e)
      BY <1>21, <3>2
    <3>4. DOMAIN points = 1..n /\ Len(points) = n
      BY <1>14
    <3>5. AList(s) /\ DOMAIN s = 1..(n + 1) /\ Len(s) = n + 1
      BY ONLY <3>1, <3>3, <3>4, RowIsAdded
    <3>6. s[n + 1] = e /\ \A j \in 1..n : s[j] = points[j]
      BY ONLY <3>1, <3>3, <3>4, RowIsAdded
    <3> QED BY <3>2, <3>5, <3>6
  <2>7. n + 1 \in Nat /\ n <= n + 1 /\ \A j \in 1..(n + 1) : j \notin 1..n => j = n + 1
    OBVIOUS
  <2>8. 1..n \subseteq 1..(n + 1) /\ n + 1 \in 1..(n + 1)
    OBVIOUS
  <2>9. Grows(key)
    BY <1>14, <2>5, <2>6, <2>7 DEF Grows
  <2>10. OnePointAWeek'
    <3>1. ASSUME alone, NEW j \in 1..n PROVE ~(points[j].id = Id(o) /\ points[j].at = key)
      BY <1>2, <1>14, <1>16, <1>21, <3>1 DEF NewFits, Contested
    <3>2. alone => \A j, i \in 1..n : points[j].id = points[i].id /\ points[j].at = points[i].at => j = i
      BY <1>2, <1>14 DEF OnePointAWeek
    <3>3. ASSUME alone, NEW j \in 1..(n + 1), NEW i \in 1..(n + 1),
                 points'[j].id = points'[i].id /\ points'[j].at = points'[i].at
          PROVE  j = i
      <4>1. CASE j \in 1..n /\ i \in 1..n
        BY <2>6, <3>2, <3>3, <4>1
      <4>2. CASE j \in 1..n /\ i \notin 1..n
        BY <2>5, <2>6, <2>7, <3>1, <3>3, <4>2
      <4>3. CASE j \notin 1..n /\ i \in 1..n
        BY <2>5, <2>6, <2>7, <3>1, <3>3, <4>3
      <4>4. CASE j \notin 1..n /\ i \notin 1..n
        BY <2>7, <3>3, <4>4
      <4> QED BY <4>1, <4>2, <4>3, <4>4
    <3> QED BY <1>1, <2>6, <3>3 DEF OnePointAWeek
  <2>11. KnownFits(o)'
    <3>1. ASSUME NEW t \in DOMAIN b
          PROVE  \/ b[t].row = -1 /\ \E j \in Done(o) \cup {k} : r.points[j].at = t
                 \/ /\ b[t].row \in 1..(n + 1) /\ points'[b[t].row].id = Id(o) /\ points'[b[t].row].at = t
                    /\ \/ Contested(o, t) \/ points'[b[t].row].value = b[t].value
                       \/ \E j \in Done(o) \cup {k} : r.points[j].at = t
      <4>1. CASE t = key
        <5>1. b[t] = [row |-> -1, value |-> p.value]
          BY <1>21, <4>1
        <5> QED BY <1>12, <1>15, <4>1, <5>1
      <4>2. CASE t # key
        <5>1. t \in DOMAIN known /\ b[t] = known[t]
          BY SMTT(60), <1>21, <3>1, <4>2
        <5>2. \/ known[t].row = -1 /\ \E j \in Done(o) : r.points[j].at = t
              \/ /\ known[t].row \in 1..n /\ points[known[t].row].id = Id(o) /\ points[known[t].row].at = t
                 /\ \/ Contested(o, t) \/ points[known[t].row].value = known[t].value
                    \/ \E j \in Done(o) : r.points[j].at = t
          BY <1>2, <1>3, <1>14, <1>16, <5>1 DEF KnownFits, Lies
        <5> QED BY <2>6, <2>8, <5>1, <5>2
      <4> QED BY <4>1, <4>2
    <3> QED BY <2>3, <2>4, <2>6, <3>1 DEF KnownFits, Lies
  <2>12. NewFits(o)'
    <3>1. DOMAIN b = DOMAIN known \cup {key}
      BY <1>21
    <3>2. ASSUME NEW j \in 1..(n + 1), points'[j].id = Id(o), NEW t, t = points'[j].at PROVE t \in DOMAIN b \/ Contested(o, t)
      <4>1. CASE j \in 1..n
        BY <1>2, <1>14, <1>16, <2>6, <3>1, <3>2, <4>1 DEF NewFits
      <4>2. CASE j \notin 1..n
        BY <2>5, <2>6, <2>7, <3>1, <3>2, <4>2
      <4> QED BY <4>1, <4>2
    <3> QED BY <2>3, <2>4, <2>6, <3>2 DEF NewFits
  <2>13. StoredFits(o)'
    <3>1. ASSUME NEW j \in Done(o) \cup {k}, ~Twice(r, j), ~Contested(o, r.points[j].at)
          PROVE  \E i \in 1..(n + 1) : points'[i] = [id |-> Id(o), at |-> r.points[j].at, value |-> r.points[j].value]
      <4>1. CASE j = k
        BY <1>12, <1>15, <1>21, <2>6, <2>8, <4>1
      <4>2. CASE j \in Done(o)
        <5>1. Stored(Id(o), r.points[j])
          BY <1>2, <1>3, <3>1, <4>2 DEF StoredFits
        <5>2. PICK i \in 1..n : points[i] = [id |-> Id(o), at |-> r.points[j].at, value |-> r.points[j].value]
          BY <1>14, <5>1 DEF Stored
        <5> QED BY <2>6, <2>8, <5>2
      <4> QED BY <4>1, <4>2
    <3> QED BY <2>3, <2>4, <2>6, <3>1 DEF StoredFits, Stored
  <2>14. \A j \in 1..Len(points') : points'[j] = [id |-> points'[j].id, at |-> points'[j].at, value |-> points'[j].value]
    BY <1>2, <1>14, <2>5, <2>6, <2>7
  <2>15. k \in DOMAIN ops[o].req.points /\ ops[o].req.points[k].at = key
    BY <1>3, <1>6, <1>12, <1>15
  <2> QED BY <1>1, <1>3, <2>2, <2>3, <2>6, <2>9, <2>10, <2>11, <2>12, <2>13, <2>14, <2>15, PointsMove
<1> QED BY ZenonT(60), <1>8, <1>9, <1>15, <1>16, <1>20, <1>21 DEF Put, pointKey

LEMMA DeckStarts == DeckInit => DeckInv
<1> SUFFICES ASSUME DeckInit PROVE DeckInv
  OBVIOUS
<1>1. /\ specs = [m \in Metrics |-> Nothing] /\ wanted = [m \in Metrics |-> Nothing] /\ defs = [m \in Metrics |-> NoDef]
      /\ points = <<>> /\ ops = [o \in Ops |-> NoCall] /\ alone = TRUE
  BY DEF DeckInit
<1>2. DeckFits(specs) /\ DeckFits(wanted)
  BY <1>1 DEF DeckFits, Nothing, Lifecycles
<1>3. AList(points) /\ Len(points) = 0 /\ DOMAIN points = {}
  BY <1>1, EmptySeq DEF AList
<1>4. PICK q : q = NoCall
  OBVIOUS
<1>5. ops = [o \in Ops |-> q]
  BY <1>1, <1>4
<1>6. q = [at |-> "idle", req |-> NoRequest, meta |-> NoCall.meta, row |-> NoDef, rows |-> NoCall.rows, queue |-> <<>>,
           todo |-> <<>>, byKey |-> <<>>, shown |-> {}, proposed |-> {}, asked |-> NoRequest]
  BY <1>4 DEF NoCall
<1>7. /\ q.at = "idle" /\ q.req = NoRequest /\ q.todo = <<>> /\ q.shown = {} /\ q.proposed = {} /\ q.meta = NoCall.meta
      /\ q = [at |-> q.at, req |-> q.req, meta |-> q.meta, row |-> q.row, rows |-> q.rows, queue |-> q.queue,
              todo |-> q.todo, byKey |-> q.byKey, shown |-> q.shown, proposed |-> q.proposed, asked |-> q.asked]
  BY ONLY <1>6
<1>8. /\ q.req = [op |-> q.req.op, id |-> q.req.id, src |-> q.req.src, points |-> q.req.points, order |-> q.req.order]
      /\ q.req.op = "none" /\ q.req.points = <<>> /\ AList(q.req.points)
  BY <1>7, EmptySeq DEF NoRequest, AList
<1>9. ShapeFits(q) /\ q.meta.specs = [m \in Metrics |-> Nothing]
  BY <1>7, <1>8, FreshFits
<1>10. AskFits(q)
  BY <1>7, <1>8 DEF AskFits, Writing
<1>11. CallTypes
  BY <1>1, <1>2, <1>3, <1>5, <1>9, <1>10 DEF CallTypes
<1>12. RetiredInv
  BY <1>1, <1>5, <1>9 DEF RetiredInv, RetiredFits, Nothing
<1>13. RowsInv
  BY <1>5, <1>7 DEF RowsInv
<1>14. PointsInv
  BY <1>3, <1>5, <1>7 DEF PointsInv, OnePointAWeek
<1>15. AloneInv
  <2>1. \A o \in Ops : ~Running(o)
    BY <1>5, <1>7 DEF Running
  <2>2. specs = wanted /\ RowsOf(specs)
    BY <1>1 DEF RowsOf, Nothing, NoDef
  <2> QED BY <2>1, <2>2 DEF AloneInv
<1> QED BY <1>11, <1>12, <1>13, <1>14, <1>15 DEF DeckInv

LEMMA DeckSteps == DeckInv /\ [DeckNext]_deckVars => DeckInv'
<1>1. ASSUME DeckInv, UNCHANGED deckVars PROVE DeckInv'
  <2>1. CallTypes'
    BY <1>1 DEF DeckInv, CallTypes, deckVars
  <2>2. RetiredInv'
    BY <1>1 DEF DeckInv, RetiredInv, RetiredFits, Retires, Op, Id, deckVars
  <2>3. RowsInv'
    BY SMTT(60), <1>1 DEF DeckInv, RowsInv, Op, Id, Defines, deckVars
  <2>4. PointsInv'
    <3>1. \A o \in Ops : \A t : Contested(o, t)' <=> Contested(o, t)
      BY <1>1 DEF Contested, deckVars
    <3>2. UNCHANGED <<points, ops, alone>>
      BY SMTT(60), <1>1 DEF deckVars
    <3> QED BY <1>1, <3>1, <3>2 DEF DeckInv, PointsInv, OnePointAWeek, KnownFits, NewFits, StoredFits, Done, Lies, Stored, Id
  <2>5. AloneInv'
    BY <1>1 DEF DeckInv, AloneInv, StageFits, RowsOf, Due, Asked, Op, Id, Defines, Running, Writes, deckVars
  <2> QED BY <2>1, <2>2, <2>3, <2>4, <2>5 DEF DeckInv
<1>2. ASSUME DeckInv, DeckNext PROVE DeckInv'
  <2>1. PICK o \in Ops : CallStep(o)
    BY <1>2 DEF DeckNext
  <2>2. CASE Start(o)
    BY <1>2, <2>2, StartKeeps
  <2>3. CASE EditRow(o)
    BY <1>2, <2>3, EditRowKeeps
  <2>4. CASE EditMeta(o)
    BY <1>2, <2>4, EditMetaKeeps
  <2>5. CASE List(o)
    BY <1>2, <2>5, ListKeeps
  <2>6. CASE ListDefs(o)
    BY <1>2, <2>6, ListDefsKeeps
  <2>7. CASE Load(o)
    BY <1>2, <2>7, LoadKeeps
  <2>8. CASE Row(o)
    BY <1>2, <2>8, RowKeeps
  <2>9. CASE Write(o)
    BY <1>2, <2>9, WriteKeeps
  <2>10. CASE Save(o)
    BY <1>2, <2>10, SaveKeeps
  <2>11. CASE ReadDefs(o)
    BY <1>2, <2>11, ReadDefsKeeps
  <2>12. CASE Move(o)
    BY <1>2, <2>12, MoveKeeps
  <2>13. CASE ReadPoints(o)
    BY <1>2, <2>13, ReadPointsKeeps
  <2>14. CASE Put(o)
    BY <1>2, <2>14, PutKeeps
  <2>15. CASE PutDone(o)
    BY <1>2, <2>15, PutDoneKeeps
  <2>16. CASE AnswerCall(o)
    BY <1>2, <2>16, AnswerCallKeeps
  <2>17. CASE ViewDefs(o)
    BY <1>2, <2>17, ViewDefsKeeps
  <2>18. CASE ViewMeta(o)
    BY <1>2, <2>18, ViewMetaKeeps
  <2> QED BY <2>1, <2>2, <2>3, <2>4, <2>5, <2>6, <2>7, <2>8, <2>9, <2>10, <2>11, <2>12, <2>13, <2>14, <2>15, <2>16, <2>17,
             <2>18 DEF CallStep
<1> QED BY <1>1, <1>2

LEMMA DeckIs == DeckInv => DeckHolds
<1> SUFFICES ASSUME DeckInv PROVE DeckHolds
  OBVIOUS
<1>1. DefinedIsShown
  <2>1. ASSUME NEW m \in Metrics, NEW o \in Ops, ops[o].at = "ok", Op(o) \in {"define", "edit", "accept"}, Id(o) = m,
               \A p \in Ops : ~(Op(p) = "retire" /\ Id(p) = m)
        PROVE  m \in Shown(specs, defs)
    <3>1. defs[m] # NoDef
      BY <2>1 DEF DeckInv, RowsInv, Defines
    <3>2. specs[m].life # "retired"
      BY <2>1 DEF DeckInv, RetiredInv, RetiredFits, Retires
    <3> QED BY <3>1, <3>2 DEF Shown
  <2> QED BY <2>1 DEF DefinedIsShown, AnsweredOf, Stands
<1>2. NeverBoth
  BY DEF DeckInv, CallTypes, AskFits, NeverBoth
<1>3. OnePointAWeek
  BY DEF DeckInv, PointsInv
<1>4. DeckIsAsAsked
  BY DEF DeckInv, AloneInv, DeckIsAsAsked, Quiet, RowsOf
<1> QED BY <1>1, <1>2, <1>3, <1>4 DEF DeckHolds

(* DeckHolds, for any metrics, starters, calls and requests: a metric somebody *)
(* was told is defined and nobody asked to retire has its row and is on the    *)
(* deck, no view offers a starter for a metric it shows, imports that do not   *)
(* overlap store a week once, and calls one after the other leave the deck as  *)
(* they asked.                                                                 *)
THEOREM DeckStaysTrue == DeckSpec => []DeckHolds
<1> QED BY DeckStarts, DeckSteps, DeckIs, PTL DEF DeckSpec

(* Every value an answered import gave is stored when it is answered, unless   *)
(* another call was storing the same week, or the import gave the week twice.  *)
THEOREM ImportsAreStored == DeckSpec => ImportedIsStored
<1>1. ASSUME DeckInv, NEW o \in Ops, Stands(o, "audit"), NEW k \in DOMAIN ops[o].req.points
      PROVE  \/ Twice(ops[o].req, k) \/ Contested(o, ops[o].req.points[k].at)
             \/ Stored(ops[o].req.id, ops[o].req.points[k])
  <2>1. StoredFits(o) /\ ops[o].todo = <<>> /\ AList(ops[o].req.points)
    BY <1>1 DEF Stands, DeckInv, PointsInv, CallTypes, AskFits, ShapeFits
  <2>2. DOMAIN ops[o].req.points = 1..Len(ops[o].req.points) /\ Len(ops[o].req.points) \in Nat /\ Len(<<>>) = 0
    BY <2>1, LenProperties, EmptySeq DEF AList
  <2>3. k \in Done(o)
    BY <2>1, <2>2 DEF Done
  <2> QED BY SMTT(60), <2>1, <2>3 DEF StoredFits, Id
<1>2. DeckInv => [\A o \in Ops : Stands(o, "audit") /\ ops'[o].at = "ok" =>
                    LET r == ops[o].req IN
                    \A k \in DOMAIN r.points :
                      Twice(r, k) \/ Contested(o, r.points[k].at) \/ Stored(r.id, r.points[k])]_deckVars
  BY <1>1
<1> QED BY <1>2, DeckStarts, DeckSteps, PTL DEF DeckSpec, ImportedIsStored
-----------------------------------------------------------------------------
(* The writers of labels (Clusters).  While no two have run side by side, at   *)
(* most one is between its reads and its last write, and whom an ensure still  *)
(* has to write has no label.                                                  *)
Labelling(j) == jobs[j].at \in {"activity", "write"}
JobFits(j) ==
  /\ jobs[j] = [at |-> jobs[j].at, kind |-> jobs[j].kind, ids |-> jobs[j].ids, names |-> jobs[j].names]
  /\ jobs[j].at \in {"idle", "activity", "write", "done"}
  /\ jobs[j].ids \subseteq DOMAIN Person /\ (Labelling(j) => jobs[j].ids # {})
OneAtATime == ~mixed => \A j, k \in Labellers : Labelling(j) /\ Labelling(k) => j = k
EnsureFindsNone ==
  ~mixed => \A j \in Labellers : Labelling(j) /\ jobs[j].kind = "ensure" => \A p \in jobs[j].ids : label[p] = none
LabelsInv ==
  /\ DOMAIN label = DOMAIN Person /\ label = [p \in DOMAIN Person |-> label[p]]
  /\ jobs = [j \in Labellers |-> jobs[j]] /\ mixed \in BOOLEAN
  /\ (\A j \in Labellers : JobFits(j)) /\ OneAtATime /\ EnsureFindsNone

LEMMA LabelsBegin == ClustersInit => LabelsInv
<1> SUFFICES ASSUME ClustersInit PROVE LabelsInv
  OBVIOUS
<1>1. \A j \in Labellers : jobs[j] = Waiting
  BY DEF ClustersInit
<1>2. \A j \in Labellers : JobFits(j) /\ ~Labelling(j)
  BY <1>1 DEF JobFits, Labelling, Waiting
<1>3. jobs = [j \in Labellers |-> jobs[j]] /\ mixed \in BOOLEAN
  BY DEF ClustersInit
<1>4. DOMAIN label = DOMAIN Person /\ label = [p \in DOMAIN Person |-> label[p]]
  BY DEF ClustersInit
<1> QED
  BY <1>2, <1>3, <1>4 DEF LabelsInv, OneAtATime, EnsureFindsNone

(* One job moves, and no label of another's changes.                           *)
LEMMA OtherJobs ==
  ASSUME LabelsInv, NEW j \in Labellers, NEW new, jobs' = [jobs EXCEPT ![j] = new]
  PROVE  /\ jobs' = [k \in Labellers |-> jobs'[k]] /\ jobs'[j] = new
         /\ \A k \in Labellers : k # j => jobs'[k] = jobs[k] /\ JobFits(k)' /\ (Labelling(k)' <=> Labelling(k))
<1>1. jobs = [k \in Labellers |-> jobs[k]] /\ \A k \in Labellers : JobFits(k)
  BY DEF LabelsInv
<1>2. jobs' = [k \in Labellers |-> IF k = j THEN new ELSE jobs[k]]
  BY <1>1
<1>3. \A k \in Labellers : k # j => jobs'[k] = jobs[k]
  BY <1>2
<1> QED
  BY <1>1, <1>2, <1>3 DEF JobFits, Labelling

LEMMA ReadUsersKeeps ==
  ASSUME LabelsInv, NEW j \in Labellers, NEW kind, ReadUsers(j, kind) PROVE LabelsInv'
<1> DEFINE pending == {p \in DOMAIN Person : kind = "refresh" \/ label[p] = none}
           new == IF pending = {} THEN Through
                  ELSE [Waiting EXCEPT !.at = "activity", !.kind = kind, !.ids = pending]
<1>1. jobs' = [jobs EXCEPT ![j] = new] /\ label' = label /\ mixed' = (mixed \/ Beside)
  BY DEF ReadUsers
<1>2. /\ pending = {} => new = [at |-> "done", kind |-> none, ids |-> {}, names |-> <<>>]
      /\ pending # {} => new = [at |-> "activity", kind |-> kind, ids |-> pending, names |-> <<>>]
  BY DEF Waiting, Through
<1> HIDE DEF new
<1>3. /\ jobs' = [k \in Labellers |-> jobs'[k]] /\ jobs'[j] = new
      /\ \A k \in Labellers : k # j => jobs'[k] = jobs[k] /\ JobFits(k)' /\ (Labelling(k)' <=> Labelling(k))
  BY <1>1, OtherJobs
<1>4. JobFits(j)'
  <2>1. CASE pending = {}
    BY <1>2, <1>3, <2>1 DEF JobFits, Labelling
  <2>2. CASE pending # {}
    BY <1>2, <1>3, <2>2 DEF JobFits, Labelling
  <2> QED
    BY <2>1, <2>2
<1>5. ~mixed' => ~mixed /\ \A k \in Labellers : k # j => ~Labelling(k)'
  BY <1>1, <1>3 DEF Beside, Labelling
<1>6. OneAtATime'
  BY <1>5 DEF OneAtATime
<1>7. EnsureFindsNone'
  <2> SUFFICES ASSUME ~mixed', NEW k \in Labellers, Labelling(k)', jobs'[k].kind = "ensure", NEW p \in jobs'[k].ids
               PROVE  label'[p] = none
    BY DEF EnsureFindsNone
  <2>1. k = j
    BY <1>5
  <2>2. CASE pending = {}
    BY <1>2, <1>3, <2>1, <2>2 DEF Labelling
  <2>3. CASE pending # {}
    <3>1. kind = "ensure" /\ p \in pending
      BY <1>2, <1>3, <2>1, <2>3
    <3> QED
      BY <1>1, <3>1
  <2> QED
    BY <2>2, <2>3
<1>8. mixed' \in BOOLEAN
  BY <1>1 DEF LabelsInv, Beside
<1> QED
  BY <1>1, <1>3, <1>4, <1>6, <1>7, <1>8 DEF LabelsInv

LEMMA ReadActivityKeeps ==
  ASSUME LabelsInv, NEW j \in Labellers, ReadActivity(j) PROVE LabelsInv'
<1> DEFINE names == [p \in jobs[j].ids |-> Archetype(p, dayNow)]
           new == [at |-> "write", kind |-> jobs[j].kind, ids |-> jobs[j].ids, names |-> names]
<1>1. jobs[j].at = "activity" /\ label' = label /\ mixed' = mixed /\ JobFits(j)
  BY DEF ReadActivity, LabelsInv
<1>2. jobs' = [jobs EXCEPT ![j] = new]
  BY DEF ReadActivity
<1> HIDE DEF names
<1>3. /\ jobs' = [k \in Labellers |-> jobs'[k]] /\ jobs'[j] = new
      /\ \A k \in Labellers : k # j => jobs'[k] = jobs[k] /\ JobFits(k)' /\ (Labelling(k)' <=> Labelling(k))
  BY <1>2, OtherJobs
<1>4. JobFits(j)'
  BY <1>1, <1>3 DEF JobFits, Labelling
<1>5. \A k \in Labellers : /\ Labelling(k)' <=> Labelling(k)
                      /\ jobs'[k].ids = jobs[k].ids /\ jobs'[k].kind = jobs[k].kind
  BY <1>1, <1>3 DEF Labelling
<1>6. OneAtATime' /\ EnsureFindsNone'
  BY <1>1, <1>5 DEF LabelsInv, OneAtATime, EnsureFindsNone
<1> QED
  BY <1>1, <1>3, <1>4, <1>6 DEF LabelsInv

LEMMA FirstIsOne == \A ids : ids # {} => FirstRead(ids) \in ids
BY DEF FirstRead

LEMMA WriteOneKeeps ==
  ASSUME LabelsInv, NEW j \in Labellers, WriteOne(j) PROVE LabelsInv'
<1> DEFINE p == FirstRead(jobs[j].ids)
           rest == jobs[j].ids \ {p}
           new == IF rest = {} THEN Through ELSE [jobs[j] EXCEPT !.ids = rest]
<1>1. /\ jobs[j].at = "write" /\ jobs' = [jobs EXCEPT ![j] = new] /\ mixed' = mixed
      /\ label' = [label EXCEPT ![p] = jobs[j].names[p]] /\ JobFits(j)
  BY DEF WriteOne, LabelsInv
<1>2. /\ rest = {} => new = [at |-> "done", kind |-> none, ids |-> {}, names |-> <<>>]
      /\ rest # {} => new = [at |-> "write", kind |-> jobs[j].kind, ids |-> rest, names |-> jobs[j].names]
  BY <1>1 DEF Waiting, Through, JobFits
<1> HIDE DEF new, p
<1>3. /\ jobs' = [k \in Labellers |-> jobs'[k]] /\ jobs'[j] = new
      /\ \A k \in Labellers : k # j => jobs'[k] = jobs[k] /\ JobFits(k)' /\ (Labelling(k)' <=> Labelling(k))
  BY <1>1, OtherJobs
<1>4. Labelling(j)
  BY <1>1 DEF Labelling
<1>5. JobFits(j)' /\ (Labelling(j)' => jobs'[j].ids = rest /\ jobs'[j].kind = jobs[j].kind)
  <2>1. CASE rest = {}
    BY <1>2, <1>3, <2>1 DEF JobFits, Labelling
  <2>2. CASE rest # {}
    <3>1. rest \subseteq DOMAIN Person
      BY <1>1 DEF JobFits
    <3> QED
      BY <1>2, <1>3, <2>2, <3>1 DEF JobFits, Labelling
  <2> QED
    BY <2>1, <2>2
<1>6. OneAtATime'
  BY <1>1, <1>3, <1>4 DEF LabelsInv, OneAtATime
<1>7. label' = [q \in DOMAIN Person |-> label'[q]] /\ \A q \in rest \cap DOMAIN Person : label'[q] = label[q]
  BY <1>1 DEF LabelsInv
<1>8. EnsureFindsNone'
  <2> SUFFICES ASSUME ~mixed', NEW k \in Labellers, Labelling(k)', jobs'[k].kind = "ensure", NEW q \in jobs'[k].ids
               PROVE  label'[q] = none
    BY DEF EnsureFindsNone
  <2>1. k = j
    BY <1>1, <1>3, <1>4 DEF LabelsInv, OneAtATime
  <2>2. q \in rest /\ jobs[j].kind = "ensure"
    BY <1>5, <2>1
  <2>3. q \in jobs[j].ids /\ q \in DOMAIN Person
    BY <1>1, <2>2 DEF JobFits
  <2>4. label[q] = none
    BY <1>1, <1>4, <2>2, <2>3 DEF LabelsInv, EnsureFindsNone
  <2> QED
    BY <1>7, <2>2, <2>3, <2>4
<1> QED
  BY <1>1, <1>3, <1>5, <1>6, <1>7, <1>8 DEF LabelsInv

LEMMA LabelStep == ASSUME LabelsInv, [ClustersNext]_clusterVars PROVE LabelsInv'
<1>1. CASE NextDay \/ UNCHANGED clusterVars
  BY <1>1 DEF NextDay, clusterVars, LabelsInv, JobFits, OneAtATime, EnsureFindsNone, Labelling
<1>2. ASSUME NEW j \in Labellers, NEW kind \in {"refresh", "ensure"}, ReadUsers(j, kind) PROVE LabelsInv'
  BY <1>2, ReadUsersKeeps
<1>3. ASSUME NEW j \in Labellers, ReadActivity(j) \/ WriteOne(j) PROVE LabelsInv'
  BY <1>3, ReadActivityKeeps, WriteOneKeeps
<1> QED
  BY <1>1, <1>2, <1>3 DEF ClustersNext

(* For every set of people, whatever their activity, and any number of calls:  *)
(* a read that fills in missing labels overwrites none, unless another writer  *)
(* ran beside it (ensureWorkspaceClusters, writeAssignments).                  *)
THEOREM EnsureFillsOnly == ClustersSpec => EnsureOnlyFills
<1>1. ClustersInit => LabelsInv
  BY LabelsBegin
<1>2. LabelsInv /\ [ClustersNext]_clusterVars => LabelsInv'
  BY LabelStep
<1>3. LabelsInv => [\A j \in Labellers :
        WriteOne(j) /\ jobs[j].kind = "ensure" /\ ~mixed => label[FirstRead(jobs[j].ids)] = none]_clusterVars
  <2> SUFFICES ASSUME LabelsInv, NEW j \in Labellers, WriteOne(j), jobs[j].kind = "ensure", ~mixed
               PROVE  label[FirstRead(jobs[j].ids)] = none
    OBVIOUS
  <2>1. Labelling(j) /\ JobFits(j) /\ EnsureFindsNone
    BY DEF WriteOne, Labelling, LabelsInv
  <2>2. FirstRead(jobs[j].ids) \in jobs[j].ids
    BY <2>1, FirstIsOne DEF JobFits
  <2> QED
    BY <2>1, <2>2 DEF EnsureFindsNone
<1> QED
  BY <1>1, <1>2, <1>3, PTL DEF ClustersSpec, EnsureOnlyFills
=============================================================================
