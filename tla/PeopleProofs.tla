---------------------------- MODULE PeopleProofs ----------------------------
(* The tombstones of People, for any people, writers, deletions and failures: *)
(* a deleted person's rows come only from writers that straddled the          *)
(* deletion, and no name is written by a request that found it tombstoned.    *)
EXTENDS People, TLAPS

USE PeopleAssumption

(* Every identifier is one of Ids, and the id itself is among them.           *)
LEMMA Identifiers ==
  ASSUME NEW p \in Persons, NEW e \in MailOf
  PROVE  /\ IdentifiersForPerson(p, e) \subseteq Ids /\ p \in IdentifiersForPerson(p, e)
         /\ IdentifiersForPerson(p, NoEmail) \subseteq IdentifiersForPerson(p, e)
  BY DEF IdentifiersForPerson, MailOf, Ids

(* A handler that has arrived is a whole record.                              *)
LEMMA Whole ==
  ASSUME PeopleTypeOK
  PROVE  /\ \A w \in Writers : writer[w].pc # "new" => writer[w] \in Writer
         /\ \A d \in Deletions : deletion[d].pc # "new" => deletion[d] \in Deletion
  BY DEF PeopleTypeOK, NewWriter, NewDeletion

(* Moving a handler on keeps it whole.                                        *)
LEMMA WriterMoves ==
  ASSUME PeopleTypeOK, NEW w \in Writers, NEW pc, writer[w].pc # "new",
         [writer[w] EXCEPT !.pc = pc] \in Writer, WGoto(w, pc)
  PROVE  writer' \in [Writers -> Writer \cup {NewWriter}]
  BY DEF PeopleTypeOK, WGoto

LEMMA WriterTypes ==
  ASSUME PeopleTypeOK, NEW w \in Writers, WriterStep(w)
  PROVE  writer' \in [Writers -> Writer \cup {NewWriter}]
<1> DEFINE pcs == {"check", "activity", "lookup", "user", "update", "transaction",
                   "revenue", "recheck", "subEvent", "audit", "answered", "dropped",
                   "failed"}
<1>1. ASSUME writer[w].pc # "new", NEW pc \in pcs
      PROVE  [writer[w] EXCEPT !.pc = pc] \in Writer
  <2>1. writer[w] \in Writer
    BY <1>1, Whole
  <2> QED BY <2>1 DEF Writer
<1>2. ASSUME NEW pc \in pcs, WGoto(w, pc), writer[w].pc # "new"
      PROVE  writer' \in [Writers -> Writer \cup {NewWriter}]
  BY <1>1, <1>2, WriterMoves
<1>3. CASE Arrive(w)
  <2>1. PICK k \in Kinds, p \in Persons, e \in MailOf, x \in Events \cup {w} :
          writer' = [writer EXCEPT ![w] =
            [pc |-> "check", kind |-> k, person |-> p, email |-> e, ext |-> x,
             user |-> FALSE, began |-> tombstones]]
    BY ZenonT(60), <1>3 DEF Arrive, MailOf
  <2>2. [pc |-> "check", kind |-> k, person |-> p, email |-> e, ext |-> x,
         user |-> FALSE, began |-> tombstones] \in Writer
    BY DEF Writer, PeopleTypeOK
  <2> QED BY <2>1, <2>2 DEF PeopleTypeOK
<1>4. CASE Check(w)
  <2>1. writer[w] \in Writer
    BY <1>4, Whole DEF Check, WAt
  <2>2. PICK u \in BOOLEAN, pc \in pcs :
          writer' = [writer EXCEPT ![w].user = u, ![w].pc = pc]
    BY <1>4 DEF Check
  <2>3. [writer[w] EXCEPT !.user = u, !.pc = pc] \in Writer
    BY <2>1 DEF Writer
  <2> QED BY <2>2, <2>3 DEF PeopleTypeOK
<1>5. CASE InsertActivity(w)
  BY <1>2, <1>5 DEF InsertActivity, WAt
<1>6. CASE LookupUser(w)
  BY <1>2, <1>6 DEF LookupUser, WAt
<1>7. CASE InsertUser(w)
  BY <1>2, <1>7 DEF InsertUser, WAt
<1>8. CASE UpdateUser(w)
  BY <1>2, <1>8 DEF UpdateUser, WAt
<1>9. CASE WriteBatch(w)
  BY <1>2, <1>9 DEF WriteBatch, WAt
<1>10. CASE UpsertRevenue(w)
  BY <1>2, <1>10 DEF UpsertRevenue, WAt
<1>11. CASE Recheck(w)
  BY <1>2, <1>11 DEF Recheck, WAt
<1>12. CASE InsertSubEvent(w)
  BY <1>2, <1>12 DEF InsertSubEvent, WAt
<1>13. CASE AuditWrite(w)
  BY <1>2, <1>13 DEF AuditWrite, WAt
<1>14. CASE WriterFails(w)
  BY <1>2, <1>14 DEF WriterFails
<1> QED BY <1>3, <1>4, <1>5, <1>6, <1>7, <1>8, <1>9, <1>10, <1>11, <1>12, <1>13, <1>14
        DEF WriterStep

(* The rows a writer leaves are rows of their tables.                         *)
LEMMA WriterRows ==
  ASSUME PeopleTypeOK, NEW w \in Writers, WriterStep(w)
  PROVE  /\ users' \in [Persons -> User] /\ revenue' \in [Persons -> Authors \cup {Nobody}]
         /\ activity' \subseteq EventRow /\ subEvents' \subseteq EventRow
<1>1. ASSUME writer[w].pc # "new"
      PROVE  /\ [email |-> writer[w].email, by |-> w] \in User
             /\ [person |-> writer[w].person, ext |-> writer[w].ext, by |-> w] \in EventRow
             /\ writer[w].person \in Persons
  <2>1. writer[w] \in Writer
    BY <1>1, Whole
  <2> QED BY <2>1 DEF Writer, User, EventRow, Authors
<1>2. CASE Arrive(w) \/ Check(w) \/ LookupUser(w) \/ Recheck(w) \/ AuditWrite(w)
           \/ WriterFails(w)
  BY <1>2 DEF Arrive, Check, LookupUser, Recheck, AuditWrite, WriterFails, tables, PeopleTypeOK
<1>3. CASE InsertActivity(w)
  BY <1>1, <1>3 DEF InsertActivity, WAt, Insert, PeopleTypeOK
<1>4. CASE InsertUser(w)
  BY <1>1, <1>4 DEF InsertUser, WAt, PeopleTypeOK
<1>5. CASE UpdateUser(w)
  BY <1>1, <1>5 DEF UpdateUser, WAt, PeopleTypeOK
<1>6. CASE WriteBatch(w)
  BY <1>1, <1>6 DEF WriteBatch, WAt, Insert, PeopleTypeOK
<1>7. CASE UpsertRevenue(w)
  BY <1>1, <1>7 DEF UpsertRevenue, WAt, Authors, PeopleTypeOK
<1>8. CASE InsertSubEvent(w)
  BY <1>1, <1>8 DEF InsertSubEvent, WAt, Insert, PeopleTypeOK
<1> QED BY <1>2, <1>3, <1>4, <1>5, <1>6, <1>7, <1>8 DEF WriterStep

LEMMA DeletionTypes ==
  ASSUME PeopleTypeOK, NEW d \in Deletions, DeletionStep(d)
  PROVE  /\ deletion' \in [Deletions -> Deletion \cup {NewDeletion}]
         /\ tombstones' \subseteq Ids
         /\ users' \in [Persons -> User] /\ revenue' \in [Persons -> Authors \cup {Nobody}]
         /\ activity' \subseteq EventRow /\ subEvents' \subseteq EventRow
<1> DEFINE pcs == {"readUser", "readRevenue", "readActivity", "activity", "revenue",
                   "subEvents", "user", "tombstone", "refresh", "audit", "deleted",
                   "notFound", "failed"}
<1>1. ASSUME deletion[d].pc # "new"
      PROVE  deletion[d] \in Deletion
  BY <1>1, Whole
<1>2. ASSUME NEW pc \in pcs, DGoto(d, pc), deletion[d].pc # "new"
      PROVE  deletion' \in [Deletions -> Deletion \cup {NewDeletion}]
  <2>1. [deletion[d] EXCEPT !.pc = pc] \in Deletion
    BY <1>1, <1>2 DEF Deletion
  <2> QED BY <1>2, <2>1 DEF DGoto, PeopleTypeOK
<1>3. CASE StartDeletion(d)
  <2>1. PICK p \in Persons : deletion' = [deletion EXCEPT ![d] =
          [pc |-> "readUser", person |-> p, ids |-> {}, found |-> FALSE,
           done |-> {Old} \cup {w \in Writers : writer[w].pc \in Settled}]]
    BY <1>3 DEF StartDeletion
  <2>2. [pc |-> "readUser", person |-> p, ids |-> {}, found |-> FALSE,
         done |-> {Old} \cup {w \in Writers : writer[w].pc \in Settled}] \in Deletion
    BY DEF Deletion, Authors
  <2> QED BY <1>3, <2>1, <2>2 DEF StartDeletion, Reads, tables, PeopleTypeOK
<1>4. CASE ReadUser(d)
  <2>1. deletion[d].person \in Persons
    BY <1>1, <1>4 DEF ReadUser, DAt, Deletion
  <2>2. IdentifiersForPerson(deletion[d].person, users[deletion[d].person].email) \subseteq Ids
    BY <2>1, Identifiers DEF PeopleTypeOK, User
  <2>3. [deletion[d] EXCEPT !.pc = "readRevenue",
           !.found = users[deletion[d].person] # NoUser,
           !.ids = IdentifiersForPerson(deletion[d].person, users[deletion[d].person].email)]
        \in Deletion
    BY <1>1, <1>4, <2>2 DEF ReadUser, DAt, Deletion
  <2> QED BY <1>4, <2>3 DEF ReadUser, Reads, tables, PeopleTypeOK
<1>5. ASSUME NEW row \in BOOLEAN, NEW pc \in pcs, Found(d, row, pc), deletion[d].pc # "new"
      PROVE  deletion' \in [Deletions -> Deletion \cup {NewDeletion}]
  <2>1. [deletion[d] EXCEPT !.pc = pc, !.found = deletion[d].found \/ row] \in Deletion
    BY <1>1, <1>5 DEF Deletion
  <2> QED BY <1>5, <2>1 DEF Found, PeopleTypeOK
<1>6. CASE ReadRevenue(d)
  BY <1>5, <1>6 DEF ReadRevenue, DAt, Reads, tables, PeopleTypeOK
<1>7. CASE ReadActivity(d)
  BY <1>5, <1>7 DEF ReadActivity, DAt, Reads, tables, PeopleTypeOK
<1>8. CASE DeleteActivity(d)
  BY <1>2, <1>8 DEF DeleteActivity, DAt, Others, PeopleTypeOK
<1>9. CASE DeleteRevenue(d)
  BY <1>2, <1>9 DEF DeleteRevenue, DAt, PeopleTypeOK
<1>10. CASE DeleteSubEvents(d)
  BY <1>2, <1>10 DEF DeleteSubEvents, DAt, Others, PeopleTypeOK
<1>11. CASE DeleteUser(d)
  BY <1>2, <1>11 DEF DeleteUser, DAt, NoUser, User, MailOf, PeopleTypeOK
<1>12. CASE WriteTombstones(d)
  <2>1. deletion[d] \in Deletion
    BY <1>1, <1>12 DEF WriteTombstones, DAt
  <2> QED BY <1>2, <1>12, <2>1 DEF WriteTombstones, DAt, Deletion, tables, PeopleTypeOK
<1>13. CASE RefreshReadModels(d) \/ AuditDelete(d)
  BY <1>2, <1>13 DEF RefreshReadModels, AuditDelete, DAt, Reads, tables, PeopleTypeOK
<1>14. CASE DeletionFails(d)
  BY <1>2, <1>14 DEF DeletionFails, tables, PeopleTypeOK
<1> QED BY <1>3, <1>4, <1>6, <1>7, <1>8, <1>9, <1>10, <1>11, <1>12, <1>13, <1>14
        DEF DeletionStep

(* A writing step leaves the tombstones and the deletions alone, and at most  *)
(* counts a failure; a deleting step leaves the writers alone.                *)
LEMMA Frames ==
  ASSUME PeopleTypeOK
  PROVE  /\ \A w \in Writers : WriterStep(w) =>
              tombstones' = tombstones /\ deletion' = deletion /\ failures' \in 0..MaxFailures
         /\ \A d \in Deletions : DeletionStep(d) =>
              writer' = writer /\ failures' \in 0..MaxFailures /\ tombstones \subseteq tombstones'
<1>1. ASSUME NEW w \in Writers, WriterStep(w)
      PROVE  tombstones' = tombstones /\ deletion' = deletion /\ failures' \in 0..MaxFailures
  BY <1>1 DEF WriterStep, Arrive, Check, InsertActivity, LookupUser, InsertUser, UpdateUser,
     WriteBatch, UpsertRevenue, Recheck, InsertSubEvent, AuditWrite, WriterFails, WAt, PeopleTypeOK
<1>2. ASSUME NEW d \in Deletions, DeletionStep(d)
      PROVE  writer' = writer /\ failures' \in 0..MaxFailures /\ tombstones \subseteq tombstones'
  <2>1. CASE StartDeletion(d) \/ ReadUser(d) \/ ReadRevenue(d) \/ ReadActivity(d)
             \/ RefreshReadModels(d) \/ AuditDelete(d)
    BY <2>1 DEF StartDeletion, ReadUser, ReadRevenue, ReadActivity, RefreshReadModels,
       AuditDelete, DAt, Reads, PeopleTypeOK
  <2>2. CASE DeleteActivity(d) \/ DeleteRevenue(d) \/ DeleteSubEvents(d) \/ DeleteUser(d)
    BY <2>2 DEF DeleteActivity, DeleteRevenue, DeleteSubEvents, DeleteUser, DAt, PeopleTypeOK
  <2>3. CASE WriteTombstones(d)
    BY <2>3 DEF WriteTombstones, DAt, PeopleTypeOK
  <2>4. CASE DeletionFails(d)
    BY <2>4 DEF DeletionFails, PeopleTypeOK
  <2> QED BY <1>2, <2>1, <2>2, <2>3, <2>4 DEF DeletionStep
<1> QED BY <1>1, <1>2

LEMMA TypePreserved == PeopleTypeOK /\ [PeopleNext]_peopleVars => PeopleTypeOK'
<1> SUFFICES ASSUME PeopleTypeOK, [PeopleNext]_peopleVars PROVE PeopleTypeOK'
  OBVIOUS
<1>1. ASSUME NEW w \in Writers, WriterStep(w) PROVE PeopleTypeOK'
  BY <1>1, WriterTypes, WriterRows, Frames DEF PeopleTypeOK
<1>2. ASSUME NEW d \in Deletions, DeletionStep(d) PROVE PeopleTypeOK'
  BY <1>2, DeletionTypes, Frames DEF PeopleTypeOK
<1>3. CASE UNCHANGED peopleVars
  BY <1>3 DEF peopleVars, tables, PeopleTypeOK
<1> QED BY <1>1, <1>2, <1>3 DEF PeopleNext

-----------------------------------------------------------------------------
(* A handler that has arrived keeps the tombstones it found, and a settled    *)
(* one does nothing more.                                                     *)
Steady ==
  \A w \in Writers :
    /\ writer[w].pc # "new" => /\ writer'[w].pc # "new"
                               /\ writer'[w].began = writer[w].began
    /\ writer[w].pc \in Settled => writer'[w] = writer[w]

LEMMA SteadyStep == PeopleTypeOK /\ PeopleNext => Steady
<1> SUFFICES ASSUME PeopleTypeOK, PeopleNext PROVE Steady
  OBVIOUS
<1>1. ASSUME NEW w \in Writers, WriterStep(w) PROVE Steady
  <2>1. ASSUME NEW v \in Writers, v # w PROVE writer'[v] = writer[v]
    BY <1>1, <2>1 DEF WriterStep, Arrive, Check, InsertActivity, LookupUser, InsertUser,
       UpdateUser, WriteBatch, UpsertRevenue, Recheck, InsertSubEvent, AuditWrite,
       WriterFails, WGoto, PeopleTypeOK
  <2>2. writer[w].pc \notin Settled
    BY <1>1 DEF WriterStep, Arrive, Check, InsertActivity, LookupUser, InsertUser,
       UpdateUser, WriteBatch, UpsertRevenue, Recheck, InsertSubEvent, AuditWrite,
       WriterFails, WAt, Settled
  <2>3. ASSUME writer[w].pc # "new"
        PROVE  writer'[w].pc # "new" /\ writer'[w].began = writer[w].began
    <3>1. writer[w] \in Writer
      BY <2>3, Whole
    <3>2. ASSUME NEW pc, pc # "new", WGoto(w, pc)
          PROVE  writer'[w].pc # "new" /\ writer'[w].began = writer[w].began
      BY <3>1, <3>2 DEF WGoto, Writer, PeopleTypeOK
    <3>3. CASE Check(w)
      BY <3>1, <3>3 DEF Check, Writer, PeopleTypeOK
    <3>4. CASE ~Check(w)
      BY <1>1, <2>3, <3>2, <3>4 DEF WriterStep, Arrive, InsertActivity, LookupUser,
         InsertUser, UpdateUser, WriteBatch, UpsertRevenue, Recheck, InsertSubEvent,
         AuditWrite, WriterFails, WAt
    <3> QED BY <3>3, <3>4
  <2> QED BY <2>1, <2>2, <2>3 DEF Steady
<1>2. ASSUME NEW d \in Deletions, DeletionStep(d) PROVE Steady
  BY <1>2, Frames DEF Steady
<1> QED BY <1>1, <1>2 DEF PeopleNext

-----------------------------------------------------------------------------
(* NamesStayBarred and AuthorsArrived, row by row.                            *)
Barred(w, p, e) ==
  writer[w].pc # "new" /\ IdentifiersForPerson(p, e) \cap writer[w].began = {}

RowsBarred ==
  /\ \A p \in Persons : users[p].by \in Writers => Barred(users[p].by, p, users[p].email)
  /\ \A p \in Persons : revenue[p] \in Writers => Barred(revenue[p], p, NoEmail)
  /\ \A r \in activity \cup subEvents : r.by \in Writers => Barred(r.by, r.person, NoEmail)

LEMMA Rowwise ==
  ASSUME PeopleTypeOK
  PROVE  RowsBarred <=> NamesStayBarred /\ AuthorsArrived
<1>1. ASSUME RowsBarred PROVE NamesStayBarred /\ AuthorsArrived
  <2>1. ASSUME NEW p \in Persons, NEW w \in AuthorsOf(p) \cap Writers
        PROVE  Barred(w, p, NoEmail)
    <3>1. CASE users[p].by = w
      <4>1. users[p].email \in MailOf
        BY DEF PeopleTypeOK, User
      <4> QED BY <1>1, <2>1, <3>1, <4>1, Identifiers DEF RowsBarred, Barred
    <3>2. CASE revenue[p] = w
      BY <1>1, <2>1, <3>2 DEF RowsBarred
    <3>3. CASE \E r \in activity \cup subEvents : r.person = p /\ r.by = w
      BY <1>1, <2>1, <3>3 DEF RowsBarred
    <3> QED BY <2>1, <3>1, <3>2, <3>3 DEF AuthorsOf
  <2> QED BY <1>1, <2>1 DEF NamesStayBarred, AuthorsArrived, RowsBarred, Barred
<1>2. ASSUME NamesStayBarred, AuthorsArrived PROVE RowsBarred
  <2>1. ASSUME NEW p \in Persons, users[p].by \in Writers
        PROVE  Barred(users[p].by, p, users[p].email)
    <3>1. users[p].by \in AuthorsOf(p) \cap Writers
      BY <2>1 DEF AuthorsOf, Authors
    <3> QED BY <1>2, <2>1, <3>1 DEF NamesStayBarred, AuthorsArrived, Barred
  <2>2. ASSUME NEW p \in Persons, revenue[p] \in Writers
        PROVE  Barred(revenue[p], p, NoEmail)
    <3>1. revenue[p] \in AuthorsOf(p) \cap Writers
      BY <2>2 DEF AuthorsOf, Authors
    <3> QED BY <1>2, <2>2, <3>1 DEF NamesStayBarred, AuthorsArrived, Barred
  <2>3. ASSUME NEW r \in activity \cup subEvents, r.by \in Writers
        PROVE  Barred(r.by, r.person, NoEmail)
    <3>1. r.person \in Persons
      BY DEF PeopleTypeOK, EventRow
    <3>2. r.by \in AuthorsOf(r.person) \cap Writers
      BY <2>3 DEF AuthorsOf, Authors
    <3> QED BY <1>2, <2>3, <3>1, <3>2 DEF NamesStayBarred, AuthorsArrived, Barred
  <2> QED BY <2>1, <2>2, <2>3 DEF RowsBarred
<1> QED BY <1>1, <1>2

(* A row that a writer leaves was there, or is about the person of a handler  *)
(* past its check and carries the names that were checked.                    *)
Writing(w) == writer[w].pc \notin Settled \cup {"new", "check"} /\ Clear(w)

LEMMA WrittenRows ==
  ASSUME PeopleTypeOK, WritersClear, NEW w \in Writers, WriterStep(w)
  PROVE  /\ \A p \in Persons : users'[p] # users[p] =>
              /\ p = writer[w].person /\ Writing(w) /\ writer[w].user
              /\ users'[p] = [email |-> writer[w].email, by |-> w]
         /\ \A p \in Persons : revenue'[p] # revenue[p] =>
              p = writer[w].person /\ Writing(w) /\ revenue'[p] = w
         /\ \A r \in activity' \ activity :
              r.person = writer[w].person /\ Writing(w) /\ r.by = w
         /\ \A r \in subEvents' \ subEvents :
              r.person = writer[w].person /\ Writing(w) /\ r.by = w
<1> DEFINE past == {"activity", "user", "update", "transaction", "revenue", "subEvent"}
<1>1. ASSUME writer[w].pc \in past PROVE Writing(w)
  BY <1>1 DEF WritersClear, WriterClear, Writing, Settled
<1>2. CASE Arrive(w) \/ Check(w) \/ LookupUser(w) \/ Recheck(w) \/ AuditWrite(w)
           \/ WriterFails(w)
  BY <1>2 DEF Arrive, Check, LookupUser, Recheck, AuditWrite, WriterFails, tables
<1>3. CASE InsertActivity(w)
  BY <1>1, <1>3 DEF InsertActivity, WAt, Insert
<1>4. CASE InsertUser(w)
  <2>1. writer[w].user
    BY <1>4 DEF InsertUser, WAt, WritersClear, WriterClear
  <2> QED BY <1>1, <1>4, <2>1 DEF InsertUser, WAt, PeopleTypeOK
<1>5. CASE UpdateUser(w)
  <2>1. writer[w].user
    BY <1>5 DEF UpdateUser, WAt, WritersClear, WriterClear
  <2> QED BY <1>1, <1>5, <2>1 DEF UpdateUser, WAt, PeopleTypeOK
<1>6. CASE WriteBatch(w)
  BY <1>1, <1>6 DEF WriteBatch, WAt, Insert, PeopleTypeOK
<1>7. CASE UpsertRevenue(w)
  BY <1>1, <1>7 DEF UpsertRevenue, WAt, PeopleTypeOK
<1>8. CASE InsertSubEvent(w)
  BY <1>1, <1>8 DEF InsertSubEvent, WAt, Insert
<1> QED BY <1>2, <1>3, <1>4, <1>5, <1>6, <1>7, <1>8 DEF WriterStep

(* A deletion only takes rows out, and a user row only of its own person.     *)
LEMMA DeletedRows ==
  ASSUME PeopleTypeOK, NEW d \in Deletions, DeletionStep(d)
  PROVE  /\ \A p \in Persons : users'[p] # users[p] =>
              users'[p] = NoUser /\ p = deletion[d].person /\ deletion[d].pc = "user"
         /\ \A p \in Persons : revenue'[p] \in {revenue[p], Nobody}
         /\ activity' \subseteq activity /\ subEvents' \subseteq subEvents
<1>1. CASE StartDeletion(d) \/ ReadUser(d) \/ ReadRevenue(d) \/ ReadActivity(d)
           \/ RefreshReadModels(d) \/ AuditDelete(d)
  BY <1>1 DEF StartDeletion, ReadUser, ReadRevenue, ReadActivity, RefreshReadModels,
     AuditDelete, Reads, tables
<1>2. CASE WriteTombstones(d) \/ DeletionFails(d)
  BY <1>2 DEF WriteTombstones, DeletionFails, tables
<1>3. CASE DeleteActivity(d) \/ DeleteSubEvents(d)
  BY <1>3 DEF DeleteActivity, DeleteSubEvents, Others
<1>4. CASE DeleteRevenue(d)
  BY <1>4 DEF DeleteRevenue, PeopleTypeOK
<1>5. CASE DeleteUser(d)
  BY <1>5 DEF DeleteUser, DAt, PeopleTypeOK
<1> QED BY <1>1, <1>2, <1>3, <1>4, <1>5 DEF DeletionStep

LEMMA RowsBarredPreserved ==
  ASSUME PeopleTypeOK, PeopleNext, RowsBarred, WritersClear
  PROVE  RowsBarred'
<1> DEFINE BarredNow(w, p, e) ==
      writer'[w].pc # "new" /\ IdentifiersForPerson(p, e) \cap writer'[w].began = {}
<1>1. ASSUME NEW w \in Writers, NEW p, NEW e, Barred(w, p, e) PROVE BarredNow(w, p, e)
  BY <1>1, SteadyStep DEF Steady, Barred
<1> HIDE DEF BarredNow
<1>2. ASSUME /\ \A p \in Persons : users'[p].by \in Writers =>
                  BarredNow(users'[p].by, p, users'[p].email)
             /\ \A p \in Persons : revenue'[p] \in Writers => BarredNow(revenue'[p], p, NoEmail)
             /\ \A r \in activity' \cup subEvents' : r.by \in Writers =>
                  BarredNow(r.by, r.person, NoEmail)
      PROVE  RowsBarred'
  BY <1>2 DEF RowsBarred, Barred, BarredNow, IdentifiersForPerson
<1>3. ASSUME NEW w \in Writers, WriterStep(w) PROVE RowsBarred'
  <2>1. ASSUME Writing(w)
        PROVE  /\ BarredNow(w, writer[w].person, NoEmail)
               /\ writer[w].user => BarredNow(w, writer[w].person, writer[w].email)
    BY <1>1, <2>1 DEF Writing, Clear, Barred
  <2>2. ASSUME NEW p \in Persons, users'[p].by \in Writers
        PROVE  BarredNow(users'[p].by, p, users'[p].email)
    <3>1. CASE users'[p] = users[p]
      BY <1>1, <2>2, <3>1 DEF RowsBarred
    <3>2. CASE users'[p] # users[p]
      <4>1. /\ p = writer[w].person /\ Writing(w) /\ writer[w].user
            /\ users'[p] = [email |-> writer[w].email, by |-> w]
        BY <1>3, <3>2, WrittenRows
      <4> QED BY <2>1, <4>1
    <3> QED BY <3>1, <3>2
  <2>3. ASSUME NEW p \in Persons, revenue'[p] \in Writers
        PROVE  BarredNow(revenue'[p], p, NoEmail)
    <3>1. CASE revenue'[p] = revenue[p]
      BY <1>1, <2>3, <3>1 DEF RowsBarred
    <3>2. CASE revenue'[p] # revenue[p]
      <4>1. p = writer[w].person /\ Writing(w) /\ revenue'[p] = w
        BY <1>3, <3>2, WrittenRows
      <4> QED BY <2>1, <4>1
    <3> QED BY <3>1, <3>2
  <2>4. ASSUME NEW r \in activity' \cup subEvents', r.by \in Writers
        PROVE  BarredNow(r.by, r.person, NoEmail)
    <3>1. CASE r \in activity \cup subEvents
      BY <1>1, <2>4, <3>1 DEF RowsBarred
    <3>2. CASE r \notin activity \cup subEvents
      BY ZenonT(60), <1>3, <2>1, <3>2, WrittenRows
    <3> QED BY <3>1, <3>2
  <2> QED BY <1>2, <2>2, <2>3, <2>4
<1>4. ASSUME NEW d \in Deletions, DeletionStep(d) PROVE RowsBarred'
  <2>1. ASSUME NEW p \in Persons, users'[p].by \in Writers
        PROVE  BarredNow(users'[p].by, p, users'[p].email)
    BY <1>1, <1>4, <2>1, DeletedRows DEF RowsBarred, NoUser
  <2>2. ASSUME NEW p \in Persons, revenue'[p] \in Writers
        PROVE  BarredNow(revenue'[p], p, NoEmail)
    BY <1>1, <1>4, <2>2, DeletedRows DEF RowsBarred
  <2>3. ASSUME NEW r \in activity' \cup subEvents', r.by \in Writers
        PROVE  BarredNow(r.by, r.person, NoEmail)
    BY <1>1, <1>4, <2>3, DeletedRows DEF RowsBarred
  <2> QED BY <1>2, <2>1, <2>2, <2>3
<1> QED BY <1>3, <1>4 DEF PeopleNext

-----------------------------------------------------------------------------
(* A deletion that has begun keeps its person and what it found settled, and  *)
(* leaves the other deletions alone.                                          *)
LEMMA DeletionMoves ==
  ASSUME PeopleTypeOK, NEW d \in Deletions, DeletionStep(d)
  PROVE  /\ \A c \in Deletions \ {d} : deletion'[c] = deletion[c]
         /\ deletion'[d].pc # "new"
         /\ deletion[d].pc # "new" =>
              deletion'[d].person = deletion[d].person /\ deletion'[d].done = deletion[d].done
<1>1. CASE StartDeletion(d)
  BY <1>1 DEF StartDeletion, DAt, PeopleTypeOK
<1>2. ASSUME deletion[d].pc # "new" PROVE deletion[d] \in Deletion
  BY <1>2, Whole
<1>3. ASSUME NEW pc, pc # "new", DGoto(d, pc), deletion[d].pc # "new"
      PROVE  /\ \A c \in Deletions \ {d} : deletion'[c] = deletion[c]
             /\ deletion'[d].pc # "new"
             /\ deletion'[d].person = deletion[d].person
             /\ deletion'[d].done = deletion[d].done
  BY <1>2, <1>3 DEF DGoto, Deletion, PeopleTypeOK
<1>4. CASE ReadUser(d) \/ ReadRevenue(d) \/ ReadActivity(d)
  <2>1. deletion[d] \in Deletion
    BY <1>2, <1>4 DEF ReadUser, ReadRevenue, ReadActivity, DAt
  <2> QED BY <1>4, <2>1 DEF ReadUser, ReadRevenue, ReadActivity, Found, Deletion, PeopleTypeOK
<1>5. CASE DeleteActivity(d) \/ DeleteRevenue(d) \/ DeleteSubEvents(d)
           \/ WriteTombstones(d) \/ RefreshReadModels(d) \/ AuditDelete(d)
  BY <1>3, <1>5 DEF DeleteActivity, DeleteRevenue, DeleteSubEvents, WriteTombstones,
     RefreshReadModels, AuditDelete, DAt
<1>6. CASE DeleteUser(d) \/ DeletionFails(d)
  BY <1>3, <1>6 DEF DeleteUser, DeletionFails, DAt
<1> QED BY <1>1, <1>4, <1>5, <1>6 DEF DeletionStep

(* A person keeps a user row until a deletion of them has begun.              *)
LEMMA HasUserStays ==
  ASSUME PeopleTypeOK, WritersClear, PeopleNext, NEW p \in Persons, HasUser(p)
  PROVE  HasUser(p)'
<1>1. ASSUME NEW w \in Writers, WriterStep(w) PROVE HasUser(p)'
  <2>1. CASE users'[p] = users[p]
    BY <1>1, <2>1, Frames DEF HasUser, NoUser
  <2>2. CASE users'[p] # users[p]
    <3>1. users'[p] = [email |-> writer[w].email, by |-> w]
      BY <1>1, <2>2, WrittenRows
    <3> QED BY <3>1 DEF HasUser, NoUser
  <2> QED BY <2>1, <2>2
<1>2. ASSUME NEW d \in Deletions, DeletionStep(d) PROVE HasUser(p)'
  <2>1. CASE users[p] # NoUser /\ users'[p] = users[p]
    BY <2>1 DEF HasUser, NoUser
  <2>2. CASE users[p] # NoUser /\ users'[p] # users[p]
    BY <1>2, <2>2, DeletedRows, DeletionMoves DEF HasUser
  <2>3. CASE users[p] = NoUser
    BY <1>2, <2>3, DeletionMoves DEF HasUser
  <2> QED BY <2>1, <2>2, <2>3
<1> QED BY <1>1, <1>2 DEF PeopleNext

(* Whoever does not move stays clear: tombstones only grow.                   *)
LEMMA BystandersClear ==
  ASSUME PeopleTypeOK, WritersClear, PeopleNext, NEW v \in Writers, writer'[v] = writer[v]
  PROVE  WriterClear(v)'
<1>1. tombstones \subseteq tombstones'
  BY Frames DEF PeopleNext
<1>2. writer[v].pc # "new" => (HasUser(writer[v].person) => HasUser(writer[v].person)')
  BY HasUserStays, Whole DEF Writer
<1> QED BY <1>1, <1>2 DEF WritersClear, WriterClear, Clear, HasUser, IdentifiersForPerson

(* The handler that moves carries on with the names it checked, and what it   *)
(* answers for has a user.                                                    *)
LEMMA MoverClear ==
  ASSUME PeopleTypeOK, WritersClear, NEW w \in Writers, WriterStep(w)
  PROVE  WriterClear(w)'
<1> DEFINE HasUserNow(p) ==
      \/ users'[p] # NoUser
      \/ \E d \in Deletions : deletion'[d].pc # "new" /\ deletion'[d].person = p
<1>1. /\ tombstones' = tombstones /\ deletion' = deletion
      /\ WriterClear(w)
  BY Frames DEF WritersClear
<1>2. CASE Arrive(w)
  BY <1>1, <1>2 DEF Arrive, PeopleTypeOK, WriterClear, Settled, Clear
<1>3. ASSUME writer[w].pc # "new" PROVE writer[w] \in Writer
  BY <1>3, Whole
<1>4. CASE Check(w)
  <2> DEFINE r == writer[w]
  <2>1. r \in Writer /\ r.began \subseteq tombstones
    BY <1>1, <1>3, <1>4 DEF Check, WAt, WriterClear
  <2>2. PICK pc : writer' = [writer EXCEPT ![w].user = ~Matches(r.person, r.email), ![w].pc = pc]
             /\ pc = CASE r.kind \in {"batch", "csvUsers"} /\ ~Matches(r.person, NoEmail)
                            -> "transaction"
                      [] r.kind = "activities" /\ ~Matches(r.person, NoEmail) -> "activity"
                      [] r.kind = "event" /\ ~Matches(r.person, r.email) -> "activity"
                      [] r.kind = "identify" /\ ~Matches(r.person, r.email) -> "lookup"
                      [] r.kind = "person" /\ ~Matches(r.person, r.email) -> "user"
                      [] r.kind = "revenue" /\ ~Matches(r.person, r.email) -> "revenue"
                      [] OTHER -> "dropped"
    BY <1>4 DEF Check
  <2>3. writer'[w] = [r EXCEPT !.user = ~Matches(r.person, r.email), !.pc = pc]
    BY <2>2 DEF PeopleTypeOK
  <2>4. /\ writer'[w].pc = pc /\ writer'[w].user = ~Matches(r.person, r.email)
        /\ writer'[w].kind = r.kind /\ writer'[w].person = r.person
        /\ writer'[w].email = r.email /\ writer'[w].began = r.began
    BY <2>1, <2>3 DEF Writer
  <2>5. ~Matches(r.person, r.email) => ~Matches(r.person, NoEmail)
    BY <2>1, Identifiers DEF Writer, Matches
  <2>6. \A e : ~Matches(r.person, e) => IdentifiersForPerson(r.person, e) \cap r.began = {}
    BY SMTT(60), <2>1 DEF Matches
  <2>7. /\ pc \in {"transaction", "activity", "lookup", "user", "revenue", "dropped"}
        /\ pc # "dropped" => ~Matches(r.person, NoEmail)
        /\ pc \in {"lookup", "user"} => ~Matches(r.person, r.email) /\ r.kind \in Mailing
        /\ pc = "activity" => \/ r.kind = "event" /\ ~Matches(r.person, r.email)
                              \/ r.kind = "activities"
        /\ pc = "revenue" => r.kind = "revenue"
    BY <2>2, <2>5 DEF Mailing
  <2>8. Clear(w)' <=> /\ IdentifiersForPerson(r.person, NoEmail) \cap r.began = {}
                      /\ ~Matches(r.person, r.email) =>
                           IdentifiersForPerson(r.person, r.email) \cap r.began = {}
    BY <2>4 DEF Clear, IdentifiersForPerson
  <2> HIDE DEF r
  <2> QED BY <1>1, <2>1, <2>4, <2>6, <2>7, <2>8 DEF WriterClear, Settled
<1>5. ASSUME NEW pc, WGoto(w, pc), writer[w].pc \notin Settled \cup {"new", "check"},
             pc \notin {"new", "check"},
             pc \in {"lookup", "user", "update"} => writer[w].user /\ writer[w].kind \in Mailing,
             pc # "activity",
             pc \in {"revenue", "recheck", "subEvent"} => writer[w].kind = "revenue",
             pc \in {"update", "audit", "answered"} /\ writer[w].user /\ writer[w].kind \in Mailing
               => HasUserNow(writer[w].person)
      PROVE  WriterClear(w)'
  <2>1. writer'[w] = [writer[w] EXCEPT !.pc = pc] /\ writer[w] \in Writer
    BY <1>3, <1>5 DEF WGoto, PeopleTypeOK
  <2>2. /\ writer'[w].pc = pc /\ writer'[w].user = writer[w].user
        /\ writer'[w].kind = writer[w].kind /\ writer'[w].person = writer[w].person
        /\ writer'[w].email = writer[w].email /\ writer'[w].began = writer[w].began
    BY <2>1 DEF Writer
  <2>3. Clear(w)'
    BY <1>1, <1>5, <2>2 DEF WriterClear, Clear, IdentifiersForPerson
  <2>4. HasUserNow(writer'[w].person) <=> HasUser(writer[w].person)'
    BY DEF HasUser, NoUser
  <2>5. writer[w].began \subseteq tombstones
    BY <1>1, <1>5 DEF WriterClear
  <2> QED BY <1>1, <1>5, <2>2, <2>3, <2>4, <2>5 DEF WriterClear
<1>6. ASSUME users'[writer[w].person] # NoUser PROVE HasUserNow(writer[w].person)
  BY <1>6
<1>7. ASSUME HasUser(writer[w].person), users' = users PROVE HasUserNow(writer[w].person)
  BY <1>1, <1>7 DEF HasUser
<1>8. CASE InsertActivity(w)
  BY <1>1, <1>5, <1>8 DEF InsertActivity, WAt, WriterClear, Settled, Mailing
<1>9. CASE LookupUser(w)
  BY <1>1, <1>5, <1>6, <1>9 DEF LookupUser, WAt, WriterClear, Settled, tables
<1>10. CASE InsertUser(w)
  <2>1. users'[writer[w].person] # NoUser
    BY <1>3, <1>10 DEF InsertUser, WAt, NoUser, PeopleTypeOK, Writer
  <2> QED BY <1>1, <1>5, <1>6, <1>10, <2>1 DEF InsertUser, WAt, WriterClear, Settled
<1>11. CASE UpdateUser(w)
  <2>1. HasUserNow(writer[w].person)
    <3>1. HasUser(writer[w].person)
      BY <1>1, <1>11 DEF UpdateUser, WAt, WriterClear
    <3>2. users[writer[w].person] # NoUser => users'[writer[w].person] # NoUser
      BY <1>3, <1>11 DEF UpdateUser, WAt, NoUser, PeopleTypeOK, Writer
    <3> QED BY <1>1, <1>6, <3>1, <3>2 DEF HasUser
  <2> QED BY <1>5, <1>11, <2>1 DEF UpdateUser, WAt, Settled
<1>12. CASE WriteBatch(w)
  <2>1. writer[w].user => users'[writer[w].person] # NoUser
    BY <1>3, <1>12 DEF WriteBatch, WAt, NoUser, PeopleTypeOK, Writer
  <2> QED BY <1>5, <1>6, <1>12, <2>1 DEF WriteBatch, WAt, Settled
<1>13. CASE UpsertRevenue(w)
  BY <1>1, <1>5, <1>13 DEF UpsertRevenue, WAt, WriterClear, Settled, Mailing
<1>14. CASE Recheck(w) \/ InsertSubEvent(w)
  BY <1>1, <1>5, <1>14 DEF Recheck, InsertSubEvent, WAt, WriterClear, Settled, Mailing
<1>15. CASE AuditWrite(w)
  BY <1>1, <1>5, <1>7, <1>15 DEF AuditWrite, WAt, WriterClear, Settled, tables
<1>16. CASE WriterFails(w)
  <2>1. writer'[w] = [writer[w] EXCEPT !.pc = "failed"] /\ writer[w] \in Writer
    BY <1>3, <1>16 DEF WriterFails, WGoto, PeopleTypeOK
  <2> QED BY <1>1, <1>16, <2>1 DEF WriterFails, WriterClear, Settled, Writer
<1> QED BY <1>2, <1>4, <1>8, <1>9, <1>10, <1>11, <1>12, <1>13, <1>14, <1>15, <1>16
        DEF WriterStep

LEMMA WritersClearPreserved ==
  ASSUME PeopleTypeOK, WritersClear, PeopleNext
  PROVE  WritersClear'
<1>1. ASSUME NEW w \in Writers, WriterStep(w), NEW v \in Writers, v # w
      PROVE  writer'[v] = writer[v]
  BY <1>1 DEF WriterStep, Arrive, Check, InsertActivity, LookupUser, InsertUser,
     UpdateUser, WriteBatch, UpsertRevenue, Recheck, InsertSubEvent, AuditWrite,
     WriterFails, WGoto, PeopleTypeOK
<1>2. ASSUME NEW d \in Deletions, DeletionStep(d) PROVE writer' = writer
  BY <1>2, Frames
<1> QED BY <1>1, <1>2, MoverClear, BystandersClear DEF PeopleNext, WritersClear

-----------------------------------------------------------------------------
(* A writer brings no row back into what was swept: it had not settled.       *)
LEMMA WritersSweepNothing ==
  ASSUME PeopleTypeOK, WritersClear, Sweeps, NEW w \in Writers, WriterStep(w)
  PROVE  Sweeps'
<1> SUFFICES ASSUME NEW d \in Deletions PROVE Swept(d)'
  BY DEF Sweeps
<1>1. deletion' = deletion /\ tombstones' = tombstones /\ Swept(d)
  BY Frames DEF Sweeps
<1>2. CASE deletion[d].pc = "new"
  BY <1>1, <1>2 DEF Swept, UserSwept, SubEventsSwept, RevenueSwept, ActivitySwept
<1>3. CASE deletion[d].pc # "new"
  <2>1. deletion[d] \in Deletion
    BY <1>3, Whole
  <2>2. \A a \in deletion[d].done \cap Writers : writer'[a].pc \in Settled
    BY <1>1, <1>3, SteadyStep DEF Swept, Steady, PeopleNext
  <2>3. Writing(w) => w \notin deletion[d].done
    BY <1>1, <1>3 DEF Swept, Writing
  <2>4. NoneOf(activity, d) => NoneOf(activity, d)'
    BY ZenonT(60), <1>1, <2>3, WrittenRows DEF NoneOf
  <2>5. NoneOf(subEvents, d) => NoneOf(subEvents, d)'
    BY ZenonT(60), <1>1, <2>3, WrittenRows DEF NoneOf
  <2>6. revenue[deletion[d].person] \notin deletion[d].done =>
          revenue'[deletion[d].person] \notin deletion[d].done
    <3>1. CASE revenue'[deletion[d].person] = revenue[deletion[d].person]
      BY <3>1
    <3>2. CASE revenue'[deletion[d].person] # revenue[deletion[d].person]
      <4>1. Writing(w) /\ revenue'[deletion[d].person] = w
        BY ZenonT(60), <2>1, <3>2, WrittenRows DEF Deletion
      <4> QED BY <2>3, <4>1
    <3> QED BY <3>1, <3>2
  <2>7. users[deletion[d].person].by \notin deletion[d].done =>
          users'[deletion[d].person].by \notin deletion[d].done
    <3>1. CASE users'[deletion[d].person] = users[deletion[d].person]
      BY <3>1
    <3>2. CASE users'[deletion[d].person] # users[deletion[d].person]
      <4>1. Writing(w) /\ users'[deletion[d].person] = [email |-> writer[w].email, by |-> w]
        BY <2>1, <3>2, WrittenRows DEF Deletion
      <4> QED BY <2>3, <4>1
    <3> QED BY <3>1, <3>2
  <2> QED BY <1>1, <1>3, <2>2, <2>4, <2>5, <2>6, <2>7 DEF Swept, IdentifiersForPerson
<1> QED BY <1>2, <1>3

(* A deletion sweeps its own person's rows, and disturbs no other deletion.   *)
LEMMA DeletionsSweep ==
  ASSUME PeopleTypeOK, Sweeps, NEW d \in Deletions, DeletionStep(d)
  PROVE  Sweeps'
<1>1. /\ writer' = writer /\ tombstones \subseteq tombstones' /\ Swept(d)
      /\ \A c \in Deletions \ {d} : deletion'[c] = deletion[c]
  BY Frames, DeletionMoves DEF Sweeps
<1>2. ASSUME NEW c \in Deletions, c # d PROVE Swept(c)'
  <2>1. deletion'[c] = deletion[c] /\ Swept(c)
    BY <1>1, <1>2 DEF Sweeps
  <2>2. CASE deletion[c].pc = "new"
    BY <2>1, <2>2 DEF Swept, UserSwept, SubEventsSwept, RevenueSwept, ActivitySwept
  <2>3. CASE deletion[c].pc # "new"
    <3>1. deletion[c] \in Deletion
      BY <2>3, Whole
    <3>2. deletion[c].person \in Persons /\ Nobody \notin deletion[c].done
      BY <3>1 DEF Deletion, Authors
    <3>3. /\ NoneOf(activity, c) => NoneOf(activity, c)'
          /\ NoneOf(subEvents, c) => NoneOf(subEvents, c)'
      BY <2>1, DeletedRows DEF NoneOf
    <3>4. revenue[deletion[c].person] \notin deletion[c].done =>
            revenue'[deletion[c].person] \notin deletion[c].done
      BY <3>2, DeletedRows
    <3>5. users[deletion[c].person].by \notin deletion[c].done =>
            users'[deletion[c].person].by \notin deletion[c].done
      BY <3>2, DeletedRows DEF NoUser
    <3> QED BY <1>1, <2>1, <2>3, <3>3, <3>4, <3>5 DEF Swept, IdentifiersForPerson
  <2> QED BY <2>2, <2>3
<1>3. Swept(d)'
  <2>1. ASSUME deletion[d].pc # "new" PROVE deletion[d] \in Deletion
    BY <2>1, Whole
  <2>2. CASE StartDeletion(d)
    <3>1. PICK p \in Persons : deletion'[d] =
            [pc |-> "readUser", person |-> p, ids |-> {}, found |-> FALSE,
             done |-> {Old} \cup {w \in Writers : writer[w].pc \in Settled}]
      BY <2>2 DEF StartDeletion, PeopleTypeOK
    <3> QED BY <1>1, <3>1 DEF Swept, UserSwept, SubEventsSwept, RevenueSwept, ActivitySwept
  <2>3. CASE ReadUser(d)
    <3>1. /\ deletion'[d].pc = "readRevenue" /\ deletion'[d].done = deletion[d].done
          /\ deletion'[d].person = deletion[d].person /\ deletion[d].person \in Persons
          /\ deletion'[d].ids =
               IdentifiersForPerson(deletion[d].person, users[deletion[d].person].email)
      BY <2>1, <2>3 DEF ReadUser, DAt, Deletion, PeopleTypeOK
    <3>2. IdentifiersForPerson(deletion[d].person, NoEmail) \subseteq deletion'[d].ids
      BY <3>1, Identifiers DEF PeopleTypeOK, User
    <3> QED BY <1>1, <2>3, <3>1, <3>2 DEF Swept, UserSwept, SubEventsSwept, RevenueSwept,
            ActivitySwept, IdentifiersForPerson, ReadUser, DAt
  <2>4. ASSUME ReadRevenue(d) \/ ReadActivity(d)
        PROVE  /\ deletion'[d].pc \in {"readActivity", "activity"}
               /\ deletion[d].pc \in {"readRevenue", "readActivity"}
               /\ deletion'[d].done = deletion[d].done /\ deletion'[d].ids = deletion[d].ids
               /\ deletion'[d].person = deletion[d].person
    <3>1. deletion[d] \in Deletion
      BY <2>1, <2>4 DEF ReadRevenue, ReadActivity, DAt
    <3> QED BY <2>4, <3>1 DEF ReadRevenue, ReadActivity, DAt, Found, Deletion, PeopleTypeOK
  <2>5. CASE ReadRevenue(d) \/ ReadActivity(d)
    BY <1>1, <2>4, <2>5 DEF Swept, UserSwept, SubEventsSwept, RevenueSwept, ActivitySwept,
       IdentifiersForPerson
  <2>6. ASSUME NEW pc, DGoto(d, pc), deletion[d].pc # "new"
        PROVE  /\ deletion'[d].pc = pc
               /\ deletion'[d].done = deletion[d].done /\ deletion'[d].ids = deletion[d].ids
               /\ deletion'[d].person = deletion[d].person
    BY <2>1, <2>6 DEF DGoto, Deletion, PeopleTypeOK
  <2>7. deletion[d].pc # "new" =>
          deletion[d].person \in Persons /\ Nobody \notin deletion[d].done
    BY <2>1 DEF Deletion, Authors
  <2>8. CASE DeleteActivity(d)
    BY <1>1, <2>6, <2>8 DEF DeleteActivity, DAt, Others, NoneOf, Swept, UserSwept,
       SubEventsSwept, RevenueSwept, ActivitySwept, IdentifiersForPerson
  <2>9. CASE DeleteRevenue(d)
    BY <1>1, <2>6, <2>7, <2>9 DEF DeleteRevenue, DAt, NoneOf, Swept, UserSwept,
       SubEventsSwept, RevenueSwept, ActivitySwept, IdentifiersForPerson, PeopleTypeOK
  <2>10. CASE DeleteSubEvents(d)
    BY <1>1, <2>6, <2>10 DEF DeleteSubEvents, DAt, Others, NoneOf, Swept, UserSwept,
       SubEventsSwept, RevenueSwept, ActivitySwept, IdentifiersForPerson
  <2>11. CASE DeleteUser(d)
    BY <1>1, <2>6, <2>7, <2>11 DEF DeleteUser, DAt, NoUser, NoneOf, Swept, UserSwept,
       SubEventsSwept, RevenueSwept, ActivitySwept, IdentifiersForPerson, PeopleTypeOK
  <2>12. CASE WriteTombstones(d)
    BY <1>1, <2>6, <2>12 DEF WriteTombstones, DAt, tables, NoneOf, Swept, UserSwept,
       SubEventsSwept, RevenueSwept, ActivitySwept, IdentifiersForPerson
  <2>13. CASE RefreshReadModels(d) \/ AuditDelete(d)
    BY <1>1, <2>6, <2>13 DEF RefreshReadModels, AuditDelete, DAt, Reads, tables, NoneOf,
       Swept, UserSwept, SubEventsSwept, RevenueSwept, ActivitySwept, IdentifiersForPerson
  <2>14. CASE DeletionFails(d)
    BY <1>1, <2>6, <2>14 DEF DeletionFails, Swept, UserSwept, SubEventsSwept, RevenueSwept,
       ActivitySwept
  <2> QED BY <2>2, <2>3, <2>5, <2>8, <2>9, <2>10, <2>11, <2>12, <2>13, <2>14
          DEF DeletionStep
<1> QED BY <1>2, <1>3 DEF Sweeps

-----------------------------------------------------------------------------
LEMMA InitIInv == PeopleInit => PeopleInv
<1> SUFFICES ASSUME PeopleInit PROVE PeopleInv
  OBVIOUS
<1>1. PeopleTypeOK
  BY DEF PeopleInit, PeopleTypeOK, User, NoUser, MailOf, Authors
<1>2. RowsBarred
  BY DEF PeopleInit, RowsBarred, NoUser
<1>3. WritersClear
  BY DEF PeopleInit, WritersClear, WriterClear, NewWriter, Settled
<1>4. Sweeps
  BY DEF PeopleInit, Sweeps, Swept, NewDeletion, UserSwept, SubEventsSwept, RevenueSwept,
     ActivitySwept
<1> QED BY <1>1, <1>2, <1>3, <1>4, Rowwise DEF PeopleInv

LEMMA StepIInv == PeopleInv /\ [PeopleNext]_peopleVars => PeopleInv'
<1> SUFFICES ASSUME PeopleInv, [PeopleNext]_peopleVars PROVE PeopleInv'
  OBVIOUS
<1>1. PeopleTypeOK'
  BY TypePreserved DEF PeopleInv
<1>2. RowsBarred
  BY Rowwise DEF PeopleInv
<1>3. CASE PeopleNext
  <2>1. RowsBarred'
    BY <1>2, <1>3, RowsBarredPreserved DEF PeopleInv
  <2>2. NamesStayBarred' /\ AuthorsArrived'
    BY <1>1, <2>1, Rowwise, PTL
  <2>3. WritersClear'
    BY <1>3, WritersClearPreserved DEF PeopleInv
  <2>4. Sweeps'
    BY <1>3, WritersSweepNothing, DeletionsSweep DEF PeopleInv, PeopleNext
  <2> QED BY <1>1, <2>2, <2>3, <2>4 DEF PeopleInv
<1>4. CASE UNCHANGED peopleVars
  BY <1>1, <1>4 DEF peopleVars, tables, PeopleInv, NamesStayBarred, AuthorsArrived, AuthorsOf,
     IdentifiersForPerson, WritersClear, WriterClear, Clear, HasUser, Sweeps, Swept, NoneOf
<1> QED BY <1>3, <1>4

(* The invariant that makes tombstones work holds in every run: what a handler *)
(* past its check carries was not tombstoned when it arrived, and what a       *)
(* deletion has swept holds nothing of a writer it found settled               *)
(* (core/tombstones.ts).                                                       *)
THEOREM Inductive == PeopleSpec => []PeopleInv
  BY InitIInv, StepIInv, PTL DEF PeopleSpec

(* A deleted person's rows come only from writers that straddled the deletion *)
(* (core/tombstones.ts:204-237).                                              *)
THEOREM OnlyStraddlers == PeopleSpec => []OnlyStraddlersResurrect
<1>1. PeopleInv => OnlyStraddlersResurrect
  <2> SUFFICES ASSUME PeopleInv, NEW d \in Deletions, deletion[d].pc = "deleted"
               PROVE  /\ IdentifiersForPerson(deletion[d].person, NoEmail) \subseteq tombstones
                      /\ \A a \in AuthorsOf(deletion[d].person) :
                           /\ a \in Writers \ deletion[d].done
                           /\ deletion[d].person \notin writer[a].began
    BY DEF OnlyStraddlersResurrect
  <2>1. deletion[d] \in Deletion /\ Swept(d)
    BY Whole DEF PeopleInv, Sweeps
  <2>2. deletion[d].person \in Persons /\ Old \in deletion[d].done
    BY <2>1 DEF Deletion, Swept
  <2>3. ASSUME NEW a \in AuthorsOf(deletion[d].person)
        PROVE  a \in Writers \ deletion[d].done /\ deletion[d].person \notin writer[a].began
    <3>1. a \notin deletion[d].done
      BY <2>1, <2>3 DEF AuthorsOf, Swept, NoneOf, UserSwept, SubEventsSwept, RevenueSwept,
         ActivitySwept
    <3>2. a \in Writers
      BY <2>2, <2>3, <3>1 DEF AuthorsOf, Authors
    <3>3. NoEmail \in MailOf
      BY DEF MailOf
    <3> QED BY <2>2, <2>3, <3>1, <3>2, <3>3, Identifiers DEF PeopleInv, NamesStayBarred
  <2> QED BY <2>1, <2>3 DEF Swept
<1> QED BY <1>1, Inductive, PTL

(* Nobody writes a row under a name they found tombstoned when they arrived   *)
(* (core/tombstones.ts:48-73, core/ingest-batch.ts:167-172).                  *)
THEOREM NamesStay == PeopleSpec => []NamesStayBarred
<1>1. PeopleInv => NamesStayBarred
  BY DEF PeopleInv
<1> QED BY <1>1, Inductive, PTL

(* Together: an erased person stays erased.                                   *)
THEOREM ErasedStayErased == PeopleSpec => []ErasureHolds
<1>1. OnlyStraddlersResurrect /\ NamesStayBarred => ErasureHolds
  BY DEF ErasureHolds
<1> QED BY OnlyStraddlers, NamesStay, <1>1, PTL

(* An accepted event, profile or import has a user row, unless its person's   *)
(* deletion began (app/api/ingest/event/route.ts:84-110).                     *)
THEOREM Accepted == PeopleSpec => []AcceptedHasUser
<1>1. PeopleInv => AcceptedHasUser
  BY DEF PeopleInv, WritersClear, WriterClear, AcceptedHasUser
<1> QED BY <1>1, Inductive, PTL
=============================================================================
