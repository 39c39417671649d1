------------------------------- MODULE People -------------------------------
(* One workspace's people: the tables that hold rows about a person, every    *)
(* way a row gets in (the ingest routes, CSV import, the connectors' inserts, *)
(* Stripe's and RevenueCat's upserts), and DELETE /api/v1/users/:id, which    *)
(* purges a person and leaves tombstones that the ways in consult             *)
(* (src/src/core/tombstones.ts). Each awaited statement is a step of its own; *)
(* only batch ingest and CSV import write in a transaction.                   *)
(* Drafts and deliveries, which a purge deletes too, are in Outreach.         *)
EXTENDS Naturals

CONSTANTS
  Persons,    \* person ids
  Emails,     \* emails, and account ids other than person ids
  NoEmail,
  Twin,       \* Twin[p]: p with "person_" put in front, or taken off
  Writers,    \* requests, webhook deliveries and connector calls that write
  Kinds,      \* the kinds of writers a configuration uses
  Events,     \* external ids, unique in a workspace
  Deletions,  \* DELETE /api/v1/users/:id calls
  Old,        \* the author of rows that were there at the start
  Nobody,
  MaxFailures   \* bound: handlers that a failing statement or a restart ends

AllKinds == {"event",       \* POST /api/ingest/event, one event of a webhook delivery
             "identify",    \* POST /api/ingest/identify
             "batch",       \* POST /api/ingest/batch; a CSV file of events
             "csvUsers",    \* a CSV file of users
             "person",      \* a connector's insertUserIfAbsent
             "activities",  \* a connector's insertActivitiesIdempotent
             "revenue"}     \* a subscription or an invoice of Stripe, RevenueCat

ASSUME PeopleAssumption ==
  /\ Twin \in [Persons -> Persons] /\ Kinds \subseteq AllKinds
  /\ Old \notin Writers /\ Nobody \notin Writers /\ Old # Nobody
  /\ NoEmail \notin Emails /\ MaxFailures \in Nat

VARIABLES
  users,      \* users rows by person id: the email, and who wrote it
  activity,   \* activity rows: person, external id, author
  revenue,    \* person_revenue rows by person id: the author
  subEvents,  \* subscription_events rows
  tombstones, \* external ids of deleted people
  writer,     \* the writing handlers
  deletion,   \* the deleting handlers
  failures

tables     == <<users, activity, revenue, subEvents>>
peopleVars == <<tables, tombstones, writer, deletion, failures>>

Authors == Writers \cup {Old}
MailOf  == Emails \cup {NoEmail}
User    == [email : MailOf, by : Authors \cup {Nobody}]
NoUser  == [email |-> NoEmail, by |-> Nobody]
Ids     == Persons \cup Emails
(* An activity row without an external id conflicts with no other: its writer *)
(* stands for the null.                                                       *)
EventRow == [person : Persons, ext : Events \cup Writers, by : Authors]

(* Every external id a later upsert might use for this person.                *)
IdentifiersForPerson(p, e) == {p, Twin[p]} \cup ({e} \ {NoEmail})

BugMatches(p, e) == (IF e = NoEmail THEN p ELSE e) \in tombstones
Matches(p, e)    == IdentifiersForPerson(p, e) \cap tombstones # {}

Insert(rows, row) ==
  IF \E r \in rows : r.ext = row.ext THEN rows ELSE rows \cup {row}

-----------------------------------------------------------------------------
NewWriter == [pc |-> "new"]
Writer ==
  [pc : {"check", "activity", "lookup", "user", "update", "transaction", "revenue",
         "recheck", "subEvent", "audit", "answered", "dropped", "failed"},
   kind : AllKinds, person : Persons, email : MailOf, ext : Events \cup Writers,
   user : BOOLEAN,            \* its user row passed the check
   began : SUBSET Ids]        \* history: the tombstones when it arrived
Settled == {"answered", "dropped", "failed"}

NewDeletion == [pc |-> "new"]
Deletion ==
  [pc : {"readUser", "readRevenue", "readActivity", "activity", "revenue", "subEvents",
         "user", "tombstone", "refresh", "audit", "deleted", "notFound", "failed"},
   person : Persons, ids : SUBSET Ids, found : BOOLEAN,
   done : SUBSET Authors]     \* history: the writers settled when it arrived
Ended == {"deleted", "notFound", "failed"}

PeopleInit ==
  /\ users \in [Persons -> {NoUser} \cup [email : MailOf, by : {Old}]]
  /\ activity = {} /\ revenue \in [Persons -> {Nobody, Old}] /\ subEvents = {}
  /\ tombstones = {}
  /\ writer = [w \in Writers |-> NewWriter]
  /\ deletion = [d \in Deletions |-> NewDeletion]
  /\ failures = 0

-----------------------------------------------------------------------------
WAt(w, pc)   == writer[w].pc = pc /\ UNCHANGED <<tombstones, deletion, failures>>
WGoto(w, pc) == writer' = [writer EXCEPT ![w].pc = pc]

(* A page of events and Stripe's rows carry no email; the events of the two   *)
(* plain routes have no external id, and keep none of the writer's.           *)
Mailing == {"event", "identify", "batch", "csvUsers", "person"}
Keyed   == {"batch", "activities", "revenue"}

Arrive(w) ==
  /\ WAt(w, "new") /\ UNCHANGED tables
  /\ \E k \in Kinds, p \in Persons :
       \E e \in IF k \in Mailing THEN MailOf ELSE {NoEmail},
          x \in IF k \in Keyed THEN Events ELSE {w} :
         writer' = [writer EXCEPT ![w] =
           [pc |-> "check", kind |-> k, person |-> p, email |-> e, ext |-> x,
            user |-> FALSE, began |-> tombstones]]

(* isTombstoned on one row, or the set that a batch, a CSV file or a page of  *)
(* events filters its rows with. Their events are looked up by person alone.  *)
Check(w) ==
  LET r == writer[w]
      user == ~Matches(r.person, r.email)
      event == ~Matches(r.person, NoEmail)
  IN /\ WAt(w, "check") /\ UNCHANGED tables
     /\ writer' = [writer EXCEPT ![w].user = user, ![w].pc =
          CASE r.kind \in {"batch", "csvUsers"} /\ event -> "transaction"
            [] r.kind = "activities" /\ event -> "activity"
            [] r.kind = "event" /\ user -> "activity"
            [] r.kind = "identify" /\ user -> "lookup"
            [] r.kind = "person" /\ user -> "user"
            [] r.kind = "revenue" /\ user -> "revenue"
            [] OTHER -> "dropped"]

InsertActivity(w) ==
  LET r == writer[w]
  IN /\ WAt(w, "activity")
     /\ activity' = Insert(activity, [person |-> r.person, ext |-> r.ext, by |-> w])
     /\ WGoto(w, IF r.kind = "event" THEN "lookup" ELSE "answered")
     /\ UNCHANGED <<users, revenue, subEvents>>

BugLookupUser(w) ==
  /\ WAt(w, "lookup") /\ UNCHANGED tables
  /\ WGoto(w, IF users[Twin[writer[w].person]] = NoUser THEN "user"
             ELSE IF writer[w].kind = "identify" THEN "update" ELSE "audit")
LookupUser(w) ==
  /\ WAt(w, "lookup") /\ UNCHANGED tables
  /\ WGoto(w, IF users[writer[w].person] = NoUser THEN "user"
             ELSE IF writer[w].kind = "identify" THEN "update" ELSE "audit")

(* The routes insert plainly and fail on a row that has appeared meanwhile;   *)
(* the connectors leave it alone.                                             *)
InsertUser(w) ==
  LET r == writer[w]
      row == [email |-> r.email, by |-> w]
  IN /\ WAt(w, "user") /\ UNCHANGED <<activity, revenue, subEvents>>
     /\ users' = IF users[r.person] = NoUser THEN [users EXCEPT ![r.person] = row]
                                             ELSE users
     /\ WGoto(w, IF r.kind = "person" THEN "answered"
                ELSE IF users[r.person] = NoUser THEN "audit" ELSE "failed")

UpdateUser(w) ==
  LET r == writer[w]
  IN /\ WAt(w, "update") /\ UNCHANGED <<activity, revenue, subEvents>>
     /\ users' = IF r.email = NoEmail \/ users[r.person] = NoUser THEN users
                 ELSE [users EXCEPT ![r.person] = [email |-> r.email, by |-> w]]
     /\ WGoto(w, "audit")

(* runIngestBatch and runCsvImport: user rows first, then events.             *)
WriteBatch(w) ==
  LET r == writer[w]
      row == [email |-> r.email, by |-> w]
      writes == r.user /\ (r.kind = "csvUsers" \/ users[r.person] = NoUser)
  IN /\ WAt(w, "transaction") /\ UNCHANGED <<revenue, subEvents>>
     /\ users' = IF writes THEN [users EXCEPT ![r.person] = row] ELSE users
     /\ activity' = IF r.kind = "csvUsers" THEN activity
                    ELSE Insert(activity, [person |-> r.person, ext |-> r.ext, by |-> w])
     /\ WGoto(w, "audit")

(* upsertPersonRevenue, after its check: all an invoice does. A subscription  *)
(* goes on to its event.                                                      *)
UpsertRevenue(w) ==
  /\ WAt(w, "revenue") /\ revenue' = [revenue EXCEPT ![writer[w].person] = w]
  /\ \E pc \in {"recheck", "answered"} : WGoto(w, pc)
  /\ UNCHANGED <<users, activity, subEvents>>

(* insertSubscriptionEvent checks for itself.                                 *)
Recheck(w) ==
  /\ WAt(w, "recheck") /\ UNCHANGED tables
  /\ WGoto(w, IF Matches(writer[w].person, NoEmail) THEN "dropped" ELSE "subEvent")

InsertSubEvent(w) ==
  LET r == writer[w]
  IN /\ WAt(w, "subEvent")
     /\ subEvents' = Insert(subEvents, [person |-> r.person, ext |-> r.ext, by |-> w])
     /\ WGoto(w, "answered") /\ UNCHANGED <<users, activity, revenue>>

AuditWrite(w) == WAt(w, "audit") /\ UNCHANGED tables /\ WGoto(w, "answered")

WriterFails(w) ==
  /\ writer[w].pc \notin Settled \cup {"new"} /\ failures < MaxFailures
  /\ failures' = failures + 1 /\ WGoto(w, "failed")
  /\ UNCHANGED <<tables, tombstones, deletion>>

WriterStep(w) ==
  \/ Arrive(w) \/ Check(w) \/ InsertActivity(w) \/ LookupUser(w) \/ InsertUser(w)
  \/ UpdateUser(w) \/ WriteBatch(w) \/ UpsertRevenue(w) \/ Recheck(w)
  \/ InsertSubEvent(w) \/ AuditWrite(w) \/ WriterFails(w)

-----------------------------------------------------------------------------
(* deletePerson: purgePerson, then the tombstones, then the read models.      *)
DAt(d, pc)   == deletion[d].pc = pc /\ UNCHANGED <<writer, failures>>
DGoto(d, pc) == deletion' = [deletion EXCEPT ![d].pc = pc]
Reads        == UNCHANGED <<tables, tombstones>>

StartDeletion(d) ==
  /\ DAt(d, "new") /\ Reads
  /\ \E p \in Persons :
     deletion' = [deletion EXCEPT ![d] =
       [pc |-> "readUser", person |-> p, ids |-> {}, found |-> FALSE,
        done |-> {Old} \cup {w \in Writers : writer[w].pc \in Settled}]]

ReadUser(d) ==
  LET p == deletion[d].person
  IN /\ DAt(d, "readUser") /\ Reads
     /\ deletion' = [deletion EXCEPT ![d].pc = "readRevenue",
          ![d].found = users[p] # NoUser,
          ![d].ids = IdentifiersForPerson(p, users[p].email)]

Found(d, row, next) ==
  deletion' = [deletion EXCEPT ![d].pc = next, ![d].found = @ \/ row]

ReadRevenue(d) ==
  /\ DAt(d, "readRevenue") /\ Reads
  /\ Found(d, revenue[deletion[d].person] # Nobody, "readActivity")

ReadActivity(d) ==
  /\ DAt(d, "readActivity") /\ Reads
  /\ Found(d, \E r \in activity : r.person = deletion[d].person, "activity")

Others(rows, d) == {r \in rows : r.person # deletion[d].person}

DeleteActivity(d) ==
  /\ DAt(d, "activity") /\ activity' = Others(activity, d) /\ DGoto(d, "revenue")
  /\ UNCHANGED <<users, revenue, subEvents, tombstones>>

DeleteRevenue(d) ==
  /\ DAt(d, "revenue") /\ revenue' = [revenue EXCEPT ![deletion[d].person] = Nobody]
  /\ DGoto(d, "subEvents") /\ UNCHANGED <<users, activity, subEvents, tombstones>>

DeleteSubEvents(d) ==
  /\ DAt(d, "subEvents") /\ subEvents' = Others(subEvents, d) /\ DGoto(d, "user")
  /\ UNCHANGED <<users, activity, revenue, tombstones>>

DeleteUser(d) ==
  /\ DAt(d, "user") /\ users' = [users EXCEPT ![deletion[d].person] = NoUser]
  /\ DGoto(d, IF deletion[d].found THEN "tombstone" ELSE "notFound")
  /\ UNCHANGED <<activity, revenue, subEvents, tombstones>>

WriteTombstones(d) ==
  /\ DAt(d, "tombstone") /\ tombstones' = tombstones \cup deletion[d].ids
  /\ DGoto(d, "refresh") /\ UNCHANGED tables

RefreshReadModels(d) == DAt(d, "refresh") /\ Reads /\ DGoto(d, "audit")

AuditDelete(d) == DAt(d, "audit") /\ Reads /\ DGoto(d, "deleted")

DeletionFails(d) ==
  /\ deletion[d].pc \notin Ended \cup {"new"} /\ failures < MaxFailures
  /\ failures' = failures + 1 /\ DGoto(d, "failed")
  /\ UNCHANGED <<tables, tombstones, writer>>

DeletionStep(d) ==
  \/ StartDeletion(d) \/ ReadUser(d) \/ ReadRevenue(d) \/ ReadActivity(d)
  \/ DeleteActivity(d) \/ DeleteRevenue(d) \/ DeleteSubEvents(d) \/ DeleteUser(d)
  \/ WriteTombstones(d) \/ RefreshReadModels(d) \/ AuditDelete(d) \/ DeletionFails(d)

PeopleNext == \/ \E w \in Writers : WriterStep(w)
              \/ \E d \in Deletions : DeletionStep(d)

PeopleSpec == PeopleInit /\ [][PeopleNext]_peopleVars
-----------------------------------------------------------------------------
PeopleTypeOK ==
  /\ users \in [Persons -> User] /\ revenue \in [Persons -> Authors \cup {Nobody}]
  /\ activity \subseteq EventRow /\ subEvents \subseteq EventRow
  /\ tombstones \subseteq Ids
  /\ writer \in [Writers -> Writer \cup {NewWriter}]
  /\ deletion \in [Deletions -> Deletion \cup {NewDeletion}]
  /\ failures \in 0..MaxFailures

(* Who wrote rows about p, in any table.                                      *)
AuthorsOf(p) ==
  {a \in Authors : \/ users[p].by = a \/ revenue[p] = a
                   \/ \E r \in activity \cup subEvents : r.person = p /\ r.by = a}

(* What a deletion that answered success removes stays removed: both          *)
(* spellings of the id are tombstoned, and a row about the person can only    *)
(* come from a writer that had not settled when the deletion began and had    *)
(* arrived before the tombstones. No later ingest, import or pull brings a    *)
(* row back (tombstones.ts:4).                                                *)
OnlyStraddlersResurrect ==
  \A d \in Deletions : deletion[d].pc = "deleted" =>
    /\ IdentifiersForPerson(deletion[d].person, NoEmail) \subseteq tombstones
    /\ \A a \in AuthorsOf(deletion[d].person) :
         a \in Writers \ deletion[d].done /\ deletion[d].person \notin writer[a].began

(* A tombstone bars every name of the person: no user row holds an id, in     *)
(* either spelling, or an email that was tombstoned when the request that     *)
(* wrote it arrived, and no other row is about such an id.                    *)
NamesStayBarred ==
  \A p \in Persons :
    /\ users[p].by \in Writers =>
         IdentifiersForPerson(p, users[p].email) \cap writer[users[p].by].began = {}
    /\ \A w \in AuthorsOf(p) \cap Writers :
         IdentifiersForPerson(p, NoEmail) \cap writer[w].began = {}

(* Together: an erased person stays erased (tombstones.ts:4).                 *)
ErasureHolds == OnlyStraddlersResurrect /\ NamesStayBarred

HasUser(p) == \/ users[p] # NoUser
              \/ \E d \in Deletions : deletion[d].pc # "new" /\ deletion[d].person = p

(* An accepted event, profile or import has a user to show it under, however  *)
(* the writers of one person race, unless that person's deletion began.       *)
AcceptedHasUser ==
  \A w \in Writers :
    writer[w].pc = "answered" /\ writer[w].user
    /\ writer[w].kind \in Mailing
    => HasUser(writer[w].person)

(* What keeps them so. A handler past its check carries names that were not   *)
(* tombstoned when it arrived.                                                *)
Clear(w) ==
  /\ IdentifiersForPerson(writer[w].person, NoEmail) \cap writer[w].began = {}
  /\ writer[w].user =>
       IdentifiersForPerson(writer[w].person, writer[w].email) \cap writer[w].began = {}

WriterClear(w) ==
  /\ writer[w].pc # "new" => writer[w].began \subseteq tombstones
  /\ writer[w].pc \notin Settled \cup {"new", "check"} => Clear(w)
  /\ writer[w].pc \in {"lookup", "user", "update"} =>
       writer[w].user /\ writer[w].kind \in Mailing
  /\ writer[w].pc = "activity" => \/ writer[w].kind = "event" /\ writer[w].user
                                 \/ writer[w].kind = "activities"
  /\ writer[w].pc \in {"revenue", "recheck", "subEvent"} => writer[w].kind = "revenue"
  /\ (writer[w].pc \in {"update", "audit", "answered"} /\ writer[w].user
       /\ writer[w].kind \in Mailing) => HasUser(writer[w].person)

WritersClear == \A w \in Writers : WriterClear(w)

(* Rows are written by handlers that have arrived.                            *)
AuthorsArrived ==
  \A p \in Persons : \A w \in AuthorsOf(p) \cap Writers : writer[w].pc # "new"

(* What a deletion has already swept holds no row of a writer it found        *)
(* settled, and a settled writer writes no more.                              *)
UserSwept      == {"tombstone", "refresh", "audit", "deleted", "notFound"}
SubEventsSwept == UserSwept \cup {"user"}
RevenueSwept   == SubEventsSwept \cup {"subEvents"}
ActivitySwept  == RevenueSwept \cup {"revenue"}
NoneOf(rows, d) ==
  \A r \in rows : r.person = deletion[d].person => r.by \notin deletion[d].done

Swept(d) ==
  /\ deletion[d].pc # "new" =>
       /\ Old \in deletion[d].done
       /\ \A a \in deletion[d].done \cap Writers : writer[a].pc \in Settled
  /\ deletion[d].pc \in ActivitySwept  => NoneOf(activity, d)
  /\ deletion[d].pc \in RevenueSwept   => revenue[deletion[d].person] \notin deletion[d].done
  /\ deletion[d].pc \in SubEventsSwept => NoneOf(subEvents, d)
  /\ deletion[d].pc \in UserSwept      => users[deletion[d].person].by \notin deletion[d].done
  /\ deletion[d].pc \notin {"new", "readUser", "failed"} =>
       IdentifiersForPerson(deletion[d].person, NoEmail) \subseteq deletion[d].ids
  /\ deletion[d].pc \in {"refresh", "audit", "deleted"} =>
       deletion[d].ids \subseteq tombstones

Sweeps == \A d \in Deletions : Swept(d)

PeopleInv == PeopleTypeOK /\ NamesStayBarred /\ WritersClear /\ AuthorsArrived /\ Sweeps

(* A deleted person is tombstoned (SECURITY.md:17): when the deletion that    *)
(* found them could not answer, the retry that finds nothing left has not     *)
(* lost the tombstone.                                                        *)
RetryTombstones ==
  (\A d \in Deletions : deletion[d].pc \in Ended \cup {"new"}) =>
    \A c, d \in Deletions :
      /\ deletion[c].pc = "failed" /\ deletion[d].pc = "notFound"
      /\ deletion[c].found /\ deletion[c].person = deletion[d].person
      => deletion[d].person \in tombstones
=============================================================================
