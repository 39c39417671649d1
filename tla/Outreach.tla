------------------------------ MODULE Outreach ------------------------------
(***************************************************************************)
(* Persisted outreach drafts: queue, approve, edit, deliver, tag, and the  *)
(* person deletion that cascades through them (src/src/outreach, and       *)
(* purgePerson of src/src/core/tombstones.ts).                             *)
(*                                                                         *)
(* A request is a handler that runs to its next await as one step.  No     *)
(* handler opens a transaction, so every database statement is a step and  *)
(* any two requests interleave between statements.  `req[r].seen` is the   *)
(* row the handler read before the await: what it acts on later.           *)
(***************************************************************************)
EXTENDS Naturals, FiniteSets

CONSTANTS
  Requests,     \* handler invocations (a bound: each is used once)
  Drafts,       \* outreach ids
  People,       \* person ids
  PersonOf,     \* the person each draft is addressed to
  Bodies,       \* message texts
  Outcomes,     \* the outcome tags
  Actors,       \* who may call: session, admin key, write key, read key
  Writers,      \* actors the write gate lets through
  Approvers,    \* browser session and admin-scoped keys
  Kinds,        \* the operations the environment may call in this instance
  Concurrent,   \* may two requests be in flight at once?
  Faults,       \* may a statement, the mail provider or the process fail?
  None          \* the null of a nullable column

ASSUME OutreachAssumption ==
  /\ Writers \subseteq Actors
  /\ Approvers \subseteq Writers
  /\ PersonOf \in [Drafts -> People]
  /\ None \notin Actors \cup Bodies \cup Outcomes
  /\ Concurrent \in BOOLEAN
  /\ Faults \in BOOLEAN
  /\ Kinds \subseteq {"queue", "approve", "send", "edit", "outcome"}

VARIABLES
  outreach,     \* table `outreach`: a row per id, state "absent" for no row
  deliveries,   \* table `outreach_delivery`
  audited,      \* table `audit_log`: requests whose audit row was written
  tags,         \* `config` rows keyed by outreach id
  emails,       \* people whose `users` row (with an address) is present
  req,          \* the handlers in flight
  purge,        \* deletePerson of each person: its step and what it read
  approvals,    \* history: every approval the database accepted
  mailed,       \* history: every message a mail provider accepted
  calm          \* history: no two requests met, and no send was cut short
                \* between the provider's taking its message and the mark

tables  == <<outreach, deliveries, audited, tags, emails>>
history == <<approvals, mailed, calm>>
vars == <<outreach, deliveries, audited, tags, emails, req, purge,
          approvals, mailed, calm>>

-----------------------------------------------------------------------------
(* Rows and handlers.                                                      *)

Row == [state: {"absent", "waiting", "approved", "sent"},
        body: Bodies \cup {None}, by: Actors \cup {None}]

NoRow == [state |-> "absent", body |-> None, by |-> None]

Settled == {"ok", "failed"}

Steps == {"idle", "insert", "approveLoad", "approveUpdate", "editLoad",
          "editUpdate", "lookup", "load", "recipient", "credentials", "mail",
          "mark", "log", "tagCheck", "tagWrite", "audit", "reload"} \cup Settled

FirstStep(k) == CASE k = "queue"   -> "insert"
                  [] k = "approve" -> "approveLoad"
                  [] k = "edit"    -> "editLoad"
                  [] k = "outcome" -> "tagCheck"
                  [] OTHER         -> "lookup"

Handler == [pc: Steps, kind: Kinds \cup {"none"}, draft: Drafts \cup {None},
            actor: Actors \cup {None}, text: Bodies \cup Outcomes \cup {None},
            seen: Row]

Idle == [pc |-> "idle", kind |-> "none", draft |-> None, actor |-> None,
         text |-> None, seen |-> NoRow]

InFlight(r) == req[r].pc \notin Settled \cup {"idle"}

\* Mutant: canApproveOutreach dropped, the write gate is enough to approve.
BugWriterApproves(k, a) == a \in Writers

\* The gate of gateOutreach: a session or a write scope, and for approval
\* canApproveOutreach.
MayCall(k, a) == IF k = "approve" THEN a \in Approvers ELSE a \in Writers

\* asApprovedOutreach: the persisted row is an approval.
IsApproved(row) == row.state = "approved" /\ row.by # None

\* An UPDATE whose WHERE names the id only: nothing when the row is gone.
Update(d, row) == outreach' = IF outreach[d].state = "absent" THEN outreach
                              ELSE [outreach EXCEPT ![d] = row]

Goto(r, step) == req' = [req EXCEPT ![r].pc = step]

\* The handler awaits the row of its draft and will act on that copy.
LoadRow(r, step) ==
  /\ req' = [req EXCEPT ![r].pc = step, ![r].seen = outreach[req[r].draft]]
  /\ UNCHANGED <<tables, purge, history>>

-----------------------------------------------------------------------------
Init ==
  /\ outreach = [d \in Drafts |-> NoRow]
  /\ deliveries = {}
  /\ audited = {}
  /\ tags = [d \in Drafts |-> None]
  /\ emails = People
  /\ req = [r \in Requests |-> Idle]
  /\ purge = [p \in People |-> [pc |-> "idle", ids |-> {}]]
  /\ approvals = {}
  /\ mailed = {}
  /\ calm = TRUE

\* nanoid: an id no queue handler drew before.
Fresh(d) == \A q \in Requests : req[q].kind = "queue" => req[q].draft # d

\* What a call carries: a body, or a tag (null clears it), or nothing.
Text(k) == CASE k \in {"queue", "edit"} -> Bodies
             [] k = "outcome"          -> Outcomes \cup {None}
             [] OTHER                  -> {None}

\* A call arrives and passes its gate.  A refused call changes nothing.
Begin(r, k, d, a, t) ==
  /\ req[r].pc = "idle"
  /\ Concurrent \/ \A q \in Requests : ~InFlight(q)
  /\ MayCall(k, a)
  /\ (k = "queue") <=> Fresh(d)
  /\ t \in Text(k)
  /\ req' = [req EXCEPT ![r] = [pc |-> FirstStep(k), kind |-> k, draft |-> d,
                                actor |-> IF k = "approve" THEN a ELSE None,
                                text |-> t, seen |-> NoRow]]
  /\ calm' = (calm /\ \A q \in Requests : ~InFlight(q))
  /\ UNCHANGED <<tables, purge, approvals, mailed>>

\* queueOutreach: insert a waiting row.
QueueInsert(r) ==
  /\ req[r].pc = "insert"
  /\ outreach' = [outreach EXCEPT ![req[r].draft] =
                    [state |-> "waiting", body |-> req[r].text, by |-> None]]
  /\ Goto(r, "audit")
  /\ UNCHANGED <<deliveries, audited, tags, emails, purge, history>>

\* Mutant: approve re-opens a sent draft.
BugReapprove(r) ==
  /\ req[r].pc = "approveLoad"
  /\ LoadRow(r, IF outreach[req[r].draft].state = "absent"
                THEN "failed" ELSE "approveUpdate")

\* approveOutreach, before its first await returns: refuse a missing or a sent
\* draft.
ApproveLoad(r) ==
  /\ req[r].pc = "approveLoad"
  /\ LoadRow(r, IF outreach[req[r].draft].state \in {"absent", "sent"}
                THEN "failed" ELSE "approveUpdate")

\* ... and the UPDATE that approves whatever the row has become meanwhile.
ApproveUpdate(r) ==
  LET d == req[r].draft IN
  /\ req[r].pc = "approveUpdate"
  /\ Update(d, [outreach[d] EXCEPT !.state = "approved", !.by = req[r].actor])
  /\ approvals' = IF outreach[d].state = "absent" THEN approvals
                  ELSE approvals \cup {[req |-> r, draft |-> d,
                                        actor |-> req[r].actor,
                                        body |-> outreach[d].body]}
  /\ Goto(r, "audit")
  /\ UNCHANGED <<deliveries, audited, tags, emails, purge, mailed, calm>>

\* updateOutreachBody: a sent draft is returned as it is, any other loses its
\* approval with its text.
EditLoad(r) ==
  /\ req[r].pc = "editLoad"
  /\ LoadRow(r, CASE outreach[req[r].draft].state = "absent" -> "failed"
                  [] outreach[req[r].draft].state = "sent"   -> "ok"
                  [] OTHER                                   -> "editUpdate")

EditUpdate(r) ==
  /\ req[r].pc = "editUpdate"
  /\ Update(req[r].draft,
            [state |-> "waiting", body |-> req[r].text, by |-> None])
  /\ Goto(r, "reload")
  /\ UNCHANGED <<deliveries, audited, tags, emails, purge, history>>

\* The send route (and send_outreach) looks the row up before it calls
\* deliverOutreach.
SendLookup(r) ==
  /\ req[r].pc = "lookup"
  /\ LoadRow(r, IF outreach[req[r].draft].state = "absent"
                THEN "failed" ELSE "load")

\* Mutant: deliverOutreach believes the record it was passed.
BugDeliverUnchecked(r) ==
  /\ req[r].pc = "load"
  /\ LoadRow(r, "recipient")

\* deliverOutreach re-reads the row and refuses all but an approval.
DeliverLoad(r) ==
  /\ req[r].pc = "load"
  /\ LoadRow(r, IF IsApproved(outreach[req[r].draft])
                THEN "recipient" ELSE "failed")

\* recipientFor
DeliverRecipient(r) ==
  /\ req[r].pc = "recipient"
  /\ Goto(r, IF PersonOf[req[r].draft] \in emails
             THEN "credentials" ELSE "failed")
  /\ UNCHANGED <<tables, purge, history>>

\* loadMailCredentials: configured or not.
DeliverCredentials(r) ==
  /\ req[r].pc = "credentials"
  /\ Goto(r, "mail") \/ Goto(r, "failed")
  /\ UNCHANGED <<tables, purge, history>>

\* sendMail: the provider takes the message and says so, ...
DeliverMail(r) ==
  /\ req[r].pc = "mail"
  /\ mailed' = mailed \cup {[req |-> r, draft |-> req[r].draft,
                             body |-> req[r].seen.body]}
  /\ Goto(r, "mark")
  /\ UNCHANGED <<tables, purge, approvals, calm>>

\* ... or takes it and the answer is lost (a 221 that never comes, a reset
\* connection, a crash): the handler throws, the row stays approved.
DeliverMailAnswerLost(r) ==
  /\ Faults
  /\ req[r].pc = "mail"
  /\ mailed' = mailed \cup {[req |-> r, draft |-> req[r].draft,
                             body |-> req[r].seen.body]}
  /\ Goto(r, "failed")
  /\ calm' = FALSE
  /\ UNCHANGED <<tables, purge, approvals>>

\* Mutant: the row is never marked.
BugNoMark(r) ==
  /\ req[r].pc = "mark"
  /\ Goto(r, "log")
  /\ UNCHANGED <<tables, purge, history>>

\* Mark the row sent: unconditional on its state.
DeliverMark(r) ==
  LET d == req[r].draft IN
  /\ req[r].pc = "mark"
  /\ Update(d, [outreach[d] EXCEPT !.state = "sent"])
  /\ Goto(r, "log")
  /\ UNCHANGED <<deliveries, audited, tags, emails, purge, history>>

\* Mutant: the log names the approver the row has now, not the one that was read.
BugLogRereads(r) ==
  /\ req[r].pc = "log"
  /\ deliveries' = deliveries \cup {[req |-> r, draft |-> req[r].draft,
                                     by |-> outreach[req[r].draft].by]}
  /\ Goto(r, "audit")
  /\ UNCHANGED <<outreach, audited, tags, emails, purge, history>>

DeliverLog(r) ==
  /\ req[r].pc = "log"
  /\ deliveries' = deliveries \cup {[req |-> r, draft |-> req[r].draft,
                                     by |-> req[r].seen.by]}
  /\ Goto(r, "audit")
  /\ UNCHANGED <<outreach, audited, tags, emails, purge, history>>

\* setOutreachOutcome: the draft must exist; then upsert or delete its tag.
TagCheck(r) ==
  /\ req[r].pc = "tagCheck"
  /\ LoadRow(r, IF outreach[req[r].draft].state = "absent"
                THEN "failed" ELSE "tagWrite")

TagWrite(r) ==
  /\ req[r].pc = "tagWrite"
  /\ tags' = [tags EXCEPT ![req[r].draft] = req[r].text]
  /\ Goto(r, "audit")
  /\ UNCHANGED <<outreach, deliveries, audited, emails, purge, history>>

\* recordAudit, after the mutation in every handler but the edit.
WriteAudit(r) ==
  /\ req[r].pc = "audit"
  /\ audited' = audited \cup {r}
  /\ Goto(r, "reload")
  /\ UNCHANGED <<outreach, deliveries, tags, emails, purge, history>>

\* The handler answers with the row as it is now; approve answers 404 when that
\* row is no longer an approval.
Reload(r) ==
  LET row == outreach[req[r].draft] IN
  /\ req[r].pc = "reload"
  /\ Goto(r, IF row.state = "absent" \/ (req[r].kind = "approve" /\ ~IsApproved(row))
             THEN "failed" ELSE "ok")
  /\ UNCHANGED <<tables, purge, history>>

\* A statement throws, the provider refuses, or the process dies: the handler
\* stops where it is and nothing is rolled back.
Fail(r) ==
  /\ Faults
  /\ InFlight(r)
  /\ Goto(r, "failed")
  /\ calm' = (calm /\ req[r].pc # "mark")
  /\ UNCHANGED <<tables, purge, approvals, mailed>>

-----------------------------------------------------------------------------
(* deletePerson: read the draft ids, delete their delivery rows, delete the *)
(* drafts, delete the person.                                               *)

PurgeStep(p, from, to) ==
  /\ purge[p].pc = from
  /\ purge' = [purge EXCEPT ![p].pc = to]
  /\ UNCHANGED <<req, history>>

DraftsOf(p) == {d \in Drafts : PersonOf[d] = p /\ outreach[d].state # "absent"}

PurgeReadDrafts(p) ==
  /\ purge[p].pc = "idle"
  /\ Concurrent \/ \A r \in Requests : ~InFlight(r)
  /\ purge' = [purge EXCEPT ![p] = [pc |-> "deliveries", ids |-> DraftsOf(p)]]
  /\ UNCHANGED <<tables, req, history>>

PurgeDeliveries(p) ==
  /\ PurgeStep(p, "deliveries", "drafts")
  /\ deliveries' = {l \in deliveries : l.draft \notin purge[p].ids}
  /\ UNCHANGED <<outreach, audited, tags, emails>>

PurgeDrafts(p) ==
  /\ PurgeStep(p, "drafts", "user")
  /\ outreach' = [d \in Drafts |-> IF PersonOf[d] = p THEN NoRow
                                   ELSE outreach[d]]
  /\ UNCHANGED <<deliveries, audited, tags, emails>>

PurgeUser(p) ==
  /\ PurgeStep(p, "user", "done")
  /\ emails' = emails \ {p}
  /\ UNCHANGED <<outreach, deliveries, audited, tags>>

-----------------------------------------------------------------------------
SendStep(r) ==
  \/ SendLookup(r) \/ DeliverLoad(r) \/ DeliverRecipient(r)
  \/ DeliverCredentials(r) \/ DeliverMail(r) \/ DeliverMailAnswerLost(r)
  \/ DeliverMark(r) \/ DeliverLog(r)

HandlerStep(r) ==
  \/ QueueInsert(r) \/ ApproveLoad(r) \/ ApproveUpdate(r)
  \/ EditLoad(r) \/ EditUpdate(r) \/ SendStep(r)
  \/ TagCheck(r) \/ TagWrite(r) \/ WriteAudit(r) \/ Reload(r)

PurgePerson(p) ==
  \/ PurgeReadDrafts(p) \/ PurgeDeliveries(p) \/ PurgeDrafts(p) \/ PurgeUser(p)

Next ==
  \/ \E r \in Requests :
       \/ \E k \in Kinds, d \in Drafts, a \in Actors,
             t \in Bodies \cup Outcomes \cup {None} : Begin(r, k, d, a, t)
       \/ HandlerStep(r)
       \/ Fail(r)
  \/ \E p \in People : PurgePerson(p)

Spec == Init /\ [][Next]_vars

-----------------------------------------------------------------------------
(* Properties.                                                             *)

TypeOK ==
  /\ outreach \in [Drafts -> Row]
  /\ deliveries \subseteq [req: Requests, draft: Drafts, by: Actors \cup {None}]
  /\ audited \subseteq Requests
  /\ tags \in [Drafts -> Outcomes \cup {None}]
  /\ emails \subseteq People
  /\ req \in [Requests -> Handler]
  /\ purge \in [People -> [pc: {"idle", "deliveries", "drafts", "user", "done"},
                           ids: SUBSET Drafts]]
  /\ approvals \subseteq [req: Requests, draft: Drafts, actor: Actors,
                          body: Bodies \cup {None}]
  /\ mailed \subseteq [req: Requests, draft: Drafts, body: Bodies \cup {None}]

\* Some approver accepted exactly this text of this draft.
Approved(d, body) ==
  \E a \in approvals : a.draft = d /\ a.body = body /\ a.actor \in Approvers

\* Every message that left carries a text that an approver accepted for that
\* draft, whatever approvals, edits, sends, deletions and failures interleave
\* (deliverOutreach: "Unapproved drafts are refused here").
NothingSendsUnapproved == \A m \in mailed : Approved(m.draft, m.body)

\* The delivery log never claims a send that did not happen, nor an approving
\* actor that never approved the draft (the row deliverOutreach inserts names
\* the approver it read before the mail went out).
LogIsTrue ==
  \A l \in deliveries :
    /\ \E m \in mailed : m.req = l.req /\ m.draft = l.draft
    /\ \E a \in approvals : a.draft = l.draft /\ a.actor = l.by

\* A draft the database calls sent has really left: the row is marked after the
\* provider's answer, never before it.
SentWasMailed ==
  \A d \in Drafts : outreach[d].state = "sent" => \E m \in mailed : m.draft = d

\* A send that answers success has mailed the draft and written the audit row.
AnsweredSendIsAudited ==
  \A r \in Requests :
    req[r].kind = "send" /\ req[r].pc = "ok" =>
      r \in audited /\ \E m \in mailed : m.req = r

(* What the tables say is true: deliveries, drafts marked sent, and the audit  *)
(* log of answered sends (deliver.ts:92-129, send/route.ts:70-94).             *)
RecordsAreTrue == LogIsTrue /\ SentWasMailed /\ AnsweredSendIsAudited

\* The inductive invariant behind the five invariants above.
\* Handlers: what the gate and the call fixed when the handler began.
HandlersBound ==
  \A r \in Requests :
    /\ req[r].pc # "idle" => req[r].kind \in Kinds /\ req[r].draft \in Drafts
    /\ req[r].pc \in {"approveLoad", "approveUpdate"} => req[r].actor \in Approvers
    /\ req[r].pc \in {"insert", "editLoad", "editUpdate"} => req[r].text \in Bodies
    /\ req[r].pc \in {"tagCheck", "tagWrite"} => req[r].text \in Outcomes \cup {None}

\* Rows: an approved row carries a text its approver accepted.
RowsApproved ==
  \A d \in Drafts :
    /\ outreach[d].state # "absent" => outreach[d].body \in Bodies
    /\ outreach[d].state = "approved" =>
         \E a \in approvals : a.draft = d /\ a.body = outreach[d].body
                              /\ a.actor = outreach[d].by

\* Copies: so does the copy a delivery acts on, however old it is.
CopiesApproved ==
  \A r \in Requests :
    req[r].pc \in {"recipient", "credentials", "mail", "mark", "log"} =>
      /\ req[r].seen.body \in Bodies
      /\ \E a \in approvals : a.draft = req[r].draft /\ a.body = req[r].seen.body
                              /\ a.actor = req[r].seen.by

\* A delivery past the provider has its message; one before it has none.
MailedAt(r) == \E m \in mailed : m.req = r /\ m.draft = req[r].draft

MailOnce ==
  \A r \in Requests :
    /\ req[r].pc \in {"mark", "log"} => MailedAt(r)
    /\ req[r].pc \in {"idle", "lookup", "load", "recipient", "credentials", "mail"}
         => \A m \in mailed : m.req # r
    /\ req[r].pc \in {"audit", "reload", "ok"} /\ req[r].kind = "send" => MailedAt(r)
    /\ req[r].pc \in {"reload", "ok"} /\ req[r].kind = "send" => r \in audited
    /\ req[r].pc \in {"insert", "approveLoad", "approveUpdate", "editLoad",
                      "editUpdate", "tagCheck", "tagWrite"} => req[r].kind # "send"

ApproversApproved == \A a \in approvals : a.actor \in Approvers

IInv ==
  /\ TypeOK /\ HandlersBound /\ RowsApproved /\ CopiesApproved /\ MailOnce
  /\ ApproversApproved /\ NothingSendsUnapproved /\ LogIsTrue /\ SentWasMailed

\* Two messages for one draft need two approvals ("per-send approval").
OneMailPerApproval ==
  \A d \in Drafts : Cardinality({m \in mailed : m.draft = d})
                      <= Cardinality({a \in approvals : a.draft = d})

\* As long as no two requests met and no send was cut short after its message
\* left, each approval mails its draft at most once (deliverOutreach refuses all
\* but an approval and marks the row it mailed).
CalmMailsOnce == calm => OneMailPerApproval

\* "A sent draft cannot be re-approved": until two requests meet, sent is left
\* only by deletion.
CalmSentIsFinal ==
  [][calm' => \A d \in Drafts : outreach[d].state = "sent"
                               => outreach'[d].state \in {"sent", "absent"}]_vars

\* Behind the last two.  An id is drawn by one queue request, which inserts its
\* row first.
IdsAreFresh ==
  /\ \A r, q \in Requests : req[r].kind = "queue" /\ req[q].kind = "queue"
                             /\ req[r].draft = req[q].draft => r = q
  /\ \A r \in Requests : req[r].pc = "idle" => req[r].kind # "queue"
  /\ \A r \in Requests : req[r].pc = "insert" =>
       req[r].kind = "queue" /\ outreach[req[r].draft].state = "absent"
  /\ \A d \in Drafts : outreach[d].state # "absent" =>
       \E q \in Requests : req[q].kind = "queue" /\ req[q].draft = d
\* A request that has not approved, mailed is not in the history.
HistoryIsPast ==
  /\ IsFiniteSet(mailed) /\ IsFiniteSet(approvals)
  /\ \A r \in Requests :
       req[r].pc \in {"idle", "approveLoad", "approveUpdate"} => \A a \in approvals : a.req # r
\* An approval not yet mailed: the row says so, and a delivery on its way.
MailsOf(d) == {m \in mailed : m.draft = d}
ApprovalsOf(d) == {a \in approvals : a.draft = d}
Pending(d) == Cardinality(MailsOf(d)) + 1 <= Cardinality(ApprovalsOf(d))
Calm ==
  /\ \A r, q \in Requests : InFlight(r) /\ InFlight(q) => r = q
  /\ OneMailPerApproval
  /\ \A d \in Drafts : outreach[d].state = "approved" =>
       Pending(d) \/ \E r \in Requests : req[r].pc = "mark" /\ req[r].draft = d
  /\ \A r \in Requests :
       req[r].pc \in {"recipient", "credentials", "mail"} => Pending(req[r].draft)
  /\ \A r \in Requests : req[r].pc \in {"approveUpdate", "editUpdate"} =>
       outreach[req[r].draft].state # "sent"
CalmInv == calm \in BOOLEAN /\ IdsAreFresh /\ HistoryIsPast /\ (calm => Calm)

\* What outreach promises its reader, whatever the handlers do in between.
Promise == INSTANCE OutreachPromise
Promised == Promise!Spec
=============================================================================
