------------------------------ MODULE PmfPage ------------------------------
(* The outreach queue of the PMF+ page (components/PMF.tsx) over the rows of   *)
(* /api/v1/outreach.  The page keeps a copy of each draft and changes it when  *)
(* a call answers, from the copy it had when the call began: answers of two    *)
(* calls undo each other's marks.  Edits of the text stay in the page.  Of the *)
(* routes only what the page sees is modelled (Outreach has their steps).      *)
EXTENDS Naturals, Sequences

CONSTANTS
  People,        \* researched, each a run of their own
  MaxDrafts,     \* bound: rows of outreach
  MaxEdits,      \* bound: texts typed
  MaxCalls,      \* bound: calls made
  Calls          \* calls in flight at once

VARIABLES
  rows,          \* outreach, oldest first; a draft's id is its place
  shown,         \* by person: the page's draft; id 0 is one without a row
  calls,         \* by call: its kind, draft, and the copy it will write back
  typed, made    \* texts typed and calls made so far
pageVars == <<rows, shown, calls, typed, made>>

None == [id |-> 0, state |-> "none", outcome |-> "none"]
Idle == [kind |-> "idle", person |-> "none", id |-> 0, runs |-> <<>>, answer |-> "none"]
Init ==
  /\ rows = <<>> /\ shown = [p \in People |-> None]
  /\ calls = [c \in Calls |-> Idle] /\ typed = 0 /\ made = 0

Draft(id) == [id |-> id, state |-> rows[id].state, outcome |-> rows[id].outcome]
(* The rows come newest first and a Map keeps the last it is given: a person's *)
(* oldest draft.                                                               *)
OldestOf(p) ==
  LET mine == {i \in DOMAIN rows : rows[i].person = p}
  IN IF mine = {} THEN None ELSE Draft(CHOOSE i \in mine : \A j \in mine : i <= j)
Queue == [p \in People |-> OldestOf(p)]

-----------------------------------------------------------------------------
(* The founder.  A button shows for the state its draft has on the page.       *)
Call(c, kind, p) ==
  /\ calls[c] = Idle /\ made < MaxCalls /\ made' = made + 1
  /\ calls' = [calls EXCEPT ![c] =
       [kind |-> kind, person |-> p, id |-> shown[p].id, runs |-> shown, answer |-> "none"]]
  /\ UNCHANGED <<rows, shown, typed>>
Generate(c, p) == shown[p] = None /\ Call(c, "generate", p)
Approve(c, p) == shown[p].id # 0 /\ shown[p].state \in {"waiting", "edited"} /\ Call(c, "approve", p)
Send(c, p) == shown[p].id # 0 /\ shown[p].state = "approved" /\ Call(c, "send", p)
Tag(c, p) == shown[p].id # 0 /\ Call(c, "outcome", p)
editDraft(p) ==
  /\ shown[p] # None /\ shown[p].state \in {"waiting", "edited"} /\ typed < MaxEdits
  /\ typed' = typed + 1
  /\ shown' = [shown EXCEPT ![p].state = "edited"]
  /\ UNCHANGED <<rows, calls, made>>

-----------------------------------------------------------------------------
(* The routes: one row per person generated for; approval of a waiting draft;  *)
(* a send of an approved one; a tag.  A refused call answers no.               *)
Serve(c) ==
  LET q == calls[c]
      Answer(a) == calls' = [calls EXCEPT ![c].answer = a]
  IN /\ q # Idle /\ q.answer = "none"
     /\ \/ /\ q.kind = "generate" /\ Len(rows) < MaxDrafts
           /\ rows' = Append(rows, [person |-> q.person, state |-> "waiting", outcome |-> "none"])
           /\ calls' = [calls EXCEPT ![c] = [q EXCEPT !.answer = "ok", !.id = Len(rows) + 1]]
        \/ /\ q.kind = "approve" /\ rows[q.id].state # "sent"
           /\ rows' = [rows EXCEPT ![q.id].state = "approved"] /\ Answer("ok")
        \/ /\ q.kind = "send" /\ rows[q.id].state = "approved"
           /\ rows' = [rows EXCEPT ![q.id].state = "sent"] /\ Answer("ok")
        \/ /\ q.kind = "outcome" /\ rows' = [rows EXCEPT ![q.id].outcome = "replied"]
           /\ Answer("ok")
        \/ Answer("no") /\ UNCHANGED rows
     /\ UNCHANGED <<shown, typed, made>>

(* The answers, each written over the copy of its call.                        *)
Answers(c, kind, draft) ==
  /\ calls[c].kind = kind /\ calls[c].answer # "none"
  /\ shown' = IF calls[c].answer = "ok" THEN [calls[c].runs EXCEPT ![calls[c].person] = draft] ELSE shown
  /\ calls' = [calls EXCEPT ![c] = Idle]
  /\ UNCHANGED <<rows, typed, made>>
Of(c) == calls[c].runs[calls[c].person]
(* A refused draft is shown too, without an id: it cannot be approved.         *)
GenerateAnswers(c) ==
  /\ calls[c].kind = "generate" /\ calls[c].answer # "none"
  /\ shown' = [calls[c].runs EXCEPT ![calls[c].person] =
       IF calls[c].answer = "ok" THEN Draft(calls[c].id)
       ELSE [None EXCEPT !.state = "waiting"]]
  /\ calls' = [calls EXCEPT ![c] = Idle]
  /\ UNCHANGED <<rows, typed, made>>
ApproveAnswers(c) == Answers(c, "approve", [Of(c) EXCEPT !.state = "approved"])
SendAnswers(c) == Answers(c, "send", [Of(c) EXCEPT !.state = "sent"])
TagAnswers(c) == Answers(c, "outcome", [Of(c) EXCEPT !.outcome = "replied"])
(* onStale: the rows as they are now; what was typed is gone.                  *)
loadPmf ==
  /\ shown' = Queue /\ shown' # shown
  /\ UNCHANGED <<rows, calls, typed, made>>

Next ==
  \/ loadPmf
  \/ \E p \in People : editDraft(p)
  \/ \E c \in Calls :
       \/ Serve(c)
       \/ GenerateAnswers(c) \/ ApproveAnswers(c) \/ SendAnswers(c) \/ TagAnswers(c)
       \/ \E p \in People : Generate(c, p) \/ Approve(c, p) \/ Send(c, p) \/ Tag(c, p)

-----------------------------------------------------------------------------
(* The page never shows a draft further along than its row is: nothing is      *)
(* called approved or sent on the strength of a call that was refused or is    *)
(* another draft's (approveDraft, sendDraft; with no other writer).            *)
PageIsNotAhead ==
  \A p \in People :
    LET d == shown[p] IN
    /\ d.state \in {"approved", "sent"} => d.id # 0 /\ rows[d.id].state \in {d.state, "sent"}
    /\ d.id # 0 => rows[d.id].person = p
=============================================================================
