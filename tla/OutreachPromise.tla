--------------------------- MODULE OutreachPromise ---------------------------
(***************************************************************************)
(* What outreach promises, seen from outside: an approver accepts a text,  *)
(* an accepted text may leave, what left may be logged under the name of   *)
(* an approver, and a person's log may be erased.  No rows, no handlers.   *)
(***************************************************************************)
CONSTANTS Requests, Drafts, Bodies, Actors, Approvers, None

VARIABLES approvals, mailed, deliveries

vars == <<approvals, mailed, deliveries>>

Init == approvals = {} /\ mailed = {} /\ deliveries = {}

Approve(r, d, a, b) ==
  /\ approvals' = approvals \cup {[req |-> r, draft |-> d, actor |-> a, body |-> b]}
  /\ UNCHANGED <<mailed, deliveries>>

\* One message per send request, of a text that was accepted.
Mail(r, d, b) ==
  /\ \A m \in mailed : m.req # r
  /\ \E a \in approvals : a.draft = d /\ a.body = b
  /\ mailed' = mailed \cup {[req |-> r, draft |-> d, body |-> b]}
  /\ UNCHANGED <<approvals, deliveries>>

Log(r, d, a) ==
  /\ \E m \in mailed : m.req = r /\ m.draft = d
  /\ \E p \in approvals : p.draft = d /\ p.actor = a
  /\ deliveries' = deliveries \cup {[req |-> r, draft |-> d, by |-> a]}
  /\ UNCHANGED <<approvals, mailed>>

\* Deleting a person erases the log of all the drafts it names.
Erase(S) ==
  /\ deliveries' = {l \in deliveries : l.draft \notin S}
  /\ UNCHANGED <<approvals, mailed>>

Next ==
  \/ \E r \in Requests, d \in Drafts, a \in Approvers, b \in Bodies :
       Approve(r, d, a, b)
  \/ \E r \in Requests, d \in Drafts, b \in Bodies : Mail(r, d, b)
  \/ \E r \in Requests, d \in Drafts, a \in Approvers : Log(r, d, a)
  \/ \E S \in SUBSET Drafts : Erase(S)

Spec == Init /\ [][Next]_vars
=============================================================================
