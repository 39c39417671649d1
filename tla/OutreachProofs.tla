--------------------------- MODULE OutreachProofs ---------------------------
(***************************************************************************)
(* Proofs about Outreach, for every set of requests, drafts, texts and     *)
(* actors, every environment (Concurrent, Faults) and every deletion.      *)
(*                                                                         *)
(* The argument: IInv (stated in Outreach, checked by TLC in the run       *)
(* outreach_safety) holds initially and every action keeps it.  One lemma  *)
(* per action; the handler actions share two lemmas about what Goto and    *)
(* LoadRow do to the handlers.                                             *)
(***************************************************************************)
EXTENDS Outreach, TLAPS, FiniteSetTheorems

\* Handler r is now at step s, and nothing else about any handler changed.
Moved(r, s) ==
  /\ req' \in [Requests -> Handler]
  /\ req'[r].pc = s /\ req'[r].kind = req[r].kind
  /\ req'[r].draft = req[r].draft /\ req'[r].actor = req[r].actor
  /\ req'[r].text = req[r].text
  /\ \A q \in Requests \ {r} : req'[q] = req[q]

LEMMA GotoEffect ==
  ASSUME TypeOK, NEW r \in Requests, NEW s \in Steps, Goto(r, s)
  PROVE  Moved(r, s) /\ req'[r].seen = req[r].seen
BY SMTT(40) DEF TypeOK, Handler, Goto, Moved

LEMMA LoadRowEffect ==
  ASSUME TypeOK, NEW r \in Requests, req[r].draft \in Drafts, NEW s \in Steps,
         LoadRow(r, s)
  PROVE  /\ Moved(r, s) /\ req'[r].seen = outreach[req[r].draft]
         /\ UNCHANGED <<outreach, deliveries, audited, tags, emails, purge,
                        approvals, mailed>>
<1>1. /\ req' = [req EXCEPT ![r].pc = s, ![r].seen = outreach[req[r].draft]]
      /\ UNCHANGED <<outreach, deliveries, audited, tags, emails, purge, approvals, mailed>>
  BY DEF LoadRow, tables, history
<1>2. req[r] \in Handler /\ outreach[req[r].draft] \in Row
  BY DEF TypeOK
<1> DEFINE h == [req[r] EXCEPT !.pc = s, !.seen = outreach[req[r].draft]]
<1>3. h \in Handler /\ h.pc = s /\ h.seen = outreach[req[r].draft] /\ h.kind = req[r].kind
      /\ h.draft = req[r].draft /\ h.actor = req[r].actor /\ h.text = req[r].text
  BY <1>2 DEF Handler
<1>4. req' = [req EXCEPT ![r] = h] /\ req \in [Requests -> Handler]
  BY <1>1 DEF TypeOK
<1> HIDE DEF h
<1> QED
  BY ZenonT(60), <1>1, <1>3, <1>4 DEF Moved

\* A handler in flight has a draft and a kind.
LEMMA BusyHandler ==
  ASSUME IInv, NEW r \in Requests, req[r].pc # "idle"
  PROVE  req[r].draft \in Drafts /\ req[r].kind \in Kinds /\ req[r] \in Handler
BY DEF IInv, HandlersBound, TypeOK

LEMMA InitInductive == Init => IInv
BY OutreachAssumption
DEF Init, IInv, TypeOK, HandlersBound, RowsApproved, CopiesApproved, MailOnce,
    MailedAt, ApproversApproved, NothingSendsUnapproved, LogIsTrue, SentWasMailed,
    Handler, Row, NoRow, Idle, Steps, Settled

LEMMA ApproveLoadKeeps ==
  ASSUME IInv, NEW r \in Requests, ApproveLoad(r) PROVE IInv'
<1>1. req[r].pc = "approveLoad"
  BY DEF ApproveLoad
<1>2. req[r].draft \in Drafts /\ req[r].kind \in Kinds /\ req[r] \in Handler
  BY <1>1, BusyHandler
<1>3. PICK s \in {"failed", "approveUpdate"} : LoadRow(r, s)
  BY DEF ApproveLoad
<1>4. Moved(r, s) /\ req'[r].seen = outreach[req[r].draft]
  BY <1>2, <1>3, LoadRowEffect DEF IInv, Steps, Settled
<1>5. UNCHANGED <<outreach, deliveries, audited, tags, emails, purge, approvals,
                  mailed>>
  BY <1>2, <1>3, LoadRowEffect DEF IInv, Steps, Settled
<1> USE <1>1, <1>2, <1>3, <1>4, <1>5 DEF IInv, Moved
<1>6. TypeOK' /\ HandlersBound'
  BY SMTT(60) DEF TypeOK, HandlersBound, Row
<1>7. RowsApproved'
  BY DEF RowsApproved, HandlersBound, TypeOK, Row
<1>8. CopiesApproved'
  BY DEF CopiesApproved, RowsApproved, IsApproved
<1>9. MailOnce'
  BY DEF MailOnce, MailedAt, HandlersBound
<1>10. ApproversApproved' /\ NothingSendsUnapproved'
  BY DEF ApproversApproved, HandlersBound, NothingSendsUnapproved, Approved,
      CopiesApproved
<1>11. LogIsTrue'
  BY DEF LogIsTrue, CopiesApproved, MailOnce, MailedAt
<1>12. SentWasMailed'
  BY DEF SentWasMailed, MailOnce, MailedAt, TypeOK, Row
<1> QED
  BY <1>6, <1>7, <1>8, <1>9, <1>10, <1>11, <1>12

LEMMA EditLoadKeeps ==
  ASSUME IInv, NEW r \in Requests, EditLoad(r) PROVE IInv'
<1>1. req[r].pc = "editLoad"
  BY DEF EditLoad
<1>2. req[r].draft \in Drafts /\ req[r].kind \in Kinds /\ req[r] \in Handler
  BY <1>1, BusyHandler
<1>3. PICK s \in {"failed", "ok", "editUpdate"} : LoadRow(r, s)
  BY DEF EditLoad
<1>4. Moved(r, s) /\ req'[r].seen = outreach[req[r].draft]
  BY <1>2, <1>3, LoadRowEffect DEF IInv, Steps, Settled
<1>5. UNCHANGED <<outreach, deliveries, audited, tags, emails, purge, approvals,
                  mailed>>
  BY <1>2, <1>3, LoadRowEffect DEF IInv, Steps, Settled
<1> USE <1>1, <1>2, <1>3, <1>4, <1>5 DEF IInv, Moved
<1>6. TypeOK' /\ HandlersBound'
  BY DEF TypeOK, HandlersBound, Row
<1>7. RowsApproved'
  BY DEF RowsApproved, HandlersBound, TypeOK, Row
<1>8. CopiesApproved'
  BY DEF CopiesApproved, RowsApproved, IsApproved
<1>9. MailOnce'
  BY DEF MailOnce, MailedAt, HandlersBound
<1>10. ApproversApproved' /\ NothingSendsUnapproved'
  BY DEF ApproversApproved, HandlersBound, NothingSendsUnapproved, Approved,
      CopiesApproved
<1>11. LogIsTrue'
  BY DEF LogIsTrue, CopiesApproved, MailOnce, MailedAt
<1>12. SentWasMailed'
  BY DEF SentWasMailed, MailOnce, MailedAt, TypeOK, Row
<1> QED
  BY <1>6, <1>7, <1>8, <1>9, <1>10, <1>11, <1>12

LEMMA SendLookupKeeps ==
  ASSUME IInv, NEW r \in Requests, SendLookup(r) PROVE IInv'
<1>1. req[r].pc = "lookup"
  BY DEF SendLookup
<1>2. req[r].draft \in Drafts /\ req[r].kind \in Kinds /\ req[r] \in Handler
  BY <1>1, BusyHandler
<1>3. PICK s \in {"failed", "load"} : LoadRow(r, s)
  BY DEF SendLookup
<1>4. Moved(r, s) /\ req'[r].seen = outreach[req[r].draft]
  BY <1>2, <1>3, LoadRowEffect DEF IInv, Steps, Settled
<1>5. UNCHANGED <<outreach, deliveries, audited, tags, emails, purge, approvals,
                  mailed>>
  BY <1>2, <1>3, LoadRowEffect DEF IInv, Steps, Settled
<1> USE <1>1, <1>2, <1>3, <1>4, <1>5 DEF IInv, Moved
<1>6. TypeOK' /\ HandlersBound'
  BY DEF TypeOK, HandlersBound, Row
<1>7. RowsApproved'
  BY DEF RowsApproved, HandlersBound, TypeOK, Row
<1>8. CopiesApproved'
  BY DEF CopiesApproved, RowsApproved, IsApproved
<1>9. MailOnce'
  BY DEF MailOnce, MailedAt, HandlersBound
<1>10. ApproversApproved' /\ NothingSendsUnapproved'
  BY DEF ApproversApproved, HandlersBound, NothingSendsUnapproved, Approved,
      CopiesApproved
<1>11. LogIsTrue'
  BY DEF LogIsTrue, CopiesApproved, MailOnce, MailedAt
<1>12. SentWasMailed'
  BY DEF SentWasMailed, MailOnce, MailedAt, TypeOK, Row
<1> QED
  BY <1>6, <1>7, <1>8, <1>9, <1>10, <1>11, <1>12

LEMMA DeliverLoadKeeps ==
  ASSUME IInv, NEW r \in Requests, DeliverLoad(r) PROVE IInv'
<1>1. req[r].pc = "load"
  BY DEF DeliverLoad
<1>2. req[r].draft \in Drafts /\ req[r].kind \in Kinds /\ req[r] \in Handler
  BY <1>1, BusyHandler
<1>3. PICK s \in {"recipient", "failed"} :
          LoadRow(r, s) /\ (s = "recipient" => IsApproved(outreach[req[r].draft]))
  BY DEF DeliverLoad
<1>4. Moved(r, s) /\ req'[r].seen = outreach[req[r].draft]
  BY <1>2, <1>3, LoadRowEffect DEF IInv, Steps, Settled
<1>5. UNCHANGED <<outreach, deliveries, audited, tags, emails, purge, approvals,
                  mailed>>
  BY <1>2, <1>3, LoadRowEffect DEF IInv, Steps, Settled
<1> USE <1>1, <1>2, <1>3, <1>4, <1>5 DEF IInv, Moved
<1>6. TypeOK' /\ HandlersBound'
  BY DEF TypeOK, HandlersBound, Row
<1>7. RowsApproved'
  BY DEF RowsApproved, HandlersBound, TypeOK, Row
<1>8. CopiesApproved'
  BY DEF CopiesApproved, RowsApproved, IsApproved
<1>9. MailOnce'
  BY DEF MailOnce, MailedAt, HandlersBound
<1>10. ApproversApproved' /\ NothingSendsUnapproved'
  BY DEF ApproversApproved, HandlersBound, NothingSendsUnapproved, Approved,
      CopiesApproved
<1>11. LogIsTrue'
  BY DEF LogIsTrue, CopiesApproved, MailOnce, MailedAt
<1>12. SentWasMailed'
  BY DEF SentWasMailed, MailOnce, MailedAt, TypeOK, Row
<1> QED
  BY <1>6, <1>7, <1>8, <1>9, <1>10, <1>11, <1>12

LEMMA TagCheckKeeps ==
  ASSUME IInv, NEW r \in Requests, TagCheck(r) PROVE IInv'
<1>1. req[r].pc = "tagCheck"
  BY DEF TagCheck
<1>2. req[r].draft \in Drafts /\ req[r].kind \in Kinds /\ req[r] \in Handler
  BY <1>1, BusyHandler
<1>3. PICK s \in {"failed", "tagWrite"} : LoadRow(r, s)
  BY DEF TagCheck
<1>4. Moved(r, s) /\ req'[r].seen = outreach[req[r].draft]
  BY <1>2, <1>3, LoadRowEffect DEF IInv, Steps, Settled
<1>5. UNCHANGED <<outreach, deliveries, audited, tags, emails, purge, approvals,
                  mailed>>
  BY <1>2, <1>3, LoadRowEffect DEF IInv, Steps, Settled
<1> USE <1>1, <1>2, <1>3, <1>4, <1>5 DEF IInv, Moved
<1>6. TypeOK' /\ HandlersBound'
  BY ZenonT(60) DEF TypeOK, HandlersBound, Row
<1>7. RowsApproved'
  BY DEF RowsApproved, HandlersBound, TypeOK, Row
<1>8. CopiesApproved'
  BY DEF CopiesApproved, RowsApproved, IsApproved
<1>9. MailOnce'
  BY DEF MailOnce, MailedAt, HandlersBound
<1>10. ApproversApproved' /\ NothingSendsUnapproved'
  BY DEF ApproversApproved, HandlersBound, NothingSendsUnapproved, Approved,
      CopiesApproved
<1>11. LogIsTrue'
  BY DEF LogIsTrue, CopiesApproved, MailOnce, MailedAt
<1>12. SentWasMailed'
  BY DEF SentWasMailed, MailOnce, MailedAt, TypeOK, Row
<1> QED
  BY <1>6, <1>7, <1>8, <1>9, <1>10, <1>11, <1>12

LEMMA QueueInsertKeeps ==
  ASSUME IInv, NEW r \in Requests, QueueInsert(r) PROVE IInv'
<1>1. req[r].pc = "insert"
  BY DEF QueueInsert
<1>2. req[r].draft \in Drafts /\ req[r].kind \in Kinds /\ req[r] \in Handler
  BY <1>1, BusyHandler
<1>3. Moved(r, "audit") /\ req'[r].seen = req[r].seen
  BY <1>1, GotoEffect DEF QueueInsert, IInv, Steps, Settled
<1>4. req[r].text \in Bodies /\ req[r].kind # "send"
  BY <1>1 DEF IInv, HandlersBound, MailOnce
<1> USE <1>1, <1>2, <1>3, <1>4 DEF IInv, Moved, QueueInsert, tables,
        history, Update
<1>5. TypeOK' /\ HandlersBound'
  BY DEF TypeOK, HandlersBound, Row
<1>6. RowsApproved'
  BY DEF RowsApproved, HandlersBound, TypeOK, Row
<1>7. CopiesApproved'
  BY DEF CopiesApproved, RowsApproved, IsApproved
<1>8. MailOnce'
  BY DEF MailOnce, MailedAt, HandlersBound
<1>9. ApproversApproved' /\ NothingSendsUnapproved'
  BY DEF ApproversApproved, HandlersBound, NothingSendsUnapproved, Approved,
      CopiesApproved
<1>10. LogIsTrue'
  BY DEF LogIsTrue, CopiesApproved, MailOnce, MailedAt
<1>11. SentWasMailed'
  BY DEF SentWasMailed, MailOnce, MailedAt, TypeOK, Row
<1> QED
  BY <1>5, <1>6, <1>7, <1>8, <1>9, <1>10, <1>11

LEMMA ApproveUpdateKeeps ==
  ASSUME IInv, NEW r \in Requests, ApproveUpdate(r) PROVE IInv'
<1>1. req[r].pc = "approveUpdate"
  BY DEF ApproveUpdate
<1>2. req[r].draft \in Drafts /\ req[r].kind \in Kinds /\ req[r] \in Handler
  BY <1>1, BusyHandler
<1>3. Moved(r, "audit") /\ req'[r].seen = req[r].seen
  BY <1>1, GotoEffect DEF ApproveUpdate, IInv, Steps, Settled
<1>4. req[r].actor \in Approvers /\ req[r].actor \in Actors
  BY <1>1, OutreachAssumption DEF IInv, HandlersBound
<1>5. outreach[req[r].draft] \in Row
  BY <1>2 DEF IInv, TypeOK
<1>6. [req |-> r, draft |-> req[r].draft, actor |-> req[r].actor,
       body |-> outreach[req[r].draft].body]
        \in [req: Requests, draft: Drafts, actor: Actors, body: Bodies \cup {None}]
  BY <1>2, <1>4, <1>5 DEF Row
<1> USE <1>1, <1>2, <1>3, <1>4, <1>5 DEF IInv, Moved, ApproveUpdate, tables,
        history, Update
<1>7. TypeOK' /\ HandlersBound'
  <2>1. outreach' \in [Drafts -> Row]
    BY DEF TypeOK, Row
  <2>2. approvals' \subseteq [req: Requests, draft: Drafts, actor: Actors,
                              body: Bodies \cup {None}]
    BY <1>6 DEF TypeOK
  <2> QED
    BY <2>1, <2>2 DEF TypeOK, HandlersBound
<1>8. RowsApproved'
  <2> DEFINE a0 == [req |-> r, draft |-> req[r].draft, actor |-> req[r].actor,
                    body |-> outreach[req[r].draft].body]
  <2>1. ASSUME outreach[req[r].draft].state # "absent"
        PROVE  RowsApproved'
    <3>1. a0 \in approvals' /\ approvals \subseteq approvals'
      BY <2>1
    <3>2. \A d \in Drafts \ {req[r].draft} : outreach'[d] = outreach[d]
      BY <2>1 DEF TypeOK
    <3>3. /\ outreach'[req[r].draft].state = "approved"
          /\ outreach'[req[r].draft].by = a0.actor
          /\ outreach'[req[r].draft].body = a0.body
      BY <2>1 DEF TypeOK, Row
    <3>4. a0.draft = req[r].draft /\ a0.body \in Bodies
      BY <2>1 DEF RowsApproved
    <3> HIDE DEF a0
    <3> QED
      BY <3>1, <3>2, <3>3, <3>4 DEF RowsApproved
  <2>2. CASE outreach[req[r].draft].state = "absent"
    BY <2>2 DEF RowsApproved
  <2> QED
    BY SMTT(60), <2>1, <2>2
<1>9. CopiesApproved'
  BY DEF CopiesApproved, RowsApproved, IsApproved
<1>10. MailOnce'
  BY SMTT(60) DEF MailOnce, MailedAt, HandlersBound
<1>11. ApproversApproved' /\ NothingSendsUnapproved'
  BY DEF ApproversApproved, HandlersBound, NothingSendsUnapproved, Approved,
      CopiesApproved
<1>12. LogIsTrue'
  BY DEF LogIsTrue, CopiesApproved, MailOnce, MailedAt
<1>13. SentWasMailed'
  BY DEF SentWasMailed, MailOnce, MailedAt, TypeOK, Row
<1> QED
  BY <1>7, <1>8, <1>9, <1>10, <1>11, <1>12, <1>13

LEMMA EditUpdateKeeps ==
  ASSUME IInv, NEW r \in Requests, EditUpdate(r) PROVE IInv'
<1>1. req[r].pc = "editUpdate"
  BY DEF EditUpdate
<1>2. req[r].draft \in Drafts /\ req[r].kind \in Kinds /\ req[r] \in Handler
  BY <1>1, BusyHandler
<1>3. Moved(r, "reload") /\ req'[r].seen = req[r].seen
  BY <1>1, GotoEffect DEF EditUpdate, IInv, Steps, Settled
<1> USE <1>1, <1>2, <1>3 DEF IInv, Moved, EditUpdate, tables,
        history, Update
<1>4. TypeOK' /\ HandlersBound'
  BY ZenonT(60) DEF TypeOK, HandlersBound, Row
<1>5. RowsApproved'
  BY DEF RowsApproved, HandlersBound, TypeOK, Row
<1>6. CopiesApproved'
  BY DEF CopiesApproved, RowsApproved, IsApproved
<1>7. MailOnce'
  BY DEF MailOnce, MailedAt, HandlersBound
<1>8. ApproversApproved' /\ NothingSendsUnapproved'
  BY DEF ApproversApproved, HandlersBound, NothingSendsUnapproved, Approved,
      CopiesApproved
<1>9. LogIsTrue'
  BY DEF LogIsTrue, CopiesApproved, MailOnce, MailedAt
<1>10. SentWasMailed'
  BY DEF SentWasMailed, MailOnce, MailedAt, TypeOK, Row
<1> QED
  BY <1>4, <1>5, <1>6, <1>7, <1>8, <1>9, <1>10

LEMMA DeliverRecipientKeeps ==
  ASSUME IInv, NEW r \in Requests, DeliverRecipient(r) PROVE IInv'
<1>1. req[r].pc = "recipient"
  BY DEF DeliverRecipient
<1>2. req[r].draft \in Drafts /\ req[r].kind \in Kinds /\ req[r] \in Handler
  BY <1>1, BusyHandler
<1>3. PICK s \in {"credentials", "failed"} : Goto(r, s)
  BY DEF DeliverRecipient
<1>4. Moved(r, s) /\ req'[r].seen = req[r].seen
  BY <1>2, <1>3, GotoEffect DEF IInv, Steps, Settled
<1> USE <1>1, <1>2, <1>3, <1>4 DEF IInv, Moved, DeliverRecipient, tables,
        history, Update
<1>5. TypeOK' /\ HandlersBound'
  BY SMTT(60) DEF TypeOK, HandlersBound, Row
<1>6. RowsApproved'
  BY DEF RowsApproved, HandlersBound, TypeOK, Row
<1>7. CopiesApproved'
  BY DEF CopiesApproved, RowsApproved, IsApproved
<1>8. MailOnce'
  BY DEF MailOnce, MailedAt, HandlersBound
<1>9. ApproversApproved' /\ NothingSendsUnapproved'
  BY DEF ApproversApproved, HandlersBound, NothingSendsUnapproved, Approved,
      CopiesApproved
<1>10. LogIsTrue'
  BY DEF LogIsTrue, CopiesApproved, MailOnce, MailedAt
<1>11. SentWasMailed'
  BY DEF SentWasMailed, MailOnce, MailedAt, TypeOK, Row
<1> QED
  BY <1>5, <1>6, <1>7, <1>8, <1>9, <1>10, <1>11

LEMMA DeliverCredentialsKeeps ==
  ASSUME IInv, NEW r \in Requests, DeliverCredentials(r) PROVE IInv'
<1>1. req[r].pc = "credentials"
  BY DEF DeliverCredentials
<1>2. req[r].draft \in Drafts /\ req[r].kind \in Kinds /\ req[r] \in Handler
  BY <1>1, BusyHandler
<1>3. PICK s \in {"mail", "failed"} : Goto(r, s)
  BY DEF DeliverCredentials
<1>4. Moved(r, s) /\ req'[r].seen = req[r].seen
  BY <1>2, <1>3, GotoEffect DEF IInv, Steps, Settled
<1> USE <1>1, <1>2, <1>3, <1>4 DEF IInv, Moved, DeliverCredentials, tables,
        history, Update
<1>5. TypeOK' /\ HandlersBound'
  BY DEF TypeOK, HandlersBound, Row
<1>6. RowsApproved'
  BY DEF RowsApproved, HandlersBound, TypeOK, Row
<1>7. CopiesApproved'
  BY DEF CopiesApproved, RowsApproved, IsApproved
<1>8. MailOnce'
  BY DEF MailOnce, MailedAt, HandlersBound
<1>9. ApproversApproved' /\ NothingSendsUnapproved'
  BY DEF ApproversApproved, HandlersBound, NothingSendsUnapproved, Approved,
      CopiesApproved
<1>10. LogIsTrue'
  BY DEF LogIsTrue, CopiesApproved, MailOnce, MailedAt
<1>11. SentWasMailed'
  BY DEF SentWasMailed, MailOnce, MailedAt, TypeOK, Row
<1> QED
  BY <1>5, <1>6, <1>7, <1>8, <1>9, <1>10, <1>11

LEMMA DeliverMailKeeps ==
  ASSUME IInv, NEW r \in Requests, DeliverMail(r) PROVE IInv'
<1>1. req[r].pc = "mail"
  BY DEF DeliverMail
<1>2. req[r].draft \in Drafts /\ req[r].kind \in Kinds /\ req[r] \in Handler
  BY <1>1, BusyHandler
<1>3. Moved(r, "mark") /\ req'[r].seen = req[r].seen
  BY <1>1, GotoEffect DEF DeliverMail, IInv, Steps, Settled
<1>4. [req |-> r, draft |-> req[r].draft, body |-> req[r].seen.body]
        \in [req: Requests, draft: Drafts, body: Bodies \cup {None}]
  BY <1>2 DEF Handler, Row
<1> USE <1>1, <1>2, <1>3 DEF IInv, Moved, DeliverMail, tables,
        history, Update
<1>5. TypeOK' /\ HandlersBound'
  BY <1>4 DEF TypeOK, HandlersBound
<1>6. RowsApproved'
  BY DEF RowsApproved, HandlersBound, TypeOK, Row
<1>7. CopiesApproved'
  BY DEF CopiesApproved, RowsApproved, IsApproved
<1>8. MailOnce'
  <2> DEFINE m0 == [req |-> r, draft |-> req[r].draft, body |-> req[r].seen.body]
  <2>1. mailed' = mailed \cup {m0} /\ m0.req = r /\ m0.draft = req[r].draft
        /\ audited' = audited
    OBVIOUS
  <2>2. MailedAt(r)'
    BY <2>1 DEF MailedAt
  <2>3. \A q \in Requests \ {r} : MailedAt(q) => MailedAt(q)'
    BY <2>1 DEF MailedAt
  <2> HIDE DEF m0
  <2> QED
    BY <2>1, <2>2, <2>3 DEF MailOnce
<1>9. ApproversApproved' /\ NothingSendsUnapproved'
  BY DEF ApproversApproved, HandlersBound, NothingSendsUnapproved, Approved,
      CopiesApproved
<1>10. LogIsTrue'
  BY DEF LogIsTrue, CopiesApproved, MailOnce, MailedAt
<1>11. SentWasMailed'
  BY DEF SentWasMailed, MailOnce, MailedAt, TypeOK, Row
<1> QED
  BY <1>5, <1>6, <1>7, <1>8, <1>9, <1>10, <1>11

LEMMA DeliverMailAnswerLostKeeps ==
  ASSUME IInv, NEW r \in Requests, DeliverMailAnswerLost(r) PROVE IInv'
<1>1. req[r].pc = "mail"
  BY DEF DeliverMailAnswerLost
<1>2. req[r].draft \in Drafts /\ req[r].kind \in Kinds /\ req[r] \in Handler
  BY <1>1, BusyHandler
<1>3. Moved(r, "failed") /\ req'[r].seen = req[r].seen
  BY <1>1, GotoEffect DEF DeliverMailAnswerLost, IInv, Steps, Settled
<1>4. [req |-> r, draft |-> req[r].draft, body |-> req[r].seen.body]
        \in [req: Requests, draft: Drafts, body: Bodies \cup {None}]
  BY <1>2 DEF Handler, Row
<1> USE <1>1, <1>2, <1>3 DEF IInv, Moved, DeliverMailAnswerLost, tables,
        history, Update
<1>5. TypeOK' /\ HandlersBound'
  BY <1>4 DEF TypeOK, HandlersBound
<1>6. RowsApproved'
  BY DEF RowsApproved, HandlersBound, TypeOK, Row
<1>7. CopiesApproved'
  BY DEF CopiesApproved, RowsApproved, IsApproved
<1>8. MailOnce'
  BY DEF MailOnce, MailedAt, HandlersBound
<1>9. ApproversApproved' /\ NothingSendsUnapproved'
  BY DEF ApproversApproved, HandlersBound, NothingSendsUnapproved, Approved,
      CopiesApproved
<1>10. LogIsTrue'
  BY DEF LogIsTrue, CopiesApproved, MailOnce, MailedAt
<1>11. SentWasMailed'
  BY DEF SentWasMailed, MailOnce, MailedAt, TypeOK, Row
<1> QED
  BY <1>5, <1>6, <1>7, <1>8, <1>9, <1>10, <1>11

LEMMA DeliverMarkKeeps ==
  ASSUME IInv, NEW r \in Requests, DeliverMark(r) PROVE IInv'
<1>1. req[r].pc = "mark"
  BY DEF DeliverMark
<1>2. req[r].draft \in Drafts /\ req[r].kind \in Kinds /\ req[r] \in Handler
  BY <1>1, BusyHandler
<1>3. Moved(r, "log") /\ req'[r].seen = req[r].seen
  BY <1>1, GotoEffect DEF DeliverMark, IInv, Steps, Settled
<1> USE <1>1, <1>2, <1>3 DEF IInv, Moved, DeliverMark, tables,
        history, Update
<1>4. TypeOK' /\ HandlersBound'
  <2>1. outreach' \in [Drafts -> Row]
    <3>1. outreach \in [Drafts -> Row] /\ outreach[req[r].draft] \in Row
      BY DEF TypeOK
    <3>2. [outreach[req[r].draft] EXCEPT !.state = "sent"] \in Row
      BY <3>1 DEF Row
    <3> QED
      BY <3>1, <3>2
  <2>2. TypeOK'
    BY <2>1 DEF TypeOK
  <2> QED
    BY <2>2 DEF HandlersBound
<1>5. RowsApproved'
  BY DEF RowsApproved, HandlersBound, TypeOK, Row
<1>6. CopiesApproved'
  BY DEF CopiesApproved, RowsApproved, IsApproved
<1>7. MailOnce'
  BY DEF MailOnce, MailedAt, HandlersBound
<1>8. ApproversApproved' /\ NothingSendsUnapproved'
  BY DEF ApproversApproved, HandlersBound, NothingSendsUnapproved, Approved,
      CopiesApproved
<1>9. LogIsTrue'
  BY DEF LogIsTrue, CopiesApproved, MailOnce, MailedAt
<1>10. SentWasMailed'
  BY DEF SentWasMailed, MailOnce, MailedAt, TypeOK, Row
<1> QED
  BY <1>4, <1>5, <1>6, <1>7, <1>8, <1>9, <1>10

LEMMA DeliverLogKeeps ==
  ASSUME IInv, NEW r \in Requests, DeliverLog(r) PROVE IInv'
<1>1. req[r].pc = "log"
  BY DEF DeliverLog
<1>2. req[r].draft \in Drafts /\ req[r].kind \in Kinds /\ req[r] \in Handler
  BY <1>1, BusyHandler
<1>3. Moved(r, "audit") /\ req'[r].seen = req[r].seen
  BY <1>1, GotoEffect DEF DeliverLog, IInv, Steps, Settled
<1>4. [req |-> r, draft |-> req[r].draft, by |-> req[r].seen.by]
        \in [req: Requests, draft: Drafts, by: Actors \cup {None}]
  BY <1>2 DEF Handler, Row
<1> USE <1>1, <1>2, <1>3 DEF IInv, Moved, DeliverLog, tables,
        history, Update
<1>5. TypeOK' /\ HandlersBound'
  BY <1>4 DEF TypeOK, HandlersBound
<1>6. RowsApproved'
  BY DEF RowsApproved, HandlersBound, TypeOK, Row
<1>7. CopiesApproved'
  BY DEF CopiesApproved, RowsApproved, IsApproved
<1>8. MailOnce'
  BY DEF MailOnce, MailedAt, HandlersBound
<1>9. ApproversApproved' /\ NothingSendsUnapproved'
  BY DEF ApproversApproved, HandlersBound, NothingSendsUnapproved, Approved,
      CopiesApproved
<1>10. LogIsTrue'
  BY DEF LogIsTrue, CopiesApproved, MailOnce, MailedAt
<1>11. SentWasMailed'
  BY DEF SentWasMailed, MailOnce, MailedAt, TypeOK, Row
<1> QED
  BY <1>5, <1>6, <1>7, <1>8, <1>9, <1>10, <1>11

LEMMA TagWriteKeeps ==
  ASSUME IInv, NEW r \in Requests, TagWrite(r) PROVE IInv'
<1>1. req[r].pc = "tagWrite"
  BY DEF TagWrite
<1>2. req[r].draft \in Drafts /\ req[r].kind \in Kinds /\ req[r] \in Handler
  BY <1>1, BusyHandler
<1>3. Moved(r, "audit") /\ req'[r].seen = req[r].seen
  BY <1>1, GotoEffect DEF TagWrite, IInv, Steps, Settled
<1> USE <1>1, <1>2, <1>3 DEF IInv, Moved, TagWrite, tables,
        history, Update
<1>4. TypeOK' /\ HandlersBound'
  BY DEF TypeOK, HandlersBound, Row
<1>5. RowsApproved'
  BY DEF RowsApproved, HandlersBound, TypeOK, Row
<1>6. CopiesApproved'
  BY DEF CopiesApproved, RowsApproved, IsApproved
<1>7. MailOnce'
  BY DEF MailOnce, MailedAt, HandlersBound
<1>8. ApproversApproved' /\ NothingSendsUnapproved'
  BY DEF ApproversApproved, HandlersBound, NothingSendsUnapproved, Approved,
      CopiesApproved
<1>9. LogIsTrue'
  BY DEF LogIsTrue, CopiesApproved, MailOnce, MailedAt
<1>10. SentWasMailed'
  BY DEF SentWasMailed, MailOnce, MailedAt, TypeOK, Row
<1> QED
  BY <1>4, <1>5, <1>6, <1>7, <1>8, <1>9, <1>10

LEMMA WriteAuditKeeps ==
  ASSUME IInv, NEW r \in Requests, WriteAudit(r) PROVE IInv'
<1>1. req[r].pc = "audit"
  BY DEF WriteAudit
<1>2. req[r].draft \in Drafts /\ req[r].kind \in Kinds /\ req[r] \in Handler
  BY <1>1, BusyHandler
<1>3. Moved(r, "reload") /\ req'[r].seen = req[r].seen
  BY <1>1, GotoEffect DEF WriteAudit, IInv, Steps, Settled
<1> USE <1>1, <1>2, <1>3 DEF IInv, Moved, WriteAudit, tables,
        history, Update
<1>4. TypeOK' /\ HandlersBound'
  BY DEF TypeOK, HandlersBound, Row
<1>5. RowsApproved'
  BY DEF RowsApproved, HandlersBound, TypeOK, Row
<1>6. CopiesApproved'
  BY DEF CopiesApproved, RowsApproved, IsApproved
<1>7. MailOnce'
  BY DEF MailOnce, MailedAt, HandlersBound
<1>8. ApproversApproved' /\ NothingSendsUnapproved'
  BY DEF ApproversApproved, HandlersBound, NothingSendsUnapproved, Approved,
      CopiesApproved
<1>9. LogIsTrue'
  BY DEF LogIsTrue, CopiesApproved, MailOnce, MailedAt
<1>10. SentWasMailed'
  BY DEF SentWasMailed, MailOnce, MailedAt, TypeOK, Row
<1> QED
  BY <1>4, <1>5, <1>6, <1>7, <1>8, <1>9, <1>10

LEMMA ReloadKeeps ==
  ASSUME IInv, NEW r \in Requests, Reload(r) PROVE IInv'
<1>1. req[r].pc = "reload"
  BY DEF Reload
<1>2. req[r].draft \in Drafts /\ req[r].kind \in Kinds /\ req[r] \in Handler
  BY <1>1, BusyHandler
<1>3. PICK s \in {"failed", "ok"} : Goto(r, s)
  BY DEF Reload
<1>4. Moved(r, s) /\ req'[r].seen = req[r].seen
  BY <1>2, <1>3, GotoEffect DEF IInv, Steps, Settled
<1> USE <1>1, <1>2, <1>3, <1>4 DEF IInv, Moved, Reload, tables,
        history, Update
<1>5. TypeOK' /\ HandlersBound'
  BY ZenonT(60) DEF TypeOK, HandlersBound, Row
<1>6. RowsApproved'
  BY DEF RowsApproved, HandlersBound, TypeOK, Row
<1>7. CopiesApproved'
  BY DEF CopiesApproved, RowsApproved, IsApproved
<1>8. MailOnce'
  BY DEF MailOnce, MailedAt, HandlersBound
<1>9. ApproversApproved' /\ NothingSendsUnapproved'
  BY DEF ApproversApproved, HandlersBound, NothingSendsUnapproved, Approved,
      CopiesApproved
<1>10. LogIsTrue'
  BY DEF LogIsTrue, CopiesApproved, MailOnce, MailedAt
<1>11. SentWasMailed'
  BY DEF SentWasMailed, MailOnce, MailedAt, TypeOK, Row
<1> QED
  BY <1>5, <1>6, <1>7, <1>8, <1>9, <1>10, <1>11

LEMMA BeginKeeps ==
  ASSUME IInv, NEW r \in Requests, NEW k \in Kinds, NEW d \in Drafts,
         NEW a \in Actors, NEW t \in Bodies \cup Outcomes \cup {None},
         Begin(r, k, d, a, t)
  PROVE  IInv'
<1> DEFINE h == [pc |-> FirstStep(k), kind |-> k, draft |-> d,
                 actor |-> IF k = "approve" THEN a ELSE None, text |-> t,
                 seen |-> NoRow]
<1>1. k \in {"queue", "approve", "send", "edit", "outcome"}
  BY OutreachAssumption
<1>2. h.pc \in {"insert", "approveLoad", "editLoad", "tagCheck", "lookup"}
      /\ h.pc \in Steps /\ h.kind = k /\ h.draft = d
  BY <1>1 DEF FirstStep, Steps
<1>3. h \in Handler
  BY <1>2 DEF Handler, NoRow, Row
<1>4. req' = [req EXCEPT ![r] = h] /\ req[r].pc = "idle"
      /\ UNCHANGED <<outreach, deliveries, audited, tags, emails, purge,
                     approvals, mailed>>
  BY DEF Begin, tables, history
<1>5. /\ h.pc = "approveLoad" => h.actor \in Approvers
      /\ h.pc \in {"insert", "editLoad"} => h.text \in Bodies
      /\ h.pc = "tagCheck" => h.text \in Outcomes \cup {None}
      /\ h.pc # "lookup" => h.kind # "send"
  BY <1>1 DEF Begin, MayCall, Text, FirstStep
<1> HIDE DEF h
<1> USE <1>2, <1>3, <1>4, <1>5 DEF IInv
<1>6. TypeOK'
  BY DEF TypeOK
<1>7. req'[r] = h /\ \A q \in Requests \ {r} : req'[q] = req[q]
  BY DEF TypeOK
<1> USE <1>7
<1>8. HandlersBound'
  BY DEF HandlersBound
<1>9. RowsApproved' /\ CopiesApproved'
  BY DEF RowsApproved, CopiesApproved
<1>10. MailOnce'
  BY DEF MailOnce, MailedAt
<1>11. ApproversApproved' /\ NothingSendsUnapproved' /\ LogIsTrue' /\ SentWasMailed'
  BY DEF ApproversApproved, NothingSendsUnapproved, Approved, LogIsTrue, SentWasMailed
<1> QED
  BY <1>6, <1>8, <1>9, <1>10, <1>11

LEMMA FailKeeps ==
  ASSUME IInv, NEW r \in Requests, Fail(r) PROVE IInv'
<1>1. req[r].pc # "idle" /\ Goto(r, "failed")
  BY DEF Fail, InFlight
<1>2. Moved(r, "failed") /\ req'[r].seen = req[r].seen
  BY <1>1, GotoEffect DEF IInv, Steps, Settled
<1>3. UNCHANGED <<outreach, deliveries, audited, tags, emails, purge, approvals, mailed>>
  BY DEF Fail, tables, history
<1> USE <1>1, <1>2, <1>3 DEF IInv, Moved
<1>4. TypeOK' /\ HandlersBound'
  BY DEF TypeOK, HandlersBound
<1>5. RowsApproved' /\ CopiesApproved'
  BY DEF RowsApproved, CopiesApproved
<1>6. MailOnce'
  BY DEF MailOnce, MailedAt
<1>7. ApproversApproved' /\ NothingSendsUnapproved' /\ LogIsTrue' /\ SentWasMailed'
  BY DEF ApproversApproved, NothingSendsUnapproved, Approved, LogIsTrue, SentWasMailed
<1> QED
  BY <1>4, <1>5, <1>6, <1>7

\* A deletion removes rows and delivery rows: what is left was there before.
LEMMA PurgeKeeps ==
  ASSUME IInv, NEW p \in People, PurgePerson(p) PROVE IInv'
<1>1. /\ UNCHANGED <<req, audited, approvals, mailed>>
      /\ deliveries' \subseteq deliveries
      /\ \A d \in Drafts : outreach'[d] = outreach[d] \/ outreach'[d] = NoRow
      /\ outreach' \in [Drafts -> Row]
  BY DEF IInv, TypeOK, Row, NoRow, PurgePerson, PurgeReadDrafts, PurgeDeliveries,
         PurgeDrafts, PurgeUser, PurgeStep, tables, history
<1>2. TypeOK'
  BY SMTT(60), <1>1 DEF IInv, TypeOK, PurgePerson, PurgeReadDrafts, PurgeDeliveries,
         PurgeDrafts, PurgeUser, PurgeStep, DraftsOf, tables, history
<1> USE <1>1, <1>2 DEF IInv
<1>3. HandlersBound' /\ CopiesApproved' /\ ApproversApproved'
  BY DEF HandlersBound, CopiesApproved, ApproversApproved
<1>4. RowsApproved'
  BY DEF RowsApproved, NoRow
<1>5. MailOnce'
  BY DEF MailOnce, MailedAt
<1>6. NothingSendsUnapproved' /\ LogIsTrue' /\ SentWasMailed'
  BY DEF NothingSendsUnapproved, Approved, LogIsTrue, SentWasMailed, NoRow
<1> QED
  BY <1>2, <1>3, <1>4, <1>5, <1>6

LEMMA StutterKeeps == ASSUME IInv, UNCHANGED vars PROVE IInv'
BY DEF vars, IInv, TypeOK, HandlersBound, RowsApproved, CopiesApproved, MailOnce,
       MailedAt, ApproversApproved, NothingSendsUnapproved, Approved, LogIsTrue,
       SentWasMailed

LEMMA StepInductive == ASSUME IInv, [Next]_vars PROVE IInv'
<1>1. ASSUME NEW r \in Requests, HandlerStep(r) PROVE IInv'
  BY <1>1, QueueInsertKeeps, ApproveLoadKeeps, ApproveUpdateKeeps, EditLoadKeeps,
     EditUpdateKeeps, SendLookupKeeps, DeliverLoadKeeps, DeliverRecipientKeeps,
     DeliverCredentialsKeeps, DeliverMailKeeps, DeliverMailAnswerLostKeeps,
     DeliverMarkKeeps, DeliverLogKeeps, TagCheckKeeps, TagWriteKeeps,
     WriteAuditKeeps, ReloadKeeps
  DEF HandlerStep, SendStep
<1> QED
  BY <1>1, BeginKeeps, FailKeeps, PurgeKeeps, StutterKeeps DEF Next

\* The strengthening is an invariant of every behaviour.
THEOREM Inductive == Spec => []IInv
BY InitInductive, StepInductive, PTL DEF Spec

\* Every table column, handler and deletion keeps its type.
THEOREM TypeCorrect == Spec => []TypeOK
BY Inductive, PTL DEF IInv

\* deliverOutreach: every message that left carries a text an approver accepted
\* for that draft, under any interleaving, failure, edit and deletion.
THEOREM NothingUnapprovedIsSent == Spec => []NothingSendsUnapproved
BY Inductive, PTL DEF IInv

\* The rows deliverOutreach logs are true: a mail was accepted, and the approver
\* they name approved the draft.
THEOREM LogIsTruthful == Spec => []LogIsTrue
BY Inductive, PTL DEF IInv

\* A row in state sent was mailed.
THEOREM SentRowsWereMailed == Spec => []SentWasMailed
BY Inductive, PTL DEF IInv

\* A send that answers success has mailed and is in the audit log.
THEOREM AnsweredSendsAreAudited == Spec => []AnsweredSendIsAudited
<1>1. IInv => AnsweredSendIsAudited
  BY DEF IInv, MailOnce, MailedAt, AnsweredSendIsAudited
<1> QED
  BY Inductive, <1>1, PTL

\* Together: whatever overlaps or fails, the tables tell the truth.
THEOREM RecordsStayTrue == Spec => []RecordsAreTrue
<1>1. LogIsTrue /\ SentWasMailed /\ AnsweredSendIsAudited => RecordsAreTrue
  BY DEF RecordsAreTrue
<1> QED
  BY LogIsTruthful, SentRowsWereMailed, AnsweredSendsAreAudited, <1>1, PTL
-----------------------------------------------------------------------------
(* Outreach implements OutreachPromise.                                    *)

LEMMA InitRefines == Init => Promise!Init
BY DEF Init, Promise!Init

LEMMA StepRefines == ASSUME IInv, [Next]_vars PROVE [Promise!Next]_(Promise!vars)
<1> USE OutreachAssumption
<1>1. ASSUME NEW r \in Requests, ApproveUpdate(r)
      PROVE  [Promise!Next]_(Promise!vars)
  <2>1. req[r].draft \in Drafts /\ req[r].actor \in Approvers
        /\ UNCHANGED <<mailed, deliveries>>
    BY <1>1, BusyHandler DEF ApproveUpdate, IInv, HandlersBound
  <2>2. CASE outreach[req[r].draft].state = "absent"
    BY <1>1, <2>1, <2>2 DEF ApproveUpdate, Promise!vars
  <2>3. CASE outreach[req[r].draft].state # "absent"
    <3>1. outreach[req[r].draft].body \in Bodies
      BY <2>1, <2>3 DEF IInv, RowsApproved
    <3>2. Promise!Approve(r, req[r].draft, req[r].actor, outreach[req[r].draft].body)
      BY <1>1, <2>1, <2>3 DEF ApproveUpdate, Promise!Approve
    <3> QED
      BY <2>1, <3>1, <3>2 DEF Promise!Next
  <2> QED
    BY <2>2, <2>3
<1>2. ASSUME NEW r \in Requests, DeliverMail(r) \/ DeliverMailAnswerLost(r)
      PROVE  [Promise!Next]_(Promise!vars)
  <2>1. req[r].pc = "mail" /\ UNCHANGED <<approvals, deliveries>>
        /\ mailed' = mailed \cup {[req |-> r, draft |-> req[r].draft,
                                   body |-> req[r].seen.body]}
    BY <1>2 DEF DeliverMail, DeliverMailAnswerLost, tables
  <2>2. req[r].draft \in Drafts
    BY <2>1, BusyHandler
  <2>3. req[r].seen.body \in Bodies /\ (\A m \in mailed : m.req # r)
        /\ \E a \in approvals : a.draft = req[r].draft /\ a.body = req[r].seen.body
    BY <2>1 DEF IInv, CopiesApproved, MailOnce
  <2>4. Promise!Mail(r, req[r].draft, req[r].seen.body)
    BY <2>1, <2>3 DEF Promise!Mail
  <2> QED
    BY <2>2, <2>3, <2>4 DEF Promise!Next
<1>3. ASSUME NEW r \in Requests, DeliverLog(r)
      PROVE  [Promise!Next]_(Promise!vars)
  <2>1. req[r].pc = "log" /\ UNCHANGED <<approvals, mailed>>
        /\ deliveries' = deliveries \cup {[req |-> r, draft |-> req[r].draft,
                                           by |-> req[r].seen.by]}
    BY <1>3 DEF DeliverLog, history
  <2>2. req[r].draft \in Drafts
    BY <2>1, BusyHandler
  <2>3. PICK a \in approvals : a.draft = req[r].draft /\ a.actor = req[r].seen.by
    BY <2>1 DEF IInv, CopiesApproved
  <2>4. req[r].seen.by \in Approvers
    BY <2>3 DEF IInv, ApproversApproved
  <2>5. \E m \in mailed : m.req = r /\ m.draft = req[r].draft
    BY <2>1 DEF IInv, MailOnce, MailedAt
  <2>6. Promise!Log(r, req[r].draft, req[r].seen.by)
    BY <2>1, <2>3, <2>5 DEF Promise!Log
  <2> QED
    BY <2>2, <2>4, <2>6 DEF Promise!Next
<1>4. ASSUME NEW p \in People, PurgeDeliveries(p)
      PROVE  [Promise!Next]_(Promise!vars)
  <2>1. Promise!Erase(purge[p].ids)
    BY <1>4 DEF PurgeDeliveries, PurgeStep, history, Promise!Erase
  <2>2. purge[p].ids \in SUBSET Drafts
    BY DEF IInv, TypeOK
  <2> QED
    BY <2>1, <2>2 DEF Promise!Next
<1>5. CASE UNCHANGED <<approvals, mailed, deliveries>>
  BY SMTT(40), <1>5 DEF Promise!vars
<1>6. ASSUME NEW r \in Requests, HandlerStep(r)
      PROVE  \/ ApproveUpdate(r) \/ DeliverMail(r) \/ DeliverMailAnswerLost(r)
             \/ DeliverLog(r) \/ UNCHANGED <<approvals, mailed, deliveries>>
  BY <1>6 DEF HandlerStep, SendStep, QueueInsert, ApproveLoad, EditLoad, EditUpdate,
     SendLookup, DeliverLoad, DeliverRecipient, DeliverCredentials, DeliverMark,
     TagCheck, TagWrite, WriteAudit, Reload, LoadRow, tables, history
<1>7. ASSUME NEW p \in People, PurgePerson(p)
      PROVE  PurgeDeliveries(p) \/ UNCHANGED <<approvals, mailed, deliveries>>
  BY <1>7 DEF PurgePerson, PurgeReadDrafts, PurgeDrafts, PurgeUser, PurgeStep,
     tables, history
<1>8. ASSUME NEW r \in Requests, NEW k \in Kinds, NEW d \in Drafts, NEW a \in Actors,
             NEW t \in Bodies \cup Outcomes \cup {None}, Begin(r, k, d, a, t) \/ Fail(r)
      PROVE  UNCHANGED <<approvals, mailed, deliveries>>
  BY <1>8 DEF Begin, Fail, tables, history
<1>9. CASE \E r \in Requests : Fail(r)
  BY <1>5, <1>9 DEF Fail, tables, history
<1>10. CASE UNCHANGED vars
  BY <1>5, <1>10 DEF vars
<1> QED
  BY <1>1, <1>2, <1>3, <1>4, <1>5, <1>6, <1>7, <1>8, <1>9, <1>10 DEF Next

\* The handlers, with every interleaving, failure and deletion, implement the
\* promise outreach makes: accept, then mail once per request, then log.
THEOREM ImplementsPromise == Spec => Promised
BY InitRefines, StepRefines, Inductive, PTL DEF Spec, Promised, Promise!Spec

-----------------------------------------------------------------------------
(* One mail per approval, and sent is final, until two requests meet.  CalmInv *)
(* counts: an approved row, and a delivery that read one, stand for an approval *)
(* that no mail has used yet.                                               *)
\* Counting the messages of a draft when one leaves, or an approval is accepted.
LEMMA MailCounts ==
  ASSUME IsFiniteSet(mailed), NEW m, m \notin mailed, mailed' = mailed \cup {m}
  PROVE  /\ IsFiniteSet(mailed')
         /\ \A d : /\ IsFiniteSet(MailsOf(d)) /\ Cardinality(MailsOf(d)) \in Nat
                   /\ Cardinality(MailsOf(d))' =
                        Cardinality(MailsOf(d)) + (IF m.draft = d THEN 1 ELSE 0)
<1>1. IsFiniteSet(mailed')
  BY FS_AddElement
<1>2. ASSUME NEW d
      PROVE  /\ IsFiniteSet(MailsOf(d)) /\ Cardinality(MailsOf(d)) \in Nat
             /\ Cardinality(MailsOf(d))' =
                  Cardinality(MailsOf(d)) + (IF m.draft = d THEN 1 ELSE 0)
  <2>1. IsFiniteSet(MailsOf(d)) /\ Cardinality(MailsOf(d)) \in Nat
    BY FS_Subset, FS_CardinalityType DEF MailsOf
  <2>2. CASE m.draft = d
    <3>1. MailsOf(d)' = MailsOf(d) \cup {m} /\ m \notin MailsOf(d)
      BY <2>2 DEF MailsOf
    <3> QED
      BY ZenonT(60), <2>1, <2>2, <3>1, FS_AddElement
  <2>3. CASE m.draft # d
    <3>1. MailsOf(d)' = MailsOf(d)
      BY <2>3 DEF MailsOf
    <3> QED
      BY <2>1, <2>3, <3>1
  <2> QED
    BY <2>1, <2>2, <2>3
<1> QED
  BY <1>1, <1>2

LEMMA ApprovalCounts ==
  ASSUME IsFiniteSet(approvals), NEW a, a \notin approvals,
         approvals' = approvals \cup {a}
  PROVE  /\ IsFiniteSet(approvals')
         /\ \A d : /\ IsFiniteSet(ApprovalsOf(d)) /\ Cardinality(ApprovalsOf(d)) \in Nat
                   /\ Cardinality(ApprovalsOf(d))' =
                        Cardinality(ApprovalsOf(d)) + (IF a.draft = d THEN 1 ELSE 0)
<1>1. IsFiniteSet(approvals')
  BY FS_AddElement
<1>2. ASSUME NEW d
      PROVE  /\ IsFiniteSet(ApprovalsOf(d)) /\ Cardinality(ApprovalsOf(d)) \in Nat
             /\ Cardinality(ApprovalsOf(d))' =
                  Cardinality(ApprovalsOf(d)) + (IF a.draft = d THEN 1 ELSE 0)
  <2>1. IsFiniteSet(ApprovalsOf(d)) /\ Cardinality(ApprovalsOf(d)) \in Nat
    BY FS_Subset, FS_CardinalityType DEF ApprovalsOf
  <2>2. CASE a.draft = d
    <3>1. ApprovalsOf(d)' = ApprovalsOf(d) \cup {a} /\ a \notin ApprovalsOf(d)
      BY <2>2 DEF ApprovalsOf
    <3> QED
      BY <2>1, <2>2, <3>1, FS_AddElement
  <2>3. CASE a.draft # d
    <3>1. ApprovalsOf(d)' = ApprovalsOf(d)
      BY <2>3 DEF ApprovalsOf
    <3> QED
      BY <2>1, <2>3, <3>1
  <2> QED
    BY <2>1, <2>2, <2>3
<1> QED
  BY <1>1, <1>2

LEMMA CountsAreNat ==
  ASSUME CalmInv, NEW d
  PROVE  Cardinality(MailsOf(d)) \in Nat /\ Cardinality(ApprovalsOf(d)) \in Nat
BY FS_Subset, FS_CardinalityType DEF CalmInv, HistoryIsPast, MailsOf, ApprovalsOf

LEMMA OneMailIs ==
  OneMailPerApproval <=>
    \A d \in Drafts : Cardinality(MailsOf(d)) <= Cardinality(ApprovalsOf(d))
BY DEF OneMailPerApproval, MailsOf, ApprovalsOf

LEMMA CalmInit == Init => CalmInv
<1> SUFFICES ASSUME Init PROVE CalmInv
  OBVIOUS
<1>1. IsFiniteSet(mailed) /\ IsFiniteSet(approvals)
  BY FS_EmptySet DEF Init
<1>2. IdsAreFresh /\ HistoryIsPast
  BY <1>1 DEF Init, IdsAreFresh, HistoryIsPast, Idle, NoRow
<1>3. OneMailPerApproval
  <2>1. \A d \in Drafts : MailsOf(d) = {} /\ ApprovalsOf(d) = {}
    BY DEF Init, MailsOf, ApprovalsOf
  <2> QED
    BY <2>1, FS_EmptySet, OneMailIs
<1>4. Calm /\ calm \in BOOLEAN
  BY <1>3 DEF Init, Calm, InFlight, Idle, NoRow
<1> QED
  BY <1>2, <1>4 DEF CalmInv

\* A handler that moves on and leaves the rows and the history alone.
LEMMA MoveKeepsCalm ==
  ASSUME IInv, CalmInv, NEW r \in Requests, NEW s \in Steps, InFlight(r), Moved(r, s),
         UNCHANGED <<outreach, mailed, approvals>>, calm' \in BOOLEAN, calm' => calm,
         calm' /\ s \in {"recipient", "credentials", "mail"} => Pending(req[r].draft),
         calm' /\ s \in {"approveUpdate", "editUpdate"} =>
           outreach[req[r].draft].state # "sent",
         req[r].pc = "mark" => ~calm',
         s \notin {"idle", "insert", "approveLoad"},
         s = "approveUpdate" => req[r].pc = "approveLoad"
  PROVE  CalmInv'
<1>1. \A q \in Requests : req'[q].draft = req[q].draft /\ req'[q].kind = req[q].kind
  BY DEF Moved
<1>2. \A q \in Requests : q # r => req'[q] = req[q]
  BY DEF Moved
<1>3. req'[r].pc = s /\ req[r].pc \notin {"idle", "ok", "failed"}
  BY DEF Moved, InFlight, Settled
<1>4. IdsAreFresh'
  BY <1>1, <1>2, <1>3 DEF CalmInv, IdsAreFresh
<1>5. HistoryIsPast'
  BY <1>1, <1>2, <1>3 DEF CalmInv, HistoryIsPast
<1>6. ASSUME calm' PROVE Calm'
  <2>1. Calm
    BY <1>6 DEF CalmInv
  <2>2. \A d : Pending(d)' <=> Pending(d)
    BY DEF Pending, MailsOf, ApprovalsOf
  <2>3. OneMailPerApproval'
    BY <2>1 DEF Calm, OneMailPerApproval
  <2>4. \A q, p \in Requests : InFlight(q)' /\ InFlight(p)' => q = p
    BY <1>2, <1>3, <2>1 DEF Calm, InFlight, Settled
  <2>5. \A d \in Drafts : outreach'[d].state = "approved" =>
          Pending(d)' \/ \E q \in Requests : req'[q].pc = "mark" /\ req'[q].draft = d
    BY <1>1, <1>2, <1>3, <1>6, <2>1, <2>2 DEF Calm
  <2>6. \A q \in Requests : req'[q].pc \in {"recipient", "credentials", "mail"} =>
          Pending(req[q].draft)'
    BY <1>1, <1>2, <1>3, <1>6, <2>1, <2>2 DEF Calm
  <2>7. \A q \in Requests : req'[q].pc \in {"approveUpdate", "editUpdate"} =>
          outreach'[req'[q].draft].state # "sent"
    BY <1>1, <1>2, <1>3, <1>6, <2>1 DEF Calm
  <2> QED
    BY <2>3, <2>4, <2>5, <2>6, <2>7 DEF Calm
<1> QED
  BY <1>4, <1>5, <1>6 DEF CalmInv

\* Whatever only reads, tags, logs or audits.
LEMMA QuietStepsKeepCalm ==
  ASSUME IInv, CalmInv, NEW r \in Requests,
         \/ ApproveLoad(r) \/ EditLoad(r) \/ SendLookup(r) \/ DeliverLoad(r)
         \/ DeliverRecipient(r) \/ DeliverCredentials(r) \/ DeliverLog(r)
         \/ TagCheck(r) \/ TagWrite(r) \/ WriteAudit(r) \/ Reload(r) \/ Fail(r)
  PROVE  CalmInv'
<1> USE DEF Steps, Settled
<1>10. calm \in BOOLEAN
  BY DEF CalmInv
<1>1. InFlight(r) /\ req[r].draft \in Drafts
  BY BusyHandler DEF InFlight, ApproveLoad, EditLoad, SendLookup, DeliverLoad,
     DeliverRecipient, DeliverCredentials, DeliverLog, TagCheck, TagWrite, WriteAudit,
     Reload, Fail
<1>2. TypeOK
  BY DEF IInv
<1>3. CASE ApproveLoad(r)
  <2>1. PICK s \in {"failed", "approveUpdate"} :
          LoadRow(r, s) /\ (s = "approveUpdate" => outreach[req[r].draft].state # "sent")
    <3> DEFINE next == IF outreach[req[r].draft].state \in {"absent", "sent"} THEN "failed" ELSE "approveUpdate"
    <3>1. LoadRow(r, next)
      BY <1>3, Zenon DEF ApproveLoad
    <3>2. next \in {"failed", "approveUpdate"} /\ (next = "approveUpdate" => outreach[req[r].draft].state # "sent")
      OBVIOUS
    <3> HIDE DEF next
    <3> QED
      BY <3>1, <3>2
  <2>2. Moved(r, s) /\ req[r].pc = "approveLoad" /\ UNCHANGED <<outreach, mailed, approvals, calm>>
    BY <1>1, <1>2, <1>3, <2>1, LoadRowEffect, Zenon DEF ApproveLoad, LoadRow, history
  <2> QED
    BY <1>1, <1>10, <2>1, <2>2, MoveKeepsCalm
<1>4. CASE EditLoad(r)
  <2>1. PICK s \in {"failed", "ok", "editUpdate"} :
          LoadRow(r, s) /\ (s = "editUpdate" => outreach[req[r].draft].state # "sent")
    <3> DEFINE next == CASE outreach[req[r].draft].state = "absent" -> "failed"
                       [] outreach[req[r].draft].state = "sent" -> "ok"
                       [] OTHER -> "editUpdate"
    <3>1. LoadRow(r, next)
      BY <1>4, Zenon DEF EditLoad
    <3>2. next \in {"failed", "ok", "editUpdate"} /\ (next = "editUpdate" => outreach[req[r].draft].state # "sent")
      OBVIOUS
    <3> HIDE DEF next
    <3> QED
      BY <3>1, <3>2
  <2>2. Moved(r, s) /\ req[r].pc = "editLoad" /\ UNCHANGED <<outreach, mailed, approvals, calm>>
    BY <1>1, <1>2, <1>4, <2>1, LoadRowEffect, Zenon DEF EditLoad, LoadRow, history
  <2> QED
    BY <1>1, <1>10, <2>1, <2>2, MoveKeepsCalm
<1>5. CASE SendLookup(r) \/ TagCheck(r)
  <2>1. PICK s \in {"failed", "load", "tagWrite"} : LoadRow(r, s)
    <3>1. CASE SendLookup(r)
      <4> DEFINE next == IF outreach[req[r].draft].state = "absent" THEN "failed" ELSE "load"
      <4>1. LoadRow(r, next)
        BY <3>1, Zenon DEF SendLookup
      <4>2. next \in {"failed", "load", "tagWrite"}
        OBVIOUS
      <4> QED
        BY <4>1, <4>2, Zenon
    <3>2. CASE TagCheck(r)
      <4> DEFINE next == IF outreach[req[r].draft].state = "absent" THEN "failed" ELSE "tagWrite"
      <4>1. LoadRow(r, next)
        BY <3>2, Zenon DEF TagCheck
      <4>2. next \in {"failed", "load", "tagWrite"}
        OBVIOUS
      <4> QED
        BY <4>1, <4>2, Zenon
    <3> QED
      BY <1>5, <3>1, <3>2
  <2>2. Moved(r, s) /\ req[r].pc \in {"lookup", "tagCheck"}
        /\ UNCHANGED <<outreach, mailed, approvals, calm>>
    BY <1>1, <1>2, <1>5, <2>1, LoadRowEffect, Zenon DEF SendLookup, TagCheck, LoadRow, history
  <2> QED
    BY <1>1, <1>10, <2>1, <2>2, MoveKeepsCalm
<1>6. CASE DeliverLoad(r)
  <2>1. PICK s \in {"failed", "recipient"} :
          LoadRow(r, s) /\ (s = "recipient" => outreach[req[r].draft].state = "approved")
    <3> DEFINE next == IF IsApproved(outreach[req[r].draft]) THEN "recipient" ELSE "failed"
    <3>1. LoadRow(r, next)
      BY <1>6, Zenon DEF DeliverLoad
    <3>2. next \in {"failed", "recipient"} /\ (next = "recipient" => outreach[req[r].draft].state = "approved")
      BY DEF IsApproved
    <3> HIDE DEF next
    <3> QED
      BY <3>1, <3>2
  <2>2. Moved(r, s) /\ req[r].pc = "load" /\ UNCHANGED <<outreach, mailed, approvals, calm>>
    BY <1>1, <1>2, <1>6, <2>1, LoadRowEffect, Zenon DEF DeliverLoad, LoadRow, history
  <2>3. ASSUME calm, s = "recipient" PROVE Pending(req[r].draft)
    <3>1. Calm
      BY <2>3 DEF CalmInv
    <3>2. \A q \in Requests : InFlight(q) => q = r
      BY <1>1, <3>1 DEF Calm
    <3>3. ~\E q \in Requests : req[q].pc = "mark"
      BY <2>2, <3>2 DEF InFlight
    <3> QED
      BY <1>1, <2>1, <2>3, <3>1, <3>3 DEF Calm
  <2> QED
    BY <1>1, <1>10, <2>1, <2>2, <2>3, MoveKeepsCalm
<1>7. CASE DeliverRecipient(r) \/ DeliverCredentials(r)
  <2>1. PICK s \in {"failed", "credentials", "mail"} : Goto(r, s)
    BY <1>7 DEF DeliverRecipient, DeliverCredentials
  <2>2. Moved(r, s) /\ req[r].pc \in {"recipient", "credentials"}
        /\ UNCHANGED <<outreach, mailed, approvals, calm>>
    BY <1>2, <1>7, <2>1, GotoEffect DEF DeliverRecipient, DeliverCredentials, tables, history
  <2>3. calm => Pending(req[r].draft)
    BY <2>2 DEF CalmInv, Calm
  <2> QED
    BY <1>1, <1>10, <2>1, <2>2, <2>3, MoveKeepsCalm
<1>8. CASE DeliverLog(r) \/ TagWrite(r) \/ WriteAudit(r) \/ Reload(r)
  <2>1. PICK s \in {"failed", "ok", "audit", "reload"} : Goto(r, s)
    BY SMTT(60), <1>8 DEF DeliverLog, TagWrite, WriteAudit, Reload
  <2>2. Moved(r, s) /\ req[r].pc \in {"log", "tagWrite", "audit", "reload"}
        /\ UNCHANGED <<outreach, mailed, approvals, calm>>
    BY <1>2, <1>8, <2>1, GotoEffect DEF DeliverLog, TagWrite, WriteAudit, Reload, tables, history
  <2> QED
    BY <1>1, <1>10, <2>1, <2>2, MoveKeepsCalm
<1>9. CASE Fail(r)
  <2>1. Moved(r, "failed") /\ UNCHANGED <<outreach, mailed, approvals>>
    BY <1>2, <1>9, GotoEffect DEF Fail, tables
  <2>2. calm' \in BOOLEAN /\ (calm' => calm) /\ (req[r].pc = "mark" => ~calm')
    BY <1>9, <1>10, Zenon DEF Fail
  <2> QED
    BY <1>1, <1>10, <2>1, <2>2, MoveKeepsCalm
<1> QED
  BY <1>3, <1>4, <1>5, <1>6, <1>7, <1>8, <1>9

\* Nobody is in flight beside a handler that is, while calm lasts.
LEMMA Alone ==
  ASSUME CalmInv, calm, NEW r \in Requests, InFlight(r)
  PROVE  \A q \in Requests : InFlight(q) => q = r
BY DEF CalmInv, Calm

LEMMA QueueInsertKeepsCalm ==
  ASSUME IInv, CalmInv, NEW r \in Requests, QueueInsert(r) PROVE CalmInv'
<1> DEFINE d == req[r].draft
<1>1. req[r].pc = "insert" /\ d \in Drafts /\ UNCHANGED <<mailed, approvals, calm>>
  BY BusyHandler DEF QueueInsert, history
<1>2. Moved(r, "audit")
  BY GotoEffect DEF QueueInsert, IInv, Steps
<1>3. /\ outreach'[d].state = "waiting" /\ req[r].kind = "queue"
      /\ \A e \in Drafts : e # d => outreach'[e] = outreach[e]
  BY <1>1 DEF QueueInsert, IInv, TypeOK, CalmInv, IdsAreFresh
<1>4. InFlight(r)
  BY <1>1 DEF InFlight, Settled
<1> HIDE DEF d
<1>5. IdsAreFresh'
  <2>1. \A q \in Requests : q # r /\ req[q].pc = "insert" => req[q].draft # d
    BY <1>3 DEF CalmInv, IdsAreFresh, d
  <2>2. \A q \in Requests : req'[q].kind = req[q].kind /\ req'[q].draft = req[q].draft
                            /\ (q # r => req'[q].pc = req[q].pc)
    BY <1>2 DEF Moved
  <2>3. req'[r].pc = "audit"
    BY <1>2 DEF Moved
  <2>4. \A q, p \in Requests : req'[q].kind = "queue" /\ req'[p].kind = "queue"
                               /\ req'[q].draft = req'[p].draft => q = p
    BY <2>2 DEF CalmInv, IdsAreFresh
  <2>5. \A q \in Requests : req'[q].pc = "idle" => req'[q].kind # "queue"
    BY <2>2, <2>3 DEF CalmInv, IdsAreFresh
  <2>6. ASSUME NEW q \in Requests, req'[q].pc = "insert"
        PROVE  req'[q].kind = "queue" /\ outreach'[req'[q].draft].state = "absent"
    <3>1. q # r /\ req[q].pc = "insert"
      BY <2>2, <2>3, <2>6
    <3>2. req[q].draft # d /\ req[q].draft \in Drafts
      BY <2>1, <3>1, BusyHandler
    <3> QED
      BY <1>3, <2>2, <3>1, <3>2 DEF CalmInv, IdsAreFresh
  <2>7. ASSUME NEW e \in Drafts, outreach'[e].state # "absent"
        PROVE  \E q \in Requests : req'[q].kind = "queue" /\ req'[q].draft = e
    BY <1>3, <2>2, <2>7 DEF CalmInv, IdsAreFresh, d
  <2> QED
    BY <2>4, <2>5, <2>6, <2>7 DEF IdsAreFresh
<1>6. HistoryIsPast'
  BY <1>1, <1>2 DEF CalmInv, HistoryIsPast, Moved
<1>7. ASSUME calm PROVE Calm'
  <2>1. Calm /\ \A q \in Requests : InFlight(q) => q = r
    BY <1>4, <1>7, Alone DEF CalmInv
  <2>2. \A e : Pending(e)' <=> Pending(e)
    BY <1>1 DEF Pending, MailsOf, ApprovalsOf
  <2>3. \A q \in Requests : q # r => ~InFlight(q)' /\ req'[q].pc = req[q].pc
    BY <1>2, <2>1 DEF InFlight, Moved
  <2>4. req'[r].pc = "audit"
    BY <1>2 DEF Moved
  <2>5. \A q \in Requests : req'[q].pc \notin {"recipient", "credentials", "mail", "mark",
                                               "approveUpdate", "editUpdate"}
    BY <2>3, <2>4 DEF InFlight, Settled
  <2>6. \A q \in Requests : req[q].pc # "mark"
    BY <1>1, <2>1 DEF InFlight, Settled
  <2>7. \A e \in Drafts : outreach'[e].state = "approved" => Pending(e)'
    BY <1>3, <2>1, <2>2, <2>6 DEF Calm
  <2>8. OneMailPerApproval'
    BY <1>1, <2>1 DEF Calm, OneMailPerApproval
  <2> QED
    BY <2>3, <2>5, <2>7, <2>8 DEF Calm
<1> QED
  BY <1>1, <1>5, <1>6, <1>7 DEF CalmInv

\* A handler rewrites the row of its draft: the row counts as approved only with
\* an approval left for it.
LEMMA RowStepKeepsCalm ==
  ASSUME IInv, CalmInv, NEW r \in Requests, NEW s \in {"audit", "reload", "log"},
         req[r].draft \in Drafts, InFlight(r), req[r].pc # "insert", Moved(r, s),
         UNCHANGED <<calm, mailed>>,
         \A e \in Drafts : e # req[r].draft => outreach'[e] = outreach[e],
         outreach[req[r].draft].state = "absent" =>
           outreach'[req[r].draft].state = "absent",
         IsFiniteSet(approvals'), \A a \in approvals' : a \in approvals \/ a.req = r,
         \A e : Cardinality(ApprovalsOf(e)) <= Cardinality(ApprovalsOf(e))'
                /\ Cardinality(ApprovalsOf(e))' \in Nat,
         calm /\ outreach'[req[r].draft].state = "approved" => Pending(req[r].draft)'
  PROVE  CalmInv'
<1> DEFINE d == req[r].draft
<1>1. \A q \in Requests : req'[q].kind = req[q].kind /\ req'[q].draft = req[q].draft
                          /\ (q # r => req'[q].pc = req[q].pc)
  BY DEF Moved
<1>2. req'[r].pc = s
  BY DEF Moved
<1>3. IdsAreFresh'
  <2>1. \A q, p \in Requests : req'[q].kind = "queue" /\ req'[p].kind = "queue"
                               /\ req'[q].draft = req'[p].draft => q = p
    BY <1>1 DEF CalmInv, IdsAreFresh
  <2>2. \A q \in Requests : req'[q].pc = "idle" => req'[q].kind # "queue"
    BY <1>1, <1>2 DEF CalmInv, IdsAreFresh
  <2>3. ASSUME NEW q \in Requests, req'[q].pc = "insert"
        PROVE  req'[q].kind = "queue" /\ outreach'[req'[q].draft].state = "absent"
    <3>1. q # r /\ req[q].pc = "insert"
      BY <1>1, <1>2, <2>3
    <3>2. req[q].draft \in Drafts
      BY <3>1, BusyHandler
    <3> QED
      BY <1>1, <3>1, <3>2 DEF CalmInv, IdsAreFresh
  <2>4. ASSUME NEW e \in Drafts, outreach'[e].state # "absent"
        PROVE  \E q \in Requests : req'[q].kind = "queue" /\ req'[q].draft = e
    <3>1. outreach[e].state # "absent"
      BY <2>4
    <3> QED
      BY <1>1, <3>1 DEF CalmInv, IdsAreFresh
  <2> QED
    BY <2>1, <2>2, <2>3, <2>4 DEF IdsAreFresh
<1>4. HistoryIsPast'
  BY <1>1, <1>2 DEF CalmInv, HistoryIsPast
<1>5. ASSUME calm PROVE Calm'
  <2>1. Calm /\ \A q \in Requests : InFlight(q) => q = r
    BY <1>5, Alone DEF CalmInv
  <2>2. \A q \in Requests : q # r => ~InFlight(q)' /\ req'[q].pc = req[q].pc
    BY <1>1, <2>1 DEF InFlight
  <2>3. \A q \in Requests : req'[q].pc \notin {"recipient", "credentials", "mail", "mark",
                                               "approveUpdate", "editUpdate"}
    BY <1>2, <2>1, <2>2 DEF InFlight, Settled
  <2>4. \A e : Cardinality(MailsOf(e)) \in Nat /\ Cardinality(ApprovalsOf(e)) \in Nat
               /\ Cardinality(MailsOf(e))' = Cardinality(MailsOf(e))
    BY CountsAreNat DEF MailsOf
  <2>5. \A e \in Drafts : outreach'[e].state = "approved" => Pending(e)'
    <3>1. ASSUME NEW e \in Drafts, outreach'[e].state = "approved", e # d PROVE Pending(e)'
      <4>1. outreach[e].state = "approved"
        BY <3>1
      <4>2. ~\E q \in Requests : req[q].pc = "mark" /\ req[q].draft = e
        BY <2>1, <3>1 DEF InFlight, Settled
      <4>3. Pending(e)
        BY <2>1, <4>1, <4>2 DEF Calm
      <4> QED
        BY <2>4, <4>3 DEF Pending
    <3>2. req'[r].draft = d
      BY <1>1
    <3>3. outreach'[d].state = "approved" => Pending(d)'
      BY <1>5
    <3> HIDE DEF d
    <3>4. ASSUME NEW e \in Drafts, e = d, outreach'[e].state = "approved" PROVE Pending(e)'
      BY <3>2, <3>3, <3>4 DEF Pending, MailsOf, ApprovalsOf, d
    <3> QED
      BY <3>1, <3>4
  <2>6. OneMailPerApproval'
    <3>1. \A e \in Drafts : Cardinality(MailsOf(e)) <= Cardinality(ApprovalsOf(e))
      BY <2>1, OneMailIs DEF Calm
    <3>2. \A e \in Drafts : Cardinality(MailsOf(e))' <= Cardinality(ApprovalsOf(e))'
      BY <2>4, <3>1
    <3> QED
      BY <3>2 DEF OneMailPerApproval, MailsOf, ApprovalsOf
  <2> QED
    BY <1>2, <2>2, <2>3, <2>5, <2>6 DEF Calm
<1> QED
  BY <1>3, <1>4, <1>5 DEF CalmInv

LEMMA UnchangedCounts ==
  ASSUME CalmInv, UNCHANGED approvals
  PROVE  /\ IsFiniteSet(approvals') /\ \A a \in approvals' : a \in approvals
         /\ \A e : Cardinality(ApprovalsOf(e)) <= Cardinality(ApprovalsOf(e))'
                   /\ Cardinality(ApprovalsOf(e))' \in Nat
<1>1. \A e : Cardinality(ApprovalsOf(e)) \in Nat
             /\ Cardinality(ApprovalsOf(e))' = Cardinality(ApprovalsOf(e))
  BY CountsAreNat DEF ApprovalsOf
<1> QED
  BY <1>1 DEF CalmInv, HistoryIsPast

LEMMA EditUpdateKeepsCalm ==
  ASSUME IInv, CalmInv, NEW r \in Requests, EditUpdate(r) PROVE CalmInv'
<1>1. req[r].pc = "editUpdate" /\ InFlight(r) /\ req[r].draft \in Drafts
      /\ UNCHANGED <<mailed, approvals, calm>>
  BY BusyHandler DEF EditUpdate, InFlight, Settled, history
<1>2. Moved(r, "reload")
  BY GotoEffect DEF EditUpdate, IInv, Steps
<1>3. /\ \A e \in Drafts : e # req[r].draft => outreach'[e] = outreach[e]
      /\ outreach[req[r].draft].state = "absent" => outreach'[req[r].draft].state = "absent"
      /\ outreach'[req[r].draft].state # "approved"
  BY <1>1 DEF EditUpdate, Update, IInv, TypeOK
<1> QED
  BY <1>1, <1>2, <1>3, UnchangedCounts, RowStepKeepsCalm

LEMMA DeliverMarkKeepsCalm ==
  ASSUME IInv, CalmInv, NEW r \in Requests, DeliverMark(r) PROVE CalmInv'
<1>1. req[r].pc = "mark" /\ InFlight(r) /\ req[r].draft \in Drafts
      /\ UNCHANGED <<mailed, approvals, calm>>
  BY BusyHandler DEF DeliverMark, InFlight, Settled, history
<1>2. Moved(r, "log")
  BY GotoEffect DEF DeliverMark, IInv, Steps
<1>3. outreach \in [Drafts -> Row]
  BY DEF IInv, TypeOK
<1>4. /\ \A e \in Drafts : e # req[r].draft => outreach'[e] = outreach[e]
      /\ outreach[req[r].draft].state = "absent" => outreach'[req[r].draft].state = "absent"
      /\ outreach'[req[r].draft].state # "approved"
  BY <1>1, <1>3 DEF DeliverMark, Update, Row
<1> QED
  BY <1>1, <1>2, <1>4, UnchangedCounts, RowStepKeepsCalm

LEMMA ApproveUpdateKeepsCalm ==
  ASSUME IInv, CalmInv, NEW r \in Requests, ApproveUpdate(r) PROVE CalmInv'
<1> DEFINE d == req[r].draft
           a == [req |-> r, draft |-> d, actor |-> req[r].actor, body |-> outreach[d].body]
<1>1. req[r].pc = "approveUpdate" /\ InFlight(r) /\ d \in Drafts /\ UNCHANGED <<mailed, calm>>
  BY BusyHandler DEF ApproveUpdate, InFlight, Settled
<1>2. Moved(r, "audit")
  BY GotoEffect DEF ApproveUpdate, IInv, Steps
<1>3. outreach \in [Drafts -> Row]
  BY DEF IInv, TypeOK
<1>4. /\ \A e \in Drafts : e # d => outreach'[e] = outreach[e]
      /\ outreach[d].state = "absent" => outreach'[d].state = "absent"
  BY <1>1, <1>3 DEF ApproveUpdate, Update
<1>7. req'[r].draft = d
  BY <1>2 DEF Moved
<1>5. CASE outreach[d].state = "absent"
  <2>1. UNCHANGED approvals
    BY <1>5 DEF ApproveUpdate
  <2> QED
    BY <1>1, <1>2, <1>4, <1>5, <2>1, UnchangedCounts, RowStepKeepsCalm
<1>6. CASE outreach[d].state # "absent"
  <2>1. approvals' = approvals \cup {a} /\ a \notin approvals /\ a.draft = d /\ a.req = r
    BY <1>1, <1>6 DEF ApproveUpdate, CalmInv, HistoryIsPast
  <2>2. IsFiniteSet(approvals)
    BY DEF CalmInv, HistoryIsPast
  <2> HIDE DEF a
  <2>3. /\ IsFiniteSet(approvals')
        /\ \A e : Cardinality(ApprovalsOf(e)) \in Nat
                  /\ Cardinality(ApprovalsOf(e))' =
                       Cardinality(ApprovalsOf(e)) + (IF d = e THEN 1 ELSE 0)
    BY <2>1, <2>2, ApprovalCounts
  <2>4. \A e : Cardinality(ApprovalsOf(e)) <= Cardinality(ApprovalsOf(e))'
               /\ Cardinality(ApprovalsOf(e))' \in Nat
    BY <2>3
  <2>5. ASSUME calm PROVE Pending(d)'
    <3>1. Cardinality(MailsOf(d)) <= Cardinality(ApprovalsOf(d))
      BY <1>1, <2>5, OneMailIs DEF CalmInv, Calm
    <3>2. Cardinality(MailsOf(d))' = Cardinality(MailsOf(d)) /\ Cardinality(MailsOf(d)) \in Nat
      BY <1>1, <1>7, CountsAreNat DEF MailsOf
    <3>3. Cardinality(ApprovalsOf(d))' = Cardinality(ApprovalsOf(d)) + 1
      BY <1>7, <2>3 DEF ApprovalsOf
    <3>4. Cardinality(MailsOf(d))' + 1 <= Cardinality(ApprovalsOf(d))'
      BY <2>3, <3>1, <3>2, <3>3
    <3> QED
      BY <3>4, <1>2 DEF Pending, Moved
  <2> QED
    BY <1>1, <1>2, <1>4, <2>1, <2>3, <2>4, <2>5, RowStepKeepsCalm
<1> QED
  BY <1>5, <1>6

\* A message leaves: the approval it stands for was not used yet.
LEMMA MailKeepsCalm ==
  ASSUME IInv, CalmInv, NEW r \in Requests, DeliverMail(r) \/ DeliverMailAnswerLost(r)
  PROVE  CalmInv'
<1> DEFINE d == req[r].draft
           m == [req |-> r, draft |-> d, body |-> req[r].seen.body]
<1>1. /\ req[r].pc = "mail" /\ InFlight(r) /\ d \in Drafts /\ UNCHANGED <<outreach, approvals>>
      /\ mailed' = mailed \cup {m}
  BY BusyHandler DEF DeliverMail, DeliverMailAnswerLost, InFlight, Settled, tables
<1>2. PICK s \in {"mark", "failed"} :
        /\ Goto(r, s) /\ calm' \in BOOLEAN /\ (calm' => calm) /\ (calm' => s = "mark")
  <2>1. calm \in BOOLEAN
    BY DEF CalmInv
  <2>2. CASE DeliverMail(r)
    <3>1. Goto(r, "mark") /\ calm' = calm
      BY <2>2 DEF DeliverMail
    <3> QED
      BY <2>1, <3>1
  <2>3. CASE DeliverMailAnswerLost(r)
    <3>1. Goto(r, "failed") /\ calm' = FALSE
      BY <2>3 DEF DeliverMailAnswerLost
    <3> QED
      BY <3>1
  <2> QED
    BY <2>2, <2>3
<1>3. Moved(r, s)
  BY <1>2, GotoEffect DEF IInv, Steps, Settled
<1>4. \A q \in Requests : req'[q].kind = req[q].kind /\ req'[q].draft = req[q].draft
                          /\ (q # r => req'[q].pc = req[q].pc)
  BY <1>3 DEF Moved
<1>5. req'[r].pc = s
  BY <1>3 DEF Moved
<1>6. m \notin mailed /\ m.draft = d
  BY <1>1 DEF IInv, MailOnce
<1> HIDE DEF m
<1>7. /\ IsFiniteSet(mailed')
      /\ \A e : /\ Cardinality(MailsOf(e)) \in Nat
                /\ Cardinality(MailsOf(e))' =
                     Cardinality(MailsOf(e)) + (IF d = e THEN 1 ELSE 0)
  BY <1>1, <1>6, MailCounts DEF CalmInv, HistoryIsPast
<1> HIDE DEF d
<1>8. IdsAreFresh'
  BY <1>1, <1>2, <1>4, <1>5 DEF CalmInv, IdsAreFresh
<1>9. HistoryIsPast'
  BY <1>1, <1>2, <1>4, <1>5, <1>7 DEF CalmInv, HistoryIsPast
<1>10. ASSUME calm' PROVE Calm'
  <2>1. calm /\ Calm /\ s = "mark" /\ \A q \in Requests : InFlight(q) => q = r
    BY <1>1, <1>2, <1>10, Alone DEF CalmInv
  <2>2. \A q \in Requests : q # r => ~InFlight(q)' /\ req'[q].pc = req[q].pc
    BY <1>4, <2>1 DEF InFlight
  <2>3. \A q \in Requests : req'[q].pc \notin {"recipient", "credentials", "mail",
                                               "approveUpdate", "editUpdate"}
    BY <1>5, <2>1, <2>2 DEF InFlight, Settled
  <2>4. \A e : Cardinality(ApprovalsOf(e)) \in Nat
               /\ Cardinality(ApprovalsOf(e))' = Cardinality(ApprovalsOf(e))
    BY <1>1, CountsAreNat DEF ApprovalsOf
  <2>5. Pending(d)
    BY <1>1, <2>1 DEF Calm, d
  <2>6. OneMailPerApproval'
    <3>1. \A e \in Drafts : Cardinality(MailsOf(e)) <= Cardinality(ApprovalsOf(e))
      BY <2>1, OneMailIs DEF Calm
    <3>2. Cardinality(MailsOf(d)) + 1 <= Cardinality(ApprovalsOf(d))
      BY <2>5 DEF Pending
    <3>3. \A e \in Drafts : Cardinality(MailsOf(e))' <= Cardinality(ApprovalsOf(e))'
      BY <1>7, <2>4, <3>1, <3>2
    <3> QED
      BY <3>3 DEF OneMailPerApproval, MailsOf, ApprovalsOf
  <2>7. \A e \in Drafts : outreach'[e].state = "approved" =>
          Pending(e)' \/ \E q \in Requests : req'[q].pc = "mark" /\ req'[q].draft = e
    <3>1. ASSUME NEW e \in Drafts, outreach'[e].state = "approved", e # d PROVE Pending(e)'
      <4>1. Pending(e)
        BY <1>1, <2>1, <3>1 DEF Calm, InFlight, Settled
      <4> QED
        BY <1>7, <2>4, <3>1, <4>1 DEF Pending
    <3>2. req'[r].pc = "mark" /\ req'[r].draft = d
      BY <1>4, <1>5, <2>1 DEF d
    <3> QED
      BY <3>1, <3>2
  <2> QED
    BY <2>1, <2>2, <2>3, <2>6, <2>7 DEF Calm
<1> QED
  BY <1>2, <1>8, <1>9, <1>10 DEF CalmInv

\* A request begins: alone, or calm is over.
LEMMA BeginKeepsCalm ==
  ASSUME IInv, CalmInv, NEW r \in Requests, NEW k \in Kinds, NEW d \in Drafts,
         NEW a \in Actors, NEW t \in Bodies \cup Outcomes \cup {None},
         Begin(r, k, d, a, t)
  PROVE  CalmInv'
<1> DEFINE h == [pc |-> FirstStep(k), kind |-> k, draft |-> d,
                 actor |-> IF k = "approve" THEN a ELSE None, text |-> t,
                 seen |-> NoRow]
<1>1. k \in {"queue", "approve", "send", "edit", "outcome"}
  BY OutreachAssumption
<1>2. /\ h.pc \in {"insert", "approveLoad", "editLoad", "tagCheck", "lookup"}
      /\ h.pc = "insert" => k = "queue"
      /\ h.kind = k /\ h.draft = d
  BY <1>1 DEF FirstStep
<1>3. /\ req' = [req EXCEPT ![r] = h] /\ req[r].pc = "idle"
      /\ UNCHANGED <<outreach, approvals, mailed>> /\ (k = "queue" <=> Fresh(d))
      /\ calm' = (calm /\ \A q \in Requests : ~InFlight(q))
  BY DEF Begin, tables
<1> HIDE DEF h
<1>4. req \in [Requests -> Handler] /\ calm \in BOOLEAN
  BY DEF IInv, TypeOK, CalmInv
<1>5. req'[r] = h /\ \A q \in Requests : q # r => req'[q] = req[q]
  BY <1>3, <1>4
<1>6. calm' \in BOOLEAN /\ (calm' => calm /\ \A q \in Requests : ~InFlight(q))
  BY <1>3, <1>4
<1>7. k = "queue" => /\ \A q \in Requests : req[q].kind = "queue" => req[q].draft # d
                     /\ outreach[d].state = "absent"
  BY <1>3 DEF Fresh, CalmInv, IdsAreFresh
<1>8. req[r].kind # "queue"
  BY <1>3 DEF CalmInv, IdsAreFresh
<1>9. IdsAreFresh'
  <2>1. \A q, p \in Requests : req'[q].kind = "queue" /\ req'[p].kind = "queue"
                               /\ req'[q].draft = req'[p].draft => q = p
    BY <1>2, <1>5, <1>7 DEF CalmInv, IdsAreFresh
  <2>2. \A q \in Requests : req'[q].pc = "idle" => req'[q].kind # "queue"
    BY <1>2, <1>5 DEF CalmInv, IdsAreFresh
  <2>3. \A q \in Requests : req'[q].pc = "insert" =>
          req'[q].kind = "queue" /\ outreach'[req'[q].draft].state = "absent"
    BY <1>2, <1>3, <1>5, <1>7 DEF CalmInv, IdsAreFresh
  <2>4. \A e \in Drafts : outreach'[e].state # "absent" =>
          \E q \in Requests : req'[q].kind = "queue" /\ req'[q].draft = e
    BY <1>3, <1>5, <1>8 DEF CalmInv, IdsAreFresh
  <2> QED
    BY <2>1, <2>2, <2>3, <2>4 DEF IdsAreFresh
<1>10. HistoryIsPast'
  BY <1>3, <1>5 DEF CalmInv, HistoryIsPast
<1>11. ASSUME calm' PROVE Calm'
  <2>1. Calm /\ \A q \in Requests : ~InFlight(q)
    BY <1>6, <1>11 DEF CalmInv
  <2>2. \A q \in Requests : InFlight(q)' => q = r
    BY <1>5, <2>1 DEF InFlight
  <2>3. \A e : Pending(e)' <=> Pending(e)
    BY <1>3 DEF Pending, MailsOf, ApprovalsOf
  <2>4. \A q \in Requests : req'[q].pc \notin {"recipient", "credentials", "mail", "mark",
                                               "approveUpdate", "editUpdate"}
    BY <1>2, <1>5, <2>1 DEF InFlight, Settled
  <2>5. \A e \in Drafts : outreach'[e].state = "approved" => Pending(e)'
    BY <1>3, <2>1, <2>3 DEF Calm, InFlight, Settled
  <2>6. OneMailPerApproval'
    BY <1>3, <2>1 DEF Calm, OneMailPerApproval
  <2> QED
    BY <2>2, <2>4, <2>5, <2>6 DEF Calm
<1> QED
  BY <1>6, <1>9, <1>10, <1>11 DEF CalmInv

LEMMA PurgeKeepsCalm ==
  ASSUME IInv, CalmInv, NEW p \in People, PurgePerson(p) PROVE CalmInv'
<1>1. /\ UNCHANGED <<req, approvals, mailed, calm>>
      /\ \A d \in Drafts : outreach'[d] = outreach[d] \/ outreach'[d] = NoRow
  BY DEF IInv, TypeOK, PurgePerson, PurgeReadDrafts, PurgeDeliveries,
         PurgeDrafts, PurgeUser, PurgeStep, tables, history
<1>2. \A r \in Requests : req[r].pc \in {"insert", "approveUpdate", "editUpdate"} =>
        req[r].draft \in Drafts
  BY BusyHandler
<1>3. \A d \in Drafts : outreach'[d].state = outreach[d].state \/ outreach'[d].state = "absent"
  BY <1>1 DEF NoRow
<1>4. IdsAreFresh' /\ HistoryIsPast'
  BY <1>1, <1>2, <1>3 DEF CalmInv, IdsAreFresh, HistoryIsPast
<1>5. ASSUME calm PROVE Calm'
  <2>1. \A e : Pending(e)' <=> Pending(e)
    BY <1>1 DEF Pending, MailsOf, ApprovalsOf
  <2>2. OneMailPerApproval'
    BY <1>1, <1>5 DEF CalmInv, Calm, OneMailPerApproval
  <2> QED
    BY <1>1, <1>2, <1>3, <1>5, <2>1, <2>2 DEF CalmInv, Calm, InFlight
<1> QED
  BY <1>1, <1>4, <1>5 DEF CalmInv

LEMMA CalmStep == ASSUME IInv, CalmInv, [Next]_vars PROVE CalmInv'
<1>1. CASE UNCHANGED vars
  BY <1>1 DEF vars, CalmInv, IdsAreFresh, HistoryIsPast, Calm, InFlight,
     OneMailPerApproval, Pending, MailsOf, ApprovalsOf
<1>2. ASSUME NEW r \in Requests, HandlerStep(r) \/ Fail(r) PROVE CalmInv'
  BY <1>2, QuietStepsKeepCalm, QueueInsertKeepsCalm, ApproveUpdateKeepsCalm,
     EditUpdateKeepsCalm, MailKeepsCalm, DeliverMarkKeepsCalm
  DEF HandlerStep, SendStep
<1> QED
  BY <1>1, <1>2, BeginKeepsCalm, PurgeKeepsCalm DEF Next

LEMMA CalmInductive == Spec => []CalmInv
BY CalmInit, CalmStep, Inductive, PTL DEF Spec

\* deliverOutreach and the approval route: as long as no two requests met and no
\* send was cut short after its message left, each approval mails its draft at
\* most once, whatever is edited, tagged or deleted between requests.
THEOREM CalmMailsOncePerApproval == Spec => []CalmMailsOnce
<1>1. CalmInv => CalmMailsOnce
  BY DEF CalmInv, Calm, CalmMailsOnce
<1> QED
  BY <1>1, CalmInductive, PTL

\* A step that leaves calm in place takes no row out of state sent.
LEMMA CalmStepKeepsSent ==
  ASSUME IInv, CalmInv, [Next]_vars, calm', NEW d \in Drafts, outreach[d].state = "sent"
  PROVE  outreach'[d].state \in {"sent", "absent"}
<1>1. calm => Calm
  BY DEF CalmInv
<1>2. outreach \in [Drafts -> Row]
  BY DEF IInv, TypeOK
<1>3. ASSUME NEW r \in Requests, QueueInsert(r) PROVE outreach'[d].state = "sent"
  BY <1>2, <1>3 DEF QueueInsert, CalmInv, IdsAreFresh
<1>4. ASSUME NEW r \in Requests, ApproveUpdate(r) PROVE outreach'[d].state = "sent"
  BY <1>1, <1>2, <1>4 DEF ApproveUpdate, Update, Calm
<1>5. ASSUME NEW r \in Requests, EditUpdate(r) PROVE outreach'[d].state = "sent"
  BY <1>1, <1>2, <1>5 DEF EditUpdate, Update, Calm, history
<1>6. ASSUME NEW r \in Requests, DeliverMark(r) PROVE outreach'[d].state = "sent"
  BY <1>2, <1>6 DEF DeliverMark, Update, Row
<1>7. ASSUME NEW p \in People, PurgePerson(p) PROVE outreach'[d].state \in {"sent", "absent"}
  BY SMTT(60), <1>2, <1>7 DEF PurgePerson, PurgeReadDrafts, PurgeDeliveries, PurgeDrafts, PurgeUser,
     PurgeStep, tables, NoRow
<1>8. ASSUME NEW r \in Requests, HandlerStep(r) \/ Fail(r)
      PROVE  \/ QueueInsert(r) \/ ApproveUpdate(r) \/ EditUpdate(r) \/ DeliverMark(r)
             \/ UNCHANGED outreach
  BY <1>8 DEF HandlerStep, SendStep, ApproveLoad, EditLoad, SendLookup, DeliverLoad,
     DeliverRecipient, DeliverCredentials, DeliverMail, DeliverMailAnswerLost, DeliverLog,
     TagCheck, TagWrite, WriteAudit, Reload, Fail, LoadRow, tables
<1>9. ASSUME NEW r \in Requests, NEW k \in Kinds, NEW e \in Drafts, NEW a \in Actors,
             NEW t \in Bodies \cup Outcomes \cup {None}, Begin(r, k, e, a, t)
      PROVE  UNCHANGED outreach
  BY <1>9 DEF Begin, tables
<1>10. CASE UNCHANGED vars
  BY <1>10 DEF vars
<1> QED
  BY <1>3, <1>4, <1>5, <1>6, <1>7, <1>8, <1>9, <1>10 DEF Next

\* approveOutreach and updateOutreachBody refuse a sent draft: until two requests
\* meet, sent is left only by deletion.
THEOREM CalmSentStaysSent == Spec => CalmSentIsFinal
<1>1. IInv /\ CalmInv /\ [Next]_vars =>
        [calm' => \A d \in Drafts : outreach[d].state = "sent"
                                   => outreach'[d].state \in {"sent", "absent"}]_vars
  BY CalmStepKeepsSent
<1> QED
  BY <1>1, Inductive, CalmInductive, PTL DEF Spec, CalmSentIsFinal
=============================================================================
