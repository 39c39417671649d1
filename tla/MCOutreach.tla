----------------------------- MODULE MCOutreach -----------------------------
(***************************************************************************)
(* Instances of Outreach for TLC.                                          *)
(***************************************************************************)
EXTENDS Outreach, TLC

CONSTANT ann

\* Every draft of the instance is addressed to one person.
OnePerson == [d \in Drafts |-> ann]

\* Handlers that settled never read their locals again.
Locals(h) == IF h.pc \in Settled
               THEN [h EXCEPT !.seen = NoRow, !.actor = None, !.text = None] ELSE h
Live == <<tables, purge, history, [r \in Requests |-> Locals(req[r])]>>

(* Beside three requests of any other kind, one edits the text or tags the      *)
(* outcome.                                                                    *)
OneSideCall == Cardinality({r \in Requests : req[r].kind \in {"edit", "outcome"}}) <= 1

(* Calls and texts are told apart only as different.                           *)
RequestSymmetry == Permutations(Requests) \cup Permutations(Bodies)

=============================================================================
