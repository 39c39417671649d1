------------------------------ MODULE MCPeople ------------------------------
(***************************************************************************)
(* Instances of People for TLC: one id in its two spellings.               *)
(***************************************************************************)
EXTENDS People, TLC

CONSTANTS cus, person_cus

TwoSpellings == [p \in {cus, person_cus} |-> IF p = cus THEN person_cus ELSE cus]

\* A settled writer counts only as the author of its rows, and as one that was
\* accepted.
Outcome(r) ==
  IF r.pc \in Settled
    THEN <<r.pc = "answered" /\ r.user /\ r.kind \in Mailing, r.person, r.began>>
    ELSE r
Live == <<tables, tombstones, deletion, failures, [w \in Writers |-> Outcome(writer[w])]>>

\* People who are there at the start have both kinds of keyed rows.
MCInit == PeopleInit /\ revenue = [p \in Persons |-> users[p].by]
MCSpec == MCInit /\ [][PeopleNext]_peopleVars
=============================================================================
