----------------------------- MODULE MCInFlight -----------------------------
(* Work in flight beside a call that takes away what it works on, each part    *)
(* for itself: the writers of a person's rows beside that person's deletion    *)
(* (People), and the runs of the source "posthog" beside its disconnect,       *)
(* pause, connect and clear (SourceSync).                                      *)
EXTENDS MCPeople, SourceSync

VARIABLES part

All == {"connect", "disconnect", "pause", "resume", "clear"}

(* One fault or one restart, and then not both of the requests.               *)
OneMishap ==
  /\ faults + crashes <= 1
  /\ faults + crashes = 1 => \E r \in Requests : request[r].pc = "new"

inFlightVars == <<part, peopleVars, vars>>

Nobodies ==
  /\ PeopleInit
  /\ users = [p \in Persons |-> NoUser] /\ revenue = [p \in Persons |-> Nobody]
InFlightInit ==
  /\ Init
  /\ \/ part = "people" /\ MCInit
     \/ part = "sync" /\ Nobodies
PeoplePart == part = "people" /\ PeopleNext /\ UNCHANGED <<part, vars>>
SyncPart == part = "sync" /\ Next /\ UNCHANGED <<part, peopleVars>>
InFlightSpec == InFlightInit /\ [][PeoplePart \/ SyncPart]_inFlightVars

(* Writers and requests go by the same names: neither part tells them apart,   *)
(* nor the two spellings of a person's id.                                     *)
InFlightView == IF part = "people" THEN <<Live>> ELSE vars
Names == Permutations(Requests) \cup Permutations(Persons)
=============================================================================
