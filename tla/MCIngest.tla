------------------------------ MODULE MCIngest ------------------------------
(* What brings events in, each part for itself: the cursor of an incremental   *)
(* pull (IncrementalPull: four events, two of them of one second, which a full *)
(* page of two may end in) and a client's buffer (SdkDelivery: three events,   *)
(* two to a batch, and a flush).  They meet in the activity table, which keeps *)
(* one row per external id whoever brings it.                                  *)
EXTENDS IncrementalPull, SdkDelivery, TLC

VARIABLES part
ingestVars == <<vars, sdkVars, part>>

Tied == <<1, 2, 2, 3>>

IngestInit ==
  /\ part \in {"pull", "sdk"} /\ Init /\ SdkInit
  /\ part = "sdk" => style = "link"
  /\ part = "pull" => delays
PullPart == part = "pull" /\ Next /\ UNCHANGED <<sdkVars, part>>
SdkPart == part = "sdk" /\ SdkNext /\ UNCHANGED <<vars, part>>

PullMoves(A) == part = "pull" /\ A /\ UNCHANGED <<sdkVars, part>>
SdkMoves(A) == part = "sdk" /\ A /\ UNCHANGED <<vars, part>>
(* The scheduler starts a pull whenever none runs, timers fire, awaits return, *)
(* and the server handles the request the client waits for.                    *)
IngestSpec ==
  /\ IngestInit /\ [][PullPart \/ SdkPart]_ingestVars
  /\ WF_ingestVars(PullMoves(Begin(FALSE))) /\ WF_ingestVars(PullMoves(Pull))
  /\ WF_ingestVars(SdkMoves(TimerFires)) /\ WF_ingestVars(SdkMoves(Wake))
  /\ WF_ingestVars(SdkMoves(Accepted \/ Dropped \/ TurnedAway))
  /\ WF_ingestVars(SdkMoves(\E r \in wire : r.n = posts /\ Handle(r)))
=============================================================================
