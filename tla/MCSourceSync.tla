---------------------------- MODULE MCSourceSync ----------------------------
(* Instances of what waits on somebody else, each part for itself: the syncs  *)
(* of one source (SourceSync), with model values for slots, requests and      *)
(* lifecycle calls; and one mail through the source connected for it (Smtp).  *)
EXTENDS SourceSync, Smtp, TLC

VARIABLES part

PauseOrClear   == {"pause", "clear"}
OnlyDisconnect == {"disconnect"}

-----------------------------------------------------------------------------
liveVars == <<part, sources, state, audit, run, inflight, request, op, pass, lastNightly, day, faults, crashes,
              answer, reconciled, gone, voided, smtpVars>>

LiveInit ==
  /\ part \in {"sync", "mail"} /\ Init
  /\ SmtpInit /\ (part = "sync" => config = {})
SyncMoves(A) == part = "sync" /\ A /\ UNCHANGED <<part, smtpVars>>
MailMoves(A) == part = "mail" /\ A /\ UNCHANGED <<part, vars>>
SyncPart == part = "sync" /\ Next /\ UNCHANGED <<part, smtpVars>>
MailPart == part = "mail" /\ SmtpNext /\ UNCHANGED <<part, vars>>

(* The syncs alone.                                                            *)
SyncSpec == LiveInit /\ part = "sync" /\ [][SyncPart]_liveVars
LiveSpec ==
  /\ LiveInit /\ [][SyncPart \/ MailPart]_liveVars
  /\ \A k \in Keys, s \in Slots : WF_liveVars(SyncMoves(RunStep(k, s)))
  /\ \A r \in Requests : WF_liveVars(SyncMoves(RequestAnswers(r)))
  /\ WF_liveVars(SyncMoves(Tick)) /\ WF_liveVars(SyncMoves(ListTargets)) /\ WF_liveVars(SyncMoves(PassEnds))
  /\ WF_liveVars(MailMoves(LoadResend)) /\ WF_liveVars(MailMoves(LoadSmtp))
  /\ WF_liveVars(MailMoves(sendResend)) /\ WF_liveVars(MailMoves(Fail))

-----------------------------------------------------------------------------
(* A send ends in an answer, by the server's word or the 15 seconds, unless    *)
(* the server closes the connection and says nothing.                          *)
SendSettles == part = "mail" ~> (promised # "open" \/ wire = "gone")
=============================================================================
