--------------------------------- MODULE Smtp ---------------------------------
(* One approved mail on its way out (src/src/outreach/transport.ts): the choice *)
(* of credentials, then either one HTTP call to Resend or the SMTP dialogue of  *)
(* sendSmtp, whose step counter is `step`.  The server answers one reply per    *)
(* command, of any class, or says nothing, breaks the connection or closes it.  *)
EXTENDS Naturals

CONSTANTS HasUser   \* the smtp config names a user, so AUTH LOGIN is spoken

VARIABLES
  config,    \* which mail sources are connected: a subset of {"resend", "smtp"}
  creds,     \* what loadMailCredentials has found: "unread", "none" or a source
  step,      \* sendSmtp's step
  said,      \* a command of ours the server has not answered yet
  taken,     \* the provider has answered that it has the message
  promised,  \* the promise: "open", "resolved", "rejected", "unconfigured"
  wire       \* the connection: "up", "gone" (closed with no error)
smtpVars == <<config, creds, step, said, taken, promised, wire>>

Kinds == {"resend", "smtp"}
SmtpTypeOK ==
  /\ config \subseteq Kinds /\ creds \in Kinds \cup {"unread", "read", "none"}
  /\ step \in 0..9 /\ said \in BOOLEAN /\ taken \in BOOLEAN
  /\ promised \in {"open", "resolved", "rejected", "unconfigured"} /\ wire \in {"up", "gone"}

SmtpInit ==
  /\ config \in SUBSET Kinds /\ creds = "unread" /\ step = 0 /\ said = TRUE
  /\ taken = FALSE /\ promised = "open" /\ wire = "up"

-----------------------------------------------------------------------------
(* Two reads, resend first; a source may be connected or removed in between.   *)
credentialsFromConfig(source) == IF source \in config THEN source ELSE "none"
LoadResend ==
  /\ creds = "unread"
  /\ creds' = IF credentialsFromConfig("resend") = "none" THEN "read" ELSE "resend"
  /\ UNCHANGED <<config, step, said, taken, promised, wire>>
LoadSmtp ==
  /\ creds = "read" /\ creds' = credentialsFromConfig("smtp")
  /\ promised' = IF creds' = "none" THEN "unconfigured" ELSE promised
  /\ UNCHANGED <<config, step, said, taken, wire>>
Reconnect ==
  /\ creds \in {"unread", "read"}
  /\ \E k \in Kinds : config' = (config \ {k}) \cup ({k} \ config)
  /\ UNCHANGED <<creds, step, said, taken, promised, wire>>

(* fetch: the provider takes the message, and then its answer may be lost.     *)
Sending(kind) == creds = kind /\ promised = "open"
Taken ==
  /\ ~taken
  /\ Sending("resend") \/ (Sending("smtp") /\ wire = "up" /\ step = 8 /\ said)
  /\ taken' = TRUE /\ UNCHANGED <<config, creds, step, said, promised, wire>>
sendResend ==
  /\ Sending("resend")
  /\ (taken /\ promised' = "resolved") \/ promised' = "rejected"
  /\ UNCHANGED <<config, creds, step, said, taken, wire>>

(* The reply each step waits for, and the step the answer leads to.            *)
Wanted == [s \in 0..9 |->
  CASE s = 0 -> {220} [] s \in {1, 5, 8} -> {250} [] s \in {2, 3} -> {334} [] s = 4 -> {235}
    [] s = 6 -> {250, 251} [] s = 7 -> {354} [] OTHER -> {221, 250}]
Codes == {220, 221, 235, 250, 251, 334, 354, 451, 550}
NextStep == IF step = 1 /\ ~HasUser THEN 5 ELSE step + 1

Dialogue == Sending("smtp") /\ wire = "up"
(* socket.on("data"): one whole line.  Continuation lines are passed over.     *)
BugDataIsEnough(code) ==
  /\ code \in Wanted[step]
  /\ said' = (step < 8)
  /\ IF step \in {7, 9} THEN promised' = "resolved" /\ UNCHANGED step
     ELSE step' = NextStep /\ UNCHANGED promised
Advance(code) ==
  /\ code \in Wanted[step]
  /\ said' = (step < 9)
  /\ IF step = 9 THEN promised' = "resolved" /\ UNCHANGED step
     ELSE step' = NextStep /\ UNCHANGED promised
Refused(code) ==
  /\ code \notin Wanted[step] /\ code >= 400
  /\ promised' = "rejected" /\ said' = FALSE /\ UNCHANGED step
Ignored(code) ==
  /\ code \notin Wanted[step] /\ code < 400
  /\ said' = FALSE /\ UNCHANGED <<step, promised>>
Reply ==
  /\ Dialogue /\ said
  /\ \E code \in Codes :
       /\ step = 8 => (code = 250 <=> taken)   \* this 250 is the server's word
       /\ Advance(code) \/ Refused(code) \/ Ignored(code)
  /\ UNCHANGED <<config, creds, taken, wire>>

(* setTimeout(15_000) and socket.on("error"); no listener hears a quiet close. *)
BugErrorsOnly ==
  /\ Dialogue /\ said /\ promised' = "rejected"
  /\ UNCHANGED <<config, creds, step, said, taken, wire>>
Fail ==
  /\ Dialogue /\ promised' = "rejected"
  /\ UNCHANGED <<config, creds, step, said, taken, wire>>
Close ==
  /\ Dialogue /\ wire' = "gone"
  /\ UNCHANGED <<config, creds, step, said, taken, promised>>

SmtpNext == LoadResend \/ LoadSmtp \/ Reconnect \/ Taken \/ sendResend \/ Reply \/ Fail \/ Close
SmtpSpec == SmtpInit /\ [][SmtpNext]_smtpVars

-----------------------------------------------------------------------------
(* sendMail keeps what deliver.ts relies on: it resolves only for a message    *)
(* the server took, and answers once.                                          *)
Promise == INSTANCE MailPromise
  WITH taken <- taken,
       answer <- IF promised = "unconfigured" THEN "rejected" ELSE promised
MailPromiseKept == Promise!Spec

(* Behind MailPromiseKept: the last command follows the server's word that it  *)
(* has the message, and nothing is answered before the credentials are read.   *)
SmtpInv ==
  /\ SmtpTypeOK
  /\ creds \in {"unread", "read"} => promised = "open"
  /\ creds = "smtp" /\ step = 9 => taken
  /\ creds # "smtp" => step = 0
=============================================================================
