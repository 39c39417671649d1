------------------------------ MODULE MailPromise ------------------------------
(* What deliver.ts relies on when it awaits one sendMail: the answer comes at  *)
(* most once and is final, the server takes the message at most once, and      *)
(* "resolved" is said only of a message the server has taken.  "rejected" may  *)
(* be said of either.                                                          *)
VARIABLES taken, answer
vars == <<taken, answer>>

Init == taken = FALSE /\ answer = "open"
Take == ~taken /\ answer = "open" /\ taken' = TRUE /\ UNCHANGED answer
Resolve == answer = "open" /\ taken /\ answer' = "resolved" /\ UNCHANGED taken
Reject == answer = "open" /\ answer' = "rejected" /\ UNCHANGED taken
Next == Take \/ Resolve \/ Reject
Spec == Init /\ [][Next]_vars
=============================================================================
