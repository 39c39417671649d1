------------------------------ MODULE EdgeProofs ------------------------------
(***************************************************************************)
(* Proofs about the small machines at the server's edge: the mail          *)
(* transport (Smtp), whose dialogue implements MailPromise for servers     *)
(* that answer, break off or close as they like; the rate limiter          *)
(* (RateLimit), for any limit, window, number of clients and sweep; web    *)
(* research (Research), for any people, callers and edits; and CSV files   *)
(* (Csv), the import for any files, imports and deletions beside them, the *)
(* parser for any text.                                                    *)
(***************************************************************************)
EXTENDS Smtp, RateLimit, Research, Csv, TLAPS, FiniteSetTheorems, SequenceTheorems

-----------------------------------------------------------------------------
(* Mail.  SmtpInv says why a message that counts as sent was taken: the last  *)
(* command, QUIT, follows the server's 250 for the message.                   *)

LEMMA SmtpInvInit == SmtpInit => SmtpInv
<1> SUFFICES ASSUME SmtpInit PROVE SmtpInv
  OBVIOUS
<1>1. step \in 0..9
  BY DEF SmtpInit
<1>2. said \in BOOLEAN /\ taken \in BOOLEAN
  BY Zenon DEF SmtpInit
<1> QED
  BY <1>1, <1>2 DEF SmtpInit, SmtpInv, SmtpTypeOK

LEMMA NextStepBounded == ASSUME SmtpInv, step # 9 PROVE NextStep \in 0..9
BY DEF SmtpInv, SmtpTypeOK, NextStep

\* Only the answer to the message, which is 250 as step 8 wants it when the
\* server has it, leads to the last step.
LEMMA ReplyKeeps == ASSUME SmtpInv, Reply PROVE SmtpInv'
<1>1. PICK code \in Codes :
        /\ step = 8 => (code = 250 <=> taken)
        /\ Advance(code) \/ Refused(code) \/ Ignored(code)
  BY DEF Reply
<1> USE DEF Reply, Dialogue, Sending, SmtpInv, SmtpTypeOK
<1>2. CASE Advance(code)
  <2>1. step = 8 => code = 250
    BY <1>2 DEF Advance, Wanted
  <2>2. step' = 9 => step \in {8, 9}
    BY <1>2 DEF Advance, NextStep
  <2> QED
    BY <1>1, <1>2, <2>1, <2>2, NextStepBounded DEF Advance
<1>3. CASE Refused(code)
  BY <1>3 DEF Refused
<1>4. CASE Ignored(code)
  BY ZenonT(60), <1>4 DEF Ignored
<1> QED
  BY <1>1, <1>2, <1>3, <1>4

LEMMA SmtpStep == ASSUME SmtpInv, [SmtpNext]_smtpVars PROVE SmtpInv'
<1> USE DEF SmtpInv, SmtpTypeOK, Kinds
<1>1. CASE LoadResend
  BY <1>1 DEF LoadResend, credentialsFromConfig
<1>2. CASE LoadSmtp
  BY <1>2 DEF LoadSmtp, credentialsFromConfig
<1>3. CASE Reconnect
  BY <1>3 DEF Reconnect
<1>4. CASE Taken
  BY <1>4 DEF Taken
<1>5. CASE sendResend
  BY <1>5 DEF sendResend, Sending
<1>6. CASE Fail \/ Close
  BY <1>6 DEF Fail, Close, Dialogue, Sending
<1>7. CASE UNCHANGED smtpVars
  BY <1>7 DEF smtpVars
<1> QED
  BY <1>1, <1>2, <1>3, <1>4, <1>5, <1>6, <1>7, ReplyKeeps DEF SmtpNext

LEMMA SmtpInductive == SmtpSpec => []SmtpInv
BY SmtpInvInit, SmtpStep, PTL DEF SmtpSpec

LEMMA MailInitRefines == SmtpInit => Promise!Init
BY DEF SmtpInit, Promise!Init

LEMMA MailStepRefines ==
  ASSUME SmtpInv, [SmtpNext]_smtpVars PROVE [Promise!Next]_(Promise!vars)
<1> USE DEF Promise!vars, Promise!Next
<1>1. CASE LoadResend \/ Reconnect \/ Close
  BY <1>1 DEF LoadResend, Reconnect, Close
<1>2. CASE LoadSmtp
  BY <1>2 DEF LoadSmtp, SmtpInv, Promise!Reject
<1>3. CASE Taken
  BY <1>3 DEF Taken, Sending, SmtpInv, Promise!Take
<1>4. CASE sendResend
  BY <1>4 DEF sendResend, Sending, Promise!Resolve, Promise!Reject
<1>5. CASE Reply
  <2>1. PICK code \in Codes : Advance(code) \/ Refused(code) \/ Ignored(code)
    BY <1>5 DEF Reply
  <2> USE <1>5 DEF Reply, Dialogue, Sending, SmtpInv
  <2>2. CASE Advance(code)
    BY <2>2 DEF Advance, Promise!Resolve
  <2>3. CASE Refused(code)
    BY <2>3 DEF Refused, Promise!Reject
  <2>4. CASE Ignored(code)
    BY <2>4 DEF Ignored
  <2> QED
    BY <2>1, <2>2, <2>3, <2>4
<1>6. CASE Fail
  BY <1>6 DEF Fail, Dialogue, Sending, Promise!Reject
<1>7. CASE UNCHANGED smtpVars
  BY <1>7 DEF smtpVars
<1> QED
  BY <1>1, <1>2, <1>3, <1>4, <1>5, <1>6, <1>7 DEF SmtpNext

\* sendMail resolves only for a message the provider took, and answers once,
\* whatever the server says and whenever the connection breaks.
THEOREM MailKeepsPromise == SmtpSpec => MailPromiseKept
BY MailInitRefines, MailStepRefines, SmtpInductive, PTL
DEF SmtpSpec, MailPromiseKept, Promise!Spec

-----------------------------------------------------------------------------
(* The limiter.  RateInv keeps, for every client, its admitted requests in    *)
(* order: the next is of the same window with a higher number, or of a window *)
(* that opened when the last was over.  Whatever the sweep drops is over.     *)

\* The sweep keeps a client's window or drops one that is over.
LEMMA PruneDropsTheOver ==
  ASSUME NEW c \in Clients
  PROVE  \/ prune(windows)[c] = windows[c]
         \/ prune(windows)[c] = NoWindow /\ windows[c].resetAt <= now
BY DEF prune

LEMMA PruneTyped ==
  ASSUME RateTypeOK PROVE prune(windows) \in [Clients -> [count : Nat, resetAt : Nat]]
BY DEF prune, RateTypeOK, NoWindow

\* Whole seconds, rounded up, are never too few.
LEMMA CeilDivCovers ==
  ASSUME NEW a \in Int, NEW b \in Nat \ {0} PROVE CeilDiv(a, b) \in Int /\ b * CeilDiv(a, b) >= a
BY DEF CeilDiv

LEMMA RetryAfterCovers ==
  ASSUME RateInv, NEW w, w.resetAt \in Nat
  PROVE  /\ Second * RetryAfter(w) \in Nat
         /\ now + Second * RetryAfter(w) >= w.resetAt
<1> DEFINE s == CeilDiv(w.resetAt - now, Second)
<1>1. now \in Nat /\ Second \in Nat \ {0}
  BY RateAssumption DEF RateInv, RateTypeOK
<1>2. s \in Int /\ Second * s >= w.resetAt - now
  BY <1>1, CeilDivCovers
<1>3. RetryAfter(w) = IF s < 1 THEN 1 ELSE s
  BY DEF RetryAfter
<1> HIDE DEF s
<1>4. CASE s < 1
  <2>1. Second * s <= 0
    BY <1>1, <1>2, <1>4
  <2> QED
    BY <1>1, <1>2, <1>3, <1>4, <2>1
<1>5. CASE s >= 1
  <2>1. Second * s \in Nat
    BY <1>1, <1>2, <1>5
  <2> QED
    BY <1>1, <1>2, <1>3, <1>5, <2>1
<1> QED
  BY <1>2, <1>4, <1>5

AdmittedRequests == [at : Nat, opened : Nat, nth : 1..Limit]

LEMMA RateFacts ==
  ASSUME RateInv
  PROVE  /\ now \in Nat /\ Width \in Nat \ {0} /\ Limit \in Nat \ {0}
         /\ windows \in [Clients -> [count : Nat, resetAt : Nat]]
         /\ admitted \in [Clients -> Seq(AdmittedRequests)]
<1>1. now \in Nat
  BY RateAssumption DEF RateInv, RateTypeOK
<1>2. Width \in Nat \ {0} /\ Limit \in Nat \ {0}
  BY RateAssumption
<1>3. /\ windows \in [Clients -> [count : Nat, resetAt : Nat]]
      /\ admitted \in [Clients -> Seq(AdmittedRequests)]
  BY Zenon DEF RateInv, RateTypeOK, AdmittedRequests
<1> QED
  BY <1>1, <1>2, <1>3

LEMMA AdmittedTyped ==
  ASSUME RateInv, NEW c \in Clients
  PROVE  /\ admitted[c] \in Seq(AdmittedRequests) /\ Len(admitted[c]) \in Nat
         /\ \A n \in 1..Len(admitted[c]) : admitted[c][n] \in AdmittedRequests
<1>1. admitted[c] \in Seq(AdmittedRequests)
  BY RateFacts
<1>2. Len(admitted[c]) \in Nat
  BY <1>1
<1>3. ASSUME NEW n \in 1..Len(admitted[c]) PROVE admitted[c][n] \in AdmittedRequests
  BY <1>1, ElementOfSeq
<1> QED
  BY <1>1, <1>2, <1>3

\* What the sweep leaves is as good as what it found.
InOrderWith(c, ws) ==
  \A n \in 1..Len(admitted[c]) :
    LET a == admitted[c][n] IN
    /\ a.opened <= a.at /\ a.at < a.opened + Width /\ a.at <= now
    /\ \A m \in 1..(n - 1) : Apart(admitted[c][m], a)
    /\ IF ws[c] = NoWindow THEN a.opened + Width <= now
       ELSE /\ a.opened + Width <= ws[c].resetAt
            /\ a.opened + Width = ws[c].resetAt => a.nth <= ws[c].count
            /\ a.opened + Width = ws[c].resetAt \/ a.opened + 2 * Width <= ws[c].resetAt

LEMMA PruneKeepsOrder ==
  ASSUME RateInv, NEW c \in Clients PROVE InOrderWith(c, prune(windows))
<1>1. now \in Nat /\ Width \in Nat /\ windows[c].resetAt \in Nat
  BY RateFacts
<1>4. \A n \in 1..Len(admitted[c]) : admitted[c][n].opened \in Nat
  BY AdmittedTyped DEF AdmittedRequests
<1>5. InOrder(c)
  BY DEF RateInv
<1>2. CASE prune(windows)[c] = windows[c]
  BY <1>5, <1>2 DEF InOrder, InOrderWith
<1>3. CASE prune(windows)[c] = NoWindow /\ windows[c].resetAt <= now
  BY SMTT(40), <1>1, <1>4, <1>5, <1>3 DEF InOrder, InOrderWith
<1> QED
  BY <1>2, <1>3, PruneDropsTheOver

\* One more admitted request, in a window that counts it as its last.
LEMMA AdmitKeepsOrder ==
  ASSUME RateInv, NEW c \in Clients, NEW w \in [count : 1..Limit, resetAt : Nat],
         windows' \in [Clients -> [count : Nat, resetAt : Nat]], windows'[c] = w,
         UNCHANGED now, Admit(c),
         Width <= w.resetAt, now < w.resetAt, w.resetAt <= now + Width,
         \A n \in 1..Len(admitted[c]) :
           LET a == admitted[c][n] IN
           /\ a.opened + Width <= w.resetAt
           /\ a.opened + Width = w.resetAt => a.nth < w.count
           /\ a.opened + Width = w.resetAt \/ a.opened + 2 * Width <= w.resetAt
  PROVE  /\ admitted' \in [Clients -> Seq(AdmittedRequests)]
         /\ InOrder(c)'
<1> DEFINE e == [at |-> now, opened |-> w.resetAt - Width, nth |-> w.count]
           R == AdmittedRequests
           old == admitted[c]
<1>1. /\ now \in Nat /\ Width \in Nat \ {0} /\ Limit \in Nat \ {0} /\ old \in Seq(R)
      /\ admitted \in [Clients -> Seq(R)]
  BY RateFacts
<1>10. InOrder(c)
  BY DEF RateInv
<1>2. e \in R /\ w.resetAt \in Nat /\ w.count \in 1..Limit
  BY <1>1 DEF AdmittedRequests
<1>3. admitted'[c] = Append(old, e) /\ admitted' = [admitted EXCEPT ![c] = Append(old, e)]
  BY <1>1 DEF Admit
<1>4. /\ Append(old, e) \in Seq(R) /\ Len(Append(old, e)) = Len(old) + 1
      /\ \A n \in 1..Len(old) : Append(old, e)[n] = old[n]
      /\ Append(old, e)[Len(old) + 1] = e
  BY <1>1, <1>2, AppendProperties
<1>5. w # NoWindow
  BY <1>2 DEF NoWindow
<1>6. Len(old) \in Nat /\ \A n \in 1..Len(old) : old[n] \in R
  BY AdmittedTyped
<1>7. ASSUME NEW n \in 1..Len(old) PROVE Apart(old[n], e)
  <2>1. old[n].opened \in Nat /\ old[n].nth \in Nat
    BY <1>6 DEF AdmittedRequests
  <2>2. /\ old[n].opened + Width <= w.resetAt
        /\ old[n].opened + Width = w.resetAt => old[n].nth < w.count
        /\ old[n].opened + Width = w.resetAt \/ old[n].opened + 2 * Width <= w.resetAt
    OBVIOUS
  <2> QED
    BY SMTT(40), <1>1, <1>2, <2>1, <2>2 DEF Apart
<1>8. ASSUME NEW n \in 1..(Len(old) + 1)
      PROVE  LET a == Append(old, e)[n] IN
             /\ a.opened <= a.at /\ a.at < a.opened + Width /\ a.at <= now
             /\ \A m \in 1..(n - 1) : Apart(Append(old, e)[m], a)
             /\ a.opened + Width <= w.resetAt
             /\ a.opened + Width = w.resetAt => a.nth <= w.count
             /\ a.opened + Width = w.resetAt \/ a.opened + 2 * Width <= w.resetAt
  <2>1. CASE n = Len(old) + 1
    <3>1. \A m \in 1..(n - 1) : m \in 1..Len(old) /\ Append(old, e)[m] = old[m]
      BY <1>4, <1>6, <2>1
    <3> QED
      BY SMTT(40), <1>1, <1>2, <1>4, <1>7, <2>1, <3>1
  <2>2. CASE n \in 1..Len(old)
    <3>1. \A m \in 1..(n - 1) : m \in 1..Len(old) /\ Append(old, e)[m] = old[m]
      BY <1>4, <1>6, <2>2
    <3>2. /\ old[n].opened <= old[n].at /\ old[n].at < old[n].opened + Width /\ old[n].at <= now
          /\ \A m \in 1..(n - 1) : Apart(old[m], old[n])
      BY <1>10, <2>2 DEF InOrder
    <3>3. Append(old, e)[n] = old[n] /\ w.count \in Nat
      BY <1>2, <1>4, <2>2
    <3>4. old[n].nth \in Nat /\ old[n].opened \in Nat
      BY <1>6, <2>2 DEF AdmittedRequests
    <3>5. /\ old[n].opened + Width <= w.resetAt
          /\ old[n].opened + Width = w.resetAt => old[n].nth < w.count
          /\ old[n].opened + Width = w.resetAt \/ old[n].opened + 2 * Width <= w.resetAt
      BY <2>2
    <3> QED
      BY <2>2, <3>1, <3>2, <3>3, <3>4, <3>5
  <2> QED
    BY <1>6, <2>1, <2>2
<1> HIDE DEF e, old
<1>9. InOrder(c)'
  BY <1>3, <1>4, <1>5, <1>8 DEF InOrder
<1>11. admitted' \in [Clients -> Seq(R)]
  BY <1>1, <1>3, <1>4
<1> QED
  BY <1>9, <1>11

\* A client that is not asking keeps its order, whatever the sweep drops.
LEMMA OthersKeepOrder ==
  ASSUME RateInv, NEW c \in Clients, now' \in Nat, now <= now', admitted'[c] = admitted[c],
         \/ windows'[c] = windows[c]
         \/ windows'[c] = NoWindow /\ windows[c].resetAt <= now'
  PROVE  InOrder(c)'
<1>1. now \in Nat /\ Width \in Nat /\ windows[c].resetAt \in Nat
  BY RateFacts
<1>2. \A n \in 1..Len(admitted[c]) : admitted[c][n].opened \in Nat /\ admitted[c][n].at \in Nat
  BY AdmittedTyped DEF AdmittedRequests
<1>3. InOrderWith(c, windows)
  BY DEF RateInv, InOrder, InOrderWith
<1>4. ASSUME NEW n \in 1..Len(admitted[c])
      PROVE  LET a == admitted[c][n] IN
             /\ a.opened <= a.at /\ a.at < a.opened + Width /\ a.at <= now'
             /\ \A m \in 1..(n - 1) : Apart(admitted[c][m], a)
             /\ IF windows'[c] = NoWindow THEN a.opened + Width <= now'
                ELSE /\ a.opened + Width <= windows'[c].resetAt
                     /\ a.opened + Width = windows'[c].resetAt => a.nth <= windows'[c].count
                     /\ \/ a.opened + Width = windows'[c].resetAt
                        \/ a.opened + 2 * Width <= windows'[c].resetAt
  <2> DEFINE a == admitted[c][n]
  <2>1. /\ a.opened <= a.at /\ a.at < a.opened + Width /\ a.at <= now
        /\ \A m \in 1..(n - 1) : Apart(admitted[c][m], a)
    BY <1>3 DEF InOrderWith
  <2>2. IF windows[c] = NoWindow THEN a.opened + Width <= now
        ELSE /\ a.opened + Width <= windows[c].resetAt
             /\ a.opened + Width = windows[c].resetAt => a.nth <= windows[c].count
             /\ a.opened + Width = windows[c].resetAt \/ a.opened + 2 * Width <= windows[c].resetAt
    BY <1>3 DEF InOrderWith
  <2>3. a.opened \in Nat /\ a.at \in Nat
    BY <1>2
  <2> HIDE DEF a
  <2>4. a.at <= now'
    BY <1>1, <2>1, <2>3
  <2>5. CASE windows'[c] = windows[c]
    <3>1. a.opened + Width <= now => a.opened + Width <= now'
      BY <1>1, <2>3
    <3> QED
      BY <2>1, <2>2, <2>4, <2>5, <3>1 DEF a
  <2>6. CASE windows'[c] = NoWindow /\ windows[c].resetAt <= now'
    <3>1. a.opened + Width <= now'
      BY <1>1, <2>2, <2>3, <2>6
    <3> QED
      BY <2>1, <2>4, <2>6, <3>1 DEF a
  <2> QED
    BY <2>5, <2>6
<1> QED
  BY <1>4 DEF InOrder

\* A window that is over by t, measured against one that opens at t.
LEMMA Earlier ==
  ASSUME NEW t \in Nat, NEW width \in Nat \ {0}, NEW o \in Nat, o + width <= t
  PROVE  o + width <= t + width /\ o + width # t + width /\ o + 2 * width <= t + width
OBVIOUS

LEMMA OpenKeeps ==
  ASSUME RateInv, NEW c \in Clients, Open(c, prune(windows)), UNCHANGED now
  PROVE  RateInv'
<1> DEFINE ws == prune(windows)
           w == [count |-> 1, resetAt |-> now + Width]
<1>1. /\ now \in Nat /\ Width \in Nat \ {0} /\ Limit \in Nat \ {0}
      /\ windows \in [Clients -> [count : Nat, resetAt : Nat]]
      /\ ws \in [Clients -> [count : Nat, resetAt : Nat]]
  BY RateFacts, PruneTyped DEF RateInv
<1>2. /\ windows' = [ws EXCEPT ![c] = w] /\ Admit(c) /\ UNCHANGED returnAt
      /\ ws[c] = NoWindow \/ ws[c].resetAt <= now
  BY DEF Open
<1>3. w \in [count : 1..Limit, resetAt : Nat] /\ windows'[c] = w
      /\ windows' \in [Clients -> [count : Nat, resetAt : Nat]]
  BY <1>1, <1>2
<1>4. \A n \in 1..Len(admitted[c]) : admitted[c][n].opened + Width <= now
  <2>1. \A n \in 1..Len(admitted[c]) : admitted[c][n].opened \in Nat
    BY AdmittedTyped DEF AdmittedRequests
  <2>2. InOrderWith(c, ws)
    BY PruneKeepsOrder
  <2>3. ws[c].resetAt \in Nat
    BY <1>1
  <2> HIDE DEF ws
  <2> SUFFICES ASSUME NEW n \in 1..Len(admitted[c]) PROVE admitted[c][n].opened + Width <= now
    OBVIOUS
  <2>4. IF ws[c] = NoWindow THEN admitted[c][n].opened + Width <= now
        ELSE admitted[c][n].opened + Width <= ws[c].resetAt
    BY <2>2, Zenon DEF InOrderWith
  <2>5. admitted[c][n].opened \in Nat
    BY <2>1
  <2>6. now \in Nat /\ Width \in Nat /\ (ws[c] = NoWindow \/ ws[c].resetAt <= now)
    BY <1>1, <1>2
  <2> QED
    BY <2>3, <2>4, <2>5, <2>6
<1>5. admitted' \in [Clients -> Seq(AdmittedRequests)] /\ InOrder(c)'
  <2>1. \A n \in 1..Len(admitted[c]) : admitted[c][n].opened \in Nat
    BY AdmittedTyped DEF AdmittedRequests
  <2>2. \A n \in 1..Len(admitted[c]) :
          LET a == admitted[c][n] IN
          /\ a.opened + Width <= w.resetAt
          /\ a.opened + Width = w.resetAt => a.nth < w.count
          /\ a.opened + Width = w.resetAt \/ a.opened + 2 * Width <= w.resetAt
    <3> SUFFICES ASSUME NEW n \in 1..Len(admitted[c])
                 PROVE  LET a == admitted[c][n] IN
                        /\ a.opened + Width <= w.resetAt
                        /\ a.opened + Width = w.resetAt => a.nth < w.count
                        /\ a.opened + Width = w.resetAt \/ a.opened + 2 * Width <= w.resetAt
      OBVIOUS
    <3>1. admitted[c][n].opened \in Nat /\ admitted[c][n].opened + Width <= now
      BY <1>4, <2>1
    <3>2. w.resetAt = now + Width
      OBVIOUS
    <3>3. now \in Nat /\ Width \in Nat \ {0}
      BY <1>1
    <3>4. PICK o \in Nat : o = admitted[c][n].opened
      BY <3>1
    <3>5. o + Width <= now + Width /\ o + Width # now + Width /\ o + 2 * Width <= now + Width
      BY <3>1, <3>3, <3>4, Earlier
    <3> HIDE DEF w
    <3> QED
      BY <3>2, <3>4, <3>5, Zenon
  <2>3. Width <= w.resetAt /\ now < w.resetAt /\ w.resetAt <= now + Width
    BY <1>1
  <2> HIDE DEF w
  <2> QED
    BY <1>2, <1>3, <2>2, <2>3, AdmitKeepsOrder
<1>6. ASSUME NEW d \in Clients \ {c}
      PROVE  \/ windows'[d] = windows[d]
             \/ windows'[d] = NoWindow /\ windows[d].resetAt <= now
  BY <1>1, <1>2, PruneDropsTheOver
<1>7. ASSUME NEW d \in Clients \ {c} PROVE InOrder(d)'
  <2>1. admitted'[d] = admitted[d]
    BY <1>2 DEF Admit
  <2> QED
    BY <1>1, <1>6, <2>1, OthersKeepOrder
<1>8. OpenWindows'
  BY <1>1, <1>3, <1>6 DEF RateInv, OpenWindows, NoWindow
<1>9. RetryAfterIsEnough'
  BY <1>1, <1>2, <1>3, <1>6 DEF RateInv, RetryAfterIsEnough, NoWindow
<1>10. RateTypeOK'
  <2>1. now' \in 0..MaxTime /\ returnAt' \in [Clients -> Nat]
    BY <1>2 DEF RateInv, RateTypeOK
  <2> QED
    BY <1>3, <1>5, <2>1, Zenon DEF RateTypeOK, AdmittedRequests
<1> QED
  BY <1>5, <1>7, <1>8, <1>9, <1>10 DEF RateInv

LEMMA CountKeeps ==
  ASSUME RateInv, NEW c \in Clients, Count(c, prune(windows)), UNCHANGED now
  PROVE  RateInv'
<1> DEFINE ws == prune(windows)
           w == [ws[c] EXCEPT !.count = @ + 1]
<1>1. /\ now \in Nat /\ Width \in Nat \ {0} /\ Limit \in Nat \ {0}
      /\ windows \in [Clients -> [count : Nat, resetAt : Nat]]
      /\ ws \in [Clients -> [count : Nat, resetAt : Nat]]
  BY RateFacts, PruneTyped DEF RateInv
<1>2. /\ windows' = [ws EXCEPT ![c] = w] /\ ws[c] # NoWindow /\ now < ws[c].resetAt
      /\ IF ws[c].count + 1 > Limit
         THEN /\ returnAt' = [returnAt EXCEPT ![c] = now + Second * RetryAfter(ws[c])]
              /\ UNCHANGED admitted
         ELSE Admit(c) /\ UNCHANGED returnAt
  BY <1>1 DEF Count
<1>3. ws[c] = windows[c]
  BY <1>2, PruneDropsTheOver
<1>4. /\ w.count = windows[c].count + 1 /\ w.resetAt = windows[c].resetAt /\ windows'[c] = w
      /\ w \in [count : Nat, resetAt : Nat]
      /\ windows' \in [Clients -> [count : Nat, resetAt : Nat]]
  BY <1>1, <1>2, <1>3
<1>5. /\ windows[c].count >= 1 /\ windows[c].resetAt >= Width /\ windows[c].resetAt <= now + Width
      /\ windows[c].count \in Nat /\ windows[c].resetAt \in Nat
  BY <1>1, <1>2, <1>3 DEF RateInv, OpenWindows
<1>6. /\ \A n \in 1..Len(admitted[c]) : admitted[c][n].opened \in Nat /\ admitted[c][n].nth \in Nat
      /\ InOrder(c)
  BY SMTT(40), AdmittedTyped DEF AdmittedRequests, RateInv
<1>7. ASSUME NEW d \in Clients \ {c}
      PROVE  \/ windows'[d] = windows[d]
             \/ windows'[d] = NoWindow /\ windows[d].resetAt <= now
  BY <1>1, <1>2, PruneDropsTheOver
<1> HIDE DEF w
<1>8. /\ admitted' \in [Clients -> Seq(AdmittedRequests)] /\ InOrder(c)'
      /\ \A d \in Clients \ {c} : admitted'[d] = admitted[d]
  <2>1. CASE ws[c].count + 1 > Limit
    <3>1. admitted' = admitted
      BY <1>2, <2>1
    <3>2. windows'[c] # NoWindow
      BY <1>4, <1>5 DEF NoWindow
    <3>3. w.resetAt = windows[c].resetAt /\ windows[c].count <= w.count
          /\ windows[c] # NoWindow
      BY <1>2, <1>3, <1>4, <1>5
    <3>4. \A n \in 1..Len(admitted[c]) : admitted[c][n].nth <= windows[c].count => admitted[c][n].nth <= w.count
      BY <1>4, <1>5, <1>6, <3>3
    <3>5. InOrder(c)'
      BY <1>4, <1>6, <3>1, <3>2, <3>3, <3>4 DEF InOrder
    <3> QED
      BY <3>1, <3>5, RateFacts
  <2>2. CASE ~(ws[c].count + 1 > Limit)
    <3>1. Admit(c) /\ w \in [count : 1..Limit, resetAt : Nat]
      BY <1>1, <1>2, <1>3, <1>4, <1>5, <2>2
    <3>2. ASSUME NEW n \in 1..Len(admitted[c])
          PROVE  LET a == admitted[c][n] IN
                 /\ a.opened + Width <= w.resetAt
                 /\ a.opened + Width = w.resetAt => a.nth < w.count
                 /\ a.opened + Width = w.resetAt \/ a.opened + 2 * Width <= w.resetAt
      <4>1. windows[c] # NoWindow /\ InOrder(c)
        BY <1>2, <1>3, <1>6
      <4>2. /\ admitted[c][n].opened + Width <= windows[c].resetAt
            /\ admitted[c][n].opened + Width = windows[c].resetAt =>
                 admitted[c][n].nth <= windows[c].count
            /\ \/ admitted[c][n].opened + Width = windows[c].resetAt
               \/ admitted[c][n].opened + 2 * Width <= windows[c].resetAt
        BY <4>1, Zenon DEF InOrder
      <4>3. admitted[c][n].opened \in Nat /\ admitted[c][n].nth \in Nat
        BY <1>6
      <4>4. w.resetAt = windows[c].resetAt /\ w.count = windows[c].count + 1
        BY <1>4
      <4> QED
        BY SMTT(60), <1>5, <4>2, <4>3, <4>4
    <3>3. admitted' \in [Clients -> Seq(AdmittedRequests)] /\ InOrder(c)'
      BY <1>2, <1>3, <1>4, <1>5, <3>1, <3>2, AdmitKeepsOrder
    <3> QED
      BY <3>1, <3>3 DEF Admit
  <2> QED
    BY <2>1, <2>2
<1>9. ASSUME NEW d \in Clients \ {c} PROVE InOrder(d)'
  <2>1. admitted'[d] = admitted[d] /\ d \in Clients
    BY <1>8
  <2>2. now' \in Nat /\ now <= now' /\ now' = now
    BY <1>1
  <2>3. \/ windows'[d] = windows[d]
        \/ windows'[d] = NoWindow /\ windows[d].resetAt <= now'
    BY <1>7, <2>2
  <2> QED
    BY <2>1, <2>2, <2>3, OthersKeepOrder
<1>10. OpenWindows'
  BY <1>1, <1>4, <1>5, <1>7 DEF RateInv, OpenWindows
<1>11. Second * RetryAfter(ws[c]) \in Nat /\ now + Second * RetryAfter(ws[c]) >= ws[c].resetAt
  BY <1>3, <1>5, RetryAfterCovers
<1>12. returnAt \in [Clients -> Nat] /\ now' \in 0..MaxTime
  BY DEF RateInv, RateTypeOK
<1>13. returnAt' \in [Clients -> Nat]
  <2>1. now + Second * RetryAfter(ws[c]) \in Nat
    BY <1>1, <1>11
  <2>2. returnAt' = returnAt \/ returnAt' = [returnAt EXCEPT ![c] = now + Second * RetryAfter(ws[c])]
    BY <1>2
  <2> QED
    BY <1>12, <2>1, <2>2
<1>14. RetryAfterIsEnough'
  BY <1>1, <1>2, <1>3, <1>4, <1>7, <1>11, <1>12 DEF RateInv, RetryAfterIsEnough, NoWindow
<1>15. RateTypeOK'
  BY <1>4, <1>8, <1>12, <1>13, Zenon DEF RateTypeOK, AdmittedRequests
<1> QED
  BY <1>8, <1>9, <1>10, <1>14, <1>15 DEF RateInv

LEMMA RateInvInit == RateInit => RateInv
<1> SUFFICES ASSUME RateInit PROVE RateInv
  OBVIOUS
<1>1. MaxTime \in Nat /\ Limit \in Nat \ {0}
  BY RateAssumption
<1>2. <<>> \in Seq([at : Nat, opened : Nat, nth : 1..Limit]) /\ Len(<<>>) = 0
  BY EmptySeq
<1>3. RateTypeOK
  BY <1>1, <1>2 DEF RateInit, RateTypeOK, NoWindow
<1>4. OpenWindows /\ RetryAfterIsEnough
  BY <1>1 DEF RateInit, OpenWindows, RetryAfterIsEnough, NoWindow
<1>5. ASSUME NEW c \in Clients PROVE InOrder(c)
  BY <1>2 DEF RateInit, InOrder
<1> QED
  BY <1>3, <1>4, <1>5 DEF RateInv

LEMMA TickKeeps == ASSUME RateInv, Tick PROVE RateInv'
<1>1. /\ now \in Nat /\ Width \in Nat \ {0}
      /\ windows \in [Clients -> [count : Nat, resetAt : Nat]]
  BY RateFacts
<1>2. now' = now + 1 /\ now < MaxTime /\ UNCHANGED <<windows, admitted, returnAt>>
  BY DEF Tick
<1>3. ASSUME NEW c \in Clients PROVE InOrder(c)'
  BY <1>1, <1>2, OthersKeepOrder
<1>4. now' \in 0..MaxTime
  BY <1>1, <1>2, RateAssumption
<1>5. RateTypeOK'
  BY <1>2, <1>4, Zenon DEF RateInv, RateTypeOK
<1>6. OpenWindows' /\ RetryAfterIsEnough'
  BY <1>1, <1>2 DEF RateInv, OpenWindows, RetryAfterIsEnough
<1> QED
  BY <1>3, <1>5, <1>6 DEF RateInv

LEMMA RateStep == ASSUME RateInv, [RateNext]_rateVars PROVE RateInv'
<1>1. CASE UNCHANGED rateVars
  BY ZenonT(60), <1>1 DEF rateVars, RateInv, RateTypeOK, OpenWindows, InOrder, RetryAfterIsEnough
<1>2. ASSUME NEW c \in Clients, rateLimit(c) PROVE RateInv'
  BY <1>2, OpenKeeps, CountKeeps DEF rateLimit
<1> QED
  BY <1>1, <1>2, TickKeeps DEF RateNext

LEMMA RateInductive == RateSpec => []RateInv
BY RateInvInit, RateStep, PTL DEF RateSpec

\* Requests of one window, in order, carry rising numbers up to the limit.
LEMMA OneWindowIsTheLimit ==
  ASSUME RateInv, NEW c \in Clients, NEW S \in SUBSET (1..Len(admitted[c])),
         \A n, m \in S : admitted[c][n].opened < admitted[c][m].opened + Width
  PROVE  IsFiniteSet(S) /\ Cardinality(S) <= Limit
<1> DEFINE nthOf == [n \in S |-> admitted[c][n].nth]
<1>1. /\ Len(admitted[c]) \in Nat
      /\ \A n \in S : admitted[c][n].nth \in 1..Limit /\ admitted[c][n].opened \in Nat
  BY AdmittedTyped DEF AdmittedRequests
<1>2. Limit \in Nat /\ Width \in Nat
  BY RateFacts
<1>3. ASSUME NEW m \in S, NEW n \in S, m < n PROVE admitted[c][m].nth < admitted[c][n].nth
  <2>1. InOrder(c)
    BY DEF RateInv
  <2>2. m \in 1..(n - 1)
    BY <1>1, <1>3
  <2>3. Apart(admitted[c][m], admitted[c][n])
    BY <2>1, <2>2 DEF InOrder
  <2>4. ~(admitted[c][m].opened + Width <= admitted[c][n].opened)
    BY SMTT(60), <1>1, <1>2
  <2> QED
    BY <2>3, <2>4 DEF Apart
<1>4. nthOf \in Injection(S, 1..Limit)
  <2>1. nthOf \in [S -> 1..Limit]
    BY <1>1
  <2>2. ASSUME NEW m \in S, NEW n \in S, nthOf[m] = nthOf[n] PROVE m = n
    <3>1. m \in Int /\ n \in Int /\ admitted[c][m].nth \in Int /\ admitted[c][n].nth \in Int
      BY <1>1
    <3>2. admitted[c][m].nth = admitted[c][n].nth
      BY <2>2
    <3> QED
      BY <1>3, <3>1, <3>2
  <2> QED
    BY <2>1, <2>2 DEF Injection, IsInjective
<1>5. IsFiniteSet(1..Limit) /\ Cardinality(1..Limit) = Limit
  BY <1>2, FS_Interval
<1> HIDE DEF nthOf
<1> QED
  BY <1>4, <1>5, FS_Injection

\* A stretch as long as a window meets requests of at most two windows: those
\* that opened by its beginning and those that opened in it.
LEMMA TwoWindowsMeet == ASSUME RateInv PROVE AtMostTwoWindows
<1> SUFFICES ASSUME NEW c \in Clients, NEW t \in 0..MaxTime
             PROVE  Cardinality(Within(c, t)) <= 2 * Limit
  BY DEF AtMostTwoWindows
<1> DEFINE S == Within(c, t)
           Early == {n \in S : admitted[c][n].opened <= t}
           Late == {n \in S : t < admitted[c][n].opened}
<1>1. t \in Int /\ Width \in Nat \ {0} /\ Limit \in Nat
  BY RateFacts
<1>2. /\ Len(admitted[c]) \in Nat
      /\ \A n \in 1..Len(admitted[c]) : admitted[c][n].opened \in Nat /\ admitted[c][n].at \in Nat
  BY AdmittedTyped DEF AdmittedRequests
<1>3. /\ S \subseteq 1..Len(admitted[c])
      /\ \A n \in S : t <= admitted[c][n].at /\ admitted[c][n].at < t + Width
  BY DEF Within
<1>4. \A n \in S : /\ admitted[c][n].opened <= admitted[c][n].at
                   /\ admitted[c][n].at < admitted[c][n].opened + Width
                   /\ admitted[c][n].opened \in Nat /\ admitted[c][n].at \in Nat
  BY <1>2, <1>3 DEF RateInv, InOrder
<1> HIDE DEF S
<1>5. IsFiniteSet(Early) /\ Cardinality(Early) <= Limit
  <2>1. Early \in SUBSET (1..Len(admitted[c]))
    BY <1>3
  <2>2. ASSUME NEW n \in Early, NEW m \in Early
        PROVE  admitted[c][n].opened < admitted[c][m].opened + Width
    <3>1. n \in S /\ m \in S /\ admitted[c][n].opened <= t
      OBVIOUS
    <3>2. t <= admitted[c][m].at /\ admitted[c][m].at < admitted[c][m].opened + Width
      BY <1>3, <1>4, <3>1
    <3> QED
      BY <1>1, <1>4, <3>1, <3>2
  <2> QED
    BY <2>1, <2>2, OneWindowIsTheLimit
<1>6. IsFiniteSet(Late) /\ Cardinality(Late) <= Limit
  <2>1. Late \in SUBSET (1..Len(admitted[c]))
    BY <1>3
  <2>2. ASSUME NEW n \in Late, NEW m \in Late
        PROVE  admitted[c][n].opened < admitted[c][m].opened + Width
    <3>1. n \in S /\ m \in S /\ t < admitted[c][m].opened
      OBVIOUS
    <3>2. /\ admitted[c][n].opened <= admitted[c][n].at /\ admitted[c][n].at < t + Width
          /\ admitted[c][n].opened \in Nat /\ admitted[c][n].at \in Nat
          /\ admitted[c][m].opened \in Nat
      BY <1>3, <1>4, <3>1
    <3> QED
      BY <1>1, <3>1, <3>2
  <2> QED
    BY <2>1, <2>2, OneWindowIsTheLimit
<1>7. S = Early \cup Late /\ Early \cap Late = {}
  BY <1>1, <1>4
<1> HIDE DEF Early, Late
<1>8. Cardinality(S) = Cardinality(Early) + Cardinality(Late) - Cardinality(Early \cap Late)
  BY <1>5, <1>6, <1>7, FS_Union
<1>9. Cardinality(Early \cap Late) = 0 /\ Cardinality(Early) \in Nat /\ Cardinality(Late) \in Nat
  BY <1>5, <1>6, <1>7, FS_EmptySet, FS_CardinalityType
<1> QED
  BY <1>1, <1>5, <1>6, <1>8, <1>9 DEF S

\* rateLimit, for every limit, window and number of clients: no stretch as long
\* as a window admits more than two windows' worth of one client, though the
\* sweep of a full map forgets windows, and a client that waits as long as its
\* Retry-After says finds the window that refused it over.
THEOREM LimitIsKept == RateSpec => []LimitHolds
<1>1. RateInv => LimitHolds
  BY TwoWindowsMeet DEF RateInv, LimitHolds
<1> QED
  BY RateInductive, <1>1, PTL

-----------------------------------------------------------------------------
(* Research.  ResearchInv follows one request from its call to its answer.     *)

LEMMA ResearchBegins == ResearchInit => ResearchInv
<1> SUFFICES ASSUME ResearchInit PROVE ResearchInv
  OBVIOUS
<1>1. DOMAIN Idle = {"pc", "person", "fields", "refresh", "row", "result"} /\ Idle.pc = "idle"
  BY DEF Idle
<1>2. DOMAIN post = Callers \cup {Page} /\ \A r \in DOMAIN post : post[r] = Idle
  BY DEF ResearchInit
<1>3. PostsFit
  BY <1>1, <1>2 DEF PostsFit, RequestFits, Steps
<1>4. FileFits
  BY DEF ResearchInit, FileFits
<1>5. DialogFits
  BY <1>1, <1>2 DEF ResearchInit, DialogFits
<1>6. ResearchHolds
  BY <1>1, <1>2 DEF ResearchInit, ResearchHolds, OnlyApprovedLeaves, AnswerFitsTheDialog, AnswerIsToTheApproved
<1> QED
  BY <1>3, <1>4, <1>5, <1>6 DEF ResearchInv

\* What approveOutgoingFields lets through is what it was given, and of the two kinds.
LEMMA ApprovedIsAsked ==
  ASSUME NEW p, NEW c, NEW fields, approveOutgoingFields(p, c, fields) # {}
  PROVE  approveOutgoingFields(p, c, fields) = fields /\ MayLeave(p, fields)
<1>1. fields \subseteq Outgoing(p, c) /\ Name(p) \in fields
  BY DEF approveOutgoingFields
<1>2. \A f \in Outgoing(p, c) : f[1] \in {"name", "country"}
  BY DEF Outgoing, Name
<1> QED
  BY <1>1, <1>2 DEF approveOutgoingFields, MayLeave

LEMMA PostFits ==
  ASSUME PostsFit, NEW r \in DOMAIN post, NEW q, RequestFits(q), post' = [post EXCEPT ![r] = q]
  PROVE  PostsFit' /\ DOMAIN post' = DOMAIN post /\ post'[r] = q /\ \A x \in DOMAIN post : x # r => post'[x] = post[x]
BY DEF PostsFit

\* A request that only goes on to another step keeps what it has.
LEMMA GoesOn ==
  ASSUME PostsFit, NEW r \in DOMAIN post, NEW pc \in {"store", "ok", "refused", "wiki"}, To(r, pc),
         pc \in {"store", "ok"} => post[r].pc \in {"web", "wiki", "store"},
         pc = "wiki" => post[r].pc = "web"
  PROVE  /\ PostsFit' /\ DOMAIN post' = DOMAIN post /\ post'[r].pc = pc /\ post'[r].person = post[r].person
         /\ \A x \in DOMAIN post : x # r => post'[x] = post[x]
<1> DEFINE q == [post[r] EXCEPT !.pc = pc]
<1>1. RequestFits(post[r])
  BY DEF PostsFit
<1>2. /\ DOMAIN q = {"pc", "person", "fields", "refresh", "row", "result"}
      /\ q.pc = pc /\ q.person = post[r].person /\ q.fields = post[r].fields /\ q.result = post[r].result
  BY <1>1 DEF RequestFits
<1>3. post' = [post EXCEPT ![r] = q]
  BY DEF To
<1> HIDE DEF q
<1>4. RequestFits(q)
  BY <1>1, <1>2 DEF RequestFits, Steps
<1> QED
  BY <1>2, <1>3, <1>4, PostFits

\* The page's own steps: only the dialog's request, made while it is open, and
\* the answer to it change what the page waits for.
LEMMA PageKeeps ==
  ASSUME ResearchInv,
         \/ loadCandidates \/ onClose \/ runApprovedResearch \/ Answered
         \/ \E x \in Queues : openDisclosure(x)
         \/ \E c \in Countries : Untick(<<"country", c>>)
  PROVE  ResearchInv'
<1> USE DEF ResearchInv, ResearchHolds
<1>0. Page \in DOMAIN post /\ cache' = cache /\ sent' = sent
  BY DEF PostsFit, loadCandidates, onClose, runApprovedResearch, Answered, openDisclosure, Untick, server
<1>1. FileFits' /\ OnlyApprovedLeaves'
  BY <1>0 DEF FileFits, OnlyApprovedLeaves
<1>2. PostsFit' => AnswerIsToTheApproved'
  BY DEF PostsFit, RequestFits, AnswerIsToTheApproved
<1>3. CASE loadCandidates
  BY <1>1, <1>2, <1>3 DEF loadCandidates, PostsFit, DialogFits, AnswerFitsTheDialog
<1>4. CASE onClose
  BY <1>1, <1>2, <1>4 DEF onClose, PostsFit, DialogFits, AnswerFitsTheDialog
<1>5. CASE runApprovedResearch
  <2> DEFINE q == Asked([person |-> queue[1].person, fields |-> ticked, refresh |-> FALSE])
  <2>1. post' = [post EXCEPT ![Page] = q]
    BY <1>5 DEF runApprovedResearch
  <2>2. RequestFits(q) /\ q.pc = "load" /\ q.person = queue[1].person
    BY DEF RequestFits, Asked, Steps
  <2> HIDE DEF q
  <2>3. PostsFit' /\ post'[Page] = q
    BY <1>0, <2>1, <2>2, PostFits
  <2> QED
    BY <1>1, <1>2, <1>5, <2>2, <2>3 DEF runApprovedResearch, DialogFits, AnswerFitsTheDialog
<1>6. CASE Answered
  <2>1. RequestFits(Idle) /\ Idle.pc = "idle"
    BY DEF RequestFits, Idle, Steps
  <2>2. post' = [post EXCEPT ![Page] = Idle] /\ researching' = FALSE
    BY <1>6 DEF Answered
  <2>3. PostsFit' /\ post'[Page] = Idle
    BY <1>0, <2>1, <2>2, PostFits
  <2> QED
    BY <1>1, <1>2, <2>1, <2>2, <2>3 DEF DialogFits, AnswerFitsTheDialog
<1>7. CASE \E x \in Queues : openDisclosure(x)
  BY <1>1, <1>2, <1>7 DEF openDisclosure, PostsFit, DialogFits, AnswerFitsTheDialog
<1>8. CASE \E c \in Countries : Untick(<<"country", c>>)
  BY <1>1, <1>2, <1>8 DEF Untick, PostsFit, DialogFits, AnswerFitsTheDialog
<1> QED
  BY <1>3, <1>4, <1>5, <1>6, <1>7, <1>8

\* What the dialog waits for, when one request moves without ending or beginning.
LEMMA DialogKeeps ==
  ASSUME DialogFits, AnswerFitsTheDialog, PostsFit, NEW r \in DOMAIN post,
         UNCHANGED <<queue, researching>>, PostsFit', DOMAIN post' = DOMAIN post,
         r = Page => /\ post[r].pc # "idle" /\ post'[r].pc # "idle"
                     /\ post'[r].person = post[r].person,
         \A x \in DOMAIN post : x # r => post'[x] = post[x]
  PROVE  DialogFits' /\ AnswerFitsTheDialog' /\ AnswerIsToTheApproved'
<1>1. Page \in DOMAIN post
  BY DEF PostsFit
<1>2. post'[Page].person = post[Page].person /\ (post'[Page].pc = "idle" <=> post[Page].pc = "idle")
  BY <1>1
<1>3. AnswerIsToTheApproved'
  BY DEF PostsFit, RequestFits, AnswerIsToTheApproved
<1> QED
  BY <1>2, <1>3 DEF DialogFits, AnswerFitsTheDialog

LEMMA ServerKeeps ==
  ASSUME ResearchInv, NEW r \in DOMAIN post, Handler(r)
  PROVE  ResearchInv'
<1> USE DEF ResearchInv, ResearchHolds
<1>0. RequestFits(post[r])
  BY DEF PostsFit
<1> DEFINE Same == cache' = cache
           Quiet == sent' = sent
           Moved == /\ UNCHANGED <<queue, researching>> /\ PostsFit' /\ DOMAIN post' = DOMAIN post
                    /\ post[r].pc # "idle" /\ post'[r].pc # "idle" /\ post'[r].person = post[r].person
                    /\ \A x \in DOMAIN post : x # r => post'[x] = post[x]
<1>1. Moved => DialogFits' /\ AnswerFitsTheDialog' /\ AnswerIsToTheApproved'
  BY DialogKeeps
<1>2. Same => FileFits'
  BY DEF FileFits
<1>3. Quiet => OnlyApprovedLeaves'
  BY DEF OnlyApprovedLeaves
<1>4. ASSUME post[r].pc \in {"web", "wiki"}, NEW to, Leave(r, to) PROVE OnlyApprovedLeaves'
  <2> DEFINE s == [by |-> r, to |-> to, person |-> post[r].person, fields |-> post[r].result, approved |-> post[r].fields]
  <2>1. sent' = sent \cup {s}
    BY <1>4 DEF Leave
  <2>2. s.fields = s.approved /\ MayLeave(s.person, s.fields)
    BY <1>0, <1>4 DEF RequestFits
  <2> HIDE DEF s
  <2> QED
    BY <2>1, <2>2 DEF OnlyApprovedLeaves, MayLeave
<1> HIDE DEF Same, Quiet, Moved
<1>5. CASE LoadUser(r)
  <2> DEFINE p == post[r]
             listed == country[p.person]
             next == IF listed = "gone" THEN "refused" ELSE "check"
             q == [p EXCEPT !.pc = next, !.row = listed]
  <2>1. post' = [post EXCEPT ![r] = q] /\ post[r].pc = "load" /\ UNCHANGED <<page, server>>
    BY <1>5 DEF LoadUser
  <2>2. next \in {"refused", "check"}
    OBVIOUS
  <2> HIDE DEF listed, next
  <2>3. /\ DOMAIN q = {"pc", "person", "fields", "refresh", "row", "result"}
        /\ q.pc = next /\ q.person = p.person
    BY <1>0 DEF RequestFits
  <2> HIDE DEF q
  <2>4. RequestFits(q)
    BY <2>2, <2>3 DEF RequestFits, Steps
  <2> QED
    BY <1>1, <1>2, <1>3, <2>1, <2>2, <2>3, <2>4, PostFits DEF page, server, Moved, Same, Quiet
<1>6. CASE runResearch(r)
  <2> DEFINE p == post[r]
             approved == approveOutgoingFields(p.person, p.row, p.fields)
             key == cacheKey(p.person, approved)
             q == IF approved = {} THEN [p EXCEPT !.pc = "refused"]
                  ELSE IF ~p.refresh /\ key \in DOMAIN cache THEN [p EXCEPT !.pc = "ok", !.result = cache[key]]
                  ELSE [p EXCEPT !.pc = IF provider = "web_search" THEN "web" ELSE "wiki", !.result = approved]
  <2>1. post' = [post EXCEPT ![r] = q] /\ post[r].pc = "check" /\ UNCHANGED <<page, server>>
    BY <1>6 DEF runResearch
  <2>2. approved # {} => approved = p.fields /\ MayLeave(p.person, p.fields)
    BY ApprovedIsAsked
  <2>3. key \in DOMAIN cache => cache[key] = approved
    BY DEF FileFits, cacheKey
  <2> HIDE DEF approved, key
  <2>4. /\ DOMAIN q = {"pc", "person", "fields", "refresh", "row", "result"}
        /\ q.person = p.person /\ q.fields = p.fields
        /\ q.pc \in {"refused", "ok", "web", "wiki"}
        /\ q.pc # "refused" => approved # {} /\ q.result = approved
    BY <1>0, <2>3 DEF RequestFits
  <2> HIDE DEF q
  <2>5. RequestFits(q)
    BY <2>2, <2>4 DEF RequestFits, Steps
  <2> QED
    BY <1>1, <1>2, <1>3, <2>1, <2>4, <2>5, PostFits DEF page, server, Moved, Same, Quiet
<1>7. CASE searchWeb(r)
  <2>1. PICK pc \in {"store", "wiki"} : To(r, pc)
    BY <1>7 DEF searchWeb
  <2>2. Moved /\ Same
    BY <1>7, <2>1, GoesOn DEF searchWeb, Moved, Same, page
  <2>3. OnlyApprovedLeaves'
    BY <1>3, <1>4, <1>7 DEF searchWeb, Quiet
  <2> QED
    BY <1>1, <1>2, <2>2, <2>3 DEF Moved
<1>8. CASE searchEncyclopedia(r)
  <2>1. PICK pc \in {"store", "refused"} : To(r, pc)
    BY <1>8 DEF searchEncyclopedia
  <2>2. Moved /\ Same
    BY <1>8, <2>1, GoesOn DEF searchEncyclopedia, Moved, Same, page
  <2>3. OnlyApprovedLeaves'
    BY <1>4, <1>8 DEF searchEncyclopedia
  <2> QED
    BY <1>1, <1>2, <2>2, <2>3 DEF Moved
<1>9. CASE writeCachedResearch(r)
  <2>1. To(r, "ok") /\ post[r].pc = "store" /\ Quiet
    BY <1>9 DEF writeCachedResearch, Quiet
  <2>2. Moved
    BY <1>9, <2>1, GoesOn DEF writeCachedResearch, Moved, page
  <2>3. FileFits'
    BY <1>9 DEF writeCachedResearch, FileFits, cacheKey
  <2> QED
    BY <1>1, <1>3, <2>1, <2>2, <2>3 DEF Moved
<1> QED
  BY <1>5, <1>6, <1>7, <1>8, <1>9 DEF Handler

LEMMA ResearchStep == ASSUME ResearchInv, [ResearchNext]_researchVars PROVE ResearchInv'
<1>0. DOMAIN post = Callers \cup {Page}
  BY DEF ResearchInv, PostsFit
<1>1. CASE UNCHANGED researchVars
  BY <1>1 DEF researchVars, ResearchInv, PostsFit, FileFits, DialogFits, ResearchHolds,
             OnlyApprovedLeaves, AnswerFitsTheDialog, AnswerIsToTheApproved
<1>2. CASE \E r \in Callers, w \in Wishes : ApiCall(r, w)
  <2>1. PICK r \in Callers, w \in Wishes : ApiCall(r, w)
    BY <1>2
  <2> DEFINE q == Asked(w)
  <2>2. r \in DOMAIN post /\ r # Page
    BY <1>0, ResearchAssumption DEF Page
  <2>3. post' = [post EXCEPT ![r] = q] /\ UNCHANGED <<server, queue, researching>>
    BY <2>1 DEF ApiCall
  <2>4. RequestFits(q)
    BY DEF RequestFits, Asked, Steps
  <2> HIDE DEF q
  <2>5. /\ PostsFit' /\ DOMAIN post' = DOMAIN post
        /\ \A x \in DOMAIN post : x # r => post'[x] = post[x]
    BY <2>2, <2>3, <2>4, PostFits DEF ResearchInv
  <2>6. DialogFits' /\ AnswerFitsTheDialog' /\ AnswerIsToTheApproved'
    BY <2>2, <2>3, <2>5, DialogKeeps DEF ResearchInv, ResearchHolds
  <2> QED
    BY <2>3, <2>5, <2>6 DEF server, ResearchInv, ResearchHolds, FileFits, OnlyApprovedLeaves
<1>3. CASE \E p \in Persons, c \in Countries \cup {"none", "gone"} : Edit(p, c)
  BY <1>3 DEF Edit, page, ResearchInv, PostsFit, FileFits, DialogFits, ResearchHolds,
             OnlyApprovedLeaves, AnswerFitsTheDialog, AnswerIsToTheApproved
<1> QED
  BY <1>0, <1>1, <1>2, <1>3, PageKeeps, ServerKeeps DEF ResearchNext

\* research.ts, for any people, callers and edits: what leaves is what was
\* approved, an answer (of a provider or of the file) is to the fields that were
\* approved, and the dialog shows whom it asks for.
THEOREM OnlyTheApprovedLeaves == ResearchSpec => []ResearchHolds
<1>1. ResearchInv => ResearchHolds
  BY DEF ResearchInv
<1> QED
  BY ResearchBegins, ResearchStep, <1>1, PTL DEF ResearchSpec

-----------------------------------------------------------------------------
(* CSV import.  ImportInv: from the statement that reads them on, an import's *)
(* tombstones are persons erased, all of them who were when it began; what it *)
(* wrote goes only with its person; its counts are off only when disturbed.   *)

World == <<people, activity, erased, begun>>

LEMMA ImportInvInit == ASSUME ImportInit PROVE ImportInv
<1> USE DEF ImportInit
<1>1. \A q \in Imports : req[q] = NoImport
  OBVIOUS
<1>2. WellFormed(NoImport)
  BY DEF WellFormed, NoImport, RequestFields
<1>3. NoImport.pc = "idle"
  BY DEF NoImport
<1>4. \A q \in Imports : ImportFits(q, NoImport)
  BY <1>2, <1>3 DEF ImportFits, TombsFit, CountsFit, Tombstoned, StagesWritten
<1>5. people \in [Subjects -> {"none", "stub", "mail"}]
  OBVIOUS
<1> QED
  BY <1>1, <1>4, <1>5 DEF ImportInv, ErasedStayOut

\* What fits a request depends on the stored rows only.
LEMMA FitsInSameWorld ==
  ASSUME UNCHANGED World, NEW q \in Imports, NEW r, ImportFits(q, r)
  PROVE  ImportFits(q, r)'
BY DEF World, ImportFits, WellFormed, TombsFit, StoredInFull, CountsFit, Stored, Counted

\* A statement that changes its own request and no row.
LEMMA OwnStep ==
  ASSUME ImportInv, UNCHANGED World, NEW q \in Imports, NEW r,
         Proceeds(q, r), r.pc # "idle", ImportFits(q, r)
  PROVE  ImportInv'
<1>1. req' = [p \in Imports |-> IF p = q THEN r ELSE req[p]]
  BY DEF ImportInv, Proceeds
<1>2. ASSUME NEW p \in Imports, NEW s \in {req[p]'} PROVE ImportFits(p, s)'
  <2>1. CASE p = q
    BY <1>1, <2>1, <1>2, FitsInSameWorld
  <2>2. CASE p # q
    BY <1>1, <2>2, <1>2, FitsInSameWorld DEF ImportInv
  <2> QED
    BY <2>1, <2>2
<1>3. ErasedStayOut'
  BY <1>1 DEF ImportInv, ErasedStayOut, World, ImportAt
<1> QED
  BY <1>1, <1>2, <1>3 DEF ImportInv, World

-----------------------------------------------------------------------------
LEMMA FitOfRequest == ASSUME ImportInv, NEW q \in Imports PROVE ImportFits(q, req[q])
BY DEF ImportInv

LEMMA BeginFits ==
  ASSUME CsvAssumption, ImportInv, NEW q \in Imports, BeginImport(q) PROVE ImportInv'
<1>1. PICK a \in Uploads[q] :
        Proceeds(q, [NoImport EXCEPT !.pc = "load", !.file = a.file, !.kind = a.kind,
                       !.mapping = a.mapping, !.preview = a.preview])
  BY DEF BeginImport
<1> DEFINE r == [NoImport EXCEPT !.pc = "load", !.file = a.file, !.kind = a.kind,
                   !.mapping = a.mapping, !.preview = a.preview]
<1>2. r.pc = "load" /\ r.alone = TRUE /\ r.file = a.file /\ DOMAIN r = RequestFields
  BY DEF NoImport, RequestFields
<1>3. a.file \in DOMAIN Files
  BY DEF CsvAssumption
<1> HIDE DEF r
<1>4. req' = [p \in Imports |-> IF p = q THEN r ELSE req[p]]
  BY <1>1 DEF ImportInv, Proceeds, r
<1>5. /\ begun' = [p \in Imports |-> IF p = q THEN erased ELSE begun[p]]
      /\ UNCHANGED <<people, activity, erased>>
  BY DEF BeginImport, ImportInv
<1>6. ImportFits(q, r)'
  BY <1>2, <1>3 DEF ImportFits, WellFormed, TombsFit, CountsFit, Tombstoned, StagesWritten
<1>7. ASSUME NEW p \in Imports, p # q, NEW s, ImportFits(p, s) PROVE ImportFits(p, s)'
  BY <1>5, <1>7
     DEF ImportFits, WellFormed, TombsFit, StoredInFull, CountsFit, Stored, Counted
<1>8. \A p \in Imports : \A s \in {req[p]'} : ImportFits(p, s)'
  BY <1>4, <1>6, <1>7 DEF ImportInv
\* No witness is lost: q was idle.
<1>9. ErasedStayOut'
  <2> SUFFICES ASSUME NEW p \in Subjects, people[p] # "none", p \in erased
               PROVE  \E o \in Imports : p \in erased \ begun'[o] /\ req'[o].pc # "idle"
    BY <1>5 DEF ErasedStayOut, ImportAt
  <2>1. PICK o \in Imports : p \in erased \ begun[o] /\ req[o].pc # "idle"
    BY DEF ImportInv, ErasedStayOut, ImportAt
  <2>2. o # q
    BY <2>1 DEF BeginImport, ImportAt
  <2> QED
    BY <2>1, <2>2, <1>4, <1>5
<1> QED
  BY <1>4, <1>5, <1>8, <1>9 DEF ImportInv

LEMMA LoadFits == ASSUME ImportInv, NEW q \in Imports, Load(q) PROVE ImportInv'
<1> DEFINE kind == IF req[q].kind = NoKind THEN plan.kind ELSE req[q].kind
           m == IF req[q].mapping = {} THEN plan.mapping ELSE req[q].mapping
           u == resolveKindAndMapping(Cols_(q), kind, m)
           bad == u = NoPlan \/ (~req[q].preview /\ \E l \in Rows(q) : ~l.good)
           v == IF bad THEN "invalid" ELSE IF req[q].preview THEN "preview" ELSE "tombs"
<1>0. Proceeds(q, [req[q] EXCEPT !.pc = v, !.used = u, !.mapping = m])
  BY DEF Load
<1>1. v \in {"invalid", "preview", "tombs"}
  OBVIOUS
<1> HIDE DEF v, u, m
<1> DEFINE r == [req[q] EXCEPT !.pc = v, !.used = u, !.mapping = m]
<1>2. WellFormed(req[q]) /\ req[q].pc = "load"
  BY FitOfRequest DEF ImportFits, Load, ImportAt
<1>3. DOMAIN r = RequestFields /\ r.pc = v /\ r.alone = req[q].alone /\ r.file = req[q].file
  BY <1>2 DEF WellFormed, RequestFields, NoImport
<1> HIDE DEF r
<1>4. ImportFits(q, r)
  BY <1>1, <1>2, <1>3 DEF ImportFits, WellFormed, TombsFit, CountsFit, Tombstoned, StagesWritten
<1> QED
  BY <1>0, <1>1, <1>3, <1>4, OwnStep DEF r, Load, World

LEMMA TombstonesFit == ASSUME ImportInv, NEW q \in Imports, LoadTombstones(q) PROVE ImportInv'
<1> DEFINE r == [req[q] EXCEPT !.pc = "count", !.tombs = erased]
<1>2. WellFormed(req[q]) /\ req[q].pc = "tombs"
  BY FitOfRequest DEF ImportFits, LoadTombstones, ImportAt
<1>3. /\ DOMAIN r = RequestFields /\ r.pc = "count" /\ r.tombs = erased
      /\ r.alone = req[q].alone /\ r.file = req[q].file
  BY <1>2 DEF WellFormed, RequestFields, NoImport
<1>4. Proceeds(q, r)
  BY DEF LoadTombstones
<1> HIDE DEF r
<1>5. ImportFits(q, r)
  BY <1>2, <1>3 DEF ImportFits, WellFormed, TombsFit, CountsFit, StagesWritten, ImportInv
<1> QED
  BY <1>3, <1>4, <1>5, OwnStep DEF LoadTombstones, World

LEMMA CountBeforeFits == ASSUME ImportInv, NEW q \in Imports, CountBefore(q) PROVE ImportInv'
<1> DEFINE r == [req[q] EXCEPT !.pc = "write", !.before = Stored(req[q].used.kind), !.alone = TRUE]
<1>1. ImportFits(q, req[q]) /\ req[q].pc = "count"
  BY FitOfRequest DEF CountBefore, ImportAt
<1>2. DOMAIN req[q] = RequestFields
  BY <1>1 DEF ImportFits, WellFormed
<1>3. /\ DOMAIN r = RequestFields /\ r.pc = "write" /\ r.alone = TRUE
      /\ r.tombs = req[q].tombs /\ r.file = req[q].file /\ r.used = req[q].used
      /\ r.before = Stored(req[q].used.kind)
  BY <1>2 DEF RequestFields, NoImport
<1>4. Proceeds(q, r)
  BY DEF CountBefore
<1> HIDE DEF r
<1>5. ImportFits(q, r)
  BY <1>1, <1>3 DEF ImportFits, WellFormed, TombsFit, CountsFit, Tombstoned, StagesWritten
<1> QED
  BY <1>3, <1>4, <1>5, OwnStep DEF CountBefore, World

LEMMA CountAfterFits == ASSUME ImportInv, NEW q \in Imports, CountAfter(q) PROVE ImportInv'
<1> DEFINE n == Stored(req[q].used.kind) - req[q].before
           r == [req[q] EXCEPT !.pc = "save", !.result = n]
<1>1. ImportFits(q, req[q]) /\ req[q].pc = "recount"
  BY FitOfRequest DEF CountAfter, ImportAt
<1>2. DOMAIN req[q] = RequestFields
  BY <1>1 DEF ImportFits, WellFormed
<1>3. req[q].alone => req[q].added = n
  BY <1>1 DEF ImportFits, CountsFit
<1>4. Proceeds(q, r)
  BY DEF CountAfter
<1> HIDE DEF n
<1>5. /\ DOMAIN r = RequestFields /\ r.pc = "save" /\ r.alone = req[q].alone
      /\ r.tombs = req[q].tombs /\ r.file = req[q].file /\ r.used = req[q].used
      /\ r.result = n /\ r.added = req[q].added
  BY <1>2 DEF RequestFields, NoImport
<1> HIDE DEF r
<1>6. WellFormed(r) /\ TombsFit(q, r)
  BY <1>1, <1>5 DEF ImportFits, WellFormed, TombsFit, Tombstoned
<1>7. StoredInFull(r)
  BY <1>1, <1>5 DEF ImportFits, StoredInFull, StagesWritten
<1>8. CountsFit(r)
  BY <1>3, <1>5 DEF CountsFit
<1> QED
  BY <1>4, <1>5, <1>6, <1>7, <1>8, OwnStep DEF CountAfter, World, ImportFits

LEMMA SaveFits == ASSUME ImportInv, NEW q \in Imports, SavePlan(q) PROVE ImportInv'
<1> DEFINE r == [req[q] EXCEPT !.pc = "done"]
<1>1. ImportFits(q, req[q]) /\ req[q].pc = "save"
  BY FitOfRequest DEF SavePlan, ImportAt
<1>2. DOMAIN req[q] = RequestFields
  BY <1>1 DEF ImportFits, WellFormed
<1>4. Proceeds(q, r)
  BY DEF SavePlan
<1>5. /\ DOMAIN r = RequestFields /\ r.pc = "done" /\ r.alone = req[q].alone
      /\ r.tombs = req[q].tombs /\ r.file = req[q].file /\ r.used = req[q].used
      /\ r.result = req[q].result /\ r.added = req[q].added
  BY <1>2 DEF RequestFields, NoImport
<1> HIDE DEF r
<1>6. WellFormed(r) /\ TombsFit(q, r) /\ CountsFit(r)
  BY <1>1, <1>5 DEF ImportFits, WellFormed, TombsFit, CountsFit, Tombstoned
<1>7. StoredInFull(r)
  BY <1>1, <1>5 DEF ImportFits, StoredInFull, StagesWritten
<1> QED
  BY <1>4, <1>5, <1>6, <1>7, OwnStep DEF SavePlan, World, ImportFits

LEMMA FailFits == ASSUME ImportInv, NEW q \in Imports, FailImport(q) PROVE ImportInv'
<1> DEFINE r == [req[q] EXCEPT !.pc = "failed"]
<1>1. ImportFits(q, req[q]) /\ req[q].pc # "idle"
  BY FitOfRequest DEF FailImport, Running
<1>2. DOMAIN req[q] = RequestFields
  BY <1>1 DEF ImportFits, WellFormed
<1>4. Proceeds(q, r)
  BY DEF FailImport
<1>5. /\ DOMAIN r = RequestFields /\ r.pc = "failed" /\ r.alone = req[q].alone
      /\ r.file = req[q].file
  BY <1>2 DEF RequestFields, NoImport
<1> HIDE DEF r
<1>6. ImportFits(q, r)
  BY <1>1, <1>5 DEF ImportFits, WellFormed, TombsFit, CountsFit, Tombstoned, StagesWritten
<1> QED
  BY <1>4, <1>5, <1>6, OwnStep DEF FailImport, World
-----------------------------------------------------------------------------
\* A write by others, or a deletion: rows go only with their person.
Grows ==
  /\ erased \subseteq erased' /\ begun' = begun
  /\ \A p \in Subjects : people[p] # "none" /\ p \notin erased' => people'[p] # "none"
  /\ \A a \in activity : a.person \in Subjects /\ a.person \notin erased' => a \in activity'

LEMMA OthersFit ==
  ASSUME CsvAssumption, Grows, NEW q \in Imports, NEW r, ImportFits(q, r), NEW s,
         \/ s = r /\ r.pc \notin {"write", "recount"}
         \/ s = [r EXCEPT !.alone = FALSE]
  PROVE  ImportFits(q, s)'
<1>1. /\ DOMAIN s = RequestFields /\ s.pc = r.pc /\ s.file = r.file /\ s.tombs = r.tombs
      /\ s.used = r.used /\ s.result = r.result /\ s.added = r.added
      /\ s.alone \in BOOLEAN /\ (s.alone => s = r /\ r.pc \notin {"write", "recount"})
  BY DEF ImportFits, WellFormed, RequestFields, NoImport
<1>2. WellFormed(s)' /\ TombsFit(q, s)'
  BY <1>1 DEF ImportFits, WellFormed, TombsFit, Grows
<1>3. CountsFit(s)'
  BY <1>1 DEF ImportFits, CountsFit
<1>4. ASSUME s.pc \in StagesWritten PROVE StoredInFull(s)'
  <2> SUFFICES ASSUME NEW l \in Files[r.file].rows, l.person \notin erased'
               PROVE  /\ people'[l.person] # "none"
                      /\ r.used.kind = "events" =>
                           [person |-> l.person, event |-> l.event] \in activity'
    BY <1>1 DEF StoredInFull
  <2>1. l.person \in Subjects
    BY <1>1, <1>4 DEF CsvAssumption, ImportFits, WellFormed, StagesWritten
  <2>2. /\ people[l.person] # "none"
        /\ r.used.kind = "events" => [person |-> l.person, event |-> l.event] \in activity
    BY <1>1, <1>4 DEF ImportFits, StoredInFull, Grows
  <2> QED
    BY <2>1, <2>2 DEF Grows
<1> QED
  BY <1>2, <1>3, <1>4 DEF ImportFits

LEMMA WriteGrows == ASSUME ImportInv, NEW q \in Imports, Write(q) PROVE Grows
<1>1. CASE req[q].used.kind = "users"
  BY <1>1 DEF Write, WriteUsers, Grows, ImportInv
<1>2. CASE req[q].used.kind # "users"
  BY <1>2 DEF Write, WriteEvents, Grows, ImportInv
<1> QED
  BY <1>1, <1>2

\* The transaction leaves out those erased, and no others of the file.
LEMMA WriteStores ==
  ASSUME CsvAssumption, ImportInv, NEW q \in Imports, Write(q), NEW r, r = req[q]
  PROVE  StoredInFull(r)'
<1>1. ImportFits(q, req[q]) /\ req[q].pc = "write"
  BY FitOfRequest DEF Write, ImportAt
<1>3. r.tombs \subseteq erased /\ erased' = erased
  BY <1>1 DEF ImportFits, TombsFit, Tombstoned, Write
<1>4. StoredInFull(r)'
  <2> SUFFICES ASSUME NEW l \in Files[r.file].rows, l.person \notin erased
               PROVE  /\ people'[l.person] # "none"
                      /\ r.used.kind = "events" =>
                           [person |-> l.person, event |-> l.event] \in activity'
    BY <1>3 DEF StoredInFull
  <2>1. l.person \in Subjects /\ l \in LiveRows(q)
    BY <1>1, <1>3 DEF CsvAssumption, ImportFits, WellFormed, LiveRows, Rows
  <2>2. CASE r.used.kind = "users"
    BY <2>1, <2>2 DEF Write, WriteUsers
  <2>3. CASE r.used.kind # "users"
    BY <2>1, <2>3 DEF Write, WriteEvents
  <2> QED
    BY <2>2, <2>3
<1> QED
  BY <1>4

LEMMA WriteFits ==
  ASSUME CsvAssumption, ImportInv, NEW q \in Imports, Write(q) PROVE ImportInv'
<1>0. PICK old : old = req[q]
  OBVIOUS
<1> DEFINE kind == old.used.kind
<1>1. ImportFits(q, old) /\ old.pc = "write"
  BY <1>0, FitOfRequest DEF Write, ImportAt
<1>2. DOMAIN old = RequestFields
  BY <1>1 DEF ImportFits, WellFormed
<1>4. PICK n : n = Counted(kind, people', activity') - Stored(kind)
  OBVIOUS
<1> DEFINE r == [old EXCEPT !.pc = "recount", !.added = n]
           rs == [req EXCEPT ![q].pc = "recount", ![q].added = n]
<1>3. req' = Disturb(rs, {q})
  BY <1>0, <1>4 DEF Write
<1>5. old.alone => Stored(kind) = old.before
  BY <1>1 DEF ImportFits, CountsFit
<1>6. rs = [p \in Imports |-> IF p = q THEN r ELSE req[p]]
  <2>1. PICK f : f = req
    OBVIOUS
  <2>2. f = [p \in Imports |-> f[p]] /\ DOMAIN f = Imports
    BY <2>1 DEF ImportInv
  <2> QED
    BY <1>0, <2>1, <2>2
<1>7. /\ DOMAIN r = RequestFields /\ r.pc = "recount" /\ r.alone = old.alone
      /\ r.tombs = old.tombs /\ r.file = old.file /\ r.used = old.used
      /\ r.before = old.before /\ r.added = n
  BY <1>2 DEF RequestFields, NoImport
<1> HIDE DEF r, rs
<1>8. WellFormed(r)
  BY <1>1, <1>7 DEF ImportFits, WellFormed
<1>9. Grows
  BY WriteGrows
<1>10. /\ req' = [p \in Imports |-> req'[p]] /\ req'[q] = r
       /\ \A p \in Imports \ {q} :
            \/ req'[p] = req[p] /\ req[p].pc \notin {"write", "recount"}
            \/ req'[p] = [req[p] EXCEPT !.alone = FALSE]
  BY <1>3, <1>6 DEF Disturb
<1>11. ImportFits(q, r)'
  <2>1. WellFormed(r)' /\ TombsFit(q, r)'
    BY <1>1, <1>7, <1>8, <1>9 DEF ImportFits, WellFormed, TombsFit, Tombstoned, Grows
  <2>2. StoredInFull(r)'
    <3>1. StoredInFull(old)'
      BY <1>0, WriteStores
    <3> QED
      BY <1>7, <3>1 DEF StoredInFull
  <2>3. CountsFit(r)'
    <3> SUFFICES ASSUME r.alone PROVE r.added = Counted(kind, people', activity') - r.before
      BY <1>7 DEF CountsFit, Stored
    <3> QED
      BY <1>4, <1>5, <1>7
  <2> QED
    BY <2>1, <2>2, <2>3 DEF ImportFits
<1>12. ASSUME NEW p \in Imports, NEW s \in {req[p]'} PROVE ImportFits(p, s)'
  <2>1. CASE p = q
    BY <1>10, <1>11, <2>1, <1>12 DEF ImportFits
  <2>2. CASE p # q
    BY <1>9, <1>10, <2>2, <1>12, FitOfRequest, OthersFit
  <2> QED
    BY <2>1, <2>2
<1>13. people' \in [Subjects -> {"none", "stub", "mail"}] /\ erased' = erased /\ begun' = begun
  BY DEF Write, WriteUsers, WriteEvents, ImportInv
\* Who is written here was not erased when the import began.
<1>14. ErasedStayOut'
  <2> SUFFICES ASSUME NEW p \in Subjects, people'[p] # "none", p \in erased
               PROVE  \E o \in Imports : p \in erased \ begun[o] /\ req'[o].pc # "idle"
    BY <1>13 DEF ErasedStayOut, ImportAt
  <2>1. \A o \in Imports : req[o].pc # "idle" => req'[o].pc # "idle"
    <3> SUFFICES ASSUME NEW o \in Imports, req[o].pc # "idle" PROVE req'[o].pc # "idle"
      OBVIOUS
    <3>1. DOMAIN req[o] = RequestFields
      BY FitOfRequest DEF ImportFits, WellFormed
    <3> QED
      BY <1>7, <1>10, <3>1 DEF RequestFields, NoImport
  <2>2. CASE people[p] # "none"
    BY <2>1, <2>2 DEF ImportInv, ErasedStayOut, ImportAt
  <2>3. CASE people[p] = "none"
    <3>1. \E l \in LiveRows(q) : l.person = p
      BY <2>3 DEF Write, WriteUsers, WriteEvents
    <3>2. p \notin begun[q]
      BY <1>0, <1>1, <3>1 DEF LiveRows, ImportFits, TombsFit, Tombstoned
    <3> QED
      BY <1>0, <1>1, <2>1, <3>2
  <2> QED
    BY <2>2, <2>3
<1> QED
  BY <1>10, <1>12, <1>13, <1>14 DEF ImportInv

LEMMA EraseFits ==
  ASSUME CsvAssumption, ImportInv, NEW x \in Subjects, Erase(x) PROVE ImportInv'
<1>1. Grows
  BY DEF Erase, Grows, ImportInv
<1>2. /\ req' = [p \in Imports |-> req'[p]]
      /\ \A p \in Imports :
           \/ req'[p] = req[p] /\ req[p].pc \notin {"write", "recount"}
           \/ req'[p] = [req[p] EXCEPT !.alone = FALSE]
  BY DEF Erase, Disturb
<1>3. ASSUME NEW p \in Imports, NEW s \in {req[p]'} PROVE ImportFits(p, s)'
  BY <1>1, <1>2, <1>3, FitOfRequest, OthersFit
<1>4. /\ people' \in [Subjects -> {"none", "stub", "mail"}] /\ erased' = erased \cup {x}
      /\ begun' = begun /\ people' = [people EXCEPT ![x] = "none"]
  BY DEF Erase, ImportInv
<1>5. ErasedStayOut'
  <2> SUFFICES ASSUME NEW p \in Subjects, people'[p] # "none", p \in erased'
               PROVE  \E o \in Imports : p \in erased' \ begun[o] /\ req'[o].pc # "idle"
    BY <1>4 DEF ErasedStayOut, ImportAt
  <2>1. people[p] # "none" /\ p \in erased
    BY <1>4 DEF ImportInv
  <2>2. PICK o \in Imports : p \in erased \ begun[o] /\ req[o].pc # "idle"
    BY <2>1 DEF ImportInv, ErasedStayOut, ImportAt
  <2>3. DOMAIN req[o] = RequestFields
    BY FitOfRequest DEF ImportFits, WellFormed
  <2>4. req'[o].pc # "idle"
    BY <1>2, <2>2, <2>3 DEF RequestFields, NoImport
  <2> QED
    BY <1>4, <2>2, <2>4
<1> QED
  BY <1>2, <1>3, <1>4, <1>5 DEF ImportInv

LEMMA ImportStepFits ==
  ASSUME CsvAssumption, ImportInv, [ImportNext]_importVars PROVE ImportInv'
<1>1. ASSUME NEW q \in Imports,
             \/ BeginImport(q) \/ Load(q) \/ LoadTombstones(q) \/ CountBefore(q) \/ Write(q)
             \/ CountAfter(q) \/ SavePlan(q) \/ FailImport(q)
      PROVE  ImportInv'
  BY <1>1, BeginFits, LoadFits, TombstonesFit, CountBeforeFits, WriteFits, CountAfterFits,
     SaveFits, FailFits
<1>2. ASSUME NEW x \in Subjects, Erase(x) PROVE ImportInv'
  BY <1>2, EraseFits
<1>3. CASE UNCHANGED importVars
  <2>1. ASSUME NEW q \in Imports, NEW s \in {req[q]'} PROVE ImportFits(q, s)'
    BY <1>3, <2>1, FitOfRequest, FitsInSameWorld DEF importVars, World
  <2> QED
    BY <1>3, <2>1 DEF ImportInv, importVars, ErasedStayOut, ImportAt
<1> QED
  BY <1>1, <1>2, <1>3 DEF ImportNext

(* ImportIsTrue for any files, imports and persons: of an import answered ok   *)
(* every row of a person not erased is stored, nobody erased before it began   *)
(* is put back, and alone it answers what it added (runCsvImport).             *)
THEOREM ImportsStayTrue == ASSUME CsvAssumption PROVE ImportSpec => []ImportIsTrue
<1>1. ImportInit => ImportInv
  BY ImportInvInit
<1>2. ImportInv /\ [ImportNext]_importVars => ImportInv'
  BY ImportStepFits
<1>3. ImportInv => ImportIsTrue
  <2> SUFFICES ASSUME ImportInv PROVE ImportIsTrue
    OBVIOUS
  <2>1. AnsweredIsStored
    BY FitOfRequest DEF AnsweredIsStored, ImportFits, StagesWritten, ImportAt
  <2>2. CountIsOurs
    BY FitOfRequest DEF CountIsOurs, ImportFits, CountsFit, ImportAt
  <2> QED
    BY <2>1, <2>2 DEF ImportIsTrue, ImportInv
<1> QED
  BY <1>1, <1>2, <1>3, PTL DEF ImportSpec

-----------------------------------------------------------------------------
(* Reading a CSV text.                                                        *)

LEMMA TextsAreSequences == ASSUME LengthAssumption, text \in Texts PROVE text \in Seq(Chars)
<1>1. PICK n \in 0..MaxLength : text \in [1..n -> Chars]
  BY DEF Texts
<1>2. n \in Nat
  BY DEF LengthAssumption
<1> QED
  BY <1>1, <1>2, SeqDef

\* A count over the positions of a stretch, one position further.
LEMMA CountNext ==
  ASSUME NEW s \in Nat, NEW k \in Nat, NEW T \in SUBSET (s..(k - 1)),
         NEW U, NEW more \in BOOLEAN, U = IF more THEN T \cup {k} ELSE T
  PROVE  /\ Cardinality(T) \in Nat
         /\ Cardinality(U) = Cardinality(T) + (IF more THEN 1 ELSE 0)
<1>1. IsFiniteSet(s..(k - 1))
  BY FS_Interval
<1>6. k \notin T
  OBVIOUS
<1>2. IsFiniteSet(T)
  BY <1>1, FS_Subset
<1>3. PICK n \in Nat : n = Cardinality(T)
  BY <1>2, FS_CardinalityType
<1>4. CASE more
  BY <1>2, <1>3, <1>4, <1>6, FS_AddElement
<1>5. CASE ~more
  BY <1>3, <1>5
<1> QED
  BY <1>3, <1>4, <1>5

LEMMA BeforeNext ==
  ASSUME NEW k \in Nat \ {0}, NEW c
  PROVE  /\ Before(c, k) \in Nat
         /\ Before(c, k + 1) = Before(c, k) + (IF text[k] = c THEN 1 ELSE 0)
<1>1. PICK T : T = {j \in 1..(k - 1) : text[j] = c}
  OBVIOUS
<1>2. PICK U : U = {j \in 1..((k + 1) - 1) : text[j] = c}
  OBVIOUS
<1>3. PICK more \in BOOLEAN : more <=> text[k] = c
  OBVIOUS
<1>4. U = IF more THEN T \cup {k} ELSE T
  BY <1>1, <1>2, <1>3
<1>5. T \in SUBSET (1..(k - 1))
  BY <1>1
<1>6. Cardinality(T) \in Nat /\ Cardinality(U) = Cardinality(T) + (IF more THEN 1 ELSE 0)
  BY <1>3, <1>4, <1>5, CountNext
<1> QED
  BY <1>1, <1>2, <1>3, <1>6 DEF Before

LEMMA SameCount ==
  ASSUME NEW k \in Nat \ {0}, NEW c, text[k] # c
  PROVE  Before(c, k) \in Nat /\ Before(c, k + 1) = Before(c, k)
<1>1. PICK n \in Nat : n = Before(c, k)
  BY BeforeNext
<1>2. Before(c, k + 1) = n + 0
  BY <1>1, BeforeNext
<1> QED
  BY <1>1, <1>2

LEMMA Parity ==
  ASSUME NEW n \in Nat PROVE (n + 1) % 2 = 1 <=> n % 2 # 1
OBVIOUS

LEMMA QuotedNext ==
  ASSUME NEW k \in Nat \ {0}
  PROVE  /\ text[k] = "quote" => (IsQuoted(k + 1) <=> ~IsQuoted(k))
         /\ text[k] # "quote" => (IsQuoted(k + 1) <=> IsQuoted(k))
<1>1. PICK n \in Nat : n = Before("quote", k)
  BY BeforeNext
<1>2. Before("quote", k + 1) = n + (IF text[k] = "quote" THEN 1 ELSE 0)
  BY <1>1, BeforeNext
<1>3. CASE text[k] = "quote"
  BY <1>1, <1>2, <1>3, Parity DEF IsQuoted
<1>4. CASE text[k] # "quote"
  BY <1>1, <1>2, <1>4 DEF IsQuoted
<1> QED
  BY <1>3, <1>4

LEMMA FirstIsUnquoted == Before("newline", 1) = 0 /\ ~IsQuoted(1)
<1>1. \A c : {j \in 1..(1 - 1) : text[j] = c} = {}
  OBVIOUS
<1>2. \A c : Before(c, 1) = 0
  BY <1>1, FS_EmptySet DEF Before
<1> QED
  BY <1>2 DEF IsQuoted

\* One more character of the row that is being read.
LEMMA RowNext ==
  ASSUME NEW k \in Nat \ {0}, NEW s \in 1..k, NEW n, NEW saw \in BOOLEAN,
         k \notin Ends, RowFrom(s, k, n, saw)
  PROVE  /\ n \in Nat
         /\ RowFrom(s, k + 1, n + (IF IsSeparator(k) THEN 1 ELSE 0), saw \/ IsContent(k))
<1> DEFINE m == n + (IF IsSeparator(k) THEN 1 ELSE 0)
<1>1. PICK T : T = {j \in s..(k - 1) : IsSeparator(j)}
  OBVIOUS
<1>2. PICK U : U = {j \in s..((k + 1) - 1) : IsSeparator(j)}
  OBVIOUS
<1>3. PICK more \in BOOLEAN : more <=> IsSeparator(k)
  OBVIOUS
<1>7. U = IF more THEN T \cup {k} ELSE T
  BY <1>1, <1>2, <1>3
<1>8. T \in SUBSET (s..(k - 1))
  BY <1>1
<1>9. Cardinality(T) \in Nat /\ Cardinality(U) = Cardinality(T) + (IF more THEN 1 ELSE 0)
  BY SMTT(40), <1>3, <1>7, <1>8, CountNext
<1>4. n \in Nat /\ m = Cardinality({j \in s..((k + 1) - 1) : IsSeparator(j)})
  BY <1>1, <1>2, <1>3, <1>9 DEF RowFrom
<1>5. \A e \in Ends : e < k + 1 => e < s
  BY DEF RowFrom, Ends
<1>6. (saw \/ IsContent(k)) <=> \E j \in s..((k + 1) - 1) : IsContent(j)
  <2>1. (\E j \in s..((k + 1) - 1) : IsContent(j)) <=> (\E j \in s..(k - 1) : IsContent(j)) \/ IsContent(k)
    OBVIOUS
  <2> QED
    BY <2>1 DEF RowFrom
<1> QED
  BY <1>4, <1>5, <1>6 DEF RowFrom

LEMMA RowStays ==
  ASSUME NEW k \in Nat \ {0}, NEW s \in 1..k, NEW n, NEW saw \in BOOLEAN,
         k \notin Ends, ~IsSeparator(k), ~IsContent(k), RowFrom(s, k, n, saw)
  PROVE  RowFrom(s, k + 1, n, saw)
<1>1. n \in Nat /\ RowFrom(s, k + 1, n + 0, saw \/ FALSE)
  BY RowNext
<1>2. n + 0 = n
  BY <1>1
<1> QED
  BY <1>1, <1>2 DEF RowFrom

\* A row that ends at k, which is a newline or the end of the text.
LEMMA RowEnds ==
  ASSUME text \in Seq(Chars), NEW k \in 1..(Len(text) + 1), NEW s \in 1..k, NEW n, NEW saw \in BOOLEAN,
         RowFrom(s, k, n, saw), k \in Ends \/ k = Len(text) + 1, s <= Len(text)
  PROVE  /\ s \in Starts /\ (HasContent(s) <=> saw) /\ Fields(s) = n + 1
         /\ RowsUpTo(k + 1)
              = RowsUpTo(s) \cup (IF saw THEN {<<1 + Before("newline", s), n + 1>>} ELSE {})
<1>1. s \in Starts
  BY DEF RowFrom, Starts
<1>2. \A j \in Extent(s) : j <= k
  BY DEF RowFrom, Extent, Ends
<1>3. s..(k - 1) \subseteq Extent(s)
  <2> SUFFICES ASSUME NEW j \in s..(k - 1) PROVE j \in Extent(s)
    OBVIOUS
  <2>1. j \in s..Len(text) /\ j < k
    OBVIOUS
  <2>2. \A e \in Ends : e < j => e < k
    BY <2>1 DEF Ends
  <2> QED
    BY <2>1, <2>2 DEF RowFrom, Extent
<1>4. k \in Ends => ~IsSeparator(k) /\ ~IsContent(k)
  BY DEF Ends, IsSeparator, IsContent
<1>5. \A j \in Extent(s) : j \in s..(k - 1) \/ (k \in Ends /\ j = k)
  BY <1>2 DEF Extent
<1>6. HasContent(s) <=> saw
  BY <1>3, <1>4, <1>5 DEF HasContent, RowFrom
<1>7. {j \in Extent(s) : IsSeparator(j)} = {j \in s..(k - 1) : IsSeparator(j)}
  BY <1>3, <1>4, <1>5
<1>8. n \in Nat
  <2>0. IsFiniteSet(s..(k - 1))
    BY FS_Interval
  <2>1. IsFiniteSet({j \in s..(k - 1) : IsSeparator(j)})
    BY <2>0, FS_Subset
  <2> QED
    BY <2>1, FS_CardinalityType DEF RowFrom
<1>9. Fields(s) = n + 1
  <2>1. Fields(s) = 1 + n
    BY <1>7 DEF Fields, RowFrom
  <2> QED
    BY <1>8, <2>1
<1>10. \A z \in Starts : z < k + 1 <=> z < s \/ z = s
  BY DEF Starts, RowFrom, Ends
<1>11. RowsUpTo(k + 1) = RowsUpTo(s) \cup
          (IF HasContent(s) THEN {<<1 + Before("newline", s), Fields(s)>>} ELSE {})
  BY <1>1, <1>10 DEF RowsUpTo
<1> QED
  BY <1>1, <1>6, <1>9, <1>11
-----------------------------------------------------------------------------
\* What the text says does not change while it is read.
LEMMA SameText ==
  ASSUME text' = text
  PROVE  /\ \A c, k : Before(c, k)' = Before(c, k)
         /\ \A k : IsQuoted(k)' = IsQuoted(k)
         /\ Ends' = Ends
         /\ \A s, k, n, saw : RowFrom(s, k, n, saw)' = RowFrom(s, k, n, saw)
         /\ \A n : RowsUpTo(n)' = RowsUpTo(n)
<1>1. \A c, k : Before(c, k)' = Before(c, k)
  BY DEF Before
<1>2. \A k : IsQuoted(k)' = IsQuoted(k)
  BY <1>1 DEF IsQuoted
<1>3. Ends' = Ends
  BY <1>2 DEF Ends
<1>4. \A k : IsSeparator(k)' = IsSeparator(k) /\ IsContent(k)' = IsContent(k)
  BY <1>2 DEF IsSeparator, IsContent
<1>5. \A s, k, n, saw : RowFrom(s, k, n, saw)' = RowFrom(s, k, n, saw)
  BY <1>3, <1>4 DEF RowFrom
<1>6. \A s : Extent(s)' = Extent(s)
  BY <1>3 DEF Extent
<1>7. \A s : HasContent(s)' = HasContent(s) /\ Fields(s)' = Fields(s)
  BY <1>4, <1>6 DEF HasContent, Fields
<1>8. Starts' = Starts
  BY <1>3 DEF Starts
<1>9. \A n : RowsUpTo(n)' = RowsUpTo(n)
  BY <1>1, <1>7, <1>8 DEF RowsUpTo
<1> QED
  BY <1>1, <1>2, <1>3, <1>5, <1>9

LEMMA ParseInvInit == ASSUME LengthAssumption, ParseInit PROVE ParseInv
<1> USE DEF ParseInit
<1>1. text \in Seq(Chars)
  BY TextsAreSequences
<1>2. Len(text) \in Nat
  BY <1>1
<1>3. Reported = {} /\ RowsUpTo(1) = {}
  BY DEF Reported, RowsUpTo, Starts
<1>4. RowFrom(1, i, Len(row), sawContent)
  <2>1. {j \in 1..(i - 1) : IsSeparator(j)} = {} /\ Len(row) = 0
    OBVIOUS
  <2>2. \A e \in Ends : ~(e < i)
    BY <1>2 DEF Ends
  <2>3. Len(row) = Cardinality({j \in 1..(i - 1) : IsSeparator(j)})
    BY <2>1, FS_EmptySet
  <2>4. sawContent <=> \E j \in 1..(i - 1) : IsContent(j)
    OBVIOUS
  <2> QED
    BY <2>2, <2>3, <2>4 DEF RowFrom
<1>5. Len(row) = 0 /\ rowStart = 1 + Before("newline", 1) /\ line = 1 + Before("newline", 1)
  BY FirstIsUnquoted
<1>6. verdict = "reading" =>
        \E s \in 1..i : RowInHand(s)
  <2>1. 1 \in 1..i /\ field = <<>>
    OBVIOUS
  <2>2. rowStart = 1 + Before("newline", 1) /\ Reported = RowsUpTo(1)
    BY <1>3, <1>5
  <2> QED
    BY <1>4, <2>1, <2>2 DEF RowInHand
<1>7. verdict # "reading" => RowsAreReported
  BY FirstIsUnquoted DEF RowsAreReported
<1>8. field \in Seq(Chars) /\ row \in Seq(Seq(Chars))
      /\ records \in Seq([line : Nat, values : Seq(Seq(Chars))])
  OBVIOUS
<1>9. inQuotes <=> IsQuoted(i)
  BY FirstIsUnquoted
<1>10. i \in 1..(Len(text) + 1) /\ text \in Texts
  BY <1>2
<1>11. sawContent = FALSE /\ inQuotes = FALSE /\ line = 1 /\ rowStart = 1
  OBVIOUS
<1>12. line = 1 + Before("newline", i)
  BY <1>5
<1>13. /\ sawContent \in BOOLEAN /\ inQuotes \in BOOLEAN /\ line \in Nat /\ rowStart \in Nat
       /\ sawContent => field # <<>> \/ ~rowIsEmpty(row)
  OBVIOUS
<1> HIDE DEF ParseInit
<1> QED
  BY <1>10, <1>11, <1>12, <1>13, <1>6, <1>7, <1>8, <1>9, Zenon DEF ParseInv

\* A character, or a doubled quote, that leaves the row going on.
LEMMA ReadsOn ==
  ASSUME ParseInv, verdict = "reading", i <= Len(text), i' \in 1..(Len(text) + 1),
         UNCHANGED <<text, rowStart, records, verdict>>,
         field' \in Seq(Chars), row' \in Seq(Seq(Chars)), sawContent' \in BOOLEAN,
         inQuotes' \in BOOLEAN, line' \in Nat,
         inQuotes' <=> IsQuoted(i'), line' = 1 + Before("newline", i'),
         sawContent' => field' # <<>> \/ ~rowIsEmpty(row'),
         i < i',
         \A s \in 1..i : RowFrom(s, i, Len(row), sawContent) => RowFrom(s, i', Len(row'), sawContent')
  PROVE  ParseInv'
<1>1. verdict' = "reading"
  OBVIOUS
<1>2. PICK s \in 1..i : RowInHand(s)
  BY DEF ParseInv
<1>3. s \in 1..i' /\ s # i' /\ RowFrom(s, i', Len(row'), sawContent')
  <2>1. RowFrom(s, i, Len(row), sawContent)
    BY <1>2 DEF RowInHand
  <2>2. i \in Nat /\ i' \in Nat
    BY DEF ParseInv
  <2> QED
    BY <1>2, <2>1, <2>2
<1>4. Reported' = Reported
  BY DEF Reported
<1>5. \E z \in 1..i' : RowInHand(z)'
  <2>1. RowFrom(s, i, Len(row), sawContent)'
    BY <1>3, SameText
  <2>2. rowStart' = 1 + Before("newline", s)' /\ Reported' = RowsUpTo(s)'
    BY <1>2, <1>4, SameText DEF RowInHand
  <2> QED
    BY <1>3, <2>1, <2>2 DEF RowInHand
<1>6. (inQuotes <=> IsQuoted(i))' /\ (line = 1 + Before("newline", i))'
  BY SameText
<1>7. /\ text' \in Texts /\ i' \in 1..(Len(text') + 1)
      /\ records' \in Seq([line : Nat, values : Seq(Seq(Chars))]) /\ rowStart' \in Nat
  BY DEF ParseInv
<1>8. (sawContent => field # <<>> \/ ~rowIsEmpty(row))'
  BY DEF rowIsEmpty
<1> QED
  BY <1>1, <1>5, <1>6, <1>7, <1>8 DEF ParseInv

\* Where something was seen, some value is not empty.
LEMMA ContentShows ==
  ASSUME ParseInv, verdict = "reading", sawContent PROVE ~rowIsEmpty(Append(row, field))
<1> DEFINE values == Append(row, field)
<1>1. row \in Seq(Seq(Chars)) /\ field \in Seq(Chars)
  BY DEF ParseInv
<1>2. CASE field # <<>>
  <2>1. Len(row) + 1 \in DOMAIN values /\ values[Len(row) + 1] = field
    BY <1>1
  <2> QED
    BY <1>2, <2>1 DEF rowIsEmpty
<1>3. CASE ~rowIsEmpty(row)
  <2>1. PICK k \in DOMAIN row : row[k] # <<>>
    BY <1>3 DEF rowIsEmpty
  <2>2. k \in DOMAIN values /\ values[k] = row[k]
    BY <1>1, <2>1
  <2> QED
    BY <2>1, <2>2 DEF rowIsEmpty
<1> QED
  BY <1>2, <1>3 DEF ParseInv

\* A row that is over: it is recorded when something was seen in it.
LEMMA Pushed ==
  ASSUME ParseInv, verdict = "reading", text \in Seq(Chars), i \in Ends \/ i = Len(text) + 1,
         NEW next \in Nat, pushRow(Append(row, field), next), text' = text,
         NEW s \in 1..i, s <= Len(text), RowInHand(s)
  PROVE  /\ Reported' = RowsUpTo(i + 1)
         /\ records' \in Seq([line : Nat, values : Seq(Seq(Chars))])
         /\ row' = <<>> /\ field' = <<>> /\ sawContent' = FALSE /\ rowStart' = next
<1> DEFINE values == Append(row, field)
           record == [line |-> rowStart, values |-> values]
<1>1. values \in Seq(Seq(Chars)) /\ Len(values) = Len(row) + 1
  BY DEF ParseInv
<1>2. sawContent => ~rowIsEmpty(values)
  BY ContentShows
<1>3. records' = IF sawContent THEN Append(records, record) ELSE records
  BY <1>2 DEF pushRow
<1>4. record \in [line : Nat, values : Seq(Seq(Chars))]
  BY <1>1 DEF ParseInv
<1>0. RowFrom(s, i, Len(row), sawContent) /\ rowStart = 1 + Before("newline", s) /\ Reported = RowsUpTo(s)
  BY DEF RowInHand
<1>5. RowsUpTo(i + 1)
        = RowsUpTo(s) \cup (IF sawContent THEN {<<1 + Before("newline", s), Len(row) + 1>>} ELSE {})
  BY SMTT(40), <1>0, RowEnds DEF ParseInv
<1>6. record.line = rowStart /\ Len(record.values) = Len(row) + 1
  BY <1>1
<1> HIDE DEF record, values
<1>7. records \in Seq([line : Nat, values : Seq(Seq(Chars))])
  BY DEF ParseInv
<1>8. CASE sawContent
  <2>1. records' = Append(records, record)
    BY <1>3, <1>8
  <2>2. DOMAIN records' = DOMAIN records \cup {Len(records) + 1}
    BY SMTT(60), <1>4, <1>7, <2>1
  <2>3. /\ \A k \in DOMAIN records : records'[k] = records[k]
        /\ records'[Len(records) + 1] = record
    BY SMTT(60), <1>4, <1>7, <2>1
  <2>4. Reported' = Reported \cup {<<rowStart, Len(row) + 1>>}
    BY <1>6, <2>2, <2>3 DEF Reported
  <2>5. records' \in Seq([line : Nat, values : Seq(Seq(Chars))])
    BY <1>4, <1>7, <2>1
  <2>6. Reported' = RowsUpTo(i + 1)
    BY <1>0, <1>5, <1>8, <2>4
  <2> QED
    BY <2>5, <2>6 DEF pushRow
<1>9. CASE ~sawContent
  BY <1>0, <1>3, <1>5, <1>7, <1>9 DEF Reported, pushRow
<1> QED
  BY <1>8, <1>9 DEF ParseInv

LEMMA ReadingOn ==
  ASSUME LengthAssumption, ParseInv
  PROVE  /\ text \in Seq(Chars) /\ Len(text) \in Nat /\ i \in Nat \ {0}
         /\ i <= Len(text) => text[i] \in Chars
BY TextsAreSequences DEF ParseInv

LEMMA EscapedFits == ASSUME LengthAssumption, ParseInv, Escaped PROVE ParseInv'
<1>1. /\ verdict = "reading" /\ i < Len(text) /\ text[i] = "quote" /\ text[i + 1] = "quote"
      /\ inQuotes /\ field' = Append(field, "quote") /\ i' = i + 2
      /\ UNCHANGED <<text, row, inQuotes, line, rowStart, sawContent, records, verdict>>
  BY DEF Escaped, Read, Reading
<1>2. i \in Nat \ {0} /\ i + 1 \in Nat \ {0} /\ Len(text) \in Nat
  BY ReadingOn
<1>3. IsQuoted(i) /\ ~IsQuoted(i + 1) /\ IsQuoted((i + 1) + 1)
  BY <1>1, <1>2, QuotedNext DEF ParseInv
<1>4. Before("newline", (i + 1) + 1) = Before("newline", i) /\ Before("newline", i) \in Nat
  <2>1. Before("newline", i) \in Nat /\ Before("newline", i + 1) = Before("newline", i)
    BY <1>1, <1>2, SameCount
  <2>2. Before("newline", (i + 1) + 1) = Before("newline", i + 1)
    BY <1>1, <1>2, SameCount
  <2> QED
    BY <2>1, <2>2
<1>5. /\ i \notin Ends /\ ~IsSeparator(i) /\ ~IsContent(i)
      /\ i + 1 \notin Ends /\ ~IsSeparator(i + 1) /\ ~IsContent(i + 1)
  BY <1>1, <1>3 DEF Ends, IsSeparator, IsContent
<1>6. (i + 1) + 1 = i'
  BY <1>1, <1>2
<1>7. ASSUME NEW s \in 1..i, RowFrom(s, i, Len(row), sawContent)
      PROVE  RowFrom(s, i', Len(row), sawContent)
  <2>1. RowFrom(s, i + 1, Len(row), sawContent)
    BY <1>2, <1>5, <1>7, RowStays DEF ParseInv
  <2>2. s \in 1..(i + 1)
    BY <1>2
  <2> QED
    BY <1>2, <1>5, <1>6, <2>1, <2>2, RowStays DEF ParseInv
<1>8. field' \in Seq(Chars) /\ field' # <<>>
  <2>1. field \in Seq(Chars) /\ "quote" \in Chars
    BY DEF ParseInv, Chars
  <2> QED
    BY <1>1, <2>1
<1>9. /\ i' \in 1..(Len(text) + 1) /\ i < i' /\ line' \in Nat
      /\ row' \in Seq(Seq(Chars)) /\ sawContent' \in BOOLEAN /\ inQuotes' \in BOOLEAN
  BY <1>1, <1>2 DEF ParseInv
<1>10. (inQuotes' <=> IsQuoted(i')) /\ line' = 1 + Before("newline", i')
  BY <1>1, <1>3, <1>4, <1>6 DEF ParseInv
<1>11. \A s \in 1..i : RowFrom(s, i, Len(row), sawContent) => RowFrom(s, i', Len(row'), sawContent')
  BY <1>1, <1>7
<1>12. UNCHANGED <<text, rowStart, records, verdict>> /\ verdict = "reading" /\ i <= Len(text)
  BY <1>1, <1>2 DEF ParseInv
<1> QED
  BY <1>8, <1>9, <1>10, <1>11, <1>12, ReadsOn

\* One character in the middle of a row.
LEMMA CharacterFits ==
  ASSUME LengthAssumption, ParseInv, verdict = "reading", i <= Len(text), i \notin Ends,
         i' = i + 1, UNCHANGED <<text, rowStart, records, verdict>>,
         field' \in Seq(Chars), row' \in Seq(Seq(Chars)), inQuotes' \in BOOLEAN,
         inQuotes' <=> IF text[i] = "quote" THEN ~inQuotes ELSE inQuotes,
         line' = IF text[i] = "newline" THEN line + 1 ELSE line,
         Len(row') = Len(row) + (IF IsSeparator(i) THEN 1 ELSE 0),
         sawContent' = (sawContent \/ IsContent(i)),
         sawContent' => field' # <<>> \/ ~rowIsEmpty(row')
  PROVE  ParseInv'
<1>1. i \in Nat \ {0} /\ Len(text) \in Nat /\ sawContent \in BOOLEAN /\ line \in Nat
  BY ReadingOn DEF ParseInv
<1>2. inQuotes' <=> IsQuoted(i + 1)
  BY <1>1, QuotedNext DEF ParseInv
<1>3. line' = 1 + Before("newline", i + 1) /\ line' \in Nat
  <2>1. PICK n \in Nat : n = Before("newline", i)
    BY <1>1, BeforeNext
  <2>2. line = 1 + n
    BY <2>1 DEF ParseInv
  <2>3. Before("newline", i + 1) = n + (IF text[i] = "newline" THEN 1 ELSE 0)
    BY <1>1, <2>1, BeforeNext
  <2> QED
    BY <2>2, <2>3
<1>4. ASSUME NEW s \in 1..i, RowFrom(s, i, Len(row), sawContent)
      PROVE  RowFrom(s, i', Len(row'), sawContent')
  BY <1>1, <1>4, RowNext
<1>5. sawContent' \in BOOLEAN
  BY <1>1
<1>6. i' \in 1..(Len(text) + 1) /\ i < i'
  BY SMTT(60), <1>1
<1> QED
  BY <1>2, <1>3, <1>4, <1>5, <1>6, ReadsOn

LEMMA UnquoteFits == ASSUME LengthAssumption, ParseInv, Unquote \/ Quote PROVE ParseInv'
<1>1. /\ verdict = "reading" /\ i <= Len(text) /\ text[i] = "quote" /\ i' = i + 1
      /\ inQuotes' = ~inQuotes
      /\ UNCHANGED <<text, field, row, line, rowStart, sawContent, records, verdict>>
  BY DEF Unquote, Quote, Read, Reading, ParseInv
<1>2. i \notin Ends /\ ~IsSeparator(i) /\ ~IsContent(i)
  BY <1>1 DEF Ends, IsSeparator, IsContent
<1>3. /\ field' \in Seq(Chars) /\ row' \in Seq(Seq(Chars)) /\ inQuotes' \in BOOLEAN
      /\ Len(row') = Len(row) + 0 /\ sawContent' = (sawContent \/ FALSE)
      /\ sawContent' => field' # <<>> \/ ~rowIsEmpty(row')
  BY <1>1 DEF ParseInv
<1> QED
  BY ZenonT(60), <1>1, <1>2, <1>3, CharacterFits

LEMMA QuotedFits == ASSUME LengthAssumption, ParseInv, Quoted PROVE ParseInv'
<1>1. /\ verdict = "reading" /\ i <= Len(text) /\ text[i] # "quote" /\ i' = i + 1
      /\ line' = IF text[i] = "newline" THEN line + 1 ELSE line
      /\ field' = Append(field, text[i]) /\ sawContent' = TRUE
      /\ UNCHANGED <<text, row, inQuotes, rowStart, records, verdict>>
  BY DEF Quoted, Reading
<1>2. IsQuoted(i)
  BY <1>1 DEF ParseInv, Quoted
<1>3. i \notin Ends /\ ~IsSeparator(i) /\ IsContent(i)
  BY <1>1, <1>2 DEF Ends, IsSeparator, IsContent
<1>4. text[i] \in Chars /\ field \in Seq(Chars)
  BY <1>1, ReadingOn DEF ParseInv
<1>5. field' \in Seq(Chars) /\ field' # <<>>
  BY <1>1, <1>4
<1>6. row' \in Seq(Seq(Chars)) /\ inQuotes' \in BOOLEAN /\ Len(row') = Len(row) + 0
  BY <1>1 DEF ParseInv
<1>7. sawContent' = (sawContent \/ IsContent(i))
  BY ZenonT(60), <1>1, <1>3
<1> QED
  BY <1>1, <1>3, <1>5, <1>6, <1>7, CharacterFits

LEMMA CommaFits == ASSUME LengthAssumption, ParseInv, Comma PROVE ParseInv'
<1>1. /\ verdict = "reading" /\ i <= Len(text) /\ text[i] = "comma" /\ i' = i + 1 /\ ~inQuotes
      /\ row' = Append(row, field) /\ field' = <<>>
      /\ UNCHANGED <<text, inQuotes, line, rowStart, sawContent, records, verdict>>
  BY DEF Comma, Read, Reading
<1>2. ~IsQuoted(i)
  BY <1>1 DEF ParseInv
<1>3. i \notin Ends /\ IsSeparator(i) /\ ~IsContent(i)
  BY <1>1, <1>2 DEF Ends, IsSeparator, IsContent
<1>4. /\ field' \in Seq(Chars) /\ row' \in Seq(Seq(Chars)) /\ inQuotes' \in BOOLEAN
      /\ Len(row') = Len(row) + 1 /\ sawContent' = (sawContent \/ FALSE)
  BY <1>1 DEF ParseInv
<1>5. sawContent' => ~rowIsEmpty(row')
  BY <1>1, ContentShows
<1> QED
  BY ZenonT(60), <1>1, <1>3, <1>4, <1>5, CharacterFits

LEMMA PlainFits == ASSUME LengthAssumption, ParseInv, Plain PROVE ParseInv'
<1>1. /\ verdict = "reading" /\ i <= Len(text) /\ text[i] \in {"a", "blank"} /\ i' = i + 1
      /\ ~inQuotes /\ field' = Append(field, text[i]) /\ sawContent' = (sawContent \/ text[i] = "a")
      /\ UNCHANGED <<text, row, inQuotes, line, rowStart, records, verdict>>
  BY DEF Plain, Read, Reading
<1>2. ~IsQuoted(i)
  BY <1>1 DEF ParseInv
<1>3. i \notin Ends /\ ~IsSeparator(i) /\ (IsContent(i) <=> text[i] = "a")
  BY <1>1, <1>2 DEF Ends, IsSeparator, IsContent
<1>4. text[i] \in Chars /\ field \in Seq(Chars)
  BY <1>1, ReadingOn DEF ParseInv
<1>5. field' \in Seq(Chars) /\ field' # <<>>
  BY <1>1, <1>4
<1>6. /\ row' \in Seq(Seq(Chars)) /\ inQuotes' \in BOOLEAN /\ Len(row') = Len(row) + 0
      /\ sawContent' = (sawContent \/ IsContent(i))
  BY <1>1, <1>3 DEF ParseInv
<1> QED
  BY <1>1, <1>3, <1>5, <1>6, CharacterFits

LEMMA NewlineFits == ASSUME LengthAssumption, ParseInv, Newline PROVE ParseInv'
<1>1. /\ verdict = "reading" /\ i <= Len(text) /\ text[i] = "newline" /\ i' = i + 1 /\ ~inQuotes
      /\ line' = line + 1 /\ pushRow(Append(row, field), line + 1)
      /\ UNCHANGED <<text, inQuotes, verdict>>
  BY DEF Newline, Read, Reading
<1>2. i \in Nat \ {0} /\ Len(text) \in Nat /\ line + 1 \in Nat /\ text \in Seq(Chars)
  BY ReadingOn DEF ParseInv
<1>3. ~IsQuoted(i) /\ i \in Ends
  BY <1>1, <1>2 DEF ParseInv, Ends
<1>4. PICK s \in 1..i : RowInHand(s)
  BY <1>1 DEF ParseInv
<1>5. s <= Len(text)
  BY <1>1, <1>2
<1>6. /\ Reported' = RowsUpTo(i + 1)
      /\ records' \in Seq([line : Nat, values : Seq(Seq(Chars))])
      /\ row' = <<>> /\ field' = <<>> /\ sawContent' = FALSE /\ rowStart' = line + 1
  BY <1>1, <1>2, <1>3, <1>4, <1>5, Pushed
<1>7. line' = 1 + Before("newline", i + 1)
  <2>1. PICK n \in Nat : n = Before("newline", i)
    BY <1>2, BeforeNext
  <2>2. line = 1 + n
    BY <1>1, <2>1 DEF ParseInv
  <2>3. Before("newline", i + 1) = n + 1
    BY <1>1, <1>2, <2>1, BeforeNext
  <2> QED
    BY <1>1, <2>2, <2>3
<1>8. ~IsQuoted(i + 1)
  BY <1>1, <1>2, <1>3, QuotedNext
<1>9. RowFrom(i', i', Len(row'), sawContent')
  <2>1. i' - 1 \in Ends
    BY <1>1, <1>2, <1>3
  <2>2. {j \in i'..(i' - 1) : IsSeparator(j)} = {} /\ i'..(i' - 1) = {}
    BY <1>1, <1>2
  <2>3. Len(row') = 0
    BY <1>6
  <2>4. Len(row') = Cardinality({j \in i'..(i' - 1) : IsSeparator(j)})
    BY <2>2, <2>3, FS_EmptySet
  <2>5. sawContent' <=> \E j \in i'..(i' - 1) : IsContent(j)
    BY <1>6, <2>2
  <2> QED
    BY <2>1, <2>4, <2>5 DEF RowFrom
<1>10. \E z \in 1..i' : RowInHand(z)'
  <2>1. RowFrom(i', i', Len(row'), sawContent') /\ i' \in 1..i'
    BY <1>1, <1>2, <1>9
  <2>2. PICK z \in 1..i' : z = i'
    BY <2>1
  <2>3. RowFrom(z, i', Len(row'), sawContent')
    BY <2>1, <2>2
  <2>4. RowFrom(z, i, Len(row), sawContent)'
    BY <1>1, <2>3, SameText
  <2>5. rowStart' = 1 + Before("newline", z) /\ Reported' = RowsUpTo(z)
    BY <1>1, <1>6, <1>7, <2>2
  <2>6. rowStart' = 1 + Before("newline", z)' /\ Reported' = RowsUpTo(z)'
    BY <1>1, <2>5, SameText
  <2> QED
    BY <1>6, <2>4, <2>6 DEF RowInHand
<1>11. (inQuotes <=> IsQuoted(i))' /\ (line = 1 + Before("newline", i))'
  BY <1>1, <1>7, <1>8, SameText
<1>12. i' \in 1..(Len(text') + 1) /\ row' \in Seq(Seq(Chars)) /\ field' \in Seq(Chars) /\ line' \in Nat
  BY <1>1, <1>2, <1>6
<1> QED
  BY <1>1, <1>2, <1>6, <1>10, <1>11, <1>12 DEF ParseInv

LEMMA StartsEnd ==
  ASSUME Len(text) \in Nat PROVE RowsUpTo((Len(text) + 1) + 1) = RowsUpTo(Len(text) + 1)
BY DEF RowsUpTo, Starts

LEMMA FinishFits == ASSUME LengthAssumption, ParseInv, Finish PROVE ParseInv'
<1>1. verdict = "reading" /\ i > Len(text) /\ UNCHANGED <<text, i, inQuotes, line>>
  BY DEF Finish
<1>2. text \in Seq(Chars) /\ Len(text) \in Nat /\ i = Len(text) + 1
  BY <1>1, ReadingOn DEF ParseInv
<1>3. CASE inQuotes
  <2>1. verdict' = "unclosed" /\ UNCHANGED <<records, row, field, rowStart, sawContent>>
    BY <1>3 DEF Finish
  <2>2. IsQuoted(Len(text) + 1)
    BY <1>1, <1>2, <1>3 DEF ParseInv
  <2>3. IsQuoted(Len(text) + 1)'
    BY <1>1, <2>2, SameText
  <2>4. RowsAreReported'
    BY <2>1, <2>3 DEF RowsAreReported
  <2> QED
    BY <1>1, <2>1, <2>4 DEF ParseInv
<1>4. CASE ~inQuotes
  <2>1. PICK s \in 1..i : RowInHand(s)
    BY <1>1 DEF ParseInv
  <2>2. ~IsQuoted(Len(text) + 1)'
    <3>1. ~IsQuoted(Len(text) + 1)
      BY <1>1, <1>2, <1>4 DEF ParseInv
    <3> QED
      BY <1>1, <3>1, SameText
  <2>3. verdict' \in {"empty", "ok"}
    BY <1>4 DEF Finish
  <2>4. CASE field # <<>> \/ row # <<>>
    <3>1. pushRow(Append(row, field), line)
      BY <1>4, <2>4 DEF Finish
    <3>2. s # i
      <4> SUFFICES ASSUME s = i PROVE FALSE
        OBVIOUS
      <4>1. {j \in s..(i - 1) : IsSeparator(j)} = {}
        BY <1>2
      <4>2. Len(row) = 0
        BY <2>1, <4>1, FS_EmptySet DEF RowFrom, RowInHand
      <4>3. row \in Seq(Seq(Chars))
        BY DEF ParseInv
      <4> QED
        BY <2>1, <2>4, <4>2, <4>3 DEF RowInHand
    <3>3. s <= Len(text)
      BY <1>2, <3>2
    <3>4. line \in Nat
      BY DEF ParseInv
    <3>5. /\ Reported' = RowsUpTo(i + 1)
          /\ records' \in Seq([line : Nat, values : Seq(Seq(Chars))])
          /\ row' = <<>> /\ field' = <<>> /\ sawContent' = FALSE /\ rowStart' = line
      BY <1>1, <1>2, <2>1, <3>1, <3>3, <3>4, Pushed
    <3>6. Reported' = RowsUpTo(Len(text) + 1)'
      <4>1. Reported' = RowsUpTo(Len(text) + 1)
        BY <1>2, <3>5, StartsEnd
      <4> QED
        BY <1>1, <4>1, SameText
    <3>7. RowsAreReported'
      BY <2>2, <2>3, <3>6 DEF RowsAreReported
    <3> QED
      <4>1. row' \in Seq(Seq(Chars)) /\ field' \in Seq(Chars)
        BY <3>5
      <4>2. /\ text' \in Texts /\ i' \in 1..(Len(text') + 1) /\ inQuotes' \in BOOLEAN
            /\ line' \in Nat /\ rowStart' \in Nat /\ sawContent' \in BOOLEAN
        BY <1>1, <3>5 DEF ParseInv
      <4> QED
        BY <2>3, <3>5, <3>7, <4>1, <4>2 DEF ParseInv
  <2>5. CASE field = <<>> /\ row = <<>>
    <3>1. UNCHANGED <<records, row, field, rowStart, sawContent>>
      BY <1>4, <2>5 DEF Finish
    <3>2. ~sawContent
      BY <1>1, <2>5 DEF ParseInv, rowIsEmpty
    <3>3. Reported = RowsUpTo(Len(text) + 1)
      <4>1. CASE s = i
        BY <1>2, <2>1, <4>1 DEF RowInHand
      <4>2. CASE s # i
        <5>1. s <= Len(text)
          BY <1>2, <4>2
        <5>2. i \in 1..(Len(text) + 1) /\ sawContent \in BOOLEAN
          BY DEF ParseInv
        <5>3. RowsUpTo(i + 1) = RowsUpTo(s) \cup {}
          <6>1. RowFrom(s, i, Len(row), sawContent)
            BY <2>1 DEF RowInHand
          <6>2. RowsUpTo(i + 1) = RowsUpTo(s) \cup
                  (IF sawContent THEN {<<1 + Before("newline", s), Len(row) + 1>>} ELSE {})
            BY <1>2, <2>1, <5>1, <5>2, <6>1, RowEnds
          <6> QED
            BY <3>2, <6>2
        <5>4. RowsUpTo(i + 1) = RowsUpTo(Len(text) + 1)
          BY <1>2, StartsEnd
        <5>5. Reported = RowsUpTo(s)
          BY <2>1 DEF RowInHand
        <5> QED
          BY <5>3, <5>4, <5>5
      <4> QED
        BY <4>1, <4>2
    <3>4. Reported' = Reported
      BY <3>1 DEF Reported
    <3>5. Reported' = RowsUpTo(Len(text) + 1)'
      BY <1>1, <3>3, <3>4, SameText
    <3>6. RowsAreReported'
      BY <2>2, <2>3, <3>5 DEF RowsAreReported
    <3> QED
      BY <1>1, <2>3, <3>1, <3>6 DEF ParseInv
  <2> QED
    BY <2>4, <2>5
<1> QED
  BY <1>3, <1>4 DEF ParseInv

LEMMA ParseStepFits ==
  ASSUME LengthAssumption, ParseInv, [ParseNext]_parseVars PROVE ParseInv'
<1>1. CASE UNCHANGED parseVars
  <2>1. text' = text /\ UNCHANGED <<i, field, row, inQuotes, line, rowStart, sawContent, records, verdict>>
    BY <1>1 DEF parseVars
  <2>2. CASE verdict = "reading"
    <3>1. PICK s \in 1..i : RowInHand(s)
      BY <2>2 DEF ParseInv
    <3>2. RowFrom(s, i, Len(row), sawContent)'
      BY <2>1, <3>1, SameText DEF RowInHand
    <3>3. Reported' = Reported
      BY <2>1 DEF Reported
    <3>4. \E z \in 1..i' : RowInHand(z)'
      <4>1. rowStart' = 1 + Before("newline", s)' /\ Reported' = RowsUpTo(s)'
        BY <2>1, <3>1, <3>3, SameText DEF RowInHand
      <4>2. s = i' => field' = <<>>
        BY <2>1, <3>1 DEF RowInHand
      <4> QED
        BY <2>1, <3>1, <3>2, <4>1, <4>2 DEF RowInHand
    <3>5. (inQuotes <=> IsQuoted(i))' /\ (line = 1 + Before("newline", i))'
      BY <2>1, <2>2, SameText DEF ParseInv
    <3> QED
      BY <2>1, <2>2, <3>4, <3>5 DEF ParseInv, rowIsEmpty
  <2>3. CASE verdict # "reading"
    <3>1. Reported' = Reported /\ Len(text)' = Len(text)
      BY <2>1 DEF Reported
    <3>2. RowsAreReported'
      BY <2>1, <2>3, <3>1, SameText DEF ParseInv, RowsAreReported
    <3> QED
      BY <2>1, <2>3, <3>2 DEF ParseInv
  <2> QED
    BY <2>2, <2>3
<1> QED
  BY <1>1, EscapedFits, UnquoteFits, QuotedFits, CommaFits, PlainFits, NewlineFits, FinishFits
     DEF ParseNext

(* RowsAreReported for a text of any length: every row in which something      *)
(* stands is a record, at the line on which it starts and with as many values  *)
(* as it has separators for, and a quote left open, nothing else, is an error  *)
(* (parseCsv).                                                                 *)
THEOREM EveryRowIsReported == ASSUME LengthAssumption PROVE ParseSpec => []RowsAreReported
<1>1. ParseInit => ParseInv
  BY ParseInvInit
<1>2. ParseInv /\ [ParseNext]_parseVars => ParseInv'
  BY ParseStepFits
<1>3. ParseInv => RowsAreReported
  BY DEF ParseInv, RowsAreReported
<1> QED
  BY <1>1, <1>2, <1>3, PTL DEF ParseSpec
=============================================================================
