----------------------------- MODULE PagesProofs -----------------------------
(* What the pages of a browser promise (PagesHold, SettingsHold of Pages), for *)
(* any workspaces, people, cities, series, profiles, files, sources and calls  *)
(* under way at once.  Each module behind the gate has its own invariant, kept *)
(* by its own steps; at the end they are put together.                         *)
EXTENDS Pages, TLAPS, SequenceTheorems, WellFoundedInduction

(* Whatever is a number of something has a least one.                          *)
LEMMA Least ==
  ASSUME NEW T \in SUBSET Nat, T # {}
  PROVE  \E m \in T : \A k \in T : m <= k
<1>1. PICK m \in T : \A k \in T : <<k, m>> \notin OpToRel(<, Nat)
  BY WFMin, NatLessThanWellFounded, Zenon
<1>2. \A k \in T : ~(k < m)
  BY <1>1, Zenon DEF OpToRel
<1> QED BY <1>2

-----------------------------------------------------------------------------
(* What a filter has kept after each element.  There is such a function for   *)
(* every length, so the filter is its last value.                              *)
Keeps(f, s, S, n) ==
  f = [i \in 0..n |-> IF i = 0 THEN <<>> ELSE IF s[i] \in S THEN Append(f[i - 1], s[i]) ELSE f[i - 1]]

LEMMA KeepsExists == ASSUME NEW s, NEW S, NEW n \in Nat PROVE \E f : Keeps(f, s, S, n)
<1> DEFINE T == {m \in Nat : ~\E f : Keeps(f, s, S, m)}
<1> SUFFICES ASSUME T # {} PROVE FALSE
  OBVIOUS
<1>1. PICK m \in T : \A k \in T : m <= k
  BY Least
<1>2. m \in Nat /\ ~\E f : Keeps(f, s, S, m)
  OBVIOUS
<1>3. m # 0
  <2> SUFFICES ASSUME m = 0 PROVE \E f : Keeps(f, s, S, 0)
    BY <1>2
  <2>1. PICK f : f = [i \in 0..0 |-> <<>>]
    OBVIOUS
  <2>2. Keeps(f, s, S, 0)
    <3>1. \A i \in 0..0 : i = 0
      OBVIOUS
    <3> QED BY <2>1, <3>1 DEF Keeps
  <2> QED BY <2>2
<1>4. m - 1 \in Nat /\ ~(m <= m - 1)
  BY <1>2, <1>3
<1>5. PICK g : Keeps(g, s, S, m - 1)
  BY <1>1, <1>4
<1> HIDE DEF T
<1>6. PICK x : x = IF s[m] \in S THEN Append(g[m - 1], s[m]) ELSE g[m - 1]
  OBVIOUS
<1>7. PICK f : f = [i \in 0..m |-> IF i = m THEN x ELSE g[i]]
  OBVIOUS
<1>8. \A i \in 0..m : (i = m \/ i \in 0..m - 1) /\ (i # 0 => i - 1 \in 0..m - 1 /\ i - 1 # m)
  BY <1>2
<1>9. f[m] = x /\ \A i \in 0..m - 1 : f[i] = g[i]
  BY <1>2, <1>7
<1>10. \A i \in 0..m - 1 : g[i] = IF i = 0 THEN <<>> ELSE IF s[i] \in S THEN Append(g[i - 1], s[i]) ELSE g[i - 1]
  BY <1>5 DEF Keeps
<1>11. ASSUME NEW i \in 0..m
       PROVE  f[i] = IF i = 0 THEN <<>> ELSE IF s[i] \in S THEN Append(f[i - 1], s[i]) ELSE f[i - 1]
  <2>1. CASE i = m
    <3>1. i # 0 /\ f[i - 1] = g[m - 1]
      BY <1>3, <1>8, <1>9, <2>1
    <3> QED BY <1>6, <1>9, <2>1, <3>1
  <2>2. CASE i \in 0..m - 1 /\ i # 0
    <3>1. f[i - 1] = g[i - 1]
      BY <1>8, <1>9, <2>2
    <3> QED BY <1>9, <1>10, <2>2, <3>1
  <2>3. CASE i = 0
    <3>1. i \in 0..m - 1
      BY <1>4, <2>3
    <3> QED BY <1>9, <1>10, <2>3, <3>1
  <2> QED BY <1>8, <2>1, <2>2, <2>3
<1>12. Keeps(f, s, S, m)
  <2>1. f = [i \in 0..m |-> f[i]]
    BY <1>7
  <2> QED BY <1>11, <2>1 DEF Keeps
<1> QED BY <1>2, <1>12

LEMMA OnlyIs ==
  ASSUME NEW s, NEW S, Len(s) \in Nat
  PROVE  \E f : Keeps(f, s, S, Len(s)) /\ Day!Only(s, S) = f[Len(s)]
<1>1. PICK f : f = CHOOSE h : Keeps(h, s, S, Len(s))
  OBVIOUS
<1>2. Keeps(f, s, S, Len(s))
  BY <1>1, KeepsExists
<1>3. Day!Only(s, S) = f[Len(s)]
  BY <1>1 DEF Day!Only, Keeps
<1> QED BY <1>2, <1>3

(* After each element: of the elements so far, those in the set, in as many    *)
(* places or fewer, and twice only where the list has them twice.              *)
KeptOf(t, s, S, m) ==
  /\ t \in Seq(Range(s) \cap S) /\ Len(t) <= m
  /\ \A i \in 1..Len(t) : \E j \in 1..m : t[i] = s[j]
  /\ \A j \in 1..m : s[j] \in S => \E i \in 1..Len(t) : t[i] = s[j]
  /\ IsInjective(s) => \A i, j \in 1..Len(t) : t[i] = t[j] => i = j

LEMMA KeptStarts == ASSUME NEW s, NEW S PROVE KeptOf(<<>>, s, S, 0)
<1>1. <<>> \in Seq(Range(s) \cap S) /\ Len(<<>>) = 0
  OBVIOUS
<1> QED BY <1>1 DEF KeptOf

LEMMA KeptGoesOn ==
  ASSUME NEW A, NEW s \in Seq(A), NEW S, NEW m \in 1..Len(s), NEW t, KeptOf(t, s, S, m - 1),
         NEW u, u = IF s[m] \in S THEN Append(t, s[m]) ELSE t
  PROVE  KeptOf(u, s, S, m)
<1>1. Len(s) \in Nat /\ DOMAIN s = 1..Len(s)
  BY LenProperties
<1>2. \A j \in 1..m : j \in 1..m - 1 \/ j = m
  BY <1>1
<1>3. \A j \in 1..m - 1 : j \in 1..m
  BY <1>1
<1>4. t \in Seq(Range(s) \cap S) /\ Len(t) \in Nat /\ Len(t) <= m - 1
  BY LenProperties DEF KeptOf
<1>5. CASE s[m] \notin S
  <2>1. Len(u) <= m
    BY <1>1, <1>4, <1>5
  <2> QED BY <1>2, <1>3, <1>5, <2>1 DEF KeptOf
<1>6. CASE s[m] \in S
  <2>1. s[m] \in Range(s) \cap S
    BY <1>1, <1>6 DEF Range
  <2>2. /\ u \in Seq(Range(s) \cap S) /\ Len(u) = Len(t) + 1
        /\ \A i \in 1..Len(t) : u[i] = t[i]
        /\ u[Len(t) + 1] = s[m]
    BY <1>4, <1>6, <2>1, AppendProperties
  <2>3. \A i \in 1..Len(u) : i \in 1..Len(t) \/ i = Len(t) + 1
    BY <1>4, <2>2
  <2>4. Len(u) <= m /\ \A i \in 1..Len(t) : i \in 1..Len(u)
    BY <1>1, <1>4, <2>2
  <2>5. Len(t) + 1 \in 1..Len(u) /\ m \in 1..m
    BY <1>1, <1>4, <2>2
  <2>6. ASSUME NEW i \in 1..Len(u) PROVE \E j \in 1..m : u[i] = s[j]
    BY <1>3, <2>2, <2>3, <2>5 DEF KeptOf
  <2>7. ASSUME NEW j \in 1..m, s[j] \in S PROVE \E i \in 1..Len(u) : u[i] = s[j]
    BY <1>2, <2>2, <2>4, <2>5, <2>7 DEF KeptOf
  <2>8. ASSUME IsInjective(s), NEW i \in 1..Len(u), NEW j \in 1..Len(u), u[i] = u[j] PROVE i = j
    <3>1. ASSUME NEW k \in 1..Len(t) PROVE t[k] # s[m]
      <4>1. PICK l \in 1..m - 1 : t[k] = s[l]
        BY DEF KeptOf
      <4>2. l # m /\ l \in 1..Len(s)
        BY <1>1
      <4> QED BY <1>1, <2>8, <4>1, <4>2 DEF IsInjective
    <3>2. \A k, l \in 1..Len(t) : t[k] = t[l] => k = l
      BY <2>8 DEF KeptOf
    <3> QED BY <2>2, <2>3, <2>8, <3>1, <3>2
  <2> QED BY <2>2, <2>4, <2>6, <2>7, <2>8 DEF KeptOf
<1> QED BY <1>5, <1>6

LEMMA OnlyKeeps ==
  ASSUME NEW A, NEW s \in Seq(A), NEW S
  PROVE  KeptOf(Day!Only(s, S), s, S, Len(s))
<1>1. Len(s) \in Nat
  BY LenProperties
<1>2. PICK f : Keeps(f, s, S, Len(s)) /\ Day!Only(s, S) = f[Len(s)]
  BY <1>1, OnlyIs
<1>3. \A i \in 0..Len(s) : f[i] = IF i = 0 THEN <<>> ELSE IF s[i] \in S THEN Append(f[i - 1], s[i]) ELSE f[i - 1]
  BY <1>2 DEF Keeps
<1> DEFINE T == {m \in 0..Len(s) : ~KeptOf(f[m], s, S, m)}
<1>4. T = {}
  <2> SUFFICES ASSUME T # {} PROVE FALSE
    OBVIOUS
  <2>1. T \in SUBSET Nat
    BY <1>1
  <2>2. PICK m \in T : \A k \in T : m <= k
    BY <2>1, Least
  <2>3. m \in 0..Len(s) /\ ~KeptOf(f[m], s, S, m)
    OBVIOUS
  <2>4. m # 0
    BY <1>1, <1>3, <2>3, KeptStarts
  <2>5. m \in 1..Len(s) /\ m - 1 \in 0..Len(s) /\ ~(m <= m - 1)
    BY <1>1, <2>3, <2>4
  <2>6. KeptOf(f[m - 1], s, S, m - 1)
    BY <2>2, <2>5
  <2>7. f[m] = IF s[m] \in S THEN Append(f[m - 1], s[m]) ELSE f[m - 1]
    BY <1>3, <2>3, <2>4
  <2> QED BY <2>3, <2>5, <2>6, <2>7, KeptGoesOn
<1>5. Len(s) \in 0..Len(s)
  BY <1>1
<1> QED BY <1>2, <1>4, <1>5

(* A filter keeps the elements that are in the set, and no others.             *)
LEMMA OnlyGives ==
  ASSUME NEW A, NEW s \in Seq(A), NEW S
  PROVE  /\ Day!Only(s, S) \in Seq(Range(s) \cap S) /\ Len(Day!Only(s, S)) <= Len(s)
         /\ Range(Day!Only(s, S)) = Range(s) \cap S
         /\ IsInjective(s) => IsInjective(Day!Only(s, S))
<1>1. PICK t : t = Day!Only(s, S)
  OBVIOUS
<1>2. KeptOf(t, s, S, Len(s))
  BY <1>1, OnlyKeeps
<1>3. Len(s) \in Nat /\ DOMAIN s = 1..Len(s)
  BY LenProperties
<1>4. t \in Seq(Range(s) \cap S) /\ Len(t) <= Len(s)
  BY <1>2 DEF KeptOf
<1>5. DOMAIN t = 1..Len(t) /\ \A i \in 1..Len(t) : t[i] \in Range(s) \cap S
  BY <1>4, LenProperties, ElementOfSeq
<1>6. Range(t) = Range(s) \cap S
  <2>1. ASSUME NEW x \in Range(t) PROVE x \in Range(s) \cap S
    BY <1>5 DEF Range
  <2>2. ASSUME NEW x \in Range(s) \cap S PROVE x \in Range(t)
    <3>1. PICK j \in 1..Len(s) : x = s[j]
      BY <1>3 DEF Range
    <3>2. PICK i \in 1..Len(t) : t[i] = s[j]
      BY <1>2, <3>1 DEF KeptOf
    <3> QED BY <1>5, <3>1, <3>2 DEF Range
  <2> QED BY <2>1, <2>2
<1>7. IsInjective(s) => IsInjective(t)
  BY <1>2, <1>5 DEF KeptOf, IsInjective
<1> QED BY <1>1, <1>4, <1>6, <1>7

-----------------------------------------------------------------------------
(* The gate.  A session request under way is of the workspace shown, and, if   *)
(* nothing crossed it, was sent with the cookie there is.  An unlock may have  *)
(* been sent with an older cookie, but only a logout has come since, and after *)
(* one the switcher lists nothing the unlock would not.                        *)
GateInv ==
  /\ viewed \in Lives \cup {"demo"} /\ crossed \in BOOLEAN
  /\ get # None => get.ws = viewed /\ viewed # "demo"
  /\ get # None /\ ~crossed => get.sent = ticket
  /\ unlock # None => ticket = unlock.sent \/ ticket = {}
  /\ ~crossed => listed \subseteq ticket \cup {"demo"}
  /\ get = None /\ ~crossed /\ viewed # "demo" => (gate = "in" <=> Authorized(ticket, viewed))

LEMMA Asking ==
  ASSUME NEW w \in Lives, AskSession(w), w # "demo"
  PROVE  get' = [ws |-> w, sent |-> ticket, key |-> "none"] /\ get' # None
<1>1. get' = [ws |-> w, sent |-> ticket, key |-> "none"]
  BY DEF AskSession, None
<1>2. w # "none"
  BY GateAssumption
<1> QED BY <1>1, <1>2 DEF None

LEMMA GateSteps == GateInv /\ [GateNext]_gateVars => GateInv'
<1> SUFFICES ASSUME GateInv, [GateNext]_gateVars PROVE GateInv'
  OBVIOUS
<1>1. ASSUME NEW w \in Lives \cup {"demo"}, Switch(w) PROVE GateInv'
  <2>1. CASE w = "demo"
    BY <1>1, <2>1 DEF GateInv, Switch, AskSession
  <2>2. CASE w # "demo"
    BY <1>1, <2>2, Asking DEF GateInv, Switch
  <2> QED BY <2>1, <2>2
<1>2. ASSUME GetAnswers PROVE GateInv'
  <2>1. CASE gate' = "out" /\ crossed' = TRUE
    BY <1>2, <2>1 DEF GateInv, GetAnswers
  <2>2. CASE /\ listed' = get.sent \ {"any"} /\ gate' = (IF Authorized(get.sent, get.ws) THEN "in" ELSE "out")
             /\ crossed' = (crossed /\ get.sent # ticket)
    BY <1>2, <2>2 DEF GateInv, GetAnswers, Authorized
  <2> QED BY <1>2, <2>1, <2>2 DEF GetAnswers
<1>3. ASSUME PostAnswers PROVE GateInv'
  <2>1. CASE UNCHANGED <<ticket, gate, listed, crossed>>
    BY <1>3, <2>1 DEF GateInv, PostAnswers
  <2>2. CASE enter
    <3>1. ticket' = unlock.sent \cup {unlock.ws} \cup (IF unlock.key \in Admin THEN {"any"} ELSE {})
      BY <2>2 DEF enter
    <3>2. ~crossed' => ~crossed /\ viewed = unlock.ws /\ get = None
      BY <2>2 DEF enter
    <3>3. ~crossed' => listed' \subseteq ticket' \cup {"demo"}
      BY <1>3, <2>2, <3>1, <3>2 DEF GateInv, PostAnswers, enter
    <3>4. ~crossed' => gate' = "in" /\ Authorized(ticket', viewed')
      BY <1>3, <2>2, <3>1, <3>2 DEF PostAnswers, enter, Authorized
    <3>5. viewed' = viewed /\ get' = get /\ unlock' = None /\ crossed' \in BOOLEAN
      BY <1>3, <2>2 DEF GateInv, PostAnswers, enter
    <3> QED BY <3>2, <3>3, <3>4, <3>5 DEF GateInv
  <2> QED BY <1>3, <2>1, <2>2 DEF PostAnswers
<1>4. ASSUME LogoutAnswers PROVE GateInv'
  <2>1. CASE UNCHANGED <<ticket, listed, gate, crossed>>
    BY <1>4, <2>1 DEF GateInv, LogoutAnswers
  <2>2. CASE /\ ticket' = {} /\ listed' = {} /\ gate' = "out"
             /\ crossed' = (crossed \/ get # None \/ unlock # None)
    BY <1>4, <2>2 DEF GateInv, LogoutAnswers, Authorized
  <2> QED BY <1>4, <2>1, <2>2 DEF LogoutAnswers
<1>5. ASSUME NEW k \in DOMAIN Opens, onSubmit(k) PROVE GateInv'
  <2>1. unlock' = [ws |-> viewed, sent |-> ticket, key |-> k]
    BY <1>5 DEF onSubmit
  <2> QED BY <1>5, <2>1 DEF GateInv, onSubmit
<1>6. ASSUME logout PROVE GateInv'
  BY <1>6 DEF GateInv, logout
<1>7. CASE UNCHANGED gateVars
  BY <1>7 DEF GateInv, gateVars, Authorized
<1> QED BY <1>1, <1>2, <1>3, <1>4, <1>5, <1>6, <1>7 DEF GateNext

LEMMA GateStarts == GateInit => GateInv
BY DEF GateInit, GateInv, None, Authorized
LEMMA GateIs == GateInv => GateIsTrue
BY DEF GateInv, GateIsTrue

(* With its request answered, and no late answer across it, the gate is in     *)
(* where the cookie opens the workspace, and nowhere else (WorkspaceSession).  *)
THEOREM GateOpensByCookie == GateInit /\ [][GateNext]_gateVars => []GateIsTrue
BY GateStarts, GateIs, GateSteps, PTL

-----------------------------------------------------------------------------
(* The outreach queue.  A draft fits a table of rows when its row is the       *)
(* person's and at least as far; a call fits when the copy it will write back  *)
(* does, and its row is as far as its answer says.  Rows only go forward.      *)
DraftStates == {"none", "waiting", "edited", "approved", "sent"}
Outcomes == {"none", "replied"}
OutreachRow == [person : People, state : DraftStates, outcome : Outcomes]
PageDraft == [id : Nat, state : DraftStates, outcome : Outcomes]
Fits(d, p, table) ==
  /\ d.id \in 0..Len(table)
  /\ d.state \in {"approved", "sent"} => d.id # 0 /\ table[d.id].state \in {d.state, "sent"}
  /\ d.id # 0 => table[d.id].person = p
AllFit(page, table) == page \in [People -> PageDraft] /\ \A p \in People : Fits(page[p], p, table)
DraftCall ==
  [kind : {"idle", "generate", "approve", "send", "outcome"}, person : People \cup {"none"}, id : Nat,
   runs : [People -> PageDraft] \cup {<<>>}, answer : {"none", "ok", "no"}]
CallFits(q, table) ==
  q.kind # "idle" =>
    /\ q.person \in People /\ AllFit(q.runs, table)
    /\ q.kind = "generate" /\ q.answer = "ok" => q.id \in 1..Len(table) /\ table[q.id].person = q.person
    /\ q.kind # "generate" => q.id # 0 /\ q.id = q.runs[q.person].id
    /\ q.kind = "approve" /\ q.answer = "ok" => table[q.id].state \in {"approved", "sent"}
    /\ q.kind = "send" /\ q.answer = "ok" => table[q.id].state = "sent"
DraftInv ==
  /\ outreach \in Seq(OutreachRow) /\ AllFit(shown, outreach)
  /\ calls \in [DraftCalls -> DraftCall]
  /\ \A c \in DraftCalls : CallFits(calls[c], outreach)

Later(table, next) ==
  /\ Len(table) \in Nat /\ Len(next) \in Nat /\ Len(table) <= Len(next)
  /\ \A i \in 1..Len(table) :
       /\ next[i].person = table[i].person
       /\ table[i].state = "sent" => next[i].state = "sent"
       /\ table[i].state = "approved" => next[i].state \in {"approved", "sent"}

LEMMA FitsLater ==
  ASSUME NEW table, NEW next, Later(table, next), NEW page, AllFit(page, table)
  PROVE  AllFit(page, next)
<1> SUFFICES ASSUME NEW p \in People PROVE Fits(page[p], p, next)
  BY DEF AllFit
<1>1. page[p] \in PageDraft /\ Fits(page[p], p, table)
  BY DEF AllFit
<1> QED BY <1>1 DEF Fits, Later, PageDraft

LEMMA CallFitsLater ==
  ASSUME NEW table, NEW next, Later(table, next), NEW q \in DraftCall, CallFits(q, table)
  PROVE  CallFits(q, next)
<1> SUFFICES ASSUME q.kind # "idle" PROVE CallFits(q, next)
  BY DEF CallFits
<1>1. AllFit(q.runs, next) /\ q.person \in People
  BY FitsLater DEF CallFits
<1>2. q.kind # "generate" => q.id \in 1..Len(table)
  BY DEF CallFits, AllFit, Fits, PageDraft, DraftCall, Later
<1>3. q.kind = "generate" /\ q.answer = "ok" => q.id \in 1..Len(next) /\ next[q.id].person = q.person
  BY DEF CallFits, Later, DraftCall
<1>4. q.kind = "approve" /\ q.answer = "ok" => next[q.id].state \in {"approved", "sent"}
  BY <1>2 DEF CallFits, Later
<1>5. q.kind = "send" /\ q.answer = "ok" => next[q.id].state = "sent"
  BY <1>2 DEF CallFits, Later
<1>6. q.kind # "generate" => q.id # 0 /\ q.id = q.runs[q.person].id
  BY DEF CallFits
<1> QED BY <1>1, <1>3, <1>4, <1>5, <1>6 DEF CallFits

(* What the rows show is of their person: the oldest one there is.             *)
LEMMA QueueFits ==
  ASSUME outreach \in Seq(OutreachRow)
  PROVE  AllFit(Pmf!Queue, outreach)
<1> SUFFICES ASSUME NEW p \in People
             PROVE  Pmf!OldestOf(p) \in PageDraft /\ Fits(Pmf!OldestOf(p), p, outreach)
  BY DEF AllFit, Pmf!Queue
<1> DEFINE mine == {i \in DOMAIN outreach : outreach[i].person = p}
<1>1. CASE mine = {}
  <2>1. Pmf!OldestOf(p) = Pmf!None
    BY <1>1, Zenon DEF Pmf!OldestOf
  <2> QED BY <2>1 DEF Pmf!None, PageDraft, Fits, DraftStates, Outcomes
<1>2. CASE mine # {}
  <2>1. mine \subseteq Nat
    OBVIOUS
  <2>2. PICK i \in mine : \A j \in mine : i <= j
    BY <1>2, <2>1, Least
  <2> DEFINE o == CHOOSE k \in mine : \A j \in mine : k <= j
  <2>3. o \in mine
    BY <2>2
  <2>4. Pmf!OldestOf(p) = Pmf!Draft(o)
    BY <1>2 DEF Pmf!OldestOf
  <2> HIDE DEF o
  <2>5. o \in 1..Len(outreach) /\ outreach[o] \in OutreachRow /\ outreach[o].person = p
    BY <2>3
  <2>6. Pmf!Draft(o) = [id |-> o, state |-> outreach[o].state, outcome |-> outreach[o].outcome]
    BY DEF Pmf!Draft
  <2> QED BY <2>4, <2>5, <2>6 DEF PageDraft, Fits, OutreachRow
<1> QED BY <1>1, <1>2

LEMMA Calling ==
  ASSUME DraftInv, NEW c \in DraftCalls, NEW k \in {"generate", "approve", "send", "outcome"},
         NEW p \in People, Pmf!Call(c, k, p), k # "generate" => shown[p].id # 0
  PROVE  DraftInv'
<1> DEFINE q == [kind |-> k, person |-> p, id |-> shown[p].id, runs |-> shown, answer |-> "none"]
<1>1. calls' = [calls EXCEPT ![c] = q] /\ outreach' = outreach /\ shown' = shown
  BY DEF Pmf!Call
<1>2. shown[p].id \in Nat
  BY DEF DraftInv, AllFit, PageDraft
<1>3. q \in DraftCall
  BY <1>2 DEF DraftInv, AllFit, DraftCall
<1>4. CallFits(q, outreach)
  BY DEF DraftInv, CallFits
<1> HIDE DEF q
<1> QED BY <1>1, <1>3, <1>4 DEF DraftInv

LEMMA Answering ==
  ASSUME DraftInv, NEW c \in DraftCalls, outreach' = outreach,
         calls' = [calls EXCEPT ![c] = Pmf!Idle], AllFit(shown', outreach)
  PROVE  DraftInv'
<1>1. Pmf!Idle \in DraftCall /\ CallFits(Pmf!Idle, outreach)
  BY DEF Pmf!Idle, DraftCall, CallFits
<1> QED BY <1>1 DEF DraftInv

LEMMA Writing ==
  ASSUME NEW runs, AllFit(runs, outreach), NEW p \in People, NEW d \in PageDraft, Fits(d, p, outreach)
  PROVE  AllFit([runs EXCEPT ![p] = d], outreach)
BY DEF AllFit

LEMMA Marked ==
  ASSUME DraftInv, NEW c \in DraftCalls, NEW k \in {"approve", "send", "outcome"}, NEW d,
         Pmf!Answers(c, k, d),
         calls[c].answer = "ok" => d \in PageDraft /\ Fits(d, calls[c].person, outreach)
  PROVE  DraftInv'
<1>1. CallFits(calls[c], outreach) /\ calls[c].kind # "idle"
  BY DEF DraftInv, Pmf!Answers
<1>2. AllFit(calls[c].runs, outreach) /\ calls[c].person \in People
  BY <1>1 DEF CallFits
<1>3. AllFit(shown', outreach)
  <2>1. CASE calls[c].answer = "ok"
    BY <1>2, <2>1, Writing DEF Pmf!Answers
  <2>2. CASE calls[c].answer # "ok"
    BY <2>2 DEF Pmf!Answers, DraftInv
  <2> QED BY <2>1, <2>2
<1> QED BY <1>3, Answering DEF Pmf!Answers

(* The copy a call writes back, with its mark.                                 *)
LEMMA OfFits ==
  ASSUME DraftInv, NEW c \in DraftCalls, calls[c].kind \in {"approve", "send", "outcome"}
  PROVE  /\ calls[c].person \in People /\ Pmf!Of(c) \in PageDraft
         /\ Fits(Pmf!Of(c), calls[c].person, outreach)
         /\ Pmf!Of(c).id = calls[c].id /\ calls[c].id \in 1..Len(outreach)
         /\ outreach[calls[c].id].person = calls[c].person
<1>1. CallFits(calls[c], outreach) /\ calls[c].kind # "idle" /\ calls[c].kind # "generate"
  BY DEF DraftInv
<1>2. AllFit(calls[c].runs, outreach) /\ calls[c].person \in People
  BY <1>1 DEF CallFits
<1>3. Pmf!Of(c) \in PageDraft /\ Fits(Pmf!Of(c), calls[c].person, outreach)
  BY <1>2 DEF AllFit, Pmf!Of
<1>4. Pmf!Of(c).id = calls[c].id /\ calls[c].id # 0
  BY <1>1 DEF CallFits, Pmf!Of
<1> QED BY <1>2, <1>3, <1>4 DEF Fits

LEMMA Serving ==
  ASSUME DraftInv, NEW c \in DraftCalls, NEW q \in DraftCall, CallFits(q, outreach'),
         calls' = [calls EXCEPT ![c] = q], shown' = shown,
         outreach' \in Seq(OutreachRow), Later(outreach, outreach')
  PROVE  DraftInv'
<1>1. AllFit(shown', outreach')
  BY FitsLater DEF DraftInv
<1>2. \A b \in DraftCalls \ {c} : CallFits(calls[b], outreach')
  BY CallFitsLater DEF DraftInv
<1> QED BY <1>1, <1>2 DEF DraftInv

(* A row that goes forward, on the strength of the call that it answers.       *)
LEMMA Forward ==
  ASSUME outreach \in Seq(OutreachRow), NEW i \in 1..Len(outreach), NEW r \in OutreachRow,
         outreach' = [outreach EXCEPT ![i] = r], r.person = outreach[i].person,
         outreach[i].state = "sent" => r.state = "sent",
         outreach[i].state = "approved" => r.state \in {"approved", "sent"}
  PROVE  outreach' \in Seq(OutreachRow) /\ outreach'[i] = r /\ Later(outreach, outreach')
BY DEF Later

LEMMA ServeKeeps == ASSUME DraftInv, NEW c \in DraftCalls, Pmf!Serve(c) PROVE DraftInv'
<1> DEFINE q == calls[c]
<1>1. q \in DraftCall /\ CallFits(q, outreach) /\ outreach \in Seq(OutreachRow) /\ shown' = shown
  BY DEF DraftInv, Pmf!Serve
<1>2. ASSUME q.kind = "generate", outreach' = Append(outreach, [person |-> q.person, state |-> "waiting", outcome |-> "none"]),
             calls' = [calls EXCEPT ![c] = [q EXCEPT !.answer = "ok", !.id = Len(outreach) + 1]]
      PROVE  DraftInv'
  <2> DEFINE r == [person |-> q.person, state |-> "waiting", outcome |-> "none"]
  <2>1. q.person \in People /\ AllFit(q.runs, outreach)
    BY <1>1, <1>2 DEF CallFits
  <2>2. r \in OutreachRow
    BY <2>1 DEF OutreachRow, DraftStates, Outcomes
  <2>3. outreach' = Append(outreach, r)
    BY <1>2
  <2>4. PICK n : n = [q EXCEPT !.answer = "ok", !.id = Len(outreach) + 1]
    OBVIOUS
  <2>5. Len(outreach) \in Nat /\ calls' = [calls EXCEPT ![c] = n]
    BY <1>1, <1>2, <2>4
  <2>6. r.person = q.person
    OBVIOUS
  <2>7. /\ n \in DraftCall /\ n.kind = "generate" /\ n.person = q.person
        /\ n.id = Len(outreach) + 1 /\ n.runs = q.runs
    <3>1. PICK m : m = [q EXCEPT !.answer = "ok"]
      OBVIOUS
    <3>2. n = [m EXCEPT !.id = Len(outreach) + 1]
      BY <2>4, <3>1
    <3>3. m \in DraftCall /\ m.kind = "generate" /\ m.person = q.person /\ m.runs = q.runs
      BY <1>1, <1>2, <3>1 DEF DraftCall
    <3> QED BY <2>5, <3>2, <3>3 DEF DraftCall
  <2> HIDE DEF r
  <2>8. /\ outreach' \in Seq(OutreachRow) /\ Len(outreach') = Len(outreach) + 1 /\ outreach'[Len(outreach) + 1] = r
        /\ \A i \in 1..Len(outreach) : outreach'[i] = outreach[i]
    BY <1>1, <2>2, <2>3, AppendProperties
  <2>9. Later(outreach, outreach')
    BY <2>5, <2>8 DEF Later
  <2>10. AllFit(n.runs, outreach')
    BY <2>1, <2>7, <2>9, FitsLater
  <2>11. CallFits(n, outreach')
    BY <2>1, <2>5, <2>6, <2>7, <2>8, <2>10 DEF CallFits
  <2> QED BY <1>1, <2>5, <2>7, <2>8, <2>9, <2>11, Serving
<1>3. ASSUME NEW a \in {"ok", "no"}, calls' = [calls EXCEPT ![c].answer = a], outreach' \in Seq(OutreachRow),
             Later(outreach, outreach'), q.kind # "idle", a = "ok" => q.kind # "generate",
             a = "ok" /\ q.kind = "approve" => outreach'[q.id].state \in {"approved", "sent"},
             a = "ok" /\ q.kind = "send" => outreach'[q.id].state = "sent"
      PROVE  DraftInv'
  <2>1. PICK n : n = [q EXCEPT !.answer = a]
    OBVIOUS
  <2>2. CallFits(q, outreach') /\ calls' = [calls EXCEPT ![c] = n]
    BY <1>1, <1>3, <2>1, CallFitsLater
  <2>4. n \in DraftCall /\ n.kind = q.kind /\ n.person = q.person /\ n.id = q.id /\ n.runs = q.runs /\ n.answer = a
    BY <1>1, <2>1 DEF DraftCall
  <2>3. CallFits(n, outreach')
    BY <1>3, <2>2, <2>4 DEF CallFits
  <2> QED BY <1>1, <1>3, <2>2, <2>3, <2>4, Serving
<1>4. ASSUME q.kind \in {"approve", "send", "outcome"}
      PROVE  q.id \in 1..Len(outreach) /\ outreach[q.id] \in OutreachRow
  BY <1>1, <1>4, OfFits
<1>5. CASE /\ q.kind = "approve" /\ outreach[q.id].state # "sent"
           /\ outreach' = [outreach EXCEPT ![q.id].state = "approved"] /\ calls' = [calls EXCEPT ![c].answer = "ok"]
  <2>1. PICK r : r = [outreach[q.id] EXCEPT !.state = "approved"]
    OBVIOUS
  <2>2. r \in OutreachRow /\ r.person = outreach[q.id].person /\ r.state = "approved"
    BY <1>4, <1>5, <2>1 DEF OutreachRow, DraftStates
  <2>3. outreach' = [outreach EXCEPT ![q.id] = r]
    BY <1>5, <2>1
  <2>4. outreach' \in Seq(OutreachRow) /\ outreach'[q.id] = r /\ Later(outreach, outreach')
    BY <1>1, <1>4, <1>5, <2>2, <2>3, Forward
  <2> QED BY <1>3, <1>5, <2>2, <2>4
<1>6. CASE /\ q.kind = "send" /\ outreach[q.id].state = "approved"
           /\ outreach' = [outreach EXCEPT ![q.id].state = "sent"] /\ calls' = [calls EXCEPT ![c].answer = "ok"]
  <2>1. PICK r : r = [outreach[q.id] EXCEPT !.state = "sent"]
    OBVIOUS
  <2>2. r \in OutreachRow /\ r.person = outreach[q.id].person /\ r.state = "sent"
    BY <1>4, <1>6, <2>1 DEF OutreachRow, DraftStates
  <2>3. outreach' = [outreach EXCEPT ![q.id] = r]
    BY <1>6, <2>1
  <2>4. outreach' \in Seq(OutreachRow) /\ outreach'[q.id] = r /\ Later(outreach, outreach')
    BY <1>1, <1>4, <1>6, <2>2, <2>3, Forward
  <2> QED BY <1>3, <1>6, <2>2, <2>4
<1>7. CASE /\ q.kind = "outcome" /\ outreach' = [outreach EXCEPT ![q.id].outcome = "replied"]
           /\ calls' = [calls EXCEPT ![c].answer = "ok"]
  <2>1. PICK r : r = [outreach[q.id] EXCEPT !.outcome = "replied"]
    OBVIOUS
  <2>2. r \in OutreachRow /\ r.person = outreach[q.id].person /\ r.state = outreach[q.id].state
    BY <1>4, <1>7, <2>1 DEF OutreachRow, Outcomes
  <2>3. outreach' = [outreach EXCEPT ![q.id] = r]
    BY <1>7, <2>1
  <2>4. outreach' \in Seq(OutreachRow) /\ outreach'[q.id] = r /\ Later(outreach, outreach')
    BY <1>1, <1>4, <1>7, <2>2, <2>3, Forward
  <2> QED BY <1>3, <1>7, <2>4
<1>8. CASE q # Pmf!Idle /\ q.answer = "none" /\ calls' = [calls EXCEPT ![c].answer = "no"] /\ outreach' = outreach
  <2>1. Later(outreach, outreach')
    BY <1>1, <1>8, LenProperties DEF Later
  <2>2. CASE q.kind = "idle"
    <3>1. PICK n : n = [q EXCEPT !.answer = "no"]
      OBVIOUS
    <3>2. n \in DraftCall /\ n.kind = "idle"
      BY <1>1, <2>2, <3>1 DEF DraftCall
    <3>3. calls' = [calls EXCEPT ![c] = n] /\ CallFits(n, outreach')
      BY <1>8, <3>1, <3>2 DEF CallFits
    <3> QED BY <1>1, <1>8, <2>1, <3>2, <3>3, Serving
  <2>3. CASE q.kind # "idle"
    BY <1>1, <1>3, <1>8, <2>1, <2>3
  <2> QED BY <2>2, <2>3
<1> QED BY <1>2, <1>5, <1>6, <1>7, <1>8 DEF Pmf!Serve

LEMMA GenerateAnswersKeeps == ASSUME DraftInv, NEW c \in DraftCalls, Pmf!GenerateAnswers(c) PROVE DraftInv'
<1>1. CallFits(calls[c], outreach) /\ calls[c].kind = "generate" /\ outreach \in Seq(OutreachRow)
  BY DEF DraftInv, Pmf!GenerateAnswers
<1>2. AllFit(calls[c].runs, outreach) /\ calls[c].person \in People
  BY <1>1 DEF CallFits
<1> DEFINE d == IF calls[c].answer = "ok" THEN Pmf!Draft(calls[c].id) ELSE [Pmf!None EXCEPT !.state = "waiting"]
<1>3. d \in PageDraft /\ Fits(d, calls[c].person, outreach)
  <2>1. CASE calls[c].answer = "ok"
    <3>1. calls[c].id \in 1..Len(outreach) /\ outreach[calls[c].id].person = calls[c].person
      BY <1>1, <2>1 DEF CallFits
    <3>2. outreach[calls[c].id] \in OutreachRow
      BY <1>1, <3>1
    <3>3. d = [id |-> calls[c].id, state |-> outreach[calls[c].id].state, outcome |-> outreach[calls[c].id].outcome]
      BY <2>1 DEF Pmf!Draft
    <3> HIDE DEF d
    <3> QED BY <3>1, <3>2, <3>3 DEF PageDraft, Fits, OutreachRow
  <2>2. CASE calls[c].answer # "ok"
    BY <2>2 DEF Pmf!None, PageDraft, Fits, DraftStates, Outcomes
  <2> QED BY <2>1, <2>2
<1>4. shown' = [calls[c].runs EXCEPT ![calls[c].person] = d]
  BY DEF Pmf!GenerateAnswers
<1> HIDE DEF d
<1>5. AllFit(shown', outreach)
  BY <1>2, <1>3, <1>4, Writing
<1> QED BY <1>5, Answering DEF Pmf!GenerateAnswers

LEMMA DraftSteps == DraftInv /\ [Pmf!Next]_draftVars => DraftInv'
<1> SUFFICES ASSUME DraftInv, [Pmf!Next]_draftVars PROVE DraftInv'
  OBVIOUS
<1>1. ASSUME Pmf!loadPmf PROVE DraftInv'
  <2>1. AllFit(Pmf!Queue, outreach)
    BY QueueFits DEF DraftInv
  <2> QED BY <1>1, <2>1 DEF DraftInv, Pmf!loadPmf
<1>2. ASSUME NEW p \in People, Pmf!editDraft(p) PROVE DraftInv'
  <2>1. PICK d : d = [shown[p] EXCEPT !.state = "edited"]
    OBVIOUS
  <2>2. shown' = [shown EXCEPT ![p] = d] /\ outreach' = outreach /\ calls' = calls
    BY <1>2, <2>1 DEF Pmf!editDraft
  <2>3. shown[p] \in PageDraft /\ Fits(shown[p], p, outreach)
    BY DEF DraftInv, AllFit
  <2>4. d \in PageDraft /\ d.id = shown[p].id /\ d.state = "edited"
    BY <2>1, <2>3 DEF PageDraft, DraftStates
  <2>5. Fits(d, p, outreach)
    BY <2>3, <2>4 DEF Fits
  <2>6. AllFit(shown', outreach)
    BY <2>2, <2>4, <2>5, Writing DEF DraftInv
  <2> QED BY <2>2, <2>6 DEF DraftInv
<1>3. ASSUME NEW c \in DraftCalls, Pmf!ApproveAnswers(c) PROVE DraftInv'
  <2>1. calls[c].kind = "approve"
    BY <1>3 DEF Pmf!ApproveAnswers, Pmf!Answers
  <2>2. PICK d : d = [Pmf!Of(c) EXCEPT !.state = "approved"]
    OBVIOUS
  <2>3. Pmf!Of(c) \in PageDraft /\ Fits(Pmf!Of(c), calls[c].person, outreach) /\ Pmf!Of(c).id = calls[c].id
        /\ calls[c].id \in 1..Len(outreach)
    BY <2>1, OfFits
  <2>4. d \in PageDraft /\ d.id = calls[c].id /\ d.state = "approved"
    BY <2>2, <2>3 DEF PageDraft, DraftStates
  <2>5. calls[c].answer = "ok" => outreach[calls[c].id].state \in {"approved", "sent"}
    BY <2>1 DEF DraftInv, CallFits
  <2>6. calls[c].answer = "ok" => Fits(d, calls[c].person, outreach)
    BY <2>3, <2>4, <2>5 DEF Fits
  <2>7. Pmf!Answers(c, "approve", d)
    BY <1>3, <2>2 DEF Pmf!ApproveAnswers
  <2> QED BY <2>4, <2>6, <2>7, Marked
<1>4. ASSUME NEW c \in DraftCalls, Pmf!SendAnswers(c) PROVE DraftInv'
  <2>1. calls[c].kind = "send"
    BY <1>4 DEF Pmf!SendAnswers, Pmf!Answers
  <2>2. PICK d : d = [Pmf!Of(c) EXCEPT !.state = "sent"]
    OBVIOUS
  <2>3. Pmf!Of(c) \in PageDraft /\ Fits(Pmf!Of(c), calls[c].person, outreach) /\ Pmf!Of(c).id = calls[c].id
        /\ calls[c].id \in 1..Len(outreach)
    BY <2>1, OfFits
  <2>4. d \in PageDraft /\ d.id = calls[c].id /\ d.state = "sent"
    BY <2>2, <2>3 DEF PageDraft, DraftStates
  <2>5. calls[c].answer = "ok" => outreach[calls[c].id].state = "sent"
    BY <2>1 DEF DraftInv, CallFits
  <2>6. calls[c].answer = "ok" => Fits(d, calls[c].person, outreach)
    BY <2>3, <2>4, <2>5 DEF Fits
  <2>7. Pmf!Answers(c, "send", d)
    BY <1>4, <2>2 DEF Pmf!SendAnswers
  <2> QED BY <2>4, <2>6, <2>7, Marked
<1>5. ASSUME NEW c \in DraftCalls, Pmf!TagAnswers(c) PROVE DraftInv'
  <2>1. calls[c].kind = "outcome"
    BY <1>5 DEF Pmf!TagAnswers, Pmf!Answers
  <2>2. PICK d : d = [Pmf!Of(c) EXCEPT !.outcome = "replied"]
    OBVIOUS
  <2>3. Pmf!Of(c) \in PageDraft /\ Fits(Pmf!Of(c), calls[c].person, outreach)
    BY <2>1, OfFits
  <2>4. d \in PageDraft /\ d.id = Pmf!Of(c).id /\ d.state = Pmf!Of(c).state
    BY <2>2, <2>3 DEF PageDraft, Outcomes
  <2>5. Fits(d, calls[c].person, outreach)
    BY <2>3, <2>4 DEF Fits
  <2>6. Pmf!Answers(c, "outcome", d)
    BY <1>5, <2>2 DEF Pmf!TagAnswers
  <2> QED BY <2>4, <2>5, <2>6, Marked
<1>6. ASSUME NEW c \in DraftCalls, NEW p \in People, Pmf!Generate(c, p) \/ Pmf!Approve(c, p) \/ Pmf!Send(c, p) \/ Pmf!Tag(c, p)
      PROVE  DraftInv'
  BY <1>6, Calling DEF Pmf!Generate, Pmf!Approve, Pmf!Send, Pmf!Tag
<1>7. CASE UNCHANGED draftVars
  BY <1>7 DEF DraftInv, draftVars
<1> QED BY <1>1, <1>2, <1>3, <1>4, <1>5, <1>6, <1>7, ServeKeeps, GenerateAnswersKeeps DEF Pmf!Next

LEMMA DraftStarts == Pmf!Init => DraftInv
<1> SUFFICES ASSUME Pmf!Init PROVE DraftInv
  OBVIOUS
<1>1. outreach = <<>> /\ outreach \in Seq(OutreachRow)
  BY DEF Pmf!Init
<1>2. Pmf!None \in PageDraft /\ \A p \in People : Fits(Pmf!None, p, outreach)
  BY <1>1 DEF Pmf!None, PageDraft, Fits, DraftStates, Outcomes
<1>3. Pmf!Idle \in DraftCall /\ CallFits(Pmf!Idle, outreach)
  BY DEF Pmf!Idle, DraftCall, CallFits
<1> QED BY <1>1, <1>2, <1>3 DEF DraftInv, AllFit, Pmf!Init
LEMMA QueueIs == DraftInv => Pmf!PageIsNotAhead
BY DEF DraftInv, AllFit, Fits, Pmf!PageIsNotAhead

(* The queue never shows a draft as further along than its row, nor one of     *)
(* another person, whatever calls answer in whatever order (approveDraft,      *)
(* sendDraft, onStale of PMF.tsx).                                             *)
THEOREM QueueIsNotAhead == Pmf!Init /\ [][Pmf!Next]_draftVars => []Pmf!PageIsNotAhead
BY DraftStarts, QueueIs, DraftSteps, PTL

-----------------------------------------------------------------------------
(* A page that follows the server.  A closed page has nothing under way; only  *)
(* the mounting request of a poller does not trigger; what is known was true   *)
(* of the server once; a first load of the panel is of the person shown.       *)
LiveTick == [trigger : BOOLEAN, mount : BOOLEAN, v : Nat]
LiveLoad == [subject : Watched, refresh : BOOLEAN, attempt : Nat, v : Nat]
LiveTypes ==
  /\ version \in 1..MaxVersion /\ hidden \in BOOLEAN /\ subject \in Watched \cup {"none"}
  /\ known \in 0..version /\ first \in Nat /\ newest \in Nat /\ timers \in {0, 1} /\ spinning \in BOOLEAN
  /\ ticks \subseteq LiveTick /\ loads \subseteq LiveLoad
TicksFit ==
  /\ \A k \in ticks : (k.trigger <=> ~k.mount) /\ (k.v = Live!Failed \/ k.v <= version)
  /\ known = 0 => first = 0
ClosedIsQuiet == subject = "none" => ticks = {} /\ loads = {}
PanelLoads == kind = "panel" => \A l \in loads : ~l.refresh => l.subject = subject
LiveInv ==
  /\ LiveTypes /\ TicksFit /\ ClosedIsQuiet /\ PanelLoads
  /\ Live!OneInterval /\ Live!PanelIsOfThePerson /\ Live!NoticedIsAsked /\ Live!SpinnerIsForALoad

LEMMA ALoadIs == \A s \in Watched, r \in BOOLEAN : Live!ALoad(s, r) \in LiveLoad /\ Live!ALoad(s, r).v = 0
                    /\ Live!ALoad(s, r).subject = s /\ Live!ALoad(s, r).refresh = r
BY DEF Live!ALoad, LiveLoad
LEMMA TickIs == \A t, m \in BOOLEAN : Live!Tick(t, m) \in LiveTick /\ Live!Tick(t, m).v = 0
                   /\ Live!Tick(t, m).trigger = t /\ Live!Tick(t, m).mount = m
BY DEF Live!Tick, LiveTick

LEMMA MountKeeps == ASSUME LiveInv, NEW s \in Watched, Live!Mount(s) PROVE LiveInv'
<1>1. /\ subject' = s /\ loads' = {Live!ALoad(s, FALSE)} /\ data' = Live!NoData /\ spinning' = TRUE /\ newest' = 0
      /\ known' = 0 /\ first' = 0 /\ timers' = 0 /\ ticks' = (IF hidden THEN {} ELSE {Live!Tick(FALSE, TRUE)})
      /\ kind' = kind /\ version' = version /\ hidden' = hidden
  BY DEF Live!Mount
<1>2. version \in 1..MaxVersion /\ hidden \in BOOLEAN
  BY DEF LiveInv, LiveTypes
<1>3. \A k \in ticks' : k \in LiveTick /\ k.v = 0 /\ k.trigger = FALSE /\ k.mount = TRUE
  BY <1>1, TickIs
<1>4. \A l \in loads' : l \in LiveLoad /\ l.v = 0 /\ l.subject = s /\ l.refresh = FALSE
  BY <1>1, ALoadIs
<1>5. hidden' = FALSE => \E k \in ticks' : k.mount = TRUE
  BY <1>1, TickIs
<1>6. version' \in 1..MaxVersion /\ known' \in 0..version'
  BY <1>1, <1>2, LiveAssumption
<1>7. LiveTypes'
  BY <1>1, <1>2, <1>3, <1>4, <1>6 DEF LiveTypes
<1>8. TicksFit'
  <2>1. \A k \in ticks' : k.v <= version'
    BY <1>3, <1>6, LiveAssumption
  <2> QED BY <1>1, <1>3, <2>1 DEF TicksFit
<1>9. s # "none"
  BY LiveAssumption
<1>10. ClosedIsQuiet' /\ PanelLoads'
  BY <1>1, <1>4, <1>9 DEF ClosedIsQuiet, PanelLoads
<1>11. Live!OneInterval'
  <2>1. hidden' \in BOOLEAN /\ timers' = 0 /\ 0 <= 1
    BY <1>1, <1>2
  <2>2. hidden' = FALSE => ~(\A k \in ticks' : ~k.mount)
    BY <1>5
  <2> QED BY <2>1, <2>2 DEF Live!OneInterval
<1>12. Live!PanelIsOfThePerson'
  BY <1>1 DEF Live!PanelIsOfThePerson, Live!NoData
<1>13. Live!NoticedIsAsked' /\ Live!SpinnerIsForALoad'
  BY <1>1, ALoadIs DEF Live!NoticedIsAsked, Live!SpinnerIsForALoad
<1> QED BY <1>7, <1>8, <1>10, <1>11, <1>12, <1>13 DEF LiveInv

LEMMA UnmountKeeps == ASSUME LiveInv, Live!Unmount PROVE LiveInv'
<1>1. /\ subject' = "none" /\ loads' = {} /\ data' = Live!NoData /\ spinning' = FALSE /\ newest' = 0
      /\ known' = 0 /\ first' = 0 /\ timers' = Live!stop(timers) /\ ticks' = {}
      /\ kind' = kind /\ version' = version /\ hidden' = hidden
  BY DEF Live!Unmount
<1>2. version \in 1..MaxVersion /\ hidden \in BOOLEAN /\ timers \in {0, 1}
  BY DEF LiveInv, LiveTypes
<1>3. timers' = 0
  BY <1>1, <1>2 DEF Live!stop
<1>4. version' \in 1..MaxVersion /\ known' \in 0..version'
  BY <1>1, <1>2, LiveAssumption
<1>5. LiveTypes'
  BY <1>1, <1>2, <1>3, <1>4 DEF LiveTypes
<1>6. TicksFit' /\ ClosedIsQuiet' /\ PanelLoads'
  BY <1>1 DEF TicksFit, ClosedIsQuiet, PanelLoads
<1>7. Live!OneInterval' /\ Live!PanelIsOfThePerson' /\ Live!NoticedIsAsked' /\ Live!SpinnerIsForALoad'
  BY <1>1, <1>3 DEF Live!OneInterval, Live!PanelIsOfThePerson, Live!NoticedIsAsked, Live!SpinnerIsForALoad,
     Live!Open, Live!NoData
<1> QED BY <1>5, <1>6, <1>7 DEF LiveInv

(* What the invariant says of the requests depends on little.                  *)
LEMMA TicksLast ==
  ASSUME LiveInv, version' = version, known' = known, first' = first,
         \A k \in ticks' : k \in ticks \/ k = Live!Tick(TRUE, FALSE)
  PROVE  (\A k \in ticks' : k \in LiveTick) /\ TicksFit'
<1>1. /\ version \in 1..MaxVersion /\ \A k \in ticks : k \in LiveTick
      /\ \A k \in ticks : (k.trigger <=> ~k.mount) /\ (k.v = Live!Failed \/ k.v <= version)
      /\ known = 0 => first = 0
  BY DEF LiveInv, LiveTypes, TicksFit
<1>2. \A k \in ticks' : k \in LiveTick /\ (k.trigger <=> ~k.mount)
  BY <1>1, TickIs
<1>3. 0 <= version
  BY <1>1, LiveAssumption
<1>4. \A k \in ticks' : k.v = Live!Failed \/ k.v <= version
  BY <1>1, <1>3, TickIs
<1> QED BY <1>1, <1>2, <1>4 DEF TicksFit, Live!Failed

LEMMA VisibilityKeeps == ASSUME LiveInv, Live!handleVisibility PROVE LiveInv'
<1>1. /\ hidden' = ~hidden /\ kind' = kind /\ version' = version /\ subject' = subject /\ loads' = loads
      /\ data' = data /\ spinning' = spinning /\ newest' = newest /\ known' = known /\ first' = first
  BY DEF Live!handleVisibility, Live!page, Live!stamps
<1>2. hidden \in BOOLEAN /\ timers \in {0, 1} /\ hidden' \in BOOLEAN
  BY <1>1 DEF LiveInv, LiveTypes
<1>3. /\ subject = "none" => timers' = timers /\ ticks' = ticks
      /\ subject # "none" /\ hidden' = TRUE => timers' = 0 /\ ticks' = ticks
      /\ subject # "none" /\ hidden' = FALSE => timers' = Live!start(timers, FALSE) /\ ticks' = ticks \cup {Live!Tick(TRUE, FALSE)}
  <2>1. IF subject = "none" THEN UNCHANGED <<timers, ticks>>
        ELSE IF hidden' THEN timers' = Live!stop(timers) /\ UNCHANGED ticks
        ELSE timers' = Live!start(timers, FALSE) /\ ticks' = ticks \cup {Live!Tick(TRUE, FALSE)}
    BY Zenon DEF Live!handleVisibility, Live!Open
  <2>2. Live!stop(timers) = 0
    BY <1>2 DEF Live!stop
  <2> QED BY <1>2, <2>1, <2>2
<1>4. timers' \in {0, 1} /\ (subject # "none" /\ hidden' = FALSE => timers' = 1)
  <2>1. Live!start(timers, FALSE) = 1
    BY <1>2 DEF Live!start
  <2> QED BY <1>2, <1>3, <2>1
<1>5. subject = "none" => timers = 0
  BY DEF LiveInv, Live!OneInterval, Live!Open
<1>6. \A k \in ticks' : k \in ticks \/ k = Live!Tick(TRUE, FALSE)
  BY <1>2, <1>3
<1>7. (\A k \in ticks' : k \in LiveTick) /\ TicksFit'
  BY <1>1, <1>6, TicksLast
<1>8. LiveTypes'
  BY <1>1, <1>2, <1>4, <1>7 DEF LiveInv, LiveTypes
<1>9. ClosedIsQuiet' /\ PanelLoads'
  BY <1>1, <1>3 DEF LiveInv, ClosedIsQuiet, PanelLoads
<1>10. Live!OneInterval'
  BY <1>1, <1>2, <1>3, <1>4, <1>5 DEF Live!OneInterval, Live!Open
<1>11. Live!PanelIsOfThePerson' /\ Live!NoticedIsAsked' /\ Live!SpinnerIsForALoad'
  BY <1>1 DEF LiveInv, Live!PanelIsOfThePerson, Live!NoticedIsAsked, Live!SpinnerIsForALoad, Live!Open
<1> QED BY <1>7, <1>8, <1>9, <1>10, <1>11 DEF LiveInv

LEMMA FireKeeps == ASSUME LiveInv, Live!Fire PROVE LiveInv'
<1>1. /\ ticks' = ticks \cup {Live!Tick(TRUE, FALSE)} /\ timers > 0
      /\ hidden' = hidden /\ kind' = kind /\ version' = version /\ subject' = subject /\ loads' = loads
      /\ data' = data /\ spinning' = spinning /\ newest' = newest /\ known' = known /\ first' = first /\ timers' = timers
  BY DEF Live!Fire, Live!page, Live!stamps
<1>2. subject # "none"
  <2>1. subject = "none" => timers = 0
    BY DEF LiveInv, Live!OneInterval, Live!Open
  <2> QED BY <1>1, <2>1
<1>3. \A k \in ticks' : k \in ticks \/ k = Live!Tick(TRUE, FALSE)
  BY <1>1
<1>4. (\A k \in ticks' : k \in LiveTick) /\ TicksFit'
  BY <1>1, <1>3, TicksLast
<1>5. LiveTypes'
  BY <1>1, <1>4 DEF LiveInv, LiveTypes
<1>6. ClosedIsQuiet' /\ PanelLoads'
  BY <1>1, <1>2 DEF LiveInv, ClosedIsQuiet, PanelLoads
<1>7. Live!OneInterval'
  BY <1>1 DEF LiveInv, Live!OneInterval, Live!Open
<1>8. Live!PanelIsOfThePerson' /\ Live!NoticedIsAsked' /\ Live!SpinnerIsForALoad'
  BY <1>1 DEF LiveInv, Live!PanelIsOfThePerson, Live!NoticedIsAsked, Live!SpinnerIsForALoad, Live!Open
<1> QED BY <1>4, <1>5, <1>6, <1>7, <1>8 DEF LiveInv

(* A request answered, or lost: one of the same kind with its outcome.         *)
LEMMA AnsweredKeeps ==
  ASSUME LiveInv, NEW k \in ticks, NEW v \in {version, Live!Failed}, ticks' = (ticks \ {k}) \cup {[k EXCEPT !.v = v]},
         hidden' = hidden, kind' = kind, version' = version, subject' = subject, loads' = loads, data' = data,
         spinning' = spinning, newest' = newest, known' = known, first' = first, timers' = timers
  PROVE  LiveInv'
<1>1. /\ version \in 1..MaxVersion /\ k \in LiveTick /\ \A t \in ticks : t \in LiveTick
      /\ \A t \in ticks : (t.trigger <=> ~t.mount) /\ (t.v = Live!Failed \/ t.v <= version)
      /\ known = 0 => first = 0
  BY DEF LiveInv, LiveTypes, TicksFit
<1>2. v \in Nat /\ (v = Live!Failed \/ v <= version)
  BY <1>1, LiveAssumption DEF Live!Failed
<1>3. PICK a : a = [k EXCEPT !.v = v]
  OBVIOUS
<1>4. a \in LiveTick /\ a.trigger = k.trigger /\ a.mount = k.mount /\ a.v = v
  BY <1>1, <1>2, <1>3 DEF LiveTick
<1>5. \A t \in ticks' : t \in ticks \/ t = a
  BY <1>3
<1>6. TicksFit'
  BY SMTT(60), <1>1, <1>2, <1>4, <1>5 DEF TicksFit, Live!Failed
<1>7. \A t \in ticks' : t \in LiveTick
  BY <1>1, <1>4, <1>5
<1>8. LiveTypes'
  BY <1>7 DEF LiveInv, LiveTypes
<1>9. subject # "none"
  BY DEF LiveInv, ClosedIsQuiet
<1>10. ClosedIsQuiet' /\ PanelLoads'
  BY <1>9 DEF LiveInv, ClosedIsQuiet, PanelLoads
<1>11. (\A t \in ticks' : ~t.mount) => \A t \in ticks : ~t.mount
  BY <1>3, <1>4
<1>12. Live!OneInterval'
  BY <1>11 DEF LiveInv, Live!OneInterval, Live!Open
<1>13. Live!PanelIsOfThePerson' /\ Live!NoticedIsAsked' /\ Live!SpinnerIsForALoad'
  BY DEF LiveInv, Live!PanelIsOfThePerson, Live!NoticedIsAsked, Live!SpinnerIsForALoad, Live!Open
<1> QED BY <1>6, <1>8, <1>10, <1>12, <1>13 DEF LiveInv

LEMMA TickKeeps == ASSUME LiveInv, NEW k \in ticks, Live!tick(k) PROVE LiveInv'
<1>1. /\ k.v # 0 /\ ticks' = ticks \ {k} /\ timers' = (IF k.mount THEN Live!start(timers, hidden) ELSE timers)
      /\ known' = (IF k.v = Live!Failed THEN known ELSE k.v)
      /\ first' = (IF first = 0 \/ \E t \in ticks : t.mount THEN known' ELSE first)
      /\ loads' = (IF k.v # Live!Failed /\ k.trigger /\ known \notin {0, k.v}
                   THEN loads \cup {Live!ALoad(subject, TRUE)} ELSE loads)
      /\ hidden' = hidden /\ kind' = kind /\ version' = version /\ subject' = subject /\ data' = data
      /\ spinning' = spinning /\ newest' = newest
  BY Zenon DEF Live!tick
<1>2. /\ version \in 1..MaxVersion /\ k \in LiveTick /\ \A t \in ticks : t \in LiveTick
      /\ \A t \in ticks : (t.trigger <=> ~t.mount) /\ (t.v = Live!Failed \/ t.v <= version)
      /\ (known = 0 => first = 0) /\ known \in 0..version /\ first \in Nat /\ newest \in Nat
      /\ hidden \in BOOLEAN /\ timers \in {0, 1} /\ subject \in Watched \cup {"none"} /\ spinning \in BOOLEAN
      /\ \A l \in loads : l \in LiveLoad
  BY DEF LiveInv, LiveTypes, TicksFit
<1>3. subject # "none" /\ subject \in Watched
  BY <1>2 DEF LiveInv, ClosedIsQuiet
<1>4. version \in Nat /\ k.v \in Nat /\ (k.v = Live!Failed \/ k.v <= version) /\ k.mount \in BOOLEAN /\ k.trigger \in BOOLEAN
  BY <1>2, LiveAssumption DEF LiveTick
<1>5. known' \in 0..version /\ (known' = 0 => known = 0)
  BY <1>1, <1>2, <1>4
<1>6. first' \in Nat /\ (known' = 0 => first' = 0)
  BY <1>1, <1>2, <1>4, <1>5
<1>7. TicksFit'
  BY <1>1, <1>2, <1>6 DEF TicksFit, Live!Failed
<1>8. \A l \in loads' : l \in loads \/ l = Live!ALoad(subject, TRUE)
  BY <1>1
<1>9. \A l \in loads : l \in loads'
  BY <1>1
<1>10. \A l \in loads' : l \in LiveLoad
  BY <1>2, <1>3, <1>8, ALoadIs
<1>11. (hidden = TRUE => timers = 0) /\ (hidden = FALSE /\ (\A t \in ticks : ~t.mount) => timers = 1)
  BY <1>2, <1>3 DEF LiveInv, Live!OneInterval, Live!Open
<1>12. /\ hidden = TRUE => Live!start(timers, hidden) = timers
       /\ hidden = FALSE => Live!start(timers, hidden) = 1
  BY <1>2 DEF Live!start
<1>13. timers' \in {0, 1} /\ (hidden = TRUE => timers' = 0)
  BY <1>1, <1>2, <1>4, <1>11, <1>12
<1>14. hidden = FALSE /\ (\A t \in ticks' : ~t.mount) => timers' = 1
  <2>1. CASE k.mount = TRUE
    BY <1>1, <1>12, <2>1
  <2>2. CASE k.mount = FALSE
    <3>1. (\A t \in ticks' : ~t.mount) => \A t \in ticks : ~t.mount
      BY <1>1, <2>2
    <3> QED BY <1>1, <1>11, <2>2, <3>1
  <2> QED BY <1>4, <2>1, <2>2
<1>15. Live!OneInterval'
  BY <1>1, <1>2, <1>3, <1>13, <1>14 DEF Live!OneInterval, Live!Open
<1>16. LiveTypes'
  BY <1>1, <1>2, <1>5, <1>6, <1>10, <1>13 DEF LiveTypes
<1>17. ClosedIsQuiet' /\ PanelLoads'
  BY <1>1, <1>2, <1>3, <1>8, ALoadIs DEF LiveInv, ClosedIsQuiet, PanelLoads
<1>18. Live!NoticedIsAsked'
  <2>1. known # first => newest >= known \/ \E l \in loads : l.v = 0
    BY <1>3 DEF LiveInv, Live!NoticedIsAsked, Live!Open
  <2>2. CASE first = 0 \/ \E t \in ticks : t.mount
    BY <1>1, <2>2 DEF Live!NoticedIsAsked
  <2>3. CASE ~(first = 0 \/ \E t \in ticks : t.mount)
    <3>1. first' = first /\ first # 0 /\ known # 0
      BY <1>1, <1>2, <2>3
    <3>2. k.mount = FALSE /\ k.trigger = TRUE
      BY <1>2, <1>4, <2>3
    <3>3. CASE known' = known
      BY <1>1, <1>9, <2>1, <3>1, <3>3 DEF Live!NoticedIsAsked
    <3>4. CASE known' # known
      <4>1. Live!ALoad(subject, TRUE) \in loads'
        BY <1>1, <3>1, <3>2, <3>4
      <4> QED BY <1>3, <4>1, ALoadIs DEF Live!NoticedIsAsked
    <3> QED BY <3>3, <3>4
  <2> QED BY <2>2, <2>3
<1>19. Live!PanelIsOfThePerson' /\ Live!SpinnerIsForALoad'
  BY <1>1, <1>9 DEF LiveInv, Live!PanelIsOfThePerson, Live!SpinnerIsForALoad
<1> QED BY <1>7, <1>15, <1>16, <1>17, <1>18, <1>19 DEF LiveInv

(* Where only the loads and what they paint change.                            *)
LEMMA LoadsKeep ==
  ASSUME LiveInv, hidden' = hidden, kind' = kind, version' = version, known' = known, first' = first, timers' = timers,
         ticks' = ticks, subject' \in Watched, subject # "none", newest' \in Nat, spinning' \in BOOLEAN,
         \A l \in loads' : l \in LiveLoad, PanelLoads', Live!PanelIsOfThePerson', Live!NoticedIsAsked',
         Live!SpinnerIsForALoad'
  PROVE  LiveInv'
<1>1. subject' # "none"
  BY LiveAssumption
<1>2. LiveTypes'
  BY DEF LiveInv, LiveTypes
<1>3. TicksFit'
  BY DEF LiveInv, TicksFit, Live!Failed
<1>4. ClosedIsQuiet' /\ Live!OneInterval'
  BY <1>1 DEF LiveInv, ClosedIsQuiet, Live!OneInterval, Live!Open
<1> QED BY <1>2, <1>3, <1>4 DEF LiveInv

LEMMA ChooseKeeps == ASSUME LiveInv, NEW s \in Watched, Live!Choose(s) PROVE LiveInv'
<1>1. /\ subject # "none" /\ subject' = s /\ loads' = Live!Kept(loads) \cup {Live!ALoad(s, FALSE)}
      /\ data' = (IF kind = "panel" THEN Live!NoData ELSE data)
      /\ spinning' = (IF kind = "panel" THEN TRUE ELSE spinning)
      /\ hidden' = hidden /\ kind' = kind /\ version' = version /\ newest' = newest /\ known' = known /\ first' = first
      /\ timers' = timers /\ ticks' = ticks
  BY Zenon DEF Live!Choose, Live!Open, Live!stamps
<1>2. \A l \in loads : l \in LiveLoad
  BY DEF LiveInv, LiveTypes
<1>3. \A l \in Live!Kept(loads) : l \in loads /\ (kind = "panel" => l.refresh)
  BY DEF Live!Kept
<1>4. \A l \in loads' : l \in LiveLoad
  BY <1>1, <1>2, <1>3, ALoadIs
<1>5. PanelLoads'
  BY <1>1, <1>3, ALoadIs DEF PanelLoads
<1>6. Live!PanelIsOfThePerson'
  BY <1>1 DEF Live!PanelIsOfThePerson, Live!NoData
<1>7. Live!NoticedIsAsked' /\ Live!SpinnerIsForALoad'
  BY <1>1, ALoadIs DEF Live!NoticedIsAsked, Live!SpinnerIsForALoad
<1>8. newest' \in Nat /\ spinning' \in BOOLEAN
  BY <1>1 DEF LiveInv, LiveTypes
<1> QED BY <1>1, <1>4, <1>5, <1>6, <1>7, <1>8, LoadsKeep

(* What the invariant says of a load under way.                                *)
LEMMA LoadIs ==
  ASSUME LiveInv, NEW l \in loads
  PROVE  /\ l \in LiveLoad /\ l.subject \in Watched /\ l.refresh \in BOOLEAN /\ l.attempt \in Nat /\ l.v \in Nat
         /\ subject # "none" /\ subject \in Watched /\ spinning \in BOOLEAN /\ newest \in Nat
         /\ kind = "panel" /\ ~l.refresh => l.subject = subject
<1>1. l \in LiveLoad /\ subject # "none"
  BY DEF LiveInv, LiveTypes, ClosedIsQuiet
<1> QED BY <1>1 DEF LiveInv, LiveTypes, LiveLoad, PanelLoads

LEMMA LoadReadKeeps == ASSUME LiveInv, NEW l \in loads, Live!LoadRead(l) PROVE LiveInv'
<1>1. PICK v \in {version, Live!Failed} : loads' = (loads \ {l}) \cup {[l EXCEPT !.v = v]}
  BY DEF Live!LoadRead
<1>2. /\ newest' = (IF version > newest THEN version ELSE newest)
      /\ hidden' = hidden /\ kind' = kind /\ version' = version /\ known' = known /\ first' = first
      /\ timers' = timers /\ ticks' = ticks /\ subject' = subject /\ data' = data /\ spinning' = spinning
  BY DEF Live!LoadRead, Live!stamps
<1>3. PICK a : a = [l EXCEPT !.v = v]
  OBVIOUS
<1>4. version \in Nat /\ known \in 0..version /\ v \in Nat
  BY LiveAssumption DEF LiveInv, LiveTypes, Live!Failed
<1>5. a \in LiveLoad /\ a.subject = l.subject /\ a.refresh = l.refresh
  BY <1>3, <1>4, LoadIs DEF LiveLoad
<1>6. \A m \in loads' : m \in loads \/ m = a
  BY <1>1, <1>3
<1>7. \A m \in loads' : m \in LiveLoad
  BY <1>5, <1>6 DEF LiveInv, LiveTypes
<1>8. PanelLoads'
  BY <1>2, <1>5, <1>6, LoadIs DEF LiveInv, PanelLoads
<1>9. newest' \in Nat /\ newest' >= known'
  BY <1>2, <1>4, LoadIs
<1>10. Live!PanelIsOfThePerson' /\ Live!NoticedIsAsked'
  BY <1>2, <1>9 DEF LiveInv, Live!PanelIsOfThePerson, Live!NoticedIsAsked
<1>11. (\E m \in loads : ~m.refresh) => \E m \in loads' : ~m.refresh
  BY <1>1, <1>3, <1>5
<1>12. Live!SpinnerIsForALoad'
  BY <1>2, <1>11 DEF LiveInv, Live!SpinnerIsForALoad
<1> QED BY <1>2, <1>7, <1>8, <1>9, <1>10, <1>12, LoadIs, LoadsKeep

LEMMA AgainIs ==
  ASSUME NEW l \in LiveLoad
  PROVE  Live!Again(l) \in LiveLoad /\ Live!Again(l).subject = l.subject /\ Live!Again(l).refresh = l.refresh
<1>1. PICK a : a = Live!ALoad(l.subject, l.refresh)
  OBVIOUS
<1>2. a \in LiveLoad /\ a.subject = l.subject /\ a.refresh = l.refresh /\ l.attempt + 1 \in Nat
  BY <1>1, ALoadIs DEF LiveLoad
<1>3. Live!Again(l) = [a EXCEPT !.attempt = l.attempt + 1]
  BY <1>1 DEF Live!Again
<1> QED BY <1>2, <1>3 DEF LiveLoad

LEMMA LoadFailsKeeps == ASSUME LiveInv, NEW l \in loads, Live!LoadFails(l) PROVE LiveInv'
<1>1. /\ l.v = Live!Failed
      /\ IF kind = "wbr" /\ l.attempt < 2
         THEN loads' = (loads \ {l}) \cup {Live!Again(l)} /\ spinning' = spinning
         ELSE loads' = loads \ {l} /\ spinning' = (spinning /\ l.refresh)
      /\ hidden' = hidden /\ kind' = kind /\ version' = version /\ known' = known /\ first' = first
      /\ timers' = timers /\ ticks' = ticks /\ subject' = subject /\ data' = data /\ newest' = newest
  BY Zenon DEF Live!LoadFails, Live!stamps
<1>2. \A m \in loads : m \in LiveLoad
  BY DEF LiveInv, LiveTypes
<1>3. Live!Again(l) \in LiveLoad /\ Live!Again(l).subject = l.subject /\ Live!Again(l).refresh = l.refresh
  BY <1>2, AgainIs
<1>4. \A m \in loads' : m \in loads \/ m = Live!Again(l)
  BY <1>1
<1>5. \A m \in loads' : m \in LiveLoad
  BY <1>2, <1>3, <1>4
<1>6. PanelLoads'
  BY <1>1, <1>3, <1>4, LoadIs DEF LiveInv, PanelLoads
<1>7. l.v # 0
  BY <1>1, LiveAssumption DEF Live!Failed
<1>8. (\E m \in loads : m.v = 0) => \E m \in loads' : m.v = 0
  BY <1>1, <1>7
<1>9. Live!PanelIsOfThePerson' /\ Live!NoticedIsAsked'
  BY <1>1, <1>8 DEF LiveInv, Live!PanelIsOfThePerson, Live!NoticedIsAsked, Live!Open
<1>10. spinning' \in BOOLEAN
  BY <1>1, LoadIs
<1>11. Live!SpinnerIsForALoad'
  <2>1. spinning => \E m \in loads : ~m.refresh
    BY DEF LiveInv, Live!SpinnerIsForALoad
  <2>2. CASE kind = "wbr" /\ l.attempt < 2
    <3>1. (\E m \in loads : ~m.refresh) => \E m \in loads' : ~m.refresh
      BY <1>1, <1>3, <2>2
    <3> QED BY <1>1, <2>1, <2>2, <3>1 DEF Live!SpinnerIsForALoad
  <2>3. CASE ~(kind = "wbr" /\ l.attempt < 2)
    <3>1. loads' = loads \ {l} /\ spinning' = (spinning /\ l.refresh)
      BY <1>1, <2>3
    <3> QED BY <2>1, <3>1 DEF Live!SpinnerIsForALoad
  <2> QED BY <2>2, <2>3
<1> QED BY <1>1, <1>5, <1>6, <1>9, <1>10, <1>11, LoadIs, LoadsKeep

LEMMA LoadAnswersKeeps == ASSUME LiveInv, NEW l \in loads, Live!LoadAnswers(l) PROVE LiveInv'
<1>1. /\ l.v # 0 /\ data' = [subject |-> l.subject, refresh |-> l.refresh, v |-> l.v]
      /\ loads' = (loads \ {l}) \cup (IF kind = "calendar" THEN {Live!ALoad(subject, FALSE)} ELSE {})
      /\ spinning' = (spinning /\ l.refresh /\ kind # "panel")
      /\ hidden' = hidden /\ kind' = kind /\ version' = version /\ known' = known /\ first' = first
      /\ timers' = timers /\ ticks' = ticks /\ subject' = subject /\ newest' = newest
  BY DEF Live!LoadAnswers, Live!stamps
<1>2. \A m \in loads : m \in LiveLoad
  BY DEF LiveInv, LiveTypes
<1>3. subject \in Watched
  BY LoadIs
<1>4. \A m \in loads' : m \in loads \/ m = Live!ALoad(subject, FALSE)
  BY <1>1
<1>5. \A m \in loads' : m \in LiveLoad
  BY <1>2, <1>3, <1>4, ALoadIs
<1>6. PanelLoads'
  BY <1>1, <1>3, <1>4, ALoadIs DEF LiveInv, PanelLoads
<1>7. (\E m \in loads : m.v = 0) => \E m \in loads' : m.v = 0
  BY <1>1
<1>8. Live!NoticedIsAsked'
  BY <1>1, <1>7 DEF LiveInv, Live!NoticedIsAsked, Live!Open
<1>9. Live!PanelIsOfThePerson'
  BY <1>1, LoadIs DEF Live!PanelIsOfThePerson
<1>10. spinning' \in BOOLEAN
  BY <1>1
<1>11. Live!SpinnerIsForALoad'
  BY <1>1 DEF LiveInv, Live!SpinnerIsForALoad
<1> QED BY <1>1, <1>5, <1>6, <1>8, <1>9, <1>10, <1>11, LoadIs, LoadsKeep

LEMMA ServerChangeKeeps == ASSUME LiveInv, Live!ServerChange PROVE LiveInv'
<1>1. /\ version < MaxVersion /\ version' = version + 1
      /\ hidden' = hidden /\ kind' = kind /\ subject' = subject /\ loads' = loads /\ data' = data /\ timers' = timers
      /\ spinning' = spinning /\ newest' = newest /\ known' = known /\ first' = first /\ ticks' = ticks
  BY DEF Live!ServerChange, Live!page, Live!stamps
<1>2. version \in 1..MaxVersion /\ known \in 0..version /\ \A k \in ticks : k \in LiveTick
  BY DEF LiveInv, LiveTypes
<1>3. version' \in 1..MaxVersion /\ known' \in 0..version'
  BY <1>1, <1>2, LiveAssumption
<1>4. LiveTypes'
  BY <1>1, <1>3 DEF LiveInv, LiveTypes
<1>5. \A k \in ticks : k.v \in Nat
  BY <1>2 DEF LiveTick
<1>6. \A k \in ticks : k.v <= version => k.v <= version'
  BY <1>1, <1>2, <1>5, LiveAssumption
<1>7. TicksFit'
  BY <1>1, <1>6 DEF LiveInv, TicksFit, Live!Failed
<1> QED BY <1>1, <1>4, <1>7 DEF LiveInv, ClosedIsQuiet, PanelLoads, Live!OneInterval, Live!PanelIsOfThePerson,
        Live!NoticedIsAsked, Live!SpinnerIsForALoad, Live!Open

LEMMA LiveSteps == LiveInv /\ [Live!Next]_liveVars => LiveInv'
<1> SUFFICES ASSUME LiveInv, [Live!Next]_liveVars PROVE LiveInv'
  OBVIOUS
<1>1. ASSUME NEW s \in Watched, Live!Mount(s) \/ Live!Choose(s) PROVE LiveInv'
  BY <1>1, MountKeeps, ChooseKeeps
<1>2. ASSUME Live!Unmount \/ Live!handleVisibility \/ Live!Fire \/ Live!ServerChange PROVE LiveInv'
  BY <1>2, UnmountKeeps, VisibilityKeeps, FireKeeps, ServerChangeKeeps
<1>3. ASSUME NEW k \in ticks, Live!TickRead(k) PROVE LiveInv'
  BY <1>3, AnsweredKeeps DEF Live!TickRead, Live!page, Live!stamps
<1>4. ASSUME NEW k \in ticks, Live!TickFails(k) PROVE LiveInv'
  BY <1>4, AnsweredKeeps DEF Live!TickFails, Live!page, Live!stamps
<1>5. ASSUME NEW k \in ticks, Live!tick(k) PROVE LiveInv'
  BY <1>5, TickKeeps
<1>6. ASSUME NEW l \in loads, Live!LoadRead(l) \/ Live!LoadFails(l) \/ Live!LoadAnswers(l) PROVE LiveInv'
  BY <1>6, LoadReadKeeps, LoadFailsKeeps, LoadAnswersKeeps
<1>7. ASSUME UNCHANGED liveVars PROVE LiveInv'
  BY <1>7 DEF liveVars, LiveInv, LiveTypes, TicksFit, ClosedIsQuiet, PanelLoads, Live!OneInterval,
     Live!PanelIsOfThePerson, Live!NoticedIsAsked, Live!SpinnerIsForALoad, Live!Open, Live!Failed
<1> QED BY <1>1, <1>2, <1>3, <1>4, <1>5, <1>6, <1>7
        DEF Live!Next, Live!TickServed, Live!Ticked, Live!LoadServed, Live!Loaded

LEMMA LiveStarts == Live!Init => LiveInv
<1> SUFFICES ASSUME Live!Init PROVE LiveInv
  OBVIOUS
<1>1. /\ version = 1 /\ hidden = FALSE /\ subject = "none" /\ loads = {} /\ data = Live!NoData /\ spinning = FALSE
      /\ known = 0 /\ first = 0 /\ timers = 0 /\ ticks = {} /\ newest = 0
  BY DEF Live!Init
<1>2. version \in 1..MaxVersion /\ known \in 0..version
  BY <1>1, LiveAssumption
<1>3. LiveTypes
  BY <1>1, <1>2 DEF LiveTypes
<1>4. TicksFit /\ ClosedIsQuiet /\ PanelLoads
  BY <1>1 DEF TicksFit, ClosedIsQuiet, PanelLoads
<1>5. Live!OneInterval /\ Live!PanelIsOfThePerson /\ Live!NoticedIsAsked /\ Live!SpinnerIsForALoad
  BY <1>1 DEF Live!OneInterval, Live!PanelIsOfThePerson, Live!NoticedIsAsked, Live!SpinnerIsForALoad, Live!Open, Live!NoData
<1> QED BY <1>3, <1>4, <1>5 DEF LiveInv

LivePageHolds ==
  Live!OneInterval /\ Live!PanelIsOfThePerson /\ Live!NoticedIsAsked /\ Live!SpinnerIsForALoad
LEMMA LiveIs == LiveInv => LivePageHolds
BY DEF LiveInv, LivePageHolds

(* An open page has one interval and shows no stranger in its panel; a change  *)
(* it noticed is asked for, and a spinner has its load (freshness-poll.ts,     *)
(* PersonPanel.tsx).                                                           *)
THEOREM PageFollowsServer == Live!Init /\ [][Live!Next]_liveVars => []LivePageHolds
BY LiveIs, LiveStarts, LiveSteps, PTL

-----------------------------------------------------------------------------
(* The Day module's celebrations.  Whatever is kept of a milestone is one of   *)
(* its keys or none, and what was celebrated under a profile is in the         *)
(* browser's list, which no later celebration makes shorter.                   *)
Milestone == MilestoneKeys \cup {"none"}
TabFits(p) ==
  /\ p = [shown |-> p.shown, celebrated |-> p.celebrated, claimed |-> p.claimed, known |-> p.known,
          profile |-> p.profile, overview |-> p.overview, snap |-> p.snap, cities |-> p.cities, keys |-> p.keys,
          milestone |-> p.milestone]
  /\ p.overview.milestone \in Milestone /\ p.milestone \in Milestone
DayLoadFits(a) ==
  /\ a = [pc |-> a.pc, profile |-> a.profile, got |-> a.got, overview |-> a.overview, saw |-> a.saw]
  /\ a.overview.milestone \in Milestone
DayTypes ==
  /\ overview.milestone \in Milestone /\ fired \in [MilestoneKeys -> Nat]
  /\ local = [shown |-> local.shown, celebrated |-> local.celebrated]
  /\ tab = [t \in Tabs |-> tab[t]] /\ loading = [t \in Tabs |-> [l \in Loads |-> loading[t][l]]]
  /\ \A t \in Tabs : TabFits(tab[t]) /\ \A l \in Loads : DayLoadFits(loading[t][l])
CelebratedIsKept == ~blind => \A k \in MilestoneKeys : fired[k] = 0 \/ (fired[k] = 1 /\ k \in local.celebrated)
DayInv == DayTypes /\ CelebratedIsKept

LEMMA PaintKeeps ==
  ASSUME DayInv, NEW t \in Tabs, NEW was, NEW p, NEW moved, TabFits(p), Day!paint(t, was, p, moved),
         blind' = (blind \/ (~p.known /\ fired' # fired)), p.known => local.celebrated \subseteq p.celebrated
  PROVE  /\ tab' = [u \in Tabs |-> tab'[u]] /\ \A u \in Tabs : TabFits(tab'[u])
         /\ fired' \in [MilestoneKeys -> Nat] /\ local' = [shown |-> local'.shown, celebrated |-> local'.celebrated]
         /\ CelebratedIsKept'
<1> DEFINE cities == Day!citiesOf(p.overview)
           keys == Day!resolveShownKeys(p.shown, cities)
           ref == IF p.shown = Day!Unset THEN keys ELSE p.shown
           skipped == was.snap /\ ~moved /\ keys = was.keys
           q == IF skipped THEN [p EXCEPT !.shown = ref]
                ELSE [p EXCEPT !.shown = ref, !.snap = TRUE, !.cities = cities, !.keys = keys,
                               !.milestone = p.overview.milestone]
           moment == q.milestone
           fires == moment # was.milestone /\ moment \notin q.claimed /\ Day!shouldFireCelebration(moment, q.celebrated)
           painted == IF fires THEN [q EXCEPT !.claimed = @ \cup {moment}, !.celebrated = @ \cup {moment}] ELSE q
<1>1. /\ tab' = [tab EXCEPT ![t] = painted]
      /\ fired' = (IF fires THEN [fired EXCEPT ![moment] = @ + 1] ELSE fired)
      /\ local' = (IF fires THEN [local EXCEPT !.celebrated = tab'[t].celebrated] ELSE local)
  BY Zenon DEF Day!paint
<1>2. TabFits(q) /\ q.celebrated = p.celebrated
  <2> HIDE DEF ref, keys, cities, skipped
  <2>1. TabFits([p EXCEPT !.shown = ref]) /\ [p EXCEPT !.shown = ref].celebrated = p.celebrated
    BY DEF TabFits
  <2>2. PICK b : b = [p EXCEPT !.shown = ref, !.snap = TRUE, !.cities = cities, !.keys = keys,
                               !.milestone = p.overview.milestone]
    OBVIOUS
  <2>3. b = [shown |-> ref, celebrated |-> p.celebrated, claimed |-> p.claimed, known |-> p.known,
             profile |-> p.profile, overview |-> p.overview, snap |-> TRUE, cities |-> cities, keys |-> keys,
             milestone |-> p.overview.milestone]
    BY <2>2 DEF TabFits
  <2>4. TabFits(b) /\ b.celebrated = p.celebrated
    BY <2>3 DEF TabFits
  <2> QED BY <2>1, <2>2, <2>4
<1>3. fires => moment \in MilestoneKeys /\ moment \notin q.celebrated
  BY <1>2 DEF Day!shouldFireCelebration, TabFits, Milestone
<1> HIDE DEF fires, q
<1>4. TabFits(painted) /\ (fires => painted.celebrated = q.celebrated \cup {moment})
  BY <1>2 DEF TabFits
<1> HIDE DEF painted
<1>5. tab' = [u \in Tabs |-> tab'[u]] /\ tab'[t] = painted /\ \A u \in Tabs : u # t => tab'[u] = tab[u]
  BY <1>1 DEF DayInv, DayTypes
<1>6. \A u \in Tabs : TabFits(tab'[u])
  BY <1>4, <1>5 DEF DayInv, DayTypes
<1>7. CASE ~fires
  BY <1>1, <1>5, <1>6, <1>7 DEF DayInv, DayTypes, CelebratedIsKept
<1>8. CASE fires
  <2>1. /\ fired' = [fired EXCEPT ![moment] = @ + 1] /\ local' = [local EXCEPT !.celebrated = q.celebrated \cup {moment}]
        /\ moment \in MilestoneKeys /\ moment \notin q.celebrated
    BY <1>1, <1>3, <1>4, <1>5, <1>8
  <2> HIDE DEF moment
  <2>2. fired \in [MilestoneKeys -> Nat] /\ local = [shown |-> local.shown, celebrated |-> local.celebrated]
    BY DEF DayInv, DayTypes
  <2>3. local'.celebrated = q.celebrated \cup {moment} /\ local' = [shown |-> local'.shown, celebrated |-> local'.celebrated]
    BY <2>1, <2>2
  <2>4. /\ fired' \in [MilestoneKeys -> Nat] /\ fired'[moment] = fired[moment] + 1
        /\ \A k \in MilestoneKeys : k # moment => fired'[k] = fired[k]
    BY <2>1, <2>2
  <2>5. fired' # fired
    <3>1. fired[moment] \in Nat /\ fired[moment] + 1 # fired[moment]
      BY <2>1, <2>2
    <3> QED BY <2>4, <3>1
  <2>6. ~blind' => ~blind /\ local.celebrated \subseteq q.celebrated
    BY <1>2, <2>5
  <2>7. ~blind' => \A k \in MilestoneKeys : fired'[k] = 0 \/ (fired'[k] = 1 /\ k \in local'.celebrated)
    <3> SUFFICES ASSUME ~blind', NEW k \in MilestoneKeys
                 PROVE  fired'[k] = 0 \/ (fired'[k] = 1 /\ k \in local'.celebrated)
      OBVIOUS
    <3>1. fired[k] = 0 \/ (fired[k] = 1 /\ k \in local.celebrated)
      BY <2>6 DEF DayInv, CelebratedIsKept
    <3>2. CASE k = moment
      <4>1. fired[moment] = 0
        BY <2>1, <2>6, <3>1, <3>2
      <4> QED BY <2>3, <2>4, <3>2, <4>1
    <3>3. CASE k # moment
      BY <2>3, <2>4, <2>6, <3>1, <3>3
    <3> QED BY <3>2, <3>3
  <2> QED BY <1>5, <1>6, <2>3, <2>4, <2>7 DEF CelebratedIsKept
<1> QED BY <1>7, <1>8

(* A load takes a step, and its tab with it or not.                            *)
LEMMA LoadingFits ==
  ASSUME DayTypes, NEW t \in Tabs, NEW l \in Loads, NEW a, DayLoadFits(a), loading' = [loading EXCEPT ![t][l] = a]
  PROVE  /\ loading' = [u \in Tabs |-> [m \in Loads |-> loading'[u][m]]]
         /\ \A u \in Tabs, m \in Loads : DayLoadFits(loading'[u][m])
<1>1. loading = [u \in Tabs |-> [m \in Loads |-> loading[u][m]]] /\ \A u \in Tabs, m \in Loads : DayLoadFits(loading[u][m])
  BY DEF DayTypes
<1> HIDE DEF DayLoadFits
<1>2. PICK b : b = [loading[t] EXCEPT ![l] = a]
  OBVIOUS
<1>3. b = [m \in Loads |-> IF m = l THEN a ELSE loading[t][m]]
  BY <1>1, <1>2
<1>4. loading' = [u \in Tabs |-> IF u = t THEN b ELSE [m \in Loads |-> loading[u][m]]]
  BY <1>1, <1>2
<1>5. \A u \in Tabs, m \in Loads : loading'[u][m] = (IF u = t /\ m = l THEN a ELSE loading[u][m])
  BY <1>3, <1>4
<1>6. loading' = [u \in Tabs |-> [m \in Loads |-> loading'[u][m]]]
  <2>1. \A u \in Tabs : loading'[u] = [m \in Loads |-> loading'[u][m]]
    BY <1>3, <1>4
  <2>2. DOMAIN loading' = Tabs /\ loading' = [u \in Tabs |-> loading'[u]]
    BY <1>4
  <2> QED BY <2>1, <2>2
<1> QED BY <1>1, <1>5, <1>6

LEMMA QuietFits == DayLoadFits(Day!Quiet) /\ TabFits(Day!Mounted)
BY DEF DayLoadFits, TabFits, Day!Quiet, Day!Mounted, Day!NoOverview, Milestone

LEMMA FetchKeeps == ASSUME DayInv, NEW t \in Tabs, NEW l \in Loads, Day!Fetch(t, l) PROVE DayInv'
<1>1. PICK a : a = [loading[t][l] EXCEPT !.pc = "asked"]
  OBVIOUS
<1>2. DayLoadFits(a)
  <2>1. DayLoadFits(loading[t][l])
    BY DEF DayInv, DayTypes
  <2>2. PICK x : x = loading[t][l]
    OBVIOUS
  <2>3. a = [pc |-> "asked", profile |-> x.profile, got |-> x.got, overview |-> x.overview, saw |-> x.saw]
    BY <1>1, <2>1, <2>2 DEF DayLoadFits
  <2> QED BY <2>1, <2>2, <2>3 DEF DayLoadFits
<1>3. loading' = [loading EXCEPT ![t][l] = a]
  BY <1>1 DEF Day!Fetch
<1>4. UNCHANGED <<overview, local, tab, fired, blind>>
  BY DEF Day!Fetch
<1> HIDE DEF DayLoadFits, TabFits
<1> QED BY <1>2, <1>3, <1>4, LoadingFits DEF DayInv, DayTypes, CelebratedIsKept

LEMMA AnswerKeeps ==
  ASSUME DayInv, NEW t \in Tabs, NEW l \in Loads, NEW got \in BOOLEAN, NEW saw \in BOOLEAN, Day!Answer(t, l, got, saw)
  PROVE  DayInv'
<1>1. PICK a : a = [pc |-> "answered", got |-> got, saw |-> saw, profile |-> IF got THEN prefs ELSE Day!NoPrefs,
                    overview |-> IF saw THEN overview ELSE Day!NoOverview]
  OBVIOUS
<1>2. DayLoadFits(a)
  BY <1>1 DEF DayInv, DayTypes, DayLoadFits, Day!NoOverview, Milestone
<1>3. loading' = [loading EXCEPT ![t][l] = a]
  BY <1>1 DEF Day!Answer
<1>4. UNCHANGED <<overview, local, tab, fired, blind>>
  BY DEF Day!Answer
<1> HIDE DEF DayLoadFits, TabFits
<1> QED BY <1>2, <1>3, <1>4, LoadingFits DEF DayInv, DayTypes, CelebratedIsKept

LEMMA RejectedKeeps == ASSUME DayInv, NEW t \in Tabs, NEW l \in Loads, Day!Rejected(t, l) PROVE DayInv'
<1>1. loading' = [loading EXCEPT ![t][l] = Day!Quiet] /\ UNCHANGED <<overview, local, tab, fired, blind>>
  BY DEF Day!Rejected
<1> QED BY <1>1, QuietFits, LoadingFits DEF DayInv, DayTypes, CelebratedIsKept

LEMMA Informed ==
  ASSUME NEW p, TabFits(p), NEW x, NEW y, NEW z
  PROVE  [p EXCEPT !.profile = x, !.known = y, !.overview = z] =
           [shown |-> p.shown, celebrated |-> p.celebrated, claimed |-> p.claimed, known |-> y, profile |-> x,
            overview |-> z, snap |-> p.snap, cities |-> p.cities, keys |-> p.keys, milestone |-> p.milestone]
<1>1. PICK b : b = [p EXCEPT !.profile = x, !.known = y, !.overview = z]
  OBVIOUS
<1>2. b = [shown |-> p.shown, celebrated |-> p.celebrated, claimed |-> p.claimed, known |-> y, profile |-> x,
           overview |-> z, snap |-> p.snap, cities |-> p.cities, keys |-> p.keys, milestone |-> p.milestone]
  BY <1>1 DEF TabFits
<1> QED BY <1>1, <1>2

LEMMA DayLoadKeeps ==
  ASSUME DayInv, NEW t \in Tabs, NEW l \in Loads, NEW moved \in BOOLEAN, Day!load(t, l, moved) PROVE DayInv'
<1> DEFINE a == loading[t][l]
           p == [tab[t] EXCEPT !.profile = IF a.got THEN a.profile ELSE @, !.known = a.got \/ @,
                               !.overview = IF a.saw THEN a.overview ELSE @]
           taken == IF p.known THEN Day!TakeProfile(p, local) ELSE p
<1>1. /\ Day!paint(t, tab[t], taken, moved) /\ loading' = [loading EXCEPT ![t][l] = Day!Quiet]
      /\ blind' = (blind \/ (~p.known /\ fired' # fired)) /\ overview' = overview
  BY Zenon DEF Day!load
<1>2. TabFits(tab[t]) /\ DayLoadFits(a)
  BY DEF DayInv, DayTypes
<1>3. TabFits(p)
  <2>1. PICK x : x = (IF a.got THEN a.profile ELSE tab[t].profile)
    OBVIOUS
  <2>2. PICK z : z = (IF a.saw THEN a.overview ELSE tab[t].overview)
    OBVIOUS
  <2>3. PICK y : y = (a.got \/ tab[t].known)
    OBVIOUS
  <2>4. p = [shown |-> tab[t].shown, celebrated |-> tab[t].celebrated, claimed |-> tab[t].claimed,
             known |-> y, profile |-> x, overview |-> z, snap |-> tab[t].snap,
             cities |-> tab[t].cities, keys |-> tab[t].keys, milestone |-> tab[t].milestone]
    <3>1. p = [tab[t] EXCEPT !.profile = x, !.known = y, !.overview = z]
      BY Zenon, <2>1, <2>2, <2>3
    <3> HIDE DEF p
    <3> QED BY ZenonT(120), <1>2, <3>1, Informed
  <2>5. z.milestone \in Milestone
    BY <1>2, <2>2 DEF TabFits, DayLoadFits
  <2> HIDE DEF p, a
  <2> QED BY <1>2, <2>4, <2>5 DEF TabFits
<1> HIDE DEF p, a
<1>4. PICK s : s = (IF p.shown # Day!Unset THEN p.shown
                    ELSE IF p.profile.shown # Day!Unset THEN p.profile.shown ELSE local.shown)
  OBVIOUS
<1>5. PICK c : c = p.profile.celebrated \cup local.celebrated
  OBVIOUS
<1>6. Day!TakeProfile(p, local) = [p EXCEPT !.celebrated = c, !.shown = s]
  BY Zenon, <1>4, <1>5 DEF Day!TakeProfile
<1>7. Day!TakeProfile(p, local) =
        [shown |-> s, celebrated |-> c, claimed |-> p.claimed, known |-> p.known, profile |-> p.profile,
         overview |-> p.overview, snap |-> p.snap, cities |-> p.cities, keys |-> p.keys, milestone |-> p.milestone]
  BY <1>3, <1>6 DEF TabFits
<1>8. TabFits(Day!TakeProfile(p, local)) /\ Day!TakeProfile(p, local).celebrated = c /\ Day!TakeProfile(p, local).known = p.known
  BY <1>3, <1>7 DEF TabFits
<1>9. TabFits(taken) /\ taken.known = p.known /\ (taken.known => local.celebrated \subseteq taken.celebrated)
  <2> HIDE DEF TabFits
  <2>1. CASE p.known
    BY <1>5, <1>8, <2>1
  <2>2. CASE ~p.known
    BY <1>3, <2>2
  <2> QED BY <2>1, <2>2
<1> HIDE DEF taken, TabFits, DayLoadFits
<1>10. blind' = (blind \/ (~taken.known /\ fired' # fired))
  BY <1>1, <1>9
<1>11. /\ tab' = [u \in Tabs |-> tab'[u]] /\ \A u \in Tabs : TabFits(tab'[u])
       /\ fired' \in [MilestoneKeys -> Nat] /\ local' = [shown |-> local'.shown, celebrated |-> local'.celebrated]
       /\ CelebratedIsKept'
  BY <1>1, <1>9, <1>10, PaintKeeps
<1>12. /\ loading' = [u \in Tabs |-> [m \in Loads |-> loading'[u][m]]]
       /\ \A u \in Tabs, m \in Loads : DayLoadFits(loading'[u][m])
  BY <1>1, QuietFits, LoadingFits DEF DayInv
<1> QED BY <1>1, <1>11, <1>12 DEF DayInv, DayTypes

LEMMA ShownKeeps == ASSUME DayInv, NEW t \in Tabs, NEW next, Day!applyShown(t, next) PROVE DayInv'
<1> DEFINE p == tab[t]
           resolved == Day!resolveShownKeys(next, p.cities)
           q == [p EXCEPT !.shown = resolved, !.snap = TRUE, !.cities = Day!citiesOf(p.overview),
                          !.keys = Day!resolveShownKeys(resolved, Day!citiesOf(p.overview)),
                          !.milestone = p.overview.milestone]
<1>1. /\ tab' = [tab EXCEPT ![t] = q] /\ local' = [local EXCEPT !.shown = resolved]
      /\ UNCHANGED <<overview, loading, fired, blind>>
  BY Zenon DEF Day!applyShown
<1>2. TabFits(p)
  BY DEF DayInv, DayTypes
<1>3. PICK k : k = Day!resolveShownKeys(resolved, Day!citiesOf(p.overview))
  OBVIOUS
<1>4. PICK c : c = Day!citiesOf(p.overview)
  OBVIOUS
<1> HIDE DEF resolved, p
<1>5. PICK b : b = [p EXCEPT !.shown = resolved, !.snap = TRUE, !.cities = c, !.keys = k, !.milestone = p.overview.milestone]
  OBVIOUS
<1>6. b = [shown |-> resolved, celebrated |-> p.celebrated, claimed |-> p.claimed, known |-> p.known,
           profile |-> p.profile, overview |-> p.overview, snap |-> TRUE, cities |-> c, keys |-> k,
           milestone |-> p.overview.milestone]
  BY <1>2, <1>5 DEF TabFits
<1>7. q = b
  BY Zenon, <1>3, <1>4, <1>5
<1>8. TabFits(b)
  BY <1>2, <1>6 DEF TabFits
<1> HIDE DEF q, TabFits
<1>9. tab' = [u \in Tabs |-> tab'[u]] /\ \A u \in Tabs : TabFits(tab'[u])
  BY <1>1, <1>7, <1>8 DEF DayInv, DayTypes
<1>10. local' = [shown |-> local'.shown, celebrated |-> local'.celebrated] /\ local'.celebrated = local.celebrated
  BY <1>1 DEF DayInv, DayTypes
<1> QED BY <1>1, <1>9, <1>10 DEF DayInv, DayTypes, CelebratedIsKept

LEMMA ResetKeeps == ASSUME DayInv, NEW t \in Tabs, Day!Reset(t) PROVE DayInv'
<1>1. /\ tab' = [tab EXCEPT ![t] = Day!Mounted] /\ loading' = [loading EXCEPT ![t] = [l \in Loads |-> Day!Quiet]]
      /\ UNCHANGED <<overview, local, fired, blind>>
  BY DEF Day!Reset
<1>2. tab = [u \in Tabs |-> tab[u]] /\ loading = [u \in Tabs |-> [m \in Loads |-> loading[u][m]]]
  BY DEF DayInv, DayTypes
<1>3. \A u \in Tabs : TabFits(tab[u]) /\ \A m \in Loads : DayLoadFits(loading[u][m])
  BY DEF DayInv, DayTypes
<1> HIDE DEF TabFits, DayLoadFits
<1>4. tab' = [u \in Tabs |-> tab'[u]] /\ \A u \in Tabs : TabFits(tab'[u])
  BY <1>1, <1>2, <1>3, QuietFits
<1>5. loading' = [u \in Tabs |-> IF u = t THEN [l \in Loads |-> Day!Quiet] ELSE [m \in Loads |-> loading[u][m]]]
  BY <1>1, <1>2
<1>6. \A u \in Tabs, m \in Loads : loading'[u][m] = (IF u = t THEN Day!Quiet ELSE loading[u][m])
  BY <1>5
<1>7. loading' = [u \in Tabs |-> [m \in Loads |-> loading'[u][m]]]
  <2>1. \A u \in Tabs : loading'[u] = [m \in Loads |-> loading'[u][m]]
    BY <1>5
  <2> QED BY <1>5, <2>1
<1>8. \A u \in Tabs, m \in Loads : DayLoadFits(loading'[u][m])
  BY <1>3, <1>6, QuietFits
<1> QED BY <1>1, <1>4, <1>7, <1>8 DEF DayInv, DayTypes, CelebratedIsKept

LEMMA DaySteps == DayInv /\ [Day!Next]_dayVars => DayInv'
<1> SUFFICES ASSUME DayInv, [Day!Next]_dayVars PROVE DayInv'
  OBVIOUS
<1>1. ASSUME NEW t \in Tabs, Day!Reset(t) PROVE DayInv'
  BY <1>1, ResetKeeps
<1>2. ASSUME NEW t \in Tabs, NEW k \in Day!AllCities, Day!addCity(t, k) \/ Day!removeCity(t, k) PROVE DayInv'
  <2>1. PICK next : Day!applyShown(t, next)
    BY Zenon, <1>2 DEF Day!addCity, Day!removeCity
  <2> QED BY <2>1, ShownKeeps
<1>3. ASSUME NEW t \in Tabs, NEW l \in Loads, Day!Fetch(t, l) \/ Day!Rejected(t, l) PROVE DayInv'
  BY <1>3, FetchKeeps, RejectedKeeps
<1>4. ASSUME NEW t \in Tabs, NEW l \in Loads, NEW got \in BOOLEAN, NEW saw \in BOOLEAN, Day!Answer(t, l, got, saw)
      PROVE DayInv'
  BY <1>4, AnswerKeeps
<1>5. ASSUME NEW t \in Tabs, NEW l \in Loads, NEW moved \in BOOLEAN, Day!load(t, l, moved) PROVE DayInv'
  BY <1>5, DayLoadKeeps
<1>6. ASSUME NEW p \in patches, NEW stored \in BOOLEAN, Day!Patch(p, stored) PROVE DayInv'
  BY <1>6 DEF Day!Patch, DayInv, DayTypes, CelebratedIsKept
<1>7. ASSUME NEW c \in Rankings, NEW m \in MilestoneKeys \cup {"none"},
             Day!Change([users |-> TRUE, cities |-> c, milestone |-> m])
      PROVE DayInv'
  BY <1>7 DEF Day!Change, DayInv, DayTypes, CelebratedIsKept, Milestone
<1>8. ASSUME UNCHANGED dayVars PROVE DayInv'
  BY <1>8 DEF dayVars, DayInv, DayTypes, CelebratedIsKept
<1> QED BY <1>1, <1>2, <1>3, <1>4, <1>5, <1>6, <1>7, <1>8 DEF Day!Next

LEMMA DayStarts == Day!Init => DayInv
<1> SUFFICES ASSUME Day!Init PROVE DayInv
  OBVIOUS
<1>1. /\ overview \in {Day!NoOverview} \cup [users : {TRUE}, cities : Rankings, milestone : {"none"}]
      /\ local = Day!NoPrefs /\ tab = [t \in Tabs |-> Day!Mounted] /\ loading = [t \in Tabs |-> [l \in Loads |-> Day!Quiet]]
      /\ fired = [k \in MilestoneKeys |-> 0]
  BY DEF Day!Init
<1>2. overview.milestone \in Milestone
  <2>1. CASE overview = Day!NoOverview
    BY <2>1 DEF Day!NoOverview, Milestone
  <2>2. CASE overview \in [users : {TRUE}, cities : Rankings, milestone : {"none"}]
    BY <2>2 DEF Milestone
  <2> QED BY <1>1, <2>1, <2>2
<1>3. local = [shown |-> local.shown, celebrated |-> local.celebrated]
  BY <1>1 DEF Day!NoPrefs
<1> QED BY <1>1, <1>2, <1>3, QuietFits DEF DayInv, DayTypes, CelebratedIsKept

LEMMA DayIs == DayInv => Day!CelebratedOnce
<1> SUFFICES ASSUME DayInv, ~blind, NEW k \in MilestoneKeys PROVE fired[k] <= 1
  BY DEF Day!CelebratedOnce
<1>1. fired[k] = 0 \/ fired[k] = 1
  BY DEF DayInv, CelebratedIsKept
<1> QED BY <1>1

(* A milestone is celebrated once in a browser, over loads that fail or        *)
(* overtake each other, reloads and lost saves, unless a page without its      *)
(* profile did (shouldFireCelebration, claimedRef, localStorage).              *)
THEOREM MilestoneIsCelebratedOnce == Day!Init /\ [][Day!Next]_dayVars => []Day!CelebratedOnce
BY DayIs, DayStarts, DaySteps, PTL

-----------------------------------------------------------------------------
(* The lists of the Day module.  A list of cities has each once; one that was  *)
(* asked for is such a list or none, and what is resolved of it for some       *)
(* cities has only those, home first, and all of them that were asked for.     *)
Cities == Day!AllCities
CityList(s) == s \in Seq(Cities) /\ IsInjective(s)
Chosen(s) == s = Day!Unset \/ CityList(s)
Shows(keys, cities) ==
  /\ Range(keys) \subseteq Range(cities) /\ IsInjective(keys)
  /\ cities # <<>> => keys # <<>>
  /\ Day!HomeOf(cities) # <<>> => keys[1] \in Homes

LEMMA RangesAgree == \A s : Day!Range(s) = Range(s) /\ Day!IsInjective(s) = IsInjective(s)
BY DEF Day!Range, Range, Day!IsInjective, IsInjective

LEMMA CitiesAre ==
  /\ \A c \in Rankings \cup {DemoCast} : CityList(c)
  /\ \A s : CityList(s) => s # Day!Unset
<1>1. Cities = Range(DemoCast) \cup UNION {Range(c) : c \in Rankings}
  BY RangesAgree DEF Cities, Day!AllCities
<1>2. ASSUME NEW c \in Rankings \cup {DemoCast} PROVE CityList(c)
  <2>1. Range(c) \subseteq Cities
    BY <1>1
  <2>2. c \in Seq(Range(c)) /\ IsInjective(c)
    BY DayAssumption
  <2>3. c \in Seq(Cities)
    <3>1. Len(c) \in Nat /\ c \in [1..Len(c) -> Range(c)]
      BY <2>2, LenProperties
    <3>2. c \in [1..Len(c) -> Cities]
      BY <2>1, <3>1
    <3> QED BY <3>1, <3>2
  <2> QED BY <2>2, <2>3 DEF CityList
<1>3. "unset" \notin Cities
  BY <1>1, DayAssumption
<1>4. ASSUME NEW s, CityList(s), s = Day!Unset PROVE FALSE
  <2>1. s \in Seq(Cities) /\ Len(s) = 1 /\ s[1] = "unset"
    BY <1>4 DEF CityList, Day!Unset
  <2>2. 1 \in 1..Len(s)
    BY <2>1
  <2>3. s[1] \in Cities
    BY <2>1, <2>2, ElementOfSeq
  <2> QED BY <1>3, <2>1, <2>3
<1> QED BY <1>2, <1>4

LEMMA ListDomain ==
  ASSUME NEW s \in Seq(Cities)
  PROVE  /\ Len(s) \in Nat /\ DOMAIN s = 1..Len(s) /\ Range(s) = {s[i] : i \in 1..Len(s)}
         /\ \A i \in 1..Len(s) : s[i] \in Cities
         /\ s = <<>> <=> Len(s) = 0
         /\ s # <<>> => 1 \in 1..Len(s) /\ s[1] \in Range(s)
<1>1. Len(s) \in Nat /\ DOMAIN s = 1..Len(s)
  BY LenProperties
<1>2. Range(s) = {s[i] : i \in 1..Len(s)}
  BY <1>1 DEF Range
<1>3. \A i \in 1..Len(s) : s[i] \in Cities
  BY ElementOfSeq
<1>4. s # <<>> => Len(s) \in Nat \ {0}
  BY EmptySeq
<1>5. s = <<>> => Len(s) = 0
  BY EmptySeq
<1>6. s # <<>> => 1 \in 1..Len(s)
  BY <1>4
<1> QED BY <1>1, <1>2, <1>3, <1>4, <1>5, <1>6

LEMMA OnlyList ==
  ASSUME NEW s, CityList(s), NEW S
  PROVE  CityList(Day!Only(s, S)) /\ Range(Day!Only(s, S)) = Range(s) \cap S
<1>1. PICK c : c = Day!Only(s, S)
  OBVIOUS
<1>2. c \in Seq(Range(s) \cap S) /\ Range(c) = Range(s) \cap S /\ IsInjective(c)
  BY <1>1, OnlyGives DEF CityList
<1>3. Range(s) \subseteq Cities
  BY ListDomain DEF CityList
<1>4. Len(c) \in Nat /\ c \in [1..Len(c) -> Range(s) \cap S]
  BY <1>2, LenProperties
<1>5. c \in [1..Len(c) -> Cities]
  BY <1>3, <1>4
<1> QED BY <1>1, <1>2, <1>4, <1>5 DEF CityList

LEMMA JoinedIs ==
  ASSUME NEW a \in Seq(Cities), NEW b \in Seq(Cities)
  PROVE  /\ a \o b \in Seq(Cities) /\ Range(a \o b) = Range(a) \cup Range(b)
         /\ a \o b = <<>> <=> a = <<>> /\ b = <<>>
         /\ a # <<>> => (a \o b)[1] = a[1]
         /\ IsInjective(a) /\ IsInjective(b) /\ Range(a) \cap Range(b) = {} => IsInjective(a \o b)
<1>1. PICK c : c = a \o b
  OBVIOUS
<1>2. /\ c \in Seq(Cities) /\ Len(c) = Len(a) + Len(b)
      /\ \A i \in 1..Len(a) + Len(b) : c[i] = IF i <= Len(a) THEN a[i] ELSE b[i - Len(a)]
  BY <1>1, ConcatProperties
<1>3. PICK m : m = Len(a)
  OBVIOUS
<1>4. PICK n : n = Len(b)
  OBVIOUS
<1>5. m \in Nat /\ n \in Nat /\ Len(c) = m + n /\ DOMAIN a = 1..m /\ DOMAIN b = 1..n /\ DOMAIN c = 1..m + n
  BY <1>2, <1>3, <1>4, ListDomain
<1>6. \A i \in 1..m : i \in 1..m + n /\ c[i] = a[i]
  <2>1. \A i \in 1..m : i \in 1..m + n /\ i <= m
    BY <1>5
  <2> QED BY <1>2, <1>3, <1>4, <2>1
<1>7. \A i \in 1..n : m + i \in 1..m + n /\ c[m + i] = b[i]
  <2>1. \A i \in 1..n : m + i \in 1..m + n /\ ~(m + i <= m) /\ m + i - m = i
    BY <1>5
  <2> QED BY <1>2, <1>3, <1>4, <2>1
<1>8. \A i \in 1..m + n : i \in 1..m \/ \E j \in 1..n : i = m + j
  <2>1. \A i \in 1..m + n : i \in 1..m \/ (i - m \in 1..n /\ i = m + (i - m))
    BY <1>5
  <2> QED BY <2>1
<1>9. Range(c) = Range(a) \cup Range(b)
  <2>1. /\ Range(a) = {a[i] : i \in 1..m} /\ Range(b) = {b[i] : i \in 1..n}
        /\ Range(c) = {c[i] : i \in 1..m + n}
    BY <1>5 DEF Range
  <2>2. ASSUME NEW x \in Range(c) PROVE x \in Range(a) \cup Range(b)
    BY <1>6, <1>7, <1>8, <2>1
  <2>3. ASSUME NEW x \in Range(a) \cup Range(b) PROVE x \in Range(c)
    BY <1>6, <1>7, <2>1
  <2> QED BY <2>2, <2>3
<1>10. c = <<>> <=> a = <<>> /\ b = <<>>
  <2>1. (c = <<>> <=> m + n = 0) /\ (a = <<>> <=> m = 0) /\ (b = <<>> <=> n = 0)
    BY <1>2, <1>3, <1>4, <1>5, ListDomain
  <2> QED BY <1>5, <2>1
<1>11. a # <<>> => c[1] = a[1]
  BY <1>3, <1>6, ListDomain
<1>12. ASSUME IsInjective(a), IsInjective(b), Range(a) \cap Range(b) = {} PROVE IsInjective(c)
  <2> SUFFICES ASSUME NEW i \in 1..m + n, NEW j \in 1..m + n, c[i] = c[j] PROVE i = j
    BY <1>5 DEF IsInjective
  <2>1. \A k \in 1..m, l \in 1..n : a[k] # b[l]
    BY <1>5, <1>12 DEF Range
  <2>2. CASE i \in 1..m /\ j \in 1..m
    BY <1>5, <1>6, <1>12, <2>2 DEF IsInjective
  <2>3. CASE i \in 1..m /\ j \notin 1..m
    BY <1>6, <1>7, <1>8, <2>1, <2>3
  <2>4. CASE i \notin 1..m /\ j \in 1..m
    BY <1>6, <1>7, <1>8, <2>1, <2>4
  <2>5. CASE i \notin 1..m /\ j \notin 1..m
    <3>1. PICK k \in 1..n : i = m + k
      BY <1>8, <2>5
    <3>2. PICK l \in 1..n : j = m + l
      BY <1>8, <2>5
    <3>3. b[k] = b[l]
      BY <1>7, <3>1, <3>2
    <3> QED BY <1>5, <1>12, <3>1, <3>2, <3>3 DEF IsInjective
  <2> QED BY <2>2, <2>3, <2>4, <2>5
<1> QED BY <1>1, <1>2, <1>9, <1>10, <1>11, <1>12

LEMMA FirstIs ==
  ASSUME NEW s \in Seq(Cities)
  PROVE  /\ CityList(Day!First(s)) /\ Range(Day!First(s)) \subseteq Range(s)
         /\ Day!First(s) = <<>> <=> s = <<>>
         /\ s # <<>> => Day!First(s)[1] = s[1] /\ Range(Day!First(s)) = {s[1]}
<1>1. CASE s = <<>>
  <2>1. <<>> \in Seq(Cities) /\ IsInjective(<<>>) /\ Range(<<>>) = {}
    BY DEF IsInjective, Range
  <2>2. Day!First(s) = <<>>
    BY <1>1 DEF Day!First
  <2> QED BY <1>1, <2>1, <2>2 DEF CityList
<1>2. CASE s # <<>>
  <2>1. s[1] \in Cities /\ s[1] \in Range(s)
    BY <1>2, ListDomain
  <2>2. PICK x \in Cities : x = s[1]
    BY <2>1
  <2>3. PICK c : c = <<x>>
    OBVIOUS
  <2>4. c \in Seq(Cities) /\ Len(c) = 1 /\ c[1] = x /\ DOMAIN c = {1} /\ c # <<>>
    <3>1. c = [i \in 1..1 |-> x] /\ \A i \in 1..1 : i = 1
      BY <2>3
    <3> QED BY <2>2, <2>3, <3>1
  <2>5. IsInjective(c) /\ Range(c) = {x}
    BY <2>4 DEF IsInjective, Range
  <2>6. Day!First(s) = c
    BY <1>2, <2>2, <2>3 DEF Day!First
  <2> QED BY <1>2, <2>1, <2>2, <2>4, <2>5, <2>6 DEF CityList
<1> QED BY <1>1, <1>2

LEMMA PrefixIs ==
  ASSUME NEW s, CityList(s), NEW n, n = IF Len(s) < Day!DEFAULT_SHOWN THEN Len(s) ELSE Day!DEFAULT_SHOWN
  PROVE  /\ CityList(SubSeq(s, 1, n)) /\ Range(SubSeq(s, 1, n)) \subseteq Range(s)
         /\ s # <<>> => SubSeq(s, 1, n) # <<>> /\ SubSeq(s, 1, n)[1] = s[1]
<1>1. PICK m : m = Len(s)
  OBVIOUS
<1>2. s \in Seq(Cities) /\ m \in Nat /\ DOMAIN s = 1..m /\ \A i \in 1..m : s[i] \in Cities
  BY <1>1, ListDomain DEF CityList
<1>3. n \in Nat /\ n <= m /\ (m # 0 => n # 0)
  <2>1. n = (IF m < 3 THEN m ELSE 3)
    BY <1>1 DEF Day!DEFAULT_SHOWN
  <2>2. CASE m < 3
    BY <1>2, <2>1, <2>2
  <2>3. CASE ~(m < 3)
    BY <1>2, <2>1, <2>3
  <2> QED BY <2>2, <2>3
<1>4. PICK c : c = SubSeq(s, 1, n)
  OBVIOUS
<1>5. c \in Seq(Cities) /\ Len(c) = n /\ \A i \in 1..n : c[i] = s[i]
  <2>1. 1 \in Int /\ n \in Int /\ n - 1 + 1 = n /\ \A i \in 1..n : 1 + i - 1 = i
    BY <1>3
  <2>2. \A i \in 1..n : s[i] \in Cities
    BY <1>2, <1>3
  <2>3. /\ SubSeq(s, 1, n) \in Seq(Cities) /\ Len(SubSeq(s, 1, n)) = (IF 1 <= n THEN n - 1 + 1 ELSE 0)
        /\ \A i \in 1..n - 1 + 1 : SubSeq(s, 1, n)[i] = s[1 + i - 1]
    BY <2>1, <2>2, SubSeqProperties
  <2>4. (IF 1 <= n THEN n - 1 + 1 ELSE 0) = n /\ 1..n - 1 + 1 = 1..n
    BY <1>3
  <2>5. c \in Seq(Cities) /\ Len(c) = n
    BY <1>4, <2>3, <2>4
  <2>6. \A i \in 1..n : c[i] = s[i]
    BY <1>4, <2>1, <2>3, <2>4
  <2> QED BY <2>5, <2>6
<1>6. DOMAIN c = 1..n /\ \A i \in 1..n : i \in 1..m
  <2>1. DOMAIN c = 1..n
    BY <1>5, LenProperties
  <2>2. \A i \in 1..n : i \in 1..m
    BY <1>2, <1>3
  <2> QED BY <2>1, <2>2
<1>7. IsInjective(c)
  <2>1. \A i, j \in 1..n : s[i] = s[j] => i = j
    BY <1>2, <1>6 DEF CityList, IsInjective
  <2> QED BY <1>5, <1>6, <2>1 DEF IsInjective
<1>8. Range(c) \subseteq Range(s)
  BY <1>2, <1>5, <1>6 DEF Range
<1>9. s # <<>> => c # <<>> /\ c[1] = s[1]
  <2>1. s # <<>> => m # 0
    BY <1>1, <1>2, ListDomain
  <2>2. n # 0 => 1 \in 1..n
    BY <1>3
  <2>3. c = <<>> => n = 0
    BY <1>5, ListDomain
  <2> QED BY <1>3, <1>5, <2>1, <2>2, <2>3
<1> QED BY <1>4, <1>5, <1>7, <1>8, <1>9 DEF CityList

LEMMA HomeIs ==
  ASSUME NEW cities, CityList(cities)
  PROVE  /\ CityList(Day!HomeOf(cities)) /\ Range(Day!HomeOf(cities)) = Range(cities) \cap Homes
         /\ Day!HomeOf(cities) # <<>> => Day!HomeOf(cities)[1] \in Homes
<1>1. PICK h : h = Day!HomeOf(cities)
  OBVIOUS
<1>2. CityList(h) /\ Range(h) = Range(cities) \cap Homes
  BY <1>1, OnlyList DEF Day!HomeOf
<1>3. h # <<>> => h[1] \in Range(h)
  BY <1>2, ListDomain DEF CityList
<1> QED BY <1>1, <1>2, <1>3

(* A list headed by one of the cities and followed by those of another list    *)
(* that it is not among.                                                       *)
LEMMA HeadedIs ==
  ASSUME NEW cities, CityList(cities), NEW h, CityList(h), Range(h) \subseteq Range(cities),
         NEW s, CityList(s), NEW S, S = Range(cities) \ Range(h)
  PROVE  /\ CityList(h \o Day!Only(s, S)) /\ Range(h \o Day!Only(s, S)) \subseteq Range(cities)
         /\ Range(s) \cap Range(cities) \subseteq Range(h \o Day!Only(s, S))
         /\ h # <<>> => h \o Day!Only(s, S) # <<>> /\ (h \o Day!Only(s, S))[1] = h[1]
         /\ h \o Day!Only(s, S) = <<>> => Range(s) \cap Range(cities) = {}
<1>1. PICK r : r = Day!Only(s, S)
  OBVIOUS
<1>2. CityList(r) /\ Range(r) = Range(s) \cap S
  BY <1>1, OnlyList
<1>3. PICK c : c = h \o r
  OBVIOUS
<1>4. /\ c \in Seq(Cities) /\ Range(c) = Range(h) \cup Range(r) /\ (c = <<>> <=> h = <<>> /\ r = <<>>)
      /\ h # <<>> => c[1] = h[1]
      /\ IsInjective(h) /\ IsInjective(r) /\ Range(h) \cap Range(r) = {} => IsInjective(c)
  BY <1>2, <1>3, JoinedIs DEF CityList
<1>5. CityList(c)
  BY <1>2, <1>4 DEF CityList
<1>6. Range(c) \subseteq Range(cities) /\ Range(s) \cap Range(cities) \subseteq Range(c)
  BY <1>2, <1>4
<1>7. c = <<>> => Range(c) = {}
  BY DEF Range
<1> QED BY <1>1, <1>3, <1>4, <1>5, <1>6, <1>7

LEMMA DefaultIs ==
  ASSUME NEW cities, CityList(cities)
  PROVE  CityList(Day!defaultShownKeys(cities)) /\ Shows(Day!defaultShownKeys(cities), cities)
<1>1. PICK g : g = Day!HomeOf(cities)
  OBVIOUS
<1>2. PICK b : b = g \o cities
  OBVIOUS
<1>3. PICK h : h = Day!First(b)
  OBVIOUS
<1>4. CityList(g) /\ Range(g) = Range(cities) \cap Homes /\ (g # <<>> => g[1] \in Homes)
  BY <1>1, HomeIs
<1>5. b \in Seq(Cities) /\ Range(b) = Range(cities) /\ (b = <<>> <=> g = <<>> /\ cities = <<>>) /\ (g # <<>> => b[1] = g[1])
  <2>1. /\ b \in Seq(Cities) /\ Range(b) = Range(g) \cup Range(cities)
        /\ (b = <<>> <=> g = <<>> /\ cities = <<>>) /\ (g # <<>> => b[1] = g[1])
    BY <1>2, <1>4, JoinedIs DEF CityList
  <2> QED BY <1>4, <2>1
<1>6. CityList(h) /\ Range(h) \subseteq Range(cities) /\ (h = <<>> <=> b = <<>>) /\ (b # <<>> => h[1] = b[1])
  BY <1>3, <1>5, FirstIs
<1>7. PICK S : S = Range(cities) \ Range(h)
  OBVIOUS
<1>8. PICK r : r = h \o Day!Only(cities, S)
  OBVIOUS
<1>9. CityList(r) /\ Range(r) \subseteq Range(cities) /\ (h # <<>> => r # <<>> /\ r[1] = h[1])
  BY <1>6, <1>7, <1>8, HeadedIs
<1>10. PICK n : n = IF Len(r) < Day!DEFAULT_SHOWN THEN Len(r) ELSE Day!DEFAULT_SHOWN
  OBVIOUS
<1>11. PICK d : d = SubSeq(r, 1, n)
  OBVIOUS
<1>12. CityList(d) /\ Range(d) \subseteq Range(r) /\ (r # <<>> => d # <<>> /\ d[1] = r[1])
  BY <1>9, <1>10, <1>11, PrefixIs
<1>13. Day!defaultShownKeys(cities) = d
  <2>1. S = Day!Range(cities) \ Day!Range(h)
    BY Zenon, <1>7, RangesAgree
  <2> QED BY Zenon, <1>1, <1>2, <1>3, <1>8, <1>10, <1>11, <2>1 DEF Day!defaultShownKeys
<1>14. Shows(d, cities)
  BY <1>1, <1>4, <1>5, <1>6, <1>9, <1>12 DEF Shows, CityList
<1> QED BY <1>12, <1>13, <1>14

LEMMA ResolveIs ==
  ASSUME NEW asked, Chosen(asked), NEW cities, CityList(cities)
  PROVE  /\ CityList(Day!resolveShownKeys(asked, cities)) /\ Shows(Day!resolveShownKeys(asked, cities), cities)
         /\ asked # Day!Unset => Range(asked) \cap Range(cities) \subseteq Range(Day!resolveShownKeys(asked, cities))
<1>1. PICK g : g = Day!HomeOf(cities)
  OBVIOUS
<1>2. PICK h : h = Day!First(g)
  OBVIOUS
<1>3. PICK S : S = Range(cities) \ Range(h)
  OBVIOUS
<1>4. PICK r : r = h \o Day!Only(asked, S)
  OBVIOUS
<1>5. PICK k : k = Day!resolveShownKeys(asked, cities)
  OBVIOUS
<1>6. k = IF asked = Day!Unset \/ r = <<>> THEN Day!defaultShownKeys(cities) ELSE r
  <2>1. S = Day!Range(cities) \ Day!Range(h)
    BY Zenon, <1>3, RangesAgree
  <2> QED BY Zenon, <1>1, <1>2, <1>4, <1>5, <2>1 DEF Day!resolveShownKeys
<1>7. CityList(Day!defaultShownKeys(cities)) /\ Shows(Day!defaultShownKeys(cities), cities)
  BY DefaultIs
<1>8. CASE asked = Day!Unset
  BY Zenon, <1>5, <1>6, <1>7, <1>8
<1>9. CASE asked # Day!Unset
  <2>1. CityList(asked)
    BY <1>9 DEF Chosen
  <2>2. CityList(g) /\ Range(g) = Range(cities) \cap Homes /\ (g # <<>> => g[1] \in Homes)
    BY <1>1, HomeIs
  <2>3. CityList(h) /\ Range(h) \subseteq Range(g) /\ (h = <<>> <=> g = <<>>) /\ (g # <<>> => h[1] = g[1])
    BY <1>2, <2>2, FirstIs DEF CityList
  <2>4. Range(h) \subseteq Range(cities)
    BY <2>2, <2>3
  <2>5. /\ CityList(r) /\ Range(r) \subseteq Range(cities) /\ Range(asked) \cap Range(cities) \subseteq Range(r)
        /\ (h # <<>> => r # <<>> /\ r[1] = h[1]) /\ (r = <<>> => Range(asked) \cap Range(cities) = {})
    BY <1>3, <1>4, <2>1, <2>3, <2>4, HeadedIs
  <2>6. CASE r = <<>>
    <3>1. k = Day!defaultShownKeys(cities)
      BY Zenon, <1>6, <2>6
    <3> QED BY <1>5, <1>7, <2>5, <2>6, <3>1
  <2>7. CASE r # <<>>
    <3>1. k = r
      BY Zenon, <1>6, <1>9, <2>7
    <3>2. Shows(r, cities)
      BY <1>1, <2>2, <2>3, <2>5, <2>7 DEF Shows, CityList
    <3> QED BY <1>5, <2>5, <3>1, <3>2
  <2> QED BY <2>6, <2>7
<1> QED BY <1>8, <1>9

(* Each list kept anywhere is one that can be chosen.  What a painted tab      *)
(* shows is what its list resolves to for its cities, and a list once picked   *)
(* is the tab's until the page is loaded anew.                                 *)
ListsOfTab(p) ==
  /\ Chosen(p.shown) /\ Chosen(p.profile.shown) /\ CityList(p.overview.cities)
  /\ p.snap => /\ p.shown # Day!Unset /\ CityList(p.cities) /\ Shows(p.keys, p.cities)
               /\ Range(p.shown) \cap Range(p.cities) \subseteq Range(p.keys)
ListsOfLoad(a) == Chosen(a.profile.shown) /\ CityList(a.overview.cities)
ListsStored ==
  /\ CityList(overview.cities) /\ prefs = [shown |-> prefs.shown, celebrated |-> prefs.celebrated]
  /\ Chosen(prefs.shown) /\ Chosen(local.shown) /\ \A p \in patches : Chosen(p.shown)
PickLasts == \A t \in Tabs : picked[t] # Day!Unset => tab[t].shown = picked[t]
DayLists ==
  /\ ListsStored /\ PickLasts /\ picked = [t \in Tabs |-> picked[t]]
  /\ \A t \in Tabs : ListsOfTab(tab[t]) /\ \A l \in Loads : ListsOfLoad(loading[t][l])

LEMMA CitiesOfFit == ASSUME NEW o, CityList(o.cities) PROVE CityList(Day!citiesOf(o))
BY CitiesAre DEF Day!citiesOf

LEMMA NothingChosen ==
  /\ CityList(<<>>) /\ Chosen(Day!NoPrefs.shown) /\ CityList(Day!NoOverview.cities)
  /\ ListsOfLoad(Day!Quiet) /\ ListsOfTab(Day!Mounted) /\ Day!Mounted.shown = Day!Unset
<1>1. CityList(<<>>)
  BY DEF CityList, IsInjective
<1>2. Day!NoPrefs.shown = Day!Unset /\ Day!NoOverview.cities = <<>>
  BY DEF Day!NoPrefs, Day!NoOverview
<1>3. /\ Day!Quiet.profile = Day!NoPrefs /\ Day!Quiet.overview = Day!NoOverview
      /\ Day!Mounted.profile = Day!NoPrefs /\ Day!Mounted.overview = Day!NoOverview
      /\ Day!Mounted.shown = Day!Unset /\ ~Day!Mounted.snap
  BY DEF Day!Quiet, Day!Mounted
<1> QED BY <1>1, <1>2, <1>3 DEF Chosen, ListsOfLoad, ListsOfTab

LEMMA PaintLists ==
  ASSUME DayInv, DayLists, NEW t \in Tabs, NEW p, NEW moved, TabFits(p), ListsOfTab(p), p.snap = tab[t].snap,
         Day!paint(t, tab[t], p, moved)
  PROVE  /\ ListsOfTab(tab'[t]) /\ (p.shown # Day!Unset => tab'[t].shown = p.shown)
         /\ \A u \in Tabs : u # t => tab'[u] = tab[u]
         /\ local'.shown = local.shown /\ \A x \in patches' : Chosen(x.shown)
<1> DEFINE cities == Day!citiesOf(p.overview)
           keys == Day!resolveShownKeys(p.shown, cities)
           ref == IF p.shown = Day!Unset THEN keys ELSE p.shown
           skipped == tab[t].snap /\ ~moved /\ keys = tab[t].keys
           q == IF skipped THEN [p EXCEPT !.shown = ref]
                ELSE [p EXCEPT !.shown = ref, !.snap = TRUE, !.cities = cities, !.keys = keys,
                               !.milestone = p.overview.milestone]
           moment == q.milestone
           fires == moment # tab[t].milestone /\ moment \notin q.claimed /\ Day!shouldFireCelebration(moment, q.celebrated)
           painted == IF fires THEN [q EXCEPT !.claimed = @ \cup {moment}, !.celebrated = @ \cup {moment}] ELSE q
<1>1. /\ tab' = [tab EXCEPT ![t] = painted]
      /\ local' = (IF fires THEN [local EXCEPT !.celebrated = tab'[t].celebrated] ELSE local)
      /\ patches' = (IF fires THEN patches \cup {[Day!NoPrefs EXCEPT !.celebrated = tab'[t].celebrated]} ELSE patches)
  BY Zenon DEF Day!paint
<1>2. CityList(cities) /\ Chosen(p.shown)
  BY CitiesOfFit DEF ListsOfTab
<1>3. /\ CityList(keys) /\ Shows(keys, cities)
      /\ p.shown # Day!Unset => Range(p.shown) \cap Range(cities) \subseteq Range(keys)
  BY <1>2, ResolveIs
<1>4. /\ Chosen(ref) /\ ref # Day!Unset /\ Range(ref) \cap Range(cities) \subseteq Range(keys)
      /\ p.shown # Day!Unset => ref = p.shown
  <2> HIDE DEF keys, cities
  <2>1. CASE p.shown = Day!Unset
    <3>1. ref = keys
      BY Zenon, <2>1
    <3>2. keys # Day!Unset /\ Chosen(keys)
      BY <1>3, CitiesAre DEF Chosen
    <3> QED BY <2>1, <3>1, <3>2
  <2>2. CASE p.shown # Day!Unset
    <3>1. ref = p.shown
      BY Zenon, <2>2
    <3> QED BY <1>2, <1>3, <2>2, <3>1
  <2> QED BY <2>1, <2>2
<1> HIDE DEF ref, keys, cities
<1>5. /\ q = [shown |-> q.shown, celebrated |-> q.celebrated, claimed |-> q.claimed, known |-> q.known,
              profile |-> q.profile, overview |-> q.overview, snap |-> q.snap, cities |-> q.cities, keys |-> q.keys,
              milestone |-> q.milestone]
      /\ ListsOfTab(q) /\ q.shown = ref
  <2>1. CASE skipped
    <3>1. PICK b : b = [p EXCEPT !.shown = ref]
      OBVIOUS
    <3>2. b = [shown |-> ref, celebrated |-> p.celebrated, claimed |-> p.claimed, known |-> p.known,
               profile |-> p.profile, overview |-> p.overview, snap |-> p.snap, cities |-> p.cities, keys |-> p.keys,
               milestone |-> p.milestone]
      BY <3>1 DEF TabFits
    <3>3. q = b
      BY Zenon, <2>1, <3>1
    <3>4. p.snap /\ p.shown # Day!Unset
      BY <2>1 DEF ListsOfTab
    <3>5. ref = p.shown
      BY <1>4, <3>4
    <3>6. ListsOfTab(b)
      BY <3>2, <3>5 DEF ListsOfTab
    <3> HIDE DEF q
    <3> QED BY <3>2, <3>3, <3>6
  <2>2. CASE ~skipped
    <3>1. PICK b : b = [p EXCEPT !.shown = ref, !.snap = TRUE, !.cities = cities, !.keys = keys,
                                 !.milestone = p.overview.milestone]
      OBVIOUS
    <3>2. b = [shown |-> ref, celebrated |-> p.celebrated, claimed |-> p.claimed, known |-> p.known,
               profile |-> p.profile, overview |-> p.overview, snap |-> TRUE, cities |-> cities, keys |-> keys,
               milestone |-> p.overview.milestone]
      BY <3>1 DEF TabFits
    <3>3. q = b
      BY Zenon, <2>2, <3>1
    <3>4. ListsOfTab(b)
      BY <1>2, <1>3, <1>4, <3>2 DEF ListsOfTab
    <3> HIDE DEF q
    <3> QED BY <3>2, <3>3, <3>4
  <2> QED BY <2>1, <2>2
<1> HIDE DEF q, moment, fires
<1>6. ListsOfTab(painted) /\ painted.shown = ref
  <2>1. CASE fires
    <3>1. PICK b : b = [q EXCEPT !.claimed = @ \cup {moment}, !.celebrated = @ \cup {moment}]
      OBVIOUS
    <3>2. b = [shown |-> q.shown, celebrated |-> q.celebrated \cup {moment}, claimed |-> q.claimed \cup {moment},
               known |-> q.known, profile |-> q.profile, overview |-> q.overview, snap |-> q.snap,
               cities |-> q.cities, keys |-> q.keys, milestone |-> q.milestone]
      BY <1>5, <3>1
    <3>3. painted = b
      BY Zenon, <2>1, <3>1
    <3>4. ListsOfTab(b) /\ b.shown = ref
      BY <1>5, <3>2 DEF ListsOfTab
    <3> QED BY <3>3, <3>4
  <2>2. CASE ~fires
    <3>1. painted = q
      BY Zenon, <2>2
    <3> QED BY <1>5, <3>1
  <2> QED BY <2>1, <2>2
<1> HIDE DEF painted
<1>7. tab'[t] = painted /\ \A u \in Tabs : u # t => tab'[u] = tab[u]
  BY <1>1 DEF DayInv, DayTypes
<1>8. local'.shown = local.shown
  BY <1>1 DEF DayInv, DayTypes
<1>9. \A x \in patches' : Chosen(x.shown)
  <2>1. \A c : [Day!NoPrefs EXCEPT !.celebrated = c].shown = Day!Unset
    BY DEF Day!NoPrefs
  <2>2. \A x \in patches' : x \in patches \/ x = [Day!NoPrefs EXCEPT !.celebrated = tab'[t].celebrated]
    BY Zenon, <1>1
  <2>3. \A x \in patches : Chosen(x.shown)
    BY DEF DayLists, ListsStored
  <2> QED BY <2>1, <2>2, <2>3 DEF Chosen
<1> QED BY <1>4, <1>6, <1>7, <1>8, <1>9

LEMMA ListsMove ==
  ASSUME DayLists, NEW t \in Tabs, ListsStored', ListsOfTab(tab'[t]), \A u \in Tabs : u # t => tab'[u] = tab[u],
         picked' = [u \in Tabs |-> picked'[u]], \A u \in Tabs : u # t => picked'[u] = picked[u],
         picked'[t] # Day!Unset => tab'[t].shown = picked'[t],
         \A u \in Tabs, l \in Loads : ListsOfLoad(loading'[u][l])
  PROVE  DayLists'
<1> HIDE DEF ListsOfTab, ListsOfLoad
<1>1. \A u \in Tabs : ListsOfTab(tab'[u])
  <2>1. \A u \in Tabs : ListsOfTab(tab[u])
    BY DEF DayLists
  <2> QED BY <2>1
<1>2. \A u \in Tabs : picked'[u] # Day!Unset => tab'[u].shown = picked'[u]
  <2>1. \A u \in Tabs : picked[u] # Day!Unset => tab[u].shown = picked[u]
    BY DEF DayLists, PickLasts
  <2> QED BY <2>1
<1>3. PickLasts'
  BY <1>2 DEF PickLasts
<1> QED BY <1>1, <1>3 DEF DayLists

LEMMA LoadingLists ==
  ASSUME DayTypes, DayLists, NEW t \in Tabs, NEW l \in Loads, NEW a, ListsOfLoad(a), loading' = [loading EXCEPT ![t][l] = a]
  PROVE  \A u \in Tabs, m \in Loads : ListsOfLoad(loading'[u][m])
<1> HIDE DEF ListsOfLoad
<1>1. loading = [u \in Tabs |-> [m \in Loads |-> loading[u][m]]]
  BY DEF DayTypes
<1>2. PICK b : b = [loading[t] EXCEPT ![l] = a]
  OBVIOUS
<1>3. b = [m \in Loads |-> IF m = l THEN a ELSE loading[t][m]]
  BY <1>1, <1>2
<1>4. loading' = [u \in Tabs |-> IF u = t THEN b ELSE [m \in Loads |-> loading[u][m]]]
  BY <1>1, <1>2
<1>5. \A u \in Tabs, m \in Loads : loading'[u][m] = (IF u = t /\ m = l THEN a ELSE loading[u][m])
  BY <1>3, <1>4
<1>6. \A u \in Tabs, m \in Loads : ListsOfLoad(loading[u][m])
  BY DEF DayLists
<1> QED BY <1>5, <1>6

LEMMA FetchLists == ASSUME DayInv, DayLists, NEW t \in Tabs, NEW l \in Loads, Day!Fetch(t, l) PROVE DayLists'
<1>1. PICK a : a = [loading[t][l] EXCEPT !.pc = "asked"]
  OBVIOUS
<1>2. ListsOfLoad(a)
  <2>1. DayLoadFits(loading[t][l]) /\ ListsOfLoad(loading[t][l])
    BY DEF DayInv, DayTypes, DayLists
  <2>2. PICK x : x = loading[t][l]
    OBVIOUS
  <2>3. a = [pc |-> "asked", profile |-> x.profile, got |-> x.got, overview |-> x.overview, saw |-> x.saw]
    BY <1>1, <2>1, <2>2 DEF DayLoadFits
  <2> QED BY <2>1, <2>2, <2>3 DEF ListsOfLoad
<1>3. loading' = [loading EXCEPT ![t][l] = a]
  BY <1>1 DEF Day!Fetch
<1>4. UNCHANGED <<overview, prefs, local, tab, patches, picked>>
  BY DEF Day!Fetch
<1> HIDE DEF ListsOfLoad, ListsOfTab, ListsStored
<1>5. \A u \in Tabs, m \in Loads : ListsOfLoad(loading'[u][m])
  BY <1>2, <1>3, LoadingLists DEF DayInv
<1>6. ListsStored'
  BY <1>4 DEF DayLists, ListsStored
<1> QED BY <1>4, <1>5, <1>6 DEF DayLists, PickLasts

LEMMA AnswerLists ==
  ASSUME DayInv, DayLists, NEW t \in Tabs, NEW l \in Loads, NEW got \in BOOLEAN, NEW saw \in BOOLEAN,
         Day!Answer(t, l, got, saw)
  PROVE  DayLists'
<1>1. PICK a : a = [pc |-> "answered", got |-> got, saw |-> saw, profile |-> IF got THEN prefs ELSE Day!NoPrefs,
                    overview |-> IF saw THEN overview ELSE Day!NoOverview]
  OBVIOUS
<1>2. ListsOfLoad(a)
  <2>1. a.profile \in {prefs, Day!NoPrefs} /\ a.overview \in {overview, Day!NoOverview}
    BY <1>1
  <2>2. Chosen(prefs.shown) /\ CityList(overview.cities)
    BY DEF DayLists, ListsStored
  <2> QED BY <2>1, <2>2, NothingChosen DEF ListsOfLoad
<1>3. loading' = [loading EXCEPT ![t][l] = a]
  BY <1>1 DEF Day!Answer
<1>4. UNCHANGED <<overview, prefs, local, tab, patches, picked>>
  BY DEF Day!Answer
<1> HIDE DEF ListsOfLoad, ListsOfTab, ListsStored
<1>5. \A u \in Tabs, m \in Loads : ListsOfLoad(loading'[u][m])
  BY <1>2, <1>3, LoadingLists DEF DayInv
<1>6. ListsStored'
  BY <1>4 DEF DayLists, ListsStored
<1> QED BY <1>4, <1>5, <1>6 DEF DayLists, PickLasts

LEMMA RejectedLists == ASSUME DayInv, DayLists, NEW t \in Tabs, NEW l \in Loads, Day!Rejected(t, l) PROVE DayLists'
<1>1. loading' = [loading EXCEPT ![t][l] = Day!Quiet] /\ UNCHANGED <<overview, prefs, local, tab, patches, picked>>
  BY DEF Day!Rejected
<1> HIDE DEF ListsOfLoad, ListsOfTab, ListsStored
<1>2. \A u \in Tabs, m \in Loads : ListsOfLoad(loading'[u][m])
  BY <1>1, NothingChosen, LoadingLists DEF DayInv
<1>3. ListsStored'
  BY <1>1 DEF DayLists, ListsStored
<1> QED BY <1>1, <1>2, <1>3 DEF DayLists, PickLasts

LEMMA LoadLists ==
  ASSUME DayInv, DayLists, NEW t \in Tabs, NEW l \in Loads, NEW moved \in BOOLEAN, Day!load(t, l, moved) PROVE DayLists'
<1> DEFINE a == loading[t][l]
           p == [tab[t] EXCEPT !.profile = IF a.got THEN a.profile ELSE @, !.known = a.got \/ @,
                               !.overview = IF a.saw THEN a.overview ELSE @]
           taken == IF p.known THEN Day!TakeProfile(p, local) ELSE p
<1>1. /\ Day!paint(t, tab[t], taken, moved) /\ loading' = [loading EXCEPT ![t][l] = Day!Quiet]
      /\ UNCHANGED <<overview, prefs, picked>>
  BY Zenon DEF Day!load
<1>2. TabFits(tab[t]) /\ DayLoadFits(a) /\ ListsOfTab(tab[t]) /\ ListsOfLoad(a)
  BY DEF DayInv, DayTypes, DayLists
<1>3. TabFits(p) /\ ListsOfTab(p) /\ p.snap = tab[t].snap /\ p.shown = tab[t].shown
  <2>1. PICK x : x = (IF a.got THEN a.profile ELSE tab[t].profile)
    OBVIOUS
  <2>2. PICK z : z = (IF a.saw THEN a.overview ELSE tab[t].overview)
    OBVIOUS
  <2>3. PICK y : y = (a.got \/ tab[t].known)
    OBVIOUS
  <2>4. PICK b : b = [shown |-> tab[t].shown, celebrated |-> tab[t].celebrated, claimed |-> tab[t].claimed,
                      known |-> y, profile |-> x, overview |-> z, snap |-> tab[t].snap,
                      cities |-> tab[t].cities, keys |-> tab[t].keys, milestone |-> tab[t].milestone]
    OBVIOUS
  <2>5. p = b
    <3>1. p = [tab[t] EXCEPT !.profile = x, !.known = y, !.overview = z]
      BY Zenon, <2>1, <2>2, <2>3
    <3> HIDE DEF p
    <3> QED BY ZenonT(120), <1>2, <2>4, <3>1, Informed
  <2>6. z.milestone \in Milestone /\ CityList(z.cities) /\ Chosen(x.shown)
    BY <1>2, <2>1, <2>2 DEF TabFits, DayLoadFits, ListsOfTab, ListsOfLoad
  <2>7. TabFits(b)
    BY <1>2, <2>4, <2>6 DEF TabFits
  <2>8. ListsOfTab(b) /\ b.snap = tab[t].snap /\ b.shown = tab[t].shown
    BY <1>2, <2>4, <2>6 DEF ListsOfTab
  <2> HIDE DEF p, a
  <2> QED BY <2>5, <2>7, <2>8
<1> HIDE DEF p, a
<1>4. PICK s : s = (IF p.shown # Day!Unset THEN p.shown
                    ELSE IF p.profile.shown # Day!Unset THEN p.profile.shown ELSE local.shown)
  OBVIOUS
<1>5. PICK c : c = p.profile.celebrated \cup local.celebrated
  OBVIOUS
<1>6. PICK b : b = [p EXCEPT !.celebrated = c, !.shown = s]
  OBVIOUS
<1>7. Day!TakeProfile(p, local) = b
  BY Zenon, <1>4, <1>5, <1>6 DEF Day!TakeProfile
<1>8. b = [shown |-> s, celebrated |-> c, claimed |-> p.claimed, known |-> p.known, profile |-> p.profile,
           overview |-> p.overview, snap |-> p.snap, cities |-> p.cities, keys |-> p.keys, milestone |-> p.milestone]
  BY <1>3, <1>6 DEF TabFits
<1>9. Chosen(s) /\ (p.shown # Day!Unset => s = p.shown)
  <2>1. Chosen(p.shown) /\ Chosen(p.profile.shown) /\ Chosen(local.shown)
    BY <1>3 DEF ListsOfTab, DayLists, ListsStored
  <2>2. s \in {p.shown, p.profile.shown, local.shown}
    BY <1>4
  <2>3. p.shown # Day!Unset => s = p.shown
    BY Zenon, <1>4
  <2> QED BY <2>1, <2>2, <2>3
<1>10. TabFits(b)
  BY <1>3, <1>8 DEF TabFits
<1>11. ListsOfTab(b) /\ b.snap = p.snap /\ (p.shown # Day!Unset => b.shown = p.shown)
  BY <1>3, <1>8, <1>9 DEF ListsOfTab
<1>12. /\ TabFits(taken) /\ ListsOfTab(taken) /\ taken.snap = tab[t].snap
       /\ tab[t].shown # Day!Unset => taken.shown = tab[t].shown
  <2> HIDE DEF TabFits, ListsOfTab
  <2>1. CASE p.known
    BY <1>3, <1>7, <1>10, <1>11, <2>1
  <2>2. CASE ~p.known
    BY <1>3, <2>2
  <2> QED BY <2>1, <2>2
<1> HIDE DEF taken, TabFits, ListsOfTab, DayLoadFits, ListsOfLoad, ListsStored
<1>13. /\ ListsOfTab(tab'[t]) /\ (taken.shown # Day!Unset => tab'[t].shown = taken.shown)
       /\ \A u \in Tabs : u # t => tab'[u] = tab[u]
       /\ local'.shown = local.shown /\ \A x \in patches' : Chosen(x.shown)
  BY <1>1, <1>12, PaintLists
<1>14. \A u \in Tabs, m \in Loads : ListsOfLoad(loading'[u][m])
  BY <1>1, NothingChosen, LoadingLists DEF DayInv
<1>15. ListsStored'
  BY <1>1, <1>13 DEF DayLists, ListsStored
<1>16. picked'[t] # Day!Unset => tab'[t].shown = picked'[t]
  <2>1. picked[t] # Day!Unset => tab[t].shown = picked[t]
    BY DEF DayLists, PickLasts
  <2> QED BY <1>1, <1>12, <1>13, <2>1
<1>17. picked' = [u \in Tabs |-> picked'[u]] /\ \A u \in Tabs : u # t => picked'[u] = picked[u]
  BY <1>1 DEF DayLists
<1> QED BY <1>13, <1>14, <1>15, <1>16, <1>17, ListsMove

LEMMA PickLists ==
  ASSUME DayInv, DayLists, NEW t \in Tabs, NEW next, Chosen(next), Day!applyShown(t, next)
  PROVE  DayLists'
<1> DEFINE p == tab[t]
           cities == Day!citiesOf(p.overview)
           resolved == Day!resolveShownKeys(next, p.cities)
           q == [p EXCEPT !.shown = resolved, !.snap = TRUE, !.cities = cities,
                          !.keys = Day!resolveShownKeys(resolved, cities), !.milestone = p.overview.milestone]
<1>1. /\ tab' = [tab EXCEPT ![t] = q] /\ local' = [local EXCEPT !.shown = resolved] /\ p.snap
      /\ picked' = [picked EXCEPT ![t] = resolved]
      /\ patches' = patches \cup {[Day!NoPrefs EXCEPT !.shown = resolved]}
      /\ UNCHANGED <<overview, prefs, loading>>
  BY Zenon DEF Day!applyShown
<1>2. TabFits(p) /\ ListsOfTab(p)
  BY DEF DayInv, DayTypes, DayLists
<1>3. CityList(resolved)
  BY <1>1, <1>2, ResolveIs DEF ListsOfTab
<1> HIDE DEF resolved
<1>4. resolved # Day!Unset /\ Chosen(resolved)
  BY <1>3, CitiesAre DEF Chosen
<1>5. CityList(cities)
  BY <1>2, CitiesOfFit DEF ListsOfTab
<1>6. PICK k : k = Day!resolveShownKeys(resolved, cities)
  OBVIOUS
<1>7. Shows(k, cities) /\ Range(resolved) \cap Range(cities) \subseteq Range(k)
  BY <1>4, <1>5, <1>6, ResolveIs
<1> HIDE DEF p, cities
<1>8. PICK b : b = [p EXCEPT !.shown = resolved, !.snap = TRUE, !.cities = cities, !.keys = k, !.milestone = p.overview.milestone]
  OBVIOUS
<1>9. b = [shown |-> resolved, celebrated |-> p.celebrated, claimed |-> p.claimed, known |-> p.known,
           profile |-> p.profile, overview |-> p.overview, snap |-> TRUE, cities |-> cities, keys |-> k,
           milestone |-> p.overview.milestone]
  BY <1>2, <1>8 DEF TabFits
<1>10. q = b
  BY Zenon, <1>6, <1>8
<1>11. ListsOfTab(b) /\ b.shown = resolved
  BY <1>2, <1>4, <1>5, <1>7, <1>9 DEF ListsOfTab
<1> HIDE DEF q, ListsOfTab, ListsOfLoad, ListsStored
<1>12. tab'[t] = b /\ \A u \in Tabs : u # t => tab'[u] = tab[u]
  BY <1>1, <1>10 DEF DayInv, DayTypes
<1>13. /\ picked' = [u \in Tabs |-> picked'[u]] /\ picked'[t] = resolved
       /\ \A u \in Tabs : u # t => picked'[u] = picked[u]
  BY <1>1 DEF DayLists
<1>14. ListsStored'
  <2>1. local'.shown = resolved
    BY <1>1 DEF DayInv, DayTypes
  <2>2. [Day!NoPrefs EXCEPT !.shown = resolved].shown = resolved
    BY DEF Day!NoPrefs
  <2>3. \A x \in patches' : Chosen(x.shown)
    <3>1. \A x \in patches : Chosen(x.shown)
      BY DEF DayLists, ListsStored
    <3>2. \A x \in patches' : x \in patches \/ x = [Day!NoPrefs EXCEPT !.shown = resolved]
      BY Zenon, <1>1
    <3> QED BY <1>4, <2>2, <3>1, <3>2
  <2>4. CityList(overview.cities) /\ prefs = [shown |-> prefs.shown, celebrated |-> prefs.celebrated] /\ Chosen(prefs.shown)
    BY DEF DayLists, ListsStored
  <2> QED BY <1>1, <1>4, <2>1, <2>3, <2>4 DEF ListsStored
<1>15. \A u \in Tabs, l \in Loads : ListsOfLoad(loading'[u][l])
  BY <1>1 DEF DayLists
<1> QED BY <1>11, <1>12, <1>13, <1>14, <1>15, ListsMove

LEMMA AddLists == ASSUME DayInv, DayLists, NEW t \in Tabs, NEW city, Day!addCity(t, city) PROVE DayLists'
<1>1. PICK p : p = tab[t]
  OBVIOUS
<1>2. city \in Range(p.cities) \ Range(p.keys) /\ Day!applyShown(t, Append(p.shown, city))
  BY Zenon, <1>1, RangesAgree DEF Day!addCity
<1>3. p.snap
  BY Zenon, <1>1, <1>2 DEF Day!applyShown
<1>4. CityList(p.shown) /\ CityList(p.cities) /\ Range(p.shown) \cap Range(p.cities) \subseteq Range(p.keys)
  BY <1>1, <1>3 DEF DayLists, ListsOfTab, Chosen
<1>5. PICK s : s = p.shown
  OBVIOUS
<1>6. PICK k \in Cities : k = city /\ k \notin Range(s)
  BY <1>2, <1>4, <1>5, ListDomain DEF CityList
<1>7. PICK c : c = Append(s, k)
  OBVIOUS
<1>8. s \in Seq(Cities) /\ Len(s) \in Nat /\ DOMAIN s = 1..Len(s) /\ IsInjective(s)
  BY <1>4, <1>5, LenProperties DEF CityList
<1>9. /\ c \in Seq(Cities) /\ Len(c) = Len(s) + 1 /\ c[Len(s) + 1] = k
      /\ \A i \in 1..Len(s) : c[i] = s[i]
  BY <1>7, <1>8, AppendProperties
<1>10. DOMAIN c = 1..Len(s) + 1
  BY <1>9, LenProperties
<1>11. \A i \in 1..Len(s) : s[i] # k
  BY <1>6, <1>8 DEF Range
<1>12. IsInjective(c)
  <2> SUFFICES ASSUME NEW i \in 1..Len(s) + 1, NEW j \in 1..Len(s) + 1, c[i] = c[j] PROVE i = j
    BY <1>10 DEF IsInjective
  <2>1. CASE i \in 1..Len(s) /\ j \in 1..Len(s)
    BY <1>8, <1>9, <2>1 DEF IsInjective
  <2>2. CASE i \in 1..Len(s) /\ j = Len(s) + 1
    BY <1>9, <1>11, <2>2
  <2>3. CASE i = Len(s) + 1 /\ j \in 1..Len(s)
    BY <1>9, <1>11, <2>3
  <2> QED BY <1>8, <2>1, <2>2, <2>3
<1>13. Chosen(Append(p.shown, city))
  BY <1>5, <1>6, <1>7, <1>9, <1>12 DEF Chosen, CityList
<1> QED BY <1>2, <1>13, PickLists

LEMMA RemoveLists == ASSUME DayInv, DayLists, NEW t \in Tabs, NEW city, Day!removeCity(t, city) PROVE DayLists'
<1>1. PICK p : p = tab[t]
  OBVIOUS
<1>2. PICK c : c = Day!Only(p.shown, Day!Range(p.shown) \ {city})
  OBVIOUS
<1>3. PICK next : next = IF c = <<>> THEN Day!defaultShownKeys(p.cities) ELSE c
  OBVIOUS
<1>4. Day!applyShown(t, next)
  BY Zenon, <1>1, <1>2, <1>3 DEF Day!removeCity
<1>5. p.snap
  BY Zenon, <1>1, <1>4 DEF Day!applyShown
<1>6. CityList(p.shown) /\ CityList(p.cities)
  BY <1>1, <1>5 DEF DayLists, ListsOfTab, Chosen
<1>7. CityList(c) /\ CityList(Day!defaultShownKeys(p.cities))
  BY <1>2, <1>6, OnlyList, DefaultIs
<1>8. Chosen(next)
  <2>1. next \in {c, Day!defaultShownKeys(p.cities)}
    BY Zenon, <1>3
  <2> QED BY <1>7, <2>1 DEF Chosen
<1> QED BY <1>4, <1>8, PickLists

LEMMA ResetLists == ASSUME DayInv, DayLists, NEW t \in Tabs, Day!Reset(t) PROVE DayLists'
<1>1. /\ tab' = [tab EXCEPT ![t] = Day!Mounted] /\ loading' = [loading EXCEPT ![t] = [l \in Loads |-> Day!Quiet]]
      /\ picked' = [picked EXCEPT ![t] = Day!Unset] /\ UNCHANGED <<overview, prefs, local, patches>>
  BY DEF Day!Reset
<1>2. tab'[t] = Day!Mounted /\ \A u \in Tabs : u # t => tab'[u] = tab[u]
  BY <1>1 DEF DayInv, DayTypes
<1>3. /\ picked' = [u \in Tabs |-> picked'[u]] /\ picked'[t] = Day!Unset
      /\ \A u \in Tabs : u # t => picked'[u] = picked[u]
  BY <1>1 DEF DayLists
<1> HIDE DEF ListsOfTab, ListsOfLoad, ListsStored
<1>4. \A u \in Tabs, l \in Loads : ListsOfLoad(loading'[u][l])
  <2>1. \A u \in Tabs, l \in Loads : loading'[u][l] = (IF u = t THEN Day!Quiet ELSE loading[u][l])
    BY <1>1 DEF DayInv, DayTypes
  <2>2. \A u \in Tabs, l \in Loads : ListsOfLoad(loading[u][l])
    BY DEF DayLists
  <2> QED BY <2>1, <2>2, NothingChosen
<1>5. ListsStored'
  BY <1>1 DEF DayLists, ListsStored
<1> QED BY <1>2, <1>3, <1>4, <1>5, NothingChosen, ListsMove

LEMMA PatchLists ==
  ASSUME DayLists, NEW p \in patches, NEW stored \in BOOLEAN, Day!Patch(p, stored)
  PROVE  DayLists'
<1>1. /\ patches' \subseteq patches /\ UNCHANGED <<overview, local, tab, loading, picked>>
      /\ prefs' = IF ~stored THEN prefs
                  ELSE IF p.shown # Day!Unset THEN [prefs EXCEPT !.shown = p.shown]
                  ELSE [prefs EXCEPT !.celebrated = p.celebrated]
  BY Zenon DEF Day!Patch
<1>2. /\ prefs = [shown |-> prefs.shown, celebrated |-> prefs.celebrated] /\ Chosen(prefs.shown) /\ Chosen(p.shown)
      /\ CityList(overview.cities) /\ Chosen(local.shown) /\ \A x \in patches : Chosen(x.shown)
  BY DEF DayLists, ListsStored
<1>3. prefs' = [shown |-> prefs'.shown, celebrated |-> prefs'.celebrated] /\ prefs'.shown \in {prefs.shown, p.shown}
  <2>1. CASE ~stored
    BY <1>1, <1>2, <2>1
  <2>2. CASE stored /\ p.shown # Day!Unset
    <3>1. prefs' = [prefs EXCEPT !.shown = p.shown]
      BY Zenon, <1>1, <2>2
    <3> QED BY <1>2, <3>1
  <2>3. CASE stored /\ p.shown = Day!Unset
    <3>1. prefs' = [prefs EXCEPT !.celebrated = p.celebrated]
      BY Zenon, <1>1, <2>3
    <3> QED BY <1>2, <3>1
  <2> QED BY <2>1, <2>2, <2>3
<1>4. ListsStored'
  BY <1>1, <1>2, <1>3 DEF ListsStored
<1> HIDE DEF ListsStored, ListsOfTab, ListsOfLoad
<1> QED BY <1>1, <1>4 DEF DayLists, PickLasts

LEMMA ListSteps == DayInv /\ DayLists /\ [Day!Next]_dayVars => DayLists'
<1> SUFFICES ASSUME DayInv, DayLists, [Day!Next]_dayVars PROVE DayLists'
  OBVIOUS
<1>1. ASSUME NEW t \in Tabs, Day!Reset(t) PROVE DayLists'
  BY <1>1, ResetLists
<1>2. ASSUME NEW t \in Tabs, NEW k \in Day!AllCities, Day!addCity(t, k) \/ Day!removeCity(t, k) PROVE DayLists'
  BY <1>2, AddLists, RemoveLists
<1>3. ASSUME NEW t \in Tabs, NEW l \in Loads, Day!Fetch(t, l) \/ Day!Rejected(t, l) PROVE DayLists'
  BY <1>3, FetchLists, RejectedLists
<1>4. ASSUME NEW t \in Tabs, NEW l \in Loads, NEW got \in BOOLEAN, NEW saw \in BOOLEAN, Day!Answer(t, l, got, saw)
      PROVE DayLists'
  BY <1>4, AnswerLists
<1>5. ASSUME NEW t \in Tabs, NEW l \in Loads, NEW moved \in BOOLEAN, Day!load(t, l, moved) PROVE DayLists'
  BY <1>5, LoadLists
<1>6. ASSUME NEW p \in patches, NEW stored \in BOOLEAN, Day!Patch(p, stored) PROVE DayLists'
  BY <1>6, PatchLists
<1>7. ASSUME NEW c \in Rankings, NEW m \in MilestoneKeys \cup {"none"},
             Day!Change([users |-> TRUE, cities |-> c, milestone |-> m])
      PROVE DayLists'
  <2>1. overview'.cities = c /\ UNCHANGED <<prefs, local, tab, loading, patches, picked>>
    BY <1>7 DEF Day!Change
  <2>2. CityList(c)
    BY CitiesAre
  <2>3. ListsStored'
    BY <2>1, <2>2 DEF DayLists, ListsStored
  <2> HIDE DEF ListsStored, ListsOfTab, ListsOfLoad
  <2> QED BY <2>1, <2>3 DEF DayLists, PickLasts
<1>8. ASSUME UNCHANGED dayVars PROVE DayLists'
  BY <1>8 DEF dayVars, DayLists, ListsStored, PickLasts
<1> QED BY <1>1, <1>2, <1>3, <1>4, <1>5, <1>6, <1>7, <1>8 DEF Day!Next

LEMMA ListStarts == Day!Init => DayLists
<1> SUFFICES ASSUME Day!Init PROVE DayLists
  OBVIOUS
<1>1. /\ overview \in {Day!NoOverview} \cup [users : {TRUE}, cities : Rankings, milestone : {"none"}]
      /\ prefs = Day!NoPrefs /\ local = Day!NoPrefs /\ patches = {} /\ tab = [t \in Tabs |-> Day!Mounted]
      /\ loading = [t \in Tabs |-> [l \in Loads |-> Day!Quiet]] /\ picked = [t \in Tabs |-> Day!Unset]
  BY DEF Day!Init
<1>2. CityList(overview.cities)
  <2>1. CASE overview = Day!NoOverview
    BY <2>1, NothingChosen
  <2>2. CASE overview \in [users : {TRUE}, cities : Rankings, milestone : {"none"}]
    BY <2>2, CitiesAre
  <2> QED BY <1>1, <2>1, <2>2
<1>3. prefs = [shown |-> prefs.shown, celebrated |-> prefs.celebrated]
  BY <1>1 DEF Day!NoPrefs
<1>4. ListsStored
  BY <1>1, <1>2, <1>3, NothingChosen DEF ListsStored
<1> HIDE DEF ListsStored, ListsOfTab, ListsOfLoad
<1> QED BY <1>1, <1>4, NothingChosen DEF DayLists, PickLasts

LEMMA ListsAre == DayLists => Day!ShownIsWhole
<1> SUFFICES ASSUME DayLists, NEW t \in Tabs
             PROVE  /\ tab[t].snap =>
                         /\ Day!Range(tab[t].keys) \subseteq Day!Range(tab[t].cities) /\ Day!IsInjective(tab[t].keys)
                         /\ tab[t].cities # <<>> => tab[t].keys # <<>>
                         /\ Day!HomeOf(tab[t].cities) # <<>> => tab[t].keys[1] \in Homes
                    /\ picked[t] # Day!Unset => tab[t].shown = picked[t]
  BY Zenon DEF Day!ShownIsWhole
<1>1. tab[t].snap => Shows(tab[t].keys, tab[t].cities)
  BY DEF DayLists, ListsOfTab
<1> QED BY <1>1, RangesAgree DEF DayLists, PickLasts, Shows

(* Home leads, no city comes twice, none is shown that the overview lacks and  *)
(* the module is not emptied; what was picked stays (resolveShownKeys over     *)
(* loads, picks, reloads and saves that are lost or overtake each other).      *)
THEOREM ShownCitiesAreWhole == Day!Init /\ [][Day!Next]_dayVars => []Day!ShownIsWhole
BY ListsAre, ListStarts, ListSteps, DayStarts, DaySteps, PTL

-----------------------------------------------------------------------------
(* The URL of a view.  State and link hold a view's own keys and at most three *)
(* series, none twice; once an effect has run and its replace is committed,    *)
(* merging the state into the URL again changes nothing, or the state was read *)
(* from it.                                                                    *)
Series(s) == s \in Seq(Range(SeriesKeys)) /\ Len(s) <= 3 /\ IsInjective(s)
Encoded == Url!encodedBy[view]
Said(s) ==
  /\ s.keys \subseteq Encoded /\ Series(s.series)
  /\ s.split = "none" => s.series = <<>>
  /\ view # "cohorts" => s.split = "none"
StateFits(s) == s = [keys |-> s.keys, split |-> s.split, series |-> s.series] /\ Said(s)
LinkFits(u) == u = [keys |-> u.keys, split |-> u.split, series |-> u.series, user |-> u.user] /\ Said(u)
Merged == Url!mergeIntoUrl(url, state) = url \/ state = Url!decodeViewState(url)
UrlInv ==
  /\ view \in {"dotplot", "cohorts", "wbr", "calendar"}
  /\ StateFits(state) /\ LinkFits(url) /\ LinkFits(pending)
  /\ (view # "dotplot" => ~overtaken) /\ (Url!Settled /\ ~overtaken => Merged)

LEMMA EmptySeries == Series(<<>>)
<1>1. <<>> \in Seq(Range(SeriesKeys)) /\ Len(<<>>) = 0 /\ DOMAIN <<>> = {}
  OBVIOUS
<1> QED BY <1>1 DEF Series, IsInjective

LEMMA CapIs ==
  ASSUME NEW s \in Seq(Range(SeriesKeys)), IsInjective(s)
  PROVE  Series(Url!capCohortSeries(s)) /\ (Len(s) <= 3 => Url!capCohortSeries(s) = s)
<1>1. PICK n : n = (IF Len(s) < 3 THEN Len(s) ELSE 3)
  OBVIOUS
<1>2. n \in 0..3 /\ n <= Len(s) /\ (Len(s) <= 3 => n = Len(s)) /\ Len(s) \in Nat
  <2>1. PICK m : m = Len(s)
    OBVIOUS
  <2>2. m \in Nat
    BY <2>1, LenProperties
  <2>3. n = (IF m < 3 THEN m ELSE 3)
    BY <1>1, <2>1
  <2>4. n \in 0..3 /\ n <= m /\ (m <= 3 => n = m)
    <3>1. CASE m < 3
      BY <2>2, <2>3, <3>1
    <3>2. CASE ~(m < 3)
      BY <2>2, <2>3, <3>2
    <3> QED BY <3>1, <3>2
  <2> QED BY <2>1, <2>2, <2>4
<1>3. PICK c : c = SubSeq(s, 1, n)
  OBVIOUS
<1>4. \A i \in 1..n : s[i] \in Range(SeriesKeys)
  BY <1>2, ElementOfSeq
<1>5. c \in Seq(Range(SeriesKeys)) /\ Len(c) = n /\ \A i \in 1..n : c[i] = s[i]
  <2>1. 1 \in Int /\ n \in Int /\ n - 1 + 1 = n /\ \A i \in 1..n : 1 + i - 1 = i
    BY <1>2
  <2>2. /\ SubSeq(s, 1, n) \in Seq(Range(SeriesKeys)) /\ Len(SubSeq(s, 1, n)) = (IF 1 <= n THEN n - 1 + 1 ELSE 0)
        /\ \A i \in 1..n - 1 + 1 : SubSeq(s, 1, n)[i] = s[1 + i - 1]
    BY <1>4, <2>1, SubSeqProperties
  <2> QED BY <1>2, <1>3, <2>1, <2>2
<1>6. DOMAIN c = 1..n /\ DOMAIN s = 1..Len(s)
  BY <1>5, LenProperties
<1>7. IsInjective(c)
  <2>1. \A i \in 1..n : i \in 1..Len(s)
    BY <1>2
  <2>2. \A i, j \in 1..n : s[i] = s[j] => i = j
    BY <1>6, <2>1 DEF IsInjective
  <2>3. \A i, j \in 1..n : c[i] = c[j] => i = j
    BY <1>5, <2>2
  <2> QED BY <1>6, <2>3 DEF IsInjective
<1>8. Len(s) <= 3 => c = s
  BY <1>2, <1>5, SeqEqual
<1>9. Url!capCohortSeries(s) = c
  BY <1>1, <1>3 DEF Url!capCohortSeries, Url!COHORT_COMPARE_MAX_SERIES
<1> QED BY <1>2, <1>5, <1>7, <1>8, <1>9 DEF Series

(* A sequence without one of its elements.                                     *)
LEMMA RemovedIs ==
  ASSUME NEW S, NEW s \in Seq(S), NEW at \in 1..Len(s)
  PROVE  /\ Url!RemoveAt(s, at) \in Seq(S) /\ Len(Url!RemoveAt(s, at)) = Len(s) - 1
         /\ \A i \in 1..Len(s) - 1 : Url!RemoveAt(s, at)[i] = IF i < at THEN s[i] ELSE s[i + 1]
<1>1. Len(s) \in Nat
  BY LenProperties
<1>2. \A i \in 1..Len(s) : s[i] \in S
  BY ElementOfSeq
<1>3. PICK a : a = SubSeq(s, 1, at - 1)
  OBVIOUS
<1>4. PICK b : b = SubSeq(s, at + 1, Len(s))
  OBVIOUS
<1>5. a \in Seq(S) /\ Len(a) = at - 1 /\ \A i \in 1..at - 1 : a[i] = s[i]
  <2>1. \A i \in 1..at - 1 : s[i] \in S
    BY <1>1, <1>2
  <2>2. 1 \in Int /\ at - 1 \in Int
    BY <1>1
  <2>3. /\ SubSeq(s, 1, at - 1) \in Seq(S)
        /\ Len(SubSeq(s, 1, at - 1)) = (IF 1 <= at - 1 THEN at - 1 - 1 + 1 ELSE 0)
        /\ \A i \in 1..at - 1 - 1 + 1 : SubSeq(s, 1, at - 1)[i] = s[1 + i - 1]
    BY <2>1, <2>2, SubSeqProperties
  <2> QED BY <1>1, <1>3, <2>3
<1>6. /\ b \in Seq(S) /\ Len(b) = Len(s) - at
      /\ \A i \in 1..Len(s) - at : b[i] = s[at + i]
  <2>1. \A i \in at + 1..Len(s) : s[i] \in S
    BY <1>1, <1>2
  <2>2. at + 1 \in Int /\ Len(s) \in Int
    BY <1>1
  <2>3. /\ SubSeq(s, at + 1, Len(s)) \in Seq(S)
        /\ Len(SubSeq(s, at + 1, Len(s))) = (IF at + 1 <= Len(s) THEN Len(s) - (at + 1) + 1 ELSE 0)
        /\ \A i \in 1..Len(s) - (at + 1) + 1 : SubSeq(s, at + 1, Len(s))[i] = s[at + 1 + i - 1]
    BY <2>1, <2>2, SubSeqProperties
  <2>4. Len(b) = Len(s) - at
    BY <1>1, <1>4, <2>3
  <2>5. \A i \in 1..Len(s) - at : i \in 1..Len(s) - (at + 1) + 1 /\ at + 1 + i - 1 = at + i
    BY <1>1
  <2> QED BY <1>4, <2>3, <2>4, <2>5
<1>7. PICK c : c = a \o b
  OBVIOUS
<1>8. /\ c \in Seq(S) /\ Len(c) = Len(a) + Len(b)
      /\ \A i \in 1..Len(a) + Len(b) : c[i] = IF i <= Len(a) THEN a[i] ELSE b[i - Len(a)]
  BY <1>5, <1>6, <1>7, ConcatProperties
<1>9. Len(c) = Len(s) - 1
  BY <1>1, <1>5, <1>6, <1>8
<1>10. \A i \in 1..Len(c) : c[i] = IF i < at THEN s[i] ELSE s[i + 1]
  <2> SUFFICES ASSUME NEW i \in 1..Len(c) PROVE c[i] = IF i < at THEN s[i] ELSE s[i + 1]
    OBVIOUS
  <2>1. CASE i < at
    <3>1. i \in 1..at - 1 /\ i <= Len(a) /\ i \in 1..Len(a) + Len(b)
      BY <1>1, <1>5, <1>6, <1>9, <2>1
    <3> QED BY <1>5, <1>8, <2>1, <3>1
  <2>2. CASE ~(i < at)
    <3>1. at \in Int /\ Len(s) \in Int /\ i \in Int /\ Len(a) = at - 1 /\ Len(c) = Len(s) - 1 /\ i >= at /\ i <= Len(c)
      BY <1>1, <1>5, <1>9, <2>2
    <3>2. i - Len(a) \in 1..Len(s) - at /\ ~(i <= Len(a)) /\ at + (i - Len(a)) = i + 1
      BY <3>1
    <3>3. i \in 1..Len(a) + Len(b)
      BY <1>8
    <3> QED BY <1>6, <1>8, <2>2, <3>2, <3>3
  <2> QED BY <2>1, <2>2
<1>11. Url!RemoveAt(s, at) = c
  BY <1>3, <1>4, <1>7 DEF Url!RemoveAt
<1> QED BY <1>8, <1>9, <1>10, <1>11

LEMMA WithoutIs ==
  ASSUME NEW s, Series(s), NEW S
  PROVE  Series(Url!Only(s, S))
<1>1. s \in Seq(Range(SeriesKeys)) /\ Len(s) <= 3 /\ IsInjective(s) /\ Len(s) \in Nat
  BY LenProperties DEF Series
<1>2. PICK c : c = Day!Only(s, S)
  OBVIOUS
<1>3. Url!Only(s, S) = c
  BY <1>2 DEF Url!Only, Day!Only
<1>4. c \in Seq(Range(s) \cap S) /\ Len(c) <= Len(s) /\ IsInjective(c)
  BY <1>1, <1>2, OnlyGives
<1>5. Range(s) \subseteq Range(SeriesKeys)
  <2>1. DOMAIN s = 1..Len(s) /\ \A i \in 1..Len(s) : s[i] \in Range(SeriesKeys)
    BY <1>1, LenProperties, ElementOfSeq
  <2> QED BY <2>1 DEF Range
<1>6. c \in Seq(Range(SeriesKeys)) /\ Len(c) <= 3
  <2>1. Len(c) \in Nat /\ c \in [1..Len(c) -> Range(s) \cap S]
    BY <1>4, LenProperties
  <2>2. c \in [1..Len(c) -> Range(SeriesKeys)]
    BY <1>5, <2>1
  <2> QED BY <1>1, <1>4, <2>1, <2>2
<1> QED BY <1>3, <1>4, <1>6 DEF Series

LEMMA LongerIs ==
  ASSUME NEW s, Series(s), Len(s) < 3, NEW k \in Range(SeriesKeys), k \notin Range(s)
  PROVE  Series(Append(s, k))
<1>1. s \in Seq(Range(SeriesKeys)) /\ Len(s) \in Nat /\ DOMAIN s = 1..Len(s)
  BY LenProperties DEF Series
<1>2. PICK c : c = Append(s, k)
  OBVIOUS
<1>3. /\ c \in Seq(Range(SeriesKeys)) /\ Len(c) = Len(s) + 1
      /\ \A i \in 1..Len(s) : c[i] = s[i]
      /\ c[Len(s) + 1] = k
  BY <1>1, <1>2, AppendProperties
<1>4. DOMAIN c = 1..Len(c)
  BY <1>3, LenProperties
<1>5. \A i \in 1..Len(s) : s[i] # k
  BY <1>1 DEF Range
<1>6. IsInjective(c)
  <2> SUFFICES ASSUME NEW i \in 1..Len(c), NEW j \in 1..Len(c), c[i] = c[j] PROVE i = j
    BY <1>4 DEF IsInjective
  <2>1. CASE i \in 1..Len(s) /\ j \in 1..Len(s)
    BY <1>1, <1>3, <2>1 DEF Series, IsInjective
  <2>2. CASE i \in 1..Len(s) /\ j = Len(s) + 1
    BY <1>3, <1>5, <2>2
  <2>3. CASE i = Len(s) + 1 /\ j \in 1..Len(s)
    BY <1>3, <1>5, <2>3
  <2> QED BY <1>1, <1>3, <2>1, <2>2, <2>3
<1>7. Len(c) <= 3
  BY <1>1, <1>3
<1> QED BY <1>2, <1>3, <1>6, <1>7 DEF Series

LEMMA KeysAre ==
  ASSUME view \in {"dotplot", "cohorts", "wbr", "calendar"}
  PROVE  /\ view = "dotplot" => /\ Encoded = Url!dotplotEncoded /\ Url!decodedBy[view] = Url!dotplotDecoded
                                /\ Url!deletedBy[view] = Url!dotplotDeleted
         /\ view # "dotplot" => Url!decodedBy[view] = Encoded /\ Url!deletedBy[view] = Encoded
         /\ Url!decodedBy[view] \subseteq Encoded
<1> HIDE DEF Url!dotplotEncoded, Url!dotplotDecoded, Url!dotplotDeleted, Url!cohortsEncoded, Url!wbrEncoded, Url!calendarEncoded
<1>1. /\ Url!decodedBy = [dotplot |-> Url!dotplotDecoded, cohorts |-> Url!cohortsEncoded, wbr |-> Url!wbrEncoded,
                          calendar |-> Url!calendarEncoded]
      /\ Url!deletedBy = [dotplot |-> Url!dotplotDeleted, cohorts |-> Url!cohortsEncoded, wbr |-> Url!wbrEncoded,
                          calendar |-> Url!calendarEncoded]
  BY DEF Url!decodedBy, Url!deletedBy, Url!encodedBy
<1>2. Url!dotplotDecoded \subseteq Url!dotplotEncoded
  BY DEF Url!dotplotDecoded, Url!dotplotEncoded
<1>3. CASE view = "dotplot"
  BY <1>1, <1>2, <1>3 DEF Encoded, Url!encodedBy
<1>4. CASE view = "cohorts"
  BY <1>1, <1>4 DEF Encoded, Url!encodedBy
<1>5. CASE view = "wbr"
  BY <1>1, <1>5 DEF Encoded, Url!encodedBy
<1>6. CASE view = "calendar"
  BY <1>1, <1>6 DEF Encoded, Url!encodedBy
<1> QED BY <1>3, <1>4, <1>5, <1>6

LEMMA EncodeIs == ASSUME NEW s, StateFits(s) PROVE Url!encodeViewState(s) = s
<1>1. Series(s.series) /\ (s.split = "none" => s.series = <<>>)
  BY DEF StateFits, Said
<1>2. Url!capCohortSeries(s.series) = s.series
  BY <1>1, CapIs DEF Series
<1>3. Url!encodeViewState(s) = [keys |-> s.keys, split |-> s.split, series |-> s.series]
  BY <1>1, <1>2 DEF Url!encodeViewState
<1> QED BY <1>3 DEF StateFits

LEMMA DecodeFits ==
  ASSUME view \in {"dotplot", "cohorts", "wbr", "calendar"}, NEW u, LinkFits(u)
  PROVE  /\ Url!decodeViewState(u) = [keys |-> u.keys \cap Url!decodedBy[view], split |-> u.split, series |-> u.series]
         /\ StateFits(Url!decodeViewState(u))
<1>1. Series(u.series) /\ (u.split = "none" => u.series = <<>>) /\ u.keys \subseteq Encoded
      /\ (view # "cohorts" => u.split = "none")
  BY DEF LinkFits, Said
<1>2. Url!capCohortSeries(u.series) = u.series
  BY <1>1, CapIs DEF Series
<1>3. PICK k : k = u.keys \cap Url!decodedBy[view]
  OBVIOUS
<1>4. k \subseteq Encoded
  BY <1>1, <1>3
<1>5. Url!decodeViewState(u) = [keys |-> k, split |-> u.split, series |-> u.series]
  BY <1>1, <1>2, <1>3 DEF Url!decodeViewState
<1>6. PICK d : d = Url!decodeViewState(u)
  OBVIOUS
<1>7. d = [keys |-> k, split |-> u.split, series |-> u.series] /\ d.keys = k /\ d.split = u.split /\ d.series = u.series
  BY <1>5, <1>6
<1>8. StateFits(d)
  BY <1>1, <1>4, <1>7 DEF StateFits, Said
<1> QED BY <1>3, <1>5, <1>6, <1>8

LEMMA MergeFits ==
  ASSUME NEW u, LinkFits(u), NEW s, StateFits(s)
  PROVE  /\ LinkFits(Url!mergeIntoUrl(u, s))
         /\ ~(s = Url!Fresh /\ view \in Url!LeavesDefaults) =>
              Url!mergeIntoUrl(u, s) = [keys |-> (u.keys \ Url!deletedBy[view]) \cup s.keys, split |-> s.split,
                                        series |-> s.series, user |-> u.user]
<1>1. Url!encodeViewState(s) = s
  BY EncodeIs
<1>2. PICK k : k = (u.keys \ Url!deletedBy[view]) \cup s.keys
  OBVIOUS
<1>3. k \subseteq Encoded
  BY <1>2 DEF LinkFits, StateFits, Said
<1>4. PICK m : m = [u EXCEPT !.keys = k, !.split = s.split, !.series = s.series]
  OBVIOUS
<1>5. m = [keys |-> k, split |-> s.split, series |-> s.series, user |-> u.user]
  BY <1>4 DEF LinkFits
<1>6. m.keys = k /\ m.split = s.split /\ m.series = s.series /\ m.user = u.user
  BY <1>5
<1>7. LinkFits(m)
  BY <1>3, <1>5, <1>6 DEF LinkFits, StateFits, Said
<1>8. Url!mergeIntoUrl(u, s) = IF s = Url!Fresh /\ view \in Url!LeavesDefaults THEN u ELSE m
  BY Zenon, <1>1, <1>2, <1>4 DEF Url!mergeIntoUrl
<1>9. CASE s = Url!Fresh /\ view \in Url!LeavesDefaults
  BY <1>8, <1>9
<1>10. CASE ~(s = Url!Fresh /\ view \in Url!LeavesDefaults)
  BY <1>2, <1>5, <1>7, <1>8, <1>10
<1> QED BY <1>9, <1>10

LEMMA SettledOpens == UrlInv => Url!UrlOpensTheView /\ Url!SeriesFit
<1> SUFFICES ASSUME UrlInv PROVE Url!UrlOpensTheView /\ Url!SeriesFit
  OBVIOUS
<1>1. StateFits(state) /\ LinkFits(url) /\ view \in {"dotplot", "cohorts", "wbr", "calendar"}
  BY DEF UrlInv
<1>2. Url!SeriesFit
  BY <1>1 DEF Url!SeriesFit, StateFits, Said, Series, Url!IsInjective, IsInjective, Url!COHORT_COMPARE_MAX_SERIES
<1>3. ASSUME Url!Settled, view # "dotplot", view \notin Url!LeavesDefaults \/ state # Url!Fresh
      PROVE  Url!decodeViewState(url) = state
  <2>1. CASE state = Url!decodeViewState(url)
    BY <2>1
  <2>2. CASE Url!mergeIntoUrl(url, state) = url
    <3>1. url = [keys |-> (url.keys \ Encoded) \cup state.keys, split |-> state.split, series |-> state.series, user |-> url.user]
      BY <1>1, <1>3, <2>2, MergeFits, KeysAre
    <3>2. url.keys = (url.keys \ Encoded) \cup state.keys /\ url.split = state.split /\ url.series = state.series
      BY <3>1
    <3>3. url.keys \cap Encoded = state.keys
      BY <1>1, <3>2 DEF LinkFits, StateFits, Said
    <3>4. Url!decodeViewState(url) = [keys |-> url.keys \cap Encoded, split |-> url.split, series |-> url.series]
      BY <1>1, <1>3, DecodeFits, KeysAre
    <3>5. Url!decodeViewState(url) = [keys |-> state.keys, split |-> state.split, series |-> state.series]
      BY <3>2, <3>3, <3>4
    <3> QED BY <1>1, <3>5 DEF StateFits
  <2> QED BY <1>3, <2>1, <2>2 DEF UrlInv, Merged
<1>4. ASSUME Url!Settled, view = "dotplot", state # Url!Fresh, ~overtaken
      PROVE  Url!decodeViewState(url).keys \cap Url!dotplotDeleted = state.keys \cap Url!dotplotDeleted
  <2>1. CASE state = Url!decodeViewState(url)
    BY <2>1
  <2>2. CASE Url!mergeIntoUrl(url, state) = url
    <3>1. url = [keys |-> (url.keys \ Url!dotplotDeleted) \cup state.keys, split |-> state.split, series |-> state.series,
                 user |-> url.user]
      BY <1>1, <1>4, <2>2, MergeFits, KeysAre
    <3>2. url.keys \cap Url!dotplotDeleted = state.keys \cap Url!dotplotDeleted
      <4>1. url.keys = (url.keys \ Url!dotplotDeleted) \cup state.keys
        BY <3>1
      <4> QED BY <4>1
    <3>3. state.keys \cap Url!dotplotDeleted \subseteq Url!dotplotDecoded
      <4>1. state.keys \subseteq Url!dotplotEncoded
        BY <1>1, <1>4, KeysAre DEF StateFits, Said
      <4>2. Url!dotplotEncoded \cap Url!dotplotDeleted \subseteq Url!dotplotDecoded
        BY DEF Url!dotplotEncoded, Url!dotplotDeleted, Url!dotplotDecoded, Url!CellKeys, Url!ViewKeys
      <4> QED BY <4>1, <4>2
    <3>4. PICK d : d = Url!decodeViewState(url)
      OBVIOUS
    <3>5. d = [keys |-> url.keys \cap Url!dotplotDecoded, split |-> url.split, series |-> url.series]
      BY <1>1, <1>4, <3>4, DecodeFits, KeysAre
    <3>6. d.keys = url.keys \cap Url!dotplotDecoded
      BY <3>5
    <3> QED BY <3>2, <3>3, <3>4, <3>6
  <2> QED BY <1>4, <2>1, <2>2 DEF UrlInv, Merged
<1>5. ASSUME Url!Settled PROVE Url!UrlOpensTheView
  <2>1. CASE view = "dotplot"
    BY <1>4, <1>5, <2>1 DEF Url!UrlOpensTheView, Url!LeavesDefaults
  <2>2. CASE view # "dotplot"
    BY <1>3, <1>5, <2>2 DEF Url!UrlOpensTheView, Url!LeavesDefaults
  <2> QED BY <2>1, <2>2
<1> QED BY <1>2, <1>5 DEF Url!UrlOpensTheView

(* What the invariant says of a state or a link stays true of it.              *)
LEMMA SaidLater ==
  ASSUME view' = view
  PROVE  /\ \A s : StateFits(s) => s = [keys |-> s.keys, split |-> s.split, series |-> s.series]
         /\ state' = state /\ StateFits(state) => StateFits(state)'
         /\ url' = url /\ LinkFits(url) => LinkFits(url)'
         /\ pending' = pending /\ LinkFits(pending) => LinkFits(pending)'
         /\ \A s : state' = s /\ StateFits(s) => StateFits(state)'
         /\ \A u : url' = u /\ LinkFits(u) => LinkFits(url)'
         /\ \A u : pending' = u /\ LinkFits(u) => LinkFits(pending)'
BY DEF StateFits, LinkFits, Said, Encoded

LEMMA SetKeeps == ASSUME UrlInv, NEW s, StateFits(s), Url!Set(s) PROVE UrlInv'
<1>1. /\ state' = s /\ rendered' = TRUE /\ view' = view /\ overtaken' = overtaken /\ url' = url /\ pending' = pending
  BY DEF Url!Set
<1>2. StateFits(state)' /\ LinkFits(url)' /\ LinkFits(pending)'
  BY <1>1, SaidLater DEF UrlInv
<1> QED BY <1>1, <1>2 DEF UrlInv, Url!Settled

LEMMA ToggleKeeps == ASSUME UrlInv, NEW k \in Varied, Url!Toggle(k) PROVE UrlInv'
<1>1. PICK ks : ks = (IF k \in state.keys THEN state.keys \ {k} ELSE state.keys \cup {k})
  OBVIOUS
<1>2. PICK s : s = [state EXCEPT !.keys = ks]
  OBVIOUS
<1>3. k \in Encoded /\ StateFits(state)
  BY DEF Url!Toggle, Encoded, UrlInv
<1>4. s = [keys |-> ks, split |-> state.split, series |-> state.series]
  BY <1>2, <1>3 DEF StateFits
<1>5. ks \subseteq Encoded
  BY <1>1, <1>3 DEF StateFits, Said
<1>6. s.keys = ks /\ s.split = state.split /\ s.series = state.series
  BY <1>4
<1>7. StateFits(s)
  BY <1>3, <1>4, <1>5, <1>6 DEF StateFits, Said
<1>8. Url!Set(s)
  BY Zenon, <1>1, <1>2 DEF Url!Toggle
<1> QED BY <1>7, <1>8, SetKeeps

(* A state of the cohorts with another split and series.                       *)
LEMMA Compared ==
  ASSUME UrlInv, view = "cohorts", NEW split, NEW series, Series(series), split = "none" => series = <<>>
  PROVE  StateFits([keys |-> state.keys, split |-> split, series |-> series])
<1>1. state.keys \subseteq Encoded
  BY DEF UrlInv, StateFits, Said
<1>2. PICK s : s = [keys |-> state.keys, split |-> split, series |-> series]
  OBVIOUS
<1>3. s.keys = state.keys /\ s.split = split /\ s.series = series
  BY <1>2
<1>4. StateFits(s)
  BY <1>1, <1>2, <1>3 DEF StateFits, Said
<1> QED BY <1>2, <1>4
LEMMA StateIs ==
  ASSUME UrlInv, NEW split, NEW series
  PROVE  /\ [state EXCEPT !.split = split, !.series = series] = [keys |-> state.keys, split |-> split, series |-> series]
         /\ [state EXCEPT !.series = series, !.split = split] = [keys |-> state.keys, split |-> split, series |-> series]
         /\ [state EXCEPT !.series = series] = [keys |-> state.keys, split |-> state.split, series |-> series]
<1>1. state = [keys |-> state.keys, split |-> state.split, series |-> state.series]
  BY DEF UrlInv, StateFits
<1>2. PICK a : a = [state EXCEPT !.split = split, !.series = series]
  OBVIOUS
<1>3. PICK b : b = [state EXCEPT !.series = series, !.split = split]
  OBVIOUS
<1>4. a = [keys |-> state.keys, split |-> split, series |-> series]
  BY <1>1, <1>2
<1>5. b = [keys |-> state.keys, split |-> split, series |-> series]
  BY <1>1, <1>3
<1>6. [state EXCEPT !.series = series] = [keys |-> state.keys, split |-> state.split, series |-> series]
  BY <1>1
<1> QED BY <1>2, <1>3, <1>4, <1>5, <1>6

LEMMA TopIs == Series(Url!Top)
BY UrlAssumption, CapIs DEF Url!Top

LEMMA SplitKeeps == ASSUME UrlInv, NEW split \in Url!Splits, Url!setSplit(split) PROVE UrlInv'
<1>1. PICK top : top = (IF peopleIn THEN Url!Top ELSE <<>>)
  OBVIOUS
<1>2. Series(top) /\ Series(<<>>)
  BY <1>1, TopIs, EmptySeries
<1>3. view = "cohorts" /\ split # "none"
  BY DEF Url!setSplit, Url!Splits
<1>4. Url!Set(IF split = state.split THEN [state EXCEPT !.split = "none", !.series = <<>>]
              ELSE [state EXCEPT !.split = split, !.series = top])
  BY Zenon, <1>1 DEF Url!setSplit
<1>5. CASE split = state.split
  <2>1. Url!Set([keys |-> state.keys, split |-> "none", series |-> <<>>])
    BY <1>4, <1>5, StateIs
  <2>2. StateFits([keys |-> state.keys, split |-> "none", series |-> <<>>])
    BY <1>2, <1>3, Compared
  <2> QED BY <2>1, <2>2, SetKeeps
<1>6. CASE split # state.split
  <2>1. Url!Set([keys |-> state.keys, split |-> split, series |-> top])
    <3>1. Url!Set([state EXCEPT !.split = split, !.series = top])
      BY Zenon, <1>4, <1>6
    <3>2. [state EXCEPT !.split = split, !.series = top] = [keys |-> state.keys, split |-> split, series |-> top]
      BY StateIs
    <3> QED BY <3>1, <3>2
  <2>2. StateFits([keys |-> state.keys, split |-> split, series |-> top])
    BY <1>2, <1>3, Compared
  <2> QED BY <2>1, <2>2, SetKeeps
<1> QED BY <1>5, <1>6

LEMMA SeriesKeeps == ASSUME UrlInv, NEW series \in Range(SeriesKeys), Url!toggleSeries(series) PROVE UrlInv'
<1>1. view = "cohorts" /\ state.split # "none" /\ Series(state.series)
  BY DEF Url!toggleSeries, UrlInv, StateFits, Said
<1>2. CASE series \in Url!Range(state.series)
  <2>1. PICK next : next = Url!Only(state.series, Url!Range(state.series) \ {series})
    OBVIOUS
  <2>2. Url!Set([state EXCEPT !.series = next, !.split = IF next = <<>> THEN "none" ELSE @])
    BY Zenon, <1>2, <2>1 DEF Url!toggleSeries
  <2>3. PICK split : split = (IF next = <<>> THEN "none" ELSE state.split)
    OBVIOUS
  <2>4. Series(next) /\ (split = "none" => next = <<>>)
    BY <1>1, <2>1, <2>3, WithoutIs
  <2>5. Url!Set([state EXCEPT !.series = next, !.split = split])
    BY Zenon, <2>2, <2>3
  <2>6. Url!Set([keys |-> state.keys, split |-> split, series |-> next])
    BY <2>5, StateIs
  <2> QED BY <1>1, <2>4, <2>6, Compared, SetKeeps
<1>3. CASE series \notin Url!Range(state.series)
  <2>1. Len(state.series) < 3 /\ Url!Set([state EXCEPT !.series = Append(state.series, series)])
    BY Zenon, <1>3 DEF Url!toggleSeries, Url!COHORT_COMPARE_MAX_SERIES
  <2>2. PICK next : next = Append(state.series, series)
    OBVIOUS
  <2>3. series \notin Range(state.series)
    BY <1>3 DEF Url!Range, Range
  <2>4. Series(next)
    BY <1>1, <2>1, <2>2, <2>3, LongerIs
  <2>5. Url!Set([keys |-> state.keys, split |-> state.split, series |-> next])
    BY <2>1, <2>2, StateIs
  <2> QED BY <1>1, <2>4, <2>5, Compared, SetKeeps
<1> QED BY <1>2, <1>3

LEMMA CohortsLoadKeeps == ASSUME UrlInv, NEW split, Url!loadCohorts(split) PROVE UrlInv'
<1>1. /\ state' = (IF split # "none" /\ state.split = split /\ state.series = <<>>
                   THEN [state EXCEPT !.series = Url!Top] ELSE state)
      /\ rendered' = (rendered \/ state' # state)
      /\ view' = view /\ overtaken' = overtaken /\ url' = url /\ pending' = pending
  BY Zenon DEF Url!loadCohorts
<1>2. CASE state' = state
  <2>1. StateFits(state)' /\ LinkFits(url)' /\ LinkFits(pending)'
    BY <1>1, <1>2, SaidLater DEF UrlInv
  <2>2. Url!Settled' = Url!Settled
    BY <1>1, <1>2 DEF Url!Settled
  <2>3. Merged' = Merged
    BY <1>1, <1>2 DEF Merged, Url!mergeIntoUrl, Url!decodeViewState, Url!decodedBy, Url!deletedBy
  <2> QED BY <1>1, <2>1, <2>2, <2>3 DEF UrlInv
<1>3. CASE state' # state
  <2>1. state' = [keys |-> state.keys, split |-> state.split, series |-> Url!Top] /\ state.split # "none"
    BY <1>1, <1>3, StateIs
  <2>2. view = "cohorts"
    BY <2>1 DEF UrlInv, StateFits, Said
  <2>3. StateFits([keys |-> state.keys, split |-> state.split, series |-> Url!Top])
    BY <2>1, <2>2, TopIs, Compared
  <2>4. StateFits(state)' /\ LinkFits(url)' /\ LinkFits(pending)'
    BY <1>1, <2>1, <2>3, SaidLater DEF UrlInv
  <2>5. ~Url!Settled'
    BY <1>1, <1>3 DEF Url!Settled
  <2> QED BY <1>1, <2>4, <2>5 DEF UrlInv
<1> QED BY <1>2, <1>3

LEMMA ReplaceKeeps ==
  ASSUME UrlInv, NEW who \in BOOLEAN, Url!Replace([url EXCEPT !.user = who])
  PROVE  UrlInv'
<1>1. PICK u : u = [url EXCEPT !.user = who]
  OBVIOUS
<1>2. /\ view = "dotplot" /\ rendered' = rendered /\ pending' = u /\ overtaken' = (overtaken \/ pending # url)
      /\ view' = view /\ state' = state /\ url' = url
  BY <1>1 DEF Url!Replace
<1>3. u = [keys |-> url.keys, split |-> url.split, series |-> url.series, user |-> who]
  BY <1>1 DEF UrlInv, LinkFits
<1>4. u.keys = url.keys /\ u.split = url.split /\ u.series = url.series /\ u.user = who
  BY <1>3
<1>5. LinkFits(u)
  BY <1>3, <1>4 DEF UrlInv, LinkFits, Said
<1>6. StateFits(state)' /\ LinkFits(url)' /\ LinkFits(pending)'
  BY <1>2, <1>5, SaidLater DEF UrlInv
<1>7. Url!Settled' /\ ~overtaken' => Url!Settled /\ ~overtaken
  BY <1>2 DEF Url!Settled, Url!Replace
<1>8. Merged' = Merged
  BY <1>2 DEF Merged, Url!mergeIntoUrl, Url!decodeViewState, Url!decodedBy, Url!deletedBy
<1> QED BY <1>2, <1>6, <1>7, <1>8 DEF UrlInv

LEMMA SyncKeeps == ASSUME UrlInv, Url!syncUrl PROVE UrlInv'
<1>1. PICK m : m = Url!mergeIntoUrl(url, state)
  OBVIOUS
<1>2. /\ rendered' = FALSE /\ pending' = (IF m # url THEN m ELSE pending)
      /\ view' = view /\ overtaken' = overtaken /\ state' = state /\ url' = url
  BY <1>1 DEF Url!syncUrl
<1>3. LinkFits(m)
  BY <1>1, MergeFits DEF UrlInv
<1>4. StateFits(state)' /\ LinkFits(url)' /\ LinkFits(pending)'
  BY <1>2, <1>3, SaidLater DEF UrlInv
<1>5. Url!Settled' => m = url
  BY <1>2 DEF Url!Settled
<1>6. m = url => Merged'
  BY <1>1, <1>2 DEF Merged, Url!mergeIntoUrl, Url!decodeViewState, Url!decodedBy, Url!deletedBy
<1> QED BY <1>2, <1>4, <1>5, <1>6 DEF UrlInv

LEMMA CommitKeeps == ASSUME UrlInv, Url!Commit PROVE UrlInv'
<1>1. /\ url' = pending /\ rendered' = TRUE /\ view' = view /\ overtaken' = overtaken /\ state' = state
      /\ pending' = pending
  BY DEF Url!Commit
<1>2. StateFits(state)' /\ LinkFits(url)' /\ LinkFits(pending)'
  BY <1>1, SaidLater DEF UrlInv
<1> QED BY <1>1, <1>2 DEF UrlInv, Url!Settled

LEMMA OpenKeeps == ASSUME UrlInv, Url!Open PROVE UrlInv'
<1>1. PICK d : d = Url!decodeViewState(url)
  OBVIOUS
<1>2. /\ state' = d /\ pending' = url /\ rendered' = FALSE /\ view' = view /\ overtaken' = overtaken /\ url' = url
  BY <1>1 DEF Url!Open
<1>3. StateFits(d)
  BY <1>1, DecodeFits DEF UrlInv
<1>4. StateFits(state)' /\ LinkFits(url)' /\ LinkFits(pending)'
  BY <1>2, <1>3, SaidLater DEF UrlInv
<1>5. Merged'
  <2>1. Url!decodeViewState(url)' = d
    BY <1>1, <1>2 DEF Url!decodeViewState, Url!decodedBy
  <2> QED BY <1>2, <2>1 DEF Merged
<1> QED BY <1>2, <1>4, <1>5 DEF UrlInv

LEMMA UrlSteps == UrlInv /\ [Url!Next]_urlVars => UrlInv'
<1> SUFFICES ASSUME UrlInv, [Url!Next]_urlVars PROVE UrlInv'
  OBVIOUS
<1>1. ASSUME NEW k \in Varied, Url!Toggle(k) PROVE UrlInv'
  BY <1>1, ToggleKeeps
<1>2. ASSUME NEW s \in Url!Splits, Url!setSplit(s) PROVE UrlInv'
  BY <1>2, SplitKeeps
<1>3. ASSUME NEW k \in Url!Range(SeriesKeys), Url!toggleSeries(k) PROVE UrlInv'
  <2>1. k \in Range(SeriesKeys)
    BY DEF Url!Range, Range
  <2> QED BY <1>3, <2>1, SeriesKeeps
<1>4. ASSUME NEW s \in Url!Splits \cup {"none"}, Url!loadCohorts(s) PROVE UrlInv'
  BY <1>4, CohortsLoadKeeps
<1>5. ASSUME Url!openPerson \/ Url!closePerson PROVE UrlInv'
  BY <1>5, ReplaceKeeps DEF Url!openPerson, Url!closePerson
<1>6. ASSUME Url!syncUrl \/ Url!Commit \/ Url!Open PROVE UrlInv'
  BY <1>6, SyncKeeps, CommitKeeps, OpenKeeps
<1>7. ASSUME UNCHANGED urlVars PROVE UrlInv'
  <2>1. /\ view' = view /\ state' = state /\ url' = url /\ pending' = pending /\ rendered' = rendered
        /\ overtaken' = overtaken
    BY <1>7 DEF urlVars
  <2>2. StateFits(state)' /\ LinkFits(url)' /\ LinkFits(pending)'
    BY <2>1, SaidLater DEF UrlInv
  <2>3. Url!Settled' = Url!Settled /\ Merged' = Merged
    BY <2>1 DEF Url!Settled, Merged, Url!mergeIntoUrl, Url!decodeViewState, Url!decodedBy, Url!deletedBy
  <2> QED BY <2>1, <2>2, <2>3 DEF UrlInv
<1> QED BY <1>1, <1>2, <1>3, <1>4, <1>5, <1>6, <1>7 DEF Url!Next

LEMMA UrlStarts == Url!Init => UrlInv
<1> SUFFICES ASSUME Url!Init PROVE UrlInv
  OBVIOUS
<1>1. /\ view \in {"dotplot", "cohorts", "wbr", "calendar"} /\ url = Url!Blank /\ pending = Url!Blank
      /\ state = Url!Fresh /\ overtaken = FALSE
  BY DEF Url!Init
<1>2. StateFits(Url!Fresh)
  BY EmptySeries DEF StateFits, Said, Url!Fresh
<1>3. LinkFits(Url!Blank)
  BY EmptySeries DEF LinkFits, Said, Url!Blank
<1>4. Url!decodeViewState(Url!Blank) = Url!Fresh
  <2>1. Url!Blank.keys \cap Url!decodedBy[view] = {} /\ Url!Blank.split = "none" /\ Url!Blank.series = <<>>
    BY DEF Url!Blank
  <2>2. Url!decodeViewState(Url!Blank) =
          [keys |-> Url!Blank.keys \cap Url!decodedBy[view], split |-> Url!Blank.split, series |-> Url!Blank.series]
    BY <1>1, <1>3, DecodeFits
  <2> QED BY <2>1, <2>2 DEF Url!Fresh
<1> QED BY <1>1, <1>2, <1>3, <1>4 DEF UrlInv, Merged

UrlHolds == Url!UrlOpensTheView /\ Url!SeriesFit
LEMMA UrlIs == UrlInv => UrlHolds
BY SettledOpens DEF UrlHolds

(* A settled URL opens the view it was made for, for every order of clicks,    *)
(* answers, renders and committed replaces; the compared series stay three at  *)
(* most and different (mergeIntoUrl, decodeViewState, toggleSeries).           *)
THEOREM SettledUrlOpensTheView == Url!Init /\ [][Url!Next]_urlVars => []UrlHolds
BY UrlIs, UrlStarts, UrlSteps, PTL

-----------------------------------------------------------------------------
(* The two profile forms.  While the save begun last is the only one, the      *)
(* other page has none under way, the fields it has passed are stored, and an  *)
(* answer that said saved is of a profile that is stored still.                *)
IsProfile(p) == p = [name |-> p.name, founded |-> p.founded, city |-> p.city]
GetFits(g) ==
  /\ g = [space |-> g.space, key |-> g.key, answer |-> g.answer, profile |-> g.profile]
  /\ g.space \in ProfileSpaces /\ IsProfile(g.profile)
SaveFits(q) ==
  /\ q = [pc |-> q.pc, space |-> q.space, key |-> q.key, sent |-> q.sent] /\ IsProfile(q.sent)
  /\ q.pc # "idle" => q.space \in ProfileSpaces
ProfileTypes ==
  /\ space \in ProfileSpaces
  /\ spaces = [s \in ProfileSpaces |-> spaces[s]] /\ \A s \in ProfileSpaces : IsProfile(spaces[s])
  /\ form = [p \in Set!Pages |-> form[p]] /\ \A p \in Set!Pages : IsProfile(form[p])
  /\ save = [p \in Set!Pages |-> save[p]] /\ \A p \in Set!Pages : SaveFits(save[p])
  /\ status = [p \in Set!Pages |-> status[p]]
  /\ \A g \in gets : GetFits(g)
Written(q) ==
  /\ q.pc \in {"founded", "city"} => spaces[q.space].name = q.sent.name
  /\ q.pc = "city" => spaces[q.space].founded = q.sent.founded
  /\ q.pc = "saved" => spaces[q.space] = q.sent
Alone(p) == last = p /\ ~overlapped
SavesFit ==
  \A p \in Set!Pages : Alone(p) =>
    /\ \A q \in Set!Pages : q # p => save[q].pc = "idle"
    /\ Written(save[p])
    /\ status[p].kind = "ok" => save[p].pc = "idle" /\ spaces[status[p].space] = status[p].sent
ProfileInv == ProfileTypes /\ SavesFit
formVars == <<spaces, space, key, form, gets, save, status, last, overlapped>>

LEMMA ProfilesAre ==
  /\ IsProfile(Set!Default) /\ IsProfile(Set!Blank) /\ SaveFits(Set!NoSave) /\ Set!NoSave.pc = "idle"
  /\ \A p, c : IsProfile(p) => IsProfile([p EXCEPT !.city = c])
BY DEF IsProfile, SaveFits, Set!Default, Set!Blank, Set!NoSave
LEMMA TakenIs == ASSUME NEW old, NEW p, IsProfile(p) PROVE IsProfile(Set!Taken(old, p))
BY ProfilesAre DEF Set!Taken

(* Where no save, no answer to one and no stored profile changes.              *)
LEMMA SavesLast ==
  ASSUME ProfileInv, spaces' = spaces, save' = save, status' = status, last' = last, overlapped' = overlapped
  PROVE  /\ SavesFit'
         /\ spaces' = [s \in ProfileSpaces |-> spaces'[s]] /\ \A s \in ProfileSpaces : IsProfile(spaces'[s])
         /\ save' = [p \in Set!Pages |-> save'[p]] /\ \A p \in Set!Pages : SaveFits(save'[p])
         /\ status' = [p \in Set!Pages |-> status'[p]]
BY DEF ProfileInv, ProfileTypes, SavesFit, Alone, Written

LEMMA LoadConfigKeeps == ASSUME ProfileInv, NEW s \in ProfileSpaces, NEW k \in BOOLEAN, Set!LoadConfig(s, k) PROVE ProfileInv'
<1>1. PICK g : g = [space |-> s, key |-> k, answer |-> "none", profile |-> Set!Default]
  OBVIOUS
<1>2. /\ space' = s /\ gets' = gets \cup {g}
      /\ spaces' = spaces /\ form' = form /\ save' = save /\ status' = status /\ last' = last /\ overlapped' = overlapped
  BY <1>1 DEF Set!LoadConfig
<1>3. GetFits(g)
  BY <1>1, ProfilesAre DEF GetFits
<1>4. \A h \in gets' : GetFits(h)
  BY <1>2, <1>3 DEF ProfileInv, ProfileTypes
<1>5. form' = [p \in Set!Pages |-> form'[p]] /\ \A p \in Set!Pages : IsProfile(form'[p])
  BY <1>2 DEF ProfileInv, ProfileTypes
<1> QED BY <1>2, <1>4, <1>5, SavesLast DEF ProfileInv, ProfileTypes

LEMMA ServeConfigKeeps == ASSUME ProfileInv, NEW g \in gets, Set!ServeConfig(g) PROVE ProfileInv'
<1>1. PICK a : a = (IF Set!Allowed(g.space, g.key) THEN "ok" ELSE "refused")
  OBVIOUS
<1>2. PICK p : p = (IF Set!Allowed(g.space, g.key) THEN spaces[g.space] ELSE Set!Default)
  OBVIOUS
<1>3. PICK h : h = [g EXCEPT !.answer = a, !.profile = p]
  OBVIOUS
<1>4. gets' = (gets \ {g}) \cup {h}
  BY Zenon, <1>1, <1>2, <1>3 DEF Set!ServeConfig
<1>5. /\ space' = space /\ spaces' = spaces /\ form' = form /\ save' = save /\ status' = status /\ last' = last
      /\ overlapped' = overlapped
  BY DEF Set!ServeConfig
<1>6. GetFits(g) /\ IsProfile(spaces[g.space])
  BY DEF ProfileInv, ProfileTypes, GetFits
<1>7. IsProfile(p)
  BY <1>2, <1>6, ProfilesAre
<1>8. h = [space |-> g.space, key |-> g.key, answer |-> a, profile |-> p]
  BY <1>3, <1>6 DEF GetFits
<1>9. GetFits(h)
  BY <1>6, <1>7, <1>8 DEF GetFits
<1>10. \A x \in gets' : GetFits(x)
  BY <1>4, <1>9 DEF ProfileInv, ProfileTypes
<1>11. form' = [q \in Set!Pages |-> form'[q]] /\ (\A q \in Set!Pages : IsProfile(form'[q])) /\ space' \in ProfileSpaces
  BY <1>5 DEF ProfileInv, ProfileTypes
<1> QED BY <1>5, <1>10, <1>11, SavesLast DEF ProfileInv, ProfileTypes

(* A form with a profile in it.                                                *)
LEMMA FormFits ==
  ASSUME ProfileInv, NEW p \in Set!Pages, NEW x, IsProfile(x), form' = [form EXCEPT ![p] = x]
  PROVE  form' = [q \in Set!Pages |-> form'[q]] /\ \A q \in Set!Pages : IsProfile(form'[q])
<1>1. form = [q \in Set!Pages |-> form[q]] /\ \A q \in Set!Pages : IsProfile(form[q])
  BY DEF ProfileInv, ProfileTypes
<1> HIDE DEF IsProfile
<1> QED BY <1>1

LEMMA ConfigAnswersKeeps == ASSUME ProfileInv, NEW g \in gets, Set!ConfigAnswers(g) PROVE ProfileInv'
<1>1. PICK x : x = Set!Taken(form["settings"], g.profile)
  OBVIOUS
<1>2. /\ gets' = gets \ {g} /\ form' = (IF g.answer = "ok" THEN [form EXCEPT !["settings"] = x] ELSE form)
      /\ space' = space /\ spaces' = spaces /\ save' = save /\ status' = status /\ last' = last
      /\ overlapped' = overlapped
  BY <1>1 DEF Set!ConfigAnswers
<1>3. IsProfile(x) /\ "settings" \in Set!Pages
  BY <1>1, TakenIs DEF ProfileInv, ProfileTypes, GetFits, Set!Pages
<1>4. form' = [q \in Set!Pages |-> form'[q]] /\ (\A q \in Set!Pages : IsProfile(form'[q]))
  <2>1. CASE form' = form
    BY <2>1 DEF ProfileInv, ProfileTypes
  <2>2. CASE form' = [form EXCEPT !["settings"] = x]
    BY <1>3, <2>2, FormFits
  <2> QED BY <1>2, <2>1, <2>2
<1>5. space' \in ProfileSpaces /\ \A h \in gets' : GetFits(h)
  BY <1>2 DEF ProfileInv, ProfileTypes
<1> QED BY <1>2, <1>4, <1>5, SavesLast DEF ProfileInv, ProfileTypes

LEMMA TypeKeeps == ASSUME ProfileInv, NEW p \in Set!Pages, NEW d \in Drafts, Set!Type(p, d) PROVE ProfileInv'
<1>1. /\ form' = [form EXCEPT ![p] = d] /\ gets' = gets
      /\ space' = space /\ spaces' = spaces /\ save' = save /\ status' = status /\ last' = last
      /\ overlapped' = overlapped
  BY DEF Set!Type
<1>2. IsProfile(d)
  BY ProfileAssumption DEF IsProfile
<1>3. form' = [q \in Set!Pages |-> form'[q]] /\ \A q \in Set!Pages : IsProfile(form'[q])
  BY <1>1, <1>2, FormFits
<1>4. space' \in ProfileSpaces /\ \A h \in gets' : GetFits(h)
  BY <1>1 DEF ProfileInv, ProfileTypes
<1> QED BY <1>1, <1>3, <1>4, SavesLast DEF ProfileInv, ProfileTypes

LEMMA SaveProfileKeeps == ASSUME ProfileInv, NEW p \in Set!Pages, Set!SaveProfile(p) PROVE ProfileInv'
<1>1. PICK x : x = [pc |-> "name", space |-> space, key |-> key, sent |-> form[p]]
  OBVIOUS
<1>2. /\ save[p].pc = "idle" /\ save' = [save EXCEPT ![p] = x] /\ status' = [status EXCEPT ![p] = Set!NoStatus]
      /\ last' = p /\ overlapped' = (\E q \in Set!Pages : save[q].pc # "idle")
      /\ spaces' = spaces /\ space' = space /\ form' = form /\ gets' = gets
  BY <1>1 DEF Set!SaveProfile
<1>3. ProfileTypes
  BY DEF ProfileInv
<1>4. SaveFits(x) /\ x.pc = "name"
  BY <1>1, <1>3 DEF ProfileTypes, SaveFits
<1>5. save' = [q \in Set!Pages |-> IF q = p THEN x ELSE save[q]]
  BY <1>2, <1>3 DEF ProfileTypes
<1>6. status' = [q \in Set!Pages |-> IF q = p THEN Set!NoStatus ELSE status[q]]
  BY <1>2, <1>3 DEF ProfileTypes
<1>7. ProfileTypes'
  <2>1. save' = [q \in Set!Pages |-> save'[q]] /\ \A q \in Set!Pages : SaveFits(save'[q])
    BY <1>3, <1>4, <1>5 DEF ProfileTypes
  <2>2. status' = [q \in Set!Pages |-> status'[q]]
    BY <1>6
  <2> QED BY <1>2, <1>3, <2>1, <2>2 DEF ProfileTypes
<1>8. SavesFit'
  <2> SUFFICES ASSUME NEW q \in Set!Pages, Alone(q)'
               PROVE  /\ \A r \in Set!Pages : r # q => save'[r].pc = "idle"
                      /\ Written(save[q])'
                      /\ status'[q].kind = "ok" => save'[q].pc = "idle" /\ spaces'[status'[q].space] = status'[q].sent
    BY DEF SavesFit
  <2>1. q = p /\ \A r \in Set!Pages : save[r].pc = "idle"
    BY <1>2 DEF Alone
  <2>2. \A r \in Set!Pages : r # q => save'[r].pc = "idle"
    BY <1>5, <2>1
  <2>3. save'[q].pc = "name" /\ status'[q].kind # "ok"
    BY <1>4, <1>5, <1>6, <2>1 DEF Set!NoStatus
  <2> QED BY <2>2, <2>3 DEF Written
<1> QED BY <1>7, <1>8 DEF ProfileInv

(* A statement of a save: all it may do, and that it keeps the invariant when  *)
(* what it stores next to what was stored is what its state stands for.        *)
LEMMA SaveStepKeeps ==
  ASSUME ProfileInv, NEW p \in Set!Pages, NEW at \in {"name", "founded", "city"}, NEW next \in {"founded", "city", "saved"},
         NEW invalid, NEW profile, IsProfile(profile), Set!SaveStep(p, at, next, invalid, profile),
         Alone(p) =>
           /\ next \in {"founded", "city"} => profile.name = save[p].sent.name
           /\ next = "city" => profile.founded = save[p].sent.founded
           /\ next = "saved" => profile = save[p].sent
  PROVE  ProfileInv'
<1>1. PICK q : q = save[p]
  OBVIOUS
<1>2. /\ q.pc = at /\ space' = space /\ form' = form /\ gets' = gets /\ status' = status /\ last' = last
      /\ overlapped' = overlapped
  BY <1>1 DEF Set!SaveStep
<1>3. PICK pc \in {"refused", next} :
        /\ save' = [save EXCEPT ![p].pc = pc] /\ spaces' \in {spaces, [spaces EXCEPT ![q.space] = profile]}
        /\ pc = next => spaces' = [spaces EXCEPT ![q.space] = profile]
  <2>1. \/ save' = [save EXCEPT ![p].pc = "refused"] /\ spaces' \in {spaces, [spaces EXCEPT ![q.space] = profile]}
        \/ save' = [save EXCEPT ![p].pc = next] /\ spaces' = [spaces EXCEPT ![q.space] = profile]
    BY <1>1 DEF Set!SaveStep
  <2>2. next # "refused"
    OBVIOUS
  <2> QED BY <2>1, <2>2
<1>4. ProfileTypes
  BY DEF ProfileInv
<1>5. SaveFits(q) /\ q.pc # "idle" /\ q.space \in ProfileSpaces
  BY <1>1, <1>2, <1>4 DEF ProfileTypes, SaveFits
<1>6. PICK x : x = [q EXCEPT !.pc = pc]
  OBVIOUS
<1>7. x = [pc |-> pc, space |-> q.space, key |-> q.key, sent |-> q.sent]
  BY <1>5, <1>6 DEF SaveFits
<1>8. SaveFits(x) /\ x.pc = pc /\ x.space = q.space /\ x.sent = q.sent
  BY <1>5, <1>7 DEF SaveFits
<1>9. save' = [r \in Set!Pages |-> IF r = p THEN x ELSE save[r]]
  BY <1>1, <1>3, <1>4, <1>6 DEF ProfileTypes
<1>10. spaces' = [s \in ProfileSpaces |-> spaces'[s]] /\ \A s \in ProfileSpaces : IsProfile(spaces'[s])
  <2>1. CASE spaces' = spaces
    BY <1>4, <2>1 DEF ProfileTypes
  <2>2. CASE spaces' = [spaces EXCEPT ![q.space] = profile]
    <3> HIDE DEF IsProfile
    <3>1. spaces' = [s \in ProfileSpaces |-> IF s = q.space THEN profile ELSE spaces[s]]
      BY <1>4, <2>2 DEF ProfileTypes
    <3> QED BY <1>4, <3>1 DEF ProfileTypes
  <2> QED BY <1>3, <2>1, <2>2
<1>11. pc = next => spaces'[q.space] = profile
  BY <1>3, <1>4, <1>5 DEF ProfileTypes
<1>12. ProfileTypes'
  <2>1. save' = [r \in Set!Pages |-> save'[r]] /\ \A r \in Set!Pages : SaveFits(save'[r])
    BY <1>4, <1>8, <1>9 DEF ProfileTypes
  <2> QED BY <1>2, <1>4, <1>10, <2>1 DEF ProfileTypes
<1>13. SavesFit'
  <2> SUFFICES ASSUME NEW r \in Set!Pages, Alone(r)'
               PROVE  /\ \A t \in Set!Pages : t # r => save'[t].pc = "idle"
                      /\ Written(save[r])'
                      /\ status'[r].kind = "ok" => save'[r].pc = "idle" /\ spaces'[status'[r].space] = status'[r].sent
    BY DEF SavesFit
  <2>1. Alone(r)
    BY <1>2 DEF Alone
  <2>2. /\ \A t \in Set!Pages : t # r => save[t].pc = "idle"
        /\ status[r].kind = "ok" => save[r].pc = "idle"
    BY <2>1 DEF ProfileInv, SavesFit
  <2>3. r = p
    BY <1>1, <1>5, <2>2
  <2>4. \A t \in Set!Pages : t # r => save'[t].pc = "idle"
    BY <1>9, <2>2, <2>3
  <2>5. status'[r].kind # "ok"
    BY <1>1, <1>2, <1>5, <2>2, <2>3
  <2>6. save'[r] = x
    BY <1>9, <2>3
  <2>7. Written(x)'
    <3>1. CASE pc = "refused"
      BY <1>8, <3>1 DEF Written
    <3>2. CASE pc = next
      BY <1>1, <1>8, <1>11, <2>1, <2>3, <3>2 DEF Written
    <3> QED BY <1>3, <3>1, <3>2
  <2>8. Written(save[r])'
    BY <2>6, <2>7 DEF Written
  <2> QED BY <2>4, <2>5, <2>8
<1> QED BY <1>12, <1>13 DEF ProfileInv

LEMMA SaveNameKeeps == ASSUME ProfileInv, NEW p \in Set!Pages, Set!SaveName(p) PROVE ProfileInv'
<1>1. PICK q : q = save[p]
  OBVIOUS
<1>2. PICK profile : profile = [spaces[q.space] EXCEPT !.name = q.sent.name]
  OBVIOUS
<1>3. Set!SaveStep(p, "name", "founded", q.sent.name = "blank", profile)
  BY <1>1, <1>2 DEF Set!SaveName
<1>4. q.pc = "name" /\ SaveFits(q)
  BY <1>1, <1>3 DEF Set!SaveStep, ProfileInv, ProfileTypes
<1>5. IsProfile(spaces[q.space])
  BY <1>4 DEF ProfileInv, ProfileTypes, SaveFits
<1>6. profile = [name |-> q.sent.name, founded |-> spaces[q.space].founded, city |-> spaces[q.space].city]
  BY <1>2, <1>5 DEF IsProfile
<1>7. IsProfile(profile) /\ profile.name = q.sent.name
  BY <1>6 DEF IsProfile
<1> QED BY <1>1, <1>3, <1>7, SaveStepKeeps

LEMMA SaveFoundedKeeps == ASSUME ProfileInv, NEW p \in Set!Pages, Set!SaveFounded(p) PROVE ProfileInv'
<1>1. PICK q : q = save[p]
  OBVIOUS
<1>2. PICK profile : profile = [spaces[q.space] EXCEPT !.founded = q.sent.founded]
  OBVIOUS
<1>3. Set!SaveStep(p, "founded", "city", q.sent.founded = "future", profile)
  BY <1>1, <1>2 DEF Set!SaveFounded
<1>4. q.pc = "founded" /\ SaveFits(q)
  BY <1>1, <1>3 DEF Set!SaveStep, ProfileInv, ProfileTypes
<1>5. IsProfile(spaces[q.space])
  BY <1>4 DEF ProfileInv, ProfileTypes, SaveFits
<1>6. profile = [name |-> spaces[q.space].name, founded |-> q.sent.founded, city |-> spaces[q.space].city]
  BY <1>2, <1>5 DEF IsProfile
<1>7. IsProfile(profile) /\ profile.founded = q.sent.founded /\ profile.name = spaces[q.space].name
  BY <1>6 DEF IsProfile
<1>8. Alone(p) => spaces[q.space].name = q.sent.name
  BY <1>1, <1>4 DEF ProfileInv, SavesFit, Written
<1> QED BY <1>1, <1>3, <1>7, <1>8, SaveStepKeeps

LEMMA SaveCityKeeps == ASSUME ProfileInv, NEW p \in Set!Pages, Set!SaveCity(p) PROVE ProfileInv'
<1>1. PICK q : q = save[p]
  OBVIOUS
<1>2. PICK profile : profile = [spaces[q.space] EXCEPT !.city = q.sent.city]
  OBVIOUS
<1>3. Set!SaveStep(p, "city", "saved", q.sent.city = "nowhere", profile)
  BY <1>1, <1>2 DEF Set!SaveCity
<1>4. q.pc = "city" /\ SaveFits(q)
  BY <1>1, <1>3 DEF Set!SaveStep, ProfileInv, ProfileTypes
<1>5. IsProfile(spaces[q.space]) /\ IsProfile(q.sent)
  BY <1>4 DEF ProfileInv, ProfileTypes, SaveFits
<1>6. profile = [name |-> spaces[q.space].name, founded |-> spaces[q.space].founded, city |-> q.sent.city]
  BY <1>2, <1>5 DEF IsProfile
<1>7. IsProfile(profile)
  BY <1>6 DEF IsProfile
<1>8. Alone(p) => spaces[q.space].name = q.sent.name /\ spaces[q.space].founded = q.sent.founded
  BY <1>1, <1>4 DEF ProfileInv, SavesFit, Written
<1>9. Alone(p) => profile = q.sent
  BY <1>5, <1>6, <1>8 DEF IsProfile
<1> QED BY <1>1, <1>3, <1>7, <1>9, SaveStepKeeps

LEMMA SaveAnswersKeeps == ASSUME ProfileInv, NEW p \in Set!Pages, Set!SaveAnswers(p) PROVE ProfileInv'
<1>1. PICK q : q = save[p]
  OBVIOUS
<1>2. PICK said : said = [kind |-> IF q.pc = "saved" THEN "ok" ELSE "error", space |-> q.space, sent |-> q.sent]
  OBVIOUS
<1>3. PICK x : x = Set!Taken(form[p], spaces[q.space])
  OBVIOUS
<1>4. /\ q.pc \in {"saved", "refused"} /\ save' = [save EXCEPT ![p] = Set!NoSave] /\ status' = [status EXCEPT ![p] = said]
      /\ form' = (IF p = "settings" /\ q.pc = "saved" THEN [form EXCEPT ![p] = x] ELSE form)
      /\ spaces' = spaces /\ space' = space /\ gets' = gets /\ last' = last /\ overlapped' = overlapped
  BY <1>1, <1>2, <1>3 DEF Set!SaveAnswers
<1>5. ProfileTypes
  BY DEF ProfileInv
<1>6. SaveFits(q) /\ q.space \in ProfileSpaces /\ q.pc # "idle"
  BY <1>1, <1>4, <1>5 DEF ProfileTypes, SaveFits
<1>7. IsProfile(x)
  BY <1>3, <1>5, <1>6, TakenIs DEF ProfileTypes
<1>8. form' = [r \in Set!Pages |-> form'[r]] /\ \A r \in Set!Pages : IsProfile(form'[r])
  <2>1. CASE form' = form
    BY <1>5, <2>1 DEF ProfileTypes
  <2>2. CASE form' = [form EXCEPT ![p] = x]
    BY <1>7, <2>2, FormFits
  <2> QED BY <1>4, <2>1, <2>2
<1>9. save' = [r \in Set!Pages |-> IF r = p THEN Set!NoSave ELSE save[r]]
  BY <1>4, <1>5 DEF ProfileTypes
<1>10. status' = [r \in Set!Pages |-> IF r = p THEN said ELSE status[r]]
  BY <1>4, <1>5 DEF ProfileTypes
<1>11. ProfileTypes'
  <2>1. save' = [r \in Set!Pages |-> save'[r]] /\ \A r \in Set!Pages : SaveFits(save'[r])
    BY <1>5, <1>9, ProfilesAre DEF ProfileTypes
  <2>2. status' = [r \in Set!Pages |-> status'[r]]
    BY <1>10
  <2> QED BY <1>4, <1>5, <1>8, <2>1, <2>2 DEF ProfileTypes
<1>12. SavesFit'
  <2> SUFFICES ASSUME NEW r \in Set!Pages, Alone(r)'
               PROVE  /\ \A t \in Set!Pages : t # r => save'[t].pc = "idle"
                      /\ Written(save[r])'
                      /\ status'[r].kind = "ok" => save'[r].pc = "idle" /\ spaces'[status'[r].space] = status'[r].sent
    BY DEF SavesFit
  <2>1. Alone(r)
    BY <1>4 DEF Alone
  <2>2. (\A t \in Set!Pages : t # r => save[t].pc = "idle") /\ Written(save[r])
    BY <2>1 DEF ProfileInv, SavesFit
  <2>3. r = p
    BY <1>1, <1>6, <2>2
  <2>4. \A t \in Set!Pages : t # r => save'[t].pc = "idle"
    BY <1>9, <2>2, <2>3
  <2>5. save'[r] = Set!NoSave /\ save'[r].pc = "idle"
    BY <1>9, <2>3, ProfilesAre
  <2>6. Written(save[r])'
    BY <2>5 DEF Written
  <2>7. status'[r] = said
    BY <1>10, <2>3
  <2>8. said.kind = "ok" => spaces'[said.space] = said.sent
    <3>1. said.kind = "ok" => q.pc = "saved"
      BY <1>2
    <3>2. q.pc = "saved" => spaces[q.space] = q.sent
      BY <1>1, <2>2, <2>3 DEF Written
    <3>3. said.space = q.space /\ said.sent = q.sent
      BY <1>2
    <3> QED BY <1>4, <3>1, <3>2, <3>3
  <2> QED BY <2>4, <2>5, <2>6, <2>7, <2>8
<1> QED BY <1>11, <1>12 DEF ProfileInv

LEMMA ProfileRests == ASSUME ProfileInv, UNCHANGED formVars PROVE ProfileInv'
<1>1. /\ space' = space /\ spaces' = spaces /\ form' = form /\ gets' = gets /\ save' = save /\ status' = status
      /\ last' = last /\ overlapped' = overlapped
  BY DEF formVars
<1>2. space' \in ProfileSpaces /\ (\A h \in gets' : GetFits(h)) /\ form' = [q \in Set!Pages |-> form'[q]]
      /\ \A q \in Set!Pages : IsProfile(form'[q])
  BY <1>1 DEF ProfileInv, ProfileTypes
<1> QED BY <1>1, <1>2, SavesLast DEF ProfileInv, ProfileTypes

LEMMA ProfileSteps == ProfileInv /\ (Set!ProfileNext \/ UNCHANGED formVars) => ProfileInv'
<1> SUFFICES ASSUME ProfileInv, Set!ProfileNext \/ UNCHANGED formVars PROVE ProfileInv'
  OBVIOUS
<1>1. ASSUME NEW s \in ProfileSpaces, NEW k \in BOOLEAN, Set!LoadConfig(s, k) PROVE ProfileInv'
  BY <1>1, LoadConfigKeeps
<1>2. ASSUME NEW g \in gets, Set!ServeConfig(g) \/ Set!ConfigAnswers(g) PROVE ProfileInv'
  BY <1>2, ServeConfigKeeps, ConfigAnswersKeeps
<1>3. ASSUME NEW p \in Set!Pages,
             \/ Set!SaveProfile(p) \/ Set!SaveName(p) \/ Set!SaveFounded(p) \/ Set!SaveCity(p) \/ Set!SaveAnswers(p)
             \/ \E d \in Drafts : Set!Type(p, d)
      PROVE  ProfileInv'
  BY <1>3, SaveProfileKeeps, SaveNameKeeps, SaveFoundedKeeps, SaveCityKeeps, SaveAnswersKeeps, TypeKeeps
<1>4. ASSUME NEW to, Set!Go(to) PROVE ProfileInv'
  BY <1>4, ProfileRests DEF Set!Go, formVars, Set!profileVars
<1>5. ASSUME NEW how, Set!finish(how) PROVE ProfileInv'
  BY <1>5, ProfileRests DEF Set!finish, formVars, Set!profileVars
<1>6. ASSUME NEW got, NEW connected, Set!SetupPrompt(got, connected) PROVE ProfileInv'
  BY <1>6, ProfileRests DEF Set!SetupPrompt, formVars, Set!profileVars
<1> QED BY <1>1, <1>2, <1>3, <1>4, <1>5, <1>6, ProfileRests DEF Set!ProfileNext

LEMMA ProfileStarts == Set!Init => ProfileInv
<1> SUFFICES ASSUME Set!Init PROVE ProfileInv
  OBVIOUS
<1>1. /\ spaces = FirstStored /\ space = Set!Home /\ form = [p \in Set!Pages |-> Set!Blank] /\ gets = {}
      /\ save = [p \in Set!Pages |-> Set!NoSave] /\ status = [p \in Set!Pages |-> Set!NoStatus] /\ last = "none"
  BY DEF Set!Init
<1>2. space \in ProfileSpaces
  BY <1>1, ProfileAssumption DEF Set!Home
<1>3. spaces = [s \in ProfileSpaces |-> spaces[s]] /\ \A s \in ProfileSpaces : IsProfile(spaces[s])
  BY <1>1, ProfileAssumption DEF IsProfile
<1>4. ProfileTypes
  BY <1>1, <1>2, <1>3, ProfilesAre DEF ProfileTypes
<1>5. \A p \in Set!Pages : ~Alone(p)
  BY <1>1 DEF Alone, Set!Pages
<1> QED BY <1>4, <1>5 DEF ProfileInv, SavesFit

(* The CSV form.  An import is sent with the mapping of its own file and kind, *)
(* or its file has none.                                                       *)
Mapped(i) == i.mapping = Set!suggestMapping(i.file, i.kind)
ImportInv ==
  /\ Set!ImportFits
  /\ import = [pc |-> import.pc, file |-> import.file, kind |-> import.kind, mapping |-> import.mapping,
               result |-> import.result]
  /\ import.pc # "idle" => Forms[import.file] = "broken" \/ Mapped(import)
fileVars == <<reading, file, csvKind, columns, import, imported>>

LEMMA ImportIs ==
  ASSUME ImportInv, NEW pc, NEW result
  PROVE  /\ [import EXCEPT !.pc = pc, !.result = result] =
              [pc |-> pc, file |-> import.file, kind |-> import.kind, mapping |-> import.mapping, result |-> result]
         /\ [import EXCEPT !.result = result] =
              [pc |-> import.pc, file |-> import.file, kind |-> import.kind, mapping |-> import.mapping, result |-> result]
         /\ [import EXCEPT !.pc = pc] =
              [pc |-> pc, file |-> import.file, kind |-> import.kind, mapping |-> import.mapping, result |-> import.result]
<1>1. import = [pc |-> import.pc, file |-> import.file, kind |-> import.kind, mapping |-> import.mapping,
                result |-> import.result]
  BY DEF ImportInv
<1>2. PICK a : a = [import EXCEPT !.pc = pc, !.result = result]
  OBVIOUS
<1>3. a = [pc |-> pc, file |-> import.file, kind |-> import.kind, mapping |-> import.mapping, result |-> result]
  BY <1>1, <1>2
<1>4. /\ [import EXCEPT !.result = result] =
              [pc |-> import.pc, file |-> import.file, kind |-> import.kind, mapping |-> import.mapping, result |-> result]
      /\ [import EXCEPT !.pc = pc] =
              [pc |-> pc, file |-> import.file, kind |-> import.kind, mapping |-> import.mapping, result |-> import.result]
  BY <1>1
<1> QED BY <1>2, <1>3, <1>4

(* The import's file, kind and mapping stay while it runs.                     *)
LEMMA ImportLasts ==
  ASSUME ImportInv, NEW pc, NEW result,
         import' = [pc |-> pc, file |-> import.file, kind |-> import.kind, mapping |-> import.mapping, result |-> result],
         pc # "idle" => import.pc # "idle"
  PROVE  /\ import' = [pc |-> import'.pc, file |-> import'.file, kind |-> import'.kind, mapping |-> import'.mapping,
                       result |-> import'.result]
         /\ import'.pc # "idle" => Forms[import'.file] = "broken" \/ Mapped(import)'
<1>1. /\ import'.pc = pc /\ import'.file = import.file /\ import'.kind = import.kind /\ import'.mapping = import.mapping
      /\ import'.result = result
  OBVIOUS
<1> QED BY <1>1 DEF ImportInv, Mapped, Set!suggestMapping

LEMMA ApplyKeeps == ASSUME ImportInv, NEW f, NEW k, Set!applyCsv(f, k), imported' = imported PROVE ImportInv'
<1>1. /\ file' = f /\ import' = [import EXCEPT !.result = "none"]
      /\ Forms[f] # "broken" => csvKind' = k /\ columns' = Set!suggestMapping(f, k)
  BY DEF Set!applyCsv
<1>2. /\ import' = [pc |-> import'.pc, file |-> import'.file, kind |-> import'.kind, mapping |-> import'.mapping,
                    result |-> import'.result]
      /\ import'.pc # "idle" => Forms[import'.file] = "broken" \/ Mapped(import)'
  <2>1. import' = [pc |-> import.pc, file |-> import.file, kind |-> import.kind, mapping |-> import.mapping,
                   result |-> "none"]
    BY <1>1, ImportIs
  <2> QED BY <2>1, ImportLasts
<1>3. Set!ImportFits'
  BY <1>1 DEF ImportInv, Set!ImportFits, Set!suggestMapping
<1> QED BY <1>2, <1>3 DEF ImportInv

LEMMA ImportRests ==
  ASSUME ImportInv, file' = file, csvKind' = csvKind, columns' = columns, import' = import, imported' = imported
  PROVE  ImportInv'
BY DEF ImportInv, Set!ImportFits, Set!suggestMapping, Mapped

LEMMA KindKeeps == ASSUME ImportInv, NEW k, Set!handleCsvKindChange(k) PROVE ImportInv'
<1>1. imported' = imported
  BY DEF Set!handleCsvKindChange
<1>2. CASE file = "none"
  <2>1. csvKind' = k /\ file' = file /\ columns' = columns /\ import' = import
    BY <1>2 DEF Set!handleCsvKindChange
  <2> QED BY <1>1, <1>2, <2>1 DEF ImportInv, Set!ImportFits, Set!suggestMapping, Mapped
<1>3. CASE file # "none"
  BY <1>1, <1>3, ApplyKeeps DEF Set!handleCsvKindChange
<1> QED BY <1>2, <1>3

LEMMA ImportBegins == ASSUME ImportInv, Set!handleCsvImport PROVE ImportInv'
<1>1. /\ file # "none" /\ import' = [pc |-> "connect", file |-> file, kind |-> csvKind, mapping |-> columns, result |-> "none"]
      /\ file' = file /\ csvKind' = csvKind /\ columns' = columns /\ imported' = imported
  BY DEF Set!handleCsvImport
<1>2. import'.file = file /\ import'.kind = csvKind /\ import'.mapping = columns
  BY <1>1
<1>3. Forms[file] = "broken" \/ columns = Set!suggestMapping(file, csvKind)
  BY <1>1 DEF ImportInv, Set!ImportFits
<1>4. Forms[import'.file] = "broken" \/ Mapped(import)'
  BY <1>2, <1>3 DEF Mapped, Set!suggestMapping
<1>5. Set!ImportFits'
  BY <1>1 DEF ImportInv, Set!ImportFits, Set!suggestMapping
<1>6. import' = [pc |-> import'.pc, file |-> import'.file, kind |-> import'.kind, mapping |-> import'.mapping,
                 result |-> import'.result]
  BY <1>1
<1> QED BY <1>4, <1>5, <1>6 DEF ImportInv

LEMMA ImportStepKeeps == ASSUME ImportInv, Set!ImportStep PROVE ImportInv'
<1>1. import.pc # "idle" /\ file' = file /\ csvKind' = csvKind /\ columns' = columns
  BY DEF Set!ImportStep
<1>2. PICK pc, result :
        import' = [pc |-> pc, file |-> import.file, kind |-> import.kind, mapping |-> import.mapping, result |-> result]
  BY ImportIs DEF Set!ImportStep
<1>3. /\ import' = [pc |-> import'.pc, file |-> import'.file, kind |-> import'.kind, mapping |-> import'.mapping,
                    result |-> import'.result]
      /\ import'.pc # "idle" => Forms[import'.file] = "broken" \/ Mapped(import)'
  BY <1>1, <1>2, ImportLasts
<1>4. PICK i : i = [file |-> import.file, kind |-> import.kind, mapping |-> import.mapping]
  OBVIOUS
<1>5. imported' = imported \/ (imported' = imported \cup {i} /\ Forms[import.file] # "broken")
  BY <1>4 DEF Set!ImportStep
<1>6. i.file = import.file /\ i.kind = import.kind /\ i.mapping = import.mapping
  BY <1>4
<1>7. \A j \in imported' : j.mapping = Set!suggestMapping(j.file, j.kind)
  BY ZenonT(60), <1>1, <1>5, <1>6 DEF ImportInv, Set!ImportFits, Mapped, Set!suggestMapping
<1>8. Set!ImportFits'
  BY <1>1, <1>7 DEF ImportInv, Set!ImportFits, Set!suggestMapping
<1> QED BY <1>3, <1>8 DEF ImportInv

LEMMA ImportSteps == ImportInv /\ (Set!CsvNext \/ UNCHANGED fileVars) => ImportInv'
<1> SUFFICES ASSUME ImportInv, Set!CsvNext \/ UNCHANGED fileVars PROVE ImportInv'
  OBVIOUS
<1>1. ASSUME NEW f \in DOMAIN Forms, Set!handleCsvFile(f) PROVE ImportInv'
  BY <1>1, ImportRests DEF Set!handleCsvFile
<1>2. ASSUME NEW f \in DOMAIN Forms, Set!FileRead(f) PROVE ImportInv'
  BY <1>2, ApplyKeeps DEF Set!FileRead
<1>3. ASSUME NEW k, Set!handleCsvKindChange(k) PROVE ImportInv'
  BY <1>3, KindKeeps
<1>4. ASSUME Set!handleCsvImport \/ Set!ImportStep PROVE ImportInv'
  BY <1>4, ImportBegins, ImportStepKeeps
<1>5. ASSUME UNCHANGED fileVars PROVE ImportInv'
  BY <1>5, ImportRests DEF fileVars
<1> QED BY <1>1, <1>2, <1>3, <1>4, <1>5 DEF Set!CsvNext

LEMMA ImportStarts == Set!Init => ImportInv
<1> SUFFICES ASSUME Set!Init PROVE ImportInv
  OBVIOUS
<1>1. /\ file = "none" /\ imported = {}
      /\ import = [pc |-> "idle", file |-> "none", kind |-> "none", mapping |-> Set!NoMapping, result |-> "none"]
  BY DEF Set!Init
<1> QED BY <1>1 DEF ImportInv, Set!ImportFits

-----------------------------------------------------------------------------
(* Lists of anything: the loads and the calls of the health panel.             *)
IsList(s) == s \in Seq(Range(s))

LEMMA ListIs ==
  ASSUME NEW s, IsList(s)
  PROVE  Len(s) \in Nat /\ DOMAIN s = 1..Len(s) /\ \A i \in 1..Len(s) : s[i] \in Range(s)
<1>1. s \in Seq(Range(s))
  BY DEF IsList
<1> HIDE DEF IsList
<1>2. Len(s) \in Nat /\ DOMAIN s = 1..Len(s)
  BY <1>1, LenProperties
<1>3. \A i \in 1..Len(s) : s[i] \in Range(s)
  BY <1>1, ElementOfSeq
<1> QED BY <1>2, <1>3

LEMMA FunctionIsList ==
  ASSUME NEW n \in Nat, NEW t, t = [k \in 1..n |-> t[k]]
  PROVE  IsList(t) /\ Len(t) = n
<1>1. t \in [1..n -> Range(t)]
  BY DEF Range
<1> QED BY <1>1 DEF IsList

LEMMA SequenceIsList == ASSUME NEW S, NEW s \in Seq(S) PROVE IsList(s)
<1>1. Len(s) \in Nat /\ s \in [1..Len(s) -> S]
  BY LenProperties
<1>2. s = [k \in 1..Len(s) |-> s[k]]
  BY <1>1
<1> QED BY <1>1, <1>2, FunctionIsList

LEMMA AppendedIs ==
  ASSUME NEW s, IsList(s), NEW e
  PROVE  /\ IsList(Append(s, e)) /\ Len(Append(s, e)) = Len(s) + 1
         /\ \A i \in 1..Len(s) : Append(s, e)[i] = s[i]
         /\ Append(s, e)[Len(s) + 1] = e
<1>1. PICK S : S = Range(s) \cup {e}
  OBVIOUS
<1>2. Len(s) \in Nat /\ DOMAIN s = 1..Len(s) /\ \A i \in 1..Len(s) : s[i] \in S
  BY <1>1, ListIs
<1>3. s \in Seq(S)
  <2>1. s \in [1..Len(s) -> Range(s)]
    BY LenProperties DEF IsList
  <2>2. s \in [1..Len(s) -> S]
    BY <1>1, <2>1
  <2> QED BY <1>2, <2>2
<1>4. e \in S
  BY <1>1
<1>5. PICK c : c = Append(s, e)
  OBVIOUS
<1>6. c \in Seq(S) /\ Len(c) = Len(s) + 1 /\ (\A i \in 1..Len(s) : c[i] = s[i]) /\ c[Len(s) + 1] = e
  BY <1>3, <1>4, <1>5, AppendProperties
<1>7. IsList(c)
  BY <1>6, SequenceIsList
<1> QED BY <1>5, <1>6, <1>7

LEMMA TakenOutIs ==
  ASSUME NEW s, IsList(s), NEW at \in 1..Len(s)
  PROVE  /\ IsList(Set!RemoveAt(s, at)) /\ Len(Set!RemoveAt(s, at)) \in Nat
         /\ \A i \in 1..Len(Set!RemoveAt(s, at)) : \E j \in 1..Len(s) : Set!RemoveAt(s, at)[i] = s[j]
<1>1. PICK c : c = Url!RemoveAt(s, at)
  OBVIOUS
<1>2. Set!RemoveAt(s, at) = c
  BY <1>1 DEF Set!RemoveAt, Url!RemoveAt
<1>3. s \in Seq(Range(s)) /\ Len(s) \in Nat
  BY ListIs DEF IsList
<1>4. /\ c \in Seq(Range(s)) /\ Len(c) = Len(s) - 1
      /\ \A i \in 1..Len(s) - 1 : c[i] = IF i < at THEN s[i] ELSE s[i + 1]
  BY <1>1, <1>3, RemovedIs
<1>5. ASSUME NEW i \in 1..Len(c) PROVE \E j \in 1..Len(s) : c[i] = s[j]
  <2>1. i \in 1..Len(s) /\ i + 1 \in 1..Len(s)
    BY <1>3, <1>4
  <2> QED BY <1>4, <2>1
<1>6. IsList(c) /\ Len(c) \in Nat
  <2>1. IsList(c)
    BY <1>4, SequenceIsList
  <2> QED BY <2>1, ListIs
<1> QED BY <1>2, <1>5, <1>6

-----------------------------------------------------------------------------
(* The health panel.  A load that is alone is of the form of the page, and     *)
(* what it has read is what the server has.                                    *)
PanelPage == [ws : DOMAIN Sources, key : PanelKeys \cup {"none"}]
PanelLoadFits(l) ==
  /\ l = [ws |-> l.ws, key |-> l.key, over |-> l.over, states |-> l.states, by |-> l.by, alone |-> l.alone]
  /\ l.ws \in DOMAIN Sources /\ l.alone \in BOOLEAN
CallShape(q) ==
  /\ q = [slot |-> q.slot, does |-> q.does, source |-> q.source, form |-> q.form, at |-> q.at]
  /\ q.form \in PanelPage
HasRead(l) == l.over \in {Set!Null, Set!Answer(l)} /\ l.states \in {Set!Null, Set!Answer(l)}
IsOfPage(l) == l.ws = panelForm.ws /\ l.key = panelForm.key
LoadsAre == IsList(asking) /\ \A k \in 1..Len(asking) : PanelLoadFits(asking[k])
CallsAre == IsList(requests) /\ \A k \in 1..Len(requests) : CallShape(requests[k])
PanelTypes ==
  panelForm \in PanelPage /\ whole \in BOOLEAN /\ LoadsAre /\ CallsAre /\ backend = [w \in DOMAIN Sources |-> backend[w]]
AloneIsRead == \A k \in 1..Len(asking) : asking[k].alone = TRUE => IsOfPage(asking[k]) /\ HasRead(asking[k])
PanelInv == PanelTypes /\ AloneIsRead /\ Set!ShownIsTheServers

LEMMA ReadLasts == ASSUME NEW w, backend'[w] = backend[w] PROVE Set!Read(w)' = Set!Read(w)
BY DEF Set!Read

(* What is shown stays the server's where nothing of it changes.               *)
LEMMA ShownLasts ==
  ASSUME Set!ShownIsTheServers, panelForm' = panelForm, health' = health,
         whole' => whole /\ backend'[panelForm.ws] = backend[panelForm.ws]
  PROVE  Set!ShownIsTheServers'
<1> SUFFICES ASSUME whole'
             PROVE  IF Set!Readable(panelForm.ws, panelForm.key)
                    THEN health' # Set!Null /\ \A s \in Set!AllSources :
                           Set!presentConnectorHealth(health'[s]) = Set!presentConnectorHealth(Set!Read(panelForm.ws)'[s])
                    ELSE health' = Set!Null
  BY DEF Set!ShownIsTheServers, Set!Readable, Set!presentConnectorHealth
<1>1. Set!Read(panelForm.ws)' = Set!Read(panelForm.ws)
  BY DEF Set!Read
<1> QED BY <1>1 DEF Set!ShownIsTheServers

(* A load that is alone was so before, and of its workspace nothing changed.   *)
LEMMA AloneLasts ==
  ASSUME PanelInv, panelForm' = panelForm,
         \A k \in 1..Len(asking') : asking'[k].alone = TRUE =>
           /\ \E j \in 1..Len(asking) : asking'[k] = asking[j]
           /\ backend'[asking'[k].ws] = backend[asking'[k].ws]
  PROVE  AloneIsRead'
<1> SUFFICES ASSUME NEW k \in 1..Len(asking'), asking'[k].alone = TRUE PROVE IsOfPage(asking[k])' /\ HasRead(asking[k])'
  BY DEF AloneIsRead
<1>1. PICK j \in 1..Len(asking) : asking'[k] = asking[j]
  OBVIOUS
<1>2. PICK l : l = asking[j]
  OBVIOUS
<1>3. asking'[k] = l /\ l.alone = TRUE /\ backend'[l.ws] = backend[l.ws]
  BY <1>1, <1>2
<1>4. IsOfPage(l) /\ HasRead(l)
  BY <1>2, <1>3 DEF PanelInv, AloneIsRead
<1>5. Set!Answer(l)' = Set!Answer(l)
  BY <1>3 DEF Set!Answer, Set!Read, Set!Readable
<1>6. HasRead(l)' /\ IsOfPage(l)'
  BY <1>4, <1>5 DEF HasRead, IsOfPage
<1> QED BY <1>3, <1>6 DEF HasRead, IsOfPage, Set!Answer, Set!Readable

LEMMA BeganIs ==
  ASSUME PanelInv, NEW f \in PanelPage, NEW by, asking' = Set!Began(f, by)
  PROVE  LoadsAre' /\ AloneIsRead'
<1> DEFINE old == [k \in DOMAIN asking |-> [asking[k] EXCEPT !.alone = FALSE]]
           new == [ws |-> f.ws, key |-> f.key, over |-> Set!Null, states |-> Set!Null, by |-> by,
                   alone |-> asking = <<>> /\ f = panelForm']
<1>1. asking' = Append(old, new)
  BY Zenon DEF Set!Began
<1>2. Len(asking) \in Nat /\ DOMAIN asking = 1..Len(asking) /\ \A k \in 1..Len(asking) : PanelLoadFits(asking[k])
  BY ListIs DEF PanelInv, PanelTypes, LoadsAre
<1>3. IsList(old) /\ Len(old) = Len(asking)
  <2>1. old = [k \in 1..Len(asking) |-> old[k]]
    BY <1>2
  <2> HIDE DEF old
  <2> QED BY <1>2, <2>1, FunctionIsList
<1>4. \A k \in 1..Len(asking) : PanelLoadFits(old[k]) /\ old[k].alone = FALSE
  <2> SUFFICES ASSUME NEW k \in 1..Len(asking) PROVE PanelLoadFits(old[k]) /\ old[k].alone = FALSE
    OBVIOUS
  <2>1. PICK l : l = asking[k]
    OBVIOUS
  <2>2. old[k] = [l EXCEPT !.alone = FALSE]
    BY <1>2, <2>1
  <2> HIDE DEF old
  <2>3. old[k] = [ws |-> l.ws, key |-> l.key, over |-> l.over, states |-> l.states, by |-> l.by, alone |-> FALSE]
    BY <1>2, <2>1, <2>2 DEF PanelLoadFits
  <2>4. l.ws \in DOMAIN Sources
    BY <1>2, <2>1 DEF PanelLoadFits
  <2> QED BY <2>3, <2>4 DEF PanelLoadFits
<1>5. PanelLoadFits(new) /\ new.over = Set!Null /\ new.states = Set!Null
      /\ (new.alone = TRUE => new.ws = panelForm'.ws /\ new.key = panelForm'.key)
  <2>1. PICK a \in BOOLEAN : a = (asking = <<>> /\ f = panelForm')
    OBVIOUS
  <2>2. new = [ws |-> f.ws, key |-> f.key, over |-> Set!Null, states |-> Set!Null, by |-> by, alone |-> a]
    BY Zenon, <2>1
  <2>3. f.ws \in DOMAIN Sources
    BY DEF PanelPage
  <2> HIDE DEF new
  <2> QED BY <2>1, <2>2, <2>3 DEF PanelLoadFits
<1> HIDE DEF old, new
<1>6. /\ IsList(asking') /\ Len(asking') = Len(asking) + 1
      /\ \A k \in 1..Len(asking) : asking'[k] = old[k]
      /\ asking'[Len(asking) + 1] = new
  BY <1>1, <1>3, AppendedIs
<1>7. \A k \in 1..Len(asking') : k \in 1..Len(asking) \/ k = Len(asking) + 1
  BY <1>2, <1>6
<1>8. LoadsAre'
  BY ZenonT(60), <1>4, <1>5, <1>6, <1>7 DEF LoadsAre, PanelLoadFits, IsList, Range
<1>9. ASSUME NEW k \in 1..Len(asking'), asking'[k].alone = TRUE PROVE IsOfPage(asking[k])' /\ HasRead(asking[k])'
  <2>1. asking'[k] = new
    BY <1>4, <1>6, <1>7, <1>9
  <2> QED BY <1>5, <1>9, <2>1 DEF IsOfPage, HasRead
<1> QED BY <1>8, <1>9 DEF AloneIsRead

LEMMA TypeKeyKeeps ==
  ASSUME PanelInv, NEW w \in DOMAIN Sources, NEW k \in PanelKeys, Set!TypeKey([ws |-> w, key |-> k]) PROVE PanelInv'
<1>1. PICK f : f = [ws |-> w, key |-> k]
  OBVIOUS
<1>2. /\ panelForm' = f /\ asking' = Set!Began(f, "page") /\ whole' = FALSE
      /\ backend' = backend /\ requests' = requests
  BY <1>1 DEF Set!TypeKey
<1>3. f \in PanelPage
  BY <1>1 DEF PanelPage
<1>4. LoadsAre' /\ AloneIsRead'
  BY <1>2, <1>3, BeganIs
<1>5. CallsAre'
  BY <1>2 DEF PanelInv, PanelTypes, CallsAre, CallShape, IsList
<1>6. Set!ShownIsTheServers'
  BY <1>2 DEF Set!ShownIsTheServers
<1>7. PanelTypes'
  BY <1>2, <1>3, <1>4, <1>5 DEF PanelInv, PanelTypes, PanelPage
<1> QED BY <1>4, <1>6, <1>7 DEF PanelInv

LEMMA RefreshKeeps == ASSUME PanelInv, Set!Refresh PROVE PanelInv'
<1>1. /\ panelForm' = panelForm /\ asking' = Set!Began(panelForm, "page") /\ whole' = whole /\ health' = health
      /\ backend' = backend /\ requests' = requests
  BY DEF Set!Refresh
<1>2. panelForm \in PanelPage
  BY DEF PanelInv, PanelTypes
<1>3. LoadsAre' /\ AloneIsRead'
  BY <1>1, <1>2, BeganIs
<1>4. CallsAre'
  BY <1>1 DEF PanelInv, PanelTypes, CallsAre, CallShape, IsList
<1>5. Set!ShownIsTheServers'
  BY <1>1, ShownLasts DEF PanelInv
<1>6. PanelTypes'
  BY <1>1, <1>3, <1>4 DEF PanelInv, PanelTypes, PanelPage
<1> QED BY <1>3, <1>5, <1>6 DEF PanelInv

LEMMA LoadsListed ==
  ASSUME IsList(asking'), \A i \in 1..Len(asking') : PanelLoadFits(asking'[i]) PROVE LoadsAre'
BY DEF LoadsAre, PanelLoadFits, IsList, Range
LEMMA CallsListed ==
  ASSUME IsList(requests'), \A i \in 1..Len(requests') : CallShape(requests'[i]) PROVE CallsAre'
BY DEF CallsAre, CallShape, PanelPage, IsList, Range

(* A load that has read.                                                       *)
LEMMA ReadKeeps ==
  ASSUME PanelInv, NEW k \in 1..Len(asking), NEW over, NEW states,
         NEW l, l = asking[k], over \in {l.over, Set!Answer(l)}, states \in {l.states, Set!Answer(l)},
         asking' = [asking EXCEPT ![k] = [ws |-> l.ws, key |-> l.key, over |-> over, states |-> states, by |-> l.by,
                                          alone |-> l.alone]],
         UNCHANGED <<backend, panelForm, health, requests, whole>>
  PROVE  PanelInv'
<1>1. PICK x : x = [ws |-> l.ws, key |-> l.key, over |-> over, states |-> states, by |-> l.by, alone |-> l.alone]
  OBVIOUS
<1>2. PanelLoadFits(l) /\ Len(asking) \in Nat
  BY ListIs DEF PanelInv, PanelTypes, LoadsAre
<1>3. x.ws = l.ws /\ x.key = l.key /\ x.over = over /\ x.states = states /\ x.alone = l.alone
  BY <1>1
<1>4. PanelLoadFits(x)
  BY <1>1, <1>2, <1>3 DEF PanelLoadFits
<1>5. IsList(asking') /\ Len(asking') = Len(asking) /\ \A i \in 1..Len(asking) : asking'[i] = IF i = k THEN x ELSE asking[i]
  <2>1. asking' = [asking EXCEPT ![k] = x]
    BY Zenon, <1>1
  <2>2. IsList(asking)
    BY DEF PanelInv, PanelTypes, LoadsAre
  <2>3. PICK t : t = [asking EXCEPT ![k] = x]
    OBVIOUS
  <2>4. IsList(t) /\ Len(t) = Len(asking) /\ \A i \in 1..Len(asking) : t[i] = IF i = k THEN x ELSE asking[i]
    <3>1. Len(asking) \in Nat /\ DOMAIN asking = 1..Len(asking)
      BY <2>2, ListIs
    <3>2. t = [i \in 1..Len(asking) |-> IF i = k THEN x ELSE asking[i]]
      BY <2>3, <3>1
    <3>3. t = [i \in 1..Len(asking) |-> t[i]]
      BY <3>2
    <3>4. IsList(t) /\ Len(t) = Len(asking)
      BY <3>1, <3>3, FunctionIsList
    <3> QED BY <3>2, <3>4
  <2> QED BY SMTT(60), <2>1, <2>3, <2>4 DEF IsList, Range
<1>6. LoadsAre'
  <2>1. \A i \in 1..Len(asking') : PanelLoadFits(asking'[i])
    BY <1>4, <1>5 DEF PanelInv, PanelTypes, LoadsAre
  <2> QED BY <1>5, <2>1, LoadsListed
<1>7. Set!Answer(x) = Set!Answer(l)
  BY <1>3 DEF Set!Answer
<1>8. l.alone = TRUE => IsOfPage(x) /\ HasRead(x)
  BY <1>3, <1>7 DEF PanelInv, AloneIsRead, IsOfPage, HasRead
<1>9. \A i \in 1..Len(asking') : asking'[i].alone = TRUE => IsOfPage(asking'[i]) /\ HasRead(asking'[i])
  BY <1>3, <1>5, <1>8 DEF PanelInv, AloneIsRead
<1>10. ASSUME NEW i \in 1..Len(asking'), asking'[i].alone = TRUE PROVE IsOfPage(asking[i])' /\ HasRead(asking[i])'
  <2>1. PICK y : y = asking'[i]
    OBVIOUS
  <2>2. IsOfPage(y) /\ HasRead(y)
    BY SMTT(60), <1>9, <1>10, <2>1
  <2>3. Set!Answer(y)' = Set!Answer(y)
    BY ZenonT(60) DEF Set!Answer, Set!Read, Set!Readable
  <2>4. IsOfPage(y)' /\ HasRead(y)'
    BY <2>2, <2>3 DEF HasRead, IsOfPage
  <2> QED BY <2>1, <2>4 DEF HasRead, IsOfPage, Set!Answer, Set!Readable
<1>11. CallsAre'
  BY DEF PanelInv, PanelTypes, CallsAre, CallShape, IsList
<1>12. Set!ShownIsTheServers'
  BY ShownLasts DEF PanelInv
<1>13. PanelTypes'
  BY <1>6, <1>11 DEF PanelInv, PanelTypes, PanelPage
<1>14. AloneIsRead'
  BY <1>10 DEF AloneIsRead
<1> QED BY <1>12, <1>13, <1>14 DEF PanelInv

LEMMA OverviewKeeps == ASSUME PanelInv, NEW k \in DOMAIN asking, Set!ReadOverview(k) PROVE PanelInv'
<1>1. PICK l : l = asking[k]
  OBVIOUS
<1>2. k \in 1..Len(asking) /\ PanelLoadFits(l)
  BY <1>1, ListIs DEF PanelInv, PanelTypes, LoadsAre
<1>3. UNCHANGED <<backend, panelForm, health, requests, whole>>
  BY DEF Set!ReadOverview
<1>4. PICK over : over = Set!Answer(l)
  OBVIOUS
<1>5. asking' = [asking EXCEPT ![k] = [l EXCEPT !.over = over]]
  BY <1>1, <1>4 DEF Set!ReadOverview
<1>6. [l EXCEPT !.over = over] =
        [ws |-> l.ws, key |-> l.key, over |-> over, states |-> l.states, by |-> l.by, alone |-> l.alone]
  BY <1>2 DEF PanelLoadFits
<1>7. asking' = [asking EXCEPT ![k] =
        [ws |-> l.ws, key |-> l.key, over |-> over, states |-> l.states, by |-> l.by, alone |-> l.alone]]
  BY Zenon, <1>5, <1>6
<1> QED BY <1>1, <1>2, <1>3, <1>4, <1>7, ReadKeeps

LEMMA StatesKeeps == ASSUME PanelInv, NEW k \in DOMAIN asking, Set!ReadStates(k) PROVE PanelInv'
<1>1. PICK l : l = asking[k]
  OBVIOUS
<1>2. k \in 1..Len(asking) /\ PanelLoadFits(l)
  BY <1>1, ListIs DEF PanelInv, PanelTypes, LoadsAre
<1>3. UNCHANGED <<backend, panelForm, health, requests, whole>>
  BY DEF Set!ReadStates
<1>4. PICK states : states = Set!Answer(l)
  OBVIOUS
<1>5. asking' = [asking EXCEPT ![k] = [l EXCEPT !.states = states]]
  BY <1>1, <1>4 DEF Set!ReadStates
<1>6. [l EXCEPT !.states = states] =
        [ws |-> l.ws, key |-> l.key, over |-> l.over, states |-> states, by |-> l.by, alone |-> l.alone]
  BY <1>2 DEF PanelLoadFits
<1>7. asking' = [asking EXCEPT ![k] =
        [ws |-> l.ws, key |-> l.key, over |-> l.over, states |-> states, by |-> l.by, alone |-> l.alone]]
  BY Zenon, <1>5, <1>6
<1> QED BY <1>1, <1>2, <1>3, <1>4, <1>7, ReadKeeps

(* What the server answers is a row of each source, and neither nothing nor a  *)
(* refusal; two answers that agree make one.                                   *)
LEMMA AnswerIs ==
  ASSUME NEW w
  PROVE  Set!Read(w) # Set!Refused /\ Set!Read(w) # Set!Null /\ Set!Refused # Set!Null
<1>1. DOMAIN Set!Read(w) = Set!AllSources /\ DOMAIN Set!Refused = {"refused"} /\ DOMAIN Set!Null = {}
  BY DEF Set!Read, Set!Refused, Set!Null
<1>2. Set!AllSources # {} /\ "refused" \notin Set!AllSources
  BY PanelAssumption DEF Set!AllSources
<1> QED BY <1>1, <1>2
LEMMA MergedIs == ASSUME NEW w PROVE Set!Merge(Set!Read(w), Set!Read(w)) = Set!Read(w)
<1>1. PICK r : r = Set!Read(w)
  OBVIOUS
<1>2. r # Set!Refused
  BY <1>1, AnswerIs
<1>3. ASSUME NEW s \in Set!AllSources
      PROVE  r[s] = [status |-> r[s].status, error |-> r[s].error, paused |-> r[s].paused]
  <2>1. PICK b : b = backend[w][s]
    OBVIOUS
  <2>2. r[s] = IF b.status = "none" THEN (IF b.paused THEN Set!Row("pending", "none", TRUE) ELSE Set!Absent)
               ELSE Set!Row(b.status, b.error, b.paused)
    BY <1>1, <2>1 DEF Set!Read
  <2>3. \/ r[s] = Set!Row("pending", "none", TRUE)
        \/ r[s] = Set!Row("none", "none", FALSE)
        \/ r[s] = Set!Row(b.status, b.error, b.paused)
    BY Zenon, <2>2 DEF Set!Absent
  <2> QED BY <2>3 DEF Set!Row
<1>4. ASSUME NEW s \in Set!AllSources
      PROVE  (IF r[s] = Set!Absent THEN r[s] ELSE IF r[s] = Set!Absent THEN r[s] ELSE [r[s] EXCEPT !.paused = r[s].paused]) = r[s]
  BY <1>3
<1>5. Set!Merge(r, r) =
        [s \in Set!AllSources |->
           IF r[s] = Set!Absent THEN r[s] ELSE IF r[s] = Set!Absent THEN r[s] ELSE [r[s] EXCEPT !.paused = r[s].paused]]
  BY <1>2 DEF Set!Merge
<1>6. r = [s \in Set!AllSources |-> r[s]]
  BY <1>1 DEF Set!Read
<1>7. Set!Merge(r, r) = [s \in Set!AllSources |-> r[s]]
  BY <1>4, <1>5
<1> QED BY <1>1, <1>6, <1>7

LEMMA LoadEndsKeeps == ASSUME PanelInv, NEW k \in DOMAIN asking, Set!LoadEnds(k) PROVE PanelInv'
<1>1. PICK l : l = asking[k]
  OBVIOUS
<1>2. IsList(asking) /\ k \in 1..Len(asking) /\ PanelLoadFits(l) /\ \A j \in 1..Len(asking) : PanelLoadFits(asking[j])
  BY <1>1, ListIs DEF PanelInv, PanelTypes, LoadsAre
<1>3. asking' = Set!RemoveAt(asking, k) /\ UNCHANGED <<backend, panelForm, requests>>
  BY DEF Set!LoadEnds
<1>4. /\ IsList(Set!RemoveAt(asking, k)) /\ Len(Set!RemoveAt(asking, k)) \in Nat
      /\ \A i \in 1..Len(Set!RemoveAt(asking, k)) : \E j \in 1..Len(asking) : Set!RemoveAt(asking, k)[i] = asking[j]
  BY <1>2, TakenOutIs
<1>5. IsList(asking') /\ \A i \in 1..Len(asking') : \E j \in 1..Len(asking) : asking'[i] = asking[j]
  BY <1>3, <1>4 DEF IsList, Range
<1>6. LoadsAre'
  <2>1. \A i \in 1..Len(asking') : PanelLoadFits(asking'[i])
    BY <1>2, <1>5
  <2> QED BY <1>5, <2>1, LoadsListed
<1>7. AloneIsRead'
  BY <1>3, <1>5, AloneLasts
<1>8. CallsAre'
  BY <1>3 DEF PanelInv, PanelTypes, CallsAre, CallShape, IsList
<1>9. \/ /\ l.over # Set!Null /\ l.states # Set!Null /\ whole' = l.alone
         /\ health' = IF l.over = Set!Refused /\ l.states = Set!Refused THEN Set!Null ELSE Set!Merge(l.over, l.states)
      \/ whole' = FALSE
  BY <1>1 DEF Set!LoadEnds
<1>10. whole' \in BOOLEAN
  BY <1>2, <1>9 DEF PanelLoadFits
<1>11. Set!ShownIsTheServers'
  <2> SUFFICES ASSUME whole' = TRUE PROVE Set!ShownIsTheServers'
    BY <1>10 DEF Set!ShownIsTheServers
  <2>1. /\ l.over # Set!Null /\ l.states # Set!Null /\ l.alone = TRUE
        /\ health' = IF l.over = Set!Refused /\ l.states = Set!Refused THEN Set!Null ELSE Set!Merge(l.over, l.states)
    BY <1>9
  <2>2. IsOfPage(l) /\ HasRead(l)
    BY <1>1, <1>2, <2>1 DEF PanelInv, AloneIsRead
  <2>3. l.over = Set!Answer(l) /\ l.states = Set!Answer(l)
    BY <2>1, <2>2 DEF HasRead
  <2>4. PICK r : r = Set!Read(panelForm.ws)
    OBVIOUS
  <2>5. Set!Answer(l) = IF Set!Readable(panelForm.ws, panelForm.key) THEN r ELSE Set!Refused
    BY <2>2, <2>4 DEF Set!Answer, IsOfPage
  <2>6. r # Set!Refused /\ r # Set!Null /\ Set!Merge(r, r) = r
    BY <2>4, AnswerIs, MergedIs
  <2>7. health' = IF Set!Readable(panelForm.ws, panelForm.key) THEN r ELSE Set!Null
    BY Zenon, <2>1, <2>3, <2>5, <2>6
  <2>8. Set!Read(panelForm.ws)' = r
    BY <1>3, <2>4 DEF Set!Read
  <2> QED BY <1>3, <2>6, <2>7, <2>8 DEF Set!ShownIsTheServers, Set!Readable
<1>12. PanelTypes'
  BY <1>3, <1>6, <1>8, <1>10 DEF PanelInv, PanelTypes, PanelPage
<1> QED BY <1>7, <1>11, <1>12 DEF PanelInv

LEMMA PressKeeps == ASSUME PanelInv, NEW s, Set!Press(s) PROVE PanelInv'
<1>1. UNCHANGED <<backend, panelForm, asking, health, whole>>
  BY DEF Set!Press
<1>2. PICK b : requests' = Append(requests, [slot |-> b.slot, does |-> b.does, source |-> s, form |-> panelForm, at |-> "sent"])
  BY DEF Set!Press
<1>3. PICK q : q = [slot |-> b.slot, does |-> b.does, source |-> s, form |-> panelForm, at |-> "sent"]
  OBVIOUS
<1>4. CallShape(q)
  BY <1>3 DEF CallShape, PanelInv, PanelTypes
<1>5. IsList(requests) /\ \A i \in 1..Len(requests) : CallShape(requests[i])
  BY DEF PanelInv, PanelTypes, CallsAre
<1>6. requests' = Append(requests, q)
  BY Zenon, <1>2, <1>3
<1>7. /\ IsList(requests') /\ Len(requests') = Len(requests) + 1
      /\ \A i \in 1..Len(requests) : requests'[i] = requests[i]
      /\ requests'[Len(requests) + 1] = q
  BY <1>5, <1>6, AppendedIs
<1>8. CallsAre'
  <2>1. Len(requests) \in Nat
    BY <1>5, ListIs
  <2>2. \A i \in 1..Len(requests') : i \in 1..Len(requests) \/ i = Len(requests) + 1
    BY <1>7, <2>1
  <2>3. \A i \in 1..Len(requests') : CallShape(requests'[i])
    BY <1>4, <1>5, <1>7, <2>2
  <2> QED BY <1>7, <2>3, CallsListed
<1>9. LoadsAre'
  BY <1>1 DEF PanelInv, PanelTypes, LoadsAre, PanelLoadFits, IsList
<1>10. AloneIsRead'
  BY <1>1, AloneLasts
<1>11. Set!ShownIsTheServers'
  BY <1>1, ShownLasts DEF PanelInv
<1>12. PanelTypes'
  BY <1>1, <1>8, <1>9 DEF PanelInv, PanelTypes, PanelPage
<1> QED BY <1>10, <1>11, <1>12 DEF PanelInv

(* Where the server's rows of one workspace change, its loads are no longer    *)
(* alone, and what is shown of it no longer whole.                             *)
LEMMA StaleKeeps ==
  ASSUME PanelInv, NEW w \in DOMAIN Sources, NEW r, backend' = [backend EXCEPT ![w] = r],
         Set!Stale(w), panelForm' = panelForm, health' = health, CallsAre'
  PROVE  PanelInv'
<1>1. Len(asking) \in Nat /\ DOMAIN asking = 1..Len(asking) /\ \A j \in 1..Len(asking) : PanelLoadFits(asking[j])
  BY ListIs DEF PanelInv, PanelTypes, LoadsAre
<1> DEFINE old == [k \in DOMAIN asking |-> IF asking[k].ws = w THEN [asking[k] EXCEPT !.alone = FALSE] ELSE asking[k]]
<1>2. asking' = old
  BY DEF Set!Stale
<1>3. IsList(old) /\ Len(old) = Len(asking)
  <2>1. old = [k \in 1..Len(asking) |-> old[k]]
    BY <1>1
  <2> HIDE DEF old
  <2> QED BY <1>1, <2>1, FunctionIsList
<1>4. ASSUME NEW k \in 1..Len(asking)
      PROVE  PanelLoadFits(old[k]) /\ (old[k].alone = TRUE => old[k] = asking[k] /\ old[k].ws # w)
  <2>1. PICK l : l = asking[k]
    OBVIOUS
  <2>2. old[k] = IF l.ws = w THEN [l EXCEPT !.alone = FALSE] ELSE l
    BY <1>1, <2>1
  <2> HIDE DEF old
  <2>3. PanelLoadFits(l)
    BY <1>1, <2>1
  <2>4. CASE l.ws = w
    <3>1. old[k] = [ws |-> l.ws, key |-> l.key, over |-> l.over, states |-> l.states, by |-> l.by, alone |-> FALSE]
      BY <2>2, <2>3, <2>4 DEF PanelLoadFits
    <3>2. l.ws \in DOMAIN Sources
      BY <2>3 DEF PanelLoadFits
    <3> QED BY <3>1, <3>2 DEF PanelLoadFits
  <2>5. CASE l.ws # w
    BY <2>1, <2>2, <2>3, <2>5
  <2> QED BY <2>4, <2>5
<1> HIDE DEF old
<1>5. IsList(asking')
  BY <1>2, <1>3 DEF IsList, Range
<1>6. \A k \in 1..Len(asking') : PanelLoadFits(asking'[k]) /\ (asking'[k].alone = TRUE => asking'[k] = asking[k] /\ asking'[k].ws # w)
  BY <1>2, <1>3, <1>4
<1>7. LoadsAre'
  BY <1>5, <1>6, LoadsListed
<1>8. \A v : v # w => backend'[v] = backend[v]
  BY DEF PanelInv, PanelTypes
<1>9. AloneIsRead'
  <2>1. Len(asking') = Len(asking)
    BY <1>2, <1>3
  <2> QED BY <1>6, <1>8, <2>1, AloneLasts
<1>10. whole' \in BOOLEAN /\ (whole' => whole /\ panelForm.ws # w)
  BY DEF Set!Stale
<1>11. Set!ShownIsTheServers'
  BY <1>8, <1>10, ShownLasts DEF PanelInv
<1>12. backend' = [v \in DOMAIN Sources |-> backend'[v]]
  BY DEF PanelInv, PanelTypes
<1>13. PanelTypes'
  BY <1>7, <1>10, <1>12 DEF PanelInv, PanelTypes, PanelPage
<1> QED BY <1>9, <1>11, <1>13 DEF PanelInv

LEMMA PanelServeKeeps == ASSUME PanelInv, NEW k \in DOMAIN requests, Set!Serve(k) PROVE PanelInv'
<1>1. PICK c : c = requests[k]
  OBVIOUS
<1>2. IsList(requests) /\ k \in 1..Len(requests) /\ CallShape(c) /\ \A j \in 1..Len(requests) : CallShape(requests[j])
  BY <1>1, ListIs DEF PanelInv, PanelTypes, CallsAre
<1>3. PICK w : w = c.form.ws
  OBVIOUS
<1>4. w \in DOMAIN Sources
  BY <1>2, <1>3 DEF CallShape, PanelPage
<1>5. Set!Stale(w) /\ UNCHANGED <<panelForm, health>>
  BY <1>1, <1>3 DEF Set!Serve
<1>6. PICK d : backend' = [backend EXCEPT ![w][c.source] = d.row] /\ requests' = [requests EXCEPT ![k].at = d.at]
  BY <1>1, <1>3 DEF Set!Serve
<1>7. PICK at : at = d.at
  OBVIOUS
<1>8. PICK r : r = [backend[w] EXCEPT ![c.source] = d.row]
  OBVIOUS
<1>9. backend' = [backend EXCEPT ![w] = r]
  BY <1>6, <1>8
<1>10. PICK q : q = [slot |-> c.slot, does |-> c.does, source |-> c.source, form |-> c.form, at |-> at]
  OBVIOUS
<1>11. [c EXCEPT !.at = at] = q
  BY <1>2, <1>10 DEF CallShape
<1>12. requests' = [requests EXCEPT ![k] = q]
  <2>1. requests' = [requests EXCEPT ![k] = [c EXCEPT !.at = at]]
    BY <1>1, <1>6, <1>7
  <2> QED BY Zenon, <1>11, <2>1
<1>13. CallShape(q)
  BY <1>2, <1>10 DEF CallShape
<1>14. CallsAre'
  <2>1. PICK t : t = [requests EXCEPT ![k] = q]
    OBVIOUS
  <2>2. Len(requests) \in Nat /\ DOMAIN requests = 1..Len(requests)
    BY <1>2, ListIs
  <2>3. t = [i \in 1..Len(requests) |-> IF i = k THEN q ELSE requests[i]]
    BY <2>1, <2>2
  <2>4. t = [i \in 1..Len(requests) |-> t[i]]
    BY <2>3
  <2>5. IsList(t) /\ Len(t) = Len(requests)
    BY <2>2, <2>4, FunctionIsList
  <2>6. \A i \in 1..Len(t) : CallShape(t[i])
    BY <1>2, <1>13, <2>3, <2>5
  <2>7. IsList(requests') /\ \A i \in 1..Len(requests') : CallShape(requests'[i])
    BY <1>12, <2>1, <2>5, <2>6 DEF IsList, Range
  <2> QED BY <2>7, CallsListed
<1> QED BY <1>4, <1>5, <1>9, <1>14, StaleKeeps

LEMMA CallAnswersKeeps == ASSUME PanelInv, NEW k \in DOMAIN requests, Set!CallAnswers(k) PROVE PanelInv'
<1>1. PICK c : c = requests[k]
  OBVIOUS
<1>2. IsList(requests) /\ k \in 1..Len(requests) /\ CallShape(c) /\ \A j \in 1..Len(requests) : CallShape(requests[j])
  BY <1>1, ListIs DEF PanelInv, PanelTypes, CallsAre
<1>3. requests' = Set!RemoveAt(requests, k) /\ UNCHANGED <<backend, panelForm, health, whole>>
  BY DEF Set!CallAnswers
<1>4. asking' = Set!Began(c.form, c.slot) \/ asking' = asking
  BY <1>1 DEF Set!CallAnswers
<1>5. c.form \in PanelPage
  BY <1>2 DEF CallShape
<1>6. CallsAre'
  <2>1. /\ IsList(Set!RemoveAt(requests, k)) /\ Len(Set!RemoveAt(requests, k)) \in Nat
        /\ \A i \in 1..Len(Set!RemoveAt(requests, k)) : \E j \in 1..Len(requests) : Set!RemoveAt(requests, k)[i] = requests[j]
    BY <1>2, TakenOutIs
  <2>2. IsList(requests') /\ \A i \in 1..Len(requests') : \E j \in 1..Len(requests) : requests'[i] = requests[j]
    BY <1>3, <2>1 DEF IsList, Range
  <2>3. \A i \in 1..Len(requests') : CallShape(requests'[i])
    BY <1>2, <2>2
  <2> QED BY <2>2, <2>3, CallsListed
<1>7. LoadsAre' /\ AloneIsRead'
  <2>1. CASE asking' = Set!Began(c.form, c.slot)
    BY <1>5, <2>1, BeganIs
  <2>2. CASE asking' = asking
    <3>1. LoadsAre'
      BY <2>2 DEF PanelInv, PanelTypes, LoadsAre, PanelLoadFits, IsList
    <3>2. AloneIsRead'
      BY <1>3, <2>2, AloneLasts
    <3> QED BY <3>1, <3>2
  <2> QED BY <1>4, <2>1, <2>2
<1>8. Set!ShownIsTheServers'
  BY <1>3, ShownLasts DEF PanelInv
<1>9. PanelTypes'
  BY <1>3, <1>6, <1>7 DEF PanelInv, PanelTypes, PanelPage
<1> QED BY <1>7, <1>8, <1>9 DEF PanelInv

LEMMA SchedulerKeeps == ASSUME PanelInv, Set!SchedulerRuns PROVE PanelInv'
<1>1. UNCHANGED <<panelForm, health, requests>>
  BY DEF Set!SchedulerRuns
<1>2. PICK w \in DOMAIN Sources : \E s, ran : backend' = [backend EXCEPT ![w][s] = ran] /\ Set!Stale(w)
  BY DEF Set!SchedulerRuns
<1>3. PICK s, ran : backend' = [backend EXCEPT ![w][s] = ran] /\ Set!Stale(w)
  BY <1>2
<1>4. PICK r : r = [backend[w] EXCEPT ![s] = ran]
  OBVIOUS
<1>5. backend' = [backend EXCEPT ![w] = r]
  BY <1>3, <1>4
<1>6. CallsAre'
  BY <1>1 DEF PanelInv, PanelTypes, CallsAre, CallShape, IsList
<1> QED BY <1>1, <1>3, <1>5, <1>6, StaleKeeps

LEMMA PanelRests == ASSUME PanelInv, UNCHANGED panelVars PROVE PanelInv'
<1>1. UNCHANGED <<backend, panelForm, asking, health, requests, whole>>
  BY DEF panelVars
<1>2. LoadsAre'
  BY <1>1 DEF PanelInv, PanelTypes, LoadsAre, PanelLoadFits, IsList
<1>3. CallsAre'
  BY <1>1 DEF PanelInv, PanelTypes, CallsAre, CallShape, IsList
<1>4. AloneIsRead'
  BY <1>1, AloneLasts
<1>5. Set!ShownIsTheServers'
  BY <1>1, ShownLasts DEF PanelInv
<1>6. PanelTypes'
  BY <1>1, <1>2, <1>3 DEF PanelInv, PanelTypes, PanelPage
<1> QED BY <1>4, <1>5, <1>6 DEF PanelInv

(* Every step of the panel keeps its invariant.                                *)
LEMMA PanelSteps == PanelInv /\ [Set!PanelNext]_panelVars => PanelInv'
<1> SUFFICES ASSUME PanelInv, [Set!PanelNext]_panelVars PROVE PanelInv'
  OBVIOUS
<1>1. CASE UNCHANGED panelVars
  BY <1>1, PanelRests
<1>2. CASE \E w \in DOMAIN Sources, k \in PanelKeys : Set!TypeKey([ws |-> w, key |-> k])
  BY <1>2, TypeKeyKeeps
<1>3. CASE Set!Refresh
  BY <1>3, RefreshKeeps
<1>4. CASE Set!SchedulerRuns
  BY <1>4, SchedulerKeeps
<1>5. CASE \E k \in DOMAIN asking : Set!ReadOverview(k) \/ Set!ReadStates(k) \/ Set!LoadEnds(k)
  BY <1>5, OverviewKeeps, StatesKeeps, LoadEndsKeeps
<1>6. CASE \E s \in Set!AllSources : Set!Press(s)
  BY <1>6, PressKeeps
<1>7. CASE \E k \in DOMAIN requests : Set!Serve(k) \/ Set!CallAnswers(k)
  <2>1. PICK k \in DOMAIN requests : Set!Serve(k) \/ Set!CallAnswers(k)
    BY <1>7
  <2>2. CASE Set!Serve(k)
    BY <2>2, PanelServeKeeps
  <2>3. CASE Set!CallAnswers(k)
    BY <2>3, CallAnswersKeeps
  <2> QED BY <2>1, <2>2, <2>3
<1> QED BY <1>1, <1>2, <1>3, <1>4, <1>5, <1>6, <1>7 DEF Set!PanelNext

LEMMA PanelStarts == Set!PanelInit => PanelInv
<1> SUFFICES ASSUME Set!PanelInit PROVE PanelInv
  OBVIOUS
<1>1. PICK w \in DOMAIN Sources : panelForm = [ws |-> w, key |-> "none"]
  BY DEF Set!PanelInit
<1>2. panelForm \in PanelPage /\ panelForm.ws = w /\ panelForm.key = "none"
  BY <1>1 DEF PanelPage
<1>3. PICK l : l = [ws |-> w, key |-> "none", over |-> Set!Null, states |-> Set!Null, by |-> "page", alone |-> TRUE]
  OBVIOUS
<1>4. asking = <<l>> /\ requests = <<>> /\ whole = FALSE
  BY <1>2, <1>3 DEF Set!PanelInit
<1>5. PanelLoadFits(l) /\ IsOfPage(l) /\ HasRead(l)
  BY <1>2, <1>3 DEF PanelLoadFits, IsOfPage, HasRead
<1>6. IsList(asking) /\ \A k \in 1..Len(asking) : asking[k] = l
  <2>1. asking \in Seq({l}) /\ Len(asking) = 1 /\ asking[1] = l
    BY <1>4
  <2>2. IsList(asking)
    BY <2>1, SequenceIsList
  <2> QED BY <2>1, <2>2
<1>7. LoadsAre /\ AloneIsRead
  BY <1>5, <1>6 DEF LoadsAre, AloneIsRead
<1>8. CallsAre
  <2>1. requests \in Seq({}) /\ Len(requests) = 0
    BY <1>4
  <2>2. IsList(requests)
    BY <2>1, SequenceIsList
  <2> QED BY <2>1, <2>2 DEF CallsAre
<1>9. backend = [v \in DOMAIN Sources |-> backend[v]]
  <2>1. PICK rows : rows = [v \in DOMAIN Sources |-> [s \in Set!AllSources |->
           IF s \in Sources[v] THEN Set!State("success", "none", TRUE, TRUE, FALSE) ELSE Set!Gone]]
    OBVIOUS
  <2>2. backend = rows
    BY Zenon, <2>1 DEF Set!PanelInit
  <2> QED BY <2>1, <2>2
<1>10. Set!ShownIsTheServers
  BY <1>4 DEF Set!ShownIsTheServers
<1> QED BY <1>2, <1>4, <1>7, <1>8, <1>9, <1>10 DEF PanelInv, PanelTypes

LEMMA PanelIs == PanelInv => Set!ShownIsTheServers
BY DEF PanelInv

(* What a load of the health panel read alone, while nothing of the server    *)
(* changed, is what the panel shows: each source with its problem             *)
(* (ConnectorHealthPanel's load, over loads and calls that overtake each      *)
(* other).                                                                     *)
THEOREM PanelShowsTheServer == Set!PanelInit /\ [][Set!PanelNext]_panelVars => []Set!ShownIsTheServers
BY PanelIs, PanelStarts, PanelSteps, PTL

-----------------------------------------------------------------------------
(* All of it together.  A step of one module leaves what the others are about; *)
(* the two parts of the connect page's settings leave each other's.            *)
LEMMA ProfileLeavesFile == Set!ProfileNext => UNCHANGED fileVars
<1>1. ASSUME NEW s, NEW k, Set!LoadConfig(s, k) PROVE UNCHANGED fileVars
  BY <1>1 DEF Set!LoadConfig, Set!csvFormVars, fileVars
<1>2. ASSUME NEW g, Set!ServeConfig(g) PROVE UNCHANGED fileVars
  BY <1>2 DEF Set!ServeConfig, Set!csvFormVars, fileVars
<1>3. ASSUME NEW g, Set!ConfigAnswers(g) PROVE UNCHANGED fileVars
  BY <1>3 DEF Set!ConfigAnswers, Set!csvFormVars, fileVars
<1>4. ASSUME NEW p, Set!SaveProfile(p) PROVE UNCHANGED fileVars
  BY <1>4 DEF Set!SaveProfile, Set!csvFormVars, fileVars
<1>5. ASSUME NEW p, NEW at, NEW next, NEW invalid, NEW profile, Set!SaveStep(p, at, next, invalid, profile)
      PROVE  UNCHANGED fileVars
  BY <1>5 DEF Set!SaveStep, Set!csvFormVars, fileVars
<1>6. ASSUME NEW p, Set!SaveName(p) \/ Set!SaveFounded(p) \/ Set!SaveCity(p) PROVE UNCHANGED fileVars
  BY <1>5, <1>6 DEF Set!SaveName, Set!SaveFounded, Set!SaveCity
<1>7. ASSUME NEW p, Set!SaveAnswers(p) PROVE UNCHANGED fileVars
  BY <1>7 DEF Set!SaveAnswers, Set!csvFormVars, fileVars
<1>8. ASSUME NEW p, NEW d, Set!Type(p, d) PROVE UNCHANGED fileVars
  BY <1>8 DEF Set!Type, Set!csvFormVars, fileVars
<1>9. ASSUME NEW to, Set!Go(to) PROVE UNCHANGED fileVars
  BY <1>9 DEF Set!Go, Set!csvFormVars, fileVars
<1>10. ASSUME NEW how, Set!finish(how) PROVE UNCHANGED fileVars
  BY <1>10 DEF Set!finish, Set!csvFormVars, fileVars
<1>11. ASSUME NEW got, NEW connected, Set!SetupPrompt(got, connected) PROVE UNCHANGED fileVars
  BY <1>11 DEF Set!SetupPrompt, Set!csvFormVars, fileVars
<1> QED BY <1>1, <1>2, <1>3, <1>4, <1>6, <1>7, <1>8, <1>9, <1>10, <1>11 DEF Set!ProfileNext

LEMMA FileLeavesProfile == Set!CsvNext => UNCHANGED formVars
<1>1. ASSUME NEW f, Set!handleCsvFile(f) \/ Set!FileRead(f) PROVE UNCHANGED formVars
  BY <1>1 DEF Set!handleCsvFile, Set!FileRead, Set!profileVars, formVars
<1>2. ASSUME NEW k, Set!handleCsvKindChange(k) PROVE UNCHANGED formVars
  BY <1>2 DEF Set!handleCsvKindChange, Set!profileVars, formVars
<1>3. ASSUME Set!handleCsvImport \/ Set!ImportStep PROVE UNCHANGED formVars
  BY <1>3 DEF Set!handleCsvImport, Set!ImportStep, Set!profileVars, formVars
<1> QED BY <1>1, <1>2, <1>3 DEF Set!CsvNext

LEMMA SettingsRest == UNCHANGED settingsVars => UNCHANGED formVars /\ UNCHANGED fileVars
BY DEF settingsVars, formVars, fileVars

LEMMA StepsOfEach ==
  ASSUME [PagesNext]_pagesVars
  PROVE  /\ [GateNext]_gateVars /\ [Pmf!Next]_draftVars /\ [Day!Next]_dayVars /\ [Url!Next]_urlVars
         /\ [Live!Next]_liveVars /\ [Set!PanelNext]_panelVars
         /\ Set!ProfileNext \/ UNCHANGED formVars
         /\ Set!CsvNext \/ UNCHANGED fileVars
<1>1. CASE GateStep
  BY <1>1, SettingsRest DEF GateStep, behindVars
<1>2. CASE DraftStep
  BY <1>2, SettingsRest DEF DraftStep
<1>3. CASE DayStep
  BY <1>3, SettingsRest DEF DayStep
<1>4. CASE UrlStep
  BY <1>4, SettingsRest DEF UrlStep
<1>5. CASE LiveStep
  BY <1>5, SettingsRest DEF LiveStep
<1>6. CASE ProfileStep
  BY <1>6, ProfileLeavesFile DEF ProfileStep
<1>7. CASE FormStep
  BY <1>7, FileLeavesProfile DEF FormStep
<1>8. CASE PanelStep
  BY <1>8, SettingsRest DEF PanelStep
<1>9. CASE UNCHANGED pagesVars
  BY <1>9, SettingsRest DEF pagesVars, behindVars
<1> QED BY <1>1, <1>2, <1>3, <1>4, <1>5, <1>6, <1>7, <1>8, <1>9 DEF PagesNext

PagesInv == GateInv /\ DraftInv /\ LiveInv /\ DayInv /\ UrlInv /\ ProfileInv /\ ImportInv /\ PanelInv

LEMMA PagesStart == PagesInit => PagesInv
BY GateStarts, DraftStarts, LiveStarts, DayStarts, UrlStarts, ProfileStarts, ImportStarts, PanelStarts
   DEF PagesInit, PagesInv

LEMMA PagesStep == PagesInv /\ [PagesNext]_pagesVars => PagesInv'
<1> SUFFICES ASSUME PagesInv, [PagesNext]_pagesVars PROVE PagesInv'
  OBVIOUS
<1>1. GateInv' /\ DraftInv' /\ LiveInv' /\ DayInv'
  BY StepsOfEach, GateSteps, DraftSteps, LiveSteps, DaySteps DEF PagesInv
<1>2. UrlInv' /\ ProfileInv' /\ ImportInv' /\ PanelInv'
  BY StepsOfEach, UrlSteps, ProfileSteps, ImportSteps, PanelSteps DEF PagesInv
<1> QED BY <1>1, <1>2 DEF PagesInv

(* A save that is still the last word is stored.                               *)
LEMMA SavedIs == ProfileInv => Set!SavedIsStored
BY DEF ProfileInv, SavesFit, Alone, Set!SavedIsStored

(* What the pages of a browser show is so: the gate, the queue, the URL, the   *)
(* pages that follow the server and the celebration (PagesHold), for any       *)
(* workspaces, people, drafts, keys, milestones, series and loads at once.     *)
THEOREM PagesAreTrue == PagesSpec => []PagesHold
<1>1. PagesInv => PagesHold
  BY GateIs, QueueIs, LiveIs, DayIs, UrlIs DEF PagesInv, PagesHold, UrlHolds, LivePageHolds
<1> QED BY <1>1, PagesStart, PagesStep, PTL DEF PagesSpec

(* What the connect page saved, imported and shows is so (SettingsHold), for   *)
(* any workspaces, profiles, files, sources, errors, loads and calls at once.  *)
THEOREM SettingsAreTrue == PagesSpec => []SettingsHold
<1>1. PagesInv => SettingsHold
  BY SavedIs DEF PagesInv, SettingsHold, ImportInv, PanelInv
<1> QED BY <1>1, PagesStart, PagesStep, PTL DEF PagesSpec

(* Every tab's cities are as they should be (DayHolds), for any rankings,      *)
(* homes, tabs, loads and picks at once.                                       *)
THEOREM CitiesAreTrue == PagesSpec => []DayHolds
<1>1. PagesInit => PagesInv /\ DayLists
  BY PagesStart, ListStarts DEF PagesInit
<1>2. PagesInv /\ DayLists /\ [PagesNext]_pagesVars => PagesInv' /\ DayLists'
  BY PagesStep, StepsOfEach, ListSteps DEF PagesInv
<1>3. DayLists => DayHolds
  BY ListsAre DEF DayHolds
<1> QED BY <1>1, <1>2, <1>3, PTL DEF PagesSpec
=============================================================================
