----------------------------- MODULE AccessProofs -----------------------------
(* Proofs about Access and Mcp, for any calls, workspaces, keys and requests:   *)
(* a key works in its own workspace and a revoked one not at all, a deleted     *)
(* workspace gets no rows from its keys, and answered writes are in the log.    *)
(* A step of one request is first summed up by Paced, what it does to the       *)
(* request, and Wrote, what it does to the tables; the invariants follow from   *)
(* these two.                                                                   *)
EXTENDS Mcp, TLAPS

-----------------------------------------------------------------------------
(* Who a request acts as.                                                       *)
Typed ==
  /\ keys \in [KeyIds -> KeyRows \cup {NoKey}] /\ cookie \in Cookies
  /\ call \in [Calls -> CallRecords]
FromKey(a) ==
  /\ a.home = keys[a.actor].ws /\ a.scope = keys[a.actor].scope /\ a.also = {a.home}
  /\ a.home \in Spaces \cup {"demo"} /\ a.scope \in Scopes
  /\ a.choose <=> a.scope = "admin"
Known(a) ==
  /\ a \in Principals
  /\ a.actor \in KeyIds => FromKey(a)
  /\ a.actor = "env" => a.choose /\ a.scope = "admin"
  /\ a.actor = "none" => a = Nobody
  /\ a.actor = "anonymous" => a = Visitor

LEMMA Nobodies ==
  /\ Nobody \in Principals /\ Nobody.actor = "none" /\ Nobody.home = "none" /\ Nobody.also = {}
  /\ Nobody.choose = FALSE /\ Nobody.scope = "none"
  /\ Visitor \in Principals /\ Visitor.actor = "anonymous" /\ Visitor.choose = FALSE
  /\ Visitor.scope = "read"
  /\ Nobody \notin {Visitor} /\ NoCookie \in Cookies /\ NoCookie.list = {} /\ NoCookie.choose = FALSE
  /\ NoKey.ws = "none" /\ NoKey.scope = "none"
BY DEF Nobody, Visitor, Principals, Actors, Scopes, NoCookie, Cookies, NoKey

LEMMA NamesDiffer ==
  /\ "live" \in Spaces /\ "demo" \notin Spaces /\ "none" \notin Spaces /\ "denied" \notin Spaces
  /\ "env" \notin KeyIds /\ "none" \notin KeyIds /\ "anonymous" \notin KeyIds
  /\ "session" \notin KeyIds /\ Calls \subseteq KeyIds
  /\ \A c \in Calls : c \notin DOMAIN FirstKeys
BY AccessAssumption DEF KeyIds

(* A presented key is known by what the table holds of it.                      *)
LEMMA KeyIsKnown ==
  ASSUME Typed, NEW cred \in KeyIds \cup {"env", "none"}
  PROVE  /\ Known(verifyPresentedKey(cred))
         /\ verifyPresentedKey(cred).actor \in KeyIds \cup {"env", "none"}
<1>1. CASE cred = "env"
  <2>1. verifyPresentedKey(cred) = [Nobody EXCEPT !.actor = "env", !.choose = TRUE, !.scope = "admin"]
    BY <1>1, NamesDiffer DEF verifyPresentedKey
  <2> QED
    BY <2>1, NamesDiffer DEF Known, Nobody, Principals, Actors, Scopes
<1>2. CASE cred \in KeyIds /\ keys[cred] # NoKey
  <2>1. verifyPresentedKey(cred) =
          [actor |-> cred, home |-> keys[cred].ws, also |-> {keys[cred].ws},
           choose |-> keys[cred].scope = "admin", scope |-> keys[cred].scope]
    BY <1>2, NamesDiffer DEF verifyPresentedKey
  <2>2. keys[cred] \in KeyRows
    BY <1>2 DEF Typed
  <2>3. keys[cred].ws \in Spaces \cup {"demo"} /\ keys[cred].scope \in Scopes
    BY <2>2 DEF KeyRows
  <2>4. verifyPresentedKey(cred) \in Principals
    BY <1>2, <2>1, <2>3 DEF Principals, Actors
  <2> DEFINE v == verifyPresentedKey(cred)
  <2>5. v.actor = cred /\ v.home = keys[cred].ws /\ v.also = {v.home} /\ v.scope = keys[cred].scope
    BY <2>1
  <2>6. v.choose <=> keys[cred].scope = "admin"
    <3> DEFINE admin == keys[cred].scope = "admin"
    <3>1. admin \in BOOLEAN
      OBVIOUS
    <3>2. v.choose = admin
      BY <2>1
    <3> QED
      BY <3>1, <3>2
  <2>7. v \in Principals
    BY <2>4
  <2> HIDE DEF v
  <2>8. FromKey(v)
    BY <2>3, <2>5, <2>6 DEF FromKey
  <2>9. Known(v) /\ v.actor \in KeyIds
    BY <1>2, <2>5, <2>7, <2>8, NamesDiffer DEF Known
  <2> QED
    BY <2>9 DEF v
<1>3. CASE cred # "env" /\ ~(cred \in KeyIds /\ keys[cred] # NoKey)
  <2>1. verifyPresentedKey(cred) = Nobody
    BY <1>3 DEF verifyPresentedKey
  <2> QED
    BY <2>1, Nobodies, NamesDiffer DEF Known
<1> QED
  BY <1>1, <1>2, <1>3

LEMMA AuthorizedIsKnown ==
  ASSUME Typed, NEW cred \in KeyIds \cup {"env", "none"}, NEW asked, NEW write \in BOOLEAN
  PROVE  LET a == authorize(cred, asked, write)
         IN /\ Known(a) /\ a.actor # "session"
            /\ a # Nobody /\ write => a.scope \in {"write", "admin"}
            /\ write => a.actor # "anonymous"
<1> DEFINE v == verifyPresentedKey(cred)
<1>1. Known(v) /\ v.actor \in KeyIds \cup {"env", "none"}
  BY KeyIsKnown
<1>2. Known(Nobody) /\ Known(Visitor)
  BY Nobodies, NamesDiffer DEF Known
<1> HIDE DEF v
<1>3. CASE ~write /\ asked = "demo"
  <2>1. authorize(cred, asked, write) = Visitor
    BY <1>3 DEF authorize
  <2> QED
    BY <1>3, <2>1, <1>2, Nobodies
<1>4. CASE write /\ v.scope \notin {"write", "admin"}
  <2>1. authorize(cred, asked, write) = Nobody
    BY <1>4 DEF authorize, v
  <2> QED
    BY <1>4, <2>1, <1>2, Nobodies
<1>5. CASE ~(~write /\ asked = "demo") /\ ~(write /\ v.scope \notin {"write", "admin"})
  <2>1. authorize(cred, asked, write) = v
    BY <1>5 DEF authorize, v
  <2> QED
    BY <1>1, <1>5, <2>1, NamesDiffer
<1> QED
  BY <1>3, <1>4, <1>5

(* A session's principal is the browser's own.                                  *)
LEMMA SessionIsKnown ==
  ASSUME NEW s \in Cookies, s # NoCookie, NEW asked \in Spaces \cup {"demo", "none"}
  PROVE  LET a == authFromSession(s, asked)
         IN /\ Known(a) /\ a.actor = "session" /\ a.choose = s.choose
            /\ Earned(s) => /\ a.home \in earned \cup {"demo"} /\ a.also \subseteq earned \cup {"demo"}
                            /\ a.choose => Spaces \subseteq earned
<1> DEFINE home == IF asked # "none" /\ sessionAuthorizes(s, asked) THEN asked ELSE s.ws
           a == authFromSession(s, asked)
<1>1. /\ s.ws \in Spaces \cup {"none"} /\ s.list \subseteq Spaces /\ s.choose \in BOOLEAN
  BY DEF Cookies
<1>2. home \in Spaces \cup {"demo", "none"}
  BY <1>1
<1>3. a = [actor |-> "session", home |-> home, also |-> s.list \cup {home},
           choose |-> s.choose, scope |-> "read"]
  BY DEF authFromSession
<1>4. Earned(s) => home \in earned \cup {"demo"}
  BY <1>1 DEF Earned, sessionAuthorizes
<1>5. Earned(s) => s.list \subseteq earned
  BY DEF Earned
<1>6. Earned(s) /\ s.choose => Spaces \subseteq earned
  BY DEF Earned
<1> HIDE DEF home, a
<1>7. a \in Principals
  BY <1>1, <1>2, <1>3 DEF Principals, Actors, Scopes
<1>8. a.actor = "session" /\ a.home = home /\ a.also = s.list \cup {home} /\ a.choose = s.choose
  BY <1>3
<1>9. Known(a)
  BY <1>7, <1>8, NamesDiffer DEF Known
<1>10. Earned(s) => /\ a.home \in earned \cup {"demo"} /\ a.also \subseteq earned \cup {"demo"}
                    /\ a.choose => Spaces \subseteq earned
  BY <1>4, <1>5, <1>6, <1>8
<1> QED
  BY <1>8, <1>9, <1>10 DEF a

LEMMA RecordIsTyped ==
  ASSUME NEW r \in CallRecords
  PROVE  /\ r.pc \in Pcs /\ r.op \in Writers \cup {"read", "unlock", "logout", "none"}
         /\ r.cred \in KeyIds \cup {"env", "none"} /\ r.asked \in Spaces \cup {"demo", "none"}
         /\ r.scope \in Scopes \cup {"none"} /\ r.sent \in Cookies /\ r.auth \in Principals
         /\ r.ws \in Spaces \cup {"demo", "none"} /\ r.target \in KeyIds \cup {"none"} /\ r.ok \in BOOLEAN
BY DEF CallRecords

(* Who calls: a writing key may write, and only some requests go by a session.  *)
Calling(r, a) ==
  /\ Known(a)
  /\ a.actor = "session" => /\ r.op \in {"read", "prefs", "delete"}
                            /\ r.sent # NoCookie /\ a = authFromSession(r.sent, r.asked)
  /\ a.actor \in KeyIds /\ r.op \notin {"read", "unlock"} => a.scope \in {"write", "admin"}
  /\ a.actor = "anonymous" => r.op \in {"read", "unlock", "logout"}
LEMMA CallerIsKnown ==
  ASSUME Typed, NEW r \in CallRecords
  PROVE  Calling(r, Caller(r))
<1> USE RecordIsTyped
<1> DEFINE a == Caller(r)
<1>1. CASE r.op = "logout"
  <2>1. Caller(r) = Visitor
    BY <1>1 DEF Caller
  <2> QED
    BY <1>1, <2>1, Nobodies, NamesDiffer DEF Calling, Known
<1>2. CASE r.op # "logout" /\ SessionServes(r)
  <2>1. a = authFromSession(r.sent, r.asked) /\ r.sent # NoCookie /\ r.op \in {"read", "prefs", "delete"}
    BY <1>2 DEF Caller, SessionServes
  <2> HIDE DEF a
  <2>2. Known(a) /\ a.actor = "session"
    BY <2>1, SessionIsKnown
  <2> QED
    BY <2>1, <2>2, NamesDiffer DEF a, Calling
<1>3. CASE r.op # "logout" /\ ~SessionServes(r) /\ r.op = "delete" /\ r.cred = "none"
  <2>1. Caller(r) = Nobody
    BY <1>3 DEF Caller
  <2> QED
    BY <1>3, <2>1, Nobodies, NamesDiffer DEF Calling, Known
<1>4. CASE r.op # "logout" /\ ~SessionServes(r) /\ r.op = "unlock"
  <2>1. a = authorize(r.cred, Or(r.asked, "live"), FALSE)
    BY <1>4 DEF Caller
  <2> HIDE DEF a
  <2>2. Known(a) /\ a.actor # "session"
    BY <2>1, AuthorizedIsKnown
  <2> QED
    BY <1>4, <2>2 DEF a, Calling
<1>5. CASE /\ r.op \notin {"logout", "unlock"} /\ ~SessionServes(r)
           /\ ~(r.op = "delete" /\ r.cred = "none")
  <2>1. a = authorize(r.cred, IF r.op = "mint" THEN "none" ELSE r.asked, r.op # "read")
    BY <1>5 DEF Caller
  <2> HIDE DEF a
  <2>2. /\ Known(a) /\ a.actor # "session"
        /\ a # Nobody /\ r.op # "read" => a.scope \in {"write", "admin"}
        /\ r.op # "read" => a.actor # "anonymous"
    BY ZenonT(60), <2>1, AuthorizedIsKnown
  <2> QED
    BY <1>5, <2>2, Nobodies, NamesDiffer DEF a, Calling
<1> QED
  BY <1>1, <1>2, <1>3, <1>4, <1>5

(* Where it works.                                                              *)
Placed(r, a, ws) ==
  /\ ws \in Spaces \cup {"demo", "none"}
  /\ r.op \in {"create", "archive", "delete"} => ws = r.asked
  /\ r.op \in {"ingest", "mint", "unlock", "event", "prefs"} => ws # "none"
  /\ a.actor \in KeyIds /\ ~a.choose
       /\ r.op \in {"ingest", "mint", "event", "prefs", "create", "archive", "delete"} => ws = a.home
  /\ r.op = "unlock" => ws \in Spaces
  /\ a.actor = "session" /\ ws \in Spaces => ws \in earned
LEMMA ResolvedIsPlaced ==
  ASSUME NEW a, Known(a), NEW asked \in Spaces \cup {"demo", "none"}, NEW write \in BOOLEAN,
         a.actor # "none"
  PROVE  LET w == resolveWorkspace(a, asked, write)
         IN w # "denied" =>
            /\ w \in Spaces \cup {"demo", "none"}
            /\ w = "none" => a.actor = "session"
            /\ write /\ a.actor \in KeyIds /\ ~a.choose => w = a.home
            /\ ~a.choose /\ ~write => w \in a.also \cup {"demo", a.home}
            /\ write => a.actor # "anonymous"
<1>1. /\ a.actor \in Actors /\ a.home \in Spaces \cup {"demo", "none"} /\ a.choose \in BOOLEAN
      /\ a.also \subseteq Spaces \cup {"demo", "none"}
  BY DEF Known, Principals
<1>2. a.actor \in KeyIds => a.home \in Spaces \cup {"demo"}
  BY DEF Known, FromKey
<1>3. a.actor = "env" => a.choose
  BY DEF Known
<1> QED
  BY <1>1, <1>2, <1>3, NamesDiffer DEF resolveWorkspace, Or, Actors
LEMMA PlaceIsPlaced ==
  ASSUME NEW r \in CallRecords, NEW a, Calling(r, a), a # Nobody \/ r.op = "mint",
         r.op \in {"create", "archive", "delete"} => r.asked \in Spaces,
         Earned(r.sent), earned \subseteq Spaces, Place(r, a) # "denied"
  PROVE  Placed(r, a, Place(r, a))
<1> USE RecordIsTyped
<1> DEFINE w == Place(r, a)
<1>0. /\ Known(a) /\ a.actor \in Actors /\ a.home \in Spaces \cup {"demo", "none"} /\ a.choose \in BOOLEAN
      /\ a.actor \in KeyIds => a.home \in Spaces \cup {"demo"}
      /\ a.actor = "none" => a = Nobody
      /\ a.actor = "session" => r.op \in {"read", "prefs", "delete"}
  BY DEF Calling, Known, Principals, FromKey
<1>1. a.actor = "session" =>
        /\ a.home \in earned \cup {"demo"} /\ a.also \subseteq earned \cup {"demo"}
        /\ a.choose => Spaces \subseteq earned
  BY SessionIsKnown DEF Calling
<1>2. CASE r.op \in {"create", "archive"}
  <2>1. w = r.asked /\ a.choose
    BY <1>2, NamesDiffer DEF Place
  <2> HIDE DEF w
  <2> QED
    BY <1>0, <1>2, <2>1, NamesDiffer DEF w, Placed
<1>3. CASE r.op = "delete" /\ a.actor = "session"
  <2>1. w = r.asked /\ sessionAuthorizes(r.sent, r.asked)
    BY <1>3, NamesDiffer DEF Place
  <2> HIDE DEF w
  <2>2. w \in Spaces => w \in earned
    BY <2>1, NamesDiffer DEF Earned, sessionAuthorizes
  <2> QED
    BY <1>0, <1>3, <2>1, <2>2, NamesDiffer DEF w, Placed
<1>4. CASE r.op = "delete" /\ a.actor # "session"
  <2>1. w = r.asked /\ (a.choose \/ a.home = r.asked)
    BY <1>4, NamesDiffer DEF Place
  <2> HIDE DEF w
  <2> QED
    BY <1>0, <1>4, <2>1, NamesDiffer DEF w, Placed
<1>5. CASE r.op = "mint"
  <2>1. w = IF a.choose THEN Or(r.asked, "live") ELSE Or(a.home, "live")
    BY <1>5, NamesDiffer DEF Place
  <2>2. w \in Spaces \cup {"demo"} /\ (a.actor \in KeyIds /\ ~a.choose => w = a.home)
    BY <1>0, <2>1, NamesDiffer DEF Or
  <2> HIDE DEF w
  <2> QED
    BY <1>0, <1>5, <2>2, NamesDiffer DEF w, Placed
<1>6. CASE r.op \in {"revoke", "downgrade", "logout"}
  <2>1. w = "none"
    BY <1>6 DEF Place
  <2> HIDE DEF w
  <2> QED
    BY <1>6, <2>1, NamesDiffer DEF w, Placed
<1>7. CASE r.op = "unlock"
  <2> DEFINE v == resolveWorkspace(a, Or(r.asked, "live"), FALSE)
  <2>1. w = IF v = "demo" THEN "denied" ELSE v
    BY <1>7 DEF Place
  <2>2. Or(r.asked, "live") \in Spaces \cup {"demo"}
    BY NamesDiffer DEF Or
  <2> HIDE DEF w, v
  <2>3. w = v /\ v # "demo" /\ v # "denied"
    BY <2>1 DEF w
  <2>4. a.actor # "none" /\ a.actor # "session"
    BY <1>0, <1>7
  <2>5. v \in Spaces
    BY ZenonT(60), <1>0, <2>2, <2>3, <2>4, ResolvedIsPlaced DEF v
  <2> QED
    BY <1>7, <2>3, <2>4, <2>5, NamesDiffer DEF w, Placed
<1>8. CASE r.op \in {"read", "prefs"} /\ a.actor = "session"
  <2>1. w = resolveWorkspace(a, r.asked, FALSE)
    BY <1>8 DEF Place
  <2>2. w = IF a.choose THEN Or(r.asked, "demo")
            ELSE IF r.asked \in {"none", "demo"} \cup a.also THEN Or(r.asked, a.home) ELSE "denied"
    BY <1>8, <2>1 DEF resolveWorkspace
  <2>3. w # "denied"
    OBVIOUS
  <2> HIDE DEF w
  <2>4. w \in Spaces \cup {"demo", "none"}
    BY <1>0, <2>2, <2>3, NamesDiffer DEF Or
  <2>5. w \in Spaces => w \in earned
    BY <1>0, <1>1, <1>8, <2>2, <2>3, NamesDiffer DEF Or
  <2>6. w # "none"
    BY <1>0, <1>1, <1>8, <2>2, <2>3, NamesDiffer DEF Or
  <2> QED
    BY <1>0, <1>8, <2>4, <2>5, <2>6, NamesDiffer DEF w, Placed
<1>9. CASE r.op \in {"ingest", "event", "read", "none"} \/ (r.op = "prefs" /\ a.actor # "session")
  <2>1. CASE r.op \in {"read", "none"} /\ a.actor = "session"
    BY <1>0, <1>8, <2>1
  <2>2. CASE r.op \in {"ingest", "event", "prefs", "read", "none"} /\ a.actor # "session"
    <3>1. w = resolveWorkspace(a, r.asked, r.op # "read")
      BY <1>9, <2>2 DEF Place
    <3>2. w # "denied" /\ a.actor # "none"
      BY <1>0, <2>2
    <3> HIDE DEF w
    <3>3. /\ w \in Spaces \cup {"demo", "none"} /\ w # "none"
          /\ r.op # "read" /\ a.actor \in KeyIds /\ ~a.choose => w = a.home
      BY <1>0, <2>2, <3>1, <3>2, ResolvedIsPlaced
    <3> QED
      BY <2>2, <3>3, NamesDiffer DEF w, Placed
  <2> QED
    BY <1>0, <1>9, <2>1, <2>2
<1> QED
  BY <1>2, <1>3, <1>4, <1>5, <1>6, <1>7, <1>8, <1>9 DEF Writers

-----------------------------------------------------------------------------
(* What a step of request c does.                                               *)
Follows(op, p, q) ==
  \/ q = "done"
  \/ p = "auth" /\ q = "count" /\ op = "mint"
  \/ p \in {"auth", "count"} /\ q = FirstStep(op)
  \/ p = "look" /\ q = "insert"
  \/ p \in {"look", "insert"} /\ q = AfterEnsure(op)
  \/ p = "readkey" /\ q = "writekey"
  \/ p = "readrow" /\ op = "create" /\ q = "look"
  \/ p = "readrow" /\ op = "archive" /\ q \in {"archive", "log"}
  \/ p = "readrow" /\ op = "delete" /\ q = "purge"
  \/ p \in {"store", "writekey", "archive", "drop"} /\ q = "log"
  \/ p = "purge" /\ q = "purgekeys"
  \/ p = "purgekeys" /\ q = "drop"
  \/ p = "log" /\ q = "answer"
Enters(c) == call[c].pc \in {"auth", "count"} /\ call'[c].pc \notin {"count", "done"}
FindsKey(c) == call[c].pc = "readkey" /\ call'[c].pc = "writekey"
Answers(c) == call[c].pc = "answer" /\ call'[c].ok
Drops(c) == call[c].pc = "drop" /\ call'[c].pc = "log"
Mints(c) == call[c].pc = "store" /\ call'[c].pc = "log" /\ call[c].op = "mint"
SameAsk(c) ==
  /\ call'[c].op = call[c].op /\ call'[c].cred = call[c].cred /\ call'[c].asked = call[c].asked
  /\ call'[c].scope = call[c].scope /\ call'[c].sent = call[c].sent
  /\ call'[c].target = call[c].target
Moved(c) ==
  /\ call' \in [Calls -> CallRecords]
  /\ \A d \in Calls \ {c} : call'[d] = call[d]
  /\ SameAsk(c)
Paced(c) ==
  /\ Moved(c)
  /\ call[c].pc \notin {"idle", "done"} /\ Follows(call[c].op, call[c].pc, call'[c].pc)
  /\ Enters(c) => /\ Calling(call[c], call'[c].auth) /\ Placed(call[c], call'[c].auth, call'[c].ws)
                  /\ call'[c].auth # Nobody \/ call[c].op = "mint"
  /\ ~Enters(c) => call'[c].auth = call[c].auth
  /\ ~Enters(c) /\ ~FindsKey(c) => call'[c].ws = call[c].ws
  /\ FindsKey(c) =>
       LET k == call[c].target IN
         /\ keys[k] # NoKey /\ (call[c].auth.choose \/ keys[k].ws = call[c].auth.home)
         /\ call'[c].ws = keys[k].ws /\ (call[c].op = "downgrade" => keys[k].legacy)
  /\ call'[c].ok => call[c].ok \/ (call[c].pc = "answer" /\ call'[c].pc = "done")
KeysMoved(c) ==
  /\ keys' \in [KeyIds -> KeyRows \cup {NoKey}]
  /\ \A k \in KeyIds :
       \/ keys'[k] = keys[k]
       \/ keys'[k] = NoKey
       \/ /\ k = call[c].target /\ call[c].pc = "writekey"
          /\ keys[k] # NoKey /\ keys'[k].ws = keys[k].ws /\ keys'[k].scope = "read"
       \/ /\ k = c /\ call[c].pc = "store" /\ call'[c].pc = "log" /\ call[c].op = "mint"
          /\ keys'[k].ws = call[c].ws
  /\ call[c].pc = "writekey" /\ call'[c].pc = "log" =>
       LET k == call[c].target IN
         \/ keys'[k] = NoKey
         \/ keys'[k].scope = "read"
         \/ call[c].op = "downgrade" /\ ~keys[k].legacy /\ keys'[k] = keys[k]
  /\ call[c].pc = "purgekeys" /\ call'[c].pc = "drop" => \A k \in KeyIds : keys'[k].ws # call[c].ws
NewLog(c) == [actor |-> actorFromAuth(call[c].auth), action |-> call[c].op, ws |-> call[c].ws, call |-> c]
TablesMoved(c) ==
  /\ \/ rows' \subseteq rows
     \/ /\ call[c].pc = "store" /\ call'[c].pc = "log" /\ call[c].op # "mint"
        /\ rows' = rows \cup {[ws |-> call[c].ws, call |-> c]}
  /\ \/ audit' = audit /\ ~(call[c].pc = "log" /\ call'[c].pc = "answer")
     \/ /\ call[c].pc = "log" /\ call'[c].pc = "answer"
        /\ audit' = audit \cup {NewLog(c)}
  /\ catalog' \in [Spaces -> {"absent", "open", "archived"}]
  /\ \A w \in Spaces : catalog'[w] = "absent" => catalog[w] = "absent" \/ (Drops(c) /\ w = call[c].ws)
  /\ call[c].pc \in {"look", "insert"} /\ call'[c].pc \notin {"insert", "done"} /\ call[c].ws \in Spaces =>
       catalog'[call[c].ws] # "absent"
HistoryMoved(c) ==
  /\ faults' \in 0..MaxFaults /\ barred' = barred
  /\ Answers(c) =>
       /\ cookie' = IF call[c].op = "unlock" THEN Merged(c)
                    ELSE IF call[c].op = "logout" THEN NoCookie ELSE cookie
       /\ earned' = IF call[c].op = "unlock"
                    THEN earned \cup (IF call[c].auth.choose THEN Spaces ELSE {call[c].ws})
                    ELSE earned
       /\ gone' = IF call[c].op \in {"revoke", "downgrade"} THEN gone \cup {call[c].target} ELSE gone
  /\ ~Answers(c) => cookie' = cookie /\ earned' = earned /\ gone' = gone
  /\ Drops(c) =>
       /\ purged' = [purged EXCEPT ![call[c].ws] = @ \cup Underway]
       /\ sealed' = [sealed EXCEPT ![call[c].ws] = late[c] = {} /\ Minting(call[c].ws) = {}]
  /\ ~Drops(c) => purged' = purged /\ sealed' = sealed
  /\ Mints(c) => late' = [d \in Calls |-> IF At(d, "drop") /\ call[d].ws = call[c].ws
                                          THEN late[d] \cup {c} ELSE late[d]]
  /\ ~Mints(c) => late' = late
Wrote(c) == KeysMoved(c) /\ TablesMoved(c) /\ HistoryMoved(c)

(* Moving on, and all else as it was.                                           *)
LEMMA Went ==
  ASSUME call \in [Calls -> CallRecords], NEW c \in Calls, NEW p \in Pcs, Goto(c, p)
  PROVE  /\ Moved(c) /\ call'[c].pc = p
         /\ call'[c].auth = call[c].auth /\ call'[c].ws = call[c].ws /\ call'[c].ok = call[c].ok
<1> DEFINE r == [call[c] EXCEPT !.pc = p]
<1>1. call[c] \in CallRecords
  OBVIOUS
<1>2. r \in CallRecords
  BY <1>1 DEF CallRecords
<1>3. /\ r.pc = p /\ r.auth = call[c].auth /\ r.ws = call[c].ws /\ r.ok = call[c].ok
      /\ r.op = call[c].op /\ r.cred = call[c].cred /\ r.asked = call[c].asked
      /\ r.scope = call[c].scope /\ r.sent = call[c].sent /\ r.target = call[c].target
  BY <1>1 DEF CallRecords
<1>4. call' = [call EXCEPT ![c] = r]
  BY DEF Goto, Goes
<1> HIDE DEF r
<1>5. call'[c] = r /\ call' \in [Calls -> CallRecords] /\ \A d \in Calls \ {c} : call'[d] = call[d]
  BY <1>2, <1>4
<1> QED
  BY <1>3, <1>5 DEF Moved, SameAsk

Quiet(c) == call' \in [Calls -> CallRecords] /\ UNCHANGED <<tables, cookie, history>> /\ faults' \in 0..MaxFaults
LEMMA QuietWrites ==
  ASSUME TypeOK, NEW c \in Calls, Quiet(c), ~Drops(c), ~Answers(c), ~Mints(c),
         call[c].pc # "purgekeys" \/ call'[c].pc # "drop", call[c].pc # "writekey" \/ call'[c].pc # "log",
         call[c].pc # "log" \/ call'[c].pc # "answer",
         call[c].pc \in {"look", "insert"} /\ call'[c].pc \notin {"insert", "done"} /\ call[c].ws \in Spaces =>
           catalog[call[c].ws] # "absent"
  PROVE  Wrote(c)
BY DEF TypeOK, Quiet, Wrote, KeysMoved, TablesMoved, HistoryMoved, tables, history

LEMMA InvIsTyped ==
  ASSUME AccessInv
  PROVE  /\ TypeOK /\ Typed /\ call \in [Calls -> CallRecords] /\ earned \subseteq Spaces
         /\ \A c \in Calls : StepFits(c) /\ call[c] \in CallRecords /\ Earned(call[c].sent)
BY DEF AccessInv, TypeOK, Typed, SessionsAreEarned

LEMMA EnterMoves ==
  ASSUME AccessInv, NEW c \in Calls, call[c].pc \in {"auth", "count"}, NEW a, Calling(call[c], a),
         a # Nobody \/ Op(c) = "mint", Enter(c, a), faults' = faults,
         UNCHANGED <<tables, cookie, history>>
  PROVE  Paced(c) /\ Wrote(c)
<1> DEFINE w == Place(call[c], a)
           r == [call[c] EXCEPT !.pc = FirstStep(call[c].op), !.auth = a, !.ws = w]
<1>0. /\ call[c] \in CallRecords /\ call \in [Calls -> CallRecords] /\ TypeOK /\ StepFits(c)
      /\ Earned(call[c].sent) /\ earned \subseteq Spaces /\ faults \in 0..MaxFaults
  BY InvIsTyped DEF TypeOK
<1>1. CASE w = "denied"
  <2>1. Goto(c, "done")
    BY <1>1 DEF Enter, Refuse
  <2>2. Moved(c) /\ call'[c].pc = "done" /\ call'[c].auth = call[c].auth /\ call'[c].ws = call[c].ws
        /\ call'[c].ok = call[c].ok
    BY <1>0, <2>1, Went DEF Pcs
  <2>3. Paced(c)
    BY <2>2 DEF Paced, Enters, FindsKey, Follows
  <2>4. Wrote(c)
    BY <1>0, <2>2, QuietWrites DEF Quiet, Drops, Answers, Mints, Moved
  <2> QED
    BY <2>3, <2>4
<1>2. CASE w # "denied"
  <2>1. Placed(call[c], a, w)
    BY <1>0, <1>2, PlaceIsPlaced DEF StepFits, Fits, Op
  <2>2. FirstStep(call[c].op) \in {"look", "store", "readkey", "readrow", "answer"}
    BY DEF FirstStep
  <2>3. a \in Principals /\ w \in Spaces \cup {"demo", "none"}
    BY <2>1 DEF Calling, Known, Placed
  <2>4. call' = [call EXCEPT ![c] = r]
    BY <1>2 DEF Enter, Goes
  <2> HIDE DEF w
  <2>5. r \in CallRecords
    BY ZenonT(60), <1>0, <2>2, <2>3 DEF CallRecords, Pcs
  <2>6. /\ r.pc = FirstStep(call[c].op) /\ r.auth = a /\ r.ws = w /\ r.ok = call[c].ok
        /\ r.op = call[c].op /\ r.cred = call[c].cred /\ r.asked = call[c].asked
        /\ r.scope = call[c].scope /\ r.sent = call[c].sent /\ r.target = call[c].target
    BY <1>0 DEF CallRecords
  <2> HIDE DEF r
  <2>7. call'[c] = r /\ call' \in [Calls -> CallRecords] /\ \A d \in Calls \ {c} : call'[d] = call[d]
    BY <1>0, <2>4, <2>5
  <2>8. Moved(c)
    BY <2>6, <2>7 DEF Moved, SameAsk
  <2>9. Paced(c)
    BY <2>1, <2>2, <2>6, <2>7, <2>8 DEF Paced, Enters, FindsKey, Follows, Op
  <2>10. Wrote(c)
    BY <1>0, <2>2, <2>6, <2>7, QuietWrites DEF Quiet, Drops, Answers, Mints
  <2> QED
    BY <2>9, <2>10
<1> QED
  BY <1>1, <1>2

LEMMA AuthorizeMoves ==
  ASSUME AccessInv, NEW c \in Calls, Authorize(c) \/ Bootstrap(c) PROVE Paced(c) /\ Wrote(c)
<1>0. /\ call[c] \in CallRecords /\ call \in [Calls -> CallRecords] /\ TypeOK /\ Typed /\ StepFits(c)
      /\ faults' = faults /\ faults \in 0..MaxFaults /\ UNCHANGED <<tables, cookie, history>>
      /\ call[c].pc \in {"auth", "count"}
  BY InvIsTyped DEF Authorize, Bootstrap, At, TypeOK
<1>1. CASE Authorize(c) /\ Caller(call[c]) # Nobody
  BY <1>0, <1>1, CallerIsKnown, EnterMoves DEF Authorize
<1>2. CASE Bootstrap(c) /\ Enter(c, Nobody)
  <2>1. Calling(call[c], Nobody) /\ Op(c) = "mint"
    BY <1>0, <1>2, Nobodies, NamesDiffer DEF Calling, Known, Bootstrap, At, StepFits, Fits, Op
  <2> QED
    BY <1>0, <1>2, <2>1, EnterMoves
<1>3. CASE \E p \in {"count", "done"} : Goto(c, p) /\ (p = "count" => At(c, "auth") /\ Op(c) = "mint")
  <2>1. PICK p \in {"count", "done"} : Goto(c, p) /\ (p = "count" => At(c, "auth") /\ Op(c) = "mint")
    BY <1>3
  <2>2. Moved(c) /\ call'[c].pc = p /\ call'[c].auth = call[c].auth /\ call'[c].ws = call[c].ws
        /\ call'[c].ok = call[c].ok
    BY <1>0, <2>1, Went DEF Pcs
  <2>3. Paced(c)
    BY <1>0, <2>1, <2>2 DEF Paced, Enters, FindsKey, Follows, At, Op
  <2>4. Wrote(c)
    BY <1>0, <2>2, QuietWrites DEF Quiet, Drops, Answers, Mints, Moved
  <2> QED
    BY <2>3, <2>4
<1> QED
  BY <1>1, <1>2, <1>3 DEF Authorize, Bootstrap, Refuse

\* Steps that only look, or fail.
LEMMA QuietMoves ==
  ASSUME AccessInv, NEW c \in Calls, Look(c) \/ ReadRow(c) \/ Fail(c) PROVE Paced(c) /\ Wrote(c)
<1>0. /\ call[c] \in CallRecords /\ call \in [Calls -> CallRecords] /\ TypeOK /\ StepFits(c)
      /\ faults' \in 0..MaxFaults /\ faults \in 0..MaxFaults /\ UNCHANGED <<tables, cookie, history>>
      /\ call[c].op \in Writers \cup {"read", "unlock", "logout", "none"}
  <2>1. MaxFaults \in Nat /\ faults \in 0..MaxFaults
    BY InvIsTyped, AccessAssumption DEF TypeOK
  <2>2. faults' \in 0..MaxFaults
    <3>1. faults' = faults \/ (faults < MaxFaults /\ faults' = faults + 1)
      BY DEF Look, ReadRow, Fail
    <3> QED
      BY <2>1, <3>1
  <2> QED
    BY <2>1, <2>2, InvIsTyped, RecordIsTyped DEF Look, ReadRow, Fail
<1>1. CASE Look(c)
  <2> DEFINE p == IF call[c].ws \in Spaces /\ catalog[call[c].ws] = "absent" THEN "insert"
                  ELSE AfterEnsure(Op(c))
  <2>1. Goto(c, p) /\ call[c].pc = "look" /\ p \in Pcs
    BY <1>1 DEF Look, At, AfterEnsure, Pcs
  <2>2. Moved(c) /\ call'[c].pc = p /\ call'[c].auth = call[c].auth /\ call'[c].ws = call[c].ws
        /\ call'[c].ok = call[c].ok
    BY <1>0, <2>1, Went
  <2>3. Paced(c)
    BY <2>1, <2>2 DEF Paced, Enters, FindsKey, Follows, Op
  <2>4. Wrote(c)
    BY <1>0, <2>1, <2>2, QuietWrites DEF Quiet, Drops, Answers, Mints, Moved, AfterEnsure
  <2> QED
    BY <2>3, <2>4
<1>2. CASE ReadRow(c)
  <2>1. catalog[call[c].ws] \in {"absent", "open", "archived"} /\ Op(c) \in {"create", "archive", "delete"}
    BY <1>0, <1>2 DEF TypeOK, StepFits, Fits, Op, ReadRow, At
  <2>2. PICK p \in {"look", "archive", "log", "purge", "done"} :
          /\ Goto(c, p)
          /\ p = "look" => Op(c) = "create"
          /\ p \in {"archive", "log"} => Op(c) = "archive"
          /\ p = "purge" => Op(c) = "delete"
    BY <1>2, <2>1 DEF ReadRow, Refuse
  <2>3. Moved(c) /\ call'[c].pc = p /\ call'[c].auth = call[c].auth /\ call'[c].ws = call[c].ws
        /\ call'[c].ok = call[c].ok /\ call[c].pc = "readrow"
    BY <1>0, <1>2, <2>2, Went DEF Pcs, ReadRow, At
  <2>4. Paced(c)
    BY <2>2, <2>3 DEF Paced, Enters, FindsKey, Follows, Op
  <2>5. Wrote(c)
    BY <1>0, <2>3, QuietWrites DEF Quiet, Drops, Answers, Mints, Moved
  <2> QED
    BY <2>4, <2>5
<1>3. CASE Fail(c)
  <2>1. Moved(c) /\ call'[c].pc = "done" /\ call'[c].auth = call[c].auth /\ call'[c].ws = call[c].ws
        /\ call'[c].ok = call[c].ok /\ call[c].pc \notin {"idle", "done"}
    BY <1>0, <1>3, Went DEF Pcs, Fail, Refuse
  <2>2. ~call[c].ok
    BY <1>0, <2>1 DEF StepFits, Fits, At
  <2>3. Paced(c)
    BY <2>1 DEF Paced, Enters, FindsKey, Follows
  <2>4. Wrote(c)
    BY <1>0, <2>1, <2>2, QuietWrites DEF Quiet, Drops, Answers, Mints, Moved
  <2> QED
    BY <2>3, <2>4
<1> QED
  BY <1>1, <1>2, <1>3

LEMMA ReadKeyMoves == ASSUME AccessInv, NEW c \in Calls, ReadKey(c) PROVE Paced(c) /\ Wrote(c)
<1> DEFINE k == call[c].target
           r == [call[c] EXCEPT !.pc = "writekey", !.ws = keys[k].ws]
<1>0. /\ call[c] \in CallRecords /\ call \in [Calls -> CallRecords] /\ TypeOK /\ StepFits(c)
      /\ faults' = faults /\ faults \in 0..MaxFaults /\ UNCHANGED <<tables, cookie, history>>
      /\ call[c].pc = "readkey" /\ k \in KeyIds
  BY InvIsTyped DEF ReadKey, At, TypeOK, StepFits, Fits
<1>1. CASE Goto(c, "done")
  <2>1. Moved(c) /\ call'[c].pc = "done" /\ call'[c].auth = call[c].auth /\ call'[c].ws = call[c].ws
        /\ call'[c].ok = call[c].ok
    BY <1>0, <1>1, Went DEF Pcs
  <2>2. Paced(c)
    BY <1>0, <2>1 DEF Paced, Enters, FindsKey, Follows
  <2>3. Wrote(c)
    BY <1>0, <2>1, QuietWrites DEF Quiet, Drops, Answers, Mints, Moved
  <2> QED
    BY <2>2, <2>3
<1>2. CASE /\ Goes(c, r) /\ keys[k] # NoKey /\ (call[c].auth.choose \/ keys[k].ws = call[c].auth.home)
           /\ call[c].op = "downgrade" => keys[k].legacy
  <2>1. keys[k] \in KeyRows
    BY <1>0, <1>2 DEF TypeOK
  <2>2. keys[k].ws \in Spaces \cup {"demo", "none"}
    BY <2>1 DEF KeyRows
  <2>3. r \in CallRecords
    BY <1>0, <2>2 DEF CallRecords, Pcs
  <2>4. /\ r.pc = "writekey" /\ r.auth = call[c].auth /\ r.ws = keys[k].ws /\ r.ok = call[c].ok
        /\ r.op = call[c].op /\ r.cred = call[c].cred /\ r.asked = call[c].asked
        /\ r.scope = call[c].scope /\ r.sent = call[c].sent /\ r.target = call[c].target
    BY <1>0 DEF CallRecords
  <2>5. call' = [call EXCEPT ![c] = r]
    BY <1>2 DEF Goes
  <2> HIDE DEF r
  <2>6. call'[c] = r /\ call' \in [Calls -> CallRecords] /\ \A d \in Calls \ {c} : call'[d] = call[d]
    BY <1>0, <2>3, <2>5
  <2>7. Moved(c)
    BY <2>4, <2>6 DEF Moved, SameAsk
  <2>8. Paced(c)
    BY <1>0, <1>2, <2>4, <2>6, <2>7 DEF Paced, Enters, FindsKey, Follows
  <2>9. Wrote(c)
    BY <1>0, <2>4, <2>6, QuietWrites DEF Quiet, Drops, Answers, Mints
  <2> QED
    BY <2>8, <2>9
<1> QED
  BY <1>1, <1>2 DEF ReadKey, Refuse, Op

\* Steps that write: the request only moves on.
LEMMA GotoPaces ==
  ASSUME AccessInv, NEW c \in Calls, NEW p \in Pcs, Goto(c, p),
         call[c].pc \notin {"idle", "auth", "count", "readkey", "done"}, Follows(Op(c), call[c].pc, p)
  PROVE  /\ Paced(c) /\ call'[c].pc = p /\ ~Enters(c) /\ call'[c].ok = call[c].ok /\ ~call[c].ok
         /\ Moved(c)
<1>1. call \in [Calls -> CallRecords] /\ StepFits(c)
  BY InvIsTyped
<1>2. Moved(c) /\ call'[c].pc = p /\ call'[c].auth = call[c].auth /\ call'[c].ws = call[c].ws
      /\ call'[c].ok = call[c].ok
  BY <1>1, Went
<1>3. ~call[c].ok
  BY <1>1 DEF StepFits, Fits, At
<1> QED
  BY <1>2, <1>3 DEF Paced, Enters, FindsKey, Op

LEMMA InsertMoves == ASSUME AccessInv, NEW c \in Calls, InsertRow(c) PROVE Paced(c) /\ Wrote(c)
<1>0. TypeOK /\ StepFits(c) /\ call[c].pc = "insert" /\ call[c].ws \in Spaces \cup {"demo"}
  BY InvIsTyped DEF InsertRow, At, StepFits, Fits
<1>1. /\ faults' = faults /\ UNCHANGED <<keys, rows, audit, cookie, history>>
  BY DEF InsertRow
<1>2. PICK p \in {AfterEnsure(Op(c)), "done"} :
        /\ Goto(c, p)
        /\ \/ p = "done" /\ catalog' = catalog
           \/ catalog' = [catalog EXCEPT ![call[c].ws] = "open"]
  BY DEF InsertRow, Refuse
<1>3. p \in {"store", "log", "answer", "done"}
  BY <1>2 DEF AfterEnsure
<1>4. Paced(c) /\ call'[c].pc = p /\ call'[c].ok = call[c].ok /\ ~call[c].ok
  BY <1>0, <1>2, <1>3, GotoPaces DEF Follows, Pcs, Op
<1>5. KeysMoved(c)
  BY <1>0, <1>1 DEF KeysMoved, TypeOK
<1>6. TablesMoved(c)
  BY <1>0, <1>1, <1>2, <1>4 DEF TablesMoved, TypeOK
<1>7. HistoryMoved(c)
  BY <1>0, <1>1 DEF HistoryMoved, TypeOK, history, Answers, Drops, Mints
<1> QED
  BY <1>4, <1>5, <1>6, <1>7 DEF Wrote

LEMMA StoreMoves == ASSUME AccessInv, NEW c \in Calls, Store(c) PROVE Paced(c) /\ Wrote(c)
<1>0. TypeOK /\ StepFits(c) /\ call[c].pc = "store" /\ c \in KeyIds /\ call[c].ws \in Spaces \cup {"demo", "none"}
  BY InvIsTyped, NamesDiffer, RecordIsTyped DEF Store, At
<1>1. /\ faults' = faults /\ UNCHANGED <<catalog, audit, cookie, barred, gone, earned, purged, sealed>>
      /\ Goto(c, "log")
  BY DEF Store
<1>2. Paced(c) /\ call'[c].pc = "log" /\ call'[c].ok = call[c].ok /\ ~call[c].ok
  BY <1>0, <1>1, GotoPaces DEF Follows, Pcs
<1>3. KeysMoved(c)
  <2>1. CASE Op(c) = "mint"
    <3> DEFINE new == [ws |-> call[c].ws, scope |-> call[c].scope, legacy |-> FALSE]
    <3>1. call[c].ws \in Spaces \cup {"demo"} /\ call[c].scope \in Scopes
      BY <1>0, <2>1 DEF StepFits, Fits, Op
    <3>2. new \in KeyRows /\ new.ws = call[c].ws
      BY <3>1 DEF KeyRows
    <3>3. keys' = [keys EXCEPT ![c] = new]
      BY <2>1 DEF Store
    <3> HIDE DEF new
    <3> QED
      BY <1>0, <1>2, <2>1, <3>2, <3>3 DEF KeysMoved, TypeOK, Op
  <2>2. CASE Op(c) # "mint"
    <3>1. keys' = keys
      BY <2>2 DEF Store
    <3> QED
      BY <1>0, <3>1 DEF KeysMoved, TypeOK
  <2> QED
    BY <2>1, <2>2
<1>4. TablesMoved(c)
  <2>1. rows' = rows \/ (Op(c) # "mint" /\ rows' = rows \cup {[ws |-> call[c].ws, call |-> c]})
    BY DEF Store
  <2> QED
    BY <1>0, <1>1, <1>2, <2>1 DEF TablesMoved, TypeOK, Op
<1>5. HistoryMoved(c)
  <2>1. ~Answers(c) /\ ~Drops(c) /\ (Mints(c) <=> Op(c) = "mint")
    BY <1>0, <1>2 DEF Answers, Drops, Mints, Op
  <2>2. IF Op(c) = "mint" THEN late' = [d \in Calls |-> IF At(d, "drop") /\ call[d].ws = call[c].ws
                                                       THEN late[d] \cup {c} ELSE late[d]]
                           ELSE late' = late
    BY DEF Store
  <2> QED
    BY <1>0, <1>1, <2>1, <2>2 DEF HistoryMoved, TypeOK
<1> QED
  BY <1>2, <1>3, <1>4, <1>5 DEF Wrote

LEMMA WriteKeyMoves == ASSUME AccessInv, NEW c \in Calls, WriteKey(c) PROVE Paced(c) /\ Wrote(c)
<1> DEFINE k == call[c].target
           new == IF Op(c) = "revoke" THEN NoKey
                  ELSE IF keys[k].legacy THEN [keys[k] EXCEPT !.scope = "read", !.legacy = FALSE]
                  ELSE keys[k]
<1>0. TypeOK /\ StepFits(c) /\ call[c].pc = "writekey" /\ k \in KeyIds /\ Op(c) \in {"revoke", "downgrade"}
  BY InvIsTyped DEF WriteKey, At, StepFits, Fits, Op
<1>1. /\ faults' = faults /\ UNCHANGED <<catalog, rows, audit, cookie, history>> /\ Goto(c, "log")
      /\ keys' = [keys EXCEPT ![k] = new]
  BY SMTT(60), <1>0 DEF WriteKey, TypeOK
<1>2. Paced(c) /\ call'[c].pc = "log" /\ call'[c].ok = call[c].ok /\ ~call[c].ok
  BY SMTT(60), <1>0, <1>1, GotoPaces DEF Follows, Pcs
<1>3. /\ new \in KeyRows \cup {NoKey}
      /\ \/ new = NoKey
         \/ keys[k] # NoKey /\ new.ws = keys[k].ws /\ new.scope = "read"
         \/ Op(c) = "downgrade" /\ ~keys[k].legacy /\ new = keys[k]
  <2>1. CASE Op(c) = "revoke"
    BY <2>1
  <2>2. CASE Op(c) = "downgrade" /\ keys[k].legacy
    <3>1. keys[k] # NoKey
      BY <2>2 DEF NoKey
    <3>2. keys[k] \in KeyRows
      BY <1>0, <3>1 DEF TypeOK
    <3>3. new = [keys[k] EXCEPT !.scope = "read", !.legacy = FALSE]
      BY <2>2
    <3>4. new \in KeyRows /\ new.ws = keys[k].ws /\ new.scope = "read"
      BY <3>2, <3>3 DEF KeyRows, Scopes
    <3> QED
      BY <3>1, <3>4
  <2>3. CASE Op(c) = "downgrade" /\ ~keys[k].legacy
    BY <1>0, <2>3 DEF TypeOK
  <2> QED
    BY <1>0, <2>1, <2>2, <2>3
<1> HIDE DEF new
<1>4. KeysMoved(c)
  BY <1>0, <1>1, <1>2, <1>3 DEF KeysMoved, TypeOK, Op
<1>5. TablesMoved(c)
  BY <1>0, <1>1 DEF TablesMoved, TypeOK
<1>6. HistoryMoved(c)
  BY <1>0, <1>1 DEF HistoryMoved, TypeOK, history, Answers, Drops, Mints
<1> QED
  BY <1>2, <1>4, <1>5, <1>6 DEF Wrote

LEMMA CatalogMoves ==
  ASSUME AccessInv, NEW c \in Calls, Archive(c) \/ DropRow(c) PROVE Paced(c) /\ Wrote(c)
<1>0. /\ TypeOK /\ StepFits(c) /\ call[c].pc \in {"archive", "drop"} /\ call[c].ws \in Spaces
      /\ catalog \in [Spaces -> {"absent", "open", "archived"}]
  BY InvIsTyped DEF Archive, DropRow, At, StepFits, Fits, TypeOK
<1>1. /\ faults' = faults /\ UNCHANGED <<keys, rows, audit, cookie, barred, gone, earned, late>> /\ Goto(c, "log")
  BY DEF Archive, DropRow, history
<1>2. Paced(c) /\ call'[c].pc = "log" /\ call'[c].ok = call[c].ok /\ ~call[c].ok
  BY <1>0, <1>1, GotoPaces DEF Follows, Pcs
<1>3. KeysMoved(c)
  BY <1>0, <1>1 DEF KeysMoved, TypeOK
<1>4. TablesMoved(c)
  <2>1. CASE Archive(c)
    <3>1. catalog' = [catalog EXCEPT ![call[c].ws] = IF catalog[call[c].ws] = "absent"
                                                     THEN catalog[call[c].ws] ELSE "archived"]
      BY <1>0, <2>1 DEF Archive
    <3>2. catalog' \in [Spaces -> {"absent", "open", "archived"}]
          /\ \A w \in Spaces : catalog'[w] = "absent" => catalog[w] = "absent"
      BY <1>0, <3>1
    <3> QED
      BY <1>0, <1>1, <3>2 DEF TablesMoved
  <2>2. CASE DropRow(c)
    <3>1. catalog' = [catalog EXCEPT ![call[c].ws] = "absent"] /\ call[c].pc = "drop"
      BY <2>2 DEF DropRow, At
    <3> QED
      BY <1>0, <1>1, <1>2, <3>1 DEF TablesMoved, Drops
  <2> QED
    BY <2>1, <2>2
<1>5. HistoryMoved(c)
  <2>1. CASE Archive(c)
    <3>1. purged' = purged /\ sealed' = sealed /\ call[c].pc = "archive"
      BY <2>1 DEF Archive, At, history
    <3> QED
      BY <1>0, <1>1, <3>1 DEF HistoryMoved, TypeOK, Answers, Drops, Mints
  <2>2. CASE DropRow(c)
    <3>1. call[c].pc = "drop" /\ Drops(c)
      BY <1>2, <2>2 DEF DropRow, At, Drops
    <3> QED
      BY <1>0, <1>1, <2>2, <3>1 DEF HistoryMoved, TypeOK, Answers, DropRow, Mints
  <2> QED
    BY <2>1, <2>2
<1> QED
  BY <1>2, <1>3, <1>4, <1>5 DEF Wrote

LEMMA PurgeMoves ==
  ASSUME AccessInv, NEW c \in Calls, PurgeRows(c) \/ PurgeKeys(c) PROVE Paced(c) /\ Wrote(c)
<1>0. TypeOK /\ StepFits(c) /\ call[c].pc \in {"purge", "purgekeys"}
  BY InvIsTyped DEF PurgeRows, PurgeKeys, At
<1>1. /\ faults' = faults /\ UNCHANGED <<catalog, audit, cookie, history>>
      /\ Goto(c, IF call[c].pc = "purge" THEN "purgekeys" ELSE "drop")
  BY DEF PurgeRows, PurgeKeys, At
<1>2. Paced(c) /\ call'[c].pc \notin {"log", "done", "answer"}
      /\ call'[c].ok = call[c].ok /\ ~call[c].ok
  BY <1>0, <1>1, GotoPaces DEF Follows, Pcs
<1>3. IF call[c].pc = "purge" THEN keys' = keys
      ELSE keys' = [k \in KeyIds |-> IF keys[k].ws = call[c].ws THEN NoKey ELSE keys[k]]
  BY DEF PurgeRows, PurgeKeys, At
<1>4. rows' \subseteq rows
  BY DEF PurgeRows, PurgeKeys
<1>5. KeysMoved(c)
  <2>1. CASE call[c].pc = "purge"
    BY <1>0, <1>3, <2>1 DEF KeysMoved, TypeOK
  <2>2. CASE call[c].pc = "purgekeys"
    <3>1. call[c].ws \in Spaces
      BY <1>0, <2>2 DEF StepFits, Fits
    <3>2. keys' = [k \in KeyIds |-> IF keys[k].ws = call[c].ws THEN NoKey ELSE keys[k]]
      BY <1>3, <2>2
    <3>3. \A k \in KeyIds : keys'[k] \in {keys[k], NoKey} /\ keys'[k].ws # call[c].ws
      BY <3>1, <3>2, Nobodies, NamesDiffer
    <3>4. keys' \in [KeyIds -> KeyRows \cup {NoKey}]
      BY <1>0, <3>2 DEF TypeOK
    <3> QED
      BY <2>2, <3>3, <3>4 DEF KeysMoved
  <2> QED
    BY <1>0, <2>1, <2>2
<1>6. TablesMoved(c)
  BY <1>0, <1>1, <1>4 DEF TablesMoved, TypeOK
<1>7. HistoryMoved(c)
  BY <1>0, <1>1 DEF HistoryMoved, TypeOK, history, Answers, Drops, Mints
<1> QED
  BY <1>2, <1>5, <1>6, <1>7 DEF Wrote

LEMMA AuditMoves == ASSUME AccessInv, NEW c \in Calls, recordWriteAudit(c) PROVE Paced(c) /\ Wrote(c)
<1>0. TypeOK /\ StepFits(c) /\ call[c].pc = "log"
  BY InvIsTyped DEF recordWriteAudit, At
<1>1. /\ faults' = faults /\ UNCHANGED <<keys, catalog, rows, cookie, history>> /\ Goto(c, "answer")
      /\ audit' = audit \cup {NewLog(c)}
  BY DEF recordWriteAudit, NewLog, Op
<1>2. Paced(c) /\ call'[c].pc = "answer" /\ call'[c].ok = call[c].ok /\ ~call[c].ok
  BY <1>0, <1>1, GotoPaces DEF Follows, Pcs
<1>3. KeysMoved(c)
  BY <1>0, <1>1 DEF KeysMoved, TypeOK
<1>4. TablesMoved(c)
  BY <1>0, <1>1, <1>2 DEF TablesMoved, TypeOK
<1>5. HistoryMoved(c)
  BY <1>0, <1>1 DEF HistoryMoved, TypeOK, history, Answers, Drops, Mints
<1> QED
  BY <1>2, <1>3, <1>4, <1>5 DEF Wrote

LEMMA AnswerMoves ==
  ASSUME AccessInv, NEW c \in Calls, Answer(c) PROVE Paced(c) /\ Wrote(c) /\ Answers(c) /\ call'[c].pc = "done"
<1> DEFINE r == [call[c] EXCEPT !.pc = "done", !.ok = TRUE]
<1>0. TypeOK /\ StepFits(c) /\ call[c].pc = "answer" /\ call[c] \in CallRecords /\ call \in [Calls -> CallRecords]
  BY InvIsTyped DEF Answer, At
<1>1. faults' = faults /\ UNCHANGED <<tables, barred, purged, late, sealed>> /\ call' = [call EXCEPT ![c] = r]
  BY DEF Answer, Goes
<1>2. r \in CallRecords
  BY <1>0 DEF CallRecords, Pcs
<1>3. /\ r.pc = "done" /\ r.auth = call[c].auth /\ r.ws = call[c].ws /\ r.ok
      /\ r.op = call[c].op /\ r.cred = call[c].cred /\ r.asked = call[c].asked
      /\ r.scope = call[c].scope /\ r.sent = call[c].sent /\ r.target = call[c].target
  BY <1>0 DEF CallRecords
<1> HIDE DEF r
<1>4. call'[c] = r /\ call' \in [Calls -> CallRecords] /\ \A d \in Calls \ {c} : call'[d] = call[d]
  BY <1>0, <1>1, <1>2
<1>5. Moved(c)
  BY <1>3, <1>4 DEF Moved, SameAsk
<1>6. Paced(c)
  BY <1>0, <1>3, <1>4, <1>5 DEF Paced, Enters, FindsKey, Follows
<1>7. KeysMoved(c)
  BY <1>0, <1>1 DEF KeysMoved, TypeOK, tables
<1>8. TablesMoved(c)
  BY <1>0, <1>1 DEF TablesMoved, TypeOK, tables
<1>9. HistoryMoved(c)
  <2>1. Answers(c) /\ ~Drops(c) /\ ~Mints(c)
    BY <1>0, <1>3, <1>4 DEF Answers, Drops, Mints
  <2>2. cookie' = IF call[c].op = "unlock" THEN Merged(c)
                  ELSE IF call[c].op = "logout" THEN NoCookie ELSE cookie
    BY DEF Answer, Op
  <2> QED
    BY <1>0, <1>1, <2>1, <2>2 DEF HistoryMoved, TypeOK, Answer, Op
<1> QED
  BY <1>0, <1>3, <1>4, <1>6, <1>7, <1>8, <1>9 DEF Wrote, Answers

(* Every step of a request, then, is paced and writes what Wrote says.          *)
LEMMA StepMoves ==
  ASSUME AccessInv, NEW c \in Calls, Step(c) \/ Fail(c) PROVE Paced(c) /\ Wrote(c)
BY AuthorizeMoves, QuietMoves, ReadKeyMoves, InsertMoves, StoreMoves, WriteKeyMoves, CatalogMoves,
   PurgeMoves, AuditMoves, AnswerMoves DEF Step

-----------------------------------------------------------------------------
(* The invariant, part by part.                                                 *)
Now(c) == AccessInv /\ Paced(c) /\ Wrote(c)

LEMMA NowFacts ==
  ASSUME NEW c \in Calls, Now(c)
  PROVE  /\ TypeOK /\ Typed /\ call \in [Calls -> CallRecords] /\ Moved(c)
         /\ call' \in [Calls -> CallRecords] /\ \A d \in Calls \ {c} : call'[d] = call[d]
         /\ SameAsk(c) /\ StepFits(c) /\ call[c] \in CallRecords /\ call'[c] \in CallRecords
         /\ call[c].pc \notin {"idle", "done"} /\ Follows(call[c].op, call[c].pc, call'[c].pc)
         /\ ~call[c].ok
BY InvIsTyped DEF Now, Paced, Moved, StepFits, Fits, At

LEMMA TypeHolds == ASSUME NEW c \in Calls, Now(c) PROVE TypeOK'
<1>0. /\ TypeOK /\ call' \in [Calls -> CallRecords] /\ StepFits(c) /\ call[c] \in CallRecords
      /\ KeysMoved(c) /\ TablesMoved(c) /\ HistoryMoved(c) /\ SessionsAreEarned
  BY NowFacts DEF Now, Wrote, AccessInv
<1>1. keys' \in [KeyIds -> KeyRows \cup {NoKey}] /\ catalog' \in [Spaces -> {"absent", "open", "archived"}]
  BY <1>0 DEF KeysMoved, TablesMoved
<1>2. rows' \subseteq [ws : Spaces \cup {"demo"}, call : Calls]
  <2>1. CASE rows' \subseteq rows
    BY <1>0, <2>1 DEF TypeOK
  <2>2. CASE call[c].pc = "store" /\ rows' = rows \cup {[ws |-> call[c].ws, call |-> c]}
    <3>1. call[c].ws \in Spaces \cup {"demo"}
      BY <1>0, <2>2, RecordIsTyped DEF StepFits, Fits
    <3> QED
      BY <1>0, <2>2, <3>1 DEF TypeOK
  <2> QED
    BY <1>0, <2>1, <2>2 DEF TablesMoved
<1>3. cookie' \in Cookies /\ earned' \subseteq Spaces
  <2>1. CASE Answers(c) /\ call[c].op = "unlock"
    <3>1. call[c].ws \in Spaces /\ call[c].sent \in Cookies /\ call[c].auth \in Principals
      BY <1>0, <2>1, RecordIsTyped DEF SessionsAreEarned, Answers, Op
    <3>2. cookie' = Merged(c)
      BY <1>0, <2>1 DEF HistoryMoved
    <3> DEFINE old == call[c].sent
               new == sessionFromAuth(call[c].auth, call[c].ws)
    <3>3. new = [ws |-> call[c].ws, list |-> {call[c].ws}, choose |-> call[c].auth.choose]
      BY DEF sessionFromAuth
    <3>4. call[c].auth.choose \in BOOLEAN
      BY <3>1 DEF Principals
    <3>5. new \in Cookies
      BY <3>1, <3>3, <3>4 DEF Cookies
    <3>6. Merged(c) = IF old = NoCookie THEN new
                      ELSE [ws |-> new.ws, list |-> old.list \cup new.list,
                            choose |-> old.choose \/ new.choose]
      BY DEF Merged, mergeSessions
    <3> HIDE DEF new
    <3>7. /\ new.ws \in Spaces \cup {"none"} /\ new.list \subseteq Spaces /\ new.choose \in BOOLEAN
          /\ old.list \subseteq Spaces /\ old.choose \in BOOLEAN
      BY <3>1, <3>5 DEF Cookies
    <3>8. [ws |-> new.ws, list |-> old.list \cup new.list, choose |-> old.choose \/ new.choose] \in Cookies
      BY <3>7 DEF Cookies
    <3>9. cookie' \in Cookies
      BY <3>2, <3>5, <3>6, <3>8
    <3>10. earned' = earned \cup (IF call[c].auth.choose THEN Spaces ELSE {call[c].ws})
      BY <1>0, <2>1 DEF HistoryMoved
    <3> QED
      BY <1>0, <3>1, <3>9, <3>10 DEF TypeOK
  <2>2. CASE Answers(c) /\ call[c].op # "unlock"
    <3>1. cookie' \in {NoCookie, cookie} /\ earned' = earned
      BY <1>0, <2>2 DEF HistoryMoved
    <3> QED
      BY <1>0, <3>1, Nobodies DEF TypeOK
  <2>3. CASE ~Answers(c)
    BY <1>0, <2>3 DEF HistoryMoved, TypeOK
  <2> QED
    BY <2>1, <2>2, <2>3
<1>4. gone' \subseteq KeyIds /\ gone \subseteq gone'
  BY <1>0 DEF HistoryMoved, TypeOK, StepFits, Fits, Answers, Op
<1>5. barred' \in [Calls -> SUBSET gone']
  BY <1>0, <1>4 DEF HistoryMoved, TypeOK
<1>6. purged' \in [Spaces -> SUBSET Calls] /\ sealed' \in [Spaces -> BOOLEAN]
  <2>1. CASE ~Drops(c)
    BY <1>0, <2>1 DEF HistoryMoved, TypeOK
  <2>2. CASE Drops(c)
    <3> DEFINE b == late[c] = {} /\ Minting(call[c].ws) = {}
    <3>1. b \in BOOLEAN
      OBVIOUS
    <3>2. /\ purged' = [purged EXCEPT ![call[c].ws] = @ \cup Underway]
          /\ sealed' = [sealed EXCEPT ![call[c].ws] = b]
      BY <1>0, <2>2 DEF HistoryMoved
    <3> HIDE DEF b
    <3>3. Underway \subseteq Calls
      BY DEF Underway
    <3> QED
      BY <1>0, <3>1, <3>2, <3>3 DEF TypeOK
  <2> QED
    BY <2>1, <2>2
<1>7. faults' \in 0..MaxFaults
  BY <1>0 DEF HistoryMoved
<1>8. late' \in [Calls -> SUBSET Calls]
  BY <1>0 DEF HistoryMoved, TypeOK
<1> QED
  BY <1>0, <1>1, <1>2, <1>3, <1>4, <1>5, <1>6, <1>7, <1>8 DEF TypeOK

LEMMA FitHolds == ASSUME NEW c \in Calls, Now(c), NEW d \in Calls PROVE StepFits(d)'
<1>1. CASE d # c
  <2>1. call'[d] = call[d] /\ StepFits(d)
    BY <1>1, NowFacts, InvIsTyped DEF Now
  <2> QED
    BY <2>1 DEF StepFits, Fits, Op, At
<1>2. CASE d = c
  <2>0. /\ SameAsk(c) /\ StepFits(c) /\ call[c].pc \notin {"idle", "done"}
        /\ Follows(call[c].op, call[c].pc, call'[c].pc) /\ Paced(c)
        /\ call[c].op \in Writers \cup {"read", "unlock", "logout", "none"}
        /\ call'[c].ws \in Spaces \cup {"demo", "none"}
    BY NowFacts, RecordIsTyped DEF Now
  <2>1. CASE Enters(c)
    <3>1. Placed(call[c], call'[c].auth, call'[c].ws)
      BY <2>0, <2>1 DEF Paced
    <3>2. call'[c].pc = FirstStep(call[c].op) /\ call[c].pc \in {"auth", "count"}
      BY <2>0, <2>1 DEF Enters, Follows
    <3>3. ~call'[c].ok
      BY <2>0, <3>2, NowFacts DEF Paced
    <3>4. /\ call'[c].pc \in {"look", "store", "readkey", "readrow", "answer"}
          /\ call'[c].pc = "look" => call[c].op \in {"ingest", "mint", "unlock"}
          /\ call'[c].pc = "store" => call[c].op \in {"event", "prefs"}
          /\ call'[c].pc = "readkey" => call[c].op \in {"revoke", "downgrade"}
          /\ call'[c].pc = "readrow" => call[c].op \in {"create", "archive", "delete"}
      BY <3>2 DEF FirstStep
    <3>5. /\ call'[c].pc \in {"look", "store"} => call'[c].ws # "none"
          /\ call'[c].pc = "readrow" => call'[c].ws \in Spaces
      BY <2>0, <3>1, <3>2, <3>4 DEF Placed, StepFits, Fits, Op
    <3>6. /\ call[c].op \in {"mint", "revoke", "downgrade"} =>
                /\ call[c].op = "mint" => call[c].scope \in Scopes
                /\ call[c].op # "mint" => call[c].target \in KeyIds
          /\ call[c].op \in {"create", "archive", "delete"} => call[c].asked \in Spaces
      BY <2>0 DEF StepFits, Fits, Op
    <3> DEFINE n == call'[c]
    <3>7. n.op = call[c].op /\ n.scope = call[c].scope /\ n.target = call[c].target /\ n.asked = call[c].asked
      BY <2>0 DEF SameAsk
    <3>8. n.ws \in Spaces \cup {"demo", "none"} /\ d = c
      BY <1>2, <2>0
    <3> HIDE DEF n
    <3>9. Fits(n)
      BY <3>3, <3>4, <3>5, <3>6, <3>7, <3>8 DEF n, Fits
    <3> QED
      BY <1>2, <3>9 DEF n, StepFits
  <2>2. CASE ~Enters(c)
    <3>1. call'[c].auth = call[c].auth /\ (call'[c].ok => call'[c].pc = "done")
          /\ (~FindsKey(c) => call'[c].ws = call[c].ws)
      BY <2>0, <2>2, NowFacts DEF Paced
    <3>2. call[c].pc \in {"auth", "count"} => call'[c].pc \in {"count", "done"}
      BY <2>2 DEF Enters
    <3>3. call'[c].pc \in {"look", "insert", "readrow", "archive", "purge", "purgekeys", "drop", "store"} =>
            /\ call'[c].ws = call[c].ws
            /\ call[c].pc \in {"look", "insert", "readrow", "purge", "purgekeys"}
      BY <2>0, <3>1, <3>2 DEF FindsKey, Follows, AfterEnsure, FirstStep
    <3>4. /\ call'[c].pc = "count" => call[c].op = "mint"
          /\ call'[c].pc \in {"look", "insert"} => call[c].op \in {"ingest", "mint", "unlock", "create"}
          /\ call'[c].pc = "store" => call[c].op \in {"ingest", "event", "prefs", "mint"}
          /\ call'[c].pc = "writekey" => call[c].op \in {"revoke", "downgrade"}
          /\ call'[c].pc \notin {"readkey", "readrow", "idle", "auth"}
      BY <2>0, <3>2 DEF Follows, AfterEnsure, FirstStep, StepFits, Fits, Op
    <3>5. /\ call'[c].pc = "archive" => call[c].op = "archive"
          /\ call'[c].pc \in {"purge", "purgekeys", "drop"} => call[c].op = "delete" /\ call[c].ws \in Spaces
          /\ call'[c].pc = "archive" => call[c].ws \in Spaces
          /\ call'[c].pc = "log" => call[c].op \in Writers
      BY <2>0, <3>2 DEF Follows, AfterEnsure, FirstStep, StepFits, Fits, Op, Writers
    <3>6. /\ call[c].op \in {"mint", "revoke", "downgrade"} =>
                /\ call[c].op = "mint" => call[c].scope \in Scopes
                /\ call[c].op # "mint" => call[c].target \in KeyIds
          /\ call[c].op \in {"create", "archive", "delete"} => call[c].asked \in Spaces
          /\ call[c].pc \in {"look", "insert", "readrow", "purge", "purgekeys"} =>
               call[c].ws \in Spaces \cup {"demo"}
          /\ call[c].pc = "count" \/ call[c].pc = "auth" => call[c].auth = Nobody
      BY <2>0 DEF StepFits, Fits, Op
    <3>7. call'[c].pc = "count" => call[c].pc \in {"auth", "count"}
      BY <2>0 DEF Follows, AfterEnsure, FirstStep
    <3> DEFINE n == call'[c]
    <3>8. n.op = call[c].op /\ n.scope = call[c].scope /\ n.target = call[c].target /\ n.asked = call[c].asked
      BY <2>0 DEF SameAsk
    <3> HIDE DEF n
    <3>9. Fits(n)
      BY <3>1, <3>3, <3>4, <3>5, <3>6, <3>7, <3>8, NamesDiffer DEF n, Fits
    <3> QED
      BY <1>2, <3>9 DEF n, StepFits
  <2> QED
    BY <2>1, <2>2
<1> QED
  BY <1>1, <1>2

LEMMA HomeHolds ==
  ASSUME NEW c \in Calls, Now(c), NEW d \in Calls PROVE WorksAtHome(d)' /\ MayStore(d)'
<1>0. /\ WorksAtHome(d) /\ MayStore(d) /\ StepFits(d) /\ barred' = barred /\ barred \in [Calls -> SUBSET gone]
      /\ KeysAreSpent /\ keys \in [KeyIds -> KeyRows \cup {NoKey}] /\ Paced(c)
  BY DEF Now, AccessInv, Wrote, HistoryMoved, TypeOK
<1>1. CASE d # c
  <2>1. call'[d] = call[d]
    BY <1>1, NowFacts
  <2> QED
    BY <1>0, <2>1 DEF WorksAtHome, MayStore, Bound, Op
<1>2. CASE d = c
  <2>0. /\ SameAsk(c) /\ Follows(call[c].op, call[c].pc, call'[c].pc) /\ StepFits(c)
        /\ call[c].pc \notin {"idle", "done"}
    BY NowFacts
  <2>1. CASE Enters(c)
    <3> DEFINE a == call'[c].auth
    <3>1. Calling(call[c], a) /\ Placed(call[c], a, call'[c].ws)
      BY <1>0, <2>1 DEF Paced
    <3>2. call'[c].pc = FirstStep(call[c].op) /\ call'[c].op = call[c].op
      BY <2>0, <2>1 DEF Enters, Follows, SameAsk
    <3> HIDE DEF a
    <3>3. a.actor \in KeyIds => FromKey(a)
      BY <3>1 DEF Calling, Known
    <3>4. a.actor \in KeyIds /\ call[c].op \in {"ingest", "event", "prefs"} => a.actor \notin gone
      <4>1. SUFFICES ASSUME a.actor \in gone, call[c].op \in {"ingest", "event", "prefs"}, a.actor \in KeyIds
                     PROVE FALSE
        OBVIOUS
      <4>2. keys[a.actor] = NoKey \/ keys[a.actor].scope = "read"
        BY <1>0, <4>1 DEF KeysAreSpent, Spent
      <4>3. a.scope \in {"none", "read"}
        BY <3>3, <4>1, <4>2, Nobodies DEF FromKey
      <4> QED
        BY <3>1, <4>1, <4>3 DEF Calling
    <3>5. a.actor \in KeyIds /\ call[c].op \in {"ingest", "event", "prefs"} => a.scope # "read"
      BY <3>1 DEF Calling
    <3>6. MayStore(c)'
      BY <1>0, <3>2, <3>3, <3>4, <3>5 DEF MayStore, FromKey, Op, a
    <3>7. WorksAtHome(c)'
      BY <3>1, <3>2 DEF WorksAtHome, Bound, Op, a, Placed, FirstStep
    <3> QED
      BY <1>2, <3>6, <3>7
  <2>2. CASE ~Enters(c)
    <3>1. call'[c].auth = call[c].auth /\ call'[c].op = call[c].op
      BY <1>0, <2>0, <2>2 DEF Paced, SameAsk
    <3>2. call[c].pc \in {"auth", "count"} => call[c].auth.actor \notin KeyIds
      BY <2>0, Nobodies, NamesDiffer DEF StepFits, Fits
    <3>3. MayStore(c)'
      BY <1>0, <1>2, <2>0, <2>2, <3>1, <3>2 DEF MayStore, Op, Follows, AfterEnsure, FirstStep, Enters, StepFits, Fits
    <3>4. WorksAtHome(c)'
      <4>1. CASE FindsKey(c)
        BY <1>0, <3>1, <4>1 DEF WorksAtHome, Bound, Paced
      <4>2. CASE ~FindsKey(c)
        <5>1. call'[c].ws = call[c].ws
          BY <1>0, <2>2, <4>2 DEF Paced
        <5>2. SUFFICES ASSUME call'[c].pc \in {"look", "insert", "store", "writekey", "readrow", "archive",
                                               "purge", "purgekeys", "drop", "log"},
                              Bound(c), call[c].op # "unlock"
                       PROVE call[c].ws = call[c].auth.home
          BY <3>1, <5>1 DEF WorksAtHome, Bound, Op
        <5>3. call[c].pc \notin {"auth", "count"}
          BY <3>2, <5>2 DEF Bound
        <5>4. call[c].pc \in {"look", "insert", "store", "writekey", "readrow", "archive", "purge",
                              "purgekeys", "drop", "log"}
          BY <2>0, <4>2, <5>2, <5>3 DEF Follows, FindsKey
        <5> QED
          BY <1>0, <1>2, <5>2, <5>4 DEF WorksAtHome, Op
      <4> QED
        BY <4>1, <4>2
    <3> QED
      BY <1>2, <3>3, <3>4
  <2> QED
    BY <2>1, <2>2
<1> QED
  BY <1>1, <1>2

\* A request past its write stays there.
LEMMA PastStays ==
  ASSUME NEW c \in Calls, Now(c), NEW d \in Calls
  PROVE  /\ call[d].pc \in Past => call'[d].pc \in Past /\ call'[d].auth = call[d].auth
         /\ call[d].pc \in {"answer", "done"} => call'[d].pc \in {"answer", "done"}
<1>1. CASE d # c
  BY <1>1, NowFacts
<1>2. CASE d = c
  <2>1. Paced(c) /\ Follows(call[c].op, call[c].pc, call'[c].pc)
    BY NowFacts DEF Now
  <2> QED
    BY <1>2, <2>1 DEF Paced, Past, Enters, Follows
<1> QED
  BY <1>1, <1>2

LEMMA TracesHold == ASSUME NEW c \in Calls, Now(c) PROVE TracesFollow'
<1>0. /\ TracesFollow /\ KeysMoved(c) /\ TablesMoved(c) /\ call[c] \in CallRecords /\ TypeOK /\ StepFits(c)
  BY NowFacts DEF Now, AccessInv, Wrote
<1>1. ASSUME NEW d \in Calls, keys'[d] # NoKey PROVE call'[d].pc \in Past
  <2>1. d \in KeyIds
    BY NamesDiffer
  <2>2. CASE d = c /\ call'[c].pc = "log"
    BY <2>2 DEF Past
  <2>3. CASE ~(d = c /\ call'[c].pc = "log")
    <3>1. keys[d] # NoKey
      BY <1>0, <1>1, <2>1, <2>3 DEF KeysMoved
    <3> QED
      BY <1>0, <3>1, PastStays DEF TracesFollow
  <2> QED
    BY <2>2, <2>3
<1>2. ASSUME NEW r \in rows' PROVE call'[r.call].pc \in Past
  <2>1. CASE r \in rows
    <3>1. r.call \in Calls /\ call[r.call].pc \in Past
      BY <1>0, <2>1 DEF TracesFollow, TypeOK
    <3> QED
      BY <3>1, PastStays
  <2>2. CASE r \notin rows
    <3>1. r.call = c /\ call'[c].pc = "log"
      BY <1>0, <1>2, <2>2 DEF TablesMoved
    <3> QED
      BY <3>1 DEF Past
  <2> QED
    BY <2>1, <2>2
<1>3. ASSUME NEW a \in audit', a.call \in Calls PROVE call'[a.call].pc \in {"answer", "done"}
  <2>1. CASE a \in audit
    BY <1>0, <1>3, <2>1, PastStays DEF TracesFollow
  <2>2. CASE a \notin audit
    <3>1. a = NewLog(c) /\ call'[c].pc = "answer"
      BY <1>0, <1>3, <2>2 DEF TablesMoved
    <3> QED
      BY <3>1 DEF NewLog
  <2> QED
    BY <2>1, <2>2
<1> QED
  BY <1>1, <1>2, <1>3 DEF TracesFollow

LEMMA LogsHold == ASSUME NEW c \in Calls, Now(c) PROVE LogsFirst' /\ AnsweredIsAudited'
<1>0. /\ LogsFirst /\ AnsweredIsAudited /\ TablesMoved(c) /\ Paced(c) /\ SameAsk(c) /\ StepFits(c)
      /\ ~call[c].ok /\ Follows(call[c].op, call[c].pc, call'[c].pc)
  BY NowFacts DEF Now, AccessInv, Wrote
<1>1. audit \subseteq audit'
  BY <1>0 DEF TablesMoved
<1>2. ASSUME NEW d \in Calls, Logged(d), call'[d].auth = call[d].auth PROVE Logged(d)'
  BY <1>1, <1>2 DEF Logged
<1>3. LogsFirst'
  <2> SUFFICES ASSUME NEW d \in Calls, call'[d].pc = "answer", call'[d].op \in Writers
               PROVE Logged(d)'
    BY DEF LogsFirst, At, Op
  <2>1. CASE d # c
    <3>1. call'[d] = call[d]
      BY <2>1, NowFacts
    <3>2. Logged(d)
      BY <1>0, <3>1 DEF LogsFirst, At, Op
    <3> QED
      BY <1>2, <3>1, <3>2
  <2>2. CASE d = c
    <3>1. call[c].op \in Writers
      BY <1>0, <2>2 DEF SameAsk
    <3>2. call[c].pc = "log"
      BY <1>0, <2>2, <3>1 DEF Follows, FirstStep, AfterEnsure, Writers
    <3>3. audit' = audit \cup {NewLog(c)} /\ call'[c].auth = call[c].auth
      BY <1>0, <2>2, <3>2 DEF TablesMoved, Paced, Enters
    <3>4. NewLog(c).call = c /\ NewLog(c).actor = actorFromAuth(call[c].auth)
      BY DEF NewLog
    <3> QED
      BY <2>2, <3>3, <3>4 DEF Logged
  <2> QED
    BY <2>1, <2>2
<1>4. AnsweredIsAudited'
  <2> SUFFICES ASSUME NEW d \in Calls, call'[d].ok, call'[d].op \in Writers
               PROVE Logged(d)'
    BY DEF AnsweredIsAudited, Op, Logged
  <2>1. CASE d # c
    <3>1. call'[d] = call[d]
      BY <2>1, NowFacts
    <3>2. Logged(d)
      BY <1>0, <3>1 DEF AnsweredIsAudited, Op, Logged
    <3> QED
      BY <1>2, <3>1, <3>2
  <2>2. CASE d = c
    <3>1. call[c].pc = "answer" /\ call[c].op \in Writers /\ call'[c].auth = call[c].auth
      BY <1>0, <2>2 DEF Paced, SameAsk, Enters
    <3>2. Logged(c)
      BY <1>0, <3>1 DEF LogsFirst, At, Op
    <3> QED
      BY <1>2, <2>2, <3>1, <3>2
  <2> QED
    BY <2>1, <2>2
<1> QED
  BY <1>3, <1>4

LEMMA SpentHolds == ASSUME NEW c \in Calls, Now(c) PROVE KeysAreSpent'
<1>0. /\ KeysAreSpent /\ KeysMoved(c) /\ HistoryMoved(c) /\ Paced(c) /\ SameAsk(c) /\ StepFits(c) /\ TypeOK
      /\ Follows(call[c].op, call[c].pc, call'[c].pc) /\ TracesFollow
  BY NowFacts DEF Now, AccessInv, Wrote
<1>1. ASSUME NEW k \in KeyIds, Minted(k) PROVE Minted(k)' /\ (keys[k] = NoKey => keys'[k] = NoKey)
  <2>1. Minted(k)'
    BY <1>1, PastStays DEF Minted
  <2>2. k = c => call[c].pc # "store"
    BY <1>1 DEF Minted, Past
  <2> QED
    BY <1>0, <2>1, <2>2 DEF KeysMoved
<1>2. ASSUME NEW k \in KeyIds, Spent(k) PROVE Spent(k)'
  <2>1. Minted(k)' /\ Minted(k)
    BY <1>1, <1>2 DEF Spent
  <2>2. k = c => call[c].pc # "store"
    BY <2>1 DEF Minted, Past
  <2>3. keys'[k] = NoKey \/ keys'[k].scope = "read"
    BY <1>0, <1>2, <2>2 DEF KeysMoved, Spent
  <2> QED
    BY <2>1, <2>3 DEF Spent
<1>3. ASSUME NEW d \in Calls, call'[d].op \in {"revoke", "downgrade"}, call'[d].pc # "idle"
      PROVE  /\ call[d].op = call'[d].op /\ call[d].pc # "idle" /\ call'[d].target = call[d].target
             /\ call[d].target \in KeyIds /\ Minted(call[d].target)
  <2>1. call[d].op = call'[d].op /\ call[d].pc # "idle" /\ call'[d].target = call[d].target
    <3>1. CASE d = c
      BY <1>0, <3>1, NowFacts DEF SameAsk
    <3>2. CASE d # c
      BY <1>3, <3>2, NowFacts
    <3> QED
      BY <3>1, <3>2
  <2>2. StepFits(d)
    BY InvIsTyped DEF Now
  <2> QED
    BY <1>0, <1>3, <2>1, <2>2 DEF StepFits, Fits, KeysAreSpent, Op
<1>4. ASSUME NEW d \in Calls, call'[d].op \in {"revoke", "downgrade"}, call'[d].pc \in {"log", "answer"},
             NEW k \in KeyIds, k = call[d].target
      PROVE  Spent(k)'
  <2>1. k \in KeyIds /\ Minted(k) /\ call[d].op = call'[d].op
    BY <1>3, <1>4
  <2>2. CASE call[d].pc \in {"log", "answer"}
    BY <1>0, <1>2, <1>4, <2>1, <2>2 DEF KeysAreSpent, Op
  <2>3. CASE call[d].pc \notin {"log", "answer"}
    <3>1. d = c
      BY <1>4, <2>3, NowFacts
    <3>2. call[c].pc = "writekey" /\ call'[c].pc = "log"
      BY <1>0, <1>4, <2>1, <2>3, <3>1 DEF Follows, FirstStep, AfterEnsure, StepFits, Fits
    <3>3. \/ keys'[k] = NoKey \/ keys'[k].scope = "read"
          \/ call[c].op = "downgrade" /\ ~keys[k].legacy /\ keys'[k] = keys[k]
      BY <1>0, <1>4, <3>1, <3>2 DEF KeysMoved
    <3>4. CASE keys'[k] = NoKey \/ keys'[k].scope = "read"
      BY <1>1, <2>1, <3>4 DEF Spent
    <3>5. CASE call[c].op = "downgrade" /\ ~keys[k].legacy /\ keys'[k] = keys[k]
      BY <1>0, <1>2, <1>4, <2>1, <3>1, <3>2, <3>5 DEF KeysAreSpent, Op, At
    <3> QED
      BY <3>3, <3>4, <3>5
  <2> QED
    BY <2>2, <2>3
<1>5. ASSUME NEW d \in Calls, call'[d].pc = "writekey", call'[d].op = "downgrade",
             NEW k \in KeyIds, k = call[d].target
      PROVE  Spent(k)' \/ keys'[k].legacy
  <2>1. k \in KeyIds /\ Minted(k) /\ call[d].op = call'[d].op
    BY <1>3, <1>5
  <2>2. Spent(k) \/ keys[k].legacy
    <3>1. CASE call[d].pc = "writekey"
      BY <1>0, <1>5, <2>1, <3>1 DEF KeysAreSpent, Op, At
    <3>2. CASE call[d].pc # "writekey"
      <4>1. d = c
        BY <1>5, <3>2, NowFacts
      <4>2. FindsKey(c)
        BY <1>0, <1>5, <2>1, <3>2, <4>1 DEF Follows, FirstStep, AfterEnsure, FindsKey
      <4> QED
        BY <1>0, <1>5, <2>1, <4>1, <4>2 DEF Paced
    <3> QED
      BY <3>1, <3>2
  <2>3. CASE Spent(k)
    BY <1>2, <2>1, <2>3
  <2>4. CASE keys'[k] = keys[k]
    BY <1>2, <2>1, <2>2, <2>4
  <2>5. CASE keys'[k] # keys[k]
    <3>1. k = c => call[c].pc # "store"
      BY <2>1 DEF Minted, Past
    <3>2. keys'[k] = NoKey \/ keys'[k].scope = "read"
      BY <1>0, <2>1, <2>5, <3>1 DEF KeysMoved
    <3> QED
      BY <1>1, <2>1, <3>2 DEF Spent
  <2> QED
    BY <2>3, <2>4, <2>5
<1>6. ASSUME NEW k \in gone' PROVE Spent(k)'
  <2>1. CASE k \in gone
    BY <1>0, <1>2, <2>1 DEF KeysAreSpent, TypeOK
  <2>2. CASE k \notin gone
    <3>1. Answers(c) /\ call[c].op \in {"revoke", "downgrade"} /\ k = call[c].target
      BY <1>0, <1>6, <2>2 DEF HistoryMoved
    <3>2. k \in KeyIds /\ Spent(k)
      BY <1>0, <3>1 DEF KeysAreSpent, Op, Answers, StepFits, Fits
    <3> QED
      BY <1>2, <3>2
  <2> QED
    BY <2>1, <2>2
<1>7. ASSUME NEW d \in Calls, Op(d)' \in {"revoke", "downgrade"}
      PROVE  (/\ call[d].pc # "idle" => Minted(call[d].target)
              /\ call[d].pc \in {"log", "answer"} => Spent(call[d].target)
              /\ At(d, "writekey") /\ Op(d) = "downgrade" =>
                   Spent(call[d].target) \/ keys[call[d].target].legacy)'
  <2>1. CASE call'[d].pc = "idle"
    BY <2>1 DEF At
  <2>2. CASE call'[d].pc # "idle"
    <3>1. PICK k \in KeyIds : k = call[d].target
      BY <1>3, <1>7, <2>2 DEF Op
    <3>2. call'[d].target = k /\ Minted(k)'
      BY <1>1, <1>3, <1>7, <2>2, <3>1 DEF Op
    <3>3. call'[d].pc \in {"log", "answer"} => Spent(k)'
      BY <1>4, <1>7, <3>1 DEF Op
    <3>4. call'[d].pc = "writekey" /\ call'[d].op = "downgrade" => Spent(k)' \/ keys'[k].legacy
      BY <1>5, <3>1
    <3> QED
      BY <3>2, <3>3, <3>4 DEF At, Op, Minted, Spent
  <2> QED
    BY <2>1, <2>2
<1> QED
  BY <1>6, <1>7 DEF KeysAreSpent

\* What was earned stays earned.
LEMMA EarnedStays ==
  ASSUME NEW c \in Calls, Now(c)
  PROVE  earned \subseteq earned' /\ \A s \in Cookies : Earned(s) => Earned(s)'
BY DEF Now, Wrote, HistoryMoved, Earned

LEMMA SessionsHold == ASSUME NEW c \in Calls, Now(c) PROVE SessionsAreEarned' /\ SessionIsEarned'
<1>0. /\ SessionsAreEarned /\ SessionIsEarned /\ HistoryMoved(c) /\ Paced(c) /\ SameAsk(c) /\ StepFits(c) /\ TypeOK
      /\ Follows(call[c].op, call[c].pc, call'[c].pc) /\ call[c] \in CallRecords /\ cookie \in Cookies
      /\ cookie' \in Cookies
  BY NowFacts, TypeHolds DEF Now, AccessInv, Wrote, TypeOK
<1>1. Earned(cookie)'
  <2>1. CASE Answers(c) /\ call[c].op = "unlock"
    <3> DEFINE old == call[c].sent
               a == call[c].auth
               w == call[c].ws
               new == sessionFromAuth(a, w)
    <3>1. cookie' = IF old = NoCookie THEN new
                    ELSE [ws |-> new.ws, list |-> old.list \cup new.list, choose |-> old.choose \/ new.choose]
      BY <1>0, <2>1 DEF HistoryMoved, Merged, mergeSessions
    <3>2. new = [ws |-> w, list |-> {w}, choose |-> a.choose]
      BY DEF sessionFromAuth
    <3>3. new.ws = w /\ new.list = {w} /\ new.choose = a.choose
      BY <3>2
    <3>4. w \in earned' /\ (a.choose => Spaces \subseteq earned')
      <4>1. earned' = earned \cup (IF a.choose THEN Spaces ELSE {w}) /\ w \in Spaces
        BY <1>0, <2>1 DEF HistoryMoved, SessionsAreEarned, Answers, Op
      <4> QED
        BY <4>1
    <3>5. Earned(old) /\ earned \subseteq earned' /\ old.choose \in BOOLEAN /\ a.choose \in BOOLEAN
      BY <1>0, EarnedStays, RecordIsTyped DEF SessionsAreEarned, Cookies, Principals
    <3> DEFINE both == [ws |-> new.ws, list |-> old.list \cup new.list, choose |-> old.choose \/ new.choose]
    <3>6. both.ws = new.ws /\ both.list = old.list \cup new.list /\ both.choose = (old.choose \/ new.choose)
      OBVIOUS
    <3>8. cookie' = IF old = NoCookie THEN new ELSE both
      BY <3>1
    <3> HIDE DEF new, both, w
    <3>7. /\ cookie'.list \subseteq earned' /\ (cookie'.choose => Spaces \subseteq earned')
          /\ cookie'.ws \in cookie'.list
      <4>1. CASE old = NoCookie
        BY <3>3, <3>4, <3>8, <4>1
      <4>2. CASE old # NoCookie
        <5>1. cookie'.ws = w /\ cookie'.list = old.list \cup {w}
          BY <3>3, <3>6, <3>8, <4>2
        <5>2. cookie'.choose = (old.choose \/ a.choose)
          BY <3>3, <3>6, <3>8, <4>2
        <5>3. old.list \subseteq earned' /\ (old.choose => Spaces \subseteq earned')
          BY <3>5 DEF Earned
        <5>4. cookie'.choose => Spaces \subseteq earned'
          BY <3>4, <3>5, <5>2, <5>3
        <5> QED
          BY <3>4, <5>1, <5>3, <5>4
      <4> QED
        BY <4>1, <4>2
    <3> QED
      BY <3>7 DEF Earned
  <2>2. CASE Answers(c) /\ call[c].op = "logout"
    <3>1. cookie' = NoCookie
      BY <1>0, <2>2 DEF HistoryMoved
    <3> QED
      BY <3>1, Nobodies DEF Earned, NoCookie
  <2>3. CASE ~(Answers(c) /\ call[c].op \in {"unlock", "logout"})
    <3>1. cookie' = cookie
      BY <1>0, <2>3 DEF HistoryMoved
    <3>2. Earned(cookie) /\ earned \subseteq earned'
      BY <1>0, EarnedStays DEF SessionsAreEarned
    <3> QED
      BY <3>1, <3>2 DEF Earned
  <2> QED
    BY <2>1, <2>2, <2>3
<1>2. ASSUME NEW d \in Calls
      PROVE  /\ Earned(call[d].sent)' /\ (call[d].auth.actor = "session" => Op(d) \in {"read", "prefs", "delete"})'
             /\ (Op(d) = "unlock" /\ call[d].pc \in {"look", "insert", "answer"} => call[d].ws \in Spaces)'
             /\ call'[d].auth.actor = "session" /\ call'[d].ws \in Spaces => call'[d].ws \in earned'
  <2>0. Earned(call[d].sent) /\ earned \subseteq earned'
    BY <1>0, EarnedStays DEF SessionsAreEarned
  <2>1. CASE d # c
    <3>1. call'[d] = call[d]
      BY <2>1, NowFacts
    <3>2. Earned(call[d].sent)'
      BY <2>0, <3>1 DEF Earned
    <3> QED
      BY <1>0, <2>0, <3>1, <3>2 DEF SessionsAreEarned, SessionIsEarned, Op
  <2>2. CASE d = c
    <3>1. call'[c].sent = call[c].sent /\ call'[c].op = call[c].op
      BY <1>0 DEF SameAsk
    <3>2. Earned(call[d].sent)'
      BY <2>0, <2>2, <3>1 DEF Earned
    <3>3. CASE Enters(c)
      <4>1. Calling(call[c], call'[c].auth) /\ Placed(call[c], call'[c].auth, call'[c].ws)
        BY <1>0, <3>3 DEF Paced
      <4> QED
        BY <2>0, <2>2, <3>1, <3>2, <4>1 DEF Calling, Placed, Op
    <3>4. CASE ~Enters(c)
      <4>1. call'[c].auth = call[c].auth /\ (~FindsKey(c) => call'[c].ws = call[c].ws)
        BY <1>0, <3>4 DEF Paced
      <4>2. FindsKey(c) => call[c].op \in {"revoke", "downgrade"}
        BY <1>0 DEF FindsKey, StepFits, Fits
      <4>3. call[c].auth.actor = "session" => call[c].op \in {"read", "prefs", "delete"}
        BY <1>0 DEF SessionsAreEarned, Op
      <4>4. call[c].op = "unlock" /\ call'[c].pc \in {"look", "insert", "answer"} =>
              call[c].pc \in {"look", "insert", "answer"}
        BY <1>0, <3>4 DEF Follows, Enters, StepFits, Fits, Writers
      <4> QED
        BY <1>0, <2>0, <2>2, <3>1, <3>2, <4>1, <4>2, <4>3, <4>4 DEF SessionsAreEarned, SessionIsEarned, Op
    <3> QED
      BY <3>3, <3>4
  <2> QED
    BY <2>1, <2>2
<1>3. SessionIsEarned'
  BY <1>2 DEF SessionIsEarned
<1>4. SessionsAreEarned'
  BY <1>1, <1>2 DEF SessionsAreEarned
<1> QED
  BY <1>3, <1>4

LEMMA BoundHolds == ASSUME NEW c \in Calls, Now(c) PROVE BoundKeysStayHome' /\ RevokedStaysOut'
<1>0. /\ BoundKeysStayHome /\ RevokedStaysOut /\ KeysMoved(c) /\ TablesMoved(c) /\ Paced(c) /\ SameAsk(c)
      /\ StepFits(c) /\ TracesFollow /\ TypeOK /\ barred' = barred /\ WorksAtHome(c) /\ MayStore(c)
      /\ call[c] \in CallRecords /\ WorksAtHome(c)' /\ TypeOK'
  BY NowFacts, HomeHolds, TypeHolds DEF Now, AccessInv, Wrote, HistoryMoved
<1>1. ASSUME NEW r \in rows'
      PROVE  /\ r.call \in Calls /\ call'[r.call].auth = call[r.call].auth
             /\ \/ r \in rows
                \/ r = [ws |-> call[c].ws, call |-> c] /\ call[c].pc = "store" /\ call[c].op # "mint"
  <2>1. CASE r \in rows
    <3>1. r.call \in Calls /\ call[r.call].pc \in Past
      BY <1>0, <2>1 DEF TypeOK, TracesFollow
    <3> QED
      BY <2>1, <3>1, PastStays
  <2>2. CASE r \notin rows
    <3>1. r = [ws |-> call[c].ws, call |-> c] /\ call[c].pc = "store" /\ call[c].op # "mint"
      BY <1>0, <1>1, <2>2 DEF TablesMoved
    <3>2. call'[c].auth = call[c].auth
      BY <1>0, <3>1 DEF Paced, Enters
    <3> QED
      BY <3>1, <3>2
  <2> QED
    BY <2>1, <2>2
<1>2. RevokedStaysOut'
  <2> SUFFICES ASSUME NEW r \in rows', call'[r.call].auth.actor \in KeyIds
               PROVE call'[r.call].auth.actor \notin barred[r.call] /\ call'[r.call].auth.scope # "read"
    BY <1>0 DEF RevokedStaysOut
  <2>1. CASE r \in rows
    BY <1>0, <1>1, <2>1 DEF RevokedStaysOut
  <2>2. CASE r \notin rows
    <3>1. r.call = c /\ call[c].pc = "store" /\ call[c].op \in {"ingest", "event", "prefs"}
      BY <1>0, <1>1, <2>2 DEF StepFits, Fits
    <3> QED
      BY <1>0, <1>1, <3>1 DEF MayStore, Op
  <2> QED
    BY <2>1, <2>2
<1>3. ASSUME NEW r \in rows', Bound(r.call)' PROVE r.ws = call'[r.call].auth.home
  <2>1. Bound(r.call) /\ r.call \in Calls /\ call'[r.call].auth = call[r.call].auth
    BY <1>1, <1>3 DEF Bound
  <2>2. CASE r \in rows
    BY <1>0, <2>1, <2>2 DEF BoundKeysStayHome
  <2>3. CASE r \notin rows
    <3>1. r.call = c /\ r.ws = call[c].ws /\ call[c].pc = "store" /\ call[c].op # "unlock"
      BY <1>0, <1>1, <2>3 DEF StepFits, Fits
    <3> QED
      BY <1>0, <2>1, <3>1 DEF WorksAtHome, Op
  <2> QED
    BY <2>2, <2>3
<1>4. ASSUME NEW a \in audit', a.call \in Calls, Bound(a.call)' PROVE a.ws = call'[a.call].auth.home
  <2>1. CASE a \in audit
    <3>1. call[a.call].pc \in {"answer", "done"}
      BY <1>0, <1>4, <2>1 DEF TracesFollow
    <3>2. call'[a.call].auth = call[a.call].auth
      BY <1>4, <3>1, PastStays DEF Past
    <3> QED
      BY <1>0, <1>4, <2>1, <3>2 DEF BoundKeysStayHome, Bound
  <2>2. CASE a \notin audit
    <3>1. a = NewLog(c) /\ call[c].pc = "log"
      BY <1>0, <1>4, <2>2 DEF TablesMoved
    <3>2. a.call = c /\ a.ws = call[c].ws
      BY <3>1 DEF NewLog
    <3>3. call'[c].auth = call[c].auth /\ call[c].op # "unlock"
      BY <1>0, <3>1 DEF Paced, Enters, StepFits, Fits, Writers
    <3> QED
      BY <1>0, <1>4, <3>1, <3>2, <3>3 DEF WorksAtHome, Bound, Op
  <2> QED
    BY <2>1, <2>2
<1>5. ASSUME NEW d \in Calls, Bound(d)', keys'[d] # NoKey PROVE keys'[d].ws = call'[d].auth.home
  <2>1. CASE d = c /\ call[c].pc = "store" /\ keys'[c].ws = call[c].ws
    <3>1. call'[c].auth = call[c].auth /\ call[c].op # "unlock"
      BY <1>0, <2>1 DEF Paced, Enters, StepFits, Fits
    <3> QED
      BY <1>0, <1>5, <2>1, <3>1 DEF WorksAtHome, Bound, Op
  <2>2. CASE ~(d = c /\ call[c].pc = "store" /\ keys'[c].ws = call[c].ws)
    <3>1. keys[d] # NoKey /\ keys'[d].ws = keys[d].ws
      BY <1>0, <1>5, <2>2, NamesDiffer DEF KeysMoved
    <3>2. call'[d].auth = call[d].auth
      BY <1>0, <3>1, PastStays DEF TracesFollow
    <3> QED
      BY <1>0, <1>5, <3>1, <3>2 DEF BoundKeysStayHome, Bound
  <2> QED
    BY <2>1, <2>2
<1>6. ASSUME NEW d \in Calls, Bound(d)', call'[d].pc \in {"purge", "writekey"} PROVE call'[d].ws = call'[d].auth.home
  <2>1. WorksAtHome(d)' /\ StepFits(d)'
    BY HomeHolds, FitHolds
  <2> QED
    BY <1>6, <2>1 DEF WorksAtHome, StepFits, Fits, Op
<1>7. BoundKeysStayHome'
  BY <1>3, <1>4, <1>5, <1>6 DEF BoundKeysStayHome, At
<1> QED
  BY <1>2, <1>7

\* A key a deletion meets after it purged the keys was minted since.
LEMMA PurgedHolds == ASSUME NEW c \in Calls, Now(c) PROVE KeysArePurged'
<1>0. /\ KeysArePurged /\ KeysMoved(c) /\ HistoryMoved(c) /\ SameAsk(c) /\ Paced(c) /\ TypeOK
      /\ Follows(call[c].op, call[c].pc, call'[c].pc)
  BY NowFacts DEF Now, AccessInv, Wrote
<1> SUFFICES ASSUME NEW d \in Calls, call'[d].pc = "drop", NEW k \in KeyIds, keys'[k].ws = call'[d].ws
             PROVE k \in late'[d]
  BY DEF KeysArePurged, At
<1>1. call'[d].ws = call[d].ws /\ call[d].ws \in Spaces
  <2>1. CASE d = c
    <3>1. call[c].pc = "purgekeys"
      BY <1>0, <2>1 DEF Follows, FirstStep, AfterEnsure
    <3>2. StepFits(c)
      BY NowFacts
    <3> QED
      BY <1>0, <2>1, <3>1, <3>2 DEF Paced, Enters, FindsKey, StepFits, Fits
  <2>2. CASE d # c
    <3>1. call'[d] = call[d] /\ StepFits(d)
      BY <2>2, NowFacts, InvIsTyped DEF Now
    <3> QED
      BY <3>1 DEF StepFits, Fits
  <2> QED
    BY <2>1, <2>2
<1>2. CASE d = c
  <2>1. call[c].pc = "purgekeys"
    BY <1>0, <1>2 DEF Follows, FirstStep, AfterEnsure
  <2> QED
    BY <1>0, <1>1, <1>2, <2>1 DEF KeysMoved
<1>3. CASE d # c
  <2>1. call[d].pc = "drop"
    BY <1>3, NowFacts
  <2>2. late[d] \subseteq late'[d]
    BY <1>0 DEF HistoryMoved, TypeOK
  <2>3. CASE keys[k].ws = call[d].ws
    BY <1>0, <2>1, <2>2, <2>3 DEF KeysArePurged, At
  <2>4. CASE keys[k].ws # call[d].ws
    <3>1. k = c /\ Mints(c) /\ keys'[k].ws = call[c].ws
      BY <1>0, <1>1, <2>4, Nobodies, NamesDiffer DEF KeysMoved, Mints
    <3> QED
      BY <1>0, <1>1, <2>1, <3>1 DEF HistoryMoved, At
  <2> QED
    BY <2>3, <2>4
<1> QED
  BY <1>2, <1>3

\* A deleted workspace was deleted before this step, unless this step is the
\* end of its deletion.
LEMMA NobodyHolds == ASSUME NEW c \in Calls, Now(c) PROVE NobodyReturns'
<1>0. /\ NobodyReturns /\ KeysArePurged /\ KeysMoved(c) /\ TablesMoved(c) /\ HistoryMoved(c) /\ Paced(c)
      /\ SameAsk(c) /\ StepFits(c) /\ TypeOK /\ call[c] \in CallRecords
      /\ Follows(call[c].op, call[c].pc, call'[c].pc)
  BY NowFacts DEF Now, AccessInv, Wrote
<1> SUFFICES ASSUME NEW w \in Spaces, catalog'[w] = "absent", purged'[w] # {}, sealed'[w]
             PROVE  /\ \A k \in KeyIds : keys'[k].ws # w
                    /\ \A d \in Calls :
                         /\ call'[d].op = "mint" /\ call'[d].ws = w => call'[d].pc # "store"
                         /\ Bound(d)' /\ call'[d].auth.home = w => d \in purged'[w]
  BY DEF NobodyReturns, Deleted, Op, At
<1>1. CASE Drops(c) /\ w = call[c].ws
  <2>1. /\ purged' = [purged EXCEPT ![w] = purged[w] \cup Underway]
        /\ sealed' = [sealed EXCEPT ![w] = late[c] = {} /\ Minting(w) = {}]
    BY <1>0, <1>1 DEF HistoryMoved, TypeOK
  <2>2. /\ \A k \in KeyIds : keys[k].ws # w
        /\ \A d \in Calls : ~(At(d, "store") /\ Op(d) = "mint" /\ call[d].ws = w)
        /\ purged'[w] = purged[w] \cup Underway
    <3>1. late[c] = {} /\ Minting(w) = {} /\ purged'[w] = purged[w] \cup Underway
      BY <1>0, <2>1 DEF TypeOK
    <3>2. \A k \in KeyIds : keys[k].ws # w
      BY <1>0, <1>1, <3>1 DEF KeysArePurged, Drops, At
    <3> QED
      BY <3>1, <3>2 DEF Minting
  <2>3. ASSUME NEW k \in KeyIds PROVE keys'[k].ws # w
    BY <1>0, <1>1, <2>2, Nobodies, NamesDiffer DEF KeysMoved, Drops
  <2>4. ASSUME NEW d \in Calls, call'[d].op = "mint", call'[d].ws = w, call'[d].pc = "store" PROVE FALSE
    <3>1. d # c
      BY <1>1, <2>4 DEF Drops
    <3>2. call'[d] = call[d]
      BY <3>1, NowFacts
    <3> QED
      BY <2>2, <2>4, <3>2 DEF At, Op
  <2>5. ASSUME NEW d \in Calls, Bound(d)' PROVE d \in purged'[w]
    <3>1. CASE d = c
      BY <1>1, <2>2, <3>1 DEF Underway, At, Drops
    <3>2. CASE d # c
      <4>1. call'[d] = call[d] /\ StepFits(d)
        BY <3>2, NowFacts, InvIsTyped DEF Now
      <4>2. call[d].auth.actor \in KeyIds
        BY <2>5, <4>1 DEF Bound
      <4>3. call[d].pc \notin {"idle", "auth"}
        BY <4>1, <4>2, Nobodies, NamesDiffer DEF StepFits, Fits
      <4> QED
        BY <2>2, <4>3 DEF Underway, At
    <3> QED
      BY <3>1, <3>2
  <2> QED
    BY <2>3, <2>4, <2>5
<1>2. CASE ~(Drops(c) /\ w = call[c].ws)
  <2>1. purged'[w] = purged[w] /\ sealed'[w] = sealed[w]
    <3>1. CASE ~Drops(c)
      BY <1>0, <3>1 DEF HistoryMoved
    <3>2. CASE Drops(c)
      BY <1>0, <1>2, <3>2 DEF HistoryMoved, TypeOK
    <3> QED
      BY <3>1, <3>2
  <2>2. Deleted(w)
    BY <1>0, <1>2, <2>1 DEF Deleted, TablesMoved
  <2>3. /\ \A k \in KeyIds : keys[k].ws # w
        /\ \A d \in Calls : call[d].op = "mint" /\ call[d].ws = w => call[d].pc # "store"
        /\ \A d \in Calls : Bound(d) /\ call[d].auth.home = w => d \in purged[w]
    BY <1>0, <2>2 DEF NobodyReturns, Op, At
  <2>4. ASSUME NEW k \in KeyIds PROVE keys'[k].ws # w
    BY <1>0, <2>3, Nobodies, NamesDiffer DEF KeysMoved
  <2>5. ASSUME NEW d \in Calls, call'[d].op = "mint", call'[d].ws = w, call'[d].pc = "store" PROVE FALSE
    <3>1. CASE d # c
      <4>1. call'[d] = call[d]
        BY <3>1, NowFacts
      <4> QED
        BY <2>3, <2>5, <4>1
    <3>2. CASE d = c
      <4>1. call[c].op = "mint" /\ call[c].pc \in {"look", "insert"}
        BY <1>0, <2>5, <3>2 DEF Follows, FirstStep, AfterEnsure, SameAsk
      <4>2. call'[c].ws = call[c].ws
        BY <1>0, <4>1 DEF Paced, Enters, FindsKey
      <4> QED
        BY <1>0, <2>5, <3>2, <4>1, <4>2 DEF TablesMoved
    <3> QED
      BY <3>1, <3>2
  <2>6. ASSUME NEW d \in Calls, Bound(d)', call'[d].auth.home = w PROVE d \in purged'[w]
    <3>1. CASE call'[d].auth = call[d].auth
      BY <2>1, <2>3, <2>6, <3>1 DEF Bound
    <3>2. CASE call'[d].auth # call[d].auth
      <4>1. d = c /\ Enters(c)
        BY <1>0, <3>2, NowFacts DEF Paced
      <4>2. FromKey(call'[c].auth) /\ call'[c].auth.actor \in KeyIds
        BY <1>0, <2>6, <4>1 DEF Paced, Calling, Known, Bound
      <4> QED
        BY <2>3, <2>6, <4>1, <4>2 DEF FromKey
    <3> QED
      BY <3>1, <3>2
  <2> QED
    BY <2>4, <2>5, <2>6
<1> QED
  BY <1>1, <1>2

LEMMA GhostsHold == ASSUME NEW c \in Calls, Now(c) PROVE NoGhosts'
<1>0. /\ NobodyReturns /\ NoGhosts /\ KeysMoved(c) /\ TablesMoved(c) /\ HistoryMoved(c) /\ Paced(c)
      /\ StepFits(c) /\ TypeOK /\ TracesFollow /\ WorksAtHome(c)
  BY NowFacts DEF Now, AccessInv, Wrote
<1> SUFFICES ASSUME NEW r \in rows', r.ws \in Spaces, catalog'[r.ws] = "absent", sealed'[r.ws], purged'[r.ws] # {},
                    Bound(r.call)'
             PROVE  r.call \in purged'[r.ws]
  BY DEF NoGhosts
<1>1. CASE r \in rows
  <2>1. r.call \in Calls /\ call[r.call].pc \in Past /\ call'[r.call].auth = call[r.call].auth
    BY <1>0, <1>1, PastStays DEF TypeOK, TracesFollow
  <2>2. CASE Drops(c) /\ r.ws = call[c].ws
    <3>1. purged' = [purged EXCEPT ![r.ws] = purged[r.ws] \cup Underway]
      BY <1>0, <2>2 DEF HistoryMoved, TypeOK
    <3>2. r.call \in Underway
      BY <2>1 DEF Underway, At, Past
    <3> QED
      BY <1>0, <3>1, <3>2 DEF TypeOK
  <2>3. CASE ~(Drops(c) /\ r.ws = call[c].ws)
    <3>1. purged'[r.ws] = purged[r.ws] /\ sealed'[r.ws] = sealed[r.ws]
      <4>1. CASE ~Drops(c)
        BY <1>0, <4>1 DEF HistoryMoved
      <4>2. CASE Drops(c)
        BY <1>0, <2>3, <4>2 DEF HistoryMoved, TypeOK
      <4> QED
        BY <4>1, <4>2
    <3>2. catalog[r.ws] = "absent"
      BY <1>0, <2>3 DEF TablesMoved
    <3> QED
      BY <1>0, <1>1, <2>1, <3>1, <3>2 DEF NoGhosts, Bound
  <2> QED
    BY <2>2, <2>3
<1>2. CASE r \notin rows
  <2>1. r.call = c /\ r.ws = call[c].ws /\ call[c].pc = "store" /\ call[c].op # "unlock"
    BY <1>0, <1>2 DEF TablesMoved, StepFits, Fits
  <2>2. call'[c].auth = call[c].auth /\ ~Drops(c)
    BY <1>0, <2>1 DEF Paced, Enters, Drops
  <2>3. Bound(c) /\ call[c].auth.home = r.ws
    BY <1>0, <2>1, <2>2 DEF Bound, WorksAtHome, Op
  <2>4. purged' = purged /\ sealed' = sealed /\ catalog[r.ws] = "absent"
    BY <1>0, <2>2 DEF HistoryMoved, TablesMoved
  <2>5. Deleted(r.ws)
    BY <2>4 DEF Deleted
  <2> QED
    BY <1>0, <2>1, <2>3, <2>4, <2>5 DEF NobodyReturns
<1> QED
  BY <1>1, <1>2

(* One step of one request keeps the invariant.                                 *)
LEMMA MovesHold == ASSUME NEW c \in Calls, Now(c) PROVE AccessInv'
<1>1. \A d \in Calls : (StepFits(d) /\ WorksAtHome(d) /\ MayStore(d))'
  BY FitHolds, HomeHolds
<1> QED
  BY <1>1, TypeHolds, TracesHold, LogsHold, SpentHolds, SessionsHold, PurgedHolds, NobodyHolds, BoundHolds, GhostsHold
     DEF AccessInv

\* A request arrives: nothing else changes, and what it is known by is empty.
LEMMA BeginHolds == ASSUME AccessInv, NEW c \in Calls, Begin(c) PROVE AccessInv'
<1>0. /\ TypeOK /\ call \in [Calls -> CallRecords] /\ cookie \in Cookies /\ gone \subseteq KeyIds
      /\ StepFits(c) /\ call[c].pc = "idle" /\ barred \in [Calls -> SUBSET gone]
      /\ \A d \in Calls : StepFits(d)
  BY InvIsTyped DEF Begin, At, TypeOK
<1>1. PICK q \in Requests[c] :
        /\ Legal(q)
        /\ Goes(c, [pc |-> "auth", op |-> q.op, cred |-> q.cred, asked |-> q.asked, scope |-> q.scope,
                    sent |-> cookie, auth |-> Nobody, ws |-> "none", target |-> q.target, ok |-> FALSE])
  BY DEF Begin
<1> DEFINE n == [pc |-> "auth", op |-> q.op, cred |-> q.cred, asked |-> q.asked, scope |-> q.scope,
                 sent |-> cookie, auth |-> Nobody, ws |-> "none", target |-> q.target, ok |-> FALSE]
<1>2. q \in [op : Writers \cup {"read", "unlock", "logout"}, cred : KeyIds \cup {"env", "none"},
             asked : Spaces \cup {"demo", "none"}, target : KeyIds \cup {"none"},
             scope : Scopes \cup {"none"}]
  BY <1>1, AccessAssumption
<1>3. /\ n.pc = "auth" /\ n.op = q.op /\ n.cred = q.cred /\ n.asked = q.asked /\ n.target = q.target
      /\ n.scope = q.scope /\ n.sent = cookie /\ n.auth = Nobody /\ n.ws = "none" /\ n.ok = FALSE
  OBVIOUS
<1>4. n \in CallRecords
  BY <1>0, <1>2, Nobodies DEF CallRecords, Pcs
<1>5. call' = [call EXCEPT ![c] = n]
  BY <1>1 DEF Goes
<1> HIDE DEF n
<1>6. call'[c] = n /\ call' \in [Calls -> CallRecords] /\ \A d \in Calls \ {c} : call'[d] = call[d]
  BY <1>0, <1>4, <1>5
<1>7. UNCHANGED <<keys, catalog, rows, audit, cookie, faults, gone, earned, purged, late, sealed>>
      /\ barred' = [barred EXCEPT ![c] = gone]
  BY DEF Begin, tables
<1>8. TypeOK'
  BY <1>0, <1>6, <1>7 DEF TypeOK
<1>9. /\ keys[c] = NoKey /\ (\A r \in rows : r.call # c) /\ (\A a \in audit : a.call # c)
  BY <1>0, NamesDiffer DEF AccessInv, TracesFollow, Past
<1>10. ~Bound(c)' /\ call'[c].auth.actor = "none" /\ call'[c].auth.scope = "none"
  BY <1>3, <1>6, Nobodies, NamesDiffer DEF Bound
<1>11. StepFits(c)'
  <2>1. Fits(n)
    BY <1>1, <1>2, <1>3 DEF Fits, Legal
  <2> QED
    BY <1>6, <2>1 DEF StepFits
<1>12. \A d \in Calls : (StepFits(d) /\ WorksAtHome(d) /\ MayStore(d))'
  <2> TAKE d \in Calls
  <2>1. CASE d = c
    BY <1>10, <1>11, <2>1, NamesDiffer DEF WorksAtHome, MayStore
  <2>2. CASE d # c
    <3>1. call'[d] = call[d] /\ barred'[d] = barred[d] /\ StepFits(d) /\ WorksAtHome(d) /\ MayStore(d)
      BY <1>0, <1>6, <1>7, <2>2 DEF AccessInv
    <3> QED
      BY <3>1 DEF StepFits, WorksAtHome, MayStore, Bound, Op
  <2> QED
    BY <2>1, <2>2
<1>13. TracesFollow'
  BY <1>0, <1>6, <1>7, <1>9 DEF AccessInv, TracesFollow, TypeOK
<1>14. LogsFirst' /\ AnsweredIsAudited'
  <2>1. LogsFirst /\ AnsweredIsAudited
    BY DEF AccessInv
  <2>2. call'[c].pc = "auth" /\ ~call'[c].ok
    BY <1>3, <1>6
  <2> QED
    BY <1>6, <1>7, <2>1, <2>2 DEF LogsFirst, AnsweredIsAudited, Logged, At, Op
<1>15. KeysAreSpent'
  <2>0. KeysAreSpent /\ TracesFollow
    BY DEF AccessInv
  <2>1. ASSUME NEW k \in KeyIds, Minted(k) PROVE Minted(k)'
    BY <1>0, <1>6, <2>1 DEF Minted, Past
  <2>2. ASSUME NEW k \in KeyIds, Spent(k) PROVE Spent(k)'
    BY <1>7, <2>1, <2>2 DEF Spent
  <2>3. ASSUME NEW d \in Calls, d # c, Op(d)' \in {"revoke", "downgrade"}
        PROVE  (/\ call[d].pc # "idle" => Minted(call[d].target)
                /\ call[d].pc \in {"log", "answer"} => Spent(call[d].target)
                /\ At(d, "writekey") /\ Op(d) = "downgrade" =>
                     Spent(call[d].target) \/ keys[call[d].target].legacy)'
    <3>1. call'[d] = call[d]
      BY <1>6, <2>3
    <3>2. CASE call[d].pc = "idle"
      BY <3>1, <3>2 DEF At
    <3>3. CASE call[d].pc # "idle"
      <4>1. call[d].target \in KeyIds
        BY <1>0, <2>3, <3>1, <3>3 DEF StepFits, Fits, Op
      <4>2. PICK k \in KeyIds : k = call[d].target
        BY <4>1
      <4>3. Minted(k)' /\ (call[d].pc \in {"log", "answer"} => Spent(k)')
        BY <2>0, <2>1, <2>2, <2>3, <3>1, <3>3, <4>2 DEF KeysAreSpent, Op
      <4>4. call[d].pc = "writekey" /\ call[d].op = "downgrade" => Spent(k)' \/ keys'[k].legacy
        BY <1>7, <2>0, <2>2, <4>2 DEF KeysAreSpent, Op, At
      <4>5. call'[d].target = k
        BY <3>1, <4>2
      <4> QED
        BY <3>1, <4>3, <4>4, <4>5 DEF Minted, Spent, At, Op
    <3> QED
      BY <3>2, <3>3
  <2>4. ASSUME call'[c].op \in {"revoke", "downgrade"}
        PROVE  (/\ call[c].pc # "idle" => Minted(call[c].target)
                /\ call[c].pc \in {"log", "answer"} => Spent(call[c].target)
                /\ At(c, "writekey") /\ Op(c) = "downgrade" =>
                     Spent(call[c].target) \/ keys[call[c].target].legacy)'
    <3>1. PICK k \in KeyIds : k = q.target /\ keys[k] # NoKey
      BY <1>1, <1>3, <1>6, <2>4 DEF Legal
    <3>2. Minted(k)
      BY <2>0, <3>1 DEF TracesFollow, Minted
    <3>3. Minted(k)' /\ call'[c].target = k /\ call'[c].pc = "auth"
      BY <1>3, <1>6, <2>1, <3>1, <3>2
    <3> QED
      BY <3>3 DEF Minted, At
  <2>5. \A k \in gone' : Spent(k)'
    BY <1>0, <1>7, <2>0, <2>2 DEF KeysAreSpent
  <2>6. ASSUME NEW d \in Calls, Op(d)' \in {"revoke", "downgrade"}
        PROVE  (/\ call[d].pc # "idle" => Minted(call[d].target)
                /\ call[d].pc \in {"log", "answer"} => Spent(call[d].target)
                /\ At(d, "writekey") /\ Op(d) = "downgrade" =>
                     Spent(call[d].target) \/ keys[call[d].target].legacy)'
    BY <2>3, <2>4, <2>6 DEF Op
  <2> QED
    BY <2>5, <2>6 DEF KeysAreSpent
<1>16. SessionsAreEarned' /\ SessionIsEarned'
  <2>1. SessionsAreEarned /\ SessionIsEarned
    BY DEF AccessInv
  <2>2. Earned(cookie) /\ \A d \in Calls : Earned(call[d].sent)
    BY <2>1 DEF SessionsAreEarned
  <2>3. Earned(cookie)' /\ \A d \in Calls : Earned(call[d].sent)'
    BY <1>3, <1>6, <1>7, <2>2 DEF Earned
  <2>4. call'[c].pc = "auth" /\ call'[c].auth.actor # "session"
    BY <1>3, <1>6, <1>10
  <2> QED
    BY <1>6, <1>7, <2>1, <2>3, <2>4 DEF SessionsAreEarned, SessionIsEarned, Op
<1>17. NobodyReturns' /\ NoGhosts' /\ KeysArePurged'
  <2>1. NobodyReturns /\ NoGhosts /\ KeysArePurged /\ \A r \in rows : r.call \in Calls \ {c}
    BY <1>0, <1>9 DEF AccessInv, TypeOK
  <2>2. call'[c].pc = "auth"
    BY <1>3, <1>6
  <2>3. \A d \in Calls \ {c} : Bound(d)' <=> Bound(d)
    BY <1>6 DEF Bound
  <2>4. NobodyReturns'
    BY <1>6, <1>7, <1>10, <2>1, <2>2, <2>3 DEF NobodyReturns, Deleted, Op, At
  <2>5. NoGhosts'
    BY <1>7, <2>1, <2>3 DEF NoGhosts
  <2>6. KeysArePurged'
    BY <1>6, <1>7, <2>1, <2>2 DEF KeysArePurged, At
  <2> QED
    BY <2>4, <2>5, <2>6
<1>18. BoundKeysStayHome' /\ RevokedStaysOut'
  <2>1. BoundKeysStayHome /\ RevokedStaysOut /\ \A r \in rows : r.call \in Calls \ {c}
    BY <1>0, <1>9 DEF AccessInv, TypeOK
  <2>2. BoundKeysStayHome'
    BY <1>6, <1>7, <1>10, <2>1 DEF BoundKeysStayHome, Bound, At
  <2>3. RevokedStaysOut'
    BY <1>0, <1>6, <1>7, <2>1 DEF RevokedStaysOut
  <2> QED
    BY <2>2, <2>3
<1> QED
  BY <1>8, <1>12, <1>13, <1>14, <1>15, <1>16, <1>17, <1>18 DEF AccessInv

LEMMA ExpireHolds == ASSUME AccessInv, Expire PROVE AccessInv'
<1>1. cookie' = NoCookie /\ UNCHANGED <<keys, catalog, rows, audit, call, faults, barred, gone, earned, purged, late, sealed>>
  BY DEF Expire, tables, history
<1>2. TypeOK' /\ Earned(cookie)'
  BY <1>1, Nobodies DEF AccessInv, TypeOK, Earned, NoCookie
<1>3. SessionsAreEarned'
  BY <1>1, <1>2 DEF AccessInv, SessionsAreEarned, Earned, Op
<1>4. TracesFollow' /\ LogsFirst' /\ NobodyReturns' /\ BoundKeysStayHome' /\ RevokedStaysOut'
  BY <1>1 DEF AccessInv, TracesFollow, LogsFirst, NobodyReturns, BoundKeysStayHome, RevokedStaysOut,
              Logged, Deleted, Bound, Op, At
<1>5. AnsweredIsAudited' /\ SessionIsEarned' /\ NoGhosts' /\ KeysAreSpent' /\ KeysArePurged'
  BY SMTT(60), <1>1 DEF AccessInv, AnsweredIsAudited, SessionIsEarned, NoGhosts,
     KeysAreSpent, KeysArePurged, Bound, Op, At, Spent, Minted
<1>6. \A d \in Calls : (StepFits(d) /\ WorksAtHome(d) /\ MayStore(d))'
  BY <1>1 DEF AccessInv, StepFits, WorksAtHome, MayStore, Bound, Op
<1> QED
  BY <1>2, <1>3, <1>4, <1>5, <1>6 DEF AccessInv

LEMMA AccessInvStays == ASSUME AccessInv, UNCHANGED vars PROVE AccessInv'
<1>1. UNCHANGED <<keys, catalog, rows, audit, cookie, call, faults, barred, gone, earned, purged, late, sealed>>
  BY DEF vars
<1> QED
  BY <1>1 DEF AccessInv, TypeOK, SessionsAreEarned, Earned, TracesFollow, LogsFirst, NobodyReturns,
       BoundKeysStayHome, RevokedStaysOut, Logged, Deleted, Bound, Op, At, AnsweredIsAudited,
       SessionIsEarned, NoGhosts, KeysAreSpent, KeysArePurged, Spent, Minted, StepFits, WorksAtHome, MayStore

LEMMA AccessStep == ASSUME AccessInv, Next PROVE AccessInv'
<1>1. ASSUME NEW c \in Calls, Step(c) \/ Fail(c) PROVE AccessInv'
  BY <1>1, StepMoves, MovesHold DEF Now
<1> QED
  BY <1>1, BeginHolds, ExpireHolds DEF Next

LEMMA AccessStart == ASSUME Init PROVE AccessInv
<1>1. call = [c \in Calls |-> NoRequest] /\ rows = {} /\ audit = {} /\ cookie = NoCookie /\ faults = 0
      /\ barred = [c \in Calls |-> {}] /\ gone = {} /\ earned = {}
      /\ purged = [w \in Spaces |-> {}] /\ late = [c \in Calls |-> {}] /\ sealed = [w \in Spaces |-> FALSE]
  BY DEF Init
<1>2. keys \in [KeyIds -> KeyRows \cup {NoKey}] /\ \A c \in Calls : keys[c] = NoKey
  <2>1. \A k \in DOMAIN FirstKeys : FirstKeys[k] \in KeyRows
    <3> TAKE k \in DOMAIN FirstKeys
    <3>1. FirstKeys[k] \in [ws : Spaces, scope : Scopes, legacy : BOOLEAN]
      BY AccessAssumption
    <3> QED
      BY <3>1 DEF KeyRows
  <2>2. keys = [k \in KeyIds |-> IF k \in Calls THEN NoKey ELSE FirstKeys[k]]
    BY DEF Init
  <2> QED
    BY <2>1, <2>2, NamesDiffer DEF KeyIds
<1>3. catalog \in [Spaces -> {"absent", "open", "archived"}]
  BY DEF Init
<1>4. /\ NoRequest.pc = "idle" /\ NoRequest.op = "none" /\ NoRequest.asked = "none" /\ NoRequest.scope = "none"
      /\ NoRequest.sent = NoCookie /\ NoRequest.auth = Nobody /\ NoRequest.ws = "none"
      /\ NoRequest.target = "none" /\ NoRequest.ok = FALSE /\ NoRequest.cred = "none"
  BY DEF NoRequest
<1>5. NoRequest \in CallRecords
  BY Nobodies DEF NoRequest, CallRecords, Pcs
<1>6. TypeOK
  <2>1. MaxFaults \in Nat
    BY AccessAssumption
  <2> QED
    BY <1>1, <1>2, <1>3, <1>5, <2>1, Nobodies DEF TypeOK
<1>7. \A c \in Calls : StepFits(c) /\ WorksAtHome(c) /\ MayStore(c)
  BY <1>1, <1>4, Nobodies, NamesDiffer DEF StepFits, Fits, WorksAtHome, MayStore, Bound, Op
<1>8. TracesFollow /\ LogsFirst /\ KeysAreSpent /\ NobodyReturns /\ KeysArePurged
  BY <1>1, <1>2, <1>4 DEF KeysArePurged, TracesFollow, LogsFirst, KeysAreSpent, NobodyReturns, Deleted, At, Op
<1>9. SessionsAreEarned
  BY <1>1, <1>4, Nobodies DEF SessionsAreEarned, Earned, NoCookie, Op
<1>10. BoundKeysStayHome /\ RevokedStaysOut /\ AnsweredIsAudited /\ SessionIsEarned /\ NoGhosts
  BY <1>1, <1>2, <1>4, Nobodies, NamesDiffer
     DEF BoundKeysStayHome, RevokedStaysOut, AnsweredIsAudited, SessionIsEarned, NoGhosts, Bound, At
<1> QED
  BY <1>6, <1>7, <1>8, <1>9, <1>10 DEF AccessInv

-----------------------------------------------------------------------------
(* Tool calls.                                                                  *)
LEMMA JobIsTyped ==
  ASSUME NEW r \in JobRecords
  PROVE  /\ r.pc \in {"idle", "gate", "run", "log", "done"} /\ r.via \in {"http", "stdio"}
         /\ r.tool \in StdioTools \cup {"none"} /\ r.cred \in KeyIds \cup {"env", "none"}
         /\ r.asked \in Spaces \cup {"demo", "none"} /\ r.auth \in Principals
         /\ r.ws \in Spaces \cup {"demo", "none"} /\ r.barred \subseteq gone
         /\ r.outcome \in {"none", "refused", "ok", "error", "thrown"}
BY DEF JobRecords

\* Changing where a call is and what came of it.
JobAt(r, p, o) == [r EXCEPT !.pc = p, !.outcome = o]
LEMMA JobMoves ==
  ASSUME NEW r \in JobRecords, NEW p \in {"idle", "gate", "run", "log", "done"},
         NEW o \in {"none", "refused", "ok", "error", "thrown"},
         NEW n, n = JobAt(r, p, o)
  PROVE  /\ n \in JobRecords /\ n.pc = p /\ n.outcome = o /\ n.via = r.via /\ n.tool = r.tool
         /\ n.auth = r.auth /\ n.ws = r.ws /\ n.barred = r.barred /\ n.args = r.args
<1> DEFINE m == [r EXCEPT !.pc = p]
<1>1. /\ m \in JobRecords /\ m.pc = p /\ m.via = r.via /\ m.tool = r.tool
      /\ m.auth = r.auth /\ m.ws = r.ws /\ m.barred = r.barred /\ m.args = r.args
  BY DEF JobRecords
<1>3. n = [m EXCEPT !.outcome = o]
  BY DEF JobAt
<1> HIDE DEF m
<1>2. /\ n \in JobRecords /\ n.pc = p /\ n.outcome = o /\ n.via = r.via /\ n.tool = r.tool
      /\ n.auth = r.auth /\ n.ws = r.ws /\ n.barred = r.barred /\ n.args = r.args
  BY <1>1, <1>3 DEF JobRecords
<1> QED
  BY <1>2

LEMMA ToolKinds ==
  /\ MCP_WRITE_TOOLS \cap MCP_READ_ONLY_TOOLS = {} /\ "configure_value_events" \notin MCP_READ_ONLY_TOOLS
  /\ MCP_READ_ONLY_TOOLS \subseteq StdioTools /\ ReadTools \subseteq MCP_READ_ONLY_TOOLS
BY DEF MCP_WRITE_TOOLS, MCP_READ_ONLY_TOOLS, ReadTools, StdioTools, HttpTools

\* The gate: a tool that writes is let through for a key that may write, not
\* taken back before the call, and into its own workspace.
LEMMA GateOpens ==
  ASSUME AccessInv, NEW r \in JobRecords, r.tool \in StdioTools,
         NEW g, g = (IF r.via = "http" THEN HttpGate(r) ELSE StdioGate(r)), g.ws # "denied"
  PROVE  /\ g.auth \in Principals /\ g.ws \in Spaces \cup {"demo", "none"}
         /\ ~isReadOnlyMcpTool(r.tool) =>
              /\ g.auth.scope \in {"write", "admin"} /\ g.auth.actor \notin gone
              /\ r.via = "http" /\ ~g.auth.choose => g.ws = g.auth.home
<1>0. /\ Typed /\ cookie \in Cookies /\ KeysAreSpent /\ gone \subseteq KeyIds
      /\ r.cred \in KeyIds \cup {"env", "none"} /\ r.asked \in Spaces \cup {"demo", "none"}
      /\ r.via \in {"http", "stdio"}
  BY InvIsTyped, JobIsTyped DEF AccessInv, TypeOK
<1> DEFINE write == ~isReadOnlyMcpTool(r.tool)
           d == DefaultSpace(r)
           k == authorize(r.cred, d, write)
<1>1. d \in Spaces \cup {"demo"} /\ write \in BOOLEAN
  BY <1>0, NamesDiffer DEF DefaultSpace, Or
<1> HIDE DEF d
<1>2. /\ Known(k) /\ k.actor # "session"
      /\ k # Nobody /\ write => k.scope \in {"write", "admin"}
      /\ write => k.actor # "anonymous"
  BY <1>0, <1>1, AuthorizedIsKnown
<1>3. write /\ k # Nobody => k.actor \notin gone
  <2> SUFFICES ASSUME write, k # Nobody, k.actor \in gone PROVE FALSE
    OBVIOUS
  <2> HIDE DEF k
  <2>1. keys[k.actor] = NoKey \/ keys[k.actor].scope = "read"
    BY <1>0 DEF KeysAreSpent, Spent
  <2>2. FromKey(k)
    BY <1>0, <1>2 DEF Known
  <2> QED
    BY <1>2, <2>1, <2>2, Nobodies DEF FromKey
<1>4. k # Nobody => k.actor # "none"
  BY <1>2 DEF Known
<1>5. CASE r.via = "stdio"
  <2>1. g = [auth |-> IF isReadOnlyMcpTool(r.tool) THEN Visitor ELSE k,
             ws |-> IF (IF isReadOnlyMcpTool(r.tool) THEN Visitor ELSE k) = Nobody THEN "denied" ELSE d]
    BY <1>5 DEF StdioGate, d
  <2> HIDE DEF k
  <2>2. g.auth = (IF write THEN k ELSE Visitor) /\ g.auth # Nobody /\ g.ws = d
    BY <2>1
  <2> QED
    BY <1>1, <1>2, <1>3, <1>5, <2>2, Nobodies DEF Known
<1>6. CASE r.via = "http" /\ ~write /\ cookie # NoCookie
  <2> DEFINE a == authFromSession(cookie, d)
  <2>1. g = [auth |-> a, ws |-> IF a = Nobody THEN "denied" ELSE resolveWorkspace(a, d, write)]
    BY <1>6 DEF HttpGate, d
  <2>2. Known(a) /\ a.actor = "session"
    BY <1>0, <1>1, <1>6, SessionIsKnown
  <2> HIDE DEF a
  <2>3. g.auth = a /\ g.ws = resolveWorkspace(a, d, write)
    BY <2>1
  <2>4. g.ws \in Spaces \cup {"demo", "none"}
    <3> HIDE DEF write
    <3>1. a.actor # "none" /\ resolveWorkspace(a, d, write) # "denied"
      BY <2>2, <2>3
    <3> QED
      BY <1>1, <2>2, <2>3, <3>1, ResolvedIsPlaced
  <2> QED
    BY <1>6, <2>2, <2>3, <2>4 DEF Known
<1>7. CASE r.via = "http" /\ (write \/ cookie = NoCookie)
  <2>1. g = [auth |-> k, ws |-> IF k = Nobody THEN "denied" ELSE resolveWorkspace(k, d, write)]
    BY <1>7 DEF HttpGate, d
  <2> HIDE DEF k
  <2>2. g.auth = k /\ k # Nobody /\ g.ws = resolveWorkspace(k, d, write)
    BY <2>1
  <2>3. /\ g.ws \in Spaces \cup {"demo", "none"}
        /\ write /\ k.actor \in KeyIds /\ ~k.choose => g.ws = k.home
    <3> HIDE DEF write
    <3>1. k.actor # "none" /\ resolveWorkspace(k, d, write) # "denied"
      BY <1>4, <2>2
    <3> QED
      BY <1>1, <1>2, <2>2, <3>1, ResolvedIsPlaced
  <2>4. write /\ ~k.choose => k.actor \in KeyIds
    BY <1>2, <1>4, <2>2 DEF Known, Principals, Actors
  <2> QED
    BY <1>2, <1>3, <2>2, <2>3, <2>4 DEF Known
<1> QED
  BY <1>0, <1>5, <1>6, <1>7

NewRow(j) == [ws |-> job[j].ws, job |-> j]
LEMMA ToolRuns ==
  ASSUME NEW j \in Jobs, RunTool(j)
  PROVE  /\ UNCHANGED <<vars, errors>> /\ job[j].pc = "run"
         /\ \E p \in {"log", "done"}, o \in {"ok", "error"} :
              /\ job' = [job EXCEPT ![j] = [job[j] EXCEPT !.pc = p, !.outcome = o]]
              /\ p = "done" /\ o = "ok" => job[j].via # "http"
              /\ \/ stored' = stored
                 \/ stored' = stored \cup {NewRow(j)} /\ ~isReadOnlyMcpTool(job[j].tool)
<1>1. UNCHANGED <<vars, errors>>
  BY DEF RunTool
<1> DEFINE p0 == IF job[j].via = "http" THEN "log" ELSE "done"
           Goal == \E p \in {"log", "done"}, o \in {"ok", "error"} :
                     /\ job' = [job EXCEPT ![j] = [job[j] EXCEPT !.pc = p, !.outcome = o]]
                     /\ p = "done" /\ o = "ok" => job[j].via # "http"
                     /\ \/ stored' = stored
                        \/ stored' = stored \cup {NewRow(j)} /\ ~isReadOnlyMcpTool(job[j].tool)
<1>2. ASSUME NEW o \in {"ok", "error"}, Ran(j, o),
             \/ stored' = stored
             \/ stored' = stored \cup {NewRow(j)} /\ ~isReadOnlyMcpTool(job[j].tool)
      PROVE  Goal
  <2>1. job' = [job EXCEPT ![j] = [job[j] EXCEPT !.pc = p0, !.outcome = o]]
    BY <1>2 DEF Ran, GoesTo
  <2>2. p0 \in {"log", "done"} /\ (p0 = "done" => job[j].via # "http")
    OBVIOUS
  <2> HIDE DEF p0
  <2> QED
    BY <1>2, <2>1, <2>2
<1>3. ASSUME Writes(j), job[j].tool \in MCP_WRITE_TOOLS \cup {"configure_value_events"} PROVE Goal
  BY <1>2, <1>3, ToolKinds DEF Writes, NewRow, isReadOnlyMcpTool
<1>4. ASSUME Declines(j) PROVE Goal
  BY <1>2, <1>4 DEF Declines
<1>5. ASSUME Reads(j) PROVE Goal
  BY <1>2, <1>5 DEF Reads
<1>6. ASSUME Unknown(j) PROVE Goal
  BY <1>4, <1>6 DEF Unknown
<1> HIDE DEF Goal
<1>7. CASE HttpRead(j) \/ StdioRead(j)
  BY <1>1, <1>5, <1>7 DEF HttpRead, StdioRead, Tool, Waits, Goal
<1>8. CASE runConnectSource(j)
  BY <1>1, <1>3, <1>4, <1>8 DEF runConnectSource, Tool, Waits, Goal, MCP_WRITE_TOOLS
<1>9. CASE runTriggerSync(j)
  BY <1>1, <1>3, <1>4, <1>9 DEF runTriggerSync, Tool, Waits, Goal, MCP_WRITE_TOOLS
<1>10. CASE runImportCsv(j)
  <2>1. Ran(j, "ok") /\ UNCHANGED <<linked, stored>> => Goal
    BY <1>2
  <2>2. job[j].tool \in MCP_WRITE_TOOLS /\ job[j].pc = "run"
    BY <1>10 DEF runImportCsv, Tool, Waits, MCP_WRITE_TOOLS
  <2>3. Writes(j) \/ (Ran(j, "ok") /\ UNCHANGED <<linked, stored>>) \/ Declines(j)
    BY <1>10 DEF runImportCsv
  <2> QED
    BY <1>1, <1>3, <1>4, <2>1, <2>2, <2>3 DEF Goal
<1>11. CASE runDefineMetric(j) \/ runAnnotate(j) \/ saveValueEvents(j)
  BY <1>1, <1>3, <1>4, <1>11 DEF runDefineMetric, runAnnotate, saveValueEvents, Tool, Waits, Goal, MCP_WRITE_TOOLS
<1>12. CASE runDisconnectSource(j)
  BY <1>1, <1>3, <1>4, <1>12 DEF runDisconnectSource, Tool, Waits, Goal, MCP_WRITE_TOOLS
<1>13. CASE Unknown(j)
  BY <1>1, <1>6, <1>13 DEF Unknown, Tool, Waits, Goal
<1> QED
  BY <1>7, <1>8, <1>9, <1>10, <1>11, <1>12, <1>13 DEF RunTool

\* One call moves, the rows it wrote are its own.
OnlyMoves(j, n) == job' = [job EXCEPT ![j] = n]
LEMMA ToolMoves ==
  ASSUME ToolsInv, NEW j \in Jobs, NEW n \in JobRecords, OnlyMoves(j, n), gone' = gone, audit \subseteq audit',
         n.pc \in {"gate", "run", "log"} => n.tool \in StdioTools,
         n.pc = "run" /\ ~isReadOnlyMcpTool(n.tool) => RunsForItsKey(n),
         \A s \in stored' :
           \/ s \in stored /\ s.job # j
           \/ /\ s.job = j /\ n.pc \in {"log", "done"} /\ ~isReadOnlyMcpTool(n.tool)
              /\ RunsForItsKey(n) /\ s.ws = n.ws
              /\ n.via = "http" /\ n.pc = "done" /\ n.outcome = "ok" /\ n.args # "echo" =>
                   \E a \in audit' : a.call = j /\ a.actor = actorFromAuth(n.auth) /\ a.ws = n.ws
  PROVE  ToolsInv'
<1>1. job \in [Jobs -> JobRecords] /\ \A s \in stored : s.job \in Jobs
  BY DEF ToolsInv
<1>2. job'[j] = n /\ job' \in [Jobs -> JobRecords] /\ \A i \in Jobs \ {j} : job'[i] = job[i]
  BY <1>1 DEF OnlyMoves
<1>3. JobRecords' = JobRecords
  BY DEF JobRecords, Principals, Actors
<1>4. \A s \in stored' : s.job \in Jobs
  BY <1>1
<1>5. ASSUME NEW i \in Jobs
      PROVE  /\ job'[i].pc \in {"gate", "run", "log"} => job'[i].tool \in StdioTools
             /\ job'[i].pc = "run" /\ ~isReadOnlyMcpTool(job'[i].tool) => RunsForItsKey(job'[i])
  BY <1>2 DEF ToolsInv
<1>6. ASSUME NEW s \in stored'
      PROVE  LET r == job'[s.job] IN
               /\ r.pc \in {"log", "done"} /\ ~isReadOnlyMcpTool(r.tool) /\ RunsForItsKey(r) /\ s.ws = r.ws
               /\ r.via = "http" /\ r.pc = "done" /\ r.outcome = "ok" /\ r.args # "echo" =>
                    \E a \in audit' : a.call = s.job /\ a.actor = actorFromAuth(r.auth) /\ a.ws = s.ws
  <2>1. CASE s \in stored /\ s.job # j
    <3>1. job'[s.job] = job[s.job]
      BY <1>1, <1>2, <2>1
    <3> QED
      BY <2>1, <3>1 DEF ToolsInv
  <2>2. CASE s.job = j
    BY <1>2, <2>2
  <2> QED
    BY <2>1, <2>2
<1> QED
  BY <1>2, <1>3, <1>4, <1>5, <1>6 DEF ToolsInv

LEMMA ToolsStep == ASSUME McpInv, NEW j \in Jobs, ToolStep(j) PROVE ToolsInv'
<1>0. /\ AccessInv /\ ToolsInv /\ job[j] \in JobRecords
      /\ \A s \in stored : s.job = j =>
           job[j].pc \in {"log", "done"} /\ ~isReadOnlyMcpTool(job[j].tool) /\ RunsForItsKey(job[j])
           /\ s.ws = job[j].ws
  BY DEF McpInv, ToolsInv
<1>1. CASE CallTool(j)
  <2>1. UNCHANGED <<stored, gone, audit>> /\ job[j].pc = "idle"
    BY <1>1 DEF CallTool, vars, Waits
  <2>2. PICK q \in Asks[j] :
          OnlyMoves(j, [pc |-> "gate", via |-> q.via, tool |-> q.tool, cred |-> q.cred, asked |-> q.asked,
                        args |-> q.args, auth |-> Nobody, ws |-> "none", outcome |-> "none", barred |-> gone])
    BY <1>1 DEF CallTool, GoesTo, OnlyMoves
  <2> DEFINE n == [pc |-> "gate", via |-> q.via, tool |-> q.tool, cred |-> q.cred, asked |-> q.asked,
                   args |-> q.args, auth |-> Nobody, ws |-> "none", outcome |-> "none", barred |-> gone]
  <2>3. q \in [via : {"http", "stdio"}, tool : StdioTools, cred : KeyIds \cup {"env", "none"},
               asked : Spaces \cup {"demo", "none"}, args : ToolArgs]
    BY McpAssumption
  <2>4. n \in JobRecords /\ n.pc = "gate" /\ n.tool \in StdioTools
    BY <2>3, Nobodies DEF JobRecords
  <2> HIDE DEF n
  <2>5. \A s \in stored' : s \in stored /\ s.job # j
    BY <1>0, <2>1
  <2> QED
    BY <1>0, <2>1, <2>2, <2>4, <2>5, ToolMoves DEF n
<1>2. CASE Gate(j)
  <2> DEFINE g == IF job[j].via = "http" THEN HttpGate(job[j]) ELSE StdioGate(job[j])
  <2>1. UNCHANGED <<stored, gone, audit>> /\ job[j].pc = "gate"
    BY <1>2 DEF Gate, vars, Waits
  <2>2. \A s \in stored' : s \in stored /\ s.job # j
    BY <1>0, <2>1
  <2>3. job[j].tool \in StdioTools
    BY <1>0, <2>1 DEF ToolsInv
  <2>4. CASE g.ws = "denied"
    <3> DEFINE n == JobAt(job[j], "done", "refused")
    <3>1. OnlyMoves(j, n)
      BY <1>2, <2>4 DEF Gate, GoesTo, OnlyMoves, JobAt
    <3>0. n = JobAt(job[j], "done", "refused")
      OBVIOUS
    <3> HIDE DEF n
    <3>2. n \in JobRecords /\ n.pc = "done"
      BY <1>0, <3>0, JobMoves
    <3> QED
      BY <1>0, <2>1, <2>2, <3>1, <3>2, ToolMoves
  <2>5. CASE g.ws # "denied"
    <3> DEFINE n == [job[j] EXCEPT !.pc = "run", !.auth = g.auth, !.ws = g.ws]
               m == [job[j] EXCEPT !.pc = "run", !.auth = g.auth]
    <3>1. OnlyMoves(j, n)
      BY <1>2, <2>5 DEF Gate, GoesTo, OnlyMoves
    <3> HIDE DEF g
    <3>2. /\ g.auth \in Principals /\ g.ws \in Spaces \cup {"demo", "none"}
          /\ ~isReadOnlyMcpTool(job[j].tool) =>
               /\ g.auth.scope \in {"write", "admin"} /\ g.auth.actor \notin gone
               /\ job[j].via = "http" /\ ~g.auth.choose => g.ws = g.auth.home
      BY <1>0, <2>3, <2>5, GateOpens DEF g
    <3>3. m \in JobRecords /\ m.pc = "run" /\ m.auth = g.auth /\ m.tool = job[j].tool /\ m.via = job[j].via
          /\ m.barred = job[j].barred
      BY ZenonT(60), <1>0, <3>2 DEF JobRecords
    <3>4. n = [m EXCEPT !.ws = g.ws]
      BY <1>0 DEF JobRecords
    <3> HIDE DEF m, n
    <3>5. n \in JobRecords /\ n.pc = "run" /\ n.auth = g.auth /\ n.ws = g.ws /\ n.tool = job[j].tool
          /\ n.via = job[j].via /\ n.barred = job[j].barred
      BY <3>2, <3>3, <3>4 DEF JobRecords
    <3>6. n.barred \subseteq gone
      BY <1>0, <3>5, JobIsTyped
    <3>7. ~isReadOnlyMcpTool(n.tool) => RunsForItsKey(n)
      BY <3>2, <3>5, <3>6 DEF RunsForItsKey
    <3> QED
      BY <1>0, <2>1, <2>2, <2>3, <3>1, <3>5, <3>7, ToolMoves
  <2> QED
    BY <2>4, <2>5
<1>3. CASE RunTool(j)
  <2>1. UNCHANGED <<gone, audit>> /\ job[j].pc = "run"
    BY ZenonT(60), <1>3, ToolRuns DEF vars
  <2>2. PICK p \in {"log", "done"}, o \in {"ok", "error"} :
              /\ job' = [job EXCEPT ![j] = [job[j] EXCEPT !.pc = p, !.outcome = o]]
              /\ p = "done" /\ o = "ok" => job[j].via # "http"
              /\ \/ stored' = stored
                 \/ stored' = stored \cup {NewRow(j)} /\ ~isReadOnlyMcpTool(job[j].tool)
    BY ZenonT(60), <1>3, ToolRuns
  <2> DEFINE n == JobAt(job[j], p, o)
  <2>4. OnlyMoves(j, n)
    BY <2>2 DEF OnlyMoves, JobAt
  <2>0. n = JobAt(job[j], p, o)
    OBVIOUS
  <2> HIDE DEF n
  <2>3. n \in JobRecords /\ n.pc = p /\ n.outcome = o /\ n.via = job[j].via /\ n.tool = job[j].tool
        /\ n.auth = job[j].auth /\ n.ws = job[j].ws /\ n.barred = job[j].barred
    BY <1>0, <2>0, JobMoves
  <2>5. job[j].tool \in StdioTools /\ (~isReadOnlyMcpTool(job[j].tool) => RunsForItsKey(job[j]))
    BY <1>0, <2>1 DEF ToolsInv
  <2>6. ~isReadOnlyMcpTool(n.tool) => RunsForItsKey(n)
    BY <2>3, <2>5 DEF RunsForItsKey
  <2>7. ASSUME NEW s \in stored'
        PROVE  \/ s \in stored /\ s.job # j
               \/ /\ s.job = j /\ n.pc \in {"log", "done"} /\ ~isReadOnlyMcpTool(n.tool)
                  /\ RunsForItsKey(n) /\ s.ws = n.ws
                  /\ ~(n.via = "http" /\ n.pc = "done" /\ n.outcome = "ok")
    <3>1. CASE s \in stored
      BY <1>0, <2>1, <3>1
    <3>2. CASE s \notin stored
      <4>1. s = NewRow(j) /\ ~isReadOnlyMcpTool(job[j].tool)
        BY <2>2, <2>7, <3>2
      <4>2. s.job = j /\ s.ws = job[j].ws
        BY <4>1 DEF NewRow
      <4> QED
        BY <2>2, <2>3, <2>6, <4>1, <4>2
    <3> QED
      BY <3>1, <3>2
  <2> QED
    BY SMTT(60), <1>0, <2>1, <2>3, <2>4, <2>5, <2>7, ToolMoves
<1>4. CASE recordMcpWriteAudit(j)
  <2> DEFINE n == [job[j] EXCEPT !.pc = "done"]
             row == [actor |-> actorFromAuth(job[j].auth), action |-> "mcp.call", ws |-> job[j].ws, call |-> j]
  <2>1. /\ stored' = stored /\ gone' = gone /\ job[j].pc = "log" /\ OnlyMoves(j, n)
        /\ audit' = IF isReadOnlyMcpTool(job[j].tool) \/ mcpResultUnimplemented(job[j])
                    THEN audit ELSE audit \cup {row}
    BY <1>4 DEF recordMcpWriteAudit, history, Waits, GoesTo, OnlyMoves
  <2>2. row.call = j /\ row.actor = actorFromAuth(job[j].auth) /\ row.ws = job[j].ws
    OBVIOUS
  <2>3. n \in JobRecords /\ n.pc = "done" /\ n.via = job[j].via /\ n.tool = job[j].tool
        /\ n.auth = job[j].auth /\ n.ws = job[j].ws /\ n.barred = job[j].barred
        /\ n.outcome = job[j].outcome /\ n.args = job[j].args
    BY <1>0 DEF JobRecords
  <2> HIDE DEF n, row
  <2>4. ASSUME NEW s \in stored', s.job = j
        PROVE  /\ s.job = j /\ n.pc \in {"log", "done"} /\ ~isReadOnlyMcpTool(n.tool)
               /\ RunsForItsKey(n) /\ s.ws = n.ws
               /\ n.outcome = "ok" /\ n.args # "echo" =>
                    \E a \in audit' : a.call = j /\ a.actor = actorFromAuth(n.auth) /\ a.ws = n.ws
    <3>1. ~isReadOnlyMcpTool(job[j].tool) /\ RunsForItsKey(job[j]) /\ s.ws = job[j].ws
      BY <1>0, <2>1, <2>4
    <3>2. n.outcome = "ok" /\ n.args # "echo" => row \in audit'
      BY <2>1, <2>3, <3>1 DEF mcpResultUnimplemented
    <3> QED
      BY <2>2, <2>3, <2>4, <3>1, <3>2 DEF RunsForItsKey
  <2>5. audit \subseteq audit'
    BY <2>1
  <2>6. \A s \in stored' :
           \/ s \in stored /\ s.job # j
           \/ /\ s.job = j /\ n.pc \in {"log", "done"} /\ ~isReadOnlyMcpTool(n.tool)
              /\ RunsForItsKey(n) /\ s.ws = n.ws
              /\ n.via = "http" /\ n.pc = "done" /\ n.outcome = "ok" /\ n.args # "echo" =>
                   \E a \in audit' : a.call = j /\ a.actor = actorFromAuth(n.auth) /\ a.ws = n.ws
    BY <2>1, <2>4
  <2> QED
    BY <1>0, <2>1, <2>3, <2>5, <2>6, ToolMoves
<1>5. CASE ToolFails(j)
  <2> DEFINE n == JobAt(job[j], "done", "thrown")
  <2>1. UNCHANGED <<stored, gone, audit>> /\ job[j].pc \in {"run", "log"} /\ OnlyMoves(j, n)
    BY <1>5 DEF ToolFails, vars, GoesTo, OnlyMoves, JobAt
  <2>0. n = JobAt(job[j], "done", "thrown")
    OBVIOUS
  <2> HIDE DEF n
  <2>2. n \in JobRecords /\ n.pc = "done" /\ n.outcome = "thrown" /\ n.via = job[j].via /\ n.tool = job[j].tool
        /\ n.auth = job[j].auth /\ n.ws = job[j].ws /\ n.barred = job[j].barred
    BY <1>0, <2>0, JobMoves
  <2>3. \A s \in stored' :
           \/ s \in stored /\ s.job # j
           \/ /\ s.job = j /\ n.pc \in {"log", "done"} /\ ~isReadOnlyMcpTool(n.tool)
              /\ RunsForItsKey(n) /\ s.ws = n.ws /\ n.outcome # "ok"
    BY <1>0, <2>1, <2>2 DEF RunsForItsKey
  <2> QED
    BY <1>0, <2>1, <2>2, <2>3, ToolMoves
<1> QED
  BY <1>1, <1>2, <1>3, <1>4, <1>5 DEF ToolStep

\* Tool calls leave the requests alone; a row they log is nobody else's.
LEMMA ToolLeavesAccess == ASSUME McpInv, NEW j \in Jobs, ToolStep(j) PROVE AccessInv'
<1>1. CASE recordMcpWriteAudit(j)
  <2>1. /\ UNCHANGED <<keys, catalog, rows, cookie, call, faults, barred, gone, earned, purged, late, sealed>>
        /\ audit \subseteq audit' /\ \A a \in audit' : a \in audit \/ a.call = j
    BY <1>1 DEF recordMcpWriteAudit, history
  <2>2. j \notin Calls /\ AccessInv
    BY SMTT(60), McpAssumption DEF McpInv
  <2>3. TypeOK' /\ KeysAreSpent' /\ SessionsAreEarned' /\ NobodyReturns' /\ RevokedStaysOut' /\ SessionIsEarned'
        /\ NoGhosts' /\ KeysArePurged'
    BY <2>1, <2>2 DEF AccessInv, TypeOK, KeysAreSpent, Spent, Minted, SessionsAreEarned, Earned, NobodyReturns,
                      Deleted, RevokedStaysOut, SessionIsEarned, NoGhosts, KeysArePurged, Bound, Op, At
  <2>4. \A c \in Calls : (StepFits(c) /\ WorksAtHome(c) /\ MayStore(c))'
    BY <2>1, <2>2 DEF AccessInv, StepFits, WorksAtHome, MayStore, Bound, Op
  <2>5. TracesFollow' /\ BoundKeysStayHome'
    BY <2>1, <2>2 DEF AccessInv, TracesFollow, BoundKeysStayHome, Bound, At
  <2>6. LogsFirst' /\ AnsweredIsAudited'
    BY <2>1, <2>2 DEF AccessInv, LogsFirst, AnsweredIsAudited, Logged, Op, At
  <2> QED
    BY <2>3, <2>4, <2>5, <2>6 DEF AccessInv
<1>2. CASE UNCHANGED vars
  BY <1>2, AccessInvStays DEF McpInv
<1> QED
  BY <1>1, <1>2 DEF ToolStep, CallTool, Gate, RunTool, ToolFails

\* Requests leave the tool calls alone: the log and the keys taken back only grow.
LEMMA AccessGrows == ASSUME AccessInv, Next PROVE gone \subseteq gone' /\ audit \subseteq audit'
<1>1. ASSUME NEW c \in Calls, Step(c) \/ Fail(c) PROVE gone \subseteq gone' /\ audit \subseteq audit'
  BY <1>1, StepMoves DEF Wrote, TablesMoved, HistoryMoved
<1>2. ASSUME NEW c \in Calls, Begin(c) PROVE gone \subseteq gone' /\ audit \subseteq audit'
  BY <1>2 DEF Begin, tables
<1>3. CASE Expire
  BY <1>3 DEF Expire, tables, history
<1> QED
  BY <1>1, <1>2, <1>3 DEF Next

LEMMA AccessLeavesTools ==
  ASSUME ToolsInv, UNCHANGED toolVars, gone \subseteq gone', audit \subseteq audit' PROVE ToolsInv'
<1>1. stored' = stored /\ job' = job
  BY DEF toolVars
<1>2. ASSUME NEW r \in JobRecords PROVE r \in JobRecords'
  <2>1. r \in [pc : {"idle", "gate", "run", "log", "done"}, via : {"http", "stdio"}, tool : StdioTools \cup {"none"},
               cred : KeyIds \cup {"env", "none"}, asked : Spaces \cup {"demo", "none"},
               args : ToolArgs, auth : Principals,
               ws : Spaces \cup {"demo", "none"},
               outcome : {"none", "refused", "ok", "error", "thrown"}, barred : SUBSET gone']
    BY DEF JobRecords
  <2> QED
    BY <2>1 DEF JobRecords, Principals, Actors
<1>3. job' \in [Jobs -> JobRecords']
  BY <1>1, <1>2 DEF ToolsInv
<1> QED
  BY <1>1, <1>3 DEF ToolsInv

LEMMA McpStep == ASSUME McpInv, [McpNext]_mcpVars PROVE McpInv'
<1>1. ASSUME NEW j \in Jobs, ToolStep(j) PROVE McpInv'
  BY <1>1, ToolsStep, ToolLeavesAccess DEF McpInv
<1>2. CASE Next /\ UNCHANGED toolVars
  BY <1>2, AccessStep, AccessGrows, AccessLeavesTools DEF McpInv
<1>3. CASE UNCHANGED mcpVars
  <2>1. UNCHANGED vars /\ UNCHANGED toolVars
    BY <1>3 DEF mcpVars
  <2>2. gone' = gone /\ audit' = audit
    BY <2>1 DEF vars
  <2> QED
    BY <2>1, <2>2, AccessInvStays, AccessLeavesTools DEF McpInv
<1> QED
  BY <1>1, <1>2, <1>3 DEF McpNext

LEMMA McpStart == ASSUME McpInit PROVE McpInv
<1>1. AccessInv /\ stored = {} /\ job = [j \in Jobs |-> NoJob]
  BY AccessStart DEF McpInit
<1>2. NoJob \in JobRecords /\ NoJob.pc = "idle"
  BY Nobodies DEF NoJob, JobRecords, ToolArgs
<1> QED
  BY <1>1, <1>2 DEF McpInv, ToolsInv

LEMMA McpInvHolds == McpSpec => []McpInv
BY McpStart, McpStep, PTL DEF McpSpec

\* What the invariant says of tool calls.
LEMMA McpInvSays == ASSUME McpInv PROVE KeysAreObeyed /\ NoGhosts /\ WritesAreAudited
<1>1. ToolsActForTheirKey
  BY DEF McpInv, ToolsInv, ToolsActForTheirKey, RunsForItsKey
<1>2. ToolsAreAudited
  BY DEF McpInv, ToolsInv, ToolsAreAudited, AnsweredOverHttp, ToolIsAudited
<1> QED
  BY <1>1, <1>2 DEF McpInv, AccessInv, KeysAreObeyed, WritesAreAudited

-----------------------------------------------------------------------------
(* However requests, tool calls, deletions and failures interleave, what a key *)
(* stores, mints, takes back, logs or deletes is in its own workspace; a key   *)
(* whose revocation or downgrade was answered stores nothing through a later   *)
(* request; a session reads what was unlocked in its browser, and a tool acts  *)
(* for its key (authorize, resolveWorkspace, authFromSession, the MCP gate).   *)
THEOREM AccessKeepsKeysObeyed == McpSpec => []KeysAreObeyed
BY McpInvHolds, McpInvSays, PTL

(* A workspace that was deleted with no mint under way gets no row from a      *)
(* request by one of its keys that was not already authorized when the         *)
(* deletion ended (purgeWorkspace, deleteWorkspace).                           *)
THEOREM DeletedStaysEmpty == McpSpec => []NoGhosts
BY McpInvHolds, McpInvSays, PTL

(* A write or a writing tool call over http that was answered ok is in the     *)
(* audit log under its caller's name, whatever became of key and workspace     *)
(* (recordWriteAudit, recordMcpWriteAudit).                                    *)
THEOREM AnsweredWritesAreLogged == McpSpec => []WritesAreAudited
BY McpInvHolds, McpInvSays, PTL
=============================================================================
