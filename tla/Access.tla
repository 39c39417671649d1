-------------------------------- MODULE Access --------------------------------
(* Who may do what, and where it lands: API keys (src/src/core/auth.ts and the *)
(* keys routes), the browser's signed session (session.ts, session-auth.ts,    *)
(* the session route), the workspace catalog and its purge (workspaces.ts,     *)
(* tombstones.ts) and the audit log (audit.ts).  One record per request, one   *)
(* action per awaited statement; requests of all kinds overlap.                *)
EXTENDS Naturals, FiniteSets

CONSTANTS
  Calls,      \* requests, each made once
  Requests,   \* Calls -> what each may ask for, one of these
  Spaces,     \* workspaces beside "demo"; "live" is one
  FirstKeys,  \* key -> what the key table holds at first
  Production, \* NODE_ENV is production
  MaxFaults   \* bound: requests that fail half way

NoKey == [ws |-> "none", scope |-> "none", legacy |-> FALSE]
KeyIds == DOMAIN FirstKeys \cup Calls    \* a minted key is named for its request
Scopes == {"read", "write", "admin"}
Writers == {"ingest", "event", "mint", "revoke", "downgrade", "create", "archive",
            "delete", "prefs"}

ASSUME AccessAssumption ==
  /\ "live" \in Spaces /\ Spaces \cap {"demo", "none", "denied"} = {} /\ Production \in BOOLEAN
  /\ KeyIds \cap {"env", "none", "anonymous", "session"} = {}
  /\ MaxFaults \in Nat
  /\ \A k \in DOMAIN FirstKeys :
       FirstKeys[k] \in [ws : Spaces, scope : Scopes, legacy : BOOLEAN]
  /\ \A c \in Calls :
       /\ c \notin DOMAIN FirstKeys
       /\ Requests[c] \subseteq
            [op : Writers \cup {"read", "unlock", "logout"},
             cred : KeyIds \cup {"env", "none"},           \* what it presents
             asked : Spaces \cup {"demo", "none"},         \* the workspace it names
             target : KeyIds \cup {"none"},                \* the key it is about
             scope : Scopes \cup {"none"}]                 \* the scope to mint

VARIABLES
  keys,      \* api_keys
  catalog,   \* workspaces: "absent", "open" or "archived"
  rows,      \* what ingest and preferences stored: workspace, request
  audit,     \* audit_log: actor, action, workspace, request
  cookie,    \* the browser's session cookie
  call,      \* the requests
  faults,
  barred,    \* history: request -> keys revoked or downgraded before it began
  gone,      \* history: keys whose revoke or downgrade has been answered
  earned,    \* history: workspaces a key was presented for in this browser
  purged,    \* history: workspace -> requests authorized before a deletion ended
  late,      \* history: deletion -> keys of its workspace minted after it purged them
  sealed     \* history: workspace -> its last deletion had none, and none to come
vars == <<keys, catalog, rows, audit, cookie, call, faults, barred, gone, earned, purged, late, sealed>>
tables == <<keys, catalog, rows, audit>>
history == <<barred, gone, earned, purged, late, sealed>>

-----------------------------------------------------------------------------
(* auth.ts: the principal a request acts as, and where its work may go.        *)
Nobody == [actor |-> "none", home |-> "none", also |-> {}, choose |-> FALSE, scope |-> "none"]
Visitor == [Nobody EXCEPT !.actor = "anonymous", !.scope = "read"]

verifyPresentedKey(cred) ==
  CASE cred = "env" -> [Nobody EXCEPT !.actor = "env", !.choose = TRUE, !.scope = "admin"]
    [] cred \in KeyIds /\ keys[cred] # NoKey ->
         [actor |-> cred, home |-> keys[cred].ws, also |-> {keys[cred].ws},
          choose |-> keys[cred].scope = "admin", scope |-> keys[cred].scope]
    [] OTHER -> Nobody

authorize(cred, asked, write) ==
  LET auth == verifyPresentedKey(cred)
  IN CASE ~write /\ asked = "demo" -> Visitor
       [] write /\ auth.scope \notin {"write", "admin"} -> Nobody
       [] OTHER -> auth

(* "none" is a request that names no workspace, "denied" a 401.                *)
Or(asked, other) == IF asked # "none" THEN asked ELSE other
BugAskedWins(auth, asked, write) ==
  IF auth.actor = "anonymous" THEN IF write THEN "denied" ELSE "demo"
  ELSE Or(asked, IF write THEN "live" ELSE "demo")
resolveWorkspace(auth, asked, write) ==
  IF auth.actor = "anonymous" THEN IF write THEN "denied" ELSE "demo"
  ELSE IF auth.choose THEN Or(asked, IF write THEN "live" ELSE "demo")
  ELSE IF write THEN auth.home
  ELSE IF asked \in {"none", "demo"} \cup auth.also THEN Or(asked, auth.home) ELSE "denied"

(* session.ts: the cookie holds the workspaces unlocked so far.                *)
NoCookie == [ws |-> "none", list |-> {}, choose |-> FALSE]
sessionAuthorizes(s, ws) == ws = "demo" \/ s.choose \/ ws \in s.list
authFromSession(s, asked) ==
  LET home == IF asked # "none" /\ sessionAuthorizes(s, asked) THEN asked ELSE s.ws
  IN [actor |-> "session", home |-> home, also |-> s.list \cup {home},
      choose |-> s.choose, scope |-> "read"]
sessionFromAuth(auth, ws) == [ws |-> ws, list |-> {ws}, choose |-> auth.choose]
mergeSessions(old, new) ==
  IF old = NoCookie THEN new
  ELSE [ws |-> new.ws, list |-> old.list \cup new.list, choose |-> old.choose \/ new.choose]

(* session-auth.ts, and workspaces/route.ts for delete: which requests a       *)
(* session may make. A read and a preference take the session first, a delete  *)
(* only when no key is presented.                                              *)
SessionServes(r) ==
  /\ r.sent # NoCookie
  /\ r.op \in {"read", "prefs"} \/ (r.op = "delete" /\ r.cred = "none")

-----------------------------------------------------------------------------
NoRequest == [pc |-> "idle", op |-> "none", cred |-> "none", asked |-> "none",
              scope |-> "none", sent |-> NoCookie, auth |-> Nobody, ws |-> "none",
              target |-> "none", ok |-> FALSE]

Init ==
  /\ keys = [k \in KeyIds |-> IF k \in Calls THEN NoKey ELSE FirstKeys[k]]
  /\ catalog = [w \in Spaces |-> IF \E k \in DOMAIN FirstKeys : FirstKeys[k].ws = w
                                 THEN "open" ELSE "absent"]
  /\ rows = {} /\ audit = {} /\ cookie = NoCookie
  /\ call = [c \in Calls |-> NoRequest] /\ faults = 0
  /\ barred = [c \in Calls |-> {}] /\ gone = {} /\ earned = {}
  /\ purged = [w \in Spaces |-> {}] /\ late = [c \in Calls |-> {}]
  /\ sealed = [w \in Spaces |-> FALSE]

Op(c) == call[c].op
Goes(c, r) == call' = [call EXCEPT ![c] = r]
Goto(c, pc) == Goes(c, [call[c] EXCEPT !.pc = pc])
Refuse(c) == Goto(c, "done")
At(c, pc) == call[c].pc = pc

(* A request arrives, with the cookie the browser holds. Revoking and           *)
(* downgrading name a key that was listed; the catalog's routes name a workspace. *)
Legal(q) ==
  /\ q.op \in {"create", "archive", "delete"} => q.asked \in Spaces
  /\ q.op \in {"revoke", "downgrade"} => q.target \in KeyIds /\ keys[q.target] # NoKey
  /\ q.op = "mint" => q.scope \in Scopes
Begin(c) ==
  /\ At(c, "idle")
  /\ \E q \in {x \in Requests[c] : Legal(x)} :
       Goes(c, [pc |-> "auth", op |-> q.op, cred |-> q.cred, asked |-> q.asked, scope |-> q.scope,
                sent |-> cookie, auth |-> Nobody, ws |-> "none", target |-> q.target, ok |-> FALSE])
  /\ barred' = [barred EXCEPT ![c] = gone]
  /\ UNCHANGED <<tables, cookie, faults, gone, earned, purged, late, sealed>>

(* Where each kind of request goes once it knows who is calling.               *)
FirstStep(op) ==
  CASE op \in {"ingest", "mint", "unlock"} -> "look" [] op \in {"event", "prefs"} -> "store"
    [] op \in {"revoke", "downgrade"} -> "readkey"
    [] op \in {"create", "archive", "delete"} -> "readrow"
    [] OTHER -> "answer"

(* The workspace it will touch: keys routes go by the key, minting and the     *)
(* catalog by what is asked, the rest by resolveWorkspace. An unlock without a *)
(* name asks for live, and never unlocks demo.                                 *)
Place(r, auth) ==
  CASE r.op \in {"create", "archive"} -> IF auth.choose THEN r.asked ELSE "denied"
    [] r.op = "delete" /\ auth.actor = "session" ->
         IF sessionAuthorizes(r.sent, r.asked) THEN r.asked ELSE "denied"
    [] r.op = "delete" /\ auth.actor # "session" ->
         IF auth.choose \/ auth.home = r.asked THEN r.asked ELSE "denied"
    [] r.op = "mint" -> IF r.scope = "admin" /\ auth.scope # "admin" THEN "denied"
                        ELSE IF auth.choose THEN Or(r.asked, "live")
                        ELSE Or(auth.home, "live")
    [] r.op \in {"revoke", "downgrade", "logout"} -> "none"
    [] r.op = "unlock" -> LET w == resolveWorkspace(auth, Or(r.asked, "live"), FALSE)
                          IN IF w = "demo" THEN "denied" ELSE w
    [] r.op \in {"read", "prefs"} /\ auth.actor = "session" ->
         resolveWorkspace(auth, r.asked, FALSE)
    [] OTHER -> resolveWorkspace(auth, r.asked, r.op # "read")

Enter(c, auth) ==
  LET r == call[c]
      ws == Place(r, auth)
  IN IF ws = "denied" THEN Refuse(c)
     ELSE Goes(c, [r EXCEPT !.pc = FirstStep(r.op), !.auth = auth, !.ws = ws])

Caller(r) ==
  IF r.op = "logout" THEN Visitor
  ELSE IF SessionServes(r) THEN authFromSession(r.sent, r.asked)
  ELSE IF r.op = "delete" /\ r.cred = "none" THEN Nobody
  ELSE IF r.op = "unlock" THEN authorize(r.cred, Or(r.asked, "live"), FALSE)
  ELSE authorize(r.cred, IF r.op = "mint" THEN "none" ELSE r.asked, r.op # "read")

Authorize(c) ==
  LET auth == Caller(call[c])
  IN /\ At(c, "auth")
     /\ IF auth # Nobody THEN Enter(c, auth)
        ELSE IF Op(c) = "mint" THEN Goto(c, "count") ELSE Refuse(c)
     /\ UNCHANGED <<tables, cookie, faults, history>>

(* The first key needs no key, outside production and while there is none.     *)
Bootstrap(c) ==
  /\ At(c, "count")
  /\ IF ~Production /\ \A k \in KeyIds : keys[k] = NoKey THEN Enter(c, Nobody) ELSE Refuse(c)
  /\ UNCHANGED <<tables, cookie, faults, history>>

-----------------------------------------------------------------------------
(* ensureWorkspace: look, then insert; a second insert of the row fails.       *)
AfterEnsure(op) == IF op = "unlock" THEN "answer" ELSE IF op = "create" THEN "log" ELSE "store"
Look(c) ==
  /\ At(c, "look")
  /\ Goto(c, IF call[c].ws \in Spaces /\ catalog[call[c].ws] = "absent" THEN "insert"
             ELSE AfterEnsure(Op(c)))
  /\ UNCHANGED <<tables, cookie, faults, history>>

InsertRow(c) ==
  /\ At(c, "insert")
  /\ IF catalog[call[c].ws] = "absent"
       THEN /\ catalog' = [catalog EXCEPT ![call[c].ws] = "open"]
            /\ Goto(c, AfterEnsure(Op(c)))
       ELSE /\ UNCHANGED catalog /\ Refuse(c)
  /\ UNCHANGED <<keys, rows, audit, cookie, faults, history>>

(* The write itself: an ingested row or a saved preference, or the minted key. *)
Store(c) ==
  /\ At(c, "store") /\ Goto(c, "log")
  /\ IF Op(c) = "mint"
       THEN /\ keys' = [keys EXCEPT ![c] = [ws |-> call[c].ws, scope |-> call[c].scope,
                                            legacy |-> FALSE]]
            /\ late' = [d \in Calls |-> IF At(d, "drop") /\ call[d].ws = call[c].ws
                                         THEN late[d] \cup {c} ELSE late[d]]
            /\ UNCHANGED rows
       ELSE /\ rows' = rows \cup {[ws |-> call[c].ws, call |-> c]}
            /\ UNCHANGED <<keys, late>>
  /\ UNCHANGED <<catalog, audit, cookie, faults, barred, gone, earned, purged, sealed>>

(* keys/[id] and keys/downgrade read the key and then write it. Only a legacy  *)
(* key is downgraded; a key of another workspace is not found.                 *)
ReadKey(c) ==
  LET k == call[c].target
      auth == call[c].auth
      mine == keys[k] # NoKey /\ (auth.choose \/ keys[k].ws = auth.home)
  IN /\ At(c, "readkey")
     /\ IF mine /\ (Op(c) = "downgrade" => keys[k].legacy)
          THEN Goes(c, [call[c] EXCEPT !.pc = "writekey", !.ws = keys[k].ws])
          ELSE Refuse(c)
     /\ UNCHANGED <<tables, cookie, faults, history>>
WriteKey(c) ==
  LET k == call[c].target
  IN /\ At(c, "writekey") /\ Goto(c, "log")
     /\ keys' = [keys EXCEPT ![k] =
          IF Op(c) = "revoke" THEN NoKey
          ELSE IF @.legacy THEN [@ EXCEPT !.scope = "read", !.legacy = FALSE] ELSE @]
     /\ UNCHANGED <<catalog, rows, audit, cookie, faults, history>>

(* createWorkspace, archiveWorkspace and deleteWorkspace begin with the row;   *)
(* create then runs ensureWorkspace, and archiving an archived one is fine.    *)
ReadRow(c) ==
  LET there == catalog[call[c].ws]
  IN /\ At(c, "readrow")
     /\ CASE Op(c) = "create" -> Goto(c, IF there = "absent" THEN "look" ELSE "done")
          [] there = "absent" /\ Op(c) # "create" -> Refuse(c)
          [] Op(c) = "archive" /\ there = "open" -> Goto(c, "archive")
          [] Op(c) = "archive" /\ there = "archived" -> Goto(c, "log")
          [] Op(c) = "delete" /\ there # "absent" -> Goto(c, "purge")
     /\ UNCHANGED <<tables, cookie, faults, history>>
Archive(c) ==
  /\ At(c, "archive") /\ Goto(c, "log")
  /\ catalog' = [catalog EXCEPT ![call[c].ws] = IF @ = "absent" THEN @ ELSE "archived"]
  /\ UNCHANGED <<keys, rows, audit, cookie, faults, history>>

(* purgeWorkspace deletes table by table: people and their rows, then the      *)
(* keys, then the rest; the catalog row goes last.                             *)
PurgeRows(c) ==
  /\ At(c, "purge") /\ Goto(c, "purgekeys")
  /\ rows' = {r \in rows : r.ws # call[c].ws}
  /\ UNCHANGED <<keys, catalog, audit, cookie, faults, history>>
BugKeysStay(c) ==
  /\ At(c, "purgekeys") /\ Goto(c, "drop")
  /\ UNCHANGED <<tables, cookie, faults, history>>
PurgeKeys(c) ==
  /\ At(c, "purgekeys") /\ Goto(c, "drop")
  /\ keys' = [k \in KeyIds |-> IF keys[k].ws = call[c].ws THEN NoKey ELSE keys[k]]
  /\ UNCHANGED <<catalog, rows, audit, cookie, faults, history>>
Underway == {d \in Calls : ~At(d, "idle") /\ ~At(d, "auth")}
Minting(w) == {d \in Calls : At(d, "store") /\ Op(d) = "mint" /\ call[d].ws = w}
DropRow(c) ==
  /\ At(c, "drop") /\ Goto(c, "log")
  /\ catalog' = [catalog EXCEPT ![call[c].ws] = "absent"]
  /\ purged' = [purged EXCEPT ![call[c].ws] = @ \cup Underway]
  /\ sealed' = [sealed EXCEPT ![call[c].ws] = late[c] = {} /\ Minting(call[c].ws) = {}]
  /\ UNCHANGED <<keys, rows, audit, cookie, faults, barred, gone, earned, late>>

-----------------------------------------------------------------------------
(* audit.ts: after the write, before the answer.                               *)
actorFromAuth(auth) == IF auth.actor = "none" THEN "env" ELSE auth.actor
recordWriteAudit(c) ==
  /\ At(c, "log") /\ Goto(c, "answer")
  /\ audit' = audit \cup {[actor |-> actorFromAuth(call[c].auth), action |-> Op(c),
                           ws |-> call[c].ws, call |-> c]}
  /\ UNCHANGED <<keys, catalog, rows, cookie, faults, history>>

(* The answer; an unlock's carries the cookie it merged from the one it was    *)
(* sent, a logout's clears it.                                                 *)
Merged(c) == mergeSessions(call[c].sent, sessionFromAuth(call[c].auth, call[c].ws))
Answer(c) ==
  /\ At(c, "answer") /\ Goes(c, [call[c] EXCEPT !.pc = "done", !.ok = TRUE])
  /\ cookie' = CASE Op(c) = "unlock" -> Merged(c) [] Op(c) = "logout" -> NoCookie
                 [] OTHER -> cookie
  /\ earned' = IF Op(c) = "unlock"
                 THEN earned \cup (IF call[c].auth.choose THEN Spaces ELSE {call[c].ws})
                 ELSE earned
  /\ gone' = IF Op(c) \in {"revoke", "downgrade"} THEN gone \cup {call[c].target} ELSE gone
  /\ UNCHANGED <<tables, faults, barred, purged, late, sealed>>

(* A statement fails: the answer is an error, what was written stays.          *)
Fail(c) ==
  /\ call[c].pc \notin {"idle", "done"} /\ faults < MaxFaults /\ faults' = faults + 1
  /\ Refuse(c) /\ UNCHANGED <<tables, cookie, history>>

Expire == cookie # NoCookie /\ cookie' = NoCookie /\ UNCHANGED <<tables, call, faults, history>>

Step(c) ==
  \/ Authorize(c) \/ Bootstrap(c) \/ Look(c) \/ InsertRow(c) \/ Store(c)
  \/ ReadKey(c) \/ WriteKey(c) \/ ReadRow(c) \/ Archive(c)
  \/ PurgeRows(c) \/ PurgeKeys(c) \/ DropRow(c) \/ recordWriteAudit(c) \/ Answer(c)
Next == Expire \/ \E c \in Calls : Begin(c) \/ Step(c) \/ Fail(c)
Spec == Init /\ [][Next]_vars
-----------------------------------------------------------------------------
KeyRows == [ws : Spaces \cup {"demo"}, scope : Scopes, legacy : BOOLEAN]
Cookies == [ws : Spaces \cup {"none"}, list : SUBSET Spaces, choose : BOOLEAN]
Actors == KeyIds \cup {"none", "env", "anonymous", "session"}
Principals == [actor : Actors, home : Spaces \cup {"demo", "none"},
               also : SUBSET (Spaces \cup {"demo", "none"}), choose : BOOLEAN,
               scope : Scopes \cup {"none"}]
Pcs == {"idle", "auth", "count", "look", "insert", "store", "readkey", "writekey", "readrow",
        "archive", "purge", "purgekeys", "drop", "log", "answer", "done"}
CallRecords ==
  [pc : Pcs, op : Writers \cup {"read", "unlock", "logout", "none"}, cred : KeyIds \cup {"env", "none"},
   asked : Spaces \cup {"demo", "none"}, scope : Scopes \cup {"none"}, sent : Cookies,
   auth : Principals, ws : Spaces \cup {"demo", "none"}, target : KeyIds \cup {"none"}, ok : BOOLEAN]
TypeOK ==
  /\ keys \in [KeyIds -> KeyRows \cup {NoKey}]
  /\ catalog \in [Spaces -> {"absent", "open", "archived"}]
  /\ rows \subseteq [ws : Spaces \cup {"demo"}, call : Calls]
  /\ cookie \in Cookies /\ call \in [Calls -> CallRecords] /\ faults \in 0..MaxFaults
  /\ barred \in [Calls -> SUBSET gone] /\ gone \subseteq KeyIds /\ earned \subseteq Spaces
  /\ purged \in [Spaces -> SUBSET Calls] /\ sealed \in [Spaces -> BOOLEAN]
  /\ late \in [Calls -> SUBSET Calls]

Bound(c) == call[c].auth.actor \in KeyIds /\ ~call[c].auth.choose

(* "Workspace comes from the key" (ingest routes), "the same cascade": what a  *)
(* key bound to a workspace stores, mints, revokes, logs or deletes is in that *)
(* workspace, whatever workspace the request names.                            *)
BoundKeysStayHome ==
  \A c \in Calls : Bound(c) =>
    /\ \A r \in rows \cup audit : r.call = c => r.ws = call[c].auth.home
    /\ keys[c] # NoKey => keys[c].ws = call[c].auth.home
    /\ At(c, "purge") \/ At(c, "writekey") => call[c].ws = call[c].auth.home

(* A key whose revocation or downgrade was answered writes nothing through a   *)
(* request that begins later, and neither does a key that can only read.       *)
RevokedStaysOut ==
  \A r \in rows : call[r.call].auth.actor \in KeyIds =>
    /\ call[r.call].auth.actor \notin barred[r.call]
    /\ call[r.call].auth.scope # "read"

(* Deleting a workspace deletes its keys before it answers, so later requests  *)
(* with them are refused: a row of a workspace that is no more was stored by a *)
(* request authorized before the deletion ended, or by one that may choose any *)
(* workspace.  It takes a deletion with no key minted while it runs: such a    *)
(* key outlives the workspace.                                                 *)
NoGhosts ==
  \A r \in rows : r.ws \in Spaces /\ catalog[r.ws] = "absent" /\ purged[r.ws] # {} /\ sealed[r.ws] =>
    r.call \in purged[r.ws] \/ ~Bound(r.call)

(* "Every successful keyed write records actor, action, subject": a write that *)
(* was answered ok is in the log under the name of who did it, also when the   *)
(* key or the workspace is gone by then.                                       *)
AnsweredIsAudited ==
  \A c \in Calls : call[c].ok /\ Op(c) \in Writers =>
    \E a \in audit : a.call = c /\ a.actor = actorFromAuth(call[c].auth)

(* A session reaches only workspaces whose key, or an admin's, was presented   *)
(* in this browser, however unlocks, logouts and expiry overlap.               *)
SessionIsEarned ==
  \A c \in Calls :
    call[c].auth.actor = "session" /\ call[c].ws \in Spaces => call[c].ws \in earned

(* Behind them, what holds of a request on its way.                            *)
Past == {"log", "answer", "done"}
(* Each step belongs to some kinds of request; nobody is known before "auth".  *)
Fits(r) ==
  /\ r.pc \in {"idle", "auth", "count"} => r.auth = Nobody
  /\ r.pc = "count" => r.op = "mint"
  /\ r.pc \in {"look", "insert"} => r.op \in {"ingest", "mint", "unlock", "create"}
  /\ r.pc = "store" => r.op \in {"ingest", "event", "prefs", "mint"}
  /\ r.pc \in {"readkey", "writekey"} => r.op \in {"revoke", "downgrade"}
  /\ r.pc = "readrow" => r.op \in {"create", "archive", "delete"}
  /\ r.pc = "archive" => r.op = "archive"
  /\ r.pc \in {"purge", "purgekeys", "drop"} => r.op = "delete"
  /\ r.pc = "log" => r.op \in Writers
  /\ r.pc \in {"look", "insert", "readrow", "archive", "purge", "purgekeys", "drop"} =>
       r.ws \in Spaces \cup {"demo"}
  /\ r.pc \in {"readrow", "archive", "purge", "purgekeys", "drop"} => r.ws \in Spaces
  /\ r.pc = "store" => r.ws # "none"
  /\ r.op \in {"mint", "revoke", "downgrade"} /\ r.pc # "idle" =>
       (r.op = "mint" => r.scope \in Scopes) /\ (r.op # "mint" => r.target \in KeyIds)
  /\ r.op \in {"create", "archive", "delete"} => r.asked \in Spaces
  /\ r.ok => r.pc = "done"
StepFits(c) == Fits(call[c])
(* It works in the workspace of its key, with a key that may write.            *)
WorksAtHome(c) ==
  Bound(c) /\ Op(c) # "unlock"
    /\ call[c].pc \in {"look", "insert", "store", "writekey", "readrow", "archive", "purge",
                       "purgekeys", "drop", "log"} =>
    call[c].ws = call[c].auth.home
MayStore(c) ==
  /\ call[c].auth.actor \in KeyIds => call[c].auth.home \in Spaces \cup {"demo"}
  /\ call[c].auth.actor \in KeyIds /\ call[c].pc \in {"look", "insert", "store"}
       /\ Op(c) \in {"ingest", "event", "prefs"} =>
     call[c].auth.actor \notin barred[c] /\ call[c].auth.scope # "read"
(* What it left behind: its key, its rows, its log row.                        *)
TracesFollow ==
  /\ \A c \in Calls : keys[c] # NoKey => call[c].pc \in Past
  /\ \A r \in rows : call[r.call].pc \in Past
  /\ \A a \in audit : a.call \in Calls => call[a.call].pc \in {"answer", "done"}
Logged(c) == \E a \in audit : a.call = c /\ a.actor = actorFromAuth(call[c].auth)
LogsFirst == \A c \in Calls : At(c, "answer") /\ Op(c) \in Writers => Logged(c)
(* A key that was taken back can write no more, and nothing brings it back.    *)
Minted(k) == k \in Calls => call[k].pc \in Past
Spent(k) == Minted(k) /\ (keys[k] = NoKey \/ keys[k].scope = "read")
KeysAreSpent ==
  /\ \A k \in gone : Spent(k)
  /\ \A c \in Calls : Op(c) \in {"revoke", "downgrade"} =>
       /\ call[c].pc # "idle" => Minted(call[c].target)
       /\ call[c].pc \in {"log", "answer"} => Spent(call[c].target)
       /\ At(c, "writekey") /\ Op(c) = "downgrade" =>
            Spent(call[c].target) \/ keys[call[c].target].legacy
(* A cookie names what was earned.                                             *)
Earned(s) ==
  /\ s.list \subseteq earned /\ (s.choose => Spaces \subseteq earned)
  /\ s # NoCookie => s.ws \in s.list
SessionsAreEarned ==
  /\ Earned(cookie)
  /\ \A c \in Calls :
       /\ Earned(call[c].sent)
       /\ call[c].auth.actor = "session" => Op(c) \in {"read", "prefs", "delete"}
       /\ Op(c) = "unlock" /\ call[c].pc \in {"look", "insert", "answer"} => call[c].ws \in Spaces
(* A deletion past its keys meets only keys minted since; of a workspace that  *)
(* was deleted for good nobody holds one.                                      *)
KeysArePurged ==
  \A c \in Calls : At(c, "drop") => \A k \in KeyIds : keys[k].ws = call[c].ws => k \in late[c]
Deleted(w) == catalog[w] = "absent" /\ purged[w] # {} /\ sealed[w]
NobodyReturns ==
  \A w \in Spaces : Deleted(w) =>
    /\ \A k \in KeyIds : keys[k].ws # w
    /\ \A c \in Calls :
         /\ Op(c) = "mint" /\ call[c].ws = w => ~At(c, "store")
         /\ Bound(c) /\ call[c].auth.home = w => c \in purged[w]
AccessInv ==
  /\ TypeOK /\ TracesFollow /\ LogsFirst /\ KeysAreSpent /\ SessionsAreEarned
  /\ KeysArePurged /\ NobodyReturns
  /\ \A c \in Calls : StepFits(c) /\ WorksAtHome(c) /\ MayStore(c)
  /\ BoundKeysStayHome /\ RevokedStaysOut /\ AnsweredIsAudited /\ SessionIsEarned /\ NoGhosts
=============================================================================
