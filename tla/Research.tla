------------------------------ MODULE Research ------------------------------
(* PMF+ web research: which fields of a person leave the machine, and what     *)
(* comes back (src/core/research.ts, app/api/views/pmf/route.ts,               *)
(* components/ResearchDisclosure.tsx).  The founder reads the fields in a      *)
(* dialog, unticks some and approves; the route loads the person again, so the *)
(* row may have changed or gone since; the answer is kept in a file and served *)
(* from it to the next who approve the same fields.  A field is its name with  *)
(* its value, a person's name is the person.                                   *)
EXTENDS Naturals, Sequences, FiniteSets

CONSTANTS
  Persons,
  Countries,     \* values of the country field
  FirstCountry,  \* by person: the row to begin with
  Callers,       \* callers of the API beside the page
  Wishes,        \* what they ask: [person, fields, refresh]
  MaxEdits,      \* bound: edits and deletions of a row
  MaxPosts       \* bound: research requests

ASSUME ResearchAssumption ==
  /\ "page" \notin Callers
  /\ FirstCountry \in [Persons -> Countries \cup {"none"}]

VARIABLES
  country,       \* by person: the row's country, "none", or "gone" with the row
  cache,         \* research-cache.json: results by person and fields
  candidates,    \* the page's people, each with the fields listed on loading
  queue,         \* the page's researchQueue: candidates awaiting the dialog
  ticked,        \* the dialog's approved fields
  researching,   \* the dialog waits for its answer
  post,          \* by caller: a research request, from its call to its answer
  sent,          \* queries that left: [by, to, person, fields, approved]
  provider,      \* web_search when a key is set, else encyclopedia
  edits, posts   \* made so far
researchVars == <<country, cache, candidates, queue, ticked, researching, post, sent, provider, edits, posts>>

Page == "page"
Name(p) == <<"name", p>>
Outgoing(p, c) == {Name(p)} \cup IF c = "none" THEN {} ELSE {<<"country", c>>}
(* Listed from the row, approved only verbatim, and never without the name.    *)
listOutgoingFields(p) == Outgoing(p, country[p])
(* Mutant: the fields are compared by name, and the row's values leave.        *)
BugApproveByName(p, c, fields) ==
  IF /\ {f[1] : f \in fields} \subseteq {f[1] : f \in Outgoing(p, c)} /\ Name(p) \in fields
  THEN {f \in Outgoing(p, c) : f[1] \in {g[1] : g \in fields}} ELSE {}
approveOutgoingFields(p, c, fields) ==
  IF fields \subseteq Outgoing(p, c) /\ Name(p) \in fields THEN fields ELSE {}
cacheKey(p, fields) == <<p, fields>>

Idle == [pc |-> "idle", person |-> "none", fields |-> {}, refresh |-> FALSE, row |-> "none", result |-> {}]
Asked(w) == [pc |-> "load", person |-> w.person, fields |-> w.fields, refresh |-> w.refresh, row |-> "none", result |-> {}]
ResearchInit ==
  /\ country = FirstCountry
  /\ cache = <<>> /\ candidates = {} /\ queue = <<>> /\ ticked = {} /\ researching = FALSE
  /\ post = [r \in Callers \cup {Page} |-> Idle]
  /\ sent = {} /\ provider \in {"web_search", "encyclopedia"} /\ edits = 0 /\ posts = 0

-----------------------------------------------------------------------------
(* The page.                                                                   *)
server == <<country, cache, sent, provider, edits>>
Post == posts < MaxPosts /\ posts' = posts + 1
Living == {p \in Persons : country[p] # "gone"}
loadCandidates ==
  /\ candidates' = {[person |-> p, outgoing |-> listOutgoingFields(p)] : p \in Living}
  /\ candidates' # candidates
  /\ UNCHANGED <<server, queue, ticked, researching, post, posts>>
(* One person, or the people of a filtered view one after the other.  The      *)
(* dialog lies over the page: it is opened only when it is closed.             *)
openDisclosure(people) ==
  /\ queue = <<>> /\ queue' = people
  /\ ticked' = people[1].outgoing
  /\ UNCHANGED <<server, candidates, researching, post, posts>>
Untick(f) ==
  /\ queue # <<>> /\ f \in queue[1].outgoing /\ f[1] # "name"
  /\ ticked' = (IF f \in ticked THEN ticked \ {f} ELSE ticked \cup {f})
  /\ UNCHANGED <<server, candidates, queue, researching, post, posts>>
onClose ==
  /\ queue # <<>> /\ ~researching
  /\ queue' = <<>> /\ UNCHANGED <<server, candidates, ticked, researching, post, posts>>
runApprovedResearch ==
  /\ queue # <<>> /\ ~researching /\ ticked # {} /\ Post
  /\ researching' = TRUE
  /\ post' = [post EXCEPT ![Page] = Asked([person |-> queue[1].person, fields |-> ticked, refresh |-> FALSE])]
  /\ UNCHANGED <<server, candidates, queue, ticked>>
(* recordRun: the next person's dialog starts with everything ticked.          *)
Answered ==
  /\ post[Page].pc \in {"ok", "refused"}
  /\ researching' = FALSE
  /\ queue' = IF post[Page].pc = "ok" /\ queue # <<>> THEN Tail(queue) ELSE queue
  /\ ticked' = IF queue' # queue /\ queue' # <<>> THEN queue'[1].outgoing ELSE ticked
  /\ post' = [post EXCEPT ![Page] = Idle]
  /\ UNCHANGED <<server, candidates, posts>>

-----------------------------------------------------------------------------
(* POST /api/views/pmf.  runResearch checks and reads the cache in one turn;   *)
(* it awaits each provider, and merges the answer into the file in one turn.   *)
page == <<candidates, queue, ticked, researching, posts>>
To(r, pc) == post' = [post EXCEPT ![r].pc = pc]
ApiCall(r, w) ==
  /\ r \in Callers /\ post[r].pc \in {"idle", "ok", "refused"} /\ Post
  /\ post' = [post EXCEPT ![r] = Asked(w)]
  /\ UNCHANGED <<server, candidates, queue, ticked, researching>>
LoadUser(r) ==
  /\ post[r].pc = "load"
  /\ LET p == post[r].person IN
     post' = [post EXCEPT ![r].pc = IF country[p] = "gone" THEN "refused" ELSE "check", ![r].row = country[p]]
  /\ UNCHANGED <<page, server>>
runResearch(r) ==
  LET q == post[r]
      approved == approveOutgoingFields(q.person, q.row, q.fields)
      key == cacheKey(q.person, approved)
  IN /\ q.pc = "check"
     /\ post' = [post EXCEPT ![r] =
          IF approved = {} THEN [q EXCEPT !.pc = "refused"]
          ELSE IF ~q.refresh /\ key \in DOMAIN cache THEN [q EXCEPT !.pc = "ok", !.result = cache[key]]
          ELSE [q EXCEPT !.pc = IF provider = "web_search" THEN "web" ELSE "wiki", !.result = approved]]
     /\ UNCHANGED <<page, server>>
(* The query leaves, unless the configured address is refused before.  A web   *)
(* search that fails asks the encyclopedia; an encyclopedia that says no is an *)
(* answer without claims, one that does not answer an error.                   *)
Leave(r, to) == sent' = sent \cup {[by |-> r, to |-> to, person |-> post[r].person, fields |-> post[r].result,
                                       approved |-> post[r].fields]}
searchWeb(r) ==
  /\ post[r].pc = "web" /\ UNCHANGED <<page, country, cache, provider, edits>>
  /\ \/ Leave(r, "web search") /\ \E pc \in {"store", "wiki"} : To(r, pc)
     \/ UNCHANGED sent /\ To(r, "wiki")
searchEncyclopedia(r) ==
  /\ post[r].pc = "wiki" /\ Leave(r, "encyclopedia")
  /\ \E pc \in {"store", "refused"} : To(r, pc)
  /\ UNCHANGED <<page, country, cache, provider, edits>>
writeCachedResearch(r) ==
  /\ post[r].pc = "store"
  /\ LET key == cacheKey(post[r].person, post[r].result) IN
     cache' = [k \in DOMAIN cache \cup {key} |-> IF k = key THEN post[r].result ELSE cache[k]]
  /\ To(r, "ok") /\ UNCHANGED <<page, country, sent, provider, edits>>

(* A source rewrites the row; the person is deleted: neither the row's edits   *)
(* nor purgePerson touch the file.                                             *)
Edit(p, c) ==
  /\ edits < MaxEdits /\ country[p] \notin {c, "gone"}
  /\ country' = [country EXCEPT ![p] = c] /\ edits' = edits + 1
  /\ UNCHANGED <<page, cache, post, sent, provider>>

Handler(r) == LoadUser(r) \/ runResearch(r) \/ searchWeb(r) \/ searchEncyclopedia(r) \/ writeCachedResearch(r)
Queues == {q \in {<<a>> : a \in candidates} \cup {<<a, b>> : a, b \in candidates} :
            Len(q) = 2 => q[1].person # q[2].person}
ResearchNext ==
  \/ loadCandidates \/ onClose \/ runApprovedResearch \/ Answered
  \/ \E q \in Queues : openDisclosure(q)
  \/ \E c \in Countries : Untick(<<"country", c>>)
  \/ \E r \in Callers, w \in Wishes : ApiCall(r, w)
  \/ \E r \in Callers \cup {Page} : Handler(r)
  \/ \E p \in Persons, c \in Countries \cup {"none", "gone"} : Edit(p, c)

ResearchSpec == ResearchInit /\ [][ResearchNext]_researchVars

-----------------------------------------------------------------------------
(* What leaves is what its caller approved, value by value, and never another  *)
(* field than a name and a country (approveOutgoingFields: a row that changed  *)
(* under the dialog is refused, not sent).                                     *)
OnlyApprovedLeaves ==
  \A s \in sent :
    /\ s.fields = s.approved /\ Name(s.person) \in s.fields
    /\ \A f \in s.fields : f[1] \in {"name", "country"}
(* The dialog that waits shows the person it searches for, so that the answer  *)
(* takes that person off the queue (recordRun drops the first).                *)
AnswerFitsTheDialog ==
  researching => queue # <<>> /\ queue[1].person = post[Page].person
(* An answer, of a provider or of the file, is to the fields that were         *)
(* approved (cacheKey).                                                        *)
AnswerIsToTheApproved ==
  \A r \in DOMAIN post : post[r].pc = "ok" => post[r].result = post[r].fields
(* Only what was approved leaves, an answer is to what was approved, and the   *)
(* dialog shows whom it asks for (approveOutgoingFields, cacheKey, onClose).   *)
ResearchHolds == OnlyApprovedLeaves /\ AnswerFitsTheDialog /\ AnswerIsToTheApproved

(* Why it holds: past approveOutgoingFields a request works on the fields it   *)
(* was made for, the file keeps every answer under the fields it answers, and  *)
(* only the dialog's own request and answer change what the page waits for.    *)
Steps == {"idle", "load", "check", "web", "wiki", "store", "ok", "refused"}
MayLeave(p, fields) == Name(p) \in fields /\ \A f \in fields : f[1] \in {"name", "country"}
RequestFits(q) ==
  /\ DOMAIN q = {"pc", "person", "fields", "refresh", "row", "result"}
  /\ q.pc \in Steps
  /\ q.pc \in {"web", "wiki", "store", "ok"} => q.result = q.fields
  /\ q.pc \in {"web", "wiki"} => MayLeave(q.person, q.fields)
PostsFit == DOMAIN post = Callers \cup {Page} /\ \A r \in DOMAIN post : RequestFits(post[r])
FileFits == \A k \in DOMAIN cache : cache[k] = k[2]
DialogFits == researching <=> post[Page].pc # "idle"
ResearchInv == PostsFit /\ FileFits /\ DialogFits /\ ResearchHolds
=============================================================================
