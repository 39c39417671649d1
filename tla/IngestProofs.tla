---------------------------- MODULE IngestProofs ----------------------------
(* What comes in.  NoGap of IncrementalPull for any events, whatever times     *)
(* they share, page sizes, page counts and numbers of interrupted pulls, in    *)
(* all three styles; then SdkDelivery for any events, batch size, number of        *)
(* attempts and failures: nothing tracked is lost, nothing is counted twice,   *)
(* nobody waits in vain.                                                       *)
EXTENDS IncrementalPull, SdkDelivery, FiniteSetTheorems, SequenceTheorems, TLAPS

(* Split, Covered, Known and Position without variables: cut stands for seams, *)
(* seen for remote and cap for capped, so that one fact serves a state and    *)
(* the next.                                                                  *)
Excused(st, cut, e, have) ==
  st # "from" /\ TimeOf[e] \in cut /\ \E f \in have : TimeOf[f] = TimeOf[e]
Behind(st, e, t) == IF st = "from" THEN TimeOf[e] < t ELSE TimeOf[e] <= t
AllIn(st, cut, t, have, seen, cap) ==
  ~cap => \A e \in seen : Behind(st, e, t) => e \in have \/ Excused(st, cut, e, have)
TimeIn(cut, t, seen) == t = 0 \/ (t \in cut /\ \E e \in seen : TimeOf[e] = t)
Means(st, cut, cur, have, seen, cap) ==
  /\ TimeIn(cut, cur.since, seen) /\ TimeIn(cut, cur.after, seen) /\ cur.rest \subseteq seen
  /\ cur.phase = "caught_up" => ~cur.paged /\ AllIn(st, cut, cur.since, have, seen, cap)
  /\ cur.phase = "persons" => ~cur.paged
  /\ cur.phase # "caught_up" /\ ~cur.paged => cur.since = 0
  /\ cur.paged => IF st = "link"
                    THEN /\ AllIn(st, cut, cur.since, have \cup cur.rest, seen, cap)
                         /\ \A e \in cur.rest : TimeOf[e] <= cur.since
                    ELSE AllIn(st, cut, cur.after, have, seen, cap)

RunMeans(st, cut, r, have, seen, cap) ==
  /\ r.pc \in InPersons \cup {"fetch", "savePage"} => Means(st, cut, r.cur, have, seen, cap)
  /\ r.pc \in InPersons => r.cur.phase = "persons"
  /\ r.pc = "savePersons" => r.cur.person + 1 < PersonPages
  /\ r.pc = "insert" =>
       IF r.more THEN Means(st, cut, r.cur, have \cup r.batch, seen, cap)
       ELSE TimeIn(cut, r.cur.since, seen) /\ AllIn(st, cut, r.cur.since, have \cup r.batch, seen, cap)
  /\ r.pc = "saveDone" => TimeIn(cut, r.cur.since, seen) /\ AllIn(st, cut, r.cur.since, have, seen, cap)
  /\ r.batch \subseteq seen

Meaning == Means(style, seams, slot, stored, remote, capped) /\ RunMeans(style, seams, run, stored, remote, capped)

LEMMA MeaningIsInvariant == IInv <=> TypeOK /\ Meaning
  BY DEF IInv, Meaning, Means, RunMeans, AllIn, TimeIn, Behind, Excused, Position, RunPosition,
         Covered, Known, Passed, SplitIn

-----------------------------------------------------------------------------
(* More rows, more pages' ends, or a pull that ran out of pages, keep what a  *)
(* cursor stands for.                                                         *)
LEMMA Weaker ==
  ASSUME NEW cur, NEW have, NEW more, NEW seen, NEW cap \in BOOLEAN, NEW cap2 \in BOOLEAN,
         NEW cut, NEW cut2, have \subseteq more, cut \subseteq cut2, cap => cap2,
         Means(style, cut, cur, have, seen, cap)
  PROVE  Means(style, cut2, cur, more, seen, cap2)
<1>1. \A t, any, any2 : any \subseteq any2 =>
        /\ TimeIn(cut, t, seen) => TimeIn(cut2, t, seen)
        /\ AllIn(style, cut, t, any, seen, cap) => AllIn(style, cut2, t, any2, seen, cap2)
  BY DEF TimeIn, AllIn, Excused
<1>2. have \cup cur.rest \subseteq more \cup cur.rest
  OBVIOUS
<1> QED BY <1>1, <1>2 DEF Means

(* An event that arrives is later than every time a cursor knows, or shares   *)
(* the time a page ended at with an event that is stored, so it leaves every   *)
(* cursor true.                                                               *)
LEMMA ArrivalIsLater ==
  ASSUME NEW seen \in SUBSET Events, NEW new \in Events \ seen,
         \A f \in seen : TimeOf[f] <= TimeOf[new],
         NEW t \in 0..MaxTime, TimeIn(seams, t, seen), NEW have, NEW cap \in BOOLEAN
  PROVE  /\ TimeIn(seams, t, seen \cup {new})
         /\ AllIn(style, seams, t, have, seen, cap) => AllIn(style, seams, t, have, seen \cup {new}, cap)
<1>1. TimeOf[new] \in 1..MaxTime /\ \A e \in seen : TimeOf[e] \in 1..MaxTime
  BY PullAssumption
<1>2. CASE t = 0
  <2>1. ~Behind(style, new, t)
    BY <1>1, <1>2 DEF Behind
  <2> QED BY <1>2, <2>1 DEF TimeIn, AllIn
<1>3. CASE t # 0
  <2>1. PICK f \in seen : TimeOf[f] = t
    BY <1>3 DEF TimeIn
  <2>2. t \in seams
    BY <1>3 DEF TimeIn
  <2>3. ASSUME AllIn(style, seams, t, have, seen, cap), ~cap, Behind(style, new, t)
        PROVE  Excused(style, seams, new, have)
    <3>1. style # "from" /\ TimeOf[new] = t
      BY <1>1, <2>1, <2>3 DEF Behind
    <3>2. Behind(style, f, t)
      BY <1>1, <2>1, <3>1 DEF Behind
    <3>3. f \in have \/ Excused(style, seams, f, have)
      BY <2>3, <3>2 DEF AllIn
    <3> QED BY <2>1, <2>2, <3>1, <3>3 DEF Excused
  <2> QED BY <1>3, <2>2, <2>1, <2>3 DEF TimeIn, AllIn
<1> QED BY <1>2, <1>3

LEMMA ArrivalKeepsMeaning ==
  ASSUME NEW seen \in SUBSET Events, NEW new \in Events \ seen,
         \A f \in seen : TimeOf[f] <= TimeOf[new],
         NEW cur \in Cursor, NEW have, NEW cap \in BOOLEAN, Means(style, seams, cur, have, seen, cap)
  PROVE  Means(style, seams, cur, have, seen \cup {new}, cap)
<1>1. cur.since \in 0..MaxTime /\ cur.after \in 0..MaxTime
  BY DEF Cursor
<1>2. \A t \in {cur.since, cur.after} : TimeIn(seams, t, seen)
  BY DEF Means
<1>3. \A t \in {cur.since, cur.after}, any \in {have, have \cup cur.rest} :
        /\ TimeIn(seams, t, seen \cup {new})
        /\ AllIn(style, seams, t, any, seen, cap) => AllIn(style, seams, t, any, seen \cup {new}, cap)
  <2> SUFFICES ASSUME NEW t \in {cur.since, cur.after}, NEW any
               PROVE  /\ TimeIn(seams, t, seen \cup {new})
                      /\ AllIn(style, seams, t, any, seen, cap) => AllIn(style, seams, t, any, seen \cup {new}, cap)
    OBVIOUS
  <2>1. t \in 0..MaxTime /\ TimeIn(seams, t, seen)
    BY <1>1, <1>2
  <2> QED BY <2>1, ArrivalIsLater
<1> QED BY <1>3 DEF Means

LEMMA ArrivalKeepsRun ==
  ASSUME NEW seen \in SUBSET Events, NEW new \in Events \ seen,
         \A f \in seen : TimeOf[f] <= TimeOf[new],
         NEW r \in Run, NEW have, NEW cap \in BOOLEAN, RunMeans(style, seams, r, have, seen, cap)
  PROVE  RunMeans(style, seams, r, have, seen \cup {new}, cap)
<1>1. r.cur \in Cursor /\ r.cur.since \in 0..MaxTime
  BY DEF Run, Cursor
<1>2. \A any \in {have, have \cup r.batch} :
        Means(style, seams, r.cur, any, seen, cap) => Means(style, seams, r.cur, any, seen \cup {new}, cap)
  BY <1>1, ArrivalKeepsMeaning
<1>3. \A any \in {have, have \cup r.batch} : TimeIn(seams, r.cur.since, seen) =>
        /\ TimeIn(seams, r.cur.since, seen \cup {new})
        /\ AllIn(style, seams, r.cur.since, any, seen, cap) => AllIn(style, seams, r.cur.since, any, seen \cup {new}, cap)
  BY <1>1, ArrivalIsLater
<1> QED BY <1>2, <1>3 DEF RunMeans

-----------------------------------------------------------------------------
(* A page of events: what it leaves out is what its own position says is      *)
(* still to come.                                                             *)
LEMMA PageKeepsMeaning ==
  ASSUME TypeOK, NEW cur \in Cursor, NEW cut, Means(style, cut, cur, stored, remote, capped),
         NEW page \in Pages(Answer(cur)), NEW since \in 0..MaxTime, NEW after \in 0..MaxTime,
         IsLatest(since, cur.since, page), IsLatest(after, Bound(cur), page),
         {since, after} \subseteq cut, NEW next, next = [phase |-> "events", person |-> 0, paged |-> TRUE, after |-> after,
                           since |-> since,
                           rest |-> IF style = "link" THEN Answer(cur) \ page ELSE {}]
  PROVE  /\ page \subseteq remote
         /\ IF More(Answer(cur), page) THEN Means(style, cut, next, stored \cup page, remote, capped)
            ELSE /\ TimeIn(cut, since, remote) /\ AllIn(style, cut, since, stored \cup page, remote, capped)
<1> DEFINE answer == Answer(cur)
<1>0. style \in {"link", "above", "from"}
  BY PullAssumption DEF TypeOK
<1>1. page \subseteq answer /\ answer \subseteq remote
  BY <1>0 DEF Pages, Answer, Means
<1>2. \A e \in Events : TimeOf[e] \in 1..MaxTime
  BY PullAssumption
<1>3. \A e \in remote : e \in Events
  BY DEF TypeOK
<1>4. cur.since \in 0..MaxTime /\ cur.after \in 0..MaxTime /\ Bound(cur) \in 0..MaxTime
  BY PullAssumption DEF Cursor, Bound
<1>5. TimeIn(cut, since, remote) /\ TimeIn(cut, after, remote)
  <2>1. TimeIn(cut, cur.since, remote) /\ TimeIn(cut, Bound(cur), remote)
    BY DEF Means, Bound, TimeIn
  <2> QED BY <1>1, <2>1 DEF IsLatest, TimeIn
<1>6. page # answer => page # {}
  <2>1. Cardinality({}) = 0
    BY FS_EmptySet
  <2> QED BY <2>1, PullAssumption DEF Pages
<1>7. since >= cur.since /\ after >= Bound(cur)
      /\ \A e \in page : TimeOf[e] <= since /\ TimeOf[e] <= after
  BY DEF IsLatest
<1>8. next.since = since /\ next.after = after /\ next.phase = "events" /\ next.paged
      /\ next.rest = IF style = "link" THEN answer \ page ELSE {}
  OBVIOUS
(* PostHog: what the link still lists is older than the watermark.            *)
<1>9. CASE style = "link"
  <2>1. AllIn(style, cut, since, stored \cup answer, remote, capped)
    <3>1. CASE cur.paged
      <4>1. answer = cur.rest /\ \A e \in answer : TimeOf[e] <= cur.since
        BY <1>9, <3>1 DEF Answer, Means
      <4>2. since = cur.since
        BY <1>1, <1>4, <4>1 DEF IsLatest
      <4> QED BY <1>9, <3>1, <4>1, <4>2 DEF Means
    <3>2. CASE ~cur.paged
      <4>1. answer = {e \in remote : TimeOf[e] > cur.since}
        BY <1>9, <3>2 DEF Answer
      <4>2. AllIn(style, cut, cur.since, stored, remote, capped)
        BY <1>2, <1>3, <1>9, <3>2 DEF Means, AllIn, Behind
      <4> QED BY <1>2, <1>3, <1>4, <1>9, <4>1, <4>2 DEF AllIn, Behind, Excused
    <3> QED BY <3>1, <3>2
  <2>2. ASSUME NEW f \in answer \ page PROVE TimeOf[f] <= since
    <3>1. PICK e \in page : TRUE
      BY <1>6
    <3>2. TimeOf[e] >= TimeOf[f]
      BY <1>9, <3>1 DEF Pages
    <3> QED BY <1>1, <1>2, <1>3, <1>7, <3>1, <3>2
  <2>3. CASE More(answer, page)
    <3>1. stored \cup answer = (stored \cup page) \cup next.rest
      BY <1>1, <1>8, <1>9
    <3>2. AllIn(style, cut, since, (stored \cup page) \cup next.rest, remote, capped)
      BY <2>1, <3>1
    <3>3. next.rest \subseteq remote /\ \A e \in next.rest : TimeOf[e] <= since
      BY <1>1, <1>8, <1>9, <2>2
    <3> HIDE DEF answer
    <3>4. Means(style, cut, next, stored \cup page, remote, capped)
      BY <1>5, <1>8, <1>9, <3>2, <3>3 DEF Means
    <3> QED BY <1>1, <2>3, <3>4 DEF answer
  <2>4. CASE ~More(answer, page)
    <3>1. page = answer
      BY <1>6, <1>9, <2>4 DEF More
    <3> QED BY <1>1, <1>5, <2>1, <2>4, <3>1
  <2> QED BY <2>3, <2>4
(* Mixpanel and Amplitude: everything behind the page's last time is stored,   *)
(* but for the events a full page splits from those of that time.             *)
<1>10. CASE style # "link"
  <2>1. AllIn(style, cut, Bound(cur), stored, remote, capped)
    <3>1. \A e \in remote : ~Behind(style, e, 0)
      BY <1>2, <1>3 DEF Behind
    <3> QED BY <1>10, <3>1 DEF Bound, Means, AllIn
  <2>2. \A e \in remote : e \in answer \/ Behind(style, e, Bound(cur))
    BY <1>0, <1>2, <1>3, <1>4, <1>10 DEF Answer, Behind
  <2>3. \A e \in remote : ~capped =>
          e \in answer \/ e \in stored \cup page \/ Excused(style, cut, e, stored \cup page)
    BY <2>1, <2>2 DEF AllIn, Excused
  <2>4. CASE More(answer, page)
    <3>1. AllIn(style, cut, after, stored \cup page, remote, capped)
      <4> SUFFICES ASSUME ~capped, NEW e \in remote, Behind(style, e, after), e \notin stored \cup page,
                          e \in answer
                   PROVE  Excused(style, cut, e, stored \cup page)
        BY <2>3 DEF AllIn
      <4>1. after # Bound(cur)
        BY <1>0, <1>2, <1>3, <1>4, <1>10 DEF Answer, Behind
      <4>2. PICK p \in page : TimeOf[p] = after
        BY <4>1 DEF IsLatest
      <4>3. TimeOf[p] <= TimeOf[e]
        BY <1>10, <4>2 DEF Pages
      <4>4. style # "from" /\ TimeOf[e] = after
        BY <1>2, <1>3, <1>4, <4>2, <4>3 DEF Behind
      <4> QED BY <4>2, <4>4 DEF Excused
    <3>2. next.rest = {}
      BY <1>8, <1>10
    <3> HIDE DEF answer
    <3>3. Means(style, cut, next, stored \cup page, remote, capped)
      BY <1>5, <1>8, <1>10, <3>1, <3>2 DEF Means
    <3> QED BY <1>1, <2>4, <3>3 DEF answer
  <2>5. CASE ~More(answer, page)
    <3>1. page = answer
      BY <1>10, <2>5, PullAssumption DEF More, Pages
    <3>2. AllIn(style, cut, since, stored \cup page, remote, capped)
      BY <2>3, <3>1 DEF AllIn
    <3> QED BY <1>1, <1>5, <2>5, <3>2
  <2> QED BY <2>4, <2>5
<1> QED BY <1>9, <1>10

-----------------------------------------------------------------------------
LEMMA TypeStep ==
  ASSUME TypeOK, run.pc = "savePersons" => run.cur.person + 1 < PersonPages, [Next]_vars
  PROVE  TypeOK'
<1>1. Beginning \in Cursor /\ IdleRun \in Run /\ TypeOK
  BY PullAssumption DEF Beginning, Cursor, IdleRun, Run
<1>2. \A t \in 0..MaxTime : CaughtUp(t) \in Cursor
  BY <1>1 DEF CaughtUp, Cursor
<1>3. /\ run.cur \in Cursor /\ run.cur.since \in 0..MaxTime /\ run.batch \subseteq Events
      /\ run.pages \in Nat /\ run.cur.person \in 0..(PersonPages - 1)
  BY <1>1 DEF TypeOK, Run, Cursor
<1>4. CASE Arrive
  BY <1>1, <1>4 DEF Arrive, pullHistory, TypeOK
<1>5. ASSUME NEW full \in BOOLEAN, Begin(full)
      PROVE  TypeOK'
  <2>1. PICK cur \in {slot, Beginning} :
          run' = [IdleRun EXCEPT !.cur = cur,
                    !.pc = IF cur.phase = "persons" THEN "persons" ELSE "fetch"]
    BY <1>5 DEF Begin
  <2>2. run' \in Run
    <3>1. cur \in Cursor
      BY <1>1, <2>1 DEF TypeOK
    <3> QED BY <1>1, <2>1, <3>1 DEF Run
  <2>3. began' \in {"beginning", "page", "watermark"} /\ seams' = seams /\ had' = remote
    BY <1>5 DEF Begin, AskedFirst
  <2> QED BY <1>1, <1>5, <2>2, <2>3 DEF Begin, TypeOK
<1>6. CASE ImportPersons
  <2>1. run' \in Run
    BY <1>1, <1>6 DEF ImportPersons, TypeOK, Run
  <2>2. people' \subseteq 0..(PersonPages - 1)
    BY <1>1, <1>3, <1>6 DEF ImportPersons, pullHistory, TypeOK
  <2> QED BY <1>1, <1>6, <2>1, <2>2 DEF ImportPersons, pullHistory, TypeOK
<1>7. ASSUME NEW here \in [again : {"persons", "fetch"}, past : {"leavePersons", "saveDone"}],
             NextPage(here), slot' \in Cursor
      PROVE  run' \in Run /\ capped' \in BOOLEAN
  <2> DEFINE pc == IF run.pages + 1 < MaxPages THEN here.again ELSE here.past
             last == run.pages + 1 >= MaxPages
  <2>1. pc \in {"persons", "fetch", "leavePersons", "saveDone"}
    OBVIOUS
  <2>2. run.pages + 1 \in Nat
    BY <1>3
  <2>3. run' = [run EXCEPT !.pages = @ + 1, !.cur = slot', !.pc = pc]
        /\ capped' = (capped \/ last)
    BY <1>7 DEF NextPage
  <2>4. capped \in BOOLEAN /\ run \in Run
    BY <1>1 DEF TypeOK
  <2> HIDE DEF pc, last
  <2>5. capped' \in BOOLEAN
    BY <2>3, <2>4, Zenon
  <2>6. run' \in Run
    BY <1>7, <2>1, <2>2, <2>3, <2>4 DEF Run
  <2> QED BY <2>5, <2>6
<1>8. CASE SavePersons
  <2>1. run.cur.person + 1 \in 0..(PersonPages - 1)
    BY <1>3, <1>8, PullAssumption DEF SavePersons
  <2>2. slot' \in Cursor
    BY <1>1, <1>3, <1>8, <2>1 DEF SavePersons, Cursor
  <2>3. run' \in Run /\ capped' \in BOOLEAN
    BY <1>7, <1>8, <2>2 DEF SavePersons
  <2> QED BY <1>1, <1>8, <2>2, <2>3 DEF SavePersons, pullHistory, TypeOK
<1>9. CASE LeavePersons
  <2>1. slot' \in Cursor
    BY <1>1, <1>3, <1>9 DEF LeavePersons, Cursor
  <2>2. run' \in Run
    BY <1>1, <1>9, <2>1 DEF LeavePersons, TypeOK, Run
  <2> QED BY <1>1, <1>9, <2>1, <2>2 DEF LeavePersons, pullHistory, TypeOK
<1>10. CASE SavePage
  <2>1. slot' \in Cursor
    BY <1>3, <1>10 DEF SavePage
  <2>2. run' \in Run /\ capped' \in BOOLEAN
    BY <1>7, <1>10, <2>1 DEF SavePage
  <2> QED BY <1>1, <1>10, <2>1, <2>2 DEF SavePage, pullHistory, TypeOK
<1>11. CASE FetchEvents
  <2>1. PICK page \in Pages(Answer(run.cur)), since \in 0..MaxTime, after \in 0..MaxTime :
          /\ run' = [run EXCEPT !.pc = "insert", !.batch = page, !.more = More(Answer(run.cur), page),
                       !.cur = [phase |-> "events", person |-> 0, paged |-> TRUE,
                                after |-> after, since |-> since,
                                rest |-> IF style = "link" THEN Answer(run.cur) \ page ELSE {}]]
          /\ seams' = seams \cup {since, after}
    BY <1>11, Zenon DEF FetchEvents
  <2>2. Answer(run.cur) \subseteq Events /\ page \subseteq Answer(run.cur)
    BY <1>1, <1>3, PullAssumption DEF Answer, Pages, TypeOK, Cursor
  <2>3. More(Answer(run.cur), page) \in BOOLEAN
    <3>1. CASE style = "link"
      BY <3>1, Zenon DEF More
    <3>2. CASE style # "link"
      BY <3>2, SMT DEF More
    <3> QED BY <3>1, <3>2
  <2> DEFINE cur == [phase |-> "events", person |-> 0, paged |-> TRUE,
                     after |-> after, since |-> since,
                     rest |-> IF style = "link" THEN Answer(run.cur) \ page ELSE {}]
  <2>4. cur \in Cursor
    BY <2>2, PullAssumption DEF Cursor
  <2> HIDE DEF cur
  <2>5. run' = [run EXCEPT !.pc = "insert", !.batch = page, !.more = More(Answer(run.cur), page),
                  !.cur = cur]
    BY <2>1 DEF cur
  <2>6. run' \in Run
    BY <1>1, <2>2, <2>3, <2>4, <2>5 DEF TypeOK, Run
  <2>7. seams' \subseteq 0..MaxTime
    BY <1>1, <2>1 DEF TypeOK
  <2> QED BY <1>1, <1>11, <2>6, <2>7 DEF FetchEvents, TypeOK
<1>12. CASE InsertEvents
  BY <1>1, <1>3, <1>12 DEF InsertEvents, pullHistory, TypeOK, Run
<1>13. CASE SaveDone
  BY <1>1, <1>2, <1>3, <1>13 DEF SaveDone, pullHistory, TypeOK
<1>14. CASE Stop
  <2>1. stored' \subseteq Events
    BY <1>1, <1>3, <1>14 DEF Stop, pullHistory, TypeOK
  <2> QED BY <1>1, <1>14, <2>1, PullAssumption DEF Stop, pullHistory, TypeOK
<1>15. CASE UNCHANGED vars
  BY <1>1, <1>15 DEF vars, pullHistory, TypeOK
<1> QED BY <1>4, <1>5, <1>6, <1>8, <1>9, <1>10, <1>11, <1>12, <1>13, <1>14, <1>15 DEF Next, Pull

(* Every step leaves the stored cursor, and the one the pull holds, true.     *)
LEMMA MeaningStep ==
  ASSUME IInv, [Next]_vars
  PROVE  Meaning'
<1>1. TypeOK /\ Meaning /\ TypeOK'
  BY MeaningIsInvariant, TypeStep DEF IInv, RunPosition
<1>2. /\ slot \in Cursor /\ run \in Run /\ run.cur \in Cursor /\ remote \in SUBSET Events
      /\ capped \in BOOLEAN
  BY <1>1 DEF TypeOK, Run
<1>3. \A have, seen, cap : RunMeans(style, seams, IdleRun, have, seen, cap)
  BY DEF RunMeans, IdleRun, InPersons
<1>4. \A have, seen, cap : Means(style, seams, Beginning, have, seen, cap)
  BY DEF Means, Beginning, TimeIn
<1>5. CASE Arrive
  <2>1. PICK new \in Events \ remote :
          (\A f \in remote : TimeOf[f] <= TimeOf[new]) /\ remote' = remote \cup {new}
    BY <1>5 DEF Arrive
  <2>2. Means(style, seams, slot, stored, remote', capped)
    BY <1>1, <1>2, <2>1, ArrivalKeepsMeaning DEF Meaning
  <2>3. RunMeans(style, seams, run, stored, remote', capped)
    BY <1>1, <1>2, <2>1, ArrivalKeepsRun DEF Meaning
  <2> QED BY <1>5, <2>2, <2>3 DEF Arrive, pullHistory, Meaning
<1>6. ASSUME NEW full \in BOOLEAN, Begin(full)
      PROVE  Meaning'
  <2>1. PICK cur \in {slot, Beginning} :
          run' = [IdleRun EXCEPT !.cur = cur,
                    !.pc = IF cur.phase = "persons" THEN "persons" ELSE "fetch"]
    BY <1>6 DEF Begin
  <2>2. Means(style, seams, cur, stored, remote, capped)
    BY <1>1, <1>4, <2>1 DEF Meaning
  <2>3. run'.cur = cur /\ run'.batch = {} /\ run'.pc \in {"persons", "fetch"}
        /\ (run'.pc = "persons" => cur.phase = "persons")
    BY <2>1 DEF IdleRun
  <2>4. RunMeans(style, seams, run', stored, remote, capped)
    BY <2>2, <2>3 DEF RunMeans, InPersons
  <2> QED BY <1>1, <1>6, <2>4 DEF Begin, Meaning
<1>7. CASE ImportPersons
  <2>1. /\ run'.cur = run.cur /\ run'.batch = run.batch /\ run'.pc \in {"savePersons", "leavePersons"}
        /\ (run'.pc = "savePersons" => run.cur.person + 1 < PersonPages)
    BY <1>2, <1>7 DEF ImportPersons, Run
  <2>2. RunMeans(style, seams, run', stored, remote, capped)
    BY <1>1, <1>7, <2>1 DEF ImportPersons, pullHistory, Meaning, RunMeans, InPersons
  <2> QED BY <1>1, <1>7, <2>2 DEF ImportPersons, pullHistory, Meaning
(* The cursor a step saves, and holds afterwards.                             *)
<1>8. ASSUME NEW here, here.again \in {"persons", "fetch"}, here.past \in {"leavePersons", "saveDone"},
             here.again = "persons" <=> here.past = "leavePersons",
             NextPage(here), slot' \in Cursor, Means(style, seams, slot', stored, remote, capped),
             here.again = "persons" => slot'.phase = "persons",
             UNCHANGED <<style, stored, remote, seams>>, run.batch \subseteq remote
      PROVE  Meaning'
  <2>1. capped' \in BOOLEAN /\ (capped => capped')
    BY <1>2, <1>8 DEF NextPage
  <2>2. Means(style, seams, slot', stored, remote, capped')
    BY <1>2, <1>8, <2>1, Weaker
  <2>3. run'.cur = slot' /\ run'.batch = run.batch
        /\ run'.pc = IF run.pages + 1 < MaxPages THEN here.again ELSE here.past
    BY <1>2, <1>8 DEF NextPage, Run
  <2>4. ~(run.pages + 1 < MaxPages) => capped'
    <3>1. run.pages \in Nat /\ MaxPages \in Nat
      BY <1>2, PullAssumption DEF Run
    <3>2. ~(run.pages + 1 < MaxPages) => run.pages + 1 >= MaxPages
      BY <3>1
    <3>3. capped' = (capped \/ run.pages + 1 >= MaxPages)
      BY <1>8, Zenon DEF NextPage
    <3> QED BY <3>2, <3>3, Zenon
  <2>5. RunMeans(style, seams, run', stored, remote, capped')
    BY <1>8, <2>2, <2>3, <2>4 DEF RunMeans, InPersons, Means, AllIn
  <2> QED BY <1>8, <2>2, <2>5 DEF Meaning
<1>9. CASE SavePersons
  <2>1. slot' \in Cursor
    BY <1>1 DEF TypeOK
  <2>2. Means(style, seams, run.cur, stored, remote, capped) /\ run.cur.phase = "persons" /\ run.batch \subseteq remote
    BY <1>1, <1>9 DEF SavePersons, Meaning, RunMeans, InPersons
  <2>3. Means(style, seams, slot', stored, remote, capped) /\ slot'.phase = "persons"
    BY <1>2, <1>9, <2>2 DEF SavePersons, Means, Cursor
  <2> QED BY <1>8, <1>9, <2>1, <2>2, <2>3 DEF SavePersons, pullHistory
<1>10. CASE LeavePersons
  <2>1. Means(style, seams, run.cur, stored, remote, capped) /\ run.cur.phase = "persons" /\ run.batch \subseteq remote
    BY <1>1, <1>10 DEF LeavePersons, pullHistory, Meaning, RunMeans, InPersons
  <2>2. run.cur.since = 0
    BY <2>1 DEF Means
  <2>3. slot'.since = 0 /\ slot'.after = 0 /\ slot'.rest = {} /\ slot'.phase = "events" /\ ~slot'.paged
    BY <1>10, <2>2 DEF LeavePersons, Beginning
  <2>4. Means(style, seams, slot', stored, remote, capped)
    BY <2>3 DEF Means, TimeIn
  <2>5. run'.cur = slot' /\ run'.batch = run.batch /\ run'.pc = "fetch"
    BY <1>2, <1>10 DEF LeavePersons, Run
  <2>6. RunMeans(style, seams, run', stored, remote, capped)
    BY <2>1, <2>4, <2>5 DEF RunMeans, InPersons
  <2> QED BY <1>10, <2>4, <2>6 DEF LeavePersons, pullHistory, Meaning
<1>11. CASE FetchEvents
  <2>1. Means(style, seams, run.cur, stored, remote, capped)
    BY <1>1, <1>11 DEF FetchEvents, Meaning, RunMeans
  <2>2. PICK page \in Pages(Answer(run.cur)), since \in 0..MaxTime, after \in 0..MaxTime :
          /\ IsLatest(since, run.cur.since, page)
          /\ IsLatest(after, Bound(run.cur), page)
          /\ run' = [run EXCEPT !.pc = "insert", !.batch = page, !.more = More(Answer(run.cur), page),
                       !.cur = [phase |-> "events", person |-> 0, paged |-> TRUE,
                                after |-> after, since |-> since,
                                rest |-> IF style = "link" THEN Answer(run.cur) \ page ELSE {}]]
          /\ seams' = seams \cup {since, after}
    BY <1>11, Zenon DEF FetchEvents
  <2> DEFINE next == [phase |-> "events", person |-> 0, paged |-> TRUE,
                      after |-> after, since |-> since,
                      rest |-> IF style = "link" THEN Answer(run.cur) \ page ELSE {}]
  <2>3. /\ page \subseteq remote
        /\ IF More(Answer(run.cur), page) THEN Means(style, seams', next, stored \cup page, remote, capped)
           ELSE TimeIn(seams', since, remote) /\ AllIn(style, seams', since, stored \cup page, remote, capped)
    <3>1. Means(style, seams', run.cur, stored, remote, capped)
      BY <1>2, <2>1, <2>2, Weaker
    <3>2. /\ page \in Pages(Answer(run.cur)) /\ since \in 0..MaxTime /\ after \in 0..MaxTime
          /\ IsLatest(since, run.cur.since, page) /\ IsLatest(after, Bound(run.cur), page)
          /\ {since, after} \subseteq seams'
      BY <2>2
    <3> QED BY <1>1, <1>2, <3>1, <3>2, PageKeepsMeaning
  <2>4. next.since = since
    OBVIOUS
  <2> HIDE DEF next
  <2>5. /\ run'.pc = "insert" /\ run'.batch = page /\ run'.more = More(Answer(run.cur), page)
        /\ run'.cur = next
    BY <1>2, <2>2 DEF Run, next
  <2>6. RunMeans(style, seams', run', stored, remote, capped)
    BY <2>3, <2>4, <2>5 DEF RunMeans, InPersons
  <2>7. Means(style, seams', slot, stored, remote, capped)
    BY <1>1, <1>2, <2>2, Weaker DEF Meaning
  <2> QED BY <1>1, <1>11, <2>6, <2>7 DEF FetchEvents, Meaning
<1>12. CASE InsertEvents
  <2>1. /\ run'.cur = run.cur /\ run'.batch = {}
        /\ run'.pc = IF run.more THEN "savePage" ELSE "saveDone"
    BY <1>2, <1>12 DEF InsertEvents, Run
  <2>2. RunMeans(style, seams, run', stored', remote, capped)
    BY <1>1, <1>12, <2>1 DEF InsertEvents, pullHistory, Meaning, RunMeans, InPersons
  <2>3. Means(style, seams, slot, stored', remote, capped)
    BY <1>1, <1>2, <1>12, Weaker DEF InsertEvents, Meaning
  <2> QED BY <1>12, <2>2, <2>3 DEF InsertEvents, pullHistory, Meaning
<1>13. CASE SavePage
  <2>1. slot' \in Cursor
    BY <1>1 DEF TypeOK
  <2>2. Means(style, seams, slot', stored, remote, capped) /\ run.batch \subseteq remote
    BY <1>1, <1>13 DEF SavePage, Meaning, RunMeans
  <2> QED BY <1>8, <1>13, <2>1, <2>2 DEF SavePage, pullHistory
<1>14. CASE SaveDone
  <2>1. TimeIn(seams, run.cur.since, remote) /\ AllIn(style, seams, run.cur.since, stored, remote, capped)
    BY <1>1, <1>14 DEF SaveDone, pullHistory, Meaning, RunMeans
  <2>2. /\ slot'.phase = "caught_up" /\ slot'.since = run.cur.since /\ slot'.after = 0
        /\ ~slot'.paged /\ slot'.rest = {}
    BY <1>14 DEF SaveDone, CaughtUp, Beginning
  <2>3. Means(style, seams, slot', stored, remote, capped)
    BY <2>1, <2>2 DEF Means, TimeIn
  <2> QED BY <1>3, <1>14, <2>3 DEF SaveDone, pullHistory, Meaning
<1>15. CASE Stop
  <2>1. stored \subseteq stored'
    BY <1>15 DEF Stop
  <2>2. Means(style, seams, slot, stored', remote, capped)
    BY <1>1, <1>2, <2>1, Weaker DEF Meaning
  <2> QED BY <1>3, <1>15, <2>2 DEF Stop, pullHistory, Meaning
<1>16. CASE UNCHANGED vars
  BY <1>1, <1>16 DEF vars, pullHistory, Meaning
<1> QED BY <1>5, <1>6, <1>7, <1>9, <1>10, <1>11, <1>12, <1>13, <1>14, <1>15, <1>16 DEF Next, Pull

(* The invariant, whatever timestamps events share.                           *)
THEOREM PullInductive == Spec => []IInv
<1>1. Init => IInv
  <2> SUFFICES ASSUME Init PROVE IInv
    OBVIOUS
  <2>1. Beginning \in Cursor /\ IdleRun \in Run
    BY PullAssumption DEF Beginning, Cursor, IdleRun, Run
  <2>2. TypeOK
    <3>1. 0 \in 0..MaxStops
      BY PullAssumption
    <3> QED BY <2>1, <3>1, Zenon DEF Init, TypeOK
  <2>3. Meaning
    BY DEF Init, Meaning, Means, RunMeans, Beginning, IdleRun, TimeIn, InPersons
  <2> QED BY <2>2, <2>3, MeaningIsInvariant
<1>2. IInv /\ [Next]_vars => IInv'
  <2> SUFFICES ASSUME IInv, [Next]_vars PROVE IInv'
    OBVIOUS
  <2>1. TypeOK' /\ Meaning'
    BY TypeStep, MeaningStep DEF IInv, RunPosition
  <2> QED BY <2>1 DEF IInv, Meaning, Means, RunMeans, AllIn, TimeIn, Behind, Excused, Position, RunPosition,
                    Covered, Known, Passed, SplitIn
<1> QED BY <1>1, <1>2, PTL DEF Spec

(* A caught-up cursor leaves no gap behind it, however pulls were cut short:   *)
(* but for events split from those of their time, all is stored or to come.   *)
THEOREM CaughtUpIsTrue == Spec => []NoGap
<1>1. IInv => NoGap
  <2>1. IInv => \A e \in remote : slot.since \in Nat /\ TimeOf[e] \in Nat
    <3>1. IInv => slot \in Cursor /\ remote \subseteq Events
      BY DEF IInv, TypeOK
    <3>2. IInv => slot.since \in 0..MaxTime
      BY <3>1 DEF Cursor
    <3> QED BY <3>1, <3>2, PullAssumption
  <2> QED BY <2>1 DEF IInv, Position, Covered, Passed, NoGap, ToCome, Split
<1>2. Spec => []IInv
  BY PullInductive
<1> QED BY <1>1, <1>2, PTL

-----------------------------------------------------------------------------
(* The persons' pages, whatever the timestamps.                               *)
LEMMA PersonsStep ==
  ASSUME PersonsInv, [Next]_vars
  PROVE  PersonsInv'
<1>1. TypeOK /\ Imported(slot) /\ RunImported /\ TypeOK'
  BY TypeStep DEF PersonsInv, RunImported
<1>2. /\ run \in Run /\ run.cur \in Cursor /\ slot \in Cursor /\ capped \in BOOLEAN
      /\ run.cur.person \in Nat /\ slot.person \in Nat /\ PersonPages \in Nat \ {0}
  BY <1>1, PullAssumption DEF TypeOK, Run, Cursor
<1> SUFFICES Imported(slot)' /\ RunImported'
  BY <1>1 DEF PersonsInv
<1>3. CASE UNCHANGED <<people, capped, slot, run>>
  BY <1>1, <1>3 DEF Imported, RunImported
<1>4. CASE Arrive \/ UNCHANGED vars
  BY <1>3, <1>4 DEF Arrive, vars
<1>5. ASSUME NEW full \in BOOLEAN, Begin(full)
      PROVE  Imported(slot)' /\ RunImported'
  <2>1. PICK cur \in {slot, Beginning} :
          run' = [IdleRun EXCEPT !.cur = cur,
                    !.pc = IF cur.phase = "persons" THEN "persons" ELSE "fetch"]
    BY <1>5 DEF Begin
  <2>2. Imported(cur)
    BY <1>1, <2>1 DEF Imported, Beginning
  <2>3. run'.cur = cur /\ run'.pc = IF cur.phase = "persons" THEN "persons" ELSE "fetch"
    BY <2>1 DEF IdleRun
  <2> QED BY <1>1, <1>5, <2>2, <2>3 DEF Begin, Imported, RunImported
<1>6. CASE ImportPersons
  <2>1. /\ run.pc = "persons" /\ people' = people \cup {run.cur.person}
        /\ run'.cur = run.cur /\ UNCHANGED <<slot, capped>>
        /\ run'.pc = IF run.cur.person + 1 < PersonPages THEN "savePersons" ELSE "leavePersons"
    BY <1>2, <1>6 DEF ImportPersons, Run
  <2> QED BY <1>1, <1>2, <2>1 DEF Imported, RunImported
<1>7. CASE SavePersons
  <2>1. /\ run.pc = "savePersons" /\ slot' = [run.cur EXCEPT !.person = @ + 1]
        /\ run'.cur = slot' /\ UNCHANGED people
    BY <1>2, <1>7 DEF SavePersons, NextPage, Run
  <2>2. slot'.phase = "persons" /\ slot'.person = run.cur.person + 1
    BY <1>1, <1>2, <2>1 DEF RunImported, Cursor
  <2>3. Imported(slot)'
    <3>1. capped => capped'
      BY <1>7, Zenon DEF SavePersons, NextPage
    <3>2. ASSUME ~capped, NEW p \in 0..(PersonPages - 1), p < run.cur.person + 1
          PROVE  p \in people
      <4>1. p < run.cur.person \/ p = run.cur.person
        BY <1>2, <3>2
      <4> QED BY <1>1, <2>1, <3>2, <4>1 DEF Imported, RunImported
    <3> QED BY <2>1, <2>2, <3>1, <3>2 DEF Imported
  <2>4. /\ run'.pc = "persons" \/ (run'.pc = "leavePersons" /\ capped')
    <3>1. run.pages \in Nat /\ MaxPages \in Nat
      BY <1>2, PullAssumption DEF Run
    <3>2. run.pages + 1 < MaxPages \/ run.pages + 1 >= MaxPages
      BY <3>1
    <3>3. run'.pc = IF run.pages + 1 < MaxPages THEN "persons" ELSE "leavePersons"
      BY <1>2, <1>7 DEF SavePersons, NextPage, Run
    <3>4. run.pages + 1 >= MaxPages => capped'
      BY <1>7, Zenon DEF SavePersons, NextPage
    <3> QED BY <3>2, <3>3, <3>4, Zenon
  <2> QED BY <1>1, <2>1, <2>2, <2>3, <2>4 DEF Imported, RunImported
<1>8. CASE LeavePersons
  <2>1. /\ run.pc = "leavePersons" /\ slot'.phase = "events" /\ run'.cur = slot'
        /\ run'.pc = "fetch" /\ UNCHANGED <<people, capped>>
    BY <1>2, <1>8 DEF LeavePersons, Beginning, Run
  <2>2. ASSUME ~capped, NEW p \in 0..(PersonPages - 1)
        PROVE  p \in people
    <3>1. p < run.cur.person \/ p = run.cur.person
      BY <1>1, <1>2, <2>1, <2>2 DEF RunImported
    <3> QED BY <1>1, <2>1, <2>2, <3>1 DEF Imported, RunImported
  <2> QED BY <2>1, <2>2 DEF Imported, RunImported
<1>9. CASE FetchEvents
  <2>1. /\ run.pc = "fetch" /\ run'.pc = "insert" /\ run'.cur.phase = "events"
        /\ UNCHANGED <<people, capped, slot>>
    BY <1>2, <1>9 DEF FetchEvents, Run
  <2> QED BY <1>1, <2>1 DEF Imported, RunImported
<1>10. CASE InsertEvents
  <2>1. /\ run.pc = "insert" /\ run'.pc \in {"savePage", "saveDone"} /\ run'.cur = run.cur
        /\ UNCHANGED <<people, capped, slot>>
    BY <1>2, <1>10 DEF InsertEvents, Run
  <2> QED BY <1>1, <2>1 DEF Imported, RunImported
<1>11. CASE SavePage
  <2>1. /\ run.pc = "savePage" /\ slot' = run.cur /\ run'.cur = run.cur /\ people' = people
        /\ run'.pc \in {"fetch", "saveDone"}
    BY <1>2, <1>11 DEF SavePage, NextPage, Run
  <2>2. capped => capped'
    BY <1>11, Zenon DEF SavePage, NextPage
  <2> QED BY <1>1, <2>1, <2>2 DEF Imported, RunImported
<1>12. CASE SaveDone
  <2>1. /\ run.pc = "saveDone" /\ slot'.phase = "caught_up" /\ run'.pc = "idle"
        /\ UNCHANGED <<people, capped>>
    BY <1>12 DEF SaveDone, CaughtUp, Beginning, IdleRun
  <2> QED BY <1>1, <2>1 DEF Imported, RunImported
<1>13. CASE Stop
  BY <1>1, <1>13 DEF Stop, IdleRun, Imported, RunImported
<1> QED
  BY <1>1, <1>4, <1>5, <1>6, <1>7, <1>8, <1>9, <1>10, <1>11, <1>12, <1>13 DEF Next, Pull

LEMMA PersonsStart == Init => PersonsInv
<1> SUFFICES ASSUME Init PROVE PersonsInv
  OBVIOUS
<1>1. TypeOK
  <2>1. Beginning \in Cursor /\ IdleRun \in Run /\ 0 \in 0..MaxStops
    BY PullAssumption DEF Beginning, Cursor, IdleRun, Run
  <2> QED BY <2>1, Zenon DEF Init, TypeOK
<1>2. \A p \in 0..(PersonPages - 1) : ~(p < 0)
  BY PullAssumption
<1> QED BY <1>1, <1>2 DEF Init, PersonsInv, Imported, RunImported, Beginning, IdleRun

(* The events phase is reached only with every page of persons imported,      *)
(* whatever pulls were interrupted and whatever timestamps events share.      *)
THEOREM PersonsComeFirst == Spec => []PersonsFirst
<1>1. PersonsInv => PersonsFirst
  BY DEF PersonsInv, Imported, PersonsFirst
<1> QED BY <1>1, PersonsStart, PersonsStep, PTL DEF Spec
-----------------------------------------------------------------------------
(* What a query does not ask for is stored: with its answer, that is all.      *)
LEMMA AskedIsTheRest ==
  ASSUME TypeOK, ~capped, NEW cur \in Cursor, Means(style, seams, cur, stored, remote, capped),
         style = "link" => ~cur.paged, NEW e \in remote
  PROVE  e \in stored \cup Answer(cur) \/ Excused(style, seams, e, stored)
<1>1. style \in {"link", "above", "from"} /\ TimeOf[e] \in 1..MaxTime
  BY PullAssumption DEF TypeOK
<1>2. cur.since \in 0..MaxTime /\ Bound(cur) \in 0..MaxTime
  BY PullAssumption DEF Cursor, Bound
<1>3. ~Behind(style, e, 0)
  BY <1>1 DEF Behind
<1>4. CASE style = "link"
  <2>1. AllIn(style, seams, cur.since, stored, remote, capped)
    <3>1. CASE cur.phase = "caught_up"
      BY <3>1 DEF Means
    <3>2. CASE cur.phase # "caught_up"
      <4>1. cur.since = 0
        BY <1>4, <3>2 DEF Means
      <4>2. \A d \in remote : ~Behind(style, d, 0)
        BY PullAssumption DEF TypeOK, Behind
      <4> QED BY <4>1, <4>2 DEF AllIn
    <3> QED BY <3>1, <3>2
  <2> QED BY <1>1, <1>2, <1>4, <2>1 DEF AllIn, Behind, Answer
<1>5. CASE style # "link"
  <2>1. e \in Answer(cur) \/ Behind(style, e, Bound(cur))
    BY <1>1, <1>2, <1>5 DEF Answer, Behind
  <2> QED BY <1>3, <1>5, <2>1 DEF Means, Bound, AllIn
<1> QED BY <1>4, <1>5

LEMMA LastPageIsTheRest ==
  ASSUME NEW answer, NEW page \in Pages(answer), ~More(answer, page)
  PROVE  page = answer
<1>1. Cardinality({}) = 0
  BY FS_EmptySet
<1>2. CASE style = "link"
  BY <1>1, <1>2, PullAssumption DEF Pages, More
<1>3. CASE style # "link"
  BY <1>3, PullAssumption DEF Pages, More
<1> QED BY <1>2, <1>3

LEMMA CompleteStep ==
  ASSUME TypeOK, Meaning, Complete, [Next]_vars
  PROVE  Complete'
<1>1. run \in Run /\ run.cur \in Cursor /\ capped \in BOOLEAN
  BY DEF TypeOK, Run
<1>2. CASE Arrive \/ UNCHANGED vars
  <2>1. UNCHANGED <<style, stored, run, capped, had, began, seams>> /\ remote \subseteq remote'
    BY <1>2 DEF Arrive, vars, pullHistory
  <2> QED BY <2>1 DEF Complete, Fresh, Whole, SplitIn
<1>3. ASSUME NEW full \in BOOLEAN, Begin(full)
      PROVE  Complete'
  <2>1. PICK cur \in {slot, Beginning} :
          /\ run' = [IdleRun EXCEPT !.cur = cur,
                       !.pc = IF cur.phase = "persons" THEN "persons" ELSE "fetch"]
          /\ began' = AskedFirst(cur)
    BY <1>3 DEF Begin
  <2>2. run'.cur = cur /\ run'.pc \in {"persons", "fetch"} /\ (cur.paged => began' = "page")
    BY <2>1 DEF IdleRun, AskedFirst
  <2> QED BY <1>3, <2>2 DEF Begin, Complete, Fresh
<1>4. CASE ImportPersons
  <2>1. run.pc # "idle" /\ run'.pc \in {"savePersons", "leavePersons"}
    BY <1>1, <1>4 DEF ImportPersons, Run
  <2> QED BY <1>4, <2>1 DEF ImportPersons, pullHistory, Complete
<1>5. CASE SavePersons
  <2>1. run.pc # "idle" /\ run'.pc \in {"persons", "leavePersons"}
    BY <1>1, <1>5 DEF SavePersons, NextPage, Run
  <2> QED BY <1>5, <2>1 DEF SavePersons, pullHistory, Complete
<1>6. CASE LeavePersons
  <2>1. run.pc # "idle" /\ run'.pc = "fetch" /\ ~run'.cur.paged
    BY <1>1, <1>6 DEF LeavePersons, Beginning, Run
  <2> QED BY <1>6, <2>1 DEF LeavePersons, pullHistory, Complete
<1>7. CASE FetchEvents
  <2> DEFINE answer == Answer(run.cur)
  <2>1. PICK page \in Pages(answer), since \in 0..MaxTime, after \in 0..MaxTime :
          /\ run' = [run EXCEPT !.pc = "insert", !.batch = page, !.more = More(answer, page),
                       !.cur = [phase |-> "events", person |-> 0, paged |-> TRUE,
                                after |-> after, since |-> since,
                                rest |-> IF style = "link" THEN answer \ page ELSE {}]]
          /\ seams' = seams \cup {since, after}
    BY <1>7, Zenon DEF FetchEvents
  <2>2. /\ run'.pc = "insert" /\ run'.batch = page /\ run'.more = More(answer, page)
        /\ style = "link" => run'.cur.rest = answer \ page
    BY <1>1, <2>1 DEF Run
  <2>3. /\ had \subseteq remote /\ UNCHANGED <<style, remote, stored, capped, had, began>>
        /\ run.pc = "fetch"
    BY <1>7 DEF FetchEvents, Complete
  <2>4. Means(style, seams, run.cur, stored, remote, capped)
    BY <2>3 DEF Meaning, RunMeans
  <2>5. ASSUME Fresh PROVE \A e \in had : e \in stored \cup answer \/ SplitIn(e, stored \cup answer)
    <3>1. CASE style = "link" /\ run.cur.paged
      <4>1. answer = run.cur.rest
        BY <3>1 DEF Answer
      <4> QED BY <2>3, <2>5, <3>1, <4>1 DEF Complete, Whole
    <3>2. CASE style = "link" => ~run.cur.paged
      <4>1. ~capped
        BY <2>5 DEF Fresh
      <4>2. \A e \in had : e \in stored \cup answer \/ Excused(style, seams, e, stored)
        BY <1>1, <2>3, <2>4, <3>2, <4>1, AskedIsTheRest
      <4> QED BY <4>2 DEF Excused, SplitIn
    <3> QED BY <3>1, <3>2
  <2>6. ~More(answer, page) => page = answer
    BY <2>1, LastPageIsTheRest
  <2>7. page \subseteq answer
    BY <2>1 DEF Pages
  <2>8. Fresh' => Fresh
    BY <2>3 DEF Fresh
  <2> HIDE DEF answer
  <2>9. ASSUME Fresh, NEW R, R = stored \cup answer
        PROVE  \A e \in had' : e \in R \/ (style' # "from" /\ TimeOf[e] \in seams'
                                             /\ \E f \in R : TimeOf[f] = TimeOf[e])
    BY <2>1, <2>3, <2>5, <2>9 DEF SplitIn
  <2>10. style = "link" => (stored' \cup run'.batch) \cup run'.cur.rest = stored \cup answer
    BY <2>2, <2>3, <2>7
  <2>11. ~run'.more => stored' \cup run'.batch = stored \cup answer
    BY <2>2, <2>3, <2>6
  <2> QED BY <2>2, <2>3, <2>8, <2>9, <2>10, <2>11 DEF Complete, Whole, SplitIn
<1>8. CASE InsertEvents
  <2>1. /\ run.pc = "insert" /\ run'.pc = IF run.more THEN "savePage" ELSE "saveDone"
        /\ run'.cur = run.cur /\ stored' = stored \cup run.batch
        /\ UNCHANGED <<style, remote, capped, had, began, seams>>
    BY <1>1, <1>8 DEF InsertEvents, pullHistory, Run
  <2> QED BY <2>1 DEF Complete, Fresh, Whole, SplitIn
<1>9. CASE SavePage
  <2>1. /\ run.pc = "savePage"
        /\ run'.pc = IF run.pages + 1 < MaxPages THEN "fetch" ELSE "saveDone"
    BY <1>1, <1>9 DEF SavePage, NextPage, Run
  <2>2. run.pages \in Nat /\ MaxPages \in Nat
    BY <1>1, PullAssumption DEF Run
  <2>3. run.pages + 1 < MaxPages \/ run.pages + 1 >= MaxPages
    BY <2>2
  <2>4. run.pages + 1 >= MaxPages => capped'
    BY <1>9, Zenon DEF SavePage, NextPage
  <2>5. run'.pc = "fetch" \/ (run'.pc = "saveDone" /\ capped')
    BY <2>1, <2>3, <2>4, Zenon
  <2>6. run'.cur = run.cur /\ UNCHANGED <<style, remote, stored, had, began, seams>>
    BY <1>1, <1>9 DEF SavePage, NextPage, pullHistory, Run
  <2>7. Fresh' => Fresh
    <3>1. capped => capped'
      BY <1>9, Zenon DEF SavePage, NextPage
    <3> QED BY <2>6, <3>1 DEF Fresh
  <2> QED BY <2>1, <2>5, <2>6, <2>7 DEF Complete, Fresh, Whole, SplitIn
<1>10. CASE SaveDone
  BY <1>10 DEF SaveDone, IdleRun, Complete
<1>11. CASE Stop
  BY <1>11 DEF Stop, IdleRun, Complete
<1> QED
  BY <1>2, <1>3, <1>4, <1>5, <1>6, <1>7, <1>8, <1>9, <1>10, <1>11 DEF Next, Pull

(* A pull that answers ok leaves nothing behind that upstream had when it     *)
(* began but events split from those of their time, wherever the cursor it    *)
(* resumed from stood, PostHog's saved links apart.                           *)
THEOREM PullsAreComplete == Spec => PullIsComplete
<1>1. Init => Complete
  BY DEF Init, IdleRun, Complete
<1>2. IInv /\ Complete /\ [Next]_vars => Complete'
  BY CompleteStep, MeaningIsInvariant
<1>3. Complete => [run.pc = "saveDone" /\ run'.pc = "idle" /\ health' = "ok" /\ Fresh =>
                     Whole(stored)]_vars
  BY DEF Complete
<1>4. Spec => []IInv
  BY PullInductive
<1> QED BY <1>1, <1>2, <1>3, <1>4, PTL DEF Spec, PullIsComplete

-----------------------------------------------------------------------------
(* The SDK's buffer and its batches.                                           *)
USE SdkAssumption

(* What track() adds does not disturb what was in front of it.                *)
LEMMA Appended ==
  ASSUME NEW q \in Seq(Tracks), NEW c \in Tracks
  PROVE  /\ Append(q, c) \in Seq(Tracks) /\ Append(q, c) # <<>>
         /\ Range(Append(q, c)) = Range(q) \cup {c}
         /\ Len(Append(q, c)) = Len(q) + 1
         /\ \A k \in 1..Len(q) : SubSeq(Append(q, c), 1, k) = SubSeq(q, 1, k)
<1>1. /\ Append(q, c) = q \o <<c>> /\ <<c>> \in Seq(Tracks) /\ Len(<<c>>) = 1
  BY AppendIsConcat
<1>2. Range(<<c>>) = {c}
  BY DEF Range
<1>3. ASSUME NEW k \in 1..Len(q)
      PROVE  SubSeq(q \o <<c>>, 1, k) = SubSeq(q, 1, k)
  <2>1. Len(q) \in Nat /\ 1 \in 1..Len(q)
    BY LenProperties
  <2> QED BY <2>1, <1>1, SubSeqOfConcat1
<1>4. Range(q \o <<c>>) = Range(q) \cup {c}
  <2> DEFINE t == <<c>>
  <2>1. t \in Seq(Tracks) /\ Range(t) = {c}
    BY <1>1, <1>2
  <2> HIDE DEF t
  <2>2. Range(q \o t) = Range(q) \cup Range(t)
    BY <2>1, RangeConcatenation
  <2> QED BY <2>1, <2>2 DEF t
<1>5. /\ Append(q, c) \in Seq(Tracks) /\ Append(q, c) # <<>>
      /\ Len(Append(q, c)) = Len(q) + 1
  BY AppendProperties
<1> QED BY <1>1, <1>3, <1>4, <1>5

LEMMA NextBatches ==
  ASSUME NEW q \in Seq(Tracks), q # <<>>
  PROVE  /\ NextBatch(q) \in Seq(Tracks) /\ NextBatch(q) # <<>>
         /\ Len(NextBatch(q)) <= Len(q)
         /\ NextBatch(q) = SubSeq(q, 1, Len(NextBatch(q)))
<1> DEFINE n == IF Len(q) < MaxBatch THEN Len(q) ELSE MaxBatch
<1>1. Len(q) \in Nat \ {0} /\ n \in 1..Len(q)
  BY EmptySeq
<1>2. \A i \in 1..n : q[i] \in Tracks
  BY <1>1, ElementOfSeq
<1>3. SubSeq(q, 1, n) \in Seq(Tracks) /\ Len(SubSeq(q, 1, n)) = n
  BY <1>1, <1>2, SubSeqProperties
<1>4. SubSeq(q, 1, n) # <<>>
  BY <1>1, <1>3, EmptySeq
<1> QED BY <1>1, <1>3, <1>4 DEF NextBatch

(* A batch and what is left make up the queue.                                *)
LEMMA Rests ==
  ASSUME NEW b \in Seq(Tracks), queue \in Seq(Tracks), b # <<>>,
         Len(b) <= Len(queue), b = SubSeq(queue, 1, Len(b))
  PROVE  /\ SubSeq(queue, Len(b) + 1, Len(queue)) \in Seq(Tracks)
         /\ Range(queue) = Range(b) \cup Range(SubSeq(queue, Len(b) + 1, Len(queue)))
<1> DEFINE rest == SubSeq(queue, Len(b) + 1, Len(queue))
<1>1. Len(b) \in Nat \ {0} /\ Len(queue) \in Nat
  BY EmptySeq
<1>2. \A i \in Len(b) + 1..Len(queue) : queue[i] \in Tracks
  BY <1>1, ElementOfSeq
<1>3. rest \in Seq(Tracks)
  BY <1>1, <1>2, SubSeqProperties
<1>4. SubSeq(queue, 1, Len(b)) \o rest = queue
  <2>1. /\ 1 \in 1..Len(queue) + 1 /\ Len(b) \in 1 - 1..Len(queue)
        /\ Len(queue) \in Len(b)..Len(queue)
    BY <1>1
  <2>2. SubSeq(queue, 1, Len(b)) \o rest = SubSeq(queue, 1, Len(queue))
    BY <2>1, ConcatAdjacentSubSeq
  <2> QED BY <2>2, SubSeqFull
<1>5. b \o rest = queue
  BY <1>4
<1> HIDE DEF rest
<1>6. Range(b \o rest) = Range(b) \cup Range(rest)
  BY <1>3, RangeConcatenation
<1> QED BY <1>3, <1>5, <1>6 DEF rest

(* A request carries its batch, each event under its own key.                 *)
LEMMA Bodies ==
  ASSUME NEW b \in Seq(Tracks), NEW n
  PROVE  /\ Body(b, n) \subseteq Row /\ \A x \in Body(b, n) : x.key = <<x.event>>
         /\ Range(b) \subseteq {x.event : x \in Body(b, n)}
<1>1. \A e \in Range(b) : e \in Tracks
  BY RangeOfSeq
<1>2. Body(b, n) = {[event |-> e, key |-> <<e>>] : e \in Range(b)}
  BY DEF Body, Key
<1>3. ASSUME NEW x \in Body(b, n)
      PROVE  x \in Row /\ x.key = <<x.event>>
  BY <1>1, <1>2, <1>3 DEF Row
<1>4. ASSUME NEW e \in Range(b)
      PROVE  e \in {x.event : x \in Body(b, n)}
  <2>1. [event |-> e, key |-> <<e>>] \in Body(b, n)
    BY <1>2, <1>4
  <2> QED BY <2>1
<1> QED BY <1>3, <1>4

LEMMA Posted ==
  ASSUME SdkTypeOK, OneKey, NEW b \in Seq(Tracks), Post(b)
  PROVE  /\ posts' \in Nat /\ reply' = "none"
         /\ \A r \in wire' : r.n \in 1..posts' /\ r.body \subseteq Row
         /\ \A r \in wire' : \A x \in r.body : x.key = <<x.event>>
         /\ \A r \in wire' : r.n = posts' => Range(b) \subseteq {x.event : x \in r.body}
<1>1. /\ Body(b, posts + 1) \subseteq Row
      /\ \A x \in Body(b, posts + 1) : x.key = <<x.event>>
      /\ Range(b) \subseteq {x.event : x \in Body(b, posts + 1)}
  BY Bodies
<1>2. posts \in Nat /\ \A r \in wire : r.n \in 1..posts /\ r.body \subseteq Row
  BY DEF SdkTypeOK
<1>3. posts' = posts + 1 /\ reply' = "none"
      /\ wire' = wire \cup {[n |-> posts + 1, body |-> Body(b, posts + 1)]}
  BY DEF Post
<1>4. ASSUME NEW r \in wire', r \notin wire
      PROVE  r.n = posts + 1 /\ r.body = Body(b, posts + 1)
  <2>1. r = [n |-> posts + 1, body |-> Body(b, posts + 1)]
    BY <1>3, <1>4
  <2> QED BY <2>1
<1> QED BY <1>1, <1>2, <1>3, <1>4 DEF OneKey

(* The client's share of the invariant, and the wire's.                       *)
ClientOK ==
  /\ queue \in Seq(Tracks) /\ gate \subseteq called /\ loop \in Loop /\ posts \in Nat
  /\ reply \in {"none", "ok", "again", "refused"}
  /\ \A r \in wire : r.n \in 1..posts /\ r.body \subseteq Row
  /\ BatchAhead /\ \A r \in wire : \A x \in r.body : x.key = <<x.event>>

(* The loop goes on with the next batch, or ends with nothing left to do.     *)
LEMMA SendFromKeeps ==
  ASSUME SdkInv, NEW q \in Seq(Tracks), NEW g, SendFrom(q, g), queue' = q,
         g \subseteq called', Range(q) \subseteq called'
  PROVE  /\ ClientOK'
         /\ gate' # {} => loop'.pc # "idle"
         /\ q # <<>> => loop'.pc # "idle"
<1>1. CASE q = <<>>
  <2>1. /\ loop' = Idle /\ gate' = {} /\ reply' = "none" /\ posts' = posts /\ wire' = wire
    BY <1>1 DEF SendFrom
  <2>2. Idle \in Loop /\ Idle.pc = "idle"
    BY DEF Idle, Loop
  <2> QED BY <1>1, <2>1, <2>2 DEF ClientOK, SdkInv, SdkTypeOK, BatchAhead, OneKey
<1>2. CASE q # <<>>
  <2> DEFINE b == NextBatch(q)
  <2>1. /\ b \in Seq(Tracks) /\ b # <<>> /\ Len(b) <= Len(q) /\ b = SubSeq(q, 1, Len(b))
    BY <1>2, NextBatches
  <2>2. /\ loop' = [pc |-> "posting", batch |-> b, attempt |-> 1] /\ gate' = g /\ Post(b)
    BY <1>2 DEF SendFrom
  <2> HIDE DEF b
  <2>3. loop' \in Loop /\ loop'.pc = "posting" /\ loop'.batch = b /\ loop'.attempt = 1
    BY <2>1, <2>2 DEF Loop
  <2>4. /\ posts' \in Nat /\ reply' = "none"
        /\ \A r \in wire' : r.n \in 1..posts' /\ r.body \subseteq Row
        /\ \A r \in wire' : \A x \in r.body : x.key = <<x.event>>
        /\ \A r \in wire' : r.n = posts' => Range(b) \subseteq {x.event : x \in r.body}
    BY <2>1, <2>2, Posted DEF SdkInv
  <2>5. BatchAhead'
    BY <2>1, <2>3, <2>4 DEF BatchAhead
  <2> QED BY <2>2, <2>3, <2>4, <2>5 DEF ClientOK
<1> QED BY <1>1, <1>2

(* flush() starts the loop, or leaves it running on what it has in flight.    *)
LEMMA FlushKeeps ==
  ASSUME SdkInv, NEW q \in Seq(Tracks), NEW g, Flush(q, g), UNCHANGED rows,
         g \subseteq called', Range(q) \subseteq called', called \subseteq called',
         loop.pc # "idle" => /\ Len(loop.batch) <= Len(q)
                             /\ loop.batch = SubSeq(q, 1, Len(loop.batch))
  PROVE  /\ ClientOK' /\ timer' = FALSE /\ gaveUp' \in BOOLEAN /\ queue' = q
         /\ gate' # {} => loop'.pc # "idle"
         /\ q # <<>> => loop'.pc # "idle"
<1>1. CASE loop.pc = "idle"
  BY <1>1, SendFromKeeps DEF Flush
<1>2. CASE loop.pc # "idle"
  <2>1. /\ queue' = q /\ timer' = FALSE /\ gate' = g /\ loop' = loop /\ posts' = posts
        /\ wire' = wire /\ reply' = reply /\ gaveUp' = gaveUp /\ rows' = rows
    BY <1>2 DEF Flush
  <2>2. BatchAhead'
    BY <1>2, <2>1 DEF SdkInv, BatchAhead, Stored
  <2> QED BY <1>2, <2>1, <2>2 DEF ClientOK, SdkInv, SdkTypeOK, OneKey
<1> QED BY <1>1, <1>2
-----------------------------------------------------------------------------
(* One case per action.                                                       *)
LEMMA StartsOK ==
  ASSUME SdkInit
  PROVE  SdkInv
<1>1. queue \in Seq(Tracks) /\ Range(queue) = {}
  BY EmptySeq DEF SdkInit, Range
<1>2. Idle \in Loop /\ Idle.pc = "idle"
  BY DEF Idle, Loop
<1>3. SdkTypeOK
  <2>1. loop \in Loop /\ faults \in 0..MaxFaults /\ posts \in Nat
    BY <1>2 DEF SdkInit
  <2>2. /\ wire = {} /\ rows = {} /\ refused = {} /\ called = {} /\ gate = {}
        /\ timer \in BOOLEAN /\ gaveUp \in BOOLEAN /\ delays \in BOOLEAN /\ reply = "none"
    BY DEF SdkInit
  <2> QED BY <1>1, <2>1, <2>2 DEF SdkTypeOK
<1>4. NothingLost /\ Served
  BY DEF SdkInit, NothingLost, Served
<1>5. BatchAhead /\ OneKey
  BY <1>1, <1>2 DEF SdkInit, BatchAhead, OneKey
<1> QED BY <1>3, <1>4, <1>5 DEF SdkInv

(* The calls that put a call among the waiting ones.                          *)
LEMMA ClientMoves ==
  ASSUME SdkInv, ClientOK', UNCHANGED <<delays, rows, refused, faults>>,
         called' \subseteq Calls, timer' \in BOOLEAN, gaveUp' \in BOOLEAN,
         called' \cap Tracks \subseteq Range(queue') \cup Stored \cup refused,
         gate' # {} => timer' \/ loop'.pc # "idle",
         queue' # <<>> => timer' \/ loop'.pc # "idle" \/ gaveUp'
  PROVE  SdkInv'
<1>1. SdkTypeOK'
  BY DEF SdkInv, SdkTypeOK, ClientOK
<1>2. NothingLost' /\ Served'
  BY DEF NothingLost, Served, Stored
<1>3. BatchAhead' /\ OneKey'
  BY DEF SdkInv, ClientOK, OneKey
<1> QED BY <1>1, <1>2, <1>3 DEF SdkInv

LEMMA TrackKeeps ==
  ASSUME SdkInv, NEW c, Track(c)
  PROVE  SdkInv'
<1> DEFINE q == Append(queue, c)
<1>1. /\ c \in Tracks /\ called' = called \cup {c} /\ c \in Calls
      /\ UNCHANGED <<delays, rows, refused, faults>>
  BY DEF Track, Calls
<1>2. queue \in Seq(Tracks) /\ Range(queue) \subseteq called /\ called \subseteq Calls
      /\ gate \subseteq called /\ called \cap Tracks \subseteq Range(queue) \cup Stored \cup refused
  BY DEF SdkInv, SdkTypeOK, BatchAhead, NothingLost
<1>3. /\ q \in Seq(Tracks) /\ q # <<>> /\ Range(q) = Range(queue) \cup {c}
      /\ Len(q) = Len(queue) + 1
      /\ \A k \in 1..Len(queue) : SubSeq(q, 1, k) = SubSeq(queue, 1, k)
  BY <1>1, <1>2, Appended
<1>4. ASSUME loop.pc # "idle"
      PROVE  /\ loop.batch \in Seq(Tracks) /\ loop.batch # <<>>
             /\ Len(loop.batch) <= Len(q) /\ loop.batch = SubSeq(q, 1, Len(loop.batch))
  <2>1. /\ loop.batch \in Seq(Tracks) /\ loop.batch # <<>> /\ Len(loop.batch) <= Len(queue)
        /\ loop.batch = SubSeq(queue, 1, Len(loop.batch))
    BY <1>4 DEF SdkInv, SdkTypeOK, BatchAhead, Loop
  <2>2. Len(loop.batch) \in 1..Len(queue) /\ Len(queue) \in Nat
    BY <2>1, <1>2, EmptySeq, LenProperties
  <2> QED BY <2>1, <2>2, <1>3
<1>5. called' \cap Tracks \subseteq Range(q) \cup Stored \cup refused
  BY <1>1, <1>2, <1>3
<1> HIDE DEF q
<1>6. CASE Flush(q, gate \cup {c})
  <2> DEFINE g == gate \cup {c}
  <2>0. g \subseteq called' /\ Range(q) \subseteq called' /\ called \subseteq called'
    BY <1>1, <1>2, <1>3
  <2> HIDE DEF g
  <2>1. /\ ClientOK' /\ timer' = FALSE /\ gaveUp' \in BOOLEAN /\ queue' = q
        /\ gate' # {} => loop'.pc # "idle"
        /\ q # <<>> => loop'.pc # "idle"
    <3>1. Flush(q, g)
      BY <1>6 DEF g
    <3>2. rows' = rows
      BY <1>1
    <3> QED BY <3>1, <3>2, <2>0, <1>3, <1>4, FlushKeeps
  <2> QED BY <1>1, <1>2, <1>5, <2>1, ClientMoves
<1>7. CASE Schedule(q, gate \cup {c})
  <2>1. /\ queue' = q /\ gate' = gate \cup {c} /\ timer' = (timer \/ loop.pc = "idle")
        /\ UNCHANGED <<loop, posts, wire, reply, gaveUp>>
    BY <1>7 DEF Schedule
  <2>2. BatchAhead'
    BY <1>1, <1>2, <1>3, <1>4, <2>1 DEF SdkInv, BatchAhead, Stored
  <2>3. ClientOK'
    BY <1>1, <1>2, <1>3, <2>1, <2>2 DEF ClientOK, SdkInv, SdkTypeOK, OneKey
  <2>4. timer' \in BOOLEAN /\ gaveUp' \in BOOLEAN /\ (timer' \/ loop'.pc # "idle")
    BY <2>1 DEF SdkInv, SdkTypeOK
  <2> QED BY <1>1, <1>2, <1>5, <2>1, <2>3, <2>4, ClientMoves
<1> QED BY <1>6, <1>7 DEF Track, q

(* flush() with what is buffered, called or by the timer.                     *)
LEMMA FlushesKeep ==
  ASSUME SdkInv, NEW g, Flush(queue, g), UNCHANGED <<delays, rows, refused, faults>>,
         called \subseteq called', called' \subseteq Calls, g \subseteq called',
         called' \cap Tracks = called \cap Tracks
  PROVE  SdkInv'
<1>1. /\ queue \in Seq(Tracks) /\ Range(queue) \subseteq called'
      /\ called' \cap Tracks \subseteq Range(queue) \cup Stored \cup refused
  BY DEF SdkInv, SdkTypeOK, BatchAhead, NothingLost
<1>2. loop.pc # "idle" => /\ Len(loop.batch) <= Len(queue)
                          /\ loop.batch = SubSeq(queue, 1, Len(loop.batch))
  BY DEF SdkInv, BatchAhead
<1>3. /\ ClientOK' /\ timer' = FALSE /\ gaveUp' \in BOOLEAN /\ queue' = queue
      /\ gate' # {} => loop'.pc # "idle"
      /\ queue # <<>> => loop'.pc # "idle"
  BY <1>1, <1>2, FlushKeeps
<1> QED BY <1>1, <1>3, ClientMoves

LEMMA WakeKeeps ==
  ASSUME SdkInv, Wake
  PROVE  SdkInv'
<1>1. /\ loop.pc = "sleeping" /\ loop' = [loop EXCEPT !.pc = "posting"]
      /\ Post(loop.batch) /\ UNCHANGED <<delays, called, queue, timer, gate, rows, history, faults>>
  BY DEF Wake
<1>2. loop \in Loop /\ loop.batch \in Seq(Tracks)
  BY DEF SdkInv, SdkTypeOK, Loop
<1>3. /\ loop' \in Loop /\ loop'.pc = "posting" /\ loop'.batch = loop.batch
      /\ loop'.attempt = loop.attempt
  BY <1>1, <1>2 DEF Loop
<1>4. /\ posts' \in Nat /\ reply' = "none"
      /\ \A r \in wire' : r.n \in 1..posts' /\ r.body \subseteq Row
      /\ \A r \in wire' : \A x \in r.body : x.key = <<x.event>>
      /\ \A r \in wire' : r.n = posts' => Range(loop.batch) \subseteq {x.event : x \in r.body}
  BY <1>1, <1>2, Posted DEF SdkInv
<1>5. BatchAhead'
  BY <1>1, <1>3, <1>4 DEF SdkInv, BatchAhead
<1>6. SdkTypeOK'
  BY <1>1, <1>3, <1>4 DEF SdkInv, SdkTypeOK, history
<1>7. NothingLost' /\ Served' /\ OneKey'
  BY <1>1, <1>3, <1>4 DEF SdkInv, NothingLost, Served, OneKey, Stored, history
<1> QED BY <1>5, <1>6, <1>7 DEF SdkInv
(* The batch is done with, stored or refused, and the loop goes on.           *)
LEMMA DoneKeeps ==
  ASSUME SdkInv, NEW status \in {"ok", "refused"}, Done(status),
         Range(loop.batch) \subseteq Stored \cup refused',
         refused \subseteq refused', refused' \subseteq Tracks
  PROVE  SdkInv'
<1> DEFINE rest == SubSeq(queue, Len(loop.batch) + 1, Len(queue))
<1>1. /\ loop.pc = "posting" /\ queue' = rest /\ SendFrom(rest, gate)
      /\ UNCHANGED <<delays, called, timer, rows, gaveUp, faults>>
  BY DEF Done, Rest
<1>2. /\ loop.batch \in Seq(Tracks) /\ loop.batch # <<>> /\ queue \in Seq(Tracks)
      /\ Len(loop.batch) <= Len(queue) /\ loop.batch = SubSeq(queue, 1, Len(loop.batch))
      /\ Range(queue) \subseteq called /\ gate \subseteq called
  BY <1>1 DEF SdkInv, SdkTypeOK, BatchAhead, Loop
<1>3. /\ rest \in Seq(Tracks)
      /\ Range(queue) = Range(loop.batch) \cup Range(rest)
  BY <1>2, Rests
<1> HIDE DEF rest
<1>4. gate \subseteq called' /\ Range(rest) \subseteq called'
  BY <1>1, <1>2, <1>3
<1>5. /\ ClientOK'
      /\ gate' # {} => loop'.pc # "idle"
      /\ rest # <<>> => loop'.pc # "idle"
  BY <1>1, <1>3, <1>4, SendFromKeeps
<1>6. called' \cap Tracks \subseteq Range(queue') \cup Stored' \cup refused'
  BY <1>1, <1>3 DEF SdkInv, NothingLost, Stored
<1>7. SdkTypeOK'
  BY <1>1, <1>5 DEF SdkInv, SdkTypeOK, ClientOK
<1>8. NothingLost' /\ Served'
  BY <1>1, <1>5, <1>6 DEF NothingLost, Served
<1>9. BatchAhead' /\ OneKey'
  BY <1>1, <1>5 DEF SdkInv, ClientOK, OneKey
<1> QED BY <1>7, <1>8, <1>9 DEF SdkInv

LEMMA AttemptKeeps ==
  ASSUME SdkInv, loop.pc = "posting", AttemptFails, wire' \subseteq wire, faults' \in 0..MaxFaults,
         UNCHANGED <<delays, called, timer, rows, refused>>
  PROVE  SdkInv'
<1>1. loop \in Loop /\ loop.attempt \in 0..MaxRetries
  BY DEF SdkInv, SdkTypeOK, Loop
<1>2. /\ loop' \in Loop /\ loop'.pc # "posting"
      /\ loop'.pc # "idle" => loop'.batch = loop.batch /\ loop'.attempt > 0
  <2>1. CASE loop' = Idle
    BY <2>1 DEF Idle, Loop
  <2>2. CASE loop.attempt < MaxRetries /\ loop' = [loop EXCEPT !.pc = "sleeping", !.attempt = @ + 1]
    <3>1. loop.attempt + 1 \in 0..MaxRetries /\ loop.attempt + 1 > 0
      BY <1>1, <2>2
    <3>2. loop' = [pc |-> "sleeping", batch |-> loop.batch, attempt |-> loop.attempt + 1]
      BY <1>1, <2>2 DEF Loop
    <3> QED BY <1>1, <3>1, <3>2 DEF Loop
  <2> QED BY <2>1, <2>2 DEF AttemptFails
<1>3. /\ reply' = "none" /\ queue' = queue /\ posts' = posts /\ gaveUp' \in BOOLEAN
      /\ gate' \subseteq gate
      /\ gate' # {} => loop'.pc # "idle"
      /\ loop'.pc # "idle" \/ gaveUp'
  <2>1. CASE gaveUp' = TRUE /\ gate' = {}
    BY <2>1 DEF AttemptFails
  <2>2. CASE /\ loop' = [loop EXCEPT !.pc = "sleeping", !.attempt = @ + 1]
             /\ UNCHANGED <<gate, gaveUp>>
    <3>1. loop'.pc = "sleeping"
      BY <1>1, <2>2 DEF Loop
    <3> QED BY <2>2, <3>1 DEF AttemptFails, SdkInv, SdkTypeOK
  <2> QED BY <2>1, <2>2 DEF AttemptFails, GiveUp
<1>4. SdkTypeOK'
  BY <1>2, <1>3 DEF SdkInv, SdkTypeOK
<1>5. NothingLost' /\ Served'
  BY <1>3 DEF SdkInv, NothingLost, Served, Stored
<1>6. BatchAhead'
  BY <1>2, <1>3 DEF SdkInv, BatchAhead
<1>7. OneKey'
  BY DEF SdkInv, OneKey
<1> QED BY <1>4, <1>5, <1>6, <1>7 DEF SdkInv

(* The server answers; when it has stored the body, the rows carry it.        *)
LEMMA AnswerKeeps ==
  ASSUME SdkInv, NEW r, NEW status \in {"ok", "again", "refused"}, Answered(r, status),
         rows' \in {rows, Insert(r.body)}, status = "ok" => rows' = Insert(r.body),
         faults' \in 0..MaxFaults
  PROVE  SdkInv'
<1>1. /\ r \in wire /\ wire' = wire \ {r}
      /\ reply' = IF r.n = posts /\ loop.pc = "posting" THEN status ELSE reply
      /\ UNCHANGED <<delays, called, queue, timer, gate, loop, posts, refused, gaveUp>>
  BY DEF Answered, client, history
<1>2. r.body \subseteq Row /\ \A b \in r.body : b.key = <<b.event>>
  BY <1>1 DEF SdkInv, SdkTypeOK, OneKey
<1>3. /\ rows \subseteq rows' /\ rows' \subseteq Row
      /\ \A x \in rows' : x.key = <<x.event>>
  BY <1>2 DEF Insert, SdkInv, SdkTypeOK, OneKey
<1>4. ASSUME rows' = Insert(r.body)
      PROVE  {b.event : b \in r.body} \subseteq Stored'
  <2>1. ASSUME NEW b \in r.body
        PROVE  b.event \in Stored'
    <3>1. CASE \E x \in rows : x.key = b.key
      <4>1. PICK x \in rows : x.key = b.key
        BY <3>1
      <4>2. <<x.event>> = <<b.event>> /\ x \in rows'
        BY <4>1, <1>2, <1>3 DEF SdkInv, OneKey
      <4>3. x.event = b.event
        BY <4>2
      <4> QED BY <4>2, <4>3 DEF Stored
    <3>2. CASE \A x \in rows : x.key # b.key
      <4>1. b \in rows'
        BY <3>2, <1>4 DEF Insert
      <4> QED BY <4>1 DEF Stored
    <3> QED BY <3>1, <3>2
  <2> QED BY <2>1
<1>5. Stored \subseteq Stored'
  BY <1>3 DEF Stored
<1>6. reply' = "ok" => Range(loop.batch) \subseteq Stored'
  <2>1. CASE reply' = "ok" /\ r.n = posts /\ loop.pc = "posting"
    <3>1. Range(loop.batch) \subseteq {b.event : b \in r.body}
      BY <2>1, <1>1 DEF SdkInv, BatchAhead
    <3> QED BY <2>1, <3>1, <1>1, <1>4
  <2>2. CASE reply' = reply
    BY <2>2, <1>5 DEF SdkInv, BatchAhead
  <2> QED BY <2>1, <2>2, <1>1
<1>7. SdkTypeOK'
  BY <1>1, <1>3 DEF SdkInv, SdkTypeOK
<1>8. NothingLost' /\ Served'
  BY <1>1, <1>5 DEF SdkInv, NothingLost, Served
<1>9. BatchAhead'
  BY <1>1, <1>6 DEF SdkInv, BatchAhead
<1>10. OneKey'
  BY <1>1, <1>3 DEF SdkInv, OneKey
<1> QED BY <1>7, <1>8, <1>9, <1>10 DEF SdkInv

LEMMA StepKeeps ==
  ASSUME SdkInv, [SdkNext]_sdkVars
  PROVE  SdkInv'
<1>1. ASSUME NEW c \in Calls, Track(c)
      PROVE  SdkInv'
  BY <1>1, TrackKeeps
<1>2. ASSUME NEW c \in Calls, CallFlush(c)
      PROVE  SdkInv'
  <2>1. /\ Flush(queue, gate \cup {c}) /\ called' = called \cup {c}
        /\ UNCHANGED <<delays, rows, refused, faults>> /\ c \in Flushes
    BY <1>2 DEF CallFlush
  <2>2. /\ called \subseteq called' /\ called' \subseteq Calls
        /\ gate \cup {c} \subseteq called' /\ called' \cap Tracks = called \cap Tracks
    BY <2>1 DEF SdkInv, SdkTypeOK, Calls
  <2> QED BY <2>1, <2>2, FlushesKeep
<1>3. CASE TimerFires
  BY <1>3, FlushesKeep DEF TimerFires, SdkInv, SdkTypeOK
<1>4. CASE Wake
  BY <1>4, WakeKeeps
<1>5. CASE Accepted
  BY <1>5, DoneKeeps DEF Accepted, Done, SdkInv, BatchAhead, SdkTypeOK
<1>6. CASE Dropped
  <2>1. Range(loop.batch) \subseteq Tracks
    <3>1. loop.batch \in Seq(Tracks)
      BY DEF SdkInv, SdkTypeOK, Loop
    <3> QED BY <3>1, RangeOfSeq
  <2> QED BY <1>6, <2>1, DoneKeeps DEF Dropped, SdkInv, SdkTypeOK
<1>7. CASE TurnedAway
  BY <1>7, AttemptKeeps DEF TurnedAway, SdkInv, SdkTypeOK
<1>8. CASE Rejected
  <2>1. wire' \subseteq wire /\ faults' \in 0..MaxFaults
    BY <1>8 DEF Rejected, SdkInv, SdkTypeOK
  <2> QED BY <1>8, <2>1, AttemptKeeps DEF Rejected
<1>9. ASSUME NEW r \in wire, Handle(r)
      PROVE  SdkInv'
  <2>1. /\ faults \in 0..MaxFaults
        /\ Fault => faults' \in 0..MaxFaults
    BY DEF Fault, SdkInv, SdkTypeOK
  <2>2. CASE Store(r)
    BY <2>1, <2>2, AnswerKeeps DEF Store
  <2>3. CASE StoreUnaudited(r)
    BY <2>1, <2>3, AnswerKeeps DEF StoreUnaudited
  <2>4. CASE TurnAway(r)
    BY <2>1, <2>4, AnswerKeeps DEF TurnAway
  <2>5. CASE Refuse(r)
    BY <2>1, <2>5, AnswerKeeps DEF Refuse
  <2> QED BY <1>9, <2>2, <2>3, <2>4, <2>5 DEF Handle
<1>10. CASE UNCHANGED sdkVars
  BY <1>10 DEF sdkVars, client, history, SdkInv, SdkTypeOK, NothingLost, Served, BatchAhead, OneKey, Stored
<1> QED BY <1>1, <1>2, <1>3, <1>4, <1>5, <1>6, <1>7, <1>8, <1>9, <1>10 DEF SdkNext

-----------------------------------------------------------------------------
(* The invariant behind the others holds throughout.                          *)
THEOREM DeliveryInductive == SdkSpec => []SdkInv
<1> QED BY StartsOK, StepKeeps, PTL DEF SdkSpec

(* However requests and answers are delayed, lost and retried, an event has   *)
(* at most one row: every copy of it carries its one key.                     *)
THEOREM NeverTwice == SdkSpec => []CountedOnce
<1>1. ASSUME SdkInv
      PROVE  CountedOnce
  BY <1>1 DEF CountedOnce, SdkInv, SdkTypeOK, OneKey, Row
<1> QED BY <1>1, DeliveryInductive, PTL

(* What was tracked is buffered, stored or refused for good.                  *)
THEOREM KeptUntilStored == SdkSpec => []NothingLost
<1>1. SdkInv => NothingLost
  BY DEF SdkInv
<1> QED BY <1>1, DeliveryInductive, PTL

(* Together: never lost, never twice.                                         *)
THEOREM KeptOnce == SdkSpec => []KeptAndCountedOnce
<1>1. CountedOnce /\ NothingLost => KeptAndCountedOnce
  BY DEF KeptAndCountedOnce
<1> QED BY NeverTwice, KeptUntilStored, <1>1, PTL

(* While somebody waits, the loop runs or the timer is armed.                 *)
THEOREM NobodyForgotten == SdkSpec => []Served
<1>1. SdkInv => Served
  BY DEF SdkInv
<1> QED BY <1>1, DeliveryInductive, PTL
=============================================================================
