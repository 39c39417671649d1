----------------------------- MODULE Snapshots -----------------------------
(* What the snapshot connectors store, each a machine of its own: a calendar   *)
(* feed (connectors/ics.ts), a bank's balances (connectors/mercury.ts) and     *)
(* GitHub (connectors/github.ts).                                              *)
EXTENDS DayClock, FiniteSets, FiniteSetsExt, SequencesExt

(* The calendar feed (connectors/ics.ts): the lines of a feed read into events *)
(* and the recurrences of an event expanded around now.  A civil day is a      *)
(* number of DayClock, an instant a number of units of which DayLength make a  *)
(* day of UTC; an all-day or floating event is one of the zone UTC.            *)
CONSTANTS
  FeedEvents,       \* events: [start: instant, zone, rule]; the rule NoRule or
                    \* [freq, interval, count, until, byDays]
  FeedNows,         \* instants a sync may run at
  LOOKBACK, LOOKAHEAD,  \* the window around now
  Lifetime,         \* the twenty years a rule is followed
  MAX_OCCURRENCES,
  MaxLines          \* bound: lines of a feed

VARIABLES
  occurring, polledAt,    \* the event being expanded, and when
  loop,             \* how far: [cursor, n, found, over]
  sync,             \* fetch, expand, store; ok or failed
  calendar,         \* the source's rows of cal_events, oldest inserted first
  lines,            \* the feed so far
  inEvent, block,   \* what parseIcsCalendar knows of the event it is in
  parsed            \* the events it has pushed
feedVars == <<occurring, polledAt, loop, sync, calendar, lines, inEvent, block, parsed>>

reading == <<lines, inEvent, block, parsed>>

NoRule == [freq |-> "none", interval |-> 1, count |-> 0, until |-> -1, byDays |-> {}]
Smaller(x, y) == IF x < y THEN x ELSE y

-----------------------------------------------------------------------------
tzOffset(t, z) == IF z.from <= t /\ t < z.to THEN z.dst ELSE z.std
zonedLocalToUtc(z, day, clock) ==
  LET wall == day * DayLength + clock
      once == wall - tzOffset(wall, z)
  IN wall - tzOffset(once, z)
localDay(t, z) == (t + tzOffset(t, z)) \div DayLength
localClock(t, z) == (t + tzOffset(t, z)) % DayLength
addLocalMonths(day, n) ==
  LET c == CivilOf[day]
      total == c.month - 1 + n
      y == c.year + total \div 12
      month == (total % 12) + 1
  IN DayOf([year |-> y, month |-> month, day |-> Smaller(c.day, daysInMonth(y, month))])
Sunday(day) == day - ((Weekday(day) + 1) % 7)

-----------------------------------------------------------------------------
bounded(r) == r.count > 0 \/ r.until >= 0
(* pushIf's refusals, in their order, and what it takes.                       *)
Refused(e, now, t) ==
  LET r == e.rule IN
  \/ r.until >= 0 /\ t > r.until
  \/ ~(~bounded(r) /\ t < now - LOOKBACK)
     /\ \/ ~bounded(r) /\ t > now + LOOKAHEAD
        \/ t > e.start + Lifetime
(* Mutant: a series with an end is cut to the window before it is counted.     *)
BugCountsTheWindow(e, now, t) == t >= now - LOOKBACK /\ t <= now + LOOKAHEAD
Taken(e, now, t) == t <= now + LOOKAHEAD /\ (bounded(e.rule) \/ t >= now - LOOKBACK)
cut(l) == [l EXCEPT !.over = TRUE, !.found = SubSeq(@, 1, Smaller(Len(@), MAX_OCCURRENCES))]
pushIf(e, now, l, t) ==
  LET more == IF Taken(e, now, t) THEN [l EXCEPT !.found = Append(@, t)] ELSE l
  IN IF e.rule.count > 0 /\ Len(l.found) >= e.rule.count THEN [l EXCEPT !.over = TRUE]
     ELSE IF Refused(e, now, t) THEN cut(l)
     ELSE IF t >= now - LOOKBACK /\ Len(more.found) >= MAX_OCCURRENCES THEN cut(more) ELSE more
(* Further from where the cursor stands?                                       *)
Ends(e, now, l) ==
  LET probe == zonedLocalToUtc(e.zone, l.cursor, localClock(e.start, e.zone)) IN
  \/ l.over \/ Len(l.found) >= MAX_OCCURRENCES
  \/ ~bounded(e.rule) /\ probe > now + LOOKAHEAD
  \/ probe > e.start + Lifetime
  \/ e.rule.count > 0 /\ Len(l.found) >= e.rule.count

(* The days of a week, Sunday first, those before the start passed over.       *)
OneWeek(e, now, l) ==
  LET clock == localClock(e.start, e.zone)
      after[k \in 0..7] ==
        IF k = 0 THEN l
        ELSE LET before == after[k - 1]
                 t == zonedLocalToUtc(e.zone, l.cursor + k - 1, clock)
             IN IF before.over \/ k - 1 \notin e.rule.byDays \/ t < e.start THEN before
                ELSE pushIf(e, now, before, t)
  IN after[7]
NextCursor(e, cursor) ==
  CASE e.rule.freq = "DAILY" -> cursor + 1
    [] e.rule.freq = "WEEKLY" -> cursor + 7
    [] e.rule.freq = "MONTHLY" -> addLocalMonths(cursor, 1)
    [] e.rule.freq = "YEARLY" -> addLocalMonths(cursor, 12)
ByDay(e) == e.rule.freq = "WEEKLY" /\ e.rule.byDays # {}
Round(e, now) ==
  IF ByDay(e) THEN OneWeek(e, now, loop)
  ELSE pushIf(e, now, loop, zonedLocalToUtc(e.zone, loop.cursor, localClock(e.start, e.zone)))
Started(e) ==
  LET first == localDay(e.start, e.zone)
  IN [cursor |-> IF ByDay(e) THEN Sunday(first) ELSE first, n |-> 0,
      found |-> IF e.rule = NoRule THEN <<e.start>> ELSE <<>>, over |-> e.rule = NoRule]
(* A turn of the loop: every interval-th week, month, .. is looked at.         *)
expandOccurrences ==
  LET e == occurring
      round == IF loop.n % e.rule.interval = 0 THEN Round(e, polledAt) ELSE loop
      moved == [round EXCEPT !.cursor = NextCursor(e, @), !.n = @ + 1]
  IN /\ sync = "expand" /\ ~loop.over
     /\ loop' = [moved EXCEPT !.over = round.over \/ Ends(e, polledAt, moved)]
     /\ UNCHANGED <<occurring, polledAt, sync, calendar, reading>>

(* syncIcs: an answer that is refused, too long or no calendar leaves the rows *)
(* alone; otherwise those of this source are deleted and written one by one.   *)
Fetch ==
  /\ sync = "fetch" /\ sync' \in {"expand", "failed"}
  /\ UNCHANGED <<occurring, polledAt, loop, calendar, reading>>
DeleteRows ==
  /\ sync = "expand" /\ loop.over /\ sync' = "store" /\ calendar' = <<>>
  /\ UNCHANGED <<occurring, polledAt, loop, reading>>
persistEvents ==
  /\ sync = "store" /\ Len(calendar) < Len(loop.found)
  /\ calendar' = Append(calendar, loop.found[Len(calendar) + 1])
  /\ UNCHANGED <<occurring, polledAt, loop, sync, reading>>
syncIcs ==
  /\ sync = "store" /\ sync' \in {"failed"} \cup (IF Len(calendar) = Len(loop.found) THEN {"ok"} ELSE {})
  /\ UNCHANGED <<occurring, polledAt, loop, calendar, reading>>
(* The same feed is polled again later.                                        *)
Poll(now) ==
  /\ sync \in {"ok", "failed"} /\ now > polledAt /\ polledAt' = now
  /\ loop' = Started(occurring) /\ sync' = "fetch"
  /\ UNCHANGED <<occurring, calendar, reading>>

-----------------------------------------------------------------------------
(* A feed's lines: those that matter, each value numbered by where it stands,  *)
(* and an alarm, whose lines are read as the event's.                          *)
Lines == {"BEGIN:VEVENT", "END:VEVENT", "SUMMARY", "DTSTART", "DTSTART of no date", "STATUS:CANCELLED", "BEGIN:VALARM"}
NoBlock == [summary |-> 0, start |-> 0, status |-> "none"]

FeedInit ==
  /\ occurring \in FeedEvents /\ polledAt \in FeedNows /\ loop = Started(occurring)
  /\ sync = "fetch" /\ calendar = <<>>
  /\ lines = <<>> /\ inEvent = FALSE /\ block = NoBlock /\ parsed = <<>>

EndEvent ==
  /\ inEvent' = FALSE /\ block' = NoBlock
  /\ parsed' = IF inEvent /\ block.start # 0 /\ block.status # "CANCELLED" THEN Append(parsed, block) ELSE parsed
Property(line, n) ==
  CASE line = "SUMMARY" -> [block EXCEPT !.summary = n]
    [] line = "DTSTART" -> [block EXCEPT !.start = n]
    [] line = "DTSTART of no date" -> [block EXCEPT !.start = 0]
    [] line = "STATUS:CANCELLED" -> [block EXCEPT !.status = "CANCELLED"]
    [] OTHER -> block
parseIcsCalendar(line) ==
  /\ Len(lines) < MaxLines /\ lines' = Append(lines, line)
  /\ \/ line = "BEGIN:VEVENT" /\ inEvent' = TRUE /\ block' = NoBlock /\ UNCHANGED parsed
     \/ line = "END:VEVENT" /\ EndEvent
     \/ /\ line \notin {"BEGIN:VEVENT", "END:VEVENT"} /\ UNCHANGED <<inEvent, parsed>>
        /\ block' = IF inEvent THEN Property(line, Len(lines) + 1) ELSE block
  /\ UNCHANGED <<occurring, polledAt, loop, sync, calendar>>
Sync ==
  \/ Fetch \/ expandOccurrences \/ DeleteRows \/ persistEvents \/ syncIcs
  \/ \E now \in FeedNows : Poll(now)
Parse == \E line \in Lines : parseIcsCalendar(line)
FeedNext == Sync \/ Parse

-----------------------------------------------------------------------------
(* What a rule means, day by day.                                              *)
MonthsBetween(a, b) == (CivilOf[b].year - CivilOf[a].year) * 12 + CivilOf[b].month - CivilOf[a].month
Falls(e, day) ==
  LET first == localDay(e.start, e.zone)
      r == e.rule
  IN CASE r.freq = "DAILY" -> (day - first) % r.interval = 0
       [] r.freq = "WEEKLY" /\ ~ByDay(e) -> (day - first) % (7 * r.interval) = 0
       [] ByDay(e) ->
            (Weekday(day) + 1) % 7 \in r.byDays /\ ((Sunday(day) - Sunday(first)) \div 7) % r.interval = 0
       [] OTHER ->
            /\ MonthsBetween(first, day) % (r.interval * (IF r.freq = "YEARLY" THEN 12 ELSE 1)) = 0
            /\ CivilOf[day].day = CivilOf[first].day
Meant(e) ==
  LET first == localDay(e.start, e.zone)
      days == {d \in first..first + Lifetime \div DayLength : Falls(e, d)}
      instants == {zonedLocalToUtc(e.zone, d, localClock(e.start, e.zone)) : d \in days}
      inTime == {t \in instants : t >= e.start /\ t <= e.start + Lifetime /\ (e.rule.until >= 0 => t <= e.rule.until)}
  IN IF e.rule.count = 0 THEN inTime ELSE {t \in inTime : Cardinality({u \in inTime : u < t}) < e.rule.count}
Skipped(e, day) ==
  LET wall == day * DayLength + localClock(e.start, e.zone)
  IN \A o \in {e.zone.std, e.zone.dst} : tzOffset(wall - o, e.zone) # o
EveryMonthHasIt(e) == CivilOf[localDay(e.start, e.zone)].day <= 28

Shown == loop.found
ShownSet == {Shown[k] : k \in DOMAIN Shown}
(* An occurrence is shown once, and at the start's wall clock, through every   *)
(* change of the clocks that does not skip it (zonedLocalToUtc, test "keeps    *)
(* weekly wall-clock time").                                                   *)
WallClockIsKept ==
  /\ \A j, k \in DOMAIN Shown : j < k => Shown[j] < Shown[k]
  /\ \A t \in ShownSet :
       \/ localClock(t, occurring.zone) = localClock(occurring.start, occurring.zone)
       \/ \E d \in localDay(t, occurring.zone) - 1..localDay(t, occurring.zone) + 1 : Skipped(occurring, d)
(* A feed shows of a rule what it means in the window, and of one with an end  *)
(* what came before it too, up to MAX_OCCURRENCES from the first on.  A month  *)
(* without the day of the start is an exception: its occurrence comes earlier, *)
(* and so do all that follow (addLocalMonths of the last one).                 *)
RuleIsFollowed ==
  loop.over /\ occurring.rule # NoRule /\ (occurring.rule.freq \in {"MONTHLY", "YEARLY"} => EveryMonthHasIt(occurring)) =>
    LET due == {t \in Meant(occurring) : t <= polledAt + LOOKAHEAD /\ (bounded(occurring.rule) \/ t >= polledAt - LOOKBACK)}
    IN /\ ShownSet \subseteq due
       /\ ShownSet = due \/ Len(Shown) >= MAX_OCCURRENCES
       /\ \A t \in due \ ShownSet, u \in ShownSet : u < t
MonthsAreNotSkipped ==
  occurring.rule.freq = "MONTHLY" =>
    \A t \in ShownSet :
      LET days == localDay(occurring.start, occurring.zone)
      IN /\ MonthsBetween(days, localDay(t, occurring.zone)) % occurring.rule.interval = 0
         /\ CivilOf[localDay(t, occurring.zone)].day <= CivilOf[days].day
(* After a sync that answered ok the calendar shows what the feed means, and   *)
(* after one that failed the beginning of it, or what it showed before: never  *)
(* an occurrence twice, never the occurrences of two syncs.                    *)
CalendarIsOneSync ==
  /\ sync = "ok" => calendar = loop.found
  /\ sync = "store" => Len(calendar) <= Len(loop.found) /\ calendar = SubSeq(loop.found, 1, Len(calendar))
  /\ \A j, k \in DOMAIN calendar : j < k => calendar[j] < calendar[k]
(* An event of the feed has the last title and date given since its own BEGIN, *)
(* and one without a date, or cancelled, is not there (reset).                 *)
LastOf(kinds, from, to) ==
  LET found == {n \in from..to : lines[n] \in kinds} IN IF found = {} THEN 0 ELSE CHOOSE n \in found : \A m \in found : m <= n
ItsOwn(from, to) ==
  LET dated == LastOf({"DTSTART", "DTSTART of no date"}, from, to)
  IN [summary |-> LastOf({"SUMMARY"}, from, to),
      start |-> IF dated > 0 /\ lines[dated] = "DTSTART" THEN dated ELSE 0,
      status |-> IF LastOf({"STATUS:CANCELLED"}, from, to) > 0 THEN "CANCELLED" ELSE "none"]
EventsAreTheirOwn ==
  LET ends == {n \in DOMAIN lines : lines[n] = "END:VEVENT"}
      begin(n) == LastOf({"BEGIN:VEVENT", "END:VEVENT"}, 1, n - 1)
      whole == {n \in ends : begin(n) > 0 /\ lines[begin(n)] = "BEGIN:VEVENT"}
      kept == {ItsOwn(begin(n), n) : n \in whole}
      due == {b \in kept : b.start # 0 /\ b.status = "none"}
  IN {parsed[k] : k \in DOMAIN parsed} = due /\ Len(parsed) = Cardinality(due)

-----------------------------------------------------------------------------
(* The balance pull (connectors/mercury.ts): the accounts page by page, then   *)
(* the transactions of the last 90 days of each cash account by offset, newest *)
(* first, while money moves; and the week's row of balance_snapshots.          *)
CONSTANTS
  Accounts,          \* in the order the bank lists them: [id, cash: BOOLEAN]
  Amounts,           \* of a payment, in or out
  BANK_PAGE_SIZE, MAX_PAGES,
  MaxPayments,       \* bound: money moving
  MaxPulls,          \* bound: pulls
  MaxBankWeek            \* bound: weeks

VARIABLES
  balance,           \* account -> money on it
  ledger,            \* account -> what was sent in the window, newest first: [amount, internal]
  bankWeek, payments, pulls,
  pull,              \* the pull under way, or answered
  snapshots,         \* week -> [cash, burn], or NoRow
  before             \* history: balance and ledger when the pull began, and what moved since
bankVars == <<balance, ledger, bankWeek, payments, pulls, pull, snapshots, before>>

Ids == {Accounts[k].id : k \in DOMAIN Accounts}
isCashAccount(k) == Accounts[k].cash
NoRow == [cash |-> 0, burn |-> -1]
NoPull == [at |-> "idle", one |-> FALSE, week |-> 0, seen |-> <<>>, pages |-> 0, todo |-> <<>>, offset |-> 0, found |-> <<>>]
Sum(s) == FoldLeft(LAMBDA x, y : x + y, 0, s)
countsTowardBurn(t) == ~t.internal
(* Two decimals and the thirty days of ninety are left out: what is spent in   *)
(* the window, nothing when more came in.                                      *)
trailingMonthlyBurn(txs) ==
  LET counted == SelectSeq(txs, countsTowardBurn)
      net == Sum([k \in DOMAIN counted |-> counted[k].amount])
  IN IF net >= 0 THEN 0 ELSE -net
cashBalance(seen) == Sum([k \in DOMAIN seen |-> IF isCashAccount(seen[k].k) THEN seen[k].balance ELSE 0])
summarizeBalance(seen, txs) == [cash |-> cashBalance(seen), burn |-> trailingMonthlyBurn(txs)]

BankInit ==
  /\ balance = [a \in Ids |-> 2] /\ ledger = [a \in Ids |-> <<>>]
  /\ bankWeek = 1 /\ payments = 0 /\ pulls = 0 /\ pull = NoPull
  /\ snapshots = [w \in 1..MaxBankWeek |-> NoRow]
  /\ before = [ledger |-> ledger, balance |-> balance, payments |-> 0]

-----------------------------------------------------------------------------
bank == <<balance, ledger, bankWeek, payments>>
(* The nightly pass hands an empty cursor: one page of accounts is read.       *)
BankBegin(nightly) ==
  /\ pull.at \in {"idle", "ok", "failed"} /\ pulls < MaxPulls /\ pulls' = pulls + 1
  /\ pull' = [NoPull EXCEPT !.at = "accounts", !.week = bankWeek, !.one = nightly]
  /\ before' = [ledger |-> ledger, balance |-> balance, payments |-> payments]
  /\ UNCHANGED <<bank, snapshots>>
(* start_after the last account seen.                                          *)
AccountsPage ==
  LET from == Len(pull.seen)
      rows == [j \in 1..(IF Len(Accounts) - from < BANK_PAGE_SIZE THEN Len(Accounts) - from ELSE BANK_PAGE_SIZE) |->
                 [k |-> from + j, balance |-> balance[Accounts[from + j].id]]]
      next == from + Len(rows) < Len(Accounts)
      seen == pull.seen \o rows
      done == ~next \/ Len(rows) = 0 \/ pull.one \/ pull.pages + 1 >= MAX_PAGES
  IN /\ pull.at = "accounts"
     /\ pull' = [pull EXCEPT !.seen = seen, !.pages = IF done THEN 0 ELSE @ + 1,
                             !.at = IF done THEN "transactions" ELSE @,
                             !.todo = IF done THEN SelectSeq([k \in DOMAIN seen |-> seen[k].k], isCashAccount) ELSE @]
     /\ UNCHANGED <<bank, pulls, snapshots, before>>
(* No row, the whole total, or a page that is not full.                        *)
LastPage(rows, offset, total) == Len(rows) = 0 \/ offset >= total \/ Len(rows) < BANK_PAGE_SIZE
TransactionsPage ==
  LET all == ledger[Accounts[Head(pull.todo)].id]
      rows == SubSeq(all, pull.offset + 1, IF pull.offset + BANK_PAGE_SIZE < Len(all) THEN pull.offset + BANK_PAGE_SIZE ELSE Len(all))
      offset == pull.offset + Len(rows)
      done == LastPage(rows, offset, Len(all)) \/ pull.pages + 1 >= MAX_PAGES
  IN /\ pull.at = "transactions" /\ pull.todo # <<>>
     /\ pull' = [pull EXCEPT !.found = @ \o rows, !.pages = IF done THEN 0 ELSE @ + 1,
                             !.offset = IF done THEN 0 ELSE offset, !.todo = IF done THEN Tail(@) ELSE @]
     /\ UNCHANGED <<bank, pulls, snapshots, before>>
(* One row a week, of the week the pull began in: the newer pull's.            *)
persistSnapshot ==
  /\ pull.at = "transactions" /\ pull.todo = <<>>
  /\ snapshots' = [snapshots EXCEPT ![pull.week] = summarizeBalance(pull.seen, pull.found)]
  /\ pull' = [pull EXCEPT !.at = "ok"]
  /\ UNCHANGED <<bank, pulls, before>>
PullFails ==
  /\ pull.at \in {"accounts", "transactions"}
  /\ pull' = [pull EXCEPT !.at = "failed"] /\ UNCHANGED <<bank, pulls, snapshots, before>>

(* A payment is sent, or money moved between two accounts.                     *)
Moves(moved) ==
  /\ payments < MaxPayments /\ payments' = payments + 1
  /\ ledger' = [a \in Ids |-> (IF a \in DOMAIN moved THEN <<moved[a]>> ELSE <<>>) \o ledger[a]]
  /\ balance' = [a \in Ids |-> balance[a] + (IF a \in DOMAIN moved THEN moved[a].amount ELSE 0)]
  /\ UNCHANGED <<bankWeek, pulls, pull, snapshots, before>>
Tx(amount, internal) == [amount |-> amount, internal |-> internal]
CashIds == {Accounts[k].id : k \in {j \in DOMAIN Accounts : isCashAccount(j)}}
Pay == \E a \in CashIds, n \in Amounts : Moves([x \in {a} |-> Tx(n, FALSE)])
Transfer ==
  \E a, b \in CashIds : a # b /\ Moves([x \in {a, b} |-> IF x = a THEN Tx(-1, TRUE) ELSE Tx(1, TRUE)])
(* A week passes, and what is oldest leaves the window of an account.          *)
NextWeek ==
  /\ bankWeek < MaxBankWeek /\ bankWeek' = bankWeek + 1
  /\ \E a \in Ids : ledger' = [ledger EXCEPT ![a] = IF @ = <<>> THEN @ ELSE Front(@)]
  /\ payments' = payments /\ UNCHANGED <<balance, pulls, pull, snapshots, before>>
BankNext ==
  \/ BankBegin(TRUE) \/ BankBegin(FALSE) \/ AccountsPage \/ TransactionsPage \/ persistSnapshot \/ PullFails
  \/ Pay \/ Transfer \/ NextWeek

-----------------------------------------------------------------------------
Within ==
  /\ Len(Accounts) <= BANK_PAGE_SIZE * (IF pull.one THEN 1 ELSE MAX_PAGES)
  /\ \A a \in Ids : Len(ledger[a]) <= BANK_PAGE_SIZE * MAX_PAGES
OfAll(of) == FlattenSeq([k \in DOMAIN Accounts |-> IF isCashAccount(k) THEN of[Accounts[k].id] ELSE <<>>])
Quiet == payments = before.payments /\ bankWeek = pull.week
(* A pull during which no money moved stores the cash there is and the burn of *)
(* the whole window, wherever the pages end.                                   *)
QuietPullIsTrue ==
  pull.at = "ok" /\ Quiet /\ Within =>
    snapshots[pull.week] =
      [cash |-> Sum([k \in DOMAIN Accounts |-> IF isCashAccount(k) THEN balance[Accounts[k].id] ELSE 0]),
       burn |-> trailingMonthlyBurn(OfAll(ledger))]
(* Money that moves meanwhile shifts the pages: what was sent before and is    *)
(* still in the window is counted all the same, and some of it once more, but  *)
(* not more often than something was sent.                                     *)
Times(t, s) == Cardinality({k \in DOMAIN s : s[k] = t})
Every == {Tx(n, i) : n \in Amounts \cup {-1, 1}, i \in BOOLEAN}
NothingIsLeftOut ==
  pull.at = "ok" /\ bankWeek = pull.week /\ Within =>
    LET sent == OfAll(before.ledger)
    IN /\ \A t \in Every : Times(t, pull.found) >= Times(t, sent)
       /\ Len(pull.found) <= Len(sent) + 2 * (payments - before.payments)

-----------------------------------------------------------------------------
(* The GitHub sync (connectors/github.ts): three requests, then the release    *)
(* rows of the calendar and the points of two metrics of the deck, each kind   *)
(* deleted and written again row by row, with no transaction around it.        *)
CONSTANTS
  RELEASES,       \* releases in the one page that is read
  Weeks,           \* weeks of commits that are kept: six
  MaxReleases, MaxHubWeek, MaxSyncs  \* bounds

VARIABLES
  releases,        \* upstream, newest first: [n, draft]
  stars, hubWeek,     \* upstream: stars, the week that runs
  hub,             \* the sync: [at, metric, releases, stars, week, commits, todo]
  shown,           \* the source's calendar rows, by release
  hubPoints,          \* metric -> its points [week, value]
  syncs,
  said, torn       \* history: the commits last written to the end; a sync failed within them since
hubVars == <<releases, stars, hubWeek, hub, shown, hubPoints, syncs, said, torn>>
upstream == <<releases, stars, hubWeek>>

Idle == [at |-> "idle", metric |-> "none", releases |-> {}, stars |-> 0, week |-> 0, commits |-> {}, todo |-> {}]
GitHubInit ==
  /\ releases = <<>> /\ stars = 0 /\ hubWeek = 1 /\ hub = Idle
  /\ shown = {} /\ hubPoints = [m \in {"stars", "commits"} |-> {}] /\ syncs = 0
  /\ said = {} /\ torn = FALSE

Point(w, value) == [week |-> w, value |-> value]
(* The weeks GitHub has counted the commits of, each with a number of its own. *)
CommitsUpTo(w) == {Point(v, v * v) : v \in 1..w}
LastWeeks(S) == {p \in S : Cardinality({q \in S : q.week > p.week}) < Weeks}
Newest == {releases[k] : k \in 1..(IF Len(releases) < RELEASES THEN Len(releases) ELSE RELEASES)}
Named(page) == {r \in page : ~r.draft}

-----------------------------------------------------------------------------
(* A sync; another one runs only when this one has answered (SourceSync).      *)
GitHubBegin ==
  /\ hub.at \in {"idle", "ok", "failed"} /\ syncs < MaxSyncs /\ syncs' = syncs + 1
  /\ hub' = [Idle EXCEPT !.at = "repo"] /\ UNCHANGED <<upstream, shown, hubPoints, said, torn>>
FetchRepo == hub.at = "repo" /\ hub' = [hub EXCEPT !.at = "releases", !.stars = stars]
FetchReleases == hub.at = "releases" /\ hub' = [hub EXCEPT !.at = "commits", !.releases = Newest]
(* 202 while GitHub counts: no weeks.                                          *)
FetchCommits ==
  /\ hub.at = "commits"
  /\ \E commits \in {{}, CommitsUpTo(hubWeek)} :
       hub' = [hub EXCEPT !.at = "clear", !.commits = commits, !.week = hubWeek]
Fetches == (FetchRepo \/ FetchReleases \/ FetchCommits) /\ UNCHANGED <<upstream, shown, hubPoints, syncs, said, torn>>

replaceCalendarReleases ==
  /\ \/ /\ hub.at = "clear" /\ shown' = {}
        /\ hub' = [hub EXCEPT !.at = "rows", !.todo = Named(hub.releases)]
     \/ /\ hub.at = "rows" /\ \E r \in hub.todo :
            /\ \A s \in hub.todo : s.n <= r.n
            /\ shown' = shown \cup {r} /\ hub' = [hub EXCEPT !.todo = @ \ {r}]
     \/ /\ hub.at = "rows" /\ hub.todo = {} /\ UNCHANGED shown
        /\ hub' = [hub EXCEPT !.at = "define", !.metric = "stars"]
  /\ UNCHANGED <<upstream, hubPoints, syncs, said, torn>>

(* A metric is put again and its points are deleted; then each is written.     *)
PointsOf(m) == IF m = "stars" THEN {Point(hub.week, hub.stars)} ELSE LastWeeks(hub.commits)
upsertWbrMetric ==
  /\ \/ /\ hub.at = "define" /\ hubPoints' = [hubPoints EXCEPT ![hub.metric] = {}]
        /\ hub' = [hub EXCEPT !.at = "points", !.todo = PointsOf(hub.metric)]
     \/ /\ hub.at = "points" /\ \E p \in hub.todo :
            /\ \A q \in hub.todo : p.week <= q.week
            /\ hubPoints' = [hubPoints EXCEPT ![hub.metric] = @ \cup {p}]
            /\ hub' = [hub EXCEPT !.todo = @ \ {p}]
  /\ UNCHANGED <<upstream, shown, syncs, said, torn>>
(* The stars, and the commits if there are any; then the answer.               *)
writeWbrContext ==
  /\ hub.at = "points" /\ hub.todo = {}
  /\ hub' = IF hub.metric = "stars" /\ hub.commits # {}
              THEN [hub EXCEPT !.at = "define", !.metric = "commits"]
              ELSE [hub EXCEPT !.at = "answer"]
  /\ IF hub.metric = "commits" THEN said' = PointsOf("commits") /\ torn' = FALSE ELSE UNCHANGED <<said, torn>>
  /\ UNCHANGED <<upstream, shown, hubPoints, syncs>>
syncGitHub ==
  /\ hub.at = "answer" /\ hub' = [hub EXCEPT !.at = "ok"]
  /\ UNCHANGED <<upstream, shown, hubPoints, syncs, said, torn>>
(* A request that is not answered well, a statement that fails: what is        *)
(* written stays.                                                              *)
Fails ==
  /\ hub.at \notin {"idle", "ok", "failed"} /\ hub' = [hub EXCEPT !.at = "failed"]
  /\ torn' = (torn \/ (hub.at = "points" /\ hub.metric = "commits"))
  /\ UNCHANGED <<upstream, shown, hubPoints, syncs, said>>

Publish(draft) ==
  /\ Len(releases) < MaxReleases
  /\ releases' = <<[n |-> Len(releases) + 1, draft |-> draft]>> \o releases
  /\ UNCHANGED <<stars, hubWeek, hub, shown, hubPoints, syncs, said, torn>>
WeekEnds ==
  /\ hubWeek < MaxHubWeek /\ hubWeek' = hubWeek + 1 /\ stars' \in {stars, stars + 1}
  /\ UNCHANGED <<releases, hub, shown, hubPoints, syncs, said, torn>>
GitHubNext ==
  \/ GitHubBegin \/ Fetches \/ replaceCalendarReleases \/ upsertWbrMetric \/ writeWbrContext
  \/ syncGitHub \/ Fails \/ WeekEnds \/ \E draft \in BOOLEAN : Publish(draft)

-----------------------------------------------------------------------------
(* A sync that answered ok has put all it fetched in place of all there was.   *)
AnsweredIsWritten ==
  hub.at = "ok" =>
    /\ shown = Named(hub.releases) /\ hubPoints["stars"] = {Point(hub.week, hub.stars)}
    /\ hub.commits # {} => hubPoints["commits"] = LastWeeks(hub.commits)
(* While GitHub still counts the commits, the weeks written before stay on the *)
(* deck, unless a sync failed while it was replacing them: then a sync that    *)
(* gets a 202 answers ok with weeks missing.                                   *)
CommitsSurvive == hub.at \in {"idle", "ok"} /\ ~torn => hubPoints["commits"] = said
(* A failure leaves no mixture: the rows are of one sync.                      *)
ReleasesAreOfOnePage ==
  \A r, s \in shown : r.n - s.n < RELEASES
=============================================================================
