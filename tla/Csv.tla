-------------------------------- MODULE Csv --------------------------------
(* CSV files: how a text is read, and how what was read is imported.           *)
EXTENDS Integers, Sequences, FiniteSets

(* parseCsv of src/src/core/csv-parse.ts, one character per step.  A character  *)
(* is a letter or what the parser tells apart from one.  Bad rows are reported  *)
(* by line, so the line numbers and the rows that are passed over matter.       *)
CONSTANTS MaxLength   \* bound: characters in a file

Chars == {"a", "blank", "comma", "quote", "newline"}   \* "\r" is dropped outside quotes
Texts == UNION {[1..n -> Chars] : n \in 0..MaxLength}

ASSUME LengthAssumption == MaxLength \in Nat

VARIABLES
  text, i,       \* the file and the next character
  field, row,    \* what is being read
  inQuotes, line, rowStart, sawContent,
  records,       \* [line, values]
  verdict        \* "reading", "ok", "unclosed", "empty"
parseVars == <<text, i, field, row, inQuotes, line, rowStart, sawContent, records, verdict>>

ParseInit ==
  /\ text \in Texts /\ i = 1 /\ field = <<>> /\ row = <<>> /\ inQuotes = FALSE
  /\ line = 1 /\ rowStart = 1 /\ sawContent = FALSE /\ records = <<>>
  /\ verdict = IF text = <<>> THEN "empty" ELSE "reading"

Reading == verdict = "reading" /\ i <= Len(text)
Read(c) == Reading /\ text[i] = c

(* Inside quotes: a doubled quote is one, a single quote ends it.              *)
Escaped ==
  /\ Read("quote") /\ inQuotes /\ i < Len(text) /\ text[i + 1] = "quote"
  /\ field' = Append(field, "quote") /\ i' = i + 2
  /\ UNCHANGED <<text, row, inQuotes, line, rowStart, sawContent, records, verdict>>
Unquote ==
  /\ Read("quote") /\ inQuotes /\ ~(i < Len(text) /\ text[i + 1] = "quote")
  /\ inQuotes' = FALSE /\ i' = i + 1
  /\ UNCHANGED <<text, field, row, line, rowStart, sawContent, records, verdict>>
Quoted ==
  /\ Reading /\ inQuotes /\ text[i] # "quote"
  /\ line' = IF text[i] = "newline" THEN line + 1 ELSE line
  /\ field' = Append(field, text[i]) /\ sawContent' = TRUE /\ i' = i + 1
  /\ UNCHANGED <<text, row, inQuotes, rowStart, records, verdict>>

Quote ==
  /\ Read("quote") /\ ~inQuotes /\ inQuotes' = TRUE /\ i' = i + 1
  /\ UNCHANGED <<text, field, row, line, rowStart, sawContent, records, verdict>>
Comma ==
  /\ Read("comma") /\ ~inQuotes /\ row' = Append(row, field) /\ field' = <<>> /\ i' = i + 1
  /\ UNCHANGED <<text, inQuotes, line, rowStart, sawContent, records, verdict>>
Plain ==
  /\ Read("a") \/ Read("blank")
  /\ ~inQuotes /\ field' = Append(field, text[i]) /\ i' = i + 1
  /\ sawContent' = (sawContent \/ text[i] = "a")
  /\ UNCHANGED <<text, row, inQuotes, line, rowStart, records, verdict>>

(* pushRow: a row in which nothing was seen, or only empty fields, is no record. *)
rowIsEmpty(values) == \A k \in DOMAIN values : values[k] = <<>>
pushRow(values, next) ==
  /\ records' = IF ~sawContent \/ rowIsEmpty(values) THEN records
                ELSE Append(records, [line |-> rowStart, values |-> values])
  /\ row' = <<>> /\ field' = <<>> /\ rowStart' = next /\ sawContent' = FALSE
BugStaleStart ==
  /\ Read("newline") /\ ~inQuotes
  /\ line' = line + 1 /\ i' = i + 1
  /\ IF sawContent THEN pushRow(Append(row, field), line + 1)
     ELSE row' = <<>> /\ field' = <<>> /\ UNCHANGED <<records, rowStart, sawContent>>
  /\ UNCHANGED <<text, inQuotes, verdict>>
Newline ==
  /\ Read("newline") /\ ~inQuotes
  /\ line' = line + 1 /\ pushRow(Append(row, field), line + 1) /\ i' = i + 1
  /\ UNCHANGED <<text, inQuotes, verdict>>

NoHeader(values) ==
  \A k \in DOMAIN values : \A n \in DOMAIN values[k] : values[k][n] \in {"blank", "newline"}
Finish ==
  /\ verdict = "reading" /\ i > Len(text)
  /\ IF inQuotes THEN verdict' = "unclosed" /\ UNCHANGED <<records, row, field, rowStart, sawContent>>
     ELSE /\ IF field # <<>> \/ row # <<>> THEN pushRow(Append(row, field), line)
             ELSE UNCHANGED <<records, row, field, rowStart, sawContent>>
          /\ verdict' = IF records' = <<>> \/ NoHeader(records'[1].values) THEN "empty" ELSE "ok"
  /\ UNCHANGED <<text, i, inQuotes, line>>

ParseNext == Escaped \/ Unquote \/ Quoted \/ Quote \/ Comma \/ Plain \/ Newline \/ Finish
ParseSpec == ParseInit /\ [][ParseNext]_parseVars

-----------------------------------------------------------------------------
(* What the text says, by counting: a character is quoted when an odd number   *)
(* of quotes stands before it, and a row ends at an unquoted newline.          *)
Before(c, k) == Cardinality({j \in 1..(k - 1) : text[j] = c})
IsQuoted(k) == Before("quote", k) % 2 = 1
Ends == {k \in 1..Len(text) : text[k] = "newline" /\ ~IsQuoted(k)}
Starts == {k \in 1..Len(text) : k = 1 \/ (k - 1) \in Ends}
Extent(s) == {k \in s..Len(text) : \A e \in Ends : e < k => e < s}
IsContent(k) == text[k] = "a" \/ (IsQuoted(k) /\ text[k] # "quote")
IsSeparator(k) == text[k] = "comma" /\ ~IsQuoted(k)
HasContent(s) == \E k \in Extent(s) : IsContent(k)
Fields(s) == 1 + Cardinality({k \in Extent(s) : IsSeparator(k)})
RowsUpTo(n) ==
  {<<1 + Before("newline", s), Fields(s)>> : s \in {s \in Starts : s < n /\ HasContent(s)}}
Reported == {<<records[k].line, Len(records[k].values)>> : k \in DOMAIN records}

(* "Tracks physical line numbers so bad rows can be reported instead of        *)
(* dropped": every row with something in it is a record, at the line it starts *)
(* on, with as many values as it has separators for; a quote left open is an   *)
(* error and nothing else is.                                                  *)
RowsAreReported ==
  /\ verdict = "unclosed" <=> verdict # "reading" /\ IsQuoted(Len(text) + 1)
  /\ verdict = "ok" => Reported = RowsUpTo(Len(text) + 1)

(* Why: the row that is being read starts at s, and up to here the parser has  *)
(* told every quote, line, separator and piece of content for what it is.      *)
RowFrom(s, k, n, saw) ==
  /\ s = 1 \/ (s - 1) \in Ends
  /\ \A e \in Ends : e < k => e < s
  /\ n = Cardinality({j \in s..(k - 1) : IsSeparator(j)})
  /\ saw <=> \E j \in s..(k - 1) : IsContent(j)
RowInHand(s) ==
  /\ RowFrom(s, i, Len(row), sawContent)
  /\ rowStart = 1 + Before("newline", s) /\ Reported = RowsUpTo(s)
  /\ s = i => field = <<>>
ParseInv ==
  /\ text \in Texts /\ i \in 1..(Len(text) + 1)
  /\ field \in Seq(Chars) /\ row \in Seq(Seq(Chars)) /\ sawContent \in BOOLEAN
  /\ inQuotes \in BOOLEAN /\ records \in Seq([line : Nat, values : Seq(Seq(Chars))])
  /\ line \in Nat /\ rowStart \in Nat
  /\ verdict = "reading" =>
       /\ inQuotes <=> IsQuoted(i)
       /\ line = 1 + Before("newline", i)
       /\ sawContent => field # <<>> \/ ~rowIsEmpty(row)
       /\ \E s \in 1..i : RowInHand(s)
  /\ verdict # "reading" => RowsAreReported

-----------------------------------------------------------------------------
(* Importing a CSV file (src/src/core/csv-import.ts): which kind and mapping a  *)
(* file is read with, validation of every row, one transaction, and the plan    *)
(* saved for the next import (src/src/app/api/v1/import/route.ts, and the same  *)
(* steps in import_csv of mcp-write-tools.ts).  Imports and deletions of        *)
(* persons overlap at every await.                                             *)
CONSTANTS
  Subjects,     \* the persons a file may name
  Files,        \* file -> columns, and rows: person, event, well formed or not
  Imports,      \* requests, each made once
  Uploads,      \* Imports -> the files, kinds and mappings a request may come with
  MaxFailures,  \* bound: statements that fail
  MaxErased     \* bound: persons deleted

ASSUME CsvAssumption ==
  /\ MaxFailures \in Nat /\ MaxErased \in Nat
  /\ \A f \in DOMAIN Files : \A r \in Files[f].rows : r.person \in Subjects
  /\ \A q \in Imports : \A a \in Uploads[q] : a.file \in DOMAIN Files /\ a.preview \in BOOLEAN

NoKind == "none"
UserCols == {"person_id", "email"}
EventCols == {"person_id", "timestamp", "event"}

VARIABLES
  people,     \* person -> "none", "stub" (made for an event) or "mail"
  activity,   \* person, event
  erased,     \* tombstones
  plan,       \* the csv source's stored kind and mapping
  req,        \* the requests
  failures,
  begun       \* history: request -> persons erased when it began
importVars == <<people, activity, erased, plan, req, failures, begun>>

NoPlan == [kind |-> NoKind, mapping |-> {}]
NoImport == [pc |-> "idle", file |-> "none", kind |-> NoKind, mapping |-> {}, preview |-> FALSE,
              used |-> NoPlan, tombs |-> {}, before |-> 0, result |-> 0, added |-> 0, alone |-> TRUE]
ImportInit ==
  /\ people \in [Subjects -> {"none", "mail"}] /\ activity = {} /\ erased = {} /\ plan = NoPlan
  /\ req = [q \in Imports |-> NoImport] /\ failures = 0 /\ begun = [q \in Imports |-> {}]

-----------------------------------------------------------------------------
(* csv-parse.ts, over the columns it knows: aliasLookup, suggestMapping,       *)
(* detectKind.  A mapping is the set of columns it takes, each to its field.   *)
fieldsFor(kind) == IF kind = "users" THEN UserCols ELSE EventCols
suggestMapping(cols, kind) == cols \cap fieldsFor(kind)
detectKind(cols) ==
  CASE {"timestamp", "event"} \subseteq suggestMapping(cols, "events") -> "events"
    [] ~({"timestamp", "event"} \subseteq cols) /\ suggestMapping(cols, "users") # {} -> "users"
    [] OTHER -> NoKind

(* resolveKindAndMapping; NoPlan is its error.                                 *)
Enough(kind, mapping) ==
  IF kind = "events" THEN EventCols \subseteq mapping ELSE mapping \cap UserCols # {}
resolveKindAndMapping(cols, kind, mapping) ==
  LET k == IF kind = NoKind THEN detectKind(cols) ELSE kind
      m == IF mapping = {} THEN suggestMapping(cols, k) ELSE mapping
  IN IF k # NoKind /\ m \subseteq cols \cap fieldsFor(k) /\ Enough(k, m)
     THEN [kind |-> k, mapping |-> m] ELSE NoPlan

Rows(q) == Files[req[q].file].rows
Cols_(q) == Files[req[q].file].cols
LiveRows(q) == {r \in Rows(q) : r.person \notin req[q].tombs}
ImportAt(q, pc) == req[q].pc = pc
Proceeds(q, r) == req' = [req EXCEPT ![q] = r]
Running == {q \in Imports : req[q].pc \notin {"idle", "done", "failed", "invalid", "preview"}}
(* A write by anyone else makes a count taken around it say less.              *)
Disturb(rs, own) == [p \in Imports |->
  IF p \notin own /\ rs[p].pc \in {"write", "recount"} THEN [rs[p] EXCEPT !.alone = FALSE] ELSE rs[p]]

-----------------------------------------------------------------------------
BeginImport(q) ==
  /\ ImportAt(q, "idle")
  /\ \E a \in Uploads[q] :
       Proceeds(q, [NoImport EXCEPT !.pc = "load", !.file = a.file, !.kind = a.kind,
                  !.mapping = a.mapping, !.preview = a.preview])
  /\ begun' = [begun EXCEPT ![q] = erased] /\ UNCHANGED <<people, activity, erased, plan, failures>>

(* What the request leaves out comes from the stored plan; then everything is  *)
(* checked, and one bad row refuses the file.                                  *)
Load(q) ==
  LET kind == IF req[q].kind = NoKind THEN plan.kind ELSE req[q].kind
      mapping == IF req[q].mapping = {} THEN plan.mapping ELSE req[q].mapping
      used == resolveKindAndMapping(Cols_(q), kind, mapping)
      bad == used = NoPlan \/ (~req[q].preview /\ \E r \in Rows(q) : ~r.good)
  IN /\ ImportAt(q, "load")
     /\ Proceeds(q, [req[q] EXCEPT !.pc = IF bad THEN "invalid" ELSE IF req[q].preview THEN "preview"
                                      ELSE "tombs", !.used = used, !.mapping = mapping])
     /\ UNCHANGED <<people, activity, erased, plan, failures, begun>>

LoadTombstones(q) ==
  /\ ImportAt(q, "tombs") /\ Proceeds(q, [req[q] EXCEPT !.pc = "count", !.tombs = erased])
  /\ UNCHANGED <<people, activity, erased, plan, failures, begun>>

Counted(kind, ps, events) ==
  IF kind = "users" THEN Cardinality({p \in Subjects : ps[p] # "none"}) ELSE Cardinality(events)
Stored(kind) == Counted(kind, people, activity)
CountBefore(q) ==
  /\ ImportAt(q, "count")
  /\ Proceeds(q, [req[q] EXCEPT !.pc = "write", !.before = Stored(req[q].used.kind), !.alone = TRUE])
  /\ UNCHANGED <<people, activity, erased, plan, failures, begun>>

(* One transaction: users are overwritten, an email the file has no column for *)
(* with nothing; events make stubs of persons not there and skip events that   *)
(* are.                                                                        *)
WriteUsers(q) ==
  /\ people' = [p \in Subjects |->
       IF \E r \in LiveRows(q) : r.person = p
       THEN IF "email" \in req[q].used.mapping THEN "mail" ELSE "stub" ELSE people[p]]
  /\ UNCHANGED activity
BugStubsOfAll(q) ==
  /\ people' = [p \in Subjects |->
       IF people[p] = "none" /\ \E r \in Rows(q) : r.person = p THEN "stub" ELSE people[p]]
  /\ activity' = activity \cup {[person |-> r.person, event |-> r.event] : r \in LiveRows(q)}
WriteEvents(q) ==
  /\ people' = [p \in Subjects |->
       IF people[p] = "none" /\ \E r \in LiveRows(q) : r.person = p THEN "stub" ELSE people[p]]
  /\ activity' = activity \cup {[person |-> r.person, event |-> r.event] : r \in LiveRows(q)}
Write(q) ==
  /\ ImportAt(q, "write")
  /\ IF req[q].used.kind = "users" THEN WriteUsers(q) ELSE WriteEvents(q)
  /\ LET kind == req[q].used.kind
         added == Counted(kind, people', activity') - Stored(kind)
     IN req' = Disturb([req EXCEPT ![q].pc = "recount", ![q].added = added], {q})
  /\ UNCHANGED <<erased, plan, failures, begun>>

CountAfter(q) ==
  /\ ImportAt(q, "recount")
  /\ Proceeds(q, [req[q] EXCEPT !.pc = "save", !.result = Stored(req[q].used.kind) - req[q].before])
  /\ UNCHANGED <<people, activity, erased, plan, failures, begun>>

(* saveSourceConfig: the kind it turned out to be, and the mapping that was    *)
(* asked for or stored, not the one that was suggested.                        *)
SavePlan(q) ==
  /\ ImportAt(q, "save") /\ plan' = [kind |-> req[q].used.kind, mapping |-> req[q].mapping]
  /\ Proceeds(q, [req[q] EXCEPT !.pc = "done"])
  /\ UNCHANGED <<people, activity, erased, failures, begun>>

FailImport(q) ==
  /\ q \in Running /\ failures < MaxFailures /\ failures' = failures + 1
  /\ Proceeds(q, [req[q] EXCEPT !.pc = "failed"])
  /\ UNCHANGED <<people, activity, erased, plan, begun>>

(* The deletion of a person, People's steps in one.                            *)
Erase(p) ==
  /\ p \notin erased /\ Cardinality(erased) < MaxErased
  /\ erased' = erased \cup {p} /\ people' = [people EXCEPT ![p] = "none"]
  /\ activity' = {a \in activity : a.person # p}
  /\ req' = Disturb(req, {}) /\ UNCHANGED <<plan, failures, begun>>

ImportNext ==
  \/ \E q \in Imports : BeginImport(q) \/ Load(q) \/ LoadTombstones(q) \/ CountBefore(q) \/ Write(q)
                          \/ CountAfter(q) \/ SavePlan(q) \/ FailImport(q)
  \/ \E p \in Subjects : Erase(p)
ImportSpec == ImportInit /\ [][ImportNext]_importVars

-----------------------------------------------------------------------------
StoredInFull(r) ==
  \A l \in Files[r.file].rows : l.person \in erased \/
    /\ people[l.person] # "none"
    /\ r.used.kind = "events" => [person |-> l.person, event |-> l.event] \in activity

(* "Validate every row, then write in one transaction. Bad rows abort the      *)
(* import so nothing is silently dropped": of an import that was answered ok,  *)
(* every row of a person not erased since is stored, whatever imports and      *)
(* deletions ran beside it and whatever failed in others.                      *)
AnsweredIsStored ==
  \A q \in Imports : ImportAt(q, "done") => StoredInFull(req[q])

(* A person erased before an import begins is not put back by it, as a user or *)
(* as the stub of an event.                                                    *)
ErasedStayOut ==
  \A p \in Subjects :
    people[p] # "none" /\ p \in erased => \E q \in Imports : p \in erased \ begun[q] /\ ~ImportAt(q, "idle")

(* The number an import answers is what it added, unless another write fell    *)
(* between its two counts.                                                     *)
CountIsOurs ==
  \A q \in Imports : ImportAt(q, "done") /\ req[q].alone => req[q].result = req[q].added

(* An import that answers has stored what it says, nobody erased before it     *)
(* began, and alone it counts its own rows (runCsvImport).                     *)
ImportIsTrue == AnsweredIsStored /\ ErasedStayOut /\ CountIsOurs

(* Why: from the statement that reads them on, an import's tombstones hold who *)
(* was erased when it began, and nobody else than was erased; what it wrote    *)
(* goes only with its person; and a count around its transaction is off only   *)
(* after another write, which Disturb notes.                                   *)
RequestFields == DOMAIN NoImport
Tombstoned == {"count", "write", "recount", "save", "done"}
StagesWritten == {"recount", "save", "done"}
WellFormed(r) ==
  /\ DOMAIN r = RequestFields /\ r.alone \in BOOLEAN
  /\ r.pc # "idle" => r.file \in DOMAIN Files
TombsFit(q, r) ==
  r.pc \in Tombstoned => begun[q] \subseteq r.tombs /\ r.tombs \subseteq erased
CountsFit(r) ==
  r.alone =>
    /\ r.pc = "write" => r.before = Stored(r.used.kind)
    /\ r.pc = "recount" => r.added = Stored(r.used.kind) - r.before
    /\ r.pc \in {"save", "done"} => r.result = r.added
ImportFits(q, r) ==
  WellFormed(r) /\ TombsFit(q, r) /\ (r.pc \in StagesWritten => StoredInFull(r)) /\ CountsFit(r)
ImportInv ==
  /\ people \in [Subjects -> {"none", "stub", "mail"}] /\ erased \subseteq Subjects
  /\ req = [q \in Imports |-> req[q]] /\ begun = [q \in Imports |-> begun[q]]
  /\ \A q \in Imports : begun[q] \subseteq erased
  /\ \A q \in Imports : \A r \in {req[q]} : ImportFits(q, r)
  /\ ErasedStayOut
=============================================================================
