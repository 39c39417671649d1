------------------------------ MODULE WbrDeck ------------------------------
(* The WBR builder (core/wbr-builder.ts) behind POST and PATCH /api/v1/metrics *)
(* and define_metric: metric_defs rows, metric_points rows, and the deck, one  *)
(* JSON value of the config with every metric's source, lifecycle and order,   *)
(* which each call loads, changes and writes back; beside it the view's reads  *)
(* (loadWbrView). A call runs between its awaits as one step. Names, targets,  *)
(* units and owners are left out: each is the value given, else the row's.     *)
EXTENDS Integers, FiniteSets, Sequences, SequencesExt

CONSTANTS
  Metrics,
  Starters,   \* the starter metrics there are data for
  Ops,        \* calls of the builder and of the view
  Wishes      \* call -> the requests it may be

(* A request names a metric that can be, but for an accept, which names some   *)
(* or none; a definition has a source; a definition and a file have points.    *)
ASSUME DeckAssumption ==
  \A o \in Ops : \A r \in Wishes[o] :
    /\ r = [op |-> r.op, id |-> r.id, src |-> r.src, points |-> r.points, order |-> r.order]
    /\ r.op \in {"define", "edit", "accept", "retire", "reorder", "import", "view"}
    /\ r.op \in {"define", "edit", "retire", "import"} => r.id \in Metrics
    /\ r.op = "define" => r.src # "none"
    /\ r.points = <<>> \/ (r.points \in Seq(ToSet(r.points)) /\ r.op \in {"define", "import"})

VARIABLES
  specs,    \* the deck's JSON: metric -> [src, life], or Nothing,
  order,    \* and its order
  defs,     \* metric_defs: metric -> <<the place its sectionOrder names>>, or NoDef
  points,   \* metric_points by id: [id: metric, at, value]
  ops,
  audits,   \* calls with a metricDefine row in the audit log
  wanted,   \* history: metric -> what the calls answered so far ask of the deck
  alone     \* history: no two calls that write have overlapped
deckVars == <<specs, order, defs, points, ops, audits, wanted, alone>>

Nothing == [src |-> "none", life |-> "none"]
Spec_(src, life) == [src |-> src, life |-> life]
NoDef == <<>>
NoRequest == [op |-> "none", id |-> "none", src |-> "none", points |-> <<>>, order |-> <<>>]
NoCall == [at |-> "idle", req |-> NoRequest, meta |-> [specs |-> [m \in Metrics |-> Nothing], order |-> <<>>],
           row |-> NoDef, rows |-> [m \in Metrics |-> NoDef], queue |-> <<>>, todo |-> <<>>,
           byKey |-> <<>>, shown |-> {}, proposed |-> {}, asked |-> NoRequest]
Writes(o) == ops[o].req.op # "view"
Running(o) == ops[o].at \notin {"idle", "ok", "refused", "failed"}

DeckTypes ==
  /\ \A m \in Metrics : specs[m].life \in {"none", "active", "retired"}
  /\ \A k \in DOMAIN order : order[k] \in Metrics
  /\ audits \subseteq Ops /\ alone \in BOOLEAN

nextSectionOrder(orderIndex) == orderIndex + 1
IndexOf(s, m) == CHOOSE k \in DOMAIN s : s[k] = m /\ \A j \in 1..k - 1 : s[j] # m
Place(s, m) == IF m \in ToSet(s) THEN IndexOf(s, m) - 1 ELSE Len(s)
(* The metrics a starter may not be proposed for, and what a view shows.       *)
takenMetricIds(sp, df) ==
  {m \in Metrics : sp[m].life \in {"active", "retired"}}
  \cup {m \in Metrics : df[m] # NoDef /\ sp[m].life \in {"none", "active"}}
starterProposals(sp, df) == {m \in Starters : m \notin takenMetricIds(sp, df)}
Shown(sp, df) == {m \in Metrics : df[m] # NoDef /\ sp[m].life # "retired"}

-----------------------------------------------------------------------------
DeckInit ==
  /\ specs = [m \in Metrics |-> Nothing] /\ order = <<>> /\ defs = [m \in Metrics |-> NoDef]
  /\ points = <<>> /\ ops = [o \in Ops |-> NoCall] /\ audits = {}
  /\ wanted = [m \in Metrics |-> Nothing] /\ alone = TRUE

Stands(o, at) == ops[o].at = at
Goes(o, call) == ops' = [ops EXCEPT ![o] = call]
Ends(o, at) == Goes(o, [NoCall EXCEPT !.at = at, !.req = ops[o].req])
Id(o) == ops[o].req.id
Op(o) == ops[o].req.op
Defines(o) == Op(o) \in {"define", "edit", "accept"}

(* History: what the deck should say once call o is through with its metric,   *)
(* were it the only one.                                                       *)
Source(spec) == IF spec.src = "none" THEN "manual" ELSE spec.src
Asked(o) ==
  LET was == wanted[Id(o)]
      r == ops[o].asked
  IN CASE r.op = "retire" -> Spec_(Source(was), "retired")
       [] r.op = "import" -> Spec_("manual", was.life)
       [] r.op = "edit" -> Spec_(IF r.src = "none" THEN Source(was) ELSE r.src, "active")
       [] r.op = "accept" -> Spec_("count", "active")
       [] OTHER -> Spec_(r.src, "active")
Due(o) == IF Op(o) = "reorder" THEN wanted ELSE [wanted EXCEPT ![Id(o)] = Asked(o)]

Start(o) ==
  /\ Stands(o, "idle")
  /\ \E r \in Wishes[o] :
       /\ Goes(o, [NoCall EXCEPT !.req = r, !.asked = r, !.todo = r.points,
                        !.at = CASE r.op = "edit" -> "editRow" [] r.op = "accept" -> "list"
                                 [] r.op = "view" -> "viewDefs" [] OTHER -> "load"])
       /\ alone' = (alone /\ (r.op = "view" \/ \A p \in Ops : Running(p) => ~Writes(p)))
  /\ UNCHANGED <<specs, order, defs, points, audits, wanted>>

(* editMetric reads the row and the deck, and calls defineMetric.              *)
EditRow(o) ==
  /\ Stands(o, "editRow")
  /\ \/ defs[Id(o)] = NoDef /\ Ends(o, "refused")
     \/ defs[Id(o)] # NoDef /\ Goes(o, [ops[o] EXCEPT !.at = "editMeta"])
  /\ UNCHANGED <<specs, order, defs, points, audits, wanted, alone>>
\* Mutant: an edit with no source goes back to manual.
BugEditForgets(o) ==
  /\ Stands(o, "editMeta")
  /\ Goes(o, [ops[o] EXCEPT !.at = "load", !.req.src = IF @ = "none" THEN "manual" ELSE @])
  /\ UNCHANGED <<specs, order, defs, points, audits, wanted, alone>>
EditMeta(o) ==
  /\ Stands(o, "editMeta")
  /\ Goes(o, [ops[o] EXCEPT !.at = "load",
                   !.req.src = IF ops[o].req.src # "none" THEN ops[o].req.src ELSE Source(specs[Id(o)])])
  /\ UNCHANGED <<specs, order, defs, points, audits, wanted, alone>>
(* acceptStarterProposals lists the proposals, the deck before the rows, and   *)
(* takes those the founder ticked, or all.                                     *)
List(o) ==
  /\ Stands(o, "list") /\ Goes(o, [ops[o] EXCEPT !.at = "listDefs", !.meta = [specs |-> specs, order |-> order]])
  /\ UNCHANGED <<specs, order, defs, points, audits, wanted, alone>>
ListDefs(o) ==
  LET ids == ops[o].req.order
      chosen == SetToSeq({m \in starterProposals(ops[o].meta.specs, defs) : ids = <<>> \/ m \in ToSet(ids)})
  IN /\ Stands(o, "listDefs")
     /\ \/ chosen = <<>> /\ Ends(o, "refused")
        \/ /\ chosen # <<>>
           /\ Goes(o, [ops[o] EXCEPT !.at = "load", !.queue = chosen,
                        !.req = [@ EXCEPT !.id = chosen[1], !.src = "count"]])
     /\ UNCHANGED <<specs, order, defs, points, audits, wanted, alone>>

(* loadDeckMeta; reorderMetrics needs no more to write the deck.               *)
Load(o) ==
  LET given == ops[o].req.order
      kept == SelectSeq(order, LAMBDA m : m \notin ToSet(given) /\ specs[m].life # "retired")
  IN /\ Stands(o, "load")
     /\ \/ /\ Op(o) = "reorder"
           /\ Goes(o, [ops[o] EXCEPT !.at = "save", !.meta = [specs |-> specs, order |-> given \o kept]])
        \/ /\ Op(o) # "reorder"
           /\ Goes(o, [ops[o] EXCEPT !.at = "row", !.meta = [specs |-> specs, order |-> order]])
     /\ UNCHANGED <<specs, order, defs, points, audits, wanted, alone>>
(* The metric's row; what retire and import do with it.                        *)
Row(o) ==
  LET m == Id(o)
      meta == ops[o].meta
      src == Source(meta.specs[m])
      Saves(spec, od) ==
        Goes(o, [ops[o] EXCEPT !.at = "save", !.meta = [specs |-> [meta.specs EXCEPT ![m] = spec], order |-> od]])
  IN /\ Stands(o, "row")
     /\ \/ Defines(o) /\ Goes(o, [ops[o] EXCEPT !.at = "write", !.row = defs[m]])
        \/ Op(o) = "retire" /\ defs[m] = NoDef /\ meta.specs[m] = Nothing /\ Ends(o, "refused")
        \/ /\ Op(o) = "retire" /\ ~(defs[m] = NoDef /\ meta.specs[m] = Nothing)
           /\ Saves(Spec_(src, "retired"), SelectSeq(meta.order, LAMBDA x : x # m))
        \/ Op(o) = "import" /\ defs[m] = NoDef /\ Ends(o, "refused")
        \/ Op(o) = "import" /\ defs[m] # NoDef /\ src = "manual" /\ Goes(o, [ops[o] EXCEPT !.at = "points"])
        \/ /\ Op(o) = "import" /\ defs[m] # NoDef /\ src # "manual"
           /\ Saves(Spec_("manual", meta.specs[m].life), meta.order)
     /\ UNCHANGED <<specs, order, defs, points, audits, wanted, alone>>
(* defineMetric writes the row: an update puts back the place it read, and an  *)
(* insert fails when the row has come into being. A retired metric is revived. *)
Write(o) ==
  LET m == Id(o)
      meta == ops[o].meta
      fresh == ops[o].row = NoDef
      od == IF fresh /\ m \notin ToSet(meta.order) THEN Append(meta.order, m) ELSE meta.order
  IN /\ Stands(o, "write")
     /\ \/ fresh /\ defs[m] # NoDef /\ Ends(o, "failed") /\ UNCHANGED defs
        \/ /\ ~(fresh /\ defs[m] # NoDef)
           /\ defs' = [defs EXCEPT ![m] = IF fresh THEN <<nextSectionOrder(Place(meta.order, m))>> ELSE ops[o].row]
           /\ Goes(o, [ops[o] EXCEPT !.at = "save",
                !.meta = [specs |-> [meta.specs EXCEPT ![m] = Spec_(ops[o].req.src, "active")], order |-> od]])
     /\ UNCHANGED <<specs, order, points, audits, wanted, alone>>
(* saveDeckMeta, and what comes next: of the starters accepted, the next one.  *)
Save(o) ==
  LET more == Op(o) = "accept" /\ Len(ops[o].queue) > 1
      next == IF Op(o) = "reorder" THEN "defs"
              ELSE IF Op(o) = "import" \/ (Op(o) = "define" /\ ops[o].todo # <<>>) THEN "points" ELSE "audit"
  IN /\ Stands(o, "save") /\ specs' = ops[o].meta.specs /\ order' = ops[o].meta.order
     /\ \/ ~more /\ Goes(o, [ops[o] EXCEPT !.at = next]) /\ UNCHANGED wanted
        \/ /\ more /\ wanted' = Due(o)
           /\ Goes(o, [ops[o] EXCEPT !.at = "load", !.queue = Tail(ops[o].queue), !.req.id = ops[o].queue[2]])
     /\ UNCHANGED <<defs, points, audits, alone>>

(* reorderMetrics then gives every row of the deck's order its new place: an   *)
(* update makes no row.                                                        *)
ReadDefs(o) ==
  /\ Stands(o, "defs")
  /\ Goes(o, [ops[o] EXCEPT !.at = "move", !.rows = defs,
       !.queue = SetToSeq({m \in Metrics : defs[m] # NoDef /\ m \in ToSet(ops[o].meta.order)})])
  /\ UNCHANGED <<specs, order, defs, points, audits, wanted, alone>>
Move(o) ==
  LET q == ops[o].queue
      place == <<nextSectionOrder(Place(ops[o].meta.order, q[1]))>>
  IN /\ Stands(o, "move")
     /\ \/ q = <<>> /\ Goes(o, [ops[o] EXCEPT !.at = "audit"]) /\ UNCHANGED defs
        \/ /\ q # <<>> /\ Goes(o, [ops[o] EXCEPT !.queue = Tail(q)])
           /\ defs' = IF place = ops[o].rows[q[1]] THEN defs
                      ELSE [defs EXCEPT ![q[1]] = IF @ = NoDef THEN NoDef ELSE place]
     /\ UNCHANGED <<specs, order, points, audits, wanted, alone>>

(* upsertMetricPoints reads the rows once, into a map by week, where a row it  *)
(* writes itself has the id -1: another value for that week updates no row.    *)
pointKey(p) == p.at
Mine(id) == {k \in DOMAIN points : points[k].id = id}
LastOf(id, key) ==
  CHOOSE k \in Mine(id) : pointKey(points[k]) = key /\ \A j \in Mine(id) : pointKey(points[j]) = key => j <= k
ReadPoints(o) ==
  /\ Stands(o, "points")
  /\ Goes(o, [ops[o] EXCEPT !.at = "put",
       !.byKey = [t \in {pointKey(points[k]) : k \in Mine(Id(o))} |->
                    [row |-> LastOf(Id(o), t), value |-> points[LastOf(Id(o), t)].value]]])
  /\ UNCHANGED <<specs, order, defs, points, audits, wanted, alone>>
Put(o) ==
  LET p == Head(ops[o].todo)
      key == pointKey(p)
      known == ops[o].byKey
  IN /\ Stands(o, "put") /\ ops[o].todo # <<>>
     /\ \/ /\ key \in DOMAIN known
           /\ points' = IF known[key].row = -1 \/ known[key].value = p.value THEN points
                        ELSE [points EXCEPT ![known[key].row].value = p.value]
           /\ Goes(o, [ops[o] EXCEPT !.todo = Tail(ops[o].todo)])
        \/ /\ key \notin DOMAIN known
           /\ points' = Append(points, [id |-> Id(o), at |-> p.at, value |-> p.value])
           /\ Goes(o, [ops[o] EXCEPT !.todo = Tail(ops[o].todo),
                !.byKey = [t \in DOMAIN known \cup {key} |->
                             IF t = key THEN [row |-> -1, value |-> p.value] ELSE known[t]]])
     /\ UNCHANGED <<specs, order, defs, audits, wanted, alone>>
PutDone(o) ==
  /\ Stands(o, "put") /\ ops[o].todo = <<>> /\ Goes(o, [ops[o] EXCEPT !.at = "audit"])
  /\ UNCHANGED <<specs, order, defs, points, audits, wanted, alone>>

(* The route writes the audit row and answers.                                 *)
AnswerCall(o) ==
  /\ Stands(o, "audit") /\ Ends(o, "ok") /\ audits' = audits \cup {o} /\ wanted' = Due(o)
  /\ UNCHANGED <<specs, order, defs, points, alone>>

(* loadWbrView reads the rows, and later the deck.                             *)
ViewDefs(o) ==
  /\ Stands(o, "viewDefs") /\ Goes(o, [ops[o] EXCEPT !.at = "viewMeta", !.rows = defs])
  /\ UNCHANGED <<specs, order, defs, points, audits, wanted, alone>>
ViewMeta(o) ==
  /\ Stands(o, "viewMeta")
  /\ Goes(o, [NoCall EXCEPT !.at = "ok", !.req = ops[o].req,
               !.shown = Shown(specs, ops[o].rows), !.proposed = starterProposals(specs, ops[o].rows)])
  /\ UNCHANGED <<specs, order, defs, points, audits, wanted, alone>>

CallStep(o) ==
  \/ Start(o) \/ EditRow(o) \/ EditMeta(o) \/ List(o) \/ ListDefs(o) \/ Load(o) \/ Row(o) \/ Write(o)
  \/ Save(o) \/ ReadDefs(o) \/ Move(o) \/ ReadPoints(o) \/ Put(o) \/ PutDone(o) \/ AnswerCall(o)
  \/ ViewDefs(o) \/ ViewMeta(o)
DeckNext == \E o \in Ops : CallStep(o)
DeckSpec == DeckInit /\ [][DeckNext]_deckVars

-----------------------------------------------------------------------------
AnsweredOf(kinds, m) == \E o \in Ops : Stands(o, "ok") /\ Op(o) \in kinds /\ Id(o) = m
Quiet == \A o \in Ops : ~Running(o)

(* However calls overlap, a metric somebody was told is defined, and nobody    *)
(* asked to retire, has its row and is on the deck.                            *)
DefinedIsShown ==
  \A m \in Metrics :
    AnsweredOf({"define", "edit", "accept"}, m) /\ (\A o \in Ops : ~(Op(o) = "retire" /\ Id(o) = m))
    => m \in Shown(specs, defs)
(* However a view's two reads fall among the writes, it never offers a starter *)
(* for a metric it shows.                                                      *)
NeverBoth == \A o \in Ops : ops[o].shown \cap ops[o].proposed = {}
(* Calls that do not overlap leave the deck as they asked: each metric's       *)
(* source and lifecycle, and a row for each that is active.                    *)
DeckIsAsAsked ==
  alone /\ Quiet => /\ specs = wanted
                    /\ \A m \in Metrics : wanted[m].life = "active" => defs[m] # NoDef
(* Imports that do not overlap never store two values for a week.              *)
OnePointAWeek ==
  alone => \A j, k \in DOMAIN points :
             points[j].id = points[k].id /\ points[j].at = points[k].at => j = k
(* A metric somebody defined is on the deck and never offered as a starter     *)
(* too, a week has one point, and calls one after the other leave what they    *)
(* asked (defineMetric, listStarterProposals, saveDeckMeta).                   *)
DeckHolds == DefinedIsShown /\ NeverBoth /\ OnePointAWeek /\ DeckIsAsAsked
(* A value somebody is told is imported is stored then, unless another call    *)
(* wrote the same week meanwhile, or the import itself gave the week twice     *)
(* (importManualCsv).                                                          *)
Twice(r, k) == \E j \in DOMAIN r.points : j # k /\ r.points[j].at = r.points[k].at
Contested(o, t) == ~alone /\ \E p \in Ops \ {o} : \E j \in DOMAIN ops[p].req.points : ops[p].req.points[j].at = t
Stored(id, p) == \E j \in DOMAIN points : points[j] = [id |-> id, at |-> p.at, value |-> p.value]
ImportedIsStored ==
  [][\A o \in Ops : Stands(o, "audit") /\ ops'[o].at = "ok" =>
       LET r == ops[o].req IN
       \A k \in DOMAIN r.points :
         Twice(r, k) \/ Contested(o, r.points[k].at) \/ Stored(r.id, r.points[k])]_deckVars
=============================================================================
