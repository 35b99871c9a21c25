------------------------------ MODULE DataSpec ------------------------------
(***************************************************************************)
(* The causal specification of a data scenario (data_products/): what lint   *)
(* accepts, what deltas add to it, what the sampler reads while it draws the *)
(* tables, and which columns its views and questions find.                  *)
(*                                                                         *)
(* A variable is [name, kind, terms, inter, suits]: its terms are [parent,   *)
(* lagged, levels], inter the parents of its interactions, suits whether its *)
(* link and distribution fit its kind.  SQL is the set of columns it reads,  *)
(* each [rel, col, as] with the type the query needs.  Numbers, wording and   *)
(* parquet are left out.                                                    *)
(***************************************************************************)
EXTENDS Naturals, Sequences, FiniteSets, SequencesExt

CONSTANTS
    Graph,      \* the knowledge graph: a sequence of nodes [id, type, name], by id
    Days,       \* days of the window
    MaxRows     \* MAX_PROJECTED_ROWS

None == "none"
Names(list) == {list[i].name : i \in DOMAIN list}
Distinct(list) == Cardinality(Names(list)) = Len(list)
Named(list, name) == list[CHOOSE i \in DOMAIN list : list[i].name = name]
Elements(list) == {list[i] : i \in DOMAIN list}

---------------------------------------------------------------------------
(* Links to the knowledge graph *)

MatchNodes(type) == SelectSeq(Graph, LAMBDA node : node.type = type)

\* A name seen before gets the node's id behind it.
UniqueNames(nodes) ==
    [i \in DOMAIN nodes |->
        IF \E j \in 1..(i - 1) : nodes[j].name = nodes[i].name
          THEN <<nodes[i].name, nodes[i].id>>
          ELSE <<nodes[i].name>>]

LevelToId(ranked) ==
    LET names == UniqueNames(ranked)
    IN  [level \in {names[i] : i \in DOMAIN names} |->
            ranked[CHOOSE i \in DOMAIN names : names[i] = level].id]

\* One column of display names per dimension, in an order drawn for it alone, and one
\* per identity, in the order of ids; each with what lineage.json says it stands for.
Rankings(type) == SetToSeqs({MatchNodes(type)[i] : i \in DOMAIN MatchNodes(type)})
Linked(pop) ==
    {[c \in {<<pop.name, d.name>> : d \in Elements(pop.dims)} |-> LevelToId(ranks[c[2]])] :
        ranks \in {r \in [Names(pop.dims) -> UNION {Rankings(d.type) : d \in Elements(pop.dims)}] :
                      \A d \in Elements(pop.dims) : r[d.name] \in Rankings(d.type)}}
IdentityOf(pop) == LevelToId(MatchNodes(pop.identity))

\* LinkageError: a dimension or an identity that no node of the graph matches.
Unlinked(pop) ==
    \/ \E dim \in Elements(pop.dims) : MatchNodes(dim.type) = <<>>
    \/ pop.identity # None /\ MatchNodes(pop.identity) = <<>>

---------------------------------------------------------------------------
(* lint.py *)

Parents(var) == {<<t.parent, t.lagged>> : t \in var.terms} \cup {<<p, FALSE>> : p \in var.inter}
\* A bug: the interactions are forgotten.
SameDayOfTerms(vars, var) == {p \in Names(vars) : \E t \in var.terms : t.parent = p /\ ~t.lagged}
SameDay(vars, var) == {p \in Names(vars) : <<p, FALSE>> \in Parents(var)}
AnyDay(vars, var) == {p \in Names(vars) : \E lagged \in BOOLEAN : <<p, lagged>> \in Parents(var)}

\* Whose value is needed before whose: any reading among attributes, which are drawn once,
\* and the readings of the same day in the panel.
AttributeEdges(pop) == [v \in Names(pop.attrs) |-> AnyDay(pop.attrs, Named(pop.attrs, v))]
PanelEdges(pop) == [v \in Names(pop.panel) |-> SameDay(pop.panel, Named(pop.panel, v))]

\* The sorter hands variables out in layers, one when all it needs has been handed out:
\* what is out after i layers, and whether a cycle keeps something back.
Toposort(edges) ==
    LET out[i \in 0..Cardinality(DOMAIN edges)] ==
            IF i = 0 THEN {}
            ELSE LET before == out[i - 1] IN {v \in DOMAIN edges : edges[v] \subseteq before}
    IN  out
Cyclic(edges) == Toposort(edges)[Cardinality(DOMAIN edges)] # DOMAIN edges

Categoricals(vars) == {v.name : v \in {w \in Elements(vars) : w.kind = "categorical"}}
Numerics(vars) == Names(vars) \ Categoricals(vars)

PredictorClean(var, numeric, categorical, laggable) ==
    /\ \A t \in var.terms :
         /\ t.parent \in numeric \cup categorical
         /\ t.lagged => t.parent \in laggable
         /\ t.levels <=> t.parent \in categorical
    /\ var.inter \subseteq numeric \ categorical

PopulationClean(pop, spec) ==
    LET own == Names(pop.dims) \cup Names(pop.attrs) \cup Names(pop.panel)
        factors == Names(spec.factors)
        groups == Names(pop.dims) \cup Categoricals(pop.attrs)
    IN  /\ Cardinality(own) = Len(pop.dims) + Len(pop.attrs) + Len(pop.panel)
        /\ own \cap factors = {}
        /\ \A var \in Elements(pop.attrs) :
             /\ PredictorClean(var, Numerics(pop.attrs), groups, {})
             /\ var.suits
        /\ \A var \in Elements(pop.panel) :
             /\ PredictorClean(var, Numerics(pop.attrs) \cup factors \cup Numerics(pop.panel),
                               groups \cup Categoricals(pop.panel), Names(pop.panel))
             /\ var.suits
        /\ ~Cyclic(AttributeEdges(pop)) /\ ~Cyclic(PanelEdges(pop))

TableClean(table, spec) ==
    /\ table.pop \in Names(spec.pops)
    /\ LET pop == Named(spec.pops, table.pop)
       IN  \A col \in Elements(table.columns) :
             /\ col.source = "attribute" => col.ref \in Names(pop.attrs) \cup Names(pop.dims)
             /\ col.source = "panel" => col.ref \in Names(pop.panel) /\ table.grain = "entity_day"
             /\ col.source = "factor" => col.ref \in Names(spec.factors)
             /\ col.source \in {"kg_id", "kg_name"} => pop.identity # None

\* A gap may name only populations and tables that are there already.
GapClean(question, spec) ==
    \A delta \in Elements(question.gap) :
        /\ delta.kind \in {"attribute", "panel", "dimension"} => delta.target \in Names(spec.pops)
        /\ delta.kind = "column" => delta.target \in Names(spec.tables)

QuestionsClean(spec) ==
    /\ Distinct(spec.views) /\ Names(spec.views) \cap Names(spec.tables) = {}
    /\ Distinct(spec.questions)
    /\ \A question \in Elements(spec.questions) : GapClean(question, spec)

RowsOf(table, spec, sizes) ==
    sizes[table.pop] * (IF table.grain = "entity" THEN 1 ELSE Days)
ProjectedRows(spec, sizes) ==
    FoldLeft(LAMBDA sum, table : sum + RowsOf(table, spec, sizes), 0, spec.tables)
BaseSizes(spec) == [p \in Names(spec.pops) |-> Named(spec.pops, p).size]

Clean(spec) ==
    /\ Distinct(spec.factors) /\ Distinct(spec.pops) /\ Distinct(spec.tables)
    /\ \A pop \in Elements(spec.pops) : PopulationClean(pop, spec)
    /\ \A table \in Elements(spec.tables) : TableClean(table, spec)
    /\ QuestionsClean(spec)
    /\ ProjectedRows(spec, BaseSizes(spec)) <= MaxRows

---------------------------------------------------------------------------
(* spec.py: apply_deltas *)

\* What Pydantic refuses when the patched document is read again.
WellFormed(spec) ==
    \A table \in Elements(spec.tables) :
        /\ Distinct(table.columns)
        /\ table.grain = "entity" =>
             \A col \in Elements(table.columns) : col.source \notin {"date", "panel", "factor"}

\* A bug: an item of the same name is replaced.
AddedOver(list, item) ==
    IF item.name \in Names(list) THEN [i \in DOMAIN list |-> IF list[i].name = item.name THEN item ELSE list[i]]
    ELSE Append(list, item)
Added(list, item) == IF item.name \in Names(list) THEN list ELSE Append(list, item)
In(list, name, Change(_)) ==
    [i \in DOMAIN list |-> IF list[i].name = name THEN Change(list[i]) ELSE list[i]]

TargetThere(spec, delta) ==
    /\ delta.kind \in {"attribute", "panel", "dimension"} => delta.target \in Names(spec.pops)
    /\ delta.kind = "column" => delta.target \in Names(spec.tables)

ApplyDelta(spec, delta) ==
    LET item == delta.item
        InPops(Change(_)) == [spec EXCEPT !.pops = In(@, delta.target, Change)]
    IN  CASE delta.kind = "attribute" -> InPops(LAMBDA p : [p EXCEPT !.attrs = Added(@, item)])
          [] delta.kind = "panel"     -> InPops(LAMBDA p : [p EXCEPT !.panel = Added(@, item)])
          [] delta.kind = "dimension" -> InPops(LAMBDA p : [p EXCEPT !.dims = Added(@, item)])
          [] delta.kind = "factor"    -> [spec EXCEPT !.factors = Added(@, item)]
          [] delta.kind = "table"     -> [spec EXCEPT !.tables = Added(@, item)]
          [] delta.kind = "column"    ->
               [spec EXCEPT !.tables = In(@, delta.target, LAMBDA t : [t EXCEPT !.columns = Added(@, item)])]
          [] OTHER                    -> [spec EXCEPT !.views = Added(@, item)]

\* The patched specification and whether no delta raised.
ApplyDeltas(spec, deltas) ==
    LET step(done, delta) ==
            IF done.ok /\ TargetThere(done.spec, delta)
              THEN [ok |-> TRUE, spec |-> ApplyDelta(done.spec, delta)]
              ELSE [done EXCEPT !.ok = FALSE]
        done == FoldLeft(step, [ok |-> TRUE, spec |-> spec], deltas)
    IN  [done EXCEPT !.ok = @ /\ WellFormed(done.spec)]

---------------------------------------------------------------------------
(* views.py *)

\* The type of a column, given the kinds of the variables a reference may name.
TypeOf(col, kinds) ==
    IF col.source \in {"entity_id", "kg_id", "kg_name"} THEN "text"
    ELSE IF col.source = "date" THEN "date"
    ELSE IF col.ref \in DOMAIN kinds /\ kinds[col.ref] = "categorical" THEN "text"
    ELSE "number"

KindsOf(vars) == [v \in Names(vars) |-> Named(vars, v).kind]
\* The dry run knows attributes and panel variables; in the data a dimension is text.
KindsDeclared(pop) == KindsOf(pop.attrs \o pop.panel)
KindsDrawn(pop) ==
    [v \in Names(pop.dims) \cup Names(pop.attrs \o pop.panel) |->
        IF v \in Names(pop.dims) THEN "categorical" ELSE KindsDeclared(pop)[v]]

Columns(table, kinds) ==
    [c \in Names(table.columns) |-> TypeOf(Named(table.columns, c), kinds)]
TableSchema(spec, Kinds(_)) ==
    [t \in Names(spec.tables) |->
        LET table == Named(spec.tables, t) IN Columns(table, Kinds(Named(spec.pops, table.pop)))]

Runs(reads, schema) ==
    \A r \in reads :
        /\ r.rel \in DOMAIN schema
        /\ r.col \in DOMAIN schema[r.rel]
        /\ r.as \in {"any", schema[r.rel][r.col]}

\* A column of a view is one it reads, handed on, or computed; a view that fails is not
\* created.
WithView(schema, view) ==
    [rel \in DOMAIN schema \cup {view.name} |->
        IF rel # view.name THEN schema[rel]
        ELSE [c \in DOMAIN view.gives |->
                 IF view.gives[c][1] = "computed" THEN view.gives[c][2]
                 ELSE schema[view.gives[c][1]][view.gives[c][2]]]]
ThroughViews(spec, Kinds(_)) ==
    LET step(s, view) == IF Runs(view.reads, s.schema)
                           THEN [s EXCEPT !.schema = WithView(s.schema, view)]
                           ELSE [s EXCEPT !.failed = @ \cup {view.name}]
    IN  FoldLeft(step, [schema |-> TableSchema(spec, Kinds), failed |-> {}], spec.views)

ViewsValid(spec) == ThroughViews(spec, KindsDeclared).failed = {}
ViewsFailing(spec) == ThroughViews(spec, KindsDrawn).failed
DataSchema(spec) == ThroughViews(spec, KindsDrawn).schema

Acceptable(spec) == Clean(spec) /\ ViewsValid(spec)

---------------------------------------------------------------------------
(* sampler.py *)

\* Every parent is in the environment the evaluator is given, and numbers where
\* numbers are multiplied.
Readable(var, env, lags, groups) ==
    /\ \A p \in Parents(var) : p[1] \in (IF p[2] THEN lags ELSE env)
    /\ var.inter \cap groups = {}
InOrder(vars, edges, env, lags, groups) ==
    LET out == Toposort(edges)
    IN  /\ ~Cyclic(edges)
        /\ \A i \in DOMAIN out \ {0} : \A v \in out[i] \ out[i - 1] :
             Readable(Named(vars, v), env \cup out[i - 1], lags, groups)

TablesOf(spec, pop, grain) ==
    {t \in Elements(spec.tables) : t.pop = pop.name /\ t.grain = grain}

\* The attributes, then a day of the panel unless no table wants one, then the columns.
AttributesReadable(pop, groups) ==
    InOrder(pop.attrs, AttributeEdges(pop), Names(pop.dims), {}, groups)
PanelReadable(pop, spec, groups) ==
    LET static == Names(pop.dims) \cup Names(pop.attrs) \cup Names(spec.factors)
    IN  InOrder(pop.panel, PanelEdges(pop), static, Names(pop.panel), groups)
Fillable(table, pop, spec) ==
    \A col \in Elements(table.columns) :
        /\ col.source = "attribute" => col.ref \in Names(pop.dims) \cup Names(pop.attrs)
        /\ col.source = "panel" => col.ref \in Names(pop.panel)
        /\ col.source = "factor" => col.ref \in Names(spec.factors)
        /\ col.source \in {"kg_id", "kg_name"} => pop.identity # None

Samples(pop, spec) ==
    LET groups == Names(pop.dims) \cup Categoricals(pop.attrs) \cup Categoricals(pop.panel)
    IN  /\ AttributesReadable(pop, groups)
        /\ TablesOf(spec, pop, "entity_day") # {} => PanelReadable(pop, spec, groups)
        /\ \A grain \in {"entity", "entity_day"} :
             \A table \in TablesOf(spec, pop, grain) : Fillable(table, pop, spec)

=============================================================================
