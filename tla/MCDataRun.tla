------------------------------ MODULE MCDataRun ------------------------------
(***************************************************************************)
(* Two families of scenarios: one population whose attributes, or whose panel *)
(* variables, have every parent a term or an interaction can name; and one     *)
(* table with up to two of eight questions, whose gaps add attributes,         *)
(* dimensions, columns and views that hold up, clash, or do not exist.         *)
(***************************************************************************)
EXTENDS DataRun

Node(id, type, name) == [id |-> id, type |-> type, name |-> name]
MCGraph == <<Node("n1", "Person", "alex"), Node("n2", "Person", "alex"), Node("n3", "Project", "atlas"),
             Node("n4", "Team", "core")>>

Plain(name, kind) == Var(name, kind, {}, {})
Reps(identity, dims, attrs, panel) == Pop("rep", 2, identity, dims, attrs, panel)
Fact(grain, columns) == Table("fact", "rep", grain, columns)
Sales(factors, pop, table, views, questions) ==
    Scenario("sales", factors, <<pop>>, <<table>>, views, questions)

\* Every way for one variable to depend on one or two others.
Term(parent, lagged, levels) == [parent |-> parent, lagged |-> lagged, levels |-> levels]
Groups == {"k", "b"}
AllNames == {"a", "b", "p", "q", "f", "k"}
OneTerm == {{Term(n, lagged, n \in Groups)} : n \in AllNames, lagged \in BOOLEAN}
           \cup {{Term("a", FALSE, TRUE)}, {Term("k", FALSE, FALSE)}, {}}
Pairs == {{x, y} : x \in {"a", "f"}, y \in {"b", "p", "q", "k"}}
Ways == {<<ts, {}>> : ts \in OneTerm} \cup {<<{}, pair>> : pair \in Pairs}
Drawn(table, attrs, panel) ==
    Sales(<<[name |-> "f"]>>, Reps(None, <<Dim("k", "Team")>>, attrs, panel), table, <<>>, <<>>)
DailyTable == Fact("entity_day", <<Col("a", "attribute", "a"), Col("p", "panel", "p"), Col("f", "factor", "f")>>)
Of(name, kind, way) == Var(name, kind, way[1], way[2])
Causal ==
    {Drawn(DailyTable, <<Of("a", "numeric", w), Of("b", "categorical", x)>>, <<Plain("p", "numeric"), Plain("q", "numeric")>>) :
        w \in Ways, x \in Ways}
    \cup
    {Drawn(DailyTable, <<Plain("a", "numeric"), Plain("b", "categorical")>>, <<Of("p", "numeric", w), Of("q", "numeric", x)>>) :
        w \in Ways, x \in Ways}
    \cup
    {Drawn(Fact("entity", <<Col("x", source, ref)>>), <<Plain("a", "numeric")>>, <<>>) :
        source \in {"attribute", "kg_name"}, ref \in {"a", "k", "z"}}

Read(rel, col, as) == [rel |-> rel, col |-> col, as |-> as]
Handing(name, reads) ==
    View(name, reads, [c \in {r.col : r \in reads} |-> <<(CHOOSE r \in reads : r.col = c).rel, c>>], {}, {})
Query(name, reads, picky, gap) == [Ask(name, reads, gap) EXCEPT !.picky = picky]
NewColumn(name) == GapAddCol("fact", "attribute", name)
Menu ==
    {Query("more", {Read("fact", "b", "number")}, FALSE, <<Delta("attribute", "rep", Plain("b", "numeric")), NewColumn("b")>>),
     Query("text", {Read("fact", "b", "text")}, FALSE, <<Delta("attribute", "rep", Plain("b", "categorical")), NewColumn("b")>>),
     Query("owner", {Read("fact", "owner", "text")}, FALSE, <<Delta("dimension", "rep", Dim("owner", "Person")), NewColumn("owner")>>),
     Query("rank", {Read("fact", "rank", "text")}, FALSE, <<Delta("dimension", "rep", Dim("rank", "Rank")), NewColumn("rank")>>),
     Query("clash", {Read("fact", "c", "any")}, FALSE, <<Delta("panel", "rep", Plain("a", "numeric")), NewColumn("c")>>),
     Query("rare", {Read("v", "a", "number")}, TRUE, <<>>),
     Query("new", {Read("w", "a", "number")}, FALSE, <<>>),
     Query("late", {Read("t", "g", "any"), Read("u", "a", "any")}, TRUE,
         <<Delta("factor", None, [name |-> "g"]),
           Delta("table", None, [name |-> "t", pop |-> "rep", grain |-> "entity_day", columns |-> <<Col("g", "factor", "g")>>]),
           Delta("view", None, Handing("u", {Read("v", "a", "any")}))>>)}
Asking ==
    {Sales(<<>>, Reps("Person", <<>>, <<Plain("a", "numeric")>>, <<Plain("p", "numeric")>>),
              Fact("entity_day", <<Col("id", "kg_name", None), Col("a", "attribute", "a")>>),
              <<Handing("v", {Read("fact", "a", "number"), Read("fact", "id", "text")})>>,
              SetToSeq(qs)) :
        qs \in {s \in SUBSET Menu : Cardinality(s) \in 1..2}}
MCTemplates == Causal \cup Asking

\* The model adds a view that works, one that only the dry run takes, one that reads
\* nothing there, or changes the title; it authors only where there is one question.
MCAuthored(t) ==
    IF Len(t.questions) # 1 THEN {}
    ELSE {[t EXCEPT !.views = Append(@, Handing("x", {Read("v", "a", "any")}))],
          [t EXCEPT !.pops[1].dims = <<Dim("owner", "Person")>>,
                    !.tables[1].columns = Append(@, Col("owner", "attribute", "owner")),
                    !.views = Append(@, Handing("x", {Read("fact", "owner", "number")}))],
          [t EXCEPT !.title = "other"]}
MCBatches(s) ==
    IF Len(s.questions) # 1 THEN {}
    ELSE {<<Query("new", {Read("w", "a", "number")}, FALSE, <<>>), Query("rare", {Read("v", "a", "any")}, FALSE, <<>>)>>,
          <<Query("lost", {Read("fact", "z", "any")}, FALSE, <<Delta("attribute", "nobody", Plain("z", "numeric"))>>)>>}
MCProposals(s, missing) ==
    {[q \in missing |-> <<Delta("view", None, Handing("w", {Read("fact", "a", "number")}))>>],
     [q \in missing |-> <<Delta("view", None, Handing("w", {Read("fact", "z", "number")}))>>],
     [q \in {"unasked"} |-> <<NewColumn("a")>>]}
=============================================================================
