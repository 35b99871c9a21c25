------------------------------ MODULE Ontology ------------------------------
(***************************************************************************)
(* A graph asked in three ways: the facts an ontology derives               *)
(* (benchmark/runners/engines.py, and its twin in the explorer's sidecar),   *)
(* the path queries of the property graph (benchmark/runners/reference.py), *)
(* and the answers the benchmark expects (benchmark/generate.py).           *)
(*                                                                         *)
(* A graph is [types, links]: a function from ids to types, and a set of    *)
(* <<src, relation, dst>>.  Derived relations have names of their own, as    *)
(* they have a namespace; collaborates_with is the one that is completed.   *)
(***************************************************************************)
EXTENDS WorldGraph, Sequences, SequencesExt

LinksOf(w) == {<<w.edges[e].src, w.edges[e].type, w.edges[e].dst>> : e \in DOMAIN w.edges}
TypesOf(w) == [id \in DOMAIN w.nodes |-> w.nodes[id].type]

\* GraphModel.from_world: a mention is an edge from the artifact, when the
\* world holds both ends.  grounds is a set of <<entity, artifact>>.
GraphOf(w, grounds) ==
    [types |-> TypesOf(w),
     links |-> LinksOf(w) \cup
               {<<p[2], "mentions", p[1]>> : p \in {q \in grounds : {q[1], q[2]} \subseteq DOMAIN w.nodes}}]

-----------------------------------------------------------------------------
(* The rules, in the order they run, and the fixpoint they run to.          *)

Of(facts, rel) == {f \in facts : f[2] = rel}
Renamed(facts, rel, as) == {<<f[1], as, f[3]>> : f \in Of(facts, rel)}
Turned(facts, rel, as) == {<<f[3], as, f[1]>> : f \in Of(facts, rel)}
Joined(facts, first, second, as) ==
    {<<p[1][1], as, p[2][3]>> :
        p \in {q \in Of(facts, first) \X Of(facts, second) : q[1][3] = q[2][1]}}

Departments(types) == {id \in DOMAIN types : types[id] = "Department"}

Led(facts, Depts) == {f \in Of(facts, "leads") : f[3] \in Depts}

\* One pass over the rules: each of them sees what those before it added.
InferenceRules == 1..13
Rule(k, T, types) ==
    CASE k = 1 -> Turned(T, "reports_to", "manages")
      [] k = 2 -> Renamed(T, "reports_to", "reports_to_chain")
      [] k = 3 -> Joined(T, "reports_to_chain", "reports_to_chain", "reports_to_chain")
      [] k = 4 -> Turned(T, "reports_to_chain", "manages_chain")
      [] k = 5 -> Turned(T, "collaborates_with", "collaborates_with")
      [] k = 6 -> Renamed(T, "subgoal_of", "subgoal_of_chain")
      [] k = 7 -> Joined(T, "subgoal_of_chain", "subgoal_of_chain", "subgoal_of_chain")
      [] k = 8 -> Renamed(T, "subinitiative_of", "subinitiative_of_chain")
      [] k = 9 -> Joined(T, "subinitiative_of_chain", "subinitiative_of_chain",
                         "subinitiative_of_chain")
      [] k = 10 -> Renamed(T, "advances_goal", "advances_goal_effective")
      [] k = 11 -> Joined(T, "advances_goal_effective", "subgoal_of_chain",
                          "advances_goal_effective")
      [] k = 12 -> Joined(T, "member_of", "part_of", "in_department")
      [] k = 13 -> Renamed(Led(T, Departments(types)), "leads", "in_department")

Pass(T, types) == FoldSeq(LAMBDA k, facts : facts \cup Rule(k, facts, types), T,
                          [i \in InferenceRules |-> i])

MaxPasses == 50
RECURSIVE Materialized(_, _, _)
Materialized(T, types, guard) ==
    IF guard = 0 \/ Pass(T, types) = T THEN T
    ELSE Materialized(Pass(T, types), types, guard - 1)

Sources(facts, rel, dst) == {f[1] : f \in {h \in Of(facts, rel) : h[3] = dst}}
Targets(facts, src, rel) == {f[3] : f \in {h \in Of(facts, rel) : h[1] = src}}

References == {"reports_to", "management_chain", "in_department", "team_headcount",
               "goal_advancers", "provenance"}

Sparql(facts, key, s) ==
    CASE key = "reports_to" -> Targets(facts, s, "reports_to")
      [] key = "management_chain" -> Targets(facts, s, "reports_to_chain")
      [] key = "in_department" -> Targets(facts, s, "in_department")
      [] key = "team_headcount" -> Sources(facts, "member_of", s)
      [] key = "goal_advancers" -> Sources(facts, "advances_goal_effective", s)
      [] key = "provenance" -> Sources(facts, "mentions", s)

-----------------------------------------------------------------------------
(* Paths over the asserted edges.  A type without nodes, or a relation       *)
(* without edges between nodes, has no table, and a query that names it is  *)
(* an error: no answer.                                                    *)

Tabled(g) == {l \in g.links : {l[1], l[3]} \subseteq DOMAIN g.types}

RECURSIVE Upwards(_, _, _)
Upwards(links, rel, from) ==
    LET next == from \cup UNION {Targets(links, s, rel) : s \in from}
    IN IF next = from THEN from ELSE Upwards(links, rel, next)
RECURSIVE Downwards(_, _, _)
Downwards(links, rel, from) ==
    LET next == from \cup UNION {Sources(links, rel, s) : s \in from}
    IN IF next = from THEN from ELSE Downwards(links, rel, next)

Typed(g, ids, type) == {id \in ids \cap DOMAIN g.types : g.types[id] = type}

Cypher(g, key, s) ==
    LET links == Tabled(g)
        Known(rels) == \A r \in rels : Of(links, r) # {}
        Is(type) == s \in DOMAIN g.types /\ g.types[s] = type
    IN CASE key = "reports_to" ->
              IF Is("Person") THEN Targets(links, s, "reports_to") ELSE {}
         [] key = "management_chain" ->
              IF Is("Person") THEN Upwards(links, "reports_to", Targets(links, s, "reports_to"))
              ELSE {}
         [] key = "in_department" ->
              IF Is("Person") /\ Known({"member_of", "part_of"})
              THEN Typed(g, UNION {Targets(links, t, "part_of") :
                                     t \in Typed(g, Targets(links, s, "member_of"), "Team")},
                         "Department")
              ELSE {}
         [] key = "team_headcount" -> Typed(g, Sources(links, "member_of", s), "Person")
         [] key = "goal_advancers" ->
              IF Is("Goal") /\ Known({"subgoal_of", "advances_goal"})
              THEN UNION {Sources(links, "advances_goal", t) :
                            t \in Downwards(links, "subgoal_of", {s})}
              ELSE {}
         [] key = "provenance" -> Sources(links, "mentions", s)

-----------------------------------------------------------------------------
(* What the benchmark expects, walking the edges of the gold world.         *)

\* A walk that stops at the first level.
AncestorsOfOneLevel(links, rel, frontier, seen) == Targets(links, frontier, rel) \ seen

\* Everyone of a level is in the chain, and the walk goes on from one of them.
RECURSIVE Ancestors(_, _, _, _)
Ancestors(links, rel, frontier, seen) ==
    LET next == Targets(links, frontier, rel) \ seen
    IN IF next = {} THEN {}
       ELSE next \cup Ancestors(links, rel, CHOOSE n \in next : TRUE, seen \cup next)

RECURSIVE Subgoals(_, _, _)
Subgoals(links, frontier, seen) ==
    LET next == UNION {Sources(links, "subgoal_of", p) : p \in frontier} \ seen
    IN IF next = {} THEN {} ELSE next \cup Subgoals(links, next, seen \cup next)

\* Drafts with no answer are not asked.
Expected(g, grounds, key, s) ==
    CASE key \in {"reports_to", "leads", "member_of", "owns", "authored"} ->
           Targets(g.links, s, key)
      [] key = "management_chain" -> Ancestors(g.links, "reports_to", s, {s})
      [] key = "in_department" ->
           Typed(g, UNION {Targets(g.links, t, "part_of") :
                             t \in Typed(g, Targets(g.links, s, "member_of"), "Team")},
                 "Department")
      [] key = "team_headcount" -> Sources(g.links, "member_of", s)
      [] key = "direct_reports" -> Sources(g.links, "reports_to", s)
      [] key = "teams_of" -> Sources(g.links, "part_of", s)
      [] key = "goal_advancers" ->
           UNION {Sources(g.links, "advances_goal", t) :
                    t \in {s} \cup Subgoals(g.links, {s}, {s})}
      [] key = "subgoals" -> Sources(g.links, "subgoal_of", s)
      [] key = "provenance" ->
           {p[2] : p \in {q \in grounds : q[1] = s}} \cap DOMAIN g.types

Subjects(g, key) ==
    CASE key \in {"management_chain", "in_department", "direct_reports"} ->
           {id \in DOMAIN g.types : g.types[id] = "Person"}
      [] key = "team_headcount" -> {id \in DOMAIN g.types : g.types[id] = "Team"}
      [] key = "teams_of" -> {id \in DOMAIN g.types : g.types[id] = "Department"}
      [] key \in {"goal_advancers", "subgoals"} ->
           {id \in DOMAIN g.types : g.types[id] = "Goal"}
      [] OTHER -> DOMAIN g.types

QuestionKeys == References \cup {"leads", "member_of", "owns", "authored", "direct_reports",
                                 "teams_of", "subgoals"}

\* build_benchmark; a question is <<key, subject>>.
Benchmark(g, grounds) ==
    [q \in {p \in QuestionKeys \X DOMAIN g.types :
              p[2] \in Subjects(g, p[1]) /\ Expected(g, grounds, p[1], p[2]) # {}} |->
        Expected(g, grounds, q[1], q[2])]

\* score_item, with the predicted ids carried through an alignment.
ItemScore(expected, predicted, a) ==
    LET Ids == {IF i \in DOMAIN a THEN a[i] ELSE i : i \in predicted}
    IN [hits |-> Cardinality(expected \cap Ids), predicted |-> Cardinality(Ids),
        gold |-> Cardinality(expected), exact |-> expected = Ids]
=============================================================================
