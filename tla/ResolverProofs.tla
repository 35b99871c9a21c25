---------------------------- MODULE ResolverProofs ----------------------------
(***************************************************************************)
(* Proofs about WorldBuild and Resolver: for any archetypes, configuration  *)
(* and names, and any calls of a simulation.                               *)
(***************************************************************************)
EXTENDS Resolver, FiniteSetTheorems, SequenceTheorems, WellFoundedInduction, TLAPS

-----------------------------------------------------------------------------
(* Counting.                                                               *)

LEMMA LeastExists ==
    ASSUME NEW S \in SUBSET Nat, S # {}
    PROVE  \E m \in S : \A n \in S : m <= n
<1>1. \E m \in S : \A n \in S : ~(<<n, m>> \in OpToRel(<, Nat))
    BY WFMin, NatLessThanWellFounded
<1>2. PICK m \in S : \A n \in S : ~(<<n, m>> \in OpToRel(<, Nat))
    BY <1>1
<1>3. ASSUME NEW n \in S PROVE m <= n
    <2>1. m \in Nat /\ n \in Nat
        OBVIOUS
    <2>2. n < m => <<n, m>> \in OpToRel(<, Nat)
        BY <2>1 DEF OpToRel
    <2>3. ~(n < m)
        BY <1>2, <2>2, Zenon
    <2>4. QED BY <2>1, <2>3
<1>4. QED BY <1>3

LEMMA CountUp ==
    ASSUME NEW n \in Nat, NEW S, 0 \in S,
           \A k \in 0..n : k \in S /\ k # n => k + 1 \in S
    PROVE  \A k \in 0..n : k \in S
<1> DEFINE B == {k \in 0..n : k \notin S}
<1>1. SUFFICES ASSUME B # {} PROVE FALSE
    OBVIOUS
<1>2. PICK m \in B : \A k \in B : m <= k
    <2>1. B \in SUBSET Nat
        OBVIOUS
    <2> HIDE DEF B
    <2> QED BY <1>1, <2>1, LeastExists
<1>3. m \in 0..n /\ m # 0 /\ m \notin S
    BY <1>2
<1> DEFINE l == m - 1
<1>4. l \in 0..n /\ l # n /\ l + 1 = m /\ ~(m <= l)
    BY <1>3
<1>5. l \in S
    <2> HIDE DEF l
    <2> QED BY <1>2, <1>4
<1> HIDE DEF l
<1> QED BY <1>3, <1>4, <1>5

-----------------------------------------------------------------------------
(* The graph.                                                              *)

LEMMA Merged ==
    ASSUME NEW f, NEW g
    PROVE  /\ DOMAIN (f ++ g) = DOMAIN f \cup DOMAIN g
           /\ \A x \in DOMAIN f : (f ++ g)[x] = f[x]
           /\ \A x \in DOMAIN g \ DOMAIN f : (f ++ g)[x] = g[x]
           /\ f ++ g = [x \in DOMAIN f \cup DOMAIN g |-> (f ++ g)[x]]
BY DEF ++

LEMMA MergedAt ==
    ASSUME NEW f, NEW g, NEW x
    PROVE  /\ x \in DOMAIN (f ++ g) <=> x \in DOMAIN f \/ x \in DOMAIN g
           /\ x \in DOMAIN f => (f ++ g)[x] = f[x]
           /\ x \notin DOMAIN f /\ x \in DOMAIN g => (f ++ g)[x] = g[x]
BY DEF ++

LEMMA AddedFacts ==
    ASSUME NEW w, NEW ns, NEW es
    PROVE  /\ Added(w, ns, es) = [nodes |-> Added(w, ns, es).nodes, edges |-> Added(w, ns, es).edges]
           /\ Added(w, ns, es).nodes = w.nodes ++ ns
           /\ Added(w, ns, es).edges = w.edges ++ es
BY DEF Added

LEMMA NothingMerged ==
    ASSUME NEW f, f = [x \in DOMAIN f |-> f[x]]
    PROVE  f ++ <<>> = f
<1>1. DOMAIN <<>> = {}
    OBVIOUS
<1>2. DOMAIN (f ++ <<>>) = DOMAIN f /\ \A x \in DOMAIN f : (f ++ <<>>)[x] = f[x]
    BY <1>1 DEF ++
<1>3. f ++ <<>> = [x \in DOMAIN f |-> f[x]]
    BY <1>1 DEF ++
<1> QED BY <1>3

\* An edge is a record that says what it says.
IsEdge(r) == /\ r = [type |-> r.type, src |-> r.src, dst |-> r.dst, at |-> r.at, props |-> r.props]
             /\ r.at \in Nat

\* Its id is made of what it joins; an affinity joins two nodes in no order.
Keyed(e, r) ==
    /\ r.type = "collaborates_with" => e = AffinityId({r.src, r.dst}) /\ r.src # r.dst
    /\ r.type = "reviews_for" => e = <<"reviews_for", r.src, r.dst, r.at>>
    /\ r.type \notin {"collaborates_with", "reviews_for"} => e = <<r.type, r.src, r.dst>>

EdgesOK(E) == /\ E = [e \in DOMAIN E |-> E[e]]
              /\ \A e \in DOMAIN E : IsEdge(E[e]) /\ Keyed(e, E[e])

\* What the id of a node tells of its type.
Tagged(n, type) ==
    /\ type \in {"Company", "Goal", "Department", "Team", "Person", "Initiative", "Project"}
    /\ type = "Person" <=> n[1] = "person"
    /\ type = "Team" <=> n[1] = "team"
    /\ type = "Project" <=> n[1] = "project"
    /\ type = "Team" => \E d, s : n = Team(d, s)

IsNode(n, r) ==
    /\ r = [type |-> r.type, at |-> r.at, props |-> r.props]
    /\ Tagged(n, r.type)
    /\ r.type = "Person" => r.props = [department |-> r.props.department, unit |-> r.props.unit,
                                       role |-> r.props.role]

NodesOK(N) == N = [n \in DOMAIN N |-> N[n]] /\ \A n \in DOMAIN N : IsNode(n, N[n])

People(N) == {n \in DOMAIN N : N[n].type = "Person"}

GraphOK(w) == /\ w = [nodes |-> w.nodes, edges |-> w.edges]
              /\ NodesOK(w.nodes) /\ EdgesOK(w.edges) /\ IsFiniteSet(People(w.nodes))

LEMMA MergeEdges ==
    ASSUME NEW E, NEW F, EdgesOK(E), EdgesOK(F)
    PROVE  EdgesOK(E ++ F)
<1>1. \A e \in DOMAIN (E ++ F) : IsEdge((E ++ F)[e]) /\ Keyed(e, (E ++ F)[e])
    <2>1. TAKE e \in DOMAIN (E ++ F)
    <2>2. CASE e \in DOMAIN E
        <3>1. e \in DOMAIN E /\ (E ++ F)[e] = E[e]
            BY <2>2 DEF ++
        <3> QED BY <3>1 DEF EdgesOK
    <2>3. CASE e \notin DOMAIN E
        <3>1. e \in DOMAIN F /\ (E ++ F)[e] = F[e]
            BY <2>3 DEF ++
        <3> QED BY <3>1 DEF EdgesOK
    <2> QED BY <2>2, <2>3
<1>2. E ++ F = [e \in DOMAIN (E ++ F) |-> (E ++ F)[e]]
    BY DEF ++
<1> QED BY <1>1, <1>2 DEF EdgesOK

LEMMA NoEdges == EdgesOK(<<>>) /\ DOMAIN <<>> = {}
<1>1. DOMAIN <<>> = {}
    OBVIOUS
<1>2. <<>> = [e \in DOMAIN <<>> |-> <<>>[e]]
    OBVIOUS
<1> QED BY <1>1, <1>2 DEF EdgesOK

\* The edges a builder writes.
Ordinary == {"owns", "subgoal_of", "has_department", "advances_goal", "part_of", "leads", "member_of",
             "reports_to", "owns_initiative", "subinitiative_of", "under"}

LEMMA LinkOK ==
    ASSUME NEW type \in Ordinary, NEW src, NEW dst
    PROVE  EdgesOK(Link(type, src, dst)) /\ DOMAIN Link(type, src, dst) = {<<type, src, dst>>}
<1> DEFINE r == [type |-> type, src |-> src, dst |-> dst, at |-> 0, props |-> None]
           f == [e \in {<<type, src, dst>>} |-> r]
<1>1. Link(type, src, dst) = f
    BY DEF Link, Edge
<1>2. IsEdge(r) /\ Keyed(<<type, src, dst>>, r)
    BY DEF IsEdge, Keyed, Ordinary
<1> HIDE DEF r
<1>3. EdgesOK(f) /\ DOMAIN f = {<<type, src, dst>>}
    BY <1>2 DEF EdgesOK
<1> QED BY <1>1, <1>3

LEMMA LinksOK ==
    ASSUME NEW type \in Ordinary, NEW S, \A p \in S : p = <<p[1], p[2]>>
    PROVE  /\ EdgesOK(Links(type, S))
           /\ DOMAIN Links(type, S) = {<<type, p[1], p[2]>> : p \in S}
<1> DEFINE r(e) == [type |-> type, src |-> e[2], dst |-> e[3], at |-> 0, props |-> None]
           D == {<<type, p[1], p[2]>> : p \in S}
           f == [e \in D |-> r(e)]
<1>1. Links(type, S) = f
    BY DEF Links
<1>2. ASSUME NEW e \in D PROVE IsEdge(r(e)) /\ Keyed(e, r(e))
    <2>1. PICK p \in S : e = <<type, p[1], p[2]>>
        OBVIOUS
    <2> QED BY <2>1 DEF IsEdge, Keyed, Ordinary
<1> HIDE DEF r, D
<1>3. EdgesOK(f) /\ DOMAIN f = D
    BY <1>2 DEF EdgesOK
<1> QED BY <1>1, <1>3 DEF D

\* With such ids, to be related is to have the edge's id.
LEMMA EdgeNamed ==
    ASSUME NEW E, EdgesOK(E), NEW type \in Ordinary
    PROVE  /\ \A a, b : <<type, a, b>> \in DOMAIN E =>
                  /\ E[<<type, a, b>>].type = type
                  /\ E[<<type, a, b>>].src = a /\ E[<<type, a, b>>].dst = b
           /\ \A e \in DOMAIN E : E[e].type = type => e = <<type, E[e].src, E[e].dst>>
<1>1. ASSUME NEW a, NEW b, <<type, a, b>> \in DOMAIN E
      PROVE  /\ E[<<type, a, b>>].type = type
             /\ E[<<type, a, b>>].src = a /\ E[<<type, a, b>>].dst = b
    <2> DEFINE r == E[<<type, a, b>>]
    <2>1. Keyed(<<type, a, b>>, r)
        BY <1>1 DEF EdgesOK
    <2> HIDE DEF r
    <2>2. r.type # "collaborates_with"
        BY <2>1 DEF Keyed, AffinityId
    <2>3. r.type # "reviews_for"
        BY <2>1 DEF Keyed
    <2>4. <<type, a, b>> = <<r.type, r.src, r.dst>>
        BY <2>1, <2>2, <2>3 DEF Keyed
    <2> QED BY <2>4 DEF r
<1>2. \A e \in DOMAIN E : E[e].type = type => e = <<type, E[e].src, E[e].dst>>
    BY DEF EdgesOK, Keyed, Ordinary
<1> QED BY <1>1, <1>2

LEMMA NeighborsNamed ==
    ASSUME NEW w, EdgesOK(w.edges), NEW type \in Ordinary, NEW id
    PROVE  /\ Neighbors(w, id, type, "out") = {b \in DOMAIN w.nodes : <<type, id, b>> \in DOMAIN w.edges}
           /\ Neighbors(w, id, type, "in") = {a \in DOMAIN w.nodes : <<type, a, id>> \in DOMAIN w.edges}
<1>1. \A b : b \in {w.edges[e].dst : e \in OutEdges(w, id, type)} <=> <<type, id, b>> \in DOMAIN w.edges
    <2>1. TAKE b
    <2>2. ASSUME NEW e \in OutEdges(w, id, type), b = w.edges[e].dst PROVE <<type, id, b>> \in DOMAIN w.edges
        BY <2>2, EdgeNamed DEF OutEdges
    <2>3. ASSUME <<type, id, b>> \in DOMAIN w.edges PROVE b \in {w.edges[e].dst : e \in OutEdges(w, id, type)}
        <3>1. <<type, id, b>> \in OutEdges(w, id, type) /\ w.edges[<<type, id, b>>].dst = b
            BY <2>3, EdgeNamed DEF OutEdges
        <3> QED BY <3>1
    <2> QED BY <2>2, <2>3
<1>2. \A a : a \in {w.edges[e].src : e \in InEdges(w, id, type)} <=> <<type, a, id>> \in DOMAIN w.edges
    <2>1. TAKE a
    <2>2. ASSUME NEW e \in InEdges(w, id, type), a = w.edges[e].src PROVE <<type, a, id>> \in DOMAIN w.edges
        BY <2>2, EdgeNamed DEF InEdges
    <2>3. ASSUME <<type, a, id>> \in DOMAIN w.edges PROVE a \in {w.edges[e].src : e \in InEdges(w, id, type)}
        <3>1. <<type, a, id>> \in InEdges(w, id, type) /\ w.edges[<<type, a, id>>].src = a
            BY <2>3, EdgeNamed DEF InEdges
        <3> QED BY <3>1
    <2> QED BY <2>2, <2>3
<1>3. /\ Neighbors(w, id, type, "out") = DOMAIN w.nodes \cap {w.edges[e].dst : e \in OutEdges(w, id, type)}
      /\ Neighbors(w, id, type, "in") = DOMAIN w.nodes \cap {w.edges[e].src : e \in InEdges(w, id, type)}
    BY DEF Neighbors
<1> QED BY <1>1, <1>2, <1>3

LEMMA MergeNodes ==
    ASSUME NEW N, NEW M, NodesOK(N), NodesOK(M)
    PROVE  NodesOK(N ++ M) /\ People(N ++ M) \subseteq People(N) \cup People(M)
<1>1. ASSUME NEW n \in DOMAIN (N ++ M)
      PROVE  \/ n \in DOMAIN N /\ (N ++ M)[n] = N[n]
             \/ n \in DOMAIN M /\ (N ++ M)[n] = M[n]
    BY MergedAt
<1>2. \A n \in DOMAIN (N ++ M) : IsNode(n, (N ++ M)[n])
    BY <1>1 DEF NodesOK
<1>3. N ++ M = [n \in DOMAIN (N ++ M) |-> (N ++ M)[n]]
    BY DEF ++
<1>4. NodesOK(N ++ M)
    BY <1>2, <1>3 DEF NodesOK
<1>5. People(N ++ M) \subseteq People(N) \cup People(M)
    BY <1>1 DEF People
<1> QED BY <1>4, <1>5

LEMMA NoNodes == NodesOK(<<>>) /\ People(<<>>) = {}
<1>1. DOMAIN <<>> = {}
    OBVIOUS
<1>2. <<>> = [e \in DOMAIN <<>> |-> <<>>[e]]
    OBVIOUS
<1> QED BY <1>1, <1>2 DEF NodesOK, People

LEMMA PlainOK ==
    ASSUME NEW type, NEW Ids, type # "Person", \A id \in Ids : Tagged(id, type)
    PROVE  NodesOK(Plain(type, Ids)) /\ People(Plain(type, Ids)) = {} /\ DOMAIN Plain(type, Ids) = Ids
<1> DEFINE r == [type |-> type, at |-> 0, props |-> None]
           f == [id \in Ids |-> r]
<1>1. Plain(type, Ids) = f
    BY DEF Plain
<1>2. r.type = type /\ r = [type |-> r.type, at |-> r.at, props |-> r.props]
    OBVIOUS
<1> HIDE DEF r
<1>3. NodesOK(f) /\ People(f) = {} /\ DOMAIN f = Ids
    BY <1>2 DEF NodesOK, IsNode, People
<1> QED BY <1>1, <1>3

LEMMA AddGraph ==
    ASSUME NEW w, GraphOK(w), NEW ns, NEW es, NodesOK(ns), EdgesOK(es), IsFiniteSet(People(ns))
    PROVE  GraphOK(Added(w, ns, es))
<1>1. IsFiniteSet(People(w.nodes) \cup People(ns))
    BY FS_Union DEF GraphOK
<1>2. IsFiniteSet(People(w.nodes ++ ns))
    <2>1. People(w.nodes ++ ns) \in SUBSET (People(w.nodes) \cup People(ns))
        BY MergeNodes DEF GraphOK
    <2> QED BY <1>1, <2>1, FS_Subset
<1>3. NodesOK(w.nodes ++ ns) /\ EdgesOK(w.edges ++ es)
    BY MergeNodes, MergeEdges DEF GraphOK
<1> QED BY <1>2, <1>3, AddedFacts DEF GraphOK

-----------------------------------------------------------------------------
(* Pairs.                                                                  *)

IsPair(q) == \E a, b : a # b /\ q = {a, b}

LEMMA PairSize ==
    ASSUME NEW a, NEW b, a # b
    PROVE  IsFiniteSet({a, b}) /\ Cardinality({a, b}) = 2
<1>1. IsFiniteSet({a}) /\ Cardinality({a}) = 1
    BY FS_Singleton
<1>2. IsFiniteSet({a} \cup {b}) /\ Cardinality({a} \cup {b}) = 2
    BY <1>1, FS_AddElement
<1>3. {a} \cup {b} = {a, b}
    OBVIOUS
<1> QED BY <1>2, <1>3

LEMMA PairsFacts ==
    ASSUME NEW S, IsFiniteSet(S)
    PROVE  \A q : q \in Pairs(S) <=> \E a, b \in S : a # b /\ q = {a, b}
<1>1. ASSUME NEW q \in Pairs(S) PROVE \E a, b \in S : a # b /\ q = {a, b}
    <2>1. q \subseteq S /\ Cardinality(q) = 2 /\ IsFiniteSet(q)
        BY FS_Subset DEF Pairs
    <2>2. PICK a \in q : TRUE
        BY <2>1, FS_EmptySet
    <2>3. IsFiniteSet(q \ {a}) /\ Cardinality(q \ {a}) = 1
        BY <2>1, <2>2, FS_RemoveElement
    <2>4. PICK b : q \ {a} = {b}
        BY <2>3, FS_Singleton
    <2>5. b \in q /\ a # b /\ q = {a, b}
        BY <2>2, <2>4
    <2> QED BY <2>1, <2>2, <2>5
<1>2. ASSUME NEW q, NEW a \in S, NEW b \in S, a # b, q = {a, b} PROVE q \in Pairs(S)
    BY <1>2, PairSize DEF Pairs
<1> QED BY <1>1, <1>2

LEMMA EndsOfPair ==
    ASSUME NEW a, NEW b, a # b
    PROVE  /\ {SetToSeq({a, b})[1], SetToSeq({a, b})[2]} = {a, b}
           /\ SetToSeq({a, b})[1] # SetToSeq({a, b})[2]
<1> DEFINE f == SetToSeq({a, b})
           g == <<a, b>>
<1>1. Cardinality({a, b}) = 2
    BY PairSize
<1>2. g \in [1..2 -> {a, b}] /\ IsInjective(g)
    BY DEF IsInjective
<1>3. f \in [1..2 -> {a, b}] /\ IsInjective(f)
    <2> HIDE DEF g
    <2> QED BY <1>1, <1>2 DEF SetToSeq
<1> HIDE DEF f
<1>4. f[1] \in {a, b} /\ f[2] \in {a, b} /\ f[1] # f[2]
    BY <1>3 DEF IsInjective
<1> QED BY <1>4 DEF f

-----------------------------------------------------------------------------
(* What the steps of a builder write.                                      *)

Wrote(ns, es) ==
    /\ ~Taken(world, ns, es)
    /\ world' = Added(world, ns, es)
    /\ plan' = Tail(plan)
    /\ UNCHANGED <<config, affinity, raised>>

Task1 == Head(plan)

CompanyNodes ==
    Plain("Company", {Company})
      ++ Plain("Goal", Goals \cup {Subgoal(i) : i \in {i \in 1..Sizes[config.size].goals : i % 2 = 1}})
CompanyEdges ==
    Links("owns", {Company} \X Goals)
      ++ Links("subgoal_of", {<<Subgoal(i), Goal(i)>> : i \in {i \in 1..Sizes[config.size].goals : i % 2 = 1}})

DeptNodes(d) == Plain("Department", {Dept(d)})
DeptEdges(d, G) ==
    Link("has_department", Company, Dept(d)) ++ Links("advances_goal", {Dept(d)} \X G)

TeamNodes(d, slug, p, n) ==
    Plain("Team", {Team(d, slug)})
      ++ [id \in {p[i] : i \in 1..n} |->
            [type |-> "Person", at |-> 0, props |-> [department |-> d, unit |-> slug, role |-> None]]]
TeamEdges(d, slug, p, n) ==
    Link("part_of", Team(d, slug), Dept(d))
      ++ Link("leads", p[1], Team(d, slug))
      ++ Links("member_of", {<<p[i], Team(d, slug)>> : i \in 1..n})
      ++ Links("reports_to", {<<p[i], p[1]>> : i \in 2..n})

Marked(d) == [world EXCEPT !.nodes[HeadOf(d)].props.role = Archetypes[d].role]
HeadNodes(d) == Plain("Initiative", {Program(d)})
HeadEdges(d) ==
    Link("leads", HeadOf(d), Dept(d))
      ++ Links("reports_to", {<<Lead(world, t), HeadOf(d)>> : t \in Teams(world, d)}
                               \ {<<HeadOf(d), HeadOf(d)>>})
      ++ Owned(d, Program(d))

ProjectNodes(initiative, slug) ==
    Plain("Initiative", {initiative}) ++ Plain("Project", {Project(slug)})
ProjectEdges(d, initiative, slug, C) ==
    Link("subinitiative_of", initiative, Program(d)) ++ Owned(d, initiative)
      ++ Link("under", Project(slug), initiative)
      ++ Staffed(HeadOf(d), C, (Roster(world, d) \ {HeadOf(d)}) \ C, Project(slug))

\* What each step does unless it raises.
CompanyStep == Doing("company") /\ Wrote(CompanyNodes, CompanyEdges)
DeptStep(G) == Doing("open") /\ Wrote(DeptNodes(Task1.dept), DeptEdges(Task1.dept, G))
TeamStep(d, shape, n, picks) ==
    /\ Doing("team") /\ d = Task1.dept /\ shape = Archetypes[d].teams[Task1.arg]
    /\ n \in StaffCounts(shape) /\ picks \in [1..n -> Names]
    /\ Wrote(TeamNodes(d, shape.slug, Staff(picks), n), TeamEdges(d, shape.slug, Staff(picks), n))
HeadStep(d) ==
    /\ Doing("heads") /\ d = Task1.dept
    /\ ~Taken(Marked(d), HeadNodes(d), HeadEdges(d))
    /\ world' = Added(Marked(d), HeadNodes(d), HeadEdges(d))
    /\ plan' = Tail(plan)
    /\ UNCHANGED <<config, affinity, raised>>
ProjectStep(d, initiative, slug, C) ==
    /\ Doing("playbook") \/ Doing("project")
    /\ d = Task1.dept /\ \E x, y : initiative = <<"initiative", x, y>>
    /\ C \in SUBSET (Roster(world, d) \ {HeadOf(d)})
    /\ DOMAIN ProjectNodes(initiative, slug) \cap DOMAIN world.nodes = {}
    /\ world' = Added(world, ProjectNodes(initiative, slug), ProjectEdges(d, initiative, slug, C))
    /\ affinity' = Bumped(Pairs(Roster(world, d)))
    /\ plan' = Tail(plan)
    /\ UNCHANGED <<config, raised>>

LEMMA BuildSteps ==
    ASSUME BuildNext
    PROVE  \/ Raise
           \/ SelectArchetypes
           \/ CompanyStep
           \/ \E G \in SUBSET Goals : DeptStep(G)
           \/ \E d, shape, n, picks : TeamStep(d, shape, n, picks)
           \/ \E d : HeadStep(d)
           \/ \E d, initiative, slug, C : ProjectStep(d, initiative, slug, C)
           \/ WriteAffinities
<1>1. CASE SelectArchetypes
    BY <1>1
<1>2. CASE BuildCompany
    BY <1>2 DEF BuildCompany, Write, Wrote, CompanyStep, CompanyNodes, CompanyEdges
<1>3. CASE OpenDepartment
    BY <1>3 DEF OpenDepartment, Write, Wrote, DeptStep, DeptNodes, DeptEdges, Task1
<1>4. CASE BuildTeam
    <2> DEFINE d == Task1.dept
               shape == Archetypes[d].teams[Task1.arg]
               W(n, picks) ==
                   Write(TeamNodes(d, shape.slug, Staff(picks), n), TeamEdges(d, shape.slug, Staff(picks), n))
    <2>1. Doing("team") /\ \E n \in StaffCounts(shape) : \E picks \in [1..n -> Names] : W(n, picks)
        BY <1>4 DEF BuildTeam, TeamNodes, TeamEdges, Task1
    <2> HIDE DEF W, d, shape
    <2>5. PICK n \in StaffCounts(shape) : \E picks \in [1..n -> Names] : W(n, picks)
        BY <2>1
    <2>2. PICK picks \in [1..n -> Names] : W(n, picks)
        BY <2>5
    <2>3. \/ Raise
          \/ Wrote(TeamNodes(d, shape.slug, Staff(picks), n), TeamEdges(d, shape.slug, Staff(picks), n))
        BY <2>2 DEF W, Write, Wrote
    <2>4. Raise \/ TeamStep(d, shape, n, picks)
        BY <2>1, <2>2, <2>3 DEF TeamStep, d, shape
    <2> QED BY <2>4
<1>5. CASE AppointHead
    BY <1>5 DEF AppointHead, HeadStep, HeadNodes, HeadEdges, Marked, Task1
<1>6. CASE BuildPlaybook
    BY <1>6 DEF BuildPlaybook, BuildProject, ProjectStep, ProjectNodes, ProjectEdges, Task1, Taken, Splits
<1>7. CASE BuildConfigProject
    BY <1>7 DEF BuildConfigProject, BuildProject, ProjectStep, ProjectNodes, ProjectEdges, Task1, Taken, Splits
<1>8. CASE WriteAffinities
    BY <1>8
<1> QED BY <1>1, <1>2, <1>3, <1>4, <1>5, <1>6, <1>7, <1>8 DEF BuildNext

Has(E, type, a, b) == <<type, a, b>> \in DOMAIN E

LEMMA HasLink ==
    ASSUME NEW type \in Ordinary, NEW src, NEW dst
    PROVE  /\ EdgesOK(Link(type, src, dst))
           /\ \A t, a, b : Has(Link(type, src, dst), t, a, b) <=> t = type /\ a = src /\ b = dst
<1>1. EdgesOK(Link(type, src, dst)) /\ DOMAIN Link(type, src, dst) = {<<type, src, dst>>}
    BY LinkOK
<1> QED BY <1>1 DEF Has

LEMMA HasLinks ==
    ASSUME NEW type \in Ordinary, NEW S, \A p \in S : p = <<p[1], p[2]>>
    PROVE  /\ EdgesOK(Links(type, S))
           /\ \A t, a, b : Has(Links(type, S), t, a, b) <=> t = type /\ <<a, b>> \in S
<1>1. EdgesOK(Links(type, S)) /\ DOMAIN Links(type, S) = {<<type, p[1], p[2]>> : p \in S}
    BY LinksOK
<1>2. ASSUME NEW t, NEW a, NEW b
      PROVE  <<t, a, b>> \in {<<type, p[1], p[2]>> : p \in S} <=> t = type /\ <<a, b>> \in S
    <2>1. ASSUME NEW p \in S, <<t, a, b>> = <<type, p[1], p[2]>> PROVE t = type /\ <<a, b>> \in S
        <3>1. t = type /\ a = p[1] /\ b = p[2]
            BY <2>1
        <3>2. p = <<a, b>>
            BY <3>1
        <3> QED BY <3>1, <3>2
    <2>2. ASSUME t = type, <<a, b>> \in S PROVE <<t, a, b>> \in {<<type, p[1], p[2]>> : p \in S}
        <3> DEFINE p == <<a, b>>
        <3>1. p \in S /\ <<t, a, b>> = <<type, p[1], p[2]>>
            BY <2>2
        <3> QED BY <3>1
    <2> QED BY <2>1, <2>2
<1> QED BY <1>1, <1>2 DEF Has

LEMMA HasProduct ==
    ASSUME NEW type \in Ordinary, NEW A, NEW B
    PROVE  /\ EdgesOK(Links(type, A \X B))
           /\ \A t, a, b : Has(Links(type, A \X B), t, a, b) <=> t = type /\ a \in A /\ b \in B
<1> DEFINE S == A \X B
<1>1. \A q \in S : q = <<q[1], q[2]>>
    OBVIOUS
<1>2. \A a, b : <<a, b>> \in S <=> a \in A /\ b \in B
    OBVIOUS
<1> HIDE DEF S
<1>3. EdgesOK(Links(type, S)) /\ \A t, a, b : Has(Links(type, S), t, a, b) <=> t = type /\ <<a, b>> \in S
    BY <1>1, HasLinks
<1>4. \A t, a, b : Has(Links(type, S), t, a, b) <=> t = type /\ a \in A /\ b \in B
    BY <1>2, <1>3
<1> QED BY <1>3, <1>4 DEF S

LEMMA HasMerged ==
    ASSUME NEW E, NEW F
    PROVE  \A t, a, b : Has(E ++ F, t, a, b) <=> Has(E, t, a, b) \/ Has(F, t, a, b)
BY MergedAt DEF Has

LEMMA CompanyWrites ==
    /\ NodesOK(CompanyNodes) /\ People(CompanyNodes) = {}
    /\ EdgesOK(CompanyEdges)
    /\ \A t, a, b : Has(CompanyEdges, t, a, b) => t \in {"owns", "subgoal_of"}
    /\ \A n \in DOMAIN CompanyNodes : n[1] \in {"company", "goal"}
<1> DEFINE Odd == {i \in 1..Sizes[config.size].goals : i % 2 = 1}
           G == Goals \cup {Subgoal(i) : i \in Odd}
           S == {<<Subgoal(i), Goal(i)>> : i \in Odd}
<1>1. \A n \in G : n[1] = "goal"
    BY DEF Goals, Goal, Subgoal
<1>2. \A q \in S : q = <<q[1], q[2]>>
    OBVIOUS
<1>4. /\ CompanyNodes = Plain("Company", {Company}) ++ Plain("Goal", G)
      /\ CompanyEdges = Links("owns", {Company} \X Goals) ++ Links("subgoal_of", S)
    BY DEF CompanyNodes, CompanyEdges
<1> HIDE DEF G, S
<1>5. /\ NodesOK(Plain("Company", {Company})) /\ People(Plain("Company", {Company})) = {}
      /\ DOMAIN Plain("Company", {Company}) = {Company}
    <2>1. \A id \in {Company} : Tagged(id, "Company")
        BY DEF Tagged, Company
    <2> QED BY <2>1, PlainOK
<1>6. NodesOK(Plain("Goal", G)) /\ People(Plain("Goal", G)) = {} /\ DOMAIN Plain("Goal", G) = G
    <2>1. \A id \in G : Tagged(id, "Goal")
        BY <1>1 DEF Tagged
    <2> QED BY <2>1, PlainOK
<1>7. NodesOK(CompanyNodes) /\ People(CompanyNodes) = {}
    BY <1>4, <1>5, <1>6, MergeNodes
<1>8. /\ EdgesOK(Links("owns", {Company} \X Goals))
      /\ \A t, a, b : Has(Links("owns", {Company} \X Goals), t, a, b) => t = "owns"
    <2> DEFINE A == {Company}
    <2>1. "owns" \in Ordinary
        BY DEF Ordinary
    <2> HIDE DEF A
    <2>2. /\ EdgesOK(Links("owns", A \X Goals))
          /\ \A t, a, b : Has(Links("owns", A \X Goals), t, a, b) <=> t = "owns" /\ a \in A /\ b \in Goals
        BY <2>1, HasProduct, Zenon
    <2> QED BY <2>2 DEF A
<1>9. EdgesOK(Links("subgoal_of", S)) /\ \A t, a, b : Has(Links("subgoal_of", S), t, a, b) => t = "subgoal_of"
    BY <1>2, HasLinks DEF Ordinary
<1>10. EdgesOK(CompanyEdges) /\ \A t, a, b : Has(CompanyEdges, t, a, b) => t \in {"owns", "subgoal_of"}
    BY <1>4, <1>8, <1>9, MergeEdges, HasMerged
<1>11. \A n \in DOMAIN CompanyNodes : n[1] \in {"company", "goal"}
    BY <1>1, <1>4, <1>5, <1>6, MergedAt DEF Company
<1> QED BY <1>7, <1>10, <1>11

LEMMA DeptWrites ==
    ASSUME NEW d, NEW G
    PROVE  /\ NodesOK(DeptNodes(d)) /\ People(DeptNodes(d)) = {} /\ DOMAIN DeptNodes(d) = {Dept(d)}
           /\ EdgesOK(DeptEdges(d, G))
           /\ \A t, a, b : Has(DeptEdges(d, G), t, a, b) => t \in {"has_department", "advances_goal"}
<1>1. \A id \in {Dept(d)} : Tagged(id, "Department")
    BY DEF Tagged, Dept
<1>2. NodesOK(DeptNodes(d)) /\ People(DeptNodes(d)) = {} /\ DOMAIN DeptNodes(d) = {Dept(d)}
    BY <1>1, PlainOK DEF DeptNodes
<1>4. /\ EdgesOK(Links("advances_goal", {Dept(d)} \X G))
      /\ \A t, a, b : Has(Links("advances_goal", {Dept(d)} \X G), t, a, b) => t = "advances_goal"
    <2> DEFINE A == {Dept(d)}
    <2>1. "advances_goal" \in Ordinary
        BY DEF Ordinary
    <2> HIDE DEF A
    <2>2. /\ EdgesOK(Links("advances_goal", A \X G))
          /\ \A t, a, b : Has(Links("advances_goal", A \X G), t, a, b)
                            <=> t = "advances_goal" /\ a \in A /\ b \in G
        BY <2>1, HasProduct, Zenon
    <2> QED BY <2>2 DEF A
<1>5. /\ EdgesOK(Link("has_department", Company, Dept(d)))
      /\ \A t, a, b : Has(Link("has_department", Company, Dept(d)), t, a, b) => t = "has_department"
    BY HasLink DEF Ordinary
<1>6. EdgesOK(DeptEdges(d, G)) /\ \A t, a, b : Has(DeptEdges(d, G), t, a, b) => t \in {"has_department", "advances_goal"}
    BY <1>4, <1>5, MergeEdges, HasMerged DEF DeptEdges
<1> QED BY <1>2, <1>6

LEMMA StaffFacts ==
    ASSUME NEW n \in Nat, NEW picks \in [1..n -> Names]
    PROVE  \A i \in 1..n : Staff(picks)[i][1] = "person"
BY DEF Staff, Person

TeamWritten(d, slug, p, n, ns, es) ==
    /\ NodesOK(ns) /\ IsFiniteSet(People(ns))
    /\ DOMAIN ns = {Team(d, slug)} \cup {p[i] : i \in 1..n}
    /\ ns[Team(d, slug)].type = "Team"
    /\ \A x \in {p[i] : i \in 1..n} :
          /\ ns[x].type = "Person" /\ ns[x].props.department = d /\ ns[x].props.unit = slug
    /\ EdgesOK(es)
    /\ \A t, a, b : Has(es, t, a, b) <=>
          \/ t = "part_of" /\ a = Team(d, slug) /\ b = Dept(d)
          \/ t = "leads" /\ a = p[1] /\ b = Team(d, slug)
          \/ t = "member_of" /\ b = Team(d, slug) /\ \E i \in 1..n : a = p[i]
          \/ t = "reports_to" /\ b = p[1] /\ \E i \in 2..n : a = p[i]

LEMMA TeamWrites ==
    ASSUME NEW d, NEW slug, NEW n \in Nat, 1 <= n, NEW p, \A i \in 1..n : p[i][1] = "person"
    PROVE  TeamWritten(d, slug, p, n, TeamNodes(d, slug, p, n), TeamEdges(d, slug, p, n))
<1> DEFINE team == Team(d, slug)
           P == {p[i] : i \in 1..n}
           r == [type |-> "Person", at |-> 0, props |-> [department |-> d, unit |-> slug, role |-> None]]
           g == [id \in P |-> r]
           f == Plain("Team", {team})
           ns == TeamNodes(d, slug, p, n)
<1>1. ns = f ++ g
    BY DEF TeamNodes
<1>2. NodesOK(f) /\ People(f) = {} /\ DOMAIN f = {team} /\ f[team].type = "Team"
    <2>1. \A id \in {team} : Tagged(id, "Team")
        BY DEF Tagged, Team
    <2>2. f[team].type = "Team"
        BY DEF Plain
    <2> QED BY <2>1, <2>2, PlainOK
<1>3. \A x \in P : x[1] = "person" /\ Tagged(x, "Person")
    BY DEF Tagged
<1>4. NodesOK(g) /\ People(g) = P /\ DOMAIN g = P
    <2>1. /\ r = [type |-> r.type, at |-> r.at, props |-> r.props] /\ r.type = "Person"
          /\ r.props = [department |-> r.props.department, unit |-> r.props.unit, role |-> r.props.role]
        OBVIOUS
    <2> HIDE DEF r, P
    <2> QED BY <1>3, <2>1 DEF NodesOK, IsNode, People
<1>5. team \notin P
    <2>1. team[1] = "team"
        BY DEF Team
    <2> HIDE DEF team, P
    <2> QED BY <1>3, <2>1
<1>6. IsFiniteSet(P)
    <2> DEFINE h == [i \in 1..n |-> p[i]]
    <2>1. IsFiniteSet(1..n)
        BY FS_Interval
    <2>2. h \in [1..n -> P] /\ \A x \in P : \E i \in 1..n : h[i] = x
        OBVIOUS
    <2>3. h \in Surjection(1..n, P)
        <3> HIDE DEF h, P
        <3> QED BY <2>2 DEF Surjection
    <2> QED BY <2>1, <2>3, FS_Surjection
<1>7. \A x \in P : g[x] = r
    OBVIOUS
<1> HIDE DEF team, P, f, g
<1>8. DOMAIN ns = {team} \cup P /\ ns[team] = f[team] /\ \A x \in P : ns[x] = g[x]
    BY <1>1, <1>2, <1>4, <1>5, MergedAt
<1>9. NodesOK(ns) /\ IsFiniteSet(People(ns))
    <2>1. NodesOK(ns) /\ People(ns) \in SUBSET P
        BY <1>1, <1>2, <1>4, MergeNodes
    <2> QED BY <1>6, <2>1, FS_Subset
<1>10. \A x \in P : ns[x].type = "Person" /\ ns[x].props.department = d /\ ns[x].props.unit = slug
    BY <1>7, <1>8
<1> DEFINE M == {<<p[i], team>> : i \in 1..n}
           R == {<<p[i], p[1]>> : i \in 2..n}
           es == TeamEdges(d, slug, p, n)
           e1 == Link("part_of", team, Dept(d))
           e2 == Link("leads", p[1], team)
           e3 == Links("member_of", M)
           e4 == Links("reports_to", R)
<1>11. /\ \A q \in M : q = <<q[1], q[2]>>
       /\ \A a, b : <<a, b>> \in M <=> b = team /\ \E i \in 1..n : a = p[i]
    OBVIOUS
<1>12. /\ \A q \in R : q = <<q[1], q[2]>>
       /\ \A a, b : <<a, b>> \in R <=> b = p[1] /\ \E i \in 2..n : a = p[i]
    OBVIOUS
<1>13. es = ((e1 ++ e2) ++ e3) ++ e4
    BY DEF TeamEdges, team
<1>14. {"part_of", "leads", "member_of", "reports_to"} \subseteq Ordinary
    BY DEF Ordinary
<1> HIDE DEF M, R
<1>15. EdgesOK(e1) /\ \A t, a, b : Has(e1, t, a, b) <=> t = "part_of" /\ a = team /\ b = Dept(d)
    BY <1>14, HasLink
<1>16. EdgesOK(e2) /\ \A t, a, b : Has(e2, t, a, b) <=> t = "leads" /\ a = p[1] /\ b = team
    BY <1>14, HasLink
<1>17. EdgesOK(e3) /\ \A t, a, b : Has(e3, t, a, b) <=> t = "member_of" /\ b = team /\ \E i \in 1..n : a = p[i]
    <2>1. EdgesOK(e3) /\ \A t, a, b : Has(e3, t, a, b) <=> t = "member_of" /\ <<a, b>> \in M
        BY <1>11, <1>14, HasLinks
    <2> HIDE DEF e3
    <2> QED BY <1>11, <2>1
<1>18. EdgesOK(e4) /\ \A t, a, b : Has(e4, t, a, b) <=> t = "reports_to" /\ b = p[1] /\ \E i \in 2..n : a = p[i]
    <2>1. EdgesOK(e4) /\ \A t, a, b : Has(e4, t, a, b) <=> t = "reports_to" /\ <<a, b>> \in R
        BY <1>12, <1>14, HasLinks
    <2> HIDE DEF e4
    <2> QED BY <1>12, <2>1
<1> HIDE DEF e1, e2, e3, e4
<1>19. EdgesOK(es)
    BY <1>13, <1>15, <1>16, <1>17, <1>18, MergeEdges
<1>20. \A t, a, b : Has(es, t, a, b) <=> Has(e1, t, a, b) \/ Has(e2, t, a, b) \/ Has(e3, t, a, b) \/ Has(e4, t, a, b)
    BY <1>13, HasMerged
<1>21. \A t, a, b : Has(es, t, a, b) <=>
                  \/ t = "part_of" /\ a = team /\ b = Dept(d)
                  \/ t = "leads" /\ a = p[1] /\ b = team
                  \/ t = "member_of" /\ b = team /\ \E i \in 1..n : a = p[i]
                  \/ t = "reports_to" /\ b = p[1] /\ \E i \in 2..n : a = p[i]
    BY <1>15, <1>16, <1>17, <1>18, <1>20
<1> HIDE DEF ns, es
<1>22. TeamWritten(d, slug, p, n, ns, es)
    BY <1>2, <1>8, <1>9, <1>10, <1>19, <1>21 DEF team, P, TeamWritten
<1> QED BY <1>22 DEF ns, es

LEMMA OwnedWrites ==
    ASSUME NEW d, NEW initiative
    PROVE  /\ EdgesOK(Owned(d, initiative))
           /\ \A t, a, b : Has(Owned(d, initiative), t, a, b) => t \in {"owns_initiative", "advances_goal"}
<1> DEFINE A == {initiative}
           B == Neighbors(world, Dept(d), "advances_goal", "out")
           e1 == Link("owns_initiative", HeadOf(d), initiative)
           e2 == Links("advances_goal", A \X B)
<1>1. Owned(d, initiative) = e1 ++ e2
    BY DEF Owned
<1>2. "owns_initiative" \in Ordinary /\ "advances_goal" \in Ordinary
    BY DEF Ordinary
<1> HIDE DEF A, B
<1>3. EdgesOK(e1) /\ \A t, a, b : Has(e1, t, a, b) => t = "owns_initiative"
    BY <1>2, HasLink
<1>4. EdgesOK(e2) /\ \A t, a, b : Has(e2, t, a, b) => t = "advances_goal"
    <2>1. EdgesOK(e2) /\ \A t, a, b : Has(e2, t, a, b) <=> t = "advances_goal" /\ a \in A /\ b \in B
        BY <1>2, HasProduct, Zenon
    <2> QED BY <2>1
<1> HIDE DEF e1, e2
<1> QED BY <1>1, <1>3, <1>4, MergeEdges, HasMerged

\* Two stores with the same people and the same nodes but for roles.
SameNodes(N, M) ==
    /\ DOMAIN M = DOMAIN N
    /\ \A n \in DOMAIN N : M[n].type = N[n].type
    /\ \A n \in DOMAIN N : N[n].type = "Person" =>
           M[n].props.department = N[n].props.department /\ M[n].props.unit = N[n].props.unit

LEMMA MarkedFacts ==
    ASSUME GraphOK(world), NEW d
    PROVE  /\ GraphOK(Marked(d)) /\ Marked(d).edges = world.edges
           /\ SameNodes(world.nodes, Marked(d).nodes)
<1> DEFINE N == world.nodes
           h == HeadOf(d)
           x == Archetypes[d].role
           M == [N EXCEPT ![h].props.role = x]
<1>1. world = [nodes |-> N, edges |-> world.edges] /\ NodesOK(N) /\ EdgesOK(world.edges) /\ IsFiniteSet(People(N))
    BY DEF GraphOK
<1>2. Marked(d) = [nodes |-> M, edges |-> world.edges]
    BY <1>1 DEF Marked
<1> HIDE DEF N, h, x
<1>3. DOMAIN M = DOMAIN N /\ M = [n \in DOMAIN M |-> M[n]]
    BY <1>1 DEF NodesOK
<1>4. \A n \in DOMAIN N : n # h => M[n] = N[n]
    BY <1>1 DEF NodesOK
<1>5. ASSUME h \in DOMAIN N PROVE M[h] = [N[h] EXCEPT !.props = [N[h].props EXCEPT !.role = x]]
    BY <1>1, <1>5 DEF NodesOK
<1> HIDE DEF M
<1>6. ASSUME h \in DOMAIN N
      PROVE  /\ IsNode(h, M[h]) /\ M[h].type = N[h].type
             /\ N[h].type = "Person" =>
                  M[h].props.department = N[h].props.department /\ M[h].props.unit = N[h].props.unit
    <2> DEFINE r == N[h]
               q == [r.props EXCEPT !.role = x]
               s == [r EXCEPT !.props = q]
    <2>1. IsNode(h, r)
        BY <1>1, <1>6 DEF NodesOK
    <2>2. M[h] = s
        BY <1>5, <1>6
    <2>3. r = [type |-> r.type, at |-> r.at, props |-> r.props]
        BY <2>1 DEF IsNode
    <2> HIDE DEF r
    <2>4. s = [type |-> r.type, at |-> r.at, props |-> q]
        <3> HIDE DEF q
        <3> QED BY <2>3
    <2>5. ASSUME r.type = "Person"
          PROVE  q = [department |-> r.props.department, unit |-> r.props.unit, role |-> x]
        <3>1. r.props = [department |-> r.props.department, unit |-> r.props.unit, role |-> r.props.role]
            BY <2>1, <2>5 DEF IsNode
        <3> QED BY <3>1
    <2> HIDE DEF q, s
    <2>6. s.type = r.type /\ s.at = r.at /\ s.props = q
        BY <2>4
    <2>7. IsNode(h, s)
        <3>1. s = [type |-> s.type, at |-> s.at, props |-> s.props] /\ Tagged(h, s.type)
            BY <2>1, <2>4, <2>6 DEF IsNode
        <3>2. s.type = "Person" => s.props = [department |-> s.props.department, unit |-> s.props.unit,
                                              role |-> s.props.role]
            BY <2>5, <2>6
        <3> QED BY <3>1, <3>2 DEF IsNode
    <2> QED BY <2>2, <2>5, <2>6, <2>7 DEF r
<1>7. NodesOK(M) /\ SameNodes(N, M)
    BY <1>1, <1>3, <1>4, <1>6 DEF NodesOK, SameNodes
<1>8. People(M) = People(N)
    BY <1>7 DEF People, SameNodes
<1> QED BY <1>1, <1>2, <1>7, <1>8 DEF GraphOK, N

LEMMA HeadWrites ==
    ASSUME NEW d
    PROVE  /\ NodesOK(HeadNodes(d)) /\ People(HeadNodes(d)) = {} /\ DOMAIN HeadNodes(d) = {Program(d)}
           /\ HeadNodes(d)[Program(d)].type = "Initiative"
           /\ EdgesOK(HeadEdges(d))
           /\ \A t, a, b : Has(HeadEdges(d), t, a, b) =>
                  t \in {"leads", "reports_to", "owns_initiative", "advances_goal"}
           /\ \A a, b : Has(HeadEdges(d), "leads", a, b) <=> a = HeadOf(d) /\ b = Dept(d)
           /\ \A a, b : Has(HeadEdges(d), "reports_to", a, b) <=>
                  b = HeadOf(d) /\ a # HeadOf(d) /\ \E x \in Teams(world, d) : a = Lead(world, x)
<1>1. \A id \in {Program(d)} : Tagged(id, "Initiative")
    BY DEF Tagged, Program
<1>2. /\ NodesOK(HeadNodes(d)) /\ People(HeadNodes(d)) = {} /\ DOMAIN HeadNodes(d) = {Program(d)}
      /\ HeadNodes(d)[Program(d)].type = "Initiative"
    <2>1. HeadNodes(d)[Program(d)].type = "Initiative"
        BY DEF HeadNodes, Plain
    <2> QED BY <1>1, <2>1, PlainOK DEF HeadNodes
<1> DEFINE h == HeadOf(d)
           T == Teams(world, d)
           S == {<<Lead(world, t), h>> : t \in T} \ {<<h, h>>}
           e1 == Link("leads", h, Dept(d))
           e2 == Links("reports_to", S)
           e3 == Owned(d, Program(d))
<1>3. HeadEdges(d) = (e1 ++ e2) ++ e3
    BY DEF HeadEdges
<1> HIDE DEF h, T
<1>4. /\ \A q \in S : q = <<q[1], q[2]>>
      /\ \A a, b : <<a, b>> \in S <=> b = h /\ a # h /\ \E x \in T : a = Lead(world, x)
    OBVIOUS
<1>5. "leads" \in Ordinary /\ "reports_to" \in Ordinary
    BY DEF Ordinary
<1> HIDE DEF S
<1>6. EdgesOK(e1) /\ \A t, a, b : Has(e1, t, a, b) <=> t = "leads" /\ a = h /\ b = Dept(d)
    BY <1>5, HasLink
<1>7. EdgesOK(e2) /\ \A t, a, b : Has(e2, t, a, b) <=> t = "reports_to" /\ <<a, b>> \in S
    BY <1>4, <1>5, HasLinks
<1>8. EdgesOK(e3) /\ \A t, a, b : Has(e3, t, a, b) => t \in {"owns_initiative", "advances_goal"}
    BY OwnedWrites
<1> HIDE DEF e1, e2, e3
<1>9. EdgesOK(HeadEdges(d))
    BY <1>3, <1>6, <1>7, <1>8, MergeEdges
<1>10. \A t, a, b : Has(HeadEdges(d), t, a, b) <=> Has(e1, t, a, b) \/ Has(e2, t, a, b) \/ Has(e3, t, a, b)
    BY <1>3, HasMerged
<1>11. \A t, a, b : Has(HeadEdges(d), t, a, b) =>
                  t \in {"leads", "reports_to", "owns_initiative", "advances_goal"}
    BY <1>6, <1>7, <1>8, <1>10
<1>12. \A a, b : Has(HeadEdges(d), "leads", a, b) <=> a = h /\ b = Dept(d)
    <2>1. TAKE a, b
    <2>3. ~Has(e2, "leads", a, b)
        <3>1. Has(e2, "leads", a, b) <=> "leads" = "reports_to" /\ <<a, b>> \in S
            BY <1>7, Zenon
        <3> QED BY <3>1
    <2>4. ~Has(e3, "leads", a, b)
        BY <1>8
    <2>2. Has(HeadEdges(d), "leads", a, b) <=> Has(e1, "leads", a, b)
        BY <1>10, <2>3, <2>4
    <2> QED BY <1>6, <2>2
<1>13. \A a, b : Has(HeadEdges(d), "reports_to", a, b) <=>
                  b = h /\ a # h /\ \E x \in T : a = Lead(world, x)
    <2>1. TAKE a, b
    <2>3. ~Has(e1, "reports_to", a, b)
        BY <1>6
    <2>4. ~Has(e3, "reports_to", a, b)
        BY <1>8
    <2>2. Has(HeadEdges(d), "reports_to", a, b) <=> Has(e2, "reports_to", a, b)
        BY <1>10, <2>3, <2>4
    <2> QED BY <1>4, <1>7, <2>2
<1> QED BY <1>2, <1>9, <1>11, <1>12, <1>13 DEF h, T

LEMMA StaffedFacts ==
    ASSUME NEW lead, NEW C, NEW R, NEW project
    PROVE  /\ EdgesOK(Staffed(lead, C, R, project))
           /\ \A t, a, b : Has(Staffed(lead, C, R, project), t, a, b) <=>
                  t = "member_of" /\ b = project /\ a \in {lead} \cup C \cup R
           /\ \A a \in {lead} \cup C \cup R :
                  Staffed(lead, C, R, project)[<<"member_of", a, project>>].props = "lead" <=> a = lead
<1> DEFINE S == {lead} \cup C \cup R
           D == {<<"member_of", p, project>> : p \in S}
           Role(p) == IF p = lead THEN "lead" ELSE IF p \in C THEN "contributor" ELSE "reviewer"
           r(e) == [type |-> "member_of", src |-> e[2], dst |-> project, at |-> 0, props |-> Role(e[2])]
           f == [e \in D |-> r(e)]
<1>1. Staffed(lead, C, R, project) = f
    BY DEF Staffed
<1>2. \A t, a, b : <<t, a, b>> \in D <=> t = "member_of" /\ b = project /\ a \in S
    <2> HIDE DEF S
    <2> QED OBVIOUS
<1>3. \A a : Role(a) = "lead" <=> a = lead
    OBVIOUS
<1> HIDE DEF S, Role
<1>4. ASSUME NEW e \in D PROVE IsEdge(r(e)) /\ Keyed(e, r(e))
    <2>1. PICK p \in S : e = <<"member_of", p, project>>
        OBVIOUS
    <2> QED BY <2>1 DEF IsEdge, Keyed
<1>5. \A a \in S : <<"member_of", a, project>> \in D /\ f[<<"member_of", a, project>>].props = Role(a)
    OBVIOUS
<1> HIDE DEF r, D
<1>6. EdgesOK(f) /\ DOMAIN f = D
    BY <1>4 DEF EdgesOK
<1> HIDE DEF f
<1>7. \A a \in S : f[<<"member_of", a, project>>].props = "lead" <=> a = lead
    BY <1>3, <1>5
<1>8. \A t, a, b : Has(f, t, a, b) <=> t = "member_of" /\ b = project /\ a \in S
    BY <1>2, <1>6 DEF Has
<1> QED BY <1>1, <1>6, <1>7, <1>8 DEF S

ProjectWritten(d, initiative, slug, C) ==
    /\ NodesOK(ProjectNodes(initiative, slug)) /\ People(ProjectNodes(initiative, slug)) = {}
    /\ DOMAIN ProjectNodes(initiative, slug) = {initiative, Project(slug)}
    /\ ProjectNodes(initiative, slug)[initiative].type = "Initiative"
    /\ ProjectNodes(initiative, slug)[Project(slug)].type = "Project"
    /\ EdgesOK(ProjectEdges(d, initiative, slug, C))
    /\ \A t, a, b : Has(ProjectEdges(d, initiative, slug, C), t, a, b) =>
           t \in {"subinitiative_of", "owns_initiative", "advances_goal", "under", "member_of"}
    /\ \A a, b : Has(ProjectEdges(d, initiative, slug, C), "member_of", a, b) <=>
           b = Project(slug) /\ a \in {HeadOf(d)} \cup Roster(world, d)
    /\ \A a \in {HeadOf(d)} \cup Roster(world, d) :
           ProjectEdges(d, initiative, slug, C)[<<"member_of", a, Project(slug)>>].props = "lead"
           <=> a = HeadOf(d)

LEMMA ProjectWrites ==
    ASSUME NEW d, NEW x, NEW y, NEW slug, NEW C, NEW initiative, initiative = <<"initiative", x, y>>,
           C \subseteq Roster(world, d) \ {HeadOf(d)}
    PROVE  ProjectWritten(d, initiative, slug, C)
<1> DEFINE f == Plain("Initiative", {initiative})
           g == Plain("Project", {Project(slug)})
           ns == ProjectNodes(initiative, slug)
<1>1. ns = f ++ g
    BY DEF ProjectNodes
<1>2. NodesOK(f) /\ People(f) = {} /\ DOMAIN f = {initiative} /\ f[initiative].type = "Initiative"
    <2>1. \A id \in {initiative} : Tagged(id, "Initiative")
        BY DEF Tagged
    <2>2. f[initiative].type = "Initiative"
        BY DEF Plain
    <2> QED BY <2>1, <2>2, PlainOK
<1>3. NodesOK(g) /\ People(g) = {} /\ DOMAIN g = {Project(slug)} /\ g[Project(slug)].type = "Project"
    <2>1. \A id \in {Project(slug)} : Tagged(id, "Project")
        BY DEF Tagged, Project
    <2>2. g[Project(slug)].type = "Project"
        BY DEF Plain
    <2> QED BY <2>1, <2>2, PlainOK
<1>4. initiative # Project(slug)
    BY DEF Project
<1> HIDE DEF f, g
<1>5. /\ NodesOK(ns) /\ People(ns) = {} /\ DOMAIN ns = {initiative, Project(slug)}
      /\ ns[initiative].type = "Initiative" /\ ns[Project(slug)].type = "Project"
    <2>1. NodesOK(ns) /\ People(ns) = {}
        BY <1>1, <1>2, <1>3, MergeNodes
    <2>2. DOMAIN ns = {initiative, Project(slug)} /\ ns[initiative] = f[initiative]
          /\ ns[Project(slug)] = g[Project(slug)]
        BY <1>1, <1>2, <1>3, <1>4, MergedAt
    <2> QED BY <1>2, <1>3, <2>1, <2>2
<1> DEFINE h == HeadOf(d)
           q == Project(slug)
           P == {h} \cup Roster(world, d)
           R == (Roster(world, d) \ {h}) \ C
           e1 == Link("subinitiative_of", initiative, Program(d))
           e2 == Owned(d, initiative)
           e3 == Link("under", q, initiative)
           e4 == Staffed(h, C, R, q)
           es == ProjectEdges(d, initiative, slug, C)
<1>6. es = ((e1 ++ e2) ++ e3) ++ e4
    BY DEF ProjectEdges
<1>7. {h} \cup C \cup R = P
    OBVIOUS
<1>8. "subinitiative_of" \in Ordinary /\ "under" \in Ordinary
    BY DEF Ordinary
<1> HIDE DEF h, q, P, R, f, g, ns
<1>9. EdgesOK(e1) /\ \A t, a, b : Has(e1, t, a, b) => t = "subinitiative_of"
    BY <1>8, HasLink
<1>10. EdgesOK(e2) /\ \A t, a, b : Has(e2, t, a, b) => t \in {"owns_initiative", "advances_goal"}
    BY OwnedWrites
<1>11. EdgesOK(e3) /\ \A t, a, b : Has(e3, t, a, b) => t = "under"
    BY <1>8, HasLink
<1>12. /\ EdgesOK(e4)
       /\ \A t, a, b : Has(e4, t, a, b) <=> t = "member_of" /\ b = q /\ a \in P
       /\ \A a \in P : e4[<<"member_of", a, q>>].props = "lead" <=> a = h
    BY <1>7, StaffedFacts
<1> HIDE DEF e1, e2, e3, e4
<1>13. EdgesOK(es)
    BY <1>6, <1>9, <1>10, <1>11, <1>12, MergeEdges
<1>14. \A t, a, b : Has(es, t, a, b) <=> Has(e1, t, a, b) \/ Has(e2, t, a, b) \/ Has(e3, t, a, b) \/ Has(e4, t, a, b)
    BY <1>6, HasMerged
<1>15. \A t, a, b : Has(es, t, a, b) =>
                      t \in {"subinitiative_of", "owns_initiative", "advances_goal", "under", "member_of"}
    BY <1>9, <1>10, <1>11, <1>12, <1>14
<1>16. ASSUME NEW a, NEW b
       PROVE  ~Has(e1, "member_of", a, b) /\ ~Has(e2, "member_of", a, b) /\ ~Has(e3, "member_of", a, b)
    BY <1>9, <1>10, <1>11
<1>17. \A a, b : Has(es, "member_of", a, b) <=> b = q /\ a \in P
    <2>1. TAKE a, b
    <2>2. Has(es, "member_of", a, b) <=> Has(e4, "member_of", a, b)
        BY <1>14, <1>16
    <2> QED BY <1>12, <2>2
<1>18. ASSUME NEW a \in P PROVE es[<<"member_of", a, q>>].props = "lead" <=> a = h
    <2> DEFINE k == <<"member_of", a, q>>
    <2>1. k \notin DOMAIN e1 /\ k \notin DOMAIN e2 /\ k \notin DOMAIN e3
        BY <1>16 DEF Has
    <2>2. k \in DOMAIN e4
        BY <1>12 DEF Has
    <2> HIDE DEF k
    <2>3. k \notin DOMAIN ((e1 ++ e2) ++ e3)
        BY <2>1, MergedAt
    <2>4. es[k] = e4[k]
        BY <1>6, <2>2, <2>3, MergedAt
    <2> QED BY <1>12, <2>4 DEF k
<1> HIDE DEF es
<1>19. ns = ProjectNodes(initiative, slug) /\ es = ProjectEdges(d, initiative, slug, C)
    BY DEF ns, es
<1> QED BY <1>5, <1>13, <1>15, <1>17, <1>18 DEF h, q, P, ns, es, ProjectWritten

\* The edge of an affinity is no edge between two named ends.
LEMMA AffinityIds ==
    /\ \A q, r : AffinityId(q) = AffinityId(r) <=> q = r
    /\ \A q : AffinityId(q)[2] = q
    /\ \A q, t, a, b : AffinityId(q) # <<t, a, b>>
    /\ \A q, t, a, b, c : AffinityId(q) # <<t, a, b, c>>
<1>1. \A q : AffinityId(q)[2] = q
    BY DEF AffinityId
<1>2. \A q, r : AffinityId(q) = AffinityId(r) <=> q = r
    BY DEF AffinityId
<1>3. \A q, t, a, b : AffinityId(q) # <<t, a, b>>
    BY DEF AffinityId
<1>4. \A q, t, a, b, c : AffinityId(q) # <<t, a, b, c>>
    BY DEF AffinityId
<1> QED BY <1>1, <1>2, <1>3, <1>4

AffinityEdge(q, at, props) ==
    [type |-> "collaborates_with", src |-> SetToSeq(q)[1], dst |-> SetToSeq(q)[2], at |-> at, props |-> props]

LEMMA AffinityEdgeOK ==
    ASSUME NEW q, IsPair(q), NEW at \in Nat, NEW props
    PROVE  IsEdge(AffinityEdge(q, at, props)) /\ Keyed(AffinityId(q), AffinityEdge(q, at, props))
<1> DEFINE r == AffinityEdge(q, at, props)
<1>1. {r.src, r.dst} = q /\ r.src # r.dst
    <2>1. PICK a, b : a # b /\ q = {a, b}
        BY DEF IsPair
    <2>2. {SetToSeq(q)[1], SetToSeq(q)[2]} = q /\ SetToSeq(q)[1] # SetToSeq(q)[2]
        BY <2>1, EndsOfPair
    <2> QED BY <2>2 DEF AffinityEdge
<1>2. IsEdge(r) /\ r.type = "collaborates_with"
    BY DEF IsEdge, AffinityEdge
<1> HIDE DEF r
<1>3. Keyed(AffinityId(q), r)
    BY <1>1, <1>2 DEF Keyed
<1> QED BY <1>2, <1>3 DEF r

Written(A) ==
    [e \in {AffinityId(pair) : pair \in DOMAIN A} |->
       [type |-> "collaborates_with", src |-> SetToSeq(e[2])[1],
        dst |-> SetToSeq(e[2])[2], at |-> 0, props |-> A[e[2]]]]

LEMMA WrittenFacts ==
    ASSUME NEW A, \A q \in DOMAIN A : IsPair(q)
    PROVE  /\ EdgesOK(Written(A))
           /\ \A t, a, b : ~Has(Written(A), t, a, b)
           /\ \A q : AffinityId(q) \in DOMAIN Written(A) <=> q \in DOMAIN A
           /\ \A q \in DOMAIN A : Written(A)[AffinityId(q)].props = A[q]
           /\ \A e \in DOMAIN Written(A) : Written(A)[e].type = "collaborates_with"
<1> DEFINE D == {AffinityId(pair) : pair \in DOMAIN A}
           r(e) == AffinityEdge(e[2], 0, A[e[2]])
           f == [e \in D |-> r(e)]
<1>1. Written(A) = f
    BY DEF Written, AffinityEdge
<1>2. ASSUME NEW q \in DOMAIN A
      PROVE  /\ AffinityId(q) \in D /\ f[AffinityId(q)] = AffinityEdge(q, 0, A[q])
             /\ f[AffinityId(q)].props = A[q] /\ f[AffinityId(q)].type = "collaborates_with"
             /\ IsEdge(f[AffinityId(q)]) /\ Keyed(AffinityId(q), f[AffinityId(q)])
    <2>1. AffinityId(q) \in D /\ AffinityId(q)[2] = q
        BY AffinityIds
    <2>2. f[AffinityId(q)] = AffinityEdge(q, 0, A[q])
        BY <2>1
    <2>3. AffinityEdge(q, 0, A[q]).props = A[q] /\ AffinityEdge(q, 0, A[q]).type = "collaborates_with"
        BY DEF AffinityEdge
    <2> HIDE DEF f
    <2> QED BY <2>1, <2>2, <2>3, AffinityEdgeOK
<1>3. DOMAIN f = D /\ f = [e \in DOMAIN f |-> f[e]]
    OBVIOUS
<1>4. \A e \in D : \E q \in DOMAIN A : e = AffinityId(q)
    OBVIOUS
<1> HIDE DEF f, D
<1>5. EdgesOK(f) /\ \A e \in DOMAIN f : f[e].type = "collaborates_with"
    BY <1>2, <1>3, <1>4 DEF EdgesOK
<1>6. \A t, a, b : ~Has(f, t, a, b)
    BY <1>3, <1>4, AffinityIds DEF Has
<1>7. \A q : AffinityId(q) \in DOMAIN f <=> q \in DOMAIN A
    BY <1>2, <1>3, <1>4, AffinityIds
<1> QED BY <1>1, <1>2, <1>5, <1>6, <1>7

Related(s, picks, R) ==
    /\ EdgesOK(R)
    /\ \A t, a, b : ~Has(R, t, a, b)
    /\ \A q : AffinityId(q) \notin DOMAIN R
    /\ \A e \in DOMAIN R : /\ R[e].type = "reviews_for" /\ R[e].at = now /\ R[e].dst = s.anchor
                          /\ \E i \in DOMAIN picks : R[e].src = picks[i]

LEMMA RelationshipsFacts ==
    ASSUME NEW s, NEW k \in Nat, NEW picks, DOMAIN picks = 1..k, now \in Nat
    PROVE  Related(s, picks, Relationships(s, picks))
<1> DEFINE D == {<<"reviews_for", picks[i], s.anchor, now>> : i \in DOMAIN picks}
           r(e) == [type |-> "reviews_for", src |-> e[2], dst |-> s.anchor, at |-> now, props |-> None]
           f == [e \in D |-> r(e)]
<1>1. Relationships(s, picks) = f
    BY DEF Relationships
<1>2. ASSUME NEW e \in D
      PROVE  /\ IsEdge(r(e)) /\ Keyed(e, r(e))
             /\ r(e).type = "reviews_for" /\ r(e).at = now /\ r(e).dst = s.anchor
             /\ \E i \in DOMAIN picks : r(e).src = picks[i]
             /\ \A t, a, b : e # <<t, a, b>>
             /\ \A q : e # AffinityId(q)
    <2>1. PICK i \in DOMAIN picks : e = <<"reviews_for", picks[i], s.anchor, now>>
        OBVIOUS
    <2>2. r(e).src = picks[i] /\ r(e).type = "reviews_for" /\ r(e).at = now /\ r(e).dst = s.anchor
        BY <2>1
    <2>3. IsEdge(r(e))
        BY DEF IsEdge
    <2> HIDE DEF r
    <2>4. Keyed(e, r(e))
        BY <2>1, <2>2 DEF Keyed
    <2>5. \A t, a, b : e # <<t, a, b>>
        BY <2>1
    <2>6. \A q : e # AffinityId(q)
        BY <2>1, AffinityIds
    <2> QED BY <2>2, <2>3, <2>4, <2>5, <2>6
<1>3. DOMAIN f = D /\ f = [e \in DOMAIN f |-> f[e]] /\ \A e \in D : f[e] = r(e)
    OBVIOUS
<1> HIDE DEF f, D, r
<1>4. EdgesOK(f)
    BY <1>2, <1>3 DEF EdgesOK
<1>5. \A e \in DOMAIN f : /\ f[e].type = "reviews_for" /\ f[e].at = now /\ f[e].dst = s.anchor
                         /\ \E i \in DOMAIN picks : f[e].src = picks[i]
    BY <1>2, <1>3
<1>6. \A t, a, b : ~Has(f, t, a, b)
    BY <1>2, <1>3 DEF Has
<1>7. \A q : AffinityId(q) \notin DOMAIN f
    BY <1>2, <1>3
<1> QED BY <1>1, <1>4, <1>5, <1>6, <1>7 DEF Related

Strengthened(E, s, picks, F) ==
    /\ EdgesOK(F)
    /\ DOMAIN F = DOMAIN E \cup Drawn(s, picks)
    /\ \A e \in DOMAIN E : /\ F[e].type = E[e].type /\ F[e].src = E[e].src
                          /\ F[e].dst = E[e].dst /\ F[e].at = E[e].at
    /\ \A e \in DOMAIN E \ Drawn(s, picks) : F[e] = E[e]
    /\ \A e \in Drawn(s, picks) \ DOMAIN E : F[e].type = "collaborates_with" /\ F[e].at = now
    /\ \A i \in DOMAIN picks :
          LET e == AffinityId({picks[i], s.anchor})
              n == Times(picks, picks[i])
          IN F[e].props = IF e \in DOMAIN E THEN E[e].props + n ELSE n

LEMMA ReinforcedFacts ==
    ASSUME NEW w, w = [nodes |-> w.nodes, edges |-> w.edges], EdgesOK(w.edges), now \in Nat,
           NEW s, NEW picks, \A i \in DOMAIN picks : picks[i] # s.anchor
    PROVE  /\ Reinforced(w, s, picks) = [nodes |-> w.nodes, edges |-> Reinforced(w, s, picks).edges]
           /\ Strengthened(w.edges, s, picks, Reinforced(w, s, picks).edges)
<1> DEFINE E == w.edges
           Ids == Drawn(s, picks)
           New == Ids \ DOMAIN E
           n(e) == Times(picks, Partner(s, e))
           old(e) == IF e \in Ids THEN [E[e] EXCEPT !.props = @ + n(e)] ELSE E[e]
           new(e) == AffinityEdge(e[2], now, n(e))
           f == [e \in DOMAIN E |-> old(e)]
           g == [e \in New |-> new(e)]
           F == f ++ g
<1>1. Reinforced(w, s, picks) = [nodes |-> w.nodes, edges |-> F]
    <2>1. Reinforced(w, s, picks) = [w EXCEPT !.edges = f ++ g]
        BY DEF Reinforced, AffinityEdge
    <2> HIDE DEF f, g
    <2> QED BY <2>1
<1>2. \A e \in DOMAIN E : IsEdge(E[e]) /\ Keyed(e, E[e])
    BY DEF EdgesOK
<1>3. ASSUME NEW i \in DOMAIN picks
      PROVE  LET e == AffinityId({picks[i], s.anchor}) IN
             /\ e \in Ids /\ e[2] = {picks[i], s.anchor} /\ IsPair(e[2]) /\ Partner(s, e) = picks[i]
    <2> DEFINE e == AffinityId({picks[i], s.anchor})
    <2>1. e \in Ids
        BY DEF Drawn
    <2>2. e[2] = {picks[i], s.anchor}
        BY DEF AffinityId
    <2> HIDE DEF e
    <2>4. IsPair(e[2])
        BY <2>2 DEF IsPair
    <2>3. Partner(s, e) = picks[i]
        BY <2>2 DEF Partner
    <2> HIDE DEF Ids
    <2> QED BY <2>1, <2>2, <2>3, <2>4 DEF e
<1>4. \A e \in Ids : \E i \in DOMAIN picks : e = AffinityId({picks[i], s.anchor})
    BY DEF Drawn
<1> HIDE DEF Ids
<1>5. ASSUME NEW e \in DOMAIN E
      PROVE  /\ old(e).type = E[e].type /\ old(e).src = E[e].src
             /\ old(e).dst = E[e].dst /\ old(e).at = E[e].at /\ IsEdge(old(e))
             /\ e \notin Ids => old(e) = E[e]
             /\ e \in Ids => old(e).props = E[e].props + n(e)
    <2> DEFINE r == E[e]
               v == r.props + n(e)
               q == [r EXCEPT !.props = v]
    <2>1. r = [type |-> r.type, src |-> r.src, dst |-> r.dst, at |-> r.at, props |-> r.props] /\ r.at \in Nat
        BY <1>2 DEF IsEdge
    <2>2. old(e) = IF e \in Ids THEN q ELSE r
        OBVIOUS
    <2> HIDE DEF r, old
    <2>3. q = [type |-> r.type, src |-> r.src, dst |-> r.dst, at |-> r.at, props |-> v]
        <3> HIDE DEF v
        <3> QED BY <2>1
    <2>4. q.type = r.type /\ q.src = r.src /\ q.dst = r.dst /\ q.at = r.at /\ q.props = v
        <3> HIDE DEF v, q
        <3> QED BY <2>3
    <2>5. IsEdge(q) /\ IsEdge(r)
        <3> HIDE DEF v, q
        <3> QED BY <2>1, <2>3, <2>4 DEF IsEdge
    <2> HIDE DEF q
    <2>6. CASE e \in Ids
        BY <2>2, <2>4, <2>5, <2>6 DEF r
    <2>7. CASE e \notin Ids
        BY <2>2, <2>5, <2>7 DEF r
    <2> QED BY <2>6, <2>7
<1>6. ASSUME NEW e \in New
      PROVE  /\ new(e).type = "collaborates_with" /\ new(e).at = now /\ new(e).props = n(e)
             /\ IsEdge(new(e)) /\ Keyed(e, new(e))
    <2>1. PICK i \in DOMAIN picks : e = AffinityId({picks[i], s.anchor})
        BY <1>4
    <2>2. IsPair(e[2]) /\ e = AffinityId(e[2])
        BY <1>3, <2>1, AffinityIds
    <2>3. IsEdge(new(e)) /\ Keyed(e, new(e))
        BY <2>2, AffinityEdgeOK
    <2>4. new(e).type = "collaborates_with" /\ new(e).at = now /\ new(e).props = n(e)
        BY DEF AffinityEdge
    <2> QED BY <2>3, <2>4
<1>7. DOMAIN f = DOMAIN E /\ DOMAIN g = New /\ (\A e \in DOMAIN E : f[e] = old(e)) /\ \A e \in New : g[e] = new(e)
    OBVIOUS
<1> HIDE DEF old, new, f, g
<1>8. DOMAIN F = DOMAIN E \cup New /\ DOMAIN F = DOMAIN E \cup Ids
    BY <1>7, MergedAt
<1>9. /\ \A e \in DOMAIN E : F[e] = old(e)
      /\ \A e \in New : F[e] = new(e)
    BY <1>7, MergedAt
<1>10. F = [e \in DOMAIN F |-> F[e]]
    BY Merged, <1>8 DEF ++
<1> HIDE DEF F, n
<1>11. \A e \in DOMAIN E : Keyed(e, F[e])
    <2>1. TAKE e \in DOMAIN E
    <2>2. /\ F[e].type = E[e].type /\ F[e].src = E[e].src
          /\ F[e].dst = E[e].dst /\ F[e].at = E[e].at
        BY <1>5, <1>9
    <2>3. Keyed(e, E[e])
        BY <1>2
    <2> QED BY <2>2, <2>3 DEF Keyed
<1>12. EdgesOK(F)
    <2>1. ASSUME NEW e \in DOMAIN F PROVE IsEdge(F[e]) /\ Keyed(e, F[e])
        <3>1. CASE e \in DOMAIN E
            BY <1>5, <1>9, <1>11, <3>1
        <3>2. CASE e \in New
            BY <1>6, <1>9, <3>2
        <3> QED BY <1>8, <3>1, <3>2
    <2> QED BY <1>10, <2>1 DEF EdgesOK
<1>13. ASSUME NEW i \in DOMAIN picks
       PROVE  LET e == AffinityId({picks[i], s.anchor})
                  m == Times(picks, picks[i])
              IN F[e].props = IF e \in DOMAIN E THEN E[e].props + m ELSE m
    <2> DEFINE e == AffinityId({picks[i], s.anchor})
    <2>1. e \in Ids /\ n(e) = Times(picks, picks[i])
        BY <1>3 DEF n
    <2> HIDE DEF e
    <2>2. ASSUME e \in DOMAIN E PROVE F[e].props = E[e].props + Times(picks, picks[i])
        BY <1>5, <1>9, <2>1, <2>2
    <2>3. ASSUME e \notin DOMAIN E PROVE F[e].props = Times(picks, picks[i])
        BY <1>6, <1>9, <2>1, <2>3
    <2> QED BY <2>2, <2>3 DEF e
<1>14. Reinforced(w, s, picks).edges = F
    BY <1>1
<1>15. Strengthened(E, s, picks, F)
    BY <1>5, <1>6, <1>8, <1>9, <1>12, <1>13 DEF Ids, Strengthened
<1> QED BY <1>1, <1>14, <1>15

-----------------------------------------------------------------------------
(* What there is to build.                                                 *)

\* The first n sums of a sequence of sequences.
Sums(q, n, f) ==
    f = [i \in 1..n |-> IF i = 1 THEN q[i] ELSE f[i-1] \o q[i]]

LEMMA SumsIn ==
    ASSUME NEW X, \A a, b \in X : a \o b \in X, NEW n \in Nat, NEW q, \A i \in 1..n : q[i] \in X,
           NEW f, Sums(q, n, f)
    PROVE  \A i \in 1..n : f[i] \in X
<1> DEFINE S == {i \in 0..n : i # 0 => f[i] \in X}
<1>1. DOMAIN f = 1..n /\ \A i \in 1..n : f[i] = IF i = 1 THEN q[i] ELSE f[i-1] \o q[i]
    BY Zenon DEF Sums
<1>2. ASSUME NEW k \in 0..n, k \in S, k # n PROVE k + 1 \in S
    <2>1. k + 1 \in 1..n /\ (k + 1) - 1 = k
        BY <1>2
    <2> DEFINE j == k + 1
    <2>2. j \in 1..n /\ j - 1 = k /\ q[j] \in X /\ k \in Nat
        BY <2>1
    <2>3. f[j] = IF j = 1 THEN q[j] ELSE f[j-1] \o q[j]
        BY <1>1, <2>2, Zenon
    <2>4. k # 0 => f[k] \in X
        BY <1>2
    <2>5. j \in 0..n /\ (j = 1 <=> k = 0)
        BY <2>2
    <2> HIDE DEF j
    <2>6. ASSUME k = 0 PROVE j \in S
        BY <2>2, <2>3, <2>5, <2>6
    <2>7. ASSUME k # 0 PROVE j \in S
        <3>1. f[j] = f[k] \o q[j]
            BY <2>2, <2>3, <2>5, <2>7
        <3>2. f[j] \in X
            BY <2>2, <2>4, <2>7, <3>1, Zenon
        <3> QED BY <2>5, <3>2
    <2>8. j \in S
        BY <2>6, <2>7
    <2> QED BY <2>8 DEF j
<1>3. 0 \in S
    OBVIOUS
<1> HIDE DEF S
<1>4. \A k \in 0..n : k \in S
    BY <1>2, <1>3, CountUp
<1> QED BY <1>4 DEF S

LEMMA SumsExist ==
    ASSUME NEW n \in Nat, NEW q
    PROVE  \E f : Sums(q, n, f)
<1> DEFINE S == {i \in 0..n : \E f : Sums(q, i, f)}
<1>1. 0 \in S
    <2>1. \A f : [i \in 1..0 |-> IF i = 1 THEN q[i] ELSE f[i-1] \o q[i]] = <<>>
        OBVIOUS
    <2>2. Sums(q, 0, <<>>)
        BY <2>1 DEF Sums
    <2> QED BY <2>2
<1>2. ASSUME NEW k \in 0..n, k \in S, k # n PROVE k + 1 \in S
    <2>1. PICK f : Sums(q, k, f)
        BY <1>2
    <2> DEFINE g == [i \in 1..(k+1) |-> IF i = 1 THEN q[i] ELSE f[i-1] \o q[i]]
    <2>2. \A i \in 1..k : f[i] = IF i = 1 THEN q[i] ELSE f[i-1] \o q[i]
        BY <2>1, Zenon DEF Sums
    <2>3. \A i \in 1..k : g[i] = f[i]
        BY <2>2
    <2>4. \A i \in 1..(k+1) : i # 1 => g[i-1] = f[i-1]
        <3>1. \A i \in 1..(k+1) : i # 1 => i - 1 \in 1..k
            BY <1>2
        <3> HIDE DEF g
        <3> QED BY <2>3, <3>1
    <2>5. g = [i \in 1..(k+1) |-> IF i = 1 THEN q[i] ELSE g[i-1] \o q[i]]
        <3> DEFINE h == [i \in 1..(k+1) |-> IF i = 1 THEN q[i] ELSE g[i-1] \o q[i]]
        <3>1. \A i \in 1..(k+1) : g[i] = IF i = 1 THEN q[i] ELSE f[i-1] \o q[i]
            OBVIOUS
        <3>2. g = [i \in 1..(k+1) |-> g[i]]
            OBVIOUS
        <3> HIDE DEF g
        <3>3. \A i \in 1..(k+1) : g[i] = h[i]
            BY <2>4, <3>1
        <3>4. h = [i \in 1..(k+1) |-> h[i]]
            OBVIOUS
        <3> HIDE DEF h
        <3>5. g = h
            BY <3>2, <3>3, <3>4
        <3> QED BY <3>5 DEF h
    <2>6. Sums(q, k + 1, g)
        <3> HIDE DEF g
        <3> QED BY <2>5 DEF Sums
    <2>7. k + 1 \in 0..n
        BY <1>2
    <2> QED BY <2>6, <2>7
<1> HIDE DEF S
<1>3. \A k \in 0..n : k \in S
    BY <1>1, <1>2, CountUp
<1> QED BY <1>3 DEF S

LEMMA FlattenIn ==
    ASSUME NEW X, <<>> \in X, \A a, b \in X : a \o b \in X, NEW q \in Seq(X)
    PROVE  FlattenSeq(q) \in X
<1>1. Len(q) \in Nat /\ \A i \in 1..Len(q) : q[i] \in X
    BY LenProperties, ElementOfSeq
<1>2. CASE Len(q) = 0
    <2>1. q = <<>>
        BY <1>2, EmptySeq
    <2> QED BY <1>2, <2>1 DEF FlattenSeq
<1>3. CASE Len(q) # 0
    <2> DEFINE f == CHOOSE f : f = [i \in 1..Len(q) |-> IF i = 1 THEN q[i] ELSE f[i-1] \o q[i]]
    <2>1. FlattenSeq(q) = f[Len(q)]
        BY <1>3 DEF FlattenSeq
    <2>2. \E g : g = [i \in 1..Len(q) |-> IF i = 1 THEN q[i] ELSE g[i-1] \o q[i]]
        BY <1>1, SumsExist DEF Sums
    <2>3. f = [i \in 1..Len(q) |-> IF i = 1 THEN q[i] ELSE f[i-1] \o q[i]]
        BY <2>2, Zenon
    <2> HIDE DEF f
    <2>4. Sums(q, Len(q), f)
        BY <2>3 DEF Sums
    <2>5. f[Len(q)] \in X
        <3> DEFINE n == Len(q)
        <3>1. n \in Nat /\ n \in 1..n /\ \A i \in 1..n : q[i] \in X
            BY <1>1, <1>3
        <3>2. Sums(q, n, f)
            BY <2>4
        <3> HIDE DEF n
        <3>3. \A i \in 1..n : f[i] \in X
            BY <3>1, <3>2, SumsIn, Zenon
        <3>4. f[n] \in X
            BY <3>1, <3>3
        <3> QED BY <3>4 DEF n
    <2> QED BY <2>1, <2>5
<1> QED BY <1>2, <1>3

TaskKinds == {"select", "company", "open", "team", "heads", "playbook", "project", "affinities"}
Args == (Nat \cup {None}) \cup (UNION {Range(Archetypes[a].playbooks) : a \in DOMAIN Archetypes})
          \cup (UNION {Range(c.projects) : c \in Configs})
Jobs ==
    {t \in [kind : TaskKinds, dept : DOMAIN Archetypes \cup {None}, arg : Args] :
       /\ t.kind \in {"open", "team", "heads", "playbook", "project"} => t.dept \in DOMAIN Archetypes
       /\ t.kind = "team" => t.arg \in DOMAIN Archetypes[t.dept].teams}

Is(B, k, kind, d) == B[k].kind = kind /\ B[k].dept = d

\* Departments one after the other: one is opened before its teams are built, they are
\* built before its head is appointed, and it has a head before it has projects.
OfDepartments(B) ==
    \A k \in 1..Len(B) : B[k].kind \in {"open", "team", "heads", "playbook", "project"}
OpenFirst(B) ==
    \A k \in 1..Len(B) : B[k].kind = "team" =>
        \E j \in 1..Len(B) : j < k /\ Is(B, j, "open", B[k].dept)
HeadsFollow(B) ==
    \A k \in 1..Len(B) : B[k].kind = "team" =>
        \E j \in 1..Len(B) : k < j /\ Is(B, j, "heads", B[k].dept)
TeamFirst(B) ==
    \A k \in 1..Len(B) : B[k].kind = "heads" =>
        \E j \in 1..Len(B) : j < k /\ Is(B, j, "team", B[k].dept) /\ B[j].arg = 1
HeadsFirst(B) ==
    \A k \in 1..Len(B) : B[k].kind \in {"playbook", "project"} =>
        \E j \in 1..Len(B) : j < k /\ Is(B, j, "heads", B[k].dept)
OpenBetween(B) ==
    \A i, k \in 1..Len(B) : i < k /\ B[k].kind = "team" /\ Is(B, i, "heads", B[k].dept) =>
        \E j \in 1..Len(B) : i < j /\ j < k /\ Is(B, j, "open", B[k].dept)

Block(B) == OpenFirst(B) /\ HeadsFollow(B) /\ TeamFirst(B) /\ HeadsFirst(B) /\ OpenBetween(B)
Blocks == {B \in Seq(Jobs) : Block(B)}
Departments == {B \in Blocks : OfDepartments(B)}

LEMMA NoBlock == <<>> \in Departments
<1>1. <<>> \in Seq(Jobs) /\ Len(<<>>) = 0
    BY EmptySeq
<1>2. 1..0 = {}
    OBVIOUS
<1>3. Block(<<>>) /\ OfDepartments(<<>>)
    BY <1>1, <1>2 DEF Block, OfDepartments, OpenFirst, HeadsFollow, TeamFirst, HeadsFirst, OpenBetween
<1> QED BY <1>1, <1>3 DEF Blocks, Departments

LEMMA BlocksJoin ==
    ASSUME NEW A \in Blocks, NEW B \in Blocks
    PROVE  A \o B \in Blocks /\ (OfDepartments(A) /\ OfDepartments(B) => OfDepartments(A \o B))
<1> DEFINE C == A \o B
           a == Len(A)
           b == Len(B)
<1>1. A \in Seq(Jobs) /\ B \in Seq(Jobs) /\ Block(A) /\ Block(B)
    BY DEF Blocks
<1>2. a \in Nat /\ b \in Nat /\ C \in Seq(Jobs) /\ Len(C) = a + b
    BY <1>1, LenProperties, ConcatProperties
<1>3. \A k \in 1..(a+b) : C[k] = IF k <= a THEN A[k] ELSE B[k-a]
    BY <1>1, ConcatProperties
<1> HIDE DEF C, a, b
<1>4. \A k \in 1..a : k \in 1..Len(C) /\ C[k] = A[k]
    BY <1>2, <1>3
<1>5. \A k \in 1..b : k + a \in 1..Len(C) /\ C[k+a] = B[k] /\ a < k + a
    <2>1. TAKE k \in 1..b
    <2> DEFINE i == k + a
    <2>2. i \in 1..(a+b) /\ ~(i <= a) /\ i - a = k /\ a < i
        BY <1>2
    <2> HIDE DEF i
    <2>3. C[i] = B[k]
        BY <1>3, <2>2
    <2> QED BY <1>2, <2>2, <2>3 DEF i
<1>6. ASSUME NEW k \in 1..Len(C)
      PROVE  \/ k \in 1..a /\ C[k] = A[k]
             \/ \E m \in 1..b : k = m + a /\ C[k] = B[m]
    <2>1. CASE k <= a
        BY <1>2, <1>3, <2>1
    <2>2. CASE ~(k <= a)
        <3> DEFINE m == k - a
        <3>1. m \in 1..b /\ k = m + a /\ k \in 1..(a+b)
            BY <1>2, <2>2
        <3> HIDE DEF m
        <3> QED BY <1>5, <3>1
    <2> QED BY <2>1, <2>2
<1>7. OfDepartments(A) /\ OfDepartments(B) => OfDepartments(C)
    BY <1>6 DEF OfDepartments, a, b
<1>8. OpenFirst(C)
    <2>1. SUFFICES ASSUME NEW k \in 1..Len(C), C[k].kind = "team"
                   PROVE  \E j \in 1..Len(C) : j < k /\ Is(C, j, "open", C[k].dept)
        BY DEF OpenFirst
    <2>2. CASE k \in 1..a /\ C[k] = A[k]
        <3>1. PICK j \in 1..a : j < k /\ Is(A, j, "open", A[k].dept)
            BY <1>1, <2>1, <2>2 DEF Block, OpenFirst, a
        <3> QED BY <1>4, <2>2, <3>1 DEF Is
    <2>3. ASSUME NEW m \in 1..b, k = m + a, C[k] = B[m]
          PROVE  \E j \in 1..Len(C) : j < k /\ Is(C, j, "open", C[k].dept)
        <3>1. PICK j \in 1..b : j < m /\ Is(B, j, "open", B[m].dept)
            BY <1>1, <2>1, <2>3 DEF Block, OpenFirst, b
        <3>2. j + a \in 1..Len(C) /\ C[j+a] = B[j] /\ j + a < k
            BY <1>2, <1>5, <2>3, <3>1
        <3> QED BY <2>3, <3>1, <3>2 DEF Is
    <2> QED BY <1>6, <2>2, <2>3
<1>9. HeadsFollow(C)
    <2>1. SUFFICES ASSUME NEW k \in 1..Len(C), C[k].kind = "team"
                   PROVE  \E j \in 1..Len(C) : k < j /\ Is(C, j, "heads", C[k].dept)
        BY DEF HeadsFollow
    <2>2. CASE k \in 1..a /\ C[k] = A[k]
        <3>1. PICK j \in 1..a : k < j /\ Is(A, j, "heads", A[k].dept)
            BY <1>1, <2>1, <2>2 DEF Block, HeadsFollow, a
        <3> QED BY <1>4, <2>2, <3>1 DEF Is
    <2>3. ASSUME NEW m \in 1..b, k = m + a, C[k] = B[m]
          PROVE  \E j \in 1..Len(C) : k < j /\ Is(C, j, "heads", C[k].dept)
        <3>1. PICK j \in 1..b : m < j /\ Is(B, j, "heads", B[m].dept)
            BY <1>1, <2>1, <2>3 DEF Block, HeadsFollow, b
        <3>2. j + a \in 1..Len(C) /\ C[j+a] = B[j] /\ k < j + a
            BY <1>2, <1>5, <2>3, <3>1
        <3> QED BY <2>3, <3>1, <3>2 DEF Is
    <2> QED BY <1>6, <2>2, <2>3
<1>10. TeamFirst(C)
    <2>1. SUFFICES ASSUME NEW k \in 1..Len(C), C[k].kind = "heads"
                   PROVE  \E j \in 1..Len(C) : j < k /\ Is(C, j, "team", C[k].dept) /\ C[j].arg = 1
        BY DEF TeamFirst
    <2>2. CASE k \in 1..a /\ C[k] = A[k]
        <3>1. PICK j \in 1..a : j < k /\ Is(A, j, "team", A[k].dept) /\ A[j].arg = 1
            BY <1>1, <2>1, <2>2 DEF Block, TeamFirst, a
        <3> QED BY <1>4, <2>2, <3>1 DEF Is
    <2>3. ASSUME NEW m \in 1..b, k = m + a, C[k] = B[m]
          PROVE  \E j \in 1..Len(C) : j < k /\ Is(C, j, "team", C[k].dept) /\ C[j].arg = 1
        <3>1. PICK j \in 1..b : j < m /\ Is(B, j, "team", B[m].dept) /\ B[j].arg = 1
            BY <1>1, <2>1, <2>3 DEF Block, TeamFirst, b
        <3>2. j + a \in 1..Len(C) /\ C[j+a] = B[j] /\ j + a < k
            BY <1>2, <1>5, <2>3, <3>1
        <3> QED BY <2>3, <3>1, <3>2 DEF Is
    <2> QED BY <1>6, <2>2, <2>3
<1>11. HeadsFirst(C)
    <2>1. SUFFICES ASSUME NEW k \in 1..Len(C), C[k].kind \in {"playbook", "project"}
                   PROVE  \E j \in 1..Len(C) : j < k /\ Is(C, j, "heads", C[k].dept)
        BY DEF HeadsFirst
    <2>2. CASE k \in 1..a /\ C[k] = A[k]
        <3>1. PICK j \in 1..a : j < k /\ Is(A, j, "heads", A[k].dept)
            BY <1>1, <2>1, <2>2 DEF Block, HeadsFirst, a
        <3> QED BY <1>4, <2>2, <3>1 DEF Is
    <2>3. ASSUME NEW m \in 1..b, k = m + a, C[k] = B[m]
          PROVE  \E j \in 1..Len(C) : j < k /\ Is(C, j, "heads", C[k].dept)
        <3>1. PICK j \in 1..b : j < m /\ Is(B, j, "heads", B[m].dept)
            BY <1>1, <2>1, <2>3 DEF Block, HeadsFirst, b
        <3>2. j + a \in 1..Len(C) /\ C[j+a] = B[j] /\ j + a < k
            BY <1>2, <1>5, <2>3, <3>1
        <3> QED BY <2>3, <3>1, <3>2 DEF Is
    <2> QED BY <1>6, <2>2, <2>3
<1>12. OpenBetween(C)
    <2>1. SUFFICES ASSUME NEW i \in 1..Len(C), NEW k \in 1..Len(C), i < k, C[k].kind = "team",
                          Is(C, i, "heads", C[k].dept)
                   PROVE  \E j \in 1..Len(C) : i < j /\ j < k /\ Is(C, j, "open", C[k].dept)
        BY DEF OpenBetween
    <2>2. CASE k \in 1..a /\ C[k] = A[k]
        <3>1. i \in 1..a /\ C[i] = A[i]
            BY <1>2, <1>4, <2>1, <2>2
        <3>2. PICK j \in 1..a : i < j /\ j < k /\ Is(A, j, "open", A[k].dept)
            BY <1>1, <2>1, <2>2, <3>1 DEF Block, OpenBetween, a, Is
        <3> QED BY <1>4, <2>2, <3>2 DEF Is
    <2>3. ASSUME NEW m \in 1..b, k = m + a, C[k] = B[m]
          PROVE  \E j \in 1..Len(C) : i < j /\ j < k /\ Is(C, j, "open", C[k].dept)
        <3>1. CASE i \in 1..a
            <4>1. PICK j \in 1..b : j < m /\ Is(B, j, "open", B[m].dept)
                BY <1>1, <2>1, <2>3 DEF Block, OpenFirst, b
            <4>2. j + a \in 1..Len(C) /\ C[j+a] = B[j] /\ j + a < k /\ i < j + a
                BY <1>2, <1>5, <2>3, <3>1, <4>1
            <4> QED BY <2>3, <4>1, <4>2 DEF Is
        <3>2. ASSUME NEW h \in 1..b, i = h + a, C[i] = B[h]
              PROVE  \E j \in 1..Len(C) : i < j /\ j < k /\ Is(C, j, "open", C[k].dept)
            <4>1. h < m
                BY <1>2, <2>1, <2>3, <3>2
            <4>2. PICK j \in 1..b : h < j /\ j < m /\ Is(B, j, "open", B[m].dept)
                BY <1>1, <2>1, <2>3, <3>2, <4>1 DEF Block, OpenBetween, b, Is
            <4>3. j + a \in 1..Len(C) /\ C[j+a] = B[j] /\ j + a < k /\ i < j + a
                BY <1>2, <1>5, <2>3, <3>2, <4>2
            <4> QED BY <2>3, <4>2, <4>3 DEF Is
        <3> QED BY <1>6, <3>1, <3>2
    <2> QED BY <1>6, <2>2, <2>3
<1>13. C \in Blocks
    BY <1>2, <1>8, <1>9, <1>10, <1>11, <1>12 DEF Blocks, Block
<1> QED BY <1>7, <1>13 DEF C

LEMMA RemoveFirstIn ==
    ASSUME NEW T, NEW s \in Seq(T), NEW x
    PROVE  RemoveFirst(s, x) \in Seq(T)
<1>1. CASE \E i \in 1..Len(s) : s[i] = x
    <2> DEFINE I == {i \in 1..Len(s) : s[i] = x}
               m == Min(I)
    <2>1. RemoveFirst(s, x) = SubSeq(s, 1, m - 1) \o SubSeq(s, m + 1, Len(s))
        <3>1. I # {}
            BY <1>1
        <3> QED BY <1>1, <3>1 DEF RemoveFirst, RemoveAt, SelectInSeq
    <2>2. Len(s) \in Nat /\ \A i \in 1..Len(s) : s[i] \in T
        BY LenProperties, ElementOfSeq
    <2>3. m \in 1..Len(s)
        <3>1. I \in SUBSET Nat /\ I # {} /\ I \subseteq 1..Len(s)
            BY <1>1, <2>2
        <3> HIDE DEF I
        <3>2. \E n \in I : \A k \in I : n <= k
            BY <3>1, LeastExists
        <3>3. m \in I
            BY <3>2 DEF Min
        <3> QED BY <3>1, <3>3
    <2> HIDE DEF m
    <2>4. SubSeq(s, 1, m - 1) \in Seq(T)
        <3>1. \A i \in 1..(m-1) : s[i] \in T
            BY <2>2, <2>3
        <3> QED BY <2>3, <3>1, SubSeqProperties
    <2>5. SubSeq(s, m + 1, Len(s)) \in Seq(T)
        <3>1. \A i \in (m+1)..Len(s) : s[i] \in T
            BY <2>2, <2>3
        <3> QED BY <2>2, <2>3, <3>1, SubSeqProperties
    <2> QED BY <2>1, <2>4, <2>5, ConcatProperties
<1>2. CASE ~\E i \in 1..Len(s) : s[i] = x
    BY <1>2 DEF RemoveFirst
<1> QED BY <1>1, <1>2

LEMMA SetToSeqIn ==
    ASSUME NEW S, IsFiniteSet(S)
    PROVE  SetToSeq(S) \in Seq(S)
<1>1. Cardinality(S) \in Nat /\ ExistsBijection(1..Cardinality(S), S)
    BY FS_CardinalityType
<1>2. \E f \in [1..Cardinality(S) -> S] : IsInjective(f)
    BY <1>1 DEF ExistsBijection, Bijection, Injection
<1>3. SetToSeq(S) \in [1..Cardinality(S) -> S]
    BY <1>2 DEF SetToSeq
<1> QED BY <1>1, <1>3

LEMMA SelectedKnown ==
    ASSUME config \in Configs, ~UnknownName
    PROVE  Selected \in Seq(DOMAIN Archetypes)
<1>1. \A i \in DOMAIN Selected : Selected[i] \in DOMAIN Archetypes
    BY DEF UnknownName
<1>2. \E T : Selected \in Seq(T)
    <2>1. CASE Explicit
        BY <2>1, ConfigAssumption DEF Selected
    <2>2. CASE ~Explicit
        <3> DEFINE All == SetToSeq(DOMAIN Archetypes)
                   First0 == IF config.vertical \in DOMAIN Archetypes THEN config.vertical ELSE All[1]
                   T == DOMAIN Archetypes \cup {First0}
                   Ordered == <<First0>> \o RemoveFirst(All, First0)
                   Limit == Sizes[config.size].departments
                   n == IF Limit < Len(Ordered) THEN Limit ELSE Len(Ordered)
        <3>1. Selected = SubSeq(Ordered, 1, n)
            BY <2>2 DEF Selected, ByVertical
        <3>2. All \in Seq(T)
            <4>1. All \in Seq(DOMAIN Archetypes)
                BY ArchetypeAssumption, SetToSeqIn
            <4> HIDE DEF All
            <4> QED BY <4>1, SeqMonotonic
        <3>3. Limit \in Nat
            BY ConfigAssumption
        <3> HIDE DEF All, Limit
        <3>4. First0 \in T
            OBVIOUS
        <3> HIDE DEF First0, T
        <3>5. <<First0>> \in Seq(T) /\ RemoveFirst(All, First0) \in Seq(T)
            BY <3>2, <3>4, RemoveFirstIn
        <3>6. Ordered \in Seq(T)
            BY <3>5, ConcatProperties
        <3> HIDE DEF Ordered
        <3>7. Len(Ordered) \in Nat /\ \A i \in 1..Len(Ordered) : Ordered[i] \in T
            BY <3>6, LenProperties, ElementOfSeq
        <3>8. n \in Nat /\ n <= Len(Ordered)
            BY <3>3, <3>7
        <3> HIDE DEF n
        <3>9. SubSeq(Ordered, 1, n) \in Seq(T)
            <4>1. \A i \in 1..n : Ordered[i] \in T
                BY <3>7, <3>8
            <4> QED BY <3>8, <4>1, SubSeqProperties
        <3> QED BY <3>1, <3>9
    <2> QED BY <2>1, <2>2
<1>3. PICK T : Selected \in Seq(T)
    BY <1>2
<1>4. Len(Selected) \in Nat /\ Selected \in [1..Len(Selected) -> T] /\ DOMAIN Selected = 1..Len(Selected)
    BY <1>3, LenProperties
<1>5. Selected \in [1..Len(Selected) -> DOMAIN Archetypes]
    BY <1>1, <1>4
<1> QED BY <1>4, <1>5

\* The projects of a department.
Mine(d) == {t \in Jobs : t.kind \in {"playbook", "project"} /\ t.dept = d}

LEMMA TaskIn ==
    ASSUME NEW kind \in TaskKinds, NEW d \in DOMAIN Archetypes, NEW arg \in Args,
           kind = "team" => arg \in DOMAIN Archetypes[d].teams
    PROVE  /\ Task(kind, d, arg) \in Jobs
           /\ Task(kind, d, arg).kind = kind /\ Task(kind, d, arg).dept = d /\ Task(kind, d, arg).arg = arg
BY DEF Task, Jobs

LEMMA TasksAreBlock ==
    ASSUME config \in Configs, ~UnknownName, NEW i \in DOMAIN Selected
    PROVE  Tasks(i) \in Departments
<1> DEFINE d == Selected[i]
           teams == Archetypes[d].teams
           T == Len(teams)
           books == Archetypes[d].playbooks
           Own(p) == IF Target(p) = d THEN <<Task("project", d, p)>> ELSE <<>>
           own == [j \in DOMAIN config.projects |-> Own(config.projects[j])]
           s1 == <<Task("open", d, i)>>
           s2 == [k \in DOMAIN teams |-> Task("team", d, k)]
           s3 == <<Task("heads", d, None)>>
           s4 == [k \in DOMAIN books |-> Task("playbook", d, books[k])]
           s5 == FlattenSeq(own)
           Q == Tasks(i)
<1>1. Q = (((s1 \o s2) \o s3) \o s4) \o s5
    BY DEF Tasks
<1>2. d \in DOMAIN Archetypes /\ i \in Nat
    BY SelectedKnown, LenProperties, ElementOfSeq
<1>3. /\ T \in Nat \ {0} /\ DOMAIN teams = 1..T
      /\ DOMAIN books = 1..Len(books) /\ Len(books) \in Nat /\ \A k \in DOMAIN books : books[k] \in Args
    <2>1. /\ teams \in Seq(Range(teams)) /\ teams # <<>>
          /\ books \in Seq(Range(books))
        BY <1>2, ArchetypeAssumption
    <2>2. Range(books) \subseteq Args
        BY <1>2 DEF Args
    <2> HIDE DEF teams, books
    <2>3. T \in Nat \ {0} /\ DOMAIN teams = 1..T
        BY <2>1, LenProperties, EmptySeq
    <2>4. DOMAIN books = 1..Len(books) /\ Len(books) \in Nat /\ \A k \in DOMAIN books : books[k] \in Range(books)
        BY <2>1, LenProperties, ElementOfSeq
    <2> QED BY <2>2, <2>3, <2>4
<1>4. \A j \in DOMAIN config.projects : config.projects[j] \in Args
    <2> DEFINE f == config.projects
    <2>1. \A j \in DOMAIN f : f[j] \in Range(f)
        <3> HIDE DEF f
        <3> QED BY DEF Range
    <2>2. Range(f) \subseteq Args
        <3> DEFINE S == {Range(c.projects) : c \in Configs}
        <3>1. Range(f) \in S
            OBVIOUS
        <3>2. UNION S \subseteq Args
            BY DEF Args
        <3> HIDE DEF f, S
        <3> QED BY <3>1, <3>2
    <2> HIDE DEF f
    <2>3. \A j \in DOMAIN f : f[j] \in Args
        BY <2>1, <2>2
    <2> QED BY <2>3 DEF f
<1>5. Len(config.projects) \in Nat /\ DOMAIN config.projects = 1..Len(config.projects)
    BY ConfigAssumption, LenProperties
<1>6. None \in Args /\ Nat \subseteq Args
    BY DEF Args
<1>7. {"open", "team", "heads", "playbook", "project"} \subseteq TaskKinds
    BY DEF TaskKinds
<1> HIDE DEF d, teams, books, Own
<1>8. s1 \in Seq(Jobs) /\ Len(s1) = 1 /\ s1[1] = Task("open", d, i)
    <2>1. Task("open", d, i) \in Jobs
        BY <1>2, <1>6, <1>7, TaskIn
    <2> QED BY <2>1
<1>9. s2 \in Seq(Jobs) /\ Len(s2) = T /\ \A k \in 1..T : s2[k] = Task("team", d, k)
    <2>1. \A k \in 1..T : Task("team", d, k) \in Jobs
        <3>1. TAKE k \in 1..T
        <3>2. k \in Args /\ k \in DOMAIN teams
            BY <1>3, <1>6
        <3> QED BY <1>2, <1>7, <3>2, TaskIn DEF teams
    <2> HIDE DEF T
    <2>2. s2 \in [1..T -> Jobs]
        BY <1>3, <2>1
    <2> QED BY <1>3, <2>2
<1>10. s3 \in Seq(Jobs) /\ Len(s3) = 1 /\ s3[1] = Task("heads", d, None)
    <2>1. Task("heads", d, None) \in Jobs
        BY <1>2, <1>6, <1>7, TaskIn
    <2> QED BY <2>1
<1>11. s4 \in Seq(Mine(d))
    <2>1. \A k \in 1..Len(books) : Task("playbook", d, books[k]) \in Mine(d)
        BY <1>2, <1>3, <1>7, TaskIn DEF Mine
    <2>2. s4 \in [1..Len(books) -> Mine(d)]
        BY <1>3, <2>1
    <2> QED BY <1>3, <2>2
<1>12. s5 \in Seq(Mine(d))
    <2> DEFINE X == Seq(Mine(d))
    <2>1. <<>> \in X /\ \A a, b \in X : a \o b \in X
        BY ConcatProperties, EmptySeq
    <2>2. \A j \in DOMAIN config.projects : Own(config.projects[j]) \in X
        <3>1. TAKE j \in DOMAIN config.projects
        <3>2. Task("project", d, config.projects[j]) \in Mine(d)
            BY <1>2, <1>4, <1>7, TaskIn DEF Mine
        <3>3. <<Task("project", d, config.projects[j])>> \in X
            BY <3>2
        <3> QED BY <2>1, <3>3 DEF Own
    <2> HIDE DEF X
    <2>3. own \in [1..Len(config.projects) -> X]
        BY <1>5, <2>2
    <2>4. own \in Seq(X)
        BY <1>5, <2>3
    <2> HIDE DEF own
    <2>5. s5 \in X
        BY <2>1, <2>4, FlattenIn
    <2> QED BY <2>5 DEF X
<1> HIDE DEF s1, s2, s3, s4, s5, T, own
<1> DEFINE H == (s1 \o s2) \o s3
           R == s4 \o s5
<1>13. H \in Seq(Jobs) /\ Len(H) = T + 2 /\ \A k \in 1..(T+2) : H[k] = IF k <= T + 1 THEN (s1 \o s2)[k] ELSE s3[k - (T+1)]
    <2>1. s1 \o s2 \in Seq(Jobs) /\ Len(s1 \o s2) = Len(s1) + Len(s2)
        BY <1>8, <1>9, ConcatProperties, Zenon
    <2> DEFINE s12 == s1 \o s2
    <2> HIDE DEF s12
    <2>2. s12 \in Seq(Jobs) /\ Len(s12) = T + 1
        BY <1>3, <1>8, <1>9, <2>1 DEF s12
    <2>3. /\ s12 \o s3 \in Seq(Jobs) /\ Len(s12 \o s3) = Len(s12) + Len(s3)
          /\ \A k \in 1..Len(s12) + Len(s3) : (s12 \o s3)[k] = IF k <= Len(s12) THEN s12[k] ELSE s3[k - Len(s12)]
        BY <1>10, <2>2, ConcatProperties
    <2>4. Len(s12) + Len(s3) = T + 2
        BY <1>3, <1>10, <2>2
    <2>5. H = s12 \o s3
        BY DEF s12
    <2> HIDE DEF H
    <2> QED BY <2>2, <2>3, <2>4, <2>5 DEF s12
<1>14. \A k \in 1..(1+T) : (s1 \o s2)[k] = IF k <= 1 THEN s1[k] ELSE s2[k - 1]
    <2>1. \A k \in 1..(Len(s1) + Len(s2)) : (s1 \o s2)[k] = IF k <= Len(s1) THEN s1[k] ELSE s2[k - Len(s1)]
        BY <1>8, <1>9, ConcatProperties, Zenon
    <2> QED BY <1>8, <1>9, <2>1
<1>15. R \in Seq(Mine(d))
    BY <1>11, <1>12, ConcatProperties
<1>16. Q = H \o R
    <2>1. s4 \in Seq(Jobs) /\ s5 \in Seq(Jobs)
        BY <1>11, <1>12, SeqMonotonic DEF Mine
    <2> HIDE DEF H
    <2>2. Q = (H \o s4) \o s5
        BY <1>1 DEF H
    <2> QED BY <1>13, <2>1, <2>2, ConcatAssociative
<1> HIDE DEF H, R, Q
<1>17. H[1] = Task("open", d, i)
    <2>1. 1 \in 1..(T+2) /\ 1 <= T + 1 /\ 1 \in 1..(1+T)
        BY <1>3
    <2>2. H[1] = (s1 \o s2)[1]
        BY <1>13, <2>1
    <2>3. (s1 \o s2)[1] = IF 1 <= 1 THEN s1[1] ELSE s2[1 - 1]
        BY <1>14, <2>1, Zenon
    <2>4. (s1 \o s2)[1] = s1[1]
        BY <2>3
    <2> QED BY <1>8, <2>2, <2>4
<1>18. \A k \in 1..T : H[k+1] = Task("team", d, k)
    <2>1. TAKE k \in 1..T
    <2> DEFINE m == k + 1
    <2>2. m \in 1..(T+2) /\ m <= T + 1 /\ m \in 1..(1+T) /\ ~(m <= 1) /\ m - 1 = k
        BY <1>3
    <2> HIDE DEF m
    <2>3. H[m] = s2[k]
        BY <1>13, <1>14, <2>2
    <2> QED BY <1>9, <2>3 DEF m
<1>19. H[T+2] = Task("heads", d, None)
    <2> DEFINE m == T + 2
    <2>1. m \in 1..(T+2) /\ ~(m <= T + 1) /\ m - (T + 1) = 1
        BY <1>3
    <2> HIDE DEF m
    <2>2. H[m] = s3[1]
        BY <1>13, <2>1
    <2> QED BY <1>10, <2>2 DEF m
<1>20. R \in Seq(Jobs) /\ Len(R) \in Nat /\ \A k \in 1..Len(R) : R[k] \in Mine(d)
    BY <1>15, SeqMonotonic, LenProperties, ElementOfSeq DEF Mine
<1>21. /\ Q \in Seq(Jobs) /\ Len(Q) = (T + 2) + Len(R)
       /\ \A k \in 1..((T + 2) + Len(R)) : Q[k] = IF k <= T + 2 THEN H[k] ELSE R[k - (T+2)]
    BY <1>13, <1>16, <1>20, ConcatProperties
<1> DEFINE L == Len(Q)
<1>22. /\ L \in Nat /\ T + 2 <= L /\ Q[1] = Task("open", d, i) /\ Q[T+2] = Task("heads", d, None)
       /\ \A k \in 1..T : Q[k+1] = Task("team", d, k)
       /\ \A k \in (T+3)..L : Q[k] \in Mine(d)
    <2>1. L \in Nat /\ T + 2 <= L /\ L = (T + 2) + Len(R)
        BY <1>3, <1>20, <1>21
    <2>2. Q[1] = H[1] /\ Q[T+2] = H[T+2]
        BY <1>3, <1>20, <1>21
    <2>3. \A k \in 1..T : Q[k+1] = H[k+1]
        BY <1>3, <1>20, <1>21
    <2>4. ASSUME NEW k \in (T+3)..L PROVE Q[k] \in Mine(d)
        <3> DEFINE m == k - (T + 2)
        <3>1. m \in 1..Len(R) /\ k \in 1..((T + 2) + Len(R)) /\ ~(k <= T + 2)
            BY <1>3, <1>20, <2>1
        <3>2. Q[k] = R[m]
            BY <1>21, <3>1
        <3> HIDE DEF m
        <3> QED BY <1>20, <3>1, <3>2
    <2> QED BY <1>17, <1>18, <1>19, <2>1, <2>2, <2>3, <2>4
<1> HIDE DEF L
<1>23. ASSUME NEW k \in 1..L
       PROVE  \/ k = 1 /\ Is(Q, k, "open", d)
              \/ k \in 2..(T+1) /\ Is(Q, k, "team", d) /\ Q[k].arg = k - 1
              \/ k = T + 2 /\ Is(Q, k, "heads", d)
              \/ k > T + 2 /\ Q[k].dept = d /\ Q[k].kind \in {"playbook", "project"}
    <2>1. CASE k = 1
        BY <1>22, <2>1 DEF Is, Task
    <2>2. CASE k \in 2..(T+1)
        <3> DEFINE m == k - 1
        <3>1. m \in 1..T /\ m + 1 = k
            BY <1>3, <2>2
        <3> HIDE DEF m
        <3>2. Q[k] = Task("team", d, m)
            BY <1>22, <3>1
        <3> QED BY <2>2, <3>2 DEF Is, Task, m
    <2>3. CASE k = T + 2
        BY <1>22, <2>3 DEF Is, Task
    <2>4. CASE k \in (T+3)..L
        <3>1. Q[k] \in Mine(d)
            BY <1>22, <2>4
        <3> QED BY <1>3, <2>4, <3>1 DEF Mine
    <2> QED BY <1>3, <1>22, <2>1, <2>2, <2>3, <2>4
<1>24. /\ 1 \in 1..L /\ T + 2 \in 1..L /\ 2 \in 1..L
       /\ Is(Q, 1, "open", d) /\ Is(Q, T + 2, "heads", d) /\ Is(Q, 2, "team", d) /\ Q[2].arg = 1
    <2>1. 1 \in 1..L /\ T + 2 \in 1..L /\ 2 \in 1..L /\ 2 \in 2..(T+1)
        BY <1>3, <1>22
    <2>2. Q[2] = Task("team", d, 1)
        BY <1>3, <1>22
    <2> QED BY <1>22, <2>1, <2>2 DEF Is, Task
<1>25. OfDepartments(Q)
    BY <1>23 DEF OfDepartments, Is, L
<1>26. OpenFirst(Q)
    <2>1. SUFFICES ASSUME NEW k \in 1..L, Q[k].kind = "team" PROVE 1 < k /\ Q[k].dept = d
        BY <1>24 DEF OpenFirst, L
    <2> QED BY <1>23, <2>1 DEF Is
<1>27. HeadsFollow(Q)
    <2>1. SUFFICES ASSUME NEW k \in 1..L, Q[k].kind = "team" PROVE k < T + 2 /\ Q[k].dept = d
        BY <1>24 DEF HeadsFollow, L
    <2> QED BY <1>3, <1>23, <2>1 DEF Is
<1>28. TeamFirst(Q)
    <2>1. SUFFICES ASSUME NEW k \in 1..L, Q[k].kind = "heads" PROVE 2 < k /\ Q[k].dept = d
        BY <1>24 DEF TeamFirst, L
    <2> QED BY <1>3, <1>23, <2>1 DEF Is
<1>29. HeadsFirst(Q)
    <2>1. SUFFICES ASSUME NEW k \in 1..L, Q[k].kind \in {"playbook", "project"} PROVE T + 2 < k /\ Q[k].dept = d
        BY <1>24 DEF HeadsFirst, L
    <2> QED BY <1>3, <1>23, <2>1 DEF Is
<1>30. OpenBetween(Q)
    <2>1. SUFFICES ASSUME NEW h \in 1..L, NEW k \in 1..L, h < k, Q[k].kind = "team", Is(Q, h, "heads", Q[k].dept)
                   PROVE  FALSE
        BY DEF OpenBetween, L
    <2>2. k \in 2..(T+1)
        BY <1>23, <2>1 DEF Is
    <2>3. h = T + 2
        BY <1>23, <2>1 DEF Is
    <2> QED BY <1>3, <2>1, <2>2, <2>3
<1>31. Q \in Departments
    BY <1>21, <1>25, <1>26, <1>27, <1>28, <1>29, <1>30 DEF Blocks, Block, Departments
<1> QED BY <1>31 DEF Q

\* Once it is decided what to build, affinities are what is left at the end.
AffinitiesLast(P) ==
    \A k \in 1..Len(P) : P[k].kind # "select" /\ (P[k].kind = "affinities" <=> k = Len(P))
WholeOf(F) == (<<Task("company", None, None)>> \o F) \o <<Task("affinities", None, None)>>

LEMMA WholePlan ==
    ASSUME NEW F \in Departments
    PROVE  WholeOf(F) \in Blocks /\ AffinitiesLast(WholeOf(F)) /\ Len(WholeOf(F)) # 0
<1> DEFINE c == Task("company", None, None)
           a == Task("affinities", None, None)
           s == <<c>>
           e == <<a>>
           P == (s \o F) \o e
           n == Len(F)
<1>1. c \in Jobs /\ a \in Jobs /\ c.kind = "company" /\ a.kind = "affinities"
    BY DEF Task, Jobs, TaskKinds, Args
<1> HIDE DEF c, a
<1>2. ASSUME NEW t \in Jobs, t.kind \in {"company", "affinities"}
      PROVE  <<t>> \in Blocks /\ Len(<<t>>) = 1 /\ <<t>>[1] = t
    <2>1. <<t>> \in Seq(Jobs) /\ Len(<<t>>) = 1 /\ \A k \in 1..1 : <<t>>[k] = t
        OBVIOUS
    <2>2. Block(<<t>>)
        BY <1>2, <2>1 DEF Block, OpenFirst, HeadsFollow, TeamFirst, HeadsFirst, OpenBetween
    <2> QED BY <2>1, <2>2 DEF Blocks
<1>3. s \in Blocks /\ e \in Blocks /\ Len(s) = 1 /\ Len(e) = 1 /\ s[1] = c /\ e[1] = a
    BY <1>1, <1>2
<1>4. F \in Blocks /\ OfDepartments(F)
    BY DEF Departments
<1> HIDE DEF s, e
<1>5. s \o F \in Blocks
    BY <1>3, <1>4, BlocksJoin
<1>6. P \in Blocks
    BY <1>3, <1>5, BlocksJoin
<1>7. s \in Seq(Jobs) /\ F \in Seq(Jobs) /\ e \in Seq(Jobs) /\ s \o F \in Seq(Jobs) /\ n \in Nat
    BY <1>3, <1>4, <1>5, LenProperties DEF Blocks
<1>8. /\ Len(s \o F) = 1 + n
      /\ \A k \in 1..(1 + n) : (s \o F)[k] = IF k <= 1 THEN s[k] ELSE F[k - 1]
    <2>1. /\ Len(s \o F) = Len(s) + Len(F)
          /\ \A k \in 1..(Len(s) + Len(F)) : (s \o F)[k] = IF k <= Len(s) THEN s[k] ELSE F[k - Len(s)]
        BY <1>7, ConcatProperties, Zenon
    <2> QED BY <1>3, <2>1
<1> DEFINE A == s \o F
<1>9. /\ Len(P) = n + 2
      /\ \A k \in 1..(n + 2) : P[k] = IF k <= 1 + n THEN A[k] ELSE e[k - (1 + n)]
    <2>1. /\ Len(P) = Len(A) + Len(e)
          /\ \A k \in 1..(Len(A) + Len(e)) : P[k] = IF k <= Len(A) THEN A[k] ELSE e[k - Len(A)]
        BY <1>7, ConcatProperties, Zenon
    <2> HIDE DEF P, A
    <2>2. Len(A) = 1 + n /\ Len(e) = 1
        BY <1>3, <1>8 DEF A
    <2> QED BY <1>7, <2>1, <2>2
<1> HIDE DEF P, A, n
<1>10. ASSUME NEW k \in 1..(n + 2)
       PROVE  P[k].kind # "select" /\ (P[k].kind = "affinities" <=> k = n + 2)
    <2>1. CASE k = 1
        <3>1. P[k] = A[1]
            BY <1>7, <1>9, <2>1
        <3>2. A[1] = IF 1 <= 1 THEN s[1] ELSE F[1 - 1]
            <4>1. 1 \in 1..(1 + n)
                BY <1>7
            <4> QED BY <1>8, <4>1, Zenon DEF A
        <3> QED BY <1>1, <1>3, <1>7, <2>1, <3>1, <3>2
    <2>2. CASE k \in 2..(n + 1)
        <3> DEFINE m == k - 1
        <3>1. k <= 1 + n /\ ~(k <= 1) /\ k \in 1..(1 + n) /\ m \in 1..n
            BY <1>7, <2>2
        <3>2. P[k] = F[m]
            BY <1>8, <1>9, <3>1 DEF A
        <3> HIDE DEF m
        <3>3. F[m].kind \in {"open", "team", "heads", "playbook", "project"}
            BY <1>4, <3>1 DEF OfDepartments, n
        <3> QED BY <1>7, <2>2, <3>2, <3>3
    <2>3. CASE k = n + 2
        <3>1. ~(k <= 1 + n) /\ k - (1 + n) = 1
            BY <1>7, <2>3
        <3>2. P[k] = e[1]
            BY <1>9, <3>1
        <3> QED BY <1>1, <1>3, <2>3, <3>2
    <2> QED BY <1>7, <2>1, <2>2, <2>3
<1>11. AffinitiesLast(P) /\ Len(P) # 0
    BY <1>7, <1>9, <1>10 DEF AffinitiesLast
<1>12. P = WholeOf(F)
    BY DEF P, s, e, c, a, WholeOf
<1> QED BY <1>6, <1>11, <1>12

LEMMA SelectPlans ==
    ASSUME SelectArchetypes, config \in Configs
    PROVE  \/ Raise
           \/ /\ \E F \in Departments : plan' = WholeOf(F)
              /\ UNCHANGED <<config, world, affinity, raised>>
<1>1. CASE UnknownName
    BY <1>1 DEF SelectArchetypes
<1>2. CASE ~UnknownName
    <2> DEFINE q == [i \in DOMAIN Selected |-> Tasks(i)]
    <2>1. q \in Seq(Departments)
        <3>1. \A i \in DOMAIN Selected : Tasks(i) \in Departments
            BY <1>2, TasksAreBlock
        <3>2. Len(Selected) \in Nat /\ DOMAIN Selected = 1..Len(Selected)
            BY <1>2, SelectedKnown, LenProperties
        <3>3. q \in [1..Len(Selected) -> Departments]
            BY <3>1, <3>2
        <3> QED BY <3>2, <3>3
    <2>2. \A A, B \in Departments : A \o B \in Departments
        BY BlocksJoin DEF Departments
    <2>3. plan' = (<<Task("company", None, None)>> \o FlattenSeq(q)) \o <<Task("affinities", None, None)>>
          /\ UNCHANGED <<config, world, affinity, raised>>
        BY <1>2 DEF SelectArchetypes
    <2> HIDE DEF q
    <2>4. FlattenSeq(q) \in Departments
        BY <2>1, <2>2, NoBlock, FlattenIn
    <2> QED BY <2>3, <2>4 DEF WholeOf
<1> QED BY <1>1, <1>2

-----------------------------------------------------------------------------
(* The types.                                                              *)

AffinityOK(A) == A = [q \in DOMAIN A |-> A[q]] /\ \A q \in DOMAIN A : IsPair(q) /\ A[q] \in Nat

CallsOn(D) == [sel : Selectors, at : Nat, picks : Seq(D)]

Store == /\ config \in Configs /\ capacity \in Capacities /\ now \in Nat /\ raised \in BOOLEAN
         /\ plan \in Seq(Jobs)
         /\ GraphOK(world) /\ AffinityOK(affinity)
         /\ calls \in Seq(CallsOn(DOMAIN world.nodes))
         /\ calls # <<>> => Built

LEMMA StoreInit == Init => Store
<1> SUFFICES ASSUME Init PROVE Store
    OBVIOUS
<1>1. /\ config \in Configs /\ capacity \in Capacities /\ now \in Nat /\ raised \in BOOLEAN
      /\ plan = <<Task("select", None, None)>> /\ world = EmptyWorld /\ affinity = <<>> /\ calls = <<>>
    BY DEF Init, BuildInit
<1>2. plan \in Seq(Jobs)
    <2>1. Task("select", None, None) \in Jobs
        BY DEF Task, Jobs, TaskKinds, Args
    <2> QED BY <1>1, <2>1
<1>3. GraphOK(world)
    BY <1>1, NoNodes, NoEdges, FS_EmptySet DEF EmptyWorld, GraphOK
<1>4. AffinityOK(affinity)
    <2>1. DOMAIN <<>> = {} /\ <<>> = [e \in DOMAIN <<>> |-> <<>>[e]]
        OBVIOUS
    <2> QED BY <1>1, <2>1 DEF AffinityOK
<1>5. calls \in Seq(CallsOn(DOMAIN world.nodes))
    BY <1>1, EmptySeq
<1> QED BY <1>1, <1>2, <1>3, <1>4, <1>5 DEF Store

LEMMA BumpedFacts ==
    ASSUME AffinityOK(affinity), NEW Ps, \A q \in Ps : IsPair(q)
    PROVE  /\ AffinityOK(Bumped(Ps))
           /\ DOMAIN Bumped(Ps) = DOMAIN affinity \cup Ps
           /\ \A q \in DOMAIN affinity \cup Ps : Bumped(Ps)[q] = WeightOf(q) + (IF q \in Ps THEN 1 ELSE 0)
<1> DEFINE D == DOMAIN affinity \cup Ps
           v(q) == WeightOf(q) + (IF q \in Ps THEN 1 ELSE 0)
           f == [q \in D |-> v(q)]
<1>1. Bumped(Ps) = f
    BY DEF Bumped
<1>2. \A q \in D : IsPair(q) /\ v(q) \in Nat
    BY DEF AffinityOK, WeightOf
<1> HIDE DEF D, v
<1>3. AffinityOK(f) /\ DOMAIN f = D /\ \A q \in D : f[q] = v(q)
    BY <1>2 DEF AffinityOK
<1> QED BY <1>1, <1>3 DEF D, v

LEMMA SomePairs ==
    ASSUME GraphOK(world), NEW S, S \subseteq People(world.nodes)
    PROVE  IsFiniteSet(S) /\ \A q \in Pairs(S) : IsPair(q)
<1>1. IsFiniteSet(S)
    BY FS_Subset DEF GraphOK
<1>2. \A q : q \in Pairs(S) <=> \E a, b \in S : a # b /\ q = {a, b}
    BY <1>1, PairsFacts
<1>3. ASSUME NEW q \in Pairs(S) PROVE IsPair(q)
    BY <1>2 DEF IsPair
<1> QED BY <1>1, <1>3

LEMMA ColleaguesFacts ==
    ASSUME GraphOK(world)
    PROVE  \A q : q \in Colleagues <=>
              \E a, b \in People(world.nodes) :
                  /\ a # b /\ q = {a, b} /\ TeamOf(world, a) = TeamOf(world, b)
                  /\ TeamOf(world, a) \in NodesByType(world, "Team")
<1> DEFINE S(t) == {p \in NodesByType(world, "Person") : TeamOf(world, p) = t}
<1>1. Colleagues = UNION {Pairs(S(t)) : t \in NodesByType(world, "Team")}
    BY DEF Colleagues
<1>2. \A t : S(t) \subseteq People(world.nodes)
    BY DEF NodesByType, People
<1>3. \A t, q : q \in Pairs(S(t)) <=> \E a, b \in S(t) : a # b /\ q = {a, b}
    <2>1. TAKE t
    <2>2. IsFiniteSet(S(t))
        BY <1>2, SomePairs
    <2> HIDE DEF S
    <2> QED BY <2>2, PairsFacts
<1>4. \A t, p : p \in S(t) <=> p \in People(world.nodes) /\ TeamOf(world, p) = t
    BY DEF NodesByType, People
<1> HIDE DEF S
<1> QED BY <1>1, <1>3, <1>4

LEMMA DrawsFacts ==
    ASSUME NEW C, IsFiniteSet(C), NEW s \in Selectors, NEW picks \in Draws(C, s)
    PROVE  \E k \in Nat : picks \in [1..k -> C]
<1> DEFINE Clip(n) == IF n < Cardinality(C) THEN n ELSE Cardinality(C)
<1>1. Clip(s.lo) \in Nat /\ Clip(s.hi) \in Nat
    BY FS_CardinalityType, ResolverAssumption
<1>2. picks \in UNION {[1..k -> C] : k \in Clip(s.lo)..Clip(s.hi)}
    BY DEF Draws
<1>3. PICK k \in Clip(s.lo)..Clip(s.hi) : picks \in [1..k -> C]
    BY <1>2
<1> HIDE DEF Clip
<1>4. k \in Nat
    BY <1>1
<1> QED BY <1>3, <1>4

\* What a builder's step says of the first task.
LEMMA DoingFacts ==
    ASSUME Store, NEW kind, Doing(kind)
    PROVE  /\ plan # <<>> /\ ~raised /\ calls = <<>> /\ Task1 \in Jobs /\ Task1.kind = kind
           /\ Len(plan) \in Nat /\ 1 \in 1..Len(plan) /\ plan[1] = Task1
           /\ Tail(plan) \in Seq(Jobs) /\ Len(Tail(plan)) = Len(plan) - 1
           /\ \A k \in 1..Len(Tail(plan)) : Tail(plan)[k] = plan[k+1]
<1>1. plan # <<>> /\ ~raised /\ calls = <<>> /\ Task1.kind = kind
    BY DEF Store, Doing, Built, Task1
<1>2. plan \in Seq(Jobs)
    BY DEF Store
<1>3. /\ Task1 \in Jobs /\ Tail(plan) \in Seq(Jobs) /\ Len(Tail(plan)) = Len(plan) - 1
      /\ \A k \in 1..Len(Tail(plan)) : Tail(plan)[k] = plan[k+1]
    BY <1>1, <1>2, HeadTailProperties DEF Task1
<1>4. Len(plan) \in Nat /\ 1 \in 1..Len(plan) /\ plan[1] = Task1
    BY <1>1, <1>2, EmptySeq DEF Task1
<1> QED BY <1>1, <1>3, <1>4

LEMMA TeamNumbers ==
    ASSUME config \in Configs, NEW d \in DOMAIN Archetypes, NEW k \in DOMAIN Archetypes[d].teams,
           NEW n \in StaffCounts(Archetypes[d].teams[k])
    PROVE  n \in Nat /\ 1 <= n
<1> DEFINE lo == Archetypes[d].teams[k].lo
           hi == Archetypes[d].teams[k].hi
           qs == Sizes[config.size].quarters
           x == qs * (hi - lo)
           base == RoundQuarter(4 * lo + x)
           Clip(m) == IF m < lo THEN lo ELSE IF m > hi THEN hi ELSE m
<1>1. lo \in Nat /\ hi \in Nat /\ 1 <= lo /\ lo <= hi
    BY ArchetypeAssumption
<1>2. n \in {Clip(base - 1), Clip(base), Clip(base + 1)}
    BY DEF StaffCounts
<1>3. base \in Int
    <2>1. qs \in Nat
        BY ConfigAssumption
    <2> HIDE DEF lo, hi, qs
    <2>2. x \in Int
        BY <1>1, <2>1
    <2> HIDE DEF x
    <2> DEFINE y == 4 * lo + x
    <2>3. y \in Int
        BY <1>1, <2>2
    <2> HIDE DEF y
    <2>4. y \div 4 \in Int
        BY <2>3
    <2>5. RoundQuarter(y) \in Int
        BY <2>4 DEF RoundQuarter
    <2> QED BY <2>5 DEF y
<1> HIDE DEF lo, hi, base
<1>4. \A m \in Int : Clip(m) \in Nat /\ 1 <= Clip(m)
    BY <1>1
<1>5. base - 1 \in Int /\ base + 1 \in Int
    BY <1>3
<1> HIDE DEF Clip
<1> QED BY <1>2, <1>3, <1>4, <1>5

\* What a team is made of.
LEMMA TeamStepFacts ==
    ASSUME Store, NEW d, NEW shape, NEW n, NEW picks, TeamStep(d, shape, n, picks)
    PROVE  /\ d \in DOMAIN Archetypes /\ n \in Nat /\ 1 <= n
           /\ \A i \in 1..n : Staff(picks)[i][1] = "person"
<1>1. Task1 \in Jobs /\ Task1.kind = "team"
    BY DoingFacts DEF TeamStep
<1>2. d \in DOMAIN Archetypes /\ Task1.arg \in DOMAIN Archetypes[d].teams
    BY <1>1 DEF Jobs, TeamStep
<1>3. n \in Nat /\ 1 <= n
    BY <1>2, TeamNumbers DEF TeamStep, Store
<1>4. \A i \in 1..n : Staff(picks)[i][1] = "person"
    BY <1>3, StaffFacts DEF TeamStep
<1> QED BY <1>2, <1>3, <1>4

LEMMA WroteStore ==
    ASSUME Store, Build, NEW kind, Doing(kind), NEW ns, NEW es, Wrote(ns, es),
           NodesOK(ns), EdgesOK(es), IsFiniteSet(People(ns))
    PROVE  Store'
<1>1. Tail(plan) \in Seq(Jobs) /\ calls = <<>>
    BY DoingFacts
<1>2. GraphOK(world')
    BY AddGraph DEF Wrote, Store
<1>3. UNCHANGED <<config, capacity, now, raised, affinity, calls>> /\ plan' = Tail(plan)
    BY DEF Wrote, Build
<1> QED BY <1>1, <1>2, <1>3, EmptySeq DEF Store

LEMMA BuildStore ==
    ASSUME Store, Build
    PROVE  Store'
<1>1. BuildNext /\ UNCHANGED <<capacity, now, calls>>
    BY DEF Build
<1>2. \A kind : Doing(kind) => calls = <<>> /\ Tail(plan) \in Seq(Jobs)
    BY DoingFacts
<1>3. CASE Raise
    <2>1. \E kind : Doing(kind)
        BY <1>1 DEF BuildNext, SelectArchetypes, BuildCompany, OpenDepartment, BuildTeam, AppointHead,
                    BuildPlaybook, BuildConfigProject, WriteAffinities
    <2>2. calls = <<>>
        BY <1>2, <2>1
    <2> QED BY <1>1, <1>3, <2>2, EmptySeq DEF Raise, Store
<1>4. CASE SelectArchetypes
    <2>1. Doing("select")
        BY <1>4 DEF SelectArchetypes
    <2>2. CASE Raise
        BY <1>3, <2>2
    <2>3. CASE (\E F \in Departments : plan' = WholeOf(F)) /\ UNCHANGED <<config, world, affinity, raised>>
        <3>1. plan' \in Seq(Jobs)
            BY <2>3, WholePlan DEF Blocks
        <3> QED BY <1>1, <1>2, <2>1, <2>3, <3>1, EmptySeq DEF Store
    <2> QED BY <1>4, <2>2, <2>3, SelectPlans DEF Store
<1>5. CASE CompanyStep
    BY <1>5, CompanyWrites, WroteStore, FS_EmptySet DEF CompanyStep
<1>6. ASSUME NEW G, DeptStep(G) PROVE Store'
    <2>1. Doing("open") /\ Wrote(DeptNodes(Task1.dept), DeptEdges(Task1.dept, G))
        BY <1>6 DEF DeptStep
    <2>2. /\ NodesOK(DeptNodes(Task1.dept)) /\ IsFiniteSet(People(DeptNodes(Task1.dept)))
          /\ EdgesOK(DeptEdges(Task1.dept, G))
        BY DeptWrites, FS_EmptySet
    <2> QED BY <2>1, <2>2, WroteStore
<1>7. ASSUME NEW d, NEW shape, NEW n, NEW picks, TeamStep(d, shape, n, picks) PROVE Store'
    <2> DEFINE ns == TeamNodes(d, shape.slug, Staff(picks), n)
               es == TeamEdges(d, shape.slug, Staff(picks), n)
    <2>1. Doing("team") /\ Wrote(ns, es)
        BY <1>7 DEF TeamStep
    <2>2. NodesOK(ns) /\ IsFiniteSet(People(ns)) /\ EdgesOK(es)
        <3> DEFINE p == Staff(picks)
                   slug == shape.slug
        <3>1. n \in Nat /\ 1 <= n /\ \A i \in 1..n : p[i][1] = "person"
            BY <1>7, TeamStepFacts
        <3> HIDE DEF p, slug
        <3>2. /\ NodesOK(TeamNodes(d, slug, p, n)) /\ IsFiniteSet(People(TeamNodes(d, slug, p, n)))
              /\ EdgesOK(TeamEdges(d, slug, p, n))
            BY <3>1, TeamWrites DEF TeamWritten
        <3> QED BY <3>2 DEF p, slug
    <2> HIDE DEF ns, es
    <2> QED BY <2>1, <2>2, WroteStore
<1>8. ASSUME NEW d, HeadStep(d) PROVE Store'
    <2>1. Doing("heads") /\ plan' = Tail(plan) /\ UNCHANGED <<config, affinity, raised>>
          /\ world' = Added(Marked(d), HeadNodes(d), HeadEdges(d))
        BY <1>8 DEF HeadStep
    <2>2. GraphOK(world')
        BY <2>1, MarkedFacts, HeadWrites, FS_EmptySet, AddGraph DEF Store
    <2> QED BY <1>1, <1>2, <2>1, <2>2, EmptySeq DEF Store
<1>9. ASSUME NEW d, NEW initiative, NEW slug, NEW C, ProjectStep(d, initiative, slug, C) PROVE Store'
    <2>1. /\ Doing("playbook") \/ Doing("project")
          /\ plan' = Tail(plan) /\ UNCHANGED <<config, raised>>
          /\ affinity' = Bumped(Pairs(Roster(world, d)))
          /\ world' = Added(world, ProjectNodes(initiative, slug), ProjectEdges(d, initiative, slug, C))
          /\ C \subseteq Roster(world, d) \ {HeadOf(d)}
        BY <1>9 DEF ProjectStep
    <2>2. PICK x, y : initiative = <<"initiative", x, y>>
        BY <1>9 DEF ProjectStep
    <2>3. /\ NodesOK(ProjectNodes(initiative, slug)) /\ IsFiniteSet(People(ProjectNodes(initiative, slug)))
          /\ EdgesOK(ProjectEdges(d, initiative, slug, C))
        <3>1. /\ NodesOK(ProjectNodes(initiative, slug)) /\ People(ProjectNodes(initiative, slug)) = {}
              /\ EdgesOK(ProjectEdges(d, initiative, slug, C))
            <4>1. C \subseteq Roster(world, d) \ {HeadOf(d)}
                BY <2>1
            <4>2. ProjectWritten(d, initiative, slug, C)
                BY <2>2, <4>1, ProjectWrites
            <4> QED BY <4>2 DEF ProjectWritten
        <3> QED BY <3>1, FS_EmptySet
    <2>4. GraphOK(world')
        BY <2>1, <2>3, AddGraph DEF Store
    <2>5. AffinityOK(affinity')
        <3>1. Roster(world, d) \subseteq People(world.nodes)
            BY DEF Roster, NodesByType, People
        <3> QED BY <2>1, <3>1, SomePairs, BumpedFacts DEF Store
    <2> QED BY <1>1, <1>2, <2>1, <2>4, <2>5, EmptySeq DEF Store
<1>10. CASE WriteAffinities
    <2> DEFINE A == Bumped(Colleagues)
    <2>1. /\ Doing("affinities") /\ plan' = Tail(plan) /\ UNCHANGED <<config, raised>>
          /\ affinity' = A /\ world' = Added(world, <<>>, Written(A))
        BY <1>10 DEF WriteAffinities, Written
    <2>2. AffinityOK(A)
        BY ColleaguesFacts, BumpedFacts DEF Store, IsPair
    <2> HIDE DEF A
    <2>3. EdgesOK(Written(A))
        BY <2>2, WrittenFacts DEF AffinityOK
    <2>4. GraphOK(world')
        BY <2>1, <2>3, NoNodes, FS_EmptySet, AddGraph DEF Store
    <2> QED BY <1>1, <1>2, <2>1, <2>2, <2>4, EmptySeq DEF Store
<1> QED BY <1>1, <1>3, <1>4, <1>5, <1>6, <1>7, <1>8, <1>9, <1>10, BuildSteps

-----------------------------------------------------------------------------
(* What a call writes.                                                     *)

Linked(s, picks) == IF s.relate THEN Relationships(s, picks) ELSE <<>>
ResolveStep(s, k, picks) ==
    /\ Built /\ s \in Selectors /\ s.anchor \in DOMAIN world.nodes
    /\ k \in Nat /\ picks \in [1..k -> Candidates(s)]
    /\ world' = Reinforced(Added(world, <<>>, Linked(s, picks)), s, picks)
    /\ calls' = Append(calls, [sel |-> s, at |-> now, picks |-> picks])
    /\ UNCHANGED <<config, plan, affinity, raised, capacity, now>>

LEMMA CandidatesFacts ==
    ASSUME GraphOK(world), NEW s
    PROVE  /\ Candidates(s) \subseteq People(world.nodes) /\ IsFiniteSet(Candidates(s))
           /\ s.anchor \notin Candidates(s)
<1>1. Candidates(s) \subseteq People(world.nodes) /\ s.anchor \notin Candidates(s)
    BY DEF Candidates, NodesByType, People
<1> QED BY <1>1, FS_Subset DEF GraphOK

LEMMA ResolveSteps ==
    ASSUME Store, Resolve
    PROVE  \E s, k, picks : ResolveStep(s, k, picks)
<1>1. PICK s \in Selectors :
        /\ s.anchor \in DOMAIN world.nodes
        /\ \E picks \in Draws(Candidates(s), s) :
              /\ world' = Reinforced(Added(world, <<>>, Linked(s, picks)), s, picks)
              /\ calls' = Append(calls, [sel |-> s, at |-> now, picks |-> picks])
    BY DEF Resolve, Linked
<1>2. PICK picks \in Draws(Candidates(s), s) :
              /\ world' = Reinforced(Added(world, <<>>, Linked(s, picks)), s, picks)
              /\ calls' = Append(calls, [sel |-> s, at |-> now, picks |-> picks])
    BY <1>1
<1>3. IsFiniteSet(Candidates(s))
    BY CandidatesFacts DEF Store
<1>4. PICK k \in Nat : picks \in [1..k -> Candidates(s)]
    BY <1>3, DrawsFacts
<1>5. Built /\ UNCHANGED <<config, plan, affinity, raised, capacity, now>>
    BY DEF Resolve
<1> QED BY <1>1, <1>2, <1>4, <1>5 DEF ResolveStep

\* A call adds edges dated now, and changes the weight of some there are.
ResolveWritten(E, s, picks, F) ==
    /\ EdgesOK(F)
    /\ DOMAIN F = (DOMAIN E \cup DOMAIN Linked(s, picks)) \cup Drawn(s, picks)
    /\ \A e \in DOMAIN E : /\ F[e].type = E[e].type /\ F[e].src = E[e].src
                          /\ F[e].dst = E[e].dst /\ F[e].at = E[e].at
                          /\ F[e] = [type |-> F[e].type, src |-> F[e].src, dst |-> F[e].dst,
                                     at |-> F[e].at, props |-> F[e].props]
    /\ \A e \in DOMAIN E \ Drawn(s, picks) : F[e] = E[e]
    /\ \A t, a, b : Has(F, t, a, b) <=> Has(E, t, a, b)
    /\ \A t, a, b : Has(E, t, a, b) => F[<<t, a, b>>] = E[<<t, a, b>>]
    /\ \A e \in DOMAIN F \ DOMAIN E :
          /\ F[e].at = now
          /\ \/ F[e].type = "collaborates_with" /\ e \in Drawn(s, picks)
             \/ F[e].type = "reviews_for" /\ F[e].dst = s.anchor /\ \E i \in DOMAIN picks : F[e].src = picks[i]
    /\ \A q : AffinityId(q) \notin Drawn(s, picks) =>
          /\ AffinityId(q) \in DOMAIN F <=> AffinityId(q) \in DOMAIN E
          /\ AffinityId(q) \in DOMAIN E => F[AffinityId(q)] = E[AffinityId(q)]
    /\ \A i \in DOMAIN picks :
          LET e == AffinityId({picks[i], s.anchor})
              n == Times(picks, picks[i])
          IN F[e].props = IF e \in DOMAIN E THEN E[e].props + n ELSE n

LEMMA ResolveWrites ==
    ASSUME Store, NEW s, NEW k, NEW picks, ResolveStep(s, k, picks)
    PROVE  /\ world' = [nodes |-> world.nodes, edges |-> world'.edges]
           /\ ResolveWritten(world.edges, s, picks, world'.edges)
<1> DEFINE E == world.edges
           R == Linked(s, picks)
           w == Added(world, <<>>, R)
           G == w.edges
           F == Reinforced(w, s, picks).edges
           Ids == Drawn(s, picks)
<1>1. GraphOK(world) /\ EdgesOK(E) /\ now \in Nat /\ DOMAIN picks = 1..k /\ k \in Nat
    BY DEF Store, GraphOK, ResolveStep
<1>2. \A i \in DOMAIN picks : picks[i] # s.anchor
    <2>1. s.anchor \notin Candidates(s) /\ picks \in [1..k -> Candidates(s)]
        BY <1>1, CandidatesFacts DEF ResolveStep
    <2> QED BY <2>1
<1>3. Related(s, picks, R)
    <2>1. Related(s, picks, Relationships(s, picks))
        BY <1>1, RelationshipsFacts
    <2>2. Related(s, picks, <<>>)
        BY NoEdges DEF Related, Has
    <2> QED BY <2>1, <2>2 DEF Linked
<1>4. w = [nodes |-> world.nodes, edges |-> G] /\ G = E ++ R
    <2>1. world.nodes ++ <<>> = world.nodes
        BY <1>1, NothingMerged DEF GraphOK, NodesOK
    <2>2. w = [nodes |-> w.nodes, edges |-> w.edges] /\ w.nodes = world.nodes ++ <<>> /\ w.edges = E ++ R
        BY AddedFacts
    <2> QED BY <2>1, <2>2
<1> HIDE DEF E, R, w
<1>5. EdgesOK(G) /\ w = [nodes |-> w.nodes, edges |-> w.edges] /\ w.nodes = world.nodes
    BY <1>1, <1>3, <1>4, MergeEdges DEF Related
<1>6. world' = [nodes |-> world.nodes, edges |-> F] /\ Strengthened(G, s, picks, F)
    <2>1. /\ Reinforced(w, s, picks) = [nodes |-> w.nodes, edges |-> F]
          /\ Strengthened(w.edges, s, picks, F)
        BY <1>1, <1>2, <1>5, ReinforcedFacts
    <2> QED BY <1>5, <2>1 DEF ResolveStep, w, R
<1>7. \A e : /\ e \in DOMAIN G <=> e \in DOMAIN E \/ e \in DOMAIN R
             /\ e \in DOMAIN E => G[e] = E[e]
             /\ e \notin DOMAIN E /\ e \in DOMAIN R => G[e] = R[e]
    BY <1>4, MergedAt
<1>8. \A e \in Ids : \E q : e = AffinityId(q)
    BY DEF Drawn
<1>9. \A i \in DOMAIN picks : AffinityId({picks[i], s.anchor}) \in Ids
    BY DEF Drawn
<1> HIDE DEF G, F, Ids
<1>10. \A e \in DOMAIN R : e \notin Ids /\ \A q : e # AffinityId(q)
    BY <1>3, <1>8 DEF Related
<1>11. ResolveWritten(E, s, picks, F)
    <2>1. EdgesOK(F) /\ DOMAIN F = (DOMAIN E \cup DOMAIN R) \cup Ids
        BY <1>6, <1>7 DEF Strengthened, Ids
    <2>2. \A e \in DOMAIN E : /\ F[e].type = E[e].type /\ F[e].src = E[e].src
                              /\ F[e].dst = E[e].dst /\ F[e].at = E[e].at
        BY <1>6, <1>7 DEF Strengthened
    <2>9. \A e \in DOMAIN E : F[e] = [type |-> F[e].type, src |-> F[e].src, dst |-> F[e].dst,
                                      at |-> F[e].at, props |-> F[e].props]
        BY <2>1 DEF EdgesOK, IsEdge
    <2>10. \A e \in DOMAIN E \ Ids : F[e] = E[e]
        BY <1>6, <1>7 DEF Strengthened, Ids
    <2>3. \A t, a, b : <<t, a, b>> \notin Ids /\ <<t, a, b>> \notin DOMAIN R
        <3>1. TAKE t, a, b
        <3>2. \A q : AffinityId(q) # <<t, a, b>>
            BY AffinityIds
        <3>3. <<t, a, b>> \notin Ids
            BY <1>8, <3>2
        <3> QED BY <1>3, <3>3 DEF Related, Has
    <2>4. \A t, a, b : Has(F, t, a, b) <=> Has(E, t, a, b)
        BY <2>1, <2>3 DEF Has
    <2>5. \A t, a, b : Has(E, t, a, b) => F[<<t, a, b>>] = E[<<t, a, b>>]
        BY <1>6, <1>7, <2>3 DEF Has, Strengthened, Ids
    <2>6. ASSUME NEW e \in DOMAIN F \ DOMAIN E
          PROVE  /\ F[e].at = now
                 /\ \/ F[e].type = "collaborates_with" /\ e \in Ids
                    \/ F[e].type = "reviews_for" /\ F[e].dst = s.anchor /\ \E i \in DOMAIN picks : F[e].src = picks[i]
        <3>1. CASE e \in DOMAIN R
            <4>1. e \in DOMAIN G /\ e \notin Ids /\ G[e] = R[e]
                BY <1>7, <1>10, <3>1
            <4>2. F[e] = G[e]
                BY <1>6, <4>1 DEF Strengthened, Ids
            <4>3. R[e].type = "reviews_for" /\ R[e].at = now /\ R[e].dst = s.anchor
                  /\ \E i \in DOMAIN picks : R[e].src = picks[i]
                BY <1>3, <3>1 DEF Related
            <4> QED BY <4>1, <4>2, <4>3
        <3>2. CASE e \notin DOMAIN R
            <4>1. e \in Ids /\ e \notin DOMAIN G
                BY <1>7, <2>1, <2>6, <3>2
            <4> QED BY <1>6, <4>1 DEF Strengthened, Ids
        <3> QED BY <3>1, <3>2
    <2>7. ASSUME NEW q, AffinityId(q) \notin Ids
          PROVE  /\ AffinityId(q) \in DOMAIN F <=> AffinityId(q) \in DOMAIN E
                 /\ AffinityId(q) \in DOMAIN E => F[AffinityId(q)] = E[AffinityId(q)]
        BY <1>6, <1>7, <1>10, <2>1, <2>7 DEF Strengthened, Ids
    <2>8. ASSUME NEW i \in DOMAIN picks
          PROVE  LET e == AffinityId({picks[i], s.anchor})
                     n == Times(picks, picks[i])
                 IN F[e].props = IF e \in DOMAIN E THEN E[e].props + n ELSE n
        <3> DEFINE e == AffinityId({picks[i], s.anchor})
                   n == Times(picks, picks[i])
        <3>1. F[e].props = IF e \in DOMAIN G THEN G[e].props + n ELSE n
            BY <1>6 DEF Strengthened
        <3>2. e \notin DOMAIN R
            BY <1>9, <1>10
        <3> HIDE DEF e, n
        <3>3. F[e].props = IF e \in DOMAIN E THEN E[e].props + n ELSE n
            BY <1>7, <3>1, <3>2
        <3> QED BY <3>3 DEF e, n
    <2> QED BY <2>1, <2>2, <2>4, <2>5, <2>6, <2>7, <2>8, <2>9, <2>10 DEF ResolveWritten, R, Ids
<1> QED BY <1>6, <1>11 DEF E

LEMMA ResolveStore ==
    ASSUME Store, Resolve
    PROVE  Store'
<1>1. PICK s, k, picks : ResolveStep(s, k, picks)
    BY ResolveSteps
<1>2. world' = [nodes |-> world.nodes, edges |-> world'.edges] /\ EdgesOK(world'.edges)
    BY <1>1, ResolveWrites DEF ResolveWritten
<1>3. GraphOK(world')
    BY <1>2 DEF Store, GraphOK
<1>4. world'.nodes = world.nodes /\ Built'
    BY <1>1, <1>2 DEF ResolveStep, Built
<1>5. picks \in Seq(DOMAIN world.nodes)
    <2>1. Candidates(s) \subseteq DOMAIN world.nodes
        BY CandidatesFacts DEF Store, People
    <2>2. picks \in [1..k -> DOMAIN world.nodes] /\ k \in Nat
        BY <1>1, <2>1 DEF ResolveStep
    <2> QED BY <2>2
<1>6. calls' \in Seq(CallsOn(DOMAIN world'.nodes))
    <2> DEFINE D == DOMAIN world.nodes
               c == [sel |-> s, at |-> now, picks |-> picks]
    <2>1. c \in CallsOn(D)
        BY <1>1, <1>5 DEF CallsOn, Store, ResolveStep
    <2>2. calls \in Seq(CallsOn(D)) /\ calls' = Append(calls, c) /\ DOMAIN world'.nodes = D
        BY <1>1, <1>4 DEF Store, ResolveStep
    <2> HIDE DEF c, D
    <2>3. Append(calls, c) \in Seq(CallsOn(D))
        BY <2>1, <2>2, AppendProperties
    <2> QED BY <2>2, <2>3
<1> QED BY <1>1, <1>3, <1>4, <1>6 DEF Store, ResolveStep

LEMMA StoreStep ==
    ASSUME Store, [Next]_vars
    PROVE  Store'
<1>1. CASE Build
    BY <1>1, BuildStore
<1>2. CASE Resolve
    BY <1>2, ResolveStore
<1>3. CASE Advance
    BY <1>3 DEF Advance, Store, buildVars, Built
<1>4. CASE UNCHANGED vars
    BY <1>4 DEF vars, buildVars, Store, Built
<1> QED BY <1>1, <1>2, <1>3, <1>4 DEF Next

\* In every state the world is a graph whose ids are made of what they name, affinities are
\* weights of pairs, and a simulation calls for people of a finished world only
\* (builder.py, resolver.py).
THEOREM WorldTypes == Spec => []Store
<1>1. Init => Store
    BY StoreInit
<1>2. Store /\ [Next]_vars => Store'
    BY StoreStep
<1> QED BY <1>1, <1>2, PTL DEF Spec

-----------------------------------------------------------------------------
(* The organisation, as what nodes there are and who is related to whom.   *)

Of(N, n, type) == n \in DOMAIN N /\ N[n].type = type
Worker(N, p, d, u) == Of(N, p, "Person") /\ N[p].props.department = d /\ N[p].props.unit = u
Employed(N, p, d) == Of(N, p, "Person") /\ N[p].props.department = d
FirstTeam(d) == Team(d, Archetypes[d].teams[1].slug)

LEMMA Ids ==
    /\ \A d, s, e, t : Team(d, s) = Team(e, t) <=> d = e /\ s = t
    /\ \A d, e : /\ Dept(d) = Dept(e) <=> d = e
                 /\ Program(d) = Program(e) <=> d = e
                 /\ Dept(d) # Program(e)
    /\ \A d, s, e : Team(d, s) # Dept(e) /\ Team(d, s) # Program(e)
    /\ \A d, s, e : Team(d, s) # Project(e)
    /\ \A s, e : Project(s) # Dept(e) /\ Project(s) # Program(e)
    /\ \A d, s : Team(d, s)[1] = "team"
    /\ \A x, y, e : <<"initiative", x, y>> # Program(e) /\ <<"initiative", x, y>> # Dept(e)
    /\ \A x, y, e, s : <<"initiative", x, y>> # Project(e) /\ <<"initiative", x, y>> # Team(e, s)
BY DEF Team, Dept, Program, Project

\* Everyone is a member of the team of the own unit, and of nothing but teams and projects.
Belonging(N, E) ==
    /\ \A p, d, u : Worker(N, p, d, u) => Of(N, Team(d, u), "Team")
    /\ \A p, d, u : Has(E, "member_of", p, Team(d, u)) <=> Worker(N, p, d, u)
    /\ \A p, x : Has(E, "member_of", p, x) =>
           Of(N, p, "Person") /\ (Of(N, x, "Team") \/ Of(N, x, "Project"))

\* A team has one lead, who is of it, and a department that has its program is led by the
\* lead of its first team.
Leading(N, E) ==
    /\ \A d, u : Of(N, Team(d, u), "Team") =>
           Dept(d) \in DOMAIN N /\ \E p : Has(E, "leads", p, Team(d, u))
    /\ \A p, d, u : Has(E, "leads", p, Team(d, u)) => Worker(N, p, d, u)
    /\ \A p, q, x : Has(E, "leads", p, x) /\ Has(E, "leads", q, x) => p = q
    /\ \A p, d : Has(E, "leads", p, Dept(d)) <=>
           Program(d) \in DOMAIN N /\ Has(E, "leads", p, FirstTeam(d))
    /\ \A t, d : Has(E, "part_of", t, Dept(d)) <=> Of(N, t, "Team") /\ \E u : t = Team(d, u)
    /\ \A d : Program(d) \in DOMAIN N => Of(N, FirstTeam(d), "Team")

\* One reports to the lead of the own team, and a lead to the head once there is one.
Manages(N, E, x, y, d, u) ==
    \/ Has(E, "leads", y, Team(d, u))
    \/ Has(E, "leads", x, Team(d, u)) /\ Program(d) \in DOMAIN N /\ Has(E, "leads", y, FirstTeam(d))
Reporting(N, E) ==
    \A x, y : Has(E, "reports_to", x, y) <=>
        x # y /\ \E d, u : Worker(N, x, d, u) /\ Manages(N, E, x, y, d, u)

\* A project is of a department that has a head, who leads it, and has everyone of it.
StaffedBy(N, E, q, d) ==
    /\ Program(d) \in DOMAIN N
    /\ \A p : Has(E, "member_of", p, q) <=> Employed(N, p, d)
    /\ \A p : Has(E, "member_of", p, q) =>
           (E[<<"member_of", p, q>>].props = "lead" <=> Has(E, "leads", p, FirstTeam(d)))
Staffing(N, E) == \A q : Of(N, q, "Project") => \E d : StaffedBy(N, E, q, d)

Chart(N, E) == Belonging(N, E) /\ Leading(N, E) /\ Reporting(N, E) /\ Staffing(N, E)

\* What else a step may add without touching the organisation.
SameOrg(N, M) ==
    /\ \A n : \A type \in {"Person", "Team", "Project"} : Of(M, n, type) <=> Of(N, n, type)
    /\ \A p, d, u : Worker(M, p, d, u) <=> Worker(N, p, d, u)
    /\ \A p, d : Employed(M, p, d) <=> Employed(N, p, d)
    /\ \A d : Program(d) \in DOMAIN M <=> Program(d) \in DOMAIN N
    /\ \A d : Dept(d) \in DOMAIN N => Dept(d) \in DOMAIN M
SameLinks(E, F) ==
    /\ \A a, b : \A t \in {"leads", "part_of", "member_of", "reports_to"} : Has(F, t, a, b) <=> Has(E, t, a, b)
    /\ \A a, b : Has(E, "member_of", a, b) =>
           F[<<"member_of", a, b>>].props = E[<<"member_of", a, b>>].props

LEMMA ChartKept ==
    ASSUME NEW N, NEW E, NEW M, NEW F, Chart(N, E), SameOrg(N, M), SameLinks(E, F)
    PROVE  Chart(M, F)
<1>1. /\ \A n : /\ Of(M, n, "Person") <=> Of(N, n, "Person")
                /\ Of(M, n, "Team") <=> Of(N, n, "Team")
                /\ Of(M, n, "Project") <=> Of(N, n, "Project")
      /\ \A p, d, u : Worker(M, p, d, u) <=> Worker(N, p, d, u)
      /\ \A p, d : Employed(M, p, d) <=> Employed(N, p, d)
      /\ \A d : Program(d) \in DOMAIN M <=> Program(d) \in DOMAIN N
      /\ \A d : Dept(d) \in DOMAIN N => Dept(d) \in DOMAIN M
    BY DEF SameOrg
<1>2. /\ \A a, b : Has(F, "leads", a, b) <=> Has(E, "leads", a, b)
      /\ \A a, b : Has(F, "part_of", a, b) <=> Has(E, "part_of", a, b)
      /\ \A a, b : Has(F, "member_of", a, b) <=> Has(E, "member_of", a, b)
      /\ \A a, b : Has(F, "reports_to", a, b) <=> Has(E, "reports_to", a, b)
    BY DEF SameLinks
<1>3. Belonging(M, F)
    BY <1>1, <1>2 DEF Chart, Belonging
<1>4. Leading(M, F)
    BY <1>1, <1>2 DEF Chart, Leading
<1>5. Reporting(M, F)
    <2>1. \A x, y, d, u : Manages(M, F, x, y, d, u) <=> Manages(N, E, x, y, d, u)
        BY <1>1, <1>2 DEF Manages
    <2> QED BY <1>1, <1>2, <2>1 DEF Chart, Reporting
<1>6. Staffing(M, F)
    <2>1. ASSUME NEW q, NEW d, StaffedBy(N, E, q, d) PROVE StaffedBy(M, F, q, d)
        BY <1>1, <1>2, <2>1 DEF StaffedBy, SameLinks
    <2> QED BY <1>1, <2>1 DEF Chart, Staffing
<1> QED BY <1>3, <1>4, <1>5, <1>6 DEF Chart

\* Whoever leads a team.
LEMMA LeadKnown ==
    ASSUME GraphOK(world), Chart(world.nodes, world.edges), NEW d, NEW u,
           Of(world.nodes, Team(d, u), "Team")
    PROVE  \A p : Has(world.edges, "leads", p, Team(d, u)) <=> p = Lead(world, Team(d, u))
<1> DEFINE N == world.nodes
           E == world.edges
           t == Team(d, u)
           A == Neighbors(world, t, "leads", "in")
<1>1. "leads" \in Ordinary /\ EdgesOK(world.edges)
    BY DEF Ordinary, GraphOK
<1>2. A = {a \in DOMAIN world.nodes : Has(world.edges, "leads", a, t)}
    <2> HIDE DEF t
    <2> QED BY <1>1, NeighborsNamed DEF Has
<1>3. PICK p : Has(E, "leads", p, t)
    BY DEF Chart, Leading
<1>4. \A q : Has(E, "leads", q, t) => q \in DOMAIN N
    BY DEF Chart, Leading, Worker, Of
<1>5. \A q : Has(E, "leads", q, t) => q = p
    BY <1>3 DEF Chart, Leading
<1>6. Lead(world, t) \in A
    BY <1>2, <1>3, <1>4 DEF Lead
<1> QED BY <1>2, <1>3, <1>5, <1>6

LEMMA HeadKnown ==
    ASSUME GraphOK(world), Chart(world.nodes, world.edges), NEW d, Of(world.nodes, FirstTeam(d), "Team")
    PROVE  /\ \A p : Has(world.edges, "leads", p, FirstTeam(d)) <=> p = HeadOf(d)
           /\ Employed(world.nodes, HeadOf(d), d)
<1>1. FirstTeam(d) = Team(d, Archetypes[d].teams[1].slug) /\ HeadOf(d) = Lead(world, FirstTeam(d))
    BY DEF FirstTeam, HeadOf
<1>2. \A p : Has(world.edges, "leads", p, FirstTeam(d)) <=> p = HeadOf(d)
    BY <1>1, LeadKnown
<1>3. Has(world.edges, "leads", HeadOf(d), Team(d, Archetypes[d].teams[1].slug))
    BY <1>1, <1>2
<1>4. Worker(world.nodes, HeadOf(d), d, Archetypes[d].teams[1].slug)
    BY <1>3 DEF Chart, Leading
<1> QED BY <1>2, <1>4 DEF Worker, Employed

-----------------------------------------------------------------------------
(* What is left to do, relative to what there is.                          *)

Opened(P, N) ==
    \A k \in 1..Len(P) : P[k].kind = "team" =>
        \/ Dept(P[k].dept) \in DOMAIN N /\ Program(P[k].dept) \notin DOMAIN N
        \/ \E j \in 1..Len(P) : j < k /\ Is(P, j, "open", P[k].dept)
Begun(P, N) ==
    \A k \in 1..Len(P) : P[k].kind = "heads" =>
        \/ Of(N, FirstTeam(P[k].dept), "Team")
        \/ \E j \in 1..Len(P) : j < k /\ Is(P, j, "team", P[k].dept) /\ P[j].arg = 1
Headed(P, N) ==
    \A k \in 1..Len(P) : P[k].kind \in {"playbook", "project"} =>
        \/ Program(P[k].dept) \in DOMAIN N
        \/ \E j \in 1..Len(P) : j < k /\ Is(P, j, "heads", P[k].dept)
Covered(P, N) ==
    \A p, d : Employed(N, p, d) =>
        Program(d) \in DOMAIN N \/ \E k \in 1..Len(P) : Is(P, k, "heads", d)
Agenda(P, N) ==
    /\ Opened(P, N) /\ Begun(P, N) /\ Headed(P, N) /\ Covered(P, N)
    /\ HeadsFollow(P) /\ OpenBetween(P) /\ AffinitiesLast(P)

\* What a step has to do to the nodes for the tasks after it.
Does(t, N, M) ==
    /\ \A d : Program(d) \in DOMAIN M <=> Program(d) \in DOMAIN N \/ (t.kind = "heads" /\ t.dept = d)
    /\ \A d : Dept(d) \in DOMAIN N => Dept(d) \in DOMAIN M
    /\ t.kind = "open" => Dept(t.dept) \in DOMAIN M /\ Program(t.dept) \notin DOMAIN M
    /\ \A d : Of(N, FirstTeam(d), "Team") => Of(M, FirstTeam(d), "Team")
    /\ t.kind = "team" /\ t.arg = 1 => Of(M, FirstTeam(t.dept), "Team")
    /\ \A p, d : Employed(M, p, d) => Employed(N, p, d) \/ (t.kind = "team" /\ t.dept = d)

LEMMA AgendaKept ==
    ASSUME NEW P, NEW Q, NEW N, NEW M, Agenda(P, N), Len(P) \in Nat, Len(P) # 0, Len(Q) = Len(P) - 1,
           \A k \in 1..Len(Q) : Q[k] = P[k+1], Does(P[1], N, M)
    PROVE  Agenda(Q, M)
<1> DEFINE n == Len(P)
           m == Len(Q)
<1>1. n \in Nat /\ m \in Nat /\ n = m + 1 /\ 1 \in 1..n
    OBVIOUS
<1>2. \A k \in 1..m : k + 1 \in 1..n /\ P[k+1] = Q[k] /\ 1 < k + 1
    OBVIOUS
<1>3. \A k \in 1..n : k # 1 => k - 1 \in 1..m /\ Q[k-1] = P[k]
    <2>1. TAKE k \in 1..n
    <2>2. SUFFICES ASSUME k # 1 PROVE k - 1 \in 1..m /\ Q[k-1] = P[k]
        OBVIOUS
    <2> DEFINE i == k - 1
    <2>3. i \in 1..m /\ i + 1 = k
        BY <1>1, <2>2
    <2> HIDE DEF i
    <2>4. Q[i] = P[k]
        BY <2>3
    <2> QED BY <2>3, <2>4 DEF i
<1> HIDE DEF n, m
\* An earlier task is the one that is done, or is still to do.
<1>4. \A kind, d, k : \A j \in 1..n : k \in 1..m /\ j < k + 1 /\ Is(P, j, kind, d) =>
        \/ j = 1 /\ P[1].kind = kind /\ P[1].dept = d
        \/ j - 1 \in 1..m /\ j - 1 < k /\ Is(Q, j - 1, kind, d) /\ Q[j-1] = P[j]
    <2>1. TAKE kind, d, k
    <2>2. TAKE j \in 1..n
    <2>3. SUFFICES ASSUME k \in 1..m, j < k + 1, Is(P, j, kind, d), j # 1
                   PROVE  j - 1 \in 1..m /\ j - 1 < k /\ Is(Q, j - 1, kind, d) /\ Q[j-1] = P[j]
        BY DEF Is
    <2>4. j - 1 \in 1..m /\ Q[j-1] = P[j]
        BY <1>3, <2>3
    <2>5. j - 1 < k
        BY <1>1, <2>3
    <2> QED BY <2>3, <2>4, <2>5 DEF Is
<1>5. Opened(Q, M)
    <2>1. SUFFICES ASSUME NEW k \in 1..m, Q[k].kind = "team"
                   PROVE  \/ Dept(Q[k].dept) \in DOMAIN M /\ Program(Q[k].dept) \notin DOMAIN M
                          \/ \E j \in 1..m : j < k /\ Is(Q, j, "open", Q[k].dept)
        BY DEF Opened, m
    <2> DEFINE i == k + 1
               d == Q[k].dept
    <2>2. i \in 1..n /\ P[i] = Q[k] /\ 1 < i
        BY <1>2
    <2>3. \/ Dept(d) \in DOMAIN N /\ Program(d) \notin DOMAIN N
          \/ \E j \in 1..n : j < i /\ Is(P, j, "open", d)
        <3> HIDE DEF i
        <3> QED BY <2>1, <2>2 DEF Agenda, Opened, n
    <2>4. CASE Dept(d) \in DOMAIN N /\ Program(d) \notin DOMAIN N
        <3>1. CASE Program(d) \notin DOMAIN M
            BY <2>4, <3>1 DEF Does
        <3>2. CASE Program(d) \in DOMAIN M
            <4>1. Is(P, 1, "heads", d)
                BY <2>4, <3>2 DEF Does, Is
            <4>2. \E j \in 1..n : 1 < j /\ j < i /\ Is(P, j, "open", d)
                <5> HIDE DEF i
                <5> QED BY <1>1, <2>1, <2>2, <4>1 DEF Agenda, OpenBetween, n
            <4>3. PICK j \in 1..n : 1 < j /\ j < i /\ Is(P, j, "open", d)
                BY <4>2
            <4>4. j - 1 \in 1..m /\ j - 1 < k /\ Is(Q, j - 1, "open", d)
                <5>1. j # 1 /\ j < k + 1 /\ k \in 1..m /\ Is(P, j, "open", d)
                    BY <1>1, <2>1, <4>3
                <5> QED BY <1>4, <5>1
            <4> QED BY <4>4
        <3> QED BY <3>1, <3>2
    <2>5. ASSUME NEW j \in 1..n, j < i, Is(P, j, "open", d)
          PROVE  \/ Dept(d) \in DOMAIN M /\ Program(d) \notin DOMAIN M
                 \/ \E l \in 1..m : l < k /\ Is(Q, l, "open", d)
        <3>1. \/ j = 1 /\ P[1].kind = "open" /\ P[1].dept = d
              \/ j - 1 \in 1..m /\ j - 1 < k /\ Is(Q, j - 1, "open", d) /\ Q[j-1] = P[j]
            BY <1>4, <2>5
        <3> QED BY <3>1 DEF Does
    <2> QED BY <2>3, <2>4, <2>5
<1>6. Begun(Q, M)
    <2>1. SUFFICES ASSUME NEW k \in 1..m, Q[k].kind = "heads"
                   PROVE  \/ Of(M, FirstTeam(Q[k].dept), "Team")
                          \/ \E j \in 1..m : j < k /\ Is(Q, j, "team", Q[k].dept) /\ Q[j].arg = 1
        BY DEF Begun, m
    <2> DEFINE i == k + 1
               d == Q[k].dept
    <2>2. i \in 1..n /\ P[i] = Q[k] /\ 1 < i
        BY <1>2
    <2>3. \/ Of(N, FirstTeam(d), "Team")
          \/ \E j \in 1..n : j < i /\ Is(P, j, "team", d) /\ P[j].arg = 1
        <3> HIDE DEF i
        <3> QED BY <2>1, <2>2 DEF Agenda, Begun, n
    <2>5. ASSUME NEW j \in 1..n, j < i, Is(P, j, "team", d), P[j].arg = 1
          PROVE  \/ Of(M, FirstTeam(d), "Team")
                 \/ \E l \in 1..m : l < k /\ Is(Q, l, "team", d) /\ Q[l].arg = 1
        <3>1. \/ j = 1 /\ P[1].kind = "team" /\ P[1].dept = d
              \/ j - 1 \in 1..m /\ j - 1 < k /\ Is(Q, j - 1, "team", d) /\ Q[j-1] = P[j]
            BY <1>4, <2>5
        <3> QED BY <2>5, <3>1 DEF Does
    <2>6. Of(N, FirstTeam(d), "Team") => Of(M, FirstTeam(d), "Team")
        BY DEF Does
    <2> QED BY <2>3, <2>5, <2>6
<1>7. Headed(Q, M)
    <2>1. SUFFICES ASSUME NEW k \in 1..m, Q[k].kind \in {"playbook", "project"}
                   PROVE  \/ Program(Q[k].dept) \in DOMAIN M
                          \/ \E j \in 1..m : j < k /\ Is(Q, j, "heads", Q[k].dept)
        BY DEF Headed, m
    <2> DEFINE i == k + 1
               d == Q[k].dept
    <2>2. i \in 1..n /\ P[i] = Q[k] /\ 1 < i
        BY <1>2
    <2>3. \/ Program(d) \in DOMAIN N
          \/ \E j \in 1..n : j < i /\ Is(P, j, "heads", d)
        <3> HIDE DEF i
        <3> QED BY <2>1, <2>2 DEF Agenda, Headed, n
    <2>5. ASSUME NEW j \in 1..n, j < i, Is(P, j, "heads", d)
          PROVE  \/ Program(d) \in DOMAIN M
                 \/ \E l \in 1..m : l < k /\ Is(Q, l, "heads", d)
        <3>1. \/ j = 1 /\ P[1].kind = "heads" /\ P[1].dept = d
              \/ j - 1 \in 1..m /\ j - 1 < k /\ Is(Q, j - 1, "heads", d) /\ Q[j-1] = P[j]
            BY <1>4, <2>5
        <3> QED BY <2>5, <3>1 DEF Does
    <2>6. Program(d) \in DOMAIN N => Program(d) \in DOMAIN M
        BY DEF Does
    <2> QED BY <2>3, <2>5, <2>6
<1>8. HeadsFollow(Q)
    <2>1. SUFFICES ASSUME NEW k \in 1..m, Q[k].kind = "team"
                   PROVE  \E j \in 1..m : k < j /\ Is(Q, j, "heads", Q[k].dept)
        BY DEF HeadsFollow, m
    <2> DEFINE i == k + 1
               d == Q[k].dept
    <2>2. i \in 1..n /\ P[i] = Q[k] /\ 1 < i
        BY <1>2
    <2>3. \E j \in 1..n : i < j /\ Is(P, j, "heads", d)
        <3> HIDE DEF i
        <3> QED BY <2>1, <2>2 DEF Agenda, HeadsFollow, n
    <2>4. PICK j \in 1..n : i < j /\ Is(P, j, "heads", d)
        BY <2>3
    <2>5. j - 1 \in 1..m /\ Q[j-1] = P[j] /\ k < j - 1
        BY <1>1, <1>3, <2>4
    <2> QED BY <2>4, <2>5 DEF Is
<1>9. Covered(Q, M)
    <2>1. SUFFICES ASSUME NEW p, NEW d, Employed(M, p, d)
                   PROVE  Program(d) \in DOMAIN M \/ \E k \in 1..m : Is(Q, k, "heads", d)
        BY DEF Covered, m
    <2>2. \/ Program(d) \in DOMAIN N
          \/ \E k \in 1..n : Is(P, k, "heads", d)
        <3>1. CASE Employed(N, p, d)
            BY <3>1 DEF Agenda, Covered, n
        <3>2. CASE P[1].kind = "team" /\ P[1].dept = d
            BY <1>1, <3>2 DEF Agenda, HeadsFollow, n
        <3> QED BY <2>1, <3>1, <3>2 DEF Does
    <2>3. ASSUME NEW k \in 1..n, Is(P, k, "heads", d)
          PROVE  Program(d) \in DOMAIN M \/ \E l \in 1..m : Is(Q, l, "heads", d)
        <3>1. CASE k = 1
            BY <2>3, <3>1 DEF Does, Is
        <3>2. CASE k # 1
            <4>1. k - 1 \in 1..m /\ Q[k-1] = P[k]
                BY <1>3, <3>2
            <4> QED BY <2>3, <4>1 DEF Is
        <3> QED BY <3>1, <3>2
    <2> QED BY <2>2, <2>3 DEF Does
<1>10. OpenBetween(Q)
    <2>1. SUFFICES ASSUME NEW i \in 1..m, NEW k \in 1..m, i < k, Q[k].kind = "team", Is(Q, i, "heads", Q[k].dept)
                   PROVE  \E j \in 1..m : i < j /\ j < k /\ Is(Q, j, "open", Q[k].dept)
        BY DEF OpenBetween, m
    <2> DEFINE a == i + 1
               b == k + 1
               d == Q[k].dept
    <2>2. a \in 1..n /\ b \in 1..n /\ a < b /\ P[a] = Q[i] /\ P[b] = Q[k]
        BY <1>1, <1>2, <2>1
    <2>3. \E j \in 1..n : a < j /\ j < b /\ Is(P, j, "open", d)
        <3>1. Is(P, a, "heads", d) /\ P[b].kind = "team" /\ P[b].dept = d
            <4> HIDE DEF a, b
            <4> QED BY <2>1, <2>2 DEF Is
        <3> HIDE DEF a, b, d
        <3> QED BY <2>2, <3>1 DEF Agenda, OpenBetween, n
    <2>4. PICK j \in 1..n : a < j /\ j < b /\ Is(P, j, "open", d)
        BY <2>3
    <2>5. j - 1 \in 1..m /\ Q[j-1] = P[j] /\ i < j - 1 /\ j - 1 < k
        BY <1>1, <1>3, <2>4
    <2> QED BY <2>4, <2>5 DEF Is
<1>11. AffinitiesLast(Q)
    <2>1. SUFFICES ASSUME NEW k \in 1..m PROVE Q[k].kind # "select" /\ (Q[k].kind = "affinities" <=> k = m)
        BY DEF AffinitiesLast, m
    <2> DEFINE i == k + 1
    <2>2. i \in 1..n /\ P[i] = Q[k] /\ (i = n <=> k = m)
        BY <1>1, <1>2
    <2> HIDE DEF i
    <2>3. P[i].kind # "select" /\ (P[i].kind = "affinities" <=> i = n)
        BY <2>2 DEF Agenda, AffinitiesLast, n
    <2> QED BY <2>2, <2>3
<1> QED BY <1>5, <1>6, <1>7, <1>8, <1>9, <1>10, <1>11 DEF Agenda

-----------------------------------------------------------------------------
(* Affinities while they are gathered.                                     *)

WeightIn(A, q) == IF q \in DOMAIN A THEN A[q] ELSE 0
Projects(N) == {q \in DOMAIN N : Of(N, q, "Project")}
Shared(N, E, a, b) ==
    {q \in Projects(N) : Has(E, "member_of", a, q) /\ Has(E, "member_of", b, q)}

\* Two of a project have one for it.
Weighing(N, E, A) ==
    /\ IsFiniteSet(Projects(N))
    /\ \A a, b : a # b => WeightIn(A, {a, b}) = Cardinality(Shared(N, E, a, b))
NoAffinities(E) == \A q : AffinityId(q) \notin DOMAIN E

LEMMA WeighingKept ==
    ASSUME NEW N, NEW E, NEW M, NEW F, NEW A, Weighing(N, E, A), SameOrg(N, M), SameLinks(E, F)
    PROVE  Weighing(M, F, A)
<1>1. Projects(M) = Projects(N)
    BY DEF Projects, SameOrg, Of
<1>2. ASSUME NEW a, NEW b PROVE Shared(M, F, a, b) = Shared(N, E, a, b)
    BY <1>1 DEF Shared, SameLinks
<1> QED BY <1>1, <1>2 DEF Weighing

-----------------------------------------------------------------------------
(* What merging adds to the organisation.                                  *)

LEMMA MergedOrg ==
    ASSUME NEW N, NEW ns, DOMAIN ns \cap DOMAIN N = {}
    PROVE  /\ \A n, type : Of(N ++ ns, n, type) <=> Of(N, n, type) \/ Of(ns, n, type)
           /\ \A p, d, u : Worker(N ++ ns, p, d, u) <=> Worker(N, p, d, u) \/ Worker(ns, p, d, u)
           /\ \A p, d : Employed(N ++ ns, p, d) <=> Employed(N, p, d) \/ Employed(ns, p, d)
           /\ \A n : n \in DOMAIN (N ++ ns) <=> n \in DOMAIN N \/ n \in DOMAIN ns
           /\ \A n, type, x : Of(N, n, type) => ~Of(ns, n, x)
<1> DEFINE M == N ++ ns
<1>1. \A n : /\ n \in DOMAIN M <=> n \in DOMAIN N \/ n \in DOMAIN ns
             /\ n \in DOMAIN N => n \notin DOMAIN ns /\ M[n] = N[n]
             /\ n \in DOMAIN ns => n \notin DOMAIN N /\ M[n] = ns[n]
    BY MergedAt
<1> HIDE DEF M
<1>2. /\ \A n, type : Of(M, n, type) <=> Of(N, n, type) \/ Of(ns, n, type)
      /\ \A n, type, x : Of(N, n, type) => ~Of(ns, n, x)
    BY <1>1 DEF Of
<1>3. \A p, d, u : Worker(M, p, d, u) <=> Worker(N, p, d, u) \/ Worker(ns, p, d, u)
    BY <1>1 DEF Of, Worker
<1>4. \A p, d : Employed(M, p, d) <=> Employed(N, p, d) \/ Employed(ns, p, d)
    BY <1>1 DEF Of, Employed
<1> QED BY <1>1, <1>2, <1>3, <1>4 DEF M

\* Nodes and edges of other kinds.
OtherNodes(ns) ==
    NodesOK(ns) /\ \A n \in DOMAIN ns : n[1] \notin {"person", "team", "project", "initiative"}
OtherEdges(es) ==
    \A t, a, b : Has(es, t, a, b) => t \notin {"leads", "part_of", "member_of", "reports_to"}

LEMMA OtherAdded ==
    ASSUME NEW N, NEW E, NEW ns, NEW es, DOMAIN ns \cap DOMAIN N = {}, OtherNodes(ns), OtherEdges(es)
    PROVE  SameOrg(N, N ++ ns) /\ SameLinks(E, E ++ es)
<1>1. \A n : ~Of(ns, n, "Person") /\ ~Of(ns, n, "Team") /\ ~Of(ns, n, "Project")
    BY DEF OtherNodes, NodesOK, IsNode, Tagged, Of
<1>2. \A d : Program(d) \notin DOMAIN ns
    BY DEF OtherNodes, Program
<1>3. SameOrg(N, N ++ ns)
    <2>1. /\ \A p, d, u : ~Worker(ns, p, d, u)
          /\ \A p, d : ~Employed(ns, p, d)
        BY <1>1 DEF Worker, Employed
    <2>2. \A n : \A type \in {"Person", "Team", "Project"} : ~Of(ns, n, type)
        BY <1>1
    <2> QED BY <1>2, <2>1, <2>2, MergedOrg DEF SameOrg
<1>4. SameLinks(E, E ++ es)
    <2>1. \A a, b : \A t \in {"leads", "part_of", "member_of", "reports_to"} : ~Has(es, t, a, b)
        BY DEF OtherEdges
    <2>2. \A a, b : Has(E, "member_of", a, b) => (E ++ es)[<<"member_of", a, b>>] = E[<<"member_of", a, b>>]
        BY MergedAt DEF Has
    <2> QED BY <2>1, <2>2, HasMerged DEF SameLinks
<1> QED BY <1>3, <1>4

Charted ==
    /\ Chart(world.nodes, world.edges)
    /\ \/ plan = <<Task("select", None, None)>> /\ world = EmptyWorld /\ affinity = <<>>
       \/ /\ Agenda(plan, world.nodes)
          /\ plan # <<>> => Weighing(world.nodes, world.edges, affinity) /\ NoAffinities(world.edges)
Org == ~raised /\ calls = <<>> => Charted

LEMMA EmptyChart == Chart(<<>>, <<>>) /\ Weighing(<<>>, <<>>, <<>>) /\ NoAffinities(<<>>)
<1>1. DOMAIN <<>> = {}
    OBVIOUS
<1>2. /\ \A n, type : ~Of(<<>>, n, type)
      /\ \A t, a, b : ~Has(<<>>, t, a, b)
    BY <1>1 DEF Of, Has
<1>3. /\ \A p, d, u : ~Worker(<<>>, p, d, u)
      /\ \A p, d : ~Employed(<<>>, p, d)
      /\ \A d : Program(d) \notin DOMAIN <<>>
    BY <1>1, <1>2 DEF Worker, Employed
<1>4. Belonging(<<>>, <<>>) /\ Leading(<<>>, <<>>) /\ Reporting(<<>>, <<>>) /\ Staffing(<<>>, <<>>)
    BY <1>1, <1>2, <1>3 DEF Belonging, Leading, Reporting, Staffing
<1>5. Projects(<<>>) = {} /\ \A a, b : Shared(<<>>, <<>>, a, b) = {}
    BY <1>1 DEF Projects, Shared
<1>6. IsFiniteSet({}) /\ Cardinality({}) = 0
    BY FS_EmptySet
<1> QED BY <1>1, <1>4, <1>5, <1>6 DEF Chart, Weighing, WeightIn, NoAffinities

LEMMA OrgInit == Init => Org
<1>1. SUFFICES ASSUME Init PROVE Charted
    BY DEF Org
<1>2. plan = <<Task("select", None, None)>> /\ world = EmptyWorld /\ affinity = <<>>
    BY <1>1 DEF Init, BuildInit
<1>3. world.nodes = <<>> /\ world.edges = <<>>
    BY <1>2 DEF EmptyWorld
<1> QED BY <1>2, <1>3, EmptyChart DEF Charted

LEMMA FirstAgenda ==
    ASSUME NEW P, Block(P), AffinitiesLast(P)
    PROVE  Agenda(P, <<>>)
<1>1. \A p, d : ~Employed(<<>>, p, d)
    BY DEF Employed, Of
<1> QED BY <1>1 DEF Agenda, Block, Opened, Begun, Headed, Covered, OpenFirst, TeamFirst, HeadsFirst

\* A step on the first task of a plan.
LEMMA TaskAgenda ==
    ASSUME Store, NEW kind, Doing(kind), plan' = Tail(plan), Agenda(plan, world.nodes),
           Does(Task1, world.nodes, world'.nodes)
    PROVE  Agenda(plan', world'.nodes)
<1>1. /\ Len(plan) \in Nat /\ Len(plan) # 0 /\ plan[1] = Task1
      /\ Len(Tail(plan)) = Len(plan) - 1
      /\ \A k \in 1..Len(Tail(plan)) : Tail(plan)[k] = plan[k+1]
    BY DoingFacts
<1> QED BY <1>1, AgendaKept

\* What a step finds.
LEMMA OrgFound ==
    ASSUME Store, Org, NEW kind, Doing(kind), kind # "select"
    PROVE  /\ Chart(world.nodes, world.edges) /\ Agenda(plan, world.nodes)
           /\ Weighing(world.nodes, world.edges, affinity) /\ NoAffinities(world.edges)
           /\ GraphOK(world) /\ Task1 \in Jobs /\ Task1.kind = kind
<1>1. plan # <<>> /\ ~raised /\ calls = <<>> /\ Task1 \in Jobs /\ Task1.kind = kind
    BY DoingFacts
<1>2. plan # <<Task("select", None, None)>>
    BY <1>1 DEF Task1, Task
<1> QED BY <1>1, <1>2 DEF Org, Charted, Store

-----------------------------------------------------------------------------
(* The steps that leave the organisation as it is.                         *)

LEMMA SelectOrg ==
    ASSUME Store, Org, SelectArchetypes, UNCHANGED calls
    PROVE  Org'
<1>1. ~raised /\ plan # <<>> /\ plan[1].kind = "select" /\ config \in Configs
      /\ Len(plan) \in Nat /\ 1 \in 1..Len(plan)
    BY DoingFacts DEF SelectArchetypes, Store
<1>2. CASE Raise
    BY <1>2 DEF Raise, Org
<1>3. ASSUME NEW F \in Departments, plan' = WholeOf(F), UNCHANGED <<config, world, affinity, raised>>,
             calls = <<>>, ~raised
      PROVE  Charted'
    <2>1. Charted
        BY <1>3 DEF Org
    <2>2. ~Agenda(plan, world.nodes)
        BY <1>1 DEF Agenda, AffinitiesLast
    <2>3. world = EmptyWorld /\ affinity = <<>>
        BY <2>1, <2>2 DEF Charted
    <2>4. world.nodes = <<>> /\ world.edges = <<>>
        BY <2>3 DEF EmptyWorld
    <2>5. Block(plan') /\ AffinitiesLast(plan')
        BY <1>3, WholePlan DEF Blocks
    <2>6. Agenda(plan', <<>>)
        BY <2>5, FirstAgenda
    <2> QED BY <1>3, <2>3, <2>4, <2>6, EmptyChart DEF Charted
<1>4. CASE ~Raise
    <2>1. (\E F \in Departments : plan' = WholeOf(F)) /\ UNCHANGED <<config, world, affinity, raised>>
        BY <1>1, <1>4, SelectPlans
    <2>2. PICK F \in Departments : plan' = WholeOf(F)
        BY <2>1
    <2> QED BY <1>1, <1>3, <2>1, <2>2 DEF Org
<1> QED BY <1>2, <1>4

LEMMA OtherOrg ==
    ASSUME Store, Org, UNCHANGED calls, NEW kind \in {"company", "open"}, Doing(kind), NEW ns, NEW es, Wrote(ns, es),
           OtherNodes(ns), OtherEdges(es), \A q : AffinityId(q) \notin DOMAIN es,
           kind = "open" => Dept(Task1.dept) \in DOMAIN ns
    PROVE  Org'
<1> DEFINE N == world.nodes
           E == world.edges
           M == N ++ ns
           F == E ++ es
<1>1. /\ Chart(N, E) /\ Agenda(plan, N) /\ Weighing(N, E, affinity) /\ NoAffinities(E)
      /\ GraphOK(world) /\ Task1 \in Jobs /\ Task1.kind = kind
    BY OrgFound
<1>2. /\ DOMAIN ns \cap DOMAIN N = {} /\ world'.nodes = M /\ world'.edges = F
      /\ plan' = Tail(plan) /\ UNCHANGED <<affinity, raised>>
    BY AddedFacts DEF Wrote, Taken
<1> HIDE DEF N, E, M, F
<1>3. SameOrg(N, M) /\ SameLinks(E, F)
    BY <1>2, OtherAdded DEF M, F
<1>4. Chart(M, F) /\ Weighing(M, F, affinity)
    BY <1>1, <1>3, ChartKept, WeighingKept
<1>5. NoAffinities(F)
    BY <1>1, MergedAt DEF NoAffinities, F
<1>6. Does(Task1, N, M)
    <2>1. /\ Task1.kind # "heads" /\ Task1.kind # "team"
          /\ Task1.kind = "open" => Dept(Task1.dept) \in DOMAIN ns
        BY <1>1
    <2>2. Task1.kind = "open" => Dept(Task1.dept) \in DOMAIN M /\ Program(Task1.dept) \notin DOMAIN M
        <3>1. SUFFICES ASSUME Task1.kind = "open"
                       PROVE  Dept(Task1.dept) \in DOMAIN M /\ Program(Task1.dept) \notin DOMAIN M
            OBVIOUS
        <3>2. Dept(Task1.dept) \in DOMAIN M /\ Dept(Task1.dept) \notin DOMAIN N
            BY <1>2, <2>1, <3>1, MergedAt DEF M
        <3>3. Program(Task1.dept) \notin DOMAIN N
            BY <1>1, <3>2, Ids DEF Chart, Leading, FirstTeam
        <3> QED BY <1>3, <3>2, <3>3 DEF SameOrg
    <2>3. \A d : Of(N, FirstTeam(d), "Team") => Of(M, FirstTeam(d), "Team")
        BY <1>3 DEF SameOrg
    <2> QED BY <1>3, <2>1, <2>2, <2>3 DEF Does, SameOrg
<1>7. Agenda(plan', M)
    BY <1>1, <1>2, <1>6, TaskAgenda DEF N
<1> QED BY <1>2, <1>4, <1>5, <1>7 DEF Org, Charted

LEMMA NoAffinityIn ==
    ASSUME NEW E, EdgesOK(E), \A e \in DOMAIN E : E[e].type # "collaborates_with"
    PROVE  \A q : AffinityId(q) \notin DOMAIN E
<1>1. SUFFICES ASSUME NEW q, AffinityId(q) \in DOMAIN E PROVE FALSE
    OBVIOUS
<1> DEFINE e == AffinityId(q)
           r == E[e]
<1>2. Keyed(e, r) /\ r.type # "collaborates_with"
    BY <1>1 DEF EdgesOK
<1> HIDE DEF r
<1>3. e = <<r.type, r.src, r.dst>> \/ e = <<"reviews_for", r.src, r.dst, r.at>>
    BY <1>2 DEF Keyed
<1> QED BY <1>3, AffinityIds

-----------------------------------------------------------------------------
(* The builder writes affinities last, and no relationships.               *)

Plainly(E) == \A e \in DOMAIN E : E[e].type \in Ordinary

LEMMA LinkPlainly == ASSUME NEW type \in Ordinary, NEW a, NEW b PROVE Plainly(Link(type, a, b))
BY DEF Plainly, Link, Edge

LEMMA LinksPlainly == ASSUME NEW type \in Ordinary, NEW S PROVE Plainly(Links(type, S))
BY DEF Plainly, Links

LEMMA MergePlainly == ASSUME NEW E, NEW F, Plainly(E), Plainly(F) PROVE Plainly(E ++ F)
<1>1. ASSUME NEW e \in DOMAIN (E ++ F) PROVE (E ++ F)[e].type \in Ordinary
    BY MergedAt DEF Plainly
<1> QED BY <1>1 DEF Plainly

LEMMA OwnedPlainly == ASSUME NEW d, NEW i PROVE Plainly(Owned(d, i))
<1> DEFINE A == Neighbors(world, Dept(d), "advances_goal", "out")
           S == {i} \X A
<1>1. "owns_initiative" \in Ordinary /\ "advances_goal" \in Ordinary
    BY DEF Ordinary
<1>2. Owned(d, i) = Link("owns_initiative", HeadOf(d), i) ++ Links("advances_goal", S)
    BY DEF Owned
<1> HIDE DEF S
<1> QED BY <1>1, <1>2, LinkPlainly, LinksPlainly, MergePlainly

LEMMA StaffedPlainly == ASSUME NEW h, NEW C, NEW R, NEW q PROVE Plainly(Staffed(h, C, R, q))
BY DEF Plainly, Staffed, Ordinary

LEMMA CompanyPlainly == Plainly(CompanyEdges)
<1> DEFINE S == {Company} \X Goals
           T == {<<Subgoal(i), Goal(i)>> : i \in {i \in 1..Sizes[config.size].goals : i % 2 = 1}}
<1>1. "owns" \in Ordinary /\ "subgoal_of" \in Ordinary
    BY DEF Ordinary
<1>2. CompanyEdges = Links("owns", S) ++ Links("subgoal_of", T)
    BY DEF CompanyEdges
<1> HIDE DEF S, T
<1> QED BY <1>1, <1>2, LinksPlainly, MergePlainly

LEMMA DeptPlainly == ASSUME NEW d, NEW G PROVE Plainly(DeptEdges(d, G))
<1> DEFINE S == {Dept(d)} \X G
<1>1. "has_department" \in Ordinary /\ "advances_goal" \in Ordinary
    BY DEF Ordinary
<1>2. DeptEdges(d, G) = Link("has_department", Company, Dept(d)) ++ Links("advances_goal", S)
    BY DEF DeptEdges
<1> HIDE DEF S
<1> QED BY <1>1, <1>2, LinkPlainly, LinksPlainly, MergePlainly

LEMMA TeamPlainly == ASSUME NEW d, NEW slug, NEW p, NEW n PROVE Plainly(TeamEdges(d, slug, p, n))
<1> DEFINE S == {<<p[i], Team(d, slug)>> : i \in 1..n}
           T == {<<p[i], p[1]>> : i \in 2..n}
           a == Link("part_of", Team(d, slug), Dept(d))
           b == Link("leads", p[1], Team(d, slug))
           c == Links("member_of", S)
           r == Links("reports_to", T)
<1>1. "part_of" \in Ordinary /\ "leads" \in Ordinary /\ "member_of" \in Ordinary /\ "reports_to" \in Ordinary
    BY DEF Ordinary
<1>2. TeamEdges(d, slug, p, n) = ((a ++ b) ++ c) ++ r
    BY DEF TeamEdges
<1> HIDE DEF S, T
<1>3. Plainly(a) /\ Plainly(b) /\ Plainly(c) /\ Plainly(r)
    BY <1>1, LinkPlainly, LinksPlainly
<1> HIDE DEF a, b, c, r
<1> QED BY <1>2, <1>3, MergePlainly

LEMMA HeadPlainly == ASSUME NEW d PROVE Plainly(HeadEdges(d))
<1> DEFINE S == {<<Lead(world, t), HeadOf(d)>> : t \in Teams(world, d)} \ {<<HeadOf(d), HeadOf(d)>>}
           a == Link("leads", HeadOf(d), Dept(d))
           b == Links("reports_to", S)
           c == Owned(d, Program(d))
<1>1. "leads" \in Ordinary /\ "reports_to" \in Ordinary
    BY DEF Ordinary
<1>2. HeadEdges(d) = (a ++ b) ++ c
    BY DEF HeadEdges
<1> HIDE DEF S
<1>3. Plainly(a) /\ Plainly(b) /\ Plainly(c)
    BY <1>1, LinkPlainly, LinksPlainly, OwnedPlainly
<1> HIDE DEF a, b, c
<1> QED BY <1>2, <1>3, MergePlainly

LEMMA ProjectPlainly == ASSUME NEW d, NEW i, NEW slug, NEW C PROVE Plainly(ProjectEdges(d, i, slug, C))
<1> DEFINE a == Link("subinitiative_of", i, Program(d))
           b == Owned(d, i)
           c == Link("under", Project(slug), i)
           r == Staffed(HeadOf(d), C, (Roster(world, d) \ {HeadOf(d)}) \ C, Project(slug))
<1>1. "subinitiative_of" \in Ordinary /\ "under" \in Ordinary
    BY DEF Ordinary
<1>2. ProjectEdges(d, i, slug, C) = ((a ++ b) ++ c) ++ r
    BY DEF ProjectEdges
<1>3. Plainly(a) /\ Plainly(b) /\ Plainly(c) /\ Plainly(r)
    BY <1>1, LinkPlainly, OwnedPlainly, StaffedPlainly
<1> HIDE DEF a, b, c, r
<1> QED BY <1>2, <1>3, MergePlainly

LEMMA PlainlyNoAffinity ==
    ASSUME NEW E, EdgesOK(E), Plainly(E)
    PROVE  \A q : AffinityId(q) \notin DOMAIN E
<1>1. \A e \in DOMAIN E : E[e].type # "collaborates_with"
    BY DEF Plainly, Ordinary
<1> QED BY <1>1, NoAffinityIn

LEMMA CompanyOrg ==
    ASSUME Store, Org, UNCHANGED calls, CompanyStep
    PROVE  Org'
<1>1. OtherNodes(CompanyNodes)
    BY CompanyWrites DEF OtherNodes
<1>2. OtherEdges(CompanyEdges)
    BY CompanyWrites DEF OtherEdges
<1>3. \A q : AffinityId(q) \notin DOMAIN CompanyEdges
    BY CompanyWrites, CompanyPlainly, PlainlyNoAffinity
<1>4. Doing("company") /\ Wrote(CompanyNodes, CompanyEdges)
    BY DEF CompanyStep
<1>5. "company" \in {"company", "open"} /\ "company" # "open"
    OBVIOUS
<1> QED BY <1>1, <1>2, <1>3, <1>4, <1>5, OtherOrg

LEMMA DeptOrg ==
    ASSUME Store, Org, UNCHANGED calls, NEW G, DeptStep(G)
    PROVE  Org'
<1> DEFINE d == Task1.dept
           ns == DeptNodes(d)
           es == DeptEdges(d, G)
<1>1. /\ NodesOK(ns) /\ DOMAIN ns = {Dept(d)} /\ EdgesOK(es)
      /\ \A t, a, b : Has(es, t, a, b) => t \in {"has_department", "advances_goal"}
    BY DeptWrites
<1>2. OtherNodes(ns)
    BY <1>1 DEF OtherNodes, Dept
<1>3. OtherEdges(es)
    BY <1>1 DEF OtherEdges
<1>4. Plainly(es)
    BY DeptPlainly
<1>5. Doing("open") /\ Wrote(ns, es)
    BY DEF DeptStep
<1> HIDE DEF ns, es
<1>6. \A q : AffinityId(q) \notin DOMAIN es
    BY <1>1, <1>4, PlainlyNoAffinity
<1>7. "open" \in {"company", "open"} /\ Dept(Task1.dept) \in DOMAIN ns
    BY <1>1
<1> QED BY <1>2, <1>3, <1>5, <1>6, <1>7, OtherOrg

-----------------------------------------------------------------------------
(* A team is staffed.                                                      *)

\* The lead has a name and number of its own in the team.
LEMMA StaffDistinct ==
    ASSUME GraphOK(world), NEW n \in Nat, NEW picks \in [1..n -> Names], NEW i \in 2..n
    PROVE  Staff(picks)[i] # Staff(picks)[1]
<1> DEFINE J(k) == {j \in 1..k : picks[j] = picks[k]}
           c(k) == Cardinality(Named(picks[k]))
           v(k) == c(k) + Cardinality(J(k))
<1>1. i \in 1..n /\ 1 \in 1..n /\ DOMAIN picks = 1..n /\ i \in Nat /\ 1 # i /\ 1 <= i
    OBVIOUS
<1>2. \A k \in 1..n : Staff(picks)[k] = Person(picks[k], v(k))
    BY DEF Staff
<1>3. SUFFICES ASSUME picks[i] = picks[1], v(i) = v(1) PROVE FALSE
    <2> HIDE DEF v
    <2> QED BY <1>1, <1>2 DEF Person
<1>4. c(i) = c(1) /\ c(1) \in Nat
    <2>1. Named(picks[1]) \subseteq People(world.nodes)
        BY DEF Named, NodesByType, People
    <2>2. IsFiniteSet(Named(picks[1]))
        BY <2>1, FS_Subset DEF GraphOK
    <2> QED BY <1>3, <2>2, FS_CardinalityType
<1>5. Cardinality(J(1)) = 1
    <2>1. J(1) = {1}
        OBVIOUS
    <2> QED BY <2>1, FS_Singleton
<1>6. Cardinality(J(i)) \in Nat /\ 2 <= Cardinality(J(i))
    <2>1. IsFiniteSet(1..i)
        BY <1>1, FS_Interval
    <2>2. J(i) \subseteq 1..i /\ {1, i} \subseteq J(i)
        BY <1>1, <1>3
    <2>3. IsFiniteSet(J(i))
        BY <2>1, <2>2, FS_Subset
    <2>4. Cardinality({1, i}) = 2
        BY <1>1, PairSize
    <2> HIDE DEF J
    <2>5. Cardinality({1, i}) <= Cardinality(J(i))
        BY <2>2, <2>3, FS_Subset
    <2> QED BY <2>3, <2>4, <2>5, FS_CardinalityType
<1> HIDE DEF J, c
<1> QED BY <1>3, <1>4, <1>5, <1>6

\* Everyone staffed is new, and the others report to the first.
NewTeam(N, E, d, slug, p, n, M, F) ==
    /\ Team(d, slug) \notin DOMAIN N /\ 1 \in 1..n
    /\ \A i \in 2..n : p[i] # p[1]
    /\ \A x, type : Of(M, x, type) <=>
           \/ Of(N, x, type)
           \/ x = Team(d, slug) /\ type = "Team"
           \/ type = "Person" /\ \E i \in 1..n : x = p[i]
    /\ \A i \in 1..n : p[i] \notin DOMAIN N
    /\ \A x, e, u : Worker(M, x, e, u) <=>
           Worker(N, x, e, u) \/ (e = d /\ u = slug /\ \E i \in 1..n : x = p[i])
    /\ \A x, e : Employed(M, x, e) <=> Employed(N, x, e) \/ (e = d /\ \E i \in 1..n : x = p[i])
    /\ \A e : Program(e) \in DOMAIN M <=> Program(e) \in DOMAIN N
    /\ \A e : Dept(e) \in DOMAIN M <=> Dept(e) \in DOMAIN N
    /\ \A a, b : Has(F, "part_of", a, b) <=> Has(E, "part_of", a, b) \/ (a = Team(d, slug) /\ b = Dept(d))
    /\ \A a, b : Has(F, "leads", a, b) <=> Has(E, "leads", a, b) \/ (a = p[1] /\ b = Team(d, slug))
    /\ \A a, b : Has(F, "member_of", a, b) <=>
           Has(E, "member_of", a, b) \/ (b = Team(d, slug) /\ \E i \in 1..n : a = p[i])
    /\ \A a, b : Has(F, "reports_to", a, b) <=>
           Has(E, "reports_to", a, b) \/ (b = p[1] /\ \E i \in 2..n : a = p[i])
    /\ \A a, b : Has(E, "member_of", a, b) => F[<<"member_of", a, b>>] = E[<<"member_of", a, b>>]

LEMMA TeamAdded ==
    ASSUME Store, NEW d, NEW shape, NEW n, NEW picks, TeamStep(d, shape, n, picks)
    PROVE  NewTeam(world.nodes, world.edges, d, shape.slug, Staff(picks), n, world'.nodes, world'.edges)
<1> DEFINE N == world.nodes
           E == world.edges
           p == Staff(picks)
           slug == shape.slug
           ns == TeamNodes(d, slug, p, n)
           es == TeamEdges(d, slug, p, n)
           P == {p[i] : i \in 1..n}
           M == N ++ ns
           F == E ++ es
<1>1. n \in Nat /\ 1 <= n /\ (\A i \in 1..n : p[i][1] = "person") /\ 1 \in 1..n
    BY TeamStepFacts
<1>2. \A i \in 2..n : p[i] # p[1]
    BY <1>1, StaffDistinct DEF TeamStep, Store
<1>3. /\ DOMAIN ns \cap DOMAIN N = {} /\ world'.nodes = M /\ world'.edges = F
    <2>1. Wrote(ns, es)
        BY DEF TeamStep
    <2> HIDE DEF ns, es
    <2> QED BY <2>1, AddedFacts DEF Wrote, Taken
<1> HIDE DEF p, slug, N, E
<1>15. TeamWritten(d, slug, p, n, ns, es)
    BY <1>1, TeamWrites
<1> HIDE DEF ns, es
<1>4. /\ DOMAIN ns = {Team(d, slug)} \cup P /\ ns[Team(d, slug)].type = "Team"
      /\ \A x \in P : ns[x].type = "Person" /\ ns[x].props.department = d /\ ns[x].props.unit = slug
      /\ \A t, a, b : Has(es, t, a, b) <=>
             \/ t = "part_of" /\ a = Team(d, slug) /\ b = Dept(d)
             \/ t = "leads" /\ a = p[1] /\ b = Team(d, slug)
             \/ t = "member_of" /\ b = Team(d, slug) /\ \E i \in 1..n : a = p[i]
             \/ t = "reports_to" /\ b = p[1] /\ \E i \in 2..n : a = p[i]
    BY <1>15 DEF TeamWritten
<1>5. \A x \in P : x[1] = "person" /\ x # Team(d, slug)
    BY <1>1, Ids
<1>6. \A e : Program(e) \notin P /\ Dept(e) \notin P /\ Program(e) # Team(d, slug) /\ Dept(e) # Team(d, slug)
    BY <1>5, Ids DEF Program, Dept
<1>7. \A x : x \in P <=> \E i \in 1..n : x = p[i]
    OBVIOUS
<1> HIDE DEF ns, es, P
<1>8. /\ \A x, type : Of(M, x, type) <=> Of(N, x, type) \/ Of(ns, x, type)
      /\ \A x, e, u : Worker(M, x, e, u) <=> Worker(N, x, e, u) \/ Worker(ns, x, e, u)
      /\ \A x, e : Employed(M, x, e) <=> Employed(N, x, e) \/ Employed(ns, x, e)
      /\ \A x : x \in DOMAIN M <=> x \in DOMAIN N \/ x \in DOMAIN ns
    BY <1>3, MergedOrg
<1>9. /\ \A x, type : Of(ns, x, type) <=> (x = Team(d, slug) /\ type = "Team") \/ (type = "Person" /\ x \in P)
      /\ \A x, e, u : Worker(ns, x, e, u) <=> e = d /\ u = slug /\ x \in P
      /\ \A x, e : Employed(ns, x, e) <=> e = d /\ x \in P
    <2>1. \A x, type : Of(ns, x, type) <=> (x = Team(d, slug) /\ type = "Team") \/ (type = "Person" /\ x \in P)
        BY <1>4, <1>5 DEF Of
    <2>2. \A x : Of(ns, x, "Person") <=> x \in P
        BY <2>1
    <2> QED BY <1>4, <2>1, <2>2 DEF Worker, Employed
<1>10. Team(d, slug) \notin DOMAIN N /\ \A i \in 1..n : p[i] \notin DOMAIN N
    BY <1>3, <1>4, <1>7
<1>11. \A e : /\ Program(e) \in DOMAIN M <=> Program(e) \in DOMAIN N
              /\ Dept(e) \in DOMAIN M <=> Dept(e) \in DOMAIN N
    BY <1>4, <1>6, <1>8
<1>12. \A t, a, b : Has(F, t, a, b) <=> Has(E, t, a, b) \/ Has(es, t, a, b)
    BY HasMerged
<1>13. \A a, b : Has(E, "member_of", a, b) => F[<<"member_of", a, b>>] = E[<<"member_of", a, b>>]
    BY MergedAt DEF Has
<1> HIDE DEF M, F
<1>14. NewTeam(N, E, d, slug, p, n, M, F)
    <2>1. /\ \A a, b : Has(F, "part_of", a, b) <=> Has(E, "part_of", a, b) \/ (a = Team(d, slug) /\ b = Dept(d))
          /\ \A a, b : Has(F, "leads", a, b) <=> Has(E, "leads", a, b) \/ (a = p[1] /\ b = Team(d, slug))
          /\ \A a, b : Has(F, "member_of", a, b) <=>
                 Has(E, "member_of", a, b) \/ (b = Team(d, slug) /\ \E i \in 1..n : a = p[i])
          /\ \A a, b : Has(F, "reports_to", a, b) <=>
                 Has(E, "reports_to", a, b) \/ (b = p[1] /\ \E i \in 2..n : a = p[i])
        BY <1>4, <1>12
    <2>2. /\ \A x, type : Of(M, x, type) <=>
                 \/ Of(N, x, type)
                 \/ x = Team(d, slug) /\ type = "Team"
                 \/ type = "Person" /\ \E i \in 1..n : x = p[i]
          /\ \A x, e, u : Worker(M, x, e, u) <=>
                 Worker(N, x, e, u) \/ (e = d /\ u = slug /\ \E i \in 1..n : x = p[i])
          /\ \A x, e : Employed(M, x, e) <=> Employed(N, x, e) \/ (e = d /\ \E i \in 1..n : x = p[i])
        BY <1>7, <1>8, <1>9
    <2> QED BY <1>1, <1>2, <1>10, <1>11, <1>13, <2>1, <2>2 DEF NewTeam
<1> QED BY <1>3, <1>14 DEF N, E, p, slug

LEMMA TeamChart ==
    ASSUME NEW N, NEW E, NEW d, NEW slug, NEW p, NEW n, NEW M, NEW F, Chart(N, E),
           NewTeam(N, E, d, slug, p, n, M, F), Dept(d) \in DOMAIN N, Program(d) \notin DOMAIN N
    PROVE  Chart(M, F)
<1> DEFINE t == Team(d, slug)
           New(x) == \E i \in 1..n : x = p[i]
<1>1. /\ \A x, type : Of(M, x, type) <=> Of(N, x, type) \/ (x = t /\ type = "Team") \/ (type = "Person" /\ New(x))
      /\ \A x, e, u : Worker(M, x, e, u) <=> Worker(N, x, e, u) \/ (e = d /\ u = slug /\ New(x))
      /\ \A x, e : Employed(M, x, e) <=> Employed(N, x, e) \/ (e = d /\ New(x))
      /\ \A e : Program(e) \in DOMAIN M <=> Program(e) \in DOMAIN N
      /\ \A e : Dept(e) \in DOMAIN M <=> Dept(e) \in DOMAIN N
    BY DEF NewTeam
<1>2. /\ \A a, b : Has(F, "part_of", a, b) <=> Has(E, "part_of", a, b) \/ (a = t /\ b = Dept(d))
      /\ \A a, b : Has(F, "leads", a, b) <=> Has(E, "leads", a, b) \/ (a = p[1] /\ b = t)
      /\ \A a, b : Has(F, "member_of", a, b) <=> Has(E, "member_of", a, b) \/ (b = t /\ New(a))
      /\ \A a, b : Has(E, "member_of", a, b) => F[<<"member_of", a, b>>] = E[<<"member_of", a, b>>]
    BY DEF NewTeam
<1>3. \A a, b : Has(F, "reports_to", a, b) <=> Has(E, "reports_to", a, b) \/ (b = p[1] /\ a # p[1] /\ New(a))
    <2>1. \A a : (\E i \in 2..n : a = p[i]) <=> a # p[1] /\ New(a)
        <3>1. \A i \in 1..n : i = 1 \/ i \in 2..n
            OBVIOUS
        <3>2. \A i \in 2..n : i \in 1..n /\ p[i] # p[1]
            BY DEF NewTeam
        <3> QED BY <3>1, <3>2
    <2> QED BY <2>1 DEF NewTeam
<1>4. New(p[1]) /\ t \notin DOMAIN N /\ \A x : New(x) => x \notin DOMAIN N
    BY DEF NewTeam
<1> HIDE DEF New
\* Nothing was related to what is new.
<1>5. /\ \A x, e, u : Worker(N, x, e, u) => ~New(x) /\ ~(e = d /\ u = slug)
      /\ \A x, e : Employed(N, x, e) => ~New(x)
      /\ \A x, type : Of(N, x, type) => ~New(x) /\ x # t
    <2>1. \A x, type : Of(N, x, type) => ~New(x) /\ x # t
        BY <1>4 DEF Of
    <2>2. \A x, e, u : Worker(N, x, e, u) => ~New(x) /\ ~(e = d /\ u = slug)
        BY <2>1 DEF Chart, Belonging, Worker
    <2> QED BY <2>1, <2>2 DEF Employed
<1>6. /\ \A x : ~Has(E, "leads", x, t)
      /\ \A x : ~Has(E, "member_of", x, t)
    BY <1>5 DEF Chart, Leading, Belonging
<1>7. Belonging(M, F)
    <2>1. ASSUME NEW x, NEW e, NEW u, Worker(M, x, e, u) PROVE Of(M, Team(e, u), "Team")
        BY <1>1, <2>1 DEF Chart, Belonging
    <2>2. ASSUME NEW x, NEW e, NEW u PROVE Has(F, "member_of", x, Team(e, u)) <=> Worker(M, x, e, u)
        BY <1>1, <1>2, Ids DEF Chart, Belonging
    <2>3. ASSUME NEW x, NEW y, Has(F, "member_of", x, y)
          PROVE  Of(M, x, "Person") /\ (Of(M, y, "Team") \/ Of(M, y, "Project"))
        BY <1>1, <1>2, <2>3 DEF Chart, Belonging
    <2> QED BY <2>1, <2>2, <2>3 DEF Belonging
<1>8. Leading(M, F)
    <2>1. ASSUME NEW e, NEW u, Of(M, Team(e, u), "Team")
          PROVE  Dept(e) \in DOMAIN M /\ \E x : Has(F, "leads", x, Team(e, u))
        BY <1>1, <1>2, <2>1, Ids DEF Chart, Leading
    <2>2. ASSUME NEW x, NEW e, NEW u, Has(F, "leads", x, Team(e, u)) PROVE Worker(M, x, e, u)
        BY <1>1, <1>2, <1>4, <2>2, Ids DEF Chart, Leading
    <2>3. ASSUME NEW x, NEW y, NEW z, Has(F, "leads", x, z), Has(F, "leads", y, z) PROVE x = y
        BY <1>2, <1>6, <2>3 DEF Chart, Leading
    <2>4. ASSUME NEW x, NEW e
          PROVE  Has(F, "leads", x, Dept(e)) <=> Program(e) \in DOMAIN M /\ Has(F, "leads", x, FirstTeam(e))
        <3>1. Has(F, "leads", x, Dept(e)) <=> Has(E, "leads", x, Dept(e))
            BY <1>2, Ids
        <3>2. Program(e) \in DOMAIN M => FirstTeam(e) # t
            BY <1>1, Ids DEF FirstTeam
        <3> QED BY <1>1, <1>2, <3>1, <3>2 DEF Chart, Leading
    <2>5. ASSUME NEW x, NEW e
          PROVE  Has(F, "part_of", x, Dept(e)) <=> Of(M, x, "Team") /\ \E u : x = Team(e, u)
        BY <1>1, <1>2, Ids DEF Chart, Leading
    <2>6. ASSUME NEW e, Program(e) \in DOMAIN M PROVE Of(M, FirstTeam(e), "Team")
        BY <1>1, <2>6 DEF Chart, Leading
    <2> QED BY <2>1, <2>2, <2>3, <2>4, <2>5, <2>6 DEF Leading
<1>9. Reporting(M, F)
    <2>1. SUFFICES ASSUME NEW x, NEW y
                   PROVE  Has(F, "reports_to", x, y) <=>
                              x # y /\ \E e, u : Worker(M, x, e, u) /\ Manages(M, F, x, y, e, u)
        BY DEF Reporting
    <2>2. CASE New(x)
        <3>1. \A e, u : Worker(M, x, e, u) <=> e = d /\ u = slug
            BY <1>1, <1>5, <2>2
        <3>2. Manages(M, F, x, y, d, slug) <=> y = p[1]
            BY <1>1, <1>2, <1>6 DEF Manages
        <3>3. ~Has(E, "reports_to", x, y)
            BY <1>5, <2>2 DEF Chart, Reporting
        <3> QED BY <1>3, <2>2, <3>1, <3>2, <3>3
    <2>3. CASE ~New(x)
        <3>1. \A e, u : Worker(M, x, e, u) <=> Worker(N, x, e, u)
            BY <1>1, <2>3
        <3>2. ASSUME NEW e, NEW u, Worker(N, x, e, u) PROVE Manages(M, F, x, y, e, u) <=> Manages(N, E, x, y, e, u)
            <4>1. Team(e, u) # t
                BY <1>5, <3>2, Ids
            <4>2. Program(e) \in DOMAIN N => FirstTeam(e) # t
                BY Ids DEF FirstTeam
            <4> QED BY <1>1, <1>2, <4>1, <4>2 DEF Manages
        <3>3. Has(F, "reports_to", x, y) <=> Has(E, "reports_to", x, y)
            BY <1>3, <2>3
        <3> QED BY <3>1, <3>2, <3>3 DEF Chart, Reporting
    <2> QED BY <2>2, <2>3
<1>10. Staffing(M, F)
    <2>1. ASSUME NEW q, Of(N, q, "Project"), NEW e, StaffedBy(N, E, q, e) PROVE StaffedBy(M, F, q, e)
        <3>1. q # t /\ Program(e) \in DOMAIN N /\ e # d /\ FirstTeam(e) # t
            BY <1>5, <2>1, Ids DEF StaffedBy, FirstTeam
        <3>2. \A x : Employed(M, x, e) <=> Employed(N, x, e)
            BY <1>1, <3>1
        <3>3. \A x : Has(F, "member_of", x, q) <=> Has(E, "member_of", x, q)
            BY <1>2, <3>1
        <3>4. \A x : Has(F, "leads", x, FirstTeam(e)) <=> Has(E, "leads", x, FirstTeam(e))
            BY <1>2, <3>1
        <3> QED BY <1>1, <1>2, <2>1, <3>1, <3>2, <3>3, <3>4 DEF StaffedBy
    <2>2. \A q : Of(M, q, "Project") => Of(N, q, "Project")
        BY <1>1
    <2> QED BY <2>1, <2>2 DEF Chart, Staffing
<1> QED BY <1>7, <1>8, <1>9, <1>10 DEF Chart

LEMMA TeamOrg ==
    ASSUME Store, Org, UNCHANGED calls, NEW d, NEW shape, NEW n, NEW picks, TeamStep(d, shape, n, picks)
    PROVE  Org'
<1> DEFINE N == world.nodes
           E == world.edges
           M == world'.nodes
           F == world'.edges
           p == Staff(picks)
           slug == shape.slug
           es == TeamEdges(d, slug, p, n)
<1>1. Doing("team") /\ d = Task1.dept /\ shape = Archetypes[d].teams[Task1.arg]
      /\ plan' = Tail(plan) /\ UNCHANGED <<affinity, raised>> /\ world'.edges = E ++ es
    <2>1. Wrote(TeamNodes(d, slug, p, n), es)
        BY DEF TeamStep
    <2>2. Doing("team") /\ d = Task1.dept /\ shape = Archetypes[d].teams[Task1.arg]
        BY DEF TeamStep
    <2> HIDE DEF es
    <2> QED BY <2>1, <2>2, AddedFacts DEF Wrote
<1>2. /\ Chart(N, E) /\ Agenda(plan, N) /\ Weighing(N, E, affinity) /\ NoAffinities(E)
      /\ GraphOK(world) /\ Task1 \in Jobs /\ Task1.kind = "team"
    BY <1>1, OrgFound
<1>3. NewTeam(N, E, d, slug, p, n, M, F)
    BY TeamAdded
<1>4. Dept(d) \in DOMAIN N /\ Program(d) \notin DOMAIN N
    <2>1. Len(plan) \in Nat /\ 1 \in 1..Len(plan) /\ plan[1] = Task1
        BY <1>1, DoingFacts
    <2>2. ~\E j \in 1..Len(plan) : j < 1 /\ Is(plan, j, "open", d)
        BY <2>1
    <2> QED BY <1>1, <1>2, <2>1, <2>2 DEF Agenda, Opened
<1>5. NoAffinities(F)
    <2>1. TeamWritten(d, slug, p, n, TeamNodes(d, slug, p, n), es)
        BY TeamStepFacts, TeamWrites
    <2>2. Plainly(es) /\ EdgesOK(es)
        BY <2>1, TeamPlainly DEF TeamWritten
    <2> HIDE DEF es
    <2>3. \A q : AffinityId(q) \notin DOMAIN es
        BY <2>2, PlainlyNoAffinity
    <2> QED BY <1>1, <1>2, <2>3, MergedAt DEF NoAffinities
<1> HIDE DEF N, E, M, F, p, slug, es
<1>6. Chart(M, F)
    BY <1>2, <1>3, <1>4, TeamChart
<1>7. Weighing(M, F, affinity)
    <2>1. \A q : Of(M, q, "Project") <=> Of(N, q, "Project")
        BY <1>3 DEF NewTeam
    <2>2. Projects(M) = Projects(N)
        BY <2>1 DEF Projects, Of
    <2>3. \A q \in Projects(N) : q # Team(d, slug)
        BY <1>3 DEF Projects, NewTeam
    <2>4. ASSUME NEW a, NEW q \in Projects(N) PROVE Has(F, "member_of", a, q) <=> Has(E, "member_of", a, q)
        BY <1>3, <2>3 DEF NewTeam
    <2>5. ASSUME NEW a, NEW b PROVE Shared(M, F, a, b) = Shared(N, E, a, b)
        BY <2>2, <2>4 DEF Shared
    <2> QED BY <1>2, <2>2, <2>5 DEF Weighing
<1>8. Does(Task1, N, M)
    <2>1. Task1.arg = 1 => Of(M, FirstTeam(d), "Team")
        <3>1. SUFFICES ASSUME Task1.arg = 1 PROVE Of(M, FirstTeam(d), "Team")
            OBVIOUS
        <3>2. FirstTeam(d) = Team(d, slug)
            BY <1>1, <3>1 DEF FirstTeam, slug
        <3> QED BY <1>3, <3>2 DEF NewTeam
    <2>2. \A x, e : Employed(M, x, e) => Employed(N, x, e) \/ e = d
        BY <1>3 DEF NewTeam
    <2>3. \A e : Of(N, FirstTeam(e), "Team") => Of(M, FirstTeam(e), "Team")
        BY <1>3 DEF NewTeam
    <2>4. /\ \A e : Program(e) \in DOMAIN M <=> Program(e) \in DOMAIN N
          /\ \A e : Dept(e) \in DOMAIN N => Dept(e) \in DOMAIN M
        BY <1>3 DEF NewTeam
    <2> QED BY <1>1, <1>2, <2>1, <2>2, <2>3, <2>4 DEF Does
<1>9. Agenda(plan', M)
    BY <1>1, <1>2, <1>8, TaskAgenda DEF N, M
<1> QED BY <1>1, <1>5, <1>6, <1>7, <1>9 DEF Org, Charted, M, F

-----------------------------------------------------------------------------
(* A head is appointed.                                                    *)

LEMMA TeamsKnown ==
    ASSUME GraphOK(world), Chart(world.nodes, world.edges), NEW d
    PROVE  \A t : t \in Teams(world, d) <=> Of(world.nodes, t, "Team") /\ \E u : t = Team(d, u)
<1> DEFINE E == world.edges
<1>1. "part_of" \in Ordinary /\ EdgesOK(E)
    BY DEF Ordinary, GraphOK
<1>2. /\ \A a, b : <<"part_of", a, b>> \in DOMAIN E =>
             /\ E[<<"part_of", a, b>>].type = "part_of"
             /\ E[<<"part_of", a, b>>].src = a /\ E[<<"part_of", a, b>>].dst = b
      /\ \A e \in DOMAIN E : E[e].type = "part_of" => e = <<"part_of", E[e].src, E[e].dst>>
    <2> HIDE DEF E
    <2> QED BY <1>1, EdgeNamed
<1>3. \A t : t \in Teams(world, d) <=> Has(E, "part_of", t, Dept(d))
    <2>1. ASSUME NEW t, t \in Teams(world, d) PROVE Has(E, "part_of", t, Dept(d))
        <3>1. PICK e \in InEdges(world, Dept(d), "part_of") : t = E[e].src
            BY <2>1 DEF Teams
        <3> QED BY <1>2, <3>1 DEF InEdges, Has
    <2>2. ASSUME NEW t, Has(E, "part_of", t, Dept(d)) PROVE t \in Teams(world, d)
        <3> DEFINE e == <<"part_of", t, Dept(d)>>
        <3>1. e \in DOMAIN E /\ E[e].type = "part_of" /\ E[e].src = t /\ E[e].dst = Dept(d)
            BY <1>2, <2>2 DEF Has
        <3> HIDE DEF e
        <3> QED BY <3>1 DEF Teams, InEdges
    <2> QED BY <2>1, <2>2
<1> QED BY <1>3 DEF Chart, Leading

NewHead(N, E, d, h, M, F) ==
    /\ Program(d) \notin DOMAIN N
    /\ \A x : /\ Of(M, x, "Person") <=> Of(N, x, "Person")
              /\ Of(M, x, "Team") <=> Of(N, x, "Team")
              /\ Of(M, x, "Project") <=> Of(N, x, "Project")
    /\ \A x, e, u : Worker(M, x, e, u) <=> Worker(N, x, e, u)
    /\ \A x, e : Employed(M, x, e) <=> Employed(N, x, e)
    /\ \A e : Program(e) \in DOMAIN M <=> Program(e) \in DOMAIN N \/ e = d
    /\ \A e : Dept(e) \in DOMAIN N => Dept(e) \in DOMAIN M
    /\ \A a, b : Has(F, "part_of", a, b) <=> Has(E, "part_of", a, b)
    /\ \A a, b : Has(F, "member_of", a, b) <=> Has(E, "member_of", a, b)
    /\ \A a, b : Has(E, "member_of", a, b) => F[<<"member_of", a, b>>] = E[<<"member_of", a, b>>]
    /\ \A a, b : Has(F, "leads", a, b) <=> Has(E, "leads", a, b) \/ (a = h /\ b = Dept(d))
    /\ \A a, b : Has(F, "reports_to", a, b) <=>
           \/ Has(E, "reports_to", a, b)
           \/ b = h /\ a # h /\ \E u : Of(N, Team(d, u), "Team") /\ Has(E, "leads", a, Team(d, u))

LEMMA HeadAdded ==
    ASSUME Store, Chart(world.nodes, world.edges), NEW d, HeadStep(d)
    PROVE  NewHead(world.nodes, world.edges, d, HeadOf(d), world'.nodes, world'.edges)
<1> DEFINE N == world.nodes
           E == world.edges
           h == HeadOf(d)
           K == Marked(d).nodes
           ns == HeadNodes(d)
           es == HeadEdges(d)
           M == K ++ ns
           F == E ++ es
<1>1. GraphOK(world) /\ Marked(d).edges = E /\ SameNodes(N, K)
    BY MarkedFacts DEF Store
<1>2. DOMAIN ns \cap DOMAIN K = {} /\ world'.nodes = M /\ world'.edges = F
    <2>1. ~Taken(Marked(d), ns, es) /\ world' = Added(Marked(d), ns, es)
        BY DEF HeadStep
    <2> HIDE DEF ns, es
    <2> QED BY <1>1, <2>1, AddedFacts DEF Taken
<1>3. /\ DOMAIN ns = {Program(d)} /\ ns[Program(d)].type = "Initiative"
      /\ \A t, a, b : Has(es, t, a, b) => t \in {"leads", "reports_to", "owns_initiative", "advances_goal"}
      /\ \A a, b : Has(es, "leads", a, b) <=> a = h /\ b = Dept(d)
      /\ \A a, b : Has(es, "reports_to", a, b) <=> b = h /\ a # h /\ \E x \in Teams(world, d) : a = Lead(world, x)
    BY HeadWrites
<1>4. \A a : (\E x \in Teams(world, d) : a = Lead(world, x)) <=>
                 \E u : Of(N, Team(d, u), "Team") /\ Has(E, "leads", a, Team(d, u))
    <2>1. \A x : x \in Teams(world, d) <=> Of(N, x, "Team") /\ \E u : x = Team(d, u)
        BY <1>1, TeamsKnown
    <2>2. ASSUME NEW u, Of(N, Team(d, u), "Team")
          PROVE  \A a : Has(E, "leads", a, Team(d, u)) <=> a = Lead(world, Team(d, u))
        BY <1>1, <2>2, LeadKnown
    <2> QED BY <2>1, <2>2
<1> HIDE DEF N, E, h, K, ns, es
<1>5. /\ \A x, type : Of(M, x, type) <=> Of(K, x, type) \/ Of(ns, x, type)
      /\ \A x, e, u : Worker(M, x, e, u) <=> Worker(K, x, e, u) \/ Worker(ns, x, e, u)
      /\ \A x, e : Employed(M, x, e) <=> Employed(K, x, e) \/ Employed(ns, x, e)
      /\ \A x : x \in DOMAIN M <=> x \in DOMAIN K \/ x \in DOMAIN ns
    BY <1>2, MergedOrg
<1>6. /\ \A x, type : Of(K, x, type) <=> Of(N, x, type)
      /\ \A x, e, u : Worker(K, x, e, u) <=> Worker(N, x, e, u)
      /\ \A x, e : Employed(K, x, e) <=> Employed(N, x, e)
      /\ DOMAIN K = DOMAIN N
    BY <1>1 DEF SameNodes, Of, Worker, Employed
<1>7. /\ \A x : ~Of(ns, x, "Person") /\ ~Of(ns, x, "Team") /\ ~Of(ns, x, "Project")
      /\ \A x, e, u : ~Worker(ns, x, e, u)
      /\ \A x, e : ~Employed(ns, x, e)
    BY <1>3 DEF Of, Worker, Employed
<1>8. \A t, a, b : Has(F, t, a, b) <=> Has(E, t, a, b) \/ Has(es, t, a, b)
    BY HasMerged
<1>9. \A a, b : Has(E, "member_of", a, b) => F[<<"member_of", a, b>>] = E[<<"member_of", a, b>>]
    BY MergedAt DEF Has
<1>10. \A a, b : ~Has(es, "part_of", a, b) /\ ~Has(es, "member_of", a, b)
    BY <1>3
<1>11. Program(d) \notin DOMAIN N
    BY <1>2, <1>3, <1>6
<1>12. /\ \A e : Program(e) \in DOMAIN M <=> Program(e) \in DOMAIN N \/ e = d
       /\ \A e : Dept(e) \in DOMAIN N => Dept(e) \in DOMAIN M
    BY <1>3, <1>5, <1>6, Ids
<1> HIDE DEF M, F
<1>13. NewHead(N, E, d, h, M, F)
    BY <1>3, <1>4, <1>5, <1>6, <1>7, <1>8, <1>9, <1>10, <1>11, <1>12 DEF NewHead
<1> QED BY <1>2, <1>13 DEF N, E, h

LEMMA HeadChart ==
    ASSUME NEW N, NEW E, NEW d, NEW h, NEW M, NEW F, Chart(N, E), NewHead(N, E, d, h, M, F),
           Of(N, FirstTeam(d), "Team"), \A p : Has(E, "leads", p, FirstTeam(d)) <=> p = h
    PROVE  Chart(M, F)
<1>1. /\ \A x : /\ Of(M, x, "Person") <=> Of(N, x, "Person")
                /\ Of(M, x, "Team") <=> Of(N, x, "Team")
                /\ Of(M, x, "Project") <=> Of(N, x, "Project")
      /\ \A x, e, u : Worker(M, x, e, u) <=> Worker(N, x, e, u)
      /\ \A x, e : Employed(M, x, e) <=> Employed(N, x, e)
      /\ \A e : Program(e) \in DOMAIN M <=> Program(e) \in DOMAIN N \/ e = d
      /\ \A e : Dept(e) \in DOMAIN N => Dept(e) \in DOMAIN M
      /\ Program(d) \notin DOMAIN N
    BY DEF NewHead
<1>2. /\ \A a, b : Has(F, "part_of", a, b) <=> Has(E, "part_of", a, b)
      /\ \A a, b : Has(F, "member_of", a, b) <=> Has(E, "member_of", a, b)
      /\ \A a, b : Has(E, "member_of", a, b) => F[<<"member_of", a, b>>] = E[<<"member_of", a, b>>]
      /\ \A a, b : Has(F, "leads", a, b) <=> Has(E, "leads", a, b) \/ (a = h /\ b = Dept(d))
      /\ \A a, b : Has(F, "reports_to", a, b) <=>
             \/ Has(E, "reports_to", a, b)
             \/ b = h /\ a # h /\ \E u : Of(N, Team(d, u), "Team") /\ Has(E, "leads", a, Team(d, u))
    BY DEF NewHead
<1>3. \A x, e, u : Has(F, "leads", x, Team(e, u)) <=> Has(E, "leads", x, Team(e, u))
    BY <1>2, Ids
<1>4. \A x, e : Has(F, "leads", x, FirstTeam(e)) <=> Has(E, "leads", x, FirstTeam(e))
    BY <1>3 DEF FirstTeam
<1>5. \A x : ~Has(E, "leads", x, Dept(d))
    BY <1>1 DEF Chart, Leading
<1>6. Belonging(M, F)
    BY <1>1, <1>2 DEF Chart, Belonging
<1>7. Leading(M, F)
    <2>1. ASSUME NEW e, NEW u, Of(M, Team(e, u), "Team")
          PROVE  Dept(e) \in DOMAIN M /\ \E x : Has(F, "leads", x, Team(e, u))
        BY <1>1, <1>3, <2>1 DEF Chart, Leading
    <2>2. ASSUME NEW x, NEW e, NEW u, Has(F, "leads", x, Team(e, u)) PROVE Worker(M, x, e, u)
        BY <1>1, <1>3, <2>2 DEF Chart, Leading
    <2>3. ASSUME NEW x, NEW y, NEW z, Has(F, "leads", x, z), Has(F, "leads", y, z) PROVE x = y
        BY <1>2, <1>5, <2>3 DEF Chart, Leading
    <2>4. ASSUME NEW x, NEW e
          PROVE  Has(F, "leads", x, Dept(e)) <=> Program(e) \in DOMAIN M /\ Has(F, "leads", x, FirstTeam(e))
        <3>1. CASE e = d
            BY <1>1, <1>2, <1>4, <1>5, <3>1
        <3>2. CASE e # d
            <4>1. Has(F, "leads", x, Dept(e)) <=> Has(E, "leads", x, Dept(e))
                BY <1>2, <3>2, Ids
            <4> QED BY <1>1, <1>4, <3>2, <4>1 DEF Chart, Leading
        <3> QED BY <3>1, <3>2
    <2>5. ASSUME NEW x, NEW e
          PROVE  Has(F, "part_of", x, Dept(e)) <=> Of(M, x, "Team") /\ \E u : x = Team(e, u)
        BY <1>1, <1>2 DEF Chart, Leading
    <2>6. ASSUME NEW e, Program(e) \in DOMAIN M PROVE Of(M, FirstTeam(e), "Team")
        BY <1>1, <2>6 DEF Chart, Leading
    <2> QED BY <2>1, <2>2, <2>3, <2>4, <2>5, <2>6 DEF Leading
<1>8. Reporting(M, F)
    <2>1. SUFFICES ASSUME NEW x, NEW y
                   PROVE  Has(F, "reports_to", x, y) <=>
                              x # y /\ \E e, u : Worker(M, x, e, u) /\ Manages(M, F, x, y, e, u)
        BY DEF Reporting
    <2>2. ASSUME NEW e, NEW u
          PROVE  Manages(M, F, x, y, e, u) <=>
                     \/ Manages(N, E, x, y, e, u)
                     \/ e = d /\ y = h /\ Has(E, "leads", x, Team(d, u))
        BY <1>1, <1>3, <1>4 DEF Manages
    <2>3. (\E u : Of(N, Team(d, u), "Team") /\ Has(E, "leads", x, Team(d, u))) <=>
              \E e, u : Worker(N, x, e, u) /\ e = d /\ Has(E, "leads", x, Team(d, u))
        BY DEF Chart, Leading, Belonging
    <2>4. Has(F, "reports_to", x, y) <=>
              x # y /\ ((\E e, u : Worker(N, x, e, u) /\ Manages(N, E, x, y, e, u))
                         \/ (y = h /\ \E e, u : Worker(N, x, e, u) /\ e = d /\ Has(E, "leads", x, Team(d, u))))
        BY <1>2, <2>3 DEF Chart, Reporting
    <2>5. (\E e, u : Worker(M, x, e, u) /\ Manages(M, F, x, y, e, u)) <=>
              \/ \E e, u : Worker(N, x, e, u) /\ Manages(N, E, x, y, e, u)
              \/ y = h /\ \E e, u : Worker(N, x, e, u) /\ e = d /\ Has(E, "leads", x, Team(d, u))
        BY <1>1, <2>2
    <2> QED BY <2>4, <2>5
<1>9. Staffing(M, F)
    <2>1. ASSUME NEW q, NEW e, StaffedBy(N, E, q, e) PROVE StaffedBy(M, F, q, e)
        BY <1>1, <1>2, <1>4, <2>1 DEF StaffedBy
    <2> QED BY <1>1, <2>1 DEF Chart, Staffing
<1> QED BY <1>6, <1>7, <1>8, <1>9 DEF Chart

LEMMA HeadOrg ==
    ASSUME Store, Org, UNCHANGED calls, NEW d, HeadStep(d)
    PROVE  Org'
<1> DEFINE N == world.nodes
           E == world.edges
           M == world'.nodes
           F == world'.edges
           h == HeadOf(d)
           es == HeadEdges(d)
<1>1. Doing("heads") /\ d = Task1.dept /\ plan' = Tail(plan) /\ UNCHANGED <<affinity, raised>>
    BY DEF HeadStep
<1>2. /\ Chart(N, E) /\ Agenda(plan, N) /\ Weighing(N, E, affinity) /\ NoAffinities(E)
      /\ GraphOK(world) /\ Task1 \in Jobs /\ Task1.kind = "heads"
    BY <1>1, OrgFound
<1>3. NewHead(N, E, d, h, M, F)
    BY <1>2, HeadAdded
<1>4. Of(N, FirstTeam(d), "Team")
    <2>1. Len(plan) \in Nat /\ 1 \in 1..Len(plan) /\ plan[1] = Task1
        BY <1>1, DoingFacts
    <2>2. ~\E j \in 1..Len(plan) : j < 1 /\ Is(plan, j, "team", d) /\ plan[j].arg = 1
        BY <2>1
    <2> QED BY <1>1, <1>2, <2>1, <2>2 DEF Agenda, Begun
<1>5. \A p : Has(E, "leads", p, FirstTeam(d)) <=> p = h
    BY <1>2, <1>4, HeadKnown
<1>6. NoAffinities(F)
    <2>1. world'.edges = E ++ es
        <3>1. world' = Added(Marked(d), HeadNodes(d), es) /\ Marked(d).edges = E
            BY <1>2, MarkedFacts DEF HeadStep
        <3> HIDE DEF es
        <3> QED BY <3>1, AddedFacts
    <2>2. Plainly(es) /\ EdgesOK(es)
        BY HeadPlainly, HeadWrites
    <2> HIDE DEF es
    <2>3. \A q : AffinityId(q) \notin DOMAIN es
        BY <2>2, PlainlyNoAffinity
    <2> QED BY <1>2, <2>1, <2>3, MergedAt DEF NoAffinities
<1> HIDE DEF N, E, M, F, h, es
<1>7. Chart(M, F)
    BY <1>2, <1>3, <1>4, <1>5, HeadChart
<1>8. Weighing(M, F, affinity)
    <2>1. Projects(M) = Projects(N)
        BY <1>3 DEF Projects, Of, NewHead
    <2>2. ASSUME NEW a, NEW b PROVE Shared(M, F, a, b) = Shared(N, E, a, b)
        BY <1>3, <2>1 DEF Shared, NewHead
    <2> QED BY <1>2, <2>1, <2>2 DEF Weighing
<1>9. Does(Task1, N, M)
    BY <1>1, <1>2, <1>3 DEF Does, NewHead
<1>10. Agenda(plan', M)
    BY <1>1, <1>2, <1>9, TaskAgenda DEF N, M
<1> QED BY <1>1, <1>6, <1>7, <1>8, <1>10 DEF Org, Charted, M, F

-----------------------------------------------------------------------------
(* A project is staffed.                                                   *)

NewProject(N, E, d, h, q, M, F) ==
    /\ q \notin DOMAIN N /\ \A e, u : q # Team(e, u)
    /\ \A x : /\ Of(M, x, "Person") <=> Of(N, x, "Person")
              /\ Of(M, x, "Team") <=> Of(N, x, "Team")
              /\ Of(M, x, "Project") <=> Of(N, x, "Project") \/ x = q
    /\ \A x, e, u : Worker(M, x, e, u) <=> Worker(N, x, e, u)
    /\ \A x, e : Employed(M, x, e) <=> Employed(N, x, e)
    /\ \A e : Program(e) \in DOMAIN M <=> Program(e) \in DOMAIN N
    /\ \A e : Dept(e) \in DOMAIN N => Dept(e) \in DOMAIN M
    /\ \A a, b : Has(F, "part_of", a, b) <=> Has(E, "part_of", a, b)
    /\ \A a, b : Has(F, "leads", a, b) <=> Has(E, "leads", a, b)
    /\ \A a, b : Has(F, "reports_to", a, b) <=> Has(E, "reports_to", a, b)
    /\ \A a, b : Has(F, "member_of", a, b) <=> Has(E, "member_of", a, b) \/ (b = q /\ Employed(N, a, d))
    /\ \A a, b : Has(E, "member_of", a, b) => F[<<"member_of", a, b>>] = E[<<"member_of", a, b>>]
    /\ \A a : Employed(N, a, d) /\ ~Has(E, "member_of", a, q) =>
           (F[<<"member_of", a, q>>].props = "lead" <=> a = h)

LEMMA RosterKnown ==
    ASSUME NEW d
    PROVE  \A p : p \in Roster(world, d) <=> Employed(world.nodes, p, d)
BY DEF Roster, NodesByType, Employed, Of

LEMMA ProjectAdded ==
    ASSUME Store, Chart(world.nodes, world.edges), NEW d, NEW initiative, NEW slug, NEW C,
           ProjectStep(d, initiative, slug, C), Employed(world.nodes, HeadOf(d), d)
    PROVE  NewProject(world.nodes, world.edges, d, HeadOf(d), Project(slug), world'.nodes, world'.edges)
<1> DEFINE N == world.nodes
           E == world.edges
           h == HeadOf(d)
           q == Project(slug)
           ns == ProjectNodes(initiative, slug)
           es == ProjectEdges(d, initiative, slug, C)
           M == N ++ ns
           F == E ++ es
<1>1. PICK v, y : initiative = <<"initiative", v, y>>
    BY DEF ProjectStep
<1>2. DOMAIN ns \cap DOMAIN N = {} /\ world'.nodes = M /\ world'.edges = F
    <2>1. world' = Added(world, ns, es) /\ DOMAIN ns \cap DOMAIN N = {}
        BY DEF ProjectStep
    <2> HIDE DEF ns, es
    <2> QED BY <2>1, AddedFacts
<1>3. ProjectWritten(d, initiative, slug, C)
    <2>1. C \subseteq Roster(world, d) \ {HeadOf(d)}
        BY DEF ProjectStep
    <2> QED BY <1>1, <2>1, ProjectWrites
<1>4. /\ DOMAIN ns = {initiative, q} /\ ns[initiative].type = "Initiative" /\ ns[q].type = "Project"
      /\ \A t, a, b : Has(es, t, a, b) =>
             t \in {"subinitiative_of", "owns_initiative", "advances_goal", "under", "member_of"}
      /\ \A a, b : Has(es, "member_of", a, b) <=> b = q /\ a \in {h} \cup Roster(world, d)
      /\ \A a \in {h} \cup Roster(world, d) : es[<<"member_of", a, q>>].props = "lead" <=> a = h
    BY <1>3 DEF ProjectWritten
<1>5. \A a : a \in {h} \cup Roster(world, d) <=> Employed(N, a, d)
    BY RosterKnown
<1>6. /\ q # initiative /\ \A e, u : q # Team(e, u)
      /\ \A e : Program(e) # initiative /\ Program(e) # q
    BY <1>1, Ids
<1> HIDE DEF N, E, h, q, ns, es
<1>7. /\ \A x, type : Of(M, x, type) <=> Of(N, x, type) \/ Of(ns, x, type)
      /\ \A x, e, u : Worker(M, x, e, u) <=> Worker(N, x, e, u) \/ Worker(ns, x, e, u)
      /\ \A x, e : Employed(M, x, e) <=> Employed(N, x, e) \/ Employed(ns, x, e)
      /\ \A x : x \in DOMAIN M <=> x \in DOMAIN N \/ x \in DOMAIN ns
    BY <1>2, MergedOrg
<1>8. /\ \A x : /\ ~Of(ns, x, "Person") /\ ~Of(ns, x, "Team")
                /\ Of(ns, x, "Project") <=> x = q
      /\ \A x, e, u : ~Worker(ns, x, e, u)
      /\ \A x, e : ~Employed(ns, x, e)
    BY <1>4, <1>6 DEF Of, Worker, Employed
<1>9. \A t, a, b : Has(F, t, a, b) <=> Has(E, t, a, b) \/ Has(es, t, a, b)
    BY HasMerged
<1>10. \A a, b : Has(E, "member_of", a, b) => F[<<"member_of", a, b>>] = E[<<"member_of", a, b>>]
    BY MergedAt DEF Has
<1>11. \A a, b : ~Has(es, "part_of", a, b) /\ ~Has(es, "leads", a, b) /\ ~Has(es, "reports_to", a, b)
    BY <1>4
<1>12. q \notin DOMAIN N
    BY <1>2, <1>4
<1>13. /\ \A e : Program(e) \in DOMAIN M <=> Program(e) \in DOMAIN N
       /\ \A e : Dept(e) \in DOMAIN N => Dept(e) \in DOMAIN M
    BY <1>4, <1>6, <1>7
<1>14. ASSUME NEW a, Employed(N, a, d), ~Has(E, "member_of", a, q)
       PROVE  F[<<"member_of", a, q>>].props = "lead" <=> a = h
    <2> DEFINE k == <<"member_of", a, q>>
    <2>1. k \in DOMAIN es /\ k \notin DOMAIN E
        BY <1>4, <1>5, <1>14 DEF Has
    <2> HIDE DEF k
    <2>2. F[k] = es[k]
        BY <2>1, MergedAt
    <2> QED BY <1>4, <1>5, <1>14, <2>2 DEF k
<1> HIDE DEF M, F
<1>15. NewProject(N, E, d, h, q, M, F)
    BY <1>4, <1>5, <1>6, <1>7, <1>8, <1>9, <1>10, <1>11, <1>12, <1>13, <1>14 DEF NewProject
<1> QED BY <1>2, <1>15 DEF N, E, h, q

LEMMA ProjectChart ==
    ASSUME NEW N, NEW E, NEW d, NEW h, NEW q, NEW M, NEW F, Chart(N, E), NewProject(N, E, d, h, q, M, F),
           Program(d) \in DOMAIN N, \A p : Has(E, "leads", p, FirstTeam(d)) <=> p = h
    PROVE  Chart(M, F)
<1>1. /\ \A x : /\ Of(M, x, "Person") <=> Of(N, x, "Person")
                /\ Of(M, x, "Team") <=> Of(N, x, "Team")
                /\ Of(M, x, "Project") <=> Of(N, x, "Project") \/ x = q
      /\ \A x, e, u : Worker(M, x, e, u) <=> Worker(N, x, e, u)
      /\ \A x, e : Employed(M, x, e) <=> Employed(N, x, e)
      /\ \A e : Program(e) \in DOMAIN M <=> Program(e) \in DOMAIN N
      /\ \A e : Dept(e) \in DOMAIN N => Dept(e) \in DOMAIN M
    BY DEF NewProject
<1>2. /\ \A a, b : Has(F, "part_of", a, b) <=> Has(E, "part_of", a, b)
      /\ \A a, b : Has(F, "leads", a, b) <=> Has(E, "leads", a, b)
      /\ \A a, b : Has(F, "reports_to", a, b) <=> Has(E, "reports_to", a, b)
      /\ \A a, b : Has(F, "member_of", a, b) <=> Has(E, "member_of", a, b) \/ (b = q /\ Employed(N, a, d))
      /\ \A a, b : Has(E, "member_of", a, b) => F[<<"member_of", a, b>>] = E[<<"member_of", a, b>>]
    BY DEF NewProject
<1>3. \A a : ~Has(E, "member_of", a, q)
    BY DEF NewProject, Chart, Belonging, Of
<1>4. Belonging(M, F)
    <2>1. \A p, x : Employed(N, p, x) => Of(N, p, "Person")
        BY DEF Employed
    <2>2. \A e, u : q # Team(e, u)
        BY DEF NewProject
    <2> QED BY <1>1, <1>2, <2>1, <2>2 DEF Chart, Belonging
<1>5. Leading(M, F)
    BY <1>1, <1>2 DEF Chart, Leading
<1>6. Reporting(M, F)
    <2>1. \A x, y, e, u : Manages(M, F, x, y, e, u) <=> Manages(N, E, x, y, e, u)
        BY <1>1, <1>2 DEF Manages
    <2> QED BY <1>1, <1>2, <2>1 DEF Chart, Reporting
<1>7. Staffing(M, F)
    <2>1. ASSUME NEW x, Of(N, x, "Project"), NEW e, StaffedBy(N, E, x, e) PROVE StaffedBy(M, F, x, e)
        <3>1. x # q
            BY <2>1 DEF NewProject, Of
        <3> QED BY <1>1, <1>2, <2>1, <3>1 DEF StaffedBy
    <2>2. StaffedBy(M, F, q, d)
        <3>1. \A p : Has(F, "member_of", p, q) <=> Employed(N, p, d)
            BY <1>2, <1>3
        <3>2. \A p : Employed(N, p, d) => (F[<<"member_of", p, q>>].props = "lead" <=> p = h)
            BY <1>3 DEF NewProject
        <3> QED BY <1>1, <1>2, <3>1, <3>2 DEF StaffedBy
    <2> QED BY <1>1, <2>1, <2>2 DEF Chart, Staffing
<1> QED BY <1>4, <1>5, <1>6, <1>7 DEF Chart

LEMMA ProjectWeighing ==
    ASSUME Store, NEW N, NEW E, NEW d, NEW h, NEW q, NEW M, NEW F, NewProject(N, E, d, h, q, M, F),
           Chart(N, E), Weighing(N, E, affinity), N = world.nodes
    PROVE  Weighing(M, F, Bumped(Pairs(Roster(world, d))))
<1> DEFINE A == affinity
           Ps == Pairs(Roster(world, d))
           B == Bumped(Ps)
<1>1. \A p : p \in Roster(world, d) <=> Employed(N, p, d)
    BY RosterKnown
<1>2. IsFiniteSet(Roster(world, d)) /\ \A x \in Ps : IsPair(x)
    <2>1. Roster(world, d) \subseteq People(world.nodes)
        BY DEF Roster, NodesByType, People
    <2> QED BY <2>1, SomePairs DEF Store
<1>3. \A a, b : a # b => ({a, b} \in Ps <=> Employed(N, a, d) /\ Employed(N, b, d))
    <2>1. TAKE a, b
    <2>2. SUFFICES ASSUME a # b PROVE {a, b} \in Ps <=> a \in Roster(world, d) /\ b \in Roster(world, d)
        BY <1>1
    <2> DEFINE S == Roster(world, d)
    <2> HIDE DEF S
    <2>3. {a, b} \in Pairs(S) <=> \E x, y \in S : x # y /\ {a, b} = {x, y}
        BY <1>2, PairsFacts DEF S
    <2>4. (\E x, y \in S : x # y /\ {a, b} = {x, y}) <=> a \in S /\ b \in S
        <3>1. ASSUME NEW x \in S, NEW y \in S, {a, b} = {x, y} PROVE a \in S /\ b \in S
            BY <3>1
        <3> QED BY <2>2, <3>1
    <2> QED BY <2>3, <2>4 DEF S
<1>4. /\ DOMAIN B = DOMAIN A \cup Ps
      /\ \A x \in DOMAIN A \cup Ps : B[x] = WeightOf(x) + (IF x \in Ps THEN 1 ELSE 0)
    BY <1>2, BumpedFacts DEF Store
<1> HIDE DEF Ps, B
<1>5. \A x : WeightIn(B, x) = WeightIn(A, x) + (IF x \in Ps THEN 1 ELSE 0)
    <2>1. TAKE x
    <2>2. WeightIn(A, x) = WeightOf(x) /\ WeightIn(A, x) \in Nat
        BY DEF WeightIn, WeightOf, Store, AffinityOK
    <2>3. CASE x \in DOMAIN A \cup Ps
        BY <1>4, <2>2, <2>3 DEF WeightIn
    <2>4. CASE x \notin DOMAIN A \cup Ps
        BY <1>4, <2>2, <2>4 DEF WeightIn
    <2> QED BY <2>3, <2>4
<1>6. Projects(M) = Projects(N) \cup {q} /\ q \notin Projects(N)
    BY DEF NewProject, Projects, Of
<1>7. IsFiniteSet(Projects(M))
    BY <1>6, FS_AddElement DEF Weighing
<1>8. ASSUME NEW a, NEW b, a # b PROVE WeightIn(B, {a, b}) = Cardinality(Shared(M, F, a, b))
    <2> DEFINE S == Shared(N, E, a, b)
               T == Shared(M, F, a, b)
    <2>1. \A x, y : Has(F, "member_of", x, y) <=> Has(E, "member_of", x, y) \/ (y = q /\ Employed(N, x, d))
        BY DEF NewProject
    <2>2. \A x : ~Has(E, "member_of", x, q)
        BY DEF NewProject, Chart, Belonging, Of
    <2>3. T = IF Employed(N, a, d) /\ Employed(N, b, d) THEN S \cup {q} ELSE S
        <3>1. \A y : y \in T <=> y \in S \/ (y = q /\ Employed(N, a, d) /\ Employed(N, b, d))
            BY <1>6, <2>1, <2>2 DEF Shared
        <3> HIDE DEF S, T
        <3> QED BY <3>1
    <2>4. IsFiniteSet(S) /\ q \notin S
        <3>1. S \subseteq Projects(N)
            BY DEF Shared
        <3> QED BY <1>6, <3>1, FS_Subset DEF Weighing
    <2>5. WeightIn(A, {a, b}) = Cardinality(S)
        BY <1>8 DEF Weighing
    <2> HIDE DEF S, T
    <2>6. Cardinality(S \cup {q}) = Cardinality(S) + 1 /\ Cardinality(S) \in Nat
        BY <2>4, FS_AddElement, FS_CardinalityType
    <2>7. Cardinality(T) = Cardinality(S) + (IF {a, b} \in Ps THEN 1 ELSE 0)
        BY <1>3, <1>8, <2>3, <2>6
    <2> QED BY <1>5, <2>5, <2>7 DEF T
<1> QED BY <1>7, <1>8 DEF Weighing, B, Ps

LEMMA ProjectOrg ==
    ASSUME Store, Org, UNCHANGED calls, NEW d, NEW initiative, NEW slug, NEW C,
           ProjectStep(d, initiative, slug, C)
    PROVE  Org'
<1> DEFINE N == world.nodes
           E == world.edges
           M == world'.nodes
           F == world'.edges
           h == HeadOf(d)
           q == Project(slug)
           es == ProjectEdges(d, initiative, slug, C)
<1>1. PICK kind \in {"playbook", "project"} : Doing(kind)
    BY DEF ProjectStep
<1>2. d = Task1.dept /\ plan' = Tail(plan) /\ affinity' = Bumped(Pairs(Roster(world, d))) /\ UNCHANGED raised
    BY DEF ProjectStep
<1>3. /\ Chart(N, E) /\ Agenda(plan, N) /\ Weighing(N, E, affinity) /\ NoAffinities(E)
      /\ GraphOK(world) /\ Task1 \in Jobs /\ Task1.kind = kind
    BY <1>1, OrgFound
<1>4. Program(d) \in DOMAIN N
    <2>1. Len(plan) \in Nat /\ 1 \in 1..Len(plan) /\ plan[1] = Task1
        BY <1>1, DoingFacts
    <2>2. ~\E j \in 1..Len(plan) : j < 1 /\ Is(plan, j, "heads", d)
        BY <2>1
    <2> QED BY <1>1, <1>2, <1>3, <2>1, <2>2 DEF Agenda, Headed
<1>5. (\A p : Has(E, "leads", p, FirstTeam(d)) <=> p = h) /\ Employed(N, h, d)
    <2>1. Of(N, FirstTeam(d), "Team")
        BY <1>3, <1>4 DEF Chart, Leading
    <2> QED BY <1>3, <2>1, HeadKnown
<1>6. NewProject(N, E, d, h, q, M, F)
    BY <1>3, <1>5, ProjectAdded
<1>7. NoAffinities(F)
    <2>1. world'.edges = E ++ es
        <3>1. world' = Added(world, ProjectNodes(initiative, slug), es)
            BY DEF ProjectStep
        <3> HIDE DEF es
        <3> QED BY <3>1, AddedFacts
    <2>2. EdgesOK(es)
        <3>1. PICK x, y : initiative = <<"initiative", x, y>>
            BY DEF ProjectStep
        <3>2. C \subseteq Roster(world, d) \ {HeadOf(d)}
            BY DEF ProjectStep
        <3>3. ProjectWritten(d, initiative, slug, C)
            BY <3>1, <3>2, ProjectWrites
        <3> QED BY <3>3 DEF ProjectWritten
    <2>3. Plainly(es)
        BY ProjectPlainly
    <2> HIDE DEF es
    <2>4. \A x : AffinityId(x) \notin DOMAIN es
        BY <2>2, <2>3, PlainlyNoAffinity
    <2> QED BY <1>3, <2>1, <2>4, MergedAt DEF NoAffinities
<1> HIDE DEF E, M, F, h, q, es
<1>8. Chart(M, F)
    BY <1>3, <1>4, <1>5, <1>6, ProjectChart
<1>9. Weighing(M, F, affinity')
    BY <1>2, <1>3, <1>6, ProjectWeighing
<1> HIDE DEF N
<1>10. Does(Task1, N, M)
    <2>1. Task1.kind # "heads" /\ Task1.kind # "team" /\ Task1.kind # "open"
        BY <1>1, <1>3
    <2> QED BY <1>6, <2>1 DEF Does, NewProject
<1>11. Agenda(plan', M)
    BY <1>1, <1>2, <1>3, <1>10, TaskAgenda DEF N, M
<1> QED BY <1>2, <1>7, <1>8, <1>9, <1>11 DEF Org, Charted, M, F

-----------------------------------------------------------------------------
(* How often the calls drew two people for one another.                    *)

\* Running totals of m.
Totals(n, m, f) == f = [i \in 0..n |-> IF i = 0 THEN 0 ELSE f[i-1] + m[i]]

LEMMA TotalsExist ==
    ASSUME NEW n \in Nat, NEW m
    PROVE  \E f : Totals(n, m, f)
<1> DEFINE S == {k \in 0..n : \E f : Totals(k, m, f)}
<1>1. 0 \in S
    <2> DEFINE f == [i \in 0..0 |-> 0]
    <2>1. f = [i \in 0..0 |-> IF i = 0 THEN 0 ELSE f[i-1] + m[i]]
        OBVIOUS
    <2> HIDE DEF f
    <2>2. Totals(0, m, f)
        BY <2>1 DEF Totals
    <2> QED BY <2>2
<1>2. ASSUME NEW k \in 0..n, k \in S, k # n PROVE k + 1 \in S
    <2>1. PICK f : Totals(k, m, f)
        BY <1>2
    <2> DEFINE l == k + 1
               g == [i \in 0..l |-> IF i = l THEN f[k] + m[l] ELSE f[i]]
    <2>2. l \in 0..n /\ l - 1 = k /\ l # 0 /\ k \in Nat
        BY <1>2
    <2>3. DOMAIN f = 0..k /\ \A i \in 0..k : f[i] = IF i = 0 THEN 0 ELSE f[i-1] + m[i]
        BY <2>1, Zenon DEF Totals
    <2>4. ASSUME NEW i \in 0..l PROVE g[i] = IF i = 0 THEN 0 ELSE g[i-1] + m[i]
        <3>1. CASE i = l
            <4>1. g[l] = f[k] + m[l] /\ g[k] = f[k]
                BY <2>2
            <4> HIDE DEF g, l
            <4> QED BY <2>2, <3>1, <4>1
        <3>2. CASE i # l /\ i # 0
            <4>1. i \in 0..k /\ i - 1 \in 0..k /\ i - 1 \in 0..l /\ i - 1 # l
                BY <2>2, <3>2
            <4>2. g[i] = f[i] /\ g[i-1] = f[i-1]
                BY <3>2, <4>1
            <4> HIDE DEF g, l
            <4> QED BY <2>3, <3>2, <4>1, <4>2
        <3>3. CASE i # l /\ i = 0
            <4>1. g[i] = f[i] /\ i \in 0..k
                BY <2>2, <3>3
            <4> HIDE DEF g, l
            <4> QED BY <2>3, <3>3, <4>1
        <3> QED BY <3>1, <3>2, <3>3
    <2>5. g = [i \in 0..l |-> g[i]]
        OBVIOUS
    <2> HIDE DEF g
    <2>6. Totals(l, m, g)
        BY <2>4, <2>5 DEF Totals
    <2> QED BY <2>2, <2>6
<1> HIDE DEF S
<1>3. \A k \in 0..n : k \in S
    BY <1>1, <1>2, CountUp
<1>4. n \in S
    BY <1>3
<1> QED BY <1>4 DEF S

SameStart(n, l, m, o, f, g) ==
    /\ n \in Nat /\ l \in Nat /\ n <= l
    /\ \A i \in 1..n : m[i] = o[i]
    /\ Totals(n, m, f) /\ Totals(l, o, g)

LEMMA TotalsSame ==
    ASSUME NEW n, NEW l, NEW m, NEW o, NEW f, NEW g, SameStart(n, l, m, o, f, g)
    PROVE  f[n] = g[n]
<1> USE DEF SameStart
<1> DEFINE S == {k \in 0..n : f[k] = g[k]}
<1>1. /\ \A i \in 0..n : f[i] = IF i = 0 THEN 0 ELSE f[i-1] + m[i]
      /\ \A i \in 0..l : g[i] = IF i = 0 THEN 0 ELSE g[i-1] + o[i]
    BY Zenon DEF Totals
<1>2. 0 \in S
    BY <1>1
<1>3. ASSUME NEW k \in 0..n, k \in S, k # n PROVE k + 1 \in S
    <2> DEFINE i == k + 1
    <2>1. i \in 0..n /\ i \in 0..l /\ i # 0 /\ i - 1 = k /\ i \in 1..n /\ f[k] = g[k]
        BY <1>3
    <2> HIDE DEF i
    <2>2. f[i] = f[k] + m[i] /\ g[i] = g[k] + o[i]
        BY <1>1, <2>1
    <2> QED BY <2>1, <2>2 DEF i
<1> HIDE DEF S
<1>4. \A k \in 0..n : k \in S
    BY <1>2, <1>3, CountUp
<1> QED BY <1>4 DEF S

PicksIn(c, a, b) ==
    IF c.sel.anchor = a THEN Times(c.picks, b) ELSE IF c.sel.anchor = b THEN Times(c.picks, a) ELSE 0
PicksOf(cs, a, b) == [i \in 1..Len(cs) |-> PicksIn(cs[i], a, b)]
Tally(cs, a, b) == CHOOSE f : f = [i \in 0..Len(cs) |-> IF i = 0 THEN 0 ELSE f[i-1] + PicksIn(cs[i], a, b)]

LEMMA TallyTotals ==
    ASSUME NEW cs, Len(cs) \in Nat, NEW a, NEW b
    PROVE  Totals(Len(cs), PicksOf(cs, a, b), Tally(cs, a, b))
<1> DEFINE n == Len(cs)
           m == PicksOf(cs, a, b)
           T(f) == [i \in 0..n |-> IF i = 0 THEN 0 ELSE f[i-1] + m[i]]
           U(f) == [i \in 0..n |-> IF i = 0 THEN 0 ELSE f[i-1] + PicksIn(cs[i], a, b)]
<1>1. \A f : T(f) = U(f)
    <2>1. \A i \in 0..n : i = 0 \/ m[i] = PicksIn(cs[i], a, b)
        BY DEF PicksOf
    <2> HIDE DEF m
    <2> QED BY <2>1
<1>2. \E f : f = T(f)
    BY TotalsExist DEF Totals
<1>3. \E f : f = U(f)
    <2> HIDE DEF T, U
    <2> QED BY <1>1, <1>2
<1>4. Tally(cs, a, b) = U(Tally(cs, a, b))
    BY <1>3 DEF Tally
<1> QED BY <1>1, <1>4 DEF Totals

LEMMA PickedTally == ASSUME NEW a, NEW b PROVE Picked(a, b) = Tally(calls, a, b)[Len(calls)]
BY DEF Picked, Tally, PicksIn

LEMMA PickedNever == ASSUME calls = <<>>, NEW a, NEW b PROVE Picked(a, b) = 0
<1>1. Len(calls) = 0
    BY EmptySeq
<1>2. Totals(0, PicksOf(calls, a, b), Tally(calls, a, b))
    BY <1>1, TallyTotals
<1>3. \A i \in 0..0 : Tally(calls, a, b)[i] = IF i = 0 THEN 0 ELSE Tally(calls, a, b)[i-1] + PicksOf(calls, a, b)[i]
    BY <1>2, Zenon DEF Totals
<1> QED BY <1>1, <1>3, PickedTally

LEMMA PickedMore ==
    ASSUME NEW T, calls \in Seq(T), NEW c \in T, calls' = Append(calls, c), NEW a, NEW b
    PROVE  Picked(a, b)' = Picked(a, b) + PicksIn(c, a, b)
<1> DEFINE n == Len(calls)
           cs == Append(calls, c)
           f == Tally(calls, a, b)
           g == Tally(cs, a, b)
           l == n + 1
<1>1. n \in Nat /\ Len(cs) = l /\ l \in Nat /\ n <= l /\ cs[l] = c /\ \A i \in 1..n : cs[i] = calls[i]
    BY LenProperties, AppendProperties
<1>2. Picked(a, b) = f[n]
    BY PickedTally
<1>3. Picked(a, b)' = g[l]
    <2>1. Picked(a, b)' = Tally(calls', a, b)[Len(calls')]
        BY DEF Picked, Tally, PicksIn, Times
    <2> HIDE DEF cs
    <2>2. calls' = cs
        BY DEF cs
    <2> QED BY <1>1, <2>1, <2>2
<1> HIDE DEF cs
<1>4. Totals(n, PicksOf(calls, a, b), f) /\ Totals(l, PicksOf(cs, a, b), g)
    BY <1>1, TallyTotals
<1>5. \A i \in 1..n : PicksOf(calls, a, b)[i] = PicksOf(cs, a, b)[i]
    <2>1. \A i \in 1..n : i \in 1..Len(cs)
        BY <1>1
    <2> QED BY <1>1, <2>1 DEF PicksOf
<1>6. PicksOf(cs, a, b)[l] = PicksIn(c, a, b)
    <2>1. l \in 1..Len(cs)
        BY <1>1
    <2> QED BY <1>1, <2>1 DEF PicksOf
<1> HIDE DEF f, g, n
<1>7. f[n] = g[n]
    <2> DEFINE m == PicksOf(calls, a, b)
               o == PicksOf(cs, a, b)
    <2>1. Totals(n, m, f) /\ Totals(l, o, g) /\ \A i \in 1..n : m[i] = o[i]
        BY <1>4, <1>5
    <2> HIDE DEF l, m, o
    <2>2. n \in Nat /\ l \in Nat /\ n <= l
        BY <1>1
    <2>3. SameStart(n, l, m, o, f, g)
        BY <2>1, <2>2 DEF SameStart
    <2> QED BY <2>3, TotalsSame
<1>8. g[l] = g[n] + PicksOf(cs, a, b)[l]
    <2>1. \A i \in 0..l : g[i] = IF i = 0 THEN 0 ELSE g[i-1] + PicksOf(cs, a, b)[i]
        BY <1>4, Zenon DEF Totals
    <2>2. l \in 0..l /\ l # 0 /\ l - 1 = n
        BY <1>1
    <2> HIDE DEF l
    <2> QED BY <2>1, <2>2
<1> QED BY <1>2, <1>3, <1>6, <1>7, <1>8

\* What a builder writes last.
AffinityStep(A) ==
    /\ Doing("affinities") /\ A = Bumped(Colleagues)
    /\ affinity' = A /\ world' = Added(world, <<>>, Written(A))
    /\ plan' = Tail(plan)
    /\ UNCHANGED <<config, raised>>

LEMMA AffinitySteps ==
    ASSUME Store, WriteAffinities
    PROVE  /\ AffinityStep(Bumped(Colleagues)) /\ AffinityOK(Bumped(Colleagues))
           /\ world'.nodes = world.nodes /\ world'.edges = world.edges ++ Written(Bumped(Colleagues))
<1> DEFINE A == Bumped(Colleagues)
<1>1. AffinityStep(A)
    BY DEF AffinityStep, WriteAffinities, Written
<1>2. \A q \in Colleagues : IsPair(q)
    BY ColleaguesFacts DEF Store, IsPair
<1>3. AffinityOK(A)
    BY <1>2, BumpedFacts DEF Store
<1> HIDE DEF A
<1>4. world.nodes ++ <<>> = world.nodes
    BY NothingMerged DEF Store, GraphOK, NodesOK
<1>5. world'.nodes = world.nodes /\ world'.edges = world.edges ++ Written(A)
    BY <1>1, <1>4, AddedFacts DEF AffinityStep
<1> QED BY <1>1, <1>3, <1>5 DEF A

LEMMA AffinityOrg ==
    ASSUME Store, Org, UNCHANGED calls, WriteAffinities
    PROVE  Org' /\ plan' = <<>>
<1> DEFINE N == world.nodes
           E == world.edges
           A == Bumped(Colleagues)
           F == E ++ Written(A)
<1>1. AffinityStep(A) /\ AffinityOK(A) /\ world'.nodes = N /\ world'.edges = F
    BY AffinitySteps
<1> HIDE DEF A
<1>2. Doing("affinities") /\ plan' = Tail(plan)
    BY <1>1 DEF AffinityStep
<1>3. Chart(N, E) /\ Agenda(plan, N) /\ Task1 \in Jobs /\ Task1.kind = "affinities"
    BY <1>2, OrgFound
<1>4. Tail(plan) \in Seq(Jobs) /\ Len(Tail(plan)) = Len(plan) - 1 /\ 1 \in 1..Len(plan) /\ plan[1] = Task1
      /\ Len(plan) \in Nat
    BY <1>2, DoingFacts
<1>5. Len(plan) = 1
    BY <1>3, <1>4 DEF Agenda, AffinitiesLast
<1>6. plan' = <<>>
    BY <1>2, <1>4, <1>5, EmptySeq
<1>7. \A t, a, b : ~Has(Written(A), t, a, b)
    BY <1>1, WrittenFacts DEF AffinityOK
<1>8. SameOrg(N, N)
    BY DEF SameOrg
<1>9. SameLinks(E, F)
    <2>1. \A a, b : Has(E, "member_of", a, b) => F[<<"member_of", a, b>>] = E[<<"member_of", a, b>>]
        BY MergedAt DEF Has
    <2>2. \A t, a, b : Has(F, t, a, b) <=> Has(E, t, a, b)
        BY <1>7, HasMerged
    <2> HIDE DEF F
    <2> QED BY <2>1, <2>2 DEF SameLinks
<1> HIDE DEF F
<1>10. Chart(N, F)
    BY <1>3, <1>8, <1>9, ChartKept
<1>11. Does(Task1, N, N)
    BY <1>3 DEF Does
<1>12. Agenda(plan', world'.nodes)
    <2>1. Agenda(plan, world.nodes) /\ Does(Task1, world.nodes, world'.nodes)
        BY <1>1, <1>3, <1>11
    <2> QED BY <1>2, <2>1, TaskAgenda
<1> QED BY <1>1, <1>6, <1>10, <1>12 DEF Org, Charted

LEMMA BuildOrg ==
    ASSUME Store, Org, Build
    PROVE  Org'
<1>1. BuildNext /\ UNCHANGED calls
    BY DEF Build
<1>2. CASE Raise
    BY <1>2 DEF Raise, Org
<1>3. CASE SelectArchetypes
    BY <1>1, <1>3, SelectOrg
<1>4. CASE CompanyStep
    BY <1>1, <1>4, CompanyOrg
<1>5. ASSUME NEW G, DeptStep(G) PROVE Org'
    BY <1>1, <1>5, DeptOrg
<1>6. ASSUME NEW d, NEW shape, NEW n, NEW picks, TeamStep(d, shape, n, picks) PROVE Org'
    BY <1>1, <1>6, TeamOrg
<1>7. ASSUME NEW d, HeadStep(d) PROVE Org'
    BY <1>1, <1>7, HeadOrg
<1>8. ASSUME NEW d, NEW initiative, NEW slug, NEW C, ProjectStep(d, initiative, slug, C) PROVE Org'
    BY <1>1, <1>8, ProjectOrg
<1>9. CASE WriteAffinities
    BY <1>1, <1>9, AffinityOrg
<1> QED BY <1>1, <1>2, <1>3, <1>4, <1>5, <1>6, <1>7, <1>8, <1>9, BuildSteps

LEMMA OrgStep ==
    ASSUME Store, Org, [Next]_vars
    PROVE  Org'
<1>1. CASE Build
    BY <1>1, BuildOrg
<1>2. CASE Resolve
    <2>1. PICK s, k, picks : ResolveStep(s, k, picks)
        BY <1>2, ResolveSteps
    <2>2. calls' = Append(calls, [sel |-> s, at |-> now, picks |-> picks]) /\ calls \in Seq(CallsOn(DOMAIN world.nodes))
        BY <2>1 DEF ResolveStep, Store
    <2>3. calls' # <<>>
        BY <2>2
    <2> QED BY <2>3 DEF Org
<1>3. CASE Advance
    BY <1>3 DEF Advance, Org, Charted, buildVars
<1>4. CASE UNCHANGED vars
    BY <1>4 DEF vars, buildVars, Org, Charted
<1> QED BY <1>1, <1>2, <1>3, <1>4 DEF Next

\* Once everything is built.
LEMMA Finished ==
    ASSUME Store, Org, Built, calls = <<>>
    PROVE  /\ Chart(world.nodes, world.edges) /\ GraphOK(world)
           /\ \A p, d : Employed(world.nodes, p, d) => Program(d) \in DOMAIN world.nodes
<1>1. Charted /\ GraphOK(world) /\ plan = <<>>
    BY DEF Org, Built, Store
<1>2. Agenda(plan, world.nodes) /\ Chart(world.nodes, world.edges)
    BY <1>1 DEF Charted
<1>3. \A k \in 1..Len(plan) : FALSE
    BY <1>1
<1> QED BY <1>1, <1>2, <1>3 DEF Agenda, Covered

LEMMA TreeSound ==
    ASSUME Store, Org
    PROVE  OrgIsTree
<1>1. SUFFICES ASSUME Built, calls = <<>>, NEW n \in NodesByType(world, "Person"), NEW d,
                      d = world.nodes[n].props.department
               PROVE  LET head == HeadOf(d) IN
                      /\ Neighbors(world, Dept(d), "leads", "in") = {head}
                      /\ Manager(head) = {}
                      /\ \A p \in Roster(world, d) \ {head} :
                           /\ Cardinality(Manager(p)) = 1
                           /\ head \in Manager(p) \cup UNION {Manager(m) : m \in Manager(p)}
                      /\ \A t \in Teams(world, d) :
                           Lead(world, t) \in Neighbors(world, t, "member_of", "in")
    BY Zenon DEF OrgIsTree
<1> DEFINE N == world.nodes
           E == world.edges
           head == HeadOf(d)
<1>2. Employed(N, n, d)
    BY <1>1 DEF NodesByType, Employed, Of
<1>3. Chart(N, E) /\ GraphOK(world) /\ EdgesOK(E) /\ Program(d) \in DOMAIN N
    BY <1>1, <1>2, Finished DEF GraphOK
<1>4. Of(N, FirstTeam(d), "Team")
    BY <1>3 DEF Chart, Leading
<1>5. (\A p : Has(E, "leads", p, FirstTeam(d)) <=> p = head) /\ Employed(N, head, d)
    BY <1>3, <1>4, HeadKnown
<1>6. \A type \in {"leads", "reports_to", "member_of"} : type \in Ordinary
    BY DEF Ordinary
<1>7. \A type \in {"leads", "reports_to", "member_of"} : \A id :
          /\ Neighbors(world, id, type, "out") = {b \in DOMAIN N : Has(E, type, id, b)}
          /\ Neighbors(world, id, type, "in") = {a \in DOMAIN N : Has(E, type, a, id)}
    BY <1>3, <1>6, NeighborsNamed DEF Has
<1>8. \A p, e, u : Worker(N, p, e, u) => p \in DOMAIN N
    BY DEF Worker, Of
<1>9. \A p : Manager(p) = {m \in DOMAIN N : Has(E, "reports_to", p, m)}
    BY <1>7 DEF Manager
<1> HIDE DEF head, N, E
<1>10. Worker(N, head, d, Archetypes[d].teams[1].slug)
    BY <1>3, <1>5 DEF Chart, Leading, FirstTeam
<1>11. Neighbors(world, Dept(d), "leads", "in") = {head}
    <2>1. \A p : Has(E, "leads", p, Dept(d)) <=> p = head
        BY <1>3, <1>5 DEF Chart, Leading
    <2> QED BY <1>7, <1>8, <1>10, <2>1
    \* The units of people, and who manages them.
<1>12. ASSUME NEW p, NEW e, NEW u, Worker(N, p, e, u)
       PROVE  /\ \E q : \A x : Has(E, "leads", x, Team(e, u)) <=> x = q
              /\ \A f, v : Worker(N, p, f, v) <=> f = e /\ v = u
    <2>1. Of(N, Team(e, u), "Team")
        BY <1>3, <1>12 DEF Chart, Belonging
    <2>2. PICK q : Has(E, "leads", q, Team(e, u))
        BY <1>3, <2>1 DEF Chart, Leading
    <2>3. \A x : Has(E, "leads", x, Team(e, u)) <=> x = q
        BY <1>3, <2>2 DEF Chart, Leading
    <2>4. \A f, v : Worker(N, p, f, v) <=> f = e /\ v = u
        BY <1>12 DEF Worker
    <2> QED BY <2>3, <2>4
<1>13. Manager(head) = {}
    <2>1. ASSUME NEW y, Has(E, "reports_to", head, y) PROVE FALSE
        <3>1. PICK f, v : head # y /\ Worker(N, head, f, v) /\ Manages(N, E, head, y, f, v)
            BY <1>3, <2>1 DEF Chart, Reporting
        <3>2. f = d /\ Team(f, v) = FirstTeam(d)
            BY <1>10, <1>12, <3>1 DEF FirstTeam
        <3> QED BY <1>5, <3>1, <3>2 DEF Manages
    <2> QED BY <1>9, <2>1
<1>14. ASSUME NEW p \in Roster(world, d) \ {head}
       PROVE  /\ Cardinality(Manager(p)) = 1
              /\ head \in Manager(p) \cup UNION {Manager(m) : m \in Manager(p)}
    <2>1. Employed(N, p, d) /\ p # head
        BY <1>14, RosterKnown DEF N
    <2> DEFINE u == N[p].props.unit
    <2>2. Worker(N, p, d, u)
        BY <2>1 DEF Employed, Worker
    <2> HIDE DEF u
    <2>3. PICK q : \A x : Has(E, "leads", x, Team(d, u)) <=> x = q
        BY <1>12, <2>2
    <2>4. \A y : Has(E, "reports_to", p, y) <=> p # y /\ Manages(N, E, p, y, d, u)
        BY <1>3, <1>12, <2>2 DEF Chart, Reporting
    <2>5. \A y : Manages(N, E, p, y, d, u) <=> y = q \/ (p = q /\ y = head)
        BY <1>3, <1>5, <2>3 DEF Manages
    <2>6. Worker(N, q, d, u) /\ q \in DOMAIN N /\ head \in DOMAIN N
        BY <1>3, <1>8, <1>10, <2>3 DEF Chart, Leading
    <2>7. CASE p = q
        <3>1. Manager(p) = {head}
            BY <1>9, <2>1, <2>4, <2>5, <2>6, <2>7
        <3> QED BY <3>1, FS_Singleton
    <2>8. CASE p # q
        <3>1. Manager(p) = {q}
            BY <1>9, <2>4, <2>5, <2>6, <2>8
        <3>2. Cardinality(Manager(p)) = 1
            BY <3>1, FS_Singleton
        <3>3. CASE q = head
            BY <3>1, <3>2, <3>3
        <3>4. CASE q # head
            <4>1. Manages(N, E, q, head, d, u)
                BY <1>3, <1>5, <2>3 DEF Manages
            <4>2. Has(E, "reports_to", q, head)
                BY <1>3, <2>6, <3>4, <4>1 DEF Chart, Reporting
            <4>3. head \in Manager(q)
                BY <1>9, <2>6, <4>2
            <4> QED BY <3>1, <3>2, <4>3
        <3> QED BY <3>3, <3>4
    <2> QED BY <2>7, <2>8
<1>15. ASSUME NEW t \in Teams(world, d)
       PROVE  Lead(world, t) \in Neighbors(world, t, "member_of", "in")
    <2>1. Of(N, t, "Team") /\ \E v : t = Team(d, v)
        BY <1>3, <1>15, TeamsKnown DEF N, E
    <2>2. PICK v : t = Team(d, v)
        BY <2>1
    <2>3. Has(E, "leads", Lead(world, t), t)
        BY <1>3, <2>1, <2>2, LeadKnown DEF N, E
    <2>4. Worker(N, Lead(world, t), d, v)
        BY <1>3, <2>2, <2>3 DEF Chart, Leading
    <2>5. Has(E, "member_of", Lead(world, t), t)
        BY <1>3, <2>2, <2>4 DEF Chart, Belonging
    <2> QED BY <1>7, <1>8, <2>4, <2>5
<1> QED BY <1>11, <1>13, <1>14, <1>15 DEF head

LEMMA StaffingSound ==
    ASSUME Store, Org
    PROVE  EveryoneStaffed
<1>1. SUFFICES ASSUME Built, calls = <<>>, NEW q \in NodesByType(world, "Project")
               PROVE  LET On == InEdges(world, q, "member_of")
                          OnIt == {world.edges[e].src : e \in On}
                          Led == {world.edges[e].src : e \in {e \in On : world.edges[e].props = "lead"}}
                      IN \E d \in {world.nodes[p].props.department : p \in OnIt} :
                           /\ OnIt = Roster(world, d)
                           /\ Cardinality(On) = Cardinality(OnIt)
                           /\ Led = {HeadOf(d)}
    BY Zenon DEF EveryoneStaffed
<1> DEFINE N == world.nodes
           E == world.edges
           On == InEdges(world, q, "member_of")
           OnIt == {E[e].src : e \in On}
           Led == {E[e].src : e \in {e \in On : E[e].props = "lead"}}
           id(p) == <<"member_of", p, q>>
<1>2. Chart(N, E) /\ GraphOK(world) /\ EdgesOK(E) /\ Of(N, q, "Project")
    BY <1>1, Finished DEF GraphOK, NodesByType, Of
<1>3. PICK d : StaffedBy(N, E, q, d)
    BY <1>2 DEF Chart, Staffing
<1>4. Of(N, FirstTeam(d), "Team")
    BY <1>2, <1>3 DEF Chart, Leading, StaffedBy
<1>5. (\A p : Has(E, "leads", p, FirstTeam(d)) <=> p = HeadOf(d)) /\ Employed(N, HeadOf(d), d)
    BY <1>2, <1>4, HeadKnown
<1>6. \A p : p \in Roster(world, d) <=> Employed(N, p, d)
    BY RosterKnown
<1>7. "member_of" \in Ordinary
    BY DEF Ordinary
<1>8. \A e : e \in On <=> \E p : e = id(p) /\ Has(E, "member_of", p, q)
    <2>1. ASSUME NEW e \in On PROVE e = id(E[e].src) /\ Has(E, "member_of", E[e].src, q)
        BY <1>2, <1>7, <2>1, EdgeNamed DEF InEdges, Has
    <2>2. ASSUME NEW p, Has(E, "member_of", p, q) PROVE id(p) \in On
        BY <1>2, <1>7, <2>2, EdgeNamed DEF InEdges, Has
    <2> QED BY <2>1, <2>2
<1>9. \A p : Has(E, "member_of", p, q) => E[id(p)].src = p
    BY <1>2, <1>7, EdgeNamed DEF Has
<1> HIDE DEF On, N, E
<1>10. \A p : Has(E, "member_of", p, q) <=> p \in Roster(world, d)
    BY <1>3, <1>6 DEF StaffedBy
<1>11. OnIt = Roster(world, d)
    <2>1. ASSUME NEW e \in On PROVE E[e].src \in Roster(world, d)
        BY <1>8, <1>9, <1>10
    <2>2. ASSUME NEW p \in Roster(world, d) PROVE id(p) \in On /\ E[id(p)].src = p
        BY <1>8, <1>9, <1>10
    <2> HIDE DEF id
    <2> QED BY <2>1, <2>2
<1>12. IsFiniteSet(Roster(world, d))
    <2>1. Roster(world, d) \subseteq People(N)
        BY DEF Roster, NodesByType, People, N
    <2> QED BY <1>2, <2>1, FS_Subset DEF GraphOK, N
<1>13. Cardinality(On) = Cardinality(OnIt)
    <2> DEFINE R == Roster(world, d)
               f == [p \in R |-> id(p)]
    <2>1. \A p : p \in R <=> Has(E, "member_of", p, q)
        BY <1>3, <1>6 DEF StaffedBy
    <2> HIDE DEF R
    <2>2. f \in Bijection(R, On)
        <3>1. f \in [R -> On]
            BY <1>8, <2>1
        <3>2. \A a, b \in R : f[a] = f[b] => a = b
            OBVIOUS
        <3>3. \A e \in On : \E p \in R : f[p] = e
            BY <1>8, <2>1
        <3> QED BY <3>1, <3>2, <3>3 DEF Bijection, Injection, Surjection, IsInjective
    <2>3. Cardinality(R) = Cardinality(On)
        <3>1. ExistsBijection(R, On)
            BY <2>2 DEF ExistsBijection
        <3> QED BY <1>12, <3>1, FS_Bijection DEF R
    <2> QED BY <1>11, <2>3 DEF R
<1>14. Led = {HeadOf(d)}
    <2>1. ASSUME NEW e \in On, E[e].props = "lead" PROVE E[e].src = HeadOf(d)
        BY <1>3, <1>5, <1>8, <1>9, <2>1 DEF StaffedBy
    <2>2. id(HeadOf(d)) \in On /\ E[id(HeadOf(d))].props = "lead" /\ E[id(HeadOf(d))].src = HeadOf(d)
        BY <1>3, <1>5, <1>8, <1>9 DEF StaffedBy
    <2> HIDE DEF id
    <2> QED BY <2>1, <2>2
<1>15. d \in {world.nodes[p].props.department : p \in OnIt}
    <2>1. HeadOf(d) \in OnIt /\ world.nodes[HeadOf(d)].props.department = d
        BY <1>5, <1>6, <1>11 DEF Employed, N
    <2> QED BY <2>1
<1> HIDE DEF OnIt, Led
<1>16. \E f \in {world.nodes[p].props.department : p \in OnIt} :
           /\ OnIt = Roster(world, f)
           /\ Cardinality(On) = Cardinality(OnIt)
           /\ Led = {HeadOf(f)}
    BY <1>11, <1>13, <1>14, <1>15
<1> QED BY <1>16 DEF OnIt, Led, On, E

\* Whatever a configuration asks for, everyone of a finished world but the heads has one
\* manager and reaches the head, teams are led by one of their own, and a project has all of
\* its department, with the head as its lead (builder.py).
THEOREM SoundOrg == Spec => []OrgSound
<1>1. Init => Org
    BY OrgInit
<1>2. Store /\ Org /\ [Next]_vars => Org'
    BY OrgStep
<1>3. Store /\ Org => OrgSound
    BY TreeSound, StaffingSound DEF OrgSound
<1> QED BY <1>1, <1>2, <1>3, WorldTypes, PTL DEF Spec

-----------------------------------------------------------------------------
(* What affinities weigh.                                                  *)

Both(N, E, a, b) == {x \in DOMAIN N : Has(E, "member_of", a, x) /\ Has(E, "member_of", b, x)}

LEMMA TeamKnown ==
    ASSUME GraphOK(world), Chart(world.nodes, world.edges), NEW p, NEW d, NEW u,
           Worker(world.nodes, p, d, u)
    PROVE  TeamOf(world, p) = Team(d, u) /\ Team(d, u) \in NodesByType(world, "Team")
<1> DEFINE A == Neighbors(world, p, "member_of", "out")
<1>1. "member_of" \in Ordinary /\ EdgesOK(world.edges)
    BY DEF Ordinary, GraphOK
<1>2. A = {x \in DOMAIN world.nodes : Has(world.edges, "member_of", p, x)}
    BY <1>1, NeighborsNamed DEF Has
<1>3. Of(world.nodes, Team(d, u), "Team") /\ Has(world.edges, "member_of", p, Team(d, u))
    BY DEF Chart, Belonging
<1>4. Team(d, u) \in A /\ world.nodes[Team(d, u)].type = "Team"
    BY <1>2, <1>3 DEF Of
<1>5. ASSUME NEW t \in A, world.nodes[t].type = "Team" PROVE t = Team(d, u)
    <2>1. Tagged(t, "Team")
        BY <1>2, <1>5 DEF GraphOK, NodesOK, IsNode
    <2>2. PICK e, v : t = Team(e, v)
        BY <2>1 DEF Tagged
    <2>3. Worker(world.nodes, p, e, v)
        BY <1>2, <2>2 DEF Chart, Belonging
    <2> QED BY <2>2, <2>3 DEF Worker
<1> HIDE DEF A
<1>6. (CHOOSE t \in A : world.nodes[t].type = "Team") = Team(d, u)
    BY <1>4, <1>5
<1> QED BY <1>3, <1>6 DEF TeamOf, A, Of, NodesByType

LEMMA BothCounted ==
    ASSUME GraphOK(world), Chart(world.nodes, world.edges), IsFiniteSet(Projects(world.nodes)),
           NEW a, NEW b, a # b
    PROVE  /\ Cardinality(Both(world.nodes, world.edges, a, b)) \in Nat
           /\ Cardinality(Both(world.nodes, world.edges, a, b))
                = Cardinality(Shared(world.nodes, world.edges, a, b)) + (IF {a, b} \in Colleagues THEN 1 ELSE 0)
<1> DEFINE N == world.nodes
           E == world.edges
           S == Shared(N, E, a, b)
           B == Both(N, E, a, b)
<1>1. IsFiniteSet(S) /\ Cardinality(S) \in Nat
    <2>1. S \subseteq Projects(N)
        BY DEF Shared
    <2> QED BY <2>1, FS_Subset, FS_CardinalityType
<1>2. \A x \in DOMAIN N : Tagged(x, N[x].type)
    BY DEF GraphOK, NodesOK, IsNode
<1>3. \A x : x \in S <=> x \in B /\ Of(N, x, "Project")
    BY DEF Shared, Both, Projects, Of
<1>4. \A x : x \in B <=> x \in DOMAIN N /\ Has(E, "member_of", a, x) /\ Has(E, "member_of", b, x)
    BY DEF Both
<1>5. Chart(N, E)
    OBVIOUS
<1>6. \A p, d, u : Worker(N, p, d, u) =>
          TeamOf(world, p) = Team(d, u) /\ Team(d, u) \in NodesByType(world, "Team")
    BY TeamKnown
<1>7. {a, b} \in Colleagues <=>
          /\ a \in People(N) /\ b \in People(N) /\ TeamOf(world, a) = TeamOf(world, b)
          /\ TeamOf(world, a) \in NodesByType(world, "Team")
    <2>1. {a, b} \in Colleagues <=>
              \E x, y \in People(world.nodes) :
                  /\ x # y /\ {a, b} = {x, y} /\ TeamOf(world, x) = TeamOf(world, y)
                  /\ TeamOf(world, x) \in NodesByType(world, "Team")
        BY ColleaguesFacts
    <2>2. \A x, y : {a, b} = {x, y} => (x = a /\ y = b) \/ (x = b /\ y = a)
        OBVIOUS
    <2> QED BY <2>1, <2>2
<1>8. \A p : p \in People(N) => Worker(N, p, N[p].props.department, N[p].props.unit)
    BY DEF People, Worker, Of
<1> HIDE DEF N, E, S, B
<1>9. CASE {a, b} \in Colleagues
    <2> DEFINE d == N[a].props.department
               u == N[a].props.unit
               t == Team(d, u)
    <2>1. Worker(N, a, d, u) /\ TeamOf(world, a) = t /\ t \in NodesByType(world, "Team")
        BY <1>6, <1>7, <1>8, <1>9
    <2>2. Worker(N, b, d, u)
        BY <1>6, <1>7, <1>8, <1>9, <2>1, Ids
    <2>3. t \in B /\ t \notin S /\ N[t].type = "Team"
        BY <1>3, <1>4, <1>5, <2>1, <2>2 DEF Chart, Belonging, NodesByType, N, Of
    <2>4. ASSUME NEW x \in B, ~Of(N, x, "Project") PROVE x = t
        <3>1. Of(N, x, "Team")
            BY <1>4, <1>5, <2>4 DEF Chart, Belonging
        <3>2. PICK e, v : x = Team(e, v)
            BY <1>2, <3>1 DEF Tagged, Of
        <3>3. Worker(N, a, e, v)
            BY <1>4, <1>5, <3>2 DEF Chart, Belonging
        <3> QED BY <2>1, <3>2, <3>3 DEF Worker
    <2> HIDE DEF t
    <2>5. B = S \cup {t}
        BY <1>3, <2>3, <2>4
    <2>6. Cardinality(S \cup {t}) = Cardinality(S) + 1
        BY <1>1, <2>3, FS_AddElement
    <2> QED BY <1>1, <1>9, <2>5, <2>6 DEF S, B, N, E
<1>10. CASE {a, b} \notin Colleagues
    <2>1. ASSUME NEW x \in B, ~Of(N, x, "Project") PROVE FALSE
        <3>1. Of(N, x, "Team")
            BY <1>4, <1>5, <2>1 DEF Chart, Belonging
        <3>2. PICK e, v : x = Team(e, v)
            BY <1>2, <3>1 DEF Tagged, Of
        <3>3. Worker(N, a, e, v) /\ Worker(N, b, e, v)
            BY <1>4, <1>5, <3>2 DEF Chart, Belonging
        <3>4. a \in People(N) /\ b \in People(N)
            BY <3>3 DEF Worker, Of, People
        <3> QED BY <1>6, <1>7, <1>10, <3>3, <3>4
    <2>2. B = S
        BY <1>3, <2>1
    <2> QED BY <1>1, <1>10, <2>2 DEF S, B, N, E
<1> QED BY <1>9, <1>10

\* The weight of two people is what they share and how often one was drawn for the other.
WeightOn(E, a, b) == IF AffinityId({a, b}) \in DOMAIN E THEN E[AffinityId({a, b})].props ELSE 0
Accounted(a, b) ==
    /\ Cardinality(Both(world.nodes, world.edges, a, b)) \in Nat /\ Picked(a, b) \in Nat
    /\ WeightOn(world.edges, a, b)
         = Cardinality(Both(world.nodes, world.edges, a, b)) + Picked(a, b)
Running == Built => \A a, b : a # b => Accounted(a, b)

\* Nothing is built before affinities are written.
LEMMA NotYetBuilt ==
    ASSUME Store, Org, BuildNext, ~WriteAffinities
    PROVE  ~Built'
<1>1. CASE Raise
    BY <1>1 DEF Raise, Built
<1>2. CASE SelectArchetypes /\ ~Raise
    <2>1. \E F \in Departments : plan' = WholeOf(F)
        BY <1>2, SelectPlans DEF Store
    <2> QED BY <2>1, WholePlan DEF Built
<1>3. ASSUME NEW kind \in {"company", "open", "team", "heads", "playbook", "project"},
             Doing(kind), plan' = Tail(plan)
      PROVE  ~Built'
    <2>1. Agenda(plan, world.nodes) /\ Task1.kind = kind
        BY <1>3, OrgFound
    <2>2. /\ Len(plan) \in Nat /\ 1 \in 1..Len(plan) /\ plan[1] = Task1
          /\ Len(Tail(plan)) = Len(plan) - 1
        BY <1>3, DoingFacts
    <2>3. Len(plan) # 1
        BY <1>3, <2>1, <2>2 DEF Agenda, AffinitiesLast
    <2>4. Len(plan') # 0
        BY <1>3, <2>2, <2>3
    <2> QED BY <2>4 DEF Built
<1>4. CASE CompanyStep
    BY <1>3, <1>4 DEF CompanyStep, Wrote
<1>5. ASSUME NEW G, DeptStep(G) PROVE ~Built'
    BY <1>3, <1>5 DEF DeptStep, Wrote
<1>6. ASSUME NEW d, NEW shape, NEW n, NEW picks, TeamStep(d, shape, n, picks) PROVE ~Built'
    BY <1>3, <1>6 DEF TeamStep, Wrote
<1>7. ASSUME NEW d, HeadStep(d) PROVE ~Built'
    BY <1>3, <1>7 DEF HeadStep
<1>8. ASSUME NEW d, NEW initiative, NEW slug, NEW C, ProjectStep(d, initiative, slug, C) PROVE ~Built'
    BY <1>3, <1>8 DEF ProjectStep
<1> QED BY <1>1, <1>2, <1>4, <1>5, <1>6, <1>7, <1>8, BuildSteps

LEMMA SeededRunning ==
    ASSUME Store, Org, WriteAffinities, UNCHANGED calls
    PROVE  Running'
<1> DEFINE N == world.nodes
           E == world.edges
           A == Bumped(Colleagues)
           F == E ++ Written(A)
<1>1. AffinityStep(A) /\ AffinityOK(A) /\ world'.nodes = N /\ world'.edges = F
    BY AffinitySteps
<1>2. Doing("affinities")
    BY <1>1 DEF AffinityStep
<1>3. Chart(N, E) /\ Weighing(N, E, affinity) /\ NoAffinities(E) /\ GraphOK(world)
    BY <1>2, OrgFound
<1>4. calls = <<>>
    BY <1>2, DoingFacts
<1>5. /\ DOMAIN A = DOMAIN affinity \cup Colleagues
      /\ \A q \in DOMAIN affinity \cup Colleagues :
             A[q] = WeightOf(q) + (IF q \in Colleagues THEN 1 ELSE 0)
    <2>1. \A q \in Colleagues : IsPair(q)
        BY ColleaguesFacts DEF Store, IsPair
    <2> QED BY <2>1, BumpedFacts DEF Store
<1> HIDE DEF A
<1>6. /\ \A t, a, b : ~Has(Written(A), t, a, b)
      /\ \A q : AffinityId(q) \in DOMAIN Written(A) <=> q \in DOMAIN A
      /\ \A q \in DOMAIN A : Written(A)[AffinityId(q)].props = A[q]
    BY <1>1, WrittenFacts DEF AffinityOK
<1>7. ASSUME NEW q
      PROVE  /\ AffinityId(q) \in DOMAIN F <=> q \in DOMAIN A
             /\ q \in DOMAIN A => F[AffinityId(q)].props = A[q]
    <2>1. AffinityId(q) \notin DOMAIN E
        BY <1>3 DEF NoAffinities
    <2> QED BY <1>6, <2>1, MergedAt
<1>8. \A t, a, b : Has(F, t, a, b) <=> Has(E, t, a, b)
    BY <1>6, HasMerged
<1> HIDE DEF F
<1>9. ASSUME NEW a, NEW b, a # b
      PROVE  /\ Cardinality(Both(N, F, a, b)) \in Nat
             /\ WeightOn(F, a, b) = Cardinality(Both(N, F, a, b))
    <2> DEFINE q == {a, b}
               n == Cardinality(Shared(N, E, a, b))
    <2>1. /\ Cardinality(Both(N, E, a, b)) \in Nat
          /\ Cardinality(Both(N, E, a, b)) = n + (IF q \in Colleagues THEN 1 ELSE 0)
        BY <1>3, <1>9, BothCounted DEF Weighing
    <2>2. Both(N, F, a, b) = Both(N, E, a, b)
        BY <1>8 DEF Both
    <2>3. WeightOf(q) = n
        BY <1>3, <1>9 DEF Weighing, WeightIn, WeightOf
    <2> HIDE DEF n
    <2>4. WeightOn(F, a, b) = IF q \in DOMAIN A THEN A[q] ELSE 0
        BY <1>7 DEF WeightOn
    <2> HIDE DEF q
    <2>5. CASE q \in DOMAIN A
        BY <1>5, <2>1, <2>2, <2>3, <2>4, <2>5
    <2>6. CASE q \notin DOMAIN A
        <3>1. n = 0 /\ q \notin Colleagues
            BY <1>5, <2>3, <2>6 DEF WeightOf
        <3> QED BY <2>1, <2>2, <2>4, <2>6, <3>1
    <2> QED BY <2>5, <2>6
<1>10. \A a, b : Picked(a, b)' = 0
    <2>1. \A a, b : Picked(a, b)' = Picked(a, b)
        BY DEF Picked, Times
    <2> QED BY <1>4, <2>1, PickedNever
<1>11. ASSUME NEW a, NEW b, a # b PROVE Accounted(a, b)'
    BY <1>1, <1>9, <1>10, <1>11 DEF Accounted
<1> QED BY <1>11 DEF Running

\* One was drawn for the other, the anchor.
DrawnFor(s, picks, a, b) == a = s.anchor /\ \E i \in DOMAIN picks : picks[i] = b

LEMMA DrawnIds ==
    ASSUME NEW s, NEW picks, NEW a, NEW b, a # b
    PROVE  AffinityId({a, b}) \in Drawn(s, picks) <=> DrawnFor(s, picks, a, b) \/ DrawnFor(s, picks, b, a)
<1>1. \A q, r : AffinityId(q) = AffinityId(r) <=> q = r
    BY AffinityIds
<1>2. AffinityId({a, b}) \in Drawn(s, picks) <=> \E i \in DOMAIN picks : {a, b} = {picks[i], s.anchor}
    <2>1. \A e : e \in Drawn(s, picks) <=> \E i \in DOMAIN picks : e = AffinityId({picks[i], s.anchor})
        BY DEF Drawn
    <2>2. \A i : AffinityId({a, b}) = AffinityId({picks[i], s.anchor}) <=> {a, b} = {picks[i], s.anchor}
        BY <1>1
    <2>3. AffinityId({a, b}) \in Drawn(s, picks)
            <=> \E i \in DOMAIN picks : AffinityId({a, b}) = AffinityId({picks[i], s.anchor})
        BY <2>1
    <2> QED BY <2>2, <2>3, Zenon
<1>3. \A x : {a, b} = {x, s.anchor} <=> (a = s.anchor /\ x = b) \/ (b = s.anchor /\ x = a)
    OBVIOUS
<1>4. (\E i \in DOMAIN picks : {a, b} = {picks[i], s.anchor})
        <=> \E i \in DOMAIN picks : (a = s.anchor /\ picks[i] = b) \/ (b = s.anchor /\ picks[i] = a)
    BY <1>3
<1> QED BY <1>2, <1>4 DEF DrawnFor

LEMMA TimesFacts ==
    ASSUME NEW k \in Nat, NEW picks, DOMAIN picks = 1..k, NEW p
    PROVE  /\ Times(picks, p) \in Nat
           /\ (\A i \in DOMAIN picks : picks[i] # p) => Times(picks, p) = 0
<1> DEFINE S == {i \in DOMAIN picks : picks[i] = p}
<1>1. IsFiniteSet(1..k)
    BY FS_Interval
<1>2. IsFiniteSet(S)
    BY <1>1, FS_Subset
<1>3. Cardinality(S) \in Nat
    BY <1>2, FS_CardinalityType
<1>4. (\A i \in DOMAIN picks : picks[i] # p) => S = {}
    OBVIOUS
<1> HIDE DEF S
<1>5. S = {} => Cardinality(S) = 0
    BY FS_EmptySet
<1> QED BY <1>3, <1>4, <1>5 DEF Times, S

\* What a call adds to a weight.
LEMMA WeightMore ==
    ASSUME Store, NEW s, NEW k, NEW picks, ResolveStep(s, k, picks), NEW a, NEW b, a # b,
           NEW c, c = [sel |-> s, at |-> now, picks |-> picks], WeightOn(world.edges, a, b) \in Nat
    PROVE  /\ PicksIn(c, a, b) \in Nat
           /\ WeightOn(world'.edges, a, b) = WeightOn(world.edges, a, b) + PicksIn(c, a, b)
<1> DEFINE E == world.edges
           F == world'.edges
           e == AffinityId({a, b})
<1>1. ResolveWritten(E, s, picks, F)
    BY ResolveWrites
<1>2. k \in Nat /\ DOMAIN picks = 1..k
    BY DEF ResolveStep
<1>3. \A i \in DOMAIN picks : picks[i] # s.anchor
    BY CandidatesFacts DEF Store, ResolveStep
<1>4. WeightOn(E, a, b) = (IF e \in DOMAIN E THEN E[e].props ELSE 0)
      /\ WeightOn(F, a, b) = (IF e \in DOMAIN F THEN F[e].props ELSE 0)
    BY DEF WeightOn
<1>5. PicksIn(c, a, b) = IF s.anchor = a THEN Times(picks, b)
                         ELSE IF s.anchor = b THEN Times(picks, a) ELSE 0
    BY DEF PicksIn
<1>6. PicksIn(c, a, b) \in Nat
    BY <1>2, <1>5, TimesFacts
<1>7. e \in Drawn(s, picks) <=> DrawnFor(s, picks, a, b) \/ DrawnFor(s, picks, b, a)
    BY DrawnIds
<1>8. \A q : AffinityId(q) \notin Drawn(s, picks) =>
          /\ AffinityId(q) \in DOMAIN F <=> AffinityId(q) \in DOMAIN E
          /\ AffinityId(q) \in DOMAIN E => F[AffinityId(q)] = E[AffinityId(q)]
    BY <1>1 DEF ResolveWritten
<1>9. DOMAIN F = (DOMAIN E \cup DOMAIN Linked(s, picks)) \cup Drawn(s, picks)
    BY <1>1 DEF ResolveWritten
<1>10. ASSUME NEW i \in DOMAIN picks
       PROVE  F[AffinityId({picks[i], s.anchor})].props
                = IF AffinityId({picks[i], s.anchor}) \in DOMAIN E
                  THEN E[AffinityId({picks[i], s.anchor})].props + Times(picks, picks[i])
                  ELSE Times(picks, picks[i])
    BY <1>1 DEF ResolveWritten
<1>11. e \notin Drawn(s, picks) => (e \in DOMAIN F <=> e \in DOMAIN E) /\ (e \in DOMAIN E => F[e] = E[e])
    BY <1>8
<1>12. {a, b} = {b, a}
    OBVIOUS
<1>13. e \in Drawn(s, picks) =>
           \E i \in DOMAIN picks :
               e = AffinityId({picks[i], s.anchor}) /\ PicksIn(c, a, b) = Times(picks, picks[i])
    <2>1. CASE DrawnFor(s, picks, a, b)
        <3>1. PICK i \in DOMAIN picks : a = s.anchor /\ picks[i] = b
            BY <2>1 DEF DrawnFor
        <3>2. e = AffinityId({picks[i], s.anchor}) /\ PicksIn(c, a, b) = Times(picks, picks[i])
            BY <1>5, <1>12, <3>1
        <3> QED BY <3>2
    <2>2. CASE DrawnFor(s, picks, b, a)
        <3>1. PICK i \in DOMAIN picks : b = s.anchor /\ picks[i] = a
            BY <2>2 DEF DrawnFor
        <3>2. e = AffinityId({picks[i], s.anchor}) /\ PicksIn(c, a, b) = Times(picks, picks[i])
            BY <1>5, <3>1
        <3> QED BY <3>2
    <2> QED BY <1>7, <2>1, <2>2
<1> HIDE DEF E, F, e
<1>14. CASE e \in Drawn(s, picks)
    <2>2. PICK i \in DOMAIN picks :
              e = AffinityId({picks[i], s.anchor}) /\ PicksIn(c, a, b) = Times(picks, picks[i])
        BY <1>13, <1>14
    <2>3. F[e].props = IF e \in DOMAIN E THEN E[e].props + PicksIn(c, a, b) ELSE PicksIn(c, a, b)
        BY <1>10, <2>2
    <2>4. e \in DOMAIN F
        BY <1>9, <1>14
    <2> QED BY <1>4, <1>6, <2>3, <2>4 DEF E, F
<1>15. CASE e \notin Drawn(s, picks)
    <2>1. PicksIn(c, a, b) = 0
        BY <1>2, <1>5, <1>7, <1>15, TimesFacts DEF DrawnFor
    <2> QED BY <1>4, <1>11, <1>15, <2>1 DEF E, F
<1> QED BY <1>6, <1>14, <1>15

LEMMA RunningStep ==
    ASSUME Store, Org, Running, [Next]_vars
    PROVE  Running'
<1>1. CASE Build
    BY <1>1, NotYetBuilt, SeededRunning DEF Build, Running
<1>2. CASE Resolve
    <2>1. PICK s, k, picks : ResolveStep(s, k, picks)
        BY <1>2, ResolveSteps
    <2> DEFINE c == [sel |-> s, at |-> now, picks |-> picks]
               T == CallsOn(DOMAIN world'.nodes)
    <2>2. world'.nodes = world.nodes /\ ResolveWritten(world.edges, s, picks, world'.edges)
        BY <2>1, ResolveWrites
    <2>3. Store'
        BY <1>2, ResolveStore
    <2>4. calls \in Seq(T) /\ calls' = Append(calls, c) /\ Built
        BY <2>1, <2>2 DEF Store, ResolveStep
    <2>5. c \in T
        <3>1. calls' \in Seq(T) /\ Len(calls') = Len(calls) + 1 /\ calls'[Len(calls) + 1] = c /\ Len(calls) \in Nat
            BY <2>3, <2>4 DEF Store
        <3> HIDE DEF c, T
        <3> QED BY <3>1
    <2> HIDE DEF c, T
    <2>6. ASSUME NEW a, NEW b, a # b PROVE Accounted(a, b)'
        <3>1. Accounted(a, b)
            BY <2>4, <2>6 DEF Running
        <3>2. WeightOn(world.edges, a, b) \in Nat
            BY <3>1 DEF Accounted
        <3>3. /\ PicksIn(c, a, b) \in Nat
              /\ WeightOn(world'.edges, a, b) = WeightOn(world.edges, a, b) + PicksIn(c, a, b)
            BY <2>1, <2>6, <3>2, WeightMore DEF c
        <3>4. Picked(a, b)' = Picked(a, b) + PicksIn(c, a, b)
            BY <2>4, <2>5, PickedMore
        <3>5. Both(world'.nodes, world'.edges, a, b) = Both(world.nodes, world.edges, a, b)
            <4>1. \A x : /\ Has(world'.edges, "member_of", a, x) <=> Has(world.edges, "member_of", a, x)
                         /\ Has(world'.edges, "member_of", b, x) <=> Has(world.edges, "member_of", b, x)
                BY <2>2 DEF ResolveWritten
            <4> QED BY <2>2, <4>1 DEF Both
        <3> QED BY <3>1, <3>3, <3>4, <3>5 DEF Accounted
    <2> QED BY <2>6 DEF Running
<1>3. CASE UNCHANGED <<plan, raised, world, calls>>
    <2>1. \A a, b : Accounted(a, b)' <=> Accounted(a, b)
        BY <1>3 DEF Accounted, Picked, Times
    <2> QED BY <1>3, <2>1 DEF Running, Built
<1>4. Advance \/ UNCHANGED vars => UNCHANGED <<plan, raised, world, calls>>
    BY DEF Advance, vars, buildVars
<1> QED BY <1>1, <1>2, <1>3, <1>4 DEF Next

LEMMA RunningInit == Init => Running
BY DEF Init, BuildInit, Running, Built

LEMMA AccountsSound ==
    ASSUME Store, Running
    PROVE  AffinityAccounts
<1>1. SUFFICES ASSUME Built, NEW e \in {f \in DOMAIN world.edges : world.edges[f].type = "collaborates_with"}
               PROVE  LET a == world.edges[e].src
                          b == world.edges[e].dst
                          On(id) == Neighbors(world, id, "member_of", "out")
                      IN /\ e = AffinityId({a, b})
                         /\ world.edges[e].props = Cardinality(On(a) \cap On(b)) + Picked(a, b)
    BY Zenon DEF AffinityAccounts
<1> DEFINE a == world.edges[e].src
           b == world.edges[e].dst
<1>2. e = AffinityId({a, b}) /\ a # b
    BY <1>1 DEF Store, GraphOK, EdgesOK, Keyed
<1>3. Accounted(a, b)
    BY <1>1, <1>2 DEF Running
<1>4. "member_of" \in Ordinary /\ EdgesOK(world.edges)
    BY DEF Ordinary, Store, GraphOK
<1>5. \A x : Neighbors(world, x, "member_of", "out")
                = {y \in DOMAIN world.nodes : Has(world.edges, "member_of", x, y)}
    BY <1>4, NeighborsNamed DEF Has
<1>6. Neighbors(world, a, "member_of", "out") \cap Neighbors(world, b, "member_of", "out")
        = Both(world.nodes, world.edges, a, b)
    BY <1>5 DEF Both
<1>7. world.edges[e].props = WeightOn(world.edges, a, b)
    BY <1>1, <1>2 DEF WeightOn
<1> QED BY <1>2, <1>3, <1>6, <1>7 DEF Accounted

-----------------------------------------------------------------------------
(* How much anyone carries.                                                *)

NoReviews(E) == \A e \in DOMAIN E : E[e].type # "reviews_for"
Called(p) == \E i \in DOMAIN calls : calls[i].sel.anchor = p

\* Relationships lead to anchors of calls, and whoever is none has what the capacity allows.
Caps ==
    /\ calls = <<>> => NoReviews(world.edges)
    /\ \A e \in DOMAIN world.edges : world.edges[e].type = "reviews_for" => Called(world.edges[e].dst)
    /\ capacity # None => \A p \in People(world.nodes) :
           \/ Called(p)
           \/ /\ IsFiniteSet(OutEdges(world, p, "reviews_for"))
              /\ Cardinality(OutEdges(world, p, "reviews_for")) <= capacity

LEMMA CapsAtFirst ==
    ASSUME Store, calls = <<>>, NoReviews(world.edges)
    PROVE  Caps
<1>1. \A p : OutEdges(world, p, "reviews_for") = {}
    BY DEF NoReviews, OutEdges
<1>2. IsFiniteSet({}) /\ Cardinality({}) = 0
    BY FS_EmptySet
<1>3. capacity # None => capacity \in Nat
    BY ResolverAssumption DEF Store
<1>4. capacity # None => 0 <= capacity
    BY <1>3
<1> QED BY <1>1, <1>2, <1>4 DEF NoReviews, Caps

LEMMA NoReviewsAdded ==
    ASSUME NEW E, NEW F, NoReviews(E), NoReviews(F)
    PROVE  NoReviews(E ++ F)
BY MergedAt DEF NoReviews

LEMMA PlainlyNoReviews ==
    ASSUME NEW E, Plainly(E)
    PROVE  NoReviews(E)
BY DEF Plainly, NoReviews, Ordinary

LEMMA BuildReviews ==
    ASSUME Store, BuildNext, NoReviews(world.edges)
    PROVE  NoReviews(world'.edges)
<1>1. ASSUME NEW w, w.edges = world.edges, NEW ns, NEW es, Plainly(es), world' = Added(w, ns, es)
      PROVE  NoReviews(world'.edges)
    BY <1>1, AddedFacts, PlainlyNoReviews, NoReviewsAdded
<1>2. CASE Raise \/ (SelectArchetypes /\ ~Raise)
    <2>1. world' = world
        BY <1>2, SelectPlans DEF Raise, Store
    <2> QED BY <2>1
<1>3. CASE CompanyStep
    BY <1>1, <1>3, CompanyPlainly DEF CompanyStep, Wrote
<1>4. ASSUME NEW G, DeptStep(G) PROVE NoReviews(world'.edges)
    BY <1>1, <1>4, DeptPlainly DEF DeptStep, Wrote
<1>5. ASSUME NEW d, NEW shape, NEW n, NEW picks, TeamStep(d, shape, n, picks)
      PROVE  NoReviews(world'.edges)
    BY <1>1, <1>5, TeamPlainly DEF TeamStep, Wrote
<1>6. ASSUME NEW d, HeadStep(d) PROVE NoReviews(world'.edges)
    BY <1>1, <1>6, HeadPlainly, MarkedFacts DEF HeadStep, Store
<1>7. ASSUME NEW d, NEW initiative, NEW slug, NEW C, ProjectStep(d, initiative, slug, C)
      PROVE  NoReviews(world'.edges)
    BY <1>1, <1>7, ProjectPlainly DEF ProjectStep
<1>8. CASE WriteAffinities
    <2> DEFINE A == Bumped(Colleagues)
    <2>1. AffinityOK(A) /\ world'.edges = world.edges ++ Written(A)
        BY <1>8, AffinitySteps
    <2> HIDE DEF A
    <2>2. NoReviews(Written(A))
        BY <2>1, WrittenFacts DEF AffinityOK, NoReviews
    <2> QED BY <2>1, <2>2, NoReviewsAdded
<1> QED BY <1>2, <1>3, <1>4, <1>5, <1>6, <1>7, <1>8, BuildSteps

LEMMA BuildCaps ==
    ASSUME Store, Caps, Build
    PROVE  Caps'
<1>1. BuildNext /\ UNCHANGED <<capacity, now, calls>>
    BY DEF Build
<1>2. calls = <<>>
    BY <1>1, DoingFacts DEF BuildNext, SelectArchetypes, BuildCompany, OpenDepartment, BuildTeam, AppointHead,
            BuildPlaybook, BuildConfigProject, WriteAffinities
<1>3. NoReviews(world'.edges)
    BY <1>1, <1>2, BuildReviews DEF Caps
<1>4. Store'
    BY BuildStore
<1>5. (Store /\ calls = <<>> /\ NoReviews(world.edges) => Caps)'
    BY CapsAtFirst, PTL
<1> QED BY <1>1, <1>2, <1>3, <1>4, <1>5

LEMMA CapsInit == Init => Caps
<1>1. SUFFICES ASSUME Init PROVE NoReviews(world.edges)
    BY StoreInit, CapsAtFirst DEF Init
<1>2. world.edges = <<>>
    BY <1>1 DEF Init, BuildInit, EmptyWorld
<1> QED BY <1>2 DEF NoReviews

\* What one call adds to whoever it draws.
LEMMA CapacityHeld ==
    ASSUME Store, Caps, NEW s, NEW k, NEW picks, ResolveStep(s, k, picks), capacity # None,
           NEW p \in People(world.nodes), p # s.anchor, ~Called(p)
    PROVE  /\ IsFiniteSet(OutEdges(world', p, "reviews_for"))
           /\ Cardinality(OutEdges(world', p, "reviews_for")) <= capacity
<1> DEFINE E == world.edges
           F == world'.edges
           Out == OutEdges(world, p, "reviews_for")
           More == OutEdges(world', p, "reviews_for")
           r == <<"reviews_for", p, s.anchor, now>>
<1>1. ResolveWritten(E, s, picks, F)
    BY ResolveWrites
<1>2. IsFiniteSet(Out) /\ Cardinality(Out) <= capacity /\ Cardinality(Out) \in Nat /\ capacity \in Nat
    BY FS_CardinalityType, ResolverAssumption DEF Caps, Store
<1>3. \A e \in DOMAIN E : F[e].type = E[e].type /\ F[e].src = E[e].src
    BY <1>1 DEF ResolveWritten
<1>4. ASSUME NEW e \in More, e \notin DOMAIN E
      PROVE  e = r /\ \E i \in DOMAIN picks : picks[i] = p
    <2>1. e \in DOMAIN F /\ F[e].type = "reviews_for" /\ F[e].src = p
        BY <1>4 DEF OutEdges
    <2>2. /\ F[e].at = now /\ F[e].dst = s.anchor
          /\ \E i \in DOMAIN picks : F[e].src = picks[i]
        BY <1>1, <1>4, <2>1 DEF ResolveWritten
    <2>3. Keyed(e, F[e])
        BY <1>1, <2>1 DEF ResolveWritten, EdgesOK
    <2> QED BY <2>1, <2>2, <2>3 DEF Keyed
<1>5. \A e \in DOMAIN E : e \in More => e \in Out
    BY <1>3 DEF OutEdges
<1>6. CASE \E i \in DOMAIN picks : picks[i] = p
    <2>1. p \in Candidates(s)
        BY <1>6 DEF ResolveStep
    <2>2. Load(world, p) < capacity
        BY <2>1 DEF Candidates
    <2>3. InEdges(world, p, "reviews_for") = {}
        BY DEF Caps, InEdges
    <2>4. Cardinality(InEdges(world, p, "reviews_for")) = 0
        BY <2>3, FS_EmptySet
    <2>5. Cardinality(Out) < capacity
        BY <1>2, <2>2, <2>4 DEF Load
    <2> HIDE DEF Out, More, r
    <2>6. More \subseteq Out \cup {r}
        BY <1>4, <1>5
    <2>7. IsFiniteSet(Out \cup {r}) /\ Cardinality(Out \cup {r}) <= Cardinality(Out) + 1
        <3>1. IsFiniteSet(Out \cup {r})
              /\ Cardinality(Out \cup {r}) = IF r \in Out THEN Cardinality(Out) ELSE Cardinality(Out) + 1
            BY <1>2, FS_AddElement
        <3> QED BY <1>2, <3>1
    <2>8. /\ IsFiniteSet(More) /\ Cardinality(More) <= Cardinality(Out \cup {r})
          /\ Cardinality(More) \in Nat /\ Cardinality(Out \cup {r}) \in Nat
        BY <2>6, <2>7, FS_Subset, FS_CardinalityType
    <2>9. Cardinality(More) <= capacity
        BY <1>2, <2>5, <2>7, <2>8
    <2> QED BY <2>8, <2>9 DEF More
<1>7. CASE ~\E i \in DOMAIN picks : picks[i] = p
    <2> HIDE DEF Out, More, r
    <2>1. More \subseteq Out
        BY <1>4, <1>5, <1>7
    <2>2. IsFiniteSet(More) /\ Cardinality(More) <= Cardinality(Out) /\ Cardinality(More) \in Nat
        BY <1>2, <2>1, FS_Subset, FS_CardinalityType
    <2>3. Cardinality(More) <= capacity
        BY <1>2, <2>2
    <2> QED BY <2>2, <2>3 DEF More
<1> QED BY <1>6, <1>7

LEMMA ResolveCaps ==
    ASSUME Store, Caps, Resolve
    PROVE  Caps'
<1>1. PICK s, k, picks : ResolveStep(s, k, picks)
    BY ResolveSteps
<1> DEFINE c == [sel |-> s, at |-> now, picks |-> picks]
           n == Len(calls)
<1>2. n \in Nat /\ calls' = Append(calls, c) /\ UNCHANGED capacity
    BY <1>1 DEF Store, ResolveStep
<1>3. DOMAIN calls = 1..n /\ DOMAIN calls' = 1..(n+1)
      /\ (\A i \in 1..n : calls'[i] = calls[i]) /\ calls'[n+1] = c
    BY <1>2 DEF Store
<1>4. c.sel = s
    OBVIOUS
<1> HIDE DEF c, n
<1>5. \A p : (\E i \in DOMAIN calls' : calls'[i].sel.anchor = p) <=> Called(p) \/ p = s.anchor
    BY <1>2, <1>3, <1>4 DEF Called
<1>6. world'.nodes = world.nodes /\ ResolveWritten(world.edges, s, picks, world'.edges)
    BY <1>1, ResolveWrites
<1>7. calls' # <<>>
    BY <1>2, <1>3
<1>8. ASSUME NEW e \in DOMAIN world'.edges, world'.edges[e].type = "reviews_for"
      PROVE  \E i \in DOMAIN calls' : calls'[i].sel.anchor = world'.edges[e].dst
    <2>1. CASE e \in DOMAIN world.edges
        <3>1. world.edges[e].type = "reviews_for" /\ world'.edges[e].dst = world.edges[e].dst
            BY <1>6, <1>8, <2>1 DEF ResolveWritten
        <3>2. Called(world.edges[e].dst)
            BY <2>1, <3>1 DEF Caps
        <3> QED BY <1>5, <3>1, <3>2
    <2>2. CASE e \notin DOMAIN world.edges
        <3>1. world'.edges[e].dst = s.anchor
            BY <1>6, <1>8, <2>2 DEF ResolveWritten
        <3> QED BY <1>5, <3>1
    <2> QED BY <2>1, <2>2
<1>9. ASSUME NEW p \in People(world.nodes), capacity # None,
             ~\E i \in DOMAIN calls' : calls'[i].sel.anchor = p
      PROVE  /\ IsFiniteSet(OutEdges(world', p, "reviews_for"))
             /\ Cardinality(OutEdges(world', p, "reviews_for")) <= capacity
    BY <1>1, <1>5, <1>9, CapacityHeld
<1> QED BY <1>2, <1>6, <1>7, <1>8, <1>9 DEF Caps, Called

LEMMA CapsStep ==
    ASSUME Store, Caps, [Next]_vars
    PROVE  Caps'
<1>1. CASE Build
    BY <1>1, BuildCaps
<1>2. CASE Resolve
    BY <1>2, ResolveCaps
<1>3. CASE UNCHANGED <<world, calls, capacity>>
    <2>1. \A p : Called(p)' <=> Called(p)
        BY <1>3 DEF Called
    <2> QED BY <1>3, <2>1 DEF Caps
<1>4. Advance \/ UNCHANGED vars => UNCHANGED <<world, calls, capacity>>
    BY DEF Advance, vars, buildVars
<1> QED BY <1>1, <1>2, <1>3, <1>4 DEF Next

LEMMA CapacitySound ==
    ASSUME Caps
    PROVE  CapacityKept
<1>1. SUFFICES ASSUME capacity # None, NEW p \in NodesByType(world, "Person"), ~Called(p)
               PROVE  Load(world, p) <= capacity
    BY DEF CapacityKept, Called
<1>2. p \in People(world.nodes)
    BY DEF NodesByType, People
<1>3. IsFiniteSet(OutEdges(world, p, "reviews_for")) /\ Cardinality(OutEdges(world, p, "reviews_for")) <= capacity
    BY <1>1, <1>2 DEF Caps
<1>4. InEdges(world, p, "reviews_for") = {}
    BY <1>1 DEF Caps, InEdges
<1>5. Cardinality(InEdges(world, p, "reviews_for")) = 0
    BY <1>4, FS_EmptySet
<1>6. Cardinality(OutEdges(world, p, "reviews_for")) \in Nat
    BY <1>3, FS_CardinalityType
<1> QED BY <1>3, <1>5, <1>6 DEF Load

\* However often a simulation draws people, and however many of them at once, the weight of two
\* of them is what the builder seeded and every time one was drawn for the other, on one edge,
\* and whoever is never an anchor carries no more than the capacity (builder.py, resolver.py).
THEOREM AccountedCalls == Spec => []CallsAccounted
<1>1. Init => Org /\ Running /\ Caps
    BY OrgInit, RunningInit, CapsInit
<1>2. Store /\ (Org /\ Running /\ Caps) /\ [Next]_vars => (Org /\ Running /\ Caps)'
    BY OrgStep, RunningStep, CapsStep
<1>3. Store /\ (Org /\ Running /\ Caps) => CallsAccounted
    BY AccountsSound, CapacitySound DEF CallsAccounted
<1> QED BY <1>1, <1>2, <1>3, WorldTypes, PTL DEF Spec

\* The weight of an affinity is a number, and a call adds to it or leaves it.
LEMMA WeightNeverFalls ==
    ASSUME Store, Running, NEW s, NEW k, NEW picks, ResolveStep(s, k, picks),
           NEW e \in DOMAIN world.edges, world.edges[e].type = "collaborates_with"
    PROVE  world'.edges[e] = world.edges[e] \/ Heavier(world.edges[e], world'.edges[e])
<1> DEFINE E == world.edges
           F == world'.edges
           c == [sel |-> s, at |-> now, picks |-> picks]
<1>1. PICK a, b : a # b /\ e = AffinityId({a, b})
    BY DEF Store, GraphOK, EdgesOK, Keyed
<1>2. WeightOn(E, a, b) = E[e].props
    BY <1>1 DEF WeightOn
<1>3. E[e].props \in Nat
    BY <1>1, <1>2 DEF Running, Accounted, ResolveStep
<1>4. PicksIn(c, a, b) \in Nat /\ WeightOn(F, a, b) = E[e].props + PicksIn(c, a, b)
    BY <1>1, <1>2, <1>3, WeightMore
<1>5. ResolveWritten(E, s, picks, F)
    BY ResolveWrites
<1>6. e \in DOMAIN F /\ WeightOn(F, a, b) = F[e].props
    BY <1>1, <1>5 DEF ResolveWritten, WeightOn
<1>7. /\ E[e] = [type |-> E[e].type, src |-> E[e].src, dst |-> E[e].dst, at |-> E[e].at, props |-> E[e].props]
      /\ F[e] = [type |-> E[e].type, src |-> E[e].src, dst |-> E[e].dst, at |-> E[e].at, props |-> F[e].props]
    <2>1. IsEdge(E[e])
        BY DEF Store, GraphOK, EdgesOK
    <2>2. /\ F[e].type = E[e].type /\ F[e].src = E[e].src /\ F[e].dst = E[e].dst /\ F[e].at = E[e].at
          /\ F[e] = [type |-> F[e].type, src |-> F[e].src, dst |-> F[e].dst, at |-> F[e].at, props |-> F[e].props]
        BY <1>5 DEF ResolveWritten
    <2> QED BY <2>1, <2>2 DEF IsEdge
<1> HIDE DEF E, F, c
<1>8. F[e].props = E[e].props => F[e] = E[e]
    BY <1>7
<1>9. F[e] = [E[e] EXCEPT !.props = F[e].props]
    BY <1>7
<1>10. F[e].props = E[e].props \/ F[e].props > E[e].props
    BY <1>3, <1>4, <1>6
<1> QED BY <1>8, <1>9, <1>10 DEF Heavier, E, F

\* Views as of the past keep their nodes and edges, and what these hold but the weights of
\* affinities, which only rise, whatever a call writes (resolver.py; graph.py, projection).
THEOREM PastKept == Spec => PastElementsKept
<1>1. ASSUME Store, Running, [Next]_vars
      PROVE  [\A t \in 0..(now - 1) : Built =>
          Keeps(Projection(world, t, None, None, None), Projection(world', t, None, None, None))]_vars
    <2> DEFINE past(t) == Projection(world, t, None, None, None)
               seen(t) == Projection(world', t, None, None, None)
    <2>1. SUFFICES ASSUME NEW t \in 0..(now - 1), Built, ~UNCHANGED vars
                   PROVE  Keeps(past(t), seen(t))
        OBVIOUS
    <2>2. now \in Nat /\ t < now /\ t \in Nat
        BY <1>1 DEF Store
    <2>3. ~Build
        BY <2>1 DEF Build, BuildNext, SelectArchetypes, BuildCompany, OpenDepartment, BuildTeam, AppointHead,
                    BuildPlaybook, BuildConfigProject, WriteAffinities, Doing, Built
    <2>4. CASE Advance
        <3>1. world' = world
            BY <2>4 DEF Advance, buildVars
        <3> QED BY <3>1 DEF Keeps
    <2>5. CASE Resolve
        <3>1. PICK s, k, picks : ResolveStep(s, k, picks)
            BY <1>1, <2>5, ResolveSteps
        <3> DEFINE E == world.edges
                   F == world'.edges
                   D == {e \in DOMAIN E : E[e].at <= t}
                   G == {e \in DOMAIN F : F[e].at <= t}
        <3>2. world'.nodes = world.nodes /\ ResolveWritten(E, s, picks, F)
            BY <1>1, <3>1, ResolveWrites
        <3>3. seen(t).nodes = past(t).nodes
            BY <3>2 DEF Projection
        <3>4. past(t).edges = [e \in D |-> E[e]] /\ seen(t).edges = [e \in G |-> F[e]]
            BY DEF Projection
        <3>5. \A e \in D : F[e] = E[e] \/ Heavier(E[e], F[e])
            <4>1. SUFFICES ASSUME NEW e \in D PROVE F[e] = E[e] \/ Heavier(E[e], F[e])
                OBVIOUS
            <4>2. CASE E[e].type = "collaborates_with"
                BY <1>1, <3>1, <4>2, WeightNeverFalls
            <4>3. CASE E[e].type # "collaborates_with"
                <5>1. \A q : e # AffinityId(q)
                    <6>1. Keyed(e, E[e])
                        BY <1>1 DEF Store, GraphOK, EdgesOK, E
                    <6>2. CASE E[e].type = "reviews_for"
                        <7>1. e = <<"reviews_for", E[e].src, E[e].dst, E[e].at>>
                            BY <6>1, <6>2 DEF Keyed
                        <7> QED BY <7>1, AffinityIds
                    <6>3. CASE E[e].type # "reviews_for"
                        <7>1. e = <<E[e].type, E[e].src, E[e].dst>>
                            BY <4>3, <6>1, <6>3 DEF Keyed
                        <7> QED BY <7>1, AffinityIds
                    <6> QED BY <6>2, <6>3
                <5>2. e \notin Drawn(s, picks)
                    BY <5>1 DEF Drawn
                <5> QED BY <3>2, <5>2 DEF ResolveWritten
            <4> QED BY <4>2, <4>3
        <3> HIDE DEF E, F
        <3>6. D = G
            <4>1. ASSUME NEW e PROVE e \in D <=> e \in G
                <5>1. CASE e \in DOMAIN E
                    BY <3>2, <5>1 DEF ResolveWritten
                <5>2. CASE e \notin DOMAIN E
                    BY <2>2, <3>2, <5>2 DEF ResolveWritten
                <5> QED BY <5>1, <5>2
            <4> QED BY <4>1
        <3> HIDE DEF D, G, past, seen
        <3>7. /\ DOMAIN past(t).edges = D /\ DOMAIN seen(t).edges = D
              /\ \A e \in D : past(t).edges[e] = E[e] /\ seen(t).edges[e] = F[e]
            BY <3>4, <3>6
        <3> QED BY <3>3, <3>5, <3>7 DEF Keeps
    <2> QED BY <1>1, <2>1, <2>3, <2>4, <2>5 DEF Next
<1>2. Init => Org /\ Running
    BY OrgInit, RunningInit
<1>3. Store /\ (Org /\ Running) /\ [Next]_vars => (Org /\ Running)'
    BY OrgStep, RunningStep
<1> QED BY <1>1, <1>2, <1>3, WorldTypes, PTL DEF Spec, PastElementsKept
=============================================================================
