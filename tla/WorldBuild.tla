----------------------------- MODULE WorldBuild -----------------------------
(***************************************************************************)
(* build_world (world_builders/builder.py): Layer A turns a configuration   *)
(* into the org chart, initiatives, projects and latent affinities of one   *)
(* company, all at instant 0.  The builder is sequential; plan lists what   *)
(* it has left to do, and what a seeded draw decides is a choice.           *)
(*                                                                         *)
(* An id is a tuple that starts with its kind.  Slugs are model values:     *)
(* two texts have one slug when the constants say so.  Titles, expertise,   *)
(* seniority and the wording of goals are left out.                         *)
(***************************************************************************)
EXTENDS WorldGraph, Sequences, SequencesExt

CONSTANTS
    Archetypes,   \* registered specs: name -> [teams, playbooks, role]
    Playbooks,    \* names of the registered playbooks
    DeliverySlug, \* the slug of the project a playbook of a department opens
    Sizes,        \* size bands: name -> [goals, departments, quarters]
    Names,        \* slugs of names of people
    Configs,      \* the configurations to build from
    None

\* What archetype_sanity asks of a template, and the built-in ones satisfy.
ASSUME ArchetypeAssumption ==
    /\ IsFiniteSet(DOMAIN Archetypes)
    /\ \A a \in DOMAIN Archetypes :
           /\ Archetypes[a].teams \in Seq(Range(Archetypes[a].teams))
           /\ Archetypes[a].playbooks \in Seq(Range(Archetypes[a].playbooks))
           /\ Archetypes[a].teams # <<>>
           /\ \A i \in DOMAIN Archetypes[a].teams :
                  /\ Archetypes[a].teams[i].lo \in Nat /\ Archetypes[a].teams[i].hi \in Nat
                  /\ 1 <= Archetypes[a].teams[i].lo
                  /\ Archetypes[a].teams[i].lo <= Archetypes[a].teams[i].hi

\* What a configuration is once it is parsed.
ASSUME ConfigAssumption ==
    /\ \A c \in Configs :
           /\ c.size \in DOMAIN Sizes
           /\ c.departments \in Seq(Range(c.departments)) /\ c.projects \in Seq(Range(c.projects))
    /\ \A z \in DOMAIN Sizes :
           Sizes[z].goals \in Nat /\ Sizes[z].departments \in Nat /\ Sizes[z].quarters \in Nat

VARIABLES
    config,
    plan,      \* what is left to build, in order
    world,
    affinity,  \* pairs of people -> weight, before it is written
    raised     \* the builder has raised: no world is returned

buildVars == <<config, plan, world, affinity, raised>>

Task(kind, d, arg) == [kind |-> kind, dept |-> d, arg |-> arg]

BuildInit ==
    /\ config \in Configs
    /\ plan = <<Task("select", None, None)>>
    /\ world = EmptyWorld
    /\ affinity = <<>>
    /\ raised = FALSE

-----------------------------------------------------------------------------
(* What to build.                                                          *)

Explicit == config.departments # <<>>

\* The primary one by vertical, else the first by name; then the others.
ByVertical ==
    LET All == SetToSeq(DOMAIN Archetypes)
        First == IF config.vertical \in DOMAIN Archetypes THEN config.vertical ELSE All[1]
        Ordered == <<First>> \o RemoveFirst(All, First)
        Limit == Sizes[config.size].departments
    IN SubSeq(Ordered, 1, IF Limit < Len(Ordered) THEN Limit ELSE Len(Ordered))

Selected == IF Explicit THEN config.departments ELSE ByVertical

\* A project without a department belongs to the primary one.
Target(project) ==
    IF project.department = None THEN Selected[1] ELSE project.department

UnknownName ==
    \/ \E i \in DOMAIN Selected : Selected[i] \notin DOMAIN Archetypes
    \/ \E j \in DOMAIN config.projects :
         LET d == config.projects[j].department
         IN d # None /\ \A i \in DOMAIN Selected : Selected[i] # d

Tasks(i) ==
    LET d == Selected[i]
        spec == Archetypes[d]
        Own(p) == IF Target(p) = d THEN <<Task("project", d, p)>> ELSE <<>>
    IN <<Task("open", d, i)>>
       \o [k \in DOMAIN spec.teams |-> Task("team", d, k)]
       \o <<Task("heads", d, None)>>
       \o [k \in DOMAIN spec.playbooks |-> Task("playbook", d, spec.playbooks[k])]
       \o FlattenSeq([j \in DOMAIN config.projects |-> Own(config.projects[j])])

Doing(kind) == ~raised /\ plan # <<>> /\ Head(plan).kind = kind

\* An exception leaves build_world at once.
Raise == /\ raised' = TRUE /\ plan' = <<>>
         /\ UNCHANGED <<config, world, affinity>>

Write(ns, es) ==
    IF Taken(world, ns, es) THEN Raise
    ELSE /\ world' = Added(world, ns, es)
         /\ plan' = Tail(plan)
         /\ UNCHANGED <<config, affinity, raised>>

SelectArchetypes ==
    /\ Doing("select")
    /\ IF UnknownName THEN Raise
       ELSE /\ plan' = <<Task("company", None, None)>>
                       \o FlattenSeq([i \in DOMAIN Selected |-> Tasks(i)])
                       \o <<Task("affinities", None, None)>>
            /\ UNCHANGED <<config, world, affinity, raised>>

-----------------------------------------------------------------------------
(* Company, goals, departments and teams.                                  *)

Link(type, src, dst) == Edge(<<type, src, dst>>, type, src, dst, 0, None)
Links(type, Pairs) ==
    [e \in {<<type, p[1], p[2]>> : p \in Pairs} |->
        [type |-> type, src |-> e[2], dst |-> e[3], at |-> 0, props |-> None]]
Plain(type, Ids) == [id \in Ids |-> [type |-> type, at |-> 0, props |-> None]]

Company == <<"company">>
Goal(i) == <<"goal", i>>
Subgoal(i) == <<"goal", i, 1>>
Goals == {Goal(i) : i \in 1..Sizes[config.size].goals}

BuildCompany ==
    LET Odd == {i \in 1..Sizes[config.size].goals : i % 2 = 1}
    IN /\ Doing("company")
       /\ Write(Plain("Company", {Company})
                  ++ Plain("Goal", Goals \cup {Subgoal(i) : i \in Odd}),
                Links("owns", {Company} \X Goals)
                  ++ Links("subgoal_of", {<<Subgoal(i), Goal(i)>> : i \in Odd}))

Dept(d) == <<"dept", d>>

\* Departments advance one goal and two goals in turn, as far as there are any.
OpenDepartment ==
    /\ Doing("open")
    /\ LET d == Head(plan).dept
           Wanted == 1 + ((Head(plan).arg - 1) % 2)
           k == IF Cardinality(Goals) < Wanted THEN Cardinality(Goals) ELSE Wanted
       IN \E G \in SUBSET Goals :
            /\ Cardinality(G) = k
            /\ Write(Plain("Department", {Dept(d)}),
                     Link("has_department", Company, Dept(d))
                       ++ Links("advances_goal", {Dept(d)} \X G))

\* round(q / 4) of Python, which takes a half to the even neighbour.
RoundQuarter(q) ==
    LET n == q \div 4
    IN IF q % 4 > 2 \/ (q % 4 = 2 /\ n % 2 = 1) THEN n + 1 ELSE n

\* _staff_count: the share of the range the size asks for, give or take one.
StaffCounts(shape) ==
    LET base == RoundQuarter(4 * shape.lo + Sizes[config.size].quarters * (shape.hi - shape.lo))
        Clip(n) == IF n < shape.lo THEN shape.lo ELSE IF n > shape.hi THEN shape.hi ELSE n
    IN {Clip(base - 1), Clip(base), Clip(base + 1)}

\* SlugAllocator: the k-th person of a name has the suffix k.
Person(n, k) == <<"person", n, k>>
Named(n) == {id \in NodesByType(world, "Person") : id[2] = n}
Staff(picks) ==
    [i \in DOMAIN picks |->
        Person(picks[i], Cardinality(Named(picks[i]))
                           + Cardinality({j \in 1..i : picks[j] = picks[i]}))]

Team(d, slug) == <<"team", d, slug>>

\* The first one staffed leads the team; the others report to them.
BuildTeam ==
    /\ Doing("team")
    /\ LET d == Head(plan).dept
           shape == Archetypes[d].teams[Head(plan).arg]
           team == Team(d, shape.slug)
       IN \E n \in StaffCounts(shape) : \E picks \in [1..n -> Names] :
            LET p == Staff(picks)
            IN Write(Plain("Team", {team})
                       ++ [id \in {p[i] : i \in 1..n} |->
                             [type |-> "Person", at |-> 0,
                              props |-> [department |-> d, unit |-> shape.slug, role |-> None]]],
                     Link("part_of", team, Dept(d))
                       ++ Link("leads", p[1], team)
                       ++ Links("member_of", {<<p[i], team>> : i \in 1..n})
                       ++ Links("reports_to", {<<p[i], p[1]>> : i \in 2..n}))

Teams(w, d) == {w.edges[e].src : e \in InEdges(w, Dept(d), "part_of")}
TeamOf(w, p) == CHOOSE t \in Neighbors(w, p, "member_of", "out") : w.nodes[t].type = "Team"
Lead(w, t) == CHOOSE p \in Neighbors(w, t, "leads", "in") : TRUE
Roster(w, d) == {p \in NodesByType(w, "Person") : w.nodes[p].props.department = d}
\* The head of a department is whoever leads its first team.
HeadOf(d) == Lead(world, Team(d, Archetypes[d].teams[1].slug))

Program(d) == <<"initiative", d>>
Owned(d, initiative) ==
    LET Advanced == Neighbors(world, Dept(d), "advances_goal", "out")
    IN Link("owns_initiative", HeadOf(d), initiative)
         ++ Links("advances_goal", {initiative} \X Advanced)

\* The heads of the other teams report to the head, who is marked with a role.
AppointHead ==
    /\ Doing("heads")
    /\ LET d == Head(plan).dept
           head == HeadOf(d)
           marked == [world EXCEPT !.nodes[head].props.role = Archetypes[d].role]
           ns == Plain("Initiative", {Program(d)})
           es == Link("leads", head, Dept(d))
                   ++ Links("reports_to", {<<Lead(world, t), head>> : t \in Teams(world, d)}
                                            \ {<<head, head>>})
                   ++ Owned(d, Program(d))
       IN IF Taken(marked, ns, es) THEN Raise
          ELSE /\ world' = Added(marked, ns, es)
               /\ plan' = Tail(plan)
               /\ UNCHANGED <<config, affinity, raised>>

-----------------------------------------------------------------------------
(* Projects and affinities.                                                *)

Project(slug) == <<"project", slug>>
Pairs(S) == {q \in SUBSET S : Cardinality(q) = 2}
WeightOf(pair) == IF pair \in DOMAIN affinity THEN affinity[pair] ELSE 0

\* Two thirds of the others contribute, the rest review.
Splits(Others) ==
    {C \in SUBSET Others : Cardinality(C) = (2 * Cardinality(Others)) \div 3}

Membership(p, project, role) ==
    Edge(<<"member_of", p, project>>, "member_of", p, project, 0, role)

\* Only the two thirds.
StaffedShort(lead, Contributors, Reviewers, project) ==
    Membership(lead, project, "lead")
      ++ [e \in {<<"member_of", p, project>> : p \in Contributors} |->
            [type |-> "member_of", src |-> e[2], dst |-> project, at |-> 0,
             props |-> "contributor"]]

Staffed(lead, Contributors, Reviewers, project) ==
    LET Role(p) == IF p = lead THEN "lead"
                   ELSE IF p \in Contributors THEN "contributor" ELSE "reviewer"
    IN [e \in {<<"member_of", p, project>> : p \in {lead} \cup Contributors \cup Reviewers} |->
          [type |-> "member_of", src |-> e[2], dst |-> project, at |-> 0, props |-> Role(e[2])]]

Bumped(Ps) ==
    [pair \in DOMAIN affinity \cup Ps |->
        WeightOf(pair) + (IF pair \in Ps THEN 1 ELSE 0)]

\* An initiative under the program of its department, and its project.
BuildProject(d, initiative, slug) ==
    LET head == HeadOf(d)
        Others == Roster(world, d) \ {head}
        ns == Plain("Initiative", {initiative}) ++ Plain("Project", {Project(slug)})
        es == Link("subinitiative_of", initiative, Program(d)) ++ Owned(d, initiative)
                ++ Link("under", Project(slug), initiative)
    IN IF Taken(world, ns, es) THEN Raise
       ELSE \E C \in Splits(Others) :
              /\ world' = Added(world, ns, es ++ Staffed(head, C, Others \ C, Project(slug)))
              /\ affinity' = Bumped(Pairs(Roster(world, d)))
              /\ plan' = Tail(plan)
              /\ UNCHANGED <<config, raised>>

BuildPlaybook ==
    /\ Doing("playbook")
    /\ LET d == Head(plan).dept
           p == Head(plan).arg
       IN BuildProject(d, <<"initiative", d, p>>, DeliverySlug[d, p])

UnknownPlaybook(project) ==
    project.playbook # None /\ project.playbook \notin Playbooks

BuildConfigProject ==
    /\ Doing("project")
    /\ LET project == Head(plan).arg
       IN IF UnknownPlaybook(project) THEN Raise
          ELSE BuildProject(Head(plan).dept, <<"initiative", "anchor", project.slug>>,
                            project.slug)

Colleagues == UNION {Pairs({p \in NodesByType(world, "Person") : TeamOf(world, p) = t}) :
                       t \in NodesByType(world, "Team")}

\* One edge per pair, whichever of the two is named first.
AffinityId(pair) == <<"collaborates_with", pair>>

WriteAffinities ==
    /\ Doing("affinities")
    /\ LET A == Bumped(Colleagues)
           Ends(pair) == SetToSeq(pair)
       IN /\ affinity' = A
          /\ world' = Added(world, <<>>,
                [e \in {AffinityId(pair) : pair \in DOMAIN A} |->
                   [type |-> "collaborates_with", src |-> Ends(e[2])[1],
                    dst |-> Ends(e[2])[2], at |-> 0, props |-> A[e[2]]]])
          /\ plan' = Tail(plan)
          /\ UNCHANGED <<config, raised>>

BuildNext ==
    \/ SelectArchetypes \/ BuildCompany \/ OpenDepartment \/ BuildTeam
    \/ AppointHead \/ BuildPlaybook \/ BuildConfigProject \/ WriteAffinities

Built == plan = <<>> /\ ~raised
=============================================================================
