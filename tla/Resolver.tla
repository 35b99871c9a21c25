------------------------------ MODULE Resolver ------------------------------
(***************************************************************************)
(* The role resolver (core/sim/resolver.py) on a world that build_world has *)
(* made: each call filters candidates, draws some of them, and writes the   *)
(* relationship and the reinforced affinity back to the world.              *)
(*                                                                         *)
(* The default weights have a floor, so that every candidate has a positive *)
(* score and the weighted draw may return any of them in any order; what    *)
(* ranking changes is the odds, which are left out.  A simulation resolves  *)
(* at instants that never go back (the clock of the scheduler).             *)
(***************************************************************************)
EXTENDS WorldBuild

CONSTANTS
    Selectors,  \* what the calls of a run ask for
    Capacities, \* what a Resolver may be built with, None for no limit
    MaxCalls,   \* bound: calls of resolve
    MaxTime     \* bound: the last instant of a call

\* A cap counts relationships (one below zero drops everyone, as zero does), and
\* count_range raises on a negative number of people.
ASSUME ResolverAssumption ==
    /\ Capacities \subseteq Nat \cup {None}
    /\ \A s \in Selectors : s.lo \in Nat /\ s.hi \in Nat
    /\ None \notin Nat

VARIABLES
    capacity,
    now,       \* the instant of the latest call
    calls      \* history: anchor, instant and picks of each call

vars == <<buildVars, capacity, now, calls>>

Init ==
    /\ BuildInit
    /\ capacity \in Capacities
    /\ now = 1
    /\ calls = <<>>

\* A filter on a field the node does not have fails, "ne" too.
Matches(f, props) ==
    LET actual == props[f.field]
    IN /\ actual # None
       /\ \/ f.op = "eq" /\ actual = f.value
          \/ f.op = "ne" /\ actual # f.value
          \/ f.op = "in" /\ actual \in f.value

Load(w, id) ==
    Cardinality(OutEdges(w, id, "reviews_for")) + Cardinality(InEdges(w, id, "reviews_for"))

\* One over the limit.
CandidatesFull(s) ==
    {id \in NodesByType(world, "Person") :
       /\ id \notin s.exclude \cup {s.anchor}
       /\ \A f \in s.where : Matches(f, world.nodes[id].props)
       /\ capacity # None => Load(world, id) <= capacity}

Candidates(s) ==
    {id \in NodesByType(world, "Person") :
       /\ id \notin s.exclude \cup {s.anchor}
       /\ \A f \in s.where : Matches(f, world.nodes[id].props)
       /\ capacity # None => Load(world, id) < capacity}

\* _draw: between lo and hi of them, as far as there are any; a pool that is
\* not distinct takes each pick back.
Draws(C, s) ==
    LET Clip(n) == IF n < Cardinality(C) THEN n ELSE Cardinality(C)
    IN {d \in UNION {[1..k -> C] : k \in Clip(s.lo)..Clip(s.hi)} :
          s.distinct => \A i, j \in DOMAIN d : d[i] = d[j] => i = j}

\* The edge says it has always been there.
RelationshipsBackdated(s, picks) ==
    [e \in {<<"reviews_for", picks[i], s.anchor, now>> : i \in DOMAIN picks} |->
        [type |-> "reviews_for", src |-> e[2], dst |-> s.anchor, at |-> 0, props |-> None]]

\* One edge per type, ends and instant, however often a person is picked.
Relationships(s, picks) ==
    [e \in {<<"reviews_for", picks[i], s.anchor, now>> : i \in DOMAIN picks} |->
        [type |-> "reviews_for", src |-> e[2], dst |-> s.anchor, at |-> now, props |-> None]]

Times(picks, p) == Cardinality({i \in DOMAIN picks : picks[i] = p})

\* The affinities between the anchor and whom it drew.
Drawn(s, picks) == {AffinityId({p, s.anchor}) : p \in {picks[i] : i \in DOMAIN picks}}
Partner(s, e) == CHOOSE p \in e[2] : p # s.anchor

\* A person drawn twice counts once.
ReinforcedOnce(w, s, picks) ==
    LET E == w.edges
        Ids == Drawn(s, picks)
        Old == [e \in DOMAIN E |-> IF e \in Ids THEN [E[e] EXCEPT !.props = @ + 1] ELSE E[e]]
        New == [e \in Ids \ DOMAIN E |->
                  [type |-> "collaborates_with", src |-> SetToSeq(e[2])[1],
                   dst |-> SetToSeq(e[2])[2], at |-> now, props |-> 1]]
    IN [w EXCEPT !.edges = Old ++ New]

\* _reinforce: every pick adds one to the edge of the pair, or makes it.
Reinforced(w, s, picks) ==
    LET E == w.edges
        Ids == Drawn(s, picks)
        More(e) == Times(picks, Partner(s, e))
        Old == [e \in DOMAIN E |->
                  IF e \in Ids THEN [E[e] EXCEPT !.props = @ + More(e)] ELSE E[e]]
        New == [e \in Ids \ DOMAIN E |->
                  [type |-> "collaborates_with", src |-> SetToSeq(e[2])[1],
                   dst |-> SetToSeq(e[2])[2], at |-> now, props |-> More(e)]]
    IN [w EXCEPT !.edges = Old ++ New]

Resolve ==
    /\ Built
    /\ Len(calls) < MaxCalls
    /\ \E s \in Selectors :
         /\ s.anchor \in DOMAIN world.nodes
         /\ \E picks \in Draws(Candidates(s), s) :
              LET es == IF s.relate THEN Relationships(s, picks) ELSE <<>>
              IN /\ world' = Reinforced(Added(world, <<>>, es), s, picks)
                 /\ calls' = Append(calls, [sel |-> s, at |-> now, picks |-> picks])
    /\ UNCHANGED <<config, plan, affinity, raised, capacity, now>>

Advance ==
    /\ Built
    /\ now < MaxTime
    /\ now' = now + 1
    /\ UNCHANGED <<buildVars, capacity, calls>>

Build ==
    /\ BuildNext
    /\ UNCHANGED <<capacity, now, calls>>

Next == Build \/ Resolve \/ Advance

Spec == Init /\ [][Next]_vars /\ WF_vars(Build)

-----------------------------------------------------------------------------
(* Properties.                                                             *)

Manager(p) == Neighbors(world, p, "reports_to", "out")

\* In a finished world everyone of a department but its head has exactly one
\* manager and reaches the head within two steps, and teams are led by one of
\* their members: the builder links leads before it knows who the head is, and
\* the head leads a team as well (builder.py, _build_department).  The resolver
\* adds no edge of these types, so that this need not be looked at again later.
OrgIsTree ==
    (Built /\ calls = <<>>) =>
        \A d \in {world.nodes[n].props.department : n \in NodesByType(world, "Person")} :
            LET head == HeadOf(d) IN
            /\ Neighbors(world, Dept(d), "leads", "in") = {head}
            /\ Manager(head) = {}
            /\ \A p \in Roster(world, d) \ {head} :
                 /\ Cardinality(Manager(p)) = 1
                 /\ head \in Manager(p) \cup UNION {Manager(m) : m \in Manager(p)}
            /\ \A t \in Teams(world, d) :
                 Lead(world, t) \in Neighbors(world, t, "member_of", "in")

\* Everyone of a department is on each of its projects in one role, and its
\* head is the lead: the project of a playbook and one named in the
\* configuration are staffed alike (builder.py, _build_project).
EveryoneStaffed ==
    (Built /\ calls = <<>>) =>
        \A q \in NodesByType(world, "Project") :
            LET On == InEdges(world, q, "member_of")
                OnIt == {world.edges[e].src : e \in On}
                Led == {world.edges[e].src : e \in {e \in On : world.edges[e].props = "lead"}}
            IN \E d \in {world.nodes[p].props.department : p \in OnIt} :
                 /\ OnIt = Roster(world, d)
                 /\ Cardinality(On) = Cardinality(OnIt)
                 /\ Led = {HeadOf(d)}

Picked(a, b) ==
    LET Mine(c) == IF c.sel.anchor = a THEN Times(c.picks, b)
                   ELSE IF c.sel.anchor = b THEN Times(c.picks, a) ELSE 0
        Sums[i \in 0..Len(calls)] ==
            IF i = 0 THEN 0 ELSE Sums[i-1] + Mine(calls[i])
    IN Sums[Len(calls)]

\* Both of these, for the world a configuration without clashes is built into.
OrgSound == OrgIsTree /\ EveryoneStaffed

\* The affinity of two nodes is one edge, whichever was the anchor, and its
\* weight is one for sharing a team, one for each project they share and one for
\* each time the resolver drew one of them for the other: what the builder
\* seeded and what the simulation reinforced add up (builder.py, _bump_affinity;
\* resolver.py, _reinforce).
AffinityAccounts ==
    Built =>
        \A e \in {f \in DOMAIN world.edges : world.edges[f].type = "collaborates_with"} :
            LET a == world.edges[e].src
                b == world.edges[e].dst
                Of(id) == Neighbors(world, id, "member_of", "out")
            IN /\ e = AffinityId({a, b})
               /\ world.edges[e].props = Cardinality(Of(a) \cap Of(b)) + Picked(a, b)

\* Whoever is never the anchor of a call carries at most as many relationships
\* as the capacity allows, however calls, instants and repeated picks fall: one
\* call reads the load once and may draw a person more than once.
CapacityKept ==
    capacity # None =>
        \A p \in NodesByType(world, "Person") :
            \/ \E i \in DOMAIN calls : calls[i].sel.anchor = p
            \/ Load(world, p) <= capacity

\* Both of these, for what the calls of a simulation write.
CallsAccounted == AffinityAccounts /\ CapacityKept

\* An affinity that gained weight, and is otherwise what it was.
Heavier(r, q) ==
    r.type = "collaborates_with" /\ q.props > r.props /\ q = [r EXCEPT !.props = q.props]

Keeps(past, seen) ==
    LET E == past.edges
        F == seen.edges
    IN /\ seen.nodes = past.nodes
       /\ DOMAIN F = DOMAIN E
       /\ \A e \in DOMAIN E : F[e] = E[e] \/ Heavier(E[e], F[e])

\* Whatever the resolver writes, a view of the world as of an earlier instant has the
\* same nodes, with what they hold, and the same edges: a call dates what it adds with
\* the call, and a document rendered after the simulation sees no relationship of
\* later.  The weights of affinities are not those of the instant: a later call adds
\* to them in place, and nothing else of an edge changes and no weight falls
\* (graph.py, projection, as assembly/corpus.py calls it after the run at the instant
\* of the event; resolver.py, _write_relationship and _reinforce).  Effects of an
\* activation change what nodes hold in place too: see ProjectionHonest of MCScheduler.
PastElementsKept ==
    [][\A t \in 0..(now - 1) : Built =>
          Keeps(Projection(world, t, None, None, None), Projection(world', t, None, None, None))]_vars

DeclaredSlugs ==
    LET Of(i) == LET d == Selected[i] IN
            [k \in DOMAIN Archetypes[d].playbooks |-> DeliverySlug[d, Archetypes[d].playbooks[k]]]
    IN FlattenSeq([i \in DOMAIN Selected |-> Of(i)])
       \o [j \in DOMAIN config.projects |-> config.projects[j].slug]

\* The builder ends, and it raises for the configurations it cannot tell from
\* good ones before it starts and for no others: an unknown department or
\* playbook, a department listed twice, two projects of one slug (a project of
\* the configuration and that of a playbook too).
BuildsUnlessClash ==
    <>(plan = <<>> /\
       (raised <=>
          \/ UnknownName
          \/ \E j \in DOMAIN config.projects : UnknownPlaybook(config.projects[j])
          \/ ~IsInjective(Selected)
          \/ ~IsInjective(DeclaredSlugs)))
=============================================================================
