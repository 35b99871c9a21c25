----------------------------- MODULE Authoring -----------------------------
(***************************************************************************)
(* What a playbook goes through before and when it runs: lint_playbook with *)
(* its three searches (a depth-first search of the steps of each process,   *)
(* the closure of what is reachable, Tarjan's components of the graph of    *)
(* triggers), the checks P2 and P3 of the test kit, the lowering, and the   *)
(* chains of activations that cause one another in the scheduler.           *)
(*                                                                         *)
(* Sets of strings are iterated in an order that differs from process to    *)
(* process: any order.                                                     *)
(***************************************************************************)
EXTENDS Shipped, TLC

CONSTANT Books \* playbooks an author may write

VARIABLES
    book,
    pc,      \* steps, reach, components, p2, p3, lower, run, raised
    color,   \* white, grey, black: of the depth-first search at hand
    stack,   \* its work list, or the work list of Tarjan's search
    act,     \* the activation whose process is searched
    cyclic,  \* activations whose steps were found to be cyclic
    reach,   \* activations lint takes to be reachable
    tarjan,  \* the state of Tarjan's search: index, low, open, found
    reach2,  \* activations P2 takes to be reachable
    cycle,   \* the cycle P3 has found
    chain    \* activations of a run, each caused by the one before

vars == <<book, pc, color, stack, act, cyclic, reach, tarjan, reach2, cycle, chain>>

White(nodes) == [n \in nodes |-> "white"]
IsWhite(n) == color[n] = "white"

Init ==
    /\ book \in Books
    /\ pc = "steps"
    /\ act = 1
    /\ color = White(StepIds(Process(book, 1)))
    /\ stack = <<>>
    /\ cyclic = {}
    /\ reach = {}
    /\ tarjan = [index |-> <<>>, low |-> <<>>, open |-> <<>>, found |-> {}]
    /\ reach2 = {}
    /\ cycle = <<>>
    /\ chain = <<>>

-----------------------------------------------------------------------------
(* _check_step_cycles, for every process that lint looks at.               *)

NextProcess ==
    /\ stack' = <<>>
    /\ IF \E a \in Linted(book) : a > act
       THEN LET b == CHOOSE b \in Linted(book) :
                       b > act /\ \A c \in Linted(book) : c > act => b <= c
            IN /\ act' = b
               /\ color' = White(StepIds(Process(book, b)))
               /\ UNCHANGED <<pc, reach>>
       ELSE /\ pc' = "reach"
            /\ reach' = {a \in Acts(book) : Root(book, a)}
            /\ UNCHANGED <<act, color>>

VisitStep ==
    /\ pc = "steps"
    /\ stack = <<>>
    /\ IF \E n \in DOMAIN color : IsWhite(n)
       THEN /\ \E n \in DOMAIN color : IsWhite(n) /\ stack' = <<<<n, FALSE>>>>
            /\ UNCHANGED <<act, color, pc, reach>>
       ELSE NextProcess
    /\ UNCHANGED <<book, cyclic, tarjan, reach2, cycle, chain>>

Orders(S) == {s \in [1..Cardinality(S) -> S] : IsInjective(s)}

\* A step that waits on the list a second time may be black by then: it is
\* expanded once more.  A grey dependency closes a cycle.
SearchStep ==
    /\ pc = "steps"
    /\ stack # <<>>
    /\ LET top == Last(stack)
           n == top[1]
           deps == Deps(Process(book, act))[n]
       IN \/ /\ top[2]
             /\ color' = [color EXCEPT ![n] = "black"]
             /\ stack' = Front(stack)
             /\ UNCHANGED <<act, pc, reach, cyclic>>
          \/ /\ ~top[2] /\ color[n] = "grey"
             /\ stack' = Front(stack)
             /\ UNCHANGED <<act, color, pc, reach, cyclic>>
          \/ /\ ~top[2] /\ color[n] # "grey"
             /\ IF \E d \in deps : color[d] = "grey"
                THEN /\ cyclic' = cyclic \cup {act}
                     /\ NextProcess
                ELSE /\ color' = [color EXCEPT ![n] = "grey"]
                     /\ \E order \in Orders({d \in deps : IsWhite(d)}) :
                          stack' = Front(stack) \o <<<<n, TRUE>>>>
                                     \o [i \in DOMAIN order |-> <<order[i], FALSE>>]
                     /\ UNCHANGED <<act, pc, reach, cyclic>>
    /\ UNCHANGED <<book, tarjan, reach2, cycle, chain>>

-----------------------------------------------------------------------------
(* _check_event_graph.                                                     *)

Live(F(_), S) == UNION {F(Process(book, a)) : a \in S}

\* Those that are reached already as well.
NewlyAgain(S) ==
    {a \in Acts(book) : On(Trigger(book, a), Live(LintEvents, S), Live(LintMilestones, S))}

Newly(S) ==
    {a \in Acts(book) \ S : On(Trigger(book, a), Live(LintEvents, S), Live(LintMilestones, S))}

\* One pass: what is live is computed before it.
ReachPass ==
    /\ pc = "reach"
    /\ LET New == Newly(reach)
       IN /\ reach' = reach \cup New
          /\ pc' = IF New = {} THEN "components" ELSE pc
    /\ UNCHANGED <<book, color, stack, act, cyclic, tarjan, reach2, cycle, chain>>

Indexed == DOMAIN tarjan.index
Edges(a) == SetToSortSeq(LintEdges(book)[a], <)
Lesser(x, y) == IF x < y THEN x ELSE y

StartComponent ==
    /\ pc = "components"
    /\ stack = <<>>
    /\ IF \E a \in Acts(book) : a \notin Indexed
       THEN /\ stack' = <<<<CHOOSE a \in Acts(book) :
                             a \notin Indexed /\ \A b \in Acts(book) \ Indexed : a <= b, 0>>>>
            /\ UNCHANGED <<pc, color, reach2>>
       ELSE /\ pc' = "p2"
            /\ color' = White(Acts(book))
            /\ UNCHANGED <<stack, reach2>>
    /\ UNCHANGED <<book, act, cyclic, reach, tarjan, cycle, chain>>

\* A neighbour whose component is closed already counts as well.
LoweredClosed(node, nxt, low, index, open) == [low EXCEPT ![node] = Lesser(@, index[nxt])]

\* A neighbour that was reached before lowers a node if it is still open.
Lowered(node, nxt, low, index, open) ==
    IF Contains(open, nxt) THEN [low EXCEPT ![node] = Lesser(@, index[nxt])] ELSE low

\* _strongly_connected_cycles, one turn of the loop: the node on top looks at its
\* next neighbour, or is finished, and with it perhaps its component.
SearchComponent ==
    /\ pc = "components"
    /\ stack # <<>>
    /\ LET node == Last(stack)[1]
           pi == Last(stack)[2]
           n == Cardinality(Indexed)
           index == IF pi = 0 THEN tarjan.index @@ (node :> n) ELSE tarjan.index
           low == IF pi = 0 THEN tarjan.low @@ (node :> n) ELSE tarjan.low
           open == IF pi = 0 THEN Append(tarjan.open, node) ELSE tarjan.open
           edges == Edges(node)
       IN \/ /\ pi < Len(edges)
             /\ LET nxt == edges[pi + 1]
                    turned == [stack EXCEPT ![Len(stack)] = <<node, pi + 1>>]
                    known == nxt \in DOMAIN index
                IN /\ stack' = IF known THEN turned ELSE Append(turned, <<nxt, 0>>)
                   /\ tarjan' = [tarjan EXCEPT !.index = index, !.open = open,
                        !.low = IF known THEN Lowered(node, nxt, low, index, open) ELSE low]
          \/ /\ pi >= Len(edges)
             /\ LET at == SelectLastInSeq(open, LAMBDA x : x = node)
                    closes == low[node] = index[node]
                    comp == Range(SubSeq(open, at, Len(open)))
                    rest == Front(stack)
                    isCycle == Cardinality(comp) > 1 \/ node \in Range(edges)
                IN /\ stack' = rest
                   /\ tarjan' = [index |-> index,
                        open |-> IF closes THEN SubSeq(open, 1, at - 1) ELSE open,
                        found |-> tarjan.found \cup (IF closes /\ isCycle THEN {comp} ELSE {}),
                        low |-> IF rest = <<>> THEN low
                                ELSE [low EXCEPT ![Last(rest)[1]] = Lesser(@, low[node])]]
    /\ UNCHANGED <<book, pc, color, act, cyclic, reach, reach2, cycle, chain>>

-----------------------------------------------------------------------------
(* The playbook suite of the test kit.                                     *)

\* Activations are added one by one; the order of the passes is any order.
ReachSuite ==
    /\ pc = "p2"
    /\ LET New == {a \in Acts(book) \ reach2 :
                     \/ Trigger(book, a).kind \in Seeds
                     \/ On(Trigger(book, a), Live(LintEvents, reach2),
                                           Live(SuiteMilestones, reach2))}
       IN IF New = {} THEN pc' = "p3" /\ UNCHANGED reach2
          ELSE /\ \E a \in New : reach2' = reach2 \cup {a}
               /\ UNCHANGED pc
    /\ UNCHANGED <<book, color, stack, act, cyclic, reach, tarjan, cycle, chain>>

StartCycle ==
    /\ pc = "p3"
    /\ stack = <<>>
    /\ IF \E a \in Acts(book) : IsWhite(a)
       THEN LET a == CHOOSE a \in Acts(book) : IsWhite(a) /\ \A b \in 1..(a - 1) : ~IsWhite(b)
            IN /\ stack' = <<<<a, 0>>>>
               /\ color' = [color EXCEPT ![a] = "grey"]
               /\ UNCHANGED pc
       ELSE /\ pc' = "lower"
            /\ UNCHANGED <<stack, color>>
    /\ UNCHANGED <<book, act, cyclic, reach, tarjan, reach2, cycle, chain>>

\* _find_cycle: the list is the path, and the search ends at the first node it
\* meets again on it.
SearchCycle ==
    /\ pc = "p3"
    /\ stack # <<>>
    /\ LET node == Last(stack)[1]
           pi == Last(stack)[2]
           edges == SetToSortSeq(SuiteEdges(book)[node], <)
           turned == [stack EXCEPT ![Len(stack)] = <<node, pi + 1>>]
       IN IF pi >= Len(edges)
          THEN /\ stack' = Front(stack)
               /\ color' = [color EXCEPT ![node] = "black"]
               /\ UNCHANGED <<pc, cycle>>
          ELSE LET nxt == edges[pi + 1]
                   path == [i \in DOMAIN stack |-> stack[i][1]]
               IN \/ /\ color[nxt] = "grey"
                     /\ cycle' = SubSeq(path, SelectInSeq(path, LAMBDA x : x = nxt), Len(path))
                     /\ pc' = "lower"
                     /\ stack' = <<>>
                     /\ UNCHANGED color
                  \/ /\ IsWhite(nxt)
                     /\ stack' = Append(turned, <<nxt, 0>>)
                     /\ color' = [color EXCEPT ![nxt] = "grey"]
                     /\ UNCHANGED <<pc, cycle>>
                  \/ /\ color[nxt] = "black"
                     /\ stack' = turned
                     /\ UNCHANGED <<pc, cycle, color>>
    /\ UNCHANGED <<book, act, cyclic, reach, tarjan, reach2, chain>>

-----------------------------------------------------------------------------
(* The run.                                                                *)

Lower ==
    /\ pc = "lower"
    /\ pc' = IF Lowers(book) THEN "run" ELSE "raised"
    /\ UNCHANGED <<book, color, stack, act, cyclic, reach, tarjan, reach2, cycle, chain>>

\* Instances of one run that cause one another; one more than there are
\* activations, so that one of them comes twice.
Fire ==
    /\ pc = "run"
    /\ Len(chain) <= Cardinality(Acts(book))
    /\ \E a \in Acts(book) :
         /\ IF chain = <<>> THEN Trigger(book, a).kind \in Seeds
            ELSE Causes(book, Last(chain), a)
         /\ chain' = Append(chain, a)
    /\ UNCHANGED <<book, pc, color, stack, act, cyclic, reach, tarjan, reach2, cycle>>

Checks == VisitStep \/ SearchStep \/ ReachPass \/ StartComponent \/ SearchComponent
            \/ ReachSuite \/ StartCycle \/ SearchCycle \/ Lower

Next == Checks \/ Fire

Spec == Init /\ [][Next]_vars /\ WF_vars(Checks)

-----------------------------------------------------------------------------
(* Properties.                                                             *)

\* The nodes that some path of one edge or more leads to.
Beyond(E, a) ==
    {b \in DOMAIN E : \A S \in SUBSET DOMAIN E :
        (E[a] \subseteq S /\ \A c \in S : E[c] \subseteq S) => b \in S}

Past(phases) == pc \notin {"steps"} \cup phases

\* The three hand-written graph searches give what graph theory says, in whatever
\* order they come by the nodes: a cycle of steps is reported exactly for the
\* processes that have one, Tarjan's components are exactly the maximal cycles of
\* the trigger graph, and P3 finds a path along its edges back to where it began
\* exactly if there is one (lint.py, _check_step_cycles and
\* _strongly_connected_cycles; testkit.py, _find_cycle).
SearchesExact ==
    LET E == LintEdges(book)
        Mutual(a) == {b \in Beyond(E, a) : a \in Beyond(E, b)}
    IN /\ Past({}) =>
            cyclic = {a \in Linted(book) :
                        LET D == Deps(Process(book, a)) IN \E n \in DOMAIN D : n \in Beyond(D, n)}
       /\ Past({"reach", "components"}) =>
            tarjan.found = {Mutual(a) : a \in {b \in Acts(book) : b \in Beyond(E, b)}}
       /\ pc \in {"lower", "run", "raised"} =>
            LET F == SuiteEdges(book)
            IN /\ cycle # <<>> <=> \E a \in Acts(book) : a \in Beyond(F, a)
               /\ \A i \in DOMAIN cycle : cycle[(i % Len(cycle)) + 1] \in F[cycle[i]]

OneProcessPerName ==
    \A a, b \in Acts(book) :
        Process(book, a).name = Process(book, b).name => Process(book, a) = Process(book, b)

LintClean ==
    /\ cyclic = {} /\ DeadTriggers(book) = {}
    /\ \A a \in Linted(book) : ~ProcessErrs(Process(book, a))

\* What runs is what lint has warned of: in a playbook without lint errors nothing
\* fires that lint takes to be unreachable, and activations that cause one another
\* in a circle are in one component it has found.  Lowering drops events, and
\* lint reads milestones off declarations that the scheduler never sees.
RunsAsLinted ==
    LintClean /\ OneProcessPerName =>
        /\ Range(chain) \subseteq reach
        /\ \A i, j \in DOMAIN chain : i < j /\ chain[i] = chain[j] =>
             \E C \in tarjan.found : {chain[k] : k \in i..j} \subseteq C

\* A playbook that P3 has nothing against, whatever else is wrong with it, has
\* no instance caused by another of its own kind through events alone.
SuiteStopsRunaways ==
    (cycle = <<>> /\ chain # <<>>) =>
        \A i, j \in DOMAIN chain : i < j /\ chain[i] = chain[j] =>
            \E k \in (i + 1)..j : Trigger(book, chain[k]).kind = "milestone"

\* Lint and the playbook suite judge one graph by two programs: for playbooks
\* without lint errors, what P2 reaches lint reaches too, the cycle of P3 is in a
\* component of lint, a playbook P2 passes has no unreachable activation, and I5
\* has nothing against the type of an event that happens.
SuiteAgreesWithLint ==
    (pc \in {"run", "raised"} /\ LintClean /\ OneProcessPerName) =>
        /\ reach2 \subseteq reach
        /\ cycle # <<>> => \E C \in tarjan.found : Range(cycle) \subseteq C
        /\ \A a \in Range(chain) : \A e \in Emissions(Process(book, a)) :
             ~Undeclared(book, [e EXCEPT !.kind = None])

\* The world made for a playbook staffs it (P5), unless two roles of one name ask
\* for different nodes, one role filters a field twice, or more than one external
\* party is asked for.
StaffedByConstruction ==
    LET Roles == {r \in Range(AllRoles(book)) : ~r.bound}
    IN \/ Infeasible(book) = {}
       \/ \E r, q \in Roles : r # q /\ r.name = q.name
       \/ \E r \in Roles : \/ Cardinality({f.field : f \in Range(r.where)}) < Len(r.where)
                           \/ r.external /\ r.lo > 1

\* The activations that something does set off in the scheduler.
Driven ==
    LET E == [a \in Acts(book) |-> {b \in Acts(book) : Causes(book, a, b)}]
        seeds == {a \in Acts(book) : Trigger(book, a).kind \in Seeds}
    IN seeds \cup UNION {Beyond(E, a) : a \in seeds}

\* The playbooks that ship pass the checks in whatever order these go by steps and
\* activations, and run as they read: lowering drops nothing of them, no
\* activation comes back in a chain, every event is judged by the process it
\* belongs to, and what is expected of the playbook can be made.  Of the plugins
\* every activation is set off; in the pattern library one waits for a milestone
\* of elsewhere, which lint counts as reachable and P2 does not (playbooks/*.py;
\* tests/playbooks, test_playbook_is_p_clean; tests/test_lint.py:72-80).
ShippedSound ==
    (pc \in {"run", "raised"} /\ book \in Plugins \cup REFERENCE_PLAYBOOKS) =>
        /\ pc = "run" /\ LintClean /\ OneProcessPerName
        /\ reach = Acts(book) /\ tarjan.found = {} /\ cycle = <<>>
        /\ Infeasible(book) = {} /\ Unproduced(book) = {}
        /\ IsInjective(chain)
        /\ Driven = reach2
        /\ book \in Plugins => reach2 = Acts(book)
        /\ \A a \in Acts(book) \ reach2 : Trigger(book, a).kind = "milestone"
        /\ \A a \in Acts(book) :
             LET p == Process(book, a)
             IN /\ LoweredEvents(p) = StepEvents(p)
                /\ \A e \in Emissions(p) : ~UnknownRoles(book, e) /\ ~Undeclared(book, e)

SuiteSound ==
    SuiteStopsRunaways /\ SuiteAgreesWithLint /\ StaffedByConstruction /\ ShippedSound

\* Whatever a playbook looks like, the checks end with a verdict.
ChecksEnd == <>(pc \in {"run", "raised"})

-----------------------------------------------------------------------------
(* What is said of this code and does not hold.                            *)

\* An effect declared in the signature form that the authoring skill gives,
\* "create:Type" for a new node, is not reported as undeclared
\* (skills/author-playbook/SKILL.md, the comment on effects; lint.py,
\* _effect_signature wants "create_node:Type", and I5 the form of the skill, so
\* that no declaration satisfies both).
SkillFormAccepted ==
    \A a \in Acts(book) :
        LET p == Process(book, a)
        IN ~UndeclaredEffects(p) /\ p.effects # {} =>
             {LintSignature(f) : f \in StepEffects(p)} \subseteq p.effects

\* "Every event the journal actually emitted must appear in the producing
\* process's declares block", and its participants are of the roles of that
\* process (testkit.py, _check_i5 and check_conformance).  The process asked is
\* the first one that emits an event of the type.
JudgedByItsProducer ==
    LintClean /\ OneProcessPerName =>
        \A a \in Range(chain) : \A e \in Emissions(Process(book, a)) : ~UnknownRoles(book, e)

\* A cycle that lint takes to be guarded, by the `when` of a step, has something
\* that dampens it (lint.py, _check_unguarded_cycles).  Lowering drops it.
GuardsReachTheScheduler ==
    \A C \in tarjan.found :
        (\E a \in C : Guarded(book, a)) => \E a \in C : Damped(book, a)
=============================================================================
