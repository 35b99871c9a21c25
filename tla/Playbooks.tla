----------------------------- MODULE Playbooks -----------------------------
(***************************************************************************)
(* Playbooks as an author writes them (authoring/sdk.py) and what the static *)
(* checks read off them: lint.py, the playbook suite P1-P5 of testkit.py,   *)
(* and the lowering to what the scheduler runs.                             *)
(*                                                                         *)
(* An activation is known by its index: ids are distinct and sorted as      *)
(* declared.  A process implemented in Python has no steps.  Names are       *)
(* members of small sets; cadence rules, durations, counts that do not parse *)
(* and the scan of Python sources are left out.                             *)
(***************************************************************************)
EXTENDS Naturals, Sequences, FiniteSets, Functions, SequencesExt

CONSTANT None

-----------------------------------------------------------------------------
(* What steps emit and apply.                                              *)

\* (A mutation overlooks the spreads.)
StepEventsOfEmits(p) == UNION {Range(s.emits) : s \in Range(p.steps)}
StepEvents(p) ==
    UNION {Range(s.emits) \cup ({s.repeat} \ {None}) : s \in Range(p.steps)}
StepEffects(p) == UNION {s.effects : s \in Range(p.steps)}
Produced(p) == {s.produces : s \in Range(p.steps)} \ {None}

\* An effect goes by a signature in the declarations; lint and the test kit
\* spell it differently.
LintSignature(f) == <<f.kind, f.name>>
SuiteSignature(f) == <<IF f.kind = "create_node" THEN "create" ELSE f.kind, f.name>>
Announced(signatures) == {sig[2] : sig \in {g \in signatures : g[1] = "milestone"}}

\* What lint takes an activation to emit: everything declared, and what its
\* steps emit, whether it was declared or not.  Milestones are read off the
\* declarations only; P2 of the test kit reads them off the effects as well.
LintEvents(p) == p.events \cup StepEvents(p)
LintMilestones(p) == Announced(p.effects)
StepMilestones(p) == {f.name : f \in {e \in StepEffects(p) : e.kind = "milestone"}}
SuiteMilestones(p) == Announced(p.effects) \cup StepMilestones(p)

\* What the scheduler is given of a step: its first event and its spread.
\* Further events, and the condition in `when`, are dropped.
LoweredEvents(p) == UNION {{s.emits[1]} \cup ({s.repeat} \ {None}) : s \in Range(p.steps)}

\* lower_step raises on a step that emits nothing.
Lowers(book) == \A a \in Range(book.acts) : \A s \in Range(a.process.steps) : s.emits # <<>>

-----------------------------------------------------------------------------
(* Processes.  lint_playbook looks at the first process of every name.     *)

Acts(book) == DOMAIN book.acts
Process(book, a) == book.acts[a].process
Trigger(book, a) == book.acts[a].trigger
FirstOfName(book, a) ==
    \A b \in 1..(a - 1) : Process(book, b).name # Process(book, a).name
Linted(book) == {a \in Acts(book) : FirstOfName(book, a)}

StepIds(p) == {s.id : s \in Range(p.steps)}
RoleNames(p) == {r.name : r \in Range(p.roles)}
Anchors(s) == {s.after, s.parent} \ {None}

\* Dependencies among the steps, as far as they name steps of the process.
Deps(p) ==
    [id \in StepIds(p) |->
        UNION {Anchors(s) : s \in {t \in Range(p.steps) : t.id = id}} \cap (StepIds(p) \ {id})]

\* The errors of one process, but for the cycles among its steps.
ProcessErrs(p) ==
    \/ Cardinality(RoleNames(p)) < Len(p.roles)
    \/ Cardinality(StepIds(p)) < Len(p.steps)
    \/ \E s \in Range(p.steps) :
         \/ s.by # None /\ s.by \notin RoleNames(p)
         \/ ~ (Anchors(s) \subseteq StepIds(p))
         \/ s.id \in Anchors(s)
    \/ p.steps # <<>> /\ ~ /\ StepEvents(p) \subseteq p.events
                           /\ Produced(p) \subseteq p.deliverables
                           /\ {LintSignature(f) : f \in StepEffects(p)} \subseteq p.effects

-----------------------------------------------------------------------------
(* The graph of triggers.                                                  *)

AllEvents(book) == UNION {LintEvents(Process(book, a)) : a \in Acts(book)}
AllMilestones(book) == UNION {LintMilestones(Process(book, a)) : a \in Acts(book)}

Seeds == {"start", "cadence", "probabilistic", "condition"}

\* A milestone that nothing of the playbook declares may come from elsewhere.
Root(book, a) ==
    LET t == Trigger(book, a)
    IN t.kind \in Seeds \/ (t.kind = "milestone" /\ t.name \notin AllMilestones(book))

On(t, events, milestones) ==
    \/ t.kind = "event" /\ t.name \in events
    \/ t.kind = "milestone" /\ t.name \in milestones

DeadTriggers(book) ==
    {a \in Acts(book) : Trigger(book, a).kind = "event"
                          /\ Trigger(book, a).name \notin AllEvents(book)}

\* The edges of lint's graph, and those of P3, which are along events only
\* (a mutation takes the declared ones).
LintEdges(book) ==
    [a \in Acts(book) |->
        {b \in Acts(book) : On(Trigger(book, b), LintEvents(Process(book, a)),
                               LintMilestones(Process(book, a)))}]
SuiteEdgesDeclared(book) ==
    [a \in Acts(book) |-> {b \in Acts(book) : On(Trigger(book, b), Process(book, a).events, {})}]
SuiteEdges(book) ==
    [a \in Acts(book) |-> {b \in Acts(book) : On(Trigger(book, b), LintEvents(Process(book, a)), {})}]

\* What lint takes for a guard of a cycle, and what of it the scheduler sees.
Damped(book, a) ==
    LET t == Trigger(book, a) IN t.kind = "condition" \/ (t.kind = "event" /\ t.where)
Guarded(book, a) ==
    Damped(book, a) \/ \E s \in Range(Process(book, a).steps) : s.when

\* The scheduler starts b in reaction to what an instance of a did.
Causes(book, a, b) ==
    On(Trigger(book, b), LoweredEvents(Process(book, a)), StepMilestones(Process(book, a)))

-----------------------------------------------------------------------------
(* The conformance suite of a run judges an event by the first process that  *)
(* emits one of its type (RunResult, I3 and I5).                             *)

Scopes(book, event) == {a \in Linted(book) : event \in StepEvents(Process(book, a))}
Scope(book, event) ==
    Process(book, CHOOSE a \in Scopes(book, event) : \A b \in Scopes(book, event) : a <= b)

\* The events of a lowered process, each with the roles and the deliverable of
\* its step; who takes part in a spread is left out.
Emissions(p) ==
    {[type |-> s.emits[1], roles |-> {s.by} \ {None}, kind |-> s.produces] : s \in Range(p.steps)}
      \cup {[type |-> s.repeat, roles |-> {}, kind |-> None] :
              s \in {t \in Range(p.steps) : t.repeat # None}}

UnknownRoles(book, e) == ~ (e.roles \subseteq RoleNames(Scope(book, e.type)))
\* I5 is silent where nothing is declared.
Undeclared(book, e) ==
    LET p == Scope(book, e.type)
    IN \/ p.events # {} /\ e.type \notin p.events
       \/ e.kind # None /\ p.deliverables # {} /\ e.kind \notin p.deliverables
UndeclaredEffects(p) ==
    p.effects # {} /\ ~ ({SuiteSignature(f) : f \in StepEffects(p)} \subseteq p.effects)

-----------------------------------------------------------------------------
(* TestWorld.for_playbook: a world made to suit the roles of a playbook,    *)
(* and P5, which looks whether it does.                                    *)

\* A value that passes one filter.  Values are tuples.
ValueFor(f) ==
    IF f.op = "ne" THEN <<"not">> \o f.value
    ELSE IF f.op = "in" THEN f.value[1]
    ELSE f.value

\* Of two filters on one field the later one decides.
Suiting(where) ==
    [field \in {f.field : f \in Range(where)} |->
        ValueFor(where[CHOOSE i \in DOMAIN where :
            /\ where[i].field = field
            /\ \A j \in DOMAIN where : where[j].field = field => j <= i])]

Passes(f, props) ==
    /\ f.field \in DOMAIN props
    /\ LET actual == props[f.field]
       IN CASE f.op = "eq" -> actual = f.value
            [] f.op = "ne" -> actual # f.value
            [] f.op = "in" -> actual \in Range(f.value)

\* Two more than a role takes at most, but one node for an external party; a
\* name that has its nodes already gets no others.
Synthesized(roles) ==
    FoldLeft(LAMBDA nodes, r :
        LET n == IF r.external THEN 1 ELSE r.hi + 2
            ids == IF r.bound THEN {<<"bound", r.name>>} ELSE {<<r.name, i>> : i \in 1..n}
            type == IF r.bound THEN "Person" ELSE r.type
            props == IF r.bound THEN <<>> ELSE Suiting(r.where)
        IN [id \in DOMAIN nodes \cup ids |->
              IF id \in DOMAIN nodes THEN nodes[id] ELSE [type |-> type, props |-> props]],
        <<>>, roles)

\* P4: what is expected of a playbook, and of none of its processes.
Unproduced(book) ==
    book.expects \ UNION {Process(book, a).deliverables \cup Produced(Process(book, a)) :
                             a \in Acts(book)}

AllRoles(book) == FlattenSeq([a \in Acts(book) |-> Process(book, a).roles])

Infeasible(book) ==
    LET nodes == Synthesized(AllRoles(book))
    IN {r \in UNION {Range(Process(book, a).roles) : a \in Linted(book)} :
          /\ ~r.bound
          /\ Cardinality({id \in DOMAIN nodes :
                /\ nodes[id].type = r.type
                /\ \A f \in Range(r.where) : Passes(f, nodes[id].props)}) < r.lo}
=============================================================================
