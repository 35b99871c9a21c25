----------------------------- MODULE MCScheduler -----------------------------
(***************************************************************************)
(* Scenarios for the scheduler, on a calendar of two working ticks a day   *)
(* and a day off after every one or two working days.                      *)
(***************************************************************************)
EXTENDS Scheduler

CONSTANTS ada, bob

MCPeople == {ada, bob}
MCItems == {"project", "doc"}
MCBaseItems == {"project"}
MCAttrs == {"status"}
MCWorkDays == {0, 1, 3}

-----------------------------------------------------------------------------
(* Building blocks.                                                        *)

Plain == [id |-> "s", emits |-> "E", by |-> None, after |-> None, days |-> 0,
          offset |-> 0, slot |-> 1, hours |-> None, effects |-> <<>>,
          spread |-> None, parent |-> None]

NoRoles == [r \in {} |-> {}]
Solo(p) == [author |-> {<<p>>}]

Act(trigger, steps, roles) ==
    [trigger |-> trigger, priority |-> 1, steps |-> steps, roles |-> roles, project |-> "p"]

OnStart == [kind |-> "start"]
OnDaily == [kind |-> "cadence", every |-> None, weekdays |-> 0..6]
OnWeekday(d) == [kind |-> "cadence", every |-> None, weekdays |-> {d}]
Every(n) == [kind |-> "cadence", every |-> n, weekdays |-> {}]
Chance == [kind |-> "probabilistic"]
OnEvent(type) == [kind |-> "event", type |-> type, projects |-> {"p"}]
OnMilestone(name) == [kind |-> "milestone", name |-> name]
When(node, v) == [kind |-> "condition", node |-> node, attr |-> "status", values |-> {v}]

CreateDoc(v) == [kind |-> "create", target |-> "doc", props |-> [x \in {"status"} |-> v]]
SetStatus(node, v) == [kind |-> "mutate", target |-> node, attr |-> "status", value |-> v]
Announce(name) == [kind |-> "milestone", name |-> name]

-----------------------------------------------------------------------------
(* A design review: a draft, reviewers who comment over a day around what  *)
(* else they do, an approval that fires a milestone and a condition.       *)

Review ==
    [review |->
        Act(OnStart,
            << [Plain EXCEPT !.id = "draft", !.emits = "Drafted", !.by = "author", !.hours = 2,
                             !.effects = <<CreateDoc("draft")>>],
               [Plain EXCEPT !.id = "review", !.emits = "Opened", !.by = "reviewers",
                             !.after = "draft", !.hours = 2,
                             !.spread = [role |-> "reviewers", lo |-> 0, hi |-> 2,
                                         emits |-> "Comment"]],
               [Plain EXCEPT !.id = "approve", !.emits = "Approved", !.by = "author",
                             !.after = "review",
                             !.effects = <<SetStatus("doc", "approved"), Announce("ok")>>] >>,
            [author |-> {<<ada>>}, reviewers |-> {<<bob>>, <<ada, bob>>}]),
     notify |-> Act(OnEvent("Comment"), <<[Plain EXCEPT !.emits = "Notified"]>>, NoRoles),
     retro  |-> Act(OnMilestone("ok"), <<[Plain EXCEPT !.by = "author", !.days = 1]>>, Solo(ada)),
     ship   |-> Act(When("doc", "approved"), <<[Plain EXCEPT !.by = "author"]>>, Solo(bob))]

\* Recurring and random work that competes for one person: a slot longer than a
\* day, which is forced, an empty slot, and short ones.
Busywork ==
    [standup |-> Act(OnDaily, <<[Plain EXCEPT !.by = "author"]>>, Solo(ada)),
     plan    |-> Act(OnWeekday(1), <<[Plain EXCEPT !.by = "author", !.slot = 2],
                                     [Plain EXCEPT !.id = "t", !.by = "author", !.offset = 1]>>,
                     Solo(ada)),
     audit   |-> Act(Every(2), <<[Plain EXCEPT !.by = "author", !.slot = 3, !.hours = 1]>>,
                     Solo(ada)),
     call    |-> [Act(Chance, <<[Plain EXCEPT !.by = "author", !.slot = 0]>>, Solo(ada))
                     EXCEPT !.priority = 0],
     mail    |-> Act(Chance, <<[Plain EXCEPT !.emits = "Mail"]>>, NoRoles),
     reply   |-> Act(OnEvent("Mail"), <<Plain>>, NoRoles)]

\* Two activations announce one milestone at one instant.  What waits for it has
\* the better priority, and has run when the second one announces it.
Twins ==
    [left  |-> Act(OnStart, <<[Plain EXCEPT !.hours = 2, !.effects = <<Announce("ok")>>],
                              [Plain EXCEPT !.id = "t", !.after = "s"]>>, NoRoles),
     right |-> Act(OnStart, <<[Plain EXCEPT !.effects = <<Announce("ok")>>]>>, NoRoles),
     next  |-> [Act(OnMilestone("ok"), <<Plain>>, NoRoles) EXCEPT !.priority = 0]]

\* Two activations that react to each other without end: only the cap stops them.
Runaway ==
    [seed |-> Act(OnStart, <<[Plain EXCEPT !.emits = "Ping"]>>, NoRoles),
     pong |-> Act(OnEvent("Ping"), <<[Plain EXCEPT !.emits = "Pong"]>>, NoRoles),
     ping |-> Act(OnEvent("Pong"), <<[Plain EXCEPT !.emits = "Ping"]>>, NoRoles)]

\* A step that follows one declared after it: lint accepts it, the scheduler does not.
Misordered ==
    [plan |-> Act(OnStart, <<Plain,
                             [Plain EXCEPT !.id = "t", !.after = "u"],
                             [Plain EXCEPT !.id = "u"]>>, NoRoles)]

\* Roles that name a person twice: as author, who finds the own booking or is forced
\* past it, and as reviewer, whose second turn posts nothing or raises.
Doubled ==
    [pair |-> Act(OnStart,
                  << [Plain EXCEPT !.by = "author", !.hours = 1],
                     [Plain EXCEPT !.id = "t", !.by = "author", !.slot = 3, !.hours = 2,
                                   !.spread = [role |-> "reviewers", lo |-> 0, hi |-> 2,
                                               emits |-> "Comment"]],
                     [Plain EXCEPT !.id = "u", !.by = "reviewers", !.after = "t"] >>,
                  [author |-> {<<ada, ada>>, <<ada, bob, ada>>},
                   reviewers |-> {<<bob, bob>>, <<bob, ada, bob>>}])]

MCScenarios == {Review, Busywork, Runaway, Twins, Misordered, Doubled}
MCWindows == {[start |-> 0, end |-> 14], [start |-> 2, end |-> 5], [start |-> 0, end |-> 5]}
MCArrivalSets == {{}, {3}, {2, 13}}

-----------------------------------------------------------------------------
(***************************************************************************)
(* What the repository's documents say of the scheduler and its log and    *)
(* what the code does not keep, each with a scenario that shows it.        *)
(* ClaimsScheduler.cfg checks these; each is refuted.                      *)
(***************************************************************************)

\* Conformance invariant I1: every event lies in the window.  The scheduler
\* bounds the anchor of a step by the window, not the slot that it then finds.
InWindow == \A i \in DOMAIN journal :
    window.start <= journal[i].at /\ journal[i].at <= window.end

\* Two pieces of work that fill the last day of the window for one person.
Crowded ==
    [standup |-> Act(OnDaily, <<[Plain EXCEPT !.by = "author", !.slot = 2]>>, Solo(ada)),
     report  |-> Act(OnWeekday(1), <<[Plain EXCEPT !.by = "author"]>>, Solo(ada))]

\* Conformance invariant I2: a causal child never precedes its parent.  A step
\* with a parent_step and no after is placed without regard to that step.
ChildAfterParent ==
    \A i, j \in DOMAIN journal :
        journal[j].id = journal[i].parent => journal[j].at <= journal[i].at

\* The parent waits for its actor, the child for nobody.
Threaded ==
    [standup |-> Act(OnDaily, <<[Plain EXCEPT !.by = "author"]>>, Solo(ada)),
     ticket  |-> Act(OnDaily, <<[Plain EXCEPT !.id = "open", !.by = "author"],
                                [Plain EXCEPT !.id = "ack", !.parent = "open"]>>, Solo(ada))]

\* A process that passes reference integrity (every after targets an existing
\* step, no cycles) can be executed.  The steps are executed as declared, and
\* one that follows a later one raises (Misordered); so does the second turn of a
\* person who comes twice in a role that comments (Doubled).
LintCleanRuns == pc # "failed"

-----------------------------------------------------------------------------
\* An instance that waits for a condition starts no earlier than the event
\* that made the condition true.  Nodes are created when the instance is
\* executed, ahead of the clock, and the next tick already sees them.
ConditionFromThePresent ==
    [][\A e \in queue' \ queue :
           ~e.tick /\ e.inst.why = "cond" =>
               LET c == scenario[e.act].trigger IN since'[c.node][c.attr] <= e.at]_vars

\* The document appears a day after the instance starts; a tick lies in between.
Ahead ==
    [write |-> Act(OnStart, <<[Plain EXCEPT !.id = "plan"],
                              [Plain EXCEPT !.days = 2, !.effects = <<CreateDoc("draft")>>]>>,
                   NoRoles),
     read  |-> Act(When("doc", "draft"), <<Plain>>, NoRoles)]

\* A condition that holds, by a change inside the window, has fired.  A change
\* dated past the end of the window marks it fired and enqueues nothing.
ConditionHonoured ==
    pc = "done" =>
        \A a \in Triggered(scenario, "condition") :
            LET c == scenario[a].trigger IN
            Holds(c, world) /\ since[c.node][c.attr] <= window.end =>
                CondFiring(a, window.end).inst \in fired

\* The first approval slips past the window, a second one is in time.
Twice ==
    [standup |-> Act(OnDaily, <<[Plain EXCEPT !.by = "author", !.slot = 2]>>, Solo(ada)),
     slow    |-> [Act(OnDaily, <<[Plain EXCEPT !.by = "author",
                                     !.effects = <<SetStatus("project", "approved")>>]>>,
                      Solo(ada)) EXCEPT !.priority = 2],
     fast    |-> [Act(OnWeekday(1), <<[Plain EXCEPT !.effects =
                                     <<SetStatus("project", "approved")>>]>>,
                      NoRoles) EXCEPT !.priority = 3],
     react   |-> Act(When("project", "approved"), <<Plain>>, NoRoles)]

\* The projection of the world at the time of an event holds nothing of its
\* future.  It selects nodes by their creation; their properties are the last
\* ones written.
ProjectionHonest ==
    pc = "done" =>
        \A i \in DOMAIN journal : \A x \in Items :
            world.born[x] # None /\ world.born[x] <= journal[i].at =>
                \A y \in Attrs : since[x][y] <= journal[i].at

-----------------------------------------------------------------------------
ClaimScenarios == {Crowded, Threaded, Misordered, Ahead, Twice, Review, Doubled}
ClaimWindows == {[start |-> 0, end |-> 5], [start |-> 3, end |-> 5], [start |-> 0, end |-> 14]}
=============================================================================
