---------------------------- MODULE MCRunAssembly ----------------------------
(***************************************************************************)
(* Each scenario by itself, and runs of several over one world.            *)
(***************************************************************************)
EXTENDS MCScheduler, RunAssembly

\* A document that a first scenario writes and a second waits for; the person who
\* writes it is booked in both, for several days at a time and for short ones.
Writing ==
    [write |-> Act(OnDaily, <<[Plain EXCEPT !.by = "author", !.slot = 6,
                                 !.effects = <<CreateDoc("draft")>>],
                              [Plain EXCEPT !.id = "t", !.by = "author", !.after = "s", !.slot = 2,
                                 !.effects = <<SetStatus("doc", "approved")>>]>>, Solo(ada))]
Waiting ==
    [read  |-> Act(When("doc", "approved"), <<[Plain EXCEPT !.by = "author"]>>, Solo(ada)),
     write |-> Act(OnDaily, <<[Plain EXCEPT !.by = "author", !.effects = <<CreateDoc("new")>>],
                              [Plain EXCEPT !.id = "t", !.by = "author"]>>, Solo(ada))]

Singles == {<<s>> : s \in MCScenarios}
MCPrograms ==
    Singles \cup {<<Writing, Waiting>>, <<Waiting, Writing>>, <<Waiting, Waiting, Waiting>>,
                  <<Writing, Twins, Writing>>, <<Runaway, Waiting>>, <<Busywork, Writing>>, <<Twins, Review>>,
                  <<Waiting, Misordered>>}
MCAllScenarios == MCScenarios \cup {Writing, Waiting}
=============================================================================
