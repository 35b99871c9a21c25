----------------------------- MODULE MCRenderPool -----------------------------
(***************************************************************************)
(* Three scenarios on two threads: one has two events, the second of which *)
(* is rendered by two producers, one with a single event and one without   *)
(* deliverables.  What an earlier segment has left in the cache is         *)
(* nothing, all but the last artifact of the first scenario, or all of it. *)
(***************************************************************************)
EXTENDS RenderPool

MCKeys == {"a", "b", "c", "d"}
MCPrice == [k \in MCKeys |-> IF k = "d" THEN 2 ELSE 1]
MCWork == << << <<"a">>, <<"b", "c">> >>, << <<"d">> >>, <<>> >>
MCCaches == {{}, {"a", "b", "d"}, MCKeys}

\* For what needs two threads and no more.
SmallWork == << << <<"a">>, <<"b">> >>, << <<"d">> >> >>
SmallCaches == {{}}
=============================================================================
