------------------------------ MODULE MCJobRuns ------------------------------
(***************************************************************************)
(* Two artifacts.  The ceiling is below the estimate, or between it and    *)
(* what the artifacts turn out to cost.  The job extends none; or it       *)
(* extends a run, and shares its directory, copies what is in it to        *)
(* another, or keeps nothing.                                              *)
(***************************************************************************)
EXTENDS JobRuns

MCArtifacts == <<"a", "b">>
MCPrice == [k \in {"a", "b"} |-> IF k = "a" THEN 1 ELSE 2]
MCCeilings == {0, 2}

Layout(place, cached, parents) == [place |-> place, cache |-> cached, parent |-> parents]

MCLayouts ==
    {Layout("own", {}, {}), Layout("parent", {"a", "b"}, {"a", "b"}),
     Layout("elsewhere", {}, {"a"}), Layout("none", {}, {"a"})}

-----------------------------------------------------------------------------
(***************************************************************************)
(* What the documents say of a job and its manager and what the code does  *)
(* not keep.  MCJobRuns.cfg says how each of these is refuted.             *)
(***************************************************************************)

FreeOfCeilings == {None}
OwnOrCopied == {Layout("own", {}, {}), Layout("elsewhere", {}, Keys)}
Inherited == {Layout("parent", Keys, Keys)}
Nowhere == {Layout("none", {}, {})}

\* The ledger carries the cost spent across segments, and a hard kill is as safe
\* as a pause.  The segment of a killed worker is never entered: state.json says
\* what it had spent until the job is resumed, and then it is forgotten.
LedgerKeepsSpend ==
    request /\ state.status \in {"paused", "failed", "done"} /\ (\A p \in Pids : ~Live(p))
        => Sum(state.segments) = Kept

\* Closing the app pauses a run.  Nothing signals the worker, and it cannot
\* report its failure on the broken pipe: the job is left interrupted.
ClosingPauses == View # "interrupted"

\* A job is cancelled after its worker has stopped.  A worker from before the
\* restart of the sidecar is not awaited.
CancelAwaits == View = "cancelled" => \A p \in Pids : ~Live(p)

\* A worker that has not progressed within the grace period after a pause is
\* sent SIGTERM.  The timer is never armed.
PauseSignals ==
    \A p \in Pids :
        pauseFile /\ Supervised /\ sup.pid = p /\ At(p, "call")
            ~> ~At(p, "call") \/ worker[p].signalled

\* Only the calls that never completed are issued.  A worker that the sidecar has
\* forgotten enters its pid over that of the one at work, and dies: the job is
\* shown as interrupted, and a third worker may render beside the second.
OnlyIncompleteCalls == request => \A k \in Keys : billed[k] <= 1 + lost[k]

\* A run that extends another replays what its parent has rendered from the copy of
\* its cache (docs/EXPLORER_RUNS.md).  A copy that a kill cuts short is never
\* completed: the cache is not empty any more.  And there is no copy where the run
\* takes the directory over with the configuration: deleting the parent's job then
\* makes it pay for everything again.
ParentPaysForAll == request => \A k \in layout.parent : billed[k] = 0

\* The child is self-contained: what has been rendered stays in its snapshot, also when
\* the job of its parent is deleted.
SelfContained == [][request' => cache \subseteq cache']_vars

\* The cache is mandatory and every job has one, so that a resumed job pays for nothing
\* twice.  The form of the explorer writes null for a directory left empty.
CacheMandatory == request /\ restarts = 0 => \A k \in Keys : billed[k] <= 1 + lost[k]

\* Deleting a job removes its directory, and is refused while a worker is at
\* work.  A worker from before the restart makes the directory again.
DeleteRemoves == ~request => state = None
=============================================================================
