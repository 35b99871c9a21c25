------------------------------ MODULE JobLedger ------------------------------
(***************************************************************************)
(* What a job promises its user (docs/EXPLORER_RUNS.md): it is started and *)
(* stopped any number of times, each artifact that gets rendered stays     *)
(* rendered, it is done when all of them are, and what is done, cancelled  *)
(* or deleted is not taken up again.  The promise is the manager's, of a   *)
(* job with a snapshot: while a worker lives that the manager has          *)
(* forgotten, or once the snapshot has gone with that of another run, it   *)
(* says nothing.                                                           *)
(***************************************************************************)
CONSTANT Artifacts

VARIABLES
    status, rendered,
    covered   \* whether the manager knows of every worker there is, and
              \* nothing but the job decides what becomes of its snapshot

vars == <<status, rendered>>

Resumable == {"created", "paused", "failed", "interrupted"}

Init == status = "created" /\ rendered \subseteq Artifacts

Start == status \in Resumable /\ status' = "running" /\ UNCHANGED rendered

Render ==
    /\ status = "running"
    /\ \E k \in Artifacts \ rendered : rendered' = rendered \cup {k}
    /\ UNCHANGED status

Stop ==
    /\ status = "running" /\ status' \in {"paused", "failed", "interrupted"}
    /\ UNCHANGED rendered

Finish == status = "running" /\ rendered = Artifacts /\ status' = "done" /\ UNCHANGED rendered

Cancel == status \in Resumable /\ status' = "cancelled" /\ UNCHANGED rendered

\* The snapshot goes with the job, or stays where others use it.
Delete == status # "running" /\ status' = "deleted" /\ rendered' \in {{}, rendered}

Uncovered ==
    /\ ~covered'
    /\ status' \in Resumable \cup {"running", "done", "cancelled", "deleted"}
    /\ rendered' \subseteq Artifacts

Next == Start \/ Render \/ Stop \/ Finish \/ Cancel \/ Delete \/ Uncovered

Spec == Init /\ [][Next]_vars
=============================================================================
