----------------------------- MODULE MCExplorer -----------------------------
(* One or two jobs, three runs; each initial budget is a small errand of    *)
(* the user, so that operations that meet in the code meet in a behaviour.   *)
EXTENDS Explorer

Errand(S, n) == [op \in UserOps |-> IF op \in S THEN n ELSE 0]
Both(a, b) == [op \in UserOps |-> a[op] + b[op]]

MCBudgets ==
    {Errand({"select"}, 2),
     Errand({"select", "resume"}, 1),
     Both(Errand({"chat", "eval", "cancelChat"}, 1), Errand({"cancelEval"}, 1)),
     Errand({"eval"}, 2),
     Both(Errand({"load"}, 2), Errand({"diff"}, 1)),
     Both(Errand({"catalog"}, 2), Errand({"scaffold"}, 1))}
=============================================================================
