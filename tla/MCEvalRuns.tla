----------------------------- MODULE MCEvalRuns -----------------------------
(* Generated questions differ from each other, all proposals read the same. *)
EXTENDS EvalRuns
MCText == [q \in Questions |-> IF q \in Generated THEN q ELSE None]
=============================================================================
