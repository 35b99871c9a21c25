------------------------------ MODULE EvalRuns ------------------------------
(***************************************************************************)
(* The evaluations of one run directory: its question set, which separate   *)
(* command-line processes read and rewrite (evals/store.py, proposals.py,   *)
(* cli.py); the turns of the chat that proposes questions (sidecar/evals/   *)
(* propose.ts); and evaluation runs, answered by a pool of coroutines in    *)
(* the sidecar (run.ts) or by a Python process it reads (evals/runner.py).  *)
(*                                                                         *)
(* A question is a model value; Text says which ones read the same.  Scores *)
(* are left to the module that models them: a report is the set of          *)
(* questions it is computed over.                                           *)
(***************************************************************************)
EXTENDS Naturals, Sequences, SequencesExt, FiniteSets

CONSTANTS
    Generated,   \* what generate derives from the knowledge graph
    Proposals,   \* what the chat can propose
    Text,        \* the normalised text of a question
    Commands,    \* slots for command-line processes
    Workers,     \* coroutines of an evaluation in the sidecar
    MaxTurns,    \* turns of the proposal chat
    MaxCommands, \* commands that are begun
    MaxReview,   \* proposals made
    None

Questions == Generated \cup Proposals

ASSUME EvalAssumption ==
    /\ Questions = DOMAIN Text /\ IsFiniteSet(Generated)
    /\ Workers # {}           \* Math.max(1, ...) of them
    /\ MaxTurns \in Nat /\ MaxCommands \in Nat /\ MaxReview \in Nat
    /\ None \notin {"explorer", "python", "cancelled", "done"}
    /\ None \notin {"answering", "complete", "failed", "error"}

VARIABLES
    file,    \* questions.jsonl: the questions in it, or None
    cmd,     \* per slot: what the process does and has read
    begun,   \* commands begun
    turn,    \* the proposal chat: turns left, texts it has seen
    review,  \* the review list: proposals with their verdict
    run      \* the evaluation

vars == <<file, cmd, begun, turn, review, run>>

Lines == IF file = None THEN <<>> ELSE file

\* The elements of a sequence that are in S, in their order.
Keep(s, S) ==
    LET kept[n \in 0..Len(s)] ==
            IF n = 0 THEN <<>>
            ELSE IF s[n] \in S THEN Append(kept[n - 1], s[n]) ELSE kept[n - 1]
    IN  kept[Len(s)]

NoCommand == [op |-> None, arg |-> {}, at |-> "idle", new |-> <<>>]
NotRun == [at |-> "none", runner |-> None, sel |-> None, ids |-> <<>>,
           seen |-> <<>>, next |-> 1, busy |-> [w \in Workers |-> 0],
           done |-> <<>>, kept |-> <<>>, cut |-> {}, aborted |-> FALSE,
           told |-> {}, code |-> None, status |-> None, report |-> {}]

Init ==
    /\ file \in {None, SetToSeq(Generated)}
    /\ cmd = [c \in Commands |-> NoCommand]
    /\ begun = 0
    /\ turn = [left |-> MaxTurns, open |-> FALSE, seen |-> {}]
    /\ review = <<>>
    /\ run = NotRun

-----------------------------------------------------------------------------
(* The commands on the question set: each reads the file, computes, and     *)
(* writes the whole file.                                                   *)

Begin(c, op, arg) ==
    /\ cmd[c].at = "idle"
    /\ begun < MaxCommands
    /\ begun' = begun + 1
    /\ cmd' = [cmd EXCEPT ![c] = [NoCommand EXCEPT !.op = op, !.arg = arg, !.at = "begun"]]
    /\ UNCHANGED <<file, turn, review, run>>

\* addCheckedToSet sends valid proposals of the review list.
Reviewed == {review[i].q : i \in {k \in DOMAIN review : review[k].valid}}

BeginGenerate(c) == Begin(c, "generate", {})
BeginAdd(c) == \E S \in (SUBSET Reviewed) \ {{}} : Begin(c, "add", S)
BeginRemove(c) == \E q \in Questions : Begin(c, "remove", {q})

Goes(c, stage, new) ==
    /\ cmd' = [cmd EXCEPT ![c] = IF stage = "idle" THEN NoCommand
                                 ELSE [@ EXCEPT !.at = stage, !.new = new]]
    /\ UNCHANGED <<file, begun, turn, review, run>>

\* Without --force an existing set is kept.
ReadGenerate(c) ==
    /\ cmd[c].op = "generate" /\ cmd[c].at = "begun"
    /\ IF file # None THEN Goes(c, "idle", <<>>)
       ELSE Goes(c, "write", SetToSeq(Generated))

\* validate_proposals: what is in the set already is rejected.
Validate(c) ==
    LET accepted == cmd[c].arg \ ToSet(Lines) IN
    /\ cmd[c].op = "add" /\ cmd[c].at = "begun"
    /\ IF accepted = {} THEN Goes(c, "idle", <<>>)
       ELSE Goes(c, "append", SetToSeq(accepted))

\* append_questions without the check it makes on what it has read.
AppendBlind(c) ==
    /\ cmd[c].op = "add" /\ cmd[c].at = "append"
    /\ Goes(c, "write", Lines \o cmd[c].new)

\* append_questions reads the file again and raises on a known id.
AppendAccepted(c) ==
    /\ cmd[c].op = "add" /\ cmd[c].at = "append"
    /\ IF ToSet(cmd[c].new) \cap ToSet(Lines) # {} THEN Goes(c, "idle", <<>>)
       ELSE Goes(c, "write", Lines \o cmd[c].new)

\* remove_questions: only proposed ones; nothing is written if none is found.
ReadRemove(c) ==
    LET removed == cmd[c].arg \cap Proposals \cap ToSet(Lines) IN
    /\ cmd[c].op = "remove" /\ cmd[c].at = "begun"
    /\ IF removed = {} THEN Goes(c, "idle", <<>>)
       ELSE Goes(c, "write", Keep(Lines, Questions \ removed))

Write(c) ==
    /\ cmd[c].at = "write"
    /\ file' = cmd[c].new
    /\ cmd' = [cmd EXCEPT ![c] = NoCommand]
    /\ UNCHANGED <<begun, turn, review, run>>

-----------------------------------------------------------------------------
(* The proposal chat: a turn resumes the conversation of the one before.    *)

\* runPropose: what is in the set when the turn begins has been seen.
BeginTurn ==
    /\ ~turn.open /\ turn.left > 0
    /\ turn' = [left |-> turn.left - 1, open |-> TRUE,
                seen |-> {Text[q] : q \in ToSet(Lines)}]
    /\ UNCHANGED <<file, cmd, begun, review, run>>

\* propose_question: validateProposal, then onProposal.
Propose(q) ==
    LET valid == Text[q] \notin turn.seen IN
    /\ turn.open /\ Len(review) < MaxReview
    /\ review' = Append(review, [q |-> q, valid |-> valid])
    /\ turn' = [turn EXCEPT !.seen = IF valid THEN @ \cup {Text[q]} ELSE @]
    /\ UNCHANGED <<file, cmd, begun, run>>

EndTurn ==
    /\ turn.open
    /\ turn' = [turn EXCEPT !.open = FALSE, !.seen = {}]
    /\ UNCHANGED <<file, cmd, begun, review, run>>

-----------------------------------------------------------------------------
(* An evaluation.  ids: the questions the sidecar has selected; seen: what   *)
(* a Python runner selects again, on the file as it then is.                *)

\* sample_ids: a function of the set of ids alone, for one seed.
SampleIds(S) == CHOOSE T \in SUBSET S : Cardinality(T) = (Cardinality(S) + 1) \div 2

Wanted(sel, lines) ==
    LET S == CASE sel.kind = "all" -> ToSet(lines)
               [] sel.kind = "half" -> SampleIds(ToSet(lines))
               [] sel.kind = "ids" -> sel.ids
    IN Keep(lines, S)

Active == run.at \in {"loading", "running", "spawned", "exited"}

\* evalsRun: nothing to run is an error; the meta file is written before the
\* run directory is loaded.
StartRun(runner, sel) ==
    /\ run.at = "none"
    /\ LET ids == Wanted(sel, Lines) IN
         /\ ids # <<>>
         /\ run' = [NotRun EXCEPT
              !.at = IF runner = "explorer" THEN "loading" ELSE "spawned",
              !.runner = runner, !.sel = sel, !.ids = ids, !.status = "running"]
    /\ UNCHANGED <<file, cmd, begun, turn, review>>

\* ensureLoaded; when it throws the request fails and the meta stays as it is.
Load ==
    /\ run.at = "loading"
    /\ \E stage \in {"running", "lost"} : run' = [run EXCEPT !.at = stage]
    /\ UNCHANGED <<file, cmd, begun, turn, review>>

Cancel ==
    /\ Active /\ ~run.aborted
    /\ run' = [run EXCEPT !.aborted = TRUE, !.kept = run.done]
    /\ UNCHANGED <<file, cmd, begun, turn, review>>

Stays == UNCHANGED <<file, cmd, begun, turn, review>>
Left == Len(run.ids) + 1     \* busy with Left: the coroutine has returned

\* The index taken and moved on in two turns of the event loop.
TakeStale(w) ==
    /\ run.at = "running" /\ run.busy[w] = 0
    /\ IF run.aborted \/ run.next > Len(run.ids)
       THEN run' = [run EXCEPT !.busy[w] = Left]
       ELSE run' = [run EXCEPT !.busy[w] = run.next,
                      !.next = IF \E v \in Workers : run.busy[v] = @ THEN @ + 1 ELSE @]
    /\ Stays

\* A coroutine looks at the signal, then takes the next question.
Take(w) ==
    /\ run.at = "running" /\ run.busy[w] = 0
    /\ IF run.aborted \/ run.next > Len(run.ids)
       THEN run' = [run EXCEPT !.busy[w] = Left]
       ELSE run' = [run EXCEPT !.busy[w] = run.next, !.next = @ + 1]
    /\ Stays

\* answerQuestion returns, with whatever had been submitted when interrupted;
\* the answer is scored and counted all the same.
Answer(w) ==
    /\ run.at = "running" /\ run.busy[w] \in DOMAIN run.ids
    /\ LET q == run.ids[run.busy[w]] IN
       \E whole \in {TRUE, ~run.aborted} :
          run' = [run EXCEPT !.busy[w] = 0, !.done = Append(@, q),
                             !.told = @ \cup {q},
                             !.cut = IF whole THEN @ ELSE @ \cup {q}]
    /\ Stays

\* The report of a cancelled run taken over the whole selection.
FinishOverAll ==
    /\ run.at = "running"
    /\ \A w \in Workers : run.busy[w] = Left
    /\ run' = [run EXCEPT !.at = "ended",
                 !.status = IF run.aborted THEN "cancelled" ELSE "done",
                 !.report = ToSet(run.ids)]
    /\ Stays

\* Waits for the questions instead of the coroutines.
FinishAnswered ==
    /\ run.at = "running"
    /\ Len(run.done) = Len(run.ids)
    /\ run' = [run EXCEPT !.at = "ended",
                 !.status = IF run.aborted THEN "cancelled" ELSE "done",
                 !.report = ToSet(run.ids)]
    /\ Stays

\* Promise.all of the coroutines, then items, predictions and meta.
Finish ==
    /\ run.at = "running"
    /\ \A w \in Workers : run.busy[w] = Left
    /\ run' = [run EXCEPT !.at = "ended",
                 !.status = IF run.aborted THEN "cancelled" ELSE "done",
                 !.report = ToSet(IF run.aborted THEN run.done ELSE run.ids)]
    /\ Stays

\* The Python process reads the set and selects; or misses a prerequisite.
PySelect ==
    /\ run.at = "spawned" /\ run.code = None
    /\ \/ run' = [run EXCEPT !.seen = Wanted(run.sel, Lines), !.code = "answering"]
       \/ run' = [run EXCEPT !.code = "error", !.at = "exited"]
    /\ Stays

\* One line per answer; the sidecar keeps the pair if it knows the question.
PyAnswer ==
    /\ run.at = "spawned" /\ run.code = "answering"
    /\ run.next <= Len(run.seen)
    /\ LET q == run.seen[run.next] IN
       run' = [run EXCEPT !.next = @ + 1, !.told = @ \cup {q},
                 !.done = IF q \in ToSet(run.ids) THEN Append(@, q) ELSE @]
    /\ Stays

\* The stream ends: complete, by an exception of the model, or killed.
PyExit ==
    /\ run.at = "spawned" /\ run.code = "answering"
    /\ \/ /\ run.next > Len(run.seen)
          /\ run' = [run EXCEPT !.at = "exited", !.code = "complete"]
       \/ run' = [run EXCEPT !.at = "exited", !.code = "failed"]
    /\ Stays

PyFinish ==
    /\ run.at = "exited"
    /\ run' = [run EXCEPT !.at = "ended",
         !.status = IF run.code = "error" THEN "failed"
                    ELSE IF run.aborted THEN "cancelled"
                    ELSE IF run.code = "complete" THEN "done" ELSE "failed",
         !.report = IF run.code = "complete" THEN ToSet(run.seen)
                    ELSE IF run.aborted THEN ToSet(run.done) ELSE ToSet(run.ids)]
    /\ Stays

\* The sidecar exits; its evaluation is gone, its meta file is not.
SidecarExits ==
    /\ Active
    /\ run' = [run EXCEPT !.at = "lost"]
    /\ Stays

Selections == [kind : {"all", "half"}, ids : {{}}] \cup [kind : {"ids"}, ids : {{q} : q \in Questions}]

Command(c) == ReadGenerate(c) \/ Validate(c) \/ AppendAccepted(c) \/ ReadRemove(c) \/ Write(c)
InSidecar == \/ Load \/ Finish \/ PySelect \/ PyAnswer \/ PyExit \/ PyFinish
             \/ \E w \in Workers : Take(w) \/ Answer(w)

Next ==
    \/ \E c \in Commands : BeginGenerate(c) \/ BeginAdd(c) \/ BeginRemove(c) \/ Command(c)
    \/ BeginTurn \/ EndTurn \/ \E q \in Proposals : Propose(q)
    \/ \E runner \in {"explorer", "python"}, sel \in Selections : StartRun(runner, sel)
    \/ Cancel \/ SidecarExits \/ InSidecar

Fairness == WF_vars(InSidecar)
Spec == Init /\ [][Next]_vars /\ Fairness

-----------------------------------------------------------------------------
(* Properties.                                                             *)

Proposal == [q : Questions, valid : BOOLEAN]
Process == [op : {None, "generate", "add", "remove"}, arg : SUBSET Questions,
            at : {"idle", "begun", "append", "write"}, new : Seq(Questions)]
Evaluation ==
    [at : {"none", "loading", "running", "spawned", "exited", "ended", "lost"},
     runner : {None, "explorer", "python"}, sel : Selections \cup {None},
     ids : Seq(Questions), seen : Seq(Questions), next : Nat \ {0},
     busy : [Workers -> Nat], done : Seq(Questions), kept : Seq(Questions),
     cut : SUBSET Questions, aborted : BOOLEAN, told : SUBSET Questions,
     code : {None, "answering", "error", "complete", "failed"},
     status : {None, "running", "cancelled", "done", "failed"}, report : SUBSET Questions]

TypeOK ==
    /\ Lines \in Seq(Questions)
    /\ cmd \in [Commands -> Process]
    /\ begun \in 0..MaxCommands
    /\ turn \in [left : 0..MaxTurns, open : BOOLEAN, seen : SUBSET {Text[q] : q \in Questions}]
    /\ review \in Seq(Proposal) /\ Len(review) <= MaxReview
    /\ run \in Evaluation

\* The ids of the question set stay unique, although processes that add the
\* same proposal read the file before either has written it.
IdsUnique == IsInjective(Lines)

\* An evaluation that is done has answered each of its questions once, by
\* whichever coroutine, and reports on all of them; whoever changes the set
\* meanwhile.
DoneIsComplete ==
    /\ IsInjective(run.done)
    /\ ToSet(run.done) \subseteq ToSet(run.ids)
    /\ run.status = "done"
       => IF run.runner = "explorer"
          THEN ToSet(run.done) = ToSet(run.ids) /\ run.report = ToSet(run.ids)
          ELSE run.report = run.told /\ ToSet(run.done) = run.told \cap ToSet(run.ids)

\* The question set and the evaluation read from it stay consistent under
\* commands, reviews and coroutines that interleave at every await.
EvalSound == IdsUnique /\ DoneIsComplete

\* EXPLORER_EVALS.md: of a cancelled evaluation finished questions are kept and
\* the report is computed over them: no answer that was in before is lost, and
\* nothing that was not even taken up is scored.
CancelKeepsAnswers ==
    run.status = "cancelled"
    => ToSet(run.kept) \subseteq run.report /\ run.report \subseteq run.told

\* An evaluation leaves the status running, cancelled or not, whatever its
\* process does; unless its run directory cannot be loaded or the sidecar exits.
LeavesRunning == (run.status = "running") ~> (run.status # "running" \/ run.at = "lost")

\* propose.ts: a proposal must not duplicate one "accepted earlier in this same
\* conversation".
ProposalsDistinct ==
    \A i, k \in DOMAIN review :
        i # k /\ review[i].valid /\ review[k].valid
        => Text[review[i].q] # Text[review[k].q]

\* runner.py: "never a stream that starts then fails partway".
CleanOrComplete == run.code = "failed" /\ ~run.aborted => run.told = {}

\* EXPLORER_EVALS.md: "finished questions are kept and the report is computed
\* over them": no question the cancellation interrupted is scored.
OnlyFinishedScored == run.status = "cancelled" => run.report \cap run.cut = {}
=============================================================================
