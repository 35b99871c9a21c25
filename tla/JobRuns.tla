------------------------------- MODULE JobRuns -------------------------------
(***************************************************************************)
(* One job: its directory, the worker processes that run and resume it     *)
(* (jobs/worker.py over jobs/state.py and jobs/control.py) and the manager *)
(* that supervises them in the sidecar of the explorer                     *)
(* (sidecar/jobs/manager.ts), which may itself exit and come back.         *)
(*                                                                         *)
(* A worker renders its artifacts one after the other here; what several   *)
(* render threads do to each other is in RenderPool.  The user acts on     *)
(* what the list of jobs shows, as the buttons of the Runs view do.        *)
(***************************************************************************)
EXTENDS Integers, Sequences, SequencesExt

CONSTANTS
    Artifacts,    \* the artifacts of the run, in the order they are rendered
    Price,        \* what rendering each of them costs
    Estimate,     \* what the dry run says they cost
    Ceilings,     \* what the user may set cost_ceiling_usd to at first
    Layouts,      \* where the snapshot of the job may be (scale.cache_dir), what it
                  \* holds at first, and what the cache of the parent run holds of
                  \* this run's artifacts; nothing when the run extends no other
    MaxStarts,    \* bound: the worker processes
    MaxKills,     \* bound: the workers killed from outside
    MaxRestarts,  \* bound: the exits of the sidecar
    None

Keys == Range(Artifacts)

Pids == 1..MaxStarts

Statuses == {"created", "running", "paused", "failed", "done", "cancelled"}

Segments == [cost : Nat, reason : {"paused", "failed", "done"}]

\* What state.json may hold.
Ledgers == [status : Statuses, pid : Pids \cup {None}, done : 0..Len(Artifacts),
            segments : Seq(Segments)]

\* A job keeps its answers in a directory of its own, in that of the run it extends,
\* whose configuration it takes over with the directory, in one that the user names,
\* or nowhere: the form of the explorer may leave it without one.  One of its own it
\* gets only where nothing was taken over.
Places == {"own", "parent", "elsewhere", "none"}

LayoutOK(l) ==
    /\ l.place \in Places /\ l.cache \subseteq Keys /\ l.parent \subseteq Keys
    /\ l.place = "own" => l.cache = {} /\ l.parent = {}
    /\ l.place = "parent" => l.cache = l.parent
    /\ l.place = "none" => l.cache = {}

ASSUME JobAssumption ==
    /\ Artifacts \in Seq(Keys) /\ IsInjective(Artifacts)
    /\ Price \in [Keys -> Nat]
    /\ \A l \in Layouts : LayoutOK(l)
    /\ Estimate \in Nat /\ Ceilings \subseteq Nat \cup {None}
    /\ None \notin Nat \cup Ledgers
    /\ MaxStarts \in Nat /\ MaxKills \in Nat /\ MaxRestarts \in Nat

VARIABLES
    request,    \* whether the directory holds job.json and config.json
    state,      \* state.json, or None
    pauseFile,  \* control.json
    ceiling,    \* cost_ceiling_usd of config.json
    layout,     \* where the snapshot is; it never changes
    cache,      \* the snapshot: the artifacts whose answer is stored
    torn,       \* whether it holds a file that was not copied to its end
    gone,       \* whether the job of the parent run has been deleted
    worker,     \* the worker processes
    sup,        \* the worker the manager supervises and whether it has seen it exit
    cancel,     \* the cancel operation the manager is in
    billed,     \* history: how often each artifact has been paid for
    lost,       \* history: how often it was in vain
    cutShort,   \* history: whether a worker ended without an end of its own
    cutCopy,    \* history: whether a worker ended while it copied the parent's cache
    kills, restarts

vars == <<request, state, pauseFile, ceiling, layout, cache, torn, gone, worker, sup, cancel, billed,
          lost, cutShort, cutCopy, kills, restarts>>

copies  == <<layout, torn, gone>>
disk    == <<request, state, pauseFile, ceiling, cache, copies>>
manager == <<sup, cancel, restarts>>
history == <<billed, lost, cutShort, cutCopy, kills>>

NewState == [status |-> "created", pid |-> None, done |-> 0, segments |-> <<>>]

Worker(pc) == [pc |-> pc, signalled |-> FALSE, piped |-> TRUE, i |-> 1, cost |-> 0,
               ceiling |-> None, mem |-> NewState]

PCs == {"none", "spawned", "open", "look", "copy", "copying", "setup", "check", "call",
        "store", "report", "forward", "assemble", "pausing", "failing", "failed", "finish",
        "finalize", "exit", "dead"}

Workers == [pc : PCs, signalled : BOOLEAN, piped : BOOLEAN, i : 1..(Len(Artifacts) + 1),
            cost : Nat, ceiling : Nat \cup {None}, mem : Ledgers]

Init ==
    /\ request = TRUE /\ state = NewState /\ pauseFile = FALSE
    /\ ceiling \in Ceilings
    /\ layout \in Layouts /\ cache = layout.cache /\ torn = FALSE /\ gone = FALSE
    /\ worker = [p \in Pids |-> Worker("none")]
    /\ sup = [pid |-> None, exited |-> TRUE]
    /\ cancel = [pc |-> "idle", state |-> None]
    /\ billed = [k \in Keys |-> 0] /\ lost = [k \in Keys |-> 0]
    /\ cutShort = FALSE /\ cutCopy = FALSE /\ kills = 0 /\ restarts = 0

Live(p) == worker[p].pc \notin {"none", "dead"}

\* What the list shows: a job that is running under a dead pid is interrupted.
View ==
    CASE state = None -> "deleted"
      [] state # None /\ state.status = "running" /\ ~Live(state.pid) -> "interrupted"
      [] OTHER -> state.status

-----------------------------------------------------------------------------
(* The worker: run_job.                                                    *)

At(p, pc) == worker[p].pc = pc

Goto(p, pc) == worker' = [worker EXCEPT ![p].pc = pc]

Mem(p) == worker[p].mem

Key(p) == Artifacts[worker[p].i]

\* The job is read, a pause asked for earlier is cleared, the handlers are
\* installed.  Without job.json the process ends.
Boot(p) ==
    /\ At(p, "spawned")
    /\ IF request
       THEN /\ pauseFile' = FALSE
            /\ worker' = [worker EXCEPT ![p].pc = "open", ![p].ceiling = ceiling]
       ELSE Goto(p, "exit") /\ UNCHANGED pauseFile
    /\ UNCHANGED <<request, state, ceiling, cache, copies, manager, history>>

\* The ledger is read and the worker enters itself.  (A mutation opens a fresh one.)
OpenFresh(p) ==
    /\ At(p, "open")
    /\ LET mem == [NewState EXCEPT !.status = "running", !.pid = p, !.done = 0]
       IN  /\ state' = mem
           /\ worker' = [worker EXCEPT ![p].pc = "look", ![p].mem = mem]
    /\ UNCHANGED <<request, pauseFile, ceiling, cache, copies, manager, history>>

Open(p) ==
    /\ At(p, "open")
    /\ LET mem == [(IF state = None THEN NewState ELSE state)
                      EXCEPT !.status = "running", !.pid = p, !.done = 0]
       IN  /\ state' = mem
           /\ worker' = [worker EXCEPT ![p].pc = "look", ![p].mem = mem]
    /\ UNCHANGED <<request, pauseFile, ceiling, cache, copies, manager, history>>

\* What the parent rendered is copied where the snapshot is another directory than the
\* parent's, the parent's is there and the snapshot holds nothing.
\* (A mutation has the last test the wrong way round.)
MayCopy == layout.place = "elsewhere" /\ layout.parent # {} /\ ~gone

CopyLookInverted(p) ==
    /\ At(p, "look")
    /\ Goto(p, IF MayCopy /\ (cache # {} \/ torn) THEN "copy" ELSE "setup")
    /\ UNCHANGED <<disk, manager, history>>

CopyLook(p) ==
    /\ At(p, "look")
    /\ Goto(p, IF MayCopy /\ cache = {} /\ ~torn THEN "copy" ELSE "setup")
    /\ UNCHANGED <<disk, manager, history>>

\* File by file: each is there before its contents are.  Files of a parent that is
\* deleted meanwhile are passed over, or reading them fails.
CopyFile(p) ==
    /\ At(p, "copy")
    /\ IF gone \/ layout.parent \subseteq cache
       THEN Goto(p, "setup") /\ UNCHANGED torn
       ELSE Goto(p, "copying") /\ torn' = TRUE
    /\ UNCHANGED <<request, state, pauseFile, ceiling, cache, layout, gone, manager, history>>

CopyContents(p) ==
    /\ At(p, "copying")
    /\ \E k \in layout.parent :
           /\ k \notin cache \/ layout.parent \subseteq cache
           /\ cache' = cache \cup {k}
    /\ torn' = FALSE
    /\ Goto(p, "copy")
    /\ UNCHANGED <<request, state, pauseFile, ceiling, layout, gone, manager, history>>

\* The layers before the render: their progress is reported, and the estimate is
\* held against the ceiling.
Setup(p) ==
    /\ At(p, "setup")
    /\ state' = Mem(p)
    /\ Goto(p, IF ~worker[p].piped \/ (worker[p].ceiling # None /\ Estimate > worker[p].ceiling)
               THEN "failing" ELSE "check")
    /\ UNCHANGED <<request, pauseFile, ceiling, cache, copies, manager, history>>

PauseAsked(p) == worker[p].signalled \/ pauseFile

\* Before each artifact: should_pause, then the cache.
Check(p) ==
    /\ At(p, "check") /\ worker[p].i <= Len(Artifacts)
    /\ Goto(p, CASE PauseAsked(p)                      -> "pausing"
                 [] ~PauseAsked(p) /\ Key(p) \in cache -> "report"
                 [] OTHER                              -> "call")
    /\ UNCHANGED <<disk, manager, history>>

\* The model answers; the answer is kept unless it breaches the ceiling.
Call(p) ==
    /\ At(p, "call")
    /\ billed' = [billed EXCEPT ![Key(p)] = @ + 1]
    /\ IF worker[p].ceiling # None /\ worker[p].cost + Price[Key(p)] > worker[p].ceiling
       THEN Goto(p, "failing") /\ lost' = [lost EXCEPT ![Key(p)] = @ + 1]
       ELSE Goto(p, "store") /\ UNCHANGED lost
    /\ UNCHANGED <<disk, manager, cutShort, cutCopy, kills>>

\* The run raises.
Fails(p) ==
    /\ worker[p].pc \in {"setup", "call", "assemble"} \/ (At(p, "copy") /\ gone)
    /\ Goto(p, "failing")
    /\ UNCHANGED <<disk, manager, history>>

\* (A mutation prices the answer and does not store it.)
StoreNothing(p) ==
    /\ At(p, "store")
    /\ worker' = [worker EXCEPT ![p].pc = "report", ![p].cost = @ + Price[Key(p)]]
    /\ UNCHANGED <<disk, manager, history>>

\* Without a directory the answer is kept nowhere.
Store(p) ==
    /\ At(p, "store")
    /\ cache' = IF layout.place = "none" THEN cache ELSE cache \cup {Key(p)}
    /\ worker' = [worker EXCEPT ![p].pc = "report", ![p].cost = @ + Price[Key(p)]]
    /\ UNCHANGED <<request, state, pauseFile, ceiling, copies, manager, history>>

\* The artifact is entered into state.json ...
Report(p) ==
    /\ At(p, "report")
    /\ state' = [Mem(p) EXCEPT !.done = worker[p].i]
    /\ worker' = [worker EXCEPT ![p].pc = "forward", ![p].mem = state']
    /\ UNCHANGED <<request, pauseFile, ceiling, cache, copies, manager, history>>

\* ... and written to stdout, which raises when nobody reads it any more.
Forward(p) ==
    /\ At(p, "forward")
    /\ worker' = IF worker[p].piped
                 THEN [worker EXCEPT ![p].pc = "check", ![p].i = @ + 1]
                 ELSE [worker EXCEPT ![p].pc = "failing"]
    /\ UNCHANGED <<disk, manager, history>>

\* Everything is rendered.  (A mutation stops one artifact short.)
RenderedShort(p) ==
    /\ At(p, "check") /\ worker[p].i >= Len(Artifacts)
    /\ Goto(p, "assemble")
    /\ UNCHANGED <<disk, manager, history>>

Rendered(p) ==
    /\ At(p, "check") /\ worker[p].i > Len(Artifacts)
    /\ Goto(p, "assemble")
    /\ UNCHANGED <<disk, manager, history>>

\* The run is assembled, with progress reported on the way.
Assemble(p) ==
    /\ At(p, "assemble")
    /\ state' = Mem(p)
    /\ Goto(p, IF worker[p].piped THEN "finish" ELSE "failing")
    /\ UNCHANGED <<request, pauseFile, ceiling, cache, copies, manager, history>>

\* The segment is closed with what this worker has spent.
EndSegment(p, reason) ==
    [Mem(p) EXCEPT !.segments = Append(@, [cost |-> worker[p].cost, reason |-> reason])]

EndPaused(p) ==
    /\ At(p, "pausing")
    /\ state' = [EndSegment(p, "paused") EXCEPT !.status = "paused"]
    /\ Goto(p, "exit")
    /\ UNCHANGED <<request, pauseFile, ceiling, cache, copies, manager, history>>

\* _fail reports the error before the ledger is written; it raises when the pipe
\* is broken, and nothing is written then.
EndFailed(p) ==
    /\ At(p, "failing")
    /\ worker' = IF worker[p].piped
                 THEN [worker EXCEPT ![p].pc = "failed",
                           ![p].mem = [EndSegment(p, "failed") EXCEPT !.status = "failed"]]
                 ELSE [worker EXCEPT ![p].pc = "exit"]
    /\ UNCHANGED <<disk, manager, history>>

WriteFailed(p) ==
    /\ At(p, "failed")
    /\ state' = Mem(p)
    /\ Goto(p, "exit")
    /\ UNCHANGED <<request, pauseFile, ceiling, cache, copies, manager, history>>

\* The handlers are gone by now.  The next event says that the questions are
\* being generated; it raises when the pipe is broken.
EndDone(p) ==
    /\ At(p, "finish")
    /\ worker' = IF worker[p].piped
                 THEN [worker EXCEPT ![p].pc = "finalize",
                           ![p].mem = [EndSegment(p, "done") EXCEPT !.done = Len(Artifacts)]]
                 ELSE [worker EXCEPT ![p].pc = "exit"]
    /\ UNCHANGED <<disk, manager, history>>

Finalize(p) ==
    /\ At(p, "finalize")
    /\ state' = [Mem(p) EXCEPT !.status = "done"]
    /\ Goto(p, "exit")
    /\ UNCHANGED <<request, pauseFile, ceiling, cache, copies, manager, history>>

Ends(p) == worker' = [worker EXCEPT ![p] = Worker("dead")]

Exit(p) ==
    /\ At(p, "exit")
    /\ Ends(p)
    /\ UNCHANGED <<disk, manager, history>>

\* A worker that dies between the answer and the store has paid in vain.
LostWith(p) == [k \in Keys |-> lost[k] + (IF At(p, "store") /\ Key(p) = k THEN 1 ELSE 0)]

Kill(p) ==
    /\ Live(p) /\ kills < MaxKills
    /\ kills' = kills + 1 /\ cutShort' = TRUE
    /\ cutCopy' = (cutCopy \/ worker[p].pc \in {"copy", "copying"})
    /\ lost' = LostWith(p)
    /\ Ends(p)
    /\ UNCHANGED <<disk, manager, billed>>

\* SIGTERM: the flag, when the handlers are installed, or the end.
Terminate(p) ==
    IF worker[p].pc \in {"spawned", "finish", "finalize", "exit"}
    THEN Ends(p) /\ cutShort' = TRUE
    ELSE worker' = [worker EXCEPT ![p].signalled = TRUE] /\ UNCHANGED cutShort

-----------------------------------------------------------------------------
(* The manager and its user.                                               *)

Supervised == sup.pid # None /\ ~sup.exited

\* The manager starts a worker unless it supervises a live one.  The user is not
\* assumed to start the job again while a cancel reads and writes its state.
\* (A mutation forgets to look.)
StartAgain ==
    /\ View \in {"created", "paused", "interrupted", "failed"} /\ cancel.pc \in {"idle", "look"}
    /\ \E p \in Pids :
           /\ At(p, "none") /\ \A q \in 1..(p-1) : ~At(q, "none")
           /\ Goto(p, "spawned")
           /\ sup' = [pid |-> p, exited |-> FALSE]
    /\ UNCHANGED <<disk, cancel, restarts, history>>

Start ==
    /\ View \in {"created", "paused", "interrupted", "failed"} /\ cancel.pc \in {"idle", "look"}
    /\ ~Supervised
    /\ \E p \in Pids :
           /\ At(p, "none") /\ \A q \in 1..(p-1) : ~At(q, "none")
           /\ Goto(p, "spawned")
           /\ sup' = [pid |-> p, exited |-> FALSE]
    /\ UNCHANGED <<disk, cancel, restarts, history>>

\* The manager is told that its worker has exited.
Reap ==
    /\ Supervised /\ At(sup.pid, "dead")
    /\ sup' = [sup EXCEPT !.exited = TRUE]
    /\ UNCHANGED <<disk, worker, cancel, restarts, history>>

\* job pause writes control.json and prints nothing, which runJson takes for a
\* failure: the operation rejects before it can arm the timer for SIGTERM.
Pause ==
    /\ View = "running"
    /\ pauseFile' = TRUE
    /\ UNCHANGED <<request, state, ceiling, cache, copies, worker, manager, history>>

\* Cancelling: pause, await the worker if there is one to await, mark the state.
CancelAsk ==
    /\ View \in {"running", "paused"} /\ cancel.pc = "idle"
    /\ pauseFile' = TRUE
    /\ cancel' = [cancel EXCEPT !.pc = "look"]
    /\ UNCHANGED <<request, state, ceiling, cache, copies, worker, sup, restarts, history>>

CancelLook ==
    /\ cancel.pc = "look"
    /\ cancel' = [cancel EXCEPT !.pc = IF Supervised THEN "wait" ELSE "read"]
    /\ UNCHANGED <<disk, worker, sup, restarts, history>>

\* The grace period is over.  (A mutation only goes on waiting.)
CancelTimeoutSilent ==
    /\ cancel.pc = "wait" /\ Supervised
    /\ UNCHANGED worker
    /\ cancel' = [cancel EXCEPT !.pc = "terminated"]
    /\ UNCHANGED <<disk, sup, restarts, history>>

CancelTimeout ==
    /\ cancel.pc = "wait" /\ Supervised
    /\ Terminate(sup.pid)
    /\ cancel' = [cancel EXCEPT !.pc = "terminated"]
    /\ UNCHANGED <<disk, sup, restarts, billed, lost, cutCopy, kills>>

CancelProceed ==
    /\ cancel.pc \in {"wait", "terminated"} /\ ~Supervised
    /\ cancel' = [cancel EXCEPT !.pc = "read"]
    /\ UNCHANGED <<disk, worker, sup, restarts, history>>

\* A job that is done, or deleted, is left alone.
CancelRead ==
    /\ cancel.pc = "read"
    /\ cancel' = IF state = None \/ (state # None /\ state.status = "done")
                 THEN [pc |-> "idle", state |-> None] ELSE [pc |-> "write", state |-> state]
    /\ UNCHANGED <<disk, worker, sup, restarts, history>>

\* The directory may be gone: then the write fails.
CancelWrite ==
    /\ cancel.pc = "write"
    /\ state' = IF request THEN [cancel.state EXCEPT !.status = "cancelled"] ELSE state
    /\ cancel' = [pc |-> "idle", state |-> None]
    /\ UNCHANGED <<request, pauseFile, ceiling, cache, copies, worker, sup, restarts, history>>

\* The directory goes, and the snapshot with it where it is the job's own.
Delete ==
    /\ View \notin {"running", "deleted"} /\ ~Supervised
    /\ request' = FALSE /\ state' = None /\ pauseFile' = FALSE
    /\ cache' = IF layout.place = "own" THEN {} ELSE cache
    /\ UNCHANGED <<copies, ceiling, worker, manager, history>>

\* The job of the parent run is deleted, and with it the directory that this job may
\* keep its answers in.  (The next answer makes the directory again.)
DeleteParent ==
    /\ layout.place \in {"parent", "elsewhere"} /\ layout.parent # {} /\ ~gone
    /\ gone' = TRUE
    /\ cache' = IF layout.place = "parent" THEN {} ELSE cache
    /\ UNCHANGED <<request, state, pauseFile, ceiling, layout, torn, worker, manager, history>>

RaiseCeiling ==
    /\ View = "failed" /\ ceiling # None
    /\ ceiling' = None
    /\ UNCHANGED <<request, state, pauseFile, cache, copies, worker, manager, history>>

\* The explorer is closed and opened again.  Nobody tells the workers; the pipes
\* they write to are broken.
Restart ==
    /\ restarts < MaxRestarts
    /\ restarts' = restarts + 1
    /\ sup' = [pid |-> None, exited |-> TRUE]
    /\ cancel' = [pc |-> "idle", state |-> None]
    /\ worker' = [p \in Pids |-> IF Live(p) THEN [worker[p] EXCEPT !.piped = FALSE]
                                 ELSE worker[p]]
    /\ UNCHANGED <<disk, history>>

-----------------------------------------------------------------------------
\* What a worker does by itself; its call is up to the provider.
Works(p) ==
    \/ Boot(p) \/ Open(p) \/ CopyLook(p) \/ CopyFile(p) \/ CopyContents(p) \/ Setup(p)
    \/ Check(p) \/ Store(p) \/ Report(p) \/ Forward(p)
    \/ Rendered(p) \/ Assemble(p) \/ EndPaused(p) \/ EndFailed(p) \/ WriteFailed(p)
    \/ EndDone(p) \/ Finalize(p) \/ Exit(p)

Manages ==
    \/ Reap \/ CancelLook \/ CancelTimeout \/ CancelProceed \/ CancelRead \/ CancelWrite

Next ==
    \/ \E p \in Pids : Works(p) \/ Call(p) \/ Fails(p) \/ Kill(p)
    \/ Manages
    \/ Start \/ Pause \/ CancelAsk \/ Delete \/ DeleteParent \/ RaiseCeiling \/ Restart

\* The processes get on.  Nobody need press a button, and a provider may never answer.
Spec == Init /\ [][Next]_vars /\ (\A p \in Pids : WF_vars(Works(p))) /\ WF_vars(Manages)

-----------------------------------------------------------------------------
(***************************************************************************)
(* Properties.                                                             *)
(***************************************************************************)

TypeOK ==
    /\ request \in BOOLEAN /\ pauseFile \in BOOLEAN
    /\ state \in Ledgers \cup {None}
    /\ ceiling \in Nat \cup {None}
    /\ layout \in Layouts /\ cache \subseteq Keys /\ torn \in BOOLEAN /\ gone \in BOOLEAN
    /\ worker \in [Pids -> Workers]
    /\ sup \in [pid : Pids \cup {None}, exited : BOOLEAN]
    /\ cancel \in [pc : {"idle", "look", "wait", "terminated", "read", "write"},
                   state : Ledgers \cup {None}]
    /\ billed \in [Keys -> Nat] /\ lost \in [Keys -> Nat]
    /\ cutShort \in BOOLEAN /\ cutCopy \in BOOLEAN
    /\ kills \in 0..MaxKills /\ restarts \in 0..MaxRestarts

\* Whether what was stored is still there: the job has a directory for it, and the
\* directory is not the one that went with the job of the parent run.
ParentLost == gone /\ layout.place = "parent"

SnapshotKept == layout.place # "none" /\ ~ParentLost

\* However often the job is started, stopped and killed, an artifact is paid for a
\* second time only when an answer was lost: to a kill before it was stored, to
\* the ceiling, or with the directory of the parent run when the job kept its answers
\* there.  A job without a directory for them is not promised it.  The sidecar may
\* exit in between, once: after a second exit three workers may live, and two of them
\* pay for the same artifact (OnlyIncompleteCalls).
PaysOnlyForLostCalls ==
    request /\ restarts <= 1 /\ layout.place # "none" =>
        \A k \in Keys : billed[k] <= 1 + lost[k] + (IF ParentLost THEN 1 ELSE 0)

Rendering(p) == worker[p].pc \in {"check", "call", "store", "report"}

\* No two workers render at one time, also when the sidecar has forgotten one of
\* them: a forgotten worker fails at its next report.
OneRenderer ==
    restarts <= 1 => \A p, q \in Pids : Rendering(p) /\ Rendering(q) => p = q

\* state.json claims no more artifacts than the snapshot holds, whenever the
\* worker is killed.
LedgerWithinSnapshot == request /\ SnapshotKept => state.done <= Cardinality(cache)

\* What the segments of a ledger say was spent, and what was paid for answers that
\* were not lost.
Sum(segments) == SumFunction([i \in DOMAIN segments |-> segments[i].cost])

Kept == SumFunction([k \in Keys |-> (billed[k] - lost[k]) * Price[k]])

\* As long as every worker comes to an end of its own and can report it, the
\* segments of a job at rest add up to what its artifacts have cost, whatever was
\* paused, failed, cancelled and resumed.
LedgerAddsUp ==
    request /\ ~cutShort /\ restarts = 0 /\ (\A p \in Pids : ~Live(p))
        => Sum(state.segments) = Kept

\* A run that extends another pays for nothing its parent has rendered, however
\* often it is stopped and resumed: it reads the answers where the parent left them, or
\* from a copy where the user had it keep its own in an empty directory.  Unless the
\* job of the parent is deleted, a worker died while it copied, or the sidecar forgot
\* one that then copies beside another.
Inherits ==
    /\ layout.place # "none" /\ ~gone
    /\ layout.cache = {} \/ layout.parent \subseteq layout.cache

ParentReused ==
    request /\ ~cutCopy /\ restarts = 0 /\ Inherits
        => \A k \in layout.parent : billed[k] = 0

\* Over all starts of a job its calls are paid for once: by one worker at a time,
\* and not where the snapshot has the answer or the parent's had it.
SpendsOnce == PaysOnlyForLostCalls /\ ParentReused /\ OneRenderer

\* state.json, read at any moment, tells no more than is on disk and, at rest, all
\* that was spent.
LedgerSound == LedgerWithinSnapshot /\ LedgerAddsUp

\* The job as its user knows it.  Cancelled, done and deleted are final, and a job
\* is done only when everything is rendered: as long as the sidecar that started its
\* workers lives to watch them and the snapshot is not taken from under it.
Ledger == INSTANCE JobLedger
              WITH Artifacts <- Keys, status <- View, rendered <- cache,
                   covered <- restarts = 0 /\ SnapshotKept

KeepsPromise == Ledger!Spec

\* A worker that does not get on although a cancel waits for it is sent SIGTERM,
\* if the sidecar lives.
CancelSignals ==
    \A p \in Pids :
        cancel.pc = "wait" /\ sup.pid = p /\ At(p, "call")
            ~> ~At(p, "call") \/ worker[p].signalled \/ sup.pid # p
=============================================================================
