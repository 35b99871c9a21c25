------------------------------ MODULE RenderPool ------------------------------
(***************************************************************************)
(* Layer C under bounded concurrency: one call of LLMClient.generate_many  *)
(* over the scenarios of a run.  The tasks (corpus._render_scenario) are   *)
(* run by at most MaxWorkers threads.  They share the response cache and   *)
(* the cost tracker of the client (core/llm/client.py), the pause control  *)
(* (jobs/control.py), the counter of rendered artifacts (corpus.py) and    *)
(* the progress sink that keeps state.json (jobs/worker.py).               *)
(*                                                                         *)
(* What an artifact says is left out; a request is known by its cache key, *)
(* and its price is the one its answer turns out to have.                  *)
(***************************************************************************)
EXTENDS Integers, Sequences, SequencesExt

CONSTANTS
    Keys,         \* the cache keys of the requests
    Price,        \* what the answer to a request costs
    Work,         \* per task its deliverable events, each the requests of its producers
    MaxWorkers,   \* max_concurrency
    Ceiling,      \* cost_ceiling_usd, or None
    MaxRetries,   \* max_retries
    Caches,       \* what earlier segments may have left in the cache
    None

Tasks == DOMAIN Work

ASSUME RenderAssumption ==
    /\ IsFiniteSet(Keys) /\ Price \in [Keys -> Nat]
    /\ Work \in Seq(Seq(Seq(Keys) \ {<<>>}))
    /\ MaxWorkers \in Nat \ {0}
    /\ None \notin Nat /\ Ceiling \in Nat \cup {None}
    /\ MaxRetries \in Nat
    /\ \A c \in Caches : c \subseteq Keys

VARIABLES
    task,       \* what each task is doing
    cache,      \* the keys with an entry in the response cache
    cost,       \* CostTracker.total_cost_usd
    billed,     \* history: how often the provider has answered each request
    file,       \* whether control.json asks for a pause
    signalled,  \* the flag that SIGTERM sets
    seen, cachedPause,   \* whether RunControl has taken in the mtime of control.json; its answer
    counter,    \* _ProgressCounter
    ledger,     \* artifacts_done and cost_usd_segment of state.json
    stream,     \* the counts of the artifact events forwarded so far
    reported,   \* history: the requests behind the artifacts counted
    next,       \* the task whose result the caller waits for
    outcome     \* how the call ends: "open", "returned" or what it raises

vars == <<task, cache, cost, billed, file, signalled, seen, cachedPause, counter, ledger,
          stream, reported, next, outcome>>

control == <<file, signalled, seen, cachedPause>>

Failures == {"paused", "ceiling", "error"}

Ended(t) == task[t].pc \in {"done", "raised", "cancelled"}

Running == {t \in Tasks : task[t].pc # "pending" /\ ~Ended(t)}

Init ==
    /\ task = [t \in Tasks |-> [pc |-> "pending", event |-> 1, producer |-> 1, attempt |-> 0,
                                exc |-> None, done |-> 0, cost |-> 0]]
    /\ cache \in Caches
    /\ cost = 0 /\ billed = [k \in Keys |-> 0]
    /\ file = FALSE /\ signalled = FALSE /\ seen = FALSE /\ cachedPause = FALSE
    /\ counter = 0
    /\ ledger = [done |-> 0, cost |-> 0]
    /\ stream = <<>> /\ reported = {}
    /\ next = 1 /\ outcome = "open"

-----------------------------------------------------------------------------
(* The thread pool: tasks are taken in order, by whoever is free.          *)

StartTask(t) ==
    /\ task[t].pc = "pending"
    /\ \A u \in 1..(t-1) : task[u].pc # "pending"
    /\ Cardinality(Running) < MaxWorkers
    /\ task' = [task EXCEPT ![t].pc = "check"]
    /\ UNCHANGED <<cache, cost, billed, control, counter, ledger, stream, reported, next, outcome>>

\* The results are collected in the order of the tasks ...
Collect ==
    /\ outcome = "open" /\ next \in Tasks /\ task[next].pc = "done"
    /\ next' = next + 1
    /\ UNCHANGED <<task, cache, cost, billed, control, counter, ledger, stream, reported, outcome>>

\* ... and the first exception met in that order is the one that is raised;
\* what has not been started is cancelled.
Propagate ==
    /\ outcome = "open" /\ next \in Tasks /\ task[next].pc = "raised"
    /\ task' = [t \in Tasks |-> IF task[t].pc = "pending"
                                THEN [task[t] EXCEPT !.pc = "cancelled"] ELSE task[t]]
    /\ outcome' = "unwinding"
    /\ UNCHANGED <<cache, cost, billed, control, counter, ledger, stream, reported, next>>

\* Leaving the pool waits for every running task.  (Two mutations do not wait, or
\* wait for results that a failed task never has.)
CloseWhenDone ==
    /\ \A t \in Tasks : task[t].pc = "done"
    /\ outcome \in {"open", "unwinding"} /\ next \notin Tasks /\ outcome' = "returned"
    /\ UNCHANGED <<task, cache, cost, billed, control, counter, ledger, stream, reported, next>>
CloseAtOnce ==
    /\ \/ outcome = "open" /\ next \notin Tasks /\ outcome' = "returned"
       \/ outcome = "unwinding" /\ outcome' = task[next].exc
    /\ UNCHANGED <<task, cache, cost, billed, control, counter, ledger, stream, reported, next>>

Close ==
    /\ Running = {}
    /\ \/ outcome = "open" /\ next \notin Tasks /\ outcome' = "returned"
       \/ outcome = "unwinding" /\ outcome' = task[next].exc
    /\ UNCHANGED <<task, cache, cost, billed, control, counter, ledger, stream, reported, next>>

-----------------------------------------------------------------------------
(* Pausing.                                                                *)

\* The user asks: control.json appears, or SIGTERM arrives.
RequestPause ==
    /\ outcome = "open" /\ ~file
    /\ file' = TRUE
    /\ UNCHANGED <<task, cache, cost, billed, signalled, seen, cachedPause, counter, ledger,
                   stream, reported, next, outcome>>

Signal ==
    /\ outcome = "open" /\ ~signalled
    /\ signalled' = TRUE
    /\ UNCHANGED <<task, cache, cost, billed, file, seen, cachedPause, counter, ledger,
                   stream, reported, next, outcome>>

Raise(t, exc) == task' = [task EXCEPT ![t].pc = "raised", ![t].exc = exc]

Answer(t, pause) ==
    IF pause THEN Raise(t, "paused") ELSE task' = [task EXCEPT ![t].pc = "lookup"]

\* should_pause, before each deliverable event: the flag, else the mtime of the
\* file.  A new mtime is noted before the file is read.
Check(t) ==
    /\ task[t].pc = "check" /\ task[t].event <= Len(Work[t])
    /\ \/ signalled /\ Answer(t, TRUE) /\ UNCHANGED seen
       \/ ~signalled /\ ~file /\ Answer(t, FALSE) /\ UNCHANGED seen
       \/ ~signalled /\ file /\ seen /\ Answer(t, cachedPause) /\ UNCHANGED seen
       \/ ~signalled /\ file /\ ~seen /\ seen' = TRUE /\ task' = [task EXCEPT ![t].pc = "read"]
    /\ UNCHANGED <<cache, cost, billed, file, signalled, cachedPause, counter, ledger, stream,
                   reported, next, outcome>>

ReadControl(t) ==
    /\ task[t].pc = "read"
    /\ cachedPause' = TRUE
    /\ Answer(t, TRUE)
    /\ UNCHANGED <<cache, cost, billed, file, signalled, seen, counter, ledger, stream, reported,
                   next, outcome>>

\* No event is left: the task returns its artifacts.
\* (A mutation returns before the last event.)
FinishTaskEarly(t) ==
    /\ task[t].pc = "check" /\ task[t].event >= Len(Work[t])
    /\ task' = [task EXCEPT ![t].pc = "done"]
    /\ UNCHANGED <<cache, cost, billed, control, counter, ledger, stream, reported, next, outcome>>

FinishTask(t) ==
    /\ task[t].pc = "check" /\ task[t].event > Len(Work[t])
    /\ task' = [task EXCEPT ![t].pc = "done"]
    /\ UNCHANGED <<cache, cost, billed, control, counter, ledger, stream, reported, next, outcome>>

-----------------------------------------------------------------------------
(* LLMClient._call, for each producer of the event.                        *)

Requests(t) == Work[t][task[t].event]

Key(t) == Requests(t)[task[t].producer]

\* On to the next producer or, after the last, to the reports.
NextProducer(t) ==
    IF task[t].producer < Len(Requests(t))
    THEN [task[t] EXCEPT !.pc = "lookup", !.producer = @ + 1]
    ELSE [task[t] EXCEPT !.pc = "count", !.producer = 1]

\* (A mutation looks up the first request of an event only.)
LookupFirst(t) ==
    /\ task[t].pc = "lookup"
    /\ task' = [task EXCEPT ![t] = IF Key(t) \in cache /\ @.producer = 1 THEN NextProducer(t)
                                   ELSE [@ EXCEPT !.pc = "call", !.attempt = 0]]
    /\ UNCHANGED <<cache, cost, billed, control, counter, ledger, stream, reported, next, outcome>>

Lookup(t) ==
    /\ task[t].pc = "lookup"
    /\ task' = [task EXCEPT ![t] = IF Key(t) \in cache THEN NextProducer(t)
                                   ELSE [@ EXCEPT !.pc = "call", !.attempt = 0]]
    /\ UNCHANGED <<cache, cost, billed, control, counter, ledger, stream, reported, next, outcome>>

\* The provider answers ...
Call(t) ==
    /\ task[t].pc = "call"
    /\ billed' = [billed EXCEPT ![Key(t)] = @ + 1]
    /\ task' = [task EXCEPT ![t].pc = "ceiling"]
    /\ UNCHANGED <<cache, cost, control, counter, ledger, stream, reported, next, outcome>>

\* ... or fails: a transient failure is retried so many times.
CallFails(t) ==
    /\ task[t].pc = "call"
    /\ \/ task[t].attempt < MaxRetries /\ task' = [task EXCEPT ![t].attempt = @ + 1]
       \/ Raise(t, "error")
    /\ UNCHANGED <<cache, cost, billed, control, counter, ledger, stream, reported, next, outcome>>

\* The total as it would be is held against the ceiling, under the lock of the
\* tracker; recording it is another turn of that lock.  (A mutation takes the
\* total as it is.)
CheckCeilingReached(t) ==
    /\ task[t].pc = "ceiling"
    /\ IF Ceiling # None /\ cost > Ceiling
       THEN Raise(t, "ceiling") ELSE task' = [task EXCEPT ![t].pc = "record"]
    /\ UNCHANGED <<cache, cost, billed, control, counter, ledger, stream, reported, next, outcome>>

CheckCeiling(t) ==
    /\ task[t].pc = "ceiling"
    /\ IF Ceiling # None /\ cost + Price[Key(t)] > Ceiling
       THEN Raise(t, "ceiling") ELSE task' = [task EXCEPT ![t].pc = "record"]
    /\ UNCHANGED <<cache, cost, billed, control, counter, ledger, stream, reported, next, outcome>>

Record(t) ==
    /\ task[t].pc = "record"
    /\ cost' = cost + Price[Key(t)]
    /\ task' = [task EXCEPT ![t].pc = "put"]
    /\ UNCHANGED <<cache, billed, control, counter, ledger, stream, reported, next, outcome>>

\* (A mutation stores nothing.)
PutNothing(t) ==
    /\ task[t].pc = "put"
    /\ task' = [task EXCEPT ![t] = NextProducer(t)]
    /\ UNCHANGED <<cache, cost, billed, control, counter, ledger, stream, reported, next, outcome>>

Put(t) ==
    /\ task[t].pc = "put"
    /\ cache' = cache \cup {Key(t)}
    /\ task' = [task EXCEPT ![t] = NextProducer(t)]
    /\ UNCHANGED <<cost, billed, control, counter, ledger, stream, reported, next, outcome>>

-----------------------------------------------------------------------------
(* Reporting the artifacts of the event, one by one.                       *)

Count(t) ==
    /\ task[t].pc = "count"
    /\ counter' = counter + 1
    /\ reported' = reported \cup {Key(t)}
    /\ task' = [task EXCEPT ![t].pc = "apply", ![t].done = counter + 1, ![t].cost = cost]
    /\ UNCHANGED <<cache, cost, billed, control, ledger, stream, next, outcome>>

\* Under the lock of the sink the event is applied to the state and the state
\* written to disk; the lock is released before the event is forwarded.
ApplyReport(t) ==
    /\ task[t].pc = "apply"
    /\ ledger' = [done |-> task[t].done, cost |-> task[t].cost]
    /\ task' = [task EXCEPT ![t].pc = "forward"]
    /\ UNCHANGED <<cache, cost, billed, control, counter, stream, reported, next, outcome>>

\* On to the next artifact of the event or, after the last, to the next event.
NextReport(t) ==
    IF task[t].producer < Len(Requests(t))
    THEN [task[t] EXCEPT !.pc = "count", !.producer = @ + 1]
    ELSE [task[t] EXCEPT !.pc = "check", !.producer = 1, !.event = @ + 1]

\* (A mutation reads the counter again.)
ForwardCounter(t) ==
    /\ task[t].pc = "forward"
    /\ stream' = Append(stream, counter)
    /\ task' = [task EXCEPT ![t] = NextReport(t)]
    /\ UNCHANGED <<cache, cost, billed, control, counter, ledger, reported, next, outcome>>

Forward(t) ==
    /\ task[t].pc = "forward"
    /\ stream' = Append(stream, task[t].done)
    /\ task' = [task EXCEPT ![t] = NextReport(t)]
    /\ UNCHANGED <<cache, cost, billed, control, counter, ledger, reported, next, outcome>>

-----------------------------------------------------------------------------
\* What a thread does for its task.
Step(t) ==
    \/ StartTask(t) \/ Check(t) \/ ReadControl(t) \/ FinishTask(t)
    \/ Lookup(t) \/ Call(t) \/ CallFails(t) \/ CheckCeiling(t) \/ Record(t) \/ Put(t)
    \/ Count(t) \/ ApplyReport(t) \/ Forward(t)

Caller == Collect \/ Propagate \/ Close

Next ==
    \/ \E t \in Tasks : Step(t)
    \/ Caller \/ RequestPause \/ Signal

\* Every thread gets on, and so does the caller; nobody need pause a run.
Spec == Init /\ [][Next]_vars /\ (\A t \in Tasks : WF_vars(Step(t))) /\ WF_vars(Caller)

-----------------------------------------------------------------------------
(***************************************************************************)
(* Properties.                                                             *)
(***************************************************************************)

TypeOK ==
    /\ \A t \in Tasks : /\ task[t].event \in 1..(Len(Work[t]) + 1)
                        /\ task[t].attempt \in 0..MaxRetries
                        /\ task[t].done \in 0..counter
    /\ cache \subseteq Keys
    /\ cost \in Nat /\ counter \in Nat
    /\ next \in 1..(Len(Work) + 1)
    /\ outcome \in {"open", "unwinding", "returned"} \cup Failures

\* The artifacts the run is to produce, by their task, event and producer.
Slots == UNION {UNION {{<<t, e, p>> : p \in DOMAIN Work[t][e]} : e \in DOMAIN Work[t]} :
                    t \in Tasks}

Total == Cardinality(Slots)

Requested(t) == UNION {Range(Work[t][e]) : e \in DOMAIN Work[t]}

\* Every artifact is reported under a count of its own, whatever the threads do
\* between counting and reporting, and the counts are those of a single counter.
ReportsOnce ==
    /\ \A i, j \in DOMAIN stream : stream[i] = stream[j] => i = j
    /\ Range(stream) \subseteq 1..counter /\ counter <= Total

\* However the ceiling check and the recording of the other threads fall, the
\* recorded spend passes the ceiling by less than one call of each other thread.
OvershootBounded ==
    Ceiling # None =>
        cost <= Ceiling + (MaxWorkers - 1) * Max(Range(Price) \cup {0})

\* A request whose answer is in the cache, from this segment or an earlier one, is
\* not paid for again, unless two scenarios make it at the same time.
NothingPaidAgain ==
    [][\A k \in cache : Cardinality({t \in Tasks : k \in Requested(t)}) = 1
                             => billed'[k] = billed[k]]_vars

\* The cache is the snapshot of the progress: whatever has been counted as
\* rendered is in it, at every moment at which the process may be killed.
SnapshotCoversReports == reported \subseteq cache

\* The accounts the threads share hold at every moment, whichever of them stands
\* between a check and its record: counts, recorded spend and snapshot.
AccountsSound == ReportsOnce /\ OvershootBounded /\ SnapshotCoversReports

\* When the call has ended no thread is at work, and everything counted has been
\* forwarded: the worker writes its last state after all others.
QuietEnd ==
    outcome \notin {"open", "unwinding"} =>
        /\ \A t \in Tasks : Ended(t)
        /\ Len(stream) = counter

\* A call that returns has rendered every artifact; one that raises has a task
\* that met that very end.
OutcomeExplained ==
    /\ outcome = "returned" => /\ counter = Total
                               /\ \A t \in Tasks : Requested(t) \subseteq cache
    /\ outcome \in Failures => \E t \in Tasks : task[t].exc = outcome
    /\ outcome = "paused" => file \/ signalled

\* generate_many ends with every thread at rest and for a reason.
EndSound == QuietEnd /\ OutcomeExplained

\* The call ends, whatever fails or is paused.
Ends == <>(outcome \notin {"open", "unwinding"})

-----------------------------------------------------------------------------
(* What is said of this code and does not hold.                            *)

\* A consumer of the stream never finds state.json behind an event it has seen.
\* Two threads may count in one order and apply in the other.
LedgerNotBehindStream == \A i \in DOMAIN stream : stream[i] <= ledger.done

\* A call that would breach the ceiling raises before it runs.  The check comes
\* after the answer: what was billed for it is neither recorded nor cached.
RaisesBeforeItRuns ==
    Ceiling # None => MapThenSumSet(LAMBDA k : billed[k] * Price[k], Keys) <= Ceiling

\* should_pause tells whether a pause was requested.  Between noting the mtime and
\* reading the file, another thread is answered from the stale cached value.
PauseSeen ==
    [][\A t \in Tasks : task[t].pc = "check" /\ file => task'[t].pc # "lookup"]_vars
=============================================================================
