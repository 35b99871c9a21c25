--------------------------- MODULE RenderPoolProofs ---------------------------
(***************************************************************************)
(* What a render promises of its counts, its spend, its snapshot and its   *)
(* end, for any scenarios, any number of threads, any prices and ceiling.  *)
(* Each property has an invariant of its own, kept by every step.          *)
(***************************************************************************)
EXTENDS RenderPool, FiniteSetTheorems, TLAPS

-----------------------------------------------------------------------------
(* The invariants.                                                         *)

Producing == {"lookup", "call", "ceiling", "record", "put"}
Forwards == {"apply", "forward"}
Reporting == {"count"} \cup Forwards
Pcs == Producing \cup Reporting
           \cup {"pending", "check", "read", "done", "raised", "cancelled"}

Records == [pc : Pcs, event : Nat, producer : Nat, attempt : Nat,
            exc : Failures \cup {None}, done : Nat, cost : Nat]

StateType ==
    /\ task \in [Tasks -> Records]
    /\ cache \in SUBSET Keys /\ cost \in Nat /\ billed \in [Keys -> Nat]
    /\ counter \in Nat /\ stream \in Seq(Nat) /\ reported \in SUBSET Keys
    /\ next \in 1..(Len(Work) + 1)

\* Where a task stands among its events and their producers.
Placed(t, w) ==
    /\ w.event \in 1..(Len(Work[t]) + 1)
    /\ w.attempt <= MaxRetries
    /\ w.pc \in Producing \cup Reporting \cup {"read"} => w.event <= Len(Work[t])
    /\ w.pc \in Producing \cup Reporting => w.producer \in 1..Len(Work[t][w.event])
    /\ w.pc \in {"pending", "check", "read"} => w.producer = 1
    /\ w.pc = "done" => w.event = Len(Work[t]) + 1
    /\ w.pc = "raised" => w.exc \in Failures

PlaceInv == StateType /\ \A t \in Tasks : Placed(t, task[t])

\* A slot that has been rendered is in the snapshot ...
RequestOf(s) == Work[s[1]][s[2]][s[3]]

Rendered(s) ==
    \/ s[2] < task[s[1]].event
    \/ /\ s[2] = task[s[1]].event
       /\ \/ task[s[1]].pc \in Reporting
          \/ task[s[1]].pc \in Producing /\ s[3] < task[s[1]].producer

CacheInv == /\ \A s \in Slots : Rendered(s) => RequestOf(s) \in cache
            /\ reported \subseteq cache

\* ... and each one counted has a number.
Counted(s) ==
    \/ s[2] < task[s[1]].event
    \/ /\ s[2] = task[s[1]].event
       /\ \/ task[s[1]].pc \in Reporting /\ s[3] < task[s[1]].producer
          \/ task[s[1]].pc \in Forwards /\ s[3] = task[s[1]].producer

CountInv == counter = Cardinality({s \in Slots : Counted(s)})

\* The numbers not yet forwarded are those of the tasks on their way to do so.
Forwarding == {t \in Tasks : task[t].pc \in Forwards}

StreamInv ==
    /\ Len(stream) + Cardinality(Forwarding) = counter
    /\ \A t \in Tasks : task[t].done <= counter
    /\ \A t \in Forwarding : /\ task[t].done >= 1
                             /\ \A i \in DOMAIN stream : stream[i] # task[t].done
                             /\ \A u \in Forwarding : task[u].done = task[t].done => u = t
    /\ \A i \in DOMAIN stream : stream[i] \in 1..counter
    /\ \A i, j \in DOMAIN stream : stream[i] = stream[j] => i = j

\* Of the tasks about to record, one has passed the ceiling check with what is
\* recorded; each of the others adds at most one call to it.
Recording == {t \in Tasks : task[t].pc = "record"}

MaxPrice == Max(Range(Price) \cup {0})

SpendInv ==
    Ceiling # None =>
        /\ cost <= Ceiling + (MaxWorkers - 1) * MaxPrice
        /\ Recording # {} =>
               \E t \in Recording :
                   cost + Price[Key(t)] + (Cardinality(Recording) - 1) * MaxPrice
                       <= Ceiling + (MaxWorkers - 1) * MaxPrice

PoolInv == Cardinality(Running) <= MaxWorkers

\* A request on its way to the provider is not in the cache, or somebody else
\* makes it too.
PaidInv ==
    \A t \in Tasks : task[t].pc = "call" /\ Key(t) \in cache =>
        \E u \in Tasks \ {t} : Key(t) \in Requested(u)

\* How far the caller is.
EndInv ==
    /\ \A t \in Tasks : t < next => task[t].pc = "done"
    /\ outcome # "open" => \A t \in Tasks : task[t].pc # "pending"
    /\ outcome \notin {"open", "unwinding"} => \A t \in Tasks : Ended(t)
    /\ outcome = "returned" => next \notin Tasks
    /\ outcome \in {"unwinding"} \cup Failures => next \in Tasks /\ task[next].pc = "raised"
    /\ outcome \in Failures => task[next].exc = outcome
    /\ outcome \in {"open", "unwinding", "returned"} \cup Failures
    /\ file \in BOOLEAN /\ signalled \in BOOLEAN
    /\ \A t \in Tasks : task[t].pc = "read" => file
    /\ \A t \in Tasks : task[t].pc = "raised" /\ task[t].exc = "paused" => file \/ signalled

-----------------------------------------------------------------------------
(* The requests of a run.                                                  *)

LEMMA WorkFacts ==
    /\ Len(Work) \in Nat /\ Tasks = 1..Len(Work)
    /\ \A t \in Tasks :
           /\ Len(Work[t]) \in Nat /\ DOMAIN Work[t] = 1..Len(Work[t])
           /\ \A e \in 1..Len(Work[t]) :
                  /\ Len(Work[t][e]) \in Nat /\ Len(Work[t][e]) >= 1
                  /\ DOMAIN Work[t][e] = 1..Len(Work[t][e])
                  /\ \A p \in 1..Len(Work[t][e]) : Work[t][e][p] \in Keys
<1>1. Work \in Seq(Seq(Seq(Keys) \ {<<>>}))
    BY RenderAssumption
<1>2. Len(Work) \in Nat /\ Tasks = 1..Len(Work)
    BY <1>1 DEF Tasks
<1>3. ASSUME NEW t \in Tasks
      PROVE  /\ Work[t] \in Seq(Seq(Keys) \ {<<>>})
             /\ Len(Work[t]) \in Nat /\ DOMAIN Work[t] = 1..Len(Work[t])
    BY <1>1, <1>2, <1>3
<1>4. ASSUME NEW t \in Tasks, NEW e \in 1..Len(Work[t])
      PROVE  /\ Work[t][e] \in Seq(Keys) /\ Work[t][e] # <<>>
             /\ Len(Work[t][e]) \in Nat /\ DOMAIN Work[t][e] = 1..Len(Work[t][e])
    BY <1>3
<1>5. ASSUME NEW t \in Tasks, NEW e \in 1..Len(Work[t])
      PROVE  /\ Len(Work[t][e]) >= 1
             /\ \A p \in 1..Len(Work[t][e]) : Work[t][e][p] \in Keys
    BY <1>4
<1>6. QED BY <1>2, <1>3, <1>4, <1>5

LEMMA RequestFacts ==
    ASSUME PlaceInv, NEW t \in Tasks, task[t].pc \in Producing \cup Reporting
    PROVE  /\ task[t].event \in 1..Len(Work[t]) /\ task[t].event \in DOMAIN Work[t]
           /\ Requests(t) = Work[t][task[t].event]
           /\ Len(Requests(t)) \in Nat
           /\ DOMAIN Requests(t) = 1..Len(Requests(t))
           /\ task[t].producer \in 1..Len(Requests(t))
           /\ Key(t) = Requests(t)[task[t].producer] /\ Key(t) \in Keys
<1>1. Placed(t, task[t]) /\ task[t].event \in Nat
    BY DEF PlaceInv, StateType, Records
<1>2. task[t].event \in 1..Len(Work[t])
    BY <1>1, WorkFacts DEF Placed
<1>3. QED BY <1>1, <1>2, WorkFacts DEF Placed, Requests, Key

-----------------------------------------------------------------------------
(* Types and places.                                                       *)

LEMMA PlaceInit == Init => PlaceInv
<1> SUFFICES ASSUME Init PROVE PlaceInv
    OBVIOUS
<1>1. cache \in SUBSET Keys
    BY RenderAssumption DEF Init
<1>2. MaxRetries \in Nat
    BY RenderAssumption
<1>3. StateType
    BY <1>1, WorkFacts DEF Init, StateType, Records, Pcs
<1>4. \A t \in Tasks : Placed(t, task[t])
    BY <1>2, WorkFacts DEF Init, Placed, Producing, Reporting, Forwards
<1>5. QED BY <1>3, <1>4 DEF PlaceInv

\* A task moves to a new record, the others stay.
Moves(t, w) == task' = [task EXCEPT ![t] = w]

LEMMA Moved ==
    ASSUME PlaceInv, NEW t \in Tasks, NEW w \in Records, Placed(t, w), Moves(t, w)
    PROVE  /\ task' \in [Tasks -> Records] /\ task'[t] = w
           /\ \A u \in Tasks \ {t} : task'[u] = task[u]
           /\ \A u \in Tasks : Placed(u, task'[u])
<1>1. /\ task' \in [Tasks -> Records] /\ task'[t] = w
      /\ \A u \in Tasks \ {t} : task'[u] = task[u]
    BY DEF PlaceInv, StateType, Moves
<1>2. QED BY <1>1 DEF PlaceInv

\* The places a thread moves its task to.
LEMMA StepMoves ==
    ASSUME PlaceInv, NEW t \in Tasks, Step(t)
    PROVE  \E w \in Records : Moves(t, w) /\ Placed(t, w)
<1> DEFINE At(pc) == [task[t] EXCEPT !.pc = pc]
           Raised(exc) == [task[t] EXCEPT !.pc = "raised", !.exc = exc]
           Fine(w) == w \in Records /\ Placed(t, w)
<1>1. Fine(task[t]) /\ MaxRetries \in Nat
    BY RenderAssumption DEF PlaceInv, StateType
<1>2. Len(Work[t]) \in Nat /\ task[t].event \in Nat /\ task[t].producer \in Nat
    BY <1>1, WorkFacts DEF Records
<1>3. task[t].event <= Len(Work[t]) =>
          Len(Work[t][task[t].event]) \in Nat /\ Len(Work[t][task[t].event]) >= 1
    <2>1. task[t].event <= Len(Work[t]) => task[t].event \in 1..Len(Work[t])
        BY <1>1, <1>2 DEF Placed
    <2>2. QED BY <2>1, WorkFacts
<1>4. Fine(Raised("paused")) /\ Fine(Raised("ceiling")) /\ Fine(Raised("error"))
    BY ZenonT(60), <1>1, <1>2 DEF Placed, Records, Pcs, Producing, Reporting, Forwards, Failures
<1>5. task[t].pc \in Producing => Fine(NextProducer(t))
    <2>1. task[t].pc \in Producing => task[t].producer \in 1..Len(Work[t][task[t].event])
        BY <1>1 DEF Placed
    <2> DEFINE onward(n) == [task[t] EXCEPT !.pc = "lookup", !.producer = n]
               report == [task[t] EXCEPT !.pc = "count", !.producer = 1]
    <2>2. ASSUME NEW n \in 1..Len(Work[t][task[t].event]), task[t].pc \in Producing
          PROVE  Fine(onward(n))
        <3>1. task[t].event <= Len(Work[t])
            BY <1>1, <2>2 DEF Placed
        <3>2. n \in Nat /\ task[t].pc \in Pcs
            BY <1>1, <1>3, <3>1 DEF Records
        <3>3. onward(n) \in Records
            BY <1>1, <3>2 DEF Records, Pcs, Producing, Reporting, Forwards
        <3>4. Placed(t, onward(n))
            BY <1>1, <2>2, <3>1, <3>2 DEF Records, Placed, Producing, Reporting, Forwards
        <3>5. QED BY <3>3, <3>4
    <2>3. task[t].pc \in Producing => Fine(report)
        <3>1. report \in Records
            BY <1>1, <1>2 DEF Records, Pcs, Producing, Reporting, Forwards
        <3>2. task[t].pc \in Producing => Placed(t, report)
            BY <1>1, <1>2, <1>3 DEF Records, Placed, Producing, Reporting, Forwards
        <3>3. QED BY <3>1, <3>2
    <2>4. NextProducer(t) = IF task[t].producer < Len(Requests(t))
                            THEN onward(task[t].producer + 1) ELSE report
        BY DEF NextProducer
    <2>5. task[t].pc \in Producing /\ task[t].producer < Len(Requests(t)) =>
              task[t].producer + 1 \in 1..Len(Work[t][task[t].event])
        <3>1. task[t].pc \in Producing => task[t].event <= Len(Work[t])
            BY <1>1 DEF Placed
        <3>2. QED BY SMTT(30), <1>2, <1>3, <3>1 DEF Requests
    <2> HIDE DEF Fine, onward, report
    <2>6. QED BY <2>2, <2>3, <2>4, <2>5
<1> SUFFICES \E w : Moves(t, w) /\ Fine(w)
    OBVIOUS
<1>6. CASE StartTask(t)
    <2>1. Moves(t, At("check")) /\ Fine(At("check"))
        BY <1>1, <1>2, <1>6 DEF StartTask, Moves,
               Placed, Records, Pcs, Producing, Reporting, Forwards, Failures
    <2>2. QED BY <2>1
<1>7. CASE Check(t)
    <2>1. Fine(At("lookup")) /\ Fine(At("read"))
        BY SMTT(30), <1>1, <1>2, <1>3, <1>7 DEF Check,
               Placed, Records, Pcs, Producing, Reporting, Forwards, Failures
    <2>2. Moves(t, At("lookup")) \/ Moves(t, At("read")) \/ Moves(t, Raised("paused"))
        BY <1>7 DEF Check, Answer, Raise, Moves
    <2> HIDE DEF Fine, At, Raised
    <2>3. QED BY <1>4, <2>1, <2>2
<1>8. CASE ReadControl(t)
    <2>1. Moves(t, Raised("paused"))
        BY <1>8 DEF ReadControl, Answer, Raise, Moves
    <2>2. QED BY <1>4, <2>1
<1>9. CASE FinishTask(t)
    <2>1. Moves(t, At("done")) /\ Fine(At("done"))
        BY SMTT(30), <1>1, <1>2, <1>9 DEF FinishTask, Moves,
               Placed, Records, Pcs, Producing, Reporting, Forwards, Failures
    <2>2. QED BY <2>1
<1>10. CASE Lookup(t)
    <2> DEFINE w == [task[t] EXCEPT !.pc = "call", !.attempt = 0]
    <2>0. w \in Records
        BY <1>1 DEF Records, Pcs, Producing, Reporting, Forwards
    <2>1. Fine(w) /\ task[t].pc \in Producing
        BY <1>1, <1>2, <1>10, <2>0 DEF Lookup, Records, Placed, Producing, Reporting, Forwards
    <2>2. Moves(t, w) \/ Moves(t, NextProducer(t))
        BY <1>10 DEF Lookup, Moves
    <2> HIDE DEF Fine, w
    <2>3. QED BY <1>5, <2>1, <2>2
<1>11. CASE Call(t)
    <2>1. Moves(t, At("ceiling")) /\ Fine(At("ceiling"))
        BY <1>1, <1>2, <1>11 DEF Call, Moves,
               Placed, Records, Pcs, Producing, Reporting, Forwards, Failures
    <2>2. QED BY <2>1
<1>12. CASE CallFails(t)
    <2> DEFINE w == [task[t] EXCEPT !.attempt = @ + 1]
    <2>1. task[t].attempt < MaxRetries => Fine(w)
        BY SMTT(30), <1>1, <1>2 DEF Placed, Records, Pcs, Producing, Reporting, Forwards, Failures
    <2>2. (task[t].attempt < MaxRetries /\ Moves(t, w)) \/ Moves(t, Raised("error"))
        BY <1>12 DEF CallFails, Raise, Moves
    <2> HIDE DEF Fine, w, Raised
    <2>3. QED BY <1>4, <2>1, <2>2
<1>13. CASE CheckCeiling(t)
    <2>1. Fine(At("record"))
        BY <1>1, <1>2, <1>13 DEF CheckCeiling,
               Placed, Records, Pcs, Producing, Reporting, Forwards, Failures
    <2>2. Moves(t, At("record")) \/ Moves(t, Raised("ceiling"))
        BY <1>13 DEF CheckCeiling, Raise, Moves
    <2> HIDE DEF Fine, At, Raised
    <2>3. QED BY <1>4, <2>1, <2>2
<1>14. CASE Record(t)
    <2>1. Moves(t, At("put")) /\ Fine(At("put"))
        BY <1>1, <1>2, <1>14 DEF Record, Moves,
               Placed, Records, Pcs, Producing, Reporting, Forwards, Failures
    <2>2. QED BY <2>1
<1>15. CASE Put(t)
    <2>1. Moves(t, NextProducer(t)) /\ task[t].pc \in Producing
        BY <1>15 DEF Put, Moves, Producing
    <2>2. QED BY <1>5, <2>1
<1>16. CASE Count(t)
    <2> DEFINE w == [task[t] EXCEPT !.pc = "apply", !.done = counter + 1, !.cost = cost]
    <2>1. counter + 1 \in Nat /\ cost \in Nat
        BY DEF PlaceInv, StateType
    <2>2. Moves(t, w)
        BY <1>16 DEF Count, Moves
    <2>3. w \in Records
        BY <1>1, <2>1 DEF Records, Pcs, Reporting, Forwards
    <2>4. Placed(t, w)
        BY <1>1, <1>2, <1>16 DEF Count,
               Placed, Records, Pcs, Producing, Reporting, Forwards, Failures
    <2>5. QED BY <2>2, <2>3, <2>4
<1>17. CASE ApplyReport(t)
    <2>1. Moves(t, At("forward")) /\ Fine(At("forward"))
        BY <1>1, <1>2, <1>17 DEF ApplyReport, Moves,
               Placed, Records, Pcs, Producing, Reporting, Forwards, Failures
    <2>2. QED BY <2>1
<1>18. CASE Forward(t)
    <2>1. task[t].producer \in 1..Len(Work[t][task[t].event])
        BY <1>1, <1>18 DEF Forward, Placed, Reporting, Forwards
    <2> DEFINE onward(n) == [task[t] EXCEPT !.pc = "count", !.producer = n]
               over(e) == [task[t] EXCEPT !.pc = "check", !.producer = 1, !.event = e]
    <2>2. ASSUME NEW n \in 1..Len(Work[t][task[t].event])
          PROVE  Fine(onward(n))
        <3>1. task[t].event <= Len(Work[t])
            BY <1>1, <1>18 DEF Forward, Placed, Reporting, Forwards
        <3>2. n \in Nat
            BY <1>3, <3>1
        <3>3. onward(n) \in Records
            BY <1>1, <3>2 DEF Records, Pcs, Producing, Reporting, Forwards
        <3>4. Placed(t, onward(n))
            BY <1>1, <2>2, <3>1, <3>2 DEF Records, Placed, Producing, Reporting, Forwards
        <3>5. QED BY <3>3, <3>4
    <2>3. ASSUME NEW e \in 1..(Len(Work[t]) + 1)
          PROVE  Fine(over(e))
        <3>0. e \in Nat
            BY <1>2
        <3>1. over(e) \in Records
            BY <1>1, <3>0 DEF Records, Pcs, Producing, Reporting, Forwards
        <3>2. Placed(t, over(e))
            BY <1>1, <1>2, <3>1 DEF Records, Placed, Producing, Reporting, Forwards
        <3>3. QED BY <3>1, <3>2
    <2>4. NextReport(t) = IF task[t].producer < Len(Requests(t))
                          THEN onward(task[t].producer + 1) ELSE over(task[t].event + 1)
        BY DEF NextReport
    <2>5. task[t].producer < Len(Requests(t)) =>
              task[t].producer + 1 \in 1..Len(Work[t][task[t].event])
        BY SMTT(30), <1>1, <1>2, <1>3, <1>18, <2>1
           DEF Forward, Requests, Placed, Producing, Reporting, Forwards
    <2>6. task[t].event + 1 \in 1..(Len(Work[t]) + 1)
        BY <1>1, <1>2, <1>18 DEF Forward, Placed, Producing, Reporting, Forwards
    <2>7. Moves(t, NextReport(t))
        BY <1>18 DEF Forward, Moves
    <2> HIDE DEF Fine, onward, over
    <2>8. QED BY <2>2, <2>3, <2>4, <2>5, <2>6, <2>7
<1>19. QED
    BY <1>6, <1>7, <1>8, <1>9, <1>10, <1>11, <1>12, <1>13, <1>14, <1>15, <1>16, <1>17, <1>18
       DEF Step

\* Each shared variable is changed by one action.
StepChange(t) ==
    /\ cache' = IF task[t].pc = "put" THEN cache \cup {Key(t)} ELSE cache
    /\ cost' = IF task[t].pc = "record" THEN cost + Price[Key(t)] ELSE cost
    /\ \/ billed' = billed
       \/ task[t].pc = "call" /\ billed' = [billed EXCEPT ![Key(t)] = @ + 1]
    /\ counter' = IF task[t].pc = "count" THEN counter + 1 ELSE counter
    /\ reported' = IF task[t].pc = "count" THEN reported \cup {Key(t)} ELSE reported
    /\ stream' = IF task[t].pc = "forward" THEN Append(stream, task[t].done) ELSE stream

LEMMA StepChanges ==
    ASSUME NEW t \in Tasks, Step(t)
    PROVE  StepChange(t)
    BY DEF StepChange, Step, StartTask, Check, ReadControl, FinishTask, Lookup, Call, CallFails,
           CheckCeiling, Record, Put, Count, ApplyReport, Forward

\* What a thread does leaves the other tasks alone, and the caller's variables.
LEMMA StepMoved ==
    ASSUME PlaceInv, NEW t \in Tasks, Step(t)
    PROVE  /\ task' \in [Tasks -> Records]
           /\ \A u \in Tasks \ {t} : task'[u] = task[u]
           /\ \A u \in Tasks : Placed(u, task'[u])
           /\ next' = next /\ outcome' = outcome
           /\ file' = file /\ signalled' = signalled
<1>1. PICK w \in Records : Moves(t, w) /\ Placed(t, w)
    BY StepMoves
<1>2. next' = next /\ outcome' = outcome
    BY DEF Step, StartTask, Check, ReadControl, FinishTask, Lookup, Call, CallFails,
           CheckCeiling, Record, Put, Count, ApplyReport, Forward
<1>3. file' = file /\ signalled' = signalled
    BY DEF Step, StartTask, Check, ReadControl, FinishTask, Lookup, Call, CallFails,
           CheckCeiling, Record, Put, Count, ApplyReport, Forward, control
<1>4. QED BY <1>1, <1>2, <1>3, Moved

\* What the caller and the user do.
LEMMA CallerMoved ==
    ASSUME PlaceInv, Caller \/ RequestPause \/ Signal \/ UNCHANGED vars
    PROVE  /\ task' \in [Tasks -> Records]
           /\ \A u \in Tasks : Placed(u, task'[u])
           /\ \A u \in Tasks : \/ task'[u] = task[u]
                               \/ /\ task[u].pc = "pending"
                                  /\ task'[u] = [task[u] EXCEPT !.pc = "cancelled"]
           /\ UNCHANGED <<cache, cost, billed, counter, ledger, stream, reported>>
<1>1. task \in [Tasks -> Records] /\ \A u \in Tasks : Placed(u, task[u])
    BY DEF PlaceInv, StateType
<1>2. UNCHANGED <<cache, cost, billed, counter, ledger, stream, reported>>
    BY DEF Caller, Collect, Propagate, Close, RequestPause, Signal, vars
<1>3. CASE Propagate
    <2>1. \A u \in Tasks :
              LET w == [task[u] EXCEPT !.pc = "cancelled"]
              IN  w \in Records /\ (task[u].pc = "pending" => Placed(u, w))
        BY <1>1 DEF Placed, Records, Pcs, Producing, Reporting, Forwards
    <2>2. QED BY <1>1, <1>2, <1>3, <2>1 DEF Propagate
<1>4. CASE UNCHANGED task
    BY <1>1, <1>2, <1>4
<1>5. QED BY <1>3, <1>4 DEF Caller, Collect, Close, RequestPause, Signal, vars

LEMMA PlaceStep == PlaceInv /\ [Next]_vars => PlaceInv'
<1> SUFFICES ASSUME PlaceInv, [Next]_vars PROVE PlaceInv'
    OBVIOUS
<1>1. /\ cache \in SUBSET Keys /\ cost \in Nat /\ billed \in [Keys -> Nat]
      /\ counter \in Nat /\ stream \in Seq(Nat) /\ reported \in SUBSET Keys
      /\ next \in 1..(Len(Work) + 1) /\ Price \in [Keys -> Nat]
      /\ task \in [Tasks -> Records]
    BY RenderAssumption DEF PlaceInv, StateType
<1>2. ASSUME NEW t \in Tasks, Step(t) PROVE PlaceInv'
    <2>1. task[t].done \in Nat
        BY <1>1 DEF Records
    <2>2. task[t].pc \in {"call", "record", "put", "count"} => Key(t) \in Keys
        BY RequestFacts DEF Producing, Reporting
    <2>3. StepChange(t)
        BY <1>2, StepChanges
    <2>4. cache' \in SUBSET Keys /\ reported' \in SUBSET Keys
        BY <1>1, <2>2, <2>3 DEF StepChange
    <2>5. task[t].pc = "record" => Price[Key(t)] \in Nat
        BY <1>1, <2>2
    <2>6. cost' \in Nat /\ counter' \in Nat
        BY <1>1, <2>3, <2>5 DEF StepChange
    <2>7. task[t].pc = "call" => billed[Key(t)] + 1 \in Nat
        BY <1>1, <2>2
    <2>8. billed' \in [Keys -> Nat]
        BY <1>1, <2>2, <2>3, <2>7 DEF StepChange
    <2>9. stream' \in Seq(Nat)
        <3>1. Append(stream, task[t].done) \in Seq(Nat)
            BY <1>1, <2>1
        <3>2. QED BY <1>1, <2>3, <3>1 DEF StepChange
    <2>10. next' \in 1..(Len(Work) + 1)
        BY <1>1, <1>2, StepMoved
    <2>11. StateType'
        BY <1>2, <2>4, <2>6, <2>8, <2>9, <2>10, StepMoved DEF StateType
    <2>12. QED
        BY <1>2, <2>11, StepMoved DEF PlaceInv
<1>3. CASE Caller \/ RequestPause \/ Signal \/ UNCHANGED vars
    <2>1. next' \in 1..(Len(Work) + 1)
        BY <1>1, <1>3, WorkFacts
           DEF Caller, Collect, Propagate, Close, RequestPause, Signal, vars
    <2>2. QED BY <1>1, <1>3, <2>1, CallerMoved DEF PlaceInv, StateType
<1>4. QED BY <1>2, <1>3 DEF Next

-----------------------------------------------------------------------------
(* How a thread takes its task through the slots.                          *)

\* Between two events; on a request; on to the next request, with an answer to
\* this one in the cache; counting; handing the count on; on to the next report.
Between(w, v) ==
    /\ w.pc \in {"pending", "check", "read"}
    /\ v.pc \in {"check", "read", "lookup", "raised", "done"}
    /\ v.event = w.event /\ v.producer = w.producer /\ v.done = w.done

OnRequest(w, v) ==
    /\ w.pc \in Producing /\ v.pc \in {"call", "ceiling", "record", "put", "raised"}
    /\ v.event = w.event /\ v.producer = w.producer /\ v.done = w.done

Answered(t, w, v) ==
    /\ w.pc \in {"lookup", "put"} /\ Key(t) \in cache'
    /\ v.event = w.event /\ v.done = w.done
    /\ IF w.producer < Len(Requests(t)) THEN v.pc = "lookup" /\ v.producer = w.producer + 1
                                        ELSE v.pc = "count" /\ v.producer = 1

Counting(w, v) ==
    /\ w.pc = "count" /\ v.pc = "apply" /\ v.event = w.event /\ v.producer = w.producer
    /\ v.done = counter + 1

Handing(w, v) ==
    /\ w.pc = "apply" /\ v.pc = "forward" /\ v.event = w.event /\ v.producer = w.producer
    /\ v.done = w.done

Reports(t, w, v) ==
    /\ w.pc = "forward" /\ v.done = w.done
    /\ IF w.producer < Len(Requests(t))
       THEN v.pc = "count" /\ v.event = w.event /\ v.producer = w.producer + 1
       ELSE v.pc = "check" /\ v.event = w.event + 1 /\ v.producer = 1

Goes(t, w, v) ==
    \/ Between(w, v) \/ OnRequest(w, v) \/ Answered(t, w, v)
    \/ Counting(w, v) \/ Handing(w, v) \/ Reports(t, w, v)

LEMMA StepGoes ==
    ASSUME PlaceInv, NEW t \in Tasks, Step(t)
    PROVE  Goes(t, task[t], task'[t])
<1>1. task \in [Tasks -> Records] /\ task[t] \in Records
    BY DEF PlaceInv, StateType
<1>2. ASSUME Key(t) \in cache', task[t].pc \in {"lookup", "put"},
             task'[t] = NextProducer(t)
      PROVE  Answered(t, task[t], task'[t])
    BY <1>1, <1>2 DEF Answered, NextProducer, Records
<1>3. CASE StartTask(t) \/ Check(t) \/ ReadControl(t) \/ FinishTask(t)
    BY <1>1, <1>3 DEF StartTask, Check, ReadControl, FinishTask, Answer, Raise, Goes, Between,
                      Records
<1>4. CASE Lookup(t)
    <2>1. CASE Key(t) \in cache
        BY <1>1, <1>2, <1>4, <2>1 DEF Lookup, Goes
    <2>2. CASE Key(t) \notin cache
        BY <1>1, <1>4, <2>2 DEF Lookup, Goes, OnRequest, Producing, Records
    <2>3. QED BY <2>1, <2>2
<1>5. CASE Put(t)
    BY <1>1, <1>2, <1>5 DEF Put, Goes
<1>6. CASE Call(t) \/ CallFails(t) \/ CheckCeiling(t) \/ Record(t)
    BY <1>1, <1>6 DEF Call, CallFails, CheckCeiling, Record, Raise, Goes, OnRequest, Producing,
                      Records
<1>7. CASE Count(t)
    BY <1>1, <1>7 DEF Count, Goes, Counting, Records
<1>8. CASE ApplyReport(t)
    BY <1>1, <1>8 DEF ApplyReport, Goes, Handing, Records
<1>9. CASE Forward(t)
    BY <1>1, <1>9 DEF Forward, NextReport, Goes, Reports, Records
<1>10. QED
    BY <1>3, <1>4, <1>5, <1>6, <1>7, <1>8, <1>9 DEF Step

LEMMA SlotFacts ==
    ASSUME NEW s \in Slots
    PROVE  /\ s = <<s[1], s[2], s[3]>> /\ s[1] \in Tasks
           /\ s[2] \in 1..Len(Work[s[1]]) /\ s[2] \in Nat
           /\ s[3] \in 1..Len(Work[s[1]][s[2]]) /\ s[3] \in Nat
<1>1. PICK t \in Tasks : \E e \in DOMAIN Work[t] : s \in {<<t, e, p>> : p \in DOMAIN Work[t][e]}
    BY DEF Slots
<1>2. PICK e \in DOMAIN Work[t] : s \in {<<t, e, p>> : p \in DOMAIN Work[t][e]}
    BY <1>1
<1>3. PICK p \in DOMAIN Work[t][e] : s = <<t, e, p>>
    BY <1>2
<1>4. s[1] = t /\ s[2] = e /\ s[3] = p
    BY <1>3
<1>5. e \in 1..Len(Work[t]) /\ e \in Nat
    <2>1. DOMAIN Work[t] = 1..Len(Work[t])
        BY WorkFacts
    <2>2. QED BY <2>1
<1>6. p \in 1..Len(Work[t][e]) /\ p \in Nat
    <2>1. DOMAIN Work[t][e] = 1..Len(Work[t][e])
        BY <1>5, WorkFacts
    <2>2. QED BY <2>1
<1>7. QED BY <1>3, <1>4, <1>5, <1>6

LEMMA SlotIn ==
    ASSUME NEW t \in Tasks, NEW e \in 1..Len(Work[t]), NEW p \in 1..Len(Work[t][e])
    PROVE  <<t, e, p>> \in Slots
<1>1. e \in DOMAIN Work[t] /\ p \in DOMAIN Work[t][e]
    BY WorkFacts
<1>2. QED BY <1>1 DEF Slots

-----------------------------------------------------------------------------
(* The snapshot.                                                           *)

LEMMA CacheInit == Init => CacheInv
    BY SlotFacts DEF Init, CacheInv, Rendered, Producing, Reporting, Forwards

LEMMA CacheStep ==
    ASSUME PlaceInv, CacheInv, [Next]_vars
    PROVE  CacheInv'
<1>1. task \in [Tasks -> Records] /\ \A t \in Tasks : Placed(t, task[t])
    BY DEF PlaceInv, StateType
<1>2. ASSUME NEW t \in Tasks, Step(t) PROVE CacheInv'
    <2> DEFINE w == task[t]
               v == task'[t]
    <2>1. StepChange(t) /\ Goes(t, w, v) /\ \A u \in Tasks \ {t} : task'[u] = task[u]
        BY <1>2, StepChanges, StepGoes, StepMoved
    <2>2. cache \subseteq cache'
        BY <2>1 DEF StepChange
    <2>3. ASSUME NEW s \in Slots, Rendered(s)' PROVE RequestOf(s) \in cache'
        <3>1. s[1] \in Tasks /\ s[2] \in Nat /\ s[3] \in Nat /\ s[3] >= 1
            BY SlotFacts
        <3>2. CASE s[1] # t
            BY <2>1, <2>2, <2>3, <3>1, <3>2 DEF Rendered, CacheInv
        <3>3. CASE s[1] = t
            <4>1. w.event \in Nat /\ w.producer \in Nat
                BY <1>1 DEF Records
            <4>2. CASE Between(w, v)
                <5>1. w.producer = 1
                    BY <1>1, <4>2 DEF Between, Placed
                <5>2. Rendered(s)
                    BY <2>3, <3>1, <3>3, <4>1, <4>2, <5>1
                       DEF Between, Rendered, Producing, Reporting, Forwards
                <5>3. QED BY <2>2, <5>2 DEF CacheInv
            <4>3. CASE OnRequest(w, v)
                <5>1. Rendered(s)
                    BY <2>3, <3>1, <3>3, <4>1, <4>3
                       DEF OnRequest, Rendered, Producing, Reporting, Forwards
                <5>2. QED BY <2>2, <5>1 DEF CacheInv
            <4>4. CASE Answered(t, w, v)
                <5>1. /\ Requests(t) = Work[t][w.event] /\ Len(Requests(t)) \in Nat
                      /\ w.producer \in 1..Len(Requests(t))
                      /\ Key(t) = Requests(t)[w.producer]
                    BY <4>4, RequestFacts DEF Answered, Producing
                <5>2. \/ Rendered(s)
                      \/ s[2] = w.event /\ s[3] = w.producer
                    <6>1. s[2] = w.event => s[3] <= Len(Requests(t))
                        BY <3>3, <5>1, SlotFacts
                    <6>2. CASE w.producer < Len(Requests(t))
                        BY <2>3, <3>1, <3>3, <4>1, <4>4, <5>1, <6>2
                           DEF Answered, Rendered, Producing, Reporting, Forwards
                    <6>3. CASE ~(w.producer < Len(Requests(t)))
                        BY <2>3, <3>1, <3>3, <4>1, <4>4, <5>1, <6>1, <6>3
                           DEF Answered, Rendered, Producing, Reporting, Forwards
                    <6>4. QED BY <6>2, <6>3
                <5>3. ASSUME s[2] = w.event, s[3] = w.producer PROVE RequestOf(s) \in cache'
                    BY <3>3, <4>4, <5>1, <5>3 DEF Answered, RequestOf
                <5>4. QED BY <2>2, <5>2, <5>3 DEF CacheInv
            <4>5. CASE Counting(w, v) \/ Handing(w, v)
                <5>1. Rendered(s)
                    BY <2>3, <3>1, <3>3, <4>1, <4>5
                       DEF Counting, Handing, Rendered, Producing, Reporting, Forwards
                <5>2. QED BY <2>2, <5>1 DEF CacheInv
            <4>6. CASE Reports(t, w, v)
                <5>1. Rendered(s)
                    BY <2>3, <3>1, <3>3, <4>1, <4>6
                       DEF Reports, Rendered, Producing, Reporting, Forwards
                <5>2. QED BY <2>2, <5>1 DEF CacheInv
            <4>7. QED BY <2>1, <4>2, <4>3, <4>4, <4>5, <4>6 DEF Goes
        <3>4. QED BY <3>2, <3>3
    <2>4. ASSUME w.pc = "count" PROVE Key(t) \in cache
        <3> DEFINE s == <<t, w.event, w.producer>>
        <3>1. /\ w.event \in 1..Len(Work[t]) /\ w.producer \in 1..Len(Work[t][w.event])
              /\ Key(t) = Work[t][w.event][w.producer]
            BY <2>4, RequestFacts DEF Reporting
        <3>2. s \in Slots
            BY <3>1, SlotIn
        <3>3. Rendered(s) /\ RequestOf(s) = Key(t)
            BY <2>4, <3>1 DEF Rendered, RequestOf, Reporting
        <3>4. QED BY <3>2, <3>3 DEF CacheInv
    <2>5. reported' \subseteq cache'
        BY <2>1, <2>2, <2>4 DEF StepChange, CacheInv
    <2>6. QED BY <2>3, <2>5 DEF CacheInv, RequestOf
<1>3. CASE Caller \/ RequestPause \/ Signal \/ UNCHANGED vars
    <2>1. /\ UNCHANGED <<cache, reported>>
          /\ \A u \in Tasks : \/ task'[u] = task[u]
                              \/ /\ task[u].pc = "pending"
                                 /\ task'[u] = [task[u] EXCEPT !.pc = "cancelled"]
        BY <1>3, CallerMoved
    <2>2. ASSUME NEW s \in Slots, Rendered(s)' PROVE Rendered(s)
        <3>1. s[1] \in Tasks /\ task[s[1]] \in Records
            BY <1>1, SlotFacts
        <3>2. QED BY ZenonT(60), <2>1, <2>2, <3>1
                     DEF Rendered, Records, Producing, Reporting, Forwards
    <2>3. QED BY <2>1, <2>2 DEF CacheInv, RequestOf
<1>4. QED BY <1>2, <1>3 DEF Next

-----------------------------------------------------------------------------
(* The counter.                                                            *)

LEMMA SlotsFinite == IsFiniteSet(Slots)
<1> DEFINE Of(t, e) == {<<t, e, p>> : p \in DOMAIN Work[t][e]}
           OfTask(t) == UNION {Of(t, e) : e \in DOMAIN Work[t]}
<1>1. ASSUME NEW t \in Tasks, NEW e \in DOMAIN Work[t] PROVE IsFiniteSet(Of(t, e))
    <2> DEFINE f == [p \in DOMAIN Work[t][e] |-> <<t, e, p>>]
    <2>1. f \in Surjection(DOMAIN Work[t][e], Of(t, e))
        BY DEF Surjection
    <2>2. IsFiniteSet(DOMAIN Work[t][e])
        <3>1. DOMAIN Work[t] = 1..Len(Work[t])
            BY WorkFacts
        <3>2. DOMAIN Work[t][e] = 1..Len(Work[t][e]) /\ Len(Work[t][e]) \in Nat
            BY <3>1, WorkFacts
        <3>3. QED BY <3>2, FS_Interval
    <2>3. QED BY <2>1, <2>2, FS_Surjection
<1>2. ASSUME NEW t \in Tasks PROVE IsFiniteSet(OfTask(t))
    <2> DEFINE E == {Of(t, e) : e \in DOMAIN Work[t]}
               f == [e \in DOMAIN Work[t] |-> Of(t, e)]
    <2> HIDE DEF Of
    <2>1. f \in Surjection(DOMAIN Work[t], E)
        BY DEF Surjection
    <2>2. IsFiniteSet(DOMAIN Work[t])
        <3>1. DOMAIN Work[t] = 1..Len(Work[t]) /\ Len(Work[t]) \in Nat
            BY WorkFacts
        <3>2. IsFiniteSet(1..Len(Work[t]))
            BY <3>1, FS_Interval
        <3>3. QED BY <3>1, <3>2
    <2>3. IsFiniteSet(E)
        BY <2>1, <2>2, FS_Surjection
    <2>4. QED BY <1>1, <2>3, FS_UNION
<1>3. IsFiniteSet({OfTask(t) : t \in Tasks})
    <2> DEFINE f == [t \in Tasks |-> OfTask(t)]
    <2> HIDE DEF OfTask
    <2>1. f \in Surjection(Tasks, {OfTask(t) : t \in Tasks})
        BY DEF Surjection
    <2>2. IsFiniteSet(Tasks)
        BY WorkFacts, FS_Interval
    <2>3. QED BY <2>1, <2>2, FS_Surjection
<1>4. IsFiniteSet(UNION {OfTask(t) : t \in Tasks})
    <2> HIDE DEF OfTask
    <2>1. QED BY <1>2, <1>3, FS_UNION
<1>5. QED BY <1>4 DEF Slots

CountedSlots == {s \in Slots : Counted(s)}

LEMMA CountInit == Init => CountInv
<1> SUFFICES ASSUME Init PROVE CountInv
    OBVIOUS
<1>1. ASSUME NEW s \in Slots PROVE ~Counted(s)
    <2>1. s[1] \in Tasks /\ s[2] \in 1..Len(Work[s[1]])
        BY SlotFacts
    <2>2. QED BY <2>1, WorkFacts DEF Init, Counted, Reporting, Forwards
<1>2. {s \in Slots : Counted(s)} = {}
    BY <1>1
<1>3. QED BY <1>2, FS_EmptySet DEF Init, CountInv

\* A step counts the slot its task stands on, or none.
LEMMA CountedNext ==
    ASSUME PlaceInv, NEW t \in Tasks, Step(t)
    PROVE  LET s == <<t, task[t].event, task[t].producer>> IN
           CountedSlots' = IF task[t].pc = "count" THEN CountedSlots \cup {s} ELSE CountedSlots
<1> DEFINE w == task[t]
           v == task'[t]
           here == <<t, w.event, w.producer>>
<1>1. /\ task \in [Tasks -> Records] /\ \A u \in Tasks : Placed(u, task[u])
      /\ w.event \in Nat /\ w.producer \in Nat
    BY DEF PlaceInv, StateType, Records
<1>2. Goes(t, w, v) /\ \A u \in Tasks \ {t} : task'[u] = task[u]
    BY StepGoes, StepMoved
<1>3. ASSUME NEW s \in Slots
      PROVE  Counted(s)' <=> Counted(s) \/ (w.pc = "count" /\ s = here)
    <2>1. /\ s = <<s[1], s[2], s[3]>> /\ s[1] \in Tasks /\ s[2] \in Nat /\ s[3] \in Nat
          /\ s[3] >= 1 /\ s[3] <= Len(Work[s[1]][s[2]])
        BY SlotFacts
    <2>2. CASE s[1] # t
        BY <1>2, <2>1, <2>2 DEF Counted
    <2>3. CASE s[1] = t
        <3>1. s = here <=> s[2] = w.event /\ s[3] = w.producer
            BY <2>1, <2>3
        <3>2. CASE Between(w, v) \/ OnRequest(w, v) \/ Answered(t, w, v)
            <4>1. Answered(t, w, v) => Len(Requests(t)) \in Nat
                BY RequestFacts DEF Answered, Producing
            <4>2. QED
                BY SMTT(30), <1>1, <2>1, <2>3, <3>2, <4>1
                   DEF Between, OnRequest, Answered, Counted, Producing, Reporting, Forwards
        <3>3. CASE Counting(w, v) \/ Handing(w, v)
            BY <1>1, <2>1, <2>3, <3>1, <3>3
               DEF Counting, Handing, Counted, Reporting, Forwards
        <3>4. CASE Reports(t, w, v)
            <4>1. /\ Requests(t) = Work[t][w.event] /\ Len(Requests(t)) \in Nat
                  /\ w.producer <= Len(Requests(t))
                BY <3>4, RequestFacts DEF Reports, Reporting, Forwards
            <4>2. s[2] = w.event => s[3] <= Len(Requests(t))
                BY <2>1, <2>3, <4>1
            <4>3. CASE w.producer < Len(Requests(t))
                BY <1>1, <2>1, <2>3, <3>4, <4>1, <4>3 DEF Reports, Counted, Reporting, Forwards
            <4>4. CASE ~(w.producer < Len(Requests(t)))
                BY <1>1, <2>1, <2>3, <3>4, <4>1, <4>2, <4>4, SMTT(30)
                   DEF Reports, Counted, Reporting, Forwards
            <4>5. QED BY <4>3, <4>4
        <3>5. QED BY <1>2, <3>2, <3>3, <3>4 DEF Goes
    <2>4. QED BY <2>2, <2>3
<1>4. w.pc = "count" => here \in Slots
    BY RequestFacts, SlotIn DEF Reporting
<1>5. QED BY <1>3, <1>4 DEF CountedSlots

LEMMA CountStep ==
    ASSUME PlaceInv, CountInv, [Next]_vars
    PROVE  CountInv'
<1>1. IsFiniteSet(CountedSlots)
    BY SlotsFinite, FS_Subset DEF CountedSlots
<1>2. counter = Cardinality(CountedSlots) /\ counter \in Nat
    BY DEF CountInv, CountedSlots, PlaceInv, StateType
<1>3. ASSUME NEW t \in Tasks, Step(t) PROVE counter' = Cardinality(CountedSlots')
    <2> DEFINE s == <<t, task[t].event, task[t].producer>>
    <2>1. CountedSlots' = IF task[t].pc = "count" THEN CountedSlots \cup {s} ELSE CountedSlots
        BY <1>3, CountedNext
    <2>2. counter' = IF task[t].pc = "count" THEN counter + 1 ELSE counter
        BY <1>3, StepChanges DEF StepChange
    <2>3. task[t].pc = "count" => s \notin CountedSlots
        <3>1. task[t].event \in Nat /\ task[t].producer \in Nat
            BY DEF PlaceInv, StateType, Records
        <3>2. QED BY <3>1 DEF CountedSlots, Counted, Forwards
    <2>4. QED BY <1>1, <1>2, <2>1, <2>2, <2>3, FS_AddElement
<1>4. ASSUME Caller \/ RequestPause \/ Signal \/ UNCHANGED vars
      PROVE  counter' = Cardinality(CountedSlots')
    <2>1. /\ counter' = counter
          /\ \A u \in Tasks : \/ task'[u] = task[u]
                              \/ /\ task[u].pc = "pending"
                                 /\ task'[u] = [task[u] EXCEPT !.pc = "cancelled"]
        BY <1>4, CallerMoved
    <2>2. ASSUME NEW s \in Slots PROVE Counted(s)' <=> Counted(s)
        <3>1. s[1] \in Tasks /\ task[s[1]] \in Records
            BY SlotFacts DEF PlaceInv, StateType
        <3>2. QED BY ZenonT(60), <2>1, <3>1 DEF Counted, Records, Reporting, Forwards
    <2>3. CountedSlots' = CountedSlots
        BY <2>2 DEF CountedSlots
    <2>4. QED BY <1>2, <2>1, <2>3
<1>5. QED BY <1>3, <1>4 DEF Next, CountInv, CountedSlots

-----------------------------------------------------------------------------
(* The stream.                                                             *)

LEMMA StreamInit == Init => StreamInv
<1> SUFFICES ASSUME Init PROVE StreamInv
    OBVIOUS
<1>1. Forwarding = {}
    BY DEF Init, Forwarding, Forwards
<1>2. Cardinality(Forwarding) = 0
    BY <1>1, FS_EmptySet
<1>3. QED BY <1>1, <1>2 DEF Init, StreamInv

LEMMA TasksFinite == IsFiniteSet(Tasks)
    BY WorkFacts, FS_Interval

\* A task gets its number, keeps it, or gives it to the stream.
LEMMA StreamStep ==
    ASSUME PlaceInv, StreamInv, [Next]_vars
    PROVE  StreamInv'
<1>1. /\ task \in [Tasks -> Records] /\ counter \in Nat /\ stream \in Seq(Nat)
      /\ \A u \in Tasks : task[u].done \in Nat
    BY DEF PlaceInv, StateType, Records
<1>2. IsFiniteSet(Forwarding) /\ Cardinality(Forwarding) \in Nat
    BY TasksFinite, FS_Subset, FS_CardinalityType DEF Forwarding
<1>3. ASSUME NEW t \in Tasks, Step(t) PROVE StreamInv'
    <2> DEFINE w == task[t]
               v == task'[t]
    <2>1. Goes(t, w, v) /\ \A u \in Tasks \ {t} : task'[u] = task[u]
        BY <1>3, StepGoes, StepMoved
    <2>2. /\ counter' = IF w.pc = "count" THEN counter + 1 ELSE counter
          /\ stream' = IF w.pc = "forward" THEN Append(stream, w.done) ELSE stream
        BY <1>3, StepChanges DEF StepChange
    <2>3. CASE w.pc = "count"
        <3>1. v.pc = "apply" /\ v.done = counter + 1
            BY <2>1, <2>3
               DEF Goes, Between, OnRequest, Answered, Counting, Handing, Reports, Producing
        <3>2. Forwarding' = Forwarding \cup {t} /\ t \notin Forwarding
            BY <2>1, <2>3, <3>1 DEF Forwarding, Forwards
        <3>3. Cardinality(Forwarding') = Cardinality(Forwarding) + 1
            BY <1>2, <3>2, FS_AddElement
        <3>4. counter' = counter + 1 /\ stream' = stream
            BY <2>2, <2>3
        <3>5. \A u \in Tasks : /\ u # t => task'[u].done = task[u].done
                               /\ task'[u].done <= counter'
            BY <1>1, <2>1, <3>1, <3>4 DEF StreamInv
        <3>6. \A i \in DOMAIN stream : stream[i] \in 1..counter' /\ stream[i] # counter + 1
            BY <1>1, <3>4 DEF StreamInv
        <3>7. ASSUME NEW u \in Forwarding'
              PROVE  /\ task'[u].done >= 1
                     /\ \A i \in DOMAIN stream : stream[i] # task'[u].done
            BY <1>1, <3>1, <3>2, <3>5, <3>6 DEF StreamInv, Forwarding
        <3>8. ASSUME NEW u \in Forwarding', NEW x \in Forwarding', task'[u].done = task'[x].done
              PROVE  u = x
            <4>1. \A y \in Forwarding : task[y].done <= counter /\ y # t
                BY <3>2 DEF StreamInv, Forwarding
            <4>2. \A y \in Forwarding : task'[y].done = task[y].done
                BY <3>5, <4>1 DEF Forwarding
            <4>3. CASE u = t \/ x = t
                BY <1>1, <3>1, <3>2, <3>8, <4>1, <4>2, <4>3
            <4>4. CASE u # t /\ x # t
                BY <3>2, <3>8, <4>2, <4>4 DEF StreamInv
            <4>5. QED BY <4>3, <4>4
        <3>9. Len(stream) + Cardinality(Forwarding') = counter'
            BY <1>1, <1>2, <3>3, <3>4 DEF StreamInv
        <3>10. QED
            BY <3>4, <3>5, <3>6, <3>7, <3>8, <3>9 DEF StreamInv
    <2>4. CASE w.pc = "forward"
        <3>1. v.pc \in {"count", "check"} /\ v.done = w.done
            BY <2>1, <2>4
               DEF Goes, Between, OnRequest, Answered, Counting, Handing, Reports, Producing
        <3>2. Forwarding' = Forwarding \ {t} /\ t \in Forwarding
            BY <2>1, <2>4, <3>1 DEF Forwarding, Forwards
        <3>3. Cardinality(Forwarding') = Cardinality(Forwarding) - 1
            BY <1>2, <3>2, FS_RemoveElement
        <3>4. /\ counter' = counter /\ Len(stream') = Len(stream) + 1
              /\ DOMAIN stream' = 1..(Len(stream) + 1) /\ DOMAIN stream = 1..Len(stream)
              /\ stream'[Len(stream) + 1] = w.done
              /\ \A i \in 1..Len(stream) : stream'[i] = stream[i]
            BY <1>1, <2>2, <2>4
        <3>5. \A u \in Tasks : task'[u].done = task[u].done
            BY <2>1, <3>1
        <3>6. w.done \in 1..counter /\ \A i \in DOMAIN stream : stream[i] # w.done
            BY <1>1, <3>2 DEF StreamInv
        <3>7. \A u \in Forwarding' : task[u].done # w.done
            BY <3>2 DEF StreamInv
        <3>8. \A i \in DOMAIN stream' :
                  \/ i \in DOMAIN stream /\ stream'[i] = stream[i]
                  \/ i = Len(stream) + 1 /\ stream'[i] = w.done
            BY <1>1, <3>4
        <3>9. /\ \A i \in DOMAIN stream' : stream'[i] \in 1..counter'
              /\ \A i, j \in DOMAIN stream' : stream'[i] = stream'[j] => i = j
            BY <3>4, <3>6, <3>8 DEF StreamInv
        <3>10. \A u \in Forwarding' : \A i \in DOMAIN stream' : stream'[i] # task[u].done
            BY <3>2, <3>7, <3>8 DEF StreamInv
        <3>11. /\ Len(stream') + Cardinality(Forwarding') = counter'
               /\ \A u \in Tasks : task[u].done <= counter'
               /\ \A u \in Forwarding' : /\ task[u].done >= 1
                                         /\ \A x \in Forwarding' :
                                                task[x].done = task[u].done => x = u
            BY <1>1, <1>2, <3>2, <3>3, <3>4 DEF StreamInv
        <3>12. Forwarding' \subseteq Tasks
            BY DEF Forwarding
        <3>13. QED
            BY <3>5, <3>9, <3>10, <3>11, <3>12 DEF StreamInv
    <2>5. CASE w.pc \notin {"count", "forward"}
        <3>1. v.done = w.done /\ (v.pc \in Forwards <=> w.pc \in Forwards)
            BY <2>1, <2>5
               DEF Goes, Between, OnRequest, Answered, Counting, Handing, Reports, Producing,
                   Forwards
        <3>2. Forwarding' = Forwarding
            BY <2>1, <3>1 DEF Forwarding
        <3>3. \A u \in Tasks : task'[u].done = task[u].done
            BY <2>1, <3>1
        <3>4. counter' = counter /\ stream' = stream
            BY <2>2, <2>5
        <3>5. Forwarding \subseteq Tasks
            BY DEF Forwarding
        <3>6. QED BY <3>2, <3>3, <3>4, <3>5 DEF StreamInv
    <2>6. QED BY <2>3, <2>4, <2>5
<1>4. ASSUME Caller \/ RequestPause \/ Signal \/ UNCHANGED vars PROVE StreamInv'
    <2>1. /\ counter' = counter /\ stream' = stream
          /\ \A u \in Tasks : \/ task'[u] = task[u]
                              \/ /\ task[u].pc = "pending"
                                 /\ task'[u] = [task[u] EXCEPT !.pc = "cancelled"]
        BY <1>4, CallerMoved
    <2>2. \A u \in Tasks : /\ task'[u].done = task[u].done
                           /\ task'[u].pc \in Forwards <=> task[u].pc \in Forwards
        <3>1. ASSUME NEW u \in Tasks, task[u].pc = "pending",
                     task'[u] = [task[u] EXCEPT !.pc = "cancelled"]
              PROVE  task'[u].done = task[u].done /\ task'[u].pc = "cancelled"
            <4>1. task[u] \in Records
                BY <1>1
            <4>2. QED BY <3>1, <4>1 DEF Records
        <3>2. QED BY <2>1, <3>1 DEF Forwards
    <2>3. Forwarding' = Forwarding /\ Forwarding \subseteq Tasks
        BY <2>2 DEF Forwarding
    <2>4. QED BY <2>1, <2>2, <2>3 DEF StreamInv
<1>5. QED BY <1>3, <1>4 DEF Next

-----------------------------------------------------------------------------
(* The spend.                                                              *)

LEMMA MaxExists ==
    ASSUME NEW S \in SUBSET Nat, IsFiniteSet(S), S # {}
    PROVE  \E m \in S : \A y \in S : m >= y
<1> DEFINE Bounded(U) == \E m \in U : \A y \in U : m >= y
           T == {U \in FiniteSubsetsOf(S) : U # {} /\ ~Bounded(U)}
<1>1. SUFFICES ASSUME T # {} PROVE FALSE
    <2>1. S \in FiniteSubsetsOf(S)
        BY DEF FiniteSubsetsOf
    <2>2. QED BY <1>1, <2>1
<1>2. IsWellFoundedOn(StrictSubsetOrdering(S), FiniteSubsetsOf(S))
    BY FS_StrictSubsetOrderingWellFounded
<1>3. PICK U \in T : \A V \in T : <<V, U>> \notin StrictSubsetOrdering(S)
    <2>1. T \subseteq FiniteSubsetsOf(S)
        OBVIOUS
    <2> HIDE DEF T
    <2>2. QED BY <1>1, <1>2, <2>1, WFMin
<1>4. U \subseteq S /\ IsFiniteSet(U) /\ U # {} /\ ~Bounded(U)
    BY DEF FiniteSubsetsOf
<1>5. PICK x \in U : TRUE
    BY <1>4
<1> DEFINE V == U \ {x}
<1>6. IsFiniteSet(V) /\ V \subseteq S
    BY <1>4, FS_RemoveElement
<1>7. <<V, U>> \in StrictSubsetOrdering(S)
    BY <1>4, <1>5, <1>6 DEF StrictSubsetOrdering
<1>8. V = {} \/ Bounded(V)
    BY <1>3, <1>6, <1>7 DEF FiniteSubsetsOf
<1>9. CASE V = {}
    <2>1. U = {x} /\ x \in Nat
        BY <1>4, <1>5, <1>9
    <2>2. QED BY <1>4, <2>1
<1>10. CASE Bounded(V)
    <2>1. PICK m \in V : \A y \in V : m >= y
        BY <1>10
    <2>2. m \in U /\ x \in U /\ m \in Nat /\ x \in Nat
        BY <1>4, <1>5
    <2>3. CASE m >= x
        <3>1. \A y \in U : m >= y
            BY <2>1, <2>3
        <3>2. QED BY <1>4, <2>2, <3>1
    <2>4. CASE ~(m >= x)
        <3>1. \A y \in U : x >= y
            BY <1>4, <2>1, <2>2, <2>4
        <3>2. QED BY <1>4, <2>2, <3>1
    <2>5. QED BY <2>3, <2>4
<1>11. QED BY <1>8, <1>9, <1>10

LEMMA MaxPriceBounds ==
    MaxPrice \in Nat /\ \A k \in Keys : Price[k] \in Nat /\ Price[k] <= MaxPrice
<1> DEFINE S == Range(Price) \cup {0}
<1>1. Price \in [Keys -> Nat] /\ IsFiniteSet(Keys)
    BY RenderAssumption
<1>2. Price \in Surjection(Keys, Range(Price))
    BY <1>1 DEF Surjection, Range
<1>3. IsFiniteSet(S)
    BY <1>1, <1>2, FS_Surjection, FS_AddElement
<1>4. S \in SUBSET Nat /\ S # {}
    BY <1>1 DEF Range
<1>5. \E m \in S : \A y \in S : m >= y
    BY <1>3, <1>4, MaxExists
<1>6. Max(S) \in S /\ \A y \in S : Max(S) >= y
    BY <1>5 DEF Max
<1>7. \A k \in Keys : Price[k] \in S
    BY <1>1 DEF Range
<1>8. MaxPrice = Max(S)
    BY DEF MaxPrice
<1> HIDE DEF S
<1>9. MaxPrice \in S /\ \A y \in S : y \in Nat /\ y <= MaxPrice
    BY <1>4, <1>6, <1>8
<1>10. QED BY <1>4, <1>7, <1>9

LEMMA PoolInit == Init => PoolInv
<1> SUFFICES ASSUME Init PROVE PoolInv
    OBVIOUS
<1>1. Running = {}
    BY DEF Init, Running
<1>2. QED BY <1>1, RenderAssumption, FS_EmptySet DEF PoolInv

LEMMA PoolStep ==
    ASSUME PlaceInv, PoolInv, [Next]_vars
    PROVE  PoolInv'
<1>1. task \in [Tasks -> Records] /\ MaxWorkers \in Nat
    BY RenderAssumption DEF PlaceInv, StateType
<1>2. IsFiniteSet(Running) /\ Cardinality(Running) \in Nat
    BY TasksFinite, FS_Subset, FS_CardinalityType DEF Running
<1>3. ASSUME Running' \subseteq Running PROVE PoolInv'
    <2>1. Cardinality(Running') <= Cardinality(Running) /\ Cardinality(Running') \in Nat
        BY <1>2, <1>3, FS_Subset, FS_CardinalityType
    <2>2. QED BY <1>1, <1>2, <2>1 DEF PoolInv
<1>4. ASSUME NEW t \in Tasks, Step(t) PROVE PoolInv'
    <2>1. CASE StartTask(t)
        <3>0. task'[t].pc = "check" /\ \A u \in Tasks \ {t} : task'[u] = task[u]
            BY <1>1, <1>4, <2>1, StepMoved DEF StartTask
        <3>1. Running' = Running \cup {t}
            BY <3>0 DEF Running, Ended
        <3>2. Cardinality(Running') = IF t \in Running THEN Cardinality(Running)
                                      ELSE Cardinality(Running) + 1
            BY <1>2, <3>1, FS_AddElement
        <3>3. Cardinality(Running) < MaxWorkers
            BY <2>1 DEF StartTask
        <3>4. QED BY <1>1, <1>2, <3>2, <3>3 DEF PoolInv
    <2>2. CASE ~StartTask(t)
        <3>1. task[t].pc # "pending" /\ ~Ended(t)
            BY <1>4, <2>2
               DEF Step, Check, ReadControl, FinishTask, Lookup, Call, CallFails, CheckCeiling,
                   Record, Put, Count, ApplyReport, Forward, Ended
        <3>2. Running' \subseteq Running
            BY <1>4, <3>1, StepMoved DEF Running, Ended
        <3>3. QED BY <1>3, <3>2
    <2>3. QED BY <2>1, <2>2
<1>5. ASSUME Caller \/ RequestPause \/ Signal \/ UNCHANGED vars PROVE PoolInv'
    <2>1. \A u \in Tasks : \/ task'[u] = task[u]
                           \/ task'[u] = [task[u] EXCEPT !.pc = "cancelled"]
        BY <1>5, CallerMoved
    <2>2. \A u \in Tasks : task'[u] = task[u] \/ task'[u].pc = "cancelled"
        BY <1>1, <2>1 DEF Records
    <2>3. Running' \subseteq Running
        BY <2>2 DEF Running, Ended
    <2>4. QED BY <1>3, <2>3
<1>6. QED BY <1>4, <1>5 DEF Next

LEMMA SpendInit == Init => SpendInv
<1> SUFFICES ASSUME Init, Ceiling # None PROVE SpendInv
    BY DEF SpendInv
<1>1. Ceiling \in Nat /\ MaxWorkers \in Nat \ {0} /\ MaxPrice \in Nat
    BY RenderAssumption, MaxPriceBounds
<1>2. (MaxWorkers - 1) * MaxPrice \in Nat
    BY <1>1
<1>3. Recording = {} /\ cost = 0
    BY DEF Init, Recording
<1>4. QED BY <1>1, <1>2, <1>3 DEF SpendInv

\* Who is about to record has passed the check with what was recorded then.
LEMMA Checks ==
    ASSUME PlaceInv, NEW t \in Tasks, Step(t), task'[t].pc = "record"
    PROVE  /\ task[t].pc = "ceiling"
           /\ Ceiling # None => cost + Price[Key(t)] <= Ceiling
<1>1. task \in [Tasks -> Records] /\ task[t] \in Records
    BY DEF PlaceInv, StateType
<1>2. CASE CheckCeiling(t)
    <2>1. Ceiling \in Nat \cup {None} /\ Price \in [Keys -> Nat] /\ cost \in Nat
        BY RenderAssumption DEF PlaceInv, StateType
    <2>2. Key(t) \in Keys
        BY <1>2, RequestFacts DEF CheckCeiling, Producing
    <2>3. Price[Key(t)] \in Nat
        BY <2>1, <2>2
    <2>4. ~(Ceiling # None /\ cost + Price[Key(t)] > Ceiling)
        <3>1. SUFFICES ASSUME Raise(t, "ceiling") PROVE FALSE
            BY <1>2 DEF CheckCeiling
        <3>2. task'[t].pc = "raised"
            BY <1>1, <3>1 DEF Raise, Records
        <3>3. QED BY <3>2
    <2>5. QED BY <1>2, <2>1, <2>3, <2>4 DEF CheckCeiling
<1>3. CASE Lookup(t) \/ Put(t)
    BY <1>1, <1>3 DEF Lookup, Put, NextProducer, Records
<1>4. CASE Forward(t)
    BY <1>1, <1>4 DEF Forward, NextReport, Records
<1>5. CASE StartTask(t) \/ FinishTask(t) \/ Call(t) \/ Record(t) \/ ApplyReport(t)
    BY <1>1, <1>5 DEF StartTask, FinishTask, Call, Record, ApplyReport, Records
<1>6. CASE Check(t) \/ ReadControl(t)
    BY <1>1, <1>6 DEF Check, ReadControl, Answer, Raise, Records
<1>7. CASE CallFails(t) \/ Count(t)
    BY <1>1, <1>7 DEF CallFails, Count, Raise, Records
<1>8. QED BY <1>2, <1>3, <1>4, <1>5, <1>6, <1>7 DEF Step

LEMMA SpendStep ==
    ASSUME PlaceInv, PoolInv, SpendInv, [Next]_vars
    PROVE  SpendInv'
<1> SUFFICES ASSUME Ceiling # None PROVE SpendInv'
    BY DEF SpendInv
<1> DEFINE M == MaxPrice
           top == Ceiling + (MaxWorkers - 1) * M
           Slack(n) == (n - 1) * M
<1>1. /\ Ceiling \in Nat /\ MaxWorkers \in Nat \ {0} /\ cost \in Nat /\ M \in Nat
      /\ task \in [Tasks -> Records]
    BY RenderAssumption, MaxPriceBounds DEF PlaceInv, StateType
<1>2. top \in Nat
    <2>1. \A a, b \in Nat : a * b \in Nat
        OBVIOUS
    <2>2. (MaxWorkers - 1) * M \in Nat
        BY <1>1, <2>1
    <2>3. QED BY <1>1, <2>2
<1>3. /\ cost <= top
      /\ Recording # {} => \E u \in Recording :
             cost + Price[Key(u)] + Slack(Cardinality(Recording)) <= top
    BY DEF SpendInv
<1>4. /\ IsFiniteSet(Recording) /\ Cardinality(Recording) \in Nat
      /\ \A u \in Recording : Price[Key(u)] \in Nat /\ Price[Key(u)] <= M
    <2>1. IsFiniteSet(Recording)
        BY TasksFinite, FS_Subset DEF Recording
    <2>2. \A u \in Recording : Key(u) \in Keys
        BY RequestFacts DEF Recording, Producing
    <2>3. QED BY <2>1, <2>2, FS_CardinalityType, MaxPriceBounds
<1>5. ASSUME UNCHANGED cost, Recording' = Recording, \A u \in Recording : Key(u)' = Key(u)
      PROVE  SpendInv'
    BY <1>3, <1>5 DEF SpendInv
<1> HIDE DEF M, top
<1>6. \A n \in Nat : n >= 1 => Slack(n) \in Nat /\ Slack(n + 1) = Slack(n) + M
    <2>1. \A a, b \in Nat : a * b \in Nat /\ (a + 1) * b = a * b + b
        OBVIOUS
    <2>2. QED BY <1>1, <2>1
<1> HIDE DEF Slack
<1>7. ASSUME NEW t \in Tasks, Step(t) PROVE SpendInv'
    <2> DEFINE w == task[t]
               v == task'[t]
    <2>1. /\ StepChange(t) /\ Goes(t, w, v)
          /\ \A u \in Tasks \ {t} : task'[u] = task[u] /\ Key(u)' = Key(u)
        BY <1>7, StepChanges, StepGoes, StepMoved DEF Key, Requests
    <2>2. CASE v.pc = "record"
        <3>1. w.pc = "ceiling" /\ cost + Price[Key(t)] <= Ceiling
            BY <1>7, <2>2, Checks
        <3>2. cost' = cost /\ Key(t)' = Key(t)
            BY <2>1, <3>1 DEF StepChange, Goes, Between, OnRequest, Answered, Counting, Handing,
                              Reports, Key, Requests
        <3>3. Recording' = Recording \cup {t} /\ t \notin Recording
            BY <2>1, <2>2, <3>1 DEF Recording
        <3>a. Cardinality(Recording') = Cardinality(Recording) + 1
            BY <1>4, <3>3, FS_AddElement
        <3>4. /\ Cardinality(Recording') = Cardinality(Recording) + 1
              /\ Cardinality(Recording') \in Nat
            BY <1>4, <3>a
        <3>5. Cardinality(Recording') <= MaxWorkers
            <4>1. Recording' \subseteq Running
                BY <3>1, <3>3 DEF Recording, Running, Ended
            <4>2. IsFiniteSet(Running)
                BY TasksFinite, FS_Subset DEF Running
            <4>3. Cardinality(Running) \in Nat
                BY <4>2, FS_CardinalityType
            <4>4. Cardinality(Recording') <= Cardinality(Running)
                BY <4>1, <4>2, FS_Subset
            <4>5. QED BY <1>1, <3>4, <4>3, <4>4 DEF PoolInv
        <3>6. Slack(Cardinality(Recording')) <= (MaxWorkers - 1) * M
            <4>1. \A a, b, c \in Nat : a <= b => a * c <= b * c
                OBVIOUS
            <4>2. QED BY <1>1, <1>4, <3>4, <3>5, <4>1 DEF Slack
        <3>7. Price[Key(t)] \in Nat
            <4>1. Key(t) \in Keys
                BY <3>1, RequestFacts DEF Producing
            <4>2. QED BY <4>1, MaxPriceBounds
        <3>8. Slack(Cardinality(Recording')) \in Nat /\ (MaxWorkers - 1) * M \in Nat
            <4>1. \A a, b \in Nat : a * b \in Nat
                OBVIOUS
            <4>2. QED BY <1>1, <1>4, <1>6, <3>4, <4>1
        <3>9. cost + Price[Key(t)] + Slack(Cardinality(Recording')) <= top
            BY <1>1, <3>1, <3>6, <3>7, <3>8 DEF top
        <3>10. QED
            BY <1>3, <3>2, <3>3, <3>9 DEF SpendInv, top, Slack, M
    <2>3. CASE w.pc = "record"
        <3>1. v.pc # "record"
            BY <1>7, <2>3, Checks
        <3>2. cost' = cost + Price[Key(t)] /\ Price[Key(t)] \in Nat /\ t \in Recording
            BY <1>4, <2>1, <2>3 DEF StepChange, Recording
        <3>3. Recording' = Recording \ {t}
            BY <2>1, <3>1, <3>2 DEF Recording
        <3>4. /\ Cardinality(Recording') = Cardinality(Recording) - 1
              /\ Cardinality(Recording') \in Nat
            BY <1>4, <3>2, <3>3, FS_RemoveElement, FS_CardinalityType
        <3>5. PICK u \in Recording :
                  cost + Price[Key(u)] + Slack(Cardinality(Recording)) <= top
            BY <1>3, <3>2
        <3> DEFINE n == Cardinality(Recording)
        <3>6. n >= 1 /\ n \in Nat /\ Slack(n) \in Nat
            BY <1>4, <1>6, <3>4
        <3>7. Slack(n) = IF n = 1 THEN 0 ELSE Slack(n - 1) + M
            <4>1. n = 1 => Slack(n) = 0
                BY <1>1 DEF Slack
            <4>2. n > 1 => n - 1 \in Nat /\ n - 1 >= 1 /\ (n - 1) + 1 = n
                BY <3>6
            <4>3. n > 1 => Slack(n) = Slack(n - 1) + M
                BY <1>6, <4>2
            <4>4. QED BY <3>6, <4>1, <4>3
        <3>8. Recording' = {} => n = 1
            BY <3>4, <3>6, FS_EmptySet
        <3>9. n = 1 => Recording' = {}
            <4>1. IsFiniteSet(Recording')
                BY <1>4, <3>3, FS_RemoveElement
            <4>2. QED BY <3>4, <3>6, <4>1, FS_EmptySet
        <3>10. n > 1 => Slack(n - 1) \in Nat
            BY <1>6, <3>6
        <3>11. /\ Price[Key(u)] \in Nat /\ Price[Key(u)] <= M
               /\ Price[Key(t)] <= M
            BY <1>4, <3>2
        <3>12. CASE n = 1
            <4>1. u = t
                <5>1. \A x \in Recording : x = t
                    BY <3>3, <3>9, <3>12
                <5>2. QED BY <5>1
            <4>2. cost' <= top
                BY <1>1, <1>2, <3>2, <3>5, <3>7, <3>12, <4>1
            <4>3. QED BY <3>9, <3>12, <4>2 DEF SpendInv, top, M
        <3>13. CASE n > 1
            <4>1. PICK x \in Recording' : u # t => x = u
                BY <3>3, <3>8, <3>13
            <4>2. x \in Recording /\ x # t /\ Key(x)' = Key(x)
                BY <2>1, <3>3, <4>1 DEF Recording
            <4>3. Price[Key(x)] \in Nat /\ Price[Key(x)] <= M
                BY <1>4, <4>2
            <4>4. cost' + Price[Key(x)] + Slack(n - 1) <= top
                BY <1>1, <1>2, <3>2, <3>5, <3>7, <3>10, <3>11, <3>13, <4>1, <4>3
            <4>5. cost' \in Nat /\ cost' <= top
                BY <1>1, <1>2, <3>2, <3>10, <3>13, <4>3, <4>4
            <4>6. cost' + Price[Key(x)'] + Slack(Cardinality(Recording')) <= top
                BY <3>4, <4>2, <4>4
            <4>7. QED BY <4>1, <4>5, <4>6 DEF SpendInv, top, Slack, M
        <3>14. QED BY <3>6, <3>12, <3>13
    <2>4. CASE v.pc # "record" /\ w.pc # "record"
        <3>1. cost' = cost /\ Recording' = Recording
            BY <2>1, <2>4 DEF StepChange, Recording
        <3>2. \A u \in Recording : Key(u)' = Key(u)
            BY <2>1, <2>4 DEF Recording
        <3>3. QED BY <1>5, <3>1, <3>2
    <2>5. QED BY <2>2, <2>3, <2>4
<1>8. ASSUME Caller \/ RequestPause \/ Signal \/ UNCHANGED vars PROVE SpendInv'
    <2>1. /\ cost' = cost
          /\ \A u \in Tasks : \/ task'[u] = task[u]
                              \/ /\ task[u].pc = "pending"
                                 /\ task'[u] = [task[u] EXCEPT !.pc = "cancelled"]
        BY <1>8, CallerMoved
    <2>2. \A u \in Tasks : \/ task'[u] = task[u]
                           \/ task[u].pc = "pending" /\ task'[u].pc = "cancelled"
        <3>1. \A u \in Tasks : task[u] \in Records
            BY <1>1
        <3>2. QED BY <2>1, <3>1 DEF Records
    <2>3. Recording' = Recording /\ \A u \in Recording : task'[u] = task[u]
        BY <2>2 DEF Recording
    <2>4. \A u \in Recording : Key(u)' = Key(u)
        BY <2>3 DEF Key, Requests
    <2>5. QED BY <1>5, <2>1, <2>3, <2>4
<1>9. QED BY <1>7, <1>8 DEF Next

-----------------------------------------------------------------------------
(* What is paid for.                                                       *)

LEMMA PaidInit == Init => PaidInv
    BY DEF Init, PaidInv

LEMMA KeyRequested ==
    ASSUME PlaceInv, NEW t \in Tasks, task[t].pc \in Producing \cup Reporting
    PROVE  Key(t) \in Requested(t)
<1>1. /\ task[t].event \in DOMAIN Work[t]
      /\ task[t].producer \in DOMAIN Work[t][task[t].event]
      /\ Key(t) = Work[t][task[t].event][task[t].producer]
    BY RequestFacts
<1>2. Key(t) \in Range(Work[t][task[t].event])
    BY <1>1 DEF Range
<1>3. QED BY <1>1, <1>2 DEF Requested

\* Who is about to call the provider has missed the cache, or tries again.
LEMMA Calls ==
    ASSUME PlaceInv, NEW t \in Tasks, Step(t), task'[t].pc = "call"
    PROVE  \/ task[t].pc = "lookup" /\ Key(t) \notin cache
           \/ task[t].pc = "call"
<1>1. task \in [Tasks -> Records] /\ task[t] \in Records
    BY DEF PlaceInv, StateType
<1>2. CASE Lookup(t)
    <2>1. CASE Key(t) \in cache
        BY <1>1, <1>2, <2>1 DEF Lookup, NextProducer, Records
    <2>2. QED BY <1>2, <2>1 DEF Lookup
<1>3. CASE CallFails(t) \/ Call(t)
    BY <1>3 DEF CallFails, Call
<1>4. CASE Put(t) \/ Forward(t)
    BY ZenonT(60), <1>1, <1>4 DEF Put, NextProducer, Forward, NextReport, Records
<1>5. CASE StartTask(t) \/ FinishTask(t) \/ Record(t) \/ ApplyReport(t) \/ Count(t)
    BY <1>1, <1>5 DEF StartTask, FinishTask, Record, ApplyReport, Count, Records
<1>6. CASE Check(t) \/ ReadControl(t) \/ CheckCeiling(t)
    BY <1>1, <1>6 DEF Check, ReadControl, CheckCeiling, Answer, Raise, Records
<1>7. QED BY <1>2, <1>3, <1>4, <1>5, <1>6 DEF Step

LEMMA PaidStep ==
    ASSUME PlaceInv, PaidInv, [Next]_vars
    PROVE  PaidInv'
<1>1. task \in [Tasks -> Records]
    BY DEF PlaceInv, StateType
<1>2. ASSUME NEW t \in Tasks, Step(t), NEW u \in Tasks, task'[u].pc = "call", Key(u)' \in cache'
      PROVE  \E x \in Tasks \ {u} : Key(u)' \in Requested(x)
    <2>1. StepChange(t) /\ Goes(t, task[t], task'[t])
          /\ \A x \in Tasks \ {t} : task'[x] = task[x] /\ Key(x)' = Key(x)
        BY <1>2, StepChanges, StepGoes, StepMoved DEF Key, Requests
    <2>2. CASE u = t
        <3>1. \/ task[t].pc = "lookup" /\ Key(t) \notin cache
              \/ task[t].pc = "call"
            BY <1>2, <2>2, Calls
        <3>2. Key(t)' = Key(t)
            BY <1>2, <2>1, <2>2, <3>1
               DEF Goes, Between, OnRequest, Answered, Counting, Handing, Reports, Key, Requests
        <3>3. cache' = cache
            BY <2>1, <3>1 DEF StepChange
        <3>4. QED BY <1>2, <2>2, <3>1, <3>2, <3>3 DEF PaidInv
    <2>3. CASE u # t
        <3>1. task[u].pc = "call" /\ Key(u)' = Key(u)
            BY <1>2, <2>1, <2>3
        <3>2. CASE Key(u) \in cache
            BY <3>1, <3>2 DEF PaidInv
        <3>3. CASE Key(u) \notin cache
            <4>1. task[t].pc = "put" /\ Key(u) = Key(t)
                BY <1>2, <2>1, <3>1, <3>3 DEF StepChange
            <4>2. Key(t) \in Requested(t)
                BY <4>1, KeyRequested DEF Producing
            <4>3. QED BY <2>3, <3>1, <4>1, <4>2
        <3>4. QED BY <3>2, <3>3
    <2>4. QED BY <2>2, <2>3
<1>3. ASSUME Caller \/ RequestPause \/ Signal \/ UNCHANGED vars,
             NEW u \in Tasks, task'[u].pc = "call", Key(u)' \in cache'
      PROVE  \E x \in Tasks \ {u} : Key(u)' \in Requested(x)
    <2>1. task[u] \in Records
        BY <1>1
    <2>2. /\ cache' = cache
          /\ \/ task'[u] = task[u]
             \/ task'[u] = [task[u] EXCEPT !.pc = "cancelled"]
        BY <1>3, CallerMoved
    <2>3. task'[u] = task[u]
        BY <1>3, <2>1, <2>2 DEF Records
    <2>4. Key(u)' = Key(u)
        BY <2>3 DEF Key, Requests
    <2>5. QED BY <1>3, <2>2, <2>3, <2>4 DEF PaidInv
<1>4. ASSUME NEW u \in Tasks, task'[u].pc = "call", Key(u)' \in cache'
      PROVE  \E x \in Tasks \ {u} : Key(u)' \in Requested(x)
    BY <1>2, <1>3, <1>4 DEF Next
<1>5. QED BY <1>4 DEF PaidInv, Requested

LEMMA NothingPaidStep ==
    ASSUME PlaceInv, PaidInv, [Next]_vars,
           NEW k \in cache, Cardinality({t \in Tasks : k \in Requested(t)}) = 1
    PROVE  billed'[k] = billed[k]
<1>1. SUFFICES ASSUME NEW t \in Tasks, Step(t) PROVE billed'[k] = billed[k]
    BY CallerMoved DEF Next
<1>2. PICK x : {u \in Tasks : k \in Requested(u)} = {x}
    <2>1. IsFiniteSet({u \in Tasks : k \in Requested(u)})
        BY TasksFinite, FS_Subset
    <2>2. QED BY <2>1, FS_Singleton
<1>3. billed \in [Keys -> Nat] /\ k \in Keys
    BY DEF PlaceInv, StateType
<1>4. CASE task[t].pc = "call" /\ billed' = [billed EXCEPT ![Key(t)] = @ + 1] /\ Key(t) = k
    <2>1. k \in Requested(t)
        BY <1>4, KeyRequested DEF Producing
    <2>2. \E u \in Tasks \ {t} : k \in Requested(u)
        BY <1>4 DEF PaidInv
    <2>3. QED BY <1>2, <2>1, <2>2
<1>5. QED BY <1>1, <1>3, <1>4, StepChanges DEF StepChange

-----------------------------------------------------------------------------
(* The end.                                                                *)

LEMMA EndInit == Init => EndInv
<1> SUFFICES ASSUME Init PROVE EndInv
    OBVIOUS
<1>1. \A t \in Tasks : t >= 1 /\ task[t].pc = "pending"
    BY WorkFacts DEF Init
<1>2. next = 1 /\ outcome = "open" /\ file \in BOOLEAN /\ signalled \in BOOLEAN
    BY DEF Init
<1>3. QED BY <1>1, <1>2, WorkFacts DEF EndInv, Failures

\* What has ended does not move; what moves is not pending any more, reads the
\* control file if there is one, and pauses because it was asked to.
LEMMA StepEnds ==
    ASSUME PlaceInv, EndInv, NEW t \in Tasks, Step(t)
    PROVE  /\ ~Ended(t) /\ task'[t].pc # "pending"
           /\ task'[t].pc = "read" => file
           /\ task'[t].pc = "raised" /\ task'[t].exc = "paused" => file \/ signalled
<1>1. task \in [Tasks -> Records] /\ task[t] \in Records
    BY DEF PlaceInv, StateType
<1>2. ~Ended(t)
    BY DEF Step, StartTask, Check, ReadControl, FinishTask, Lookup, Call, CallFails,
           CheckCeiling, Record, Put, Count, ApplyReport, Forward, Ended
<1>3. file \in BOOLEAN /\ signalled \in BOOLEAN /\ (task[t].pc = "read" => file)
    BY DEF EndInv
<1> DEFINE v == task'[t]
<1>4. CASE StartTask(t) \/ FinishTask(t) \/ Call(t) \/ Record(t) \/ ApplyReport(t) \/ Count(t)
    <2>1. v.pc \notin {"pending", "read", "raised"}
        BY <1>1, <1>4 DEF StartTask, FinishTask, Call, Record, ApplyReport, Count, Records
    <2>2. QED BY <1>2, <2>1
<1>5. CASE Lookup(t) \/ Put(t) \/ Forward(t)
    <2>1. v.pc \notin {"pending", "read", "raised"}
        BY ZenonT(60), <1>1, <1>5 DEF Lookup, Put, Forward, NextProducer, NextReport, Records
    <2>2. QED BY <1>2, <2>1
<1>6. CASE CallFails(t) \/ CheckCeiling(t)
    <2>1. v.pc \notin {"pending", "read"} /\ (v.pc = "raised" => v.exc # "paused")
        BY <1>1, <1>6 DEF CallFails, CheckCeiling, Raise, Records
    <2>2. QED BY <1>2, <2>1
<1>7. CASE ReadControl(t)
    <2>1. v.pc = "raised"
        BY <1>1, <1>7 DEF ReadControl, Answer, Raise, Records
    <2>2. QED BY <1>2, <1>3, <1>7, <2>1 DEF ReadControl
<1>8. CASE Check(t)
    <2>1. v.pc # "pending" /\ (v.pc = "read" => file) /\ (v.pc = "raised" => file \/ signalled)
        BY <1>1, <1>8 DEF Check, Answer, Raise, Records
    <2>2. QED BY <1>2, <2>1
<1>9. QED BY <1>4, <1>5, <1>6, <1>7, <1>8 DEF Step

LEMMA EndStep ==
    ASSUME PlaceInv, EndInv, [Next]_vars
    PROVE  EndInv'
<1>1. /\ task \in [Tasks -> Records] /\ \A t \in Tasks : Placed(t, task[t])
      /\ next \in 1..(Len(Work) + 1) /\ Len(Work) \in Nat /\ Tasks = 1..Len(Work)
    BY WorkFacts DEF PlaceInv, StateType
<1>2. ASSUME NEW t \in Tasks, Step(t) PROVE EndInv'
    <2>1. /\ ~Ended(t) /\ task'[t].pc # "pending"
          /\ task'[t].pc = "read" => file
          /\ task'[t].pc = "raised" /\ task'[t].exc = "paused" => file \/ signalled
        BY <1>2, StepEnds
    <2>2. /\ \A u \in Tasks \ {t} : task'[u] = task[u]
          /\ next' = next /\ outcome' = outcome /\ file' = file /\ signalled' = signalled
        BY <1>2, StepMoved
    <2>3. task[t].pc \notin {"done", "raised", "cancelled"}
        BY <2>1 DEF Ended
    <2>4. \A u \in Tasks : task[u].pc \in {"done", "raised", "cancelled"} => task'[u] = task[u]
        BY <2>2, <2>3
    <2>5. outcome \in {"open", "unwinding"}
        BY <2>1 DEF EndInv
    <2>6. \A u \in Tasks : u < next' => task'[u].pc = "done"
        BY <2>2, <2>4 DEF EndInv
    <2>7. outcome' # "open" => \A u \in Tasks : task'[u].pc # "pending"
        BY <2>1, <2>2 DEF EndInv
    <2>8. /\ \A u \in Tasks : task'[u].pc = "read" => file
          /\ \A u \in Tasks : task'[u].pc = "raised" /\ task'[u].exc = "paused"
                                  => file \/ signalled
        BY <2>1, <2>2 DEF EndInv
    <2>9. outcome = "unwinding" => next \in Tasks /\ task'[next].pc = "raised"
        BY <2>4 DEF EndInv
    <2>10. outcome \notin Failures /\ outcome # "returned"
        BY <2>5 DEF Failures
    <2>11. QED
        BY <2>2, <2>5, <2>6, <2>7, <2>8, <2>9, <2>10 DEF EndInv
<1>3. CASE Collect
    <2>1. \A u \in Tasks : u < next + 1 => u < next \/ u = next
        BY <1>1
    <2>2. QED BY <1>3, <2>1 DEF Collect, EndInv, Failures, Ended, control
<1>4. CASE Propagate
    <2>1. ASSUME NEW u \in Tasks
          PROVE  \/ task'[u] = task[u]
                 \/ task'[u].pc = "cancelled" /\ task[u].pc = "pending"
        <3>1. task[u] \in Records
            BY <1>1
        <3>2. CASE task[u].pc = "pending"
            BY <1>4, <3>1, <3>2 DEF Propagate, Records
        <3>3. CASE task[u].pc # "pending"
            BY <1>4, <3>3 DEF Propagate
        <3>4. QED BY <3>2, <3>3
    <2>2. \A u \in Tasks : task'[u].pc # "pending"
        <3>1. \A u \in Tasks : task[u] \in Records
            BY <1>1
        <3>2. QED BY <1>4, <3>1 DEF Propagate, Records
    <2>3. /\ next \in Tasks /\ task[next].pc = "raised" /\ next' = next
          /\ outcome' = "unwinding" /\ file' = file /\ signalled' = signalled
        BY <1>4 DEF Propagate, control
    <2>4. task'[next] = task[next]
        BY <2>1, <2>3
    <2>5. QED BY <2>1, <2>2, <2>3, <2>4 DEF EndInv, Failures
<1>5. CASE Close
    <2>1. /\ task' = task /\ next' = next /\ file' = file /\ signalled' = signalled
          /\ \A u \in Tasks : task[u].pc = "pending" \/ Ended(u)
        BY <1>5 DEF Close, Running, control
    <2>2. CASE outcome = "open" /\ next \notin Tasks /\ outcome' = "returned"
        <3>1. \A u \in Tasks : u < next
            BY <1>1, <2>2
        <3>2. \A u \in Tasks : task[u].pc = "done"
            BY <3>1 DEF EndInv
        <3>3. QED BY <2>1, <2>2, <3>2 DEF EndInv, Ended, Failures
    <2>3. CASE outcome = "unwinding" /\ outcome' = task[next].exc
        <3>1. next \in Tasks /\ task[next].pc = "raised" /\ \A u \in Tasks : Ended(u)
            BY <2>1, <2>3 DEF EndInv
        <3>2. outcome' \in Failures
            BY <1>1, <2>3, <3>1 DEF Placed
        <3>3. QED BY <2>1, <2>3, <3>1, <3>2 DEF EndInv, Ended, Failures
    <2>4. QED BY <1>5, <2>2, <2>3 DEF Close
<1>6. CASE RequestPause \/ Signal
    BY <1>6 DEF RequestPause, Signal, EndInv, Ended
<1>7. CASE UNCHANGED vars
    BY <1>7 DEF vars, EndInv, Ended
<1>8. QED BY <1>2, <1>3, <1>4, <1>5, <1>6, <1>7 DEF Next, Caller

-----------------------------------------------------------------------------
(* The theorems.                                                           *)

PoolSafe ==
    /\ PlaceInv /\ CacheInv /\ CountInv /\ StreamInv
    /\ PoolInv /\ SpendInv /\ PaidInv /\ EndInv

\* Every state of every render satisfies the invariants above.
THEOREM RenderInvariants == Spec => []PoolSafe
<1>1. Init => PoolSafe
    BY PlaceInit, CacheInit, CountInit, StreamInit, PoolInit, SpendInit, PaidInit, EndInit
       DEF PoolSafe
<1>2. PoolSafe /\ [Next]_vars => PoolSafe'
    BY PlaceStep, CacheStep, CountStep, StreamStep, PoolStep, SpendStep, PaidStep, EndStep
       DEF PoolSafe
<1>3. QED BY <1>1, <1>2, PTL DEF Spec

\* The fields of a task and the variables keep their types.
THEOREM RenderTypes == Spec => []TypeOK
<1>1. PoolSafe => TypeOK
    <2> SUFFICES ASSUME PoolSafe PROVE TypeOK
        OBVIOUS
    <2>1. MaxRetries \in Nat
        BY RenderAssumption
    <2>2. ASSUME NEW t \in Tasks
          PROVE  /\ task[t].event \in 1..(Len(Work[t]) + 1)
                 /\ task[t].attempt \in 0..MaxRetries /\ task[t].done \in 0..counter
        <3>1. task[t] \in Records /\ Placed(t, task[t]) /\ counter \in Nat
              /\ task[t].done <= counter
            BY DEF PoolSafe, PlaceInv, StateType, StreamInv
        <3>2. QED BY <2>1, <3>1 DEF Records, Placed
    <2>3. QED BY <2>2 DEF PoolSafe, PlaceInv, StateType, EndInv, TypeOK
<1>2. QED BY <1>1, RenderInvariants, PTL

\* The counts reported are distinct, the recorded spend passes the ceiling by less
\* than one call of each other thread, and what is reported is in the snapshot.
THEOREM Accounts == Spec => []AccountsSound
<1>1. PoolSafe => ReportsOnce
    <2> SUFFICES ASSUME PoolSafe PROVE ReportsOnce
        OBVIOUS
    <2>1. /\ \A i \in DOMAIN stream : stream[i] \in 1..counter
          /\ \A i, j \in DOMAIN stream : stream[i] = stream[j] => i = j
        BY DEF PoolSafe, StreamInv
    <2>2. counter <= Total
        <3>1. Cardinality(CountedSlots) <= Cardinality(Slots)
            BY SlotsFinite, FS_Subset DEF CountedSlots
        <3>2. QED BY <3>1 DEF PoolSafe, CountInv, CountedSlots, Total
    <2>3. QED BY <2>1, <2>2 DEF ReportsOnce, Range
<1>2. PoolSafe => OvershootBounded
    BY DEF PoolSafe, SpendInv, MaxPrice, OvershootBounded
<1>3. PoolSafe => SnapshotCoversReports
    BY DEF PoolSafe, CacheInv, SnapshotCoversReports
<1>4. PoolSafe => AccountsSound
    BY <1>1, <1>2, <1>3 DEF AccountsSound
<1>5. QED BY <1>4, RenderInvariants, PTL

\* A call has ended when no thread is at work and everything counted is forwarded;
\* it returns when all is rendered and raises what one of its tasks has met.
THEOREM Ending == Spec => []EndSound
<1>1. PoolSafe => QuietEnd
    <2> SUFFICES ASSUME PoolSafe, outcome \notin {"open", "unwinding"} PROVE QuietEnd
        BY DEF QuietEnd
    <2>1. \A t \in Tasks : Ended(t)
        BY DEF PoolSafe, EndInv
    <2>2. Forwarding = {}
        BY <2>1 DEF Forwarding, Forwards, Ended
    <2>3. Cardinality(Forwarding) = 0
        BY <2>2, FS_EmptySet
    <2>4. Len(stream) = counter
        BY <2>3 DEF PoolSafe, StreamInv, PlaceInv, StateType
    <2>5. QED BY <2>1, <2>4 DEF QuietEnd
<1>2. PoolSafe => OutcomeExplained
    <2> SUFFICES ASSUME PoolSafe PROVE OutcomeExplained
        OBVIOUS
    <2>1. ASSUME outcome = "returned"
          PROVE  counter = Total /\ \A t \in Tasks : Requested(t) \subseteq cache
        <3>1. next \notin Tasks /\ next \in 1..(Len(Work) + 1)
            BY <2>1 DEF PoolSafe, EndInv, PlaceInv, StateType
        <3>2. \A t \in Tasks : t < next
            BY <3>1, WorkFacts
        <3>3. \A t \in Tasks : task[t].pc = "done"
            BY <3>2 DEF PoolSafe, EndInv
        <3>4. \A t \in Tasks : task[t].event = Len(Work[t]) + 1
            BY <3>3 DEF PoolSafe, PlaceInv, Placed
        <3>5. ASSUME NEW s \in Slots PROVE s[2] < task[s[1]].event
            <4>1. s[1] \in Tasks /\ s[2] \in 1..Len(Work[s[1]]) /\ Len(Work[s[1]]) \in Nat
                BY SlotFacts, WorkFacts
            <4>2. QED BY <3>4, <4>1
        <3>6. CountedSlots = Slots
            BY <3>5 DEF CountedSlots, Counted
        <3>7. counter = Total
            BY <3>6 DEF PoolSafe, CountInv, CountedSlots, Total
        <3>8. ASSUME NEW t \in Tasks, NEW k \in Requested(t) PROVE k \in cache
            <4>1. PICK e \in DOMAIN Work[t] : k \in Range(Work[t][e])
                BY DEF Requested
            <4>2. PICK p \in DOMAIN Work[t][e] : k = Work[t][e][p]
                BY <4>1 DEF Range
            <4>3. <<t, e, p>> \in Slots
                BY DEF Slots
            <4>4. Rendered(<<t, e, p>>) /\ RequestOf(<<t, e, p>>) = k
                BY <3>5, <4>2, <4>3 DEF Rendered, RequestOf
            <4>5. QED BY <4>3, <4>4 DEF PoolSafe, CacheInv
        <3>9. QED BY <3>7, <3>8
    <2>2. ASSUME outcome \in Failures
          PROVE  next \in Tasks /\ task[next].pc = "raised" /\ task[next].exc = outcome
        BY <2>2 DEF PoolSafe, EndInv
    <2>3. ASSUME outcome = "paused" PROVE file \/ signalled
        BY <2>2, <2>3 DEF PoolSafe, EndInv, Failures
    <2>4. QED BY <2>1, <2>2, <2>3 DEF OutcomeExplained
<1>3. PoolSafe => EndSound
    BY <1>1, <1>2 DEF EndSound
<1>4. QED BY <1>3, RenderInvariants, PTL

\* An answer in the cache is not paid for again, unless two scenarios ask for it.
THEOREM PaidOnce == Spec => NothingPaidAgain
<1>1. PoolSafe /\ [Next]_vars =>
          [\A k \in cache : Cardinality({t \in Tasks : k \in Requested(t)}) = 1
                                => billed'[k] = billed[k]]_vars
    BY NothingPaidStep DEF PoolSafe
<1>2. QED BY <1>1, RenderInvariants, PTL DEF Spec, NothingPaidAgain
=============================================================================
