---------------------------- MODULE SchedulerProofs ----------------------------
(***************************************************************************)
(* What the scheduler keeps for every scenario, window, calendar and draw, *)
(* in a fresh world and in the course of a run of several scenarios.       *)
(***************************************************************************)
EXTENDS RunAssembly, CalendarProofs, SequenceTheorems

-----------------------------------------------------------------------------
(* The inductive invariant of types and times.                             *)

Executing == pc \in {"step", "effects", "comments"}

Placed == pc \in {"effects", "comments"}

ControlInv ==
    /\ scenario \in Scenarios /\ window \in Windows
    /\ pc \in {"idle", "settle", "step", "effects", "comments", "stopped", "done", "failed"}

\* What waits belongs to the scenario and lies ahead of the clock.
QueueInv ==
    /\ clock \in Nat
    /\ \A e \in queue : /\ e.at \in Nat /\ clock <= e.at
                        /\ ~e.tick => e.act \in DOMAIN scenario

BusyInv ==
    /\ busy = [p \in People |-> busy[p]]
    /\ \A p \in People : /\ IsFiniteSet(busy[p])
                         /\ \A b \in busy[p] : b.start \in Nat /\ b.end \in Nat

WorldInv ==
    /\ world = [born |-> world.born, props |-> world.props]
    /\ world.born \in [Items -> Nat \cup {None}]

RunFields == {"act", "inst", "at", "roles", "i", "ends", "evAt", "effect", "who", "n",
              "count", "posted"}

\* Who is commenting has not had a turn in this step.
FirstTurn == /\ run.who # 0
             /\ \A w \in 1..(run.who - 1) : Spreaders[w] # Spreaders[run.who]

\* The instance being executed is that of the item popped last; whatever of it
\* has a time is not before the clock.
RunInv ==
    Executing =>
        /\ run = [f \in RunFields |-> run[f]]
        /\ run.act \in DOMAIN scenario
        /\ run.at = clock
        /\ \A r \in DOMAIN scenario[run.act].roles :
               run.roles[r] \in scenario[run.act].roles[r]
        /\ run.i \in Nat \ {0} /\ (Placed => run.i <= Len(Steps))
        /\ \A x \in DOMAIN run.ends : run.ends[x] \in Nat /\ clock <= run.ends[x]
        /\ run.evAt \in Nat /\ clock <= run.evAt
        /\ Placed => IsWorking(run.evAt)
        /\ run.effect \in Nat \ {0}
        /\ pc = "effects" => run.who \in Nat /\ StepKnown
        /\ pc = "comments" => /\ run.n \in Nat /\ run.count \in Nat /\ run.n <= run.count
                              /\ run.who \in 0..Len(Spreaders)
                              /\ run.n < run.count => FirstTurn

StateInv == ControlInv /\ QueueInv /\ BusyInv /\ WorldInv /\ RunInv

-----------------------------------------------------------------------------
(* What a step of the instance looks like and when it happens.             *)

LEMMA ScenarioFacts ==
    ASSUME ControlInv, NEW a \in DOMAIN scenario
    PROVE  ActivationOK(scenario[a])
BY SchedulerAssumption DEF ControlInv

LEMMA StepFacts ==
    ASSUME ControlInv, RunInv, Executing, run.i <= Len(Steps)
    PROVE  /\ run.i \in DOMAIN Steps
           /\ StepOK(Step, scenario[run.act])
<1>1. ActivationOK(scenario[run.act])
    BY ScenarioFacts DEF RunInv
<1>2. run.i \in DOMAIN Steps
    BY <1>1 DEF RunInv, Steps, ActivationOK
<1>3. QED BY <1>1, <1>2 DEF ActivationOK, Steps, Step

\* Whoever acts in the step, or comments on it, is known.
LEMMA TeamFacts ==
    ASSUME ControlInv, RunInv, Executing, run.i <= Len(Steps)
    PROVE  Actors \in Seq(People) /\ Spreaders \in Seq(People)
<1>1. ActivationOK(scenario[run.act]) /\ StepOK(Step, scenario[run.act])
    BY ScenarioFacts, StepFacts DEF RunInv
<1>2. ASSUME NEW r \in DOMAIN scenario[run.act].roles
      PROVE  run.roles[r] \in Seq(People)
    BY <1>1, <1>2 DEF ActivationOK, RunInv
<1>3. <<>> \in Seq(People)
    OBVIOUS
<1>4. Actors \in Seq(People)
    BY <1>1, <1>2, <1>3 DEF StepOK, Actors
<1>5. Spreaders \in Seq(People)
    BY <1>1, <1>2, <1>3 DEF StepOK, Spreaders
<1>6. QED BY <1>4, <1>5

LEMMA SlotStartFacts ==
    ASSUME BusyInv, NEW p \in People, NEW earliest \in Nat, NEW slot \in Nat
    PROVE  /\ SlotStart(p, earliest, slot) \in Nat
           /\ earliest <= SlotStart(p, earliest, slot)
           /\ IsWorking(SlotStart(p, earliest, slot))
           /\ Placeable(slot) => FreeAt(SlotStart(p, earliest, slot), slot, busy[p])
<1>1. CASE Placeable(slot)
    <2> DEFINE s == NextFreeSlot(earliest, slot, busy[p])
    <2>1. s \in Nat /\ earliest <= s /\ FreeAt(s, slot, busy[p])
        BY <1>1, NextFreeSlotIsEarliest DEF BusyInv
    <2>2. IsWorking(s)
        BY <2>1 DEF FreeAt
    <2>3. SlotStart(p, earliest, slot) = s
        BY <1>1 DEF SlotStart
    <2>4. QED BY <2>1, <2>2, <2>3
<1>2. CASE ~Placeable(slot)
    <2>1. SlotStart(p, earliest, slot) = NextWorkingStart(earliest)
        BY <1>2 DEF SlotStart
    <2>2. QED BY <1>2, <2>1, NextWorkingStartIsNext
<1>3. QED BY <1>1, <1>2

LEMMA DayLengthNat == DayLength \in Nat
BY CalendarAssumption DEF DayLength

\* The anchor of a step is not before the clock.
LEMMA StepBaseFacts ==
    ASSUME ControlInv, QueueInv, RunInv, Executing, run.i <= Len(Steps), StepKnown
    PROVE  StepBase \in Nat /\ clock <= StepBase
<1>1. StepOK(Step, scenario[run.act])
    BY StepFacts
<1>2. Step.days \in Nat /\ Step.offset \in Nat /\ clock \in Nat /\ run.at = clock
    BY <1>1 DEF StepOK, QueueInv, RunInv
<1>3. Step.days * DayLength \in Nat
    BY <1>2, DayLengthNat
<1> DEFINE from == IF Step.after = None THEN Advance(run.at, Step.days * DayLength)
                   ELSE run.ends[Step.after]
<1>4. from \in Nat /\ clock <= from
    <2>1. CASE Step.after = None
        <3>1. /\ Advance(run.at, Step.days * DayLength) \in Nat
              /\ run.at <= Advance(run.at, Step.days * DayLength)
            BY <1>2, <1>3, AdvanceIsEnd
        <3>2. QED BY <2>1, <3>1, <1>2
    <2>2. CASE Step.after # None
        BY <2>2 DEF StepKnown, RunInv
    <2>3. QED BY <2>1, <2>2
<1>5. Advance(from, Step.offset) \in Nat /\ from <= Advance(from, Step.offset)
    <2> HIDE DEF from
    <2>1. QED BY <1>2, <1>4, AdvanceIsEnd
<1>6. QED
    <2>1. StepBase = Advance(from, Step.offset)
        BY DEF StepBase
    <2> HIDE DEF from
    <2>2. QED BY <1>2, <1>4, <1>5, <2>1

LEMMA EventTimeFacts ==
    ASSUME ControlInv, QueueInv, BusyInv, RunInv, Executing, run.i <= Len(Steps), StepKnown
    PROVE  EventTime \in Nat /\ clock <= EventTime /\ IsWorking(EventTime)
<1>1. StepBase \in Nat /\ clock <= StepBase /\ clock \in Nat
    BY StepBaseFacts DEF QueueInv
<1>2. Step.slot \in Nat
    BY StepFacts DEF StepOK
<1>3. CASE Actors = <<>>
    <2>1. /\ NextWorkingStart(StepBase) \in Nat /\ StepBase <= NextWorkingStart(StepBase)
          /\ IsWorking(NextWorkingStart(StepBase))
        BY <1>1, NextWorkingStartIsNext
    <2>2. QED BY <1>1, <1>3, <2>1 DEF EventTime
<1>4. CASE Actors # <<>>
    <2>1. Actors[1] \in People
        BY <1>4, TeamFacts
    <2> DEFINE s == SlotStart(Actors[1], StepBase, Step.slot)
    <2>2. s \in Nat /\ StepBase <= s /\ IsWorking(s)
        BY <1>1, <1>2, <2>1, SlotStartFacts
    <2>3. EventTime = s
        BY <1>4 DEF EventTime
    <2> HIDE DEF s
    <2>4. QED BY <1>1, <2>2, <2>3
<1>5. QED BY <1>3, <1>4

\* The end of a step is not before its event.
LEMMA StepEndFacts ==
    ASSUME ControlInv, QueueInv, RunInv, Placed
    PROVE  StepEnd \in Nat /\ clock <= StepEnd
<1>1. StepOK(Step, scenario[run.act])
    BY StepFacts DEF RunInv, Placed, Executing
<1> DEFINE h == IF Step.hours = None THEN Step.slot ELSE Step.hours
<1>2. h \in Nat
    BY <1>1 DEF StepOK
<1>3. run.evAt \in Nat /\ clock <= run.evAt /\ clock \in Nat
    BY DEF RunInv, QueueInv, Placed, Executing
<1>4. StepEnd = Advance(run.evAt, h)
    BY DEF StepEnd
<1> HIDE DEF h
<1>5. Advance(run.evAt, h) \in Nat /\ run.evAt <= Advance(run.evAt, h)
    BY <1>2, <1>3, AdvanceIsEnd
<1>6. QED BY <1>3, <1>4, <1>5

\* A draw falls no earlier than the event that is commented on.
LEMMA DrawFacts ==
    ASSUME ControlInv, RunInv, pc = "comments", NEW x \in Draws
    PROVE  Advance(run.evAt, x) \in Nat /\ run.evAt <= Advance(run.evAt, x)
<1>1. StepOK(Step, scenario[run.act])
    BY StepFacts DEF RunInv, Placed, Executing
<1>2. x \in Nat
    BY <1>1, DayLengthNat DEF StepOK, Draws
<1>3. run.evAt \in Nat
    BY DEF RunInv, Executing
<1>4. QED BY <1>2, <1>3, AdvanceIsEnd

\* A comment is not before the event it comments on.
LEMMA CommentFacts ==
    ASSUME ControlInv, QueueInv, BusyInv, RunInv, pc = "comments", run.n < run.count,
           NEW x \in Draws
    PROVE  LET p == Spreaders[run.who]
               at == SlotStart(p, Advance(run.evAt, x), CommentSlot) IN
           /\ p \in People /\ Advance(run.evAt, x) \in Nat /\ run.evAt <= Advance(run.evAt, x)
           /\ at \in Nat /\ run.evAt <= at /\ IsWorking(at)
<1> DEFINE p == Spreaders[run.who]
           earliest == Advance(run.evAt, x)
           at == SlotStart(p, earliest, CommentSlot)
<1>1. Spreaders \in Seq(People)
    BY TeamFacts DEF RunInv, Placed, Executing
<1>2. run.who \in 1..Len(Spreaders)
    BY DEF RunInv, FirstTurn, Executing
<1>3. p \in People
    BY <1>1, <1>2
<1>4. run.evAt \in Nat
    BY DEF RunInv, Executing
<1>5. earliest \in Nat /\ run.evAt <= earliest
    BY DrawFacts
<1>6. at \in Nat /\ earliest <= at /\ IsWorking(at)
    <2> HIDE DEF p, earliest
    <2>1. QED BY <1>3, <1>5, SlotStartFacts, SchedulerAssumption
<1>7. QED
    <2> HIDE DEF p, earliest, at
    <2>1. run.evAt <= at
        BY <1>4, <1>5, <1>6
    <2>2. QED BY <2>1, <1>3, <1>5, <1>6 DEF p, earliest, at

-----------------------------------------------------------------------------
(* Every step keeps the invariant, one part at a time.                     *)

LEMMA ControlStep == ControlInv /\ [Next]_vars => ControlInv'
<1> SUFFICES ASSUME ControlInv, [Next]_vars PROVE ControlInv'
    OBVIOUS
<1> USE DEF ControlInv
<1>1. CASE PopTick \/ PopFiring \/ Settle \/ TripCap \/ MaterializeCalendars
    BY <1>1 DEF PopTick, PopFiring, Settle, TripCap, MaterializeCalendars
<1>2. CASE FinishInstance \/ StepRaises \/ PlaceStep \/ BookActor \/ EmitStep
    BY <1>2 DEF FinishInstance, StepRaises, PlaceStep, BookActor, EmitStep
<1>3. CASE Create \/ Mutate \/ Milestone
    BY <1>3 DEF Create, Mutate, Milestone, AtEffect
<1>4. CASE NextCommenter \/ CommentsNoMore \/ SkipComment \/ PostComment \/ CommentRaises
           \/ EndStep
    BY <1>4 DEF NextCommenter, CommentsNoMore, SkipComment, PostComment, CommentRaises, EndStep,
                AtComments
<1>5. CASE UNCHANGED vars
    BY <1>5 DEF vars
<1>6. QED BY <1>1, <1>2, <1>3, <1>4, <1>5 DEF Next

\* What is enqueued lies at the instant of an event or later.
LEMMA EnqueueKeeps ==
    ASSUME NEW q, NEW F, Enqueue(q, F), clock \in Nat, scenario' = scenario, clock' = clock,
           \A e \in q : e.at \in Nat /\ clock <= e.at /\ (~e.tick => e.act \in DOMAIN scenario),
           \A f \in F : f.at \in Nat /\ clock <= f.at /\ f.act \in DOMAIN scenario
    PROVE  QueueInv'
BY DEF Enqueue, Fresh, Entry, QueueInv

LEMMA QueueStep == StateInv /\ [Next]_vars => QueueInv'
<1> SUFFICES ASSUME StateInv, [Next]_vars PROVE QueueInv'
    OBVIOUS
<1>1. CASE PopTick
    <2>1. PICK e \in Earliest : /\ e.tick /\ clock' = e.at
                                /\ FireConditions(queue \ {e}, Triggered(scenario, "condition"),
                                                  world, e.at)
        BY <1>1 DEF PopTick
    <2>2. e \in queue /\ e.at \in Nat
        BY DEF Earliest, StateInv, QueueInv
    <2>3. ASSUME NEW d \in queue PROVE d.at \in Nat /\ e.at <= d.at
        <3>1. ~(d.at < e.at) /\ d.at \in Nat
            BY DEF Earliest, Before, StateInv, QueueInv
        <3>2. QED BY <3>1, <2>2
    <2>4. scenario' = scenario
        BY <1>1 DEF PopTick
    <2> DEFINE due == {a \in Triggered(scenario, "condition") \ condFired :
                          Holds(scenario[a].trigger, world)}
               F == {CondFiring(a, e.at) : a \in due}
    <2>5. Enqueue(queue \ {e}, F)
        BY <2>1 DEF FireConditions
    <2>6. \A f \in F : f.at = e.at /\ f.act \in DOMAIN scenario
        BY DEF CondFiring, Firing, Triggered
    <2> HIDE DEF F
    <2>7. QED BY <2>1, <2>2, <2>3, <2>4, <2>5, <2>6
              DEF Enqueue, Fresh, Entry, QueueInv, StateInv
<1>2. CASE PopFiring
    <2>1. PICK e \in Earliest : ~e.tick /\ clock' = e.at /\ queue' = queue \ {e}
        BY <1>2 DEF PopFiring
    <2>2. ASSUME NEW d \in queue PROVE d.at \in Nat /\ e.at <= d.at
        <3>1. ~(d.at < e.at) /\ d.at \in Nat /\ e \in queue /\ e.at \in Nat
            BY DEF Earliest, Before, StateInv, QueueInv
        <3>2. QED BY <3>1
    <2>3. e.at \in Nat /\ scenario' = scenario
        BY <1>2 DEF Earliest, StateInv, QueueInv, PopFiring
    <2>4. QED BY <2>1, <2>2, <2>3 DEF StateInv, QueueInv
<1>3. CASE Settle \/ TripCap \/ MaterializeCalendars \/ FinishInstance \/ StepRaises \/ PlaceStep
           \/ BookActor
    BY <1>3 DEF Settle, TripCap, MaterializeCalendars, FinishInstance, StepRaises, PlaceStep,
                BookActor, StateInv, QueueInv
<1>4. CASE Create
    BY <1>4 DEF Create, AtEffect, StateInv, QueueInv
<1>5. CASE Mutate
    <2>1. clock' = clock /\ scenario' = scenario /\ run.evAt \in Nat /\ clock <= run.evAt
        BY <1>5 DEF Mutate, AtEffect, StateInv, RunInv, Executing
    <2> DEFINE A == {a \in Triggered(scenario, "condition") :
                        scenario[a].trigger.attr = Effect.attr}
               due == {a \in A \ condFired : Holds(scenario[a].trigger, world')}
               F == {CondFiring(a, run.evAt) : a \in due}
    <2>2. Enqueue(queue, F)
        BY <1>5 DEF Mutate, FireConditions
    <2>3. \A f \in F : f.at = run.evAt /\ f.act \in DOMAIN scenario
        BY DEF CondFiring, Firing, Triggered
    <2> HIDE DEF F
    <2>4. QED BY <2>1, <2>2, <2>3, EnqueueKeeps DEF StateInv, QueueInv
<1>6. CASE Milestone
    <2>1. clock' = clock /\ scenario' = scenario /\ run.evAt \in Nat /\ clock <= run.evAt
        BY <1>6 DEF Milestone, AtEffect, StateInv, RunInv, Executing
    <2> DEFINE F == {Firing(a, run.evAt, Instance(a, "ms", run.evAt, None, Effect.name)) :
                        a \in {b \in Triggered(scenario, "milestone") :
                                   scenario[b].trigger.name = Effect.name}}
    <2>2. Enqueue(queue, F)
        BY <1>6 DEF Milestone
    <2>3. \A f \in F : f.at = run.evAt /\ f.act \in DOMAIN scenario
        BY DEF Firing, Triggered
    <2> HIDE DEF F
    <2>4. QED BY <2>1, <2>2, <2>3, EnqueueKeeps DEF StateInv, QueueInv
<1>7. CASE EmitStep
    <2>1. clock' = clock /\ scenario' = scenario /\ run.evAt \in Nat /\ clock <= run.evAt
        BY <1>7 DEF EmitStep, StateInv, RunInv, Executing
    <2> DEFINE e == NewEvent(EventId(None, 0), Step.emits, run.evAt, StepParent)
    <2>2. Enqueue(queue, Reactions(e)) /\ e.at = run.evAt
        BY <1>7 DEF EmitStep, Emit, NewEvent
    <2> HIDE DEF e
    <2>3. \A f \in Reactions(e) : f.at = e.at /\ f.act \in DOMAIN scenario
        BY DEF Reactions, Firing, Reacting, Triggered
    <2>4. QED BY <2>1, <2>2, <2>3, EnqueueKeeps DEF StateInv, QueueInv
<1>8. CASE PostComment
    <2>1. PICK x, at, id, parent :
              /\ x \in Draws
              /\ at = SlotStart(Spreaders[run.who], Advance(run.evAt, x), CommentSlot)
              /\ Emit(NewEvent(id, Step.spread.emits, at, parent))
        BY <1>8 DEF PostComment
    <2>2. pc = "comments" /\ run.n < run.count /\ clock' = clock /\ scenario' = scenario
          /\ run.evAt \in Nat /\ clock <= run.evAt /\ clock \in Nat
        BY <1>8 DEF PostComment, AtComments, StateInv, RunInv, Executing, QueueInv
    <2>3. at \in Nat /\ run.evAt <= at
        BY <2>1, <2>2, CommentFacts DEF StateInv
    <2>4. clock <= at
        BY <2>2, <2>3
    <2> DEFINE e == NewEvent(id, Step.spread.emits, at, parent)
    <2>5. Enqueue(queue, Reactions(e)) /\ e.at = at
        BY <2>1 DEF Emit, NewEvent
    <2> HIDE DEF e
    <2>6. \A f \in Reactions(e) : f.at = e.at /\ f.act \in DOMAIN scenario
        BY DEF Reactions, Firing, Reacting, Triggered
    <2>7. QED BY <2>2, <2>3, <2>4, <2>5, <2>6, EnqueueKeeps DEF StateInv, QueueInv
<1>9. CASE NextCommenter \/ CommentsNoMore \/ SkipComment \/ CommentRaises \/ EndStep
    BY <1>9 DEF NextCommenter, CommentsNoMore, SkipComment, CommentRaises, EndStep, AtComments,
                StateInv, QueueInv
<1>10. CASE UNCHANGED vars
    BY <1>10 DEF vars, StateInv, QueueInv
<1>11. QED BY <1>1, <1>2, <1>3, <1>4, <1>5, <1>6, <1>7, <1>8, <1>9, <1>10 DEF Next

LEMMA BookKeeps ==
    ASSUME BusyInv, NEW q \in People, NEW earliest \in Nat, NEW slot \in Nat, NEW source,
           Book(q, earliest, slot, source)
    PROVE  BusyInv'
<1> SUFFICES ASSUME NEW p \in People
             PROVE  /\ IsFiniteSet(busy'[p])
                    /\ \A b \in busy'[p] : b.start \in Nat /\ b.end \in Nat
    BY DEF Book, BusyInv
<1> DEFINE start == SlotStart(p, earliest, slot)
           b == [start |-> start, end |-> start + slot, source |-> source]
<1>1. start \in Nat
    BY SlotStartFacts
<1>2. busy'[p] = IF p = q THEN busy[p] \cup {b} ELSE busy[p]
    BY DEF Book, BusyInv
<1> HIDE DEF start
<1>3. b.start \in Nat /\ b.end \in Nat
    BY <1>1
<1> HIDE DEF b
<1>4. IsFiniteSet(busy[p] \cup {b})
    BY FS_AddElement DEF BusyInv
<1>5. QED BY <1>2, <1>3, <1>4 DEF BusyInv

\* Whoever is booked is known, and for work that is not before the clock.
LEMMA BusyChange ==
    ASSUME StateInv, [Next]_vars
    PROVE  \/ UNCHANGED busy
           \/ \E p \in People, earliest \in Nat, slot \in Nat : \E source :
                  clock <= earliest /\ Book(p, earliest, slot, source)
<1>1. CASE BookActor
    <2>1. Book(Actors[run.who + 1], StepBase, Step.slot, EventId(None, 0))
        BY <1>1 DEF BookActor
    <2>2. Executing /\ run.i <= Len(Steps) /\ StepKnown /\ run.who \in Nat /\ run.who < Len(Actors)
        BY <1>1 DEF BookActor, StateInv, RunInv, Executing, Placed
    <2>3. Actors[run.who + 1] \in People
        <3>1. Actors \in Seq(People)
            BY <2>2, TeamFacts DEF StateInv
        <3>2. run.who + 1 \in 1..Len(Actors)
            BY <2>2, <3>1
        <3>3. QED BY <3>1, <3>2
    <2>4. StepBase \in Nat /\ clock <= StepBase /\ Step.slot \in Nat
        BY <2>2, StepBaseFacts, StepFacts DEF StateInv, StepOK
    <2>5. QED BY <2>1, <2>3, <2>4
<1>2. ASSUME pc = "comments", NEW x \in Draws
      PROVE  Advance(run.evAt, x) \in Nat /\ clock <= Advance(run.evAt, x)
    <2>1. Advance(run.evAt, x) \in Nat /\ run.evAt <= Advance(run.evAt, x)
        BY <1>2, DrawFacts DEF StateInv
    <2>2. run.evAt \in Nat /\ clock <= run.evAt /\ clock \in Nat
        BY <1>2 DEF StateInv, RunInv, QueueInv, Executing
    <2>3. QED BY <2>1, <2>2
<1>3. CASE PostComment
    <2>1. PICK x, id : /\ x \in Draws
                       /\ Book(Spreaders[run.who], Advance(run.evAt, x), CommentSlot, id)
        BY <1>3 DEF PostComment
    <2>2. pc = "comments" /\ run.n < run.count
        BY <1>3 DEF PostComment, AtComments
    <2>3. Spreaders[run.who] \in People
        BY <2>1, <2>2, CommentFacts DEF StateInv
    <2>4. QED BY <1>2, <2>1, <2>2, <2>3, SchedulerAssumption
<1>4. CASE CommentRaises
    <2>1. PICK c \in Own, x \in Draws :
              Book(c.id.person, Advance(run.evAt, x), CommentSlot, c.id)
        BY <1>4 DEF CommentRaises
    <2>2. pc = "comments" /\ run.who < Len(Spreaders)
        BY <1>4 DEF CommentRaises, AtComments, ComesAgain
    <2>3. Spreaders \in Seq(People) /\ run.who \in 0..Len(Spreaders)
        BY <2>2, TeamFacts DEF StateInv, RunInv, Executing, Placed
    <2>4. run.who + 1 \in 1..Len(Spreaders)
        BY <2>2, <2>3
    <2>5. c.id.person \in People
        BY <2>3, <2>4 DEF Own
    <2>6. QED BY <1>2, <2>1, <2>2, <2>5, SchedulerAssumption
<1>5. QED
    BY <1>1, <1>3, <1>4 DEF Next, PopTick, PopFiring, Settle, TripCap, MaterializeCalendars,
       FinishInstance, StepRaises, PlaceStep, Create, Mutate, Milestone, AtEffect, EmitStep,
       NextCommenter, CommentsNoMore, SkipComment, EndStep, vars

LEMMA BusyStep == StateInv /\ [Next]_vars => BusyInv'
<1> SUFFICES ASSUME StateInv, [Next]_vars PROVE BusyInv'
    OBVIOUS
<1>1. CASE UNCHANGED busy
    BY <1>1 DEF StateInv, BusyInv
<1>2. QED BY <1>1, BusyChange, BookKeeps DEF StateInv

LEMMA WorldStep == StateInv /\ [Next]_vars => WorldInv'
<1> SUFFICES ASSUME StateInv, [Next]_vars PROVE WorldInv'
    OBVIOUS
<1>1. CASE Create
    <2>1. run.evAt \in Nat
        BY <1>1 DEF Create, AtEffect, StateInv, RunInv, Executing
    <2>2. CASE world' = [world EXCEPT !.born[Effect.target] = run.evAt,
                                      !.props[Effect.target] = Effect.props]
        <3>1. /\ world' = [born |-> world'.born, props |-> world'.props]
              /\ world'.born = [world.born EXCEPT ![Effect.target] = run.evAt]
            BY <2>2 DEF StateInv, WorldInv
        <3>2. QED BY <2>1, <3>1 DEF StateInv, WorldInv
    <2>3. QED BY <1>1, <2>2 DEF Create, StateInv, WorldInv
<1>2. CASE Mutate
    BY <1>2 DEF Mutate, StateInv, WorldInv
<1>3. CASE UNCHANGED world
    BY <1>3 DEF StateInv, WorldInv
<1>4. QED
    BY <1>1, <1>2, <1>3 DEF Next, PopTick, PopFiring, Settle, TripCap, MaterializeCalendars,
       FinishInstance, StepRaises, PlaceStep, BookActor, Milestone, EmitStep, NextCommenter,
       CommentsNoMore, SkipComment, PostComment, CommentRaises, EndStep, AtComments, vars

LEMMA RunStep == StateInv /\ [Next]_vars => RunInv'
<1> SUFFICES ASSUME StateInv, [Next]_vars PROVE RunInv'
    OBVIOUS
<1>1. CASE PopFiring
    <2>1. PICK e, roles :
              /\ e \in Earliest
              /\ ~e.tick /\ clock' = e.at /\ DOMAIN roles = DOMAIN scenario[e.act].roles
              /\ \A r \in DOMAIN roles : roles[r] \in scenario[e.act].roles[r]
              /\ run' = [act |-> e.act, inst |-> e.inst, at |-> e.at, roles |-> roles,
                         i |-> 1, ends |-> <<>>, evAt |-> e.at, effect |-> 1,
                         who |-> 0, n |-> 0, count |-> 0, posted |-> {}]
        BY <1>1 DEF PopFiring
    <2>2. e.at \in Nat /\ e.act \in DOMAIN scenario
        BY <2>1 DEF Earliest, StateInv, QueueInv
    <2>3. pc' = "step" /\ scenario' = scenario
        BY <1>1 DEF PopFiring
    <2>4. run' = [f \in RunFields |-> run'[f]]
        BY <2>1 DEF RunFields
    <2>5. DOMAIN run'.ends = {}
        BY <2>1
    <2>6. QED BY <2>1, <2>2, <2>3, <2>4, <2>5 DEF RunInv, Placed
<1>2. CASE PlaceStep
    <2>1. Executing /\ run.i <= Len(Steps) /\ StepKnown /\ pc' = "effects"
          /\ clock' = clock /\ scenario' = scenario
          /\ run' = [run EXCEPT !.effect = 1, !.evAt = EventTime, !.who = 0]
        BY <1>2 DEF PlaceStep, Executing
    <2>2. EventTime \in Nat /\ clock <= EventTime /\ IsWorking(EventTime)
        BY <2>1, EventTimeFacts DEF StateInv
    <2>3. /\ run' = [f \in RunFields |-> run'[f]]
          /\ run'.act = run.act /\ run'.inst = run.inst /\ run'.at = run.at
          /\ run'.roles = run.roles /\ run'.i = run.i /\ run'.ends = run.ends
          /\ run'.who = 0 /\ run'.n = run.n /\ run'.count = run.count
          /\ run'.posted = run.posted /\ run'.effect = 1 /\ run'.evAt = EventTime
        BY <2>1 DEF StateInv, RunInv, RunFields, Executing
    <2>4. Steps' = Steps /\ StepKnown'
        BY <2>1, <2>3 DEF Steps, Step, StepKnown
    <2>5. QED BY <2>1, <2>2, <2>3, <2>4 DEF StateInv, RunInv, Placed
<1>3. CASE Create \/ Mutate \/ Milestone
    <2>1. pc = "effects" /\ pc' = pc /\ clock' = clock /\ scenario' = scenario
          /\ run' = [run EXCEPT !.effect = @ + 1]
        BY <1>3 DEF Create, Mutate, Milestone, AtEffect
    <2>2. Steps' = Steps /\ StepKnown' = StepKnown
        BY <2>1 DEF Steps, Step, StepKnown, StateInv, RunInv, RunFields, Executing
    <2>3. QED BY <2>1, <2>2 DEF StateInv, RunInv, Placed, Executing, RunFields
<1>4. CASE EmitStep
    <2>1. pc = "effects" /\ pc' = "comments" /\ clock' = clock /\ scenario' = scenario
          /\ run' = [run EXCEPT !.who = 0, !.n = 0, !.count = 0, !.posted = {}]
        BY <1>4 DEF EmitStep
    <2>2. Steps' = Steps /\ Spreaders' = Spreaders
        BY <2>1 DEF Steps, Step, Spreaders, StateInv, RunInv, RunFields, Executing
    <2>3. Len(Spreaders) \in Nat
        BY <2>1, TeamFacts DEF StateInv, RunInv, Placed, Executing
    <2>4. /\ run' = [f \in RunFields |-> run'[f]]
          /\ run'.act = run.act /\ run'.inst = run.inst /\ run'.at = run.at
          /\ run'.roles = run.roles /\ run'.i = run.i /\ run'.ends = run.ends
          /\ run'.evAt = run.evAt /\ run'.effect = run.effect /\ run'.who = 0 /\ run'.n = 0
          /\ run'.count = 0 /\ run'.posted = {}
        BY <2>1 DEF StateInv, RunInv, RunFields, Executing
    <2>5. QED BY <2>1, <2>2, <2>3, <2>4 DEF StateInv, RunInv, Placed, Executing
<1>5. CASE NextCommenter
    <2>1. PICK k \in Step.spread.lo..Step.spread.hi :
              run' = [run EXCEPT !.who = @ + 1, !.n = 0, !.count = k]
        BY <1>5 DEF NextCommenter
    <2>2. pc = "comments" /\ pc' = pc /\ clock' = clock /\ scenario' = scenario
          /\ run.who < Len(Spreaders)
          /\ \A w \in 1..run.who : Spreaders[w] # Spreaders[run.who + 1]
        BY <1>5 DEF NextCommenter, AtComments, ComesNew
    <2>3. Steps' = Steps /\ Spreaders' = Spreaders
        BY <2>1, <2>2 DEF Steps, Step, Spreaders, StateInv, RunInv, RunFields, Executing
    <2>4. StepOK(Step, scenario[run.act]) /\ Spreaders \in Seq(People)
        BY <2>2, StepFacts, TeamFacts DEF StateInv, RunInv, Placed, Executing
    <2>5. Step.spread # None
        <3>1. run.who \in Nat
            BY <2>2 DEF StateInv, RunInv, Executing
        <3>2. QED BY <2>2, <3>1 DEF Spreaders
    <2>6. k \in Nat
        BY <2>4, <2>5 DEF StepOK
    <2>7. run.who + 1 \in 0..Len(Spreaders) /\ run.who + 1 # 0
        BY <2>2, <2>4 DEF StateInv, RunInv, Executing
    <2>8. /\ run' = [f \in RunFields |-> run'[f]]
          /\ run'.act = run.act /\ run'.inst = run.inst /\ run'.at = run.at
          /\ run'.roles = run.roles /\ run'.i = run.i /\ run'.ends = run.ends
          /\ run'.evAt = run.evAt /\ run'.effect = run.effect /\ run'.posted = run.posted
          /\ run'.who = run.who + 1 /\ run'.n = 0 /\ run'.count = k
        BY <2>1, <2>2 DEF StateInv, RunInv, RunFields, Executing
    <2>9. FirstTurn'
        <3>1. run'.who - 1 = run.who
            BY <2>2, <2>7, <2>8 DEF StateInv, RunInv, Executing
        <3>2. QED BY <2>2, <2>3, <2>7, <2>8, <3>1 DEF FirstTurn
    <2>10. QED BY <2>2, <2>3, <2>6, <2>7, <2>8, <2>9 DEF StateInv, RunInv, Placed, Executing
<1>6. CASE SkipComment \/ PostComment
    <2>1. PICK posted : run' = [run EXCEPT !.n = @ + 1, !.posted = posted]
        <3>1. CASE SkipComment
            <4>1. run' = [run EXCEPT !.n = @ + 1, !.posted = run.posted]
                BY <3>1 DEF SkipComment, AtComments, StateInv, RunInv, RunFields, Executing
            <4>2. QED BY <4>1
        <3>2. CASE PostComment
            BY <3>2 DEF PostComment
        <3>3. QED BY <1>6, <3>1, <3>2
    <2>2. pc = "comments" /\ pc' = pc /\ clock' = clock /\ scenario' = scenario
          /\ run.n < run.count
        BY <1>6 DEF SkipComment, PostComment, AtComments
    <2>3. Steps' = Steps /\ Spreaders' = Spreaders
        BY <2>1, <2>2 DEF Steps, Step, Spreaders, StateInv, RunInv, RunFields, Executing
    <2>4. /\ run' = [f \in RunFields |-> run'[f]]
          /\ run'.act = run.act /\ run'.inst = run.inst /\ run'.at = run.at
          /\ run'.roles = run.roles /\ run'.i = run.i /\ run'.ends = run.ends
          /\ run'.evAt = run.evAt /\ run'.effect = run.effect /\ run'.who = run.who
          /\ run'.count = run.count /\ run'.n = run.n + 1
        BY <2>1, <2>2 DEF StateInv, RunInv, RunFields, Executing
    <2>5. FirstTurn' = FirstTurn
        BY <2>3, <2>4 DEF FirstTurn
    <2>6. QED BY <2>2, <2>3, <2>4, <2>5 DEF StateInv, RunInv, Placed, Executing
<1>7. CASE EndStep
    <2> DEFINE ends == [x \in DOMAIN run.ends \cup {Step.id} |->
                           IF x = Step.id THEN StepEnd ELSE run.ends[x]]
    <2>1. pc = "comments" /\ pc' = "step" /\ clock' = clock /\ scenario' = scenario
          /\ run' = [run EXCEPT !.ends = ends, !.i = @ + 1]
        BY <1>7 DEF EndStep, AtComments
    <2>2. StepEnd \in Nat /\ clock <= StepEnd
        BY <2>1, StepEndFacts DEF StateInv, Placed
    <2>3. \A x \in DOMAIN ends : ends[x] \in Nat /\ clock <= ends[x]
        BY <2>1, <2>2 DEF StateInv, RunInv, Executing
    <2> HIDE DEF ends
    <2>4. /\ run' = [f \in RunFields |-> run'[f]]
          /\ run'.act = run.act /\ run'.inst = run.inst /\ run'.at = run.at
          /\ run'.roles = run.roles /\ run'.evAt = run.evAt /\ run'.effect = run.effect
          /\ run'.who = run.who /\ run'.n = run.n /\ run'.count = run.count
          /\ run'.posted = run.posted /\ run'.ends = ends /\ run'.i = run.i + 1
        BY <2>1 DEF StateInv, RunInv, RunFields, Executing
    <2>5. QED BY <2>1, <2>3, <2>4 DEF StateInv, RunInv, Placed, Executing
<1>8. CASE PopTick \/ Settle \/ TripCap \/ MaterializeCalendars \/ FinishInstance \/ StepRaises
           \/ CommentRaises
    BY <1>8 DEF PopTick, Settle, TripCap, MaterializeCalendars, FinishInstance, StepRaises,
       CommentRaises, RunInv, Executing
<1>9. CASE UNCHANGED vars
    BY <1>9 DEF vars, StateInv, RunInv, Executing, Placed, Steps, Step, Spreaders, StepKnown,
       FirstTurn
<1>10. CASE BookActor
    <2>1. pc = "effects" /\ pc' = pc /\ clock' = clock /\ scenario' = scenario
          /\ run' = [run EXCEPT !.who = @ + 1]
        BY <1>10 DEF BookActor
    <2>2. Steps' = Steps /\ StepKnown' = StepKnown
        BY <2>1 DEF Steps, Step, StepKnown, StateInv, RunInv, RunFields, Executing
    <2>3. QED BY <2>1, <2>2 DEF StateInv, RunInv, Placed, Executing, RunFields
<1>11. CASE CommentsNoMore
    <2>1. pc = "comments" /\ pc' = pc /\ clock' = clock /\ scenario' = scenario
          /\ run.who < Len(Spreaders) /\ run' = [run EXCEPT !.who = @ + 1, !.n = 0, !.count = 0]
        BY <1>11 DEF CommentsNoMore, AtComments, ComesAgain
    <2>2. Steps' = Steps /\ Spreaders' = Spreaders
        BY <2>1 DEF Steps, Step, Spreaders, StateInv, RunInv, RunFields, Executing
    <2>3. run.who + 1 \in 0..Len(Spreaders)
        BY <2>1, TeamFacts DEF StateInv, RunInv, Placed, Executing
    <2>4. /\ run' = [f \in RunFields |-> run'[f]]
          /\ run'.act = run.act /\ run'.inst = run.inst /\ run'.at = run.at
          /\ run'.roles = run.roles /\ run'.i = run.i /\ run'.ends = run.ends
          /\ run'.evAt = run.evAt /\ run'.effect = run.effect /\ run'.posted = run.posted
          /\ run'.who = run.who + 1 /\ run'.n = 0 /\ run'.count = 0
        BY <2>1 DEF StateInv, RunInv, RunFields, Executing
    <2>5. QED BY <2>1, <2>2, <2>3, <2>4 DEF StateInv, RunInv, Placed, Executing
<1>12. QED BY <1>1, <1>2, <1>3, <1>4, <1>5, <1>6, <1>7, <1>8, <1>9, <1>10, <1>11 DEF Next

-----------------------------------------------------------------------------
(* The seeds.                                                              *)

LEMMA WindowFacts ==
    ASSUME NEW w \in Windows
    PROVE  /\ w.start \in Nat /\ w.end \in Nat /\ Day(w.start) \in Nat
           /\ \A d \in Day(w.start)..Day(w.end) : WindowStart(d) \in Nat
<1>1. w.start \in Nat /\ w.end \in Nat
    BY SchedulerAssumption
<1>2. Day(w.start) \in Nat /\ Day(w.end) \in Nat
    BY <1>1, DayBounds
<1>3. ASSUME NEW d \in Day(w.start)..Day(w.end) PROVE WindowStart(d) \in Nat
    <2>1. d \in Nat
        BY <1>2
    <2>2. QED BY <2>1, WindowBounds
<1>4. QED BY <1>1, <1>2, <1>3

LEMMA CadenceFacts ==
    ASSUME NEW rule, NEW w \in Windows, NEW t \in CadenceFirings(rule, w)
    PROVE  t \in Nat /\ w.start <= t
<1>1. CASE rule.every = None
    BY <1>1, WindowFacts DEF CadenceFirings
<1>2. CASE rule.every # None
    <2>1. PICK c \in w.start..w.end : t = NextWorkingStart(c)
        BY <1>2 DEF CadenceFirings
    <2>2. c \in Nat /\ w.start <= c /\ w.start \in Nat
        BY WindowFacts
    <2>3. NextWorkingStart(c) \in Nat /\ c <= NextWorkingStart(c)
        BY <2>2, NextWorkingStartIsNext
    <2>4. QED BY <2>1, <2>2, <2>3
<1>3. QED BY <1>1, <1>2

LEMMA ArrivalFacts ==
    ASSUME NEW arrivals \in ArrivalSets, NEW w \in Windows,
           NEW t \in ProbabilisticFirings(arrivals, w)
    PROVE  t \in Nat /\ w.start <= t
<1>1. PICK u \in arrivals : w.start < u /\ t = NextWorkingStart(u)
    BY DEF ProbabilisticFirings
<1>2. u \in Nat /\ w.start \in Nat
    BY SchedulerAssumption
<1>3. NextWorkingStart(u) \in Nat /\ u <= NextWorkingStart(u)
    BY <1>2, NextWorkingStartIsNext
<1>4. QED BY <1>1, <1>2, <1>3

\* A seed fires within the window; its instance tells its activation and, if it
\* recurs, its instant.
LEMMA SeedFacts ==
    ASSUME NEW s \in Scenarios, NEW w \in Windows,
           NEW arrivals \in [Triggered(s, "probabilistic") -> ArrivalSets],
           NEW f \in SeedFirings(s, w, arrivals)
    PROVE  /\ f.at \in Nat /\ w.start <= f.at /\ f.act \in DOMAIN s
           /\ f = Firing(f.act, f.at, f.inst)
           /\ \/ /\ f.inst = Instance(f.act, "start", None, None, None)
                 /\ f.at = NextWorkingStart(w.start)
              \/ f.inst = Instance(f.act, "at", f.at, None, None)
<1>1. CASE \E a \in Triggered(s, "start") :
             f = Firing(a, NextWorkingStart(w.start), Instance(a, "start", None, None, None))
    <2>1. PICK a \in Triggered(s, "start") :
             f = Firing(a, NextWorkingStart(w.start), Instance(a, "start", None, None, None))
        BY <1>1
    <2>2. NextWorkingStart(w.start) \in Nat /\ w.start <= NextWorkingStart(w.start)
        BY WindowFacts, NextWorkingStartIsNext
    <2>3. f.act = a /\ f.at = NextWorkingStart(w.start) /\ a \in DOMAIN s
          /\ f.inst = Instance(a, "start", None, None, None)
        BY <2>1 DEF Firing, Triggered
    <2>4. QED BY <2>1, <2>2, <2>3
<1>2. CASE \E a \in DOMAIN s, t \in Nat :
             w.start <= t /\ f = Firing(a, t, Instance(a, "at", t, None, None))
    <2>1. PICK a \in DOMAIN s, t \in Nat :
             w.start <= t /\ f = Firing(a, t, Instance(a, "at", t, None, None))
        BY <1>2
    <2>2. f.act = a /\ f.at = t /\ f.inst = Instance(a, "at", t, None, None)
        BY <2>1 DEF Firing
    <2>3. QED BY <2>1, <2>2
<1>3. ASSUME NEW a \in Triggered(s, "cadence"), NEW t \in CadenceFirings(s[a].trigger, w)
      PROVE  a \in DOMAIN s /\ t \in Nat /\ w.start <= t
    BY CadenceFacts DEF Triggered
<1>4. ASSUME NEW a \in Triggered(s, "probabilistic"),
             NEW t \in ProbabilisticFirings(arrivals[a], w)
      PROVE  a \in DOMAIN s /\ t \in Nat /\ w.start <= t
    BY ArrivalFacts DEF Triggered
<1> DEFINE A == {Firing(a, NextWorkingStart(w.start), Instance(a, "start", None, None, None)) :
                     a \in Triggered(s, "start")}
           B(a) == {Firing(a, t, Instance(a, "at", t, None, None)) :
                        t \in CadenceFirings(s[a].trigger, w)}
           C(a) == {Firing(a, t, Instance(a, "at", t, None, None)) :
                        t \in ProbabilisticFirings(arrivals[a], w)}
<1>5. SeedFirings(s, w, arrivals) = A \cup (UNION {B(a) : a \in Triggered(s, "cadence")})
                                     \cup (UNION {C(a) : a \in Triggered(s, "probabilistic")})
    BY Zenon DEF SeedFirings
<1> HIDE DEF A, B, C
<1>6. \/ f \in A
      \/ \E a \in Triggered(s, "cadence") : f \in B(a)
      \/ \E a \in Triggered(s, "probabilistic") : f \in C(a)
    BY <1>5
<1>7. CASE f \in A
    BY <1>1, <1>7 DEF A
<1>8. CASE \E a \in Triggered(s, "cadence") : f \in B(a)
    <2>1. PICK a \in Triggered(s, "cadence") : f \in B(a)
        BY <1>8
    <2>2. PICK t \in CadenceFirings(s[a].trigger, w) :
              f = Firing(a, t, Instance(a, "at", t, None, None))
        BY <2>1 DEF B
    <2>3. QED BY <1>2, <1>3, <2>1, <2>2
<1>9. CASE \E a \in Triggered(s, "probabilistic") : f \in C(a)
    <2>1. PICK a \in Triggered(s, "probabilistic") : f \in C(a)
        BY <1>9
    <2>2. PICK t \in ProbabilisticFirings(arrivals[a], w) :
              f = Firing(a, t, Instance(a, "at", t, None, None))
        BY <2>1 DEF C
    <2>3. QED BY <1>2, <1>4, <2>1, <2>2
<1>10. QED BY <1>6, <1>7, <1>8, <1>9

\* A scenario starts: nothing has happened but in the world, and the seeds wait.
Started ==
    /\ scenario \in Scenarios /\ window \in Windows
    /\ \E arrivals \in [Triggered(scenario, "probabilistic") -> ArrivalSets] :
           LET seeds == {f \in SeedFirings(scenario, window, arrivals) : f.at <= window.end}
           IN  /\ queue = {Entry(scenario, f) : f \in seeds}
                          \cup {TickEntry(t) : t \in ConditionTicks(scenario, window)}
               /\ scheduled = {f.inst : f \in seeds}
    /\ clock = window.start
    /\ journal = <<>>
    /\ busy = [p \in People |-> {}]
    /\ fired = {} /\ condFired = {} /\ issues = {} /\ calendar = {}
    /\ pc = "idle"

LEMMA InitStarts == Init => Started
BY Zenon DEF Init, Started

LEMMA StateStarts == Started /\ WorldInv => StateInv
<1> SUFFICES ASSUME Started, WorldInv PROVE StateInv
    OBVIOUS
<1>1. ControlInv
    BY DEF Started, ControlInv
<1>2. QueueInv
    <2>1. PICK arrivals \in [Triggered(scenario, "probabilistic") -> ArrivalSets] :
              queue = {Entry(scenario, f) :
                           f \in {g \in SeedFirings(scenario, window, arrivals) :
                                      g.at <= window.end}}
                      \cup {TickEntry(t) : t \in ConditionTicks(scenario, window)}
        BY DEF Started
    <2>2. clock = window.start /\ clock \in Nat
        BY <1>1, WindowFacts DEF Started, ControlInv
    <2>3. ASSUME NEW f \in SeedFirings(scenario, window, arrivals)
          PROVE  LET e == Entry(scenario, f) IN
                     e.at \in Nat /\ clock <= e.at /\ e.act \in DOMAIN scenario
        BY <1>1, <2>2, SeedFacts DEF Entry, ControlInv
    <2>4. ASSUME NEW t \in ConditionTicks(scenario, window)
          PROVE  LET e == TickEntry(t) IN e.at \in Nat /\ clock <= e.at /\ e.tick
        BY <1>1, <2>2, WindowFacts DEF ConditionTicks, TickEntry, ControlInv
    <2>5. QED BY <2>1, <2>2, <2>3, <2>4 DEF QueueInv
<1>3. BusyInv
    BY FS_EmptySet DEF Started, BusyInv
<1>4. WorldInv
    OBVIOUS
<1>5. RunInv
    BY DEF Started, RunInv, Executing
<1>6. QED BY <1>1, <1>2, <1>3, <1>4, <1>5 DEF StateInv

LEMMA StateInit == Init => StateInv
<1>1. Init => WorldInv
    BY SchedulerAssumption DEF Init, WorldInv
<1>2. QED BY <1>1, InitStarts, StateStarts

LEMMA StateStep == StateInv /\ [Next]_vars => StateInv'
BY ControlStep, QueueStep, BusyStep, WorldStep, RunStep DEF StateInv

\* The scheduler always is in a state of the declared types: whatever it computes
\* with the calendar is an instant.
THEOREM SchedulerTypeOK == Spec => []TypeOK
<1>1. StateInv => TypeOK
    BY DEF StateInv, ControlInv, QueueInv, BusyInv, WorldInv, RunInv, Executing, TypeOK
<1>2. QED BY StateInit, StateStep, <1>1, PTL DEF Spec

\* Nothing is ever enqueued at an instant the clock has passed: Clock.advance_to
\* does not raise, for any scenario.
THEOREM SchedulerQueueAhead == Spec => []QueueAhead
<1>1. StateInv => QueueAhead
    BY DEF StateInv, QueueInv, QueueAhead
<1>2. QED BY StateInit, StateStep, <1>1, PTL DEF Spec

-----------------------------------------------------------------------------
(***************************************************************************)
(* What the scheduler promises of its journal, its bookings and its queue. *)
(* Each property has an invariant of its own, kept by every step from a    *)
(* state of StateInv.                                                      *)
(***************************************************************************)

-----------------------------------------------------------------------------
(* What a step may do to the queue.                                        *)

\* Firings that are told apart by their instances, which name their activations.
Told(F) == /\ \A f, g \in F : f.inst = g.inst => f = g
           /\ \A f \in F : f.act = f.inst.act

\* Firings of one instant whose instances name their activations are.
LEMMA OneInstant ==
    ASSUME NEW F, NEW t, \A f \in F : f = Firing(f.inst.act, t, f.inst)
    PROVE  Told(F)
<1>1. \A f \in F : f.act = f.inst.act
    BY DEF Firing
<1>2. QED BY <1>1 DEF Told

PopsTick(q) == \E e \in queue : e.tick /\ q = queue \ {e}

Enqueues == \E q, F : /\ Enqueue(q, F) /\ Told(F)
                      /\ q = queue \/ PopsTick(q)
                      /\ fired' = fired

Starts == \E e \in queue : /\ ~e.tick /\ e.inst \notin fired
                           /\ queue' = queue \ {e}
                           /\ fired' = fired \cup {e.inst} /\ scheduled' = scheduled
                           /\ pc' = "step" /\ run'.inst = e.inst /\ run'.act = e.act
                           /\ run'.i = 1 /\ run'.ends = <<>>

LEMMA PopStarts ==
    ASSUME PopFiring
    PROVE  Starts
<1>1. PICK e \in Earliest :
          /\ ~e.tick /\ e.inst \notin fired
          /\ queue' = queue \ {e} /\ fired' = fired \cup {e.inst}
          /\ \E roles : run' = [act |-> e.act, inst |-> e.inst, at |-> e.at, roles |-> roles,
                               i |-> 1, ends |-> <<>>, evAt |-> e.at, effect |-> 1,
                               who |-> 0, n |-> 0, count |-> 0, posted |-> {}]
    BY DEF PopFiring
<1>2. e \in queue /\ run'.inst = e.inst /\ run'.act = e.act
      /\ run'.i = 1 /\ run'.ends = <<>>
    BY <1>1 DEF Earliest
<1>3. scheduled' = scheduled /\ pc' = "step"
    BY DEF PopFiring
<1>4. QED BY <1>1, <1>2, <1>3 DEF Starts

LEMMA QueueChange ==
    ASSUME StateInv, [Next]_vars
    PROVE  UNCHANGED <<queue, scheduled, fired>> \/ Enqueues \/ (PopFiring /\ Starts)
<1>1. CASE PopTick
    <2>1. PICK e \in Earliest : /\ e.tick
                                /\ FireConditions(queue \ {e}, Triggered(scenario, "condition"),
                                                  world, e.at)
        BY <1>1 DEF PopTick
    <2> DEFINE due == {a \in Triggered(scenario, "condition") \ condFired :
                          Holds(scenario[a].trigger, world)}
               F == {CondFiring(a, e.at) : a \in due}
    <2>2. Enqueue(queue \ {e}, F)
        BY <2>1 DEF FireConditions
    <2>3. \A f \in F : f = Firing(f.inst.act, e.at, f.inst)
        BY DEF CondFiring, Firing, Instance
    <2> HIDE DEF F
    <2>4. Told(F)
        BY <2>3, OneInstant
    <2>5. PopsTick(queue \ {e}) /\ fired' = fired
        BY <1>1, <2>1 DEF PopsTick, Earliest, PopTick
    <2>6. QED BY <2>2, <2>4, <2>5 DEF Enqueues
<1>2. CASE PopFiring
    BY <1>2, PopStarts
<1>3. CASE Mutate
    <2> DEFINE A == {a \in Triggered(scenario, "condition") :
                        scenario[a].trigger.attr = Effect.attr}
               due == {a \in A \ condFired : Holds(scenario[a].trigger, world')}
               F == {CondFiring(a, run.evAt) : a \in due}
    <2>1. Enqueue(queue, F)
        BY <1>3 DEF Mutate, FireConditions
    <2>2. \A f \in F : f = Firing(f.inst.act, run.evAt, f.inst)
        BY DEF CondFiring, Firing, Instance
    <2> HIDE DEF F
    <2>3. fired' = fired
        BY <1>3 DEF Mutate, AtEffect
    <2>4. QED BY <2>1, <2>2, <2>3, OneInstant DEF Enqueues
<1>4. CASE Milestone
    <2> DEFINE F == {Firing(a, run.evAt, Instance(a, "ms", run.evAt, None, Effect.name)) :
                        a \in {b \in Triggered(scenario, "milestone") :
                                   scenario[b].trigger.name = Effect.name}}
    <2>1. Enqueue(queue, F)
        BY <1>4 DEF Milestone
    <2>2. \A f \in F : f = Firing(f.inst.act, run.evAt, f.inst)
        BY DEF Firing, Instance
    <2> HIDE DEF F
    <2>3. fired' = fired
        BY <1>4 DEF Milestone, AtEffect
    <2>4. QED BY <2>1, <2>2, <2>3, OneInstant DEF Enqueues
<1>5. CASE EmitStep \/ PostComment
    <2>1. PICK e : Emit(e)
        BY <1>5 DEF EmitStep, PostComment
    <2>2. Enqueue(queue, Reactions(e))
        BY <2>1 DEF Emit
    <2>3. \A f \in Reactions(e) : f = Firing(f.inst.act, e.at, f.inst)
        BY DEF Reactions, Firing, Instance
    <2>4. fired' = fired
        BY <1>5 DEF EmitStep, PostComment, AtComments
    <2>5. QED BY <2>2, <2>3, <2>4, OneInstant DEF Enqueues
<1>6. CASE UNCHANGED <<queue, scheduled, fired>>
    BY <1>6
<1>7. QED
    BY <1>1, <1>2, <1>3, <1>4, <1>5, <1>6 DEF Next, Settle, TripCap, MaterializeCalendars,
       FinishInstance, StepRaises, PlaceStep, BookActor, Create, AtEffect, NextCommenter,
       CommentsNoMore, SkipComment, CommentRaises, EndStep, AtComments, vars

-----------------------------------------------------------------------------
(* What is scheduled either waits, once, or has run.                       *)

WaitingInv ==
    /\ \A e \in queue : ~e.tick => e.inst \in scheduled \ fired
    /\ \A e, f \in queue : ~e.tick /\ ~f.tick /\ e.inst = f.inst => e = f
    /\ \A x \in scheduled : x \in fired \/ \E e \in queue : ~e.tick /\ e.inst = x
    /\ fired \subseteq scheduled
    /\ \A e \in queue : ~e.tick => e.inst.act = e.act

LEMMA WaitingInit == Started => WaitingInv
<1> SUFFICES ASSUME Started PROVE WaitingInv
    OBVIOUS
<1>1. PICK arrivals \in [Triggered(scenario, "probabilistic") -> ArrivalSets] :
          LET seeds == {f \in SeedFirings(scenario, window, arrivals) : f.at <= window.end}
          IN  /\ queue = {Entry(scenario, f) : f \in seeds}
                         \cup {TickEntry(t) : t \in ConditionTicks(scenario, window)}
              /\ scheduled = {f.inst : f \in seeds}
    BY DEF Started
<1> DEFINE seeds == {f \in SeedFirings(scenario, window, arrivals) : f.at <= window.end}
<1>2. Told(seeds)
    <2> SUFFICES ASSUME NEW f \in seeds, NEW g \in seeds, f.inst = g.inst
                 PROVE  f = g /\ f.act = f.inst.act
        BY DEF Told
    <2>1. scenario \in Scenarios /\ window \in Windows
        BY DEF Started
    <2>2. /\ f = Firing(f.act, f.at, f.inst)
          /\ \/ /\ f.inst = Instance(f.act, "start", None, None, None)
                /\ f.at = NextWorkingStart(window.start)
             \/ f.inst = Instance(f.act, "at", f.at, None, None)
        BY <2>1, SeedFacts
    <2>3. /\ g = Firing(g.act, g.at, g.inst)
          /\ \/ /\ g.inst = Instance(g.act, "start", None, None, None)
                /\ g.at = NextWorkingStart(window.start)
             \/ g.inst = Instance(g.act, "at", g.at, None, None)
        BY <2>1, SeedFacts
    <2>4. f.act = g.act /\ f.at = g.at
        <3>1. f.act = f.inst.act /\ g.act = g.inst.act
            BY <2>2, <2>3 DEF Instance
        <3>2. f.inst.why = "start" <=> g.inst.why = "start"
            OBVIOUS
        <3>3. CASE f.inst.why = "start"
            BY <2>2, <2>3, <3>1, <3>2, <3>3 DEF Instance
        <3>4. CASE f.inst.why # "start"
            <4>1. f.inst.at = f.at /\ g.inst.at = g.at
                BY <2>2, <2>3, <3>2, <3>4 DEF Instance
            <4>2. QED BY <3>1, <4>1
        <3>5. QED BY <3>3, <3>4
    <2>5. f = Firing(f.act, f.at, f.inst) /\ g = Firing(g.act, g.at, g.inst)
        BY <2>2, <2>3
    <2> HIDE DEF seeds
    <2>6. f = g
        BY <2>4, <2>5, Zenon
    <2>7. f.act = f.inst.act
        BY <2>2 DEF Instance
    <2>8. QED BY <2>6, <2>7
<1>3. /\ queue = {Entry(scenario, f) : f \in seeds}
                 \cup {TickEntry(t) : t \in ConditionTicks(scenario, window)}
      /\ scheduled = {f.inst : f \in seeds} /\ fired = {}
    BY <1>1 DEF Started
<1> HIDE DEF seeds
<1>4. ASSUME NEW e \in queue, ~e.tick
      PROVE  \E f \in seeds : e = Entry(scenario, f) /\ e.inst = f.inst /\ e.act = f.act
    BY <1>3, <1>4 DEF Entry, TickEntry
<1>5. ASSUME NEW f \in seeds
      PROVE  \E e \in queue : ~e.tick /\ e.inst = f.inst
    <2>1. Entry(scenario, f) \in queue
        BY <1>3
    <2>2. ~Entry(scenario, f).tick /\ Entry(scenario, f).inst = f.inst
        BY DEF Entry
    <2>3. QED BY <2>1, <2>2
<1>6. \A e, f \in queue : ~e.tick /\ ~f.tick /\ e.inst = f.inst => e = f
    BY <1>2, <1>4 DEF Told
<1>7. \A e \in queue : ~e.tick => e.inst.act = e.act
    BY <1>2, <1>4 DEF Told
<1>8. QED BY <1>3, <1>4, <1>5, <1>6, <1>7 DEF WaitingInv

LEMMA WaitingStep == StateInv /\ WaitingInv /\ [Next]_vars => WaitingInv'
<1> SUFFICES ASSUME StateInv, WaitingInv, [Next]_vars PROVE WaitingInv'
    OBVIOUS
<1>1. CASE UNCHANGED <<queue, scheduled, fired>>
    BY <1>1 DEF WaitingInv
<1>2. CASE Enqueues
    <2>1. PICK q, F : Enqueue(q, F) /\ Told(F) /\ (q = queue \/ PopsTick(q)) /\ fired' = fired
        BY <1>2 DEF Enqueues
    <2>2. /\ queue' = q \cup {Entry(scenario, f) : f \in Fresh(F)}
          /\ scheduled' = scheduled \cup {f.inst : f \in Fresh(F)}
          /\ \A f \in Fresh(F) : f \in F /\ f.inst \notin scheduled \cup fired
        BY <2>1 DEF Enqueue, Fresh
    <2>3. q \subseteq queue /\ \A e \in queue : ~e.tick => e \in q
        BY <2>1 DEF PopsTick
    <2>4. \A f \in Fresh(F) : LET e == Entry(scenario, f) IN
                                   ~e.tick /\ e.inst = f.inst /\ e.act = f.act
        BY DEF Entry
    <2>5. \A e \in queue' : ~e.tick => e.inst \in scheduled' \ fired'
        BY <2>1, <2>2, <2>3, <2>4 DEF WaitingInv
    <2>6. \A e, f \in queue' : ~e.tick /\ ~f.tick /\ e.inst = f.inst => e = f
        BY <2>1, <2>2, <2>3, <2>4 DEF WaitingInv, Told
    <2>7. \A x \in scheduled' : x \in fired' \/ \E e \in queue' : ~e.tick /\ e.inst = x
        BY <2>1, <2>2, <2>3, <2>4 DEF WaitingInv
    <2>8. \A e \in queue' : ~e.tick => e.inst.act = e.act
        BY <2>1, <2>2, <2>3, <2>4 DEF WaitingInv, Told
    <2>9. QED BY <2>1, <2>2, <2>5, <2>6, <2>7, <2>8 DEF WaitingInv
<1>3. CASE Starts
    BY <1>3 DEF Starts, WaitingInv
<1>4. QED BY <1>1, <1>2, <1>3, QueueChange

\* No instance that has run is waiting to run again: the main loop never skips
\* an entry, however conditions, milestones and events trigger each other.
THEOREM SchedulerNeverQueuedAgain == Spec => []NeverQueuedAgain
<1>1. WaitingInv => NeverQueuedAgain
    BY DEF WaitingInv, NeverQueuedAgain
<1>2. QED BY InitStarts, StateInit, StateStep, WaitingInit, WaitingStep, <1>1, PTL DEF Spec

-----------------------------------------------------------------------------
(* What a step may do to the journal.                                      *)

LEMMA AppendFacts ==
    ASSUME NEW S, NEW s \in Seq(S), NEW e
    PROVE  /\ Append(s, e) \in Seq(S \cup {e})
           /\ DOMAIN s = 1..Len(s) /\ Len(s) \in Nat
           /\ DOMAIN Append(s, e) = 1..(Len(s) + 1)
           /\ \A i \in DOMAIN s : Append(s, e)[i] = s[i]
           /\ Append(s, e)[Len(s) + 1] = e
<1>1. s \in Seq(S \cup {e}) /\ e \in S \cup {e}
    OBVIOUS
<1>2. QED BY <1>1, AppendProperties

IsSequence(s) == \E S : s \in Seq(S)

\* The journal after it has been extended by e.
Extends(e) == /\ journal' = Append(journal, e)
              /\ IsSequence(journal) =>
                     /\ IsSequence(journal')
                     /\ DOMAIN journal = 1..Len(journal) /\ Len(journal) \in Nat
                     /\ DOMAIN journal' = 1..(Len(journal) + 1)
                     /\ \A i \in DOMAIN journal : journal'[i] = journal[i]
                     /\ journal'[Len(journal) + 1] = e

LEMMA EmitExtends ==
    ASSUME NEW e, Emit(e)
    PROVE  Extends(e) /\ Enqueue(queue, Reactions(e))
<1>1. journal' = Append(journal, e) /\ Enqueue(queue, Reactions(e))
    BY DEF Emit
<1>2. ASSUME NEW S, journal \in Seq(S)
      PROVE  /\ journal' \in Seq(S \cup {e})
             /\ DOMAIN journal = 1..Len(journal) /\ Len(journal) \in Nat
             /\ DOMAIN journal' = 1..(Len(journal) + 1)
             /\ \A i \in DOMAIN journal : journal'[i] = journal[i]
             /\ journal'[Len(journal) + 1] = e
    BY <1>1, <1>2, AppendFacts
<1>3. QED BY <1>1, <1>2, Zenon DEF Extends, IsSequence

StepEvent == NewEvent(EventId(None, 0), Step.emits, run.evAt, StepParent)

Comment(at, parent) == NewEvent(EventId(Spreaders[run.who], run.n), Step.spread.emits, at, parent)

LEMMA EmitStepFacts ==
    ASSUME StateInv, EmitStep
    PROVE  /\ Extends(StepEvent) /\ Enqueue(queue, Reactions(StepEvent))
           /\ StepEvent.at = run.evAt /\ StepEvent.id = EventId(None, 0)
           /\ pc = "effects" /\ pc' = "comments"
           /\ run.evAt \in Nat /\ IsWorking(run.evAt) /\ run.i <= Len(Steps)
<1>1. Extends(StepEvent) /\ Enqueue(queue, Reactions(StepEvent))
    BY EmitExtends DEF EmitStep, StepEvent
<1>2. pc = "effects" /\ pc' = "comments"
    BY DEF EmitStep
<1>3. run.evAt \in Nat /\ IsWorking(run.evAt) /\ run.i <= Len(Steps)
    BY <1>2 DEF StateInv, RunInv, Executing, Placed
<1>4. StepEvent.at = run.evAt /\ StepEvent.id = EventId(None, 0)
    BY DEF StepEvent, NewEvent
<1>5. QED BY <1>1, <1>2, <1>3, <1>4

LEMMA PostCommentFacts ==
    ASSUME StateInv, PostComment
    PROVE  /\ pc = "comments" /\ pc' = "comments" /\ run.n < run.count /\ run.i <= Len(Steps)
           /\ run.evAt \in Nat /\ Spreaders[run.who] \in People
           /\ \E at, parent :
                  LET e == Comment(at, parent) IN
                  /\ Extends(e) /\ Enqueue(queue, Reactions(e))
                  /\ e.at = at /\ e.parent = parent
                  /\ e.id = EventId(Spreaders[run.who], run.n)
                  /\ at \in Nat /\ run.evAt <= at /\ IsWorking(at)
                  /\ parent \in ThreadParents(at)
                  /\ run'.posted = run.posted \cup {[id |-> e.id, at |-> at]}
<1>1. pc = "comments" /\ pc' = "comments" /\ run.n < run.count
    BY DEF PostComment, AtComments
<1>2. run.i <= Len(Steps) /\ run.evAt \in Nat
    BY <1>1 DEF StateInv, RunInv, Executing, Placed
<1>3. PICK x \in Draws :
          LET p        == Spreaders[run.who]
              earliest == Advance(run.evAt, x)
              at       == SlotStart(p, earliest, CommentSlot)
              id       == EventId(p, run.n)
          IN  /\ \E parent \in ThreadParents(at) :
                     Emit(NewEvent(id, Step.spread.emits, at, parent))
              /\ run' = [run EXCEPT !.n = @ + 1, !.posted = @ \cup {[id |-> id, at |-> at]}]
    BY DEF PostComment
<1> DEFINE at == SlotStart(Spreaders[run.who], Advance(run.evAt, x), CommentSlot)
<1>4. Spreaders[run.who] \in People /\ at \in Nat /\ run.evAt <= at /\ IsWorking(at)
    BY <1>1, CommentFacts DEF StateInv
<1>5. PICK parent \in ThreadParents(at) : Emit(Comment(at, parent))
    BY <1>3 DEF Comment
<1>6. run' = [run EXCEPT !.n = @ + 1,
                         !.posted = @ \cup {[id |-> EventId(Spreaders[run.who], run.n),
                                             at |-> at]}]
    BY <1>3
<1> HIDE DEF at
<1>7. run'.posted = run.posted \cup {[id |-> EventId(Spreaders[run.who], run.n), at |-> at]}
    BY <1>1, <1>6 DEF StateInv, RunInv, RunFields, Executing
<1> DEFINE e == Comment(at, parent)
<1>8. e.at = at /\ e.parent = parent /\ e.id = EventId(Spreaders[run.who], run.n)
    BY DEF Comment, NewEvent
<1>9. Extends(e) /\ Enqueue(queue, Reactions(e))
    <2> HIDE DEF e
    <2>1. QED BY <1>5, EmitExtends DEF e
<1>10. QED BY <1>1, <1>2, <1>4, <1>5, <1>7, <1>8, <1>9

LEMMA JournalChange ==
    ASSUME [Next]_vars
    PROVE  UNCHANGED journal \/ EmitStep \/ PostComment
BY DEF Next, PopTick, PopFiring, Settle, TripCap, MaterializeCalendars, FinishInstance,
   StepRaises, PlaceStep, BookActor, Create, Mutate, Milestone, AtEffect, NextCommenter,
   CommentsNoMore, SkipComment, CommentRaises, EndStep, AtComments, vars

-----------------------------------------------------------------------------
(* The journal holds working instants.                                     *)

JournalInv ==
    /\ IsSequence(journal)
    /\ \A i \in DOMAIN journal : journal[i].at \in Nat /\ IsWorking(journal[i].at)

LEMMA JournalInit == Started => JournalInv
<1>1. <<>> \in Seq({}) /\ DOMAIN <<>> = {}
    OBVIOUS
<1>2. QED BY <1>1, Zenon DEF Started, JournalInv, IsSequence

LEMMA JournalStep == StateInv /\ JournalInv /\ [Next]_vars => JournalInv'
<1> SUFFICES ASSUME StateInv, JournalInv, [Next]_vars PROVE JournalInv'
    OBVIOUS
<1>1. ASSUME NEW e, Extends(e), e.at \in Nat, IsWorking(e.at) PROVE JournalInv'
    <2>1. /\ IsSequence(journal')
          /\ DOMAIN journal = 1..Len(journal) /\ Len(journal) \in Nat
          /\ DOMAIN journal' = 1..(Len(journal) + 1)
          /\ \A i \in DOMAIN journal : journal'[i] = journal[i]
          /\ journal'[Len(journal) + 1] = e
        BY <1>1 DEF Extends, JournalInv
    <2>2. \A i \in DOMAIN journal' : i \in DOMAIN journal \/ i = Len(journal) + 1
        BY <2>1
    <2>3. QED BY <1>1, <2>1, <2>2 DEF JournalInv
<1>2. CASE UNCHANGED journal
    BY <1>2 DEF JournalInv
<1>3. CASE EmitStep
    BY <1>1, <1>3, EmitStepFacts
<1>4. CASE PostComment
    BY <1>1, <1>4, PostCommentFacts
<1>5. QED BY <1>2, <1>3, <1>4, JournalChange

\* Every event has a working instant, whatever the bookings, the lengths of the
\* slots and the offsets of the steps.
THEOREM SchedulerWorkingHours == Spec => []WorkingHours
<1>1. JournalInv => WorkingHours
    BY DEF JournalInv, WorkingHours
<1>2. QED BY InitStarts, StateInit, StateStep, JournalInit, JournalStep, <1>1, PTL DEF Spec

-----------------------------------------------------------------------------
(* What a step may do to the instance being executed.                      *)

SameInstance == /\ scenario' = scenario /\ Steps' = Steps
                /\ run'.act = run.act /\ run'.inst = run.inst /\ run'.at = run.at
                /\ run'.roles = run.roles

SameStep == /\ run'.i = run.i /\ run'.ends = run.ends /\ Step' = Step
            /\ Spreaders' = Spreaders

SameEvent == SameStep /\ run'.evAt = run.evAt

RunPlaces == /\ PlaceStep /\ pc = "step" /\ pc' = "effects" /\ SameStep
             /\ run'.evAt = EventTime /\ run.i <= Len(Steps) /\ StepKnown

RunEffects == /\ pc = "effects" /\ pc' = "effects" /\ SameEvent

RunEmits == /\ EmitStep /\ pc = "effects" /\ pc' = "comments" /\ SameEvent
            /\ run'.who = 0 /\ run'.n = 0 /\ run'.posted = {}

RunTurns == /\ NextCommenter \/ CommentsNoMore
            /\ pc = "comments" /\ pc' = "comments" /\ SameEvent
            /\ run'.who = run.who + 1 /\ run'.n = 0 /\ run'.posted = run.posted

RunSkips == /\ SkipComment /\ pc = "comments" /\ pc' = "comments" /\ SameEvent
            /\ run'.who = run.who /\ run'.n = run.n + 1 /\ run'.posted = run.posted

RunPosts == /\ PostComment /\ pc = "comments" /\ pc' = "comments" /\ SameEvent
            /\ run'.who = run.who /\ run'.n = run.n + 1

RunEnds == /\ EndStep /\ pc = "comments" /\ pc' = "step" /\ run'.i = run.i + 1
           /\ run'.ends = [x \in DOMAIN run.ends \cup {Step.id} |->
                              IF x = Step.id THEN StepEnd ELSE run.ends[x]]

RunStays == run' = run /\ pc' = pc /\ SameEvent

LEMMA PostRuns == StateInv /\ PostComment => SameInstance /\ RunPosts
<1> SUFFICES ASSUME StateInv, PostComment PROVE SameInstance /\ RunPosts
    OBVIOUS
<1>0. run = [f \in RunFields |-> run[f]]
    BY DEF StateInv, RunInv, PostComment, AtComments, Executing
<1>1. PICK posted : run' = [run EXCEPT !.n = @ + 1, !.posted = posted]
    BY DEF PostComment
<1>2. pc = "comments" /\ pc' = "comments" /\ scenario' = scenario
    BY DEF PostComment, AtComments
<1>3. /\ run'.act = run.act /\ run'.inst = run.inst /\ run'.at = run.at
      /\ run'.roles = run.roles /\ run'.i = run.i /\ run'.ends = run.ends
      /\ run'.evAt = run.evAt /\ run'.who = run.who /\ run'.n = run.n + 1
    BY <1>0, <1>1 DEF RunFields
<1>4. SameInstance /\ SameEvent
    BY <1>2, <1>3 DEF SameInstance, SameStep, SameEvent, Steps, Step, Spreaders
<1>5. QED BY <1>2, <1>3, <1>4 DEF RunPosts

LEMMA RunChange ==
    ASSUME StateInv, Executing, [Next]_vars
    PROVE  \/ ~Executing'
           \/ /\ SameInstance
              /\ \/ RunPlaces \/ RunEffects \/ RunEmits \/ RunTurns \/ RunSkips \/ RunPosts
                 \/ RunEnds \/ RunStays
<1> USE DEF Executing
<1>0. run = [f \in RunFields |-> run[f]]
    BY DEF StateInv, RunInv
<1>1. CASE PlaceStep
    <2>1. pc = "step" /\ pc' = "effects" /\ run.i <= Len(Steps) /\ StepKnown
          /\ scenario' = scenario
          /\ run' = [run EXCEPT !.effect = 1, !.evAt = EventTime, !.who = 0]
        BY <1>1 DEF PlaceStep
    <2>2. /\ run'.act = run.act /\ run'.inst = run.inst /\ run'.at = run.at
          /\ run'.roles = run.roles /\ run'.i = run.i /\ run'.ends = run.ends
          /\ run'.evAt = EventTime
        BY <1>0, <2>1 DEF RunFields
    <2>3. SameInstance /\ SameStep
        BY <2>1, <2>2 DEF SameInstance, SameStep, Steps, Step, Spreaders
    <2>4. QED BY <1>1, <2>1, <2>2, <2>3 DEF RunPlaces
<1>2. CASE BookActor \/ Create \/ Mutate \/ Milestone
    <2>1. /\ pc = "effects" /\ pc' = pc /\ scenario' = scenario
          /\ run' = [run EXCEPT !.effect = @ + 1] \/ run' = [run EXCEPT !.who = @ + 1]
        BY <1>2 DEF BookActor, Create, Mutate, Milestone, AtEffect
    <2>2. /\ run'.act = run.act /\ run'.inst = run.inst /\ run'.at = run.at
          /\ run'.roles = run.roles /\ run'.i = run.i /\ run'.ends = run.ends
          /\ run'.evAt = run.evAt
        BY <1>0, <2>1 DEF RunFields
    <2>3. SameInstance /\ SameEvent
        BY <2>1, <2>2 DEF SameInstance, SameStep, SameEvent, Steps, Step, Spreaders
    <2>4. QED BY <2>1, <2>3 DEF RunEffects
<1>3. CASE EmitStep
    <2>1. pc = "effects" /\ pc' = "comments" /\ scenario' = scenario
          /\ run' = [run EXCEPT !.who = 0, !.n = 0, !.count = 0, !.posted = {}]
        BY <1>3 DEF EmitStep
    <2>2. /\ run'.act = run.act /\ run'.inst = run.inst /\ run'.at = run.at
          /\ run'.roles = run.roles /\ run'.i = run.i /\ run'.ends = run.ends
          /\ run'.evAt = run.evAt /\ run'.who = 0 /\ run'.n = 0 /\ run'.posted = {}
        BY <1>0, <2>1 DEF RunFields
    <2>3. SameInstance /\ SameEvent
        BY <2>1, <2>2 DEF SameInstance, SameStep, SameEvent, Steps, Step, Spreaders
    <2>4. QED BY <1>3, <2>1, <2>2, <2>3 DEF RunEmits
<1>4. CASE NextCommenter \/ CommentsNoMore
    <2>1. PICK k : run' = [run EXCEPT !.who = @ + 1, !.n = 0, !.count = k]
        BY <1>4 DEF NextCommenter, CommentsNoMore
    <2>2. pc = "comments" /\ pc' = "comments" /\ scenario' = scenario
        BY <1>4 DEF NextCommenter, CommentsNoMore, AtComments
    <2>3. /\ run'.act = run.act /\ run'.inst = run.inst /\ run'.at = run.at
          /\ run'.roles = run.roles /\ run'.i = run.i /\ run'.ends = run.ends
          /\ run'.evAt = run.evAt /\ run'.who = run.who + 1 /\ run'.n = 0
          /\ run'.posted = run.posted
        BY <1>0, <2>1 DEF RunFields
    <2>4. SameInstance /\ SameEvent
        BY <2>2, <2>3 DEF SameInstance, SameStep, SameEvent, Steps, Step, Spreaders
    <2>5. QED BY <1>4, <2>2, <2>3, <2>4 DEF RunTurns
<1>5. CASE SkipComment
    <2>1. pc = "comments" /\ pc' = "comments" /\ scenario' = scenario
          /\ run' = [run EXCEPT !.n = @ + 1]
        BY <1>5 DEF SkipComment, AtComments
    <2>2. /\ run'.act = run.act /\ run'.inst = run.inst /\ run'.at = run.at
          /\ run'.roles = run.roles /\ run'.i = run.i /\ run'.ends = run.ends
          /\ run'.evAt = run.evAt /\ run'.who = run.who /\ run'.n = run.n + 1
          /\ run'.posted = run.posted
        BY <1>0, <2>1 DEF RunFields
    <2>3. SameInstance /\ SameEvent
        BY <2>1, <2>2 DEF SameInstance, SameStep, SameEvent, Steps, Step, Spreaders
    <2>4. QED BY <1>5, <2>1, <2>2, <2>3 DEF RunSkips
<1>6. CASE PostComment
    BY <1>6, PostRuns
<1>7. CASE EndStep
    <2> DEFINE ends == [x \in DOMAIN run.ends \cup {Step.id} |->
                           IF x = Step.id THEN StepEnd ELSE run.ends[x]]
    <2>1. pc = "comments" /\ pc' = "step" /\ scenario' = scenario
          /\ run' = [run EXCEPT !.ends = ends, !.i = @ + 1]
        BY <1>7 DEF EndStep, AtComments
    <2> HIDE DEF ends
    <2>2. /\ run'.act = run.act /\ run'.inst = run.inst /\ run'.at = run.at
          /\ run'.roles = run.roles /\ run'.i = run.i + 1 /\ run'.ends = ends
        BY <1>0, <2>1 DEF RunFields
    <2>3. SameInstance
        BY <2>1, <2>2 DEF SameInstance, Steps
    <2>4. QED BY <1>7, <2>1, <2>2, <2>3 DEF RunEnds, ends
<1>8. CASE UNCHANGED vars
    BY <1>8 DEF vars, SameInstance, SameStep, SameEvent, RunStays, Steps, Step, Spreaders
<1>9. CASE PopTick \/ PopFiring \/ Settle \/ TripCap \/ MaterializeCalendars \/ FinishInstance
           \/ StepRaises \/ CommentRaises
    BY <1>9 DEF PopTick, PopFiring, Settle, TripCap, MaterializeCalendars, FinishInstance,
                StepRaises, CommentRaises
<1>10. QED BY <1>1, <1>2, <1>3, <1>4, <1>5, <1>6, <1>7, <1>8, <1>9 DEF Next

\* An instance starts to be executed only when it is popped.
LEMMA ExecutionStarts ==
    ASSUME StateInv, ~Executing, [Next]_vars, Executing'
    PROVE  PopFiring
BY DEF Executing, Next, PopTick, PopFiring, Settle, TripCap, MaterializeCalendars,
   FinishInstance, StepRaises, PlaceStep, BookActor, Create, Mutate, Milestone, AtEffect,
   EmitStep, NextCommenter, CommentsNoMore, SkipComment, PostComment, CommentRaises, EndStep,
   AtComments, vars

-----------------------------------------------------------------------------
(* Event ids.  The journal holds the events of instances that have been    *)
(* popped; those of the instance being executed belong to its earlier      *)
(* steps, or are the event and the earlier comments of the current one.    *)

CommentedBefore(id) ==
    \E w \in 1..Len(Spreaders) :
        id.person = Spreaders[w] /\ (w < run.who \/ (w = run.who /\ id.n \in 0..(run.n - 1)))

PastEvent(id) ==
    \/ \E k \in 1..(run.i - 1) : id.step = Steps[k].id
    \/ /\ pc = "comments" /\ id.step = Step.id
       /\ id.person = None \/ CommentedBefore(id)

IdInv ==
    /\ \A i \in DOMAIN journal : journal[i].id.inst \in fired
    /\ Executing => /\ run.inst \in fired
                    /\ \A i \in DOMAIN journal :
                           journal[i].id.inst = run.inst => PastEvent(journal[i].id)
    /\ UniqueEventIds

\* An event whose id is not in the journal keeps the ids apart.
LEMMA NewIdKeeps ==
    ASSUME JournalInv, UniqueEventIds, NEW e, Extends(e),
           \A i \in DOMAIN journal : journal[i].id # e.id
    PROVE  UniqueEventIds'
<1>1. /\ DOMAIN journal = 1..Len(journal) /\ Len(journal) \in Nat
      /\ DOMAIN journal' = 1..(Len(journal) + 1)
      /\ \A i \in DOMAIN journal : journal'[i] = journal[i]
      /\ journal'[Len(journal) + 1] = e
    BY DEF Extends, JournalInv
<1>2. \A i \in DOMAIN journal' : i \in DOMAIN journal \/ i = Len(journal) + 1
    BY <1>1
<1>3. QED BY <1>1, <1>2 DEF UniqueEventIds

LEMMA StepIdsDiffer ==
    ASSUME StateInv, Executing, run.i <= Len(Steps), NEW k \in 1..(run.i - 1)
    PROVE  Steps[k].id # Step.id /\ k \in DOMAIN Steps
<1>1. ActivationOK(scenario[run.act]) /\ run.i \in Nat \ {0}
    BY ScenarioFacts DEF StateInv, RunInv
<1>2. k \in DOMAIN Steps /\ run.i \in DOMAIN Steps /\ k # run.i
    BY <1>1 DEF ActivationOK, Steps
<1>3. QED BY <1>1, <1>2 DEF ActivationOK, Steps, Step

\* The event of a step is new, and so is the next comment.
LEMMA StepIdIsNew ==
    ASSUME StateInv, IdInv, pc = "effects", NEW i \in DOMAIN journal
    PROVE  journal[i].id # EventId(None, 0)
<1>1. SUFFICES ASSUME journal[i].id = EventId(None, 0) PROVE FALSE
    OBVIOUS
<1>2. journal[i].id.inst = run.inst /\ journal[i].id.step = Step.id
    BY <1>1 DEF EventId
<1>3. PICK k \in 1..(run.i - 1) : journal[i].id.step = Steps[k].id
    BY <1>2 DEF IdInv, PastEvent, Executing
<1>4. QED BY <1>2, <1>3, StepIdsDiffer DEF StateInv, RunInv, Executing, Placed

LEMMA CommentIdIsNew ==
    ASSUME StateInv, IdInv, pc = "comments", run.n < run.count, NEW i \in DOMAIN journal
    PROVE  journal[i].id # EventId(Spreaders[run.who], run.n)
<1> DEFINE p == Spreaders[run.who]
<1>1. SUFFICES ASSUME journal[i].id = EventId(p, run.n) PROVE FALSE
    OBVIOUS
<1>2. journal[i].id.inst = run.inst /\ journal[i].id.step = Step.id
      /\ journal[i].id.person = p /\ journal[i].id.n = run.n
    BY <1>1 DEF EventId
<1>3. Executing /\ run.i <= Len(Steps) /\ run.n \in Nat /\ run.who \in 1..Len(Spreaders)
    BY DEF StateInv, RunInv, FirstTurn, Executing, Placed
<1>4. Spreaders \in Seq(People) /\ FirstTurn
    BY <1>3, TeamFacts DEF StateInv, RunInv
<1>5. p \in People /\ p # None
    BY <1>3, <1>4, SchedulerAssumption
<1>6. PastEvent(journal[i].id)
    BY <1>2, <1>3 DEF IdInv
<1>7. CommentedBefore(journal[i].id)
    BY <1>2, <1>3, <1>5, <1>6, StepIdsDiffer DEF PastEvent
<1>8. PICK w \in 1..Len(Spreaders) : p = Spreaders[w] /\ (w < run.who \/ run.n \in 0..(run.n - 1))
    BY <1>2, <1>7 DEF CommentedBefore
<1>9. w = run.who
    BY <1>3, <1>4, <1>8 DEF FirstTurn
<1>10. QED BY <1>3, <1>8, <1>9

\* What is past stays past.
LEMMA PastStays ==
    ASSUME StateInv, Executing, [Next]_vars, Executing', NEW id, PastEvent(id)
    PROVE  SameInstance /\ PastEvent(id)'
<1>1. run.i \in Nat \ {0} /\ run.inst = run.inst
    BY DEF StateInv, RunInv
<1>2. SameInstance
    BY RunChange
<1>3. CASE RunPlaces \/ RunEffects \/ RunEmits
    <2>1. pc # "comments" /\ run'.i = run.i
        BY <1>3 DEF RunPlaces, RunEffects, RunEmits, SameEvent, SameStep
    <2>2. QED BY <1>2, <2>1 DEF PastEvent, SameInstance
<1>4. CASE RunTurns \/ RunSkips \/ RunPosts \/ RunStays
    <2>1. SameEvent /\ pc' = pc
        BY <1>4 DEF RunTurns, RunSkips, RunPosts, RunStays
    <2>2. ASSUME pc = "comments", CommentedBefore(id) PROVE CommentedBefore(id)'
        <3>1. PICK w \in 1..Len(Spreaders) :
                  id.person = Spreaders[w] /\ (w < run.who \/ (w = run.who /\ id.n \in 0..(run.n - 1)))
            BY <2>2 DEF CommentedBefore
        <3>2. run.who \in Nat /\ run.n \in Nat
            BY <2>2 DEF StateInv, RunInv
        <3>3. \/ run'.who = run.who + 1
              \/ run'.who = run.who /\ (run'.n = run.n + 1 \/ run'.n = run.n)
            BY <1>4 DEF RunTurns, RunSkips, RunPosts, RunStays
        <3>4. w < run'.who \/ (w = run'.who /\ id.n \in 0..(run'.n - 1))
            BY <3>1, <3>2, <3>3
        <3>5. QED BY <2>1, <3>1, <3>4 DEF CommentedBefore, SameEvent, SameStep
    <2>3. QED BY <1>2, <2>1, <2>2 DEF PastEvent, SameInstance, SameEvent, SameStep
<1>5. CASE RunEnds
    <2>1. run'.i = run.i + 1 /\ Step = Steps[run.i]
        BY <1>5 DEF RunEnds, Step
    <2>2. \A k \in 1..(run.i - 1) : k \in 1..(run'.i - 1)
        BY <1>1, <2>1
    <2>3. run.i \in 1..(run'.i - 1)
        BY <1>1, <2>1
    <2>4. QED BY <1>2, <2>1, <2>2, <2>3 DEF PastEvent, SameInstance
<1>6. QED BY <1>3, <1>4, <1>5, RunChange

LEMMA IdInit == Started => IdInv
<1>1. DOMAIN <<>> = {}
    OBVIOUS
<1>2. QED BY <1>1 DEF Started, IdInv, Executing, UniqueEventIds

LEMMA FiredGrows ==
    ASSUME StateInv, [Next]_vars
    PROVE  fired \subseteq fired'
BY QueueChange DEF Enqueues, Starts

LEMMA IdStep == StateInv /\ JournalInv /\ IdInv /\ [Next]_vars => IdInv'
<1> SUFFICES ASSUME StateInv, JournalInv, IdInv, [Next]_vars PROVE IdInv'
    OBVIOUS
<1>1. fired \subseteq fired'
    BY FiredGrows
<1>2. ASSUME Executing, Executing', NEW c, PastEvent(c)
      PROVE  run'.inst = run.inst /\ PastEvent(c)'
    BY <1>2, PastStays DEF SameInstance
<1>3. CASE UNCHANGED journal
    <2>1. (\A i \in DOMAIN journal : journal[i].id.inst \in fired)'
        BY <1>1, <1>3 DEF IdInv
    <2>2. CASE Executing /\ Executing'
        <3>1. run'.inst = run.inst
            BY <2>2, RunChange DEF SameInstance
        <3>2. ASSUME NEW i \in DOMAIN journal, journal[i].id.inst = run.inst
              PROVE  PastEvent(journal[i].id)'
            <4>1. PICK c : c = journal[i].id
                OBVIOUS
            <4>2. PastEvent(c)
                BY <2>2, <3>2, <4>1 DEF IdInv
            <4>3. PastEvent(c)' /\ c = journal'[i].id
                BY <1>2, <1>3, <2>2, <4>1, <4>2
            <4>4. QED BY <4>3
        <3>3. QED BY <1>1, <1>3, <2>1, <2>2, <3>1, <3>2 DEF IdInv, UniqueEventIds
    <2>3. CASE ~Executing /\ Executing'
        BY <1>1, <1>3, <2>1, <2>3, ExecutionStarts, PopStarts
           DEF IdInv, Starts, UniqueEventIds
    <2>4. CASE ~Executing'
        BY <1>3, <2>1, <2>4 DEF IdInv, UniqueEventIds
    <2>5. QED BY <2>2, <2>3, <2>4
<1>4. ASSUME NEW e, Extends(e), Executing, Executing', e.id.inst = run.inst,
             \A i \in DOMAIN journal : journal[i].id # e.id, PastEvent(e.id)'
      PROVE  IdInv'
    <2>1. /\ DOMAIN journal = 1..Len(journal) /\ Len(journal) \in Nat
          /\ DOMAIN journal' = 1..(Len(journal) + 1)
          /\ \A i \in DOMAIN journal : journal'[i] = journal[i]
          /\ journal'[Len(journal) + 1] = e
        BY <1>4 DEF Extends, JournalInv
    <2>2. \A i \in DOMAIN journal' : i \in DOMAIN journal \/ i = Len(journal) + 1
        BY <2>1
    <2>3. UniqueEventIds'
        BY <1>4, NewIdKeeps DEF IdInv
    <2>4. run.inst \in fired /\ run'.inst = run.inst
        BY <1>4, RunChange DEF IdInv, SameInstance
    <2>5. (\A i \in DOMAIN journal : journal[i].id.inst \in fired)'
        BY <1>1, <1>4, <2>1, <2>2, <2>4 DEF IdInv
    <2>6. ASSUME NEW i \in DOMAIN journal', (journal[i].id.inst = run.inst)'
          PROVE  PastEvent(journal[i].id)'
        <3>1. PICK c : c = (journal[i].id)'
            OBVIOUS
        <3>2. CASE i \in DOMAIN journal
            <4>1. c = journal[i].id /\ c.inst = run.inst
                BY <2>1, <2>4, <2>6, <3>1, <3>2
            <4>2. PastEvent(c)
                BY <1>4, <3>2, <4>1 DEF IdInv
            <4>3. PastEvent(c)'
                BY <1>2, <1>4, <4>2
            <4>4. QED BY <3>1, <4>3
        <3>3. CASE i = Len(journal) + 1
            BY <1>4, <2>1, <3>3
        <3>4. QED BY <2>2, <3>2, <3>3
    <2>7. QED BY <1>1, <2>3, <2>4, <2>5, <2>6 DEF IdInv
<1>5. CASE EmitStep
    <2>1. PICK e : e = StepEvent
        OBVIOUS
    <2>2. Extends(e) /\ e.id = EventId(None, 0) /\ pc = "effects" /\ pc' = "comments"
        BY <1>5, <2>1, EmitStepFacts
    <2>3. e.id.inst = run.inst /\ e.id.step = Step.id /\ e.id.person = None
        BY <2>2 DEF EventId
    <2>4. Step' = Step
        BY <2>2, RunChange DEF RunPlaces, RunEffects, RunEmits, RunTurns, RunSkips, RunPosts,
           RunEnds, RunStays, SameEvent, SameStep, Executing
    <2>5. PastEvent(e.id)'
        BY <2>2, <2>3, <2>4 DEF PastEvent
    <2>6. QED BY <1>4, <2>2, <2>3, <2>5, StepIdIsNew DEF Executing
<1>6. CASE PostComment
    <2>1. PICK e : /\ Extends(e) /\ e.id = EventId(Spreaders[run.who], run.n)
                   /\ pc = "comments" /\ pc' = "comments" /\ run.n < run.count
        BY <1>6, PostCommentFacts
    <2>2. e.id.inst = run.inst /\ e.id.step = Step.id /\ e.id.person = Spreaders[run.who]
          /\ e.id.n = run.n
        BY <2>1 DEF EventId
    <2>3. RunPosts
        BY <1>6, <2>1, PostRuns
    <2>4. run.n \in Nat /\ run.who \in 1..Len(Spreaders)
        BY <2>1, TeamFacts DEF StateInv, RunInv, FirstTurn, Executing, Placed
    <2>5. PastEvent(e.id)'
        <3>1. run'.who = run.who /\ run'.n = run.n + 1 /\ Step' = Step /\ Spreaders' = Spreaders
            BY <2>3 DEF RunPosts, SameEvent, SameStep
        <3>2. CommentedBefore(e.id)'
            BY <2>2, <2>4, <3>1 DEF CommentedBefore
        <3>3. QED BY <2>1, <2>2, <3>1, <3>2 DEF PastEvent
    <2>6. QED BY <1>4, <2>1, <2>2, <2>5, CommentIdIsNew DEF Executing
<1>7. QED BY <1>3, <1>5, <1>6, JournalChange

\* No two events have one id, whoever fills the roles: EventJournal.append finds the id it
\* is given nowhere but where one person comes twice in the role that comments on a step,
\* and there the run ends (CommentRaises).
THEOREM SchedulerUniqueEventIds == Spec => []UniqueEventIds
<1>1. IdInv => UniqueEventIds
    BY DEF IdInv
<1>2. QED BY InitStarts, StateInit, StateStep, JournalInit, JournalStep, IdInit, IdStep, <1>1,
             PTL DEF Spec

-----------------------------------------------------------------------------
(* Whatever is in the journal has been reacted to by the end.              *)

\* The cap has stopped the run.
Capped == \E x \in issues : x.code = "max_events"

ReactionInv ==
    /\ \A i \in DOMAIN journal :
           journal[i].at <= window.end =>
               \A a \in Reacting(journal[i]) :
                   Instance(a, "evt", None, journal[i].id, None) \in scheduled
    /\ pc = "stopped" => Capped
    /\ pc = "done" => queue = {} \/ Capped

LEMMA ScheduledGrows ==
    ASSUME StateInv, [Next]_vars
    PROVE  scheduled \subseteq scheduled'
BY QueueChange DEF Enqueues, Starts, Enqueue

LEMMA ArgumentsStay ==
    ASSUME [Next]_vars
    PROVE  scenario' = scenario /\ window' = window
BY DEF Next, PopTick, PopFiring, Settle, TripCap, MaterializeCalendars, FinishInstance,
   StepRaises, PlaceStep, BookActor, Create, Mutate, Milestone, AtEffect, EmitStep,
   NextCommenter, CommentsNoMore, SkipComment, PostComment, CommentRaises, EndStep,
   AtComments, vars

LEMMA IssuesGrow ==
    ASSUME [Next]_vars
    PROVE  issues \subseteq issues'
BY DEF Next, PopTick, PopFiring, Settle, TripCap, MaterializeCalendars, FinishInstance,
   StepRaises, PlaceStep, BookActor, Book, Create, Mutate, Milestone, AtEffect, EmitStep,
   NextCommenter, CommentsNoMore, SkipComment, PostComment, CommentRaises, EndStep,
   AtComments, vars

\* The reactions to an event within the window are scheduled at once.
LEMMA ReactionsAreScheduled ==
    ASSUME WaitingInv, NEW e, Enqueue(queue, Reactions(e)), e.at <= window.end,
           NEW a \in Reacting(e)
    PROVE  Instance(a, "evt", None, e.id, None) \in scheduled'
<1> DEFINE f == Firing(a, e.at, Instance(a, "evt", None, e.id, None))
<1>1. f \in Reactions(e)
    BY DEF Reactions
<1>2. f.at = e.at /\ f.inst = Instance(a, "evt", None, e.id, None)
    BY DEF Firing
<1> HIDE DEF f
<1>3. f.inst \in scheduled \/ f \in Fresh(Reactions(e))
    BY <1>1, <1>2 DEF Fresh, WaitingInv
<1>4. QED BY <1>2, <1>3 DEF Enqueue

LEMMA ReactionInit == Started => ReactionInv
<1>1. DOMAIN <<>> = {}
    OBVIOUS
<1>2. QED BY <1>1 DEF Started, ReactionInv

LEMMA ReactionStep ==
    StateInv /\ WaitingInv /\ JournalInv /\ ReactionInv /\ [Next]_vars => ReactionInv'
<1> SUFFICES ASSUME StateInv, WaitingInv, JournalInv, ReactionInv, [Next]_vars
             PROVE  ReactionInv'
    OBVIOUS
<1> DEFINE Answered(e) == e.at <= window.end =>
                              \A a \in Reacting(e) :
                                  Instance(a, "evt", None, e.id, None) \in scheduled
<1>1. scheduled \subseteq scheduled' /\ scenario' = scenario /\ window' = window
    BY ScheduledGrows, ArgumentsStay
<1>2. ASSUME NEW e, Answered(e) PROVE Answered(e)'
    BY <1>1, <1>2 DEF Reacting
<1>3. ASSUME NEW e, Enqueue(queue, Reactions(e)) PROVE Answered(e)'
    <2>1. SUFFICES ASSUME e.at <= window.end, NEW a \in Reacting(e)
                   PROVE  Instance(a, "evt", None, e.id, None) \in scheduled'
        BY <1>1 DEF Reacting
    <2>2. QED BY <1>3, <2>1, ReactionsAreScheduled
<1>4. \A i \in DOMAIN journal : Answered(journal[i])
    BY DEF ReactionInv
<1> HIDE DEF Answered
<1>5. (\A i \in DOMAIN journal : Answered(journal[i]))'
    <2>1. CASE UNCHANGED journal
        <3>1. SUFFICES ASSUME NEW i \in DOMAIN journal PROVE Answered(journal[i])'
            BY <2>1
        <3>2. PICK e : e = journal[i]
            OBVIOUS
        <3>3. Answered(e)' /\ e = journal'[i]
            BY <1>2, <1>4, <2>1, <3>2
        <3>4. QED BY <3>3
    <2>2. ASSUME NEW e, Extends(e), Enqueue(queue, Reactions(e))
          PROVE  (\A i \in DOMAIN journal : Answered(journal[i]))'
        <3>1. /\ DOMAIN journal = 1..Len(journal) /\ Len(journal) \in Nat
              /\ DOMAIN journal' = 1..(Len(journal) + 1)
              /\ \A i \in DOMAIN journal : journal'[i] = journal[i]
              /\ journal'[Len(journal) + 1] = e
            BY <2>2 DEF Extends, JournalInv
        <3>2. SUFFICES ASSUME NEW i \in DOMAIN journal' PROVE Answered(journal[i])'
            OBVIOUS
        <3>3. PICK d : d = journal'[i]
            OBVIOUS
        <3>4. CASE i \in DOMAIN journal
            <4>1. Answered(d)
                BY <1>4, <3>1, <3>3, <3>4
            <4>2. Answered(d)'
                BY <1>2, <4>1
            <4>3. QED BY <3>3, <4>2
        <3>5. CASE i = Len(journal) + 1
            <4>1. Answered(e)' /\ e = journal'[i]
                BY <1>3, <2>2, <3>1, <3>5
            <4>2. QED BY <4>1
        <3>6. QED BY <3>1, <3>4, <3>5
    <2>3. CASE EmitStep
        <3>1. PICK e : Extends(e) /\ Enqueue(queue, Reactions(e))
            BY <2>3, EmitStepFacts
        <3>2. QED BY <2>2, <3>1
    <2>4. CASE PostComment
        <3>1. PICK e : Extends(e) /\ Enqueue(queue, Reactions(e))
            BY <2>4, PostCommentFacts
        <3>2. QED BY <2>2, <3>1
    <2>5. QED BY <2>1, <2>3, <2>4, JournalChange
<1>6. (pc = "stopped" => Capped)' /\ (pc = "done" => queue = {} \/ Capped)'
    <2>1. CASE TripCap
        <3> DEFINE x == [code |-> "max_events", at |-> clock, subject |-> None]
        <3>1. x \in issues' /\ x.code = "max_events"
            BY <2>1 DEF TripCap
        <3> HIDE DEF x
        <3>2. pc' = "stopped"
            BY <2>1 DEF TripCap
        <3>3. QED BY <3>1, <3>2 DEF Capped
    <2>2. CASE MaterializeCalendars
        BY <2>2 DEF MaterializeCalendars, Capped, ReactionInv
    <2>3. CASE UNCHANGED vars
        BY <2>3 DEF vars, Capped, ReactionInv
    <2>4. CASE pc' \notin {"stopped", "done"}
        BY <2>4
    <2>5. QED
        BY <2>1, <2>2, <2>3, <2>4 DEF Next, PopTick, PopFiring, Settle, FinishInstance,
           StepRaises, PlaceStep, BookActor, Create, Mutate, Milestone, AtEffect, EmitStep,
           NextCommenter, CommentsNoMore, SkipComment, PostComment, CommentRaises, EndStep,
           AtComments
<1>7. QED BY <1>5, <1>6 DEF ReactionInv, Answered

LEMMA ReactionsHaveRun == WaitingInv /\ ReactionInv => EveryReactionRuns
<1> SUFFICES ASSUME WaitingInv, ReactionInv, pc = "done", ~Capped
             PROVE  /\ scheduled = fired
                    /\ \A i \in DOMAIN journal : \A a \in Triggered(scenario, "event") :
                           LET e == journal[i]  t == scenario[a].trigger IN
                           t.type = e.type /\ e.project \in t.projects
                           /\ e.at <= window.end =>
                               Instance(a, "evt", None, e.id, None) \in fired
    BY DEF EveryReactionRuns, Capped
<1>1. queue = {}
    BY DEF ReactionInv
<1>2. scheduled = fired
    BY <1>1 DEF WaitingInv
<1>3. QED BY <1>2 DEF ReactionInv, Reacting

\* A run that the cap does not stop has executed whatever was scheduled, and the
\* reactions to every event within the window.
THEOREM SchedulerEveryReactionRuns == Spec => []EveryReactionRuns
BY ReactionsHaveRun, InitStarts, StateInit, StateStep, WaitingInit, WaitingStep, JournalInit,
   JournalStep, ReactionInit, ReactionStep, PTL DEF Spec

-----------------------------------------------------------------------------
(* Bookings.                                                               *)

Flagged(p, b, c) == \E x \in issues : /\ x.code = "forced_overlap" /\ x.subject = p
                                      /\ x.at \in {b.start, c.start}

\* A booking meets no other of the same person, or its overlap is logged.
LEMMA BookFlags ==
    ASSUME BusyInv, OverlapsFlagged, NEW q \in People, NEW earliest \in Nat,
           NEW slot \in Nat, NEW source, Book(q, earliest, slot, source)
    PROVE  OverlapsFlagged'
<1> SUFFICES ASSUME NEW p \in People, NEW b \in busy'[p], NEW c \in busy'[p], b # c,
                    Overlaps(b.start, b.end, c)
             PROVE  Flagged(p, b, c)'
    BY DEF OverlapsFlagged, Flagged
<1>1. issues \subseteq issues'
    BY DEF Book
<1> DEFINE start == SlotStart(p, earliest, slot)
           new == [start |-> start, end |-> start + slot, source |-> source]
<1>2. busy'[p] = IF p = q THEN busy[p] \cup {new} ELSE busy[p]
    BY DEF Book, BusyInv
<1>3. new.start = start /\ new.end = start + slot /\ start \in Nat
    BY SlotStartFacts
<1>4. ASSUME NEW d \in busy[p], Placeable(slot)
      PROVE  ~Overlaps(new.start, new.end, d) /\ ~Overlaps(d.start, d.end, new)
    <2>1. FreeAt(start, slot, busy[p])
        BY <1>4, SlotStartFacts
    <2> HIDE DEF start
    <2>2. ~Overlaps(start, start + slot, d)
        BY <2>1 DEF FreeAt
    <2>3. QED BY <2>2 DEF Overlaps
<1>5. ASSUME ~Placeable(slot), p = q
      PROVE  \E x \in issues' : x.code = "forced_overlap" /\ x.subject = p /\ x.at = new.start
    <2> DEFINE x == [code |-> "forced_overlap", subject |-> p, at |-> start]
    <2>1. x \in issues'
        BY <1>5 DEF Book
    <2> HIDE DEF start
    <2>2. x.code = "forced_overlap" /\ x.subject = p /\ x.at = new.start
        OBVIOUS
    <2>3. QED BY <2>1, <2>2
<1> HIDE DEF new
<1>6. CASE b \in busy[p] /\ c \in busy[p]
    <2>1. Flagged(p, b, c)
        BY <1>6 DEF OverlapsFlagged, Flagged
    <2>2. QED BY <1>1, <2>1 DEF Flagged
<1>7. CASE p = q /\ (b = new \/ c = new)
    <2>1. ~Placeable(slot)
        BY <1>2, <1>4, <1>7
    <2>2. QED BY <1>5, <1>7, <2>1 DEF Flagged
<1>8. QED BY <1>2, <1>6, <1>7

LEMMA OverlapsInit == Started => OverlapsFlagged
BY DEF Started, OverlapsFlagged

LEMMA OverlapsStep == StateInv /\ OverlapsFlagged /\ [Next]_vars => OverlapsFlagged'
<1> SUFFICES ASSUME StateInv, OverlapsFlagged, [Next]_vars PROVE OverlapsFlagged'
    OBVIOUS
<1>1. CASE UNCHANGED busy
    <2>1. issues \subseteq issues'
        BY IssuesGrow
    <2>2. QED BY <1>1, <2>1 DEF OverlapsFlagged
<1>2. QED BY <1>1, BusyChange, BookFlags DEF StateInv

\* Nobody is in two places at once, for any scenario, unless the slot was forced
\* and the overlap is among the issues.
THEOREM SchedulerOverlapsFlagged == Spec => []OverlapsFlagged
BY InitStarts, StateInit, StateStep, OverlapsInit, OverlapsStep, PTL DEF Spec

-----------------------------------------------------------------------------
(* The source of every booking, and the parent of every comment, is in the *)
(* journal.                                                                *)

Logged(id) == \E i \in DOMAIN journal : journal[i].id = id

LoggedAt(id, at) == \E i \in DOMAIN journal : journal[i].id = id /\ journal[i].at = at

LEMMA LoggedStays ==
    ASSUME StateInv, JournalInv, [Next]_vars, NEW id, NEW at
    PROVE  /\ Logged(id) => Logged(id)'
           /\ LoggedAt(id, at) => LoggedAt(id, at)'
<1>1. \A i \in DOMAIN journal : i \in DOMAIN journal' /\ journal'[i] = journal[i]
    <2>1. ASSUME NEW e, Extends(e)
          PROVE  \A i \in DOMAIN journal : i \in DOMAIN journal' /\ journal'[i] = journal[i]
        BY <2>1 DEF Extends, JournalInv
    <2>2. QED BY <2>1, JournalChange, EmitStepFacts, PostCommentFacts
<1>2. QED BY <1>1 DEF Logged, LoggedAt

LEMMA EventIsLogged ==
    ASSUME JournalInv, NEW e, Extends(e)
    PROVE  Logged(e.id)' /\ LoggedAt(e.id, e.at)'
<1>1. Len(journal) + 1 \in DOMAIN journal' /\ journal'[Len(journal) + 1] = e
    BY DEF Extends, JournalInv
<1>2. QED BY <1>1 DEF Logged, LoggedAt

\* A run that has failed may have booked a comment it could not append.
BookingInv ==
    pc # "failed" =>
        \A p \in People : \A b \in busy[p] :
            Logged(b.source) \/ (pc = "effects" /\ b.source = EventId(None, 0))

BookingKept(b) == Logged(b.source) \/ (pc = "effects" /\ b.source = EventId(None, 0))

LEMMA BookingInit == Started => BookingInv
BY DEF Started, BookingInv

\* A booking that is explained stays so.
LEMMA BookingStays ==
    ASSUME StateInv, JournalInv, [Next]_vars, NEW b, BookingKept(b)
    PROVE  BookingKept(b)'
<1>1. CASE Logged(b.source)
    <2>1. PICK c : c = b.source
        OBVIOUS
    <2>2. Logged(c) => Logged(c)'
        BY LoggedStays
    <2>3. QED BY <1>1, <2>1, <2>2 DEF BookingKept
<1>2. CASE pc = "effects" /\ b.source = EventId(None, 0)
    <2>1. CASE EmitStep
        <3>1. PICK e : Extends(e) /\ e.id = EventId(None, 0)
            BY <2>1, EmitStepFacts
        <3>2. QED BY <1>2, <3>1, EventIsLogged DEF BookingKept
    <2>2. CASE pc' = "effects"
        <3>1. SameInstance /\ SameStep
            BY <1>2, <2>2, RunChange DEF Executing, RunPlaces, RunEffects, RunEmits, RunTurns,
               RunSkips, RunPosts, RunEnds, RunStays, SameEvent
        <3>2. EventId(None, 0)' = EventId(None, 0)
            BY <3>1 DEF EventId, SameInstance, SameStep
        <3>3. QED BY <1>2, <2>2, <3>2 DEF BookingKept
    <2>3. QED
        BY <1>2, <2>1, <2>2 DEF Next, PopTick, PopFiring, Settle, TripCap,
           MaterializeCalendars, FinishInstance, StepRaises, PlaceStep, BookActor, Create,
           Mutate, Milestone, AtEffect, NextCommenter, CommentsNoMore, SkipComment,
           PostComment, CommentRaises, EndStep, AtComments, vars
<1>3. QED BY <1>1, <1>2 DEF BookingKept

LEMMA BookingStep == StateInv /\ JournalInv /\ BookingInv /\ [Next]_vars => BookingInv'
<1> SUFFICES ASSUME StateInv, JournalInv, BookingInv, [Next]_vars, pc' # "failed",
                    NEW p \in People, NEW b \in busy'[p]
             PROVE  BookingKept(b)'
    BY DEF BookingInv, BookingKept
<1>0. pc # "failed"
    BY DEF Next, PopTick, PopFiring, Settle, TripCap, MaterializeCalendars, FinishInstance,
       StepRaises, PlaceStep, BookActor, Create, Mutate, Milestone, AtEffect, EmitStep,
       NextCommenter, CommentsNoMore, SkipComment, PostComment, CommentRaises, EndStep,
       AtComments, vars
<1>1. CASE b \in busy[p]
    BY <1>0, <1>1, BookingStays DEF BookingInv, BookingKept
<1>2. CASE b \notin busy[p]
    <2>1. CASE BookActor
        <3>1. PICK q : Book(q, StepBase, Step.slot, EventId(None, 0)) /\ pc = "effects" /\ pc' = pc
            BY <2>1 DEF BookActor
        <3>2. b.source = EventId(None, 0)
            BY <1>2, <3>1 DEF Book, StateInv, BusyInv
        <3>3. SameInstance /\ SameStep
            BY <3>1, RunChange DEF Executing, RunPlaces, RunEffects, RunEmits,
               RunTurns, RunSkips, RunPosts, RunEnds, RunStays, SameEvent
        <3>4. EventId(None, 0)' = EventId(None, 0)
            BY <3>3 DEF EventId, SameInstance, SameStep
        <3>5. QED BY <3>1, <3>2, <3>4 DEF BookingKept
    <2>2. CASE PostComment
        <3>1. PICK earliest : Book(Spreaders[run.who], earliest, CommentSlot,
                                   EventId(Spreaders[run.who], run.n))
            BY <2>2 DEF PostComment
        <3>2. b.source = EventId(Spreaders[run.who], run.n)
            BY <1>2, <3>1 DEF Book, StateInv, BusyInv
        <3>3. PICK e : Extends(e) /\ e.id = EventId(Spreaders[run.who], run.n)
            BY <2>2, PostCommentFacts
        <3>4. QED BY <3>2, <3>3, EventIsLogged DEF BookingKept
    <2>3. CASE UNCHANGED busy
        BY <1>2, <2>3
    <2>4. QED
        BY <2>1, <2>2, <2>3 DEF Next, PopTick, PopFiring, Settle, TripCap,
           MaterializeCalendars, FinishInstance, StepRaises, PlaceStep, Create, Mutate,
           Milestone, AtEffect, EmitStep, NextCommenter, CommentsNoMore, SkipComment,
           CommentRaises, EndStep, AtComments, vars
<1>3. QED BY <1>1, <1>2

\* Between steps every booking has its event in the journal, so that the
\* calendars agree with the log.
THEOREM SchedulerBookingsHaveEvents == Spec => []BookingsHaveEvents
<1>1. BookingInv => BookingsHaveEvents
    BY DEF BookingInv, Logged, BookingsHaveEvents
<1>2. QED BY InitStarts, StateInit, StateStep, JournalInit, JournalStep, BookingInit,
             BookingStep, <1>1, PTL DEF Spec

ReplyInv ==
    /\ RepliesWellFormed
    /\ pc = "comments" => /\ LoggedAt(EventId(None, 0), run.evAt)
                          /\ \A c \in run.posted : LoggedAt(c.id, c.at)

LEMMA ReplyInit == Started => ReplyInv
<1>1. DOMAIN <<>> = {}
    OBVIOUS
<1>2. QED BY <1>1 DEF Started, ReplyInv, RepliesWellFormed

LEMMA ReplyStep == StateInv /\ JournalInv /\ ReplyInv /\ [Next]_vars => ReplyInv'
<1> SUFFICES ASSUME StateInv, JournalInv, ReplyInv, [Next]_vars PROVE ReplyInv'
    OBVIOUS
<1>1. ASSUME NEW e, Extends(e),
             e.id.person = None \/ \E at : LoggedAt(e.parent, at) /\ at <= e.at
      PROVE  RepliesWellFormed'
    <2>1. /\ DOMAIN journal = 1..Len(journal) /\ Len(journal) \in Nat
          /\ DOMAIN journal' = 1..(Len(journal) + 1)
          /\ \A i \in DOMAIN journal : journal'[i] = journal[i]
          /\ journal'[Len(journal) + 1] = e
        BY <1>1 DEF Extends, JournalInv
    <2>2. SUFFICES ASSUME NEW i \in DOMAIN journal', (journal[i].id.person # None)'
                   PROVE  (\E j \in 1..(i-1) : /\ journal[j].id = journal[i].parent
                                               /\ journal[j].at <= journal[i].at)'
        BY DEF RepliesWellFormed
    <2>3. CASE i \in DOMAIN journal
        <3>1. PICK j \in 1..(i-1) : journal[j].id = journal[i].parent
                                    /\ journal[j].at <= journal[i].at
            BY <2>1, <2>2, <2>3 DEF ReplyInv, RepliesWellFormed
        <3>2. j \in DOMAIN journal
            BY <2>1, <2>3
        <3>3. QED BY <2>1, <2>3, <3>1, <3>2
    <2>4. CASE i = Len(journal) + 1
        <3>1. PICK j \in DOMAIN journal : journal[j].id = e.parent /\ journal[j].at <= e.at
            BY <1>1, <2>1, <2>2, <2>4 DEF LoggedAt
        <3>2. j \in 1..(i-1)
            BY <2>1, <2>4
        <3>3. QED BY <2>1, <2>4, <3>1, <3>2
    <2>5. QED BY <2>1, <2>3, <2>4
<1>2. ASSUME NEW c, NEW at, LoggedAt(c, at) PROVE LoggedAt(c, at)'
    BY <1>2, LoggedStays
<1>3. CASE EmitStep
    <2>1. PICK e : /\ Extends(e) /\ e.at = run.evAt /\ e.id = EventId(None, 0)
                   /\ pc = "effects" /\ pc' = "comments"
        BY <1>3, EmitStepFacts
    <2>2. RepliesWellFormed'
        BY <1>1, <2>1 DEF EventId
    <2>3. SameInstance /\ SameEvent /\ run'.posted = {}
        BY <2>1, RunChange DEF Executing, RunPlaces, RunEffects, RunEmits, RunTurns, RunSkips,
           RunPosts, RunEnds, RunStays
    <2>4. EventId(None, 0)' = e.id /\ run'.evAt = e.at
        BY <2>1, <2>3 DEF EventId, SameInstance, SameEvent, SameStep
    <2>5. LoggedAt(e.id, e.at)'
        BY <2>1, EventIsLogged
    <2>6. QED BY <2>2, <2>3, <2>4, <2>5 DEF ReplyInv
<1>4. CASE PostComment
    <2>1. PICK at, parent :
              LET e == Comment(at, parent) IN
              /\ Extends(e)
              /\ e.at = at /\ e.parent = parent
              /\ at \in Nat /\ run.evAt <= at
              /\ parent \in ThreadParents(at)
              /\ run'.posted = run.posted \cup {[id |-> e.id, at |-> at]}
        BY <1>4, PostCommentFacts
    <2>2. PICK e : e = Comment(at, parent)
        OBVIOUS
    <2>3. pc = "comments" /\ pc' = "comments" /\ run.evAt \in Nat
        BY <1>4, PostCommentFacts
    <2>4. \E t : LoggedAt(e.parent, t) /\ t <= e.at
        <3>1. CASE parent = EventId(None, 0)
            BY <2>1, <2>2, <2>3, <3>1 DEF ReplyInv
        <3>2. CASE \E d \in run.posted : d.at < at /\ parent = d.id
            <4>1. PICK d \in run.posted : d.at < at /\ parent = d.id
                BY <3>2
            <4>2. LoggedAt(d.id, d.at)
                BY <2>3 DEF ReplyInv
            <4>3. d.at \in Nat
                BY <4>2 DEF LoggedAt, JournalInv
            <4>4. QED BY <2>1, <2>2, <4>1, <4>2, <4>3
        <3>3. QED BY <2>1, <3>1, <3>2 DEF ThreadParents
    <2>5. RepliesWellFormed'
        BY <1>1, <2>1, <2>2, <2>4
    <2>6. SameInstance /\ SameEvent
        BY <1>4, PostRuns DEF RunPosts
    <2>7. EventId(None, 0)' = EventId(None, 0) /\ run'.evAt = run.evAt
        BY <2>6 DEF EventId, SameInstance, SameEvent, SameStep
    <2>8. LoggedAt(e.id, e.at)'
        BY <2>1, <2>2, EventIsLogged
    <2>9. LoggedAt(EventId(None, 0), run.evAt)'
        <3>1. PICK c, t : c = EventId(None, 0) /\ t = run.evAt
            OBVIOUS
        <3>2. LoggedAt(c, t)'
            BY <1>2, <2>3, <3>1 DEF ReplyInv
        <3>3. QED BY <2>7, <3>1, <3>2
    <2>10. \A c \in run.posted : LoggedAt(c.id, c.at)'
        BY <1>2, <2>3 DEF ReplyInv
    <2>11. \A c \in run'.posted : LoggedAt(c.id, c.at)'
        BY <2>1, <2>2, <2>8, <2>10
    <2>12. QED BY <2>5, <2>9, <2>11 DEF ReplyInv
<1>5. CASE UNCHANGED journal
    <2>1. RepliesWellFormed'
        BY <1>5 DEF ReplyInv, RepliesWellFormed
    <2>2. CASE pc' # "comments"
        BY <2>1, <2>2 DEF ReplyInv
    <2>3. CASE pc' = "comments" /\ ~EmitStep /\ ~PostComment
        <3>1. Executing /\ Executing'
            BY <2>3, ExecutionStarts, PopStarts DEF Executing, Starts
        <3>2. pc = "comments" /\ SameInstance /\ SameEvent /\ run'.posted = run.posted
            BY <2>3, <3>1, RunChange DEF RunPlaces, RunEffects, RunEmits, RunTurns, RunSkips,
               RunPosts, RunEnds, RunStays
        <3>3. EventId(None, 0)' = EventId(None, 0) /\ run'.evAt = run.evAt
            BY <3>2 DEF EventId, SameInstance, SameEvent, SameStep
        <3>4. QED BY <1>5, <2>1, <3>2, <3>3 DEF ReplyInv, LoggedAt
    <2>4. QED BY <1>3, <1>4, <2>2, <2>3
<1>6. QED BY <1>3, <1>4, <1>5, JournalChange

\* A comment replies to an event that is in the journal before it and that is not
\* later than it.
THEOREM SchedulerRepliesWellFormed == Spec => []RepliesWellFormed
<1>1. ReplyInv => RepliesWellFormed
    BY DEF ReplyInv
<1>2. QED BY InitStarts, StateInit, StateStep, JournalInit, JournalStep, ReplyInit, ReplyStep, <1>1,
             PTL DEF Spec

-----------------------------------------------------------------------------
(* Dependencies: the end of an executed step is that of the work begun by  *)
(* its event, and the next step is placed at it or later.                  *)

EndOf(at, step) == Advance(at, IF step.hours = None THEN step.slot ELSE step.hours)

\* The event of step x of the instance being executed.
EventOf(id, x) == id.inst = run.inst /\ id.person = None /\ id.step = x.id

\* Step k follows an earlier one, if any.
FollowsEarlier(k) ==
    Steps[k].after # None => \E l \in 1..(k - 1) : Steps[l].id = Steps[k].after

\* An executed step has an end, that of the work begun by its event.
Executed(k) ==
    /\ FollowsEarlier(k)
    /\ Steps[k].id \in DOMAIN run.ends
    /\ \A i \in DOMAIN journal :
           EventOf(journal[i].id, Steps[k]) =>
               run.ends[Steps[k].id] = EndOf(journal[i].at, Steps[k])

AfterInv ==
    /\ AfterHonoured
    /\ Executing =>
           /\ run.inst.act = run.act
           /\ \A x \in DOMAIN run.ends : \E k \in 1..(run.i - 1) : x = Steps[k].id
           /\ \A k \in 1..(run.i - 1) : Executed(k)
    /\ Placed => /\ FollowsEarlier(run.i)
                 /\ Step.after # None => run.ends[Step.after] <= run.evAt
    /\ pc = "comments" => \A i \in DOMAIN journal :
                              EventOf(journal[i].id, Step) => journal[i].at = run.evAt

\* A step is placed at the end of the one it follows, or later.
LEMMA PlacedAfter ==
    ASSUME StateInv, Executing, run.i <= Len(Steps), StepKnown, Step.after # None
    PROVE  run.ends[Step.after] <= EventTime
<1> DEFINE from == run.ends[Step.after]
<1>1. from \in Nat
    BY DEF StateInv, RunInv, StepKnown
<1>2. Step.offset \in Nat /\ Step.slot \in Nat
    BY StepFacts DEF StateInv, StepOK
<1>3. StepBase = Advance(from, Step.offset)
    BY DEF StepBase
<1> HIDE DEF from
<1>4. StepBase \in Nat /\ from <= StepBase
    BY <1>1, <1>2, <1>3, AdvanceIsEnd
<1>5. EventTime \in Nat /\ StepBase <= EventTime
    <2>1. CASE Actors = <<>>
        BY <1>4, <2>1, NextWorkingStartIsNext DEF EventTime
    <2>2. CASE Actors # <<>>
        <3>1. Actors[1] \in People
            BY <2>2, TeamFacts DEF StateInv
        <3> DEFINE s == SlotStart(Actors[1], StepBase, Step.slot)
        <3>2. s \in Nat /\ StepBase <= s
            BY <1>2, <1>4, <3>1, SlotStartFacts DEF StateInv
        <3>3. EventTime = s
            BY <2>2 DEF EventTime
        <3>4. QED BY <3>2, <3>3
    <2>3. QED BY <2>1, <2>2
<1>6. QED BY <1>1, <1>4, <1>5 DEF from

LEMMA AfterInit == Started => AfterInv
<1>1. DOMAIN <<>> = {}
    OBVIOUS
<1>2. QED BY <1>1 DEF Started, AfterInv, AfterHonoured, Executing, Placed

\* The event of the current step comes when the work of the step it follows is
\* done, and no executed step follows the current one.
LEMMA NextEventHonours ==
    ASSUME StateInv, JournalInv, IdInv, AfterInv, pc = "effects",
           NEW i \in DOMAIN journal, journal[i].id.inst = run.inst, journal[i].id.person = None,
           NEW x \in Range(Steps), x.id = journal[i].id.step
    PROVE  /\ Step.after = x.id => EndOf(journal[i].at, x) <= run.evAt
           /\ x.after # Step.id
<1>1. Executing /\ Placed /\ run.i \in Nat \ {0} /\ run.i <= Len(Steps)
    BY DEF StateInv, RunInv, Executing, Placed
<1>2. ActivationOK(scenario[run.act])
    BY <1>1, ScenarioFacts DEF StateInv, RunInv
<1>3. PICK k \in 1..(run.i - 1) : journal[i].id.step = Steps[k].id
    BY <1>1 DEF IdInv, PastEvent
<1>4. k \in DOMAIN Steps /\ Steps[k] = x
    <2>1. k \in DOMAIN Steps
        BY <1>1, StepIdsDiffer
    <2>2. PICK l \in DOMAIN Steps : x = Steps[l]
        BY DEF Range
    <2>3. QED BY <1>2, <1>3, <2>1, <2>2 DEF ActivationOK, Steps
<1>5. Executed(k) /\ EventOf(journal[i].id, Steps[k])
    BY <1>1, <1>3 DEF AfterInv, EventOf
<1>6. run.ends[x.id] = EndOf(journal[i].at, x)
    BY <1>4, <1>5 DEF Executed
<1>7. Step.id # None /\ x.id # None
    <2>1. run.i \in DOMAIN Steps
        BY <1>1, <1>2 DEF ActivationOK, Steps
    <2>2. QED BY <1>2, <1>4, <2>1 DEF ActivationOK, StepIds, Steps, Step
<1>8. x.after # Step.id
    <2>1. SUFFICES ASSUME x.after = Step.id PROVE FALSE
        OBVIOUS
    <2>2. PICK l \in 1..(k - 1) : Steps[l].id = Step.id
        BY <1>4, <1>5, <1>7, <2>1 DEF Executed, FollowsEarlier
    <2>3. l \in 1..(run.i - 1)
        BY <1>1
    <2>4. QED BY <1>1, <2>2, <2>3, StepIdsDiffer
<1>9. QED BY <1>1, <1>6, <1>7, <1>8 DEF AfterInv

\* No step follows itself.
LEMMA NotAfterItself ==
    ASSUME StateInv, AfterInv, Placed
    PROVE  Step.after # Step.id
<1>1. Executing /\ run.i \in Nat \ {0} /\ run.i <= Len(Steps)
    BY DEF StateInv, RunInv, Executing, Placed
<1>2. Step.id # None
    <2>1. ActivationOK(scenario[run.act])
        BY <1>1, ScenarioFacts DEF StateInv, RunInv
    <2>2. QED BY <1>1, <2>1 DEF ActivationOK, StepIds, Steps, Step
<1>3. SUFFICES ASSUME Step.after = Step.id PROVE FALSE
    OBVIOUS
<1>4. PICK l \in 1..(run.i - 1) : Steps[l].id = Step.id
    BY <1>2, <1>3 DEF AfterInv, FollowsEarlier, Step
<1>5. QED BY <1>1, <1>4, StepIdsDiffer

Honours(a, b) ==
    a.id.inst = b.id.inst /\ a.id.person = None /\ b.id.person = None =>
        \A x, y \in Range(scenario[a.id.inst.act].steps) :
            x.id = a.id.step /\ y.id = b.id.step /\ y.after = x.id => EndOf(a.at, x) <= b.at

LEMMA HonouredStep ==
    StateInv /\ JournalInv /\ IdInv /\ AfterInv /\ [Next]_vars => AfterHonoured'
<1> SUFFICES ASSUME StateInv, JournalInv, IdInv, AfterInv, [Next]_vars PROVE AfterHonoured'
    OBVIOUS
<1>1. AfterHonoured <=> \A i, j \in DOMAIN journal : Honours(journal[i], journal[j])
    BY DEF AfterHonoured, Honours, EndOf
<1>2. AfterHonoured' <=> (\A i, j \in DOMAIN journal : Honours(journal[i], journal[j]))'
    BY DEF AfterHonoured, Honours, EndOf
<1>3. ASSUME NEW a, NEW b PROVE Honours(a, b)' <=> Honours(a, b)
    BY ArgumentsStay DEF Honours, EndOf
<1>4. \A i, j \in DOMAIN journal : Honours(journal[i], journal[j])
    BY <1>1 DEF AfterInv
<1>5. CASE UNCHANGED journal
    <2>1. SUFFICES ASSUME NEW i \in DOMAIN journal, NEW j \in DOMAIN journal
                   PROVE  Honours(journal[i], journal[j])'
        BY <1>2, <1>5
    <2>2. PICK a, b : a = journal[i] /\ b = journal[j]
        OBVIOUS
    <2>3. Honours(a, b)'
        BY <1>3, <1>4, <2>2
    <2>4. QED BY <1>5, <2>2, <2>3
<1>6. ASSUME NEW e, Extends(e), Honours(e, e),
             \A i \in DOMAIN journal : Honours(journal[i], e) /\ Honours(e, journal[i])
      PROVE  AfterHonoured'
    <2>1. /\ DOMAIN journal = 1..Len(journal) /\ Len(journal) \in Nat
          /\ DOMAIN journal' = 1..(Len(journal) + 1)
          /\ \A i \in DOMAIN journal : journal'[i] = journal[i]
          /\ journal'[Len(journal) + 1] = e
        BY <1>6 DEF Extends, JournalInv
    <2>2. SUFFICES ASSUME NEW i \in DOMAIN journal', NEW j \in DOMAIN journal'
                   PROVE  Honours(journal[i], journal[j])'
        BY <1>2
    <2>3. PICK a, b : a = journal'[i] /\ b = journal'[j]
        OBVIOUS
    <2>4. (i \in DOMAIN journal \/ i = Len(journal) + 1)
          /\ (j \in DOMAIN journal \/ j = Len(journal) + 1)
        BY <2>1
    <2>5. Honours(a, b)
        <3>1. CASE i \in DOMAIN journal /\ j \in DOMAIN journal
            BY <1>4, <2>1, <2>3, <3>1
        <3>2. CASE i = Len(journal) + 1
            BY <1>6, <2>1, <2>3, <2>4, <3>2
        <3>3. CASE j = Len(journal) + 1
            BY <1>6, <2>1, <2>3, <2>4, <3>3
        <3>4. QED BY <2>4, <3>1, <3>2, <3>3
    <2>6. Honours(a, b)'
        BY <1>3, <2>5
    <2>7. QED BY <2>3, <2>6
<1>7. CASE PostComment
    <2>1. PICK e : Extends(e) /\ e.id = EventId(Spreaders[run.who], run.n)
                   /\ Spreaders[run.who] \in People
        BY <1>7, PostCommentFacts
    <2>2. e.id.person # None
        BY <2>1, SchedulerAssumption DEF EventId
    <2>3. QED BY <1>6, <2>1, <2>2 DEF Honours
<1>8. CASE EmitStep
    <2>1. PICK e : /\ Extends(e) /\ e.id = EventId(None, 0) /\ e.at = run.evAt
                   /\ pc = "effects" /\ run.i <= Len(Steps)
        BY <1>8, EmitStepFacts
    <2>2. e.id.inst = run.inst /\ e.id.person = None /\ e.id.step = Step.id
        BY <2>1 DEF EventId
    <2>3. Executing /\ Placed /\ run.inst.act = run.act
        BY <2>1 DEF AfterInv, Executing, Placed
    <2>4. ASSUME NEW y \in Range(Steps), y.id = Step.id PROVE y = Step
        <3>1. ActivationOK(scenario[run.act])
            BY <2>3, ScenarioFacts DEF StateInv, RunInv
        <3>2. PICK k \in DOMAIN Steps : y = Steps[k]
            BY DEF Range
        <3>3. run.i \in DOMAIN Steps
            BY <2>1, <2>3, StepFacts DEF StateInv
        <3>4. QED BY <2>4, <3>1, <3>2, <3>3 DEF ActivationOK, Steps, Step
    <2>5. Honours(e, e)
        BY <2>2, <2>3, <2>4, NotAfterItself DEF Honours, Steps
    <2>6. ASSUME NEW i \in DOMAIN journal
          PROVE  Honours(journal[i], e) /\ Honours(e, journal[i])
        <3>1. CASE journal[i].id.inst # run.inst \/ journal[i].id.person # None
            BY <2>2, <3>1 DEF Honours
        <3>2. CASE journal[i].id.inst = run.inst /\ journal[i].id.person = None
            <4>1. ASSUME NEW x \in Range(Steps), x.id = journal[i].id.step
                  PROVE  /\ Step.after = x.id => EndOf(journal[i].at, x) <= e.at
                         /\ x.after # Step.id
                BY <2>1, <3>2, <4>1, NextEventHonours
            <4>2. scenario[journal[i].id.inst.act].steps = Steps
                  /\ scenario[e.id.inst.act].steps = Steps
                BY <2>2, <2>3, <3>2 DEF Steps
            <4>3. Honours(journal[i], e)
                BY <2>2, <2>4, <3>2, <4>1, <4>2 DEF Honours
            <4>4. Honours(e, journal[i])
                BY <2>2, <2>4, <3>2, <4>1, <4>2 DEF Honours
            <4>5. QED BY <4>3, <4>4
        <3>3. QED BY <3>1, <3>2
    <2>7. QED BY <1>6, <2>1, <2>5, <2>6
<1>9. QED BY <1>5, <1>7, <1>8, JournalChange

\* What the instance being executed has done stays done.
LEMMA ExecutedStays ==
    ASSUME StateInv, JournalInv, IdInv, AfterInv, [Next]_vars, Executing, Executing',
           NEW k \in 1..(run.i - 1)
    PROVE  Executed(k)'
<1>1. SameInstance /\ Executed(k) /\ run.i \in Nat \ {0}
    BY RunChange DEF AfterInv, StateInv, RunInv
<1>2. FollowsEarlier(k)'
    BY <1>1 DEF FollowsEarlier, Executed, SameInstance
<1>3. /\ Steps[k].id \in DOMAIN run'.ends
      /\ run'.ends[Steps[k].id] = run.ends[Steps[k].id]
    <2>1. CASE RunEnds
        <3>1. pc = "comments" /\ run.i <= Len(Steps)
            BY <2>1 DEF RunEnds, StateInv, RunInv, Placed, Executing
        <3>2. Steps[k].id # Step.id
            BY <3>1, StepIdsDiffer
        <3>3. QED BY <1>1, <2>1, <3>2 DEF RunEnds, Executed
    <2>2. CASE run'.ends = run.ends
        BY <1>1, <2>2 DEF Executed
    <2>3. QED BY <2>1, <2>2, RunChange DEF RunPlaces, RunEffects, RunEmits, RunTurns, RunSkips,
             RunPosts, RunStays, SameEvent, SameStep
<1>4. ASSUME NEW i \in DOMAIN journal', EventOf(journal'[i].id, Steps[k])
      PROVE  run.ends[Steps[k].id] = EndOf(journal'[i].at, Steps[k])
    <2>1. CASE UNCHANGED journal
        BY <1>1, <1>4, <2>1 DEF Executed
    <2>2. ASSUME NEW e, Extends(e), ~EventOf(e.id, Steps[k])
          PROVE  run.ends[Steps[k].id] = EndOf(journal'[i].at, Steps[k])
        <3>1. /\ DOMAIN journal = 1..Len(journal) /\ Len(journal) \in Nat
              /\ DOMAIN journal' = 1..(Len(journal) + 1)
              /\ \A j \in DOMAIN journal : journal'[j] = journal[j]
              /\ journal'[Len(journal) + 1] = e
            BY <2>2 DEF Extends, JournalInv
        <3>2. i \in DOMAIN journal
            BY <1>4, <2>2, <3>1
        <3>3. QED BY <1>1, <1>4, <3>1, <3>2 DEF Executed
    <2>3. CASE EmitStep
        <3>1. PICK e : Extends(e) /\ e.id = EventId(None, 0) /\ run.i <= Len(Steps)
            BY <2>3, EmitStepFacts
        <3>2. ~EventOf(e.id, Steps[k])
            BY <3>1, StepIdsDiffer DEF EventOf, EventId
        <3>3. QED BY <2>2, <3>1, <3>2
    <2>4. CASE PostComment
        <3>1. PICK e : Extends(e) /\ e.id = EventId(Spreaders[run.who], run.n)
                       /\ Spreaders[run.who] \in People
            BY <2>4, PostCommentFacts
        <3>2. ~EventOf(e.id, Steps[k])
            BY <3>1, SchedulerAssumption DEF EventOf, EventId
        <3>3. QED BY <2>2, <3>1, <3>2
    <2>5. QED BY <2>1, <2>3, <2>4, JournalChange
<1>5. QED BY <1>1, <1>2, <1>3, <1>4 DEF Executed, EventOf, SameInstance

\* The instant of the current step's event.
LEMMA CurrentEventStep ==
    ASSUME StateInv, JournalInv, IdInv, AfterInv, [Next]_vars, pc' = "comments"
    PROVE  (\A i \in DOMAIN journal : EventOf(journal[i].id, Step) => journal[i].at = run.evAt)'
<1>1. Executing /\ Executing'
    BY ExecutionStarts, PopStarts DEF Executing, Starts
<1>2. SameInstance /\ SameEvent
    BY <1>1, RunChange DEF RunPlaces, RunEffects, RunEmits, RunTurns, RunSkips, RunPosts,
       RunEnds, RunStays
<1>3. SUFFICES ASSUME NEW i \in DOMAIN journal', EventOf(journal'[i].id, Step)
               PROVE  journal'[i].at = run.evAt
    BY <1>2 DEF EventOf, SameInstance, SameEvent, SameStep
<1>4. ASSUME NEW e, Extends(e)
      PROVE  (i \in DOMAIN journal /\ journal'[i] = journal[i]) \/ journal'[i] = e
    BY <1>4 DEF Extends, JournalInv
<1>5. CASE pc = "comments" /\ UNCHANGED journal
    BY <1>3, <1>5 DEF AfterInv
<1>6. CASE EmitStep
    <2>1. PICK e : Extends(e) /\ e.at = run.evAt /\ pc = "effects" /\ run.i <= Len(Steps)
        BY <1>6, EmitStepFacts
    <2>2. ASSUME i \in DOMAIN journal, journal'[i] = journal[i] PROVE FALSE
        <3>1. PICK k \in 1..(run.i - 1) : journal[i].id.step = Steps[k].id
            BY <1>1, <1>3, <2>1, <2>2 DEF IdInv, PastEvent, EventOf
        <3>2. QED BY <1>1, <1>3, <2>1, <2>2, <3>1, StepIdsDiffer DEF EventOf
    <2>3. QED BY <1>4, <2>1, <2>2
<1>7. CASE PostComment
    <2>1. PICK e : Extends(e) /\ e.id = EventId(Spreaders[run.who], run.n)
                   /\ Spreaders[run.who] \in People /\ pc = "comments"
        BY <1>7, PostCommentFacts
    <2>2. e.id.person # None
        BY <2>1, SchedulerAssumption DEF EventId
    <2>3. QED BY <1>3, <1>4, <2>1, <2>2 DEF AfterInv, EventOf
<1>8. CASE pc # "comments" /\ ~EmitStep
    BY <1>1, <1>8, RunChange DEF RunPlaces, RunEffects, RunEmits, RunTurns, RunSkips,
       RunPosts, RunEnds, RunStays
<1>9. QED BY <1>5, <1>6, <1>7, <1>8, JournalChange

\* When a step has ended it has been executed.
LEMMA EndExecutes ==
    ASSUME StateInv, AfterInv, RunEnds, SameInstance, UNCHANGED journal
    PROVE  \A k \in 1..(run'.i - 1) : k = run.i => Executed(k)'
<1>1. pc = "comments" /\ Executing /\ Placed /\ run'.i = run.i + 1
      /\ run'.ends = [x \in DOMAIN run.ends \cup {Step.id} |->
                         IF x = Step.id THEN StepEnd ELSE run.ends[x]]
    BY DEF RunEnds, Executing, Placed
<1>2. FollowsEarlier(run.i)
    BY <1>1 DEF AfterInv
<1>3. SUFFICES ASSUME NEW k \in 1..(run'.i - 1), k = run.i PROVE Executed(k)'
    OBVIOUS
<1>4. FollowsEarlier(k)' /\ Steps[k] = Step
    BY <1>2, <1>3 DEF FollowsEarlier, SameInstance, Step
<1>5. Step.id \in DOMAIN run'.ends /\ run'.ends[Step.id] = StepEnd
    BY <1>1
<1>6. ASSUME NEW i \in DOMAIN journal, EventOf(journal[i].id, Step)
      PROVE  StepEnd = EndOf(journal[i].at, Step)
    BY <1>1, <1>6 DEF AfterInv, StepEnd, EndOf
<1>7. QED BY <1>4, <1>5, <1>6 DEF Executed, EventOf, SameInstance

LEMMA AfterStep ==
    StateInv /\ WaitingInv /\ JournalInv /\ IdInv /\ AfterInv /\ [Next]_vars => AfterInv'
<1> SUFFICES ASSUME StateInv, WaitingInv, JournalInv, IdInv, AfterInv, [Next]_vars
             PROVE  AfterInv'
    OBVIOUS
<1>1. AfterHonoured'
    BY HonouredStep
<1>2. (pc = "comments" => \A i \in DOMAIN journal :
                              EventOf(journal[i].id, Step) => journal[i].at = run.evAt)'
    BY CurrentEventStep
<1>3. CASE ~Executing'
    BY <1>1, <1>2, <1>3 DEF AfterInv, Executing, Placed
<1>4. CASE ~Executing /\ Executing'
    <2>1. PICK e \in queue : ~e.tick /\ run'.inst = e.inst /\ run'.act = e.act
                             /\ run'.i = 1 /\ run'.ends = <<>> /\ pc' = "step"
        BY <1>4, ExecutionStarts, PopStarts DEF Starts
    <2>2. e.inst.act = e.act
        BY <2>1 DEF WaitingInv
    <2>3. DOMAIN run'.ends = {} /\ 1..(run'.i - 1) = {}
        BY <2>1
    <2>4. QED BY <1>1, <1>2, <2>1, <2>2, <2>3 DEF AfterInv, Executing, Placed
<1>5. CASE Executing /\ Executing'
    <2>1. SameInstance /\ run.i \in Nat \ {0}
        BY <1>5, RunChange DEF StateInv, RunInv
    <2>2. run'.inst.act = run'.act
        BY <1>5, <2>1 DEF AfterInv, SameInstance
    <2>3. \A k \in 1..(run.i - 1) : Executed(k)'
        BY <1>5, ExecutedStays
    <2>4. CASE RunEnds
        <3>1. /\ run'.i = run.i + 1 /\ pc' = "step" /\ UNCHANGED journal
              /\ DOMAIN run'.ends = DOMAIN run.ends \cup {Step.id}
            BY <2>4 DEF RunEnds, EndStep, AtComments
        <3>2. \A k \in 1..(run'.i - 1) : k \in 1..(run.i - 1) \/ k = run.i
            BY <2>1, <3>1
        <3>3. \A k \in 1..(run'.i - 1) : Executed(k)'
            BY <2>1, <2>3, <2>4, <3>1, <3>2, EndExecutes
        <3>4. ASSUME NEW x \in DOMAIN run'.ends
              PROVE  \E k \in 1..(run'.i - 1) : x = Steps[k].id
            <4>1. CASE x \in DOMAIN run.ends
                <5>1. PICK k \in 1..(run.i - 1) : x = Steps[k].id
                    BY <1>5, <4>1 DEF AfterInv
                <5>2. k \in 1..(run'.i - 1)
                    BY <2>1, <3>1
                <5>3. QED BY <5>1, <5>2
            <4>2. CASE x = Step.id
                <5>1. run.i \in 1..(run'.i - 1)
                    BY <2>1, <3>1
                <5>2. QED BY <4>2, <5>1 DEF Step
            <4>3. QED BY <3>1, <4>1, <4>2
        <3>5. QED BY <1>1, <1>2, <2>1, <2>2, <3>1, <3>3, <3>4
                  DEF AfterInv, Executing, Placed, SameInstance
    <2>5. CASE ~RunEnds
        <3>1. SameStep /\ (SameEvent \/ RunPlaces)
            BY <1>5, <2>5, RunChange DEF RunPlaces, RunEffects, RunEmits, RunTurns, RunSkips,
               RunPosts, RunStays, SameEvent
        <3>2. /\ \A x \in DOMAIN run'.ends : \E k \in 1..(run'.i - 1) : x = Steps[k].id
              /\ \A k \in 1..(run'.i - 1) : Executed(k)'
            BY <1>5, <2>3, <3>1 DEF AfterInv, SameStep
        <3>3. CASE RunPlaces
            <4>1. /\ run.i <= Len(Steps) /\ StepKnown /\ pc' = "effects"
                  /\ run'.evAt = EventTime
                BY <3>3 DEF RunPlaces
            <4>2. Step.after # None =>
                      /\ run.ends[Step.after] <= EventTime
                      /\ \E l \in 1..(run.i - 1) : Steps[l].id = Step.after
                BY <1>5, <4>1, PlacedAfter DEF AfterInv, StepKnown
            <4>3. FollowsEarlier(run.i)' /\ (Step.after # None => run.ends[Step.after] <= run.evAt)'
                BY <2>1, <3>1, <4>1, <4>2 DEF FollowsEarlier, SameInstance, SameStep, Step
            <4>4. QED BY <1>1, <1>2, <2>1, <2>2, <3>1, <3>2, <4>1, <4>3
                      DEF AfterInv, SameInstance, SameStep
        <3>4. CASE SameEvent /\ ~RunPlaces
            <4>1. Placed' => Placed
                BY <1>5, <2>5, <3>4, RunChange DEF RunEffects, RunEmits, RunTurns, RunSkips,
                   RunPosts, RunStays, Placed
            <4>2. (Placed => /\ FollowsEarlier(run.i)
                             /\ Step.after # None => run.ends[Step.after] <= run.evAt)'
                BY <2>1, <3>4, <4>1
                   DEF AfterInv, FollowsEarlier, SameInstance, SameEvent, SameStep
            <4>3. QED BY <1>1, <1>2, <2>1, <2>2, <3>1, <3>2, <4>2 DEF AfterInv, SameInstance
        <3>5. QED BY <3>1, <3>3, <3>4
    <2>6. QED BY <2>4, <2>5
<1>6. QED BY <1>3, <1>4, <1>5

\* Work promised to follow a step starts when the work of that step is done,
\* whatever the bookings of the people in between.
THEOREM SchedulerAfterHonoured == Spec => []AfterHonoured
<1>1. AfterInv => AfterHonoured
    BY DEF AfterInv
<1>2. QED BY InitStarts, StateInit, StateStep, WaitingInit, WaitingStep, JournalInit, JournalStep,
             IdInit, IdStep, AfterInit, AfterStep, <1>1, PTL DEF Spec

\* The event queue of any scenario: ahead of the clock, and nothing in it has run.
THEOREM SchedulerQueueSound == Spec => []QueueSound
<1>1. QueueAhead /\ NeverQueuedAgain => QueueSound
    BY DEF QueueSound
<1>2. QED BY SchedulerQueueAhead, SchedulerNeverQueuedAgain, <1>1, PTL

\* The journal and the calendars of any scenario agree, in all six respects.
THEOREM SchedulerJournalSound == Spec => []JournalSound
<1>1. ASSUME UniqueEventIds, WorkingHours, RepliesWellFormed,
             AfterHonoured, OverlapsFlagged, BookingsHaveEvents
      PROVE  JournalSound
    BY <1>1 DEF JournalSound
<1>2. QED BY SchedulerUniqueEventIds, SchedulerWorkingHours, SchedulerRepliesWellFormed,
             SchedulerAfterHonoured, SchedulerOverlapsFlagged, SchedulerBookingsHaveEvents,
             <1>1, PTL

-----------------------------------------------------------------------------
(***************************************************************************)
(* What a run of any scenarios over one world keeps: the promises of the   *)
(* scheduler in a world that has been played in, the corpus and calendars  *)
(* gathered from all of them, and the report of the validator on these.    *)
(***************************************************************************)

-----------------------------------------------------------------------------
(* Nothing happens before the window, and events are what NewEvent makes.  *)

IsEvent(e) == e = [id |-> e.id, type |-> e.type, at |-> e.at, parent |-> e.parent,
                   project |-> e.project]

StartInv ==
    /\ window.start <= clock
    /\ \A i \in DOMAIN journal : IsEvent(journal[i]) /\ window.start <= journal[i].at
    /\ \A p \in People : \A b \in busy[p] : window.start <= b.start /\ b.start <= b.end

LEMMA StartStarts == Started => StartInv
<1>1. DOMAIN <<>> = {}
    OBVIOUS
<1>2. ASSUME Started PROVE window.start <= clock
    BY <1>2, WindowFacts DEF Started
<1>3. QED BY <1>1, <1>2 DEF Started, StartInv

\* The clock never goes back.
LEMMA ClockAdvances ==
    ASSUME StateInv, [Next]_vars
    PROVE  clock' \in Nat /\ clock <= clock'
<1>1. CASE \E e \in queue : clock' = e.at
    BY <1>1 DEF StateInv, QueueInv
<1>2. CASE UNCHANGED clock
    BY <1>2 DEF StateInv, QueueInv
<1>3. QED
    BY <1>1, <1>2 DEF Next, PopTick, PopFiring, Earliest, Settle, TripCap,
       MaterializeCalendars, FinishInstance, StepRaises, PlaceStep, BookActor, Create, Mutate,
       Milestone, AtEffect, EmitStep, NextCommenter, CommentsNoMore, SkipComment, PostComment,
       CommentRaises, EndStep, AtComments, vars

\* A booking begins no earlier than it was asked for.
LEMMA BookStarts ==
    ASSUME StateInv, StartInv, NEW q \in People, NEW earliest \in Nat, NEW slot \in Nat,
           NEW source, Book(q, earliest, slot, source), clock <= earliest
    PROVE  \A p \in People : \A b \in busy'[p] : window.start <= b.start /\ b.start <= b.end
<1> SUFFICES ASSUME NEW p \in People, NEW b \in busy'[p]
             PROVE  window.start <= b.start /\ b.start <= b.end
    OBVIOUS
<1> DEFINE start == SlotStart(p, earliest, slot)
<1>1. start \in Nat /\ earliest <= start
    BY SlotStartFacts DEF StateInv
<1>2. busy'[p] = IF p = q
                 THEN busy[p] \cup {[start |-> start, end |-> start + slot, source |-> source]}
                 ELSE busy[p]
    BY DEF Book, StateInv, BusyInv
<1> HIDE DEF start
<1>3. window.start \in Nat /\ clock \in Nat /\ window.start <= clock
    BY SchedulerAssumption DEF StateInv, ControlInv, QueueInv, StartInv
<1>4. CASE b \in busy[p]
    BY <1>4 DEF StartInv
<1>5. CASE b = [start |-> start, end |-> start + slot, source |-> source]
    BY <1>1, <1>3, <1>5
<1>6. QED BY <1>2, <1>4, <1>5

\* What a step books or appends comes after the clock.
LEMMA StartBookings ==
    ASSUME StateInv, StartInv, [Next]_vars
    PROVE  \A p \in People : \A b \in busy'[p] : window.start <= b.start /\ b.start <= b.end
<1>1. CASE UNCHANGED busy
    BY <1>1 DEF StartInv
<1>2. QED BY <1>1, BusyChange, BookStarts

LEMMA StartStep == StateInv /\ JournalInv /\ StartInv /\ [Next]_vars => StartInv'
<1> SUFFICES ASSUME StateInv, JournalInv, StartInv, [Next]_vars PROVE StartInv'
    OBVIOUS
<1>1. window' = window /\ window.start \in Nat /\ clock \in Nat
    BY ArgumentsStay, SchedulerAssumption DEF StateInv, ControlInv, QueueInv
<1>2. window'.start <= clock'
    BY <1>1, ClockAdvances DEF StartInv
<1>3. ASSUME NEW e, Extends(e), IsEvent(e), e.at \in Nat, clock <= e.at
      PROVE  \A i \in DOMAIN journal' : IsEvent(journal'[i]) /\ window.start <= journal'[i].at
    <2>1. /\ \A i \in DOMAIN journal : journal'[i] = journal[i]
          /\ journal'[Len(journal) + 1] = e
          /\ \A i \in DOMAIN journal' : i \in DOMAIN journal \/ i = Len(journal) + 1
        BY <1>3 DEF Extends, JournalInv
    <2>2. window.start <= e.at
        BY <1>1, <1>3 DEF StartInv
    <2>3. QED BY <1>3, <2>1, <2>2 DEF StartInv
<1>4. \A i \in DOMAIN journal' : IsEvent(journal'[i]) /\ window.start <= journal'[i].at
    <2>1. CASE UNCHANGED journal
        BY <2>1 DEF StartInv
    <2>2. CASE EmitStep
        <3>1. Extends(StepEvent) /\ StepEvent.at = run.evAt /\ run.evAt \in Nat /\ pc = "effects"
            BY <2>2, EmitStepFacts
        <3>2. clock <= run.evAt
            BY <3>1 DEF StateInv, RunInv, Executing
        <3>3. IsEvent(StepEvent)
            BY DEF IsEvent, StepEvent, NewEvent
        <3>4. QED BY <1>3, <3>1, <3>2, <3>3
    <2>3. CASE PostComment
        <3>1. PICK at, parent : /\ Extends(Comment(at, parent)) /\ Comment(at, parent).at = at
                                /\ at \in Nat /\ run.evAt <= at
            BY <2>3, PostCommentFacts
        <3>2. pc = "comments" /\ run.evAt \in Nat
            BY <2>3, PostCommentFacts
        <3>3. clock <= at
            BY <1>1, <3>1, <3>2 DEF StateInv, RunInv, Executing
        <3>4. IsEvent(Comment(at, parent))
            BY DEF IsEvent, Comment, NewEvent
        <3>5. QED BY <1>3, <3>1, <3>3, <3>4
    <2>4. QED BY <2>1, <2>2, <2>3, JournalChange
<1>5. QED BY <1>1, <1>2, <1>4, StartBookings DEF StartInv

-----------------------------------------------------------------------------
(* The parent of every event is in the journal before it.                  *)

\* The id of the event of step x of the instance being executed.
StepEventId(x) == [inst |-> run.inst, step |-> x, person |-> None, n |-> 0]

HangsOff(id) == id = None \/ Logged(id)

ParentInv ==
    /\ \A i \in DOMAIN journal : HangsOff(journal[i].parent)
    /\ Executing => \A x \in DOMAIN run.ends : Logged(StepEventId(x))

LEMMA ParentStarts == Started => ParentInv
<1>1. DOMAIN <<>> = {}
    OBVIOUS
<1>2. QED BY <1>1 DEF Started, ParentInv, Executing

LEMMA HangsOffStays ==
    ASSUME StateInv, JournalInv, [Next]_vars, NEW id, HangsOff(id)
    PROVE  HangsOff(id)'
<1>1. CASE Logged(id)
    BY <1>1, LoggedStays DEF HangsOff
<1>2. QED BY <1>1 DEF HangsOff

LEMMA ParentStays ==
    ASSUME StateInv, JournalInv, ParentInv, [Next]_vars,
           UNCHANGED journal \/ \E e : Extends(e) /\ HangsOff(e.parent)
    PROVE  \A i \in DOMAIN journal' : HangsOff(journal[i].parent)'
<1> SUFFICES ASSUME NEW i \in DOMAIN journal' PROVE HangsOff(journal[i].parent)'
    OBVIOUS
<1>1. PICK d : d = journal'[i].parent
    OBVIOUS
<1>2. HangsOff(d)
    <2>1. CASE UNCHANGED journal
        BY <1>1, <2>1 DEF ParentInv
    <2>2. CASE \E e : Extends(e) /\ HangsOff(e.parent)
        <3>1. PICK e : Extends(e) /\ HangsOff(e.parent)
            BY <2>2
        <3>2. /\ \A j \in DOMAIN journal : journal'[j] = journal[j]
              /\ journal'[Len(journal) + 1] = e
              /\ DOMAIN journal = 1..Len(journal) /\ Len(journal) \in Nat
              /\ DOMAIN journal' = 1..(Len(journal) + 1)
            BY <3>1 DEF Extends, JournalInv
        <3>3. i \in DOMAIN journal \/ i = Len(journal) + 1
            BY <3>2
        <3>4. QED BY <1>1, <3>1, <3>2, <3>3 DEF ParentInv
    <2>3. QED BY <2>1, <2>2
<1>3. HangsOff(d)'
    BY <1>2, HangsOffStays
<1>4. QED BY <1>1, <1>3

\* A step hangs off an executed one of its instance, a comment off one of its step.
LEMMA NewParents ==
    ASSUME StateInv, JournalInv, ReplyInv, ParentInv, [Next]_vars
    PROVE  UNCHANGED journal \/ \E e : Extends(e) /\ HangsOff(e.parent)
<1>1. CASE EmitStep
    <2>1. Extends(StepEvent) /\ Executing
        BY <1>1, EmitStepFacts DEF Executing
    <2>2. StepEvent.parent = StepParent
        BY DEF StepEvent, NewEvent
    <2> DEFINE key == IF Step.parent # None THEN Step.parent ELSE Step.after
    <2>3. StepParent = IF key \in DOMAIN run.ends THEN StepEventId(key) ELSE None
        BY DEF StepParent, StepEventId, EventId
    <2>4. HangsOff(StepParent)
        BY <2>1, <2>3 DEF HangsOff, ParentInv
    <2>5. QED BY <2>1, <2>2, <2>4
<1>2. CASE PostComment
    <2>1. PICK at, parent : /\ Extends(Comment(at, parent))
                            /\ Comment(at, parent).parent = parent
                            /\ parent \in ThreadParents(at)
        BY <1>2, PostCommentFacts
    <2>2. pc = "comments"
        BY <1>2, PostCommentFacts
    <2>3. Logged(parent)
        BY <2>1, <2>2 DEF ThreadParents, ReplyInv, LoggedAt, Logged
    <2>4. QED BY <2>1, <2>3 DEF HangsOff
<1>3. QED BY <1>1, <1>2, JournalChange

LEMMA ParentStep ==
    StateInv /\ JournalInv /\ ReplyInv /\ ParentInv /\ [Next]_vars => ParentInv'
<1> SUFFICES ASSUME StateInv, JournalInv, ReplyInv, ParentInv, [Next]_vars PROVE ParentInv'
    OBVIOUS
<1>1. \A i \in DOMAIN journal' : HangsOff(journal[i].parent)'
    BY NewParents, ParentStays
<1>2. ASSUME NEW id, Logged(id) PROVE Logged(id)'
    BY <1>2, LoggedStays
<1>3. ASSUME Executing', NEW x \in DOMAIN run'.ends PROVE Logged(StepEventId(x))'
    <2>1. CASE ~Executing
        <3>1. run'.ends = <<>>
            BY <1>3, <2>1, ExecutionStarts, PopStarts DEF Starts
        <3>2. QED BY <1>3, <3>1
    <2>2. CASE Executing
        <3>1. SameInstance /\ run'.inst = run.inst
            BY <1>3, <2>2, RunChange DEF SameInstance
        <3>2. PICK id : id = StepEventId(x)
            OBVIOUS
        <3>3. StepEventId(x)' = id
            BY <3>1, <3>2 DEF StepEventId
        <3>4. Logged(id)
            <4>1. CASE x \in DOMAIN run.ends
                BY <2>2, <3>2, <4>1 DEF ParentInv
            <4>2. CASE x \notin DOMAIN run.ends
                <5>1. pc = "comments" /\ x = Step.id
                    BY <1>3, <2>2, <4>2, RunChange DEF RunPlaces, RunEffects, RunEmits, RunTurns,
                       RunSkips, RunPosts, RunEnds, RunStays, SameEvent, SameStep
                <5>2. EventId(None, 0) = id
                    BY <3>2, <5>1 DEF EventId, StepEventId
                <5>3. QED BY <5>1, <5>2 DEF ReplyInv, LoggedAt, Logged
            <4>3. QED BY <4>1, <4>2
        <3>5. QED BY <1>2, <3>3, <3>4
    <2>3. QED BY <2>1, <2>2
<1>4. QED BY <1>1, <1>3 DEF ParentInv

-----------------------------------------------------------------------------
(* How a scenario ends.                                                    *)

Entries ==
    UNION {{[person |-> p, start |-> b.start, end |-> b.end, source |-> b.source] :
                b \in {c \in busy[p] : FirstFor(p, c)}} : p \in People}

EndInv ==
    /\ pc = "done" => calendar = Entries
    /\ pc = "failed" => run # Idle /\ (~StepKnown \/ ComesAgain)

LEMMA EndStarts == Started => EndInv
BY DEF Started, EndInv

LEMMA EndKept == StateInv /\ EndInv /\ [Next]_vars => EndInv'
<1> SUFFICES ASSUME StateInv, EndInv, [Next]_vars PROVE EndInv'
    OBVIOUS
<1>1. CASE MaterializeCalendars
    BY <1>1 DEF MaterializeCalendars, EndInv, Entries, FirstFor
<1>2. CASE StepRaises
    <2>1. run = [f \in RunFields |-> run[f]] /\ pc' = "failed"
        BY <1>2 DEF StepRaises, StateInv, RunInv, Executing
    <2>2. "i" \in DOMAIN run /\ "i" \notin DOMAIN Idle
        BY <2>1 DEF RunFields, Idle
    <2>3. run # Idle
        BY <2>2
    <2>4. run' = run /\ scenario' = scenario /\ ~StepKnown
        BY <1>2 DEF StepRaises
    <2>5. QED BY <2>1, <2>3, <2>4 DEF EndInv, StepKnown, Step, Steps
<1>3. CASE CommentRaises
    <2>1. run = [f \in RunFields |-> run[f]] /\ pc' = "failed"
        BY <1>3 DEF CommentRaises, AtComments, StateInv, RunInv, Executing
    <2>2. "i" \in DOMAIN run /\ "i" \notin DOMAIN Idle
        BY <2>1 DEF RunFields, Idle
    <2>3. run # Idle
        BY <2>2
    <2>4. run' = run /\ scenario' = scenario /\ ComesAgain
        BY <1>3 DEF CommentRaises, AtComments
    <2>5. QED BY <2>1, <2>3, <2>4 DEF EndInv, ComesAgain, Spreaders, Step, Steps
<1>4. CASE UNCHANGED vars
    <2>1. calendar' = calendar /\ Entries' = Entries
        BY <1>4 DEF vars, Entries, FirstFor
    <2>2. StepKnown' = StepKnown /\ ComesAgain' = ComesAgain
        BY <1>4 DEF vars, StepKnown, ComesAgain, Spreaders, Step, Steps
    <2>3. QED BY <1>4, <2>1, <2>2 DEF vars, EndInv
<1>5. CASE pc' \notin {"done", "failed"}
    BY <1>5 DEF EndInv
<1>6. QED
    BY <1>1, <1>2, <1>3, <1>4, <1>5 DEF Next, PopTick, PopFiring, Settle, TripCap,
       FinishInstance, PlaceStep, BookActor, Create, Mutate, Milestone, AtEffect, EmitStep,
       NextCommenter, CommentsNoMore, SkipComment, PostComment, EndStep, AtComments, StateInv,
       ControlInv

-----------------------------------------------------------------------------
(* All that a scenario keeps while it is played, in any world.             *)

PlayInv ==
    /\ StateInv /\ WaitingInv
    /\ JournalInv /\ IdInv /\ ReactionInv /\ ReplyInv /\ AfterInv /\ ParentInv
    /\ OverlapsFlagged /\ BookingInv
    /\ StartInv /\ EndInv

LEMMA PlayStarts == Started /\ WorldInv => PlayInv
BY StateStarts, WaitingInit, JournalInit, IdInit, ReactionInit, ReplyInit, AfterInit,
   ParentStarts, OverlapsInit, BookingInit, StartStarts, EndStarts DEF PlayInv

LEMMA PlayStep == PlayInv /\ [Next]_vars => PlayInv'
BY StateStep, WaitingStep, JournalStep, IdStep, ReactionStep, ReplyStep, AfterStep,
   ParentStep, OverlapsStep, BookingStep, StartStep, EndKept DEF PlayInv

LEMMA PlayPromises ==
    ASSUME PlayInv
    PROVE  QueueSound /\ JournalSound /\ EveryReactionRuns
<1>1. QueueSound
    BY DEF PlayInv, StateInv, QueueInv, WaitingInv, QueueSound, QueueAhead, NeverQueuedAgain
<1>2. JournalSound
    <2>1. UniqueEventIds /\ WorkingHours /\ RepliesWellFormed /\ AfterHonoured
        BY DEF PlayInv, IdInv, JournalInv, WorkingHours, ReplyInv, AfterInv
    <2>2. OverlapsFlagged /\ BookingsHaveEvents
        BY DEF PlayInv, BookingInv, Logged, BookingsHaveEvents
    <2>3. QED BY <2>1, <2>2 DEF JournalSound
<1>3. QED BY <1>1, <1>2, ReactionsHaveRun DEF PlayInv

-----------------------------------------------------------------------------
(* A run.                                                                  *)

Playing == pc \in {"idle", "settle", "step", "effects", "comments", "stopped", "done", "failed"}

TurnInv ==
    /\ program \in Programs /\ turn \in 1..Len(program)
    /\ window \in Windows
    /\ pc \in {"gathered", "sweep"} \/ Playing
    /\ WorldInv

\* The promises of the scheduler, of the scenario that is played or was played last.
HeldInv ==
    /\ Playing => PlayInv
    /\ QueueSound /\ JournalSound

\* The events of the scenarios gathered so far.
InCorpus(id) == \E e \in corpus : e.id = id

CorpusInv ==
    \A e \in corpus :
        /\ e.id.turn \in Nat /\ e.id.turn <= turn /\ (Playing => e.id.turn < turn)
        /\ e.parent = None \/ InCorpus(e.parent)
        /\ e.at \in Nat /\ window.start <= e.at

\* The overlap of two bookings of one scenario was logged by it.
Explained(b, c) ==
    \E x \in logged : /\ x.issue.code = "forced_overlap" /\ x.issue.subject = b.person
                      /\ x.turn = b.source.turn /\ x.issue.at \in {b.start, c.start}

EntryInv(c) ==
    /\ c.source.turn \in Nat /\ c.source.turn <= turn /\ (Playing => c.source.turn < turn)
    /\ InCorpus(c.source)
    /\ c.start \in Nat /\ c.end \in Nat /\ window.start <= c.start /\ c.start <= c.end

CalendarsInv ==
    /\ \A c \in calendars : EntryInv(c)
    /\ \A b, c \in calendars :
           /\ b # c /\ b.person = c.person /\ b.source.turn = c.source.turn
           /\ Overlaps(b.start, b.end, c)
           => Explained(b, c)

\* Every instant a node was born at is that of an event that has happened, or of the
\* step whose effects are being applied.
Dated(t) ==
    \/ \E e \in corpus : e.at = t
    \/ Playing /\ \E i \in DOMAIN journal : journal[i].at = t
    \/ pc = "effects" /\ run.evAt = t

NodesInv == \A x \in Items \ BaseItems : world.born[x] # None => Dated(world.born[x])

-----------------------------------------------------------------------------
(* The sweep of the validator.                                             *)

Seen == calendars \ sweep.left

\* The order of the sweep.
NotAfter(b, c) == b.start < c.start \/ (b.start = c.start /\ b.end <= c.end)

PeopleOf(S) == {c.person : c \in S}

\* While bookings of a person are left those seen come before them, the one that
\* reaches furthest is remembered, and no other person is swept.
OrderInv ==
    \A b \in Seen : \A c \in sweep.left :
        b.person = c.person =>
            /\ NotAfter(b, c)
            /\ \E d \in sweep.last : d.person = b.person
            /\ b.person = CHOOSE p \in PeopleOf(sweep.left) : TRUE

RowOK(row) ==
    /\ row.of \in Seen /\ row.with \in Seen
    /\ row.of.person = row.with.person /\ row.of # row.with
    /\ row.with.start <= row.of.start /\ row.of.start < row.with.end
    /\ row.with.start < row.of.end

\* Of the bookings seen, any two that overlap have a row.
Reported(b, c) ==
    \E row \in sweep.rows : row.of = c \/ (b.start = c.start /\ row.of = b)

ClashOf(b, c) ==
    b # c /\ b.person = c.person /\ b.start <= c.start /\ Overlaps(b.start, b.end, c)

SweepInv ==
    pc = "sweep" =>
        /\ sweep.left \subseteq calendars /\ sweep.last \subseteq Seen
        /\ \A c, d \in sweep.last : c = d
        /\ OrderInv
        /\ \A d \in sweep.last : \A b \in Seen : b.person = d.person => b.end <= d.end
        /\ \A row \in sweep.rows : RowOK(row)
        /\ \A b, c \in Seen : ClashOf(b, c) => Reported(b, c)

ReportInv ==
    report # None =>
        /\ pc = "sweep" /\ sweep.left = {}
        /\ report = [conflicts |-> sweep.rows, dangling |-> Dangling, misdated |-> Misdated]

AssemblyInv ==
    TurnInv /\ HeldInv /\ CorpusInv /\ CalendarsInv /\ NodesInv /\ SweepInv /\ ReportInv

-----------------------------------------------------------------------------
(* The first scenario, and the next one.                                   *)

LEMMA ProgramFacts ==
    ASSUME NEW p \in Programs
    PROVE  /\ Len(p) \in Nat /\ 1 \in 1..Len(p)
           /\ \A k \in 1..Len(p) : p[k] \in Scenarios
<1>1. p \in Seq(Scenarios) /\ p # <<>>
    BY AssemblyAssumption
<1>2. QED BY <1>1

LEMMA AssemblyStarts == AssemblyInit => AssemblyInv
<1> SUFFICES ASSUME AssemblyInit PROVE AssemblyInv
    OBVIOUS
<1>1. Init /\ program \in Programs /\ turn = 1
      /\ corpus = {} /\ calendars = {} /\ report = None
    BY DEF AssemblyInit
<1>2. StateInv /\ Started
    BY <1>1, StateInit, InitStarts
<1>3. pc = "idle" /\ Playing
    BY <1>2 DEF Started, Playing
<1>4. PlayInv
    BY <1>2, PlayStarts DEF StateInv
<1>5. TurnInv
    BY <1>1, <1>2, <1>3, ProgramFacts DEF TurnInv, StateInv, ControlInv
<1>6. HeldInv
    BY <1>4, PlayPromises DEF HeldInv
<1>7. NodesInv
    BY <1>1 DEF Init, NodesInv
<1>8. CorpusInv /\ CalendarsInv /\ SweepInv /\ ReportInv
    BY <1>1, <1>3 DEF CorpusInv, CalendarsInv, SweepInv, ReportInv
<1>9. QED BY <1>5, <1>6, <1>7, <1>8 DEF AssemblyInv

\* What holds of a scenario that starts holds of the next one.
LEMMA NextPlayStarts == Started' /\ WorldInv' => PlayInv'
BY PlayStarts, PTL

LEMMA NextPromises == PlayInv' => QueueSound' /\ JournalSound'
<1>1. PlayInv => QueueSound /\ JournalSound
    BY PlayPromises
<1>2. QED BY <1>1, PTL

LEMMA NextScenarioStarts ==
    ASSUME TurnInv, NextScenario
    PROVE  Started' /\ WorldInv'
<1>1. turn + 1 \in 1..Len(program)
    BY ProgramFacts DEF TurnInv, NextScenario
<1>2. scenario' \in Scenarios /\ window' = window /\ window \in Windows
    BY <1>1, ProgramFacts DEF TurnInv, NextScenario
<1>3. \E arrivals \in [Triggered(scenario', "probabilistic") -> ArrivalSets] :
          LET seeds == {f \in SeedFirings(scenario', window', arrivals) : f.at <= window'.end}
          IN  /\ queue' = {Entry(scenario', f) : f \in seeds}
                          \cup {TickEntry(t) : t \in ConditionTicks(scenario', window')}
              /\ scheduled' = {f.inst : f \in seeds}
    BY <1>2, Zenon DEF NextScenario
<1>4. Started'
    BY <1>2, <1>3, Zenon DEF Started, NextScenario
<1>5. QED BY <1>4 DEF TurnInv, NextScenario, WorldInv

-----------------------------------------------------------------------------
(* While a scenario is played.                                             *)

\* The scheduler is at rest between scenarios.
LEMMA OnlyPlayed ==
    ASSUME [Next]_vars, ~Playing
    PROVE  UNCHANGED vars
BY DEF Playing, Next, PopTick, PopFiring, Settle, TripCap, MaterializeCalendars,
   FinishInstance, StepRaises, PlaceStep, BookActor, Create, Mutate, Milestone, AtEffect,
   EmitStep, NextCommenter, CommentsNoMore, SkipComment, PostComment, CommentRaises, EndStep,
   AtComments

\* The promises of a scenario outlive it.
LEMMA PromisesStay ==
    ASSUME QueueSound, JournalSound, pc' = pc \/ pc' \in {"gathered", "sweep"},
           UNCHANGED <<scenario, window, queue, clock, journal, busy, fired, issues>>
    PROVE  QueueSound' /\ JournalSound'
<1>1. QueueSound'
    BY DEF QueueSound, QueueAhead, NeverQueuedAgain
<1>2. UniqueEventIds' /\ WorkingHours' /\ RepliesWellFormed'
    BY DEF JournalSound, UniqueEventIds, WorkingHours, RepliesWellFormed
<1>3. AfterHonoured'
    BY DEF JournalSound, AfterHonoured
<1>4. OverlapsFlagged' /\ BookingsHaveEvents'
    BY DEF JournalSound, OverlapsFlagged, BookingsHaveEvents
<1>5. QED BY <1>1, <1>2, <1>3, <1>4 DEF JournalSound

LEMMA PlayTurn ==
    ASSUME TurnInv, HeldInv, [Next]_vars, UNCHANGED assembly
    PROVE  TurnInv' /\ HeldInv' /\ Playing' = Playing
<1>1. program' = program /\ turn' = turn
    BY DEF assembly
<1>2. CASE Playing
    <2>1. PlayInv'
        BY <1>2, PlayStep DEF HeldInv
    <2>2. Playing' /\ window' \in Windows /\ WorldInv'
        BY <2>1 DEF PlayInv, StateInv, ControlInv, Playing
    <2>3. QueueSound' /\ JournalSound'
        BY <2>1, NextPromises
    <2>4. QED BY <1>1, <1>2, <2>1, <2>2, <2>3 DEF TurnInv, HeldInv
<1>3. CASE ~Playing
    <2>1. UNCHANGED vars
        BY <1>3, OnlyPlayed
    <2>2. UNCHANGED <<scenario, window, queue, clock, journal, busy, fired, issues, pc, world>>
        BY <2>1 DEF vars
    <2>3. QueueSound' /\ JournalSound'
        BY <2>2, PromisesStay DEF HeldInv
    <2>4. Playing' = Playing /\ TurnInv'
        BY <1>1, <2>2 DEF Playing, TurnInv, WorldInv
    <2>5. QED BY <1>3, <2>3, <2>4 DEF HeldInv
<1>4. QED BY <1>2, <1>3

LEMMA DatedStays ==
    ASSUME PlayInv, Playing, [Next]_vars, Playing', corpus' = corpus, NEW t, Dated(t)
    PROVE  Dated(t)'
<1>1. CASE \E e \in corpus : e.at = t
    BY <1>1 DEF Dated
<1>2. CASE \E i \in DOMAIN journal : journal[i].at = t
    <2>1. PICK i \in DOMAIN journal : journal[i].at = t
        BY <1>2
    <2>2. LoggedAt(journal[i].id, t)
        BY <2>1 DEF LoggedAt
    <2>3. PICK id : id = journal[i].id
        OBVIOUS
    <2>4. LoggedAt(id, t)'
        BY <2>2, <2>3, LoggedStays DEF PlayInv
    <2>5. QED BY <2>4 DEF LoggedAt, Dated
<1>3. CASE pc = "effects" /\ run.evAt = t
    <2>1. CASE EmitStep
        <3>1. PICK e : Extends(e) /\ e.at = t
            BY <1>3, <2>1, EmitStepFacts DEF PlayInv
        <3>2. LoggedAt(e.id, e.at)'
            BY <3>1, EventIsLogged DEF PlayInv
        <3>3. \E i \in DOMAIN journal' : journal'[i].at = t
            BY <3>1, <3>2 DEF LoggedAt
        <3>4. QED BY <3>3 DEF Dated
    <2>2. CASE pc' = "effects"
        <3>1. run'.evAt = run.evAt
            BY <1>3, <2>2, RunChange DEF PlayInv, Executing, RunPlaces, RunEffects, RunEmits,
               RunTurns, RunSkips, RunPosts, RunEnds, RunStays, SameEvent
        <3>2. QED BY <1>3, <2>2, <3>1 DEF Dated
    <2>3. QED
        BY <1>3, <2>1, <2>2 DEF Next, PopTick, PopFiring, Settle, TripCap,
           MaterializeCalendars, FinishInstance, StepRaises, PlaceStep, BookActor, Create,
           Mutate, Milestone, AtEffect, NextCommenter, CommentsNoMore, SkipComment,
           PostComment, CommentRaises, EndStep, AtComments, vars
<1>4. QED BY <1>1, <1>2, <1>3 DEF Dated

\* A node is born at the instant of the step that creates it.
LEMMA BirthDates ==
    ASSUME PlayInv, [Next]_vars, NEW x \in Items, world'.born[x] # world.born[x]
    PROVE  pc = "effects" /\ pc' = "effects" /\ world'.born[x] = run.evAt /\ run'.evAt = run.evAt
<1>1. CASE Create
    <2>1. pc = "effects" /\ pc' = pc /\ run' = [run EXCEPT !.effect = @ + 1]
        BY <1>1 DEF Create, AtEffect
    <2>2. run'.evAt = run.evAt
        BY <2>1 DEF PlayInv, StateInv, RunInv, RunFields, Executing
    <2>3. world' = [world EXCEPT !.born[Effect.target] = run.evAt,
                                 !.props[Effect.target] = Effect.props]
        BY <1>1 DEF Create
    <2>4. world'.born = [world.born EXCEPT ![Effect.target] = run.evAt]
        BY <2>3 DEF PlayInv, StateInv, WorldInv
    <2>5. world'.born[x] = run.evAt
        BY <2>4 DEF PlayInv, StateInv, WorldInv
    <2>6. QED BY <2>1, <2>2, <2>5
<1>2. CASE Mutate
    <2>1. world' = world \/
          world' = [world EXCEPT !.props[Effect.target][Effect.attr] = Effect.value]
        BY <1>2 DEF Mutate
    <2>2. world'.born = world.born
        BY <2>1 DEF PlayInv, StateInv, WorldInv
    <2>3. QED BY <2>2
<1>3. CASE UNCHANGED world
    BY <1>3
<1>4. QED
    BY <1>1, <1>2, <1>3 DEF Next, PopTick, PopFiring, Settle, TripCap, MaterializeCalendars,
       FinishInstance, StepRaises, PlaceStep, BookActor, Milestone, EmitStep, NextCommenter,
       CommentsNoMore, SkipComment, PostComment, CommentRaises, EndStep, AtComments, vars

LEMMA PlayNodes ==
    ASSUME TurnInv, HeldInv, NodesInv, [Next]_vars, UNCHANGED assembly
    PROVE  NodesInv'
<1>1. corpus' = corpus
    BY DEF assembly
<1>2. CASE Playing
    <2>1. PlayInv /\ Playing'
        BY <1>2, PlayTurn DEF HeldInv
    <2> SUFFICES ASSUME NEW x \in Items \ BaseItems, world'.born[x] # None
                 PROVE  Dated(world.born[x])'
        BY DEF NodesInv
    <2>2. PICK t : t = world'.born[x]
        OBVIOUS
    <2>3. Dated(t)'
        <3>1. CASE world'.born[x] = world.born[x]
            BY <1>1, <1>2, <2>1, <2>2, <3>1, DatedStays DEF NodesInv
        <3>2. CASE world'.born[x] # world.born[x]
            BY <2>1, <2>2, <3>2, BirthDates DEF Dated
        <3>3. QED BY <3>1, <3>2
    <2>4. QED BY <2>2, <2>3
<1>3. CASE ~Playing
    <2>1. UNCHANGED vars
        BY <1>3, OnlyPlayed
    <2>2. UNCHANGED <<pc, run, journal, world>>
        BY <2>1 DEF vars
    <2>3. QED BY <1>1, <2>2 DEF NodesInv, Dated, Playing
<1>4. QED BY <1>2, <1>3

LEMMA PlayKeeps ==
    ASSUME AssemblyInv, [Next]_vars, UNCHANGED assembly
    PROVE  AssemblyInv'
<1>1. UNCHANGED <<program, turn, corpus, calendars, logged, sweep, report>>
    BY DEF assembly
<1>2. TurnInv' /\ HeldInv' /\ Playing' = Playing /\ NodesInv'
    BY PlayTurn, PlayNodes DEF AssemblyInv
<1>3. window' = window
    BY ArgumentsStay
<1>4. CorpusInv' /\ CalendarsInv'
    BY <1>1, <1>2, <1>3
       DEF AssemblyInv, CorpusInv, CalendarsInv, EntryInv, InCorpus, Explained
<1>5. CASE pc = "sweep"
    <2>1. UNCHANGED vars
        BY <1>5, OnlyPlayed DEF Playing
    <2>2. pc' = pc /\ world' = world
        BY <2>1 DEF vars
    <2>3. SweepInv'
        BY <1>1, <1>5, <2>2 DEF AssemblyInv, SweepInv, Seen, OrderInv, NotAfter, PeopleOf, RowOK,
           Reported, ClashOf
    <2>4. ReportInv'
        BY <1>1, <1>3, <1>5, <2>2
           DEF AssemblyInv, ReportInv, Dangling, Misdated, OutOfDays
    <2>5. QED BY <1>2, <1>4, <2>3, <2>4 DEF AssemblyInv
<1>6. CASE pc # "sweep"
    <2>1. pc' # "sweep" /\ report' = None
        <3>1. CASE Playing
            BY <1>1, <1>2, <1>6, <3>1 DEF Playing, AssemblyInv, ReportInv
        <3>2. CASE ~Playing
            BY <1>1, <1>6, <3>2, OnlyPlayed DEF vars, AssemblyInv, ReportInv
        <3>3. QED BY <3>1, <3>2
    <2>2. QED BY <1>2, <1>4, <2>1 DEF AssemblyInv, SweepInv, ReportInv
<1>7. QED BY <1>5, <1>6

-----------------------------------------------------------------------------
(* Gathering what a scenario has left.                                     *)

LEMMA RekeyedFacts ==
    ASSUME NEW e, IsEvent(e)
    PROVE  /\ Rekeyed(e).id = InScenario(turn, e.id) /\ Rekeyed(e).at = e.at
           /\ Rekeyed(e).parent = IF e.parent = None THEN None ELSE InScenario(turn, e.parent)
BY DEF IsEvent, Rekeyed

\* The events and the bookings a scenario adds.
NewEvents == {Rekeyed(e) : e \in Range(journal)}

NewEntries == {[c EXCEPT !.source = InScenario(turn, @)] : c \in calendar}

LEMMA NewEventFacts ==
    ASSUME TurnInv, PlayInv, NEW e \in NewEvents
    PROVE  /\ e.id.turn = turn /\ e.at \in Nat /\ window.start <= e.at
           /\ e.parent = None \/ \E d \in NewEvents : d.id = e.parent
<1>1. PICK i \in DOMAIN journal : e = Rekeyed(journal[i])
    BY DEF NewEvents, Range
<1>2. /\ IsEvent(journal[i]) /\ window.start <= journal[i].at /\ journal[i].at \in Nat
      /\ HangsOff(journal[i].parent)
    BY DEF PlayInv, StartInv, JournalInv, ParentInv
<1>3. /\ e.id = InScenario(turn, journal[i].id) /\ e.at = journal[i].at
      /\ e.parent = IF journal[i].parent = None THEN None
                    ELSE InScenario(turn, journal[i].parent)
    BY <1>1, <1>2, RekeyedFacts
<1>4. CASE journal[i].parent = None
    BY <1>2, <1>3, <1>4 DEF InScenario
<1>5. CASE journal[i].parent # None
    <2>1. PICK j \in DOMAIN journal : journal[j].id = journal[i].parent
        BY <1>2, <1>5 DEF HangsOff, Logged
    <2>2. Rekeyed(journal[j]) \in NewEvents
        BY DEF NewEvents, Range
    <2>3. Rekeyed(journal[j]).id = e.parent
        BY <1>3, <1>5, <2>1, RekeyedFacts DEF PlayInv, StartInv
    <2>4. QED BY <1>2, <1>3, <2>2, <2>3 DEF InScenario
<1>6. QED BY <1>4, <1>5

\* An entry stands for a booking of its person.
LEMMA NewEntryFacts ==
    ASSUME TurnInv, PlayInv, pc = "done", NEW c \in NewEntries
    PROVE  /\ c.source.turn = turn
           /\ \E e \in NewEvents : e.id = c.source
           /\ c.start \in Nat /\ c.end \in Nat /\ window.start <= c.start /\ c.start <= c.end
           /\ c.person \in People
           /\ \E b \in busy[c.person] :
                  c = [person |-> c.person, start |-> b.start, end |-> b.end,
                       source |-> InScenario(turn, b.source)]
<1>0. PICK p \in People :
          \E b \in busy[p] :
              c = [[person |-> p, start |-> b.start, end |-> b.end, source |-> b.source]
                       EXCEPT !.source = InScenario(turn, @)]
    BY DEF NewEntries, PlayInv, EndInv, Entries
<1>1. PICK b \in busy[p] :
          c = [[person |-> p, start |-> b.start, end |-> b.end, source |-> b.source]
                   EXCEPT !.source = InScenario(turn, @)]
    BY <1>0
<1>2. c = [person |-> p, start |-> b.start, end |-> b.end, source |-> InScenario(turn, b.source)]
    BY <1>1
<1>3. /\ b.start \in Nat /\ b.end \in Nat /\ window.start <= b.start /\ b.start <= b.end
      /\ Logged(b.source)
    BY DEF PlayInv, StateInv, BusyInv, StartInv, BookingInv
<1>4. PICK i \in DOMAIN journal : journal[i].id = b.source
    BY <1>3 DEF Logged
<1>5. Rekeyed(journal[i]) \in NewEvents /\ Rekeyed(journal[i]).id = InScenario(turn, b.source)
    BY <1>4, RekeyedFacts DEF PlayInv, StartInv, NewEvents, Range
<1>6. c.source = InScenario(turn, b.source) /\ c.person = p /\ c.start = b.start /\ c.end = b.end
    BY <1>2
<1>7. c.source.turn = turn
    BY <1>6 DEF InScenario
<1>8. QED BY <1>2, <1>3, <1>5, <1>6, <1>7

\* The ids of the scenarios are kept apart: nothing raises.
LEMMA GatherSucceeds ==
    ASSUME AssemblyInv, Gather
    PROVE  /\ Playing /\ PlayInv /\ pc = "done" /\ pc' = "gathered"
           /\ corpus' = corpus \cup NewEvents
           /\ calendars' \subseteq calendars \cup NewEntries /\ calendars \subseteq calendars'
           /\ logged' = logged \cup {[turn |-> turn, issue |-> x] : x \in issues}
           /\ UNCHANGED <<scenario, window, queue, clock, journal, busy, fired, issues, world,
                          program, turn, report>>
<1>1. pc = "done" /\ Playing
    BY DEF Gather, Playing
<1>2. PlayInv /\ TurnInv
    BY <1>1 DEF AssemblyInv, HeldInv
<1>3. ASSUME NEW e \in NewEvents, NEW d \in corpus, e.id = d.id PROVE FALSE
    <2>1. e.id.turn = turn
        BY <1>2, NewEventFacts
    <2>2. d.id.turn < turn /\ turn \in Nat
        BY <1>1, <1>2 DEF AssemblyInv, CorpusInv, TurnInv
    <2>3. QED BY <1>3, <2>1, <2>2
<1>4. ~(\E e \in NewEvents : e.id \in {d.id : d \in corpus})
    BY <1>3
<1>5. /\ IF \E e \in NewEvents : e.id \in {d.id : d \in corpus}
         THEN pc' = "failed" /\ UNCHANGED corpus
         ELSE pc' = "gathered" /\ corpus' = corpus \cup NewEvents
      /\ logged' = logged \cup {[turn |-> turn, issue |-> x] : x \in issues}
    BY Zenon DEF Gather, NewEvents
<1>6. calendars' \subseteq calendars \cup NewEntries /\ calendars \subseteq calendars'
    BY DEF Gather, NewEntries
<1>7. QED BY <1>1, <1>2, <1>4, <1>5, <1>6 DEF Gather

\* An overlap of two bookings of the scenario is among its issues.
LEMMA NewExplained ==
    ASSUME TurnInv, PlayInv, pc = "done", NEW b \in NewEntries, NEW c \in NewEntries,
           b # c, b.person = c.person, Overlaps(b.start, b.end, c),
           logged' = logged \cup {[turn |-> turn, issue |-> x] : x \in issues}
    PROVE  Explained(b, c)'
<1>1. PICK p \in People : p = b.person
    BY NewEntryFacts
<1>2. PICK s \in busy[p] : b = [person |-> p, start |-> s.start, end |-> s.end,
                                source |-> InScenario(turn, s.source)]
    BY <1>1, NewEntryFacts
<1>3. PICK t \in busy[p] : c = [person |-> p, start |-> t.start, end |-> t.end,
                                source |-> InScenario(turn, t.source)]
    BY <1>1, NewEntryFacts
<1>4. b.start = s.start /\ b.end = s.end /\ c.start = t.start /\ c.end = t.end /\ s # t
    BY <1>2, <1>3
<1>5. Overlaps(s.start, s.end, t)
    BY <1>4 DEF Overlaps
<1>6. PICK x \in issues : /\ x.code = "forced_overlap" /\ x.subject = p
                          /\ x.at \in {s.start, t.start}
    BY <1>4, <1>5 DEF PlayInv, OverlapsFlagged
<1> DEFINE y == [turn |-> turn, issue |-> x]
<1>7. y \in logged' /\ y.turn = turn /\ y.issue = x
    OBVIOUS
<1>8. b.source.turn = turn
    BY NewEntryFacts
<1>9. QED BY <1>1, <1>4, <1>6, <1>7, <1>8 DEF Explained

LEMMA GatherKeeps == AssemblyInv /\ Gather => AssemblyInv'
<1> SUFFICES ASSUME AssemblyInv, Gather PROVE AssemblyInv'
    OBVIOUS
<1>1. /\ Playing /\ PlayInv /\ pc = "done" /\ pc' = "gathered"
      /\ corpus' = corpus \cup NewEvents
      /\ calendars' \subseteq calendars \cup NewEntries /\ calendars \subseteq calendars'
      /\ logged' = logged \cup {[turn |-> turn, issue |-> x] : x \in issues}
      /\ UNCHANGED <<scenario, window, queue, clock, journal, busy, fired, issues, world,
                     program, turn, report>>
    BY GatherSucceeds
<1>2. ~Playing' /\ turn \in Nat /\ TurnInv /\ turn <= turn
    BY <1>1 DEF Playing, AssemblyInv, TurnInv
<1>3. TurnInv'
    BY <1>1 DEF AssemblyInv, TurnInv, WorldInv
<1>4. HeldInv'
    BY <1>1, <1>2, PromisesStay DEF AssemblyInv, HeldInv
<1>5. ASSUME NEW id, InCorpus(id) \/ \E d \in NewEvents : d.id = id PROVE InCorpus(id)'
    BY <1>1, <1>5 DEF InCorpus
<1>6. CorpusInv'
    <2> SUFFICES ASSUME NEW e \in corpus'
                 PROVE  /\ e.id.turn \in Nat /\ e.id.turn <= turn
                        /\ e.parent = None \/ InCorpus(e.parent)'
                        /\ e.at \in Nat /\ window.start <= e.at
        BY <1>1, <1>2 DEF CorpusInv
    <2>1. CASE e \in corpus
        BY <1>5, <2>1 DEF AssemblyInv, CorpusInv
    <2>2. CASE e \in NewEvents
        BY <1>1, <1>2, <1>5, <2>2, NewEventFacts
    <2>3. QED BY <1>1, <2>1, <2>2
<1>7. ASSUME NEW c \in calendars' PROVE EntryInv(c)'
    <2>1. CASE c \in calendars
        BY <1>1, <1>2, <1>5, <2>1 DEF AssemblyInv, CalendarsInv, EntryInv
    <2>2. CASE c \in NewEntries
        BY <1>1, <1>2, <1>5, <2>2, NewEntryFacts DEF EntryInv
    <2>3. QED BY <1>1, <2>1, <2>2
<1>8. ASSUME NEW b \in calendars', NEW c \in calendars', b # c, b.person = c.person,
             b.source.turn = c.source.turn, Overlaps(b.start, b.end, c)
      PROVE  Explained(b, c)'
    <2>1. CASE b \in calendars /\ c \in calendars
        <3>1. Explained(b, c)
            BY <1>8, <2>1 DEF AssemblyInv, CalendarsInv
        <3>2. QED BY <1>1, <3>1 DEF Explained
    <2>2. CASE b \in NewEntries /\ c \in NewEntries
        BY <1>1, <1>2, <1>8, <2>2, NewExplained
    <2>3. CASE b \in calendars /\ c \in NewEntries
        <3>1. b.source.turn < turn /\ c.source.turn = turn
            BY <1>1, <1>2, <2>3, NewEntryFacts DEF AssemblyInv, CalendarsInv, EntryInv
        <3>2. QED BY <1>2, <1>8, <3>1
    <2>4. CASE b \in NewEntries /\ c \in calendars
        <3>1. c.source.turn < turn /\ b.source.turn = turn
            BY <1>1, <1>2, <2>4, NewEntryFacts DEF AssemblyInv, CalendarsInv, EntryInv
        <3>2. QED BY <1>2, <1>8, <3>1
    <2>5. QED BY <1>1, <2>1, <2>2, <2>3, <2>4
<1>9. CalendarsInv'
    BY <1>7, <1>8 DEF CalendarsInv
<1>10. NodesInv'
    <2> SUFFICES ASSUME NEW x \in Items \ BaseItems, world.born[x] # None
                 PROVE  \E e \in corpus' : e.at = world.born[x]
        BY <1>1 DEF NodesInv, Dated
    <2>1. Dated(world.born[x])
        BY DEF AssemblyInv, NodesInv
    <2>2. CASE \E e \in corpus : e.at = world.born[x]
        BY <1>1, <2>2
    <2>3. CASE \E i \in DOMAIN journal : journal[i].at = world.born[x]
        <3>1. PICK i \in DOMAIN journal : journal[i].at = world.born[x]
            BY <2>3
        <3>2. Rekeyed(journal[i]) \in NewEvents /\ Rekeyed(journal[i]).at = journal[i].at
            BY <1>1, RekeyedFacts DEF NewEvents, Range, PlayInv, StartInv
        <3>3. QED BY <1>1, <3>1, <3>2
    <2>4. QED BY <1>1, <2>1, <2>2, <2>3 DEF Dated
<1>11. SweepInv' /\ ReportInv'
    BY <1>1 DEF AssemblyInv, SweepInv, ReportInv
<1>12. QED BY <1>3, <1>4, <1>6, <1>9, <1>10, <1>11 DEF AssemblyInv

LEMMA NextScenarioKeeps == AssemblyInv /\ NextScenario => AssemblyInv'
<1> SUFFICES ASSUME AssemblyInv, NextScenario PROVE AssemblyInv'
    OBVIOUS
<1>1. /\ pc = "gathered" /\ pc' = "idle" /\ turn' = turn + 1 /\ turn < Len(program)
      /\ UNCHANGED <<window, world, program, corpus, calendars, logged, sweep, report>>
    BY DEF NextScenario
<1>2. TurnInv /\ ~Playing /\ Playing' /\ turn \in Nat /\ report = None
    BY <1>1 DEF AssemblyInv, TurnInv, Playing, ReportInv
<1>3. PlayInv'
    BY <1>2, NextScenarioStarts, NextPlayStarts
<1>4. QueueSound' /\ JournalSound'
    BY <1>3, NextPromises
<1>5. TurnInv' /\ HeldInv'
    <2>1. turn' \in 1..Len(program)
        BY <1>1, <1>2, ProgramFacts DEF TurnInv
    <2>2. QED BY <1>1, <1>2, <1>3, <1>4, <2>1 DEF TurnInv, HeldInv, WorldInv
<1>6. CorpusInv' /\ CalendarsInv'
    <2>1. \A k \in Nat : k <= turn => k < turn'
        BY <1>1, <1>2
    <2>2. \A k \in Nat : k < turn' => k <= turn'
        BY <1>1, <1>2
    <2>3. QED BY <1>1, <2>1, <2>2
              DEF AssemblyInv, CorpusInv, CalendarsInv, EntryInv, InCorpus, Explained
<1>7. NodesInv'
    BY <1>1, <1>2 DEF AssemblyInv, NodesInv, Dated
<1>8. SweepInv' /\ ReportInv'
    BY <1>1, <1>2 DEF SweepInv, ReportInv
<1>9. QED BY <1>5, <1>6, <1>7, <1>8 DEF AssemblyInv

-----------------------------------------------------------------------------
(* The steps of the validator.                                             *)

\* What the validator leaves alone holds of it all the same.
LEMMA ValidatorKeeps ==
    ASSUME AssemblyInv, ~Playing, pc' = pc \/ pc' = "sweep",
           UNCHANGED <<scenario, window, queue, clock, journal, busy, fired, issues, world,
                       program, turn, corpus, calendars, logged, run>>
    PROVE  TurnInv' /\ HeldInv' /\ CorpusInv' /\ CalendarsInv' /\ NodesInv'
<1>1. ~Playing'
    BY DEF Playing
<1>2. TurnInv'
    BY DEF AssemblyInv, TurnInv, WorldInv
<1>3. HeldInv'
    BY <1>1, PromisesStay DEF AssemblyInv, HeldInv
<1>4. CorpusInv' /\ CalendarsInv'
    BY <1>1 DEF AssemblyInv, CorpusInv, CalendarsInv, EntryInv, InCorpus, Explained
<1>5. NodesInv'
    BY <1>1 DEF AssemblyInv, NodesInv, Dated, Playing
<1>6. QED BY <1>2, <1>3, <1>4, <1>5

LEMMA StartSweepKeeps == AssemblyInv /\ StartSweep => AssemblyInv'
<1> SUFFICES ASSUME AssemblyInv, StartSweep PROVE AssemblyInv'
    OBVIOUS
<1>1. /\ pc = "gathered" /\ pc' = "sweep" /\ report' = report
      /\ sweep' = [left |-> calendars, last |-> {}, rows |-> {}]
      /\ UNCHANGED <<scenario, window, queue, clock, journal, busy, fired, issues, world,
                     program, turn, corpus, calendars, logged, run>>
    BY DEF StartSweep
<1>2. ~Playing
    BY <1>1 DEF Playing
<1>3. TurnInv' /\ HeldInv' /\ CorpusInv' /\ CalendarsInv' /\ NodesInv'
    BY <1>1, <1>2, ValidatorKeeps
<1>4. Seen' = {} /\ sweep'.left = calendars /\ sweep'.last = {} /\ sweep'.rows = {}
    BY <1>1 DEF Seen
<1>5. SweepInv'
    BY <1>1, <1>4 DEF SweepInv, OrderInv
<1>6. ReportInv'
    BY <1>1 DEF AssemblyInv, ReportInv
<1>7. QED BY <1>3, <1>5, <1>6 DEF AssemblyInv

LastAfter(b, last) == IF last = {} THEN {b} ELSE {Furthest(c, b) : c \in last}

RowsAfter(b, last) ==
    sweep.rows \cup {[of |-> b, with |-> c] : c \in {d \in last : b.start < d.end}}

\* A booking of the sweep, and those of its person that are remembered: one at most.
Sweeps(b, last) ==
    /\ b \in sweep.left /\ Swept(b)
    /\ last = {c \in sweep.last : c.person = b.person}
    /\ sweep' = [left |-> sweep.left \ {b},
                 last |-> LastAfter(b, last), rows |-> RowsAfter(b, last)]
    /\ pc = "sweep" /\ pc' = pc /\ calendars' = calendars

LEMMA SweepFacts ==
    ASSUME AssemblyInv, NEW b, NEW last, Sweeps(b, last)
    PROVE  /\ SweepInv /\ b \in calendars /\ b \notin Seen /\ Seen' = Seen \cup {b}
           /\ sweep.left \subseteq calendars /\ sweep'.left = sweep.left \ {b}
           /\ \A c \in calendars : c.start \in Nat /\ c.end \in Nat /\ c.start <= c.end
           /\ sweep'.last = LastAfter(b, last)
           /\ sweep'.rows = RowsAfter(b, last)
<1>1. SweepInv /\ sweep.left \subseteq calendars /\ b \in calendars /\ b \notin Seen
    BY DEF AssemblyInv, SweepInv, Sweeps, Seen
<1>2. /\ sweep'.left = sweep.left \ {b}
      /\ sweep'.last = LastAfter(b, last)
      /\ sweep'.rows = RowsAfter(b, last)
    BY Zenon DEF Sweeps
<1>3. Seen' = Seen \cup {b}
    BY <1>1, <1>2 DEF Seen, Sweeps
<1>4. \A c \in calendars : c.start \in Nat /\ c.end \in Nat /\ c.start <= c.end
    BY DEF AssemblyInv, CalendarsInv, EntryInv
<1>5. QED BY <1>1, <1>2, <1>3, <1>4

\* What is remembered of a person reaches as far as any of the person's bookings seen.
LEMMA FurthestKept ==
    ASSUME AssemblyInv, NEW b, NEW last, Sweeps(b, last)
    PROVE  /\ sweep'.last \subseteq Seen'
           /\ \A c, d \in sweep'.last : c = d
           /\ \A d \in sweep'.last : d.person = b.person
           /\ \E d \in sweep'.last : TRUE
           /\ \A d \in sweep'.last : \A c \in Seen' : c.person = d.person => c.end <= d.end
<1>1. /\ SweepInv /\ b \in calendars /\ b \notin Seen /\ Seen' = Seen \cup {b}
      /\ \A c \in calendars : c.start \in Nat /\ c.end \in Nat
      /\ sweep'.last = LastAfter(b, last)
    BY SweepFacts
<1>2. /\ pc = "sweep" /\ b \in sweep.left /\ last \subseteq sweep.last
      /\ last = {c \in sweep.last : c.person = b.person}
      /\ sweep.last \subseteq Seen /\ \A c, d \in sweep.last : c = d
      /\ \A d \in sweep.last : \A c \in Seen : c.person = d.person => c.end <= d.end
      /\ Seen \subseteq calendars
    BY <1>1 DEF SweepInv, Sweeps, Seen
<1>3. CASE last = {}
    <2>1. \A c \in Seen : c.person # b.person
        BY <1>1, <1>2, <1>3 DEF SweepInv, OrderInv
    <2>2. sweep'.last = {b}
        BY <1>1, <1>3 DEF LastAfter
    <2>3. QED BY <1>1, <2>1, <2>2
<1>4. CASE last # {}
    <2>1. PICK l \in last : last = {l}
        BY <1>2, <1>4
    <2>2. sweep'.last = {Furthest(l, b)}
        BY <1>1, <2>1 DEF LastAfter
    <2>3. l \in Seen /\ l.person = b.person /\ l \in calendars
        BY <1>2, <2>1
    <2>4. Furthest(l, b) \in {l, b} /\ l.end <= Furthest(l, b).end
          /\ b.end <= Furthest(l, b).end
        BY <1>1, <2>3 DEF Furthest
    <2> DEFINE f == Furthest(l, b)
    <2>5. f \in Seen' /\ f.person = b.person /\ f.end \in Nat
        BY <1>1, <2>3, <2>4
    <2> HIDE DEF f
    <2>6. ASSUME NEW c \in Seen', c.person = f.person PROVE c.end <= f.end
        <3>1. CASE c = b
            BY <2>4, <3>1 DEF f
        <3>2. CASE c \in Seen
            <4>1. c.end <= l.end /\ c.end \in Nat /\ l.end \in Nat
                BY <1>1, <1>2, <2>1, <2>3, <2>5, <2>6, <3>2
            <4>2. l.end <= f.end
                BY <2>4 DEF f
            <4>3. QED BY <2>5, <4>1, <4>2
        <3>3. QED BY <1>1, <3>1, <3>2
    <2>7. sweep'.last = {f}
        BY <2>2 DEF f
    <2>8. QED BY <2>5, <2>6, <2>7
<1>5. QED BY <1>3, <1>4

\* The sweep goes through one person after another.
LEMMA OrderKept ==
    ASSUME AssemblyInv, NEW b, NEW last, Sweeps(b, last)
    PROVE  OrderInv'
<1> DEFINE who(S) == CHOOSE p \in PeopleOf(S) : TRUE
<1>1. /\ SweepInv /\ b \in calendars /\ b \notin Seen /\ Seen' = Seen \cup {b}
      /\ sweep'.left = sweep.left \ {b}
    BY SweepFacts
<1>2. b \in sweep.left /\ Swept(b) /\ pc = "sweep"
    BY DEF Sweeps
<1>3. b.person = who(sweep.left)
    BY <1>2 DEF Swept, PeopleOf
<1> SUFFICES ASSUME NEW a \in Seen', NEW c \in sweep'.left, a.person = c.person
             PROVE  /\ NotAfter(a, c)
                    /\ \E d \in sweep'.last : d.person = a.person
                    /\ a.person = who(sweep'.left)
    BY Zenon DEF OrderInv, NotAfter
<1>4. c \in sweep.left /\ c # b
    BY <1>1
<1>5. ASSUME a \in Seen PROVE NotAfter(a, c) /\ a.person = who(sweep.left)
    BY <1>1, <1>2, <1>4, <1>5 DEF SweepInv, OrderInv
<1>6. a.person = b.person
    BY <1>1, <1>3, <1>5
<1>7. NotAfter(a, c)
    <2>1. CASE a \in Seen
        BY <1>5, <2>1
    <2>2. CASE a = b
        BY <1>2, <1>4, <1>6, <2>2 DEF Swept, NotAfter
    <2>3. QED BY <1>1, <2>1, <2>2
<1>8. PeopleOf(sweep'.left) = PeopleOf(sweep.left)
    <2>1. c.person \in PeopleOf(sweep'.left) /\ c.person = b.person
        BY <1>6 DEF PeopleOf
    <2>2. QED BY <1>1, <2>1 DEF PeopleOf
<1>9. a.person = who(sweep'.left)
    BY <1>3, <1>6, <1>8
<1>10. \E d \in sweep'.last : d.person = a.person
    BY <1>6, FurthestKept
<1>11. QED BY <1>7, <1>9, <1>10

\* The rows found so far are those of what has been seen.
LEMMA RowsKept ==
    ASSUME AssemblyInv, NEW b, NEW last, Sweeps(b, last), NEW row \in sweep'.rows
    PROVE  RowOK(row)'
<1>1. /\ SweepInv /\ b \in calendars /\ b \notin Seen /\ Seen' = Seen \cup {b}
      /\ \A c \in calendars : c.start \in Nat /\ c.end \in Nat /\ c.start <= c.end
      /\ sweep'.rows = RowsAfter(b, last)
    BY SweepFacts
<1>2. b \in sweep.left /\ pc = "sweep" /\ last = {c \in sweep.last : c.person = b.person}
    BY DEF Sweeps
<1>3. CASE row \in sweep.rows
    <2>1. RowOK(row)
        BY <1>1, <1>2, <1>3 DEF SweepInv
    <2>2. QED BY <1>1, <2>1 DEF RowOK
<1>4. CASE row \notin sweep.rows
    <2>1. PICK l \in last : b.start < l.end /\ row = [of |-> b, with |-> l]
        BY <1>1, <1>4 DEF RowsAfter
    <2>2. l \in Seen /\ l.person = b.person /\ l \in calendars
        BY <1>1, <1>2 DEF SweepInv, Seen
    <2>3. NotAfter(l, b)
        BY <1>1, <1>2, <2>2 DEF SweepInv, OrderInv
    <2>4. l.start <= b.start /\ l.start < b.end
        BY <1>1, <2>1, <2>2, <2>3 DEF NotAfter
    <2>5. row.of = b /\ row.with = l
        BY <2>1
    <2>6. QED BY <1>1, <2>1, <2>2, <2>4, <2>5 DEF RowOK
<1>5. QED BY <1>3, <1>4

\* A booking that overlaps one seen before it overlaps the one that reaches furthest.
LEMMA ClashesReported ==
    ASSUME AssemblyInv, NEW b, NEW last, Sweeps(b, last), NEW a \in Seen', NEW c \in Seen',
           ClashOf(a, c)
    PROVE  Reported(a, c)'
<1>1. /\ SweepInv /\ b \in calendars /\ b \notin Seen /\ Seen' = Seen \cup {b}
      /\ \A d \in calendars : d.start \in Nat /\ d.end \in Nat /\ d.start <= d.end
      /\ sweep'.rows = RowsAfter(b, last)
    BY SweepFacts
<1>2. /\ b \in sweep.left /\ pc = "sweep" /\ last = {d \in sweep.last : d.person = b.person}
      /\ Seen \subseteq calendars
    BY DEF Sweeps, Seen
<1>3. ASSUME NEW d \in Seen, d.person = b.person, b.start < d.end
      PROVE  \E row \in sweep'.rows : row.of = b
    <2>1. PICK l \in last : TRUE
        BY <1>1, <1>2, <1>3 DEF SweepInv, OrderInv
    <2>2. l \in Seen /\ l.person = b.person /\ d.end <= l.end
        BY <1>1, <1>2, <1>3 DEF SweepInv
    <2>3. b.start < l.end
        BY <1>1, <1>2, <1>3, <2>2
    <2> DEFINE row == [of |-> b, with |-> l]
    <2>4. row \in sweep'.rows /\ row.of = b
        BY <1>1, <2>3 DEF RowsAfter
    <2>5. QED BY <2>4
<1>4. CASE a \in Seen /\ c \in Seen
    <2>1. Reported(a, c)
        BY <1>1, <1>2, <1>4 DEF SweepInv
    <2>2. sweep.rows \subseteq sweep'.rows
        BY <1>1 DEF RowsAfter
    <2>3. QED BY <2>1, <2>2 DEF Reported
<1>5. CASE a \in Seen /\ c = b
    BY <1>3, <1>5 DEF ClashOf, Overlaps, Reported
<1>6. CASE a = b /\ c \in Seen
    <2>1. NotAfter(c, b)
        BY <1>1, <1>2, <1>6 DEF SweepInv, OrderInv, ClashOf
    <2>2. a.start = c.start
        BY <1>1, <1>2, <1>6, <2>1 DEF NotAfter, ClashOf
    <2>3. \E row \in sweep'.rows : row.of = b
        BY <1>3, <1>6 DEF ClashOf, Overlaps
    <2>4. QED BY <1>6, <2>2, <2>3 DEF Reported
<1>7. QED BY <1>1, <1>4, <1>5, <1>6 DEF ClashOf

LEMMA SweepBookingKeeps == AssemblyInv /\ SweepBooking => AssemblyInv'
<1> SUFFICES ASSUME AssemblyInv, SweepBooking PROVE AssemblyInv'
    OBVIOUS
<1>1. PICK b, last : Sweeps(b, last)
    BY Zenon DEF SweepBooking, Sweeps, vars, LastAfter, RowsAfter
<1>2. /\ pc = "sweep" /\ pc' = pc /\ report' = report
      /\ UNCHANGED <<scenario, window, queue, clock, journal, busy, fired, issues, world,
                     program, turn, corpus, calendars, logged, run>>
    BY DEF SweepBooking, vars
<1>3. ~Playing
    BY <1>2 DEF Playing
<1>4. TurnInv' /\ HeldInv' /\ CorpusInv' /\ CalendarsInv' /\ NodesInv'
    BY <1>2, <1>3, ValidatorKeeps
<1>5. sweep'.left \subseteq calendars'
    BY <1>1, <1>2, SweepFacts
<1>6. SweepInv'
    <2>1. \A row \in sweep'.rows : RowOK(row)'
        BY <1>1, RowsKept
    <2>2. \A a, c \in Seen' : ClashOf(a, c) => Reported(a, c)'
        BY <1>1, ClashesReported
    <2>3. OrderInv'
        BY <1>1, OrderKept
    <2>4. /\ sweep'.last \subseteq Seen'
          /\ \A c, d \in sweep'.last : c = d
          /\ \A d \in sweep'.last : \A c \in Seen' : c.person = d.person => c.end <= d.end
        BY <1>1, FurthestKept
    <2>5. QED BY <1>5, <2>1, <2>2, <2>3, <2>4 DEF SweepInv, ClashOf
<1>7. report = None
    BY <1>1 DEF AssemblyInv, ReportInv, Sweeps
<1>8. ReportInv'
    BY <1>2, <1>7 DEF ReportInv
<1>9. QED BY <1>4, <1>6, <1>8 DEF AssemblyInv

LEMMA ValidateKeeps == AssemblyInv /\ Validate => AssemblyInv'
<1> SUFFICES ASSUME AssemblyInv, Validate PROVE AssemblyInv'
    OBVIOUS
<1>1. /\ pc = "sweep" /\ pc' = pc /\ sweep.left = {} /\ sweep' = sweep
      /\ report' = [conflicts |-> sweep.rows, dangling |-> Dangling, misdated |-> Misdated]
      /\ UNCHANGED <<scenario, window, queue, clock, journal, busy, fired, issues, world,
                     program, turn, corpus, calendars, logged, run>>
    BY DEF Validate, vars
<1>2. ~Playing
    BY <1>1 DEF Playing
<1>3. TurnInv' /\ HeldInv' /\ CorpusInv' /\ CalendarsInv' /\ NodesInv'
    BY <1>1, <1>2, ValidatorKeeps
<1>4. SweepInv'
    BY <1>1 DEF AssemblyInv, SweepInv, Seen, OrderInv, NotAfter, PeopleOf, RowOK,
       Reported, ClashOf
<1>5. Dangling' = Dangling /\ Misdated' = Misdated
    BY <1>1 DEF Dangling, Misdated, OutOfDays
<1>6. ReportInv'
    BY <1>1, <1>5 DEF ReportInv
<1>7. QED BY <1>3, <1>4, <1>6 DEF AssemblyInv

LEMMA AssemblyKept == AssemblyInv /\ [AssemblyNext]_<<vars, assembly>> => AssemblyInv'
<1> SUFFICES ASSUME AssemblyInv, [AssemblyNext]_<<vars, assembly>> PROVE AssemblyInv'
    OBVIOUS
<1>1. CASE Play
    BY <1>1, PlayKeeps DEF Play
<1>2. CASE UNCHANGED <<vars, assembly>>
    <2>1. [Next]_vars /\ UNCHANGED assembly
        BY <1>2
    <2>2. QED BY <2>1, PlayKeeps
<1>3. CASE Gather
    BY <1>3, GatherKeeps
<1>4. CASE NextScenario
    BY <1>4, NextScenarioKeeps
<1>5. CASE StartSweep
    BY <1>5, StartSweepKeeps
<1>6. CASE SweepBooking
    BY <1>6, SweepBookingKeeps
<1>7. CASE Validate
    BY <1>7, ValidateKeeps
<1>8. QED BY <1>1, <1>2, <1>3, <1>4, <1>5, <1>6, <1>7 DEF AssemblyNext

-----------------------------------------------------------------------------
(* Theorems.                                                               *)

\* The invariant of a run of any scenarios over one world.
THEOREM AssemblyInvariants == AssemblySpec => []AssemblyInv
BY AssemblyStarts, AssemblyKept, PTL DEF AssemblySpec

\* In whatever world a scenario finds, and whatever was played before it, what waits
\* in the event queue lies ahead of the clock and has not run.
THEOREM AssemblyQueueSound == AssemblySpec => []QueueSound
<1>1. AssemblyInv => QueueSound
    BY DEF AssemblyInv, HeldInv
<1>2. QED BY AssemblyInvariants, <1>1, PTL

\* The journal and the bookings of every scenario of a run agree, in all six respects.
THEOREM AssemblyJournalSound == AssemblySpec => []JournalSound
<1>1. AssemblyInv => JournalSound
    BY DEF AssemblyInv, HeldInv
<1>2. QED BY AssemblyInvariants, <1>1, PTL

\* Every scenario of a run executes whatever was due, unless the cap stops it.
THEOREM AssemblyReactionsRun == AssemblySpec => []EveryReactionRuns
<1>1. AssemblyInv => EveryReactionRuns
    <2>1. CASE Playing
        BY <2>1, PlayPromises DEF AssemblyInv, HeldInv
    <2>2. CASE ~Playing
        BY <2>2 DEF Playing, EveryReactionRuns
    <2>3. QED BY <2>1, <2>2
<1>2. QED BY AssemblyInvariants, <1>1, PTL

LEMMA DaysApart ==
    ASSUME window \in Windows, NEW t \in Nat, window.start <= t, OutOfDays(t)
    PROVE  t > window.end
<1>1. window.start \in Nat /\ window.end \in Nat
    BY SchedulerAssumption
<1>2. Day(window.start) <= Day(t) /\ Day(window.start) \in Nat /\ Day(t) \in Nat
      /\ Day(window.end) \in Nat
    BY <1>1, DayMonotone, DayBounds
<1>3. Day(t) > Day(window.end)
    BY <1>2 DEF OutOfDays
<1>4. SUFFICES ASSUME t <= window.end PROVE FALSE
    BY <1>1
<1>5. Day(t) <= Day(window.end)
    BY <1>1, <1>4, DayMonotone
<1>6. QED BY <1>2, <1>3, <1>5

\* What the validator says of a finished run is right.
LEMMA ReportFacts ==
    ASSUME AssemblyInv, report # None
    PROVE  /\ SweepExact /\ ConflictsExplained /\ report.dangling = {}
           /\ CalendarsInCorpus /\ OnlyLate
<1>1. /\ pc = "sweep" /\ sweep.left = {}
      /\ report = [conflicts |-> sweep.rows, dangling |-> Dangling, misdated |-> Misdated]
    BY DEF AssemblyInv, ReportInv
<1>2. /\ report.conflicts = sweep.rows /\ report.dangling = Dangling
      /\ report.misdated = Misdated /\ Seen = calendars /\ ~Playing
    BY <1>1 DEF Seen, Playing
<1>3. /\ \A row \in sweep.rows : RowOK(row)
      /\ \A b, c \in calendars : ClashOf(b, c) => Reported(b, c)
    BY <1>1, <1>2 DEF AssemblyInv, SweepInv
<1>4. SweepExact
    <2>1. \A row \in report.conflicts :
              /\ row.of.person = row.with.person /\ row.of # row.with
              /\ row.with.start <= row.of.start /\ row.of.start < row.with.end
        BY <1>2, <1>3 DEF RowOK
    <2>2. ASSUME NEW b \in calendars, NEW c \in calendars, b # c, b.person = c.person,
                 b.start <= c.start, Overlaps(b.start, b.end, c)
          PROVE  \E row \in report.conflicts : row.of = c \/ (b.start = c.start /\ row.of = b)
        BY <1>2, <1>3, <2>2 DEF ClashOf, Reported
    <2>3. QED BY <2>1, <2>2 DEF SweepExact
<1>5. ConflictsExplained
    <2> SUFFICES ASSUME NEW row \in sweep.rows, row.of.source.turn = row.with.source.turn
                 PROVE  Forced(row)
        BY <1>2 DEF ConflictsExplained
    <2>1. /\ row.of \in calendars /\ row.with \in calendars /\ row.of # row.with
          /\ row.of.person = row.with.person
          /\ Overlaps(row.of.start, row.of.end, row.with)
        BY <1>2, <1>3 DEF RowOK, Overlaps
    <2>2. Explained(row.of, row.with)
        BY <2>1 DEF AssemblyInv, CalendarsInv
    <2>3. QED BY <2>2 DEF Explained, Forced
<1>6. Dangling = {}
    BY DEF AssemblyInv, CorpusInv, InCorpus, Dangling
<1>7. CalendarsInCorpus
    BY DEF AssemblyInv, CalendarsInv, EntryInv, InCorpus, CalendarsInCorpus
<1>8. OnlyLate
    <2>1. \A e \in corpus : e.at >= window.start
        <3>1. window.start \in Nat
            BY SchedulerAssumption DEF AssemblyInv, TurnInv
        <3>2. QED BY <3>1 DEF AssemblyInv, CorpusInv
    <2>2. ASSUME NEW c \in report.misdated.entries PROVE c.start > window.end
        <3>1. c \in calendars /\ OutOfDays(c.start)
            BY <1>2 DEF Misdated
        <3>2. QED BY <3>1, DaysApart DEF AssemblyInv, CalendarsInv, EntryInv, TurnInv
    <2>3. ASSUME NEW x \in report.misdated.nodes \ BaseItems
          PROVE  \E e \in report.misdated.events : e.at = world.born[x]
        <3>1. x \in Items \ BaseItems /\ world.born[x] # None /\ OutOfDays(world.born[x])
            BY <1>2 DEF Misdated
        <3>2. PICK e \in corpus : e.at = world.born[x]
            BY <1>1, <1>2, <3>1 DEF AssemblyInv, NodesInv, Dated
        <3>3. e \in Misdated.events
            BY <3>1, <3>2 DEF Misdated
        <3>4. QED BY <1>2, <3>2, <3>3
    <2>4. QED BY <2>1, <2>2, <2>3 DEF OnlyLate
<1>9. QED BY <1>2, <1>4, <1>5, <1>6, <1>7, <1>8

\* The run of any number of scenarios over one world is reported as it is: double
\* bookings exactly, each between two scenarios or logged as forced, no event that hangs
\* off nothing, no booking without its event, and nothing dated before the window;
\* the ids of two scenarios never meet.
THEOREM AssemblyReportSound == AssemblySpec => []ReportSound
<1>1. AssemblyInv => ReportSound
    <2> SUFFICES ASSUME AssemblyInv PROVE ReportSound
        OBVIOUS
    <2>1. pc = "failed" => run # Idle /\ (~StepKnown \/ ComesAgain)
        BY DEF AssemblyInv, HeldInv, Playing, PlayInv, EndInv
    <2>2. QED BY <2>1, ReportFacts DEF ReportSound
<1>2. QED BY AssemblyInvariants, <1>1, PTL
=============================================================================
