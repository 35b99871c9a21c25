------------------------------- MODULE Scheduler -------------------------------
(***************************************************************************)
(* Layer B, the discrete-event scheduler: core/sim/scheduler.py with the   *)
(* event queue, the clock, the busy map and the journal it drives.  It     *)
(* plays a scenario over a window and leaves the event log every document  *)
(* is later rendered from.                                                 *)
(*                                                                         *)
(* The program is sequential.  What varies from run to run is the scenario *)
(* and what its seeded random streams draw: arrivals, the people who fill  *)
(* a role, the number, times and parents of comments.  Every draw is a     *)
(* choice here, as is the order of two items with one timestamp and one    *)
(* priority, which the code settles by the spelling of their ids.          *)
(***************************************************************************)
EXTENDS WorkingCalendar, Sequences, SequencesExt

CONSTANTS
    People,        \* the ids of the people of the world
    Items,         \* the ids of the other nodes, and of the edges, of the world
    Attrs,         \* the names of the properties of nodes
    Scenarios,     \* the scenarios a run may play
    Windows,       \* the [start, end] windows a run may play them in
    ArrivalSets,   \* the sets of instants a Probabilistic trigger may draw
    BaseItems,     \* the items Layer A has put in the world
    CommentSlot,   \* _DEFAULT_COMMENT_SLOT
    MaxEvents,     \* the backstop against a runaway cycle
    None

TickPriority == 1000000000

-----------------------------------------------------------------------------
(* Scenarios.  A scenario maps the id of an activation to its trigger, the *)
(* priority and steps of its process, the project its events carry and,    *)
(* for each role, the sequences of people that may fill it, in which a     *)
(* person may come more than once: a bind lists whom it likes, and a draw   *)
(* that is not distinct takes each pick back.  The steps are those a        *)
(* lint-clean process can have: their ids are unique, and after and parent  *)
(* name steps of the same process.                                         *)

StepIds(steps) == {steps[i].id : i \in DOMAIN steps}

EffectOK(effect) ==
    /\ effect.kind \in {"create", "mutate", "milestone"}
    /\ effect.kind # "milestone" => effect.target \in Items
    /\ effect.kind = "create" => DOMAIN effect.props = Attrs
    /\ effect.kind = "mutate" => effect.attr \in Attrs

StepOK(step, act) ==
    /\ step.days \in Nat /\ step.offset \in Nat /\ step.slot \in Nat
    /\ step.hours \in Nat \cup {None}
    /\ step.by \in DOMAIN act.roles \cup {None}
    /\ step.after \in StepIds(act.steps) \cup {None}
    /\ step.parent \in StepIds(act.steps) \cup {None}
    /\ Len(step.effects) \in Nat
    /\ \A k \in 1..Len(step.effects) : EffectOK(step.effects[k])
    /\ step.spread # None => /\ step.spread.role \in DOMAIN act.roles
                             /\ step.spread.lo \in Nat /\ step.spread.hi \in Nat

ActivationOK(act) ==
    /\ act.priority \in Nat
    /\ Len(act.steps) \in Nat /\ DOMAIN act.steps = 1..Len(act.steps)
    /\ \A i, j \in DOMAIN act.steps : act.steps[i].id = act.steps[j].id => i = j
    /\ None \notin StepIds(act.steps)
    /\ \A i \in DOMAIN act.steps : StepOK(act.steps[i], act)
    /\ \A r \in DOMAIN act.roles : act.roles[r] \subseteq Seq(People)

ASSUME SchedulerAssumption ==
    /\ None \notin Nat \cup People \cup Items
    /\ CommentSlot \in Nat /\ MaxEvents \in Nat
    /\ BaseItems \subseteq Items
    /\ \A w \in Windows : w.start \in Nat /\ w.end \in Nat /\ w.start <= w.end
    /\ \A S \in ArrivalSets : S \subseteq Nat
    /\ \A s \in Scenarios : \A a \in DOMAIN s : ActivationOK(s[a])

VARIABLES
    scenario, window,   \* the arguments of run
    queue,              \* the items waiting: firings and condition ticks
    clock,
    journal,            \* the events, in the order they were appended
    busy,               \* each person's bookings
    scheduled, fired,   \* instance ids enqueued; instance ids run
    condFired,          \* the OnCondition activations that have fired
    issues,
    world,              \* when each item was created, and the properties of nodes
    since,              \* history: the simulated time at which a property got its value
    calendar,           \* the CalendarEvent nodes
    run,                \* the process instance being executed
    pc

vars == <<scenario, window, queue, clock, journal, busy, scheduled, fired,
          condFired, issues, world, since, calendar, run, pc>>

-----------------------------------------------------------------------------
(* Instances, events and queue entries.                                    *)

\* The instance id tells the activation and what made it fire.
Instance(a, why, at, event, milestone) ==
    [act |-> a, why |-> why, at |-> at, event |-> event, milestone |-> milestone]

Firing(a, at, inst) == [act |-> a, at |-> at, inst |-> inst]

Entry(s, f) == [at |-> f.at, prio |-> s[f.act].priority, tick |-> FALSE,
                act |-> f.act, inst |-> f.inst]

TickEntry(t) == [at |-> t, prio |-> TickPriority, tick |-> TRUE,
                 act |-> None, inst |-> None]

\* A queue q after the firings F have been pushed on it; what is already
\* scheduled or run, or lies past the end, is skipped.
\* (Two mutations: what is waiting or has run is enqueued again; the last
\* instant of the window is excluded.)
FreshUnchecked(F) == {f \in F : f.at <= window.end}
FreshStrict(F) == {f \in F : f.inst \notin scheduled \cup fired /\ f.at < window.end}

Fresh(F) == {f \in F : f.inst \notin scheduled \cup fired /\ f.at <= window.end}

Enqueue(q, F) ==
    /\ queue' = q \cup {Entry(scenario, f) : f \in Fresh(F)}
    /\ scheduled' = scheduled \cup {f.inst : f \in Fresh(F)}

Triggered(s, kind) == {a \in DOMAIN s : s[a].trigger.kind = kind}

-----------------------------------------------------------------------------
(* Seeding the queue.                                                      *)

\* The instants an OnCadence rule fires at within [start, end].
CadenceFirings(rule, w) ==
    IF rule.every = None
    THEN LET days == {d \in Day(w.start)..Day(w.end) :
                          IsWorkingDay(d) /\ d % 7 \in rule.weekdays}
         IN  {t \in {WindowStart(d) : d \in days} : w.start <= t /\ t <= w.end}
    ELSE LET cursors == {t \in w.start..w.end : (t - w.start) % (rule.every * DayLen) = 0}
         IN  {t \in {NextWorkingStart(c) : c \in cursors} : t <= w.end}

\* The arrivals a Probabilistic trigger has drawn, snapped to working time.
ProbabilisticFirings(arrivals, w) ==
    {NextWorkingStart(t) : t \in {u \in arrivals : w.start < u /\ u <= w.end}}

SeedFirings(s, w, arrivals) ==
    {Firing(a, NextWorkingStart(w.start), Instance(a, "start", None, None, None)) :
         a \in Triggered(s, "start")}
    \cup (UNION {{Firing(a, t, Instance(a, "at", t, None, None)) :
                      t \in CadenceFirings(s[a].trigger, w)} : a \in Triggered(s, "cadence")})
    \cup (UNION {{Firing(a, t, Instance(a, "at", t, None, None)) :
                      t \in ProbabilisticFirings(arrivals[a], w)} :
                          a \in Triggered(s, "probabilistic")})

\* A tick at the opening of every working day, if anything waits for a condition.
ConditionTicks(s, w) ==
    IF Triggered(s, "condition") = {} THEN {}
    ELSE {t \in {WindowStart(d) : d \in {c \in Day(w.start)..Day(w.end) : IsWorkingDay(c)}} :
              w.start <= t /\ t <= w.end}

Idle == [act |-> None]

NoProps == [x \in Attrs |-> None]

Init ==
    /\ scenario \in Scenarios
    /\ window \in Windows
    /\ \E arrivals \in [Triggered(scenario, "probabilistic") -> ArrivalSets] :
           LET seeds == {f \in SeedFirings(scenario, window, arrivals) : f.at <= window.end}
           IN  /\ queue = {Entry(scenario, f) : f \in seeds}
                          \cup {TickEntry(t) : t \in ConditionTicks(scenario, window)}
               /\ scheduled = {f.inst : f \in seeds}
    /\ clock = window.start
    /\ journal = <<>>
    /\ busy = [p \in People |-> {}]
    /\ fired = {} /\ condFired = {} /\ issues = {} /\ calendar = {}
    /\ world = [born  |-> [x \in Items |-> IF x \in BaseItems THEN 0 ELSE None],
                props |-> [x \in Items |-> NoProps]]
    /\ since = [x \in Items |-> [y \in Attrs |-> 0]]
    /\ run = Idle
    /\ pc = "idle"

-----------------------------------------------------------------------------
(* The main loop.                                                          *)

Before(e, f) == e.at < f.at \/ (e.at = f.at /\ e.prio < f.prio)

\* The entries that may be popped next.
Earliest == {e \in queue : \A f \in queue : ~Before(f, e)}

\* A condition reads one property of one node; it is false of a missing one.
Holds(cond, w) == /\ w.born[cond.node] # None
                  /\ w.props[cond.node][cond.attr] \in cond.values

CondFiring(a, at) == Firing(a, at, Instance(a, "cond", None, None, None))

\* The waiting conditions among A that hold in world w fire at instant at, once.
FireConditions(q, A, w, at) ==
    LET due == {a \in A \ condFired : Holds(scenario[a].trigger, w)}
    IN  /\ condFired' = condFired \cup due
        /\ Enqueue(q, {CondFiring(a, at) : a \in due})

\* (A mutation: the tick is read and not taken from the queue.)
PopTickPeeks ==
    /\ pc = "idle"
    /\ \E e \in Earliest :
           /\ e.tick
           /\ clock' = e.at
           /\ FireConditions(queue, Triggered(scenario, "condition"), world, e.at)
    /\ pc' = "settle"
    /\ UNCHANGED <<scenario, window, journal, busy, fired, issues, world, since, calendar, run>>

PopTick ==
    /\ pc = "idle"
    /\ \E e \in Earliest :
           /\ e.tick
           /\ clock' = e.at
           /\ FireConditions(queue \ {e}, Triggered(scenario, "condition"), world, e.at)
    /\ pc' = "settle"
    /\ UNCHANGED <<scenario, window, journal, busy, fired, issues, world, since, calendar, run>>

\* An instance starts: its roles are filled.  The code skips an entry whose
\* instance has run; there is never such an entry (NeverQueuedAgain).
PopFiring ==
    /\ pc = "idle"
    /\ \E e \in Earliest :
           /\ ~e.tick /\ e.inst \notin fired
           /\ clock' = e.at
           /\ queue' = queue \ {e}
           /\ fired' = fired \cup {e.inst}
           /\ \E roles \in [DOMAIN scenario[e.act].roles -> UNION {scenario[e.act].roles[r] :
                                                       r \in DOMAIN scenario[e.act].roles}] :
                  /\ \A r \in DOMAIN roles : roles[r] \in scenario[e.act].roles[r]
                  /\ run' = [act |-> e.act, inst |-> e.inst, at |-> e.at, roles |-> roles,
                             i |-> 1, ends |-> <<>>, evAt |-> e.at, effect |-> 1,
                             who |-> 0, n |-> 0, count |-> 0, posted |-> {}]
    /\ pc' = "step"
    /\ UNCHANGED <<scenario, window, journal, busy, scheduled, condFired, issues, world,
                   since, calendar>>

\* After every item the journal is held against the cap ...
Settle ==
    /\ pc = "settle" /\ Len(journal) <= MaxEvents
    /\ pc' = "idle" /\ run' = Idle
    /\ UNCHANGED <<scenario, window, queue, clock, journal, busy, scheduled, fired,
                   condFired, issues, world, since, calendar>>

\* ... and the run stops where it is when the cap is exceeded.
TripCap ==
    /\ pc = "settle" /\ Len(journal) > MaxEvents
    /\ issues' = issues \cup {[code |-> "max_events", at |-> clock, subject |-> None]}
    /\ pc' = "stopped" /\ run' = Idle
    /\ UNCHANGED <<scenario, window, queue, clock, journal, busy, scheduled, fired,
                   condFired, world, since, calendar>>

\* Whoever acts twice in a step is booked twice for one event; the first of these
\* bookings names the entry, and the others find the name taken.
FirstFor(p, b) == \A c \in busy[p] : c.source = b.source => b.start <= c.start

\* The calendars are derived from the busy map, one entry per source and person.
MaterializeCalendars ==
    /\ pc = "stopped" \/ (pc = "idle" /\ queue = {})
    /\ calendar' = UNION {{[person |-> p, start |-> b.start, end |-> b.end, source |-> b.source] :
                               b \in {c \in busy[p] : FirstFor(p, c)}} : p \in People}
    /\ pc' = "done"
    /\ UNCHANGED <<scenario, window, queue, clock, journal, busy, scheduled, fired,
                   condFired, issues, world, since, run>>

-----------------------------------------------------------------------------
(* One process instance.                                                   *)

Steps == scenario[run.act].steps
Step  == Steps[run.i]

\* (A mutation: the comments of one person are not numbered.)
EventIdUnnumbered(p, n) == [inst |-> run.inst, step |-> Step.id, person |-> p, n |-> 0]

EventId(p, n) == [inst |-> run.inst, step |-> Step.id, person |-> p, n |-> n]

Actors == IF Step.by = None THEN <<>> ELSE run.roles[Step.by]

Spreaders == IF Step.spread = None THEN <<>> ELSE run.roles[Step.spread.role]

\* The anchor instant of the step: its day, or the end of the step it follows.
StepBase ==
    Advance(IF Step.after = None THEN Advance(run.at, Step.days * DayLength)
                                 ELSE run.ends[Step.after],
            Step.offset)

\* Where p is booked: the earliest free slot or, when the slot is longer than a
\* day or empty, the next working start, whatever is booked there.
\* (A mutation: the other bookings of p are not looked at.)
SlotStartBlind(p, earliest, slot) ==
    IF Placeable(slot) THEN NextFreeSlot(earliest, slot, {}) ELSE NextWorkingStart(earliest)

SlotStart(p, earliest, slot) ==
    IF Placeable(slot) THEN NextFreeSlot(earliest, slot, busy[p])
                       ELSE NextWorkingStart(earliest)

Book(p, earliest, slot, source) ==
    LET start == SlotStart(p, earliest, slot)
    IN  /\ busy' = [busy EXCEPT ![p] = @ \cup {[start |-> start, end |-> start + slot,
                                                 source |-> source]}]
        /\ issues' = IF Placeable(slot) THEN issues
                     ELSE issues \cup {[code |-> "forced_overlap", subject |-> p, at |-> start]}

OutOfWindow(t) == NextWorkingStart(t) > window.end

StepKnown == Step.after # None => Step.after \in DOMAIN run.ends

\* Out of steps, or the next one is anchored past the window.
FinishInstance ==
    /\ pc = "step"
    /\ run.i <= Len(Steps) => StepKnown /\ OutOfWindow(StepBase)
    /\ pc' = "settle"
    /\ UNCHANGED <<scenario, window, queue, clock, journal, busy, scheduled, fired,
                   condFired, issues, world, since, calendar, run>>

\* The step follows one that has not been executed: ValueError ends the run.
StepRaises ==
    /\ pc = "step" /\ run.i <= Len(Steps) /\ ~StepKnown
    /\ pc' = "failed"
    /\ UNCHANGED <<scenario, window, queue, clock, journal, busy, scheduled, fired,
                   condFired, issues, world, since, calendar, run>>

\* The slot of the first actor is the time of the event; without actors it is the
\* next working start.  (A mutation: the anchor is taken as it is.)
EventTimeUnsnapped ==
    IF Actors = <<>> THEN StepBase ELSE SlotStart(Actors[1], StepBase, Step.slot)

EventTime ==
    IF Actors = <<>> THEN NextWorkingStart(StepBase)
    ELSE SlotStart(Actors[1], StepBase, Step.slot)

PlaceStep ==
    /\ pc = "step" /\ run.i <= Len(Steps) /\ StepKnown /\ ~OutOfWindow(StepBase)
    /\ run' = [run EXCEPT !.effect = 1, !.evAt = EventTime, !.who = 0]
    /\ pc' = "effects"
    /\ UNCHANGED <<scenario, window, queue, clock, journal, busy, scheduled, fired, condFired,
                   issues, world, since, calendar>>

\* Every actor is booked, in order; one who comes again finds the own booking.
BookActor ==
    /\ pc = "effects" /\ run.who < Len(Actors)
    /\ Book(Actors[run.who + 1], StepBase, Step.slot, EventId(None, 0))
    /\ run' = [run EXCEPT !.who = @ + 1]
    /\ UNCHANGED <<scenario, window, queue, clock, journal, scheduled, fired, condFired,
                   world, since, calendar, pc>>

AllBooked == run.who = Len(Actors)

Effect == Step.effects[run.effect]

AtEffect(kind) ==
    /\ pc = "effects" /\ AllBooked /\ run.effect <= Len(Step.effects) /\ Effect.kind = kind
    /\ run' = [run EXCEPT !.effect = @ + 1]
    /\ UNCHANGED <<scenario, window, clock, journal, busy, fired, issues, calendar, pc>>

\* CREATE_NODE and ADD_EDGE: nothing happens to an item that exists.
Create ==
    /\ AtEffect("create")
    /\ IF world.born[Effect.target] = None
       THEN /\ world' = [world EXCEPT !.born[Effect.target] = run.evAt,
                                      !.props[Effect.target] = Effect.props]
            /\ since' = [since EXCEPT ![Effect.target] = [x \in Attrs |-> run.evAt]]
       ELSE UNCHANGED <<world, since>>
    /\ UNCHANGED <<queue, scheduled, condFired>>

\* The property changes at once, whatever the time of the event, and the
\* conditions that read an attribute of that name are evaluated.
Mutate ==
    /\ AtEffect("mutate")
    /\ IF world.born[Effect.target] = None
       THEN UNCHANGED <<world, since>>
       ELSE /\ world' = [world EXCEPT !.props[Effect.target][Effect.attr] = Effect.value]
            /\ since' = [since EXCEPT ![Effect.target][Effect.attr] = run.evAt]
    /\ FireConditions(queue,
                      {a \in Triggered(scenario, "condition") :
                           scenario[a].trigger.attr = Effect.attr},
                      world', run.evAt)

Milestone ==
    /\ AtEffect("milestone")
    /\ Enqueue(queue,
               {Firing(a, run.evAt, Instance(a, "ms", run.evAt, None, Effect.name)) :
                    a \in {b \in Triggered(scenario, "milestone") :
                               scenario[b].trigger.name = Effect.name}})
    /\ UNCHANGED <<world, since, condFired>>

\* The firings of the activations that react to an event.  (A mutation dates them
\* with its day.)
Reacting(event) == {a \in Triggered(scenario, "event") :
                        /\ scenario[a].trigger.type = event.type
                        /\ event.project \in scenario[a].trigger.projects}

ReactionsByDay(event) ==
    {Firing(a, WindowStart(Day(event.at)), Instance(a, "evt", None, event.id, None)) :
         a \in Reacting(event)}

Reactions(event) ==
    {Firing(a, event.at, Instance(a, "evt", None, event.id, None)) : a \in Reacting(event)}

Emit(event) ==
    /\ journal' = Append(journal, event)
    /\ Enqueue(queue, Reactions(event))

NewEvent(id, type, at, parent) ==
    [id |-> id, type |-> type, at |-> at, parent |-> parent,
     project |-> scenario[run.act].project]

\* The event of the step hangs off its parent step, or the step it follows, if
\* that has been executed.
StepParent ==
    LET key == IF Step.parent # None THEN Step.parent ELSE Step.after
    IN  IF key \in DOMAIN run.ends THEN [EventId(None, 0) EXCEPT !.step = key] ELSE None

EmitStep ==
    /\ pc = "effects" /\ AllBooked /\ run.effect > Len(Step.effects)
    /\ Emit(NewEvent(EventId(None, 0), Step.emits, run.evAt, StepParent))
    /\ run' = [run EXCEPT !.who = 0, !.n = 0, !.count = 0, !.posted = {}]
    /\ pc' = "comments"
    /\ UNCHANGED <<scenario, window, clock, busy, fired, condFired, issues, world, since,
                   calendar>>

-----------------------------------------------------------------------------
(* Comments: each person of the spread role posts a number of them, at     *)
(* moments drawn within the window of the step.                            *)

AtComments ==
    /\ pc = "comments"
    /\ UNCHANGED <<scenario, window, clock, fired, condFired, world, since, calendar>>

\* The next person of the role, or one who has had a turn in this step.
ComesNew == /\ run.n = run.count /\ run.who < Len(Spreaders)
            /\ \A w \in 1..run.who : Spreaders[w] # Spreaders[run.who + 1]
ComesAgain == /\ run.n = run.count /\ run.who < Len(Spreaders)
              /\ \E w \in 1..run.who : Spreaders[w] = Spreaders[run.who + 1]

NextCommenter ==
    /\ AtComments /\ ComesNew
    /\ \E k \in Step.spread.lo..Step.spread.hi :
           run' = [run EXCEPT !.who = @ + 1, !.n = 0, !.count = k]
    /\ UNCHANGED <<queue, journal, busy, scheduled, issues, pc>>

\* The draws are seeded by instance, step and person: one who comes again makes the
\* same ones.  Where none led to a comment, none does now.
Own == {c \in run.posted : c.id.person = Spreaders[run.who + 1]}

CommentsNoMore ==
    /\ AtComments /\ ComesAgain /\ Own = {}
    /\ run' = [run EXCEPT !.who = @ + 1, !.n = 0, !.count = 0]
    /\ UNCHANGED <<queue, journal, busy, scheduled, issues, pc>>

\* A draw is a fraction, below one, of the working time of the step.
Draws == LET w == IF Step.hours = None THEN DayLength ELSE Step.hours
         IN  {x \in 0..w : x = 0 \/ x < w}

\* (A mutation: the person is booked before the window is looked at.)
SkipCommentBooks ==
    /\ AtComments /\ run.n < run.count
    /\ \E x \in Draws :
           LET earliest == Advance(run.evAt, x) IN
           /\ OutOfWindow(earliest)
           /\ Book(Spreaders[run.who], earliest, CommentSlot,
                   EventId(Spreaders[run.who], run.n))
    /\ run' = [run EXCEPT !.n = @ + 1]
    /\ UNCHANGED <<queue, journal, scheduled, pc>>

SkipComment ==
    /\ AtComments /\ run.n < run.count
    /\ \E x \in Draws : OutOfWindow(Advance(run.evAt, x))
    /\ run' = [run EXCEPT !.n = @ + 1]
    /\ UNCHANGED <<queue, journal, busy, scheduled, issues, pc>>

\* The comment replies to a comment of the same step posted at an earlier
\* instant, or to the event of the step.
\* (A mutation: a comment posted at a later instant may be replied to.)
ThreadParentsAny(at) == {EventId(None, 0)} \cup {c.id : c \in run.posted}

ThreadParents(at) ==
    {EventId(None, 0)} \cup {c.id : c \in {d \in run.posted : d.at < at}}

PostComment ==
    /\ AtComments /\ run.n < run.count
    /\ \E x \in Draws :
           LET p        == Spreaders[run.who]
               earliest == Advance(run.evAt, x)
               at       == SlotStart(p, earliest, CommentSlot)
               id       == EventId(p, run.n)
           IN  /\ ~OutOfWindow(earliest)
               /\ Book(p, earliest, CommentSlot, id)
               /\ \E parent \in ThreadParents(at) :
                      Emit(NewEvent(id, Step.spread.emits, at, parent))
               /\ run' = [run EXCEPT !.n = @ + 1, !.posted = @ \cup {[id |-> id, at |-> at]}]
    /\ UNCHANGED pc

\* Where some led to comments, the first of them is booked again, and the journal
\* has its id: append raises, and the run ends there.
CommentRaises ==
    /\ AtComments /\ ComesAgain
    /\ \E c \in Own, x \in Draws :
           /\ \A d \in Own : c.id.n <= d.id.n
           /\ ~OutOfWindow(Advance(run.evAt, x))
           /\ Book(c.id.person, Advance(run.evAt, x), CommentSlot, c.id)
    /\ pc' = "failed"
    /\ UNCHANGED <<queue, journal, scheduled, run>>

\* The step ends when its work has been done; the next one can follow it.
\* (A mutation: the step ends when its event happens.)
StepEndAtEvent == run.evAt

StepEnd == Advance(run.evAt, IF Step.hours = None THEN Step.slot ELSE Step.hours)

EndStep ==
    /\ AtComments /\ run.n = run.count /\ run.who = Len(Spreaders)
    /\ run' = [run EXCEPT !.ends = [x \in DOMAIN @ \cup {Step.id} |->
                                       IF x = Step.id THEN StepEnd ELSE @[x]],
                          !.i = @ + 1]
    /\ pc' = "step"
    /\ UNCHANGED <<queue, journal, busy, scheduled, issues>>

-----------------------------------------------------------------------------
Next ==
    \/ PopTick \/ PopFiring \/ Settle \/ TripCap \/ MaterializeCalendars
    \/ FinishInstance \/ StepRaises \/ PlaceStep \/ BookActor
    \/ Create \/ Mutate \/ Milestone \/ EmitStep
    \/ NextCommenter \/ CommentsNoMore \/ SkipComment \/ PostComment \/ CommentRaises \/ EndStep

\* The loop runs until the queue is empty or the cap trips.
Spec == Init /\ [][Next]_vars /\ WF_vars(Next)

-----------------------------------------------------------------------------
(***************************************************************************)
(* Properties.                                                             *)
(***************************************************************************)

TypeOK ==
    /\ scenario \in Scenarios /\ window \in Windows
    /\ clock \in Nat
    /\ \A e \in queue : e.at \in Nat
    /\ DOMAIN busy = People
    /\ \A p \in People : /\ IsFiniteSet(busy[p])
                         /\ \A b \in busy[p] : b.start \in Nat /\ b.end \in Nat
    /\ world.born \in [Items -> Nat \cup {None}]
    /\ pc \in {"idle", "settle", "step", "effects", "comments", "stopped", "done", "failed"}
    /\ pc \in {"step", "effects", "comments"} =>
           /\ run.act \in DOMAIN scenario
           /\ run.evAt \in Nat
           /\ \A x \in DOMAIN run.ends : run.ends[x] \in Nat

\* Nothing waits for an instant the clock has passed, so that Clock.advance_to
\* never raises: what an instance enqueues while it is executed, however far
\* its steps reach, lies at or after the item that was popped.
QueueAhead == \A e \in queue : clock <= e.at

\* No instance that has run is waiting to run: the check for it in the main
\* loop never skips anything.
NeverQueuedAgain == \A e \in queue : ~e.tick => e.inst \notin fired

\* What waits in the event queue lies ahead of the clock and has not run, although
\* instances are executed to their end ahead of the clock and set off others.
QueueSound == QueueAhead /\ NeverQueuedAgain

\* No two events have one id: EventJournal.append never raises, however many
\* activations, cascades and comments there are, but where one person comes twice in
\* the role that comments on a step (CommentRaises); actors may repeat.
UniqueEventIds == \A i, j \in DOMAIN journal : journal[i].id = journal[j].id => i = j

\* The half of conformance invariant I1 that the scheduler keeps: every event
\* has a working instant, also the events of forced slots and of steps nobody acts in.
WorkingHours == \A i \in DOMAIN journal : IsWorking(journal[i].at)

\* Conformance invariant I4, for comments: a comment replies to an event that
\* is in the journal before it and that is not later than it.
RepliesWellFormed ==
    \A i \in DOMAIN journal : journal[i].id.person # None =>
        \E j \in 1..(i-1) : /\ journal[j].id = journal[i].parent
                            /\ journal[j].at <= journal[i].at

\* Work promised to follow a step starts when the work of that step is done
\* (I2), whatever the bookings of the people in between.
AfterHonoured ==
    \A i, j \in DOMAIN journal :
        LET a == journal[i].id  b == journal[j].id IN
        a.inst = b.inst /\ a.person = None /\ b.person = None =>
            \A x, y \in Range(scenario[a.inst.act].steps) :
                x.id = a.step /\ y.id = b.step /\ y.after = x.id =>
                    Advance(journal[i].at, IF x.hours = None THEN x.slot ELSE x.hours)
                        <= journal[j].at

\* Nobody is in two places at once, unless a slot was forced and the overlap logged (D27).
OverlapsFlagged ==
    \A p \in People : \A b, c \in busy[p] :
        b # c /\ Overlaps(b.start, b.end, c) =>
            \E x \in issues : /\ x.code = "forced_overlap" /\ x.subject = p
                              /\ x.at \in {b.start, c.start}

\* Between steps, every booking is explained by an event of the journal, so
\* that the calendars derived from the busy map agree with the log.
BookingsHaveEvents ==
    pc \in {"step", "settle", "idle", "stopped", "done"} =>
        \A p \in People : \A b \in busy[p] :
            \E i \in DOMAIN journal : journal[i].id = b.source

\* The journal and the calendars of a run agree with each other and with the
\* process definitions: ids, working hours, replies, dependencies, double bookings.
JournalSound ==
    /\ UniqueEventIds
    /\ WorkingHours
    /\ RepliesWellFormed
    /\ AfterHonoured
    /\ OverlapsFlagged
    /\ BookingsHaveEvents

\* A run that the cap does not stop has executed everything that was due: what
\* was scheduled, and a reaction to every event in the window that has one.
EveryReactionRuns ==
    pc = "done" /\ ~(\E x \in issues : x.code = "max_events") =>
        /\ scheduled = fired
        /\ \A i \in DOMAIN journal : \A a \in Triggered(scenario, "event") :
               LET e == journal[i]  t == scenario[a].trigger IN
               t.type = e.type /\ e.project \in t.projects /\ e.at <= window.end =>
                   Instance(a, "evt", None, e.id, None) \in fired
=============================================================================
