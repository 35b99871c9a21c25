----------------------------- MODULE RunAssembly -----------------------------
(***************************************************************************)
(* The scenarios of one run (assembly/corpus.py, phase 1) and the sweep of  *)
(* the consistency validator over what they leave (assembly/validation.py). *)
(* Each scenario has a scheduler of its own, with a clock, a busy map and a  *)
(* journal of its own; the world is shared, and every scenario finds it as   *)
(* the one before has left it, at the end of the window.                    *)
(***************************************************************************)
EXTENDS Scheduler

\* The scenarios of the initiatives of a world, in the order of their ids;
\* initiatives of playbooks that are not registered are left out.
CONSTANT Programs

ASSUME AssemblyAssumption ==
    \A p \in Programs : p \in Seq(Scenarios) /\ p # <<>>

VARIABLES
    program, turn,   \* the scenarios, and the one that is played
    corpus,          \* the events of all of them
    calendars,       \* the CalendarEvent nodes of all of them
    logged,          \* the issues of all of them
    sweep,           \* the validator's pass over the calendars
    report           \* what the validator has found

assembly == <<program, turn, corpus, calendars, logged, sweep, report>>

AssemblyInit ==
    /\ program \in Programs
    /\ scenario = program[1]
    /\ Init
    /\ turn = 1
    /\ corpus = {} /\ calendars = {} /\ logged = {}
    /\ sweep = None /\ report = None

-----------------------------------------------------------------------------
(* Gathering what one scenario has left.                                   *)

\* The activations of a scenario carry the id of its initiative, and with them its
\* instances, its events and the bookings for these.
\* (A mutation: two initiatives of one playbook share their ids.)
InScenarioPlain(k, id) == [turn |-> 0, id |-> id]

InScenario(k, id) == [turn |-> k, id |-> id]

Rekeyed(event) ==
    [event EXCEPT !.id = InScenario(turn, @),
                  !.parent = IF @ = None THEN None ELSE InScenario(turn, @)]

\* EventJournal.append raises on an id it has.
Gather ==
    /\ pc = "done"
    /\ LET Ids == {e.id : e \in corpus}
           New == {Rekeyed(e) : e \in Range(journal)}
           Booked == {[c EXCEPT !.source = InScenario(turn, @)] : c \in calendar}
           Known == {<<c.source, c.person>> : c \in calendars}
       IN /\ calendars' = calendars \cup {c \in Booked : <<c.source, c.person>> \notin Known}
          /\ logged' = logged \cup {[turn |-> turn, issue |-> x] : x \in issues}
          /\ IF \E e \in New : e.id \in Ids
             THEN pc' = "failed" /\ UNCHANGED corpus
             ELSE pc' = "gathered" /\ corpus' = corpus \cup New
    /\ UNCHANGED <<scenario, window, queue, clock, journal, busy, scheduled, fired, condFired,
                   issues, world, since, calendar, run, program, turn, sweep, report>>

\* The next scenario starts over, in the world as it is.
NextScenario ==
    /\ pc = "gathered" /\ turn < Len(program)
    /\ turn' = turn + 1
    /\ scenario' = program[turn + 1]
    /\ \E arrivals \in [Triggered(scenario', "probabilistic") -> ArrivalSets] :
           LET seeds == {f \in SeedFirings(scenario', window, arrivals) : f.at <= window.end}
           IN  /\ queue' = {Entry(scenario', f) : f \in seeds}
                           \cup {TickEntry(t) : t \in ConditionTicks(scenario', window)}
               /\ scheduled' = {f.inst : f \in seeds}
    /\ clock' = window.start
    /\ journal' = <<>>
    /\ busy' = [p \in People |-> {}]
    /\ fired' = {} /\ condFired' = {} /\ issues' = {} /\ calendar' = {}
    /\ pc' = "idle"
    /\ UNCHANGED <<window, world, since, run, program, corpus, calendars, logged, sweep, report>>

-----------------------------------------------------------------------------
(* validate_consistency.                                                   *)

\* Bookings are swept by person, start and end; those with all in common in the
\* order of their ids, and people in the order of theirs, which is some order.
Swept(b) ==
    /\ b.person = CHOOSE p \in {c.person : c \in sweep.left} : TRUE
    /\ \A c \in {d \in sweep.left : d.person = b.person} :
         b.start < c.start \/ (b.start = c.start /\ b.end <= c.end)

\* (A mutation: a booking is compared with the one just before it.)
FurthestJustBefore(last, b) == b

\* The booking that reaches furthest of the two.
Furthest(last, b) == IF b.end > last.end THEN b ELSE last

\* _scheduling_conflicts, a booking at a time; last holds the one that reaches
\* furthest of those of the person so far.
SweepBooking ==
    /\ pc = "sweep"
    /\ \E b \in sweep.left :
         /\ Swept(b)
         /\ LET last == {c \in sweep.last : c.person = b.person}
            IN sweep' = [left |-> sweep.left \ {b},
                         last |-> IF last = {} THEN {b} ELSE {Furthest(c, b) : c \in last},
                         rows |-> sweep.rows \cup {[of |-> b, with |-> c] :
                                                      c \in {d \in last : b.start < d.end}}]
    /\ UNCHANGED <<vars, program, turn, corpus, calendars, logged, report>>

\* _dangling_event_references
Dangling == {e \in corpus : e.parent # None /\ e.parent \notin {d.id : d \in corpus}}

\* The window of the validator has whole days (runner.py, _simulation_window).
OutOfDays(t) == Day(t) < Day(window.start) \/ Day(t) > Day(window.end)

\* _out_of_window
Misdated ==
    [events |-> {e \in corpus : OutOfDays(e.at)},
     entries |-> {c \in calendars : OutOfDays(c.start)},
     nodes |-> {x \in Items : world.born[x] # None /\ OutOfDays(world.born[x])}]

StartSweep ==
    /\ pc = "gathered" /\ turn = Len(program)
    /\ sweep' = [left |-> calendars, last |-> {}, rows |-> {}]
    /\ pc' = "sweep"
    /\ UNCHANGED <<scenario, window, queue, clock, journal, busy, scheduled, fired, condFired,
                   issues, world, since, calendar, run, program, turn, corpus, calendars,
                   logged, report>>

Validate ==
    /\ pc = "sweep" /\ sweep.left = {} /\ report = None
    /\ report' = [conflicts |-> sweep.rows, dangling |-> Dangling, misdated |-> Misdated]
    /\ UNCHANGED <<vars, program, turn, corpus, calendars, logged, sweep>>

-----------------------------------------------------------------------------
Play == Next /\ UNCHANGED assembly

AssemblyNext == Play \/ Gather \/ NextScenario \/ StartSweep \/ SweepBooking \/ Validate

AssemblySpec ==
    AssemblyInit /\ [][AssemblyNext]_<<vars, assembly>> /\ WF_<<vars, assembly>>(AssemblyNext)

-----------------------------------------------------------------------------
(* Properties.                                                             *)

\* The sweep, which remembers one booking, finds a double booking if there is one
\* among any two: whichever of the two it names is inside one that it names, and
\* of two bookings that overlap it names one, the later if they do not start
\* together (validation.py, _scheduling_conflicts).
SweepExact ==
    /\ \A row \in report.conflicts :
         /\ row.of.person = row.with.person /\ row.of # row.with
         /\ row.with.start <= row.of.start /\ row.of.start < row.with.end
    /\ \A b, c \in calendars :
         (b # c /\ b.person = c.person /\ b.start <= c.start /\ Overlaps(b.start, b.end, c)) =>
             \E row \in report.conflicts : row.of = c \/ (b.start = c.start /\ row.of = b)

\* One of the two bookings was forced.
Forced(row) ==
    \E x \in logged : /\ x.issue.code = "forced_overlap" /\ x.issue.subject = row.of.person
                      /\ \E b \in {row.of, row.with} : x.turn = b.source.turn /\ x.issue.at = b.start

\* A double booking that nobody has logged is one of two scenarios, which do not
\* see each other's bookings; inside a scenario the scheduler has logged it (D27).
ConflictsExplained ==
    \A row \in report.conflicts : row.of.source.turn = row.with.source.turn => Forced(row)

\* Every entry of a calendar belongs to an event of the corpus, of its scenario.
CalendarsInCorpus == \A c \in calendars : \E e \in corpus : e.id = c.source

\* What is misdated slipped past the end: an event placed after its anchor, or a
\* node it made.  Nothing is ever dated before the window, however often the
\* window is played.
OnlyLate ==
    /\ \A e \in corpus : e.at >= window.start
    /\ \A c \in report.misdated.entries : c.start > window.end
    /\ \A x \in report.misdated.nodes \ BaseItems :
         \E e \in report.misdated.events : e.at = world.born[x]

\* The run of any number of scenarios over one world is reported as it is: double
\* bookings exactly, each with its reason; no event hangs off one that is not
\* there; whatever a calendar shows has happened; and a second scenario of the
\* same playbook clashes with nothing, so that what raises is a step out of order or
\* a person who comments twice (corpus.py:231-242, _rekey_activation).
ReportSound ==
    /\ pc = "failed" => run # Idle /\ (~StepKnown \/ ComesAgain)
    /\ report # None =>
         /\ SweepExact
         /\ ConflictsExplained
         /\ report.dangling = {}
         /\ CalendarsInCorpus
         /\ OnlyLate

\* Every run ends with a report, or where a step or a comment raises, also one
\* with a scenario whose activations trigger each other for ever.
Finishes == <>(report # None \/ pc = "failed")

-----------------------------------------------------------------------------
(* What is said of this code and does not hold.                            *)

\* The calendars a run hands to its exports do not overlap (the docstring of
\* _materialize_calendars, scheduler.py:755: "real, non-overlapping calendars"),
\* unless a slot was forced (validation.py:14-18).  The busy map is one scenario's.
CalendarsDisjoint == report # None => \A row \in report.conflicts : Forced(row)
=============================================================================
