---------------------------- MODULE WorkingCalendar ----------------------------
(***************************************************************************)
(* The business calendar every timestamp of a simulation is computed with: *)
(* enterprise_sim/core/sim/calendar.py.                                    *)
(*                                                                         *)
(* A datetime is an instant, a natural number of ticks; instant 0 is the   *)
(* midnight that opens a Monday.  A date is the number of its day.  The    *)
(* resolution of a tick is the choice of whoever gives DayLen its value.   *)
(*                                                                         *)
(* The two loops of the class (advance and next_free_slot) are stated here *)
(* by what they return; FreeSlotSearch and AdvanceSearch model the loops   *)
(* themselves and relate them to these definitions.                        *)
(***************************************************************************)
EXTENDS Integers, FiniteSets, FiniteSetsExt

CONSTANTS
    DayLen,     \* ticks from one midnight to the next
    DayStart,   \* day_start: the first working tick of a working day
    DayEnd,     \* day_end: the tick at which the working day has ended
    WorkDays    \* working_weekdays, Monday = 0

\* What __post_init__ rejects with ValueError, and that a time of day is
\* earlier than the next midnight.
ASSUME CalendarAssumption ==
    /\ DayLen \in Nat /\ DayStart \in Nat /\ DayEnd \in Nat
    /\ DayStart < DayEnd /\ DayEnd < DayLen
    /\ WorkDays # {} /\ WorkDays \subseteq 0..6

DayLength == DayEnd - DayStart

Day(t) == t \div DayLen

IsWorkingDay(d) == d % 7 \in WorkDays

WindowStart(d) == d * DayLen + DayStart
WindowEnd(d)   == d * DayLen + DayEnd

IsWorking(t) == /\ IsWorkingDay(Day(t))
                /\ WindowStart(Day(t)) <= t
                /\ t < WindowEnd(Day(t))

\* The first working day after day d: at most a week away.
NextWorkingDay(d) ==
    d + CHOOSE k \in 1..7 : /\ IsWorkingDay(d + k)
                            /\ \A j \in 1..(k-1) : ~IsWorkingDay(d + j)

\* A mutation: the end of the day taken for a working instant.
NextWorkingStartAtClosing(t) ==
    LET d == Day(t) IN
    IF IsWorkingDay(d) /\ t <= WindowEnd(d)
    THEN IF t < WindowStart(d) THEN WindowStart(d) ELSE t
    ELSE WindowStart(NextWorkingDay(d))

NextWorkingStart(t) ==
    LET d == Day(t) IN
    IF IsWorkingDay(d) /\ t < WindowEnd(d)
    THEN IF t < WindowStart(d) THEN WindowStart(d) ELSE t
    ELSE WindowStart(NextWorkingDay(d))

\* The working ticks in [a, b).
WorkBetween(a, b) == Cardinality({u \in a..(b-1) : IsWorking(u)})

\* The instant by which h ticks of work have been done from t on: just past
\* the h-th working tick.  No time passes, and nothing is snapped, when h = 0.
Advance(t, h) ==
    IF h = 0 THEN t
    ELSE CHOOSE r \in (t+1)..(t + 8 * DayLen * h) :
             IsWorking(r - 1) /\ WorkBetween(t, r) = h

-----------------------------------------------------------------------------
(* Free slots.  A booked interval is a record with a start and an end.     *)

Overlaps(s, e, b) == b.start < e /\ s < b.end

\* A slot of length d at s lies in one working day and meets no interval of busy.
FreeAt(s, d, busy) ==
    /\ IsWorking(s)
    /\ s + d <= WindowEnd(Day(s))
    /\ \A b \in busy : ~Overlaps(s, s + d, b)

\* By this instant a whole working day that lies after earliest and after
\* every interval of busy has opened.
FreeBy(earliest, busy) == Max({earliest} \cup {b.end : b \in busy}) + 8 * DayLen

\* The least start of a free slot at or after earliest.
NextFreeSlot(earliest, d, busy) ==
    CHOOSE s \in earliest..FreeBy(earliest, busy) :
        /\ FreeAt(s, d, busy)
        /\ \A u \in earliest..(s-1) : ~FreeAt(u, d, busy)

\* The durations next_free_slot accepts; for others it raises ValueError.
Placeable(d) == 0 < d /\ d <= DayLength
=============================================================================
