---------------------------- MODULE FreeSlotSearch ----------------------------
(***************************************************************************)
(* The greedy search of WorkingCalendar.next_free_slot, one action per     *)
(* pass of its while loop: the slot at slotPos would outlast the day,      *)
(* or it meets a booked interval, or it is returned.  One behaviour is one *)
(* call.                                                                   *)
(***************************************************************************)
EXTENDS WorkingCalendar

CONSTANTS
    Earliests,  \* the instants a call may ask for
    Durations,  \* the slot lengths a call may ask for
    BusySets    \* the sets of booked intervals a call may be given

Interval == [start : Nat, end : Nat]

ASSUME CallAssumption ==
    /\ Earliests \subseteq Nat
    /\ Durations \subseteq Nat
    /\ \A slotBusy \in BusySets : IsFiniteSet(slotBusy) /\ slotBusy \subseteq Interval

VARIABLES slotFrom, slotLen, slotBusy,   \* the arguments of the call
          slotPos,                        \* the candidate start
          slotPc                          \* "search", "found" or "rejected"

slotArgs == <<slotFrom, slotLen, slotBusy>>
slotVars == <<slotFrom, slotLen, slotBusy, slotPos, slotPc>>

\* The two ValueErrors at the head of the method come before the search.
SlotInit ==
    /\ slotFrom \in Earliests
    /\ slotLen \in Durations
    /\ slotBusy \in BusySets
    /\ slotPos = NextWorkingStart(slotFrom)
    /\ slotPc = IF Placeable(slotLen) THEN "search" ELSE "rejected"

Fits == slotPos + slotLen <= WindowEnd(Day(slotPos))

\* A mutation: bookings that began before the slot are overlooked.
BlockingFromPos == {b \in slotBusy : slotPos <= b.start /\ Overlaps(slotPos, slotPos + slotLen, b)}

Blocking == {b \in slotBusy : Overlaps(slotPos, slotPos + slotLen, b)}

\* slotBusy is searched in the order (start, end): the first interval that blocks
\* the slot is one with the least start and, among these, the least end.
FirstOverlap ==
    CHOOSE b \in Blocking : \A c \in Blocking :
        b.start < c.start \/ (b.start = c.start /\ b.end <= c.end)

\* The slot would run past the end of the day.
SkipDay ==
    /\ slotPc = "search" /\ ~Fits
    /\ slotPos' = NextWorkingStart(WindowEnd(Day(slotPos)))
    /\ UNCHANGED <<slotArgs, slotPc>>

\* A mutation: the rest of the day is given up.
SkipConflictToNextDay ==
    /\ slotPc = "search" /\ Fits /\ Blocking # {}
    /\ slotPos' = NextWorkingStart(WindowEnd(Day(FirstOverlap.end)))
    /\ UNCHANGED <<slotArgs, slotPc>>

SkipConflict ==
    /\ slotPc = "search" /\ Fits /\ Blocking # {}
    /\ slotPos' = NextWorkingStart(FirstOverlap.end)
    /\ UNCHANGED <<slotArgs, slotPc>>

Return ==
    /\ slotPc = "search" /\ Fits /\ Blocking = {}
    /\ slotPc' = "found"
    /\ UNCHANGED <<slotArgs, slotPos>>

SlotNext == SkipDay \/ SkipConflict \/ Return

\* The loop of a running call goes round until it returns.
SlotSpec == SlotInit /\ [][SlotNext]_slotVars /\ WF_slotVars(SlotNext)
-----------------------------------------------------------------------------
(***************************************************************************)
(* Properties.                                                             *)
(***************************************************************************)

SlotTypeOK ==
    /\ slotFrom \in Earliests /\ slotLen \in Durations /\ slotBusy \in BusySets
    /\ slotPos \in Nat
    /\ slotPc \in {"search", "found", "rejected"}

\* The search never jumps over a start at which the slot would have been
\* free, and only ever looks at working instants.
NothingSkipped ==
    slotPc # "rejected" =>
        /\ slotFrom <= slotPos
        /\ IsWorking(slotPos)
        /\ \A u \in slotFrom..(slotPos-1) : ~FreeAt(u, slotLen, slotBusy)

\* What the method returns is the earliest free slot.
FoundIsEarliest == slotPc = "found" => slotPos = NextFreeSlot(slotFrom, slotLen, slotBusy)

\* The loop of next_free_slot does what the method promises: it looks at working
\* instants only, jumps over no free start and returns the first one.
SearchSound == NothingSkipped /\ FoundIsEarliest

\* A search that goes on is past the candidate it started the pass with.
SlotProgress == [][slotPc = "search" /\ slotPc' = "search" => slotPos' > slotPos]_slotVars

\* Every call returns: no bookings, however dense, keep the loop going.
SlotReturns == <>(slotPc # "search")
=============================================================================
