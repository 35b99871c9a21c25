----------------------------- MODULE AdvanceSearch -----------------------------
(***************************************************************************)
(* The loop of WorkingCalendar.advance, one action per pass: the work ends *)
(* within the window of the day at workPos, or the rest of that window is  *)
(* used up and the count goes on in the next one.  One behaviour is one    *)
(* call.                                                                   *)
(***************************************************************************)
EXTENDS WorkingCalendar

CONSTANTS
    WorkFroms,   \* the instants a call may start from
    WorkAmounts  \* the amounts of work a call may ask for, in ticks

ASSUME AdvanceAssumption == WorkFroms \subseteq Nat /\ WorkAmounts \subseteq Nat

VARIABLES workFrom, workHours,        \* the arguments of the call
          workPos,         \* where the count has got to
          workLeft,   \* the work still to be placed
          workPc           \* "loop" or "done"

workVars == <<workFrom, workHours, workPos, workLeft, workPc>>

\* The early return for zero hours leaves t as it is.
WorkInit ==
    /\ workFrom \in WorkFroms
    /\ workHours \in WorkAmounts
    /\ workLeft = workHours
    /\ \/ workHours = 0 /\ workPos = workFrom /\ workPc = "done"
       \/ workHours > 0 /\ workPos = NextWorkingStart(workFrom) /\ workPc = "loop"

Available == WindowEnd(Day(workPos)) - workPos

\* A mutation: a result at the end of a window is moved to the next one.
EndInWindowSnapped ==
    /\ workPc = "loop" /\ Available >= workLeft
    /\ workPos' = NextWorkingStart(workPos + workLeft)
    /\ workLeft' = 0
    /\ workPc' = "done"
    /\ UNCHANGED <<workFrom, workHours>>

EndInWindow ==
    /\ workPc = "loop" /\ Available >= workLeft
    /\ workPos' = workPos + workLeft
    /\ workLeft' = 0
    /\ workPc' = "done"
    /\ UNCHANGED <<workFrom, workHours>>

\* A mutation: the instant at which a window ends is charged.
UseUpWindowInclusive ==
    /\ workPc = "loop" /\ Available < workLeft
    /\ workLeft' = workLeft - Available - 1
    /\ workPos' = NextWorkingStart(WindowEnd(Day(workPos)))
    /\ UNCHANGED <<workFrom, workHours, workPc>>

UseUpWindow ==
    /\ workPc = "loop" /\ Available < workLeft
    /\ workLeft' = workLeft - Available
    /\ workPos' = NextWorkingStart(WindowEnd(Day(workPos)))
    /\ UNCHANGED <<workFrom, workHours, workPc>>

WorkNext == EndInWindow \/ UseUpWindow

WorkSpec == WorkInit /\ [][WorkNext]_workVars /\ WF_workVars(WorkNext)
-----------------------------------------------------------------------------
(***************************************************************************)
(* Properties.                                                             *)
(***************************************************************************)

WorkTypeOK ==
    /\ workFrom \in WorkFroms /\ workHours \in WorkAmounts
    /\ workPos \in Nat /\ workLeft \in Nat
    /\ workPc \in {"loop", "done"}

\* At every pass the work counted from workFrom up to workPos and the work that remains
\* add up to what the caller asked for: no working tick is charged twice or
\* missed at the boundary of a window.
WorkConserved == WorkBetween(workFrom, workPos) + workLeft = workHours

\* The result is the instant just past the last tick of work.
ResultIsAdvance == workPc = "done" => workPos = Advance(workFrom, workHours)

\* The loop of advance does what the method promises: it charges every working
\* tick once, across closings, nights and days off, and returns the instant past
\* the last one.
WorkSound == WorkConserved /\ ResultIsAdvance

\* Work of any length ends.
WorkReturns == <>(workPc = "done")
=============================================================================
