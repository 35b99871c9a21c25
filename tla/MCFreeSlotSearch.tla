--------------------------- MODULE MCFreeSlotSearch ---------------------------
(***************************************************************************)
(* Calls of next_free_slot on a week with a day off between working days,  *)
(* three working ticks a day, up to two bookings.  A booking starts at a   *)
(* working instant, as BusyMap.book makes them; it is empty, short, a full *)
(* day long or, when it was forced, longer than a day.                     *)
(***************************************************************************)
EXTENDS FreeSlotSearch

MCWorkDays == {0, 2, 3}
MCEarliests == 0..14
MCDurations == 0..4

MCIntervals ==
    {[start |-> s, end |-> s + l] : s \in {u \in 0..14 : IsWorking(u)}, l \in {0, 1, 3, 6}}

MCBusySets == {{}} \cup {{a, b} : a, b \in MCIntervals}
=============================================================================
