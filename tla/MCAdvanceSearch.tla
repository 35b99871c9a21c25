---------------------------- MODULE MCAdvanceSearch ----------------------------
(* Calls of advance from every instant of a week, for up to three days of work. *)
EXTENDS AdvanceSearch

MCWorkDays == {0, 2, 3, 6}
MCStarts == 0..34
MCHours == 0..9
=============================================================================
