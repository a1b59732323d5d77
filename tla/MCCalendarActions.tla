-------------------------- MODULE MCCalendarActions --------------------------
(* CalendarActions for interchangeable operations and rows. *)
EXTENDS CalendarActions, TLC

ActionSymmetry == Permutations(Ops) \cup Permutations(Rows)
=============================================================================
