----------------------------- MODULE MCCalendar -----------------------------
(* Instances of Calendar for TLC. *)
EXTENDS Calendar, TLC

MCSymmetry == Permutations(Call) \cup Permutations(Task)
=============================================================================
