---------------------------- MODULE MCReminders ----------------------------
(* Instances of Reminders for TLC: two overlapping calls. *)
EXTENDS Reminders, TLC
=============================================================================
