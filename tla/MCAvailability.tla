--------------------------- MODULE MCAvailability ---------------------------
(* Instances of Availability for TLC: a window that begins with a day,     *)
(* with events and quiet hours across each of its edges.                   *)
EXTENDS Availability, TLC

MCSpan == {<<6, 9>>, <<7, 8>>, <<9, 10>>, <<9, 13>>, <<10, 11>>, <<13, 16>>}
MCDue == {7, 11, 14}
MCQuiet == {<<>>, <<3, 4>>, <<6, 1>>, <<2, 2>>}
=============================================================================
