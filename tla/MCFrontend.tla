------------------------------ MODULE MCFrontend ------------------------------
(* Frontend for TLC.                                                        *)
EXTENDS Frontend

(* A log with a sample at every step, a gap, and one with wider intervals.  *)
TwoLogs == << <<2, 3, 4>>, <<7, 9, 11>> >>
=============================================================================
