--------------------------- MODULE MCMonitorCycle ---------------------------
(* MonitorCycle for TLC: model values for the actors and the incident ids.  *)
EXTENDS MonitorCycle, TLC

\* Incident ids are interchangeable, and so are actors of one kind.
Symmetry == Permutations(Ids) \cup Permutations(Runs)
=============================================================================
