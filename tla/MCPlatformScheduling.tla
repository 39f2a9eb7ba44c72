------------------------ MODULE MCPlatformScheduling ------------------------
(* PlatformScheduling for TLC: model values for run ids, crons and consumers. *)
EXTENDS PlatformScheduling, TLC

\* Run ids, crons and consumers are interchangeable among themselves.
Symmetry == Permutations(RunIds) \cup Permutations(Crons) \cup Permutations(Consumers)
=============================================================================
