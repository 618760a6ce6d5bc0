--------------------------- MODULE MCStateMigration ---------------------------
\* StateMigration with three starts, two lines of each version and one fault.
EXTENDS StateMigration, TLC

CONSTANTS c1, c2, c3, o1, o2, n1, n2

Symmetry ==
  Permutations(Callers) \cup Permutations(OldLines) \cup Permutations(NewLines)
===============================================================================
