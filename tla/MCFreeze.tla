------------------------------ MODULE MCFreeze ------------------------------
EXTENDS ScheduleFreeze, TLC

\* Which freezer and which settings they are does not matter.
Symmetry == Permutations(Freezers) \cup Permutations(Settings)

=============================================================================
