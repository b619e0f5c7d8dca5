------------------------------ MODULE MC_Daemon ------------------------------
EXTENDS Daemon, TLC

\* Workers are interchangeable.  For the safety properties only.
Symmetry == Permutations(Worker)
=============================================================================
