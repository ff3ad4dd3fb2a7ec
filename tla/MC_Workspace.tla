---------------------------- MODULE MC_Workspace ----------------------------
EXTENDS Workspace, TLC

\* Users (all of one role in the instances) and handler threads are alike.
Symmetry == Permutations(Users) \cup Permutations(Requests)
=============================================================================
