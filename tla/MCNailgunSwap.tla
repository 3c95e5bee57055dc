---------------------------- MODULE MCNailgunSwap ----------------------------
\* Workers are interchangeable, and so are the versions they ask for.
EXTENDS NailgunSwap, TLC

Symmetry == Permutations(Process) \cup Permutations(Version)
=============================================================================
