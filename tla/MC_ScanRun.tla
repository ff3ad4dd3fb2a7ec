----------------------------- MODULE MC_ScanRun -----------------------------
EXTENDS ScanRun, TLC

\* Runs, pids and workers are interchangeable (safety runs only).
Interchangeable == Permutations(Runs) \cup Permutations(Pids)
=============================================================================
