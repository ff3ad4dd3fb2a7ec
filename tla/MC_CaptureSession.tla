------------------------- MODULE MC_CaptureSession -------------------------
EXTENDS CaptureSession, TLC

\* Sessions and stop requests are interchangeable (safety runs only).
Interchangeable == Permutations(Sessions) \cup Permutations(Clicks)
=============================================================================
