-------------------------- MODULE ChunkedScanProofs --------------------------
(***************************************************************************)
(* Proofs about ChunkedScan for every number of chunks and every value of   *)
(* the bounds.                                                              *)
(***************************************************************************)
EXTENDS ChunkedScan, TLAPS

\* Where the supervisor has no child.
Childless == {"idle", "spawn", "judge", "head", "merge", "gate", "decide", "plugins",
              "persist", "done"}

\* Work on the chunks: without a child nothing moves but the supervisor, which
\* has gone through the chunks before the one it is at.
ChunksInOrder ==
  /\ pc \in Childless => child \in {"none", "gone"}
  /\ pc = "idle" => job = Split
  /\ pc \in {"judge", "head", "merge", "gate"} => job # Final
  /\ job = Split => dissected = {}
  /\ job \in Chunks => /\ job <= found /\ dissected \subseteq 1..found
                       /\ 1..(job - 1) \subseteq dissected
  /\ pc = "head" => found > 0 /\ 1..job \subseteq dissected
  /\ pc \in {"merge", "gate"} => found > 0 /\ dissected = 1..found
  /\ pc = "gate" => merged = 1..found

\* The last child, and with it the report and the verdict "completed", comes
\* after the merge of all of them.
FinalIsLast ==
  /\ job = Final => found > 0 /\ merged = 1..found
  /\ report # "missing" => job = Final
  /\ rowStatus = "completed" \/ decided = "completed" => job = Final
  /\ pc = "plugins" \/ (pc = "decide" /\ childOk) => job = Final

WorkInv == ChunksInOrder /\ FinalIsLast

\* Who may settle the row: the supervisor until it is done, then, after a
\* crash, the reaper of the next boot or the watcher it leaves behind.
CustodyInv ==
  /\ pc = "idle" <=> rowStatus = "absent"
  /\ web # "up" => pc \in {"idle", "dead"}
  /\ pc \notin {"idle", "done", "dead"} => rowStatus = "running"
  /\ pc = "persist" => decided \in Terminal
  /\ watching # NoJob => pc = "dead" /\ rowStatus = "running" /\ web = "up"

\* A child that was started after a stop is the last one: the flag stays up.
StopInv ==
  /\ late <= 1
  /\ late = 1 => /\ pc \notin {"idle", "spawn", "head", "merge", "gate"}
                 /\ flag \/ pc = "dead"

-----------------------------------------------------------------------------
\* Every step keeps the types of threads and processes.
LEMMA ThreadsStep ==
  ASSUME TypeOK, [Next]_vars
  PROVE  ThreadsOK'
<1> USE DEF TypeOK, ThreadsOK, supVars, stopVars, procVars, dataVars, rowVars, auxVars
<1>1. CASE Start
  BY <1>1 DEF Start
<1>2. CASE Spawn
  BY <1>2 DEF Spawn
<1>3. CASE Attach
  BY <1>3 DEF Attach
<1>4. CASE Track
  BY <1>4 DEF Track
<1>5. CASE Drain
  BY <1>5 DEF Drain
<1>6. CASE Judge
  BY <1>6 DEF Judge, Judged, Proceed, Fails
<1>7. CASE Head
  BY <1>7 DEF Head, Proceed, Fails
<1>8. CASE Merge
  BY <1>8 DEF Merge
<1>9. CASE Gate
  BY <1>9 DEF Gate, Proceed, Fails
<1>10. CASE Decide
  BY <1>10 DEF Decide
<1>11. CASE Plugins
  BY <1>11 DEF Plugins
<1>12. CASE Persist
  BY <1>12 DEF Persist
<1>13. CASE SpawnFails
  BY <1>13 DEF SpawnFails
<1>14. CASE Stop
  BY <1>14 DEF Stop
<1>15. CASE StopKill
  <2>1. CASE stopping = job /\ Live
    BY <1>15, <2>1 DEF StopKill, Exit
  <2>2. CASE ~(stopping = job /\ Live)
    <3>1. UNCHANGED <<web, pc, child, sig, handle, flag, childOk, piped>>
      BY <1>15, <2>2 DEF StopKill
    <3> QED BY <3>1
  <2> QED BY <2>1, <2>2
<1>16. CASE SplitEnds
  BY <1>16 DEF SplitEnds, Exit
<1>17. CASE ChunkSaves
  BY <1>17 DEF ChunkSaves
<1>18. CASE ChunkEnds
  BY <1>18 DEF ChunkEnds, Exit
<1>19. CASE FinalOpens
  BY <1>19 DEF FinalOpens
<1>20. CASE FinalSaves
  BY <1>20 DEF FinalSaves
<1>21. CASE FinalEnds
  BY <1>21 DEF FinalEnds, Exit
<1>22. CASE ChildTerm
  BY <1>22 DEF ChildTerm, Exit
<1>23. CASE ChildBrokenPipe
  BY <1>23 DEF ChildBrokenPipe, Exit
<1>24. CASE ChildFails
  BY <1>24 DEF ChildFails, Exit
<1>25. CASE Crash
  BY <1>25 DEF Crash
<1>26. CASE Boot
  BY <1>26 DEF Boot
<1>27. CASE Reap
  BY <1>27 DEF Reap, FinishFromReport, Finish
<1>28. CASE WatchEnds
  BY <1>28 DEF WatchEnds, FinishFromReport, Finish
<1>29. CASE Settled
  BY <1>29 DEF Settled, vars
<1>30. CASE UNCHANGED vars
  BY <1>30 DEF vars
<1>31. CASE Expire
  BY <1>31 DEF Expire
<1> QED
  BY <1>1, <1>2, <1>3, <1>4, <1>5, <1>6, <1>7, <1>8, <1>9, <1>10, <1>11, <1>12, <1>13, <1>14, <1>15, <1>16, <1>17, <1>18, <1>19, <1>20, <1>21, <1>22, <1>23, <1>24, <1>25, <1>26, <1>27, <1>28, <1>29, <1>30, <1>31
     DEF Next, SupervisorNext, ChildNext

\* Every step keeps jobs, chunks and counters in range.
LEMMA WorkStep ==
  ASSUME TypeOK, [Next]_vars
  PROVE  WorkOK'
<1> USE ChunkedAssumption DEF ChunkedAssumption, TypeOK, WorkOK, Jobs, Chunks, Final, Split, NoJob, supVars, stopVars, procVars, dataVars, rowVars, auxVars
<1>1. CASE Start
  BY <1>1 DEF Start
<1>2. CASE Spawn
  BY <1>2 DEF Spawn
<1>3. CASE Attach
  BY <1>3 DEF Attach
<1>4. CASE Track
  BY <1>4 DEF Track
<1>5. CASE Drain
  BY <1>5 DEF Drain
<1>6. CASE Judge
  BY <1>6 DEF Judge, Judged, Proceed, Fails
<1>7. CASE Head
  BY <1>7 DEF Head, Proceed, Fails
<1>8. CASE Merge
  BY <1>8 DEF Merge
<1>9. CASE Gate
  BY <1>9 DEF Gate, Proceed, Fails
<1>10. CASE Decide
  BY <1>10 DEF Decide
<1>11. CASE Plugins
  BY <1>11 DEF Plugins
<1>12. CASE Persist
  BY <1>12 DEF Persist
<1>13. CASE SpawnFails
  BY <1>13 DEF SpawnFails
<1>14. CASE Stop
  BY <1>14 DEF Stop
<1>15. CASE StopKill
  BY <1>15 DEF StopKill, Exit
<1>16. CASE SplitEnds
  BY <1>16 DEF SplitEnds, Exit
<1>17. CASE ChunkSaves
  BY <1>17 DEF ChunkSaves
<1>18. CASE ChunkEnds
  BY <1>18 DEF ChunkEnds, Exit
<1>19. CASE FinalOpens
  BY <1>19 DEF FinalOpens
<1>20. CASE FinalSaves
  BY <1>20 DEF FinalSaves
<1>21. CASE FinalEnds
  BY <1>21 DEF FinalEnds, Exit
<1>22. CASE ChildTerm
  BY <1>22 DEF ChildTerm, Exit
<1>23. CASE ChildBrokenPipe
  BY <1>23 DEF ChildBrokenPipe, Exit
<1>24. CASE ChildFails
  BY <1>24 DEF ChildFails, Exit
<1>25. CASE Crash
  BY <1>25 DEF Crash
<1>26. CASE Boot
  BY <1>26 DEF Boot
<1>27. CASE Reap
  BY <1>27 DEF Reap, FinishFromReport, Finish
<1>28. CASE WatchEnds
  BY <1>28 DEF WatchEnds, FinishFromReport, Finish
<1>29. CASE Settled
  BY <1>29 DEF Settled, vars
<1>30. CASE UNCHANGED vars
  BY <1>30 DEF vars
<1>31. CASE Expire
  BY <1>31 DEF Expire
<1> QED
  BY <1>1, <1>2, <1>3, <1>4, <1>5, <1>6, <1>7, <1>8, <1>9, <1>10, <1>11, <1>12, <1>13, <1>14, <1>15, <1>16, <1>17, <1>18, <1>19, <1>20, <1>21, <1>22, <1>23, <1>24, <1>25, <1>26, <1>27, <1>28, <1>29, <1>30, <1>31
     DEF Next, SupervisorNext, ChildNext

\* Every step keeps the types of the row.
LEMMA RowStep ==
  ASSUME TypeOK, [Next]_vars
  PROVE  RowOK'
<1> USE DEF TypeOK, WorkOK, RowOK, Terminal, Jobs, supVars, stopVars, procVars, dataVars, rowVars, auxVars
<1>1. CASE Start
  BY <1>1 DEF Start
<1>2. CASE Spawn
  BY <1>2 DEF Spawn
<1>3. CASE Attach
  BY <1>3 DEF Attach
<1>4. CASE Track
  BY <1>4 DEF Track
<1>5. CASE Drain
  BY <1>5 DEF Drain
<1>6. CASE Judge
  BY <1>6 DEF Judge, Judged, Proceed, Fails
<1>7. CASE Head
  BY <1>7 DEF Head, Proceed, Fails
<1>8. CASE Merge
  BY <1>8 DEF Merge
<1>9. CASE Gate
  BY <1>9 DEF Gate, Proceed, Fails
<1>10. CASE Decide
  BY <1>10 DEF Decide
<1>11. CASE Plugins
  BY <1>11 DEF Plugins
<1>12. CASE Persist
  BY <1>12 DEF Persist
<1>13. CASE SpawnFails
  BY <1>13 DEF SpawnFails
<1>14. CASE Stop
  BY <1>14 DEF Stop
<1>15. CASE StopKill
  BY <1>15 DEF StopKill, Exit
<1>16. CASE SplitEnds
  BY <1>16 DEF SplitEnds, Exit
<1>17. CASE ChunkSaves
  BY <1>17 DEF ChunkSaves
<1>18. CASE ChunkEnds
  BY <1>18 DEF ChunkEnds, Exit
<1>19. CASE FinalOpens
  BY <1>19 DEF FinalOpens
<1>20. CASE FinalSaves
  BY <1>20 DEF FinalSaves
<1>21. CASE FinalEnds
  BY <1>21 DEF FinalEnds, Exit
<1>22. CASE ChildTerm
  BY <1>22 DEF ChildTerm, Exit
<1>23. CASE ChildBrokenPipe
  BY <1>23 DEF ChildBrokenPipe, Exit
<1>24. CASE ChildFails
  BY <1>24 DEF ChildFails, Exit
<1>25. CASE Crash
  BY <1>25 DEF Crash
<1>26. CASE Boot
  BY <1>26 DEF Boot
<1>27. CASE Reap
  BY <1>27 DEF Reap, FinishFromReport, Finish
<1>28. CASE WatchEnds
  BY <1>28 DEF WatchEnds, FinishFromReport, Finish
<1>29. CASE Settled
  BY <1>29 DEF Settled, vars
<1>30. CASE UNCHANGED vars
  BY <1>30 DEF vars
<1>31. CASE Expire
  BY <1>31 DEF Expire
<1> QED
  BY <1>1, <1>2, <1>3, <1>4, <1>5, <1>6, <1>7, <1>8, <1>9, <1>10, <1>11, <1>12, <1>13, <1>14, <1>15, <1>16, <1>17, <1>18, <1>19, <1>20, <1>21, <1>22, <1>23, <1>24, <1>25, <1>26, <1>27, <1>28, <1>29, <1>30, <1>31
     DEF Next, SupervisorNext, ChildNext

\* Every step keeps the order of the work on the chunks.
LEMMA OrderStep ==
  ASSUME TypeOK, ChunksInOrder, [Next]_vars
  PROVE  ChunksInOrder'
<1> USE ChunkedAssumption DEF ChunkedAssumption, TypeOK, ThreadsOK, WorkOK, Jobs, Chunks, Final, Split, Live, Childless, ChunksInOrder, supVars, stopVars, procVars, dataVars, rowVars, auxVars
<1>1. CASE Start
  BY <1>1 DEF Start
<1>2. CASE Spawn
  BY <1>2 DEF Spawn
<1>3. CASE Attach
  BY <1>3 DEF Attach
<1>4. CASE Track
  BY <1>4 DEF Track
<1>5. CASE Drain
  BY <1>5 DEF Drain
<1>6. CASE Judge
  BY <1>6 DEF Judge, Judged, Proceed, Fails
<1>7. CASE Head
  <2>1. CASE flag
    BY <1>7, <2>1 DEF Head, Proceed, Fails
  <2>2. CASE ~flag /\ job < found
    <3>1. job' = job + 1 /\ job' \in 1..found /\ pc' = "spawn" /\ UNCHANGED <<found, dissected, child>>
      BY <1>7, <2>2 DEF Head, Proceed
    <3>2. 1..(job' - 1) \subseteq dissected /\ dissected \subseteq 1..found
      BY <1>7, <2>2, <3>1 DEF Head
    <3> QED BY <3>1, <3>2, <1>7 DEF Head
  <2>3. CASE ~flag /\ ~(job < found)
    <3>1. job \in Chunks /\ job = found
      BY <1>7, <2>3 DEF Head
    <3>2. dissected = 1..found
      BY <1>7, <3>1 DEF Head
    <3> QED BY <1>7, <2>3, <3>1, <3>2 DEF Head, Proceed
  <2> QED BY <2>1, <2>2, <2>3
<1>8. CASE Merge
  BY <1>8 DEF Merge
<1>9. CASE Gate
  BY <1>9 DEF Gate, Proceed, Fails
<1>10. CASE Decide
  BY <1>10 DEF Decide
<1>11. CASE Plugins
  BY <1>11 DEF Plugins
<1>12. CASE Persist
  BY <1>12 DEF Persist
<1>13. CASE SpawnFails
  BY <1>13 DEF SpawnFails
<1>14. CASE Stop
  BY <1>14 DEF Stop
<1>15. CASE StopKill
  BY <1>15 DEF StopKill, Exit
<1>16. CASE SplitEnds
  BY <1>16 DEF SplitEnds, Exit
<1>17. CASE ChunkSaves
  BY <1>17 DEF ChunkSaves
<1>18. CASE ChunkEnds
  BY <1>18 DEF ChunkEnds, Exit
<1>19. CASE FinalOpens
  BY <1>19 DEF FinalOpens
<1>20. CASE FinalSaves
  BY <1>20 DEF FinalSaves
<1>21. CASE FinalEnds
  BY <1>21 DEF FinalEnds, Exit
<1>22. CASE ChildTerm
  BY <1>22 DEF ChildTerm, Exit
<1>23. CASE ChildBrokenPipe
  BY <1>23 DEF ChildBrokenPipe, Exit
<1>24. CASE ChildFails
  BY <1>24 DEF ChildFails, Exit
<1>25. CASE Crash
  BY <1>25 DEF Crash
<1>26. CASE Boot
  BY <1>26 DEF Boot
<1>27. CASE Reap
  BY <1>27 DEF Reap, FinishFromReport, Finish
<1>28. CASE WatchEnds
  BY <1>28 DEF WatchEnds, FinishFromReport, Finish
<1>29. CASE Settled
  BY <1>29 DEF Settled, vars
<1>30. CASE UNCHANGED vars
  BY <1>30 DEF vars
<1>31. CASE Expire
  BY <1>31 DEF Expire
<1> QED
  BY <1>1, <1>2, <1>3, <1>4, <1>5, <1>6, <1>7, <1>8, <1>9, <1>10, <1>11, <1>12, <1>13, <1>14, <1>15, <1>16, <1>17, <1>18, <1>19, <1>20, <1>21, <1>22, <1>23, <1>24, <1>25, <1>26, <1>27, <1>28, <1>29, <1>30, <1>31
     DEF Next, SupervisorNext, ChildNext

\* Every step keeps what is known of the last child.
LEMMA FinalStep ==
  ASSUME TypeOK, WorkInv, [Next]_vars
  PROVE  FinalIsLast'
<1> USE ChunkedAssumption DEF ChunkedAssumption, TypeOK, WorkOK, RowOK, Jobs, Chunks, Final, Split, Live, Childless, ChunksInOrder, FinalIsLast, WorkInv, ReportComplete, supVars, stopVars, procVars, dataVars, rowVars, auxVars
<1>1. CASE Start
  BY <1>1 DEF Start
<1>2. CASE Spawn
  BY <1>2 DEF Spawn
<1>3. CASE Attach
  BY <1>3 DEF Attach
<1>4. CASE Track
  BY <1>4 DEF Track
<1>5. CASE Drain
  BY <1>5 DEF Drain
<1>6. CASE Judge
  BY <1>6 DEF Judge, Judged, Proceed, Fails
<1>7. CASE Head
  BY <1>7 DEF Head, Proceed, Fails
<1>8. CASE Merge
  BY <1>8 DEF Merge
<1>9. CASE Gate
  BY <1>9 DEF Gate, Proceed, Fails
<1>10. CASE Decide
  BY <1>10 DEF Decide
<1>11. CASE Plugins
  BY <1>11 DEF Plugins
<1>12. CASE Persist
  BY <1>12 DEF Persist
<1>13. CASE SpawnFails
  BY <1>13 DEF SpawnFails
<1>14. CASE Stop
  BY <1>14 DEF Stop
<1>15. CASE StopKill
  BY <1>15 DEF StopKill, Exit
<1>16. CASE SplitEnds
  BY <1>16 DEF SplitEnds, Exit
<1>17. CASE ChunkSaves
  BY <1>17 DEF ChunkSaves
<1>18. CASE ChunkEnds
  BY <1>18 DEF ChunkEnds, Exit
<1>19. CASE FinalOpens
  BY <1>19 DEF FinalOpens
<1>20. CASE FinalSaves
  BY <1>20 DEF FinalSaves
<1>21. CASE FinalEnds
  BY <1>21 DEF FinalEnds, Exit
<1>22. CASE ChildTerm
  BY <1>22 DEF ChildTerm, Exit
<1>23. CASE ChildBrokenPipe
  BY <1>23 DEF ChildBrokenPipe, Exit
<1>24. CASE ChildFails
  BY <1>24 DEF ChildFails, Exit
<1>25. CASE Crash
  BY <1>25 DEF Crash
<1>26. CASE Boot
  BY <1>26 DEF Boot
<1>27. CASE Reap
  BY <1>27 DEF Reap, FinishFromReport, Finish
<1>28. CASE WatchEnds
  BY <1>28 DEF WatchEnds, FinishFromReport, Finish
<1>29. CASE Settled
  BY <1>29 DEF Settled, vars
<1>30. CASE UNCHANGED vars
  BY <1>30 DEF vars
<1>31. CASE Expire
  BY <1>31 DEF Expire
<1> QED
  BY <1>1, <1>2, <1>3, <1>4, <1>5, <1>6, <1>7, <1>8, <1>9, <1>10, <1>11, <1>12, <1>13, <1>14, <1>15, <1>16, <1>17, <1>18, <1>19, <1>20, <1>21, <1>22, <1>23, <1>24, <1>25, <1>26, <1>27, <1>28, <1>29, <1>30, <1>31
     DEF Next, SupervisorNext, ChildNext

\* Every step keeps the child after a stop the last one.
LEMMA StopStep ==
  ASSUME TypeOK, StopInv, [Next]_vars
  PROVE  StopInv'
<1> USE DEF TypeOK, ThreadsOK, WorkOK, StopInv, supVars, stopVars, procVars, dataVars, rowVars, auxVars
<1>1. CASE Start
  BY <1>1 DEF Start
<1>2. CASE Spawn
  BY <1>2 DEF Spawn
<1>3. CASE Attach
  BY <1>3 DEF Attach
<1>4. CASE Track
  BY <1>4 DEF Track
<1>5. CASE Drain
  BY <1>5 DEF Drain
<1>6. CASE Judge
  BY <1>6 DEF Judge, Judged, Proceed, Fails
<1>7. CASE Head
  BY <1>7 DEF Head, Proceed, Fails
<1>8. CASE Merge
  BY <1>8 DEF Merge
<1>9. CASE Gate
  BY <1>9 DEF Gate, Proceed, Fails
<1>10. CASE Decide
  BY <1>10 DEF Decide
<1>11. CASE Plugins
  BY <1>11 DEF Plugins
<1>12. CASE Persist
  BY <1>12 DEF Persist
<1>13. CASE SpawnFails
  BY <1>13 DEF SpawnFails
<1>14. CASE Stop
  BY <1>14 DEF Stop
<1>15. CASE StopKill
  BY <1>15 DEF StopKill, Exit
<1>16. CASE SplitEnds
  BY <1>16 DEF SplitEnds, Exit
<1>17. CASE ChunkSaves
  BY <1>17 DEF ChunkSaves
<1>18. CASE ChunkEnds
  BY <1>18 DEF ChunkEnds, Exit
<1>19. CASE FinalOpens
  BY <1>19 DEF FinalOpens
<1>20. CASE FinalSaves
  BY <1>20 DEF FinalSaves
<1>21. CASE FinalEnds
  BY <1>21 DEF FinalEnds, Exit
<1>22. CASE ChildTerm
  BY <1>22 DEF ChildTerm, Exit
<1>23. CASE ChildBrokenPipe
  BY <1>23 DEF ChildBrokenPipe, Exit
<1>24. CASE ChildFails
  BY <1>24 DEF ChildFails, Exit
<1>25. CASE Crash
  BY <1>25 DEF Crash
<1>26. CASE Boot
  BY <1>26 DEF Boot
<1>27. CASE Reap
  BY <1>27 DEF Reap, FinishFromReport, Finish
<1>28. CASE WatchEnds
  BY <1>28 DEF WatchEnds, FinishFromReport, Finish
<1>29. CASE Settled
  BY <1>29 DEF Settled, vars
<1>30. CASE UNCHANGED vars
  BY <1>30 DEF vars
<1>31. CASE Expire
  BY <1>31 DEF Expire
<1> QED
  BY <1>1, <1>2, <1>3, <1>4, <1>5, <1>6, <1>7, <1>8, <1>9, <1>10, <1>11, <1>12, <1>13, <1>14, <1>15, <1>16, <1>17, <1>18, <1>19, <1>20, <1>21, <1>22, <1>23, <1>24, <1>25, <1>26, <1>27, <1>28, <1>29, <1>30, <1>31
     DEF Next, SupervisorNext, ChildNext

\* Every step keeps the row in the hands of one party.
LEMMA CustodyStep ==
  ASSUME TypeOK, CustodyInv, [Next]_vars
  PROVE  CustodyInv'
<1> USE ChunkedAssumption DEF ChunkedAssumption, TypeOK, ThreadsOK, WorkOK, RowOK, Jobs, Final, NoJob, Terminal, ToReap, RowChildAlive, CustodyInv, supVars, stopVars, procVars, dataVars, rowVars, auxVars
<1>1. CASE Start
  BY <1>1 DEF Start
<1>2. CASE Spawn
  BY <1>2 DEF Spawn
<1>3. CASE Attach
  BY <1>3 DEF Attach
<1>4. CASE Track
  BY <1>4 DEF Track
<1>5. CASE Drain
  BY <1>5 DEF Drain
<1>6. CASE Judge
  BY <1>6 DEF Judge, Judged, Proceed, Fails
<1>7. CASE Head
  BY <1>7 DEF Head, Proceed, Fails
<1>8. CASE Merge
  BY <1>8 DEF Merge
<1>9. CASE Gate
  BY <1>9 DEF Gate, Proceed, Fails
<1>10. CASE Decide
  BY <1>10 DEF Decide
<1>11. CASE Plugins
  BY <1>11 DEF Plugins
<1>12. CASE Persist
  BY <1>12 DEF Persist
<1>13. CASE SpawnFails
  BY <1>13 DEF SpawnFails
<1>14. CASE Stop
  BY <1>14 DEF Stop
<1>15. CASE StopKill
  BY <1>15 DEF StopKill, Exit
<1>16. CASE SplitEnds
  BY <1>16 DEF SplitEnds, Exit
<1>17. CASE ChunkSaves
  BY <1>17 DEF ChunkSaves
<1>18. CASE ChunkEnds
  BY <1>18 DEF ChunkEnds, Exit
<1>19. CASE FinalOpens
  BY <1>19 DEF FinalOpens
<1>20. CASE FinalSaves
  BY <1>20 DEF FinalSaves
<1>21. CASE FinalEnds
  BY <1>21 DEF FinalEnds, Exit
<1>22. CASE ChildTerm
  BY <1>22 DEF ChildTerm, Exit
<1>23. CASE ChildBrokenPipe
  BY <1>23 DEF ChildBrokenPipe, Exit
<1>24. CASE ChildFails
  BY <1>24 DEF ChildFails, Exit
<1>25. CASE Crash
  BY <1>25 DEF Crash
<1>26. CASE Boot
  BY <1>26 DEF Boot
<1>27. CASE Reap
  BY <1>27 DEF Reap, FinishFromReport, Finish
<1>28. CASE WatchEnds
  BY <1>28 DEF WatchEnds, FinishFromReport, Finish
<1>29. CASE Settled
  BY <1>29 DEF Settled, vars
<1>30. CASE UNCHANGED vars
  BY <1>30 DEF vars
<1>31. CASE Expire
  BY <1>31 DEF Expire
<1> QED
  BY <1>1, <1>2, <1>3, <1>4, <1>5, <1>6, <1>7, <1>8, <1>9, <1>10, <1>11, <1>12, <1>13, <1>14, <1>15, <1>16, <1>17, <1>18, <1>19, <1>20, <1>21, <1>22, <1>23, <1>24, <1>25, <1>26, <1>27, <1>28, <1>29, <1>30, <1>31
     DEF Next, SupervisorNext, ChildNext

\* The state of a chunked scan stays within its types, whatever fails.
THEOREM ChunkedTypeCorrect == Spec => []TypeOK
<1>1. Init => TypeOK
  <2> SUFFICES ASSUME Init PROVE ThreadsOK /\ WorkOK /\ RowOK
    BY DEF TypeOK
  <2>1. ThreadsOK
    BY DEF Init, ThreadsOK
  <2>2. WorkOK
    BY ChunkedAssumption DEF ChunkedAssumption, Init, WorkOK, Jobs, Chunks, Final, Split, NoJob
  <2>3. RowOK
    BY ChunkedAssumption DEF ChunkedAssumption, Init, RowOK, Jobs, Final, NoJob
  <2> QED BY <2>1, <2>2, <2>3
<1>2. TypeOK /\ [Next]_vars => TypeOK'
  <2> SUFFICES ASSUME TypeOK, [Next]_vars PROVE ThreadsOK' /\ WorkOK' /\ RowOK'
    BY DEF TypeOK
  <2> QED BY ThreadsStep, WorkStep, RowStep
<1> QED
  BY <1>1, <1>2, PTL DEF Spec

\* The chunks are gone through in order and the last child follows them all.
LEMMA WorkHolds == Spec => []WorkInv
<1>1. Init => WorkInv
  BY ChunkedAssumption
     DEF ChunkedAssumption, Init, WorkInv, ChunksInOrder, FinalIsLast, Childless, Split,
         Chunks, Final
<1>2. TypeOK /\ WorkInv /\ [Next]_vars => WorkInv'
  BY OrderStep, FinalStep DEF WorkInv
<1> QED
  BY <1>1, <1>2, ChunkedTypeCorrect, PTL DEF Spec

\* One party at a time may settle the row.
LEMMA CustodyHolds == Spec => []CustodyInv
<1>1. Init => CustodyInv
  BY DEF Init, CustodyInv
<1>2. TypeOK /\ CustodyInv /\ [Next]_vars => CustodyInv'
  BY CustodyStep
<1> QED
  BY <1>1, <1>2, ChunkedTypeCorrect, PTL DEF Spec

\* For every number of chunks, a report, and a row that says "completed", mean
\* that every chunk was dissected and merged.
THEOREM ReportHasEveryChunkHolds == Spec => []ReportHasEveryChunk
<1>1. WorkInv => ReportHasEveryChunk
  BY DEF WorkInv, FinalIsLast, ReportHasEveryChunk
<1> QED
  BY <1>1, WorkHolds, PTL

\* For every number of chunks, a stop lets at most one more child start.
THEOREM OneChildAfterStopHolds == Spec => []OneChildAfterStop
<1>1. Init => StopInv
  BY DEF Init, StopInv
<1>2. TypeOK /\ StopInv /\ [Next]_vars => StopInv'
  BY StopStep
<1>3. StopInv => OneChildAfterStop
  BY DEF StopInv, OneChildAfterStop
<1> QED
  BY <1>1, <1>2, <1>3, ChunkedTypeCorrect, PTL DEF Spec

\* A step of the scan begins the row, settles it, or leaves it alone.
LEMMA ChunkedLifecycleStep ==
  ASSUME TypeOK, CustodyInv, [Next]_vars
  PROVE  [Lifecycle!Next]_[r \in {"run"} |-> rowStatus]
<1> USE DEF Lifecycle!Next, Lifecycle!Begin, Lifecycle!Settle, Lifecycle!Outcomes, CustodyInv
<1>1. CASE Start
  <2>1. rowStatus = "absent" /\ rowStatus' = "running"
    BY <1>1 DEF Start
  <2> QED BY <2>1
<1>2. ASSUME rowStatus = "running", rowStatus' \in Terminal
      PROVE  Lifecycle!Next
  BY <1>2 DEF Terminal
<1>3. CASE Persist
  <2>1. rowStatus = "running" /\ (rowStatus' \in Terminal \/ UNCHANGED rowStatus)
    BY <1>3 DEF Persist
  <2> QED BY <1>2, <2>1
<1>4. ASSUME rowStatus = "running", NEW status \in {"completed", "failed"}, NEW how,
             Finish(status, how)
      PROVE  rowStatus' \in Terminal \/ UNCHANGED rowStatus
  BY <1>4 DEF Finish, Terminal, rowVars
<1>5. CASE Reap
  <2>1. CASE ToReap /\ due
    <3>1. rowStatus = "running" /\ Finish("failed", "reaped_abandoned")
      BY <1>5, <2>1 DEF Reap, ToReap
    <3> QED BY <1>2, <1>4, <3>1
  <2>2. CASE ToReap /\ ~due /\ ~RowChildAlive
    <3>1. rowStatus = "running" /\ FinishFromReport("reaped_failed")
      BY <1>5, <2>2 DEF Reap, ToReap
    <3> QED BY <1>2, <1>4, <3>1 DEF FinishFromReport
  <2>3. CASE ~ToReap \/ (~due /\ RowChildAlive)
    BY <1>5, <2>3 DEF Reap, rowVars
  <2> QED BY <2>1, <2>2, <2>3
<1>6. CASE WatchEnds
  <2>1. rowStatus = "running" /\ FinishFromReport("reattached")
    BY <1>6 DEF WatchEnds
  <2> QED BY <1>2, <1>4, <2>1 DEF FinishFromReport
<1>7. CASE SupervisorNext /\ ~Persist
  <2>1. UNCHANGED rowStatus
    BY <1>7 DEF SupervisorNext, Spawn, Attach, Track, Drain, Judge, Head, Merge, Gate, Decide,
                Plugins, rowVars
  <2> QED BY <2>1
<1>8. CASE SpawnFails \/ Stop \/ StopKill \/ ChildFails \/ Crash \/ Boot \/ Expire \/ Settled
          \/ UNCHANGED vars
  <2>1. UNCHANGED rowStatus
    BY <1>8 DEF SpawnFails, Stop, StopKill, ChildFails, Crash, Boot, Expire,
                Settled, vars, rowVars
  <2> QED BY <2>1
<1>9. CASE ChildNext
  <2>1. UNCHANGED rowStatus
    BY <1>9 DEF ChildNext, SplitEnds, ChunkSaves, ChunkEnds, FinalOpens, FinalSaves, FinalEnds,
                ChildTerm, ChildBrokenPipe, rowVars
  <2> QED BY <2>1
<1> QED
  BY <1>1, <1>3, <1>5, <1>6, <1>7, <1>8, <1>9 DEF Next

\* Supervisor, reaper and watcher between them begin the row once and settle it
\* once: a chunked scan implements RunLifecycle, whatever crashes.
THEOREM ChunkedRefinesLifecycle == Spec => RowFollowsLifecycle
<1>1. Init => Lifecycle!Init
  BY DEF Init, Lifecycle!Init
<1>2. TypeOK /\ CustodyInv /\ [Next]_vars => [Lifecycle!Next]_[r \in {"run"} |-> rowStatus]
  BY ChunkedLifecycleStep
<1> QED
  BY <1>1, <1>2, ChunkedTypeCorrect, CustodyHolds, PTL
     DEF Spec, RowFollowsLifecycle, Lifecycle!Spec
=============================================================================
