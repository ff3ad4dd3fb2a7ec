---------------------------- MODULE ScanRunProofs ----------------------------
(***************************************************************************)
(* Proofs about ScanRun for every number of workers, runs, pids and stages,  *)
(* and for every value of the bounds: types, what slots and rows know of a   *)
(* run, what a verdict of recovery says about the engine, and what a client  *)
(* sees of the end of a run.                                                 *)
(***************************************************************************)
EXTENDS ScanRun, TLAPS

USE DEF webVars, reqVars, memVars, dbVars, engVars, envVars

EngineStates == {"none", "booting", "computing", "saving", "zombie", "gone"}
RecoveryStates == {"null", "reattached", "reaped_completed", "reaped_failed",
                   "reaped_abandoned"}

\* The end of a process keeps the types of what it touches.
LEMMA ExitType ==
  ASSUME TypeOK, NEW r \in Runs, NEW ok \in BOOLEAN, EngineExit(r, ok)
  PROVE  est' \in [Runs -> EngineStates] /\ rcOk' \in [Runs -> BOOLEAN]
BY DEF TypeOK, EngineExit, EngineStates

\* So does a finished or a failed record_finish.
LEMMA FinishType ==
  ASSUME TypeOK, NEW r \in Runs, NEW how \in RecoveryStates,
         NEW status \in {"completed", "failed"},
         RecordFinish(r, status, how) \/ RecordFinishFails
  PROVE  /\ rowStatus' \in [Runs -> {"absent", "running"} \cup Terminal]
         /\ rowPid' \in [Runs -> Pids \cup {NoPid}]
         /\ recovery' \in [Runs -> RecoveryStates]
         /\ due' \in [Runs -> BOOLEAN]
         /\ abandoned' \subseteq Runs
         /\ dbFaults' \in Nat
<1>1. CASE RecordFinish(r, status, how)
  BY <1>1 DEF TypeOK, RecordFinish, RecoveryStates, Terminal
<1>2. CASE RecordFinishFails
  BY <1>2 DEF TypeOK, RecordFinishFails, RecoveryStates
<1> QED BY <1>1, <1>2

\* Every reachable state is well typed: statuses, recovery states, pids and the
\* hands of every worker stay in their domains.
THEOREM TypeCorrect == Spec => []TypeOK
<1>1. Init => TypeOK
  BY ScanRunAssumption DEF Init, TypeOK, Terminal
<1>2. TypeOK /\ [Next]_vars => TypeOK'
  <2> SUFFICES ASSUME TypeOK, [Next]_vars PROVE TypeOK'
    OBVIOUS
  <2> USE ScanRunAssumption DEF TypeOK, Terminal
  <2>1. ASSUME NEW w \in Workers, UserNext(w) PROVE TypeOK'
    <3>1. ASSUME NEW r \in Runs, NEW old \in SUBSET Evictable(w), Admit(w, r, old)
          PROVE TypeOK'
      BY <3>1 DEF Admit, CleanupRuns
    <3>2. ASSUME NEW r \in Runs, Reject(w, r) PROVE TypeOK'
      BY <3>2 DEF Reject, vars
    <3>3. ASSUME NEW old \in SUBSET Evictable(w), ListRuns(w, old) PROVE TypeOK'
      BY <3>3 DEF ListRuns, CleanupRuns
    <3> QED BY <2>1, <3>1, <3>2, <3>3 DEF UserNext
  <2>2. ASSUME NEW w \in Workers, RecoveryNext(w) PROVE TypeOK'
    <3>1. CASE Boot(w)
      BY <3>1 DEF Boot, GetActiveForRecovery
    <3>9. CASE ReadClock(w)
      BY <3>9 DEF ReadClock
    <3>2. CASE BootDone(w)
      BY <3>2 DEF BootDone
    <3>3. ASSUME NEW r \in Runs, ReapAbandoned(w, r) PROVE TypeOK'
      <4>1. /\ rowStatus' \in [Runs -> {"absent", "running"} \cup Terminal]
            /\ rowPid' \in [Runs -> Pids \cup {NoPid}]
            /\ recovery' \in [Runs -> RecoveryStates]
            /\ due' \in [Runs -> BOOLEAN]
           /\ abandoned' \subseteq Runs
            /\ dbFaults' \in Nat
        BY <3>3, FinishType DEF ReapAbandoned, AtRow, RecoveryStates
      <4> QED BY <3>3, <4>1 DEF ReapAbandoned, AtRow, RecoveryStates
    <3>4. ASSUME NEW r \in Runs, ReapReattach(w, r) PROVE TypeOK'
      BY <3>4 DEF ReapReattach, AtRow
    <3>5. ASSUME NEW r \in Runs, ReapDead(w, r) PROVE TypeOK'
      BY <3>5 DEF ReapDead, AtRow
    <3>6. ASSUME NEW r \in Runs, ReapReport(w, r) PROVE TypeOK'
      <4>1. /\ rowStatus' \in [Runs -> {"absent", "running"} \cup Terminal]
            /\ rowPid' \in [Runs -> Pids \cup {NoPid}]
            /\ recovery' \in [Runs -> RecoveryStates]
            /\ due' \in [Runs -> BOOLEAN]
           /\ abandoned' \subseteq Runs
            /\ dbFaults' \in Nat
        BY <3>6, FinishType DEF ReapReport, RecoveryStates
      <4> QED BY <3>6, <4>1 DEF ReapReport, RecoveryStates
    <3>7. ASSUME NEW r \in Runs, WatchPoll(w, r) PROVE TypeOK'
      BY <3>7 DEF WatchPoll
    <3>8. ASSUME NEW r \in Runs, WatchFinish(w, r) PROVE TypeOK'
      <4>1. /\ rowStatus' \in [Runs -> {"absent", "running"} \cup Terminal]
            /\ rowPid' \in [Runs -> Pids \cup {NoPid}]
            /\ recovery' \in [Runs -> RecoveryStates]
            /\ due' \in [Runs -> BOOLEAN]
           /\ abandoned' \subseteq Runs
            /\ dbFaults' \in Nat
        BY <3>8, FinishType DEF WatchFinish, RecoveryStates
      <4> QED BY <3>8, <4>1 DEF WatchFinish, RecoveryStates
    <3> QED BY <2>2, <3>1, <3>2, <3>3, <3>4, <3>5, <3>6, <3>7, <3>8, <3>9 DEF RecoveryNext
  <2>3. ASSUME NEW r \in Runs, StartNext(r) PROVE TypeOK'
    <3>1. ASSUME NEW p \in Pids, Spawn(r, p) PROVE TypeOK'
      BY <3>1 DEF Spawn
    <3>2. CASE SpawnFails(r)
      BY <3>2 DEF SpawnFails
    <3>3. CASE Register(r)
      BY <3>3 DEF Register
    <3>4. CASE RecordStart(r)
      BY <3>4 DEF RecordStart
    <3>5. CASE RecordStartFails(r)
      BY <3>5 DEF RecordStartFails
    <3> QED BY <2>3, <3>1, <3>2, <3>3, <3>4, <3>5 DEF StartNext
  <2>4. ASSUME NEW r \in Runs, EngineNext(r) PROVE TypeOK'
    <3>1. CASE EngineReady(r)
      BY <3>1 DEF EngineReady
    <3>2. CASE EngineSaveOpen(r)
      BY <3>2 DEF EngineSaveOpen
    <3>3. CASE EngineSaveClose(r)
      <4>1. CASE elvl[r] = NStages \/ sig[r] = "handled" \/ ~piped[r]
        <5>1. EngineExit(r, piped[r]) /\ piped[r] \in BOOLEAN
          BY <3>3, <4>1 DEF EngineSaveClose
        <5>2. est' \in [Runs -> EngineStates] /\ rcOk' \in [Runs -> BOOLEAN]
          BY <5>1, ExitType
        <5> QED BY <3>3, <5>2 DEF EngineSaveClose, EngineStates
      <4>2. CASE ~(elvl[r] = NStages \/ sig[r] = "handled" \/ ~piped[r])
        BY <3>3, <4>2 DEF EngineSaveClose
      <4> QED BY <4>1, <4>2
    <3>4. CASE EngineSaveFails(r)
      <4>1. /\ est' \in [Runs -> EngineStates]
            /\ rcOk' \in [Runs -> BOOLEAN]
        <5>1. CASE EngineExit(r, FALSE)
          BY <5>1, ExitType
        <5>2. CASE EngineExit(r, TRUE)
          BY <5>2, ExitType
        <5>3. CASE est' = [est EXCEPT ![r] = "computing"] /\ UNCHANGED rcOk
          BY <5>3 DEF EngineStates
        <5> QED BY <3>4, <5>1, <5>2, <5>3 DEF EngineSaveFails
      <4>2. /\ UNCHANGED <<webVars, reqVars, memVars, dbVars, elvl, sig, pid, piped, file,
                            foreign, crashes, dbFaults>>
            /\ engFaults' \in Nat
        BY <3>4 DEF EngineSaveFails
      <4> QED BY <4>1, <4>2 DEF EngineStates
    <3>5. CASE EngineTerm(r)
      <4>1. CASE est[r] = "booting"
        <5>1. EngineExit(r, FALSE) /\ UNCHANGED file
          BY <3>5, <4>1 DEF EngineTerm
        <5>2. est' \in [Runs -> EngineStates] /\ rcOk' \in [Runs -> BOOLEAN]
          BY <5>1, ExitType
        <5> QED BY <3>5, <5>1, <5>2 DEF EngineTerm, EngineStates
      <4>2. CASE est[r] # "booting"
        BY <3>5, <4>2 DEF EngineTerm
      <4> QED BY <4>1, <4>2
    <3>6. CASE EngineBrokenPipe(r)
      BY <3>6 DEF EngineBrokenPipe, EngineExit
    <3>7. CASE EngineDies(r)
      BY <3>7 DEF EngineDies, EngineExit
    <3> QED BY <2>4, <3>1, <3>2, <3>3, <3>4, <3>5, <3>6, <3>7 DEF EngineNext
  <2>5. ASSUME NEW r \in Runs, ReaderNext(r) PROVE TypeOK'
    <3>1. CASE ReaderEof(r)
      BY <3>1 DEF ReaderEof
    <3>2. CASE ReaderDecide(r)
      <4>1. PICK s \in {"persisting", "plugins"} : reader' = [reader EXCEPT ![r] = s]
        BY <3>2 DEF ReaderDecide
      <4>2. UNCHANGED reg \/ \E t \in Terminal : reg' = [reg EXCEPT ![r] = t]
        BY <3>2 DEF ReaderDecide
      <4>3. reg' \in [Runs -> {"absent", "running"} \cup Terminal]
        BY <4>2
      <4>4. reader' \in [Runs -> {"none", "draining", "deciding", "plugins",
                                  "persisting", "done"}]
        BY <4>1
      <4> QED BY <3>2, <4>3, <4>4 DEF ReaderDecide
    <3>3. CASE ReaderPlugins(r)
      BY <3>3 DEF ReaderPlugins
    <3>4. CASE ReaderPersist(r)
      BY <3>4 DEF ReaderPersist
    <3>5. CASE ReaderPersistFails(r)
      BY <3>5 DEF ReaderPersistFails
    <3> QED BY <2>5, <3>1, <3>2, <3>3, <3>4, <3>5 DEF ReaderNext
  <2>6. ASSUME NEW r \in Runs, Stop(r) PROVE TypeOK'
    BY <2>6 DEF Stop, Collect
  <2>7. ASSUME NEW r \in Runs, StopKill(r) PROVE TypeOK'
    <3>1. est' \in [Runs -> EngineStates] /\ rcOk' \in [Runs -> BOOLEAN]
      <4>1. CASE EngineExit(r, FALSE)
        BY <4>1, ExitType
      <4>2. CASE Collect(r) /\ UNCHANGED rcOk
        BY <4>2 DEF EngineStates, Collect
      <4> QED BY <2>7, <4>1, <4>2 DEF StopKill
    <3> QED BY <2>7, <3>1 DEF StopKill, EngineStates
  <2>8. CASE EnvNext
    <3>1. CASE HostRestart
      BY <3>1 DEF HostRestart, LoseMemory
    <3>2. ASSUME NEW w \in Workers, Crash(w) PROVE TypeOK'
      BY <3>2 DEF Crash, LoseMemory
    <3>3. ASSUME NEW r \in Runs, Expire(r) PROVE TypeOK'
      BY <3>3 DEF Expire
    <3>4. ASSUME NEW p \in Pids, ForeignStart(p) PROVE TypeOK'
      BY <3>4 DEF ForeignStart
    <3>5. ASSUME NEW p \in Pids, ForeignExit(p) PROVE TypeOK'
      BY <3>5 DEF ForeignExit
    <3> QED BY <2>8, <3>1, <3>2, <3>3, <3>4, <3>5 DEF EnvNext
  <2>9. CASE UNCHANGED vars \/ AllQuiet
    BY <2>9 DEF AllQuiet, vars
  <2> QED
    BY <2>1, <2>2, <2>3, <2>4, <2>5, <2>6, <2>7, <2>8, <2>9 DEF Next
<1> QED
  BY <1>1, <1>2, PTL DEF Spec

-----------------------------------------------------------------------------
(* Outcomes.  What the status of a run says about its engine and its report *)
(* rests on a chain: the exit code, the stop flag, the pipe, the reader.     *)

HasAllStages(r) == file[r] = "parses" /\ elvl[r] = NStages

OutcomeAt(r) ==
  /\ req[r] \in {"idle", "admitted"} =>
       est[r] = "none" /\ sig[r] = "no" /\ reg[r] = "absent" /\ reader[r] = "none"
  /\ req[r] \in {"spawned", "registered"} => piped[r] /\ reader[r] = "none"
  /\ rcOk[r] => est[r] \in {"zombie", "gone"} /\ (sig[r] # "no" \/ HasAllStages(r))
  /\ sig[r] # "no" => stopReq[r] \/ ~piped[r]
  /\ reg[r] # "absent" \/ reader[r] # "none" => piped[r]
  /\ reader[r] \in {"deciding", "plugins", "persisting", "done"} => est[r] = "gone"
  /\ reader[r] = "plugins" \/ reg[r] = "completed" =>
       sig[r] = "no" /\ est[r] = "gone" /\ HasAllStages(r)
  /\ reg[r] = "failed" => sig[r] = "no" /\ est[r] = "gone"
  /\ rowStatus[r] = "completed" /\ recovery[r] = "null" =>
       est[r] = "gone" /\ HasAllStages(r)

OutcomeInv == \A r \in Runs : OutcomeAt(r)

\* The chain is inductive, for any number of workers.
LEMMA OutcomeStep == TypeOK /\ OutcomeInv /\ [Next]_vars => OutcomeInv'
<1> SUFFICES ASSUME TypeOK, OutcomeInv, [Next]_vars, NEW q \in Runs
             PROVE  OutcomeAt(q)'
  BY DEF OutcomeInv
<1>1. OutcomeAt(q)
  BY DEF OutcomeInv
<1> USE <1>1 DEF TypeOK, Terminal, OutcomeAt, HasAllStages
<1>2. ASSUME NEW w \in Workers, UserNext(w) PROVE OutcomeAt(q)'
  <2>1. ASSUME NEW r \in Runs, NEW old \in SUBSET Evictable(w), Admit(w, r, old) PROVE OutcomeAt(q)'
    BY <2>1 DEF Admit, CleanupRuns, Evictable, Owned
  <2>2. ASSUME NEW r \in Runs, Reject(w, r) PROVE OutcomeAt(q)'
    BY <2>2 DEF Reject, vars
  <2>3. ASSUME NEW old \in SUBSET Evictable(w), ListRuns(w, old) PROVE OutcomeAt(q)'
    BY <2>3 DEF ListRuns, CleanupRuns, Evictable, Owned
  <2> QED BY <1>2, <2>1, <2>2, <2>3 DEF UserNext
<1>3. ASSUME NEW w \in Workers, RecoveryNext(w) PROVE OutcomeAt(q)'
  <2>1. CASE Boot(w)
    BY <2>1 DEF Boot, GetActiveForRecovery
  <2>9. CASE ReadClock(w)
    BY <2>9 DEF ReadClock
  <2>2. CASE BootDone(w)
    BY <2>2 DEF BootDone
  <2>3. ASSUME NEW r \in Runs, ReapAbandoned(w, r) PROVE OutcomeAt(q)'
    BY <2>3 DEF ReapAbandoned, AtRow, RecordFinish, RecordFinishFails
  <2>4. ASSUME NEW r \in Runs, ReapReattach(w, r) PROVE OutcomeAt(q)'
    BY <2>4 DEF ReapReattach, AtRow
  <2>5. ASSUME NEW r \in Runs, ReapDead(w, r) PROVE OutcomeAt(q)'
    BY <2>5 DEF ReapDead, AtRow
  <2>6. ASSUME NEW r \in Runs, ReapReport(w, r) PROVE OutcomeAt(q)'
    BY <2>6 DEF ReapReport, RecordFinish, RecordFinishFails
  <2>7. ASSUME NEW r \in Runs, WatchPoll(w, r) PROVE OutcomeAt(q)'
    BY <2>7 DEF WatchPoll
  <2>8. ASSUME NEW r \in Runs, WatchFinish(w, r) PROVE OutcomeAt(q)'
    BY <2>8 DEF WatchFinish, RecordFinish, RecordFinishFails
  <2> QED BY <1>3, <2>1, <2>2, <2>3, <2>4, <2>5, <2>6, <2>7, <2>8, <2>9 DEF RecoveryNext
<1>4. ASSUME NEW r \in Runs, StartNext(r) PROVE OutcomeAt(q)'
  <2>1. ASSUME NEW p \in Pids, Spawn(r, p) PROVE OutcomeAt(q)'
    BY <2>1 DEF Spawn
  <2>2. CASE SpawnFails(r)
    BY <2>2 DEF SpawnFails
  <2>3. CASE Register(r)
    BY <2>3 DEF Register
  <2>4. CASE RecordStart(r)
    BY <2>4 DEF RecordStart
  <2>5. CASE RecordStartFails(r)
    BY <2>5 DEF RecordStartFails
  <2> QED BY <1>4, <2>1, <2>2, <2>3, <2>4, <2>5 DEF StartNext
<1>5. ASSUME NEW r \in Runs, EngineNext(r) PROVE OutcomeAt(q)'
  <2>1. CASE EngineReady(r)
    BY <2>1 DEF EngineReady
  <2>2. CASE EngineSaveOpen(r)
    BY <2>2 DEF EngineSaveOpen
  <2>3. CASE EngineSaveClose(r)
    BY <2>3 DEF EngineSaveClose, EngineExit
  <2>4. CASE EngineSaveFails(r)
    BY <2>4 DEF EngineSaveFails, EngineExit
  <2>5. CASE EngineTerm(r)
    BY <2>5 DEF EngineTerm, EngineExit, Live
  <2>6. CASE EngineBrokenPipe(r)
    BY <2>6 DEF EngineBrokenPipe, EngineExit
  <2>7. CASE EngineDies(r)
    BY <2>7 DEF EngineDies, EngineExit, Live
  <2> QED BY <1>5, <2>1, <2>2, <2>3, <2>4, <2>5, <2>6, <2>7 DEF EngineNext
<1>6. ASSUME NEW r \in Runs, ReaderNext(r) PROVE OutcomeAt(q)'
  <2>1. CASE ReaderEof(r)
    BY <2>1 DEF ReaderEof, Zombie
  <2>2. CASE ReaderDecide(r)
    BY <2>2 DEF ReaderDecide
  <2>3. CASE ReaderPlugins(r)
    BY <2>3 DEF ReaderPlugins
  <2>4. CASE ReaderPersist(r)
    BY <2>4 DEF ReaderPersist
  <2>5. CASE ReaderPersistFails(r)
    BY <2>5 DEF ReaderPersistFails
  <2> QED BY <1>6, <2>1, <2>2, <2>3, <2>4, <2>5 DEF ReaderNext
<1>7. ASSUME NEW r \in Runs, Stop(r) PROVE OutcomeAt(q)'
  BY <1>7 DEF Stop, Live, Collect
<1>8. ASSUME NEW r \in Runs, StopKill(r) PROVE OutcomeAt(q)'
  BY <1>8 DEF StopKill, EngineExit, Live, Collect
<1>9. CASE EnvNext
  <2>1. CASE HostRestart
    BY <2>1 DEF HostRestart, LoseMemory, InFlight, Live, Zombie
  <2>2. ASSUME NEW w \in Workers, Crash(w) PROVE OutcomeAt(q)'
    BY <2>2 DEF Crash, LoseMemory, InFlight, Zombie
  <2>3. ASSUME NEW r \in Runs, Expire(r) PROVE OutcomeAt(q)'
    BY <2>3 DEF Expire
  <2>4. ASSUME NEW p \in Pids, ForeignStart(p) PROVE OutcomeAt(q)'
    BY <2>4 DEF ForeignStart
  <2>5. ASSUME NEW p \in Pids, ForeignExit(p) PROVE OutcomeAt(q)'
    BY <2>5 DEF ForeignExit
  <2> QED BY <1>9, <2>1, <2>2, <2>3, <2>4, <2>5 DEF EnvNext
<1>10. CASE UNCHANGED vars \/ AllQuiet
  BY <1>10 DEF AllQuiet, vars
<1> QED
  BY <1>2, <1>3, <1>4, <1>5, <1>6, <1>7, <1>8, <1>9, <1>10 DEF Next

\* What the Flask process itself reports is right, for any number of workers:
\* "completed" means all stages, and a signalled engine ends as "stopped".
THEOREM OutcomesHold == Spec => [](NormalCompletionIsComplete /\ StopWins)
<1>1. Init => OutcomeInv
  BY DEF Init, OutcomeInv, OutcomeAt
<1>2. OutcomeInv => NormalCompletionIsComplete /\ StopWins
  BY DEF OutcomeInv, OutcomeAt, HasAllStages, NormalCompletionIsComplete, StopWins, Terminal
<1> QED
  BY <1>1, <1>2, OutcomeStep, TypeCorrect, PTL DEF Spec

-----------------------------------------------------------------------------
(* One worker: which thread holds a run.  A row that a reaper or a watcher   *)
(* holds is running and has no reader; a worker that is down holds nothing,  *)
(* and a reader lives in a worker that is up, so what Boot takes is free.    *)

OneWorker == \A v, w \in Workers : v = w

HandsAt(w) ==
  /\ web[w] = "down" => /\ todo[w] = {} /\ looking[w] = {}
                        /\ polling[w] = {} /\ watchEnd[w] = {}
  /\ \A r \in todo[w] \cup looking[w] \cup polling[w] \cup watchEnd[w] :
       rowStatus[r] = "running" /\ reader[r] = "none"
  /\ (todo[w] \cup looking[w]) \cap (polling[w] \cup watchEnd[w]) = {}
  /\ todo[w] \cap looking[w] = {}
  /\ polling[w] \cap watchEnd[w] = {}

RowAt(r) ==
  /\ reader[r] # "none" => owner[r] \in Workers /\ web[owner[r]] = "up"
  /\ ReaderBusy(r) => rowStatus[r] = "running"
  /\ reader[r] = "persisting" => reg[r] \in Terminal
  /\ req[r] \in {"idle", "admitted", "spawned", "registered"} =>
       rowStatus[r] = "absent" /\ reader[r] = "none"
  /\ req[r] \in {"admitted", "spawned", "registered"} =>
       owner[r] \in Workers /\ web[owner[r]] = "up"

HandsInv == (\A w \in Workers : HandsAt(w)) /\ (\A r \in Runs : RowAt(r))

\* What a worker holds stays held properly.
LEMMA HandsStep ==
  ASSUME OneWorker, TypeOK, HandsInv, [Next]_vars, NEW v \in Workers
  PROVE  HandsAt(v)'
<1>1. HandsAt(v) /\ \A w \in Workers : w = v
  BY DEF HandsInv, OneWorker
<1> USE <1>1 DEF HandsInv, HandsAt, RowAt, ReaderBusy, TypeOK, Terminal
<1>2. ASSUME NEW w \in Workers, UserNext(w) PROVE HandsAt(v)'
  <2>1. ASSUME NEW r \in Runs, NEW old \in SUBSET Evictable(w), Admit(w, r, old) PROVE HandsAt(v)'
    BY <2>1 DEF Admit, CleanupRuns, Evictable, Owned
  <2>2. ASSUME NEW r \in Runs, Reject(w, r) PROVE HandsAt(v)'
    BY <2>2 DEF Reject, vars
  <2>3. ASSUME NEW old \in SUBSET Evictable(w), ListRuns(w, old) PROVE HandsAt(v)'
    BY <2>3 DEF ListRuns, CleanupRuns, Evictable, Owned
  <2> QED BY <1>2, <2>1, <2>2, <2>3 DEF UserNext
<1>3. ASSUME NEW w \in Workers, RecoveryNext(w) PROVE HandsAt(v)'
  <2>1. CASE Boot(w)
    BY <2>1 DEF Boot, GetActiveForRecovery
  <2>9. CASE ReadClock(w)
    BY <2>9 DEF ReadClock
  <2>2. CASE BootDone(w)
    BY <2>2 DEF BootDone
  <2>3. ASSUME NEW r \in Runs, ReapAbandoned(w, r) PROVE HandsAt(v)'
    BY <2>3 DEF ReapAbandoned, AtRow, RecordFinish, RecordFinishFails
  <2>4. ASSUME NEW r \in Runs, ReapReattach(w, r) PROVE HandsAt(v)'
    BY <2>4 DEF ReapReattach, AtRow
  <2>5. ASSUME NEW r \in Runs, ReapDead(w, r) PROVE HandsAt(v)'
    BY <2>5 DEF ReapDead, AtRow
  <2>6. ASSUME NEW r \in Runs, ReapReport(w, r) PROVE HandsAt(v)'
    BY <2>6 DEF ReapReport, RecordFinish, RecordFinishFails
  <2>7. ASSUME NEW r \in Runs, WatchPoll(w, r) PROVE HandsAt(v)'
    BY <2>7 DEF WatchPoll
  <2>8. ASSUME NEW r \in Runs, WatchFinish(w, r) PROVE HandsAt(v)'
    BY <2>8 DEF WatchFinish, RecordFinish, RecordFinishFails
  <2> QED BY <1>3, <2>1, <2>2, <2>3, <2>4, <2>5, <2>6, <2>7, <2>8, <2>9 DEF RecoveryNext
<1>4. ASSUME NEW r \in Runs, StartNext(r) PROVE HandsAt(v)'
  <2>1. ASSUME NEW p \in Pids, Spawn(r, p) PROVE HandsAt(v)'
    BY <2>1 DEF Spawn
  <2>2. CASE SpawnFails(r)
    BY <2>2 DEF SpawnFails
  <2>3. CASE Register(r)
    BY <2>3 DEF Register
  <2>4. CASE RecordStart(r)
    BY <2>4 DEF RecordStart
  <2>5. CASE RecordStartFails(r)
    BY <2>5 DEF RecordStartFails
  <2> QED BY <1>4, <2>1, <2>2, <2>3, <2>4, <2>5 DEF StartNext
<1>5. ASSUME NEW r \in Runs, EngineNext(r) PROVE HandsAt(v)'
  <2>1. CASE EngineReady(r)
    BY <2>1 DEF EngineReady
  <2>2. CASE EngineSaveOpen(r)
    BY <2>2 DEF EngineSaveOpen
  <2>3. CASE EngineSaveClose(r)
    BY <2>3 DEF EngineSaveClose, EngineExit
  <2>4. CASE EngineSaveFails(r)
    BY <2>4 DEF EngineSaveFails, EngineExit
  <2>5. CASE EngineTerm(r)
    BY <2>5 DEF EngineTerm, EngineExit, Live
  <2>6. CASE EngineBrokenPipe(r)
    BY <2>6 DEF EngineBrokenPipe, EngineExit
  <2>7. CASE EngineDies(r)
    BY <2>7 DEF EngineDies, EngineExit, Live
  <2> QED BY <1>5, <2>1, <2>2, <2>3, <2>4, <2>5, <2>6, <2>7 DEF EngineNext
<1>6. ASSUME NEW r \in Runs, ReaderNext(r) PROVE HandsAt(v)'
  <2>1. CASE ReaderEof(r)
    BY <2>1 DEF ReaderEof, Zombie
  <2>2. CASE ReaderDecide(r)
    BY <2>2 DEF ReaderDecide
  <2>3. CASE ReaderPlugins(r)
    BY <2>3 DEF ReaderPlugins
  <2>4. CASE ReaderPersist(r)
    BY <2>4 DEF ReaderPersist
  <2>5. CASE ReaderPersistFails(r)
    BY <2>5 DEF ReaderPersistFails
  <2> QED BY <1>6, <2>1, <2>2, <2>3, <2>4, <2>5 DEF ReaderNext
<1>7. ASSUME NEW r \in Runs, Stop(r) PROVE HandsAt(v)'
  BY <1>7 DEF Stop, Live, Collect
<1>8. ASSUME NEW r \in Runs, StopKill(r) PROVE HandsAt(v)'
  BY <1>8 DEF StopKill, EngineExit, Live, Collect
<1>9. CASE EnvNext
  <2>1. CASE HostRestart
    BY <2>1 DEF HostRestart, LoseMemory, InFlight, Live, Zombie
  <2>2. ASSUME NEW w \in Workers, Crash(w) PROVE HandsAt(v)'
    BY <2>2 DEF Crash, LoseMemory, InFlight, Zombie
  <2>3. ASSUME NEW r \in Runs, Expire(r) PROVE HandsAt(v)'
    BY <2>3 DEF Expire
  <2>4. ASSUME NEW p \in Pids, ForeignStart(p) PROVE HandsAt(v)'
    BY <2>4 DEF ForeignStart
  <2>5. ASSUME NEW p \in Pids, ForeignExit(p) PROVE HandsAt(v)'
    BY <2>5 DEF ForeignExit
  <2> QED BY <1>9, <2>1, <2>2, <2>3, <2>4, <2>5 DEF EnvNext
<1>10. CASE UNCHANGED vars \/ AllQuiet
  BY <1>10 DEF AllQuiet, vars
<1> QED
  BY <1>2, <1>3, <1>4, <1>5, <1>6, <1>7, <1>8, <1>9, <1>10 DEF Next

\* The row, the reader and the start request of a run stay in agreement.
LEMMA RowStep ==
  ASSUME OneWorker, TypeOK, HandsInv, [Next]_vars, NEW q \in Runs
  PROVE  RowAt(q)'
<1>1. RowAt(q) /\ \A v, w \in Workers : w = v
  BY DEF HandsInv, OneWorker
<1> USE <1>1 DEF HandsInv, HandsAt, RowAt, ReaderBusy, TypeOK, Terminal
<1>2. ASSUME NEW w \in Workers, UserNext(w) PROVE RowAt(q)'
  <2>1. ASSUME NEW r \in Runs, NEW old \in SUBSET Evictable(w), Admit(w, r, old) PROVE RowAt(q)'
    BY <2>1 DEF Admit, CleanupRuns, Evictable, Owned
  <2>2. ASSUME NEW r \in Runs, Reject(w, r) PROVE RowAt(q)'
    BY <2>2 DEF Reject, vars
  <2>3. ASSUME NEW old \in SUBSET Evictable(w), ListRuns(w, old) PROVE RowAt(q)'
    BY <2>3 DEF ListRuns, CleanupRuns, Evictable, Owned
  <2> QED BY <1>2, <2>1, <2>2, <2>3 DEF UserNext
<1>3. ASSUME NEW w \in Workers, RecoveryNext(w) PROVE RowAt(q)'
  <2>1. CASE Boot(w)
    BY <2>1 DEF Boot, GetActiveForRecovery
  <2>9. CASE ReadClock(w)
    BY <2>9 DEF ReadClock
  <2>2. CASE BootDone(w)
    BY <2>2 DEF BootDone
  <2>3. ASSUME NEW r \in Runs, ReapAbandoned(w, r) PROVE RowAt(q)'
    BY <2>3 DEF ReapAbandoned, AtRow, RecordFinish, RecordFinishFails
  <2>4. ASSUME NEW r \in Runs, ReapReattach(w, r) PROVE RowAt(q)'
    BY <2>4 DEF ReapReattach, AtRow
  <2>5. ASSUME NEW r \in Runs, ReapDead(w, r) PROVE RowAt(q)'
    BY <2>5 DEF ReapDead, AtRow
  <2>6. ASSUME NEW r \in Runs, ReapReport(w, r) PROVE RowAt(q)'
    BY <2>6 DEF ReapReport, RecordFinish, RecordFinishFails
  <2>7. ASSUME NEW r \in Runs, WatchPoll(w, r) PROVE RowAt(q)'
    BY <2>7 DEF WatchPoll
  <2>8. ASSUME NEW r \in Runs, WatchFinish(w, r) PROVE RowAt(q)'
    BY <2>8 DEF WatchFinish, RecordFinish, RecordFinishFails
  <2> QED BY <1>3, <2>1, <2>2, <2>3, <2>4, <2>5, <2>6, <2>7, <2>8, <2>9 DEF RecoveryNext
<1>4. ASSUME NEW r \in Runs, StartNext(r) PROVE RowAt(q)'
  <2>1. ASSUME NEW p \in Pids, Spawn(r, p) PROVE RowAt(q)'
    BY <2>1 DEF Spawn
  <2>2. CASE SpawnFails(r)
    BY <2>2 DEF SpawnFails
  <2>3. CASE Register(r)
    BY <2>3 DEF Register
  <2>4. CASE RecordStart(r)
    BY <2>4 DEF RecordStart
  <2>5. CASE RecordStartFails(r)
    BY <2>5 DEF RecordStartFails
  <2> QED BY <1>4, <2>1, <2>2, <2>3, <2>4, <2>5 DEF StartNext
<1>5. ASSUME NEW r \in Runs, EngineNext(r) PROVE RowAt(q)'
  <2>1. CASE EngineReady(r)
    BY <2>1 DEF EngineReady
  <2>2. CASE EngineSaveOpen(r)
    BY <2>2 DEF EngineSaveOpen
  <2>3. CASE EngineSaveClose(r)
    BY <2>3 DEF EngineSaveClose, EngineExit
  <2>4. CASE EngineSaveFails(r)
    BY <2>4 DEF EngineSaveFails, EngineExit
  <2>5. CASE EngineTerm(r)
    BY <2>5 DEF EngineTerm, EngineExit, Live
  <2>6. CASE EngineBrokenPipe(r)
    BY <2>6 DEF EngineBrokenPipe, EngineExit
  <2>7. CASE EngineDies(r)
    BY <2>7 DEF EngineDies, EngineExit, Live
  <2> QED BY <1>5, <2>1, <2>2, <2>3, <2>4, <2>5, <2>6, <2>7 DEF EngineNext
<1>6. ASSUME NEW r \in Runs, ReaderNext(r) PROVE RowAt(q)'
  <2>1. CASE ReaderEof(r)
    BY <2>1 DEF ReaderEof, Zombie
  <2>2. CASE ReaderDecide(r)
    BY <2>2 DEF ReaderDecide
  <2>3. CASE ReaderPlugins(r)
    BY <2>3 DEF ReaderPlugins
  <2>4. CASE ReaderPersist(r)
    BY <2>4 DEF ReaderPersist
  <2>5. CASE ReaderPersistFails(r)
    BY <2>5 DEF ReaderPersistFails
  <2> QED BY <1>6, <2>1, <2>2, <2>3, <2>4, <2>5 DEF ReaderNext
<1>7. ASSUME NEW r \in Runs, Stop(r) PROVE RowAt(q)'
  BY <1>7 DEF Stop, Live, Collect
<1>8. ASSUME NEW r \in Runs, StopKill(r) PROVE RowAt(q)'
  BY <1>8 DEF StopKill, EngineExit, Live, Collect
<1>9. CASE EnvNext
  <2>1. CASE HostRestart
    BY <2>1 DEF HostRestart, LoseMemory, InFlight, Live, Zombie
  <2>2. ASSUME NEW w \in Workers, Crash(w) PROVE RowAt(q)'
    BY <2>2 DEF Crash, LoseMemory, InFlight, Zombie
  <2>3. ASSUME NEW r \in Runs, Expire(r) PROVE RowAt(q)'
    BY <2>3 DEF Expire
  <2>4. ASSUME NEW p \in Pids, ForeignStart(p) PROVE RowAt(q)'
    BY <2>4 DEF ForeignStart
  <2>5. ASSUME NEW p \in Pids, ForeignExit(p) PROVE RowAt(q)'
    BY <2>5 DEF ForeignExit
  <2> QED BY <1>9, <2>1, <2>2, <2>3, <2>4, <2>5 DEF EnvNext
<1>10. CASE UNCHANGED vars \/ AllQuiet
  BY <1>10 DEF AllQuiet, vars
<1> QED
  BY <1>2, <1>3, <1>4, <1>5, <1>6, <1>7, <1>8, <1>9, <1>10 DEF Next

\* With one worker the hands of all threads stay in agreement with the rows.
LEMMA HandsHold == OneWorker => (Spec => []HandsInv)
<1> SUFFICES ASSUME OneWorker PROVE Spec => []HandsInv
  OBVIOUS
<1>1. Init => HandsInv
  BY DEF Init, HandsInv, HandsAt, RowAt, ReaderBusy
<1>2. TypeOK /\ HandsInv /\ [Next]_vars => HandsInv'
  BY HandsStep, RowStep DEF HandsInv
<1> QED
  BY <1>1, <1>2, TypeCorrect, PTL DEF Spec

\* With one worker no run is ever in two hands.
THEOREM SoleFinisherHolds == OneWorker => (Spec => []SoleFinisher)
<1> SUFFICES ASSUME OneWorker PROVE Spec => []SoleFinisher
  OBVIOUS
<1>1. TypeOK /\ HandsInv => SoleFinisher
  <2> SUFFICES ASSUME TypeOK, HandsInv, NEW r \in Runs,
                      NEW a \in Finishers(r), NEW b \in Finishers(r)
               PROVE  a = b /\ rowStatus[r] = "running"
    BY DEF SoleFinisher
  <2>1. RowAt(r) /\ (\A w \in Workers : HandsAt(w)) /\ (\A v, w \in Workers : v = w)
    BY DEF HandsInv, OneWorker
  <2>2. PICK v \in Workers :
          \/ a = <<"reader", v>> /\ ReaderBusy(r)
          \/ a = <<"reaper", v>> /\ r \in todo[v] \cup looking[v]
          \/ a = <<"watcher", v>> /\ r \in polling[v] \cup watchEnd[v]
    BY DEF Finishers
  <2>3. PICK w \in Workers :
          \/ b = <<"reader", w>> /\ ReaderBusy(r)
          \/ b = <<"reaper", w>> /\ r \in todo[w] \cup looking[w]
          \/ b = <<"watcher", w>> /\ r \in polling[w] \cup watchEnd[w]
    BY DEF Finishers
  <2>4. v = w /\ HandsAt(v)
    BY <2>1
  <2>5. rowStatus[r] = "running"
    BY <2>1, <2>2, <2>4 DEF HandsAt, RowAt
  <2>6. ReaderBusy(r) => r \notin todo[v] \cup looking[v] \cup polling[v] \cup watchEnd[v]
    BY <2>4 DEF HandsAt, ReaderBusy
  <2>7. ~(r \in todo[v] \cup looking[v] /\ r \in polling[v] \cup watchEnd[v])
    BY <2>4 DEF HandsAt
  <2> QED BY <2>2, <2>3, <2>4, <2>5, <2>6, <2>7
<1> QED
  BY <1>1, TypeCorrect, HandsHold, PTL

\* A step of the system is a step of the life of one row, or leaves all rows.
LEMMA LifecycleStep ==
  ASSUME OneWorker, TypeOK, HandsInv, [Next]_vars
  PROVE  [Lifecycle!Next]_rowStatus
<1> USE DEF HandsInv, TypeOK, Lifecycle!Next, Lifecycle!Begin, Lifecycle!Settle,
            Lifecycle!Outcomes
<1>1. ASSUME NEW r \in Runs, RecordStart(r) PROVE Lifecycle!Begin(r)
  BY <1>1 DEF RecordStart, RowAt
<1>2. ASSUME NEW r \in Runs, ReaderPersist(r) PROVE Lifecycle!Settle(r)
  BY <1>2 DEF ReaderPersist, RowAt, ReaderBusy, Terminal
<1>3. ASSUME NEW w \in Workers, NEW r \in todo[w] \cup looking[w] \cup watchEnd[w],
             NEW how, NEW status \in {"completed", "failed"},
             RecordFinish(r, status, how)
      PROVE  Lifecycle!Settle(r)
  BY <1>3 DEF RecordFinish, HandsAt
<1>4. ASSUME NEW w \in Workers, UserNext(w) PROVE UNCHANGED rowStatus
  BY <1>4 DEF UserNext, Admit, Reject, ListRuns, vars
<1>5. ASSUME NEW w \in Workers, RecoveryNext(w) PROVE [Lifecycle!Next]_rowStatus
  <2>1. CASE Boot(w) \/ ReadClock(w) \/ BootDone(w)
    BY <2>1 DEF Boot, ReadClock, BootDone
  <2>2. ASSUME NEW r \in Runs, ReapReattach(w, r) \/ ReapDead(w, r) \/ WatchPoll(w, r)
        PROVE  UNCHANGED rowStatus
    BY <2>2 DEF ReapReattach, AtRow, ReapDead, WatchPoll
  <2>3. ASSUME NEW r \in Runs, ReapAbandoned(w, r)
        PROVE  Lifecycle!Settle(r) \/ UNCHANGED rowStatus
    <3>1. r \in todo[w] /\ (RecordFinish(r, "failed", "reaped_abandoned") \/ RecordFinishFails)
      BY <2>3 DEF ReapAbandoned, AtRow
    <3> QED BY <3>1, <1>3 DEF RecordFinishFails
  <2>4. ASSUME NEW r \in Runs, ReapReport(w, r)
        PROVE  Lifecycle!Settle(r) \/ UNCHANGED rowStatus
    <3>1. /\ r \in looking[w]
          /\ \/ RecordFinish(r, "completed", "reaped_completed")
             \/ RecordFinish(r, "failed", "reaped_failed")
             \/ RecordFinishFails
      BY <2>4 DEF ReapReport
    <3> QED BY <3>1, <1>3 DEF RecordFinishFails
  <2>5. ASSUME NEW r \in Runs, WatchFinish(w, r)
        PROVE  Lifecycle!Settle(r) \/ UNCHANGED rowStatus
    <3>1. /\ r \in watchEnd[w]
          /\ \/ RecordFinish(r, "completed", "reaped_completed")
             \/ RecordFinish(r, "failed", "reattached")
             \/ RecordFinishFails
      BY <2>5 DEF WatchFinish
    <3> QED BY <3>1, <1>3 DEF RecordFinishFails
  <2> QED BY <1>5, <2>1, <2>2, <2>3, <2>4, <2>5 DEF RecoveryNext
<1>6. ASSUME NEW r \in Runs, StartNext(r) PROVE [Lifecycle!Next]_rowStatus
  BY <1>6, <1>1 DEF StartNext, Spawn, SpawnFails, Register, RecordStartFails
<1>7. ASSUME NEW r \in Runs, EngineNext(r) PROVE UNCHANGED rowStatus
  BY <1>7 DEF EngineNext, EngineReady, EngineSaveOpen, EngineSaveClose,
              EngineSaveFails, EngineTerm, EngineBrokenPipe, EngineDies
<1>8. ASSUME NEW r \in Runs, ReaderNext(r) PROVE [Lifecycle!Next]_rowStatus
  BY <1>8, <1>2 DEF ReaderNext, ReaderEof, ReaderDecide, ReaderPlugins,
                    ReaderPersistFails
<1>9. ASSUME NEW r \in Runs, Stop(r) \/ StopKill(r) PROVE UNCHANGED rowStatus
  BY <1>9 DEF Stop, StopKill
<1>10. CASE EnvNext
  BY <1>10 DEF EnvNext, HostRestart, Crash, Expire, ForeignStart, ForeignExit
<1>11. CASE UNCHANGED vars \/ AllQuiet
  BY <1>11 DEF AllQuiet, vars
<1> QED
  BY <1>4, <1>5, <1>6, <1>7, <1>8, <1>9, <1>10, <1>11 DEF Next

\* With one worker the rows of scan_history implement RunLifecycle: whatever
\* crashes, a settled row is never touched again.
THEOREM RefinesLifecycle == OneWorker => (Spec => RowsFollowLifecycle)
<1> SUFFICES ASSUME OneWorker PROVE Spec => RowsFollowLifecycle
  OBVIOUS
<1>1. Init => Lifecycle!Init
  BY DEF Init, Lifecycle!Init
<1>2. TypeOK /\ HandsInv /\ [Next]_vars => [Lifecycle!Next]_rowStatus
  BY LifecycleStep
<1> QED
  BY <1>1, <1>2, TypeCorrect, HandsHold, PTL DEF Spec, RowsFollowLifecycle, Lifecycle!Spec

-----------------------------------------------------------------------------
(* Recovery.  The reaper looks at the pid of the row, the watcher at the pid *)
(* alone; both must conclude from it that the engine of the run has ended.   *)

Verdicts == {"reaped_failed", "reaped_completed", "reattached"}

VerdictAt(r) ==
  /\ est[r] # "none" => pid[r] \in Pids
  /\ Live(r) /\ req[r] = "done" /\ r \notin abandoned =>
       rowStatus[r] = "running" /\ rowPid[r] = pid[r]
  /\ rowStatus[r] # "absent" \/ recovery[r] # "null" \/ reader[r] # "none" => req[r] = "done"
  /\ r \in abandoned => req[r] = "done"
  /\ req[r] \in {"idle", "admitted"} => est[r] = "none"
  /\ recovery[r] = "reattached" => ~Live(r) /\ ~ReportComplete(r)
  /\ recovery[r] \in Verdicts /\ r \notin abandoned =>
       ~Live(r) /\ (recovery[r] = "reaped_completed" <=> ReportComplete(r))

\* Who is about to write a verdict about r has seen its engine end, or an
\* abandoned row without a pid.
WitnessAt(w, r) ==
  /\ r \in todo[w] \cup polling[w] => req[r] = "done"
  /\ r \in watchEnd[w] => req[r] = "done" /\ ~Live(r)
  /\ r \in looking[w] => req[r] = "done" /\ (Live(r) => r \in abandoned)

VerdictInv ==
  \A r \in Runs : VerdictAt(r) /\ \A w \in Workers : WitnessAt(w, r)

\* No step breaks it, for any number of workers.
LEMMA VerdictStep ==
  ASSUME TypeOK, OutcomeInv, VerdictInv, [Next]_vars
  PROVE  VerdictInv'
<1> SUFFICES ASSUME NEW q \in Runs
             PROVE  VerdictAt(q)' /\ \A v \in Workers : WitnessAt(v, q)'
  BY DEF VerdictInv
<1>1. /\ VerdictAt(q) /\ \A v \in Workers : WitnessAt(v, q)
      /\ reader[q] = "persisting" => est[q] = "gone"
      /\ NoPid \notin Pids
  BY ScanRunAssumption DEF VerdictInv, OutcomeInv, OutcomeAt, ScanRunAssumption
<1> DEFINE Good == VerdictAt(q)' /\ \A v \in Workers : WitnessAt(v, q)'
<1> USE <1>1 DEF TypeOK, Terminal, VerdictAt, WitnessAt, Verdicts, Live, Zombie, ReportComplete
<1>2. ASSUME NEW w \in Workers, UserNext(w) PROVE Good
  <2>1. ASSUME NEW r \in Runs, NEW old \in SUBSET Evictable(w), Admit(w, r, old) PROVE Good
    BY <2>1 DEF Admit, CleanupRuns, Evictable, Owned
  <2>2. ASSUME NEW r \in Runs, Reject(w, r) PROVE Good
    BY <2>2 DEF Reject, vars
  <2>3. ASSUME NEW old \in SUBSET Evictable(w), ListRuns(w, old) PROVE Good
    BY <2>3 DEF ListRuns, CleanupRuns, Evictable, Owned
  <2> QED BY <1>2, <2>1, <2>2, <2>3 DEF UserNext
<1>3. ASSUME NEW w \in Workers, RecoveryNext(w) PROVE Good
  <2>1. CASE Boot(w)
    BY <2>1 DEF Boot, GetActiveForRecovery
  <2>9. CASE ReadClock(w)
    BY <2>9 DEF ReadClock
  <2>2. CASE BootDone(w)
    BY <2>2 DEF BootDone
  <2>3. ASSUME NEW r \in Runs, ReapAbandoned(w, r) PROVE Good
    BY <2>3 DEF ReapAbandoned, AtRow, RecordFinish, RecordFinishFails
  <2>4. ASSUME NEW r \in Runs, ReapReattach(w, r) PROVE Good
    BY <2>4 DEF ReapReattach, AtRow
  <2>5. ASSUME NEW r \in Runs, ReapDead(w, r) PROVE Good
    BY <2>5 DEF ReapDead, AtRow, ReapPids, EngineAlive, PidAlive, PidInUse, PidArgvMatches
  <2>6. ASSUME NEW r \in Runs, ReapReport(w, r) PROVE Good
    BY <2>6 DEF ReapReport, RecordFinish, RecordFinishFails
  <2>7. ASSUME NEW r \in Runs, WatchPoll(w, r) PROVE Good
    BY <2>7 DEF WatchPoll, PidAlive, PidInUse
  <2>8. ASSUME NEW r \in Runs, WatchFinish(w, r) PROVE Good
    BY <2>8 DEF WatchFinish, RecordFinish, RecordFinishFails
  <2> QED BY <1>3, <2>1, <2>2, <2>3, <2>4, <2>5, <2>6, <2>7, <2>8, <2>9 DEF RecoveryNext
<1>4. ASSUME NEW r \in Runs, StartNext(r) PROVE Good
  <2>1. ASSUME NEW p \in Pids, Spawn(r, p) PROVE Good
    BY <2>1 DEF Spawn
  <2>2. CASE SpawnFails(r)
    BY <2>2 DEF SpawnFails
  <2>3. CASE Register(r)
    BY <2>3 DEF Register
  <2>4. CASE RecordStart(r)
    BY <2>4 DEF RecordStart
  <2>5. CASE RecordStartFails(r)
    BY <2>5 DEF RecordStartFails
  <2> QED BY <1>4, <2>1, <2>2, <2>3, <2>4, <2>5 DEF StartNext
<1>5. ASSUME NEW r \in Runs, EngineNext(r) PROVE Good
  <2>1. CASE EngineReady(r)
    BY <2>1 DEF EngineReady
  <2>2. CASE EngineSaveOpen(r)
    BY <2>2 DEF EngineSaveOpen
  <2>3. CASE EngineSaveClose(r)
    BY <2>3 DEF EngineSaveClose, EngineExit
  <2>4. CASE EngineSaveFails(r)
    BY <2>4 DEF EngineSaveFails, EngineExit
  <2>5. CASE EngineTerm(r)
    BY <2>5 DEF EngineTerm, EngineExit, Live
  <2>6. CASE EngineBrokenPipe(r)
    BY <2>6 DEF EngineBrokenPipe, EngineExit
  <2>7. CASE EngineDies(r)
    BY <2>7 DEF EngineDies, EngineExit, Live
  <2> QED BY <1>5, <2>1, <2>2, <2>3, <2>4, <2>5, <2>6, <2>7 DEF EngineNext
<1>6. ASSUME NEW r \in Runs, ReaderNext(r) PROVE Good
  <2>1. CASE ReaderEof(r)
    BY <2>1 DEF ReaderEof, Zombie
  <2>2. CASE ReaderDecide(r)
    BY <2>2 DEF ReaderDecide
  <2>3. CASE ReaderPlugins(r)
    BY <2>3 DEF ReaderPlugins
  <2>4. CASE ReaderPersist(r)
    BY <2>4 DEF ReaderPersist
  <2>5. CASE ReaderPersistFails(r)
    BY <2>5 DEF ReaderPersistFails
  <2> QED BY <1>6, <2>1, <2>2, <2>3, <2>4, <2>5 DEF ReaderNext
<1>7. ASSUME NEW r \in Runs, Stop(r) PROVE Good
  BY <1>7 DEF Stop, Live, Collect
<1>8. ASSUME NEW r \in Runs, StopKill(r) PROVE Good
  BY <1>8 DEF StopKill, EngineExit, Live, Collect
<1>9. CASE EnvNext
  <2>1. CASE HostRestart
    BY <2>1 DEF HostRestart, LoseMemory, InFlight, Live, Zombie
  <2>2. ASSUME NEW w \in Workers, Crash(w) PROVE Good
    BY <2>2 DEF Crash, LoseMemory, InFlight, Zombie
  <2>3. ASSUME NEW r \in Runs, Expire(r) PROVE Good
    BY <2>3 DEF Expire
  <2>4. ASSUME NEW p \in Pids, ForeignStart(p) PROVE Good
    BY <2>4 DEF ForeignStart
  <2>5. ASSUME NEW p \in Pids, ForeignExit(p) PROVE Good
    BY <2>5 DEF ForeignExit
  <2> QED BY <1>9, <2>1, <2>2, <2>3, <2>4, <2>5 DEF EnvNext
<1>10. CASE UNCHANGED vars \/ AllQuiet
  BY <1>10 DEF AllQuiet, vars
<1> QED
  BY <1>2, <1>3, <1>4, <1>5, <1>6, <1>7, <1>8, <1>9, <1>10 DEF Next

\* The invariant about verdicts, for any number of workers.
LEMMA VerdictsHold == Spec => []VerdictInv
<1>1. Init => VerdictInv
  BY DEF Init, VerdictInv, VerdictAt, WitnessAt, Verdicts, Live
<1>2. Init => OutcomeInv
  BY DEF Init, OutcomeInv, OutcomeAt
<1> QED
  BY <1>1, <1>2, VerdictStep, OutcomeStep, TypeCorrect, PTL DEF Spec

\* A verdict of recovery is about an engine that has ended and a report that
\* says so: any number of workers, of crashes and of failed writes.  Runs that
\* a reaper abandoned by their deadline are excepted: the clock of another
\* reaper may be older.
THEOREM VerdictsAreTrue == Spec => []ReaperVerdictsHold
<1>1. VerdictInv => ReaperVerdictsHold
  BY DEF VerdictInv, VerdictAt, Verdicts, ReaperVerdictsHold
<1> QED
  BY <1>1, VerdictsHold, PTL

\* No engine runs behind the back of scan_history, for any number of workers,
\* but that of a run which a reaper abandoned by its deadline.
THEOREM LiveEngineIsTrackedHolds == Spec => []LiveEngineIsTracked
<1>1. VerdictInv => LiveEngineIsTracked
  BY DEF VerdictInv, VerdictAt, LiveEngineIsTracked
<1> QED
  BY <1>1, VerdictsHold, PTL

\* A signalled engine ends as "stopped" in the registry.
THEOREM StopWinsHolds == Spec => []StopWins
BY OutcomesHold, PTL

-----------------------------------------------------------------------------
(* One worker without crashes and failed writes: what a client sees.         *)

CalmAt(r) ==
  /\ \A w \in Workers : /\ web[w] # "up" => req[r] = "idle"
                        /\ r \notin todo[w] \cup looking[w] \cup polling[w] \cup watchEnd[w]
  /\ rowStatus[r] \in Terminal => reader[r] = "done"
  /\ reader[r] = "done" => rowStatus[r] \in Terminal /\ reg[r] \in {"absent", rowStatus[r]}
  /\ reg[r] \in Terminal => reader[r] \in {"persisting", "done"}

CalmInv == crashes = 0 /\ dbFaults = 0 => \A r \in Runs : CalmAt(r)

\* The counters of faults never go back.
LEMMA CountersGrow ==
  ASSUME TypeOK, [Next]_vars
  PROVE  crashes' = 0 /\ dbFaults' = 0 => crashes = 0 /\ dbFaults = 0
<1> DEFINE Good == crashes' = 0 /\ dbFaults' = 0 => crashes = 0 /\ dbFaults = 0
<1> USE DEF TypeOK
<1>2. ASSUME NEW w \in Workers, UserNext(w) PROVE Good
  <2>1. ASSUME NEW r \in Runs, NEW old \in SUBSET Evictable(w), Admit(w, r, old) PROVE Good
    BY <2>1 DEF Admit, CleanupRuns, Evictable, Owned
  <2>2. ASSUME NEW r \in Runs, Reject(w, r) PROVE Good
    BY <2>2 DEF Reject, vars
  <2>3. ASSUME NEW old \in SUBSET Evictable(w), ListRuns(w, old) PROVE Good
    BY <2>3 DEF ListRuns, CleanupRuns, Evictable, Owned
  <2> QED BY <1>2, <2>1, <2>2, <2>3 DEF UserNext
<1>3. ASSUME NEW w \in Workers, RecoveryNext(w) PROVE Good
  <2>1. CASE Boot(w)
    BY <2>1 DEF Boot, GetActiveForRecovery
  <2>9. CASE ReadClock(w)
    BY <2>9 DEF ReadClock
  <2>2. CASE BootDone(w)
    BY <2>2 DEF BootDone
  <2>3. ASSUME NEW r \in Runs, ReapAbandoned(w, r) PROVE Good
    BY <2>3 DEF ReapAbandoned, AtRow, RecordFinish, RecordFinishFails
  <2>4. ASSUME NEW r \in Runs, ReapReattach(w, r) PROVE Good
    BY <2>4 DEF ReapReattach, AtRow
  <2>5. ASSUME NEW r \in Runs, ReapDead(w, r) PROVE Good
    BY <2>5 DEF ReapDead, AtRow, ReapPids, EngineAlive, PidAlive, PidInUse, PidArgvMatches
  <2>6. ASSUME NEW r \in Runs, ReapReport(w, r) PROVE Good
    BY <2>6 DEF ReapReport, RecordFinish, RecordFinishFails
  <2>7. ASSUME NEW r \in Runs, WatchPoll(w, r) PROVE Good
    BY <2>7 DEF WatchPoll, PidAlive, PidInUse
  <2>8. ASSUME NEW r \in Runs, WatchFinish(w, r) PROVE Good
    BY <2>8 DEF WatchFinish, RecordFinish, RecordFinishFails
  <2> QED BY <1>3, <2>1, <2>2, <2>3, <2>4, <2>5, <2>6, <2>7, <2>8, <2>9 DEF RecoveryNext
<1>4. ASSUME NEW r \in Runs, StartNext(r) PROVE Good
  <2>1. ASSUME NEW p \in Pids, Spawn(r, p) PROVE Good
    BY <2>1 DEF Spawn
  <2>2. CASE SpawnFails(r)
    BY <2>2 DEF SpawnFails
  <2>3. CASE Register(r)
    BY <2>3 DEF Register
  <2>4. CASE RecordStart(r)
    BY <2>4 DEF RecordStart
  <2>5. CASE RecordStartFails(r)
    BY <2>5 DEF RecordStartFails
  <2> QED BY <1>4, <2>1, <2>2, <2>3, <2>4, <2>5 DEF StartNext
<1>5. ASSUME NEW r \in Runs, EngineNext(r) PROVE Good
  <2>1. CASE EngineReady(r)
    BY <2>1 DEF EngineReady
  <2>2. CASE EngineSaveOpen(r)
    BY <2>2 DEF EngineSaveOpen
  <2>3. CASE EngineSaveClose(r)
    BY <2>3 DEF EngineSaveClose, EngineExit
  <2>4. CASE EngineSaveFails(r)
    BY <2>4 DEF EngineSaveFails, EngineExit
  <2>5. CASE EngineTerm(r)
    BY <2>5 DEF EngineTerm, EngineExit, Live
  <2>6. CASE EngineBrokenPipe(r)
    BY <2>6 DEF EngineBrokenPipe, EngineExit
  <2>7. CASE EngineDies(r)
    BY <2>7 DEF EngineDies, EngineExit, Live
  <2> QED BY <1>5, <2>1, <2>2, <2>3, <2>4, <2>5, <2>6, <2>7 DEF EngineNext
<1>6. ASSUME NEW r \in Runs, ReaderNext(r) PROVE Good
  <2>1. CASE ReaderEof(r)
    BY <2>1 DEF ReaderEof, Zombie
  <2>2. CASE ReaderDecide(r)
    BY <2>2 DEF ReaderDecide
  <2>3. CASE ReaderPlugins(r)
    BY <2>3 DEF ReaderPlugins
  <2>4. CASE ReaderPersist(r)
    BY <2>4 DEF ReaderPersist
  <2>5. CASE ReaderPersistFails(r)
    BY <2>5 DEF ReaderPersistFails
  <2> QED BY <1>6, <2>1, <2>2, <2>3, <2>4, <2>5 DEF ReaderNext
<1>7. ASSUME NEW r \in Runs, Stop(r) PROVE Good
  BY <1>7 DEF Stop, Live, Collect
<1>8. ASSUME NEW r \in Runs, StopKill(r) PROVE Good
  BY <1>8 DEF StopKill, EngineExit, Live, Collect
<1>9. CASE EnvNext
  <2>1. CASE HostRestart
    BY <2>1 DEF HostRestart, LoseMemory, InFlight, Live, Zombie
  <2>2. ASSUME NEW w \in Workers, Crash(w) PROVE Good
    BY <2>2 DEF Crash, LoseMemory, InFlight, Zombie
  <2>3. ASSUME NEW r \in Runs, Expire(r) PROVE Good
    BY <2>3 DEF Expire
  <2>4. ASSUME NEW p \in Pids, ForeignStart(p) PROVE Good
    BY <2>4 DEF ForeignStart
  <2>5. ASSUME NEW p \in Pids, ForeignExit(p) PROVE Good
    BY <2>5 DEF ForeignExit
  <2> QED BY <1>9, <2>1, <2>2, <2>3, <2>4, <2>5 DEF EnvNext
<1>10. CASE UNCHANGED vars \/ AllQuiet
  BY <1>10 DEF AllQuiet, vars
<1> QED
  BY <1>2, <1>3, <1>4, <1>5, <1>6, <1>7, <1>8, <1>9, <1>10 DEF Next

\* A step without a crash or a failed write keeps reader, registry and row in
\* agreement, and a state that a client has seen as final stays what it was.
LEMMA CalmStep ==
  ASSUME OneWorker, TypeOK, HandsInv, CalmInv, [Next]_vars
  PROVE  /\ CalmInv'
         /\ \A r \in Runs : Visible(r) \in Terminal /\ crashes' = 0 /\ dbFaults' = 0
                              => Visible(r)' = Visible(r)
<1>0. crashes' = 0 /\ dbFaults' = 0 => crashes = 0 /\ dbFaults = 0
  BY CountersGrow
<1> DEFINE Good(r) == /\ CalmAt(r)'
                      /\ Visible(r) \in Terminal => Visible(r)' = Visible(r)
<1> SUFFICES ASSUME crashes = 0, dbFaults = 0, crashes' = 0, dbFaults' = 0, NEW q \in Runs
             PROVE  Good(q)
  BY <1>0 DEF CalmInv
<1>1. /\ \A v, w \in Workers : w = v
      /\ RowAt(q) /\ \A r \in Runs : CalmAt(r) /\ RowAt(r)
  BY DEF HandsInv, CalmInv, OneWorker
<1> USE <1>1 DEF TypeOK, Terminal, HandsAt, RowAt, ReaderBusy, CalmAt, Visible
<1>2. ASSUME NEW w \in Workers, UserNext(w) PROVE Good(q)
  <2>1. ASSUME NEW r \in Runs, NEW old \in SUBSET Evictable(w), Admit(w, r, old) PROVE Good(q)
    BY <2>1 DEF Admit, CleanupRuns, Evictable, Owned
  <2>2. ASSUME NEW r \in Runs, Reject(w, r) PROVE Good(q)
    BY <2>2 DEF Reject, vars
  <2>3. ASSUME NEW old \in SUBSET Evictable(w), ListRuns(w, old) PROVE Good(q)
    BY <2>3 DEF ListRuns, CleanupRuns, Evictable, Owned
  <2> QED BY <1>2, <2>1, <2>2, <2>3 DEF UserNext
<1>3. ASSUME NEW w \in Workers, RecoveryNext(w) PROVE Good(q)
  <2>1. CASE Boot(w)
    BY <2>1 DEF Boot, GetActiveForRecovery
  <2>9. CASE ReadClock(w)
    BY <2>9 DEF ReadClock
  <2>2. CASE BootDone(w)
    BY <2>2 DEF BootDone
  <2>3. ASSUME NEW r \in Runs, ReapAbandoned(w, r) PROVE Good(q)
    BY <2>3 DEF ReapAbandoned, AtRow, RecordFinish, RecordFinishFails
  <2>4. ASSUME NEW r \in Runs, ReapReattach(w, r) PROVE Good(q)
    BY <2>4 DEF ReapReattach, AtRow
  <2>5. ASSUME NEW r \in Runs, ReapDead(w, r) PROVE Good(q)
    BY <2>5 DEF ReapDead, AtRow, ReapPids, EngineAlive, PidAlive, PidInUse, PidArgvMatches
  <2>6. ASSUME NEW r \in Runs, ReapReport(w, r) PROVE Good(q)
    BY <2>6 DEF ReapReport, RecordFinish, RecordFinishFails
  <2>7. ASSUME NEW r \in Runs, WatchPoll(w, r) PROVE Good(q)
    BY <2>7 DEF WatchPoll, PidAlive, PidInUse
  <2>8. ASSUME NEW r \in Runs, WatchFinish(w, r) PROVE Good(q)
    BY <2>8 DEF WatchFinish, RecordFinish, RecordFinishFails
  <2> QED BY <1>3, <2>1, <2>2, <2>3, <2>4, <2>5, <2>6, <2>7, <2>8, <2>9 DEF RecoveryNext
<1>4. ASSUME NEW r \in Runs, StartNext(r) PROVE Good(q)
  <2>1. ASSUME NEW p \in Pids, Spawn(r, p) PROVE Good(q)
    BY <2>1 DEF Spawn
  <2>2. CASE SpawnFails(r)
    BY <2>2 DEF SpawnFails
  <2>3. CASE Register(r)
    BY <2>3 DEF Register
  <2>4. CASE RecordStart(r)
    BY <2>4 DEF RecordStart
  <2>5. CASE RecordStartFails(r)
    BY <2>5 DEF RecordStartFails
  <2> QED BY <1>4, <2>1, <2>2, <2>3, <2>4, <2>5 DEF StartNext
<1>5. ASSUME NEW r \in Runs, EngineNext(r) PROVE Good(q)
  <2>1. CASE EngineReady(r)
    BY <2>1 DEF EngineReady
  <2>2. CASE EngineSaveOpen(r)
    BY <2>2 DEF EngineSaveOpen
  <2>3. CASE EngineSaveClose(r)
    BY <2>3 DEF EngineSaveClose, EngineExit
  <2>4. CASE EngineSaveFails(r)
    BY <2>4 DEF EngineSaveFails, EngineExit
  <2>5. CASE EngineTerm(r)
    BY <2>5 DEF EngineTerm, EngineExit, Live
  <2>6. CASE EngineBrokenPipe(r)
    BY <2>6 DEF EngineBrokenPipe, EngineExit
  <2>7. CASE EngineDies(r)
    BY <2>7 DEF EngineDies, EngineExit, Live
  <2> QED BY <1>5, <2>1, <2>2, <2>3, <2>4, <2>5, <2>6, <2>7 DEF EngineNext
<1>6. ASSUME NEW r \in Runs, ReaderNext(r) PROVE Good(q)
  <2>1. CASE ReaderEof(r)
    BY <2>1 DEF ReaderEof, Zombie
  <2>2. CASE ReaderDecide(r)
    BY <2>2 DEF ReaderDecide
  <2>3. CASE ReaderPlugins(r)
    BY <2>3 DEF ReaderPlugins
  <2>4. CASE ReaderPersist(r)
    BY <2>4 DEF ReaderPersist
  <2>5. CASE ReaderPersistFails(r)
    BY <2>5 DEF ReaderPersistFails
  <2> QED BY <1>6, <2>1, <2>2, <2>3, <2>4, <2>5 DEF ReaderNext
<1>7. ASSUME NEW r \in Runs, Stop(r) PROVE Good(q)
  BY <1>7 DEF Stop, Live, Collect
<1>8. ASSUME NEW r \in Runs, StopKill(r) PROVE Good(q)
  BY <1>8 DEF StopKill, EngineExit, Live, Collect
<1>9. CASE EnvNext
  <2>1. CASE HostRestart
    BY <2>1 DEF HostRestart, LoseMemory, InFlight, Live, Zombie
  <2>2. ASSUME NEW w \in Workers, Crash(w) PROVE Good(q)
    BY <2>2 DEF Crash, LoseMemory, InFlight, Zombie
  <2>3. ASSUME NEW r \in Runs, Expire(r) PROVE Good(q)
    BY <2>3 DEF Expire
  <2>4. ASSUME NEW p \in Pids, ForeignStart(p) PROVE Good(q)
    BY <2>4 DEF ForeignStart
  <2>5. ASSUME NEW p \in Pids, ForeignExit(p) PROVE Good(q)
    BY <2>5 DEF ForeignExit
  <2> QED BY <1>9, <2>1, <2>2, <2>3, <2>4, <2>5 DEF EnvNext
<1>10. CASE UNCHANGED vars \/ AllQuiet
  BY <1>10 DEF AllQuiet, vars
<1> QED
  BY <1>2, <1>3, <1>4, <1>5, <1>6, <1>7, <1>8, <1>9, <1>10 DEF Next

\* With one worker, and without crashes and failed writes, what a client has
\* seen as the end of a run stays what it sees.
THEOREM VisibleEndIsFinalHolds == OneWorker => (Spec => VisibleEndIsFinal)
<1> SUFFICES ASSUME OneWorker PROVE Spec => VisibleEndIsFinal
  OBVIOUS
<1>1. Init => CalmInv
  BY DEF Init, CalmInv, CalmAt, Terminal
<1>2. TypeOK /\ HandsInv /\ CalmInv /\ [Next]_vars =>
        CalmInv' /\ [\A r \in Runs : Visible(r) \in Terminal /\ crashes' = 0 /\ dbFaults' = 0
                                      => Visible(r)' = Visible(r)]_vars
  BY CalmStep
<1> QED
  BY <1>1, <1>2, HandsHold, TypeCorrect, PTL DEF Spec, VisibleEndIsFinal
=============================================================================
