------------------------------- MODULE ScanRun -------------------------------
(***************************************************************************)
(* The life of a single-pass scan, from POST /api/scans/start to the        *)
(* terminal row of scan_history, across crashes of the Flask process.       *)
(*                                                                          *)
(* Actors: the request threads of each web process (start, stop, list), the *)
(* reader thread of each run, the boot-time reaper and its watchers, the    *)
(* engine subprocess, and the kernel that hands out pids.  They share       *)
(* scan_history (persistent), _run_registry (lost with its process), the    *)
(* report file, and the pid space.                                          *)
(***************************************************************************)
EXTENDS Naturals, FiniteSets

CONSTANTS
  Workers,          \* web processes (create_app() instances) sharing one database
  NoWorker,
  Runs,             \* run ids; uuid4, so each is used once
  Pids, NoPid,
  NStages,          \* stages of the engine's chain, each ending in a save
  ScanLimit,        \* MAX_CONCURRENT_SCANS
  RunStore,         \* MARLINSPIKE_RUN_STORE
  MaxCrashes,       \* bound: deaths of a web process or of the host
  MaxDbFaults,      \* bound: failed writes to scan_history
  MaxEngineFaults,  \* bound: engines that fail or are killed from outside
  MaxForeign        \* bound: live processes of other programs in Pids

ASSUME ScanRunAssumption ==
  /\ NoWorker \notin Workers
  /\ NoPid \notin Pids
  /\ NStages \in Nat \ {0}
  /\ ScanLimit \in Nat
  /\ RunStore \in {"memory", "db"}
  /\ {MaxCrashes, MaxDbFaults, MaxEngineFaults, MaxForeign} \subseteq Nat

VARIABLES
  web,        \* each worker: "down", "booting" (create_app), "reaping" or "up"
  todo,       \* each worker: rows its reaper still has to judge
  late,       \* each worker: rows past their deadline when its reaper read the clock
  looking,    \* each worker: the row whose engine its reaper found dead
  polling,    \* each worker: runs with a watcher thread that polls the pid
  watchEnd,   \* each worker: runs whose watcher has seen the pid disappear
  req,        \* each run: how far its start request got
  owner,      \* each run: the worker that started it
  reg,        \* each run: status in its owner's _run_registry
  stopReq,    \* each run: run_state["stop_requested"]
  stopper,    \* runs with a stop request inside proc.wait(timeout=8)
  reader,     \* each run: its reader thread
  rowStatus, rowPid, recovery, due,      \* each run: its scan_history row
  abandoned,  \* auxiliary: runs that a reaper ever gave up by their deadline
  est,        \* each run: its engine process
  elvl,       \* each run: stages the engine has completed
  sig,        \* each run: SIGTERM sent to the engine, and handled by it
  rcOk,       \* each run: the engine exited with return code 0
  pid,        \* each run: the engine's pid
  piped,      \* each run: the engine's stdout pipe still has its reading end
  file,       \* each run: the report file
  foreign,    \* pids held by unrelated processes
  crashes, dbFaults, engFaults           \* bounded counters

webVars  == <<web, todo, late, looking, polling, watchEnd>>
reqVars  == <<req, owner>>
memVars  == <<reg, stopReq, stopper, reader>>
dbVars   == <<rowStatus, rowPid, recovery, due, abandoned>>
engVars  == <<est, elvl, sig, rcOk, pid, piped, file>>
envVars  == <<foreign, crashes, dbFaults, engFaults>>
vars     == <<webVars, reqVars, memVars, dbVars, engVars, envVars>>

Terminal == {"completed", "failed", "stopped"}

Init ==
  /\ web      = [w \in Workers |-> "down"]
  /\ todo     = [w \in Workers |-> {}]
  /\ late     = [w \in Workers |-> {}]
  /\ looking  = [w \in Workers |-> {}]
  /\ polling  = [w \in Workers |-> {}]
  /\ watchEnd = [w \in Workers |-> {}]
  /\ req      = [r \in Runs |-> "idle"]
  /\ owner    = [r \in Runs |-> NoWorker]
  /\ reg      = [r \in Runs |-> "absent"]
  /\ stopReq  = [r \in Runs |-> FALSE]
  /\ stopper  = {}
  /\ reader   = [r \in Runs |-> "none"]
  /\ rowStatus = [r \in Runs |-> "absent"]
  /\ rowPid   = [r \in Runs |-> NoPid]
  /\ recovery = [r \in Runs |-> "null"]
  /\ due      = [r \in Runs |-> FALSE]
  /\ abandoned = {}
  /\ est      = [r \in Runs |-> "none"]
  /\ elvl     = [r \in Runs |-> 0]
  /\ sig      = [r \in Runs |-> "no"]
  /\ rcOk     = [r \in Runs |-> FALSE]
  /\ pid      = [r \in Runs |-> NoPid]
  /\ piped    = [r \in Runs |-> FALSE]
  /\ file     = [r \in Runs |-> "missing"]
  /\ foreign  = {}
  /\ crashes = 0 /\ dbFaults = 0 /\ engFaults = 0

-----------------------------------------------------------------------------
(* Processes and pids.                                                      *)

Live(r)     == est[r] \in {"booting", "computing", "saving"}
Zombie(r)   == est[r] = "zombie"
PidInUse(p) == p \in foreign \/ \E r \in Runs : pid[r] = p /\ (Live(r) \/ Zombie(r))

\* os.kill(pid, 0): any process, a zombie included, counts as alive.
PidAlive(p) == PidInUse(p)

\* Mutation: the interpreter's basename must match too, which a framework
\* Python never does.
ArgvNeverMatches(p) == FALSE

\* The saved argv holds the token "marlinspike", so every live engine matches;
\* the cmdline of a zombie is empty.
PidArgvMatches(p) == \E r \in Runs : pid[r] = p /\ Live(r)

\* json.load succeeds; every report holds the key "topology".
ReportComplete(r) == file[r] = "parses"

\* The engine's process ends; a parent that is still there keeps the zombie.
EngineExit(r, ok) ==
  /\ est'  = [est EXCEPT ![r] = IF piped[r] THEN "zombie" ELSE "gone"]
  /\ rcOk' = [rcOk EXCEPT ![r] = ok]

-----------------------------------------------------------------------------
(* api_scan_start: the admission check holds _runs_lock, nothing after it   *)
(* does, and the four later steps can each be cut off by a crash.           *)

Owned(w) == {r \in Runs : owner[r] = w}

GetActiveRuns(w) == IF RunStore = "db"
                    THEN {r \in Runs : rowStatus[r] = "running"}
                    ELSE {r \in Owned(w) : reg[r] = "running"}

\* Mutation: any terminal entry is dropped at once.
EvictableAtOnce(w) == {r \in Owned(w) : reg[r] \in Terminal}

\* _cleanup_runs may drop any terminal entry that is old enough.  The reader
\* writes the row right after it sets the status, so an hour-old entry has one.
Evictable(w) == {r \in Owned(w) : reg[r] \in Terminal /\ reader[r] = "done"}
CleanupRuns(old) == reg' = [r \in Runs |-> IF r \in old THEN "absent" ELSE reg[r]]

Admit(w, r, old) ==
  /\ web[w] = "up" /\ req[r] = "idle"
  /\ Cardinality(GetActiveRuns(w)) < ScanLimit
  /\ old \subseteq Evictable(w)
  /\ CleanupRuns(old)
  /\ req'   = [req EXCEPT ![r] = "admitted"]
  /\ owner' = [owner EXCEPT ![r] = w]
  /\ UNCHANGED <<webVars, stopReq, stopper, reader, dbVars, engVars, envVars>>

\* 409: nothing changes, and nothing is cleaned up.
Reject(w, r) ==
  /\ web[w] = "up" /\ req[r] = "idle"
  /\ Cardinality(GetActiveRuns(w)) >= ScanLimit
  /\ UNCHANGED vars

Spawn(r, p) ==
  /\ req[r] = "admitted"
  /\ ~PidInUse(p)
  /\ req'   = [req EXCEPT ![r] = "spawned"]
  /\ est'   = [est EXCEPT ![r] = "booting"]
  /\ pid'   = [pid EXCEPT ![r] = p]
  /\ piped' = [piped EXCEPT ![r] = TRUE]
  /\ UNCHANGED <<webVars, owner, memVars, dbVars, elvl, sig, rcOk, file, envVars>>

SpawnFails(r) ==
  /\ req[r] = "admitted" /\ engFaults < MaxEngineFaults
  /\ req' = [req EXCEPT ![r] = "lost"]
  /\ engFaults' = engFaults + 1
  /\ UNCHANGED <<webVars, owner, memVars, dbVars, engVars, foreign, crashes, dbFaults>>

Register(r) ==
  /\ req[r] = "spawned"
  /\ req' = [req EXCEPT ![r] = "registered"]
  /\ reg' = [reg EXCEPT ![r] = "running"]
  /\ UNCHANGED <<webVars, owner, stopReq, stopper, reader, dbVars, engVars, envVars>>

\* record_start, and the start of the reader thread.
RecordStart(r) ==
  /\ req[r] = "registered"
  /\ req'       = [req EXCEPT ![r] = "done"]
  /\ rowStatus' = [rowStatus EXCEPT ![r] = "running"]
  /\ rowPid'    = [rowPid EXCEPT ![r] = pid[r]]
  /\ recovery'  = [recovery EXCEPT ![r] = "null"]
  /\ due'       = [due EXCEPT ![r] = FALSE]
  /\ reader'    = [reader EXCEPT ![r] = "draining"]
  /\ UNCHANGED <<webVars, owner, reg, stopReq, stopper, abandoned, engVars, envVars>>

\* The commit raises: no row, no reader, and the registry entry stays.
RecordStartFails(r) ==
  /\ req[r] = "registered" /\ dbFaults < MaxDbFaults
  /\ req' = [req EXCEPT ![r] = "unrecorded"]
  /\ dbFaults' = dbFaults + 1
  /\ UNCHANGED <<webVars, owner, memVars, dbVars, engVars, foreign, crashes, engFaults>>

\* api_runs_list also cleans up.
ListRuns(w, old) ==
  /\ web[w] = "up"
  /\ old # {} /\ old \subseteq Evictable(w)
  /\ CleanupRuns(old)
  /\ UNCHANGED <<webVars, reqVars, stopReq, stopper, reader, dbVars, engVars, envVars>>

-----------------------------------------------------------------------------
(* api_run_stop: flag, SIGTERM, up to 8 s of waiting, SIGKILL.  Its poll()   *)
(* and wait() may collect the zombie before the reader thread does.         *)

Collect(r) == est' = [est EXCEPT ![r] = IF @ = "zombie" THEN "gone" ELSE @]

\* Mutation: the engine is signalled and the flag is left for later.
StopSignalsFirst(r) ==
  /\ reg[r] # "absent"
  /\ stopReq' = [stopReq EXCEPT ![r] = ~Live(r)]
  /\ IF Live(r)
     THEN /\ sig' = [sig EXCEPT ![r] = IF @ = "no" THEN "pending" ELSE @]
          /\ stopper' = stopper \cup {r}
     ELSE UNCHANGED <<sig, stopper>>
  /\ Collect(r)
  /\ UNCHANGED <<webVars, reqVars, reg, reader, dbVars, elvl, rcOk, pid, piped,
                 file, envVars>>

Stop(r) ==
  /\ reg[r] # "absent"
  /\ stopReq' = [stopReq EXCEPT ![r] = TRUE]
  /\ IF Live(r)
     THEN /\ sig' = [sig EXCEPT ![r] = IF @ = "no" THEN "pending" ELSE @]
          /\ stopper' = stopper \cup {r}
     ELSE UNCHANGED <<sig, stopper>>
  /\ Collect(r)
  /\ UNCHANGED <<webVars, reqVars, reg, reader, dbVars, elvl, rcOk, pid, piped,
                 file, envVars>>

StopKill(r) ==
  /\ r \in stopper
  /\ stopper' = stopper \ {r}
  /\ IF Live(r) THEN EngineExit(r, FALSE) ELSE Collect(r) /\ UNCHANGED rcOk
  /\ UNCHANGED <<webVars, reqVars, reg, stopReq, reader, dbVars, elvl, sig, pid,
                 piped, file, envVars>>

-----------------------------------------------------------------------------
(* The engine: run_chain.  Its report is rewritten in place after each      *)
(* stage.  Python runs with -u and ignores SIGPIPE, so once the web process *)
(* is gone the next print raises and ends the engine.                       *)

EngineReady(r) ==
  /\ est[r] = "booting" /\ sig[r] = "no"
  /\ est' = [est EXCEPT ![r] = "computing"]
  /\ UNCHANGED <<webVars, reqVars, memVars, dbVars, elvl, sig, rcOk, pid, piped,
                 file, envVars>>

\* _save_intermediate: open(path, "w") empties the previous report.
EngineSaveOpen(r) ==
  /\ est[r] = "computing" /\ elvl[r] < NStages
  /\ est'  = [est EXCEPT ![r] = "saving"]
  /\ elvl' = [elvl EXCEPT ![r] = @ + 1]
  /\ file' = [file EXCEPT ![r] = "truncated"]
  /\ UNCHANGED <<webVars, reqVars, memVars, dbVars, sig, rcOk, pid, piped, envVars>>

\* The save ends with a print; then the shutdown flag is looked at, except
\* after the last stage.
EngineSaveClose(r) ==
  /\ est[r] = "saving"
  /\ file' = [file EXCEPT ![r] = "parses"]
  /\ IF elvl[r] = NStages \/ sig[r] = "handled" \/ ~piped[r]
     THEN EngineExit(r, piped[r])
     ELSE est' = [est EXCEPT ![r] = "computing"] /\ UNCHANGED rcOk
  /\ UNCHANGED <<webVars, reqVars, memVars, dbVars, elvl, sig, pid, piped, envVars>>

\* A save that raises is swallowed, except the last one.
EngineSaveFails(r) ==
  /\ est[r] = "saving" /\ engFaults < MaxEngineFaults
  /\ engFaults' = engFaults + 1
  /\ IF elvl[r] = NStages \/ ~piped[r]
     THEN EngineExit(r, FALSE)
     ELSE IF sig[r] = "handled"
          THEN EngineExit(r, TRUE)
          ELSE est' = [est EXCEPT ![r] = "computing"] /\ UNCHANGED rcOk
  /\ UNCHANGED <<webVars, reqVars, memVars, dbVars, elvl, sig, pid, piped, file,
                 foreign, crashes, dbFaults>>

\* _shutdown_handler; before run_chain installs it, SIGTERM simply kills.
EngineTerm(r) ==
  /\ Live(r) /\ sig[r] = "pending" /\ piped[r]
  /\ sig' = [sig EXCEPT ![r] = "handled"]
  /\ IF est[r] = "booting"
     THEN EngineExit(r, FALSE) /\ UNCHANGED file
     ELSE file' = [file EXCEPT ![r] = "parses"] /\ UNCHANGED <<est, rcOk>>
  /\ UNCHANGED <<webVars, reqVars, memVars, dbVars, elvl, pid, piped, envVars>>

EngineBrokenPipe(r) ==
  /\ est[r] \in {"booting", "computing"} \/ (est[r] = "saving" /\ sig[r] = "pending")
  /\ ~piped[r]
  /\ EngineExit(r, FALSE)
  /\ UNCHANGED <<webVars, reqVars, memVars, dbVars, elvl, sig, pid, piped, file, envVars>>

EngineDies(r) ==
  /\ Live(r) /\ engFaults < MaxEngineFaults
  /\ engFaults' = engFaults + 1
  /\ EngineExit(r, FALSE)
  /\ UNCHANGED <<webVars, reqVars, memVars, dbVars, elvl, sig, pid, piped, file,
                 foreign, crashes, dbFaults>>

-----------------------------------------------------------------------------
(* _reader and _finalize_run.                                               *)

\* End of stdout, proc.wait().
ReaderEof(r) ==
  /\ reader[r] = "draining" /\ est[r] \in {"zombie", "gone"}
  /\ est'    = [est EXCEPT ![r] = "gone"]
  /\ reader' = [reader EXCEPT ![r] = "deciding"]
  /\ UNCHANGED <<webVars, reqVars, reg, stopReq, stopper, dbVars, elvl, sig, rcOk,
                 pid, piped, file, envVars>>

\* Mutation: return code 0 is success, stopped or not.
DecideByReturnCode(r) ==
  /\ reader[r] = "deciding"
  /\ reader' = [reader EXCEPT ![r] = IF rcOk[r] THEN "plugins" ELSE "persisting"]
  /\ reg'    = [reg EXCEPT ![r] = IF rcOk[r] THEN @ ELSE "failed"]
  /\ UNCHANGED <<webVars, reqVars, stopReq, stopper, dbVars, engVars, envVars>>

\* stop_requested is read once, before the plugins run.
ReaderDecide(r) ==
  /\ reader[r] = "deciding"
  /\ \/ /\ stopReq[r]
        /\ reg'    = [reg EXCEPT ![r] = "stopped"]
        /\ reader' = [reader EXCEPT ![r] = "persisting"]
     \/ /\ ~stopReq[r] /\ rcOk[r]
        /\ reader' = [reader EXCEPT ![r] = "plugins"]
        /\ UNCHANGED reg
     \/ /\ ~stopReq[r] /\ ~rcOk[r]
        /\ reg'    = [reg EXCEPT ![r] = "failed"]
        /\ reader' = [reader EXCEPT ![r] = "persisting"]
  /\ UNCHANGED <<webVars, reqVars, stopReq, stopper, dbVars, engVars, envVars>>

\* Mutation: an exception of a plugin ends the reader thread.
PluginKillsReader(r) ==
  /\ reader[r] = "plugins"
  /\ reader' = [reader EXCEPT ![r] = "done"]
  /\ UNCHANGED <<webVars, reqVars, reg, stopReq, stopper, dbVars, engVars, envVars>>

ReaderPlugins(r) ==
  /\ reader[r] = "plugins"
  /\ reg'    = [reg EXCEPT ![r] = "completed"]
  /\ reader' = [reader EXCEPT ![r] = "persisting"]
  /\ UNCHANGED <<webVars, reqVars, stopReq, stopper, dbVars, engVars, envVars>>

\* _finalize_scan_history; it leaves engine_pid and recovery_state alone.
ReaderPersist(r) ==
  /\ reader[r] = "persisting"
  /\ rowStatus' = [rowStatus EXCEPT ![r] = reg[r]]
  /\ reader'    = [reader EXCEPT ![r] = "done"]
  /\ UNCHANGED <<webVars, reqVars, reg, stopReq, stopper, rowPid, recovery, due,
                 abandoned, engVars, envVars>>

ReaderPersistFails(r) ==
  /\ reader[r] = "persisting" /\ dbFaults < MaxDbFaults
  /\ dbFaults' = dbFaults + 1
  /\ reader'   = [reader EXCEPT ![r] = "done"]
  /\ UNCHANGED <<webVars, reqVars, reg, stopReq, stopper, dbVars, engVars,
                 foreign, crashes, engFaults>>

-----------------------------------------------------------------------------
(* Boot: create_app() reconciles the rows still "running".                  *)

\* Mutation: the query does not filter on the status.
EveryRow == {r \in Runs : rowStatus[r] # "absent"}

GetActiveForRecovery == {r \in Runs : rowStatus[r] = "running"}

\* Mutation: status and recovery_state swapped.
RecordFinishSwapped(r, status, how) ==
  /\ rowStatus' = [rowStatus EXCEPT ![r] = how]
  /\ rowPid'    = [rowPid EXCEPT ![r] = NoPid]
  /\ recovery'  = [recovery EXCEPT ![r] = status]
  /\ UNCHANGED <<due, abandoned, dbFaults>>

\* run_store.record_finish: unconditional on the row's present status.
RecordFinish(r, status, how) ==
  /\ rowStatus' = [rowStatus EXCEPT ![r] = status]
  /\ rowPid'    = [rowPid EXCEPT ![r] = NoPid]
  /\ recovery'  = [recovery EXCEPT ![r] = how]
  /\ abandoned' = IF how = "reaped_abandoned" THEN abandoned \cup {r} ELSE abandoned
  /\ UNCHANGED <<due, dbFaults>>

\* ... and a failure of it is swallowed.
RecordFinishFails ==
  /\ dbFaults < MaxDbFaults
  /\ dbFaults' = dbFaults + 1
  /\ UNCHANGED dbVars

Boot(w) ==
  /\ web[w] = "down"
  /\ web'  = [web EXCEPT ![w] = "booting"]
  /\ todo' = [todo EXCEPT ![w] = GetActiveForRecovery]
  /\ UNCHANGED <<late, looking, polling, watchEnd, reqVars, memVars, dbVars, engVars, envVars>>

\* "now" is read once, after the query and before the first row, and every
\* row is compared with it.
ReadClock(w) ==
  /\ web[w] = "booting"
  /\ web'  = [web EXCEPT ![w] = "reaping"]
  /\ late' = [late EXCEPT ![w] = {r \in todo[w] : due[r]}]
  /\ UNCHANGED <<todo, looking, polling, watchEnd, reqVars, memVars, dbVars, engVars, envVars>>

\* The next row of the loop.
AtRow(w, r) == web[w] = "reaping" /\ r \in todo[w] /\ looking[w] = {}

\* The pid the reaper judges by: the one its query loaded, or, after it has
\* settled an earlier row (any row of the database, of a run that is not
\* modelled as well), the one that a refresh brings in.
ReapPids(r) == {pid[r], rowPid[r]}

EngineAlive(p) == p # NoPid /\ PidAlive(p) /\ PidArgvMatches(p)

ReapAbandoned(w, r) ==
  /\ AtRow(w, r) /\ r \in late[w]
  /\ todo' = [todo EXCEPT ![w] = @ \ {r}]
  /\ RecordFinish(r, "failed", "reaped_abandoned") \/ RecordFinishFails
  /\ UNCHANGED <<web, late, looking, polling, watchEnd, reqVars, memVars, engVars,
                 foreign, crashes, engFaults>>

\* Mutation: no "continue" after the watcher is spawned.
ReattachFallsThrough(w, r) ==
  /\ AtRow(w, r) /\ r \notin late[w]
  /\ \E p \in ReapPids(r) : EngineAlive(p)
  /\ todo'    = [todo EXCEPT ![w] = @ \ {r}]
  /\ polling' = [polling EXCEPT ![w] = @ \cup {r}]
  /\ looking' = [looking EXCEPT ![w] = {r}]
  /\ UNCHANGED <<web, late, watchEnd, reqVars, memVars, dbVars, engVars, envVars>>

\* Mutation: a live engine is left alone, without a watcher.
ReattachWithoutWatcher(w, r) ==
  /\ AtRow(w, r) /\ r \notin late[w]
  /\ \E p \in ReapPids(r) : EngineAlive(p)
  /\ todo' = [todo EXCEPT ![w] = @ \ {r}]
  /\ UNCHANGED <<web, late, looking, polling, watchEnd, reqVars, memVars, dbVars,
                 engVars, envVars>>

ReapReattach(w, r) ==
  /\ AtRow(w, r) /\ r \notin late[w]
  /\ \E p \in ReapPids(r) : EngineAlive(p)
  /\ todo'    = [todo EXCEPT ![w] = @ \ {r}]
  /\ polling' = [polling EXCEPT ![w] = @ \cup {r}]
  /\ UNCHANGED <<web, late, looking, watchEnd, reqVars, memVars, dbVars, engVars, envVars>>

ReapDead(w, r) ==
  /\ AtRow(w, r) /\ r \notin late[w]
  /\ \E p \in ReapPids(r) : ~EngineAlive(p)
  /\ todo'    = [todo EXCEPT ![w] = @ \ {r}]
  /\ looking' = [looking EXCEPT ![w] = {r}]
  /\ UNCHANGED <<web, late, polling, watchEnd, reqVars, memVars, dbVars, engVars, envVars>>

\* After the verdict "dead", the report on disk decides.
ReapReport(w, r) ==
  /\ r \in looking[w]
  /\ looking' = [looking EXCEPT ![w] = {}]
  /\ \/ IF ReportComplete(r) THEN RecordFinish(r, "completed", "reaped_completed")
                             ELSE RecordFinish(r, "failed", "reaped_failed")
     \/ RecordFinishFails
  /\ UNCHANGED <<web, todo, late, polling, watchEnd, reqVars, memVars, engVars,
                 foreign, crashes, engFaults>>

BootDone(w) ==
  /\ web[w] = "reaping" /\ todo[w] = {} /\ looking[w] = {}
  /\ web'  = [web EXCEPT ![w] = "up"]
  /\ late' = [late EXCEPT ![w] = {}]
  /\ UNCHANGED <<todo, looking, polling, watchEnd, reqVars, memVars, dbVars,
                 engVars, envVars>>

\* _watch_loop: liveness of the pid alone, no argv check and no deadline.
WatchPoll(w, r) ==
  /\ r \in polling[w] /\ ~PidAlive(pid[r])
  /\ polling'  = [polling EXCEPT ![w] = @ \ {r}]
  /\ watchEnd' = [watchEnd EXCEPT ![w] = @ \cup {r}]
  /\ UNCHANGED <<web, todo, late, looking, reqVars, memVars, dbVars, engVars, envVars>>

WatchFinish(w, r) ==
  /\ r \in watchEnd[w]
  /\ watchEnd' = [watchEnd EXCEPT ![w] = @ \ {r}]
  /\ \/ IF ReportComplete(r) THEN RecordFinish(r, "completed", "reaped_completed")
                             ELSE RecordFinish(r, "failed", "reattached")
     \/ RecordFinishFails
  /\ UNCHANGED <<web, todo, late, looking, polling, reqVars, memVars, engVars,
                 foreign, crashes, engFaults>>

-----------------------------------------------------------------------------
(* Crashes, time, and other programs.                                       *)

InFlight == {r \in Runs : req[r] \in {"admitted", "spawned", "registered"}}

\* What dies with the processes in W: their memory, threads and pipe ends.
LoseMemory(W) ==
  LET lost == {r \in Runs : owner[r] \in W} IN
  /\ web'      = [w \in Workers |-> IF w \in W THEN "down" ELSE web[w]]
  /\ todo'     = [w \in Workers |-> IF w \in W THEN {} ELSE todo[w]]
  /\ late'     = [w \in Workers |-> IF w \in W THEN {} ELSE late[w]]
  /\ looking'  = [w \in Workers |-> IF w \in W THEN {} ELSE looking[w]]
  /\ polling'  = [w \in Workers |-> IF w \in W THEN {} ELSE polling[w]]
  /\ watchEnd' = [w \in Workers |-> IF w \in W THEN {} ELSE watchEnd[w]]
  /\ req'      = [r \in Runs |-> IF r \in lost \cap InFlight THEN "lost" ELSE req[r]]
  /\ reg'      = [r \in Runs |-> IF r \in lost THEN "absent" ELSE reg[r]]
  /\ stopReq'  = [r \in Runs |-> stopReq[r] /\ r \notin lost]
  /\ stopper'  = stopper \ lost
  /\ reader'   = [r \in Runs |-> IF r \in lost THEN "none" ELSE reader[r]]
  /\ piped'    = [r \in Runs |-> piped[r] /\ r \notin lost]

\* Only the web process: engines are reparented, zombies collected.
Crash(w) ==
  /\ web[w] # "down" /\ crashes < MaxCrashes
  /\ crashes' = crashes + 1
  /\ LoseMemory({w})
  /\ est' = [r \in Runs |-> IF owner[r] = w /\ Zombie(r) THEN "gone" ELSE est[r]]
  /\ UNCHANGED <<owner, dbVars, elvl, sig, rcOk, pid, file, foreign, dbFaults, engFaults>>

\* The host or the container: every process goes.
HostRestart ==
  /\ \E w \in Workers : web[w] # "down"
  /\ crashes < MaxCrashes
  /\ crashes' = crashes + 1
  /\ LoseMemory(Workers)
  /\ est' = [r \in Runs |-> IF Live(r) \/ Zombie(r) THEN "gone" ELSE est[r]]
  /\ foreign' = {}
  /\ UNCHANGED <<owner, dbVars, elvl, sig, rcOk, pid, file, dbFaults, engFaults>>

\* timeout_at passes, whatever the row says by then.
Expire(r) ==
  /\ rowStatus[r] # "absent" /\ ~due[r]
  /\ due' = [due EXCEPT ![r] = TRUE]
  /\ UNCHANGED <<webVars, reqVars, memVars, rowStatus, rowPid, recovery, abandoned, engVars,
                 envVars>>

ForeignStart(p) ==
  /\ ~PidInUse(p) /\ Cardinality(foreign) < MaxForeign
  /\ foreign' = foreign \cup {p}
  /\ UNCHANGED <<webVars, reqVars, memVars, dbVars, engVars, crashes, dbFaults, engFaults>>

ForeignExit(p) ==
  /\ p \in foreign
  /\ foreign' = foreign \ {p}
  /\ UNCHANGED <<webVars, reqVars, memVars, dbVars, engVars, crashes, dbFaults, engFaults>>

-----------------------------------------------------------------------------
StartNext(r) ==
  \/ \E p \in Pids : Spawn(r, p)
  \/ SpawnFails(r) \/ Register(r) \/ RecordStart(r) \/ RecordStartFails(r)

EngineNext(r) ==
  \/ EngineReady(r) \/ EngineSaveOpen(r) \/ EngineSaveClose(r) \/ EngineSaveFails(r)
  \/ EngineTerm(r) \/ EngineBrokenPipe(r) \/ EngineDies(r)

ReaderNext(r) ==
  \/ ReaderEof(r) \/ ReaderDecide(r) \/ ReaderPlugins(r) \/ ReaderPersist(r)
  \/ ReaderPersistFails(r)

RecoveryNext(w) ==
  \/ Boot(w) \/ ReadClock(w) \/ BootDone(w)
  \/ \E r \in Runs : \/ ReapAbandoned(w, r) \/ ReapReattach(w, r) \/ ReapDead(w, r)
                     \/ ReapReport(w, r) \/ WatchPoll(w, r) \/ WatchFinish(w, r)

UserNext(w) ==
  \/ \E r \in Runs, old \in SUBSET Evictable(w) : Admit(w, r, old)
  \/ \E r \in Runs : Reject(w, r)
  \/ \E old \in SUBSET Evictable(w) : ListRuns(w, old)

EnvNext ==
  \/ HostRestart
  \/ \E w \in Workers : Crash(w)
  \/ \E r \in Runs : Expire(r)
  \/ \E p \in Pids : ForeignStart(p) \/ ForeignExit(p)

\* Every run id is used up and every thread has finished: the only state in
\* which the model may stop.
AllQuiet ==
  /\ \A w \in Workers : web[w] = "up" /\ polling[w] = {} /\ watchEnd[w] = {}
  /\ \A r \in Runs : /\ req[r] \in {"done", "lost", "unrecorded"}
                     /\ reader[r] \in {"none", "done"}
  /\ UNCHANGED vars

Next ==
  \/ \E w \in Workers : UserNext(w) \/ RecoveryNext(w)
  \/ \E r \in Runs : \/ StartNext(r) \/ EngineNext(r) \/ ReaderNext(r)
                     \/ Stop(r) \/ StopKill(r)
  \/ EnvNext
  \/ AllQuiet

Spec == Init /\ [][Next]_vars

-----------------------------------------------------------------------------
(* Fairness.  Threads and processes are scheduled; a dead web process is     *)
(* restarted by its supervisor; users, faults, crashes and other programs    *)
(* owe nothing.  An engine whose pipe nobody drains may block for ever.      *)

Drained(r) == reader[r] = "draining" \/ ~piped[r]

EngineProgress(r) ==
  /\ Drained(r)
  /\ \/ EngineReady(r) \/ EngineSaveOpen(r) \/ EngineSaveClose(r)
     \/ EngineTerm(r) \/ EngineBrokenPipe(r)

ReaperStep(w) ==
  \E r \in Runs : ReapAbandoned(w, r) \/ ReapReattach(w, r) \/ ReapDead(w, r)
                  \/ ReapReport(w, r)

Fairness ==
  /\ \A r \in Runs :
       /\ WF_vars((\E p \in Pids : Spawn(r, p)) \/ Register(r) \/ RecordStart(r))
       /\ WF_vars(EngineProgress(r))
       /\ WF_vars(ReaderEof(r) \/ ReaderDecide(r) \/ ReaderPlugins(r) \/ ReaderPersist(r))
       /\ WF_vars(StopKill(r))
  /\ \A w \in Workers :
       /\ WF_vars(Boot(w) \/ ReadClock(w) \/ BootDone(w) \/ ReaperStep(w))
       /\ \A r \in Runs : WF_vars(WatchPoll(w, r) \/ WatchFinish(w, r))

FairSpec == Spec /\ Fairness

-----------------------------------------------------------------------------
TypeOK ==
  /\ web \in [Workers -> {"down", "booting", "reaping", "up"}]
  /\ todo \in [Workers -> SUBSET Runs]
  /\ late \in [Workers -> SUBSET Runs]
  /\ looking \in [Workers -> SUBSET Runs]
  /\ polling \in [Workers -> SUBSET Runs]
  /\ watchEnd \in [Workers -> SUBSET Runs]
  /\ req \in [Runs -> {"idle", "admitted", "spawned", "registered", "done",
                       "lost", "unrecorded"}]
  /\ owner \in [Runs -> Workers \cup {NoWorker}]
  /\ reg \in [Runs -> {"absent", "running"} \cup Terminal]
  /\ stopReq \in [Runs -> BOOLEAN]
  /\ stopper \subseteq Runs
  /\ reader \in [Runs -> {"none", "draining", "deciding", "plugins",
                          "persisting", "done"}]
  /\ rowStatus \in [Runs -> {"absent", "running"} \cup Terminal]
  /\ rowPid \in [Runs -> Pids \cup {NoPid}]
  /\ recovery \in [Runs -> {"null", "reattached", "reaped_completed",
                            "reaped_failed", "reaped_abandoned"}]
  /\ due \in [Runs -> BOOLEAN]
  /\ abandoned \subseteq Runs
  /\ est \in [Runs -> {"none", "booting", "computing", "saving", "zombie", "gone"}]
  /\ elvl \in [Runs -> 0..NStages]
  /\ sig \in [Runs -> {"no", "pending", "handled"}]
  /\ rcOk \in [Runs -> BOOLEAN]
  /\ pid \in [Runs -> Pids \cup {NoPid}]
  /\ piped \in [Runs -> BOOLEAN]
  /\ file \in [Runs -> {"missing", "truncated", "parses"}]
  /\ foreign \subseteq Pids
  /\ crashes \in Nat /\ dbFaults \in Nat /\ engFaults \in Nat

\* scan_history gives each run one life: a row appears as "running" and is
\* settled once.  Reader, reaper and watcher all write the status
\* unconditionally, so this rests on them never holding the same run.
Lifecycle == INSTANCE RunLifecycle WITH status <- rowStatus
RowsFollowLifecycle == Lifecycle!Spec

\* A run that its own Flask process reported "completed" has all its stages
\* in its report: return code 0 of an engine that was stopped on the way,
\* or whose save failed, never passes for success.
NormalCompletionIsComplete ==
  \A r \in Runs : rowStatus[r] = "completed" /\ recovery[r] = "null"
                     => file[r] = "parses" /\ elvl[r] = NStages

\* The verdicts of recovery are about an engine that can no longer change
\* them: it is gone, and what it left on disk is what the verdict says.  The
\* exception is a run that a reaper has abandoned by its deadline while the
\* engine lived: a second reaper, whose clock was read before the deadline,
\* finds the row without a pid and judges a live engine dead.  A watcher
\* knows its pid and is not misled even then.
ReaperVerdictsHold ==
  \A r \in Runs :
    /\ recovery[r] = "reattached" => ~Live(r) /\ ~ReportComplete(r)
    /\ recovery[r] = "reaped_failed" /\ r \notin abandoned => ~Live(r) /\ ~ReportComplete(r)
    /\ recovery[r] = "reaped_completed" /\ r \notin abandoned => ~Live(r) /\ ReportComplete(r)

\* No engine runs behind the back of scan_history: once its row exists, a
\* live engine has a running row, unless a reaper abandoned it by deadline.
LiveEngineIsTracked ==
  \A r \in Runs : Live(r) /\ req[r] = "done" => rowStatus[r] = "running" \/ r \in abandoned

\* An engine that the stop handler signalled never ends as "completed" or
\* "failed" in the registry: the flag is set before the signal is sent.
StopWins ==
  \A r \in Runs : sig[r] # "no" /\ reg[r] \in Terminal => reg[r] = "stopped"

ReaderBusy(r) == reader[r] \in {"draining", "deciding", "plugins", "persisting"}

Finishers(r) ==
  ({"reader"} \X {w \in Workers : owner[r] = w /\ ReaderBusy(r)})
  \cup ({"reaper"} \X {w \in Workers : r \in todo[w] \cup looking[w]})
  \cup ({"watcher"} \X {w \in Workers : r \in polling[w] \cup watchEnd[w]})

\* At most one thread - reader, reaper or watcher - is about to settle a run,
\* and only while its row is still running.
SoleFinisher ==
  \A r \in Runs :
    /\ \A a, b \in Finishers(r) : a = b
    /\ Finishers(r) # {} => rowStatus[r] = "running"

\* What GET /api/runs/<id>/status answers: the registry, else the row.
Visible(r) == IF reg[r] # "absent" THEN reg[r] ELSE rowStatus[r]

\* Without crashes and failed writes, a client that has seen a run end never
\* sees it in another state later, although the answer moves from the
\* registry to scan_history.
VisibleEndIsFinal ==
  [][\A r \in Runs : Visible(r) \in Terminal /\ crashes' = 0 /\ dbFaults' = 0
                        => Visible(r)' = Visible(r)]_vars

\* Every row that is running is eventually settled, across crashes.
RunsSettle == \A r \in Runs : rowStatus[r] = "running" ~> rowStatus[r] # "running"

\* The slot a run holds in the admission check is given back.
SlotIsFreed == \A r \in Runs : reg[r] = "running" ~> reg[r] # "running"

-----------------------------------------------------------------------------
(* What the documentation says and the code does not do.                    *)

\* docs/run-store-and-recovery.md: "reaped_completed" means that the report
\* file is complete.
ReapedCompletedHasAllStages ==
  \A r \in Runs : recovery[r] = "reaped_completed" => elvl[r] = NStages

\* docs/run-store-and-recovery.md: "reaped_failed" means that the pid is dead.
ReapedFailedIsDead == \A r \in Runs : recovery[r] = "reaped_failed" => ~Live(r)

\* README: an engine whose Flask process died "continues to completion".
OrphanRunsToCompletion ==
  [][\A r \in Runs : Live(r) /\ ~Live(r)' /\ sig[r] = "no" /\ web' = web
        => elvl'[r] = NStages /\ file'[r] = "parses"]_vars

\* docs/run-store-and-recovery.md: in db mode the concurrency check "queries
\* scan_history directly", so the running rows stay within the limit.
RunningWithinLimit == Cardinality({r \in Runs : rowStatus[r] = "running"}) <= ScanLimit
=============================================================================
