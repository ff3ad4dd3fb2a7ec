----------------------------- MODULE ChunkedScan -----------------------------
(***************************************************************************)
(* A scan of a large capture: one row of scan_history, one supervisor       *)
(* thread (_chunked_reader) and a sequence of child processes.              *)
(*                                                                          *)
(* editcap splits the capture, one engine dissects each chunk, the           *)
(* supervisor merges what they found, and a last engine builds the report.  *)
(* A stop, a crash of the web process and the boot-time reaper can fall     *)
(* between any two of these steps.  ScanRun has admission, several runs and *)
(* the reuse of pids; here there is one run, and every child has its own    *)
(* pid, written as the number of its job.                                   *)
(***************************************************************************)
EXTENDS Naturals, FiniteSets

CONSTANTS
  MaxChunks,     \* bound: chunk files that editcap may leave
  MaxFaults,     \* bound: children that fail, hang or cannot be started
  MaxDbFaults,   \* bound: failed writes to scan_history
  MaxCrashes     \* bound: deaths of the web process

ASSUME ChunkedAssumption ==
  /\ MaxChunks \in Nat \ {0}
  /\ MaxFaults \in Nat /\ MaxDbFaults \in Nat /\ MaxCrashes \in Nat

NoJob  == MaxChunks + 2
Split  == 0
Chunks == 1..MaxChunks
Final  == MaxChunks + 1
Jobs   == 0..Final

VARIABLES
  web,        \* "up", "down" or "booting"
  pc,         \* the supervisor thread
  job,        \* the child it runs or ran last
  handle,     \* run_state["process"] is that child
  flag,       \* run_state["stop_requested"]
  stopping,   \* the child a stop request is waiting for, up to 8 s
  decided,    \* run_state["status"] as _finalize_run leaves it
  child, sig, childOk, piped,   \* the current child process
  found,      \* chunk files that editcap left
  dissected,  \* chunks with a dissect report
  merged,     \* chunks in merged-conversations.json
  report, level,                \* the run's report and the stages in it
  rowStatus, rowPid, recovery,  \* the scan_history row
  due,        \* its timeout_at has passed
  watching,   \* the child a recovery watcher polls
  late,       \* auxiliary: children started after the first stop
  faults, dbFaults, crashes

supVars  == <<pc, job, handle, decided>>
stopVars == <<flag, stopping>>
procVars == <<child, sig, childOk, piped>>
dataVars == <<found, dissected, merged, report, level>>
rowVars  == <<rowStatus, rowPid, recovery, due>>
auxVars  == <<late, faults, dbFaults, crashes>>
vars == <<web, supVars, stopVars, procVars, dataVars, rowVars, watching, auxVars>>

Terminal == {"completed", "failed", "stopped"}

Init ==
  /\ web = "up" /\ pc = "idle" /\ job = Split /\ handle = FALSE
  /\ flag = FALSE /\ stopping = NoJob /\ decided = "running"
  /\ child = "none" /\ sig = "no" /\ childOk = FALSE /\ piped = FALSE
  /\ found = 0 /\ dissected = {} /\ merged = {}
  /\ report = "missing" /\ level = 0
  /\ rowStatus = "absent" /\ rowPid = NoJob /\ recovery = "null" /\ due = FALSE
  /\ watching = NoJob
  /\ late = 0 /\ faults = 0 /\ dbFaults = 0 /\ crashes = 0

Live == child \in {"live", "hung"}

-----------------------------------------------------------------------------
(* The supervisor, _chunked_reader.                                         *)

\* The row is written before there is a child, so without a pid.
Start ==
  /\ web = "up" /\ pc = "idle"
  /\ pc' = "spawn"
  /\ rowStatus' = "running"
  /\ UNCHANGED <<web, job, handle, decided, stopVars, procVars, dataVars, rowPid,
                 recovery, due, watching, auxVars>>

\* _run_child: Popen, then the handle, then update_pid.
Spawn ==
  /\ pc = "spawn"
  /\ pc' = "attach"
  /\ child' = "live" /\ sig' = "no" /\ childOk' = FALSE /\ piped' = TRUE
  /\ late' = IF flag THEN late + 1 ELSE late
  /\ UNCHANGED <<web, job, handle, decided, stopVars, dataVars, rowVars, watching,
                 faults, dbFaults, crashes>>

SpawnFails ==
  /\ pc = "spawn" /\ faults < MaxFaults
  /\ faults' = faults + 1
  /\ pc' = "decide" /\ childOk' = FALSE
  /\ UNCHANGED <<web, job, handle, decided, stopVars, child, sig, piped, dataVars,
                 rowVars, watching, late, dbFaults, crashes>>

Attach ==
  /\ pc = "attach"
  /\ pc' = "track" /\ handle' = TRUE
  /\ UNCHANGED <<web, job, decided, stopVars, procVars, dataVars, rowVars, watching, auxVars>>

\* A failed update_pid is swallowed.
Track ==
  /\ pc = "track"
  /\ pc' = "drain"
  /\ \/ rowPid' = job /\ UNCHANGED dbFaults
     \/ dbFaults < MaxDbFaults /\ dbFaults' = dbFaults + 1 /\ UNCHANGED rowPid
  /\ UNCHANGED <<web, job, handle, decided, stopVars, procVars, dataVars, rowStatus,
                 recovery, due, watching, late, faults, crashes>>

\* End of stdout, wait(), and the handle is cleared.  The last child is not
\* looked at again: its return code is the run's.
Drain ==
  /\ pc = "drain" /\ child \in {"zombie", "gone"}
  /\ child' = "gone" /\ handle' = FALSE
  /\ pc' = IF job = Final THEN "decide" ELSE "judge"
  /\ UNCHANGED <<web, job, decided, stopVars, sig, childOk, piped, dataVars, rowVars,
                 watching, auxVars>>

Fails == pc' = "decide" /\ childOk' = FALSE /\ UNCHANGED job

\* Mutation: only return codes decide.
ProceedAnyway(onward) == onward

\* The flag is looked at before anything else at each of these steps.
Proceed(onward) == IF flag THEN Fails ELSE onward

\* Mutation: a chunk whose dissection failed is skipped.
JudgedLeniently == job = Split => childOk /\ found > 0

\* Return code, chunk files, and the chunk's report.
Judged ==
  /\ childOk
  /\ job = Split => found > 0
  /\ job \in Chunks => job \in dissected

Judge ==
  /\ pc = "judge"
  /\ Proceed(IF Judged THEN pc' = "head" /\ UNCHANGED <<job, childOk>> ELSE Fails)
  /\ UNCHANGED <<web, handle, decided, stopVars, child, sig, piped, dataVars, rowVars,
                 watching, auxVars>>

\* The head of the loop over the chunk files, and the look after it.
Head ==
  /\ pc = "head"
  /\ Proceed(/\ IF job < found THEN job' = job + 1 /\ pc' = "spawn"
                               ELSE pc' = "merge" /\ UNCHANGED job
             /\ UNCHANGED childOk)
  /\ UNCHANGED <<web, handle, decided, stopVars, child, sig, piped, dataVars, rowVars,
                 watching, auxVars>>

\* _merge_chunk_conversations over the reports of the loop.
Merge ==
  /\ pc = "merge"
  /\ pc' = "gate"
  /\ merged' = dissected
  /\ UNCHANGED <<web, job, handle, decided, stopVars, procVars, found, dissected, report,
                 level, rowVars, watching, auxVars>>

Gate ==
  /\ pc = "gate"
  /\ Proceed(job' = Final /\ pc' = "spawn" /\ UNCHANGED childOk)
  /\ UNCHANGED <<web, handle, decided, stopVars, child, sig, piped, dataVars, rowVars,
                 watching, auxVars>>

\* The finally clause and the first half of _finalize_run.
Decide ==
  /\ pc = "decide"
  /\ decided' = IF flag THEN "stopped" ELSE IF childOk THEN "running" ELSE "failed"
  /\ pc' = IF ~flag /\ childOk THEN "plugins" ELSE "persist"
  /\ UNCHANGED <<web, job, handle, stopVars, procVars, dataVars, rowVars, watching, auxVars>>

Plugins ==
  /\ pc = "plugins"
  /\ decided' = "completed" /\ pc' = "persist"
  /\ UNCHANGED <<web, job, handle, stopVars, procVars, dataVars, rowVars, watching, auxVars>>

\* _finalize_scan_history; a failed commit is swallowed.
Persist ==
  /\ pc = "persist"
  /\ pc' = "done"
  /\ \/ rowStatus' = decided /\ UNCHANGED dbFaults
     \/ dbFaults < MaxDbFaults /\ dbFaults' = dbFaults + 1 /\ UNCHANGED rowStatus
  /\ UNCHANGED <<web, job, handle, decided, stopVars, procVars, dataVars, rowPid, recovery,
                 due, watching, late, faults, crashes>>

-----------------------------------------------------------------------------
(* api_run_stop.  It waits for the child it found, not for a later one.     *)

Stop ==
  /\ web = "up" /\ pc \notin {"idle", "dead"}
  /\ stopping = NoJob
  /\ flag' = TRUE
  /\ IF handle /\ Live
     THEN /\ stopping' = job
          /\ sig' = IF sig = "no" THEN "pending" ELSE sig
     ELSE UNCHANGED <<stopping, sig>>
  /\ UNCHANGED <<web, supVars, child, childOk, piped, dataVars, rowVars, watching, auxVars>>

Exit(ok) ==
  /\ child' = IF piped THEN "zombie" ELSE "gone"
  /\ childOk' = ok

\* Mutation: terminate() without the kill() after 8 s.
StopGivesUp ==
  /\ stopping # NoJob
  /\ stopping' = NoJob
  /\ UNCHANGED <<web, supVars, flag, procVars, dataVars, rowVars, watching, auxVars>>

StopKill ==
  /\ stopping # NoJob
  /\ stopping' = NoJob
  /\ IF stopping = job /\ Live THEN Exit(FALSE) ELSE UNCHANGED <<child, childOk>>
  /\ UNCHANGED <<web, supVars, flag, sig, piped, dataVars, rowVars, watching, auxVars>>

-----------------------------------------------------------------------------
(* The children.  Only the last one handles SIGTERM.                        *)

\* editcap leaves its files, which may be none, and ends.
SplitEnds ==
  /\ child = "live" /\ job = Split /\ sig = "no"
  /\ found' \in 0..MaxChunks
  /\ Exit(TRUE)
  /\ UNCHANGED <<web, supVars, stopVars, sig, piped, dissected, merged, report, level,
                 rowVars, watching, auxVars>>

\* run_dissect saves its report, goes on printing, and ends.
ChunkSaves ==
  /\ child = "live" /\ job \in Chunks /\ job \notin dissected
  /\ dissected' = dissected \cup {job}
  /\ UNCHANGED <<web, supVars, stopVars, procVars, found, merged, report, level, rowVars,
                 watching, auxVars>>

ChunkEnds ==
  /\ child = "live" /\ job \in dissected /\ piped
  /\ Exit(TRUE)
  /\ UNCHANGED <<web, supVars, stopVars, sig, piped, dataVars, rowVars, watching, auxVars>>

\* run_chain_from_conversations: two saves in place.
FinalOpens ==
  /\ child = "live" /\ job = Final /\ level < 2 /\ report # "torn"
  /\ report' = "torn"
  /\ UNCHANGED <<web, supVars, stopVars, procVars, found, dissected, merged, level, rowVars,
                 watching, auxVars>>

FinalSaves ==
  /\ child = "live" /\ job = Final /\ report = "torn"
  /\ report' = "parses" /\ level' = level + 1
  /\ UNCHANGED <<web, supVars, stopVars, procVars, found, dissected, merged, rowVars,
                 watching, auxVars>>

FinalEnds ==
  /\ child = "live" /\ job = Final /\ piped /\ report # "torn"
  /\ level = 2 \/ sig = "handled"
  /\ Exit(TRUE)
  /\ UNCHANGED <<web, supVars, stopVars, sig, piped, dataVars, rowVars, watching, auxVars>>

\* _shutdown_handler saves what there is; without it SIGTERM kills.
ChildTerm ==
  /\ child = "live" /\ sig = "pending"
  /\ sig' = "handled"
  /\ \/ /\ job = Final /\ report' = "parses"
        /\ UNCHANGED <<child, childOk, level>>
     \/ /\ job # Final \/ (level = 0 /\ report = "missing")
        /\ Exit(FALSE)
        /\ UNCHANGED <<report, level>>
  /\ UNCHANGED <<web, supVars, stopVars, piped, found, dissected, merged, rowVars, watching,
                 auxVars>>

\* Nobody reads its stdout any more.
ChildBrokenPipe ==
  /\ child = "live" /\ ~piped
  /\ Exit(FALSE)
  /\ UNCHANGED <<web, supVars, stopVars, sig, piped, dataVars, rowVars, watching, auxVars>>

ChildFails ==
  /\ child = "live" /\ faults < MaxFaults
  /\ faults' = faults + 1
  /\ Exit(FALSE) \/ (child' = "hung" /\ UNCHANGED childOk)
  /\ UNCHANGED <<web, supVars, stopVars, sig, piped, dataVars, rowVars, watching, late,
                 dbFaults, crashes>>

-----------------------------------------------------------------------------
(* Crash, boot and recovery.                                                *)

Crash ==
  /\ web # "down" /\ crashes < MaxCrashes
  /\ crashes' = crashes + 1
  /\ web' = "down"
  /\ pc' = IF pc = "idle" THEN "idle" ELSE "dead"
  /\ handle' = FALSE /\ flag' = FALSE /\ stopping' = NoJob /\ piped' = FALSE
  /\ child' = IF child = "zombie" THEN "gone" ELSE child
  /\ watching' = NoJob
  /\ UNCHANGED <<job, decided, sig, childOk, dataVars, rowVars, late, faults, dbFaults>>

Boot ==
  /\ web = "down"
  /\ web' = "booting"
  /\ UNCHANGED <<supVars, stopVars, procVars, dataVars, rowVars, watching, auxVars>>

\* Mutation: rows of any status are looked at.
ReapsAnyRow == rowStatus # "absent"

ToReap == rowStatus = "running"

\* The row names this child and it is still there: pid and argv agree.
RowChildAlive == rowPid = job /\ Live

ReportComplete == report = "parses"

\* timeout_at passes; only the reaper looks at it.
Expire ==
  /\ rowStatus = "running" /\ ~due
  /\ due' = TRUE
  /\ UNCHANGED <<web, supVars, stopVars, procVars, dataVars, rowStatus, rowPid, recovery,
                 watching, auxVars>>

\* Mutation: status and recovery_state swapped.
FinishSwapped(status, how) ==
  /\ rowStatus' = how /\ recovery' = status /\ rowPid' = NoJob
  /\ UNCHANGED <<due, dbFaults>>

\* record_finish; its failure is swallowed.
Finish(status, how) ==
  \/ /\ rowStatus' = status /\ recovery' = how /\ rowPid' = NoJob
     /\ UNCHANGED <<due, dbFaults>>
  \/ /\ dbFaults < MaxDbFaults /\ dbFaults' = dbFaults + 1
     /\ UNCHANGED rowVars

FinishFromReport(how) ==
  \/ ReportComplete /\ Finish("completed", "reaped_completed")
  \/ ~ReportComplete /\ Finish("failed", how)

\* The deadline comes first, then the child, then the report.
Reap ==
  /\ web = "booting"
  /\ web' = "up"
  /\ \/ ~ToReap /\ UNCHANGED <<rowVars, dbFaults>>
     \/ ToReap /\ due /\ Finish("failed", "reaped_abandoned")
     \/ ToReap /\ ~due /\ RowChildAlive /\ UNCHANGED <<rowVars, dbFaults>>
     \/ ToReap /\ ~due /\ ~RowChildAlive /\ FinishFromReport("reaped_failed")
  /\ watching' = IF ToReap /\ ~due /\ RowChildAlive THEN rowPid ELSE NoJob
  /\ UNCHANGED <<supVars, stopVars, procVars, dataVars, late, faults, crashes>>

WatchEnds ==
  /\ watching # NoJob /\ ~Live
  /\ watching' = NoJob
  /\ FinishFromReport("reattached")
  /\ UNCHANGED <<web, supVars, stopVars, procVars, dataVars, late, faults, crashes>>

-----------------------------------------------------------------------------
SupervisorNext ==
  \/ Spawn \/ Attach \/ Track \/ Drain \/ Judge \/ Head \/ Merge \/ Gate
  \/ Decide \/ Plugins \/ Persist

ChildNext ==
  \/ SplitEnds \/ ChunkSaves \/ ChunkEnds \/ FinalOpens \/ FinalSaves \/ FinalEnds
  \/ ChildTerm \/ ChildBrokenPipe

Settled ==
  /\ pc \in {"done", "dead"} /\ web = "up" /\ child # "live"
  /\ UNCHANGED vars

Next ==
  \/ Start \/ SupervisorNext \/ SpawnFails
  \/ Stop \/ StopKill
  \/ ChildNext \/ ChildFails
  \/ Crash \/ Boot \/ Reap \/ WatchEnds \/ Expire
  \/ Settled

Spec == Init /\ [][Next]_vars

\* Threads and children are scheduled, a dead web process is restarted, and a
\* stop request that waits ends its wait; users, faults and crashes owe
\* nothing, and a hung child does not move.
Fairness ==
  /\ WF_vars(SupervisorNext) /\ WF_vars(ChildNext) /\ WF_vars(StopKill)
  /\ WF_vars(Boot \/ Reap) /\ WF_vars(WatchEnds)

FairSpec == Spec /\ Fairness

-----------------------------------------------------------------------------
ThreadsOK ==
  /\ web \in {"up", "down", "booting"}
  /\ pc \in {"idle", "spawn", "attach", "track", "drain", "judge", "head", "merge",
             "gate", "decide", "plugins", "persist", "done", "dead"}
  /\ child \in {"none", "live", "hung", "zombie", "gone"}
  /\ sig \in {"no", "pending", "handled"}
  /\ handle \in BOOLEAN /\ flag \in BOOLEAN /\ childOk \in BOOLEAN /\ piped \in BOOLEAN

WorkOK ==
  /\ job \in Jobs /\ stopping \in Jobs \cup {NoJob}
  /\ found \in 0..MaxChunks /\ dissected \subseteq Chunks /\ merged \subseteq Chunks
  /\ report \in {"missing", "torn", "parses"} /\ level \in 0..2
  /\ report = "torn" => level < 2
  /\ late \in Nat /\ faults \in Nat /\ dbFaults \in Nat /\ crashes \in Nat

RowOK ==
  /\ decided \in {"running"} \cup Terminal
  /\ rowStatus \in {"absent", "running"} \cup Terminal
  /\ recovery \in {"null", "reattached", "reaped_completed", "reaped_failed",
                  "reaped_abandoned"}
  /\ due \in BOOLEAN
  /\ rowPid \in Jobs \cup {NoJob} /\ watching \in Jobs \cup {NoJob}

\* Threads, jobs and chunks, and the row stay within their values; a row has a
\* recovery_state of its column and names a child or none.
TypeOK == ThreadsOK /\ WorkOK /\ RowOK

\* A stop may fall into the gap between two children, where there is no
\* process to signal; at most one more child is started after it.
OneChildAfterStop == late <= 1

\* The report exists only once every chunk that editcap left has been
\* dissected and merged, so neither a failed chunk nor a crash, and neither
\* supervisor, reaper nor watcher, can turn a part of a capture into a
\* completed run.
ReportHasEveryChunk ==
  report # "missing" \/ rowStatus = "completed" => merged = 1..found /\ found > 0

\* The one row of the many processes is settled once.
Lifecycle == INSTANCE RunLifecycle
               WITH Runs <- {"run"}, status <- [r \in {"run"} |-> rowStatus]
RowFollowsLifecycle == Lifecycle!Spec

\* A stop that found a child ends the run, whatever that child does: one that
\* hangs is killed, and the supervisor's own bookkeeping cannot hold it up.
StopEndsRun == stopping # NoJob ~> pc \in {"done", "dead"}

\* docs/run-store-and-recovery.md: update_pid() is called at each spawn, "so
\* recovery sees the currently-running child"; a run it gives up is dead.
ReapedRunIsDead == recovery = "reaped_failed" => ~Live
=============================================================================
