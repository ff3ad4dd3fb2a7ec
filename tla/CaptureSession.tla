--------------------------- MODULE CaptureSession ---------------------------
(***************************************************************************)
(* Live capture: start and stop requests of the web process, the capture    *)
(* daemon capd and its dumpcap processes, and the StatsHub thread that      *)
(* hands each rotated file to the rotation consumer.                        *)
(*                                                                          *)
(* The web process keeps locks and hubs in memory, capture_sessions is the  *)
(* durable record, and capd keeps its sessions in memory.  Requests and     *)
(* answers travel over a unix socket; either side can die or stop waiting.  *)
(***************************************************************************)
EXTENDS Naturals, FiniteSets, FiniteSetsExt

CONSTANTS
  Sessions,        \* session uuids; each is started once
  NoSession,
  Interfaces, AnyDevice, \* the "any" pseudo-device captures from all of them
  Clicks,          \* stop requests that can be under way for one session
  MaxConcurrent,   \* LIVE_CAPTURE_MAX_CONCURRENT
  MaxFiles,        \* bound: files dumpcap writes in one session
  RingFiles,       \* ring_files: how many of them stay on disk
  MaxWebCrashes, MaxCapdCrashes,  \* bounds: deaths of either process
  MaxTimeouts      \* bound: requests that give up waiting for capd

ASSUME CaptureAssumption ==
  /\ NoSession \notin Sessions
  /\ AnyDevice \in Interfaces
  /\ MaxConcurrent \in Nat
  /\ MaxFiles \in Nat /\ RingFiles \in Nat \ {0}
  /\ MaxWebCrashes \in Nat /\ MaxCapdCrashes \in Nat /\ MaxTimeouts \in Nat

VARIABLES
  start,      \* each session: how far its start request got
  iface,      \* each session: the interface it asked for
  stop,       \* each session and click: how far that stop request got
  row,        \* each session: status of its capture_sessions row
  lock,       \* _iface_locks
  hubs,       \* _hubs: the sessions with a registered StatsHub
  hub,        \* each session: its StatsHub thread
  hubStop,    \* sessions whose hub was told to stop
  frame,      \* each session: the stats frame under way to the hub
  cut,        \* sessions whose stats connection was cut by capd's end
  scans,      \* each session: how often each file was handed to the consumer
  capdUp,     \* capd is running
  sess,       \* capd's _sessions
  startRpc,   \* each session: the start call
  stopRpc,    \* each session and click: the stop call
  strm,       \* sessions with a stats coroutine in capd
  dump,       \* each session: its dumpcap process
  files,      \* each session: files dumpcap has opened so far
  prev,       \* each session: _previous_active, 0 for None
  emitted,    \* each session: _closed_emitted
  early,      \* auxiliary: sessions whose stop reached capd before their start
  webCrashes, capdCrashes, timeouts   \* bounded counters

reqVars  == <<start, iface, stop, row>>
webVars  == <<lock, hubs, hub, hubStop, frame, cut, scans>>
capdVars == <<capdUp, sess, strm>>
rpcVars  == <<startRpc, stopRpc>>
dumpVars == <<dump, files>>
supVars  == <<prev, emitted>>
envVars  == <<early, webCrashes, capdCrashes, timeouts>>
vars     == <<reqVars, webVars, capdVars, rpcVars, dumpVars, supVars, envVars>>

NoFrame == [closed |-> {}, running |-> TRUE, sent |-> FALSE]

Init ==
  /\ start = [s \in Sessions |-> "idle"]
  /\ iface \in [Sessions -> Interfaces]
  /\ stop  = [k \in Sessions \X Clicks |-> "idle"]
  /\ row   = [s \in Sessions |-> "absent"]
  /\ lock  = [i \in Interfaces |-> NoSession]
  /\ hubs = {} /\ hubStop = {} /\ cut = {}
  /\ hub   = [s \in Sessions |-> "none"]
  /\ frame = [s \in Sessions |-> NoFrame]
  /\ scans = [k \in Sessions \X (1..MaxFiles) |-> 0]
  /\ capdUp = TRUE /\ sess = {} /\ strm = {}
  /\ startRpc = [s \in Sessions |-> "none"]
  /\ stopRpc  = [k \in Sessions \X Clicks |-> "none"]
  /\ dump  = [s \in Sessions |-> "none"]
  /\ files = [s \in Sessions |-> 0]
  /\ prev  = [s \in Sessions |-> 0]
  /\ emitted = [s \in Sessions |-> {}]
  /\ early = {} /\ webCrashes = 0 /\ capdCrashes = 0 /\ timeouts = 0

\* A stop call that capd has not answered yet.
CapdStopping == {"sent", "found", "killed", "closed"}

-----------------------------------------------------------------------------
(* CaptureSessionManager.                                                   *)

ActiveSessions == {s \in hubs : hub[s] \in {"starting", "open"}}

\* Mutation: `any` counts as an interface like the others.
SameInterfaceFree(i, s) == lock[i] \in {NoSession, s}

\* The `any` device excludes every other interface, and the reverse.
InterfaceFree(i, s) ==
  /\ lock[i] \in {NoSession, s}
  /\ i = AnyDevice => \A k \in Interfaces \ {AnyDevice} : lock[k] = NoSession
  /\ i # AnyDevice => lock[AnyDevice] = NoSession

ReleaseInterface(s) ==
  lock' = [lock EXCEPT ![iface[s]] = IF @ = s THEN NoSession ELSE @]

-----------------------------------------------------------------------------
(* start_session, after its policy gates.                                   *)

StartCheck(s) ==
  /\ start[s] = "idle"
  /\ Cardinality(ActiveSessions) < MaxConcurrent
  /\ start' = [start EXCEPT ![s] = "checked"]
  /\ UNCHANGED <<iface, stop, row, webVars, capdVars, rpcVars, dumpVars, supVars, envVars>>

\* acquire_interface; on a conflict the request ends with 409.
StartLock(s) ==
  /\ start[s] = "checked"
  /\ IF InterfaceFree(iface[s], s)
     THEN /\ lock'  = [lock EXCEPT ![iface[s]] = s]
          /\ start' = [start EXCEPT ![s] = "locked"]
     ELSE start' = [start EXCEPT ![s] = "done"] /\ UNCHANGED lock
  /\ UNCHANGED <<iface, stop, row, hubs, hub, hubStop, frame, cut, scans,
                 capdVars, rpcVars, dumpVars, supVars, envVars>>

\* The row is committed before capd is asked.
StartAsk(s) ==
  /\ start[s] = "locked"
  /\ start'    = [start EXCEPT ![s] = "asked"]
  /\ row'      = [row EXCEPT ![s] = "pending"]
  /\ startRpc' = [startRpc EXCEPT ![s] = IF capdUp THEN "sent" ELSE "err"]
  /\ UNCHANGED <<iface, stop, webVars, capdVars, stopRpc, dumpVars, supVars, envVars>>

StartCommit(s) ==
  /\ start[s] = "asked" /\ startRpc[s] = "ok"
  /\ start' = [start EXCEPT ![s] = "hooking"]
  /\ row'   = [row EXCEPT ![s] = "running"]
  /\ UNCHANGED <<iface, stop, webVars, capdVars, rpcVars, dumpVars, supVars, envVars>>

StartHub(s) ==
  /\ start[s] = "hooking"
  /\ start' = [start EXCEPT ![s] = "done"]
  /\ hubs'  = hubs \cup {s}
  /\ hub'   = [hub EXCEPT ![s] = "starting"]
  /\ UNCHANGED <<iface, stop, row, lock, hubStop, frame, cut, scans,
                 capdVars, rpcVars, dumpVars, supVars, envVars>>

StartFail(s) ==
  /\ start[s] = "asked" /\ startRpc[s] = "err"
  /\ start' = [start EXCEPT ![s] = "failing"]
  /\ row'   = [row EXCEPT ![s] = "failed"]
  /\ UNCHANGED <<iface, stop, webVars, capdVars, rpcVars, dumpVars, supVars, envVars>>

StartRelease(s) ==
  /\ start[s] = "failing"
  /\ start' = [start EXCEPT ![s] = "done"]
  /\ ReleaseInterface(s)
  /\ UNCHANGED <<iface, stop, row, hubs, hub, hubStop, frame, cut, scans,
                 capdVars, rpcVars, dumpVars, supVars, envVars>>

\* A timeout or a reset of the socket is neither of the two exceptions the
\* handler knows: the request ends with 500, the row stays pending and the
\* interface locked.
StartRaises(s) ==
  /\ start[s] = "asked"
  /\ \/ startRpc[s] = "reset" /\ UNCHANGED timeouts
     \/ startRpc[s] = "sent" /\ timeouts < MaxTimeouts /\ timeouts' = timeouts + 1
  /\ start' = [start EXCEPT ![s] = "done"]
  /\ UNCHANGED <<iface, stop, row, webVars, capdVars, rpcVars, dumpVars, supVars,
                 early, webCrashes, capdCrashes>>

-----------------------------------------------------------------------------
(* stop_session.                                                            *)

StopCheck(s, c) ==
  /\ stop[<<s, c>>] = "idle" /\ row[s] \in {"running", "pending"}
  /\ stop' = [stop EXCEPT ![<<s, c>>] = "checked"]
  /\ UNCHANGED <<start, iface, row, webVars, capdVars, rpcVars, dumpVars, supVars, envVars>>

StopMark(s, c) ==
  /\ stop[<<s, c>>] = "checked"
  /\ stop' = [stop EXCEPT ![<<s, c>>] = "marked"]
  /\ row'  = [row EXCEPT ![s] = "stopping"]
  /\ UNCHANGED <<start, iface, webVars, capdVars, rpcVars, dumpVars, supVars, envVars>>

StopAsk(s, c) ==
  /\ stop[<<s, c>>] = "marked"
  /\ stop'    = [stop EXCEPT ![<<s, c>>] = "asked"]
  /\ stopRpc' = [stopRpc EXCEPT ![<<s, c>>] = IF capdUp THEN "sent" ELSE "err"]
  /\ UNCHANGED <<start, iface, row, webVars, capdVars, startRpc, dumpVars, supVars,
                 envVars>>

StopCommit(s, c) ==
  /\ stop[<<s, c>>] = "asked" /\ stopRpc[<<s, c>>] = "ok"
  /\ stop' = [stop EXCEPT ![<<s, c>>] = "stopped"]
  /\ row'  = [row EXCEPT ![s] = "stopped"]
  /\ UNCHANGED <<start, iface, webVars, capdVars, rpcVars, dumpVars, supVars, envVars>>

\* Mutation: a status the rest of the program does not know.
StopFailAsError(s, c) ==
  /\ stop[<<s, c>>] = "asked" /\ stopRpc[<<s, c>>] = "err"
  /\ stop' = [stop EXCEPT ![<<s, c>>] = "failed"]
  /\ row'  = [row EXCEPT ![s] = "error"]
  /\ UNCHANGED <<start, iface, webVars, capdVars, rpcVars, dumpVars, supVars, envVars>>

StopFail(s, c) ==
  /\ stop[<<s, c>>] = "asked" /\ stopRpc[<<s, c>>] = "err"
  /\ stop' = [stop EXCEPT ![<<s, c>>] = "failed"]
  /\ row'  = [row EXCEPT ![s] = "failed"]
  /\ UNCHANGED <<start, iface, webVars, capdVars, rpcVars, dumpVars, supVars, envVars>>

\* The lock goes and the hub is dropped; only a clean stop shuts it down.
StopTearDown(s, c) ==
  /\ stop[<<s, c>>] \in {"stopped", "failed"}
  /\ stop'    = [stop EXCEPT ![<<s, c>>] = "done"]
  /\ hubs'    = hubs \ {s}
  /\ hubStop' = IF stop[<<s, c>>] = "stopped" THEN hubStop \cup ({s} \cap hubs) ELSE hubStop
  /\ ReleaseInterface(s)
  /\ UNCHANGED <<start, iface, row, hub, frame, cut, scans, capdVars, rpcVars,
                 dumpVars, supVars, envVars>>

\* As for start: 500, and the row stays "stopping", which no later request
\* accepts.
StopRaises(s, c) ==
  /\ stop[<<s, c>>] = "asked"
  /\ \/ stopRpc[<<s, c>>] = "reset" /\ UNCHANGED timeouts
     \/ /\ stopRpc[<<s, c>>] \in CapdStopping
        /\ timeouts < MaxTimeouts /\ timeouts' = timeouts + 1
  /\ stop' = [stop EXCEPT ![<<s, c>>] = "done"]
  /\ UNCHANGED <<start, iface, row, webVars, capdVars, rpcVars, dumpVars, supVars,
                 early, webCrashes, capdCrashes>>

-----------------------------------------------------------------------------
(* dumpcap, and what the supervisor sees of its files.                      *)

OnDisk(s) == {f \in 1..files[s] : f + RingFiles > files[s]}

Rotate(s) ==
  /\ dump[s] = "live" /\ files[s] < MaxFiles
  /\ files' = [files EXCEPT ![s] = @ + 1]
  /\ UNCHANGED <<reqVars, webVars, capdVars, rpcVars, dump, supVars, envVars>>

\* The duration cap, an error, or the network going away.
DumpExits(s) ==
  /\ dump[s] = "live"
  /\ dump' = [dump EXCEPT ![s] = "dead"]
  /\ UNCHANGED <<reqVars, webVars, capdVars, rpcVars, files, supVars, envVars>>

\* The newest file on disk is the active one; 0 if there is none.
ActiveFile(s) == Max(OnDisk(s) \cup {0})

\* Mutation: the active file is not told apart from the others.
EveryFileOnDisk(s, finalize) == OnDisk(s) \ emitted[s]

\* _snapshot: what is no longer the newest file is closed, and on finalize
\* that one too.
NewlyClosed(s, finalize) ==
  ((OnDisk(s) \ {ActiveFile(s)})
   \cup ({prev[s]} \ {0, ActiveFile(s)})
   \cup (IF finalize THEN {ActiveFile(s)} \ {0} ELSE {})) \ emitted[s]

\* Mutation: the list of emitted files is not kept.
SnapshotForgets(s, finalize) ==
  /\ prev'    = [prev EXCEPT ![s] = ActiveFile(s)]
  /\ UNCHANGED emitted

Snapshot(s, finalize) ==
  /\ prev'    = [prev EXCEPT ![s] = ActiveFile(s)]
  /\ emitted' = [emitted EXCEPT ![s] = @ \cup NewlyClosed(s, finalize)]

-----------------------------------------------------------------------------
(* capd: _start_session, _stop_session, _stream_stats.                      *)

\* It refuses a bad filter, an unknown interface or a dumpcap that will not
\* start; it knows sessions, not interfaces.
CapdStart(s) ==
  /\ capdUp /\ startRpc[s] = "sent"
  /\ \/ /\ startRpc' = [startRpc EXCEPT ![s] = "ok"]
        /\ sess' = sess \cup {s}
        /\ dump' = [dump EXCEPT ![s] = "live"]
     \/ /\ startRpc' = [startRpc EXCEPT ![s] = "err"]
        /\ UNCHANGED <<sess, dump>>
  /\ UNCHANGED <<reqVars, webVars, capdUp, strm, stopRpc, files, supVars, envVars>>

CapdStopFind(s, c) ==
  /\ stopRpc[<<s, c>>] = "sent"
  /\ stopRpc' = [stopRpc EXCEPT ![<<s, c>>] = IF s \in sess THEN "found" ELSE "err"]
  /\ early'   = early \cup ({s} \cap {t \in Sessions : startRpc[t] = "sent"})
  /\ UNCHANGED <<reqVars, webVars, capdVars, startRpc, dumpVars, supVars,
                 webCrashes, capdCrashes, timeouts>>

\* Mutation: the answer does not wait for dumpcap.
StopDoesNotWait(s, c) ==
  /\ stopRpc[<<s, c>>] = "found"
  /\ stopRpc' = [stopRpc EXCEPT ![<<s, c>>] = "killed"]
  /\ UNCHANGED <<reqVars, webVars, capdVars, startRpc, dumpVars, supVars, envVars>>

\* SIGINT, wait, SIGKILL.
CapdStopKill(s, c) ==
  /\ stopRpc[<<s, c>>] = "found"
  /\ stopRpc' = [stopRpc EXCEPT ![<<s, c>>] = "killed"]
  /\ dump'    = [dump EXCEPT ![s] = "dead"]
  /\ UNCHANGED <<reqVars, webVars, capdVars, startRpc, files, supVars, envVars>>

\* The files this snapshot finds go into the answer, not into the stream.
CapdStopSnapshot(s, c) ==
  /\ stopRpc[<<s, c>>] = "killed"
  /\ stopRpc' = [stopRpc EXCEPT ![<<s, c>>] = "closed"]
  /\ Snapshot(s, TRUE)
  /\ UNCHANGED <<reqVars, webVars, capdVars, startRpc, dumpVars, envVars>>

CapdStopReply(s, c) ==
  /\ stopRpc[<<s, c>>] = "closed"
  /\ stopRpc' = [stopRpc EXCEPT ![<<s, c>>] = "ok"]
  /\ sess'    = sess \ {s}
  /\ UNCHANGED <<reqVars, webVars, capdUp, strm, startRpc, dumpVars, supVars, envVars>>

\* Two stop calls share the supervisor: once the first has set _proc to None,
\* the second one may raise.
CapdStopRaises(s, c) ==
  /\ stopRpc[<<s, c>>] \in {"found", "killed"}
  /\ \E d \in Clicks \ {c} : stopRpc[<<s, d>>] \in {"closed", "ok"}
  /\ stopRpc' = [stopRpc EXCEPT ![<<s, c>>] = "err"]
  /\ UNCHANGED <<reqVars, webVars, capdVars, startRpc, dumpVars, supVars, envVars>>

\* One poll (bound: one frame under way): a frame for the hub, or, when nobody reads, the end of the
\* stream; the files it found are marked as emitted in either case.
CapdPoll(s) ==
  /\ s \in strm /\ ~frame[s].sent
  /\ Snapshot(s, FALSE)
  /\ IF hub[s] = "open"
     THEN frame' = [frame EXCEPT ![s] = [closed |-> NewlyClosed(s, FALSE),
                                         running |-> dump[s] = "live", sent |-> TRUE]]
     ELSE UNCHANGED frame
  /\ strm' = IF hub[s] = "open" /\ dump[s] = "live" THEN strm ELSE strm \ {s}
  /\ UNCHANGED <<reqVars, lock, hubs, hub, hubStop, cut, scans, capdUp, sess,
                 rpcVars, dumpVars, envVars>>

-----------------------------------------------------------------------------
(* StatsHub._run and the rotation consumer.                                 *)

\* The answer for a session capd does not know counts as a frame of a running
\* capture, so the hub goes on waiting.
HubConnect(s) ==
  /\ hub[s] = "starting"
  /\ hub'  = [hub EXCEPT ![s] = IF capdUp THEN "open" ELSE "ended"]
  /\ strm' = IF capdUp /\ s \in sess THEN strm \cup {s} ELSE strm
  /\ UNCHANGED <<reqVars, lock, hubs, hubStop, frame, cut, scans, capdUp, sess,
                 rpcVars, dumpVars, supVars, envVars>>

\* A hub that was told to stop drops the frame it was waiting for; otherwise
\* each closed file that still exists gets a scan.
HubFrame(s) ==
  /\ hub[s] = "open" /\ frame[s].sent
  /\ frame' = [frame EXCEPT ![s] = NoFrame]
  /\ IF s \in hubStop
     THEN hub' = [hub EXCEPT ![s] = "ended"] /\ UNCHANGED scans
     ELSE /\ scans' = [k \in Sessions \X (1..MaxFiles) |->
                         IF k[1] = s /\ k[2] \in frame[s].closed \cap OnDisk(s)
                         THEN scans[k] + 1 ELSE scans[k]]
          /\ hub' = [hub EXCEPT ![s] = IF frame[s].running THEN @ ELSE "ended"]
  /\ UNCHANGED <<reqVars, lock, hubs, hubStop, cut, capdVars, rpcVars, dumpVars,
                 supVars, envVars>>

HubEof(s) ==
  /\ hub[s] = "open" /\ s \in cut /\ ~frame[s].sent
  /\ hub' = [hub EXCEPT ![s] = "ended"]
  /\ UNCHANGED <<reqVars, lock, hubs, hubStop, frame, cut, scans, capdVars, rpcVars,
                 dumpVars, supVars, envVars>>

-----------------------------------------------------------------------------
(* Crashes.                                                                 *)

\* The web process restarts: requests, locks and hubs are gone, rows stay,
\* and what was sent to capd is still read there.
WebCrash ==
  /\ webCrashes < MaxWebCrashes
  /\ webCrashes' = webCrashes + 1
  /\ start' = [s \in Sessions |-> IF start[s] = "idle" THEN "idle" ELSE "done"]
  /\ stop'  = [k \in Sessions \X Clicks |-> IF stop[k] = "idle" THEN "idle" ELSE "done"]
  /\ lock'  = [i \in Interfaces |-> NoSession]
  /\ hubs' = {} /\ hubStop' = {} /\ cut' = {}
  /\ hub'   = [s \in Sessions |-> "none"]
  /\ frame' = [s \in Sessions |-> NoFrame]
  /\ UNCHANGED <<iface, row, scans, capdVars, rpcVars, dumpVars, supVars, early,
                 capdCrashes, timeouts>>

\* capd's cgroup or container takes the dumpcap processes with it.  A caller
\* reads the end of the stream, or a reset if its request was still unread.
CapdCrash ==
  /\ capdUp /\ capdCrashes < MaxCapdCrashes
  /\ capdCrashes' = capdCrashes + 1
  /\ capdUp' = FALSE /\ sess' = {} /\ strm' = {}
  /\ cut'  = cut \cup {s \in Sessions : hub[s] = "open"}
  /\ dump' = [s \in Sessions |-> IF dump[s] = "live" THEN "dead" ELSE dump[s]]
  /\ \E lost \in {"err", "reset"} :
       /\ startRpc' = [s \in Sessions |-> IF startRpc[s] = "sent" THEN lost ELSE startRpc[s]]
       /\ stopRpc'  = [k \in Sessions \X Clicks |->
                         IF stopRpc[k] \in CapdStopping THEN lost ELSE stopRpc[k]]
  /\ UNCHANGED <<reqVars, lock, hubs, hub, hubStop, frame, scans, files, supVars,
                 early, webCrashes, timeouts>>

CapdRestart ==
  /\ ~capdUp
  /\ capdUp' = TRUE
  /\ UNCHANGED <<reqVars, webVars, sess, strm, rpcVars, dumpVars, supVars, envVars>>

-----------------------------------------------------------------------------
StartNext(s) ==
  \/ StartCheck(s) \/ StartLock(s) \/ StartAsk(s) \/ StartCommit(s) \/ StartHub(s)
  \/ StartFail(s) \/ StartRelease(s) \/ StartRaises(s)

StopNext(s, c) ==
  \/ StopCheck(s, c) \/ StopMark(s, c) \/ StopAsk(s, c) \/ StopCommit(s, c)
  \/ StopFail(s, c) \/ StopTearDown(s, c) \/ StopRaises(s, c)

CapdStopNext(s, c) ==
  \/ CapdStopFind(s, c) \/ CapdStopKill(s, c) \/ CapdStopSnapshot(s, c)
  \/ CapdStopReply(s, c)

\* Every session was asked for and no request is under way.
AllQuiet ==
  /\ \A s \in Sessions : start[s] = "done" /\ \A c \in Clicks : stop[<<s, c>>] \in {"idle", "done"}
  /\ UNCHANGED vars

Next ==
  \/ \E s \in Sessions :
       \/ StartNext(s) \/ CapdStart(s) \/ Rotate(s) \/ DumpExits(s)
       \/ CapdPoll(s) \/ HubConnect(s) \/ HubFrame(s) \/ HubEof(s)
       \/ \E c \in Clicks : StopNext(s, c) \/ CapdStopNext(s, c) \/ CapdStopRaises(s, c)
  \/ WebCrash \/ CapdCrash \/ CapdRestart
  \/ AllQuiet

Spec == Init /\ [][Next]_vars

\* A request thread and capd take their next step; dumpcap, users, crashes and
\* timeouts owe nothing.
Fairness ==
  \A s \in Sessions, c \in Clicks :
    WF_vars(StopAsk(s, c)) /\ WF_vars(CapdStopNext(s, c))

FairSpec == Spec /\ Fairness

-----------------------------------------------------------------------------
TypeOK ==
  /\ start \in [Sessions -> {"idle", "checked", "locked", "asked", "hooking",
                             "failing", "done"}]
  /\ iface \in [Sessions -> Interfaces]
  /\ stop \in [Sessions \X Clicks -> {"idle", "checked", "marked", "asked", "stopped",
                                      "failed", "done"}]
  /\ row \in [Sessions -> {"absent", "pending", "running", "stopping", "stopped",
                           "failed"}]
  /\ lock \in [Interfaces -> Sessions \cup {NoSession}]
  /\ hubs \subseteq Sessions /\ hubStop \subseteq Sessions /\ cut \subseteq Sessions
  /\ hub \in [Sessions -> {"none", "starting", "open", "ended"}]
  /\ frame \in [Sessions -> [closed : SUBSET (1..MaxFiles), running : BOOLEAN,
                             sent : BOOLEAN]]
  /\ scans \in [Sessions \X (1..MaxFiles) -> Nat]
  /\ capdUp \in BOOLEAN /\ sess \subseteq Sessions /\ strm \subseteq Sessions
  /\ startRpc \in [Sessions -> {"none", "sent", "ok", "err", "reset"}]
  /\ stopRpc \in [Sessions \X Clicks -> CapdStopping \cup {"none", "ok", "err", "reset"}]
  /\ dump \in [Sessions -> {"none", "live", "dead"}]
  /\ files \in [Sessions -> 0..MaxFiles]
  /\ prev \in [Sessions -> 0..MaxFiles]
  /\ emitted \in [Sessions -> SUBSET (1..MaxFiles)]
  /\ early \subseteq Sessions
  /\ webCrashes \in Nat /\ capdCrashes \in Nat /\ timeouts \in Nat

\* A session that the history shows as stopped has no dumpcap any more, and
\* neither has a failed one, unless its stop reached capd before its start:
\* "stopped" is written on capd's word only, and every error capd can answer
\* means that dumpcap is gone, also when capd died or two stops collided.
SettledIsSilent ==
  \A s \in Sessions :
    row[s] = "stopped" \/ (row[s] = "failed" /\ s \notin early) => dump[s] # "live"

Overlap(i, j) == i = j \/ AnyDevice \in {i, j}

TwoLive(s, t) ==
  s # t /\ dump[s] = "live" /\ dump[t] = "live" /\ Overlap(iface[s], iface[t])

\* The interface locks of the web process keep captures apart, through
\* timeouts, stops and deaths of capd, which checks no interface itself: they
\* are released only when dumpcap is gone.  It takes a restart of the web
\* process, or a stop that overtakes its start, to break this.
InterfaceExclusive ==
  \A s, t \in Sessions :
    TwoLive(s, t) => webCrashes > 0 \/ {s, t} \cap early # {}

\* A file goes to the engine only after dumpcap has closed it, although the
\* supervisor tells the two apart by listing a directory that dumpcap changes.
NeverScansOpenFile ==
  \A s \in Sessions, f \in 1..MaxFiles :
    scans[<<s, f>>] > 0 => f < files[s] \/ dump[s] = "dead"

\* No file is scanned twice, whichever of stream and stop sees it first.
ScannedOnce == \A s \in Sessions, f \in 1..MaxFiles : scans[<<s, f>>] <= 1

\* A capture that is being stopped does end, even if the request gives up or
\* capd dies.  Two things can leave dumpcap running: the web process dies
\* between the row and the call, or capd reads the stop before the start.
StopTakesEffect ==
  \A s \in Sessions :
    row[s] = "stopping" ~> dump[s] # "live" \/ webCrashes > 0 \/ s \in early

-----------------------------------------------------------------------------
(* What the documentation says and the code does not do.                    *)

\* docs/live-capture.md:320-328: capd refuses two sessions on one interface,
\* and `any` blocks every other one.
OneCapturePerInterface == \A s, t \in Sessions : ~TwoLive(s, t)

\* docs/live-capture.md:237: for each closed PCAP the web app starts a scan.
ClosedFilesAreScanned ==
  \A s \in Sessions :
    row[s] = "stopped" /\ hub[s] = "ended"
      => \A f \in OnDisk(s) : scans[<<s, f>>] > 0
=============================================================================
