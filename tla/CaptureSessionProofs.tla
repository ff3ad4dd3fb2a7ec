------------------------ MODULE CaptureSessionProofs ------------------------
(***************************************************************************)
(* Proofs that every behaviour of CaptureSession, for any number of         *)
(* sessions, interfaces, stop requests, files, crashes and timeouts, keeps   *)
(* its types, the interfaces apart and the rotated files in order.           *)
(***************************************************************************)
EXTENDS CaptureSession, TLAPS

-----------------------------------------------------------------------------
(* The parts of the inductive invariant.                                    *)

\* A session in the hands of neither a caller nor dumpcap, for good: capd has
\* answered its start call, or lost it, and its dumpcap is gone or never came.
Silent(s) == startRpc[s] \notin {"none", "sent"} /\ dump[s] # "live"

\* A session is started by one call, which capd reads at most once.
StartInv ==
  \A s \in Sessions :
    /\ startRpc[s] # "none" => start[s] \notin {"idle", "checked", "locked"}
    /\ row[s] # "absent" => startRpc[s] # "none"
    /\ start[s] = "failing" => startRpc[s] = "err"
    /\ startRpc[s] = "sent" => capdUp
    /\ dump[s] # "none" \/ s \in sess => startRpc[s] = "ok"
    /\ dump[s] = "live" => s \in sess /\ capdUp

\* What capd has answered to a stop, and what the request has made of it.
StopOf(s, c) ==
  /\ stop[<<s, c>>] # "idle" \/ stopRpc[<<s, c>>] # "none" => startRpc[s] # "none"
  /\ stopRpc[<<s, c>>] = "found" => startRpc[s] = "ok"
  /\ stopRpc[<<s, c>>] \in {"killed", "closed", "ok"} => startRpc[s] = "ok" /\ dump[s] = "dead"
  /\ stopRpc[<<s, c>>] = "err" => Silent(s) \/ s \in early
  /\ stop[<<s, c>>] = "stopped" => Silent(s)
  /\ stop[<<s, c>>] = "failed" => Silent(s) \/ s \in early
  /\ stopRpc[<<s, c>>] \in CapdStopping => capdUp

StopInv == \A s \in Sessions, c \in Clicks : StopOf(s, c)

\* What a settled row says.
RowInv ==
  \A s \in Sessions :
    /\ row[s] = "stopped" => Silent(s)
    /\ row[s] = "failed" => Silent(s) \/ s \in early

CallInv == StartInv /\ StopInv /\ RowInv

\* Whoever captures, or is about to, holds the lock of its interface.
LockInv ==
  /\ webCrashes = 0 =>
       \A s \in Sessions \ early :
         start[s] = "locked" \/ startRpc[s] = "sent" \/ dump[s] = "live" => lock[iface[s]] = s
  /\ lock[AnyDevice] # NoSession =>
       \A i \in Interfaces \ {AnyDevice} : lock[i] = NoSession

\* A file is emitted once, when it is no longer the newest or dumpcap is gone,
\* and scanned from the frame it was emitted in.
FileOf(s) ==
  /\ prev[s] <= files[s]
  /\ \A f \in emitted[s] : f < files[s] \/ dump[s] = "dead"
  /\ frame[s].closed \subseteq emitted[s]
  /\ \A f \in 1..MaxFiles :
       /\ scans[<<s, f>>] > 0 => f \in emitted[s]
       /\ f \in frame[s].closed => scans[<<s, f>>] = 0
       /\ scans[<<s, f>>] <= 1

FileInv == \A s \in Sessions : FileOf(s)

-----------------------------------------------------------------------------
(* Every step preserves each part.                                          *)

\* The newest file on disk is the one dumpcap opened last.
LEMMA ActiveIsNewest ==
  ASSUME NEW s \in Sessions, files[s] \in 0..MaxFiles
  PROVE  ActiveFile(s) = files[s]
<1> DEFINE S == OnDisk(s) \cup {0}
<1>1. files[s] \in S /\ \A x \in S : x \in Nat /\ x <= files[s]
  BY CaptureAssumption DEF CaptureAssumption, OnDisk
<1>2. \A x \in S : (\A y \in S : x >= y) => x = files[s]
  BY <1>1
<1>3. files[s] = CHOOSE x \in S : \A y \in S : x >= y
  BY <1>1, <1>2
<1> QED
  BY <1>3 DEF ActiveFile, Max

\* What a snapshot finds closed are files of the session.
LEMMA ClosedAreFiles ==
  ASSUME NEW s \in Sessions, NEW finalize \in BOOLEAN, TypeOK
  PROVE  /\ ActiveFile(s) = files[s] /\ files[s] \in 0..MaxFiles
         /\ NewlyClosed(s, finalize) \subseteq 1..MaxFiles
<1>1. files[s] \in 0..MaxFiles /\ prev[s] \in 0..MaxFiles
  BY DEF TypeOK
<1>2. ActiveFile(s) = files[s]
  BY <1>1, ActiveIsNewest
<1>3. OnDisk(s) \subseteq 1..MaxFiles
  BY <1>1, CaptureAssumption DEF OnDisk, CaptureAssumption
<1> QED
  BY <1>1, <1>2, <1>3 DEF NewlyClosed

\* A snapshot keeps the types of what it remembers.
LEMMA SnapshotType ==
  ASSUME NEW s \in Sessions, NEW finalize \in BOOLEAN, TypeOK, Snapshot(s, finalize)
  PROVE  /\ prev' \in [Sessions -> 0..MaxFiles]
         /\ emitted' \in [Sessions -> SUBSET (1..MaxFiles)]
<1>1. ActiveFile(s) \in 0..MaxFiles /\ NewlyClosed(s, finalize) \subseteq 1..MaxFiles
  BY ClosedAreFiles
<1> QED
  BY <1>1 DEF Snapshot, TypeOK

\* Every step keeps the types.
LEMMA TypeStep ==
  ASSUME TypeOK, [Next]_vars
  PROVE  TypeOK'
<1> USE CaptureAssumption DEF CaptureAssumption, TypeOK, CapdStopping, NoFrame, reqVars, webVars, capdVars, rpcVars, dumpVars, supVars, envVars
<1>1. ASSUME NEW s \in Sessions, StartCheck(s) PROVE TypeOK'
  BY <1>1 DEF StartCheck
<1>2. ASSUME NEW s \in Sessions, StartLock(s) PROVE TypeOK'
  <2>1. CASE InterfaceFree(iface[s], s)
    <3>1. lock' = [lock EXCEPT ![iface[s]] = s] /\ start' = [start EXCEPT ![s] = "locked"]
      BY <1>2, <2>1 DEF StartLock
    <3>2. lock' \in [Interfaces -> Sessions \cup {NoSession}]
      BY <3>1
    <3> QED BY <1>2, <3>1, <3>2 DEF StartLock
  <2>2. CASE ~InterfaceFree(iface[s], s)
    BY <1>2, <2>2 DEF StartLock
  <2> QED BY <2>1, <2>2
<1>3. ASSUME NEW s \in Sessions, StartAsk(s) PROVE TypeOK'
  BY <1>3 DEF StartAsk
<1>4. ASSUME NEW s \in Sessions, StartCommit(s) PROVE TypeOK'
  BY <1>4 DEF StartCommit
<1>5. ASSUME NEW s \in Sessions, StartHub(s) PROVE TypeOK'
  BY <1>5 DEF StartHub
<1>6. ASSUME NEW s \in Sessions, StartFail(s) PROVE TypeOK'
  BY <1>6 DEF StartFail
<1>7. ASSUME NEW s \in Sessions, StartRelease(s) PROVE TypeOK'
  BY <1>7 DEF StartRelease, ReleaseInterface
<1>8. ASSUME NEW s \in Sessions, StartRaises(s) PROVE TypeOK'
  BY <1>8 DEF StartRaises
<1>9. ASSUME NEW s \in Sessions, CapdStart(s) PROVE TypeOK'
  BY <1>9 DEF CapdStart
<1>10. ASSUME NEW s \in Sessions, Rotate(s) PROVE TypeOK'
  BY <1>10 DEF Rotate
<1>11. ASSUME NEW s \in Sessions, DumpExits(s) PROVE TypeOK'
  BY <1>11 DEF DumpExits
<1>12. ASSUME NEW s \in Sessions, CapdPoll(s) PROVE TypeOK'
  <2>1. prev' \in [Sessions -> 0..MaxFiles] /\ emitted' \in [Sessions -> SUBSET (1..MaxFiles)]
    BY <1>12, SnapshotType DEF CapdPoll
  <2>2. NewlyClosed(s, FALSE) \subseteq 1..MaxFiles
    BY ClosedAreFiles
  <2>3. frame' \in [Sessions -> [closed : SUBSET (1..MaxFiles), running : BOOLEAN, sent : BOOLEAN]]
    <3>1. CASE hub[s] = "open"
      <4>1. [closed |-> NewlyClosed(s, FALSE), running |-> dump[s] = "live", sent |-> TRUE]
              \in [closed : SUBSET (1..MaxFiles), running : BOOLEAN, sent : BOOLEAN]
        BY <2>2
      <4>2. frame' = [frame EXCEPT ![s] = [closed |-> NewlyClosed(s, FALSE),
                                          running |-> dump[s] = "live", sent |-> TRUE]]
        BY <1>12, <3>1 DEF CapdPoll
      <4> QED BY <4>1, <4>2
    <3>2. CASE hub[s] # "open"
      BY <1>12, <3>2 DEF CapdPoll
    <3> QED BY <3>1, <3>2
  <2>4. strm' \subseteq Sessions
    BY <1>12 DEF CapdPoll
  <2> QED BY <1>12, <2>1, <2>3, <2>4 DEF CapdPoll
<1>13. ASSUME NEW s \in Sessions, HubConnect(s) PROVE TypeOK'
  BY <1>13 DEF HubConnect
<1>14. ASSUME NEW s \in Sessions, HubFrame(s) PROVE TypeOK'
  BY <1>14 DEF HubFrame
<1>15. ASSUME NEW s \in Sessions, HubEof(s) PROVE TypeOK'
  BY <1>15 DEF HubEof
<1>16. ASSUME NEW s \in Sessions, NEW c \in Clicks, StopCheck(s, c) PROVE TypeOK'
  BY <1>16 DEF StopCheck
<1>17. ASSUME NEW s \in Sessions, NEW c \in Clicks, StopMark(s, c) PROVE TypeOK'
  BY <1>17 DEF StopMark
<1>18. ASSUME NEW s \in Sessions, NEW c \in Clicks, StopAsk(s, c) PROVE TypeOK'
  BY <1>18 DEF StopAsk
<1>19. ASSUME NEW s \in Sessions, NEW c \in Clicks, StopCommit(s, c) PROVE TypeOK'
  BY <1>19 DEF StopCommit
<1>20. ASSUME NEW s \in Sessions, NEW c \in Clicks, StopFail(s, c) PROVE TypeOK'
  BY <1>20 DEF StopFail
<1>21. ASSUME NEW s \in Sessions, NEW c \in Clicks, StopTearDown(s, c) PROVE TypeOK'
  BY <1>21 DEF StopTearDown, ReleaseInterface
<1>22. ASSUME NEW s \in Sessions, NEW c \in Clicks, StopRaises(s, c) PROVE TypeOK'
  BY <1>22 DEF StopRaises
<1>23. ASSUME NEW s \in Sessions, NEW c \in Clicks, CapdStopFind(s, c) PROVE TypeOK'
  BY <1>23 DEF CapdStopFind
<1>24. ASSUME NEW s \in Sessions, NEW c \in Clicks, CapdStopKill(s, c) PROVE TypeOK'
  BY <1>24 DEF CapdStopKill
<1>25. ASSUME NEW s \in Sessions, NEW c \in Clicks, CapdStopSnapshot(s, c) PROVE TypeOK'
  <2>1. prev' \in [Sessions -> 0..MaxFiles] /\ emitted' \in [Sessions -> SUBSET (1..MaxFiles)]
    BY <1>25, SnapshotType DEF CapdStopSnapshot
  <2> QED BY <1>25, <2>1 DEF CapdStopSnapshot
<1>26. ASSUME NEW s \in Sessions, NEW c \in Clicks, CapdStopReply(s, c) PROVE TypeOK'
  BY <1>26 DEF CapdStopReply
<1>27. ASSUME NEW s \in Sessions, NEW c \in Clicks, CapdStopRaises(s, c) PROVE TypeOK'
  BY <1>27 DEF CapdStopRaises
<1>28. CASE WebCrash
  BY <1>28 DEF WebCrash
<1>29. CASE CapdCrash
  <2>1. PICK lost \in {"err", "reset"} :
          /\ startRpc' = [s \in Sessions |-> IF startRpc[s] = "sent" THEN lost ELSE startRpc[s]]
          /\ stopRpc'  = [k \in Sessions \X Clicks |->
                            IF stopRpc[k] \in CapdStopping THEN lost ELSE stopRpc[k]]
    BY <1>29 DEF CapdCrash
  <2>2. startRpc' \in [Sessions -> {"none", "sent", "ok", "err", "reset"}]
    BY <2>1
  <2>3. stopRpc' \in [Sessions \X Clicks -> CapdStopping \cup {"none", "ok", "err", "reset"}]
    BY <2>1
  <2>4. dump' \in [Sessions -> {"none", "live", "dead"}] /\ cut' \subseteq Sessions
    BY <1>29 DEF CapdCrash
  <2>5. capdCrashes' = capdCrashes + 1 /\ capdUp' = FALSE /\ sess' = {} /\ strm' = {}
    BY <1>29 DEF CapdCrash
  <2>6. /\ UNCHANGED <<start, iface, stop, row>>
        /\ UNCHANGED <<lock, hubs, hub, hubStop, frame, scans>>
    BY <1>29 DEF CapdCrash
  <2>7. /\ UNCHANGED <<files, prev, emitted>>
        /\ UNCHANGED <<early, webCrashes, timeouts>>
    BY <1>29 DEF CapdCrash
  <2>8. capdCrashes' \in Nat
    BY <2>5
  <2> QED BY <2>2, <2>3, <2>4, <2>5, <2>6, <2>7, <2>8
<1>30. CASE CapdRestart
  BY <1>30 DEF CapdRestart
<1>31. CASE UNCHANGED vars \/ AllQuiet
  BY <1>31 DEF vars, AllQuiet
<1> QED
  BY <1>1, <1>2, <1>3, <1>4, <1>5, <1>6, <1>7, <1>8, <1>9, <1>10, <1>11, <1>12, <1>13, <1>14, <1>15, <1>16, <1>17, <1>18, <1>19, <1>20, <1>21, <1>22, <1>23, <1>24, <1>25, <1>26, <1>27, <1>28, <1>29, <1>30, <1>31
     DEF Next, StartNext, StopNext, CapdStopNext
\* No step breaks the protocol of the start call.
LEMMA StartInvStep ==
  ASSUME TypeOK, StartInv, StopInv, [Next]_vars
  PROVE  StartInv'
<1> USE DEF TypeOK, StartInv, StopInv, StopOf, CapdStopping, reqVars, webVars, capdVars, rpcVars, dumpVars, supVars, envVars
<1>1. ASSUME NEW s \in Sessions, StartCheck(s) PROVE StartInv'
  BY <1>1 DEF StartCheck
<1>2. ASSUME NEW s \in Sessions, StartLock(s) PROVE StartInv'
  BY <1>2 DEF StartLock
<1>3. ASSUME NEW s \in Sessions, StartAsk(s) PROVE StartInv'
  BY <1>3 DEF StartAsk
<1>4. ASSUME NEW s \in Sessions, StartCommit(s) PROVE StartInv'
  BY <1>4 DEF StartCommit
<1>5. ASSUME NEW s \in Sessions, StartHub(s) PROVE StartInv'
  BY <1>5 DEF StartHub
<1>6. ASSUME NEW s \in Sessions, StartFail(s) PROVE StartInv'
  BY <1>6 DEF StartFail
<1>7. ASSUME NEW s \in Sessions, StartRelease(s) PROVE StartInv'
  BY <1>7 DEF StartRelease, ReleaseInterface
<1>8. ASSUME NEW s \in Sessions, StartRaises(s) PROVE StartInv'
  BY <1>8 DEF StartRaises
<1>9. ASSUME NEW s \in Sessions, CapdStart(s) PROVE StartInv'
  BY <1>9 DEF CapdStart
<1>10. ASSUME NEW s \in Sessions, Rotate(s) PROVE StartInv'
  BY <1>10 DEF Rotate
<1>11. ASSUME NEW s \in Sessions, DumpExits(s) PROVE StartInv'
  BY <1>11 DEF DumpExits
<1>12. ASSUME NEW s \in Sessions, CapdPoll(s) PROVE StartInv'
  BY <1>12 DEF CapdPoll, Snapshot
<1>13. ASSUME NEW s \in Sessions, HubConnect(s) PROVE StartInv'
  BY <1>13 DEF HubConnect
<1>14. ASSUME NEW s \in Sessions, HubFrame(s) PROVE StartInv'
  BY <1>14 DEF HubFrame
<1>15. ASSUME NEW s \in Sessions, HubEof(s) PROVE StartInv'
  BY <1>15 DEF HubEof
<1>16. ASSUME NEW s \in Sessions, NEW c \in Clicks, StopCheck(s, c) PROVE StartInv'
  BY <1>16 DEF StopCheck
<1>17. ASSUME NEW s \in Sessions, NEW c \in Clicks, StopMark(s, c) PROVE StartInv'
  BY <1>17 DEF StopMark
<1>18. ASSUME NEW s \in Sessions, NEW c \in Clicks, StopAsk(s, c) PROVE StartInv'
  BY <1>18 DEF StopAsk
<1>19. ASSUME NEW s \in Sessions, NEW c \in Clicks, StopCommit(s, c) PROVE StartInv'
  BY <1>19 DEF StopCommit
<1>20. ASSUME NEW s \in Sessions, NEW c \in Clicks, StopFail(s, c) PROVE StartInv'
  BY <1>20 DEF StopFail
<1>21. ASSUME NEW s \in Sessions, NEW c \in Clicks, StopTearDown(s, c) PROVE StartInv'
  BY <1>21 DEF StopTearDown, ReleaseInterface
<1>22. ASSUME NEW s \in Sessions, NEW c \in Clicks, StopRaises(s, c) PROVE StartInv'
  BY <1>22 DEF StopRaises
<1>23. ASSUME NEW s \in Sessions, NEW c \in Clicks, CapdStopFind(s, c) PROVE StartInv'
  BY <1>23 DEF CapdStopFind
<1>24. ASSUME NEW s \in Sessions, NEW c \in Clicks, CapdStopKill(s, c) PROVE StartInv'
  BY <1>24 DEF CapdStopKill
<1>25. ASSUME NEW s \in Sessions, NEW c \in Clicks, CapdStopSnapshot(s, c) PROVE StartInv'
  BY <1>25 DEF CapdStopSnapshot, Snapshot
<1>26. ASSUME NEW s \in Sessions, NEW c \in Clicks, CapdStopReply(s, c) PROVE StartInv'
  BY <1>26 DEF CapdStopReply
<1>27. ASSUME NEW s \in Sessions, NEW c \in Clicks, CapdStopRaises(s, c) PROVE StartInv'
  BY <1>27 DEF CapdStopRaises
<1>28. CASE WebCrash
  BY <1>28 DEF WebCrash
<1>29. CASE CapdCrash
  BY <1>29 DEF CapdCrash
<1>30. CASE CapdRestart
  BY <1>30 DEF CapdRestart
<1>31. CASE UNCHANGED vars \/ AllQuiet
  BY <1>31 DEF vars, AllQuiet
<1> QED
  BY <1>1, <1>2, <1>3, <1>4, <1>5, <1>6, <1>7, <1>8, <1>9, <1>10, <1>11, <1>12, <1>13, <1>14, <1>15, <1>16, <1>17, <1>18, <1>19, <1>20, <1>21, <1>22, <1>23, <1>24, <1>25, <1>26, <1>27, <1>28, <1>29, <1>30, <1>31
     DEF Next, StartNext, StopNext, CapdStopNext
\* No step breaks what the answers to a stop mean.
LEMMA StopInvStep ==
  ASSUME TypeOK, StartInv, StopInv, [Next]_vars
  PROVE  StopInv'
<1> SUFFICES ASSUME NEW t \in Sessions, NEW d \in Clicks
             PROVE  StopOf(t, d)'
  BY DEF StopInv
<1>a. StopOf(t, d) /\ \A e \in Clicks : StopOf(t, e)
  BY DEF StopInv
<1>b. /\ startRpc[t] = "sent" => capdUp
      /\ startRpc[t] # "none" => start[t] # "locked"
      /\ row[t] # "absent" => startRpc[t] # "none"
      /\ dump[t] # "none" \/ t \in sess => startRpc[t] = "ok"
      /\ dump[t] = "live" => t \in sess /\ capdUp
  BY DEF StartInv
<1>c. /\ stop \in [Sessions \X Clicks -> {"idle", "checked", "marked", "asked", "stopped",
                                      "failed", "done"}]
      /\ stopRpc \in [Sessions \X Clicks -> CapdStopping \cup {"none", "ok", "err", "reset"}]
      /\ startRpc \in [Sessions -> {"none", "sent", "ok", "err", "reset"}]
      /\ dump \in [Sessions -> {"none", "live", "dead"}]
  BY DEF TypeOK
<1> USE DEF StopOf, Silent, CapdStopping, reqVars, webVars, capdVars, rpcVars, dumpVars, supVars, envVars
<1>1. ASSUME NEW s \in Sessions, StartCheck(s) PROVE StopOf(t, d)'
  BY <1>1, <1>a, <1>b, <1>c DEF StartCheck
<1>2. ASSUME NEW s \in Sessions, StartLock(s) PROVE StopOf(t, d)'
  BY <1>2, <1>a, <1>b, <1>c DEF StartLock
<1>3. ASSUME NEW s \in Sessions, StartAsk(s) PROVE StopOf(t, d)'
  BY <1>3, <1>a, <1>b, <1>c DEF StartAsk
<1>4. ASSUME NEW s \in Sessions, StartCommit(s) PROVE StopOf(t, d)'
  BY <1>4, <1>a, <1>b, <1>c DEF StartCommit
<1>5. ASSUME NEW s \in Sessions, StartHub(s) PROVE StopOf(t, d)'
  BY <1>5, <1>a, <1>b, <1>c DEF StartHub
<1>6. ASSUME NEW s \in Sessions, StartFail(s) PROVE StopOf(t, d)'
  BY <1>6, <1>a, <1>b, <1>c DEF StartFail
<1>7. ASSUME NEW s \in Sessions, StartRelease(s) PROVE StopOf(t, d)'
  BY <1>7, <1>a, <1>b, <1>c DEF StartRelease, ReleaseInterface
<1>8. ASSUME NEW s \in Sessions, StartRaises(s) PROVE StopOf(t, d)'
  BY <1>8, <1>a, <1>b, <1>c DEF StartRaises
<1>9. ASSUME NEW s \in Sessions, CapdStart(s) PROVE StopOf(t, d)'
  BY <1>9, <1>a, <1>b, <1>c DEF CapdStart
<1>10. ASSUME NEW s \in Sessions, Rotate(s) PROVE StopOf(t, d)'
  BY <1>10, <1>a, <1>b, <1>c DEF Rotate
<1>11. ASSUME NEW s \in Sessions, DumpExits(s) PROVE StopOf(t, d)'
  BY <1>11, <1>a, <1>b, <1>c DEF DumpExits
<1>12. ASSUME NEW s \in Sessions, CapdPoll(s) PROVE StopOf(t, d)'
  BY <1>12, <1>a, <1>b, <1>c DEF CapdPoll, Snapshot
<1>13. ASSUME NEW s \in Sessions, HubConnect(s) PROVE StopOf(t, d)'
  BY <1>13, <1>a, <1>b, <1>c DEF HubConnect
<1>14. ASSUME NEW s \in Sessions, HubFrame(s) PROVE StopOf(t, d)'
  BY <1>14, <1>a, <1>b, <1>c DEF HubFrame
<1>15. ASSUME NEW s \in Sessions, HubEof(s) PROVE StopOf(t, d)'
  BY <1>15, <1>a, <1>b, <1>c DEF HubEof
<1>16. ASSUME NEW s \in Sessions, NEW c \in Clicks, StopCheck(s, c) PROVE StopOf(t, d)'
  BY <1>16, <1>a, <1>b, <1>c DEF StopCheck
<1>17. ASSUME NEW s \in Sessions, NEW c \in Clicks, StopMark(s, c) PROVE StopOf(t, d)'
  BY <1>17, <1>a, <1>b, <1>c DEF StopMark
<1>18. ASSUME NEW s \in Sessions, NEW c \in Clicks, StopAsk(s, c) PROVE StopOf(t, d)'
  BY <1>18, <1>a, <1>b, <1>c DEF StopAsk
<1>19. ASSUME NEW s \in Sessions, NEW c \in Clicks, StopCommit(s, c) PROVE StopOf(t, d)'
  BY <1>19, <1>a, <1>b, <1>c DEF StopCommit
<1>20. ASSUME NEW s \in Sessions, NEW c \in Clicks, StopFail(s, c) PROVE StopOf(t, d)'
  BY <1>20, <1>a, <1>b, <1>c DEF StopFail
<1>21. ASSUME NEW s \in Sessions, NEW c \in Clicks, StopTearDown(s, c) PROVE StopOf(t, d)'
  BY <1>21, <1>a, <1>b, <1>c DEF StopTearDown, ReleaseInterface
<1>22. ASSUME NEW s \in Sessions, NEW c \in Clicks, StopRaises(s, c) PROVE StopOf(t, d)'
  BY <1>22, <1>a, <1>b, <1>c DEF StopRaises
<1>23. ASSUME NEW s \in Sessions, NEW c \in Clicks, CapdStopFind(s, c) PROVE StopOf(t, d)'
  BY <1>23, <1>a, <1>b, <1>c DEF CapdStopFind
<1>24. ASSUME NEW s \in Sessions, NEW c \in Clicks, CapdStopKill(s, c) PROVE StopOf(t, d)'
  BY <1>24, <1>a, <1>b, <1>c DEF CapdStopKill
<1>25. ASSUME NEW s \in Sessions, NEW c \in Clicks, CapdStopSnapshot(s, c) PROVE StopOf(t, d)'
  BY <1>25, <1>a, <1>b, <1>c DEF CapdStopSnapshot, Snapshot
<1>26. ASSUME NEW s \in Sessions, NEW c \in Clicks, CapdStopReply(s, c) PROVE StopOf(t, d)'
  BY <1>26, <1>a, <1>b, <1>c DEF CapdStopReply
<1>27. ASSUME NEW s \in Sessions, NEW c \in Clicks, CapdStopRaises(s, c) PROVE StopOf(t, d)'
  BY <1>27, <1>a, <1>b, <1>c DEF CapdStopRaises
<1>28. CASE WebCrash
  BY <1>28, <1>a, <1>b, <1>c DEF WebCrash
<1>29. CASE CapdCrash
  BY <1>29, <1>a, <1>b, <1>c DEF CapdCrash
<1>30. CASE CapdRestart
  BY <1>30, <1>a, <1>b, <1>c DEF CapdRestart
<1>31. CASE UNCHANGED vars \/ AllQuiet
  <2>1. UNCHANGED vars
    BY <1>31 DEF AllQuiet
  <2> QED BY <2>1, <1>a, <1>b, <1>c DEF vars
<1> QED
  BY <1>1, <1>2, <1>3, <1>4, <1>5, <1>6, <1>7, <1>8, <1>9, <1>10, <1>11, <1>12, <1>13, <1>14, <1>15, <1>16, <1>17, <1>18, <1>19, <1>20, <1>21, <1>22, <1>23, <1>24, <1>25, <1>26, <1>27, <1>28, <1>29, <1>30, <1>31
     DEF Next, StartNext, StopNext, CapdStopNext
\* No step breaks what a settled row says.
LEMMA RowInvStep ==
  ASSUME TypeOK, StartInv, StopInv, RowInv, [Next]_vars
  PROVE  RowInv'
<1> USE DEF TypeOK, StartInv, StopInv, StopOf, RowInv, Silent, CapdStopping, reqVars, webVars, capdVars, rpcVars, dumpVars, supVars, envVars
<1>1. ASSUME NEW s \in Sessions, StartCheck(s) PROVE RowInv'
  BY <1>1 DEF StartCheck
<1>2. ASSUME NEW s \in Sessions, StartLock(s) PROVE RowInv'
  BY <1>2 DEF StartLock
<1>3. ASSUME NEW s \in Sessions, StartAsk(s) PROVE RowInv'
  BY <1>3 DEF StartAsk
<1>4. ASSUME NEW s \in Sessions, StartCommit(s) PROVE RowInv'
  BY <1>4 DEF StartCommit
<1>5. ASSUME NEW s \in Sessions, StartHub(s) PROVE RowInv'
  BY <1>5 DEF StartHub
<1>6. ASSUME NEW s \in Sessions, StartFail(s) PROVE RowInv'
  BY <1>6 DEF StartFail
<1>7. ASSUME NEW s \in Sessions, StartRelease(s) PROVE RowInv'
  BY <1>7 DEF StartRelease, ReleaseInterface
<1>8. ASSUME NEW s \in Sessions, StartRaises(s) PROVE RowInv'
  BY <1>8 DEF StartRaises
<1>9. ASSUME NEW s \in Sessions, CapdStart(s) PROVE RowInv'
  BY <1>9 DEF CapdStart
<1>10. ASSUME NEW s \in Sessions, Rotate(s) PROVE RowInv'
  BY <1>10 DEF Rotate
<1>11. ASSUME NEW s \in Sessions, DumpExits(s) PROVE RowInv'
  BY <1>11 DEF DumpExits
<1>12. ASSUME NEW s \in Sessions, CapdPoll(s) PROVE RowInv'
  BY <1>12 DEF CapdPoll, Snapshot
<1>13. ASSUME NEW s \in Sessions, HubConnect(s) PROVE RowInv'
  BY <1>13 DEF HubConnect
<1>14. ASSUME NEW s \in Sessions, HubFrame(s) PROVE RowInv'
  BY <1>14 DEF HubFrame
<1>15. ASSUME NEW s \in Sessions, HubEof(s) PROVE RowInv'
  BY <1>15 DEF HubEof
<1>16. ASSUME NEW s \in Sessions, NEW c \in Clicks, StopCheck(s, c) PROVE RowInv'
  BY <1>16 DEF StopCheck
<1>17. ASSUME NEW s \in Sessions, NEW c \in Clicks, StopMark(s, c) PROVE RowInv'
  BY <1>17 DEF StopMark
<1>18. ASSUME NEW s \in Sessions, NEW c \in Clicks, StopAsk(s, c) PROVE RowInv'
  BY <1>18 DEF StopAsk
<1>19. ASSUME NEW s \in Sessions, NEW c \in Clicks, StopCommit(s, c) PROVE RowInv'
  BY <1>19 DEF StopCommit
<1>20. ASSUME NEW s \in Sessions, NEW c \in Clicks, StopFail(s, c) PROVE RowInv'
  BY <1>20 DEF StopFail
<1>21. ASSUME NEW s \in Sessions, NEW c \in Clicks, StopTearDown(s, c) PROVE RowInv'
  BY <1>21 DEF StopTearDown, ReleaseInterface
<1>22. ASSUME NEW s \in Sessions, NEW c \in Clicks, StopRaises(s, c) PROVE RowInv'
  BY <1>22 DEF StopRaises
<1>23. ASSUME NEW s \in Sessions, NEW c \in Clicks, CapdStopFind(s, c) PROVE RowInv'
  BY <1>23 DEF CapdStopFind
<1>24. ASSUME NEW s \in Sessions, NEW c \in Clicks, CapdStopKill(s, c) PROVE RowInv'
  BY <1>24 DEF CapdStopKill
<1>25. ASSUME NEW s \in Sessions, NEW c \in Clicks, CapdStopSnapshot(s, c) PROVE RowInv'
  BY <1>25 DEF CapdStopSnapshot, Snapshot
<1>26. ASSUME NEW s \in Sessions, NEW c \in Clicks, CapdStopReply(s, c) PROVE RowInv'
  BY <1>26 DEF CapdStopReply
<1>27. ASSUME NEW s \in Sessions, NEW c \in Clicks, CapdStopRaises(s, c) PROVE RowInv'
  BY <1>27 DEF CapdStopRaises
<1>28. CASE WebCrash
  BY <1>28 DEF WebCrash
<1>29. CASE CapdCrash
  BY <1>29 DEF CapdCrash
<1>30. CASE CapdRestart
  BY <1>30 DEF CapdRestart
<1>31. CASE UNCHANGED vars \/ AllQuiet
  BY <1>31 DEF vars, AllQuiet
<1> QED
  BY <1>1, <1>2, <1>3, <1>4, <1>5, <1>6, <1>7, <1>8, <1>9, <1>10, <1>11, <1>12, <1>13, <1>14, <1>15, <1>16, <1>17, <1>18, <1>19, <1>20, <1>21, <1>22, <1>23, <1>24, <1>25, <1>26, <1>27, <1>28, <1>29, <1>30, <1>31
     DEF Next, StartNext, StopNext, CapdStopNext
\* No step breaks the interface locks.
LEMMA LockInvStep ==
  ASSUME TypeOK, CallInv, LockInv, [Next]_vars
  PROVE  LockInv'
<1> USE CaptureAssumption DEF CaptureAssumption, CallInv, TypeOK, StartInv, StopInv, StopOf, RowInv, LockInv, InterfaceFree, Silent, CapdStopping, reqVars, webVars, capdVars, rpcVars, dumpVars, supVars, envVars
<1>1. ASSUME NEW s \in Sessions, StartCheck(s) PROVE LockInv'
  BY <1>1 DEF StartCheck
<1>2. ASSUME NEW s \in Sessions, StartLock(s) PROVE LockInv'
  BY <1>2 DEF StartLock
<1>3. ASSUME NEW s \in Sessions, StartAsk(s) PROVE LockInv'
  BY <1>3 DEF StartAsk
<1>4. ASSUME NEW s \in Sessions, StartCommit(s) PROVE LockInv'
  BY <1>4 DEF StartCommit
<1>5. ASSUME NEW s \in Sessions, StartHub(s) PROVE LockInv'
  BY <1>5 DEF StartHub
<1>6. ASSUME NEW s \in Sessions, StartFail(s) PROVE LockInv'
  BY <1>6 DEF StartFail
<1>7. ASSUME NEW s \in Sessions, StartRelease(s) PROVE LockInv'
  BY <1>7 DEF StartRelease, ReleaseInterface
<1>8. ASSUME NEW s \in Sessions, StartRaises(s) PROVE LockInv'
  BY <1>8 DEF StartRaises
<1>9. ASSUME NEW s \in Sessions, CapdStart(s) PROVE LockInv'
  BY <1>9 DEF CapdStart
<1>10. ASSUME NEW s \in Sessions, Rotate(s) PROVE LockInv'
  BY <1>10 DEF Rotate
<1>11. ASSUME NEW s \in Sessions, DumpExits(s) PROVE LockInv'
  BY <1>11 DEF DumpExits
<1>12. ASSUME NEW s \in Sessions, CapdPoll(s) PROVE LockInv'
  BY <1>12 DEF CapdPoll, Snapshot
<1>13. ASSUME NEW s \in Sessions, HubConnect(s) PROVE LockInv'
  BY <1>13 DEF HubConnect
<1>14. ASSUME NEW s \in Sessions, HubFrame(s) PROVE LockInv'
  BY <1>14 DEF HubFrame
<1>15. ASSUME NEW s \in Sessions, HubEof(s) PROVE LockInv'
  BY <1>15 DEF HubEof
<1>16. ASSUME NEW s \in Sessions, NEW c \in Clicks, StopCheck(s, c) PROVE LockInv'
  BY <1>16 DEF StopCheck
<1>17. ASSUME NEW s \in Sessions, NEW c \in Clicks, StopMark(s, c) PROVE LockInv'
  BY <1>17 DEF StopMark
<1>18. ASSUME NEW s \in Sessions, NEW c \in Clicks, StopAsk(s, c) PROVE LockInv'
  BY <1>18 DEF StopAsk
<1>19. ASSUME NEW s \in Sessions, NEW c \in Clicks, StopCommit(s, c) PROVE LockInv'
  BY <1>19 DEF StopCommit
<1>20. ASSUME NEW s \in Sessions, NEW c \in Clicks, StopFail(s, c) PROVE LockInv'
  BY <1>20 DEF StopFail
<1>21. ASSUME NEW s \in Sessions, NEW c \in Clicks, StopTearDown(s, c) PROVE LockInv'
  BY <1>21 DEF StopTearDown, ReleaseInterface
<1>22. ASSUME NEW s \in Sessions, NEW c \in Clicks, StopRaises(s, c) PROVE LockInv'
  BY <1>22 DEF StopRaises
<1>23. ASSUME NEW s \in Sessions, NEW c \in Clicks, CapdStopFind(s, c) PROVE LockInv'
  BY <1>23 DEF CapdStopFind
<1>24. ASSUME NEW s \in Sessions, NEW c \in Clicks, CapdStopKill(s, c) PROVE LockInv'
  BY <1>24 DEF CapdStopKill
<1>25. ASSUME NEW s \in Sessions, NEW c \in Clicks, CapdStopSnapshot(s, c) PROVE LockInv'
  BY <1>25 DEF CapdStopSnapshot, Snapshot
<1>26. ASSUME NEW s \in Sessions, NEW c \in Clicks, CapdStopReply(s, c) PROVE LockInv'
  BY <1>26 DEF CapdStopReply
<1>27. ASSUME NEW s \in Sessions, NEW c \in Clicks, CapdStopRaises(s, c) PROVE LockInv'
  BY <1>27 DEF CapdStopRaises
<1>28. CASE WebCrash
  BY <1>28 DEF WebCrash
<1>29. CASE CapdCrash
  BY <1>29 DEF CapdCrash
<1>30. CASE CapdRestart
  BY <1>30 DEF CapdRestart
<1>31. CASE UNCHANGED vars \/ AllQuiet
  BY <1>31 DEF vars, AllQuiet
<1> QED
  BY <1>1, <1>2, <1>3, <1>4, <1>5, <1>6, <1>7, <1>8, <1>9, <1>10, <1>11, <1>12, <1>13, <1>14, <1>15, <1>16, <1>17, <1>18, <1>19, <1>20, <1>21, <1>22, <1>23, <1>24, <1>25, <1>26, <1>27, <1>28, <1>29, <1>30, <1>31
     DEF Next, StartNext, StopNext, CapdStopNext
\* A poll finds files that dumpcap has moved on from, a stop every file, and
\* neither finds one that was emitted before.
LEMMA ClosedAreFresh ==
  ASSUME NEW s \in Sessions, NEW finalize \in BOOLEAN, TypeOK, FileInv
  PROVE  /\ ActiveFile(s) = files[s]
         /\ \A f \in NewlyClosed(s, finalize) :
              /\ f \in 1..MaxFiles /\ f \notin emitted[s]
              /\ finalize \/ f < files[s]
<1>1. files[s] \in 0..MaxFiles /\ prev[s] \in 0..MaxFiles /\ prev[s] <= files[s]
  BY DEF TypeOK, FileInv, FileOf
<1>2. ActiveFile(s) = files[s] /\ NewlyClosed(s, finalize) \subseteq 1..MaxFiles
  BY ClosedAreFiles
<1>3. \A f \in OnDisk(s) : f <= files[s]
  BY <1>1 DEF OnDisk
<1>4. OnDisk(s) \subseteq 1..MaxFiles
  BY <1>1, CaptureAssumption DEF OnDisk, CaptureAssumption
<1> QED
  BY <1>1, <1>2, <1>3, <1>4, CaptureAssumption DEF NewlyClosed, CaptureAssumption

\* No step breaks the life of a file.
LEMMA FileInvStep ==
  ASSUME TypeOK, StartInv, StopInv, FileInv, [Next]_vars
  PROVE  FileInv'
<1> SUFFICES ASSUME NEW t \in Sessions
             PROVE  FileOf(t)'
  BY DEF FileInv
<1>a. FileOf(t)
  BY DEF FileInv
<1>b. /\ frame \in [Sessions -> [closed : SUBSET (1..MaxFiles), running : BOOLEAN, sent : BOOLEAN]]
      /\ scans \in [Sessions \X (1..MaxFiles) -> Nat]
      /\ dump \in [Sessions -> {"none", "live", "dead"}]
      /\ files \in [Sessions -> 0..MaxFiles]
      /\ prev \in [Sessions -> 0..MaxFiles]
      /\ emitted \in [Sessions -> SUBSET (1..MaxFiles)]
  BY DEF TypeOK
<1> USE CaptureAssumption DEF CaptureAssumption, FileOf, OnDisk, NoFrame, reqVars, webVars, capdVars, rpcVars, dumpVars, supVars, envVars
<1>1. ASSUME NEW s \in Sessions, StartCheck(s) PROVE FileOf(t)'
  BY <1>1, <1>a, <1>b DEF StartCheck
<1>2. ASSUME NEW s \in Sessions, StartLock(s) PROVE FileOf(t)'
  BY <1>2, <1>a, <1>b DEF StartLock
<1>3. ASSUME NEW s \in Sessions, StartAsk(s) PROVE FileOf(t)'
  BY <1>3, <1>a, <1>b DEF StartAsk
<1>4. ASSUME NEW s \in Sessions, StartCommit(s) PROVE FileOf(t)'
  BY <1>4, <1>a, <1>b DEF StartCommit
<1>5. ASSUME NEW s \in Sessions, StartHub(s) PROVE FileOf(t)'
  BY <1>5, <1>a, <1>b DEF StartHub
<1>6. ASSUME NEW s \in Sessions, StartFail(s) PROVE FileOf(t)'
  BY <1>6, <1>a, <1>b DEF StartFail
<1>7. ASSUME NEW s \in Sessions, StartRelease(s) PROVE FileOf(t)'
  BY <1>7, <1>a, <1>b DEF StartRelease, ReleaseInterface
<1>8. ASSUME NEW s \in Sessions, StartRaises(s) PROVE FileOf(t)'
  BY <1>8, <1>a, <1>b DEF StartRaises
<1>9. ASSUME NEW s \in Sessions, CapdStart(s) PROVE FileOf(t)'
  <2>1. dump[s] = "none"
    BY <1>9 DEF CapdStart, StartInv
  <2> QED BY <1>9, <2>1, <1>a, <1>b DEF CapdStart
<1>10. ASSUME NEW s \in Sessions, Rotate(s) PROVE FileOf(t)'
  BY <1>10, <1>a, <1>b DEF Rotate
<1>11. ASSUME NEW s \in Sessions, DumpExits(s) PROVE FileOf(t)'
  BY <1>11, <1>a, <1>b DEF DumpExits
<1>12. ASSUME NEW s \in Sessions, CapdPoll(s) PROVE FileOf(t)'
  <2>1. /\ prev' = [prev EXCEPT ![s] = files[s]]
        /\ emitted' = [emitted EXCEPT ![s] = @ \cup NewlyClosed(s, FALSE)]
        /\ \A f \in NewlyClosed(s, FALSE) : f \in 1..MaxFiles /\ f \notin emitted[s] /\ f < files[s]
    BY <1>12, ClosedAreFresh DEF CapdPoll, Snapshot
  <2>2. UNCHANGED <<files, dump, scans>>
    BY <1>12 DEF CapdPoll
  <2>3. prev'[t] <= files'[t]
    BY <2>1, <2>2, <1>a, <1>b
  <2>4. /\ emitted[t] \subseteq emitted'[t]
        /\ t = s => NewlyClosed(s, FALSE) \subseteq emitted'[t]
    BY <2>1, <1>b
  <2>5. \A f \in emitted'[t] : f < files'[t] \/ dump'[t] = "dead"
    BY <2>1, <2>2, <1>a, <1>b
  <2>6. frame'[t].closed = frame[t].closed \/ (t = s /\ frame'[t].closed = NewlyClosed(s, FALSE))
    <3>1. CASE hub[s] = "open"
      <4>1. frame' = [frame EXCEPT ![s] = [closed |-> NewlyClosed(s, FALSE),
                                          running |-> dump[s] = "live", sent |-> TRUE]]
        BY <1>12, <3>1 DEF CapdPoll
      <4> QED BY <4>1, <1>b
    <3>2. CASE hub[s] # "open"
      BY <1>12, <3>2 DEF CapdPoll
    <3> QED BY <3>1, <3>2
  <2>7. frame'[t].closed \subseteq emitted'[t]
    BY <2>4, <2>6, <1>a
  <2>8. \A f \in 1..MaxFiles :
          /\ scans'[<<t, f>>] > 0 => f \in emitted'[t]
          /\ f \in frame'[t].closed => scans'[<<t, f>>] = 0
          /\ scans'[<<t, f>>] <= 1
    <3> SUFFICES ASSUME NEW f \in 1..MaxFiles
                 PROVE  /\ scans'[<<t, f>>] > 0 => f \in emitted'[t]
                        /\ f \in frame'[t].closed => scans'[<<t, f>>] = 0
                        /\ scans'[<<t, f>>] <= 1
      OBVIOUS
    <3>1. scans'[<<t, f>>] = scans[<<t, f>>] /\ scans[<<t, f>>] \in Nat
      BY <2>2, <1>b
    <3>2. /\ scans[<<t, f>>] > 0 => f \in emitted[t]
          /\ f \in frame[t].closed => scans[<<t, f>>] = 0
          /\ scans[<<t, f>>] <= 1
      BY <1>a
    <3>3. t = s /\ f \in NewlyClosed(s, FALSE) => f \notin emitted[t]
      BY <2>1
    <3>4. f \in frame'[t].closed => scans[<<t, f>>] = 0
      <4>1. f \in frame'[t].closed =>
              f \in frame[t].closed \/ (t = s /\ f \in NewlyClosed(s, FALSE))
        BY <2>6
      <4>2. f \notin emitted[t] => scans[<<t, f>>] = 0
        BY <3>1, <3>2
      <4> QED BY <3>2, <3>3, <4>1, <4>2
    <3>5. scans[<<t, f>>] > 0 => f \in emitted'[t]
      BY <2>4, <3>2
    <3> QED BY <3>1, <3>2, <3>4, <3>5
  <2> QED BY <2>3, <2>5, <2>7, <2>8
<1>13. ASSUME NEW s \in Sessions, HubConnect(s) PROVE FileOf(t)'
  BY <1>13, <1>a, <1>b DEF HubConnect
<1>14. ASSUME NEW s \in Sessions, HubFrame(s) PROVE FileOf(t)'
  BY <1>14, <1>a, <1>b DEF HubFrame
<1>15. ASSUME NEW s \in Sessions, HubEof(s) PROVE FileOf(t)'
  BY <1>15, <1>a, <1>b DEF HubEof
<1>16. ASSUME NEW s \in Sessions, NEW c \in Clicks, StopCheck(s, c) PROVE FileOf(t)'
  BY <1>16, <1>a, <1>b DEF StopCheck
<1>17. ASSUME NEW s \in Sessions, NEW c \in Clicks, StopMark(s, c) PROVE FileOf(t)'
  BY <1>17, <1>a, <1>b DEF StopMark
<1>18. ASSUME NEW s \in Sessions, NEW c \in Clicks, StopAsk(s, c) PROVE FileOf(t)'
  BY <1>18, <1>a, <1>b DEF StopAsk
<1>19. ASSUME NEW s \in Sessions, NEW c \in Clicks, StopCommit(s, c) PROVE FileOf(t)'
  BY <1>19, <1>a, <1>b DEF StopCommit
<1>20. ASSUME NEW s \in Sessions, NEW c \in Clicks, StopFail(s, c) PROVE FileOf(t)'
  BY <1>20, <1>a, <1>b DEF StopFail
<1>21. ASSUME NEW s \in Sessions, NEW c \in Clicks, StopTearDown(s, c) PROVE FileOf(t)'
  BY <1>21, <1>a, <1>b DEF StopTearDown, ReleaseInterface
<1>22. ASSUME NEW s \in Sessions, NEW c \in Clicks, StopRaises(s, c) PROVE FileOf(t)'
  BY <1>22, <1>a, <1>b DEF StopRaises
<1>23. ASSUME NEW s \in Sessions, NEW c \in Clicks, CapdStopFind(s, c) PROVE FileOf(t)'
  BY <1>23, <1>a, <1>b DEF CapdStopFind
<1>24. ASSUME NEW s \in Sessions, NEW c \in Clicks, CapdStopKill(s, c) PROVE FileOf(t)'
  BY <1>24, <1>a, <1>b DEF CapdStopKill
<1>25. ASSUME NEW s \in Sessions, NEW c \in Clicks, CapdStopSnapshot(s, c) PROVE FileOf(t)'
  <2>1. /\ prev' = [prev EXCEPT ![s] = files[s]]
        /\ emitted' = [emitted EXCEPT ![s] = @ \cup NewlyClosed(s, TRUE)]
    BY <1>25, ClosedAreFresh DEF CapdStopSnapshot, Snapshot
  <2>2. dump[s] = "dead"
    BY <1>25 DEF CapdStopSnapshot, StopInv, StopOf
  <2>3. UNCHANGED <<files, dump, scans, frame>>
    BY <1>25 DEF CapdStopSnapshot
  <2>4. prev'[t] <= files'[t]
    BY <2>1, <2>3, <1>a, <1>b
  <2>6. emitted[t] \subseteq emitted'[t]
    BY <2>1, <1>b
  <2>5. \A f \in emitted'[t] : f < files'[t] \/ dump'[t] = "dead"
    BY <2>1, <2>2, <2>3, <1>a, <1>b
  <2> QED BY <2>3, <2>4, <2>5, <2>6, <1>a
<1>26. ASSUME NEW s \in Sessions, NEW c \in Clicks, CapdStopReply(s, c) PROVE FileOf(t)'
  BY <1>26, <1>a, <1>b DEF CapdStopReply
<1>27. ASSUME NEW s \in Sessions, NEW c \in Clicks, CapdStopRaises(s, c) PROVE FileOf(t)'
  BY <1>27, <1>a, <1>b DEF CapdStopRaises
<1>28. CASE WebCrash
  BY <1>28, <1>a, <1>b DEF WebCrash
<1>29. CASE CapdCrash
  BY <1>29, <1>a, <1>b DEF CapdCrash
<1>30. CASE CapdRestart
  BY <1>30, <1>a, <1>b DEF CapdRestart
<1>31. CASE UNCHANGED vars \/ AllQuiet
  <2>1. UNCHANGED vars
    BY <1>31 DEF AllQuiet
  <2> QED BY <2>1, <1>a, <1>b DEF vars
<1> QED
  BY <1>1, <1>2, <1>3, <1>4, <1>5, <1>6, <1>7, <1>8, <1>9, <1>10, <1>11, <1>12, <1>13, <1>14, <1>15, <1>16, <1>17, <1>18, <1>19, <1>20, <1>21, <1>22, <1>23, <1>24, <1>25, <1>26, <1>27, <1>28, <1>29, <1>30, <1>31
     DEF Next, StartNext, StopNext, CapdStopNext
-----------------------------------------------------------------------------
(* The conjunction is inductive.                                            *)

IInv == TypeOK /\ CallInv /\ LockInv /\ FileInv

\* The initial states satisfy the invariant.
LEMMA InitIInv == Init => IInv
<1> SUFFICES ASSUME Init PROVE IInv
  OBVIOUS
<1> USE CaptureAssumption DEF CaptureAssumption, Init
<1>1. TypeOK
  BY DEF TypeOK, NoFrame
<1>2. StartInv
  BY DEF StartInv
<1>3. StopInv
  BY DEF StopInv, StopOf, CapdStopping
<1>4. RowInv
  BY DEF RowInv
<1>5. LockInv
  BY DEF LockInv
<1>6. FileInv
  BY DEF FileInv, FileOf, NoFrame
<1> QED
  BY <1>1, <1>2, <1>3, <1>4, <1>5, <1>6 DEF IInv, CallInv

\* Every step preserves it.
LEMMA NextIInv == IInv /\ [Next]_vars => IInv'
<1> SUFFICES ASSUME IInv, [Next]_vars PROVE IInv'
  OBVIOUS
<1>1. TypeOK /\ StartInv /\ StopInv /\ RowInv /\ CallInv /\ LockInv /\ FileInv
  BY DEF IInv, CallInv
<1>2. TypeOK'
  BY <1>1, TypeStep
<1>3. StartInv'
  BY <1>1, StartInvStep
<1>4. StopInv'
  BY <1>1, StopInvStep
<1>5. RowInv'
  BY <1>1, RowInvStep
<1>6. LockInv'
  BY <1>1, LockInvStep
<1>7. FileInv'
  BY <1>1, FileInvStep
<1> QED
  BY <1>2, <1>3, <1>4, <1>5, <1>6, <1>7 DEF IInv, CallInv

\* The invariant holds in every state.
LEMMA IInvHolds == Spec => []IInv
<1> QED
  BY InitIInv, NextIInv, PTL DEF Spec

-----------------------------------------------------------------------------
(* The theorems.                                                            *)

\* The variables of CaptureSession keep their types.
THEOREM CaptureTypeCorrect == Spec => []TypeOK
<1>1. IInv => TypeOK
  BY DEF IInv
<1> QED
  BY IInvHolds, <1>1, PTL

\* A session shown as stopped, or as failed, has no dumpcap any more.
THEOREM SettledIsSilentHolds == Spec => []SettledIsSilent
<1>1. IInv => SettledIsSilent
  BY DEF IInv, CallInv, RowInv, Silent, SettledIsSilent
<1> QED
  BY IInvHolds, <1>1, PTL

\* The locks of the web process keep two captures off one interface.
THEOREM InterfaceExclusiveHolds == Spec => []InterfaceExclusive
<1>1. IInv => InterfaceExclusive
  <2> SUFFICES ASSUME IInv, NEW s \in Sessions, NEW t \in Sessions, TwoLive(s, t),
                      ~(webCrashes > 0), s \notin early, t \notin early
               PROVE  FALSE
    BY DEF InterfaceExclusive
  <2>1. webCrashes = 0
    BY DEF IInv, TypeOK
  <2>2. lock[iface[s]] = s /\ lock[iface[t]] = t /\ s # t
    BY <2>1 DEF IInv, LockInv, TwoLive
  <2>3. iface[s] # iface[t]
    BY <2>2
  <2>4. iface[s] \in Interfaces /\ iface[t] \in Interfaces
    BY DEF IInv, TypeOK
  <2>5. iface[s] = AnyDevice \/ iface[t] = AnyDevice
    BY <2>3 DEF TwoLive, Overlap
  <2>6. s # NoSession /\ t # NoSession
    BY CaptureAssumption DEF CaptureAssumption
  <2> QED
    BY <2>2, <2>3, <2>4, <2>5, <2>6 DEF IInv, LockInv
<1> QED
  BY IInvHolds, <1>1, PTL

\* What the engine gets, dumpcap has closed.
THEOREM NeverScansOpenFileHolds == Spec => []NeverScansOpenFile
<1>1. IInv => NeverScansOpenFile
  <2> SUFFICES ASSUME IInv, NEW s \in Sessions, NEW f \in 1..MaxFiles, scans[<<s, f>>] > 0
               PROVE  f < files[s] \/ dump[s] = "dead"
    BY DEF NeverScansOpenFile
  <2>1. FileOf(s)
    BY DEF IInv, FileInv
  <2> QED
    BY <2>1 DEF FileOf
<1> QED
  BY IInvHolds, <1>1, PTL

\* No file gets two scans.
THEOREM ScannedOnceHolds == Spec => []ScannedOnce
<1>1. IInv => ScannedOnce
  BY DEF IInv, FileInv, FileOf, ScannedOnce
<1> QED
  BY IInvHolds, <1>1, PTL
=============================================================================
