------------------------------- MODULE StatsHub -------------------------------
(***************************************************************************)
(* The fan-out of one live capture: a hub thread reads the stats frames of  *)
(* capd, hands the closed files to the rotation consumer and copies each    *)
(* frame to the queues of the browsers that watch.                          *)
(*                                                                          *)
(* A subscriber's generator yields inside `with sub.cond`, so its condition *)
(* is held while a frame is being written to a slow browser; the hub, which *)
(* takes the same condition to append a frame, waits as long.  Frames are   *)
(* numbered as capd sends them.                                             *)
(***************************************************************************)
EXTENDS Naturals, Sequences

CONSTANTS
  Subs,        \* SSE requests, each subscribing once
  Nobody,
  ReplayLen,   \* _REPLAY_BUFFER
  QueueLen,    \* maxlen of a subscriber's queue
  MaxFrames    \* bound: frames capd sends

ASSUME HubAssumption ==
  /\ Nobody \notin Subs
  /\ {ReplayLen, QueueLen, MaxFrames} \subseteq Nat \ {0} /\ ReplayLen <= QueueLen

VARIABLES
  hub,        \* the hub thread
  frame,      \* the frame it works on
  final,      \* that frame says "running": false
  seen,       \* it handled such a frame
  stopEvent,
  pending,    \* subscribers its loop has still to visit
  stopper,    \* shutdown() of the stop request, and
  toClose,    \* the subscribers it has still to close
  lock,       \* who holds hub._lock for longer than one step
  replay,     \* _last_frames
  subs,       \* _subscribers
  sub,        \* each generator
  queue, closed,   \* each subscriber's queue and flag
  now,        \* each: the frame it is writing to its browser, 0 for a keepalive
  last,       \* auxiliary: the last frame each wrote, 0 for none
  lost        \* auxiliary: subscribers whose queue overflowed, or whom
              \* shutdown() closed

hubVars  == <<hub, frame, final, seen, pending, replay>>
stopVars == <<stopEvent, stopper, toClose>>
subVars  == <<sub, now, last>>
vars == <<hubVars, stopVars, lock, subs, subVars, queue, closed, lost>>

Init ==
  /\ hub = "reading" /\ frame = 0 /\ final = FALSE /\ seen = FALSE
  /\ pending = {} /\ replay = <<>>
  /\ stopEvent = FALSE /\ stopper = "none" /\ toClose = {}
  /\ lock = Nobody /\ subs = {}
  /\ sub = [s \in Subs |-> "none"]
  /\ queue = [s \in Subs |-> <<>>] /\ closed = [s \in Subs |-> FALSE]
  /\ now = [s \in Subs |-> 0] /\ last = [s \in Subs |-> 0]
  /\ lost = {}

\* deque(maxlen = n).append
Keep(q, n, f) == LET all == Append(q, f) IN
                 IF Len(all) > n THEN Tail(all) ELSE all

\* sub.cond is held while the generator writes.
CondFree(s) == sub[s] # "writing"

-----------------------------------------------------------------------------
(* StatsHub._run and _handle_frame.                                         *)

\* The next frame, unless stop_event is set, which is looked at first.
HubReads ==
  /\ hub = "reading"
  /\ \/ /\ frame < MaxFrames
        /\ frame' = frame + 1 /\ final' \in BOOLEAN
        /\ hub' = IF stopEvent THEN "ending" ELSE "got"
     \/ \* end of the stream, or no connection
        hub' = "ending" /\ UNCHANGED <<frame, final>>
  /\ UNCHANGED <<seen, pending, replay, stopVars, lock, subs, subVars, queue,
                 closed, lost>>

\* Mutation: a frame is kept for replay only while the capture runs.
RememberRunning ==
  /\ hub = "got" /\ lock = Nobody
  /\ hub' = "kept"
  /\ replay' = IF final THEN replay ELSE Keep(replay, ReplayLen, frame)
  /\ UNCHANGED <<frame, final, seen, pending, stopVars, lock, subs, subVars,
                 queue, closed, lost>>

HubKeeps ==
  /\ hub = "got" /\ lock = Nobody
  /\ hub' = "kept"
  /\ replay' = Keep(replay, ReplayLen, frame)
  /\ UNCHANGED <<frame, final, seen, pending, stopVars, lock, subs, subVars,
                 queue, closed, lost>>

\* The file listeners run here (HubFrame of CaptureSession); then the
\* subscribers are listed once.
HubLists ==
  /\ hub = "kept" /\ lock = Nobody
  /\ hub' = "casting" /\ pending' = subs
  /\ UNCHANGED <<frame, final, seen, replay, stopVars, lock, subs, subVars, queue, closed,
                 lost>>

\* Mutation: a subscriber whose condition is held is passed over.
HubCastsOrSkips(s) ==
  /\ hub = "casting" /\ s \in pending
  /\ pending' = pending \ {s}
  /\ queue' = [queue EXCEPT ![s] = IF closed[s] \/ ~CondFree(s) THEN @
                                   ELSE Keep(@, QueueLen, frame)]
  /\ lost' = IF ~closed[s] /\ Len(queue[s]) = QueueLen THEN lost \cup {s} ELSE lost
  /\ UNCHANGED <<hub, frame, final, seen, replay, stopVars, lock, subs, subVars, closed>>

HubCasts(s) ==
  /\ hub = "casting" /\ s \in pending /\ CondFree(s)
  /\ pending' = pending \ {s}
  /\ queue' = [queue EXCEPT ![s] = IF closed[s] THEN @ ELSE Keep(@, QueueLen, frame)]
  /\ lost' = IF ~closed[s] /\ Len(queue[s]) = QueueLen THEN lost \cup {s} ELSE lost
  /\ UNCHANGED <<hub, frame, final, seen, replay, stopVars, lock, subs, subVars,
                 closed>>

HubNext ==
  /\ hub = "casting" /\ pending = {}
  /\ hub' = IF final THEN "ending" ELSE "reading"
  /\ seen' = final
  /\ UNCHANGED <<frame, final, pending, replay, stopVars, lock, subs, subVars,
                 queue, closed, lost>>

\* The finally clause holds the hub's lock while it closes the subscribers.
HubEnds ==
  /\ hub = "ending" /\ lock = Nobody
  /\ hub' = "closing" /\ lock' = "hub" /\ pending' = subs
  /\ UNCHANGED <<frame, final, seen, replay, stopVars, subs, subVars, queue,
                 closed, lost>>

HubCloses(s) ==
  /\ hub = "closing" /\ s \in pending /\ CondFree(s)
  /\ pending' = pending \ {s}
  /\ closed' = [closed EXCEPT ![s] = TRUE]
  /\ UNCHANGED <<hub, frame, final, seen, replay, stopVars, lock, subs, subVars,
                 queue, lost>>

HubEnded ==
  /\ hub = "closing" /\ pending = {}
  /\ hub' = "ended" /\ lock' = Nobody
  /\ UNCHANGED <<frame, final, seen, pending, replay, stopVars, subs, subVars,
                 queue, closed, lost>>

-----------------------------------------------------------------------------
(* shutdown(), called by stop_session.                                      *)

Shutdown ==
  /\ stopper = "none"
  /\ stopEvent' = TRUE /\ stopper' = "called"
  /\ UNCHANGED <<hubVars, toClose, lock, subs, subVars, queue, closed, lost>>

ShutdownLocks ==
  /\ stopper = "called" /\ lock = Nobody
  /\ stopper' = "closing" /\ lock' = "stop" /\ toClose' = subs
  /\ UNCHANGED <<hubVars, stopEvent, subs, subVars, queue, closed, lost>>

ShutdownCloses(s) ==
  /\ stopper = "closing" /\ s \in toClose /\ CondFree(s)
  /\ toClose' = toClose \ {s}
  /\ closed' = [closed EXCEPT ![s] = TRUE]
  /\ lost' = lost \cup {s}
  /\ UNCHANGED <<hubVars, stopEvent, stopper, lock, subs, subVars, queue>>

ShutdownDone ==
  /\ stopper = "closing" /\ toClose = {}
  /\ stopper' = "done" /\ lock' = Nobody
  /\ UNCHANGED <<hubVars, stopEvent, toClose, subs, subVars, queue, closed, lost>>

-----------------------------------------------------------------------------
(* subscribe(), one generator per browser.                                  *)

Subscribe(s) ==
  /\ sub[s] = "none" /\ lock = Nobody
  /\ sub' = [sub EXCEPT ![s] = "waiting"]
  /\ queue' = [queue EXCEPT ![s] = replay]
  /\ subs' = subs \cup {s}
  /\ UNCHANGED <<hubVars, stopVars, lock, now, last, closed, lost>>

Write(s) ==
  /\ sub' = [sub EXCEPT ![s] = "writing"]
  /\ now' = [now EXCEPT ![s] = Head(queue[s])]
  /\ queue' = [queue EXCEPT ![s] = Tail(@)]

\* It wakes for a frame; closed with an empty queue, it returns.
Wake(s) ==
  /\ sub[s] = "waiting"
  /\ IF queue[s] # <<>>
     THEN Write(s)
     ELSE closed[s] /\ sub' = [sub EXCEPT ![s] = "leaving"] /\ UNCHANGED <<now, queue>>
  /\ UNCHANGED <<hubVars, stopVars, lock, subs, last, closed, lost>>

\* 15 s without a frame.
Keepalive(s) ==
  /\ sub[s] = "waiting" /\ queue[s] = <<>> /\ ~closed[s]
  /\ sub' = [sub EXCEPT ![s] = "writing"]
  /\ now' = [now EXCEPT ![s] = 0]
  /\ UNCHANGED <<hubVars, stopVars, lock, subs, last, queue, closed, lost>>

IsFinal(f) == f = frame /\ final

\* The browser took what was written: the last stats frame ends the
\* generator, and the queue is drained before the condition is released.
Written(s) ==
  /\ sub[s] = "writing"
  /\ last' = [last EXCEPT ![s] = IF now[s] = 0 THEN @ ELSE now[s]]
  /\ CASE now[s] # 0 /\ IsFinal(now[s]) ->
            sub' = [sub EXCEPT ![s] = "leaving"] /\ UNCHANGED <<now, queue>>
       [] ~(now[s] # 0 /\ IsFinal(now[s])) /\ now[s] # 0 /\ queue[s] # <<>> -> Write(s)
       [] OTHER -> /\ sub' = [sub EXCEPT ![s] = "waiting"]
                   /\ now' = [now EXCEPT ![s] = 0] /\ UNCHANGED queue
  /\ UNCHANGED <<hubVars, stopVars, lock, subs, closed, lost>>

\* A write to a closed tab raises inside the generator.
TabClosed(s) ==
  /\ sub[s] = "writing"
  /\ sub' = [sub EXCEPT ![s] = "leaving"]
  /\ UNCHANGED <<hubVars, stopVars, lock, subs, now, last, queue, closed, lost>>

\* The generator's own finally clause.
Leave(s) ==
  /\ sub[s] = "leaving" /\ lock = Nobody
  /\ sub' = [sub EXCEPT ![s] = "gone"]
  /\ subs' = subs \ {s}
  /\ now' = [now EXCEPT ![s] = 0] /\ last' = [last EXCEPT ![s] = 0]
  /\ queue' = [queue EXCEPT ![s] = <<>>]
  /\ UNCHANGED <<hubVars, stopVars, lock, closed, lost>>

-----------------------------------------------------------------------------
HubStep ==
  \/ HubKeeps \/ HubLists \/ HubNext \/ HubEnds \/ HubEnded
  \/ \E s \in Subs : HubCasts(s) \/ HubCloses(s)

ShutdownStep ==
  ShutdownLocks \/ ShutdownDone \/ \E s \in Subs : ShutdownCloses(s)

SubStep(s) == Wake(s) \/ Written(s) \/ Leave(s)

\* Nobody is left but, possibly, browsers that would still come.
Quiet ==
  /\ hub = "ended" /\ stopper = "done" /\ \A s \in Subs : sub[s] = "gone"
  /\ UNCHANGED vars

Next ==
  \/ HubReads \/ HubStep \/ Shutdown \/ ShutdownStep
  \/ \E s \in Subs : Subscribe(s) \/ SubStep(s) \/ Keepalive(s) \/ TabClosed(s)
  \/ Quiet

Spec == Init /\ [][Next]_vars

\* Threads are scheduled, and a browser takes what is written to it or goes
\* away; capd, users and the stop request owe nothing.
Fairness ==
  /\ WF_vars(HubStep) /\ WF_vars(ShutdownStep)
  /\ \A s \in Subs : WF_vars(Wake(s)) /\ WF_vars(Written(s)) /\ SF_vars(Leave(s))

FairSpec == Spec /\ Fairness

-----------------------------------------------------------------------------
\* A browser that joins while a frame is being handed round gets that frame,
\* through the replay, the broadcast or both: what it is shown never goes
\* back, and never skips a frame unless its own queue overflowed.
NoFrameMissed ==
  [][\A s \in Subs : last'[s] # last[s] /\ last[s] # 0 /\ sub'[s] # "gone"
        => last'[s] > last[s] /\ (s \in lost' \/ last'[s] = last[s] + 1)]_vars

\* A hub that handled a frame saying the capture is over releases every
\* browser, also one that subscribes after the hub thread has ended.
FinalFrameEndsStreams ==
  \A s \in Subs : seen /\ sub[s] # "none" ~> sub[s] = "gone"
=============================================================================
