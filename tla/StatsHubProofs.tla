---------------------------- MODULE StatsHubProofs ----------------------------
(***************************************************************************)
(* What a browser is shown of a live capture, for any number of browsers,   *)
(* any length of the replay and of the queues and any number of frames: a   *)
(* frame written after another one is the same frame again or the next one, *)
(* unless the browser's own queue overflowed (NoFrameMissed).               *)
(*                                                                          *)
(* The argument follows the frames still on their way to a browser s: the   *)
(* one it was shown last, the one being written, its queue.  They form a    *)
(* run (ShownInOrder); its end, Newest(s), is where the hub stands          *)
(* (UpToDate): behind by one frame while the hub has not yet come to s.     *)
(***************************************************************************)
EXTENDS StatsHub, TLAPS

Frames == Nat \ {0}

Watching(s) == sub[s] \in {"waiting", "writing"}

HubInv ==
  /\ hub \in {"reading", "got", "kept", "casting", "ending", "closing", "ended"}
  /\ frame \in Nat /\ (hub \in {"got", "kept", "casting"} => frame # 0) /\ final \in BOOLEAN
  /\ pending \subseteq Subs /\ subs \subseteq Subs
  /\ \A s \in subs \cup pending : sub[s] # "none"
  /\ lost \subseteq Subs
  /\ closed \in [Subs -> BOOLEAN]

SubInv ==
  /\ sub \in [Subs -> {"none", "waiting", "writing", "leaving", "gone"}]
  /\ queue \in [Subs -> Seq(Frames)]
  /\ now \in [Subs -> Nat] /\ last \in [Subs -> Nat]
  /\ \A s \in Subs : /\ Len(queue[s]) <= QueueLen
                     /\ sub[s] = "none" => now[s] = 0 /\ last[s] = 0
                     /\ sub[s] = "waiting" => now[s] = 0
                     /\ Watching(s) => s \in subs

\* b may follow a
Next1(a, b) == b = a \/ b = a + 1

IsRun(q) == \A i \in 1 .. Len(q) - 1 : Next1(q[i], q[i + 1])

\* The replay is a run that ends where the hub stands.
ReplayInv ==
  /\ replay \in Seq(Frames) /\ Len(replay) <= ReplayLen
  /\ IsRun(replay)
  /\ replay # <<>> =>
       /\ hub \in {"reading", "kept", "casting"} => replay[Len(replay)] = frame
       /\ hub = "got" => replay[Len(replay)] + 1 = frame

\* b is shown to s after a.
Follows(s, a, b) == a <= b /\ (s \in lost \/ Next1(a, b))

ShownInOrder(s) ==
  /\ IsRun(queue[s])
  /\ last[s] # 0 /\ now[s] # 0 => Follows(s, last[s], now[s])
  /\ now[s] # 0 /\ queue[s] # <<>> => Follows(s, now[s], queue[s][1])
  /\ last[s] # 0 /\ now[s] = 0 /\ queue[s] # <<>> => Follows(s, last[s], queue[s][1])

Newest(s) == IF queue[s] # <<>> THEN queue[s][Len(queue[s])]
             ELSE IF now[s] # 0 THEN now[s] ELSE last[s]

UpToDate(s) ==
  Newest(s) # 0 /\ ~closed[s] =>
    /\ hub = "reading" => Newest(s) = frame
    /\ hub = "got" => Newest(s) + 1 = frame
    /\ hub = "kept" => Next1(Newest(s), frame)
    /\ hub = "casting" => IF s \in pending THEN Next1(Newest(s), frame)
                          ELSE Newest(s) = frame

StreamInv == \A s \in Subs : Watching(s) => ShownInOrder(s) /\ UpToDate(s)

IInv == HubInv /\ SubInv /\ ReplayInv /\ StreamInv

-----------------------------------------------------------------------------
(* Queues                                                                   *)

\* What taking the first frame off a queue leaves.
LEMMA TailOfQueue ==
  ASSUME NEW q \in Seq(Frames), q # <<>>
  PROVE  /\ Tail(q) \in Seq(Frames)
         /\ Len(Tail(q)) = Len(q) - 1 /\ Len(q) \in Nat \ {0}
         /\ Head(q) = q[1] /\ q[1] \in Frames
         /\ \A i \in 1 .. Len(q) - 1 : Tail(q)[i] = q[i + 1]
         /\ \A i \in 1 .. Len(q) : q[i] \in Frames
  OBVIOUS

\* deque(maxlen = n).append: the frame comes last, the others keep their
\* order, and the first one falls out of a full queue.
LEMMA KeepTypes ==
  ASSUME NEW q \in Seq(Frames), NEW n \in Nat \ {0}, NEW f \in Frames, Len(q) <= n
  PROVE  /\ Keep(q, n, f) \in Seq(Frames)
         /\ Len(Keep(q, n, f)) = IF Len(q) < n THEN Len(q) + 1 ELSE n
         /\ \A i \in 1 .. Len(Keep(q, n, f)) - 1 :
              Keep(q, n, f)[i] = IF Len(q) < n THEN q[i] ELSE q[i + 1]
         /\ Keep(q, n, f)[Len(Keep(q, n, f))] = f
<1> DEFINE all == Append(q, f)
<1>1. /\ all \in Seq(Frames) /\ Len(all) = Len(q) + 1 /\ all # <<>>
      /\ \A i \in 1 .. Len(q) : all[i] = q[i]
      /\ all[Len(q) + 1] = f
  OBVIOUS
<1>2. Len(q) \in Nat
  OBVIOUS
<1>3. CASE Len(q) < n
  <2>1. Keep(q, n, f) = all
    BY <1>1, <1>2, <1>3 DEF Keep
  <2> QED BY <2>1, <1>1, <1>2, <1>3
<1>4. CASE ~(Len(q) < n)
  <2>1. Keep(q, n, f) = Tail(all) /\ Len(q) = n
    BY <1>1, <1>2, <1>4 DEF Keep
  <2>2. /\ Tail(all) \in Seq(Frames) /\ Len(Tail(all)) = n
        /\ \A i \in 1 .. n : Tail(all)[i] = all[i + 1]
    <3> HIDE DEF all
    <3> QED BY <1>1, <1>2, <2>1, TailOfQueue
  <2> HIDE DEF all
  <2>3. \A i \in 1 .. n - 1 : Tail(all)[i] = q[i + 1]
    BY <1>1, <1>2, <2>1, <2>2
  <2>4. Tail(all)[n] = f
    BY <1>1, <2>1, <2>2
  <2> QED BY <1>2, <1>4, <2>1, <2>2, <2>3, <2>4
<1> QED BY <1>3, <1>4

\* Appending the frame that may follow the last one keeps a run a run.
LEMMA KeepRun ==
  ASSUME NEW q \in Seq(Frames), NEW n \in Nat \ {0}, NEW f \in Frames, Len(q) <= n,
         IsRun(q), q # <<>> => Next1(q[Len(q)], f)
  PROVE  /\ IsRun(Keep(q, n, f)) /\ Keep(q, n, f) # <<>>
         /\ Keep(q, n, f)[1] \in Frames
         /\ q = <<>> => Keep(q, n, f)[1] = f
         /\ q # <<>> => q[1] <= Keep(q, n, f)[1]
         /\ q # <<>> /\ Len(q) < n => q[1] = Keep(q, n, f)[1]
<1> DEFINE k == Keep(q, n, f)
<1>1. /\ k \in Seq(Frames) /\ k[Len(k)] = f
      /\ Len(k) = IF Len(q) < n THEN Len(q) + 1 ELSE n
      /\ \A i \in 1 .. Len(k) - 1 : k[i] = IF Len(q) < n THEN q[i] ELSE q[i + 1]
  BY KeepTypes
<1>2. Len(q) \in Nat /\ \A i \in 1 .. Len(q) : q[i] \in Frames
  OBVIOUS
<1>3. q = <<>> <=> Len(q) = 0
  OBVIOUS
<1> HIDE DEF k
<1>4. k # <<>> /\ k[1] \in Frames
  BY <1>1, <1>2
<1>5. IsRun(k)
  <2> SUFFICES ASSUME NEW i \in 1 .. Len(k) - 1
               PROVE  Next1(k[i], k[i + 1])
    BY DEF IsRun
  <2>1. CASE Len(q) < n
    <3>1. CASE i = Len(q)
      BY <1>1, <1>2, <1>3, <2>1, <3>1
    <3>2. CASE i # Len(q)
      <4>1. k[i] = q[i] /\ k[i + 1] = q[i + 1] /\ i \in 1 .. Len(q) - 1
        BY <1>1, <1>2, <2>1, <3>2
      <4> QED BY <4>1 DEF IsRun
    <3> QED BY <3>1, <3>2
  <2>2. CASE ~(Len(q) < n)
    <3>1. CASE i = n - 1
      BY <1>1, <1>2, <1>3, <2>2, <3>1
    <3>2. CASE i # n - 1
      <4>1. k[i] = q[i + 1] /\ k[i + 1] = q[(i + 1) + 1] /\ i + 1 \in 1 .. Len(q) - 1
        BY <1>1, <1>2, <2>2, <3>2
      <4> QED BY <4>1 DEF IsRun
    <3> QED BY <3>1, <3>2
  <2> QED BY <2>1, <2>2
<1>6. q = <<>> => k[1] = f
  BY <1>1, <1>2, <1>3
<1>7. q # <<>> /\ Len(q) < n => q[1] = k[1]
  BY <1>1, <1>2, <1>3
<1>8. q # <<>> /\ ~(Len(q) < n) => q[1] <= k[1]
  <2> SUFFICES ASSUME q # <<>>, ~(Len(q) < n)
               PROVE  q[1] <= k[1]
    OBVIOUS
  <2>1. CASE n = 1
    BY <1>1, <1>2, <1>3, <2>1 DEF Next1, Frames
  <2>2. CASE n # 1
    <3>1. k[1] = q[2] /\ 1 \in 1 .. Len(q) - 1 /\ q[1] \in Nat /\ q[2] = q[1 + 1]
      BY <1>1, <1>2, <2>2 DEF Frames
    <3>2. Next1(q[1], q[1 + 1])
      BY <3>1 DEF IsRun
    <3> QED BY <3>1, <3>2 DEF Next1
  <2> QED BY <2>1, <2>2
<1>9. k[1] <= k[1]
  BY <1>4 DEF Frames
<1> QED BY <1>4, <1>5, <1>6, <1>7, <1>8, <1>9 DEF k

\* A run without its first frame is a run that the first frame leads to.
LEMMA TailRun ==
  ASSUME NEW q \in Seq(Frames), q # <<>>, IsRun(q)
  PROVE  /\ IsRun(Tail(q))
         /\ Tail(q) # <<>> => /\ Next1(q[1], Tail(q)[1])
                              /\ Tail(q)[Len(Tail(q))] = q[Len(q)]
         /\ Tail(q) = <<>> => q[1] = q[Len(q)]
<1> DEFINE t == Tail(q)
<1>1. /\ t \in Seq(Frames) /\ Len(t) = Len(q) - 1 /\ Len(q) \in Nat \ {0}
      /\ \A i \in 1 .. Len(q) - 1 : t[i] = q[i + 1]
  BY TailOfQueue
<1> HIDE DEF t
<1>2. t = <<>> <=> Len(t) = 0
  BY <1>1
<1>3. IsRun(t)
  <2> SUFFICES ASSUME NEW i \in 1 .. Len(t) - 1
               PROVE  Next1(t[i], t[i + 1])
    BY DEF IsRun
  <2>1. t[i] = q[i + 1] /\ t[i + 1] = q[(i + 1) + 1] /\ i + 1 \in 1 .. Len(q) - 1
    BY <1>1
  <2> QED BY <2>1 DEF IsRun
<1>4. t # <<>> => Next1(q[1], t[1]) /\ t[Len(t)] = q[Len(q)]
  BY <1>1, <1>2 DEF IsRun
<1>5. t = <<>> => q[1] = q[Len(q)]
  <2>1. t = <<>> => Len(q) = 1
    BY <1>1, <1>2
  <2> QED BY <2>1
<1> QED BY <1>3, <1>4, <1>5 DEF t
-----------------------------------------------------------------------------
(* Steps that do not move the stream of s                                   *)

\* A stream nothing was added to or taken from stays in order.
LEMMA ShownFrame ==
  ASSUME NEW s \in Subs, ShownInOrder(s),
         queue'[s] = queue[s], now'[s] = now[s], last'[s] = last[s],
         s \in lost => s \in lost'
  PROVE  ShownInOrder(s)' /\ Newest(s)' = Newest(s)
  BY DEF ShownInOrder, Follows, Newest

\* A stream stays up to date when the hub does not move, or ends.
LEMMA UpToDateFrame ==
  ASSUME NEW s \in Subs, UpToDate(s), Newest(s)' = Newest(s), closed[s] => closed'[s],
         \/ hub' \in {"ending", "closing", "ended"}
         \/ hub' = hub /\ frame' = frame /\ (s \in pending' <=> s \in pending)
  PROVE  UpToDate(s)'
  BY DEF UpToDate

\* Type facts in the form the steps below cite them.
LEMMA StreamTypes ==
  ASSUME IInv, NEW s \in Subs
  PROVE  /\ queue[s] \in Seq(Frames) /\ Len(queue[s]) <= QueueLen /\ Len(queue[s]) \in Nat
         /\ \A i \in 1 .. Len(queue[s]) : queue[s][i] \in Frames
         /\ queue[s] = <<>> <=> Len(queue[s]) = 0
         /\ now[s] \in Nat /\ last[s] \in Nat /\ closed[s] \in BOOLEAN
         /\ sub[s] \in {"none", "waiting", "writing", "leaving", "gone"}
         /\ Watching(s) => ShownInOrder(s) /\ UpToDate(s)
         /\ Newest(s) \in Nat
<1>1. /\ queue[s] \in Seq(Frames) /\ Len(queue[s]) <= QueueLen
      /\ now[s] \in Nat /\ last[s] \in Nat /\ closed[s] \in BOOLEAN
      /\ sub[s] \in {"none", "waiting", "writing", "leaving", "gone"}
      /\ Watching(s) => ShownInOrder(s) /\ UpToDate(s)
  BY DEF IInv, SubInv, StreamInv, HubInv
<1>2. /\ Len(queue[s]) \in Nat /\ queue[s] = <<>> <=> Len(queue[s]) = 0
      /\ \A i \in 1 .. Len(queue[s]) : queue[s][i] \in Frames
  BY <1>1
<1>3. Newest(s) \in Nat
  BY <1>1, <1>2 DEF Newest, Frames
<1> QED BY <1>1, <1>2, <1>3

\* The hub's own steps leave the browsers' streams as they are.
LEMMA HubOnly ==
  ASSUME IInv, UNCHANGED <<subs, sub, now, last, queue, closed, lost>>
  PROVE  /\ SubInv'
         /\ \A s \in Subs : Watching(s)' => /\ ShownInOrder(s)' /\ Newest(s)' = Newest(s)
                                           /\ UpToDate(s) /\ Watching(s)
<1>1. SubInv'
  BY DEF IInv, SubInv, Watching
<1>2. ASSUME NEW s \in Subs, Watching(s)'
      PROVE  /\ ShownInOrder(s)' /\ Newest(s)' = Newest(s)
             /\ UpToDate(s) /\ Watching(s)
  <2>1. Watching(s) /\ ShownInOrder(s) /\ UpToDate(s)
    BY <1>2 DEF IInv, StreamInv, Watching
  <2> QED BY <2>1, ShownFrame
<1> QED BY <1>1, <1>2

-----------------------------------------------------------------------------
(* The hub                                                                  *)

\* Reading a frame puts every stream one frame behind.
LEMMA HubReadsKeeps ==
  ASSUME IInv, HubReads
  PROVE  IInv'
<1> USE HubAssumption
<1>1. SubInv' /\ HubInv' /\ frame \in Nat
  BY HubOnly DEF HubReads, IInv, HubInv, subVars
<1>2. ReplayInv'
  BY <1>1 DEF HubReads, IInv, ReplayInv, stopVars
<1>3. StreamInv'
  <2> SUFFICES ASSUME NEW s \in Subs, Watching(s)'
               PROVE  ShownInOrder(s)' /\ UpToDate(s)'
    BY DEF StreamInv
  <2>1. ShownInOrder(s)' /\ Newest(s)' = Newest(s) /\ UpToDate(s)
    BY HubOnly DEF HubReads, subVars
  <2> QED BY <1>1, <2>1 DEF HubReads, UpToDate
<1> QED BY <1>1, <1>2, <1>3 DEF IInv

\* The frame is kept for replay before anybody is listed.
LEMMA HubKeepsKeeps ==
  ASSUME IInv, HubKeeps
  PROVE  IInv'
<1> USE HubAssumption
<1>1. SubInv' /\ HubInv' /\ frame \in Nat
  BY HubOnly DEF HubKeeps, IInv, HubInv, subVars
<1>2. /\ replay \in Seq(Frames) /\ Len(replay) <= ReplayLen /\ ReplayLen \in Nat \ {0}
      /\ IsRun(replay)
      /\ replay # <<>> => Next1(replay[Len(replay)], frame)
      /\ replay' = Keep(replay, ReplayLen, frame)
  BY DEF HubKeeps, IInv, ReplayInv, Next1
<1>3. frame \in Frames
  BY DEF HubKeeps, IInv, HubInv, Frames
<1>4. ReplayInv'
  <2>1. Len(replay) \in Nat
    BY <1>2
  <2> DEFINE k == Keep(replay, ReplayLen, frame)
  <2>6. /\ k \in Seq(Frames) /\ k[Len(k)] = frame
        /\ Len(k) = IF Len(replay) < ReplayLen THEN Len(replay) + 1 ELSE ReplayLen
    BY <1>2, <1>3, <2>1, KeepTypes
  <2>2. /\ replay' \in Seq(Frames) /\ replay'[Len(replay')] = frame
        /\ Len(replay') <= ReplayLen
    <3> HIDE DEF k
    <3>1. replay' = k
      BY <1>2 DEF k
    <3> QED BY <1>2, <2>1, <2>6, <3>1
  <2>3. IsRun(replay')
    BY <1>2, <1>3, KeepRun
  <2>4. hub' = "kept" /\ frame' = frame
    BY DEF HubKeeps
  <2>5. IsRun(replay)'
    BY <2>3 DEF IsRun
  <2> QED BY <2>2, <2>4, <2>5 DEF ReplayInv
<1>5. StreamInv'
  <2> SUFFICES ASSUME NEW s \in Subs, Watching(s)'
               PROVE  ShownInOrder(s)' /\ UpToDate(s)'
    BY DEF StreamInv
  <2>1. ShownInOrder(s)' /\ Newest(s)' = Newest(s) /\ UpToDate(s)
    BY HubOnly DEF HubKeeps, subVars
  <2> QED BY <2>1 DEF HubKeeps, UpToDate, Next1
<1> QED BY <1>1, <1>4, <1>5 DEF IInv

\* Everybody who watches is listed.
LEMMA HubListsKeeps ==
  ASSUME IInv, HubLists
  PROVE  IInv'
<1>1. SubInv' /\ HubInv'
  BY HubOnly DEF HubLists, IInv, HubInv, subVars
<1>2. ReplayInv'
  BY DEF HubLists, IInv, ReplayInv, stopVars
<1>3. StreamInv'
  <2> SUFFICES ASSUME NEW s \in Subs, Watching(s)'
               PROVE  ShownInOrder(s)' /\ UpToDate(s)'
    BY DEF StreamInv
  <2>1. /\ ShownInOrder(s)' /\ Newest(s)' = Newest(s) /\ UpToDate(s)
        /\ Watching(s)
    BY HubOnly DEF HubLists, subVars
  <2>2. s \in pending'
    BY <2>1 DEF IInv, SubInv, HubLists
  <2> QED BY <2>1, <2>2 DEF HubLists, UpToDate
<1> QED BY <1>1, <1>2, <1>3 DEF IInv

\* A frame handed to everybody listed leaves no stream behind.
LEMMA HubNextKeeps ==
  ASSUME IInv, HubNext
  PROVE  IInv'
<1>1. SubInv' /\ HubInv'
  BY HubOnly DEF HubNext, IInv, HubInv, subVars
<1>2. ReplayInv'
  BY DEF HubNext, IInv, ReplayInv, stopVars
<1>3. StreamInv'
  <2> SUFFICES ASSUME NEW s \in Subs, Watching(s)'
               PROVE  ShownInOrder(s)' /\ UpToDate(s)'
    BY DEF StreamInv
  <2>1. ShownInOrder(s)' /\ Newest(s)' = Newest(s) /\ UpToDate(s)
    BY HubOnly DEF HubNext, subVars
  <2> QED BY <2>1 DEF HubNext, UpToDate
<1> QED BY <1>1, <1>2, <1>3 DEF IInv

\* Ending the hub and shutting it down: streams stay, browsers may be closed.
LEMMA ClosingKeeps ==
  ASSUME IInv, HubEnds \/ HubEnded \/ Shutdown \/ ShutdownStep
               \/ \E s \in Subs : HubCloses(s)
  PROVE  IInv'
<1> USE DEF hubVars, stopVars, subVars
<1>1. /\ UNCHANGED <<frame, final, replay, subs, sub, now, last, queue>>
      /\ \/ hub' = hub /\ pending' = pending
         \/ /\ hub' \in {"closing", "ended"} /\ hub \in {"ending", "closing"}
            /\ pending' \subseteq subs \cup pending
      /\ lost \subseteq lost' /\ lost' \subseteq Subs
      /\ closed' \in [Subs -> BOOLEAN] /\ \A s \in Subs : closed[s] => closed'[s]
  <2>1. closed \in [Subs -> BOOLEAN] /\ lost \subseteq Subs
    BY DEF IInv, HubInv
  <2>2. CASE HubEnds \/ HubEnded
    BY <2>1, <2>2 DEF HubEnds, HubEnded
  <2>3. CASE Shutdown
    BY <2>1, <2>3 DEF Shutdown
  <2>4. CASE ShutdownStep
    BY <2>1, <2>4 DEF ShutdownStep, ShutdownLocks, ShutdownCloses, ShutdownDone
  <2>5. CASE \E s \in Subs : HubCloses(s)
    BY <2>1, <2>5 DEF HubCloses
  <2> QED BY <2>2, <2>3, <2>4, <2>5
<1>2. HubInv'
  BY <1>1 DEF IInv, HubInv
<1>3. SubInv'
  BY <1>1 DEF IInv, SubInv, Watching
<1>4. ReplayInv'
  BY <1>1 DEF IInv, ReplayInv
<1>5. StreamInv'
  <2> SUFFICES ASSUME NEW s \in Subs, Watching(s)'
               PROVE  ShownInOrder(s)' /\ UpToDate(s)'
    BY DEF StreamInv
  <2>1. ShownInOrder(s) /\ UpToDate(s)
    BY <1>1 DEF IInv, StreamInv, Watching
  <2>2. ShownInOrder(s)' /\ Newest(s)' = Newest(s)
    BY <1>1, <2>1, ShownFrame
  <2>3. \/ hub' \in {"ending", "closing", "ended"}
        \/ hub' = hub /\ frame' = frame /\ (s \in pending' <=> s \in pending)
    BY <1>1
  <2> QED BY <1>1, <2>1, <2>2, <2>3, UpToDateFrame
<1> QED BY <1>2, <1>3, <1>4, <1>5 DEF IInv

\* The frame is appended to the queue of one subscriber.
LEMMA HubCastsKeeps ==
  ASSUME IInv, NEW c \in Subs, HubCasts(c)
  PROVE  IInv'
<1> USE HubAssumption
<1>1. /\ hub = "casting"
      /\ UNCHANGED <<hub, frame, final, replay, subs, sub, now, last, closed>>
      /\ pending' = pending \ {c}
      /\ queue' = [queue EXCEPT ![c] = IF closed[c] THEN @ ELSE Keep(@, QueueLen, frame)]
      /\ lost' = IF ~closed[c] /\ Len(queue[c]) = QueueLen THEN lost \cup {c} ELSE lost
      /\ c \in pending
  BY DEF HubCasts, subVars
<1>2. /\ queue \in [Subs -> Seq(Frames)] /\ frame \in Frames
      /\ QueueLen \in Nat \ {0}
  BY <1>1 DEF IInv, SubInv, HubInv, Frames
<1>3. \A s \in Subs : s # c => queue'[s] = queue[s] /\ (s \in lost <=> s \in lost')
  BY <1>1, <1>2
<1>4. HubInv' /\ ReplayInv'
  BY <1>1 DEF IInv, HubInv, ReplayInv
<1>5. /\ queue[c] \in Seq(Frames) /\ Len(queue[c]) <= QueueLen /\ Len(queue[c]) \in Nat
      /\ now[c] \in Nat /\ last[c] \in Nat
      /\ queue[c] # <<>> => queue[c][Len(queue[c])] \in Frames
  BY <1>2, StreamTypes
<1>6. ~closed[c] => queue'[c] = Keep(queue[c], QueueLen, frame)
  BY <1>1, <1>2
<1>7. closed[c] => queue'[c] = queue[c]
  BY <1>1, <1>2
<1>8. /\ Keep(queue[c], QueueLen, frame) \in Seq(Frames)
      /\ Len(Keep(queue[c], QueueLen, frame)) <= QueueLen
      /\ Keep(queue[c], QueueLen, frame)[Len(Keep(queue[c], QueueLen, frame))] = frame
  BY <1>2, <1>5, KeepTypes
<1>9. SubInv'
  <2>1. queue' \in [Subs -> Seq(Frames)]
    BY <1>1, <1>2, <1>8
  <2>2. \A s \in Subs : Len(queue'[s]) <= QueueLen
    BY <1>3, <1>6, <1>7, <1>8, <1>5 DEF IInv, SubInv
  <2> QED BY <1>1, <2>1, <2>2 DEF IInv, SubInv, Watching
<1>10. ASSUME NEW s \in Subs, Watching(s)'
       PROVE  ShownInOrder(s)' /\ UpToDate(s)'
  <2>1. ShownInOrder(s) /\ UpToDate(s)
    BY <1>1, <1>10 DEF IInv, StreamInv, Watching
  <2>2. CASE s # c
    <3>1. ShownInOrder(s)' /\ Newest(s)' = Newest(s)
      BY <1>1, <1>3, <2>1, <2>2, ShownFrame
    <3> QED BY <1>1, <2>1, <2>2, <3>1, UpToDateFrame
  <2>3. CASE s = c /\ closed[c]
    <3>1. ShownInOrder(s)'
      BY <1>1, <1>7, <2>1, <2>3, ShownFrame
    <3> QED BY <1>1, <2>3, <3>1 DEF UpToDate
  <2>4. CASE s = c /\ ~closed[c]
    <3> DEFINE k == Keep(queue[c], QueueLen, frame)
    <3>1. Newest(c) # 0 => Next1(Newest(c), frame)
      BY <1>1, <2>1, <2>4 DEF UpToDate
    <3>2. queue[c] # <<>> => Next1(queue[c][Len(queue[c])], frame)
      BY <1>5, <3>1 DEF Newest, Frames
    <3> ShownInOrder(c) /\ UpToDate(c)
      BY <2>1, <2>4
    <3> IsRun(queue[c])
      BY DEF ShownInOrder
    <3>3. /\ IsRun(k) /\ k # <<>> /\ k[1] \in Frames
          /\ queue[c] = <<>> => k[1] = frame
          /\ queue[c] # <<>> => queue[c][1] <= k[1]
          /\ queue[c] # <<>> /\ Len(queue[c]) < QueueLen => queue[c][1] = k[1]
      BY <1>2, <1>5, <3>2, KeepRun
    <3>4. queue[c] # <<>> => /\ queue[c][1] \in Frames
                             /\ queue[c][1] = k[1] \/ c \in lost'
      BY <1>1, <1>5, <2>4, <3>3, TailOfQueue
    <3>5. queue'[c] = k /\ now'[c] = now[c] /\ last'[c] = last[c]
          /\ (c \in lost => c \in lost')
      BY <1>1, <1>6, <2>4
    <3>6. k[Len(k)] = frame
      BY <1>8
    <3> HIDE DEF k
    <3>7. ASSUME NEW a \in Nat, a # 0,
                 queue[c] # <<>> => Follows(c, a, queue[c][1]),
                 queue[c] = <<>> => a = Newest(c)
          PROVE  a <= k[1] /\ (c \in lost' \/ Next1(a, k[1]))
      <4>1. CASE queue[c] = <<>>
        BY <1>2, <3>1, <3>3, <3>7, <4>1 DEF Follows, Next1, Frames
      <4>2. CASE queue[c] # <<>>
        <5>1. Follows(c, a, queue[c][1])
          BY <3>7, <4>2
        <5>2. /\ queue[c][1] \in Nat /\ k[1] \in Nat /\ queue[c][1] <= k[1]
              /\ queue[c][1] = k[1] \/ c \in lost'
          <6> DEFINE h == queue[c][1]
          <6>1. h \in Frames /\ (h = k[1] \/ c \in lost') /\ h <= k[1] /\ k[1] \in Frames
            BY <3>3, <3>4, <4>2
          <6> QED BY <6>1 DEF Frames
        <5> QED BY <3>5, <5>1, <5>2 DEF Follows, Next1
      <4> QED BY <4>1, <4>2
    <3>8. ShownInOrder(c)'
      <4>1. now[c] # 0 => now[c] <= k[1] /\ (c \in lost' \/ Next1(now[c], k[1]))
        <5>1. now[c] # 0 /\ queue[c] # <<>> => Follows(c, now[c], queue[c][1])
          BY DEF ShownInOrder
        <5>2. now[c] # 0 /\ queue[c] = <<>> => now[c] = Newest(c)
          BY DEF Newest
        <5> QED BY <1>5, <3>7, <5>1, <5>2
      <4>2. last[c] # 0 /\ now[c] = 0 =>
              last[c] <= k[1] /\ (c \in lost' \/ Next1(last[c], k[1]))
        <5>1. last[c] # 0 /\ now[c] = 0 /\ queue[c] # <<>> =>
                Follows(c, last[c], queue[c][1])
          BY DEF ShownInOrder
        <5>2. last[c] # 0 /\ now[c] = 0 /\ queue[c] = <<>> => last[c] = Newest(c)
          BY DEF Newest
        <5> QED BY <1>5, <3>7, <5>1, <5>2
      <4>3. IsRun(queue[c])'
        BY <3>3, <3>5 DEF IsRun
      <4>4. last[c] # 0 /\ now[c] # 0 => Follows(c, last[c], now[c])'
        BY <3>5 DEF ShownInOrder, Follows, Next1
      <4> QED BY <3>5, <4>1, <4>2, <4>3, <4>4 DEF ShownInOrder, Follows
    <3>9. UpToDate(c)'
      BY <1>1, <3>3, <3>5, <3>6 DEF UpToDate, Newest
    <3> QED BY <2>4, <3>8, <3>9
  <2> QED BY <2>2, <2>3, <2>4
<1> QED BY <1>4, <1>9, <1>10 DEF IInv, StreamInv

-----------------------------------------------------------------------------
(* The subscribers                                                          *)

\* A step of one generator, c, keeps the invariant when it keeps c's part.
LEMMA GeneratorKeeps ==
  ASSUME IInv, NEW c \in Subs, UNCHANGED <<hubVars, closed, lost>>,
         sub' = [sub EXCEPT ![c] = sub'[c]], queue' = [queue EXCEPT ![c] = queue'[c]],
         now' = [now EXCEPT ![c] = now'[c]], last' = [last EXCEPT ![c] = last'[c]],
         \A s \in Subs \ {c} : s \in subs' <=> s \in subs,
         subs' \subseteq Subs,
         sub'[c] \in {"waiting", "writing", "leaving", "gone"},
         queue'[c] \in Seq(Frames), Len(queue'[c]) <= QueueLen,
         now'[c] \in Nat, last'[c] \in Nat,
         sub'[c] = "waiting" => now'[c] = 0,
         Watching(c)' => c \in subs' /\ ShownInOrder(c)' /\ UpToDate(c)'
  PROVE  IInv'
<1> USE DEF hubVars
<1>1. \A s \in Subs \ {c} : /\ sub'[s] = sub[s] /\ queue'[s] = queue[s]
                             /\ now'[s] = now[s] /\ last'[s] = last[s]
  BY DEF IInv, SubInv
<1>2. HubInv' /\ ReplayInv'
  BY <1>1 DEF IInv, HubInv, SubInv, ReplayInv
<1>3. SubInv'
  <2>1. /\ sub' \in [Subs -> {"none", "waiting", "writing", "leaving", "gone"}]
        /\ queue' \in [Subs -> Seq(Frames)]
        /\ now' \in [Subs -> Nat] /\ last' \in [Subs -> Nat]
    <3>1. /\ sub \in [Subs -> {"none", "waiting", "writing", "leaving", "gone"}]
          /\ queue \in [Subs -> Seq(Frames)]
          /\ now \in [Subs -> Nat] /\ last \in [Subs -> Nat]
      BY DEF IInv, SubInv
    <3>2. sub' \in [Subs -> {"none", "waiting", "writing", "leaving", "gone"}]
      BY <3>1
    <3>3. queue' \in [Subs -> Seq(Frames)]
      BY <3>1
    <3>4. now' \in [Subs -> Nat] /\ last' \in [Subs -> Nat]
      BY <3>1
    <3> QED BY <3>2, <3>3, <3>4
  <2> QED BY <1>1, <2>1 DEF IInv, SubInv, Watching
<1>4. ASSUME NEW s \in Subs, Watching(s)', s # c
      PROVE  ShownInOrder(s)' /\ UpToDate(s)'
  <2>1. ShownInOrder(s) /\ UpToDate(s)
    BY <1>1, <1>4 DEF IInv, StreamInv, Watching
  <2>2. ShownInOrder(s)' /\ Newest(s)' = Newest(s)
    BY <1>1, <1>4, <2>1, ShownFrame
  <2> QED BY <1>1, <1>4, <2>1, <2>2, UpToDateFrame
<1> QED BY <1>2, <1>3, <1>4 DEF IInv, StreamInv

\* A new stream starts as the replay.
LEMMA SubscribeKeeps ==
  ASSUME IInv, NEW c \in Subs, Subscribe(c)
  PROVE  IInv'
<1> USE HubAssumption
<1>1. /\ sub[c] = "none" /\ sub' = [sub EXCEPT ![c] = "waiting"]
      /\ queue' = [queue EXCEPT ![c] = replay] /\ subs' = subs \cup {c}
      /\ UNCHANGED <<hubVars, now, last, closed, lost>>
  BY DEF Subscribe
<1>2. /\ sub'[c] = "waiting" /\ queue'[c] = replay
      /\ now'[c] = 0 /\ last'[c] = 0 /\ now[c] = 0 /\ last[c] = 0
      /\ sub' = [sub EXCEPT ![c] = sub'[c]] /\ queue' = [queue EXCEPT ![c] = queue'[c]]
      /\ now' = [now EXCEPT ![c] = now'[c]] /\ last' = [last EXCEPT ![c] = last'[c]]
      /\ subs \subseteq Subs /\ c \notin pending
  BY <1>1 DEF IInv, SubInv, HubInv
<1>3. replay \in Seq(Frames) /\ Len(replay) <= QueueLen /\ Len(replay) \in Nat
  BY DEF IInv, ReplayInv
<1>4. ShownInOrder(c)'
  BY <1>2 DEF IInv, ReplayInv, ShownInOrder, IsRun
<1>5. UpToDate(c)'
  BY <1>1, <1>2 DEF IInv, ReplayInv, UpToDate, Newest, Next1, hubVars
<1>6. /\ c \in subs' /\ subs' \subseteq Subs
      /\ \A s \in Subs \ {c} : s \in subs' <=> s \in subs
  BY <1>1, <1>2
<1>7. queue'[c] \in Seq(Frames) /\ Len(queue'[c]) <= QueueLen
  BY <1>2, <1>3
<1>8. UNCHANGED <<hubVars, closed, lost>>
  BY <1>1
<1>9. /\ sub' = [sub EXCEPT ![c] = sub'[c]] /\ queue' = [queue EXCEPT ![c] = queue'[c]]
      /\ now' = [now EXCEPT ![c] = now'[c]] /\ last' = [last EXCEPT ![c] = last'[c]]
      /\ sub'[c] = "waiting" /\ now'[c] = 0 /\ last'[c] = 0
  BY <1>2
<1> QED
  BY <1>4, <1>5, <1>6, <1>7, <1>8, <1>9, GeneratorKeeps

\* Taking the next frame from the queue moves what s is shown by one place.
LEMMA WriteMoves ==
  ASSUME IInv, NEW c \in Subs, queue[c] # <<>>, ShownInOrder(c), Write(c), lost' = lost,
         last'[c] = IF now[c] = 0 THEN last[c] ELSE now[c]
  PROVE  /\ ShownInOrder(c)' /\ Newest(c)' = Newest(c)
         /\ queue'[c] \in Seq(Frames) /\ Len(queue'[c]) <= QueueLen /\ now'[c] \in Frames
<1> DEFINE q == queue[c]
<1>1. /\ q \in Seq(Frames) /\ Len(q) <= QueueLen /\ Len(q) \in Nat
      /\ now[c] \in Nat /\ last[c] \in Nat /\ QueueLen \in Nat
  BY StreamTypes, HubAssumption
<1>2. q # <<>> /\ IsRun(q)
  BY DEF ShownInOrder
<1>3. queue'[c] = Tail(q) /\ now'[c] = Head(q)
  BY DEF Write, IInv, SubInv
<1>4. now[c] # 0 => Follows(c, now[c], q[1])
  BY <1>2 DEF ShownInOrder
<1>5. last[c] # 0 /\ now[c] = 0 => Follows(c, last[c], q[1])
  BY <1>2 DEF ShownInOrder
<1>6. Newest(c) = q[Len(q)]
  BY <1>2 DEF Newest
<1> HIDE DEF q
<1>7. /\ Tail(q) \in Seq(Frames) /\ Len(Tail(q)) = Len(q) - 1
      /\ Head(q) = q[1] /\ q[1] \in Frames
  BY <1>1, <1>2, TailOfQueue
<1>8. /\ IsRun(Tail(q))
      /\ Tail(q) # <<>> => Next1(q[1], Tail(q)[1]) /\ Tail(q)[Len(Tail(q))] = q[Len(q)]
      /\ Tail(q) = <<>> => q[1] = q[Len(q)]
  BY <1>1, <1>2, TailRun
<1>9. queue'[c] \in Seq(Frames) /\ Len(queue'[c]) <= QueueLen /\ now'[c] \in Frames
  BY <1>1, <1>3, <1>7
<1>10. ShownInOrder(c)'
  <2>1. IsRun(queue[c])'
    BY <1>3, <1>8 DEF IsRun
  <2>2. last'[c] # 0 => Follows(c, last[c], now[c])'
    BY <1>3, <1>4, <1>5, <1>7 DEF Follows, Next1
  <2>3. queue'[c] # <<>> => Follows(c, now[c], queue[c][1])'
    BY <1>1, <1>3, <1>7, <1>8 DEF Follows, Next1, Frames
  <2> QED BY <1>3, <1>7, <2>1, <2>2, <2>3 DEF ShownInOrder, Frames
<1>11. Newest(c)' = Newest(c)
  BY <1>3, <1>6, <1>7, <1>8, <1>9 DEF Newest, Frames
<1> QED BY <1>9, <1>10, <1>11

\* What every step of a generator reads.
LEMMA GeneratorState ==
  ASSUME IInv, NEW c \in Subs
  PROVE  /\ queue[c] \in Seq(Frames) /\ Len(queue[c]) <= QueueLen
         /\ now[c] \in Nat /\ last[c] \in Nat
         /\ sub[c] = "waiting" => now[c] = 0
         /\ Watching(c) => c \in subs /\ ShownInOrder(c) /\ UpToDate(c)
         /\ sub \in [Subs -> {"none", "waiting", "writing", "leaving", "gone"}]
         /\ queue \in [Subs -> Seq(Frames)]
         /\ now \in [Subs -> Nat] /\ last \in [Subs -> Nat]
         /\ subs \subseteq Subs
  BY DEF IInv, SubInv, HubInv, StreamInv

\* A generator wakes for a frame, or for the close.
LEMMA WakeKeeps ==
  ASSUME IInv, NEW c \in Subs, Wake(c)
  PROVE  IInv'
<1>1. /\ sub[c] = "waiting" /\ now[c] = 0 /\ c \in subs /\ subs \subseteq Subs
      /\ ShownInOrder(c) /\ UpToDate(c)
      /\ UNCHANGED <<hubVars, closed, lost>> /\ subs' = subs /\ lost' = lost
      /\ last' = last /\ last[c] \in Nat
  BY GeneratorState DEF Wake, Watching
<1>2. CASE queue[c] # <<>>
  <2>1. Write(c)
    BY <1>2 DEF Wake
  <2>2. /\ ShownInOrder(c)' /\ Newest(c)' = Newest(c)
        /\ queue'[c] \in Seq(Frames) /\ Len(queue'[c]) <= QueueLen /\ now'[c] \in Nat
    BY <1>1, <1>2, <2>1, WriteMoves DEF Frames
  <2>3. UpToDate(c)'
    BY <1>1, <2>2 DEF UpToDate, hubVars
  <2>4. /\ sub' = [sub EXCEPT ![c] = sub'[c]] /\ queue' = [queue EXCEPT ![c] = queue'[c]]
        /\ now' = [now EXCEPT ![c] = now'[c]] /\ last' = [last EXCEPT ![c] = last'[c]]
        /\ sub'[c] = "writing"
    BY <1>1, <2>1, GeneratorState DEF Write
  <2> QED BY <1>1, <2>2, <2>3, <2>4, GeneratorKeeps
<1>3. CASE queue[c] = <<>>
  <2>1. sub' = [sub EXCEPT ![c] = "leaving"] /\ now' = now /\ queue' = queue
    BY <1>3 DEF Wake
  <2>2. /\ sub' = [sub EXCEPT ![c] = sub'[c]] /\ queue' = [queue EXCEPT ![c] = queue'[c]]
        /\ now' = [now EXCEPT ![c] = now'[c]] /\ last' = [last EXCEPT ![c] = last'[c]]
        /\ sub'[c] = "leaving" /\ queue'[c] = queue[c] /\ now'[c] = now[c]
    BY <1>1, <2>1, GeneratorState
  <2>3. /\ queue'[c] \in Seq(Frames) /\ Len(queue'[c]) <= QueueLen
        /\ now'[c] \in Nat /\ last'[c] \in Nat /\ ~Watching(c)'
    BY <1>1, <2>2, GeneratorState DEF Watching
  <2> QED BY <1>1, <2>2, <2>3, GeneratorKeeps
<1> QED BY <1>2, <1>3

\* A keepalive shows no frame.
LEMMA KeepaliveKeeps ==
  ASSUME IInv, NEW c \in Subs, Keepalive(c)
  PROVE  IInv'
<1>1. /\ sub[c] = "waiting" /\ now[c] = 0 /\ c \in subs /\ subs \subseteq Subs
      /\ ShownInOrder(c) /\ UpToDate(c)
      /\ UNCHANGED <<hubVars, closed, lost>> /\ subs' = subs /\ lost' = lost
      /\ last' = last /\ queue' = queue
      /\ sub' = [sub EXCEPT ![c] = "writing"] /\ now' = [now EXCEPT ![c] = 0]
  BY GeneratorState DEF Keepalive, Watching
<1>2. /\ sub' = [sub EXCEPT ![c] = sub'[c]] /\ queue' = [queue EXCEPT ![c] = queue'[c]]
      /\ now' = [now EXCEPT ![c] = now'[c]] /\ last' = [last EXCEPT ![c] = last'[c]]
      /\ sub'[c] = "writing" /\ queue'[c] = queue[c] /\ now'[c] = 0 /\ last'[c] = last[c]
  BY <1>1, GeneratorState
<1>3. /\ queue'[c] \in Seq(Frames) /\ Len(queue'[c]) <= QueueLen
      /\ now'[c] \in Nat /\ last'[c] \in Nat
  BY <1>2, GeneratorState
<1>4. ShownInOrder(c)' /\ Newest(c)' = Newest(c)
  BY <1>1, <1>2, ShownFrame
<1>5. UpToDate(c)'
  BY <1>1, <1>4 DEF UpToDate, hubVars
<1> QED BY <1>1, <1>2, <1>3, <1>4, <1>5, GeneratorKeeps

\* A generator that leaves is shown nothing more.
LEMMA LeavingKeeps ==
  ASSUME IInv, NEW c \in Subs, TabClosed(c) \/ Leave(c)
  PROVE  IInv'
<1>1. /\ UNCHANGED <<hubVars, closed, lost>>
      /\ sub' = [sub EXCEPT ![c] = sub'[c]] /\ queue' = [queue EXCEPT ![c] = queue'[c]]
      /\ now' = [now EXCEPT ![c] = now'[c]] /\ last' = [last EXCEPT ![c] = last'[c]]
      /\ subs' \in {subs, subs \ {c}} /\ sub'[c] \in {"leaving", "gone"}
      /\ \/ queue'[c] = queue[c] /\ now'[c] = now[c] /\ last'[c] = last[c]
         \/ queue'[c] = <<>> /\ now'[c] = 0 /\ last'[c] = 0
  <2>1. CASE TabClosed(c)
    BY <2>1, GeneratorState DEF TabClosed
  <2>2. CASE Leave(c)
    BY <2>2, GeneratorState DEF Leave
  <2> QED BY <2>1, <2>2
<1>2. queue'[c] \in Seq(Frames) /\ Len(queue'[c]) <= QueueLen
  <2>1. <<>> \in Seq(Frames) /\ Len(<<>>) = 0 /\ 0 <= QueueLen
    BY HubAssumption
  <2> QED BY <1>1, <2>1, GeneratorState
<1>4. now'[c] \in Nat /\ last'[c] \in Nat /\ ~Watching(c)'
  BY <1>1, GeneratorState DEF Watching
<1>3. subs' \subseteq Subs /\ \A s \in Subs \ {c} : s \in subs' <=> s \in subs
  BY <1>1, GeneratorState
<1> QED BY <1>1, <1>2, <1>3, <1>4, GeneratorKeeps

\* What was written becomes what was shown last.
LEMMA WrittenKeeps ==
  ASSUME IInv, NEW c \in Subs, Written(c)
  PROVE  IInv'
<1>1. /\ sub[c] = "writing" /\ c \in subs /\ subs \subseteq Subs
      /\ ShownInOrder(c) /\ UpToDate(c)
      /\ UNCHANGED <<hubVars, closed, lost>> /\ subs' = subs /\ lost' = lost
      /\ last' = [last EXCEPT ![c] = IF now[c] = 0 THEN @ ELSE now[c]]
      /\ now[c] \in Nat /\ last[c] \in Nat
  BY GeneratorState DEF Written, Watching
<1>2. /\ last'[c] = (IF now[c] = 0 THEN last[c] ELSE now[c]) /\ last'[c] \in Nat
      /\ last' = [last EXCEPT ![c] = last'[c]]
  BY <1>1, GeneratorState
<1>3. CASE now[c] # 0 /\ IsFinal(now[c])
  <2>1. sub' = [sub EXCEPT ![c] = "leaving"] /\ now' = now /\ queue' = queue
    BY <1>3 DEF Written
  <2>2. /\ sub' = [sub EXCEPT ![c] = sub'[c]] /\ queue' = [queue EXCEPT ![c] = queue'[c]]
        /\ now' = [now EXCEPT ![c] = now'[c]]
        /\ sub'[c] = "leaving" /\ queue'[c] = queue[c] /\ now'[c] = now[c]
    BY <2>1, GeneratorState
  <2>3. /\ queue'[c] \in Seq(Frames) /\ Len(queue'[c]) <= QueueLen
        /\ now'[c] \in Nat /\ ~Watching(c)'
    BY <2>2, GeneratorState DEF Watching
  <2> QED BY <1>1, <1>2, <2>2, <2>3, GeneratorKeeps
<1>4. CASE ~(now[c] # 0 /\ IsFinal(now[c])) /\ now[c] # 0 /\ queue[c] # <<>>
  <2>1. Write(c)
    BY <1>4 DEF Written
  <2>2. /\ ShownInOrder(c)' /\ Newest(c)' = Newest(c)
        /\ queue'[c] \in Seq(Frames) /\ Len(queue'[c]) <= QueueLen /\ now'[c] \in Nat
    BY <1>1, <1>2, <1>4, <2>1, WriteMoves DEF Frames
  <2>3. UpToDate(c)'
    BY <1>1, <2>2 DEF UpToDate, hubVars
  <2>4. /\ sub' = [sub EXCEPT ![c] = sub'[c]] /\ queue' = [queue EXCEPT ![c] = queue'[c]]
        /\ now' = [now EXCEPT ![c] = now'[c]] /\ sub'[c] = "writing"
    BY <2>1, GeneratorState DEF Write
  <2> QED BY <1>1, <1>2, <2>2, <2>3, <2>4, GeneratorKeeps
<1>5. CASE ~(now[c] # 0 /\ IsFinal(now[c])) /\ ~(now[c] # 0 /\ queue[c] # <<>>)
  <2>1. /\ sub' = [sub EXCEPT ![c] = "waiting"] /\ now' = [now EXCEPT ![c] = 0]
        /\ queue' = queue
    BY <1>5 DEF Written
  <2>2. /\ sub' = [sub EXCEPT ![c] = sub'[c]] /\ queue' = [queue EXCEPT ![c] = queue'[c]]
        /\ now' = [now EXCEPT ![c] = now'[c]]
        /\ sub'[c] = "waiting" /\ queue'[c] = queue[c] /\ now'[c] = 0
    BY <2>1, GeneratorState
  <2>3. queue'[c] \in Seq(Frames) /\ Len(queue'[c]) <= QueueLen /\ now'[c] \in Nat
    BY <2>2, GeneratorState
  <2>4. ShownInOrder(c)'
    BY <1>1, <1>2, <1>5, <2>2 DEF ShownInOrder, Follows, IsRun
  <2>5. Newest(c)' = Newest(c)
    BY <1>2, <1>5, <2>2 DEF Newest
  <2>6. UpToDate(c)'
    BY <1>1, <2>5 DEF UpToDate, hubVars
  <2> QED BY <1>1, <1>2, <2>2, <2>3, <2>4, <2>6, GeneratorKeeps
<1> QED BY <1>3, <1>4, <1>5

-----------------------------------------------------------------------------
(* The theorem                                                              *)

\* The invariant holds before anybody subscribes.
LEMMA HubInitInv == Init => IInv
<1> SUFFICES ASSUME Init
             PROVE  IInv
  OBVIOUS
<1> USE HubAssumption DEF Init
<1>1. HubInv /\ ReplayInv
  <2>1. <<>> \in Seq(Frames) /\ Len(<<>>) = 0 /\ 1 .. 0 - 1 = {}
    OBVIOUS
  <2>2. ReplayInv
    BY <2>1 DEF ReplayInv, IsRun
  <2> QED BY <2>2 DEF HubInv
<1>2. SubInv
  <2>1. <<>> \in Seq(Frames) /\ Len(<<>>) = 0
    OBVIOUS
  <2> QED BY <2>1 DEF SubInv, Watching
<1>3. StreamInv
  BY DEF StreamInv, Watching
<1> QED BY <1>1, <1>2, <1>3 DEF IInv

\* Every step keeps the invariant.
LEMMA HubNextInv == IInv /\ [Next]_vars => IInv'
<1> SUFFICES ASSUME IInv, [Next]_vars
             PROVE  IInv'
  OBVIOUS
<1>1. CASE HubReads
  BY <1>1, HubReadsKeeps
<1>2. CASE HubStep
  BY <1>2, HubKeepsKeeps, HubListsKeeps, HubNextKeeps, HubCastsKeeps, ClosingKeeps
     DEF HubStep
<1>3. CASE Shutdown \/ ShutdownStep
  BY <1>3, ClosingKeeps
<1>4. ASSUME NEW s \in Subs, Subscribe(s) \/ SubStep(s) \/ Keepalive(s) \/ TabClosed(s)
      PROVE  IInv'
  BY <1>4, SubscribeKeeps, WakeKeeps, WrittenKeeps, LeavingKeeps, KeepaliveKeeps
     DEF SubStep
<1>5. CASE UNCHANGED vars
  <2> USE <1>5 DEF vars, hubVars, stopVars, subVars
  <2>1. HubInv' /\ ReplayInv'
    BY DEF IInv, HubInv, ReplayInv
  <2>2. SubInv'
    BY DEF IInv, SubInv, Watching
  <2>3. StreamInv'
    BY DEF IInv, StreamInv, Watching, ShownInOrder, Follows, UpToDate, Newest
  <2> QED BY <2>1, <2>2, <2>3 DEF IInv
<1> QED BY <1>1, <1>2, <1>3, <1>4, <1>5 DEF Next, Quiet

\* Only a generator that has written moves what its browser was shown last.
LEMMA ShownNext ==
  ASSUME IInv, [Next]_vars, NEW s \in Subs,
         last'[s] # last[s], last[s] # 0, sub'[s] # "gone"
  PROVE  last'[s] > last[s] /\ (s \in lost' \/ last'[s] = last[s] + 1)
<1> USE DEF hubVars, stopVars, subVars
<1>1. Written(s)
  <2>1. ASSUME NEW c \in Subs, Leave(c)
        PROVE  FALSE
    BY <2>1, GeneratorState DEF Leave
  <2>2. ASSUME NEW c \in Subs, Written(c), c # s
        PROVE  FALSE
    BY <2>2, GeneratorState DEF Written
  <2>3. ASSUME NEW c \in Subs, Subscribe(c) \/ Wake(c) \/ Keepalive(c) \/ TabClosed(c)
        PROVE  FALSE
    BY <2>3 DEF Subscribe, Wake, Keepalive, TabClosed
  <2>4. ~HubReads /\ ~Shutdown /\ ~UNCHANGED vars
    BY DEF HubReads, Shutdown, vars
  <2>5. ~HubStep
    BY DEF HubStep, HubKeeps, HubLists, HubNext, HubEnds, HubEnded, HubCasts, HubCloses
  <2>6. ~ShutdownStep
    BY DEF ShutdownStep, ShutdownLocks, ShutdownDone, ShutdownCloses
  <2> QED BY <2>1, <2>2, <2>3, <2>4, <2>5, <2>6 DEF Next, SubStep, Quiet
<1>2. /\ ShownInOrder(s) /\ now[s] \in Nat /\ last[s] \in Nat
      /\ last'[s] = now[s] /\ now[s] # 0 /\ lost' = lost
  BY <1>1, GeneratorState DEF Written, Watching
<1>3. Follows(s, last[s], now[s])
  BY <1>2 DEF ShownInOrder
<1> QED BY <1>2, <1>3 DEF Follows, Next1

\* Every stream is in order and up to date at every moment.
THEOREM BrowserStreamInvariant == Spec => []IInv
  BY HubInitInv, HubNextInv, PTL DEF Spec

\* What a browser is shown never goes back and skips no frame, unless its own
\* queue overflowed or shutdown() closed it.
THEOREM ShownFramesAreConsecutive == Spec => NoFrameMissed
<1>1. IInv /\ [Next]_vars =>
        [\A s \in Subs : last'[s] # last[s] /\ last[s] # 0 /\ sub'[s] # "gone"
           => last'[s] > last[s] /\ (s \in lost' \/ last'[s] = last[s] + 1)]_vars
  BY ShownNext
<1> QED BY <1>1, BrowserStreamInvariant, PTL DEF Spec, NoFrameMissed
=============================================================================
