---------------------------- MODULE EngineProofs ----------------------------
(***************************************************************************)
(* Proofs about the chain of the engine, for every set of captures, command *)
(* lines, addresses, ports and vendors: Stage 2 keeps its books under all    *)
(* stages (EngineInvariant, OnePassInvariant), a graph keeps both ends of    *)
(* every edge and all the traffic whatever MAC keys are merged               *)
(* (TopologyInvariant), so no packet is lost or counted twice from the       *)
(* capture to the edges.                                                     *)
(***************************************************************************)
EXTENDS EngineChain, DissectionProofs

-----------------------------------------------------------------------------
(* Stage 2 under the stages after it.                                       *)

\* The stages after the first leave Stage 2 alone; failed plugins count.
LEMMA LaterStagesOnly ==
  ASSUME [BuildTopology \/ ScoreRisk \/ Enrich]_vars
  PROVE  /\ UNCHANGED <<cli, capture, dpi, used, start, pos, skipped, table, pairPorts,
                        reports, phase, convs>>
         /\ faults' = faults \/ \E n \in Nat : faults' = faults + n
<1>1. CASE BuildTopology \/ ScoreRisk \/ UNCHANGED vars
  BY <1>1 DEF BuildTopology, ScoreRisk, vars, dissectVars, given
<1>2. CASE Enrich
  <2>1. PICK broken \in SUBSET PluginIds : faults' = faults + Cardinality(broken)
    BY <1>2 DEF Enrich
  <2>2. IsFiniteSet(broken)
    <3>1. IsFiniteSet(PluginIds)
      BY FourIsFinite DEF PluginIds
    <3> QED BY <3>1, FS_Subset
  <2>3. Cardinality(broken) \in Nat
    BY <2>2, FS_CardinalityType
  <2> QED BY <1>2, <2>1, <2>3 DEF Enrich, given
<1> QED BY <1>1, <1>2

LEMMA LaterStages ==
  ASSUME IInv, [BuildTopology \/ ScoreRisk \/ Enrich]_vars
  PROVE  IInv'
<1> USE DEF IInv
<1>1. /\ UNCHANGED <<cli, capture, dpi, used, start, pos, skipped, table, pairPorts,
                     reports, phase, convs>>
      /\ faults' = faults \/ \E n \in Nat : faults' = faults + n
  BY LaterStagesOnly
<1>2. DissectionTypes'
  BY <1>1 DEF DissectionTypes
<1>3. Progress'
  BY <1>1 DEF Progress, PieceEnd
<1>4. Accounting'
  <2>1. faults' = 0 => faults = 0
    BY <1>1 DEF DissectionTypes
  <2>2. UNCHANGED <<PacketsHeld, WritesHeld, ReportedPackets, ReportedWrites, Written(pos), Reader>>
    BY <1>1 DEF PacketsHeld, WritesHeld, ReportedPackets, ReportedWrites, Written, Delivers, Reader
  <2> QED BY <1>1, <2>1, <2>2 DEF Accounting
<1>5. PortsAreCounted' /\ ScansCollapse'
  BY <1>1 DEF PortsAreCounted, ScansCollapse, PairOf
<1> QED BY <1>2, <1>3, <1>4, <1>5

\* It holds when the engine starts.
LEMMA InvInit ==
  ASSUME Init
  PROVE  IInv
<1> USE DEF Init, DissectionInit
<1>1. DissectionTypes
  <2>1. 0 \in 0 .. Len(capture)
    BY CaptureTyped
  <2>2. <<>> \in Seq(Accumulators) /\ <<>> \in Seq(Talks) /\ <<>> \in Seq(Seq(Talks))
    OBVIOUS
  <2> QED BY <2>1, <2>2 DEF DissectionTypes
<1>2. Progress
  BY DEF Progress
<1>3. Accounting
  <2>1. PacketsHeld = 0 /\ WritesHeld = 0 /\ ReportedPackets = 0 /\ ReportedWrites = 0
    BY <1>1, HeldTyped DEF PacketsHeld, WritesHeld
  <2>2. Cardinality(Written(pos)) = 0
    BY WrittenGrows
  <2> QED BY <2>1, <2>2 DEF Accounting
<1>4. PortsAreCounted /\ ScansCollapse
  BY DEF PortsAreCounted, ScansCollapse
<1> QED BY <1>1, <1>2, <1>3, <1>4 DEF IInv

\* The inductive invariant of the engine: what is read of the capture is in the
\* table, in chunk reports or in the conversations, counted once (parse,
\* _merge_chunk_conversations), however tools fail and pieces are cut.
THEOREM EngineInvariant == Spec => []IInv
<1>1. Init => IInv
  BY InvInit
<1>2. IInv /\ [Next]_vars => IInv'
  <2> SUFFICES ASSUME IInv, [Next]_vars
               PROVE  IInv'
    OBVIOUS
  <2>1. CASE Dissect
    <3>1. DissectionNext
      BY <2>1 DEF Dissect
    <3> QED BY <3>1, TypesStep, ProgressStep, AccountingStep, ScansStep DEF IInv
  <2>2. CASE [BuildTopology \/ ScoreRisk \/ Enrich]_vars
    BY <2>2, LaterStages
  <2> QED BY <2>1, <2>2 DEF Next
<1> QED BY <1>1, <1>2, PTL DEF Spec

\* A pair with as many ports as the threshold has no other entry than the scan
\* (_parse_line).
THEOREM ScansCollapseHolds == Spec => []ScansCollapse
<1>1. IInv => ScansCollapse
  BY DEF IInv
<1> QED BY <1>1, EngineInvariant, PTL

\* The entries tell of their packets when the engine starts, and under the
\* stages after the first.
LEMMA OnePassInit ==
  ASSUME Init
  PROVE  OnePass
<1>1. /\ phase = "read" /\ start = 0 /\ pos = 0 /\ table = <<>> /\ reports = <<>>
  BY DEF Init, DissectionInit
<1>2. Delivered(capture, 0, 0) = {}
  BY DEF Delivered
<1>3. start <= pos /\ \A n \in DOMAIN table : table[n].key = MergeKey(table[n])
  BY <1>1
<1>4. Books(capture, table, Delivered(capture, start, pos))
  BY <1>1, <1>2, NoBooks
<1>5. Parts(capture, reports, Delivered(capture, 0, start))
  BY <1>1, <1>2, NoParts
<1> QED BY <1>1, <1>3, <1>4, <1>5 DEF OnePass

LEMMA OnePassLater ==
  ASSUME IInv, OnePass, [BuildTopology \/ ScoreRisk \/ Enrich]_vars
  PROVE  OnePass'
<1>1. /\ UNCHANGED <<cli, capture, used, start, pos, table, reports, phase, convs>>
      /\ faults' = faults \/ \E n \in Nat : faults' = faults + n
  BY LaterStagesOnly
<1>2. faults' = 0 => faults = 0
  BY <1>1 DEF IInv, DissectionTypes
<1> QED BY <1>1, <1>2 DEF OnePass

\* In a run without failed tools and collapsed scans, every entry tallies the
\* packets of its key that were delivered, wherever it is on its way from the
\* table to the conversations (parse, _merge_chunk_conversations).
THEOREM OnePassInvariant == Spec => []OnePass
<1>1. Init => OnePass
  BY OnePassInit
<1>2. IInv /\ OnePass /\ [Next]_vars => OnePass'
  <2> SUFFICES ASSUME IInv, OnePass, [Next]_vars
               PROVE  OnePass'
    OBVIOUS
  <2>1. CASE Dissect
    <3>1. DissectionNext
      BY <2>1 DEF Dissect
    <3> QED BY <3>1, OnePassStep
  <2>2. CASE [BuildTopology \/ ScoreRisk \/ Enrich]_vars
    BY <2>2, OnePassLater
  <2> QED BY <2>1, <2>2 DEF Next
<1> QED BY <1>1, <1>2, EngineInvariant, PTL DEF Spec

\* Read by tshark, in whatever pieces, a capture has the same conversations as in
\* one pass: each has the packets, the bytes and the first and last times of the
\* packets with its MAC addresses, protocol and port (_merge_chunk_conversations).
THEOREM ChunksMatchOnePassHolds == Spec => []ChunksMatchOnePass
<1>1. IInv /\ OnePass => ChunksMatchOnePass
  BY OnePassFromInv DEF IInv
<1> QED BY <1>1, EngineInvariant, OnePassInvariant, PTL

-----------------------------------------------------------------------------
(* Edges.                                                                   *)

\* Keys of the graph, and the ends of conversations.
Hosts == IPs \cup MACs \cup {None}
EndsOf(s) == {SrcKey(s[i]) : i \in DOMAIN s} \cup {DstKey(s[i]) : i \in DOMAIN s}

Edges ==
  [src : Hosts, dst : Hosts, proto : Words, port : Nat, transport : Words, count : Nat,
   bytes : Nat, first : Nat, last : Nat, writes : BOOLEAN, program : BOOLEAN]

CountsOf(es) == SumOf([k \in 1 .. Len(es) |-> es[k].count], Len(es))
BytesOf(s) == SumOf([k \in 1 .. Len(s) |-> s[k].bytes], Len(s))

\* The ends of a conversation are keys.
LEMMA EndsTyped ==
  ASSUME NEW c \in Talks
  PROVE  SrcKey(c) \in Hosts /\ DstKey(c) \in Hosts
BY DEF Talks, Hosts, SrcKey, DstKey, Key

\* A new edge counts its conversation once.
LEMMA EdgeTyped ==
  ASSUME NEW c \in Talks
  PROVE  /\ EdgeOf(c) \in Edges /\ EdgeOf(c).count = 1 /\ EdgeOf(c).bytes = c.bytes
         /\ EdgeOf(c).src = SrcKey(c) /\ EdgeOf(c).dst = DstKey(c)
<1>1. SrcKey(c) \in Hosts /\ DstKey(c) \in Hosts
  BY EndsTyped
<1>2. (c.writes > 0) \in BOOLEAN /\ 1 \in Nat
  OBVIOUS
<1> QED BY <1>1, <1>2 DEF EdgeOf, Edges, Talks

\* An edge that takes in a conversation keeps its ends.
LEMMA MergedEdge ==
  ASSUME NEW old \in Edges, NEW new \in Edges
  PROVE  LET e == MergeEdge(old, new)
         IN /\ e \in Edges /\ e.count = old.count + 1 /\ e.bytes = old.bytes + new.bytes
            /\ e.src = old.src /\ e.dst = old.dst
<1>1. Min({old.first, new.first}) \in Nat /\ Max({old.last, new.last}) \in Nat
  <2>1. /\ old.first \in Nat /\ new.first \in Nat /\ old.last \in Nat /\ new.last \in Nat
    BY DEF Edges
  <2> QED BY <2>1, MinOfTwo, MaxOfTwo
<1>2. /\ old.count + 1 \in Nat /\ old.bytes + new.bytes \in Nat
      /\ (old.writes \/ new.writes) \in BOOLEAN /\ (old.program \/ new.program) \in BOOLEAN
  BY DEF Edges
<1> DEFINE m == Min({old.first, new.first})
           x == Max({old.last, new.last})
<1>3. MergeEdge(old, new)
        = [old EXCEPT !.count = @ + 1, !.bytes = @ + new.bytes, !.first = m, !.last = x,
                      !.writes = @ \/ new.writes, !.program = @ \/ new.program]
  BY DEF MergeEdge
<1>4. m \in Nat /\ x \in Nat
  BY <1>1
<1> HIDE DEF m, x
<1> QED BY <1>2, <1>3, <1>4 DEF Edges

\* AddEdge: the first edge with the key, or a new one.
LEMMA EdgeCases ==
  ASSUME NEW es \in Seq(Edges), NEW c
  PROVE  \/ AddEdge(es, c) = Append(es, EdgeOf(c))
         \/ \E i \in DOMAIN es : AddEdge(es, c) = [es EXCEPT ![i] = MergeEdge(@, EdgeOf(c))]
<1> DEFINE I == {i \in 1 .. Len(es) : EdgeKey(es[i]) = EdgeKey(EdgeOf(c))}
<1>1. CASE I = {}
  BY <1>1 DEF AddEdge, SelectInSeq
<1>2. CASE I # {}
  <2>1. I \in SUBSET Nat /\ I \subseteq DOMAIN es
    OBVIOUS
  <2>2. Min(I) \in I
    <3> HIDE DEF I
    <3> QED BY <1>2, <2>1, MinIsIn
  <2>3. AddEdge(es, c) = [es EXCEPT ![Min(I)] = MergeEdge(@, EdgeOf(c))]
    <3>1. Min(I) # 0
      BY <2>2
    <3> QED BY <1>2, <3>1 DEF AddEdge, SelectInSeq
  <2> QED BY <2>1, <2>2, <2>3
<1> QED BY <1>1, <1>2

\* The sums over edges are numbers, zero when there is none.
LEMMA EdgeSumsTyped ==
  ASSUME NEW es \in Seq(Edges)
  PROVE  /\ CountsOf(es) \in Nat /\ BytesOf(es) \in Nat
         /\ es = <<>> => CountsOf(es) = 0 /\ BytesOf(es) = 0
<1>1. Len(es) \in Nat /\ (es = <<>> => Len(es) = 0) /\ \A k \in 1 .. Len(es) : es[k] \in Edges
  OBVIOUS
<1>2. /\ Weights([k \in 1 .. Len(es) |-> es[k].count], Len(es))
      /\ Weights([k \in 1 .. Len(es) |-> es[k].bytes], Len(es))
  BY <1>1 DEF Weights, Edges
<1> QED BY <1>1, <1>2, SumSteps DEF CountsOf, BytesOf

\* An edge at the end adds its numbers.
LEMMA EdgeAppended ==
  ASSUME NEW es \in Seq(Edges), NEW e \in Edges
  PROVE  LET new == Append(es, e)
         IN /\ new \in Seq(Edges)
            /\ CountsOf(new) = CountsOf(es) + e.count /\ BytesOf(new) = BytesOf(es) + e.bytes
<1> DEFINE n == Len(es)
           new == Append(es, e)
           v == [k \in 1 .. n + 1 |-> new[k].count]
           w == [k \in 1 .. n |-> es[k].count]
           x == [k \in 1 .. n + 1 |-> new[k].bytes]
           y == [k \in 1 .. n |-> es[k].bytes]
<1>1. /\ n \in Nat /\ new \in Seq(Edges) /\ Len(new) = n + 1 /\ new[n + 1] = e
      /\ \A k \in 1 .. n : new[k] = es[k]
  OBVIOUS
<1>2. /\ \A k \in 1 .. n + 1 : new[k] \in Edges
      /\ n + 1 \in 1 .. n + 1 /\ \A k \in 1 .. n : k \in 1 .. n + 1
  BY <1>1
<1> HIDE DEF new, n
<1>3. /\ Weights(v, n + 1) /\ \A k \in 1 .. n : v[k] = w[k]
      /\ Weights(x, n + 1) /\ \A k \in 1 .. n : x[k] = y[k]
      /\ v[n + 1] = e.count /\ x[n + 1] = e.bytes
  BY <1>1, <1>2 DEF Weights, Edges
<1>4. CountsOf(new) = SumOf(v, n + 1) /\ BytesOf(new) = SumOf(x, n + 1)
  BY <1>1 DEF CountsOf, BytesOf
<1>5. CountsOf(es) = SumOf(w, n) /\ BytesOf(es) = SumOf(y, n)
  BY DEF CountsOf, BytesOf, n
<1>6. SumOf(v, n + 1) = SumOf(w, n) + v[n + 1] /\ SumOf(x, n + 1) = SumOf(y, n) + x[n + 1]
  <2> HIDE DEF v, w, x, y
  <2> QED BY <1>1, <1>3, SumAppend
<1> QED BY <1>1, <1>3, <1>4, <1>5, <1>6 DEF new

\* An edge that grows makes the sums grow.
LEMMA EdgeReplaced ==
  ASSUME NEW es \in Seq(Edges), NEW i \in DOMAIN es, NEW e \in Edges,
         NEW d \in Nat, NEW b \in Nat, e.count = es[i].count + d, e.bytes = es[i].bytes + b
  PROVE  LET new == [es EXCEPT ![i] = e]
         IN /\ new \in Seq(Edges)
            /\ CountsOf(new) = CountsOf(es) + d /\ BytesOf(new) = BytesOf(es) + b
<1> DEFINE n == Len(es)
           new == [es EXCEPT ![i] = e]
           v == [k \in 1 .. n |-> new[k].count]
           w == [k \in 1 .. n |-> es[k].count]
           x == [k \in 1 .. n |-> new[k].bytes]
           y == [k \in 1 .. n |-> es[k].bytes]
<1>1. /\ n \in Nat /\ new \in Seq(Edges) /\ Len(new) = n /\ i \in 1 .. n /\ new[i] = e
      /\ \A k \in 1 .. n : k # i => new[k] = es[k]
      /\ \A k \in 1 .. n : es[k] \in Edges
  OBVIOUS
<1> HIDE DEF new, n
<1>2. /\ Weights(w, n) /\ Weights(y, n)
      /\ v[i] = w[i] + d /\ x[i] = y[i] + b
      /\ \A k \in 1 .. n : k # i => v[k] = w[k]
      /\ \A k \in 1 .. n : k # i => x[k] = y[k]
  BY <1>1 DEF Weights, Edges
<1>3. CountsOf(new) = SumOf(v, n) /\ BytesOf(new) = SumOf(x, n)
  BY <1>1 DEF CountsOf, BytesOf
<1>4. CountsOf(es) = SumOf(w, n) /\ BytesOf(es) = SumOf(y, n)
  BY DEF CountsOf, BytesOf, n
<1>5. SumOf(v, n) = SumOf(w, n) + d /\ SumOf(x, n) = SumOf(y, n) + b
  <2> HIDE DEF v, w, x, y
  <2>1. SumOf(v, n) = SumOf(w, n) + d
    <3>1. /\ n \in Nat /\ i \in 1 .. n /\ Weights(w, n) /\ v[i] = w[i] + d
          /\ \A k \in 1 .. n : k # i => v[k] = w[k]
      BY <1>1, <1>2
    <3> QED BY <3>1, SumGrows
  <2>2. SumOf(x, n) = SumOf(y, n) + b
    <3>1. /\ n \in Nat /\ i \in 1 .. n /\ Weights(y, n) /\ x[i] = y[i] + b
          /\ \A k \in 1 .. n : k # i => x[k] = y[k]
      BY <1>1, <1>2
    <3> QED BY <3>1, SumGrows
  <2> QED BY <2>1, <2>2
<1> QED BY <1>1, <1>3, <1>4, <1>5 DEF new

\* So a conversation that goes into the graph is counted once, and no edge
\* gets another end.
LEMMA EdgeAdds ==
  ASSUME NEW es \in Seq(Edges), NEW c \in Talks
  PROVE  LET new == AddEdge(es, c)
         IN /\ new \in Seq(Edges)
            /\ CountsOf(new) = CountsOf(es) + 1 /\ BytesOf(new) = BytesOf(es) + c.bytes
            /\ \A k \in DOMAIN new :
                 \/ new[k].src = SrcKey(c) /\ new[k].dst = DstKey(c)
                 \/ \E j \in DOMAIN es : new[k].src = es[j].src /\ new[k].dst = es[j].dst
<1> DEFINE new == AddEdge(es, c)
           e == EdgeOf(c)
<1>1. /\ e \in Edges /\ e.count = 1 /\ e.bytes = c.bytes /\ c.bytes \in Nat
      /\ e.src = SrcKey(c) /\ e.dst = DstKey(c)
  BY EdgeTyped DEF Talks
<1>2. CASE new = Append(es, e)
  <2> HIDE DEF e, new
  <2>1. new \in Seq(Edges) /\ CountsOf(new) = CountsOf(es) + 1 /\ BytesOf(new) = BytesOf(es) + c.bytes
    BY <1>1, <1>2, EdgeAppended
  <2>2. \A k \in DOMAIN new : new[k] = e \/ \E j \in DOMAIN es : new[k] = es[j]
    BY <1>2
  <2> QED BY <1>1, <2>1, <2>2 DEF new
<1>3. ASSUME NEW i \in DOMAIN es, new = [es EXCEPT ![i] = MergeEdge(@, e)]
      PROVE  /\ new \in Seq(Edges)
             /\ CountsOf(new) = CountsOf(es) + 1 /\ BytesOf(new) = BytesOf(es) + c.bytes
             /\ \A k \in DOMAIN new :
                  \E j \in DOMAIN es : new[k].src = es[j].src /\ new[k].dst = es[j].dst
  <2> DEFINE m == MergeEdge(es[i], e)
  <2>1. es[i] \in Edges
    OBVIOUS
  <2> HIDE DEF e
  <2>2. /\ m \in Edges /\ m.count = es[i].count + 1 /\ m.bytes = es[i].bytes + e.bytes
        /\ m.src = es[i].src /\ m.dst = es[i].dst
    BY <1>1, <2>1, MergedEdge
  <2>3. new = [es EXCEPT ![i] = m]
    BY <1>3
  <2> HIDE DEF m, new
  <2>4. /\ new \in Seq(Edges) /\ CountsOf(new) = CountsOf(es) + 1
        /\ BytesOf(new) = BytesOf(es) + c.bytes
    <3>1. /\ m \in Edges /\ m.count = es[i].count + 1 /\ m.bytes = es[i].bytes + c.bytes
          /\ 1 \in Nat /\ c.bytes \in Nat
      BY <1>1, <2>2
    <3> QED BY <2>3, <3>1, EdgeReplaced
  <2>5. \A k \in DOMAIN new : k \in DOMAIN es /\ (new[k] = m \/ new[k] = es[k])
    BY <2>3
  <2> QED BY <2>2, <2>4, <2>5
<1> QED BY <1>2, <1>3, EdgeCases

\* Prefixes of the fold of a graph's edges.
LEMMA ShownFold ==
  ASSUME NEW s \in Seq(Talks)
  PROVE  \E f : /\ f[0] = <<>> /\ f[Len(s)] = FoldLeft(AddShown, <<>>, s)
                /\ \A k \in 0 .. Len(s) - 1 : f[k + 1] = AddShown(f[k], s[k + 1])
<1> DEFINE n == Len(s)
           A == Seq(Edges)
           g == [k \in 1 .. n |-> [l \in A |-> AddShown(l, s[k])]]
<1>0. n \in Nat /\ DOMAIN s = 1 .. n /\ \A k \in 1 .. n : s[k] \in Talks
  OBVIOUS
<1>1. g \in [1 .. n -> [A -> A]]
  <2>1. \A k \in 1 .. n : \A l \in A : AddShown(l, s[k]) \in A
    BY <1>0, EdgeAdds DEF AddShown
  <2> QED BY <2>1
<1>2. PICK h \in [SUBSET (1 .. n) -> A] : StepsBy(h, n, <<>>, g)
  <2>1. <<>> \in A
    OBVIOUS
  <2> HIDE DEF A, g, n
  <2> QED BY <1>0, <1>1, <2>1, FoldExists
<1>3. h = [x \in SUBSET (1 .. n) |->
             IF x = {} THEN <<>> ELSE AddShown(h[x \ {Max(x)}], s[Max(x)])]
  <2>1. ASSUME NEW x \in SUBSET (1 .. n), x # {}
        PROVE  g[Max(x)][h[x \ {Max(x)}]] = AddShown(h[x \ {Max(x)}], s[Max(x)])
    <3>1. Max(x) \in 1 .. n
      BY <1>0, <2>1, MaxIsIn
    <3> QED BY <1>2, <3>1
  <2>2. \A x \in SUBSET (1 .. n) :
          h[x] = IF x = {} THEN <<>> ELSE g[Max(x)][h[x \ {Max(x)}]]
    BY <1>2 DEF StepsBy
  <2> HIDE DEF g, n
  <2> QED BY <1>2, <2>1, <2>2
<1>4. PICK it : /\ it = [x \in SUBSET (1 .. n) |->
                           IF x = {} THEN <<>> ELSE AddShown(it[x \ {Max(x)}], s[Max(x)])]
                /\ FoldLeft(AddShown, <<>>, s) = it[1 .. n]
  <2> HIDE DEF n
  <2>1. h = [x \in SUBSET DOMAIN s |->
               IF x = {} THEN <<>> ELSE AddShown(h[x \ {Max(x)}], s[Max(x)])]
    BY <1>0, <1>3
  <2>2. \E it : /\ it = [x \in SUBSET DOMAIN s |->
                           IF x = {} THEN <<>> ELSE AddShown(it[x \ {Max(x)}], s[Max(x)])]
                /\ FoldLeft(AddShown, <<>>, s) = it[DOMAIN s]
    BY <2>1 DEF FoldLeft, MapThenFoldSet
  <2> QED BY <1>0, <2>2
<1> DEFINE f == [k \in 0 .. n |-> it[1 .. k]]
<1>5. f[0] = <<>>
  <2>1. 1 .. 0 = {} /\ {} \in SUBSET (1 .. n) /\ 0 \in 0 .. n
    BY <1>0
  <2> QED BY <1>4, <2>1
<1>6. ASSUME NEW k \in 0 .. n - 1
      PROVE  f[k + 1] = AddShown(f[k], s[k + 1])
  <2>1. k + 1 \in 1 .. n /\ (k + 1) - 1 = k /\ k + 1 \in 0 .. n /\ k \in 0 .. n
    BY <1>0
  <2>2. IsSegment(k + 1, n)
    <3> HIDE DEF n
    <3> QED BY <1>0, <2>1, Segments
  <2>3. it[1 .. k + 1] = AddShown(it[(1 .. k + 1) \ {Max(1 .. k + 1)}], s[Max(1 .. k + 1)])
    BY <1>4, <2>2 DEF IsSegment
  <2>4. it[1 .. k + 1] = AddShown(it[1 .. k], s[k + 1])
    BY <2>1, <2>2, <2>3 DEF IsSegment
  <2> QED BY <2>1, <2>4
<1>7. f[n] = FoldLeft(AddShown, <<>>, s)
  <2>1. n \in 0 .. n
    BY <1>0
  <2>2. f[n] = it[1 .. n]
    <3> HIDE DEF n
    <3> QED BY <2>1
  <2> HIDE DEF f
  <2> QED BY <1>4, <2>2
<1> HIDE DEF f
<1> QED BY <1>5, <1>6, <1>7

\* The edges of a graph: with every port shown they carry all its traffic.
LEMMA EdgesOfGraph ==
  ASSUME NEW s \in Seq(Talks)
  PROVE  LET es == FoldLeft(AddShown, <<>>, s)
         IN /\ es \in Seq(Edges)
            /\ \A i \in DOMAIN es : es[i].src \in EndsOf(s) /\ es[i].dst \in EndsOf(s)
            /\ ~cli.fast => CountsOf(es) = Len(s) /\ BytesOf(es) = BytesOf(s)
<1> DEFINE n == Len(s)
           y == [k \in 1 .. n |-> s[k].bytes]
           Ok(k, es) == /\ es \in Seq(Edges)
                        /\ \A i \in DOMAIN es :
                             es[i].src \in EndsOf(s) /\ es[i].dst \in EndsOf(s)
                        /\ ~cli.fast => CountsOf(es) = k /\ BytesOf(es) = SumOf(y, k)
<1>0. n \in Nat /\ DOMAIN s = 1 .. n /\ \A k \in 1 .. n : s[k] \in Talks
  OBVIOUS
<1>1. PICK f : /\ f[0] = <<>> /\ f[n] = FoldLeft(AddShown, <<>>, s)
               /\ \A k \in 0 .. n - 1 : f[k + 1] = AddShown(f[k], s[k + 1])
  BY ShownFold
<1> DEFINE G == {k \in 0 .. n : Ok(k, f[k])}
<1>2. \A k \in 0 .. n : Weights(y, k) /\ k \in Nat
  <2>1. \A k \in 1 .. n : y[k] \in Nat
    BY <1>0 DEF Talks
  <2> HIDE DEF y
  <2> QED BY <1>0, <2>1 DEF Weights
<1>3. 0 \in G
  <2>1. 0 \in 0 .. n /\ <<>> \in Seq(Edges) /\ DOMAIN <<>> = {}
    BY <1>0
  <2>2. SumOf(y, 0) = 0
    <3> HIDE DEF y
    <3> QED BY <1>2, <2>1, SumSteps
  <2>3. CountsOf(<<>>) = 0 /\ BytesOf(<<>>) = 0
    BY <2>1, EdgeSumsTyped
  <2>4. Ok(0, <<>>)
    <3> HIDE DEF y
    <3> QED BY <2>1, <2>2, <2>3
  <2> HIDE DEF Ok
  <2> QED BY <1>1, <2>1, <2>4
<1>4. ASSUME NEW k \in 0 .. n - 1, k \in G
      PROVE  k + 1 \in G
  <2>1. k + 1 \in 1 .. n /\ (k + 1) - 1 = k /\ k + 1 \in 0 .. n /\ k + 1 # 0 /\ k \in 0 .. n
    BY <1>0
  <2> DEFINE es == f[k]
             c == s[k + 1]
             new == AddShown(es, c)
  <2>2. Ok(k, es) /\ f[k + 1] = new
    BY <1>1, <1>4
  <2>3. c \in Talks /\ y[k + 1] = c.bytes /\ SrcKey(c) \in EndsOf(s) /\ DstKey(c) \in EndsOf(s)
    BY <1>0, <2>1 DEF EndsOf
  <2>4. es \in Seq(Edges)
    BY <2>2
  <2> HIDE DEF es, c
  <2>5. CASE Shown(c)
    <3>1. new = AddEdge(es, c)
      BY <2>5 DEF AddShown
    <3>2. /\ new \in Seq(Edges)
          /\ CountsOf(new) = CountsOf(es) + 1 /\ BytesOf(new) = BytesOf(es) + c.bytes
          /\ \A i \in DOMAIN new :
               \/ new[i].src = SrcKey(c) /\ new[i].dst = DstKey(c)
               \/ \E j \in DOMAIN es : new[i].src = es[j].src /\ new[i].dst = es[j].dst
      BY <2>3, <2>4, <3>1, EdgeAdds
    <3> HIDE DEF new
    <3>3. \A i \in DOMAIN new : new[i].src \in EndsOf(s) /\ new[i].dst \in EndsOf(s)
      <4>1. \A j \in DOMAIN es : es[j].src \in EndsOf(s) /\ es[j].dst \in EndsOf(s)
        BY <2>2
      <4> QED BY <2>3, <3>2, <4>1
    <3>4. SumOf(y, k + 1) = SumOf(y, k) + y[k + 1]
      <4> HIDE DEF y
      <4> QED BY <1>2, <2>1, SumSteps
    <3>5. ~cli.fast => CountsOf(new) = k + 1 /\ BytesOf(new) = SumOf(y, k + 1)
      <4>1. ~cli.fast => CountsOf(es) = k /\ BytesOf(es) = SumOf(y, k)
        BY <2>2
      <4> HIDE DEF y
      <4> QED BY <2>3, <3>2, <3>4, <4>1
    <3>6. Ok(k + 1, new)
      <4> HIDE DEF y
      <4> QED BY <3>2, <3>3, <3>5
    <3> HIDE DEF Ok
    <3> QED BY <2>1, <2>2, <3>6
  <2>6. CASE ~Shown(c)
    <3>1. new = es /\ cli.fast
      BY <2>6 DEF AddShown, Shown
    <3>2. Ok(k + 1, new)
      BY <2>2, <3>1
    <3> HIDE DEF Ok
    <3> QED BY <2>1, <2>2, <3>2
  <2> QED BY <2>5, <2>6
<1>5. Ok(n, f[n])
  <2> HIDE DEF Ok, n
  <2>1. \A k \in 0 .. n : k \in G
    <3> HIDE DEF G
    <3> QED BY <1>0, <1>3, <1>4, UpTo
  <2> QED BY <1>0, <2>1
<1>6. SumOf(y, n) = BytesOf(s)
  BY DEF BytesOf
<1> QED BY <1>1, <1>5, <1>6

-----------------------------------------------------------------------------
(* Nodes.                                                                   *)

\* A node has no other management address than those that were announced.
Advertised == Announced \cup {None}
Spoken == {c \in Talks : c.discovery.mgmt \in Advertised}

\* A conversation of the report is one of Stage 2.
LEMMA SpokenIs ==
  ASSUME NEW c \in Spoken
  PROVE  c \in Talks /\ c.discovery.mgmt \in Advertised
BY DEF Spoken

\* All conversations of the report announce what they announce.
LEMMA AllSpoken ==
  ASSUME convs \in Seq(Talks)
  PROVE  convs \in Seq(Spoken) /\ Announced \subseteq IPs
<1>1. \A i \in DOMAIN convs : convs[i] \in Talks
  OBVIOUS
<1>2. \A i \in DOMAIN convs : convs[i].discovery.mgmt \in Advertised
  BY DEF Advertised, Announced
<1>3. \A i \in DOMAIN convs : convs[i] \in Spoken
  BY <1>1, <1>2 DEF Spoken
<1>4. Announced \subseteq IPs
  BY <1>1 DEF Announced, Talks, Told
<1> QED BY <1>3, <1>4

\* The nodes of a graph before levels, vendors and roles are found; S has the
\* services that each may have.
Nodes(S) ==
  [ip : IPs \cup {None}, mac : MACs \cup {None}, initiates : BOOLEAN, responds : BOOLEAN,
   protocols : SUBSET Words, services : S, caps : SUBSET (Words \cup {"Bridge"}),
   mgmt : Advertised, desc : Words, level : {-1}, asset : {"local"},
   role : {"Unknown"}, device : {"Unknown"}, vendor : {"Unknown"}, priority : {0}]

\* The nodes while they are collected.
Graphs == UNION {[K -> Nodes({{}})] : K \in SUBSET Hosts}

\* A new node has the addresses of its end of the conversation.
LEMMA NewNodeTyped ==
  ASSUME NEW ip \in IPs \cup {None}, NEW mac \in MACs \cup {None}
  PROVE  NewNode(ip, mac) \in Nodes({{}})
<1>1. /\ {} \in SUBSET Words /\ {} \in SUBSET (Words \cup {"Bridge"}) /\ "none" \in Words
      /\ None \in Advertised
  BY DEF Words, Advertised
<1> QED BY <1>1 DEF NewNode, Nodes

\* What a sender and a receiver learn of a conversation keeps the types.
LEMMA EndTyped ==
  ASSUME NEW S, NEW n \in Nodes(S), NEW c \in Spoken
  PROVE  Sender(n, c) \in Nodes(S) /\ Receiver(n, c) \in Nodes(S)
<1>1. /\ c.proto \in Words /\ c.discovery.caps \in SUBSET Words
      /\ c.discovery.mgmt \in Advertised /\ c.discovery.desc \in Words
  BY SpokenIs DEF Talks, Told
<1> DEFINE m == [n EXCEPT !.initiates = TRUE, !.protocols = @ \cup {c.proto}]
           d == c.discovery
<1>2. m \in Nodes(S)
  BY <1>1 DEF Nodes
<1> HIDE DEF m, d
<1>3. Advertise(m, d) \in Nodes(S)
  <2>1. d.caps \in SUBSET Words /\ d.mgmt \in Advertised /\ d.desc \in Words
    BY <1>1 DEF d
  <2>2. [m EXCEPT !.caps = @ \cup {"Bridge"}] \in Nodes(S)
    BY <1>2 DEF Nodes
  <2>3. [m EXCEPT !.caps = @ \cup d.caps, !.mgmt = IfUnset(@, d.mgmt, None),
                  !.desc = IfUnset(@, d.desc, "none")] \in Nodes(S)
    BY <1>2, <2>1 DEF Nodes, IfUnset
  <2> QED BY <1>2, <2>2, <2>3 DEF Advertise
<1>4. Sender(n, c) = Advertise(m, d)
  BY DEF Sender, m, d
<1>5. Receiver(n, c) \in Nodes(S)
  BY <1>1 DEF Receiver, Nodes
<1> QED BY <1>3, <1>4, <1>5

\* A conversation adds its two ends, and nothing else.
LEMMA NodesAdded ==
  ASSUME NEW K \in SUBSET Hosts, NEW ns \in [K -> Nodes({{}})], NEW c \in Spoken
  PROVE  AddNodes(ns, c) \in [K \cup {SrcKey(c), DstKey(c)} -> Nodes({{}})]
<1> DEFINE R == Nodes({{}})
           src == SrcKey(c)
           dst == DstKey(c)
           a == Sender(NodeOr(ns, src, NewNode(c.sip, c.smac)), c)
           one == Put(ns, src, a)
           b == Receiver(NodeOr(one, dst, NewNode(c.dip, c.dmac)), c)
<1>1. /\ ns \in [K -> R]
      /\ NewNode(c.sip, c.smac) \in R /\ NewNode(c.dip, c.dmac) \in R
  BY NewNodeTyped, SpokenIs DEF Talks
<1>2. a \in R
  <2>1. NodeOr(ns, src, NewNode(c.sip, c.smac)) \in R
    <3> HIDE DEF R
    <3> QED BY <1>1 DEF NodeOr
  <2> QED BY <2>1, EndTyped
<1>3. one \in [K \cup {src} -> R]
  <2> HIDE DEF R, a, src
  <2> QED BY <1>1, <1>2 DEF Put
<1>4. b \in R
  <2>1. NodeOr(one, dst, NewNode(c.dip, c.dmac)) \in R
    <3> HIDE DEF R, one
    <3> QED BY <1>1, <1>3 DEF NodeOr
  <2> QED BY <2>1, EndTyped
<1>5. Put(one, dst, b) \in [K \cup {src, dst} -> R]
  <2> HIDE DEF R, b, one, src, dst
  <2> QED BY <1>3, <1>4 DEF Put
<1>6. AddNodes(ns, c) = Put(one, dst, b)
  BY DEF AddNodes
<1> QED BY <1>5, <1>6

\* At first there is none.
LEMMA NothingIsGraph == \A S : <<>> \in [{} -> S]
<1> SUFFICES ASSUME NEW S
             PROVE  <<>> \in [{} -> S]
  OBVIOUS
<1>1. <<>> \in Seq(S) /\ Len(<<>>) = 0
  OBVIOUS
<1>2. <<>> \in [1 .. 0 -> S] /\ 1 .. 0 = {}
  BY <1>1
<1> QED BY <1>2

\* Prefixes of the fold of the nodes.
LEMMA NodesFold ==
  ASSUME NEW s \in Seq(Spoken)
  PROVE  \E f : /\ f[0] = <<>> /\ f[Len(s)] = FoldLeft(AddNodes, <<>>, s)
                /\ \A k \in 0 .. Len(s) - 1 : f[k + 1] = AddNodes(f[k], s[k + 1])
<1> DEFINE n == Len(s)
           A == Graphs
           g == [k \in 1 .. n |-> [l \in A |-> AddNodes(l, s[k])]]
<1>0. n \in Nat /\ DOMAIN s = 1 .. n /\ \A k \in 1 .. n : s[k] \in Spoken
  OBVIOUS
<1>1. g \in [1 .. n -> [A -> A]]
  <2>1. \A k \in 1 .. n : \A l \in A : AddNodes(l, s[k]) \in A
    <3>1. ASSUME NEW c \in Spoken, NEW l \in A
          PROVE  AddNodes(l, c) \in A
      <4>1. PICK K \in SUBSET Hosts : l \in [K -> Nodes({{}})]
        BY DEF Graphs
      <4>2. K \cup {SrcKey(c), DstKey(c)} \in SUBSET Hosts
        BY SpokenIs, EndsTyped
      <4>3. AddNodes(l, c) \in [K \cup {SrcKey(c), DstKey(c)} -> Nodes({{}})]
        BY <4>1, NodesAdded
      <4> QED BY <4>2, <4>3 DEF Graphs
    <3> HIDE DEF A
    <3> QED BY <1>0, <3>1
  <2> QED BY <2>1
<1>2. PICK h \in [SUBSET (1 .. n) -> A] : StepsBy(h, n, <<>>, g)
  <2>1. <<>> \in A
    BY NothingIsGraph DEF Graphs
  <2> HIDE DEF A, g, n
  <2> QED BY <1>0, <1>1, <2>1, FoldExists
<1>3. h = [x \in SUBSET (1 .. n) |->
             IF x = {} THEN <<>> ELSE AddNodes(h[x \ {Max(x)}], s[Max(x)])]
  <2>1. ASSUME NEW x \in SUBSET (1 .. n), x # {}
        PROVE  g[Max(x)][h[x \ {Max(x)}]] = AddNodes(h[x \ {Max(x)}], s[Max(x)])
    <3>1. Max(x) \in 1 .. n
      BY <1>0, <2>1, MaxIsIn
    <3> QED BY <1>2, <3>1
  <2>2. \A x \in SUBSET (1 .. n) :
          h[x] = IF x = {} THEN <<>> ELSE g[Max(x)][h[x \ {Max(x)}]]
    BY <1>2 DEF StepsBy
  <2> HIDE DEF g, n
  <2> QED BY <1>2, <2>1, <2>2
<1>4. PICK it : /\ it = [x \in SUBSET (1 .. n) |->
                           IF x = {} THEN <<>> ELSE AddNodes(it[x \ {Max(x)}], s[Max(x)])]
                /\ FoldLeft(AddNodes, <<>>, s) = it[1 .. n]
  <2> HIDE DEF n
  <2>1. h = [x \in SUBSET DOMAIN s |->
               IF x = {} THEN <<>> ELSE AddNodes(h[x \ {Max(x)}], s[Max(x)])]
    BY <1>0, <1>3
  <2>2. \E it : /\ it = [x \in SUBSET DOMAIN s |->
                           IF x = {} THEN <<>> ELSE AddNodes(it[x \ {Max(x)}], s[Max(x)])]
                /\ FoldLeft(AddNodes, <<>>, s) = it[DOMAIN s]
    BY <2>1 DEF FoldLeft, MapThenFoldSet
  <2> QED BY <1>0, <2>2
<1> DEFINE f == [k \in 0 .. n |-> it[1 .. k]]
<1>5. f[0] = <<>>
  <2>1. 1 .. 0 = {} /\ {} \in SUBSET (1 .. n) /\ 0 \in 0 .. n
    BY <1>0
  <2> QED BY <1>4, <2>1
<1>6. ASSUME NEW k \in 0 .. n - 1
      PROVE  f[k + 1] = AddNodes(f[k], s[k + 1])
  <2>1. k + 1 \in 1 .. n /\ (k + 1) - 1 = k /\ k + 1 \in 0 .. n /\ k \in 0 .. n
    BY <1>0
  <2>2. IsSegment(k + 1, n)
    <3> HIDE DEF n
    <3> QED BY <1>0, <2>1, Segments
  <2>3. it[1 .. k + 1] = AddNodes(it[(1 .. k + 1) \ {Max(1 .. k + 1)}], s[Max(1 .. k + 1)])
    BY <1>4, <2>2 DEF IsSegment
  <2>4. it[1 .. k + 1] = AddNodes(it[1 .. k], s[k + 1])
    BY <2>1, <2>2, <2>3 DEF IsSegment
  <2> QED BY <2>1, <2>4
<1>7. f[n] = FoldLeft(AddNodes, <<>>, s)
  <2>1. n \in 0 .. n
    BY <1>0
  <2>2. f[n] = it[1 .. n]
    <3> HIDE DEF n
    <3> QED BY <2>1
  <2> HIDE DEF f
  <2> QED BY <1>4, <2>2
<1> HIDE DEF f
<1> QED BY <1>5, <1>6, <1>7

\* The keys of the graph are the ends of the conversations.
LEMMA NodesOfGraph ==
  ASSUME NEW s \in Seq(Spoken)
  PROVE  FoldLeft(AddNodes, <<>>, s) \in [EndsOf(s) -> Nodes({{}})]
<1> DEFINE n == Len(s)
           KeysTo(k) == {SrcKey(s[i]) : i \in 1 .. k} \cup {DstKey(s[i]) : i \in 1 .. k}
           R == Nodes({{}})
<1>0. n \in Nat /\ DOMAIN s = 1 .. n /\ \A k \in 1 .. n : s[k] \in Spoken
  OBVIOUS
<1>1. PICK f : /\ f[0] = <<>> /\ f[n] = FoldLeft(AddNodes, <<>>, s)
               /\ \A k \in 0 .. n - 1 : f[k + 1] = AddNodes(f[k], s[k + 1])
  BY NodesFold
<1> DEFINE G == {k \in 0 .. n : f[k] \in [KeysTo(k) -> R]}
<1>2. 0 \in G
  <2>1. 0 \in 0 .. n /\ 1 .. 0 = {}
    BY <1>0
  <2>2. KeysTo(0) = {}
    BY <2>1
  <2>3. <<>> \in [{} -> R]
    BY NothingIsGraph
  <2> HIDE DEF KeysTo
  <2> QED BY <1>1, <2>1, <2>2, <2>3
<1>3. ASSUME NEW k \in 0 .. n - 1, k \in G
      PROVE  k + 1 \in G
  <2>1. k + 1 \in 1 .. n /\ k + 1 \in 0 .. n /\ k \in 0 .. n
    BY <1>0
  <2> DEFINE c == s[k + 1]
  <2>2. c \in Spoken /\ f[k] \in [KeysTo(k) -> R] /\ f[k + 1] = AddNodes(f[k], c)
    BY <1>0, <1>1, <1>3, <2>1
  <2>3. KeysTo(k) \in SUBSET Hosts
    <3>1. \A i \in 1 .. k : s[i] \in Spoken
      BY <1>0
    <3> QED BY <3>1, SpokenIs, EndsTyped
  <2>4. KeysTo(k + 1) = KeysTo(k) \cup {SrcKey(c), DstKey(c)}
    <3>1. \A i : i \in 1 .. k + 1 <=> i \in 1 .. k \/ i = k + 1
      BY <1>0
    <3> QED BY <3>1
  <2> HIDE DEF KeysTo, c
  <2>5. f[k + 1] \in [KeysTo(k + 1) -> R]
    <3>1. AddNodes(f[k], c) \in [KeysTo(k) \cup {SrcKey(c), DstKey(c)} -> R]
      BY <2>2, <2>3, NodesAdded
    <3> HIDE DEF R
    <3> QED BY <2>2, <2>4, <3>1
  <2> QED BY <2>1, <2>5
<1>4. n \in G
  <2> HIDE DEF G, n
  <2>1. \A k \in 0 .. n : k \in G
    BY <1>0, <1>2, <1>3, UpTo
  <2> QED BY <1>0, <2>1
<1>5. KeysTo(n) = EndsOf(s)
  BY <1>0 DEF EndsOf
<1> HIDE DEF KeysTo
<1> QED BY <1>1, <1>4, <1>5

-----------------------------------------------------------------------------
(* Who has sent.                                                            *)

\* A sender is marked, and no end loses the mark.
LEMMA EndsMarked ==
  ASSUME NEW S, NEW n \in Nodes(S), NEW c \in Spoken
  PROVE  Sender(n, c).initiates /\ (n.initiates => Receiver(n, c).initiates)
<1> DEFINE m == [n EXCEPT !.initiates = TRUE, !.protocols = @ \cup {c.proto}]
           d == c.discovery
<1>1. "initiates" \in DOMAIN m /\ m.initiates
  BY DEF Nodes
<1> HIDE DEF m, d
<1>2. Advertise(m, d).initiates
  BY <1>1 DEF Advertise
<1>3. Sender(n, c) = Advertise(m, d)
  BY DEF Sender, m, d
<1>4. n.initiates => Receiver(n, c).initiates
  BY DEF Receiver, Nodes
<1> QED BY <1>2, <1>3, <1>4

\* A conversation marks its source and keeps the marks there are.
LEMMA SenderAdded ==
  ASSUME NEW K \in SUBSET Hosts, NEW ns \in [K -> Nodes({{}})], NEW c \in Spoken
  PROVE  /\ AddNodes(ns, c)[SrcKey(c)].initiates
         /\ \A k \in K : ns[k].initiates => AddNodes(ns, c)[k].initiates
<1> DEFINE R == Nodes({{}})
           src == SrcKey(c)
           dst == DstKey(c)
           n1 == NodeOr(ns, src, NewNode(c.sip, c.smac))
           a == Sender(n1, c)
           one == Put(ns, src, a)
           n2 == NodeOr(one, dst, NewNode(c.dip, c.dmac))
           b == Receiver(n2, c)
           new == Put(one, dst, b)
<1>1. /\ ns \in [K -> R]
      /\ NewNode(c.sip, c.smac) \in R /\ NewNode(c.dip, c.dmac) \in R
  BY NewNodeTyped, SpokenIs DEF Talks
<1>2. n1 \in R
  <2> HIDE DEF R
  <2> QED BY <1>1 DEF NodeOr
<1>3. a \in R /\ a.initiates
  <2> HIDE DEF n1
  <2> QED BY <1>2, EndTyped, EndsMarked
<1>4. one \in [K \cup {src} -> R] /\ one[src] = a /\ \A k \in K \ {src} : one[k] = ns[k]
  <2> HIDE DEF R, a, src
  <2> QED BY <1>1, <1>3 DEF Put
<1>5. n2 \in R /\ (dst \in K \cup {src} => n2 = one[dst])
  <2> HIDE DEF R, one, dst, src
  <2> QED BY <1>1, <1>4 DEF NodeOr
<1>6. n2.initiates => b.initiates
  <2> HIDE DEF n2
  <2> QED BY <1>5, EndsMarked
<1>7. \A k \in K \cup {src} : new[k] = IF k = dst THEN b ELSE one[k]
  <2> HIDE DEF R, b, one, dst, src
  <2> QED BY <1>4 DEF Put
<1>8. AddNodes(ns, c) = new
  BY DEF AddNodes
<1> HIDE DEF R, a, b, one, dst, src, new, n2
<1>9. new[src].initiates
  BY <1>3, <1>4, <1>5, <1>6, <1>7
<1>10. \A k \in K : ns[k].initiates => new[k].initiates
  BY <1>3, <1>4, <1>5, <1>6, <1>7
<1> QED BY <1>8, <1>9, <1>10 DEF src

\* So the graph marks the source of every conversation.
LEMMA SendersOfGraph ==
  ASSUME NEW s \in Seq(Spoken), NEW i \in DOMAIN s
  PROVE  FoldLeft(AddNodes, <<>>, s)[SrcKey(s[i])].initiates
<1> DEFINE n == Len(s)
           R == Nodes({{}})
           Marked(g, k) ==
             \E K \in SUBSET Hosts :
               /\ g \in [K -> R]
               /\ \A j \in 1 .. k : SrcKey(s[j]) \in K /\ g[SrcKey(s[j])].initiates
<1>0. n \in Nat /\ DOMAIN s = 1 .. n /\ \A k \in 1 .. n : s[k] \in Spoken
  OBVIOUS
<1>1. PICK f : /\ f[0] = <<>> /\ f[n] = FoldLeft(AddNodes, <<>>, s)
               /\ \A k \in 0 .. n - 1 : f[k + 1] = AddNodes(f[k], s[k + 1])
  BY NodesFold
<1> DEFINE G == {k \in 0 .. n : Marked(f[k], k)}
<1>2. 0 \in G
  <2>1. 0 \in 0 .. n /\ 1 .. 0 = {} /\ {} \in SUBSET Hosts
    BY <1>0
  <2>2. <<>> \in [{} -> R]
    BY NothingIsGraph
  <2> HIDE DEF R
  <2> QED BY <1>1, <2>1, <2>2
<1>3. ASSUME NEW k \in 0 .. n - 1, k \in G
      PROVE  k + 1 \in G
  <2>1. k + 1 \in 1 .. n /\ k + 1 \in 0 .. n /\ k \in 0 .. n
    BY <1>0
  <2> DEFINE c == s[k + 1]
             g == f[k]
             new == AddNodes(g, c)
  <2>2. c \in Spoken /\ f[k + 1] = new
    BY <1>0, <1>1, <2>1
  <2>3. PICK K \in SUBSET Hosts :
          /\ g \in [K -> R]
          /\ \A j \in 1 .. k : SrcKey(s[j]) \in K /\ g[SrcKey(s[j])].initiates
    BY <1>3
  <2> DEFINE L == K \cup {SrcKey(c), DstKey(c)}
  <2>4. L \in SUBSET Hosts
    BY <2>2, <2>3, SpokenIs, EndsTyped
  <2> HIDE DEF g
  <2>5. new \in [L -> R]
    <3> HIDE DEF c
    <3> QED BY <2>2, <2>3, NodesAdded
  <2>6. new[SrcKey(c)].initiates /\ \A key \in K : g[key].initiates => new[key].initiates
    <3> HIDE DEF c
    <3> QED BY <2>2, <2>3, SenderAdded
  <2>7. ASSUME NEW j \in 1 .. k + 1
        PROVE  SrcKey(s[j]) \in L /\ new[SrcKey(s[j])].initiates
    <3> HIDE DEF new
    <3>1. CASE j = k + 1
      BY <2>6, <3>1
    <3>2. CASE j # k + 1
      <4>1. j \in 1 .. k
        BY <1>0, <3>2
      <4> QED BY <2>3, <2>6, <4>1
    <3> QED BY <3>1, <3>2
  <2> HIDE DEF new, L, R, c
  <2>8. Marked(f[k + 1], k + 1)
    BY <2>2, <2>4, <2>5, <2>7
  <2> HIDE DEF Marked
  <2> QED BY <2>1, <2>8
<1>4. Marked(f[n], n)
  <2> HIDE DEF G, n, Marked
  <2>1. \A k \in 0 .. n : k \in G
    BY <1>0, <1>2, <1>3, UpTo
  <2>2. n \in G
    BY <1>0, <2>1
  <2> QED BY <2>2 DEF G
<1> QED BY <1>0, <1>1, <1>4

-----------------------------------------------------------------------------
(* The merge of MAC keys.                                                   *)

\* No key is listed twice.
Distinct(keys) == \A i, j \in DOMAIN keys : keys[i] = keys[j] => i = j

\* A key is listed at the end, unless it is there.
LEMMA ListedOnce ==
  ASSUME NEW keys \in Seq(Hosts), NEW k \in Hosts
  PROVE  LET new == Listed(keys, k)
         IN /\ new \in Seq(Hosts) /\ (Distinct(keys) => Distinct(new))
            /\ \A i \in DOMAIN new : new[i] = k \/ \E j \in DOMAIN keys : new[i] = keys[j]
<1>1. CASE k \in ToSet(keys)
  BY <1>1 DEF Listed
<1>2. CASE k \notin ToSet(keys)
  <2>1. /\ Listed(keys, k) = Append(keys, k) /\ \A j \in DOMAIN keys : keys[j] # k
    BY <1>2 DEF Listed, ToSet
  <2>2. Distinct(keys) => Distinct(Append(keys, k))
    <3> SUFFICES ASSUME Distinct(keys), NEW i \in 1 .. Len(keys) + 1, NEW j \in 1 .. Len(keys) + 1,
                        Append(keys, k)[i] = Append(keys, k)[j]
                 PROVE  i = j
      BY DEF Distinct
    <3> QED BY <2>1 DEF Distinct
  <2>3. Append(keys, k) \in Seq(Hosts)
    OBVIOUS
  <2>4. \A i \in DOMAIN Append(keys, k) :
          Append(keys, k)[i] = k \/ \E j \in DOMAIN keys : Append(keys, k)[i] = keys[j]
    OBVIOUS
  <2> QED BY <2>1, <2>2, <2>3, <2>4
<1> QED BY <1>1, <1>2

\* Prefixes of the fold of the keys.
LEMMA KeysFold ==
  ASSUME NEW s \in Seq(Talks)
  PROVE  \E f : /\ f[0] = <<>> /\ f[Len(s)] = FoldLeft(ListEnds, <<>>, s)
                /\ \A k \in 0 .. Len(s) - 1 : f[k + 1] = ListEnds(f[k], s[k + 1])
<1> DEFINE n == Len(s)
           A == Seq(Hosts)
           g == [k \in 1 .. n |-> [l \in A |-> ListEnds(l, s[k])]]
<1>0. n \in Nat /\ DOMAIN s = 1 .. n /\ \A k \in 1 .. n : s[k] \in Talks
  OBVIOUS
<1>1. g \in [1 .. n -> [A -> A]]
  <2>1. \A k \in 1 .. n : \A l \in A : ListEnds(l, s[k]) \in A
    <3>1. ASSUME NEW c \in Talks, NEW l \in Seq(Hosts)
          PROVE  ListEnds(l, c) \in Seq(Hosts)
      BY EndsTyped, ListedOnce DEF ListEnds
    <3> QED BY <1>0, <3>1
  <2> QED BY <2>1
<1>2. PICK h \in [SUBSET (1 .. n) -> A] : StepsBy(h, n, <<>>, g)
  <2>1. <<>> \in A
    OBVIOUS
  <2> HIDE DEF A, g, n
  <2> QED BY <1>0, <1>1, <2>1, FoldExists
<1>3. h = [x \in SUBSET (1 .. n) |->
             IF x = {} THEN <<>> ELSE ListEnds(h[x \ {Max(x)}], s[Max(x)])]
  <2>1. ASSUME NEW x \in SUBSET (1 .. n), x # {}
        PROVE  g[Max(x)][h[x \ {Max(x)}]] = ListEnds(h[x \ {Max(x)}], s[Max(x)])
    <3>1. Max(x) \in 1 .. n
      BY <1>0, <2>1, MaxIsIn
    <3> QED BY <1>2, <3>1
  <2>2. \A x \in SUBSET (1 .. n) :
          h[x] = IF x = {} THEN <<>> ELSE g[Max(x)][h[x \ {Max(x)}]]
    BY <1>2 DEF StepsBy
  <2> HIDE DEF g, n
  <2> QED BY <1>2, <2>1, <2>2
<1>4. PICK it : /\ it = [x \in SUBSET (1 .. n) |->
                           IF x = {} THEN <<>> ELSE ListEnds(it[x \ {Max(x)}], s[Max(x)])]
                /\ FoldLeft(ListEnds, <<>>, s) = it[1 .. n]
  <2> HIDE DEF n
  <2>1. h = [x \in SUBSET DOMAIN s |->
               IF x = {} THEN <<>> ELSE ListEnds(h[x \ {Max(x)}], s[Max(x)])]
    BY <1>0, <1>3
  <2>2. \E it : /\ it = [x \in SUBSET DOMAIN s |->
                           IF x = {} THEN <<>> ELSE ListEnds(it[x \ {Max(x)}], s[Max(x)])]
                /\ FoldLeft(ListEnds, <<>>, s) = it[DOMAIN s]
    BY <2>1 DEF FoldLeft, MapThenFoldSet
  <2> QED BY <1>0, <2>2
<1> DEFINE f == [k \in 0 .. n |-> it[1 .. k]]
<1>5. f[0] = <<>>
  <2>1. 1 .. 0 = {} /\ {} \in SUBSET (1 .. n) /\ 0 \in 0 .. n
    BY <1>0
  <2> QED BY <1>4, <2>1
<1>6. ASSUME NEW k \in 0 .. n - 1
      PROVE  f[k + 1] = ListEnds(f[k], s[k + 1])
  <2>1. k + 1 \in 1 .. n /\ (k + 1) - 1 = k /\ k + 1 \in 0 .. n /\ k \in 0 .. n
    BY <1>0
  <2>2. IsSegment(k + 1, n)
    <3> HIDE DEF n
    <3> QED BY <1>0, <2>1, Segments
  <2>3. it[1 .. k + 1] = ListEnds(it[(1 .. k + 1) \ {Max(1 .. k + 1)}], s[Max(1 .. k + 1)])
    BY <1>4, <2>2 DEF IsSegment
  <2>4. it[1 .. k + 1] = ListEnds(it[1 .. k], s[k + 1])
    BY <2>1, <2>2, <2>3 DEF IsSegment
  <2> QED BY <2>1, <2>4
<1>7. f[n] = FoldLeft(ListEnds, <<>>, s)
  <2>1. n \in 0 .. n
    BY <1>0
  <2>2. f[n] = it[1 .. n]
    <3> HIDE DEF n
    <3> QED BY <2>1
  <2> HIDE DEF f
  <2> QED BY <1>4, <2>2
<1> HIDE DEF f
<1> QED BY <1>5, <1>6, <1>7

\* The keys in the order of their nodes: once each, and ends of conversations.
LEMMA KeysOfGraph ==
  ASSUME NEW s \in Seq(Talks)
  PROVE  LET keys == FoldLeft(ListEnds, <<>>, s)
         IN /\ keys \in Seq(Hosts) /\ Distinct(keys)
            /\ \A i \in DOMAIN keys : keys[i] \in EndsOf(s)
<1> DEFINE n == Len(s)
           Ok(keys) == /\ keys \in Seq(Hosts) /\ Distinct(keys)
                       /\ \A i \in DOMAIN keys : keys[i] \in EndsOf(s)
<1>0. n \in Nat /\ DOMAIN s = 1 .. n /\ \A k \in 1 .. n : s[k] \in Talks
  OBVIOUS
<1>1. PICK f : /\ f[0] = <<>> /\ f[n] = FoldLeft(ListEnds, <<>>, s)
               /\ \A k \in 0 .. n - 1 : f[k + 1] = ListEnds(f[k], s[k + 1])
  BY KeysFold
<1> DEFINE G == {k \in 0 .. n : Ok(f[k])}
<1>2. 0 \in G
  <2>1. 0 \in 0 .. n /\ <<>> \in Seq(Hosts) /\ DOMAIN <<>> = {}
    BY <1>0
  <2>2. Ok(<<>>)
    BY <2>1 DEF Distinct
  <2> HIDE DEF Ok
  <2> QED BY <1>1, <2>1, <2>2
<1>3. ASSUME NEW k \in 0 .. n - 1, k \in G
      PROVE  k + 1 \in G
  <2>1. k + 1 \in 1 .. n /\ k + 1 \in 0 .. n
    BY <1>0
  <2> DEFINE c == s[k + 1]
             old == f[k]
             one == Listed(old, SrcKey(c))
             new == Listed(one, DstKey(c))
  <2>2. /\ c \in Talks /\ SrcKey(c) \in EndsOf(s) /\ DstKey(c) \in EndsOf(s)
        /\ f[k + 1] = new /\ Ok(old)
    BY <1>0, <1>1, <1>3, <2>1 DEF EndsOf, ListEnds
  <2>3. SrcKey(c) \in Hosts /\ DstKey(c) \in Hosts
    BY <2>2, EndsTyped
  <2>4. Ok(one)
    <3> HIDE DEF old, c
    <3> QED BY <2>2, <2>3, ListedOnce
  <2>5. Ok(new)
    <3> HIDE DEF one, c
    <3> QED BY <2>2, <2>3, <2>4, ListedOnce
  <2> HIDE DEF Ok, new
  <2> QED BY <2>1, <2>2, <2>5
<1>4. n \in G
  <2> HIDE DEF G, n
  <2>1. \A k \in 0 .. n : k \in G
    BY <1>0, <1>2, <1>3, UpTo
  <2> QED BY <1>0, <2>1
<1> QED BY <1>1, <1>4

MergeAll(g, keys) == FoldLeft(MergeNode, g, keys)

\* The merge of MAC keys is a fold as well.  It deletes keys, so no one set has
\* all graphs on which its step is defined: its prefixes exist for what they are.
LEMMA MergeFold ==
  ASSUME NEW g, NEW keys \in Seq(Hosts)
  PROVE  \E f : /\ f[0] = g /\ f[Len(keys)] = MergeAll(g, keys)
                /\ \A k \in 0 .. Len(keys) - 1 : f[k + 1] = MergeNode(f[k], keys[k + 1])
<1> DEFINE n == Len(keys)
           Ok(k, h) == /\ h = [s \in SUBSET (1 .. k) |-> h[s]]
                       /\ h[{}] = g
                       /\ \A s \in SUBSET (1 .. k) :
                            s # {} => h[s] = MergeNode(h[s \ {Max(s)}], keys[Max(s)])
           G == {k \in Nat : \E h : Ok(k, h)}
<1>0. n \in Nat /\ DOMAIN keys = 1 .. n
  OBVIOUS
<1>1. 0 \in G
  <2>1. Ok(0, [s \in SUBSET (1 .. 0) |-> g])
    <3>1. SUBSET (1 .. 0) = {{}}
      OBVIOUS
    <3> QED BY <3>1
  <2> HIDE DEF Ok
  <2> QED BY <2>1
<1>2. ASSUME NEW k \in 0 .. n - 1, k \in G
      PROVE  k + 1 \in G
  <2>1. PICK h : Ok(k, h)
    BY <1>2
  <2> DEFINE top == k + 1
             new == [s \in SUBSET (1 .. top) |->
                       IF top \in s THEN MergeNode(h[s \ {top}], keys[top]) ELSE h[s]]
  <2>2. /\ top \in 1 .. n /\ top \in Nat /\ top \notin 1 .. k
        /\ \A s \in SUBSET (1 .. top) : s \ {top} \in SUBSET (1 .. k)
        /\ \A s \in SUBSET (1 .. top) : s \ {top} \in SUBSET (1 .. top)
        /\ \A s \in SUBSET (1 .. top) : top \notin s => s \in SUBSET (1 .. k)
    BY <1>0
  <2>3. new = [s \in SUBSET (1 .. top) |-> new[s]]
    OBVIOUS
  <2>4. new[{}] = g
    BY <2>1, <2>2
  <2>5. ASSUME NEW s \in SUBSET (1 .. top), s # {}
        PROVE  new[s] = MergeNode(new[s \ {Max(s)}], keys[Max(s)])
    <3>1. Max(s) \in s /\ \A x \in s : x <= Max(s)
      BY <2>2, <2>5, MaxIsIn
    <3>2. CASE top \in s
      <4>1. Max(s) = top
        <5>1. Max(s) \in 1 .. top /\ top <= Max(s)
          BY <3>1, <3>2
        <5> QED BY <2>2, <5>1
      <4>2. new[s \ {top}] = h[s \ {top}]
        BY <2>2
      <4>3. new[s] = MergeNode(h[s \ {top}], keys[top])
        BY <3>2
      <4> HIDE DEF new, top
      <4> QED BY <4>1, <4>2, <4>3
    <3>3. CASE top \notin s
      <4>1. s \in SUBSET (1 .. k) /\ s \ {Max(s)} \in SUBSET (1 .. top)
        BY <2>2, <3>3
      <4>2. new[s] = h[s] /\ new[s \ {Max(s)}] = h[s \ {Max(s)}]
        BY <3>3, <4>1
      <4>3. h[s] = MergeNode(h[s \ {Max(s)}], keys[Max(s)])
        BY <2>1, <2>5, <4>1
      <4> HIDE DEF new
      <4> QED BY <4>2, <4>3
    <3> QED BY <3>2, <3>3
  <2>6. Ok(top, new)
    <3> HIDE DEF new
    <3> QED BY <2>3, <2>4, <2>5
  <2> HIDE DEF Ok, new
  <2> QED BY <2>2, <2>6
<1>3. n \in G
  <2> HIDE DEF Ok, G, n
  <2>1. \A k \in 0 .. n : k \in G
    BY <1>0, <1>1, <1>2, UpTo
  <2> QED BY <1>0, <2>1
<1>4. PICK h : Ok(n, h)
  BY <1>3
<1>5. h = [s \in SUBSET (1 .. n) |->
             IF s = {} THEN g ELSE MergeNode(h[s \ {Max(s)}], keys[Max(s)])]
  <2>1. \A s \in SUBSET (1 .. n) :
          h[s] = IF s = {} THEN g ELSE MergeNode(h[s \ {Max(s)}], keys[Max(s)])
    BY <1>4
  <2> HIDE DEF n
  <2>2. h = [s \in SUBSET (1 .. n) |-> h[s]]
    BY <1>4
  <2> QED BY <2>1, <2>2
<1>6. PICK it : /\ it = [x \in SUBSET (1 .. n) |->
                           IF x = {} THEN g ELSE MergeNode(it[x \ {Max(x)}], keys[Max(x)])]
                /\ FoldLeft(MergeNode, g, keys) = it[1 .. n]
  <2> HIDE DEF n
  <2>1. h = [x \in SUBSET DOMAIN keys |->
               IF x = {} THEN g ELSE MergeNode(h[x \ {Max(x)}], keys[Max(x)])]
    BY <1>0, <1>5
  <2>2. \E it : /\ it = [x \in SUBSET DOMAIN keys |->
                           IF x = {} THEN g ELSE MergeNode(it[x \ {Max(x)}], keys[Max(x)])]
                /\ FoldLeft(MergeNode, g, keys) = it[DOMAIN keys]
    BY <2>1 DEF FoldLeft, MapThenFoldSet
  <2> QED BY <1>0, <2>2
<1> DEFINE f == [k \in 0 .. n |-> it[1 .. k]]
<1>7. f[0] = g
  <2>1. 1 .. 0 = {} /\ {} \in SUBSET (1 .. n) /\ 0 \in 0 .. n
    BY <1>0
  <2> QED BY <1>6, <2>1
<1>8. ASSUME NEW k \in 0 .. n - 1
      PROVE  f[k + 1] = MergeNode(f[k], keys[k + 1])
  <2>1. k + 1 \in 1 .. n /\ (k + 1) - 1 = k /\ k + 1 \in 0 .. n /\ k \in 0 .. n
    BY <1>0
  <2>2. IsSegment(k + 1, n)
    <3> HIDE DEF n
    <3> QED BY <1>0, <2>1, Segments
  <2>3. it[1 .. k + 1] = MergeNode(it[(1 .. k + 1) \ {Max(1 .. k + 1)}], keys[Max(1 .. k + 1)])
    BY <1>6, <2>2 DEF IsSegment
  <2>4. it[1 .. k + 1] = MergeNode(it[1 .. k], keys[k + 1])
    BY <2>1, <2>2, <2>3 DEF IsSegment
  <2> QED BY <2>1, <2>4
<1>9. f[n] = MergeAll(g, keys)
  <2>1. n \in 0 .. n
    BY <1>0
  <2>2. f[n] = it[1 .. n]
    <3> HIDE DEF n
    <3> QED BY <2>1
  <2> HIDE DEF f
  <2> QED BY <1>6, <2>2 DEF MergeAll
<1> HIDE DEF f
<1> QED BY <1>7, <1>8, <1>9

\* The target of a merge is an IP, that of an IP is one that was announced.
LEMMA TargetTyped ==
  ASSUME NEW S, NEW n \in Nodes(S), NEW mac, convs \in Seq(Talks), NEW ns, ns[mac] = n
  PROVE  /\ MergeTarget(ns, mac) \in IPs \cup {None}
         /\ mac \in IPs => MergeTarget(ns, mac) \in Advertised
<1>1. MacToIp(mac) \in IPs \cup {None}
  <2> DEFINE seen == {i \in DOMAIN convs : IpAt(convs[i], mac) # None}
  <2>1. CASE seen = {}
    BY <2>1 DEF MacToIp
  <2>2. CASE seen # {}
    <3>1. Max(seen) \in DOMAIN convs
      <4>1. Len(convs) \in Nat /\ DOMAIN convs = 1 .. Len(convs)
        BY DEF MacToIp
      <4>2. seen \in SUBSET (1 .. Len(convs))
        BY <4>1
      <4> HIDE DEF seen
      <4> QED BY <2>2, <4>1, <4>2, MaxIsIn
    <3>2. MacToIp(mac) = IpAt(convs[Max(seen)], mac)
      BY <2>2 DEF MacToIp
    <3>3. convs[Max(seen)] \in Talks
      BY <3>1
    <3> HIDE DEF seen
    <3> QED BY <3>2, <3>3 DEF IpAt, Talks
  <2> QED BY <2>1, <2>2
<1>2. n.mgmt \in Advertised /\ Advertised \subseteq IPs \cup {None} /\ None \in Advertised
  BY AllSpoken DEF Nodes, Advertised
<1>3. mac \in IPs => MacToIp(mac) = None
  <2>1. \A i \in DOMAIN convs : convs[i] \in Talks
    OBVIOUS
  <2>2. mac \in IPs => \A i \in DOMAIN convs : IpAt(convs[i], mac) = None
    BY <2>1, AddressesDiffer DEF IpAt, Talks
  <2> QED BY <2>2 DEF MacToIp
<1> QED BY <1>1, <1>2, <1>3 DEF MergeTarget, IfUnset

\* The host that takes in a MAC keeps the types.
LEMMA CombinedTyped ==
  ASSUME NEW S, NEW host \in Nodes(S), NEW l2 \in Nodes(S)
  PROVE  Combine(host, l2) \in Nodes(S)
<1>1. /\ host.caps \cup l2.caps \in SUBSET (Words \cup {"Bridge"})
      /\ host.protocols \cup l2.protocols \in SUBSET Words
      /\ (host.initiates \/ l2.initiates) \in BOOLEAN /\ (host.responds \/ l2.responds) \in BOOLEAN
      /\ IfUnset(host.desc, l2.desc, "none") \in Words
      /\ IfUnset(host.mgmt, l2.mgmt, None) \in Advertised
      /\ IfUnset(host.mac, l2.mac, None) \in MACs \cup {None}
  BY DEF Nodes, IfUnset
<1> DEFINE a == host.caps \cup l2.caps
           b == IfUnset(host.desc, l2.desc, "none")
           c == IfUnset(host.mgmt, l2.mgmt, None)
           d == host.protocols \cup l2.protocols
           e == host.initiates \/ l2.initiates
           f == host.responds \/ l2.responds
           m == IfUnset(host.mac, l2.mac, None)
           n1 == [host EXCEPT !.caps = a, !.desc = b]
           n2 == [n1 EXCEPT !.mgmt = c, !.protocols = d]
           n3 == [n2 EXCEPT !.initiates = e, !.responds = f]
<1>2. /\ a \in SUBSET (Words \cup {"Bridge"}) /\ b \in Words /\ c \in Advertised
      /\ d \in SUBSET Words /\ e \in BOOLEAN /\ f \in BOOLEAN /\ m \in MACs \cup {None}
  BY <1>1
<1>3. Combine(host, l2) = [n3 EXCEPT !.mac = m]
  BY Zenon DEF Combine
<1> HIDE DEF a, b, c, d, e, f, m
<1>4. n1 \in Nodes(S)
  BY <1>2 DEF Nodes
<1> HIDE DEF n1
<1>5. n2 \in Nodes(S)
  BY <1>2, <1>4 DEF Nodes
<1> HIDE DEF n2
<1>6. n3 \in Nodes(S)
  BY <1>2, <1>5 DEF Nodes
<1> HIDE DEF n3
<1> QED BY <1>2, <1>3, <1>6 DEF Nodes

\* The hosts that may be missing at the end of an edge: see MergeNode.
Lost == V6 \cap Announced

\* What the graph is between two merges; es has the edges before the first.
Merging(g, S, K, es) ==
  /\ DOMAIN g.nodes \subseteq K
  /\ g.nodes \in [DOMAIN g.nodes -> Nodes(S)]
  /\ g.edges \in Seq(Edges) /\ Len(g.edges) = Len(es)
  /\ \A i \in 1 .. Len(es) : /\ g.edges[i].count = es[i].count /\ g.edges[i].bytes = es[i].bytes
                             /\ g.edges[i].src \in DOMAIN g.nodes \cup Lost
                             /\ g.edges[i].dst \in DOMAIN g.nodes \cup Lost

\* A merge removes one key at most, and moves its edges to the host.
LEMMA MergeStepOk ==
  ASSUME convs \in Seq(Talks), NEW S, NEW K \in SUBSET Hosts, NEW es \in Seq(Edges), NEW g,
         Merging(g, S, K, es), NEW key \in DOMAIN g.nodes
  PROVE  /\ Merging(MergeNode(g, key), S, K, es)
         /\ DOMAIN g.nodes \ {key} \subseteq DOMAIN MergeNode(g, key).nodes
<1> DEFINE ip == MergeTarget(g.nodes, key)
           new == MergeNode(g, key)
<1>1. CASE key \notin MACs \cup V6 \/ ip = None \/ ip \notin DOMAIN g.nodes
  BY <1>1 DEF MergeNode
<1>2. CASE key \in MACs \cup V6 /\ ip # None /\ ip \in DOMAIN g.nodes
  <2> DEFINE ns == [k \in DOMAIN g.nodes \ {key} |->
                      IF k = ip THEN Combine(g.nodes[ip], g.nodes[key]) ELSE g.nodes[k]]
             edg == [i \in DOMAIN g.edges |-> Rekey(g.edges[i], key, ip)]
  <2>1. new.nodes = ns /\ new.edges = edg
    BY <1>2 DEF MergeNode
  <2>2. ip \in IPs /\ (ip = key => ip \in Lost)
    <3>1. g.nodes[key] \in Nodes(S)
      BY DEF Merging
    <3>2. ip \in IPs \cup {None} /\ (key \in IPs => ip \in Advertised)
      BY <3>1, TargetTyped
    <3> HIDE DEF ip
    <3> QED BY <1>2, <3>2, AddressesDiffer DEF Advertised, Lost
  <2> HIDE DEF ip, new
  <2>3. /\ DOMAIN g.nodes \subseteq K
        /\ g.nodes \in [DOMAIN g.nodes -> Nodes(S)]
        /\ g.edges \in Seq(Edges) /\ Len(g.edges) = Len(es) /\ Len(es) \in Nat
        /\ \A i \in 1 .. Len(es) : g.edges[i] \in Edges
    BY DEF Merging
  <2>4. DOMAIN ns = DOMAIN g.nodes \ {key}
    OBVIOUS
  <2>5. ns \in [DOMAIN ns -> Nodes(S)]
    <3>1. Combine(g.nodes[ip], g.nodes[key]) \in Nodes(S)
      BY <1>2, <2>3, CombinedTyped
    <3>2. \A k \in DOMAIN g.nodes : g.nodes[k] \in Nodes(S)
      BY <2>3
    <3>3. \A k \in DOMAIN ns : ns[k] \in Nodes(S)
      BY <3>1, <3>2
    <3> QED BY <3>3
  <2>6. \A i \in 1 .. Len(es) :
          /\ edg[i] \in Edges
          /\ edg[i].count = g.edges[i].count /\ edg[i].bytes = g.edges[i].bytes
          /\ edg[i].src = (IF g.edges[i].src = key THEN ip ELSE g.edges[i].src)
          /\ edg[i].dst = (IF g.edges[i].dst = key THEN ip ELSE g.edges[i].dst)
    <3> SUFFICES ASSUME NEW i \in 1 .. Len(es)
                 PROVE  /\ edg[i] \in Edges
                        /\ edg[i].count = g.edges[i].count /\ edg[i].bytes = g.edges[i].bytes
                        /\ edg[i].src = (IF g.edges[i].src = key THEN ip ELSE g.edges[i].src)
                        /\ edg[i].dst = (IF g.edges[i].dst = key THEN ip ELSE g.edges[i].dst)
      OBVIOUS
    <3>1. i \in DOMAIN g.edges
      BY <2>3
    <3>2. edg[i] = Rekey(g.edges[i], key, ip)
      BY <3>1
    <3>3. g.edges[i] \in Edges /\ ip \in Hosts
      BY <2>2, <2>3 DEF Hosts
    <3> HIDE DEF edg
    <3> QED BY <3>2, <3>3 DEF Rekey, Heir, Edges
  <2>7. edg \in Seq(Edges) /\ Len(edg) = Len(es)
    <3>1. DOMAIN edg = 1 .. Len(es)
      BY <2>3
    <3>2. edg = [i \in 1 .. Len(es) |-> edg[i]]
      BY <3>1
    <3> HIDE DEF edg
    <3>3. edg \in [1 .. Len(es) -> Edges]
      BY <2>6, <3>2
    <3> QED BY <2>3, <3>3
  <2>8. \A i \in 1 .. Len(es) : edg[i].src \in DOMAIN ns \cup Lost /\ edg[i].dst \in DOMAIN ns \cup Lost
    <3>1. \A i \in 1 .. Len(es) : /\ g.edges[i].src \in DOMAIN g.nodes \cup Lost
                                  /\ g.edges[i].dst \in DOMAIN g.nodes \cup Lost
      BY DEF Merging
    <3> HIDE DEF edg, ns
    <3> QED BY <1>2, <2>2, <2>4, <2>6, <3>1
  <2>9. \A i \in 1 .. Len(es) : g.edges[i].count = es[i].count /\ g.edges[i].bytes = es[i].bytes
    BY DEF Merging
  <2> HIDE DEF edg, ns
  <2>10. Merging(new, S, K, es)
    BY <2>1, <2>3, <2>4, <2>5, <2>6, <2>7, <2>8, <2>9 DEF Merging
  <2> QED BY <2>1, <2>4, <2>10 DEF new
<1> QED BY <1>1, <1>2

\* Between two merges the graph has all the traffic.
LEMMA MergingKeepsTraffic ==
  ASSUME NEW S, NEW K, NEW es \in Seq(Edges), NEW g, Merging(g, S, K, es)
  PROVE  CountsOf(g.edges) = CountsOf(es) /\ BytesOf(g.edges) = BytesOf(es)
<1> DEFINE ed == g.edges
           m == Len(es)
           v == [k \in 1 .. m |-> ed[k].count]
           w == [k \in 1 .. m |-> es[k].count]
           x == [k \in 1 .. m |-> ed[k].bytes]
           y == [k \in 1 .. m |-> es[k].bytes]
<1>1. /\ ed \in Seq(Edges) /\ Len(ed) = m /\ m \in Nat
      /\ \A k \in 1 .. m : ed[k].count = es[k].count /\ ed[k].bytes = es[k].bytes
      /\ \A k \in 1 .. m : ed[k] \in Edges
  BY DEF Merging
<1> HIDE DEF ed, m
<1>2. /\ Weights(v, m) /\ Weights(x, m)
      /\ \A k \in 1 .. m : v[k] = w[k]
      /\ \A k \in 1 .. m : x[k] = y[k]
  BY <1>1 DEF Weights, Edges
<1>3. CountsOf(ed) = SumOf(v, m) /\ BytesOf(ed) = SumOf(x, m)
  BY <1>1 DEF CountsOf, BytesOf
<1>4. CountsOf(es) = SumOf(w, m) /\ BytesOf(es) = SumOf(y, m)
  BY DEF CountsOf, BytesOf, m
<1>5. SumOf(v, m) = SumOf(w, m) /\ SumOf(x, m) = SumOf(y, m)
  <2> HIDE DEF v, w, x, y
  <2> QED BY <1>1, <1>2, SumSame
<1> QED BY <1>3, <1>4, <1>5 DEF ed

\* What a key has become after some merges.
Resolved(g, key) == IF key \in DOMAIN g.alias THEN g.alias[key] ELSE key

\* Between two merges whoever has sent is marked, under the key it has by now.
SendersIn(g) ==
  /\ \A m \in DOMAIN g.alias : m \notin DOMAIN g.nodes
  /\ \A i \in DOMAIN convs : LET k == Resolved(g, SrcKey(convs[i]))
                             IN k \in DOMAIN g.nodes => g.nodes[k].initiates

\* A merge hands the mark of the key to the host.
LEMMA MergeKeepsSenders ==
  ASSUME convs \in Seq(Talks), NEW S, NEW K, NEW es, NEW g,
         Merging(g, S, K, es), SendersIn(g), NEW key \in DOMAIN g.nodes
  PROVE  SendersIn(MergeNode(g, key))
<1> DEFINE ip == MergeTarget(g.nodes, key)
           new == MergeNode(g, key)
<1>1. CASE key \notin MACs \cup V6 \/ ip = None \/ ip \notin DOMAIN g.nodes
  BY <1>1 DEF MergeNode
<1>2. CASE key \in MACs \cup V6 /\ ip # None /\ ip \in DOMAIN g.nodes
  <2> DEFINE host == Combine(g.nodes[ip], g.nodes[key])
  <2>1. /\ DOMAIN new.nodes = DOMAIN g.nodes \ {key}
        /\ \A k \in DOMAIN new.nodes : new.nodes[k] = IF k = ip THEN host ELSE g.nodes[k]
        /\ DOMAIN new.alias = DOMAIN g.alias \cup {key}
        /\ \A m \in DOMAIN new.alias :
             new.alias[m] = IF m = key \/ g.alias[m] = key THEN ip ELSE g.alias[m]
    BY <1>2 DEF MergeNode, Put, Heir
  <2>2. g.nodes[key] \in Nodes(S) /\ g.nodes[ip] \in Nodes(S)
    BY <1>2 DEF Merging
  <2>3. g.nodes[ip].initiates \/ g.nodes[key].initiates => host.initiates
    <3> HIDE DEF ip
    <3> QED BY <2>2 DEF Combine, Nodes
  <2> HIDE DEF ip, host, new
  <2>4. \A m \in DOMAIN new.alias : m \notin DOMAIN new.nodes
    BY <2>1 DEF SendersIn
  <2>5. ASSUME NEW i \in DOMAIN convs,
               Resolved(new, SrcKey(convs[i])) \in DOMAIN new.nodes
        PROVE  new.nodes[Resolved(new, SrcKey(convs[i]))].initiates
    <3> DEFINE k == SrcKey(convs[i])
               r == Resolved(g, k)
    <3>1. r \in DOMAIN g.nodes => g.nodes[r].initiates
      BY DEF SendersIn
    <3>2. Resolved(new, k) = IF r = key THEN ip ELSE r
      <4>1. key \notin DOMAIN g.alias
        BY DEF SendersIn
      <4> HIDE DEF k
      <4> QED BY <2>1, <4>1 DEF Resolved
    <3>3. Resolved(new, k) \in DOMAIN new.nodes
      BY <2>5
    <3> HIDE DEF k, r
    <3>4. new.nodes[Resolved(new, k)].initiates
      BY <1>2, <2>1, <2>3, <3>1, <3>2, <3>3
    <3> QED BY <3>4 DEF k
  <2>6. SendersIn(new)
    BY <2>4, <2>5 DEF SendersIn
  <2> QED BY <2>6 DEF new
<1> QED BY <1>1, <1>2

\* So the whole method keeps the ends of every edge, all the traffic and the marks.
LEMMA MergesKeep ==
  ASSUME convs \in Seq(Talks), NEW S, NEW K \in SUBSET Hosts, NEW es \in Seq(Edges), NEW g,
         Merging(g, S, K, es), SendersIn(g), NEW keys \in Seq(Hosts), Distinct(keys),
         \A i \in DOMAIN keys : keys[i] \in DOMAIN g.nodes
  PROVE  Merging(MergeAll(g, keys), S, K, es) /\ SendersIn(MergeAll(g, keys))
<1> DEFINE n == Len(keys)
           Left(k, h) == \A j \in 1 .. n : j > k => keys[j] \in DOMAIN h.nodes
<1>0. n \in Nat /\ DOMAIN keys = 1 .. n
  OBVIOUS
<1>1. PICK f : /\ f[0] = g /\ f[n] = MergeAll(g, keys)
               /\ \A k \in 0 .. n - 1 : f[k + 1] = MergeNode(f[k], keys[k + 1])
  BY MergeFold
<1> DEFINE G == {k \in 0 .. n : Merging(f[k], S, K, es) /\ SendersIn(f[k]) /\ Left(k, f[k])}
<1>2. 0 \in G
  <2>1. 0 \in 0 .. n /\ Left(0, g)
    BY <1>0
  <2> HIDE DEF Left
  <2> QED BY <1>1, <2>1
<1>3. ASSUME NEW k \in 0 .. n - 1, k \in G
      PROVE  k + 1 \in G
  <2>1. k + 1 \in 1 .. n /\ k + 1 \in 0 .. n /\ k + 1 > k
    BY <1>0
  <2> DEFINE h == f[k]
             key == keys[k + 1]
             new == MergeNode(h, key)
  <2>2. Merging(h, S, K, es) /\ SendersIn(h) /\ Left(k, h) /\ f[k + 1] = new
    BY <1>1, <1>3
  <2>3. key \in DOMAIN h.nodes
    BY <2>1, <2>2
  <2>4. \A j \in 1 .. n : j > k + 1 => j > k /\ keys[j] # key
    BY <1>0, <2>1 DEF Distinct
  <2> HIDE DEF h, key
  <2>5. Merging(new, S, K, es) /\ DOMAIN h.nodes \ {key} \subseteq DOMAIN new.nodes
    BY <2>2, <2>3, MergeStepOk
  <2>6. SendersIn(new)
    BY <2>2, <2>3, MergeKeepsSenders
  <2> HIDE DEF new
  <2>7. Left(k + 1, new)
    BY <2>2, <2>4, <2>5
  <2> HIDE DEF Left
  <2> QED BY <2>1, <2>2, <2>5, <2>6, <2>7
<1>4. n \in G
  <2> HIDE DEF G, n
  <2>1. \A k \in 0 .. n : k \in G
    BY <1>0, <1>2, <1>3, UpTo
  <2> QED BY <1>0, <2>1
<1> HIDE DEF Left
<1> QED BY <1>1, <1>4

-----------------------------------------------------------------------------
(* The invariant of Stage 3, and what it says of the edges.                 *)

\* What Total adds up over the edges ...
LEMMA CountTotal ==
  ASSUME NEW s \in Seq(Edges)
  PROVE  Total(s, LAMBDA e : e.count) = CountsOf(s)
<1> DEFINE n == Len(s)
           w == [k \in 1 .. n |-> s[k].count]
<1>1. n \in Nat /\ DOMAIN s = 1 .. n /\ \A k \in 1 .. n : s[k] \in Edges
  OBVIOUS
<1>2. Weights(w, n)
  BY <1>1 DEF Weights, Edges
<1>3. Total(s, LAMBDA e : e.count) = CountsOf(s)
  <2>1. PICK h : h = [x \in SUBSET (1 .. n) |-> IF x = {} THEN 0 ELSE h[x \ {Max(x)}] + w[Max(x)]]
    <3> HIDE DEF w, n
    <3> QED BY <1>1, <1>2, SumFoldExists
  <2>2. \A x \in SUBSET (1 .. n) : x # {} => w[Max(x)] = s[Max(x)].count
    BY <1>1, MaxIsIn
  <2>3. h = [x \in SUBSET DOMAIN s |->
               IF x = {} THEN 0 ELSE h[x \ {Max(x)}] + s[Max(x)].count]
    <3> HIDE DEF w, n
    <3> QED BY <1>1, <2>1, <2>2
  <2>4. PICK it : /\ it = [x \in SUBSET DOMAIN s |->
                             IF x = {} THEN 0 ELSE it[x \ {Max(x)}] + s[Max(x)].count]
                  /\ Total(s, LAMBDA e : e.count) = it[DOMAIN s]
    BY <2>3 DEF Total, FoldLeft, MapThenFoldSet
  <2>5. it = [x \in SUBSET (1 .. n) |-> IF x = {} THEN 0 ELSE it[x \ {Max(x)}] + w[Max(x)]]
    <3> HIDE DEF w, n
    <3> QED BY <1>1, <2>2, <2>4
  <2>6. it[1 .. n] = SumOf(w, n)
    <3> HIDE DEF w, n
    <3> QED BY <1>1, <1>2, <2>5, FoldIsSum
  <2> QED BY <1>1, <2>4, <2>6 DEF CountsOf
<1> QED BY <1>3

\* ... in bytes as well ...
LEMMA ByteTotal ==
  ASSUME NEW s \in Seq(Edges)
  PROVE  Total(s, LAMBDA e : e.bytes) = BytesOf(s)
<1> DEFINE n == Len(s)
           w == [k \in 1 .. n |-> s[k].bytes]
<1>1. n \in Nat /\ DOMAIN s = 1 .. n /\ \A k \in 1 .. n : s[k] \in Edges
  OBVIOUS
<1>2. Weights(w, n)
  BY <1>1 DEF Weights, Edges
<1>3. Total(s, LAMBDA e : e.bytes) = BytesOf(s)
  <2>1. PICK h : h = [x \in SUBSET (1 .. n) |-> IF x = {} THEN 0 ELSE h[x \ {Max(x)}] + w[Max(x)]]
    <3> HIDE DEF w, n
    <3> QED BY <1>1, <1>2, SumFoldExists
  <2>2. \A x \in SUBSET (1 .. n) : x # {} => w[Max(x)] = s[Max(x)].bytes
    BY <1>1, MaxIsIn
  <2>3. h = [x \in SUBSET DOMAIN s |->
               IF x = {} THEN 0 ELSE h[x \ {Max(x)}] + s[Max(x)].bytes]
    <3> HIDE DEF w, n
    <3> QED BY <1>1, <2>1, <2>2
  <2>4. PICK it : /\ it = [x \in SUBSET DOMAIN s |->
                             IF x = {} THEN 0 ELSE it[x \ {Max(x)}] + s[Max(x)].bytes]
                  /\ Total(s, LAMBDA e : e.bytes) = it[DOMAIN s]
    BY <2>3 DEF Total, FoldLeft, MapThenFoldSet
  <2>5. it = [x \in SUBSET (1 .. n) |-> IF x = {} THEN 0 ELSE it[x \ {Max(x)}] + w[Max(x)]]
    <3> HIDE DEF w, n
    <3> QED BY <1>1, <2>2, <2>4
  <2>6. it[1 .. n] = SumOf(w, n)
    <3> HIDE DEF w, n
    <3> QED BY <1>1, <1>2, <2>5, FoldIsSum
  <2> QED BY <1>1, <2>4, <2>6 DEF BytesOf
<1> QED BY <1>3

\* ... and over the conversations.
LEMMA TalkBytes ==
  ASSUME NEW s \in Seq(Talks)
  PROVE  Total(s, LAMBDA c : c.bytes) = BytesOf(s)
<1> DEFINE n == Len(s)
           w == [k \in 1 .. n |-> s[k].bytes]
<1>1. n \in Nat /\ DOMAIN s = 1 .. n /\ \A k \in 1 .. n : s[k] \in Talks
  OBVIOUS
<1>2. Weights(w, n)
  BY <1>1 DEF Weights, Talks
<1>3. Total(s, LAMBDA c : c.bytes) = BytesOf(s)
  <2>1. PICK h : h = [x \in SUBSET (1 .. n) |-> IF x = {} THEN 0 ELSE h[x \ {Max(x)}] + w[Max(x)]]
    <3> HIDE DEF w, n
    <3> QED BY <1>1, <1>2, SumFoldExists
  <2>2. \A x \in SUBSET (1 .. n) : x # {} => w[Max(x)] = s[Max(x)].bytes
    BY <1>1, MaxIsIn
  <2>3. h = [x \in SUBSET DOMAIN s |->
               IF x = {} THEN 0 ELSE h[x \ {Max(x)}] + s[Max(x)].bytes]
    <3> HIDE DEF w, n
    <3> QED BY <1>1, <2>1, <2>2
  <2>4. PICK it : /\ it = [x \in SUBSET DOMAIN s |->
                             IF x = {} THEN 0 ELSE it[x \ {Max(x)}] + s[Max(x)].bytes]
                  /\ Total(s, LAMBDA c : c.bytes) = it[DOMAIN s]
    BY <2>3 DEF Total, FoldLeft, MapThenFoldSet
  <2>5. it = [x \in SUBSET (1 .. n) |-> IF x = {} THEN 0 ELSE it[x \ {Max(x)}] + w[Max(x)]]
    <3> HIDE DEF w, n
    <3> QED BY <1>1, <2>2, <2>4
  <2>6. it[1 .. n] = SumOf(w, n)
    <3> HIDE DEF w, n
    <3> QED BY <1>1, <1>2, <2>5, FoldIsSum
  <2> QED BY <1>1, <2>4, <2>6 DEF BytesOf
<1> QED BY <1>3

\* The inductive invariant of Stage 3, which starts when Stage 2 has ended.  The
\* edges carry the traffic and whoever has sent is marked; whom the analysis puts
\* at Level 1 is not marked, until a vendor is taken for infrastructure.
CarriesTraffic ==
  /\ edges \in Seq(Edges)
  /\ \A i \in DOMAIN edges : {edges[i].src, edges[i].dst} \subseteq DOMAIN nodes \cup Lost
  /\ ~cli.fast => CountsOf(edges) = Len(convs) /\ BytesOf(edges) = BytesOf(convs)

SendersAreMarked ==
  \A i \in DOMAIN convs :
    Resolve(SrcKey(convs[i])) \in DOMAIN nodes => nodes[Resolve(SrcKey(convs[i]))].initiates

PastMerges == stage \notin {"none", "graph", "merged"}

Listener(k, n) ==
  /\ {"initiates", "level", "role"} \subseteq DOMAIN n
  /\ n.level = 1 /\ k \notin DOMAIN cli.subnets =>
       ~n.initiates \/ n.role = "Network Infrastructure"

TopologyInv ==
  /\ stage # "none" => phase = "dissected" /\ CarriesTraffic /\ SendersAreMarked
  /\ stage \in {"none", "graph"} => alias = <<>>
  /\ stage = "graph" => \E S : nodes \in [EndsOf(convs) -> Nodes(S)]
  /\ stage = "merged" => \E S : nodes \in [DOMAIN nodes -> Nodes(S)]
  /\ PastMerges => \A k \in DOMAIN nodes : Listener(k, nodes[k])
  /\ stage \in {"levels", "vendors"} =>
       \A k \in DOMAIN nodes : nodes[k].role # "Network Infrastructure"

\* What a step leaves of it that touches neither conversations nor edges.
LEMMA CarriedOn ==
  ASSUME CarriesTraffic, UNCHANGED <<cli, convs, edges>>, DOMAIN nodes' = DOMAIN nodes
  PROVE  CarriesTraffic'
<1>1. /\ CountsOf(edges)' = CountsOf(edges) /\ BytesOf(edges)' = BytesOf(edges)
      /\ BytesOf(convs)' = BytesOf(convs) /\ Lost' = Lost
  BY DEF CountsOf, BytesOf, Lost, Announced
<1> QED BY <1>1 DEF CarriesTraffic

\* What was announced stays so while the conversations do.
LEMMA SameAdvertised ==
  ASSUME UNCHANGED convs
  PROVE  Advertised' = Advertised
BY DEF Advertised, Announced

\* The graph is built of all conversations.
LEMMA GraphStep ==
  ASSUME convs \in Seq(Talks), BuildGraph, UNCHANGED <<cli, convs, alias>>, alias = <<>>
  PROVE  /\ CarriesTraffic' /\ SendersAreMarked'
         /\ \E S : nodes' \in [EndsOf(convs)' -> Nodes(S)]
<1> DEFINE ns == FoldLeft(AddNodes, <<>>, convs)
           K == EndsOf(convs)
           S == {Services(k) : k \in K}
<1>1. ns \in [K -> Nodes({{}})]
  BY AllSpoken, NodesOfGraph
<1>2. nodes' = [k \in DOMAIN ns |-> [ns[k] EXCEPT !.services = Services(k)]]
  BY DEF BuildGraph
<1>3. nodes' \in [K -> Nodes(S)]
  <2>1. ASSUME NEW k \in K
        PROVE  [ns[k] EXCEPT !.services = Services(k)] \in Nodes(S)
    <3> DEFINE v == Services(k)
               m == ns[k]
    <3>1. v \in S /\ m \in Nodes({{}})
      BY <1>1
    <3> HIDE DEF v, m, S
    <3>2. [m EXCEPT !.services = v] \in Nodes(S)
      BY <3>1 DEF Nodes
    <3> QED BY <3>2 DEF v, m
  <2>2. DOMAIN ns = K
    BY <1>1
  <2> HIDE DEF S, ns, K
  <2> QED BY <1>2, <2>1, <2>2
<1>4. EndsOf(convs)' = K
  BY DEF EndsOf, SrcKey, DstKey, Key
<1>5. edges' = FoldLeft(AddShown, <<>>, convs)
  BY DEF BuildGraph
<1>6. /\ edges' \in Seq(Edges)
      /\ \A i \in DOMAIN edges' : edges'[i].src \in K /\ edges'[i].dst \in K
      /\ ~cli.fast => CountsOf(edges') = Len(convs) /\ BytesOf(edges') = BytesOf(convs)
  BY <1>5, EdgesOfGraph
<1>7. DOMAIN nodes' = K
  BY <1>3
<1>8. /\ CountsOf(edges)' = CountsOf(edges') /\ BytesOf(edges)' = BytesOf(edges')
      /\ BytesOf(convs)' = BytesOf(convs)
  BY DEF CountsOf, BytesOf
<1>9. \E T : nodes' \in [K -> Nodes(T)]
  BY <1>3
<1>10. CarriesTraffic'
  <2> HIDE DEF K, S, ns
  <2> QED BY <1>6, <1>7, <1>8 DEF CarriesTraffic
<1>11. ASSUME NEW i \in DOMAIN convs
       PROVE  SrcKey(convs[i]) \in K /\ nodes'[SrcKey(convs[i])].initiates
  <2> DEFINE k == SrcKey(convs[i])
             m == ns[k]
             v == Services(k)
  <2>1. k \in K
    BY DEF EndsOf
  <2>2. m.initiates
    BY AllSpoken, SendersOfGraph
  <2>3. m \in Nodes({{}}) /\ k \in DOMAIN ns
    BY <1>1, <2>1
  <2>4. nodes'[k] = [m EXCEPT !.services = v]
    BY <1>2, <2>3
  <2> HIDE DEF K, k, m, v
  <2>5. [m EXCEPT !.services = v].initiates
    BY <2>2, <2>3 DEF Nodes
  <2> QED BY <2>1, <2>4, <2>5 DEF k
<1>12. SendersAreMarked'
  <2>1. DOMAIN alias' = {}
    OBVIOUS
  <2>2. ASSUME NEW i \in DOMAIN convs'
        PROVE  Resolve(SrcKey(convs[i]))' = SrcKey(convs[i])
    BY <2>1 DEF Resolve, SrcKey, Key
  <2> HIDE DEF K
  <2> QED BY <1>7, <1>11, <2>2 DEF SendersAreMarked
<1> QED BY <1>4, <1>9, <1>10, <1>12

\* The merge of MAC keys keeps every edge and the marks.
LEMMA MergeL2Step ==
  ASSUME convs \in Seq(Talks), TopologyInv, stage = "graph", MergeL2Nodes,
         UNCHANGED <<cli, convs>>
  PROVE  /\ CarriesTraffic' /\ SendersAreMarked'
         /\ \E S : nodes' \in [DOMAIN nodes' -> Nodes(S)]
<1> DEFINE g == [nodes |-> nodes, edges |-> edges, alias |-> alias]
           K == EndsOf(convs)
           keys == KeyOrder
<1>1. PICK S : nodes \in [K -> Nodes(S)]
  BY DEF TopologyInv
<1>2. /\ edges \in Seq(Edges)
      /\ \A i \in DOMAIN edges : {edges[i].src, edges[i].dst} \subseteq DOMAIN nodes \cup Lost
      /\ ~cli.fast => CountsOf(edges) = Len(convs) /\ BytesOf(edges) = BytesOf(convs)
      /\ SendersAreMarked /\ alias = <<>>
  BY DEF TopologyInv, CarriesTraffic
<1>3. K \in SUBSET Hosts
  <2>1. \A i \in DOMAIN convs : convs[i] \in Talks
    OBVIOUS
  <2> QED BY <2>1, EndsTyped DEF EndsOf
<1>4. Merging(g, S, K, edges)
  BY <1>1, <1>2 DEF Merging
<1>5. keys \in Seq(Hosts) /\ Distinct(keys) /\ \A i \in DOMAIN keys : keys[i] \in DOMAIN g.nodes
  BY <1>1, KeysOfGraph DEF KeyOrder
<1> DEFINE new == MergeAll(g, keys)
<1>6. nodes' = new.nodes /\ edges' = new.edges /\ alias' = new.alias
  BY DEF MergeL2Nodes, MergeAll
<1>7. SendersIn(g)
  <2>1. \A k : Resolved(g, k) = k /\ Resolve(k) = k
    BY <1>2 DEF Resolved, Resolve
  <2> QED BY <1>2, <2>1 DEF SendersIn, SendersAreMarked
<1>8. Merging(new, S, K, edges) /\ SendersIn(new)
  <2> HIDE DEF g, K, keys
  <2>1. /\ convs \in Seq(Talks) /\ K \in SUBSET Hosts /\ edges \in Seq(Edges)
        /\ Merging(g, S, K, edges) /\ SendersIn(g) /\ keys \in Seq(Hosts) /\ Distinct(keys)
        /\ \A i \in DOMAIN keys : keys[i] \in DOMAIN g.nodes
    BY <1>2, <1>3, <1>4, <1>5, <1>7
  <2> QED BY ONLY <2>1, MergesKeep
<1> HIDE DEF new, K
<1>9. CountsOf(new.edges) = CountsOf(edges) /\ BytesOf(new.edges) = BytesOf(edges)
  BY <1>2, <1>8, MergingKeepsTraffic
<1>10. /\ edges' \in Seq(Edges)
       /\ \A i \in DOMAIN edges' : {edges'[i].src, edges'[i].dst} \subseteq DOMAIN nodes' \cup Lost
       /\ CountsOf(edges') = CountsOf(edges) /\ BytesOf(edges') = BytesOf(edges)
       /\ nodes' \in [DOMAIN nodes' -> Nodes(S)]
  BY <1>2, <1>6, <1>8, <1>9 DEF Merging
<1>11. /\ CountsOf(edges)' = CountsOf(edges') /\ BytesOf(edges)' = BytesOf(edges')
       /\ BytesOf(convs)' = BytesOf(convs) /\ Lost' = Lost
  BY DEF CountsOf, BytesOf, Lost, Announced
<1>12. CarriesTraffic'
  BY <1>2, <1>10, <1>11 DEF CarriesTraffic
<1>13. SendersAreMarked'
  <2>1. ASSUME NEW i \in DOMAIN convs'
        PROVE  Resolve(SrcKey(convs[i]))' = Resolved(new, SrcKey(convs[i]))
    BY <1>6 DEF Resolve, Resolved, SrcKey, Key
  <2> QED BY <1>6, <1>8, <2>1 DEF SendersAreMarked, SendersIn
<1> QED BY <1>10, <1>12, <1>13

\* Purdue levels: of those who only answer some are at Level 1.
LEMMA LevelsStep ==
  ASSUME NEW S, nodes \in [DOMAIN nodes -> Nodes(S)], InferPurdueLevels, UNCHANGED cli
  PROVE  /\ DOMAIN nodes' = DOMAIN nodes
         /\ \A k \in DOMAIN nodes : /\ nodes'[k].initiates = nodes[k].initiates
                                    /\ Listener(k, nodes[k])'
                                    /\ nodes'[k].role # "Network Infrastructure"
<1> DEFINE fielded == [k \in DOMAIN nodes |-> FieldPass(Placed(k, nodes[k]))]
           ot == {k \in DOMAIN nodes : fielded[k].level \in 0 .. 2}
<1>1. nodes' = [k \in DOMAIN nodes |-> ItPass(k, fielded[k], ot)]
  BY DEF InferPurdueLevels
<1>2. ASSUME NEW k \in DOMAIN nodes
      PROVE  /\ nodes'[k].initiates = nodes[k].initiates
             /\ Listener(k, nodes[k])'
             /\ nodes'[k].role # "Network Infrastructure"
  <2> DEFINE n == nodes[k]
             p == Placed(k, n)
             f == FieldPass(p)
             new == ItPass(k, f, ot)
             Has(x) == {"initiates", "level", "role"} \subseteq DOMAIN x
  <2>1. Has(n) /\ n.level = -1 /\ n.role = "Unknown"
    BY DEF Nodes
  <2> HIDE DEF n
  <2>2. /\ Has(p) /\ p.initiates = n.initiates /\ p.role # "Network Infrastructure"
        /\ k \notin DOMAIN cli.subnets => p.level \in {-1, 5}
    BY <2>1 DEF Placed
  <2> HIDE DEF p
  <2>3. /\ Has(f) /\ f.initiates = n.initiates /\ f.role = p.role
        /\ f.level = 1 => p.level = 1 \/ ~n.initiates
    <3>1. CASE p.level = -1 /\ SpeaksOt(p)
      <4> DEFINE level == IF p.initiates THEN 2 ELSE IF p.responds THEN 1 ELSE -1
      <4>1. f = [p EXCEPT !.level = level]
        BY <3>1 DEF FieldPass
      <4>2. level = 1 => ~p.initiates
        <5>1. p.initiates => level = 2
          BY Zenon
        <5>2. 2 # 1
          OBVIOUS
        <5> HIDE DEF level
        <5> QED BY <5>1, <5>2, Zenon
      <4> HIDE DEF level
      <4> QED BY <2>2, <4>1, <4>2
    <3>2. CASE ~(p.level = -1 /\ SpeaksOt(p))
      BY <2>2, <3>2 DEF FieldPass
    <3> QED BY <3>1, <3>2
  <2> HIDE DEF f, ot
  <2>4. /\ Has(new) /\ new.initiates = n.initiates /\ new.role = p.role
        /\ new.level = 1 => f.level = 1
    BY <2>3 DEF ItPass
  <2>5. nodes'[k] = new
    BY <1>1 DEF f, p, n
  <2> HIDE DEF new
  <2>6. /\ Has(new) /\ new.initiates = n.initiates /\ new.role # "Network Infrastructure"
        /\ new.level = 1 /\ k \notin DOMAIN cli.subnets => ~n.initiates
    <3>1. -1 # 1 /\ 5 # 1
      OBVIOUS
    <3>2. k \notin DOMAIN cli.subnets => p.level # 1
      BY <2>2, <3>1, Zenon
    <3> QED BY <2>2, <2>3, <2>4, <3>2
  <2>7. Listener(k, new)
    BY <2>6 DEF Listener
  <2>8. Listener(k, nodes[k])' <=> Listener(k, new)
    BY <2>5 DEF Listener
  <2> QED BY <2>5, <2>6, <2>7, <2>8 DEF n
<1> QED BY <1>1, <1>2

\* Vendors, roles and priorities: only infrastructure comes to Level 1.
LEMMA RolesStep ==
  ASSUME \A k \in DOMAIN nodes : Listener(k, nodes[k]), UNCHANGED cli,
         \/ FingerprintVendors
         \/ AssignRoles /\ \A k \in DOMAIN nodes : nodes[k].role # "Network Infrastructure"
         \/ RankNodes
  PROVE  /\ DOMAIN nodes' = DOMAIN nodes
         /\ \A k \in DOMAIN nodes : /\ nodes'[k].initiates = nodes[k].initiates
                                    /\ Listener(k, nodes[k])'
                                    /\ FingerprintVendors => nodes'[k].role = nodes[k].role
<1>1. DOMAIN nodes' = DOMAIN nodes
  BY DEF FingerprintVendors, AssignRoles, RankNodes
<1>2. ASSUME NEW k \in DOMAIN nodes
      PROVE  /\ nodes'[k].initiates = nodes[k].initiates
             /\ Listener(k, nodes[k])'
             /\ FingerprintVendors => nodes'[k].role = nodes[k].role
  <2> DEFINE n == nodes[k]
             Has(x) == {"initiates", "level", "role"} \subseteq DOMAIN x
             Same(x) == /\ Has(x) /\ x.initiates = n.initiates /\ x.level = n.level
                        /\ x.role = n.role
  <2>1. Listener(k, n)
    OBVIOUS
  <2>2. CASE FingerprintVendors
    <3>1. nodes'[k] = Fingerprint(n)
      BY <2>2 DEF FingerprintVendors
    <3> HIDE DEF n
    <3>2. Same(Fingerprint(n))
      BY <2>1 DEF Fingerprint, Listener
    <3> QED BY <2>1, <3>1, <3>2 DEF Listener, n
  <2>3. CASE RankNodes
    <3>1. nodes'[k] = [n EXCEPT !.priority = Priority(k, n)]
      BY <2>3 DEF RankNodes
    <3> HIDE DEF n
    <3>2. Same([n EXCEPT !.priority = Priority(k, n)])
      BY <2>1 DEF Listener
    <3> QED BY <2>1, <2>2, <3>1, <3>2 DEF Listener, n
  <2>4. CASE AssignRoles /\ \A x \in DOMAIN nodes : nodes[x].role # "Network Infrastructure"
    <3>1. nodes'[k] = WithRole(k, n) /\ n.role # "Network Infrastructure"
      BY <2>4 DEF AssignRoles
    <3> HIDE DEF n
    <3> DEFINE r == IF Engineering(k) /\ RoleByLevel(n) \notin Controllers
                    THEN "Engineering Workstation" ELSE RoleByLevel(n)
               device == IfUnset(n.device, "Switch/Gateway", "Unknown")
               infra == [n EXCEPT !.role = "Network Infrastructure", !.level = 1, !.asset = "network",
                                  !.device = device]
               Moved(x) == /\ Has(x) /\ x.initiates = n.initiates
                           /\ x.level = n.level \/ x.role = "Network Infrastructure"
    <3>2. Moved(n) /\ Moved(infra) /\ \A v : Moved([n EXCEPT !.role = v])
      <4> HIDE DEF device
      <4> QED BY <2>1 DEF Listener
    <3>3. WithRole(k, n) \in {n, infra} \/ \E v : WithRole(k, n) = [n EXCEPT !.role = v]
      <4> DEFINE switch == n.device = "Network Switch" \/ "Bridge" \in n.caps
                 router == n.device = "Router" \/ "Router" \in n.caps
      <4>1. WithRole(k, n) =
              CASE k \in Network             -> n
                [] switch                    -> [n EXCEPT !.role = "Network Switch"]
                [] router                    -> [n EXCEPT !.role = "Router"]
                [] n.vendor \in NetworkVendors -> infra
                [] OTHER                     -> [n EXCEPT !.role = r]
        BY Zenon DEF WithRole
      <4> HIDE DEF switch, router, r, infra
      <4>2. \/ WithRole(k, n) \in {n, infra}
            \/ \E v \in {"Network Switch", "Router", r} : WithRole(k, n) = [n EXCEPT !.role = v]
        BY <4>1
      <4> QED BY <4>2
    <3>4. Moved(WithRole(k, n))
      <4> HIDE DEF Moved, infra
      <4> QED BY <3>2, <3>3
    <3> QED BY <2>1, <2>2, <3>1, <3>4 DEF Listener, n
  <2> QED BY <2>2, <2>3, <2>4
<1> QED BY <1>1, <1>2

\* One method after the other, and the stages after them.
LEMMA TopologyStep ==
  ASSUME IInv, TopologyInv, [Next]_vars
  PROVE  TopologyInv'
<1>0. convs \in Seq(Talks)
  BY DEF IInv, DissectionTypes
<1>1. CASE Dissect
  <2>1. UNCHANGED <<stage, alias>> /\ DissectionNext
    BY <1>1 DEF Dissect, topologyVars
  <2>2. phase # "dissected"
    BY <2>1 DEF DissectionNext, UsePython, UseBronze, FallBack, DpiFails, TsharkPacket,
                TsharkDies, ReadBronze, FinishFile, FinishChunk, MergeReport, Choose
  <2>3. stage = "none"
    BY <2>2 DEF TopologyInv
  <2> QED BY <2>1, <2>3 DEF TopologyInv, PastMerges
<1>2. CASE BuildTopology
  <2>1. UNCHANGED <<cli, convs, phase>> /\ phase = "dissected" /\ TopologyNext
    BY <1>2 DEF BuildTopology, dissectVars, given
  <2>2. CASE Method("none", "graph") /\ BuildGraph /\ UNCHANGED alias
    <3>1. stage' = "graph" /\ alias = <<>>
      BY <2>2 DEF Method, TopologyInv
    <3>2. /\ CarriesTraffic' /\ SendersAreMarked'
          /\ \E S : nodes' \in [EndsOf(convs)' -> Nodes(S)]
      BY <1>0, <2>1, <2>2, <3>1, GraphStep
    <3> QED BY <2>1, <2>2, <3>1, <3>2, SameAdvertised DEF TopologyInv, PastMerges, Nodes
  <2>3. CASE Method("graph", "merged") /\ MergeL2Nodes
    <3>1. stage = "graph" /\ stage' = "merged"
      BY <2>3 DEF Method
    <3>2. /\ CarriesTraffic' /\ SendersAreMarked'
          /\ \E S : nodes' \in [DOMAIN nodes' -> Nodes(S)]
      BY <1>0, <2>1, <2>3, <3>1, MergeL2Step
    <3> QED BY <2>1, <3>1, <3>2, SameAdvertised DEF TopologyInv, PastMerges, Nodes
  <2>4. ASSUME UNCHANGED <<edges, alias>>, stage \notin {"none", "graph"},
               stage' \in {"levels", "vendors", "roles", "built"},
               DOMAIN nodes' = DOMAIN nodes,
               \A k \in DOMAIN nodes : nodes'[k].initiates = nodes[k].initiates,
               \A k \in DOMAIN nodes : Listener(k, nodes[k])',
               stage' \in {"levels", "vendors"} =>
                 \A k \in DOMAIN nodes : nodes'[k].role # "Network Infrastructure"
        PROVE  TopologyInv'
    <3>1. phase' = "dissected" /\ CarriesTraffic /\ SendersAreMarked
      BY <2>1, <2>4 DEF TopologyInv
    <3>2. CarriesTraffic'
      BY <2>1, <2>4, <3>1, CarriedOn
    <3>3. SendersAreMarked'
      BY <2>1, <2>4, <3>1 DEF SendersAreMarked, Resolve, SrcKey, Key
    <3>4. \A k \in DOMAIN nodes' : Listener(k, nodes[k])'
      BY <2>4
    <3> QED BY <2>4, <3>1, <3>2, <3>3, <3>4 DEF TopologyInv, PastMerges
  <2>5. CASE Method("merged", "levels") /\ InferPurdueLevels
    <3>1. stage = "merged" /\ stage' = "levels" /\ UNCHANGED <<edges, alias>>
      BY <2>5 DEF Method, InferPurdueLevels
    <3>2. PICK S : nodes \in [DOMAIN nodes -> Nodes(S)]
      BY <3>1 DEF TopologyInv
    <3> QED BY <2>1, <2>4, <2>5, <3>1, <3>2, LevelsStep
  <2>6. CASE Method("levels", "vendors") /\ FingerprintVendors
    <3>1. stage = "levels" /\ stage' = "vendors" /\ UNCHANGED <<edges, alias>>
      BY <2>6 DEF Method, FingerprintVendors
    <3>2. \A k \in DOMAIN nodes : Listener(k, nodes[k]) /\ nodes[k].role # "Network Infrastructure"
      BY <3>1 DEF TopologyInv, PastMerges
    <3> QED BY <2>1, <2>4, <2>6, <3>1, <3>2, RolesStep
  <2>7. CASE Method("vendors", "roles") /\ AssignRoles
    <3>1. stage = "vendors" /\ stage' = "roles" /\ UNCHANGED <<edges, alias>>
      BY <2>7 DEF Method, AssignRoles
    <3>2. \A k \in DOMAIN nodes : Listener(k, nodes[k]) /\ nodes[k].role # "Network Infrastructure"
      BY <3>1 DEF TopologyInv, PastMerges
    <3> QED BY <2>1, <2>4, <2>7, <3>1, <3>2, RolesStep
  <2>8. CASE Method("roles", "built") /\ RankNodes
    <3>1. stage = "roles" /\ stage' = "built" /\ UNCHANGED <<edges, alias>>
      BY <2>8 DEF Method, RankNodes
    <3>2. \A k \in DOMAIN nodes : Listener(k, nodes[k])
      BY <3>1 DEF TopologyInv, PastMerges
    <3> QED BY <2>1, <2>4, <2>8, <3>1, <3>2, RolesStep
  <2> QED BY <2>1, <2>2, <2>3, <2>5, <2>6, <2>7, <2>8 DEF TopologyNext
<1>3. ASSUME UNCHANGED <<cli, convs, phase, edges, nodes, alias>>,
             stage' = stage \/ stage' \in {"scored", "enriched"},
             stage' # stage => stage \in {"built", "scored"}
      PROVE  TopologyInv'
  <2>1. stage # "none" => CarriesTraffic' /\ SendersAreMarked'
    <3>1. SendersAreMarked => SendersAreMarked'
      BY <1>3 DEF SendersAreMarked, Resolve, SrcKey, Key
    <3> QED BY <1>3, <3>1, CarriedOn DEF TopologyInv
  <2>2. EndsOf(convs)' = EndsOf(convs)
    BY <1>3 DEF EndsOf, SrcKey, DstKey, Key
  <2>3. \A k \in DOMAIN nodes : Listener(k, nodes[k])' <=> Listener(k, nodes[k])
    BY <1>3 DEF Listener
  <2> QED BY <1>3, <2>1, <2>2, <2>3, SameAdvertised DEF TopologyInv, PastMerges, Nodes
<1>4. CASE ScoreRisk
  BY <1>3, <1>4 DEF ScoreRisk, Method, ScoreInChain, ScoreAlone, Score, dissectVars, given
<1>5. CASE Enrich
  BY <1>3, <1>5 DEF Enrich, Method, given
<1>6. CASE UNCHANGED vars
  BY <1>3, <1>6 DEF vars, dissectVars, given, topologyVars
<1> QED BY <1>1, <1>2, <1>4, <1>5, <1>6 DEF Next

\* The invariant of Stage 3, for every graph: conversations and bytes add up, an end
\* of an edge is a node or an announced IPv6 address, whose host _merge_l2_nodes may
\* have deleted, and a sender that is still in the graph is marked.
THEOREM TopologyInvariant == Spec => []TopologyInv
<1>1. Init => TopologyInv
  BY DEF Init, TopologyInit, TopologyInv
<1>2. IInv /\ TopologyInv /\ [Next]_vars => TopologyInv'
  BY TopologyStep
<1> QED BY <1>1, <1>2, EngineInvariant, PTL DEF Spec

\* It says what EdgesCarryTraffic says.
LEMMA CarriedFromInv ==
  ASSUME IInv, TopologyInv
  PROVE  EdgesCarryTraffic
<1> SUFFICES ASSUME stage # "none"
             PROVE  EdgesCarryTraffic
  BY DEF EdgesCarryTraffic
<1>1. convs \in Seq(Talks) /\ edges \in Seq(Edges)
  BY DEF IInv, DissectionTypes, TopologyInv, CarriesTraffic
<1>2. /\ Total(edges, LAMBDA e : e.count) = CountsOf(edges)
      /\ Total(edges, LAMBDA e : e.bytes) = BytesOf(edges)
      /\ Total(convs, LAMBDA c : c.bytes) = BytesOf(convs)
  BY <1>1, CountTotal, ByteTotal, TalkBytes
<1>3. \A i \in DOMAIN edges :
        {edges[i].src, edges[i].dst} \subseteq DOMAIN nodes \cup (V6 \cap Announced)
  BY DEF TopologyInv, CarriesTraffic, Lost
<1>4. ~cli.fast => CountsOf(edges) = Len(convs) /\ BytesOf(edges) = BytesOf(convs)
  BY DEF TopologyInv, CarriesTraffic
<1> QED BY <1>2, <1>3, <1>4 DEF EdgesCarryTraffic

\* No packet gets lost or is counted twice between the capture and the edges of
\* the topology, in whatever pieces it is read and whatever is merged on the way; only
\* a host with an announced IPv6 address can be missing at the end of its edges
\* (dissect, _merge_chunk_conversations, _merge_l2_nodes).
THEOREM TrafficIsKeptHolds == Spec => []TrafficIsKept
<1>1. IInv /\ TopologyInv => TrafficIsKept
  BY ConservedFromInv, CarriedFromInv DEF TrafficIsKept
<1> QED BY <1>1, EngineInvariant, TopologyInvariant, PTL

\* A host that the analysis, not the operator's map nor its vendor, puts at Level 1
\* has sent nothing, under its own key or one merged into it (_infer_purdue_levels).
THEOREM FieldDevicesListenHolds == Spec => []FieldDevicesListen
<1>1. TopologyInv => FieldDevicesListen
  <2> SUFFICES ASSUME TopologyInv, stage \in {"levels", "vendors", "roles", "built"},
                      NEW k \in DOMAIN nodes, nodes[k].level = 1,
                      nodes[k].role # "Network Infrastructure", k \notin DOMAIN cli.subnets
               PROVE  BySrc(k) = {}
    BY DEF FieldDevicesListen
  <2>1. ~nodes[k].initiates
    BY DEF TopologyInv, PastMerges, Listener
  <2>2. SendersAreMarked
    BY DEF TopologyInv
  <2> QED BY <2>1, <2>2 DEF BySrc, SendersAreMarked
<1> QED BY <1>1, TopologyInvariant, PTL
=============================================================================
