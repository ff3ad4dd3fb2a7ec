----------------------------- MODULE ReportData -----------------------------
(***************************************************************************)
(* Finished reports, as the pages of a project read them.  A report lists  *)
(* nodes, conversations, findings, Layer 2 anomalies and suspect channels, *)
(* and holds the artifacts of the plugins that were merged into it.  Texts *)
(* and everything no page of the model looks at are left out.              *)
(***************************************************************************)
EXTENDS Naturals, Sequences, FiniteSets, SequencesExt, FiniteSetsExt, Functions

CONSTANTS MACs, IPs, None

Addresses == MACs \cup IPs

ASSUME AddressesDiffer == MACs \cap IPs = {} /\ None \notin Addresses

Severities == 0..4   \* from CRITICAL to INFO

NodeRecord ==
  [mac : MACs \cup {None}, ip : IPs \cup {None}, role : STRING, vendor : STRING,
   protos : SUBSET STRING]

ConvRecord ==
  [smac : MACs \cup {None}, sip : IPs \cup {None}, dmac : MACs \cup {None},
   dip : IPs \cup {None}, proto : STRING, packets : Nat, queries : SUBSET STRING]

(* A finding without a source is the engine's.  Edges are texts.           *)
FindingRecord ==
  [category : STRING, nodes : SUBSET Addresses, edges : SUBSET STRING,
   severity : Severities, source : STRING, attacks : SUBSET STRING]

AnomalyRecord == [kind : STRING, smac : MACs \cup {None}, dmac : MACs \cup {None}]

(* Suspect channels name IPs only; `hashes' are those of malware findings. *)
Channel == [src : IPs \cup {None}, dst : IPs \cup {None}]

(* A file that is no report has none of a report's fields. *)
Blank ==
  [start |-> 0, nodes |-> <<>>, convs |-> <<>>, findings |-> <<>>, anomalies |-> <<>>,
   channels |-> <<>>, hashes |-> {}, traffic |-> <<>>, ext |-> <<>>]

(* `start' is 0 where the time is unknown, `traffic' counts packets by     *)
(* protocol.                                                               *)
IsReport(r) ==
  /\ DOMAIN r = DOMAIN Blank
  /\ r.start \in Nat /\ r.nodes \in Seq(NodeRecord) /\ r.convs \in Seq(ConvRecord)
  /\ \A c \in ToSet(r.convs) : IsFiniteSet(c.queries)
  /\ r.findings \in Seq(FindingRecord) /\ r.anomalies \in Seq(AnomalyRecord)
  /\ r.channels \in Seq(Channel) /\ r.hashes \subseteq STRING
  /\ \A p \in DOMAIN r.traffic : p \in STRING /\ r.traffic[p] \in Nat

(* The elements of a list that are in a set, in the order of the list. *)
Among(list, chosen) ==
  LET kept[i \in 0 .. Len(list)] ==
        IF i = 0 THEN <<>>
        ELSE IF list[i] \in chosen THEN Append(kept[i - 1], list[i])
        ELSE kept[i - 1]
  IN kept[Len(list)]

(* The findings of some sources. *)
From(sources, findings) ==
  Among(findings, {f \in ToSet(findings) : f.source \in sources})
=============================================================================
