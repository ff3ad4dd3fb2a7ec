------------------------------ MODULE Baseline ------------------------------
(***************************************************************************)
(* The history of one asset over the reports of a project                  *)
(* (marlinspike/baselines.py).  The reports come sorted, oldest first; all *)
(* but the last one that shows the asset are its baseline.                 *)
(***************************************************************************)
EXTENDS ReportData

(* A MAC finds nodes by MAC, an IP by IP: the first node that has it. *)
Carries(node, key) == IF key \in MACs THEN node.mac = key ELSE node.ip = key
FindNode(report, key) == SelectInSeq(report.nodes, LAMBDA n : Carries(n, key))

Involves(conv, node) ==
  \/ node.ip # None /\ node.ip \in {conv.sip, conv.dip}
  \/ node.mac # None /\ node.mac \in {conv.smac, conv.dmac}

(* The IP at the other end; by address where that tells, else by MAC. *)
Across(mine, src, dst, sip, dip) ==
  IF mine = None THEN None
  ELSE IF src = mine /\ dip # None THEN dip
  ELSE IF dst = mine /\ sip # None THEN sip ELSE None
Peer(conv, node) ==
  LET byIp == Across(node.ip, conv.sip, conv.dip, conv.sip, conv.dip)
  IN IF byIp # None THEN byIp
     ELSE Across(node.mac, conv.smac, conv.dmac, conv.sip, conv.dip)

Affects(finding, node) == ({node.ip, node.mac} \ {None}) \cap finding.nodes # {}
Touches(anomaly, node) == node.mac # None /\ node.mac \in {anomaly.smac, anomaly.dmac}

Packets(convs) == FoldLeft(LAMBDA n, c : n + c.packets, 0, convs)

(* What one report says of the asset. *)
Presence(file, key) ==
  LET r == file.report
      node == r.nodes[FindNode(r, key)]
      mine == SelectSeq(r.convs, LAMBDA c : Involves(c, node))
      met == SelectSeq(r.convs, LAMBDA c : Peer(c, node) # None)
      found == SelectSeq(r.findings, LAMBDA f : Affects(f, node))
      odd == SelectSeq(r.anomalies, LAMBDA a : Touches(a, node))
  IN [name |-> file.name, ts |-> r.start, node |-> node, convs |-> mine, met |-> met,
      found |-> found, odd |-> odd,
      protos |-> node.protos \cup {c.proto : c \in ToSet(mine)},
      peers |-> {Peer(c, node) : c \in ToSet(met)},
      findings |-> {f.category : f \in ToSet(found)},
      anomalies |-> {a.kind : a \in ToSet(odd)}]

Presences(files, key) ==
  LET showing == Among(files, {f \in ToSet(files) : FindNode(f.report, key) # 0})
  IN [i \in DOMAIN showing |-> Presence(showing[i], key)]

EarlierAll(ps) == ps
Earlier(ps) == Front(ps)

BaselineOf(ps, What(_)) == UNION {What(p) : p \in ToSet(Earlier(ps))}

(* For everything ever seen: the reports it was first and last seen in,    *)
(* and whether the baseline lacks it.                                      *)
History(ps, What(_)) ==
  [x \in UNION {What(p) : p \in ToSet(ps)} |->
     LET seen == Among(ps, {p \in ToSet(ps) : x \in What(p)})
     IN [first |-> seen[1].name, last |-> Last(seen).name, seen |-> seen,
         isNew |-> x \notin BaselineOf(ps, What)]]

Protos(p) == p.protos
Peers(p) == p.peers
Findings(p) == p.findings
Anomalies(p) == p.anomalies

ProtocolHistory(ps) ==
  LET history == History(ps, Protos)
  IN [proto \in DOMAIN history |->
        [appearances |-> [i \in DOMAIN history[proto].seen |->
           LET p == history[proto].seen[i]
           IN [name |-> p.name, packets |-> Packets(SelectSeq(p.convs, LAMBDA c : c.proto = proto))]],
         isNew |-> history[proto].isNew]]

PeerHistory(ps) ==
  LET history == History(ps, Peers)
  IN [peer \in DOMAIN history |->
        [first |-> history[peer].first, last |-> history[peer].last, isNew |-> history[peer].isNew,
         reports |-> Cardinality({p.name : p \in ToSet(history[peer].seen)}),
         packets |-> FoldLeft(LAMBDA n, p : n + Packets(SelectSeq(p.met,
                       LAMBDA c : Peer(c, p.node) = peer)), 0, history[peer].seen)]]

(* The number of findings of the category, also of several in one report. *)
FindingHistory(ps) ==
  LET history == History(ps, Findings)
  IN [category \in DOMAIN history |->
        [first |-> history[category].first, last |-> history[category].last,
         isNew |-> history[category].isNew,
         inReports |-> FoldLeft(LAMBDA n, p : n + Len(SelectSeq(p.found,
                         LAMBDA f : f.category = category)), 0, history[category].seen)]]

AnomalyCadence(ps) ==
  LET history == History(ps, Anomalies)
  IN [kind \in DOMAIN history |->
        [first |-> history[kind].first, last |-> history[kind].last,
         events |-> FoldLeft(LAMBDA n, p : n + Len(SelectSeq(p.odd,
                      LAMBDA a : a.kind = kind)), 0, history[kind].seen)]]

Stability(ps) ==
  LET Stable(values) == Cardinality(values) <= 1
      roles == {p.node.role : p \in ToSet(ps)}
  IN [vendor |-> Stable({p.node.vendor : p \in ToSet(ps)}), role |-> Stable(roles),
      distribution |-> IF Stable(roles) THEN <<>>
                       ELSE [r \in roles |-> Cardinality({i \in DOMAIN ps : ps[i].node.role = r})]]

Novelty(ps) ==
  LET New(What(_)) == What(Last(ps)) \ BaselineOf(ps, What)
      Lost(What(_)) == BaselineOf(ps, What) \ What(Last(ps))
  IN [newProtocols |-> New(Protos), newPeers |-> New(Peers), newFindings |-> New(Findings),
      lostProtocols |-> Lost(Protos), lostPeers |-> Lost(Peers)]

Identity(p) == [f \in {"ip", "mac", "vendor", "role"} |-> p.node[f]]
Timeline(ps) == [i \in DOMAIN ps |-> [name |-> ps[i].name, ts |-> ps[i].ts, is |-> Identity(ps[i])]]

Summary(p) ==
  [name |-> p.name, ts |-> p.ts, is |-> Identity(p), protos |-> p.protos, peers |-> p.peers,
   findings |-> p.findings, anomalies |-> p.anomalies,
   convs |-> Len(p.convs), packets |-> Packets(p.convs)]

(* The last report against the one before it; with only one, against none. *)
Delta(ps) ==
  LET before == IF Len(ps) >= 2 THEN {ps[Len(ps) - 1]} ELSE {}
      Change(What(_)) ==
        LET old == UNION {What(p) : p \in before}
        IN [added |-> What(Last(ps)) \ old, removed |-> old \ What(Last(ps))]
  IN [available |-> before # {},
      identity |-> {f \in {"ip", "mac", "vendor", "role"} :
                      Identity(Last(ps))[f] \notin
                        (IF before = {} THEN {None} ELSE {Identity(p)[f] : p \in before})},
      protocols |-> Change(Protos), peers |-> Change(Peers),
      findings |-> Change(Findings), anomalies |-> Change(Anomalies)]

(* Nothing for an asset that no report shows. *)
ComputeAssetBaseline(files, key) ==
  LET ps == Presences(files, key)
  IN IF ps = <<>> THEN [reports |-> 0]
     ELSE [reports |-> Len(ps), first |-> Summary(ps[1]), last |-> Summary(Last(ps)),
           timeline |-> Timeline(ps), protocols |-> ProtocolHistory(ps), peers |-> PeerHistory(ps),
           findings |-> FindingHistory(ps), anomalies |-> AnomalyCadence(ps),
           stability |-> Stability(ps), novelty |-> Novelty(ps), delta |-> Delta(ps)]
=============================================================================
