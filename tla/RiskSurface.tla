---------------------------- MODULE RiskSurface ----------------------------
(***************************************************************************)
(* Stage 4 of the engine: findings and targets from the topology and the   *)
(* conversations (marlinspike/engine.py, RiskSurface).  Of the command and *)
(* control checks, beacons, DNS tunnels and persistence are left out.      *)
(***************************************************************************)
EXTENDS TopologyBuilder

CONSTANTS
  AuthCapable,     \* protocols with authentication
  AllowedOnOt,     \* IT ports a field device may serve
  CleartextPorts,  \* ports of cleartext remote access
  ScanThreshold,   \* more unknown ports than this are a scan (20)
  HighPort,        \* unknown services above this port are listed (10000)
  WriteSources,    \* more sources of Modbus writes than this are reported (2)
  ExfilRatio, ExfilBytes, \* of an asymmetric flow (10 and 10240)
  MaxTargets       \* length of the target list (20)

ASSUME RiskBounds ==
  {ScanThreshold, HighPort, WriteSources, ExfilRatio, ExfilBytes, MaxTargets} \subseteq Nat

VARIABLES
  entry,     \* what ran Stage 4: "none" yet, "chain" or "risk"
  findings,  \* [category, nodes, basis, source]
  targets    \* the hosts of the target list

riskVars == <<entry, findings, targets>>

RiskInit == entry = "none" /\ findings = {} /\ targets = {}

-----------------------------------------------------------------------------
(* Nodes are looked up by IP: of those without one only the last remains,  *)
(* under the empty address.                                                *)
LastMac ==
  LET macs == SelectSeq(KeyOrder, LAMBDA k : k \in MACs /\ k \in DOMAIN nodes)
  IN IF macs = <<>> THEN {} ELSE {Last(macs)}

Known == (DOMAIN nodes \cap IPs) \cup (IF LastMac = {} THEN {} ELSE {None})
Node(ip) == IF ip = None THEN nodes[CHOOSE m \in LastMac : TRUE] ELSE nodes[ip]
Level(ip) == IF ip \in Known THEN Node(ip).level ELSE -1

(* is_global holds for multicast addresses too. *)
IsPublic(ip) == ip \in Public \cup Multicast

Finding(category, ns) == 
  [category |-> category, nodes |-> ns, basis |-> <<>>, source |-> "engine"]
About(category, ip, basis) == [Finding(category, {ip}) EXCEPT !.basis = basis]
When(condition, set) == IF condition THEN set ELSE {}
Ends(cs) == {SrcKey(c) : c \in cs} \cup {DstKey(c) : c \in cs}

ExternalComms(cs) ==
  LET ot == {ip \in Known : SpeaksOt(Node(ip))}
      out == {c \in cs : SrcKey(c) \in ot /\ IsPublic(c.dip)}
      in == {c \in cs \ out : DstKey(c) \in ot /\ IsPublic(c.sip)}
      outside == {ip \in Known : Level(ip) = 5}
  IN When(out \cup in # {}, {Finding("ICS_EXTERNAL_COMMS", Ends(out \cup in))})
       \cup When(out \cup in = {} /\ outside # {},
                 {Finding("EXTERNAL_IPS_OBSERVED", outside)})

CrossPurdue ==
  LET crossing == {i \in DOMAIN edges :
        /\ {edges[i].src, edges[i].dst} \subseteq Known
        /\ \E a, b \in {edges[i].src, edges[i].dst} : Level(a) \in {0, 1} /\ Level(b) >= 3}
  IN When(crossing # {},
          {Finding("CROSS_PURDUE", UNION {{edges[i].src, edges[i].dst} : i \in crossing})})

CleartextEngineering(cs) ==
  LET clear == {c \in cs : c.proto \in {"S7comm", "Modbus TCP"} /\ (c.program \/ c.writes > 0)}
  IN When(clear # {}, {Finding("CLEARTEXT_ENG", Ends(clear))})

WriteOrigins(cs) ==
  LET writers == {SrcKey(c) : c \in {d \in cs : d.writes > 0}}
  IN When(Cardinality(writers) > WriteSources, {Finding("MODBUS_WRITE_ANON", writers)})

NoAuth ==
  LET unauth == {ip \in Known :
        Node(ip).asset = "local" /\ Level(ip) \notin {-1, 5}
          /\ Node(ip).protocols \cap AuthCapable # {}}
  IN When(unauth # {}, {Finding("NO_AUTH_OBSERVED", unauth)})

ProgramAccess(cs) ==
  LET access == {c \in cs : c.program}
  IN When(access # {}, {Finding("S7_PROGRAM_ACCESS", Ends(access))})

IsScan(services) == Cardinality(services) > ScanThreshold

(* A scan among the high ports is news unless the unknown ones are one. *)
HighScanIsNews(unknown) == ~IsScan(unknown)

(* Per host: one finding for a scan, or one for each port. *)
PortFindings(ip) ==
  LET services == Node(ip).services
      unknown == {s \in services : s.category = "Unknown" /\ Level(ip) \in 0..3}
      high == {s \in services : s.category = "Unknown" /\ s.port > HighPort}
      it == {s \in services : s.category = "IT" /\ Level(ip) \in {0, 1}
                                /\ s.port \notin AllowedOnOt}
      clear == {s \in services : s.port \in CleartextPorts}
      Each(category, set) ==
        {About(category, ip, <<s.port, s.transport>>) : s \in set}
      Scan(basis) == {About("PORT_SCAN_TARGET", ip, basis)}
  IN Each("CLEARTEXT_REMOTE_ACCESS", clear)
       \cup (IF IsScan(unknown) THEN Scan(<<"unknown">>) ELSE Each("UNKNOWN_SERVICE_PORT", unknown))
       \cup Each("IT_SERVICE_ON_OT_DEVICE", it)
       \cup (IF ~IsScan(high) THEN Each("HIGH_PORT_SERVICE", high)
             ELSE When(HighScanIsNews(unknown), Scan(<<"high">>)))

SuspectChannels(cs) ==
  {Finding("C2_SUSPECT_CHANNEL", {SrcKey(c), DstKey(c)}) :
     c \in {d \in cs : /\ Level(SrcKey(d)) \in 0..2 /\ IsPublic(d.dip)
                       /\ d.port \notin OtPorts \cup KnownPorts /\ d.port > 1024}}

Sent(a, b) ==
  Total(SelectSeq(convs, LAMBDA c : SrcKey(c) = a /\ DstKey(c) = b), LAMBDA c : c.bytes)

Exfiltration(cs) ==
  {Finding("C2_DATA_EXFIL", {pair[1], pair[2]}) :
     pair \in {p \in {<<SrcKey(c), DstKey(c)>> : c \in cs} :
       /\ p[1] # p[2] /\ IsPublic(p[2]) /\ Level(p[1]) \in 0..2
       /\ Sent(p[2], p[1]) > 0
       /\ Sent(p[1], p[2]) > ExfilRatio * Sent(p[2], p[1])
       /\ Sent(p[1], p[2]) > ExfilBytes}}

AllFindings(cs) ==
  ExternalComms(cs) \cup CrossPurdue \cup CleartextEngineering(cs) \cup WriteOrigins(cs)
    \cup NoAuth \cup ProgramAccess(cs) \cup UNION {PortFindings(ip) : ip \in Known}
    \cup (IF cli.fast THEN {} ELSE SuspectChannels(cs) \cup Exfiltration(cs))

(* The list is cut after a stable sort by priority. *)
Rank(ip) == CHOOSE n \in DOMAIN KeyOrder :
              KeyOrder[n] = (IF ip = None THEN CHOOSE m \in LastMac : TRUE ELSE ip)
Ranked == {ip \in Known \ Network : Node(ip).priority > 0}
Before(a, b) ==
  \/ Node(a).priority > Node(b).priority
  \/ Node(a).priority = Node(b).priority /\ Rank(a) < Rank(b)
TopTargets == {ip \in Ranked : Cardinality({o \in Ranked : Before(o, ip)}) < MaxTargets}

Score(command, cs) ==
  /\ entry' = command
  /\ findings' = AllFindings(cs)
  /\ targets' = TopTargets
  /\ UNCHANGED <<nodes, edges, alias>>

(* In one process with Stage 3, or merged from chunks. *)
ScoreInChain == Score("chain", ToSet(convs))

(* The risk command: all it reads is the topology that Stage 3 saved. *)
ScoreAlone == Score("risk", {})

-----------------------------------------------------------------------------
(* Properties. *)

Scored == stage = "scored"
=============================================================================
