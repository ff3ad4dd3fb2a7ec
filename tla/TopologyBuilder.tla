-------------------------- MODULE TopologyBuilder --------------------------
(***************************************************************************)
(* Stage 3 of the engine: conversations become a graph of hosts, with      *)
(* Purdue levels, vendors, roles and priorities (marlinspike/engine.py,    *)
(* TopologyBuilder).  One action per method that build() calls.            *)
(*                                                                         *)
(* Protocol identities (CIP, BACnet, PROFINET, ...), names and the text    *)
(* hints on them are left out: a role is what levels, protocols,           *)
(* capabilities and vendors make of it.                                    *)
(***************************************************************************)
EXTENDS Traffic

CONSTANTS
  OuiVendor,         \* the vendor of a MAC's OUI, where the database has it
  NetworkVendors,    \* vendors whose devices are taken for infrastructure
  PrizedVendors,     \* vendors that name Siemens or Allen-Bradley
  EngineeringWrites  \* more Modbus writes than this are engineering

ASSUME TopologyBounds ==
  /\ OuiVendor \in [DOMAIN OuiVendor -> STRING] /\ DOMAIN OuiVendor \subseteq MACs
  /\ EngineeringWrites \in Nat

VARIABLES
  nodes,            \* by key
  edges,            \* in order
  alias,            \* the key each deleted one became (the rekeyed indexes)
  stage             \* the method that ran last

topologyVars == <<nodes, edges, alias, stage>>

TopologyInit == nodes = <<>> /\ edges = <<>> /\ alias = <<>> /\ stage = "none"

Network == Multicast \cup Broadcast

-----------------------------------------------------------------------------
(* Nodes and edges. *)

NewNode(ip, mac) ==
  [ip |-> ip, mac |-> mac, initiates |-> FALSE, responds |-> FALSE,
   protocols |-> {}, services |-> {}, caps |-> {}, mgmt |-> None, desc |-> "none",
   level |-> -1, asset |-> "local", role |-> "Unknown", device |-> "Unknown",
   vendor |-> "Unknown", priority |-> 0]

IfUnset(old, new, unset) == IF old = unset THEN new ELSE old

(* The sender of LLDP and CDP frames tells of itself, a bridge by STP. *)
Advertise(n, d) ==
  CASE d.source \in {"lldp", "cdp"} ->
         [n EXCEPT !.caps = @ \cup d.caps, !.mgmt = IfUnset(@, d.mgmt, None),
                   !.desc = IfUnset(@, d.desc, "none")]
    [] d.source = "stp" -> [n EXCEPT !.caps = @ \cup {"Bridge"}]
    [] OTHER -> n

Sender(n, c) ==
  Advertise([n EXCEPT !.initiates = TRUE, !.protocols = @ \cup {c.proto}], c.discovery)
ReceiverUnprofiled(n, c) == [n EXCEPT !.responds = TRUE]
Receiver(n, c) == [n EXCEPT !.responds = TRUE, !.protocols = @ \cup {c.proto}]

Put(ns, key, n) == [k \in DOMAIN ns \cup {key} |-> IF k = key THEN n ELSE ns[k]]
NodeOr(ns, key, new) == IF key \in DOMAIN ns THEN ns[key] ELSE new

AddNodes(ns, c) ==
  LET one == Put(ns, SrcKey(c),
                 Sender(NodeOr(ns, SrcKey(c), NewNode(c.sip, c.smac)), c))
  IN Put(one, DstKey(c), Receiver(NodeOr(one, DstKey(c), NewNode(c.dip, c.dmac)), c))

EdgeOf(c) ==
  [src |-> SrcKey(c), dst |-> DstKey(c), proto |-> c.proto, port |-> c.port,
   transport |-> c.transport, count |-> 1, bytes |-> c.bytes, first |-> c.first,
   last |-> c.last, writes |-> c.writes > 0, program |-> c.program]
EdgeKey(e) == <<e.src, e.dst, e.proto, e.port, e.transport>>

MergeEdge(old, new) ==
  [old EXCEPT !.count = @ + 1, !.bytes = @ + new.bytes,
              !.first = Min({@, new.first}), !.last = Max({@, new.last}),
              !.writes = @ \/ new.writes, !.program = @ \/ new.program]

AddEdge(es, c) ==
  LET new == EdgeOf(c)
      i == SelectInSeq(es, LAMBDA e : EdgeKey(e) = EdgeKey(new))
  IN IF i = 0 THEN Append(es, new) ELSE [es EXCEPT ![i] = MergeEdge(@, new)]

(* The relationship view of --fast has no edges to ephemeral ports. *)
Shown(c) == ~(cli.fast /\ c.port >= Ephemeral)
AddShown(es, c) == IF Shown(c) THEN AddEdge(es, c) ELSE es

Category(port) ==
  CASE port \in OtPorts    -> "OT"
    [] port \in KnownPorts -> "IT"
    [] port >= Ephemeral   -> "Ephemeral"
    [] OTHER               -> "Unknown"

(* A lone connection to an ephemeral port is the client's side of one. *)
Services(key) ==
  LET served == {i \in DOMAIN convs : DstKey(convs[i]) = key /\ convs[i].port > 0}
      Conns(s) == Cardinality({i \in served :
                    <<convs[i].port, convs[i].transport>> = <<s.port, s.transport>>})
      all == {[port |-> convs[i].port, transport |-> convs[i].transport] : i \in served}
  IN {[port |-> s.port, transport |-> s.transport, category |-> Category(s.port),
       conns |-> Conns(s)] :
        s \in {t \in all : ~(t.port >= Ephemeral /\ Conns(t) <= 1)}}

BuildGraph ==
  /\ LET ns == FoldLeft(AddNodes, <<>>, convs)
     IN nodes' = [k \in DOMAIN ns |-> [ns[k] EXCEPT !.services = Services(k)]]
  /\ edges' = FoldLeft(AddShown, <<>>, convs)

-----------------------------------------------------------------------------
(* MAC-keyed nodes merge into the host that owns the MAC, and so do the    *)
(* hosts with an IPv6 address that was once advertised.                    *)

(* The keys in the order in which their nodes were made. *)
Listed(keys, k) == IF k \in ToSet(keys) THEN keys ELSE Append(keys, k)
ListEnds(keys, c) == Listed(Listed(keys, SrcKey(c)), DstKey(c))
KeyOrder == FoldLeft(ListEnds, <<>>, convs)

(* The IP last seen with a MAC, on whichever side. *)
IpAt(c, mac) ==
  IF c.dmac = mac /\ c.dip # None THEN c.dip ELSE IF c.smac = mac THEN c.sip ELSE None
MacToIp(mac) ==
  LET seen == {i \in DOMAIN convs : IpAt(convs[i], mac) # None}
  IN IF seen = {} THEN None ELSE IpAt(convs[Max(seen)], mac)

(* The advertised management address wins, even when no host has it. *)
MergeTarget(ns, key) == IfUnset(ns[key].mgmt, MacToIp(key), None)

CombineSilently(host, l2) ==
  [host EXCEPT !.caps = @ \cup l2.caps, !.protocols = @ \cup l2.protocols]

Combine(host, l2) ==
  [host EXCEPT !.caps = @ \cup l2.caps, !.desc = IfUnset(@, l2.desc, "none"),
               !.mgmt = IfUnset(@, l2.mgmt, None), !.protocols = @ \cup l2.protocols,
               !.initiates = @ \/ l2.initiates, !.responds = @ \/ l2.responds,
               !.mac = IfUnset(@, l2.mac, None)]

Heir(k, key, ip) == IF k = key THEN ip ELSE k
Rekey(e, key, ip) ==
  [e EXCEPT !.src = Heir(@, key, ip), !.dst = Heir(@, key, ip)]

(* The keys taken have a colon: MACs, and IPv6 addresses.  The host that   *)
(* has the advertised IPv6 address takes the address over from the MAC's   *)
(* node, then merges into itself and is deleted, while its edges remain.   *)
MergeNode(g, key) ==
  LET ip == MergeTarget(g.nodes, key)
      earlier == [m \in DOMAIN g.alias |-> Heir(g.alias[m], key, ip)]
  IN IF key \notin MACs \cup V6 \/ ip = None \/ ip \notin DOMAIN g.nodes THEN g
     ELSE [nodes |-> [k \in DOMAIN g.nodes \ {key} |->
                        IF k = ip THEN Combine(g.nodes[ip], g.nodes[key]) ELSE g.nodes[k]],
           edges |-> [i \in DOMAIN g.edges |-> Rekey(g.edges[i], key, ip)],
           alias |-> Put(earlier, key, ip)]

MergeL2Nodes ==
  LET g == FoldLeft(MergeNode, [nodes |-> nodes, edges |-> edges, alias |-> alias], KeyOrder)
  IN nodes' = g.nodes /\ edges' = g.edges /\ alias' = g.alias

Resolve(key) == IF key \in DOMAIN alias THEN alias[key] ELSE key
BySrc(key) == {i \in DOMAIN convs : Resolve(SrcKey(convs[i])) = key}
ByDst(key) == {i \in DOMAIN convs : Resolve(DstKey(convs[i])) = key}

-----------------------------------------------------------------------------
(* Purdue levels.  -1 stands both for "network address" and for "not yet   *)
(* mapped": the later passes go over network addresses again.              *)

Placed(key, n) ==
  LET mapped == IF key \in DOMAIN cli.subnets THEN [n EXCEPT !.level = cli.subnets[key]] ELSE n
      named == IF key \in Network
               THEN [mapped EXCEPT !.level = -1, !.role = "Broadcast/Multicast",
                                   !.device = "Network Address", !.asset = "network"]
               ELSE mapped
  IN IF named.level = -1 /\ key \in Public
     THEN [named EXCEPT !.level = 5, !.role = "External Host", !.asset = "external",
                        !.device = "External Endpoint"]
     ELSE named

SpeaksOt(n) == n.protocols \cap OtProtocols # {}

FieldPass(n) ==
  IF n.level = -1 /\ SpeaksOt(n)
  THEN [n EXCEPT !.level = IF n.initiates THEN 2 ELSE IF n.responds THEN 1 ELSE -1]
  ELSE n

(* Peers are looked up by the keys of the conversations, merged or not. *)
TalksTo(key, hosts) ==
  \/ \E i \in BySrc(key) : DstKey(convs[i]) \in hosts
  \/ \E i \in ByDst(key) : SrcKey(convs[i]) \in hosts

ItPass(key, n, ot) ==
  IF n.level # -1 THEN n
  ELSE [n EXCEPT !.level =
          CASE ~n.initiates /\ ~n.responds -> -1
            [] ~TalksTo(key, ot)           -> 4
            [] n.initiates                 -> 3
            [] OTHER                       -> 2]

InferPurdueLevels ==
  LET fielded == [k \in DOMAIN nodes |-> FieldPass(Placed(k, nodes[k]))]
      ot == {k \in DOMAIN nodes : fielded[k].level \in 0..2}
  IN /\ nodes' = [k \in DOMAIN nodes |-> ItPass(k, fielded[k], ot)]
     /\ UNCHANGED <<edges, alias>>

-----------------------------------------------------------------------------
(* Vendors, roles and priorities. *)

(* An external host's MAC is the gateway's. *)
OuiOf(n) ==
  IF n.mac \in DOMAIN OuiVendor /\ n.level # 5 /\ n.asset # "external"
  THEN OuiVendor[n.mac] ELSE n.vendor

DeviceOf(n) ==
  CASE n.device # "Unknown" -> n.device
    [] "Bridge" \in n.caps  -> "Network Switch"
    [] "Router" \in n.caps  -> "Router"
    [] OTHER                -> n.device

Fingerprint(n) ==
  [n EXCEPT !.vendor = IF OuiOf(n) = "Unknown" /\ n.desc # "none" THEN n.desc ELSE OuiOf(n),
            !.device = DeviceOf(n)]

FingerprintVendors ==
  /\ nodes' = [k \in DOMAIN nodes |-> Fingerprint(nodes[k])]
  /\ UNCHANGED <<edges, alias>>

Engineering(key) ==
  \E i \in BySrc(key) : convs[i].program \/ convs[i].writes > EngineeringWrites

FieldRole(n) ==
  CASE "Modbus TCP" \in n.protocols                      -> "RTU/PLC"
    [] n.protocols \cap {"EtherNet/IP", "S7comm"} # {}   -> "PLC"
    [] n.protocols \cap {"DNP3", "IEC 60870-5-104"} # {} -> "RTU"
    [] OTHER                                             -> "Field Device"

(* A client is a workstation; one that serves much as well is a server. *)
SupervisoryRole(n) ==
  IF n.initiates /\ ~(n.responds /\ Cardinality(n.services) >= 3)
  THEN "HMI/SCADA" ELSE "Supervisory Controller"

HostRole(n, zone) == zone \o (IF n.initiates /\ ~n.responds THEN " Workstation" ELSE " Host")

RoleByLevel(n) ==
  CASE n.level \in {0, 1} -> FieldRole(n)
    [] n.level = 2 -> SupervisoryRole(n)
    [] n.level = 3 -> HostRole(n, "Operations")
    [] n.level = 4 -> HostRole(n, "Enterprise")
    [] n.level = 5 -> "External Host"
    [] OTHER       -> "Unknown"

Controllers == {"PLC", "RTU", "RTU/PLC"}

WithRole(key, n) ==
  CASE key \in Network -> n
    [] n.device = "Network Switch" \/ "Bridge" \in n.caps -> [n EXCEPT !.role = "Network Switch"]
    [] n.device = "Router" \/ "Router" \in n.caps -> [n EXCEPT !.role = "Router"]
    [] n.vendor \in NetworkVendors ->
         [n EXCEPT !.role = "Network Infrastructure", !.level = 1, !.asset = "network",
                   !.device = IfUnset(@, "Switch/Gateway", "Unknown")]
    [] OTHER ->
         [n EXCEPT !.role = IF Engineering(key) /\ RoleByLevel(n) \notin Controllers
                            THEN "Engineering Workstation" ELSE RoleByLevel(n)]

AssignRoles ==
  /\ nodes' = [k \in DOMAIN nodes |-> WithRole(k, nodes[k])]
  /\ UNCHANGED <<edges, alias>>

(* No authentication is ever observed: every host gets the 5 for that. *)
Priority(key, n) ==
  IF key \in Network THEN 0
  ELSE (IF n.role \in Controllers THEN 10 ELSE 0) + 5
         + (IF n.vendor # "Unknown" THEN 3 ELSE 0)
         + (IF n.vendor \in PrizedVendors \ {"Unknown"} THEN 2 ELSE 0)
         + (IF Cardinality(n.protocols) > 2 THEN 2 ELSE 0)

RankNodes ==
  /\ nodes' = [k \in DOMAIN nodes |-> [nodes[k] EXCEPT !.priority = Priority(k, nodes[k])]]
  /\ UNCHANGED <<edges, alias>>

(* The methods in the order of build(). *)
Method(from, to) == stage = from /\ stage' = to

TopologyNext ==
  \/ Method("none", "graph") /\ BuildGraph /\ UNCHANGED alias
  \/ Method("graph", "merged") /\ MergeL2Nodes
  \/ Method("merged", "levels") /\ InferPurdueLevels
  \/ Method("levels", "vendors") /\ FingerprintVendors
  \/ Method("vendors", "roles") /\ AssignRoles
  \/ Method("roles", "built") /\ RankNodes

-----------------------------------------------------------------------------
(* Properties. *)

(* The management addresses that LLDP and CDP frames told. *)
Announced == {convs[i].discovery.mgmt : i \in DOMAIN convs} \ {None}

(* Whatever merges do to the nodes, the edges keep both ends in the graph  *)
(* and carry all the traffic: with every port shown, their bytes and       *)
(* conversations are those of Stage 2.  Only a host with an IPv6 address   *)
(* that a neighbour announced can be missing at the end of its edges       *)
(* (build, _merge_l2_nodes).                                               *)
EdgesCarryTraffic ==
  stage \notin {"none"} =>
    /\ \A i \in DOMAIN edges :
         {edges[i].src, edges[i].dst} \subseteq DOMAIN nodes \cup (V6 \cap Announced)
    /\ ~cli.fast => /\ Total(edges, LAMBDA e : e.count) = Len(convs)
                /\ Total(edges, LAMBDA e : e.bytes) = Total(convs, LAMBDA c : c.bytes)

(* A host that the analysis, not the operator's map nor its vendor, puts   *)
(* at Level 1 has sent nothing, under its own key or one merged into it.   *)
FieldDevicesListen ==
  stage \in {"levels", "vendors", "roles", "built"} =>
    \A k \in DOMAIN nodes :
      nodes[k].level = 1 /\ nodes[k].role # "Network Infrastructure"
        /\ k \notin DOMAIN cli.subnets => BySrc(k) = {}
=============================================================================
