---------------------------- MODULE EngineChain ----------------------------
(***************************************************************************)
(* The chain of the engine: Stage 2, 3 and 4 one after the other, in one   *)
(* process, after a merge of chunks or by the commands of single stages    *)
(* (marlinspike/engine.py), and the plugins that enrich its report         *)
(* (marlinspike/enrich.py).                                                *)
(***************************************************************************)
EXTENDS Dissection, ArpPlugin, AptPlugin, MitrePlugin, CisaPlugin

VARIABLE extensions  \* the sidecars merged into the report, by plugin

vars == <<dissectVars, convs, topologyVars, riskVars, extensions>>

Init == DissectionInit /\ TopologyInit /\ RiskInit /\ extensions = <<>>

Dissect == DissectionNext /\ UNCHANGED <<topologyVars, riskVars, extensions>>

BuildTopology ==
  phase = "dissected" /\ TopologyNext /\ UNCHANGED <<dissectVars, convs, riskVars, extensions>>

ScoreRisk ==
  /\ Method("built", "scored")
  /\ ScoreInChain \/ ScoreAlone
  /\ UNCHANGED <<dissectVars, convs, extensions>>

(* Every plugin reads the report as the engine left it. *)
Sidecar(plugin) ==
  CASE plugin = "marlinspike-mitre" -> Classify(findings)
    [] plugin = "marlinspike-arp"   -> ArpFindings
    [] plugin = "marlinspike-apt"   -> AptFindings
    [] plugin = "marlinspike-cisa"  -> CisaReport

(* Only two of them report findings. *)
Reporting == {"marlinspike-arp", "marlinspike-apt"}
MergedFindings(fs, sidecars) ==
  EngineFindings(fs)
    \cup UNION {Adapted(p, sidecars[p]) : p \in Reporting \cap DOMAIN sidecars}

(* After the chain; a plugin that fails is left out. *)
Enrich ==
  /\ entry = "chain" /\ Method("scored", "enriched")
  /\ \E broken \in SUBSET PluginIds :
       /\ faults + Cardinality(broken) <= MaxToolFaults
       /\ faults' = faults + Cardinality(broken)
       /\ extensions' = [p \in PluginIds \ broken |-> Sidecar(p)]
  /\ findings' = MergedFindings(findings, extensions')
  /\ UNCHANGED <<given, dpi, used, start, pos, skipped, table, pairPorts, reports, phase,
                 layer2, convs, nodes, edges, alias, entry, targets>>

Next == Dissect \/ BuildTopology \/ ScoreRisk \/ Enrich

Spec == Init /\ [][Next]_vars

-----------------------------------------------------------------------------
(* Properties. *)

(* No packet gets lost or is counted twice between the capture and the     *)
(* edges of the topology, in whatever pieces it is read and whatever is    *)
(* merged on the way (parse, _merge_chunk_conversations, build).           *)
TrafficIsKept == TrafficIsConserved /\ EdgesCarryTraffic

Reported(category) == \E f \in findings : f.category = category
Whole == Scored /\ faults = 0 /\ entry = "chain" /\ cli.threshold = 0

(* Are all packets of p's protocol between its MACs between its two IPs,   *)
(* which tshark can see?  Then a conversation of theirs names these IPs.   *)
NamedAlike(p) ==
  /\ {p.sip, p.dip} \cap V6 = {}
  /\ \A k \in DOMAIN capture :
       LET o == capture[k]
       IN o.proto = p.proto /\ {o.smac, o.dmac} = {p.smac, p.dmac}
            => {o.sip, o.dip} = {p.sip, p.dip}

(* From packets to findings: when a host inside speaks an OT protocol and  *)
(* exchanges a packet with the internet, the report says so.  The DPI on a *)
(* file read whole names every IP.  With tshark, or with chunk reports     *)
(* merged, this holds for packets whose conversations have one IP a side,  *)
(* however the capture was cut: where a gateway's MAC stands for several   *)
(* hosts, the one that is named may not be the one that matters.           *)
ExposureIsReported ==
  Whole =>
    \A i, j \in DOMAIN capture :
      LET p == capture[i]
          q == capture[j]
          inside == {q.sip, q.dip} \ Public
          exposed == \E h \in inside \cap IPs :
                       h \in {p.sip, p.dip} /\ {q.sip, q.dip} \cap Public # {}
          named == \/ used = {"bronze"} /\ cli.mode # "files"
                   \/ NamedAlike(p) /\ NamedAlike(q)
      IN p.proto \in OtProtocols /\ ~Skippable(p) /\ ~Skippable(q) /\ exposed /\ named
           => Reported("ICS_EXTERNAL_COMMS")

Enriched == stage = "enriched" /\ faults = 0

(* What the report says of contested addresses is what ARP packets of the  *)
(* capture show, also of conversations in which one address stands for     *)
(* many: nothing is invented, and unless chunk reports were merged or the  *)
(* list of packets was full nothing is missed, nor is a sweep of requests. *)
(* Probes from 0.0.0.0 contest nothing, but the DPI may report them too.   *)
ArpIsExact ==
  Enriched =>
    LET arps == {i \in DOMAIN capture : capture[i].arp # "none"}
        contested == {ip \in IPs \ {Unspecified} :
          Cardinality({capture[i].smac : i \in {k \in arps : capture[k].sip = ip}}) >= 2}
        Asked(mac) == {capture[i].dip : i \in {k \in arps :
                         capture[k].smac = mac /\ capture[k].arp = "request"}} \ NoTarget
        Answers(mac) == Cardinality({i \in arps :
                          capture[i].dmac = mac /\ capture[i].arp = "reply"})
        sweeping == {mac \in MACs :
          /\ Cardinality(Asked(mac)) >= ArpSettings.targets
          /\ Answers(mac) * ArpSettings.replies <= Cardinality(Asked(mac))}
        Found(category) == {f \in extensions["marlinspike-arp"] : f.category = category}
        duplicates == {f.ip : f \in Found("ARP_DUPLICATE_IP_CLAIM")} \ {Unspecified}
    IN /\ duplicates \subseteq contested
       /\ cli.mode # "files" /\ Cardinality(arps) <= ArpCap => duplicates = contested
       /\ used = {"python"} /\ cli.mode # "files" /\ Cardinality(arps) <= ArpCap =>
            {f.mac : f \in Found("ARP_SCAN_BEHAVIOR")} = sweeping

(* A host that reaches out by SMB to enough neighbours, each under a MAC   *)
(* of its own, is in the findings of the report with all of them, unless   *)
(* its ports collapsed into a scan.                                        *)
FanOutIsFound ==
  Enriched /\ cli.threshold = 0 =>
    \A src \in IPs \ Public :
      LET sent == {i \in DOMAIN capture : capture[i].sip = src /\ capture[i].proto = "SMB"
                                         /\ capture[i].dport = 445}
          reached == {capture[i].dip : i \in sent}
      IN Cardinality(reached) >= AptSettings.smb =>
           \E f \in findings : /\ f.category = "APT_LATERAL_MOVEMENT_SMB"
                               /\ f.source = "marlinspike-apt"
                               /\ {src} \cup reached \subseteq f.nodes

(* The risk command finds in a topology what the chain finds.              *)
StagesFindTheSame ==
  Scored => findings = AllFindings(ToSet(convs))

(* Only addresses of the internet are external communication.              *)
ExternalIsPublic ==
  Reported("ICS_EXTERNAL_COMMS") =>
    \E n \in DOMAIN convs : {convs[n].sip, convs[n].dip} \cap Public # {}
=============================================================================
