-------------------------- MODULE MC_ProjectViews --------------------------
EXTENDS ProjectViews

McMACs == {"m1", "m2"}
McIPs == {"a1", "a2", "a3"}
McSpecs == <<"mitre", "arp", "apt", "cisa">>

Node(mac, ip, role, protos) ==
  [mac |-> mac, ip |-> ip, role |-> role, vendor |-> "acme", protos |-> protos]
Conv(smac, sip, dmac, dip, proto) ==
  [smac |-> smac, sip |-> sip, dmac |-> dmac, dip |-> dip, proto |-> proto, packets |-> 2,
   queries |-> IF proto = "dns" THEN {"bad.example"} ELSE {}]
Risk(category, nodes, severity) ==
  [category |-> category, nodes |-> nodes, edges |-> {}, severity |-> severity,
   source |-> "engine", attacks |-> {"T0855"}]

McPluginFindings ==
  [arp |-> <<[Risk("ARP_SCAN", {"m2"}, 1) EXCEPT !.source = "arp"],
             [Risk("ARP_SCAN", {"m1"}, 1) EXCEPT !.source = "arp"]>>,
   apt |-> <<[Risk("APT_SMB", {"a1", "a2"}, 0) EXCEPT !.source = "apt"]>>]

\* The report in the works: a controller under its MAC, a neighbour without one.
Fresh1 ==
  [Blank EXCEPT !.start = 3,
     !.nodes = <<Node("m1", "a1", "PLC", {"modbus"}), Node(None, "a2", "HMI", {"modbus"})>>,
     !.convs = <<Conv("m2", "a2", "m1", "a1", "modbus"), Conv("m1", "a1", "m2", "a3", "dns")>>,
     !.findings = <<Risk("NO_AUTH", {"a1"}, 1), Risk("WRITES", {"a2"}, 2),
                    [Risk("WRITES", {"a2"}, 3) EXCEPT !.edges = {"a2 to a1"}]>>,
     !.anomalies = <<[kind |-> "arp_spoof", smac |-> "m1", dmac |-> None]>>,
     !.channels = <<[src |-> "a1", dst |-> "a3"]>>, !.traffic = [modbus |-> 2, dns |-> 2]]

\* A report of old: the controller at another address, a finding graded twice.
Old1 ==
  [Blank EXCEPT !.start = 1,
     !.nodes = <<Node("m1", "a3", "RTU", {"modbus", "telnet"}), Node("m2", "a2", "HMI", {})>>,
     !.convs = <<Conv("m2", "a2", "m1", "a3", "telnet")>>,
     !.findings = <<Risk("NO_AUTH", {"a1"}, 3), Risk("NO_AUTH", {"a1"}, 0)>>,
     !.hashes = {"beef"}, !.traffic = [telnet |-> 2]]

\* Of old, with plugins merged, and its time unknown.
Old2 ==
  [Blank EXCEPT
     !.nodes = <<Node("m1", "a1", "PLC", {"modbus"}), Node("m1", "a2", "PLC", {})>>,
     !.convs = <<Conv("m1", "a1", None, "a2", "modbus"), Conv(None, "a3", "m1", "a1", "dns")>>,
     !.findings = <<Risk("WRITES", {"a2"}, 1)>> \o McPluginFindings["apt"],
     !.traffic = [modbus |-> 2, dns |-> 2],
     !.ext = [apt |-> [plugin |-> "apt", findings |-> McPluginFindings["apt"], read |-> {}]]]

\* Of old and newer than the report in the works; without the controller.
Old3 ==
  [Blank EXCEPT !.start = 4,
     !.nodes = <<Node("m2", "a2", "HMI", {"http"}), Node(None, None, "unknown", {})>>,
     !.convs = <<Conv("m2", "a2", None, "a3", "http")>>,
     !.findings = <<Risk("NO_AUTH", {"a1"}, 2)>>, !.traffic = [http |-> 2]]

McProjects ==
  {[scan |-> Fresh1], [scan |-> Fresh1, east |-> Old1, west |-> Old2],
   [scan |-> Fresh1, east |-> Old3]}

McNames == <<"east", "scan", "west">>
McChanged == [east |-> 2, scan |-> 3, west |-> 1]

McOuiOf == [m \in McMACs |-> "acme"]
McCovers == {<<"example", "bad.example">>}
Indicator(kind, value, plain) == [kind |-> kind, value |-> value, plain |-> plain]
McHunts ==
  {<<Indicator("mac", "m1", FALSE), Indicator("ip", "a2", TRUE), Indicator("oui", "acme", TRUE)>>,
   <<Indicator("domain", "example", TRUE), Indicator("hash", "beef", TRUE),
     Indicator("ip", "a1", FALSE)>>}

\* What happens after the page is shown no longer matters to it.
PageIsOpen == step \notin {"done", "failed"}
=============================================================================
