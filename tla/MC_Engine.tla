----------------------------- MODULE MC_Engine -----------------------------
(* The plant of the run: a PLC, an HMI, a gateway, hosts of the internet. *)
EXTENDS EngineChain

CONSTANTS plc, hmi, gw, cloud, cloud2, group, bcast, any, v6, mPlc, mHmi, mGw, mGroup

McIPs == {plc, hmi, gw, cloud, cloud2, group, bcast, any, v6}
McMACs == {mPlc, mHmi, mGw, mGroup}

Packet(sip, dip, smac, dmac, proto, sport, dport, transport, len) ==
  [sip |-> sip, dip |-> dip, smac |-> smac, dmac |-> dmac, proto |-> proto,
   sport |-> sport, dport |-> dport, transport |-> transport, len |-> len,
   write |-> FALSE, program |-> FALSE, arp |-> "none", discovery |-> NoDiscovery]

Advertisement(mgmt, desc) ==
  [Packet(None, None, mGw, mGroup, "LLDP", 0, 0, "none", 1) EXCEPT
     !.discovery = [source |-> "lldp", caps |-> {"Bridge"}, mgmt |-> mgmt, desc |-> desc]]

(* Packets that meet in every order, three at a time ... *)
McCore ==
  {[Packet(hmi, plc, mHmi, mPlc, "Modbus TCP", 50000, 502, "tcp", 1) EXCEPT !.write = TRUE],
   [Packet(plc, hmi, mPlc, mHmi, "Modbus TCP", 502, 50000, "tcp", 2) EXCEPT !.write = TRUE],
   Packet(plc, cloud, mPlc, mGw, "TLS", 50002, 443, "tcp", 20),
   Packet(cloud, plc, mGw, mPlc, "TLS", 443, 50002, "tcp", 1),
   Packet(hmi, plc, mHmi, mPlc, "TCP", 50004, 20001, "tcp", 1),
   Packet(hmi, plc, mHmi, mPlc, "TCP", 50004, 20002, "tcp", 1),
   Packet(hmi, gw, mHmi, mGw, "HTTP", 50005, 80, "tcp", 1),
   Advertisement(None, "Moxa"), Advertisement(gw, "none")}

(* ... and packets that join one other. *)
McMore ==
  {[Packet(hmi, plc, mHmi, mPlc, "S7comm", 50001, 102, "tcp", 1) EXCEPT !.program = TRUE],
   Packet(plc, cloud2, mPlc, mGw, "TCP", 50003, 20001, "tcp", 2),
   Packet(plc, group, mPlc, mGroup, "EtherNet/IP", 2222, 2222, "udp", 1),
   Packet(hmi, bcast, mHmi, mGroup, "BACnet", 47808, 47808, "udp", 1),
   Packet(plc, hmi, None, mHmi, "TCP", 50006, 20001, "tcp", 1)}

(* ARP among the three hosts of the plant ... *)
Arp(kind, sip, smac, dip, dmac) ==
  [Packet(sip, dip, smac, dmac, "ARP", 0, 0, "none", 1) EXCEPT !.arp = kind]
McSweep ==
  {Arp("request", hmi, mHmi, plc, mGroup), Arp("request", hmi, mHmi, gw, mGroup),
   Arp("reply", gw, mGw, hmi, mHmi)}
McArp ==
  McSweep \cup {Arp("reply", plc, mPlc, hmi, mHmi), Arp("reply", gw, mPlc, hmi, mHmi),
                Arp("request", hmi, mHmi, hmi, mGroup), Arp("request", any, mHmi, plc, mGroup),
                Arp("request", any, mPlc, bcast, mGroup)}

(* ... and one that reaches out to the others. *)
McReach ==
  {Packet(hmi, plc, mHmi, mPlc, "SMB", 50007, 445, "tcp", 1),
   Packet(hmi, gw, mHmi, mGw, "SMB", 50007, 445, "tcp", 1),
   Packet(plc, hmi, mPlc, mHmi, "SMB", 445, 50007, "tcp", 1),
   Packet(hmi, cloud, mHmi, mGw, "RDP", 50008, 3389, "tcp", 1),
   [Packet(hmi, plc, mHmi, mPlc, "S7comm", 50001, 102, "tcp", 1) EXCEPT !.program = TRUE]}

(* A bridge announces the IPv6 address of a host ... *)
McV6 ==
  {Advertisement(v6, "none"), Advertisement(v6, "Moxa"),
   Packet(v6, hmi, mGw, mHmi, "HTTP", 50009, 80, "tcp", 1),
   Packet(hmi, plc, mHmi, mPlc, "Modbus TCP", 50000, 502, "tcp", 1)}

(* ... and a gateway serves what hosts behind it serve as well. *)
McGateway ==
  {Packet(hmi, gw, mHmi, mGw, "HTTP", 50005, 80, "tcp", 1),
   Packet(hmi, cloud, mHmi, mGw, "HTTP", 50010, 80, "tcp", 1),
   Packet(hmi, plc, mHmi, mPlc, "Modbus TCP", 50000, 502, "tcp", 1)}

McCaptures ==
  [1..3 -> McCore] \cup [1..3 -> McArp] \cup [1..3 -> McReach] \cup [1..4 -> McSweep]
    \cup [1..3 -> McV6] \cup [1..3 -> McGateway]
    \cup UNION {[1..n -> McCore \cup McMore] : n \in 0..2}

McServicePorts == [p \in {"Modbus TCP"} |-> {502}] @@ [p \in {"TLS"} |-> {443}]
McOui == (mPlc :> "Rockwell") @@ (mGw :> "Moxa")

Line(mode, size, threshold, request, fast, subnets) ==
  [mode |-> mode, size |-> size, threshold |-> threshold, request |-> request,
   fast |-> fast, subnets |-> subnets]
McCommandLines ==
  {Line("whole", 9, 2, "python", FALSE, <<>>),
   Line("ranges", 1, 0, "python", TRUE, <<>>),
   Line("ranges", 2, 2, "auto", FALSE, <<>>),
   Line("files", 1, 0, "python", FALSE, <<>>),
   Line("files", 2, 2, "auto", FALSE, <<>>),
   Line("whole", 9, 0, "marlinspike-dpi", FALSE, hmi :> 3)}

McArpDefaults ==
  [many |-> 5, targets |-> 2, replies |-> 2, storm |-> 2, gateway |-> None,
   routers |-> {mGw}, disabled |-> {}]
McArpPacks == <<[gateway |-> gw, many |-> 1]>>

McAptDefaults ==
  [smb |-> 5, rdp |-> 1, winrm |-> 1, recon |-> 2, packets |-> 1, jump |-> {cloud},
   pollers |-> {}, pollingRoles |-> {"HMI"}, disabled |-> {}]
McAptPacks ==
  <<[smb |-> 2, pollingRoles |-> {"Engineering Workstation", "Network Switch", "Router",
                                 "Network Infrastructure"}]>>
Family(protos, ports) == [protos |-> protos, ports |-> ports]
McFamilies ==
  [smb |-> Family({"SMB"}, {139, 445}), rdp |-> Family({"RDP"}, {3389}),
   winrm |-> Family({"WinRM"}, {5985}),
   ot |-> Family({"S7comm", "EtherNet/IP", "BACnet", "DNP3"}, {502, 102, 47808})]
McExpected ==
  ("PLC" :> {"S7comm", "EtherNet/IP", "ARP"})
    @@ ("Engineering Workstation" :> {"S7comm", "EtherNet/IP", "ARP", "SMB", "RDP"})

Rule(technique, kind, when, basis, confidence) ==
  [technique |-> technique, kind |-> kind, when |-> when, basis |-> basis,
   confidence |-> confidence]
Categories(set) == [categories |-> set, nodes |-> 0, edges |-> 0]
McMitreRules ==
  <<Rule("T1040", "coverage", {[Categories({}) EXCEPT !.nodes = 1]}, "platform", 10),
    Rule("T1071", "classification", {Categories({"C2_SUSPECT_CHANNEL"})}, "observed", 9),
    Rule("T1048", "classification", {Categories({"C2_DATA_EXFIL"})}, "observed", 9),
    Rule("T1071", "classification", {Categories({"ICS_EXTERNAL_COMMS", "C2_DATA_EXFIL"})},
         "inferred", 10)>>

McAdvisories ==
  {[id |-> "ICSA-1", words |-> {"Allen-Bradley", "Logix"}],
   [id |-> "ICSA-2", words |-> {"Moxa", "Rockwell"}], [id |-> "KEV-1", words |-> {"Unknown"}]}
McAliasGroups == <<{"Rockwell", "Allen-Bradley"}>>

McTextRank == <<2, 3, 1, 4>>
=============================================================================
