------------------------------ MODULE Traffic ------------------------------
(***************************************************************************)
(* What the stages of the engine share: packets, the conversations that    *)
(* Stage 2 makes of them and Stages 3 and 4 read, and the classes of       *)
(* addresses and ports (marlinspike/engine.py).                            *)
(***************************************************************************)
EXTENDS Integers, FiniteSets, Sequences, SequencesExt, FiniteSetsExt, Functions

CONSTANTS
  None,         \* an absent IP or MAC address (the empty string)
  IPs, MACs,    \* addresses in the capture; the two sets share no member
  V6,           \* IPs that are IPv6 addresses: as keys, they have colons
  Public,       \* IPs that ipaddress calls global and unicast
  Multicast,    \* IPs in 224.0.0.0/4, which ipaddress calls global too
  Broadcast,    \* IPs that end in .255
  OtPorts,      \* the keys of OT_PROTOCOLS
  KnownPorts,   \* the keys of WELL_KNOWN_PORTS
  OtProtocols,  \* the names in OT_PROTOCOLS and OT_TSHARK_PROTOCOLS
  Ephemeral,    \* EPHEMERAL_PORT_MIN
  CommandLines  \* the settings explored, see IsCommandLine

ASSUME AddressesDiffer ==
  /\ None \notin IPs \cup MACs
  /\ IPs \cap MACs = {}
  /\ V6 \cup Public \cup Multicast \cup Broadcast \subseteq IPs
  /\ OtPorts \cup KnownPorts \cup {Ephemeral} \subseteq Nat

(* How a capture is analysed: read whole, in frame ranges (--chunk-size)   *)
(* or in files of `size' packets; with --collapse-threshold (0 is off),    *)
(* --dpi-engine, --fast, and the levels --subnet-map gives to IPs.         *)
IsCommandLine(c) ==
  /\ c \in [mode : {"whole", "ranges", "files"}, size : Nat \ {0}, threshold : Nat,
            request : {"auto", "python", "marlinspike-dpi"}, fast : BOOLEAN,
            subnets : [DOMAIN c.subnets -> 0..5]]
  /\ DOMAIN c.subnets \subseteq IPs

ASSUME CommandLinesAreWellFormed == \A c \in CommandLines : IsCommandLine(c)

VARIABLES
  cli,    \* the settings of this run
  convs,  \* the conversations of the report, in order
  observations, \* ARP packets of the report, in order
  anomalies     \* Layer 2 anomalies of the report

layer2 == <<observations, anomalies>>

(* What an LLDP or CDP frame tells of its sender: capabilities, the        *)
(* management address, and the vendor its system description names.        *)
NoDiscovery == [source |-> "none", caps |-> {}, mgmt |-> None, desc |-> "none"]

Discovery ==
  [source : STRING, caps : SUBSET STRING, mgmt : IPs \cup {None}, desc : STRING]

(* The key of an endpoint in the graph: its IP, or its MAC without one. *)
Key(ip, mac) == IF ip # None THEN ip ELSE mac
SrcKey(c) == Key(c.sip, c.smac)
DstKey(c) == Key(c.dip, c.dmac)

Conversation ==
  [sip : IPs \cup {None}, dip : IPs \cup {None},
   smac : MACs \cup {None}, dmac : MACs \cup {None},
   proto : STRING, port : Nat, transport : STRING, packets : Nat, bytes : Nat,
   first : Nat, last : Nat, writes : Nat, program : BOOLEAN,
   discovery : Discovery]

Present(ip) == {ip} \ {None}
Total(s, Count(_)) == FoldLeft(LAMBDA sum, c : sum + Count(c), 0, s)
=============================================================================
