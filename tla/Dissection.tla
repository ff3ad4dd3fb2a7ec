----------------------------- MODULE Dissection -----------------------------
(***************************************************************************)
(* Stage 2 of the engine: packets become conversations                     *)
(* (marlinspike/engine.py, OTProtocolDissector and the Bronze adapter),    *)
(* and the web application's merge of chunk reports (marlinspike/app.py).  *)
(*                                                                         *)
(* A capture is read whole, in frame ranges by one engine (--chunk-size),  *)
(* or in files by one engine each whose reports are merged afterwards.     *)
(* Each engine reads with tshark, keyed by MAC addresses, or takes the     *)
(* Bronze events of marlinspike-dpi, keyed by IP addresses as well.        *)
(***************************************************************************)
EXTENDS Traffic

CONSTANTS
  Captures,           \* the captures explored: sequences of packets
  TextRank,           \* order of the printed timestamps of packets 1, 2, ...
  ServicePorts,       \* RUST_PROTOCOL_SERVICE_PORTS, by protocol
  ArpCap,             \* ARP_OBS_CAP, the length of the list of ARP packets
  MaxToolFaults       \* bound on failures of tshark, editcap, DPI and plugins

ASSUME DissectionBounds == MaxToolFaults \in Nat /\ ArpCap \in Nat \ {0}

(* A packet with the fields that tshark and marlinspike-dpi read of it. *)
Packets ==
  [sip : IPs \cup {None}, dip : IPs \cup {None},
   smac : MACs \cup {None}, dmac : MACs \cup {None},
   proto : STRING, sport : Nat, dport : Nat, transport : STRING, len : Nat,
   write : BOOLEAN, program : BOOLEAN, arp : {"none", "request", "reply"},
   discovery : Discovery]

ASSUME CapturesAreTraffic ==
  /\ \A c \in Captures : /\ c \in Seq(Packets)
                          /\ \A i \in DOMAIN c : TextRank[i] \in Nat
  /\ \A proto \in DOMAIN ServicePorts : ServicePorts[proto] \subseteq Nat

VARIABLES
  capture,    \* the packets of the file
  dpi,        \* what reads the current piece: "none", "python" or "bronze"
  used,       \* what has read a piece so far
  faults,     \* tool failures so far
  start, pos, \* packets read before the current piece, and so far
  skipped,    \* packets tshark delivered that give no conversation
  table,      \* conv_map of this engine: accumulators in insertion order
  pairPorts,  \* pair_ports: destination ports seen per MAC pair
  reports,    \* the conversations of the chunk reports written so far
  phase       \* "read", "merge", "dissected" or "failed"

given == <<cli, capture>>
dissectVars == <<given, dpi, used, faults, start, pos, skipped,
                 table, pairPorts, reports, phase, layer2>>

DissectionInit ==
  /\ capture \in Captures
  /\ cli \in CommandLines
  /\ dpi = "none" /\ used = {} /\ faults = 0 /\ start = 0
  /\ pos = 0 /\ skipped = 0
  /\ table = <<>> /\ pairPorts = <<>> /\ reports = <<>>
  /\ phase = "read"
  /\ convs = <<>> /\ observations = <<>> /\ anomalies = {}

-----------------------------------------------------------------------------
(* Accumulators. *)

Accumulator(key, p) ==
  [key |-> key, sips |-> {}, dips |-> {}, smac |-> p.smac, dmac |-> p.dmac,
   proto |-> key[3], port |-> key[4], transport |-> "none", packets |-> 0, bytes |-> 0,
   first |-> 0, last |-> 0, writes |-> 0, program |-> FALSE,
   discovery |-> NoDiscovery]

Earlier(a, b) == IF a = 0 \/ b < a THEN b ELSE a
Later(a, b) == IF a = 0 \/ b > a THEN b ELSE a

(* An empty timestamp never occurs: stamps are positive.  The printed form *)
(* of tshark begins with the month's name and sorts after the digits of    *)
(* the ISO form that marlinspike-dpi writes.                               *)
Stamp(i) == IF dpi = "python" THEN 100 + TextRank[i] ELSE i

Refresh(old, new, unknown) == IF new = unknown THEN old ELSE new

(* A later frame of the sender overwrites what it tells anew. *)
Learn(old, new) ==
  [source |-> IF old.source = "none" THEN new.source ELSE old.source,
   caps |-> Refresh(old.caps, new.caps, {}), mgmt |-> Refresh(old.mgmt, new.mgmt, None),
   desc |-> Refresh(old.desc, new.desc, "none")]

(* tshark is asked for ip.src and ip.dst only: it names no IPv6 host. *)
Named(ip) == Present(ip) \ (IF dpi = "python" THEN V6 ELSE {})

Absorb(a, p, stamp) ==
  [a EXCEPT !.packets = @ + 1, !.bytes = @ + p.len,
            !.sips = @ \cup Named(p.sip), !.dips = @ \cup Named(p.dip),
            !.first = Earlier(@, stamp), !.last = Later(@, stamp),
            !.writes = @ + (IF p.write THEN 1 ELSE 0),
            !.program = @ \/ p.program,
            !.transport = IF @ = "none" THEN p.transport ELSE @,
            !.discovery = Learn(@, p.discovery)]

Upsert(tab, key, p, stamp) ==
  LET i == SelectInSeq(tab, LAMBDA a : a.key = key)
  IN IF i = 0 THEN Append(tab, Absorb(Accumulator(key, p), p, stamp))
              ELSE [tab EXCEPT ![i] = Absorb(@, p, stamp)]

-----------------------------------------------------------------------------
(* The tshark pass. *)

(* Where the current piece ends: a file of the splitter is one process'    *)
(* input, the ranges of --chunk-size are read by one process in turn.      *)
PieceEnd == IF cli.mode = "files" THEN Min({Len(capture), start + cli.size}) ELSE Len(capture)
RangeEnd == Min({PieceEnd, (pos \div cli.size + 1) * cli.size})

Pair(p) == <<p.smac, p.dmac, p.transport>>
PortsOf(ports, p) ==
  (IF Pair(p) \in DOMAIN ports THEN ports[Pair(p)] ELSE {}) \cup {p.dport}

Counted(p) == cli.threshold > 0 /\ p.dport > 0 /\ p.transport # "none"

(* Once a MAC pair has used as many ports as the threshold, its packets go *)
(* to the one "Port Scan" conversation of the pair, whatever the protocol. *)
TsharkKeyAbove(ports, p) ==
  IF Counted(p) /\ Cardinality(PortsOf(ports, p)) > cli.threshold
  THEN <<p.smac, p.dmac, "Port Scan", 0>>
  ELSE <<p.smac, p.dmac, p.proto, p.dport>>

TsharkKey(ports, p) ==
  IF Counted(p) /\ Cardinality(PortsOf(ports, p)) >= cli.threshold
  THEN <<p.smac, p.dmac, "Port Scan", 0>>
  ELSE <<p.smac, p.dmac, p.proto, p.dport>>

Skippable(p) == p.smac = None \/ p.dmac = None \/ p.proto = "none"

(* ARP packets are listed as well, up to the cap. *)
Observed(list, p) ==
  IF p.arp = "none" \/ Len(list) >= ArpCap THEN list
  ELSE Append(list, [smac |-> p.smac, sip |-> p.sip, dmac |-> p.dmac, dip |-> p.dip,
                     arp |-> p.arp, gratuitous |-> p.sip = p.dip])

TsharkPacket ==
  /\ phase = "read" /\ dpi = "python"
  /\ pos < PieceEnd
  /\ LET p == capture[pos + 1]
     IN /\ pos' = pos + 1
        /\ IF Skippable(p)
           THEN skipped' = skipped + 1 /\ UNCHANGED <<table, pairPorts, observations>>
           ELSE /\ observations' = Observed(observations, p)
                /\ table' = Upsert(table, TsharkKey(pairPorts, p), p, Stamp(pos + 1))
                /\ pairPorts' =
                     IF Counted(p)
                     THEN [k \in DOMAIN pairPorts \cup {Pair(p)} |->
                             IF k = Pair(p) THEN PortsOf(pairPorts, p)
                                            ELSE pairPorts[k]]
                     ELSE pairPorts
                /\ UNCHANGED skipped
  /\ UNCHANGED <<given, dpi, used, faults, start, reports, phase, convs, anomalies>>

(* tshark or editcap fails: a message is printed, what was read is kept,   *)
(* and a range of which nothing was read ends the loop over the ranges.    *)
TsharkDies ==
  /\ phase = "read" /\ dpi = "python"
  /\ pos < PieceEnd /\ faults < MaxToolFaults
  /\ faults' = faults + 1
  /\ pos' = IF cli.mode = "ranges" /\ pos % cli.size # 0 THEN RangeEnd ELSE PieceEnd
  /\ UNCHANGED <<given, dpi, used, start, skipped, table, pairPorts, reports, phase,
                 convs, layer2>>

-----------------------------------------------------------------------------
(* The Bronze adapter: one event per packet. *)

(* The stable service port of an event. *)
ServicePort(p) ==
  LET known == IF p.proto \in DOMAIN ServicePorts THEN ServicePorts[p.proto] ELSE {}
  IN CASE p.dport \in known                        -> p.dport
       [] p.sport \in known                        -> p.sport
       [] p.dport # 0 /\ p.dport < Ephemeral       -> p.dport
       [] p.sport # 0 /\ p.sport < Ephemeral       -> p.sport
       [] OTHER -> IF p.dport # 0 THEN p.dport ELSE p.sport

NeverFromService(p) == FALSE
FromService(p) ==
  ServicePort(p) # 0 /\ p.sport = ServicePort(p) /\ p.dport # ServicePort(p)

(* Initiator first. *)
Normalized(p) ==
  IF FromService(p)
  THEN [p EXCEPT !.sip = p.dip, !.dip = p.sip, !.smac = p.dmac, !.dmac = p.smac,
                 !.sport = p.dport, !.dport = p.sport]
  ELSE p

(* LLDP, CDP and STP events are topology observations: they are keyed by   *)
(* protocol and MAC addresses and carry no IP and no management address.   *)
BronzeEvent(p) ==
  IF p.discovery # NoDiscovery
  THEN LET q == [p EXCEPT !.sip = None, !.dip = None, !.discovery.mgmt = None]
       IN [key |-> <<p.smac, p.dmac, p.proto, 0, "l2">>, packet |-> q]
  ELSE LET q == Normalized(p)
       IN [key |-> <<q.smac, q.dmac, p.proto, ServicePort(p), q.sip, q.dip, p.transport>>,
           packet |-> q]

AddEvent(tab, i) ==
  LET e == BronzeEvent(capture[i]) IN Upsert(tab, e.key, e.packet, Stamp(i))
BronzeTable(first, last) ==
  FoldLeft(AddEvent, <<>>, [k \in 1..(last - first + 1) |-> first + k - 1])

(* What marlinspike-dpi says of ARP: an address that moved to another MAC, *)
(* an announcement nobody asked for.                                       *)
Anomalies(first, last) ==
  LET arps == {i \in first..last : capture[i].arp # "none"}
      moves == {ij \in arps \X arps :
                  /\ ij[1] < ij[2] /\ capture[ij[1]].sip = capture[ij[2]].sip
                  /\ capture[ij[1]].smac # capture[ij[2]].smac}
  IN {[kind |-> "arp_spoof", ip |-> capture[ij[1]].sip,
       macs |-> {capture[ij[1]].smac, capture[ij[2]].smac}] : ij \in moves}
     \cup {[kind |-> "arp_gratuitous", ip |-> capture[i].sip, macs |-> {capture[i].smac}] :
             i \in {k \in arps : capture[k].sip = capture[k].dip}}

(* The adapter works on the finished output of one process. *)
ReadBronze ==
  /\ phase = "read" /\ dpi = "bronze" /\ pos < PieceEnd
  /\ table' = BronzeTable(pos + 1, PieceEnd)
  /\ anomalies' = Anomalies(pos + 1, PieceEnd)
  /\ pos' = PieceEnd
  /\ UNCHANGED <<given, dpi, used, faults, start, skipped, pairPorts, reports, phase,
                 convs, observations>>

-----------------------------------------------------------------------------
(* The choice of the engine, for every piece, and its report. *)

Choose(engine) ==
  /\ phase = "read" /\ dpi = "none"
  /\ dpi' = engine
  /\ used' = used \cup {engine}
  /\ UNCHANGED <<given, start, pos, skipped, table, pairPorts, reports, phase, convs,
                 layer2>>

UsePython == cli.request = "python" /\ Choose("python") /\ UNCHANGED faults
UseBronze == cli.request # "python" /\ Choose("bronze") /\ UNCHANGED faults

(* marlinspike-dpi is missing or fails: "auto" falls back to tshark.       *)
FallBack ==
  /\ cli.request = "auto" /\ faults < MaxToolFaults
  /\ Choose("python")
  /\ faults' = faults + 1

(* Asked for by name, its failure ends the stage. *)
DpiFails ==
  /\ phase = "read" /\ dpi = "none"
  /\ cli.request = "marlinspike-dpi" /\ faults < MaxToolFaults
  /\ faults' = faults + 1
  /\ phase' = "failed"
  /\ UNCHANGED <<given, dpi, used, start, pos, skipped, table, pairPorts, reports,
                 convs, layer2>>

Representatives(seen) == IF seen = {} THEN {None} ELSE seen

(* A conversation names one of the IPs seen on it, whichever the set       *)
(* yields first.                                                           *)
Conversations(a) ==
  {[sip |-> s, dip |-> d, smac |-> a.smac, dmac |-> a.dmac, proto |-> a.proto,
    port |-> a.port, transport |-> a.transport, packets |-> a.packets, bytes |-> a.bytes, first |-> a.first,
    last |-> a.last, writes |-> a.writes, program |-> a.program,
    discovery |-> a.discovery] :
     s \in Representatives(a.sips), d \in Representatives(a.dips)}

Extended(lists, a) == {Append(l, c) : l \in lists, c \in Conversations(a)}
ConversationLists(tab) == FoldLeft(Extended, {<<>>}, tab)

(* The engine that reads the whole file hands them to the next stage. *)
FinishFile ==
  /\ phase = "read" /\ cli.mode # "files" /\ dpi # "none" /\ pos = PieceEnd
  /\ \E list \in ConversationLists(table) : convs' = list
  /\ phase' = "dissected"
  /\ UNCHANGED <<given, dpi, used, faults, start, pos, skipped, table, pairPorts,
                 reports, layer2>>

(* The engine of a chunk writes its report; the next chunk has its own.    *)
(* The merge takes conversations only: ARP packets and anomalies are lost. *)
FinishChunk ==
  /\ phase = "read" /\ cli.mode = "files" /\ dpi # "none" /\ pos = PieceEnd
  /\ \E list \in ConversationLists(table) : reports' = Append(reports, list)
  /\ table' = <<>> /\ pairPorts' = <<>> /\ observations' = <<>> /\ anomalies' = {}
  /\ dpi' = "none" /\ start' = pos
  /\ phase' = IF pos = Len(capture) THEN "merge" ELSE "read"
  /\ UNCHANGED <<given, used, faults, pos, skipped, convs>>

-----------------------------------------------------------------------------
(* The web application's merge. *)

MergeKey(c) == <<c.smac, c.dmac, c.proto, c.port>>
FillIn(old, new) == IF old = None THEN new ELSE old

MergeNested(old, new) ==
  [source |-> IF old.source = "none" THEN new.source ELSE old.source,
   caps |-> old.caps \cup new.caps, mgmt |-> FillIn(old.mgmt, new.mgmt),
   desc |-> IF old.desc = "none" THEN new.desc ELSE old.desc]

MergeKeepsFirst(old, new) == [old EXCEPT !.bytes = @ + new.bytes]
MergeKeepsTimes(old, new) ==
  [old EXCEPT !.packets = @ + new.packets, !.bytes = @ + new.bytes]

MergeConversation(old, new) ==
  [old EXCEPT !.packets = @ + new.packets, !.bytes = @ + new.bytes,
              !.writes = @ + new.writes,
              !.first = Min({@, new.first}), !.last = Max({@, new.last}),
              !.sip = FillIn(@, new.sip), !.dip = FillIn(@, new.dip),
              !.transport = IF @ = "none" THEN new.transport ELSE @,
              !.program = @ \/ new.program,
              !.discovery = MergeNested(@, new.discovery)]

AddConversation(list, c) ==
  LET i == SelectInSeq(list, LAMBDA d : MergeKey(d) = MergeKey(c))
  IN IF i = 0 THEN Append(list, c)
              ELSE [list EXCEPT ![i] = MergeConversation(@, c)]

(* One report of the list; after the last the merged chain starts. *)
MergeReport ==
  /\ phase = "merge"
  /\ IF reports = <<>>
     THEN phase' = "dissected" /\ UNCHANGED <<reports, convs>>
     ELSE /\ convs' = FoldLeft(AddConversation, convs, Head(reports))
          /\ reports' = Tail(reports)
          /\ UNCHANGED phase
  /\ UNCHANGED <<given, dpi, used, faults, start, pos, skipped, table, pairPorts, layer2>>

DissectionNext ==
  \/ UsePython \/ UseBronze \/ FallBack \/ DpiFails
  \/ TsharkPacket \/ TsharkDies \/ ReadBronze
  \/ FinishFile \/ FinishChunk \/ MergeReport

-----------------------------------------------------------------------------
(* Properties. *)

Dissected == phase = "dissected"

(* Nothing is counted twice and nothing is lost on the way from packets to *)
(* conversations, however the file was cut, whatever read each piece and   *)
(* whatever was collapsed: packets and Modbus writes add up.               *)
TrafficIsConserved ==
  Dissected /\ faults = 0 =>
    LET kept == {i \in 1..Len(capture) : ~Skippable(capture[i]) \/ "python" \notin used}
    IN /\ Total(convs, LAMBDA c : c.packets) = Len(capture) - skipped
       /\ Total(convs, LAMBDA c : c.writes)
            = Cardinality({i \in kept : capture[i].write})

(* Without collapsing, the conversations of tshark, merged or not, are     *)
(* those of one pass over the capture: per MAC pair, protocol and port the *)
(* packets, their bytes and the printed times of the first and the last.   *)
ChunksMatchOnePass ==
  Dissected /\ faults = 0 /\ used = {"python"} /\ cli.threshold = 0 =>
    \A n \in DOMAIN convs :
      LET c == convs[n]
          own == {i \in 1..Len(capture) :
                    <<capture[i].smac, capture[i].dmac, capture[i].proto, capture[i].dport>>
                      = MergeKey(c)}
          stamps == {100 + TextRank[i] : i \in own}
      IN /\ c.packets = Cardinality(own)
         /\ c.bytes = FoldSet(LAMBDA i, sum : sum + capture[i].len, 0, own)
         /\ c.first = Min(stamps) /\ c.last = Max(stamps)

(* A port scan cannot fill the table: in one engine a MAC pair has fewer   *)
(* conversations by port than the threshold.                               *)
ScansCollapse ==
  dpi = "python" /\ cli.threshold > 0 =>
    \A pair \in DOMAIN pairPorts :
      Cardinality({table[n].port : n \in {k \in DOMAIN table :
        <<table[k].smac, table[k].dmac, table[k].transport>> = pair
          /\ table[k].port > 0}}) < cli.threshold

(* marlinspike-dpi's requests and responses of one service meet in one     *)
(* conversation: no two conversations of a report are the mirror image of  *)
(* each other when one side of the packets is the service.                 *)
DirectionsMeet ==
  used = {"bronze"} =>
    \A m, n \in DOMAIN table :
      LET a == table[m]
          b == table[n]
      IN ~ /\ m # n /\ a.proto = b.proto /\ a.port = b.port
           /\ a.port \in UNION Range(ServicePorts)
           /\ a.sips = b.dips /\ a.dips = b.sips /\ a.sips # {}

(* What Stage 2 tells of a host survives the merge of chunks: with the DPI *)
(* every IP that sent or received a packet is named by a conversation.     *)
HostsAreKept ==
  Dissected /\ faults = 0 /\ used = {"bronze"} =>
    \A i \in 1..Len(capture) :
      capture[i].discovery = NoDiscovery =>
        Present(capture[i].sip) \cup Present(capture[i].dip)
          \subseteq UNION {{convs[n].sip, convs[n].dip} : n \in DOMAIN convs}
=============================================================================
