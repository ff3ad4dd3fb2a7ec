----------------------------- MODULE ArpPlugin -----------------------------
(***************************************************************************)
(* The ARP plugin (plugins/marlinspike_arp): spoofing and reconnaissance   *)
(* in the ARP conversations, the listed ARP packets and the Layer 2        *)
(* anomalies of a report.  A storm is judged by packets alone: the engine  *)
(* prints times that the plugin cannot read as numbers, and then it takes  *)
(* a minute for the length of the capture.                                 *)
(***************************************************************************)
EXTENDS Plugins

CONSTANTS
  ArpDefaults,  \* the built-in settings, see ArpSetting
  ArpPacks,     \* what the rule packs set, in order
  BroadcastMac,
  Unspecified,  \* 0.0.0.0, which a host without an address sends from
  AllHosts      \* 255.255.255.255

(* With `replies' of r, at most one reply to r targets is a scan's. *)
ArpSetting ==
  [many : Nat, targets : Nat, replies : Nat \ {0}, storm : Nat,
   gateway : IPs \cup {None}, routers : SUBSET MACs, disabled : SUBSET STRING]

ArpSettings == MergePacks(ArpDefaults, ArpPacks, {"routers"})

ASSUME ArpSettingsAreWellFormed == ArpSettings \in ArpSetting

ArpConvs == {c \in ToSet(convs) : c.proto = "ARP"}
Observations == ToSet(observations)

(* Who claims an IP: conversations name one sender, packets all of them. *)
ClaimsAmong(senders) ==
  {<<s.sip, s.smac>> : s \in {t \in senders : t.sip \notin {None, Unspecified} /\ t.smac # None}}
ClaimsByConversation == ClaimsAmong(ArpConvs)
Claims == ClaimsByConversation \cup ClaimsAmong(Observations)

Claimants(ip) == {c[2] : c \in {d \in Claims : d[1] = ip}}
ClaimedBy(mac) == {c[1] : c \in {d \in Claims : d[2] = mac}}
Claimed == {c[1] : c \in Claims}
Contested(ip) == Cardinality(Claimants(ip)) >= 2

DuplicateIpClaim ==
  {[RawFinding("ARP_DUPLICATE_IP_CLAIM") EXCEPT !.ip = ip, !.macs = Claimants(ip)] :
     ip \in {i \in Claimed : Contested(i)}}

GatewayMacChange ==
  LET gateway == ArpSettings.gateway
  IN When(gateway # None /\ gateway \in Claimed /\ Contested(gateway),
          {[RawFinding("ARP_GATEWAY_MAC_CHANGE") EXCEPT !.ip = gateway,
              !.macs = Claimants(gateway)]})

MacClaimsManyIps ==
  {[RawFinding("ARP_MAC_CLAIMS_MANY_IPS") EXCEPT !.mac = mac] :
     mac \in {c[2] : c \in {d \in Claims :
       Cardinality(ClaimedBy(d[2])) > ArpSettings.many /\ d[2] \notin ArpSettings.routers}}}

NoTarget == {None, Unspecified, AllHosts}
ScanOf(mac, asked) ==
  [RawFinding("ARP_SCAN_BEHAVIOR") EXCEPT !.mac = mac, !.targets = asked]

(* Many targets asked for, few answers: a count of packets ... *)
ScanFromObservations ==
  LET Asked(mac) == {o.dip : o \in {p \in Observations :
                       p.arp = "request" /\ p.smac = mac /\ p.dip \notin NoTarget}}
      Answers(mac) == Len(SelectSeq(observations,
                       LAMBDA o : o.arp = "reply" /\ o.dmac = mac))
  IN {ScanOf(mac, Asked(mac)) :
        mac \in {m \in {o.smac : o \in Observations} :
          /\ Asked(m) # {} /\ Cardinality(Asked(m)) >= ArpSettings.targets
          /\ Answers(m) * ArpSettings.replies <= Cardinality(Asked(m))}}

(* ... or, where there is no list of packets, of conversations. *)
ScanFromConvs ==
  LET Asked(mac) == {c.dip : c \in {d \in ArpConvs : d.smac = mac /\ d.dip \notin NoTarget}}
      Count(mac) == Len(SelectSeq(convs, LAMBDA c : c.proto = "ARP" /\ c.smac = mac))
  IN {ScanOf(mac, Asked(mac)) :
        mac \in {m \in {c.smac : c \in ArpConvs} \ {None} :
          /\ Asked(m) # {} /\ Cardinality(Asked(m)) >= ArpSettings.targets
          /\ Count(m) * ArpSettings.replies <= Cardinality(Asked(m))}}

ScanBehavior == IF observations # <<>> THEN ScanFromObservations ELSE ScanFromConvs

BroadcastStorm ==
  LET Flood(mac) ==
        Total(SelectSeq(convs, LAMBDA c : c.proto = "ARP" /\ c.smac = mac /\ c.dmac = BroadcastMac),
              LAMBDA c : c.packets)
  IN {[RawFinding("ARP_BROADCAST_STORM") EXCEPT !.mac = mac] :
        mac \in {m \in {c.smac : c \in ArpConvs} \ {None} : Flood(m) > ArpSettings.storm}}

Gratuitous(ip, mac) ==
  [RawFinding("ARP_GRATUITOUS_REPLY") EXCEPT !.ip = ip, !.mac = mac]

(* tshark marks announcements, requests as well as replies. *)
GratuitousFromObservations ==
  {Gratuitous(o.sip, o.smac) :
     o \in {p \in Observations : p.gratuitous /\ p.sip # None /\ p.smac # None}}

(* An anomaly that repeats what is found already is not news. *)
FromL2Anomalies(found) ==
  LET News(f) == ~ \E g \in found :
        /\ g.category = f.category /\ g.ip = f.ip
        /\ f.category = "ARP_DUPLICATE_IP_CLAIM" \/ g.mac = f.mac
      spoofed == {a.ip : a \in {b \in anomalies : b.kind = "arp_spoof"}}
      spoofs == {[RawFinding("ARP_DUPLICATE_IP_CLAIM") EXCEPT !.ip = ip,
                    !.macs = UNION {a.macs : a \in {b \in anomalies :
                                      b.kind = "arp_spoof" /\ b.ip = ip}}] : ip \in spoofed}
      announced == {Gratuitous(a.ip, CHOOSE m \in a.macs : TRUE) :
                      a \in {b \in anomalies : b.kind = "arp_gratuitous"}}
  IN {f \in spoofs \cup announced : News(f)}

ArpFindings ==
  LET Enabled(fs) == {f \in fs : f.category \notin ArpSettings.disabled}
      indexed == DuplicateIpClaim \cup GatewayMacChange \cup MacClaimsManyIps
                   \cup ScanBehavior \cup BroadcastStorm \cup GratuitousFromObservations
  IN Enabled(indexed) \cup Enabled(FromL2Anomalies(Enabled(indexed)))
=============================================================================
