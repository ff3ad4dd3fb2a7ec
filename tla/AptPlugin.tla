----------------------------- MODULE AptPlugin -----------------------------
(***************************************************************************)
(* The APT plugin (plugins/marlinspike_apt): fan-out of administration     *)
(* and OT protocols, and protocols that do not become a host's role.  The  *)
(* beacon detector is left out, with the scores of Stage 2 it reads.       *)
(***************************************************************************)
EXTENDS Plugins

CONSTANTS
  AptDefaults, AptPacks,  \* the settings, see AptSetting
  Families,    \* ports and protocol names (in any case) of "smb", "rdp", "winrm", "ot"
  Expected     \* what a role may initiate, by role, both in upper case

AptSetting ==
  [smb : Nat, rdp : Nat, winrm : Nat, recon : Nat, packets : Nat,
   jump : SUBSET IPs, pollers : SUBSET IPs, pollingRoles : SUBSET STRING,
   disabled : SUBSET STRING]

AptSettings == MergePacks(AptDefaults, AptPacks, {"jump", "pollers"})

ASSUME AptSettingsAreWellFormed ==
  /\ AptSettings \in AptSetting
  /\ DOMAIN Families = {"smb", "rdp", "winrm", "ot"}

InFamily(c, family) == c.proto \in Families[family].protos \/ c.port \in Families[family].ports
Directed(c) == c.sip # None /\ c.dip # None /\ c.sip # c.dip

(* The destinations of a family, by source. *)
TargetsOf(src, family) ==
  {c.dip : c \in {d \in ToSet(convs) : InFamily(d, family) /\ Directed(d) /\ d.sip = src}}

FanOutAbove(category, family, threshold, exempt) ==
  {[RawFinding(category) EXCEPT !.ip = src, !.targets = TargetsOf(src, family)] :
     src \in {s \in {c.sip : c \in ToSet(convs)} \ ({None} \cup exempt) :
       Cardinality(TargetsOf(s, family)) > threshold}}

FanOut(category, family, threshold, exempt) ==
  {[RawFinding(category) EXCEPT !.ip = src, !.targets = TargetsOf(src, family)] :
     src \in {s \in {c.sip : c \in ToSet(convs)} \ ({None} \cup exempt) :
       TargetsOf(s, family) # {} /\ Cardinality(TargetsOf(s, family)) >= threshold}}

SmbLateral == FanOut("APT_LATERAL_MOVEMENT_SMB", "smb", AptSettings.smb, {})
RdpLateral == FanOut("APT_LATERAL_MOVEMENT_RDP", "rdp", AptSettings.rdp, AptSettings.jump)
WinrmLateral ==
  FanOut("APT_LATERAL_MOVEMENT_WINRM", "winrm", AptSettings.winrm, AptSettings.jump)

(* Hosts without an address and hosts unknown to the topology have no role. *)
RoleOf(ip) == IF ip \in DOMAIN nodes \cap IPs THEN nodes[ip].role ELSE "unknown"

OtRecon ==
  FanOut("APT_OT_RECONNAISSANCE", "ot", AptSettings.recon,
         AptSettings.pollers \cup
           {ip \in DOMAIN nodes \cap IPs : RoleOf(ip) \in AptSettings.pollingRoles})

(* A host of a role with expectations that starts something else. *)
NewHostProtocol ==
  {[RawFinding("APT_NEW_HOST_PROTOCOL") EXCEPT !.ip = c.sip, !.proto = c.proto] :
     c \in {d \in ToSet(convs) :
       /\ d.sip # None /\ RoleOf(d.sip) \in DOMAIN Expected
       /\ d.proto \notin Expected[RoleOf(d.sip)]
       /\ d.packets >= AptSettings.packets}}

AptFindings ==
  {f \in SmbLateral \cup RdpLateral \cup WinrmLateral \cup OtRecon \cup NewHostProtocol :
     f.category \notin AptSettings.disabled}
=============================================================================
