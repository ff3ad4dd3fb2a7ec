------------------------------ MODULE Plugins ------------------------------
(***************************************************************************)
(* What the enrichment plugins share: the findings they write to their     *)
(* sidecars, the rule packs that set their thresholds, and the adapter     *)
(* that makes a finding of the report out of one of theirs                 *)
(* (plugins/marlinspike_arp, plugins/marlinspike_apt, and                  *)
(* marlinspike/enrich.py).                                                 *)
(***************************************************************************)
EXTENDS RiskSurface

(* What a finding of a plugin names; a field it lacks is empty. *)
RawFinding(category) ==
  [category |-> category, ip |-> None, mac |-> None, targets |-> {}, macs |-> {},
   proto |-> "none"]

(* A later pack overrides the settings it mentions; lists of exempt hosts  *)
(* (the fields in `unions') only grow.                                     *)
Override(settings, pack, unions) ==
  [k \in DOMAIN settings |->
     IF k \notin DOMAIN pack THEN settings[k]
     ELSE IF k \in unions THEN settings[k] \cup pack[k] ELSE pack[k]]

MergePacks(defaults, packs, unions) ==
  FoldLeft(LAMBDA s, pack : Override(s, pack, unions), defaults, packs)

(* The adapter takes the address of a finding, its targets and its MACs.   *)
(* The single MAC of a finding is in its text only: here, its basis.       *)
RiskFindingOf(plugin, raw) ==
  [category |-> raw.category, nodes |-> Present(raw.ip) \cup raw.targets \cup raw.macs,
   basis |-> <<raw.mac, raw.proto>>, source |-> plugin]

Adapted(plugin, raws) == {RiskFindingOf(plugin, raw) : raw \in raws}

(* What a merge keeps of the report: the findings that no plugin wrote. *)
PluginIds == {"marlinspike-mitre", "marlinspike-arp", "marlinspike-apt",
              "marlinspike-cisa"}
EngineFindings(fs) == {f \in fs : f.source \notin PluginIds}
=============================================================================
