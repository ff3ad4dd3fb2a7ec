------------------------------ MODULE Overview ------------------------------
(***************************************************************************)
(* The roll-up of a project (marlinspike/aggregate.py): one record for     *)
(* each asset and finding of all its reports.  Reports are added one by    *)
(* one, in the order in which the directory happens to list them.  The     *)
(* order of the lists shown is left out.                                   *)
(***************************************************************************)
EXTENDS ReportData

(* A file is its name, its time of modification and the report loaded.     *)
Stamp(file) == [name |-> file.name, at |-> file.mtime]
Fresh(file) == [first |-> Stamp(file), last |-> Stamp(file)]

SightedForward(seen, file) ==
  [seen EXCEPT !.last = IF file.mtime > @.at THEN Stamp(file) ELSE @]

Sighted(seen, file) ==
  [first |-> IF file.mtime < seen.first.at THEN Stamp(file) ELSE seen.first,
   last  |-> IF file.mtime > seen.last.at THEN Stamp(file) ELSE seen.last]

(* A host is its MAC; without one, its IP. *)
AssetKey(node) == IF node.mac # None THEN node.mac ELSE node.ip
AssetKeys(report) == {AssetKey(n) : n \in ToSet(report.nodes)} \ {None}

AddAsset(assets, key, file) ==
  LET ns == {n \in ToSet(file.report.nodes) : AssetKey(n) = key}
      old == IF key \in DOMAIN assets
             THEN [assets[key] EXCEPT !.seen = Sighted(@, file)]
             ELSE [seen |-> Fresh(file), reports |-> 0, macs |-> {}, ips |-> {}, roles |-> {},
                   vendors |-> {}, protos |-> {}]
  IN [old EXCEPT !.reports = @ + 1,
                 !.macs = @ \cup ({n.mac : n \in ns} \ {None}),
                 !.ips = @ \cup ({n.ip : n \in ns} \ {None}),
                 !.roles = @ \cup {n.role : n \in ns},
                 !.vendors = @ \cup {n.vendor : n \in ns},
                 !.protos = @ \cup UNION {n.protos : n \in ns}]

FindingKey(f) == <<f.category, f.nodes, f.edges>>
FindingKeys(report) == {FindingKey(f) : f \in ToSet(report.findings)}
Under(report, key) ==
  Among(report.findings, {f \in ToSet(report.findings) : FindingKey(f) = key})

(* The text shown is the one of the newest report that was added. *)
AddFinding(found, key, file) ==
  LET fs == Under(file.report, key)
      old == IF key \in DOMAIN found
             THEN [found[key] EXCEPT
                     !.text = IF file.mtime > found[key].seen.last.at THEN file.name ELSE @,
                     !.seen = Sighted(@, file)]
             ELSE [seen |-> Fresh(file), text |-> file.name, occurrences |-> 0,
                   severity |-> fs[1].severity, source |-> fs[1].source, attacks |-> {}]
  IN [old EXCEPT !.occurrences = @ + 1,
                 !.severity = Min({@} \cup {f.severity : f \in ToSet(fs)}),
                 !.attacks = @ \cup UNION {f.attacks : f \in ToSet(fs)}]

AddProtocol(protocols, proto, packets) ==
  LET old == IF proto \in DOMAIN protocols THEN protocols[proto] ELSE [reports |-> 0, packets |-> 0]
  IN [reports |-> old.reports + 1, packets |-> old.packets + packets]

(* Each finding of a report counts once, with the severity it comes first. *)
AddReport(roll, file) ==
  LET r == file.report
  IN [reports  |-> roll.reports + 1,
      assets   |-> [k \in DOMAIN roll.assets \cup AssetKeys(r) |->
                      IF k \in AssetKeys(r) THEN AddAsset(roll.assets, k, file) ELSE roll.assets[k]],
      findings |-> [k \in DOMAIN roll.findings \cup FindingKeys(r) |->
                      IF k \in FindingKeys(r) THEN AddFinding(roll.findings, k, file)
                      ELSE roll.findings[k]],
      severities |-> [s \in Severities |-> roll.severities[s] +
                        Cardinality({k \in FindingKeys(r) : Under(r, k)[1].severity = s})],
      protocols |-> [p \in DOMAIN roll.protocols \cup DOMAIN r.traffic |->
                       IF p \in DOMAIN r.traffic THEN AddProtocol(roll.protocols, p, r.traffic[p])
                       ELSE roll.protocols[p]],
      starts |-> roll.starts \cup ({r.start} \ {0})]

NoReports ==
  [reports |-> 0, assets |-> <<>>, findings |-> <<>>, severities |-> [s \in Severities |-> 0],
   protocols |-> <<>>, starts |-> {}]

AggregateReports(files) ==
  LET roll[i \in 0 .. Len(files)] ==
        IF i = 0 THEN NoReports ELSE AddReport(roll[i - 1], files[i])
  IN roll[Len(files)]

Window(roll) ==
  IF roll.starts = {} THEN <<0, 0>> ELSE <<Min(roll.starts), Max(roll.starts)>>

(* Techniques, with the sum of the occurrences of their findings. *)
AttackCoverage(roll) ==
  [id \in UNION {roll.findings[k].attacks : k \in DOMAIN roll.findings} |->
     LET ks == {k \in DOMAIN roll.findings : id \in roll.findings[k].attacks}
     IN [reports |-> MapThenSumSet(LAMBDA k : roll.findings[k].occurrences, ks),
         categories |-> {k[1] : k \in ks}]]
=============================================================================
