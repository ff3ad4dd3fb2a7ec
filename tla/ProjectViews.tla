---------------------------- MODULE ProjectViews ----------------------------
(***************************************************************************)
(* A page is opened while one report of the project is being enriched or   *)
(* deleted: the viewer of that report (app.py, api_report_viewer), the     *)
(* overview of the project, the history of its assets, or a hunt.          *)
(***************************************************************************)
EXTENDS Enrichment, Overview, Baseline, IocScan

CONSTANTS
  Projects,   \* what may be on disk: the report to come, and those of old
  Names,      \* all names of reports, in alphabetical order
  Changed,    \* the time at which a file was last written; the new ones share theirs
  Limit,      \* how many reports a history takes
  Hunts       \* lists of indicators

ASSUME ProjectsAreReports ==
  \A project \in Projects :
    /\ Main \in DOMAIN project
    /\ \A n \in DOMAIN project : IsReport(project[n])
    /\ project[Main].ext = <<>>  \* as Stage 4 leaves it
    /\ \A f \in ToSet(project[Main].findings) : f.source = "engine"

ASSUME FilesAreDated ==
  \A n \in {Main} \cup UNION {DOMAIN project : project \in Projects} :
    n \in DOMAIN Changed /\ Changed[n] \in Nat

ASSUME HuntsAreLists == Hunts \subseteq Seq(Entry)

VARIABLES
  page,    \* what was asked for
  step,
  view,    \* the report a viewer builds up
  merged,  \* the plugins merged into it when the viewer opened it
  made,    \* the artifact of the plugin the viewer started
  todo,    \* the files still to be read
  files,   \* those that were read
  list     \* the indicators hunted for

pageVars == <<page, step, view, merged, made, todo, files, list>>
vars == <<fileVars, pageVars>>

Init ==
  /\ EnrichmentInit
  /\ page \in {"viewer", "overview", "history", "hunt"}
  /\ \E project \in Projects :
       /\ page = "viewer" <=> DOMAIN project = {Main}  \* it reads no other report
       /\ base = project[Main]
       /\ dir = [f \in {<<n, "report">> : n \in DOMAIN project} |->
                   IF f = MainFile THEN Torn ELSE project[f[1]]]
  /\ step = "start" /\ view = Blank /\ merged = {} /\ made = None /\ todo = {} /\ files = <<>>
  /\ list \in (IF page = "hunt" THEN Hunts ELSE {<<>>})

-----------------------------------------------------------------------------
(* The viewer. *)

(* A report that is missing or torn is an error. *)
OpenViewer ==
  /\ page = "viewer" /\ step = "start"
  /\ IF Whole(MainFile)
     THEN /\ view' = [dir[MainFile] EXCEPT !.ext = Extensions(dir[MainFile])]
          /\ merged' = DOMAIN dir[MainFile].ext
          /\ step' = "mitre"
     ELSE UNCHANGED <<view, merged>> /\ step' = "failed"
  /\ UNCHANGED <<fileVars, page, made, todo, files, list>>

(* Without a sidecar of ATT&CK the viewer has one made, from the report as *)
(* it is by then.  Whatever goes wrong with it is only logged.             *)
EnsureMitre ==
  /\ step = "mitre"
  /\ IF "mitre" \in Enabled /\ ~Present(SidecarPath("mitre")) /\ Whole(MainFile)
     THEN step' = "classify" /\ made' = Artifact("mitre", dir[MainFile])
     ELSE step' = "sidecars" /\ made' = made
  /\ UNCHANGED <<fileVars, page, view, merged, todo, files, list>>

OpenMitre ==
  /\ step = "classify"
  /\ dir' = Put(SidecarPath("mitre"), Torn)
  /\ opened' = "mitre" /\ step' = "write"
  /\ UNCHANGED <<base, job, doomed, faults, page, view, merged, made, todo, files, list>>

WriteMitre ==
  /\ step = "write"
  /\ dir' \in Written("mitre", made)
  /\ opened' = None /\ made' = None /\ step' = "sidecars"
  /\ UNCHANGED <<base, job, doomed, faults, page, view, merged, todo, files, list>>

MitreFails ==
  /\ step \in {"classify", "write"} /\ faults < MaxFaults
  /\ faults' = faults + 1
  /\ opened' = None /\ made' = None /\ step' = "sidecars"
  /\ UNCHANGED <<base, dir, job, doomed, page, view, merged, todo, files, list>>

(* The sidecars are read one after the other. *)
ReadSidecar(p) ==
  /\ step = "sidecars" /\ p \notin todo
  /\ \A i \in DOMAIN Specs : Specs[i] = p => \A k \in 1..(i - 1) : Specs[k] \in todo
  /\ view' = [view EXCEPT !.ext = WithSidecars(@, {p})]
  /\ todo' = todo \cup {p}
  /\ UNCHANGED <<fileVars, page, step, merged, made, files, list>>

ShowReport ==
  /\ step = "sidecars" /\ todo = ToSet(Specs)
  /\ view' = Merged(view, view.ext) /\ step' = "done"
  /\ UNCHANGED <<fileVars, page, merged, made, todo, files, list>>

-----------------------------------------------------------------------------
(* The pages of a project. *)

(* Names that end in -mitre, -arp or -apt are no reports. *)
IsPrimary(file) == file[2] \notin {"mitre", "arp", "apt"}

(* A history takes the files that were changed last. *)
Newest(candidates) ==
  {s \in SUBSET candidates :
     /\ Cardinality(s) = Min({Limit, Cardinality(candidates)})
     /\ \A f \in s, g \in candidates \ s : Changed[f[1]] >= Changed[g[1]]}

ListReports ==
  /\ page # "viewer" /\ step = "start"
  /\ LET found == {f \in DOMAIN dir : IsPrimary(f)}
     IN todo' \in (IF page = "history" THEN Newest(found) ELSE {found})
  /\ step' = "load"
  /\ UNCHANGED <<fileVars, page, view, merged, made, files, list>>

Content(file) == IF DOMAIN dir[file] = DOMAIN Blank THEN dir[file] ELSE Blank

(* Merging the sidecars of a file; only the report in the works has some. *)
Loaded(file) ==
  IF file # MainFile THEN Content(file)
  ELSE LET r == dir[file]
       IN Merged(r, WithSidecars(Extensions(r), ToSet(Specs)))

Position(file) == SelectInSeq(Names, LAMBDA n : n = file[1])

(* In any order, a hunt in the order of names; what cannot be read is left *)
(* out.  A history reads the bare reports.                                 *)
LoadReport(file) ==
  /\ step = "load" /\ file \in todo
  /\ page = "hunt" => \A f \in todo :
       \/ Position(file) < Position(f)
       \/ file[1] = f[1] /\ (f = file \/ file[2] = "cisa")
  /\ files' = IF Whole(file)
              THEN Append(files, [name |-> file[1], mtime |-> Changed[file[1]],
                     report |-> IF page = "history" THEN Content(file) ELSE Loaded(file)])
              ELSE files
  /\ todo' = todo \ {file}
  /\ UNCHANGED <<fileVars, page, step, view, merged, made, list>>

(* A history sorts what it has read by the time of the capture. *)
Older(f, g) ==
  \/ f.report.start < g.report.start
  \/ f.report.start = g.report.start /\ Position(<<f.name>>) < Position(<<g.name>>)

Sorted(s) ==
  {t \in {[i \in DOMAIN s |-> s[at[i]]] : at \in Bijection(DOMAIN s, DOMAIN s)} :
     \A i \in 2 .. Len(t) : ~Older(t[i], t[i - 1])}

ShowProject ==
  /\ step = "load" /\ todo = {}
  /\ files' \in (IF page = "history" THEN Sorted(files) ELSE {files})
  /\ step' = "done"
  /\ UNCHANGED <<fileVars, page, view, merged, made, todo, list>>

PageNext ==
  \/ OpenViewer \/ EnsureMitre \/ OpenMitre \/ WriteMitre \/ MitreFails
  \/ (\E p \in ToSet(Specs) : ReadSidecar(p)) \/ ShowReport
  \/ ListReports \/ (\E file \in todo : LoadReport(file)) \/ ShowProject

Next == (EnrichmentNext /\ UNCHANGED pageVars) \/ PageNext

Spec == Init /\ [][Next]_vars

-----------------------------------------------------------------------------
(* Properties. *)

(* On disk and on every page a report has the engine's findings as they    *)
(* were, and those of each merged plugin once, however often it was        *)
(* enriched (load_report_with_extensions).                                 *)
WellMerged(r) ==
  /\ From({"engine"}, r.findings) = From({"engine"}, base.findings)
  /\ \A p \in DOMAIN PluginFindings :
       From({p}, r.findings) = IF p \in DOMAIN r.ext THEN PluginFindings[p] ELSE <<>>

FindingsOnce ==
  /\ Whole(MainFile) => WellMerged(dir[MainFile])
  /\ page = "viewer" /\ step = "done" => WellMerged(view)
  /\ \A i \in DOMAIN files :
       files[i].name = Main /\ files[i].report # Blank => WellMerged(files[i].report)

(* A viewer that found a report with plugins merged into it shows what     *)
(* they found, whatever is done to their sidecars while it reads them.     *)
EnrichmentIsKept ==
  page = "viewer" /\ step = "done" => merged \subseteq DOMAIN view.ext

Shown == step = "done"

(* The sum of the values of a function. *)
Tally(counts) == Cardinality(UNION {{x} \X (1 .. counts[x]) : x \in DOMAIN counts})

(* The overview counts, dates and grades assets and findings alike in      *)
(* whatever order the directory lists the reports (aggregate_reports).     *)
OverviewIsExact ==
  Shown /\ page = "overview" =>
    LET roll == AggregateReports(files)
        Dated(seen, among) ==
          /\ seen.first.at = Min({f.mtime : f \in among})
          /\ seen.last.at = Max({f.mtime : f \in among})
          /\ {seen.first, seen.last} \subseteq {Stamp(f) : f \in among}
        Grades(among, k) ==
          UNION {{g.severity : g \in ToSet(Under(f.report, k))} : f \in among}
    IN /\ DOMAIN roll.assets = UNION {AssetKeys(f.report) : f \in ToSet(files)}
       /\ \A k \in DOMAIN roll.assets :
            LET among == {f \in ToSet(files) : k \in AssetKeys(f.report)}
            IN roll.assets[k].reports = Cardinality(among) /\ Dated(roll.assets[k].seen, among)
       /\ \A k \in DOMAIN roll.findings :
            LET among == {f \in ToSet(files) : k \in FindingKeys(f.report)}
                found == roll.findings[k]
            IN /\ found.occurrences = Cardinality(among) /\ Dated(found.seen, among)
               /\ found.severity = Min(Grades(among, k))
               /\ \E f \in among : f.name = found.text /\ f.mtime = found.seen.last.at
       /\ Tally([k \in DOMAIN roll.findings |-> roll.findings[k].occurrences]) = Tally(roll.severities)
       /\ \A p \in DOMAIN roll.protocols :
            roll.protocols[p].reports = Cardinality({f \in ToSet(files) : p \in DOMAIN f.report.traffic})
       /\ DOMAIN AttackCoverage(roll)
            = UNION {UNION {g.attacks : g \in ToSet(f.report.findings)} : f \in ToSet(files)}
       /\ \A f \in ToSet(files) : f.report.start > 0 =>
            Window(roll)[1] <= f.report.start /\ f.report.start <= Window(roll)[2]

(* What the history of an asset calls new it first saw in the last report, *)
(* what it calls new was added since the report before, what was removed   *)
(* since then is lost; and it has as many reports as the overview of the   *)
(* same files has for the host (compute_asset_baseline).                   *)
NoveltyIsCoherent ==
  Shown /\ page = "history" =>
    \A key \in Addresses :
      LET b == ComputeAssetBaseline(files, key)
          roll == AggregateReports(files)
      IN /\ b.reports > 0 =>
              /\ \A x \in DOMAIN b.peers :
                   (x \in b.novelty.newPeers) = (b.peers[x].first = b.last.name)
              /\ \A x \in DOMAIN b.findings :
                   (x \in b.novelty.newFindings) = (b.findings[x].first = b.last.name)
              /\ \A x \in DOMAIN b.protocols :
                   b.protocols[x].isNew = (x \in b.novelty.newProtocols)
              /\ b.novelty.newPeers \subseteq b.delta.peers.added
              /\ b.novelty.newFindings \subseteq b.delta.findings.added
              /\ b.delta.protocols.removed \subseteq b.novelty.lostProtocols
              /\ b.delta.peers.removed \subseteq b.novelty.lostPeers
         /\ key \in MACs =>
              b.reports = IF key \in DOMAIN roll.assets THEN roll.assets[key].reports ELSE 0

(* The places of the first n indicators in a report. *)
Needed(r, n) ==
  LET needed[i \in 0 .. Len(list)] ==
        IF i = 0 THEN 0 ELSE needed[i - 1] + Len(Places(r, list[i]))
  IN needed[n]

(* An indicator that is in a report is among the hits, with all its        *)
(* places, unless those of the entries before it filled the report's share *)
(* or the answer says that it was cut (scan_ioc_list_against_reports).     *)
HuntIsComplete ==
  Shown /\ page = "hunt" =>
    LET result == ScanList(files, list)
        Shows(node, e) ==
          \/ e.kind = "ip" /\ node.ip = e.value
          \/ e.kind = "mac" /\ node.mac = e.value
          \/ e.kind = "oui" /\ node.mac \in MACs /\ OuiOf[node.mac] = e.value
        Hosts(r, e) == {i \in DOMAIN r.nodes : Shows(r.nodes[i], e)}
    IN /\ \A f \in ToSet(files), n \in DOMAIN list :
            /\ Hosts(f.report, list[n]) # {} /\ ~result.truncated
            /\ Needed(f.report, n) <= PlacesCap
            => \E h \in ToSet(result.hits) :
                 h.name = f.name /\ h.entry = list[n] /\ Len(h.matches) >= Cardinality(Hosts(f.report, list[n]))
       /\ Len(result.hits) <= HitsCap /\ TotalHits(result) <= PlacesCap * result.scanned
=============================================================================
