----------------------------- MODULE Enrichment -----------------------------
(***************************************************************************)
(* The files of one report while it is enriched (marlinspike/enrich.py):   *)
(* the report, rewritten through a temporary file, and the sidecars of the *)
(* plugins, written in place.  The engine enriches at the end of its       *)
(* chain, the web process runs the plugins again when the engine is done,  *)
(* and an operator may run the enrich command later on.  Meanwhile the     *)
(* report may be read, and deleted.                                        *)
(***************************************************************************)
EXTENDS ReportData

CONSTANTS
  Main,            \* the name of the report
  Specs,           \* the plugins, in order
  Enabled,         \* those that are switched on
  PluginFindings,  \* what the report adapts from those that find something
  MaxFaults        \* bounds failures, kills and deletions

ASSUME EnrichmentAssumption ==
  /\ Specs \in Seq(STRING) /\ {"report", "engine"} \cap ToSet(Specs) = {}
  /\ IsInjective(Specs)
  /\ Enabled \subseteq ToSet(Specs) /\ DOMAIN PluginFindings \subseteq ToSet(Specs)
  /\ \A p \in DOMAIN PluginFindings :
       /\ PluginFindings[p] \in Seq(FindingRecord)
       /\ \A i \in DOMAIN PluginFindings[p] : PluginFindings[p][i].source = p

VARIABLES
  base,    \* the report as Stage 4 leaves it
  dir,     \* the project's directory: files to contents
  job,     \* the process that enriches: who it is, where it stands, what it holds
  opened,  \* the sidecar that a viewer's plugin has open, or None
  doomed,  \* the files a deletion has still to remove
  faults

fileVars == <<base, dir, job, opened, doomed, faults>>

MainFile == <<Main, "report">>
SidecarPath(p) == <<Main, p>>

Torn == [torn |-> TRUE]
Present(file) == file \in DOMAIN dir
Whole(file) == Present(file) /\ dir[file] # Torn
Put(file, content) == [f \in DOMAIN dir \cup {file} |-> IF f = file THEN content ELSE dir[f]]

(* What a plugin makes of a report.  Only the ATT&CK plugin looks at the   *)
(* findings, those of other plugins among them.                            *)
Artifact(p, report) ==
  [plugin |-> p, findings |-> IF p \in DOMAIN PluginFindings THEN PluginFindings[p] ELSE <<>>,
   read |-> IF p = "mitre" THEN {f.category : f \in ToSet(report.findings)} ELSE {}]

KeepAll(findings) == findings
EngineOnly(findings) ==
  From({f.source : f \in ToSet(findings)} \ ToSet(Specs), findings)

(* The findings of plugins are taken anew from the artifacts, here in the  *)
(* order of the plugins, not in that in which they were merged.            *)
PluginsOf(ext) ==
  LET all[i \in 0 .. Len(Specs)] ==
        IF i = 0 THEN <<>>
        ELSE IF Specs[i] \in DOMAIN ext THEN all[i - 1] \o ext[Specs[i]].findings
        ELSE all[i - 1]
  IN all[Len(Specs)]
Merged(report, ext) ==
  [report EXCEPT !.ext = ext, !.findings = EngineOnly(@) \o PluginsOf(ext)]

NoExtensions(report) == <<>>
Extensions(report) == report.ext

(* A sidecar that is torn or missing leaves what the report had merged. *)
WithSidecars(ext, plugins) ==
  LET read == {p \in plugins : Whole(SidecarPath(p))}
  IN [p \in DOMAIN ext \cup read |-> IF p \in read THEN dir[SidecarPath(p)] ELSE ext[p]]

(* Two processes that write one sidecar may leave a mixture of both.       *)
Contended(p) ==
  \/ opened = p /\ job.step = "opened" /\ Specs[job.i] = p
  \/ Whole(SidecarPath(p))
Written(p, artifact) ==
  IF ~Present(SidecarPath(p)) THEN {dir}
  ELSE {Put(SidecarPath(p), c) : c \in {artifact} \cup (IF Contended(p) THEN {Torn} ELSE {})}

Idle == [who |-> "none", step |-> "end", i |-> 0, held |-> Blank, artifact |-> None,
         told |-> "no", ok |-> FALSE]

EndsWell == job' = [Idle EXCEPT !.who = job.who, !.ok = job.told = "no"]

(* The engine is in the middle of its last save. *)
EnrichmentInit ==
  /\ job = [Idle EXCEPT !.who = "engine", !.step = "saving"]
  /\ opened = None /\ doomed = <<>> /\ faults = 0

(* A report that the signal handler wrote meanwhile may come out mixed.    *)
Save ==
  /\ job.step = "saving"
  /\ dir' \in {Put(MainFile, c) : c \in {base} \cup (IF job.told = "no" THEN {} ELSE {Torn})}
  /\ job' = [job EXCEPT !.step = "plugin", !.i = 1]
  /\ UNCHANGED <<base, opened, doomed, faults>>

ToNextPlugin == job' = [job EXCEPT !.step = "plugin", !.i = @ + 1, !.artifact = None]

(* One plugin: a process that reads the report, then opens its sidecar,    *)
(* then writes it.  Without a report it is not even started.               *)
StartPlugin ==
  /\ job.step = "plugin" /\ job.i <= Len(Specs)
  /\ IF Specs[job.i] \in Enabled /\ Whole(MainFile)
     THEN job' = [job EXCEPT !.step = "computed", !.artifact = Artifact(Specs[job.i], dir[MainFile])]
     ELSE ToNextPlugin
  /\ UNCHANGED <<base, dir, opened, doomed, faults>>

OpenSidecar ==
  /\ job.step = "computed"
  /\ dir' = Put(SidecarPath(Specs[job.i]), Torn)
  /\ job' = [job EXCEPT !.step = "opened"]
  /\ UNCHANGED <<base, opened, doomed, faults>>

WriteSidecar ==
  /\ job.step = "opened"
  /\ dir' \in Written(Specs[job.i], job.artifact)
  /\ ToNextPlugin
  /\ UNCHANGED <<base, opened, doomed, faults>>

(* It fails, or takes too long: the next plugin gets its turn. *)
PluginFails ==
  /\ job.step \in {"computed", "opened"} /\ faults < MaxFaults
  /\ faults' = faults + 1
  /\ ToNextPlugin
  /\ UNCHANGED <<base, dir, opened, doomed>>

(* The engine goes on to its other outputs. *)
Enriched ==
  IF job.who = "engine" THEN job' = [job EXCEPT !.step = "emitting", !.held = Blank] ELSE EndsWell

(* The web process only runs the plugins; the others merge what they wrote *)
(* and put it in the place of the report.                                  *)
PluginsDone ==
  /\ job.step = "plugin" /\ job.i > Len(Specs)
  /\ IF job.who = "web" \/ ~Whole(MainFile) THEN Enriched
     ELSE job' = [job EXCEPT !.step = "merging", !.i = 1,
                    !.held = [dir[MainFile] EXCEPT !.ext = Extensions(dir[MainFile])]]
  /\ UNCHANGED <<base, dir, opened, doomed, faults>>

MergeSidecar ==
  /\ job.step = "merging" /\ job.i <= Len(Specs)
  /\ job' = [job EXCEPT !.i = @ + 1, !.held.ext = WithSidecars(@, {Specs[job.i]})]
  /\ UNCHANGED <<base, dir, opened, doomed, faults>>

TearReport ==
  /\ job.step = "merging" /\ job.i > Len(Specs)
  /\ job' = [job EXCEPT !.step = "replacing", !.held = Merged(@, job.held.ext)]
  /\ dir' = Put(MainFile, Torn)
  /\ UNCHANGED <<base, opened, doomed, faults>>

WriteTmp ==
  /\ job.step = "merging" /\ job.i > Len(Specs)
  /\ job' = [job EXCEPT !.step = "replacing", !.held = Merged(@, job.held.ext)]
  /\ UNCHANGED <<base, dir, opened, doomed, faults>>

ReplaceReport ==
  /\ job.step = "replacing"
  /\ dir' = Put(MainFile, job.held)
  /\ Enriched
  /\ UNCHANGED <<base, opened, doomed, faults>>

EngineEnds ==
  /\ job.step = "emitting"
  /\ EndsWell
  /\ UNCHANGED <<base, dir, opened, doomed, faults>>

(* A stop: between two steps of the chain the handler writes the report    *)
(* that the engine holds, as Stage 4 left it, over the file, and the chain *)
(* goes on.                                                                *)
Terminate ==
  /\ job.who = "engine" /\ job.step # "end" /\ job.told = "no" /\ faults < MaxFaults
  /\ faults' = faults + 1
  /\ dir' = Put(MainFile, Torn)
  /\ job' = [job EXCEPT !.told = "writing"]
  /\ UNCHANGED <<base, opened, doomed>>

ShutdownSaves ==
  /\ job.told = "writing"
  /\ dir' = Put(MainFile, base)
  /\ job' = [job EXCEPT !.told = "done"]
  /\ UNCHANGED <<base, opened, doomed, faults>>

(* A crash, an interrupt, the end of the patience of a stop. *)
Kill ==
  /\ job.step # "end" /\ (faults < MaxFaults \/ job.told # "no")
  /\ faults' = IF job.told = "no" THEN faults + 1 ELSE faults
  /\ job' = [Idle EXCEPT !.who = job.who]
  /\ UNCHANGED <<base, dir, opened, doomed>>

(* After an engine that was not killed the web process runs the plugins,   *)
(* and nobody enriches by hand before the run is over.                     *)
StartNext ==
  /\ job.step = "end"
  /\ \/ job.who = "engine" /\ job.ok
        /\ job' = [Idle EXCEPT !.who = "web", !.step = "plugin", !.i = 1]
     \/ job.who \in {"engine", "web"} /\ (job.who = "engine" => ~job.ok) /\ Present(MainFile)
        /\ job' = [Idle EXCEPT !.who = "cli", !.step = "plugin", !.i = 1]
  /\ UNCHANGED <<base, dir, opened, doomed, faults>>

(* The delete request knows three sidecars. *)
Delete ==
  /\ Present(MainFile) /\ doomed = <<>> /\ faults < MaxFaults
  /\ faults' = faults + 1
  /\ doomed' = <<MainFile, SidecarPath("mitre"), SidecarPath("arp"), SidecarPath("apt")>>
  /\ UNCHANGED <<base, dir, job, opened>>

Unlink ==
  /\ doomed # <<>>
  /\ dir' = [f \in DOMAIN dir \ {Head(doomed)} |-> dir[f]]
  /\ doomed' = Tail(doomed)
  /\ UNCHANGED <<base, job, opened, faults>>

Advance ==
  \/ Save \/ StartPlugin \/ OpenSidecar \/ WriteSidecar \/ PluginFails \/ PluginsDone
  \/ MergeSidecar \/ WriteTmp \/ ReplaceReport \/ EngineEnds

EnrichmentNext ==
  \/ job.told # "writing" /\ Advance
  \/ Terminate \/ ShutdownSaves \/ Kill \/ StartNext \/ Delete \/ Unlink

-----------------------------------------------------------------------------
(* Properties. *)

(* Once the engine has saved, no step but that of its signal handler tears *)
(* the report or takes away what was merged into it (write_enriched).      *)
ReportOnlyGains ==
  [][Whole(MainFile) /\ MainFile \in DOMAIN dir' /\ job.step # "saving" /\ job'.told # "writing" =>
       /\ dir'[MainFile] # Torn
       /\ DOMAIN dir[MainFile].ext \subseteq DOMAIN dir'[MainFile].ext]_dir
=============================================================================
