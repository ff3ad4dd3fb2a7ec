# MarlinSpike verification

TLA+ models of MarlinSpike, a passive OT network scanner: a Flask application that
starts scan engines as child processes and survives its own crashes, live capture
through a privileged daemon, a pipeline that turns packets into a topology and a list of
findings, plugins that enrich the report, and the pages that read it. TLC checks the
models on small instances; TLAPS proves the main results of each for every value of
the constants.

File references are relative to `src/`. `PROJECT.json` maps each definition to the
lines it models and lists runs, mutants, findings, hazards and theorems.

## 1. Inventory

| component | state it keeps | operations | hard behaviour |
|---|---|---|---|
| Scan lifecycle (`marlinspike/app.py`) | `_run_registry` (memory), row of `scan_history`, report file | `api_scan_start`, reader thread, `_finalize_run`, `api_run_stop`, `api_runs_list`, status | four steps of a start outside the lock; stop against the end of the engine; plugins between verdict and row; crash between any two steps |
| Run store (`run_store.py`, `models.py`) | `scan_history` | `record_start`, `update_pid`, `record_finish`, `get_active_for_recovery` | unconditional status writes; swallowed failures |
| Recovery (`recovery.py`) | watcher threads | `reap_orphan_runs` on boot, `_watch_loop` | a list loaded once and then stale; reused pids; a report that parses before it is finished |
| Engine process (`engine.py`) | report file, exit code | `run_chain`, SIGTERM handler, `_save_intermediate` | in-place saves, a stdout pipe whose reader is gone |
| Engine Stages 2 to 4 (`engine.py`) | conversations, topology, findings | `OTProtocolDissector`, the Bronze adapter, `TopologyBuilder`, `RiskSurface` | packets in any order, cut into pieces, by one of two dissectors; five passes over one graph |
| Chunked scans (`app.py:4208`, `engine.py`) | chunk directory, one child at a time | split, dissect per chunk, merge, final chain | no process between two children; one row for many pids |
| Enrichment and plugins (`enrich.py`, `plugins/`) | sidecars, the report | `run_plugins`, `merge_plugin_extensions`, `write_enriched`; ARP, APT, ATT&CK, CISA | three processes enrich one report, while it is read, stopped and deleted |
| Live capture, web side (`capture/api.py`, `sessions.py`, `client.py`) | `_iface_locks`, `_hubs` (memory), `capture_sessions` | `start_session`, `stop_session`, `StatsHub` with its subscribers | handlers suspended in a call; uncaught timeouts; memory lost on restart; a condition held while a browser reads |
| capd (`marlinspike-capd/capd`) | `_sessions`, one supervisor per session | start, stop, stats stream | stop in an executor thread beside the polling coroutine; stop before start; death with its dumpcaps |
| Rotation consumer (`capture/consumer.py`) | none | `enqueue_scan` | one engine per file, without limit |
| Projects, members, annotations, uploads, users (`app.py`, `models.py`) | rows with foreign keys, directories of captures and reports | create, rename, share, delete, upload, migrate at boot | check, file system and commit are three steps; files deleted before the database agrees |
| Reports and project pages (`app.py`, `aggregate.py`, `baselines.py`, `iocs.py`) | none of their own | viewer, overview, asset history, indicator hunt | each file is read at another moment than the list was made |
| Accounts, CSRF, audit, capture policy, emitters, translations, setup | rows or none | checks and conversions of one request | none that interleaves |

Where they meet:

* Web process and engine share the row, the report file and the pid. The web process
  starts the engine with a pipe on its stdout; the reader thread drains the pipe, decides,
  runs the plugins and writes the row. When the web process dies, registry, reader and
  pipe die with it; on the next boot the reaper judges what is left from row, pid and
  file, and hands live engines to a watcher thread. A chunked scan has one row and a
  sequence of children.
* Live capture has the same shape: a durable row, locks and hubs in memory, a process
  elsewhere, calls over a unix socket that can time out or be cut.
* Engine, web process and operator write the same report and sidecars; the viewer reads
  them and writes one itself; deletion knows some of them.
* Handlers for projects and uploads meet in the directory tree and in foreign keys.

What makes each correct:

* a run has one life in `scan_history`; the verdict in the row fits the report on disk;
  a stopped run is "stopped"; no engine runs untracked; every run is settled and gives
  its slot back; of reader, reaper and watcher only one may settle a run;
* a part of a capture never passes for the whole; chunks, ranges and the one pass give
  the same conversations;
* no packet is lost or counted twice between capture and topology; what a host exposes is
  among the findings; what plugins report is what the packets show;
* a capture shown as stopped or failed does not capture; two captures do not share an
  interface; files are scanned when closed, and once; a stop takes effect; a browser
  misses no frame and is released at the end;
* rows never dangle; deleted projects leave no captures; a user keeps a Default project;
* a report loses no finding and doubles none, whoever enriches it when; project pages are
  exact for the files they read.

## 2. Modules

| module | content |
|---|---|
| `RunLifecycle` | abstract: a row is created once as running and settled once |
| `ScanRun` | the single-pass scan: request threads, reader, reaper, watchers, engine, pids, crashes |
| `ChunkedScan` | the chunked scan: supervisor thread, children, stop, reaper and watcher |
| `CaptureSession` | start and stop requests, capd, dumpcap's ring, the stats stream, the hub |
| `ScanRunProofs`, `ChunkedScanProofs`, `CaptureSessionProofs`, `StatsHubProofs`, `WorkspaceProofs`, `ProjectViewsProofs` | proofs about the module each is named after |
| `DissectionProofs`, `EngineProofs` | lemmas on folds and sums and the proofs about Stage 2; Stage 3 and the chain |
| `StatsHub` | the hub thread and the browsers that watch |
| `Workspace` | projects, members, annotations, uploads, users, migration |
| `Traffic` | packets, conversations and address classes that the stages share |
| `Dissection` | Stage 2, in pieces, by two dissectors, and the merge of chunk reports |
| `TopologyBuilder` | Stage 3, one action per method of `build()` |
| `RiskSurface` | Stage 4 |
| `Plugins`, `ArpPlugin`, `AptPlugin`, `MitrePlugin`, `CisaPlugin` | the rules of the plugins and the adapter |
| `EngineChain` | composes the stages and the plugins: from packets to findings |
| `ReportData` | finished reports as pages read them |
| `Enrichment` | the files of one report while three processes enrich it |
| `Overview`, `Baseline`, `IocScan` | pure: roll-up, asset history, hunt |
| `ProjectViews` | composes enrichment with the viewer and the three pages |
| `MC_*` | instances and symmetry |

`ScanRun` and `ChunkedScan` both implement `RunLifecycle`, through
`INSTANCE RunLifecycle WITH`.

### ScanRun

One variable per fact that a thread reads: registry (`reg`, `stopReq`, `reader`), row
(`rowStatus`, `rowPid`, `recovery`, `due`), engine (`est`, `elvl`, `sig`, `rcOk`, `pid`,
`piped`), report (`file`), worker (`web`, `todo`, `late`, `looking`, `polling`, `watchEnd`).
`abandoned` is auxiliary: the runs that some reaper has given up by their deadline.

* `Admit`, `Spawn`, `Register`, `RecordStart` are the four steps of `api_scan_start`;
  only the admission check holds `_runs_lock`. `Reject`, `SpawnFails` and
  `RecordStartFails` are its early returns and errors.
* `EngineReady`, `EngineSaveOpen`, `EngineSaveClose`, `EngineSaveFails` are a stage of
  `run_chain`; the report is truncated and then rewritten in place. `EngineTerm` is the
  SIGTERM handler, `EngineBrokenPipe` a print after the reader is gone, `EngineDies` any
  other end.
* `ReaderEof`, `ReaderDecide`, `ReaderPlugins`, `ReaderPersist` are the reader thread. It
  reads `stop_requested` once, before the plugins.
* `Stop` sets the flag and sends SIGTERM in one step; `StopKill` is the `kill()` after
  eight seconds. `ListRuns` evicts.
* `Boot` loads the list, `ReadClock` reads the time once for all of it: `late` has the rows
  whose deadline (`Expire`) had passed then. `ReapAbandoned`, `ReapReattach`, `ReapDead` and
  `ReapReport` judge one row each by that time, however old it is by then; the last two are
  separate because the engine is looked at before its report. `WatchPoll` and `WatchFinish` are the watcher, which polls the bare pid.
* `Crash` kills a web process, `HostRestart` everything, and pids are reused by
  `ForeignStart` and by later engines. A zombie counts as alive for `kill(pid, 0)` until
  its parent collects it.

Abstractions: a stage is a number, a report is missing, truncated or parses, plugins run
or raise.

### ChunkedScan

`Start` writes the row without a pid. `Spawn`, `Attach`, `Track`, `Drain` are
`_run_child` for editcap (job 0), each chunk and the final child; `Judge`, `Head`, `Merge`
and `Gate` are the places where `_chunked_reader` looks at the return code, the chunk
files, the artifact and the stop flag; `Decide`, `Plugins`, `Persist` are
`_finalize_run`. `Stop` waits for the child it found, not for a later one. `Boot` and `Reap`
are the reaper, which looks at the deadline (`due`, set by `Expire`) before it looks at the
pid; `WatchEnds` is the watcher. Children are
`SplitEnds`, `ChunkSaves`, `ChunkEnds`, `FinalOpens`, `FinalSaves`, `FinalEnds`, with
`ChildTerm`, `ChildBrokenPipe` and `ChildFails` (which may also hang). Pids are not
reused here; `ScanRun` has that.

### CaptureSession and StatsHub

* `StartCheck` (cap), `StartLock` (`acquire_interface`), `StartAsk` (row committed, call
  sent), `StartCommit`, `StartHub`, or `StartFail` and `StartRelease`; `StartRaises` is a
  timeout or reset, which no handler catches. `StopCheck`, `StopMark`, `StopAsk`, then
  `StopCommit` or `StopFail`, `StopTearDown`; `StopRaises` as above.
* `CapdStart`; `CapdStopFind`, `CapdStopKill`, `CapdStopSnapshot`, `CapdStopReply` are
  `_stop_session` and `CaptureSupervisor.stop`, `CapdStopRaises` its `AttributeError` when
  two stops share a supervisor. `CapdPoll` is a turn of the stats loop and `Snapshot` the
  detection of closed files. `HubConnect`, `HubFrame`, `HubEof` are `StatsHub._run`.
* External: dumpcap (`Rotate`, `DumpExits`, `OnDisk`), `WebCrash`, `CapdCrash`,
  `CapdRestart`. capd's death takes dumpcap along, as its systemd unit (default
  `KillMode`) and its container do.
* `StatsHub` refines one hub: a frame goes into the replay (`HubKeeps`), the list of
  subscribers is copied (`HubLists`), each queue is filled (`HubCasts`) under the
  subscriber's condition, which a generator holds while it writes (`Write`, `Written`).
  `Shutdown` comes from the stop request; `Subscribe`, `Wake`, `Keepalive`, `TabClosed`
  and `Leave` are browsers, which may come late.

Abstractions: at most one stats frame is under way in `CaptureSession`; files are numbers
without the name wrap at 100000; the policy gates before the cap are pure.

### Workspace

A request is `Begin` (access checks and duplicates, read from the database), then what it
does to the file system (`ClearsFiles`, `Streams`, `Uploads`), then its commit, one action
per handler (`Creates`, `Renames`, `Deletes`, `SetsMember`, `Annotates`, `Erases`,
`Unlinks`, `RecordsScan`, `DeletesUser`, `EnsuresDefault`); `Fails` is the rollback that a
constraint forces (`Refused` lists PostgreSQL's foreign keys and unique constraints).
`Boot`, `Migrate`, `MigrationCommits`, `MigrationFails` are the start-up migration, and
`Crash` ends every request.

### Dissection, TopologyBuilder, RiskSurface, plugins, EngineChain

* `Dissection` walks a capture packet by packet: `TsharkPacket`, `PieceEnd`,
  `FinishFile`/`FinishChunk` and `MergeReport` for a capture read whole, in frame ranges
  by one engine or in chunk files by one engine each; `Choose`, `UsePython`, `UseBronze`,
  `FallBack` select the dissector, `TsharkDies` and `DpiFails` are its failures. Keys are
  the code's: tshark's are MAC pairs with ports and protocol, collapsed above
  `--collapse-threshold`; Bronze events and merged chunks have keys of their own. tshark names
  no IPv6 host (`Named`).
* `TopologyBuilder`: `BuildGraph`, `MergeL2Nodes`, `InferPurdueLevels`,
  `FingerprintVendors`, `AssignRoles`, `RankNodes`, in the order of `build()`. The merge takes
  every key with a colon, IPv6 addresses as well as MACs (`MergeNode`).
* `RiskSurface`: the findings and the target ranking, `ScoreInChain` on chain data,
  `ScoreAlone` on the fields that the separate command passes.
* The plugin modules translate the rules, thresholds and rule packs; `Plugins` has the
  adapter that turns a raw finding into a finding of the report.
* `EngineChain` is the composition. The marlinspike-dpi executable and tshark are external
  and modelled from what the adapters read.

### Enrichment and ProjectViews

* `Enrichment`: `dir` maps files to their contents, `Torn` among them. `Save` is the last
  save of the engine; `StartPlugin`, `OpenSidecar`, `WriteSidecar` one plugin;
  `MergeSidecar`, `WriteTmp`, `ReplaceReport` are `write_enriched`; `StartNext` hands over
  from engine to web process to an operator's enrich command; `Terminate` and
  `ShutdownSaves` are the engine's SIGTERM handler in the middle of it; `Kill`,
  `PluginFails`, `Delete` and `Unlink` what may come between. A plugin ends with the
  process that started it.
* `ProjectViews`: the viewer reads report and sidecars one by one and may make an ATT&CK
  sidecar; the other pages list the directory (`ListReports`) and load file by file
  (`LoadReport`). `AggregateReports`, `ComputeAssetBaseline` and `ScanList` are then
  applied to what was read. Merging one file's sidecars while loading a project page is
  one step; the viewer shows the finer grain.

## 3. Runs

| run | instance | what it shows |
|---|---|---|
| `scan_faults` | 2 web processes in db mode, 1 run, 2 pids, 2 stages, 2 crashes, 2 failed writes, 1 engine fault, 1 foreign process | `TypeOK`, `NormalCompletionIsComplete`, `ReaperVerdictsHold`, `LiveEngineIsTracked` |
| `scan_live` | 2 runs, 1 pid, 1 slot, 1 stage, 1 crash, `FairSpec` | `StopWins`, `SoleFinisher`, `RowsFollowLifecycle`, `VisibleEndIsFinal`, `RunsSettle`, `SlotIsFreed` |
| `chunked_scan` | 3 chunks, 2 faults, 2 failed writes, 2 crashes, `FairSpec` | `TypeOK`, `OneChildAfterStop`, `ReportHasEveryChunk`, `RowFollowsLifecycle`, `StopEndsRun` |
| `capture_control` | 2 captures, 1 stop each, overlapping interfaces, capd crash, timeout | `TypeOK`, `SettledIsSilent`, `InterfaceExclusive` |
| `capture_rotation` | 1 capture, 2 stops, 3 files on a ring of 2, both crashes, timeout, `FairSpec` | `NeverScansOpenFile`, `ScannedOnce`, `StopTakesEffect` |
| `stats_hub` | 2 browsers, 3 frames, replay and queue of 2, `FairSpec` | `NoFrameMissed`, `FinalFrameEndsStreams`, no deadlock |
| `workspace` | 2 users who are admins, 2 handler threads, 2 requests, 2 boots | `DefaultStays`, `DeletedLeavesNoFile`, `NothingDangles` |
| `engine` | all captures of up to 2 packets of 14 kinds, of 3 packets of 9 kinds, of 8 (ARP), of 5, of 4 (IPv6) and of 3 (gateway), of 4 ARP packets of 3 kinds; 6 command lines; 1 tool fault | `TrafficIsKept`, `ChunksMatchOnePass`, `ScansCollapse`, `DirectionsMeet`, `FieldDevicesListen`, `ExposureIsReported`, `ArpIsExact`, `FanOutIsFound` |
| `reports` | 1 report in the works, two sets of older ones, 4 plugins, 2 lists of indicators, 1 fault | `FindingsOnce`, `EnrichmentIsKept`, `OverviewIsExact`, `NoveltyIsCoherent`, `HuntIsComplete`, `ReportOnlyGains` |
| `scan_partial`, `scan_overlap`, `capture_exclusion` | one property each | a documented claim that the code refutes, see below |

Why the bounds are enough to be interesting: two crashes are a crash during the recovery
from a crash; two stages are the least with an early save that parses; two pids let one be
reused while the other is live, and one pid forces reuse; two runs are needed to share a
slot or a pid, and no property relates three. Three chunks are a first, a middle and a
last one. Two captures on two interfaces, one of them `any`, always overlap. Three files
on a ring of two include one deleted before the hub looks, three frames with a replay and
queues of two overflow both. In `workspace` two requests meet in
every interleaving of check, file system and commit, around two migrations, on a fresh
database or one that has a shared project; with one kind of annotation and no second start
(`MaxRequests = 3`, `MaxBoots = 1`, `Kinds = {"tag"}`) three requests pass as well. In `engine` three packets contain every order of a
request, its answer and a third party, and pieces of one and two packets put every cut
between them; thresholds are set so low (collapse after one or two ports, two targets a
fan-out, a list of three ARP packets) that three or four packets cross them. Packets of each of
the smaller sets meet only each other: they make one conversation stand for two hosts behind a
gateway, an announced IPv6 host, a fan-out, a sweep. In `reports`
the caps are four places and four hits, a history takes two reports of three, and reports
differ in time, order, severity and addresses of the same host.

Symmetry is used in safety runs only. Deadlock is checked except in `workspace`, `engine`
and `reports`, which end: requests are bounded, a capture is finite, a page is shown. The
constraint of `reports` stops exploring once the page is shown. Every property of every
passing run has a mutant of the code that TLC finds to violate it.

Properties with a premise. `InterfaceExclusive` stops at a restart of the web process,
which forgets its locks. `SettledIsSilent`, `InterfaceExclusive` and `StopTakesEffect`
except sessions whose stop reached capd before their start (finding 3).
`VisibleEndIsFinal` excludes crashes and failed writes, after which row and registry may
rightly differ. `LiveEngineIsTracked` starts when the row exists; it and the reaper's verdicts
in `ReaperVerdictsHold` except a run that some reaper abandoned by its deadline, because that
clears the pid of an engine that may live (`ReapedFailedIsDead` below), while the verdict of a
watcher has no exception. `TrafficIsKept` lets the end of an edge be missing among the nodes
when it is an IPv6 address that a neighbour announced: the code deletes that host. `FinalFrameEndsStreams`
is about hubs that got their final frame. `DeletedLeavesNoFile` excepts projects whose
deletion raced an upload, was made by a member, or met a rolled-back migration: the code
has nothing against these. `ExposureIsReported` is about the chain without collapse. It holds of
every packet when marlinspike-dpi reads the file whole; with tshark, or with merged chunk reports,
only of packets whose conversations have one IP a side and no IPv6, since a key without addresses
keeps one name for all hosts behind a gateway. `FanOutIsFound` is without collapse; `ArpIsExact` claims completeness only below the cap and
without merged chunks, and of sweeps only for the built-in dissector; nobody claims or is asked
for 0.0.0.0. `ReportOnlyGains`
excepts the step of the signal handler. `HuntIsComplete` is about the hosts
that show an address or a vendor, and allows what the two caps cut.

### Fairness

`FairSpec` of `ScanRun` and `ChunkedScan`: a start request, an engine, a reader or
supervisor, a stopper, a booting process and a watcher take their next step. They are
threads and processes of an operating system that schedules them, and none of them waits
for a user; plugins are subprocesses with a timeout. A child that hangs does not move.
Users, crashes and faults owe nothing. `FairSpec` of `CaptureSession`: a stop request that
has marked its row makes its call, and capd carries a stop out (SIGINT, wait, SIGKILL
bounds it); not even that capd restarts is assumed. `FairSpec` of `StatsHub`: hub and stop
request are scheduled, a browser takes what is written to it or goes away, and a generator
that waits for a lock other threads keep releasing gets it in the end (strong fairness of
`Leave`). Capd, users and stop requests owe nothing.

### Findings

Each is a run whose property states what the documentation says and which TLC refutes.

1. `scan_partial`: the reaper completes a run from the report of an early stage. The
   report is rewritten after each stage and parses each time.
2. `scan_overlap`: two overlapping start requests pass the admission check; the limit is
   exceeded in one process and without a crash.
3. `capture_exclusion`: a pending session can be stopped; if the stop is read first, the
   interface is freed while the start goes on, and a second capture joins it. capd does
   not compare interfaces, although the documentation calls it the authority.

Stated in the modules as documented, and refuted by TLC when added to the cfg of the
module's run, but not kept as runs:

| property | what the code does | what is written |
|---|---|---|
| `ClosedFilesAreScanned` (CaptureSession) | the file active at the stop is closed and only counted (`capture/api.py:505`) | `docs/live-capture.md:237` |
| `ReapedFailedIsDead` (ScanRun) | a second reaper, whose clock is older, judges a run that another has abandoned and whose pid it has cleared (`recovery.py:221`, `:234`) | `docs/run-store-and-recovery.md:43-44` |
| `ReapedRunIsDead` (ChunkedScan) | a child between `Popen` and `update_pid` is missed by the reaper (`app.py:4229`) | `docs/run-store-and-recovery.md:128-129` |
| `AnAdminRemains` (Workspace) | two admins delete each other; the route refuses only to delete the caller (`app.py:5607`) | `docs/admin-and-audit.md:93-95` |
| `DeletionIsWhole` (Workspace) | tags, notes and lists refuse the deletion after the files are gone (`app.py:3179`) | `docs/projects-and-engagements.md:311` |
| `StagesFindTheSame` (EngineChain) | the risk command passes no conversations, so it misses findings | same stage, two commands |
| `ExternalIsPublic` (EngineChain) | multicast counts as public (`engine.py:4316`) | `docs/releases.md:20` |
| `HostsAreKept` (Dissection) | chunk files with marlinspike-dpi lose hosts behind one gateway: the merge key has no addresses | follows from the merge |
| `OrphanRunsToCompletion` (ScanRun) | an engine that outlives its web process dies at its next print (`app.py:4117`) | `README.md:56`, `docs/run-store-and-recovery.md:5` |

Also seen while modelling:

* Scans and capture: `_finalize_scan_history` leaves `engine_pid`, which `models.py` says
  is cleared on terminal; the stop of a re-attached run answers 404; a stop during the
  plugins answers ok and the run still ends as completed; a stop that times out leaves a
  session "stopping", which no later request accepts; a capture that ends by itself keeps
  its row "running" and its interface locked.
* Engine: tshark names one arbitrary IP per conversation of two MACs, so an OT host that talks
  to a gateway and, by the same protocol and port, to the internet behind it may be reported as
  not exposed; `_merge_l2_nodes` takes IPv6 addresses for MACs (`engine.py:3152`), and one that a
  neighbour announced merges into itself and is deleted (3202); `frame.time` is
  compared as text; a host collapses at the threshold, the help says above it
  (`engine.py:5807`); a failure of tshark or editcap leaves a part without a mark; the
  chain from merged conversations has no malware stage, no ARP list and no Layer 2
  anomalies; Modbus responses count as writes (4184-4207); a gateway's announcement joins
  the node of an external host behind it; the level of a broadcast node is reclassified
  later and appears in `CROSS_PURDUE`; a subnet map "overrides" levels but network vendors
  still set theirs; nodes without IP are one node in `RiskSurface` (4012).
* Plugins: the APT plugin exempts polling roles by exact upper-case match of names the
  engine does not use, so a polling HMI is reported; server responses make a file server
  look like a fan-out source; the storm detector cannot read the engine's times; the
  adapter ignores "mac", so some ARP findings name no node; CISA searches for the vendor
  "Unknown", and the last of several alias groups wins.
* Enrichment: a SIGTERM after Stage 4 (`engine.py:161-178`, `_active_report` is cleared
  only at 5422) writes the raw report over the enriched one; `-cisa.json` sidecars pass
  for reports (`app.py:1391-1398`) and survive deletion (5143-5160), as do emitted files;
  a deletion during `write_enriched` is undone by its `os.replace`; two writers may leave
  a corrupt ATT&CK sidecar, which is then never made anew; a second ATT&CK run sees the
  findings of other plugins.
* Pages: `api_report_diff` (`app.py:4635`) reads fields the engine does not write, so a
  diff is empty; a hunt's cap of 50 per report cuts without the `truncated` flag
  (`docs/ioc-threat-hunting.md:189-201`), its total cap counts entries; `in_reports` and
  `reports_with_event` count findings and events; a baseline matches by MAC or by IP only
  where `docs/asset-baselines.md:208-211` says merged; a history is cut by file time,
  which enrichment changes.
* Workspace: an editor's upload goes into his own directory while listings read the
  owner's; temporary files are listed; a rolled-back migration has already moved files;
  users with capture sessions, annotations or invitations cannot be deleted.

## 4. Proofs

Checked by TLAPS for every value of the constants. Assumed: `ScanRunAssumption` (the
sentinels are not members, the bounds are naturals, at least one stage),
`ChunkedAssumption` (at least one chunk, the bounds are naturals), `CaptureAssumption`
(`any` is an interface, a ring of at least one file, naturals), `HubAssumption` (`Nobody` is
no browser, the replay is no longer than a queue), `WorkspaceAssumption`
(the sentinels are no members, at least one project id) and `EnrichmentAssumption` (no plugin
is called `report` or `engine`, no two have the same name, and each stamps its own name on
its findings) and `ProjectsAreReports` (as Stage 4 leaves a report it has only the engine's
findings and nothing merged into it), `FilesAreDated`, `HuntsAreLists` and `CapsAreBounds`
(file times, lists of indicators and caps have their types); for the engine and for the reports
`AddressesDiffer` (IPs and MACs are disjoint), for the engine `CommandLinesAreWellFormed`,
`CapturesAreTraffic`, `DissectionBounds` and `TopologyBounds` (settings, packets and bounds have
their types).
`SoleFinisherHolds`, `RefinesLifecycle` and `VisibleEndIsFinalHolds` also assume `OneWorker`,
one web process, which is the default deployment (`python -m marlinspike`).

`ScanRunProofs`:

* `TypeCorrect`: `Spec => []TypeOK`.
* `OutcomesHold`: `Spec => [](NormalCompletionIsComplete /\ StopWins)`, for any number
  of workers, runs and stages. Neither is inductive: that "completed" means all stages
  runs through a chain of four actors (`StopWinsHolds` is the
  second half). `OutcomeInv` states each link: exit code 0 without a signal comes only
  after the last save; a signal implies the stop flag; the reader moves on only when the
  engine has ended; its decision follows from flag and code; the row repeats the
  decision. `OutcomeStep` proves the chain action by action.
* `SoleFinisherHolds`: reader, reaper and watcher never hold the same run. `HandsInv` says
  what a worker may hold in each phase (a reaper's list only while booting, watchers only
  over running rows, readers only over runs it started since) and how row, registry and
  reader agree; proved in `HandsStep` and `RowStep`.
* `RefinesLifecycle`: the rows implement `RunLifecycle`, across any number of crashes and
  failed writes. Every action maps to `Begin`, `Settle` or a stutter (`LifecycleStep`);
  `HandsInv` supplies that a row being settled is still running.

* `VerdictsAreTrue` and `LiveEngineIsTrackedHolds`: any number of workers may reap, watch
  and read the same run at once, with clocks of any age, and none of them reports the end of a
  live engine, unless a reaper has abandoned the run by its deadline. `VerdictInv`: a row only
  leaves "running" when its engine has ended or a reaper abandoned it, and a worker that has
  got past its look at a pid (`WitnessAt`) has looked at a dead one, or at none because the run
  was abandoned; a dead engine stays dead and an abandoned run abandoned, so the witness holds
  however old it is when the row is written.
* `VisibleEndIsFinalHolds`: `CalmInv` says how row, registry and reader agree until the
  first crash or failed write (`CountersGrow`: there is no way back to before it).

`ChunkedScanProofs`:

* `ChunkedTypeCorrect`: `Spec => []TypeOK`, in three parts for threads, work and row.
* `ReportHasEveryChunkHolds`: a report, and the status "completed", mean that all chunks
  of the split were dissected and merged. Not inductive: `ChunksInOrder` says that
  whoever is at chunk k has the reports of all chunks before it and that nothing moves
  between two children, `FinalIsLast` that report, verdict and plugins come only with the
  last child. Together they are `WorkInv`.
* `OneChildAfterStopHolds`: `StopInv` adds that after the one child too many the flag
  stays up and the supervisor is past the places that start another.
* `ChunkedRefinesLifecycle`: supervisor, reaper and watcher settle the row once.
  `CustodyInv`: before its last write the supervisor works on a running row, a booting
  web process has no supervisor, and a watcher only exists over a running row.

`CaptureSessionProofs`, for any number of sessions, interfaces, stop requests, files and
faults. The invariant has three parts, each preserved by every action:

* `CallInv` (`StartInv`, `StopInv`, `RowInv`): what the two calls to capd mean. A session
  is `Silent` once its start call was answered or lost and no dumpcap runs for it, and it
  stays so. A stop answered with "killed" or later means dumpcap is dead; an error means
  `Silent`, unless the stop overtook the start. The row only repeats that:
  `SettledIsSilentHolds`.
* `LockInv`: until the first restart of the web process, whoever captures or has asked to
  holds the lock of its interface, and `any` is locked alone. Only a request whose session
  is `Silent` lets go of the lock, hence `InterfaceExclusiveHolds`.
* `FileInv`: a file is emitted once, when it is no longer the newest or dumpcap is dead, and
  scanned only from the frame it was emitted in: `NeverScansOpenFileHolds` and
  `ScannedOnceHolds`. `ActiveIsNewest` and `ClosedAreFresh` are what `_snapshot` contributes.
* `CaptureTypeCorrect`: `Spec => []TypeOK`.

`WorkspaceProofs`, for any number of users, projects, requests, starts and crashes. A thread
carries what its check has read into a state that others have changed, so the invariant
speaks of the threads too (`AskedIs`, `HandlerIs`: what a check lets through):

* `NothingDanglesHolds`: the foreign keys alone do not say it of the row a thread is about to
  write, nor of a member who becomes the creator. `References` adds that a thread only knows
  ids already handed out, that a new member is not the creator, and that the state a
  migration would go back to has no dangling row either (`Custody`: it only added to it).
* `DefaultStaysHolds`: at most one project of each name (`OneEach`, across any race of
  creations and renames), and no thread has a visited user's Default project in its hands to
  rename or delete (`DefaultIsSafe`).
* `DeletedLeavesNoFileHolds`: a deletion that has cleared a directory may be overtaken by an
  upload; `ClearedStaysClear` and `UploadsHaveProject` say that the project is torn then.
* `WorkspaceTypeCorrect`: `Spec => []WorkspaceTypes`.

`StatsHubProofs`, for any number of browsers, any lengths of queues and any number of frames:

* `ShownFramesAreConsecutive`: `Spec => NoFrameMissed`. What is still on its way to a browser
  (the frame shown last, the one being written, its queue) is a run without gaps, or the
  browser's queue has overflowed (`ShownInOrder`). That is not inductive without knowing where
  the run ends: where the hub stands, or one frame behind while the hub's loop has still to
  come to this browser (`UpToDate`), and that a browser which joins takes the replay over
  under the lock. Together `IInv`, `BrowserStreamInvariant`.

`ProjectViewsProofs`, for any plugins, faults, stops and deletions:

* `ReportsOnlyGain`: `Spec => ReportOnlyGains`. `ReportInv` follows the read-merge-replace of a
  job: what it holds contains what Stage 4 left and what the report on disk contains. The only
  other writer, the signal handler of the engine itself, writes what Stage 4 left; a sidecar
  never has the report's name (`SidecarsAreNoReport`).
* `ViewersKeepEnrichment`: `ViewInv` says that until the page is shown a viewer holds every
  artifact that it found merged.
* `FindingsAreOnce`: `Spec => []FindingsOnce`, from `MergeInvariant`. A merge strips the findings
  of plugins and takes those of the artifacts anew, so a report is well merged after it
  whatever was merged before (`MergedWell`); and it may be merged into at all (`Fit`) when its
  artifacts are artifacts of plugins and the engine's findings in it are those of Stage 4.
  `MergeInv` says so of the report on disk (`Stored`) and of what a job holds (`Carried`),
  `PageInv` of what a page has read; that needs that a sidecar is never taken for a report, nor a
  mixture of two writers for an artifact. The laws behind `MergedWell` are those of `From`, which
  takes the findings of some sources out of a list: of two lists one after the other
  (`FromConcat`), of what was taken before (`FromFrom`), of all or none (`FromAll`,
  `FromNone`). The order in which the findings of different plugins follow one another is not
  modelled.
* The three pages of a project, for any number of files, hosts, findings, dates and indicators
  and in whatever order the directory lists the files. What a page is given is `Listed`, a part
  of `PageInv`: documents, of which no two that could be read have the same name. Each page is
  a pass over that list, and each proof says what its result is after the first k files and
  that one more file keeps it so.
  * `NoveltyHolds`: `Spec => []NoveltyIsCoherent`. `AmongPlaces`: what is picked of a list keeps
    its order. The reports that show an asset have names of their own (`Showing`), hence "first
    seen in the last report" and "in no report before it" are the same.
  * `OverviewHolds`: `Spec => []OverviewIsExact`. `RollIs`: each count is the number of files with
    that key (`At`), first and last seen are dates of such files that no other undercuts
    (`Seen`), a severity is the worst among them. That occurrences and severities have one total
    is counting the same pairs of file and finding by the one and by the other (`CountsAddUp`).
  * `HuntHolds`: `Spec => []HuntIsComplete`. Every host that shows an indicator has a place among
    those of the indicator (`HostsArePlaces`); looking up an entry takes its places from what is
    left of the report's share (`TakenIs`), a report adds its hits to those before it
    (`ScannedIs`), and cutting an answer only makes its sum smaller (`SumsPrefix`).

`DissectionProofs` and `EngineProofs`, for every set of captures, command lines, addresses,
ports and vendors. Folds are reasoned about without the library's induction theorems: the
set of lengths for which a claim holds is a set of naturals with 0 and with n + 1 for each n
below the bound (`UpTo`), which defines the partial results of a fold as a function
(`FoldExists`), and a sum over a table as the last of its partial sums (`SumOf`).

* `EngineInvariant`: the books of Stage 2. What was read so far is in the conversation table,
  in chunk reports or in the merged list, counted once, skipped packets aside (`Accounting`);
  `Progress` says where in the file a process is when its table is empty, `PortsAreCounted` that
  the port set of a MAC pair covers the ports of its conversations. With `ScansCollapse` they
  are inductive: `ScansCollapseHolds`.
* `ChunksMatchOnePassHolds`: without a failed tool, in whatever pieces tshark reads a capture,
  the conversations are those of one pass. `OnePass` is what makes it inductive relative to
  `EngineInvariant`: every list on the way is a set of `Books` for some packets, in which no
  two entries have the same key and each tallies exactly the packets of its key, and the
  reports of chunks are books for disjoint `Parts`. An entry grows by one packet
  (`BooksGrow`, `UpsertBooks`) or by an entry of another report (`AddBooks`), a whole report
  merges into the list as the union of two disjoint parts (`MergeBooks`), and the sum that
  `ChunksMatchOnePass` takes over a set of packets does not depend on their order
  (`OctetsOfFold`). `OnePassInvariant`.
* `TopologyInvariant`: each end of an edge is among the nodes or is an announced IPv6 address
  (`Lost`), and conversations and bytes add up, through the method that makes the graph, the
  merge and all the methods that follow (`TopologyInv`). A merge takes a node away and gives its
  edges to the target's. An IPv4 target is never taken away. An IPv6 host has no entry in the
  table of MACs, so it is taken away only when its node has a management address, which is one
  that was announced (`Advertised`), and its edges go there: to another host, or to the key that
  is being deleted. Every key is visited once (`ListedOnce`, `MergeStepOk`, `MergeFold`).
* `TrafficIsKeptHolds`: `Spec => []TrafficIsKept`, from the packets of a capture, however it is
  cut and whatever reads it, to the edges of the topology, with the same exception.
* `FieldDevicesListenHolds`: Level 1 is for hosts that only answer. `TopologyInv` also says that
  whoever has sent a conversation is marked as a sender (`SendersAreMarked`) as long as it is in
  the graph, through any order of merges (`MergeKeepsSenders`), where a node is merged away and its conversations change
  hands; `LevelsStep` and `RolesStep` then show that no marked host comes to Level 1, neither by
  its role nor by its vendor.

Only model-checked:

* liveness (`RunsSettle`, `SlotIsFreed`, `StopEndsRun`, `StopTakesEffect`,
  `FinalFrameEndsStreams`), which is out of the prover's reach;
* `DirectionsMeet`, which is a claim about the services of the captures explored: two hosts
  that poll each other on the same port do have mirrored conversations. `ExposureIsReported`,
  `ArpIsExact` and `FanOutIsFound` are of the same kind: their expectation is written for the
  hosts of those captures (each with a MAC of its own, or behind the one gateway).

## 5. Not modelled

* Engine: Stage 1 (capture), the validation of Stage 0 and the command line; protocol
  identities (CIP, BACnet, PROFINET, IEC 61850, OMRON), hints read out of texts, DNS names,
  beacons and the malware stage, GrassMarlin signatures, port summary and MAC table:
  tables and text matching, with no state beyond one conversation.
* Plugins: the beacon detector of the APT plugin (it reads Stage 2 scores), titles,
  guidance and coverage matrix of the ATT&CK plugin, the order of advisories.
* Accounts, sessions, reset tokens and CSRF are checks of one request and are taken as
  guards; the audit log is append-only.
* Capture policy (`_resolve_interface_allowlist`, `_apply_max_total_bytes_cap`) and capd's
  helpers are pure functions of one request.
* The engine that the rotation consumer starts has no row, limit or stop, and is not
  followed; nothing in the code would settle it.
* Report diff and extract: the diff reads fields that are never written, extract calls
  external tools. Emitters, translations, templates, setup, migrations and scripts convert
  data or run once by hand.

## 6. What could follow

1. Proofs of what the engine reports (`ExposureIsReported`, `ArpIsExact`, `FanOutIsFound`), once
   their expectations are stated for any network.
2. The arithmetic of the ring cap, and reset tokens, each beside its own property.
