--------------------------- MODULE WorkspaceProofs ---------------------------
(***************************************************************************)
(* Workspace for any number of users, projects, requests and restarts:      *)
(* types, references between the tables, the Default project and the        *)
(* directories.  WorkspaceInv is the inductive invariant; each of its parts *)
(* has a lemma with one step per action.                                    *)
(***************************************************************************)
EXTENDS Workspace, FiniteSetTheorems, TLAPS

ProjectNames == Names \cup {"Default"}
ProjectRows == [user : Users, name : ProjectNames]
ScanRows == [user : Users, project : {None} \cup Pids]
Captures == [user : Users, project : Pids, name : {File} \cup Requests]

\* What a thread can be doing.
Handlers ==
  [op : {"none"}]
  \cup [op : {"create"}, user : Users, name : ProjectNames]
  \cup [op : {"rename"}, user : Users, project : Pids, name : ProjectNames]
  \cup [op : {"delete"}, user : Users, project : Pids, cleared : BOOLEAN]
  \cup [op : {"member"}, user : Users, project : Pids, who : Users, role : Roles \cup {None}]
  \cup [op : {"annotate"}, user : Users, project : Pids, kind : Kinds, key : Keys,
        insert : BOOLEAN]
  \cup [op : {"erase"}, user : Users, project : Pids, kind : Kinds, key : Keys]
  \cup [op : {"upload"}, user : Users, project : Pids, temp : BOOLEAN]
  \cup [op : {"default"}, user : Users]
  \cup [op : {"unlink"}, file : Captures]
  \cup [op : {"scan"}, user : Users, project : Pids]
  \cup [op : {"deluser"}, user : Users, who : Users]

DbTypes ==
  /\ users \subseteq Users
  /\ proj \in [Pids -> {None} \cup ProjectRows]
  /\ nextPid \in 1 .. (MaxProjects + 1)
  /\ member \subseteq [project : Pids, user : Users, role : Roles, by : Users]
  /\ \A w \in rows : w.kind \in Kinds /\ w.project \in Pids /\ w.key \in Keys /\ w.by \in Users
  /\ scans \in [Runs -> {None} \cup ScanRows]

DiskTypes ==
  /\ files \subseteq Captures /\ flat \subseteq Users
  /\ torn \subseteq Pids

ThreadTypes ==
  /\ req \in [Requests -> Handlers]
  /\ up \in {"down", "migrating", "serving"}
  /\ todo \subseteq Users /\ seeded \subseteq Users
  /\ up = "migrating" => undo \in [proj : [Pids -> {None} \cup ProjectRows],
                                   scans : [Runs -> {None} \cup ScanRows]]

WorkspaceTypes == DbTypes /\ DiskTypes /\ ThreadTypes

\* Ids are handed out once, requests run only while the application serves, and
\* a migration has added to what it will go back to.
Custody ==
  /\ \A p \in Pids : p >= nextPid => ~Exists(p)
  /\ up # "serving" => \A r \in Requests : req[r] = Idle
  /\ up = "migrating" => \A p \in Pids : undo.proj[p] # None => proj[p] = undo.proj[p]

\* What rows, members and scans point at is there, also after the rollback of a
\* migration, and a thread that is about to add a member has not picked the creator.
ScansPoint(table, ps) ==
  \A s \in Runs : table[s] # None =>
    table[s].user \in users /\ (table[s].project = None \/ ps[table[s].project] # None)

ThreadsPoint ==
  \A r \in Requests :
    /\ req[r].op = "member" /\ Exists(req[r].project) =>
         req[r].who # proj[req[r].project].user
    /\ req[r].op \in {"rename", "delete", "member", "annotate", "erase", "upload", "scan"} =>
         req[r].project < nextPid

UndoPoints ==
  up = "migrating" =>
    /\ \A w \in rows : undo.proj[w.project] # None
    /\ \A m \in member : undo.proj[m.project] # None
    /\ ScansPoint(undo.scans, undo.proj)

References == NothingDangles /\ ThreadsPoint /\ UndoPoints

\* One project of each name for each user, and a Default project that nobody is
\* about to rename or delete for every user the migration has visited.
OneEach ==
  \A u \in Users, n \in ProjectNames : \A p, q \in Named(u, n) : p = q

VisitedHaveDefault ==
  up = "migrating" => \A u \in users \ todo : Named(u, "Default") # {}

DefaultIsSafe ==
  up = "serving" =>
    \A u \in seeded \cap users :
      /\ Named(u, "Default") # {}
      /\ \A r \in Requests :
           req[r].op \in {"rename", "delete"} => req[r].project \notin Named(u, "Default")

Defaults == OneEach /\ VisitedHaveDefault /\ DefaultIsSafe

\* Captures of a project that is gone are in a torn one; once a deletion has
\* cleared the directory of its user, only a torn project has captures of his.
UploadsHaveProject ==
  \A r \in Requests :
    req[r].op = "upload" => Exists(req[r].project) \/ req[r].project \in torn

ClearedStaysClear ==
  \A r \in Requests : req[r].op = "delete" /\ req[r].cleared =>
    \A f \in Cleared(req[r].user, req[r].project) : f.project \in torn

Directories == DeletedLeavesNoFile /\ UploadsHaveProject /\ ClearedStaysClear

-----------------------------------------------------------------------------
\* What a check lets through: a request of the types above, on a project that
\* is there.
LEMMA AskedIs ==
  ASSUME DbTypes, NEW u \in Users, NEW q \in Asked(u)
  PROVE  /\ q \in Handlers
         /\ q.op \in {"rename", "delete", "member", "annotate", "erase", "upload", "scan"} =>
              q.project \in Pids /\ Exists(q.project)
         /\ q.op \in {"rename", "delete"} => proj[q.project].name # "Default"
         /\ q.op = "delete" => ~q.cleared
         /\ q.op = "member" => q.who # proj[q.project].user
<1> DEFINE Good(x) ==
      /\ x \in Handlers
      /\ x.op \in {"rename", "delete", "member", "annotate", "erase", "upload", "scan"} =>
           x.project \in Pids /\ Exists(x.project)
      /\ x.op \in {"rename", "delete"} => proj[x.project].name # "Default"
      /\ x.op = "delete" => ~x.cleared
      /\ x.op = "member" => x.who # proj[x.project].user
<1> USE DEF Handlers, ProjectNames, DbTypes
<1>1. ASSUME q \in CreateAsked(u) PROVE Good(q)
  BY <1>1 DEF CreateAsked
<1>2. ASSUME q \in RenameAsked(u) PROVE Good(q)
  <2>1. PICK p \in Pids, n \in ProjectNames :
          /\ q = [op |-> "rename", user |-> u, project |-> p, name |-> n]
          /\ RenameCheck(u, p, n)
    BY <1>2 DEF RenameAsked
  <2> QED BY <2>1 DEF RenameCheck, OwnerCheck, Can
<1>3. ASSUME q \in DeleteAsked(u) PROVE Good(q)
  <2>1. PICK p \in Pids :
          /\ q = [op |-> "delete", user |-> u, project |-> p, cleared |-> FALSE]
          /\ OwnerCheck(u, p)
    BY <1>3 DEF DeleteAsked
  <2>2. Exists(p) /\ proj[p].name # "Default"
    BY <2>1 DEF OwnerCheck, Can
  <2>3. q \in [op : {"delete"}, user : Users, project : Pids, cleared : BOOLEAN]
    BY <2>1
  <2>4. q.op = "delete" /\ q.project = p /\ ~q.cleared
    BY <2>1
  <2> QED BY <2>2, <2>3, <2>4
<1>4. ASSUME q \in MemberAsked(u) PROVE Good(q)
  <2>1. PICK p \in Pids, v \in users, role \in Roles \cup {None} :
          /\ q = [op |-> "member", user |-> u, project |-> p, who |-> v, role |-> role]
          /\ Can(u, p, "owner") /\ v # proj[p].user
    BY <1>4 DEF MemberAsked
  <2> QED BY <2>1 DEF Can
<1>5. ASSUME q \in AnnotateAsked(u) PROVE Good(q)
  <2>1. PICK p \in Pids, kind \in Kinds, key \in Keys :
          /\ q = [op |-> "annotate", user |-> u, project |-> p, kind |-> kind, key |-> key,
                  insert |-> Inserts(kind, p, key)]
          /\ Can(u, p, "editor")
    BY <1>5 DEF AnnotateAsked
  <2> QED BY <2>1 DEF Can, Inserts
<1>6. ASSUME q \in EraseAsked(u) PROVE Good(q)
  <2>1. PICK p \in Pids, kind \in Kinds, key \in Keys :
          /\ q = [op |-> "erase", user |-> u, project |-> p, kind |-> kind, key |-> key]
          /\ Can(u, p, "editor")
    BY <1>6 DEF EraseAsked
  <2> QED BY <2>1 DEF Can
<1>7. ASSUME q \in UploadAsked(u) PROVE Good(q)
  <2>1. PICK p \in Pids :
          /\ q = [op |-> "upload", user |-> u, project |-> p, temp |-> FALSE]
          /\ Exists(p)
    BY <1>7 DEF UploadAsked, Can
  <2>2. q \in [op : {"upload"}, user : Users, project : Pids, temp : BOOLEAN]
    BY <2>1
  <2>3. q.op = "upload" /\ q.project = p
    BY <2>1
  <2> QED BY <2>1, <2>2, <2>3
<1>8. ASSUME q \in DefaultAsked(u) PROVE Good(q)
  BY <1>8 DEF DefaultAsked
<1>9. ASSUME q \in UnlinkAsked(u) PROVE Good(q)
  <2>1. PICK p \in Pids :
          /\ q = [op |-> "unlink",
                  file |-> [user |-> proj[p].user, project |-> p, name |-> File]]
          /\ Can(u, p, "editor")
    BY <1>9 DEF UnlinkAsked
  <2>2. proj[p].user \in Users
    BY <2>1 DEF Can, Exists, ProjectRows
  <2> QED BY <2>1, <2>2 DEF Captures
<1>10. ASSUME q \in ScanAsked(u) PROVE Good(q)
  BY <1>10 DEF ScanAsked, Owned
<1>11. ASSUME q \in DeleteUserAsked(u) PROVE Good(q)
  BY <1>11 DEF DeleteUserAsked
<1> QED
  BY <1>1, <1>2, <1>3, <1>4, <1>5, <1>6, <1>7, <1>8, <1>9, <1>10, <1>11 DEF Asked

\* A request that began is the one that was asked, by a user who is there.
LEMMA BeginIs ==
  ASSUME DbTypes, NEW r \in Requests, Begin(r)
  PROVE  \E u \in users, q \in Handlers :
           /\ req' = [req EXCEPT ![r] = q]
           /\ q.op \in {"rename", "delete", "member", "annotate", "erase", "upload", "scan"} =>
                q.project \in Pids /\ Exists(q.project)
           /\ q.op \in {"rename", "delete"} => proj[q.project].name # "Default"
           /\ q.op = "delete" => ~q.cleared
           /\ q.op = "member" => q.who # proj[q.project].user
BY AskedIs DEF Begin, DbTypes

\* The record of a thread by its operation.
LEMMA HandlerIs ==
  ASSUME NEW q \in Handlers
  PROVE  /\ q.op = "create" => q.user \in Users /\ q.name \in ProjectNames
         /\ q.op = "rename" => q.user \in Users /\ q.project \in Pids /\ q.name \in ProjectNames
         /\ q.op = "delete" =>
              q \in [op : {"delete"}, user : Users, project : Pids, cleared : BOOLEAN]
         /\ q.op = "member" => /\ q.user \in Users /\ q.project \in Pids /\ q.who \in Users
                               /\ q.role \in Roles \cup {None}
         /\ q.op = "annotate" => /\ q.user \in Users /\ q.project \in Pids /\ q.kind \in Kinds
                                 /\ q.key \in Keys
         /\ q.op = "erase" => q.user \in Users /\ q.project \in Pids
         /\ q.op = "upload" =>
              q \in [op : {"upload"}, user : Users, project : Pids, temp : BOOLEAN]
         /\ q.op = "default" => q.user \in Users
         /\ q.op = "unlink" => q.file \in Captures
         /\ q.op = "scan" => q.user \in Users /\ q.project \in Pids
         /\ q.op = "deluser" => q.user \in Users /\ q.who \in Users
BY DEF Handlers

\* The scans of a user, moved to a project, are scans.
LEMMA AdoptType ==
  ASSUME DbTypes, NEW u \in Users, NEW p \in Pids, AdoptScans(u, p)
  PROVE  scans' \in [Runs -> {None} \cup ScanRows]
<1>1. ASSUME NEW s \in Runs, scans[s] # None
      PROVE  [scans[s] EXCEPT !.project = p] \in ScanRows
  BY <1>1 DEF DbTypes, ScanRows
<1> QED
  BY <1>1 DEF DbTypes, AdoptScans

\* The scans of projects that went are scans.
LEMMA OrphanType ==
  ASSUME DbTypes, NEW ps
  PROVE  Orphaned(ps) \in [Runs -> {None} \cup ScanRows]
<1>1. ASSUME NEW s \in Runs, scans[s] # None
      PROVE  [scans[s] EXCEPT !.project = None] \in ScanRows
  BY <1>1 DEF DbTypes, ScanRows
<1> QED
  BY <1>1 DEF DbTypes, Orphaned

\* A table without some of its projects is a table of projects.
LEMMA DropType ==
  ASSUME DbTypes, NEW ps, NEW by, DropProjects(ps, by)
  PROVE  proj' \in [Pids -> {None} \cup ProjectRows]
BY DEF DbTypes, DropProjects

\* A new project takes the next id, which is in range.
LEMMA AddType ==
  ASSUME DbTypes, NEW u \in Users, NEW n \in ProjectNames, AddProject(u, n)
  PROVE  /\ nextPid \in Pids /\ nextPid' \in 1 .. (MaxProjects + 1)
         /\ proj' \in [Pids -> {None} \cup ProjectRows]
BY WorkspaceAssumption DEF DbTypes, AddProject, ProjectRows, Pids, WorkspaceAssumption

\* A thread that has finished is a thread.
LEMMA DoneType ==
  ASSUME ThreadTypes, NEW r \in Requests, Done(r)
  PROVE  req' \in [Requests -> Handlers]
BY DEF ThreadTypes, Done, Idle, Handlers

\* A new project was not there before, and the others stay what they are.
LEMMA AddEffect ==
  ASSUME DbTypes, Custody, NEW u \in Users, NEW n \in ProjectNames, AddProject(u, n)
  PROVE  /\ nextPid \in Pids /\ ~Exists(nextPid) /\ nextPid' = nextPid + 1
         /\ u \in users /\ Named(u, n) = {}
         /\ proj'[nextPid] # None /\ proj'[nextPid].user = u /\ proj'[nextPid].name = n
         /\ \A p \in Pids : p # nextPid => proj'[p] = proj[p]
<1>1. [user |-> u, name |-> n] # None
  BY WorkspaceAssumption DEF WorkspaceAssumption, ProjectNames
<1>2. nextPid \in Pids
  BY AddType
<1>3. /\ proj' = [proj EXCEPT ![nextPid] = [user |-> u, name |-> n]]
      /\ nextPid' = nextPid + 1 /\ u \in users /\ Named(u, n) = {}
  BY DEF AddProject
<1>4. ~Exists(nextPid)
  BY <1>2, WorkspaceAssumption DEF Custody, Pids, WorkspaceAssumption
<1>5. proj'[nextPid] = [user |-> u, name |-> n]
  BY <1>2, <1>3 DEF DbTypes
<1>6. \A p \in Pids : p # nextPid => proj'[p] = proj[p]
  BY <1>2, <1>3 DEF DbTypes
<1> QED
  BY <1>1, <1>2, <1>3, <1>4, <1>5, <1>6

\* Renaming changes the name of one project and nothing else.
LEMMA RenameEffect ==
  ASSUME DbTypes, NEW r \in Requests, req[r] \in Handlers, Renames(r)
  PROVE  LET p == req[r].project IN
         /\ p \in Pids /\ Exists(p) /\ proj'[p] # None
         /\ proj'[p].user = proj[p].user /\ proj'[p].name = req[r].name
         /\ req[r].name \in ProjectNames /\ proj[p].user \in Users
         /\ Named(proj[p].user, req[r].name) \subseteq {p}
         /\ \A o \in Pids : o # p => proj'[o] = proj[o]
<1> DEFINE p == req[r].project
<1>1. p \in Pids /\ req[r].name \in ProjectNames /\ Exists(p)
  BY HandlerIs DEF Renames
<1>2. proj[p] \in ProjectRows
  BY <1>1 DEF DbTypes, Exists
<1>3. [proj[p] EXCEPT !.name = req[r].name] \in ProjectRows
  BY <1>1, <1>2 DEF ProjectRows
<1>4. proj' = [proj EXCEPT ![p] = [proj[p] EXCEPT !.name = req[r].name]]
  BY <1>1 DEF Renames, DbTypes
<1>5. proj'[p] = [proj[p] EXCEPT !.name = req[r].name]
  BY <1>1, <1>4 DEF DbTypes
<1>6. proj'[p] # None
  BY <1>3, <1>5, WorkspaceAssumption DEF WorkspaceAssumption, ProjectRows, ProjectNames
<1>7. proj'[p].user = proj[p].user /\ proj'[p].name = req[r].name /\ proj[p].user \in Users
  BY <1>2, <1>5 DEF ProjectRows
<1>8. Named(proj[p].user, req[r].name) \subseteq {p}
  BY DEF Renames
<1>9. \A o \in Pids : o # p => proj'[o] = proj[o]
  BY <1>4 DEF DbTypes
<1> QED
  BY <1>1, <1>6, <1>7, <1>8, <1>9

\* Dropping tears those projects that had files or uploads of others.
LEMMA DropEffect ==
  ASSUME DbTypes, NEW ps, NEW by, DropProjects(ps, by)
  PROVE  /\ \A p \in Pids : proj'[p] = IF p \in ps THEN None ELSE proj[p]
         /\ torn \subseteq torn'
         /\ \A p \in ps :
              by # proj[p].user \/ Doing("upload", p) \/ (\E f \in files : f.project = p /\ f.user # by)
                => p \in torn'
BY DEF DropProjects, DbTypes

\* A new project changes nothing for the threads that point at older ones.
LEMMA MovesOn ==
  ASSUME WorkspaceTypes, References, NEW r \in Requests,
         \A o \in Pids : o # nextPid => proj'[o] = proj[o],
         nextPid' = nextPid + 1,
         req'[r].op = "none" \/ (req'[r].op = "upload" /\ req'[r].project = nextPid),
         \A o \in Requests : o # r => req'[o] = req[o]
  PROVE  ThreadsPoint'
<1> SUFFICES ASSUME NEW o \in Requests,
                    req'[o].op \in {"rename", "delete", "member", "annotate", "erase", "upload", "scan"}
             PROVE  /\ req'[o].project < nextPid'
                    /\ req'[o].op = "member" /\ proj'[req'[o].project] # None =>
                         req'[o].who # proj'[req'[o].project].user
  BY DEF ThreadsPoint, Exists
<1>1. nextPid \in Nat /\ \A p \in Pids : p \in Nat
  BY WorkspaceAssumption DEF WorkspaceTypes, DbTypes, Pids, WorkspaceAssumption
<1>2. CASE o = r
  BY <1>1, <1>2
<1>3. CASE o # r
  <2>1. req'[o] = req[o] /\ req[o] \in Handlers
    BY <1>3 DEF WorkspaceTypes, ThreadTypes
  <2>2. req[o].project \in Pids
    BY <2>1, HandlerIs
  <2>3. req[o].project < nextPid
    BY <2>1 DEF References, ThreadsPoint
  <2>4. req[o].project # nextPid /\ req[o].project < nextPid + 1
    BY <2>2, <2>3, <1>1
  <2>5. proj'[req[o].project] = proj[req[o].project]
    BY <2>2, <2>4
  <2> QED BY <2>1, <2>4, <2>5 DEF References, ThreadsPoint, Exists
<1> QED BY <1>2, <1>3

\* Steps that leave the projects alone and turn no thread to another one.
LEMMA QuietHere ==
  ASSUME Defaults, UNCHANGED <<proj, users, todo, seeded, up>>,
         \A o \in Requests : req'[o].op \in {"rename", "delete"} =>
           req[o].op \in {"rename", "delete"} /\ req'[o].project = req[o].project
  PROVE  Defaults'
<1>1. \A u, n : Named(u, n)' = Named(u, n)
  BY DEF Named, Owned, Exists
<1>2. OneEach'
  BY <1>1 DEF Defaults, OneEach
<1>3. VisitedHaveDefault'
  BY <1>1 DEF Defaults, VisitedHaveDefault
<1>4. DefaultIsSafe'
  BY <1>1 DEF Defaults, DefaultIsSafe
<1> QED
  BY <1>2, <1>3, <1>4 DEF Defaults

\* When a project is one of a user and a name.
LEMMA NamedIs ==
  \A u, n, p : p \in Named(u, n) <=>
    p \in Pids /\ proj[p] # None /\ proj[p].user = u /\ proj[p].name = n
BY DEF Named, Owned, Exists

\* The same after a step.
LEMMA NamedThen ==
  \A u, n, p : p \in Named(u, n)' <=>
    p \in Pids /\ proj'[p] # None /\ proj'[p].user = u /\ proj'[p].name = n
BY DEF Named, Owned, Exists

\* A table that only loses projects still has each name once for each user.
LEMMA FewerProjects ==
  ASSUME OneEach, \A p \in Pids : proj'[p] # None => proj'[p] = proj[p]
  PROVE  OneEach'
<1>1. \A u, n : Named(u, n)' \subseteq Named(u, n)
  BY NamedIs, NamedThen
<1> QED
  BY <1>1 DEF OneEach

\* One more project of a name that its user has not used yet.
LEMMA OneMoreProject ==
  ASSUME OneEach, NEW u \in Users, NEW n \in ProjectNames, Named(u, n) = {},
         proj'[nextPid].user = u, proj'[nextPid].name = n,
         \A p \in Pids : p # nextPid => proj'[p] = proj[p]
  PROVE  OneEach'
<1> SUFFICES ASSUME NEW v \in Users, NEW m \in ProjectNames,
                    NEW p \in Named(v, m)', NEW q \in Named(v, m)'
             PROVE  p = q
  BY DEF OneEach
<1>1. \A k \in {p, q} : k = nextPid \/ k \in Named(v, m)
  BY NamedIs, NamedThen
<1>2. nextPid \in {p, q} => v = u /\ m = n
  BY NamedThen
<1> QED
  BY <1>1, <1>2 DEF OneEach

\* A Default project is safe while nobody touches it and no thread turns to it.
LEMMA StaysSafe ==
  ASSUME DefaultIsSafe, up' = up, seeded' = seeded, users' \subseteq users,
         \A u \in seeded \cap users' : \A p \in Named(u, "Default") : proj'[p] = proj[p],
         up = "serving" =>
           \A u \in seeded \cap users' : \A o \in Requests :
             req'[o].op \in {"rename", "delete"} => req'[o].project \notin Named(u, "Default")'
  PROVE  DefaultIsSafe'
<1> SUFFICES ASSUME up = "serving", NEW u \in seeded \cap users'
             PROVE  Named(u, "Default")' # {}
  BY DEF DefaultIsSafe
<1>1. PICK p : p \in Named(u, "Default")
  BY DEF DefaultIsSafe
<1>2. p \in Named(u, "Default")'
  BY <1>1, NamedIs, NamedThen
<1> QED BY <1>2

\* A step that adds no file, and tears the projects it takes away.
LEMMA NoNewFile ==
  ASSUME WorkspaceTypes, Directories, files' \subseteq files, torn \subseteq torn',
         \A p \in Pids : proj[p] # None => proj'[p] # None \/ p \in torn',
         \A o \in Requests : req'[o].op = "upload" =>
           \/ req[o].op = "upload" /\ req'[o].project = req[o].project
           \/ proj'[req'[o].project] # None,
         \A o \in Requests : req'[o].op = "delete" /\ req'[o].cleared =>
           \/ req'[o] = req[o]
           \/ \A f \in files' : ~(f.user = req'[o].user /\ f.project = req'[o].project)
  PROVE  Directories'
<1>1. \A f \in files : f.project \in Pids
  BY DEF WorkspaceTypes, DiskTypes, Captures
<1>2. \A o \in Requests : req[o].op = "upload" => req[o].project \in Pids
  BY HandlerIs DEF WorkspaceTypes, ThreadTypes
<1>3. DeletedLeavesNoFile'
  BY <1>1 DEF Directories, DeletedLeavesNoFile, Exists
<1>4. UploadsHaveProject'
  BY <1>2 DEF Directories, UploadsHaveProject, Exists
<1>5. ClearedStaysClear'
  BY DEF Directories, ClearedStaysClear, Cleared
<1> QED
  BY <1>3, <1>4, <1>5 DEF Directories

\* Every step keeps the types of the tables.
LEMMA DbStep ==
  ASSUME WorkspaceTypes, [Next]_vars
  PROVE  DbTypes'
<1>h. \A r \in Requests : req[r] \in Handlers
  BY DEF WorkspaceTypes, ThreadTypes
<1> USE DEF db, disk, boot
<1>t. DbTypes
  BY DEF WorkspaceTypes
<1>1. CASE Boot
  BY <1>1, <1>t DEF Boot, DbTypes
<1>2. CASE MigrationCommits
  BY <1>2, <1>t DEF MigrationCommits, DbTypes
<1>3. CASE MigrationFails
  BY <1>3 DEF MigrationFails, WorkspaceTypes, ThreadTypes, DbTypes
<1>4. CASE Crash
  BY <1>4, <1>t DEF Crash, DbTypes
<1>5. ASSUME NEW u \in Users, Migrate(u) PROVE DbTypes'
  <2>1. \/ AddProject(u, "Default") /\ AdoptScans(u, nextPid)
        \/ \E p \in Pids : AdoptScans(u, p) /\ UNCHANGED <<proj, nextPid>>
    BY <1>5 DEF Migrate, Named, Owned
  <2>2. /\ nextPid' \in 1 .. (MaxProjects + 1)
        /\ proj' \in [Pids -> {None} \cup ProjectRows]
        /\ scans' \in [Runs -> {None} \cup ScanRows]
    BY <2>1, AddType, AdoptType, <1>t DEF ProjectNames, DbTypes
  <2> QED BY <1>5, <2>2, <1>t DEF Migrate, DbTypes
<1>6. ASSUME NEW r \in Requests, Begin(r) PROVE DbTypes'
  BY <1>6, <1>t DEF Begin, DbTypes
<1>7. ASSUME NEW r \in Requests, Creates(r) PROVE DbTypes'
  BY <1>7, <1>h, <1>t, HandlerIs, AddType DEF Creates, DbTypes
<1>8. ASSUME NEW r \in Requests, EnsuresDefault(r) PROVE DbTypes'
  BY <1>8, <1>h, <1>t, HandlerIs, AddType DEF EnsuresDefault, DbTypes, ProjectNames
<1>9. ASSUME NEW r \in Requests, Renames(r) PROVE DbTypes'
  <2>1. req[r].project \in Pids /\ req[r].name \in ProjectNames /\ proj[req[r].project] # None
    BY <1>9, <1>h, HandlerIs DEF Renames, Exists
  <2>2. [proj[req[r].project] EXCEPT !.name = req[r].name] \in ProjectRows
    BY <2>1, <1>t DEF DbTypes, ProjectRows
  <2>3. proj' \in [Pids -> {None} \cup ProjectRows]
    BY <1>9, <2>1, <2>2, <1>t DEF Renames, DbTypes
  <2> QED BY <1>9, <2>3, <1>t DEF Renames, DbTypes
<1>10. ASSUME NEW r \in Requests, Deletes(r) PROVE DbTypes'
  <2>1. PICK ps : /\ DropProjects(ps, req[r].user) /\ scans' = Orphaned(ps)
                  /\ member' = {m \in member : m.project \notin ps}
    BY <1>10 DEF Deletes
  <2>2. proj' \in [Pids -> {None} \cup ProjectRows] /\ scans' \in [Runs -> {None} \cup ScanRows]
    BY <2>1, <1>t, DropType, OrphanType
  <2> QED BY <1>10, <2>1, <2>2, <1>t DEF Deletes, DbTypes
<1>11. ASSUME NEW r \in Requests, SetsMember(r) PROVE DbTypes'
  <2> DEFINE q == req[r]
             old == {m \in member : m.project = q.project /\ m.user = q.who}
             by == IF old = {} THEN q.user ELSE (CHOOSE m \in old : TRUE).by
             new == [project |-> q.project, user |-> q.who, role |-> q.role, by |-> by]
  <2>1. q \in Handlers /\ q.op = "member"
    BY <1>11, <1>h DEF SetsMember
  <2>2. q.user \in Users /\ q.project \in Pids /\ q.who \in Users /\ q.role \in Roles \cup {None}
    BY <2>1, HandlerIs
  <2>3. old # {} => (CHOOSE m \in old : TRUE) \in old
    OBVIOUS
  <2>4. by \in Users
    BY <2>2, <2>3, <1>t DEF DbTypes
  <2>5. member' = member \ old \/ (q.role # None /\ member' = (member \ old) \cup {new})
    BY <1>11 DEF SetsMember
  <2>6. member' \subseteq [project : Pids, user : Users, role : Roles, by : Users]
    BY <2>2, <2>4, <2>5, <1>t DEF DbTypes
  <2> QED BY <1>11, <2>6, <1>t DEF SetsMember, DbTypes
<1>12. ASSUME NEW r \in Requests, Annotates(r) PROVE DbTypes'
  <2>1. /\ req[r].user \in Users /\ req[r].project \in Pids /\ req[r].kind \in Kinds
        /\ req[r].key \in Keys
    BY <1>12, <1>h, HandlerIs DEF Annotates
  <2>2. \A w \in rows' : \/ w \in rows
                         \/ /\ w.kind = req[r].kind /\ w.project = req[r].project
                            /\ w.key = req[r].key /\ w.by = req[r].user
    BY <1>12 DEF Annotates
  <2>3. \A w \in rows' : w.kind \in Kinds /\ w.project \in Pids /\ w.key \in Keys /\ w.by \in Users
    BY <2>1, <2>2, <1>t DEF DbTypes
  <2> QED BY <1>12, <2>3, <1>t DEF Annotates, DbTypes
<1>13. ASSUME NEW r \in Requests, Erases(r) PROVE DbTypes'
  BY <1>13, <1>t DEF Erases, DbTypes
<1>14. ASSUME NEW r \in Requests, Uploads(r) PROVE DbTypes'
  BY <1>14, <1>t DEF Uploads, DbTypes
<1>15. ASSUME NEW r \in Requests, Unlinks(r) PROVE DbTypes'
  BY <1>15, <1>t DEF Unlinks, DbTypes
<1>16. ASSUME NEW r \in Requests, RecordsScan(r) PROVE DbTypes'
  BY <1>16, <1>h, <1>t, HandlerIs DEF RecordsScan, DbTypes, ScanRows
<1>17. ASSUME NEW r \in Requests, DeletesUser(r) PROVE DbTypes'
  <2> DEFINE v == req[r].who
  <2>1. /\ DropProjects(Owned(v), None)
        /\ scans' = [s \in Runs |-> IF scans[s] # None /\ scans[s].user = v THEN None
                                    ELSE Orphaned(Owned(v))[s]]
        /\ users' = users \ {v} /\ member' \subseteq member
        /\ UNCHANGED <<nextPid, rows>>
    BY <1>17 DEF DeletesUser
  <2>2. proj' \in [Pids -> {None} \cup ProjectRows] /\ scans' \in [Runs -> {None} \cup ScanRows]
    BY <2>1, <1>t, DropType, OrphanType
  <2> QED BY <2>1, <2>2, <1>t DEF DbTypes
<1>18. ASSUME NEW r \in Requests, ClearsFiles(r) PROVE DbTypes'
  BY <1>18, <1>t DEF ClearsFiles, DbTypes
<1>19. ASSUME NEW r \in Requests, Streams(r) PROVE DbTypes'
  BY <1>19, <1>t DEF Streams, DbTypes
<1>20. ASSUME NEW r \in Requests, Fails(r) PROVE DbTypes'
  BY <1>20, <1>t DEF Fails, DbTypes
<1>21. CASE UNCHANGED vars
  BY <1>21, <1>t DEF vars, DbTypes
<1> QED
  BY <1>1, <1>2, <1>3, <1>4, <1>5, <1>6, <1>7, <1>8, <1>9, <1>10, <1>11, <1>12, <1>13,
     <1>14, <1>15, <1>16, <1>17, <1>18, <1>19, <1>20, <1>21
     DEF Next, Request, Commits

\* Every step keeps the types of files.
LEMMA DiskStep ==
  ASSUME WorkspaceTypes, [Next]_vars
  PROVE  DiskTypes'
<1>h. \A r \in Requests : req[r] \in Handlers
  BY DEF WorkspaceTypes, ThreadTypes
<1> USE DEF WorkspaceTypes, DbTypes, DiskTypes, Captures, Pids, db, disk, boot
<1>1. CASE Boot
  BY <1>1 DEF Boot
<1>2. CASE MigrationCommits
  BY <1>2 DEF MigrationCommits
<1>3. CASE MigrationFails
  BY <1>3 DEF MigrationFails
<1>4. CASE Crash
  BY <1>4 DEF Crash
<1>5. ASSUME NEW u \in Users, Migrate(u) PROVE DiskTypes'
  <2>1. PICK p \in Pids : MoveFlat(u, p)
    <3>1. Named(u, "Default") \subseteq Pids
      BY DEF Named, Owned
    <3>2. AddProject(u, "Default") => nextPid \in Pids
      BY AddType DEF ProjectNames
    <3> QED BY <1>5, <3>1, <3>2 DEF Migrate
  <2> QED BY <1>5, <2>1 DEF Migrate, MoveFlat
<1>6. ASSUME NEW r \in Requests, Begin(r) PROVE DiskTypes'
  BY <1>6 DEF Begin
<1>7. ASSUME NEW r \in Requests, Creates(r) PROVE DiskTypes'
  BY <1>7 DEF Creates
<1>8. ASSUME NEW r \in Requests, EnsuresDefault(r) PROVE DiskTypes'
  BY <1>8 DEF EnsuresDefault
<1>9. ASSUME NEW r \in Requests, Renames(r) PROVE DiskTypes'
  BY <1>9 DEF Renames
<1>10. ASSUME NEW r \in Requests, Deletes(r) PROVE DiskTypes'
  BY <1>10, <1>h, HandlerIs DEF Deletes, DropProjects
<1>11. ASSUME NEW r \in Requests, SetsMember(r) PROVE DiskTypes'
  BY <1>11 DEF SetsMember
<1>12. ASSUME NEW r \in Requests, Annotates(r) PROVE DiskTypes'
  BY <1>12 DEF Annotates
<1>13. ASSUME NEW r \in Requests, Erases(r) PROVE DiskTypes'
  BY <1>13 DEF Erases
<1>14. ASSUME NEW r \in Requests, Uploads(r) PROVE DiskTypes'
  BY <1>14 DEF Uploads
<1>15. ASSUME NEW r \in Requests, Unlinks(r) PROVE DiskTypes'
  BY <1>15 DEF Unlinks
<1>16. ASSUME NEW r \in Requests, RecordsScan(r) PROVE DiskTypes'
  BY <1>16 DEF RecordsScan
<1>17. ASSUME NEW r \in Requests, DeletesUser(r) PROVE DiskTypes'
  BY <1>17 DEF DeletesUser, DropProjects, Owned
<1>18. ASSUME NEW r \in Requests, ClearsFiles(r) PROVE DiskTypes'
  BY <1>18 DEF ClearsFiles
<1>19. ASSUME NEW r \in Requests, Streams(r) PROVE DiskTypes'
  BY <1>19, <1>h, HandlerIs DEF Streams
<1>20. ASSUME NEW r \in Requests, Fails(r) PROVE DiskTypes'
  BY <1>20 DEF Fails
<1>21. CASE UNCHANGED vars
  BY <1>21 DEF vars
<1> QED
  BY <1>1, <1>2, <1>3, <1>4, <1>5, <1>6, <1>7, <1>8, <1>9, <1>10, <1>11, <1>12, <1>13,
     <1>14, <1>15, <1>16, <1>17, <1>18, <1>19, <1>20, <1>21
     DEF Next, Request, Commits

\* Every step keeps the types of the threads.
LEMMA ThreadStep ==
  ASSUME WorkspaceTypes, [Next]_vars
  PROVE  ThreadTypes'
<1>h. \A r \in Requests : req[r] \in Handlers
  BY DEF WorkspaceTypes, ThreadTypes
<1>t. ThreadTypes /\ DbTypes
  BY DEF WorkspaceTypes
<1> USE DEF db, disk, boot
<1>1. CASE Boot
  BY <1>1, <1>t DEF Boot, ThreadTypes, DbTypes
<1>2. CASE MigrationCommits
  BY <1>2, <1>t DEF MigrationCommits, ThreadTypes, DbTypes
<1>3. CASE MigrationFails
  BY <1>3, <1>t DEF MigrationFails, ThreadTypes
<1>4. CASE Crash
  <2>1. Idle \in Handlers
    BY DEF Idle, Handlers
  <2> QED BY <1>4, <1>t, <2>1 DEF Crash, ThreadTypes
<1>5. ASSUME NEW u \in Users, Migrate(u) PROVE ThreadTypes'
  BY <1>5, <1>t DEF Migrate, ThreadTypes
<1>6. ASSUME NEW r \in Requests, Begin(r) PROVE ThreadTypes'
  <2>1. req' \in [Requests -> Handlers]
    BY <1>6, <1>t, BeginIs DEF ThreadTypes
  <2> QED BY <1>6, <1>t, <2>1 DEF Begin, ThreadTypes
<1>7. ASSUME NEW r \in Requests, Creates(r) PROVE ThreadTypes'
  BY <1>7, <1>t, DoneType DEF Creates, ThreadTypes
<1>8. ASSUME NEW r \in Requests, EnsuresDefault(r) PROVE ThreadTypes'
  <2>1. nextPid \in Pids /\ req[r].user \in Users
    BY <1>8, <1>h, <1>t, HandlerIs, AddType DEF EnsuresDefault, ProjectNames
  <2>2. [op |-> "upload", user |-> req[r].user, project |-> nextPid, temp |-> FALSE]
          \in [op : {"upload"}, user : Users, project : Pids, temp : BOOLEAN]
    BY <2>1
  <2>3. req' \in [Requests -> Handlers]
    BY <1>8, <1>t, <2>2 DEF EnsuresDefault, ThreadTypes, Handlers
  <2> QED BY <1>8, <1>t, <2>3 DEF EnsuresDefault, ThreadTypes
<1>9. ASSUME NEW r \in Requests, Renames(r) PROVE ThreadTypes'
  BY <1>9, <1>t, DoneType DEF Renames, ThreadTypes
<1>10. ASSUME NEW r \in Requests, Deletes(r) PROVE ThreadTypes'
  BY <1>10, <1>t, DoneType DEF Deletes, ThreadTypes
<1>11. ASSUME NEW r \in Requests, SetsMember(r) PROVE ThreadTypes'
  BY <1>11, <1>t, DoneType DEF SetsMember, ThreadTypes
<1>12. ASSUME NEW r \in Requests, Annotates(r) PROVE ThreadTypes'
  BY <1>12, <1>t, DoneType DEF Annotates, ThreadTypes
<1>13. ASSUME NEW r \in Requests, Erases(r) PROVE ThreadTypes'
  BY <1>13, <1>t, DoneType DEF Erases, ThreadTypes
<1>14. ASSUME NEW r \in Requests, Uploads(r) PROVE ThreadTypes'
  BY <1>14, <1>t, DoneType DEF Uploads, ThreadTypes
<1>15. ASSUME NEW r \in Requests, Unlinks(r) PROVE ThreadTypes'
  BY <1>15, <1>t, DoneType DEF Unlinks, ThreadTypes
<1>16. ASSUME NEW r \in Requests, RecordsScan(r) PROVE ThreadTypes'
  BY <1>16, <1>t, DoneType DEF RecordsScan, ThreadTypes
<1>17. ASSUME NEW r \in Requests, DeletesUser(r) PROVE ThreadTypes'
  BY <1>17, <1>t, DoneType DEF DeletesUser, ThreadTypes
<1>18. ASSUME NEW r \in Requests, ClearsFiles(r) PROVE ThreadTypes'
  <2>1. req[r] \in [op : {"delete"}, user : Users, project : Pids, cleared : BOOLEAN]
    BY <1>18, <1>h, HandlerIs DEF ClearsFiles
  <2>2. [req[r] EXCEPT !.cleared = TRUE] \in Handlers
    BY <2>1 DEF Handlers
  <2>3. req' \in [Requests -> Handlers]
    BY <1>18, <1>t, <2>2 DEF ClearsFiles, ThreadTypes
  <2> QED BY <1>18, <1>t, <2>3 DEF ClearsFiles, ThreadTypes
<1>19. ASSUME NEW r \in Requests, Streams(r) PROVE ThreadTypes'
  <2>1. req[r] \in [op : {"upload"}, user : Users, project : Pids, temp : BOOLEAN]
    BY <1>19, <1>h, HandlerIs DEF Streams
  <2>2. [req[r] EXCEPT !.temp = TRUE] \in Handlers
    BY <2>1 DEF Handlers
  <2>3. req' \in [Requests -> Handlers]
    BY <1>19, <1>t, <2>2 DEF Streams, ThreadTypes
  <2> QED BY <1>19, <1>t, <2>3 DEF Streams, ThreadTypes
<1>20. ASSUME NEW r \in Requests, Fails(r) PROVE ThreadTypes'
  BY <1>20, <1>t, DoneType DEF Fails, ThreadTypes
<1>21. CASE UNCHANGED vars
  BY <1>21, <1>t DEF vars, ThreadTypes
<1> QED
  BY <1>1, <1>2, <1>3, <1>4, <1>5, <1>6, <1>7, <1>8, <1>9, <1>10, <1>11, <1>12, <1>13,
     <1>14, <1>15, <1>16, <1>17, <1>18, <1>19, <1>20, <1>21
     DEF Next, Request, Commits

\* No step hands out an id twice, or serves requests during a migration.
LEMMA CustodyStep ==
  ASSUME WorkspaceTypes, Custody, [Next]_vars
  PROVE  Custody'
<1>h. \A r \in Requests : req[r] \in Handlers
  BY DEF WorkspaceTypes, ThreadTypes
<1>t. WorkspaceTypes /\ DbTypes /\ ThreadTypes /\ DiskTypes
  BY DEF WorkspaceTypes
<1>n. nextPid \in Nat /\ \A p \in Pids : p \in Nat
  BY WorkspaceAssumption DEF WorkspaceTypes, DbTypes, Pids, WorkspaceAssumption
<1> USE DEF Custody, Exists, Idle, db, disk, boot
<1>1. CASE Boot
  BY <1>1 DEF Boot
<1>2. CASE MigrationCommits
  BY <1>2 DEF MigrationCommits
<1>3. CASE MigrationFails
  BY <1>3 DEF MigrationFails
<1>4. CASE Crash
  BY <1>4 DEF Crash
<1>5. ASSUME NEW u \in Users, Migrate(u) PROVE Custody'
  <2>1. \/ AddProject(u, "Default")
        \/ UNCHANGED <<proj, nextPid>>
    BY <1>5 DEF Migrate, Named, Owned
  <2>3. CASE UNCHANGED <<proj, nextPid>>
    BY <1>5, <2>3 DEF Migrate
  <2>4. CASE AddProject(u, "Default")
    <3>1. /\ nextPid' = nextPid + 1 /\ ~Exists(nextPid)
          /\ \A p \in Pids : p # nextPid => proj'[p] = proj[p]
      BY <2>4, <1>t, AddEffect DEF ProjectNames
    <3>2. \A p \in Pids : p >= nextPid' => p # nextPid /\ p >= nextPid
      BY <3>1, <1>n
    <3>3. \A p \in Pids : p >= nextPid' => proj'[p] = None
      BY <3>1, <3>2
    <3>4. \A p \in Pids : proj[p] # None => proj'[p] = proj[p]
      BY <3>1
    <3>5. UNCHANGED <<up, req, undo>> /\ up = "migrating"
      BY <1>5 DEF Migrate
    <3> QED BY <3>3, <3>4, <3>5
  <2> QED BY <2>1, <2>3, <2>4
<1>6. ASSUME NEW r \in Requests, Begin(r) PROVE Custody'
  BY <1>6 DEF Begin
<1>7. ASSUME NEW r \in Requests, Creates(r) PROVE Custody'
  BY <1>7, <1>n DEF Creates, AddProject
<1>8. ASSUME NEW r \in Requests, EnsuresDefault(r) PROVE Custody'
  BY <1>8, <1>n DEF EnsuresDefault, AddProject
<1>9. ASSUME NEW r \in Requests, Renames(r) PROVE Custody'
  BY <1>9 DEF Renames
<1>10. ASSUME NEW r \in Requests, Deletes(r) PROVE Custody'
  <2>1. PICK ps : DropProjects(ps, req[r].user)
    BY <1>10 DEF Deletes
  <2>2. \A p \in Pids : proj'[p] # None => proj[p] # None
    BY <2>1, <1>t, DropEffect
  <2>3. up = "serving"
    BY <1>10 DEF Deletes
  <2> QED BY <1>10, <2>2, <2>3 DEF Deletes
<1>11. ASSUME NEW r \in Requests, SetsMember(r) PROVE Custody'
  BY <1>11 DEF SetsMember
<1>12. ASSUME NEW r \in Requests, Annotates(r) PROVE Custody'
  BY <1>12 DEF Annotates
<1>13. ASSUME NEW r \in Requests, Erases(r) PROVE Custody'
  BY <1>13 DEF Erases
<1>14. ASSUME NEW r \in Requests, Uploads(r) PROVE Custody'
  BY <1>14 DEF Uploads
<1>15. ASSUME NEW r \in Requests, Unlinks(r) PROVE Custody'
  BY <1>15 DEF Unlinks
<1>16. ASSUME NEW r \in Requests, RecordsScan(r) PROVE Custody'
  BY <1>16 DEF RecordsScan
<1>17. ASSUME NEW r \in Requests, DeletesUser(r) PROVE Custody'
  BY <1>17 DEF DeletesUser, DropProjects
<1>18. ASSUME NEW r \in Requests, ClearsFiles(r) PROVE Custody'
  BY <1>18 DEF ClearsFiles
<1>19. ASSUME NEW r \in Requests, Streams(r) PROVE Custody'
  BY <1>19 DEF Streams
<1>20. ASSUME NEW r \in Requests, Fails(r) PROVE Custody'
  BY <1>20 DEF Fails, Done
<1>21. CASE UNCHANGED vars
  BY <1>21 DEF vars
<1> QED
  BY <1>1, <1>2, <1>3, <1>4, <1>5, <1>6, <1>7, <1>8, <1>9, <1>10, <1>11, <1>12, <1>13,
     <1>14, <1>15, <1>16, <1>17, <1>18, <1>19, <1>20, <1>21
     DEF Next, Request, Commits

\* No step breaks a reference.
LEMMA ReferencesStep ==
  ASSUME WorkspaceTypes, Custody, References, [Next]_vars
  PROVE  References'
<1>h. \A r \in Requests : req[r] \in Handlers
  BY DEF WorkspaceTypes, ThreadTypes
<1>t. WorkspaceTypes /\ DbTypes /\ ThreadTypes /\ DiskTypes
  BY DEF WorkspaceTypes
<1>n. nextPid \in Nat /\ \A p \in Pids : p \in Nat
  BY WorkspaceAssumption DEF WorkspaceTypes, DbTypes, Pids, WorkspaceAssumption
<1> USE DEF db, disk, boot
<1>1. CASE Boot
  BY <1>1 DEF Boot, References, NothingDangles, ThreadsPoint, UndoPoints, ScansPoint, Exists
<1>2. CASE MigrationCommits
  BY <1>2 DEF MigrationCommits, References, NothingDangles, ThreadsPoint, UndoPoints, Exists
<1>3. CASE MigrationFails
  BY <1>3, <1>t
     DEF MigrationFails, DbTypes, Custody, References, NothingDangles, ThreadsPoint,
         UndoPoints, ScansPoint, Exists, Idle
<1>4. CASE Crash
  BY <1>4 DEF Crash, References, NothingDangles, ThreadsPoint, UndoPoints, Exists, Idle
<1>5. ASSUME NEW u \in Users, Migrate(u) PROVE References'
  <2>1. PICK p \in Pids : /\ AdoptScans(u, p) /\ proj'[p] # None
                         /\ \A o \in Pids : Exists(o) => proj'[o] = proj[o]
    <3>1. CASE AddProject(u, "Default") /\ AdoptScans(u, nextPid)
      BY <3>1, <1>t, AddEffect DEF ProjectNames
    <3>2. CASE \E p \in Named(u, "Default") : AdoptScans(u, p) /\ UNCHANGED <<proj, nextPid>>
      BY <3>2 DEF Named, Owned, Exists
    <3> QED BY <1>5, <3>1, <3>2 DEF Migrate
  <2>2. UNCHANGED <<users, member, rows, req, up, undo>> /\ up = "migrating"
    BY <1>5 DEF Migrate
  <2>3. \A s \in Runs : scans'[s] # None =>
          /\ scans[s] # None /\ scans'[s].user = scans[s].user
          /\ scans'[s].project = p \/ scans'[s].project = scans[s].project
    BY <2>1, <1>t DEF AdoptScans, DbTypes, ScanRows
  <2>4. NothingDangles'
    BY <2>1, <2>2, <2>3, <1>t DEF References, NothingDangles, Exists, DbTypes, ScanRows
  <2>5. ThreadsPoint'
    BY <2>2 DEF ThreadsPoint, Custody, Idle
  <2>6. UndoPoints'
    BY <2>2 DEF References, UndoPoints, ScansPoint
  <2> QED BY <2>4, <2>5, <2>6 DEF References
<1>6. ASSUME NEW r \in Requests, Begin(r) PROVE References'
  <2>1. PICK q \in Handlers :
          /\ req' = [req EXCEPT ![r] = q]
          /\ q.op \in {"rename", "delete", "member", "annotate", "erase", "upload", "scan"} =>
               q.project \in Pids /\ Exists(q.project)
          /\ q.op = "member" => q.who # proj[q.project].user
    BY <1>6, <1>t, BeginIs
  <2>2. q.op \in {"rename", "delete", "member", "annotate", "erase", "upload", "scan"} =>
          q.project < nextPid
    <3>1. ASSUME NEW p \in Pids, Exists(p) PROVE p < nextPid
      <4>1. ~(p >= nextPid)
        BY <3>1 DEF Custody
      <4> QED BY <4>1, <1>n
    <3> QED BY <2>1, <3>1
  <2>3. UNCHANGED <<users, proj, nextPid, member, rows, scans, up, undo>>
    BY <1>6 DEF Begin
  <2>4. ThreadsPoint'
    BY <2>1, <2>2, <2>3, <1>t DEF References, ThreadsPoint, ThreadTypes, Exists
  <2>5. NothingDangles' /\ UndoPoints'
    BY <2>3 DEF References, NothingDangles, UndoPoints, ScansPoint, Exists
  <2> QED BY <2>4, <2>5 DEF References
<1>7. ASSUME NEW r \in Requests, Creates(r) PROVE References'
  <2>a. up = "serving"
    BY <1>7 DEF Creates, Custody, Idle
  <2>1. \A o \in Pids : o # nextPid => proj'[o] = proj[o]
    BY <1>7, <1>h, <1>t, HandlerIs, AddEffect DEF Creates
  <2>2. ~Exists(nextPid) /\ nextPid' = nextPid + 1
    BY <1>7, <1>h, <1>t, HandlerIs, AddEffect DEF Creates
  <2>3. UNCHANGED <<users, member, rows, scans, up>> /\ req' = [req EXCEPT ![r] = Idle]
    BY <1>7 DEF Creates, Done
  <2>4. NothingDangles'
    BY <2>1, <2>2, <2>3, <1>t DEF References, NothingDangles, Exists, DbTypes, ScanRows
  <2>5. ThreadsPoint'
    <3>1. req'[r].op = "none"
      BY <2>3, <1>t DEF ThreadTypes, Idle
    <3>2. \A o \in Requests : o # r => req'[o] = req[o]
      BY <2>3, <1>t DEF ThreadTypes
    <3> QED BY <2>1, <2>2, <3>1, <3>2, MovesOn
  <2> QED BY <2>a, <2>3, <2>4, <2>5 DEF References, UndoPoints
<1>8. ASSUME NEW r \in Requests, EnsuresDefault(r) PROVE References'
  <2>a. up = "serving"
    BY <1>8 DEF EnsuresDefault, Custody, Idle
  <2>1. \A o \in Pids : o # nextPid => proj'[o] = proj[o]
    BY <1>8, <1>h, <1>t, HandlerIs, AddEffect DEF EnsuresDefault, ProjectNames
  <2>2. ~Exists(nextPid) /\ nextPid' = nextPid + 1
    BY <1>8, <1>h, <1>t, HandlerIs, AddEffect DEF EnsuresDefault, ProjectNames
  <2>3. /\ UNCHANGED <<users, member, rows, scans, up>>
        /\ req' = [req EXCEPT ![r] = [op |-> "upload", user |-> req[r].user,
                                     project |-> nextPid, temp |-> FALSE]]
    BY <1>8 DEF EnsuresDefault
  <2>4. NothingDangles'
    BY <2>1, <2>2, <2>3, <1>t DEF References, NothingDangles, Exists, DbTypes, ScanRows
  <2>5. ThreadsPoint'
    <3>1. req'[r].op = "upload" /\ req'[r].project = nextPid
      BY <2>3, <1>t DEF ThreadTypes
    <3>2. \A o \in Requests : o # r => req'[o] = req[o]
      BY <2>3, <1>t DEF ThreadTypes
    <3> QED BY <2>1, <2>2, <3>1, <3>2, MovesOn
  <2> QED BY <2>a, <2>3, <2>4, <2>5 DEF References, UndoPoints
<1>9. ASSUME NEW r \in Requests, Renames(r) PROVE References'
  <2>a. up = "serving"
    BY <1>9 DEF Renames, Custody, Idle
  <2>1. \A o \in Pids : (Exists(o) <=> Exists(o)') /\ (Exists(o) => proj'[o].user = proj[o].user)
    BY <1>9, <1>h, <1>t, RenameEffect DEF Exists
  <2>2. UNCHANGED <<users, nextPid, member, rows, scans, up>> /\ req' = [req EXCEPT ![r] = Idle]
    BY <1>9 DEF Renames, Done
  <2>3. NothingDangles'
    BY <2>1, <2>2, <1>t DEF References, NothingDangles, DbTypes, ScanRows
  <2>4. ThreadsPoint'
    BY <2>1, <2>2, <1>h, <1>t, HandlerIs DEF References, ThreadsPoint, ThreadTypes, Idle
  <2> QED BY <2>a, <2>2, <2>3, <2>4 DEF References, UndoPoints
<1>10. ASSUME NEW r \in Requests, Deletes(r) PROVE References'
  <2>a. up = "serving"
    BY <1>10 DEF Deletes, Custody, Idle
  <2>1. PICK ps : /\ Deletable(ps) /\ DropProjects(ps, req[r].user) /\ scans' = Orphaned(ps)
                  /\ member' = {m \in member : m.project \notin ps}
    BY <1>10 DEF Deletes
  <2>2. UNCHANGED <<users, nextPid, rows, up>> /\ req' = [req EXCEPT ![r] = Idle]
    BY <1>10 DEF Deletes, Done
  <2>3. \A p \in Pids : proj'[p] = IF p \in ps THEN None ELSE proj[p]
    BY <2>1, <1>t, DropEffect
  <2>4. \A s \in Runs : scans'[s] # None =>
          /\ scans[s] # None /\ scans'[s].user = scans[s].user
          /\ \/ scans'[s].project = None
             \/ scans'[s].project = scans[s].project /\ scans[s].project \notin ps
    BY <2>1, <1>t DEF Orphaned, DbTypes, ScanRows
  <2>5. NothingDangles'
    BY <2>1, <2>2, <2>3, <2>4, <1>t
       DEF References, NothingDangles, Exists, Deletable, DbTypes, ScanRows
  <2>6. ThreadsPoint'
    BY <2>2, <2>3, <1>h, <1>t, HandlerIs DEF References, ThreadsPoint, ThreadTypes, Exists, Idle
  <2> QED BY <2>a, <2>2, <2>5, <2>6 DEF References, UndoPoints
<1>11. ASSUME NEW r \in Requests, SetsMember(r) PROVE References'
  BY <1>11, <1>h
     DEF SetsMember, Done, Custody, References, NothingDangles, ThreadsPoint, UndoPoints,
         Exists, Idle
<1>12. ASSUME NEW r \in Requests, Annotates(r) PROVE References'
  <2>a. up = "serving"
    BY <1>12 DEF Annotates, Custody, Idle
  <2>1. \A w \in rows' : \/ w \in rows
                         \/ w.by = req[r].user /\ w.project = req[r].project
    BY <1>12 DEF Annotates
  <2>2. req[r].user \in users /\ (rows' = rows \/ Exists(req[r].project))
    <3>1. \A w \in rows : Exists(w.project)
      BY DEF References, NothingDangles
    <3> QED BY <1>12, <3>1 DEF Annotates, RowsAt
  <2>3. UNCHANGED <<users, proj, nextPid, member, scans, up>> /\ req' = [req EXCEPT ![r] = Idle]
    BY <1>12 DEF Annotates, Done
  <2>4. NothingDangles'
    BY <2>1, <2>2, <2>3 DEF References, NothingDangles, Exists
  <2>5. ThreadsPoint'
    BY <2>3, <1>t DEF References, ThreadsPoint, ThreadTypes, Exists, Idle
  <2> QED BY <2>a, <2>3, <2>4, <2>5 DEF References, UndoPoints
<1>13. ASSUME NEW r \in Requests, Erases(r) PROVE References'
  BY <1>13
     DEF Erases, Done, References, NothingDangles, ThreadsPoint, UndoPoints, ScansPoint,
         Exists, Idle
<1>14. ASSUME NEW r \in Requests, Uploads(r) PROVE References'
  BY <1>14
     DEF Uploads, Done, References, NothingDangles, ThreadsPoint, UndoPoints, ScansPoint,
         Exists, Idle
<1>15. ASSUME NEW r \in Requests, Unlinks(r) PROVE References'
  BY <1>15
     DEF Unlinks, Done, References, NothingDangles, ThreadsPoint, UndoPoints, ScansPoint,
         Exists, Idle
<1>16. ASSUME NEW r \in Requests, RecordsScan(r) PROVE References'
  BY <1>16
     DEF RecordsScan, Done, References, NothingDangles, ThreadsPoint, UndoPoints,
         ScansPoint, Exists, Idle
<1>17. ASSUME NEW r \in Requests, DeletesUser(r) PROVE References'
  <2>a. up = "serving"
    BY <1>17 DEF DeletesUser, Custody, Idle
  <2> DEFINE v == req[r].who
  <2>1. /\ UserDeletable(v) /\ DropProjects(Owned(v), None)
        /\ users' = users \ {v}
        /\ member' = {m \in member : m.user # v /\ m.project \notin Owned(v)}
        /\ scans' = [s \in Runs |-> IF scans[s] # None /\ scans[s].user = v THEN None
                                    ELSE Orphaned(Owned(v))[s]]
    BY <1>17 DEF DeletesUser
  <2>2. UNCHANGED <<nextPid, rows, up>> /\ req' = [req EXCEPT ![r] = Idle]
    BY <1>17 DEF DeletesUser, Done
  <2>3. \A p \in Pids : proj'[p] = IF p \in Owned(v) THEN None ELSE proj[p]
    BY <2>1, <1>t, DropEffect
  <2>4. \A s \in Runs : scans'[s] # None =>
          /\ scans[s] # None /\ scans[s].user # v /\ scans'[s].user = scans[s].user
          /\ \/ scans'[s].project = None
             \/ scans'[s].project = scans[s].project /\ scans[s].project \notin Owned(v)
    BY <2>1, <1>t DEF Orphaned, DbTypes, ScanRows
  <2>5. \A w \in rows : w.project \notin Owned(v) /\ w.by # v
    BY <2>1 DEF UserDeletable, Deletable
  <2>6. \A m \in member' : m.by # v
    BY <2>1 DEF UserDeletable
  <2>7. NothingDangles'
    BY <2>1, <2>2, <2>3, <2>4, <2>5, <2>6, <1>t
       DEF References, NothingDangles, Exists, DbTypes, ScanRows
  <2>8. ThreadsPoint'
    BY <2>2, <2>3, <1>h, <1>t, HandlerIs DEF References, ThreadsPoint, ThreadTypes, Exists, Idle
  <2> QED BY <2>a, <2>2, <2>7, <2>8 DEF References, UndoPoints
<1>18. ASSUME NEW r \in Requests, ClearsFiles(r) PROVE References'
  BY <1>18
     DEF ClearsFiles, References, NothingDangles, ThreadsPoint, UndoPoints, ScansPoint,
         Exists
<1>19. ASSUME NEW r \in Requests, Streams(r) PROVE References'
  BY <1>19 DEF Streams, References, NothingDangles, ThreadsPoint, UndoPoints, ScansPoint, Exists
<1>20. ASSUME NEW r \in Requests, Fails(r) PROVE References'
  BY <1>20
     DEF Fails, Done, References, NothingDangles, ThreadsPoint, UndoPoints, ScansPoint,
         Exists, Idle
<1>21. CASE UNCHANGED vars
  BY <1>21 DEF vars, References, NothingDangles, ThreadsPoint, UndoPoints, ScansPoint, Exists
<1> QED
  BY <1>1, <1>2, <1>3, <1>4, <1>5, <1>6, <1>7, <1>8, <1>9, <1>10, <1>11, <1>12, <1>13,
     <1>14, <1>15, <1>16, <1>17, <1>18, <1>19, <1>20, <1>21
     DEF Next, Request, Commits

\* Nobody takes the Default project of a user the migration has visited.
LEMMA DefaultsStep ==
  ASSUME WorkspaceTypes, Custody, References, Defaults, [Next]_vars
  PROVE  Defaults'
<1>h. \A r \in Requests : req[r] \in Handlers
  BY DEF WorkspaceTypes, ThreadTypes
<1>t. WorkspaceTypes /\ DbTypes /\ ThreadTypes /\ DiskTypes
  BY DEF WorkspaceTypes
<1>n. nextPid \in Nat /\ \A p \in Pids : p \in Nat
  BY WorkspaceAssumption DEF WorkspaceTypes, DbTypes, Pids, WorkspaceAssumption
<1> USE DEF db, disk, boot
<1>1. CASE Boot
  <2>1. UNCHANGED proj /\ todo' = users /\ users' = users /\ up' = "migrating"
    BY <1>1 DEF Boot
  <2> QED BY <2>1, FewerProjects DEF Defaults, VisitedHaveDefault, DefaultIsSafe
<1>2. CASE MigrationCommits
  <2>1. UNCHANGED <<proj, users, req>> /\ todo = {} /\ seeded' = users
    BY <1>2 DEF MigrationCommits
  <2>2. up = "migrating" /\ up' = "serving"
    BY <1>2 DEF MigrationCommits
  <2>3. \A u : Named(u, "Default")' = Named(u, "Default")
    BY <2>1 DEF Named, Owned, Exists
  <2>4. \A o \in Requests : req[o].op = "none"
    BY <2>2 DEF Custody, Idle
  <2>5. DefaultIsSafe'
    BY <2>1, <2>2, <2>3, <2>4 DEF Defaults, VisitedHaveDefault, DefaultIsSafe
  <2> QED BY <2>1, <2>2, <2>5, FewerProjects DEF Defaults, VisitedHaveDefault
<1>3. CASE MigrationFails
  <2>1. proj' = undo.proj /\ seeded' = {} /\ up' # "migrating" /\ up = "migrating"
    BY <1>3 DEF MigrationFails
  <2>2. OneEach'
    BY <2>1, FewerProjects DEF Defaults, Custody
  <2> QED BY <2>1, <2>2 DEF Defaults, VisitedHaveDefault, DefaultIsSafe
<1>4. CASE Crash
  <2>1. UNCHANGED proj /\ up' = "down"
    BY <1>4 DEF Crash
  <2> QED BY <2>1, FewerProjects DEF Defaults, VisitedHaveDefault, DefaultIsSafe
<1>5. ASSUME NEW u \in Users, Migrate(u) PROVE Defaults'
  <2>1. up = "migrating" /\ up' = "migrating" /\ todo' = todo \ {u} /\ users' = users
    BY <1>5 DEF Migrate
  <2>2. OneEach' /\ Named(u, "Default")' # {} /\ \A p \in Pids : proj[p] # None => proj'[p] = proj[p]
    <3>1. CASE AddProject(u, "Default")
      <4>1. /\ nextPid \in Pids /\ ~Exists(nextPid) /\ Named(u, "Default") = {}
            /\ proj'[nextPid] # None /\ proj'[nextPid].user = u /\ proj'[nextPid].name = "Default"
            /\ \A p \in Pids : p # nextPid => proj'[p] = proj[p]
        BY <3>1, <1>t, AddEffect DEF ProjectNames
      <4>2. OneEach'
        BY <4>1, OneMoreProject DEF Defaults, ProjectNames
      <4>3. nextPid \in Named(u, "Default")'
        BY <4>1, NamedThen
      <4> QED BY <4>1, <4>2, <4>3 DEF Exists
    <3>2. CASE Named(u, "Default") # {} /\ UNCHANGED proj
      <4>1. Named(u, "Default")' = Named(u, "Default")
        BY <3>2, NamedIs, NamedThen
      <4>2. OneEach'
        BY <3>2, FewerProjects DEF Defaults
      <4> QED BY <3>2, <4>1, <4>2
    <3> QED BY <1>5, <3>1, <3>2 DEF Migrate
  <2>3. ASSUME NEW v \in users \ todo, v # u PROVE Named(v, "Default")' # {}
    <3>1. PICK p : p \in Named(v, "Default")
      BY <2>1, <2>3 DEF Defaults, VisitedHaveDefault
    <3>2. p \in Named(v, "Default")'
      BY <2>2, <3>1, NamedIs, NamedThen
    <3> QED BY <3>2
  <2> QED BY <2>1, <2>2, <2>3 DEF Defaults, VisitedHaveDefault, DefaultIsSafe
<1>6. ASSUME NEW r \in Requests, Begin(r) PROVE Defaults'
  <2>1. PICK q \in Handlers :
          /\ req' = [req EXCEPT ![r] = q]
          /\ q.op \in {"rename", "delete"} => proj[q.project].name # "Default"
    BY <1>6, <1>t, BeginIs
  <2>2. UNCHANGED <<proj, users, todo, seeded, up>>
    BY <1>6 DEF Begin
  <2>3. \A v, n : Named(v, n)' = Named(v, n)
    BY <2>2 DEF Named, Owned, Exists
  <2>4. \A o \in Requests : req'[o] = IF o = r THEN q ELSE req[o]
    <3>1. req \in [Requests -> Handlers]
      BY <1>t DEF ThreadTypes
    <3> QED BY <2>1, <3>1
  <2>5. q.op \in {"rename", "delete"} => \A v : q.project \notin Named(v, "Default")
    <3>1. ASSUME NEW v, q.project \in Named(v, "Default") PROVE proj[q.project].name = "Default"
      BY <3>1 DEF Named, Owned
    <3> QED BY <2>1, <3>1
  <2>6. DefaultIsSafe'
    BY <2>2, <2>3, <2>4, <2>5 DEF Defaults, DefaultIsSafe
  <2> QED BY <2>2, <2>3, <2>6 DEF Defaults, OneEach, VisitedHaveDefault
<1>7. ASSUME NEW r \in Requests, Creates(r) PROVE Defaults'
  <2>a. up = "serving"
    BY <1>7 DEF Creates, Custody, Idle
  <2> DEFINE v == req[r].user
             n == req[r].name
  <2>0. req[r].user \in Users /\ req[r].name \in ProjectNames
    BY <1>7, <1>h, HandlerIs DEF Creates, ProjectNames
  <2>1. /\ Named(v, n) = {} /\ proj'[nextPid].user = v /\ proj'[nextPid].name = n
        /\ ~Exists(nextPid) /\ \A p \in Pids : p # nextPid => proj'[p] = proj[p]
    BY <1>7, <2>0, <1>t, AddEffect DEF Creates
  <2>2. OneEach'
    BY <2>0, <2>1, OneMoreProject DEF Defaults
  <2>3. UNCHANGED <<users, seeded, up>>
    BY <1>7 DEF Creates
  <2>4. \A u, p : p \in Named(u, "Default") => proj'[p] = proj[p]
    BY <2>1, NamedIs DEF Exists
  <2>5. ASSUME NEW o \in Requests, req'[o].op \in {"rename", "delete"}, NEW u \in seeded \cap users
        PROVE  req'[o].project \notin Named(u, "Default")'
    <3>1. o # r /\ req'[o] = req[o]
      BY <1>7, <2>5, <1>t DEF Creates, Done, ThreadTypes, Idle
    <3>2. req[o].project < nextPid
      BY <2>5, <3>1 DEF References, ThreadsPoint
    <3>3. req[o].project # nextPid
      BY <3>2, <1>n
    <3>4. req[o].project \notin Named(u, "Default")
      BY <2>a, <2>5, <3>1 DEF Defaults, DefaultIsSafe
    <3> QED BY <2>1, <3>1, <3>3, <3>4, NamedIs, NamedThen
  <2>6. DefaultIsSafe'
    BY <2>3, <2>4, <2>5, StaysSafe DEF Defaults
  <2> QED BY <2>a, <2>2, <2>3, <2>6 DEF Defaults, VisitedHaveDefault
<1>8. ASSUME NEW r \in Requests, EnsuresDefault(r) PROVE Defaults'
  <2>a. up = "serving"
    BY <1>8 DEF EnsuresDefault, Custody, Idle
  <2> DEFINE v == req[r].user
             n == "Default"
  <2>0. req[r].user \in Users /\ "Default" \in ProjectNames
    BY <1>8, <1>h, HandlerIs DEF EnsuresDefault, ProjectNames
  <2>1. /\ Named(v, n) = {} /\ proj'[nextPid].user = v /\ proj'[nextPid].name = n
        /\ ~Exists(nextPid) /\ \A p \in Pids : p # nextPid => proj'[p] = proj[p]
    BY <1>8, <2>0, <1>t, AddEffect DEF EnsuresDefault
  <2>2. OneEach'
    BY <2>0, <2>1, OneMoreProject DEF Defaults
  <2>3. UNCHANGED <<users, seeded, up>>
    BY <1>8 DEF EnsuresDefault
  <2>4. \A u, p : p \in Named(u, "Default") => proj'[p] = proj[p]
    BY <2>1, NamedIs DEF Exists
  <2>5. ASSUME NEW o \in Requests, req'[o].op \in {"rename", "delete"}, NEW u \in seeded \cap users
        PROVE  req'[o].project \notin Named(u, "Default")'
    <3>1. o # r /\ req'[o] = req[o]
      BY <1>8, <2>5, <1>t DEF EnsuresDefault, ThreadTypes, Idle
    <3>2. req[o].project < nextPid
      BY <2>5, <3>1 DEF References, ThreadsPoint
    <3>3. req[o].project # nextPid
      BY <3>2, <1>n
    <3>4. req[o].project \notin Named(u, "Default")
      BY <2>a, <2>5, <3>1 DEF Defaults, DefaultIsSafe
    <3> QED BY <2>1, <3>1, <3>3, <3>4, NamedIs, NamedThen
  <2>6. DefaultIsSafe'
    BY <2>3, <2>4, <2>5, StaysSafe DEF Defaults
  <2> QED BY <2>a, <2>2, <2>3, <2>6 DEF Defaults, VisitedHaveDefault
<1>9. ASSUME NEW r \in Requests, Renames(r) PROVE Defaults'
  <2>a. up = "serving"
    BY <1>9 DEF Renames, Custody, Idle
  <2> DEFINE p == req[r].project
             v == proj[req[r].project].user
  <2>1. /\ p \in Pids /\ proj[p] # None /\ proj'[p].user = v /\ proj'[p].name = req[r].name
        /\ Named(v, req[r].name) \subseteq {p} /\ req[r].name \in ProjectNames /\ v \in Users
        /\ \A o \in Pids : o # p => proj'[o] = proj[o]
    BY <1>9, <1>h, <1>t, RenameEffect DEF Exists
  <2>2. UNCHANGED <<users, seeded, up>> /\ req[r].op = "rename" /\ req' = [req EXCEPT ![r] = Idle]
    BY <1>9 DEF Renames, Done
  <2>3. OneEach'
    <3> SUFFICES ASSUME NEW u \in Users, NEW n \in ProjectNames,
                        NEW k \in Named(u, n)', NEW q \in Named(u, n)'
                 PROVE  k = q
      BY DEF OneEach
    <3>1. \A j \in {k, q} : j # p => j \in Named(u, n)
      BY <2>1, NamedIs, NamedThen
    <3>2. p \in {k, q} => u = v /\ n = req[r].name
      BY <2>1, NamedThen
    <3> QED BY <2>1, <3>1, <3>2 DEF Defaults, OneEach
  <2>4. \A u \in seeded \cap users : p \notin Named(u, "Default") /\ Named(u, "Default") # {}
    BY <2>a, <2>2 DEF Defaults, DefaultIsSafe
  <2>5. \A u \in seeded \cap users : p \notin Named(u, "Default")'
    <3> SUFFICES ASSUME NEW u \in seeded \cap users, p \in Named(u, "Default")'
                 PROVE  FALSE
      OBVIOUS
    <3>1. u = v /\ req[r].name = "Default"
      BY <2>1, NamedThen
    <3> QED BY <2>1, <2>4, <3>1
  <2>6. \A u \in seeded \cap users : \A k \in Named(u, "Default") : proj'[k] = proj[k]
    BY <2>1, <2>4, NamedIs
  <2>7. ASSUME NEW o \in Requests, req'[o].op \in {"rename", "delete"}, NEW u \in seeded \cap users
        PROVE  req'[o].project \notin Named(u, "Default")'
    <3>1. o # r /\ req'[o] = req[o]
      BY <2>2, <2>7, <1>t DEF ThreadTypes, Idle
    <3>2. req[o].project \notin Named(u, "Default")
      BY <2>a, <2>7, <3>1 DEF Defaults, DefaultIsSafe
    <3> QED BY <2>1, <2>5, <3>1, <3>2, NamedIs, NamedThen
  <2>8. DefaultIsSafe'
    BY <2>2, <2>6, <2>7, StaysSafe DEF Defaults
  <2> QED BY <2>a, <2>2, <2>3, <2>8 DEF Defaults, VisitedHaveDefault
<1>10. ASSUME NEW r \in Requests, Deletes(r) PROVE Defaults'
  <2>a. up = "serving"
    BY <1>10 DEF Deletes, Custody, Idle
  <2>1. PICK ps : ps \subseteq {req[r].project} /\ DropProjects(ps, req[r].user)
    BY <1>10 DEF Deletes
  <2>2. /\ UNCHANGED <<users, seeded, up>> /\ req' = [req EXCEPT ![r] = Idle]
        /\ req[r].op = "delete"
    BY <1>10 DEF Deletes, Done
  <2>3. \A u \in seeded \cap users' : \A p \in Named(u, "Default") : p \notin ps
    BY <2>a, <2>1, <2>2 DEF Defaults, DefaultIsSafe
  <2>4. \A p \in Pids : proj'[p] = IF p \in ps THEN None ELSE proj[p]
    BY <2>1, <1>t, DropEffect
  <2>5. OneEach'
    BY <2>4, FewerProjects DEF Defaults
  <2>6. \A u, p : p \in Named(u, "Default")' => p \in Named(u, "Default")
    BY <2>4, NamedIs, NamedThen
  <2>7. ASSUME NEW o \in Requests, req'[o].op \in {"rename", "delete"},
               NEW u \in seeded \cap users'
        PROVE  req'[o].project \notin Named(u, "Default")'
    <3>1. o # r /\ req'[o] = req[o]
      BY <2>2, <2>7, <1>t DEF ThreadTypes, Idle
    <3>2. req[o].project \notin Named(u, "Default")
      BY <2>a, <2>2, <2>7, <3>1 DEF Defaults, DefaultIsSafe
    <3> QED BY <2>6, <3>1, <3>2
  <2>8. \A u \in seeded \cap users' : \A p \in Named(u, "Default") : proj'[p] = proj[p]
    BY <2>3, <2>4, NamedIs
  <2>9. DefaultIsSafe'
    BY <2>2, <2>7, <2>8, StaysSafe DEF Defaults
  <2> QED BY <2>a, <2>2, <2>5, <2>9 DEF Defaults, VisitedHaveDefault
<1>11. ASSUME NEW r \in Requests, SetsMember(r) PROVE Defaults'
  <2>1. UNCHANGED <<proj, users, todo, seeded, up>>
    BY <1>11 DEF SetsMember
  <2>2. \A o \in Requests : req'[o].op \in {"rename", "delete"} =>
          req[o].op \in {"rename", "delete"} /\ req'[o].project = req[o].project
    BY <1>11, <1>t, <1>h, HandlerIs DEF SetsMember, Done, ThreadTypes, Idle
  <2> QED BY <2>1, <2>2, QuietHere
<1>12. ASSUME NEW r \in Requests, Annotates(r) PROVE Defaults'
  <2>1. UNCHANGED <<proj, users, todo, seeded, up>>
    BY <1>12 DEF Annotates
  <2>2. \A o \in Requests : req'[o].op \in {"rename", "delete"} =>
          req[o].op \in {"rename", "delete"} /\ req'[o].project = req[o].project
    BY <1>12, <1>t, <1>h, HandlerIs DEF Annotates, Done, RowsAt, ThreadTypes, Idle
  <2> QED BY <2>1, <2>2, QuietHere
<1>13. ASSUME NEW r \in Requests, Erases(r) PROVE Defaults'
  <2>1. UNCHANGED <<proj, users, todo, seeded, up>>
    BY <1>13 DEF Erases
  <2>2. \A o \in Requests : req'[o].op \in {"rename", "delete"} =>
          req[o].op \in {"rename", "delete"} /\ req'[o].project = req[o].project
    BY <1>13, <1>t, <1>h, HandlerIs DEF Erases, Done, RowsAt, ThreadTypes, Idle
  <2> QED BY <2>1, <2>2, QuietHere
<1>14. ASSUME NEW r \in Requests, Uploads(r) PROVE Defaults'
  <2>1. UNCHANGED <<proj, users, todo, seeded, up>>
    BY <1>14 DEF Uploads
  <2>2. \A o \in Requests : req'[o].op \in {"rename", "delete"} =>
          req[o].op \in {"rename", "delete"} /\ req'[o].project = req[o].project
    BY <1>14, <1>t, <1>h, HandlerIs DEF Uploads, Done, ThreadTypes, Idle
  <2> QED BY <2>1, <2>2, QuietHere
<1>15. ASSUME NEW r \in Requests, Unlinks(r) PROVE Defaults'
  <2>1. UNCHANGED <<proj, users, todo, seeded, up>>
    BY <1>15 DEF Unlinks
  <2>2. \A o \in Requests : req'[o].op \in {"rename", "delete"} =>
          req[o].op \in {"rename", "delete"} /\ req'[o].project = req[o].project
    BY <1>15, <1>t, <1>h, HandlerIs DEF Unlinks, Done, ThreadTypes, Idle
  <2> QED BY <2>1, <2>2, QuietHere
<1>16. ASSUME NEW r \in Requests, RecordsScan(r) PROVE Defaults'
  <2>1. UNCHANGED <<proj, users, todo, seeded, up>>
    BY <1>16 DEF RecordsScan
  <2>2. \A o \in Requests : req'[o].op \in {"rename", "delete"} =>
          req[o].op \in {"rename", "delete"} /\ req'[o].project = req[o].project
    BY <1>16, <1>t, <1>h, HandlerIs DEF RecordsScan, Done, ThreadTypes, Idle
  <2> QED BY <2>1, <2>2, QuietHere
<1>17. ASSUME NEW r \in Requests, DeletesUser(r) PROVE Defaults'
  <2>a. up = "serving"
    BY <1>17 DEF DeletesUser, Custody, Idle
  <2> DEFINE ps == Owned(req[r].who)
  <2>1. DropProjects(ps, None)
    BY <1>17 DEF DeletesUser
  <2>2. /\ UNCHANGED <<seeded, up>> /\ req' = [req EXCEPT ![r] = Idle]
        /\ users' = users \ {req[r].who}
    BY <1>17 DEF DeletesUser, Done
  <2>3. \A u \in seeded \cap users' : \A p \in Named(u, "Default") : p \notin ps
    BY <2>2, NamedIs DEF Owned
  <2>4. \A p \in Pids : proj'[p] = IF p \in ps THEN None ELSE proj[p]
    BY <2>1, <1>t, DropEffect
  <2>5. OneEach'
    BY <2>4, FewerProjects DEF Defaults
  <2>6. \A u, p : p \in Named(u, "Default")' => p \in Named(u, "Default")
    BY <2>4, NamedIs, NamedThen
  <2>7. ASSUME NEW o \in Requests, req'[o].op \in {"rename", "delete"},
               NEW u \in seeded \cap users'
        PROVE  req'[o].project \notin Named(u, "Default")'
    <3>1. o # r /\ req'[o] = req[o]
      BY <2>2, <2>7, <1>t DEF ThreadTypes, Idle
    <3>2. req[o].project \notin Named(u, "Default")
      BY <2>a, <2>2, <2>7, <3>1 DEF Defaults, DefaultIsSafe
    <3> QED BY <2>6, <3>1, <3>2
  <2>8. \A u \in seeded \cap users' : \A p \in Named(u, "Default") : proj'[p] = proj[p]
    BY <2>3, <2>4, NamedIs
  <2>9. DefaultIsSafe'
    BY <2>2, <2>7, <2>8, StaysSafe DEF Defaults
  <2> QED BY <2>a, <2>2, <2>5, <2>9 DEF Defaults, VisitedHaveDefault
<1>18. ASSUME NEW r \in Requests, ClearsFiles(r) PROVE Defaults'
  <2>1. UNCHANGED <<proj, users, todo, seeded, up>>
    BY <1>18 DEF ClearsFiles
  <2>2. \A o \in Requests : req'[o].op \in {"rename", "delete"} =>
          req[o].op \in {"rename", "delete"} /\ req'[o].project = req[o].project
    BY <1>18, <1>t, <1>h, HandlerIs DEF ClearsFiles, ThreadTypes, Idle
  <2> QED BY <2>1, <2>2, QuietHere
<1>19. ASSUME NEW r \in Requests, Streams(r) PROVE Defaults'
  <2>1. UNCHANGED <<proj, users, todo, seeded, up>>
    BY <1>19 DEF Streams
  <2>2. \A o \in Requests : req'[o].op \in {"rename", "delete"} =>
          req[o].op \in {"rename", "delete"} /\ req'[o].project = req[o].project
    BY <1>19, <1>t, <1>h, HandlerIs DEF Streams, ThreadTypes, Idle
  <2> QED BY <2>1, <2>2, QuietHere
<1>20. ASSUME NEW r \in Requests, Fails(r) PROVE Defaults'
  <2>1. UNCHANGED <<proj, users, todo, seeded, up>>
    BY <1>20 DEF Fails
  <2>2. \A o \in Requests : req'[o].op \in {"rename", "delete"} =>
          req[o].op \in {"rename", "delete"} /\ req'[o].project = req[o].project
    BY <1>20, <1>t, <1>h, HandlerIs DEF Fails, Done, ThreadTypes, Idle
  <2> QED BY <2>1, <2>2, QuietHere
<1>21. CASE UNCHANGED vars
  BY <1>21, QuietHere DEF vars
<1> QED
  BY <1>1, <1>2, <1>3, <1>4, <1>5, <1>6, <1>7, <1>8, <1>9, <1>10, <1>11, <1>12, <1>13,
     <1>14, <1>15, <1>16, <1>17, <1>18, <1>19, <1>20, <1>21
     DEF Next, Request, Commits

\* No step leaves a capture without a project that is there or torn.
LEMMA DirectoriesStep ==
  ASSUME WorkspaceTypes, Custody, Directories, [Next]_vars
  PROVE  Directories'
<1>h. \A r \in Requests : req[r] \in Handlers
  BY DEF WorkspaceTypes, ThreadTypes
<1>t. WorkspaceTypes /\ DbTypes /\ ThreadTypes /\ DiskTypes
  BY DEF WorkspaceTypes
<1>n. nextPid \in Nat /\ \A p \in Pids : p \in Nat
  BY WorkspaceAssumption DEF WorkspaceTypes, DbTypes, Pids, WorkspaceAssumption
<1> USE DEF db, disk, boot
<1>1. CASE Boot
  <2>1. files' \subseteq files /\ torn' = torn /\ UNCHANGED proj
    BY <1>1 DEF Boot
  <2>2. \A o \in Requests : req'[o] = req[o] \/ req'[o].op \notin {"upload", "delete"}
    BY <1>1, <1>t DEF Boot, ThreadTypes, Idle
  <2> QED BY <2>1, <2>2, <1>t, NoNewFile
<1>2. CASE MigrationCommits
  <2>1. files' \subseteq files /\ torn' = torn /\ UNCHANGED proj
    BY <1>2 DEF MigrationCommits
  <2>2. \A o \in Requests : req'[o] = req[o] \/ req'[o].op \notin {"upload", "delete"}
    BY <1>2, <1>t DEF MigrationCommits, ThreadTypes, Idle
  <2> QED BY <2>1, <2>2, <1>t, NoNewFile
<1>3. CASE MigrationFails
  <2>1. /\ proj' = undo.proj /\ UNCHANGED <<files, req>> /\ up = "migrating"
        /\ torn' = torn \cup {p \in Pids : Exists(p) /\ undo.proj[p] = None}
    BY <1>3 DEF MigrationFails
  <2>2. \A o \in Requests : req'[o].op = "none"
    BY <2>1 DEF Custody, Idle
  <2> QED BY <2>1, <2>2, <1>t, NoNewFile DEF Exists
<1>4. CASE Crash
  <2>1. files' \subseteq files /\ torn' = torn /\ UNCHANGED proj
    BY <1>4 DEF Crash
  <2>2. \A o \in Requests : req'[o] = req[o] \/ req'[o].op \notin {"upload", "delete"}
    BY <1>4, <1>t DEF Crash, ThreadTypes, Idle
  <2> QED BY <2>1, <2>2, <1>t, NoNewFile
<1>5. ASSUME NEW u \in Users, Migrate(u) PROVE Directories'
  <2>1. UNCHANGED <<req, torn>> /\ up = "migrating"
    BY <1>5 DEF Migrate
  <2>2. PICK k \in Pids : /\ MoveFlat(u, k) /\ proj'[k] # None
                         /\ \A p \in Pids : proj[p] # None => proj'[p] # None
    <3>1. CASE AddProject(u, "Default") /\ MoveFlat(u, nextPid)
      <4>1. nextPid \in Pids /\ proj'[nextPid] # None
            /\ \A p \in Pids : p # nextPid => proj'[p] = proj[p]
        BY <3>1, <1>t, AddEffect DEF ProjectNames
      <4> QED BY <3>1, <4>1
    <3>2. CASE \E p \in Named(u, "Default") : MoveFlat(u, p) /\ UNCHANGED <<proj, nextPid>>
      BY <3>2 DEF Named, Owned, Exists
    <3> QED BY <1>5, <3>1, <3>2 DEF Migrate
  <2>3. \A f \in files' : f \in files \/ f.project = k
    BY <2>2 DEF MoveFlat
  <2>4. DeletedLeavesNoFile'
    <3>1. \A f \in files : f.project \in Pids
      BY <1>t DEF DiskTypes, Captures
    <3> QED BY <2>1, <2>2, <2>3, <3>1 DEF Directories, DeletedLeavesNoFile, Exists
  <2>5. \A o \in Requests : req'[o].op = "none"
    BY <2>1 DEF Custody, Idle
  <2> QED BY <2>4, <2>5 DEF Directories, UploadsHaveProject, ClearedStaysClear
<1>6. ASSUME NEW r \in Requests, Begin(r) PROVE Directories'
  <2>1. PICK q \in Handlers :
          /\ req' = [req EXCEPT ![r] = q]
          /\ q.op = "upload" => Exists(q.project)
          /\ q.op = "delete" => ~q.cleared
    BY <1>6, <1>t, BeginIs
  <2>2. UNCHANGED <<files, torn, proj>>
    BY <1>6 DEF Begin
  <2>3. \A o \in Requests : req'[o] = IF o = r THEN q ELSE req[o]
    BY <2>1, <1>t DEF ThreadTypes
  <2>4. \A o \in Requests : req'[o].op = "upload" =>
           \/ req[o].op = "upload" /\ req'[o].project = req[o].project
           \/ proj'[req'[o].project] # None
    BY <2>1, <2>2, <2>3 DEF Exists
  <2> QED BY <2>1, <2>2, <2>3, <2>4, <1>t, NoNewFile
<1>7. ASSUME NEW r \in Requests, Creates(r) PROVE Directories'
  <2>1. \A p \in Pids : proj[p] # None => proj'[p] # None
    BY <1>7, <1>h, <1>t, HandlerIs, AddEffect DEF Creates
  <2>2. UNCHANGED <<files, torn>> /\ req' = [req EXCEPT ![r] = Idle]
    BY <1>7 DEF Creates, Done
  <2>3. \A o \in Requests : req'[o] = req[o] \/ req'[o].op = "none"
    BY <2>2, <1>t DEF ThreadTypes, Idle
  <2> QED BY <2>1, <2>2, <2>3, <1>t, NoNewFile
<1>8. ASSUME NEW r \in Requests, EnsuresDefault(r) PROVE Directories'
  <2>1. /\ \A p \in Pids : proj[p] # None => proj'[p] # None
        /\ proj'[nextPid] # None
    BY <1>8, <1>h, <1>t, HandlerIs, AddEffect DEF EnsuresDefault, ProjectNames
  <2>2. UNCHANGED <<files, torn>>
    BY <1>8 DEF EnsuresDefault
  <2>3. \A o \in Requests : req'[o] = req[o] \/ (req'[o].op = "upload" /\ req'[o].project = nextPid)
    BY <1>8, <1>t DEF EnsuresDefault, ThreadTypes
  <2>4. \A o \in Requests : req'[o].op = "upload" =>
           \/ req[o].op = "upload" /\ req'[o].project = req[o].project
           \/ proj'[req'[o].project] # None
    BY <2>1, <2>3
  <2> QED BY <2>1, <2>2, <2>3, <2>4, <1>t, NoNewFile
<1>9. ASSUME NEW r \in Requests, Renames(r) PROVE Directories'
  <2>1. \A p \in Pids : proj[p] # None => proj'[p] # None
    BY <1>9, <1>h, <1>t, RenameEffect
  <2>2. UNCHANGED <<files, torn>> /\ req' = [req EXCEPT ![r] = Idle]
    BY <1>9 DEF Renames, Done
  <2>3. \A o \in Requests : req'[o] = req[o] \/ req'[o].op = "none"
    BY <2>2, <1>t DEF ThreadTypes, Idle
  <2> QED BY <2>1, <2>2, <2>3, <1>t, NoNewFile
<1>10. ASSUME NEW r \in Requests, Deletes(r) PROVE Directories'
  <2>1. PICK ps : ps \subseteq {req[r].project} /\ DropProjects(ps, req[r].user)
    BY <1>10 DEF Deletes
  <2>2. /\ UNCHANGED files /\ req' = [req EXCEPT ![r] = Idle]
        /\ req[r].op = "delete" /\ req[r].cleared
    BY <1>10 DEF Deletes, Done
  <2>3. /\ torn \subseteq torn'
        /\ \A p \in Pids : proj'[p] = IF p \in ps THEN None ELSE proj[p]
        /\ \A p \in ps :
             Doing("upload", p) \/ (\E f \in files : f.project = p /\ f.user # req[r].user)
               => p \in torn'
    BY <2>1, <1>t, DropEffect
  <2>4. \A o \in Requests : req'[o] = req[o] \/ req'[o].op = "none"
    BY <2>2, <1>t DEF ThreadTypes, Idle
  <2>5. DeletedLeavesNoFile'
    <3> SUFFICES ASSUME NEW f \in files, f.project \in ps PROVE f.project \in torn'
      <4>1. \A f \in files : f.project \in Pids /\ (proj[f.project] # None \/ f.project \in torn)
        BY <1>t DEF DiskTypes, Captures, Directories, DeletedLeavesNoFile, Exists
      <4> QED BY <2>2, <2>3, <4>1 DEF DeletedLeavesNoFile, Exists
    <3>1. CASE f.user = req[r].user
      <4>1. f \in Cleared(req[r].user, req[r].project)
        BY <2>1, <3>1 DEF Cleared
      <4> QED BY <2>2, <2>3, <4>1 DEF Directories, ClearedStaysClear
    <3>2. CASE f.user # req[r].user
      BY <2>3, <3>2
    <3> QED BY <3>1, <3>2
  <2>6. UploadsHaveProject'
    <3> SUFFICES ASSUME NEW o \in Requests, req[o].op = "upload"
                 PROVE  proj'[req[o].project] # None \/ req[o].project \in torn'
      BY <2>4 DEF UploadsHaveProject, Exists
    <3>1. req[o].project \in Pids
      BY <1>h, HandlerIs
    <3>2. req[o].project \in ps => req[o].project \in torn'
      BY <2>3 DEF Doing
    <3> QED BY <2>3, <3>1, <3>2 DEF Directories, UploadsHaveProject, Exists
  <2>7. ClearedStaysClear'
    BY <2>2, <2>3, <2>4 DEF Directories, ClearedStaysClear, Cleared
  <2> QED BY <2>5, <2>6, <2>7 DEF Directories
<1>11. ASSUME NEW r \in Requests, SetsMember(r) PROVE Directories'
  <2>1. files' \subseteq files /\ torn' = torn /\ UNCHANGED proj
    BY <1>11 DEF SetsMember
  <2>2. \A o \in Requests : req'[o] = req[o] \/ req'[o].op \notin {"upload", "delete"}
    BY <1>11, <1>t DEF SetsMember, Done, ThreadTypes, Idle
  <2> QED BY <2>1, <2>2, <1>t, NoNewFile
<1>12. ASSUME NEW r \in Requests, Annotates(r) PROVE Directories'
  <2>1. files' \subseteq files /\ torn' = torn /\ UNCHANGED proj
    BY <1>12 DEF Annotates
  <2>2. \A o \in Requests : req'[o] = req[o] \/ req'[o].op \notin {"upload", "delete"}
    BY <1>12, <1>t DEF Annotates, Done, RowsAt, ThreadTypes, Idle
  <2> QED BY <2>1, <2>2, <1>t, NoNewFile
<1>13. ASSUME NEW r \in Requests, Erases(r) PROVE Directories'
  <2>1. files' \subseteq files /\ torn' = torn /\ UNCHANGED proj
    BY <1>13 DEF Erases
  <2>2. \A o \in Requests : req'[o] = req[o] \/ req'[o].op \notin {"upload", "delete"}
    BY <1>13, <1>t DEF Erases, Done, RowsAt, ThreadTypes, Idle
  <2> QED BY <2>1, <2>2, <1>t, NoNewFile
<1>14. ASSUME NEW r \in Requests, Uploads(r) PROVE Directories'
  <2> DEFINE temp == [user |-> req[r].user, project |-> req[r].project, name |-> r]
             new == [temp EXCEPT !.name = File]
  <2>1. /\ temp \in files /\ files' = (files \ {temp}) \cup {new}
        /\ UNCHANGED <<proj, torn>> /\ req' = [req EXCEPT ![r] = Idle]
    BY <1>14 DEF Uploads, Done
  <2>2. \A o \in Requests : req'[o] = req[o] \/ req'[o].op = "none"
    BY <2>1, <1>t DEF ThreadTypes, Idle
  <2>3. new.user = temp.user /\ new.project = temp.project
    OBVIOUS
  <2>4. \A f \in files' : \E g \in files : f.user = g.user /\ f.project = g.project
    BY <2>1, <2>3
  <2>5. DeletedLeavesNoFile'
    BY <2>1, <2>4 DEF Directories, DeletedLeavesNoFile, Exists
  <2>6. UploadsHaveProject'
    BY <2>1, <2>2 DEF Directories, UploadsHaveProject, Exists
  <2>7. ClearedStaysClear'
    <3> SUFFICES ASSUME NEW o \in Requests, req[o].op = "delete", req[o].cleared,
                        NEW f \in files', f.user = req[o].user, f.project = req[o].project
                 PROVE  f.project \in torn
      BY <2>1, <2>2 DEF ClearedStaysClear, Cleared
    <3>1. PICK g \in files : f.user = g.user /\ f.project = g.project
      BY <2>4
    <3> QED BY <3>1 DEF Directories, ClearedStaysClear, Cleared
  <2> QED BY <2>5, <2>6, <2>7 DEF Directories
<1>15. ASSUME NEW r \in Requests, Unlinks(r) PROVE Directories'
  <2>1. files' \subseteq files /\ torn' = torn /\ UNCHANGED proj
    BY <1>15 DEF Unlinks
  <2>2. \A o \in Requests : req'[o] = req[o] \/ req'[o].op \notin {"upload", "delete"}
    BY <1>15, <1>t DEF Unlinks, Done, ThreadTypes, Idle
  <2> QED BY <2>1, <2>2, <1>t, NoNewFile
<1>16. ASSUME NEW r \in Requests, RecordsScan(r) PROVE Directories'
  <2>1. files' \subseteq files /\ torn' = torn /\ UNCHANGED proj
    BY <1>16 DEF RecordsScan
  <2>2. \A o \in Requests : req'[o] = req[o] \/ req'[o].op \notin {"upload", "delete"}
    BY <1>16, <1>t DEF RecordsScan, Done, ThreadTypes, Idle
  <2> QED BY <2>1, <2>2, <1>t, NoNewFile
<1>17. ASSUME NEW r \in Requests, DeletesUser(r) PROVE Directories'
  <2> DEFINE ps == Owned(req[r].who)
  <2>1. DropProjects(ps, None) /\ UNCHANGED files /\ req' = [req EXCEPT ![r] = Idle]
    BY <1>17 DEF DeletesUser, Done
  <2>2. \A p \in ps : None # proj[p].user
    BY <1>t, WorkspaceAssumption DEF WorkspaceAssumption, DbTypes, ProjectRows, Owned, Exists
  <2>3. /\ torn \subseteq torn'
        /\ \A p \in Pids : proj'[p] = IF p \in ps THEN None ELSE proj[p]
        /\ \A p \in ps : p \in torn'
    BY <2>1, <2>2, <1>t, DropEffect
  <2>4. \A o \in Requests : req'[o] = req[o] \/ req'[o].op = "none"
    BY <2>1, <1>t DEF ThreadTypes, Idle
  <2> HIDE DEF ps
  <2> QED BY <2>1, <2>3, <2>4, <1>t, NoNewFile
<1>18. ASSUME NEW r \in Requests, ClearsFiles(r) PROVE Directories'
  <2>1. /\ files' = files \ Cleared(req[r].user, req[r].project)
        /\ req' = [req EXCEPT ![r].cleared = TRUE] /\ UNCHANGED <<torn, proj>>
        /\ req[r].op = "delete"
    BY <1>18 DEF ClearsFiles
  <2>2. req[r] \in [op : {"delete"}, user : Users, project : Pids, cleared : BOOLEAN]
    BY <1>h, <2>1, HandlerIs
  <2>3. /\ req'[r].op = "delete" /\ req'[r].user = req[r].user
        /\ req'[r].project = req[r].project
    BY <2>1, <2>2, <1>t DEF ThreadTypes
  <2>4. \A o \in Requests : o # r => req'[o] = req[o]
    BY <2>1, <1>t DEF ThreadTypes
  <2>5. \A f \in files' : ~(f.user = req'[r].user /\ f.project = req'[r].project)
    BY <2>1, <2>3 DEF Cleared
  <2>6. files' \subseteq files
    BY <2>1
  <2> QED BY <2>1, <2>3, <2>4, <2>5, <2>6, <1>t, NoNewFile
<1>19. ASSUME NEW r \in Requests, Streams(r) PROVE Directories'
  <2> DEFINE new == [user |-> req[r].user, project |-> req[r].project, name |-> r]
  <2>1. /\ files' = files \cup {new} /\ req' = [req EXCEPT ![r].temp = TRUE]
        /\ UNCHANGED proj /\ req[r].op = "upload" /\ torn \subseteq torn'
        /\ Doing("delete", req[r].project) => req[r].project \in torn'
    BY <1>19 DEF Streams
  <2>2. req[r] \in [op : {"upload"}, user : Users, project : Pids, temp : BOOLEAN]
    BY <1>h, <2>1, HandlerIs
  <2>3. req'[r].op = "upload" /\ req'[r].project = req[r].project
    BY <2>1, <2>2, <1>t DEF ThreadTypes
  <2>4. \A o \in Requests : o # r => req'[o] = req[o]
    BY <2>1, <1>t DEF ThreadTypes
  <2>5. proj[req[r].project] # None \/ req[r].project \in torn
    BY <2>1 DEF Directories, UploadsHaveProject, Exists
  <2>6. DeletedLeavesNoFile'
    BY <2>1, <2>5 DEF Directories, DeletedLeavesNoFile, Exists
  <2>7. UploadsHaveProject'
    BY <2>1, <2>3, <2>4, <2>5 DEF Directories, UploadsHaveProject, Exists
  <2>8. ClearedStaysClear'
    <3> SUFFICES ASSUME NEW o \in Requests, o # r, req[o].op = "delete", req[o].cleared,
                        NEW f \in files', f.user = req[o].user, f.project = req[o].project
                 PROVE  f.project \in torn'
      BY <2>3, <2>4 DEF ClearedStaysClear, Cleared
    <3>1. CASE f \in files
      BY <2>1, <3>1 DEF Directories, ClearedStaysClear, Cleared
    <3>2. CASE f = new
      BY <2>1, <3>2 DEF Doing
    <3> QED BY <2>1, <3>1, <3>2
  <2> QED BY <2>6, <2>7, <2>8 DEF Directories
<1>20. ASSUME NEW r \in Requests, Fails(r) PROVE Directories'
  <2>1. files' \subseteq files /\ torn' = torn /\ UNCHANGED proj
    BY <1>20 DEF Fails
  <2>2. \A o \in Requests : req'[o] = req[o] \/ req'[o].op \notin {"upload", "delete"}
    BY <1>20, <1>t DEF Fails, Done, ThreadTypes, Idle
  <2> QED BY <2>1, <2>2, <1>t, NoNewFile
<1>21. CASE UNCHANGED vars
  BY <1>21, <1>t, NoNewFile DEF vars
<1> QED
  BY <1>1, <1>2, <1>3, <1>4, <1>5, <1>6, <1>7, <1>8, <1>9, <1>10, <1>11, <1>12, <1>13,
     <1>14, <1>15, <1>16, <1>17, <1>18, <1>19, <1>20, <1>21
     DEF Next, Request, Commits

-----------------------------------------------------------------------------
WorkspaceInv == WorkspaceTypes /\ Custody /\ References /\ Defaults /\ Directories

\* A first start, or a restart with one shared project.
LEMMA WorkspaceInit == Init => WorkspaceInv
<1> SUFFICES ASSUME Init PROVE WorkspaceInv
  OBVIOUS
<1>1. /\ users = Users /\ rows = {} /\ files = {} /\ flat \subseteq Users
      /\ up = "down" /\ todo = {} /\ seeded = {} /\ torn = {}
      /\ \A r \in Requests : req[r] = Idle
      /\ req = [r \in Requests |-> Idle]
      /\ scans \in [Runs -> {None} \cup [user : Users, project : {None}]]
  BY DEF Init
<1>2. 1 \in Pids /\ 1 \in 1 .. (MaxProjects + 1) /\ 2 \in 1 .. (MaxProjects + 1)
  BY WorkspaceAssumption DEF Pids, WorkspaceAssumption
<1> DEFINE Start ==
      /\ proj \in [Pids -> {None} \cup ProjectRows]
      /\ nextPid \in 1 .. (MaxProjects + 1)
      /\ \A p \in Pids : p >= nextPid => proj[p] = None
      /\ \A p, q \in Pids : proj[p] # None /\ proj[q] # None => p = q
      /\ member \subseteq [project : Pids, user : Users, role : Roles, by : Users]
      /\ \A m \in member : proj[m.project] # None /\ m.user # proj[m.project].user
<1>3. Start
  <2>1. CASE proj = [p \in Pids |-> None] /\ nextPid = 1 /\ member = {}
    BY <2>1, <1>2
  <2>2. ASSUME NEW u \in Users, NEW v \in Users, NEW n \in Names, NEW role \in Roles, u # v,
               proj = [p \in Pids |-> IF p = 1 THEN [user |-> u, name |-> n] ELSE None],
               nextPid = 2, member = {[project |-> 1, user |-> v, role |-> role, by |-> u]}
        PROVE  Start
    <3>1. [user |-> u, name |-> n] \in ProjectRows /\ [user |-> u, name |-> n] # None
      BY WorkspaceAssumption DEF WorkspaceAssumption, ProjectRows, ProjectNames
    <3>2. \A p \in Pids : proj[p] = IF p = 1 THEN [user |-> u, name |-> n] ELSE None
      BY <2>2
    <3>3. \A p \in Pids : p >= 2 => p # 1
      BY DEF Pids
    <3>4. proj \in [Pids -> {None} \cup ProjectRows]
      BY <2>2, <3>1
    <3>5. \A m \in member : m = [project |-> 1, user |-> v, role |-> role, by |-> u]
      BY <2>2
    <3>6. proj[1].user = u /\ proj[1] # None
      BY <1>2, <3>1, <3>2
    <3>7. member \subseteq [project : Pids, user : Users, role : Roles, by : Users]
      BY <2>2, <1>2
    <3>8. \A m \in member : proj[m.project] # None /\ m.user # proj[m.project].user
      BY <2>2, <3>5, <3>6
    <3>9. \A p, q \in Pids : proj[p] # None /\ proj[q] # None => p = q
      BY <3>2
    <3>10. nextPid \in 1 .. (MaxProjects + 1) /\ \A p \in Pids : p >= nextPid => proj[p] = None
      BY <2>2, <1>2, <3>2, <3>3
    <3> QED BY <3>4, <3>7, <3>8, <3>9, <3>10
  <2> QED BY <2>1, <2>2 DEF Init
<1>4. WorkspaceTypes
  <2>1. scans \in [Runs -> {None} \cup ScanRows]
    BY <1>1 DEF ScanRows
  <2>2. Idle \in Handlers
    BY DEF Idle, Handlers
  <2> QED BY <1>1, <1>3, <2>1, <2>2 DEF WorkspaceTypes, DbTypes, DiskTypes, ThreadTypes
<1>5. \A r \in Requests : req[r].op = "none"
  BY <1>1 DEF Idle
<1>6. Custody
  BY <1>1, <1>3 DEF Custody, Exists
<1>7. References
  <2>1. \A s \in Runs : scans[s] # None => scans[s].user \in users /\ scans[s].project = None
    BY <1>1
  <2>2. NothingDangles
    BY <1>1, <1>3, <2>1 DEF NothingDangles, Exists
  <2> QED BY <1>1, <1>5, <2>2 DEF References, ThreadsPoint, UndoPoints
<1>8. Defaults
  <2>1. OneEach
    BY <1>3 DEF OneEach, Named, Owned, Exists
  <2> QED BY <1>1, <2>1 DEF Defaults, VisitedHaveDefault, DefaultIsSafe
<1>9. Directories
  BY <1>1, <1>5 DEF Directories, DeletedLeavesNoFile, UploadsHaveProject, ClearedStaysClear
<1> QED
  BY <1>4, <1>6, <1>7, <1>8, <1>9 DEF WorkspaceInv

\* The inductive invariant.
LEMMA WorkspaceInvHolds == Spec => []WorkspaceInv
<1>1. WorkspaceInv /\ [Next]_vars => WorkspaceInv'
  BY DbStep, DiskStep, ThreadStep, CustodyStep, ReferencesStep, DefaultsStep, DirectoriesStep
     DEF WorkspaceInv, WorkspaceTypes
<1> QED
  BY <1>1, WorkspaceInit, PTL DEF Spec

\* Tables, directories and threads hold what the code puts there.
THEOREM WorkspaceTypeCorrect == Spec => []WorkspaceTypes
<1>1. WorkspaceInv => WorkspaceTypes
  BY DEF WorkspaceInv
<1> QED
  BY <1>1, WorkspaceInvHolds, PTL

\* However checks and commits of any number of requests, and migrations that are
\* rolled back, fall between each other, no row, member or scan points at a
\* project or a user that is gone.
THEOREM NothingDanglesHolds == Spec => []NothingDangles
<1>1. WorkspaceInv => NothingDangles
  BY DEF WorkspaceInv, References
<1> QED
  BY <1>1, WorkspaceInvHolds, PTL

\* A user whom the last migration visited has exactly one Default project, whatever
\* any number of requests check, rename, share and delete.
THEOREM DefaultStaysHolds == Spec => []DefaultStays
<1>1. ASSUME WorkspaceInv, up = "serving", NEW u \in seeded \cap users
      PROVE  Cardinality(Named(u, "Default")) = 1
  <2>1. PICK p : p \in Named(u, "Default")
    BY <1>1 DEF WorkspaceInv, Defaults, DefaultIsSafe
  <2>2. u \in Users /\ "Default" \in ProjectNames
    BY <1>1 DEF WorkspaceInv, WorkspaceTypes, DbTypes, ProjectNames
  <2>3. Named(u, "Default") = {p}
    BY <1>1, <2>1, <2>2 DEF WorkspaceInv, Defaults, OneEach
  <2> QED BY <2>3, FS_Singleton
<1>2. WorkspaceInv => DefaultStays
  BY <1>1 DEF DefaultStays
<1> QED
  BY <1>2, WorkspaceInvHolds, PTL

\* A capture whose project is gone is in a torn one: a deletion by the creator
\* alone, without an upload on its way, takes all of them.
THEOREM DeletedLeavesNoFileHolds == Spec => []DeletedLeavesNoFile
<1>1. WorkspaceInv => DeletedLeavesNoFile
  BY DEF WorkspaceInv, Directories
<1> QED
  BY <1>1, WorkspaceInvHolds, PTL

=============================================================================
