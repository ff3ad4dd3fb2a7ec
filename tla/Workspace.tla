------------------------------ MODULE Workspace ------------------------------
(***************************************************************************)
(* Projects, members, annotations, uploads and users: the request handlers  *)
(* that keep the database and the directory tree <data>/<user>/<project> in *)
(* step, on PostgreSQL with its foreign keys.                               *)
(*                                                                          *)
(* A handler first checks (access, duplicates, what it will update), then   *)
(* touches the file system, then commits; requests of other threads run in  *)
(* between.  A statement that breaks a constraint raises: the transaction   *)
(* is rolled back and the answer is a 500.  The role checks are taken as    *)
(* guards; sessions and passwords are not modelled.                         *)
(***************************************************************************)
EXTENDS Naturals, FiniteSets

CONSTANTS
  Users, Admins,   \* Admins: those with role "admin"
  Names,           \* project names besides "Default"
  Kinds,           \* what is annotated: "tag", "note", "ioc"
  Keys,            \* asset keys, finding signatures, IOC list names
  Requests,        \* handler threads; a thread's temporary file has its name
  Runs,            \* scan_history rows
  File,            \* the name every upload has
  None,
  MaxProjects,     \* bound: project ids handed out
  MaxRequests,     \* bound: requests in all
  MaxBoots         \* bound: starts of the application

ASSUME WorkspaceAssumption ==
  /\ Admins \subseteq Users /\ Kinds \subseteq {"tag", "note", "ioc"} /\ File \notin Requests
  /\ None \notin Users \cup Names \cup Keys \cup Requests \cup Runs \cup {File}
  /\ None \notin [user : Users, name : Names \cup {"Default"}]
  /\ MaxProjects \in Nat \ {0} /\ MaxRequests \in Nat /\ MaxBoots \in Nat
  /\ None \notin [user : Users, project : {None} \cup 1..MaxProjects]

Pids == 1 .. MaxProjects
Roles == {"viewer", "editor", "owner"}
Rank == [viewer |-> 1, editor |-> 2, owner |-> 3]

VARIABLES
  users,
  proj,      \* projects: pid -> its creator and name, or None
  nextPid,   \* the id sequence, which no rollback turns back
  member,    \* project_members
  rows,      \* asset_tags, finding_notes, ioc_lists
  scans,     \* scan_history: run -> its user and project, or None
  files,     \* captures in <user>/<project>
  flat,      \* users with a capture right under <user>, from before projects
  req,       \* what each thread is doing
  up,        \* "down", "migrating", "serving"
  todo,      \* users the migration has still to visit
  undo,      \* proj and scans when the migration began
  requests, boots,   \* how many so far
  seeded,    \* auxiliary: users the last whole migration visited
  torn       \* auxiliary: projects whose creator was deleted, or whose creation
             \* was rolled back, or deleted by a member, or with uploads of a
             \* member, or while an upload was on its way

db   == <<users, proj, nextPid, member, rows, scans>>
disk == <<files, flat>>
boot == <<up, todo, undo, boots, seeded>>
vars == <<db, disk, req, boot, requests, torn>>

Idle == [op |-> "none"]

\* The database of a first start, or of a restart with one shared project.
Init ==
  /\ users = Users /\ rows = {}
  /\ \/ /\ proj = [p \in Pids |-> None] /\ nextPid = 1 /\ member = {}
     \/ \E u, v \in Users, n \in Names, role \in Roles :
          /\ u # v
          /\ proj = [p \in Pids |-> IF p = 1 THEN [user |-> u, name |-> n] ELSE None]
          /\ nextPid = 2
          /\ member = {[project |-> 1, user |-> v, role |-> role, by |-> u]}
  /\ scans \in [Runs -> {None} \cup [user : Users, project : {None}]]
  /\ files = {} /\ flat \in SUBSET Users
  /\ req = [r \in Requests |-> Idle]
  /\ up = "down" /\ todo = {} /\ undo = None
  /\ requests = 0 /\ boots = 0 /\ seeded = {} /\ torn = {}

Exists(p) == proj[p] # None
Owned(u) == {p \in Pids : Exists(p) /\ proj[p].user = u}
Named(u, n) == {p \in Owned(u) : proj[p].name = n}
RolesIn(u, p) == {m.role : m \in {k \in member : k.project = p /\ k.user = u}}

\* _get_project_for_user
Can(u, p, min) ==
  /\ Exists(p)
  /\ \/ proj[p].user = u
     \/ \E role \in RolesIn(u, p) : Rank[role] >= Rank[min]

\* A new projects row of u named n; the unique constraint may refuse it.
AddProject(u, n) ==
  /\ u \in users /\ Named(u, n) = {} /\ nextPid <= MaxProjects
  /\ proj' = [proj EXCEPT ![nextPid] = [user |-> u, name |-> n]]
  /\ nextPid' = nextPid + 1

-----------------------------------------------------------------------------
(* The migration, in create_app before the first request. *)

Boot ==
  /\ up = "down" /\ boots < MaxBoots
  /\ up' = "migrating" /\ todo' = users
  /\ undo' = [proj |-> proj, scans |-> scans] /\ boots' = boots + 1
  /\ UNCHANGED <<db, disk, req, seeded, requests, torn>>

\* One user: the Default project, the flat capture moved into it unless one of
\* that name is there, the scans without a project.
MoveFlat(u, p) ==
  IF u \in flat /\ [user |-> u, project |-> p, name |-> File] \notin files
  THEN /\ flat' = flat \ {u}
       /\ files' = files \cup {[user |-> u, project |-> p, name |-> File]}
  ELSE UNCHANGED disk

AdoptScans(u, p) ==
  scans' = [s \in Runs |->
    IF scans[s] # None /\ scans[s].user = u /\ scans[s].project = None
    THEN [scans[s] EXCEPT !.project = p] ELSE scans[s]]

Migrate(u) ==
  /\ up = "migrating" /\ u \in todo /\ todo' = todo \ {u}
  /\ \/ /\ Named(u, "Default") = {}
        /\ AddProject(u, "Default") /\ MoveFlat(u, nextPid) /\ AdoptScans(u, nextPid)
     \/ \E p \in Named(u, "Default") :
          /\ MoveFlat(u, p) /\ AdoptScans(u, p) /\ UNCHANGED <<proj, nextPid>>
  /\ UNCHANGED <<users, member, rows, req, up, undo, boots, seeded, requests, torn>>

MigrationCommits ==
  /\ up = "migrating" /\ todo = {}
  /\ up' = "serving" /\ seeded' = users /\ undo' = None
  /\ UNCHANGED <<db, disk, req, todo, boots, requests, torn>>

\* An exception is logged, rolled back, and the application serves anyway; a
\* crash comes to the same in the database.  Moved files stay moved.
MigrationFails ==
  /\ up = "migrating"
  /\ proj' = undo.proj /\ scans' = undo.scans
  /\ todo' = {} /\ undo' = None /\ seeded' = {}
  /\ up' \in {"serving", "down"}
  /\ torn' = torn \cup {p \in Pids : Exists(p) /\ undo.proj[p] = None}
  /\ UNCHANGED <<users, nextPid, member, rows, disk, req, boots, requests>>

\* The process dies: the open transactions are gone, the files are not.
Crash ==
  /\ up = "serving" /\ boots < MaxBoots /\ up' = "down"
  /\ req' = [r \in Requests |-> Idle]
  /\ UNCHANGED <<db, disk, todo, undo, boots, seeded, requests, torn>>

-----------------------------------------------------------------------------
(* The checks.  A request they would refuse is not modelled. *)

\* Mutation: the Default project is like any other.
OwnerCheckAny(u, p) == Can(u, p, "owner")

OwnerCheck(u, p) == Can(u, p, "owner") /\ proj[p].name # "Default"

\* rename looks for a duplicate among the projects of the session's user, who
\* need not be the creator.
RenameCheck(u, p, n) == OwnerCheck(u, p) /\ Named(u, n) \subseteq {p}

RowsAt(kind, p, key) ==
  {w \in rows : w.kind = kind /\ w.project = p /\ w.key = key}

Inserts(kind, p, key) == RowsAt(kind, p, key) = {}

\* Each handler up to its first write, with what it has read.
CreateAsked(u) == {[op |-> "create", user |-> u, name |-> n] :
  n \in {k \in Names \cup {"Default"} : Named(u, k) = {}}}

RenameAsked(u) == {[op |-> "rename", user |-> u, project |-> k[1], name |-> k[2]] :
  k \in {j \in Pids \X (Names \cup {"Default"}) : RenameCheck(u, j[1], j[2])}}

DeleteAsked(u) == {[op |-> "delete", user |-> u, project |-> p, cleared |-> FALSE] :
  p \in {k \in Pids : OwnerCheck(u, k)}}

\* Adding a member, changing his role, removing him (role None).
MemberAsked(u) ==
  {[op |-> "member", user |-> u, project |-> k[1], who |-> k[2], role |-> k[3]] :
    k \in {j \in Pids \X users \X (Roles \cup {None}) :
             Can(u, j[1], "owner") /\ j[2] # proj[j[1]].user}}

AnnotateAsked(u) ==
  {[op |-> "annotate", user |-> u, project |-> k[1], kind |-> k[2], key |-> k[3],
    insert |-> Inserts(k[2], k[1], k[3])] :
    k \in {j \in Pids \X Kinds \X Keys : Can(u, j[1], "editor")}}

EraseAsked(u) ==
  {[op |-> "erase", user |-> u, project |-> k[1], kind |-> k[2], key |-> k[3]] :
    k \in {j \in Pids \X Kinds \X Keys :
             Can(u, j[1], "editor") /\ ~Inserts(j[2], j[1], j[3])}}

\* To a project, or to none: then the Default project is made if need be.
UploadAsked(u) ==
  {[op |-> "upload", user |-> u, project |-> p, temp |-> FALSE] :
    p \in {k \in Pids : Can(u, k, "editor")}}

DefaultAsked(u) ==
  IF Named(u, "Default") = {} THEN {[op |-> "default", user |-> u]} ELSE {}

UnlinkAsked(u) == {[op |-> "unlink", file |->
    [user |-> proj[p].user, project |-> p, name |-> File]] :
  p \in {k \in Pids : Can(u, k, "editor")}}

\* Members cannot start scans: the project is looked up by its creator.
ScanAsked(u) == {[op |-> "scan", user |-> u, project |-> p] : p \in Owned(u)}

DeleteUserAsked(u) == {[op |-> "deluser", user |-> u, who |-> v] :
  v \in {k \in users : u \in Admins /\ k # u}}

Asked(u) ==
  CreateAsked(u) \cup RenameAsked(u) \cup DeleteAsked(u) \cup MemberAsked(u)
    \cup AnnotateAsked(u) \cup EraseAsked(u) \cup UploadAsked(u)
    \cup DefaultAsked(u) \cup UnlinkAsked(u) \cup ScanAsked(u)
    \cup DeleteUserAsked(u)

Begin(r) ==
  /\ up = "serving" /\ req[r] = Idle /\ requests < MaxRequests
  /\ \E u \in users : \E q \in Asked(u) : req' = [req EXCEPT ![r] = q]
  /\ requests' = requests + 1
  /\ UNCHANGED <<db, disk, boot, torn>>

Done(r) == req' = [req EXCEPT ![r] = Idle]


-----------------------------------------------------------------------------
(* Commits: each the end of its handler. *)

Creates(r) ==
  /\ req[r].op = "create" /\ AddProject(req[r].user, req[r].name) /\ Done(r)
  /\ UNCHANGED <<users, member, rows, scans, disk, boot, requests, torn>>

\* _ensure_default_project, before an upload or a scan without a project.
EnsuresDefault(r) ==
  /\ req[r].op = "default" /\ AddProject(req[r].user, "Default")
  /\ req' = [req EXCEPT ![r] = [op |-> "upload", user |-> req[r].user,
                                project |-> nextPid, temp |-> FALSE]]
  /\ UNCHANGED <<users, member, rows, scans, disk, boot, requests, torn>>

Renames(r) ==
  LET q == req[r] IN
  /\ q.op = "rename" /\ Exists(q.project)
  /\ Named(proj[q.project].user, q.name) \subseteq {q.project}
  /\ proj' = [proj EXCEPT ![q.project].name = q.name] /\ Done(r)
  /\ UNCHANGED <<users, nextPid, member, rows, scans, disk, boot, requests, torn>>

Doing(op, p) ==
  \E r \in Requests : req[r].op = op /\ req[r].project = p

\* Mutation: no foreign key.
DeletableAlways(ps) == ps \subseteq Pids

\* The rows that go with a set of projects: members by the foreign key, scans
\* lose the project.  Tags, notes and IOC lists have no such rule: they refuse.
Deletable(ps) == \A w \in rows : w.project \notin ps

DropProjects(ps, by) ==
  /\ proj' = [p \in Pids |-> IF p \in ps THEN None ELSE proj[p]]
  /\ torn' = torn \cup {p \in ps :
       \/ by # proj[p].user \/ Doing("upload", p)
       \/ \E f \in files : f.project = p /\ f.user # by}

Orphaned(ps) == [s \in Runs |->
  IF scans[s] # None /\ scans[s].project \in ps
  THEN [scans[s] EXCEPT !.project = None] ELSE scans[s]]

\* Mutation: only the reports go.
ClearedNone(u, p) == {f \in files : f.user = u /\ f.project = p /\ f.name = None}

\* The directories go first, under the id of the session's user.
Cleared(u, p) == {f \in files : f.user = u /\ f.project = p}

ClearsFiles(r) ==
  LET q == req[r] IN
  /\ q.op = "delete" /\ ~q.cleared
  /\ files' = files \ Cleared(q.user, q.project)
  /\ req' = [req EXCEPT ![r].cleared = TRUE]
  /\ UNCHANGED <<db, flat, boot, requests, torn>>

Deletes(r) ==
  LET q == req[r]
      ps == {p \in {q.project} : Exists(p)}
  IN
  /\ q.op = "delete" /\ q.cleared /\ Deletable(ps)
  /\ DropProjects(ps, q.user) /\ scans' = Orphaned(ps)
  /\ member' = {m \in member : m.project \notin ps} /\ Done(r)
  /\ UNCHANGED <<users, nextPid, rows, disk, boot, requests>>

\* Adds a member, changes his role (who invited him stays), or removes him.
SetsMember(r) ==
  LET q == req[r]
      old == {m \in member : m.project = q.project /\ m.user = q.who}
      by == IF old = {} THEN q.user ELSE (CHOOSE m \in old : TRUE).by
  IN
  /\ q.op = "member" /\ Done(r)
  /\ \/ q.role = None /\ member' = member \ old
     \/ /\ q.role # None /\ Exists(q.project) /\ {by, q.who} \subseteq users
        /\ member' = (member \ old) \cup
             {[project |-> q.project, user |-> q.who, role |-> q.role, by |-> by]}
  /\ UNCHANGED <<users, proj, nextPid, rows, scans, disk, boot, requests, torn>>

\* The upserts.  Only tags and lists have a unique constraint; a second row is
\* told from the first by its id.
Annotates(r) ==
  LET q == req[r]
      here == RowsAt(q.kind, q.project, q.key)
      row(i) == [kind |-> q.kind, project |-> q.project, key |-> q.key,
                 by |-> q.user, id |-> i]
  IN
  /\ q.op = "annotate" /\ q.user \in users /\ Done(r)
  /\ \/ q.insert /\ Exists(q.project) /\ (q.kind # "note" => here = {})
        /\ rows' = rows \cup {row(Cardinality(here) + 1)}
     \/ ~q.insert /\ \E w \in here : rows' = (rows \ {w}) \cup {row(w.id)}
  /\ UNCHANGED <<users, proj, nextPid, member, scans, disk, boot, requests, torn>>

Erases(r) ==
  LET here == RowsAt(req[r].kind, req[r].project, req[r].key) IN
  /\ req[r].op = "erase" /\ Done(r)
  /\ \/ here = {} /\ UNCHANGED rows
     \/ \E w \in here : rows' = rows \ {w}
  /\ UNCHANGED <<users, proj, nextPid, member, scans, disk, boot, requests, torn>>

\* An upload goes to a temporary file in the directory of the session's user,
\* made if it is missing, then takes its name.
Streams(r) ==
  LET q == req[r] IN
  /\ q.op = "upload" /\ ~q.temp
  /\ files' = files \cup {[user |-> q.user, project |-> q.project, name |-> r]}
  /\ req' = [req EXCEPT ![r].temp = TRUE]
  /\ torn' = IF Doing("delete", q.project) THEN torn \cup {q.project} ELSE torn
  /\ UNCHANGED <<db, flat, boot, requests>>

Uploads(r) ==
  LET q == req[r]
      temp == [user |-> q.user, project |-> q.project, name |-> r]
  IN
  /\ q.op = "upload" /\ q.temp /\ temp \in files
  /\ files' = (files \ {temp}) \cup {[temp EXCEPT !.name = File]} /\ Done(r)
  /\ UNCHANGED <<db, flat, boot, requests, torn>>

\* Deleting a file looks in the creator's directory.
Unlinks(r) ==
  /\ req[r].op = "unlink" /\ files' = files \ {req[r].file} /\ Done(r)
  /\ UNCHANGED <<db, flat, boot, requests, torn>>

\* record_start of a scan.
RecordsScan(r) ==
  LET q == req[r] IN
  /\ q.op = "scan" /\ q.user \in users /\ Exists(q.project) /\ Done(r)
  /\ \E s \in Runs : scans[s] = None
       /\ scans' = [scans EXCEPT ![s] = [user |-> q.user, project |-> q.project]]
  /\ UNCHANGED <<users, proj, nextPid, member, rows, disk, boot, requests, torn>>

\* The rows that name a user and do not go with him or his projects refuse.
UserDeletable(v) ==
  /\ Deletable(Owned(v)) /\ \A w \in rows : w.by # v
  /\ \A m \in member : m.by = v => m.project \in Owned(v) \/ m.user = v

DeletesUser(r) ==
  LET v == req[r].who IN
  /\ req[r].op = "deluser" /\ UserDeletable(v)
  /\ users' = users \ {v} /\ DropProjects(Owned(v), None)
  /\ member' = {m \in member : m.user # v /\ m.project \notin Owned(v)}
  /\ scans' = [s \in Runs |->
       IF scans[s] # None /\ scans[s].user = v THEN None
       ELSE Orphaned(Owned(v))[s]]
  /\ Done(r)
  /\ UNCHANGED <<nextPid, rows, disk, boot, requests>>

Commits(r) ==
  \/ Creates(r) \/ EnsuresDefault(r) \/ Renames(r) \/ Deletes(r) \/ SetsMember(r)
  \/ Annotates(r) \/ Erases(r) \/ Uploads(r) \/ Unlinks(r) \/ RecordsScan(r)
  \/ DeletesUser(r)

\* A constraint or a missing row refuses the transaction.
Refused(q) ==
  \/ q.op \in {"create", "scan", "annotate", "default"} /\ q.user \notin users
  \/ q.op \in {"rename", "scan"} /\ ~Exists(q.project)
  \/ q.op = "create" /\ Named(q.user, q.name) # {}
  \/ q.op = "default" /\ Named(q.user, "Default") # {}
  \/ /\ q.op = "rename" /\ Exists(q.project)
     /\ ~(Named(proj[q.project].user, q.name) \subseteq {q.project})
  \/ q.op = "delete" /\ q.cleared /\ ~Deletable({q.project})
  \/ /\ q.op = "member" /\ q.role # None
     /\ ~(Exists(q.project) /\ {q.user, q.who} \subseteq users)
  \/ /\ q.op = "annotate"
     /\ \/ ~Exists(q.project)
        \/ q.insert /\ q.kind # "note" /\ ~Inserts(q.kind, q.project, q.key)
        \/ ~q.insert /\ Inserts(q.kind, q.project, q.key)
  \/ q.op = "deluser" /\ ~UserDeletable(q.who)

\* It raises and is answered with a 500.  An upload ends early when it is no
\* capture or too large: its temporary file is unlinked.
Fails(r) ==
  /\ Refused(req[r]) \/ req[r].op = "upload"
  /\ Done(r) /\ files' = {f \in files : f.name # r}
  /\ UNCHANGED <<db, flat, boot, requests, torn>>

Request(r) == Begin(r) \/ Commits(r) \/ ClearsFiles(r) \/ Streams(r) \/ Fails(r)

Next ==
  \/ Boot \/ MigrationCommits \/ MigrationFails \/ Crash
  \/ \E u \in Users : Migrate(u)
  \/ \E r \in Requests : Request(r)

Spec == Init /\ [][Next]_vars

-----------------------------------------------------------------------------
\* A user whom the last migration visited keeps a Default project for as long
\* as he exists, whoever shares, renames or deletes projects meanwhile: uploads
\* and scans without a project fall back on it.
DefaultStays ==
  up = "serving" => \A u \in seeded \cap users : Cardinality(Named(u, "Default")) = 1

\* A deletion by the creator takes every capture of his project with it: a file
\* in the directory of a project that is gone was moved there by a migration that
\* was rolled back, or belongs to a member, a member's deletion or a deleted
\* user, or raced the deletion.
DeletedLeavesNoFile ==
  \A f \in files : Exists(f.project) \/ f.project \in torn

\* Rows, members and scans never point at a project or a user that is gone, in
\* whatever order two requests check and commit.
NothingDangles ==
  /\ \A w \in rows : Exists(w.project) /\ w.by \in users
  /\ \A m \in member : Exists(m.project) /\ {m.user, m.by} \subseteq users
                       /\ m.user # proj[m.project].user
  /\ \A s \in Runs : scans[s] # None =>
       scans[s].user \in users /\ (scans[s].project = None \/ Exists(scans[s].project))

\* docs/admin-and-audit.md:93: "the route refuses if the deletion would leave
\* zero admins".  The route only refuses to delete the caller.
AnAdminRemains == users \cap Admins # {}

\* A deletion that has removed the captures of a project removes the project.
\* docs/projects-and-engagements.md:311: the deletion "cascades to" the tags,
\* notes and IOC lists, which in fact refuse it after the files are gone.
DeletionIsWhole ==
  [][\A r \in Requests :
       /\ req[r].op = "delete" /\ req[r].cleared
       /\ req'[r] = Idle /\ up' = up
       => proj'[req[r].project] = None]_vars
=============================================================================
