------------------------------- MODULE Folders -------------------------------
(* Notebooks and their directories: how a run of pull, push or sync plans and *)
(* applies their creation, renaming and moving, and where it puts the notes   *)
(* in between. A notebook is recognized by the id in its .joplin-folder.json, *)
(* a note by the id in its header; the names of directories derive from the   *)
(* titles of the notebooks. Runs plan from one snapshot and apply one         *)
(* operation at a time; each may be refused, and the process may die within.  *)
(*                                                                            *)
(* Ids, titles and path components are numbers, so that they can be sorted    *)
(* the way the scan and the planner sort them; no title begins with another   *)
(* one. A note is its place: contents and file names are left to NoteSync.    *)
EXTENDS Integers, Sequences, SequencesExt

CONSTANTS NF, NN, NT,    \* notebooks, notes and titles that may exist
          MaxEdits,      \* changes by users on either side
          MaxFaults,     \* refused requests, lost answers, crashes
          MaxRuns,
          None           \* no row, no directory, no such notebook or note

ASSUME BoundsAssumption ==
    /\ {NF, NN, NT, MaxEdits, MaxFaults, MaxRuns} \subseteq Nat
    /\ NF >= 2 /\ NN >= 1 /\ NT >= 2    \* what Init has
    /\ None \notin Nat \cup [title : Nat, parent : Nat]

F == 1..NF
N == 1..NN
Draft == 0               \* a file without an id
Root == 0                \* the parent of a top notebook, and "no notebook"

VARIABLES remote,        \* notebooks in Joplin
          notes,         \* notebook of each note in Joplin
          dirs,          \* directories: path -> id and title of its metadata
          files,         \* managed files: note and directory
          baseF, baseN,  \* rows of the state database
          run,           \* the run in progress
          budget,
          moved,         \* ghost: notes whose file a user moved, see CommitNote
          spoilt         \* ghost: see Misnamed, NamesCollide, RenameDir

vars == <<remote, notes, dirs, files, baseF, baseN, run, budget, moved, spoilt>>

----------------------------------------------------------------------------
(* Paths. A component is a title, with the id of the notebook as a suffix     *)
(* when a sibling has the same title.                                         *)

Plain(t) == <<t, 0>>
Parent(p) == SubSeq(p, 1, Len(p) - 1)
Proper(p) == {SubSeq(p, 1, i) : i \in 1..(Len(p) - 1)}

Smaller(a, b) == a[1] < b[1] \/ (a[1] = b[1] /\ a[2] < b[2])

(* The scan reads a directory in the order of the names in it.                *)
Before(p, q) ==
    \E i \in 0..Len(p) :
      /\ Len(q) >= i
      /\ SubSeq(p, 1, i) = SubSeq(q, 1, i)
      /\ \/ Len(p) = i /\ Len(q) > i
         \/ Len(p) > i /\ Len(q) > i /\ Smaller(p[i + 1], q[i + 1])

(* The planner sorts whole paths as strings. Of two components with the same  *)
(* title, the one with a suffix, "--" and the id, comes after the plain one   *)
(* at the end of a path, and before it when a "/" follows.                    *)
SmallerIn(a, aLast, b, bLast) ==
    \/ a[1] < b[1]
    \/ a[1] = b[1] /\ (IF a[2] = 0 THEN b[2] # 0 /\ aLast
                       ELSE IF b[2] = 0 THEN ~bLast ELSE a[2] < b[2])

SortsBefore(p, q) ==
    \E i \in 0..Len(p) :
      /\ Len(q) >= i
      /\ SubSeq(p, 1, i) = SubSeq(q, 1, i)
      /\ \/ Len(p) = i /\ Len(q) > i
         \/ /\ Len(p) > i /\ Len(q) > i
            /\ SmallerIn(p[i + 1], Len(p) = i + 1, q[i + 1], Len(q) = i + 1)

First(S) == {p \in S : \A q \in S : ~Before(q, p)}

Moved(p, old, new) ==
    IF IsPrefix(old, p) THEN new \o SubSeq(p, Len(old) + 1, Len(p)) ELSE p

(* _remote_folder_paths                                                       *)
Active == {f \in F : remote[f] # None}

DirName(f) ==
    IF \E g \in Active : g < f /\ remote[g] = remote[f]
      THEN <<remote[f].title, f>> ELSE Plain(remote[f].title)

RemotePath ==
    LET Path[f \in F] ==
          IF remote[f] = None THEN <<>>
          ELSE IF remote[f].parent = Root THEN <<DirName(f)>>
          ELSE Path[remote[f].parent] \o <<DirName(f)>>
    IN Path

----------------------------------------------------------------------------
(* Workspace.scan: directories in order of their paths; a second directory    *)
(* with the id of an earlier one is reported and not entered.                 *)

Duplicate(p) ==
    dirs[p].id # 0 /\ \E q \in DOMAIN dirs \ {p} : dirs[q].id = dirs[p].id /\ Before(q, p)

Entered(p) == ~\E q \in Proper(p) \cup {p} : Duplicate(q)
Visible == {p \in DOMAIN dirs : Entered(p)}

DirOf(f) == {p \in DOMAIN dirs : dirs[p].id = f /\ Entered(p)}
Enclosing(p) == IF Len(p) = 1 THEN Root ELSE dirs[Parent(p)].id

PathOfLocal(f) == CHOOSE p \in DirOf(f) : TRUE
LocalF(f) ==
    IF DirOf(f) = {} THEN None
    ELSE LET p == PathOfLocal(f) IN [title |-> dirs[p].title, parent |-> Enclosing(p)]

Candidates == {p \in DOMAIN dirs : dirs[p].id = 0 /\ Entered(p)}

(* Of two files with the id of one note the first is taken.                   *)
PlaceOf(n) ==
    LET first == First({x.dir : x \in {y \in files : y.n = n /\ Entered(y.dir)}}) IN
    IF first = {} THEN <<>> ELSE CHOOSE p \in first : TRUE

----------------------------------------------------------------------------
(* classify                                                                   *)

FolderStatus(f) ==
    LET b == baseF[f] l == LocalF(f) r == remote[f] IN
    IF b # None /\ l # None /\ r # None THEN
         IF l = b /\ r = b THEN "unchanged"
         ELSE IF r = b THEN "local modified"
         ELSE IF l = b THEN "remote modified"
         ELSE IF l = r THEN "identical" ELSE "conflict"
    ELSE IF b = None /\ l # None /\ r # None THEN "identical"
    ELSE IF b = None /\ l = None /\ r # None THEN "remote new"
    ELSE "reported"

LocalParent(n) == IF PlaceOf(n) = <<>> THEN None ELSE dirs[PlaceOf(n)].id

NoteStatus(n) ==
    LET b == baseN[n] l == LocalParent(n) r == notes[n] IN
    IF b # None /\ l # None /\ r # None THEN
         IF l = b /\ r = b THEN "unchanged"
         ELSE IF r = b THEN "local moved"
         ELSE IF l = b THEN "remote moved"
         ELSE IF l = r THEN "identical" ELSE "conflict"
    ELSE IF b = None /\ l # None /\ r # None THEN IF l = r THEN "identical" ELSE "conflict"
    ELSE IF b = None /\ l = None /\ r # None THEN "remote new"
    ELSE "reported"

----------------------------------------------------------------------------
(* build_plan: creations before renames, pull before push, notebooks before   *)
(* notes, each in the order of paths. An operation carries what the plan saw. *)

FoldersWith(status) == {f \in Active : FolderStatus(f) = status}

Op(kind, id, old, new, saw) == [kind |-> kind, id |-> id, old |-> old, new |-> new, saw |-> saw]

PullDirs ==
    {Op("create dir", f, <<>>, RemotePath[f], remote[f]) : f \in FoldersWith("remote new")}
    \cup {Op("update dir", f, PathOfLocal(f), RemotePath[f], remote[f]) :
            f \in FoldersWith("remote modified")}

(* The title of a new notebook is the name of its directory. (A directory     *)
(* that an interrupted pull left without metadata may have a suffix in its    *)
(* name; the title would have it, too.)                                       *)
PushFolders ==
    {Op("create folder", 0, p, p, [title |-> p[Len(p)][1], parent |-> None]) : p \in Candidates}
    \cup {Op("update folder", f, PathOfLocal(f), PathOfLocal(f), LocalF(f)) :
            f \in FoldersWith("local modified")}

Adoptions ==
    {Op("adopt", f, PathOfLocal(f), PathOfLocal(f), LocalF(f)) : f \in FoldersWith("identical")}

(* The directory where the file of note n belongs.                            *)
Target(n) == IF notes[n] = Root THEN <<>> ELSE RemotePath[notes[n]]

NoteOps(n, pull, push) ==
    LET status == NoteStatus(n) op(kind) == {Op(kind, n, PlaceOf(n), Target(n), notes[n])} IN
    CASE status = "unchanged" /\ pull /\ Target(n) \notin {<<>>, PlaceOf(n)} -> op("normalize")
      [] status = "remote moved" /\ pull ->
           {Op("update file", n, PlaceOf(n), IF Target(n) = <<>> THEN PlaceOf(n) ELSE Target(n),
               notes[n])}
      [] status = "remote new" /\ pull /\ Target(n) # <<>> -> op("create file")
      [] status = "local moved" /\ push ->
           {Op("update note", n, PlaceOf(n), <<>>, LocalParent(n))}
      [] status = "identical" -> op("adopt note")
      [] OTHER -> {}

Drafts == {x.dir : x \in {y \in files : y.n = Draft /\ Entered(y.dir)}}

Plan(pull, push) ==
    (IF pull THEN PullDirs ELSE {}) \cup (IF push THEN PushFolders ELSE {}) \cup Adoptions
    \cup (UNION {NoteOps(n, pull, push) : n \in N})
    \cup (IF push THEN {Op("create note", Draft, p, p, dirs[p].id) : p \in Drafts} ELSE {})

Turn(o) == CASE o.kind = "create dir"    -> 1
             [] o.kind = "update dir"    -> 2
             [] o.kind = "create folder" -> 3
             [] o.kind = "update folder" -> 4
             [] o.kind = "adopt"         -> 5
             [] OTHER                    -> 6

(* The path that decides the turn: of a notebook its directory, of a note its *)
(* file, whose name counts as smaller than those of directories beside it. A  *)
(* note without a file has the empty path.                                    *)
Place(o) == IF o.kind = "create dir" THEN o.new ELSE o.old
SortKey(o) == IF Turn(o) = 6 THEN Append(Place(o), <<0, 0>>) ELSE Place(o)

Sooner(a, b) ==
    \/ Turn(a) < Turn(b)
    \/ /\ Turn(a) = Turn(b)
       /\ SortsBefore(SortKey(a), SortKey(b)) \/ (SortKey(a) = SortKey(b) /\ a.id < b.id)

(* The ghost "spoilt" records that directory names stopped being cosmetic. It *)
(* is set, and stays set for good, when a plan found a notebook whose         *)
(* directory has another name than its title gives and that nothing renames;  *)
(* or a name that stands for two things, one that a rename gives up and       *)
(* another notebook takes, or one that a new notebook of Joplin and a         *)
(* directory on the disk both have; or a renamed directory, carried along by  *)
(* another rename, left on the way the name of some notebook (the code        *)
(* follows renames for the targets of notes, too); or an operation on a       *)
(* notebook failed. Pull then writes notes into directories that belong to no *)
(* notebook or to another one, and a later push follows them.                 *)
Ops(plan, kind) == {o \in plan : o.kind = kind}

InPlace(f) ==
    LET p == PathOfLocal(f) IN
    /\ p[Len(p)] = DirName(f)
    /\ IF Len(p) = 1 THEN remote[f].parent = Root
                     ELSE remote[f].parent # Root /\ dirs[Parent(p)].id = remote[f].parent

Misnamed(plan) ==
    \E f \in Active :
      /\ DirOf(f) # {}
      /\ \A r \in Ops(plan, "update dir") : r.id # f
      /\ ~InPlace(f)

NamesCollide(plan) ==
    \/ \E r \in Ops(plan, "update dir"), f \in Active :
         r.old # r.new /\ IsPrefix(r.old, RemotePath[f])
    \/ \E c \in Ops(plan, "create dir") : c.new \in DOMAIN dirs

----------------------------------------------------------------------------
(* A run                                                                      *)

NoRun == [plan |-> {}, phase |-> "ask", pull |-> FALSE, push |-> FALSE, scan |-> <<>>,
          now |-> <<>>, created |-> <<>>, id |-> 0, ok |-> TRUE, result |-> "none"]

Soonest(plan) == {o \in plan : \A other \in plan \ {o} : Sooner(o, other)}
Running == Soonest(run.plan) # {}
op == CHOOSE o \in Soonest(run.plan) : TRUE
Spend(what) == budget[what] > 0 /\ budget' = [budget EXCEPT ![what] = @ - 1]

Start(pull, push) ==
    /\ ~Running
    /\ Spend("runs")
    /\ LET plan == Plan(pull, push) IN
       /\ run' = [NoRun EXCEPT !.plan = plan, !.pull = pull, !.push = push,
                               !.scan = [p \in Visible |-> dirs[p].id],
                               !.now = [p \in {o.old : o \in plan} \cup {o.new : o \in plan} |-> p],
                               !.result = IF plan = {} THEN "ok" ELSE "none"]
       /\ spoilt' = (spoilt \/ (pull /\ (Misnamed(plan) \/ NamesCollide(plan))))
    /\ UNCHANGED <<remote, notes, dirs, files, baseF, baseN, moved>>

(* Executor.current_path and resolve_folder_id. The code keeps the list of    *)
(* renames and applies it to a path when it is asked for; "now" has each path *)
(* of the plan after the renames so far.                                      *)
CurrentPath(p) == run.now[p]

CreatedHere(p) == {i \in DOMAIN run.created : run.created[i][1] = p}
ResolveFolder(p) ==
    IF CreatedHere(p) # {} THEN run.created[CHOOSE i \in CreatedHere(p) : TRUE][2]
    ELSE IF p \in DOMAIN run.scan THEN run.scan[p] ELSE Root

old == CurrentPath(op.old)
new == CurrentPath(op.new)

At(kind, phase) ==
    /\ run.phase = phase
    /\ Ops(run.plan, kind) # {}     \* for TLC: implied by the next two
    /\ Running /\ op.kind = kind
Go(phase) == run' = [run EXCEPT !.phase = phase]

Ended(good) ==
    [run EXCEPT !.plan = @ \ {op}, !.phase = "ask", !.id = 0, !.ok = @ /\ good,
                !.result = IF run.plan # {op} THEN "none"
                           ELSE IF run.ok /\ good THEN "ok" ELSE "failed"]
Done == run' = Ended(TRUE)

Fail ==
    /\ run' = Ended(FALSE)
    /\ spoilt' = (spoilt \/ op.kind \in {"create dir", "update dir", "create folder"})

(* mkdir(parents=True, exist_ok=True)                                         *)
WithDir(d, p) ==
    [q \in DOMAIN d \cup Proper(p) \cup {p} |->
       IF q \in DOMAIN d THEN d[q] ELSE [id |-> 0, title |-> q[Len(q)][1]]]
(* Mutant: the parents of a renamed directory are not made.                   *)
ParentsNotMade(d, p) == d

WithParents(d, p) == IF Len(p) = 1 THEN d ELSE WithDir(d, Parent(p))

WithMeta(d, p, f, title) == [d EXCEPT ![p] = [id |-> f, title |-> title]]

MoveTree(d, from, to) ==
    [q \in {Moved(p, from, to) : p \in DOMAIN d} |->
       d[CHOOSE p \in DOMAIN d : Moved(p, from, to) = q]]

----------------------------------------------------------------------------
(* Pull: directories                                                          *)

(* Mutant: the row is written before the metadata of the new directory.       *)
MakeDirAfterRow ==
    /\ At("create dir", "ask")
    /\ dirs' = WithDir(dirs, op.new)
    /\ baseF' = [baseF EXCEPT ![op.id] = op.saw]
    /\ Go("meta")
    /\ UNCHANGED <<remote, notes, files, baseN, budget, moved, spoilt>>

MakeDir ==
    /\ At("create dir", "ask")
    /\ dirs' = WithDir(dirs, op.new)
    /\ Go("meta")
    /\ UNCHANGED <<remote, notes, files, baseF, baseN, budget, moved, spoilt>>

RenameDir ==
    /\ At("update dir", "ask")
    /\ IF old = op.new
         THEN /\ Go("meta")
              /\ UNCHANGED <<dirs, files, spoilt>>
       ELSE IF op.new \in DOMAIN dirs
         THEN /\ Fail
              /\ UNCHANGED <<dirs, files>>
       ELSE LET d == WithParents(dirs, op.new) IN
            IF old \notin DOMAIN dirs \/ IsPrefix(old, op.new)
              THEN /\ Fail
                   /\ dirs' = d
                   /\ UNCHANGED files
              ELSE /\ dirs' = MoveTree(d, old, op.new)
                   /\ files' = {[x EXCEPT !.dir = Moved(@, old, op.new)] : x \in files}
                   /\ run' = [run EXCEPT !.phase = "meta",
                                         !.now = [p \in DOMAIN @ |-> Moved(@[p], old, op.new)]]
                   /\ spoilt' = (spoilt \/ \E f \in Active : IsPrefix(old, RemotePath[f]))
    /\ UNCHANGED <<remote, notes, baseF, baseN, budget, moved>>

WriteMeta ==
    /\ At("create dir", "meta") \/ At("update dir", "meta")
    /\ dirs' = WithMeta(dirs, op.new, op.id, op.saw.title)
    /\ Go("commit")
    /\ UNCHANGED <<remote, notes, files, baseF, baseN, budget, moved, spoilt>>

CommitDir ==
    /\ \/ At("create dir", "commit") \/ At("update dir", "commit")
       \/ At("update folder", "commit") \/ At("adopt", "ask")
    /\ baseF' = [baseF EXCEPT ![op.id] = op.saw]
    /\ Done
    /\ UNCHANGED <<remote, notes, dirs, files, baseN, budget, moved, spoilt>>

----------------------------------------------------------------------------
(* Push: notebooks. A request is refused, answered, or done and not answered. *)

Unused == {f \in F : remote[f] = None /\ baseF[f] = None}

CreateFolder ==
    /\ At("create folder", "ask")
    /\ LET parent == IF Len(old) = 1 THEN Root ELSE ResolveFolder(Parent(old))
           f == CHOOSE g \in Unused : \A h \in Unused : g <= h IN
       IF (Len(old) > 1 /\ parent = Root) \/ Unused = {}
         THEN /\ Fail
              /\ UNCHANGED <<remote, budget>>
         ELSE /\ remote' = [remote EXCEPT ![f] = [title |-> op.saw.title, parent |-> parent]]
              /\ \/ /\ run' = [run EXCEPT !.phase = "meta", !.id = f]
                    /\ UNCHANGED <<budget, spoilt>>
                 \/ Spend("faults") /\ Fail
    /\ UNCHANGED <<notes, dirs, files, baseF, baseN, moved>>

WriteNewMeta ==
    /\ At("create folder", "meta")
    /\ dirs' = WithMeta(WithDir(dirs, old), old, run.id, op.saw.title)
    /\ run' = [run EXCEPT !.phase = "commit", !.created = Append(@, <<old, run.id>>)]
    /\ UNCHANGED <<remote, notes, files, baseF, baseN, budget, moved, spoilt>>

(* Mutant: a notebook that push created gets no row.                          *)
CommitNewFolderForgets ==
    /\ At("create folder", "commit")
    /\ Done
    /\ UNCHANGED <<remote, notes, dirs, files, baseF, baseN, budget, moved, spoilt>>

CommitNewFolder ==
    /\ At("create folder", "commit")
    /\ baseF' = [baseF EXCEPT ![run.id] = remote[run.id]]
    /\ Done
    /\ UNCHANGED <<remote, notes, dirs, files, baseN, budget, moved, spoilt>>

(* Notebook f is not above p, nor p itself: some notebooks without f hold p   *)
(* and all their parents.                                                     *)
NoCycle(f, p) ==
    \E above \in SUBSET (F \ {f}) :
      /\ p \in above \cup {Root}
      /\ \A g \in above : remote[g] # None => remote[g].parent \in above \cup {Root}

(* The notebook must be as the base has it; Joplin refuses to put a notebook  *)
(* into itself.                                                               *)
UpdateFolder ==
    /\ At("update folder", "ask")
    /\ IF remote[op.id] # baseF[op.id] \/ ~NoCycle(op.id, op.saw.parent)
         THEN /\ Fail
              /\ UNCHANGED <<remote, budget>>
         ELSE /\ remote' = [remote EXCEPT ![op.id] = op.saw]
              /\ \/ Go("commit") /\ UNCHANGED <<budget, spoilt>>
                 \/ Spend("faults") /\ Fail
    /\ UNCHANGED <<notes, dirs, files, baseF, baseN, moved>>

----------------------------------------------------------------------------
(* Notes                                                                      *)

File(n, p) == [n |-> n, dir |-> p]

(* Mutant: the file of a moved note stays where it was, too.                  *)
WriteNoteKeepsOld ==
    /\ At("create file", "ask") \/ At("update file", "ask")
    /\ IF notes[op.id] # op.saw \/ new \notin DOMAIN dirs
         THEN /\ Fail
              /\ UNCHANGED files
         ELSE /\ files' = files \cup {File(op.id, new)}
              /\ Go("commit")
              /\ UNCHANGED spoilt
    /\ UNCHANGED <<remote, notes, dirs, baseF, baseN, budget, moved>>

(* _op_pull_create_local and _op_pull_update_local: guards, then the file.    *)
WriteNote ==
    /\ At("create file", "ask") \/ At("update file", "ask")
    /\ LET fresh == op.kind = "create file" IN
       IF \/ notes[op.id] # op.saw
          \/ fresh /\ File(op.id, new) \in files
          \/ ~fresh /\ File(op.id, old) \notin files
          \/ new \notin DOMAIN dirs
         THEN /\ Fail
              /\ UNCHANGED files
         ELSE /\ files' = files \cup {File(op.id, new)}
              /\ Go(IF fresh \/ old = new THEN "commit" ELSE "unlink")
              /\ UNCHANGED spoilt
    /\ UNCHANGED <<remote, notes, dirs, baseF, baseN, budget, moved>>

UnlinkOld ==
    /\ At("update file", "unlink")
    /\ files' = files \ {File(op.id, old)}
    /\ Go("commit")
    /\ UNCHANGED <<remote, notes, dirs, baseF, baseN, budget, moved, spoilt>>

(* A note with a second file counts as moved: whichever of the two comes first *)
(* says where the note is, and renaming a directory may change which one does. *)
Settled(n) == \A x, y \in files : x.n = n /\ y.n = n => x = y

CommitNote ==
    /\ \/ At("create file", "commit") \/ At("update file", "commit")
       \/ At("update note", "commit") \/ At("adopt note", "ask")
    /\ baseN' = [baseN EXCEPT ![op.id] = notes[op.id]]
    /\ moved' = IF Settled(op.id) THEN moved \ {op.id} ELSE moved
    /\ Done
    /\ UNCHANGED <<remote, notes, dirs, files, baseF, budget, spoilt>>

(* _op_normalize_path makes the target directory when it is missing.          *)
Normalize ==
    /\ At("normalize", "ask")
    /\ IF File(op.id, old) \notin files
         THEN /\ Fail
              /\ UNCHANGED <<dirs, files>>
       ELSE IF old = new \/ File(op.id, new) \in files
         THEN /\ Done
              /\ UNCHANGED <<dirs, files, spoilt>>
       ELSE /\ dirs' = WithDir(dirs, new)
            /\ files' = (files \ {File(op.id, old)}) \cup {File(op.id, new)}
            /\ Done
            /\ UNCHANGED spoilt
    /\ UNCHANGED <<remote, notes, baseF, baseN, budget, moved>>

(* _op_push_update_remote: the notebook of the file's directory, or what the  *)
(* plan saw. A lost answer is settled by reading the note again.              *)
UpdateNote ==
    /\ At("update note", "ask")
    /\ IF File(op.id, old) \notin files \/ notes[op.id] # baseN[op.id]
         THEN /\ Fail
              /\ UNCHANGED notes
         ELSE /\ notes' = [notes EXCEPT ![op.id] = IF ResolveFolder(old) # Root
                                                     THEN ResolveFolder(old) ELSE op.saw]
              /\ Go("commit")
              /\ UNCHANGED spoilt
    /\ UNCHANGED <<remote, dirs, files, baseF, baseN, budget, moved>>

NewNotes == {n \in N : notes[n] = None}

(* _op_push_create_remote                                                     *)
CreateNote ==
    /\ At("create note", "ask")
    /\ IF ResolveFolder(old) = Root \/ File(Draft, old) \notin files \/ NewNotes = {}
         THEN /\ Fail
              /\ UNCHANGED <<notes, budget>>
         ELSE LET n == CHOOSE m \in NewNotes : \A k \in NewNotes : m <= k IN
              /\ notes' = [notes EXCEPT ![n] = ResolveFolder(old)]
              /\ \/ /\ run' = [run EXCEPT !.phase = "file", !.id = n]
                    /\ UNCHANGED <<budget, spoilt>>
                 \/ Spend("faults") /\ Fail
    /\ UNCHANGED <<remote, dirs, files, baseF, baseN, moved>>

WriteId ==
    /\ At("create note", "file")
    /\ files' = files \cup {File(run.id, old)}
    /\ Go("unlink")
    /\ UNCHANGED <<remote, notes, dirs, baseF, baseN, budget, moved, spoilt>>

UnlinkDraft ==
    /\ At("create note", "unlink")
    /\ files' = files \ {File(Draft, old)}
    /\ Go("commit")
    /\ UNCHANGED <<remote, notes, dirs, baseF, baseN, budget, moved, spoilt>>

CommitNewNote ==
    /\ At("create note", "commit")
    /\ baseN' = [baseN EXCEPT ![run.id] = notes[run.id]]
    /\ Done
    /\ UNCHANGED <<remote, notes, dirs, files, baseF, budget, moved, spoilt>>

----------------------------------------------------------------------------
(* Faults: an operation fails before it does anything; the process dies, and  *)
(* recover, which changes neither files nor Joplin nor the base, settles the  *)
(* journal of the run. A file that a dying pull has moved counts as moved by  *)
(* its user: the base does not know of it.                                    *)
Refused ==
    /\ Running
    /\ run.phase = "ask"
    /\ Spend("faults")
    /\ Fail
    /\ UNCHANGED <<remote, notes, dirs, files, baseF, baseN, moved>>

Crash ==
    /\ Running
    /\ Spend("faults")
    /\ run' = [NoRun EXCEPT !.result = "failed"]
    /\ spoilt' = (spoilt \/ (run.phase # "ask" /\ op.kind \in {"create dir", "update dir", "create folder"}))
    /\ moved' = IF op.kind = "update file" THEN moved \cup {op.id} ELSE moved
    /\ UNCHANGED <<remote, notes, dirs, files, baseF, baseN>>

----------------------------------------------------------------------------
(* Users, between runs                                                        *)

Edit == Spend("edits") /\ run' = NoRun

(* In Joplin *)
JoplinNotebook(f, t, p) ==
    /\ Edit
    /\ p \in Active \cup {Root}
    /\ [title |-> t, parent |-> p] # remote[f]
    /\ IF remote[f] = None THEN f \in Unused ELSE NoCycle(f, p)
    /\ remote' = [remote EXCEPT ![f] = [title |-> t, parent |-> p]]
    /\ UNCHANGED <<notes, dirs, files, baseF, baseN, moved, spoilt>>

JoplinNote(n, f) ==
    /\ Edit
    /\ f \in Active
    /\ notes[n] # f
    /\ notes' = [notes EXCEPT ![n] = f]
    /\ UNCHANGED <<remote, dirs, files, baseF, baseN, moved, spoilt>>

(* In the workspace *)
NewDir(p) ==
    /\ Edit
    /\ p \notin DOMAIN dirs
    /\ dirs' = WithDir(dirs, p)
    /\ UNCHANGED <<remote, notes, files, baseF, baseN, moved, spoilt>>

Retitle(p, t) ==
    /\ Edit
    /\ dirs[p].id # 0
    /\ dirs[p].title # t
    /\ dirs' = [dirs EXCEPT ![p].title = t]
    /\ UNCHANGED <<remote, notes, files, baseF, baseN, moved, spoilt>>

MoveDir(p, q) ==
    /\ Edit
    /\ q \notin DOMAIN dirs
    /\ ~IsPrefix(p, q)
    /\ dirs' = MoveTree(dirs, p, q)
    /\ files' = {[x EXCEPT !.dir = Moved(@, p, q)] : x \in files}
    /\ UNCHANGED <<remote, notes, baseF, baseN, moved, spoilt>>

MoveFile(x, p) ==
    /\ Edit
    /\ x.n # Draft
    /\ File(x.n, p) \notin files
    /\ files' = (files \ {x}) \cup {File(x.n, p)}
    /\ moved' = moved \cup {x.n}
    /\ UNCHANGED <<remote, notes, dirs, baseF, baseN, spoilt>>

NewDraft(p) ==
    /\ Edit
    /\ File(Draft, p) \notin files
    /\ files' = files \cup {File(Draft, p)}
    /\ UNCHANGED <<remote, notes, dirs, baseF, baseN, moved, spoilt>>

----------------------------------------------------------------------------
(* A workspace that mirrors Joplin: two notebooks, side by side or one in the *)
(* other, and a note in the first; the other ids are not used yet.            *)
Init ==
    \E nested \in BOOLEAN :
      LET second == IF nested THEN <<Plain(1), Plain(2)>> ELSE <<Plain(2)>>
          rows == [f \in F |-> IF f = 1 THEN [title |-> 1, parent |-> Root]
                              ELSE IF f = 2 THEN [title |-> 2,
                                                  parent |-> IF nested THEN 1 ELSE Root]
                              ELSE None] IN
      /\ remote = rows /\ baseF = rows
      /\ dirs = [p \in {<<Plain(1)>>, second} |->
                   IF p = second THEN [id |-> 2, title |-> 2] ELSE [id |-> 1, title |-> 1]]
      /\ notes = [n \in N |-> IF n = 1 THEN 1 ELSE None]
      /\ baseN = notes
      /\ files = {File(1, <<Plain(1)>>)}
      /\ run = NoRun
      /\ budget = [edits |-> MaxEdits, faults |-> MaxFaults, runs |-> MaxRuns]
      /\ moved = {} /\ spoilt = FALSE

Places == {<<Plain(t)>> : t \in 1..NT} \cup {p \o <<Plain(t)>> : p \in DOMAIN dirs, t \in 1..NT}

User ==
    /\ ~Running
    /\ \/ \E f \in F, t \in 1..NT, p \in F \cup {Root} : JoplinNotebook(f, t, p)
       \/ \E n \in N, f \in F : JoplinNote(n, f)
       \/ \E p \in Places : NewDir(p)
       \/ \E p \in DOMAIN dirs, t \in 1..NT : Retitle(p, t)
       \/ \E p \in DOMAIN dirs, q \in Places : MoveDir(p, q)
       \/ \E x \in files, p \in DOMAIN dirs : MoveFile(x, p)
       \/ \E p \in DOMAIN dirs : NewDraft(p)

Handler ==
    \/ MakeDir \/ RenameDir \/ WriteMeta \/ CommitDir
    \/ CreateFolder \/ WriteNewMeta \/ CommitNewFolder \/ UpdateFolder
    \/ WriteNote \/ UnlinkOld \/ CommitNote \/ Normalize \/ UpdateNote
    \/ CreateNote \/ WriteId \/ UnlinkDraft \/ CommitNewNote

Next ==
    \/ Start(TRUE, FALSE) \/ Start(FALSE, TRUE) \/ Start(TRUE, TRUE)
    \/ Handler \/ Refused \/ Crash \/ User

Spec == Init /\ [][Next]_vars

----------------------------------------------------------------------------
TypeOK ==
    /\ remote \in [F -> {None} \cup [title : 1..NT, parent : F \cup {Root}]]
    /\ notes \in [N -> F \cup {Root, None}]
    /\ \A p \in DOMAIN dirs : Proper(p) \subseteq DOMAIN dirs /\ dirs[p].id \in F \cup {0}
    /\ \A x \in files : x.n \in N \cup {Draft} /\ x.dir \in DOMAIN dirs
    /\ moved \subseteq N /\ spoilt \in BOOLEAN

(* The three properties below hold up to the moment when "spoilt" is set: in  *)
(* a history with a misnamed directory, a name that collides or a failed      *)
(* operation on a notebook, which no later run takes back, nothing is said.   *)
(* DirectoryNamesAreCosmetic in FoldersClaims is what is lost there.          *)

(* Until then, runs move a note to another notebook only when somebody moved  *)
(* its file, wherever renamed directories, failed operations on notes,        *)
(* crashes between operations and later runs have taken that file             *)
(* (sync.py _op_push_update_remote, resolve_folder_id, current_path).         *)
NotesStayUnlessMoved ==
    [][\A n \in N : notes[n] # None /\ notes'[n] # notes[n] /\ Running
          => n \in moved \/ spoilt]_vars

(* Until then, a run that reports no failure leaves nothing to do: the same   *)
(* command plans no operation but giving files the names of renamed           *)
(* notebooks, moving a notebook into one that the run itself created, and     *)
(* whatever it makes of a note that still has two files (planner.py           *)
(* build_plan against what the handlers of sync.py leave).                    *)
SuccessLeavesNothing ==
    run.result = "ok" /\ ~spoilt =>
      \A o \in Plan(run.pull, run.push) :
        \/ o.kind = "normalize"
        \/ o.kind = "update folder" /\ \E i \in DOMAIN run.created : run.created[i][1] = Parent(o.old)
        \/ o.id \in N /\ ~Settled(o.id)

(* Until then, a notebook the base knows has its directory, renamed or moved  *)
(* by users and by runs as it may be (sync.py _op_pull_create_dir,            *)
(* _op_pull_update_dir: metadata first, then the row).                        *)
NotebooksKeepTheirDirectory ==
    ~spoilt => \A f \in F : baseF[f] # None => DirOf(f) # {}
=============================================================================
