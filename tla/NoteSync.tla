------------------------------- MODULE NoteSync -------------------------------
(***************************************************************************)
(* The synchronization engine for existing notes: cli._sync_like, the      *)
(* remote snapshot, the journal and the executor of sync.py, with editors  *)
(* on both sides, network failures, ambiguous writes, crashes and recover. *)
(*                                                                         *)
(* One action is one read or write another actor can come between: an HTTP *)
(* request, a file access, a commit of the state database.  A command runs *)
(* under the workspace lock, so one process is modelled.  Content is       *)
(* [title, body, tags]: title and body stand for the fields whose change   *)
(* gives the remote note a new updated_time, tags for the associations     *)
(* that do not.  Folders, file names and id-less drafts are not in this    *)
(* module.                                                                 *)
(***************************************************************************)
EXTENDS Planner, Naturals

CONSTANTS
    Notes,             \* note ids
    Titles, Bodies,    \* values of the fields that updated_time covers
    Tags,              \* tags of Joplin
    MaxEdits,          \* bound on edits by users, on both sides together
    MaxFaults          \* bound on crashes, failures and ambiguous writes

TagSets == SUBSET Tags
Content == [title : Titles, body : Bodies, tags : TagSets]

ASSUME ConstantsAssumption ==
    /\ Components = {"title", "body", "tags"}
    /\ None \notin Content
    /\ None \notin Titles
    /\ None \notin Notes
    /\ None \notin [c : Content, ver : Nat]
    /\ None \notin [base : Content \cup {None}, local : Content \cup {None},
                    remote : Content \cup {None}]
    /\ MaxEdits \in Nat
    /\ MaxFaults \in Nat

VARIABLES
    (* the durable copies *)
    remote,     \* Joplin: [st, ver, c], ver standing for updated_time
    file,       \* the managed Markdown file of a note
    base,       \* notes table of state.db: [c, ver]
    bundle,     \* the open conflict of a note: [base, local, remote]
    (* the journal of the last run *)
    run,        \* status of its row in the runs table
    plan,       \* its operations, as journaled
    jstat,      \* status of each operation
    (* the running command *)
    pc, phase, cur, result,
    scan,       \* local scan
    tagmap,     \* tag map of the snapshot
    pending,    \* tags whose notes are not listed yet, or that a push still has to change
    listed,     \* listed title of the notes whose body must be fetched
    snap,       \* notes of the snapshot
    got,        \* last note fetched by fetch_remote_canonical
    text,       \* file content parsed for a push
    saved,      \* content the running operation backed up or quarantined
    (* bounds *)
    edits, faults,
    (* observation only *)
    quiet,      \* notes without an edit or a fault since the command began
    raced,      \* sides of `cur` edited since the command last read them
    committed   \* the run committed the post-state of this operation

copies  == <<remote, file, base, bundle>>
journal == <<run, plan, jstat>>
reads   == <<scan, tagmap, pending, listed, snap>>
locals  == <<got, text, saved>>
bounds  == <<edits, faults>>
ghosts  == <<quiet, raced, committed>>
vars == <<copies, journal, pc, phase, cur, result, reads, locals, bounds, ghosts>>

Side == Content \cup {None}
Fetched == [c : Content, ver : Nat]
RemoteNote == [st : {"live", "trash", "gone"}, ver : Nat, c : Content]
Op == [kind : Kinds, fields : SUBSET Components, base : Side, local : Side,
       remote : Side, open : BOOLEAN]

HandlerPcs == {"guard_local", "get", "tags", "backup", "write", "readback", "reread", "put",
               "put_tags", "tagging", "rename", "gone", "quarantine", "delete", "deleted",
               "commit", "bundle"}
PreparePcs == {"tag_map", "bodies"}

TypeOK ==
    /\ remote \in [Notes -> RemoteNote]
    /\ file \in [Notes -> Side]
    /\ base \in [Notes -> Fetched \cup {None}]
    /\ bundle \in [Notes -> [base : Side, local : Side, remote : Side] \cup {None}]
    /\ run \in {"none", "in-progress"}
    /\ plan \in [Notes -> Op]
    /\ jstat \in [Notes -> {"none", "planned", "applied", "skipped", "failed"}]
    /\ pc \in {"idle", "record", "exec", "mark", "finish"} \cup PreparePcs \cup HandlerPcs
    /\ phase \in {"guard", "probe", "verify"}
    /\ cur \in Notes \cup {None}
    /\ result \in {"none", "applied", "skipped", "failed", "concurrent"}
    /\ scan \in [Notes -> Side]
    /\ tagmap \in [Notes -> TagSets]
    /\ pending \in TagSets
    /\ listed \in [Notes -> Titles \cup {None}]
    /\ snap \in [Notes -> Side]
    /\ got \in Fetched \cup {None}
    /\ text \in Side
    /\ saved \in Side
    /\ edits \in Nat
    /\ faults \in Nat
    /\ quiet \in SUBSET Notes
    /\ raced \in SUBSET {"file", "remote"}
    /\ committed \in [Notes -> BOOLEAN]

Live(n) == remote[n].st = "live"
BaseContent(n) == IF base[n] = None THEN None ELSE base[n].c
RemoteContent(n) == IF Live(n) THEN remote[n].c ELSE None

(***************************************************************************)
(* A workspace is either freshly initialized over the notes of Joplin, or  *)
(* in sync with them.                                                      *)
(***************************************************************************)
Init ==
    /\ \E c \in Content, synced \in BOOLEAN :
        /\ remote = [n \in Notes |-> [st |-> "live", ver |-> 1, c |-> c]]
        /\ file = [n \in Notes |-> IF synced THEN c ELSE None]
        /\ base = [n \in Notes |-> IF synced THEN [c |-> c, ver |-> 1] ELSE None]
        /\ tagmap = [n \in Notes |-> c.tags]
    /\ bundle = [n \in Notes |-> None]
    /\ run = "none"
    /\ plan = [n \in Notes |-> NoOp]
    /\ jstat = [n \in Notes |-> "none"]
    /\ pc = "idle"
    /\ phase = "guard"
    /\ cur = None
    /\ result = "none"
    /\ scan = [n \in Notes |-> None]
    /\ pending = {}
    /\ listed = [n \in Notes |-> None]
    /\ snap = [n \in Notes |-> None]
    /\ got = None
    /\ text = None
    /\ saved = None
    /\ edits = 0
    /\ faults = 0
    /\ quiet = Notes
    /\ raced = {}
    /\ committed = [n \in Notes |-> FALSE]

-----------------------------------------------------------------------------
(***************************************************************************)
(* The editors: a user of the Markdown file, and the users and sync of     *)
(* Joplin.  Joplin gives a note a new updated_time when its fields change  *)
(* or it is restored, and none when a tag is attached or detached.         *)
(***************************************************************************)
Edited(n, side) ==
    /\ edits < MaxEdits
    /\ edits' = edits + 1
    /\ quiet' = quiet \ {n}
    /\ raced' = IF n = cur THEN raced \cup {side} ELSE raced
    /\ UNCHANGED <<base, bundle, journal, pc, phase, cur, result, reads, locals, faults,
                   committed>>

EditFile(n) ==
    /\ \E c \in Side : c # file[n] /\ file' = [file EXCEPT ![n] = c]
    /\ Edited(n, "file")
    /\ UNCHANGED remote

EditRemoteFields(n) ==
    /\ Live(n)
    /\ \E t \in Titles, b \in Bodies :
        /\ <<t, b>> # <<remote[n].c.title, remote[n].c.body>>
        /\ remote' = [remote EXCEPT ![n] = [st |-> "live", ver |-> @.ver + 1,
                         c |-> [title |-> t, body |-> b, tags |-> @.c.tags]]]
    /\ Edited(n, "remote")
    /\ UNCHANGED file

EditRemoteTags(n) ==
    /\ Live(n)
    /\ \E g \in TagSets \ {remote[n].c.tags} : remote' = [remote EXCEPT ![n].c.tags = g]
    /\ Edited(n, "remote")
    /\ UNCHANGED file

TrashRemote(n) ==
    /\ Live(n)
    /\ remote' = [remote EXCEPT ![n].st = "trash"]
    /\ Edited(n, "remote")
    /\ UNCHANGED file

RestoreRemote(n) ==
    /\ remote[n].st = "trash"
    /\ remote' = [remote EXCEPT ![n] = [st |-> "live", ver |-> @.ver + 1, c |-> @.c]]
    /\ Edited(n, "remote")
    /\ UNCHANGED file

PurgeRemote(n) ==
    /\ remote[n].st = "trash"
    /\ remote' = [remote EXCEPT ![n].st = "gone"]
    /\ Edited(n, "remote")
    /\ UNCHANGED file

Edit == \E n \in Notes :
    EditFile(n) \/ EditRemoteFields(n) \/ EditRemoteTags(n)
      \/ TrashRemote(n) \/ RestoreRemote(n) \/ PurgeRemote(n)

-----------------------------------------------------------------------------
(***************************************************************************)
(* cli._sync_like up to the journal: refuse when a run is incomplete, scan *)
(* the workspace, build the remote snapshot, classify and plan.            *)
(***************************************************************************)
Begin ==
    /\ pc = "idle"
    /\ run = "none"
    /\ pc' = "tag_map"
    /\ scan' = file
    /\ tagmap' = [n \in Notes |-> {}]
    /\ pending' = Tags
    /\ plan' = [n \in Notes |-> NoOp]
    /\ jstat' = [n \in Notes |-> "none"]
    /\ quiet' = Notes
    /\ committed' = [n \in Notes |-> FALSE]
    /\ UNCHANGED <<copies, run, phase, cur, result, listed, snap, locals, bounds, raced>>

(* The notes of each tag are a request of their own.  A tag that is made   *)
(* after the list of tags was read is as if its notes were listed at once. *)
ReadTagMap(t) ==
    /\ pc = "tag_map"
    /\ t \in pending
    /\ pending' = pending \ {t}
    /\ tagmap' = [n \in Notes |-> tagmap[n] \cup (remote[n].c.tags \cap {t})]
    /\ UNCHANGED <<copies, journal, pc, phase, cur, result, scan, listed, snap, locals, bounds,
                   ghosts>>

(* The note list gives every note but its body.  A note whose updated_time *)
(* is the one of its base row takes the body of the base row.              *)
SameVersion(n) == base[n] # None /\ base[n].ver = remote[n].ver

SnapshotBaseTags(n) == IF base[n] # None THEN base[n].c.tags ELSE tagmap[n]
SnapshotTags(n) == tagmap[n]

ListNotes ==
    /\ pc = "tag_map"
    /\ pending = {}
    /\ pc' = "bodies"
    /\ snap' = [n \in Notes |->
            IF Live(n) /\ SameVersion(n)
            THEN [title |-> remote[n].c.title, body |-> base[n].c.body, tags |-> SnapshotTags(n)]
            ELSE None]
    /\ listed' = [n \in Notes |->
            IF Live(n) /\ ~SameVersion(n) THEN remote[n].c.title ELSE None]
    /\ UNCHANGED <<copies, journal, phase, cur, result, scan, tagmap, pending, locals, bounds, ghosts>>

(* The other bodies are fetched one by one; the title stays the listed one.*)
FetchBody(n) ==
    /\ pc = "bodies"
    /\ listed[n] # None
    /\ snap' = [snap EXCEPT ![n] =
            IF Live(n)
            THEN [title |-> listed[n], body |-> remote[n].c.body, tags |-> SnapshotTags(n)]
            ELSE None]
    /\ listed' = [listed EXCEPT ![n] = None]
    /\ UNCHANGED <<copies, journal, pc, phase, cur, result, scan, tagmap, pending, locals, bounds, ghosts>>

(* classify, build_plan, and the first flush of the journal file. *)
MakePlan ==
    /\ pc = "bodies"
    /\ \A n \in Notes : listed[n] = None
    /\ \E dir \in Directions, prop \in BOOLEAN :
        plan' = [n \in Notes |->
            PlanOp(BaseContent(n), scan[n], snap[n], bundle[n] # None, dir, prop)]
    /\ jstat' = [n \in Notes |-> IF plan'[n].kind = "none" THEN "none" ELSE "planned"]
    /\ scan' = [n \in Notes |-> None]
    /\ snap' = [n \in Notes |-> None]
    /\ pc' = "record"
    /\ UNCHANGED <<copies, run, phase, cur, result, tagmap, pending, listed, locals, bounds, ghosts>>

RecordRunForgotten ==
    /\ pc = "record"
    /\ pc' = "exec"
    /\ UNCHANGED <<copies, journal, phase, cur, result, reads, locals, bounds, ghosts>>

(* The row of the runs table: from here on an interrupted run is seen. *)
RecordRun ==
    /\ pc = "record"
    /\ run' = "in-progress"
    /\ pc' = "exec"
    /\ UNCHANGED <<copies, plan, jstat, phase, cur, result, reads, locals, bounds, ghosts>>

(* A dry run, or a failure before the journal exists: nothing was written. *)
Abandon ==
    /\ pc \in PreparePcs
    /\ pc' = "idle"
    /\ scan' = [n \in Notes |-> None]
    /\ snap' = [n \in Notes |-> None]
    /\ listed' = [n \in Notes |-> None]
    /\ pending' = {}
    /\ UNCHANGED <<copies, journal, phase, cur, result, tagmap, locals, bounds, ghosts>>

Prepare == Begin \/ (\E t \in Tags : ReadTagMap(t)) \/ ListNotes \/ (\E n \in Notes : FetchBody(n))
             \/ MakePlan \/ RecordRun \/ Abandon

-----------------------------------------------------------------------------
(***************************************************************************)
(* Executor.run: operations one at a time, each through the steps of its   *)
(* handler.  `o` is the operation under execution.                         *)
(***************************************************************************)
o == plan[cur]

FirstStep(kind) ==
    CASE kind \in {"pull_create", "pull_update", "pull_delete", "push_update", "rebase", "adopt"}
                                  -> "guard_local"
      [] kind = "push_delete"     -> "get"
      [] kind = "drop_base"       -> "commit"
      [] kind = "create_conflict" -> "bundle"

StartOp(n) ==
    /\ pc = "exec"
    /\ jstat[n] = "planned"
    /\ cur' = n
    /\ phase' = "guard"
    /\ raced' = {}
    /\ pc' = FirstStep(plan[n].kind)
    /\ UNCHANGED <<copies, journal, result, reads, locals, bounds, quiet, committed>>

(* The handler returns or raises: `why` is what the operation ends with. *)
Ends(why) == result' = why /\ pc' = "mark"

(* _guard_local; for pull_create the check that the target does not exist. *)
GuardLocal ==
    /\ pc = "guard_local"
    /\ raced' = raced \ {"file"}
    /\ \/ /\ file[cur] = o.local
          /\ pc' = IF o.kind = "pull_delete" THEN "gone" ELSE "get"
          /\ UNCHANGED result
       \/ file[cur] # o.local /\ Ends("concurrent")
    /\ UNCHANGED <<copies, journal, phase, cur, reads, locals, bounds, quiet, committed>>

(* fetch_remote_canonical is two requests: the note, then its tags. *)
GetNote ==
    /\ pc = "get"
    /\ pc' = "tags"
    /\ got' = IF Live(cur) THEN [c |-> remote[cur].c, ver |-> remote[cur].ver] ELSE None
    /\ raced' = raced \ {"remote"}
    /\ UNCHANGED <<copies, journal, phase, cur, result, reads, text, saved, bounds,
                   quiet, committed>>

WithTags == IF got = None THEN None ELSE [got EXCEPT !.c.tags = remote[cur].c.tags]

(* The hash comparison of _guard_remote. *)
GuardAlwaysHolds(g) == g # None
GuardHolds(g) == IF g = None THEN o.remote = None ELSE g.c = o.remote

AfterGuard(kind) ==
    CASE kind = "pull_create"           -> "write"
      [] kind = "pull_update"           -> "backup"
      [] kind = "push_update"           -> "reread"
      [] kind = "push_delete"           -> "delete"
      [] kind \in {"rebase", "adopt"}   -> "commit"

GuardRemote ==
    /\ pc = "tags"
    /\ phase = "guard"
    /\ got' = WithTags
    /\ \/ /\ GuardHolds(got')
          /\ pc' = AfterGuard(o.kind)
          /\ UNCHANGED result
       \/ /\ ~GuardHolds(got')
          /\ Ends(IF got' = None /\ o.kind = "pull_create" THEN "skipped" ELSE "concurrent")
    /\ UNCHANGED <<copies, journal, phase, cur, reads, text, saved, bounds, ghosts>>

(* pull_update copies the current file to the run's backups. *)
BackupSkipped ==
    /\ pc = "backup"
    /\ pc' = "write"
    /\ raced' = raced \ {"file"}
    /\ UNCHANGED <<copies, journal, phase, cur, result, reads, locals, bounds,
                   quiet, committed>>

Backup ==
    /\ pc = "backup"
    /\ pc' = "write"
    /\ saved' = file[cur]
    /\ raced' = raced \ {"file"}
    /\ UNCHANGED <<copies, journal, phase, cur, result, reads, got, text, bounds,
                   quiet, committed>>

(* _write_local_note writes the file and reads it back. *)
WriteLocal ==
    /\ pc = "write"
    /\ pc' = "readback"
    /\ file' = [file EXCEPT ![cur] = got.c]
    /\ UNCHANGED <<remote, base, bundle, journal, phase, cur, result, reads, locals, bounds,
                   ghosts>>

ReadBack ==
    /\ pc = "readback"
    /\ raced' = raced \ {"file"}
    /\ \/ file[cur] = got.c /\ pc' = "commit" /\ UNCHANGED result
       \/ file[cur] # got.c /\ Ends("failed")
    /\ UNCHANGED <<copies, journal, phase, cur, reads, locals, bounds, quiet, committed>>

-----------------------------------------------------------------------------
(* push_update: the file is parsed again, and its content is what is sent. *)
Reread ==
    /\ pc = "reread"
    /\ raced' = raced \ {"file"}
    /\ text' = file[cur]
    /\ \/ /\ file[cur] # None
          /\ pc' = IF o.fields \subseteq {"tags"} THEN "put_tags" ELSE "put"
          /\ UNCHANGED result
       \/ file[cur] = None /\ Ends("failed")
    /\ UNCHANGED <<copies, journal, phase, cur, reads, got, saved, bounds, quiet, committed>>

Sent == [remote EXCEPT ![cur] =
           [st |-> @.st, ver |-> @.ver + 1, c |-> Overlay(@.c, text, o.fields \ {"tags"})]]

Put ==
    /\ pc = "put"
    /\ \/ remote[cur].st # "gone" /\ remote' = Sent /\ pc' = "put_tags" /\ UNCHANGED result
       \/ remote[cur].st = "gone" /\ Ends("failed") /\ UNCHANGED remote
    /\ UNCHANGED <<file, base, bundle, journal, phase, cur, reads, locals, bounds, ghosts>>

(* No answer to the PUT: it was applied or not, and the note is read again.*)
PutAmbiguous ==
    /\ pc = "put"
    /\ faults < MaxFaults
    /\ \/ remote[cur].st # "gone" /\ remote' = Sent
       \/ UNCHANGED remote
    /\ faults' = faults + 1
    /\ quiet' = quiet \ {cur}
    /\ phase' = "probe"
    /\ pc' = "get"
    /\ UNCHANGED <<file, base, bundle, journal, cur, result, reads, locals, edits, raced, committed>>

(* What the note should read if the PUT was applied. *)
IntendedProbe(g) == [text EXCEPT !.tags = IF "tags" \in o.fields THEN @ ELSE g.c.tags]

Probe ==
    /\ pc = "tags"
    /\ phase = "probe"
    /\ got' = WithTags
    /\ LET applied == got' # None /\ got'.c = IntendedProbe(got') IN
       \/ applied /\ pc' = "put_tags" /\ UNCHANGED result
       \/ ~applied /\ (got' # None => got'.c # o.remote) /\ Ends("concurrent")
       \/ ~applied /\ got' # None /\ got'.c = o.remote /\ Ends("failed")
    /\ UNCHANGED <<copies, journal, phase, cur, reads, text, saved, bounds, ghosts>>

(* _reconcile_tags, when the tags are among the changed components: the    *)
(* tags of the note are read, ...                                          *)
PutTags ==
    /\ pc = "put_tags"
    /\ \/ /\ "tags" \notin o.fields
          /\ pc' = "get"
          /\ phase' = "verify"
          /\ UNCHANGED <<pending, result>>
       \/ /\ "tags" \in o.fields
          /\ remote[cur].st # "gone"
          /\ pending' = (text.tags \ remote[cur].c.tags) \cup (remote[cur].c.tags \ text.tags)
          /\ pc' = "tagging"
          /\ UNCHANGED <<phase, result>>
       \/ /\ "tags" \in o.fields
          /\ remote[cur].st = "gone"
          /\ Ends("failed")
          /\ UNCHANGED <<phase, pending>>
    /\ UNCHANGED <<copies, journal, cur, scan, tagmap, listed, snap, locals, bounds, ghosts>>

(* ... the missing ones are attached, then the others detached, one by one.*)
Toggled(t) == [remote EXCEPT ![cur].c.tags = IF t \in text.tags THEN @ \cup {t} ELSE @ \ {t}]
Due(t) == t \in pending /\ (t \notin text.tags => pending \cap text.tags = {})

PutTag(t) ==
    /\ pc = "tagging"
    /\ Due(t)
    /\ pending' = pending \ {t}
    /\ \/ remote[cur].st # "gone" /\ remote' = Toggled(t) /\ UNCHANGED <<pc, result>>
       \/ remote[cur].st = "gone" /\ Ends("failed") /\ UNCHANGED remote
    /\ UNCHANGED <<file, base, bundle, journal, phase, cur, scan, tagmap, listed, snap, locals,
                   bounds, ghosts>>

(* One of these requests is not answered after it was applied. *)
PutTagAmbiguous(t) ==
    /\ pc = "tagging"
    /\ Due(t)
    /\ remote[cur].st # "gone"
    /\ faults < MaxFaults
    /\ remote' = Toggled(t)
    /\ faults' = faults + 1
    /\ quiet' = quiet \ {cur}
    /\ Ends("failed")
    /\ UNCHANGED <<file, base, bundle, journal, phase, cur, reads, locals, edits, raced, committed>>

TagsPut ==
    /\ pc = "tagging"
    /\ pending = {}
    /\ pc' = "get"
    /\ phase' = "verify"
    /\ UNCHANGED <<copies, journal, cur, result, reads, locals, bounds, ghosts>>

(* Post-write verification against the content that was sent. *)
VerifiesAnything(g) == g # None
Verifies(g) == g # None /\ g.c = text

Verify ==
    /\ pc = "tags"
    /\ phase = "verify"
    /\ got' = WithTags
    /\ \/ Verifies(got') /\ pc' = "rename" /\ UNCHANGED result
       \/ ~Verifies(got') /\ Ends(IF got' = None THEN "failed" ELSE "concurrent")
    /\ UNCHANGED <<copies, journal, phase, cur, reads, text, saved, bounds, ghosts>>

(* When the file does not have its canonical name, the pushed content is   *)
(* written under that name and the old file is unlinked.                   *)
Rename ==
    /\ pc = "rename"
    /\ \/ file' = [file EXCEPT ![cur] = text] /\ pc' = "readback"
       \/ UNCHANGED file /\ pc' = "commit"
    /\ UNCHANGED <<remote, base, bundle, journal, phase, cur, result, reads, locals, bounds,
                   ghosts>>

-----------------------------------------------------------------------------
(* pull_delete: the note must be trashed or gone; the file is quarantined. *)
ConfirmGone ==
    /\ pc = "gone"
    /\ \/ ~Live(cur) /\ pc' = "quarantine" /\ UNCHANGED result
       \/ Live(cur) /\ Ends("concurrent")
    /\ UNCHANGED <<copies, journal, phase, cur, reads, locals, bounds, ghosts>>

Quarantine ==
    /\ pc = "quarantine"
    /\ \/ /\ file[cur] # None
          /\ saved' = file[cur]
          /\ file' = [file EXCEPT ![cur] = None]
          /\ pc' = "commit"
          /\ UNCHANGED result
       \/ file[cur] = None /\ Ends("failed") /\ UNCHANGED <<file, saved>>
    /\ UNCHANGED <<remote, base, bundle, journal, phase, cur, reads, got, text, bounds, ghosts>>

(* push_delete: the remote note goes to the trash, never away. *)
Trashed == [remote EXCEPT ![cur].st = "trash"]

Delete ==
    /\ pc = "delete"
    /\ \/ remote[cur].st # "gone" /\ remote' = Trashed /\ pc' = "deleted" /\ UNCHANGED result
       \/ remote[cur].st = "gone" /\ Ends("failed") /\ UNCHANGED remote
    /\ UNCHANGED <<file, base, bundle, journal, phase, cur, reads, locals, bounds, ghosts>>

DeleteAmbiguous ==
    /\ pc = "delete"
    /\ faults < MaxFaults
    /\ remote[cur].st # "gone"
    /\ remote' = Trashed
    /\ faults' = faults + 1
    /\ quiet' = quiet \ {cur}
    /\ Ends("failed")
    /\ UNCHANGED <<file, base, bundle, journal, phase, cur, reads, locals, edits, raced, committed>>

VerifyDeleted ==
    /\ pc = "deleted"
    /\ \/ ~Live(cur) /\ pc' = "commit" /\ UNCHANGED result
       \/ Live(cur) /\ Ends("failed")
    /\ UNCHANGED <<copies, journal, phase, cur, reads, locals, bounds, ghosts>>

-----------------------------------------------------------------------------
(* The upsert or delete of the base row, the last write of every handler. *)
NewBase ==
    CASE o.kind \in {"pull_create", "pull_update"} -> got
      [] o.kind = "push_update"           -> [c |-> text, ver |-> got.ver]
      [] o.kind \in {"rebase", "adopt"}   -> [c |-> o.local, ver |-> got.ver]
      [] o.kind \in {"pull_delete", "push_delete", "drop_base"} -> None

Commit ==
    /\ pc = "commit"
    /\ base' = [base EXCEPT ![cur] = NewBase]
    /\ committed' = [committed EXCEPT ![cur] = TRUE]
    /\ Ends("applied")
    /\ UNCHANGED <<remote, file, bundle, journal, phase, cur, reads, locals, bounds, quiet, raced>>

(* create_bundle, from the planned states; idempotent while one is open. *)
CreateBundle ==
    /\ pc = "bundle"
    /\ bundle' = IF bundle[cur] = None
                 THEN [bundle EXCEPT ![cur] =
                        [base |-> o.base, local |-> o.local, remote |-> o.remote]]
                 ELSE bundle
    /\ committed' = [committed EXCEPT ![cur] = TRUE]
    /\ Ends("applied")
    /\ UNCHANGED <<remote, file, base, journal, phase, cur, reads, locals, bounds, quiet, raced>>

(* Any request or file access of a handler may raise. *)
OpFails ==
    /\ pc \in HandlerPcs
    /\ faults < MaxFaults
    /\ faults' = faults + 1
    /\ quiet' = quiet \ {cur}
    /\ Ends("failed")
    /\ UNCHANGED <<copies, journal, phase, cur, reads, locals, edits, raced, committed>>

(* journal.mark: the outcome of the operation is flushed. *)
MarkedStatus == IF result = "concurrent" THEN "failed" ELSE result

MarkOnlyApplied ==
    /\ pc = "mark"
    /\ jstat' = IF result = "concurrent" THEN jstat ELSE [jstat EXCEPT ![cur] = result]
    /\ pc' = "exec"
    /\ cur' = None
    /\ result' = "none"
    /\ phase' = "guard"
    /\ got' = None
    /\ text' = None
    /\ saved' = None
    /\ raced' = {}
    /\ pending' = {}
    /\ UNCHANGED <<copies, run, plan, scan, tagmap, listed, snap, bounds, quiet, committed>>

Mark ==
    /\ pc = "mark"
    /\ jstat' = [jstat EXCEPT ![cur] = MarkedStatus]
    /\ pc' = "exec"
    /\ cur' = None
    /\ result' = "none"
    /\ phase' = "guard"
    /\ got' = None
    /\ text' = None
    /\ saved' = None
    /\ raced' = {}
    /\ pending' = {}
    /\ UNCHANGED <<copies, run, plan, scan, tagmap, listed, snap, bounds, quiet, committed>>

(* finalize_run: the journal file, then the row of the runs table. *)
EndsAtFirstFailure ==
    (\E n \in Notes : jstat[n] = "failed") \/ (\A n \in Notes : jstat[n] # "planned")
AllSettled == \A n \in Notes : jstat[n] # "planned"

FinishFile ==
    /\ pc = "exec"
    /\ AllSettled
    /\ pc' = "finish"
    /\ UNCHANGED <<copies, journal, phase, cur, result, reads, locals, bounds, ghosts>>

FinishRun ==
    /\ pc = "finish"
    /\ pc' = "idle"
    /\ run' = "none"
    /\ UNCHANGED <<copies, plan, jstat, phase, cur, result, reads, locals, bounds, ghosts>>

Handler ==
    \/ GuardLocal \/ GetNote \/ GuardRemote \/ Backup \/ WriteLocal \/ ReadBack
    \/ Reread \/ Put \/ PutAmbiguous \/ Probe \/ PutTags \/ (\E t \in Tags : PutTag(t))
    \/ (\E t \in Tags : PutTagAmbiguous(t)) \/ TagsPut \/ Verify \/ Rename
    \/ ConfirmGone \/ Quarantine \/ Delete \/ DeleteAmbiguous \/ VerifyDeleted
    \/ Commit \/ CreateBundle \/ OpFails

Execute == (\E n \in Notes : StartOp(n)) \/ Handler \/ Mark \/ FinishFile \/ FinishRun

-----------------------------------------------------------------------------
(* The process dies: its memory is lost, files and state database stay. *)
Crash ==
    /\ pc # "idle"
    /\ faults < MaxFaults
    /\ faults' = faults + 1
    /\ quiet' = {}
    /\ pc' = "idle"
    /\ phase' = "guard"
    /\ cur' = None
    /\ result' = "none"
    /\ scan' = [n \in Notes |-> None]
    /\ listed' = [n \in Notes |-> None]
    /\ snap' = [n \in Notes |-> None]
    /\ pending' = {}
    /\ got' = None
    /\ text' = None
    /\ saved' = None
    /\ raced' = {}
    /\ UNCHANGED <<copies, journal, tagmap, edits, committed>>

(* journal._op_was_applied for the operations on existing notes: the state *)
(* database as witness.  Those on notebooks are judged in Folders, and do  *)
(* not tell the truth there.  Of notes, the creation in Joplin is left out *)
(* (applied when any base row has the content of the draft) and the rename *)
(* to the canonical name (when the base row has that path): this module    *)
(* plans neither.                                                          *)
WasAppliedByFile(n) ==
    CASE plan[n].kind \in {"pull_create", "pull_update"} -> file[n] = plan[n].remote
      [] plan[n].kind \in {"push_update", "rebase", "adopt"} -> BaseContent(n) = plan[n].local
      [] plan[n].kind \in {"pull_delete", "push_delete", "drop_base"} -> base[n] = None
      [] plan[n].kind = "create_conflict" -> bundle[n] # None

WasApplied(n) ==
    CASE plan[n].kind \in {"pull_create", "pull_update"} -> BaseContent(n) = plan[n].remote
      [] plan[n].kind \in {"push_update", "rebase", "adopt"} -> BaseContent(n) = plan[n].local
      [] plan[n].kind \in {"pull_delete", "push_delete", "drop_base"} -> base[n] = None
      [] plan[n].kind = "create_conflict" -> bundle[n] # None

(* recover_incomplete_runs: settle the journal, replay nothing. *)
Recover ==
    /\ pc = "idle"
    /\ run = "in-progress"
    /\ run' = "none"
    /\ jstat' = [n \in Notes |->
            IF jstat[n] # "planned" THEN jstat[n]
            ELSE IF WasApplied(n) THEN "applied" ELSE "skipped"]
    /\ UNCHANGED <<copies, plan, pc, phase, cur, result, reads, locals, bounds, ghosts>>

Next == Edit \/ Prepare \/ Execute \/ Crash \/ Recover

(* A command that was started keeps running: nothing it waits for is under *)
(* the control of another actor, since every request has a timeout.        *)
Running == pc # "idle" /\ (Prepare \/ Execute)

Spec == Init /\ [][Next]_vars /\ WF_vars(Running)

-----------------------------------------------------------------------------
(* The shortcut of build_remote_snapshot is sound: a base row with the     *)
(* updated_time of the remote note has its title and body, whatever edits, *)
(* failed writes and crashes happened between the runs (sync.py:60-65).    *)
NotAfter(f, r) ==
    /\ f.ver <= r.ver
    /\ f.ver = r.ver => f.c.title = r.c.title /\ f.c.body = r.c.body

VersionTruth == \A n \in Notes : base[n] # None => NotAfter(base[n], remote[n])

(* Of the operations on an existing note, the kinds of this module, the    *)
(* journal never claims one whose post-state was not committed, nor        *)
(* disclaims one that was, whether the executor or recover settled it      *)
(* (journal.py:104-109).  Two cases are outside: a bundle that was open    *)
(* before the run, and a push of a file edited after planning.             *)
JournalTellsTruth ==
    \A n \in Notes :
        /\ jstat[n] = "applied" =>
              committed[n] \/ (plan[n].kind = "create_conflict" /\ plan[n].open)
        /\ jstat[n] \in {"skipped", "failed"} =>
              ~committed[n] \/ (plan[n].kind = "push_update" /\ BaseContent(n) # plan[n].local)

(* A note nobody interfered with is handled as if the run were atomic: at  *)
(* the end it is where AtomicSync puts it, from the copies the plan was    *)
(* made from, whatever happened to the other notes of the run (SYN-001).   *)
Copy(n) == [base |-> BaseContent(n), file |-> file[n], remote |-> RemoteContent(n),
            open |-> bundle[n] # None]
Planned(n) == [base |-> plan[n].base, file |-> plan[n].local, remote |-> plan[n].remote,
               open |-> plan[n].open]

QuietRunIsAtomic ==
    pc = "finish" => \A n \in quiet : Copy(n) = Effect(plan[n], Planned(n))

(* What a push has made of the note: the fields it sends, over the planned *)
(* ones, and each tag as planned or as it is to be.                        *)
WrittenSoFar(n) ==
    LET c == remote[n].c p == plan[n] IN
    /\ p.kind = "push_update"
    /\ text # None
    /\ [c EXCEPT !.tags = p.remote.tags] = Overlay(p.remote, text, p.fields \ {"tags"})
    /\ \A t \in Tags : t \in c.tags \/ t \notin p.remote.tags \/ t \notin text.tags
    /\ \A t \in c.tags : t \in p.remote.tags \/ t \in text.tags

(* The command replaces or removes a copy only over content it has backed  *)
(* up, pushed or compared with the plan, unless that side was edited after *)
(* the command last read it (SYN-006; sync.py _guard_local, _guard_remote).*)
OverwritesOnlyWhatWasSeen ==
    [][edits' = edits => \A n \in Notes :
        /\ file'[n] # file[n] /\ file[n] # None =>
              file[n] = saved' \/ file[n] = text \/ "file" \in raced
        /\ remote'[n] # remote[n] =>
              \/ Live(n) /\ remote[n].c = plan[n].remote
              \/ Live(n) /\ WrittenSoFar(n)
              \/ "remote" \in raced]_vars

(* A base row is committed only when both sides read the committed content,*)
(* up to edits made after the command last read that side (SYN-006).       *)
CommitMatchesBothSides ==
    [][\A n \in Notes : base'[n] # base[n] /\ base'[n] # None =>
        /\ (Live(n) /\ remote[n].c = base'[n].c) \/ "remote" \in raced
        /\ file[n] = base'[n].c \/ "file" \in raced]_vars

(* No copy is touched by a run that recover would not find (SYN-008).      *)
WritesAreJournaled ==
    [][edits' = edits /\ copies' # copies => run = "in-progress"]_vars

(* Every command that was started comes to an end, whatever fails on the   *)
(* way: no operation is executed again and again.                          *)
RunEnds == pc # "idle" ~> pc = "idle"
=============================================================================
