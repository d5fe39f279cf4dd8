------------------------------ MODULE Conflicts ------------------------------
(***************************************************************************)
(* The life of the conflict bundle of one note: conflicts.py and the       *)
(* `conflicts` commands of cli.py.  Bundles are opened by runs of pull,    *)
(* push and sync, which are atomic here (NoteSync takes them apart), and   *)
(* closed by `conflicts resolve`, whose every request and file access is   *)
(* an action, or by `conflicts discard`.  Only the requests that attach    *)
(* and detach tags are one action here; NoteSync takes them apart.         *)
(*                                                                         *)
(* Content is [text, tags]: text stands for title and body, which a        *)
(* resolution always sends together; the tags are sent separately.         *)
(***************************************************************************)
EXTENDS Planner, Naturals

CONSTANTS
    Texts, TagSets,
    MaxEdits,          \* bound on edits by users, on both sides together
    MaxFaults          \* bound on crashes and failures

Content == [text : Texts, tags : TagSets]
Side == Content \cup {None}

ASSUME ConstantsAssumption ==
    /\ Components = {"text", "tags"}
    /\ None \notin Content
    /\ MaxEdits \in Nat
    /\ MaxFaults \in Nat

VARIABLES
    remote,    \* Joplin: [st, c]
    file,      \* the managed file
    base,      \* the base row
    bundle,    \* evidence of the open conflict: [local, remote]
    run,       \* the row of the last resolution in the runs table
    pc, mode,  \* the resolution in progress
    seen,      \* the note in the answer to its last request, before the tags
    text,      \* the content it applies
    saved,     \* the file it backed up
    edits, faults,
    raced      \* sides edited since the resolution compared or wrote them

copies == <<remote, file, base, bundle>>
vars == <<copies, run, pc, mode, seen, text, saved, edits, faults, raced>>

Modes == {"take-local", "take-remote", "merged-file"}

StepPcs == {"check_remote", "check_tags", "check_local", "act", "trash", "trashed",
            "fetch", "fetch_tags", "lookup", "restore", "create", "put", "put_tags",
            "verify", "verify_tags", "take_tags", "backup", "write", "commit", "close"}

TypeOK ==
    /\ remote \in [st : {"live", "trash", "gone"}, c : Content]
    /\ file \in Side
    /\ base \in Side
    /\ bundle \in [local : Side, remote : Side] \cup {None}
    /\ run \in {"none", "in-progress"}
    /\ pc \in {"idle", "finish"} \cup StepPcs
    /\ mode \in Modes
    /\ seen \in Side
    /\ text \in Side
    /\ saved \in Side
    /\ edits \in 0..MaxEdits
    /\ faults \in 0..MaxFaults
    /\ raced \in SUBSET {"file", "remote"}

Live == remote.st = "live"
RemoteContent == IF Live THEN remote.c ELSE None

Init ==
    /\ \E c \in Content :
        /\ remote = [st |-> "live", c |-> c]
        /\ file = c
        /\ base \in {None, c}
    /\ bundle = None
    /\ run = "none"
    /\ pc = "idle"
    /\ mode = "take-local"
    /\ seen = None
    /\ text = None
    /\ saved = None
    /\ edits = 0
    /\ faults = 0
    /\ raced = {}

-----------------------------------------------------------------------------
(* The editors of both sides. *)
Edited(side) ==
    /\ edits < MaxEdits
    /\ edits' = edits + 1
    /\ raced' = IF pc = "idle" THEN {} ELSE raced \cup {side}
    /\ UNCHANGED <<base, bundle, run, pc, mode, seen, text, saved, faults>>

EditFile ==
    /\ \E c \in Side \ {file} : file' = c
    /\ Edited("file")
    /\ UNCHANGED remote

EditRemote ==
    /\ Live
    /\ \E c \in Content \ {remote.c} : remote' = [remote EXCEPT !.c = c]
    /\ Edited("remote")
    /\ UNCHANGED file

TrashOrRestoreRemote ==
    /\ \/ Live /\ remote' = [remote EXCEPT !.st = "trash"]
       \/ remote.st = "trash" /\ \E st \in {"live", "gone"} : remote' = [remote EXCEPT !.st = st]
    /\ Edited("remote")
    /\ UNCHANGED file

-----------------------------------------------------------------------------
(* A run of pull, push or sync, with the effect its plan has when nothing  *)
(* interferes; create_bundle returns an open bundle untouched.             *)
Copies == [base |-> base, file |-> file, remote |-> RemoteContent, open |-> bundle # None]

After(dir, prop) ==
    Effect(PlanOp(base, file, RemoteContent, bundle # None, dir, prop), Copies)

BundleAfter(t) ==
    IF t.open /\ bundle = None THEN [local |-> file, remote |-> RemoteContent] ELSE bundle

Sync ==
    /\ pc = "idle"
    /\ run = "none"
    /\ \E dir \in Directions, prop \in BOOLEAN :
        LET t == After(dir, prop)
        IN  /\ base' = t.base
            /\ file' = t.file
            /\ remote' = IF t.remote = RemoteContent THEN remote
                         ELSE IF t.remote = None THEN [remote EXCEPT !.st = "trash"]
                         ELSE [remote EXCEPT !.c = t.remote]
            /\ bundle' = BundleAfter(t)
    /\ UNCHANGED <<run, pc, mode, seen, text, saved, edits, faults, raced>>

(* conflicts discard: allowed even when a run is incomplete. *)
Discard ==
    /\ pc = "idle"
    /\ bundle # None
    /\ bundle' = None
    /\ UNCHANGED <<remote, file, base, run, pc, mode, seen, text, saved, edits, faults, raced>>

-----------------------------------------------------------------------------
(* conflicts resolve: the journal is begun, then both sides are compared   *)
(* with the evidence.                                                      *)
Resolve ==
    /\ pc = "idle"
    /\ run = "none"
    /\ bundle # None
    /\ run' = "in-progress"
    /\ pc' = "check_remote"
    /\ mode' \in Modes
    /\ UNCHANGED <<copies, seen, text, saved, edits, faults, raced>>

(* A JoplinSyncError is journaled and the run is finished.  Any other      *)
(* exception leaves the run incomplete.                                    *)
FailRetries == pc' = "check_remote"
Fail == pc' = "finish"
Escape == pc' = "idle" /\ seen' = None /\ text' = None /\ saved' = None /\ raced' = {}

NeverStale(now, then) == TRUE
Fresh(now, then) == now = then

(* fetch_remote_canonical is two requests: a note that is live, then its   *)
(* tags.                                                                   *)
AskNote == seen' = RemoteContent /\ raced' = raced \ {"remote"}
SeenWithTags == [seen EXCEPT !.tags = remote.c.tags]

CheckRemote ==
    /\ pc = "check_remote"
    /\ AskNote
    /\ IF Live THEN pc' = "check_tags"
       ELSE IF Fresh(None, bundle.remote) THEN pc' = "check_local" ELSE Fail
    /\ UNCHANGED <<copies, run, mode, text, saved, edits, faults>>

CheckTags ==
    /\ pc = "check_tags"
    /\ seen' = None
    /\ IF Fresh(SeenWithTags, bundle.remote) THEN pc' = "check_local" ELSE Fail
    /\ UNCHANGED <<copies, run, mode, text, saved, edits, faults, raced>>

CheckLocal ==
    /\ pc = "check_local"
    /\ raced' = raced \ {"file"}
    /\ IF Fresh(file, bundle.local) THEN pc' = "act" ELSE Fail
    /\ UNCHANGED <<copies, run, mode, seen, text, saved, edits, faults>>

(* _resolve_take_local, when the local side is the deletion ... *)
TakeLocalDeletion ==
    /\ pc = "act"
    /\ mode = "take-local"
    /\ bundle.local = None
    /\ pc' = "trash"
    /\ UNCHANGED <<copies, run, mode, seen, text, saved, edits, faults, raced>>

Trash ==
    /\ pc = "trash"
    /\ IF remote.st = "gone" THEN Fail /\ UNCHANGED remote
       ELSE remote' = [remote EXCEPT !.st = "trash"] /\ pc' = "trashed"
    /\ UNCHANGED <<file, base, bundle, run, mode, seen, text, saved, edits, faults, raced>>

VerifyTrashed ==
    /\ pc = "trashed"
    /\ raced' = raced \ {"remote"}
    /\ IF Live THEN Fail ELSE pc' = "commit"
    /\ UNCHANGED <<copies, run, mode, seen, text, saved, edits, faults>>

(* ... and when it is an edit: the file is read again and pushed. *)
TakeLocalEdit ==
    /\ pc = "act"
    /\ mode = "take-local"
    /\ bundle.local # None
    /\ IF file = None THEN Escape
       ELSE pc' = "fetch" /\ text' = file /\ raced' = raced \ {"file"} /\ UNCHANGED <<seen, saved>>
    /\ UNCHANGED <<copies, run, mode, edits, faults>>

(* backup_file, when the file exists. *)
BackupNothing == saved' = saved
BackupFile == saved' = file

(* _resolve_take_remote, when the remote side is the deletion: the file is *)
(* backed up and quarantined ...                                           *)
TakeRemoteDeletion ==
    /\ pc = "act"
    /\ mode = "take-remote"
    /\ bundle.remote = None
    /\ BackupFile
    /\ file' = None
    /\ pc' = "commit"
    /\ raced' = raced \ {"file"}
    /\ UNCHANGED <<remote, base, bundle, run, mode, seen, text, edits, faults>>

(* ... and when it is an edit: it is fetched again, and the file backed up *)
(* and replaced.                                                           *)
TakeRemoteEdit ==
    /\ pc = "act"
    /\ mode = "take-remote"
    /\ bundle.remote # None
    /\ IF Live THEN AskNote /\ pc' = "take_tags" /\ UNCHANGED <<text, saved>>
       ELSE Escape
    /\ UNCHANGED <<copies, run, mode, edits, faults>>

TakeRemoteTags ==
    /\ pc = "take_tags"
    /\ text' = SeenWithTags
    /\ seen' = None
    /\ pc' = "backup"
    /\ UNCHANGED <<copies, run, mode, saved, edits, faults, raced>>

Backup ==
    /\ pc = "backup"
    /\ BackupFile
    /\ pc' = "write"
    /\ raced' = raced \ {"file"}
    /\ UNCHANGED <<copies, run, mode, seen, text, edits, faults>>

(* _resolve_merged: the file is backed up, the merged content pushed. *)
TakeMerged ==
    /\ pc = "act"
    /\ mode = "merged-file"
    /\ \E c \in Content : text' = c
    /\ BackupFile
    /\ pc' = "fetch"
    /\ raced' = raced \ {"file"}
    /\ UNCHANGED <<copies, run, mode, seen, edits, faults>>

-----------------------------------------------------------------------------
(* _push_content: a live note is updated, a trashed one restored first, a  *)
(* purged one created again under its id.                                  *)
Fetch ==
    /\ pc = "fetch"
    /\ pc' = IF Live THEN "fetch_tags" ELSE "lookup"
    /\ UNCHANGED <<copies, run, mode, seen, text, saved, edits, faults, raced>>

FetchTags ==
    /\ pc = "fetch_tags"
    /\ pc' = "put"
    /\ UNCHANGED <<copies, run, mode, seen, text, saved, edits, faults, raced>>

Lookup ==
    /\ pc = "lookup"
    /\ pc' = IF remote.st = "trash" THEN "restore" ELSE "create"
    /\ UNCHANGED <<copies, run, mode, seen, text, saved, edits, faults, raced>>

Restore ==
    /\ pc = "restore"
    /\ IF remote.st = "gone" THEN Fail /\ UNCHANGED remote
       ELSE remote' = [remote EXCEPT !.st = "live"] /\ pc' = "put"
    /\ UNCHANGED <<file, base, bundle, run, mode, seen, text, saved, edits, faults, raced>>

Create ==
    /\ pc = "create"
    /\ IF remote.st # "gone" THEN Fail /\ UNCHANGED remote
       ELSE /\ \E g \in TagSets : remote' = [st |-> "live", c |-> [text EXCEPT !.tags = g]]
            /\ pc' = "put_tags"
    /\ UNCHANGED <<file, base, bundle, run, mode, seen, text, saved, edits, faults, raced>>

Put ==
    /\ pc = "put"
    /\ IF remote.st = "gone" THEN Fail /\ UNCHANGED remote
       ELSE remote' = [remote EXCEPT !.c.text = text.text] /\ pc' = "put_tags"
    /\ UNCHANGED <<file, base, bundle, run, mode, seen, text, saved, edits, faults, raced>>

PutTags ==
    /\ pc = "put_tags"
    /\ IF remote.st = "gone" THEN Fail /\ UNCHANGED remote
       ELSE remote' = [remote EXCEPT !.c.tags = text.tags] /\ pc' = "verify"
    /\ UNCHANGED <<file, base, bundle, run, mode, seen, text, saved, edits, faults, raced>>

Verify ==
    /\ pc = "verify"
    /\ AskNote
    /\ IF Live THEN pc' = "verify_tags" ELSE Fail
    /\ UNCHANGED <<copies, run, mode, text, saved, edits, faults>>

PushedWithoutTags(note) == note.text = text.text
Pushed(note) == note = text

VerifyTags ==
    /\ pc = "verify_tags"
    /\ seen' = None
    /\ IF Pushed(SeenWithTags) THEN pc' = "write" ELSE Fail
    /\ UNCHANGED <<copies, run, mode, text, saved, edits, faults, raced>>

(* The content goes to the file whatever the file holds by now. *)
WriteFile ==
    /\ pc = "write"
    /\ file' = text
    /\ pc' = "commit"
    /\ raced' = raced \ {"file"}
    /\ UNCHANGED <<remote, base, bundle, run, mode, seen, text, saved, edits, faults>>

(* The base row is written, or dropped when a deletion was accepted. *)
CommitBase ==
    /\ pc = "commit"
    /\ base' = text
    /\ pc' = "close"
    /\ UNCHANGED <<remote, file, bundle, run, mode, seen, text, saved, edits, faults, raced>>

CloseBundle ==
    /\ pc = "close"
    /\ bundle' = None
    /\ pc' = "finish"
    /\ UNCHANGED <<remote, file, base, run, mode, seen, text, saved, edits, faults, raced>>

Finish ==
    /\ pc = "finish"
    /\ run' = "none"
    /\ pc' = "idle"
    /\ seen' = None
    /\ text' = None
    /\ saved' = None
    /\ raced' = {}
    /\ UNCHANGED <<copies, mode, edits, faults>>

Step ==
    \/ CheckRemote \/ CheckTags \/ CheckLocal
    \/ TakeLocalDeletion \/ Trash \/ VerifyTrashed \/ TakeLocalEdit
    \/ TakeRemoteDeletion \/ TakeRemoteEdit \/ TakeRemoteTags \/ Backup \/ TakeMerged
    \/ Fetch \/ FetchTags \/ Lookup \/ Restore \/ Create \/ Put \/ PutTags
    \/ Verify \/ VerifyTags
    \/ WriteFile \/ CommitBase \/ CloseBundle \/ Finish

(* A request or file access raises a JoplinSyncError. *)
StepFails ==
    /\ pc \in StepPcs
    /\ faults < MaxFaults
    /\ faults' = faults + 1
    /\ Fail
    /\ UNCHANGED <<copies, run, mode, seen, text, saved, edits, raced>>

Crash ==
    /\ pc # "idle"
    /\ faults < MaxFaults
    /\ faults' = faults + 1
    /\ Escape
    /\ UNCHANGED <<copies, run, mode, edits>>

(* recover cannot tell whether a resolution was applied: it is skipped. *)
Recover ==
    /\ pc = "idle"
    /\ run = "in-progress"
    /\ run' = "none"
    /\ UNCHANGED <<copies, pc, mode, seen, text, saved, edits, faults, raced>>

User == EditFile \/ EditRemote \/ TrashOrRestoreRemote
Next == User \/ Sync \/ Discard \/ Resolve \/ Step \/ StepFails \/ Crash \/ Recover

Spec == Init /\ [][Next]_vars /\ WF_vars(Step)

-----------------------------------------------------------------------------
(* A resolution changes a side only when that side still reads as the      *)
(* evidence, up to what the resolution itself wrote or restored and to     *)
(* edits made after the side was compared (SYN-005; _validate_not_stale).  *)
ResolvesOnlyFreshEvidence ==
    [][Step => /\ remote' # remote =>
                     \/ RemoteContent = bundle.remote
                     \/ Live /\ text # None /\ remote.c.text = text.text
                     \/ bundle.remote = None /\ pc = "put"
                     \/ "remote" \in raced
               /\ file' # file =>
                     file \in {bundle.local, text, saved} \/ "file" \in raced]_vars

(* The file content a resolution takes away is in the backups of its run,  *)
(* or was pushed (SYN-005; conflicts.py backup_file calls).                *)
NothingLostLocally ==
    [][Step /\ file' # file /\ file # None => file \in {saved', text} \/ "file" \in raced]_vars

(* A bundle disappears only by discard, or when both sides and the base    *)
(* agree on the outcome, up to edits made after the resolution checked or  *)
(* wrote that side.                                                        *)
ClosesOnlyWhenSettled ==
    [][bundle # None /\ bundle' = None /\ run = "in-progress" /\ pc # "idle" =>
        /\ base = text
        /\ file = base \/ "file" \in raced
        /\ RemoteContent = base \/ "remote" \in raced]_vars

(* An open conflict is a barrier: no run of pull, push or sync replaces    *)
(* content that differs from the base on both sides (SYN-004).             *)
ConflictIsABarrier ==
    [][Sync /\ bundle # None /\ base # file /\ base # RemoteContent /\ file # RemoteContent
        => UNCHANGED copies]_vars

(* A resolution comes to an end. *)
ResolutionEnds == pc # "idle" ~> pc = "idle"
=============================================================================
