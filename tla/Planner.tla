------------------------------- MODULE Planner -------------------------------
(***************************************************************************)
(* The pure core of planner.py for one note: the three-way classification  *)
(* of a base snapshot, a local file and a remote note, the operation that  *)
(* build_plan plans for the result, and what that operation does to the    *)
(* three copies when it succeeds without interference.                     *)
(*                                                                         *)
(* A side is either a content, a record over Components, or None when the  *)
(* note does not exist there.  The component hashes of canonical.py are    *)
(* taken to be injective, so comparing contents stands for comparing       *)
(* hashes.                                                                 *)
(***************************************************************************)
CONSTANTS
    Components,   \* fields of a note that are hashed and compared
    None          \* absence: no base row, no local file, no live remote note

Directions == {"pull", "push", "sync"}

(* changed_components: the fields in which two contents differ. *)
Changed(x, y) == {k \in Components : x[k] # y[k]}

LocalStatus(diff) ==
    IF diff = {"parent"} THEN "moved_local"
    ELSE IF "body" \notin diff THEN "metadata_modified" ELSE "local_modified"

RemoteStatus(diff) ==
    IF diff = {"parent"} THEN "moved_remote" ELSE "remote_modified"

(* Status of a note that all three sides know. *)
ClassifyPresent(b, l, r) ==
    CASE l = b /\ r = b             -> "unchanged"
      [] l # b /\ r = b             -> LocalStatus(Changed(l, b))
      [] l = b /\ r # b             -> RemoteStatus(Changed(r, b))
      [] l # b /\ r # b /\ l = r    -> "both_identical"
      [] l # b /\ r # b /\ l # r    -> "conflict"

ClassifyIgnoringEditedDeletion(b, l, r) ==
    CASE b # None /\ l # None /\ r # None -> ClassifyPresent(b, l, r)
      [] b # None /\ l # None /\ r = None -> "remote_deleted"
      [] b # None /\ l = None /\ r # None -> IF r = b THEN "local_deleted" ELSE "delete_conflict"
      [] b # None /\ l = None /\ r = None -> "both_deleted"
      [] b = None /\ l # None -> IF l = r THEN "both_identical" ELSE "conflict"
      [] b = None /\ l = None -> IF r # None THEN "remote_new" ELSE "unchanged"

(* _classify_one_note.  A note that no side knows is never asked for; it   *)
(* is given the status that plans nothing.                                 *)
Classify(b, l, r) ==
    CASE b # None /\ l # None /\ r # None -> ClassifyPresent(b, l, r)
      [] b # None /\ l # None /\ r = None -> IF l = b THEN "remote_deleted" ELSE "delete_conflict"
      [] b # None /\ l = None /\ r # None -> IF r = b THEN "local_deleted" ELSE "delete_conflict"
      [] b # None /\ l = None /\ r = None -> "both_deleted"
      [] b = None /\ l # None /\ r # None -> IF l = r THEN "both_identical" ELSE "conflict"
      [] b = None /\ l # None /\ r = None -> "invalid_local_file"
      [] b = None /\ l = None /\ r # None -> "remote_new"
      [] b = None /\ l = None /\ r = None -> "unchanged"

-----------------------------------------------------------------------------
(***************************************************************************)
(* build_plan, note part: the kind of operation planned for a status.      *)
(***************************************************************************)
Pulls(dir) == dir \in {"pull", "sync"}
PushesOnly(dir) == dir = "push"
Pushes(dir) == dir \in {"push", "sync"}

Kinds == {"none", "pull_create", "pull_update", "pull_delete", "push_update",
          "push_delete", "rebase", "adopt", "drop_base", "create_conflict"}

PullKindEager(status, prop) ==
    CASE status \in {"remote_modified", "moved_remote"} -> "pull_update"
      [] status = "remote_new"     -> "pull_create"
      [] status = "remote_deleted" -> "pull_delete"
      [] OTHER -> "none"

PullKind(status, prop) ==
    CASE status \in {"remote_modified", "moved_remote"} -> "pull_update"
      [] status = "remote_new"              -> "pull_create"
      [] status = "remote_deleted" /\ prop -> "pull_delete"
      [] OTHER -> "none"

PushKind(status, prop) ==
    CASE status \in {"local_modified", "metadata_modified", "moved_local"} -> "push_update"
      [] status = "local_deleted" /\ prop -> "push_delete"
      [] OTHER -> "none"

BaseKindWithoutRebase(status, b, open) ==
    CASE status = "both_identical" /\ b = None -> "adopt"
      [] status = "both_deleted"               -> "drop_base"
      [] status = "conflict" /\ ~open          -> "create_conflict"
      [] status = "delete_conflict"            -> "create_conflict"
      [] OTHER -> "none"

(* The operations planned in every direction.  `open` says that an open    *)
(* conflict bundle existed when the run began; it suppresses a second      *)
(* bundle for a plain conflict.  The detail text of a delete conflict never*)
(* says so, and its operation is planned again.                            *)
BaseKind(status, b, open) ==
    CASE status = "both_identical" -> IF b = None THEN "adopt" ELSE "rebase"
      [] status = "both_deleted"         -> "drop_base"
      [] status = "conflict" /\ ~open    -> "create_conflict"
      [] status = "delete_conflict"      -> "create_conflict"
      [] OTHER -> "none"

KindFor(status, b, open, dir, prop) ==
    CASE Pulls(dir) /\ PullKind(status, prop) # "none"  -> PullKind(status, prop)
      [] Pushes(dir) /\ PushKind(status, prop) # "none" -> PushKind(status, prop)
      [] OTHER -> BaseKind(status, b, open)

(***************************************************************************)
(* A PlanOperation: its kind, the components a push has to send, and the   *)
(* ItemState it was planned from, which is what the expected hashes are    *)
(* computed from.                                                          *)
(***************************************************************************)
PlanOp(b, l, r, open, dir, prop) ==
    [kind   |-> KindFor(Classify(b, l, r), b, open, dir, prop),
     fields |-> IF b = None \/ l = None THEN {} ELSE Changed(l, b),
     base   |-> b,
     local  |-> l,
     remote |-> r,
     open   |-> open]

NoOp == [kind |-> "none", fields |-> {}, base |-> None, local |-> None,
         remote |-> None, open |-> FALSE]

(* The remote content after the fields of x named in `fields` are sent. *)
OverlayOnlySent(r, x, fields) == [k \in fields |-> x[k]]
Overlay(r, x, fields) == [k \in Components |-> IF k \in fields THEN x[k] ELSE r[k]]

-----------------------------------------------------------------------------
(***************************************************************************)
(* What the handlers of Executor do to the copies when nothing interferes. *)
(* A copy is [base, file, remote, open].                                   *)
(***************************************************************************)
PullEffect(op, s) ==
    IF op.kind = "pull_delete" THEN [s EXCEPT !.file = None, !.base = None]
    ELSE [s EXCEPT !.file = s.remote, !.base = s.remote]

PushEffect(op, s) ==
    IF op.kind = "push_delete" THEN [s EXCEPT !.remote = None, !.base = None]
    ELSE [s EXCEPT !.remote = Overlay(s.remote, s.file, op.fields), !.base = s.file]

Effect(op, s) ==
    CASE op.kind \in {"pull_create", "pull_update", "pull_delete"} -> PullEffect(op, s)
      [] op.kind \in {"push_update", "push_delete"} -> PushEffect(op, s)
      [] op.kind \in {"rebase", "adopt"} -> [s EXCEPT !.base = s.file]
      [] op.kind = "drop_base" -> [s EXCEPT !.base = None]
      [] op.kind = "create_conflict" -> [s EXCEPT !.open = TRUE]
      [] op.kind = "none" -> s
=============================================================================
