----------------------------- MODULE AtomicSync -----------------------------
(***************************************************************************)
(* The synchronization contract of one note, with every run taken as one   *)
(* atomic step: the three copies, the editors on both sides and the        *)
(* commands pull, push and sync.  The reachable states are all the base /  *)
(* local / remote combinations the planner can meet, and the properties    *)
(* say what a plan may do in each of them.  NoteSync refines a run into    *)
(* the reads, guards, writes and crashes of the executor.                  *)
(***************************************************************************)
EXTENDS Planner

CONSTANT Content     \* the contents a note can have

ASSUME ContentAssumption ==
    /\ None \notin Content
    /\ \A c \in Content : c = [k \in Components |-> c[k]]

VARIABLE s           \* [base, file, remote, open]: the copies of the note

Side == Content \cup {None}

TypeOK == s \in [base : Side, file : Side, remote : Side, open : BOOLEAN]

Init == \E c \in Content : s = [base |-> None, file |-> None, remote |-> c, open |-> FALSE]

(* An editor on either side writes or removes the note. *)
EditFile == \E c \in Side : c # s.file /\ s' = [s EXCEPT !.file = c]
EditRemote == \E c \in Side : c # s.remote /\ s' = [s EXCEPT !.remote = c]

(* The state database is lost and recreated by init: no base, no bundle. *)
LoseBase == s' = [s EXCEPT !.base = None, !.open = FALSE]

(* A bundle is discarded; the divergence stays. *)
Discard == s.open /\ s' = [s EXCEPT !.open = FALSE]

PlanOf(x, dir, prop) == PlanOp(x.base, x.file, x.remote, x.open, dir, prop)
After(x, dir, prop) == Effect(PlanOf(x, dir, prop), x)

Run == \E dir \in Directions, prop \in BOOLEAN : s' = After(s, dir, prop)

Next == EditFile \/ EditRemote \/ LoseBase \/ Discard \/ Run
Spec == Init /\ [][Next]_s

-----------------------------------------------------------------------------
(* The three-way rule of the contracts, without statuses and operations: a *)
(* change made on one side goes to the other one, equal changes only move  *)
(* the base, and diverging ones open a conflict.  A deletion travels only  *)
(* when asked to, and a file whose id no side knows stays where it is.     *)
Merge(x, dir, prop) ==
    CASE x.file = x.base /\ x.remote = x.base -> x
      [] x.file # x.base /\ x.remote = x.base ->
            IF x.base # None /\ Pushes(dir) /\ (x.file = None => prop)
            THEN [x EXCEPT !.remote = x.file, !.base = x.file] ELSE x
      [] x.file = x.base /\ x.remote # x.base ->
            IF Pulls(dir) /\ (x.remote = None => prop)
            THEN [x EXCEPT !.file = x.remote, !.base = x.remote] ELSE x
      [] x.file # x.base /\ x.file = x.remote -> [x EXCEPT !.base = x.file]
      [] x.file # x.base /\ x.remote # x.base /\ x.file # x.remote -> [x EXCEPT !.open = TRUE]

(* The status tables of _classify_one_note, the chain of build_plan and    *)
(* the partial PUT of a push together implement that rule (SYN-001).       *)
PlansTheThreeWayRule ==
    \A dir \in Directions, prop \in BOOLEAN : After(s, dir, prop) = Merge(s, dir, prop)

(* A plan replaces or removes a copy only when that copy still equals the  *)
(* base: an edit made on one side since the last run is never overwritten  *)
(* by the other side (SYN-001, SYN-004; planner.py _classify_one_note).    *)
NoEditOverwritten ==
    \A dir \in Directions, prop \in BOOLEAN :
        LET t == After(s, dir, prop) IN
        /\ t.file # s.file => s.file = s.base
        /\ t.remote # s.remote => s.remote = s.base

(* Without --propagate-deletes no run removes a copy from either side, in  *)
(* any combination of edits and deletions (SYN-003).                       *)
DeletionIsOptIn ==
    \A dir \in Directions :
        LET t == After(s, dir, FALSE) IN
        /\ s.file # None => t.file # None
        /\ s.remote # None => t.remote # None

(* One sync reaches a fixed point: planning again from its result changes  *)
(* nothing, and the note is then in sync on both sides, deleted, in an open*)
(* conflict, or a file whose id no side knows (SYN-001).                   *)
SyncSettles ==
    LET t == After(s, "sync", TRUE) IN
    /\ After(t, "sync", TRUE) = t
    /\ \/ t.base = t.file /\ t.file = t.remote
       \/ t.open
       \/ t.base = None /\ t.remote = None

(* sync is pull and push in either order: for one note the two directions  *)
(* never undo or enable each other.                                        *)
DirectionsCompose ==
    \A prop \in BOOLEAN :
        /\ After(After(s, "pull", prop), "push", prop) = After(s, "sync", prop)
        /\ After(After(s, "push", prop), "pull", prop) = After(s, "sync", prop)
=============================================================================
