---------------------------- MODULE ConflictsProofs ----------------------------
(***************************************************************************)
(* Proofs about Conflicts, for any texts, tag sets and bounds.  A side is  *)
(* changed several requests after it was compared, and a bundle is closed  *)
(* after both sides were written, so the invariant says at every step what *)
(* the resolution still knows about each side that nobody has edited since.*)
(***************************************************************************)
EXTENDS Conflicts, TLAPS

Copy == [base : Side, file : Side, remote : Side, open : BOOLEAN]

(* A run of pull, push or sync leaves contents, and changes a live note to *)
(* a content or to nothing.                                                *)
LEMMA EffectTyped ==
    ASSUME NEW b \in Side, NEW l \in Side, NEW r \in Side, NEW open \in BOOLEAN,
           NEW dir \in Directions, NEW prop \in BOOLEAN
    PROVE  LET t == Effect(PlanOp(b, l, r, open, dir, prop),
                           [base |-> b, file |-> l, remote |-> r, open |-> open])
           IN  t \in Copy
<1> DEFINE op == PlanOp(b, l, r, open, dir, prop)
           s == [base |-> b, file |-> l, remote |-> r, open |-> open]
           status == Classify(b, l, r)
<1>0. s \in Copy /\ op.kind = KindFor(status, b, open, dir, prop)
  BY DEF Copy, PlanOp
<1>1. op.kind \in Kinds
  BY <1>0 DEF KindFor, PullKind, PushKind, BaseKind, Kinds
<1>2. CASE op.kind = "push_update"
  <2>1. status \in {"local_modified", "metadata_modified", "moved_local"}
    BY <1>0, <1>2 DEF KindFor, PullKind, PushKind, BaseKind
  <2>2. l \in Content /\ r \in Content
    BY <2>1 DEF Classify, ClassifyPresent, LocalStatus, RemoteStatus, Side
  <2>3. Overlay(r, l, op.fields) \in Content
    <3>1. /\ l.text \in Texts /\ l.tags \in TagSets
          /\ r.text \in Texts /\ r.tags \in TagSets
      BY <2>2 DEF Content
    <3> DEFINE v == Overlay(r, l, op.fields)
    <3>2. v = [k \in {"text", "tags"} |-> IF k \in op.fields THEN l[k] ELSE r[k]]
      BY ConstantsAssumption DEF Overlay
    <3>3. v = [text |-> IF "text" \in op.fields THEN l.text ELSE r.text,
               tags |-> IF "tags" \in op.fields THEN l.tags ELSE r.tags]
      BY <3>2
    <3> QED
      BY <3>1, <3>3 DEF Content
  <2> QED
    BY <1>0, <1>2, <2>2, <2>3 DEF Effect, PushEffect, Copy, Side
<1>3. CASE op.kind # "push_update"
  <2>1. CASE op.kind \in {"pull_create", "pull_update", "pull_delete"}
    BY <1>0, <2>1 DEF Effect, PullEffect, Copy, Side
  <2>2. CASE op.kind = "push_delete"
    BY <1>0, <2>2 DEF Effect, PushEffect, Copy, Side
  <2>3. CASE op.kind \in {"rebase", "adopt", "drop_base", "create_conflict", "none"}
    BY <1>0, <2>3 DEF Effect, Copy, Side
  <2> QED BY <1>1, <1>3, <2>1, <2>2, <2>3 DEF Kinds
<1> QED
  BY <1>2, <1>3

(* An open conflict between three different copies is left as it is. *)
LEMMA EffectOfConflict ==
    ASSUME NEW b \in Side, NEW l \in Side, NEW r \in Side, b # l, b # r, l # r,
           NEW dir \in Directions, NEW prop \in BOOLEAN
    PROVE  LET s == [base |-> b, file |-> l, remote |-> r, open |-> TRUE]
           IN  Effect(PlanOp(b, l, r, TRUE, dir, prop), s) = s
<1> DEFINE op == PlanOp(b, l, r, TRUE, dir, prop)
           status == Classify(b, l, r)
<1>1. op.kind = KindFor(status, b, TRUE, dir, prop)
  BY DEF PlanOp
<1>2. status \in {"conflict", "delete_conflict"}
  BY DEF Classify, ClassifyPresent, LocalStatus, RemoteStatus
<1>3. op.kind \in {"create_conflict", "none"}
  BY <1>1, <1>2 DEF KindFor, PullKind, PushKind, BaseKind
<1> QED
  BY <1>3 DEF Effect

-----------------------------------------------------------------------------
(* What the resolution knows at each step. *)
Pushing == {"fetch", "fetch_tags", "lookup", "restore", "create", "put", "put_tags",
            "verify", "verify_tags"}

(* The steps that hold the answer to a first request. *)
HoldsNote == {"check_tags", "verify_tags", "take_tags"}

TextPushed == Live /\ remote.c.text = text.text

StateKnown ==
    /\ pc = "idle" => raced = {} /\ saved = None
    /\ pc # "idle" => run = "in-progress"
    /\ pc \in StepPcs => bundle # None
    /\ pc = "close" => base = text

TextKnown ==
    /\ pc \in {"idle", "check_remote", "check_tags", "check_local", "act", "trash", "trashed",
              "take_tags"} => text = None
    /\ pc \in Pushing \cup {"backup", "write"} => text \in Content
    /\ pc \in HoldsNote => seen \in Content

FileKnown ==
    "file" \notin raced =>
        /\ pc \in {"act", "trash"} => file = bundle.local
        /\ pc = "trash" => file = None
        /\ pc = "trashed" => file = None
        /\ pc \in Pushing \cup {"write"} => file \in {text, saved}
        /\ pc \in {"commit", "close"} => file = text

RemoteKnown ==
    "remote" \notin raced =>
        /\ pc \in HoldsNote => Live /\ seen = remote.c
        /\ pc \in {"check_local", "act", "trash", "fetch", "fetch_tags"} =>
              RemoteContent = bundle.remote
        /\ pc = "fetch_tags" => Live
        /\ pc \in {"lookup", "restore", "create"} => RemoteContent = None /\ bundle.remote = None
        /\ pc = "put" => Live /\ (RemoteContent = bundle.remote \/ bundle.remote = None)
        /\ pc \in {"put_tags", "verify"} => TextPushed
        /\ pc \in {"backup", "write", "commit", "close"} => RemoteContent = text

Known == StateKnown /\ TextKnown /\ FileKnown /\ RemoteKnown

IInv == TypeOK /\ Known

(* Every run of pull, push or sync keeps the types of the copies. *)
LEMMA SyncTyped ==
    ASSUME TypeOK, Sync
    PROVE  TypeOK'
<1>1. PICK dir \in Directions, prop \in BOOLEAN :
        LET t == After(dir, prop)
        IN  /\ base' = t.base
            /\ file' = t.file
            /\ remote' = IF t.remote = RemoteContent THEN remote
                         ELSE IF t.remote = None THEN [remote EXCEPT !.st = "trash"]
                         ELSE [remote EXCEPT !.c = t.remote]
            /\ bundle' = BundleAfter(t)
  BY DEF Sync
<1> DEFINE t == After(dir, prop)
<1>2. RemoteContent \in Side
  BY DEF TypeOK, RemoteContent, Live, Side
<1>3. t \in Copy
  BY <1>2, EffectTyped DEF After, Copies, TypeOK
<1>4. base' \in Side /\ file' \in Side
  BY <1>1, <1>3 DEF Copy
<1>5. remote' \in [st : {"live", "trash", "gone"}, c : Content]
  BY <1>1, <1>3 DEF Copy, Side, TypeOK
<1>6. bundle' \in [local : Side, remote : Side] \cup {None}
  BY <1>1, <1>2 DEF BundleAfter, TypeOK
<1> QED
  BY <1>4, <1>5, <1>6 DEF TypeOK, Sync

(* Every other action does as well. *)
LEMMA ActionTyped ==
    ASSUME TypeOK, TextKnown,
           User \/ Discard \/ Resolve \/ Step \/ StepFails \/ Crash \/ Recover
    PROVE  TypeOK'
<1> USE ConstantsAssumption DEF TypeOK, StepPcs, Side, copies
<1>1. CASE User
  BY <1>1 DEF User, EditFile, EditRemote, TrashOrRestoreRemote, Edited
<1>2. CASE Discard
  BY <1>2 DEF Discard
<1>3. CASE Resolve
  BY <1>3 DEF Resolve
<1>4. CASE StepFails
  BY <1>4 DEF StepFails, Fail
<1>5. CASE Crash
  BY <1>5 DEF Crash, Escape
<1>6. CASE Recover
  BY <1>6 DEF Recover
<1>7. CASE Step
  <2>1. CASE CheckRemote
    BY <2>1 DEF CheckRemote, AskNote, RemoteContent, Live, Fail
  <2>21. CASE CheckTags
    BY <2>21 DEF CheckTags, Fail
  <2>2. CASE CheckLocal
    BY <2>2 DEF CheckLocal, Fail
  <2>3. CASE TakeLocalDeletion
    BY <2>3 DEF TakeLocalDeletion
  <2>4. CASE Trash
    BY <2>4 DEF Trash, Fail
  <2>5. CASE VerifyTrashed
    BY <2>5 DEF VerifyTrashed, Fail
  <2>6. CASE TakeLocalEdit
    BY <2>6 DEF TakeLocalEdit, Escape
  <2>7. CASE TakeRemoteDeletion
    BY <2>7 DEF TakeRemoteDeletion, BackupFile
  <2>8. CASE TakeRemoteEdit
    BY <2>8 DEF TakeRemoteEdit, AskNote, RemoteContent, Escape, Live
  <2>22. CASE TakeRemoteTags
    BY <2>22 DEF TakeRemoteTags, SeenWithTags, TextKnown, HoldsNote, Content
  <2>23. CASE Backup
    BY <2>23 DEF Backup, BackupFile
  <2>9. CASE TakeMerged
    BY <2>9 DEF TakeMerged, BackupFile
  <2>10. CASE Fetch
    BY <2>10 DEF Fetch
  <2>24. CASE FetchTags
    BY <2>24 DEF FetchTags
  <2>11. CASE Lookup
    BY <2>11 DEF Lookup
  <2>12. CASE Restore
    BY <2>12 DEF Restore, Fail
  <2>13. CASE Create
    BY <2>13 DEF Create, Fail, TextKnown, Pushing, Content
  <2>14. CASE Put
    BY <2>14 DEF Put, Fail, TextKnown, Pushing, Content
  <2>15. CASE PutTags
    BY <2>15 DEF PutTags, Fail, TextKnown, Pushing, Content
  <2>16. CASE Verify
    BY <2>16 DEF Verify, AskNote, RemoteContent, Live, Fail
  <2>25. CASE VerifyTags
    BY <2>25 DEF VerifyTags, Fail
  <2>17. CASE WriteFile
    BY <2>17 DEF WriteFile
  <2>18. CASE CommitBase
    BY <2>18 DEF CommitBase
  <2>19. CASE CloseBundle
    BY <2>19 DEF CloseBundle
  <2>20. CASE Finish
    BY <2>20 DEF Finish
  <2> QED
    BY <1>7, <2>1, <2>2, <2>3, <2>4, <2>5, <2>6, <2>7, <2>8, <2>9, <2>10, <2>11, <2>12, <2>13,
       <2>14, <2>15, <2>16, <2>17, <2>18, <2>19, <2>20, <2>21, <2>22, <2>23, <2>24, <2>25 DEF Step
<1> QED
  BY <1>1, <1>2, <1>3, <1>4, <1>5, <1>6, <1>7
(* What a resolution knows is kept by each of its steps. *)
LEMMA StepKnown ==
    ASSUME IInv, Step
    PROVE  Known'
<1> USE ConstantsAssumption DEF IInv, Known, StateKnown, TextKnown, FileKnown, RemoteKnown,
                                TypeOK, StepPcs, Pushing, copies, RemoteContent, Live,
                                TextPushed, HoldsNote, Content, AskNote, SeenWithTags
<1>1. CASE CheckRemote
  BY <1>1 DEF CheckRemote, Fail, Fresh
<1>21. CASE CheckTags
  BY <1>21 DEF CheckTags, Fail, Fresh
<1>2. CASE CheckLocal
  BY <1>2 DEF CheckLocal, Fail, Fresh
<1>3. CASE TakeLocalDeletion
  BY <1>3 DEF TakeLocalDeletion
<1>4. CASE Trash
  BY <1>4 DEF Trash, Fail
<1>5. CASE VerifyTrashed
  BY <1>5 DEF VerifyTrashed, Fail
<1>6. CASE TakeLocalEdit
  BY <1>6 DEF TakeLocalEdit, Escape, Side
<1>7. CASE TakeRemoteDeletion
  BY <1>7 DEF TakeRemoteDeletion, BackupFile
<1>8. CASE TakeRemoteEdit
  BY <1>8 DEF TakeRemoteEdit, Escape
<1>22. CASE TakeRemoteTags
  BY <1>22 DEF TakeRemoteTags
<1>23. CASE Backup
  BY <1>23 DEF Backup, BackupFile
<1>9. CASE TakeMerged
  BY <1>9 DEF TakeMerged, BackupFile
<1>10. CASE Fetch
  BY <1>10 DEF Fetch
<1>24. CASE FetchTags
  BY <1>24 DEF FetchTags
<1>11. CASE Lookup
  BY <1>11 DEF Lookup
<1>12. CASE Restore
  BY <1>12 DEF Restore, Fail
<1>13. CASE Create
  BY <1>13 DEF Create, Fail, Content
<1>14. CASE Put
  BY <1>14 DEF Put, Fail, Content
<1>15. CASE PutTags
  BY <1>15 DEF PutTags, Fail, Content
<1>16. CASE Verify
  BY <1>16 DEF Verify, Fail
<1>25. CASE VerifyTags
  BY <1>25 DEF VerifyTags, Fail, Pushed
<1>17. CASE WriteFile
  BY <1>17 DEF WriteFile
<1>18. CASE CommitBase
  BY <1>18 DEF CommitBase
<1>19. CASE CloseBundle
  BY <1>19 DEF CloseBundle
<1>20. CASE Finish
  BY <1>20 DEF Finish
<1> QED
  BY <1>1, <1>2, <1>3, <1>4, <1>5, <1>6, <1>7, <1>8, <1>9, <1>10, <1>11, <1>12, <1>13, <1>14,
     <1>15, <1>16, <1>17, <1>18, <1>19, <1>20, <1>21, <1>22, <1>23, <1>24, <1>25 DEF Step

(* ... and by everything that happens beside it. *)
LEMMA OthersKnown ==
    ASSUME IInv, User \/ Sync \/ Discard \/ Resolve \/ StepFails \/ Crash \/ Recover
    PROVE  Known'
<1> USE ConstantsAssumption DEF IInv, Known, StateKnown, TextKnown, FileKnown, RemoteKnown,
                                TypeOK, StepPcs, Pushing, copies, RemoteContent, Live,
                                TextPushed, HoldsNote, Content, AskNote, SeenWithTags
<1>1. CASE User
  BY <1>1 DEF User, EditFile, EditRemote, TrashOrRestoreRemote, Edited
<1>2. CASE Sync
  BY <1>2 DEF Sync
<1>3. CASE Discard
  BY <1>3 DEF Discard
<1>4. CASE Resolve
  BY <1>4 DEF Resolve
<1>5. CASE StepFails
  BY <1>5 DEF StepFails, Fail
<1>6. CASE Crash
  BY <1>6 DEF Crash, Escape
<1>7. CASE Recover
  BY <1>7 DEF Recover
<1> QED
  BY <1>1, <1>2, <1>3, <1>4, <1>5, <1>6, <1>7
LEMMA IInvInductive ==
    /\ Init => IInv
    /\ IInv /\ [Next]_vars => IInv'
<1>1. Init => IInv
  <2> SUFFICES ASSUME Init PROVE IInv
    OBVIOUS
  <2>1. PICK c \in Content :
          remote = [st |-> "live", c |-> c] /\ file = c /\ base \in {None, c}
    BY DEF Init
  <2>2. TypeOK
    BY <2>1, ConstantsAssumption DEF Init, TypeOK, Side, Modes
  <2>3. Known
    BY DEF Init, Known, StateKnown, TextKnown, FileKnown, RemoteKnown, StepPcs, Pushing, HoldsNote
  <2> QED
    BY <2>2, <2>3 DEF IInv
<1>2. IInv /\ [Next]_vars => IInv'
  <2> SUFFICES ASSUME IInv, [Next]_vars PROVE IInv'
    OBVIOUS
  <2>0. TypeOK /\ TextKnown
    BY DEF IInv, Known
  <2>1. CASE Sync
    BY <2>0, <2>1, SyncTyped, OthersKnown DEF IInv
  <2>2. CASE Step
    BY <2>0, <2>2, ActionTyped, StepKnown DEF IInv
  <2>3. CASE User \/ Discard \/ Resolve \/ StepFails \/ Crash \/ Recover
    BY <2>0, <2>3, ActionTyped, OthersKnown DEF IInv
  <2>4. CASE UNCHANGED vars
    BY <2>4 DEF IInv, TypeOK, Known, StateKnown, TextKnown, FileKnown, RemoteKnown,
                RemoteContent, Live, TextPushed, HoldsNote, vars, copies
  <2> QED
    BY <2>1, <2>2, <2>3, <2>4 DEF Next
<1> QED
  BY <1>1, <1>2

LEMMA Invariance == Spec => []IInv
<1> QED
  BY IInvInductive, PTL DEF Spec

-----------------------------------------------------------------------------
(* The type invariant. *)
THEOREM TypeCorrect == Spec => []TypeOK
<1>1. IInv => TypeOK
  BY DEF IInv
<1> QED
  BY Invariance, <1>1, PTL

(* A resolution changes a side only while it reads as the evidence, up to  *)
(* its own writes and to edits that no compare could have seen             *)
(* (_validate_not_stale): whatever the contents and the number of edits.   *)
THEOREM OnlyFreshEvidence == Spec => ResolvesOnlyFreshEvidence
<1> DEFINE RemoteRule == remote' # remote =>
                            \/ RemoteContent = bundle.remote
                            \/ Live /\ text # None /\ remote.c.text = text.text
                            \/ bundle.remote = None /\ pc = "put"
                            \/ "remote" \in raced
           FileRule == file' # file => file \in {bundle.local, text, saved} \/ "file" \in raced
<1>1. ASSUME IInv, Step PROVE RemoteRule
  <2> USE DEF copies
  <2>1. CASE Trash
    BY <1>1, <2>1 DEF Trash, IInv, Known, RemoteKnown
  <2>2. CASE Restore \/ Create
    BY <1>1, <2>2 DEF Restore, Create, IInv, Known, RemoteKnown
  <2>3. CASE Put
    BY <1>1, <2>3 DEF Put, IInv, Known, RemoteKnown
  <2>4. CASE PutTags
    <3>1. text # None
      BY <1>1, <2>4, ConstantsAssumption DEF PutTags, IInv, Known, TextKnown, Pushing
    <3> QED
      BY <1>1, <2>4, <3>1 DEF PutTags, IInv, Known, RemoteKnown, TextPushed
  <2> QED
    BY <1>1, <2>1, <2>2, <2>3, <2>4
       DEF Step, CheckRemote, CheckTags, CheckLocal, TakeLocalDeletion, VerifyTrashed,
           TakeLocalEdit,
           TakeRemoteDeletion, TakeRemoteEdit, TakeRemoteTags, Backup, TakeMerged, Fetch,
           FetchTags, Lookup, Verify, VerifyTags, WriteFile,
           CommitBase, CloseBundle, Finish
<1>2. ASSUME IInv, Step PROVE FileRule
  <2> USE DEF copies
  <2>1. CASE TakeRemoteDeletion
    BY <1>2, <2>1 DEF TakeRemoteDeletion, IInv, Known, FileKnown
  <2>2. CASE WriteFile
    BY <1>2, <2>2 DEF WriteFile, IInv, Known, FileKnown
  <2> QED
    BY <1>2, <2>1, <2>2
       DEF Step, CheckRemote, CheckTags, CheckLocal, TakeLocalDeletion, Trash, VerifyTrashed,
           TakeLocalEdit,
           TakeRemoteEdit, TakeRemoteTags, Backup, TakeMerged, Fetch,
           FetchTags, Lookup, Restore, Create, Put, PutTags, Verify, VerifyTags,
           CommitBase, CloseBundle, Finish
<1>3. IInv /\ [Next]_vars => [Step => RemoteRule /\ FileRule]_vars
  BY <1>1, <1>2
<1> QED
  BY Invariance, <1>3, PTL DEF Spec, ResolvesOnlyFreshEvidence

(* What a resolution takes out of the file is in its backup, or is what it *)
(* pushed, unless the file was edited after it was read.                   *)
THEOREM NoLocalLoss == Spec => NothingLostLocally
<1>1. ASSUME IInv, Step, file' # file, file # None
      PROVE  file \in {saved', text} \/ "file" \in raced
  <2> USE DEF copies
  <2>1. CASE TakeRemoteDeletion
    BY <1>1, <2>1 DEF TakeRemoteDeletion, BackupFile
  <2>2. CASE WriteFile
    BY <1>1, <2>2 DEF WriteFile, IInv, Known, FileKnown
  <2> QED
    BY <1>1, <2>1, <2>2
       DEF Step, CheckRemote, CheckTags, CheckLocal, TakeLocalDeletion, Trash, VerifyTrashed,
           TakeLocalEdit,
           TakeRemoteEdit, TakeRemoteTags, Backup, TakeMerged, Fetch,
           FetchTags, Lookup, Restore, Create, Put, PutTags, Verify, VerifyTags,
           CommitBase, CloseBundle, Finish
<1> DEFINE Kept == Step /\ file' # file /\ file # None
                     => file \in {saved', text} \/ "file" \in raced
<1>2. IInv /\ [Next]_vars => [Kept]_vars
  BY <1>1
<1> QED
  BY Invariance, <1>2, PTL DEF Spec, NothingLostLocally

(* A resolution closes the bundle only over copies that agree, but for     *)
(* edits made after it checked or wrote them.                              *)
THEOREM ClosedMeansSettled == Spec => ClosesOnlyWhenSettled
<1>1. ASSUME IInv, Next, bundle # None, bundle' = None, run = "in-progress", pc # "idle"
      PROVE  /\ base = text
             /\ file = base \/ "file" \in raced
             /\ RemoteContent = base \/ "remote" \in raced
  <2> USE DEF copies
  <2>1. CASE CloseBundle
    BY <1>1, <2>1 DEF CloseBundle, IInv, Known, StateKnown, FileKnown, RemoteKnown
  <2>2. ASSUME Step PROVE CloseBundle
    BY <1>1, <2>2
       DEF Step, CheckRemote, CheckTags, CheckLocal, TakeLocalDeletion, Trash, VerifyTrashed,
           TakeLocalEdit,
           TakeRemoteDeletion, TakeRemoteEdit, TakeRemoteTags, Backup, TakeMerged, Fetch,
           FetchTags, Lookup, Restore, Create, Put,
           PutTags, Verify, VerifyTags, WriteFile, CommitBase, Finish
  <2>3. Step
    BY <1>1 DEF Next, User, EditFile, EditRemote, TrashOrRestoreRemote, Edited, Sync, Discard,
                Resolve, StepFails, Crash, Recover
  <2> QED
    BY <2>1, <2>2, <2>3
<1> DEFINE Settled == bundle # None /\ bundle' = None /\ run = "in-progress" /\ pc # "idle"
                        => /\ base = text
                           /\ file = base \/ "file" \in raced
                           /\ RemoteContent = base \/ "remote" \in raced
<1>2. IInv /\ [Next]_vars => [Settled]_vars
  BY <1>1 DEF vars, copies
<1> QED
  BY Invariance, <1>2, PTL DEF Spec, ClosesOnlyWhenSettled

(* An open conflict is a barrier to every later run, in each direction and *)
(* with or without the propagation of deletions.                           *)
THEOREM OpenConflictIsABarrier == Spec => ConflictIsABarrier
<1>1. ASSUME IInv, Sync, bundle # None, base # file, base # RemoteContent, file # RemoteContent
      PROVE  UNCHANGED copies
  <2>1. PICK dir \in Directions, prop \in BOOLEAN :
          LET t == After(dir, prop)
          IN  /\ base' = t.base
              /\ file' = t.file
              /\ remote' = IF t.remote = RemoteContent THEN remote
                           ELSE IF t.remote = None THEN [remote EXCEPT !.st = "trash"]
                           ELSE [remote EXCEPT !.c = t.remote]
              /\ bundle' = BundleAfter(t)
    BY <1>1 DEF Sync
  <2>2. base \in Side /\ file \in Side /\ RemoteContent \in Side
    BY <1>1 DEF IInv, TypeOK, RemoteContent, Live, Side
  <2>3. After(dir, prop) = [base |-> base, file |-> file, remote |-> RemoteContent, open |-> TRUE]
    BY <1>1, <2>2, EffectOfConflict, ZenonT(60) DEF After, Copies
  <2> QED
    BY <1>1, <2>1, <2>3 DEF BundleAfter, copies
<1> DEFINE Barrier == Sync /\ bundle # None /\ base # file /\ base # RemoteContent
                         /\ file # RemoteContent => UNCHANGED copies
<1>2. IInv /\ [Next]_vars => [Barrier]_vars
  BY <1>1
<1> QED
  BY Invariance, <1>2, PTL DEF Spec, ConflictIsABarrier
=============================================================================
