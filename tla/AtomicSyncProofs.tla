--------------------------- MODULE AtomicSyncProofs ---------------------------
(***************************************************************************)
(* Proofs about AtomicSync, for any set of components and any contents.    *)
(* The planner is first shown to implement Merge; the other properties are *)
(* then consequences of Merge alone.                                       *)
(***************************************************************************)
EXTENDS AtomicSync, TLAPS

State == [base : Side, file : Side, remote : Side, open : BOOLEAN]

(* Sending the components that differ from y turns y into x. *)
LEMMA OverlayOfChanged ==
    ASSUME NEW x \in Content, NEW y \in Content
    PROVE  Overlay(y, x, Changed(x, y)) = x
<1>1. \A k \in Components : (IF k \in Changed(x, y) THEN x[k] ELSE y[k]) = x[k]
  BY DEF Changed
<1>2. Overlay(y, x, Changed(x, y)) = [k \in Components |-> x[k]]
  BY <1>1 DEF Overlay
<1> QED
  BY <1>2, ContentAssumption

(* A run does to the copies what the three-way rule says. *)
LEMMA AfterIsMerge ==
    ASSUME NEW x \in State, NEW dir \in Directions, NEW prop \in BOOLEAN
    PROVE  After(x, dir, prop) = Merge(x, dir, prop)
<1> DEFINE b == x.base
           l == x.file
           r == x.remote
           op == PlanOf(x, dir, prop)
           status == Classify(b, l, r)
<1>0. /\ b \in Side /\ l \in Side /\ r \in Side /\ x.open \in BOOLEAN
      /\ x = [base |-> b, file |-> l, remote |-> r, open |-> x.open]
  BY DEF State
<1>1. op.kind = KindFor(status, b, x.open, dir, prop) /\ After(x, dir, prop) = Effect(op, x)
  BY DEF PlanOf, PlanOp, After
<1>2. CASE l = b /\ r = b
  <2>1. status \in {"unchanged"}
    BY <1>0, <1>2 DEF Classify, ClassifyPresent, LocalStatus, RemoteStatus
  <2>2. op.kind = ("none")
    BY <1>1, <2>1 DEF KindFor, PullKind, PushKind, BaseKind
  <2> QED
    BY <1>0, <1>1, <1>2, <2>2 DEF Effect, PullEffect, PushEffect, Merge
<1>3. CASE b # None /\ l # None /\ l # b /\ r = b
  <2>1. status \in {"moved_local", "metadata_modified", "local_modified"}
    BY <1>0, <1>3 DEF Classify, ClassifyPresent, LocalStatus, RemoteStatus
  <2>2. op.kind = (IF Pushes(dir) THEN "push_update" ELSE "none")
    BY <1>1, <2>1 DEF KindFor, PullKind, PushKind, BaseKind
  <2>3. Overlay(r, l, op.fields) = l
    BY <1>0, <1>3, OverlayOfChanged DEF PlanOf, PlanOp, Side
  <2> QED
    BY <1>0, <1>1, <1>3, <2>2, <2>3 DEF Effect, PullEffect, PushEffect, Merge
<1>4. CASE l = None /\ l # b /\ r = b
  <2>1. status \in {"local_deleted"}
    BY <1>0, <1>4 DEF Classify, ClassifyPresent, LocalStatus, RemoteStatus
  <2>2. op.kind = (IF Pushes(dir) /\ prop THEN "push_delete" ELSE "none")
    BY <1>1, <2>1 DEF KindFor, PullKind, PushKind, BaseKind
  <2> QED
    BY <1>0, <1>1, <1>4, <2>2 DEF Effect, PullEffect, PushEffect, Merge
<1>5. CASE b = None /\ l # b /\ r = b
  <2>1. status \in {"invalid_local_file"}
    BY <1>0, <1>5 DEF Classify, ClassifyPresent, LocalStatus, RemoteStatus
  <2>2. op.kind = ("none")
    BY <1>1, <2>1 DEF KindFor, PullKind, PushKind, BaseKind
  <2> QED
    BY <1>0, <1>1, <1>5, <2>2 DEF Effect, PullEffect, PushEffect, Merge
<1>6. CASE r # None /\ l = b /\ r # b
  <2>1. status \in {"moved_remote", "remote_modified", "remote_new"}
    BY <1>0, <1>6 DEF Classify, ClassifyPresent, LocalStatus, RemoteStatus
  <2>2. op.kind \in (IF Pulls(dir) THEN {"pull_update", "pull_create"} ELSE {"none"})
    BY <1>1, <2>1 DEF KindFor, PullKind, PushKind, BaseKind
  <2> QED
    BY <1>0, <1>1, <1>6, <2>2 DEF Effect, PullEffect, PushEffect, Merge
<1>7. CASE r = None /\ l = b /\ r # b
  <2>1. status \in {"remote_deleted"}
    BY <1>0, <1>7 DEF Classify, ClassifyPresent, LocalStatus, RemoteStatus
  <2>2. op.kind = (IF Pulls(dir) /\ prop THEN "pull_delete" ELSE "none")
    BY <1>1, <2>1 DEF KindFor, PullKind, PushKind, BaseKind
  <2> QED
    BY <1>0, <1>1, <1>7, <2>2 DEF Effect, PullEffect, PushEffect, Merge
<1>8. CASE l # None /\ l # b /\ r # b /\ l = r
  <2>1. status \in {"both_identical"}
    BY <1>0, <1>8 DEF Classify, ClassifyPresent, LocalStatus, RemoteStatus
  <2>2. op.kind = (IF b = None THEN "adopt" ELSE "rebase")
    BY <1>1, <2>1 DEF KindFor, PullKind, PushKind, BaseKind
  <2> QED
    BY <1>0, <1>1, <1>8, <2>2 DEF Effect, PullEffect, PushEffect, Merge
<1>9. CASE l = None /\ l # b /\ r # b /\ l = r
  <2>1. status \in {"both_deleted"}
    BY <1>0, <1>9 DEF Classify, ClassifyPresent, LocalStatus, RemoteStatus
  <2>2. op.kind = ("drop_base")
    BY <1>1, <2>1 DEF KindFor, PullKind, PushKind, BaseKind
  <2> QED
    BY <1>0, <1>1, <1>9, <2>2 DEF Effect, PullEffect, PushEffect, Merge
<1>10. CASE l # b /\ r # b /\ l # r
  <2>1. status \in {"conflict", "delete_conflict"}
    BY <1>0, <1>10 DEF Classify, ClassifyPresent, LocalStatus, RemoteStatus
  <2>2. op.kind = "create_conflict" \/ (op.kind = "none" /\ x.open)
    BY <1>1, <2>1 DEF KindFor, PullKind, PushKind, BaseKind
  <2> QED
    BY <1>0, <1>1, <1>10, <2>2 DEF Effect, PullEffect, PushEffect, Merge
<1> QED
  BY <1>2, <1>3, <1>4, <1>5, <1>6, <1>7, <1>8, <1>9, <1>10

-----------------------------------------------------------------------------
(* The rule, and so a run, leads from copies to copies. *)
LEMMA MergeTyped ==
    ASSUME NEW x \in State, NEW dir \in Directions, NEW prop \in BOOLEAN
    PROVE  Merge(x, dir, prop) \in State
BY DEF Merge, State

(* The type invariant, for any components and contents. *)
THEOREM TypeCorrect == Spec => []TypeOK
<1> USE ContentAssumption DEF TypeOK, Side
<1>1. Init => TypeOK
  BY DEF Init
<1>2. TypeOK /\ [Next]_s => TypeOK'
  <2> SUFFICES ASSUME TypeOK, [Next]_s PROVE TypeOK'
    OBVIOUS
  <2>1. CASE EditFile \/ EditRemote \/ LoseBase \/ Discard \/ UNCHANGED s
    BY <2>1 DEF EditFile, EditRemote, LoseBase, Discard
  <2>2. CASE Run
    <3>1. PICK dir \in Directions, prop \in BOOLEAN : s' = After(s, dir, prop)
      BY <2>2 DEF Run
    <3>2. s \in State
      BY DEF State
    <3>3. s' \in State
      BY <3>1, <3>2, AfterIsMerge, MergeTyped
    <3> QED
      BY <3>3 DEF State
  <2> QED
    BY <2>1, <2>2 DEF Next
<1> QED
  BY <1>1, <1>2, PTL DEF Spec

(* In every reachable state a run does what the three-way rule says. *)
THEOREM PlannerIsThreeWay == Spec => []PlansTheThreeWayRule
<1>1. TypeOK => PlansTheThreeWayRule
  BY AfterIsMerge DEF TypeOK, State, PlansTheThreeWayRule
<1> QED
  BY TypeCorrect, <1>1, PTL

(* No run overwrites an edit made since the last one, on either side. *)
THEOREM EditsSurvive == Spec => []NoEditOverwritten
<1>1. TypeOK => NoEditOverwritten
  <2> SUFFICES ASSUME TypeOK, NEW dir \in Directions, NEW prop \in BOOLEAN
               PROVE  LET t == Merge(s, dir, prop) IN
                        /\ t.file # s.file => s.file = s.base
                        /\ t.remote # s.remote => s.remote = s.base
    BY AfterIsMerge DEF TypeOK, State, NoEditOverwritten
  <2> QED
    BY DEF Merge, TypeOK
<1> QED
  BY TypeCorrect, <1>1, PTL

(* No run deletes anything unless it was asked to propagate deletions. *)
THEOREM DeletionsAreOptIn == Spec => []DeletionIsOptIn
<1>1. TypeOK => DeletionIsOptIn
  <2> SUFFICES ASSUME TypeOK, NEW dir \in Directions
               PROVE  LET t == Merge(s, dir, FALSE) IN
                        /\ s.file # None => t.file # None
                        /\ s.remote # None => t.remote # None
    BY AfterIsMerge DEF TypeOK, State, DeletionIsOptIn
  <2> QED
    BY DEF Merge, TypeOK
<1> QED
  BY TypeCorrect, <1>1, PTL

(* One sync with deletions reaches a settled state that it does not leave. *)
THEOREM OneSyncSettles == Spec => []SyncSettles
<1>1. TypeOK => SyncSettles
  <2> SUFFICES ASSUME TypeOK PROVE SyncSettles
    OBVIOUS
  <2> DEFINE t == Merge(s, "sync", TRUE)
  <2>1. "sync" \in Directions /\ TRUE \in BOOLEAN /\ s \in State
    BY DEF Directions, TypeOK, State
  <2>2. t \in State
    BY <2>1, MergeTyped
  <2>3. After(s, "sync", TRUE) = t /\ After(t, "sync", TRUE) = Merge(t, "sync", TRUE)
    BY <2>1, <2>2, AfterIsMerge
  <2>4. Merge(t, "sync", TRUE) = t
    BY <2>1, ZenonT(60) DEF Merge, Pulls, Pushes, State
  <2>5. \/ t.base = t.file /\ t.file = t.remote
        \/ t.open
        \/ t.base = None /\ t.remote = None
    BY <2>1 DEF Merge, Pulls, Pushes, State
  <2> QED
    BY <2>3, <2>4, <2>5 DEF SyncSettles
<1> QED
  BY TypeCorrect, <1>1, PTL

(* sync is pull and push, in either order. *)
THEOREM SyncIsPullAndPush == Spec => []DirectionsCompose
<1>1. TypeOK => DirectionsCompose
  <2> SUFFICES ASSUME TypeOK, NEW prop \in BOOLEAN
               PROVE  /\ After(After(s, "pull", prop), "push", prop) = After(s, "sync", prop)
                      /\ After(After(s, "push", prop), "pull", prop) = After(s, "sync", prop)
    BY DEF DirectionsCompose
  <2>1. {"pull", "push", "sync"} \subseteq Directions /\ s \in State
    BY DEF Directions, TypeOK, State
  <2>2. \A x \in State, dir \in Directions :
          After(x, dir, prop) = Merge(x, dir, prop) /\ Merge(x, dir, prop) \in State
    BY AfterIsMerge, MergeTyped
  <2>3. Merge(Merge(s, "pull", prop), "push", prop) = Merge(s, "sync", prop)
    <3>1. CASE prop
      BY <2>1, <3>1, ZenonT(60) DEF Merge, Pulls, Pushes, State
    <3>2. CASE ~prop
      BY <2>1, <3>2, ZenonT(60) DEF Merge, Pulls, Pushes, State
    <3> QED BY <3>1, <3>2
  <2>4. Merge(Merge(s, "push", prop), "pull", prop) = Merge(s, "sync", prop)
    <3>1. CASE prop
      BY <2>1, <3>1, ZenonT(60) DEF Merge, Pulls, Pushes, State
    <3>2. CASE ~prop
      BY <2>1, <3>2, ZenonT(60) DEF Merge, Pulls, Pushes, State
    <3> QED BY <3>1, <3>2
  <2> QED
    BY <2>1, <2>2, <2>3, <2>4
<1> QED
  BY TypeCorrect, <1>1, PTL
=============================================================================
