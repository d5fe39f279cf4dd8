---------------------------- MODULE NoteSyncProofs ----------------------------
(***************************************************************************)
(* Proofs about NoteSync, for any number of notes, edits and faults.       *)
(***************************************************************************)
EXTENDS NoteSync, TLAPS

(* What build_plan guarantees of an operation, whatever the copies were. *)
WellPlanned(op) ==
    /\ op.kind \in {"pull_create", "pull_update", "push_update", "push_delete", "rebase", "adopt"}
          => op.remote # None
    /\ op.kind \in {"push_update", "rebase", "adopt"} => op.local # None
    /\ op.kind \in {"rebase", "adopt"} => op.local = op.remote
    /\ op.kind = "pull_create" => op.local = None

(* The kinds whose handler reads the remote note before it acts. *)
GuardedKinds == {"pull_create", "pull_update", "push_update", "push_delete", "rebase", "adopt"}

(* Where a handler is tells which operation it runs and what it has read. *)
ControlInv ==
    /\ pc \in HandlerPcs \cup {"mark"} => cur \in Notes
    /\ pc \notin HandlerPcs \cup {"mark"} => got = None
    /\ pc = "guard_local" => phase = "guard" /\ o.kind \in GuardedKinds \cup {"pull_delete"}
    /\ pc \in {"get", "tags"} =>
          \/ phase = "guard" /\ o.kind \in GuardedKinds
          \/ phase # "guard" /\ o.kind = "push_update" /\ text # None
    /\ pc \in {"backup", "write"} => o.kind \in {"pull_create", "pull_update"} /\ got # None
    /\ pc \in {"reread", "put", "put_tags", "tagging", "rename"} => o.kind = "push_update"
    /\ pc \in {"put", "put_tags", "tagging", "rename"} => text # None
    /\ pc = "tagging" => "tags" \in o.fields
    /\ pc = "readback" =>
          /\ got # None /\ o.kind \in {"pull_create", "pull_update", "push_update"}
          /\ o.kind = "push_update" => text # None /\ got.c = text
    /\ pc = "rename" => got # None /\ got.c = text
    /\ pc \in {"gone", "quarantine"} => o.kind = "pull_delete"
    /\ pc \in {"delete", "deleted"} => o.kind = "push_delete"
    /\ pc = "commit" =>
          /\ o.kind \in GuardedKinds \cup {"pull_delete", "drop_base"}
          /\ o.kind \in GuardedKinds \ {"push_delete"} => got # None
          /\ o.kind = "push_update" => text # None /\ got.c = text
          /\ o.kind \in {"rebase", "adopt"} => got.c = o.remote

PlanInv ==
    \A n \in Notes : WellPlanned(plan[n]) /\ (jstat[n] = "planned" => plan[n].kind # "none")

(* A note that a handler holds is the remote note or an earlier version of it. *)
GotTruth == got # None => NotAfter(got, remote[cur])

IInv == TypeOK /\ PlanInv /\ ControlInv /\ GotTruth /\ VersionTruth

-----------------------------------------------------------------------------
(* What a push sends is a content. *)
LEMMA OverlayContent ==
    ASSUME NEW r \in Content, NEW x \in Content, NEW F
    PROVE  Overlay(r, x, F) \in Content
BY ConstantsAssumption DEF Content, Overlay

(* A push is the fields and then the tags; without fields it is the tags.  *)
LEMMA OverlayNothing ==
    ASSUME NEW r \in Content, NEW x PROVE Overlay(r, x, {}) = r
BY ConstantsAssumption DEF Content, Overlay

LEMMA OverlayThenTags ==
    ASSUME NEW r \in Content, NEW x \in Content, NEW F, "tags" \in F
    PROVE  [Overlay(r, x, F \ {"tags"}) EXCEPT !.tags = x.tags] = Overlay(r, x, F)
<1> DEFINE v == Overlay(r, x, F \ {"tags"})
           w == Overlay(r, x, F)
<1>1. v \in Content /\ w \in Content
  BY OverlayContent
<1>2. v.title = w.title /\ v.body = w.body /\ w.tags = x.tags
  BY ConstantsAssumption DEF Overlay
<1> HIDE DEF v, w
<1>3. [v EXCEPT !.tags = x.tags] = w
  BY <1>1, <1>2 DEF Content
<1> QED
  BY <1>3 DEF v, w

(* The fields of a push do not touch the tags. *)
LEMMA OverlayKeepsTags ==
    ASSUME NEW r \in Content, NEW x, NEW F
    PROVE  Overlay(r, x, F \ {"tags"}).tags = r.tags
BY ConstantsAssumption DEF Overlay

(* A planned operation is well formed and well planned. *)
LEMMA PlanOpSound ==
    ASSUME NEW b \in Side, NEW l \in Side, NEW r \in Side, NEW open \in BOOLEAN,
           NEW dir \in Directions, NEW prop \in BOOLEAN
    PROVE  PlanOp(b, l, r, open, dir, prop) \in Op /\ WellPlanned(PlanOp(b, l, r, open, dir, prop))
<1> DEFINE status == Classify(b, l, r)
           kind == KindFor(status, b, open, dir, prop)
<1>1. PullKind(status, prop) \in {"none", "pull_update", "pull_create", "pull_delete"}
  BY DEF PullKind
<1>2. PushKind(status, prop) \in {"none", "push_update", "push_delete"}
  BY DEF PushKind
<1>3. BaseKind(status, b, open) \in {"none", "adopt", "rebase", "drop_base", "create_conflict"}
  BY DEF BaseKind
<1>4. kind \in {PullKind(status, prop), PushKind(status, prop), BaseKind(status, b, open)}
  BY DEF KindFor
<1>5. kind \in Kinds
  BY <1>1, <1>2, <1>3, <1>4 DEF Kinds
<1>6. PlanOp(b, l, r, open, dir, prop) \in Op
  BY <1>5 DEF PlanOp, Op, Changed
<1>7. CASE kind \in {"pull_update", "pull_create"}
  <2>1. status \in {"remote_modified", "moved_remote", "remote_new"}
    BY <1>1, <1>2, <1>3, <1>4, <1>7 DEF PullKind
  <2>2. r # None /\ (status = "remote_new" => l = None)
    BY <2>1 DEF Classify, ClassifyPresent, LocalStatus, RemoteStatus
  <2>3. kind = "pull_create" => status = "remote_new"
    BY <1>1, <1>2, <1>3, <1>4 DEF PullKind
  <2> QED
    BY <1>6, <1>7, <2>2, <2>3 DEF PlanOp, WellPlanned
<1>8. CASE kind \in {"push_update", "push_delete"}
  <2>1. status \in {"local_modified", "metadata_modified", "moved_local", "local_deleted"}
    BY <1>1, <1>2, <1>3, <1>4, <1>8 DEF PushKind
  <2>2. r # None /\ (status # "local_deleted" => l # None)
    BY <2>1 DEF Classify, ClassifyPresent, LocalStatus, RemoteStatus
  <2>3. kind = "push_update" => status # "local_deleted"
    BY <1>1, <1>2, <1>3, <1>4 DEF PushKind
  <2> QED
    BY <1>6, <1>8, <2>2, <2>3 DEF PlanOp, WellPlanned
<1>9. CASE kind \in {"rebase", "adopt"}
  <2>1. status = "both_identical"
    BY <1>1, <1>2, <1>3, <1>4, <1>9 DEF BaseKind
  <2>2. l = r /\ l # None
    BY <2>1 DEF Classify, ClassifyPresent, LocalStatus, RemoteStatus
  <2> QED
    BY <1>6, <1>9, <2>2 DEF PlanOp, WellPlanned
<1>10. CASE kind \in {"none", "pull_delete", "drop_base", "create_conflict"}
  BY <1>6, <1>10 DEF PlanOp, WellPlanned
<1> QED
  BY <1>5, <1>7, <1>8, <1>9, <1>10, Zenon DEF Kinds

-----------------------------------------------------------------------------
(* The updates of the remote copy keep its type. *)
LEMMA RemoteTyped ==
    ASSUME NEW r \in [Notes -> RemoteNote], NEW n \in Notes
    PROVE  /\ \A s \in {"live", "trash", "gone"} :
                [r EXCEPT ![n].st = s] \in [Notes -> RemoteNote]
           /\ \A g \in TagSets : [r EXCEPT ![n].c.tags = g] \in [Notes -> RemoteNote]
           /\ r[n].c.tags \in TagSets
<1>1. \A s \in {"live", "trash", "gone"} : [r EXCEPT ![n].st = s] \in [Notes -> RemoteNote]
  BY DEF RemoteNote
<1>2. \A g \in TagSets : [r EXCEPT ![n].c.tags = g] \in [Notes -> RemoteNote]
  BY DEF RemoteNote, Content
<1>3. r[n].c.tags \in TagSets
  BY DEF RemoteNote, Content
<1> QED
  BY <1>1, <1>2, <1>3

(* A request of _reconcile_tags sets the tags of the note, and only them. *)
TagsAfter(t) == IF t \in text.tags THEN remote[cur].c.tags \cup {t} ELSE remote[cur].c.tags \ {t}

LEMMA ToggledTags ==
    ASSUME remote \in [Notes -> RemoteNote], cur \in Notes, NEW t \in Tags
    PROVE  /\ Toggled(t) = [remote EXCEPT ![cur].c.tags = TagsAfter(t)]
           /\ TagsAfter(t) \in TagSets
           /\ Toggled(t) \in [Notes -> RemoteNote]
<1>1. Toggled(t) = [remote EXCEPT ![cur].c.tags = TagsAfter(t)]
  BY DEF Toggled, TagsAfter
<1>2. TagsAfter(t) \in TagSets
  BY RemoteTyped DEF TagsAfter, TagSets
<1>3. \A g \in TagSets : [remote EXCEPT ![cur].c.tags = g] \in [Notes -> RemoteNote]
  BY RemoteTyped
<1>4. [remote EXCEPT ![cur].c.tags = TagsAfter(t)] \in [Notes -> RemoteNote]
  BY <1>2, <1>3
<1> QED
  BY <1>1, <1>2, <1>4

(* The inductive invariant holds initially. *)
LEMMA InitInv == Init => IInv
<1> SUFFICES ASSUME Init PROVE IInv
  OBVIOUS
<1> USE ConstantsAssumption
<1>1. PICK c \in Content, synced \in BOOLEAN :
        /\ remote = [n \in Notes |-> [st |-> "live", ver |-> 1, c |-> c]]
        /\ file = [n \in Notes |-> IF synced THEN c ELSE None]
        /\ base = [n \in Notes |-> IF synced THEN [c |-> c, ver |-> 1] ELSE None]
        /\ tagmap = [n \in Notes |-> c.tags]
  BY DEF Init
<1>2. NoOp \in Op /\ WellPlanned(NoOp)
  BY DEF NoOp, Op, Kinds, Side, WellPlanned
<1>3. TypeOK
  BY <1>1, <1>2 DEF Init, TypeOK, Side, Fetched, RemoteNote, Content, TagSets
<1>4. PlanInv
  BY <1>2 DEF Init, PlanInv
<1>5. ControlInv
  BY DEF Init, ControlInv, HandlerPcs
<1>6. GotTruth
  BY DEF Init, GotTruth
<1>7. VersionTruth
  BY <1>1 DEF VersionTruth, NotAfter
<1> QED
  BY <1>3, <1>4, <1>5, <1>6, <1>7 DEF IInv

(* Every step preserves the type invariant. *)
LEMMA TypeStep == IInv /\ [Next]_vars => TypeOK'
<1> SUFFICES ASSUME IInv, [Next]_vars PROVE TypeOK'
  OBVIOUS
<1> USE ConstantsAssumption DEF IInv, copies, journal, reads, locals, bounds, ghosts
<1>1. ASSUME NEW n \in Notes, EditFile(n) PROVE TypeOK'
  BY <1>1 DEF EditFile, Edited, TypeOK
<1>2. ASSUME NEW n \in Notes, EditRemoteFields(n) PROVE TypeOK'
  <2>1. remote \in [Notes -> RemoteNote]
    BY DEF TypeOK
  <2>2. remote' \in [Notes -> RemoteNote]
    BY <1>2, <2>1 DEF EditRemoteFields, RemoteNote, Content
  <2> QED
    BY <1>2, <2>2 DEF EditRemoteFields, Edited, TypeOK
<1>3. ASSUME NEW n \in Notes, EditRemoteTags(n) PROVE TypeOK'
  <2>1. PICK g \in TagSets : remote' = [remote EXCEPT ![n].c.tags = g]
    BY <1>3 DEF EditRemoteTags
  <2>2. remote' \in [Notes -> RemoteNote]
    BY <2>1, RemoteTyped DEF TypeOK
  <2> QED
    BY <1>3, <2>2 DEF EditRemoteTags, Edited, TypeOK
<1>4. ASSUME NEW n \in Notes, TrashRemote(n) PROVE TypeOK'
  <2>1. remote' \in [Notes -> RemoteNote]
    BY <1>4, RemoteTyped DEF TrashRemote, TypeOK
  <2> QED
    BY <1>4, <2>1 DEF TrashRemote, Edited, TypeOK
<1>5. ASSUME NEW n \in Notes, RestoreRemote(n) PROVE TypeOK'
  <2>1. remote \in [Notes -> RemoteNote]
    BY DEF TypeOK
  <2>2. remote' \in [Notes -> RemoteNote]
    BY <1>5, <2>1 DEF RestoreRemote, RemoteNote, Content
  <2> QED
    BY <1>5, <2>2 DEF RestoreRemote, Edited, TypeOK
<1>6. ASSUME NEW n \in Notes, PurgeRemote(n) PROVE TypeOK'
  <2>1. remote' \in [Notes -> RemoteNote]
    BY <1>6, RemoteTyped DEF PurgeRemote, TypeOK
  <2> QED
    BY <1>6, <2>1 DEF PurgeRemote, Edited, TypeOK
<1>7. CASE Begin
  BY <1>7 DEF Begin, TypeOK, PreparePcs, NoOp, Op, Kinds, Side, TagSets
<1>8. ASSUME NEW t \in Tags, ReadTagMap(t) PROVE TypeOK'
  <2>1. tagmap' \in [Notes -> TagSets] /\ pending' \in TagSets
    BY <1>8 DEF ReadTagMap, TypeOK, TagSets
  <2> QED
    BY <1>8, <2>1 DEF ReadTagMap, TypeOK
<1>9. CASE ListNotes
  BY <1>9 DEF ListNotes, SameVersion, SnapshotTags, Live, TypeOK, PreparePcs, RemoteNote, Content, Side, Fetched
<1>10. ASSUME NEW n \in Notes, FetchBody(n) PROVE TypeOK'
  BY <1>10 DEF FetchBody, SnapshotTags, Live, TypeOK, RemoteNote, Content, Side
<1>11. CASE MakePlan
  <2>1. \A n \in Notes, dir \in Directions, prop \in BOOLEAN :
          PlanOp(BaseContent(n), scan[n], snap[n], bundle[n] # None, dir, prop) \in Op
    <3>1. \A n \in Notes : /\ BaseContent(n) \in Side /\ scan[n] \in Side /\ snap[n] \in Side
                          /\ (bundle[n] # None) \in BOOLEAN
      BY <1>11 DEF MakePlan, TypeOK, BaseContent, Side, Fetched
    <3> QED BY <3>1, PlanOpSound
  <2>2. plan' \in [Notes -> Op]
    BY <1>11, <2>1 DEF MakePlan
  <2> QED
    BY <1>11, <2>2 DEF MakePlan, TypeOK, Side
<1>12. CASE RecordRun
  BY <1>12 DEF RecordRun, TypeOK, PreparePcs, RemoteNote, Content, Side
<1>13. CASE Abandon
  BY <1>13 DEF Abandon, TypeOK, PreparePcs, RemoteNote, Content, Side, TagSets
<1>14. ASSUME NEW n \in Notes, StartOp(n) PROVE TypeOK'
  <2>1. plan[n].kind \in Kinds \ {"none"} => FirstStep(plan[n].kind) \in HandlerPcs
    BY DEF FirstStep, HandlerPcs, Kinds
  <2> QED
    BY <1>14, <2>1 DEF StartOp, TypeOK, PlanInv, Op
<1>15. CASE GuardLocal
  BY <1>15 DEF GuardLocal, TypeOK, ControlInv, HandlerPcs, Ends
<1>16. CASE GetNote
  BY <1>16 DEF GetNote, TypeOK, ControlInv, HandlerPcs, Live, RemoteNote, Fetched
<1>17. CASE GuardRemote
  <2>1. cur \in Notes
    BY <1>17 DEF GuardRemote, ControlInv, HandlerPcs
  <2>2. WithTags \in Fetched \cup {None}
    BY <2>1 DEF WithTags, TypeOK, Fetched, RemoteNote, Content
  <2> QED
    BY <1>17, <2>1, <2>2 DEF GuardRemote, TypeOK, HandlerPcs, ControlInv, GuardedKinds, AfterGuard, Ends
<1>18. CASE Backup
  BY <1>18 DEF Backup, TypeOK, ControlInv, HandlerPcs
<1>19. CASE WriteLocal
  BY <1>19 DEF WriteLocal, TypeOK, ControlInv, HandlerPcs, Side, Fetched
<1>20. CASE Reread
  BY <1>20 DEF Reread, TypeOK, ControlInv, HandlerPcs, Side, Ends
<1>42. CASE ReadBack
  BY <1>42 DEF ReadBack, TypeOK, HandlerPcs, Ends
<1>21. CASE Put
  <2>1. cur \in Notes /\ text \in Content
    BY <1>21 DEF Put, ControlInv, HandlerPcs, TypeOK, Side
  <2>2. Overlay(remote[cur].c, text, o.fields \ {"tags"}) \in Content
    BY <2>1, OverlayContent DEF TypeOK, RemoteNote
  <2>3. Sent \in [Notes -> RemoteNote]
    BY <2>1, <2>2 DEF Sent, TypeOK, RemoteNote
  <2> QED
    BY <1>21, <2>1, <2>3 DEF Put, TypeOK, HandlerPcs, Ends
<1>22. CASE PutAmbiguous
  <2>1. cur \in Notes /\ text \in Content
    BY <1>22 DEF PutAmbiguous, ControlInv, HandlerPcs, TypeOK, Side
  <2>2. Overlay(remote[cur].c, text, o.fields \ {"tags"}) \in Content
    BY <2>1, OverlayContent DEF TypeOK, RemoteNote
  <2>3. Sent \in [Notes -> RemoteNote]
    BY <2>1, <2>2 DEF Sent, TypeOK, RemoteNote
  <2> QED
    BY <1>22, <2>1, <2>3 DEF PutAmbiguous, TypeOK, HandlerPcs, Ends
<1>23. CASE Probe
  <2>1. cur \in Notes
    BY <1>23 DEF Probe, ControlInv, HandlerPcs
  <2>2. WithTags \in Fetched \cup {None}
    BY <2>1 DEF WithTags, TypeOK, Fetched, RemoteNote, Content
  <2> QED
    BY <1>23, <2>1, <2>2 DEF Probe, TypeOK, HandlerPcs, ControlInv, GuardedKinds, AfterGuard, Ends
<1>24. CASE PutTags \/ TagsPut
  <2>1. remote[cur].c.tags \in TagSets /\ text # None => pending' \in TagSets
    BY <1>24 DEF PutTags, TagsPut, TypeOK, TagSets, Side, Content
  <2>2. cur \in Notes /\ text # None
    BY <1>24 DEF PutTags, TagsPut, ControlInv, HandlerPcs
  <2>3. pending' \in TagSets
    BY <2>1, <2>2, RemoteTyped DEF TypeOK
  <2>4. CASE PutTags
    BY <2>3, <2>4 DEF PutTags, TypeOK, HandlerPcs, Ends
  <2>5. CASE TagsPut
    BY <2>3, <2>5 DEF TagsPut, TypeOK, HandlerPcs
  <2> QED
    BY <1>24, <2>4, <2>5
<1>25. ASSUME NEW t \in Tags, PutTag(t) \/ PutTagAmbiguous(t) PROVE TypeOK'
  <2>1. cur \in Notes
    BY <1>25 DEF PutTag, PutTagAmbiguous, ControlInv, HandlerPcs
  <2>2. remote' \in [Notes -> RemoteNote]
    BY <1>25, <2>1, ToggledTags DEF PutTag, PutTagAmbiguous, TypeOK
  <2>3. pending' \in TagSets
    BY <1>25 DEF PutTag, PutTagAmbiguous, TypeOK, TagSets
  <2>4. CASE PutTag(t)
    BY <2>1, <2>2, <2>3, <2>4 DEF PutTag, TypeOK, HandlerPcs, Ends
  <2>5. CASE PutTagAmbiguous(t)
    BY <2>1, <2>2, <2>3, <2>5 DEF PutTagAmbiguous, TypeOK, Ends
  <2> QED
    BY <1>25, <2>4, <2>5
<1>26. CASE Verify
  <2>1. cur \in Notes
    BY <1>26 DEF Verify, ControlInv, HandlerPcs
  <2>2. WithTags \in Fetched \cup {None}
    BY <2>1 DEF WithTags, TypeOK, Fetched, RemoteNote, Content
  <2> QED
    BY <1>26, <2>1, <2>2 DEF Verify, TypeOK, HandlerPcs, ControlInv, GuardedKinds, AfterGuard, Ends
<1>27. CASE Rename
  BY <1>27 DEF Rename, TypeOK, ControlInv, HandlerPcs, Side
<1>28. CASE ConfirmGone
  BY <1>28 DEF ConfirmGone, TypeOK, ControlInv, HandlerPcs, Ends
<1>29. CASE Quarantine
  BY <1>29 DEF Quarantine, TypeOK, ControlInv, HandlerPcs, Ends, Side
<1>30. CASE Delete
  <2>1. cur \in Notes
    BY <1>30 DEF Delete, ControlInv, HandlerPcs
  <2>2. Trashed \in [Notes -> RemoteNote]
    BY <2>1, RemoteTyped DEF Trashed, TypeOK
  <2> QED
    BY <1>30, <2>1, <2>2 DEF Delete, TypeOK, HandlerPcs, Ends
<1>31. CASE DeleteAmbiguous
  <2>1. cur \in Notes
    BY <1>31 DEF DeleteAmbiguous, ControlInv, HandlerPcs
  <2>2. Trashed \in [Notes -> RemoteNote]
    BY <2>1, RemoteTyped DEF Trashed, TypeOK
  <2> QED
    BY <1>31, <2>1, <2>2 DEF DeleteAmbiguous, TypeOK, HandlerPcs, Ends
<1>32. CASE VerifyDeleted
  BY <1>32 DEF VerifyDeleted, TypeOK, ControlInv, HandlerPcs, Ends
<1>33. CASE Commit
  <2>1. cur \in Notes
    BY <1>33 DEF Commit, ControlInv, HandlerPcs
  <2>2. NewBase \in Fetched \cup {None}
    BY <1>33, <2>1 DEF Commit, o, NewBase, ControlInv, GuardedKinds, PlanInv, WellPlanned, TypeOK, Op, Side, Fetched
  <2> QED
    BY <1>33, <2>1, <2>2 DEF Commit, TypeOK, Ends
<1>34. CASE CreateBundle
  BY <1>34 DEF CreateBundle, TypeOK, ControlInv, HandlerPcs, o, Ends, Op, Side
<1>35. CASE OpFails
  BY <1>35 DEF OpFails, TypeOK, ControlInv, HandlerPcs, Ends
<1>36. CASE Mark
  BY <1>36 DEF Mark, TypeOK, ControlInv, HandlerPcs, MarkedStatus, Side, TagSets
<1>37. CASE FinishFile
  BY <1>37 DEF FinishFile, TypeOK, ControlInv, HandlerPcs
<1>38. CASE FinishRun
  BY <1>38 DEF FinishRun, TypeOK, ControlInv, HandlerPcs
<1>39. CASE Crash
  BY <1>39 DEF Crash, TypeOK, Side, TagSets
<1>40. CASE Recover
  BY <1>40 DEF Recover, TypeOK
<1>41. CASE UNCHANGED vars
  BY <1>41 DEF vars, TypeOK
<1> QED
  BY <1>1, <1>2, <1>3, <1>4, <1>5, <1>6, <1>7, <1>8, <1>9, <1>10, <1>11, <1>12, <1>13, <1>14, <1>15, <1>16, <1>17, <1>18, <1>19, <1>20, <1>21, <1>22, <1>23, <1>24, <1>25, <1>26, <1>27, <1>28, <1>29, <1>30, <1>31, <1>32, <1>33, <1>34, <1>35, <1>36, <1>37, <1>38, <1>39, <1>40, <1>41, <1>42
  DEF Next, Edit, Prepare, Execute, Handler

-----------------------------------------------------------------------------
(* Every step keeps the operations of the run well planned. *)
LEMMA PlanStep == IInv /\ [Next]_vars => PlanInv'
<1> SUFFICES ASSUME IInv, [Next]_vars PROVE PlanInv'
  OBVIOUS
<1> USE DEF IInv, copies, journal, reads, locals, bounds, ghosts
<1>1. CASE Begin
  BY <1>1 DEF Begin, PlanInv, WellPlanned, NoOp
<1>2. CASE MakePlan
  <2>1. \A n \in Notes : BaseContent(n) \in Side /\ scan[n] \in Side /\ snap[n] \in Side
    BY DEF TypeOK, BaseContent, Side, Fetched
  <2>2. PICK dir \in Directions, prop \in BOOLEAN :
          plan' = [n \in Notes |->
            PlanOp(BaseContent(n), scan[n], snap[n], bundle[n] # None, dir, prop)]
    BY <1>2 DEF MakePlan
  <2>3. \A n \in Notes : WellPlanned(plan'[n])
    BY <2>1, <2>2, PlanOpSound
  <2>4. jstat' = [n \in Notes |-> IF plan'[n].kind = "none" THEN "none" ELSE "planned"]
    BY <1>2 DEF MakePlan
  <2> QED
    BY <2>3, <2>4 DEF PlanInv
<1>3. CASE Mark
  <2>1. cur \in Notes /\ jstat \in [Notes -> {"none", "planned", "applied", "skipped", "failed"}]
    BY <1>3 DEF Mark, ControlInv, TypeOK
  <2>2. jstat' = [jstat EXCEPT ![cur] = MarkedStatus] /\ plan' = plan
    BY <1>3 DEF Mark
  <2>3. ASSUME NEW n \in Notes, jstat'[n] = "planned" PROVE jstat[n] = "planned"
    <3>1. MarkedStatus # "planned"
      BY DEF MarkedStatus, TypeOK
    <3> QED
      BY <2>1, <2>2, <2>3, <3>1
  <2> QED
    BY <2>2, <2>3 DEF PlanInv
<1>4. CASE Recover
  BY <1>4 DEF Recover, PlanInv
<1>5. CASE UNCHANGED <<plan, jstat>>
  BY <1>5 DEF PlanInv
<1>6. Edit \/ Handler \/ Crash \/ UNCHANGED vars => UNCHANGED <<plan, jstat>>
  BY DEF Edit, EditFile, EditRemoteFields, EditRemoteTags, TrashRemote, RestoreRemote,
     PurgeRemote, Edited, Handler, GuardLocal, GetNote, GuardRemote, Backup, WriteLocal, Reread,
     Put, PutAmbiguous, Probe, PutTags, PutTag, PutTagAmbiguous, TagsPut, ReadBack,
     Verify, Rename, ConfirmGone, Quarantine,
     Delete, DeleteAmbiguous, VerifyDeleted, Commit, CreateBundle, OpFails, Crash, vars
<1>7. (Prepare \/ Execute) /\ ~Begin /\ ~MakePlan /\ ~Mark /\ ~Handler => UNCHANGED <<plan, jstat>>
  BY DEF Prepare, ReadTagMap, ListNotes, FetchBody, RecordRun, Abandon,
     Execute, StartOp, FinishFile, FinishRun
<1> QED
  BY <1>1, <1>2, <1>3, <1>4, <1>5, <1>6, <1>7 DEF Next

(* The remote copy of a note only moves forward: no step brings back an    *)
(* older version, and a version is never reused for other fields.          *)
LEMMA RemoteMovesForward ==
    IInv /\ [Next]_vars => \A n \in Notes : NotAfter(remote[n], remote'[n])
<1> SUFFICES ASSUME IInv, [Next]_vars, NEW m \in Notes PROVE NotAfter(remote[m], remote'[m])
  OBVIOUS
<1> USE DEF IInv, copies, journal, reads, locals, bounds, ghosts
<1>0. remote \in [Notes -> RemoteNote] /\ remote[m].ver \in Nat
  BY DEF TypeOK, RemoteNote
<1>1. CASE UNCHANGED remote
  BY <1>0, <1>1 DEF NotAfter
<1>2. ASSUME NEW n \in Notes, EditRemoteFields(n) PROVE NotAfter(remote[m], remote'[m])
  BY <1>0, <1>2 DEF EditRemoteFields, NotAfter
<1>3. ASSUME NEW n \in Notes, RestoreRemote(n) PROVE NotAfter(remote[m], remote'[m])
  BY <1>0, <1>3 DEF RestoreRemote, NotAfter
<1>4. ASSUME NEW n \in Notes, NEW st, remote' = [remote EXCEPT ![n].st = st]
      PROVE  NotAfter(remote[m], remote'[m])
  BY <1>0, <1>4 DEF NotAfter, RemoteNote
<1>5. ASSUME NEW n \in Notes, NEW g, remote' = [remote EXCEPT ![n].c.tags = g]
      PROVE  NotAfter(remote[m], remote'[m])
  BY <1>0, <1>5 DEF NotAfter, RemoteNote, Content
<1>6. ASSUME cur \in Notes, remote' = Sent
      PROVE  NotAfter(remote[m], remote'[m])
  BY <1>0, <1>6 DEF Sent, NotAfter
<1>7. CASE Edit
  BY <1>1, <1>2, <1>3, <1>4, <1>5, <1>7
  DEF Edit, EditFile, EditRemoteTags, TrashRemote, PurgeRemote
<1>8. CASE Handler
  <2>1. cur \in Notes
    BY <1>8 DEF Handler, ControlInv, HandlerPcs, GuardLocal, GetNote, GuardRemote, Backup,
       WriteLocal, Reread, Put, PutAmbiguous, Probe, PutTags, PutTag, PutTagAmbiguous, TagsPut, ReadBack,
     Verify, Rename,
       ConfirmGone, Quarantine, Delete, DeleteAmbiguous, VerifyDeleted, Commit, CreateBundle,
       OpFails
  <2>2. CASE Put \/ PutAmbiguous
    BY <1>1, <1>6, <2>1, <2>2 DEF Put, PutAmbiguous
  <2>3. ASSUME NEW t \in Tags, PutTag(t) \/ PutTagAmbiguous(t)
        PROVE  NotAfter(remote[m], remote'[m])
    BY <1>0, <1>1, <1>5, <2>1, <2>3, ToggledTags DEF PutTag, PutTagAmbiguous
  <2>4. CASE Delete \/ DeleteAmbiguous
    BY <1>1, <1>4, <2>1, <2>4 DEF Delete, DeleteAmbiguous, Trashed
  <2>5. CASE ~(Put \/ PutAmbiguous \/ (\E t \in Tags : PutTag(t) \/ PutTagAmbiguous(t))
                  \/ Delete \/ DeleteAmbiguous)
    BY <1>1, <1>8, <2>5 DEF Handler, GuardLocal, GetNote, GuardRemote, Backup, WriteLocal,
       ReadBack, Reread, Probe, PutTags, TagsPut, Verify, Rename, ConfirmGone, Quarantine, VerifyDeleted, Commit,
       CreateBundle, OpFails
  <2> QED
    BY <2>2, <2>3, <2>4, <2>5
<1>9. CASE Prepare \/ Crash \/ Recover \/ UNCHANGED vars
  BY <1>1, <1>9 DEF Prepare, Begin, ReadTagMap, ListNotes, FetchBody, MakePlan, RecordRun,
     Abandon, Crash, Recover, vars
<1>10. CASE Execute /\ ~Handler
  BY <1>1, <1>10 DEF Execute, StartOp, Mark, FinishFile, FinishRun
<1> QED
  BY <1>7, <1>8, <1>9, <1>10 DEF Next

(* Every step keeps what a handler's place says of its operation. *)
LEMMA ControlStep == IInv /\ [Next]_vars => ControlInv'
<1> SUFFICES ASSUME IInv, [Next]_vars PROVE ControlInv'
  OBVIOUS
<1> USE DEF IInv, copies, journal, reads, locals, bounds, ghosts, o
<1>1. CASE UNCHANGED <<pc, phase, cur, got, text, plan>>
  BY <1>1 DEF ControlInv
<1>2. Edit \/ Recover \/ UNCHANGED vars => UNCHANGED <<pc, phase, cur, got, text, plan>>
  BY DEF Edit, EditFile, EditRemoteFields, EditRemoteTags, TrashRemote, RestoreRemote,
     PurgeRemote, Edited, Recover, vars
<1>3. CASE Prepare
  <2>1. pc \notin HandlerPcs \cup {"mark"} /\ pc' \notin HandlerPcs \cup {"mark"} /\ got' = got
    BY <1>3 DEF Prepare, Begin, ReadTagMap, ListNotes, FetchBody, MakePlan, RecordRun, Abandon,
       HandlerPcs, PreparePcs
  <2> QED
    BY <2>1 DEF ControlInv, HandlerPcs
<1>4. ASSUME NEW n \in Notes, StartOp(n) PROVE ControlInv'
  <2>1. plan[n].kind \in Kinds \ {"none"}
    BY <1>4 DEF StartOp, PlanInv, TypeOK, Op
  <2>2. pc' = FirstStep(plan[n].kind) /\ cur' = n /\ phase' = "guard" /\ plan' = plan
    BY <1>4 DEF StartOp
  <2> QED
    BY <2>1, <2>2 DEF ControlInv, FirstStep, HandlerPcs, GuardedKinds, Kinds
<1>5. CASE GuardLocal
  BY <1>5 DEF GuardLocal, ControlInv, HandlerPcs, GuardedKinds, Ends
<1>6. CASE GetNote
  BY <1>6 DEF GetNote, ControlInv, HandlerPcs, GuardedKinds, Ends
<1>7. CASE GuardRemote
  <2>1. CASE pc' = "mark"
    BY <1>7, <2>1 DEF GuardRemote, ControlInv, HandlerPcs
  <2>2. CASE GuardHolds(got') /\ pc' = AfterGuard(o.kind)
    <3>1. cur \in Notes /\ o.kind \in GuardedKinds /\ WellPlanned(o)
      BY <1>7 DEF GuardRemote, ControlInv, HandlerPcs, PlanInv
    <3>2. got' # None /\ got'.c = o.remote
      BY <2>2, <3>1 DEF GuardHolds, WellPlanned, GuardedKinds
    <3>3. UNCHANGED <<phase, cur, text, plan>>
      BY <1>7 DEF GuardRemote
    <3> QED
      BY <2>2, <3>1, <3>2, <3>3 DEF ControlInv, AfterGuard, HandlerPcs, GuardedKinds
  <2> QED
    BY <1>7, <2>1, <2>2 DEF GuardRemote, Ends
<1>8. CASE Backup
  BY <1>8 DEF Backup, ControlInv, HandlerPcs, GuardedKinds, Ends
<1>9. CASE WriteLocal \/ ReadBack
  BY <1>9 DEF WriteLocal, ReadBack, ControlInv, HandlerPcs, GuardedKinds, Ends
<1>10. CASE Reread
  BY <1>10 DEF Reread, ControlInv, HandlerPcs, GuardedKinds, Ends
<1>11. CASE Put
  BY <1>11 DEF Put, ControlInv, HandlerPcs, GuardedKinds, Ends
<1>12. CASE PutAmbiguous
  BY <1>12 DEF PutAmbiguous, ControlInv, HandlerPcs, GuardedKinds, Ends
<1>13. CASE Probe
  BY <1>13 DEF Probe, ControlInv, HandlerPcs, GuardedKinds, Ends
<1>14. CASE PutTags \/ TagsPut
  BY <1>14 DEF PutTags, TagsPut, ControlInv, HandlerPcs, GuardedKinds, Ends
<1>15. ASSUME NEW t \in Tags, PutTag(t) \/ PutTagAmbiguous(t) PROVE ControlInv'
  BY <1>15 DEF PutTag, PutTagAmbiguous, ControlInv, HandlerPcs, GuardedKinds, Ends
<1>16. CASE Verify
  BY <1>16 DEF Verify, ControlInv, HandlerPcs, GuardedKinds, Ends, Verifies
<1>17. CASE Rename
  BY <1>17 DEF Rename, ControlInv, HandlerPcs, GuardedKinds, Ends
<1>18. CASE ConfirmGone
  BY <1>18 DEF ConfirmGone, ControlInv, HandlerPcs, GuardedKinds, Ends
<1>19. CASE Quarantine
  BY <1>19 DEF Quarantine, ControlInv, HandlerPcs, GuardedKinds, Ends
<1>20. CASE Delete
  BY <1>20 DEF Delete, ControlInv, HandlerPcs, GuardedKinds, Ends
<1>21. CASE DeleteAmbiguous
  BY <1>21 DEF DeleteAmbiguous, ControlInv, HandlerPcs, GuardedKinds, Ends
<1>22. CASE VerifyDeleted
  BY <1>22 DEF VerifyDeleted, ControlInv, HandlerPcs, GuardedKinds, Ends
<1>23. CASE Commit
  BY <1>23 DEF Commit, ControlInv, HandlerPcs, GuardedKinds, Ends
<1>24. CASE CreateBundle
  BY <1>24 DEF CreateBundle, ControlInv, HandlerPcs, GuardedKinds, Ends
<1>25. CASE OpFails
  BY <1>25 DEF OpFails, ControlInv, HandlerPcs, GuardedKinds, Ends
<1>26. CASE Mark \/ FinishFile \/ FinishRun \/ Crash
  BY <1>26 DEF Mark, FinishFile, FinishRun, Crash, ControlInv, HandlerPcs
<1> QED
  BY <1>1, <1>2, <1>3, <1>4, <1>5, <1>6, <1>7, <1>8, <1>9, <1>10, <1>11, <1>12, <1>13, <1>14, <1>15, <1>16, <1>17, <1>18, <1>19, <1>20, <1>21, <1>22, <1>23, <1>24, <1>25, <1>26
  DEF Next, Execute, Handler

-----------------------------------------------------------------------------
(* Being an earlier version of the remote note is transitive. *)
LEMMA NotAfterTransitive ==
    ASSUME NEW f \in Fetched, NEW r \in RemoteNote, NEW q \in RemoteNote,
           NotAfter(f, r), NotAfter(r, q)
    PROVE  NotAfter(f, q)
BY DEF NotAfter, Fetched, RemoteNote

(* What a handler holds stays the remote note or an earlier version of it. *)
LEMMA GotStep == IInv /\ [Next]_vars => GotTruth'
<1> SUFFICES ASSUME IInv, [Next]_vars, got' # None PROVE NotAfter(got', remote'[cur'])
  BY DEF GotTruth
<1> USE DEF IInv, copies, journal, reads, locals, bounds, ghosts
<1>1. TypeOK' /\ ControlInv'
  BY TypeStep, ControlStep
<1>2. cur' \in Notes /\ pc' \in HandlerPcs \cup {"mark"}
  BY <1>1 DEF ControlInv
<1>3. remote \in [Notes -> RemoteNote] /\ remote' \in [Notes -> RemoteNote] /\ got \in Fetched \cup {None}
  BY <1>1 DEF TypeOK
<1>4. CASE got' = got /\ cur' = cur
  <2>1. NotAfter(got, remote[cur]) /\ NotAfter(remote[cur], remote'[cur])
    BY <1>2, <1>4, RemoteMovesForward DEF GotTruth
  <2> QED
    BY <1>2, <1>3, <1>4, <2>1, NotAfterTransitive
<1>5. CASE GetNote
  BY <1>3, <1>5 DEF GetNote, NotAfter, RemoteNote, ControlInv, HandlerPcs
<1>6. CASE got' = WithTags /\ UNCHANGED <<remote, cur>>
  <2>1. got # None /\ got'.ver = got.ver /\ got'.c.title = got.c.title /\ got'.c.body = got.c.body
    BY <1>3, <1>6 DEF WithTags, Fetched, Content
  <2> QED
    BY <1>6, <2>1 DEF GotTruth, NotAfter
<1>7. CASE Mark \/ Crash
  BY <1>7 DEF Mark, Crash
<1>8. CASE Prepare \/ Recover \/ FinishFile \/ FinishRun
  BY <1>2, <1>8 DEF Prepare, Begin, ReadTagMap, ListNotes, FetchBody, MakePlan, RecordRun,
     Abandon, Recover, FinishFile, FinishRun, HandlerPcs, PreparePcs, ControlInv
<1>9. ASSUME NEW n \in Notes, StartOp(n) PROVE FALSE
  BY <1>9 DEF StartOp, ControlInv, HandlerPcs
<1>10. CASE Edit \/ UNCHANGED vars
  BY <1>4, <1>10 DEF Edit, EditFile, EditRemoteFields, EditRemoteTags, TrashRemote, RestoreRemote,
     PurgeRemote, Edited, vars
<1>11. CASE Handler
  <2>1. CASE GuardRemote \/ Probe \/ Verify
    BY <1>6, <2>1 DEF GuardRemote, Probe, Verify
  <2>2. CASE ~(GetNote \/ GuardRemote \/ Probe \/ Verify)
    BY <1>4, <1>11, <2>2 DEF Handler, GuardLocal, Backup, WriteLocal, Reread, Put,
       PutAmbiguous, PutTags, PutTag, PutTagAmbiguous, TagsPut, ReadBack,
     Rename, ConfirmGone, Quarantine, Delete,
       DeleteAmbiguous, VerifyDeleted, Commit, CreateBundle, OpFails
  <2> QED
    BY <1>5, <2>1, <2>2
<1> QED
  BY <1>7, <1>8, <1>9, <1>10, <1>11 DEF Next, Execute

(* A base row is the remote note or an earlier version of it: a commit     *)
(* writes what the handler verified, and the remote copy moves forward.    *)
LEMMA TruthStep == IInv /\ [Next]_vars => VersionTruth'
<1> SUFFICES ASSUME IInv, [Next]_vars, NEW n \in Notes, base'[n] # None
             PROVE  NotAfter(base'[n], remote'[n])
  BY DEF VersionTruth
<1> USE DEF IInv, copies, journal, reads, locals, bounds, ghosts
<1>1. TypeOK /\ TypeOK'
  BY TypeStep
<1>2. CASE base'[n] = base[n]
  <2>1. NotAfter(base[n], remote[n]) /\ NotAfter(remote[n], remote'[n])
    BY <1>2, RemoteMovesForward DEF VersionTruth
  <2>2. base[n] \in Fetched /\ remote[n] \in RemoteNote /\ remote'[n] \in RemoteNote
    BY <1>1, <1>2 DEF TypeOK
  <2> QED
    BY <1>2, <2>1, <2>2, NotAfterTransitive
<1>3. CASE Commit
  <2>1. cur \in Notes /\ ControlInv /\ pc = "commit"
    BY <1>3 DEF Commit, ControlInv, HandlerPcs
  <2>2. CASE n # cur
    BY <1>1, <1>2, <1>3, <2>1, <2>2 DEF Commit, TypeOK
  <2>3. CASE n = cur
    <3>1. base'[n] = NewBase /\ remote'[n] = remote[cur]
      BY <1>1, <1>3, <2>1, <2>3 DEF Commit, TypeOK
    <3>2. o.kind \in GuardedKinds \ {"push_delete"}
      BY <2>1, <3>1 DEF ControlInv, GuardedKinds, NewBase
    <3>3. got # None /\ NotAfter(got, remote[cur])
      BY <2>1, <3>2 DEF ControlInv, GotTruth
    <3>4. NewBase.ver = got.ver /\ NewBase.c = got.c
      BY <2>1, <3>2 DEF NewBase, GuardedKinds, ControlInv, PlanInv, WellPlanned, o
    <3> QED
      BY <3>1, <3>3, <3>4 DEF NotAfter
  <2> QED
    BY <2>2, <2>3
<1>4. CASE Handler /\ ~Commit
  BY <1>2, <1>4 DEF Handler, GuardLocal, GetNote, GuardRemote, Backup, WriteLocal, Reread, Put,
     PutAmbiguous, Probe, PutTags, PutTag, PutTagAmbiguous, TagsPut, ReadBack,
     Verify, Rename, ConfirmGone, Quarantine,
     Delete, DeleteAmbiguous, VerifyDeleted, CreateBundle, OpFails
<1>5. CASE Edit \/ Crash \/ Recover \/ UNCHANGED vars
  BY <1>2, <1>5 DEF Edit, EditFile, EditRemoteFields, EditRemoteTags, TrashRemote,
     RestoreRemote, PurgeRemote, Edited, Crash, Recover, vars
<1>6. CASE Prepare \/ (Execute /\ ~Handler)
  BY <1>2, <1>6 DEF Prepare, Begin, ReadTagMap, ListNotes, FetchBody, MakePlan, RecordRun,
     Abandon, Execute, StartOp, Mark, FinishFile, FinishRun
<1> QED
  BY <1>3, <1>4, <1>5, <1>6 DEF Next

(* The inductive invariant holds in every reachable state of the engine. *)
LEMMA Invariance == Spec => []IInv
<1>1. IInv /\ [Next]_vars => IInv'
  BY TypeStep, PlanStep, ControlStep, GotStep, TruthStep DEF IInv
<1> QED
  BY InitInv, <1>1, PTL DEF Spec

(* The type invariant of the engine, for any notes, edits and faults. *)
THEOREM TypeCorrect == Spec => []TypeOK
<1>1. IInv => TypeOK
  BY DEF IInv
<1> QED
  BY Invariance, <1>1, PTL

(* The shortcut of build_remote_snapshot never gives a note the title or   *)
(* body of another version: no interleaving of edits on both sides, failed *)
(* and ambiguous writes, crashes and recoveries makes a base row lie.      *)
THEOREM BaseNeverLies == Spec => []VersionTruth
<1>1. IInv => VersionTruth
  BY DEF IInv
<1> QED
  BY Invariance, <1>1, PTL

-----------------------------------------------------------------------------
(***************************************************************************)
(* What the guards of the executor achieve: a copy is replaced or          *)
(* committed only as it was last read, unless that side was edited since.  *)
(* And nothing is written before the run is recorded.                      *)
(***************************************************************************)

(* From the row of the run to its end, the run is in progress. *)
RunInv == pc \in HandlerPcs \cup {"exec", "mark", "finish"} => run = "in-progress"

(* What a handler knows of the file, unless it was edited since.           *)
FileSeen ==
    /\ pc \in {"get", "tags"} /\ phase = "guard" /\ o.kind # "push_delete" => file[cur] = o.local
    /\ pc = "write" => file[cur] \in {None, saved}
    /\ pc \in {"put", "put_tags", "tagging", "rename"} => file[cur] = text
    /\ pc \in {"get", "tags"} /\ phase # "guard" => file[cur] = text
    /\ pc = "readback" => file[cur] = got.c
    /\ pc = "commit" =>
          /\ o.kind \in {"pull_create", "pull_update"} => file[cur] = got.c
          /\ o.kind = "push_update" => file[cur] = text
          /\ o.kind \in {"rebase", "adopt"} => file[cur] = o.local

(* What it knows of the remote note, unless that was edited since.         *)
RemoteSeen ==
    /\ pc = "tags" => RemoteContent(cur) = IF got = None THEN None ELSE got.c
    /\ pc \in {"backup", "write", "readback", "rename"} => RemoteContent(cur) = got.c
    /\ pc \in {"reread", "put", "delete"} => RemoteContent(cur) = o.remote
    /\ pc = "put_tags" /\ "tags" \in o.fields =>
          RemoteContent(cur) \in {text, Overlay(o.remote, text, o.fields \ {"tags"})}
    /\ pc = "tagging" /\ pending # {} => Live(cur) /\ WrittenSoFar(cur)
    /\ pc = "commit" /\ o.kind \in GuardedKinds \ {"push_delete"} => RemoteContent(cur) = got.c

SeenInv ==
    /\ "file" \notin raced => FileSeen
    /\ "remote" \notin raced => RemoteSeen

-----------------------------------------------------------------------------
(* A run is recorded before its first operation and ended after its last.  *)
LEMMA RunStep == RunInv /\ [Next]_vars => RunInv'
<1> SUFFICES ASSUME RunInv, [Next]_vars PROVE RunInv'
  OBVIOUS
<1> USE DEF RunInv, copies, journal, reads, locals, bounds, ghosts, HandlerPcs
<1>1. CASE Edit \/ UNCHANGED vars
  BY <1>1 DEF Edit, EditFile, EditRemoteFields, EditRemoteTags, TrashRemote, RestoreRemote,
     PurgeRemote, Edited, vars
<1>2. CASE Prepare
  BY <1>2 DEF Prepare, Begin, ReadTagMap, ListNotes, FetchBody, MakePlan, RecordRun,
     Abandon, PreparePcs
<1>3. CASE Handler
  BY <1>3 DEF Handler, GuardLocal, GetNote, GuardRemote, Backup, WriteLocal, Reread, Put,
     PutAmbiguous, Probe, PutTags, PutTag, PutTagAmbiguous, TagsPut, ReadBack,
     Verify, Rename, ConfirmGone, Quarantine,
     Delete, DeleteAmbiguous, VerifyDeleted, Commit, CreateBundle, OpFails, Ends
<1>4. CASE Execute /\ ~Handler
  BY <1>4 DEF Execute, StartOp, Mark, FinishFile, FinishRun
<1>5. CASE Crash \/ Recover
  BY <1>5 DEF Crash, Recover
<1> QED
  BY <1>1, <1>2, <1>3, <1>4, <1>5 DEF Next

(* No copy is touched outside a recorded run, but by users. *)
THEOREM EffectsAreJournaled == Spec => WritesAreJournaled
<1>1. Init => RunInv
  BY DEF Init, RunInv, HandlerPcs
<1>2. TypeOK /\ RunInv /\ [Next]_vars => (edits' = edits /\ copies' # copies => run = "in-progress")
  <2> SUFFICES ASSUME TypeOK, RunInv, Next, edits' = edits
               PROVE  copies' = copies \/ run = "in-progress"
    BY DEF vars, copies
  <2> USE DEF RunInv, copies, journal, reads, locals, bounds, ghosts, HandlerPcs
  <2>1. CASE Edit
    <3>1. edits' = edits + 1 /\ edits \in Nat
      BY <2>1 DEF Edit, EditFile, EditRemoteFields, EditRemoteTags, TrashRemote,
         RestoreRemote, PurgeRemote, Edited, TypeOK
    <3> QED
      BY <3>1
  <2>2. CASE Prepare
    BY <2>2 DEF Prepare, Begin, ReadTagMap, ListNotes, FetchBody, MakePlan, RecordRun,
       Abandon
  <2>3. CASE Handler
    BY <2>3 DEF Handler, GuardLocal, GetNote, GuardRemote, Backup, WriteLocal, Reread, Put,
       PutAmbiguous, Probe, PutTags, PutTag, PutTagAmbiguous, TagsPut, ReadBack,
     Verify, Rename, ConfirmGone, Quarantine,
       Delete, DeleteAmbiguous, VerifyDeleted, Commit, CreateBundle, OpFails
  <2>4. CASE Execute /\ ~Handler
    BY <2>4 DEF Execute, StartOp, Mark, FinishFile, FinishRun
  <2>5. CASE Crash \/ Recover
    BY <2>5 DEF Crash, Recover
  <2> QED
    BY <2>1, <2>2, <2>3, <2>4, <2>5 DEF Next
<1> QED
  BY <1>1, <1>2, RunStep, TypeCorrect, PTL DEF Spec, WritesAreJournaled

-----------------------------------------------------------------------------
(* An edit of a side the handler has read is noticed in `raced`, and every *)
(* other edit leaves what the handler knows as it is.                      *)
LEMMA SeenAfterEdit == IInv /\ SeenInv /\ Edit => SeenInv'
<1> SUFFICES ASSUME IInv, SeenInv, NEW n \in Notes,
                    EditFile(n) \/ EditRemoteFields(n) \/ EditRemoteTags(n)
                      \/ TrashRemote(n) \/ RestoreRemote(n) \/ PurgeRemote(n)
             PROVE  SeenInv'
  BY DEF Edit
<1> USE DEF IInv, copies, journal, reads, locals, bounds, ghosts
<1>1. UNCHANGED <<plan, pc, phase, cur, got, text, saved, pending>>
  BY DEF EditFile, EditRemoteFields, EditRemoteTags, TrashRemote, RestoreRemote,
     PurgeRemote, Edited
<1>2. CASE pc \notin HandlerPcs
  BY <1>1, <1>2 DEF SeenInv, FileSeen, RemoteSeen, HandlerPcs
<1>3. CASE pc \in HandlerPcs
  <2>1. cur \in Notes /\ file \in [Notes -> Side] /\ remote \in [Notes -> RemoteNote]
    BY <1>3 DEF ControlInv, TypeOK
  <2>2. "file" \notin raced' => "file" \notin raced /\ file'[cur] = file[cur]
    BY <2>1 DEF EditFile, EditRemoteFields, EditRemoteTags, TrashRemote, RestoreRemote,
       PurgeRemote, Edited
  <2>3. "remote" \notin raced' => "remote" \notin raced /\ remote'[cur] = remote[cur]
    BY <2>1 DEF EditFile, EditRemoteFields, EditRemoteTags, TrashRemote, RestoreRemote,
       PurgeRemote, Edited
  <2>4. "file" \notin raced' => FileSeen'
    BY <1>1, <2>2 DEF SeenInv, FileSeen, o
  <2>5. "remote" \notin raced' => RemoteSeen'
    BY <1>1, <2>3 DEF SeenInv, RemoteSeen, RemoteContent, Live, WrittenSoFar, o
  <2> QED
    BY <2>4, <2>5 DEF SeenInv
<1> QED
  BY <1>2, <1>3

(* The tags read after the note are those of the note, unless it was       *)
(* edited in between.                                                      *)
LEMMA TagsRead ==
    ASSUME TypeOK, SeenInv, cur \in Notes, pc = "tags", "remote" \notin raced
    PROVE  /\ WithTags = got
           /\ RemoteContent(cur) = IF got = None THEN None ELSE got.c
<1>1. RemoteContent(cur) = IF got = None THEN None ELSE got.c
  BY DEF SeenInv, RemoteSeen
<1>2. CASE got = None
  BY <1>1, <1>2 DEF WithTags
<1>3. CASE got # None
  <2>1. got \in Fetched /\ got.c \in Content /\ got.c # None
    BY <1>3, ConstantsAssumption DEF TypeOK, Fetched
  <2>2. remote[cur].c = got.c
    BY <1>1, <1>3, <2>1 DEF RemoteContent
  <2>3. [got.c EXCEPT !.tags = got.c.tags] = got.c
    BY <2>1 DEF Content
  <2>4. [got EXCEPT !.c = got.c] = got
    BY <2>1 DEF Fetched
  <2> QED
    BY <1>1, <1>3, <2>2, <2>3, <2>4 DEF WithTags
<1> QED
  BY <1>2, <1>3

(* What a handler knows after one of its steps.                            *)
LEMMA SeenAfterHandler == IInv /\ SeenInv /\ Handler => SeenInv'
<1> SUFFICES ASSUME IInv, SeenInv, Handler PROVE SeenInv'
  OBVIOUS
<1> USE DEF copies, journal, reads, locals, bounds, ghosts
<1>1. /\ cur \in Notes /\ pc \in HandlerPcs /\ cur' = cur /\ plan' = plan
      /\ file \in [Notes -> Side] /\ remote \in [Notes -> RemoteNote] /\ ControlInv
      /\ plan[cur] \in Op /\ WellPlanned(plan[cur]) /\ text \in Side /\ o' = o
      /\ got \in Fetched \cup {None} /\ None \notin Content
  BY ConstantsAssumption DEF IInv, ControlInv, HandlerPcs, TypeOK, PlanInv, o, Handler,
     GuardLocal, GetNote, GuardRemote, Backup, WriteLocal, Reread, Put, PutAmbiguous, Probe,
     PutTags, PutTag, PutTagAmbiguous, TagsPut, ReadBack,
     Verify, Rename, ConfirmGone, Quarantine, Delete,
     DeleteAmbiguous, VerifyDeleted, Commit, CreateBundle, OpFails
<1>2. CASE pc' \notin {"get", "tags", "backup", "write", "readback", "reread", "put", "put_tags",
                        "tagging", "rename", "delete", "commit"}
  BY <1>2 DEF SeenInv, FileSeen, RemoteSeen
<1>3. CASE GuardLocal /\ pc' # "mark"
  <2>1. "file" \notin raced' => FileSeen'
    BY <1>1, <1>3 DEF GuardLocal, SeenInv, FileSeen, ControlInv, HandlerPcs, Ends
  <2>2. "remote" \notin raced' => RemoteSeen'
    BY <1>1, <1>3 DEF GuardLocal, SeenInv, RemoteSeen, RemoteContent, Live, ControlInv,
       HandlerPcs, Ends
  <2> QED
    BY <2>1, <2>2 DEF SeenInv
<1>4. CASE GetNote /\ pc' # "mark"
  <2>1. "file" \notin raced' => FileSeen'
    BY <1>1, <1>4 DEF GetNote, SeenInv, FileSeen, ControlInv, HandlerPcs, Ends
  <2>2. "remote" \notin raced' => RemoteSeen'
    <3>1. remote[cur] \in RemoteNote /\ remote[cur].c \in Content /\ remote[cur].ver \in Nat
      BY <1>1 DEF RemoteNote
    <3>2. [c |-> remote[cur].c, ver |-> remote[cur].ver] # None
      BY <3>1, ConstantsAssumption
    <3> QED
      BY <1>1, <1>4, <3>1, <3>2 DEF GetNote, RemoteSeen, RemoteContent, Live
  <2> QED
    BY <2>1, <2>2 DEF SeenInv
<1>5. CASE GuardRemote /\ pc' # "mark"
  <2>1. "file" \notin raced' => FileSeen'
    BY <1>1, <1>5 DEF GuardRemote, SeenInv, FileSeen, ControlInv, AfterGuard, GuardedKinds,
       WellPlanned, Ends, o
  <2>2. "remote" \notin raced' => RemoteSeen'
    <3> SUFFICES ASSUME "remote" \notin raced PROVE RemoteSeen'
      BY <1>5 DEF GuardRemote
    <3>1. got' = got /\ RemoteContent(cur) = IF got = None THEN None ELSE got.c
      BY <1>1, <1>5, TagsRead DEF GuardRemote, IInv
    <3>2. RemoteContent(cur)' = RemoteContent(cur)
      BY <1>1, <1>5 DEF GuardRemote, RemoteContent, Live
    <3>3. got # None /\ got.c = o.remote /\ pc' = AfterGuard(o.kind) /\ o.kind \in GuardedKinds
      BY <1>1, <1>5, <3>1 DEF GuardRemote, GuardHolds, ControlInv, WellPlanned,
         GuardedKinds, Ends, o
    <3> QED
      BY <1>1, <3>1, <3>2, <3>3 DEF RemoteSeen, AfterGuard, GuardedKinds
  <2> QED
    BY <2>1, <2>2 DEF SeenInv
<1>6. CASE Backup /\ pc' # "mark"
  <2>1. "file" \notin raced' => FileSeen'
    BY <1>1, <1>6 DEF Backup, SeenInv, FileSeen, ControlInv, HandlerPcs, Ends
  <2>2. "remote" \notin raced' => RemoteSeen'
    BY <1>1, <1>6 DEF Backup, SeenInv, RemoteSeen, RemoteContent, Live, ControlInv,
       HandlerPcs, Ends
  <2> QED
    BY <2>1, <2>2 DEF SeenInv
<1>7. CASE WriteLocal /\ pc' # "mark"
  <2>1. "file" \notin raced' => FileSeen'
    BY <1>1, <1>7 DEF WriteLocal, SeenInv, FileSeen, ControlInv, HandlerPcs, Ends
  <2>2. "remote" \notin raced' => RemoteSeen'
    BY <1>1, <1>7 DEF WriteLocal, SeenInv, RemoteSeen, RemoteContent, Live, ControlInv,
       HandlerPcs, Ends
  <2> QED
    BY <2>1, <2>2 DEF SeenInv
<1>24. CASE ReadBack /\ pc' # "mark"
  <2>1. "file" \notin raced' => FileSeen'
    BY <1>1, <1>24 DEF ReadBack, SeenInv, FileSeen, ControlInv, HandlerPcs, Ends
  <2>2. "remote" \notin raced' => RemoteSeen'
    BY <1>1, <1>24 DEF ReadBack, SeenInv, RemoteSeen, RemoteContent, Live, ControlInv,
       HandlerPcs, Ends
  <2> QED
    BY <2>1, <2>2 DEF SeenInv
<1>8. CASE Reread /\ pc' # "mark"
  <2>1. "file" \notin raced' => FileSeen'
    BY <1>1, <1>8 DEF Reread, SeenInv, FileSeen, ControlInv, HandlerPcs, Ends
  <2>2. "remote" \notin raced' => RemoteSeen'
    <3>1. o.remote \in Content
      BY <1>1, <1>8 DEF Reread, ControlInv, WellPlanned, Op, Side, o
    <3>2. o.fields \subseteq {"tags"} => Overlay(o.remote, text', o.fields \ {"tags"}) = o.remote
      <4>1. o.fields \subseteq {"tags"} => o.fields \ {"tags"} = {}
        OBVIOUS
      <4> QED
        BY <3>1, <4>1, OverlayNothing
    <3> QED
      BY <1>1, <1>8, <3>2 DEF Reread, SeenInv, RemoteSeen, RemoteContent, Live, ControlInv,
         HandlerPcs, Ends
  <2> QED
    BY <2>1, <2>2 DEF SeenInv
<1>9. CASE Put /\ pc' # "mark"
  <2>1. "file" \notin raced' => FileSeen'
    BY <1>1, <1>9 DEF Put, SeenInv, FileSeen, ControlInv, HandlerPcs, Ends
  <2>2. "remote" \notin raced' => RemoteSeen'
    <3> SUFFICES ASSUME "remote" \notin raced, pc' = "put_tags", "tags" \in o.fields
                 PROVE  RemoteContent(cur)' = Overlay(o.remote, text, o.fields \ {"tags"})
      BY <1>1, <1>9 DEF Put, RemoteSeen, Ends
    <3>1. RemoteContent(cur) = o.remote /\ o.remote # None
      BY <1>1, <1>9 DEF Put, SeenInv, RemoteSeen, ControlInv, WellPlanned, o
    <3>2. Live(cur) /\ remote[cur].c = o.remote
      BY <3>1 DEF RemoteContent
    <3>3. remote' = Sent
      BY <1>9 DEF Put, Ends
    <3>4. remote'[cur] = [st |-> remote[cur].st, ver |-> remote[cur].ver + 1,
                          c |-> Overlay(remote[cur].c, text, o.fields \ {"tags"})]
      BY <1>1, <3>3 DEF Sent
    <3> QED
      BY <1>1, <3>2, <3>4 DEF RemoteContent, Live
  <2> QED
    BY <2>1, <2>2 DEF SeenInv
<1>10. CASE PutAmbiguous /\ pc' # "mark"
  <2>1. "file" \notin raced' => FileSeen'
    BY <1>1, <1>10 DEF PutAmbiguous, SeenInv, FileSeen, ControlInv, HandlerPcs, Ends
  <2>2. "remote" \notin raced' => RemoteSeen'
    BY <1>1, <1>10 DEF PutAmbiguous, SeenInv, RemoteSeen, RemoteContent, Live, ControlInv,
       HandlerPcs, Ends
  <2> QED
    BY <2>1, <2>2 DEF SeenInv
<1>11. CASE Probe /\ pc' # "mark"
  <2>1. "file" \notin raced' => FileSeen'
    BY <1>1, <1>11 DEF Probe, SeenInv, FileSeen, ControlInv, HandlerPcs, Ends
  <2>2. "remote" \notin raced' => RemoteSeen'
    <3> SUFFICES ASSUME "remote" \notin raced, pc' = "put_tags", "tags" \in o.fields
                 PROVE  RemoteContent(cur)' = text
      BY <1>1, <1>11 DEF Probe, RemoteSeen, Ends
    <3>1. got' = got /\ RemoteContent(cur) = IF got = None THEN None ELSE got.c
      BY <1>1, <1>11, TagsRead DEF Probe, IInv
    <3>2. RemoteContent(cur)' = RemoteContent(cur)
      BY <1>1, <1>11 DEF Probe, RemoteContent, Live
    <3>3. got # None /\ got.c = IntendedProbe(got)
      BY <3>1, <1>11 DEF Probe, Ends
    <3>4. text \in Content
      BY <1>1, <1>11 DEF Probe, ControlInv, Side
    <3>5. IntendedProbe(got) = text
      BY <3>4 DEF IntendedProbe, Content
    <3> QED
      BY <3>1, <3>2, <3>3, <3>5
  <2> QED
    BY <2>1, <2>2 DEF SeenInv
<1>12. CASE PutTags /\ pc' # "mark"
  <2>1. "file" \notin raced' => FileSeen'
    BY <1>1, <1>12 DEF PutTags, SeenInv, FileSeen, ControlInv, HandlerPcs, Ends
  <2>2. "remote" \notin raced' => RemoteSeen'
    <3> SUFFICES ASSUME "remote" \notin raced, pc' = "tagging", pending' # {}
                 PROVE  Live(cur) /\ WrittenSoFar(cur)
      BY <1>1, <1>12 DEF PutTags, RemoteSeen, Ends, Live, WrittenSoFar, o
    <3>1. /\ pc = "put_tags" /\ "tags" \in o.fields /\ o.kind = "push_update"
          /\ pending' = (text.tags \ remote[cur].c.tags) \cup (remote[cur].c.tags \ text.tags)
          /\ o.remote \in Content /\ text \in Content
      BY <1>1, <1>12 DEF PutTags, Ends, ControlInv, WellPlanned, Side, Op, o
    <3> DEFINE v == Overlay(o.remote, text, o.fields \ {"tags"})
    <3>2. v \in Content /\ v.tags = o.remote.tags
      BY <3>1, OverlayContent, OverlayKeepsTags
    <3>3. RemoteContent(cur) \in {text, v}
      BY <1>1, <3>1 DEF SeenInv, RemoteSeen
    <3>4. Live(cur) /\ remote[cur].c = v
      BY <1>1, <3>1, <3>2, <3>3 DEF RemoteContent
    <3> HIDE DEF v
    <3>5. [v EXCEPT !.tags = o.remote.tags] = v
      BY <3>2 DEF Content
    <3> QED
      BY <1>1, <3>1, <3>2, <3>4, <3>5 DEF WrittenSoFar, v, o
  <2> QED
    BY <2>1, <2>2 DEF SeenInv
<1>13. ASSUME NEW t \in Tags, PutTag(t) \/ PutTagAmbiguous(t), pc' # "mark" PROVE SeenInv'
  <2>1. "file" \notin raced' => FileSeen'
    BY <1>1, <1>13 DEF PutTag, PutTagAmbiguous, SeenInv, FileSeen, ControlInv, HandlerPcs, Ends
  <2>2. "remote" \notin raced' => RemoteSeen'
    <3> SUFFICES ASSUME "remote" \notin raced PROVE (Live(cur) /\ WrittenSoFar(cur))'
      BY <1>1, <1>13 DEF PutTag, PutTagAmbiguous, RemoteSeen, Ends
    <3>1. /\ Live(cur) /\ WrittenSoFar(cur) /\ t \in pending /\ remote' = Toggled(t)
          /\ UNCHANGED <<cur, plan, text>>
      BY <1>13 DEF PutTag, PutTagAmbiguous, Due, SeenInv, RemoteSeen, Ends
    <3>2. /\ remote'[cur].st = remote[cur].st
          /\ remote'[cur].c = [remote[cur].c EXCEPT !.tags = TagsAfter(t)]
          /\ remote[cur].c \in Content
      BY <1>1, <3>1, ToggledTags DEF RemoteNote
    <3>3. /\ [remote'[cur].c EXCEPT !.tags = plan[cur].remote.tags]
                 = [remote[cur].c EXCEPT !.tags = plan[cur].remote.tags]
          /\ remote'[cur].c.tags = TagsAfter(t)
      BY <3>2 DEF Content
    <3> QED
      BY <1>1, <3>1, <3>2, <3>3 DEF WrittenSoFar, Live, TagsAfter
  <2> QED
    BY <2>1, <2>2 DEF SeenInv
<1>25. CASE TagsPut
  <2>1. "file" \notin raced' => FileSeen'
    BY <1>1, <1>25 DEF TagsPut, SeenInv, FileSeen, ControlInv, HandlerPcs, Ends
  <2>2. RemoteSeen'
    BY <1>1, <1>25 DEF TagsPut, RemoteSeen, Ends
  <2> QED
    BY <2>1, <2>2 DEF SeenInv
<1>14. CASE Verify /\ pc' # "mark"
  <2>1. "file" \notin raced' => FileSeen'
    BY <1>1, <1>14 DEF Verify, SeenInv, FileSeen, ControlInv, HandlerPcs, Ends
  <2>2. "remote" \notin raced' => RemoteSeen'
    <3> SUFFICES ASSUME "remote" \notin raced, pc' = "rename"
                 PROVE  RemoteContent(cur)' = got'.c
      BY <1>1, <1>14 DEF Verify, RemoteSeen, Ends
    <3>1. got' = got /\ RemoteContent(cur) = IF got = None THEN None ELSE got.c
      BY <1>1, <1>14, TagsRead DEF Verify, IInv
    <3>2. RemoteContent(cur)' = RemoteContent(cur)
      BY <1>1, <1>14 DEF Verify, RemoteContent, Live
    <3>3. got # None
      BY <3>1, <1>14 DEF Verify, Verifies, Ends
    <3> QED
      BY <3>1, <3>2, <3>3
  <2> QED
    BY <2>1, <2>2 DEF SeenInv
<1>15. CASE Rename /\ pc' # "mark"
  <2>1. "file" \notin raced' => FileSeen'
    BY <1>1, <1>15 DEF Rename, SeenInv, FileSeen, ControlInv, HandlerPcs, Ends
  <2>2. "remote" \notin raced' => RemoteSeen'
    BY <1>1, <1>15 DEF Rename, SeenInv, RemoteSeen, RemoteContent, Live, ControlInv,
       HandlerPcs, Ends
  <2> QED
    BY <2>1, <2>2 DEF SeenInv
<1>16. CASE ConfirmGone
  BY <1>2, <1>16 DEF ConfirmGone, Ends
<1>17. CASE Quarantine /\ pc' # "mark"
  <2>1. "file" \notin raced' => FileSeen'
    BY <1>1, <1>17 DEF Quarantine, SeenInv, FileSeen, ControlInv, HandlerPcs, Ends
  <2>2. "remote" \notin raced' => RemoteSeen'
    BY <1>1, <1>17 DEF Quarantine, RemoteSeen, ControlInv, GuardedKinds, Ends
  <2> QED
    BY <2>1, <2>2 DEF SeenInv
<1>18. CASE Delete
  BY <1>2, <1>18 DEF Delete, Ends
<1>19. CASE DeleteAmbiguous
  BY <1>2, <1>19 DEF DeleteAmbiguous, Ends
<1>20. CASE VerifyDeleted /\ pc' # "mark"
  <2>1. "file" \notin raced' => FileSeen'
    BY <1>1, <1>20 DEF VerifyDeleted, SeenInv, FileSeen, ControlInv, HandlerPcs, Ends
  <2>2. "remote" \notin raced' => RemoteSeen'
    BY <1>1, <1>20 DEF VerifyDeleted, SeenInv, RemoteSeen, RemoteContent, Live, ControlInv,
       HandlerPcs, Ends
  <2> QED
    BY <2>1, <2>2 DEF SeenInv
<1>21. CASE Commit
  BY <1>2, <1>21 DEF Commit, Ends
<1>22. CASE CreateBundle
  BY <1>2, <1>22 DEF CreateBundle, Ends
<1>23. CASE OpFails
  BY <1>2, <1>23 DEF OpFails, Ends
<1> QED
  BY <1>2, <1>3, <1>4, <1>5, <1>6, <1>7, <1>8, <1>9, <1>10, <1>11, <1>12, <1>13, <1>14,
     <1>15, <1>16, <1>17, <1>18, <1>19, <1>20, <1>21, <1>22, <1>23, <1>24, <1>25 DEF Handler

(* The other steps: an operation starts with nothing read, and no handler  *)
(* knows anything while none is running.                                   *)
LEMMA SeenStep == IInv /\ SeenInv /\ [Next]_vars => SeenInv'
<1> SUFFICES ASSUME IInv, SeenInv, [Next]_vars PROVE SeenInv'
  OBVIOUS
<1> USE DEF copies, journal, reads, locals, bounds, ghosts
<1>1. CASE Edit \/ Handler
  BY <1>1, SeenAfterEdit, SeenAfterHandler
<1>2. CASE UNCHANGED vars
  BY <1>2 DEF vars, SeenInv, FileSeen, RemoteSeen, RemoteContent, Live, WrittenSoFar, o
<1>3. ASSUME NEW n \in Notes, StartOp(n) PROVE SeenInv'
  <2>1. plan[n] \in Op /\ plan[n].kind # "none" /\ plan[n].kind \in Kinds
    BY <1>3 DEF StartOp, IInv, PlanInv, TypeOK, Op
  <2>2. o' = plan[n] /\ phase' = "guard" /\ pc' = FirstStep(plan[n].kind)
    BY <1>3 DEF StartOp, o
  <2>3. \/ pc' \in {"guard_local", "bundle"}
        \/ pc' = "get" /\ plan[n].kind = "push_delete"
        \/ pc' = "commit" /\ plan[n].kind = "drop_base"
    BY <2>1, <2>2 DEF FirstStep, Kinds
  <2> QED
    BY <2>2, <2>3 DEF SeenInv, FileSeen, RemoteSeen, GuardedKinds
<1>4. CASE Mark \/ FinishFile \/ FinishRun \/ Crash \/ Recover
  BY <1>4 DEF Mark, FinishFile, FinishRun, Crash, Recover, SeenInv, FileSeen, RemoteSeen
<1>5. CASE Prepare
  BY <1>5 DEF Prepare, Begin, ReadTagMap, ListNotes, FetchBody, MakePlan, RecordRun,
     Abandon, PreparePcs, SeenInv, FileSeen, RemoteSeen
<1> QED
  BY <1>1, <1>2, <1>3, <1>4, <1>5 DEF Next, Execute

LEMMA SeenInvariance == Spec => []SeenInv
<1>1. Init => SeenInv
  BY DEF Init, SeenInv, FileSeen, RemoteSeen
<1> QED
  BY <1>1, SeenStep, Invariance, PTL DEF Spec

-----------------------------------------------------------------------------
(* A base row is committed only for what both sides held when they were    *)
(* last read, whatever the users and the network did meanwhile (SYN-006).  *)
THEOREM CommitsAreObserved == Spec => CommitMatchesBothSides
<1>1. ASSUME IInv, SeenInv, [Next]_vars, NEW n \in Notes, base'[n] # base[n], base'[n] # None
      PROVE  /\ (Live(n) /\ remote[n].c = base'[n].c) \/ "remote" \in raced
             /\ file[n] = base'[n].c \/ "file" \in raced
  <2> USE DEF copies, journal, reads, locals, bounds, ghosts
  <2>1. Commit
    BY <1>1 DEF Next, vars, Edit, EditFile, EditRemoteFields, EditRemoteTags, TrashRemote,
       RestoreRemote, PurgeRemote, Edited, Prepare, Begin, ReadTagMap, ListNotes, FetchBody,
       MakePlan, RecordRun, Abandon, Execute, StartOp, Handler, GuardLocal, GetNote, GuardRemote,
       Backup, WriteLocal, Reread, Put, PutAmbiguous, Probe, PutTags, PutTag, PutTagAmbiguous, TagsPut, ReadBack,
     Verify,
       Rename, ConfirmGone, Quarantine, Delete, DeleteAmbiguous, VerifyDeleted, CreateBundle,
       OpFails, Mark, FinishFile, FinishRun, Crash, Recover
  <2>2. n = cur /\ pc = "commit" /\ base'[n] = NewBase /\ WellPlanned(o) /\ ControlInv
    BY <1>1, <2>1 DEF Commit, IInv, TypeOK, ControlInv, HandlerPcs, PlanInv, o
  <2>3. o.kind \in GuardedKinds \ {"push_delete"} /\ got # None
    BY <1>1, <2>2 DEF ControlInv, NewBase, GuardedKinds
  <2>4. NewBase.c = got.c
    BY <2>2, <2>3 DEF NewBase, ControlInv, GuardedKinds, WellPlanned
  <2>5. got.c # None
    BY <1>1, <2>3, ConstantsAssumption DEF IInv, TypeOK, Fetched
  <2>6. "remote" \notin raced => Live(n) /\ remote[n].c = NewBase.c
    BY <1>1, <2>2, <2>3, <2>4, <2>5 DEF SeenInv, RemoteSeen, RemoteContent
  <2>7. "file" \notin raced => file[n] = NewBase.c
    BY <1>1, <2>2, <2>3, <2>4 DEF SeenInv, FileSeen, GuardedKinds, ControlInv, WellPlanned
  <2> QED
    BY <2>2, <2>6, <2>7
<1>2. IInv /\ SeenInv /\ [Next]_vars =>
          \A n \in Notes : base'[n] # base[n] /\ base'[n] # None =>
             /\ (Live(n) /\ remote[n].c = base'[n].c) \/ "remote" \in raced
             /\ file[n] = base'[n].c \/ "file" \in raced
  BY <1>1
<1> QED
  BY <1>2, Invariance, SeenInvariance, PTL DEF Spec, CommitMatchesBothSides

(* What each step does to the copies, when it is not an edit. *)
LEMMA WhoWrites ==
    ASSUME IInv, [Next]_vars, edits' = edits
    PROVE  /\ file' = file \/ WriteLocal \/ Rename \/ Quarantine
           /\ \/ remote' = remote
              \/ Put \/ PutAmbiguous \/ Delete \/ DeleteAmbiguous
              \/ \E t \in Tags : PutTag(t) \/ PutTagAmbiguous(t)
<1> USE DEF copies, journal, reads, locals, bounds, ghosts
<1>1. CASE Edit
  <2>1. edits' = edits + 1 /\ edits \in Nat
    BY <1>1 DEF Edit, EditFile, EditRemoteFields, EditRemoteTags, TrashRemote,
       RestoreRemote, PurgeRemote, Edited, IInv, TypeOK
  <2> QED
    BY <2>1
<1>2. CASE Prepare \/ UNCHANGED vars
  BY <1>2 DEF vars, Prepare, Begin, ReadTagMap, ListNotes, FetchBody, MakePlan, RecordRun,
     Abandon
<1>3. CASE Execute
  BY <1>3 DEF Execute, StartOp, Mark, FinishFile, FinishRun, Handler, GuardLocal, GetNote,
     GuardRemote, Backup, WriteLocal, Reread, Put, PutAmbiguous, Probe, PutTags, PutTag, PutTagAmbiguous, TagsPut, ReadBack,
     Verify, Rename, ConfirmGone, Quarantine, Delete, DeleteAmbiguous, VerifyDeleted, Commit,
     CreateBundle, OpFails
<1>4. CASE Crash \/ Recover
  BY <1>4 DEF Crash, Recover
<1> QED
  BY <1>1, <1>2, <1>3, <1>4 DEF Next

(* The command replaces a copy only over content it has backed up, pushed  *)
(* or compared with the plan, unless that side was edited since it was     *)
(* last read (SYN-006).                                                    *)
THEOREM OverwritesAreSeen == Spec => OverwritesOnlyWhatWasSeen
<1> DEFINE FileKept(n) == file'[n] # file[n] /\ file[n] # None =>
                            file[n] = saved' \/ file[n] = text \/ "file" \in raced
           RemoteKept(n) == remote'[n] # remote[n] =>
              \/ Live(n) /\ remote[n].c = plan[n].remote
              \/ Live(n) /\ WrittenSoFar(n)
              \/ "remote" \in raced
<1> USE DEF copies, journal, reads, locals, bounds, ghosts
<1>1. ASSUME IInv, SeenInv, [Next]_vars, edits' = edits, NEW n \in Notes PROVE FileKept(n)
  <2>1. CASE WriteLocal
    <3>1. cur \in Notes /\ file \in [Notes -> Side] /\ saved' = saved /\ pc = "write"
      BY <1>1, <2>1 DEF WriteLocal, IInv, TypeOK, ControlInv, HandlerPcs
    <3> QED
      BY <1>1, <2>1, <3>1 DEF WriteLocal, SeenInv, FileSeen
  <2>2. CASE Rename
    <3>1. cur \in Notes /\ file \in [Notes -> Side] /\ pc = "rename"
      BY <1>1, <2>2 DEF Rename, IInv, TypeOK, ControlInv, HandlerPcs
    <3> QED
      BY <1>1, <2>2, <3>1 DEF Rename, SeenInv, FileSeen
  <2>3. CASE Quarantine
    BY <1>1, <2>3 DEF Quarantine, IInv, TypeOK, ControlInv, HandlerPcs
  <2> QED
    BY <1>1, <2>1, <2>2, <2>3, WhoWrites
<1>2. ASSUME IInv, SeenInv, [Next]_vars, edits' = edits, NEW n \in Notes PROVE RemoteKept(n)
  <2> SUFFICES ASSUME remote'[n] # remote[n], "remote" \notin raced
               PROVE  /\ Live(n)
                      /\ remote[n].c = plan[n].remote \/ WrittenSoFar(n)
    OBVIOUS
  <2>1. remote \in [Notes -> RemoteNote] /\ (pc \in HandlerPcs => cur \in Notes /\ WellPlanned(o))
    BY <1>2 DEF IInv, TypeOK, ControlInv, PlanInv, o
  <2>2. CASE Put \/ PutAmbiguous \/ Delete \/ DeleteAmbiguous
    <3>1. n = cur /\ pc \in {"put", "delete"}
      BY <2>1, <2>2 DEF Put, PutAmbiguous, Delete, DeleteAmbiguous, Sent, Trashed,
         HandlerPcs
    <3>2. RemoteContent(cur) = o.remote /\ o.remote # None
      BY <1>2, <2>1, <3>1 DEF SeenInv, RemoteSeen, IInv, ControlInv, WellPlanned, HandlerPcs
    <3> QED
      BY <3>1, <3>2 DEF RemoteContent, o
  <2>3. ASSUME NEW t \in Tags, PutTag(t) \/ PutTagAmbiguous(t)
        PROVE  Live(n) /\ WrittenSoFar(n)
    <3>1. n = cur /\ pc = "tagging" /\ pending # {}
      BY <2>1, <2>3 DEF PutTag, PutTagAmbiguous, Toggled, Due, HandlerPcs
    <3> QED
      BY <1>2, <3>1 DEF SeenInv, RemoteSeen
  <2> QED
    BY <1>2, <2>2, <2>3, WhoWrites
<1>3. IInv /\ SeenInv /\ [Next]_vars => (edits' = edits => \A n \in Notes :
        /\ file'[n] # file[n] /\ file[n] # None =>
              file[n] = saved' \/ file[n] = text \/ "file" \in raced
        /\ remote'[n] # remote[n] =>
              \/ Live(n) /\ remote[n].c = plan[n].remote
              \/ Live(n) /\ WrittenSoFar(n)
              \/ "remote" \in raced)
  BY <1>1, <1>2
<1> QED
  BY <1>3, Invariance, SeenInvariance, PTL DEF Spec, OverwritesOnlyWhatWasSeen

----------------------------------------------------------------------------
(***************************************************************************)
(* What a run of the engine amounts to, for any number of notes, edits and *)
(* faults. First: what the journal says of a run is true, whether the      *)
(* executor settled it or, after a crash, recover. recover has only the    *)
(* state database to go by: the proof is that the base row and the bundle  *)
(* of a note tell whether its operation committed, since nothing is        *)
(* planned that would leave them as they were.                             *)
(***************************************************************************)

(* An operation is planned only when its post-state differs from the base. *)
ChangesBase(op) ==
    /\ op.kind \in {"pull_create", "pull_update"} => op.base # op.remote
    /\ op.kind \in {"push_update", "rebase", "adopt"} => op.base # op.local
    /\ op.kind \in {"pull_delete", "push_delete", "drop_base"} => op.base # None

(* A push of a file edited after planning commits what recover cannot know.*)
PushedLaterEdit(n) == plan[n].kind = "push_update" /\ BaseContent(n) # plan[n].local

(* An operation not yet settled ... *)
Pending(n) ==
    /\ ChangesBase(plan[n])
    /\ plan[n].kind # "none"
    /\ ~committed[n] => BaseContent(n) = plan[n].base /\ (bundle[n] # None <=> plan[n].open)
    /\ committed[n] => /\ pc = "idle" \/ (pc = "mark" /\ cur = n)
                       /\ WasApplied(n) \/ PushedLaterEdit(n)

(* ... and one that is. *)
Settled(n) ==
    /\ jstat[n] = "applied" =>
          committed[n] \/ (plan[n].kind = "create_conflict" /\ plan[n].open)
    /\ jstat[n] \in {"skipped", "failed"} => ~committed[n] \/ PushedLaterEdit(n)

NotesInv == \A n \in Notes : IF jstat[n] = "planned" THEN Pending(n) ELSE Settled(n)

(* Where the handler is tells whether the operation has committed. *)
HandlerInv ==
    /\ pc \in PreparePcs => \A n \in Notes : jstat[n] = "none" /\ ~committed[n]
    /\ pc \in HandlerPcs \cup {"mark"} => jstat[cur] = "planned"
    /\ pc = "mark" => result # "none" /\ (committed[cur] <=> result = "applied")
    /\ pc \in {"backup", "write", "readback", "commit"}
         /\ o.kind \in {"pull_create", "pull_update"} => got.c = o.remote
    /\ pc = "bundle" => o.kind = "create_conflict"

JournalInv == NotesInv /\ HandlerInv

-----------------------------------------------------------------------------
(* build_plan plans nothing that would leave the base row as it is. *)
LEMMA PlanChangesBase ==
    ASSUME NEW b \in Side, NEW l \in Side, NEW r \in Side, NEW open \in BOOLEAN,
           NEW dir \in Directions, NEW prop \in BOOLEAN
    PROVE  ChangesBase(PlanOp(b, l, r, open, dir, prop))
<1> DEFINE status == Classify(b, l, r)
           kind == KindFor(status, b, open, dir, prop)
<1>1. PullKind(status, prop) \in {"none", "pull_update", "pull_create", "pull_delete"}
  BY DEF PullKind
<1>2. PushKind(status, prop) \in {"none", "push_update", "push_delete"}
  BY DEF PushKind
<1>3. BaseKind(status, b, open) \in {"none", "adopt", "rebase", "drop_base", "create_conflict"}
  BY DEF BaseKind
<1>4. kind \in {PullKind(status, prop), PushKind(status, prop), BaseKind(status, b, open)}
  BY DEF KindFor
<1>5. kind \in {"pull_create", "pull_update"} => b # r
  <2>1. PullKind(status, prop) \in {"pull_create", "pull_update"}
          => status \in {"remote_modified", "moved_remote", "remote_new"}
    BY DEF PullKind
  <2>2. status \in {"remote_modified", "moved_remote", "remote_new"} => b # r
    BY DEF Classify, ClassifyPresent, LocalStatus, RemoteStatus
  <2> QED
    BY <1>2, <1>3, <1>4, <2>1, <2>2
<1>6. kind \in {"push_update", "rebase", "adopt"} => b # l
  <2>1. PushKind(status, prop) = "push_update"
          => status \in {"local_modified", "metadata_modified", "moved_local"}
    BY DEF PushKind
  <2>2. BaseKind(status, b, open) \in {"rebase", "adopt"} => status = "both_identical"
    BY DEF BaseKind
  <2>3. status \in {"local_modified", "metadata_modified", "moved_local", "both_identical"}
          => b # l
    BY DEF Classify, ClassifyPresent, LocalStatus, RemoteStatus
  <2> QED
    BY <1>1, <1>2, <1>3, <1>4, <2>1, <2>2, <2>3
<1>7. kind \in {"pull_delete", "push_delete", "drop_base"} => b # None
  <2>1. PullKind(status, prop) = "pull_delete" => status = "remote_deleted"
    BY DEF PullKind
  <2>2. PushKind(status, prop) = "push_delete" => status = "local_deleted"
    BY DEF PushKind
  <2>3. BaseKind(status, b, open) = "drop_base" => status = "both_deleted"
    BY DEF BaseKind
  <2>4. status \in {"remote_deleted", "local_deleted", "both_deleted"} => b # None
    BY DEF Classify, ClassifyPresent, LocalStatus, RemoteStatus
  <2> QED
    BY <1>1, <1>2, <1>3, <1>4, <2>1, <2>2, <2>3, <2>4
<1> QED
  BY <1>5, <1>6, <1>7 DEF PlanOp, ChangesBase

(* The witness of recover: an operation that has not committed does not    *)
(* look applied, except a bundle that was open before.                     *)
LEMMA UncommittedIsNotApplied ==
    ASSUME TypeOK, NEW n \in Notes, Pending(n), ~committed[n]
    PROVE  WasApplied(n) => plan[n].kind = "create_conflict" /\ plan[n].open
<1>1. plan[n].kind \in Kinds
  BY DEF TypeOK, Op
<1>2. base[n] = None => BaseContent(n) = None
  BY DEF BaseContent
<1> QED
  BY <1>1, <1>2 DEF Pending, ChangesBase, WasApplied, Kinds

(* A step that touches neither the journal nor what it is about. *)
LEMMA Unrecorded ==
    ASSUME NotesInv, UNCHANGED <<plan, jstat, base, bundle, committed>>,
           \A n \in Notes : jstat[n] = "planned" /\ committed[n] =>
               pc' = "idle" \/ (pc' = "mark" /\ cur' = n)
    PROVE  NotesInv'
<1> SUFFICES ASSUME NEW n \in Notes
             PROVE  IF jstat'[n] = "planned" THEN Pending(n)' ELSE Settled(n)'
  BY DEF NotesInv
<1>1. BaseContent(n)' = BaseContent(n)
  BY DEF BaseContent
<1>2. WasApplied(n)' = WasApplied(n)
  BY <1>1 DEF WasApplied
<1>3. CASE jstat[n] = "planned"
  BY <1>1, <1>2, <1>3 DEF NotesInv, Pending, PushedLaterEdit
<1>4. CASE jstat[n] # "planned"
  BY <1>1, <1>4 DEF NotesInv, Settled, PushedLaterEdit
<1> QED
  BY <1>3, <1>4

(* The editors, and the steps before the plan. *)
LEMMA JournalAfterOthers ==
    ASSUME IInv, JournalInv, Edit \/ Prepare \/ Crash \/ UNCHANGED vars
    PROVE  JournalInv'
<1> USE DEF copies, journal, reads, locals, bounds, ghosts
<1>1. CASE Edit \/ UNCHANGED vars
  <2>1. UNCHANGED <<plan, jstat, base, bundle, committed, pc, cur, result, got>>
    BY <1>1 DEF Edit, EditFile, EditRemoteFields, EditRemoteTags, TrashRemote, RestoreRemote,
       PurgeRemote, Edited, vars
  <2>2. NotesInv'
    BY <2>1, Unrecorded DEF JournalInv, NotesInv, Pending
  <2>3. HandlerInv'
    BY <2>1 DEF JournalInv, HandlerInv, o
  <2> QED
    BY <2>2, <2>3 DEF JournalInv
<1>2. CASE Begin
  BY <1>2 DEF Begin, JournalInv, NotesInv, Settled, HandlerInv, HandlerPcs
<1>3. CASE MakePlan
  <2>1. \A n \in Notes : BaseContent(n) \in Side /\ scan[n] \in Side /\ snap[n] \in Side
    BY DEF IInv, TypeOK, BaseContent, Side, Fetched
  <2>2. PICK dir \in Directions, prop \in BOOLEAN :
          plan' = [n \in Notes |->
            PlanOp(BaseContent(n), scan[n], snap[n], bundle[n] # None, dir, prop)]
    BY <1>3 DEF MakePlan
  <2>3. /\ jstat' = [n \in Notes |-> IF plan'[n].kind = "none" THEN "none" ELSE "planned"]
        /\ UNCHANGED <<base, bundle, committed>> /\ pc = "bodies" /\ pc' = "record"
    BY <1>3 DEF MakePlan
  <2>4. ASSUME NEW n \in Notes
        PROVE  IF jstat'[n] = "planned" THEN Pending(n)' ELSE Settled(n)'
    <3>1. ChangesBase(plan'[n])
      BY <2>1, <2>2, PlanChangesBase
    <3>2. plan'[n].base = BaseContent(n) /\ plan'[n].open = (bundle[n] # None)
      BY <2>2 DEF PlanOp
    <3>3. BaseContent(n)' = BaseContent(n)
      BY <2>3 DEF BaseContent
    <3>4. ~committed[n]
      BY <2>3 DEF JournalInv, HandlerInv, PreparePcs
    <3> QED
      BY <2>3, <3>1, <3>2, <3>3, <3>4 DEF Pending, Settled
  <2>5. HandlerInv'
    BY <2>3 DEF HandlerInv, HandlerPcs, PreparePcs
  <2> QED
    BY <2>4, <2>5 DEF JournalInv, NotesInv
<1>4. CASE Prepare /\ ~Begin /\ ~MakePlan
  <2>1. /\ UNCHANGED <<plan, jstat, base, bundle, committed>>
        /\ pc \in PreparePcs \cup {"record"}
        /\ pc' \in PreparePcs => pc \in PreparePcs
        /\ pc' \in PreparePcs \cup {"exec", "idle"}
    BY <1>4 DEF Prepare, ReadTagMap, ListNotes, FetchBody, RecordRun, Abandon, PreparePcs
  <2>2. NotesInv'
    BY <2>1, Unrecorded DEF JournalInv, NotesInv, Pending, PreparePcs
  <2>3. HandlerInv'
    BY <2>1 DEF JournalInv, HandlerInv, HandlerPcs, PreparePcs
  <2> QED
    BY <2>2, <2>3 DEF JournalInv
<1>5. CASE Crash
  <2>1. UNCHANGED <<plan, jstat, base, bundle, committed>> /\ pc' = "idle"
    BY <1>5 DEF Crash
  <2>2. NotesInv'
    BY <2>1, Unrecorded DEF JournalInv
  <2>3. HandlerInv'
    BY <2>1 DEF HandlerInv, HandlerPcs, PreparePcs
  <2> QED
    BY <2>2, <2>3 DEF JournalInv
<1> QED
  BY <1>1, <1>2, <1>3, <1>4, <1>5

(* The steps of a handler before its last write commit nothing. *)
LEMMA JournalInHandler ==
    ASSUME IInv, JournalInv, Handler, ~Commit, ~CreateBundle
    PROVE  JournalInv'
<1> USE DEF copies, journal, reads, locals, bounds, ghosts
<1>1. /\ UNCHANGED <<plan, jstat, base, bundle, committed, cur>>
      /\ pc \in HandlerPcs /\ pc' \in (HandlerPcs \ {"bundle"}) \cup {"mark"}
      /\ pc' = "mark" => result' \in {"skipped", "failed", "concurrent"}
  <2>1. CASE GuardRemote
    <3>1. pc = "tags" /\ phase = "guard" /\ o.kind \in GuardedKinds
      BY <2>1 DEF GuardRemote, IInv, ControlInv, GuardedKinds
    <3> QED
      BY <2>1, <3>1 DEF GuardRemote, Ends, HandlerPcs, AfterGuard, GuardedKinds
  <2> QED
    BY <2>1 DEF Handler, GuardLocal, GetNote, Backup, WriteLocal, Reread, Put, PutAmbiguous,
       Probe, PutTags, PutTag, PutTagAmbiguous, TagsPut, ReadBack,
     Verify, Rename, ConfirmGone, Quarantine, Delete,
       DeleteAmbiguous, VerifyDeleted, OpFails, Ends, HandlerPcs
<1>2. cur \in Notes /\ jstat[cur] = "planned" /\ ~committed[cur]
  BY <1>1 DEF IInv, ControlInv, JournalInv, HandlerInv, NotesInv, Pending, HandlerPcs
<1>3. NotesInv'
  BY <1>1, <1>2, Unrecorded DEF JournalInv, NotesInv, Pending, HandlerPcs
<1>4. pc' \in {"backup", "write", "readback", "commit"} /\ o.kind \in {"pull_create", "pull_update"}
        => got'.c = o.remote
  <2> SUFFICES ASSUME pc' \in {"backup", "write", "readback", "commit"},
                      o.kind \in {"pull_create", "pull_update"}
               PROVE  got'.c = o.remote
    OBVIOUS
  <2>1. CASE GuardRemote
    BY <2>1, <1>2 DEF GuardRemote, GuardHolds, Ends, IInv, PlanInv, WellPlanned, o
  <2>2. CASE Backup \/ WriteLocal \/ ReadBack
    BY <2>2 DEF Backup, WriteLocal, ReadBack, JournalInv, HandlerInv
  <2>3. CASE Rename \/ Quarantine \/ VerifyDeleted
    BY <2>3 DEF Rename, Quarantine, VerifyDeleted, IInv, ControlInv
  <2> QED
    BY <2>1, <2>2, <2>3 DEF Handler, GuardLocal, GetNote, Reread, Put, PutAmbiguous,
       Probe, PutTags, PutTag, PutTagAmbiguous, TagsPut, ReadBack,
     Verify, ConfirmGone, Delete, DeleteAmbiguous, OpFails, Ends
<1>5. HandlerInv'
  BY <1>1, <1>2, <1>4 DEF HandlerInv, HandlerPcs, PreparePcs, o
<1> QED
  BY <1>3, <1>5 DEF JournalInv

(* The last write of a handler makes the operation look applied. *)
LEMMA JournalAtCommit ==
    ASSUME IInv, JournalInv, Commit \/ CreateBundle
    PROVE  JournalInv'
<1> USE DEF copies, journal, reads, locals, bounds, ghosts
<1>1. /\ UNCHANGED <<plan, jstat, cur>>
      /\ pc \in {"commit", "bundle"} /\ pc' = "mark" /\ result' = "applied"
      /\ committed' = [committed EXCEPT ![cur] = TRUE]
  BY DEF Commit, CreateBundle, Ends
<1>2. /\ cur \in Notes /\ jstat[cur] = "planned" /\ ~committed[cur] /\ Pending(cur)
      /\ committed \in [Notes -> BOOLEAN] /\ base \in [Notes -> Fetched \cup {None}]
      /\ bundle \in [Notes -> [base : Side, local : Side, remote : Side] \cup {None}]
      /\ got \in Fetched \cup {None} /\ plan[cur] \in Op
  BY <1>1 DEF IInv, ControlInv, JournalInv, HandlerInv, NotesInv, Pending, HandlerPcs, TypeOK
<1>3. ASSUME NEW n \in Notes, n # cur
      PROVE  IF jstat'[n] = "planned" THEN Pending(n)' ELSE Settled(n)'
  <2>1. base'[n] = base[n] /\ bundle'[n] = bundle[n] /\ committed'[n] = committed[n]
    BY <1>1, <1>2, <1>3 DEF Commit, CreateBundle
  <2>2. BaseContent(n)' = BaseContent(n)
    BY <2>1 DEF BaseContent
  <2>3. WasApplied(n)' = WasApplied(n)
    BY <1>1, <2>1, <2>2 DEF WasApplied
  <2> QED
    BY <1>1, <1>3, <2>1, <2>2, <2>3 DEF JournalInv, NotesInv, Pending, Settled, PushedLaterEdit
<1>4. WasApplied(cur)' \/ PushedLaterEdit(cur)'
  <2>1. CASE Commit
    <3>1. base'[cur] = NewBase /\ o = plan[cur] /\ plan' = plan /\ cur' = cur /\ pc = "commit"
      BY <1>1, <1>2, <2>1 DEF Commit, o
    <3>2. CASE o.kind \in {"pull_create", "pull_update"}
      <4>1. got # None /\ got.c = o.remote
        BY <3>1, <3>2 DEF IInv, ControlInv, GuardedKinds, JournalInv, HandlerInv
      <4> QED
        BY <3>1, <3>2, <4>1 DEF NewBase, WasApplied, BaseContent
    <3>3. CASE o.kind \in {"rebase", "adopt"}
      <4>1. o.local \in Content /\ got.ver \in Nat
        BY <1>2, <3>1, <3>3 DEF IInv, PlanInv, WellPlanned, ControlInv, GuardedKinds, Op, Side,
           Fetched
      <4>2. base'[cur].c = o.local /\ base'[cur] # None
        BY <3>1, <3>3, <4>1, ConstantsAssumption DEF NewBase
      <4> QED
        BY <3>1, <3>3, <4>2 DEF WasApplied, BaseContent
    <3>4. CASE o.kind = "push_update"
      BY <3>1, <3>4 DEF WasApplied, PushedLaterEdit
    <3>5. CASE o.kind \in {"pull_delete", "push_delete", "drop_base"}
      BY <3>1, <3>5 DEF NewBase, WasApplied
    <3> QED
      BY <3>1, <3>2, <3>3, <3>4, <3>5 DEF IInv, ControlInv, GuardedKinds
  <2>2. CASE CreateBundle
    <3>1. o.kind = "create_conflict" /\ plan[cur] = o /\ plan' = plan /\ cur' = cur
      BY <1>1, <2>2 DEF CreateBundle, JournalInv, HandlerInv, o
    <3>2. bundle'[cur] # None
      <4>1. [base |-> o.base, local |-> o.local, remote |-> o.remote] # None
        BY <1>2, <3>1, ConstantsAssumption DEF Op, Side
      <4> QED
        BY <1>2, <2>2, <4>1 DEF CreateBundle
    <3> QED
      BY <3>1, <3>2 DEF WasApplied
  <2> QED
    BY <2>1, <2>2
<1>5. Pending(cur)'
  BY <1>1, <1>2, <1>4 DEF Pending
<1>6. HandlerInv'
  BY <1>1, <1>2 DEF HandlerInv, HandlerPcs, PreparePcs
<1> QED
  BY <1>1, <1>2, <1>3, <1>5, <1>6 DEF JournalInv, NotesInv

(* An operation starts, and its outcome is flushed. *)
LEMMA JournalInLoop ==
    ASSUME IInv, JournalInv, Execute, ~Handler
    PROVE  JournalInv'
<1> USE DEF copies, journal, reads, locals, bounds, ghosts
<1>1. ASSUME NEW n \in Notes, StartOp(n) PROVE JournalInv'
  <2>1. /\ UNCHANGED <<plan, jstat, base, bundle, committed>>
        /\ pc = "exec" /\ cur' = n /\ jstat[n] = "planned" /\ pc' = FirstStep(plan[n].kind)
    BY <1>1 DEF StartOp
  <2>2. plan[n].kind \in Kinds \ {"none"}
    BY <2>1 DEF IInv, PlanInv, TypeOK, Op
  <2>3. /\ pc' \in {"guard_local", "get", "commit", "bundle"}
        /\ pc' = "commit" => plan[n].kind = "drop_base"
        /\ pc' = "bundle" => plan[n].kind = "create_conflict"
    BY <2>1, <2>2 DEF FirstStep, Kinds
  <2>4. NotesInv'
    BY <2>1, Unrecorded DEF JournalInv, NotesInv, Pending
  <2>5. HandlerInv'
    BY <2>1, <2>3 DEF HandlerInv, PreparePcs, o
  <2> QED
    BY <2>4, <2>5 DEF JournalInv
<1>2. CASE Mark
  <2>1. /\ cur \in Notes /\ jstat[cur] = "planned" /\ Pending(cur)
        /\ result # "none" /\ (committed[cur] <=> result = "applied")
        /\ jstat \in [Notes -> {"none", "planned", "applied", "skipped", "failed"}]
        /\ result \in {"none", "applied", "skipped", "failed", "concurrent"}
    BY <1>2 DEF Mark, IInv, ControlInv, TypeOK, JournalInv, HandlerInv, NotesInv
  <2>2. /\ jstat' = [jstat EXCEPT ![cur] = MarkedStatus] /\ pc = "mark" /\ pc' = "exec"
        /\ UNCHANGED <<plan, base, bundle, committed>>
    BY <1>2 DEF Mark
  <2>3. ASSUME NEW n \in Notes
        PROVE  IF jstat'[n] = "planned" THEN Pending(n)' ELSE Settled(n)'
    <3>1. BaseContent(n)' = BaseContent(n)
      BY <2>2 DEF BaseContent
    <3>2. CASE n = cur
      <4>1. jstat'[n] = MarkedStatus /\ jstat'[n] \in {"applied", "skipped", "failed"}
            /\ (jstat'[n] = "applied" <=> committed[n])
        BY <2>1, <2>2, <3>2 DEF MarkedStatus
      <4> QED
        BY <2>2, <4>1 DEF Settled
    <3>3. CASE n # cur
      <4>1. jstat'[n] = jstat[n]
        BY <2>1, <2>2, <3>3
      <4>2. WasApplied(n)' = WasApplied(n)
        BY <2>2, <3>1 DEF WasApplied
      <4> QED
        BY <2>2, <3>1, <3>3, <4>1, <4>2
           DEF JournalInv, NotesInv, Pending, Settled, PushedLaterEdit
    <3> QED
      BY <3>2, <3>3
  <2>4. HandlerInv'
    BY <2>2 DEF HandlerInv, HandlerPcs, PreparePcs
  <2> QED
    BY <2>3, <2>4 DEF JournalInv, NotesInv
<1>3. CASE FinishFile \/ FinishRun
  <2>1. /\ UNCHANGED <<plan, jstat, base, bundle, committed>>
        /\ pc \in {"exec", "finish"} /\ pc' \in {"finish", "idle"}
    BY <1>3 DEF FinishFile, FinishRun
  <2>2. NotesInv'
    BY <2>1, Unrecorded DEF JournalInv, NotesInv, Pending
  <2>3. HandlerInv'
    BY <2>1 DEF HandlerInv, HandlerPcs, PreparePcs
  <2> QED
    BY <2>2, <2>3 DEF JournalInv
<1> QED
  BY <1>1, <1>2, <1>3 DEF Execute

(* recover settles an operation by what it finds in the state database. *)
LEMMA JournalAfterRecover ==
    ASSUME IInv, JournalInv, Recover
    PROVE  JournalInv'
<1> USE DEF copies, journal, reads, locals, bounds, ghosts
<1>1. /\ pc = "idle" /\ pc' = "idle" /\ UNCHANGED <<plan, base, bundle, committed>>
      /\ jstat' = [n \in Notes |-> IF jstat[n] # "planned" THEN jstat[n]
                                   ELSE IF WasApplied(n) THEN "applied" ELSE "skipped"]
  BY DEF Recover
<1>2. ASSUME NEW n \in Notes
      PROVE  jstat'[n] # "planned" /\ Settled(n)'
  <2>1. BaseContent(n)' = BaseContent(n)
    BY <1>1 DEF BaseContent
  <2>2. CASE jstat[n] # "planned"
    BY <1>1, <2>1, <2>2 DEF JournalInv, NotesInv, Settled, PushedLaterEdit
  <2>3. CASE jstat[n] = "planned"
    <3>1. Pending(n) /\ (WasApplied(n) /\ ~committed[n]
                          => plan[n].kind = "create_conflict" /\ plan[n].open)
      BY <2>3, UncommittedIsNotApplied DEF IInv, JournalInv, NotesInv
    <3>2. jstat'[n] = IF WasApplied(n) THEN "applied" ELSE "skipped"
      BY <1>1, <2>3
    <3> QED
      BY <1>1, <2>1, <3>1, <3>2 DEF Pending, Settled, PushedLaterEdit
  <2> QED
    BY <2>2, <2>3
<1>3. HandlerInv'
  BY <1>1 DEF HandlerInv, HandlerPcs, PreparePcs
<1> QED
  BY <1>2, <1>3 DEF JournalInv, NotesInv

-----------------------------------------------------------------------------
LEMMA JournalInvariance == Spec => []JournalInv
<1>1. Init => JournalInv
  BY DEF Init, JournalInv, NotesInv, Settled, HandlerInv, HandlerPcs, PreparePcs
<1>2. IInv /\ JournalInv /\ [Next]_vars => JournalInv'
  <2> SUFFICES ASSUME IInv, JournalInv, [Next]_vars PROVE JournalInv'
    OBVIOUS
  <2>1. CASE Edit \/ Prepare \/ Crash \/ UNCHANGED vars
    BY <2>1, JournalAfterOthers
  <2>2. CASE Handler
    BY <2>2, JournalInHandler, JournalAtCommit
  <2>3. CASE Execute /\ ~Handler
    BY <2>3, JournalInLoop
  <2>4. CASE Recover
    BY <2>4, JournalAfterRecover
  <2> QED
    BY <2>1, <2>2, <2>3, <2>4 DEF Next, Execute
<1> QED
  BY <1>1, <1>2, Invariance, PTL DEF Spec

(* Of the operations on existing notes, the journal of a run claims only   *)
(* what was committed and disclaims only what was not, in every state:     *)
(* while the run goes on, after it, after a crash, and when recover has    *)
(* settled what the crash left.                                            *)
THEOREM JournalIsTrue == Spec => []JournalTellsTruth
<1>1. JournalInv => JournalTellsTruth
  BY DEF JournalInv, NotesInv, Settled, PushedLaterEdit, JournalTellsTruth
<1> QED
  BY JournalInvariance, <1>1, PTL

----------------------------------------------------------------------------
(***************************************************************************)
(* Second: a note nobody interferes with comes out of a run as if the run  *)
(* were one atomic step from the copies it was planned from: the snapshot  *)
(* made of a list, a tag map and single bodies is the note as it is, every *)
(* guard passes, and the writes of the handler add up to the effect that   *)
(* the planner counts on.                                                  *)
(***************************************************************************)

(* What the effect of an operation rests on, beyond WellPlanned. *)
Effective(op) ==
    /\ op.kind = "push_update" =>
          /\ op.local \in Content
          /\ op.remote \in Content
          /\ Overlay(op.remote, op.local, op.fields) = op.local
    /\ op.kind = "pull_delete" => op.local # None /\ op.remote = None

AsPlanned(n) == Copy(n) = Planned(n)
Done(n) == Copy(n) = Effect(plan[n], Planned(n))

(* The snapshot under construction. *)
SnapshotInv ==
    pc \in PreparePcs => \A n \in quiet :
        /\ scan[n] = file[n]
        /\ pc = "tag_map" => tagmap[n] = remote[n].c.tags \ pending
        /\ pc = "bodies" => tagmap[n] = remote[n].c.tags
        /\ pc = "bodies" => IF listed[n] = None THEN snap[n] = RemoteContent(n)
                            ELSE Live(n) /\ listed[n] = remote[n].c.title

Executing == pc \in HandlerPcs \cup {"mark"}

(* The notes whose handler is not running. *)
OpsInv ==
    /\ pc \in {"record", "exec", "finish"} \/ Executing => \A n \in quiet :
        /\ Effective(plan[n])
        /\ jstat[n] = "none" => plan[n].kind = "none" /\ AsPlanned(n)
        /\ jstat[n] = "planned" /\ ~(Executing /\ n = cur) => AsPlanned(n)
        /\ jstat[n] \in {"applied", "skipped", "failed"} => Done(n)
    /\ pc = "finish" => AllSettled

(* The file and the remote note while the handler runs. *)
FileNow ==
    IF pc \in {"readback", "commit"} /\ o.kind \in {"pull_create", "pull_update"} THEN o.remote
    ELSE IF pc = "commit" /\ o.kind = "pull_delete" THEN None
    ELSE o.local

Pushed ==
    \/ pc \in {"get", "tags"} /\ phase = "verify"
    \/ pc = "rename"
    \/ pc \in {"readback", "commit"} /\ o.kind = "push_update"

(* A tag that is still pending is as it was, another one as it is to be. *)
HalfTagged ==
    [Overlay(o.remote, o.local, o.fields \ {"tags"}) EXCEPT !.tags =
        (o.local.tags \ pending) \cup (pending \ o.local.tags)]

RemoteNow ==
    IF pc = "put_tags" THEN Overlay(o.remote, o.local, o.fields \ {"tags"})
    ELSE IF pc = "tagging" THEN HalfTagged
    ELSE IF Pushed THEN o.local
    ELSE IF pc = "deleted" \/ (pc = "commit" /\ o.kind = "push_delete") THEN None
    ELSE o.remote

RunningInv ==
    /\ Executing /\ cur \in quiet => raced = {} /\ phase # "probe"
    /\ pc \in HandlerPcs /\ cur \in quiet =>
        /\ BaseContent(cur) = o.base
        /\ bundle[cur] # None <=> o.open
        /\ file[cur] = FileNow
        /\ RemoteContent(cur) = RemoteNow
    /\ pc = "mark" /\ cur \in quiet => result = "applied" /\ Done(cur)

QuietInv == SnapshotInv /\ OpsInv /\ RunningInv

-----------------------------------------------------------------------------
(* build_plan plans a push with the fields that turn the base, which is    *)
(* the remote note, into the file; and the removal of a file that exists.  *)
LEMMA PlanEffective ==
    ASSUME NEW b \in Side, NEW l \in Side, NEW r \in Side, NEW open \in BOOLEAN,
           NEW dir \in Directions, NEW prop \in BOOLEAN
    PROVE  Effective(PlanOp(b, l, r, open, dir, prop))
<1> DEFINE status == Classify(b, l, r)
           kind == KindFor(status, b, open, dir, prop)
           op == PlanOp(b, l, r, open, dir, prop)
<1>1. PullKind(status, prop) \in {"none", "pull_update", "pull_create", "pull_delete"}
  BY DEF PullKind
<1>2. PushKind(status, prop) \in {"none", "push_update", "push_delete"}
  BY DEF PushKind
<1>3. BaseKind(status, b, open) \in {"none", "adopt", "rebase", "drop_base", "create_conflict"}
  BY DEF BaseKind
<1>4. kind \in {PullKind(status, prop), PushKind(status, prop), BaseKind(status, b, open)}
  BY DEF KindFor
<1>5. CASE kind = "push_update"
  <2>1. PushKind(status, prop) = "push_update"
    BY <1>1, <1>3, <1>4, <1>5
  <2>2. status \in {"local_modified", "metadata_modified", "moved_local"}
    BY <2>1 DEF PushKind
  <2>3. b # None /\ l # None /\ r = b
    BY <2>2 DEF Classify, ClassifyPresent, LocalStatus, RemoteStatus
  <2>4. l \in Content /\ r \in Content /\ op.fields = Changed(l, r)
    BY <2>3 DEF Side, PlanOp
  <2>5. Overlay(r, l, Changed(l, r)) = l
    <3>1. \A k \in Components : (IF k \in Changed(l, r) THEN l[k] ELSE r[k]) = l[k]
      BY DEF Changed
    <3>2. Overlay(r, l, Changed(l, r)) = [k \in Components |-> l[k]]
      BY <3>1 DEF Overlay
    <3>3. l = [title |-> l.title, body |-> l.body, tags |-> l.tags]
      BY <2>4 DEF Content
    <3>4. [k \in {"title", "body", "tags"} |-> l[k]]
            = [title |-> l.title, body |-> l.body, tags |-> l.tags]
      OBVIOUS
    <3> QED
      BY <3>2, <3>3, <3>4, ConstantsAssumption
  <2> QED
    BY <1>5, <2>4, <2>5 DEF Effective, PlanOp
<1>6. CASE kind = "pull_delete"
  <2>1. PullKind(status, prop) = "pull_delete"
    BY <1>2, <1>3, <1>4, <1>6
  <2>2. status = "remote_deleted"
    BY <2>1 DEF PullKind
  <2>3. l # None /\ r = None
    BY <2>2 DEF Classify, ClassifyPresent, LocalStatus, RemoteStatus
  <2> QED
    BY <1>6, <2>3 DEF Effective, PlanOp
<1>7. CASE kind \notin {"push_update", "pull_delete"}
  BY <1>7 DEF Effective, PlanOp
<1> QED
  BY <1>5, <1>6, <1>7

-----------------------------------------------------------------------------
(* An edit takes its note out of the quiet ones and changes no other.      *)
LEMMA QuietAfterEdit ==
    ASSUME IInv, QuietInv, Edit
    PROVE  QuietInv'
<1> USE DEF copies, journal, reads, locals, bounds, ghosts
<1>1. PICK m \in Notes :
        EditFile(m) \/ EditRemoteFields(m) \/ EditRemoteTags(m)
          \/ TrashRemote(m) \/ RestoreRemote(m) \/ PurgeRemote(m)
  BY DEF Edit
<1>2. /\ UNCHANGED <<base, bundle, plan, jstat, pc, phase, cur, result, scan, tagmap, pending,
                      listed, snap>>
      /\ quiet' = quiet \ {m} /\ raced' = IF m = cur THEN raced' ELSE raced
      /\ m # cur => raced' = raced
  BY <1>1 DEF EditFile, EditRemoteFields, EditRemoteTags, TrashRemote, RestoreRemote,
     PurgeRemote, Edited
<1>3. \A n \in quiet' : /\ n \in quiet /\ n \in Notes /\ n # m
                        /\ file'[n] = file[n] /\ remote'[n] = remote[n]
  BY <1>1, <1>2 DEF EditFile, EditRemoteFields, EditRemoteTags, TrashRemote, RestoreRemote,
     PurgeRemote, Edited, IInv, TypeOK
<1>4. \A n \in quiet' : /\ Live(n)' = Live(n) /\ RemoteContent(n)' = RemoteContent(n)
                        /\ BaseContent(n)' = BaseContent(n)
                        /\ Copy(n)' = Copy(n) /\ Planned(n)' = Planned(n)
  BY <1>2, <1>3 DEF Live, RemoteContent, BaseContent, Copy, Planned
<1>5. SnapshotInv'
  BY <1>2, <1>3, <1>4 DEF QuietInv, SnapshotInv
<1>6. OpsInv'
  BY <1>2, <1>3, <1>4 DEF QuietInv, OpsInv, Executing, AsPlanned, Done, AllSettled
<1>7. RunningInv'
  BY <1>2, <1>3, <1>4 DEF QuietInv, RunningInv, Executing, Done, FileNow, RemoteNow, HalfTagged,
     Pushed, o
<1> QED
  BY <1>5, <1>6, <1>7 DEF QuietInv

(* The snapshot of a quiet note is the note: where the list and the base   *)
(* row have the same version, because the base row never lies.             *)
LEMMA QuietInSnapshot ==
    ASSUME IInv, QuietInv, Prepare, ~MakePlan, ~RecordRun
    PROVE  QuietInv'
<1> USE DEF copies, journal, reads, locals, bounds, ghosts
<1>0. /\ quiet \subseteq Notes /\ remote \in [Notes -> RemoteNote] /\ quiet' \subseteq Notes
      /\ pc \in PreparePcs \/ Begin
  BY DEF IInv, TypeOK, Prepare, Begin, ReadTagMap, ListNotes, FetchBody, Abandon, PreparePcs
<1>1. pc' \in PreparePcs \cup {"idle"} /\ UNCHANGED <<remote, file, base>>
  BY DEF Prepare, Begin, ReadTagMap, ListNotes, FetchBody, Abandon, PreparePcs
<1>2. OpsInv' /\ RunningInv'
  BY <1>1 DEF OpsInv, RunningInv, Executing, HandlerPcs, PreparePcs
<1>3. ASSUME Begin PROVE SnapshotInv'
  <2>1. ASSUME NEW n \in Notes PROVE {} = remote[n].c.tags \ Tags
    BY <1>0, <2>1, RemoteTyped DEF TagSets
  <2> QED
    BY <1>0, <1>3, <2>1 DEF Begin, SnapshotInv, RemoteContent, Live
<1>4. ASSUME NEW t \in Tags, ReadTagMap(t) PROVE SnapshotInv'
  <2>1. ASSUME NEW n \in quiet
        PROVE  scan'[n] = file'[n] /\ tagmap'[n] = remote'[n].c.tags \ pending'
    BY <1>0, <1>4, <2>1 DEF ReadTagMap, QuietInv, SnapshotInv, PreparePcs
  <2> QED
    BY <1>4, <2>1 DEF ReadTagMap, SnapshotInv
<1>5. ASSUME ListNotes PROVE SnapshotInv'
  <2>1. ASSUME NEW n \in quiet, Live(n), SameVersion(n)
        PROVE  [title |-> remote[n].c.title, body |-> base[n].c.body, tags |-> SnapshotTags(n)]
                 = remote[n].c
    <3>1. base[n].c.body = remote[n].c.body
      BY <1>0, <2>1 DEF IInv, VersionTruth, NotAfter, SameVersion
    <3>2. tagmap[n] = remote[n].c.tags
      BY <1>5 DEF ListNotes, QuietInv, SnapshotInv, PreparePcs
    <3>3. remote[n].c \in Content
      BY <1>0 DEF RemoteNote
    <3> QED
      BY <3>1, <3>2, <3>3 DEF Content, SnapshotTags
  <2>2. ASSUME NEW n \in quiet
        PROVE  /\ scan[n] = file[n] /\ tagmap[n] = remote[n].c.tags
               /\ IF listed'[n] = None THEN snap'[n] = RemoteContent(n)
                  ELSE Live(n) /\ listed'[n] = remote[n].c.title
    <3>1. n \in Notes /\ remote[n].c.title \in Titles /\ remote[n].c.title # None
      BY <1>0, ConstantsAssumption DEF RemoteNote, Content
    <3> QED
      BY <1>5, <2>1, <3>1 DEF ListNotes, RemoteContent, QuietInv, SnapshotInv, PreparePcs
  <2> QED
    <3>1. UNCHANGED <<remote, file, scan, tagmap, quiet>> /\ pc' = "bodies"
      BY <1>5 DEF ListNotes
    <3>2. \A n \in quiet : RemoteContent(n)' = RemoteContent(n) /\ Live(n)' = Live(n)
      BY <3>1 DEF RemoteContent, Live
    <3> QED
      BY <2>2, <3>1, <3>2 DEF SnapshotInv
<1>6. ASSUME NEW m \in Notes, FetchBody(m) PROVE SnapshotInv'
  <2>1. ASSUME NEW n \in quiet
        PROVE  /\ scan[n] = file[n] /\ tagmap[n] = remote[n].c.tags
               /\ IF listed'[n] = None THEN snap'[n] = RemoteContent(n)
                  ELSE Live(n) /\ listed'[n] = remote[n].c.title
    <3>0. /\ n \in Notes /\ snap \in [Notes -> Side] /\ listed \in [Notes -> Titles \cup {None}]
          /\ scan[n] = file[n] /\ tagmap[n] = remote[n].c.tags
          /\ IF listed[n] = None THEN snap[n] = RemoteContent(n)
             ELSE Live(n) /\ listed[n] = remote[n].c.title
      BY <1>0, <1>6 DEF FetchBody, QuietInv, SnapshotInv, PreparePcs, IInv, TypeOK
    <3>1. CASE n = m
      <4>1. remote[n].c \in Content
        BY <1>0 DEF RemoteNote
      <4>2. [title |-> listed[n], body |-> remote[n].c.body, tags |-> SnapshotTags(n)]
              = remote[n].c
        BY <1>6, <3>0, <3>1, <4>1 DEF FetchBody, Content, SnapshotTags
      <4> QED
        BY <1>6, <3>0, <3>1, <4>2 DEF FetchBody, RemoteContent
    <3>2. CASE n # m
      BY <1>6, <3>0, <3>2 DEF FetchBody
    <3> QED
      BY <3>1, <3>2
  <2> QED
    BY <1>0, <1>6, <2>1 DEF FetchBody, SnapshotInv, RemoteContent, Live
<1>7. ASSUME Abandon PROVE SnapshotInv'
  BY <1>7 DEF Abandon, SnapshotInv, PreparePcs
<1>8. SnapshotInv'
  BY <1>3, <1>4, <1>5, <1>6, <1>7 DEF Prepare
<1> QED
  BY <1>2, <1>8 DEF QuietInv

(* The plan is made from the copies a quiet note has.                      *)
LEMMA QuietAtPlan ==
    ASSUME IInv, JournalInv, QuietInv, MakePlan \/ RecordRun
    PROVE  QuietInv'
<1> USE DEF copies, journal, reads, locals, bounds, ghosts
<1>0. quiet \subseteq Notes /\ UNCHANGED <<remote, file, base, bundle, quiet>>
  BY DEF IInv, TypeOK, MakePlan, RecordRun
<1>1. CASE MakePlan
  <2>1. \A n \in Notes : BaseContent(n) \in Side /\ scan[n] \in Side /\ snap[n] \in Side
    BY DEF IInv, TypeOK, BaseContent, Side, Fetched
  <2>2. PICK dir \in Directions, prop \in BOOLEAN :
          plan' = [n \in Notes |->
            PlanOp(BaseContent(n), scan[n], snap[n], bundle[n] # None, dir, prop)]
    BY <1>1 DEF MakePlan
  <2>3. /\ jstat' = [n \in Notes |-> IF plan'[n].kind = "none" THEN "none" ELSE "planned"]
        /\ pc = "bodies" /\ pc' = "record" /\ \A n \in Notes : listed[n] = None
    BY <1>1 DEF MakePlan
  <2>4. ASSUME NEW n \in quiet
        PROVE  Effective(plan'[n]) /\ Copy(n)' = Planned(n)'
               /\ (jstat'[n] = "none" => plan'[n].kind = "none")
               /\ jstat'[n] \in {"none", "planned"}
    <3>1. n \in Notes /\ scan[n] = file[n] /\ snap[n] = RemoteContent(n)
      BY <1>0, <2>3 DEF QuietInv, SnapshotInv, PreparePcs
    <3>2. Effective(plan'[n])
      BY <2>1, <2>2, <3>1, PlanEffective
    <3>3. /\ plan'[n].base = BaseContent(n) /\ plan'[n].local = file[n]
          /\ plan'[n].remote = RemoteContent(n) /\ plan'[n].open = (bundle[n] # None)
      BY <2>2, <3>1 DEF PlanOp
    <3>4. Copy(n)' = Planned(n)'
      BY <1>0, <3>3 DEF Copy, Planned, BaseContent, RemoteContent, Live
    <3> QED
      BY <2>3, <3>1, <3>2, <3>4
  <2>5. OpsInv'
    BY <1>0, <2>3, <2>4 DEF OpsInv, AsPlanned
  <2> QED
    BY <2>3, <2>5 DEF QuietInv, SnapshotInv, RunningInv, Executing, HandlerPcs, PreparePcs
<1>2. CASE RecordRun
  <2>1. UNCHANGED <<plan, jstat>> /\ pc = "record" /\ pc' = "exec"
    BY <1>2 DEF RecordRun
  <2>2. \A n \in quiet : Copy(n)' = Copy(n) /\ Planned(n)' = Planned(n)
    BY <1>0, <2>1 DEF Copy, Planned, BaseContent, RemoteContent, Live
  <2>3. OpsInv'
    BY <1>0, <2>1, <2>2 DEF QuietInv, OpsInv, Executing, HandlerPcs, AsPlanned, Done
  <2> QED
    BY <2>1, <2>3 DEF QuietInv, SnapshotInv, RunningInv, Executing, HandlerPcs, PreparePcs
<1> QED
  BY <1>1, <1>2

-----------------------------------------------------------------------------
(* What holds while the handler of a quiet note runs. *)
Calm ==
    /\ cur \in Notes /\ cur \in quiet /\ raced = {} /\ phase \in {"guard", "verify"}
    /\ jstat[cur] = "planned" /\ o.kind \in Kinds \ {"none"}
    /\ WellPlanned(o) /\ Effective(o) /\ ControlInv /\ FileSeen /\ RemoteSeen
    /\ o.local \in Side /\ o.remote \in Side /\ o.fields \subseteq Components
    /\ BaseContent(cur) = o.base
    /\ bundle[cur] # None <=> o.open
    /\ file[cur] = FileNow
    /\ RemoteContent(cur) = RemoteNow
    /\ file \in [Notes -> Side]
    /\ remote \in [Notes -> RemoteNote]
    /\ base \in [Notes -> Fetched \cup {None}]
    /\ bundle \in [Notes -> [base : Side, local : Side, remote : Side] \cup {None}]
    /\ got \in Fetched \cup {None}

LEMMA QuietIsCalm ==
    ASSUME IInv, JournalInv, SeenInv, QuietInv, pc \in HandlerPcs, cur \in quiet
    PROVE  Calm
<1>1. cur \in Notes /\ jstat[cur] = "planned" /\ plan[cur] \in Op
      /\ phase \in {"guard", "probe", "verify"}
  BY DEF IInv, ControlInv, TypeOK, JournalInv, HandlerInv
<1>2. o.kind \in Kinds \ {"none"} /\ WellPlanned(o)
      /\ o.local \in Side /\ o.remote \in Side /\ o.fields \subseteq Components
  BY <1>1 DEF IInv, PlanInv, Op, o
<1>3. Effective(o) /\ raced = {} /\ phase # "probe"
  BY <1>1 DEF QuietInv, OpsInv, RunningInv, Executing, o
<1>4. FileSeen /\ RemoteSeen
  BY <1>3 DEF SeenInv
<1> QED
  BY <1>1, <1>2, <1>3, <1>4 DEF Calm, IInv, TypeOK, QuietInv, RunningInv

(* The note and the tags that a handler has read are the note.             *)
LEMMA CalmRead ==
    ASSUME TypeOK, SeenInv, Calm, pc = "tags"
    PROVE  /\ WithTags = got
           /\ RemoteNow = IF got = None THEN None ELSE got.c
BY TagsRead DEF Calm

(* The steps of a handler lead a quiet note on, and never to a failure.    *)
LEMMA QuietInHandler ==
    ASSUME IInv, JournalInv, SeenInv, Calm, Handler, ~Commit, ~CreateBundle, cur \in quiet'
    PROVE  /\ pc' \in HandlerPcs /\ raced' = {} /\ phase' # "probe"
           /\ file'[cur] = FileNow'
           /\ RemoteContent(cur)' = RemoteNow'
<1> USE DEF copies, journal, reads, locals, bounds, ghosts
<1>0. /\ cur' = cur /\ plan' = plan /\ o' = o /\ None \notin Content /\ TypeOK
      /\ raced' \subseteq raced
  BY ConstantsAssumption DEF IInv, o, Handler, GuardLocal, GetNote, GuardRemote, Backup,
     WriteLocal, Reread, Put, PutAmbiguous, Probe, PutTags, PutTag, PutTagAmbiguous, TagsPut, ReadBack,
     Verify, Rename,
     ConfirmGone, Quarantine, Delete, DeleteAmbiguous, VerifyDeleted, Commit, CreateBundle, OpFails
<1>1. raced' = {}
  BY <1>0 DEF Calm
<1> DEFINE Goal == /\ pc' \in HandlerPcs /\ phase' # "probe"
                   /\ file'[cur] = FileNow'
                   /\ RemoteContent(cur)' = RemoteNow'
<1> USE DEF HandlerPcs, FileNow, RemoteNow, Pushed, Ends
<1>2. ASSUME GuardLocal PROVE Goal
  BY <1>0, <1>2 DEF GuardLocal, Calm, ControlInv, GuardedKinds, RemoteContent, Live
<1>3. ASSUME GetNote PROVE Goal
  BY <1>0, <1>3 DEF GetNote, Calm, ControlInv, RemoteContent, Live
<1>4. ASSUME GuardRemote PROVE Goal
  <2>1. /\ got' = got /\ o.remote = (IF got = None THEN None ELSE got.c) /\ phase = "guard"
        /\ o.kind \in GuardedKinds
    BY <1>0, <1>4, CalmRead DEF GuardRemote, Calm, ControlInv
  <2>2. GuardHolds(got') /\ pc' = AfterGuard(o.kind)
    BY <2>1, <1>0, <1>4 DEF GuardRemote, GuardHolds
  <2> QED
    BY <2>1, <2>2, <1>0, <1>4 DEF GuardRemote, AfterGuard, GuardedKinds, Calm, RemoteContent, Live
<1>5. ASSUME Backup PROVE Goal
  BY <1>0, <1>5 DEF Backup, Calm, ControlInv, RemoteContent, Live
<1>6. ASSUME WriteLocal PROVE Goal
  BY <1>0, <1>6 DEF WriteLocal, Calm, ControlInv, RemoteSeen, RemoteContent, Live
<1>18. ASSUME ReadBack PROVE Goal
  BY <1>0, <1>18 DEF ReadBack, Calm, ControlInv, FileSeen, RemoteContent, Live
<1>7. ASSUME Reread PROVE Goal
  <2>1. /\ file[cur] = o.local /\ o.local # None /\ RemoteContent(cur) = o.remote
        /\ o.remote \in Content /\ UNCHANGED <<remote, file, phase>>
        /\ pc' = IF o.fields \subseteq {"tags"} THEN "put_tags" ELSE "put"
    BY <1>0, <1>7 DEF Reread, Calm, ControlInv, WellPlanned, Effective
  <2>2. o.fields \subseteq {"tags"} => Overlay(o.remote, o.local, o.fields \ {"tags"}) = o.remote
    <3>1. o.fields \subseteq {"tags"} => o.fields \ {"tags"} = {}
      OBVIOUS
    <3> QED
      BY <2>1, <3>1, OverlayNothing
  <2> QED
    BY <1>0, <2>1, <2>2 DEF Calm, RemoteContent, Live
<1>8. ASSUME Put PROVE Goal
  BY <1>0, <1>8 DEF Put, Calm, ControlInv, Effective, FileSeen, Sent, RemoteContent, Live
<1>9. ASSUME PutAmbiguous \/ (\E t \in Tags : PutTagAmbiguous(t)) \/ DeleteAmbiguous \/ OpFails
      PROVE  Goal
  BY <1>9 DEF PutAmbiguous, PutTagAmbiguous, DeleteAmbiguous, OpFails, IInv, TypeOK
<1>10. ASSUME Probe PROVE Goal
  BY <1>10 DEF Probe, Calm
<1>11. ASSUME PutTags PROVE Goal
  <2> DEFINE v == Overlay(o.remote, o.local, o.fields \ {"tags"})
  <2>1. /\ o.local \in Content /\ o.remote \in Content /\ text = o.local /\ file[cur] = o.local
        /\ Overlay(o.remote, o.local, o.fields) = o.local /\ RemoteContent(cur) = v
    BY <1>0, <1>11 DEF PutTags, Calm, ControlInv, Effective, FileSeen
  <2>2. Live(cur) /\ remote[cur].c = v
    BY <1>0, <2>1, OverlayContent DEF RemoteContent
  <2>3. CASE "tags" \notin o.fields
    <3>1. o.fields \ {"tags"} = o.fields
      BY <2>3
    <3>2. v = o.local
      BY <2>1, <3>1
    <3> QED
      BY <1>0, <1>11, <2>1, <2>2, <2>3, <3>2 DEF PutTags, RemoteContent, Live
  <2>4. CASE "tags" \in o.fields
    <3>1. /\ pc' = "tagging" /\ UNCHANGED <<phase, file, remote>>
          /\ pending' = (o.local.tags \ v.tags) \cup (v.tags \ o.local.tags)
      BY <1>11, <2>1, <2>2, <2>4 DEF PutTags, Live
    <3>2. v \in Content
      BY <2>1, OverlayContent
    <3> HIDE DEF v
    <3>3. (o.local.tags \ pending') \cup (pending' \ o.local.tags) = v.tags
      BY <3>1
    <3>4. [v EXCEPT !.tags = v.tags] = v
      BY <3>2 DEF Content
    <3>5. HalfTagged' = v
      BY <1>0, <3>3, <3>4 DEF HalfTagged, v
    <3> QED
      BY <1>0, <2>1, <2>2, <3>1, <3>5 DEF Calm, RemoteContent, Live
  <2> QED
    BY <2>3, <2>4
<1>19. ASSUME NEW t \in Tags, PutTag(t) PROVE Goal
  <2> DEFINE v == Overlay(o.remote, o.local, o.fields \ {"tags"})
  <2>1. /\ o.local \in Content /\ o.remote \in Content /\ text = o.local /\ file[cur] = o.local
        /\ RemoteContent(cur) = HalfTagged
    BY <1>0, <1>19 DEF PutTag, Calm, ControlInv, Effective, FileSeen
  <2>2. v \in Content /\ pending \subseteq Tags /\ o.local.tags \subseteq Tags
    BY <1>0, <2>1, OverlayContent DEF TypeOK, TagSets, Content
  <2> HIDE DEF v
  <2> DEFINE Half(P) == (o.local.tags \ P) \cup (P \ o.local.tags)
  <2>3. HalfTagged \in Content /\ HalfTagged.tags = Half(pending)
    BY <2>2 DEF HalfTagged, v, Content, TagSets
  <2>4. Live(cur) /\ remote[cur].c = HalfTagged
    BY <1>0, <2>1, <2>3 DEF RemoteContent
  <2>5. /\ t \in pending /\ pending' = pending \ {t} /\ UNCHANGED <<phase, file, pc>>
        /\ remote' = Toggled(t) /\ pc = "tagging"
    BY <1>19, <2>4 DEF PutTag, Due, Live
  <2>6. TagsAfter(t) = Half(pending')
    BY <2>1, <2>3, <2>4, <2>5 DEF TagsAfter
  <2>7. remote'[cur].st = "live" /\ remote'[cur].c = [HalfTagged EXCEPT !.tags = Half(pending')]
    <3>1. remote' = [remote EXCEPT ![cur].c.tags = TagsAfter(t)]
      BY <2>5, ToggledTags DEF Calm
    <3>2. remote'[cur].st = remote[cur].st /\ remote'[cur].c = [remote[cur].c EXCEPT !.tags = TagsAfter(t)]
      BY <3>1 DEF Calm, RemoteNote
    <3> QED
      BY <2>4, <2>6, <3>2 DEF Live
  <2>8. [HalfTagged EXCEPT !.tags = Half(pending')] = HalfTagged'
    BY <1>0, <2>2 DEF HalfTagged, v, Content
  <2> QED
    BY <1>0, <2>1, <2>5, <2>7, <2>8 DEF Calm, RemoteContent, Live
<1>20. ASSUME TagsPut PROVE Goal
  <2>1. /\ o.local \in Content /\ o.remote \in Content /\ file[cur] = o.local
        /\ Overlay(o.remote, o.local, o.fields) = o.local /\ "tags" \in o.fields
        /\ RemoteContent(cur) = HalfTagged
    BY <1>0, <1>20 DEF TagsPut, Calm, ControlInv, Effective
  <2>2. (o.local.tags \ pending) \cup (pending \ o.local.tags) = o.local.tags
    BY <1>20 DEF TagsPut
  <2>3. HalfTagged = o.local
    <3>1. [Overlay(o.remote, o.local, o.fields \ {"tags"}) EXCEPT !.tags = o.local.tags] = o.local
      BY <2>1, OverlayThenTags
    <3> QED
      BY <2>2, <3>1 DEF HalfTagged
  <2> QED
    BY <1>0, <1>20, <2>1, <2>3 DEF TagsPut, Calm, RemoteContent, Live
<1>12. ASSUME Verify PROVE Goal
  <2>1. /\ got' = got /\ o.local = (IF got = None THEN None ELSE got.c) /\ text = o.local
        /\ o.kind = "push_update"
    BY <1>0, <1>12, CalmRead DEF Verify, Calm, ControlInv, FileSeen
  <2> QED
    BY <2>1, <1>0, <1>12 DEF Verify, Verifies, Calm, Effective, RemoteContent, Live
<1>13. ASSUME Rename PROVE Goal
  BY <1>0, <1>13 DEF Rename, Calm, ControlInv, FileSeen, RemoteContent, Live
<1>14. ASSUME ConfirmGone PROVE Goal
  BY <1>0, <1>14 DEF ConfirmGone, Calm, ControlInv, Effective, RemoteContent, Live, RemoteNote
<1>15. ASSUME Quarantine PROVE Goal
  BY <1>0, <1>15 DEF Quarantine, Calm, ControlInv, Effective, RemoteContent, Live
<1>16. ASSUME Delete PROVE Goal
  <2>1. o.kind = "push_delete" /\ RemoteContent(cur) = o.remote /\ o.remote # None
    BY <1>0, <1>16 DEF Delete, Calm, ControlInv, WellPlanned
  <2>2. remote' = [remote EXCEPT ![cur].st = "trash"] /\ pc' = "deleted"
        /\ UNCHANGED <<file, phase>>
    BY <1>16, <2>1 DEF Delete, Trashed, RemoteContent, Live
  <2>3. ~Live(cur)' /\ file[cur] = o.local
    BY <1>0, <1>16, <2>2 DEF Delete, Calm, Live
  <2> QED
    BY <1>0, <2>2, <2>3 DEF RemoteContent, Calm
<1>17. ASSUME VerifyDeleted PROVE Goal
  BY <1>0, <1>17 DEF VerifyDeleted, Calm, ControlInv, RemoteContent, Live, RemoteNote
<1> QED
  BY <1>1, <1>2, <1>3, <1>4, <1>5, <1>6, <1>7, <1>8, <1>9, <1>10, <1>11, <1>12, <1>13, <1>14,
     <1>15, <1>16, <1>17, <1>18, <1>19, <1>20 DEF Handler

(* The last write of the handler completes the effect of the operation.    *)
LEMMA QuietAtCommit ==
    ASSUME IInv, Calm, Commit
    PROVE  Done(cur)'
<1> USE DEF copies, journal, reads, locals, bounds, ghosts
<1>1. /\ cur' = cur /\ plan' = plan /\ o = plan[cur] /\ pc = "commit"
      /\ UNCHANGED <<remote, file, bundle>> /\ base'[cur] = NewBase
  BY DEF Commit, Calm, o
<1> DEFINE p == [base |-> o.base, file |-> o.local, remote |-> o.remote, open |-> o.open]
           Outcome(b, f, r) == [base |-> b, file |-> f, remote |-> r, open |-> o.open]
<1>2. Planned(cur)' = p
  BY <1>1 DEF Planned
<1>3. ASSUME Copy(cur)' = Effect(o, p) PROVE Done(cur)'
  BY <1>1, <1>2, <1>3 DEF Done
<1>4. Copy(cur)' = Outcome(IF NewBase = None THEN None ELSE NewBase.c, file[cur],
                         RemoteContent(cur))
  <2>1. BaseContent(cur)' = (IF NewBase = None THEN None ELSE NewBase.c)
    BY <1>1 DEF BaseContent
  <2>2. RemoteContent(cur)' = RemoteContent(cur) /\ file'[cur] = file[cur]
    BY <1>1 DEF RemoteContent, Live
  <2>3. (bundle'[cur] # None) = o.open
    <3>1. o.open \in BOOLEAN /\ bundle' = bundle /\ (bundle[cur] # None <=> o.open)
      BY <1>1 DEF Calm, IInv, TypeOK, Op
    <3> QED
      BY <3>1
  <2> QED
    BY <1>1, <2>1, <2>2, <2>3 DEF Copy
<1>5. file[cur] = FileNow /\ RemoteContent(cur) = RemoteNow /\ o.open \in BOOLEAN
  BY <1>1 DEF Calm, IInv, TypeOK, Op
<1>6. CASE o.kind \in {"pull_create", "pull_update"}
  <2>1. got # None /\ got.c = o.remote /\ RemoteNow = o.remote /\ FileNow = o.remote
    BY <1>1, <1>5, <1>6 DEF Calm, ControlInv, RemoteSeen, GuardedKinds, RemoteNow, FileNow, Pushed
  <2>2. Effect(o, p) = Outcome(o.remote, o.remote, o.remote)
    BY <1>6 DEF Effect, PullEffect
  <2> QED
    BY <1>3, <1>4, <1>5, <1>6, <2>1, <2>2 DEF NewBase
<1>7. CASE o.kind = "push_update"
  <2>1. /\ text # None /\ text = o.local /\ RemoteNow = o.local /\ FileNow = o.local
        /\ Overlay(o.remote, o.local, o.fields) = o.local /\ got.ver \in Nat
        /\ o.local \in Content
    BY <1>1, <1>5, <1>7 DEF Calm, ControlInv, FileSeen, GuardedKinds, RemoteNow, FileNow, Pushed,
       Effective, Fetched
  <2>2. [c |-> text, ver |-> got.ver] # None
    BY <2>1, ConstantsAssumption
  <2>3. Effect(o, p) = Outcome(o.local, o.local, o.local)
    BY <1>7, <2>1 DEF Effect, PushEffect
  <2> QED
    BY <1>3, <1>4, <1>5, <1>7, <2>1, <2>2, <2>3 DEF NewBase
<1>8. CASE o.kind \in {"rebase", "adopt"}
  <2>1. /\ RemoteNow = o.remote /\ FileNow = o.local /\ o.local \in Content /\ got.ver \in Nat
    BY <1>1, <1>5, <1>8 DEF Calm, ControlInv, WellPlanned, GuardedKinds, RemoteNow, FileNow,
       Pushed, Fetched, Side
  <2>2. [c |-> o.local, ver |-> got.ver] # None
    BY <2>1, ConstantsAssumption
  <2>3. Effect(o, p) = Outcome(o.local, o.local, o.remote)
    BY <1>8 DEF Effect
  <2> QED
    BY <1>3, <1>4, <1>5, <1>8, <2>1, <2>2, <2>3 DEF NewBase
<1>9. CASE o.kind = "pull_delete"
  <2>1. RemoteNow = o.remote /\ FileNow = None /\ NewBase = None
    BY <1>1, <1>9 DEF RemoteNow, FileNow, Pushed, NewBase
  <2>2. Effect(o, p) = Outcome(None, None, o.remote)
    BY <1>9 DEF Effect, PullEffect
  <2> QED
    BY <1>3, <1>4, <1>5, <1>9, <2>1, <2>2 DEF NewBase
<1>10. CASE o.kind = "push_delete"
  <2>1. RemoteNow = None /\ FileNow = o.local /\ NewBase = None
    BY <1>1, <1>10 DEF RemoteNow, FileNow, Pushed, NewBase
  <2>2. Effect(o, p) = Outcome(None, o.local, None)
    BY <1>10 DEF Effect, PushEffect
  <2> QED
    BY <1>3, <1>4, <1>5, <1>10, <2>1, <2>2 DEF NewBase
<1>11. CASE o.kind = "drop_base"
  <2>1. RemoteNow = o.remote /\ FileNow = o.local /\ NewBase = None
    BY <1>1, <1>11 DEF RemoteNow, FileNow, Pushed, NewBase
  <2>2. Effect(o, p) = Outcome(None, o.local, o.remote)
    BY <1>11 DEF Effect
  <2> QED
    BY <1>3, <1>4, <1>5, <1>11, <2>1, <2>2 DEF NewBase
<1> QED
  BY <1>1, <1>6, <1>7, <1>8, <1>9, <1>10, <1>11 DEF Calm, ControlInv, GuardedKinds

LEMMA QuietAtBundle ==
    ASSUME IInv, JournalInv, Calm, CreateBundle
    PROVE  Done(cur)'
<1> USE DEF copies, journal, reads, locals, bounds, ghosts
<1>1. /\ cur' = cur /\ plan' = plan /\ o = plan[cur] /\ pc = "bundle"
      /\ UNCHANGED <<remote, file, base>> /\ o.kind = "create_conflict"
  BY DEF CreateBundle, Calm, o, JournalInv, HandlerInv
<1>2. bundle'[cur] # None
  <2>1. [base |-> o.base, local |-> o.local, remote |-> o.remote] # None
    BY <1>1, ConstantsAssumption DEF IInv, TypeOK, Op, Side, Calm
  <2> QED
    BY <2>1 DEF CreateBundle, Calm
<1>3. Planned(cur)' = [base |-> o.base, file |-> o.local, remote |-> o.remote, open |-> o.open]
  BY <1>1 DEF Planned
<1>4. Copy(cur)' = [base |-> o.base, file |-> o.local, remote |-> o.remote, open |-> TRUE]
  <2>1. BaseContent(cur)' = o.base
    BY <1>1 DEF BaseContent, Calm
  <2>2. RemoteContent(cur)' = RemoteContent(cur) /\ file'[cur] = file[cur]
    BY <1>1 DEF RemoteContent, Live
  <2>3. RemoteContent(cur) = o.remote /\ file[cur] = o.local
    BY <1>1 DEF Calm, FileNow, RemoteNow, Pushed
  <2> QED
    BY <1>1, <1>2, <2>1, <2>2, <2>3 DEF Copy
<1> DEFINE p == [base |-> o.base, file |-> o.local, remote |-> o.remote, open |-> o.open]
<1>5. Effect(o, p) = [base |-> o.base, file |-> o.local, remote |-> o.remote, open |-> TRUE]
  BY <1>1 DEF Effect
<1> QED
  BY <1>1, <1>3, <1>4, <1>5 DEF Done

(* A step of a handler touches the copies of its own note only.            *)
LEMMA OthersInHandler ==
    ASSUME IInv, JournalInv, QuietInv, Handler
    PROVE  SnapshotInv' /\ OpsInv' /\ (cur \in quiet' => cur \in quiet)
<1> USE DEF copies, journal, reads, locals, bounds, ghosts
<1>1. /\ UNCHANGED <<plan, jstat, cur>> /\ quiet' \subseteq quiet /\ quiet \subseteq Notes
      /\ pc \in HandlerPcs /\ pc' \in HandlerPcs \cup {"mark"}
  <2>1. CASE GuardRemote
    <3>1. pc = "tags" /\ o.kind \in GuardedKinds
      BY <2>1 DEF GuardRemote, IInv, ControlInv, GuardedKinds
    <3> QED
      BY <2>1, <3>1 DEF GuardRemote, Ends, HandlerPcs, AfterGuard, GuardedKinds, IInv, TypeOK
  <2> QED
    BY <2>1 DEF Handler, GuardLocal, GetNote, Backup, WriteLocal, Reread, Put, PutAmbiguous,
       Probe, PutTags, PutTag, PutTagAmbiguous, TagsPut, ReadBack,
     Verify, Rename, ConfirmGone, Quarantine, Delete,
       DeleteAmbiguous, VerifyDeleted, Commit, CreateBundle, OpFails, Ends, HandlerPcs,
       IInv, TypeOK
<1>2. cur \in Notes /\ jstat[cur] = "planned"
  BY <1>1 DEF IInv, ControlInv, JournalInv, HandlerInv
<1>3. ASSUME NEW n \in Notes, n # cur
      PROVE  /\ base'[n] = base[n] /\ bundle'[n] = bundle[n]
             /\ file'[n] = file[n] /\ remote'[n] = remote[n]
  BY <1>1, <1>2, <1>3 DEF IInv, TypeOK, Handler, GuardLocal, GetNote, GuardRemote, Backup,
     WriteLocal, Reread, Put, PutAmbiguous, Probe, PutTags, PutTag, PutTagAmbiguous, TagsPut, ReadBack,
     Verify, Rename,
     ConfirmGone, Quarantine, Delete, DeleteAmbiguous, VerifyDeleted, Commit, CreateBundle,
     OpFails, Sent, Toggled, Trashed
<1>4. ASSUME NEW n \in Notes, n # cur
      PROVE  Copy(n)' = Copy(n) /\ Planned(n)' = Planned(n)
  BY <1>1, <1>3, <1>4 DEF Copy, Planned, BaseContent, RemoteContent, Live
<1>5. OpsInv'
  BY <1>1, <1>2, <1>4 DEF QuietInv, OpsInv, Executing, HandlerPcs, AsPlanned, Done
<1>6. SnapshotInv'
  BY <1>1 DEF SnapshotInv, PreparePcs, HandlerPcs
<1> QED
  BY <1>1, <1>5, <1>6

LEMMA QuietHandler ==
    ASSUME IInv, JournalInv, SeenInv, QuietInv, Handler
    PROVE  QuietInv'
<1> USE DEF copies, journal, reads, locals, bounds, ghosts
<1>1. SnapshotInv' /\ OpsInv' /\ (cur \in quiet' => cur \in quiet)
  BY OthersInHandler
<1>2. pc \in HandlerPcs /\ cur' = cur /\ plan' = plan
  BY DEF HandlerPcs, Handler, GuardLocal, GetNote, GuardRemote, Backup,
     WriteLocal, Reread, Put, PutAmbiguous, Probe, PutTags, PutTag, PutTagAmbiguous, TagsPut, ReadBack,
     Verify, Rename,
     ConfirmGone, Quarantine, Delete, DeleteAmbiguous, VerifyDeleted, Commit, CreateBundle, OpFails
<1>3. CASE cur \notin quiet'
  BY <1>1, <1>2, <1>3 DEF QuietInv, RunningInv
<1>4. CASE cur \in quiet'
  <2>1. Calm
    BY <1>1, <1>2, <1>4, QuietIsCalm
  <2>2. CASE Commit \/ CreateBundle
    <3>1. Done(cur)'
      BY <2>1, <2>2, QuietAtCommit, QuietAtBundle
    <3>2. pc' = "mark" /\ result' = "applied" /\ raced' = raced /\ phase' = phase
      BY <2>2 DEF Commit, CreateBundle, Ends
    <3>3. RunningInv'
      BY <1>2, <2>1, <3>1, <3>2 DEF RunningInv, Calm, HandlerPcs, Done
    <3> QED
      BY <1>1, <3>3 DEF QuietInv
  <2>3. CASE ~Commit /\ ~CreateBundle
    <3>1. /\ pc' \in HandlerPcs /\ raced' = {} /\ phase' # "probe"
          /\ file'[cur] = FileNow'
          /\ RemoteContent(cur)' = RemoteNow'
      BY <1>4, <2>1, <2>3, QuietInHandler
    <3>2. UNCHANGED <<base, bundle>>
      BY <2>3 DEF Handler, GuardLocal, GetNote, GuardRemote, Backup, WriteLocal, Reread, Put,
         PutAmbiguous, Probe, PutTags, PutTag, PutTagAmbiguous, TagsPut, ReadBack,
     Verify, Rename, ConfirmGone, Quarantine,
         Delete, DeleteAmbiguous, VerifyDeleted, OpFails
    <3>3. BaseContent(cur)' = o.base /\ (bundle'[cur] # None <=> o.open) /\ o' = o
      BY <1>2, <2>1, <3>2 DEF BaseContent, Calm, o
    <3>4. pc' # "mark"
      BY <3>1 DEF HandlerPcs
    <3>5. RunningInv'
      BY <1>2, <3>1, <3>3, <3>4 DEF RunningInv, RemoteContent, Live
    <3> QED
      BY <1>1, <3>5 DEF QuietInv
  <2> QED
    BY <2>2, <2>3
<1> QED
  BY <1>3, <1>4

(* An operation starts from its planned copies, and is settled when done.  *)
LEMMA QuietInLoop ==
    ASSUME IInv, JournalInv, QuietInv, Execute, ~Handler
    PROVE  QuietInv'
<1> USE DEF copies, journal, reads, locals, bounds, ghosts
<1>0. quiet \subseteq Notes /\ UNCHANGED <<remote, file, base, bundle, plan, quiet>>
  BY DEF IInv, TypeOK, Execute, StartOp, Mark, FinishFile, FinishRun
<1>1. \A n \in quiet : /\ Copy(n)' = Copy(n) /\ Planned(n)' = Planned(n)
                       /\ BaseContent(n)' = BaseContent(n)
                       /\ RemoteContent(n)' = RemoteContent(n)
  BY <1>0 DEF Copy, Planned, BaseContent, RemoteContent, Live
<1>2. ASSUME NEW n \in Notes, StartOp(n) PROVE QuietInv'
  <2>1. /\ jstat' = jstat /\ pc = "exec" /\ cur' = n /\ jstat[n] = "planned"
        /\ pc' = FirstStep(plan[n].kind) /\ raced' = {} /\ phase' = "guard" /\ o' = plan[n]
    BY <1>2 DEF StartOp, o
  <2>2. plan[n].kind \in Kinds \ {"none"}
    BY <2>1 DEF IInv, PlanInv, TypeOK, Op
  <2>3. /\ pc' \in {"guard_local", "get", "commit", "bundle"}
        /\ pc' = "commit" => plan[n].kind = "drop_base"
    BY <2>1, <2>2 DEF FirstStep, Kinds
  <2>4. OpsInv'
    BY <1>0, <1>1, <2>1, <2>3 DEF QuietInv, OpsInv, Executing, HandlerPcs, AsPlanned, Done
  <2>5. n \in quiet => /\ BaseContent(n) = plan[n].base /\ (bundle[n] # None <=> plan[n].open)
                      /\ file[n] = plan[n].local /\ RemoteContent(n) = plan[n].remote
    <3> SUFFICES ASSUME n \in quiet PROVE /\ BaseContent(n) = plan[n].base
                                          /\ (bundle[n] # None <=> plan[n].open)
                                          /\ file[n] = plan[n].local
                                          /\ RemoteContent(n) = plan[n].remote
      OBVIOUS
    <3>1. Copy(n) = Planned(n)
      BY <2>1 DEF QuietInv, OpsInv, Executing, HandlerPcs, AsPlanned
    <3>2. /\ Copy(n).base = Planned(n).base /\ Copy(n).file = Planned(n).file
          /\ Copy(n).remote = Planned(n).remote /\ Copy(n).open = Planned(n).open
      BY <3>1
    <3> QED
      BY <3>2 DEF Copy, Planned
  <2>6. RunningInv'
    <3> SUFFICES ASSUME n \in quiet PROVE RunningInv'
      BY <1>0, <2>1, <2>3 DEF RunningInv
    <3>1. FileNow' = plan[n].local /\ RemoteNow' = plan[n].remote
      BY <2>1, <2>3 DEF FileNow, RemoteNow, Pushed
    <3>2. BaseContent(n)' = plan[n].base /\ RemoteContent(n)' = plan[n].remote
      BY <1>1, <2>5
    <3> QED
      BY <1>0, <2>1, <2>3, <2>5, <3>1, <3>2 DEF RunningInv
  <2> QED
    BY <2>3, <2>4, <2>6 DEF QuietInv, SnapshotInv, PreparePcs
<1>3. CASE Mark
  <2>1. /\ pc = "mark" /\ pc' = "exec" /\ cur \in Notes
        /\ jstat' = [jstat EXCEPT ![cur] = MarkedStatus]
        /\ jstat \in [Notes -> {"none", "planned", "applied", "skipped", "failed"}]
    BY <1>3 DEF Mark, IInv, ControlInv, TypeOK
  <2>2. cur \in quiet => Done(cur) /\ MarkedStatus = "applied"
    BY <2>1 DEF QuietInv, RunningInv, MarkedStatus
  <2>3. ASSUME NEW n \in quiet
        PROVE  /\ Effective(plan[n])
               /\ jstat'[n] = "none" => plan[n].kind = "none" /\ AsPlanned(n)
               /\ jstat'[n] = "planned" => AsPlanned(n)
               /\ jstat'[n] \in {"applied", "skipped", "failed"} => Done(n)
    <3>1. CASE n = cur
      BY <1>0, <2>1, <2>2, <3>1 DEF QuietInv, OpsInv, Executing
    <3>2. CASE n # cur
      BY <1>0, <2>1, <3>2 DEF QuietInv, OpsInv, Executing
    <3> QED
      BY <3>1, <3>2
  <2>4. OpsInv'
    BY <1>0, <1>1, <2>1, <2>3 DEF OpsInv, Executing, HandlerPcs, AsPlanned, Done
  <2> QED
    BY <2>1, <2>4 DEF QuietInv, SnapshotInv, RunningInv, Executing, HandlerPcs, PreparePcs
<1>4. CASE FinishFile
  <2>1. pc = "exec" /\ pc' = "finish" /\ jstat' = jstat /\ AllSettled
    BY <1>4 DEF FinishFile
  <2>2. OpsInv'
    BY <1>0, <1>1, <2>1 DEF QuietInv, OpsInv, Executing, HandlerPcs, AsPlanned, Done, AllSettled
  <2> QED
    BY <2>1, <2>2 DEF QuietInv, SnapshotInv, RunningInv, Executing, HandlerPcs, PreparePcs
<1>5. CASE FinishRun
  BY <1>5 DEF FinishRun, QuietInv, SnapshotInv, OpsInv, RunningInv, Executing, HandlerPcs,
     PreparePcs
<1> QED
  BY <1>2, <1>3, <1>4, <1>5 DEF Execute

-----------------------------------------------------------------------------
LEMMA QuietInvariance == Spec => []QuietInv
<1>1. Init => QuietInv
  BY DEF Init, QuietInv, SnapshotInv, OpsInv, RunningInv, Executing, HandlerPcs, PreparePcs
<1>2. IInv /\ JournalInv /\ SeenInv /\ QuietInv /\ [Next]_vars => QuietInv'
  <2> SUFFICES ASSUME IInv, JournalInv, SeenInv, QuietInv, [Next]_vars PROVE QuietInv'
    OBVIOUS
  <2>1. CASE Edit
    BY <2>1, QuietAfterEdit
  <2>2. CASE Prepare
    BY <2>2, QuietInSnapshot, QuietAtPlan
  <2>3. CASE Execute
    BY <2>3, QuietHandler, QuietInLoop
  <2>4. CASE Crash \/ Recover
    BY <2>4 DEF Crash, Recover, QuietInv, SnapshotInv, OpsInv, RunningInv, Executing, HandlerPcs,
       PreparePcs
  <2>5. CASE UNCHANGED vars
    BY <2>5 DEF vars, copies, journal, reads, locals, bounds, ghosts, QuietInv, SnapshotInv, OpsInv,
       RunningInv, Executing, AsPlanned, Done, Copy, Planned, BaseContent, RemoteContent, Live,
       FileNow, RemoteNow, HalfTagged, Pushed, AllSettled, o
  <2> QED
    BY <2>1, <2>2, <2>3, <2>4, <2>5 DEF Next
<1> QED
  BY <1>1, <1>2, Invariance, JournalInvariance, SeenInvariance, PTL DEF Spec

(* At the end of a run, a note without an edit or a fault during the run is *)
(* where the effect of its operation puts it, whatever became of the other  *)
(* notes, of earlier runs and of the crashes between them (SYN-001).        *)
THEOREM QuietRunsAreAtomic == Spec => []QuietRunIsAtomic
<1>1. IInv /\ QuietInv => QuietRunIsAtomic
  <2> SUFFICES ASSUME IInv, QuietInv, pc = "finish", NEW n \in quiet
               PROVE  Copy(n) = Effect(plan[n], Planned(n))
    BY DEF QuietRunIsAtomic
  <2>1. n \in Notes /\ jstat[n] \in {"none", "applied", "skipped", "failed"}
    BY DEF IInv, TypeOK, QuietInv, OpsInv, AllSettled
  <2>2. CASE jstat[n] = "none"
    <3>1. plan[n].kind = "none" /\ Copy(n) = Planned(n)
      BY <2>2 DEF QuietInv, OpsInv, AsPlanned
    <3> QED
      BY <3>1 DEF Effect
  <2>3. CASE jstat[n] # "none"
    BY <2>1, <2>3 DEF QuietInv, OpsInv, Done
  <2> QED
    BY <2>2, <2>3
<1> QED
  BY Invariance, QuietInvariance, <1>1, PTL
==============================================================================
