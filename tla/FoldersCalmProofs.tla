-------------------------- MODULE FoldersCalmProofs --------------------------
(* Proofs about Folders, for any number of notebooks, notes, titles, edits,   *)
(* faults and runs: a run that reports no failure leaves nothing to do. The   *)
(* invariant says of each notebook and note that no operation of the plan is  *)
(* about that there is nothing to do for it, of each directory and file that  *)
(* push has to announce that an operation is about it, and of the operations  *)
(* what they leave when they are done.                                        *)
EXTENDS FoldersPlacesProofs

----------------------------------------------------------------------------
(* The inductive invariant behind SuccessLeavesNothing.                       *)

RowKinds == {"update folder", "adopt"}

(* Whatever has failed: the base has the notebook of every directory, except  *)
(* of the one whose metadata is just written, and knows notebooks of Joplin.  *)
RowsNow ==
    \A f \in F :
      /\ baseF[f] # None => baseF[f] \in Row /\ baseF[f].parent \in Known
      /\ baseF[f] = None /\ Housed(dirs, f) =>
           /\ Running /\ run.phase = "commit"
           /\ \/ op.kind = "create dir" /\ op.id = f
              \/ op.kind = "create folder" /\ run.id = f
BaseNow ==
    /\ RowsNow
    /\ \A n \in N : baseN[n] \in Known \cup {None}
    /\ \A o \in run.plan : o.kind \in DirKinds \cup RowKinds => o.saw \in Row /\ o.saw.parent \in Known
    /\ run.result = "ok" => run.ok
    /\ run.pull \in BOOLEAN /\ run.push \in BOOLEAN

(* What the disk says of notebook f in directory p; while pull creates and    *)
(* renames directories, what it will say.                                     *)
Becoming(p, f) ==
    [title |-> dirs[p].title,
     parent |-> IF DirOps(run.plan) THEN remote[f].parent
                ELSE IF Len(p) = 1 THEN Root ELSE dirs[Parent(p)].id]
Under(p) == Len(p) # 1 /\ MadeAt(run.created, Parent(p))

(* There is nothing to do for notebook f.                                     *)
RowCalm(p, f) ==
    LET l == Becoming(p, f) b == baseF[f] r == remote[f] IN
    /\ l = r => r = b
    /\ run.pull /\ l = b => r = b
    /\ run.push /\ r = b => l = b \/ Under(p)
FolderCalm(f) ==
    /\ \A p \in DOMAIN dirs : Held(dirs, p, f) => RowCalm(p, f)
    /\ run.pull /\ remote[f] # None /\ ~Housed(dirs, f) => baseF[f] # None

FolderOwed(f) ==
    \/ \E o \in run.plan : o.kind \in DirKinds \cup RowKinds /\ o.id = f
    \/ Running /\ op.kind = "create folder" /\ run.phase # "ask" /\ run.id = f
FoldersCalm == \A f \in F : FolderOwed(f) \/ FolderCalm(f)

(* There is nothing to do for note n.                                         *)
NoteCalm(n) ==
    /\ \A x \in FilesOf(n) :
         LET l == dirs[x.dir].id IN
         /\ l = notes[n] => baseN[n] = notes[n]
         /\ run.pull /\ l = baseN[n] => baseN[n] = notes[n]
         /\ run.push /\ baseN[n] = notes[n] => l = baseN[n]
    /\ run.pull /\ FilesOf(n) = {} /\ notes[n] # None => baseN[n] # None

NoteOwed(n) ==
    \/ \E o \in run.plan : o.kind \in NoteKinds /\ o.id = n
    \/ Running /\ op.kind = "create note" /\ run.phase # "ask" /\ run.id = n
NotesCalm == \A n \in N : NoteOwed(n) \/ ~Settled(n) \/ NoteCalm(n)

(* The plan of a push has every directory without an id, and every file.      *)
DirsCalm ==
    run.push => \A p \in DOMAIN dirs : dirs[p].id = 0 =>
      \/ \E o \in run.plan : o.kind = "create folder" /\ run.now[o.old] = p
      \/ DirOps(run.plan) /\ \E g \in Active : RemotePath[g] = p
DraftsCalm ==
    run.push => \A x \in files : x.n = Draft =>
      \E o \in run.plan : o.kind = "create note" /\ run.now[o.old] = x.dir

(* A directory that the scan saw is not replaced by another.                  *)
ScanKept ==
    /\ \A p \in DOMAIN run.scan : p \in DOMAIN dirs /\ run.scan[p] # 0 => dirs[p].id = run.scan[p]
    /\ DirOps(run.plan) =>
         \A g \in Active : RemotePath[g] \in DOMAIN run.scan => RemotePath[g] \in DOMAIN dirs

(* What the operations rely on.                                               *)
Sees(f, row) ==
    \E p \in DOMAIN dirs :
      /\ Held(dirs, p, f) /\ dirs[p].title = row.title
      /\ Becoming(p, f) = row \/ Under(p)
FolderDue(o) ==
    /\ o.kind \in DirKinds =>
         remote[o.id] = o.saw /\ \A u \in run.plan : u.kind \in RowKinds => u.id # o.id
    /\ o.kind = "create dir" => \A x \in files : x.dir # o.new
    /\ o.kind \in RowKinds => Sees(o.id, o.saw)
    /\ o.kind = "update folder" => \A u \in run.plan : u.kind = "adopt" => u.id # o.id
    /\ o.kind = "adopt" => remote[o.id] = o.saw
FoldersDue == \A o \in run.plan : FolderDue(o)
NotesDue == \A o \in run.plan : o.kind = "normalize" => notes[o.id] = o.saw

Fresh(f) ==
    /\ \A g \in F : /\ remote[g] # None => remote[g].parent # f
                    /\ baseF[g] # None => baseF[g].parent # f
    /\ \A n \in N : notes[n] # f /\ baseN[n] # f
WorkDue ==
    Running =>
      /\ op.kind \in DirKinds /\ run.phase = "commit" =>
           Held(dirs, op.new, op.id) /\ dirs[op.new].title = op.saw.title
      /\ op.kind = "update folder" /\ run.phase = "commit" => remote[op.id] = op.saw
      /\ op.kind = "create folder" /\ run.phase # "ask" =>
           /\ remote[run.id].title = op.saw.title
           /\ \/ remote[run.id].parent = (IF Len(old) = 1 THEN Root ELSE dirs[Parent(old)].id)
              \/ Len(old) # 1 /\ MadeAt(run.created, Parent(old))
      /\ op.kind = "create folder" /\ run.phase = "meta" => Fresh(run.id)
      /\ op.kind = "create folder" /\ run.phase = "commit" =>
           Held(dirs, old, run.id) /\ dirs[old].title = op.saw.title
      /\ op.kind = "create note" /\ run.phase = "commit" => File(Draft, old) \notin files

(* A run that has not failed, and that no user has followed yet.              *)
Watched == run.ok /\ (run.plan # {} \/ run.result = "ok")
FoldersNow == FoldersCalm /\ DirsCalm /\ ScanKept /\ FoldersDue
NotesNow == NotesCalm /\ DraftsCalm /\ NotesDue
CalmNow == FoldersNow /\ NotesNow /\ WorkDue /\ (run.result = "ok" => run.plan = {})
Calm == ~spoilt => BaseNow /\ (Watched => CalmNow)

----------------------------------------------------------------------------
(* The run.                                                                   *)
SameCommand == run'.pull = run.pull /\ run'.push = run.push
SameRun == SameWays /\ SameCommand

LEMMA WellEnds ==
    ASSUME Typed, Running, run' = Ended(TRUE)
    PROVE  /\ run'.phase = "ask" /\ run'.plan = run.plan \ {op} /\ SameRun /\ (run'.ok => run.ok)
           /\ op \in run.plan
           /\ run'.result = "ok" => run'.plan = {}
<1>1. op \in run.plan
  BY OpIs
<1>2. /\ run'.phase = "ask" /\ run'.plan = run.plan \ {op} /\ run'.pull = run.pull
      /\ run'.ok = (run.ok /\ TRUE)
      /\ run'.result = IF run.plan # {op} THEN "none" ELSE IF run.ok /\ TRUE THEN "ok" ELSE "failed"
  BY DEF Typed, TypedRun, IsRun, Ended
<1>3. SameWays
  BY Ends
<1> QED BY <1>1, <1>2, <1>3 DEF SameRun, SameCommand, SameWays

LEMMA FailIsNotWatched ==
    ASSUME Typed, run' = Ended(FALSE)
    PROVE  ~Watched'
BY DEF Typed, TypedRun, IsRun, Ended, Watched

LEMMA Going ==
    ASSUME Typed, NEW phase, NEW id,
           run' = [run EXCEPT !.phase = phase] \/ run' = [run EXCEPT !.phase = phase, !.id = id]
    PROVE  /\ run'.phase = phase /\ run'.plan = run.plan /\ SameRun
           /\ (run'.ok => run.ok) /\ run'.result = run.result
           /\ run' = [run EXCEPT !.phase = phase] => run'.id = run.id
           /\ run' = [run EXCEPT !.phase = phase, !.id = id] => run'.id = id
BY DEF Typed, TypedRun, IsRun, SameWays, SameRun, SameCommand

LEMMA WatchedWas ==
    ASSUME Running, run'.ok => run.ok, Watched'
    PROVE  Watched
BY OpIs DEF Watched

LEMMA WatchedWent ==
    ASSUME CalmNow, Running, run'.plan = run.plan, run'.result = run.result
    PROVE  run'.result = "ok" => run'.plan = {}
BY OpIs DEF CalmNow

----------------------------------------------------------------------------
(* Notebooks that a step leaves as they are: their directories may have       *)
(* moved, with what they say.                                                 *)
Stays(p, q, f) ==
    /\ Held(dirs, p, f) /\ dirs'[q].title = dirs[p].title
    /\ \/ Becoming(q, f)' = Becoming(p, f) /\ (Under(p) => Under(q)')
       \/ Under(q)' /\ Becoming(q, f)' # remote[f] /\ Becoming(q, f)' # baseF[f]
FolderStays(f) ==
    /\ Housed(dirs, f) => Housed(dirs', f)
    /\ \A q \in DOMAIN dirs' : Held(dirs', q, f) => \E p \in DOMAIN dirs : Stays(p, q, f)
FolderSame(f) == FolderStays(f) /\ remote'[f] = remote[f] /\ baseF'[f] = baseF[f]

LEMMA FolderCalmStays ==
    ASSUME NEW f \in F, FolderSame(f), FolderCalm(f), SameCommand
    PROVE  FolderCalm(f)'
<1>1. ASSUME NEW q \in DOMAIN dirs', Held(dirs', q, f) PROVE RowCalm(q, f)'
  <2>1. PICK p \in DOMAIN dirs : Stays(p, q, f)
    BY <1>1 DEF FolderSame, FolderStays
  <2>2. RowCalm(p, f)
    BY <2>1 DEF Stays, FolderCalm
  <2> DEFINE l == Becoming(p, f)
             m == Becoming(q, f)'
  <2>3. /\ l = remote[f] => remote[f] = baseF[f]
        /\ run.pull /\ l = baseF[f] => remote[f] = baseF[f]
        /\ run.push /\ remote[f] = baseF[f] => l = baseF[f] \/ Under(p)
    BY <2>2 DEF RowCalm
  <2>4. \/ m = l /\ (Under(p) => Under(q)')
        \/ Under(q)' /\ m # remote[f] /\ m # baseF[f]
    BY <2>1 DEF Stays
  <2>5. remote'[f] = remote[f] /\ baseF'[f] = baseF[f] /\ run'.pull = run.pull /\ run'.push = run.push
    BY DEF FolderSame, SameCommand
  <2>6. RowCalm(q, f)' <=>
          /\ m = remote'[f] => remote'[f] = baseF'[f]
          /\ run'.pull /\ m = baseF'[f] => remote'[f] = baseF'[f]
          /\ run'.push /\ remote'[f] = baseF'[f] => m = baseF'[f] \/ Under(q)'
    BY DEF RowCalm
  <2> HIDE DEF l, m
  <2> QED BY <2>3, <2>4, <2>5, <2>6
<1>2. run'.pull /\ remote'[f] # None /\ ~Housed(dirs', f) => baseF'[f] # None
  BY DEF FolderSame, FolderStays, FolderCalm, SameCommand
<1> QED BY <1>1, <1>2 DEF FolderCalm

LEMMA SeesStays ==
    ASSUME NEW f \in F, NEW row, Unique(dirs), FolderStays(f), Sees(f, row)
    PROVE  Sees(f, row)'
<1>1. PICK p \in DOMAIN dirs :
        Held(dirs, p, f) /\ dirs[p].title = row.title /\ (Becoming(p, f) = row \/ Under(p))
  BY DEF Sees
<1>2. PICK q \in DOMAIN dirs' : Held(dirs', q, f)
  BY <1>1 DEF FolderStays, Housed, Held
<1>3. PICK r \in DOMAIN dirs : Stays(r, q, f)
  BY <1>2 DEF FolderStays
<1>4. r = p
  BY <1>1, <1>3, NoRootId DEF Stays, Held, Unique
<1> QED BY <1>1, <1>2, <1>3, <1>4 DEF Stays, Sees

LEMMA FoldersCalmStay ==
    ASSUME FoldersCalm, SameCommand,
           \A f \in F : \/ FolderCalm(f)' \/ FolderOwed(f)'
                        \/ FolderSame(f) /\ ~FolderOwed(f)
    PROVE  FoldersCalm'
<1> SUFFICES ASSUME NEW f \in F, FolderSame(f), ~FolderOwed(f) PROVE FolderCalm(f)'
  BY DEF FoldersCalm
<1>1. FolderCalm(f)
  BY DEF FoldersCalm
<1> QED BY <1>1, FolderCalmStays

LEMMA FoldersDueStay ==
    ASSUME Typed, KeptNow, FoldersDue, run'.plan \subseteq run.plan,
           \A o \in run'.plan : o.kind \in RowKinds => FolderStays(o.id),
           \A o \in run'.plan : o.kind \in DirKinds \cup {"adopt"} => remote'[o.id] = remote[o.id],
           UNCHANGED files \/ \A o \in run'.plan : o.kind # "create dir"
    PROVE  FoldersDue'
<1> SUFFICES ASSUME NEW o \in run'.plan PROVE FolderDue(o)'
  BY DEF FoldersDue
<1>1. FolderDue(o) /\ o \in run.plan
  BY DEF FoldersDue
<1>2. o.kind \in RowKinds => Sees(o.id, o.saw)'
  <2> SUFFICES ASSUME o.kind \in RowKinds PROVE Sees(o.id, o.saw)'
    OBVIOUS
  <2>1. o.id \in F
    BY <1>1, Bounds DEF Typed, TypedRun, TypedOp, RowKinds, Known, Active
  <2>2. Sees(o.id, o.saw) /\ FolderStays(o.id) /\ Unique(dirs)
    BY <1>1 DEF FolderDue, KeptNow
  <2>3. PICK f, row : f = o.id /\ row = o.saw
    OBVIOUS
  <2>4. Sees(f, row)'
    BY <2>1, <2>2, <2>3, SeesStays
  <2> QED BY <2>3, <2>4 DEF Sees
<1> QED BY <1>1, <1>2 DEF FolderDue

LEMMA RowIds ==
    ASSUME Typed
    PROVE  \A o \in run.plan : o.kind \in RowKinds => o.id \in F
BY Bounds DEF Typed, TypedRun, TypedOp, RowKinds, Known, Active

(* The directories and what they say are untouched.                           *)
LEMMA FolderStaysPut ==
    ASSUME UNCHANGED dirs, run'.created = run.created, DirOps(run'.plan) <=> DirOps(run.plan),
           NEW f, remote'[f] = remote[f] \/ ~DirOps(run.plan)
    PROVE  FolderStays(f)
<1>1. \A p : Becoming(p, f)' = Becoming(p, f) /\ (Under(p)' <=> Under(p))
  BY DEF Becoming, Under
<1> QED BY <1>1 DEF FolderStays, Stays

(* A step that leaves the directories alone may only take from a new one what *)
(* it was waiting for.                                                        *)
LEMMA DirsCalmStay ==
    ASSUME dirs' = dirs, run'.push = run.push, run'.now = run.now,
           ASSUME run.push, NEW p \in DOMAIN dirs, dirs[p].id = 0
           PROVE  \/ \E o \in run'.plan : o.kind = "create folder" /\ run.now[o.old] = p
                  \/ DirOps(run'.plan) /\ \E g \in Active' : RemotePath'[g] = p
    PROVE  DirsCalm'
BY DEF DirsCalm

(* While pull has directories to create or to rename, titles are what counts. *)
LEMMA FolderStaysInDirs ==
    ASSUME DirOps(run.plan), DirOps(run'.plan), run.created = <<>>, NEW f,
           remote'[f] = remote[f], Housed(dirs, f) => Housed(dirs', f),
           \A q \in DOMAIN dirs' : Held(dirs', q, f) =>
             \E p \in DOMAIN dirs : Held(dirs, p, f) /\ dirs'[q].title = dirs[p].title
    PROVE  FolderStays(f)
<1>1. \A p : ~Under(p)
  <2>1. \A i : i \notin DOMAIN <<>>
    OBVIOUS
  <2> QED BY <2>1 DEF Under, MadeAt
<1>2. \A p, q : dirs'[q].title = dirs[p].title => Becoming(q, f)' = Becoming(p, f)
  BY DEF Becoming
<1> QED BY <1>1, <1>2 DEF FolderStays, Stays

LEMMA ScanRises ==
    ASSUME ScanKept, Rising(dirs, dirs'), \A p \in DOMAIN dirs' \ DOMAIN dirs : p \notin DOMAIN run.scan,
           run'.scan = run.scan, run'.plan \subseteq run.plan, UNCHANGED remote \/ ~DirOps(run.plan)
    PROVE  ScanKept'
<1>1. ASSUME NEW p \in DOMAIN run.scan, p \in DOMAIN dirs', run.scan[p] # 0
      PROVE  dirs'[p].id = run.scan[p]
  <2>1. p \in DOMAIN dirs
    BY <1>1
  <2>2. dirs[p].id = run.scan[p]
    BY <1>1, <2>1 DEF ScanKept
  <2> QED BY <1>1, <2>1, <2>2 DEF Rising
<1>2. ASSUME DirOps(run'.plan)
      PROVE  \A g \in Active' : RemotePath'[g] \in DOMAIN run.scan => RemotePath'[g] \in DOMAIN dirs'
  <2>1. DirOps(run.plan)
    BY <1>2 DEF DirOps
  <2>2. RemotePath' = RemotePath /\ Active' = Active
    BY <2>1, SamePaths
  <2> QED BY <2>1, <2>2 DEF ScanKept, Rising
<1> QED BY <1>1, <1>2 DEF ScanKept

(* The paths above the path of a notebook are those of the notebooks above.   *)
LEMMA RemoteParents ==
    ASSUME Forest(remote), NEW f0 \in Active
    PROVE  \A q \in Proper(RemotePath[f0]) : \E g \in Active : RemotePath[g] = q
<1> DEFINE R == RemotePath
           Good(f) == \A q \in Proper(R[f]) : \E g \in Active : R[g] = q
<1>n. PICK n \in Nat : \E rank : Above(remote, n, rank)
  BY DEF Forest
<1>1. PICK rank : Above(remote, n, rank)
  BY <1>n
<1>2. /\ \A f \in F : rank[f] \in 0..n
      /\ \A f \in F : remote[f] # None /\ remote[f].parent # Root =>
           /\ remote[f].parent \in F /\ rank[remote[f].parent] < rank[f]
           /\ remote[remote[f].parent] # None
  BY <1>1 DEF Above, Forest, Row
<1>3. \A f \in Active :
        /\ R[f] = IF remote[f].parent = Root THEN <<DirName(f)>>
                  ELSE R[remote[f].parent] \o <<DirName(f)>>
        /\ DirName(f) \in Component /\ R[f] \in Paths
  BY RemotePathStep, DirNameShape, PathsOfNotebooks DEF Active
<1> HIDE DEF R
<1> DEFINE T == {rank[f] : f \in {h \in Active : ~Good(h)}}
<1>4. T = {}
  <2> SUFFICES ASSUME T # {} PROVE FALSE
    OBVIOUS
  <2>1. T \subseteq Nat
    BY <1>2 DEF Active
  <2>2. PICK m \in T : \A k \in T : m <= k
    <3> HIDE DEF T
    <3> QED BY <2>1, Least
  <2>3. PICK f \in Active : ~Good(f) /\ m = rank[f]
    BY <2>2
  <2>4. CASE remote[f].parent = Root
    <3> DEFINE c == DirName(f)
    <3>1. R[f] = <<c>>
      BY <1>3, <2>4
    <3>2. Proper(<<c>>) = {}
      BY DEF Proper
    <3> QED BY <2>3, <3>1, <3>2
  <2>5. CASE remote[f].parent # Root
    <3> DEFINE h == remote[f].parent
               c == DirName(f)
    <3>1. h \in Active /\ rank[h] < rank[f] /\ rank[h] \in 0..n /\ rank[f] \in 0..n
      BY <1>2, <2>5 DEF Active
    <3>2. R[f] = R[h] \o <<c>> /\ c \in Component /\ R[h] \in Paths
      BY <1>3, <2>5, <3>1
    <3>3. Proper(R[f]) = Proper(R[h]) \cup {R[h]}
      <4> HIDE DEF c, h
      <4> QED BY <3>2, Extended
    <3>4. Good(h)
      <4> SUFFICES ASSUME ~Good(h) PROVE FALSE
        OBVIOUS
      <4>1. rank[h] \in T
        <5> HIDE DEF h, Good
        <5> QED BY <3>1
      <4>2. m <= rank[h]
        <5> HIDE DEF h, T
        <5> QED BY <2>2, <4>1
      <4> HIDE DEF h
      <4> QED BY <2>3, <3>1, <4>2
    <3>5. Good(f)
      <4> HIDE DEF h
      <4> QED BY <3>1, <3>3, <3>4
    <3> QED BY <2>3, <3>5
  <2> QED BY <2>4, <2>5
<1>5. Good(f0)
  <2> HIDE DEF Good
  <2> QED BY <1>4
<1> QED BY <1>5 DEF R

----------------------------------------------------------------------------
(* Notes that a step leaves as they are.                                      *)
NoteStays(n) ==
    /\ notes'[n] = notes[n] /\ baseN'[n] = baseN[n]
    /\ Settled(n)' => Settled(n)
    /\ FilesOf(n)' = {} => FilesOf(n) = {}
    /\ \A y \in FilesOf(n)' : \E x \in FilesOf(n) :
         \/ dirs'[y.dir].id = dirs[x.dir].id
         \/ dirs[x.dir].id = 0 /\ dirs'[y.dir].id # notes[n] /\ dirs'[y.dir].id # baseN[n]

LEMMA NoteCalmStays ==
    ASSUME NEW n \in N, NoteSettled(n), NoteStays(n), SameCommand, NoteCalm(n)
    PROVE  NoteCalm(n)'
<1>1. notes'[n] = notes[n] /\ baseN'[n] = baseN[n] /\ run'.pull = run.pull /\ run'.push = run.push
  BY DEF NoteStays, SameCommand
<1>2. ASSUME NEW y \in FilesOf(n)'
      PROVE  /\ dirs'[y.dir].id = notes[n] => baseN[n] = notes[n]
             /\ run.pull /\ dirs'[y.dir].id = baseN[n] => baseN[n] = notes[n]
             /\ run.push /\ baseN[n] = notes[n] => dirs'[y.dir].id = baseN[n]
  <2>1. PICK x \in FilesOf(n) :
          \/ dirs'[y.dir].id = dirs[x.dir].id
          \/ dirs[x.dir].id = 0 /\ dirs'[y.dir].id # notes[n] /\ dirs'[y.dir].id # baseN[n]
    BY <1>2 DEF NoteStays
  <2>2. /\ dirs[x.dir].id = notes[n] => baseN[n] = notes[n]
        /\ run.pull /\ dirs[x.dir].id = baseN[n] => baseN[n] = notes[n]
        /\ run.push /\ baseN[n] = notes[n] => dirs[x.dir].id = baseN[n]
    BY DEF NoteCalm
  <2>3. baseN[n] # 0
    BY DEF NoteSettled, Root
  <2> QED BY <2>1, <2>2, <2>3
<1>3. run.pull /\ FilesOf(n)' = {} /\ notes[n] # None => baseN[n] # None
  BY DEF NoteStays, NoteCalm
<1> QED BY <1>1, <1>2, <1>3 DEF NoteCalm

LEMMA NotesCalmStay ==
    ASSUME NotesSettled, NotesCalm, SameCommand,
           \A n \in N : \/ NoteCalm(n)' \/ NoteOwed(n)' \/ ~Settled(n)'
                        \/ NoteStays(n) /\ ~NoteOwed(n)
    PROVE  NotesCalm'
<1> SUFFICES ASSUME NEW n \in N, NoteStays(n), ~NoteOwed(n), Settled(n)' PROVE NoteCalm(n)'
  BY DEF NotesCalm
<1>1. NoteCalm(n) /\ NoteSettled(n)
  BY DEF NotesCalm, NoteStays, NotesSettled
<1> QED BY <1>1, NoteCalmStays

(* Operations on notebooks leave the files, and what the directories of the   *)
(* files are, or give them a notebook that no note is in.                     *)
LEMMA NotesAside ==
    ASSUME Typed, PlacedNow, NotesNow, Running, op.kind \notin NoteKinds, op.kind # "create note",
           UNCHANGED <<notes, baseN, files>>, SameCommand, run'.now = run.now,
           run'.plan \in {run.plan, run.plan \ {op}},
           \A x \in files : x.n \in N =>
             \/ dirs'[x.dir].id = dirs[x.dir].id
             \/ dirs[x.dir].id = 0 /\ dirs'[x.dir].id # notes[x.n] /\ dirs'[x.dir].id # baseN[x.n]
    PROVE  NotesNow'
<1>1. \A o \in run.plan : o.kind \in NoteKinds \cup {"create note"} => o \in run'.plan
  <2>1. op \in run.plan
    BY OpIs
  <2> QED BY <2>1
<1>2. \A n : FilesOf(n)' = FilesOf(n) /\ (Settled(n)' <=> Settled(n))
  BY DEF FilesOf, Settled
<1>3. \A n \in N : NoteStays(n)
  <2> SUFFICES ASSUME NEW n \in N PROVE NoteStays(n)
    OBVIOUS
  <2>1. \A x \in FilesOf(n) : x \in files /\ x.n = n
    BY DEF FilesOf
  <2> QED BY <1>2, <2>1 DEF NoteStays
<1>4. \A n \in N : NoteOwed(n) => NoteOwed(n)'
  BY <1>1 DEF NoteOwed
<1>5. NotesCalm'
  BY <1>3, <1>4, NotesCalmStay DEF NotesNow, PlacedNow
<1>6. DraftsCalm'
  BY <1>1 DEF NotesNow, DraftsCalm, SameCommand
<1>7. NotesDue'
  BY DEF NotesNow, NotesDue
<1> QED BY <1>5, <1>6, <1>7 DEF NotesNow

----------------------------------------------------------------------------
(* Steps: directories.                                                        *)
LEMMA PlanOfNow ==
    ASSUME run'.plan = run.plan, run'.id = run.id, run'.phase # "ask", NEW f
    PROVE  FolderOwed(f) => FolderOwed(f)'
BY SameOp DEF FolderOwed

(* The directories of pull are made where notebooks belong.                   *)
LEMMA DirsAhead ==
    ASSUME Typed, PlacedNow, Running, op.kind \in DirKinds
    PROVE  /\ op \in run.plan /\ DirOps(run.plan) /\ run.created = <<>>
           /\ op.id \in Active /\ op.new = RemotePath[op.id] /\ op.new \in Paths
           /\ \A p \in Proper(op.new) \cup {op.new} : \E g \in Active : RemotePath[g] = p
<1>1. op \in run.plan /\ DirOps(run.plan)
  BY OpIs DEF DirOps
<1>2. op.id \in Active /\ op.new = RemotePath[op.id]
  BY <1>1 DEF PlacedNow, WaysKept, Lodging
<1>3. run.created = <<>>
  BY <1>1 DEF PlacedNow, WaysKept, Announced
<1>4. RemotePath[op.id] \in Paths
  BY <1>2, PathsOfNotebooks DEF Active, Typed
<1>5. \A p \in Proper(RemotePath[op.id]) : \E g \in Active : RemotePath[g] = p
  <2>1. PICK f \in Active : f = op.id
    BY <1>2
  <2> QED BY <2>1, RemoteParents DEF Typed
<1> QED BY <1>1, <1>2, <1>3, <1>4, <1>5

LEMMA MakeDirCalm ==
    ASSUME Typed, KeptNow, PlacedNow, CalmNow, MakeDir
    PROVE  CalmNow'
<1>1. /\ op.kind = "create dir" /\ Running /\ run.phase = "ask"
      /\ dirs' = WithDir(dirs, op.new) /\ run' = [run EXCEPT !.phase = "meta"]
      /\ UNCHANGED <<remote, notes, baseF, baseN, files>>
  BY DEF MakeDir, At, Go
<1>2. run'.phase = "meta" /\ run'.plan = run.plan /\ SameRun /\ run'.id = run.id /\ run'.result = run.result
  BY <1>1, Going
<1>3. /\ op \in run.plan /\ DirOps(run.plan) /\ run.created = <<>>
      /\ op.new \in Paths
      /\ \A p \in Proper(op.new) \cup {op.new} : \E g \in Active : RemotePath[g] = p
  BY <1>1, DirsAhead DEF DirKinds
<1>4. /\ DOMAIN dirs' = DOMAIN dirs \cup Proper(op.new) \cup {op.new}
      /\ \A q \in DOMAIN dirs : dirs'[q] = dirs[q]
      /\ \A q \in DOMAIN dirs' \ DOMAIN dirs : dirs'[q].id = 0
  <2> DEFINE e == WithDir(dirs, op.new)
  <2>1. /\ DOMAIN e = DOMAIN dirs \cup Proper(op.new) \cup {op.new}
        /\ \A q \in DOMAIN dirs : e[q] = dirs[q]
        /\ \A q \in DOMAIN e \ DOMAIN dirs : e[q].id = 0
    <3>1. Tree(dirs)
      BY DEF Typed, TypedDirs
    <3> QED BY <1>3, <3>1, WithDirTree
  <2> HIDE DEF e
  <2>2. dirs' = e
    BY <1>1 DEF e
  <2> QED BY <2>1, <2>2
<1>5. \A p \in DOMAIN dirs' \ DOMAIN dirs : \E g \in Active : RemotePath[g] = p
  BY <1>3, <1>4
<1>6. \A f \in F : FolderSame(f)
  <2> SUFFICES ASSUME NEW f \in F PROVE FolderStays(f)
    BY <1>1 DEF FolderSame
  <2>1. Housed(dirs, f) => Housed(dirs', f)
    BY <1>4 DEF Housed
  <2>2. \A q \in DOMAIN dirs' : Held(dirs', q, f) =>
          \E p \in DOMAIN dirs : Held(dirs, p, f) /\ dirs'[q].title = dirs[p].title
    BY <1>4, NoRootId DEF Held
  <2> QED BY <1>1, <1>2, <1>3, <2>1, <2>2, FolderStaysInDirs
<1>7. FoldersCalm'
  <2>1. \A f : FolderOwed(f) => FolderOwed(f)'
    BY <1>2, PlanOfNow
  <2> QED BY <1>2, <1>6, <2>1, FoldersCalmStay DEF CalmNow, FoldersNow, SameRun
<1>8. RemotePath' = RemotePath /\ Active' = Active
  BY <1>1, SamePaths
<1>9. DirsCalm'
  <2> SUFFICES ASSUME run.push, NEW p \in DOMAIN dirs', dirs'[p].id = 0
               PROVE  \/ \E o \in run.plan : o.kind = "create folder" /\ run.now[o.old] = p
                      \/ \E g \in Active : RemotePath[g] = p
    BY <1>2, <1>3, <1>8 DEF DirsCalm, SameRun, SameWays
  <2>1. CASE p \in DOMAIN dirs
    BY <1>4, <2>1 DEF CalmNow, FoldersNow, DirsCalm
  <2>2. CASE p \notin DOMAIN dirs
    BY <1>5, <2>2
  <2> QED BY <2>1, <2>2
<1>10. ScanKept'
  <2>1. Rising(dirs, dirs')
    BY <1>4 DEF Rising
  <2>2. \A p \in DOMAIN dirs' \ DOMAIN dirs : p \notin DOMAIN run.scan
    BY <1>3, <1>5 DEF CalmNow, FoldersNow, ScanKept
  <2> QED BY <1>1, <1>2, <2>1, <2>2, ScanRises DEF CalmNow, FoldersNow, SameRun, SameWays
<1>11. FoldersDue'
  <2>1. \A o \in run'.plan : o.kind \in RowKinds => FolderStays(o.id)
    <3>1. \A o \in run.plan : o.kind \in RowKinds => o.id \in F
      BY RowIds
    <3> QED BY <1>2, <1>6, <3>1 DEF FolderSame
  <2> QED BY <1>1, <1>2, <2>1, FoldersDueStay DEF CalmNow, FoldersNow
<1>12. NotesNow'
  <2>1. \A x \in files : dirs'[x.dir].id = dirs[x.dir].id
    BY <1>4 DEF Typed, TypedFiles
  <2>2. op.kind \notin NoteKinds /\ op.kind # "create note"
    BY <1>1 DEF NoteKinds
  <2> QED BY <1>1, <1>2, <2>1, <2>2, NotesAside DEF CalmNow, SameRun, SameWays
<1>13. WorkDue'
  BY <1>1, <1>2, SameOp DEF WorkDue, DirKinds
<1> QED BY <1>1, <1>2, <1>7, <1>9, <1>10, <1>11, <1>12, <1>13, WatchedWent DEF CalmNow, FoldersNow

LEMMA RenameDirCalm ==
    ASSUME Typed, KeptNow, PlacedNow, CalmNow, RenameDir, ~spoilt', Watched'
    PROVE  CalmNow'
<1> DEFINE d == WithParents(dirs, op.new)
           now == [p \in DOMAIN run.now |-> Moved(run.now[p], old, op.new)]
<1>1. /\ op.kind = "update dir" /\ op.kind \in DirKinds /\ Running /\ run.phase = "ask"
      /\ UNCHANGED <<remote, notes, baseF, baseN, moved>>
  BY DEF RenameDir, At, DirKinds
<1>2. /\ op \in run.plan /\ DirOps(run.plan) /\ run.created = <<>>
      /\ op.new \in Paths /\ old \in Paths /\ Tree(dirs)
      /\ \A p \in Proper(op.new) \cup {op.new} : \E g \in Active : RemotePath[g] = p
      /\ run.now[op.old] = old /\ op.old \in DOMAIN run.now
      /\ \A o \in run.plan : o.kind # "create dir"
  BY <1>1, DirsAhead, OldAndNew, CreationsFirst DEF TypedOp, Typed, TypedDirs, TypedRun, old, CurrentPath
<1>3. RemotePath' = RemotePath /\ Active' = Active
  BY <1>1, SamePaths
<1>4. \/ old = op.new /\ run' = [run EXCEPT !.phase = "meta"] /\ UNCHANGED <<dirs, files>>
      \/ /\ op.new \notin DOMAIN dirs /\ old \in DOMAIN dirs /\ ~IsPrefix(old, op.new)
         /\ dirs' = MoveTree(d, old, op.new)
         /\ files' = Taken(files, old, op.new)
         /\ run' = [run EXCEPT !.phase = "meta", !.now = now]
         /\ \A f \in Active : ~IsPrefix(old, RemotePath[f])
  BY FailIsNotWatched DEF RenameDir, Fail, Go, Taken
<1> HIDE DEF d
<1>5. CASE old = op.new /\ run' = [run EXCEPT !.phase = "meta"] /\ UNCHANGED <<dirs, files>>
  <2>1. run'.phase = "meta" /\ run'.plan = run.plan /\ SameRun /\ run'.id = run.id /\ run'.result = run.result
    BY <1>5, Going
  <2>2. \A f \in F : FolderSame(f)
    <3>1. \A f \in F : FolderStays(f)
      BY <1>1, <1>5, <2>1, FolderStaysPut DEF SameRun, SameWays
    <3> QED BY <1>1, <3>1 DEF FolderSame
  <2>3. FoldersCalm'
    <3>1. \A f : FolderOwed(f) => FolderOwed(f)'
      BY <2>1, PlanOfNow
    <3> QED BY <2>1, <2>2, <3>1, FoldersCalmStay DEF CalmNow, FoldersNow, SameRun
  <2>4. DirsCalm' /\ ScanKept'
    <3>1. run'.push = run.push /\ run'.now = run.now /\ run'.scan = run.scan /\ dirs' = dirs
      BY <1>5, <2>1 DEF SameRun, SameWays
    <3>2. DirsCalm'
      <4>1. ASSUME run.push, NEW p \in DOMAIN dirs, dirs[p].id = 0
            PROVE  \/ \E o \in run.plan : o.kind = "create folder" /\ run.now[o.old] = p
                   \/ DirOps(run.plan) /\ \E g \in Active : RemotePath[g] = p
        BY <4>1 DEF CalmNow, FoldersNow, DirsCalm
      <4> QED BY <1>3, <2>1, <3>1, <4>1, DirsCalmStay
    <3>3. ScanKept'
      BY <1>3, <2>1, <3>1 DEF CalmNow, FoldersNow, ScanKept
    <3> QED BY <3>2, <3>3
  <2>5. FoldersDue'
    <3>1. \A o \in run.plan : o.kind \in RowKinds => o.id \in F
      BY RowIds
    <3>2. \A o \in run'.plan : o.kind \in RowKinds => FolderStays(o.id)
      BY <2>1, <2>2, <3>1 DEF FolderSame
    <3> QED BY <1>1, <1>5, <2>1, <3>2, FoldersDueStay DEF CalmNow, FoldersNow
  <2>6. NotesNow'
    <3>1. op.kind \notin NoteKinds /\ op.kind # "create note"
      BY <1>1 DEF NoteKinds
    <3> QED BY <1>1, <1>5, <2>1, <3>1, NotesAside DEF CalmNow, SameRun, SameWays
  <2>7. WorkDue'
    BY <1>1, <2>1, SameOp DEF WorkDue
  <2> QED BY <1>1, <2>1, <2>3, <2>4, <2>5, <2>6, <2>7, WatchedWent DEF CalmNow, FoldersNow
<1>6. CASE /\ op.new \notin DOMAIN dirs /\ old \in DOMAIN dirs /\ ~IsPrefix(old, op.new)
           /\ dirs' = MoveTree(d, old, op.new)
           /\ files' = Taken(files, old, op.new)
           /\ run' = [run EXCEPT !.phase = "meta", !.now = now]
           /\ \A f \in Active : ~IsPrefix(old, RemotePath[f])
  <2>1. /\ DOMAIN now = DOMAIN run.now
        /\ \A p \in DOMAIN run.now : now[p] = Moved(run.now[p], old, op.new)
    OBVIOUS
  <2> HIDE DEF now
  <2>2. /\ run'.phase = "meta" /\ run'.plan = run.plan /\ run'.now = now /\ run'.id = run.id
        /\ run'.scan = run.scan /\ SameCommand /\ run'.created = run.created /\ run'.result = run.result
    BY <1>6 DEF Typed, TypedRun, IsRun, SameCommand
  <2>3. /\ Tree(d) /\ DOMAIN d = DOMAIN dirs \cup Proper(op.new)
        /\ \A q \in DOMAIN dirs : d[q] = dirs[q]
        /\ \A q \in DOMAIN d \ DOMAIN dirs : d[q].id = 0
    BY <1>2, WithParentsTree DEF d
  <2>4. Movable(d, old, op.new)
    BY <1>2, <1>6, <2>3, ProperPaths DEF Movable
  <2>5. Carries(dirs', d, old, op.new)
    BY <1>6, <2>4, MoveTreeTree, Zenon
  <2>6. \A q \in DOMAIN dirs' : \E p \in DOMAIN d : q = Moved(p, old, op.new) /\ dirs'[q] = d[p]
    BY <2>5 DEF Carries
  <2>7. \A p \in DOMAIN dirs :
          Moved(p, old, op.new) \in DOMAIN dirs' /\ dirs'[Moved(p, old, op.new)] = dirs[p]
    BY <2>3, <2>5 DEF Carries
  <2>8. \A g \in Active : /\ RemotePath[g] \in Paths
                          /\ Moved(RemotePath[g], old, op.new) = RemotePath[g]
    <3> TAKE g \in Active
    <3>1. RemotePath[g] \in Paths
      BY PathsOfNotebooks DEF Active, Typed
    <3>2. ~IsPrefix(old, RemotePath[g])
      BY <1>6
    <3> QED BY <1>2, <3>1, <3>2, MovedPath
  <2>9. \A f \in F : FolderSame(f)
    <3> SUFFICES ASSUME NEW f \in F PROVE FolderStays(f)
      BY <1>1 DEF FolderSame
    <3>1. Housed(dirs, f) => Housed(dirs', f)
      BY <2>7 DEF Housed
    <3>2. \A q \in DOMAIN dirs' : Held(dirs', q, f) =>
            \E p \in DOMAIN dirs : Held(dirs, p, f) /\ dirs'[q].title = dirs[p].title
      BY <2>3, <2>6, NoRootId DEF Held
    <3> QED BY <1>1, <1>2, <2>2, <3>1, <3>2, FolderStaysInDirs
  <2>10. FoldersCalm'
    <3>1. \A f : FolderOwed(f) => FolderOwed(f)'
      BY <2>2, PlanOfNow
    <3> QED BY <2>2, <2>9, <3>1, FoldersCalmStay DEF CalmNow, FoldersNow
  <2>11. DirsCalm'
    <3> SUFFICES ASSUME run.push, NEW q \in DOMAIN dirs', dirs'[q].id = 0
                 PROVE  \/ \E o \in run.plan : o.kind = "create folder" /\ now[o.old] = q
                        \/ \E g \in Active : RemotePath[g] = q
      BY <1>2, <1>3, <2>2 DEF DirsCalm, SameCommand
    <3>1. PICK p \in DOMAIN d : q = Moved(p, old, op.new) /\ d[p].id = 0
      BY <2>6
    <3>2. CASE \E o \in run.plan : o.kind = "create folder" /\ run.now[o.old] = p
      BY <2>1, <3>1, <3>2 DEF Typed, TypedRun
    <3>3. CASE \E g \in Active : RemotePath[g] = p
      BY <2>8, <3>1, <3>3
    <3>4. CASE p \in DOMAIN dirs
      BY <2>3, <3>1, <3>2, <3>3, <3>4 DEF CalmNow, FoldersNow, DirsCalm
    <3> QED BY <1>2, <2>3, <3>3, <3>4
  <2>12. ScanKept'
    <3>1. \A g \in Active : RemotePath[g] \in DOMAIN run.scan => RemotePath[g] \in DOMAIN dirs
      BY <1>2 DEF CalmNow, FoldersNow, ScanKept
    <3>2. op.new \notin DOMAIN run.scan /\ \A p \in DOMAIN d \ DOMAIN dirs : p \notin DOMAIN run.scan
      <4>1. \A p \in Proper(op.new) \cup {op.new} : p \in DOMAIN run.scan => p \in DOMAIN dirs
        BY <1>2, <3>1
      <4> QED BY <1>6, <2>3, <4>1
    <3>3. ASSUME NEW q \in DOMAIN run.scan, q \in DOMAIN dirs', run.scan[q] # 0
          PROVE  dirs'[q].id = run.scan[q]
      <4>1. PICK p \in DOMAIN d : q = Moved(p, old, op.new) /\ dirs'[q] = d[p]
        BY <2>6, <3>3
      <4>2. ~IsPrefix(old, p)
        <5> SUFFICES ASSUME IsPrefix(old, p) PROVE FALSE
          OBVIOUS
        <5>1. q \in Paths /\ Proper(q) \subseteq DOMAIN run.scan
          BY DEF PlacedNow, WaysKept, Followed
        <5>2. IsPrefix(op.new, q)
          BY <1>2, <2>3, <4>1, MovedUnder DEF Shifted, Tree
        <5> QED BY <1>2, <3>2, <5>1, <5>2, PrefixShape
      <4>3. q = p
        BY <1>2, <2>3, <4>1, <4>2, MovedPath DEF Tree
      <4>4. q \in DOMAIN dirs
        BY <3>2, <4>3
      <4> QED BY <2>3, <3>3, <4>1, <4>3, <4>4 DEF CalmNow, FoldersNow, ScanKept
    <3>4. \A g \in Active : RemotePath[g] \in DOMAIN run.scan => RemotePath[g] \in DOMAIN dirs'
      BY <2>7, <2>8, <3>1
    <3> QED BY <1>3, <2>2, <3>3, <3>4 DEF ScanKept
  <2>13. FoldersDue'
    <3>1. \A o \in run.plan : o.kind \in RowKinds => o.id \in F
      BY RowIds
    <3>2. \A o \in run'.plan : o.kind \in RowKinds => FolderStays(o.id)
      BY <2>2, <2>9, <3>1 DEF FolderSame
    <3> QED BY <1>1, <1>2, <2>2, <3>2, FoldersDueStay DEF CalmNow, FoldersNow
  <2>14. \A x \in files : Moved(x.dir, old, op.new) \in DOMAIN dirs'
                          /\ dirs'[Moved(x.dir, old, op.new)] = dirs[x.dir]
    BY <2>7 DEF Typed, TypedFiles
  <2>15. NotesCalm'
    <3>1. \A n \in N : NoteOwed(n) => NoteOwed(n)'
      <4>1. op' = op
        BY <2>2, SameOp
      <4> QED BY <1>1, <2>2, <4>1 DEF NoteOwed
    <3>2. ASSUME NEW n \in N PROVE NoteStays(n)
      <4>1. FilesOf(n)' = Taken(FilesOf(n), old, op.new) /\ (FilesOf(n) = {} => FilesOf(n)' = {})
        BY <1>6, MovedFilesOf, Zenon
      <4>2. \A x \in FilesOf(n) : x \in files /\ x = File(n, x.dir) /\ x.dir \in DOMAIN dirs
        BY FileShape DEF FilesOf
      <4>3. \A x \in FilesOf(n) : [x EXCEPT !.dir = Moved(@, old, op.new)] = File(n, Moved(x.dir, old, op.new))
        BY <4>2 DEF File
      <4>4. \A p \in DOMAIN dirs : p \in DOMAIN d
        BY <2>3
      <4>5. ASSUME NEW x \in FilesOf(n), NEW y \in FilesOf(n), Settled(n)' PROVE x = y
        <5>1. File(n, Moved(x.dir, old, op.new)) \in FilesOf(n)' /\ File(n, Moved(y.dir, old, op.new)) \in FilesOf(n)'
          BY <4>1, <4>3 DEF Taken
        <5>2. File(n, Moved(x.dir, old, op.new)) = File(n, Moved(y.dir, old, op.new))
          BY <4>5, <5>1 DEF Settled, FilesOf
        <5>3. Moved(x.dir, old, op.new) = Moved(y.dir, old, op.new)
          BY <5>2 DEF File
        <5>4. x.dir = y.dir
          BY <2>4, <4>2, <4>4, <5>3, MovedInjective
        <5> QED BY <4>2, <5>4
      <4>6. Settled(n)' => Settled(n)
        BY <4>5 DEF Settled, FilesOf
      <4>7. ASSUME NEW y \in FilesOf(n)' PROVE \E x \in FilesOf(n) : dirs'[y.dir].id = dirs[x.dir].id
        <5>1. PICK x \in FilesOf(n) : y = File(n, Moved(x.dir, old, op.new))
          BY <4>1, <4>3 DEF Taken
        <5> QED BY <2>14, <4>2, <5>1 DEF File
      <4>8. FilesOf(n)' = {} => FilesOf(n) = {}
        BY <4>1 DEF Taken
      <4> QED BY <1>1, <4>6, <4>7, <4>8 DEF NoteStays
    <3> QED BY <2>2, <3>1, <3>2, NotesCalmStay DEF CalmNow, NotesNow, PlacedNow
  <2>16. DraftsCalm'
    <3> SUFFICES ASSUME run.push, NEW y \in files', y.n = Draft
                 PROVE  \E o \in run.plan : o.kind = "create note" /\ now[o.old] = y.dir
      BY <2>2 DEF DraftsCalm, SameCommand
    <3>1. PICK x \in files : y.n = x.n /\ y.dir = Moved(x.dir, old, op.new)
      <4>1. PICK x \in files : y = [x EXCEPT !.dir = Moved(@, old, op.new)]
        BY <1>6 DEF Taken
      <4>2. x = [n |-> x.n, dir |-> x.dir]
        BY DEF Typed, TypedFiles
      <4>3. y = [n |-> x.n, dir |-> Moved(x.dir, old, op.new)]
        BY <4>1, <4>2
      <4> QED BY <4>3
    <3>2. PICK o \in run.plan : o.kind = "create note" /\ run.now[o.old] = x.dir
      BY <3>1 DEF CalmNow, NotesNow, DraftsCalm
    <3> QED BY <2>1, <3>1, <3>2 DEF Typed, TypedRun
  <2>17. NotesDue'
    BY <1>1, <2>2 DEF CalmNow, NotesNow, NotesDue
  <2>18. WorkDue'
    BY <1>1, <2>2, SameOp DEF WorkDue
  <2> QED BY <1>1, <2>2, <2>10, <2>11, <2>12, <2>13, <2>15, <2>16, <2>17, <2>18, WatchedWent
          DEF CalmNow, FoldersNow, NotesNow
<1> QED BY <1>4, <1>5, <1>6

(* The metadata of a directory is written with what the plan saw.             *)
LEMMA MetaWritten ==
    ASSUME Tree(dirs), NEW p \in DOMAIN dirs, NEW f, f \in 0..NF, NEW t, t \in 1..NT,
           dirs' = WithMeta(dirs, p, f, t)
    PROVE  /\ DOMAIN dirs' = DOMAIN dirs
           /\ dirs'[p].id = f /\ dirs'[p].title = t
           /\ \A q \in DOMAIN dirs : q # p => dirs'[q] = dirs[q]
<1>1. /\ DOMAIN WithMeta(dirs, p, f, t) = DOMAIN dirs
      /\ \A q \in DOMAIN dirs :
           WithMeta(dirs, p, f, t)[q] = IF q = p THEN [id |-> f, title |-> t] ELSE dirs[q]
  BY WithMetaTree
<1> QED BY <1>1

LEMMA WriteMetaCalm ==
    ASSUME Typed, KeptNow, PlacedNow, CalmNow, WriteMeta
    PROVE  CalmNow'
<1>1. /\ op.kind \in DirKinds /\ Running /\ run.phase = "meta"
      /\ UNCHANGED <<remote, notes, baseF, baseN, files>>
      /\ dirs' = WithMeta(dirs, op.new, op.id, op.saw.title)
      /\ run' = [run EXCEPT !.phase = "commit"]
  BY DEF WriteMeta, At, Go, DirKinds
<1>2. /\ run'.phase = "commit" /\ run'.plan = run.plan /\ SameRun /\ run'.id = run.id
      /\ run'.result = run.result /\ op' = op
  BY <1>1, Going, SameOp
<1>3. /\ op \in run.plan /\ DirOps(run.plan) /\ run.created = <<>> /\ op.id \in F
  BY <1>1, DirsAhead DEF Active
<1>4. op.id \in 0..NF /\ op.id # 0 /\ op.saw.title \in 1..NT /\ Tree(dirs)
  <2>1. op.id \in 0..NF /\ op.id # 0
    BY <1>3, Bounds DEF F
  <2>2. op.saw.title \in 1..NT
    BY <1>1, OldAndNew DEF TypedOp, Row, DirKinds
  <2> QED BY <2>1, <2>2 DEF Typed, TypedDirs
<1>5. op.new \in DOMAIN dirs /\ (op.kind = "create dir" => dirs[op.new].id = 0)
      /\ (op.kind = "update dir" => dirs[op.new].id = op.id)
  <2>1. CASE op.kind = "create dir"
    <3>1. op.new \in DOMAIN dirs /\ op \notin OnlyRow
      BY <1>1, <2>1 DEF KeptNow, PhaseKept, OnlyRow
    <3> QED BY <1>3, <2>1, <3>1 DEF KeptNow, PlanKept, CreateKept
  <2>2. CASE op.kind = "update dir"
    BY <1>1, <1>3, <2>2 DEF KeptNow, PhaseKept, PlanKept, MoveKept, old, CurrentPath
  <2> QED BY <1>1, <2>1, <2>2 DEF DirKinds
<1>6. /\ DOMAIN dirs' = DOMAIN dirs
      /\ dirs'[op.new].id = op.id /\ dirs'[op.new].title = op.saw.title
      /\ \A q \in DOMAIN dirs : q # op.new => dirs'[q] = dirs[q]
  BY <1>1, <1>4, <1>5, MetaWritten
<1>7. FolderDue(op)
  BY <1>3 DEF CalmNow, FoldersNow, FoldersDue
<1>8. \A f \in F : f # op.id => FolderSame(f)
  <2> SUFFICES ASSUME NEW f \in F, f # op.id PROVE FolderStays(f)
    BY <1>1 DEF FolderSame
  <2>1. f # 0
    BY NoRootId
  <2>2. Housed(dirs, f) => Housed(dirs', f)
    BY <1>1, <1>5, <1>6, <2>1 DEF Housed, DirKinds
  <2>3. \A q \in DOMAIN dirs' : Held(dirs', q, f) =>
          \E p \in DOMAIN dirs : Held(dirs, p, f) /\ dirs'[q].title = dirs[p].title
    BY <1>6 DEF Held
  <2> QED BY <1>1, <1>2, <1>3, <2>2, <2>3, FolderStaysInDirs
<1>9. FoldersCalm'
  <2>1. \A f : FolderOwed(f) => FolderOwed(f)'
    BY <1>2, PlanOfNow
  <2>2. \A f \in F : f = op.id => FolderOwed(f)'
    BY <1>1, <1>2, <1>3 DEF FolderOwed
  <2> QED BY <1>2, <1>8, <2>1, <2>2, FoldersCalmStay DEF CalmNow, FoldersNow, SameRun
<1>10. RemotePath' = RemotePath /\ Active' = Active
  BY <1>1, SamePaths
<1>11. DirsCalm'
  <2>1. run'.push = run.push /\ run'.now = run.now
    BY <1>2 DEF SameRun, SameWays
  <2>2. \A p \in DOMAIN dirs' : dirs'[p].id = 0 => p \in DOMAIN dirs /\ dirs[p].id = 0
    BY <1>4, <1>6
  <2> QED BY <1>2, <1>10, <2>1, <2>2 DEF CalmNow, FoldersNow, DirsCalm
<1>12. ScanKept'
  <2>1. Rising(dirs, dirs')
    BY <1>1, <1>5, <1>6 DEF Rising, DirKinds
  <2> QED BY <1>1, <1>2, <1>6, <2>1, ScanRises DEF CalmNow, FoldersNow, SameRun, SameWays
<1>13. FoldersDue'
  <2>1. \A o \in run.plan : o.kind \in RowKinds => o.id \in F /\ o.id # op.id
    BY <1>1, <1>7, RowIds DEF FolderDue
  <2>2. \A o \in run'.plan : o.kind \in RowKinds => FolderStays(o.id)
    BY <1>2, <1>8, <2>1 DEF FolderSame
  <2> QED BY <1>1, <1>2, <2>2, FoldersDueStay DEF CalmNow, FoldersNow
<1>14. NotesNow'
  <2>1. \A x \in files : dirs'[x.dir].id = dirs[x.dir].id
    <3> TAKE x \in files
    <3>1. x.dir \in DOMAIN dirs
      BY DEF Typed, TypedFiles
    <3>2. x.dir = op.new => op.kind = "update dir"
      BY <1>1, <1>7 DEF FolderDue, DirKinds
    <3> QED BY <1>5, <1>6, <3>1, <3>2
  <2>2. op.kind \notin NoteKinds /\ op.kind # "create note"
    BY <1>1 DEF NoteKinds, DirKinds
  <2> QED BY <1>1, <1>2, <2>1, <2>2, NotesAside DEF CalmNow, SameRun, SameWays
<1>15. WorkDue'
  BY <1>1, <1>2, <1>5, <1>6 DEF WorkDue, DirKinds, Held
<1> QED BY <1>1, <1>2, <1>9, <1>11, <1>12, <1>13, <1>14, <1>15, WatchedWent DEF CalmNow, FoldersNow

(* A run between two operations.                                              *)
LEMMA AskDue ==
    ASSUME run'.phase = "ask"
    PROVE  WorkDue'
BY DEF WorkDue

(* An operation of another kind leaves the rest of the plan to do.            *)
LEMMA StillOwed ==
    ASSUME run'.plan = run.plan \ {op}, NEW f,
           op.kind \in DirKinds \cup RowKinds => op.id # f,
           op.kind = "create folder" => run.phase = "ask" \/ run.id # f
    PROVE  FolderOwed(f) => FolderOwed(f)'
BY DEF FolderOwed

(* When every notebook is where it belongs, the directories around are those  *)
(* of the notebooks above.                                                    *)
LEMMA ArrivedParent ==
    ASSUME Typed, Unique(dirs), \A g \in Active : Held(dirs, RemotePath[g], g),
           NEW f \in Active, NEW p \in DOMAIN dirs, Held(dirs, p, f)
    PROVE  (IF Len(p) = 1 THEN Root ELSE dirs[Parent(p)].id) = remote[f].parent
<1>1. p = RemotePath[f]
  BY NoRootId DEF Held, Unique, Active
<1>2. /\ RemotePath[f] = IF remote[f].parent = Root THEN <<DirName(f)>>
                         ELSE RemotePath[remote[f].parent] \o <<DirName(f)>>
      /\ DirName(f) \in Component
  BY RemotePathStep, DirNameShape DEF Active, Typed
<1>3. CASE remote[f].parent = Root
  <2>1. Len(<<DirName(f)>>) = 1
    OBVIOUS
  <2> QED BY <1>1, <1>2, <1>3, <2>1
<1>4. CASE remote[f].parent # Root
  <2> DEFINE h == remote[f].parent
             q == RemotePath[h]
             c == DirName(f)
  <2>1. h \in Active /\ Held(dirs, q, h) /\ q \in Paths
    <3>1. h \in F /\ remote[h] # None
      BY <1>4 DEF Typed, Forest, Row, Active
    <3> QED BY <3>1, PathsOfNotebooks DEF Active, Typed
  <2>2. p = Child(q, c)
    BY <1>1, <1>2, <1>4 DEF Child
  <2> HIDE DEF h, q, c
  <2>3. Len(p) # 1 /\ Parent(p) = q
    <3>0. c \in Component
      BY <1>2 DEF c
    <3>1. p \in Paths /\ Len(p) = Len(q) + 1 /\ Len(q) \in Nat /\ Len(q) >= 1
      BY <2>1, <2>2, <3>0, ChildShape, PathShape
    <3>2. Len(p) # 1
      BY <3>1
    <3>3. p = Child(Parent(p), p[Len(p)]) /\ Parent(p) \in Paths
      BY <3>1, <3>2, LastChild, ParentShape
    <3>4. p[Len(p)] \in Component
      BY <3>1, PathShape
    <3> QED BY <2>1, <2>2, <3>0, <3>2, <3>3, <3>4, ChildSame
  <2> QED BY <2>1, <2>3 DEF Held, h
<1> QED BY <1>3, <1>4

LEMMA CommitDirCalm ==
    ASSUME Typed, KeptNow, PlacedNow, CalmNow, CommitDir
    PROVE  CalmNow'
<1>1. /\ Running /\ run' = Ended(TRUE)
      /\ UNCHANGED <<remote, notes, dirs, files, baseN>>
      /\ baseF' = [baseF EXCEPT ![op.id] = op.saw]
      /\ \/ op.kind \in DirKinds /\ run.phase = "commit"
         \/ op.kind = "update folder" /\ run.phase = "commit"
         \/ op.kind = "adopt"
  BY DEF CommitDir, At, Done, DirKinds
<1>2. /\ run'.phase = "ask" /\ run'.plan = run.plan \ {op} /\ SameRun /\ op \in run.plan
      /\ (run'.result = "ok" => run'.plan = {})
  BY <1>1, WellEnds
<1>3. op.kind \in DirKinds \cup RowKinds /\ op.kind # "create folder"
      /\ op.kind \notin NoteKinds /\ op.kind # "create note"
  BY <1>1 DEF DirKinds, RowKinds, NoteKinds
<1>4. FolderDue(op) /\ op.id \in F /\ op.id # 0 /\ DOMAIN baseF = F
  <2>1. op.id \in F
    BY <1>2, <1>3, DirsAhead, RowIds, <1>1 DEF Active
  <2> QED BY <1>2, <2>1, NoRootId DEF CalmNow, FoldersNow, FoldersDue, KeptNow, KeptBase
<1>5. baseF'[op.id] = op.saw /\ \A f \in F : f # op.id => baseF'[f] = baseF[f]
  BY <1>1, <1>4
<1>6. remote[op.id] = op.saw
  BY <1>1, <1>4 DEF FolderDue, CalmNow, WorkDue, DirKinds
<1>7. \A p, q \in DOMAIN dirs : Held(dirs, p, op.id) /\ Held(dirs, q, op.id) => p = q
  BY <1>4 DEF KeptNow, Unique, Held
<1>8. RemotePath' = RemotePath /\ Active' = Active
  BY <1>1, SamePaths
(* What the directories say, also when they say it for the first time.       *)
<1>9. ~DirOps(run'.plan) /\ DirOps(run.plan) => \A g \in Active : Held(dirs, RemotePath[g], g)
  <2> SUFFICES ASSUME ~DirOps(run'.plan), DirOps(run.plan)
               PROVE  \A g \in Active : Held(dirs, RemotePath[g], g)
    OBVIOUS
  <2>1. op.kind \in DirKinds
    BY <1>2 DEF DirOps
  <2>2. op.new = RemotePath[op.id] /\ Held(dirs, op.new, op.id)
    BY <1>1, <2>1, DirsAhead DEF CalmNow, WorkDue, DirKinds, RowKinds
  <2>3. ASSUME NEW g \in Active PROVE Lodged(dirs, g)
    <3> SUFFICES ASSUME ~Lodged(dirs, g) PROVE FALSE
      OBVIOUS
    <3>1. Owed(run.plan, g)
      BY <2>3 DEF PlacedNow, WaysKept, Lodging
    <3>2. PICK o \in run.plan : o.kind \in DirKinds /\ o.id = g
      BY <3>1 DEF Owed
    <3>3. o = op
      BY <1>2, <3>2 DEF DirOps
    <3> QED BY <2>2, <3>2, <3>3 DEF Lodged
  <2>4. Forest(remote) /\ Tree(dirs) /\ Unique(dirs)
    BY DEF Typed, TypedDirs, KeptNow
  <2> QED BY <2>3, <2>4, Arrive
<1>10. DirOps(run'.plan) => DirOps(run.plan)
  BY <1>2 DEF DirOps
<1>11. \A f \in F, p \in DOMAIN dirs : Held(dirs, p, f) =>
         Becoming(p, f)' = Becoming(p, f) /\ (Under(p)' <=> Under(p))
  <2> SUFFICES ASSUME NEW f \in F, NEW p \in DOMAIN dirs, Held(dirs, p, f)
               PROVE  Becoming(p, f)' = Becoming(p, f) /\ (Under(p)' <=> Under(p))
    OBVIOUS
  <2>1. Under(p)' <=> Under(p)
    BY <1>2 DEF Under, SameRun, SameWays
  <2>2. CASE DirOps(run'.plan) <=> DirOps(run.plan)
    BY <1>1, <2>1, <2>2 DEF Becoming
  <2>3. CASE ~DirOps(run'.plan) /\ DirOps(run.plan)
    <3>1. f \in Active
      BY NoRootId DEF Held, Typed, TypedDirs, Known, Root
    <3>2. (IF Len(p) = 1 THEN Root ELSE dirs[Parent(p)].id) = remote[f].parent
      BY <1>9, <2>3, <3>1, ArrivedParent DEF KeptNow
    <3> QED BY <1>1, <2>1, <2>3, <3>2 DEF Becoming
  <2> QED BY <1>10, <2>2, <2>3
<1>12. \A f \in F : FolderStays(f)
  BY <1>1, <1>11 DEF FolderStays, Stays
<1>13. ASSUME NEW f \in F, f = op.id PROVE FolderCalm(f)'
  <2>1. ASSUME NEW p \in DOMAIN dirs, Held(dirs, p, f) PROVE RowCalm(p, f)'
    <3>1. Becoming(p, f)' = Becoming(p, f) /\ (Under(p)' <=> Under(p))
      BY <1>11, <2>1
    <3>2. Becoming(p, f) = op.saw \/ Under(p)
      <4>1. CASE op.kind \in DirKinds
        <5>1. p = op.new /\ dirs[p].title = op.saw.title
          BY <1>1, <1>7, <1>13, <2>1, <4>1 DEF CalmNow, WorkDue, DirKinds, RowKinds, Held
        <5>2. DirOps(run.plan)
          BY <1>2, <4>1 DEF DirOps
        <5>3. op.saw \in Row
          BY <1>2, <4>1 DEF Typed, TypedRun, TypedOp, DirKinds
        <5>4. op.saw = [title |-> op.saw.title, parent |-> op.saw.parent]
          BY <5>3 DEF Row
        <5> QED BY <1>6, <1>13, <5>1, <5>2, <5>4 DEF Becoming
      <4>2. CASE op.kind \in RowKinds
        <5>1. Sees(op.id, op.saw)
          BY <1>4, <4>2 DEF FolderDue
        <5>2. PICK q \in DOMAIN dirs : Held(dirs, q, f) /\ (Becoming(q, f) = op.saw \/ Under(q))
          BY <1>13, <5>1 DEF Sees
        <5> QED BY <1>7, <1>13, <2>1, <5>2
      <4> QED BY <1>3, <4>1, <4>2
    <3>3. remote'[f] = op.saw /\ baseF'[f] = op.saw
      BY <1>1, <1>5, <1>6, <1>13
    <3>4. PICK row : row = op.saw
      OBVIOUS
    <3>5. remote'[f] = row /\ baseF'[f] = row /\ (Becoming(p, f)' = row \/ Under(p)')
      BY <3>1, <3>2, <3>3, <3>4
    <3> QED BY <3>5 DEF RowCalm
  <2>2. Housed(dirs, f)
    <3>1. CASE op.kind \in DirKinds
      <4>1. Held(dirs, op.new, op.id)
        BY <1>1, <3>1 DEF CalmNow, WorkDue, RowKinds, DirKinds
      <4> QED BY <1>13, <4>1 DEF Held, Housed
    <3>2. CASE op.kind \in RowKinds
      <4>1. Sees(op.id, op.saw)
        BY <1>4, <3>2 DEF FolderDue
      <4> QED BY <1>13, <4>1 DEF Sees, Held, Housed
    <3> QED BY <1>3, <3>1, <3>2
  <2>3. dirs' = dirs
    BY <1>1
  <2> QED BY <2>1, <2>2, <2>3 DEF FolderCalm
<1>14. FoldersCalm'
  <2> SUFFICES ASSUME NEW f \in F
               PROVE  FolderCalm(f)' \/ FolderOwed(f)' \/ (FolderSame(f) /\ ~FolderOwed(f))
    BY <1>2, FoldersCalmStay DEF CalmNow, FoldersNow, SameRun
  <2>1. CASE f = op.id
    BY <1>13, <2>1
  <2>2. CASE f # op.id
    <3>1. FolderSame(f)
      BY <1>1, <1>5, <1>12, <2>2 DEF FolderSame
    <3>2. FolderOwed(f) => FolderOwed(f)'
      BY <1>2, <1>3, <2>2, StillOwed
    <3> QED BY <3>1, <3>2
  <2> QED BY <2>1, <2>2
<1>15. DirsCalm'
  <2>1. ASSUME run.push, NEW p \in DOMAIN dirs, dirs[p].id = 0
        PROVE  \/ \E o \in run'.plan : o.kind = "create folder" /\ run.now[o.old] = p
               \/ DirOps(run'.plan) /\ \E g \in Active : RemotePath[g] = p
    <3>1. CASE \E o \in run.plan : o.kind = "create folder" /\ run.now[o.old] = p
      BY <1>2, <1>3, <3>1
    <3>2. CASE DirOps(run.plan) /\ \E g \in Active : RemotePath[g] = p
      BY <1>9, <2>1, <3>2, NoRootId DEF Held, Active
    <3> QED BY <2>1, <3>1, <3>2 DEF CalmNow, FoldersNow, DirsCalm
  <2>2. dirs' = dirs /\ run'.push = run.push /\ run'.now = run.now
    BY <1>1, <1>2 DEF SameRun, SameWays, SameCommand
  <2>3. Active' = Active /\ RemotePath' = RemotePath
    BY <1>8
  <2> QED BY <2>1, <2>2, <2>3, DirsCalmStay
<1>16. ScanKept'
  BY <1>1, <1>2, NoRise, ScanRises DEF CalmNow, FoldersNow, SameRun, SameWays
<1>17. FoldersDue'
  <2>1. \A o \in run'.plan : o.kind \in RowKinds => FolderStays(o.id)
    BY <1>2, <1>12, RowIds
  <2> QED BY <1>1, <1>2, <2>1, FoldersDueStay DEF CalmNow, FoldersNow
<1>18. NotesNow'
  BY <1>1, <1>2, <1>3, NotesAside DEF CalmNow, SameRun, SameWays
<1> QED BY <1>2, <1>14, <1>15, <1>16, <1>17, <1>18, AskDue DEF CalmNow, FoldersNow

----------------------------------------------------------------------------
(* Steps: notebooks.                                                          *)

(* An operation on notebooks, when no directory is left to create or to       *)
(* rename, that leaves directories and files alone.                           *)
LEMMA PushAside ==
    ASSUME Typed, KeptNow, PlacedNow, CalmNow, Running, op.kind \notin DirKinds,
           op.kind \notin NoteKinds, op.kind # "create note",
           UNCHANGED <<notes, dirs, files, baseN>>, SameRun,
           run'.plan \in {run.plan, run.plan \ {op}},
           \A o \in run'.plan : o.kind = "adopt" => remote'[o.id] = remote[o.id],
           \A p \in DOMAIN dirs, o \in run.plan \ run'.plan :
             dirs[p].id = 0 /\ o.kind = "create folder" => run.now[o.old] # p
    PROVE  /\ \A f : FolderStays(f)
           /\ DirsCalm' /\ ScanKept' /\ FoldersDue' /\ NotesNow'
<1>1. ~DirOps(run.plan) /\ ~DirOps(run'.plan)
  BY DirsFirst DEF DirOps
<1>2. \A f : FolderStays(f)
  BY <1>1, FolderStaysPut DEF SameRun, SameWays
<1>3. DirsCalm'
  <2>1. ASSUME run.push, NEW p \in DOMAIN dirs, dirs[p].id = 0
        PROVE  \E o \in run'.plan : o.kind = "create folder" /\ run.now[o.old] = p
    <3>1. PICK o \in run.plan : o.kind = "create folder" /\ run.now[o.old] = p
      BY <1>1, <2>1 DEF CalmNow, FoldersNow, DirsCalm
    <3> QED BY <2>1, <3>1
  <2>2. dirs' = dirs /\ run'.push = run.push /\ run'.now = run.now
    BY DEF SameRun, SameWays, SameCommand
  <2> QED BY <2>1, <2>2, DirsCalmStay
<1>4. ScanKept'
  BY <1>1, NoRise, ScanRises DEF CalmNow, FoldersNow, SameRun, SameWays
<1>5. FoldersDue'
  BY <1>1, <1>2, FoldersDueStay DEF CalmNow, FoldersNow, DirOps
<1>6. NotesNow'
  BY NotesAside DEF CalmNow, SameRun, SameWays
<1> QED BY <1>2, <1>3, <1>4, <1>5, <1>6

LEMMA UnusedIsFresh ==
    ASSUME Typed, BaseNow, NEW f \in Unused
    PROVE  f \in F /\ f \notin Known /\ f # 0 /\ f # None /\ Fresh(f)
<1>1. f \in F /\ f \notin Known /\ f # 0 /\ f # None
  BY Bounds DEF Unused, Known, Active, F, Root
<1>2. ASSUME NEW g \in F, remote[g] # None PROVE remote[g].parent # f
  BY <1>1, <1>2 DEF Typed, Forest, Row, Known, Active
<1>3. \A g \in F : baseF[g] # None => baseF[g].parent # f
  BY <1>1 DEF BaseNow, RowsNow
<1>4. \A n \in N : notes[n] # f /\ baseN[n] # f
  BY <1>1 DEF BaseNow, Typed, TypedNotes
<1> QED BY <1>1, <1>2, <1>3, <1>4 DEF Fresh

LEMMA CreateFolderCalm ==
    ASSUME Typed, KeptNow, PlacedNow, BaseNow, CalmNow, CreateFolder, Watched'
    PROVE  CalmNow'
<1> DEFINE parent == IF Len(old) = 1 THEN Root ELSE ResolveFolder(Parent(old))
           new0 == CHOOSE g \in Unused : \A h \in Unused : g <= h
<1>1. /\ op.kind = "create folder" /\ Running /\ run.phase = "ask" /\ op \in run.plan
      /\ UNCHANGED <<notes, dirs, files, baseF, baseN>>
  BY OpIs DEF CreateFolder, At
<1>2. /\ Len(old) > 1 => parent # Root
      /\ Unused # {}
      /\ remote' = [remote EXCEPT ![new0] = [title |-> op.saw.title, parent |-> parent]]
      /\ run' = [run EXCEPT !.phase = "meta", !.id = new0]
  <2>1. run' # Ended(FALSE)
    BY FailIsNotWatched
  <2> QED BY <2>1 DEF CreateFolder, Fail
<1>3. new0 \in Unused
  <2>1. Unused \subseteq Nat
    BY Bounds DEF Unused, F
  <2>2. \E g \in Unused : \A h \in Unused : g <= h
    BY <1>2, <2>1, Least
  <2> QED BY <2>2
<1>4. PICK f \in Unused : f = new0
  BY <1>3
<1>5. parent \in Known
  BY Resolved DEF Known
<1>6. PICK above \in Known : above = parent
  BY <1>5
<1>7. /\ Len(old) > 1 => above # Root
      /\ remote' = [remote EXCEPT ![f] = [title |-> op.saw.title, parent |-> above]]
      /\ run' = [run EXCEPT !.phase = "meta", !.id = f]
  BY <1>2, <1>4, <1>6
<1>8. above = IF Len(old) = 1 THEN Root ELSE ResolveFolder(Parent(old))
  BY <1>6
<1> HIDE DEF parent, new0
<1>9. /\ run'.phase = "meta" /\ run'.plan = run.plan /\ SameRun /\ run'.id = f
      /\ run'.result = run.result /\ op' = op /\ old' = old
  BY <1>7, Going, SameOp DEF SameRun, SameWays
<1>10. f \in F /\ f \notin Known /\ f # 0 /\ f # None /\ Fresh(f)
  BY UnusedIsFresh
<1>11. /\ remote'[f] = [title |-> op.saw.title, parent |-> above]
       /\ \A g \in F : g # f => remote'[g] = remote[g]
  BY <1>7, <1>10 DEF Typed, Forest
<1>12. op.kind \notin DirKinds /\ op.kind \notin NoteKinds /\ op.kind # "create note"
  BY <1>1 DEF DirKinds, NoteKinds
<1>13. /\ \A g : FolderStays(g)
       /\ DirsCalm' /\ ScanKept' /\ FoldersDue' /\ NotesNow'
  <2>1. \A o \in run.plan : o.kind = "adopt" => o.id \in F /\ o.id \in Known
    BY RowIds DEF Typed, TypedRun, TypedOp, RowKinds
  <2>2. \A o \in run.plan : o.kind = "adopt" => remote'[o.id] = remote[o.id]
    BY <1>10, <1>11, <2>1
  <2> QED BY <1>1, <1>9, <1>12, <2>2, PushAside
<1>14. FoldersCalm'
  <2>1. \A g : FolderOwed(g) => FolderOwed(g)'
    BY <1>1, <1>9 DEF FolderOwed
  <2>2. FolderOwed(f)'
    BY <1>1, <1>9, SameOp DEF FolderOwed
  <2>3. \A g \in F : g # f => FolderSame(g)
    BY <1>1, <1>11, <1>13 DEF FolderSame
  <2> QED BY <1>9, <2>1, <2>2, <2>3, FoldersCalmStay DEF CalmNow, FoldersNow, SameRun
<1>15. \/ above = (IF Len(old) = 1 THEN Root ELSE dirs[Parent(old)].id)
       \/ Len(old) # 1 /\ MadeAt(run.created, Parent(old))
  <2>1. old \in DOMAIN dirs /\ old \in Paths
    BY <1>1 DEF KeptNow, PlanKept, AnnounceKept, old, CurrentPath, Typed, TypedDirs, Tree
  <2> SUFFICES ASSUME Len(old) # 1, ~MadeAt(run.created, Parent(old))
               PROVE  above = dirs[Parent(old)].id
    BY <1>8
  <2>2. Parent(old) \in DOMAIN dirs /\ Len(old) > 1
    BY <2>1, ParentShape, PathShape DEF Typed, TypedDirs, Tree
  <2>3. CreatedHere(Parent(old)) = {}
    BY DEF CreatedHere, MadeAt
  <2>4. Parent(old) \in DOMAIN run.scan /\ above = run.scan[Parent(old)] /\ above # Root
    BY <1>7, <1>8, <2>2, <2>3 DEF ResolveFolder
  <2> QED BY <2>2, <2>4 DEF CalmNow, FoldersNow, ScanKept, Root
<1>16. Fresh(f)'
  <2>1. \A g \in F : remote'[g] # None => remote'[g].parent # f
    BY <1>10, <1>11 DEF Fresh
  <2> QED BY <1>1, <1>10, <2>1 DEF Fresh
<1>17. WorkDue'
  <2>1. run'.id = f /\ run'.created = run.created /\ dirs' = dirs
    BY <1>1, <1>9 DEF SameRun, SameWays
  <2>2. remote'[f].title = op.saw.title /\ remote'[f].parent = above
    BY <1>11
  <2>3. Fresh(run.id)'
    BY <1>16, <2>1 DEF Fresh
  <2> QED BY <1>1, <1>9, <1>15, <2>1, <2>2, <2>3 DEF WorkDue, DirKinds
<1> QED BY <1>1, <1>9, <1>13, <1>14, <1>17, WatchedWent DEF CalmNow, FoldersNow

LEMMA UpdateFolderCalm ==
    ASSUME Typed, KeptNow, PlacedNow, CalmNow, UpdateFolder, Watched'
    PROVE  CalmNow'
<1>1. /\ op.kind = "update folder" /\ Running /\ run.phase = "ask" /\ op \in run.plan
      /\ UNCHANGED <<notes, dirs, files, baseF, baseN>>
      /\ remote' = [remote EXCEPT ![op.id] = op.saw]
      /\ run' = [run EXCEPT !.phase = "commit"]
  <2>1. run' # Ended(FALSE)
    BY FailIsNotWatched
  <2> QED BY <2>1, OpIs DEF UpdateFolder, Fail, At, Go
<1>2. /\ run'.phase = "commit" /\ run'.plan = run.plan /\ SameRun /\ run'.id = run.id
      /\ run'.result = run.result /\ op' = op
  BY <1>1, Going, SameOp
<1>3. op.id \in F /\ FolderDue(op)
  BY <1>1, RowIds DEF RowKinds, CalmNow, FoldersNow, FoldersDue
<1>4. remote'[op.id] = op.saw /\ \A g \in F : g # op.id => remote'[g] = remote[g]
  BY <1>1, <1>3 DEF Typed, Forest
<1>5. op.kind \notin DirKinds /\ op.kind \notin NoteKinds /\ op.kind # "create note"
  BY <1>1 DEF DirKinds, NoteKinds
<1>6. /\ \A g : FolderStays(g)
      /\ DirsCalm' /\ ScanKept' /\ FoldersDue' /\ NotesNow'
  <2>1. \A o \in run.plan : o.kind = "adopt" => o.id \in F /\ o.id # op.id
    BY <1>1, <1>3, RowIds DEF RowKinds, FolderDue
  <2>2. \A o \in run.plan : o.kind = "adopt" => remote'[o.id] = remote[o.id]
    BY <1>4, <2>1
  <2> QED BY <1>1, <1>2, <1>5, <2>2, PushAside
<1>7. FoldersCalm'
  <2>1. \A g : FolderOwed(g) => FolderOwed(g)'
    BY <1>2, PlanOfNow
  <2>2. \A g \in F : g = op.id => FolderOwed(g)'
    BY <1>1, <1>2 DEF FolderOwed, RowKinds
  <2>3. \A g \in F : g # op.id => FolderSame(g)
    BY <1>1, <1>4, <1>6 DEF FolderSame
  <2> QED BY <1>2, <2>1, <2>2, <2>3, FoldersCalmStay DEF CalmNow, FoldersNow, SameRun
<1>8. WorkDue'
  BY <1>1, <1>2, <1>4 DEF WorkDue, DirKinds
<1> QED BY <1>1, <1>2, <1>6, <1>7, <1>8, WatchedWent DEF CalmNow, FoldersNow

LEMMA CommitNewFolderCalm ==
    ASSUME Typed, KeptNow, PlacedNow, CalmNow, CommitNewFolder
    PROVE  CalmNow'
<1>1. /\ op.kind = "create folder" /\ Running /\ run.phase = "commit" /\ op \in run.plan
      /\ UNCHANGED <<remote, notes, dirs, files, baseN>>
      /\ baseF' = [baseF EXCEPT ![run.id] = remote[run.id]]
      /\ run' = Ended(TRUE)
  BY OpIs DEF CommitNewFolder, At, Done
<1>2. /\ run'.phase = "ask" /\ run'.plan = run.plan \ {op} /\ SameRun
      /\ (run'.result = "ok" => run'.plan = {})
  BY <1>1, WellEnds
<1>3. op.kind \notin DirKinds /\ op.kind \notin RowKinds /\ op.kind \notin NoteKinds /\ op.kind # "create note"
  BY <1>1 DEF DirKinds, NoteKinds, RowKinds
<1>4. PICK f \in F : f = run.id /\ remote[f] # None
  BY <1>1 DEF Typed, TypedPhase, Active
<1>5. /\ remote[f].title = op.saw.title
      /\ \/ remote[f].parent = (IF Len(old) = 1 THEN Root ELSE dirs[Parent(old)].id)
         \/ Len(old) # 1 /\ MadeAt(run.created, Parent(old))
      /\ Held(dirs, old, f) /\ dirs[old].title = op.saw.title
  BY <1>1, <1>4 DEF CalmNow, WorkDue
<1>6. baseF'[f] = remote[f] /\ \A g \in F : g # f => baseF'[g] = baseF[g]
  BY <1>1, <1>4 DEF KeptNow, KeptBase
<1>7. /\ \A g : FolderStays(g)
      /\ DirsCalm' /\ ScanKept' /\ FoldersDue' /\ NotesNow'
  <2>1. \A p \in DOMAIN dirs : dirs[p].id = 0 => run.now[op.old] # p
    BY <1>5, NoRootId DEF Held, old, CurrentPath
  <2> QED BY <1>1, <1>2, <1>3, <2>1, PushAside
<1>8. FolderCalm(f)'
  <2>1. ~DirOps(run'.plan)
    BY <1>1, <1>2, <1>3, DirsFirst DEF DirOps
  <2>2. ASSUME NEW p \in DOMAIN dirs, Held(dirs, p, f) PROVE RowCalm(p, f)'
    <3>1. p = old
      BY <1>5, <2>2, NoRootId DEF Held, KeptNow, Unique
    <3>2. PICK q : q = old
      OBVIOUS
    <3>3. remote[f] = [title |-> remote[f].title, parent |-> remote[f].parent]
      BY <1>4 DEF Typed, Forest, Row
    <3>4. Becoming(p, f)' = remote[f] \/ Under(p)'
      BY <1>1, <1>2, <1>5, <2>1, <3>1, <3>3 DEF Becoming, Under, SameRun, SameWays
    <3> QED BY <1>1, <1>6, <3>4 DEF RowCalm
  <2>3. Housed(dirs, f) /\ dirs' = dirs
    BY <1>1, <1>5 DEF Held, Housed
  <2> QED BY <2>2, <2>3 DEF FolderCalm
<1>9. FoldersCalm'
  <2>1. \A g \in F : g # f => (FolderOwed(g) => FolderOwed(g)')
    BY <1>2, <1>3, <1>4, StillOwed
  <2>2. \A g \in F : g # f => FolderSame(g)
    BY <1>1, <1>6, <1>7 DEF FolderSame
  <2> QED BY <1>2, <1>8, <2>1, <2>2, FoldersCalmStay DEF CalmNow, FoldersNow, SameRun
<1> QED BY <1>2, <1>7, <1>9, AskDue DEF CalmNow, FoldersNow

LEMMA MadeAppended ==
    ASSUME Typed, NEW p \in Paths, NEW f \in F, NEW created, created = Append(run.created, <<p, f>>)
    PROVE  MadeAt(created, p) /\ \A q : MadeAt(run.created, q) => MadeAt(created, q)
<1> DEFINE P == Paths \X F
           pair == <<p, f>>
           s == run.created
<1>1. s \in Seq(P) /\ pair \in P /\ created = Append(s, pair) /\ pair[1] = p
  BY DEF Typed, TypedRun
<1> HIDE DEF P, pair, s
<1>2. /\ Append(s, pair) \in Seq(P) /\ Len(Append(s, pair)) = Len(s) + 1
      /\ \A i \in 1..Len(s) : Append(s, pair)[i] = s[i]
      /\ Append(s, pair)[Len(s) + 1] = pair
  BY <1>1, AppendProperties
<1>3. Len(s) \in Nat /\ DOMAIN s = 1..Len(s) /\ DOMAIN Append(s, pair) = 1..Len(s) + 1
  BY <1>1, <1>2, LenProperties
<1>4. /\ \A i \in DOMAIN s : i \in DOMAIN created /\ created[i] = s[i]
      /\ Len(s) + 1 \in DOMAIN created /\ created[Len(s) + 1] = pair
  <2>1. /\ \A i \in DOMAIN s : i \in DOMAIN Append(s, pair) /\ Append(s, pair)[i] = s[i]
        /\ Len(s) + 1 \in DOMAIN Append(s, pair) /\ Append(s, pair)[Len(s) + 1] = pair
    BY <1>2, <1>3
  <2> QED BY <1>1, <2>1
<1>5. MadeAt(created, p)
  BY <1>1, <1>4 DEF MadeAt
<1>6. \A q : MadeAt(s, q) => MadeAt(created, q)
  BY <1>4 DEF MadeAt
<1> QED BY <1>5, <1>6 DEF s

LEMMA WriteNewMetaCalm ==
    ASSUME Typed, KeptNow, PlacedNow, BaseNow, CalmNow, WriteNewMeta, Watched'
    PROVE  CalmNow'
<1> DEFINE created == Append(run.created, <<old, run.id>>)
<1>1. /\ op.kind = "create folder" /\ Running /\ run.phase = "meta" /\ op \in run.plan
      /\ UNCHANGED <<remote, notes, files, baseF, baseN>>
  BY OpIs DEF WriteNewMeta, At
<1>2. /\ old \in DOMAIN dirs
      /\ dirs' = WithMeta(dirs, old, run.id, op.saw.title)
      /\ run' = [run EXCEPT !.phase = "commit", !.created = created]
  BY NewMetaWritten
<1>3. PICK f \in F : f = run.id /\ remote[f] # None
  BY <1>1 DEF Typed, TypedPhase, Active
<1>4. old \in Paths /\ f \in 0..NF /\ f # 0 /\ op.saw.title \in 1..NT /\ Tree(dirs)
  <2>1. f \in 0..NF /\ f # 0
    BY Bounds DEF F
  <2>2. op.saw.title \in 1..NT
    BY <1>1, OldAndNew DEF TypedOp
  <2> QED BY <1>2, <2>1, <2>2 DEF Typed, TypedDirs, Tree
<1>5. /\ run'.phase = "commit" /\ run'.plan = run.plan /\ SameCommand /\ run'.id = f
      /\ run'.result = run.result /\ run'.now = run.now /\ run'.scan = run.scan /\ run'.created = created
  BY <1>2, <1>3 DEF Typed, TypedRun, IsRun, SameCommand
<1>6. op' = op /\ old' = old
  BY <1>5, SameOp
<1>7. MadeAt(created, old) /\ \A q : MadeAt(run.created, q) => MadeAt(created, q)
  BY <1>3, <1>4, MadeAppended
<1> HIDE DEF created
<1>8. /\ DOMAIN dirs' = DOMAIN dirs
      /\ dirs'[old].id = f /\ dirs'[old].title = op.saw.title
      /\ \A q \in DOMAIN dirs : q # old => dirs'[q] = dirs[q]
  BY <1>2, <1>3, <1>4, MetaWritten
<1>9. dirs[old].id = 0
  BY <1>1 DEF KeptNow, PlanKept, AnnounceKept, OnlyRow, old, CurrentPath
<1>10. ~Housed(dirs, f) /\ Fresh(f)
  BY <1>1, <1>3 DEF KeptNow, PhaseKept, CalmNow, WorkDue
<1>11. ~DirOps(run.plan) /\ op.kind \notin DirKinds /\ op.kind \notin NoteKinds /\ op.kind # "create note"
  BY <1>1, DirsFirst DEF DirKinds, NoteKinds
<1>12. \A g \in F : g # f => FolderStays(g)
  <2> SUFFICES ASSUME NEW g \in F, g # f PROVE FolderStays(g)
    OBVIOUS
  <2>1. Housed(dirs, g) => Housed(dirs', g)
    BY <1>8, <1>9, NoRootId DEF Housed
  <2>2. ASSUME NEW q \in DOMAIN dirs', Held(dirs', q, g) PROVE Stays(q, q, g)
    <3>1. q # old /\ q \in DOMAIN dirs /\ dirs'[q] = dirs[q] /\ Held(dirs, q, g)
      BY <1>8, <2>2 DEF Held
    <3>2. Under(q) => Under(q)'
      BY <1>5, <1>7 DEF Under
    <3>3. q \in Paths /\ Proper(q) \subseteq DOMAIN dirs /\ dirs[q].title \in Nat
      <4>1. q \in Paths /\ Proper(q) \subseteq DOMAIN dirs /\ dirs[q].title \in 1..NT
        BY <1>4, <3>1 DEF Tree, DirInfo
      <4> QED BY <4>1, Bounds
    <3>4. CASE Len(q) = 1 \/ Parent(q) # old
      <4>1. Len(q) # 1 => Parent(q) \in DOMAIN dirs
        BY <3>3, ParentShape
      <4>2. Becoming(q, g)' = Becoming(q, g)
        BY <1>1, <1>5, <1>8, <1>11, <3>1, <3>4, <4>1 DEF Becoming
      <4> QED BY <3>1, <3>2, <4>2 DEF Stays
    <3>5. CASE Len(q) # 1 /\ Parent(q) = old
      <4>1. Under(q)'
        BY <1>5, <1>7, <3>5 DEF Under
      <4>2. Becoming(q, g)' = [title |-> dirs[q].title, parent |-> f]
        BY <1>5, <1>8, <1>11, <3>1, <3>5 DEF Becoming
      <4>3. [title |-> dirs[q].title, parent |-> f] # None
        <5>1. f \in Nat
          BY Bounds DEF F
        <5>2. [title |-> dirs[q].title, parent |-> f] \in [title : Nat, parent : Nat]
          BY <3>3, <5>1
        <5> QED BY <5>2, Bounds
      <4>4. Becoming(q, g)' # remote[g] /\ Becoming(q, g)' # baseF[g]
        BY <1>10, <4>2, <4>3 DEF Fresh
      <4> QED BY <3>1, <4>1, <4>4 DEF Stays
    <3> QED BY <3>4, <3>5
  <2>3. \A q \in DOMAIN dirs' : Held(dirs', q, g) => q \in DOMAIN dirs
    BY <1>8
  <2> QED BY <2>1, <2>2, <2>3 DEF FolderStays
<1>13. FoldersCalm'
  <2>1. \A g : FolderOwed(g) => FolderOwed(g)'
    BY <1>3, <1>5, PlanOfNow
  <2>2. FolderOwed(f)'
    BY <1>1, <1>5, SameOp DEF FolderOwed
  <2>3. \A g \in F : g # f => FolderSame(g)
    BY <1>1, <1>12 DEF FolderSame
  <2> QED BY <1>5, <2>1, <2>2, <2>3, FoldersCalmStay DEF CalmNow, FoldersNow
<1>14. DirsCalm'
  <2>1. \A p \in DOMAIN dirs' : dirs'[p].id = 0 => p \in DOMAIN dirs /\ dirs[p].id = 0
    BY <1>4, <1>8
  <2>2. run.push => \A p \in DOMAIN dirs : dirs[p].id = 0 =>
          \E o \in run.plan : o.kind = "create folder" /\ run.now[o.old] = p
    BY <1>11 DEF CalmNow, FoldersNow, DirsCalm
  <2>3. run'.push = run.push /\ run'.plan = run.plan /\ run'.now = run.now
    BY <1>5 DEF SameCommand
  <2>4. ASSUME run'.push, NEW p \in DOMAIN dirs', dirs'[p].id = 0
        PROVE  \E o \in run'.plan : o.kind = "create folder" /\ run'.now[o.old] = p
    <3>1. p \in DOMAIN dirs /\ dirs[p].id = 0 /\ run.push
      BY <2>1, <2>3, <2>4
    <3>2. PICK o \in run.plan : o.kind = "create folder" /\ run.now[o.old] = p
      BY <2>2, <3>1
    <3> QED BY <2>3, <3>2
  <2> QED BY <2>4 DEF DirsCalm
<1>15. ScanKept'
  <2>1. Rising(dirs, dirs')
    BY <1>8, <1>9 DEF Rising
  <2> QED BY <1>1, <1>5, <1>8, <2>1, ScanRises DEF CalmNow, FoldersNow
<1>16. FoldersDue'
  <2>1. \A o \in run.plan : o.kind \in RowKinds => o.id \in F /\ Housed(dirs, o.id)
    BY RowIds DEF CalmNow, FoldersNow, FoldersDue, FolderDue, Sees, Held, Housed
  <2>2. \A o \in run'.plan : o.kind \in RowKinds => FolderStays(o.id)
    BY <1>5, <1>10, <1>12, <2>1
  <2> QED BY <1>1, <1>5, <2>2, FoldersDueStay DEF CalmNow, FoldersNow
<1>17. NotesNow'
  <2>1. \A x \in files : x.n \in N =>
          \/ dirs'[x.dir].id = dirs[x.dir].id
          \/ dirs[x.dir].id = 0 /\ dirs'[x.dir].id # notes[x.n] /\ dirs'[x.dir].id # baseN[x.n]
    <3> SUFFICES ASSUME NEW x \in files, x.n \in N, x.dir = old
                 PROVE  dirs'[old].id # notes[x.n] /\ dirs'[old].id # baseN[x.n]
      BY <1>8, <1>9 DEF Typed, TypedFiles
    <3> QED BY <1>8, <1>10 DEF Fresh
  <2> QED BY <1>1, <1>5, <1>11, <2>1, NotesAside DEF CalmNow
<1>18. WorkDue'
  <2>1. /\ remote[f].title = op.saw.title
        /\ \/ remote[f].parent = (IF Len(old) = 1 THEN Root ELSE dirs[Parent(old)].id)
           \/ Len(old) # 1 /\ MadeAt(run.created, Parent(old))
    BY <1>1, <1>3 DEF CalmNow, WorkDue
  <2>2. Len(old) # 1 => Parent(old) \in DOMAIN dirs /\ Parent(old) # old
    BY <1>2, <1>4, ParentShape, ProperPaths DEF Tree
  <2>3. \/ remote[f].parent = (IF Len(old) = 1 THEN Root ELSE dirs'[Parent(old)].id)
        \/ Len(old) # 1 /\ MadeAt(created, Parent(old))
    BY <1>7, <1>8, <2>1, <2>2
  <2>4. remote' = remote
    BY <1>1
  <2> QED BY <1>1, <1>2, <1>5, <1>6, <1>8, <2>1, <2>3, <2>4 DEF WorkDue, DirKinds, Held
<1> QED BY <1>1, <1>5, <1>13, <1>14, <1>15, <1>16, <1>17, <1>18, WatchedWent DEF CalmNow, FoldersNow

----------------------------------------------------------------------------
(* Steps: notes.                                                              *)
LEMMA FoldersAside ==
    ASSUME Typed, KeptNow, FoldersNow, Running, op.kind \in NoteKinds \cup {"create note"},
           UNCHANGED <<remote, baseF, dirs>>, SameRun, run'.plan \in {run.plan, run.plan \ {op}}
    PROVE  FoldersNow'
<1>1. /\ op.kind \notin DirKinds /\ op.kind \notin RowKinds /\ op.kind # "create folder"
      /\ ~DirOps(run.plan) /\ ~DirOps(run'.plan)
  <2>1. op.kind \notin DirKinds /\ op.kind \notin RowKinds /\ op.kind # "create folder"
    BY DEF DirKinds, RowKinds, NoteKinds
  <2> QED BY <2>1, DirsFirst DEF DirOps
<1>2. \A f : FolderStays(f)
  BY <1>1, FolderStaysPut DEF SameRun, SameWays
<1>3. \A o \in run.plan : o.kind \in DirKinds \cup RowKinds \cup {"create folder"} => o \in run'.plan
  BY <1>1
<1>4. FoldersCalm'
  <2>1. \A f \in F : FolderSame(f)
    BY <1>2 DEF FolderSame
  <2>2. \A f : FolderOwed(f) => FolderOwed(f)'
    BY <1>1, <1>3 DEF FolderOwed
  <2> QED BY <2>1, <2>2, FoldersCalmStay DEF FoldersNow, SameRun
<1>5. DirsCalm'
  <2> SUFFICES ASSUME run'.push, NEW p \in DOMAIN dirs', dirs'[p].id = 0
               PROVE  \E o \in run'.plan : o.kind = "create folder" /\ run'.now[o.old] = p
    BY DEF DirsCalm
  <2>1. dirs' = dirs /\ run'.push = run.push /\ run'.now = run.now
    BY DEF SameRun, SameWays
  <2>2. run.push /\ p \in DOMAIN dirs /\ dirs[p].id = 0
    BY <2>1
  <2>3. PICK o \in run.plan : o.kind = "create folder" /\ run.now[o.old] = p
    BY <1>1, <2>2 DEF FoldersNow, DirsCalm
  <2> QED BY <1>3, <2>1, <2>3
<1>6. ScanKept'
  BY <1>1, NoRise, ScanRises DEF FoldersNow, SameRun, SameWays
<1>7. FoldersDue'
  <2>1. run'.plan \subseteq run.plan /\ FoldersDue
    BY DEF FoldersNow
  <2>2. \A o \in run'.plan : o.kind # "create dir"
    BY <1>1 DEF DirOps, DirKinds
  <2> QED BY <1>2, <2>1, <2>2, FoldersDueStay
<1> QED BY <1>4, <1>5, <1>6, <1>7 DEF FoldersNow

(* A note with the files it had, in the directories they were in.             *)
LEMMA NoteStaysPut ==
    ASSUME NEW n, UNCHANGED dirs, FilesOf(n)' = FilesOf(n),
           notes'[n] = notes[n], baseN'[n] = baseN[n]
    PROVE  NoteStays(n)
<1>1. Settled(n)' <=> Settled(n)
  <2>1. Settled(n) <=> \A x, y \in FilesOf(n) : x = y
    BY SettledFiles
  <2>2. Settled(n)' <=> \A x, y \in FilesOf(n)' : x = y
    BY DEF Settled, FilesOf
  <2> QED BY <2>1, <2>2
<1> QED BY <1>1 DEF NoteStays

(* An operation on one note leaves the others as they were.                   *)
LEMMA OthersCalm ==
    ASSUME NotesSettled, NotesCalm, SameCommand, UNCHANGED dirs, NEW m,
           \A n \in N : n # m => /\ FilesOf(n)' = FilesOf(n)
                                 /\ notes'[n] = notes[n] /\ baseN'[n] = baseN[n]
                                 /\ NoteOwed(n) => NoteOwed(n)',
           m \in N => NoteOwed(m)' \/ ~Settled(m)' \/ NoteCalm(m)'
    PROVE  NotesCalm'
<1> SUFFICES ASSUME NEW n \in N, n # m
             PROVE  NoteOwed(n)' \/ (NoteStays(n) /\ ~NoteOwed(n))
  BY NotesCalmStay
<1>1. NoteStays(n)
  BY NoteStaysPut
<1> QED BY <1>1

LEMMA NotesOwed ==
    ASSUME Running, op.kind # "create note" \/ run.phase = "ask", NEW n,
           \/ run'.plan = run.plan
           \/ run'.plan = run.plan \ {op} /\ op.kind \in NoteKinds /\ op.id # n
    PROVE  NoteOwed(n) => NoteOwed(n)'
BY DEF NoteOwed

(* Drafts are announced by operations of their own.                           *)
LEMMA DraftsStay ==
    ASSUME DraftsCalm, SameRun,
           \A x \in files' : x.n = Draft => x \in files,
           \A x \in files', o \in run.plan \ run'.plan :
             x.n = Draft /\ o.kind = "create note" => run.now[o.old] # x.dir
    PROVE  DraftsCalm'
<1> SUFFICES ASSUME run.push, NEW x \in files', x.n = Draft
             PROVE  \E o \in run'.plan : o.kind = "create note" /\ run.now[o.old] = x.dir
  <2>1. run'.push = run.push /\ run'.now = run.now
    BY DEF SameRun, SameWays
  <2> QED BY <2>1 DEF DraftsCalm
<1>1. PICK o \in run.plan : o.kind = "create note" /\ run.now[o.old] = x.dir
  BY DEF DraftsCalm
<1> QED BY <1>1

LEMMA NoDraft ==
    ASSUME NEW n \in N
    PROVE  n # Draft /\ \A p : File(n, p).n # Draft
BY DEF N, Draft, File

(* The operation on a note goes on.                                           *)
LEMMA NoteGoes ==
    ASSUME Typed, KeptNow, PlacedNow, CalmNow, Running, op.kind \in NoteKinds,
           UNCHANGED <<remote, baseF, dirs, baseN>>, NEW phase, run' = [run EXCEPT !.phase = phase],
           \A n \in N : n # op.id => FilesOf(n)' = FilesOf(n) /\ notes'[n] = notes[n],
           \A x \in files' : x.n = Draft => x \in files,
           op.kind = "normalize" => UNCHANGED notes
    PROVE  CalmNow'
<1>1. run'.plan = run.plan /\ SameRun /\ run'.result = run.result /\ op' = op /\ op \in run.plan
  BY Going, SameOp, OpIs
<1>2. FoldersNow'
  BY <1>1, FoldersAside DEF CalmNow
<1>3. PICK m \in N : m = op.id
  BY AtWork
<1>4. NoteOwed(m)'
  BY <1>1, <1>3 DEF NoteOwed
<1>5. NotesCalm'
  <2>1. \A n : NoteOwed(n) => NoteOwed(n)'
    <3>1. op.kind # "create note"
      BY DEF NoteKinds
    <3> QED BY <1>1, <3>1, NotesOwed
  <2> QED BY <1>1, <1>3, <1>4, <2>1, OthersCalm DEF CalmNow, NotesNow, PlacedNow, SameRun
<1>6. DraftsCalm'
  BY <1>1, DraftsStay DEF CalmNow, NotesNow
<1>7. NotesDue'
  <2> SUFFICES ASSUME NEW o \in run.plan, o.kind = "normalize" PROVE notes'[o.id] = o.saw
    BY <1>1 DEF NotesDue
  <2>1. notes[o.id] = o.saw /\ o.id \in N
    BY DEF CalmNow, NotesNow, NotesDue, Typed, TypedRun, TypedOp
  <2>2. o.id = op.id => o = op
    BY <1>1 DEF PlacedNow, PlanDrawn, Drawn, NoteKinds
  <2> QED BY <2>1, <2>2
<1>8. WorkDue'
  BY <1>1 DEF WorkDue, NoteKinds, DirKinds
<1> QED BY <1>1, <1>2, <1>5, <1>6, <1>7, <1>8, WatchedWent DEF CalmNow, NotesNow

(* It is done: the base has the notebook that the note is in, and so does the *)
(* file, if there is one only.                                                *)
LEMMA NoteEnds ==
    ASSUME Typed, KeptNow, PlacedNow, CalmNow, Running, op.kind \in NoteKinds, run' = Ended(TRUE),
           UNCHANGED <<remote, baseF, dirs, notes>>,
           \A n \in N : n # op.id => FilesOf(n)' = FilesOf(n) /\ baseN'[n] = baseN[n],
           \A x \in files' : x.n = Draft => x \in files,
           baseN'[op.id] = notes[op.id],
           NEW p, File(op.id, p) \in files', Held(dirs, p, notes[op.id])
    PROVE  CalmNow'
<1>1. /\ run'.phase = "ask" /\ run'.plan = run.plan \ {op} /\ SameRun /\ op \in run.plan
      /\ (run'.result = "ok" => run'.plan = {})
  BY WellEnds
<1>2. FoldersNow'
  BY <1>1, FoldersAside DEF CalmNow
<1>3. PICK m \in N : m = op.id
  BY AtWork
<1>4. Settled(m)' => NoteCalm(m)'
  <2> SUFFICES ASSUME Settled(m)' PROVE NoteCalm(m)'
    OBVIOUS
  <2>1. \A x \in FilesOf(m)' : x = File(m, p)
    BY <1>3 DEF Settled, FilesOf, File
  <2>2. notes'[m] = notes[m] /\ baseN'[m] = notes[m] /\ dirs' = dirs /\ notes[m] # None
    BY <1>3, AtWork
  <2>3. \A x \in FilesOf(m)' : dirs'[x.dir].id = notes[m]
    BY <1>3, <2>1, <2>2 DEF Held, File
  <2> QED BY <2>2, <2>3 DEF NoteCalm
<1>5. NotesCalm'
  <2>1. op.kind # "create note"
    BY DEF NoteKinds
  <2>2. \A n : n # op.id => (NoteOwed(n) => NoteOwed(n)')
    BY <1>1, <2>1, NotesOwed
  <2> QED BY <1>1, <1>3, <1>4, <2>2, OthersCalm DEF CalmNow, NotesNow, PlacedNow, SameRun
<1>6. DraftsCalm'
  <2>1. op.kind # "create note"
    BY DEF NoteKinds
  <2> QED BY <1>1, <2>1, DraftsStay DEF CalmNow, NotesNow
<1>7. NotesDue'
  BY <1>1 DEF CalmNow, NotesNow, NotesDue
<1> QED BY <1>1, <1>2, <1>5, <1>6, <1>7, AskDue DEF CalmNow, NotesNow
LEMMA WriteNoteCalm ==
    ASSUME Typed, KeptNow, PlacedNow, CalmNow, WriteNote, Watched'
    PROVE  CalmNow'
<1>0. PICK n : n = op.id
  OBVIOUS
<1>1. /\ Running /\ run.phase = "ask" /\ op.kind \in {"create file", "update file"}
      /\ UNCHANGED <<remote, notes, dirs, baseF, baseN>>
      /\ \/ run' = Ended(FALSE)
         \/ /\ files' = files \cup {File(n, new)}
            /\ run' = [run EXCEPT !.phase = IF op.kind = "create file" \/ old = new
                                              THEN "commit" ELSE "unlink"]
  BY <1>0 DEF WriteNote, At, Fail, Go
<1>2. PICK phase : files' = files \cup {File(n, new)} /\ run' = [run EXCEPT !.phase = phase]
  BY <1>1, FailIsNotWatched
<1>3. op.kind \in NoteKinds /\ op.kind # "normalize"
  BY <1>1, NoteOpKinds
<1>4. n \in N
  BY <1>0, <1>1, <1>3, AtWork
<1>5. \A m \in N : m # n => FilesOf(m)' = FilesOf(m) /\ notes'[m] = notes[m]
  BY <1>1, <1>2, OtherFiles
<1>6. \A x \in files' : x.n = Draft => x \in files
  BY <1>2, <1>4, NoDraft
<1> QED BY <1>0, <1>1, <1>2, <1>3, <1>5, <1>6, NoteGoes

LEMMA UnlinkOldCalm ==
    ASSUME Typed, KeptNow, PlacedNow, CalmNow, UnlinkOld
    PROVE  CalmNow'
<1>0. PICK n : n = op.id
  OBVIOUS
<1>1. /\ Running /\ op.kind = "update file" /\ UNCHANGED <<remote, notes, dirs, baseF, baseN>>
      /\ files' = files \ {File(n, old)} /\ run' = [run EXCEPT !.phase = "commit"]
  BY <1>0 DEF UnlinkOld, At, Go
<1>2. op.kind \in NoteKinds /\ op.kind # "normalize"
  BY <1>1, NoteOpKinds
<1>3. \A m \in N : m # n => FilesOf(m)' = FilesOf(m) /\ notes'[m] = notes[m]
  BY <1>1, OtherFiles
<1>4. \A x \in files' : x.n = Draft => x \in files
  BY <1>1
<1> QED BY <1>0, <1>1, <1>2, <1>3, <1>4, NoteGoes

LEMMA UpdateNoteCalm ==
    ASSUME Typed, KeptNow, PlacedNow, CalmNow, UpdateNote, Watched'
    PROVE  CalmNow'
<1>0. PICK n, f : n = op.id /\ f = IF ResolveFolder(old) # Root THEN ResolveFolder(old) ELSE op.saw
  OBVIOUS
<1>1. /\ Running /\ op.kind = "update note" /\ UNCHANGED <<remote, dirs, files, baseF, baseN>>
      /\ run' = Ended(FALSE) \/ (notes' = [notes EXCEPT ![n] = f] /\ run' = [run EXCEPT !.phase = "commit"])
  BY <1>0 DEF UpdateNote, At, Fail, Go
<1>2. notes' = [notes EXCEPT ![n] = f] /\ run' = [run EXCEPT !.phase = "commit"]
  BY <1>1, FailIsNotWatched
<1>3. op.kind \in NoteKinds /\ op.kind # "normalize"
  BY <1>1, NoteOpKinds
<1>4. \A m \in N : m # n => FilesOf(m)' = FilesOf(m) /\ notes'[m] = notes[m]
  BY <1>1, <1>2 DEF FilesOf, Typed, TypedNotes
<1> QED BY <1>0, <1>1, <1>2, <1>3, <1>4, NoteGoes

(* The file is in the directory of the notebook that the base gets.           *)
LEMMA CommitNoteCalm ==
    ASSUME Typed, KeptNow, PlacedNow, CalmNow, CommitNote
    PROVE  CalmNow'
<1>0. PICK n : n = op.id
  OBVIOUS
<1>1. /\ Running /\ UNCHANGED <<remote, notes, dirs, files, baseF>> /\ run' = Ended(TRUE)
      /\ baseN' = [baseN EXCEPT ![n] = notes[n]]
      /\ \/ op.kind \in {"create file", "update file", "update note"} /\ run.phase = "commit"
         \/ op.kind = "adopt note" /\ run.phase = "ask"
  BY <1>0 DEF CommitNote, At, Done
<1>2. op.kind \in NoteKinds /\ (op.kind \in {"create file", "update file"} => op.kind \in AimKinds)
  BY <1>1, NoteOpKinds
<1>3. /\ op \in run.plan /\ Drawn(op) /\ NoteSettled(n) /\ n \in N
      /\ op.kind \in AimKinds => new = op.new /\ op.saw # 0 /\ Held(dirs, new, op.saw)
  BY <1>0, <1>1, <1>2, AtWork
<1>4. PICK q : File(n, q) \in files /\ Held(dirs, q, notes[n])
  <2>1. CASE op.kind \in {"create file", "update file"}
    <3>1. notes[n] = op.saw /\ File(n, new) \in files
      BY <1>0, <1>1, <2>1 DEF PlacedNow, WorkPlaced
    <3> QED BY <1>2, <1>3, <2>1, <3>1
  <2>2. CASE op.kind = "update note"
    BY <1>0, <1>1, <2>2 DEF PlacedNow, WorkPlaced
  <2>3. CASE op.kind = "adopt note"
    <3>1. /\ op.old \in DOMAIN run.scan /\ notes[n] = run.scan[op.old]
          /\ File(n, run.now[op.old]) \in files /\ op.old \in DOMAIN run.now
      BY <1>0, <1>3, <2>3 DEF Drawn, Typed, TypedRun
    <3>2. Held(dirs, run.now[op.old], notes[n])
      BY <1>3, <3>1 DEF PlacedNow, WaysKept, Followed, Held, NoteSettled, Root
    <3> QED BY <3>1, <3>2
  <2> QED BY <1>1, <2>1, <2>2, <2>3
<1>5. \A m \in N : m # n => FilesOf(m)' = FilesOf(m) /\ baseN'[m] = baseN[m]
  BY <1>1 DEF FilesOf, PlacedNow, NotesSettled, NoteSettled
<1>6. baseN'[n] = notes[n]
  BY <1>1, <1>3 DEF NoteSettled
<1> QED BY <1>0, <1>1, <1>2, <1>4, <1>5, <1>6, NoteEnds

(* The target has its directory: nothing is made.                             *)
LEMMA NormalizeCalm ==
    ASSUME Typed, KeptNow, PlacedNow, CalmNow, Normalize, Watched'
    PROVE  CalmNow'
<1>0. PICK n : n = op.id
  OBVIOUS
<1>1. /\ Running /\ op.kind = "normalize" /\ UNCHANGED <<remote, notes, baseF, baseN>>
      /\ \/ run' = Ended(FALSE)
         \/ /\ run' = Ended(TRUE) /\ UNCHANGED <<dirs, files>> /\ File(n, new) \in files
         \/ /\ run' = Ended(TRUE) /\ dirs' = WithDir(dirs, new)
            /\ files' = (files \ {File(n, old)}) \cup {File(n, new)}
  BY <1>0 DEF Normalize, At, Done, Fail
<1>2. op.kind \in NoteKinds /\ op.kind \in AimKinds
  BY <1>1, NoteOpKinds
<1>3. /\ op \in run.plan /\ Drawn(op) /\ n \in N /\ Held(dirs, new, op.saw)
  BY <1>0, <1>1, <1>2, AtWork
<1>4. notes[n] = op.saw /\ baseN[n] = op.saw
  BY <1>0, <1>1, <1>3 DEF Drawn, CalmNow, NotesNow, NotesDue
<1>5. WithDir(dirs, new) = dirs
  <2>1. new \in DOMAIN dirs /\ Proper(new) \subseteq DOMAIN dirs /\ dirs = [q \in DOMAIN dirs |-> dirs[q]]
    BY <1>3 DEF Held, Typed, TypedDirs, Tree
  <2>2. DOMAIN dirs \cup Proper(new) \cup {new} = DOMAIN dirs
    BY <2>1
  <2> QED BY <2>1, <2>2 DEF WithDir
<1>6. run' = Ended(TRUE) /\ UNCHANGED dirs /\ File(n, new) \in files'
      /\ (files' = files \/ files' = (files \ {File(n, old)}) \cup {File(n, new)})
  BY <1>1, <1>5, FailIsNotWatched
<1>7. \A m \in N : m # n => FilesOf(m)' = FilesOf(m) /\ baseN'[m] = baseN[m]
  BY <1>1, <1>6, OtherFiles
<1>8. \A x \in files' : x.n = Draft => x \in files
  BY <1>3, <1>6, NoDraft
<1> QED BY <1>0, <1>1, <1>2, <1>3, <1>4, <1>6, <1>7, <1>8, NoteEnds

(* Push makes a note: it is owed its row until the operation ends.            *)
LEMMA CreateNoteCalm ==
    ASSUME Typed, KeptNow, PlacedNow, CalmNow, CreateNote, Watched'
    PROVE  CalmNow'
<1>0. PICK n, f : n = (CHOOSE m \in NewNotes : \A k \in NewNotes : m <= k) /\ f = ResolveFolder(old)
  OBVIOUS
<1>1. /\ Running /\ run.phase = "ask" /\ op.kind = "create note"
      /\ UNCHANGED <<remote, dirs, files, baseF, baseN>>
      /\ \/ run' = Ended(FALSE)
         \/ /\ NewNotes # {} /\ notes' = [notes EXCEPT ![n] = f]
            /\ run' = [run EXCEPT !.phase = "file", !.id = n]
  BY <1>0 DEF CreateNote, At, Fail
<1>2. /\ NewNotes # {} /\ notes' = [notes EXCEPT ![n] = f]
      /\ run' = [run EXCEPT !.phase = "file", !.id = n]
  BY <1>1, FailIsNotWatched
<1>3. n \in N /\ notes[n] = None
  <2>1. NewNotes \subseteq Nat
    BY Bounds DEF NewNotes, N
  <2>2. \E m \in NewNotes : \A k \in NewNotes : m <= k
    BY <1>2, <2>1, Least
  <2>3. n \in NewNotes
    BY <1>0, <2>2
  <2> QED BY <2>3 DEF NewNotes
<1>4. /\ run'.plan = run.plan /\ SameRun /\ run'.result = run.result
      /\ run'.phase = "file" /\ run'.id = n
  BY <1>2, Going
<1>5. op' = op /\ (Running' <=> Running)
  BY <1>1, <1>4, SameOp
<1>6. FoldersNow'
  BY <1>1, <1>4, FoldersAside DEF CalmNow
<1>7. \A m \in N : m # n => notes'[m] = notes[m]
  BY <1>2 DEF Typed, TypedNotes
<1>8. NotesCalm'
  <2>1. NoteOwed(n)'
    BY <1>1, <1>4, <1>5 DEF NoteOwed
  <2>2. \A m : NoteOwed(m) => NoteOwed(m)'
    BY <1>1, <1>4, NotesOwed
  <2>3. \A m \in N : m # n => FilesOf(m)' = FilesOf(m) /\ notes'[m] = notes[m] /\ baseN'[m] = baseN[m]
    BY <1>1, <1>7 DEF FilesOf
  <2> QED BY <1>1, <1>4, <2>1, <2>2, <2>3, OthersCalm DEF CalmNow, NotesNow, PlacedNow, SameRun
<1>9. DraftsCalm'
  BY <1>1, <1>4, DraftsStay DEF CalmNow, NotesNow
<1>10. NotesDue'
  <2> SUFFICES ASSUME NEW o \in run.plan, o.kind = "normalize" PROVE notes'[o.id] = o.saw
    BY <1>4 DEF NotesDue
  <2>1. notes[o.id] = o.saw /\ o.id \in N /\ notes[o.id] # None
    BY NoteOpKinds DEF CalmNow, NotesNow, NotesDue, PlacedNow, PlanDrawn, Drawn
  <2> QED BY <1>3, <1>7, <2>1
<1>11. WorkDue'
  BY <1>1, <1>4, <1>5 DEF WorkDue, DirKinds
<1> QED BY <1>1, <1>4, <1>6, <1>8, <1>9, <1>10, <1>11, WatchedWent DEF CalmNow, NotesNow

LEMMA NewNoteFileCalm ==
    ASSUME Typed, KeptNow, PlacedNow, CalmNow, WriteId \/ UnlinkDraft
    PROVE  CalmNow'
<1>0. PICK n, p : n = run.id /\ p = old
  OBVIOUS
<1>1. /\ Running /\ run.phase \in {"file", "unlink"} /\ op.kind = "create note"
      /\ UNCHANGED <<remote, notes, dirs, baseF, baseN>>
      /\ \/ files' = files \cup {File(n, p)} /\ run' = [run EXCEPT !.phase = "unlink"]
         \/ files' = files \ {File(Draft, p)} /\ run' = [run EXCEPT !.phase = "commit"]
  BY <1>0 DEF WriteId, UnlinkDraft, At, Go
<1>2. n \in N
  BY <1>0, <1>1 DEF Typed, TypedPhase
<1>3. /\ run'.plan = run.plan /\ SameRun /\ run'.result = run.result
      /\ run'.phase # "ask" /\ run'.id = n
      /\ run'.phase = "commit" => files' = files \ {File(Draft, p)}
  <2>1. CASE files' = files \cup {File(n, p)} /\ run' = [run EXCEPT !.phase = "unlink"]
    BY <1>0, <2>1, Going
  <2>2. CASE files' = files \ {File(Draft, p)} /\ run' = [run EXCEPT !.phase = "commit"]
    BY <1>0, <2>2, Going
  <2> QED BY <1>1, <2>1, <2>2
<1>4. op' = op /\ (Running' <=> Running) /\ old' = old
  BY <1>1, <1>3, SameOp DEF SameRun, SameWays
<1>5. FoldersNow'
  BY <1>1, <1>3, FoldersAside DEF CalmNow
<1>6. NotesCalm'
  <2>1. NoteOwed(n)'
    BY <1>1, <1>3, <1>4 DEF NoteOwed
  <2>2. \A m : m # n => (NoteOwed(m) => NoteOwed(m)')
    BY <1>0, <1>3 DEF NoteOwed
  <2>3. \A m \in N : m # n => FilesOf(m)' = FilesOf(m)
    <3>1. Draft \notin N
      BY Bounds DEF Draft, N
    <3>2. CASE files' = files \cup {File(n, p)}
      BY <3>2, OtherFiles
    <3>3. CASE files' = files \ {File(Draft, p)}
      BY <3>1, <3>3, OtherFiles
    <3> QED BY <1>1, <3>2, <3>3
  <2> QED BY <1>1, <1>3, <2>1, <2>2, <2>3, OthersCalm DEF CalmNow, NotesNow, PlacedNow, SameRun
<1>7. DraftsCalm'
  <2>1. \A x \in files' : x.n = Draft => x \in files
    BY <1>1, <1>2, NoDraft
  <2> QED BY <1>3, <2>1, DraftsStay DEF CalmNow, NotesNow
<1>8. NotesDue'
  BY <1>1, <1>3 DEF CalmNow, NotesNow, NotesDue
<1>9. WorkDue'
  <2>1. run'.phase = "commit" => File(Draft, p) \notin files'
    BY <1>3
  <2> QED BY <1>0, <1>1, <1>3, <1>4, <2>1 DEF WorkDue, DirKinds
<1> QED BY <1>1, <1>3, <1>5, <1>6, <1>7, <1>8, <1>9, WatchedWent DEF CalmNow, NotesNow

LEMMA CommitNewNoteCalm ==
    ASSUME Typed, KeptNow, PlacedNow, CalmNow, CommitNewNote
    PROVE  CalmNow'
<1>0. PICK n : n = run.id
  OBVIOUS
<1>1. /\ Running /\ run.phase = "commit" /\ op.kind = "create note"
      /\ UNCHANGED <<remote, notes, dirs, files, baseF>>
      /\ baseN' = [baseN EXCEPT ![n] = notes[n]] /\ run' = Ended(TRUE)
  BY <1>0 DEF CommitNewNote, At, Done
<1>2. n \in N
  BY <1>0, <1>1 DEF Typed, TypedPhase
<1>3. /\ notes[n] # None /\ Held(dirs, old, notes[n]) /\ FilesOf(n) \subseteq {File(n, old)}
  BY <1>0, <1>1 DEF PlacedNow, WorkPlaced
<1>4. /\ run'.phase = "ask" /\ run'.plan = run.plan \ {op} /\ SameRun /\ op \in run.plan
      /\ (run'.result = "ok" => run'.plan = {})
  BY <1>1, WellEnds
<1>5. FoldersNow'
  BY <1>1, <1>4, FoldersAside DEF CalmNow
<1>6. baseN'[n] = notes[n] /\ \A m \in N : m # n => baseN'[m] = baseN[m]
  BY <1>1, <1>2 DEF PlacedNow, NotesSettled, NoteSettled
<1>7. NoteCalm(n)'
  <2>1. FilesOf(n)' = FilesOf(n)
    BY <1>1 DEF FilesOf
  <2>2. \A x \in FilesOf(n)' : dirs'[x.dir].id = notes'[n]
    <3>1. \A x \in FilesOf(n) : x.dir = old
      BY <1>3 DEF File
    <3> QED BY <1>1, <1>3, <2>1, <3>1 DEF Held
  <2> QED BY <1>1, <1>3, <1>6, <2>2 DEF NoteCalm
<1>8. NotesCalm'
  <2>1. \A m : m # n => (NoteOwed(m) => NoteOwed(m)')
    BY <1>0, <1>1, <1>4, NoteOpKinds DEF NoteOwed
  <2>2. \A m \in N : m # n => FilesOf(m)' = FilesOf(m) /\ baseN'[m] = baseN[m]
    BY <1>1, <1>6 DEF FilesOf
  <2> QED BY <1>1, <1>4, <1>7, <2>1, <2>2, OthersCalm DEF CalmNow, NotesNow, PlacedNow, SameRun
<1>9. DraftsCalm'
  <2>1. File(Draft, old) \notin files /\ old = run.now[op.old]
    BY <1>1 DEF CalmNow, WorkDue, old, CurrentPath
  <2>2. \A x \in files : x.n = Draft => x = File(Draft, x.dir)
    BY DEF Typed, TypedFiles, File
  <2>3. \A o : o \in run.plan \ run'.plan => o = op
    BY <1>4
  <2>4. \A x \in files', o \in run.plan \ run'.plan :
          x.n = Draft /\ o.kind = "create note" => run.now[o.old] # x.dir
    BY <1>1, <2>1, <2>2, <2>3
  <2> QED BY <1>1, <1>4, <2>4, DraftsStay DEF CalmNow, NotesNow
<1>10. NotesDue'
  BY <1>1, <1>4 DEF CalmNow, NotesNow, NotesDue
<1> QED BY <1>1, <1>4, <1>5, <1>8, <1>9, <1>10, AskDue DEF CalmNow, NotesNow

----------------------------------------------------------------------------
(* Whatever fails: a run does not forget it, and the base follows.            *)
RunOn == run'.plan = run.plan /\ run'.ok = run.ok /\ run'.result = run.result /\ SameCommand

LEMMA GoesOn ==
    ASSUME Typed, NEW phase, NEW id, NEW now, NEW created,
           \/ run' = [run EXCEPT !.phase = phase]
           \/ run' = [run EXCEPT !.phase = phase, !.id = id]
           \/ run' = [run EXCEPT !.phase = phase, !.now = now]
           \/ run' = [run EXCEPT !.phase = phase, !.created = created]
    PROVE  RunOn
BY DEF Typed, TypedRun, IsRun, RunOn, SameCommand

LEMMA EndsOrGoesOn ==
    ASSUME Typed, Handler \/ Refused
    PROVE  Running /\ ((\E good : run' = Ended(good)) \/ RunOn)
<1>1. CASE MakeDir \/ WriteMeta \/ CommitDir \/ CreateFolder \/ UpdateFolder
  <2>1. \/ \E good : run' = Ended(good)
        \/ \E phase : run' = [run EXCEPT !.phase = phase]
        \/ \E phase, id : run' = [run EXCEPT !.phase = phase, !.id = id]
    BY <1>1 DEF MakeDir, WriteMeta, CommitDir, CreateFolder, UpdateFolder, Fail, Done, Go
  <2> QED BY <1>1, <2>1, GoesOn DEF MakeDir, WriteMeta, CommitDir, CreateFolder, UpdateFolder, At
<1>2. CASE RenameDir
  <2>1. \/ \E good : run' = Ended(good)
        \/ \E phase : run' = [run EXCEPT !.phase = phase]
        \/ \E now : run' = [run EXCEPT !.phase = "meta", !.now = now]
    BY <1>2 DEF RenameDir, Fail, Go
  <2> QED BY <1>2, <2>1, GoesOn DEF RenameDir, At
<1>3. CASE WriteNewMeta
  <2>1. \/ \E good : run' = Ended(good)
        \/ \E created : run' = [run EXCEPT !.phase = "commit", !.created = created]
    BY <1>3 DEF WriteNewMeta, Fail
  <2> QED BY <1>3, <2>1, GoesOn DEF WriteNewMeta, At
<1>4. CASE \/ CommitNewFolder \/ WriteNote \/ UnlinkOld \/ CommitNote \/ Normalize \/ UpdateNote
           \/ CreateNote \/ WriteId \/ UnlinkDraft \/ CommitNewNote \/ Refused
  <2>1. \/ \E good : run' = Ended(good)
        \/ \E phase : run' = [run EXCEPT !.phase = phase]
        \/ \E phase, id : run' = [run EXCEPT !.phase = phase, !.id = id]
    BY <1>4 DEF CommitNewFolder, WriteNote, UnlinkOld, CommitNote, Normalize, UpdateNote,
       CreateNote, WriteId, UnlinkDraft, CommitNewNote, Refused, Fail, Done, Go
  <2> QED BY <1>4, <2>1, GoesOn DEF CommitNewFolder, WriteNote, UnlinkOld, CommitNote, Normalize,
       UpdateNote, CreateNote, WriteId, UnlinkDraft, CommitNewNote, Refused, At
<1> QED BY <1>1, <1>2, <1>3, <1>4 DEF Handler

LEMMA RunShrinks ==
    ASSUME Typed, run.result = "ok" => run.ok, Next, ~Started
    PROVE  /\ run'.plan \subseteq run.plan /\ (run'.result = "ok" => run'.ok)
           /\ run'.pull \in {run.pull, FALSE} /\ run'.push \in {run.push, FALSE}
<1>1. CASE Handler \/ Refused
  <2>1. CASE \E good : run' = Ended(good)
    <3>1. PICK good : run' = Ended(good)
      BY <2>1
    <3>2. /\ run'.plan = run.plan \ {op} /\ run'.ok = (run.ok /\ good)
          /\ run'.pull = run.pull /\ run'.push = run.push
          /\ run'.result = IF run.plan # {op} THEN "none" ELSE IF run.ok /\ good THEN "ok" ELSE "failed"
      BY <3>1 DEF Typed, TypedRun, IsRun, Ended
    <3> QED BY <3>2
  <2> QED BY <1>1, <2>1, EndsOrGoesOn DEF RunOn, SameCommand
<1>2. CASE ~Handler /\ ~Refused
  <2>1. run' = NoRun \/ run' = [NoRun EXCEPT !.result = "failed"]
    BY <1>2, NextIs DEF Crash, Told, JoplinNotebook, Filed, JoplinNote, Made, NewDir, Titled, Retitle,
       Shifting, MoveDir, Carried, MoveFile, Drafted, NewDraft, Edit
  <2>2. run'.plan = {} /\ run'.result # "ok" /\ run'.pull = FALSE /\ run'.push = FALSE
    BY <2>1 DEF NoRun
  <2> QED BY <2>2
<1> QED BY <1>1, <1>2

LEMMA WhoWritesRows ==
    ASSUME Next
    PROVE  /\ UNCHANGED baseF \/ CommitDir \/ CommitNewFolder
           /\ UNCHANGED baseN \/ CommitNote \/ CommitNewNote
<1>1. UNCHANGED baseF \/ CommitDir \/ CommitNewFolder
  BY NextIs DEF Handler, Started, Start, MakeDir, RenameDir, WriteMeta, WriteNewMeta,
     CreateFolder, UpdateFolder, WriteNote, UnlinkOld, CommitNote, Normalize, UpdateNote, CreateNote,
     WriteId, UnlinkDraft, CommitNewNote, Refused, Crash, Told, JoplinNotebook, Filed, JoplinNote,
     Made, NewDir, Titled, Retitle, Shifting, MoveDir, Carried, MoveFile, Drafted, NewDraft
<1>2. UNCHANGED baseN \/ CommitNote \/ CommitNewNote
  BY NextIs DEF Handler, Started, Start, MakeDir, RenameDir, WriteMeta, CommitDir, WriteNewMeta,
     CreateFolder, UpdateFolder, CommitNewFolder, WriteNote, UnlinkOld, Normalize, UpdateNote,
     CreateNote, WriteId, UnlinkDraft, Refused, Crash, Told, JoplinNotebook, Filed, JoplinNote,
     Made, NewDir, Titled, Retitle, Shifting, MoveDir, Carried, MoveFile, Drafted, NewDraft
<1> QED BY <1>1, <1>2

(* Which steps give a directory the id of a notebook that had none.           *)
LEMMA WhoHouses ==
    ASSUME Typed, KeptNow, Next, ~spoilt', NEW f \in F, Housed(dirs', f)
    PROVE  Housed(dirs, f) \/ (WriteMeta /\ op.id = f) \/ (WriteNewMeta /\ run.id = f)
<1>0. f # 0 /\ Tree(dirs)
  BY NoRootId DEF Typed, TypedDirs
<1>1. ASSUME NEW p \in Paths, dirs' = WithDir(dirs, p) PROVE Housed(dirs, f)
  <2>1. /\ DOMAIN WithDir(dirs, p) = DOMAIN dirs \cup Proper(p) \cup {p}
        /\ \A q \in DOMAIN dirs : WithDir(dirs, p)[q] = dirs[q]
        /\ \A q \in DOMAIN WithDir(dirs, p) \ DOMAIN dirs : WithDir(dirs, p)[q].id = 0
    BY <1>0, WithDirTree
  <2>2. \A q \in DOMAIN dirs' : q \notin DOMAIN dirs => dirs'[q].id = 0
    BY <1>1, <2>1
  <2>3. \A q \in DOMAIN dirs : dirs'[q] = dirs[q]
    BY <1>1, <2>1
  <2> QED BY <1>0, <2>2, <2>3 DEF Housed
<1>2. CASE MakeDir
  <2>1. dirs' = WithDir(dirs, op.new) /\ op.new \in Paths
    BY <1>2, OldAndNew DEF MakeDir, At, TypedOp
  <2> QED BY <1>1, <2>1
<1>3. CASE Normalize
  <2>1. (dirs' = WithDir(dirs, new) \/ UNCHANGED dirs) /\ new \in Paths
    BY <1>3, OldAndNew DEF Normalize, At, TypedOp
  <2> QED BY <1>1, <2>1
<1>4. CASE Made
  <2>1. PICK p \in Places : dirs' = WithDir(dirs, p)
    BY <1>4 DEF Made, NewDir
  <2>2. p \in Paths
    BY PlacesShape DEF Typed
  <2> QED BY <1>1, <2>1, <2>2
<1>5. CASE Titled
  <2>1. PICK p \in DOMAIN dirs, t \in 1..NT : dirs' = [dirs EXCEPT ![p].title = t]
    BY <1>5 DEF Titled, Retitle
  <2>2. \A q \in DOMAIN dirs : dirs[q] \in DirInfo
          /\ dirs'[q] = IF q = p THEN [dirs[q] EXCEPT !.title = t] ELSE dirs[q]
    BY <1>0, <2>1 DEF Tree
  <2>3. DOMAIN dirs' = DOMAIN dirs /\ \A q \in DOMAIN dirs : dirs'[q].id = dirs[q].id
    BY <2>1, <2>2 DEF DirInfo
  <2> QED BY <2>3 DEF Housed
<1>6. CASE Shifting
  <2>1. PICK p \in DOMAIN dirs, q \in Places : MoveDir(p, q)
    BY <1>6 DEF Shifting
  <2>2. Movable(dirs, p, q)
    BY <1>0, <2>1, PlacesShape DEF MoveDir, Movable, Typed
  <2>3. Carries(dirs', dirs, p, q)
    BY <2>1, <2>2, MoveTreeTree, Zenon DEF MoveDir
  <2>4. \A g : Housed(dirs, g) <=> Housed(dirs', g)
    BY <2>2, <2>3, MovedIds, Zenon
  <2> QED BY <2>4
<1>7. CASE RenameDir
  <2> DEFINE d == WithParents(dirs, op.new)
  <2>1. op.kind = "update dir" /\ Running
    BY <1>7 DEF RenameDir, At
  <2>2. old \in Paths /\ op.new \in Paths
    BY <2>1, OldAndNew DEF TypedOp
  <2>3. /\ Tree(d) /\ DOMAIN d = DOMAIN dirs \cup Proper(op.new)
        /\ \A q \in DOMAIN dirs : d[q] = dirs[q]
        /\ \A q \in DOMAIN d \ DOMAIN dirs : d[q].id = 0
    BY <1>0, <2>2, WithParentsTree
  <2>4. \/ dirs' = dirs \/ Fail
        \/ /\ op.new \notin DOMAIN dirs /\ old \in DOMAIN dirs /\ ~IsPrefix(old, op.new)
           /\ dirs' = MoveTree(d, old, op.new)
    BY <1>7 DEF RenameDir
  <2>5. ~Fail
    BY <2>1 DEF Fail
  <2> HIDE DEF d
  <2>6. CASE /\ op.new \notin DOMAIN dirs /\ old \in DOMAIN dirs /\ ~IsPrefix(old, op.new)
             /\ dirs' = MoveTree(d, old, op.new)
    <3>1. op.new \notin DOMAIN d
      BY <2>2, <2>3, <2>6, ProperPaths
    <3>2. Movable(d, old, op.new)
      BY <2>2, <2>3, <2>6, <3>1 DEF Movable
    <3>3. Carries(dirs', d, old, op.new)
      BY <2>6, <3>2, MoveTreeTree, Zenon
    <3>4. \A g : Housed(d, g) <=> Housed(dirs', g)
      BY <3>2, <3>3, MovedIds, Zenon
    <3>5. Housed(d, f)
      BY <3>4
    <3> QED BY <1>0, <2>3, <3>5 DEF Housed
  <2> QED BY <2>4, <2>5, <2>6
<1>8. CASE WriteMeta
  <2>1. dirs' = WithMeta(dirs, op.new, op.id, op.saw.title) /\ op.kind \in DirKinds /\ Running
    BY <1>8 DEF WriteMeta, At, DirKinds
  <2>2. op.id \in 0..NF /\ op.saw.title \in 1..NT
    <3>1. op.id \in F /\ op.saw \in Row
      BY <2>1, OldAndNew DEF TypedOp, DirKinds, Known, Active
    <3> QED BY <3>1, Bounds DEF Row, F
  <2>3. DOMAIN dirs' = DOMAIN dirs /\ \A q \in DOMAIN dirs : dirs'[q].id \in {dirs[q].id, op.id}
    <3>1. DOMAIN dirs' = DOMAIN dirs /\ \A q \in DOMAIN dirs :
            dirs'[q] = IF q = op.new THEN [id |-> op.id, title |-> op.saw.title] ELSE dirs[q]
      <4> DEFINE e == WithMeta(dirs, op.new, op.id, op.saw.title)
      <4>1. DOMAIN e = DOMAIN dirs /\ \A q \in DOMAIN dirs :
              e[q] = IF q = op.new THEN [id |-> op.id, title |-> op.saw.title] ELSE dirs[q]
        BY <1>0, <2>2, WithMetaTree
      <4> HIDE DEF e
      <4> QED BY <2>1, <4>1 DEF e
    <3> QED BY <3>1
  <2> QED BY <1>8, <2>3 DEF Housed
<1>9. CASE WriteNewMeta
  <2> DEFINE d == WithDir(dirs, old)
  <2>1. dirs' = WithMeta(d, old, run.id, op.saw.title)
    BY <1>9 DEF WriteNewMeta
  <2>2. run.id \in 0..NF /\ op.saw.title \in 1..NT /\ old \in Paths
    <3>1. run.id \in Active /\ op.saw.title \in 1..NT /\ old \in Paths
      BY <1>9, OldAndNew DEF WriteNewMeta, At, Typed, TypedPhase, TypedOp
    <3> QED BY <3>1, Bounds DEF Active, F
  <2>3. /\ Tree(d) /\ \A q \in DOMAIN dirs : d[q] = dirs[q]
        /\ \A q \in DOMAIN d \ DOMAIN dirs : d[q].id = 0
    BY <1>0, <2>2, WithDirTree
  <2> HIDE DEF d
  <2>4. DOMAIN dirs' = DOMAIN d /\ \A q \in DOMAIN d : dirs'[q].id \in {d[q].id, run.id}
    <3> DEFINE e == WithMeta(d, old, run.id, op.saw.title)
    <3>1. DOMAIN e = DOMAIN d /\ \A q \in DOMAIN d :
            e[q] = IF q = old THEN [id |-> run.id, title |-> op.saw.title] ELSE d[q]
      BY <2>2, <2>3, WithMetaTree
    <3>2. DOMAIN e = DOMAIN d /\ \A q \in DOMAIN d : e[q].id \in {d[q].id, run.id}
      BY <3>1
    <3> HIDE DEF e
    <3> QED BY <2>1, <3>2 DEF e
  <2> QED BY <1>0, <1>9, <2>3, <2>4 DEF Housed
<1> QED BY <1>2, <1>3, <1>4, <1>5, <1>6, <1>7, <1>8, <1>9, WhoWritesDirs DEF Housed

LEMMA RowIsNotNone == None \notin Row
<1>1. Row \subseteq [title : Nat, parent : Nat]
  BY Bounds DEF Row, F, Root
<1> QED BY <1>1, Bounds

LEMMA RowAtWork ==
    ASSUME Next, ~spoilt', Running, run.phase = "commit", op.kind \in {"create dir", "create folder"}
    PROVE  \/ CommitDir /\ op.kind = "create dir"
           \/ CommitNewFolder /\ op.kind = "create folder"
<1>1. ~Refused /\ ~Crash
  BY DEF Refused, Crash
<1>2. ~Started
  BY DEF Started, Start
<1>4. Handler
  BY <1>1, <1>2, UsersWait
<1>5. CommitDir \/ CommitNewFolder
  BY <1>4 DEF Handler, MakeDir, RenameDir, WriteMeta, CreateFolder, WriteNewMeta, UpdateFolder,
     WriteNote, UnlinkOld, CommitNote, Normalize, UpdateNote, CreateNote, WriteId, UnlinkDraft,
     CommitNewNote, At
<1>6. CommitDir => op.kind # "create folder"
  BY DEF CommitDir, At
<1>7. CommitNewFolder => op.kind = "create folder"
  BY DEF CommitNewFolder, At
<1> QED BY <1>5, <1>6, <1>7

LEMMA RowsStep ==
    ASSUME Typed, KeptNow, BaseNow, Next, ~spoilt'
    PROVE  RowsNow'
<1>1. Known \subseteq Known'
  BY ForestStep
<1>2. /\ DOMAIN baseF = F /\ RowsNow
      /\ \A f \in F : remote[f] # None => remote[f] \in Row /\ remote[f].parent \in Known
  <2>1. \A f \in F : remote[f] # None => remote[f] \in Row /\ remote[f].parent \in Known
    BY DEF Typed, Forest, Row, Known, Active
  <2> QED BY <2>1 DEF KeptNow, KeptBase, BaseNow
<1>3. \A f \in F : baseF'[f] # None => baseF'[f] \in Row /\ baseF'[f].parent \in Known
  <2>1. CASE UNCHANGED baseF
    BY <1>2, <2>1 DEF RowsNow
  <2>2. CASE CommitDir
    <3>1. PICK g, row : g = op.id /\ row = op.saw
      OBVIOUS
    <3>2. baseF' = [baseF EXCEPT ![g] = row] /\ op.kind \in DirKinds \cup RowKinds /\ op \in run.plan
      BY <2>2, <3>1, OpIs DEF CommitDir, At, DirKinds, RowKinds
    <3>3. row \in Row /\ row.parent \in Known
      BY <3>1, <3>2 DEF BaseNow
    <3> QED BY <1>2, <3>2, <3>3 DEF RowsNow
  <2>3. CASE CommitNewFolder
    <3>1. PICK g : g = run.id
      OBVIOUS
    <3>2. baseF' = [baseF EXCEPT ![g] = remote[g]] /\ g \in Active
      BY <2>3, <3>1 DEF CommitNewFolder, At, Typed, TypedPhase
    <3>3. \A f \in F : baseF'[f] = IF f = g THEN remote[g] ELSE baseF[f]
      BY <1>2, <3>2
    <3> QED BY <1>2, <3>2, <3>3 DEF RowsNow, Active
  <2> QED BY <2>1, <2>2, <2>3, WhoWritesRows
<1>4. ASSUME NEW f \in F, baseF'[f] = None, Housed(dirs', f)
      PROVE  /\ Running' /\ run'.phase = "commit"
             /\ \/ op'.kind = "create dir" /\ op'.id = f
                \/ op'.kind = "create folder" /\ run'.id = f
  <2>1. ASSUME CommitDir, op.id = f PROVE FALSE
    <3>1. baseF' = [baseF EXCEPT ![op.id] = op.saw] /\ op.kind \in DirKinds \cup RowKinds /\ op \in run.plan
      BY <2>1, OpIs DEF CommitDir, At, DirKinds, RowKinds
    <3>2. op.saw \in Row
      BY <3>1 DEF BaseNow
    <3>3. None \notin Row
      BY RowIsNotNone
    <3> QED BY <1>2, <1>4, <2>1, <3>1, <3>2, <3>3
  <2>2. ASSUME CommitNewFolder, run.id = f PROVE FALSE
    <3>1. baseF' = [baseF EXCEPT ![f] = remote[f]] /\ f \in Active
      BY <2>2 DEF CommitNewFolder, At, Typed, TypedPhase
    <3> QED BY <1>2, <1>4, <3>1 DEF Active
  <2>3. baseF[f] = None
    <3>1. CASE UNCHANGED baseF
      BY <1>4, <3>1
    <3>2. CASE CommitDir
      <4>1. baseF' = [baseF EXCEPT ![op.id] = op.saw]
        BY <3>2 DEF CommitDir
      <4> QED BY <1>2, <1>4, <2>1, <3>2, <4>1
    <3>3. CASE CommitNewFolder
      <4>1. baseF' = [baseF EXCEPT ![run.id] = remote[run.id]]
        BY <3>3 DEF CommitNewFolder
      <4> QED BY <1>2, <1>4, <2>2, <3>3, <4>1
    <3> QED BY <3>1, <3>2, <3>3, WhoWritesRows
  <2>4. ASSUME Housed(dirs, f) PROVE FALSE
    <3>1. /\ Running /\ run.phase = "commit"
          /\ \/ op.kind = "create dir" /\ op.id = f
             \/ op.kind = "create folder" /\ run.id = f
      BY <1>2, <2>3, <2>4 DEF RowsNow
    <3> QED BY <2>1, <2>2, <3>1, RowAtWork
  <2>5. CASE WriteMeta /\ op.id = f
    <3>1. /\ op.kind \in DirKinds /\ Running /\ run.phase = "meta" /\ run' = [run EXCEPT !.phase = "commit"]
      BY <2>5 DEF WriteMeta, At, Go, DirKinds
    <3>2. run'.phase = "commit" /\ op' = op /\ Running' /\ op \in run.plan
      BY <3>1, Going, SameOp, OpIs
    <3>3. op.kind = "create dir"
      <4> SUFFICES ASSUME op.kind = "update dir" PROVE FALSE
        BY <3>1 DEF DirKinds
      <4>1. run.now[op.old] \in DOMAIN dirs /\ dirs[run.now[op.old]].id = op.id
        BY <3>2 DEF KeptNow, PlanKept, MoveKept
      <4>2. Housed(dirs, f)
        BY <2>5, <4>1 DEF Housed
      <4> QED BY <2>4, <4>2
    <3> QED BY <2>5, <3>2, <3>3
  <2>6. CASE WriteNewMeta /\ run.id = f
    <3>1. op.kind = "create folder" /\ Running /\ run.phase = "meta"
      BY <2>6 DEF WriteNewMeta, At
    <3>2. ~Fail
      BY <3>1 DEF Fail
    <3>3. PICK created : run' = [run EXCEPT !.phase = "commit", !.created = created]
      BY <2>6, <3>2 DEF WriteNewMeta
    <3>4. run'.phase = "commit" /\ run'.plan = run.plan /\ run'.id = run.id
      BY <3>3 DEF Typed, TypedRun, IsRun
    <3>5. op' = op /\ Running'
      BY <3>1, <3>4, SameOp
    <3> QED BY <2>6, <3>1, <3>4, <3>5
  <2> QED BY <1>4, <2>4, <2>5, <2>6, WhoHouses
<1> QED BY <1>1, <1>3, <1>4 DEF RowsNow

LEMMA BaseStep ==
    ASSUME Typed, KeptNow, PlacedNow, BaseNow, Next, ~spoilt', ~Started
    PROVE  BaseNow'
<1>1. Known \subseteq Known'
  BY ForestStep
<1>2. RowsNow'
  BY RowsStep
<1>3. \A n \in N : baseN'[n] \in Known \cup {None}
  <2>1. \A n : n \in N => baseN[n] \in Known \cup {None} /\ notes[n] \in Known \cup {None}
    BY DEF BaseNow, Typed, TypedNotes
  <2>2. UNCHANGED baseN \/ \E n : baseN' = [baseN EXCEPT ![n] = notes[n]]
    BY WhoWritesRows DEF CommitNote, CommitNewNote
  <2>3. \A n \in N : n \in DOMAIN baseN
    BY DEF PlacedNow, NotesSettled, NoteSettled
  <2> QED BY <1>1, <2>1, <2>2, <2>3
<1>4. /\ run'.plan \subseteq run.plan /\ (run'.result = "ok" => run'.ok)
      /\ run'.pull \in BOOLEAN /\ run'.push \in BOOLEAN
  BY RunShrinks DEF BaseNow
<1> QED BY <1>1, <1>2, <1>3, <1>4 DEF BaseNow

----------------------------------------------------------------------------
(* The start of a run: what is planned, and why nothing else need be.         *)
LEMMA LocalIs ==
    ASSUME Typed, KeptNow, NEW f \in F, NEW p \in DOMAIN dirs, Held(dirs, p, f)
    PROVE  /\ f \in Active /\ PathOfLocal(f) = p /\ DirOf(f) # {}
           /\ LocalF(f) = [title |-> dirs[p].title, parent |-> Enclosing(p)]
           /\ LocalF(f) \in Row /\ LocalF(f) # None /\ LocalF(f).parent \in Known
<1>0. f # 0 /\ TypedDirs /\ Tree(dirs) /\ Unique(dirs)
  BY NoRootId DEF Typed, TypedDirs, KeptNow
<1>1. DirOf(f) # {}
  BY <1>0, AllEntered DEF Housed, Held
<1>2. /\ PathOfLocal(f) \in DirOf(f) /\ PathOfLocal(f) \in DOMAIN dirs
      /\ LocalF(f) \in Row /\ LocalF(f).parent \in Known /\ LocalF(f) # None
  BY <1>0, <1>1, LocalShape
<1>3. PathOfLocal(f) = p
  BY <1>0, <1>2 DEF DirOf, Held, Unique
<1>4. LocalF(f) = [title |-> dirs[p].title, parent |-> Enclosing(p)]
  BY <1>1, <1>3 DEF LocalF
<1>5. f \in Active
  BY <1>0 DEF Held, TypedDirs, Known, Root
<1> QED BY <1>1, <1>2, <1>3, <1>4, <1>5

LEMMA StatusIs ==
    ASSUME Typed, KeptNow, BaseNow, ~Running, NEW f \in F, remote[f] # None
    PROVE  LET s == FolderStatus(f) l == LocalF(f) b == baseF[f] r == remote[f] IN
           /\ Housed(dirs, f) => b # None /\ l # None
           /\ ~Housed(dirs, f) => l = None /\ (b = None <=> s = "remote new")
           /\ Housed(dirs, f) =>
                /\ r = b /\ l # b => s = "local modified"
                /\ l = b /\ r # b => s = "remote modified"
                /\ l = r /\ l # b => s = "identical"
           /\ s = "local modified" => Housed(dirs, f) /\ r = b /\ l # b
           /\ s = "remote modified" => Housed(dirs, f) /\ l = b /\ r # b
           /\ s = "identical" => Housed(dirs, f) /\ l = r /\ l # b
           /\ s = "remote new" => ~Housed(dirs, f)
<1>1. Housed(dirs, f) <=> LocalF(f) # None
  BY AllEntered, LocalShape DEF Typed, TypedDirs, KeptNow
<1>2. Housed(dirs, f) => baseF[f] # None
  BY DEF BaseNow, RowsNow
<1>3. baseF[f] # None => Housed(dirs, f)
  BY DEF KeptNow, KeptBase
<1> QED BY <1>1, <1>2, <1>3 DEF FolderStatus

(* The operations of a plan on notebooks, by the status of the notebook.      *)
RowOp(o, push, f) ==
    \/ o.kind = "create dir" /\ FolderStatus(f) = "remote new" /\ o.saw = remote[f]
    \/ o.kind = "update dir" /\ FolderStatus(f) = "remote modified" /\ o.saw = remote[f]
    \/ push /\ o.kind = "update folder" /\ FolderStatus(f) = "local modified" /\ o.saw = LocalF(f)
    \/ o.kind = "adopt" /\ FolderStatus(f) = "identical" /\ o.saw = LocalF(f)

LEMMA RowOps ==
    ASSUME NEW pull \in BOOLEAN, NEW push \in BOOLEAN, NEW o \in Plan(pull, push),
           o.kind \in DirKinds \cup RowKinds
    PROVE  o.id \in Active /\ o.id \in F /\ RowOp(o, push, o.id)
<1>1. o.kind \notin NoteKinds /\ o.kind # "create note" /\ o.kind # "create folder"
  BY DEF DirKinds, RowKinds, NoteKinds
<1>2. CASE o \in PullDirs
  <2>1. PICK f \in Active :
          \/ FolderStatus(f) = "remote new" /\ o = Op("create dir", f, <<>>, RemotePath[f], remote[f])
          \/ /\ FolderStatus(f) = "remote modified"
             /\ o = Op("update dir", f, PathOfLocal(f), RemotePath[f], remote[f])
    BY <1>2 DEF PullDirs, FoldersWith
  <2>2. /\ o.id = f /\ o.saw = remote[f]
        /\ \/ o.kind = "create dir" /\ FolderStatus(f) = "remote new"
           \/ o.kind = "update dir" /\ FolderStatus(f) = "remote modified"
    <3> DEFINE s == FolderStatus(f)
               c == Op("create dir", f, <<>>, RemotePath[f], remote[f])
               u == Op("update dir", f, PathOfLocal(f), RemotePath[f], remote[f])
    <3>1. /\ c.id = f /\ c.saw = remote[f] /\ c.kind = "create dir"
          /\ u.id = f /\ u.saw = remote[f] /\ u.kind = "update dir"
      BY DEF Op
    <3>2. (s = "remote new" /\ o = c) \/ (s = "remote modified" /\ o = u)
      BY <2>1
    <3> HIDE DEF s, c, u
    <3>3. /\ o.id = f /\ o.saw = remote[f]
          /\ \/ o.kind = "create dir" /\ s = "remote new"
             \/ o.kind = "update dir" /\ s = "remote modified"
      BY <3>1, <3>2
    <3> QED BY <3>3 DEF s
  <2> QED BY <2>2 DEF RowOp, Active
<1>3. CASE push /\ o \in PushFolders
  <2>1. \A p : Op("create folder", 0, p, p, [title |-> p[Len(p)][1], parent |-> None]).kind = "create folder"
    BY DEF Op
  <2>2. PICK f \in FoldersWith("local modified") :
          o = Op("update folder", f, PathOfLocal(f), PathOfLocal(f), LocalF(f))
    BY <1>1, <1>3, <2>1 DEF PushFolders
  <2>3. o.id = f /\ o.saw = LocalF(f) /\ o.kind = "update folder"
    BY <2>2 DEF Op
  <2> QED BY <1>3, <2>3 DEF RowOp, FoldersWith, Active
<1>4. CASE o \in Adoptions
  <2>1. PICK f \in FoldersWith("identical") :
          o = Op("adopt", f, PathOfLocal(f), PathOfLocal(f), LocalF(f))
    BY <1>4 DEF Adoptions
  <2>2. o.id = f /\ o.saw = LocalF(f) /\ o.kind = "adopt"
    BY <2>1 DEF Op
  <2> QED BY <2>2 DEF RowOp, FoldersWith, Active
<1>5. CASE \E n \in N : o \in NoteOps(n, pull, push)
  BY <1>1, <1>5, NoteOpIs
<1>6. CASE \E p \in Drafts : o = Op("create note", Draft, p, p, dirs[p].id)
  <2>1. \A p : Op("create note", Draft, p, p, dirs[p].id).kind = "create note"
    BY DEF Op
  <2> QED BY <1>1, <1>6, <2>1
<1> QED BY <1>2, <1>3, <1>4, <1>5, <1>6, PlanSources

LEMMA RowPlanned ==
    ASSUME NEW pull \in BOOLEAN, NEW push \in BOOLEAN, NEW f \in Active,
           \/ pull /\ FolderStatus(f) \in {"remote new", "remote modified"}
           \/ push /\ FolderStatus(f) = "local modified"
           \/ FolderStatus(f) = "identical"
    PROVE  \E o \in Plan(pull, push) : o.kind \in DirKinds \cup RowKinds /\ o.id = f
<1> DEFINE s == FolderStatus(f)
           a == Op("create dir", f, <<>>, RemotePath[f], remote[f])
           b == Op("update dir", f, PathOfLocal(f), RemotePath[f], remote[f])
           c == Op("update folder", f, PathOfLocal(f), PathOfLocal(f), LocalF(f))
           d == Op("adopt", f, PathOfLocal(f), PathOfLocal(f), LocalF(f))
<1>1. /\ s = "remote new" => a \in PullDirs
      /\ s = "remote modified" => b \in PullDirs
      /\ s = "local modified" => c \in PushFolders
      /\ s = "identical" => d \in Adoptions
  BY DEF PullDirs, PushFolders, Adoptions, FoldersWith
<1>2. /\ a.kind \in DirKinds /\ a.id = f /\ b.kind \in DirKinds /\ b.id = f
      /\ c.kind \in RowKinds /\ c.id = f /\ d.kind \in RowKinds /\ d.id = f
  BY DEF Op, DirKinds, RowKinds
<1>3. /\ pull => PullDirs \subseteq Plan(pull, push)
      /\ push => PushFolders \subseteq Plan(pull, push)
      /\ Adoptions \subseteq Plan(pull, push)
  BY DEF Plan
<1> HIDE DEF a, b, c, d
<1> QED BY <1>1, <1>2, <1>3

LEMMA StartBecoming ==
    ASSUME Typed, KeptNow, NEW pull \in BOOLEAN, NEW push \in BOOLEAN,
           pull => ~Misnamed(Plan(pull, push)),
           run'.plan = Plan(pull, push), UNCHANGED <<remote, dirs>>,
           NEW f \in F, NEW p \in DOMAIN dirs, Held(dirs, p, f),
           \A o \in Plan(pull, push) : o.kind \in DirKinds => o.id # f
    PROVE  Becoming(p, f)' = LocalF(f)
<1>1. /\ f \in Active /\ PathOfLocal(f) = p /\ DirOf(f) # {}
      /\ LocalF(f) = [title |-> dirs[p].title, parent |-> Enclosing(p)]
  BY LocalIs
<1>2. CASE ~DirOps(Plan(pull, push))
  BY <1>1, <1>2 DEF Becoming, Enclosing
<1>3. CASE DirOps(Plan(pull, push))
  <2>1. pull
    BY <1>3, KindsOfPlan DEF DirOps
  <2>2. InPlace(f)
    BY <1>1, <2>1 DEF Misnamed, Ops, DirKinds
  <2>3. Enclosing(p) = remote[f].parent
    BY <1>1, <2>2 DEF InPlace, Enclosing
  <2>4. Becoming(p, f)' = [title |-> dirs[p].title, parent |-> remote[f].parent]
    BY <1>3 DEF Becoming
  <2> QED BY <1>1, <2>3, <2>4
<1> QED BY <1>2, <1>3

(* A step that begins a run.                                                  *)
Begins(pull, push) ==
    /\ run'.plan = Plan(pull, push) /\ run'.pull = pull /\ run'.push = push /\ run'.phase = "ask"
    /\ DOMAIN run'.scan = DOMAIN dirs /\ \A p \in DOMAIN dirs : run'.scan[p] = dirs[p].id
    /\ \A o \in Plan(pull, push) : run'.now[o.old] = o.old /\ run'.now[o.new] = o.new
    /\ run'.ok /\ (run'.result = "ok" => run'.plan = {})
    /\ pull => ~Misnamed(Plan(pull, push)) /\ ~NamesCollide(Plan(pull, push))
    /\ ~Running /\ UNCHANGED <<remote, notes, dirs, files, baseF, baseN>>

LEMMA StartBegins ==
    ASSUME Typed, KeptNow, NEW pull \in BOOLEAN, NEW push \in BOOLEAN, Start(pull, push), ~spoilt'
    PROVE  Begins(pull, push)
<1> DEFINE plan == Plan(pull, push)
           paths == {o.old : o \in plan} \cup {o.new : o \in plan}
           now == [p \in paths |-> p]
           scan == [p \in Visible |-> dirs[p].id]
<1>1. /\ run'.plan = plan /\ run'.pull = pull /\ run'.push = push /\ run'.phase = "ask"
      /\ run'.now = now /\ run'.scan = scan /\ run'.ok
      /\ run'.result = IF plan = {} THEN "ok" ELSE "none"
  BY DEF Start, NoRun
<1>2. /\ ~Running /\ (pull => ~Misnamed(plan) /\ ~NamesCollide(plan))
      /\ UNCHANGED <<remote, notes, dirs, files, baseF, baseN>>
  BY DEF Start
<1>3. Visible = DOMAIN dirs
  BY EveryEntered DEF Visible, KeptNow, Typed, TypedDirs
<1>4. DOMAIN scan = DOMAIN dirs /\ \A p \in DOMAIN dirs : scan[p] = dirs[p].id
  BY <1>3
<1>5. \A o \in plan : now[o.old] = o.old /\ now[o.new] = o.new
  OBVIOUS
<1> HIDE DEF now, scan, paths
<1>6. run'.result = "ok" => run'.plan = {}
  BY <1>1
<1> HIDE DEF plan
<1> QED BY <1>1, <1>2, <1>4, <1>5, <1>6 DEF Begins, plan

LEMMA StartBase ==
    ASSUME Typed, KeptNow, BaseNow, NEW pull \in BOOLEAN, NEW push \in BOOLEAN, Begins(pull, push)
    PROVE  BaseNow'
<1>1. Known' = Known
  BY DEF Begins, Known, Active
<1>2. RowsNow'
  BY <1>1 DEF Begins, BaseNow, RowsNow
<1>3. ASSUME NEW o \in Plan(pull, push), o.kind \in DirKinds \cup RowKinds
      PROVE  o.saw \in Row /\ o.saw.parent \in Known
  <2>1. PICK f \in Active : f = o.id /\ f \in F /\ RowOp(o, push, f)
    BY <1>3, RowOps
  <2>2. remote[f] \in Row /\ remote[f].parent \in Known /\ remote[f] # None
    BY <2>1 DEF Typed, Forest, Row, Known, Active
  <2>3. FolderStatus(f) \in {"local modified", "identical"} =>
          LocalF(f) \in Row /\ LocalF(f).parent \in Known
    <3>1. FolderStatus(f) \in {"local modified", "identical"} => LocalF(f) # None
      BY <2>1, StatusOfFolder
    <3> QED BY <2>1, <3>1, LocalShape DEF Typed
  <2> QED BY <2>1, <2>2, <2>3 DEF RowOp
<1> QED BY <1>1, <1>2, <1>3 DEF Begins, BaseNow

LEMMA StartFolders ==
    ASSUME Typed, KeptNow, BaseNow, NEW pull \in BOOLEAN, NEW push \in BOOLEAN, Begins(pull, push)
    PROVE  FoldersNow'
<1> DEFINE plan == Plan(pull, push)
<1>0. /\ run'.plan = plan /\ run'.pull = pull /\ run'.push = push
      /\ DOMAIN run'.scan = DOMAIN dirs /\ \A p \in DOMAIN dirs : run'.scan[p] = dirs[p].id
      /\ \A o \in plan : run'.now[o.old] = o.old /\ run'.now[o.new] = o.new
      /\ (pull => ~Misnamed(plan) /\ ~NamesCollide(plan))
      /\ ~Running /\ UNCHANGED <<remote, dirs, files, baseF>>
  BY DEF Begins
<1> HIDE DEF plan
<1>1. FoldersCalm'
  <2> SUFFICES ASSUME NEW f \in F, ~FolderOwed(f)' PROVE FolderCalm(f)'
    BY DEF FoldersCalm
  <2>1. \A o \in plan : o.kind \in DirKinds \cup RowKinds => o.id # f
    BY <1>0 DEF FolderOwed
  <2>2. ASSUME NEW p \in DOMAIN dirs, Held(dirs, p, f) PROVE RowCalm(p, f)'
    <3> DEFINE m == Becoming(p, f)'
               l == LocalF(f)
    <3>1. f \in Active /\ remote[f] # None
      BY <2>2, LocalIs DEF Active
    <3>2. m = l
      BY <1>0, <2>1, <2>2, StartBecoming DEF plan
    <3>3. /\ remote[f] = baseF[f] /\ l # baseF[f] => FolderStatus(f) = "local modified"
          /\ l = baseF[f] /\ remote[f] # baseF[f] => FolderStatus(f) = "remote modified"
          /\ l = remote[f] /\ l # baseF[f] => FolderStatus(f) = "identical"
      BY <1>0, <2>2, <3>1, StatusIs DEF Housed, Held
    <3>4. /\ FolderStatus(f) # "identical" /\ (pull => FolderStatus(f) # "remote modified")
          /\ (push => FolderStatus(f) # "local modified")
      BY <2>1, <3>1, RowPlanned DEF plan
    <3>5. RowCalm(p, f)' <=>
            /\ m = remote[f] => remote[f] = baseF[f]
            /\ pull /\ m = baseF[f] => remote[f] = baseF[f]
            /\ push /\ remote[f] = baseF[f] => m = baseF[f] \/ Under(p)'
      BY <1>0 DEF RowCalm
    <3> HIDE DEF m, l
    <3> QED BY <3>2, <3>3, <3>4, <3>5
  <2>3. ASSUME pull, remote[f] # None, ~Housed(dirs, f) PROVE baseF[f] # None
    <3> SUFFICES ASSUME baseF[f] = None PROVE FALSE
      OBVIOUS
    <3>1. FolderStatus(f) = "remote new" /\ f \in Active
      BY <1>0, <2>3, StatusIs DEF Active
    <3> QED BY <2>1, <2>3, <3>1, RowPlanned DEF plan
  <2> QED BY <1>0, <2>2, <2>3 DEF FolderCalm
<1>2. DirsCalm'
  <2> SUFFICES ASSUME push, NEW p \in DOMAIN dirs, dirs[p].id = 0
               PROVE  \E o \in plan : o.kind = "create folder" /\ run'.now[o.old] = p
    BY <1>0 DEF DirsCalm
  <2>1. p \in Candidates
    BY EveryEntered DEF Candidates, KeptNow, Typed, TypedDirs
  <2> DEFINE o == Op("create folder", 0, p, p, [title |-> p[Len(p)][1], parent |-> None])
  <2>2. o \in plan
    BY <2>1 DEF PushFolders, Plan, plan
  <2>3. o.kind = "create folder" /\ o.old = p
    BY DEF Op
  <2> HIDE DEF o
  <2> QED BY <1>0, <2>2, <2>3
<1>3. ScanKept'
  BY <1>0 DEF ScanKept
<1>4. FoldersDue'
  <2> SUFFICES ASSUME NEW o \in plan PROVE FolderDue(o)'
    BY <1>0 DEF FoldersDue
  <2>1. \A u \in plan : u.kind \in DirKinds \cup RowKinds =>
          u.id \in Active /\ u.id \in F /\ RowOp(u, push, u.id)
    BY RowOps DEF plan
  <2>2. ASSUME o.kind \in DirKinds
        PROVE  remote[o.id] = o.saw /\ \A u \in plan : u.kind \in RowKinds => u.id # o.id
    <3>1. RowOp(o, push, o.id)
      BY <2>1, <2>2
    <3>2. \A u \in plan : u.kind \in RowKinds => RowOp(u, push, u.id)
      BY <2>1
    <3>3. FolderStatus(o.id) \in {"remote new", "remote modified"} /\ o.saw = remote[o.id]
      BY <2>2, <3>1 DEF RowOp, DirKinds
    <3>4. \A u \in plan : u.kind \in RowKinds => FolderStatus(u.id) \in {"local modified", "identical"}
      BY <3>2 DEF RowOp, RowKinds
    <3> QED BY <3>3, <3>4
  <2>3. ASSUME o.kind = "create dir" PROVE \A x \in files : x.dir # o.new
    <3>1. pull
      BY <2>3, KindsOfPlan DEF DirKinds, plan
    <3>2. o.new \notin DOMAIN dirs
      BY <1>0, <2>3, <3>1 DEF NamesCollide, Ops
    <3> QED BY <3>2 DEF Typed, TypedFiles
  <2>4. ASSUME o.kind \in RowKinds PROVE Sees(o.id, o.saw)'
    <3>1. PICK f \in F : f = o.id /\ f \in Active /\ RowOp(o, push, f)
      BY <2>1, <2>4
    <3>2. FolderStatus(f) \in {"local modified", "identical"} /\ o.saw = LocalF(f)
      BY <2>4, <3>1 DEF RowOp, RowKinds
    <3>3. PICK p \in DOMAIN dirs : Held(dirs, p, f)
      BY <1>0, <3>1, <3>2, StatusIs DEF Active, Housed, Held
    <3>4. \A u \in plan : u.kind \in DirKinds => u.id # f
      BY <2>1, <3>2 DEF RowOp, DirKinds
    <3>5. Becoming(p, f)' = LocalF(f)
      BY <1>0, <3>3, <3>4, StartBecoming DEF plan
    <3>6. LocalF(f).title = dirs[p].title
      BY <3>3, LocalIs
    <3>7. PICK row : row = o.saw
      OBVIOUS
    <3>8. Sees(f, row)'
      BY <1>0, <3>2, <3>3, <3>5, <3>6, <3>7 DEF Sees
    <3> QED BY <3>1, <3>7, <3>8
  <2>5. ASSUME o.kind = "update folder" PROVE \A u \in plan : u.kind = "adopt" => u.id # o.id
    <3>1. FolderStatus(o.id) = "local modified"
      BY <2>1, <2>5 DEF RowOp, RowKinds
    <3>2. \A u \in plan : u.kind = "adopt" => FolderStatus(u.id) = "identical"
      BY <2>1 DEF RowOp, RowKinds
    <3> QED BY <3>1, <3>2
  <2>6. ASSUME o.kind = "adopt" PROVE remote[o.id] = o.saw
    <3>1. PICK f \in F : f = o.id /\ f \in Active /\ RowOp(o, push, f)
      BY <2>1, <2>6 DEF RowKinds
    <3>2. FolderStatus(f) = "identical" /\ o.saw = LocalF(f)
      BY <2>6, <3>1 DEF RowOp
    <3> QED BY <1>0, <3>1, <3>2, StatusIs DEF Active
  <2> QED BY <1>0, <2>2, <2>3, <2>4, <2>5, <2>6 DEF FolderDue
<1> QED BY <1>1, <1>2, <1>3, <1>4 DEF FoldersNow

(* The operation on a note, by its status.                                    *)
LEMMA NotePlanned ==
    ASSUME NEW pull \in BOOLEAN, NEW push \in BOOLEAN, NEW n \in N,
           \/ pull /\ NoteStatus(n) = "remote moved"
           \/ pull /\ NoteStatus(n) = "remote new" /\ Target(n) # <<>>
           \/ push /\ NoteStatus(n) = "local moved"
           \/ NoteStatus(n) = "identical"
    PROVE  \E o \in Plan(pull, push) : o.kind \in NoteKinds /\ o.id = n
<1> DEFINE s == NoteStatus(n)
           op0(kind) == Op(kind, n, PlaceOf(n), Target(n), notes[n])
           moving == Op("update file", n, PlaceOf(n),
                        IF Target(n) = <<>> THEN PlaceOf(n) ELSE Target(n), notes[n])
           pushing == Op("update note", n, PlaceOf(n), <<>>, LocalParent(n))
           is(u) == NoteOps(n, pull, push) = {u}
<1>1. /\ s = "remote moved" /\ pull => is(moving)
      /\ s = "remote new" /\ pull /\ Target(n) # <<>> => is(op0("create file"))
      /\ s = "local moved" /\ push => is(pushing)
      /\ s = "identical" => is(op0("adopt note"))
  BY DEF NoteOps
<1>2. /\ moving.kind \in NoteKinds /\ moving.id = n
      /\ pushing.kind \in NoteKinds /\ pushing.id = n
      /\ op0("create file").kind \in NoteKinds /\ op0("create file").id = n
      /\ op0("adopt note").kind \in NoteKinds /\ op0("adopt note").id = n
  BY DEF Op, NoteKinds
<1>3. \E o \in NoteOps(n, pull, push) : o.kind \in NoteKinds /\ o.id = n
  <2> HIDE DEF op0, moving, pushing, s
  <2>1. \/ pull /\ s = "remote moved"
        \/ pull /\ s = "remote new" /\ Target(n) # <<>>
        \/ push /\ s = "local moved"
        \/ s = "identical"
    BY DEF s
  <2> QED BY <1>1, <1>2, <2>1
<1>4. NoteOps(n, pull, push) \subseteq Plan(pull, push)
  <2> DEFINE A == UNION {NoteOps(m, pull, push) : m \in N}
  <2>1. NoteOps(n, pull, push) \subseteq A
    OBVIOUS
  <2>2. A \subseteq Plan(pull, push)
    BY DEF Plan
  <2> QED BY <2>1, <2>2
<1> QED BY <1>3, <1>4

LEMMA StartNotes ==
    ASSUME Typed, KeptNow, PlacedNow, BaseNow, NEW pull \in BOOLEAN, NEW push \in BOOLEAN,
           Begins(pull, push)
    PROVE  NotesNow'
<1> DEFINE plan == Plan(pull, push)
<1>0. /\ run'.plan = plan /\ run'.pull = pull /\ run'.push = push
      /\ \A o \in plan : run'.now[o.old] = o.old
      /\ UNCHANGED <<notes, dirs, files, baseN>>
  BY DEF Begins
<1> HIDE DEF plan
<1>n. None \notin Known /\ Forest(remote) /\ TypedDirs /\ TypedFiles /\ TypedNotes
  BY Bounds DEF Known, Active, F, Root, Typed
<1>1. NotesCalm'
  <2> SUFFICES ASSUME NEW n \in N, ~NoteOwed(n)', Settled(n)' PROVE NoteCalm(n)'
    BY DEF NotesCalm
  <2> DEFINE b == baseN[n]
             r == notes[n]
             s == NoteStatus(n)
  <2>1. ~\E o \in plan : o.kind \in NoteKinds /\ o.id = n
    BY <1>0 DEF NoteOwed
  <2>2. /\ FilesOf(n)' = FilesOf(n) /\ Settled(n) /\ NoteSettled(n)
    BY <1>0 DEF FilesOf, Settled, PlacedNow, NotesSettled
  <2>3. /\ s # "identical" /\ (pull => s # "remote moved") /\ (push => s # "local moved")
        /\ (pull /\ Target(n) # <<>> => s # "remote new")
    BY <2>1, NotePlanned DEF plan
  <2>4. ASSUME NEW x \in FilesOf(n)
        PROVE  LET l == dirs[x.dir].id IN
               /\ l = r => b = r
               /\ pull /\ l = b => b = r
               /\ push /\ b = r => l = b
    <3> DEFINE l == dirs[x.dir].id
    <3>1. PlaceOf(n) # <<>> /\ File(n, PlaceOf(n)) \in files
      BY <2>2, <2>4, PlaceIs DEF KeptNow
    <3>2. x = File(n, PlaceOf(n))
      BY <2>2, <3>1, FileShape DEF FilesOf, Settled
    <3>3. LocalParent(n) = l
      BY <3>1, <3>2, FileShape DEF LocalParent
    <3>4. l # None
      BY <1>n, <3>1, <3>2, FileShape, PlaceShape
    <3>5. r # None
      BY <2>2 DEF NoteSettled
    <3> HIDE DEF l
    <3>6. /\ b # None => /\ l = b /\ r # b => s = "remote moved"
                         /\ r = b /\ l # b => s = "local moved"
          /\ l = r /\ b # r => s = "identical"
      BY <3>3, <3>4, <3>5 DEF NoteStatus
    <3> HIDE DEF s, b, r
    <3>7. /\ l = r => b = r
          /\ pull /\ l = b => b = r
          /\ push /\ b = r => l = b
      BY <2>3, <3>4, <3>5, <3>6
    <3> QED BY <3>7 DEF l
  <2>5. ASSUME pull, FilesOf(n) = {}, r # None, b = None PROVE FALSE
    <3>1. PlaceOf(n) = <<>>
      <4>1. PlaceOf(n) # <<>> => File(n, PlaceOf(n)) \in FilesOf(n)
        BY PlaceIs, FileShape DEF FilesOf, KeptNow
      <4> QED BY <2>5, <4>1
    <3>2. s = "remote new"
      BY <2>5, <3>1 DEF NoteStatus, LocalParent
    <3>3. r \in Active /\ r # Root
      BY <1>n, <2>2, <2>5 DEF NoteSettled, TypedNotes, Known
    <3>4. RemotePath[r] \in Paths
      BY <1>n, <3>3, PathsOfNotebooks DEF Active
    <3>5. Target(n) # <<>>
      BY <3>3, <3>4 DEF Target, Paths
    <3> QED BY <2>3, <2>5, <3>2, <3>5
  <2> QED BY <1>0, <2>2, <2>4, <2>5 DEF NoteCalm
<1>2. DraftsCalm'
  <2> SUFFICES ASSUME push, NEW x \in files, x.n = Draft
               PROVE  \E o \in plan : o.kind = "create note" /\ run'.now[o.old] = x.dir
    BY <1>0 DEF DraftsCalm
  <2>1. x.dir \in DOMAIN dirs
    BY <1>n DEF TypedFiles
  <2>2. x.dir \in Drafts
    BY <2>1, EveryEntered DEF Drafts, KeptNow, Typed, TypedDirs
  <2> DEFINE o == Op("create note", Draft, x.dir, x.dir, dirs[x.dir].id)
  <2>3. o \in plan
    BY <2>2 DEF Plan, plan
  <2>4. o.kind = "create note" /\ o.old = x.dir
    BY DEF Op
  <2> HIDE DEF o
  <2> QED BY <1>0, <2>3, <2>4
<1>3. NotesDue'
  <2> SUFFICES ASSUME NEW o \in plan, o.kind = "normalize" PROVE notes[o.id] = o.saw
    BY <1>0 DEF NotesDue
  <2>1. o.id \in N /\ o \in NoteOps(o.id, pull, push)
    BY KindsOfPlan DEF NoteKinds, plan
  <2> QED BY <2>1, NoteOpAims, ZenonT(60) DEF AimKinds
<1> QED BY <1>1, <1>2, <1>3 DEF NotesNow

LEMMA StartCalm ==
    ASSUME Typed, KeptNow, PlacedNow, BaseNow, NEW pull \in BOOLEAN, NEW push \in BOOLEAN,
           Start(pull, push), ~spoilt'
    PROVE  BaseNow' /\ CalmNow'
<1>1. Begins(pull, push)
  BY StartBegins
<1>2. WorkDue' /\ (run'.result = "ok" => run'.plan = {})
  BY <1>1, AskDue DEF Begins
<1> QED BY <1>1, <1>2, StartBase, StartFolders, StartNotes DEF CalmNow

----------------------------------------------------------------------------
(* The initial states, and every step.                                        *)
LEMMA InitCalm == Init => Calm
<1> SUFFICES ASSUME Init PROVE BaseNow /\ ~Watched
  BY DEF Calm
<1>1. PICK nested \in BOOLEAN :
        LET rows == [f \in F |-> IF f = 1 THEN [title |-> 1, parent |-> Root]
                                ELSE IF f = 2 THEN [title |-> 2,
                                                    parent |-> IF nested THEN 1 ELSE Root]
                                ELSE None]
            second == IF nested THEN <<Plain(1), Plain(2)>> ELSE <<Plain(2)>> IN
        /\ remote = rows /\ baseF = rows /\ run = NoRun
        /\ notes = [n \in N |-> IF n = 1 THEN 1 ELSE None] /\ baseN = notes
        /\ dirs = [p \in {<<Plain(1)>>, second} |->
                     IF p = second THEN [id |-> 2, title |-> 2] ELSE [id |-> 1, title |-> 1]]
  BY DEF Init
<1>2. run.plan = {} /\ run.result = "none" /\ run.pull = FALSE /\ run.push = FALSE
  BY <1>1 DEF NoRun
<1>3. \A f \in F : baseF[f] = IF f = 1 THEN [title |-> 1, parent |-> Root]
                              ELSE IF f = 2 THEN [title |-> 2, parent |-> IF nested THEN 1 ELSE Root]
                              ELSE None
  BY <1>1
<1>4. 1 \in F /\ 2 \in F /\ 1 \in 1..NT /\ 2 \in 1..NT
  BY BoundsAssumption DEF F
<1>5. /\ [title |-> 1, parent |-> Root] \in Row /\ [title |-> 2, parent |-> Root] \in Row
      /\ [title |-> 2, parent |-> 1] \in Row
  BY <1>4 DEF Row
<1>6. None \notin Row
  BY RowIsNotNone
<1>7. 1 \in Known /\ 2 \in Known /\ Root \in Known
  BY <1>1, <1>3, <1>4, <1>5, <1>6 DEF Known, Active
<1>8. \A f \in F : baseF[f] # None => baseF[f] \in Row /\ baseF[f].parent \in Known
  BY <1>3, <1>5, <1>7
<1>9. \A f \in F : Housed(dirs, f) => baseF[f] # None
  <2> SUFFICES ASSUME NEW p \in DOMAIN dirs PROVE dirs[p].id \in {1, 2}
    BY <1>3, <1>5, <1>6 DEF Housed
  <2> DEFINE second == IF nested THEN <<Plain(1), Plain(2)>> ELSE <<Plain(2)>>
             first == <<Plain(1)>>
  <2>1. dirs = [q \in {first, second} |->
                  IF q = second THEN [id |-> 2, title |-> 2] ELSE [id |-> 1, title |-> 1]]
    BY <1>1
  <2> HIDE DEF first, second
  <2> QED BY <2>1
<1>10. \A n \in N : baseN[n] \in Known \cup {None}
  BY <1>1, <1>7
<1> QED BY <1>2, <1>8, <1>9, <1>10 DEF BaseNow, RowsNow, Watched

LEMMA NothingStays ==
    ASSUME UNCHANGED vars, BaseNow, Watched => CalmNow
    PROVE  BaseNow' /\ (Watched' => CalmNow')
<1>1. UNCHANGED <<remote, notes, dirs, files, baseF, baseN, run>>
  BY DEF vars
<1>2. op' = op /\ (Running' <=> Running) /\ old' = old
  BY <1>1, SameOp
<1>3. RemotePath' = RemotePath /\ Active' = Active /\ Known' = Known
  BY <1>1, SamePaths DEF Known
<1>4. BaseNow'
  BY <1>1, <1>2, <1>3 DEF BaseNow, RowsNow
<1> SUFFICES ASSUME CalmNow PROVE CalmNow'
  BY <1>1, <1>4 DEF Watched
<1>5. \A p, f : (Becoming(p, f)' = Becoming(p, f)) /\ (Under(p)' <=> Under(p))
  BY <1>1 DEF Becoming, Under
<1>6. \A f : /\ FolderOwed(f)' <=> FolderOwed(f)
             /\ FolderCalm(f)' <=> FolderCalm(f)
  BY <1>1, <1>2, <1>5 DEF FolderOwed, FolderCalm, RowCalm
<1>7. FoldersCalm' /\ DirsCalm' /\ ScanKept'
  BY <1>1, <1>3, <1>6 DEF CalmNow, FoldersNow, FoldersCalm, DirsCalm, ScanKept
<1>8. FoldersDue'
  <2> SUFFICES ASSUME NEW o \in run.plan PROVE FolderDue(o)'
    BY <1>1 DEF FoldersDue
  <2>1. FolderDue(o)
    BY DEF CalmNow, FoldersNow, FoldersDue
  <2> QED BY <1>1, <1>5, <2>1 DEF FolderDue, Sees
<1>9. NotesNow'
  <2>1. \A n : FilesOf(n)' = FilesOf(n) /\ (Settled(n)' <=> Settled(n)) /\ (NoteOwed(n)' <=> NoteOwed(n))
    BY <1>1, <1>2 DEF FilesOf, Settled, NoteOwed
  <2>2. \A n : NoteCalm(n)' <=> NoteCalm(n)
    BY <1>1, <2>1 DEF NoteCalm
  <2>3. NotesCalm'
    BY <2>1, <2>2 DEF CalmNow, NotesNow, NotesCalm
  <2>4. DraftsCalm' /\ NotesDue'
    BY <1>1 DEF CalmNow, NotesNow, DraftsCalm, NotesDue
  <2> QED BY <2>3, <2>4 DEF NotesNow
<1>10. WorkDue'
  <2>1. \A f : Fresh(f)' <=> Fresh(f)
    BY <1>1 DEF Fresh
  <2> QED BY <1>1, <1>2, <2>1 DEF CalmNow, WorkDue
<1> QED BY <1>1, <1>7, <1>8, <1>9, <1>10 DEF CalmNow, FoldersNow

LEMMA CalmStep == Typed /\ Kept /\ Placed /\ Calm /\ [Next]_vars => Calm'
<1> SUFFICES ASSUME Typed, Kept, Placed, Calm, [Next]_vars, ~spoilt'
             PROVE  BaseNow' /\ (Watched' => CalmNow')
  BY DEF Calm
<1>1. CASE Next
  <2>1. KeptNow /\ PlacedNow /\ BaseNow /\ (Watched => CalmNow)
    BY <1>1, StaysSpoilt DEF Kept, Placed, Calm
  <2>2. CASE Started
    <3>1. PICK pull \in BOOLEAN, push \in BOOLEAN : Start(pull, push)
      BY <2>2 DEF Started
    <3> QED BY <2>1, <3>1, StartCalm
  <2>3. CASE ~Started
    <3>1. BaseNow'
      BY <1>1, <2>1, <2>3, BaseStep
    <3>2. CASE Crash \/ Told \/ Filed \/ Made \/ Titled \/ Shifting \/ Carried \/ Drafted
      <4>1. run' = NoRun \/ run' = [NoRun EXCEPT !.result = "failed"]
        BY <3>2 DEF Crash, Told, JoplinNotebook, Filed, JoplinNote, Made, NewDir, Titled, Retitle,
           Shifting, MoveDir, Carried, MoveFile, Drafted, NewDraft, Edit
      <4>2. run'.plan = {} /\ run'.result # "ok"
        BY <4>1 DEF NoRun
      <4> QED BY <3>1, <4>2 DEF Watched
    <3>3. CASE Refused
      BY <3>1, <3>3, FailIsNotWatched DEF Refused, Fail
    <3>4. CASE Handler /\ Watched'
      <4>1. Running /\ (run'.ok => run.ok)
        <5>1. ASSUME NEW good, run' = Ended(good) PROVE run'.ok => run.ok
          BY <5>1 DEF Typed, TypedRun, IsRun, Ended
        <5> QED BY <3>4, <5>1, EndsOrGoesOn DEF RunOn
      <4>2. CalmNow
        BY <2>1, <3>4, <4>1, WatchedWas
      <4>3. CASE MakeDir \/ RenameDir \/ WriteMeta \/ CommitDir
        BY <2>1, <3>1, <3>4, <4>2, <4>3, MakeDirCalm, RenameDirCalm, WriteMetaCalm, CommitDirCalm
      <4>4. CASE CreateFolder \/ WriteNewMeta \/ CommitNewFolder \/ UpdateFolder
        BY <2>1, <3>1, <3>4, <4>2, <4>4, CreateFolderCalm, WriteNewMetaCalm, CommitNewFolderCalm,
           UpdateFolderCalm
      <4>5. CASE WriteNote \/ UnlinkOld \/ CommitNote \/ Normalize
        BY <2>1, <3>1, <3>4, <4>2, <4>5, WriteNoteCalm, UnlinkOldCalm, CommitNoteCalm, NormalizeCalm
      <4>6. CASE UpdateNote \/ CreateNote \/ WriteId \/ UnlinkDraft \/ CommitNewNote
        BY <2>1, <3>1, <3>4, <4>2, <4>6, UpdateNoteCalm, CreateNoteCalm, NewNoteFileCalm, CommitNewNoteCalm
      <4> QED BY <3>1, <3>4, <4>3, <4>4, <4>5, <4>6 DEF Handler
    <3> QED BY <1>1, <2>3, <3>1, <3>2, <3>3, <3>4, UsersWait
  <2> QED BY <2>2, <2>3
<1>2. CASE UNCHANGED vars
  <2>1. BaseNow /\ (Watched => CalmNow)
    BY <1>2 DEF vars, Calm
  <2> QED BY <1>2, <2>1, NothingStays
<1> QED BY <1>1, <1>2

----------------------------------------------------------------------------
(* A run that has reported success and that nobody has followed yet: of what  *)
(* the same command would plan, nothing is left.                              *)
Over == ~Running /\ run.plan = {} /\ CalmNow /\ BaseNow

LEMMA NoRowLeft ==
    ASSUME Typed, KeptNow, Over, NEW o \in Plan(run.pull, run.push), o.kind \in DirKinds \cup RowKinds
    PROVE  o.kind = "update folder" /\ MadeAt(run.created, Parent(o.old))
<1>0. run.pull \in BOOLEAN /\ run.push \in BOOLEAN /\ run.plan = {} /\ ~Running /\ ~DirOps(run.plan)
  BY DEF Over, BaseNow, DirOps
<1>1. PICK f \in F : f = o.id /\ f \in Active /\ RowOp(o, run.push, f)
  BY <1>0, RowOps
<1>2. FolderCalm(f) /\ remote[f] # None
  BY <1>0, <1>1 DEF Over, CalmNow, FoldersNow, FoldersCalm, FolderOwed, Active
<1> DEFINE s == FolderStatus(f)
           l == LocalF(f)
           b == baseF[f]
           r == remote[f]
<1>3. /\ s = "local modified" => Housed(dirs, f) /\ r = b /\ l # b
      /\ s = "remote modified" => Housed(dirs, f) /\ l = b /\ r # b
      /\ s = "identical" => Housed(dirs, f) /\ l = r /\ l # b
      /\ s = "remote new" => ~Housed(dirs, f)
      /\ ~Housed(dirs, f) => (b = None <=> s = "remote new")
  BY <1>0, <1>2, StatusIs DEF Over
<1>4. o.kind \in DirKinds => run.pull
  BY <1>0, KindsOfPlan
<1>5. s # "remote new" \/ o.kind # "create dir"
  BY <1>2, <1>3, <1>4 DEF FolderCalm, DirKinds
<1>6. ASSUME NEW p \in DOMAIN dirs, Held(dirs, p, f)
      PROVE  /\ l = r => r = b
             /\ run.pull /\ l = b => r = b
             /\ run.push /\ r = b => l = b \/ Under(p)
  <2>1. l = [title |-> dirs[p].title, parent |-> Enclosing(p)]
    BY <1>6, LocalIs
  <2>2. Becoming(p, f) = l
    BY <1>0, <2>1 DEF Becoming, Enclosing
  <2>3. RowCalm(p, f)
    BY <1>2, <1>6 DEF FolderCalm
  <2> QED BY <2>2, <2>3 DEF RowCalm
<1>7. Housed(dirs, f) => \E p \in DOMAIN dirs : Held(dirs, p, f)
  BY DEF Housed, Held
<1>8. /\ o.kind = "update dir" => s # "remote modified"
      /\ s # "identical"
  <2> HIDE DEF s, l, b, r
  <2>1. o.kind = "update dir" => run.pull
    BY <1>4 DEF DirKinds
  <2> QED BY <1>3, <1>6, <1>7, <2>1
<1>9. o.kind = "update folder" /\ run.push /\ s = "local modified"
  BY <1>1, <1>5, <1>8 DEF RowOp
<1>10. PICK p \in DOMAIN dirs : Held(dirs, p, f) /\ Under(p)
  BY <1>3, <1>6, <1>7, <1>9
<1>11. o.old = PathOfLocal(f)
  <2>1. o \in PushFolders
    <3>1. o \notin PullDirs
      BY <1>9, PullDirsAre DEF FolderOp
    <3>2. o \notin Adoptions
      BY <1>9, AdoptionsAre DEF FolderOp
    <3>3. ~\E n \in N : o \in NoteOps(n, run.pull, run.push)
      BY <1>0, <1>9, NoteOpIs DEF NoteKinds
    <3>4. \A p0 : Op("create note", Draft, p0, p0, dirs[p0].id).kind # "update folder"
      BY DEF Op
    <3>5. ~\E p0 \in Drafts : o = Op("create note", Draft, p0, p0, dirs[p0].id)
      BY <1>9, <3>4
    <3> QED BY <1>0, <3>1, <3>2, <3>3, <3>5, PlanSources
  <2>2. PICK g \in F : FolderOp(o, "update folder", g, "local modified") /\ o.old = PathOfLocal(g)
    BY <1>9, <2>1, PushFoldersAre
  <2> QED BY <1>1, <2>2 DEF FolderOp
<1>12. PathOfLocal(f) = p
  BY <1>10, LocalIs
<1> QED BY <1>9, <1>10, <1>11, <1>12 DEF Under

LEMMA NoNoteLeft ==
    ASSUME Typed, KeptNow, PlacedNow, Over, NEW n \in N, Settled(n),
           NEW o \in NoteOps(n, run.pull, run.push)
    PROVE  o.kind = "normalize"
<1> DEFINE s == NoteStatus(n)
           l == LocalParent(n)
           b == baseN[n]
           r == notes[n]
<1>0. run.pull \in BOOLEAN /\ run.push \in BOOLEAN /\ run.plan = {} /\ ~Running
  BY DEF Over, BaseNow
<1>1. NoteCalm(n)
  BY <1>0 DEF Over, CalmNow, NotesNow, NotesCalm, NoteOwed
<1>2. \/ s = "unchanged" /\ o.kind = "normalize"
      \/ run.pull /\ s = "remote moved"
      \/ run.pull /\ s = "remote new"
      \/ run.push /\ s = "local moved"
      \/ s = "identical"
  <2>1. \A u : Op("normalize", n, PlaceOf(n), Target(n), u).kind = "normalize"
    BY DEF Op
  <2> QED BY <2>1 DEF NoteOps
<1>3. /\ s = "remote moved" => l # None /\ r # None /\ l = b /\ r # b
      /\ s = "remote new" => l = None /\ r # None /\ b = None
      /\ s = "local moved" => l # None /\ r = b /\ l # b
      /\ s = "identical" => l # None /\ l = r /\ r # b
  BY DEF NoteStatus
<1>4. ASSUME l # None
      PROVE  /\ l = r => b = r
             /\ run.pull /\ l = b => b = r
             /\ run.push /\ b = r => l = b
  <2>1. PlaceOf(n) # <<>> /\ l = dirs[PlaceOf(n)].id
    BY <1>4 DEF LocalParent
  <2>2. File(n, PlaceOf(n)) \in FilesOf(n) /\ File(n, PlaceOf(n)).dir = PlaceOf(n)
    BY <2>1, PlaceIs, FileShape DEF KeptNow
  <2> HIDE DEF l
  <2> QED BY <1>1, <2>1, <2>2 DEF NoteCalm
<1>5. ASSUME l = None, run.pull, r # None PROVE b # None
  <2>1. PlaceOf(n) # <<>> => dirs[PlaceOf(n)].id # None
    <3>1. None \notin Known
      BY Bounds DEF Known, Active, F, Root
    <3> QED BY <3>1, PlaceShape DEF Typed
  <2>2. PlaceOf(n) = <<>>
    BY <1>5, <2>1 DEF LocalParent
  <2>3. FilesOf(n) = {}
    BY <2>2, PlaceIs DEF KeptNow
  <2> QED BY <1>1, <1>5, <2>3 DEF NoteCalm
<1> HIDE DEF s, l, b, r
<1> QED BY <1>2, <1>3, <1>4, <1>5

LEMMA CalmIsEnough == Typed /\ Kept /\ Placed /\ Calm => SuccessLeavesNothing
<1> SUFFICES ASSUME Typed, Kept, Placed, Calm, run.result = "ok", ~spoilt,
                    NEW o \in Plan(run.pull, run.push)
             PROVE  \/ o.kind = "normalize"
                    \/ /\ o.kind = "update folder"
                       /\ \E i \in DOMAIN run.created : run.created[i][1] = Parent(o.old)
                    \/ o.id \in N /\ ~Settled(o.id)
  BY DEF SuccessLeavesNothing
<1>1. KeptNow /\ PlacedNow /\ BaseNow /\ CalmNow
  BY DEF Kept, Placed, Calm, BaseNow, Watched
<1>2. run.plan = {} /\ run.pull \in BOOLEAN /\ run.push \in BOOLEAN
  BY <1>1 DEF CalmNow, BaseNow
<1>3. ~Running
  BY <1>2 DEF Running, Soonest
<1>4. Over
  BY <1>1, <1>2, <1>3 DEF Over
<1>5. CASE o.kind \in DirKinds \cup RowKinds
  BY <1>1, <1>4, <1>5, NoRowLeft DEF MadeAt
<1>6. CASE \E n \in N : o \in NoteOps(n, run.pull, run.push)
  <2>1. PICK n \in N : o \in NoteOps(n, run.pull, run.push)
    BY <1>6
  <2>2. o.id = n
    BY <1>2, <2>1, NoteOpIs
  <2> QED BY <1>1, <1>4, <2>1, <2>2, NoNoteLeft
<1>7. CASE run.push /\ o \in PushFolders /\ o.kind = "create folder"
  <2>1. o.old \in Candidates
    BY <1>7, PushFoldersAre DEF FolderOp
  <2>2. o.old \in DOMAIN dirs /\ dirs[o.old].id = 0
    BY <2>1 DEF Candidates
  <2> QED BY <1>1, <1>2, <1>7, <2>2 DEF CalmNow, FoldersNow, DirsCalm, DirOps
<1>8. CASE run.push /\ \E p \in Drafts : o = Op("create note", Draft, p, p, dirs[p].id)
  <2>1. PICK x \in files : x.n = Draft
    BY <1>8 DEF Drafts
  <2> QED BY <1>1, <1>2, <1>8, <2>1 DEF CalmNow, NotesNow, DraftsCalm
<1>9. o \in PullDirs \cup Adoptions => o.kind \in DirKinds \cup RowKinds
  BY PullDirsAre, AdoptionsAre DEF FolderOp, DirKinds, RowKinds
<1>10. o \in PushFolders => o.kind = "create folder" \/ o.kind \in RowKinds
  BY PushFoldersAre DEF FolderOp, RowKinds
<1> QED BY <1>2, <1>5, <1>6, <1>7, <1>8, <1>9, <1>10, PlanSources

(* A run of pull, push or sync that reports no failure has done all there was *)
(* to do, in a history in which directory names stayed cosmetic ("spoilt" was *)
(* never set), wherever users had taken directories and files in it and       *)
(* whichever operations on notes failed: the same command plans nothing but   *)
(* what the property lists (planner.py build_plan).                           *)
THEOREM SuccessLeavesNothingToDo == Spec => []SuccessLeavesNothing
<1>1. Init => Typed /\ Kept /\ Placed /\ Calm
  BY InitTyped, InitKept, InitPlaced, InitCalm
<1>2. Typed /\ Kept /\ Placed /\ Calm /\ [Next]_vars => (Typed /\ Kept /\ Placed /\ Calm)'
  BY TypedStep, KeptStep, PlacedStep, CalmStep
<1>3. Typed /\ Kept /\ Placed /\ Calm => SuccessLeavesNothing
  BY CalmIsEnough
<1> QED BY <1>1, <1>2, <1>3, PTL DEF Spec
==============================================================================
