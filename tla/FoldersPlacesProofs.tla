------------------------- MODULE FoldersPlacesProofs -------------------------
(* Proofs about Folders, for any number of notebooks, notes, titles, edits,   *)
(* faults and runs: runs leave every note in its notebook unless its file was *)
(* moved. The invariant says where the file of each note is, what each        *)
(* operation of the plan may rely on, and where renames have taken each path. *)
EXTENDS FoldersProofs

----------------------------------------------------------------------------
(* The inductive invariant behind NotesStayUnlessMoved.                       *)
FilesOf(n) == {x \in files : x.n = n}
Held(d, p, f) == p \in DOMAIN d /\ d[p].id = f

NoteKinds == {"create file", "update file", "normalize", "update note", "adopt note"}
AimKinds == {"create file", "update file", "normalize"}
DirKinds == {"create dir", "update dir"}
DirOps(plan) == \E o \in plan : o.kind \in DirKinds

(* A note that was not moved has one file at most, and that is in the         *)
(* directory of the notebook that the base has for the note; except while     *)
(* pull moves it.                                                             *)
Relocated(n) == Running /\ op.kind = "update file" /\ op.id = n /\ run.phase # "ask"

NoteSettled(n) ==
    /\ notes[n] = None => baseN[n] = None /\ FilesOf(n) = {}
    /\ n \in DOMAIN baseN /\ notes[n] # Root /\ baseN[n] # Root
    /\ n \notin moved /\ ~Relocated(n) =>
         /\ Settled(n)
         /\ baseN[n] # None => \A x \in FilesOf(n) : Held(dirs, x.dir, baseN[n])
NotesSettled == \A n \in N : NoteSettled(n)

(* What an operation on a note relies on: push changes the notebook of moved  *)
(* notes only.                                                                *)
Drawn(o) ==
    /\ o.kind \in NoteKinds => o.id \in N /\ notes[o.id] # None
    /\ \A u \in run.plan :
         o.kind \in NoteKinds /\ u.kind \in NoteKinds /\ o.id = u.id => o = u
    /\ o.kind = "create file" =>
         /\ baseN[o.id] = None
         /\ o.id \notin moved /\ (o # op \/ run.phase = "ask") => FilesOf(o.id) = {}
    /\ o.kind = "update note" =>
         o.id \in moved /\ run.push /\ o.old \in DOMAIN run.scan /\ o.saw = run.scan[o.old]
    /\ o.kind = "create note" => run.push /\ o.old \in DOMAIN run.scan
    /\ o.kind = "adopt note" =>
         /\ o.old \in DOMAIN run.scan /\ notes[o.id] = run.scan[o.old]
         /\ File(o.id, run.now[o.old]) \in files
    /\ o.kind = "normalize" => baseN[o.id] = o.saw
PlanDrawn == \A o \in run.plan : Drawn(o)

(* A path of the plan is followed to the directory that the scan saw there,   *)
(* and none is taken for another: not to the name of a directory that the     *)
(* scan saw.                                                                  *)
Followed(d, plan, now, scan) ==
    /\ \A p \in DOMAIN scan : p \in Paths /\ Proper(p) \subseteq DOMAIN scan
    /\ \A o \in plan : o.kind \in DirKinds /\ o.new \in DOMAIN scan => o.new \in DOMAIN d
    /\ \A p \in DOMAIN now : now[p] \in Paths \cup {<<>>} /\ (now[p] # p => now[p] \notin DOMAIN scan)
    /\ \A p \in DOMAIN now \cap DOMAIN scan :
         now[p] \in DOMAIN d /\ (scan[p] # 0 => d[now[p]].id = scan[p])

(* A directory without an id becomes a notebook in time for its notes.        *)
Pending(plan, p) == \E o \in plan : o.kind = "create folder" /\ o.old = p
MadeAt(created, p) == \E i \in DOMAIN created : created[i][1] = p

Announced(d, plan, now, scan, created, push) ==
    /\ DirOps(plan) => created = <<>>
    /\ \A i \in DOMAIN created : Held(d, created[i][1], created[i][2])
    /\ push => \A p \in DOMAIN now \cap DOMAIN scan :
                 scan[p] = 0 => MadeAt(created, now[p]) \/ Pending(plan, p)

(* While pull has directories to create or to rename, the directory of every  *)
(* other notebook has the name of its title, in the directory of the notebook *)
(* above: when it has done so, each is where RemotePath says, and the target  *)
(* of a note is the directory of its notebook.                                *)
Owed(plan, f) == \E o \in plan : o.kind \in DirKinds /\ o.id = f
Beside(d, p, f) ==
    /\ Held(d, p, f) /\ p[Len(p)] = DirName(f)
    /\ IF Len(p) = 1 THEN remote[f].parent = Root
                     ELSE remote[f].parent # Root /\ d[Parent(p)].id = remote[f].parent
Lodged(d, f) == Held(d, RemotePath[f], f) \/ \E p \in DOMAIN d : Beside(d, p, f)

Lodging(d, plan) ==
    /\ \A o \in plan : o.kind \in DirKinds => o.id \in Active /\ o.new = RemotePath[o.id]
    /\ DirOps(plan) => \A f \in Active : Owed(plan, f) \/ Lodged(d, f)
Aimed(d, plan, now) ==
    \A o \in plan : o.kind \in AimKinds =>
      /\ now[o.new] = o.new
      /\ IF DirOps(plan) THEN o.saw \in Active /\ o.new = RemotePath[o.saw]
                         ELSE o.saw # 0 /\ Held(d, o.new, o.saw)

(* The operation at work.                                                     *)
WorkPlaced ==
    Running =>
      /\ op.kind = "create dir" /\ run.phase = "commit" => Held(dirs, op.new, op.id)
      /\ op.kind = "update dir" /\ run.phase # "ask" => old = op.new
      /\ op.kind = "create folder" /\ run.phase = "commit" => MadeAt(run.created, old)
      /\ op.kind \in {"create file", "update file"} /\ run.phase # "ask" =>
           notes[op.id] = op.saw /\ File(op.id, new) \in files
      /\ op.kind = "update file" /\ run.phase = "unlink" =>
           old # new /\ (op.id \notin moved => \A x \in FilesOf(op.id) : x.dir \in {old, new})
      /\ op.kind = "update file" /\ run.phase = "commit" /\ op.id \notin moved => Settled(op.id)
      /\ op.kind = "update note" /\ run.phase = "commit" =>
           File(op.id, old) \in files /\ Held(dirs, old, notes[op.id])
      /\ op.kind = "create note" /\ run.phase # "ask" =>
           /\ baseN[run.id] = None /\ notes[run.id] # None
           /\ Held(dirs, old, notes[run.id])
           /\ FilesOf(run.id) \subseteq {File(run.id, old)}
           /\ \A o \in run.plan : o.kind \in NoteKinds => o.id # run.id

WaysKept ==
    /\ Followed(dirs, run.plan, run.now, run.scan)
    /\ Announced(dirs, run.plan, run.now, run.scan, run.created, run.push)
    /\ Lodging(dirs, run.plan) /\ Aimed(dirs, run.plan, run.now)
PlacedNow == NotesSettled /\ PlanDrawn /\ WaysKept /\ WorkPlaced
Placed == ~spoilt => PlacedNow

----------------------------------------------------------------------------
(* Paths.                                                                     *)
LEMMA ChildShape ==
    ASSUME NEW p \in Paths, NEW c \in Component
    PROVE  /\ Child(p, c) \in Paths /\ Len(Child(p, c)) = Len(p) + 1
           /\ \A i \in 1..Len(p) : Child(p, c)[i] = p[i]
           /\ Child(p, c)[Len(p) + 1] = c
<1>1. p \in Seq(Component) /\ Len(p) \in Nat /\ Len(p) >= 1
  BY PathShape
<1>2. <<c>> \in Seq(Component) /\ Len(<<c>>) = 1 /\ <<c>>[1] = c
  OBVIOUS
<1> DEFINE r == Child(p, c)
<1>3. /\ r \in Seq(Component) /\ Len(r) = Len(p) + 1
      /\ \A i \in 1..Len(p) + 1 : r[i] = IF i <= Len(p) THEN p[i] ELSE <<c>>[i - Len(p)]
  BY <1>1, <1>2, ConcatProperties DEF Child
<1> HIDE DEF r
<1>4. r # <<>>
  BY <1>1, <1>3, EmptySeq
<1>5. \A i \in 1..Len(p) : r[i] = p[i]
  BY <1>1, <1>3
<1>6. r[Len(p) + 1] = c
  BY <1>1, <1>2, <1>3
<1> QED BY <1>3, <1>4, <1>5, <1>6 DEF Paths, r

LEMMA LastChild ==
    ASSUME NEW p \in Paths, Len(p) # 1
    PROVE  p = Child(Parent(p), p[Len(p)])
<1> DEFINE h == Parent(p)
           c == p[Len(p)]
           r == Child(h, c)
<1>1. Len(p) \in Nat /\ Len(p) >= 1 /\ c \in Component
  BY PathShape
<1>2. h \in Paths /\ Len(h) = Len(p) - 1
  BY ParentShape
<1>3. Len(p) - 1 \in 1..Len(p)
  BY <1>1
<1>4. \A i \in 1..Len(p) - 1 : h[i] = p[i]
  BY <1>3, Initial DEF Parent
<1> HIDE DEF h
<1>5. r \in Paths /\ Len(r) = Len(h) + 1 /\ (\A i \in 1..Len(h) : r[i] = h[i]) /\ r[Len(h) + 1] = c
  <2> HIDE DEF c
  <2> QED BY <1>1, <1>2, ChildShape
<1> HIDE DEF r
<1>6. Len(r) = Len(p)
  BY <1>1, <1>2, <1>5
<1>7. \A i \in 1..Len(p) : p[i] = r[i]
  BY <1>1, <1>2, <1>4, <1>5
<1>8. p = r
  BY <1>5, <1>6, <1>7, PathEqual
<1> QED BY <1>8 DEF r, h

----------------------------------------------------------------------------
(* The order of operations.                                                   *)
LEMMA LaterThanDirs ==
    ASSUME NEW o, o.kind \notin DirKinds
    PROVE  Turn(o) \in {3, 4, 5, 6} /\ (o.kind # "create folder" => Turn(o) \in {4, 5, 6})
<1> DEFINE t == Turn(o)
           k == o.kind
<1>1. t = IF k = "create dir" THEN 1
          ELSE IF k = "update dir" THEN 2
          ELSE IF k = "create folder" THEN 3
          ELSE IF k = "update folder" THEN 4
          ELSE IF k = "adopt" THEN 5
          ELSE 6
  BY TurnShape, Zenon
<1>2. k # "create dir" /\ k # "update dir"
  BY DEF DirKinds
<1> HIDE DEF t, k
<1>3. t \in {3, 4, 5, 6} /\ (k # "create folder" => t \in {4, 5, 6})
  BY <1>1, <1>2
<1> QED BY <1>3 DEF t, k

LEMMA NoSooner ==
    ASSUME NEW a \in {4, 5, 6}, NEW b \in {1, 2, 3}
    PROVE  ~(a < b) /\ a # b
OBVIOUS

LEMMA InTurn ==
    ASSUME Running, NEW o \in run.plan, o # op
    PROVE  Turn(op) < Turn(o) \/ Turn(op) = Turn(o)
BY OpIs DEF Sooner

LEMMA DirsFirst ==
    ASSUME Running, op.kind \notin DirKinds
    PROVE  ~DirOps(run.plan)
<1> SUFFICES ASSUME NEW o \in run.plan, o.kind \in DirKinds PROVE FALSE
  BY DEF DirOps
<1>1. Turn(o) = 1 \/ Turn(o) = 2
  BY TurnShape DEF DirKinds
<1>2. Turn(op) \in {3, 4, 5, 6}
  BY LaterThanDirs
<1>3. Turn(op) < Turn(o) \/ Turn(op) = Turn(o)
  BY InTurn, Zenon
<1> HIDE DEF Turn
<1> QED BY <1>1, <1>2, <1>3

LEMMA FoldersFirst ==
    ASSUME Running, op.kind \notin DirKinds, op.kind # "create folder", NEW o \in run.plan
    PROVE  o.kind # "create folder"
<1> SUFFICES ASSUME o.kind = "create folder" PROVE FALSE
  OBVIOUS
<1>1. Turn(o) = 3
  BY TurnShape
<1>4. Turn(o) \in {1, 2, 3}
  BY <1>1
<1>2. Turn(op) \in {4, 5, 6}
  BY LaterThanDirs
<1>3. Turn(op) < Turn(o) \/ Turn(op) = Turn(o)
  <2>1. o # op
    OBVIOUS
  <2> QED BY <2>1, InTurn, Zenon
<1> QED BY <1>2, <1>3, <1>4, NoSooner, Zenon

(* When every notebook is next to the notebook above it, every one is where   *)
(* its path says: a notebook of least rank that is not would be above all.    *)
LEMMA Arrive ==
    ASSUME Forest(remote), NEW d, Tree(d), Unique(d), \A f \in Active : Lodged(d, f),
           NEW f0 \in Active
    PROVE  Held(d, RemotePath[f0], f0)
<1> DEFINE R == RemotePath
           There(f) == Held(d, R[f], f)
<1>n. PICK n \in Nat : \E rank : Above(remote, n, rank)
  BY DEF Forest
<1>1. PICK rank : Above(remote, n, rank)
  BY <1>n
<1>2. /\ \A f \in F : rank[f] \in 0..n
      /\ \A f \in F : remote[f] # None /\ remote[f].parent # Root =>
           /\ remote[f].parent \in F /\ rank[remote[f].parent] < rank[f]
           /\ remote[remote[f].parent] # None
  BY <1>1 DEF Above, Forest, Row
<1>3. \A f \in Active : There(f) \/ \E p \in DOMAIN d : Beside(d, p, f)
  BY DEF Lodged
<1>4. \A f \in Active :
        /\ R[f] = IF remote[f].parent = Root THEN <<DirName(f)>>
                  ELSE Child(R[remote[f].parent], DirName(f))
        /\ DirName(f) \in Component
  BY RemotePathStep, DirNameShape DEF Child, Active
<1> HIDE DEF R
<1> DEFINE T == {rank[f] : f \in {h \in Active : ~There(h)}}
<1>5. T = {}
  <2> SUFFICES ASSUME T # {} PROVE FALSE
    OBVIOUS
  <2>1. T \subseteq Nat
    BY <1>2 DEF Active
  <2>2. PICK m \in T : \A k \in T : m <= k
    <3> HIDE DEF T
    <3> QED BY <2>1, Least
  <2>3. PICK f \in Active : ~There(f) /\ m = rank[f]
    BY <2>2
  <2>4. PICK p \in DOMAIN d : Beside(d, p, f)
    BY <1>3, <2>3
  <2>5. p \in Paths /\ d[p].id = f /\ p[Len(p)] = DirName(f)
    BY <2>4 DEF Beside, Held, Tree
  <2>6. CASE Len(p) = 1
    <3>1. R[f] = <<DirName(f)>> /\ DirName(f) \in Component
      BY <1>4, <2>4, <2>6 DEF Beside
    <3> DEFINE c == DirName(f)
    <3> HIDE DEF c
    <3>2. c \in Component /\ p[1] = c
      BY <2>5, <2>6, <3>1 DEF c
    <3>3. <<c>> \in Paths /\ Len(<<c>>) = 1 /\ <<c>>[1] = c
      BY <3>2 DEF Paths
    <3>4. p = <<c>>
      <4> DEFINE q == <<c>>
      <4> HIDE DEF q
      <4>1. q \in Paths /\ Len(p) = Len(q) /\ \A i \in 1..Len(p) : p[i] = q[i]
        BY <2>6, <3>2, <3>3 DEF q
      <4>2. p = q
        BY <2>5, <4>1, PathEqual
      <4> QED BY <4>2 DEF q
    <3> QED BY <2>3, <2>5, <3>1, <3>4 DEF c, Held
  <2>7. CASE Len(p) # 1
    <3> DEFINE h == remote[f].parent
               c == DirName(f)
    <3>1. h # Root /\ d[Parent(p)].id = h
      BY <2>4, <2>7 DEF Beside
    <3>2. h \in Active /\ rank[h] < rank[f] /\ rank[h] \in 0..n /\ rank[f] \in 0..n
      BY <1>2, <3>1 DEF Active
    <3>3. There(h)
      <4> SUFFICES ASSUME ~There(h) PROVE FALSE
        OBVIOUS
      <4>1. rank[h] \in T
        <5> HIDE DEF h, There
        <5> QED BY <3>2
      <4>2. m <= rank[h]
        <5> HIDE DEF h, T
        <5> QED BY <2>2, <4>1
      <4> HIDE DEF h
      <4> QED BY <2>3, <3>2, <4>2
    <3>4. Parent(p) \in Proper(p) /\ Parent(p) \in Paths /\ Parent(p) \in DOMAIN d
      BY <2>5, <2>7, ParentShape DEF Tree
    <3>5. R[h] = Parent(p)
      BY <3>1, <3>3, <3>4 DEF Held, Unique, Root
    <3>6. R[f] = Child(Parent(p), c) /\ c \in Component
      BY <1>4, <3>1, <3>5
    <3>7. p = Child(Parent(p), c)
      BY <2>5, <2>7, <3>6, LastChild DEF c
    <3> HIDE DEF c
    <3> QED BY <2>3, <2>5, <3>6, <3>7 DEF Held
  <2> QED BY <2>6, <2>7
<1>6. There(f0)
  <2> HIDE DEF There
  <2> QED BY <1>5
<1> QED BY <1>6 DEF R

----------------------------------------------------------------------------
(* Directories are added, or get an id; the ids there are stay.               *)
Rising(d, e) ==
    \A p \in DOMAIN d : p \in DOMAIN e /\ (d[p].id # 0 => e[p].id = d[p].id)

LEMMA GrownRises ==
    ASSUME NEW d, NEW e, Grown(d, e)
    PROVE  Rising(d, e)
BY DEF Grown, Rising

LEMMA GivenRises ==
    ASSUME NEW d, NEW e, NEW p, NEW f, Given(d, e, p, f)
    PROVE  Rising(d, e)
BY DEF Given, Rising

LEMMA SamePaths ==
    ASSUME UNCHANGED remote
    PROVE  /\ RemotePath' = RemotePath /\ Active' = Active
           /\ \A f : DirName(f)' = DirName(f)
<1>1. Active' = Active
  BY DEF Active
<1>2. \A f : DirName(f)' = DirName(f)
  BY <1>1 DEF DirName
<1>3. RemotePath' = RemotePath
  BY <1>2 DEF RemotePath
<1> QED BY <1>1, <1>2, <1>3

LEMMA FollowedRises ==
    ASSUME NEW d, NEW e, Rising(d, e), NEW plan, NEW plan2, plan2 \subseteq plan,
           NEW now, NEW scan, Followed(d, plan, now, scan)
    PROVE  Followed(e, plan2, now, scan)
BY DEF Rising, Followed

LEMMA AnnouncedRises ==
    ASSUME NEW d, NEW e, Rising(d, e), NEW plan, NEW plan2, plan2 \subseteq plan,
           NEW now, NEW scan, NEW created, NEW push,
           Announced(d, plan, now, scan, created, push),
           \A i \in DOMAIN created : created[i][2] # 0,
           \A o \in plan \ plan2 : o.kind = "create folder" => MadeAt(created, now[o.old])
    PROVE  Announced(e, plan2, now, scan, created, push)
<1>1. DirOps(plan2) => created = <<>>
  BY DEF Announced, DirOps
<1>2. \A i \in DOMAIN created : Held(e, created[i][1], created[i][2])
  BY DEF Announced, Rising, Held
<1>3. ASSUME push, NEW p \in DOMAIN now \cap DOMAIN scan, scan[p] = 0
      PROVE  MadeAt(created, now[p]) \/ Pending(plan2, p)
  <2>1. CASE MadeAt(created, now[p])
    BY <2>1
  <2>2. CASE ~MadeAt(created, now[p])
    <3>1. PICK o \in plan : o.kind = "create folder" /\ o.old = p
      BY <1>3, <2>2 DEF Announced, Pending
    <3> QED BY <2>2, <3>1 DEF Pending
  <2> QED BY <2>1, <2>2
<1> QED BY <1>1, <1>2, <1>3 DEF Announced

LEMMA LodgedRises ==
    ASSUME NEW d, NEW e, Rising(d, e), Tree(d), NEW f \in Active, Lodged(d, f)
    PROVE  Lodged(e, f)
<1>1. f # 0
  BY NoRootId DEF Active
<1>2. CASE Held(d, RemotePath[f], f)
  BY <1>1, <1>2 DEF Held, Rising, Lodged
<1>3. CASE \E p \in DOMAIN d : Beside(d, p, f)
  <2>1. PICK p \in DOMAIN d : Beside(d, p, f)
    BY <1>3
  <2>2. p \in Paths /\ Held(e, p, f)
    BY <1>1, <2>1 DEF Beside, Held, Rising, Tree
  <2>3. ASSUME Len(p) # 1 PROVE e[Parent(p)].id = d[Parent(p)].id
    <3>1. Parent(p) \in DOMAIN d
      BY <2>1, <2>2, <2>3, ParentShape DEF Tree
    <3>2. d[Parent(p)].id # 0
      BY <2>1, <2>3 DEF Beside, Root
    <3> QED BY <3>1, <3>2 DEF Rising
  <2>4. Beside(e, p, f)
    BY <2>1, <2>2, <2>3 DEF Beside
  <2> QED BY <2>2, <2>4 DEF Lodged, Held
<1> QED BY <1>2, <1>3 DEF Lodged

LEMMA WaysRise ==
    ASSUME Typed, WaysKept, Rising(dirs, dirs'), UNCHANGED remote \/ ~DirOps(run.plan),
           run'.plan \subseteq run.plan,
           \A o \in run.plan \ run'.plan :
             /\ o.kind \notin DirKinds
             /\ o.kind = "create folder" => MadeAt(run.created, run.now[o.old]),
           run'.now = run.now, run'.scan = run.scan, run'.created = run.created,
           run'.push = run.push
    PROVE  WaysKept'
<1>1. Followed(dirs', run'.plan, run.now, run.scan)
  BY FollowedRises DEF WaysKept
<1>2. Announced(dirs', run'.plan, run.now, run.scan, run.created, run.push)
  <2>1. \A i \in DOMAIN run.created : run.created[i][2] # 0
    BY DEF Typed, TypedRun, Root
  <2>2. \A o \in run.plan \ run'.plan :
          o.kind = "create folder" => MadeAt(run.created, run.now[o.old])
    OBVIOUS
  <2>3. Announced(dirs, run.plan, run.now, run.scan, run.created, run.push)
    BY DEF WaysKept
  <2> QED BY <2>1, <2>2, <2>3, AnnouncedRises, ZenonT(60)
<1>3. DirOps(run'.plan) <=> DirOps(run.plan)
  BY DEF DirOps
<1>4. Lodging(dirs, run.plan)'
  <2>1. CASE ~DirOps(run.plan)
    BY <1>3, <2>1 DEF Lodging, DirOps
  <2>2. CASE UNCHANGED remote
    <3>1. RemotePath' = RemotePath /\ Active' = Active /\ \A f : DirName(f)' = DirName(f)
      BY <2>2, SamePaths
    <3>2. \A o \in run'.plan : o.kind \in DirKinds => o.id \in Active' /\ o.new = RemotePath[o.id]'
      BY <3>1 DEF WaysKept, Lodging
    <3>3. ASSUME DirOps(run'.plan), NEW f \in Active'
          PROVE  Owed(run'.plan, f) \/ Lodged(dirs, f)'
      <4>1. CASE Owed(run.plan, f)
        BY <4>1 DEF Owed
      <4>2. CASE Lodged(dirs, f)
        <5>1. Lodged(dirs', f)
          BY <3>1, <3>3, <4>2, LodgedRises DEF Typed, TypedDirs
        <5> QED BY <2>2, <3>1, <5>1 DEF Lodged, Beside
      <4> QED BY <1>3, <3>1, <3>3, <4>1, <4>2 DEF WaysKept, Lodging
    <3> QED BY <3>2, <3>3 DEF Lodging
  <2> QED BY <2>1, <2>2
<1>5. Aimed(dirs, run.plan, run.now)'
  <2> SUFFICES ASSUME NEW o \in run'.plan, o.kind \in AimKinds
               PROVE  /\ run.now[o.new] = o.new
                      /\ IF DirOps(run'.plan) THEN o.saw \in Active' /\ o.new = RemotePath[o.saw]'
                         ELSE o.saw # 0 /\ Held(dirs', o.new, o.saw)
    BY DEF Aimed
  <2>1. /\ run.now[o.new] = o.new
        /\ IF DirOps(run.plan) THEN o.saw \in Active /\ o.new = RemotePath[o.saw]
                               ELSE o.saw # 0 /\ Held(dirs, o.new, o.saw)
    BY DEF WaysKept, Aimed
  <2>2. CASE DirOps(run.plan)
    <3>1. RemotePath' = RemotePath /\ Active' = Active
      BY <2>2, SamePaths
    <3> QED BY <1>3, <2>1, <2>2, <3>1
  <2>3. CASE ~DirOps(run.plan)
    BY <1>3, <2>1, <2>3 DEF Held, Rising
  <2> QED BY <2>2, <2>3
<1> QED BY <1>1, <1>2, <1>4, <1>5 DEF WaysKept

----------------------------------------------------------------------------
(* A directory is renamed.                                                    *)
LEMMA MovedParent ==
    ASSUME NEW p \in Paths, NEW from \in Paths, NEW to \in Paths, IsPrefix(from, p), p # from
    PROVE  LET q == Moved(p, from, to) IN
           /\ Len(p) # 1 /\ Len(q) # 1 /\ q \in Paths
           /\ Parent(q) = Moved(Parent(p), from, to)
           /\ q[Len(q)] = p[Len(p)]
<1> DEFINE q == Moved(p, from, to)
           h == Parent(p)
           g == Moved(h, from, to)
           k == Parent(q)
           lp == Len(p)
           lf == Len(from)
           lt == Len(to)
<1>1. lp \in Nat /\ lf \in Nat /\ lt \in Nat /\ lf >= 1 /\ lt >= 1
  BY PathShape
<1>2. lf <= lp /\ (\A i \in 1..lf : from[i] = p[i]) /\ lf # lp
  BY PrefixShape, PathEqual
<1>3. lp # 1 /\ lf <= lp - 1
  <2> HIDE DEF lp, lf
  <2> QED BY <1>1, <1>2
<1>4. h \in Paths /\ Len(h) = lp - 1 /\ \A i \in 1..lp - 1 : h[i] = p[i]
  <2>1. lp - 1 \in 1..lp
    <3> HIDE DEF lp, lf
    <3> QED BY <1>1, <1>3
  <2> QED BY <2>1, Initial DEF Parent
<1>5. IsPrefix(from, h)
  <2> HIDE DEF h
  <2>1. \A i \in 1..Len(from) : from[i] = h[i]
    BY <1>1, <1>2, <1>3, <1>4
  <2> QED BY <1>1, <1>3, <1>4, <2>1, PrefixShape
<1>6. Shifted(q, p, from, to) /\ Shifted(g, h, from, to)
  <2> HIDE DEF h
  <2> QED BY <1>4, <1>5, MovedUnder
<1> HIDE DEF q, g
<1>7. /\ q \in Paths /\ Len(q) = lt + lp - lf
      /\ \A i \in 1..lt : q[i] = to[i]
      /\ \A i \in 1..lp - lf : q[lt + i] = p[lf + i]
      /\ g \in Paths /\ Len(g) = lt + Len(h) - lf
      /\ \A i \in 1..lt : g[i] = to[i]
      /\ \A i \in 1..Len(h) - lf : g[lt + i] = h[lf + i]
  BY <1>6 DEF Shifted
<1> HIDE DEF h, lp, lf, lt
<1>8. Len(q) # 1 /\ Len(q) - 1 \in 1..Len(q) /\ Len(q) \in Nat
  BY <1>1, <1>3, <1>7
<1>9. k \in Paths /\ Len(k) = Len(q) - 1 /\ \A i \in 1..Len(q) - 1 : k[i] = q[i]
  BY <1>7, <1>8, Initial DEF Parent
<1> HIDE DEF k
<1>10. Len(k) = Len(g)
  BY <1>1, <1>4, <1>7, <1>9
<1>11. ASSUME NEW i \in 1..Len(k) PROVE k[i] = g[i]
  <2>1. k[i] = q[i]
    BY <1>9, <1>11
  <2>2. CASE i \in 1..lt
    BY <1>7, <2>1, <2>2
  <2>3. CASE i \notin 1..lt
    <3>1. i - lt \in 1..lp - lf /\ i - lt \in 1..Len(h) - lf /\ lt + (i - lt) = i
          /\ lf + (i - lt) \in 1..lp - 1
      BY <1>1, <1>3, <1>4, <1>7, <1>9, <2>3
    <3>2. q[lt + (i - lt)] = p[lf + (i - lt)] /\ g[lt + (i - lt)] = h[lf + (i - lt)]
      BY <1>7, <3>1
    <3>3. h[lf + (i - lt)] = p[lf + (i - lt)]
      BY <1>4, <3>1
    <3> QED BY <2>1, <3>1, <3>2, <3>3
  <2> QED BY <2>2, <2>3
<1>12. k = g
  BY <1>7, <1>9, <1>10, <1>11, PathEqual
<1>13. q[Len(q)] = p[lp]
  <2>1. lp - lf \in 1..lp - lf /\ lt + (lp - lf) = Len(q) /\ lf + (lp - lf) = lp
    BY <1>1, <1>3, <1>7
  <2>2. q[lt + (lp - lf)] = p[lf + (lp - lf)]
    BY <1>7, <2>1
  <2> QED BY <2>1, <2>2
<1> QED BY <1>3, <1>7, <1>8, <1>12, <1>13 DEF q, k, g, h, lp

LEMMA NoPrefixOfNone ==
    ASSUME NEW from \in Paths, NEW to
    PROVE  ~IsPrefix(from, <<>>) /\ Moved(<<>>, from, to) = <<>>
<1>1. Len(from) >= 1 /\ Len(from) \in Nat /\ Len(<<>>) = 0
  BY PathShape
<1>2. ~IsPrefix(from, <<>>)
  BY <1>1 DEF IsPrefix
<1> QED BY <1>2 DEF Moved

LEMMA FollowedMoved ==
    ASSUME NEW d, NEW e, NEW from, NEW to, Movable(d, from, to), Carries(e, d, from, to),
           NEW plan, NEW now, NEW scan, Followed(d, plan, now, scan),
           NEW now2, DOMAIN now2 = DOMAIN now,
           \A p \in DOMAIN now : now2[p] = Moved(now[p], from, to),
           to \notin DOMAIN scan,
           \A o \in plan : o.kind \in DirKinds => o.new \in Paths /\ ~IsPrefix(from, o.new)
    PROVE  Followed(e, plan, now2, scan)
<1>1. from \in Paths /\ to \in Paths /\ DOMAIN d \subseteq Paths
  BY DEF Movable, Tree
<1>2. ASSUME NEW o \in plan, o.kind \in DirKinds, o.new \in DOMAIN scan
      PROVE  o.new \in DOMAIN e
  <2>1. o.new \in DOMAIN d /\ Moved(o.new, from, to) = o.new
    BY <1>1, <1>2, MovedPath DEF Followed
  <2> QED BY <2>1 DEF Carries
<1>3. ASSUME NEW p \in DOMAIN now
      PROVE  now2[p] \in Paths \cup {<<>>} /\ (now2[p] # p => now2[p] \notin DOMAIN scan)
  <2>1. now[p] \in Paths \cup {<<>>} /\ (now[p] # p => now[p] \notin DOMAIN scan)
        /\ now2[p] = Moved(now[p], from, to)
    BY DEF Followed
  <2>2. CASE ~IsPrefix(from, now[p])
    <3>1. now2[p] = now[p]
      BY <2>1, <2>2 DEF Moved
    <3> QED BY <2>1, <3>1
  <2>3. CASE IsPrefix(from, now[p])
    <3>1. now[p] \in Paths
      BY <1>1, <2>1, <2>3, NoPrefixOfNone
    <3>2. now2[p] \in Paths /\ IsPrefix(to, now2[p])
      <4>1. Shifted(Moved(now[p], from, to), now[p], from, to)
        BY <1>1, <2>3, <3>1, MovedUnder
      <4> QED BY <2>1, <4>1 DEF Shifted
    <3>3. to = now2[p] \/ to \in Proper(now2[p])
      BY <1>1, <3>2, PrefixShape
    <3> QED BY <3>2, <3>3 DEF Followed
  <2> QED BY <2>2, <2>3
<1>4. ASSUME NEW p \in DOMAIN now \cap DOMAIN scan
      PROVE  now2[p] \in DOMAIN e /\ (scan[p] # 0 => e[now2[p]].id = scan[p])
  <2>1. now[p] \in DOMAIN d /\ (scan[p] # 0 => d[now[p]].id = scan[p])
        /\ now2[p] = Moved(now[p], from, to)
    BY DEF Followed
  <2> QED BY <2>1 DEF Carries
<1> QED BY <1>2, <1>3, <1>4 DEF Followed

LEMMA LodgedMoved ==
    ASSUME NEW d, NEW e, NEW from, NEW to, Movable(d, from, to), Carries(e, d, from, to),
           NEW f, d[from].id # f, RemotePath[f] \in Paths, ~IsPrefix(from, RemotePath[f]),
           Lodged(d, f)
    PROVE  Lodged(e, f)
<1>1. from \in Paths /\ to \in Paths /\ DOMAIN d \subseteq Paths
  BY DEF Movable, Tree
<1>2. CASE Held(d, RemotePath[f], f)
  <2>1. Moved(RemotePath[f], from, to) = RemotePath[f]
    BY <1>1, MovedPath
  <2> QED BY <1>2, <2>1 DEF Held, Carries, Lodged
<1>3. CASE \E p \in DOMAIN d : Beside(d, p, f)
  <2>1. PICK p \in DOMAIN d : Beside(d, p, f)
    BY <1>3
  <2> DEFINE q == Moved(p, from, to)
  <2>2. p \in Paths /\ d[p].id = f /\ p[Len(p)] = DirName(f) /\ p # from
    BY <1>1, <2>1 DEF Beside, Held
  <2>3. q \in DOMAIN e /\ e[q].id = f
    BY <2>2 DEF Carries
  <2>4. Len(p) # 1 => Parent(p) \in DOMAIN d /\ Parent(p) \in Paths /\ Parent(p) \in Proper(p)
    BY <2>2, ParentShape DEF Movable, Tree
  <2>5. CASE ~IsPrefix(from, p)
    <3>1. q = p
      BY <2>5 DEF Moved
    <3>2. ASSUME Len(p) # 1 PROVE e[Parent(p)].id = d[Parent(p)].id
      <4>1. ~IsPrefix(from, Parent(p))
        BY <1>1, <2>2, <2>4, <2>5, <3>2, PrefixShape, ProperPaths
      <4>2. Moved(Parent(p), from, to) = Parent(p)
        BY <4>1 DEF Moved
      <4> QED BY <2>4, <3>2, <4>2 DEF Carries
    <3>3. Beside(e, p, f)
      <4> HIDE DEF q
      <4> QED BY <2>1, <2>3, <3>1, <3>2 DEF Beside, Held
    <3> QED BY <2>3, <3>1, <3>3 DEF Lodged
  <2>6. CASE IsPrefix(from, p)
    <3>1. /\ Len(p) # 1 /\ Len(q) # 1
          /\ Parent(q) = Moved(Parent(p), from, to) /\ q[Len(q)] = p[Len(p)]
      BY <1>1, <2>2, <2>6, MovedParent
    <3>2. e[Parent(q)].id = d[Parent(p)].id
      BY <2>4, <3>1 DEF Carries
    <3>3. Beside(e, q, f)
      <4> HIDE DEF q
      <4> QED BY <2>1, <2>2, <2>3, <3>1, <3>2 DEF Beside, Held
    <3> QED BY <2>3, <3>3 DEF Lodged
  <2> QED BY <2>5, <2>6
<1> QED BY <1>2, <1>3 DEF Lodged

----------------------------------------------------------------------------
(* What a step leaves alone.                                                  *)
SameWays ==
    /\ run'.now = run.now /\ run'.scan = run.scan
    /\ run'.created = run.created /\ run'.push = run.push
NoteSame(n) ==
    /\ notes'[n] = notes[n] /\ baseN'[n] = baseN[n] /\ DOMAIN baseN' = DOMAIN baseN
    /\ n \in moved <=> n \in moved'
    /\ FilesOf(n)' = FilesOf(n)

LEMMA Ends ==
    ASSUME Typed, NEW good, run' = Ended(good)
    PROVE  run'.phase = "ask" /\ run'.plan = run.plan \ {op} /\ SameWays
BY DEF Typed, TypedRun, IsRun, Ended, SameWays

LEMMA Goes ==
    ASSUME Typed, NEW phase, NEW id,
           run' = [run EXCEPT !.phase = phase] \/ run' = [run EXCEPT !.phase = phase, !.id = id]
    PROVE  /\ run'.phase = phase /\ run'.plan = run.plan /\ SameWays
           /\ run' = [run EXCEPT !.phase = phase] => run'.id = run.id
           /\ run' = [run EXCEPT !.phase = phase, !.id = id] => run'.id = id
BY DEF Typed, TypedRun, IsRun, SameWays

LEMMA NotRelocated ==
    ASSUME ~Running \/ op.kind # "update file" \/ run.phase = "ask", NEW n
    PROVE  ~Relocated(n)
BY DEF Relocated

LEMMA AllSame ==
    ASSUME UNCHANGED <<notes, baseN, files, moved>>, NEW n
    PROVE  NoteSame(n)
BY DEF NoteSame, FilesOf

LEMMA NoRise == ASSUME UNCHANGED dirs PROVE Rising(dirs, dirs')
BY DEF Rising

LEMMA SettledFiles ==
    ASSUME NEW n
    PROVE  Settled(n) <=> \A x, y \in FilesOf(n) : x = y
BY DEF Settled, FilesOf

LEMMA SettledStep ==
    ASSUME NotesSettled, Rising(dirs, dirs'),
           \A n \in N : (NoteSame(n) /\ ~Relocated(n)) \/ NoteSettled(n)'
    PROVE  NotesSettled'
<1> SUFFICES ASSUME NEW n \in N, NoteSame(n), ~Relocated(n) PROVE NoteSettled(n)'
  BY DEF NotesSettled
<1>1. NoteSettled(n)
  BY DEF NotesSettled
<1>2. Settled(n)' <=> Settled(n)
  <2>1. Settled(n)' <=> \A x, y \in FilesOf(n)' : x = y
    BY DEF Settled, FilesOf
  <2> QED BY <2>1, SettledFiles DEF NoteSame
<1>3. \A x \in FilesOf(n) : baseN[n] # Root /\ Held(dirs, x.dir, baseN[n]) => Held(dirs', x.dir, baseN[n])
  BY DEF Held, Rising, Root
<1> QED BY <1>1, <1>2, <1>3 DEF NoteSettled, NoteSame

LEMMA OtherNotes ==
    ASSUME PlanDrawn, Running, op.kind \in NoteKinds, \A n \in N : n # op.id => NoteSame(n)
    PROVE  \A o \in run.plan : o # op /\ o.kind \in NoteKinds => NoteSame(o.id)
BY OpIs DEF PlanDrawn, Drawn

LEMMA DrawnStep ==
    ASSUME Typed, PlanDrawn, Running, run'.plan \subseteq run.plan, SameWays,
           \A o \in run.plan : o # op /\ o.kind \in NoteKinds => NoteSame(o.id),
           op \in run'.plan =>
             /\ op' = op /\ run'.phase # "ask"
             /\ op.kind \in NoteKinds => /\ notes'[op.id] # None /\ baseN'[op.id] = baseN[op.id]
                                         /\ op.id \in moved => op.id \in moved'
             /\ op.kind # "adopt note"
    PROVE  PlanDrawn'
<1> SUFFICES ASSUME NEW o \in run'.plan PROVE Drawn(o)'
  BY DEF PlanDrawn
<1>0. Drawn(o) /\ o \in run.plan
  BY DEF PlanDrawn
<1>1. CASE o = op
  <2>1. op' = op /\ run'.phase # "ask" /\ o.kind # "adopt note"
    BY <1>1
  <2>2. o.kind \in NoteKinds => /\ notes'[o.id] # None /\ baseN'[o.id] = baseN[o.id]
                                /\ o.id \in moved => o.id \in moved'
    BY <1>1
  <2> QED BY <1>0, <1>1, <2>1, <2>2 DEF Drawn, SameWays, NoteKinds
<1>2. CASE o # op
  <2>1. CASE o.kind \in NoteKinds
    <3>1. NoteSame(o.id) /\ o.id \in N
      BY <1>0, <1>2, <2>1 DEF Drawn
    <3>2. o.kind = "adopt note" => File(o.id, run.now[o.old]) \in files'
      <4>1. \A p : File(o.id, p) \in files' <=> File(o.id, p) \in files
        <5>1. \A p : File(o.id, p).n = o.id
          BY DEF File
        <5> QED BY <3>1, <5>1 DEF NoteSame, FilesOf
      <4> QED BY <1>0, <4>1 DEF Drawn
    <3>3. FilesOf(o.id)' = FilesOf(o.id)
      BY <3>1 DEF NoteSame
    <3>4. o.kind = "create file" => baseN'[o.id] = None /\ (o.id \notin moved' => FilesOf(o.id)' = {})
      BY <1>0, <1>2, <3>1, <3>3 DEF Drawn, NoteSame
    <3> QED BY <1>0, <2>1, <3>1, <3>2, <3>4 DEF Drawn, SameWays, NoteSame, NoteKinds
  <2>2. CASE o.kind \notin NoteKinds
    BY <1>0, <2>2 DEF Drawn, SameWays, NoteKinds
  <2> QED BY <2>1, <2>2
<1> QED BY <1>1, <1>2

LEMMA EndPlaced ==
    ASSUME Typed, PlacedNow, Running, NEW good, run' = Ended(good), op.kind \notin DirKinds,
           Rising(dirs, dirs'),
           op.kind = "create folder" => MadeAt(run.created, old),
           \A o \in run.plan : o # op /\ o.kind \in NoteKinds => NoteSame(o.id),
           NotesSettled'
    PROVE  PlacedNow'
<1>1. run'.phase = "ask" /\ run'.plan = run.plan \ {op} /\ SameWays
  BY Ends
<1>2. ~DirOps(run.plan)
  BY DirsFirst
<1>3. PlanDrawn'
  BY <1>1, DrawnStep DEF PlacedNow
<1>4. WaysKept'
  BY <1>1, <1>2, WaysRise DEF PlacedNow, SameWays, old, CurrentPath
<1>5. WorkPlaced'
  BY <1>1 DEF WorkPlaced
<1> QED BY <1>3, <1>4, <1>5 DEF PlacedNow

LEMMA GoPlaced ==
    ASSUME Typed, PlacedNow, Running, run'.plan = run.plan, SameWays, run'.phase # "ask",
           UNCHANGED remote \/ op.kind \notin DirKinds, Rising(dirs, dirs'),
           \A o \in run.plan : o # op /\ o.kind \in NoteKinds => NoteSame(o.id),
           op.kind \in NoteKinds => /\ notes'[op.id] # None /\ baseN'[op.id] = baseN[op.id]
                                    /\ op.id \in moved => op.id \in moved',
           op.kind # "adopt note", NotesSettled', WorkPlaced'
    PROVE  PlacedNow'
<1>1. op' = op
  BY SameOp
<1>2. PlanDrawn'
  BY <1>1, DrawnStep DEF PlacedNow
<1>3. UNCHANGED remote \/ ~DirOps(run.plan)
  BY DirsFirst
<1>4. WaysKept'
  BY <1>3, WaysRise DEF PlacedNow, SameWays
<1> QED BY <1>2, <1>4 DEF PlacedNow

(* The operation at work ends, and has changed nothing.                       *)
LEMMA QuietEnd ==
    ASSUME Typed, PlacedNow, Running, NEW good, run' = Ended(good), op.kind \notin DirKinds,
           UNCHANGED <<notes, baseN, files, moved, dirs>>,
           op.kind = "create folder" => MadeAt(run.created, old),
           op.kind # "update file" \/ run.phase = "ask"
    PROVE  PlacedNow'
<1>1. Rising(dirs, dirs')
  BY NoRise
<1>2. \A n : NoteSame(n) /\ ~Relocated(n)
  BY AllSame, NotRelocated
<1>3. NotesSettled'
  BY <1>1, <1>2, SettledStep DEF PlacedNow
<1> QED BY <1>1, <1>2, <1>3, EndPlaced

----------------------------------------------------------------------------
(* Steps: directories and notebooks.                                          *)
LEMMA FolderKinds ==
    ASSUME NEW k \in {"create dir", "update dir", "create folder", "update folder", "adopt"}
    PROVE  /\ k \notin NoteKinds /\ k # "adopt note" /\ k # "update file" /\ k # "create file"
           /\ k # "update note" /\ k # "create note"
BY DEF NoteKinds

LEMMA MakeDirPlaced ==
    ASSUME Typed, PlacedNow, MakeDir
    PROVE  PlacedNow'
<1>1. /\ op.kind = "create dir" /\ Running /\ run.phase = "ask"
      /\ dirs' = WithDir(dirs, op.new) /\ run' = [run EXCEPT !.phase = "meta"]
      /\ UNCHANGED <<remote, notes, baseN, files, moved>>
  BY DEF MakeDir, At, Go
<1>2. op.new \in Paths /\ Tree(dirs)
  BY <1>1, OldAndNew DEF TypedOp, Typed, TypedDirs
<1>3. Rising(dirs, dirs')
  <2> DEFINE e == WithDir(dirs, op.new)
  <2>1. DOMAIN e = DOMAIN dirs \cup Proper(op.new) \cup {op.new} /\ \A q \in DOMAIN dirs : e[q] = dirs[q]
    BY <1>2, WithDirTree
  <2> HIDE DEF e
  <2> QED BY <1>1, <2>1 DEF Rising, e
<1>4. run'.phase = "meta" /\ run'.plan = run.plan /\ SameWays
  BY <1>1, Goes
<1>5. \A n : NoteSame(n) /\ ~Relocated(n)
  BY <1>1, AllSame, NotRelocated
<1>6. NotesSettled'
  BY <1>3, <1>5, SettledStep DEF PlacedNow
<1>7. WorkPlaced'
  BY <1>1, <1>4, SameOp DEF WorkPlaced
<1> QED BY <1>1, <1>3, <1>4, <1>5, <1>6, <1>7, FolderKinds, GoPlaced

(* The metadata file of a directory gives that one directory a notebook.      *)
LEMMA WithMetaIds ==
    ASSUME NEW d, Tree(d), NEW p, NEW f \in 0..NF, NEW t \in 1..NT
    PROVE  /\ DOMAIN WithMeta(d, p, f, t) = DOMAIN d
           /\ \A q \in DOMAIN d : WithMeta(d, p, f, t)[q].id = IF q = p THEN f ELSE d[q].id
<1>1. /\ DOMAIN WithMeta(d, p, f, t) = DOMAIN d
      /\ \A q \in DOMAIN d :
           WithMeta(d, p, f, t)[q] = IF q = p THEN [id |-> f, title |-> t] ELSE d[q]
  BY WithMetaTree
<1> QED BY <1>1

LEMMA WriteMetaPlaced ==
    ASSUME Typed, KeptNow, PlacedNow, WriteMeta
    PROVE  PlacedNow'
<1>1. /\ op.kind = "create dir" \/ op.kind = "update dir"
      /\ Running /\ run.phase = "meta" /\ UNCHANGED <<remote, notes, baseN, files, moved>>
      /\ dirs' = WithMeta(dirs, op.new, op.id, op.saw.title)
      /\ run' = [run EXCEPT !.phase = "commit"]
  BY DEF WriteMeta, At, Go
<1>2. op.id \in Known \ {Root} /\ op.saw.title \in 1..NT /\ Tree(dirs)
  BY <1>1, OldAndNew DEF TypedOp, Row, Typed, TypedDirs
<1>3. run'.phase = "commit" /\ run'.plan = run.plan /\ SameWays
  BY <1>1, Goes
<1>4. op' = op /\ op \in run.plan /\ op.id \in 0..NF /\ op.id # 0 /\ old' = old
  <2>1. op' = op /\ op \in run.plan /\ old' = old
    BY <1>1, <1>3, SameOp, OpIs DEF SameWays
  <2> QED BY <1>2, <2>1, Bounds DEF Known, Active, F, Root
<1>5. /\ DOMAIN dirs' = DOMAIN dirs
      /\ \A q \in DOMAIN dirs : dirs'[q].id = IF q = op.new THEN op.id ELSE dirs[q].id
  <2>1. PICK f \in 0..NF, t \in 1..NT : f = op.id /\ t = op.saw.title
    BY <1>2, <1>4
  <2>2. /\ DOMAIN WithMeta(dirs, op.new, f, t) = DOMAIN dirs
        /\ \A q \in DOMAIN dirs :
             WithMeta(dirs, op.new, f, t)[q].id = IF q = op.new THEN f ELSE dirs[q].id
    BY <1>2, WithMetaIds
  <2> QED BY <1>1, <2>1, <2>2
<1>6. op.new \in DOMAIN dirs /\ (op.kind = "create dir" => dirs[op.new].id = 0)
      /\ (op.kind = "update dir" => old = op.new /\ dirs[op.new].id = op.id)
  <2>1. CASE op.kind = "create dir"
    <3>1. op.new \in DOMAIN dirs /\ op \notin OnlyRow
      BY <1>1, <2>1 DEF KeptNow, PhaseKept, OnlyRow
    <3> QED BY <1>4, <2>1, <3>1 DEF KeptNow, PlanKept, CreateKept
  <2>2. CASE op.kind = "update dir"
    BY <1>1, <1>4, <2>2 DEF KeptNow, PhaseKept, PlanKept, MoveKept, old, CurrentPath
  <2> QED BY <1>1, <2>1, <2>2
<1>7. Rising(dirs, dirs')
  BY <1>1, <1>5, <1>6 DEF Rising
<1>8. \A n : NoteSame(n) /\ ~Relocated(n)
  BY <1>1, AllSame, NotRelocated
<1>9. NotesSettled'
  BY <1>7, <1>8, SettledStep DEF PlacedNow
<1>10. Held(dirs', op.new, op.id)
  BY <1>5, <1>6 DEF Held
<1>11. WorkPlaced'
  BY <1>1, <1>3, <1>4, <1>6, <1>10 DEF WorkPlaced
<1> QED BY <1>1, <1>3, <1>7, <1>8, <1>9, <1>11, FolderKinds, GoPlaced

(* The last directory that pull had to create or to rename is done: now every *)
(* notebook is where its path says.                                           *)
LEMMA CommitDirPlaced ==
    ASSUME Typed, KeptNow, PlacedNow, CommitDir
    PROVE  PlacedNow'
<1>1. /\ Running /\ run' = Ended(TRUE)
      /\ UNCHANGED <<remote, notes, dirs, files, baseN, moved>>
      /\ \/ op.kind = "create dir" /\ run.phase = "commit"
         \/ op.kind = "update dir" /\ run.phase = "commit"
         \/ op.kind \in {"update folder", "adopt"}
  BY DEF CommitDir, At, Done
<1>2. run'.phase = "ask" /\ run'.plan = run.plan \ {op} /\ SameWays /\ op \in run.plan
  BY <1>1, Ends, OpIs
<1>3. CASE op.kind \in {"update folder", "adopt"}
  <2>1. op.kind \notin DirKinds /\ op.kind # "create folder" /\ op.kind # "update file"
    BY <1>3 DEF DirKinds
  <2> QED BY <1>1, <2>1, QuietEnd
<1>4. CASE op.kind \in DirKinds /\ run.phase = "commit"
  <2> DEFINE plan2 == run.plan \ {op}
  <2>1. op.id \in Active /\ op.new = RemotePath[op.id] /\ DirOps(run.plan)
    BY <1>2, <1>4 DEF PlacedNow, WaysKept, Lodging, DirOps
  <2>2. Held(dirs, op.new, op.id)
    <3>1. CASE op.kind = "create dir"
      BY <1>1, <1>4, <3>1 DEF PlacedNow, WorkPlaced
    <3>2. CASE op.kind = "update dir"
      BY <1>1, <1>2, <1>4, <3>2
         DEF PlacedNow, WorkPlaced, KeptNow, PlanKept, MoveKept, old, CurrentPath, Held
    <3> QED BY <1>4, <3>1, <3>2 DEF DirKinds
  <2>3. Rising(dirs, dirs) /\ plan2 \subseteq run.plan
    BY DEF Rising
  <2>4. Followed(dirs, plan2, run.now, run.scan)
    <3> HIDE DEF plan2
    <3> QED BY <2>3, FollowedRises DEF PlacedNow, WaysKept
  <2>5. Announced(dirs, plan2, run.now, run.scan, run.created, run.push)
    <3>1. \A i \in DOMAIN run.created : run.created[i][2] # 0
      BY DEF Typed, TypedRun, Root
    <3>2. \A o \in run.plan \ plan2 : o.kind = "create folder" => MadeAt(run.created, run.now[o.old])
      BY <1>4 DEF DirKinds
    <3> HIDE DEF plan2
    <3> QED BY <2>3, <3>1, <3>2, AnnouncedRises DEF PlacedNow, WaysKept
  <2>6. \A f \in Active : Owed(plan2, f) \/ Lodged(dirs, f)
    <3> SUFFICES ASSUME NEW f \in Active, ~Lodged(dirs, f) PROVE Owed(plan2, f)
      OBVIOUS
    <3>1. Owed(run.plan, f)
      BY <2>1 DEF PlacedNow, WaysKept, Lodging
    <3>2. f # op.id
      BY <2>1, <2>2 DEF Lodged
    <3> QED BY <3>1, <3>2 DEF Owed
  <2>7. Lodging(dirs, plan2)
    BY <2>6 DEF PlacedNow, WaysKept, Lodging
  <2>8. Aimed(dirs, plan2, run.now)
    <3> SUFFICES ASSUME NEW o \in plan2, o.kind \in AimKinds
                 PROVE  /\ run.now[o.new] = o.new
                        /\ IF DirOps(plan2) THEN o.saw \in Active /\ o.new = RemotePath[o.saw]
                                            ELSE o.saw # 0 /\ Held(dirs, o.new, o.saw)
      BY DEF Aimed
    <3>1. run.now[o.new] = o.new /\ o.saw \in Active /\ o.new = RemotePath[o.saw]
      BY <2>1 DEF PlacedNow, WaysKept, Aimed
    <3>2. CASE ~DirOps(plan2)
      <4>1. \A f \in Active : Lodged(dirs, f)
        BY <2>6, <3>2 DEF Owed, DirOps
      <4>2. Forest(remote) /\ Tree(dirs) /\ Unique(dirs)
        BY DEF Typed, TypedDirs, KeptNow
      <4>3. Held(dirs, RemotePath[o.saw], o.saw)
        BY <3>1, <4>1, <4>2, Arrive
      <4> QED BY <3>1, <3>2, <4>3, NoRootId DEF Active
    <3> QED BY <3>1, <3>2
  <2> HIDE DEF plan2
  <2>9. WaysKept'
    <3>1. /\ run'.plan = plan2 /\ dirs' = dirs /\ UNCHANGED remote
          /\ RemotePath' = RemotePath /\ Active' = Active /\ \A f : DirName(f)' = DirName(f)
      BY <1>1, <1>2, SamePaths DEF plan2
    <3>2. Lodging(dirs, run.plan)'
      BY <2>7, <3>1 DEF Lodging, Lodged, Beside
    <3>3. Aimed(dirs, run.plan, run.now)'
      BY <1>2, <2>8, <3>1 DEF Aimed, SameWays
    <3> QED BY <1>2, <2>4, <2>5, <3>1, <3>2, <3>3 DEF WaysKept, SameWays
  <2>10. \A n : NoteSame(n) /\ ~Relocated(n)
    <3>1. op.kind # "update file"
      BY <1>4 DEF DirKinds
    <3> QED BY <1>1, <3>1, AllSame, NotRelocated
  <2>11. NotesSettled'
    BY <1>1, <2>10, NoRise, SettledStep DEF PlacedNow
  <2>12. PlanDrawn'
    BY <1>1, <1>2, <2>10, DrawnStep DEF PlacedNow
  <2>13. WorkPlaced'
    BY <1>2 DEF WorkPlaced
  <2> QED BY <2>9, <2>11, <2>12, <2>13 DEF PlacedNow
<1> QED BY <1>1, <1>3, <1>4 DEF DirKinds

LEMMA CreateFolderPlaced ==
    ASSUME Typed, PlacedNow, CreateFolder, ~spoilt'
    PROVE  PlacedNow'
<1>1. /\ op.kind = "create folder" /\ Running /\ run.phase = "ask"
      /\ UNCHANGED <<dirs, notes, baseN, files, moved>>
  BY DEF CreateFolder, At
<1>2. \E f : run' = [run EXCEPT !.phase = "meta", !.id = f]
  BY <1>1 DEF CreateFolder, Fail
<1>3. run'.phase = "meta" /\ run'.plan = run.plan /\ SameWays
  BY <1>2, Goes
<1>4. \A n : NoteSame(n) /\ ~Relocated(n)
  BY <1>1, AllSame, NotRelocated
<1>5. Rising(dirs, dirs') /\ NotesSettled'
  BY <1>1, <1>4, NoRise, SettledStep DEF PlacedNow
<1>6. WorkPlaced'
  BY <1>1, <1>3, SameOp DEF WorkPlaced
<1>7. op.kind \notin DirKinds
  BY <1>1 DEF DirKinds
<1> QED BY <1>1, <1>3, <1>4, <1>5, <1>6, <1>7, FolderKinds, GoPlaced

LEMMA CommitNewFolderPlaced ==
    ASSUME Typed, PlacedNow, CommitNewFolder
    PROVE  PlacedNow'
<1>1. /\ op.kind = "create folder" /\ Running /\ run.phase = "commit" /\ run' = Ended(TRUE)
      /\ UNCHANGED <<dirs, notes, baseN, files, moved>>
  BY DEF CommitNewFolder, At, Done
<1>2. MadeAt(run.created, old)
  BY <1>1 DEF PlacedNow, WorkPlaced
<1>3. op.kind \notin DirKinds /\ op.kind # "update file"
  BY <1>1 DEF DirKinds
<1> QED BY <1>1, <1>2, <1>3, QuietEnd

LEMMA UpdateFolderPlaced ==
    ASSUME Typed, PlacedNow, UpdateFolder
    PROVE  PlacedNow'
<1>1. /\ op.kind = "update folder" /\ Running /\ run.phase = "ask"
      /\ UNCHANGED <<dirs, notes, baseN, files, moved>>
      /\ run' = Ended(FALSE) \/ run' = [run EXCEPT !.phase = "commit"]
  BY DEF UpdateFolder, At, Fail, Go
<1>2. op.kind \notin DirKinds /\ op.kind # "update file" /\ op.kind # "create folder"
  BY <1>1 DEF DirKinds
<1>3. CASE run' = Ended(FALSE)
  BY <1>1, <1>2, <1>3, QuietEnd
<1>4. CASE run' = [run EXCEPT !.phase = "commit"]
  <2>1. run'.phase = "commit" /\ run'.plan = run.plan /\ SameWays
    BY <1>4, Goes
  <2>2. \A n : NoteSame(n) /\ ~Relocated(n)
    BY <1>1, AllSame, NotRelocated
  <2>3. Rising(dirs, dirs') /\ NotesSettled'
    BY <1>1, <2>2, NoRise, SettledStep DEF PlacedNow
  <2>4. WorkPlaced'
    BY <1>1, <2>1, SameOp DEF WorkPlaced
  <2> QED BY <1>1, <1>2, <2>1, <2>2, <2>3, <2>4, FolderKinds, GoPlaced
<1> QED BY <1>1, <1>3, <1>4

LEMMA WriteNewMetaPlaced ==
    ASSUME Typed, KeptNow, PlacedNow, WriteNewMeta, ~spoilt'
    PROVE  PlacedNow'
<1> DEFINE created == Append(run.created, <<old, run.id>>)
           n == Len(run.created)
<1>1. /\ op.kind = "create folder" /\ Running /\ run.phase = "meta"
      /\ UNCHANGED <<remote, notes, baseN, files, moved>>
  BY DEF WriteNewMeta, At
<1>2. /\ old \in DOMAIN dirs
      /\ dirs' = WithMeta(dirs, old, run.id, op.saw.title)
      /\ run' = [run EXCEPT !.phase = "commit", !.created = created]
  BY NewMetaWritten
<1>3. /\ run'.phase = "commit" /\ run'.plan = run.plan /\ run'.now = run.now
      /\ run'.scan = run.scan /\ run'.push = run.push /\ run'.created = created
  BY <1>2 DEF Typed, TypedRun, IsRun
<1>4. op' = op /\ old' = old /\ op \in run.plan /\ Tree(dirs)
  BY <1>1, <1>3, SameOp, OpIs DEF Typed, TypedDirs
<1>5. run.id \in 0..NF /\ run.id # 0 /\ op.saw.title \in 1..NT
  <2>1. run.id \in Active /\ op.saw.title \in 1..NT
    BY <1>1, OldAndNew DEF Typed, TypedPhase, TypedOp
  <2> QED BY <2>1, Bounds DEF Active, F
<1>6. /\ DOMAIN dirs' = DOMAIN dirs
      /\ \A q \in DOMAIN dirs : dirs'[q].id = IF q = old THEN run.id ELSE dirs[q].id
  <2>1. PICK f \in 0..NF, t \in 1..NT : f = run.id /\ t = op.saw.title
    BY <1>5
  <2>2. /\ DOMAIN WithMeta(dirs, old, f, t) = DOMAIN dirs
        /\ \A q \in DOMAIN dirs :
             WithMeta(dirs, old, f, t)[q].id = IF q = old THEN f ELSE dirs[q].id
    BY <1>4, WithMetaIds
  <2> QED BY <1>2, <2>1, <2>2
<1>7. dirs[old].id = 0
  BY <1>1, <1>4 DEF KeptNow, PlanKept, AnnounceKept, OnlyRow, old, CurrentPath
<1>8. Rising(dirs, dirs') /\ Held(dirs', old, run.id)
  BY <1>2, <1>6, <1>7 DEF Rising, Held
<1>9. /\ \A i \in DOMAIN run.created : i \in DOMAIN created /\ created[i] = run.created[i]
      /\ n + 1 \in DOMAIN created /\ created[n + 1] = <<old, run.id>>
      /\ \A i \in DOMAIN created : i \in DOMAIN run.created \/ created[i] = <<old, run.id>>
  <2>1. run.created \in Seq(Paths \X F)
    BY DEF Typed, TypedRun
  <2>2. old \in Paths /\ run.id \in F
    BY <1>1, <1>2, <1>4, OldAndNew DEF Tree, Typed, TypedPhase, Active
  <2> DEFINE P == Paths \X F
             pair == <<old, run.id>>
             s == run.created
  <2>3. s \in Seq(P) /\ pair \in P
    BY <2>1, <2>2
  <2> HIDE DEF P, pair, s
  <2>4. /\ Append(s, pair) \in Seq(P) /\ Len(Append(s, pair)) = Len(s) + 1
        /\ \A i \in 1..Len(s) : Append(s, pair)[i] = s[i]
        /\ Append(s, pair)[Len(s) + 1] = pair
    BY <2>3, AppendProperties
  <2>5. Len(s) \in Nat /\ DOMAIN s = 1..Len(s) /\ DOMAIN Append(s, pair) = 1..Len(s) + 1
    BY <2>3, <2>4, LenProperties
  <2>6. /\ \A i \in DOMAIN s : i \in DOMAIN Append(s, pair) /\ Append(s, pair)[i] = s[i]
        /\ Len(s) + 1 \in DOMAIN Append(s, pair) /\ Append(s, pair)[Len(s) + 1] = pair
        /\ \A i \in DOMAIN Append(s, pair) : i \in DOMAIN s \/ Append(s, pair)[i] = pair
    BY <2>4, <2>5
  <2> QED BY <2>6 DEF s, pair
<1> HIDE DEF created, n
<1>10. ~DirOps(run.plan)
  BY <1>1, DirsFirst DEF DirKinds
<1>11. MadeAt(created, old) /\ \A p : MadeAt(run.created, p) => MadeAt(created, p)
  BY <1>9 DEF MadeAt
<1>12. WaysKept'
  <2>1. Followed(dirs', run.plan, run.now, run.scan)
    BY <1>8, FollowedRises DEF PlacedNow, WaysKept
  <2>2. Announced(dirs', run.plan, run.now, run.scan, created, run.push)
    <3>1. \A i \in DOMAIN run.created : run.created[i][2] # 0
      BY DEF Typed, TypedRun, Root
    <3>2. Announced(dirs', run.plan, run.now, run.scan, run.created, run.push)
      BY <1>8, <3>1, AnnouncedRises DEF PlacedNow, WaysKept
    <3>3. ASSUME NEW i \in DOMAIN created PROVE Held(dirs', created[i][1], created[i][2])
      <4>1. CASE i \in DOMAIN run.created
        BY <1>9, <3>2, <4>1 DEF Announced
      <4>2. CASE created[i] = <<old, run.id>>
        BY <1>8, <4>2
      <4> QED BY <1>9, <4>1, <4>2
    <3> QED BY <1>10, <1>11, <3>2, <3>3 DEF Announced
  <2>3. Lodging(dirs, run.plan)'
    BY <1>3, <1>10 DEF Lodging, DirOps
  <2>4. Aimed(dirs, run.plan, run.now)'
    BY <1>3, <1>8, <1>10 DEF PlacedNow, WaysKept, Aimed, Held, Rising, DirOps
  <2> QED BY <1>3, <2>1, <2>2, <2>3, <2>4 DEF WaysKept
<1>13. \A k : NoteSame(k) /\ ~Relocated(k)
  BY <1>1, AllSame, NotRelocated
<1>14. NotesSettled'
  BY <1>8, <1>13, SettledStep DEF PlacedNow
<1>15. PlanDrawn'
  <2> SUFFICES ASSUME NEW o \in run.plan PROVE Drawn(o)'
    BY <1>3 DEF PlanDrawn
  <2>1. Drawn(o) /\ (o = op => o.kind = "create folder")
    BY <1>1 DEF PlacedNow, PlanDrawn
  <2>2. run.plan' = run.plan /\ FilesOf(o.id)' = FilesOf(o.id)
    BY <1>1, <1>3 DEF FilesOf
  <2>3. o.kind = "create file" => o # op
    BY <2>1
  <2> QED BY <1>1, <1>3, <1>4, <2>1, <2>2, <2>3 DEF Drawn
<1>16. WorkPlaced'
  BY <1>1, <1>3, <1>4, <1>11 DEF WorkPlaced
<1> QED BY <1>12, <1>14, <1>15, <1>16 DEF PlacedNow

Taken(S, from, to) == {[x EXCEPT !.dir = Moved(@, from, to)] : x \in S}

LEMMA MovedFilesOf ==
    ASSUME Typed, NEW from, NEW to,
           files' = Taken(files, from, to), NEW n
    PROVE  /\ FilesOf(n)' = Taken(FilesOf(n), from, to)
           /\ FilesOf(n) = {} => FilesOf(n)' = {}
           /\ \A p : File(n, p) \in files => File(n, Moved(p, from, to)) \in files'
<1>1. files \subseteq [n : N \cup {Draft}, dir : DOMAIN dirs]
  BY DEF Typed, TypedFiles
<1>2. \A x \in files : [x EXCEPT !.dir = Moved(@, from, to)] = File(x.n, Moved(x.dir, from, to))
  BY <1>1 DEF File
<1>3. FilesOf(n)' = {y \in files' : y.n = n} /\ \A m, p : File(m, p).n = m /\ File(m, p).dir = p
  BY DEF FilesOf, File
<1>4. files' = {File(x.n, Moved(x.dir, from, to)) : x \in files}
  BY <1>2 DEF Taken
<1>5. FilesOf(n)' = Taken(FilesOf(n), from, to)
  <2> DEFINE S == Taken(FilesOf(n), from, to)
  <2>1. ASSUME NEW y \in FilesOf(n)' PROVE y \in S
    <3>1. PICK x \in files : y = File(x.n, Moved(x.dir, from, to))
      BY <1>3, <1>4
    <3>2. x \in FilesOf(n)
      BY <1>3, <3>1 DEF FilesOf
    <3> QED BY <1>2, <3>1, <3>2 DEF Taken
  <2>2. ASSUME NEW y \in S PROVE y \in FilesOf(n)'
    <3>1. PICK x \in FilesOf(n) : y = [x EXCEPT !.dir = Moved(@, from, to)]
      BY <2>2 DEF Taken
    <3>2. x \in files /\ x.n = n
      BY DEF FilesOf
    <3>3. y = File(n, Moved(x.dir, from, to)) /\ y \in files'
      BY <1>2, <1>4, <3>1, <3>2
    <3> QED BY <1>3, <3>3
  <2> QED BY <2>1, <2>2
<1>6. \A p : File(n, p) \in files => File(n, Moved(p, from, to)) \in files'
  BY <1>3, <1>4
<1>7. FilesOf(n) = {} => Taken(FilesOf(n), from, to) = {}
  BY DEF Taken
<1> QED BY <1>5, <1>6, <1>7

(* The files go with their directories.                                       *)
LEMMA MovedNotes ==
    ASSUME Typed, NotesSettled, \A m : ~Relocated(m), NEW d, NEW from, NEW to,
           \A p \in DOMAIN dirs : p \in DOMAIN d /\ d[p] = dirs[p],
           Movable(d, from, to), Carries(dirs', d, from, to),
           files' = Taken(files, from, to),
           UNCHANGED <<notes, baseN, moved>>
    PROVE  NotesSettled'
<1> SUFFICES ASSUME NEW n \in N PROVE NoteSettled(n)'
  BY DEF NotesSettled
<1>1. NoteSettled(n)
  BY DEF NotesSettled
<1>2. /\ FilesOf(n)' = Taken(FilesOf(n), from, to)
      /\ FilesOf(n) = {} => FilesOf(n)' = {}
  BY MovedFilesOf, Zenon
<1>3. ASSUME n \notin moved PROVE Settled(n)'
  <2>1. \A x, y \in FilesOf(n) : x = y
    BY <1>1, <1>3, SettledFiles DEF NoteSettled
  <2>2. \A x, y \in FilesOf(n)' : x = y
    BY <1>2, <2>1 DEF Taken
  <2> QED BY <2>2 DEF Settled, FilesOf
<1>4. ASSUME n \notin moved, baseN[n] # None, NEW y \in FilesOf(n)'
      PROVE  Held(dirs', y.dir, baseN[n])
  <2>1. PICK x \in FilesOf(n) : y = [x EXCEPT !.dir = Moved(@, from, to)]
    BY <1>2 DEF Taken
  <2>2. x \in [n : N \cup {Draft}, dir : DOMAIN dirs]
    BY DEF FilesOf, Typed, TypedFiles
  <2>3. y.dir = Moved(x.dir, from, to) /\ Held(dirs, x.dir, baseN[n])
    BY <1>1, <1>4, <2>1, <2>2 DEF NoteSettled
  <2>4. Held(d, x.dir, baseN[n])
    BY <2>3 DEF Held
  <2> QED BY <2>3, <2>4 DEF Held, Carries
<1> QED BY <1>1, <1>2, <1>3, <1>4 DEF NoteSettled

LEMMA RenameDirPlaced ==
    ASSUME Typed, KeptNow, PlacedNow, RenameDir, ~spoilt'
    PROVE  PlacedNow'
<1> DEFINE d == WithParents(dirs, op.new)
           now == [p \in DOMAIN run.now |-> Moved(run.now[p], old, op.new)]
<1>1. op.kind = "update dir" /\ Running /\ run.phase = "ask" /\ UNCHANGED <<remote, notes, baseN, moved>>
  BY DEF RenameDir, At
<1>2. /\ op \in run.plan /\ op.kind \in DirKinds /\ DirOps(run.plan)
      /\ op.id \in Active /\ op.new = RemotePath[op.id]
      /\ old \in Paths /\ op.new \in Paths /\ Tree(dirs)
      /\ run.now[op.old] = old /\ op.old \in DOMAIN run.now
  <2>1. op \in run.plan /\ op.kind \in DirKinds
    BY <1>1, OpIs DEF DirKinds
  <2> QED BY <1>1, <2>1, OldAndNew
         DEF TypedOp, Typed, TypedDirs, TypedRun, PlacedNow, WaysKept, Lodging, DirOps, old, CurrentPath
<1>3. /\ Tree(d) /\ DOMAIN d = DOMAIN dirs \cup Proper(op.new)
      /\ \A q \in DOMAIN dirs : d[q] = dirs[q]
  BY <1>2, WithParentsTree
<1>4. \A n : ~Relocated(n)
  BY <1>1, NotRelocated
<1>5. \/ old = op.new /\ run' = [run EXCEPT !.phase = "meta"] /\ UNCHANGED <<dirs, files>>
      \/ /\ op.new \notin DOMAIN dirs /\ old \in DOMAIN dirs /\ ~IsPrefix(old, op.new)
         /\ dirs' = MoveTree(d, old, op.new)
         /\ files' = {[x EXCEPT !.dir = Moved(@, old, op.new)] : x \in files}
         /\ run' = [run EXCEPT !.phase = "meta", !.now = now]
         /\ \A f \in Active : ~IsPrefix(old, RemotePath[f])
  BY <1>1 DEF RenameDir, Fail, Go
<1> HIDE DEF d
<1>6. CASE old = op.new /\ run' = [run EXCEPT !.phase = "meta"] /\ UNCHANGED <<dirs, files>>
  <2>1. run'.phase = "meta" /\ run'.plan = run.plan /\ SameWays
    BY <1>6, Goes
  <2>2. \A n : NoteSame(n)
    BY <1>1, <1>6, AllSame
  <2>3. Rising(dirs, dirs') /\ NotesSettled'
    BY <1>4, <1>6, <2>2, NoRise, SettledStep DEF PlacedNow
  <2>4. op' = op /\ old' = old
    BY <2>1, SameOp DEF SameWays
  <2>5. WorkPlaced'
    BY <1>1, <1>6, <2>1, <2>4 DEF WorkPlaced
  <2> QED BY <1>1, <2>1, <2>2, <2>3, <2>5, FolderKinds, GoPlaced
<1>7. CASE /\ op.new \notin DOMAIN dirs /\ old \in DOMAIN dirs /\ ~IsPrefix(old, op.new)
           /\ dirs' = MoveTree(d, old, op.new)
           /\ files' = {[x EXCEPT !.dir = Moved(@, old, op.new)] : x \in files}
           /\ run' = [run EXCEPT !.phase = "meta", !.now = now]
           /\ \A f \in Active : ~IsPrefix(old, RemotePath[f])
  <2>1. /\ DOMAIN now = DOMAIN run.now
        /\ \A p \in DOMAIN run.now : now[p] = Moved(run.now[p], old, op.new)
    OBVIOUS
  <2> HIDE DEF now
  <2>2. /\ run'.phase = "meta" /\ run'.plan = run.plan /\ run'.now = now
        /\ run'.scan = run.scan /\ run'.push = run.push /\ run'.created = run.created
    BY <1>7 DEF Typed, TypedRun, IsRun
  <2>3. op' = op
    BY <2>2, SameOp
  <2>4. op.new \notin DOMAIN d
    BY <1>2, <1>3, <1>7, ProperPaths
  <2>5. Movable(d, old, op.new)
    BY <1>2, <1>3, <1>7, <2>4 DEF Movable
  <2>6. Carries(dirs', d, old, op.new)
    BY <1>7, <2>5, MoveTreeTree, Zenon
  <2>7. Rising(dirs, d)
    BY <1>3 DEF Rising
  <2>8. RemotePath' = RemotePath /\ Active' = Active /\ \A f : DirName(f)' = DirName(f)
    BY <1>1, SamePaths
  <2>9. \A f \in Active : RemotePath[f] \in Paths /\ ~IsPrefix(old, RemotePath[f])
    BY <1>7, PathsOfNotebooks DEF Active, Typed
  <2>10. \A o \in run.plan : o.kind \in DirKinds =>
           /\ o.id \in Active /\ o.new = RemotePath[o.id]
           /\ o.new \in Paths /\ ~IsPrefix(old, o.new)
    BY <2>9 DEF PlacedNow, WaysKept, Lodging
  <2>11. Followed(dirs', run.plan, now, run.scan)
    <3>1. Followed(d, run.plan, run.now, run.scan)
      BY <2>7, FollowedRises DEF PlacedNow, WaysKept
    <3>2. op.new \notin DOMAIN run.scan
      BY <1>2, <2>4, <3>1 DEF Followed
    <3> QED BY <2>1, <2>5, <2>6, <2>10, <3>1, <3>2, FollowedMoved
  <2>12. Announced(dirs', run.plan, now, run.scan, run.created, run.push)
    <3>1. run.created = <<>> /\ \A i : i \notin DOMAIN <<>>
      BY <1>2 DEF PlacedNow, WaysKept, Announced
    <3>2. ASSUME run.push, NEW p \in DOMAIN now \cap DOMAIN run.scan, run.scan[p] = 0
          PROVE  Pending(run.plan, p)
      BY <2>1, <3>1, <3>2 DEF PlacedNow, WaysKept, Announced, MadeAt
    <3> QED BY <3>1, <3>2 DEF Announced
  <2>13. ASSUME NEW f \in Active PROVE Owed(run.plan, f) \/ Lodged(dirs', f)
    <3>1. CASE Owed(run.plan, f)
      BY <3>1
    <3>2. CASE Lodged(dirs, f) /\ ~Owed(run.plan, f)
      <4>1. Lodged(d, f)
        BY <2>7, <3>2, LodgedRises DEF Typed, TypedDirs
      <4>2. d[old].id # f
        <5>1. dirs[old].id = op.id
          BY <1>1, <1>2 DEF KeptNow, PlanKept, MoveKept
        <5> QED BY <1>2, <1>3, <1>7, <3>2, <5>1 DEF Owed
      <4> QED BY <2>5, <2>6, <2>9, <4>1, <4>2, LodgedMoved
    <3> QED BY <1>2, <3>1, <3>2 DEF PlacedNow, WaysKept, Lodging
  <2>14. Lodging(dirs, run.plan)'
    <3>1. \A f : Lodged(dirs', f) => Lodged(dirs, f)'
      BY <1>1, <2>8 DEF Lodged, Beside
    <3>2. \A f \in Active' : Owed(run'.plan, f) \/ Lodged(dirs, f)'
      BY <2>2, <2>8, <2>13, <3>1
    <3>3. \A o \in run'.plan : o.kind \in DirKinds => o.id \in Active' /\ o.new = RemotePath'[o.id]
      BY <2>2, <2>8, <2>10
    <3> QED BY <3>2, <3>3 DEF Lodging
  <2>15. Aimed(dirs, run.plan, run.now)'
    <3> SUFFICES ASSUME NEW o \in run.plan, o.kind \in AimKinds
                 PROVE  now[o.new] = o.new /\ o.saw \in Active /\ o.new = RemotePath[o.saw]
      BY <1>2, <2>2, <2>8 DEF Aimed
    <3>1. run.now[o.new] = o.new /\ o.saw \in Active /\ o.new = RemotePath[o.saw] /\ o.new \in DOMAIN run.now
      BY <1>2 DEF PlacedNow, WaysKept, Aimed, Typed, TypedRun
    <3>2. Moved(o.new, old, op.new) = o.new
      BY <1>2, <2>9, <3>1, MovedPath
    <3> QED BY <2>1, <3>1, <3>2
  <2>16. WaysKept'
    BY <2>2, <2>11, <2>12, <2>14, <2>15 DEF WaysKept
  <2>17. ASSUME NEW n
         PROVE  /\ FilesOf(n) = {} => FilesOf(n)' = {}
                /\ \A p : File(n, p) \in files => File(n, Moved(p, old, op.new)) \in files'
    <3>1. files' = Taken(files, old, op.new)
      BY <1>7 DEF Taken
    <3> QED BY <3>1, MovedFilesOf, Zenon
  <2>18. NotesSettled'
    <3>1. \A p \in DOMAIN dirs : p \in DOMAIN d /\ d[p] = dirs[p]
      BY <1>3
    <3>2. files' = Taken(files, old, op.new)
      BY <1>7 DEF Taken
    <3>3. NotesSettled /\ UNCHANGED <<notes, baseN, moved>>
      BY <1>1 DEF PlacedNow
    <3> QED BY <1>4, <2>5, <2>6, <3>1, <3>2, <3>3, MovedNotes, Zenon
  <2>19. PlanDrawn'
    <3> SUFFICES ASSUME NEW o \in run.plan PROVE Drawn(o)'
      BY <2>2 DEF PlanDrawn
    <3>1. Drawn(o) /\ (o = op => o.kind = "update dir")
      BY <1>1 DEF PlacedNow, PlanDrawn
    <3>2. run.plan' = run.plan /\ (FilesOf(o.id) = {} => FilesOf(o.id)' = {})
      BY <2>2, <2>17
    <3>3. o.kind = "create file" => o # op
      BY <3>1
    <3>4. o.kind = "adopt note" => File(o.id, now[o.old]) \in files'
      <4>1. o.old \in DOMAIN run.now
        BY DEF Typed, TypedRun
      <4> QED BY <2>1, <2>17, <3>1, <4>1 DEF Drawn
    <3> QED BY <1>1, <2>2, <2>3, <3>1, <3>2, <3>3, <3>4 DEF Drawn
  <2>20. old' = op.new
    <3>1. old' = now[op.old]
      BY <2>2, <2>3 DEF old, CurrentPath
    <3>2. old' = Moved(old, old, op.new)
      BY <1>2, <2>1, <3>1
    <3> QED BY <1>2, <3>2, MovedSelf
  <2>21. WorkPlaced'
    BY <1>1, <2>2, <2>3, <2>20 DEF WorkPlaced
  <2> QED BY <2>16, <2>18, <2>19, <2>21 DEF PlacedNow
<1> QED BY <1>5, <1>6, <1>7

----------------------------------------------------------------------------
(* Steps: notes.                                                              *)
LEMMA NoteOpKinds ==
    ASSUME NEW k
    PROVE  /\ k \in NoteKinds \cup {"create note"} =>
                k \notin DirKinds /\ k # "create folder"
           /\ k \in {"create file", "update file"} => k \in NoteKinds /\ k \in AimKinds /\ k # "adopt note"
           /\ k = "normalize" => k \in NoteKinds /\ k \in AimKinds /\ k # "adopt note"
           /\ k \in {"update note", "adopt note"} => k \in NoteKinds
           /\ k = "create note" => k \notin NoteKinds
BY DEF NoteKinds, DirKinds, AimKinds

(* Below, "the operation is on a note" stands for what the invariant says of  *)
(* it: its target is the directory of the notebook that the plan saw.         *)
LEMMA AtWork ==
    ASSUME Typed, PlacedNow, Running, op.kind \in NoteKinds
    PROVE  /\ op \in run.plan /\ Drawn(op) /\ NoteSettled(op.id) /\ op.id \in N /\ notes[op.id] # None
           /\ op.kind \notin DirKinds /\ op.kind # "create folder" /\ ~DirOps(run.plan)
           /\ op.kind \in AimKinds => new = op.new /\ op.saw # 0 /\ Held(dirs, new, op.saw)
<1>1. op \in run.plan /\ Drawn(op) /\ op.kind \notin DirKinds /\ op.kind # "create folder"
  BY OpIs, NoteOpKinds DEF PlacedNow, PlanDrawn
<1>2. op.id \in N /\ notes[op.id] # None
  BY <1>1 DEF Drawn
<1>3. ~DirOps(run.plan)
  BY <1>1, DirsFirst
<1>4. op.kind \in AimKinds => new = op.new /\ op.saw # 0 /\ Held(dirs, new, op.saw)
  BY <1>1, <1>3 DEF PlacedNow, WaysKept, Aimed, new, CurrentPath
<1> QED BY <1>1, <1>2, <1>3, <1>4 DEF PlacedNow, NotesSettled

LEMMA FileShape ==
    ASSUME NEW n, NEW p
    PROVE  /\ File(n, p).n = n /\ File(n, p).dir = p
           /\ Typed => \A x \in FilesOf(n) : x = File(n, x.dir) /\ x.dir \in DOMAIN dirs
           /\ File(n, p) \in files <=> File(n, p) \in FilesOf(n)
BY DEF File, FilesOf, Typed, TypedFiles

(* The files of another note.                                                 *)
LEMMA OtherFiles ==
    ASSUME NEW n, NEW m, n # m, NEW p, NEW q,
           \/ files' = files
           \/ files' = files \cup {File(n, p)}
           \/ files' = files \ {File(n, p)}
           \/ files' = (files \ {File(n, q)}) \cup {File(n, p)}
    PROVE  FilesOf(m)' = FilesOf(m)
BY FileShape DEF FilesOf

LEMMA WriteNotePlaced ==
    ASSUME Typed, PlacedNow, WriteNote
    PROVE  PlacedNow'
<1>0. PICK n : n = op.id
  OBVIOUS
<1>1. /\ Running /\ run.phase = "ask" /\ op.kind \in {"create file", "update file"}
      /\ UNCHANGED <<remote, notes, dirs, baseN, moved>>
  BY <1>0 DEF WriteNote, At
<1>2. op.kind \in NoteKinds /\ op.kind \in AimKinds /\ op.kind # "adopt note"
  BY <1>0, <1>1, NoteOpKinds
<1>3. /\ op \in run.plan /\ Drawn(op) /\ NoteSettled(n) /\ n \in N /\ notes[n] # None
      /\ op.kind \notin DirKinds /\ op.kind # "create folder"
  BY <1>0, <1>1, <1>2, AtWork
<1>4. CASE run' = Ended(FALSE) /\ files' = files
  BY <1>0, <1>1, <1>3, <1>4, QuietEnd
<1>5. CASE /\ notes[n] = op.saw /\ files' = files \cup {File(n, new)}
           /\ op.kind = "update file" => File(n, old) \in files
           /\ run' = [run EXCEPT !.phase = IF op.kind = "create file" \/ old = new
                                             THEN "commit" ELSE "unlink"]
  <2>1. /\ run'.plan = run.plan /\ SameWays
        /\ run'.phase = IF op.kind = "create file" \/ old = new THEN "commit" ELSE "unlink"
    BY <1>0, <1>5, Goes
  <2>2. op' = op /\ old' = old /\ new' = new /\ (Running' <=> Running)
    BY <2>1, SameOp DEF SameWays, old, new, CurrentPath
  <2>3. \A m \in N : m # n => NoteSame(m) /\ ~Relocated(m)
    BY <1>0, <1>1, <1>5, OtherFiles, NotRelocated DEF NoteSame
  <2>4. Rising(dirs, dirs')
    BY <1>0, <1>1, NoRise
  <2>5. File(n, new) \in files' /\ FilesOf(n)' = FilesOf(n) \cup {File(n, new)}
    <3>1. files' = files \cup {File(n, new)} /\ File(n, new).n = n
      BY <1>5, FileShape
    <3>2. FilesOf(n)' = {x \in files' : x.n = n}
      BY DEF FilesOf
    <3> QED BY <3>1, <3>2 DEF FilesOf
  <2>6. ASSUME n \notin moved
        PROVE  /\ op.kind = "create file" => FilesOf(n)' = {File(n, new)} /\ baseN[n] = None
               /\ op.kind = "update file" => FilesOf(n)' = {File(n, old), File(n, new)}
    <3>1. CASE op.kind = "create file"
      BY <1>0, <1>1, <1>3, <2>5, <2>6, <3>1 DEF Drawn
    <3>2. CASE op.kind = "update file"
      <4>1. Settled(n) /\ File(n, old) \in FilesOf(n)
        BY <1>0, <1>1, <1>3, <1>5, <2>6, <3>2, NotRelocated, FileShape DEF NoteSettled
      <4>2. FilesOf(n) = {File(n, old)}
        BY <4>1, SettledFiles
      <4> QED BY <2>5, <3>2, <4>2
    <3> QED BY <1>0, <1>1, <3>1, <3>2
  <2>7. ASSUME n \notin moved, op.kind = "create file" \/ old = new
        PROVE  Settled(n)'
    <3>1. \A x, y \in FilesOf(n)' : x = y
      BY <1>0, <1>1, <2>6, <2>7
    <3> QED BY <3>1 DEF Settled, FilesOf
  <2>8. NoteSettled(n)'
    <3>1. CASE op.kind = "update file"
      <4>1. Relocated(n)'
        BY <1>0, <1>1, <2>1, <2>2, <3>1 DEF Relocated
      <4> QED BY <1>0, <1>1, <1>3, <4>1 DEF NoteSettled
    <3>2. CASE op.kind = "create file"
      BY <1>0, <1>1, <1>3, <2>6, <2>7, <3>2 DEF NoteSettled, Drawn
    <3> QED BY <1>0, <1>1, <3>1, <3>2
  <2>9. NotesSettled'
    BY <2>3, <2>4, <2>8, SettledStep DEF PlacedNow
  <2>10. \A o \in run.plan : o # op /\ o.kind \in NoteKinds => NoteSame(o.id)
    BY <1>0, <1>1, <1>2, <2>3, OtherNotes DEF PlacedNow
  <2>11. WorkPlaced'
    <3>1. run'.phase = "unlink" => op.kind = "update file" /\ old # new
      BY <1>0, <1>1, <2>1
    <3>2. run'.phase = "unlink" /\ n \notin moved => \A x \in FilesOf(n)' : x.dir \in {old, new}
      <4>1. File(n, old).dir = old /\ File(n, new).dir = new
        BY FileShape
      <4> QED BY <2>6, <3>1, <4>1
    <3>3. op.kind = "update file" /\ run'.phase = "commit" => old = new
      BY <2>1
    <3> QED BY <1>0, <1>1, <1>5, <2>1, <2>2, <2>5, <2>7, <3>1, <3>2, <3>3 DEF WorkPlaced
  <2>12. run'.phase # "ask"
    BY <2>1
  <2> QED BY <1>0, <1>1, <1>2, <1>3, <2>1, <2>4, <2>9, <2>10, <2>11, <2>12, GoPlaced
<1>6. \/ run' = Ended(FALSE) /\ files' = files
      \/ /\ notes[n] = op.saw /\ files' = files \cup {File(n, new)}
         /\ op.kind = "update file" => File(n, old) \in files
         /\ run' = [run EXCEPT !.phase = IF op.kind = "create file" \/ old = new
                                           THEN "commit" ELSE "unlink"]
  BY <1>0 DEF WriteNote, Fail, Go
<1> QED BY <1>4, <1>5, <1>6

LEMMA UnlinkOldPlaced ==
    ASSUME Typed, PlacedNow, UnlinkOld
    PROVE  PlacedNow'
<1>0. PICK n : n = op.id
  OBVIOUS
<1>1. /\ Running /\ run.phase = "unlink" /\ op.kind = "update file"
      /\ UNCHANGED <<remote, notes, dirs, baseN, moved>>
      /\ files' = files \ {File(n, old)} /\ run' = [run EXCEPT !.phase = "commit"]
  BY <1>0 DEF UnlinkOld, At, Go
<1>2. op.kind \in NoteKinds /\ op.kind # "adopt note"
  BY <1>0, <1>1, NoteOpKinds
<1>3. /\ op \in run.plan /\ NoteSettled(n) /\ n \in N /\ notes[n] # None
      /\ op.kind \notin DirKinds /\ op.kind # "create folder"
  BY <1>0, <1>1, <1>2, AtWork
<1>4. run'.plan = run.plan /\ SameWays /\ run'.phase = "commit"
  BY <1>0, <1>1, Goes
<1>5. op' = op /\ old' = old /\ new' = new /\ (Running' <=> Running)
  BY <1>4, SameOp DEF SameWays, old, new, CurrentPath
<1>6. \A m \in N : m # n => NoteSame(m) /\ ~Relocated(m)
  BY <1>0, <1>1, OtherFiles DEF NoteSame, Relocated
<1>7. Rising(dirs, dirs')
  BY <1>0, <1>1, NoRise
<1>8. /\ notes[n] = op.saw /\ File(n, new) \in files /\ old # new
      /\ n \notin moved => \A x \in FilesOf(n) : x.dir \in {old, new}
  BY <1>0, <1>1 DEF PlacedNow, WorkPlaced
<1>9. NoteSettled(n)'
  <2>1. Relocated(n)'
    BY <1>0, <1>1, <1>4, <1>5 DEF Relocated
  <2> QED BY <1>0, <1>1, <1>3, <2>1 DEF NoteSettled
<1>10. NotesSettled'
  BY <1>0, <1>6, <1>7, <1>9, SettledStep DEF PlacedNow
<1>11. \A o \in run.plan : o # op /\ o.kind \in NoteKinds => NoteSame(o.id)
  BY <1>0, <1>1, <1>2, <1>6, OtherNotes DEF PlacedNow
<1>12. File(n, new) \in files'
  <2>1. File(n, old).dir = old /\ File(n, new).dir = new
    BY FileShape
  <2> QED BY <1>0, <1>1, <1>8, <2>1
<1>13. n \notin moved => Settled(n)'
  <2>1. FilesOf(n)' = FilesOf(n) \ {File(n, old)}
    BY <1>0, <1>1 DEF FilesOf
  <2>2. n \notin moved => \A x \in FilesOf(n)' : x = File(n, new)
    BY <1>0, <1>8, <2>1, FileShape
  <2>3. n \notin moved => \A x, y \in FilesOf(n)' : x = y
    BY <2>2
  <2> QED BY <2>3 DEF Settled, FilesOf
<1>14. WorkPlaced'
  BY <1>0, <1>1, <1>4, <1>5, <1>8, <1>12, <1>13 DEF WorkPlaced
<1> QED BY <1>0, <1>1, <1>2, <1>3, <1>4, <1>7, <1>10, <1>11, <1>14, GoPlaced

(* The base gets the notebook of the note: the directory of its file is that  *)
(* notebook's.                                                                *)
LEMMA CommitNotePlaced ==
    ASSUME Typed, PlacedNow, CommitNote
    PROVE  PlacedNow'
<1>0. PICK n : n = op.id
  OBVIOUS
<1>1. /\ Running /\ UNCHANGED <<remote, notes, dirs, files>> /\ run' = Ended(TRUE)
      /\ baseN' = [baseN EXCEPT ![n] = notes[n]]
      /\ moved' = IF Settled(n) THEN moved \ {n} ELSE moved
      /\ \/ op.kind \in {"create file", "update file", "update note"} /\ run.phase = "commit"
         \/ op.kind = "adopt note" /\ run.phase = "ask"
  BY <1>0 DEF CommitNote, At, Done
<1>2. op.kind \in NoteKinds /\ (op.kind \in {"create file", "update file"} => op.kind \in AimKinds)
  BY <1>1, NoteOpKinds
<1>3. /\ op \in run.plan /\ Drawn(op) /\ NoteSettled(n) /\ n \in N /\ notes[n] # None
      /\ op.kind \notin DirKinds /\ op.kind # "create folder"
      /\ op.kind \in AimKinds => new = op.new /\ op.saw # 0 /\ Held(dirs, new, op.saw)
  BY <1>0, <1>1, <1>2, AtWork
<1>4. Rising(dirs, dirs')
  BY <1>1, NoRise
<1>5. \A m \in N : m # n => NoteSame(m) /\ ~Relocated(m)
  <2>1. \A m \in N : m # n => (m \in moved <=> m \in moved')
    BY <1>1
  <2>2. \A m : FilesOf(m)' = FilesOf(m)
    BY <1>1 DEF FilesOf
  <2>3. \A m \in N : m # n => baseN'[m] = baseN[m]
    BY <1>1 DEF PlacedNow, NotesSettled, NoteSettled
  <2>4. \A m : m # n => ~Relocated(m)
    BY <1>0 DEF Relocated
  <2>5. DOMAIN baseN' = DOMAIN baseN /\ notes' = notes
    BY <1>1
  <2> QED BY <2>1, <2>2, <2>3, <2>4, <2>5 DEF NoteSame
<1>6. \E q : File(n, q) \in files /\ Held(dirs, q, notes[n])
  <2>1. CASE op.kind \in {"create file", "update file"}
    <3>1. notes[n] = op.saw /\ File(n, new) \in files
      BY <1>0, <1>1, <2>1 DEF PlacedNow, WorkPlaced
    <3> QED BY <1>2, <1>3, <2>1, <3>1
  <2>2. CASE op.kind = "update note"
    BY <1>0, <1>1, <2>2 DEF PlacedNow, WorkPlaced
  <2>3. CASE op.kind = "adopt note"
    <3>1. /\ op.old \in DOMAIN run.scan /\ notes[n] = run.scan[op.old]
          /\ File(n, run.now[op.old]) \in files /\ op.old \in DOMAIN run.now
      BY <1>0, <1>3, <2>3 DEF Drawn, Typed, TypedRun
    <3>2. Held(dirs, run.now[op.old], notes[n])
      BY <1>3, <3>1 DEF PlacedNow, WaysKept, Followed, Held, NoteSettled, Root
    <3> QED BY <3>1, <3>2
  <2> QED BY <1>1, <2>1, <2>2, <2>3
<1>7. ASSUME n \notin moved' PROVE Settled(n)
  <2>1. CASE n \in moved
    BY <1>1, <1>7, <2>1
  <2>2. CASE n \notin moved
    <3>1. CASE op.kind = "update file"
      BY <1>0, <1>1, <2>2, <3>1 DEF PlacedNow, WorkPlaced
    <3>2. CASE op.kind = "update note"
      BY <1>0, <1>3, <2>2, <3>2 DEF Drawn
    <3>3. CASE op.kind \in {"create file", "adopt note"}
      BY <1>3, <2>2, <3>3, NotRelocated DEF NoteSettled
    <3> QED BY <1>1, <3>1, <3>2, <3>3
  <2> QED BY <2>1, <2>2
<1>8. NoteSettled(n)'
  <2>1. baseN'[n] = notes[n]
    BY <1>1, <1>3 DEF NoteSettled
  <2>2. n \notin moved' => \A x \in FilesOf(n) : Held(dirs, x.dir, notes[n])
    BY <1>6, <1>7, SettledFiles, FileShape
  <2>3. Settled(n)' <=> Settled(n)
    BY <1>1 DEF Settled
  <2>4. FilesOf(n)' = FilesOf(n)
    BY <1>1 DEF FilesOf
  <2> QED BY <1>1, <1>3, <1>7, <2>1, <2>2, <2>3, <2>4 DEF NoteSettled
<1>9. NotesSettled'
  BY <1>4, <1>5, <1>8, SettledStep DEF PlacedNow
<1>10. \A o \in run.plan : o # op /\ o.kind \in NoteKinds => NoteSame(o.id)
  BY <1>0, <1>1, <1>2, <1>5, OtherNotes DEF PlacedNow
<1> QED BY <1>1, <1>3, <1>4, <1>9, <1>10, EndPlaced

LEMMA NormalizePlaced ==
    ASSUME Typed, PlacedNow, Normalize
    PROVE  PlacedNow'
<1>0. PICK n : n = op.id
  OBVIOUS
<1>1. /\ Running /\ run.phase = "ask" /\ op.kind = "normalize" /\ UNCHANGED <<notes, baseN, moved>>
      /\ \/ /\ \E good : run' = Ended(good)
            /\ UNCHANGED <<dirs, files>>
         \/ /\ run' = Ended(TRUE) /\ dirs' = WithDir(dirs, new)
            /\ File(n, old) \in files
            /\ files' = (files \ {File(n, old)}) \cup {File(n, new)}
  BY <1>0 DEF Normalize, At, Done, Fail
<1>2. op.kind \in NoteKinds /\ op.kind \in AimKinds /\ op.kind # "update file"
  BY <1>1, NoteOpKinds
<1>3. /\ op \in run.plan /\ Drawn(op) /\ NoteSettled(n) /\ n \in N /\ notes[n] # None
      /\ op.kind \notin DirKinds /\ op.kind # "create folder"
      /\ new = op.new /\ Held(dirs, new, op.saw)
  BY <1>0, <1>1, <1>2, AtWork
<1>4. CASE (\E good : run' = Ended(good)) /\ UNCHANGED <<dirs, files>>
  BY <1>1, <1>2, <1>3, <1>4, QuietEnd
<1>5. CASE /\ run' = Ended(TRUE) /\ dirs' = WithDir(dirs, new)
           /\ File(n, old) \in files
           /\ files' = (files \ {File(n, old)}) \cup {File(n, new)}
  <2>1. /\ \A q \in DOMAIN dirs : q \in DOMAIN dirs' /\ dirs'[q] = dirs[q]
        /\ Rising(dirs, dirs')
    <3>1. new \in Paths /\ Tree(dirs)
      BY <1>3 DEF Held, Tree, Typed, TypedDirs
    <3> DEFINE e == WithDir(dirs, new)
    <3>2. DOMAIN e = DOMAIN dirs \cup Proper(new) \cup {new} /\ \A q \in DOMAIN dirs : e[q] = dirs[q]
      BY <3>1, WithDirTree
    <3> HIDE DEF e
    <3> QED BY <1>5, <3>2 DEF Rising, e
  <2>2. \A m \in N : m # n => NoteSame(m)
    BY <1>1, <1>5, OtherFiles DEF NoteSame
  <2>3. \A m : ~Relocated(m)
    BY <1>1, NotRelocated
  <2>4. n \notin moved => FilesOf(n)' = {File(n, new)}
    <3>1. File(n, old).n = n /\ File(n, new).n = n /\ File(n, old) \in FilesOf(n)
      BY <1>5, FileShape
    <3>2. FilesOf(n)' = {x \in files' : x.n = n}
      BY DEF FilesOf
    <3>3. n \notin moved => FilesOf(n) = {File(n, old)}
      BY <1>3, <2>3, <3>1, SettledFiles DEF NoteSettled
    <3> QED BY <1>5, <3>1, <3>2, <3>3 DEF FilesOf
  <2>5. NoteSettled(n)'
    <3>1. n \notin moved => Settled(n)'
      <4>1. n \notin moved => \A x, y \in FilesOf(n)' : x = y
        BY <2>4
      <4> QED BY <4>1 DEF Settled, FilesOf
    <3>2. baseN[n] = op.saw
      BY <1>0, <1>1, <1>3 DEF Drawn
    <3>3. n \notin moved => \A x \in FilesOf(n)' : Held(dirs', x.dir, baseN[n])
      <4>1. File(n, new).dir = new
        BY FileShape
      <4> QED BY <1>3, <2>1, <2>4, <3>2, <4>1 DEF Held
    <3> QED BY <1>1, <1>3, <3>1, <3>3 DEF NoteSettled
  <2>6. NotesSettled'
    BY <2>1, <2>2, <2>3, <2>5, SettledStep DEF PlacedNow
  <2>7. \A o \in run.plan : o # op /\ o.kind \in NoteKinds => NoteSame(o.id)
    BY <1>0, <1>1, <1>2, <2>2, OtherNotes DEF PlacedNow
  <2> QED BY <1>1, <1>3, <1>5, <2>1, <2>6, <2>7, EndPlaced
<1> QED BY <1>1, <1>4, <1>5

(* Where push puts a note: into the notebook of the directory that its file   *)
(* is in by now.                                                              *)
LEMMA ResolvedThere ==
    ASSUME Typed, PlacedNow, Running, op.kind \in {"update note", "create note"},
           run.push, op.old \in DOMAIN run.scan
    PROVE  /\ ResolveFolder(old) # Root => Held(dirs, old, ResolveFolder(old))
           /\ ResolveFolder(old) = Root =>
                run.scan[op.old] # Root /\ Held(dirs, old, run.scan[op.old])
<1>1. op \in run.plan /\ op.old \in DOMAIN run.now /\ old = run.now[op.old]
  BY OpIs DEF Typed, TypedRun, old, CurrentPath
<1>2. op.kind \notin DirKinds /\ op.kind # "create folder"
  BY NoteOpKinds DEF NoteKinds
<1>3. ~Pending(run.plan, op.old)
  BY <1>2, FoldersFirst DEF Pending
<1>4. /\ old # op.old => old \notin DOMAIN run.scan
      /\ old \in DOMAIN dirs /\ (run.scan[op.old] # 0 => dirs[old].id = run.scan[op.old])
      /\ run.scan[op.old] = 0 => MadeAt(run.created, old)
      /\ \A i \in DOMAIN run.created : Held(dirs, run.created[i][1], run.created[i][2])
  BY <1>1, <1>3 DEF PlacedNow, WaysKept, Followed, Announced
<1>5. CASE CreatedHere(old) # {}
  <2> DEFINE i == CHOOSE j \in CreatedHere(old) : TRUE
  <2>1. i \in DOMAIN run.created /\ run.created[i][1] = old
    BY <1>5 DEF CreatedHere
  <2>2. ResolveFolder(old) = run.created[i][2]
    BY <1>5 DEF ResolveFolder
  <2> HIDE DEF i
  <2>3. run.created[i][2] # Root
    BY <2>1 DEF Typed, TypedRun
  <2> QED BY <1>4, <2>1, <2>2, <2>3
<1>6. CASE CreatedHere(old) = {}
  <2>1. run.scan[op.old] # 0
    BY <1>4, <1>6 DEF MadeAt, CreatedHere
  <2>2. ResolveFolder(old) = IF old \in DOMAIN run.scan THEN run.scan[old] ELSE Root
    BY <1>6 DEF ResolveFolder
  <2>3. CASE old = op.old
    BY <1>4, <2>1, <2>2, <2>3 DEF Held, Root
  <2>4. CASE old # op.old
    BY <1>4, <2>1, <2>2, <2>4 DEF Held, Root
  <2> QED BY <2>3, <2>4
<1> QED BY <1>5, <1>6

LEMMA UpdateNotePlaced ==
    ASSUME Typed, PlacedNow, UpdateNote
    PROVE  PlacedNow'
<1>0. PICK n, f : n = op.id /\ f = IF ResolveFolder(old) # Root THEN ResolveFolder(old) ELSE op.saw
  OBVIOUS
<1>1. /\ Running /\ run.phase = "ask" /\ op.kind = "update note"
      /\ UNCHANGED <<remote, dirs, files, baseN, moved>>
      /\ \/ run' = Ended(FALSE) /\ UNCHANGED notes
         \/ /\ File(n, old) \in files /\ notes' = [notes EXCEPT ![n] = f]
            /\ run' = [run EXCEPT !.phase = "commit"]
  BY <1>0 DEF UpdateNote, At, Fail, Go
<1>2. op.kind \in NoteKinds /\ op.kind # "update file"
  BY <1>1, NoteOpKinds
<1>3. /\ op \in run.plan /\ Drawn(op) /\ NoteSettled(n) /\ n \in N /\ notes[n] # None
      /\ op.kind \notin DirKinds /\ op.kind # "create folder"
  BY <1>0, <1>1, <1>2, AtWork
<1>4. CASE run' = Ended(FALSE) /\ UNCHANGED notes
  BY <1>1, <1>2, <1>3, <1>4, QuietEnd
<1>5. CASE /\ File(n, old) \in files /\ notes' = [notes EXCEPT ![n] = f]
           /\ run' = [run EXCEPT !.phase = "commit"]
  <2>1. run'.plan = run.plan /\ SameWays /\ run'.phase = "commit"
    BY <1>5, Goes
  <2>2. op' = op /\ old' = old /\ (Running' <=> Running)
    BY <2>1, SameOp DEF SameWays
  <2>3. n \in moved /\ run.push /\ op.old \in DOMAIN run.scan /\ op.saw = run.scan[op.old]
    BY <1>0, <1>1, <1>3 DEF Drawn
  <2>4. f # Root /\ Held(dirs, old, f)
    BY <1>0, <1>1, <2>3, ResolvedThere
  <2>5. f \in Known /\ f # None
    <3>1. op.saw \in Known
      BY <1>1, OldAndNew DEF TypedOp
    <3>2. None \notin Known
      BY Bounds DEF Known, Active, F, Root
    <3> QED BY <1>0, <3>1, <3>2, Resolved
  <2>6. notes'[n] = f /\ \A m : m \in N /\ m # n => notes'[m] = notes[m]
    BY <1>3, <1>5 DEF Typed, TypedNotes
  <2>7. \A m \in N : m # n => NoteSame(m)
    BY <1>1, <2>6 DEF NoteSame, FilesOf
  <2>8. \A m : ~Relocated(m)
    BY <1>1, NotRelocated
  <2>9. NoteSettled(n)'
    BY <1>1, <1>3, <2>3, <2>4, <2>5, <2>6 DEF NoteSettled
  <2>10. Rising(dirs, dirs')
    BY <1>1, NoRise
  <2>11. NotesSettled'
    BY <2>7, <2>8, <2>9, <2>10, SettledStep DEF PlacedNow
  <2>12. \A o \in run.plan : o # op /\ o.kind \in NoteKinds => NoteSame(o.id)
    BY <1>0, <1>1, <1>2, <2>7, OtherNotes DEF PlacedNow
  <2>13. WorkPlaced'
    BY <1>0, <1>1, <1>5, <2>1, <2>2, <2>4, <2>6 DEF WorkPlaced
  <2>14. op.kind # "adopt note" /\ run'.phase # "ask"
    BY <1>1, <2>1
  <2> QED BY <1>0, <1>1, <1>3, <2>1, <2>5, <2>6, <2>10, <2>11, <2>12, <2>13, <2>14, GoPlaced
<1> QED BY <1>1, <1>4, <1>5

LEMMA CreateNotePlaced ==
    ASSUME Typed, PlacedNow, CreateNote
    PROVE  PlacedNow'
<1>0. PICK n, f : n = (CHOOSE m \in NewNotes : \A k \in NewNotes : m <= k) /\ f = ResolveFolder(old)
  OBVIOUS
<1>1. /\ Running /\ run.phase = "ask" /\ op.kind = "create note"
      /\ UNCHANGED <<remote, dirs, files, baseN, moved>>
      /\ \/ run' = Ended(FALSE) /\ UNCHANGED notes
         \/ /\ f # Root /\ NewNotes # {} /\ notes' = [notes EXCEPT ![n] = f]
            /\ run' = Ended(FALSE) \/ run' = [run EXCEPT !.phase = "file", !.id = n]
  BY <1>0 DEF CreateNote, At, Fail
<1>2. op.kind \notin NoteKinds /\ op.kind # "update file" /\ op.kind # "adopt note"
      /\ op.kind \notin DirKinds /\ op.kind # "create folder" /\ op \in run.plan
  BY <1>1, NoteOpKinds, OpIs
<1>3. CASE run' = Ended(FALSE) /\ UNCHANGED notes
  BY <1>1, <1>2, <1>3, QuietEnd
<1>4. CASE /\ f # Root /\ NewNotes # {} /\ notes' = [notes EXCEPT ![n] = f]
           /\ run' = Ended(FALSE) \/ run' = [run EXCEPT !.phase = "file", !.id = n]
  <2>1. n \in N /\ notes[n] = None
    <3>1. NewNotes \subseteq Nat
      BY Bounds DEF NewNotes, N
    <3>2. \E m \in NewNotes : \A k \in NewNotes : m <= k
      BY <1>4, <3>1, Least
    <3>3. n \in NewNotes
      BY <1>0, <3>2
    <3> QED BY <3>3 DEF NewNotes
  <2>2. NoteSettled(n) /\ n \in DOMAIN baseN /\ baseN[n] = None /\ FilesOf(n) = {}
    BY <2>1 DEF PlacedNow, NotesSettled, NoteSettled
  <2>3. f \in Known /\ f # None
    <3>1. None \notin Known
      BY Bounds DEF Known, Active, F, Root
    <3> QED BY <1>0, <3>1, Resolved
  <2>4. notes'[n] = f /\ \A m : m \in N /\ m # n => notes'[m] = notes[m]
    BY <1>4, <2>1 DEF Typed, TypedNotes
  <2>5. \A m \in N : m # n => NoteSame(m)
    BY <1>1, <2>4 DEF NoteSame, FilesOf
  <2>6. \A m : ~Relocated(m)
    BY <1>1, <1>2, NotRelocated
  <2>7. FilesOf(n)' = {} /\ Settled(n)'
    BY <1>1, <2>2 DEF FilesOf, Settled
  <2>8. NoteSettled(n)'
    BY <1>1, <1>4, <2>2, <2>3, <2>4, <2>7 DEF NoteSettled
  <2>9. Rising(dirs, dirs')
    BY <1>1, NoRise
  <2>10. NotesSettled'
    BY <2>5, <2>6, <2>8, <2>9, SettledStep DEF PlacedNow
  <2>11. \A o \in run.plan : o.kind \in NoteKinds => o.id # n /\ o.id \in N /\ NoteSame(o.id)
    BY <2>1, <2>5 DEF PlacedNow, PlanDrawn, Drawn
  <2>12. CASE run' = Ended(FALSE)
    BY <1>1, <1>2, <2>9, <2>10, <2>11, <2>12, EndPlaced
  <2>13. CASE run' = [run EXCEPT !.phase = "file", !.id = n]
    <3>1. run'.plan = run.plan /\ SameWays /\ run'.phase = "file" /\ run'.id = n
      BY <2>13, Goes
    <3>2. op' = op /\ old' = old /\ (Running' <=> Running)
      BY <3>1, SameOp DEF SameWays
    <3>3. Held(dirs, old, f)
      <4>1. run.push /\ op.old \in DOMAIN run.scan
        BY <1>1, <1>2 DEF PlacedNow, PlanDrawn, Drawn
      <4> QED BY <1>0, <1>1, <1>4, <4>1, ResolvedThere
    <3>4. WorkPlaced'
      BY <1>1, <2>2, <2>3, <2>4, <2>7, <2>11, <3>1, <3>2, <3>3 DEF WorkPlaced
    <3>5. run'.phase # "ask"
      BY <3>1
    <3> QED BY <1>1, <1>2, <2>9, <2>10, <2>11, <3>1, <3>4, <3>5, GoPlaced
  <2> QED BY <1>4, <2>12, <2>13
<1> QED BY <1>1, <1>3, <1>4

LEMMA NewNoteFilePlaced ==
    ASSUME Typed, PlacedNow, WriteId \/ UnlinkDraft
    PROVE  PlacedNow'
<1>0. PICK n, p : n = run.id /\ p = old
  OBVIOUS
<1>1. /\ Running /\ run.phase \in {"file", "unlink"} /\ op.kind = "create note"
      /\ UNCHANGED <<remote, notes, dirs, baseN, moved>>
      /\ \/ /\ files' = files \cup {File(n, p)} /\ run' = [run EXCEPT !.phase = "unlink"]
         \/ files' = files \ {File(Draft, p)} /\ run' = [run EXCEPT !.phase = "commit"]
  BY <1>0 DEF WriteId, UnlinkDraft, At, Go
<1>2. op.kind \notin NoteKinds /\ op.kind # "update file" /\ op.kind # "adopt note"
      /\ op.kind \notin DirKinds /\ op.kind # "create folder" /\ op \in run.plan
  BY <1>1, NoteOpKinds, OpIs
<1>3. /\ run'.plan = run.plan /\ SameWays /\ run'.id = n /\ run'.phase # "ask"
  <2>1. CASE run' = [run EXCEPT !.phase = "unlink"]
    BY <1>0, <2>1, Goes
  <2>2. CASE run' = [run EXCEPT !.phase = "commit"]
    BY <1>0, <2>2, Goes
  <2> QED BY <1>1, <2>1, <2>2
<1>4. op' = op /\ old' = old /\ (Running' <=> Running)
  BY <1>3, SameOp DEF SameWays
<1>5. n \in N
  BY <1>0, <1>1 DEF Typed, TypedPhase
<1>6. /\ baseN[n] = None /\ notes[n] # None /\ Held(dirs, p, notes[n])
      /\ FilesOf(n) \subseteq {File(n, p)}
      /\ \A o \in run.plan : o.kind \in NoteKinds => o.id # n
  BY <1>0, <1>1 DEF PlacedNow, WorkPlaced
<1>7. /\ \A m \in N : m # n => FilesOf(m)' = FilesOf(m)
      /\ FilesOf(n)' \subseteq {File(n, p)}
  <2>1. Draft \notin N
    BY Bounds DEF Draft, N
  <2>2. CASE files' = files \cup {File(n, p)}
    <3>1. \A m \in N : m # n => FilesOf(m)' = FilesOf(m)
      BY <2>2, OtherFiles
    <3> QED BY <1>6, <2>2, <3>1 DEF FilesOf
  <2>3. CASE files' = files \ {File(Draft, p)}
    <3>1. \A m \in N : FilesOf(m)' = FilesOf(m)
      BY <2>1, <2>3, OtherFiles
    <3> QED BY <1>5, <1>6, <3>1
  <2> QED BY <1>1, <2>2, <2>3
<1>8. \A m \in N : m # n => NoteSame(m)
  BY <1>1, <1>7 DEF NoteSame
<1>9. \A m : ~Relocated(m)
  BY <1>1, <1>2, NotRelocated
<1>10. NoteSettled(n)'
  <2>1. Settled(n)'
    <3>1. \A x, y \in FilesOf(n)' : x = y
      BY <1>7
    <3> QED BY <3>1 DEF Settled, FilesOf
  <2>2. NoteSettled(n)
    BY <1>5 DEF PlacedNow, NotesSettled
  <2> QED BY <1>1, <1>6, <2>1, <2>2 DEF NoteSettled
<1>11. Rising(dirs, dirs')
  BY <1>1, NoRise
<1>12. NotesSettled'
  BY <1>8, <1>9, <1>10, <1>11, SettledStep DEF PlacedNow
<1>13. \A o \in run.plan : o.kind \in NoteKinds => NoteSame(o.id)
  BY <1>6, <1>8 DEF PlacedNow, PlanDrawn, Drawn
<1>14. WorkPlaced'
  BY <1>0, <1>1, <1>3, <1>4, <1>6, <1>7 DEF WorkPlaced
<1> QED BY <1>1, <1>2, <1>3, <1>11, <1>12, <1>13, <1>14, GoPlaced

LEMMA CommitNewNotePlaced ==
    ASSUME Typed, PlacedNow, CommitNewNote
    PROVE  PlacedNow'
<1>0. PICK n : n = run.id
  OBVIOUS
<1>1. /\ Running /\ run.phase = "commit" /\ op.kind = "create note"
      /\ UNCHANGED <<remote, notes, dirs, files, moved>>
      /\ baseN' = [baseN EXCEPT ![n] = notes[n]] /\ run' = Ended(TRUE)
  BY <1>0 DEF CommitNewNote, At, Done
<1>2. op.kind \notin NoteKinds /\ op.kind # "update file"
      /\ op.kind \notin DirKinds /\ op.kind # "create folder" /\ op \in run.plan
  BY <1>1, NoteOpKinds, OpIs
<1>3. n \in N
  BY <1>0, <1>1 DEF Typed, TypedPhase
<1>4. /\ notes[n] # None /\ Held(dirs, old, notes[n])
      /\ FilesOf(n) \subseteq {File(n, old)}
      /\ \A o \in run.plan : o.kind \in NoteKinds => o.id # n
  BY <1>0, <1>1 DEF PlacedNow, WorkPlaced
<1>5. \A m \in N : NoteSettled(m)
  BY DEF PlacedNow, NotesSettled
<1>6. \A m \in N : m # n => NoteSame(m)
  <2>1. \A m : FilesOf(m)' = FilesOf(m)
    BY <1>1 DEF FilesOf
  <2>2. \A m \in N : m # n => baseN'[m] = baseN[m]
    BY <1>1, <1>5 DEF NoteSettled
  <2>3. DOMAIN baseN' = DOMAIN baseN
    BY <1>1
  <2> QED BY <1>1, <2>1, <2>2, <2>3 DEF NoteSame
<1>7. \A m : ~Relocated(m)
  BY <1>2, NotRelocated
<1>8. NoteSettled(n)'
  <2>1. baseN'[n] = notes[n] /\ n \in DOMAIN baseN'
    BY <1>1, <1>3, <1>5 DEF NoteSettled
  <2>2. FilesOf(n)' = FilesOf(n) /\ \A x, y \in FilesOf(n) : x = y
    BY <1>1, <1>4 DEF FilesOf
  <2>3. Settled(n)'
    BY <1>1, <2>2, SettledFiles DEF Settled
  <2>4. \A x \in FilesOf(n) : Held(dirs, x.dir, notes[n])
    BY <1>4, FileShape
  <2> QED BY <1>1, <1>3, <1>4, <1>5, <2>1, <2>2, <2>3, <2>4 DEF NoteSettled
<1>9. Rising(dirs, dirs')
  BY <1>1, NoRise
<1>10. NotesSettled'
  BY <1>6, <1>7, <1>8, <1>9, SettledStep DEF PlacedNow
<1>11. \A o \in run.plan : o.kind \in NoteKinds => NoteSame(o.id)
  BY <1>4, <1>6 DEF PlacedNow, PlanDrawn, Drawn
<1> QED BY <1>1, <1>2, <1>9, <1>10, <1>11, EndPlaced

LEMMA RefusedPlaced ==
    ASSUME Typed, PlacedNow, Refused, ~spoilt'
    PROVE  PlacedNow'
<1>1. /\ Running /\ run.phase = "ask" /\ run' = Ended(FALSE)
      /\ op.kind \notin {"create dir", "update dir", "create folder"}
      /\ UNCHANGED <<remote, notes, dirs, files, baseN, moved>>
  BY DEF Refused, Fail
<1>2. op.kind \notin DirKinds /\ op.kind # "create folder"
  BY <1>1 DEF DirKinds
<1> QED BY <1>1, <1>2, QuietEnd

----------------------------------------------------------------------------
(* Steps: a run dies, users.                                                  *)
LEMMA IdlePlaced ==
    ASSUME run' = NoRun \/ \E x : run' = [NoRun EXCEPT !.result = x], NotesSettled'
    PROVE  PlacedNow'
<1>1. /\ run'.plan = {} /\ run'.now = <<>> /\ run'.scan = <<>> /\ run'.created = <<>>
      /\ run'.phase = "ask"
  BY DEF NoRun
<1>2. \A i : i \notin DOMAIN <<>>
  OBVIOUS
<1>3. WaysKept'
  <2>1. Followed(dirs', {}, <<>>, <<>>) /\ Announced(dirs', {}, <<>>, <<>>, <<>>, run'.push)
    BY <1>2 DEF Followed, Announced, DirOps
  <2>2. Lodging(dirs, run.plan)' /\ Aimed(dirs, run.plan, run.now)'
    BY <1>1 DEF Lodging, Aimed, DirOps
  <2> QED BY <1>1, <2>1, <2>2 DEF WaysKept
<1>4. PlanDrawn' /\ WorkPlaced'
  BY <1>1 DEF PlanDrawn, WorkPlaced
<1> QED BY <1>3, <1>4 DEF PlacedNow

LEMMA CrashPlaced ==
    ASSUME Typed, PlacedNow, Crash
    PROVE  PlacedNow'
<1>0. PICK n : n = op.id
  OBVIOUS
<1>1. /\ \E x : run' = [NoRun EXCEPT !.result = x]
      /\ moved' = IF op.kind = "update file" THEN moved \cup {n} ELSE moved
      /\ UNCHANGED <<notes, dirs, files, baseN>>
  BY <1>0 DEF Crash
<1>2. \A m : m \notin moved' => m \notin moved /\ ~Relocated(m)
  BY <1>0, <1>1 DEF Relocated
<1>3. NotesSettled'
  <2> SUFFICES ASSUME NEW m \in N PROVE NoteSettled(m)'
    BY DEF NotesSettled
  <2>1. NoteSettled(m)
    BY DEF PlacedNow, NotesSettled
  <2>2. (Settled(m)' <=> Settled(m)) /\ FilesOf(m)' = FilesOf(m)
    BY <1>1 DEF Settled, FilesOf
  <2> QED BY <1>1, <1>2, <2>1, <2>2 DEF NoteSettled
<1> QED BY <1>1, <1>3, IdlePlaced

LEMMA UsersPlaced ==
    ASSUME Typed, PlacedNow, ~Running,
           Told \/ Filed \/ Made \/ Titled \/ Shifting \/ Carried \/ Drafted
    PROVE  PlacedNow'
<1>1. run' = NoRun /\ UNCHANGED baseN
  BY DEF Told, JoplinNotebook, Filed, JoplinNote, Made, NewDir, Titled, Retitle,
     Shifting, MoveDir, Carried, MoveFile, Drafted, NewDraft, Edit
<1>2. \A m : ~Relocated(m)
  BY NotRelocated
<1>3. Tree(dirs) /\ TypedDirs /\ NotesSettled /\ \A m \in N : NoteSettled(m)
  BY DEF Typed, TypedDirs, PlacedNow, NotesSettled
<1>4. ASSUME Rising(dirs, dirs'), \A m \in N : NoteSame(m) PROVE PlacedNow'
  BY <1>1, <1>2, <1>3, <1>4, SettledStep, IdlePlaced
<1>5. CASE Made
  <2>1. PICK p \in Places : dirs' = WithDir(dirs, p) /\ UNCHANGED <<notes, files, moved>>
    BY <1>5 DEF Made, NewDir
  <2> DEFINE e == WithDir(dirs, p)
  <2>2. DOMAIN e = DOMAIN dirs \cup Proper(p) \cup {p} /\ \A q \in DOMAIN dirs : e[q] = dirs[q]
    BY <1>3, PlacesShape, WithDirTree
  <2> HIDE DEF e
  <2>3. Rising(dirs, dirs')
    BY <2>1, <2>2 DEF Rising, e
  <2> QED BY <1>1, <1>4, <2>1, <2>3, AllSame
<1>6. CASE Titled
  <2>1. PICK p \in DOMAIN dirs, t \in 1..NT :
          dirs' = [dirs EXCEPT ![p].title = t] /\ UNCHANGED <<notes, files, moved>>
    BY <1>6 DEF Titled, Retitle
  <2>2. \A q \in DOMAIN dirs : dirs[q] \in DirInfo
          /\ dirs'[q] = IF q = p THEN [dirs[q] EXCEPT !.title = t] ELSE dirs[q]
    BY <1>3, <2>1 DEF Tree
  <2>3. DOMAIN dirs' = DOMAIN dirs /\ \A q \in DOMAIN dirs : dirs'[q].id = dirs[q].id
    BY <2>1, <2>2 DEF DirInfo
  <2>4. Rising(dirs, dirs')
    BY <2>3 DEF Rising
  <2> QED BY <1>1, <1>4, <2>1, <2>4, AllSame
<1>7. CASE Told
  <2>1. UNCHANGED <<notes, dirs, files, moved>>
    BY <1>7 DEF Told, JoplinNotebook
  <2> QED BY <1>1, <1>4, <2>1, NoRise, AllSame
<1>8. CASE Drafted
  <2>1. PICK p : files' = files \cup {File(Draft, p)} /\ UNCHANGED <<notes, dirs, moved>>
    BY <1>8 DEF Drafted, NewDraft
  <2>2. Draft \notin N
    BY Bounds DEF Draft, N
  <2>3. \A m \in N : NoteSame(m)
    BY <1>1, <2>1, <2>2, OtherFiles DEF NoteSame
  <2> QED BY <1>4, <2>1, <2>3, NoRise
<1>9. CASE Filed
  <2>1. PICK n \in N, f \in Active : notes' = [notes EXCEPT ![n] = f] /\ UNCHANGED <<dirs, files, moved>>
    BY <1>9 DEF Filed, JoplinNote
  <2>2. f # None /\ f # Root
    BY Bounds DEF Active, F, Root
  <2>3. notes'[n] = f /\ \A m : m \in N /\ m # n => notes'[m] = notes[m]
    BY <2>1 DEF Typed, TypedNotes
  <2>4. \A m : FilesOf(m)' = FilesOf(m) /\ (Settled(m)' <=> Settled(m))
    BY <2>1 DEF FilesOf, Settled
  <2>5. NoteSettled(n)'
    BY <1>1, <1>2, <1>3, <2>1, <2>2, <2>3, <2>4 DEF NoteSettled
  <2>6. \A m \in N : m # n => NoteSame(m)
    BY <1>1, <2>1, <2>3, <2>4 DEF NoteSame
  <2>7. NotesSettled'
    BY <1>2, <1>3, <2>1, <2>5, <2>6, NoRise, SettledStep
  <2> QED BY <1>1, <2>7, IdlePlaced
<1>10. CASE Carried
  <2>1. PICK x \in files, p \in DOMAIN dirs :
          /\ x.n # Draft /\ files' = (files \ {x}) \cup {File(x.n, p)} /\ moved' = moved \cup {x.n}
          /\ UNCHANGED <<notes, dirs>>
    BY <1>10 DEF Carried, MoveFile
  <2>2. PICK n : n = x.n
    OBVIOUS
  <2>3. n \in N /\ x = File(n, x.dir) /\ x \in FilesOf(n)
    BY <2>1, <2>2 DEF Typed, TypedFiles, File, FilesOf
  <2>4. \A m \in N : m # n => NoteSame(m)
    <3>1. files' = (files \ {File(n, x.dir)}) \cup {File(n, p)}
      BY <2>1, <2>2, <2>3
    <3>2. \A m : m # n => FilesOf(m)' = FilesOf(m)
      BY <3>1, OtherFiles
    <3> QED BY <1>1, <2>1, <2>2, <3>2 DEF NoteSame
  <2>5. NoteSettled(n)'
    BY <1>1, <1>3, <2>1, <2>2, <2>3 DEF NoteSettled
  <2>6. NotesSettled'
    BY <1>2, <1>3, <2>1, <2>4, <2>5, NoRise, SettledStep
  <2> QED BY <1>1, <2>6, IdlePlaced
<1>11. CASE Shifting
  <2>1. PICK p \in DOMAIN dirs, q \in Places : MoveDir(p, q)
    BY <1>11 DEF Shifting
  <2>2. Movable(dirs, p, q)
    BY <1>3, <2>1, PlacesShape DEF MoveDir, Movable
  <2>3. Carries(dirs', dirs, p, q)
    BY <2>1, <2>2, MoveTreeTree, Zenon DEF MoveDir
  <2>4. files' = {[x EXCEPT !.dir = Moved(@, p, q)] : x \in files} /\ UNCHANGED <<notes, moved>>
    BY <2>1 DEF MoveDir
  <2>5. NotesSettled'
    <3>1. files' = Taken(files, p, q) /\ UNCHANGED <<notes, baseN, moved>>
      BY <1>1, <2>4 DEF Taken
    <3>2. \A r \in DOMAIN dirs : r \in DOMAIN dirs /\ dirs[r] = dirs[r]
      OBVIOUS
    <3> QED BY <1>2, <1>3, <2>2, <2>3, <3>1, <3>2, MovedNotes, Zenon
  <2> QED BY <1>1, <2>5, IdlePlaced
<1> QED BY <1>5, <1>6, <1>7, <1>8, <1>9, <1>10, <1>11

----------------------------------------------------------------------------
(* The start of a run: what the plan consists of.                             *)
LEMMA PlanSources ==
    ASSUME NEW pull \in BOOLEAN, NEW push \in BOOLEAN, NEW o \in Plan(pull, push)
    PROVE  \/ pull /\ o \in PullDirs
           \/ push /\ o \in PushFolders
           \/ o \in Adoptions
           \/ \E n \in N : o \in NoteOps(n, pull, push)
           \/ push /\ \E p \in Drafts : o = Op("create note", Draft, p, p, dirs[p].id)
<1> DEFINE A == UNION {NoteOps(n, pull, push) : n \in N}
           D == {Op("create note", Draft, p, p, dirs[p].id) : p \in Drafts}
<1>1. Plan(pull, push) =
        (IF pull THEN PullDirs ELSE {}) \cup (IF push THEN PushFolders ELSE {}) \cup Adoptions
        \cup A \cup (IF push THEN D ELSE {})
  BY DEF Plan
<1>2. o \in A => \E n \in N : o \in NoteOps(n, pull, push)
  OBVIOUS
<1>3. o \in D => \E p \in Drafts : o = Op("create note", Draft, p, p, dirs[p].id)
  OBVIOUS
<1> HIDE DEF A, D
<1> QED BY <1>1, <1>2, <1>3

NoteOpCase(n, pull, push, o) ==
    /\ o.id = n /\ o.old = PlaceOf(n) /\ notes[n] # None
    /\ \A u \in NoteOps(n, pull, push) : u = o
    /\ \/ /\ pull /\ o.kind = "normalize" /\ o.new = Target(n) /\ o.saw = notes[n]
          /\ notes[n] = baseN[n]
       \/ /\ pull /\ o.kind = "update file" /\ o.saw = notes[n]
          /\ o.new = IF Target(n) = <<>> THEN PlaceOf(n) ELSE Target(n)
       \/ /\ pull /\ o.kind = "create file" /\ o.new = Target(n) /\ o.saw = notes[n]
          /\ baseN[n] = None /\ LocalParent(n) = None
       \/ /\ push /\ o.kind = "update note" /\ o.new = <<>> /\ o.saw = LocalParent(n)
          /\ baseN[n] # None /\ LocalParent(n) # None /\ LocalParent(n) # baseN[n]
       \/ o.kind = "adopt note" /\ o.new = Target(n) /\ LocalParent(n) = notes[n]

LEMMA NoteOpCases ==
    ASSUME NEW n \in N, NEW pull \in BOOLEAN, NEW push \in BOOLEAN, NEW o \in NoteOps(n, pull, push)
    PROVE  NoteOpCase(n, pull, push, o)
<1> DEFINE op0(kind) == Op(kind, n, PlaceOf(n), Target(n), notes[n])
           moving == Op("update file", n, PlaceOf(n),
                        IF Target(n) = <<>> THEN PlaceOf(n) ELSE Target(n), notes[n])
           pushing == Op("update note", n, PlaceOf(n), <<>>, LocalParent(n))
           status == NoteStatus(n)
           is(u) == NoteOps(n, pull, push) = {u}
<1>1. \/ status = "unchanged" /\ pull /\ is(op0("normalize"))
      \/ status = "remote moved" /\ pull /\ is(moving)
      \/ status = "remote new" /\ pull /\ is(op0("create file"))
      \/ status = "local moved" /\ push /\ is(pushing)
      \/ status = "identical" /\ is(op0("adopt note"))
  BY DEF NoteOps
<1>2. /\ status = "unchanged" => notes[n] = baseN[n] /\ notes[n] # None
      /\ status = "remote moved" => notes[n] # None
      /\ status = "remote new" => notes[n] # None /\ baseN[n] = None /\ LocalParent(n) = None
      /\ status = "local moved" =>
           notes[n] # None /\ baseN[n] # None /\ LocalParent(n) # None /\ LocalParent(n) # baseN[n]
      /\ status = "identical" => notes[n] # None /\ LocalParent(n) = notes[n]
  BY DEF NoteStatus
<1>3. \A k : /\ op0(k).kind = k /\ op0(k).id = n /\ op0(k).old = PlaceOf(n)
             /\ op0(k).new = Target(n) /\ op0(k).saw = notes[n]
  BY DEF Op
<1>4. /\ moving.kind = "update file" /\ moving.id = n /\ moving.old = PlaceOf(n) /\ moving.saw = notes[n]
      /\ moving.new = IF Target(n) = <<>> THEN PlaceOf(n) ELSE Target(n)
  BY DEF Op
<1>5. /\ pushing.kind = "update note" /\ pushing.id = n /\ pushing.old = PlaceOf(n)
      /\ pushing.new = <<>> /\ pushing.saw = LocalParent(n)
  BY DEF Op
<1> HIDE DEF op0, moving, pushing, status
<1>6. CASE status = "unchanged" /\ pull /\ is(op0("normalize"))
  BY <1>2, <1>3, <1>6 DEF NoteOpCase
<1>7. CASE status = "remote moved" /\ pull /\ is(moving)
  BY <1>2, <1>4, <1>7 DEF NoteOpCase
<1>8. CASE status = "remote new" /\ pull /\ is(op0("create file"))
  BY <1>2, <1>3, <1>8 DEF NoteOpCase
<1>9. CASE status = "local moved" /\ push /\ is(pushing)
  BY <1>2, <1>5, <1>9 DEF NoteOpCase
<1>10. CASE status = "identical" /\ is(op0("adopt note"))
  BY <1>2, <1>3, <1>10 DEF NoteOpCase
<1> QED BY <1>1, <1>6, <1>7, <1>8, <1>9, <1>10 DEF NoteOpCase

LEMMA NoteOpIs ==
    ASSUME NEW n \in N, NEW pull \in BOOLEAN, NEW push \in BOOLEAN, NEW o \in NoteOps(n, pull, push)
    PROVE  /\ o.id = n /\ o.kind \in NoteKinds /\ o.old = PlaceOf(n) /\ notes[n] # None
           /\ o.new \in {<<>>, Target(n), PlaceOf(n)}
           /\ \A u \in NoteOps(n, pull, push) : u = o
<1>1. NoteOpCase(n, pull, push, o)
  BY NoteOpCases
<1> QED BY <1>1 DEF NoteOpCase, NoteKinds

LEMMA NoteOpAims ==
    ASSUME NEW n \in N, NEW pull \in BOOLEAN, NEW push \in BOOLEAN, NEW o \in NoteOps(n, pull, push)
    PROVE  /\ o.kind \in AimKinds =>
                pull /\ o.saw = notes[n] /\ (Target(n) # <<>> => o.new = Target(n))
           /\ o.kind = "normalize" => notes[n] = baseN[n]
           /\ o.kind = "create file" => baseN[n] = None /\ LocalParent(n) = None
           /\ o.kind = "adopt note" => LocalParent(n) = notes[n]
<1>1. NoteOpCase(n, pull, push, o)
  BY NoteOpCases
<1> QED BY <1>1 DEF NoteOpCase, AimKinds

LEMMA NoteOpPushes ==
    ASSUME NEW n \in N, NEW pull \in BOOLEAN, NEW push \in BOOLEAN, NEW o \in NoteOps(n, pull, push),
           o.kind = "update note"
    PROVE  /\ push /\ baseN[n] # None /\ LocalParent(n) # None /\ LocalParent(n) # baseN[n]
           /\ o.saw = LocalParent(n)
<1>1. NoteOpCase(n, pull, push, o)
  BY NoteOpCases
<1> QED BY <1>1 DEF NoteOpCase

(* What the plan does with notebooks.                                         *)
FolderOp(o, k, f, s) == f \in Active /\ FolderStatus(f) = s /\ o.kind = k /\ o.id = f

LEMMA PullDirsAre ==
    ASSUME NEW o \in PullDirs
    PROVE  \E f \in F :
             \/ FolderOp(o, "create dir", f, "remote new") /\ o.old = <<>> /\ o.new = RemotePath[f]
             \/ /\ FolderOp(o, "update dir", f, "remote modified")
                /\ o.old = PathOfLocal(f) /\ o.new = RemotePath[f]
<1>1. CASE \E f \in FoldersWith("remote new") :
             o = Op("create dir", f, <<>>, RemotePath[f], remote[f])
  <2>1. PICK f \in FoldersWith("remote new") :
          o = Op("create dir", f, <<>>, RemotePath[f], remote[f])
    BY <1>1
  <2>2. o.kind = "create dir" /\ o.id = f /\ o.old = <<>> /\ o.new = RemotePath[f]
    BY <2>1 DEF Op
  <2> QED BY <2>2 DEF FolderOp, FoldersWith, Active
<1>2. CASE \E f \in FoldersWith("remote modified") :
             o = Op("update dir", f, PathOfLocal(f), RemotePath[f], remote[f])
  <2>1. PICK f \in FoldersWith("remote modified") :
          o = Op("update dir", f, PathOfLocal(f), RemotePath[f], remote[f])
    BY <1>2
  <2>2. o.kind = "update dir" /\ o.id = f /\ o.old = PathOfLocal(f) /\ o.new = RemotePath[f]
    BY <2>1 DEF Op
  <2> QED BY <2>2 DEF FolderOp, FoldersWith, Active
<1> QED BY <1>1, <1>2 DEF PullDirs

LEMMA PushFoldersAre ==
    ASSUME NEW o \in PushFolders
    PROVE  \/ o.kind = "create folder" /\ o.old \in Candidates /\ o.new = o.old
           \/ \E f \in F : /\ FolderOp(o, "update folder", f, "local modified")
                           /\ o.old = PathOfLocal(f) /\ o.new = o.old
<1>1. CASE \E p \in Candidates :
             o = Op("create folder", 0, p, p, [title |-> p[Len(p)][1], parent |-> None])
  <2>1. PICK p \in Candidates :
          o = Op("create folder", 0, p, p, [title |-> p[Len(p)][1], parent |-> None])
    BY <1>1
  <2>2. o.kind = "create folder" /\ o.old = p /\ o.new = p
    BY <2>1 DEF Op
  <2> QED BY <2>2
<1>2. CASE \E f \in FoldersWith("local modified") :
             o = Op("update folder", f, PathOfLocal(f), PathOfLocal(f), LocalF(f))
  <2>1. PICK f \in FoldersWith("local modified") :
          o = Op("update folder", f, PathOfLocal(f), PathOfLocal(f), LocalF(f))
    BY <1>2
  <2>2. o.kind = "update folder" /\ o.id = f /\ o.old = PathOfLocal(f) /\ o.new = PathOfLocal(f)
    BY <2>1 DEF Op
  <2> QED BY <2>2 DEF FolderOp, FoldersWith, Active
<1> QED BY <1>1, <1>2 DEF PushFolders

LEMMA AdoptionsAre ==
    ASSUME NEW o \in Adoptions
    PROVE  \E f \in F : FolderOp(o, "adopt", f, "identical") /\ o.old = PathOfLocal(f) /\ o.new = o.old
<1>1. PICK f \in FoldersWith("identical") :
        o = Op("adopt", f, PathOfLocal(f), PathOfLocal(f), LocalF(f))
  BY DEF Adoptions
<1>2. o.kind = "adopt" /\ o.id = f /\ o.old = PathOfLocal(f) /\ o.new = PathOfLocal(f)
  BY <1>1 DEF Op
<1> QED BY <1>2 DEF FolderOp, FoldersWith, Active

LEMMA KindsOfPlan ==
    ASSUME NEW pull \in BOOLEAN, NEW push \in BOOLEAN, NEW o \in Plan(pull, push)
    PROVE  /\ o.kind \in NoteKinds => o.id \in N /\ o \in NoteOps(o.id, pull, push)
           /\ o.kind = "create note" => push /\ \E p \in Drafts : o.old = p
           /\ o.kind \in DirKinds => pull /\ o.id \in Active /\ o.new = RemotePath[o.id]
<1>1. ASSUME o \in PullDirs
      PROVE  /\ o.kind \notin NoteKinds /\ o.kind # "create note"
             /\ o.id \in Active /\ o.new = RemotePath[o.id]
  BY <1>1, PullDirsAre DEF FolderOp, NoteKinds
<1>2. ASSUME o \in PushFolders
      PROVE  o.kind \notin NoteKinds /\ o.kind # "create note" /\ o.kind \notin DirKinds
  <2>1. o.kind \in {"create folder", "update folder"}
    BY <1>2, PushFoldersAre DEF FolderOp
  <2> QED BY <2>1 DEF NoteKinds, DirKinds
<1>3. ASSUME o \in Adoptions
      PROVE  o.kind \notin NoteKinds /\ o.kind # "create note" /\ o.kind \notin DirKinds
  <2>1. o.kind = "adopt"
    BY <1>3, AdoptionsAre DEF FolderOp
  <2> QED BY <2>1 DEF NoteKinds, DirKinds
<1>4. ASSUME NEW n \in N, o \in NoteOps(n, pull, push)
      PROVE  o.id = n /\ o.kind \in NoteKinds /\ o.kind # "create note" /\ o.kind \notin DirKinds
  <2>1. o.id = n /\ o.kind \in NoteKinds
    BY <1>4, NoteOpIs
  <2> QED BY <2>1 DEF NoteKinds, DirKinds
<1>5. ASSUME NEW p \in Drafts, o = Op("create note", Draft, p, p, dirs[p].id)
      PROVE  o.kind = "create note" /\ o.old = p /\ o.kind \notin NoteKinds /\ o.kind \notin DirKinds
  <2>1. o.kind = "create note" /\ o.old = p
    BY <1>5 DEF Op
  <2> QED BY <2>1 DEF NoteKinds, DirKinds
<1>6. CASE pull /\ o \in PullDirs
  BY <1>1, <1>6
<1>7. CASE \E n \in N : o \in NoteOps(n, pull, push)
  BY <1>4, <1>7
<1>8. CASE push /\ \E p \in Drafts : o = Op("create note", Draft, p, p, dirs[p].id)
  BY <1>5, <1>8
<1> QED BY <1>2, <1>3, <1>6, <1>7, <1>8, PlanSources

LEMMA PathsOfPlan ==
    ASSUME Typed, NEW pull \in BOOLEAN, NEW push \in BOOLEAN, NEW o \in Plan(pull, push)
    PROVE  o.old \in Paths \cup {<<>>} /\ o.new \in Paths \cup {<<>>}
<1>0. Forest(remote) /\ TypedDirs /\ DOMAIN dirs \subseteq Paths
  BY DEF Typed, TypedDirs, Tree
<1>1. \A f \in F : FolderStatus(f) \in {"remote modified", "local modified", "identical"} =>
        PathOfLocal(f) \in Paths
  BY <1>0, StatusOfFolder, LocalShape
<1>2. \A f \in Active : f \in F /\ RemotePath[f] \in Paths
  BY <1>0, PathsOfNotebooks DEF Active
<1>3. CASE o \in PullDirs
  <2>1. PICK f \in F :
          \/ FolderOp(o, "create dir", f, "remote new") /\ o.old = <<>> /\ o.new = RemotePath[f]
          \/ /\ FolderOp(o, "update dir", f, "remote modified")
             /\ o.old = PathOfLocal(f) /\ o.new = RemotePath[f]
    BY <1>3, PullDirsAre
  <2> QED BY <1>1, <1>2, <2>1 DEF FolderOp
<1>4. CASE o \in PushFolders
  <2>1. CASE o.kind = "create folder" /\ o.old \in Candidates /\ o.new = o.old
    BY <1>0, <2>1 DEF Candidates
  <2>2. CASE \E f \in F : /\ FolderOp(o, "update folder", f, "local modified")
                          /\ o.old = PathOfLocal(f) /\ o.new = o.old
    BY <1>1, <2>2 DEF FolderOp
  <2> QED BY <1>4, <2>1, <2>2, PushFoldersAre
<1>5. CASE o \in Adoptions
  <2>1. PICK f \in F : FolderOp(o, "adopt", f, "identical") /\ o.old = PathOfLocal(f) /\ o.new = o.old
    BY <1>5, AdoptionsAre
  <2> QED BY <1>1, <2>1 DEF FolderOp
<1>6. CASE \E n \in N : o \in NoteOps(n, pull, push)
  <2>1. PICK n \in N : o \in NoteOps(n, pull, push)
    BY <1>6
  <2>2. o.old = PlaceOf(n) /\ o.new \in {<<>>, Target(n), PlaceOf(n)} /\ notes[n] # None
    BY <2>1, NoteOpIs
  <2>3. PlaceOf(n) = <<>> \/ PlaceOf(n) \in Paths
    <3>1. TypedFiles
      BY DEF Typed
    <3> QED BY <1>0, <3>1, PlaceShape
  <2>4. Target(n) = <<>> \/ Target(n) \in Paths
    <3>1. TypedNotes
      BY DEF Typed
    <3> QED BY <1>0, <2>2, <3>1, TargetShape
  <2> QED BY <2>2, <2>3, <2>4
<1>7. CASE \E p \in Drafts : o = Op("create note", Draft, p, p, dirs[p].id)
  <2>1. Drafts \subseteq DOMAIN dirs
    BY DEF Drafts, Typed, TypedFiles
  <2>2. PICK p \in Drafts : o = Op("create note", Draft, p, p, dirs[p].id)
    BY <1>7
  <2>3. o.old = p /\ o.new = p
    BY <2>2 DEF Op
  <2> QED BY <1>0, <2>1, <2>3
<1> QED BY <1>3, <1>4, <1>5, <1>6, <1>7, PlanSources

(* Where the scan takes a note to be.                                         *)
LEMMA EveryEntered ==
    ASSUME Tree(dirs), Unique(dirs), NEW p \in DOMAIN dirs
    PROVE  Entered(p)
<1> SUFFICES ASSUME NEW q \in Proper(p) \cup {p}, Duplicate(q) PROVE FALSE
  BY DEF Entered
<1>1. q \in DOMAIN dirs /\ q \in Paths
  BY DEF Tree
<1>2. PICK r \in DOMAIN dirs : dirs[r].id = dirs[q].id /\ Before(r, q) /\ dirs[q].id # 0
  BY DEF Duplicate
<1>3. r = q
  BY <1>1, <1>2 DEF Unique
<1> QED BY <1>1, <1>2, <1>3, NotBeforeItself

LEMMA PlaceIs ==
    ASSUME Typed, Unique(dirs), NEW n
    PROVE  /\ PlaceOf(n) # <<>> => File(n, PlaceOf(n)) \in files
           /\ Settled(n) /\ FilesOf(n) # {} => PlaceOf(n) # <<>>
<1> DEFINE places == {x.dir : x \in {y \in files : y.n = n /\ Entered(y.dir)}}
           first == First(places)
<1>1. PlaceOf(n) = IF first = {} THEN <<>> ELSE CHOOSE p \in first : TRUE
  BY DEF PlaceOf
<1>2. first # {} => (CHOOSE p \in first : TRUE) \in first
  OBVIOUS
<1>3. first \subseteq places
  BY DEF First
<1>4. \A p \in places : File(n, p) \in files /\ p \in Paths
  <2> SUFFICES ASSUME NEW x \in files, x.n = n PROVE File(n, x.dir) \in files /\ x.dir \in Paths
    OBVIOUS
  <2> QED BY DEF Typed, TypedFiles, TypedDirs, Tree, File
<1>5. ASSUME Settled(n), FilesOf(n) # {} PROVE first # {}
  <2>1. PICK x \in FilesOf(n) : \A y \in FilesOf(n) : y = x
    BY <1>5, SettledFiles
  <2>2. x \in files /\ x.n = n /\ x.dir \in DOMAIN dirs
    BY DEF FilesOf, Typed, TypedFiles
  <2>3. Entered(x.dir)
    BY <2>2, EveryEntered DEF Typed, TypedDirs
  <2>4. places = {x.dir}
    <3>1. x.dir \in places
      BY <2>2, <2>3
    <3>2. \A p \in places : p = x.dir
      BY <2>1 DEF FilesOf
    <3> QED BY <3>1, <3>2
  <2>5. x.dir \in Paths
    BY <1>4, <2>4
  <2> HIDE DEF places
  <2>6. x.dir \in first
    BY <2>4, <2>5, NotBeforeItself DEF First
  <2> QED BY <2>6
<1> HIDE DEF first, places
<1>6. <<>> \notin Paths
  BY DEF Paths
<1> QED BY <1>1, <1>2, <1>3, <1>4, <1>5, <1>6

(* The start of a run: the plan relies on what it saw.                        *)
LEMMA StartFollowed ==
    ASSUME Typed, NEW pull \in BOOLEAN, NEW push \in BOOLEAN, NEW now, NEW scan,
           DOMAIN scan = DOMAIN dirs, \A p \in DOMAIN dirs : scan[p] = dirs[p].id,
           \A p \in DOMAIN now : now[p] = p /\ \E o \in Plan(pull, push) : p = o.old \/ p = o.new
    PROVE  Followed(dirs, Plan(pull, push), now, scan)
<1>1. \A p \in DOMAIN scan : p \in Paths /\ Proper(p) \subseteq DOMAIN scan
  BY DEF Typed, TypedDirs, Tree
<1>2. \A p \in DOMAIN now : now[p] \in Paths \cup {<<>>}
  BY PathsOfPlan
<1> QED BY <1>1, <1>2 DEF Followed

LEMMA StartAnnounced ==
    ASSUME Typed, Unique(dirs), NEW pull \in BOOLEAN, NEW push \in BOOLEAN, NEW now, NEW scan,
           DOMAIN scan = DOMAIN dirs, \A p \in DOMAIN dirs : scan[p] = dirs[p].id
    PROVE  Announced(dirs, Plan(pull, push), now, scan, <<>>, push)
<1>1. ASSUME push, NEW p \in DOMAIN dirs, dirs[p].id = 0
      PROVE  Pending(Plan(pull, push), p)
  <2>1. p \in Candidates
    BY <1>1, EveryEntered DEF Candidates, Typed, TypedDirs
  <2> DEFINE o == Op("create folder", 0, p, p, [title |-> p[Len(p)][1], parent |-> None])
  <2>2. o \in PushFolders
    BY <2>1 DEF PushFolders
  <2>3. o \in Plan(pull, push)
    BY <1>1, <2>2 DEF Plan
  <2>4. o.kind = "create folder" /\ o.old = p
    BY DEF Op
  <2> QED BY <2>3, <2>4 DEF Pending
<1>2. \A i : i \notin DOMAIN <<>>
  OBVIOUS
<1> QED BY <1>1, <1>2 DEF Announced

LEMMA StartLodged ==
    ASSUME Typed, KeptNow, NEW pull \in BOOLEAN, NEW push \in BOOLEAN,
           pull, ~Misnamed(Plan(pull, push)), NEW f \in Active
    PROVE  Owed(Plan(pull, push), f) \/ Lodged(dirs, f)
<1>0. TypedDirs /\ Tree(dirs) /\ Unique(dirs) /\ KeptBase /\ f \in F /\ remote[f] # None
  BY DEF Typed, TypedDirs, KeptNow, Active
<1>1. CASE DirOf(f) = {}
  <2>1. baseF[f] = None /\ LocalF(f) = None
    BY <1>0, <1>1, AllEntered DEF KeptBase, LocalF
  <2>2. f \in FoldersWith("remote new")
    BY <1>0, <2>1 DEF FoldersWith, FolderStatus, Active
  <2> DEFINE o == Op("create dir", f, <<>>, RemotePath[f], remote[f])
  <2>3. o \in PullDirs
    BY <2>2 DEF PullDirs
  <2>4. o \in Plan(pull, push)
    BY <2>3 DEF Plan
  <2>5. o.kind \in DirKinds /\ o.id = f
    BY DEF Op, DirKinds
  <2> QED BY <2>4, <2>5 DEF Owed
<1>2. CASE DirOf(f) # {} /\ \E r \in Ops(Plan(pull, push), "update dir") : r.id = f
  BY <1>2 DEF Ops, Owed, DirKinds
<1>3. CASE DirOf(f) # {} /\ InPlace(f)
  <2> DEFINE p == PathOfLocal(f)
  <2>1. p \in DOMAIN dirs /\ dirs[p].id = f
    BY <1>0, <1>3, LocalShape DEF DirOf
  <2>2. Beside(dirs, p, f)
    BY <1>3, <2>1 DEF InPlace, Beside, Held
  <2> QED BY <2>1, <2>2 DEF Lodged
<1> QED BY <1>1, <1>2, <1>3 DEF Misnamed

LEMMA StartLodging ==
    ASSUME Typed, KeptNow, NEW pull \in BOOLEAN, NEW push \in BOOLEAN,
           pull => ~Misnamed(Plan(pull, push))
    PROVE  Lodging(dirs, Plan(pull, push))
<1>1. \A o \in Plan(pull, push) : o.kind \in DirKinds => pull /\ o.id \in Active /\ o.new = RemotePath[o.id]
  BY KindsOfPlan
<1>2. DirOps(Plan(pull, push)) => pull
  BY <1>1 DEF DirOps
<1> QED BY <1>1, <1>2, StartLodged DEF Lodging

LEMMA StartAimed ==
    ASSUME Typed, KeptNow, NotesSettled, NEW pull \in BOOLEAN, NEW push \in BOOLEAN,
           pull => ~Misnamed(Plan(pull, push)), NEW now,
           \A o \in Plan(pull, push) : now[o.new] = o.new
    PROVE  Aimed(dirs, Plan(pull, push), now)
<1> SUFFICES ASSUME NEW o \in Plan(pull, push), o.kind \in AimKinds
             PROVE  IF DirOps(Plan(pull, push)) THEN o.saw \in Active /\ o.new = RemotePath[o.saw]
                    ELSE o.saw # 0 /\ Held(dirs, o.new, o.saw)
  BY DEF Aimed
<1>0. PICK n : n = o.id
  OBVIOUS
<1>1. n \in N /\ o \in NoteOps(n, pull, push)
  BY <1>0, KindsOfPlan DEF AimKinds, NoteKinds
<1>2. notes[n] # None
  BY <1>1, NoteOpIs
<1>3. pull /\ o.saw = notes[n] /\ (Target(n) # <<>> => o.new = Target(n))
  BY <1>1, NoteOpAims
<1>4. notes[n] \in Active /\ notes[n] # Root
  BY <1>1, <1>2 DEF NotesSettled, NoteSettled, Typed, TypedNotes, Known
<1>5. RemotePath[notes[n]] \in Paths
  BY <1>4, PathsOfNotebooks DEF Typed, Active
<1>6. Target(n) = RemotePath[notes[n]] /\ Target(n) # <<>>
  BY <1>4, <1>5 DEF Target, Paths
<1>7. o.saw \in Active /\ o.new = RemotePath[o.saw]
  BY <1>3, <1>4, <1>6
<1>8. ASSUME ~DirOps(Plan(pull, push)) PROVE o.saw # 0 /\ Held(dirs, o.new, o.saw)
  <2>1. \A f \in Active : Lodged(dirs, f)
    BY <1>3, <1>8, StartLodged DEF Owed, DirOps
  <2>2. Forest(remote) /\ Tree(dirs) /\ Unique(dirs)
    BY DEF Typed, TypedDirs, KeptNow
  <2>3. Held(dirs, RemotePath[o.saw], o.saw)
    BY <1>7, <2>1, <2>2, Arrive
  <2> QED BY <1>3, <1>4, <1>7, <2>3 DEF Root
<1> QED BY <1>7, <1>8

LEMMA StartDrawn ==
    ASSUME Typed, Unique(dirs), NotesSettled, ~Running, NEW pull \in BOOLEAN, NEW push \in BOOLEAN,
           run'.plan = Plan(pull, push), run'.push = push, run'.phase = "ask",
           DOMAIN run'.scan = DOMAIN dirs, \A p \in DOMAIN dirs : run'.scan[p] = dirs[p].id,
           \A o \in Plan(pull, push) : run'.now[o.old] = o.old,
           UNCHANGED <<notes, files, baseN, moved>>
    PROVE  PlanDrawn'
<1> SUFFICES ASSUME NEW o \in Plan(pull, push) PROVE Drawn(o)'
  BY DEF PlanDrawn
<1>0. TypedDirs /\ TypedFiles /\ TypedNotes
  BY DEF Typed
<1>1. CASE o.kind \in NoteKinds
  <2>0. PICK n : n = o.id
    OBVIOUS
  <2>1. n \in N /\ o \in NoteOps(n, pull, push)
    BY <1>1, <2>0, KindsOfPlan
  <2>2. o.old = PlaceOf(n) /\ notes[n] # None /\ \A u \in NoteOps(n, pull, push) : u = o
    BY <2>1, NoteOpIs
  <2>3. \A u \in Plan(pull, push) : u.kind \in NoteKinds /\ u.id = n => o = u
    BY <2>1, <2>2, KindsOfPlan
  <2>4. NoteSettled(n) /\ ~Relocated(n) /\ FilesOf(n)' = FilesOf(n)
    BY <2>1, NotRelocated DEF NotesSettled, FilesOf
  <2>5. PlaceOf(n) # <<>> =>
          /\ PlaceOf(n) \in DOMAIN dirs /\ dirs[PlaceOf(n)].id \in Known
          /\ File(n, PlaceOf(n)) \in files
    BY <1>0, PlaceShape, PlaceIs
  <2>6. None \notin Known
    BY Bounds DEF Known, Active, F, Root
  <2>7. LocalParent(n) # None => PlaceOf(n) # <<>> /\ LocalParent(n) = dirs[PlaceOf(n)].id
    BY DEF LocalParent
  <2>8. ASSUME o.kind = "create file"
        PROVE  baseN[n] = None /\ (n \notin moved => FilesOf(n) = {})
    <3>1. baseN[n] = None /\ LocalParent(n) = None
      BY <2>1, <2>8, NoteOpAims
    <3>2. PlaceOf(n) = <<>>
      BY <2>5, <2>6, <3>1 DEF LocalParent
    <3>3. Settled(n) => FilesOf(n) = {}
      BY <3>2, PlaceIs
    <3> QED BY <2>4, <3>1, <3>3 DEF NoteSettled
  <2>9. ASSUME o.kind = "update note"
        PROVE  n \in moved /\ push /\ o.old \in DOMAIN dirs /\ o.saw = dirs[o.old].id
    <3>1. /\ push /\ baseN[n] # None /\ LocalParent(n) # baseN[n] /\ LocalParent(n) # None
          /\ o.saw = LocalParent(n)
      BY <2>1, <2>9, NoteOpPushes
    <3>2. n \in moved
      <4> SUFFICES ASSUME n \notin moved PROVE FALSE
        OBVIOUS
      <4>1. \A x \in FilesOf(n) : Held(dirs, x.dir, baseN[n])
        BY <2>4, <3>1 DEF NoteSettled
      <4>2. File(n, PlaceOf(n)) \in FilesOf(n) /\ File(n, PlaceOf(n)).dir = PlaceOf(n)
        BY <2>5, <2>7, <3>1, FileShape DEF FilesOf
      <4> QED BY <2>7, <3>1, <4>1, <4>2 DEF Held
    <3> QED BY <2>2, <2>5, <2>7, <3>1, <3>2
  <2>10. ASSUME o.kind = "adopt note"
         PROVE  o.old \in DOMAIN dirs /\ notes[n] = dirs[o.old].id /\ File(n, o.old) \in files
    <3>1. LocalParent(n) = notes[n]
      BY <2>1, <2>10, NoteOpAims
    <3> QED BY <2>2, <2>5, <2>7, <3>1
  <2>11. ASSUME o.kind = "normalize" PROVE baseN[n] = o.saw
    <3>1. o.saw = notes[n] /\ notes[n] = baseN[n]
      BY <2>1, <2>11, NoteOpAims, ZenonT(60) DEF AimKinds
    <3> QED BY <3>1
  <2>12. /\ o.id \in N /\ notes'[o.id] # None /\ o.kind # "create note"
         /\ \A u \in run'.plan : u.kind \in NoteKinds /\ u.id = o.id => o = u
    BY <1>1, <2>0, <2>1, <2>2, <2>3 DEF NoteKinds
  <2>13. o.kind = "create file" => baseN'[o.id] = None /\ (o.id \notin moved' => FilesOf(o.id)' = {})
    BY <2>0, <2>4, <2>8
  <2>14. o.kind = "update note" =>
           o.id \in moved' /\ run'.push /\ o.old \in DOMAIN run'.scan /\ o.saw = run'.scan[o.old]
    BY <2>0, <2>9
  <2>15. o.kind = "adopt note" =>
           /\ o.old \in DOMAIN run'.scan /\ notes'[o.id] = run'.scan[o.old]
           /\ File(o.id, run'.now[o.old]) \in files'
    BY <2>0, <2>10
  <2>16. o.kind = "normalize" => baseN'[o.id] = o.saw
    BY <2>0, <2>11
  <2> QED BY <2>12, <2>13, <2>14, <2>15, <2>16, Zenon DEF Drawn
<1>2. CASE o.kind \notin NoteKinds
  <2>1. o.kind = "create note" => push /\ o.old \in DOMAIN dirs
    <3>1. Drafts \subseteq DOMAIN dirs
      BY <1>0 DEF Drafts, TypedFiles
    <3>2. ASSUME o.kind = "create note" PROVE push /\ \E p \in Drafts : o.old = p
      BY <3>2, KindsOfPlan
    <3> QED BY <3>1, <3>2
  <2> QED BY <1>2, <2>1 DEF Drawn, NoteKinds
<1> QED BY <1>1, <1>2

LEMMA StartPlaced ==
    ASSUME Typed, KeptNow, PlacedNow, NEW pull \in BOOLEAN, NEW push \in BOOLEAN,
           Start(pull, push), ~spoilt'
    PROVE  PlacedNow'
<1> DEFINE plan == Plan(pull, push)
           paths == {o.old : o \in plan} \cup {o.new : o \in plan}
           now == [p \in paths |-> p]
           scan == [p \in Visible |-> dirs[p].id]
<1>1. /\ run'.plan = plan /\ run'.push = push /\ run'.now = now /\ run'.scan = scan
      /\ run'.created = <<>> /\ run'.phase = "ask"
  BY DEF Start, NoRun
<1>2. /\ ~Running /\ (pull => ~Misnamed(plan))
      /\ UNCHANGED <<remote, notes, dirs, files, baseN, moved>>
  BY DEF Start
<1>3. Unique(dirs) /\ TypedDirs /\ Tree(dirs) /\ NotesSettled
  BY DEF KeptNow, Typed, TypedDirs, PlacedNow
<1>4. Visible = DOMAIN dirs
  BY <1>3, EveryEntered DEF Visible
<1>5. DOMAIN scan = DOMAIN dirs /\ \A p \in DOMAIN dirs : scan[p] = dirs[p].id
  BY <1>4
<1>6. \A p \in DOMAIN now : now[p] = p /\ \E o \in plan : p = o.old \/ p = o.new
  OBVIOUS
<1>7. \A o \in plan : now[o.old] = o.old /\ now[o.new] = o.new
  OBVIOUS
<1> HIDE DEF now, scan, paths
<1>8. Followed(dirs, plan, now, scan)
  BY <1>5, <1>6, StartFollowed
<1>9. Announced(dirs, plan, now, scan, <<>>, push)
  BY <1>3, <1>5, StartAnnounced
<1>10. Lodging(dirs, plan)
  BY <1>2, StartLodging
<1>11. Aimed(dirs, plan, now)
  BY <1>2, <1>3, <1>7, StartAimed
<1>12. PlanDrawn'
  BY <1>1, <1>2, <1>3, <1>5, <1>7, StartDrawn
<1> HIDE DEF plan
<1>13. RemotePath' = RemotePath /\ Active' = Active /\ \A f : DirName(f)' = DirName(f)
  BY <1>2, SamePaths
<1>14. Lodging(dirs, run.plan)'
  BY <1>1, <1>2, <1>10, <1>13 DEF Lodging, Lodged, Beside
<1>15. Aimed(dirs, run.plan, run.now)'
  BY <1>1, <1>2, <1>11, <1>13 DEF Aimed
<1>16. WaysKept'
  BY <1>1, <1>2, <1>8, <1>9, <1>14, <1>15 DEF WaysKept
<1>17. NotesSettled'
  BY <1>2, <1>3, NoRise, AllSame, NotRelocated, SettledStep
<1>18. WorkPlaced'
  BY <1>1 DEF WorkPlaced
<1> QED BY <1>12, <1>16, <1>17, <1>18 DEF PlacedNow

----------------------------------------------------------------------------
(* The initial states, and every step.                                        *)
LEMMA InitPlaced == Init => Placed
<1> SUFFICES ASSUME Init PROVE PlacedNow
  BY DEF Placed
<1> DEFINE first == <<Plain(1)>>
<1>1. /\ first \in DOMAIN dirs /\ dirs[first].id = 1
      /\ notes = [n \in N |-> IF n = 1 THEN 1 ELSE None] /\ baseN = notes
      /\ files = {File(1, first)} /\ run = NoRun
  <2>1. PICK nested \in BOOLEAN :
          LET second == IF nested THEN <<Plain(1), Plain(2)>> ELSE <<Plain(2)>> IN
          /\ dirs = [p \in {<<Plain(1)>>, second} |->
                       IF p = second THEN [id |-> 2, title |-> 2] ELSE [id |-> 1, title |-> 1]]
          /\ notes = [n \in N |-> IF n = 1 THEN 1 ELSE None]
          /\ baseN = notes /\ files = {File(1, <<Plain(1)>>)} /\ run = NoRun
    BY DEF Init
  <2> DEFINE second == IF nested THEN <<Plain(1), Plain(2)>> ELSE <<Plain(2)>>
  <2>2. first # second
    <3>1. Plain(1) # Plain(2)
      BY DEF Plain
    <3>2. <<Plain(1)>> # <<Plain(2)>>
      BY <3>1
    <3>3. <<Plain(1)>> # <<Plain(1), Plain(2)>>
      <4>1. Len(<<Plain(1)>>) = 1 /\ Len(<<Plain(1), Plain(2)>>) = 2
        OBVIOUS
      <4> QED BY <4>1
    <3> QED BY <3>2, <3>3
  <2>3. dirs = [p \in {first, second} |->
                  IF p = second THEN [id |-> 2, title |-> 2] ELSE [id |-> 1, title |-> 1]]
    BY <2>1
  <2> HIDE DEF second
  <2>4. first \in DOMAIN dirs /\ dirs[first].id = 1
    <3> HIDE DEF first
    <3> QED BY <2>2, <2>3
  <2> QED BY <2>1, <2>4
<1> HIDE DEF first
<1>2. NotesSettled
  <2> SUFFICES ASSUME NEW n \in N PROVE NoteSettled(n)
    BY DEF NotesSettled
  <2>1. \A x \in files : x.n = 1 /\ x.dir = first
    BY <1>1 DEF File
  <2>2. n # 1 => FilesOf(n) = {}
    BY <2>1 DEF FilesOf
  <2>3. notes[n] = IF n = 1 THEN 1 ELSE None
    BY <1>1
  <2>4. None # 1 /\ None # Root /\ 1 # Root
    BY BoundsAssumption DEF Root
  <2>5. Settled(n)
    BY <1>1 DEF Settled
  <2>6. \A x \in FilesOf(n) : x.dir = first
    BY <2>1 DEF FilesOf
  <2>7. Held(dirs, first, 1) /\ DOMAIN baseN = N
    BY <1>1 DEF Held
  <2>8. baseN[n] # None => \A x \in FilesOf(n) : Held(dirs, x.dir, baseN[n])
    BY <1>1, <2>3, <2>6, <2>7
  <2> QED BY <1>1, <2>2, <2>3, <2>4, <2>5, <2>7, <2>8 DEF NoteSettled
<1>3. run.plan = {} /\ run.now = <<>> /\ run.scan = <<>> /\ run.created = <<>> /\ run.phase = "ask"
  BY <1>1 DEF NoRun
<1>4. WaysKept
  <2>1. \A i : i \notin DOMAIN <<>>
    OBVIOUS
  <2>2. Followed(dirs, {}, <<>>, <<>>) /\ Announced(dirs, {}, <<>>, <<>>, <<>>, run.push)
    BY <2>1 DEF Followed, Announced, DirOps
  <2>3. Lodging(dirs, {}) /\ Aimed(dirs, {}, <<>>)
    BY DEF Lodging, Aimed, DirOps
  <2> QED BY <1>3, <2>2, <2>3 DEF WaysKept
<1>5. PlanDrawn /\ WorkPlaced
  BY <1>3 DEF PlanDrawn, WorkPlaced
<1> QED BY <1>2, <1>4, <1>5 DEF PlacedNow

LEMMA UsersWait ==
    ASSUME Next
    PROVE  \/ Started \/ Handler \/ Refused \/ Crash
           \/ ~Running /\ (Told \/ Filed \/ Made \/ Titled \/ Shifting \/ Carried \/ Drafted)
<1>1. TRUE \in BOOLEAN /\ FALSE \in BOOLEAN
  OBVIOUS
<1>2. Start(TRUE, FALSE) \/ Start(FALSE, TRUE) \/ Start(TRUE, TRUE) => Started
  BY <1>1 DEF Started
<1> QED BY <1>2, Zenon DEF Next, User, Told, Filed, Made, Titled, Shifting, Carried, Drafted

LEMMA PlacedStep == Typed /\ Kept /\ Placed /\ [Next]_vars => Placed'
<1> SUFFICES ASSUME Typed, Kept, Placed, [Next]_vars, ~spoilt' PROVE PlacedNow'
  BY DEF Placed
<1>1. CASE Next
  <2>1. KeptNow /\ PlacedNow
    BY <1>1, StaysSpoilt DEF Kept, Placed
  <2>2. CASE Started
    <3>1. PICK pull \in BOOLEAN, push \in BOOLEAN : Start(pull, push)
      BY <2>2 DEF Started
    <3> QED BY <2>1, <3>1, StartPlaced
  <2>3. CASE ~Running /\ (Told \/ Filed \/ Made \/ Titled \/ Shifting \/ Carried \/ Drafted)
    BY <2>1, <2>3, UsersPlaced
  <2>4. CASE MakeDir \/ RenameDir \/ WriteMeta \/ CommitDir
    BY <2>1, <2>4, MakeDirPlaced, RenameDirPlaced, WriteMetaPlaced, CommitDirPlaced
  <2>5. CASE CreateFolder \/ WriteNewMeta \/ CommitNewFolder \/ UpdateFolder
    BY <2>1, <2>5, CreateFolderPlaced, WriteNewMetaPlaced, CommitNewFolderPlaced, UpdateFolderPlaced
  <2>6. CASE WriteNote \/ UnlinkOld \/ CommitNote \/ Normalize
    BY <2>1, <2>6, WriteNotePlaced, UnlinkOldPlaced, CommitNotePlaced, NormalizePlaced
  <2>7. CASE UpdateNote \/ CreateNote \/ WriteId \/ UnlinkDraft \/ CommitNewNote
    BY <2>1, <2>7, UpdateNotePlaced, CreateNotePlaced, NewNoteFilePlaced, CommitNewNotePlaced
  <2>8. CASE Refused
    BY <2>1, <2>8, RefusedPlaced
  <2>9. CASE Crash
    BY <2>1, <2>9, CrashPlaced
  <2> QED BY <1>1, <2>2, <2>3, <2>4, <2>5, <2>6, <2>7, <2>8, <2>9, UsersWait DEF Handler
<1>2. CASE UNCHANGED vars
  <2>1. UNCHANGED <<remote, notes, dirs, files, baseN, run, moved, spoilt>>
    BY <1>2 DEF vars
  <2>2. PlacedNow
    BY <2>1 DEF Placed
  <2>3. op' = op /\ (Running' <=> Running) /\ old' = old /\ new' = new
    BY <2>1, SameOp DEF new, CurrentPath
  <2>4. NotesSettled'
    <3>1. \A n : FilesOf(n)' = FilesOf(n) /\ (Settled(n)' <=> Settled(n)) /\ (Relocated(n)' <=> Relocated(n))
      BY <2>1, <2>3 DEF FilesOf, Settled, Relocated
    <3> QED BY <2>1, <2>2, <3>1 DEF PlacedNow, NotesSettled, NoteSettled
  <2>5. PlanDrawn'
    <3> SUFFICES ASSUME NEW o \in run.plan PROVE Drawn(o)'
      BY <2>1 DEF PlanDrawn
    <3>1. FilesOf(o.id)' = FilesOf(o.id)
      BY <2>1 DEF FilesOf
    <3> QED BY <2>1, <2>2, <2>3, <3>1 DEF PlacedNow, PlanDrawn, Drawn
  <2>6. WaysKept'
    <3>1. Rising(dirs, dirs')
      BY <2>1, NoRise
    <3> QED BY <2>1, <2>2, <3>1, WaysRise DEF PlacedNow
  <2>7. WorkPlaced'
    <3>1. \A n : FilesOf(n)' = FilesOf(n) /\ (Settled(n)' <=> Settled(n))
      BY <2>1 DEF FilesOf, Settled
    <3> QED BY <2>1, <2>2, <2>3, <3>1 DEF PlacedNow, WorkPlaced
  <2> QED BY <2>4, <2>5, <2>6, <2>7 DEF PlacedNow
<1> QED BY <1>1, <1>2

(* Within a run, push alone changes the notebook of a note, and that of notes *)
(* whose file was moved.                                                      *)
LEMMA NotesStayStep ==
    Typed /\ Placed /\ [Next]_vars =>
      [\A n \in N : notes[n] # None /\ notes'[n] # notes[n] /\ Running => n \in moved \/ spoilt]_vars
<1> SUFFICES ASSUME Typed, Placed, Next, NEW n \in N,
                    notes[n] # None, notes'[n] # notes[n], Running, ~spoilt
             PROVE  n \in moved
  OBVIOUS
<1>1. PlacedNow
  BY DEF Placed
<1>2. CASE UpdateNote
  <2>1. PICK m : m = op.id
    OBVIOUS
  <2>2. op \in run.plan /\ op.kind = "update note" /\ \E f : notes' = [notes EXCEPT ![m] = f]
    BY <1>2, <2>1, OpIs DEF UpdateNote, At
  <2>3. m \in moved
    BY <1>1, <2>1, <2>2 DEF PlacedNow, PlanDrawn, Drawn
  <2>4. n \in DOMAIN notes
    BY DEF Typed, TypedNotes
  <2> QED BY <2>2, <2>3, <2>4
<1>3. CASE CreateNote
  <2>1. PICK m, f : m \in NewNotes /\ notes' = [notes EXCEPT ![m] = f]
    <3>1. NewNotes \subseteq Nat
      BY Bounds DEF NewNotes, N
    <3>2. NewNotes # {} => (CHOOSE m \in NewNotes : \A k \in NewNotes : m <= k) \in NewNotes
      BY <3>1, Least
    <3> QED BY <1>3, <3>2 DEF CreateNote
  <2> QED BY <2>1 DEF NewNotes
<1>4. Handler \/ Refused \/ Crash
  BY UsersWait DEF Started, Start
<1>5. UNCHANGED notes \/ UpdateNote \/ CreateNote
  BY <1>4 DEF Handler, MakeDir, RenameDir, WriteMeta, CommitDir, WriteNewMeta, CreateFolder,
     UpdateFolder, CommitNewFolder, WriteNote, UnlinkOld, CommitNote, Normalize, WriteId,
     UnlinkDraft, CommitNewNote, Refused, Crash
<1> QED BY <1>2, <1>3, <1>5

(* Up to the moment when "spoilt" is set, which is for good: a run takes a    *)
(* note to another notebook only if somebody moved the file of the note, or a *)
(* pull that died or left two files of it; failed operations on notes,        *)
(* crashes between operations and later runs leave every other note in its    *)
(* notebook (sync.py _op_push_update_remote, resolve_folder_id).              *)
THEOREM NotesStay == Spec => NotesStayUnlessMoved
<1>1. Init => Typed /\ Kept /\ Placed
  BY InitTyped, InitKept, InitPlaced
<1>2. Typed /\ Kept /\ Placed /\ [Next]_vars => (Typed /\ Kept /\ Placed)'
  BY TypedStep, KeptStep, PlacedStep
<1> QED BY <1>1, <1>2, NotesStayStep, PTL DEF Spec, NotesStayUnlessMoved
==============================================================================
