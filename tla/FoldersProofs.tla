---------------------------- MODULE FoldersProofs ----------------------------
(* Proofs about Folders, for any number of notebooks, notes, titles, edits,   *)
(* faults and runs: the type invariant, and that a notebook the base knows    *)
(* keeps its directory. No induction over paths is needed: that every         *)
(* notebook has a path, and no two the same, follows from a rank on the tree  *)
(* of notebooks and the least notebook for which it would fail.               *)
EXTENDS Folders, SequenceTheorems, WellFoundedInduction, TLAPS

----------------------------------------------------------------------------
(* Paths: sequences of components, each a title and a suffix.                 *)
Component == (1..NT) \X (0..NF)
Paths == Seq(Component) \ {<<>>}

LEMMA Bounds == /\ NF \in Nat /\ NN \in Nat /\ NT \in Nat
                /\ NF >= 2 /\ NN >= 1 /\ NT >= 2
                /\ None \notin Nat /\ None \notin [title : Nat, parent : Nat]
BY BoundsAssumption

LEMMA Least ==
    ASSUME NEW T, T \subseteq Nat, T # {}
    PROVE  \E n \in T : \A m \in T : n <= m
<1>1. PICK n \in T : \A m \in T : <<m, n>> \notin OpToRel(<, Nat)
  BY WFMin, NatLessThanWellFounded, Zenon
<1>2. \A m \in T : ~(m < n)
  BY <1>1 DEF OpToRel
<1> QED BY <1>2

LEMMA PathShape ==
    ASSUME NEW p \in Paths
    PROVE  /\ p \in Seq(Component) /\ Len(p) \in Nat /\ Len(p) >= 1 /\ DOMAIN p = 1..Len(p)
           /\ \A i \in 1..Len(p) : p[i] \in Component
<1>1. Len(p) \in Nat /\ DOMAIN p = 1..Len(p) /\ Len(p) # 0
  BY LenProperties, EmptySeq DEF Paths
<1> QED BY <1>1, ElementOfSeq DEF Paths

LEMMA IsPath ==
    ASSUME NEW p, NEW n \in Nat, n >= 1, DOMAIN p = 1..n, p = [i \in 1..n |-> p[i]],
           \A i \in 1..n : p[i] \in Component
    PROVE  p \in Paths /\ Len(p) = n
<1>1. p \in [1..n -> Component]
  OBVIOUS
<1>2. p \in Seq(Component)
  BY <1>1, IsASeq
<1>3. Len(p) = n
  BY <1>2, LenProperties
<1> QED BY <1>2, <1>3, EmptySeq DEF Paths

(* The first i components.                                                    *)
LEMMA Initial ==
    ASSUME NEW p \in Paths, NEW i \in 1..Len(p)
    PROVE  /\ SubSeq(p, 1, i) \in Paths /\ Len(SubSeq(p, 1, i)) = i
           /\ \A j \in 1..i : SubSeq(p, 1, i)[j] = p[j]
<1>1. Len(p) \in Nat /\ \A j \in 1..Len(p) : p[j] \in Component
  BY PathShape
<1>2. i \in Int /\ i >= 1 /\ i <= Len(p) /\ \A j \in 1..i : p[j] \in Component
  BY <1>1
<1>3. /\ SubSeq(p, 1, i) \in Seq(Component) /\ Len(SubSeq(p, 1, i)) = i
      /\ \A j \in 1..(i - 1 + 1) : SubSeq(p, 1, i)[j] = p[1 + j - 1]
  <2> DEFINE C == Component
  <2> HIDE DEF C
  <2>1. \A j \in 1..i : p[j] \in C
    BY <1>2 DEF C
  <2>2. /\ SubSeq(p, 1, i) \in Seq(C)
        /\ Len(SubSeq(p, 1, i)) = IF 1 <= i THEN i - 1 + 1 ELSE 0
        /\ \A j \in 1..(i - 1 + 1) : SubSeq(p, 1, i)[j] = p[1 + j - 1]
    BY <2>1, <1>2, SubSeqProperties, 1 \in Int
  <2> QED BY <1>2, <2>2 DEF C
<1>4. \A j \in 1..i : SubSeq(p, 1, i)[j] = p[j]
  BY <1>2, <1>3
<1> QED BY <1>2, <1>3, <1>4, EmptySeq DEF Paths

LEMMA PathEqual ==
    ASSUME NEW p \in Paths, NEW q \in Paths, Len(p) = Len(q), \A i \in 1..Len(p) : p[i] = q[i]
    PROVE  p = q
BY SeqEqual DEF Paths

LEMMA InitialOfInitial ==
    ASSUME NEW p \in Paths, NEW i \in 1..Len(p), NEW j \in 1..i
    PROVE  SubSeq(SubSeq(p, 1, i), 1, j) = SubSeq(p, 1, j)
<1>1. Len(p) \in Nat /\ j \in 1..Len(p)
  BY PathShape
<1>2. /\ SubSeq(p, 1, i) \in Paths /\ Len(SubSeq(p, 1, i)) = i
      /\ \A k \in 1..i : SubSeq(p, 1, i)[k] = p[k]
  BY Initial
<1>3. /\ SubSeq(p, 1, j) \in Paths /\ Len(SubSeq(p, 1, j)) = j
      /\ \A k \in 1..j : SubSeq(p, 1, j)[k] = p[k]
  BY <1>1, Initial
<1>4. /\ SubSeq(SubSeq(p, 1, i), 1, j) \in Paths /\ Len(SubSeq(SubSeq(p, 1, i), 1, j)) = j
      /\ \A k \in 1..j : SubSeq(SubSeq(p, 1, i), 1, j)[k] = SubSeq(p, 1, i)[k]
  BY <1>2, Initial
<1> QED BY <1>1, <1>2, <1>3, <1>4, PathEqual

LEMMA ProperPaths ==
    ASSUME NEW p \in Paths
    PROVE  /\ Proper(p) \subseteq Paths
           /\ \A q \in Proper(p) : Proper(q) \subseteq Proper(p) /\ Len(q) < Len(p)
           /\ p \notin Proper(p)
<1>1. Len(p) \in Nat /\ Len(p) >= 1
  BY PathShape
<1>2. ASSUME NEW q \in Proper(p)
      PROVE  q \in Paths /\ Proper(q) \subseteq Proper(p) /\ Len(q) < Len(p)
  <2>1. PICK i \in 1..(Len(p) - 1) : q = SubSeq(p, 1, i)
    BY DEF Proper
  <2>2. i \in 1..Len(p)
    BY <1>1
  <2>3. q \in Paths /\ Len(q) = i
    BY <2>1, <2>2, Initial
  <2>4. ASSUME NEW r \in Proper(q) PROVE r \in Proper(p)
    <3>1. PICK j \in 1..(i - 1) : r = SubSeq(q, 1, j)
      BY <2>3 DEF Proper
    <3>2. r = SubSeq(p, 1, j)
      BY <1>1, <2>1, <2>2, <3>1, InitialOfInitial
    <3> QED BY <1>1, <2>2, <3>2 DEF Proper
  <2> QED BY <1>1, <2>1, <2>3, <2>4
<1> QED BY <1>1, <1>2

LEMMA ParentShape ==
    ASSUME NEW p \in Paths, Len(p) # 1
    PROVE  /\ Parent(p) \in Paths /\ Parent(p) \in Proper(p) /\ Len(Parent(p)) = Len(p) - 1
           /\ Proper(p) = Proper(Parent(p)) \cup {Parent(p)}
<1>0. Len(p) \in Nat /\ Len(p) >= 1
  BY PathShape
<1>1. Len(p) \in Nat /\ Len(p) > 1 /\ Len(p) - 1 \in 1..Len(p)
  BY <1>0
<1>2. Parent(p) \in Paths /\ Len(Parent(p)) = Len(p) - 1
  BY <1>1, Initial DEF Parent
<1>3. Parent(p) \in Proper(p)
  BY <1>1 DEF Parent, Proper
<1>4. Proper(Parent(p)) \subseteq Proper(p)
  BY <1>3, ProperPaths
<1>5. ASSUME NEW q \in Proper(p), q # Parent(p) PROVE q \in Proper(Parent(p))
  <2>1. PICK i \in 1..(Len(p) - 1) : q = SubSeq(p, 1, i)
    BY DEF Proper
  <2>2. i # Len(p) - 1
    BY <1>5, <2>1 DEF Parent
  <2>3. i \in 1..(Len(Parent(p)) - 1)
    BY <1>1, <1>2, <2>2
  <2>4. SubSeq(Parent(p), 1, i) = q
    BY <1>1, <2>1, <2>3, <1>2, InitialOfInitial DEF Parent
  <2> QED BY <2>3, <2>4 DEF Proper
<1> QED BY <1>2, <1>3, <1>4, <1>5
----------------------------------------------------------------------------
(* Prefixes, and a path under a directory that is moved.                      *)
LEMMA PrefixShape ==
    ASSUME NEW p \in Paths, NEW q \in Paths
    PROVE  /\ IsPrefix(p, q) <=> Len(p) <= Len(q) /\ \A i \in 1..Len(p) : p[i] = q[i]
           /\ IsPrefix(p, q) <=> p = q \/ p \in Proper(q)
           /\ IsPrefix(p, q) => p = SubSeq(q, 1, Len(p))
<1>1. /\ Len(p) \in Nat /\ Len(p) >= 1 /\ p \in Seq(Component)
      /\ Len(q) \in Nat /\ Len(q) >= 1 /\ q \in Seq(Component)
  BY PathShape
<1>2. SubSeq(p, 1, Len(p)) = p /\ SubSeq(q, 1, Len(q)) = q
  BY <1>1, SubSeqFull
<1>3. ASSUME Len(p) <= Len(q)
      PROVE  /\ SubSeq(q, 1, Len(p)) \in Paths /\ Len(SubSeq(q, 1, Len(p))) = Len(p)
             /\ \A j \in 1..Len(p) : SubSeq(q, 1, Len(p))[j] = q[j]
  <2>1. Len(p) \in 1..Len(q)
    BY <1>1, <1>3
  <2> QED BY <2>1, Initial
<1>4. IsPrefix(p, q) <=> Len(p) <= Len(q) /\ p = SubSeq(q, 1, Len(p))
  BY <1>2 DEF IsPrefix
<1>5. IsPrefix(p, q) <=> Len(p) <= Len(q) /\ \A i \in 1..Len(p) : p[i] = q[i]
  BY <1>3, <1>4, PathEqual
<1>6. ASSUME IsPrefix(p, q), p # q PROVE p \in Proper(q)
  <2>1. Len(p) # Len(q)
    BY <1>2, <1>4, <1>6
  <2>2. Len(p) \in 1..(Len(q) - 1)
    BY <1>1, <1>4, <1>6, <2>1
  <2> QED BY <1>4, <1>6, <2>2 DEF Proper
<1>7. ASSUME p \in Proper(q) PROVE IsPrefix(p, q)
  <2>1. PICK i \in 1..(Len(q) - 1) : p = SubSeq(q, 1, i)
    BY <1>7 DEF Proper
  <2>2. i \in 1..Len(q) /\ i <= Len(q)
    BY <1>1
  <2>3. Len(p) = i
    BY <2>1, <2>2, Initial
  <2> QED BY <1>4, <2>1, <2>2, <2>3
<1>8. p = q => IsPrefix(p, q)
  BY <1>1, <1>2, <1>4
<1> QED BY <1>4, <1>5, <1>6, <1>7, <1>8

Shifted(q, p, from, to) ==
    /\ q \in Paths
    /\ Len(q) = Len(to) + Len(p) - Len(from)
    /\ Len(p) >= Len(from)
    /\ \A i \in 1..Len(to) : q[i] = to[i]
    /\ \A i \in 1..Len(p) - Len(from) : q[Len(to) + i] = p[Len(from) + i]
    /\ IsPrefix(to, q)

LEMMA MovedUnder ==
    ASSUME NEW p \in Paths, NEW from \in Paths, NEW to \in Paths, IsPrefix(from, p)
    PROVE  Shifted(Moved(p, from, to), p, from, to)
<1> DEFINE m == Len(from) + 1
           n == Len(p)
           rest == SubSeq(p, m, n)
           C == Component
           moved0 == to \o rest
<1>1. /\ Len(p) \in Nat /\ Len(p) >= 1 /\ \A i \in 1..Len(p) : p[i] \in C
      /\ Len(from) \in Nat /\ Len(from) >= 1 /\ Len(from) <= Len(p)
      /\ Len(to) \in Nat /\ Len(to) >= 1 /\ to \in Seq(C)
  BY PathShape, PrefixShape
<1>2. m \in Int /\ n \in Int /\ \A i \in m..n : p[i] \in C
  BY <1>1
<1> HIDE DEF C
<1>3. /\ rest \in Seq(C)
      /\ Len(rest) = IF m <= n THEN n - m + 1 ELSE 0
      /\ \A i \in 1..(n - m + 1) : rest[i] = p[m + i - 1]
  <2> HIDE DEF m, n
  <2> QED BY <1>2, SubSeqProperties DEF rest
<1>4. Len(rest) = Len(p) - Len(from)
      /\ \A i \in 1..Len(p) - Len(from) : rest[i] = p[Len(from) + i]
  BY <1>1, <1>3
<1>5. Moved(p, from, to) = moved0
  BY DEF Moved
<1> HIDE DEF rest
<1>6. /\ moved0 \in Seq(C)
      /\ Len(moved0) = Len(to) + Len(rest)
      /\ \A i \in 1..Len(to) + Len(rest) :
           moved0[i] = IF i <= Len(to) THEN to[i] ELSE rest[i - Len(to)]
  BY <1>1, <1>3, ConcatProperties
<1> HIDE DEF moved0
<1>7. Len(moved0) = Len(to) + Len(p) - Len(from) /\ Len(moved0) >= 1
  BY <1>1, <1>4, <1>6
<1>8. moved0 \in Paths
  <2>1. moved0 # <<>>
    BY <1>7, <1>6, EmptySeq
  <2> QED BY <1>6, <2>1 DEF Paths, C
<1>9. \A i \in 1..Len(to) : moved0[i] = to[i]
  BY <1>1, <1>4, <1>6
<1>10. ASSUME NEW i \in 1..Len(p) - Len(from)
       PROVE  moved0[Len(to) + i] = p[Len(from) + i]
  <2>1. Len(to) + i \in 1..Len(to) + Len(rest) /\ ~(Len(to) + i <= Len(to))
        /\ Len(to) + i - Len(to) = i
    BY <1>1, <1>4
  <2> QED BY <1>4, <1>6, <2>1
<1>11. IsPrefix(to, moved0)
  BY <1>1, <1>7, <1>8, <1>9, PrefixShape
<1> QED BY <1>1, <1>5, <1>7, <1>8, <1>9, <1>10, <1>11 DEF Shifted

LEMMA MovedPath ==
    ASSUME NEW p \in Paths, NEW from \in Paths, NEW to \in Paths
    PROVE  /\ Moved(p, from, to) \in Paths
           /\ ~IsPrefix(from, p) => Moved(p, from, to) = p
BY MovedUnder DEF Moved, Shifted

----------------------------------------------------------------------------
(* Directories: the parents of a directory are directories.                   *)
DirInfo == [id : 0..NF, title : 1..NT]
Tree(d) ==
    /\ DOMAIN d \subseteq Paths
    /\ d = [p \in DOMAIN d |-> d[p]]
    /\ \A p \in DOMAIN d : d[p] \in DirInfo /\ Proper(p) \subseteq DOMAIN d

LEMMA WithDirTree ==
    ASSUME NEW d, Tree(d), NEW p \in Paths
    PROVE  /\ Tree(WithDir(d, p))
           /\ DOMAIN WithDir(d, p) = DOMAIN d \cup Proper(p) \cup {p}
           /\ \A q \in DOMAIN d : WithDir(d, p)[q] = d[q]
           /\ \A q \in DOMAIN WithDir(d, p) \ DOMAIN d : WithDir(d, p)[q].id = 0
<1> DEFINE e == WithDir(d, p)
           New(q) == [id |-> 0, title |-> q[Len(q)][1]]
<1>1. /\ DOMAIN e = DOMAIN d \cup Proper(p) \cup {p}
      /\ e = [q \in DOMAIN e |-> e[q]]
      /\ \A q \in DOMAIN d : e[q] = d[q]
      /\ \A q \in DOMAIN e : q \notin DOMAIN d => e[q] = New(q)
  BY DEF WithDir
<1>0. \A q : New(q).id = 0 /\ New(q) = [id |-> 0, title |-> q[Len(q)][1]]
  OBVIOUS
<1> HIDE DEF e, New
<1>2. DOMAIN e \subseteq Paths
  BY <1>1, ProperPaths DEF Tree
<1>3. ASSUME NEW q \in DOMAIN e PROVE e[q] \in DirInfo /\ Proper(q) \subseteq DOMAIN e
  <2>1. CASE q \in DOMAIN d
    BY <1>1, <2>1 DEF Tree
  <2>2. CASE q \notin DOMAIN d
    <3>1. q \in Paths /\ Len(q) \in 1..Len(q) /\ q[Len(q)] \in Component
      BY <1>2, PathShape
    <3>2. q[Len(q)][1] \in 1..NT
      BY <3>1 DEF Component
    <3>3. 0 \in 0..NF
      BY Bounds
    <3>4. q \in Proper(p) \cup {p}
      BY <1>1, <2>2
    <3>5. e[q] \in DirInfo
      BY <1>0, <1>1, <2>2, <3>2, <3>3 DEF DirInfo
    <3>6. Proper(q) \subseteq Proper(p)
      BY <3>4, ProperPaths
    <3> QED BY <1>1, <3>5, <3>6
  <2> QED BY <2>1, <2>2
<1>4. Tree(e)
  BY <1>1, <1>2, <1>3 DEF Tree
<1>5. \A q \in DOMAIN e \ DOMAIN d : e[q].id = 0
  BY <1>0, <1>1
<1> QED BY <1>1, <1>4, <1>5 DEF e

LEMMA WithDirThere ==
    ASSUME NEW d, Tree(d), NEW p \in DOMAIN d
    PROVE  WithDir(d, p) = d
<1> DEFINE e == WithDir(d, p)
<1>1. p \in Paths /\ Proper(p) \subseteq DOMAIN d /\ d = [q \in DOMAIN d |-> d[q]]
  BY DEF Tree
<1>2. Tree(e) /\ DOMAIN e = DOMAIN d \cup Proper(p) \cup {p} /\ \A q \in DOMAIN d : e[q] = d[q]
  BY <1>1, WithDirTree
<1> HIDE DEF e
<1>4. e = [q \in DOMAIN e |-> e[q]]
  BY <1>2 DEF Tree
<1>3. e = d
  BY <1>1, <1>2, <1>4
<1> QED BY <1>3 DEF e

LEMMA WithMetaTree ==
    ASSUME NEW d, Tree(d), NEW p, NEW f \in 0..NF, NEW t \in 1..NT
    PROVE  /\ Tree(WithMeta(d, p, f, t))
           /\ DOMAIN WithMeta(d, p, f, t) = DOMAIN d
           /\ \A q \in DOMAIN d : WithMeta(d, p, f, t)[q] = IF q = p THEN [id |-> f, title |-> t] ELSE d[q]
BY DEF WithMeta, Tree, DirInfo

LEMMA WithParentsTree ==
    ASSUME NEW d, Tree(d), NEW p \in Paths
    PROVE  /\ Tree(WithParents(d, p))
           /\ DOMAIN WithParents(d, p) = DOMAIN d \cup Proper(p)
           /\ \A q \in DOMAIN d : WithParents(d, p)[q] = d[q]
           /\ \A q \in DOMAIN WithParents(d, p) \ DOMAIN d : WithParents(d, p)[q].id = 0
<1>1. CASE Len(p) = 1
  <2>1. Proper(p) = {}
    BY <1>1 DEF Proper
  <2> QED BY <1>1, <2>1 DEF WithParents
<1>2. CASE Len(p) # 1
  <2>1. Parent(p) \in Paths /\ Proper(p) = Proper(Parent(p)) \cup {Parent(p)}
    BY <1>2, ParentShape
  <2>2. WithParents(d, p) = WithDir(d, Parent(p))
    BY <1>2 DEF WithParents
  <2> QED BY <2>1, <2>2, WithDirTree
<1> QED BY <1>1, <1>2
(* A directory is moved to a place that does not exist below a directory that *)
(* does, and not into itself.                                                 *)
Movable(d, from, to) ==
    /\ Tree(d)
    /\ from \in DOMAIN d
    /\ to \in Paths \ DOMAIN d
    /\ Proper(to) \subseteq DOMAIN d
    /\ ~IsPrefix(from, to)

LEMMA MovedInjective ==
    ASSUME NEW d, NEW from, NEW to, Movable(d, from, to),
           NEW p \in DOMAIN d, NEW q \in DOMAIN d, Moved(p, from, to) = Moved(q, from, to)
    PROVE  p = q
<1>1. p \in Paths /\ q \in Paths /\ from \in Paths /\ to \in Paths
  BY DEF Movable, Tree
<1>2. ASSUME NEW r \in DOMAIN d PROVE ~IsPrefix(to, r)
  <2>1. r \in Paths /\ r # to /\ to \notin Proper(r)
    BY DEF Movable, Tree
  <2> QED BY <1>1, <2>1, PrefixShape
<1>3. CASE IsPrefix(from, p) /\ IsPrefix(from, q)
  <2>0. Shifted(Moved(p, from, to), p, from, to) /\ Shifted(Moved(q, from, to), q, from, to)
    BY <1>1, <1>3, MovedUnder, Zenon
  <2>1. /\ Len(p) \in Nat /\ Len(q) \in Nat /\ Len(from) \in Nat /\ Len(to) \in Nat
        /\ Len(p) >= Len(from) /\ Len(q) >= Len(from)
        /\ Len(to) + Len(p) - Len(from) = Len(to) + Len(q) - Len(from)
    BY <1>1, <2>0, PathShape DEF Shifted
  <2>2. Len(p) = Len(q)
    BY <2>1
  <2>3. ASSUME NEW i \in 1..Len(p) PROVE p[i] = q[i]
    <3>1. CASE i <= Len(from)
      <4>1. i \in 1..Len(from)
        BY <2>1, <3>1
      <4>2. from[i] = p[i] /\ from[i] = q[i]
        BY <1>1, <1>3, <4>1, PrefixShape
      <4> QED BY <4>2
    <3>2. CASE ~(i <= Len(from))
      <4>1. i - Len(from) \in 1..Len(p) - Len(from) /\ Len(from) + (i - Len(from)) = i
            /\ i - Len(from) \in 1..Len(q) - Len(from)
        BY <2>1, <2>2, <3>2
      <4>2. /\ Moved(p, from, to)[Len(to) + (i - Len(from))] = p[i]
            /\ Moved(q, from, to)[Len(to) + (i - Len(from))] = q[i]
        BY <2>0, <4>1 DEF Shifted
      <4> QED BY <4>2
    <3> QED BY <3>1, <3>2
  <2> QED BY <1>1, <2>2, <2>3, PathEqual
<1>4. CASE ~IsPrefix(from, p) /\ ~IsPrefix(from, q)
  BY <1>1, <1>4, MovedPath
<1>5. CASE ~(IsPrefix(from, p) <=> IsPrefix(from, q))
  <2>1. \A r \in {p, q} : IsPrefix(from, r) => IsPrefix(to, Moved(r, from, to))
    BY <1>1, MovedUnder DEF Shifted
  <2> QED BY <1>1, <1>2, <1>5, <2>1, MovedPath
<1> QED BY <1>3, <1>4, <1>5

(* The moved tree has what the tree had, where it now is.                     *)
Carries(e, d, from, to) ==
    /\ Tree(e)
    /\ DOMAIN e = {Moved(p, from, to) : p \in DOMAIN d}
    /\ \A p \in DOMAIN d : e[Moved(p, from, to)] = d[p]
    /\ to \in DOMAIN e

LEMMA MoveTreeTree ==
    ASSUME NEW d, NEW from, NEW to, Movable(d, from, to)
    PROVE  Carries(MoveTree(d, from, to), d, from, to)
<1> DEFINE e == MoveTree(d, from, to)
           M(p) == Moved(p, from, to)
<1>1. /\ DOMAIN e = {M(p) : p \in DOMAIN d}
      /\ e = [q \in DOMAIN e |-> e[q]]
      /\ \A q \in DOMAIN e : e[q] = d[CHOOSE p \in DOMAIN d : M(p) = q]
  BY DEF MoveTree
<1>2. DOMAIN d \subseteq Paths /\ from \in Paths /\ to \in Paths /\ from \in DOMAIN d
  BY DEF Movable, Tree
<1>3. \A p, q \in DOMAIN d : M(p) = M(q) => p = q
  BY MovedInjective
<1>4. \A p \in Paths : M(p) \in Paths
  BY <1>2, MovedPath
<1>5. ASSUME NEW p \in DOMAIN d PROVE e[M(p)] = d[p]
  <2>1. (CHOOSE q \in DOMAIN d : M(q) = M(p)) = p
    <3> HIDE DEF M
    <3> QED BY <1>3
  <2> HIDE DEF e, M
  <2> QED BY <1>1, <2>1
<1>6. ASSUME NEW p \in DOMAIN d, NEW r \in Proper(M(p)) PROVE r \in DOMAIN e
  <2>1. p \in Paths /\ Proper(p) \subseteq DOMAIN d /\ Proper(to) \subseteq DOMAIN d
        /\ ~IsPrefix(from, to)
    BY <1>2 DEF Movable, Tree
  <2>2. CASE ~IsPrefix(from, p)
    <3>1. M(p) = p
      BY <2>2 DEF Moved
    <3>2. r \in Proper(p) /\ r \in DOMAIN d /\ r \in Paths
      BY <1>2, <2>1, <3>1
    <3>3. ~IsPrefix(from, r)
      <4> SUFFICES ASSUME IsPrefix(from, r) PROVE FALSE
        OBVIOUS
      <4>1. from = r \/ from \in Proper(r)
        BY <1>2, <3>2, PrefixShape
      <4>2. from \in Proper(p)
        BY <2>1, <3>2, <4>1, ProperPaths
      <4> QED BY <1>2, <2>1, <2>2, <4>2, PrefixShape
    <3>4. M(r) = r
      BY <3>3 DEF Moved
    <3> HIDE DEF M, e
    <3> QED BY <1>1, <3>2, <3>4
  <2>3. CASE IsPrefix(from, p)
    <3>0. Shifted(M(p), p, from, to)
      BY <1>2, <2>1, <2>3, MovedUnder, Zenon
    <3>1. /\ M(p) \in Paths /\ Len(M(p)) = Len(to) + Len(p) - Len(from)
          /\ \A i \in 1..Len(to) : M(p)[i] = to[i]
          /\ \A i \in 1..Len(p) - Len(from) : M(p)[Len(to) + i] = p[Len(from) + i]
          /\ Len(p) >= Len(from)
      BY <3>0 DEF Shifted
    <3>2. /\ Len(p) \in Nat /\ Len(from) \in Nat /\ Len(to) \in Nat
          /\ Len(p) >= 1 /\ Len(from) >= 1 /\ Len(to) >= 1
      BY <1>2, <2>1, PathShape
    <3> HIDE DEF M
    <3>3. r \in Paths /\ IsPrefix(r, M(p)) /\ Len(r) < Len(M(p))
      BY <3>1, ProperPaths, PrefixShape
    <3>4. Len(r) \in Nat /\ Len(r) >= 1 /\ \A i \in 1..Len(r) : r[i] = M(p)[i]
      BY <3>1, <3>3, PathShape, PrefixShape
    <3>5. CASE Len(r) <= Len(to)
      <4>1. \A i \in 1..Len(r) : r[i] = to[i]
        BY <3>1, <3>2, <3>4, <3>5
      <4>2. IsPrefix(r, to)
        BY <1>2, <3>3, <3>5, <4>1, PrefixShape
      <4>3. CASE r = to
        <5>1. IsPrefix(from, from)
          BY <1>2, PrefixShape
        <5>4. Shifted(M(from), from, from, to)
          BY <1>2, <5>1, MovedUnder, Zenon DEF M
        <5>2. Len(M(from)) = Len(to) /\ \A i \in 1..Len(to) : M(from)[i] = to[i]
          BY <3>2, <5>4 DEF Shifted
        <5>3. M(from) = to
          BY <1>2, <1>4, <5>2, PathEqual
        <5> QED BY <1>1, <1>2, <4>3, <5>3
      <4>4. CASE r # to
        <5>1. r \in Proper(to)
          BY <1>2, <3>3, <4>2, <4>4, PrefixShape
        <5>2. ~IsPrefix(from, r)
          <6> SUFFICES ASSUME IsPrefix(from, r) PROVE FALSE
            OBVIOUS
          <6>1. from = r \/ from \in Proper(r)
            BY <1>2, <3>3, PrefixShape
          <6>2. from \in Proper(to)
            BY <1>2, <5>1, <6>1, ProperPaths
          <6> QED BY <1>2, <2>1, <6>2, PrefixShape
        <5>3. M(r) = r
          BY <5>2 DEF Moved, M
        <5> QED BY <1>1, <2>1, <5>1, <5>3
      <4> QED BY <4>3, <4>4
    <3>6. CASE ~(Len(r) <= Len(to))
      <4> DEFINE k == Len(from) + (Len(r) - Len(to))
                 s == SubSeq(p, 1, k)
      <4>1. k \in 1..Len(p) /\ k \in 1..(Len(p) - 1) /\ Len(from) <= k /\ Len(from) \in 1..k
        BY <3>1, <3>2, <3>3, <3>4, <3>6
      <4> HIDE DEF k
      <4>2. s \in Paths /\ Len(s) = k /\ \A i \in 1..k : s[i] = p[i]
        BY <2>1, <4>1, Initial
      <4>3. s \in Proper(p) /\ s \in DOMAIN d
        BY <2>1, <4>1 DEF Proper
      <4> HIDE DEF s
      <4>4. \A i \in 1..Len(from) : from[i] = s[i]
        BY <1>2, <2>1, <2>3, <3>2, <4>1, <4>2, PrefixShape
      <4>5. IsPrefix(from, s)
        BY <1>2, <3>2, <4>1, <4>2, <4>4, PrefixShape
      <4>10. Shifted(M(s), s, from, to)
        BY <1>2, <4>2, <4>5, MovedUnder, Zenon DEF M
      <4>6. /\ M(s) \in Paths /\ Len(M(s)) = Len(to) + k - Len(from)
            /\ \A i \in 1..Len(to) : M(s)[i] = to[i]
            /\ \A i \in 1..k - Len(from) : M(s)[Len(to) + i] = s[Len(from) + i]
        BY <4>2, <4>10 DEF Shifted
      <4>7. Len(M(s)) = Len(r)
        BY <3>2, <3>4, <4>6 DEF k
      <4>8. ASSUME NEW i \in 1..Len(r) PROVE M(s)[i] = r[i]
        <5>1. CASE i <= Len(to)
          <6>1. i \in 1..Len(to)
            BY <3>2, <3>4, <5>1
          <6> QED BY <3>1, <3>4, <4>6, <6>1
        <5>2. CASE ~(i <= Len(to))
          <6> DEFINE j == i - Len(to)
          <6>1. j \in 1..k - Len(from) /\ j \in 1..Len(p) - Len(from) /\ Len(to) + j = i
                /\ Len(from) + j \in 1..k
            BY <3>2, <3>3, <3>4, <4>1, <5>2 DEF k
          <6> HIDE DEF j
          <6>3. j \in 1..k - Len(from) /\ j \in 1..Len(p) - Len(from)
            BY <6>1
          <6>4. M(s)[Len(to) + j] = s[Len(from) + j]
            BY <4>6, <6>3
          <6>5. M(p)[Len(to) + j] = p[Len(from) + j]
            BY <3>0, <6>3 DEF Shifted
          <6>2. M(s)[Len(to) + j] = s[Len(from) + j] /\ M(p)[Len(to) + j] = p[Len(from) + j]
                /\ s[Len(from) + j] = p[Len(from) + j]
            BY <4>2, <6>1, <6>4, <6>5
          <6> QED BY <3>4, <6>1, <6>2
        <5> QED BY <5>1, <5>2
      <4>9. M(s) = r
        BY <3>3, <4>6, <4>7, <4>8, PathEqual
      <4> QED BY <1>1, <4>3, <4>9
    <3> QED BY <3>5, <3>6
  <2> QED BY <2>2, <2>3
<1>7. to \in DOMAIN e
  <2>1. IsPrefix(from, from) /\ Len(from) \in Nat /\ Len(to) \in Nat
    BY <1>2, PrefixShape, PathShape
  <2>0. Shifted(M(from), from, from, to)
    BY <1>2, <2>1, MovedUnder, Zenon
  <2>2. Len(M(from)) = Len(to) /\ \A i \in 1..Len(to) : M(from)[i] = to[i]
    BY <2>0, <2>1 DEF Shifted
  <2>3. M(from) = to
    BY <1>2, <1>4, <2>2, PathEqual
  <2> HIDE DEF M, e
  <2> QED BY <1>1, <1>2, <2>3
<1>8. Tree(e)
  <2>1. \A p \in DOMAIN d : d[p] \in DirInfo
    BY DEF Movable, Tree
  <2> HIDE DEF e, M
  <2>2. \A q \in DOMAIN e : q \in Paths /\ e[q] \in DirInfo /\ Proper(q) \subseteq DOMAIN e
    BY <1>1, <1>2, <1>4, <1>5, <1>6, <2>1
  <2> QED BY <1>1, <2>2 DEF Tree
<1> HIDE DEF e
<1> QED BY <1>1, <1>5, <1>7, <1>8 DEF e, Carries
----------------------------------------------------------------------------
(* Notebooks: no notebook is above itself, so each has a path.                *)
Row == [title : 1..NT, parent : F \cup {Root}]

Above(r, n, rank) ==
    /\ rank \in [F -> 0..n]
    /\ \A f \in F : r[f] # None /\ r[f].parent # Root => rank[r[f].parent] < rank[f]

Forest(r) ==
    /\ r \in [F -> {None} \cup Row]
    /\ \A f \in F : r[f] # None /\ r[f].parent # Root => r[r[f].parent] # None
    /\ \E n \in Nat : \E rank : Above(r, n, rank)

LEMMA RowIsSomething ==
    ASSUME NEW t \in 1..NT, NEW p \in F \cup {Root}
    PROVE  /\ [title |-> t, parent |-> p] \in Row
           /\ [title |-> t, parent |-> p] # None
<1>1. p \in Nat /\ t \in Nat
  BY Bounds DEF F, Root
<1>2. [title |-> t, parent |-> p] \in [title : Nat, parent : Nat]
  BY <1>1
<1>3. [title |-> t, parent |-> p] # None
  BY <1>2, Bounds
<1> QED BY <1>3 DEF Row

LEMMA Reparent ==
    ASSUME Forest(remote), NEW f \in F, NEW t \in 1..NT, NEW p \in F \cup {Root},
           p = Root \/ remote[p] # None, NoCycle(f, p)
    PROVE  Forest([remote EXCEPT ![f] = [title |-> t, parent |-> p]])
<1> DEFINE row == [title |-> t, parent |-> p]
           r == [remote EXCEPT ![f] = row]
<1>1. row \in Row /\ row # None /\ row.parent = p
  BY RowIsSomething
<1>n. PICK n \in Nat : \E rank : Above(remote, n, rank)
  BY DEF Forest
<1>2. PICK rank : Above(remote, n, rank)
  BY <1>n
<1>3. PICK above \in SUBSET (F \ {f}) :
        /\ p \in above \cup {Root}
        /\ \A g \in above : remote[g] # None => remote[g].parent \in above \cup {Root}
  BY DEF NoCycle
<1>4. remote \in [F -> {None} \cup Row]
      /\ \A g \in F : remote[g] # None /\ remote[g].parent # Root => remote[remote[g].parent] # None
  BY DEF Forest
<1>5. /\ r \in [F -> {None} \cup Row] /\ r[f] = row
      /\ \A g \in F \ {f} : r[g] = remote[g]
      /\ \A g \in F : remote[g] # None => r[g] # None
  BY <1>1, <1>4
<1>6. \A g \in F : remote[g] # None /\ remote[g].parent # Root => remote[g].parent \in F
  BY <1>4 DEF Row
<1> DEFINE shifted == [g \in F |-> IF g \in above THEN rank[g] ELSE rank[g] + n + 1]
<1> HIDE DEF r, row
<1>7. \A g \in F : r[g] # None /\ r[g].parent # Root => r[r[g].parent] # None
  BY <1>1, <1>4, <1>5, <1>6
<1>8. /\ \A g \in F : rank[g] \in 0..n
      /\ \A g \in F : remote[g] # None /\ remote[g].parent # Root => rank[remote[g].parent] < rank[g]
  BY <1>2 DEF Above
<1>9. /\ \A g \in F : shifted[g] = IF g \in above THEN rank[g] ELSE rank[g] + n + 1
      /\ shifted \in [F -> 0..(n + n + 1)]
  BY <1>8
<1> HIDE DEF shifted
<1>10. ASSUME NEW g \in F, r[g] # None, r[g].parent # Root
       PROVE  shifted[r[g].parent] < shifted[g]
  <2>1. CASE g = f
    <3>1. r[g].parent = p /\ p \in above /\ f \notin above
      BY <1>1, <1>3, <1>5, <1>10, <2>1
    <3>2. shifted[p] = rank[p] /\ shifted[f] = rank[f] + n + 1 /\ rank[p] \in 0..n /\ rank[f] \in 0..n
      BY <1>3, <1>8, <1>9, <3>1
    <3> QED BY <2>1, <3>1, <3>2
  <2>2. CASE g # f
    <3> DEFINE h == remote[g].parent
    <3>1. r[g] = remote[g] /\ h \in F /\ rank[h] < rank[g] /\ rank[h] \in 0..n /\ rank[g] \in 0..n
      BY <1>5, <1>6, <1>8, <1>10, <2>2
    <3>2. g \in above => h \in above
      BY <1>3, <1>10, <3>1
    <3> HIDE DEF h
    <3>3. shifted[h] < shifted[g]
      BY <1>9, <3>1, <3>2
    <3> QED BY <3>1, <3>3 DEF h
  <2> QED BY <2>1, <2>2
<1>11. n + n + 1 \in Nat /\ Above(r, n + n + 1, shifted)
  BY <1>9, <1>10 DEF Above
<1> QED BY <1>5, <1>7, <1>9, <1>11 DEF Forest, r, row

(* What the recursive definition of the paths says of a notebook.             *)
PathOf(P, f) ==
    IF remote[f] = None THEN <<>>
    ELSE IF remote[f].parent = Root THEN <<DirName(f)>>
    ELSE P[remote[f].parent] \o <<DirName(f)>>

LEMMA RemotePathExists ==
    ASSUME Forest(remote)
    PROVE  RemotePath = [f \in F |-> PathOf(RemotePath, f)]
<1>n. PICK n \in Nat : \E rank : Above(remote, n, rank)
  BY DEF Forest
<1>1. PICK rank : Above(remote, n, rank)
  BY <1>n
<1>2. /\ \A f \in F : rank[f] \in 0..n
      /\ \A f \in F : remote[f] # None /\ remote[f].parent # Root =>
           remote[f].parent \in F /\ rank[remote[f].parent] < rank[f]
  BY <1>1 DEF Above, Forest, Row
<1> DEFINE Low(m) == {f \in F : rank[f] < m}
           Partial(P, m) == P = [f \in Low(m) |-> PathOf(P, f)]
           T == {m \in Nat : ~\E P : Partial(P, m)}
<1>3. T = {}
  <2> SUFFICES ASSUME T # {} PROVE FALSE
    OBVIOUS
  <2>1. T \subseteq Nat
    OBVIOUS
  <2>2. PICK m \in T : \A k \in T : m <= k
    <3> HIDE DEF T
    <3> QED BY <2>1, Least
  <2>3. m \in Nat /\ ~\E P : Partial(P, m)
    BY <2>2
  <2>4. m # 0
    <3> SUFFICES ASSUME m = 0 PROVE FALSE
      OBVIOUS
    <3>1. Low(0) = {}
      BY <1>2
    <3> DEFINE P0 == [f \in {} |-> PathOf(<<>>, f)]
    <3>2. P0 = [f \in {} |-> PathOf(P0, f)]
      OBVIOUS
    <3>3. Partial(P0, 0)
      BY <3>1, <3>2
    <3> QED BY <2>3, <3>3
  <2>5. m - 1 \in Nat /\ m - 1 \notin T
    <3> HIDE DEF T
    <3> QED BY <2>2, <2>3, <2>4
  <2>6. PICK P : Partial(P, m - 1)
    BY <2>5
  <2> DEFINE Q == [f \in Low(m) |-> PathOf(P, f)]
  <2>7. ASSUME NEW f \in Low(m) PROVE PathOf(P, f) = PathOf(Q, f)
    <3> DEFINE h == remote[f].parent
    <3>1. CASE remote[f] = None \/ h = Root
      BY <3>1 DEF PathOf
    <3>2. CASE remote[f] # None /\ h # Root
      <4>1. h \in F /\ rank[h] < rank[f] /\ rank[f] < m /\ rank[h] \in 0..n /\ rank[f] \in 0..n
        BY <1>2, <3>2
      <4>2. h \in Low(m) /\ h \in Low(m - 1)
        <5> HIDE DEF h
        <5> QED BY <2>3, <4>1
      <4>3. P[h] = PathOf(P, h)
        <5> HIDE DEF h, Low
        <5> QED BY <2>6, <4>2
      <4>4. Q[h] = PathOf(P, h)
        <5> HIDE DEF h, Low
        <5> QED BY <4>2
      <4> HIDE DEF Q
      <4> QED BY <3>2, <4>3, <4>4 DEF PathOf
    <3> QED BY <3>1, <3>2
  <2>8. Q = [f \in Low(m) |-> PathOf(Q, f)]
    <3> HIDE DEF Low
    <3> QED BY <2>7
  <2> QED BY <2>3, <2>8
<1>4. \E P : P = [f \in F |-> PathOf(P, f)]
  <2>1. Low(n + 1) = F
    BY <1>2
  <2>2. n + 1 \in Nat
    OBVIOUS
  <2>3. \E P : Partial(P, n + 1)
    BY <1>3, <2>2
  <2> HIDE DEF Low
  <2> QED BY <2>1, <2>3
<1>5. RemotePath = CHOOSE P : P = [f \in F |-> PathOf(P, f)]
  BY DEF RemotePath, PathOf
<1> QED BY <1>4, <1>5

LEMMA RemotePathStep ==
    ASSUME Forest(remote), NEW f \in F, remote[f] # None
    PROVE  RemotePath[f] = IF remote[f].parent = Root THEN <<DirName(f)>>
                           ELSE RemotePath[remote[f].parent] \o <<DirName(f)>>
<1> DEFINE R == RemotePath
<1>1. R = [g \in F |-> PathOf(R, g)]
  BY RemotePathExists
<1> HIDE DEF R
<1>2. R[f] = PathOf(R, f)
  BY <1>1
<1> QED BY <1>2 DEF PathOf, R

LEMMA DirNameShape ==
    ASSUME Forest(remote), NEW f \in F, remote[f] # None
    PROVE  DirName(f) \in Component
<1>1. remote[f].title \in 1..NT /\ f \in 0..NF /\ 0 \in 0..NF
  BY Bounds DEF Forest, Row, F
<1> QED BY <1>1 DEF DirName, Plain, Component

LEMMA PathsOfNotebooks ==
    ASSUME Forest(remote), NEW g \in F, remote[g] # None
    PROVE  RemotePath[g] \in Paths /\ RemotePath[g][Len(RemotePath[g])] = DirName(g)
<1> DEFINE R == RemotePath
           Good(f) == R[f] \in Paths /\ R[f][Len(R[f])] = DirName(f)
<1>n. PICK n \in Nat : \E rank : Above(remote, n, rank)
  BY DEF Forest
<1>1. PICK rank : Above(remote, n, rank)
  BY <1>n
<1>2. /\ \A f \in F : rank[f] \in 0..n
      /\ \A f \in F : remote[f] # None /\ remote[f].parent # Root =>
           /\ remote[f].parent \in F /\ rank[remote[f].parent] < rank[f]
           /\ remote[remote[f].parent] # None
  BY <1>1 DEF Above, Forest, Row
<1>3. \A f \in F : remote[f] # None =>
        /\ R[f] = IF remote[f].parent = Root THEN <<DirName(f)>>
                  ELSE R[remote[f].parent] \o <<DirName(f)>>
        /\ DirName(f) \in Component
  BY RemotePathStep, DirNameShape
<1> HIDE DEF R
<1> DEFINE T == {rank[f] : f \in {h \in F : remote[h] # None /\ ~Good(h)}}
<1>4. T = {}
  <2> SUFFICES ASSUME T # {} PROVE FALSE
    OBVIOUS
  <2>1. T \subseteq Nat
    BY <1>2
  <2>2. PICK m \in T : \A k \in T : m <= k
    <3> HIDE DEF T
    <3> QED BY <2>1, Least
  <2>3. PICK f \in F : remote[f] # None /\ ~Good(f) /\ m = rank[f]
    BY <2>2
  <2>4. CASE remote[f].parent = Root
    <3>1. R[f] = <<DirName(f)>> /\ DirName(f) \in Component
      BY <1>3, <2>3, <2>4
    <3>2. R[f] \in Seq(Component) /\ R[f] # <<>> /\ Len(R[f]) = 1 /\ R[f][1] = DirName(f)
      BY <3>1
    <3> QED BY <2>3, <3>2 DEF Paths
  <2>5. CASE remote[f].parent # Root
    <3> DEFINE h == remote[f].parent
               c == DirName(f)
    <3>1. h \in F /\ rank[h] < rank[f] /\ remote[h] # None /\ rank[h] \in 0..n /\ rank[f] \in 0..n
          /\ c \in Component /\ R[f] = R[h] \o <<c>>
      BY <1>2, <1>3, <2>3, <2>5
    <3>2. Good(h)
      <4> SUFFICES ASSUME ~Good(h) PROVE FALSE
        OBVIOUS
      <4>1. rank[h] \in T
        <5> HIDE DEF h, Good
        <5> QED BY <3>1
      <4>2. m <= rank[h]
        <5> HIDE DEF h, T
        <5> QED BY <2>2, <4>1
      <4> HIDE DEF h
      <4> QED BY <2>3, <3>1, <4>2
    <3>3. R[h] \in Paths
      BY <3>2
    <3>4. R[h] \in Seq(Component) /\ Len(R[h]) \in Nat /\ Len(R[h]) >= 1
      BY <3>3, PathShape
    <3>5. <<c>> \in Seq(Component) /\ Len(<<c>>) = 1 /\ <<c>>[1] = c
      <4> HIDE DEF c
      <4> QED BY <3>1
    <3> HIDE DEF c, h
    <3>6. /\ R[f] \in Seq(Component) /\ Len(R[f]) = Len(R[h]) + 1
          /\ \A i \in 1..Len(R[h]) + 1 :
               R[f][i] = IF i <= Len(R[h]) THEN R[h][i] ELSE <<c>>[i - Len(R[h])]
      BY <3>1, <3>4, <3>5, ConcatProperties
    <3>7. R[f][Len(R[h]) + 1] = c
      <4>1. Len(R[h]) + 1 \in 1..Len(R[h]) + 1 /\ ~(Len(R[h]) + 1 <= Len(R[h]))
            /\ Len(R[h]) + 1 - Len(R[h]) = 1
        BY <3>4
      <4> QED BY <3>5, <3>6, <4>1
    <3>8. R[f] # <<>>
      BY <3>4, <3>6, EmptySeq
    <3> QED BY <2>3, <3>6, <3>7, <3>8 DEF Paths, c
  <2> QED BY <2>4, <2>5
<1>5. Good(g)
  BY <1>4
<1> QED BY <1>5 DEF R
----------------------------------------------------------------------------
(* The inductive invariant behind TypeOK.                                     *)
Known == Active \cup {Root}

TypedOp(o, known) ==
    /\ o.kind \in {"create dir", "update dir"} =>
         o.id \in known \ {Root} /\ o.new \in Paths /\ o.saw \in Row
    /\ o.kind \in {"update dir", "create folder"} => o.old \in Paths
    /\ o.kind = "create folder" => o.saw.title \in 1..NT
    /\ o.kind = "adopt" => o.id \in known \ {Root}
    /\ o.kind = "update folder" =>
         o.id \in known \ {Root} /\ o.saw \in Row /\ o.saw.parent \in known
    /\ o.kind \in {"create file", "update file", "normalize", "update note", "adopt note"} =>
         o.id \in N
    /\ o.kind = "normalize" => o.new \in Paths
    /\ o.kind = "update note" => o.saw \in known

IsRun(r) ==
    r = [plan |-> r.plan, phase |-> r.phase, pull |-> r.pull, push |-> r.push, scan |-> r.scan,
         now |-> r.now, created |-> r.created, id |-> r.id, ok |-> r.ok, result |-> r.result]

TypedRun(r, known) ==
    /\ IsRun(r)
    /\ \A o \in r.plan : TypedOp(o, known) /\ o.old \in DOMAIN r.now /\ o.new \in DOMAIN r.now
    /\ r.now = [p \in DOMAIN r.now |-> r.now[p]]
    /\ \A p \in DOMAIN r.now : p \in Paths => r.now[p] \in Paths
    /\ \A p \in DOMAIN r.scan : r.scan[p] \in known
    /\ r.created \in Seq(Paths \X F)
    /\ \A i \in DOMAIN r.created : r.created[i][2] \in known \ {Root}

TypedPhase ==
    Running =>
      /\ run.phase # "ask" /\ op.kind = "create folder" => run.id \in Active
      /\ run.phase # "ask" /\ op.kind = "create note" => run.id \in N
      /\ run.phase = "file" /\ op.kind = "create note" => File(Draft, old) \in files

TypedDirs == Tree(dirs) /\ \A p \in DOMAIN dirs : dirs[p].id \in Known
TypedFiles == files \subseteq [n : N \cup {Draft}, dir : DOMAIN dirs]
TypedNotes == notes \in [N -> Known \cup {None}]

Typed ==
    /\ Forest(remote) /\ TypedNotes /\ TypedDirs /\ TypedFiles
    /\ moved \subseteq N /\ spoilt \in BOOLEAN
    /\ TypedRun(run, Known) /\ TypedPhase

LEMMA OpIs ==
    ASSUME Running
    PROVE  /\ op \in run.plan
           /\ \A other \in run.plan \ {op} : Sooner(op, other)
<1>1. op \in Soonest(run.plan)
  BY DEF Running, op
<1> QED BY <1>1 DEF Soonest

LEMMA TypedIsTypeOK == Typed => TypeOK
<1> SUFFICES ASSUME Typed PROVE TypeOK
  OBVIOUS
<1>1. Known \subseteq F \cup {Root}
  BY DEF Known, Active
<1>2. remote \in [F -> {None} \cup [title : 1..NT, parent : F \cup {Root}]]
  BY DEF Typed, Forest, Row
<1>3. notes \in [N -> F \cup {Root, None}]
  BY <1>1 DEF Typed, TypedNotes
<1>4. \A p \in DOMAIN dirs : Proper(p) \subseteq DOMAIN dirs /\ dirs[p].id \in F \cup {0}
  BY <1>1 DEF Typed, TypedDirs, Tree, Root
<1>5. \A x \in files : x.n \in N \cup {Draft} /\ x.dir \in DOMAIN dirs
  BY DEF Typed, TypedFiles
<1> QED BY <1>2, <1>3, <1>4, <1>5 DEF Typed, TypeOK

LEMMA InitTyped == Init => Typed
<1> SUFFICES ASSUME Init PROVE Typed
  OBVIOUS
<1>1. PICK nested \in BOOLEAN :
        LET second == IF nested THEN <<Plain(1), Plain(2)>> ELSE <<Plain(2)>>
            rows == [f \in F |-> IF f = 1 THEN [title |-> 1, parent |-> Root]
                                ELSE IF f = 2 THEN [title |-> 2,
                                                    parent |-> IF nested THEN 1 ELSE Root]
                                ELSE None] IN
        /\ remote = rows
        /\ dirs = [p \in {<<Plain(1)>>, second} |->
                     IF p = second THEN [id |-> 2, title |-> 2] ELSE [id |-> 1, title |-> 1]]
        /\ notes = [n \in N |-> IF n = 1 THEN 1 ELSE None]
        /\ files = {File(1, <<Plain(1)>>)}
        /\ run = NoRun
        /\ moved = {} /\ spoilt = FALSE
  BY DEF Init
<1> DEFINE second == IF nested THEN <<Plain(1), Plain(2)>> ELSE <<Plain(2)>>
           above == IF nested THEN 1 ELSE Root
           first == <<Plain(1)>>
<1>2. /\ 1 \in F /\ 2 \in F /\ 1 \in N /\ {1, 2} \subseteq 1..NT /\ {1, 2} \subseteq 0..NF
      /\ above \in F \cup {Root} /\ 1 # Root /\ 2 # Root
      /\ above = Root \/ above = 1
  BY Bounds DEF F, N, Root
<1>3. /\ [title |-> 1, parent |-> Root] \in Row /\ [title |-> 1, parent |-> Root] # None
      /\ [title |-> 2, parent |-> above] \in Row /\ [title |-> 2, parent |-> above] # None
  BY <1>2, RowIsSomething
<1>4. /\ remote \in [F -> {None} \cup Row]
      /\ remote[1] = [title |-> 1, parent |-> Root] /\ remote[2] = [title |-> 2, parent |-> above]
      /\ \A f \in F \ {1, 2} : remote[f] = None
  BY <1>1, <1>2, <1>3
<1>5. Forest(remote)
  <2> DEFINE rank == [f \in F |-> IF f = 1 THEN 0 ELSE 1]
  <2>1. rank \in [F -> 0..1] /\ rank[1] = 0 /\ rank[2] = 1
    BY <1>2
  <2> HIDE DEF rank, above
  <2>2. \A f \in F : remote[f] # None /\ remote[f].parent # Root => f = 2 /\ remote[f].parent = 1
    BY <1>2, <1>4
  <2>3. Above(remote, 1, rank)
    BY <2>1, <2>2 DEF Above
  <2>4. \A f \in F : remote[f] # None /\ remote[f].parent # Root => remote[remote[f].parent] # None
    BY <1>3, <1>4, <2>2
  <2> QED BY <1>4, <2>3, <2>4 DEF Forest
<1>6. 1 \in Active /\ 2 \in Active
  BY <1>2, <1>3, <1>4 DEF Active
<1>7. TypedNotes
  BY <1>1, <1>6 DEF TypedNotes, Known
<1>8. /\ Plain(1) \in Component /\ Plain(2) \in Component
  BY <1>2, Bounds DEF Plain, Component
<1>9. /\ first \in Paths /\ Proper(first) = {}
      /\ second \in Paths /\ Proper(second) \subseteq {first}
  <2> DEFINE a == Plain(1)
             b == Plain(2)
  <2> HIDE DEF a, b
  <2>0. a \in Component /\ b \in Component
    BY <1>8 DEF a, b
  <2>1. \A c \in Component : <<c>> \in Paths /\ Len(<<c>>) = 1
    BY DEF Paths
  <2>2. <<a, b>> \in Paths /\ Len(<<a, b>>) = 2 /\ <<a, b>>[1] = a
    BY <2>0 DEF Paths
  <2>3. \A p \in Paths : Len(p) = 1 => Proper(p) = {}
    BY DEF Proper
  <2>4. Proper(<<a, b>>) \subseteq {<<a>>}
    <3>1. Proper(<<a, b>>) = {SubSeq(<<a, b>>, 1, 1)}
      BY <2>2 DEF Proper
    <3>2. SubSeq(<<a, b>>, 1, 1) \in Paths /\ Len(SubSeq(<<a, b>>, 1, 1)) = 1
          /\ SubSeq(<<a, b>>, 1, 1)[1] = a
      <4>1. 1 \in 1..Len(<<a, b>>) /\ 1 \in 1..1
        BY <2>2
      <4> QED BY <2>2, <4>1, Initial
    <3>3. <<a>> \in Paths /\ Len(<<a>>) = 1 /\ <<a>>[1] = a
      BY <2>0, <2>1
    <3>4. SubSeq(<<a, b>>, 1, 1) = <<a>>
      <4> DEFINE s == SubSeq(<<a, b>>, 1, 1)
                 u == <<a>>
      <4> HIDE DEF s, u
      <4>1. s \in Paths /\ u \in Paths /\ Len(s) = Len(u) /\ \A i \in 1..Len(s) : s[i] = u[i]
        BY <3>2, <3>3 DEF s, u
      <4> QED BY <4>1, PathEqual DEF s, u
    <3> QED BY <3>1, <3>4
  <2> QED BY <2>0, <2>1, <2>2, <2>3, <2>4 DEF a, b
<1>10. /\ DOMAIN dirs = {first, second}
       /\ dirs = [p \in DOMAIN dirs |-> dirs[p]]
       /\ \A p \in DOMAIN dirs : dirs[p] \in {[id |-> 2, title |-> 2], [id |-> 1, title |-> 1]}
  <2> HIDE DEF first, second
  <2> QED BY <1>1 DEF first, second
<1>11. TypedDirs
  <2>1. \A x \in {[id |-> 2, title |-> 2], [id |-> 1, title |-> 1]} : x \in DirInfo /\ x.id \in Known
    BY <1>2, <1>6 DEF DirInfo, Known
  <2>2. Tree(dirs)
    <3> HIDE DEF first, second
    <3> QED BY <1>9, <1>10, <2>1 DEF Tree
  <2> QED BY <1>10, <2>1, <2>2 DEF TypedDirs
<1>12. TypedFiles
  <2> HIDE DEF second
  <2> QED BY <1>1, <1>2, <1>10 DEF TypedFiles, File
<1>13. TypedRun(run, Known) /\ ~Running
  <2>1. <<>> \in Seq(Paths \X F) /\ DOMAIN <<>> = {}
    OBVIOUS
  <2>2. <<>> = [p \in DOMAIN <<>> |-> <<>>[p]]
    OBVIOUS
  <2> QED BY <1>1, <2>1, <2>2 DEF NoRun, TypedRun, IsRun, Running, Soonest
<1> QED BY <1>1, <1>5, <1>7, <1>11, <1>12, <1>13 DEF Typed, TypedPhase
----------------------------------------------------------------------------
(* What a plan consists of.                                                   *)
LEMMA LocalShape ==
    ASSUME TypedDirs, NEW f \in F
    PROVE  /\ DirOf(f) # {} =>
                /\ PathOfLocal(f) \in DirOf(f)
                /\ PathOfLocal(f) \in DOMAIN dirs /\ PathOfLocal(f) \in Paths
                /\ LocalF(f) \in Row /\ LocalF(f).parent \in Known
           /\ LocalF(f) = None <=> DirOf(f) = {}
<1> DEFINE p == PathOfLocal(f)
           row == [title |-> dirs[p].title, parent |-> Enclosing(p)]
<1>1. ASSUME DirOf(f) # {}
      PROVE  /\ p \in DirOf(f) /\ p \in DOMAIN dirs /\ p \in Paths
             /\ row \in Row /\ row.parent \in Known /\ row # None
  <2>1. p \in DirOf(f)
    BY <1>1 DEF PathOfLocal
  <2> HIDE DEF p
  <2>2. p \in DOMAIN dirs /\ p \in Paths /\ dirs[p] \in DirInfo /\ Proper(p) \subseteq DOMAIN dirs
    BY <2>1 DEF DirOf, TypedDirs, Tree
  <2>3. Enclosing(p) \in Known
    <3>1. CASE Len(p) = 1
      BY <3>1 DEF Enclosing, Known
    <3>2. CASE Len(p) # 1
      <4>1. Parent(p) \in DOMAIN dirs
        BY <2>2, <3>2, ParentShape
      <4> QED BY <3>2, <4>1 DEF Enclosing, TypedDirs
    <3> QED BY <3>1, <3>2
  <2>4. Enclosing(p) \in F \cup {Root} /\ dirs[p].title \in 1..NT
    BY <2>2, <2>3 DEF Known, Active, DirInfo
  <2>5. row \in Row /\ row # None
    BY <2>4, RowIsSomething
  <2> QED BY <2>1, <2>2, <2>3, <2>5
<1>2. LocalF(f) = IF DirOf(f) = {} THEN None ELSE row
  BY DEF LocalF
<1> HIDE DEF p, row
<1> QED BY <1>1, <1>2 DEF p

LEMMA StatusOfFolder ==
    ASSUME NEW f \in F
    PROVE  /\ FolderStatus(f) \in {"remote modified", "local modified", "identical"} =>
                LocalF(f) # None
           /\ FolderStatus(f) \in {"remote modified", "local modified"} => baseF[f] # None
           /\ FolderStatus(f) = "remote new" => LocalF(f) = None /\ baseF[f] = None
BY DEF FolderStatus

LEMMA PlaceShape ==
    ASSUME TypedDirs, TypedFiles, NEW n, PlaceOf(n) # <<>>
    PROVE  PlaceOf(n) \in DOMAIN dirs /\ PlaceOf(n) \in Paths /\ dirs[PlaceOf(n)].id \in Known
<1> DEFINE places == {x.dir : x \in {y \in files : y.n = n /\ Entered(y.dir)}}
           first == First(places)
<1>1. PlaceOf(n) = IF first = {} THEN <<>> ELSE CHOOSE p \in first : TRUE
  BY DEF PlaceOf
<1>2. first # {} => (CHOOSE p \in first : TRUE) \in first
  OBVIOUS
<1>3. first \subseteq places
  BY DEF First
<1>4. places \subseteq DOMAIN dirs
  BY DEF TypedFiles
<1> HIDE DEF first
<1> QED BY <1>1, <1>2, <1>3, <1>4 DEF TypedDirs, Tree

LEMMA StatusOfNote ==
    ASSUME NEW n \in N
    PROVE  /\ NoteStatus(n) \in {"unchanged", "remote moved", "local moved"} =>
                PlaceOf(n) # <<>> /\ notes[n] # None
           /\ NoteStatus(n) \in {"remote new", "identical"} => notes[n] # None
BY DEF NoteStatus, LocalParent

LEMMA TargetShape ==
    ASSUME Forest(remote), TypedNotes, NEW n \in N, notes[n] # None
    PROVE  Target(n) = <<>> \/ Target(n) \in Paths
<1>1. notes[n] = Root \/ (notes[n] \in F /\ remote[notes[n]] # None)
  BY DEF TypedNotes, Known, Active
<1> QED BY <1>1, PathsOfNotebooks DEF Target

LEMMA PlanTyped ==
    ASSUME Forest(remote), TypedNotes, TypedDirs, TypedFiles,
           NEW pull \in BOOLEAN, NEW push \in BOOLEAN, NEW o \in Plan(pull, push)
    PROVE  TypedOp(o, Known)
<1>1. \A f \in F : remote[f] # None =>
        RemotePath[f] \in Paths /\ remote[f] \in Row /\ f \in Known \ {Root}
  <2>1. \A f \in F : f # Root
    BY Bounds DEF F, Root
  <2> QED BY <2>1, PathsOfNotebooks DEF Forest, Known, Active
<1>2. CASE o \in PullDirs
  <2>1. CASE \E f \in FoldersWith("remote new") :
               o = Op("create dir", f, <<>>, RemotePath[f], remote[f])
    <3>1. PICK f \in F : /\ remote[f] # None
                         /\ o = Op("create dir", f, <<>>, RemotePath[f], remote[f])
      BY <2>1 DEF FoldersWith, Active
    <3> QED BY <1>1, <3>1 DEF TypedOp, Op
  <2>2. CASE \E f \in FoldersWith("remote modified") :
               o = Op("update dir", f, PathOfLocal(f), RemotePath[f], remote[f])
    <3>1. PICK f \in F : /\ remote[f] # None /\ FolderStatus(f) = "remote modified"
                         /\ o = Op("update dir", f, PathOfLocal(f), RemotePath[f], remote[f])
      BY <2>2 DEF FoldersWith, Active
    <3>2. PathOfLocal(f) \in Paths
      BY <3>1, StatusOfFolder, LocalShape
    <3> QED BY <1>1, <3>1, <3>2 DEF TypedOp, Op
  <2> QED BY <1>2, <2>1, <2>2 DEF PullDirs
<1>3. CASE o \in PushFolders
  <2>1. CASE \E p \in Candidates :
               o = Op("create folder", 0, p, p, [title |-> p[Len(p)][1], parent |-> None])
    <3>1. PICK p \in DOMAIN dirs :
               o = Op("create folder", 0, p, p, [title |-> p[Len(p)][1], parent |-> None])
      BY <2>1 DEF Candidates
    <3>2. p \in Paths /\ p[Len(p)][1] \in 1..NT
      <4>1. p \in Paths
        BY DEF TypedDirs, Tree
      <4>2. Len(p) \in 1..Len(p) /\ p \in Seq(Component)
        BY <4>1, PathShape DEF Paths
      <4>3. p[Len(p)] \in Component
        BY <4>2
      <4> QED BY <4>1, <4>3 DEF Component
    <3> QED BY <3>1, <3>2 DEF TypedOp, Op
  <2>2. CASE \E f \in FoldersWith("local modified") :
               o = Op("update folder", f, PathOfLocal(f), PathOfLocal(f), LocalF(f))
    <3>1. PICK f \in F : /\ remote[f] # None /\ FolderStatus(f) = "local modified"
               /\ o = Op("update folder", f, PathOfLocal(f), PathOfLocal(f), LocalF(f))
      BY <2>2 DEF FoldersWith, Active
    <3>2. LocalF(f) \in Row /\ LocalF(f).parent \in Known
      BY <3>1, StatusOfFolder, LocalShape
    <3> QED BY <1>1, <3>1, <3>2 DEF TypedOp, Op
  <2> QED BY <1>3, <2>1, <2>2 DEF PushFolders
<1>4. CASE o \in Adoptions
  <2>1. PICK f \in FoldersWith("identical") :
          o = Op("adopt", f, PathOfLocal(f), PathOfLocal(f), LocalF(f))
    BY <1>4 DEF Adoptions
  <2> QED BY <1>1, <2>1 DEF TypedOp, Op, FoldersWith, Active
<1>5. CASE \E n \in N : o \in NoteOps(n, pull, push)
  <2>1. PICK n \in N : o \in NoteOps(n, pull, push)
    BY <1>5
  <2> DEFINE is(kind, status) == NoteStatus(n) = status /\ o = Op(kind, n, PlaceOf(n), Target(n), notes[n])
  <2>2. \/ is("normalize", "unchanged") /\ Target(n) # <<>>
        \/ /\ NoteStatus(n) = "remote moved"
           /\ \E b : o = Op("update file", n, PlaceOf(n), b, notes[n])
        \/ is("create file", "remote new")
        \/ NoteStatus(n) = "local moved" /\ o = Op("update note", n, PlaceOf(n), <<>>, LocalParent(n))
        \/ is("adopt note", "identical")
    BY <2>1 DEF NoteOps
  <2>3. NoteStatus(n) = "local moved" => LocalParent(n) \in Known
    BY StatusOfNote, PlaceShape DEF LocalParent
  <2>4. NoteStatus(n) = "unchanged" /\ Target(n) # <<>> => Target(n) \in Paths
    BY StatusOfNote, TargetShape
  <2>5. CASE is("normalize", "unchanged") /\ Target(n) # <<>>
    BY <2>4, <2>5 DEF TypedOp, Op
  <2>6. CASE \E b : o = Op("update file", n, PlaceOf(n), b, notes[n])
    <3>1. PICK b : o = Op("update file", n, PlaceOf(n), b, notes[n])
      BY <2>6
    <3> QED BY <3>1 DEF TypedOp, Op
  <2>7. CASE is("create file", "remote new")
    BY <2>7 DEF TypedOp, Op
  <2>8. CASE NoteStatus(n) = "local moved" /\ o = Op("update note", n, PlaceOf(n), <<>>, LocalParent(n))
    BY <2>3, <2>8 DEF TypedOp, Op
  <2>9. CASE is("adopt note", "identical")
    BY <2>9 DEF TypedOp, Op
  <2> QED BY <2>2, <2>5, <2>6, <2>7, <2>8, <2>9
<1>6. CASE \E p \in Drafts : o = Op("create note", Draft, p, p, dirs[p].id)
  <2>1. PICK p \in Drafts : o = Op("create note", Draft, p, p, dirs[p].id)
    BY <1>6
  <2> QED BY <2>1 DEF TypedOp, Op
<1>7. \/ o \in PullDirs \/ o \in PushFolders \/ o \in Adoptions
      \/ o \in UNION {NoteOps(n, pull, push) : n \in N}
      \/ \E p \in Drafts : o = Op("create note", Draft, p, p, dirs[p].id)
  <2> DEFINE A == UNION {NoteOps(n, pull, push) : n \in N}
             D == {Op("create note", Draft, p, p, dirs[p].id) : p \in Drafts}
  <2>1. Plan(pull, push) =
          (IF pull THEN PullDirs ELSE {}) \cup (IF push THEN PushFolders ELSE {}) \cup Adoptions
          \cup A \cup (IF push THEN D ELSE {})
    BY DEF Plan
  <2>2. o \in D => \E p \in Drafts : o = Op("create note", Draft, p, p, dirs[p].id)
    OBVIOUS
  <2> HIDE DEF A, D
  <2> QED BY <2>1, <2>2 DEF A
<1>8. o \in UNION {NoteOps(n, pull, push) : n \in N} => \E n \in N : o \in NoteOps(n, pull, push)
  OBVIOUS
<1> QED BY <1>2, <1>3, <1>4, <1>5, <1>6, <1>7, <1>8
----------------------------------------------------------------------------
(* Who writes what.                                                           *)
Told == \E f \in F, t \in 1..NT, p \in F \cup {Root} : JoplinNotebook(f, t, p)
Filed == \E n \in N, f \in F : JoplinNote(n, f)
Made == \E p \in Places : NewDir(p)
Titled == \E p \in DOMAIN dirs, t \in 1..NT : Retitle(p, t)
Shifting == \E p \in DOMAIN dirs, q \in Places : MoveDir(p, q)
Carried == \E x \in files, p \in DOMAIN dirs : MoveFile(x, p)
Drafted == \E p \in DOMAIN dirs : NewDraft(p)
Started == \E pull, push \in BOOLEAN : Start(pull, push)

LEMMA NextIs ==
    ASSUME Next
    PROVE  \/ Started \/ Handler \/ Refused \/ Crash
           \/ Told \/ Filed \/ Made \/ Titled \/ Shifting \/ Carried \/ Drafted
<1>1. TRUE \in BOOLEAN /\ FALSE \in BOOLEAN
  OBVIOUS
<1>2. Start(TRUE, FALSE) \/ Start(FALSE, TRUE) \/ Start(TRUE, TRUE) => Started
  BY <1>1 DEF Started
<1> QED BY <1>2, Zenon DEF Next, User, Told, Filed, Made, Titled, Shifting, Carried, Drafted

LEMMA WhoWritesRemote ==
    ASSUME Next
    PROVE  UNCHANGED remote \/ CreateFolder \/ UpdateFolder \/ Told
BY NextIs DEF Handler, Started, Start, MakeDir, RenameDir, WriteMeta, CommitDir, WriteNewMeta,
   CommitNewFolder, WriteNote, UnlinkOld, CommitNote, Normalize, UpdateNote, CreateNote, WriteId,
   UnlinkDraft, CommitNewNote, Refused, Crash, Filed, JoplinNote, Made, NewDir, Titled, Retitle,
   Shifting, MoveDir, Carried, MoveFile, Drafted, NewDraft

LEMMA WhoWritesNotes ==
    ASSUME Next
    PROVE  UNCHANGED notes \/ UpdateNote \/ CreateNote \/ Filed
BY NextIs DEF Handler, Started, Start, MakeDir, RenameDir, WriteMeta, CommitDir, WriteNewMeta,
   CreateFolder, UpdateFolder,
   CommitNewFolder, WriteNote, UnlinkOld, CommitNote, Normalize, WriteId,
   UnlinkDraft, CommitNewNote, Refused, Crash, Told, JoplinNotebook, Made, NewDir, Titled, Retitle,
   Shifting, MoveDir, Carried, MoveFile, Drafted, NewDraft

LEMMA WhoWritesDirs ==
    ASSUME Next
    PROVE  UNCHANGED dirs \/ MakeDir \/ RenameDir \/ WriteMeta \/ WriteNewMeta \/ Normalize
           \/ Made \/ Titled \/ Shifting
BY NextIs DEF Handler, Started, Start, CommitDir,
   CreateFolder, UpdateFolder,
   CommitNewFolder, WriteNote, UnlinkOld, CommitNote, UpdateNote, CreateNote, WriteId,
   UnlinkDraft, CommitNewNote, Refused, Crash, Told, JoplinNotebook, Filed, JoplinNote,
   Carried, MoveFile, Drafted, NewDraft

LEMMA WhoWritesFiles ==
    ASSUME Next
    PROVE  UNCHANGED files \/ RenameDir \/ WriteNote \/ UnlinkOld \/ Normalize \/ WriteId
           \/ UnlinkDraft \/ Shifting \/ Carried \/ Drafted
BY NextIs DEF Handler, Started, Start, MakeDir, WriteMeta, CommitDir, WriteNewMeta,
   CreateFolder, UpdateFolder,
   CommitNewFolder, CommitNote, UpdateNote, CreateNote,
   CommitNewNote, Refused, Crash, Told, JoplinNotebook, Filed, JoplinNote,
   Made, NewDir, Titled, Retitle

----------------------------------------------------------------------------
(* Steps: notebooks, which only grow in number, and notes.                    *)
LEMMA Resolved ==
    ASSUME Typed, NEW p
    PROVE  ResolveFolder(p) \in Known
<1>1. CreatedHere(p) # {} => (CHOOSE i \in CreatedHere(p) : TRUE) \in DOMAIN run.created
  BY DEF CreatedHere
<1> QED BY <1>1 DEF ResolveFolder, Known, Typed, TypedRun

LEMMA ForestStep ==
    ASSUME Typed, Next
    PROVE  Forest(remote)' /\ Known \subseteq Known'
<1> DEFINE row(t, p) == [title |-> t, parent |-> p]
<1>1. Forest(remote) /\ remote \in [F -> {None} \cup Row]
  BY DEF Typed, Forest
<1>2. ASSUME NEW f \in F, NEW t \in 1..NT, NEW p \in F \cup {Root},
             p = Root \/ remote[p] # None, NoCycle(f, p) \/ remote[f] = None,
             remote' = [remote EXCEPT ![f] = row(t, p)]
      PROVE  Forest(remote)' /\ Known \subseteq Known'
  <2>1. NoCycle(f, p)
    <3> SUFFICES ASSUME remote[f] = None PROVE NoCycle(f, p)
      BY <1>2
    <3>1. Active \in SUBSET (F \ {f}) /\ p \in Active \cup {Root}
      BY <1>2 DEF Active
    <3>2. \A g \in Active : remote[g] # None => remote[g].parent \in Active \cup {Root}
      BY <1>1 DEF Active, Forest, Row
    <3> QED BY <3>1, <3>2 DEF NoCycle
  <2>2. Forest([remote EXCEPT ![f] = row(t, p)])
    BY <1>1, <1>2, <2>1, Reparent
  <2>3. row(t, p) # None
    BY <1>2, RowIsSomething
  <2>4. \A g \in F : remote[g] # None => remote'[g] # None
    BY <1>1, <1>2, <2>3
  <2> QED BY <1>2, <2>2, <2>4 DEF Known, Active
<1>3. CASE UNCHANGED remote
  BY <1>1, <1>3 DEF Forest, Above, Known, Active
<1>4. CASE CreateFolder
  <2> DEFINE parent == IF Len(old) = 1 THEN Root ELSE ResolveFolder(Parent(old))
             f == CHOOSE g \in Unused : \A h \in Unused : g <= h
  <2>1. At("create folder", "ask")
    BY <1>4 DEF CreateFolder
  <2>2. \/ UNCHANGED remote
        \/ Unused # {} /\ remote' = [remote EXCEPT ![f] = row(op.saw.title, parent)]
    BY <1>4 DEF CreateFolder
  <2>3. CASE Unused # {} /\ remote' = [remote EXCEPT ![f] = row(op.saw.title, parent)]
    <3>1. f \in Unused
      <4>1. Unused \subseteq Nat
        BY Bounds DEF Unused, F
      <4>2. \E g \in Unused : \A h \in Unused : g <= h
        BY <2>3, <4>1, Least
      <4> QED BY <4>2
    <3>2. f \in F /\ remote[f] = None
      BY <3>1 DEF Unused
    <3>3. op.saw.title \in 1..NT
      BY <2>1, OpIs DEF Typed, TypedRun, TypedOp, At
    <3>4. parent \in Known
      <4>1. ResolveFolder(Parent(old)) \in Known
        BY Resolved
      <4> QED BY <4>1 DEF Known
    <3> HIDE DEF f, parent
    <3>5. parent \in F \cup {Root} /\ (parent = Root \/ remote[parent] # None)
      BY <3>4 DEF Known, Active
    <3> QED BY <1>2, <2>3, <3>2, <3>3, <3>5
  <2> QED BY <1>3, <2>2, <2>3
<1>5. CASE UpdateFolder
  <2>1. At("update folder", "ask")
    BY <1>5 DEF UpdateFolder
  <2>2. \/ UNCHANGED remote
        \/ NoCycle(op.id, op.saw.parent) /\ remote' = [remote EXCEPT ![op.id] = op.saw]
    BY <1>5 DEF UpdateFolder
  <2>3. CASE NoCycle(op.id, op.saw.parent) /\ remote' = [remote EXCEPT ![op.id] = op.saw]
    <3>1. op.id \in Known \ {Root} /\ op.saw \in Row /\ op.saw.parent \in Known
      BY <2>1, OpIs DEF Typed, TypedRun, TypedOp, At
    <3>2. op.saw = row(op.saw.title, op.saw.parent) /\ op.saw.title \in 1..NT
      BY <3>1 DEF Row
    <3>3. /\ op.id \in F /\ op.saw.parent \in F \cup {Root}
          /\ op.saw.parent = Root \/ remote[op.saw.parent] # None
      BY <3>1 DEF Known, Active
    <3> QED BY <1>2, <2>3, <3>2, <3>3
  <2> QED BY <1>3, <2>2, <2>3
<1>6. CASE Told
  <2>1. PICK f \in F, t \in 1..NT, p \in F \cup {Root} : JoplinNotebook(f, t, p)
    BY <1>6 DEF Told
  <2> QED BY <1>2, <2>1 DEF JoplinNotebook, Active
<1> QED BY <1>3, <1>4, <1>5, <1>6, WhoWritesRemote

LEMMA NotesStep ==
    ASSUME Typed, Next
    PROVE  TypedNotes'
<1>1. Known \subseteq Known' /\ notes \in [N -> Known \cup {None}]
  BY ForestStep DEF Typed, TypedNotes
<1>2. ASSUME NEW n \in N, NEW f \in Known, notes' = [notes EXCEPT ![n] = f]
      PROVE  TypedNotes'
  BY <1>1, <1>2 DEF TypedNotes
<1>3. CASE UNCHANGED notes
  BY <1>1, <1>3 DEF TypedNotes
<1>4. CASE UpdateNote
  <2>1. At("update note", "ask")
    BY <1>4 DEF UpdateNote
  <2>2. op.id \in N /\ op.saw \in Known /\ ResolveFolder(old) \in Known
    BY <2>1, OpIs, Resolved DEF Typed, TypedRun, TypedOp, At
  <2> DEFINE f == IF ResolveFolder(old) # Root THEN ResolveFolder(old) ELSE op.saw
  <2>3. UNCHANGED notes \/ notes' = [notes EXCEPT ![op.id] = f]
    BY <1>4 DEF UpdateNote
  <2>4. f \in Known
    BY <2>2
  <2> HIDE DEF f
  <2> QED BY <1>2, <1>3, <2>2, <2>3, <2>4
<1>5. CASE CreateNote
  <2> DEFINE n == CHOOSE m \in NewNotes : \A k \in NewNotes : m <= k
  <2>1. UNCHANGED notes \/ (NewNotes # {} /\ notes' = [notes EXCEPT ![n] = ResolveFolder(old)])
    BY <1>5 DEF CreateNote
  <2>2. CASE NewNotes # {} /\ notes' = [notes EXCEPT ![n] = ResolveFolder(old)]
    <3>1. NewNotes \subseteq Nat
      BY Bounds DEF NewNotes, N
    <3>2. \E m \in NewNotes : \A k \in NewNotes : m <= k
      BY <2>2, <3>1, Least
    <3>3. n \in N
      BY <3>2 DEF NewNotes
    <3>4. ResolveFolder(old) \in Known
      BY Resolved
    <3> HIDE DEF n
    <3> QED BY <1>2, <2>2, <3>3, <3>4
  <2> QED BY <1>3, <2>1, <2>2
<1>6. CASE Filed
  BY <1>2, <1>6 DEF Filed, JoplinNote, Known
<1> QED BY <1>3, <1>4, <1>5, <1>6, WhoWritesNotes
----------------------------------------------------------------------------
(* Steps: directories and the files in them.                                  *)
LEMMA OldAndNew ==
    ASSUME Typed, Running
    PROVE  /\ op \in run.plan /\ TypedOp(op, Known)
           /\ op.old \in Paths => old \in Paths
           /\ op.new \in Paths => new \in Paths
BY OpIs DEF Typed, TypedRun, old, new, CurrentPath

LEMMA Extended ==
    ASSUME NEW p \in Paths, NEW c \in Component
    PROVE  p \o <<c>> \in Paths /\ Proper(p \o <<c>>) = Proper(p) \cup {p}
<1> DEFINE q == p \o <<c>>
<1>1. p \in Seq(Component) /\ Len(p) \in Nat /\ Len(p) >= 1
  BY PathShape
<1>2. <<c>> \in Seq(Component) /\ Len(<<c>>) = 1
  OBVIOUS
<1>3. /\ q \in Seq(Component) /\ Len(q) = Len(p) + 1
      /\ \A i \in 1..Len(p) + 1 : q[i] = IF i <= Len(p) THEN p[i] ELSE <<c>>[i - Len(p)]
  BY <1>1, <1>2, ConcatProperties
<1> HIDE DEF q
<1>4. q \in Paths /\ Len(q) # 1
  BY <1>1, <1>3, EmptySeq DEF Paths
<1>5. Parent(q) \in Paths /\ Len(Parent(q)) = Len(p)
  BY <1>1, <1>3, <1>4, ParentShape
<1>6. \A i \in 1..Len(p) : Parent(q)[i] = p[i]
  <2>1. Len(p) \in 1..Len(q) /\ Len(q) - 1 = Len(p)
    BY <1>1, <1>3
  <2>2. \A i \in 1..Len(p) : SubSeq(q, 1, Len(p))[i] = q[i]
    BY <1>4, <2>1, Initial
  <2> QED BY <1>1, <1>3, <2>1, <2>2 DEF Parent
<1>7. Parent(q) = p
  BY <1>5, <1>6, PathEqual
<1> QED BY <1>4, <1>7, ParentShape DEF q

LEMMA PlacesShape ==
    ASSUME TypedDirs, NEW q \in Places
    PROVE  q \in Paths /\ Proper(q) \subseteq DOMAIN dirs
<1>1. \A t \in 1..NT : Plain(t) \in Component
  BY Bounds DEF Plain, Component
<1>2. CASE \E t \in 1..NT : q = <<Plain(t)>>
  <2>1. PICK c \in Component : q = <<c>>
    BY <1>1, <1>2
  <2>2. q \in Paths /\ Len(q) = 1
    BY <2>1 DEF Paths
  <2>3. Proper(q) = {}
    BY <2>2 DEF Proper
  <2> QED BY <2>2, <2>3
<1>3. CASE \E p \in DOMAIN dirs, t \in 1..NT : q = p \o <<Plain(t)>>
  <2>1. PICK p \in DOMAIN dirs, c \in Component : q = p \o <<c>>
    BY <1>1, <1>3
  <2>2. p \in Paths /\ Proper(p) \subseteq DOMAIN dirs
    BY DEF TypedDirs, Tree
  <2> QED BY <2>1, <2>2, Extended
<1> QED BY <1>2, <1>3 DEF Places

LEMMA MovedFiles ==
    ASSUME NEW d, NEW from, NEW to, Movable(d, from, to),
           TypedFiles, DOMAIN dirs \subseteq DOMAIN d,
           \A p \in DOMAIN d : d[p].id \in Known, Known \subseteq Known',
           dirs' = MoveTree(d, from, to),
           files' = {[x EXCEPT !.dir = Moved(@, from, to)] : x \in files}
    PROVE  TypedDirs' /\ TypedFiles'
<1>1. /\ Tree(dirs')
      /\ DOMAIN dirs' = {Moved(p, from, to) : p \in DOMAIN d}
      /\ \A p \in DOMAIN d : dirs'[Moved(p, from, to)] = d[p]
  <2>1. Carries(MoveTree(d, from, to), d, from, to)
    BY MoveTreeTree, Zenon
  <2> QED BY <2>1 DEF Carries
<1>2. TypedDirs'
  BY <1>1 DEF TypedDirs, Tree
<1>3. ASSUME NEW x \in files
      PROVE  [x EXCEPT !.dir = Moved(@, from, to)] \in [n : N \cup {Draft}, dir : DOMAIN dirs']
  <2>1. x \in [n : N \cup {Draft}, dir : DOMAIN dirs] /\ x.dir \in DOMAIN d
    BY DEF TypedFiles
  <2>2. Moved(x.dir, from, to) \in DOMAIN dirs'
    BY <1>1, <2>1
  <2> QED BY <2>1, <2>2
<1>4. TypedFiles'
  BY <1>3 DEF TypedFiles
<1> QED BY <1>2, <1>4

LEMMA GrownTree ==
    ASSUME TypedDirs, Known \subseteq Known', Tree(dirs'), DOMAIN dirs \subseteq DOMAIN dirs',
           \A q \in DOMAIN dirs : dirs'[q].id \in Known',
           \A q \in DOMAIN dirs' \ DOMAIN dirs : dirs'[q].id = 0
    PROVE  TypedDirs'
<1>1. 0 \in Known'
  BY DEF Known, Root
<1> QED BY <1>1 DEF TypedDirs, Tree

LEMMA DirsStep ==
    ASSUME Typed, Next
    PROVE  /\ TypedDirs'
           /\ RenameDir \/ Shifting => TypedFiles'
           /\ RenameDir \/ Shifting \/ DOMAIN dirs \subseteq DOMAIN dirs'
<1>1. Known \subseteq Known'
  BY ForestStep
<1>2. TypedDirs /\ TypedFiles /\ Tree(dirs) /\ \A q \in DOMAIN dirs : dirs[q].id \in Known
  BY DEF Typed, TypedDirs
<1>3. ASSUME UNCHANGED dirs PROVE TypedDirs' /\ DOMAIN dirs \subseteq DOMAIN dirs'
  BY <1>1, <1>2, <1>3 DEF TypedDirs, Tree
<1>4. ASSUME NEW p \in Paths, dirs' = WithDir(dirs, p) \/ dirs' = WithParents(dirs, p)
      PROVE  TypedDirs' /\ DOMAIN dirs \subseteq DOMAIN dirs'
  <2>1. CASE dirs' = WithDir(dirs, p)
    <3> DEFINE e == WithDir(dirs, p)
    <3>1. /\ Tree(e) /\ DOMAIN dirs \subseteq DOMAIN e
          /\ \A q \in DOMAIN dirs : e[q] = dirs[q]
          /\ \A q \in DOMAIN e \ DOMAIN dirs : e[q].id = 0
      BY <1>2, WithDirTree
    <3> HIDE DEF e
    <3> QED BY <1>1, <1>2, <2>1, <3>1, GrownTree DEF e
  <2>2. CASE dirs' = WithParents(dirs, p)
    <3> DEFINE e == WithParents(dirs, p)
    <3>1. /\ Tree(e) /\ DOMAIN dirs \subseteq DOMAIN e
          /\ \A q \in DOMAIN dirs : e[q] = dirs[q]
          /\ \A q \in DOMAIN e \ DOMAIN dirs : e[q].id = 0
      BY <1>2, WithParentsTree
    <3> HIDE DEF e
    <3> QED BY <1>1, <1>2, <2>2, <3>1, GrownTree DEF e
  <2> QED BY <1>4, <2>1, <2>2
<1>5. ASSUME NEW p, NEW f \in Known, NEW t \in 1..NT, dirs' = WithMeta(dirs, p, f, t)
      PROVE  TypedDirs' /\ DOMAIN dirs \subseteq DOMAIN dirs'
  <2>1. f \in 0..NF
    BY Bounds DEF Known, Active, F, Root
  <2>2. /\ Tree(dirs') /\ DOMAIN dirs' = DOMAIN dirs
        /\ \A q \in DOMAIN dirs : dirs'[q] = IF q = p THEN [id |-> f, title |-> t] ELSE dirs[q]
    BY <1>2, <1>5, <2>1, WithMetaTree
  <2>3. \A q \in DOMAIN dirs : dirs'[q].id \in Known'
    BY <1>1, <1>2, <2>2
  <2> QED BY <1>1, <1>2, <2>2, <2>3, GrownTree
<1>6. ASSUME MakeDir PROVE TypedDirs' /\ DOMAIN dirs \subseteq DOMAIN dirs'
  <2>1. op.new \in Paths
    BY <1>6, OldAndNew DEF MakeDir, At, TypedOp
  <2> QED BY <1>4, <1>6, <2>1 DEF MakeDir
<1>7. ASSUME RenameDir PROVE TypedDirs' /\ TypedFiles'
  <2>1. old \in Paths /\ op.new \in Paths
    BY <1>7, OldAndNew DEF RenameDir, At, TypedOp
  <2> DEFINE d == WithParents(dirs, op.new)
  <2>2. \/ UNCHANGED files /\ (UNCHANGED dirs \/ dirs' = d)
        \/ /\ op.new \notin DOMAIN dirs /\ old \in DOMAIN dirs /\ ~IsPrefix(old, op.new)
           /\ dirs' = MoveTree(d, old, op.new)
           /\ files' = {[x EXCEPT !.dir = Moved(@, old, op.new)] : x \in files}
    BY <1>7 DEF RenameDir
  <2>5. CASE UNCHANGED files /\ (UNCHANGED dirs \/ dirs' = d)
    <3>1. TypedDirs' /\ DOMAIN dirs \subseteq DOMAIN dirs'
      BY <1>3, <1>4, <2>1, <2>5
    <3> QED BY <1>2, <2>5, <3>1 DEF TypedFiles
  <2>3. CASE /\ op.new \notin DOMAIN dirs /\ old \in DOMAIN dirs /\ ~IsPrefix(old, op.new)
             /\ dirs' = MoveTree(d, old, op.new)
             /\ files' = {[x EXCEPT !.dir = Moved(@, old, op.new)] : x \in files}
    <3>1. /\ Tree(d) /\ DOMAIN d = DOMAIN dirs \cup Proper(op.new)
          /\ \A q \in DOMAIN dirs : d[q] = dirs[q]
          /\ \A q \in DOMAIN d \ DOMAIN dirs : d[q].id = 0
      BY <1>2, <2>1, WithParentsTree
    <3> HIDE DEF d
    <3>2. op.new \notin DOMAIN d
      BY <2>1, <2>3, <3>1, ProperPaths
    <3>3. Movable(d, old, op.new)
      BY <2>1, <2>3, <3>1, <3>2 DEF Movable
    <3>4. \A q \in DOMAIN d : d[q].id \in Known
      BY <1>2, <3>1 DEF Known, Root
    <3>5. DOMAIN dirs \subseteq DOMAIN d
      BY <3>1
    <3> QED BY <1>1, <1>2, <2>3, <3>3, <3>4, <3>5, MovedFiles
  <2> QED BY <2>2, <2>3, <2>5
<1>8. ASSUME WriteMeta PROVE TypedDirs' /\ DOMAIN dirs \subseteq DOMAIN dirs'
  <2>1. op.id \in Known /\ op.saw.title \in 1..NT
    BY <1>8, OldAndNew DEF WriteMeta, At, TypedOp, Row
  <2> QED BY <1>5, <1>8, <2>1 DEF WriteMeta
<1>9. ASSUME WriteNewMeta PROVE TypedDirs' /\ DOMAIN dirs \subseteq DOMAIN dirs'
  <2>1. run.id \in Known /\ run.id \in 0..NF /\ op.saw.title \in 1..NT /\ old \in Paths
    <3>1. run.id \in Active /\ op.saw.title \in 1..NT /\ old \in Paths
      BY <1>9, OldAndNew DEF WriteNewMeta, At, TypedOp, Typed, TypedPhase
    <3> QED BY <3>1, Bounds DEF Known, Active, F
  <2> DEFINE d == WithDir(dirs, old)
             e == WithMeta(d, old, run.id, op.saw.title)
  <2>2. /\ Tree(d) /\ DOMAIN dirs \subseteq DOMAIN d
        /\ \A q \in DOMAIN dirs : d[q] = dirs[q]
        /\ \A q \in DOMAIN d \ DOMAIN dirs : d[q].id = 0
    BY <1>2, <2>1, WithDirTree
  <2>3. dirs' = e
    BY <1>9 DEF WriteNewMeta
  <2> HIDE DEF d
  <2>4. /\ Tree(e) /\ DOMAIN e = DOMAIN d
        /\ \A q \in DOMAIN d :
             e[q] = IF q = old THEN [id |-> run.id, title |-> op.saw.title] ELSE d[q]
    BY <2>1, <2>2, WithMetaTree
  <2> HIDE DEF e
  <2>5. \A q \in DOMAIN d : e[q].id \in {d[q].id, run.id}
    BY <2>4
  <2>6. \A q \in DOMAIN e : e[q].id \in Known'
    BY <1>1, <1>2, <2>1, <2>2, <2>4, <2>5 DEF Known, Root
  <2> QED BY <2>2, <2>3, <2>4, <2>6 DEF TypedDirs
<1>10. ASSUME Normalize PROVE TypedDirs' /\ DOMAIN dirs \subseteq DOMAIN dirs'
  <2>1. new \in Paths
    BY <1>10, OldAndNew DEF Normalize, At, TypedOp
  <2> QED BY <1>3, <1>4, <1>10, <2>1 DEF Normalize
<1>11. ASSUME Made PROVE TypedDirs' /\ DOMAIN dirs \subseteq DOMAIN dirs'
  <2>1. PICK p \in Places : NewDir(p)
    BY <1>11 DEF Made
  <2> QED BY <1>2, <1>4, <2>1, PlacesShape DEF NewDir
<1>12. ASSUME Titled PROVE TypedDirs' /\ DOMAIN dirs \subseteq DOMAIN dirs'
  <2>1. PICK p \in DOMAIN dirs, t \in 1..NT : dirs' = [dirs EXCEPT ![p].title = t]
    BY <1>12 DEF Titled, Retitle
  <2>2. DOMAIN dirs' = DOMAIN dirs
    BY <2>1
  <2>3. \A q \in DOMAIN dirs : dirs[q] \in DirInfo /\ dirs'[q] = IF q = p THEN [dirs[q] EXCEPT !.title = t] ELSE dirs[q]
    BY <1>2, <2>1 DEF Tree
  <2>4. \A q \in DOMAIN dirs : dirs'[q] \in DirInfo /\ dirs'[q].id = dirs[q].id
    BY <2>3 DEF DirInfo
  <2>5. dirs' = [q \in DOMAIN dirs' |-> dirs'[q]]
    BY <1>2, <2>1 DEF Tree
  <2>6. Tree(dirs')
    BY <1>2, <2>2, <2>4, <2>5 DEF Tree
  <2> QED BY <1>1, <1>2, <2>2, <2>4, <2>6 DEF TypedDirs
<1>13. ASSUME Shifting PROVE TypedDirs' /\ TypedFiles'
  <2>1. PICK p \in DOMAIN dirs, q \in Places : MoveDir(p, q)
    BY <1>13 DEF Shifting
  <2>2. Movable(dirs, p, q)
    BY <1>2, <2>1, PlacesShape DEF MoveDir, Movable
  <2> QED BY <1>1, <1>2, <2>1, <2>2, MovedFiles DEF MoveDir
<1>14. ASSUME ~RenameDir, ~Shifting PROVE TypedDirs' /\ DOMAIN dirs \subseteq DOMAIN dirs'
  BY <1>3, <1>6, <1>8, <1>9, <1>10, <1>11, <1>12, <1>14, WhoWritesDirs
<1> QED BY <1>7, <1>13, <1>14

LEMMA FilesStep ==
    ASSUME Typed, Next
    PROVE  TypedFiles'
<1> SUFFICES ASSUME ~RenameDir, ~Shifting, DOMAIN dirs \subseteq DOMAIN dirs' PROVE TypedFiles'
  BY DirsStep
<1>1. files \subseteq [n : N \cup {Draft}, dir : DOMAIN dirs']
  BY DEF Typed, TypedFiles
<1>2. ASSUME NEW n \in N \cup {Draft}, NEW p \in DOMAIN dirs', NEW S,
             S \subseteq files, files' = S \cup {File(n, p)}
      PROVE  TypedFiles'
  BY <1>1, <1>2 DEF TypedFiles, File
<1>3. CASE files' \subseteq files
  BY <1>1, <1>3 DEF TypedFiles
<1>4. CASE WriteNote
  <2>1. At("create file", "ask") \/ At("update file", "ask")
    BY <1>4 DEF WriteNote
  <2>2. op.id \in N
    BY <2>1, OldAndNew DEF At, TypedOp
  <2>3. files' = files \/ (new \in DOMAIN dirs' /\ files' = files \cup {File(op.id, new)})
    BY <1>4 DEF WriteNote
  <2> QED BY <1>2, <1>3, <2>2, <2>3
<1>5. CASE UnlinkOld \/ UnlinkDraft
  BY <1>3, <1>5 DEF UnlinkOld, UnlinkDraft
<1>6. CASE Normalize
  <2>1. op.id \in N /\ new \in Paths
    BY <1>6, OldAndNew DEF Normalize, At, TypedOp
  <2>2. \/ files' = files
        \/ /\ dirs' = WithDir(dirs, new)
           /\ files' = (files \ {File(op.id, old)}) \cup {File(op.id, new)}
    BY <1>6 DEF Normalize
  <2>3. CASE /\ dirs' = WithDir(dirs, new)
             /\ files' = (files \ {File(op.id, old)}) \cup {File(op.id, new)}
    <3>1. DOMAIN WithDir(dirs, new) = DOMAIN dirs \cup Proper(new) \cup {new}
      BY <2>1, WithDirTree DEF Typed, TypedDirs
    <3>2. new \in DOMAIN dirs'
      BY <2>3, <3>1
    <3>3. files \ {File(op.id, old)} \subseteq files
      OBVIOUS
    <3> QED BY <1>2, <2>1, <2>3, <3>2, <3>3
  <2> QED BY <1>3, <2>2, <2>3
<1>7. CASE WriteId
  <2>1. File(Draft, old) \in files /\ run.id \in N
    BY <1>7 DEF WriteId, At, Typed, TypedPhase
  <2>2. old \in DOMAIN dirs'
    BY <1>1, <2>1 DEF File
  <2> QED BY <1>2, <1>7, <2>1, <2>2 DEF WriteId
<1>8. CASE Carried
  <2>1. PICK x \in files, p \in DOMAIN dirs : MoveFile(x, p)
    BY <1>8 DEF Carried
  <2>2. x.n \in N \cup {Draft} /\ p \in DOMAIN dirs' /\ files \ {x} \subseteq files
    BY <1>1, <2>1
  <2>3. files' = (files \ {x}) \cup {File(x.n, p)}
    BY <2>1 DEF MoveFile
  <2> QED BY <1>2, <2>2, <2>3
<1>9. CASE Drafted
  BY <1>2, <1>9 DEF Drafted, NewDraft
<1> QED BY <1>3, <1>4, <1>5, <1>6, <1>7, <1>8, <1>9, WhoWritesFiles
----------------------------------------------------------------------------
(* Steps: the run.                                                            *)
LEMMA RunEnds ==
    ASSUME NEW known, TypedRun(run, known), NEW good, run' = Ended(good)
    PROVE  /\ TypedRun(run', known) /\ run'.phase = "ask" /\ run'.plan = run.plan \ {op}
           /\ run'.now = run.now /\ run'.scan = run.scan /\ run'.created = run.created
<1>1. IsRun(run') /\ run'.phase = "ask" /\ run'.plan = run.plan \ {op}
      /\ run'.now = run.now /\ run'.scan = run.scan /\ run'.created = run.created
  BY DEF TypedRun, IsRun, Ended
<1> QED BY <1>1 DEF TypedRun

LEMMA RunGoes ==
    ASSUME NEW known, TypedRun(run, known), NEW phase, NEW id,
           run' = [run EXCEPT !.phase = phase] \/ run' = [run EXCEPT !.phase = phase, !.id = id]
    PROVE  /\ TypedRun(run', known) /\ run'.phase = phase
           /\ run'.plan = run.plan /\ run'.now = run.now
           /\ run'.scan = run.scan /\ run'.created = run.created
           /\ run' = [run EXCEPT !.phase = phase] => run'.id = run.id
           /\ run' = [run EXCEPT !.phase = phase, !.id = id] => run'.id = id
<1>1. /\ IsRun(run') /\ run'.phase = phase /\ run'.plan = run.plan /\ run'.now = run.now
      /\ run'.scan = run.scan /\ run'.created = run.created
      /\ run' = [run EXCEPT !.phase = phase] => run'.id = run.id
      /\ run' = [run EXCEPT !.phase = phase, !.id = id] => run'.id = id
  BY DEF TypedRun, IsRun
<1> QED BY <1>1 DEF TypedRun

LEMMA SameOp ==
    ASSUME run'.plan = run.plan
    PROVE  op' = op /\ (Running' <=> Running) /\ (run'.now = run.now => old' = old)
<1>1. op' = op
  BY DEF op, Soonest
<1> QED BY <1>1 DEF Running, Soonest, old, CurrentPath

LEMMA NoRunTyped ==
    ASSUME NEW known, run' = NoRun \/ \E x : run' = [NoRun EXCEPT !.result = x]
    PROVE  TypedRun(run', known) /\ run'.phase = "ask" /\ run'.plan = {}
<1>1. <<>> \in Seq(Paths \X F) /\ DOMAIN <<>> = {}
  OBVIOUS
<1>2. <<>> = [p \in DOMAIN <<>> |-> <<>>[p]]
  OBVIOUS
<1>3. /\ IsRun(run') /\ run'.phase = "ask" /\ run'.plan = {}
      /\ run'.now = <<>> /\ run'.scan = <<>> /\ run'.created = <<>>
  BY DEF NoRun, IsRun
<1> QED BY <1>1, <1>2, <1>3 DEF TypedRun

LEMMA StartTyped ==
    ASSUME Typed, Started
    PROVE  TypedRun(run', Known) /\ run'.phase = "ask"
<1>1. PICK pull \in BOOLEAN, push \in BOOLEAN : Start(pull, push)
  BY DEF Started
<1> DEFINE plan == Plan(pull, push)
           paths == {o.old : o \in plan} \cup {o.new : o \in plan}
           now == [p \in paths |-> p]
           scan == [p \in Visible |-> dirs[p].id]
           result == IF plan = {} THEN "ok" ELSE "none"
<1>2. run' = [NoRun EXCEPT !.plan = plan, !.pull = pull, !.push = push,
                           !.scan = scan, !.now = now, !.result = result]
  BY <1>1 DEF Start
<1>3. \A o \in plan : TypedOp(o, Known)
  BY PlanTyped DEF Typed
<1>4. /\ DOMAIN now = paths /\ now = [p \in DOMAIN now |-> now[p]]
      /\ \A p \in DOMAIN now : now[p] = p
  OBVIOUS
<1>5. \A o \in plan : o.old \in paths /\ o.new \in paths
  OBVIOUS
<1>6. \A p \in DOMAIN scan : scan[p] \in Known
  BY DEF Visible, Typed, TypedDirs
<1> HIDE DEF plan, now, scan, paths, result
<1>7. /\ IsRun(run') /\ run'.phase = "ask" /\ run'.plan = plan
      /\ run'.now = now /\ run'.scan = scan /\ run'.created = <<>>
  BY <1>2 DEF NoRun, IsRun
<1>8. <<>> \in Seq(Paths \X F) /\ DOMAIN <<>> = {}
  OBVIOUS
<1> QED BY <1>3, <1>4, <1>5, <1>6, <1>7, <1>8 DEF TypedRun

(* A phase that says nothing: nothing has begun, or no creation is at work.   *)
LEMMA QuietPhase ==
    ASSUME run'.phase = "ask" \/ (Running' => op'.kind \notin {"create folder", "create note"})
    PROVE  TypedPhase'
BY DEF TypedPhase

LEMMA RunStep ==
    ASSUME Typed, Next
    PROVE  TypedRun(run', Known') /\ TypedPhase'
<1>1. Known \subseteq Known' /\ TypedRun(run, Known)
  BY ForestStep DEF Typed
<1>2. ASSUME TypedRun(run', Known) PROVE TypedRun(run', Known')
  BY <1>1, <1>2 DEF TypedRun, TypedOp
<1> DEFINE Goal == TypedRun(run', Known) /\ TypedPhase'
<1> SUFFICES Goal
  BY <1>2
<1>3. ASSUME NEW good, run' = Ended(good) PROVE Goal
  BY <1>1, <1>3, RunEnds, QuietPhase
<1>4. ASSUME run' = NoRun \/ \E x : run' = [NoRun EXCEPT !.result = x] PROVE Goal
  BY <1>4, NoRunTyped, QuietPhase
<1>5. ASSUME NEW phase, run' = [run EXCEPT !.phase = phase],
             op.kind \notin {"create folder", "create note"}
      PROVE  Goal
  BY <1>1, <1>5, RunGoes, SameOp, QuietPhase
<1>6. CASE Started
  BY <1>6, StartTyped, QuietPhase
<1>7. CASE Crash \/ Told \/ Filed \/ Made \/ Titled \/ Shifting \/ Carried \/ Drafted
  BY <1>4, <1>7 DEF Crash, Told, JoplinNotebook, Filed, JoplinNote, Made, NewDir, Titled, Retitle,
     Shifting, MoveDir, Carried, MoveFile, Drafted, NewDraft, Edit
<1>8. CASE Refused \/ CommitDir \/ CommitNewFolder \/ CommitNote \/ CommitNewNote \/ Normalize
  BY <1>3, <1>8 DEF Refused, CommitDir, CommitNewFolder, CommitNote, CommitNewNote, Normalize,
     Done, Fail
<1>9. CASE MakeDir \/ WriteMeta
  BY <1>5, <1>9 DEF MakeDir, WriteMeta, At, Go
<1>10. CASE UpdateFolder \/ WriteNote \/ UnlinkOld \/ UpdateNote
  <2>1. op.kind \notin {"create folder", "create note"}
    BY <1>10 DEF UpdateFolder, WriteNote, UnlinkOld, UpdateNote, At
  <2>2. (\E good : run' = Ended(good)) \/ \E phase : run' = [run EXCEPT !.phase = phase]
    BY <1>10 DEF UpdateFolder, WriteNote, UnlinkOld, UpdateNote, Fail, Go
  <2> QED BY <1>3, <1>5, <2>1, <2>2
<1>11. CASE RenameDir
  <2> DEFINE now == [p \in DOMAIN run.now |-> Moved(run.now[p], old, op.new)]
  <2>1. op.kind = "update dir" /\ Running
    BY <1>11 DEF RenameDir, At
  <2>2. old \in Paths /\ op.new \in Paths
    BY <2>1, OldAndNew DEF TypedOp
  <2>3. \/ \E good : run' = Ended(good)
        \/ run' = [run EXCEPT !.phase = "meta"]
        \/ run' = [run EXCEPT !.phase = "meta", !.now = now]
    BY <1>11 DEF RenameDir, Fail, Go
  <2>4. CASE run' = [run EXCEPT !.phase = "meta", !.now = now]
    <3>1. /\ DOMAIN now = DOMAIN run.now /\ now = [p \in DOMAIN now |-> now[p]]
          /\ \A p \in DOMAIN now : now[p] = Moved(run.now[p], old, op.new)
      OBVIOUS
    <3>2. \A p \in DOMAIN now : p \in Paths => now[p] \in Paths
      BY <1>1, <2>2, <3>1, MovedPath DEF TypedRun
    <3> HIDE DEF now
    <3>3. /\ IsRun(run') /\ run'.plan = run.plan /\ run'.now = now
          /\ run'.scan = run.scan /\ run'.created = run.created
      BY <1>1, <2>4 DEF TypedRun, IsRun
    <3>4. TypedRun(run', Known)
      BY <1>1, <3>1, <3>2, <3>3 DEF TypedRun
    <3> QED BY <2>1, <3>3, <3>4, SameOp, QuietPhase
  <2> QED BY <1>3, <1>5, <2>1, <2>3, <2>4
<1>12. CASE CreateFolder
  <2> DEFINE parent == IF Len(old) = 1 THEN Root ELSE ResolveFolder(Parent(old))
             f == CHOOSE g \in Unused : \A h \in Unused : g <= h
             row == [title |-> op.saw.title, parent |-> parent]
  <2>1. op.kind = "create folder" /\ Running
    BY <1>12 DEF CreateFolder, At
  <2>2. \/ \E good : run' = Ended(good)
        \/ /\ Unused # {} /\ remote' = [remote EXCEPT ![f] = row]
           /\ run' = [run EXCEPT !.phase = "meta", !.id = f]
    BY <1>12 DEF CreateFolder, Fail
  <2>3. CASE /\ Unused # {} /\ remote' = [remote EXCEPT ![f] = row]
             /\ run' = [run EXCEPT !.phase = "meta", !.id = f]
    <3>1. Unused \subseteq Nat
      BY Bounds DEF Unused, F
    <3>2. \E g \in Unused : \A h \in Unused : g <= h
      BY <2>3, <3>1, Least
    <3>3. f \in F
      BY <3>2 DEF Unused
    <3>4. op.saw.title \in 1..NT /\ parent \in F \cup {Root}
      <4>1. op.saw.title \in 1..NT /\ ResolveFolder(Parent(old)) \in Known
        BY <2>1, OldAndNew, Resolved DEF TypedOp
      <4> QED BY <4>1 DEF Known, Active
    <3> HIDE DEF f
    <3>5. row # None
      BY <3>4, RowIsSomething
    <3>6. remote'[f] # None
      BY <2>3, <3>3, <3>5 DEF Typed, Forest
    <3>7. f \in Active'
      BY <3>3, <3>6 DEF Active
    <3> HIDE DEF row
    <3>8. /\ TypedRun(run', Known) /\ run'.phase = "meta" /\ run'.plan = run.plan /\ run'.id = f
      BY <1>1, <2>3, RunGoes
    <3>9. op' = op
      BY <3>8, SameOp
    <3> QED BY <2>1, <3>7, <3>8, <3>9 DEF TypedPhase
  <2> QED BY <1>3, <2>2, <2>3
<1>13. CASE WriteNewMeta
  <2>1. op.kind = "create folder" /\ Running /\ run.phase = "meta" /\ UNCHANGED remote
    BY <1>13 DEF WriteNewMeta, At
  <2>2. run.id \in Active /\ old \in Paths /\ Active' = Active
    BY <2>1, OldAndNew DEF Typed, TypedPhase, TypedOp, Active
  <2> DEFINE created == Append(run.created, <<old, run.id>>)
  <2>3. \/ \E good : run' = Ended(good)
        \/ run' = [run EXCEPT !.phase = "commit", !.created = created]
    BY <1>13 DEF WriteNewMeta, Fail
  <2>4. CASE run' = [run EXCEPT !.phase = "commit", !.created = created]
    <3> DEFINE e == <<old, run.id>>
    <3>1. e \in Paths \X F /\ e[2] \in Known \ {Root}
      <4>1. run.id \in F /\ run.id # Root
        BY <2>2, Bounds DEF Active, F, Root
      <4> QED BY <2>2, <4>1 DEF Known
    <3>2. created = Append(run.created, e)
      OBVIOUS
    <3> HIDE DEF e, created
    <3>3. created \in Seq(Paths \X F) /\ \A i \in DOMAIN created : created[i][2] \in Known \ {Root}
      <4>1. run.created \in Seq(Paths \X F)
            /\ \A i \in DOMAIN run.created : run.created[i][2] \in Known \ {Root}
        BY <1>1 DEF TypedRun
      <4>2. /\ created \in Seq(Paths \X F) /\ Len(created) = Len(run.created) + 1
            /\ \A i \in 1..Len(run.created) : created[i] = run.created[i]
            /\ created[Len(run.created) + 1] = e
        BY <3>1, <3>2, <4>1, AppendProperties
      <4>3. DOMAIN created = 1..Len(created) /\ DOMAIN run.created = 1..Len(run.created)
            /\ Len(run.created) \in Nat
        BY <4>1, <4>2, LenProperties
      <4>4. ASSUME NEW i \in DOMAIN created PROVE created[i][2] \in Known \ {Root}
        <5>1. i \in 1..Len(run.created) \/ i = Len(run.created) + 1
          BY <4>2, <4>3
        <5> QED BY <3>1, <4>1, <4>2, <4>3, <5>1
      <4> QED BY <4>2, <4>4
    <3>4. /\ IsRun(run') /\ run'.plan = run.plan /\ run'.now = run.now /\ run'.phase = "commit"
          /\ run'.scan = run.scan /\ run'.created = created /\ run'.id = run.id
      BY <1>1, <2>4 DEF TypedRun, IsRun
    <3>5. TypedRun(run', Known)
      BY <1>1, <3>3, <3>4 DEF TypedRun
    <3>6. op' = op
      BY <3>4, SameOp
    <3> QED BY <2>1, <2>2, <3>4, <3>5, <3>6 DEF TypedPhase
  <2> QED BY <1>3, <2>3, <2>4
<1>14. CASE CreateNote
  <2> DEFINE n == CHOOSE m \in NewNotes : \A k \in NewNotes : m <= k
  <2>1. op.kind = "create note" /\ Running /\ UNCHANGED files
    BY <1>14 DEF CreateNote, At
  <2>2. \/ \E good : run' = Ended(good)
        \/ /\ File(Draft, old) \in files /\ NewNotes # {}
           /\ run' = [run EXCEPT !.phase = "file", !.id = n]
    BY <1>14 DEF CreateNote, Fail
  <2>3. CASE /\ File(Draft, old) \in files /\ NewNotes # {}
             /\ run' = [run EXCEPT !.phase = "file", !.id = n]
    <3>1. NewNotes \subseteq Nat
      BY Bounds DEF NewNotes, N
    <3>2. \E m \in NewNotes : \A k \in NewNotes : m <= k
      BY <2>3, <3>1, Least
    <3>3. n \in N
      BY <3>2 DEF NewNotes
    <3> HIDE DEF n
    <3>4. /\ TypedRun(run', Known) /\ run'.phase = "file" /\ run'.plan = run.plan
          /\ run'.now = run.now /\ run'.id = n
      BY <1>1, <2>3, RunGoes
    <3>5. op' = op /\ old' = old
      BY <3>4, SameOp
    <3>6. File(Draft, old)' \in files'
      BY <2>1, <2>3, <3>5 DEF File, Draft
    <3> QED BY <2>1, <3>3, <3>4, <3>5, <3>6 DEF TypedPhase
  <2> QED BY <1>3, <2>2, <2>3
<1>15. CASE WriteId \/ UnlinkDraft
  <2>1. op.kind = "create note" /\ run.phase # "ask" /\ Running
    BY <1>15 DEF WriteId, UnlinkDraft, At
  <2>2. run.id \in N
    BY <2>1 DEF Typed, TypedPhase
  <2>3. PICK phase \in {"unlink", "commit"} : run' = [run EXCEPT !.phase = phase]
    BY <1>15 DEF WriteId, UnlinkDraft, Go
  <2>4. /\ TypedRun(run', Known) /\ run'.phase = phase /\ run'.plan = run.plan /\ run'.id = run.id
    BY <1>1, <2>3, RunGoes
  <2>5. op' = op
    BY <2>4, SameOp
  <2> QED BY <2>1, <2>2, <2>4, <2>5 DEF TypedPhase
<1> QED
  BY <1>6, <1>7, <1>8, <1>9, <1>10, <1>11, <1>12, <1>13, <1>14, <1>15, NextIs DEF Handler

LEMMA GhostStep ==
    ASSUME Typed, Next
    PROVE  moved' \subseteq N /\ spoilt' \in BOOLEAN
<1>1. moved \subseteq N /\ spoilt \in BOOLEAN
  BY DEF Typed
<1>2. moved' \subseteq N
  <2>1. CASE Crash
    <3>1. op.kind = "update file" => op.id \in N
      BY <2>1, OldAndNew DEF Crash, TypedOp
    <3> QED BY <1>1, <2>1, <3>1 DEF Crash
  <2>2. CASE CommitNote
    BY <1>1, <2>2 DEF CommitNote
  <2>3. CASE Carried
    <3>1. PICK x \in files, p \in DOMAIN dirs : MoveFile(x, p)
      BY <2>3 DEF Carried
    <3>2. x.n \in N
      BY <3>1 DEF MoveFile, Typed, TypedFiles
    <3> QED BY <1>1, <3>1, <3>2 DEF MoveFile
  <2>4. CASE UNCHANGED moved
    BY <1>1, <2>4
  <2>5. Crash \/ CommitNote \/ Carried \/ UNCHANGED moved
    BY NextIs DEF Handler, Started, Start, MakeDir, RenameDir, WriteMeta, CommitDir, WriteNewMeta,
       CreateFolder, UpdateFolder, CommitNewFolder, WriteNote, UnlinkOld, Normalize, UpdateNote,
       CreateNote, WriteId, UnlinkDraft, CommitNewNote, Refused, Told, JoplinNotebook, Filed,
       JoplinNote, Made, NewDir, Titled, Retitle, Shifting, MoveDir, Drafted, NewDraft
  <2> QED BY <2>1, <2>2, <2>3, <2>4, <2>5
<1>3. UNCHANGED spoilt \/ \E b \in BOOLEAN : spoilt' = (spoilt \/ b)
  <2>1. CASE Started
    BY <2>1 DEF Started, Start
  <2>2. CASE Crash
    BY <2>2 DEF Crash
  <2>3. CASE Fail
    BY <2>3 DEF Fail
  <2>4. CASE UNCHANGED spoilt
    BY <2>4
  <2>6. CASE RenameDir
    BY <2>3, <2>4, <2>6 DEF RenameDir
  <2>5. Started \/ Crash \/ Fail \/ UNCHANGED spoilt \/ RenameDir
    BY NextIs DEF Handler, MakeDir, WriteMeta, CommitDir, WriteNewMeta,
       CreateFolder, UpdateFolder, CommitNewFolder, WriteNote, UnlinkOld, CommitNote, Normalize,
       UpdateNote, CreateNote, WriteId, UnlinkDraft, CommitNewNote, Refused, Told, JoplinNotebook,
       Filed, JoplinNote, Made, NewDir, Titled, Retitle, Shifting, MoveDir, Carried, MoveFile,
       Drafted, NewDraft
  <2> QED BY <2>1, <2>2, <2>3, <2>4, <2>5, <2>6
<1> QED BY <1>1, <1>2, <1>3

LEMMA TypedStep == Typed /\ [Next]_vars => Typed'
<1> SUFFICES ASSUME Typed, [Next]_vars PROVE Typed'
  OBVIOUS
<1>1. CASE Next
  <2>1. TypedRun(run, Known)'
    BY <1>1, RunStep
  <2> QED BY <1>1, <2>1, ForestStep, NotesStep, DirsStep, FilesStep, GhostStep, RunStep DEF Typed
<1>2. CASE UNCHANGED vars
  <2>1. /\ UNCHANGED <<remote, notes, dirs, files, run, moved, spoilt>>
        /\ op' = op /\ (Running' <=> Running) /\ old' = old
    BY <1>2, SameOp DEF vars
  <2>2. TypedPhase'
    BY <2>1 DEF Typed, TypedPhase, File, Draft, Active
  <2>3. Known' = Known
    BY <2>1 DEF Known, Active
  <2> QED BY <2>1, <2>2, <2>3 DEF Typed, Forest, Above, TypedNotes, TypedDirs, TypedFiles,
          TypedRun, Tree, IsRun
<1> QED BY <1>1, <1>2

LEMMA TypedAlways == Spec => []Typed
BY InitTyped, TypedStep, PTL DEF Spec

(* Whatever notebooks, directories and files there are and however many runs  *)
(* and faults: every directory has its parents, every file a directory, and   *)
(* every id is that of a notebook or a note.                                  *)
THEOREM TypeCorrect == Spec => []TypeOK
BY TypedAlways, TypedIsTypeOK, PTL
----------------------------------------------------------------------------
(* The inductive invariant behind NotebooksKeepTheirDirectory. Two            *)
(* directories never have the same id; what the base knows has a directory;   *)
(* and for what a plan has yet to do: a notebook of Joplin that gets a        *)
(* directory has none, and no other operation has the path where it will be;  *)
(* a directory that is renamed, or becomes a notebook, is where the renames   *)
(* so far have taken it; "done" has the operation at work when only its row   *)
(* is missing.                                                                *)
Housed(d, f) == \E p \in DOMAIN d : d[p].id = f
Unique(d) == \A p, q \in DOMAIN d : d[p].id # 0 /\ d[p].id = d[q].id => p = q

CreateKept(d, plan, now, done) ==
    /\ \A o \in plan : o.kind = "create dir" /\ o \notin done =>
         ~Housed(d, o.id) /\ (o.new \in DOMAIN d => d[o.new].id = 0)
    /\ \A o, u \in plan :
         o.kind = "create dir" /\ u.kind = "create dir" /\ (o.id = u.id \/ o.new = u.new) => o = u
    /\ \A o, u \in plan :
         o.kind = "create dir" /\ u.kind \in {"update dir", "create folder"} => o.new # now[u.old]
MoveKept(d, plan, now) ==
    \A o \in plan : o.kind = "update dir" => now[o.old] \in DOMAIN d /\ d[now[o.old]].id = o.id
AnnounceKept(d, plan, now, done) ==
    /\ \A o \in plan : o.kind = "create folder" =>
         now[o.old] \in DOMAIN d /\ (o \notin done => d[now[o.old]].id = 0)
    /\ \A o, u \in plan :
         o.kind = "create folder" /\ u.kind = "create folder" /\ now[o.old] = now[u.old] => o = u
RowsKept(d, plan) ==
    \A o \in plan : o.kind \in {"update folder", "adopt"} => Housed(d, o.id)

PlanKept(d, plan, now, done) ==
    /\ CreateKept(d, plan, now, done) /\ MoveKept(d, plan, now)
    /\ AnnounceKept(d, plan, now, done) /\ RowsKept(d, plan)

OnlyRow == {o \in run.plan : o = op /\ run.phase = "commit"}

PhaseKept ==
    Running =>
      /\ op.kind = "create dir" /\ run.phase = "meta" => op.new \in DOMAIN dirs
      /\ op.kind = "update dir" /\ run.phase = "meta" => old = op.new
      /\ op.kind = "create dir" /\ run.phase = "commit" => Housed(dirs, op.id)
      /\ op.kind = "create folder" /\ run.phase = "meta" => ~Housed(dirs, run.id)
      /\ op.kind = "create folder" /\ run.phase = "commit" => Housed(dirs, run.id)

KeptBase == DOMAIN baseF = F /\ \A f \in F : baseF[f] # None => Housed(dirs, f)
KeptNow ==
    Unique(dirs) /\ KeptBase /\ PlanKept(dirs, run.plan, run.now, OnlyRow) /\ PhaseKept
Kept == ~spoilt => KeptNow

----------------------------------------------------------------------------
(* When no id is there twice, the scan enters every directory.                *)
LEMMA NotBeforeItself ==
    ASSUME NEW p \in Paths
    PROVE  ~Before(p, p)
<1> SUFFICES ASSUME Before(p, p) PROVE FALSE
  OBVIOUS
<1>1. Len(p) \in Nat /\ \A i \in 1..Len(p) : p[i] \in Component
  BY PathShape
<1>2. PICK i \in 0..Len(p) : Len(p) > i /\ Smaller(p[i + 1], p[i + 1])
  BY <1>1 DEF Before
<1>3. i + 1 \in 1..Len(p)
  BY <1>1, <1>2
<1>4. p[i + 1][1] \in Nat /\ p[i + 1][2] \in Nat
  BY <1>1, <1>3, Bounds DEF Component
<1> QED BY <1>2, <1>4 DEF Smaller

LEMMA AllEntered ==
    ASSUME Tree(dirs), Unique(dirs), NEW f
    PROVE  DirOf(f) # {} <=> Housed(dirs, f)
<1>1. ASSUME NEW p \in DOMAIN dirs PROVE Entered(p)
  <2> SUFFICES ASSUME NEW q \in Proper(p) \cup {p}, Duplicate(q) PROVE FALSE
    BY DEF Entered
  <2>1. q \in DOMAIN dirs /\ q \in Paths
    BY DEF Tree
  <2>2. PICK r \in DOMAIN dirs : dirs[r].id = dirs[q].id /\ Before(r, q) /\ dirs[q].id # 0
    BY DEF Duplicate
  <2>3. r = q
    BY <2>1, <2>2 DEF Unique
  <2> QED BY <2>1, <2>2, <2>3, NotBeforeItself
<1> QED BY <1>1 DEF DirOf, Housed

LEMMA KeptIsEnough ==
    Typed /\ Kept => NotebooksKeepTheirDirectory
BY AllEntered DEF Typed, TypedDirs, Kept, KeptNow, KeptBase, NotebooksKeepTheirDirectory

----------------------------------------------------------------------------
(* Directories are added without an id, get one, or move.                     *)
Grown(d, e) ==
    /\ \A p \in DOMAIN d : p \in DOMAIN e /\ e[p].id = d[p].id
    /\ \A p \in DOMAIN e \ DOMAIN d : e[p].id = 0

Given(d, e, p, f) ==
    /\ p \in DOMAIN d /\ d[p].id = 0 /\ f # 0 /\ ~Housed(d, f)
    /\ DOMAIN e = DOMAIN d
    /\ \A q \in DOMAIN d : e[q].id = IF q = p THEN f ELSE d[q].id

LEMMA GrownIds ==
    ASSUME NEW d, NEW e, Grown(d, e)
    PROVE  /\ Unique(d) => Unique(e)
           /\ \A f : Housed(d, f) => Housed(e, f)
           /\ \A f : f # 0 /\ Housed(e, f) => Housed(d, f)
BY DEF Grown, Unique, Housed

LEMMA GivenIds ==
    ASSUME NEW d, NEW e, NEW p, NEW f, Given(d, e, p, f)
    PROVE  /\ Unique(d) => Unique(e)
           /\ \A g : g # 0 /\ Housed(d, g) => Housed(e, g)
           /\ Housed(e, f)
           /\ \A g : g # f /\ Housed(e, g) => Housed(d, g)
BY DEF Given, Unique, Housed

LEMMA MovedIds ==
    ASSUME NEW d, NEW e, NEW from, NEW to, Movable(d, from, to), Carries(e, d, from, to)
    PROVE  /\ Unique(d) => Unique(e)
           /\ \A f : Housed(d, f) <=> Housed(e, f)
<1> DEFINE M(p) == Moved(p, from, to)
<1>1. /\ \A p \in DOMAIN d : M(p) \in DOMAIN e /\ e[M(p)] = d[p]
      /\ \A q \in DOMAIN e : \E p \in DOMAIN d : q = M(p)
  BY DEF Carries
<1> HIDE DEF M
<1> QED BY <1>1 DEF Unique, Housed

OpsTyped(plan, known) == \A o \in plan : TypedOp(o, known)

LEMMA PlanGrown ==
    ASSUME NEW d, NEW e, Grown(d, e), NEW plan, NEW now, NEW done, PlanKept(d, plan, now, done),
           NEW plan2, plan2 \subseteq plan, NEW done2, done \cap plan2 \subseteq done2,
           NEW known, OpsTyped(plan, known)
    PROVE  PlanKept(e, plan2, now, done2)
<1>1. /\ \A f : Housed(d, f) => Housed(e, f)
      /\ \A f : f # 0 /\ Housed(e, f) => Housed(d, f)
      /\ \A p \in DOMAIN d : p \in DOMAIN e /\ e[p].id = d[p].id
      /\ \A p \in DOMAIN e \ DOMAIN d : e[p].id = 0
  BY GrownIds DEF Grown
<1>2. \A o \in plan : o.kind = "create dir" => o.id # 0
  BY DEF OpsTyped, TypedOp, Root
<1>3. CreateKept(e, plan2, now, done2)
  BY <1>1, <1>2 DEF PlanKept, CreateKept
<1>4. MoveKept(e, plan2, now)
  BY <1>1 DEF PlanKept, MoveKept
<1>5. AnnounceKept(e, plan2, now, done2)
  BY <1>1 DEF PlanKept, AnnounceKept
<1>6. RowsKept(e, plan2)
  BY <1>1 DEF PlanKept, RowsKept
<1> QED BY <1>3, <1>4, <1>5, <1>6 DEF PlanKept

(* An operation gives its directory the id of its notebook.                   *)
Gives(o, plan, now, p, f) ==
    \/ o.kind = "create dir" /\ o.new = p /\ o.id = f
    \/ /\ o.kind = "create folder" /\ now[o.old] = p
       /\ \A u \in plan : u.kind # "create dir"

LEMMA PlanGiven ==
    ASSUME NEW d, NEW e, NEW p, NEW f, Given(d, e, p, f),
           NEW plan, NEW now, NEW done, PlanKept(d, plan, now, done), NEW o \in plan,
           Gives(o, plan, now, p, f),
           NEW done2, done \cup {o} \subseteq done2,
           NEW known, OpsTyped(plan, known)
    PROVE  PlanKept(e, plan, now, done2)
<1>1. /\ \A g : g # 0 /\ Housed(d, g) => Housed(e, g)
      /\ \A g : g # f /\ Housed(e, g) => Housed(d, g)
      /\ DOMAIN e = DOMAIN d /\ d[p].id = 0
      /\ \A q \in DOMAIN d : e[q].id = IF q = p THEN f ELSE d[q].id
  <2>1. /\ \A g : g # 0 /\ Housed(d, g) => Housed(e, g)
        /\ \A g : g # f /\ Housed(e, g) => Housed(d, g)
    BY GivenIds, Zenon
  <2> QED BY <2>1 DEF Given
<1>2. \A u \in plan :
        u.kind \in {"create dir", "update dir", "update folder", "adopt"} => u.id # 0
  BY DEF OpsTyped, TypedOp, Root
<1>3. CreateKept(e, plan, now, done2)
  BY <1>1, <1>2 DEF PlanKept, CreateKept, Gives
<1>4. MoveKept(e, plan, now)
  BY <1>1, <1>2 DEF PlanKept, MoveKept
<1>5. AnnounceKept(e, plan, now, done2)
  BY <1>1 DEF PlanKept, AnnounceKept, CreateKept, Gives
<1>6. RowsKept(e, plan)
  BY <1>1, <1>2 DEF PlanKept, RowsKept
<1> QED BY <1>3, <1>4, <1>5, <1>6 DEF PlanKept

(* The renames of a run come after its creations.                             *)
Follows(plan, now, now2, from, to) ==
    /\ \A u \in plan : u.kind # "create dir" /\ u.old \in DOMAIN now
    /\ \A p \in DOMAIN now : now2[p] = Moved(now[p], from, to)

LEMMA PlanMoved ==
    ASSUME NEW d, NEW e, NEW from, NEW to, Movable(d, from, to), Carries(e, d, from, to),
           NEW plan, NEW now, NEW done, PlanKept(d, plan, now, done),
           NEW now2, Follows(plan, now, now2, from, to)
    PROVE  PlanKept(e, plan, now2, done)
<1> DEFINE M(p) == Moved(p, from, to)
<1>1. \A p \in DOMAIN d : M(p) \in DOMAIN e /\ e[M(p)] = d[p]
  BY DEF Carries
<1>2. \A p, q \in DOMAIN d : M(p) = M(q) => p = q
  BY MovedInjective
<1>7. \A f : Housed(d, f) <=> Housed(e, f)
  BY MovedIds, Zenon
<1>8. \A u \in plan : u.kind # "create dir" /\ now2[u.old] = M(now[u.old])
  BY DEF Follows
<1> HIDE DEF M
<1>3. CreateKept(e, plan, now2, done)
  BY <1>8 DEF CreateKept
<1>4. MoveKept(e, plan, now2)
  BY <1>1, <1>8 DEF PlanKept, MoveKept
<1>5. AnnounceKept(e, plan, now2, done)
  <2>1. \A u \in plan : u.kind = "create folder" =>
          now[u.old] \in DOMAIN d /\ (u \notin done => d[now[u.old]].id = 0)
    BY DEF PlanKept, AnnounceKept
  <2>2. \A u \in plan : u.kind = "create folder" =>
          now2[u.old] \in DOMAIN e /\ (u \notin done => e[now2[u.old]].id = 0)
    BY <1>1, <1>8, <2>1
  <2>3. ASSUME NEW o \in plan, NEW u \in plan, o.kind = "create folder", u.kind = "create folder",
               now2[o.old] = now2[u.old]
        PROVE  o = u
    <3>1. M(now[o.old]) = M(now[u.old]) /\ now[o.old] \in DOMAIN d /\ now[u.old] \in DOMAIN d
      BY <1>8, <2>1, <2>3
    <3>2. now[o.old] = now[u.old]
      BY <1>2, <3>1
    <3> QED BY <2>3, <3>2 DEF PlanKept, AnnounceKept
  <2> QED BY <2>2, <2>3 DEF AnnounceKept
<1>6. RowsKept(e, plan)
  BY <1>7 DEF PlanKept, RowsKept
<1> QED BY <1>3, <1>4, <1>5, <1>6 DEF PlanKept
----------------------------------------------------------------------------
(* Two notebooks never have one path.                                         *)
LEMMA NamesDiffer ==
    ASSUME Forest(remote), NEW f \in F, NEW g \in F, remote[f] # None, remote[f] = remote[g],
           DirName(f) = DirName(g)
    PROVE  f = g
<1>1. f \in Nat /\ g \in Nat /\ f # 0 /\ g # 0
  BY Bounds DEF F
<1>2. ASSUME NEW h \in F, NEW k \in F, h < k, remote[h] = remote[k], remote[h] # None
      PROVE  DirName(h) # DirName(k)
  <2>1. h \in Active /\ h # 0 /\ k # 0 /\ h # k
    BY <1>2, Bounds DEF Active, F
  <2>2. DirName(k) = <<remote[k].title, k>>
    BY <1>2, <2>1 DEF DirName
  <2>3. DirName(h) = <<remote[h].title, h>> \/ DirName(h) = <<remote[h].title, 0>>
    BY DEF DirName, Plain
  <2> QED BY <2>1, <2>2, <2>3
<1> QED BY <1>1, <1>2

Child(p, c) == p \o <<c>>

LEMMA ChildSame ==
    ASSUME NEW p \in Paths, NEW q \in Paths, NEW c \in Component, NEW b \in Component,
           Child(p, c) = Child(q, b)
    PROVE  p = q /\ c = b
<1>1. /\ p \in Seq(Component) /\ Len(p) \in Nat /\ Len(p) >= 1
      /\ q \in Seq(Component) /\ Len(q) \in Nat /\ Len(q) >= 1
  BY PathShape
<1>2. /\ <<c>> \in Seq(Component) /\ Len(<<c>>) = 1 /\ <<c>>[1] = c
      /\ <<b>> \in Seq(Component) /\ Len(<<b>>) = 1 /\ <<b>>[1] = b
  OBVIOUS
<1> DEFINE r == Child(p, c)
           s == Child(q, b)
<1>3. /\ r \in Seq(Component) /\ Len(r) = Len(p) + 1
      /\ \A i \in 1..Len(p) + 1 : r[i] = IF i <= Len(p) THEN p[i] ELSE <<c>>[i - Len(p)]
  BY <1>1, <1>2, ConcatProperties DEF Child
<1>4. /\ s \in Seq(Component) /\ Len(s) = Len(q) + 1
      /\ \A i \in 1..Len(q) + 1 : s[i] = IF i <= Len(q) THEN q[i] ELSE <<b>>[i - Len(q)]
  BY <1>1, <1>2, ConcatProperties DEF Child
<1>7. r = s
  OBVIOUS
<1> HIDE DEF r, s
<1>5. /\ \A i \in 1..Len(p) : r[i] = p[i]
      /\ r[Len(p) + 1] = c
  BY <1>1, <1>2, <1>3
<1>6. /\ \A i \in 1..Len(q) : s[i] = q[i]
      /\ s[Len(q) + 1] = b
  BY <1>1, <1>2, <1>4
<1>8. Len(p) = Len(q)
  BY <1>1, <1>3, <1>4, <1>7
<1>9. \A i \in 1..Len(p) : p[i] = q[i]
  BY <1>5, <1>6, <1>7, <1>8
<1>10. p = q
  BY <1>8, <1>9, PathEqual
<1> QED BY <1>5, <1>6, <1>7, <1>8, <1>10

LEMMA ChildLonger ==
    ASSUME NEW p \in Paths, NEW c \in Component, NEW b \in Component
    PROVE  Child(p, c) # <<b>>
<1>1. p \in Seq(Component) /\ Len(p) \in Nat /\ Len(p) >= 1
  BY PathShape
<1>2. <<c>> \in Seq(Component) /\ Len(<<c>>) = 1 /\ Len(<<b>>) = 1
  OBVIOUS
<1> DEFINE r == Child(p, c)
<1>3. Len(r) = Len(p) + 1
  BY <1>1, <1>2, ConcatProperties DEF Child
<1> HIDE DEF r
<1>4. r # <<b>>
  BY <1>1, <1>2, <1>3
<1> QED BY <1>4 DEF r

LEMMA PathsDiffer ==
    ASSUME Forest(remote), NEW f0 \in F, NEW g0 \in F, remote[f0] # None, remote[g0] # None,
           RemotePath[f0] = RemotePath[g0]
    PROVE  f0 = g0
<1> DEFINE R == RemotePath
           Twin(f) == \E g \in F : remote[g] # None /\ R[f] = R[g] /\ f # g
<1>n. PICK n \in Nat : \E rank : Above(remote, n, rank)
  BY DEF Forest
<1>1. PICK rank : Above(remote, n, rank)
  BY <1>n
<1>2. /\ \A f \in F : rank[f] \in 0..n
      /\ \A f \in F : remote[f] # None /\ remote[f].parent # Root =>
           /\ remote[f].parent \in F /\ rank[remote[f].parent] < rank[f]
           /\ remote[remote[f].parent] # None
      /\ \A f \in F : remote[f] # None => remote[f] \in Row
  BY <1>1 DEF Above, Forest, Row
<1>3. \A f \in F : remote[f] # None =>
        /\ R[f] = IF remote[f].parent = Root THEN <<DirName(f)>>
                  ELSE Child(R[remote[f].parent], DirName(f))
        /\ DirName(f) \in Component /\ R[f] \in Paths
  BY RemotePathStep, DirNameShape, PathsOfNotebooks DEF Child
<1> HIDE DEF R
<1>4. ASSUME NEW f \in F, NEW g \in F, remote[f] # None, remote[g] # None,
             remote[f].parent = remote[g].parent, DirName(f) = DirName(g)
      PROVE  f = g
  <2>1. DirName(f)[1] = remote[f].title /\ DirName(g)[1] = remote[g].title
    BY DEF DirName, Plain
  <2>2. remote[f].title = remote[g].title
    BY <1>4, <2>1
  <2>3. remote[f] = remote[g]
    BY <1>2, <1>4, <2>2 DEF Row
  <2> QED BY <1>4, <2>3, NamesDiffer
<1> DEFINE T == {rank[f] : f \in {h \in F : remote[h] # None /\ Twin(h)}}
<1>5. T = {}
  <2> SUFFICES ASSUME T # {} PROVE FALSE
    OBVIOUS
  <2>1. T \subseteq Nat
    BY <1>2
  <2>2. PICK m \in T : \A k \in T : m <= k
    <3> HIDE DEF T
    <3> QED BY <2>1, Least
  <2>3. PICK f \in F : remote[f] # None /\ Twin(f) /\ m = rank[f]
    BY <2>2
  <2>4. PICK g \in F : remote[g] # None /\ R[f] = R[g] /\ f # g
    BY <2>3
  <2> DEFINE hf == remote[f].parent
             hg == remote[g].parent
  <2>5. CASE hf = Root /\ hg = Root
    <3>1. <<DirName(f)>> = <<DirName(g)>>
      BY <1>3, <2>3, <2>4, <2>5
    <3>2. DirName(f) = DirName(g)
      BY <3>1
    <3> QED BY <1>4, <2>3, <2>4, <2>5, <3>2
  <2>6. CASE hf # Root /\ hg # Root
    <3>1. /\ hf \in F /\ hg \in F /\ remote[hf] # None /\ remote[hg] # None
          /\ R[hf] \in Paths /\ R[hg] \in Paths
          /\ DirName(f) \in Component /\ DirName(g) \in Component
          /\ Child(R[hf], DirName(f)) = Child(R[hg], DirName(g))
          /\ rank[hf] < rank[f] /\ rank[hf] \in 0..n /\ rank[f] \in 0..n
      BY <1>2, <1>3, <2>3, <2>4, <2>6
    <3>2. R[hf] = R[hg] /\ DirName(f) = DirName(g)
      <4> DEFINE c == DirName(f)
                 b == DirName(g)
                 p == R[hf]
                 q == R[hg]
      <4>1. c \in Component /\ b \in Component /\ p \in Paths /\ q \in Paths /\ Child(p, c) = Child(q, b)
        BY <3>1
      <4> HIDE DEF c, b, p, q
      <4>2. p = q /\ c = b
        BY <4>1, ChildSame
      <4> QED BY <4>2 DEF p, q, c, b
    <3>3. hf = hg
      <4> SUFFICES ASSUME hf # hg PROVE FALSE
        OBVIOUS
      <4> HIDE DEF hf, hg
      <4>1. Twin(hf)
        BY <3>1, <3>2
      <4>2. rank[hf] \in T
        <5> HIDE DEF Twin
        <5> QED BY <3>1, <4>1
      <4>3. m <= rank[hf]
        <5> HIDE DEF T
        <5> QED BY <2>2, <4>2
      <4> QED BY <2>3, <3>1, <4>3
    <3> QED BY <1>4, <2>3, <2>4, <3>2, <3>3
  <2>7. CASE hf = Root /\ hg # Root
    <3>1. R[hg] \in Paths /\ DirName(f) \in Component /\ DirName(g) \in Component
          /\ <<DirName(f)>> = Child(R[hg], DirName(g))
      BY <1>2, <1>3, <2>3, <2>4, <2>7
    <3> DEFINE c == DirName(f)
               b == DirName(g)
    <3>2. c \in Component /\ b \in Component
      BY <3>1
    <3> HIDE DEF c, b
    <3> QED BY <3>1, <3>2, ChildLonger, Zenon DEF c, b
  <2>8. CASE hf # Root /\ hg = Root
    <3>1. R[hf] \in Paths /\ DirName(f) \in Component /\ DirName(g) \in Component
          /\ <<DirName(g)>> = Child(R[hf], DirName(f))
      BY <1>2, <1>3, <2>3, <2>4, <2>8
    <3> DEFINE c == DirName(f)
               b == DirName(g)
    <3>2. c \in Component /\ b \in Component
      BY <3>1
    <3> HIDE DEF c, b
    <3> QED BY <3>1, <3>2, ChildLonger, Zenon DEF c, b
  <2> QED BY <2>5, <2>6, <2>7, <2>8
<1>6. ~Twin(f0)
  BY <1>5
<1> QED BY <1>6 DEF R

----------------------------------------------------------------------------
(* Directories are created before anything else is done.                      *)
LEMMA TurnShape ==
    ASSUME NEW o
    PROVE  Turn(o) = IF o.kind = "create dir" THEN 1
                     ELSE IF o.kind = "update dir" THEN 2
                     ELSE IF o.kind = "create folder" THEN 3
                     ELSE IF o.kind = "update folder" THEN 4
                     ELSE IF o.kind = "adopt" THEN 5
                     ELSE 6
BY DEF Turn

LEMMA TurnOrder ==
    ASSUME NEW a, NEW b, Turn(b) = 1, Turn(a) \in {2, 3, 4, 5, 6}
    PROVE  ~Sooner(a, b)
BY DEF Sooner

LEMMA LaterTurn ==
    ASSUME NEW a, a.kind # "create dir"
    PROVE  Turn(a) \in {2, 3, 4, 5, 6}
<1> DEFINE t == Turn(a)
<1>1. t = IF a.kind = "create dir" THEN 1
          ELSE IF a.kind = "update dir" THEN 2
          ELSE IF a.kind = "create folder" THEN 3
          ELSE IF a.kind = "update folder" THEN 4
          ELSE IF a.kind = "adopt" THEN 5
          ELSE 6
  BY TurnShape, Zenon
<1> HIDE DEF t
<1>2. t \in {2, 3, 4, 5, 6}
  BY <1>1
<1> QED BY <1>2 DEF t

LEMMA CreationsFirst ==
    ASSUME Running, op.kind # "create dir", NEW o \in run.plan
    PROVE  o.kind # "create dir"
<1>1. o # op => Sooner(op, o)
  BY OpIs
<1>2. Turn(op) \in {2, 3, 4, 5, 6}
  BY LaterTurn, Zenon
<1>3. o.kind = "create dir" => Turn(o) = 1 /\ o # op
  BY TurnShape
<1> QED BY <1>1, <1>2, <1>3, TurnOrder, Zenon

(* The operations of a plan that concern notebooks.                           *)
LEMMA PlanKinds ==
    ASSUME NEW pull \in BOOLEAN, NEW push \in BOOLEAN, NEW o \in Plan(pull, push)
    PROVE  /\ o.kind = "create dir" => pull /\
                \E f \in FoldersWith("remote new") :
                  o = Op("create dir", f, <<>>, RemotePath[f], remote[f])
           /\ o.kind = "update dir" =>
                \E f \in FoldersWith("remote modified") :
                  o = Op("update dir", f, PathOfLocal(f), RemotePath[f], remote[f])
           /\ o.kind = "create folder" =>
                \E p \in Candidates :
                  o = Op("create folder", 0, p, p, [title |-> p[Len(p)][1], parent |-> None])
           /\ o.kind \in {"update folder", "adopt"} =>
                \E f \in FoldersWith("local modified") \cup FoldersWith("identical") : o.id = f
<1> DEFINE A == UNION {NoteOps(n, pull, push) : n \in N}
           D == {Op("create note", Draft, p, p, dirs[p].id) : p \in Drafts}
<1>1. Plan(pull, push) =
        (IF pull THEN PullDirs ELSE {}) \cup (IF push THEN PushFolders ELSE {}) \cup Adoptions
        \cup A \cup (IF push THEN D ELSE {})
  BY DEF Plan
<1>2. o \in A => o.kind \in {"normalize", "update file", "create file", "update note", "adopt note"}
  <2> SUFFICES ASSUME NEW n \in N, o \in NoteOps(n, pull, push)
               PROVE  o.kind \in {"normalize", "update file", "create file", "update note", "adopt note"}
    OBVIOUS
  <2>1. PICK kind \in {"normalize", "update file", "create file", "update note", "adopt note"} :
          \E a, b, s : o = Op(kind, n, a, b, s)
    BY DEF NoteOps
  <2>2. PICK a, b, s : o = Op(kind, n, a, b, s)
    BY <2>1
  <2> QED BY <2>2 DEF Op
<1>3. o \in D => o.kind = "create note"
  <2> SUFFICES ASSUME NEW p \in Drafts, o = Op("create note", Draft, p, p, dirs[p].id)
               PROVE  o.kind = "create note"
    OBVIOUS
  <2> QED BY DEF Op
<1> HIDE DEF A, D
<1>4. o \in PullDirs =>
        \/ \E f \in FoldersWith("remote new") :
             o = Op("create dir", f, <<>>, RemotePath[f], remote[f]) /\ o.kind = "create dir"
        \/ \E f \in FoldersWith("remote modified") :
             /\ o = Op("update dir", f, PathOfLocal(f), RemotePath[f], remote[f])
             /\ o.kind = "update dir"
  <2>1. \A f : /\ Op("create dir", f, <<>>, RemotePath[f], remote[f]).kind = "create dir"
               /\ Op("update dir", f, PathOfLocal(f), RemotePath[f], remote[f]).kind = "update dir"
    BY DEF Op
  <2>2. o \in PullDirs =>
        \/ \E f \in FoldersWith("remote new") :
             o = Op("create dir", f, <<>>, RemotePath[f], remote[f])
        \/ \E f \in FoldersWith("remote modified") :
             o = Op("update dir", f, PathOfLocal(f), RemotePath[f], remote[f])
    BY DEF PullDirs
  <2> QED BY <2>1, <2>2
<1>5. o \in PushFolders =>
        \/ \E p \in Candidates :
             /\ o = Op("create folder", 0, p, p, [title |-> p[Len(p)][1], parent |-> None])
             /\ o.kind = "create folder"
        \/ \E f \in FoldersWith("local modified") : o.kind = "update folder" /\ o.id = f
  <2> DEFINE C(p) == Op("create folder", 0, p, p, [title |-> p[Len(p)][1], parent |-> None])
             U(f) == Op("update folder", f, PathOfLocal(f), PathOfLocal(f), LocalF(f))
  <2>1. /\ \A p : C(p).kind = "create folder"
        /\ \A f : U(f).kind = "update folder" /\ U(f).id = f
    BY DEF Op
  <2>2. o \in PushFolders =>
          \/ \E p \in Candidates : o = C(p)
          \/ \E f \in FoldersWith("local modified") : o = U(f)
    BY DEF PushFolders
  <2> HIDE DEF U
  <2> QED BY <2>1, <2>2
<1>6. o \in Adoptions => o.kind = "adopt" /\ \E f \in FoldersWith("identical") : o.id = f
  BY DEF Adoptions, Op
<1>7. (o \in PullDirs /\ pull) \/ o \in PushFolders \/ o \in Adoptions \/ o \in A \/ o \in D
  BY <1>1
<1> QED BY <1>2, <1>3, <1>4, <1>5, <1>6, <1>7
----------------------------------------------------------------------------
(* The initial states and the start of a run.                                 *)
LEMMA NothingPlanned ==
    ASSUME NEW d, NEW now, NEW done
    PROVE  PlanKept(d, {}, now, done)
BY DEF PlanKept, CreateKept, MoveKept, AnnounceKept, RowsKept

LEMMA InitKept == Init => Kept
<1> SUFFICES ASSUME Init PROVE Kept
  OBVIOUS
<1>1. PICK nested \in BOOLEAN :
        LET second == IF nested THEN <<Plain(1), Plain(2)>> ELSE <<Plain(2)>>
            rows == [f \in F |-> IF f = 1 THEN [title |-> 1, parent |-> Root]
                                ELSE IF f = 2 THEN [title |-> 2,
                                                    parent |-> IF nested THEN 1 ELSE Root]
                                ELSE None] IN
        /\ baseF = rows
        /\ dirs = [p \in {<<Plain(1)>>, second} |->
                     IF p = second THEN [id |-> 2, title |-> 2] ELSE [id |-> 1, title |-> 1]]
        /\ run = NoRun
  BY DEF Init
<1> DEFINE second == IF nested THEN <<Plain(1), Plain(2)>> ELSE <<Plain(2)>>
           first == <<Plain(1)>>
<1>2. first # second
  <2>1. Plain(1) # Plain(2)
    BY DEF Plain
  <2>2. <<Plain(1)>> # <<Plain(2)>>
    BY <2>1
  <2>3. <<Plain(1)>> # <<Plain(1), Plain(2)>>
    <3>1. Len(<<Plain(1)>>) = 1 /\ Len(<<Plain(1), Plain(2)>>) = 2
      OBVIOUS
    <3> QED BY <3>1
  <2> QED BY <2>2, <2>3
<1>3. DOMAIN dirs = {first, second} /\ dirs[first].id = 1 /\ dirs[second].id = 2
  <2> HIDE DEF first, second
  <2>1. dirs = [p \in {first, second} |->
                  IF p = second THEN [id |-> 2, title |-> 2] ELSE [id |-> 1, title |-> 1]]
    BY <1>1 DEF first, second
  <2> QED BY <1>2, <2>1
<1>4. DOMAIN baseF = F /\ \A f \in F : baseF[f] # None => f \in {1, 2}
  BY <1>1
<1> HIDE DEF first, second
<1>5. Unique(dirs) /\ KeptBase
  BY <1>3, <1>4 DEF Unique, KeptBase, Housed
<1>6. run.plan = {} /\ ~Running
  BY <1>1 DEF NoRun, Running, Soonest
<1> QED BY <1>5, <1>6, NothingPlanned DEF Kept, KeptNow, PhaseKept

LEMMA PlannedFolder ==
    ASSUME Typed, KeptNow, NEW f \in F
    PROVE  /\ FolderStatus(f) = "remote new" => ~Housed(dirs, f)
           /\ FolderStatus(f) \in {"remote modified", "local modified", "identical"} =>
                /\ Housed(dirs, f)
                /\ PathOfLocal(f) \in DOMAIN dirs /\ dirs[PathOfLocal(f)].id = f
<1>1. TypedDirs /\ Tree(dirs) /\ Unique(dirs)
  BY DEF Typed, TypedDirs, KeptNow
<1>2. ASSUME FolderStatus(f) = "remote new" PROVE ~Housed(dirs, f)
  <2>1. DirOf(f) = {}
    BY <1>1, <1>2, StatusOfFolder, LocalShape
  <2> QED BY <1>1, <2>1, AllEntered
<1>3. ASSUME FolderStatus(f) \in {"remote modified", "local modified", "identical"}
      PROVE  /\ Housed(dirs, f)
             /\ PathOfLocal(f) \in DOMAIN dirs /\ dirs[PathOfLocal(f)].id = f
  <2>1. PathOfLocal(f) \in DirOf(f)
    BY <1>1, <1>3, StatusOfFolder, LocalShape
  <2> QED BY <2>1 DEF DirOf, Housed
<1> QED BY <1>2, <1>3

LEMMA StartKept ==
    ASSUME Typed, Kept, NEW pull \in BOOLEAN, NEW push \in BOOLEAN, Start(pull, push), ~spoilt'
    PROVE  KeptNow'
<1> DEFINE plan == Plan(pull, push)
           paths == {o.old : o \in plan} \cup {o.new : o \in plan}
           now == [p \in paths |-> p]
<1>1. /\ ~spoilt /\ ~(pull /\ NamesCollide(plan)) /\ dirs' = dirs /\ baseF' = baseF
      /\ run'.plan = plan /\ run'.now = now /\ run'.phase = "ask"
  BY DEF Start, NoRun
<1>2. KeptNow /\ TypedDirs /\ Tree(dirs) /\ Forest(remote)
  BY <1>1 DEF Kept, Typed, TypedDirs
<1>3. \A o \in plan : now[o.old] = o.old /\ now[o.new] = o.new
  OBVIOUS
<1>4. ASSUME NEW o \in plan, o.kind = "create dir"
      PROVE  /\ o.id \in F /\ remote[o.id] # None /\ o.new = RemotePath[o.id]
             /\ o = Op("create dir", o.id, <<>>, RemotePath[o.id], remote[o.id])
             /\ ~Housed(dirs, o.id) /\ o.new \notin DOMAIN dirs
  <2>1. PICK f \in FoldersWith("remote new") :
          pull /\ o = Op("create dir", f, <<>>, RemotePath[f], remote[f])
    BY <1>4, PlanKinds, ZenonT(60)
  <2>2. f \in F /\ remote[f] # None /\ FolderStatus(f) = "remote new"
    BY DEF FoldersWith, Active
  <2>3. o.id = f /\ o.new = RemotePath[f]
    BY <2>1 DEF Op
  <2>4. ~Housed(dirs, f)
    BY <1>2, <2>2, PlannedFolder
  <2>5. o.new \notin DOMAIN dirs
    <3> HIDE DEF plan
    <3> QED BY <1>1, <1>4, <2>1 DEF NamesCollide, Ops
  <2> QED BY <2>1, <2>2, <2>3, <2>4, <2>5
<1>5. ASSUME NEW o \in plan, o.kind = "update dir"
      PROVE  o.old \in DOMAIN dirs /\ dirs[o.old].id = o.id
  <2>1. PICK f \in FoldersWith("remote modified") :
          o = Op("update dir", f, PathOfLocal(f), RemotePath[f], remote[f])
    BY <1>5, PlanKinds
  <2>2. f \in F /\ FolderStatus(f) = "remote modified"
    BY DEF FoldersWith, Active
  <2>3. o.id = f /\ o.old = PathOfLocal(f)
    BY <2>1 DEF Op
  <2> QED BY <1>2, <2>2, <2>3, PlannedFolder
<1>6. ASSUME NEW o \in plan, o.kind = "create folder"
      PROVE  /\ o.old \in DOMAIN dirs /\ dirs[o.old].id = 0
             /\ o = Op("create folder", 0, o.old, o.old, [title |-> o.old[Len(o.old)][1], parent |-> None])
  <2>1. PICK p \in Candidates :
          o = Op("create folder", 0, p, p, [title |-> p[Len(p)][1], parent |-> None])
    BY <1>6, PlanKinds
  <2>2. o.old = p
    BY <2>1 DEF Op
  <2> QED BY <2>1, <2>2 DEF Candidates
<1>7. ASSUME NEW o \in plan, o.kind \in {"update folder", "adopt"}
      PROVE  Housed(dirs, o.id)
  <2>1. PICK f \in FoldersWith("local modified") \cup FoldersWith("identical") : o.id = f
    BY <1>7, PlanKinds
  <2>2. f \in F /\ FolderStatus(f) \in {"local modified", "identical"}
    BY DEF FoldersWith, Active
  <2> QED BY <1>2, <2>1, <2>2, PlannedFolder
<1> HIDE DEF plan, now
<1>8. \A done : CreateKept(dirs, plan, now, done)
  <2>1. \A o, u \in plan : o.kind = "create dir" /\ u.kind = "create dir" /\ o.id = u.id => o = u
    <3> SUFFICES ASSUME NEW o \in plan, NEW u \in plan,
                        o.kind = "create dir", u.kind = "create dir", o.id = u.id
                 PROVE  o = u
      OBVIOUS
    <3>1. /\ o = Op("create dir", o.id, <<>>, RemotePath[o.id], remote[o.id])
          /\ u = Op("create dir", u.id, <<>>, RemotePath[u.id], remote[u.id])
      BY <1>4
    <3> QED BY <3>1
  <2>2. ASSUME NEW o \in plan, NEW u \in plan,
               o.kind = "create dir", u.kind = "create dir", o.new = u.new
        PROVE  o.id = u.id
    <3>1. /\ o.id \in F /\ remote[o.id] # None /\ o.new = RemotePath[o.id]
          /\ u.id \in F /\ remote[u.id] # None /\ u.new = RemotePath[u.id]
      BY <1>4, <2>2
    <3> QED BY <1>2, <2>2, <3>1, PathsDiffer
  <2>3. \A o, u \in plan :
          o.kind = "create dir" /\ u.kind \in {"update dir", "create folder"} => o.new # now[u.old]
    BY <1>3, <1>4, <1>5, <1>6
  <2> QED BY <1>4, <2>1, <2>2, <2>3 DEF CreateKept
<1>9. MoveKept(dirs, plan, now)
  BY <1>3, <1>5 DEF MoveKept
<1>10. \A done : AnnounceKept(dirs, plan, now, done)
  <2>1. \A o, u \in plan :
          o.kind = "create folder" /\ u.kind = "create folder" /\ now[o.old] = now[u.old] => o = u
    <3> SUFFICES ASSUME NEW o \in plan, NEW u \in plan,
                        o.kind = "create folder", u.kind = "create folder", now[o.old] = now[u.old]
                 PROVE  o = u
      OBVIOUS
    <3>1. o.old = u.old
      BY <1>3
    <3>2. /\ o = Op("create folder", 0, o.old, o.old, [title |-> o.old[Len(o.old)][1], parent |-> None])
          /\ u = Op("create folder", 0, u.old, u.old, [title |-> u.old[Len(u.old)][1], parent |-> None])
      BY <1>6
    <3> QED BY <3>1, <3>2
  <2> QED BY <1>3, <1>6, <2>1 DEF AnnounceKept
<1>11. RowsKept(dirs, plan)
  BY <1>7 DEF RowsKept
<1>12. PlanKept(dirs, plan, now, OnlyRow')
  BY <1>8, <1>9, <1>10, <1>11 DEF PlanKept
<1>13. PhaseKept'
  BY <1>1 DEF PhaseKept
<1> QED BY <1>1, <1>2, <1>12, <1>13 DEF KeptNow, KeptBase
----------------------------------------------------------------------------
(* Steps: what the plan has yet to do stays possible.                         *)
LEMMA MovedSelf ==
    ASSUME NEW from \in Paths, NEW to \in Paths
    PROVE  Moved(from, from, to) = to
<1>1. IsPrefix(from, from) /\ Len(from) \in Nat /\ Len(to) \in Nat
  BY PrefixShape, PathShape
<1>2. Shifted(Moved(from, from, to), from, from, to)
  BY <1>1, MovedUnder, Zenon
<1>3. /\ Moved(from, from, to) \in Paths
      /\ Len(Moved(from, from, to)) = Len(to)
      /\ \A i \in 1..Len(to) : Moved(from, from, to)[i] = to[i]
  BY <1>1, <1>2 DEF Shifted
<1> QED BY <1>3, PathEqual

LEMMA NoRootId == \A f \in F : f # 0
BY Bounds DEF F

LEMMA SameIds ==
    ASSUME NEW d, NEW e, DOMAIN e = DOMAIN d, \A p \in DOMAIN d : e[p].id = d[p].id
    PROVE  Grown(d, e)
BY DEF Grown

LEMMA GrownBase ==
    ASSUME KeptBase, UNCHANGED baseF, Grown(dirs, dirs')
    PROVE  KeptBase'
BY GrownIds DEF KeptBase

(* No operation is at work.                                                   *)
LEMMA IdleKept ==
    ASSUME run'.plan = {}, Unique(dirs)', KeptBase'
    PROVE  KeptNow'
<1>1. ~Running'
  BY DEF Running, Soonest
<1>2. PlanKept(dirs', {}, run'.now, OnlyRow')
  BY NothingPlanned
<1> QED BY <1>1, <1>2 DEF KeptNow, PhaseKept

(* The operation at work ends.                                                *)
LEMMA EndKept ==
    ASSUME Typed, KeptNow, NEW good, run' = Ended(good), Grown(dirs, dirs'), KeptBase'
    PROVE  KeptNow'
<1>1. run'.phase = "ask" /\ run'.plan = run.plan \ {op} /\ run'.now = run.now
  BY RunEnds DEF Typed
<1>2. OnlyRow \cap run'.plan \subseteq OnlyRow' /\ run'.plan \subseteq run.plan
  BY <1>1 DEF OnlyRow
<1>3. OpsTyped(run.plan, Known)
  BY DEF Typed, TypedRun, OpsTyped
<1>4. PlanKept(dirs, run.plan, run.now, OnlyRow)
  BY DEF KeptNow
<1>5. PlanKept(dirs', run'.plan, run.now, OnlyRow')
  BY <1>2, <1>3, <1>4, PlanGrown, Zenon
<1>6. Unique(dirs)'
  BY GrownIds DEF KeptNow
<1>7. PhaseKept'
  BY <1>1 DEF PhaseKept
<1> QED BY <1>1, <1>5, <1>6, <1>7 DEF KeptNow

(* It goes on, and its row is not all that is missing.                        *)
LEMMA GoKept ==
    ASSUME Typed, KeptNow, run.phase # "commit", run'.plan = run.plan, run'.now = run.now,
           Grown(dirs, dirs'), UNCHANGED baseF, PhaseKept'
    PROVE  KeptNow'
<1>1. OnlyRow \cap run.plan \subseteq OnlyRow' /\ run.plan \subseteq run.plan
  BY DEF OnlyRow
<1>2. OpsTyped(run.plan, Known)
  BY DEF Typed, TypedRun, OpsTyped
<1>3. PlanKept(dirs, run.plan, run.now, OnlyRow)
  BY DEF KeptNow
<1>4. PlanKept(dirs', run.plan, run.now, OnlyRow')
  BY <1>1, <1>2, <1>3, PlanGrown, Zenon
<1>5. Unique(dirs)' /\ KeptBase'
  BY GrownIds, GrownBase DEF KeptNow
<1> QED BY <1>4, <1>5 DEF KeptNow

(* It writes the metadata of a directory that had none.                       *)
LEMMA GivenKept ==
    ASSUME Typed, KeptNow, Running, run.phase = "meta", run'.phase = "commit",
           run'.plan = run.plan, run'.now = run.now, UNCHANGED baseF,
           NEW p, NEW f, Given(dirs, dirs', p, f),
           \/ op.kind = "create dir" /\ op.new = p /\ op.id = f
           \/ op.kind = "create folder" /\ old = p,
           PhaseKept'
    PROVE  KeptNow'
<1>1. op' = op /\ op \in run.plan
  BY SameOp, OpIs
<1>2. OnlyRow \cup {op} \subseteq OnlyRow'
  BY <1>1 DEF OnlyRow
<1>3. OpsTyped(run.plan, Known)
  BY DEF Typed, TypedRun, OpsTyped
<1>4. PlanKept(dirs, run.plan, run.now, OnlyRow)
  BY DEF KeptNow
<1>5. Gives(op, run.plan, run.now, p, f)
  <2>1. op.kind = "create folder" => \A u \in run.plan : u.kind # "create dir"
    BY CreationsFirst
  <2> QED BY <2>1 DEF old, CurrentPath, Gives
<1>6. PlanKept(dirs', run.plan, run.now, OnlyRow')
  BY <1>1, <1>2, <1>3, <1>4, <1>5, PlanGiven, ZenonT(60)
<1>7. Unique(dirs)'
  BY GivenIds DEF KeptNow
<1>8. KeptBase'
  <2> QED BY GivenIds, NoRootId DEF KeptNow, KeptBase
<1> QED BY <1>6, <1>7, <1>8 DEF KeptNow

LEMMA QuietKept ==
    ASSUME run'.plan = run.plan,
           op.kind \notin {"create dir", "update dir", "create folder"}
    PROVE  PhaseKept'
BY SameOp DEF PhaseKept

----------------------------------------------------------------------------
(* Steps: pull.                                                               *)
LEMMA MakeDirKept ==
    ASSUME Typed, KeptNow, MakeDir
    PROVE  KeptNow'
<1>1. op.kind = "create dir" /\ Running /\ run.phase = "ask" /\ UNCHANGED baseF
      /\ dirs' = WithDir(dirs, op.new) /\ run' = [run EXCEPT !.phase = "meta"]
  BY DEF MakeDir, At, Go
<1>2. op.new \in Paths /\ Tree(dirs) /\ TypedRun(run, Known)
  BY <1>1, OldAndNew DEF TypedOp, Typed, TypedDirs
<1>3. run'.phase = "meta" /\ run'.plan = run.plan /\ run'.now = run.now
  BY <1>1, <1>2, RunGoes
<1> DEFINE e == WithDir(dirs, op.new)
<1>7. /\ DOMAIN e = DOMAIN dirs \cup Proper(op.new) \cup {op.new}
      /\ \A q \in DOMAIN dirs : e[q] = dirs[q]
      /\ \A q \in DOMAIN e \ DOMAIN dirs : e[q].id = 0
  BY <1>2, WithDirTree
<1> HIDE DEF e
<1>4. /\ DOMAIN dirs' = DOMAIN dirs \cup Proper(op.new) \cup {op.new}
      /\ \A q \in DOMAIN dirs : dirs'[q] = dirs[q]
      /\ \A q \in DOMAIN dirs' \ DOMAIN dirs : dirs'[q].id = 0
  BY <1>1, <1>7 DEF e
<1>5. Grown(dirs, dirs')
  BY <1>4 DEF Grown
<1>6. PhaseKept'
  BY <1>1, <1>3, <1>4, SameOp DEF PhaseKept
<1> QED BY <1>1, <1>3, <1>5, <1>6, GoKept

LEMMA WriteMetaKept ==
    ASSUME Typed, KeptNow, WriteMeta
    PROVE  KeptNow'
<1>1. /\ op.kind = "create dir" \/ op.kind = "update dir"
      /\ Running /\ run.phase = "meta" /\ UNCHANGED baseF
      /\ dirs' = WithMeta(dirs, op.new, op.id, op.saw.title)
      /\ run' = [run EXCEPT !.phase = "commit"]
  BY DEF WriteMeta, At, Go
<1>2. op.id \in Known \ {Root} /\ op.saw.title \in 1..NT /\ Tree(dirs) /\ TypedRun(run, Known)
  BY <1>1, OldAndNew DEF TypedOp, Row, Typed, TypedDirs
<1>3. run'.phase = "commit" /\ run'.plan = run.plan /\ run'.now = run.now
  BY <1>1, <1>2, RunGoes
<1>4. op' = op /\ op \in run.plan /\ op.id \in 0..NF /\ op.id # 0
  <2>1. op' = op /\ op \in run.plan
    BY <1>1, <1>3, SameOp, OpIs
  <2> QED BY <1>2, <2>1, Bounds DEF Known, Active, F, Root
<1>5. /\ DOMAIN dirs' = DOMAIN dirs
      /\ \A q \in DOMAIN dirs :
           dirs'[q] = IF q = op.new THEN [id |-> op.id, title |-> op.saw.title] ELSE dirs[q]
  <2> DEFINE e == WithMeta(dirs, op.new, op.id, op.saw.title)
  <2>1. /\ DOMAIN e = DOMAIN dirs
        /\ \A q \in DOMAIN dirs :
             e[q] = IF q = op.new THEN [id |-> op.id, title |-> op.saw.title] ELSE dirs[q]
    BY <1>2, <1>4, WithMetaTree
  <2> HIDE DEF e
  <2> QED BY <1>1, <2>1 DEF e
<1>6. \A q \in DOMAIN dirs : dirs'[q].id = IF q = op.new THEN op.id ELSE dirs[q].id
  BY <1>5
<1>7. CASE op.kind = "create dir"
  <2>1. op.new \in DOMAIN dirs
    BY <1>1, <1>7 DEF KeptNow, PhaseKept
  <2>2. op \notin OnlyRow
    BY <1>1 DEF OnlyRow
  <2>3. ~Housed(dirs, op.id) /\ dirs[op.new].id = 0
    BY <1>4, <1>7, <2>1, <2>2 DEF KeptNow, PlanKept, CreateKept
  <2>4. Given(dirs, dirs', op.new, op.id)
    BY <1>4, <1>5, <1>6, <2>1, <2>3 DEF Given
  <2>5. Housed(dirs', op.id)
    BY <2>4, GivenIds
  <2>6. PhaseKept'
    BY <1>3, <1>4, <1>7, <2>5 DEF PhaseKept
  <2> QED BY <1>1, <1>3, <1>7, <2>4, <2>6, GivenKept
<1>8. CASE op.kind = "update dir"
  <2>1. old = op.new /\ run.now[op.old] \in DOMAIN dirs /\ dirs[run.now[op.old]].id = op.id
    BY <1>1, <1>4, <1>8 DEF KeptNow, PhaseKept, PlanKept, MoveKept
  <2>2. \A q \in DOMAIN dirs : dirs'[q].id = dirs[q].id
    BY <1>6, <2>1 DEF old, CurrentPath
  <2>3. Grown(dirs, dirs')
    BY <1>5, <2>2, SameIds
  <2>4. PhaseKept'
    BY <1>3, <1>4, <1>8 DEF PhaseKept
  <2> QED BY <1>1, <1>3, <2>3, <2>4, GoKept
<1> QED BY <1>1, <1>7, <1>8

LEMMA RenameDirKept ==
    ASSUME Typed, KeptNow, RenameDir
    PROVE  KeptNow'
<1> DEFINE d == WithParents(dirs, op.new)
           now == [p \in DOMAIN run.now |-> Moved(run.now[p], old, op.new)]
<1>1. op.kind = "update dir" /\ Running /\ run.phase = "ask" /\ UNCHANGED baseF
  BY DEF RenameDir, At
<1>2. /\ old \in Paths /\ op.new \in Paths /\ Tree(dirs) /\ TypedRun(run, Known)
      /\ op \in run.plan /\ OpsTyped(run.plan, Known) /\ \A o \in run.plan : o.old \in DOMAIN run.now
      /\ \A o \in run.plan : o.kind # "create dir"
  BY <1>1, OldAndNew, CreationsFirst DEF TypedOp, OpsTyped, Typed, TypedDirs, TypedRun
<1>3. /\ Tree(d) /\ DOMAIN d = DOMAIN dirs \cup Proper(op.new)
      /\ \A q \in DOMAIN dirs : d[q] = dirs[q]
      /\ \A q \in DOMAIN d \ DOMAIN dirs : d[q].id = 0
  BY <1>2, WithParentsTree
<1>4. Grown(dirs, d) /\ Grown(dirs, dirs)
  BY <1>3 DEF Grown
<1>5. \/ (\E good : run' = Ended(good)) /\ (dirs' = dirs \/ dirs' = d)
      \/ old = op.new /\ run' = [run EXCEPT !.phase = "meta"] /\ dirs' = dirs
      \/ /\ op.new \notin DOMAIN dirs /\ old \in DOMAIN dirs /\ ~IsPrefix(old, op.new)
         /\ dirs' = MoveTree(d, old, op.new)
         /\ run' = [run EXCEPT !.phase = "meta", !.now = now]
  BY DEF RenameDir, Fail, Go
<1> HIDE DEF d
<1>6. CASE (\E good : run' = Ended(good)) /\ (dirs' = dirs \/ dirs' = d)
  <2>1. Grown(dirs, dirs')
    BY <1>4, <1>6
  <2>2. KeptBase'
    BY <1>1, <2>1, GrownBase DEF KeptNow
  <2> QED BY <1>6, <2>1, <2>2, EndKept
<1>7. CASE old = op.new /\ run' = [run EXCEPT !.phase = "meta"] /\ dirs' = dirs
  <2>1. run'.phase = "meta" /\ run'.plan = run.plan /\ run'.now = run.now
    BY <1>2, <1>7, RunGoes
  <2>2. op' = op /\ old' = old
    BY <2>1, SameOp
  <2>3. PhaseKept'
    BY <1>1, <1>7, <2>1, <2>2 DEF PhaseKept
  <2>4. Grown(dirs, dirs')
    BY <1>4, <1>7
  <2> QED BY <1>1, <2>1, <2>3, <2>4, GoKept
<1>8. CASE /\ op.new \notin DOMAIN dirs /\ old \in DOMAIN dirs /\ ~IsPrefix(old, op.new)
           /\ dirs' = MoveTree(d, old, op.new)
           /\ run' = [run EXCEPT !.phase = "meta", !.now = now]
  <2>1. /\ DOMAIN now = DOMAIN run.now
        /\ \A p \in DOMAIN run.now : now[p] = Moved(run.now[p], old, op.new)
    OBVIOUS
  <2> HIDE DEF now
  <2>2. run'.phase = "meta" /\ run'.plan = run.plan /\ run'.now = now
    BY <1>2, <1>8 DEF TypedRun, IsRun
  <2>3. op' = op
    BY <2>2, SameOp
  <2>4. op.new \notin DOMAIN d
    BY <1>2, <1>3, <1>8, ProperPaths
  <2>5. Movable(d, old, op.new)
    BY <1>2, <1>3, <1>8, <2>4 DEF Movable
  <2>6. Carries(dirs', d, old, op.new)
    BY <1>8, <2>5, MoveTreeTree, Zenon
  <2>7. PlanKept(dirs, run.plan, run.now, OnlyRow)
    BY DEF KeptNow
  <2>8. PlanKept(d, run.plan, run.now, OnlyRow)
    <3>1. run.plan \subseteq run.plan /\ OnlyRow \cap run.plan \subseteq OnlyRow
      OBVIOUS
    <3> QED BY <1>2, <1>4, <2>7, <3>1, PlanGrown, Zenon
  <2>9. PlanKept(dirs', run.plan, now, OnlyRow')
    <3>1. OnlyRow' = OnlyRow
      BY <1>1, <2>2 DEF OnlyRow
    <3>2. Follows(run.plan, run.now, now, old, op.new)
      BY <1>2, <2>1 DEF Follows
    <3>3. PlanKept(dirs', run.plan, now, OnlyRow)
      BY <2>5, <2>6, <2>8, <3>2, PlanMoved, Zenon
    <3> QED BY <3>1, <3>3
  <2>10. Unique(d)
    BY <1>4, GrownIds DEF KeptNow
  <2>11. Unique(dirs)' /\ \A f : Housed(d, f) <=> Housed(dirs', f)
    BY <2>5, <2>6, <2>10, MovedIds, Zenon
  <2>12. KeptBase'
    BY <1>1, <1>4, <2>11, GrownIds DEF KeptNow, KeptBase
  <2>13. old' = op.new
    <3>1. run.now[op.old] = old /\ op.old \in DOMAIN run.now
      BY <1>2 DEF old, CurrentPath
    <3>2. old' = now[op.old]
      BY <2>2, <2>3 DEF old, CurrentPath
    <3>3. old' = Moved(old, old, op.new)
      BY <2>1, <3>1, <3>2
    <3> QED BY <1>2, <3>3, MovedSelf
  <2>14. PhaseKept'
    BY <1>1, <2>2, <2>3, <2>13 DEF PhaseKept
  <2> QED BY <2>2, <2>9, <2>11, <2>12, <2>14 DEF KeptNow
<1> QED BY <1>5, <1>6, <1>7, <1>8

LEMMA CommitDirKept ==
    ASSUME Typed, KeptNow, CommitDir
    PROVE  KeptNow'
<1>1. /\ Running /\ dirs' = dirs /\ run' = Ended(TRUE)
      /\ baseF' = [baseF EXCEPT ![op.id] = op.saw]
      /\ \/ op.kind = "create dir" /\ run.phase = "commit"
         \/ op.kind \in {"update dir", "update folder", "adopt"}
  BY DEF CommitDir, At, Done
<1>2. op \in run.plan
  BY <1>1, OpIs
<1>3. Housed(dirs, op.id)
  <2>1. CASE op.kind = "create dir" /\ run.phase = "commit"
    BY <1>1, <2>1 DEF KeptNow, PhaseKept
  <2>2. CASE op.kind = "update dir"
    BY <1>2, <2>2 DEF KeptNow, PlanKept, MoveKept, Housed
  <2>3. CASE op.kind \in {"update folder", "adopt"}
    BY <1>2, <2>3 DEF KeptNow, PlanKept, RowsKept
  <2> QED BY <1>1, <2>1, <2>2, <2>3
<1>4. KeptBase'
  BY <1>1, <1>3 DEF KeptNow, KeptBase
<1>5. Grown(dirs, dirs')
  BY <1>1, SameIds
<1> QED BY <1>1, <1>4, <1>5, EndKept

----------------------------------------------------------------------------
(* Steps: push.                                                               *)
LEMMA CreateFolderKept ==
    ASSUME Typed, KeptNow, CreateFolder
    PROVE  KeptNow'
<1> DEFINE f == CHOOSE g \in Unused : \A h \in Unused : g <= h
<1>1. op.kind = "create folder" /\ Running /\ run.phase = "ask" /\ UNCHANGED <<dirs, baseF>>
  BY DEF CreateFolder, At
<1>2. \/ \E good : run' = Ended(good)
      \/ Unused # {} /\ run' = [run EXCEPT !.phase = "meta", !.id = f]
  BY DEF CreateFolder, Fail
<1>3. Grown(dirs, dirs')
  BY <1>1, SameIds
<1>4. CASE \E good : run' = Ended(good)
  <2>1. KeptBase'
    BY <1>1, <1>3, GrownBase DEF KeptNow
  <2> QED BY <1>3, <1>4, <2>1, EndKept
<1>5. CASE Unused # {} /\ run' = [run EXCEPT !.phase = "meta", !.id = f]
  <2>1. f \in Unused
    <3>1. Unused \subseteq Nat
      BY Bounds DEF Unused, F
    <3>2. \E g \in Unused : \A h \in Unused : g <= h
      BY <1>5, <3>1, Least
    <3> QED BY <3>2
  <2> HIDE DEF f
  <2>2. f \notin Known
    BY <2>1, Bounds DEF Unused, Known, Active, F, Root
  <2>3. ~Housed(dirs, f)
    BY <2>2 DEF Housed, Typed, TypedDirs
  <2>4. run'.phase = "meta" /\ run'.plan = run.plan /\ run'.now = run.now /\ run'.id = f
    BY <1>5, RunGoes DEF Typed
  <2>5. PhaseKept'
    BY <1>1, <2>3, <2>4, SameOp DEF PhaseKept
  <2> QED BY <1>1, <1>3, <2>4, <2>5, GoKept
<1> QED BY <1>2, <1>4, <1>5

(* The directory that a new notebook of push gets its metadata in is there    *)
(* since the plan was made.                                                   *)
LEMMA NewMetaWritten ==
    ASSUME Typed, KeptNow, WriteNewMeta
    PROVE  /\ old \in DOMAIN dirs
           /\ dirs' = WithMeta(dirs, old, run.id, op.saw.title)
           /\ run' = [run EXCEPT !.phase = "commit", !.created = Append(run.created, <<old, run.id>>)]
<1>1. op.kind = "create folder" /\ Running
  BY DEF WriteNewMeta, At
<1>2. old \in DOMAIN dirs
  BY <1>1, OpIs DEF KeptNow, PlanKept, AnnounceKept, old, CurrentPath
<1>3. WithDir(dirs, old) = dirs
  BY <1>2, WithDirThere DEF Typed, TypedDirs
<1> QED BY <1>2, <1>3 DEF WriteNewMeta

LEMMA WriteNewMetaKept ==
    ASSUME Typed, KeptNow, WriteNewMeta
    PROVE  KeptNow'
<1> DEFINE created == Append(run.created, <<old, run.id>>)
<1>1. op.kind = "create folder" /\ Running /\ run.phase = "meta" /\ UNCHANGED baseF
  BY DEF WriteNewMeta, At
<1>2. /\ old \in DOMAIN dirs
      /\ dirs' = WithMeta(dirs, old, run.id, op.saw.title)
      /\ run' = [run EXCEPT !.phase = "commit", !.created = created]
  BY NewMetaWritten
<1>3. /\ run'.phase = "commit" /\ run'.plan = run.plan /\ run'.now = run.now
      /\ run'.id = run.id
  BY <1>2 DEF Typed, TypedRun, IsRun
<1>4. op' = op /\ op \in run.plan /\ Tree(dirs)
  BY <1>1, <1>3, SameOp, OpIs DEF Typed, TypedDirs
<1>5. run.id \in 0..NF /\ run.id # 0 /\ op.saw.title \in 1..NT
  <2>1. run.id \in Active /\ op.saw.title \in 1..NT
    BY <1>1, OldAndNew DEF Typed, TypedPhase, TypedOp
  <2> QED BY <2>1, Bounds DEF Active, F
<1>6. /\ DOMAIN dirs' = DOMAIN dirs
      /\ \A q \in DOMAIN dirs :
           dirs'[q] = IF q = old THEN [id |-> run.id, title |-> op.saw.title] ELSE dirs[q]
  BY <1>2, <1>4, <1>5, WithMetaTree
<1>7. \A q \in DOMAIN dirs : dirs'[q].id = IF q = old THEN run.id ELSE dirs[q].id
  BY <1>6
<1>8. ~Housed(dirs, run.id)
  BY <1>1 DEF KeptNow, PhaseKept
<1>9. dirs[old].id = 0
  BY <1>1, <1>4 DEF KeptNow, PlanKept, AnnounceKept, OnlyRow, old, CurrentPath
<1>10. Given(dirs, dirs', old, run.id)
  BY <1>2, <1>5, <1>6, <1>7, <1>8, <1>9 DEF Given
<1>11. Housed(dirs', run.id)
  BY <1>10, GivenIds
<1>12. PhaseKept'
  BY <1>1, <1>3, <1>4, <1>11 DEF PhaseKept
<1> QED BY <1>1, <1>3, <1>10, <1>12, GivenKept

LEMMA CommitNewFolderKept ==
    ASSUME Typed, KeptNow, CommitNewFolder
    PROVE  KeptNow'
<1>1. /\ Running /\ dirs' = dirs /\ run' = Ended(TRUE)
      /\ baseF' = [baseF EXCEPT ![run.id] = remote[run.id]]
      /\ op.kind = "create folder" /\ run.phase = "commit"
  BY DEF CommitNewFolder, At, Done
<1>2. Housed(dirs, run.id)
  BY <1>1 DEF KeptNow, PhaseKept
<1>3. KeptBase'
  BY <1>1, <1>2 DEF KeptNow, KeptBase
<1>4. Grown(dirs, dirs')
  BY <1>1, SameIds
<1> QED BY <1>1, <1>3, <1>4, EndKept

----------------------------------------------------------------------------
(* Steps: operations on notes, the rest of a run, and users.                  *)
LEMMA NotesKept ==
    ASSUME Typed, KeptNow,
           \/ UpdateFolder \/ WriteNote \/ UnlinkOld \/ CommitNote \/ Normalize \/ UpdateNote
           \/ CreateNote \/ WriteId \/ UnlinkDraft \/ CommitNewNote \/ Refused
    PROVE  KeptNow'
<1>1. Running /\ UNCHANGED baseF
  BY DEF UpdateFolder, WriteNote, UnlinkOld, CommitNote, Normalize, UpdateNote, CreateNote,
     WriteId, UnlinkDraft, CommitNewNote, Refused, At
<1>2. Grown(dirs, dirs')
  <2>1. ASSUME UNCHANGED dirs PROVE Grown(dirs, dirs')
    BY <2>1, SameIds
  <2>2. CASE Normalize
    <3>1. new \in Paths /\ Tree(dirs)
      BY <1>1, <2>2, OldAndNew DEF Normalize, At, TypedOp, Typed, TypedDirs
    <3>2. /\ \A q \in DOMAIN dirs : WithDir(dirs, new)[q] = dirs[q]
          /\ DOMAIN dirs \subseteq DOMAIN WithDir(dirs, new)
          /\ \A q \in DOMAIN WithDir(dirs, new) \ DOMAIN dirs : WithDir(dirs, new)[q].id = 0
      BY <3>1, WithDirTree
    <3>3. Grown(dirs, WithDir(dirs, new))
      BY <3>2 DEF Grown
    <3>4. UNCHANGED dirs \/ dirs' = WithDir(dirs, new)
      BY <2>2 DEF Normalize
    <3> QED BY <2>1, <3>3, <3>4
  <2>3. CASE ~Normalize
    BY <2>1, <2>3 DEF UpdateFolder, WriteNote, UnlinkOld, CommitNote, UpdateNote, CreateNote,
       WriteId, UnlinkDraft, CommitNewNote, Refused
  <2> QED BY <2>2, <2>3
<1>3. ASSUME NEW good, run' = Ended(good) PROVE KeptNow'
  <2>1. KeptBase'
    BY <1>1, <1>2, GrownBase DEF KeptNow
  <2> QED BY <1>2, <1>3, <2>1, EndKept
<1>4. ASSUME run.phase # "commit", op.kind \notin {"create dir", "update dir", "create folder"},
             NEW phase, NEW id,
             run' = [run EXCEPT !.phase = phase] \/ run' = [run EXCEPT !.phase = phase, !.id = id]
      PROVE  KeptNow'
  <2>1. run'.plan = run.plan /\ run'.now = run.now
    BY <1>4, RunGoes DEF Typed
  <2>2. PhaseKept'
    BY <1>4, <2>1, QuietKept
  <2> QED BY <1>1, <1>2, <1>4, <2>1, <2>2, GoKept
<1>5. CASE CommitNote \/ Normalize \/ CommitNewNote \/ Refused
  BY <1>3, <1>5 DEF CommitNote, Normalize, CommitNewNote, Refused, Done, Fail
<1>6. CASE UpdateFolder \/ WriteNote \/ UnlinkOld \/ UpdateNote
  <2>1. /\ run.phase # "commit"
        /\ op.kind \notin {"create dir", "update dir", "create folder"}
    BY <1>6 DEF UpdateFolder, WriteNote, UnlinkOld, UpdateNote, At
  <2>2. (\E good : run' = Ended(good)) \/ \E phase : run' = [run EXCEPT !.phase = phase]
    BY <1>6 DEF UpdateFolder, WriteNote, UnlinkOld, UpdateNote, Fail, Go
  <2> QED BY <1>3, <1>4, <2>1, <2>2
<1>7. CASE CreateNote \/ WriteId \/ UnlinkDraft
  <2>1. /\ run.phase # "commit"
        /\ op.kind \notin {"create dir", "update dir", "create folder"}
    BY <1>7 DEF CreateNote, WriteId, UnlinkDraft, At
  <2>2. \/ \E good : run' = Ended(good)
        \/ \E phase : run' = [run EXCEPT !.phase = phase]
        \/ \E phase, id : run' = [run EXCEPT !.phase = phase, !.id = id]
    BY <1>7 DEF CreateNote, WriteId, UnlinkDraft, Fail, Go
  <2> QED BY <1>3, <1>4, <2>1, <2>2
<1> QED BY <1>5, <1>6, <1>7

LEMMA UsersKept ==
    ASSUME Typed, KeptNow,
           Crash \/ Told \/ Filed \/ Made \/ Titled \/ Shifting \/ Carried \/ Drafted
    PROVE  KeptNow'
<1>1. (run' = NoRun \/ \E x : run' = [NoRun EXCEPT !.result = x]) /\ UNCHANGED baseF
  BY DEF Crash, Told, JoplinNotebook, Filed, JoplinNote, Made, NewDir, Titled, Retitle,
     Shifting, MoveDir, Carried, MoveFile, Drafted, NewDraft, Edit
<1>2. run'.plan = {}
  BY <1>1, NoRunTyped
<1>3. Tree(dirs) /\ TypedDirs
  BY DEF Typed, TypedDirs
<1>4. ASSUME Grown(dirs, dirs') PROVE KeptNow'
  <2>1. Unique(dirs)' /\ KeptBase'
    BY <1>1, <1>4, GrownIds, GrownBase DEF KeptNow
  <2> QED BY <1>2, <2>1, IdleKept
<1>5. CASE Made
  <2>1. PICK p \in Places : dirs' = WithDir(dirs, p)
    BY <1>5 DEF Made, NewDir
  <2>2. p \in Paths
    BY <1>3, PlacesShape
  <2>3. /\ \A q \in DOMAIN dirs : WithDir(dirs, p)[q] = dirs[q]
        /\ DOMAIN dirs \subseteq DOMAIN WithDir(dirs, p)
        /\ \A q \in DOMAIN WithDir(dirs, p) \ DOMAIN dirs : WithDir(dirs, p)[q].id = 0
    BY <1>3, <2>2, WithDirTree
  <2>4. Grown(dirs, WithDir(dirs, p))
    BY <2>3 DEF Grown
  <2> QED BY <1>4, <2>1, <2>4
<1>6. CASE Titled
  <2>1. PICK p \in DOMAIN dirs, t \in 1..NT : dirs' = [dirs EXCEPT ![p].title = t]
    BY <1>6 DEF Titled, Retitle
  <2>2. \A q \in DOMAIN dirs : dirs[q] \in DirInfo
          /\ dirs'[q] = IF q = p THEN [dirs[q] EXCEPT !.title = t] ELSE dirs[q]
    BY <1>3, <2>1 DEF Tree
  <2>3. DOMAIN dirs' = DOMAIN dirs /\ \A q \in DOMAIN dirs : dirs'[q].id = dirs[q].id
    BY <2>1, <2>2 DEF DirInfo
  <2> QED BY <1>4, <2>3, SameIds
<1>7. CASE Shifting
  <2>1. PICK p \in DOMAIN dirs, q \in Places : MoveDir(p, q)
    BY <1>7 DEF Shifting
  <2>2. Movable(dirs, p, q)
    BY <1>3, <2>1, PlacesShape DEF MoveDir, Movable
  <2>3. Carries(dirs', dirs, p, q)
    BY <2>1, <2>2, MoveTreeTree, Zenon DEF MoveDir
  <2>4. Unique(dirs)' /\ \A f : Housed(dirs, f) <=> Housed(dirs', f)
    BY <2>2, <2>3, MovedIds, Zenon DEF KeptNow
  <2>5. KeptBase'
    BY <1>1, <2>4 DEF KeptNow, KeptBase
  <2> QED BY <1>2, <2>4, <2>5, IdleKept
<1>8. CASE Crash \/ Told \/ Filed \/ Carried \/ Drafted
  <2>1. UNCHANGED dirs
    BY <1>8 DEF Crash, Told, JoplinNotebook, Filed, JoplinNote, Carried, MoveFile, Drafted, NewDraft
  <2> QED BY <1>4, <2>1, SameIds
<1> QED BY <1>5, <1>6, <1>7, <1>8

LEMMA StaysSpoilt ==
    ASSUME Typed, Next, ~spoilt'
    PROVE  ~spoilt
<1>1. CASE Started
  BY <1>1 DEF Started, Start
<1>2. CASE Crash
  BY <1>2 DEF Crash
<1>3. CASE Fail
  BY <1>3 DEF Fail
<1>4. CASE UNCHANGED spoilt
  BY <1>4
<1>6. CASE RenameDir
  BY <1>3, <1>4, <1>6 DEF RenameDir
<1>5. Started \/ Crash \/ Fail \/ UNCHANGED spoilt \/ RenameDir
  BY NextIs DEF Handler, MakeDir, WriteMeta, CommitDir, WriteNewMeta,
     CreateFolder, UpdateFolder, CommitNewFolder, WriteNote, UnlinkOld, CommitNote, Normalize,
     UpdateNote, CreateNote, WriteId, UnlinkDraft, CommitNewNote, Refused, Told, JoplinNotebook,
     Filed, JoplinNote, Made, NewDir, Titled, Retitle, Shifting, MoveDir, Carried, MoveFile,
     Drafted, NewDraft
<1> QED BY <1>1, <1>2, <1>3, <1>4, <1>5, <1>6

LEMMA KeptStep == Typed /\ Kept /\ [Next]_vars => Kept'
<1> SUFFICES ASSUME Typed, Kept, [Next]_vars, ~spoilt' PROVE KeptNow'
  BY DEF Kept
<1>1. CASE Next
  <2>1. KeptNow
    BY <1>1, StaysSpoilt DEF Kept
  <2>2. CASE Started
    <3>1. PICK pull \in BOOLEAN, push \in BOOLEAN : Start(pull, push)
      BY <2>2 DEF Started
    <3> QED BY <3>1, StartKept
  <2>3. CASE Crash \/ Told \/ Filed \/ Made \/ Titled \/ Shifting \/ Carried \/ Drafted
    BY <2>1, <2>3, UsersKept
  <2>4. CASE Handler
    BY <2>1, <2>4, MakeDirKept, RenameDirKept, WriteMetaKept, CommitDirKept, CreateFolderKept,
       WriteNewMetaKept, CommitNewFolderKept, NotesKept DEF Handler
  <2>5. CASE Refused
    BY <2>1, <2>5, NotesKept
  <2> QED BY <1>1, <2>2, <2>3, <2>4, <2>5, NextIs
<1>2. CASE UNCHANGED vars
  <2>1. run' = run /\ dirs' = dirs /\ baseF' = baseF /\ spoilt' = spoilt
    BY <1>2 DEF vars
  <2>2. op' = op /\ (Running' <=> Running) /\ old' = old
    BY <2>1, SameOp
  <2>3. KeptNow
    BY <2>1 DEF Kept
  <2>4. OnlyRow' = OnlyRow
    BY <2>1, <2>2 DEF OnlyRow
  <2> QED BY <2>1, <2>2, <2>3, <2>4 DEF KeptNow, KeptBase, PhaseKept
<1> QED BY <1>1, <1>2

(* Up to the moment when "spoilt" is set, which is for good: a notebook that  *)
(* the base knows has its directory, and the scan finds it, wherever users    *)
(* and runs have taken it, whichever operations on notes failed and wherever  *)
(* between operations a run died (sync.py _op_pull_create_dir,                *)
(* _op_pull_update_dir).                                                      *)
THEOREM NotebooksKeepDirectories == Spec => []NotebooksKeepTheirDirectory
<1>1. Init => Typed /\ Kept
  BY InitTyped, InitKept
<1>2. Typed /\ Kept /\ [Next]_vars => (Typed /\ Kept)'
  BY TypedStep, KeptStep
<1>3. Typed /\ Kept => NotebooksKeepTheirDirectory
  BY KeptIsEnough
<1> QED BY <1>1, <1>2, <1>3, PTL DEF Spec
==============================================================================
