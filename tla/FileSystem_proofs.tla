-------------------------- MODULE FileSystem_proofs ---------------------------
(***************************************************************************)
(* Proofs about the files of a program.  ReadOnlyKept: what is mounted     *)
(* read-only is changed by no call, whichever layer it goes through.       *)
(* ListingsHold: a listing names what a stat finds, because what is on a   *)
(* mount stays a tree through every call and every part of one (NameInv);  *)
(* and a worker is told of the mounts as they are, because the last list   *)
(* posted is of them and what was concluded from others is doubted by      *)
(* something on its way (MountsInv).                                       *)
(***************************************************************************)
EXTENDS FileSystem, TLAPS, FiniteSetTheorems, SequenceTheorems, WellFoundedInduction

-----------------------------------------------------------------------------
(* Paths *)

\* A path is the beginning of another, item by item.
Begins(p, q) == Len(p) <= Len(q) /\ \A i \in 1 .. Len(p) : p[i] = q[i]

Segments == Seq(Names)

LEMMA SegmentsAre ==
  /\ N!Paths \subseteq Segments /\ \A p \in N!Paths : Len(p) \in 0 .. 2
  /\ \A p \in Segments : Len(p) \in 0 .. 2 => p \in N!Paths
  <1>1. ASSUME NEW p \in N!Paths PROVE p \in Segments /\ Len(p) \in 0 .. 2
    <2>1. CASE p = <<>>
      BY <2>1, EmptySeq DEF Segments
    <2>2. ASSUME NEW n \in Names, p = <<n>> PROVE p \in Segments /\ Len(p) = 1
      BY <2>2 DEF Segments
    <2>3. ASSUME NEW n \in Names, NEW m \in Names, p = <<n, m>> PROVE p \in Segments /\ Len(p) = 2
      BY <2>3 DEF Segments
    <2> QED BY <2>1, <2>2, <2>3, EmptySeq DEF N!Paths
  <1>2. ASSUME NEW p \in Segments, Len(p) \in 0 .. 2 PROVE p \in N!Paths
    <2>1. \A i \in 1 .. Len(p) : p[i] \in Names
      BY ElementOfSeq DEF Segments
    <2>2. CASE Len(p) = 0
      BY <1>2, <2>2, EmptySeq DEF Segments, N!Paths
    <2>3. CASE Len(p) = 1
      <3> QED BY <2>1, <2>3 DEF N!Paths, Segments
    <2>4. CASE Len(p) = 2
      <3> QED BY <2>1, <2>4 DEF N!Paths, Segments
    <2> QED BY <1>2, <2>2, <2>3, <2>4
  <1> QED BY <1>1, <1>2

LEMMA UnderIs ==
  ASSUME NEW p \in N!Paths, NEW q \in N!Paths PROVE N!Under(p, q) <=> Begins(p, q)
  <1>1. p \in Segments /\ q \in Segments /\ Len(p) \in Nat /\ Len(q) \in Nat
    BY SegmentsAre, LenProperties DEF Segments
  <1>2. ASSUME Len(p) <= Len(q) PROVE SubSeq(q, 1, Len(p)) = [i \in 1 .. Len(p) |-> q[i]]
    BY <1>1, <1>2 DEF Segments
  <1> QED BY <1>1, <1>2 DEF N!Under, N!IsPrefix, Begins, Segments

LEMMA UnderOrders ==
  ASSUME NEW p \in N!Paths, NEW q \in N!Paths, NEW o \in N!Paths
  PROVE  /\ N!Under(p, p) /\ N!Under(<<>>, p) /\ <<>> \in N!Paths
         /\ N!Under(p, q) /\ N!Under(q, o) => N!Under(p, o)
         /\ N!Under(p, o) /\ N!Under(q, o) => N!Under(p, q) \/ N!Under(q, p)
         /\ N!Under(p, q) => Len(p) <= Len(q)
         /\ N!Under(p, q) /\ Len(p) = Len(q) => p = q
         /\ N!Under(p, q) /\ N!Under(q, p) => p = q
  <1>1. /\ Len(p) \in Nat /\ Len(q) \in Nat /\ Len(o) \in Nat /\ <<>> \in N!Paths
        /\ p \in Segments /\ q \in Segments
    BY SegmentsAre DEF N!Paths
  <1>2. Begins(p, q) /\ Len(p) = Len(q) => p = q
    BY <1>1, SeqEqual DEF Begins, Segments
  <1>3. Begins(p, q) /\ Begins(q, o) => Begins(p, o)
    BY <1>1 DEF Begins
  <1>4. Begins(p, o) /\ Begins(q, o) => Begins(p, q) \/ Begins(q, p)
    BY <1>1 DEF Begins
  <1>5. Begins(<<>>, p) /\ Begins(p, p) /\ (Begins(p, q) => Len(p) <= Len(q)) /\ (Begins(q, p) => Len(q) <= Len(p))
    BY <1>1, EmptySeq DEF Begins
  <1> QED BY <1>1, UnderIs, <1>2, <1>3, <1>4, <1>5

\* What is above a path is what begins it.
LEMMA AboveIs ==
  ASSUME NEW p \in N!Paths
  PROVE  /\ N!Above(p) \subseteq N!Paths
         /\ \A q \in N!Paths : q \in N!Above(p) <=> q # p /\ N!Under(q, p)
  <1>1. /\ p \in Segments /\ Len(p) \in 0 .. 2 /\ p \in Seq(Names)
    BY SegmentsAre DEF Segments
  <1>2. ASSUME NEW i \in 0 .. Len(p) - 1
        PROVE  /\ SubSeq(p, 1, i) \in N!Paths /\ Len(SubSeq(p, 1, i)) = i
               /\ Begins(SubSeq(p, 1, i), p)
    <2>1. SubSeq(p, 1, i) \in Seq(Names) /\ Len(SubSeq(p, 1, i)) = i
          /\ \A j \in 1 .. i : SubSeq(p, 1, i)[j] = p[j]
      BY <1>1, SubSeqProperties
    <2>2. i \in 0 .. 2 /\ i <= Len(p) /\ SubSeq(p, 1, i) \in Segments
      BY <1>1, <2>1 DEF Segments
    <2>3. Begins(SubSeq(p, 1, i), p)
      BY <2>1, <2>2 DEF Begins
    <2> QED BY <2>1, <2>2, SegmentsAre, <2>3
  <1>3. ASSUME NEW q \in N!Paths, q # p, Begins(q, p) PROVE q \in N!Above(p)
    <2>1. q \in Segments /\ Len(q) \in 0 .. 2
      BY SegmentsAre
    <2>2. Len(q) \in 0 .. Len(p) - 1
      BY <1>1, <1>3, <2>1, SeqEqual DEF Begins, Segments
    <2>3. q = SubSeq(p, 1, Len(q))
      BY <1>3, <2>1, <1>1, <2>2, SubSeqProperties, SeqEqual DEF Begins, Segments
    <2> QED BY <2>2, <2>3 DEF N!Above
  <1>4. \A q \in N!Above(p) : q \in N!Paths /\ q # p /\ Begins(q, p)
    <2>1. ASSUME NEW q \in N!Above(p) PROVE q \in N!Paths /\ q # p /\ Begins(q, p)
      <3>1. PICK i \in 0 .. Len(p) - 1 : q = SubSeq(p, 1, i)
        BY DEF N!Above
      <3> QED BY <1>2, <3>1, <1>1
    <2> QED BY <2>1
  <1> QED BY <1>3, <1>4, UnderIs

-----------------------------------------------------------------------------
(* Trees of files *)

Nodelike(x) == x = N!None \/ x = N!Dir \/ x = N!File(x.data)

\* Above whatever is there, there are directories.
Treelike(t) ==
  /\ DOMAIN t = N!Paths /\ \A p \in N!Paths : Nodelike(t[p])
  /\ t[<<>>] = N!Dir
  /\ \A p, q \in N!Paths : q # p /\ N!Under(q, p) /\ t[p] # N!None => t[q] = N!Dir

\* A memory mount has one level, as its paths are those below its point.
Shallow(t) == \A p \in N!Paths : Len(p) = 2 => t[p] = N!None

LEMMA NodesAre ==
  /\ \A x : Nodelike(x) => /\ x.kind \in {"none", "dir", "file"}
                           /\ x.kind = "none" <=> x = N!None
                           /\ x.kind = "dir" <=> x = N!Dir
  /\ \A d : Nodelike(N!File(d)) /\ N!File(d) # N!None /\ N!File(d) # N!Dir /\ N!File(d).kind = "file"
  /\ Nodelike(N!None) /\ Nodelike(N!Dir) /\ N!Dir # N!None
  <1>1. N!None.kind = "none" /\ N!Dir.kind = "dir"
    BY DEF N!None, N!Dir
  <1>2. \A d : N!File(d).kind = "file" /\ N!File(d).data = d
    BY DEF N!File
  <1>3. ASSUME NEW x, Nodelike(x)
        PROVE  /\ x.kind \in {"none", "dir", "file"}
               /\ x.kind = "none" <=> x = N!None
               /\ x.kind = "dir" <=> x = N!Dir
    BY <1>1, <1>2, <1>3 DEF Nodelike
  <1>4. \A d : N!File(d) # N!None /\ N!File(d) # N!Dir
    BY <1>1, <1>2
  <1>5. Nodelike(N!None) /\ Nodelike(N!Dir) /\ N!Dir # N!None
    BY <1>1 DEF Nodelike
  <1> QED BY <1>2, <1>3, <1>4, <1>5 DEF Nodelike

LEMMA GoneIs ==
  ASSUME NEW t, Treelike(t), NEW p \in N!Paths, p # <<>>
  PROVE  Treelike(N!Gone(t, p)) /\ (Shallow(t) => Shallow(N!Gone(t, p)))
  <1>1. /\ DOMAIN N!Gone(t, p) = N!Paths
        /\ \A q \in N!Paths : N!Gone(t, p)[q] = IF N!Under(p, q) THEN N!None ELSE t[q]
    BY DEF N!Gone
  <1>2. ASSUME NEW o \in N!Paths, NEW q \in N!Paths, q # o, N!Under(q, o), N!Gone(t, p)[o] # N!None
        PROVE  N!Gone(t, p)[q] = N!Dir
    <2>1. ~ N!Under(p, o) /\ t[o] # N!None
      BY <1>1, <1>2
    <2> QED BY <1>1, <1>2, <2>1, UnderOrders DEF Treelike
  <1>3. N!Gone(t, p)[<<>>] = N!Dir
    BY <1>1, UnderOrders DEF Treelike
  <1>4. Treelike(N!Gone(t, p))
    BY <1>1, <1>2, <1>3, NodesAre DEF Treelike
  <1> QED BY <1>1, <1>4 DEF Shallow

\* Something is put where its parent is, in the place of what has nothing below it.
LEMMA PutIs ==
  ASSUME NEW t, Treelike(t), NEW p \in N!Paths, p # <<>>, NEW x, Nodelike(x),
         \A q \in N!Above(p) : t[q].kind = "dir",
         x # N!Dir => \A q \in N!Paths : q # p /\ N!Under(p, q) => t[q] = N!None
  PROVE  /\ Treelike([t EXCEPT ![p] = x])
         /\ Shallow(t) /\ Len(p) <= 1 => Shallow([t EXCEPT ![p] = x])
  <1> DEFINE n == [t EXCEPT ![p] = x]
  <1>1. DOMAIN n = N!Paths /\ n[p] = x /\ \A q \in N!Paths : q # p => n[q] = t[q]
    BY DEF Treelike
  <1> HIDE DEF n
  <1>2. ASSUME NEW o \in N!Paths, NEW q \in N!Paths, q # o, N!Under(q, o), n[o] # N!None
        PROVE  n[q] = N!Dir
    <2>1. CASE o = p
      BY <1>1, AboveIs, NodesAre, <1>2, <2>1 DEF Treelike
    <2>2. CASE o # p /\ q # p
      BY <1>1, <1>2, <2>2 DEF Treelike
    <2>3. CASE o # p /\ q = p
      BY <1>1, <1>2, <2>3
    <2> QED BY <2>1, <2>2, <2>3
  <1>3. \A q \in N!Paths : Nodelike(n[q])
    BY <1>1 DEF Treelike
  <1>4. Treelike(n)
    BY <1>1, <1>2, UnderOrders, <1>3 DEF Treelike
  <1> QED BY <1>4, <1>1 DEF n, Shallow

\* What an operation on a tree answers is a tree, and of one level if it had one.
LEMMA PlacedIs ==
  ASSUME NEW t, NEW p, NEW res
  PROVE  \/ N!Placed(t, p, res).t = t
         \/ p # <<>> /\ (\A q \in N!Above(p) : t[q].kind = "dir") /\ N!Placed(t, p, res) = res
  <1>1. CASE p = <<>>
    BY <1>1 DEF N!Placed, N!Err
  <1>2. CASE p # <<>> /\ \E q \in N!Above(p) : t[q].kind # "dir"
    BY <1>2 DEF N!Placed, N!Err
  <1>3. CASE p # <<>> /\ \A q \in N!Above(p) : t[q].kind = "dir"
    BY <1>3 DEF N!Placed
  <1> QED BY <1>1, <1>2, <1>3

LEMMA WriteToIs ==
  ASSUME NEW t, Treelike(t), NEW p \in N!Paths, NEW d
  PROVE  /\ Treelike(N!WriteTo(t, p, d).t)
         /\ Shallow(t) /\ Len(p) <= 1 => Shallow(N!WriteTo(t, p, d).t)
  <1> DEFINE res == IF t[p].kind = "dir" THEN N!Err(t, "isdir") ELSE N!Ok([t EXCEPT ![p] = N!File(d)])
  <1>1. N!WriteTo(t, p, d) = N!Placed(t, p, res)
    BY DEF N!WriteTo
  <1>2. res.t = t \/ (t[p].kind # "dir" /\ res.t = [t EXCEPT ![p] = N!File(d)])
    BY DEF N!Err, N!Ok
  <1> HIDE DEF res
  <1>3. CASE N!WriteTo(t, p, d).t = t
    BY <1>3
  <1>4. CASE /\ p # <<>> /\ \A q \in N!Above(p) : t[q].kind = "dir"
             /\ t[p].kind # "dir" /\ N!WriteTo(t, p, d).t = [t EXCEPT ![p] = N!File(d)]
    <2>1. \A q \in N!Paths : q # p /\ N!Under(p, q) => t[q] = N!None
      BY <1>4, NodesAre DEF Treelike
    <2> QED BY <1>4, <2>1, PutIs, NodesAre
  <1> QED BY <1>1, <1>2, <1>3, <1>4, PlacedIs

LEMMA MkdirpIs ==
  ASSUME NEW t, Treelike(t), NEW p \in N!Paths
  PROVE  /\ Treelike(N!Mkdirp(t, p).t)
         /\ Shallow(t) /\ Len(p) <= 1 => Shallow(N!Mkdirp(t, p).t)
         /\ N!Mkdirp(t, p).err = "ok" => \A q \in N!Paths : N!Under(q, p) => N!Mkdirp(t, p).t[q] = N!Dir
  <1> DEFINE n == [q \in N!Paths |-> IF N!Under(q, p) THEN N!Dir ELSE t[q]]
  <1>1. \/ N!Mkdirp(t, p).t = t /\ N!Mkdirp(t, p).err # "ok"
        \/ N!Mkdirp(t, p).t = n
    BY DEF N!Mkdirp, N!Err, N!Ok
  <1>2. DOMAIN n = N!Paths /\ \A q \in N!Paths : n[q] = IF N!Under(q, p) THEN N!Dir ELSE t[q]
    OBVIOUS
  <1> HIDE DEF n
  <1>3. Treelike(n)
    <2>1. ASSUME NEW o \in N!Paths, NEW q \in N!Paths, q # o, N!Under(q, o), n[o] # N!None
          PROVE  n[q] = N!Dir
      <3>1. CASE N!Under(o, p)
        BY <1>2, <2>1, <3>1, UnderOrders
      <3>2. CASE ~ N!Under(o, p)
        BY <1>2, <2>1, <3>2 DEF Treelike
      <3> QED BY <3>1, <3>2
    <2>2. \A q \in N!Paths : Nodelike(n[q])
      BY <1>2, NodesAre DEF Treelike
    <2> QED BY <1>2, <2>1, UnderOrders, <2>2 DEF Treelike
  <1>4. Shallow(t) /\ Len(p) <= 1 => Shallow(n)
    <2>1. \A q \in N!Paths : Len(q) = 2 /\ Len(p) <= 1 => ~ N!Under(q, p)
      BY UnderOrders, SegmentsAre
    <2> QED BY <1>2, <2>1 DEF Shallow
  <1> QED BY <1>1, <1>2, <1>3, <1>4

LEMMA MkdirInIs ==
  ASSUME NEW t, Treelike(t), NEW p \in N!Paths, NEW f \in BOOLEAN
  PROVE  /\ Treelike(N!MkdirIn(t, p, f).t)
         /\ Shallow(t) /\ Len(p) <= 1 => Shallow(N!MkdirIn(t, p, f).t)
  <1>1. CASE f
    <2> QED BY <1>1, MkdirpIs DEF N!MkdirIn
  <1>2. CASE ~ f
    <2> DEFINE res == IF t[p] # N!None THEN N!Err(t, "exists") ELSE N!Ok([t EXCEPT ![p] = N!Dir])
    <2>1. N!MkdirIn(t, p, f) = N!Placed(t, p, res)
      BY <1>2 DEF N!MkdirIn
    <2>2. res.t = t \/ res.t = [t EXCEPT ![p] = N!Dir]
      BY DEF N!Err, N!Ok
    <2> HIDE DEF res
    <2>3. CASE N!MkdirIn(t, p, f).t = t
      BY <2>3
    <2>4. CASE /\ p # <<>> /\ \A q \in N!Above(p) : t[q].kind = "dir"
               /\ N!MkdirIn(t, p, f).t = [t EXCEPT ![p] = N!Dir]
      BY <2>4, PutIs, NodesAre
    <2> QED BY <2>1, <2>2, <2>3, <2>4, PlacedIs
  <1> QED BY <1>1, <1>2

LEMMA RmFromIs ==
  ASSUME NEW t, Treelike(t), NEW p \in N!Paths, NEW f, NEW g
  PROVE  /\ Treelike(N!RmFrom(t, p, f, g).t)
         /\ Shallow(t) => Shallow(N!RmFrom(t, p, f, g).t)
  <1> QED BY GoneIs DEF N!RmFrom, N!Err, N!Ok

LEMMA CopyInIs ==
  ASSUME NEW t, Treelike(t), NEW p \in N!Paths, NEW q \in N!Paths, NEW f
  PROVE  /\ Treelike(N!CopyIn(t, p, q, f).t)
         /\ Shallow(t) /\ Len(q) <= 1 => Shallow(N!CopyIn(t, p, q, f).t)
  <1> DEFINE n == [N!Gone(t, q) EXCEPT ![q] = t[p]]
             res == IF t[q] # N!None /\ ~ f THEN N!Err(t, "exists") ELSE N!Ok(n)
  <1>1. res.t = t \/ res.t = n
    BY DEF N!Err, N!Ok
  <1>2. N!CopyIn(t, p, q, f).t = t \/ (t[p].kind = "file" /\ N!CopyIn(t, p, q, f) = N!Placed(t, q, res))
    BY DEF N!CopyIn, N!Err
  <1> HIDE DEF res
  <1>3. CASE N!CopyIn(t, p, q, f).t = t
    BY <1>3
  <1>4. CASE /\ t[p].kind = "file" /\ q # <<>> /\ \A o \in N!Above(q) : t[o].kind = "dir"
             /\ N!CopyIn(t, p, q, f).t = n
    <2>1. /\ Treelike(N!Gone(t, q)) /\ (Shallow(t) => Shallow(N!Gone(t, q)))
          /\ \A o \in N!Paths : N!Gone(t, q)[o] = IF N!Under(q, o) THEN N!None ELSE t[o]
      BY <1>4, GoneIs DEF N!Gone
    <2>2. Nodelike(t[p])
      BY DEF Treelike
    <2> QED BY <1>4, <2>1, AboveIs, UnderOrders, <2>2, PutIs
  <1> QED BY <1>1, <1>2, <1>3, <1>4, PlacedIs

\* Nothing is moved into itself.
LEMMA RenameInIs ==
  ASSUME NEW t, Treelike(t), NEW from \in N!Paths, NEW to \in N!Paths,
         from = to \/ ~ N!Under(from, to)
  PROVE  /\ Treelike(N!RenameIn(t, from, to).t)
         /\ Shallow(t) /\ Len(from) <= 1 /\ Len(to) <= 1 => Shallow(N!RenameIn(t, from, to).t)
  <1> DEFINE Old(q) == from \o SubSeq(q, Len(to) + 1, Len(q))
             n == [q \in N!Paths |->
                     IF N!Under(to, q) THEN IF Old(q) \in N!Paths THEN t[Old(q)] ELSE N!None
                     ELSE IF N!Under(from, q) THEN N!None ELSE t[q]]
             last == IF from = to \/ t[to] = N!None THEN N!Ok(n)
                     ELSE IF t[from].kind = "dir" /\ t[to].kind # "dir" THEN N!Err(t, "missing")
                     ELSE IF t[from].kind # "dir" /\ t[to].kind = "dir" THEN N!Err(t, "isdir")
                     ELSE IF N!Kids(t, to) # {} THEN N!Err(t, "notempty") ELSE N!Ok(n)
             first == IF t[from] = N!None THEN N!Err(t, "missing") ELSE N!Placed(t, to, last)
  <1>1. N!RenameIn(t, from, to) = N!Placed(t, from, first)
    BY DEF N!RenameIn
  <1>2. last.t = t \/ last.t = n
    BY DEF N!Ok, N!Err
  <1>3. \A q \in N!Paths : n[q] = IF N!Under(to, q) THEN IF Old(q) \in N!Paths THEN t[Old(q)] ELSE N!None
                                ELSE IF N!Under(from, q) THEN N!None ELSE t[q]
    OBVIOUS
  <1>4. DOMAIN n = N!Paths
    OBVIOUS
  <1>5. first.t = t \/ first = N!Placed(t, to, last)
    BY DEF N!Err
  <1> HIDE DEF last, n, first
  <1>6. ASSUME NEW o \in N!Paths, NEW q \in N!Paths, N!Under(to, q), N!Under(q, o), Old(o) \in N!Paths
        PROVE  Old(q) \in N!Paths /\ N!Under(Old(q), Old(o)) /\ (o # q => Old(o) # Old(q))
    <2>1. /\ from \in Seq(Names) /\ to \in Seq(Names) /\ q \in Seq(Names) /\ o \in Seq(Names)
          /\ Len(from) \in 0 .. 2 /\ Len(to) \in 0 .. 2 /\ Len(q) \in 0 .. 2 /\ Len(o) \in 0 .. 2
          /\ Begins(to, q) /\ Begins(q, o) /\ Len(Old(o)) \in 0 .. 2
      BY <1>6, SegmentsAre, UnderIs DEF Segments
    <2>2. ASSUME NEW x \in Seq(Names), Len(to) <= Len(x)
          PROVE  /\ Old(x) \in Seq(Names) /\ Len(Old(x)) = Len(from) + Len(x) - Len(to)
                 /\ \A i \in 1 .. Len(Old(x)) :
                      Old(x)[i] = IF i <= Len(from) THEN from[i] ELSE x[Len(to) + i - Len(from)]
      <3> DEFINE rest == SubSeq(x, Len(to) + 1, Len(x))
      <3>1. /\ rest \in Seq(Names) /\ Len(rest) = Len(x) - Len(to)
            /\ \A i \in 1 .. Len(x) - Len(to) : rest[i] = x[Len(to) + i]
        BY <2>1, <2>2, SubSeqProperties
      <3>2. Old(x) = from \o rest
        OBVIOUS
      <3> HIDE DEF Old, rest
      <3>3. /\ Old(x) \in Seq(Names) /\ Len(Old(x)) = Len(from) + Len(rest)
            /\ \A i \in 1 .. Len(from) + Len(rest) :
                 Old(x)[i] = IF i <= Len(from) THEN from[i] ELSE rest[i - Len(from)]
        <4>1. /\ from \o rest \in Seq(Names) /\ Len(from \o rest) = Len(from) + Len(rest)
              /\ \A i \in 1 .. Len(from) + Len(rest) :
                   (from \o rest)[i] = IF i <= Len(from) THEN from[i] ELSE rest[i - Len(from)]
          BY <2>1, <3>1, ConcatProperties
        <4> QED BY <3>2, <4>1
      <3>4. Len(from) \in Nat /\ Len(to) \in Nat /\ Len(x) \in Nat
        BY <2>1, <2>2, LenProperties
      <3>5. Len(Old(x)) = Len(from) + Len(x) - Len(to)
        BY <3>1, <3>3, <3>4
      <3>6. ASSUME NEW i \in 1 .. Len(Old(x))
            PROVE  Old(x)[i] = IF i <= Len(from) THEN from[i] ELSE x[Len(to) + i - Len(from)]
        <4>1. Old(x)[i] = IF i <= Len(from) THEN from[i] ELSE rest[i - Len(from)]
          BY <3>3
        <4>2. CASE i <= Len(from)
          BY <4>1, <4>2
        <4>3. CASE ~ i <= Len(from)
          <5>1. i - Len(from) \in 1 .. Len(x) - Len(to)
            BY <3>4, <3>5, <4>3
          <5>2. Len(to) + (i - Len(from)) = Len(to) + i - Len(from)
            BY <3>4
          <5>3. rest[i - Len(from)] = x[Len(to) + (i - Len(from))]
            BY <3>1, <5>1
          <5> QED BY <4>1, <4>3, <5>2, <5>3
        <4> QED BY <4>2, <4>3
      <3> QED BY <3>3, <3>5, <3>6
    <2> HIDE DEF Old
    <2>3. Len(to) <= Len(q) /\ Len(to) <= Len(o) /\ Len(q) <= Len(o)
      BY <2>1 DEF Begins
    <2>4. /\ Old(q) \in Seq(Names) /\ Len(Old(q)) = Len(from) + Len(q) - Len(to)
          /\ \A i \in 1 .. Len(Old(q)) :
               Old(q)[i] = IF i <= Len(from) THEN from[i] ELSE q[Len(to) + i - Len(from)]
      BY <2>1, <2>2, <2>3
    <2>5. /\ Old(o) \in Seq(Names) /\ Len(Old(o)) = Len(from) + Len(o) - Len(to)
          /\ \A i \in 1 .. Len(Old(o)) :
               Old(o)[i] = IF i <= Len(from) THEN from[i] ELSE o[Len(to) + i - Len(from)]
      BY <2>1, <2>2, <2>3
    <2>6. Len(Old(q)) \in 0 .. 2 /\ Len(Old(q)) <= Len(Old(o))
      <3>1. Len(Old(q)) = Len(from) + Len(q) - Len(to) /\ Len(Old(o)) = Len(from) + Len(o) - Len(to)
        BY <2>4, <2>5
      <3> QED BY <2>1, <2>3, <3>1
    <2>7. Old(q) \in N!Paths
      BY <2>4, <2>6, SegmentsAre DEF Segments
    <2>8. Begins(Old(q), Old(o))
      BY <2>1, <2>4, <2>5, <2>6 DEF Begins
    <2>9. o # q => Len(o) # Len(q)
      BY <2>1, SeqEqual DEF Begins
    <2> QED BY <1>6, <2>1, <2>4, <2>5, <2>7, <2>8, <2>9, UnderIs
  <1> HIDE DEF Old
  <1>7. ASSUME from # <<>>, to # <<>>, \A q \in N!Above(to) : t[q].kind = "dir" PROVE Treelike(n)
    <2>1. ASSUME NEW o \in N!Paths, NEW q \in N!Paths, q # o, N!Under(q, o), n[o] # N!None PROVE n[q] = N!Dir
      <3>1. CASE N!Under(to, o) /\ N!Under(to, q)
        <4>1. Old(o) \in N!Paths /\ n[o] = t[Old(o)] /\ t[Old(o)] # N!None
          BY <1>3, <2>1, <3>1
        <4>2. Old(q) \in N!Paths /\ N!Under(Old(q), Old(o)) /\ Old(o) # Old(q)
          BY <1>6, <2>1, <3>1, <4>1
        <4> QED BY <1>3, <3>1, <4>2, <4>1 DEF Treelike
      <3>2. CASE N!Under(to, o) /\ ~ N!Under(to, q)
        <4>1. N!Under(q, to) /\ q # to
          BY <2>1, <3>2, UnderOrders
        <4>2. ~ N!Under(from, q)
          BY <3>2, <4>1, UnderOrders
        <4> QED BY <1>3, <1>7, AboveIs, NodesAre, <3>2, <4>1, <4>2 DEF Treelike
      <3>3. CASE ~ N!Under(to, o)
        <4>1. ~ N!Under(from, o) /\ n[o] = t[o]
          BY <1>3, <2>1, <3>3
        <4> QED BY <1>3, <2>1, <4>1, <3>3, UnderOrders DEF Treelike
      <3> QED BY <3>1, <3>2, <3>3
    <2>2. n[<<>>] = N!Dir
      <3> QED BY <1>3, <1>7, UnderOrders DEF Treelike
    <2>3. \A q \in N!Paths : Nodelike(n[q])
      BY <1>3, NodesAre DEF Treelike
    <2> QED BY <1>4, <2>1, <2>2, <2>3 DEF Treelike
  <1>8. ASSUME Shallow(t), Len(from) <= 1, Len(to) <= 1, to # <<>>, from # <<>> PROVE Shallow(n)
    <2>1. ASSUME NEW q \in N!Paths, Len(q) = 2, n[q] # N!None PROVE FALSE
      <3>1. /\ from \in Seq(Names) /\ to \in Seq(Names) /\ q \in Seq(Names) /\ Len(from) = 1 /\ Len(to) = 1
        BY <1>8, SegmentsAre, EmptySeq DEF Segments
      <3>2. SubSeq(q, Len(to) + 1, Len(q)) \in Seq(Names) /\ Len(SubSeq(q, Len(to) + 1, Len(q))) = 1
        BY <2>1, <3>1
      <3> DEFINE rest == SubSeq(q, Len(to) + 1, Len(q))
      <3>3. rest \in Seq(Names) /\ Len(rest) = 1 /\ Old(q) = from \o rest
        BY <3>2 DEF Old
      <3> HIDE DEF rest, Old
      <3>4. Len(Old(q)) = 2
        <4>1. Len(from \o rest) = Len(from) + Len(rest)
          BY <3>1, <3>3, ConcatProperties
        <4> QED BY <3>1, <3>3, <4>1
      <3> QED BY <1>8, <1>3, <2>1, <3>4 DEF Shallow
    <2> QED BY <2>1 DEF Shallow
  <1>9. CASE N!RenameIn(t, from, to).t = t
    BY <1>9
  <1>10. CASE /\ from # <<>> /\ to # <<>> /\ (\A q \in N!Above(to) : t[q].kind = "dir")
              /\ N!RenameIn(t, from, to).t = n
    BY <1>7, <1>8, <1>10
  <1>11. \/ N!RenameIn(t, from, to).t = t
         \/ from # <<>> /\ N!RenameIn(t, from, to) = N!Placed(t, to, last)
    BY <1>1, <1>5, PlacedIs
  <1> QED BY <1>2, <1>9, <1>10, <1>11, PlacedIs

-----------------------------------------------------------------------------
(* What a call of a provider leaves *)

\* A mount that serves a path.
Serving(m, p) ==
  /\ m.up \in BOOLEAN
  /\ \/ m.low = "L" /\ m.base = <<>>
     \/ m.low = "M" /\ m.base = <<Point>> /\ N!Under(<<Point>>, p)

Trees(x) ==
  /\ x = [O |-> x.O, L |-> x.L, M |-> x.M]
  /\ Treelike(x.O) /\ Treelike(x.L) /\ Treelike(x.M) /\ Shallow(x.M)

\* What is read-only is as it was.
Outcome(res) == Trees(res.s) /\ (mount.readOnly => res.s.M = s.M)

LEMMA ResolveIs ==
  ASSUME NEW p \in N!Paths, mount.layered \in BOOLEAN
  PROVE  Serving(N!Resolve(p), p)
  <1>1. CASE mount.there /\ p # <<>> /\ p[1] = Point
    <2>1. N!AtPoint.up = mount.layered /\ N!AtPoint.low = "M" /\ N!AtPoint.base = <<Point>>
      BY DEF N!AtPoint
    <2>2. <<Point>> \in N!Paths /\ Len(<<Point>>) = 1 /\ <<Point>>[1] = Point
      BY FileSystemAssumption DEF N!Paths
    <2>3. Len(p) >= 1
      <3> QED BY <1>1, SegmentsAre, EmptySeq DEF Segments
    <2>4. Begins(<<Point>>, p)
      BY <1>1, <2>2, <2>3 DEF Begins
    <2> QED BY <1>1, <2>1, <2>2, <2>4, UnderIs DEF Serving, N!Resolve
  <1>2. CASE ~ (mount.there /\ p # <<>> /\ p[1] = Point)
    <2>1. N!Root.up = TRUE /\ N!Root.low = "L" /\ N!Root.base = <<>>
      BY DEF N!Root
    <2> QED BY <1>2, <2>1 DEF Serving, N!Resolve
  <1> QED BY <1>1, <1>2

LEMMA LocalIs ==
  ASSUME NEW p \in N!Paths, NEW m, Serving(m, p)
  PROVE  /\ N!Local(m, p) \in N!Paths
         /\ m.low = "M" => Len(N!Local(m, p)) <= 1
         /\ m.low = "L" => N!Local(m, p) = p
  <1>1. p \in Seq(Names) /\ Len(p) \in 0 .. 2
    BY SegmentsAre DEF Segments
  <1>2. CASE m.low = "L" /\ m.base = <<>>
    <2>1. N!Local(m, p) = SubSeq(p, 1, Len(p))
      BY <1>2, EmptySeq DEF N!Local
    <2> QED BY <1>2, <2>1, <1>1, SubSeqFull
  <1>3. CASE m.low = "M" /\ m.base = <<Point>>
    <2>1. N!Local(m, p) = SubSeq(p, 2, Len(p))
      BY <1>3 DEF N!Local
    <2>2. Len(p) >= 1
      <3>1. <<Point>> \in N!Paths /\ N!Under(<<Point>>, p)
        BY <1>3, FileSystemAssumption DEF N!Paths, Serving
      <3>2. Len(<<Point>>) <= Len(p)
        BY <3>1, UnderOrders
      <3> QED BY <3>2
    <2>3. SubSeq(p, 2, Len(p)) \in Seq(Names) /\ Len(SubSeq(p, 2, Len(p))) = Len(p) - 1
      BY <1>1, <2>2, SubSeqProperties
    <2> DEFINE l == N!Local(m, p)
    <2>4. l \in Segments
      BY <2>1, <2>3 DEF Segments
    <2>5. Len(l) = Len(p) - 1
      BY <2>1, <2>3
    <2> HIDE DEF l
    <2>6. Len(l) \in 0 .. 2 /\ Len(l) <= 1
      BY <1>1, <2>2, <2>5
    <2>7. l \in N!Paths
      BY <2>4, <2>6, SegmentsAre
    <2> QED BY <2>6, <2>7, <1>3 DEF l
  <1> QED BY <1>2, <1>3 DEF Serving

LEMMA DoesIs ==
  ASSUME Trees(s), NEW res, Treelike(res.t)
  PROVE  /\ Outcome(N!Does("O", res)) /\ Outcome(N!Does("L", res))
         /\ Shallow(res.t) /\ ~ mount.readOnly => Outcome(N!Does("M", res))
         /\ \A e, v : Outcome(N!Answer(e, v))
         /\ Outcome([N!Does("L", res) EXCEPT !.err = "io"])
  <1>1. s = [O |-> s.O, L |-> s.L, M |-> s.M] /\ Treelike(s.O) /\ Treelike(s.L) /\ Treelike(s.M) /\ Shallow(s.M)
    BY DEF Trees
  <1>2. /\ [s EXCEPT !["O"] = res.t] = [O |-> res.t, L |-> s.L, M |-> s.M]
        /\ [s EXCEPT !["L"] = res.t] = [O |-> s.O, L |-> res.t, M |-> s.M]
        /\ [s EXCEPT !["M"] = res.t] = [O |-> s.O, L |-> s.L, M |-> res.t]
    <2> DEFINE a == s.O
               b == s.L
               c == s.M
    <2>1. s = [O |-> a, L |-> b, M |-> c]
      BY <1>1
    <2> HIDE DEF a, b, c
    <2>2. [s EXCEPT !["O"] = res.t] = [O |-> res.t, L |-> b, M |-> c]
      BY ONLY <2>1
    <2>3. [s EXCEPT !["L"] = res.t] = [O |-> a, L |-> res.t, M |-> c]
      BY ONLY <2>1
    <2>4. [s EXCEPT !["M"] = res.t] = [O |-> a, L |-> b, M |-> res.t]
      BY ONLY <2>1
    <2> QED BY <2>2, <2>3, <2>4 DEF a, b, c
  <1>3. /\ N!Does("O", res).s = [O |-> res.t, L |-> s.L, M |-> s.M]
        /\ N!Does("L", res).s = [O |-> s.O, L |-> res.t, M |-> s.M]
        /\ N!Does("M", res).s = [O |-> s.O, L |-> s.L, M |-> res.t]
        /\ [N!Does("L", res) EXCEPT !.err = "io"].s = N!Does("L", res).s
    BY <1>2 DEF N!Does
  <1>4. Shallow(res.t) /\ ~ mount.readOnly => Outcome(N!Does("M", res))
    BY <1>1, <1>3 DEF Outcome, Trees
  <1>5. \A e, v : Outcome(N!Answer(e, v))
    BY DEF Outcome, N!Answer
  <1>6. Outcome([N!Does("L", res) EXCEPT !.err = "io"])
    BY <1>1, <1>3 DEF Outcome, Trees
  <1> QED BY <1>1, <1>3, <1>4, <1>5, <1>6 DEF Outcome, Trees

LEMMA LayersAre ==
  ASSUME Trees(s), NEW m, m.low \in {"L", "M"}, NEW res, Treelike(res.t)
  PROVE  /\ \A x \in N!Upper(res) : Outcome(x)
         /\ (m.low = "M" => Shallow(res.t)) => \A x \in N!Lower(m, res) : Outcome(x)
         /\ \A S : (\A x \in S : Outcome(x)) => \A x \in N!Allowed(m, S) : Outcome(x)
  <1>1. ASSUME m.low = "M" => Shallow(res.t), NEW x \in N!Lower(m, res) PROVE Outcome(x)
    <2>1. CASE m.low = "M"
      <3> QED BY <1>1, <2>1, DoesIs DEF N!Lower
    <2>2. CASE m.low # "M"
      <3> QED BY <1>1, <2>2, DoesIs DEF N!Lower
    <2> QED BY <2>1, <2>2
  <1>2. ASSUME NEW S, \A x \in S : Outcome(x) PROVE \A x \in N!Allowed(m, S) : Outcome(x)
    BY <1>2, DoesIs DEF N!Allowed
  <1> QED BY DoesIs, <1>1, <1>2 DEF N!Upper

\* Each call of the facade.
LEMMA CallsLeave ==
  ASSUME Trees(s), NEW p \in N!Paths, NEW m, Serving(m, p)
  PROVE  /\ \A d : \A x \in N!Write(m, p, d) : Outcome(x)
         /\ \A f \in BOOLEAN : \A x \in N!Mkdir(m, p, f) : Outcome(x)
         /\ \A f, g : \A x \in N!Rm(m, p, f, g) : Outcome(x)
  <1> DEFINE l == N!Local(m, p)
  <1>1. /\ l \in N!Paths /\ (m.low = "M" => Len(l) <= 1) /\ m.low \in {"L", "M"}
        /\ Treelike(s.O) /\ Treelike(s[m.low]) /\ (m.low = "M" => Shallow(s[m.low]))
    <2> QED BY LocalIs DEF Trees, Serving
  <1> HIDE DEF l
  <1>2. ASSUME NEW d, NEW x \in N!Write(m, p, d) PROVE Outcome(x)
    <2> DEFINE res == N!WriteTo(s[m.low], l, d)
    <2>1. Treelike(N!WriteTo(s.O, p, d).t) /\ Treelike(res.t) /\ (m.low = "M" => Shallow(res.t))
      BY <1>1, WriteToIs
    <2> HIDE DEF res
    <2>2. \A y \in N!Lower(m, res) : Outcome(y)
      BY <1>1, <2>1, LayersAre
    <2>3. x \in N!Allowed(m, IF N!InUp(m, p) THEN N!Upper(N!WriteTo(s.O, p, d)) ELSE N!Lower(m, res))
      BY <1>2 DEF N!Write, res, l
    <2> QED BY <1>1, <2>1, LayersAre, <2>2, <2>3
  <1>3. ASSUME NEW f \in BOOLEAN, NEW x \in N!Mkdir(m, p, f) PROVE Outcome(x)
    <2> DEFINE res == N!MkdirIn(s[m.low], l, f)
    <2>1. Treelike(N!MkdirIn(s.O, p, f).t) /\ Treelike(res.t) /\ (m.low = "M" => Shallow(res.t))
      BY <1>1, MkdirInIs
    <2> HIDE DEF res
    <2>2. \A y \in N!Lower(m, res) : Outcome(y)
      BY <1>1, <2>1, LayersAre
    <2>3. x \in N!Allowed(m, IF N!InUp(m, p) THEN N!Upper(N!MkdirIn(s.O, p, f)) ELSE N!Lower(m, res))
      BY <1>3 DEF N!Mkdir, res, l
    <2> QED BY <1>1, <2>1, LayersAre, <2>2, <2>3
  <1>4. ASSUME NEW f, NEW g, NEW x \in N!Rm(m, p, f, g) PROVE Outcome(x)
    <2> DEFINE res == N!RmFrom(s[m.low], l, f, g)
               below == N!Lower(m, res)
    <2>1. Treelike(N!RmFrom(s.O, p, f, g).t) /\ Treelike(res.t) /\ (m.low = "M" => Shallow(res.t))
      BY <1>1, RmFromIs
    <2> HIDE DEF res
    <2>2. \A y \in below : Outcome(y)
      BY <1>1, <2>1, LayersAre
    <2>3. \A y \in {N!Answer(IF g THEN "ok" ELSE "missing", N!None)} : Outcome(y)
      BY <2>1, DoesIs
    <2>4. \A y \in {[z EXCEPT !.err = "ok"] : z \in below} : Outcome(y)
      <3>1. ASSUME NEW z \in below PROVE Outcome([z EXCEPT !.err = "ok"])
        <4>1. [z EXCEPT !.err = "ok"].s = z.s
          BY DEF N!Lower, N!Answer, N!Does
        <4> QED BY <2>2, <4>1 DEF Outcome
      <3> QED BY <3>1
    <2>5. \E S : x \in N!Allowed(m, S) /\ \A y \in S : Outcome(y)
      <3>1. x \in N!Allowed(m,
              IF N!InUp(m, p) THEN N!Upper(N!RmFrom(s.O, p, f, g))
              ELSE IF m.up /\ s[m.low][l] = N!None
              THEN {N!Answer(IF g THEN "ok" ELSE "missing", N!None)}
              ELSE IF m.low = "L" /\ g THEN {[z EXCEPT !.err = "ok"] : z \in below} ELSE below)
        BY <1>4 DEF N!Rm, res, l
      <3> QED BY <1>1, <2>1, LayersAre, <2>2, <2>3, <2>4, <3>1
    <2> QED BY <1>1, <2>1, <2>5, LayersAre
  <1> QED BY <1>2, <1>3, <1>4

LEMMA MovesLeave ==
  ASSUME Trees(s), NEW from \in N!Paths, NEW to \in N!Paths, NEW m, Serving(m, from), Serving(m, to)
  PROVE  /\ from = to \/ ~ N!Under(from, to) => \A x \in N!Rename(m, from, to) : Outcome(x)
         /\ m.low = "M" => \A f : \A x \in N!Lower(m, N!CopyIn(s.M, N!Local(m, from), N!Local(m, to), f)) : Outcome(x)
  <1> DEFINE a == N!Local(m, from)
             b == N!Local(m, to)
  <1>1. /\ a \in N!Paths /\ b \in N!Paths /\ (m.low = "M" => Len(a) <= 1 /\ Len(b) <= 1) /\ m.low \in {"L", "M"}
        /\ Treelike(s.O) /\ Treelike(s[m.low]) /\ (m.low = "M" => Shallow(s[m.low]))
    <2> QED BY LocalIs DEF Trees, Serving
  <1>2. ASSUME from = to \/ ~ N!Under(from, to) PROVE a = b \/ ~ N!Under(a, b)
    <2>1. CASE m.low = "L"
      BY <1>2, <2>1, LocalIs
    <2>2. CASE m.low = "M"
      <3>1. /\ from \in Seq(Names) /\ to \in Seq(Names) /\ Len(from) \in 0 .. 2 /\ Len(to) \in 0 .. 2
            /\ <<Point>> \in N!Paths
        BY SegmentsAre, FileSystemAssumption DEF Segments, N!Paths
      <3>2. m.base = <<Point>> /\ Begins(<<Point>>, from) /\ Begins(<<Point>>, to)
        BY <2>2, <3>1, UnderIs DEF Serving
      <3>3. Len(from) >= 1 /\ Len(to) >= 1 /\ from[1] = Point /\ to[1] = Point
        BY <3>1, <3>2 DEF Begins
      <3>4. a = SubSeq(from, 2, Len(from)) /\ b = SubSeq(to, 2, Len(to))
        BY <3>2 DEF N!Local
      <3>5. /\ Len(a) = Len(from) - 1 /\ Len(b) = Len(to) - 1
            /\ \A i \in 1 .. Len(from) - 1 : a[i] = from[i + 1]
            /\ \A i \in 1 .. Len(to) - 1 : b[i] = to[i + 1]
        BY <3>1, <3>3, <3>4
      <3> HIDE DEF a, b
      <3>6. ASSUME Begins(a, b) PROVE Begins(from, to)
        <4>1. ASSUME NEW i \in 1 .. Len(from) PROVE from[i] = to[i]
          <5>1. CASE i = 1
            BY <3>3, <5>1
          <5>2. CASE i # 1
            <6>1. /\ i - 1 \in 1 .. Len(from) - 1 /\ i - 1 \in 1 .. Len(a) /\ Len(a) <= Len(b)
                  /\ (i - 1) + 1 = i /\ i - 1 \in 1 .. Len(to) - 1
              BY <3>1, <3>5, <3>6, <5>2 DEF Begins
            <6> QED BY <3>6, <6>1, <3>1, <3>5 DEF Begins
          <5> QED BY <5>1, <5>2
        <4> QED BY <3>1, <3>5, <3>6, <4>1 DEF Begins
      <3> QED BY <1>1, <1>2, <3>4, <3>6, UnderIs
    <2> QED BY <1>1, <2>1, <2>2
  <1> HIDE DEF a, b
  <1>3. ASSUME from = to \/ ~ N!Under(from, to), NEW x \in N!Rename(m, from, to) PROVE Outcome(x)
    <2> DEFINE res == N!RenameIn(s[m.low], a, b)
    <2>1. Treelike(N!RenameIn(s.O, from, to).t)
      BY <1>1, <1>3, RenameInIs
    <2>2. Treelike(res.t) /\ (m.low = "M" => Shallow(res.t))
      BY <1>1, <1>2, <1>3, RenameInIs
    <2> HIDE DEF res
    <2>3. \A y \in N!Upper(N!RenameIn(s.O, from, to)) : Outcome(y)
      BY <1>1, <2>1, LayersAre
    <2>4. x \in N!Allowed(m, IF N!InUp(m, from) THEN N!Upper(N!RenameIn(s.O, from, to)) ELSE N!Lower(m, res))
      BY <1>3 DEF N!Rename, res, a, b
    <2> QED BY <1>1, <2>2, <2>3, LayersAre, <2>4
  <1>4. ASSUME m.low = "M", NEW f, NEW x \in N!Lower(m, N!CopyIn(s.M, a, b, f)) PROVE Outcome(x)
    <2>1. Treelike(N!CopyIn(s.M, a, b, f).t) /\ Shallow(N!CopyIn(s.M, a, b, f).t)
      BY <1>1, <1>4, CopyInIs DEF Trees
    <2> QED BY <1>1, <1>4, <2>1, LayersAre
  <1> QED BY <1>3, <1>4 DEF a, b

-----------------------------------------------------------------------------
(* What the host puts into a tree, and the trees to begin with *)

LEMMA PutOverIs ==
  ASSUME NEW t, Treelike(t), NEW p \in N!Paths, p # <<>>, NEW d,
         N!Mkdirp(t, N!Front(p)).err = "ok"
  PROVE  LET n == [N!Gone(N!Mkdirp(t, N!Front(p)).t, p) EXCEPT ![p] = N!File(d)]
         IN  Treelike(n) /\ (Shallow(t) /\ Len(p) <= 1 => Shallow(n))
  <1> DEFINE f == N!Front(p)
             up == N!Mkdirp(t, f)
  <1>1. p \in Seq(Names) /\ Len(p) \in 1 .. 2
    BY SegmentsAre, EmptySeq DEF Segments
  <1>2. f = SubSeq(p, 1, Len(p) - 1)
    BY DEF N!Front
  <1>3. f \in Seq(Names) /\ Len(f) = Len(p) - 1 /\ \A i \in 1 .. Len(p) - 1 : f[i] = p[i]
    <2>1. CASE Len(p) = 1
      <3> QED BY <2>1, <1>1, <1>2, EmptySeq
    <2>2. CASE Len(p) = 2
      <3>1. SubSeq(p, 1, 1) \in Seq(Names) /\ Len(SubSeq(p, 1, 1)) = 1 /\ SubSeq(p, 1, 1)[1] = p[1]
        BY <1>1, <2>2
      <3> QED BY <2>2, <1>1, <1>2, <3>1
    <2> QED BY <1>1, <2>1, <2>2
  <1>4. f \in N!Paths
    <2>1. Len(f) \in 0 .. 2 /\ f \in Segments
      BY <1>1, <1>3 DEF Segments
    <2> HIDE DEF f
    <2> QED BY <2>1, SegmentsAre
  <1> HIDE DEF f
  <1>5. /\ Treelike(up.t) /\ (Shallow(t) /\ Len(f) <= 1 => Shallow(up.t))
        /\ \A q \in N!Paths : N!Under(q, f) => up.t[q] = N!Dir
    BY <1>4, MkdirpIs DEF f
  <1> DEFINE g == N!Gone(up.t, p)
  <1>6. /\ Treelike(g) /\ (Shallow(up.t) => Shallow(g))
        /\ \A q \in N!Paths : g[q] = IF N!Under(p, q) THEN N!None ELSE up.t[q]
    BY <1>5, GoneIs DEF N!Gone
  <1> HIDE DEF up
  <1>7. \A q \in N!Above(p) : q \in N!Paths /\ N!Under(q, f) /\ ~ N!Under(p, q)
    <2>1. SUFFICES ASSUME NEW q \in N!Above(p) PROVE q \in N!Paths /\ N!Under(q, f) /\ ~ N!Under(p, q)
      OBVIOUS
    <2>2. q \in N!Paths /\ q # p /\ N!Under(q, p)
      BY AboveIs
    <2>3. q \in Seq(Names) /\ Len(q) \in Nat /\ Begins(q, p)
      BY <2>2, SegmentsAre, UnderIs DEF Segments
    <2>4. Begins(q, f)
      BY <1>1, <1>3, <2>3, <2>2, SeqEqual DEF Begins
    <2> QED BY <1>4, <2>2, UnderOrders, <2>4, UnderIs
  <1> HIDE DEF g
  <1>8. /\ Treelike([g EXCEPT ![p] = N!File(d)])
        /\ Shallow(g) /\ Len(p) <= 1 => Shallow([g EXCEPT ![p] = N!File(d)])
    <2>1. \A q \in N!Paths : q # p /\ N!Under(p, q) => g[q] = N!None
      BY <1>6
    <2> QED BY <1>6, <1>5, <1>7, NodesAre, <2>1, PutIs
  <1> QED BY <1>5, <1>6, <1>8, <1>1, <1>3 DEF f, g, up

LEMMA SomeTrees ==
  /\ Treelike(N!Empty) /\ Shallow(N!Empty)
  /\ \A p \in N!Paths : \A d : p # <<>> =>
       Treelike(N!Holding(p, d)) /\ (Len(p) <= 1 => Shallow(N!Holding(p, d)))
  <1>0. <<>> \in N!Paths /\ Len(<<>>) = 0
    BY DEF N!Paths
  <1>1. DOMAIN N!Empty = N!Paths /\ \A q \in N!Paths : N!Empty[q] = IF q = <<>> THEN N!Dir ELSE N!None
    BY DEF N!Empty
  <1>2. Treelike(N!Empty)
    <2>1. ASSUME NEW p \in N!Paths, NEW q \in N!Paths, q # p, N!Under(q, p), N!Empty[p] # N!None
          PROVE  N!Empty[q] = N!Dir
      <3> QED BY <2>1, <1>1, UnderOrders
    <2>2. N!Empty[<<>>] = N!Dir
      BY <1>0, <1>1
    <2> HIDE DEF N!Empty
    <2> QED BY <1>1, <2>1, NodesAre, <2>2 DEF Treelike
  <1>3. ASSUME NEW p \in N!Paths, NEW d, p # <<>>
        PROVE  Treelike(N!Holding(p, d)) /\ (Len(p) <= 1 => Shallow(N!Holding(p, d)))
    <2> DEFINE t == N!Holding(p, d)
    <2>1. /\ DOMAIN t = N!Paths
          /\ \A q \in N!Paths : t[q] = IF q = p THEN N!File(d) ELSE IF N!Under(q, p) THEN N!Dir ELSE N!None
      BY DEF N!Holding
    <2> HIDE DEF t
    <2>2. ASSUME NEW o \in N!Paths, NEW q \in N!Paths, q # o, N!Under(q, o), t[o] # N!None
          PROVE  t[q] = N!Dir
      <3>1. N!Under(q, p) /\ q # p
        BY <2>2, <2>1, UnderOrders
      <3> QED BY <2>1, <3>1
    <2>3. t[<<>>] = N!Dir
      BY <1>0, <1>3, <2>1, UnderOrders
    <2>4. Treelike(t)
      BY <2>1, <2>2, NodesAre, <2>3 DEF Treelike
    <2>5. Len(p) <= 1 => Shallow(t)
      <3>1. \A q \in N!Paths : Len(q) = 2 /\ Len(p) <= 1 => q # p /\ ~ N!Under(q, p)
        BY UnderOrders, SegmentsAre
      <3> QED BY <2>1, <3>1 DEF Shallow
    <2> QED BY <2>4, <2>5 DEF t
  <1> QED BY <1>2, <1>0, <1>1, <1>3 DEF Shallow

-----------------------------------------------------------------------------
(* What is known of a call that is under way *)

Below == N!Paths \ {<<>>}

\* A copy is of a path to one of the same length.
Pairs == {x \in Below \X Below : Len(x[1]) = Len(x[2])}

CallOk(c) ==
  /\ c \in [op : {"writeFile", "append", "truncate", "mkdir", "rm", "rename", "copyFile", "cp"},
            from : Below, to : Below, flag : BOOLEAN, src : {c.src}, dst : {c.dst}, err : {c.err},
            pc : {c.pc}, got : {c.got}, todo : Seq(Pairs), had : {c.had}, hidden : {c.hidden},
            twice : {c.twice}, alone : {c.alone}]
  /\ Serving(c.src, c.from) /\ Serving(c.dst, c.to)
  /\ c.op = "rename" => c.from = c.to \/ ~ N!Under(c.from, c.to)
  /\ c.op = "cp" /\ c.pc # "done" => c.todo # <<>>
  /\ c.pc = "do" => /\ c.op \in {"writeFile", "mkdir", "rm", "rename", "copyFile"}
                    /\ c.op \in {"rename", "copyFile"} => c.src = c.dst
                    /\ c.op = "copyFile" => c.src.low = "M"

MountOk == mount \in [there : BOOLEAN, was : BOOLEAN, readOnly : BOOLEAN, layered : BOOLEAN]

NameInv == Trees(s) /\ MountOk /\ (call = N!NoCall \/ CallOk(call))

LEMMA CallMoves ==
  ASSUME CallOk(call)
  PROVE  /\ \A e : CallOk(N!Ends(e))
         /\ call.pc # "done" => \A e : e # "do" => CallOk(N!Goto(e))
         /\ call.pc # "done" => \A v : CallOk([call EXCEPT !.got = v, !.pc = "write"])
         /\ \A d \in Seq(Pairs) : CallOk(N!Next1([call EXCEPT !.todo = d]))
         /\ CallOk(N!Next1(call))
         /\ CallOk([call EXCEPT !.alone = FALSE, !.had = N!None, !.hidden = FALSE, !.twice = FALSE])
  <1> DEFINE Is(d) == d \in [op : {call.op}, from : {call.from}, to : {call.to}, flag : {call.flag},
                             src : {call.src}, dst : {call.dst}, err : {d.err}, pc : {d.pc}, got : {d.got},
                             todo : Seq(Pairs), had : {d.had}, hidden : {d.hidden}, twice : {d.twice},
                             alone : {d.alone}]
  <1>1. ASSUME NEW d, Is(d), d.pc = "do" => call.pc = "do", d.op = "cp" /\ d.pc # "done" => d.todo # <<>>
        PROVE  CallOk(d)
    BY <1>1 DEF CallOk
  <1>2. Is(call) /\ call.todo \in Seq(Pairs) /\ <<>> \in Seq(Pairs)
    BY DEF CallOk
  <1>3. ASSUME NEW e PROVE CallOk(N!Ends(e))
    <2> QED BY <1>1, <1>2 DEF N!Ends
  <1>4. ASSUME call.pc # "done", NEW e, e # "do" PROVE CallOk(N!Goto(e))
    <2>1. call.op = "cp" => call.todo # <<>>
      BY <1>4 DEF CallOk
    <2> QED BY <1>1, <1>4, <1>2, <2>1 DEF N!Goto
  <1>5. ASSUME call.pc # "done", NEW v PROVE CallOk([call EXCEPT !.got = v, !.pc = "write"])
    <2> DEFINE d == [call EXCEPT !.got = v, !.pc = "write"]
    <2>1. Is(d) /\ d.pc = "write" /\ d.todo = call.todo /\ d.op = call.op
      BY <1>2
    <2>2. call.op = "cp" => call.todo # <<>>
      BY <1>5 DEF CallOk
    <2> HIDE DEF d
    <2>3. CallOk(d)
      BY <1>1, <2>1, <2>2
    <2> QED BY <2>3 DEF d
  <1>6. ASSUME NEW c, Is(c), c.todo \in Seq(Pairs) PROVE CallOk(N!Next1(c))
    <2>1. CASE c.op = "cp" /\ Len(c.todo) > 1
      <3> DEFINE rest == Tail(c.todo)
                 d == [c EXCEPT !.todo = rest, !.pc = "stat", !.got = <<>>]
      <3>1. rest \in Seq(Pairs) /\ rest # <<>>
        <4> DEFINE q == c.todo
        <4>1. q \in Seq(Pairs) /\ Len(q) \in Nat /\ Len(q) > 1
          BY <1>6, <2>1
        <4> HIDE DEF q
        <4>2. Tail(q) \in Seq(Pairs) /\ Len(Tail(q)) = Len(q) - 1
          BY <4>1, EmptySeq, HeadTailProperties
        <4>3. Tail(q) # <<>>
          <5>1. Len(Tail(q)) # 0 /\ Len(<<>>) = 0
            BY <4>1, <4>2, EmptySeq
          <5> QED BY <5>1
        <4> QED BY <4>2, <4>3 DEF q
      <3> HIDE DEF rest
      <3>2. Is(d) /\ d.pc = "stat" /\ d.todo = rest
        BY <1>6, <3>1
      <3> HIDE DEF d
      <3>3. CallOk(d)
        BY <1>1, <3>1, <3>2
      <3> QED BY <3>3, <2>1 DEF N!Next1, d, rest
    <2>2. CASE ~ (c.op = "cp" /\ Len(c.todo) > 1)
      <3> QED BY <1>3, <2>2 DEF N!Next1
    <2> QED BY <2>1, <2>2
  <1>7. ASSUME NEW v \in Seq(Pairs) PROVE CallOk(N!Next1([call EXCEPT !.todo = v]))
    <2> DEFINE c == [call EXCEPT !.todo = v]
    <2>1. Is(c) /\ c.todo \in Seq(Pairs)
      BY <1>2
    <2> HIDE DEF c
    <2>2. CallOk(N!Next1(c))
      BY <1>6, <2>1
    <2> QED BY <2>2 DEF c
  <1>8. CallOk([call EXCEPT !.alone = FALSE, !.had = N!None, !.hidden = FALSE, !.twice = FALSE])
    <2> DEFINE d == [call EXCEPT !.alone = FALSE, !.had = N!None, !.hidden = FALSE, !.twice = FALSE]
    <2>1. Is(d) /\ d.pc = call.pc /\ d.todo = call.todo /\ d.op = call.op
      BY <1>2
    <2>2. call.op = "cp" /\ call.pc # "done" => call.todo # <<>>
      BY DEF CallOk
    <2> HIDE DEF d
    <2>3. CallOk(d)
      BY <1>1, <2>1, <2>2
    <2> QED BY <2>3 DEF d
  <1> QED BY <1>3, <1>4, <1>5, <1>7, <1>8, <1>2, <1>6

\* The paths a step is about, and the mounts that serve them.
LEMMA FromToAre ==
  ASSUME NameInv, N!Busy
  PROVE  /\ CallOk(call) /\ call.pc # "done" /\ call.op # "none"
         /\ N!From \in Below /\ N!To \in Below
         /\ Serving(N!Source, N!From) /\ Serving(N!Target, N!To)
         /\ call.op = "cp" => /\ call.todo # <<>> /\ call.todo \in Seq(Pairs)
                              /\ <<N!From, N!To>> = Head(call.todo) /\ Len(N!From) = Len(N!To)
  <1>1. CallOk(call) /\ call.pc # "done" /\ call.op # "none"
    <2> QED BY DEF NameInv, N!Busy, N!NoCall
  <1>2. mount.layered \in BOOLEAN
    BY DEF NameInv, MountOk
  <1>3. ASSUME call.op = "cp"
        PROVE  /\ call.todo # <<>> /\ call.todo \in Seq(Pairs)
               /\ <<N!From, N!To>> = Head(call.todo) /\ Len(N!From) = Len(N!To)
               /\ N!From \in Below /\ N!To \in Below
    <2>1. call.todo # <<>> /\ call.todo \in Seq(Pairs)
      BY <1>1, <1>3 DEF CallOk
    <2>2. N!From = Head(call.todo)[1] /\ N!To = Head(call.todo)[2]
      BY <1>3 DEF N!From, N!To
    <2> QED BY <2>1, <2>2 DEF Pairs
  <1>4. ASSUME call.op # "cp"
        PROVE  N!From = call.from /\ N!To = call.to /\ N!From \in Below /\ N!To \in Below
    BY <1>1, <1>4 DEF CallOk, N!From, N!To
  <1>5. N!From \in Below /\ N!To \in Below
    BY <1>3, <1>4
  <1>6. N!From \in N!Paths /\ N!To \in N!Paths
    BY <1>5 DEF Below
  <1>7. Serving(N!Source, N!From)
    <2>1. CASE call.op \in {"rename", "copyFile"}
      <3> QED BY <1>1, <1>4, <2>1 DEF CallOk, N!Source
    <2>2. CASE call.op \notin {"rename", "copyFile"}
      <3> QED BY <1>2, <1>6, <2>2, ResolveIs DEF N!Source
    <2> QED BY <2>1, <2>2
  <1>8. Serving(N!Target, N!To)
    <2>1. CASE call.op \in {"rename", "copyFile"}
      <3> QED BY <1>1, <1>4, <2>1 DEF CallOk, N!Target
    <2>2. CASE call.op \notin {"rename", "copyFile"}
      <3> QED BY <1>2, <1>6, <2>2, ResolveIs DEF N!Target
    <2> QED BY <2>1, <2>2
  <1> QED BY <1>1, <1>3, <1>5, <1>7, <1>8

-----------------------------------------------------------------------------
(* A path of the namespace, and the one it is to a provider *)

\* What is below the point of the memory mount, and a path of it joined to the point.
LEMMA BelowPoint ==
  /\ <<Point>> \in N!Paths /\ Len(<<Point>>) = 1 /\ <<Point>>[1] = Point
  /\ \A p \in N!Paths : N!Under(<<Point>>, p) =>
       /\ Len(p) \in 1 .. 2 /\ p[1] = Point /\ SubSeq(p, 2, Len(p)) \in Segments
       /\ Len(SubSeq(p, 2, Len(p))) = Len(p) - 1
       /\ \A i \in 1 .. Len(p) - 1 : SubSeq(p, 2, Len(p))[i] = p[i + 1]
  /\ \A q \in N!Paths : Len(q) <= 1 =>
       /\ <<Point>> \o q \in N!Paths /\ Len(<<Point>> \o q) = Len(q) + 1 /\ (<<Point>> \o q)[1] = Point
       /\ \A i \in 1 .. Len(q) : (<<Point>> \o q)[i + 1] = q[i]
       /\ N!Under(<<Point>>, <<Point>> \o q)
  <1>1. <<Point>> \in N!Paths /\ Len(<<Point>>) = 1 /\ <<Point>>[1] = Point /\ <<Point>> \in Seq(Names)
    BY FileSystemAssumption DEF N!Paths
  <1>2. ASSUME NEW p \in N!Paths, N!Under(<<Point>>, p)
        PROVE  /\ Len(p) \in 1 .. 2 /\ p[1] = Point /\ SubSeq(p, 2, Len(p)) \in Segments
               /\ Len(SubSeq(p, 2, Len(p))) = Len(p) - 1
               /\ \A i \in 1 .. Len(p) - 1 : SubSeq(p, 2, Len(p))[i] = p[i + 1]
    <2>1. p \in Seq(Names) /\ Len(p) \in 0 .. 2
      BY SegmentsAre DEF Segments
    <2>2. Len(p) \in 1 .. 2 /\ p[1] = Point
      BY <1>1, <2>1, <1>2, UnderIs DEF Begins
    <2> QED BY <2>2, <2>1 DEF Segments
  <1>3. ASSUME NEW q \in N!Paths, Len(q) <= 1
        PROVE  /\ <<Point>> \o q \in N!Paths /\ Len(<<Point>> \o q) = Len(q) + 1 /\ (<<Point>> \o q)[1] = Point
               /\ \A i \in 1 .. Len(q) : (<<Point>> \o q)[i + 1] = q[i]
               /\ N!Under(<<Point>>, <<Point>> \o q)
    <2> DEFINE j == <<Point>> \o q
    <2>1. q \in Seq(Names) /\ Len(q) \in 0 .. 1
      BY <1>3, SegmentsAre DEF Segments
    <2>2. /\ j \in Seq(Names) /\ Len(j) = Len(q) + 1 /\ j[1] = Point
          /\ \A i \in 1 .. Len(q) : j[i + 1] = q[i]
      BY <1>1, <2>1
    <2> HIDE DEF j
    <2>3. Len(j) \in 0 .. 2
      BY <2>1, <2>2
    <2>4. j \in N!Paths
      BY <2>2, <2>3, SegmentsAre DEF Segments
    <2>5. N!Under(<<Point>>, j)
      BY <1>1, <2>4, <2>1, <2>2, UnderIs DEF Begins
    <2> QED BY <2>2, <2>4, <2>5 DEF j
  <1> QED BY <1>1, <1>2, <1>3

LEMMA LocalJoins ==
  ASSUME NEW d \in N!Paths, NEW m, Serving(m, d)
  PROVE  /\ \A p \in N!Paths : N!Under(d, p) =>
              /\ Serving(m, p) /\ m.base \o N!Local(m, p) = p /\ N!Under(N!Local(m, d), N!Local(m, p))
              /\ Len(N!Local(m, p)) - Len(N!Local(m, d)) = Len(p) - Len(d)
         /\ \A q \in N!Paths : N!Under(N!Local(m, d), q) /\ (m.low = "M" => Len(q) <= 1) =>
              /\ m.base \o q \in N!Paths /\ N!Under(d, m.base \o q) /\ N!Local(m, m.base \o q) = q
              /\ Len(q) - Len(N!Local(m, d)) = Len(m.base \o q) - Len(d)
  <1> DEFINE l == N!Local(m, d)
  <1>1. l \in N!Paths
    BY LocalIs
  <1>2. CASE m.low = "L"
    <2>1. m.base = <<>> /\ l = d
      BY <1>2, LocalIs DEF Serving
    <2>2. ASSUME NEW p \in N!Paths
          PROVE  Serving(m, p) /\ m.base \o p = p /\ N!Local(m, p) = p
      <3>1. <<>> \o p = p
        BY SegmentsAre, ConcatEmptySeq DEF Segments
      <3> QED BY <1>2, <2>1, <3>1, LocalIs DEF Serving
    <2> HIDE DEF l
    <2> QED BY <2>1, <2>2 DEF l
  <1>3. CASE m.low = "M"
    <2>1. m.base = <<Point>> /\ N!Under(<<Point>>, d) /\ m.up \in BOOLEAN
      BY <1>3 DEF Serving
    <2>2. \A p : N!Local(m, p) = SubSeq(p, 2, Len(p))
      <3> QED BY <2>1 DEF N!Local
    <2>3. ASSUME NEW p \in N!Paths, N!Under(<<Point>>, p)
          PROVE  /\ Serving(m, p) /\ N!Local(m, p) \in N!Paths /\ Len(N!Local(m, p)) <= 1 /\ Len(p) \in 1 .. 2
                 /\ p[1] = Point /\ Len(N!Local(m, p)) = Len(p) - 1
                 /\ \A i \in 1 .. Len(p) - 1 : N!Local(m, p)[i] = p[i + 1]
      <3>1. Serving(m, p)
        BY <1>3, <2>1, <2>3 DEF Serving
      <3>2. /\ Len(p) \in 1 .. 2 /\ p[1] = Point /\ Len(SubSeq(p, 2, Len(p))) = Len(p) - 1
            /\ \A i \in 1 .. Len(p) - 1 : SubSeq(p, 2, Len(p))[i] = p[i + 1]
        BY <2>3, BelowPoint
      <3>3. N!Local(m, p) = SubSeq(p, 2, Len(p))
        BY <2>2
      <3> QED BY <3>1, <1>3, LocalIs, <3>2, <3>3
    <2>4. \A p, q \in N!Paths : Begins(p, q) <=> N!Under(p, q)
      BY UnderIs
    <2>5. /\ l \in N!Paths /\ Len(l) <= 1 /\ Len(d) \in 1 .. 2 /\ d[1] = Point /\ Len(l) = Len(d) - 1
          /\ \A i \in 1 .. Len(d) - 1 : l[i] = d[i + 1]
      BY <2>1, <2>3
    <2> HIDE DEF l
    <2>6. ASSUME NEW p \in N!Paths, N!Under(d, p)
          PROVE  /\ Serving(m, p) /\ m.base \o N!Local(m, p) = p /\ N!Under(l, N!Local(m, p))
                 /\ Len(N!Local(m, p)) - Len(l) = Len(p) - Len(d)
      <3> DEFINE k == N!Local(m, p)
      <3>1. /\ Serving(m, p) /\ k \in N!Paths /\ Len(k) <= 1 /\ Len(p) \in 1 .. 2 /\ p[1] = Point
            /\ Len(k) = Len(p) - 1 /\ \A i \in 1 .. Len(p) - 1 : k[i] = p[i + 1]
        BY <2>3, <2>1, <2>6, BelowPoint, UnderOrders
      <3> HIDE DEF k
      <3>2. Begins(d, p)
        BY <2>4, <2>6
      <3>3. Begins(l, k)
        <4>1. ASSUME NEW i \in 1 .. Len(l) PROVE l[i] = k[i]
          <5>1. i \in 1 .. Len(d) - 1 /\ i + 1 \in 1 .. Len(d) /\ i \in 1 .. Len(p) - 1
            BY <2>5, <3>1, <3>2 DEF Begins
          <5> QED BY <3>2, <5>1, <2>5, <3>1 DEF Begins
        <4> QED BY <2>5, <3>1, <3>2, <4>1 DEF Begins
      <3>4. <<Point>> \o k = p
        <4> DEFINE j == <<Point>> \o k
        <4>1. /\ j \in N!Paths /\ Len(j) = Len(k) + 1 /\ j[1] = Point /\ \A i \in 1 .. Len(k) : j[i + 1] = k[i]
          BY <3>1, BelowPoint
        <4> HIDE DEF j
        <4>2. ASSUME NEW i \in 1 .. Len(p) PROVE j[i] = p[i]
          <5>1. CASE i = 1
            BY <3>1, <4>1, <5>1
          <5>2. CASE i # 1
            <6>1. j[i] = k[i - 1] /\ p[i] = k[i - 1]
              BY <3>1, <4>1, <5>2
            <6> QED BY <6>1
          <5> QED BY <5>1, <5>2
        <4>3. j = p
          BY <3>1, <4>1, SegmentsAre, <4>2, SeqEqual DEF Segments
        <4> QED BY <4>3 DEF j
      <3>5. Len(k) - Len(l) = Len(p) - Len(d)
        BY <2>5, <3>1
      <3> QED BY <2>1, <3>1, <2>4, <2>5, <3>3, <3>4, <3>5 DEF k
    <2>7. ASSUME NEW q \in N!Paths, N!Under(l, q), Len(q) <= 1
          PROVE  /\ m.base \o q \in N!Paths /\ N!Under(d, m.base \o q) /\ N!Local(m, m.base \o q) = q
                 /\ Len(q) - Len(l) = Len(m.base \o q) - Len(d)
      <3> DEFINE j == <<Point>> \o q
      <3>1. /\ j \in N!Paths /\ Len(j) = Len(q) + 1 /\ j[1] = Point /\ N!Under(<<Point>>, j)
            /\ \A i \in 1 .. Len(q) : j[i + 1] = q[i]
        BY <2>7, BelowPoint
      <3> HIDE DEF j
      <3>2. Begins(l, q) /\ q \in Seq(Names) /\ Len(q) \in Nat /\ d \in Seq(Names)
        BY <2>4, <2>5, <2>7, SegmentsAre DEF Segments
      <3>3. Begins(d, j)
        <4>1. ASSUME NEW i \in 1 .. Len(d) PROVE d[i] = j[i]
          <5>1. CASE i = 1
            BY <2>5, <3>1, <5>1
          <5>2. CASE i # 1
            <6>1. d[i] = l[i - 1] /\ j[i] = q[i - 1] /\ l[i - 1] = q[i - 1]
              BY <2>5, <3>1, <3>2, <5>2 DEF Begins
            <6> QED BY <6>1
          <5> QED BY <5>1, <5>2
        <4> QED BY <2>5, <3>1, <3>2, <4>1 DEF Begins
      <3> DEFINE k == N!Local(m, j)
      <3>4. k \in N!Paths /\ Len(k) = Len(j) - 1 /\ \A i \in 1 .. Len(j) - 1 : k[i] = j[i + 1]
        BY <2>3, <3>1
      <3> HIDE DEF k
      <3>5. k = q
        <4>1. \A i \in 1 .. Len(q) : k[i] = q[i]
          BY <3>1, <3>2, <3>4
        <4> QED BY <3>2, <3>1, <3>4, SegmentsAre, <4>1, SeqEqual DEF Segments
      <3>6. Len(q) - Len(l) = Len(j) - Len(d)
        BY <2>5, <3>1, <3>2
      <3> QED BY <2>1, <3>1, <2>4, <3>3, <3>5, <3>6 DEF j, k
    <2> QED BY <1>3, <2>6, <2>7 DEF l
  <1> QED BY <1>2, <1>3 DEF Serving

-----------------------------------------------------------------------------
(* What a mount lists *)

\* What is found at a path of a mount.
Found(m, p) == IF N!InUp(m, p) THEN s.O[p] ELSE s[m.low][N!Local(m, p)]

\* What is below a directory, or in it.
Inside(d, deep) == {x \in N!Paths : N!Under(d, x) /\ x # d /\ (deep \/ Len(x) = Len(d) + 1)}

Listed(m, d, deep) == {x \in Inside(d, deep) : Found(m, x) # N!None}

LEMMA LayerListed ==
  ASSUME NEW t, Treelike(t), NEW m, NEW d \in N!Paths, Serving(m, d), m.low = "M" => Shallow(t), NEW deep \in BOOLEAN
  PROVE  \A e : e \in N!Entries(t, m.base, N!Local(m, d), deep)
           <=> \E x \in Inside(d, deep) : t[N!Local(m, x)] # N!None /\ e = N!Entry(x, t[N!Local(m, x)].kind)
  <1> DEFINE l == N!Local(m, d)
             Q == {x \in N!Paths : /\ N!Under(l, x) /\ x # l /\ t[x] # N!None /\ t[l].kind = "dir"
                                   /\ deep \/ Len(x) = Len(l) + 1}
  <1>1. l \in N!Paths /\ Len(l) \in Nat /\ Len(d) \in Nat
    BY LocalIs, SegmentsAre
  <1>2. \A e : e \in N!Entries(t, m.base, l, deep) <=> \E q \in Q : e = N!Entry(m.base \o q, t[q].kind)
    BY DEF N!Entries
  <1>3. \A p \in N!Paths : N!Under(d, p) =>
          /\ Serving(m, p) /\ m.base \o N!Local(m, p) = p /\ N!Under(l, N!Local(m, p))
          /\ Len(N!Local(m, p)) - Len(l) = Len(p) - Len(d)
    BY LocalJoins
  <1>4. \A q \in N!Paths : N!Under(l, q) /\ (m.low = "M" => Len(q) <= 1) =>
          /\ m.base \o q \in N!Paths /\ N!Under(d, m.base \o q) /\ N!Local(m, m.base \o q) = q
          /\ Len(q) - Len(l) = Len(m.base \o q) - Len(d)
    BY LocalJoins
  <1> HIDE DEF l
  <1>5. ASSUME NEW q \in Q
        PROVE  /\ m.base \o q \in Inside(d, deep) /\ N!Local(m, m.base \o q) = q /\ t[q] # N!None
    <2>1. q \in N!Paths /\ N!Under(l, q) /\ q # l /\ t[q] # N!None /\ (deep \/ Len(q) = Len(l) + 1)
      BY <1>5
    <2>2. m.low = "M" => Len(q) <= 1
      <3>1. SUFFICES ASSUME m.low = "M" PROVE Len(q) <= 1
        OBVIOUS
      <3>2. Len(q) \in 0 .. 2
        BY <2>1, SegmentsAre
      <3>3. \A n \in 0 .. 2 : n # 2 => n <= 1
        OBVIOUS
      <3> QED BY <2>1, <3>1, <3>2, <3>3 DEF Shallow
    <2> DEFINE x == m.base \o q
    <2>3. /\ x \in N!Paths /\ N!Under(d, x) /\ N!Local(m, x) = q
          /\ Len(q) - Len(l) = Len(x) - Len(d)
      BY <1>4, <2>1, <2>2
    <2> HIDE DEF x
    <2>4. x # d
      <3>1. CASE x = d
        <4> QED BY <2>1, <2>3, <3>1 DEF l
      <3> QED BY <3>1
    <2>5. deep \/ Len(x) = Len(d) + 1
      BY <1>1, <2>1, <2>3, SegmentsAre
    <2> QED BY <2>1, <2>3, <2>4, <2>5 DEF Inside, x
  <1>6. ASSUME NEW x \in Inside(d, deep), t[N!Local(m, x)] # N!None
        PROVE  N!Local(m, x) \in Q /\ m.base \o N!Local(m, x) = x
    <2> DEFINE q == N!Local(m, x)
    <2>1. x \in N!Paths /\ N!Under(d, x) /\ x # d /\ (deep \/ Len(x) = Len(d) + 1)
      BY DEF Inside
    <2>2. /\ Serving(m, x) /\ m.base \o q = x /\ N!Under(l, q)
          /\ Len(q) - Len(l) = Len(x) - Len(d)
      BY <1>3, <2>1
    <2>3. q \in N!Paths
      BY <2>1, <2>2, LocalIs
    <2>4. q # l
      <3> QED BY <2>1, <2>2, <1>3, UnderOrders DEF l
    <2>5. t[q] # N!None
      BY <1>6
    <2> HIDE DEF q
    <2>6. deep \/ Len(q) = Len(l) + 1
      BY <1>1, <2>1, <2>2, <2>3, SegmentsAre
    <2> QED BY <2>2, <2>3, <2>4, <2>5, <2>6, <1>1, NodesAre DEF q, Treelike
  <1>7. ASSUME NEW e, e \in N!Entries(t, m.base, l, deep)
        PROVE  \E x \in Inside(d, deep) : t[N!Local(m, x)] # N!None /\ e = N!Entry(x, t[N!Local(m, x)].kind)
    <2>1. PICK q \in Q : e = N!Entry(m.base \o q, t[q].kind)
      BY <1>2, <1>7
    <2> HIDE DEF Q
    <2> QED BY <1>5, <2>1
  <1>8. ASSUME NEW e, NEW x \in Inside(d, deep), t[N!Local(m, x)] # N!None, e = N!Entry(x, t[N!Local(m, x)].kind)
        PROVE  e \in N!Entries(t, m.base, l, deep)
    <2> HIDE DEF Q
    <2> QED BY <1>2, <1>8, <1>6
  <1> HIDE DEF Q
  <1> QED BY <1>7, <1>8 DEF l

LEMMA MergedIs ==
  ASSUME Trees(s), NEW m, NEW d \in N!Paths, Serving(m, d), NEW deep \in BOOLEAN
  PROVE  \A e : e \in N!Merged(m, d, deep)
           <=> \E x \in Listed(m, d, deep) : e = N!Entry(x, Found(m, x).kind)
  <1> DEFINE U == IF m.up THEN N!Entries(s.O, <<>>, d, deep) ELSE {}
             W == N!Entries(s[m.low], m.base, N!Local(m, d), deep)
  <1>1. \A e : e \in N!Merged(m, d, deep) <=> e \in U \/ (e \in W /\ \A x \in U : x.path # e.path)
    BY DEF N!Merged
  <1>2. /\ m.low \in {"L", "M"} /\ Treelike(s.O) /\ Treelike(s[m.low]) /\ (m.low = "M" => Shallow(s[m.low]))
        /\ m.up \in BOOLEAN
    <2> QED BY DEF Trees, Serving
  <1>3. \A e : e \in U <=> m.up /\ \E x \in Inside(d, deep) : s.O[x] # N!None /\ e = N!Entry(x, s.O[x].kind)
    <2> DEFINE root == N!Root
    <2>1. root.up = TRUE /\ root.low = "L" /\ root.base = <<>>
      BY DEF N!Root
    <2> HIDE DEF root
    <2>2. Serving(root, d) /\ root.low # "M"
      BY <2>1 DEF Serving
    <2>3. \A p \in N!Paths : N!Local(root, p) = p
      <3> QED BY <2>1, LocalIs DEF Serving
    <2>4. \A e : e \in N!Entries(s.O, root.base, N!Local(root, d), deep)
            <=> \E x \in Inside(d, deep) : s.O[N!Local(root, x)] # N!None /\ e = N!Entry(x, s.O[N!Local(root, x)].kind)
      BY <1>2, <2>2, LayerListed
    <2>5. Inside(d, deep) \subseteq N!Paths
      BY DEF Inside
    <2> QED BY <2>3, <2>4, <2>1, <2>5
  <1>4. \A e : e \in W <=> \E x \in Inside(d, deep) :
          s[m.low][N!Local(m, x)] # N!None /\ e = N!Entry(x, s[m.low][N!Local(m, x)].kind)
    BY <1>2, LayerListed
  <1> HIDE DEF U, W
  <1>5. \A x \in Inside(d, deep) : N!InUp(m, x) <=> m.up /\ s.O[x] # N!None
    BY DEF N!InUp
  <1>6. \A x, k : N!Entry(x, k).path = x
    BY DEF N!Entry
  <1>7. ASSUME NEW e, e \in N!Merged(m, d, deep)
        PROVE  \E x \in Listed(m, d, deep) : e = N!Entry(x, Found(m, x).kind)
    <2>1. CASE e \in U
      <3>1. PICK x \in Inside(d, deep) : m.up /\ s.O[x] # N!None /\ e = N!Entry(x, s.O[x].kind)
        BY <1>3, <2>1
      <3> QED BY <3>1, <1>5 DEF Listed, Found
    <2>2. CASE e \in W /\ \A u0 \in U : u0.path # e.path
      <3>1. PICK x \in Inside(d, deep) :
              s[m.low][N!Local(m, x)] # N!None /\ e = N!Entry(x, s[m.low][N!Local(m, x)].kind)
        BY <1>4, <2>2
      <3>2. ~ N!InUp(m, x)
        <4>1. CASE N!InUp(m, x)
          <5> QED BY <1>6, <2>2, <3>1, <1>3, <1>5, <4>1
        <4> QED BY <4>1
      <3> QED BY <3>1, <3>2 DEF Listed, Found
    <2> QED BY <1>1, <1>7, <2>1, <2>2
  <1>8. ASSUME NEW x \in Listed(m, d, deep) PROVE N!Entry(x, Found(m, x).kind) \in N!Merged(m, d, deep)
    <2>1. x \in Inside(d, deep) /\ Found(m, x) # N!None
      BY DEF Listed
    <2>2. CASE N!InUp(m, x)
      <3>1. N!Entry(x, s.O[x].kind) \in U
        BY <1>3, <1>5, <2>1, <2>2
      <3> QED BY <1>1, <2>2, <3>1 DEF Found
    <2>3. CASE ~ N!InUp(m, x)
      <3>1. Found(m, x) = s[m.low][N!Local(m, x)]
        BY <2>3 DEF Found
      <3>2. \A u0 \in U : u0.path # x
        <4>1. ASSUME NEW u0 \in U, u0.path = x PROVE FALSE
          <5>1. PICK y \in Inside(d, deep) : m.up /\ s.O[y] # N!None /\ u0 = N!Entry(y, s.O[y].kind)
            BY <1>3
          <5> QED BY <1>5, <2>1, <2>3, <5>1, <1>6, <4>1
        <4> QED BY <4>1
      <3> QED BY <1>1, <1>6, <3>1, <1>4, <2>1, <3>2
    <2> QED BY <2>2, <2>3
  <1> QED BY <1>7, <1>8

\* What is below a path is of its mount, or of the one at the point.
LEMMA SameMount ==
  ASSUME MountOk, NEW d \in N!Paths, NEW p \in N!Paths, N!Under(d, p)
  PROVE  /\ \/ N!Resolve(p) = N!Resolve(d)
            \/ mount.there /\ d = <<>> /\ N!Under(<<Point>>, p)
         /\ N!Resolve(p) = IF mount.there /\ N!Under(<<Point>>, p) THEN N!AtPoint ELSE N!Root
         /\ N!Resolve(p) = N!AtPoint \/ N!Resolve(p) = N!Root
  <1>1. ASSUME NEW q \in N!Paths PROVE N!Under(<<Point>>, q) <=> q # <<>> /\ q[1] = Point
    <2>1. q \in Seq(Names) /\ Len(q) \in 0 .. 2
      BY SegmentsAre DEF Segments
    <2>2. q # <<>> <=> Len(q) >= 1
      BY <2>1, EmptySeq
    <2>3. Begins(<<Point>>, q) <=> Len(q) >= 1 /\ q[1] = Point
      BY <2>1, BelowPoint DEF Begins
    <2> QED BY BelowPoint, UnderIs, <2>2, <2>3
  <1>2. d # <<>> => (N!Under(<<Point>>, d) <=> N!Under(<<Point>>, p))
    <2>1. ASSUME d # <<>>, N!Under(<<Point>>, p) PROVE N!Under(<<Point>>, d)
      <3>1. Begins(d, p) /\ d \in Seq(Names)
        BY UnderIs, SegmentsAre DEF Segments
      <3>2. d[1] = p[1]
        BY <3>1, <2>1, EmptySeq DEF Begins
      <3> QED BY <1>1, <2>1, <3>2
    <2> QED BY <2>1, BelowPoint, UnderOrders
  <1>3. ~ N!Under(<<Point>>, <<>>)
    BY <1>1, UnderOrders
  <1> QED BY <1>1, <1>2, <1>3 DEF N!Resolve

-----------------------------------------------------------------------------
(* A listing against what is found *)

LEMMA EntriesAre ==
  /\ \A p, k : N!Entry(p, k).path = p /\ N!Entry(p, k).kind = k
  /\ \A S, p, e : e \in N!At(S, p) <=> e \in S /\ e.path = p
  /\ \A p : N!Seen(p) = IF N!StatOf(p) = N!None THEN {} ELSE {N!Entry(p, N!StatOf(p).kind)}
  /\ \A p : N!StatOf(p) = Found(N!Resolve(p), p)
  BY DEF N!Entry, N!At, N!Seen, N!StatOf, Found

\* Within one mount.
LEMMA OwnAgrees ==
  ASSUME Trees(s), NEW m, NEW d \in N!Paths, Serving(m, d), NEW deep \in BOOLEAN
  PROVE  /\ \A e \in N!Merged(m, d, deep) : e.path \in Inside(d, deep) /\ Found(m, e.path) # N!None
         /\ \A p \in Inside(d, deep) : N!Resolve(p) = m => N!At(N!Merged(m, d, deep), p) = N!Seen(p)
  <1> DEFINE S == N!Merged(m, d, deep)
  <1>1. \A e : e \in S <=> \E x \in Listed(m, d, deep) : e = N!Entry(x, Found(m, x).kind)
    BY MergedIs
  <1> HIDE DEF S
  <1>2. ASSUME NEW e \in S PROVE e.path \in Inside(d, deep) /\ Found(m, e.path) # N!None
    <2>1. PICK x \in Listed(m, d, deep) : e = N!Entry(x, Found(m, x).kind)
      BY <1>1
    <2> QED BY <2>1, EntriesAre DEF Listed
  <1>3. ASSUME NEW p \in Inside(d, deep), N!Resolve(p) = m PROVE N!At(S, p) = N!Seen(p)
    <2>1. \A e : e \in N!At(S, p) <=> Found(m, p) # N!None /\ e = N!Entry(p, Found(m, p).kind)
      <3>1. ASSUME NEW e, e \in N!At(S, p) PROVE Found(m, p) # N!None /\ e = N!Entry(p, Found(m, p).kind)
        <4>1. e \in S /\ e.path = p
          BY <3>1, EntriesAre
        <4>2. PICK x \in Listed(m, d, deep) : e = N!Entry(x, Found(m, x).kind)
          BY <1>1, <4>1
        <4> QED BY <4>2, <4>1, EntriesAre DEF Listed
      <3>2. ASSUME Found(m, p) # N!None PROVE N!Entry(p, Found(m, p).kind) \in N!At(S, p)
        <4>1. N!Entry(p, Found(m, p).kind) \in S
          BY <1>1, <3>2 DEF Listed
        <4> QED BY <4>1, EntriesAre
      <3> QED BY <3>1, <3>2
    <2>2. N!Seen(p) = IF Found(m, p) = N!None THEN {} ELSE {N!Entry(p, Found(m, p).kind)}
      BY <1>3, EntriesAre
    <2>3. N!At(S, p) \subseteq N!Seen(p) /\ N!Seen(p) \subseteq N!At(S, p)
      BY <2>1, <2>2
    <2> QED BY <2>3
  <1> QED BY <1>2, <1>3 DEF S

\* The point of the memory mount is a directory, unless the layers disagree about it.
LEMMA PointIs ==
  ASSUME Trees(s), MountOk, mount.there, ~ N!Clash(<<Point>>)
  PROVE  N!Seen(<<Point>>) = {N!Entry(<<Point>>, "dir")} /\ N!Resolve(<<Point>>) = N!AtPoint
  <1> DEFINE p == <<Point>>
             a == N!AtPoint
  <1>1. p \in N!Paths /\ N!Under(p, p)
    BY BelowPoint, UnderOrders
  <1>2. N!Resolve(p) = a
    <2> QED BY DEF N!Resolve
  <1>3. a.up = mount.layered /\ a.low = "M" /\ a.base = <<Point>>
    BY DEF N!AtPoint
  <1> HIDE DEF a
  <1>4. Serving(a, p)
    BY <1>1, <1>3 DEF Serving, MountOk
  <1>5. N!Local(a, p) = <<>>
    <2>1. N!Local(a, p) = SubSeq(p, 2, 1)
      BY <1>3 DEF N!Local
    <2> HIDE DEF p
    <2> QED BY <2>1, <1>1, SegmentsAre DEF Segments
  <1>6. s.M[<<>>] = N!Dir /\ Nodelike(s.O[p])
    BY <1>1 DEF Trees, Treelike
  <1>7. s[a.low][N!Local(a, p)] = N!Dir
    BY <1>3, <1>5, <1>6
  <1> DEFINE found == N!StatOf(p)
  <1>8. found = Found(a, p)
    BY <1>2, EntriesAre
  <1>9. found = N!Dir
    <2>1. CASE N!InUp(a, p)
      <3>1. a.up /\ s.O[p] # N!None /\ found = s.O[p]
        BY <1>8, <2>1 DEF N!InUp, Found
      <3>2. s.O[p].kind = N!Dir.kind
        <4>1. SUFFICES ASSUME s.O[p].kind # N!Dir.kind PROVE N!Clash(p)
          OBVIOUS
        <4>2. N!Under(a.base, p)
          BY <1>1, <1>3
        <4>3. N!Dir # N!None
          BY NodesAre
        <4> HIDE DEF p
        <4> QED BY <1>2, <1>7, <3>1, <4>1, <4>2, <4>3 DEF N!Clash
      <3> QED BY <1>6, <3>1, <3>2, NodesAre
    <2>2. CASE ~ N!InUp(a, p)
      BY <1>7, <1>8, <2>2 DEF Found
    <2> QED BY <2>1, <2>2
  <1>10. N!Seen(p) = {N!Entry(p, "dir")}
    <2> HIDE DEF p
    <2> QED BY <1>9, NodesAre, EntriesAre
  <1> QED BY <1>2, <1>10 DEF a

LEMMA ListsAgree ==
  ASSUME Trees(s), MountOk, NEW d \in N!Paths, NEW p \in N!Paths, N!Under(d, p), p # d, ~ N!Clash(p),
         Len(p) = Len(d) + 1
  PROVE  N!At(N!ListOf(d), p) = N!Seen(p)
  <1> DEFINE deep == FALSE
             m == N!Resolve(d)
             own == N!Merged(m, d, deep)
  <1>1. deep \in BOOLEAN /\ p \in Inside(d, deep)
    BY DEF Inside
  <1>2. /\ mount.there /\ d = <<>> =>
             N!ListOf(d) = {e \in own : e.path # <<Point>>} \cup {N!Entry(<<Point>>, "dir")}
        /\ ~ (mount.there /\ d = <<>>) => N!ListOf(d) = own
    BY DEF N!ListOf
  <1> HIDE DEF deep
  <1>3. Serving(m, d)
    BY ResolveIs DEF MountOk
  <1> HIDE DEF m
  <1>4. /\ \A e \in own : e.path \in Inside(d, deep)
        /\ N!Resolve(p) = m => N!At(own, p) = N!Seen(p)
    BY <1>1, <1>3, OwnAgrees
  <1> HIDE DEF own
  <1>5. CASE mount.there /\ d = <<>> /\ N!Under(<<Point>>, p)
    <2>1. p = <<Point>>
      BY <1>5, BelowPoint, UnderOrders
    <2> DEFINE at == <<Point>>
               L == {e \in own : e.path # at} \cup {N!Entry(at, "dir")}
    <2>2. N!At(N!ListOf(d), p) = {e \in L : e.path = at}
      BY <1>2, <1>5, <2>1 DEF N!At
    <2> HIDE DEF at
    <2>3. {e \in L : e.path = at} = {N!Entry(at, "dir")}
      BY EntriesAre
    <2> QED BY <1>5, <2>1, PointIs, <2>2, <2>3 DEF at
  <1>6. CASE N!Resolve(p) = m /\ ~ (mount.there /\ d = <<>>)
    BY <1>2, <1>4, <1>6
  <1>7. CASE N!Resolve(p) = m /\ mount.there /\ d = <<>> /\ ~ N!Under(<<Point>>, p)
    <2> DEFINE at == <<Point>>
               L == {e \in own : e.path # at} \cup {N!Entry(at, "dir")}
    <2>1. N!At(N!ListOf(d), p) = {e \in L : e.path = p}
      BY <1>2, <1>7 DEF N!At
    <2>2. p # at
      BY <1>7, BelowPoint, UnderOrders
    <2> HIDE DEF at
    <2>3. {e \in L : e.path = p} = {e \in own : e.path = p}
      BY <2>2, EntriesAre
    <2>4. N!At(own, p) = {e \in own : e.path = p}
      BY DEF N!At
    <2> QED BY <1>4, <1>7, <2>1, <2>3, <2>4
  <1> QED BY SameMount, <1>5, <1>6, <1>7 DEF m

\* Nothing that a recursive listing has, apart from the mount itself, has its name.
LEMMA NoneNamed ==
  ASSUME Trees(s), MountOk, mount.there, ~ N!Taken, NEW e \in N!Merged(N!Root, <<>>, TRUE),
         ~ N!Under(<<Point>>, e.path)
  PROVE  N!Last(e.path) # Point
  <1> DEFINE m == N!Root
             d == <<>>
             deep == TRUE
  <1>1. m.up = TRUE /\ m.low = "L" /\ m.base = <<>>
    BY DEF N!Root
  <1>2. d \in N!Paths /\ deep \in BOOLEAN /\ e \in N!Merged(m, d, deep)
    BY UnderOrders, BelowPoint
  <1> HIDE DEF m, d, deep
  <1>3. Serving(m, d)
    BY <1>1 DEF Serving
  <1> DEFINE x == e.path
  <1>4. x \in Inside(d, deep) /\ Found(m, x) # N!None
    BY <1>2, <1>3, OwnAgrees
  <1> HIDE DEF x
  <1>5. x \in N!Paths /\ N!Under(d, x) /\ x # d
    BY <1>4 DEF Inside
  <1>6. ~ N!Under(<<Point>>, x)
    BY DEF x
  <1>7. N!Resolve(x) = m
    <2> QED BY <1>6, <1>2, <1>5, SameMount DEF m
  <1>8. x \in Seq(Names) /\ Len(x) \in 1 .. 2
    BY <1>5, SegmentsAre, EmptySeq DEF Segments, d
  <1>9. ASSUME N!Last(x) = Point PROVE FALSE
    <2>1. Len(x) # 1
      <3>1. ASSUME Len(x) = 1 PROVE Begins(<<Point>>, x)
        BY <1>8, <1>9, <3>1 DEF Begins, N!Last
      <3> QED BY <1>5, <1>6, <3>1, BelowPoint, UnderIs
    <2>2. Len(x) = 2
      BY <1>8, <2>1
    <2> QED BY <1>5, <1>4, <1>7, EntriesAre, <1>9, <2>2 DEF N!Taken
  <1> QED BY <1>9 DEF x

LEMMA TreesAgree ==
  ASSUME Trees(s), MountOk, NEW d \in N!Paths, NEW p \in N!Paths, N!Under(d, p), p # d, ~ N!Clash(p),
         ~ (mount.there /\ N!Taken)
  PROVE  N!At(N!TreeOf(d), p) = N!Seen(p)
  <1> DEFINE deep == TRUE
             m == N!Resolve(d)
             own == N!Merged(m, d, deep)
             at == <<Point>>
             a == N!AtPoint
             below == N!Merged(a, at, deep)
             seen == {e \in own : ~ N!Under(at, e.path)}
             named == {e \in seen : N!Last(e.path) = Point}
  <1>1. deep \in BOOLEAN /\ p \in Inside(d, deep) /\ (at # p /\ N!Under(at, p) => p \in Inside(at, deep))
    BY DEF Inside
  <1>2. /\ ~ (mount.there /\ d = <<>>) => N!TreeOf(d) = own
        /\ mount.there /\ d = <<>> /\ named = {} => N!TreeOf(d) = below \cup (seen \cup {N!Entry(at, "dir")})
    <2> QED BY DEF N!TreeOf
  <1>3. Serving(m, d)
    BY ResolveIs DEF MountOk
  <1>4. mount.there /\ d = <<>> => named = {}
    <2>1. SUFFICES ASSUME mount.there, d = <<>>, NEW e \in seen, N!Last(e.path) = Point PROVE FALSE
      OBVIOUS
    <2>2. e \in N!Merged(N!Root, <<>>, TRUE) /\ ~ N!Under(<<Point>>, e.path)
      BY <2>1 DEF N!Resolve
    <2> QED BY <2>1, <2>2, NoneNamed
  <1>5. N!Resolve(p) = m \/ (mount.there /\ d = <<>> /\ N!Under(at, p))
    BY SameMount
  <1>6. N!Resolve(p) = IF mount.there /\ N!Under(at, p) THEN a ELSE N!Root
    BY SameMount
  <1>7. at \in N!Paths /\ N!Under(at, at)
    BY BelowPoint, UnderOrders
  <1>8. Serving(a, at)
    <2>1. a.up = mount.layered /\ a.low = "M" /\ a.base = <<Point>>
      BY DEF N!AtPoint
    <2> HIDE DEF a
    <2> QED BY <1>7, <2>1 DEF Serving, MountOk
  <1> HIDE DEF deep
  <1>9. /\ \A e \in own : e.path \in Inside(d, deep)
        /\ N!Resolve(p) = m => N!At(own, p) = N!Seen(p)
    <2> HIDE DEF m
    <2> QED BY <1>1, <1>3, OwnAgrees
  <1>10. /\ \A e \in below : e.path \in Inside(at, deep)
         /\ p \in Inside(at, deep) /\ N!Resolve(p) = a => N!At(below, p) = N!Seen(p)
    <2> HIDE DEF a, at
    <2> QED BY <1>1, <1>7, <1>8, OwnAgrees
  <1>11. \A e \in below : N!Under(at, e.path) /\ e.path # at
    BY <1>10 DEF Inside
  <1>12. mount.there /\ at = p => N!Seen(p) = {N!Entry(at, "dir")}
    BY PointIs
  <1> HIDE DEF below, m, a, own, at
  <1>13. CASE ~ (mount.there /\ d = <<>>)
    BY <1>2, <1>5, <1>9, <1>13
  <1>14. CASE mount.there /\ d = <<>>
    <2> DEFINE T == below \cup (seen \cup {N!Entry(at, "dir")})
    <2>1. N!At(N!TreeOf(d), p) = {e \in T : e.path = p}
      BY <1>2, <1>4, <1>14 DEF N!At
    <2>2. CASE p = at
      <3>1. {e \in T : e.path = p} = {N!Entry(at, "dir")}
        BY <1>7, <1>11, <2>2, EntriesAre
      <3> QED BY <1>12, <1>14, <2>1, <2>2, <3>1
    <2>3. CASE p # at /\ N!Under(at, p)
      <3>1. {e \in T : e.path = p} = {e \in below : e.path = p}
        BY <2>3, EntriesAre
      <3>2. N!At(below, p) = {e \in below : e.path = p}
        BY DEF N!At
      <3> QED BY <1>1, <1>6, <1>10, <1>14, <2>1, <2>3, <3>1, <3>2
    <2>4. CASE p # at /\ ~ N!Under(at, p)
      <3>1. N!At(own, p) = {e \in own : e.path = p}
        BY DEF N!At
      <3> QED BY <1>5, <1>9, <2>1, <2>4, <1>11, EntriesAre, <3>1
    <2> QED BY <2>2, <2>3, <2>4
  <1> QED BY <1>13, <1>14

\* In every state of trees and mounts, during calls as well.
LEMMA NamesAgree ==
  ASSUME Trees(s), MountOk PROVE N!ListingsAgree
  <1>1. ASSUME NEW d \in N!Paths, NEW p \in N!Paths, N!Under(d, p), p # d, ~ N!Clash(p)
        PROVE  /\ Len(p) = Len(d) + 1 => N!At(N!ListOf(d), p) = N!Seen(p)
               /\ (mount.there /\ N!Taken) \/ N!At(N!TreeOf(d), p) = N!Seen(p)
    BY <1>1, ListsAgree, TreesAgree
  <1> QED BY <1>1 DEF N!ListingsAgree

-----------------------------------------------------------------------------
(* The entries of a directory that is copied *)

LEMMA NameSequence ==
  ASSUME NEW S, IsFiniteSet(S) PROVE N!SetToSeq(S) \in Seq(S)
  <1>1. Cardinality(S) \in Nat /\ ExistsBijection(1 .. Cardinality(S), S)
    BY FS_CardinalityType
  <1>2. PICK f \in [1 .. Cardinality(S) -> S] : IsInjective(f)
    BY <1>1 DEF ExistsBijection, Bijection, Injection
  <1> DEFINE k == Cardinality(S)
  <1>3. N!SetToSeq(S) \in [1 .. k -> S]
    <2>1. N!SetToSeq(S) = CHOOSE g \in [1 .. k -> S] : N!IsInjective(g)
      BY DEF N!SetToSeq, N!Cardinality, Cardinality
    <2> HIDE DEF k
    <2>2. \E g \in [1 .. k -> S] : N!IsInjective(g)
      BY <1>2 DEF k, IsInjective, N!IsInjective
    <2> QED BY <2>1, <2>2
  <1> QED BY <1>1, <1>3, SeqDef

Kin(d) == {N!Last(e.path) : e \in N!ListOf(d)}

LEMMA KidsFit ==
  ASSUME Trees(s), MountOk, NEW d \in Below
  PROVE  Kin(d) \subseteq Names /\ (Kin(d) # {} => Len(d) = 1)
  <1> DEFINE deep == FALSE
             m == N!Resolve(d)
  <1>1. N!ListOf(d) = N!Merged(m, d, deep) /\ deep \in BOOLEAN /\ d \in N!Paths /\ d # <<>>
    BY DEF N!ListOf, Below
  <1>2. \A x \in Inside(d, deep) : Len(x) = Len(d) + 1 /\ x \in N!Paths
    BY DEF Inside
  <1> HIDE DEF deep
  <1>3. Serving(m, d)
    BY <1>1, ResolveIs DEF MountOk
  <1> HIDE DEF m
  <1>4. \A e \in N!ListOf(d) : e.path \in Inside(d, deep)
    BY <1>1, <1>3, OwnAgrees
  <1>5. ASSUME NEW e \in N!ListOf(d) PROVE N!Last(e.path) \in Names /\ Len(d) = 1
    <2> DEFINE x == e.path
    <2>1. x \in N!Paths /\ Len(x) = Len(d) + 1
      BY <1>2, <1>4
    <2> HIDE DEF x
    <2>2. x \in Seq(Names) /\ Len(x) \in 0 .. 2
      BY <2>1, SegmentsAre DEF Segments
    <2>3. Len(x) = 2 /\ Len(d) = 1
      BY <1>1, SegmentsAre, EmptySeq, <2>1, <2>2 DEF Segments
    <2>4. N!Last(x) = x[Len(x)]
      BY DEF N!Last
    <2> QED BY <2>3, <2>2, <2>4 DEF x
  <1> QED BY <1>5 DEF Kin

\* The pairs that a listing adds to what is to be copied.
LEMMA PairsFit ==
  ASSUME Trees(s), MountOk, NEW from \in Below, NEW to \in Below, Len(from) = Len(to),
         NEW todo \in Seq(Pairs), todo # <<>>
  PROVE  LET kids == N!SetToSeq(Kin(from))
             pairs == [i \in 1 .. Len(kids) |-> <<Append(from, kids[i]), Append(to, kids[i])>>]
         IN  <<Head(todo)>> \o pairs \o Tail(todo) \in Seq(Pairs)
  <1> DEFINE kids == N!SetToSeq(Kin(from))
             pairs == [i \in 1 .. Len(kids) |-> <<Append(from, kids[i]), Append(to, kids[i])>>]
  <1>1. Kin(from) \subseteq Names /\ (Kin(from) # {} => Len(from) = 1)
    BY KidsFit
  <1>2. kids \in Seq(Kin(from))
    BY <1>1, FileSystemAssumption, FS_Subset, NameSequence
  <1>3. Len(kids) \in Nat /\ \A i \in 1 .. Len(kids) : kids[i] \in Kin(from)
    BY <1>2
  <1> HIDE DEF kids
  <1>4. ASSUME NEW i \in 1 .. Len(kids) PROVE <<Append(from, kids[i]), Append(to, kids[i])>> \in Pairs
    <2> DEFINE k == kids[i]
    <2>1. k \in Names /\ Len(from) = 1 /\ Len(to) = 1
      BY <1>1, <1>3
    <2> HIDE DEF k
    <2>2. ASSUME NEW p \in Seq(Names), Len(p) = 1 PROVE Append(p, k) \in Below /\ Len(Append(p, k)) = 2
      <3> DEFINE n == Append(p, k)
      <3>1. n \in Seq(Names) /\ Len(n) = 2
        <4>1. Len(Append(p, k)) = Len(p) + 1
          BY <2>1, <2>2, AppendProperties
        <4> QED BY <2>2, <2>1, AppendProperties, <4>1
      <3> HIDE DEF n
      <3>2. n \in N!Paths
        BY <3>1, SegmentsAre DEF Segments
      <3>3. n # <<>>
        <4>1. Len(<<>>) = 0
          BY EmptySeq
        <4>2. Len(n) # 0
          BY <3>1
        <4> QED BY ONLY <4>1, <4>2
      <3> QED BY <3>1, <3>2, <3>3 DEF Below, n
    <2>3. /\ Append(from, k) \in Below /\ Append(to, k) \in Below
          /\ Len(Append(from, k)) = Len(Append(to, k))
      BY SegmentsAre, <2>1, <2>2 DEF Segments, Below
    <2> QED BY <2>3 DEF Pairs, k
  <1>5. pairs \in Seq(Pairs)
    <2>1. pairs \in [1 .. Len(kids) -> Pairs]
      BY <1>4
    <2> HIDE DEF pairs
    <2> QED BY <1>3, <2>1, SeqDef
  <1> HIDE DEF pairs
  <1>6. Head(todo) \in Pairs /\ Tail(todo) \in Seq(Pairs)
    BY HeadTailProperties
  <1>7. <<Head(todo)>> \o pairs \in Seq(Pairs)
    BY <1>5, <1>6, ConcatProperties
  <1> QED BY <1>6, <1>7, ConcatProperties DEF kids, pairs

-----------------------------------------------------------------------------
(* Every step keeps what is known of the trees, the mount and the call *)

LEMMA BeginKeeps ==
  ASSUME NameInv, N!Begin PROVE NameInv'
  <1>1. Trees(s) /\ MountOk /\ s' = s /\ mount' = mount
    BY DEF N!Begin, NameInv
  <1>2. PICK op \in {"writeFile", "append", "truncate", "mkdir", "rm", "rename", "copyFile", "cp"},
             from, to \in N!Paths \ {<<>>}, flag \in BOOLEAN :
       /\ op \in {"writeFile", "append", "truncate", "mkdir", "rm"} => to = from
       /\ op \in {"writeFile", "append", "rename"} => flag
       /\ op = "cp" \/ (op = "rename" /\ N!StatOf(from).kind = "dir") => Len(to) = Len(from)
       /\ op = "rename" => from = to \/ ~ N!Under(from, to)
       /\ LET m == N!Resolve(from)
              ro == op \in {"rename", "copyFile"} /\ mount.readOnly /\
                    \E x \in {m, N!Resolve(to)} :
                      x.low = "M" /\ ~ x.up /\ (op = "rename" \/ x = N!Resolve(to))
          IN  call' = [op |-> op, from |-> from, to |-> to, flag |-> flag, src |-> m,
                       dst |-> N!Resolve(to), err |-> IF ro THEN "rofs" ELSE "ok",
                       pc |-> IF ro THEN "done" ELSE N!First(op, m, to, flag),
                       got |-> <<>>, todo |-> IF op = "cp" THEN <<<<from, to>>>> ELSE <<>>,
                       had |-> N!StatOf(from),
                       hidden |-> N!InUp(N!Resolve(to), to) /\ ~ N!InUp(m, from),
                       twice |-> N!InUp(m, from) /\ s[m.low][N!Local(m, from)] # N!None,
                       alone |-> TRUE]
    BY DEF N!Begin
  <1> DEFINE m == N!Resolve(from)
             n == N!Resolve(to)
             todo == IF op = "cp" THEN <<<<from, to>>>> ELSE <<>>
             first == N!First(op, m, to, flag)
             c == call'
  <1>3. /\ c \in [op : {op}, from : {from}, to : {to}, flag : {flag}, src : {m}, dst : {n}, err : {c.err},
                  pc : {c.pc}, got : {c.got}, todo : {todo}, had : {c.had}, hidden : {c.hidden},
                  twice : {c.twice}, alone : {c.alone}]
        /\ c.pc \in {"done", first}
    BY <1>2
  <1>4. from \in N!Paths /\ to \in N!Paths /\ from \in Below /\ to \in Below
    BY DEF Below
  <1>5. Serving(m, from) /\ Serving(n, to)
    BY <1>1, <1>4, ResolveIs DEF MountOk
  <1>6. todo \in Seq(Pairs) /\ (op = "cp" => todo # <<>>)
    <2>1. CASE op = "cp"
      <3> QED BY <2>1, <1>2, <1>4 DEF Pairs
    <2>2. CASE op # "cp"
      BY <2>2, EmptySeq
    <2> QED BY <2>1, <2>2
  <1>7. first = "do" => /\ op \in {"writeFile", "mkdir", "rm", "rename", "copyFile"}
                        /\ op \in {"rename", "copyFile"} => m = n
                        /\ op = "copyFile" => ~ m.up
    <2>1. CASE op = "rename"
      BY <2>1 DEF N!First
    <2>2. CASE op = "copyFile"
      BY <2>2 DEF N!First
    <2>3. CASE op \in {"append", "truncate", "cp"}
      BY <2>3 DEF N!First
    <2>4. CASE op \in {"writeFile", "mkdir", "rm"}
      BY <2>4
    <2> QED BY <2>1, <2>2, <2>3, <2>4
  <1>8. ~ m.up => m.low = "M"
    <2>1. N!AtPoint.low = "M" /\ N!Root.up = TRUE
      BY DEF N!AtPoint, N!Root
    <2> QED BY <2>1 DEF N!Resolve
  <1>9. op = "rename" => from = to \/ ~ N!Under(from, to)
    BY <1>2
  <1> HIDE DEF m, n, todo, first, c
  <1>10. CallOk(c)
    <2>1. c \in [op : {"writeFile", "append", "truncate", "mkdir", "rm", "rename", "copyFile", "cp"},
                 from : Below, to : Below, flag : BOOLEAN, src : {c.src}, dst : {c.dst}, err : {c.err},
                 pc : {c.pc}, got : {c.got}, todo : Seq(Pairs), had : {c.had}, hidden : {c.hidden},
                 twice : {c.twice}, alone : {c.alone}]
      BY <1>3, <1>4, <1>6
    <2>2. /\ c.op = op /\ c.from = from /\ c.to = to /\ c.src = m /\ c.dst = n /\ c.todo = todo
          /\ c.pc = "done" \/ c.pc = first
      BY <1>3
    <2> QED BY <1>5, <1>6, <1>7, <1>8, <1>9, <2>1, <2>2 DEF CallOk
  <1>11. Trees(s)' /\ MountOk'
    BY <1>1 DEF Trees, Treelike, Shallow, MountOk
  <1> QED BY <1>10, <1>11 DEF NameInv, c, CallOk, Serving

LEMMA DoKeeps ==
  ASSUME NameInv, N!Do PROVE Trees(s') /\ CallOk(call')
  <1>1. N!Busy /\ call.pc = "do" /\ Trees(s)
    BY DEF N!Do, NameInv
  <1>2. PICK x \in N!Simple : s' = x.s /\ call' = N!Ends(x.err)
    BY DEF N!Do
  <1>3. CallOk(call)
    BY <1>1, FromToAre
  <1> DEFINE m == call.src
             from == call.from
             to == call.to
             f == call.flag
  <1>4. /\ from \in N!Paths /\ to \in N!Paths /\ f \in BOOLEAN /\ Serving(m, from)
        /\ call.op \in {"writeFile", "mkdir", "rm", "rename", "copyFile"}
        /\ call.op \in {"rename", "copyFile"} => Serving(m, to)
        /\ call.op = "copyFile" => m.low = "M"
        /\ call.op = "rename" => from = to \/ ~ N!Under(from, to)
    BY <1>1, <1>3 DEF CallOk, Below
  <1>5. Outcome(x)
    <2>1. CASE call.op = "writeFile"
      <3>1. x \in N!Write(m, from, N!New)
        BY <1>2, <2>1 DEF N!Simple
      <3> HIDE DEF m, from
      <3> QED BY <1>1, <1>4, <3>1, CallsLeave
    <2>2. CASE call.op = "mkdir"
      <3>1. x \in N!Mkdir(m, from, f)
        BY <1>2, <2>2 DEF N!Simple
      <3> HIDE DEF m, from, f
      <3> QED BY <1>1, <1>4, <3>1, CallsLeave
    <2>3. CASE call.op = "rm"
      <3>1. x \in N!Rm(m, from, f, f)
        BY <1>2, <2>3 DEF N!Simple
      <3> HIDE DEF m, from, f
      <3> QED BY <1>1, <1>4, <3>1, CallsLeave
    <2>4. CASE call.op = "rename"
      <3>1. x \in N!Rename(m, from, to)
        BY <1>2, <2>4 DEF N!Simple
      <3> HIDE DEF m, from, to
      <3> QED BY <1>1, <1>4, <2>4, <3>1, MovesLeave
    <2>5. CASE call.op = "copyFile"
      <3>1. x \in N!Lower(m, N!CopyIn(s.M, N!Local(m, from), N!Local(m, to), f))
        BY <1>2, <2>5 DEF N!Simple
      <3> HIDE DEF m, from, to, f
      <3> QED BY <1>1, <1>4, <2>5, <3>1, MovesLeave
    <2> QED BY <1>4, <2>1, <2>2, <2>3, <2>4, <2>5
  <1> QED BY <1>2, <1>3, CallMoves, <1>5 DEF Outcome

LEMMA PartsKeep ==
  ASSUME NameInv, N!Stat \/ N!CpMkdir \/ N!CpList \/ N!Exists \/ N!ReadAll \/ N!WriteAll \/ N!RmSource
  PROVE  Trees(s') /\ CallOk(call')
  <1>1. N!Busy /\ Trees(s) /\ MountOk
    BY DEF N!Stat, N!CpMkdir, N!CpList, N!Exists, N!ReadAll, N!WriteAll, N!RmSource, NameInv
  <1>2. /\ CallOk(call) /\ call.pc # "done"
        /\ N!From \in Below /\ N!To \in Below /\ N!From \in N!Paths /\ N!To \in N!Paths
        /\ Serving(N!Source, N!From) /\ Serving(N!Target, N!To)
        /\ call.op = "cp" => /\ call.todo # <<>> /\ call.todo \in Seq(Pairs) /\ Len(N!From) = Len(N!To)
    BY <1>1, FromToAre DEF Below
  <1>3. /\ CallOk(N!Goto("read")) /\ CallOk(N!Goto("exists")) /\ CallOk(N!Goto("mkdir"))
        /\ CallOk(N!Goto("list")) /\ CallOk(N!Goto("rm")) /\ CallOk(N!Next1(call))
    BY <1>2, CallMoves
  <1>4. \A e : CallOk(N!Ends(e))
    BY <1>2, CallMoves
  <1>5. CASE N!Stat
    <2>1. PICK x \in N!Look(N!From) :
            call' = IF x.err # "ok" THEN N!Ends(x.err)
                    ELSE IF call.op = "rename"
                    THEN IF x.val.kind = "dir" THEN N!Ends("xdev") ELSE N!Goto("read")
                    ELSE IF x.val.kind = "file" THEN N!Goto("exists")
                    ELSE IF call.flag THEN N!Goto("mkdir") ELSE N!Ends("isdir")
      BY <1>5 DEF N!Stat
    <2> QED BY <1>1, <1>5, <1>3, <1>4, <2>1 DEF N!Stat
  <1>6. CASE N!CpMkdir
    <2>1. PICK x \in N!Mkdir(N!Target, N!To, TRUE) :
            s' = x.s /\ call' = IF x.err # "ok" THEN N!Ends(x.err) ELSE N!Goto("list")
      BY <1>6 DEF N!CpMkdir
    <2> DEFINE all == TRUE
    <2> HIDE DEF all
    <2>2. Outcome(x)
      BY <1>1, <1>2, CallsLeave
    <2> QED BY <2>1, <1>3, <1>4, <2>2 DEF Outcome
  <1>7. CASE N!CpList
    <2> DEFINE kids == N!SetToSeq(Kin(N!From))
               pairs == [i \in 1 .. Len(kids) |-> <<Append(N!From, kids[i]), Append(N!To, kids[i])>>]
               d == <<Head(call.todo)>> \o pairs \o Tail(call.todo)
    <2>1. \/ call' = N!Next1([call EXCEPT !.todo = d])
          \/ \E e : call' = N!Ends(e)
      BY <1>7 DEF N!CpList, Kin
    <2>2. call.op = "cp" => d \in Seq(Pairs)
      <3>1. SUFFICES ASSUME call.op = "cp" PROVE d \in Seq(Pairs)
        OBVIOUS
      <3> QED BY <1>1, <1>2, <3>1, PairsFit
    <2> HIDE DEF d
    <2>3. call.op # "cp" => CallOk(call')
      <3>1. SUFFICES ASSUME call.op # "cp" PROVE CallOk(call')
        OBVIOUS
      <3>2. N!Next1([call EXCEPT !.todo = d]) = N!Ends("ok")
        BY <3>1, <1>2 DEF N!Next1, CallOk
      <3> QED BY <1>4, <2>1, <3>2
    <2> QED BY <1>1, <1>7, <1>2, <1>4, <2>1, <2>2, CallMoves, <2>3 DEF N!CpList
  <1>8. CASE N!Exists
    <2>1. CallOk(call')
      BY <1>3, <1>4, <1>8 DEF N!Exists
    <2> QED BY <1>1, <1>8, <2>1 DEF N!Exists
  <1>9. CASE N!ReadAll
    <2>1. CallOk(call')
      BY <1>2, <1>4, <1>9, CallMoves DEF N!ReadAll
    <2> QED BY <1>1, <1>9, <2>1 DEF N!ReadAll
  <1>10. CASE N!WriteAll
    <2>1. PICK d \in N!Rewritten : \E x \in N!Write(N!Target, N!To, d) :
            /\ s' = x.s
            /\ call' = IF x.err # "ok" THEN N!Ends(x.err)
                       ELSE IF call.op = "rename" THEN N!Goto("rm") ELSE N!Next1(call)
      BY <1>10 DEF N!WriteAll
    <2>2. PICK x \in N!Write(N!Target, N!To, d) :
            /\ s' = x.s
            /\ call' = IF x.err # "ok" THEN N!Ends(x.err)
                       ELSE IF call.op = "rename" THEN N!Goto("rm") ELSE N!Next1(call)
      BY <2>1
    <2>3. Outcome(x)
      BY <1>1, <1>2, CallsLeave
    <2> QED BY <2>2, <1>3, <1>4, <2>3 DEF Outcome
  <1>11. CASE N!RmSource
    <2>1. PICK x \in N!Rm(N!Source, N!From, FALSE, FALSE) : s' = x.s /\ call' = N!Ends(x.err)
      BY <1>11 DEF N!RmSource
    <2> DEFINE no == FALSE
    <2> HIDE DEF no
    <2>2. Outcome(x)
      BY <1>1, <1>2, CallsLeave
    <2> QED BY <2>1, <1>4, <2>2 DEF Outcome
  <1> QED BY <1>5, <1>6, <1>7, <1>8, <1>9, <1>10, <1>11

\* What the host, and other calls, do to the trees and the mount.
LEMMA PutIn ==
  ASSUME Trees(s), NEW t, Treelike(t)
  PROVE  /\ Trees([s EXCEPT !["O"] = t])
         /\ Shallow(t) => Trees([s EXCEPT !["M"] = t])
  <1> DEFINE a == s.O
             b == s.L
             c == s.M
  <1>1. s = [O |-> a, L |-> b, M |-> c] /\ Treelike(a) /\ Treelike(b) /\ Treelike(c) /\ Shallow(c)
    BY DEF Trees
  <1> HIDE DEF a, b, c
  <1>2. [s EXCEPT !["O"] = t] = [O |-> t, L |-> b, M |-> c]
    BY ONLY <1>1
  <1>3. [s EXCEPT !["M"] = t] = [O |-> a, L |-> b, M |-> t]
    BY ONLY <1>1
  <1> QED BY <1>1, <1>2, <1>3 DEF Trees

\* Where something is injected.
LEMMA InjectedIs ==
  ASSUME NameInv, NEW p \in N!Paths \ {<<>>, <<Point>>}
  PROVE  LET at == N!Injected(p)
             local == IF at = "O" THEN p ELSE N!Local(N!AtPoint, p)
         IN  /\ at \in {"O", "M"} /\ local \in N!Paths /\ local # <<>> /\ Treelike(s[at])
             /\ at = "M" => Len(local) <= 1 /\ Shallow(s[at])
  <1>1. Treelike(s.O) /\ Treelike(s.M) /\ Shallow(s.M) /\ MountOk
    BY DEF NameInv, Trees
  <1>2. CASE N!Resolve(p).up
    BY <1>1, <1>2 DEF N!Injected
  <1>3. CASE ~ N!Resolve(p).up
    <2>1. N!Injected(p) = "M" /\ N!Resolve(p) = N!AtPoint
      <3>1. N!Resolve(p) = N!AtPoint \/ N!Resolve(p) = N!Root
        BY DEF N!Resolve
      <3> QED BY <1>3, <3>1 DEF N!Injected, N!Root
    <2> DEFINE a == N!AtPoint
    <2>2. Serving(a, p) /\ p \in N!Paths
      BY <1>1, <2>1, ResolveIs DEF MountOk
    <2>3. a.low = "M" /\ a.base = <<Point>>
      BY DEF N!AtPoint
    <2> HIDE DEF a
    <2> DEFINE l == N!Local(a, p)
    <2>4. l \in N!Paths /\ Len(l) <= 1 /\ <<Point>> \o l = p
      <3>1. a.base \o l = p
        BY <2>2, LocalJoins, UnderOrders
      <3> QED BY <2>2, <2>3, <3>1, LocalIs
    <2> HIDE DEF l
    <2>5. l # <<>>
      <3>1. <<Point>> \o <<>> = <<Point>>
        BY FileSystemAssumption, ConcatEmptySeq
      <3> QED BY <2>4, <3>1
    <2> QED BY <1>1, <2>1, <2>4, <2>5 DEF a, l
  <1> QED BY <1>2, <1>3

LEMMA MeddledKeeps ==
  ASSUME NameInv, N!Meddles PROVE call' = N!NoCall \/ CallOk(call')
  <1>1. N!Busy => CallOk(call)
    BY FromToAre
  <1> QED BY <1>1, CallMoves DEF N!Meddles

LEMMA HostKeeps ==
  ASSUME NameInv, N!Other \/ N!Host PROVE Trees(s') /\ N!Meddles /\ MountOk'
  <1>1. Trees(s) /\ MountOk /\ N!Meddles
    BY DEF NameInv, N!Other, N!Host, N!AddVirtualFile, N!RemoveVirtualFile, N!MountMemory, N!UnmountMemory
  <1>2. CASE N!Other
    <2>1. PICK p \in N!Paths : \E x \in N!Write(N!Resolve(p), p, N!New) \cup N!Rm(N!Resolve(p), p, TRUE, FALSE) :
            s' = x.s
      BY <1>2 DEF N!Other
    <2> DEFINE m == N!Resolve(p)
               yes == TRUE
               no == FALSE
    <2>2. PICK x \in N!Write(m, p, N!New) \cup N!Rm(m, p, yes, no) : s' = x.s
      BY <2>1
    <2>3. Serving(m, p)
      BY <1>1, ResolveIs DEF MountOk
    <2> HIDE DEF m, yes, no
    <2>4. Outcome(x)
      BY <1>1, <2>3, CallsLeave
    <2> QED BY <1>1, <2>2, <2>4, <1>2 DEF Outcome, MountOk, N!Other
  <1>3. CASE N!AddVirtualFile
    <2>1. PICK p \in N!Paths \ {<<>>, <<Point>>} :
            LET at == N!Injected(p)
                local == IF at = "O" THEN p ELSE N!Local(N!AtPoint, p)
                up == N!Mkdirp(s[at], N!Front(local))
            IN  /\ up.err = "ok"
                /\ s' = [s EXCEPT ![at] = [N!Gone(up.t, local) EXCEPT ![local] = N!File(N!New)]]
      BY <1>3 DEF N!AddVirtualFile
    <2> DEFINE at == N!Injected(p)
               local == IF at = "O" THEN p ELSE N!Local(N!AtPoint, p)
               t == s[at]
               n == [N!Gone(N!Mkdirp(t, N!Front(local)).t, local) EXCEPT ![local] = N!File(N!New)]
    <2>2. /\ at \in {"O", "M"} /\ local \in N!Paths /\ local # <<>> /\ Treelike(t)
          /\ at = "M" => Len(local) <= 1 /\ Shallow(t)
      BY InjectedIs
    <2>3. N!Mkdirp(t, N!Front(local)).err = "ok" /\ s' = [s EXCEPT ![at] = n]
      BY <2>1
    <2> HIDE DEF at, local, t
    <2>4. Treelike(n) /\ (Shallow(t) /\ Len(local) <= 1 => Shallow(n))
      BY <2>2, <2>3, PutOverIs
    <2> HIDE DEF n
    <2>5. Trees(s')
      BY <1>1, <2>2, <2>3, <2>4, PutIn
    <2> QED BY <1>1, <2>5, <1>3 DEF MountOk, N!AddVirtualFile
  <1>4. CASE N!RemoveVirtualFile
    <2>1. PICK p \in N!Paths \ {<<>>, <<Point>>} :
            LET at == N!Injected(p)
                local == IF at = "O" THEN p ELSE N!Local(N!AtPoint, p)
            IN  s' = [s EXCEPT ![at] = N!Gone(@, local)]
      BY <1>4 DEF N!RemoveVirtualFile
    <2> DEFINE at == N!Injected(p)
               local == IF at = "O" THEN p ELSE N!Local(N!AtPoint, p)
               t == s[at]
               n == N!Gone(t, local)
    <2>2. /\ at \in {"O", "M"} /\ local \in N!Paths /\ local # <<>> /\ Treelike(t)
          /\ at = "M" => Len(local) <= 1 /\ Shallow(t)
      BY InjectedIs
    <2>3. s' = [s EXCEPT ![at] = n]
      BY <2>1
    <2> HIDE DEF at, local, t
    <2>4. Treelike(n) /\ (Shallow(t) => Shallow(n))
      BY <2>2, GoneIs
    <2> HIDE DEF n
    <2>5. Trees(s')
      BY <1>1, <2>2, <2>3, <2>4, PutIn
    <2> QED BY <1>1, <2>5, <1>4 DEF MountOk, N!RemoveVirtualFile
  <1>5. CASE N!MountMemory
    <2>1. Trees(s')
      BY <1>1, <1>5, PutIn, SomeTrees DEF N!MountMemory
    <2> QED BY <1>1, <2>1, <1>5 DEF N!MountMemory, MountOk
  <1>6. CASE N!UnmountMemory
    <2> QED BY <1>1, <1>6 DEF N!UnmountMemory, MountOk
  <1> QED BY <1>2, <1>3, <1>4, <1>5, <1>6 DEF N!Host

LEMMA NamesKeep ==
  ASSUME NameInv, N!Next PROVE NameInv'
  <1>1. CASE N!Begin
    BY <1>1, BeginKeeps
  <1>2. CASE N!Step
    <2>1. Trees(s)' /\ CallOk(call)'
      BY <1>2, DoKeeps, PartsKeep DEF Trees, Treelike, Shallow, CallOk, Serving, N!Step
    <2> QED BY <1>2, <2>1 DEF NameInv, MountOk, N!Step
  <1>3. CASE N!Other \/ N!Host
    <2>1. Trees(s') /\ MountOk' /\ (call' = N!NoCall \/ CallOk(call'))
      BY <1>3, HostKeeps, MeddledKeeps
    <2>2. CallOk(call') => CallOk(call)'
      BY DEF CallOk, Serving
    <2>3. (call = N!NoCall)' <=> call' = N!NoCall
      BY DEF N!NoCall
    <2> QED BY <2>1, <2>2, <2>3 DEF NameInv, Trees, Treelike, Shallow
  <1> QED BY <1>1, <1>2, <1>3 DEF N!Next

LEMMA NamesBegin == Init => NameInv
  <1> SUFFICES ASSUME Init PROVE NameInv
    OBVIOUS
  <1>1. N!Init
    BY DEF Init
  <1>2. PICK n \in Names \ {Point} :
          s \in [O : {N!Empty, N!Holding(<<n, n>>, <<2>>)},
                 L : {N!Empty, N!Holding(<<n>>, <<1, 1>>), N!Holding(<<n, n>>, <<1, 1>>),
                      N!Holding(<<n, Point>>, <<1, 1>>), N!Holding(<<Point>>, <<1, 1>>)},
                 M : {N!Empty, N!Holding(<<n>>, <<3, 3>>)}]
    BY <1>1 DEF N!Init
  <1>3. Trees(s)
    <2>1. /\ s.O \in {N!Empty, N!Holding(<<n, n>>, <<2>>)}
          /\ s.L \in {N!Empty, N!Holding(<<n>>, <<1, 1>>), N!Holding(<<n, n>>, <<1, 1>>),
                      N!Holding(<<n, Point>>, <<1, 1>>), N!Holding(<<Point>>, <<1, 1>>)}
          /\ s.M \in {N!Empty, N!Holding(<<n>>, <<3, 3>>)}
      BY <1>2
    <2>2. /\ Treelike(N!Holding(<<n, n>>, <<2>>)) /\ Treelike(N!Holding(<<n>>, <<1, 1>>))
          /\ Treelike(N!Holding(<<n, n>>, <<1, 1>>)) /\ Treelike(N!Holding(<<n, Point>>, <<1, 1>>))
          /\ Treelike(N!Holding(<<Point>>, <<1, 1>>))
          /\ Treelike(N!Holding(<<n>>, <<3, 3>>)) /\ Shallow(N!Holding(<<n>>, <<3, 3>>))
      BY FileSystemAssumption, SomeTrees DEF N!Paths
    <2> QED BY <1>2, <2>1, <2>2, SomeTrees DEF Trees
  <1> QED BY <1>3, <1>1 DEF NameInv, N!Init, MountOk
-----------------------------------------------------------------------------
(* Mounts *)

LEMMA LeastNumber ==
  ASSUME NEW S \in SUBSET Nat, S # {}
  PROVE  \E x \in S : \A y \in S : x <= y
  <1> DEFINE T == {0 .. (k - 1) : k \in S}
             R == StrictSubsetOrdering(Nat)
  <1>1. T \subseteq FiniteSubsetsOf(Nat) /\ T # {}
    <2>1. \A k \in S : 0 .. (k - 1) \in FiniteSubsetsOf(Nat)
      <3> TAKE k \in S
      <3> QED BY FS_Interval DEF FiniteSubsetsOf
    <2> QED BY <2>1
  <1>2. IsWellFoundedOn(R, FiniteSubsetsOf(Nat))
    BY FS_StrictSubsetOrderingWellFounded
  <1> HIDE DEF R
  <1>3. PICK A \in T : \A B \in T : ~ (<<B, A>> \in R)
    BY <1>1, <1>2, WFMin
  <1>4. PICK k \in S : A = 0 .. (k - 1)
    BY <1>3
  <1>5. ASSUME NEW y \in S, y < k PROVE FALSE
    <2>1. y \in 0 .. (k - 1) /\ y \notin 0 .. (y - 1)
      BY <1>5
    <2>2. <<0 .. (y - 1), A>> \in R
      BY <1>4, <1>5, <2>1 DEF R, StrictSubsetOrdering
    <2> QED BY <1>3, <2>2
  <1> QED BY <1>5

Steps == Seq(Nat)

LEMMA PrefixItems ==
  ASSUME NEW p \in Steps, NEW q \in Steps PROVE M!IsPrefix(p, q) <=> Begins(p, q)
  <1>1. Len(p) \in Nat /\ Len(q) \in Nat
    BY LenProperties DEF Steps
  <1>2. ASSUME Len(p) <= Len(q) PROVE SubSeq(q, 1, Len(p)) = [i \in 1 .. Len(p) |-> q[i]]
    BY <1>1, <1>2 DEF Steps
  <1> QED BY <1>1, <1>2 DEF M!IsPrefix, Begins, Steps

LEMMA PrefixOrders ==
  ASSUME NEW p \in Steps, NEW q \in Steps, NEW o \in Steps
  PROVE  /\ M!IsPrefix(p, p) /\ M!IsPrefix(<<>>, p)
         /\ M!IsPrefix(p, q) /\ M!IsPrefix(q, o) => M!IsPrefix(p, o)
         /\ M!IsPrefix(p, o) /\ M!IsPrefix(q, o) /\ Len(p) <= Len(q) => M!IsPrefix(p, q)
         /\ M!IsPrefix(p, q) => Len(p) <= Len(q)
         /\ M!IsPrefix(p, q) /\ Len(p) = Len(q) => p = q
  <1>1. Len(p) \in Nat /\ Len(q) \in Nat /\ Len(o) \in Nat
    BY LenProperties DEF Steps
  <1>2. <<>> \in Steps /\ Len(<<>>) = 0
    BY EmptySeq DEF Steps
  <1>3. M!IsPrefix(p, p) /\ M!IsPrefix(<<>>, p)
    BY <1>1, <1>2, PrefixItems DEF Begins
  <1>4. M!IsPrefix(p, q) => Len(p) <= Len(q) /\ \A i \in 1 .. Len(p) : p[i] = q[i]
    BY PrefixItems DEF Begins
  <1>5. M!IsPrefix(q, o) => Len(q) <= Len(o) /\ \A i \in 1 .. Len(q) : q[i] = o[i]
    BY PrefixItems DEF Begins
  <1>6. M!IsPrefix(p, o) <=> Len(p) <= Len(o) /\ \A i \in 1 .. Len(p) : p[i] = o[i]
    BY PrefixItems DEF Begins
  <1>7. M!IsPrefix(p, o) /\ M!IsPrefix(q, o) /\ Len(p) <= Len(q) => M!IsPrefix(p, q)
    BY <1>1, <1>5, <1>6, PrefixItems DEF Begins
  <1>8. M!IsPrefix(p, q) /\ Len(p) = Len(q) => p = q
    BY <1>1, <1>4, SeqEqual DEF Steps
  <1> QED BY <1>3, <1>4, <1>1, <1>5, <1>6, <1>7, <1>8

\* Of the prefixes of a path in a set there is a longest, and there is no other of its length.
LEMMA LongestIs ==
  ASSUME NEW p \in Steps, NEW S \in SUBSET Steps, S # {}, \A q \in S : M!IsPrefix(q, p)
  PROVE  /\ M!Longest(S) \in S /\ \A q \in S : Len(q) <= Len(M!Longest(S))
         /\ \A q \in S : (\A o \in S : Len(o) <= Len(q)) => q = M!Longest(S)
  <1> DEFINE T == {Len(p) - Len(q) : q \in S}
  <1>1. \A q \in S : Len(q) \in Nat /\ Len(q) <= Len(p)
    BY LenProperties, PrefixOrders DEF Steps
  <1>2. Len(p) \in Nat
    BY LenProperties DEF Steps
  <1>3. T \in SUBSET Nat /\ T # {}
    BY <1>1, <1>2
  <1>4. PICK x \in T : \A y \in T : x <= y
    BY <1>3, LeastNumber
  <1>5. PICK o \in S : x = Len(p) - Len(o)
    BY <1>4
  <1>6. \A q \in S : Len(q) <= Len(o)
    <2> TAKE q \in S
    <2>1. x <= Len(p) - Len(q)
      BY <1>4
    <2> QED BY <1>1, <1>2, <1>5, <2>1
  <1>7. M!Longest(S) \in S /\ \A q \in S : Len(q) <= Len(M!Longest(S))
    BY <1>5, <1>6 DEF M!Longest
  <1> HIDE DEF T
  <1>8. ASSUME NEW q \in S, \A a \in S : Len(a) <= Len(q) PROVE q = M!Longest(S)
    <2> DEFINE a == M!Longest(S)
    <2>1. a \in S /\ Len(a) <= Len(q) /\ Len(q) <= Len(a)
      BY <1>7, <1>8
    <2> HIDE DEF a
    <2>2. Len(a) = Len(q) /\ a \in Steps /\ q \in Steps
      BY <1>1, <2>1
    <2>3. M!IsPrefix(q, a)
      BY <2>2, <2>1, PrefixOrders
    <2> QED BY <2>2, <2>3, PrefixOrders DEF a
  <1> QED BY <1>7, <1>8

Stamped == [id : Nat, stamp : Nat]

Layer == [mounts : [Points -> Stamped \cup {Nil}], file : Nat \cup {Nil}, paths : BOOLEAN,
          trees : SUBSET M!Roots]

Table == {b \in [M!Roots -> Stamped \cup {Nil}] : b[<<>>] # Nil}

Rows == [root : M!Roots, id : Nat]

LEMMA PlacesAre ==
  /\ M!Roots \subseteq Steps /\ Points \subseteq M!Roots /\ <<>> \in M!Roots /\ <<>> \in Steps
  /\ <<>> \notin Points
  /\ Leaf \in Steps /\ Leaf # <<>>
  /\ M!Dirs \subseteq Steps /\ Leaf \notin M!Dirs /\ <<>> \notin M!Dirs
  /\ M!Queries \subseteq Steps
  <1>1. <<>> \in Steps /\ Len(<<>>) = 0
    BY EmptySeq DEF Steps
  <1>2. Points \subseteq Steps /\ <<>> \notin Points /\ Leaf \in Steps /\ Len(Leaf) > 1
    BY FileSystemAssumption DEF Steps
  <1>3. Len(Leaf) \in Nat
    BY <1>2, LenProperties DEF Steps
  <1> DEFINE d == SubSeq(Leaf, 1, Len(Leaf) - 1)
  <1>4. d \in Steps /\ Len(d) = Len(Leaf) - 1
    <2> DEFINE n == Len(Leaf) - 1
    <2>1. n \in Int /\ 1 <= n /\ n <= Len(Leaf) /\ n - 1 + 1 = n
      BY <1>2, <1>3
    <2> HIDE DEF n
    <2>2. SubSeq(Leaf, 1, n) \in Seq(Nat) /\ Len(SubSeq(Leaf, 1, n)) = IF 1 <= n THEN n - 1 + 1 ELSE 0
      BY <2>1, <1>2, <1>3, ElementOfSeq, SubSeqProperties DEF Steps
    <2> QED BY <2>1, <2>2 DEF n, Steps
  <1>5. M!Dirs = {d}
    BY DEF M!Dirs, M!Front
  <1> HIDE DEF d
  <1>6. d # <<>>
    BY <1>1, <1>2, <1>3, <1>4
  <1>7. d # Leaf
    BY <1>3, <1>4
  <1> QED BY <1>1, <1>2, <1>4, <1>5, <1>6, <1>7 DEF M!Roots, M!Queries

\* What serves a path is the mount of its longest prefix that is mounted, of the layer if it has any.
LEMMA ServedBy ==
  ASSUME NEW l \in Layer, NEW b \in Table, NEW p \in Steps
  PROVE  /\ M!Own(l, p) \subseteq Points /\ \A q \in Points : q \in M!Own(l, p) <=> l.mounts[q] # Nil /\ M!IsPrefix(q, p)
         /\ M!Above(b, p) \subseteq M!Roots /\ <<>> \in M!Above(b, p)
         /\ \A q \in M!Roots : q \in M!Above(b, p) <=> b[q] # Nil /\ M!IsPrefix(q, p)
         /\ M!Own(l, p) # {} => M!Longest(M!Own(l, p)) \in M!Own(l, p)
         /\ M!Longest(M!Above(b, p)) \in M!Above(b, p)
         /\ M!Resolve(l, b, p) \in Stamped
  <1>1. l.mounts \in [Points -> Stamped \cup {Nil}] /\ b \in [M!Roots -> Stamped \cup {Nil}] /\ b[<<>>] # Nil
    BY DEF Layer, Table
  <1>2. M!Own(l, p) \subseteq Points /\ \A q \in Points : q \in M!Own(l, p) <=> l.mounts[q] # Nil /\ M!IsPrefix(q, p)
    BY <1>1 DEF M!Own, M!Above, M!Mounted
  <1>3. M!Above(b, p) \subseteq M!Roots /\ \A q \in M!Roots : q \in M!Above(b, p) <=> b[q] # Nil /\ M!IsPrefix(q, p)
    BY <1>1 DEF M!Above, M!Mounted
  <1>4. <<>> \in M!Above(b, p)
    BY <1>1, <1>3, PlacesAre, PrefixOrders
  <1> DEFINE A == M!Own(l, p)
             B == M!Above(b, p)
  <1>5. A \in SUBSET Steps /\ B \in SUBSET Steps /\ \A q \in A \cup B : M!IsPrefix(q, p)
    BY <1>2, <1>3, PlacesAre
  <1> HIDE DEF A, B
  <1>6. A # {} => M!Longest(A) \in A
    BY <1>5, LongestIs
  <1>7. M!Longest(B) \in B
    BY <1>4, <1>5, LongestIs DEF B
  <1>8. M!Resolve(l, b, p) \in Stamped
    <2>1. CASE A # {}
      <3> DEFINE a == M!Longest(A)
      <3>1. M!Resolve(l, b, p) = l.mounts[a]
        BY <2>1 DEF M!Resolve, A
      <3> QED BY <1>1, <1>2, <1>6, <2>1, <3>1 DEF A
    <2>2. CASE A = {}
      <3> DEFINE a == M!Longest(B)
      <3>1. M!Resolve(l, b, p) = b[a]
        BY <2>2 DEF M!Resolve, A, B
      <3> QED BY <1>1, <1>3, <1>7, <3>1 DEF B
    <2> QED BY <2>1, <2>2
  <1> QED BY <1>2, <1>3, <1>4, <1>6, <1>7, <1>8 DEF A, B

LEMMA ListIs ==
  ASSUME NEW l \in Layer, NEW b \in Table
  PROVE  /\ M!List(l, b) \in SUBSET Rows
         /\ \A e : e \in M!List(l, b) <=>
              \/ \E q \in Points : l.mounts[q] # Nil /\ e = [root |-> q, id |-> l.mounts[q].id]
              \/ \E q \in M!Roots : b[q] # Nil /\ M!Own(l, q) = {} /\ e = [root |-> q, id |-> b[q].id]
  <1>1. l.mounts \in [Points -> Stamped \cup {Nil}] /\ b \in [M!Roots -> Stamped \cup {Nil}]
    BY DEF Layer, Table
  <1>2. \A e : e \in M!List(l, b) <=>
              \/ \E q \in Points : l.mounts[q] # Nil /\ e = [root |-> q, id |-> l.mounts[q].id]
              \/ \E q \in M!Roots : b[q] # Nil /\ M!Own(l, q) = {} /\ e = [root |-> q, id |-> b[q].id]
    BY <1>1 DEF M!List, M!Entry, M!Mounted
  <1>3. \A q \in M!Roots : b[q] # Nil => b[q].id \in Nat
    BY <1>1 DEF Stamped
  <1>4. \A e \in M!List(l, b) : e \in Rows
    BY <1>2, <1>1, PlacesAre, <1>3 DEF Rows, Stamped
  <1> QED BY <1>2, <1>4

\* The snapshot of a layer takes a path to the mount that serves it.
LEMMA ToldIsServed ==
  ASSUME NEW l \in Layer, NEW b \in Table, NEW p \in Steps
  PROVE  M!MountFor(M!List(l, b), p) = M!Resolve(l, b, p).id
  <1> DEFINE over == {e \in M!List(l, b) : M!IsPrefix(e.root, p)}
             S == {e.root : e \in over}
             A == M!Own(l, p)
             B == M!Above(b, p)
             found == CHOOSE e \in over : e.root = M!Longest(S)
  <1>0. M!MountFor(M!List(l, b), p) = found.id
    BY DEF M!MountFor
  <1>1. /\ A \subseteq Points /\ \A q \in Points : q \in A <=> l.mounts[q] # Nil /\ M!IsPrefix(q, p)
        /\ B \subseteq M!Roots /\ <<>> \in B
        /\ \A q \in M!Roots : q \in B <=> b[q] # Nil /\ M!IsPrefix(q, p)
    BY ServedBy
  <1>2. M!Resolve(l, b, p) = IF A # {} THEN l.mounts[M!Longest(A)] ELSE b[M!Longest(B)]
    BY DEF M!Resolve
  <1>3. \A e : e \in over <=>
              \/ \E q \in A : e = [root |-> q, id |-> l.mounts[q].id]
              \/ \E q \in B : M!Own(l, q) = {} /\ e = [root |-> q, id |-> b[q].id]
    <2>1. \A e : e \in over <=> e \in M!List(l, b) /\ M!IsPrefix(e.root, p)
      OBVIOUS
    <2> HIDE DEF over, A, B
    <2>2. \A e : e \in M!List(l, b) <=>
              \/ \E q \in Points : l.mounts[q] # Nil /\ e = [root |-> q, id |-> l.mounts[q].id]
              \/ \E q \in M!Roots : b[q] # Nil /\ M!Own(l, q) = {} /\ e = [root |-> q, id |-> b[q].id]
      BY ListIs
    <2> TAKE e
    <2>3. ASSUME e \in over
          PROVE  \/ \E q \in A : e = [root |-> q, id |-> l.mounts[q].id]
                 \/ \E q \in B : M!Own(l, q) = {} /\ e = [root |-> q, id |-> b[q].id]
      <3>1. e \in M!List(l, b) /\ M!IsPrefix(e.root, p)
        BY <2>1, <2>3
      <3>2. CASE \E q \in Points : l.mounts[q] # Nil /\ e = [root |-> q, id |-> l.mounts[q].id]
        BY <1>1, <3>1, <3>2
      <3>3. CASE \E q \in M!Roots : b[q] # Nil /\ M!Own(l, q) = {} /\ e = [root |-> q, id |-> b[q].id]
        BY <1>1, <3>1, <3>3
      <3> QED BY <2>2, <3>1, <3>2, <3>3
    <2>4. ASSUME NEW q \in A, e = [root |-> q, id |-> l.mounts[q].id] PROVE e \in over
      <3> QED BY <2>1, <2>2, <2>4, <1>1
    <2>5. ASSUME NEW q \in B, M!Own(l, q) = {}, e = [root |-> q, id |-> b[q].id] PROVE e \in over
      <3> QED BY <2>1, <2>2, <2>5, <1>1
    <2> QED BY <2>3, <2>4, <2>5
  <1> HIDE DEF over, found
  <1>4. \A q : q \in S <=> (q \in A \/ (q \in B /\ M!Own(l, q) = {}))
    <2> HIDE DEF A, B
    <2>1. ASSUME NEW e \in over PROVE e.root \in A \/ (e.root \in B /\ M!Own(l, e.root) = {})
      <3>1. ASSUME NEW q \in A, e = [root |-> q, id |-> l.mounts[q].id] PROVE e.root \in A
        BY <3>1
      <3>2. ASSUME NEW q \in B, M!Own(l, q) = {}, e = [root |-> q, id |-> b[q].id]
            PROVE  e.root \in B /\ M!Own(l, e.root) = {}
        BY <3>2
      <3> QED BY <1>3, <2>1, <3>1, <3>2
    <2>2. ASSUME NEW q \in A PROVE q \in S
      <3>1. [root |-> q, id |-> l.mounts[q].id] \in over
        BY <1>3, <2>2
      <3> QED BY <3>1
    <2>3. ASSUME NEW q \in B, M!Own(l, q) = {} PROVE q \in S
      <3>1. [root |-> q, id |-> b[q].id] \in over
        BY <1>3, <2>3
      <3> QED BY <3>1
    <2> QED BY <2>1, <2>2, <2>3
  <1> HIDE DEF A, B, S
  <1>5. A \in SUBSET Steps /\ B \in SUBSET Steps /\ \A q \in A \cup B : M!IsPrefix(q, p)
    BY <1>1, PlacesAre
  <1>6. S \in SUBSET Steps /\ \A q \in S : M!IsPrefix(q, p)
    BY <1>4, <1>5
  \* A mount below one of the layer's own is hidden by it.
  <1>7. ASSUME NEW q \in B, M!Own(l, q) = {}, NEW a \in A PROVE Len(q) <= Len(a) /\ q # a
    <2>1. /\ q \in Steps /\ a \in Steps /\ a \in Points /\ l.mounts[a] # Nil
          /\ M!IsPrefix(q, p) /\ M!IsPrefix(a, p)
      BY <1>1, <1>5
    <2>2. ~ (Len(a) <= Len(q))
      BY <2>1, <1>7, ServedBy, PrefixOrders
    <2> QED BY <2>2, <2>1, LenProperties DEF Steps
  <1>8. CASE A # {}
    <2> DEFINE a == M!Longest(A)
    <2>1. a \in A /\ \A q \in A : Len(q) <= Len(a)
      BY <1>5, <1>8, LongestIs
    <2> HIDE DEF a
    <2>2. a \in S /\ \A q \in S : Len(q) <= Len(a)
      <3> QED BY <1>4, <2>1, <1>7
    <2>3. a = M!Longest(S)
      <3> QED BY <1>6, <2>2, LongestIs
    <2>4. a = M!Longest(S)
      BY <2>3
    <2>5. \A e : e \in over /\ e.root = M!Longest(S) => e = [root |-> a, id |-> l.mounts[a].id]
      BY <1>3, <1>7, <2>1, <2>4
    <2>6. found = [root |-> a, id |-> l.mounts[a].id]
      <3>1. [root |-> a, id |-> l.mounts[a].id].root = M!Longest(S)
        BY <2>4
      <3> QED BY <1>3, <2>1, <2>5, <3>1 DEF found
    <2> QED BY <1>0, <2>6, <2>4, <1>2, <1>8 DEF a
  <1>9. CASE A = {}
    <2>1. ASSUME NEW q \in B PROVE M!Own(l, q) = {}
      <3>1. q \in Steps /\ M!IsPrefix(q, p)
        BY <1>5, <2>1
      <3>2. ASSUME NEW o \in M!Own(l, q) PROVE FALSE
        <4>1. o \in Points /\ l.mounts[o] # Nil /\ M!IsPrefix(o, q) /\ o \in Steps
          BY <3>1, <3>2, ServedBy, PlacesAre
        <4> QED BY <1>1, <1>9, <4>1, <3>1, PrefixOrders
      <3> QED BY <3>2
    <2> DEFINE a == M!Longest(B)
    <2>2. a \in B
      BY <1>1, <1>5, LongestIs
    <2> HIDE DEF a
    <2>3. [root |-> a, id |-> b[a].id] \in over
      BY <1>3, <2>1, <2>2
    <2>4. a = M!Longest(S)
      BY <1>4, <1>9, <2>1 DEF a
    <2>5. \A e : e \in over /\ e.root = M!Longest(S) => e = [root |-> a, id |-> b[a].id]
      BY <1>3, <1>9, <2>4
    <2>6. found = [root |-> a, id |-> b[a].id]
      <3> QED BY <2>3, <2>5, <2>4 DEF found
    <2> QED BY <1>0, <2>6, <2>4, <1>2, <1>9 DEF a
  <1> QED BY <1>8, <1>9

Saying == [paths : BOOLEAN, trees : SUBSET M!Roots]

Message == [kind : {"mounts"}, list : SUBSET Rows] \cup [kind : {"reply"}, said : Saying]

Calls == [about : M!Dirs \cup {Leaf, <<>>, Nil}, at : {"none", "asked", "done", "replied"},
          value : Nat, late : BOOLEAN, said : Saying, tries : Nat]

Calling == {c \in Calls : c.at # "none" => c.about \in M!Dirs \cup {Leaf, <<>>}}

Worker == [up : BOOLEAN, snapshot : SUBSET Rows, heirOf : M!Workers \cup {Nil}, lost : BOOLEAN,
           memo : {Nil} \cup [stamp : Nat, late : BOOLEAN],
           seeded : [M!Dirs -> {Nil} \cup [id : Nat, late : BOOLEAN]], call : Calling]

\* What is said of a worker's paths in its port, and what is still to be said.
Heard(bx) == {bx[i].said : i \in {j \in DOMAIN bx : bx[j].kind = "reply"}}

Waiting(l, bx) == {M!Said(l)} \cup Heard(bx)

Way(k, l, bx) == Waiting(l, bx) \cup (IF k.call.at = "replied" THEN {k.call.said} ELSE {})

\* The last snapshot that was sent to a worker is of the mounts as they are.
Informed(k, l, bx, b) ==
  /\ ~ k.up => \A i \in DOMAIN bx : bx[i].kind # "mounts"
  /\ k.up /\ (\A i \in DOMAIN bx : bx[i].kind # "mounts") => k.snapshot = M!List(l, b)
  /\ \A i \in DOMAIN bx :
       bx[i].kind = "mounts" /\ (\A j \in DOMAIN bx : j > i => bx[j].kind # "mounts") => bx[i].list = M!List(l, b)

AnyPath(S) == \E said \in S : said # M!Nothing

Tree(S, d) == \E said \in S : \E t \in said.trees : M!IsPrefix(t, d)

\* What was concluded and is no longer so is doubted by something on its way, and the reply that
\* is to be concluded from by something behind it.
Doubted(k, l, bx, b) ==
  \/ k.lost
  \/ /\ k.memo # Nil /\ k.memo.stamp # M!Seen(l, b) /\ ~ k.memo.late => AnyPath(Way(k, l, bx))
     /\ \A d \in M!Dirs :
          k.seeded[d] # Nil /\ k.seeded[d].id # M!Resolve(l, b, d).id /\ ~ k.seeded[d].late => Tree(Way(k, l, bx), d)
     /\ k.call.at = "replied" /\ k.call.about = Leaf /\ k.call.value # M!Seen(l, b) /\ ~ k.call.late
          => AnyPath(Waiting(l, bx))
     /\ \A d \in M!Dirs :
          k.call.at = "replied" /\ k.call.about = d /\ k.call.value # M!Resolve(l, b, d).id /\ ~ k.call.late
            => Tree(Waiting(l, bx), d)

MountsInv ==
  /\ base \in Table /\ layers \in [M!Workers -> Layer] /\ workers \in [M!Workers -> Worker]
  /\ box \in [M!Workers -> Seq(Message)] /\ made \in Nat /\ asked \in Nat
  /\ \A v \in M!Workers : /\ Informed(workers[v], layers[v], box[v], base)
                          /\ Doubted(workers[v], layers[v], box[v], base)

\* What a change on the page owes to the workers.
Owed(l, k, b, a) ==
  /\ k \in Layer /\ l.trees \subseteq k.trees /\ (l.paths => k.paths)
  /\ M!Seen(k, a) # M!Seen(l, b) => M!Said(k) # M!Nothing
  /\ \A d \in M!Dirs : M!Resolve(k, a, d).id # M!Resolve(l, b, d).id => \E t \in k.trees : M!IsPrefix(t, d)

LEMMA SaidIs ==
  ASSUME NEW l \in Layer
  PROVE  /\ M!Said(l) \in Saying /\ M!Said(l) = [paths |-> l.paths, trees |-> l.trees]
         /\ M!Said(l) # M!Nothing <=> l.paths \/ l.trees # {}
         /\ M!Said(l).trees = l.trees
         /\ M!Nothing \in Saying /\ M!Nothing.trees = {}
  <1>1. l.paths \in BOOLEAN /\ l.trees \in SUBSET M!Roots
    BY DEF Layer
  <1>2. M!Said(l) = [paths |-> l.paths, trees |-> l.trees]
    BY DEF M!Said
  <1>3. M!Nothing = [paths |-> FALSE, trees |-> {}]
    BY DEF M!Nothing
  <1>4. ~ l.paths /\ l.trees = {} => M!Said(l) = M!Nothing
    BY <1>1, <1>2, <1>3
  <1> QED BY <1>1, <1>2, <1>3, <1>4 DEF Saying

LEMMA Stays ==
  ASSUME NEW k \in Worker, NEW l \in Layer, NEW bx, NEW b, Doubted(k, l, bx, b),
         NEW n, NEW a, Owed(l, n, b, a), NEW ax, Heard(ax) = Heard(bx)
  PROVE  Doubted(k, n, ax, a)
  <1>1. n \in Layer /\ l.trees \subseteq n.trees /\ (l.paths => n.paths)
    BY DEF Owed
  <1>2. AnyPath(Waiting(l, bx)) => AnyPath(Waiting(n, ax))
    <2> QED BY <1>1, SaidIs DEF AnyPath, Waiting
  <1>3. ASSUME NEW d, Tree(Waiting(l, bx), d) PROVE Tree(Waiting(n, ax), d)
    <2> QED BY <1>3, <1>1, SaidIs DEF Tree, Waiting
  <1>4. ASSUME NEW d, Tree(Way(k, l, bx), d) PROVE Tree(Way(k, n, ax), d)
    BY <1>3, <1>4 DEF Tree, Way
  <1>5. M!Seen(n, a) # M!Seen(l, b) => AnyPath(Waiting(n, ax)) /\ AnyPath(Way(k, n, ax))
    BY DEF Owed, AnyPath, Waiting, Way
  <1>6. ASSUME NEW d \in M!Dirs, M!Resolve(n, a, d).id # M!Resolve(l, b, d).id
        PROVE  Tree(Waiting(n, ax), d) /\ Tree(Way(k, n, ax), d)
    <2> QED BY <1>1, <1>6, SaidIs DEF Tree, Waiting, Way, Owed
  <1> QED BY <1>2, <1>3, <1>4, <1>5, <1>6 DEF Doubted, AnyPath, Way

Posts(lists) == [i \in DOMAIN lists |-> [kind |-> "mounts", list |-> lists[i]]]

\* Snapshots that are pushed to a worker that is up.
Pushing(k, l, bx, b, n, a, lists, ax) ==
  /\ k \in Worker /\ bx \in Seq(Message) /\ Informed(k, l, bx, b) /\ lists \in Seq(SUBSET Rows)
  /\ lists = <<>> => M!List(n, a) = M!List(l, b)
  /\ lists # <<>> => lists[Len(lists)] = M!List(n, a)
  /\ ax = IF k.up THEN bx \o Posts(lists) ELSE bx

LEMMA Pushes ==
  ASSUME NEW k, NEW l, NEW bx, NEW b, NEW n, NEW a, NEW lists, NEW ax,
         Pushing(k, l, bx, b, n, a, lists, ax)
  PROVE  ax \in Seq(Message) /\ Heard(ax) = Heard(bx) /\ Informed(k, n, ax, a)
  <1>0. /\ k \in Worker /\ bx \in Seq(Message) /\ Informed(k, l, bx, b) /\ lists \in Seq(SUBSET Rows)
        /\ lists = <<>> => M!List(n, a) = M!List(l, b)
        /\ lists # <<>> => lists[Len(lists)] = M!List(n, a)
        /\ ax = IF k.up THEN bx \o Posts(lists) ELSE bx
    BY DEF Pushing
  <1>1. CASE ~ k.up
    BY <1>0, <1>1 DEF Informed
  <1>2. CASE k.up
    <2> DEFINE posts == Posts(lists)
               z == Len(bx)
               y == Len(lists)
    <2>1. z \in Nat /\ y \in Nat /\ DOMAIN lists = 1 .. y /\ DOMAIN bx = 1 .. z
      BY <1>0, LenProperties
    <2>2. posts \in Seq(Message) /\ Len(posts) = y /\ \A i \in 1 .. y : posts[i] = [kind |-> "mounts", list |-> lists[i]]
      <3>1. posts \in [1 .. y -> Message]
        BY <2>1, <1>0, ElementOfSeq DEF Message, Posts
      <3>2. posts \in Seq(Message)
        BY <2>1, <3>1, SeqDef
      <3>3. DOMAIN posts = 1 .. y
        BY <2>1 DEF Posts
      <3> QED BY <2>1, <3>2, LenProperties, <3>3 DEF Posts
    <2>3. ax = bx \o posts
      BY <1>0, <1>2
    <2> HIDE DEF posts, z, y
    <2>4. /\ ax \in Seq(Message) /\ Len(ax) = z + y
          /\ \A i \in 1 .. (z + y) : ax[i] = IF i <= z THEN bx[i] ELSE posts[i - z]
      <3>1. /\ bx \o posts \in Seq(Message) /\ Len(bx \o posts) = Len(bx) + Len(posts)
            /\ \A i \in 1 .. (Len(bx) + Len(posts)) :
                 (bx \o posts)[i] = IF i <= Len(bx) THEN bx[i] ELSE posts[i - Len(bx)]
        BY <1>0, <2>2, ConcatProperties
      <3>2. Len(bx) = z /\ Len(posts) = y
        BY <2>2 DEF z
      <3> QED BY ONLY <2>3, <3>1, <3>2
    <2>5. DOMAIN ax = 1 .. (z + y)
      BY <2>4, LenProperties
    <2>6. \A i \in 1 .. z : i \in 1 .. (z + y) /\ ax[i] = bx[i]
      BY <2>1, <2>4
    <2>7. \A i \in 1 .. (z + y) : i \notin 1 .. z => ax[i].kind = "mounts" /\ ax[i].list = lists[i - z]
      <3>1. ASSUME NEW i \in 1 .. (z + y), i \notin 1 .. z
            PROVE  ax[i].kind = "mounts" /\ ax[i].list = lists[i - z]
        <4>1. i - z \in 1 .. y /\ ~ (i <= z)
          BY <2>1, <3>1
        <4>2. posts[i - z] = [kind |-> "mounts", list |-> lists[i - z]]
          BY <2>2, <4>1
        <4> DEFINE x == lists[i - z]
        <4>3. ax[i] = [kind |-> "mounts", list |-> x]
          BY <2>4, <4>1, <4>2
        <4> HIDE DEF x
        <4>4. ax[i].kind = "mounts" /\ ax[i].list = x
          BY ONLY <4>3
        <4> QED BY <4>4 DEF x
      <3> QED BY <3>1
    <2>8. Heard(ax) = Heard(bx)
      <3>1. ASSUME NEW i \in DOMAIN ax, ax[i].kind = "reply" PROVE i \in DOMAIN bx /\ ax[i] = bx[i]
        <4> QED BY <2>1, <2>6, <2>5, <2>7, <3>1
      <3>2. Heard(bx) \subseteq Heard(ax)
        BY <2>1, <2>5, <2>6 DEF Heard
      <3> QED BY <3>1, <3>2 DEF Heard
    <2>9. CASE y = 0
      <3>1. M!List(n, a) = M!List(l, b)
        BY <1>0, <2>9, EmptySeq DEF y
      <3>2. Len(ax) = Len(bx) /\ \A i \in 1 .. Len(bx) : ax[i] = bx[i]
        <4> QED BY <2>6, <2>1, <2>4, <2>9 DEF z
      <3>3. Informed(k, n, bx, a)
        BY <1>0, <3>1 DEF Informed
      <3> QED BY <2>4, <2>8, <1>0, <3>2, SeqEqual, <3>3
    <2>10. CASE y # 0
      <3>1. lists # <<>> /\ z + y \in 1 .. (z + y) /\ z + y \notin 1 .. z /\ (z + y) - z = y
        BY <1>0, <2>1, <2>10, EmptySeq DEF y
      <3>2. ax[z + y].kind = "mounts" /\ ax[z + y].list = M!List(n, a)
        BY <1>0, <2>7, <3>1 DEF y
      <3>3. \A i \in 1 .. (z + y) : i # z + y => z + y > i
        BY <2>1
      <3> QED BY <1>2, <2>4, <2>5, <2>8, <3>1, <3>2, <3>3 DEF Informed
    <2> QED BY <2>9, <2>10
  <1> QED BY <1>1, <1>2

LEMMA LayerParts ==
  ASSUME NEW l \in Layer
  PROVE  /\ l.mounts \in [Points -> Stamped \cup {Nil}] /\ l.file \in Nat \cup {Nil}
         /\ l.paths \in BOOLEAN /\ l.trees \in SUBSET M!Roots
         /\ l = [mounts |-> l.mounts, file |-> l.file, paths |-> l.paths, trees |-> l.trees]
BY DEF Layer

LEMMA SameAbove ==
  ASSUME NEW l \in Layer, NEW n \in Layer, NEW b \in Table, NEW p \in Steps,
         \A q \in Points : M!IsPrefix(q, p) => n.mounts[q] = l.mounts[q]
  PROVE  M!Own(n, p) = M!Own(l, p) /\ M!Resolve(n, b, p) = M!Resolve(l, b, p)
  <1> DEFINE A == M!Own(l, p)
             B == M!Own(n, p)
  <1>1. /\ A \subseteq Points /\ B \subseteq Points
        /\ \A q \in Points : q \in A <=> l.mounts[q] # Nil /\ M!IsPrefix(q, p)
        /\ \A q \in Points : q \in B <=> n.mounts[q] # Nil /\ M!IsPrefix(q, p)
        /\ A # {} => M!Longest(A) \in A
    BY ServedBy
  <1> HIDE DEF A, B
  <1>2. A = B
    BY <1>1
  <1>3. A # {} => n.mounts[M!Longest(A)] = l.mounts[M!Longest(A)]
    BY <1>1
  <1>4. /\ M!Resolve(l, b, p) = IF A # {} THEN l.mounts[M!Longest(A)] ELSE b[M!Longest(M!Above(b, p))]
        /\ M!Resolve(n, b, p) = IF B # {} THEN n.mounts[M!Longest(B)] ELSE b[M!Longest(M!Above(b, p))]
    BY DEF M!Resolve, A, B
  <1> QED BY <1>2, <1>3, <1>4 DEF A, B

\* A file that is written changes the stamp of a mount and neither where it is nor which it is.
Restamps(t, o, R) == \A q \in R : (o[q] # Nil <=> t[q] # Nil) /\ (t[q] # Nil => o[q].id = t[q].id)

LEMMA Restamped ==
  ASSUME NEW l \in Layer, NEW n \in Layer, NEW b \in Table, NEW a \in Table,
         Restamps(l.mounts, n.mounts, Points), Restamps(b, a, M!Roots)
  PROVE  /\ M!List(n, a) = M!List(l, b)
         /\ \A p \in Steps : /\ M!Own(n, p) = M!Own(l, p) /\ M!Above(a, p) = M!Above(b, p)
                             /\ M!Resolve(n, a, p).id = M!Resolve(l, b, p).id
  <1>1. ASSUME NEW p \in Steps
        PROVE  /\ M!Own(n, p) = M!Own(l, p) /\ M!Above(a, p) = M!Above(b, p)
               /\ M!Resolve(n, a, p).id = M!Resolve(l, b, p).id
    <2> DEFINE A == M!Own(l, p)
               B == M!Own(n, p)
               C == M!Above(b, p)
               E == M!Above(a, p)
    <2>1. /\ A \subseteq Points /\ \A q \in Points : q \in A <=> l.mounts[q] # Nil /\ M!IsPrefix(q, p)
          /\ C \subseteq M!Roots /\ \A q \in M!Roots : q \in C <=> b[q] # Nil /\ M!IsPrefix(q, p)
          /\ A # {} => M!Longest(A) \in A
          /\ M!Longest(C) \in C
      BY ServedBy
    <2>2. /\ B \subseteq Points /\ \A q \in Points : q \in B <=> n.mounts[q] # Nil /\ M!IsPrefix(q, p)
          /\ E \subseteq M!Roots /\ \A q \in M!Roots : q \in E <=> a[q] # Nil /\ M!IsPrefix(q, p)
      BY ServedBy
    <2>3. /\ M!Resolve(l, b, p) = IF A # {} THEN l.mounts[M!Longest(A)] ELSE b[M!Longest(C)]
          /\ M!Resolve(n, a, p) = IF B # {} THEN n.mounts[M!Longest(B)] ELSE a[M!Longest(E)]
      BY DEF M!Resolve
    <2> HIDE DEF A, B, C, E
    <2>4. A = B /\ C = E
      BY <2>1, <2>2 DEF Restamps
    <2>5. M!Resolve(n, a, p).id = M!Resolve(l, b, p).id
      <3>1. CASE A # {}
        BY <2>3, <2>4, <2>1, <3>1 DEF Restamps
      <3>2. CASE A = {}
        BY <2>3, <2>4, <2>1, <3>2 DEF Restamps
      <3> QED BY <3>1, <3>2
    <2> QED BY <2>4, <2>5 DEF A, B, C, E
  <1>2. M!List(n, a) = M!List(l, b)
    <2>1. \A e : e \in M!List(n, a) <=>
              \/ \E q \in Points : n.mounts[q] # Nil /\ e = [root |-> q, id |-> n.mounts[q].id]
              \/ \E q \in M!Roots : a[q] # Nil /\ M!Own(n, q) = {} /\ e = [root |-> q, id |-> a[q].id]
      BY ListIs
    <2>2. \A q \in M!Roots : (a[q] # Nil <=> b[q] # Nil) /\ (b[q] # Nil => a[q].id = b[q].id)
      BY DEF Restamps
    <2>3. \A e : e \in M!List(n, a) <=> e \in M!List(l, b)
      <3> TAKE e
      <3>1. (\E q \in Points : n.mounts[q] # Nil /\ e = [root |-> q, id |-> n.mounts[q].id])
              <=> \E q \in Points : l.mounts[q] # Nil /\ e = [root |-> q, id |-> l.mounts[q].id]
        BY DEF Restamps
      <3>2. (\E q \in M!Roots : a[q] # Nil /\ M!Own(n, q) = {} /\ e = [root |-> q, id |-> a[q].id])
              <=> \E q \in M!Roots : b[q] # Nil /\ M!Own(l, q) = {} /\ e = [root |-> q, id |-> b[q].id]
        BY <1>1, PlacesAre, <2>2
      <3> QED BY ListIs, <2>1, <3>1, <3>2
    <2> QED BY <2>3, ListIs
  <1> QED BY <1>1, <1>2

LEMMA OwedTwice ==
  ASSUME NEW l \in Layer, NEW g, NEW n, NEW b, NEW c, NEW a, Owed(l, g, b, c), Owed(g, n, c, a)
  PROVE  Owed(l, n, b, a)
  <1>1. g \in Layer /\ n \in Layer /\ g.trees \subseteq n.trees /\ (g.paths => n.paths)
    BY DEF Owed
  <1> QED BY <1>1, SaidIs DEF Owed

LEMMA WithOwes ==
  ASSUME NEW l \in Layer, NEW b \in Table, NEW q \in Points, NEW m \in Stamped \cup {Nil}
  PROVE  M!With(l, q, m) \in Layer /\ Owed(l, M!With(l, q, m), b, b)
  <1> DEFINE n == M!With(l, q, m)
  <1>1. n = [l EXCEPT !.mounts = [l.mounts EXCEPT ![q] = m], !.trees = l.trees \cup {q}]
    BY DEF M!With
  <1> HIDE DEF n
  <1>2. n \in Layer
    BY <1>1, LayerParts, PlacesAre DEF Layer
  <1>3. n.trees = l.trees \cup {q} /\ n.paths = l.paths /\ n.mounts = [l.mounts EXCEPT ![q] = m]
    BY <1>1 DEF Layer
  <1>4. ASSUME NEW d \in M!Dirs, M!Resolve(n, b, d) # M!Resolve(l, b, d) PROVE M!IsPrefix(q, d)
    <2>1. PICK o \in Points : M!IsPrefix(o, d) /\ n.mounts[o] # l.mounts[o]
      BY <1>2, <1>4, SameAbove, PlacesAre
    <2> QED BY <1>3, <2>1, LayerParts
  <1> QED BY <1>2, <1>3, SaidIs, <1>4 DEF Owed, n

LEMMA TableOwes ==
  ASSUME NEW l \in Layer, NEW b \in Table, NEW a \in Table
  PROVE  LET n == [l EXCEPT !.trees = @ \cup {<<>>}]
         IN  Owed(l, n, b, a) /\ M!List(n, a) = M!List(l, a)
  <1> DEFINE n == [l EXCEPT !.trees = @ \cup {<<>>}]
  <1>1. n = [l EXCEPT !.trees = l.trees \cup {<<>>}] /\ l.trees \cup {<<>>} \in SUBSET M!Roots
    BY LayerParts, PlacesAre
  <1> HIDE DEF n
  <1>2. n \in Layer
    BY <1>1 DEF Layer
  <1>3. n.trees = l.trees \cup {<<>>} /\ n.paths = l.paths /\ n.mounts = l.mounts
    BY <1>1 DEF Layer
  <1>4. \A d \in M!Dirs : M!IsPrefix(<<>>, d)
    BY PlacesAre, PrefixOrders
  <1>5. M!List(n, a) = M!List(l, a)
    BY <1>2, <1>3, Restamped DEF Restamps
  <1> QED BY <1>2, <1>3, SaidIs, <1>4, <1>5 DEF Owed, n

LEMMA WriteOwes ==
  ASSUME NEW l \in Layer, NEW b \in Table, NEW x \in Nat
  PROVE  LET a == [b EXCEPT ![M!Longest(M!Above(b, Leaf))].stamp = x]
             n == IF M!OwnsPath(l) THEN l ELSE [l EXCEPT !.paths = TRUE]
         IN  a \in Table /\ Owed(l, n, b, a) /\ M!List(n, a) = M!List(l, b)
  <1> DEFINE o == M!Longest(M!Above(b, Leaf))
             a == [b EXCEPT ![o].stamp = x]
             n == IF M!OwnsPath(l) THEN l ELSE [l EXCEPT !.paths = TRUE]
  <1>1. o \in M!Roots /\ b[o] # Nil
    BY ServedBy, PlacesAre
  <1> HIDE DEF o
  <1>2. b \in [M!Roots -> Stamped \cup {Nil}] /\ b[<<>>] # Nil /\ b[o] \in Stamped
    BY <1>1 DEF Table
  <1>3. a = [b EXCEPT ![o] = [id |-> b[o].id, stamp |-> x]]
    <2>1. [b[o] EXCEPT !.stamp = x] = [id |-> b[o].id, stamp |-> x]
      BY <1>2 DEF Stamped
    <2> QED BY <2>1
  <1> HIDE DEF a
  <1>4. [id |-> b[o].id, stamp |-> x] \in Stamped /\ [id |-> b[o].id, stamp |-> x] # Nil
    <2>1. [id |-> b[o].id, stamp |-> x] \in [id : Nat, stamp : Nat]
      BY <1>2 DEF Stamped
    <2> QED BY <2>1, FileSystemAssumption DEF Stamped
  <1>5. a \in Table
    <2>1. a[<<>>] # Nil
      BY <1>1, <1>2, <1>3, <1>4, PlacesAre
    <2> QED BY <1>2, <1>3, <1>4, <2>1 DEF Table
  <1>6. Restamps(b, a, M!Roots)
    <2>1. [id |-> b[o].id, stamp |-> x].id = b[o].id
      OBVIOUS
    <2> QED BY <1>1, <1>4, <1>2, <1>3, <2>1 DEF Restamps
  <1>7. n \in Layer /\ n.mounts = l.mounts /\ n.trees = l.trees /\ n.file = l.file /\ (l.paths => n.paths)
    BY LayerParts DEF Layer
  <1>8. ~ M!OwnsPath(l) => n.paths
    BY LayerParts
  <1> HIDE DEF n
  <1>9. /\ M!List(n, a) = M!List(l, b)
         /\ \A p \in Steps : M!Own(n, p) = M!Own(l, p) /\ M!Resolve(n, a, p).id = M!Resolve(l, b, p).id
    BY <1>5, <1>6, <1>7, Restamped DEF Restamps
  <1>10. ASSUME M!Seen(n, a) # M!Seen(l, b) PROVE M!Said(n) # M!Nothing
    <2>1. CASE M!OwnsPath(l)
      <3>1. M!Own(n, Leaf) = M!Own(l, Leaf)
        BY <1>9, PlacesAre
      <3>2. M!Own(l, Leaf) # {} => M!Resolve(n, a, Leaf) = M!Resolve(l, b, Leaf)
        BY <1>7, <3>1 DEF M!Resolve
      <3> QED BY <1>7, <1>10, <3>1, <2>1, <3>2 DEF M!Seen, M!OwnsPath
    <2>2. CASE ~ M!OwnsPath(l)
      BY <1>7, <1>8, <2>2, SaidIs
    <2> QED BY <2>1, <2>2
  <1> QED BY <1>5, <1>7, <1>9, <1>10, PlacesAre DEF Owed, n, a, o

LEMMA FileOwes ==
  ASSUME NEW l \in Layer, NEW b \in Table, NEW z \in Nat \cup {Nil}
  PROVE  LET n == [l EXCEPT !.file = z, !.paths = TRUE]
         IN  Owed(l, n, b, b) /\ M!List(n, b) = M!List(l, b)
  <1> DEFINE n == [l EXCEPT !.file = z, !.paths = TRUE]
  <1>1. n \in Layer /\ n.mounts = l.mounts /\ n.paths = TRUE /\ n.trees = l.trees
    BY DEF Layer
  <1> HIDE DEF n
  <1>2. /\ M!List(n, b) = M!List(l, b)
        /\ \A p \in Steps : M!Resolve(n, b, p).id = M!Resolve(l, b, p).id
    BY <1>1, Restamped DEF Restamps
  <1> QED BY <1>2, <1>1, SaidIs, PlacesAre DEF n, Owed

\* A file in a layer, and one that is taken from it.
LEMMA PutOwes ==
  ASSUME NEW l \in Layer, NEW b \in Table, NEW x \in Nat
  PROVE  /\ Owed(l, M!Put(l, x), b, b) /\ M!List(M!Put(l, x), b) = M!List(l, b)
         /\ LET n == IF M!Own(l, Leaf) # {} THEN M!Put(l, x) ELSE [M!Put(l, 0) EXCEPT !.file = Nil]
            IN  Owed(l, n, b, b) /\ M!List(n, b) = M!List(l, b)
  <1>1. CASE M!Own(l, Leaf) # {}
    <2> DEFINE o == M!Longest(M!Own(l, Leaf))
               m == [id |-> l.mounts[o].id, stamp |-> x]
               n == [l EXCEPT !.mounts = [l.mounts EXCEPT ![o] = m], !.paths = TRUE]
    <2>1. o \in Points /\ l.mounts[o] # Nil
      <3> QED BY <1>1, ServedBy, PlacesAre
    <2> HIDE DEF o
    <2>2. l.mounts[o] \in Stamped
      BY <2>1, LayerParts
    <2>3. m \in Stamped /\ m # Nil /\ m.id = l.mounts[o].id /\ m = [l.mounts[o] EXCEPT !.stamp = x]
      <3>1. m \in [id : Nat, stamp : Nat]
        BY <2>2 DEF Stamped
      <3>2. m = [l.mounts[o] EXCEPT !.stamp = x]
        BY <2>2 DEF Stamped
      <3> QED BY <3>1, <3>2, FileSystemAssumption DEF Stamped
    <2>4. M!Put(l, x) = n
      <3>1. M!Put(l, x) = [l EXCEPT !.mounts = [l.mounts EXCEPT ![o].stamp = x], !.paths = TRUE]
        BY <1>1 DEF M!Put, o
      <3> QED BY <2>3, <3>1
    <2> HIDE DEF m
    <2>5. n \in Layer
      BY <2>3, LayerParts DEF Layer
    <2>6. n.mounts = [l.mounts EXCEPT ![o] = m] /\ n.paths = TRUE /\ n.trees = l.trees
      BY DEF Layer
    <2> HIDE DEF n
    <2>7. Restamps(l.mounts, n.mounts, Points)
      <3> QED BY <2>1, <2>3, <2>6, LayerParts DEF Restamps
    <2>8. /\ M!List(n, b) = M!List(l, b)
          /\ \A p \in Steps : M!Resolve(n, b, p).id = M!Resolve(l, b, p).id
      BY <2>5, <2>7, Restamped DEF Restamps
    <2> QED BY <1>1, <2>4, <2>8, <2>5, <2>6, SaidIs, PlacesAre DEF Owed
  <1>2. CASE M!Own(l, Leaf) = {}
    <2>1. [M!Put(l, 0) EXCEPT !.file = Nil] = [l EXCEPT !.file = Nil, !.paths = TRUE]
      <3> QED BY <1>2 DEF Layer, M!Put
    <2> DEFINE g == [l EXCEPT !.file = x, !.paths = TRUE]
               h == [l EXCEPT !.file = Nil, !.paths = TRUE]
               n == [M!Put(l, 0) EXCEPT !.file = Nil]
    <2>2. Owed(l, g, b, b) /\ M!List(g, b) = M!List(l, b) /\ Owed(l, h, b, b) /\ M!List(h, b) = M!List(l, b)
      BY FileOwes
    <2>3. M!Put(l, x) = g /\ n = h
      BY <1>2, <2>1 DEF M!Put
    <2> HIDE DEF g, h, n
    <2>4. Owed(l, M!Put(l, x), b, b) /\ M!List(M!Put(l, x), b) = M!List(l, b)
      BY <2>2, <2>3
    <2> QED BY <1>2, <2>2, <2>3, <2>4 DEF n
  <1> QED BY <1>1, <1>2

\* What is copied into a layer without mounts of its own.
LEMMA CopiedOwes ==
  ASSUME NEW l \in Layer, NEW b \in Table, NEW old \in Layer, made \in Nat,
         NEW order \in Seq(M!Mounted(old.mounts)), NEW i \in 0 .. Len(order)
  PROVE  LET n == M!Copied(l, old, order, i)
         IN  Owed(l, n, b, b) /\ (i = 0 => M!List(n, b) = M!List(l, b))
  <1> DEFINE n == M!Copied(l, old, order, i)
             J == {order[j] : j \in 1 .. i}
             m == [q \in Points |-> IF \E j \in 1 .. i : order[j] = q
                      THEN [id |-> made + (CHOOSE j \in 1 .. i : order[j] = q), stamp |-> old.mounts[q].stamp]
                      ELSE l.mounts[q]]
  <1>1. Len(order) \in Nat /\ i \in Nat /\ \A j \in 1 .. i : order[j] \in M!Mounted(old.mounts)
    <2> QED BY LenProperties, ElementOfSeq
  <1>2. \A j \in 1 .. i : order[j] \in Points /\ old.mounts[order[j]] \in Stamped
    BY <1>1, LayerParts DEF M!Mounted
  <1>3. n = [l EXCEPT !.mounts = m, !.trees = l.trees \cup J, !.paths = l.paths \/ i > 0]
    BY DEF M!Copied
  <1>4. m \in [Points -> Stamped \cup {Nil}]
    <2>1. ASSUME NEW q \in Points, NEW j \in 1 .. i, order[j] = q
          PROVE  [id |-> made + (CHOOSE k \in 1 .. i : order[k] = q), stamp |-> old.mounts[q].stamp] \in Stamped
      <3>1. made + (CHOOSE k \in 1 .. i : order[k] = q) \in Nat
        BY <1>1, <2>1
      <3> QED BY <3>1, <1>2, <2>1 DEF Stamped
    <2> QED BY <2>1, LayerParts
  <1>5. \A q \in Points : q \notin J => m[q] = l.mounts[q]
    OBVIOUS
  <1>6. J \subseteq M!Roots /\ (i = 0 => J = {})
    BY <1>1, <1>2, PlacesAre
  <1> HIDE DEF n, m, J
  <1>7. n \in Layer
    BY <1>3, <1>4, <1>6, LayerParts DEF Layer
  <1>8. n.mounts = m /\ n.trees = l.trees \cup J /\ n.paths = (l.paths \/ i > 0) /\ n.file = l.file
    BY <1>3 DEF Layer
  <1>9. ASSUME NEW p \in Steps, \A q \in J : ~ M!IsPrefix(q, p)
         PROVE  M!Own(n, p) = M!Own(l, p) /\ M!Resolve(n, b, p) = M!Resolve(l, b, p)
    <2> QED BY <1>7, <1>5, <1>8, <1>9, SameAbove
  <1>10. M!Seen(n, b) # M!Seen(l, b) => M!Said(n) # M!Nothing
    <2>1. CASE i = 0
      BY <1>6, <1>8, <1>9, <2>1, PlacesAre DEF M!Seen
    <2>2. CASE i > 0
      BY <1>7, <1>8, <2>2, SaidIs
    <2> QED BY <1>1, <2>1, <2>2
  <1>11. i = 0 => M!List(n, b) = M!List(l, b)
    <2> HAVE i = 0
    <2> QED BY <1>7, <1>5, <1>6, <1>8, Restamped DEF Restamps
  <1> QED BY <1>7, <1>8, <1>9, PlacesAre, <1>10, <1>11 DEF Owed, n

LEMMA WorkerKept ==
  ASSUME MountsInv, NEW v \in M!Workers, NEW k \in Worker, NEW n \in Layer, NEW bx \in Seq(Message),
         workers' = [workers EXCEPT ![v] = k], layers' = [layers EXCEPT ![v] = n],
         box' = [box EXCEPT ![v] = bx], base' = base, made' \in Nat, asked' \in Nat,
         Informed(k, n, bx, base), Doubted(k, n, bx, base)
  PROVE  MountsInv'
  <1>1. /\ base \in Table /\ layers \in [M!Workers -> Layer] /\ workers \in [M!Workers -> Worker]
        /\ box \in [M!Workers -> Seq(Message)]
        /\ \A x \in M!Workers : /\ Informed(workers[x], layers[x], box[x], base)
                                /\ Doubted(workers[x], layers[x], box[x], base)
    BY DEF MountsInv
  <1>2. ASSUME NEW x \in M!Workers
        PROVE  /\ Informed(workers'[x], layers'[x], box'[x], base')
               /\ Doubted(workers'[x], layers'[x], box'[x], base')
    <2>1. CASE x = v
      <3> QED BY <1>1, <2>1
    <2>2. CASE x # v
      <3> QED BY <1>1, <2>2
    <2> QED BY <2>1, <2>2
  <1> QED BY <1>1, <1>2 DEF MountsInv, Table, M!Roots

\* Whose files a worker is to have is nothing to what it was told.
LEMMA NoHeir ==
  ASSUME NEW k \in Worker, NEW l, NEW bx, NEW b, Informed(k, l, bx, b), Doubted(k, l, bx, b)
  PROVE  LET n == [k EXCEPT !.heirOf = Nil] IN n \in Worker /\ n.up = k.up /\ Informed(n, l, bx, b) /\ Doubted(n, l, bx, b)
  <1> DEFINE n == [k EXCEPT !.heirOf = Nil]
  <1>1. n.memo = k.memo /\ n.seeded = k.seeded /\ n.call = k.call
    BY DEF Worker
  <1> HIDE DEF n
  <1> QED BY <1>1 DEF Informed, Doubted, Way, n, Worker

LEMMA LocalKept ==
  ASSUME MountsInv, NEW v \in M!Workers, NEW n, Owed(layers[v], n, base, base),
         NEW lists \in Seq(SUBSET Rows),
         lists = <<>> => M!List(n, base) = M!List(layers[v], base),
         lists # <<>> => lists[Len(lists)] = M!List(n, base),
         layers' = [layers EXCEPT ![v] = n], box' = [box EXCEPT ![v] = M!Pushed(v, lists)],
         base' = base, made' \in Nat, asked' = asked,
         workers' = workers \/ workers' = [workers EXCEPT ![v].heirOf = Nil]
  PROVE  MountsInv'
  <1>1. /\ base \in Table /\ layers \in [M!Workers -> Layer] /\ workers \in [M!Workers -> Worker]
        /\ box \in [M!Workers -> Seq(Message)] /\ asked \in Nat
        /\ Informed(workers[v], layers[v], box[v], base) /\ Doubted(workers[v], layers[v], box[v], base)
    BY DEF MountsInv
  <1> DEFINE k == IF workers' = workers THEN workers[v] ELSE [workers[v] EXCEPT !.heirOf = Nil]
             bx == M!Pushed(v, lists)
  <1>2. k \in Worker /\ k.up = workers[v].up /\ Informed(k, layers[v], box[v], base) /\ Doubted(k, layers[v], box[v], base)
    BY <1>1, NoHeir
  <1>3. workers' = [workers EXCEPT ![v] = k]
    BY <1>1
  <1>4. bx = IF workers[v].up THEN box[v] \o Posts(lists) ELSE box[v]
    BY DEF M!Pushed, Posts
  <1>5. n \in Layer
    BY DEF Owed
  <1> HIDE DEF k, bx
  <1>6. bx = IF k.up THEN box[v] \o Posts(lists) ELSE box[v]
    BY <1>2, <1>4
  <1>7. Pushing(k, layers[v], box[v], base, n, base, lists, bx)
    BY <1>1, <1>2, <1>6 DEF Pushing
  <1>8. bx \in Seq(Message) /\ Heard(bx) = Heard(box[v]) /\ Informed(k, n, bx, base)
    BY <1>7, Pushes
  <1>9. Doubted(k, n, bx, base)
    BY <1>1, <1>2, <1>8, Stays
  <1>10. box' = [box EXCEPT ![v] = bx] /\ asked' \in Nat
    BY <1>1 DEF bx
  <1> QED BY <1>2, <1>3, <1>5, <1>8, <1>9, <1>10, WorkerKept

LEMMA TableKept ==
  ASSUME MountsInv, NEW a \in Table, M!TableChanges(a) PROVE MountsInv'
  <1>1. /\ base \in Table /\ layers \in [M!Workers -> Layer] /\ workers \in [M!Workers -> Worker]
        /\ box \in [M!Workers -> Seq(Message)] /\ made \in Nat /\ asked \in Nat
        /\ \A x \in M!Workers : /\ Informed(workers[x], layers[x], box[x], base)
                                /\ Doubted(workers[x], layers[x], box[x], base)
    BY DEF MountsInv
  <1>2. /\ base' = a /\ workers' = workers /\ asked' = asked /\ made' = made + 1
        /\ layers' = [v \in M!Workers |-> [layers[v] EXCEPT !.trees = @ \cup {<<>>}]]
        /\ box' = [v \in M!Workers |-> M!Pushed(v, <<M!List(layers[v], a)>>)]
    BY DEF M!TableChanges, M!Makes
  <1>3. ASSUME NEW v \in M!Workers
        PROVE  /\ layers'[v] \in Layer /\ box'[v] \in Seq(Message)
               /\ Informed(workers[v], layers'[v], box'[v], a) /\ Doubted(workers[v], layers'[v], box'[v], a)
    <2> DEFINE l == layers[v]
               n == layers'[v]
               bx == box[v]
               ax == box'[v]
               k == workers[v]
               lists == <<M!List(l, a)>>
    <2>1. l \in Layer /\ k \in Worker /\ bx \in Seq(Message) /\ Informed(k, l, bx, base) /\ Doubted(k, l, bx, base)
      BY <1>1
    <2>2. n = [l EXCEPT !.trees = @ \cup {<<>>}]
      BY <1>2
    <2>3. ax = IF k.up THEN bx \o Posts(lists) ELSE bx
      BY <1>2 DEF M!Pushed, Posts
    <2> HIDE DEF l, n, bx, ax, k
    <2>4. Owed(l, n, base, a) /\ M!List(n, a) = M!List(l, a)
      BY <1>1, <2>1, <2>2, TableOwes
    <2>5. lists \in Seq(SUBSET Rows) /\ lists # <<>> /\ lists[Len(lists)] = M!List(n, a)
      BY <2>4, <2>1, ListIs
    <2> HIDE DEF lists
    <2>6. Pushing(k, l, bx, base, n, a, lists, ax)
      BY <2>1, <2>3, <2>5 DEF Pushing
    <2>7. ax \in Seq(Message) /\ Heard(ax) = Heard(bx) /\ Informed(k, n, ax, a)
      BY <2>6, Pushes
    <2>8. n \in Layer
      BY <2>4 DEF Owed
    <2>9. n \in Layer /\ ax \in Seq(Message) /\ Informed(k, n, ax, a) /\ Doubted(k, n, ax, a)
      BY <2>7, <2>1, <2>4, Stays, <2>8
    <2> QED BY ONLY <2>9 DEF n, ax, k
  <1>4. layers' \in [M!Workers -> Layer] /\ box' \in [M!Workers -> Seq(Message)] /\ made' \in Nat
    <2>1. layers' = [v \in M!Workers |-> layers'[v]] /\ box' = [v \in M!Workers |-> box'[v]]
      BY <1>2
    <2>2. layers' \in [M!Workers -> Layer]
      BY <1>3, <2>1
    <2>3. box' \in [M!Workers -> Seq(Message)]
      BY <1>3, <2>1
    <2> QED BY <1>1, <1>2, <2>2, <2>3
  <1> QED BY <1>1, <1>2, <1>4, <1>3 DEF MountsInv, Table, M!Roots

LEMMA StateIs ==
  ASSUME MountsInv
  PROVE  /\ base \in Table /\ layers \in [M!Workers -> Layer] /\ workers \in [M!Workers -> Worker]
         /\ box \in [M!Workers -> Seq(Message)] /\ made \in Nat /\ asked \in Nat
         /\ \A v \in M!Workers :
              /\ layers[v] \in Layer /\ workers[v] \in Worker /\ box[v] \in Seq(Message)
              /\ Informed(workers[v], layers[v], box[v], base) /\ Doubted(workers[v], layers[v], box[v], base)
BY DEF MountsInv

LEMMA NewIs ==
  ASSUME made \in Nat PROVE M!New \in Stamped /\ M!New # Nil /\ made + 1 \in Nat
  <1> QED BY FileSystemAssumption DEF Stamped, M!New

LEMMA BaseKept ==
  ASSUME MountsInv, NEW q \in Points, M!BaseMount(q) \/ M!BaseUnmount(q) PROVE MountsInv'
  <1>1. ASSUME NEW x \in Stamped \cup {Nil} PROVE [base EXCEPT ![q] = x] \in Table
    BY StateIs, PlacesAre, <1>1 DEF Table
  <1>2. CASE M!BaseMount(q)
    <2> DEFINE a == [base EXCEPT ![q] = M!New]
    <2>1. a \in Table /\ M!TableChanges(a)
      BY <1>1, <1>2, NewIs, StateIs DEF M!BaseMount
    <2> QED BY ONLY <2>1, MountsInv, TableKept
  <1>3. CASE M!BaseUnmount(q)
    <2> DEFINE a == [base EXCEPT ![q] = Nil]
    <2>1. a \in Table /\ M!TableChanges(a)
      BY <1>1, <1>3 DEF M!BaseUnmount
    <2> QED BY ONLY <2>1, MountsInv, TableKept
  <1> QED BY <1>2, <1>3

LEMMA OneList ==
  ASSUME NEW S PROVE /\ \A x \in S : <<x>> \in Seq(S) /\ <<x>> # <<>> /\ <<x>>[Len(<<x>>)] = x
                     /\ \A x, y \in S : <<x, y>> \in Seq(S) /\ <<x, y>> # <<>> /\ <<x, y>>[Len(<<x, y>>)] = y
                     /\ <<>> \in Seq(S)
OBVIOUS

LEMMA MountKept ==
  ASSUME MountsInv, NEW v \in M!Workers, NEW q \in Points,
         M!LocalMount(v, q) \/ M!LocalUnmount(v, q) \/ M!Replace(v, q)
  PROVE  MountsInv'
  <1> DEFINE l == layers[v]
  <1>1. l \in Layer /\ base \in Table /\ made \in Nat /\ M!New \in Stamped
    BY StateIs, NewIs
  <1>2. made' \in Nat
    BY <1>1 DEF M!LocalMount, M!LocalUnmount, M!Replace, M!Makes
  <1>3. \A n \in Layer : M!List(n, base) \in SUBSET Rows
    BY <1>1, ListIs
  <1>4. CASE M!LocalMount(v, q)
    <2> DEFINE n == M!With(l, q, M!New)
               lists == <<M!List(n, base)>>
    <2>1. n \in Layer /\ Owed(l, n, base, base)
      BY <1>1, WithOwes
    <2>2. /\ layers' = [layers EXCEPT ![v] = n] /\ box' = [box EXCEPT ![v] = M!Pushed(v, lists)]
          /\ base' = base /\ workers' = workers /\ asked' = asked
      BY <1>4 DEF M!LocalMount, M!LocalChanges
    <2> HIDE DEF n
    <2>3. lists \in Seq(SUBSET Rows) /\ lists # <<>> /\ lists[Len(lists)] = M!List(n, base)
      BY <1>3, <2>1, OneList
    <2> HIDE DEF lists
    <2> QED BY <1>2, <2>1, <2>2, <2>3, LocalKept
  <1>5. CASE M!LocalUnmount(v, q)
    <2> DEFINE n == M!With(l, q, Nil)
               lists == <<M!List(n, base)>>
    <2>1. n \in Layer /\ Owed(l, n, base, base)
      BY <1>1, WithOwes
    <2>2. /\ layers' = [layers EXCEPT ![v] = n] /\ box' = [box EXCEPT ![v] = M!Pushed(v, lists)]
          /\ base' = base /\ workers' = workers /\ asked' = asked
      BY <1>5 DEF M!LocalUnmount, M!LocalChanges
    <2> HIDE DEF n
    <2>3. lists \in Seq(SUBSET Rows) /\ lists # <<>> /\ lists[Len(lists)] = M!List(n, base)
      BY <1>3, <2>1, OneList
    <2> HIDE DEF lists
    <2> QED BY <1>2, <2>1, <2>2, <2>3, LocalKept
  <1>6. CASE M!Replace(v, q)
    <2> DEFINE g == M!With(l, q, Nil)
               n == M!With(g, q, M!New)
               lists == <<M!List(g, base), M!List(n, base)>>
    <2>1. g \in Layer /\ Owed(l, g, base, base)
      BY <1>1, WithOwes
    <2>2. /\ layers' = [layers EXCEPT ![v] = n] /\ box' = [box EXCEPT ![v] = M!Pushed(v, lists)]
          /\ base' = base /\ workers' = workers /\ asked' = asked
      BY <1>6 DEF M!Replace, M!LocalChanges
    <2> HIDE DEF g
    <2>3. n \in Layer /\ Owed(g, n, base, base)
      BY <1>1, <2>1, WithOwes
    <2> HIDE DEF n
    <2>4. Owed(l, n, base, base)
      BY <1>1, <2>1, <2>3, OwedTwice
    <2>5. lists \in Seq(SUBSET Rows) /\ lists # <<>> /\ lists[Len(lists)] = M!List(n, base)
      BY <1>3, <2>1, <2>3, OneList
    <2> HIDE DEF lists
    <2> QED BY <1>2, <2>2, <2>4, <2>5, LocalKept
  <1> QED BY <1>4, <1>5, <1>6

LEMMA FileKept ==
  ASSUME MountsInv, NEW v \in M!Workers, M!AddVirtualFile(v) \/ M!RemoveVirtualFile(v) PROVE MountsInv'
  <1> DEFINE l == layers[v]
             x == made + 1
             n == IF M!Own(l, Leaf) # {} THEN M!Put(l, x) ELSE [M!Put(l, 0) EXCEPT !.file = Nil]
             lists == <<>>
  <1>1. l \in Layer /\ base \in Table /\ x \in Nat
    BY StateIs, NewIs
  <1>2. lists \in Seq(SUBSET Rows) /\ lists = <<>>
    BY OneList
  <1>3. Owed(l, n, base, base) /\ M!List(n, base) = M!List(l, base)
    BY <1>1, PutOwes
  <1>4. CASE M!AddVirtualFile(v)
    <2>1. /\ layers' = [layers EXCEPT ![v] = M!Put(l, x)] /\ box' = [box EXCEPT ![v] = M!Pushed(v, lists)]
          /\ base' = base /\ workers' = workers /\ asked' = asked /\ made' \in Nat
      BY <1>1, <1>4 DEF M!AddVirtualFile, M!LocalChanges, M!Makes
    <2> HIDE DEF lists, x
    <2> QED BY <1>2, <1>1, PutOwes, <2>1, LocalKept
  <1>5. CASE M!RemoveVirtualFile(v)
    <2>1. /\ layers' = [layers EXCEPT ![v] = n] /\ box' = [box EXCEPT ![v] = M!Pushed(v, lists)]
          /\ base' = base /\ workers' = workers /\ asked' = asked /\ made' \in Nat
      BY <1>1, <1>5 DEF M!RemoveVirtualFile, M!LocalChanges, M!Makes
    <2> HIDE DEF lists, x, n
    <2> QED BY <1>2, <1>3, <2>1, LocalKept
  <1> QED BY <1>4, <1>5

LEMMA MountSequence ==
  ASSUME NEW S, IsFiniteSet(S) PROVE M!SetToSeq(S) \in Seq(S)
  <1>1. Cardinality(S) \in Nat /\ ExistsBijection(1 .. Cardinality(S), S)
    BY FS_CardinalityType
  <1>2. PICK f \in [1 .. Cardinality(S) -> S] : IsInjective(f)
    BY <1>1 DEF ExistsBijection, Bijection, Injection
  <1> DEFINE k == Cardinality(S)
  <1>3. M!SetToSeq(S) \in [1 .. k -> S]
    <2>1. M!SetToSeq(S) = CHOOSE g \in [1 .. k -> S] : M!IsInjective(g)
      BY DEF M!SetToSeq, M!Cardinality, Cardinality
    <2> HIDE DEF k
    <2>2. \E g \in [1 .. k -> S] : M!IsInjective(g)
      BY <1>2 DEF k, IsInjective, M!IsInjective
    <2> QED BY <2>1, <2>2
  <1> QED BY <1>1, <1>3, SeqDef

\* The files first, then each mount; every one is pushed.
LEMMA CopyKept ==
  ASSUME MountsInv, NEW v \in M!Workers, M!CopyLocalTo(v) PROVE MountsInv'
  <1> DEFINE l == layers[v]
             old == layers[workers[v].heirOf]
             order == M!SetToSeq(M!Mounted(old.mounts))
             files == IF old.file = Nil THEN l ELSE [l EXCEPT !.file = old.file, !.paths = TRUE]
             n == M!Copied(files, old, order, Len(order))
             lists == [i \in DOMAIN order |-> M!List(M!Copied(files, old, order, i), base)]
  <1>1. l \in Layer /\ base \in Table /\ made \in Nat
    BY StateIs
  <1>2. old \in Layer
    <2> QED BY StateIs DEF M!CopyLocalTo, Worker
  <1>3. /\ made' = made + Len(order) /\ layers' = [layers EXCEPT ![v] = n]
        /\ box' = [box EXCEPT ![v] = M!Pushed(v, lists)]
        /\ workers' = [workers EXCEPT ![v].heirOf = Nil] /\ base' = base /\ asked' = asked
    BY DEF M!CopyLocalTo
  <1> HIDE DEF old
  <1>4. order \in Seq(M!Mounted(old.mounts))
    <2>1. IsFiniteSet(M!Mounted(old.mounts))
      BY <1>2, LayerParts, FS_Subset, FileSystemAssumption DEF M!Mounted
    <2> QED BY <2>1, MountSequence
  <1> HIDE DEF order
  <1>5. Len(order) \in Nat /\ DOMAIN order = 1 .. Len(order) /\ made' \in Nat
    <2> QED BY <1>1, <1>3, <1>4, LenProperties
  <1>6. files \in Layer /\ Owed(l, files, base, base) /\ M!List(files, base) = M!List(l, base)
    <2>1. CASE old.file # Nil
      <3> DEFINE g == [l EXCEPT !.file = old.file, !.paths = TRUE]
      <3>1. Owed(l, g, base, base) /\ M!List(g, base) = M!List(l, base)
        BY <1>1, <1>2, LayerParts, FileOwes
      <3>2. files = g
        BY <2>1
      <3> HIDE DEF g, files
      <3> QED BY <3>1, <3>2 DEF Owed
    <2> QED BY <1>1, <2>1 DEF Owed
  <1> HIDE DEF files, l
  <1>7. ASSUME NEW i \in 0 .. Len(order)
        PROVE  LET c == M!Copied(files, old, order, i)
               IN  Owed(files, c, base, base) /\ (i = 0 => M!List(c, base) = M!List(files, base))
    BY <1>1, <1>2, <1>4, <1>6, CopiedOwes
  <1>8. \A i \in 1 .. Len(order) : M!List(M!Copied(files, old, order, i), base) \in SUBSET Rows
    <2> TAKE i \in 1 .. Len(order)
    <2> DEFINE c == M!Copied(files, old, order, i)
    <2>1. c \in Layer
      BY <1>7, <1>5 DEF Owed
    <2> HIDE DEF c
    <2> QED BY <1>1, <2>1, ListIs DEF c
  <1>9. lists \in Seq(SUBSET Rows) /\ Len(lists) = Len(order)
    <2>1. lists \in Seq(SUBSET Rows)
      BY <1>5, <1>8, SeqDef
    <2> QED BY <1>5, <2>1, LenProperties
  <1>10. Owed(files, n, base, base) /\ (Len(order) = 0 => M!List(n, base) = M!List(files, base))
    <2> QED BY <1>7, <1>5
  <1>11. lists # <<>> => lists[Len(lists)] = M!List(n, base)
    <2> HAVE lists # <<>>
    <2>1. Len(order) \in 1 .. Len(order)
      <3> QED BY <1>5, <1>9, EmptySeq
    <2> QED BY <1>5, <1>9, <2>1
  <1>12. Owed(l, n, base, base)
    BY <1>1, <1>6, <1>10, OwedTwice DEF l
  <1>13. lists = <<>> => M!List(n, base) = M!List(l, base)
    <2> HAVE lists = <<>>
    <2> QED BY <1>6, <1>10, <1>9, EmptySeq
  <1> HIDE DEF lists, n
  <1> QED BY <1>3, <1>5, <1>9, <1>11, <1>12, <1>13, LocalKept DEF l

\* Two states of a worker with the same conclusions, and the same reply if there is one.
Answered(c, e) ==
  e.at = c.at /\ e.about = c.about /\ e.value = c.value /\ e.late = c.late /\ e.said = c.said

Alike(k, n) ==
  /\ n \in Worker /\ n.up = k.up /\ n.snapshot = k.snapshot /\ n.lost = k.lost
  /\ n.memo = k.memo /\ n.seeded = k.seeded
  /\ Answered(k.call, n.call) \/ (k.call.at # "replied" /\ n.call.at # "replied")

LEMMA AlikeIs ==
  ASSUME NEW k, NEW n, Alike(k, n), NEW l, NEW bx, NEW b
  PROVE  /\ Informed(k, l, bx, b) => Informed(n, l, bx, b)
         /\ Doubted(k, l, bx, b) => Doubted(n, l, bx, b)
  <1>1. Way(n, l, bx) = Way(k, l, bx)
    BY DEF Alike, Answered, Way
  <1>2. Doubted(k, l, bx, b) => Doubted(n, l, bx, b)
    <2>1. CASE Answered(k.call, n.call)
      BY <1>1, <2>1 DEF Alike, Answered, Doubted
    <2>2. CASE k.call.at # "replied" /\ n.call.at # "replied"
      BY <1>1, <2>2 DEF Alike, Doubted
    <2> QED BY <2>1, <2>2 DEF Alike
  <1> QED BY <1>2 DEF Alike, Informed

LEMMA AlikeKept ==
  ASSUME MountsInv, NEW v \in M!Workers, NEW k, Alike(workers[v], k),
         workers' = [workers EXCEPT ![v] = k], layers' = layers, box' = box, base' = base,
         made' \in Nat, asked' \in Nat
  PROVE  MountsInv'
  <1>1. /\ layers[v] \in Layer /\ workers[v] \in Worker /\ box[v] \in Seq(Message) /\ k \in Worker
        /\ Informed(workers[v], layers[v], box[v], base) /\ Doubted(workers[v], layers[v], box[v], base)
        /\ layers \in [M!Workers -> Layer] /\ box \in [M!Workers -> Seq(Message)]
    BY StateIs DEF Alike
  <1>2. layers' = [layers EXCEPT ![v] = layers[v]] /\ box' = [box EXCEPT ![v] = box[v]]
    BY <1>1
  <1> QED BY <1>1, AlikeIs, <1>2, WorkerKept

LEMMA WrittenKept ==
  ASSUME MountsInv, M!Makes, M!Written, workers' \in [M!Workers -> Worker],
         \A v \in M!Workers : Alike(workers[v], workers'[v]),
         box' = box, asked' = asked
  PROVE  MountsInv'
  <1> DEFINE o == M!Longest(M!Above(base, Leaf))
  <1>1. /\ base \in Table /\ made \in Nat /\ asked \in Nat /\ layers \in [M!Workers -> Layer]
        /\ box \in [M!Workers -> Seq(Message)]
        /\ \A v \in M!Workers :
             /\ layers[v] \in Layer /\ workers[v] \in Worker /\ box[v] \in Seq(Message)
             /\ Informed(workers[v], layers[v], box[v], base) /\ Doubted(workers[v], layers[v], box[v], base)
    BY StateIs
  <1>2. made' = made + 1 /\ made + 1 \in Nat
    BY <1>1 DEF M!Makes
  <1> DEFINE x == made + 1
             a == [base EXCEPT ![o].stamp = x]
             N1(v) == IF M!OwnsPath(layers[v]) THEN layers[v] ELSE [layers[v] EXCEPT !.paths = TRUE]
  <1>3. base' = a /\ layers' = [v \in M!Workers |-> N1(v)]
    BY DEF M!Written
  <1> HIDE DEF x
  <1>4. ASSUME NEW v \in M!Workers
        PROVE  /\ a \in Table /\ Owed(layers[v], layers'[v], base, a)
               /\ M!List(layers'[v], a) = M!List(layers[v], base)
    <2>1. layers[v] \in Layer
      BY <1>1
    <2> DEFINE l == layers[v]
               n == layers'[v]
    <2> HIDE DEF l, n
    <2>2. n = IF M!OwnsPath(l) THEN l ELSE [l EXCEPT !.paths = TRUE]
      BY <1>3 DEF l, n
    <2>3. a \in Table /\ Owed(l, n, base, a) /\ M!List(n, a) = M!List(l, base)
      BY <1>1, <1>2, <2>1, <2>2, WriteOwes DEF l, x
    <2> QED BY <2>3 DEF l, n
  <1> HIDE DEF a
  <1>5. a \in Table
    <2>1. CASE M!Workers = {}
      <3> DEFINE l == [mounts |-> [q \in Points |-> Nil], file |-> Nil, paths |-> FALSE, trees |-> {}]
      <3>1. l \in Layer
        BY DEF Layer
      <3>2. x \in Nat
        BY <1>2 DEF x
      <3> HIDE DEF l
      <3> QED BY <1>1, <3>1, <3>2, WriteOwes DEF a
    <2>2. CASE M!Workers # {}
      BY <1>4, <2>2
    <2> QED BY <2>1, <2>2
  <1>6. ASSUME NEW v \in M!Workers
        PROVE  /\ layers'[v] \in Layer
               /\ Informed(workers'[v], layers'[v], box'[v], a) /\ Doubted(workers'[v], layers'[v], box'[v], a)
    <2> DEFINE l == layers[v]
               n == layers'[v]
               bx == box[v]
               k == workers[v]
               m == workers'[v]
    <2>1. l \in Layer /\ k \in Worker /\ Informed(k, l, bx, base) /\ Doubted(k, l, bx, base) /\ Alike(k, m)
      BY <1>1
    <2>2. Owed(l, n, base, a) /\ M!List(n, a) = M!List(l, base)
      BY <1>4
    <2> HIDE DEF l, n, bx, k, m
    <2>3. Doubted(k, n, bx, a)
      BY <2>1, <2>2, Stays
    <2>4. n \in Layer /\ Informed(m, n, bx, a) /\ Doubted(m, n, bx, a)
      BY <2>1, <2>2, <2>3, AlikeIs DEF Owed, Informed
    <2> QED BY <2>4 DEF n, bx, m
  <1>7. layers' \in [M!Workers -> Layer]
    <2> QED BY <1>6, <1>3
  <1> HIDE DEF N1
  <1> QED BY <1>1, <1>2, <1>3, <1>5, <1>7, <1>6 DEF MountsInv, Table, M!Roots

LEMMA WorkerParts ==
  ASSUME NEW k \in Worker
  PROVE  /\ k.up \in BOOLEAN /\ k.snapshot \in SUBSET Rows /\ k.heirOf \in M!Workers \cup {Nil} /\ k.lost \in BOOLEAN
         /\ k.memo \in {Nil} \cup [stamp : Nat, late : BOOLEAN]
         /\ k.seeded \in [M!Dirs -> {Nil} \cup [id : Nat, late : BOOLEAN]] /\ k.call \in Calling
         /\ k.call.about \in M!Dirs \cup {Leaf, <<>>, Nil} /\ k.call.at \in {"none", "asked", "done", "replied"}
         /\ k.call.value \in Nat /\ k.call.late \in BOOLEAN /\ k.call.said \in Saying /\ k.call.tries \in Nat
         /\ k.call.at # "none" => k.call.about \in M!Dirs \cup {Leaf, <<>>}
  <1>1. k.call \in Calling
    BY DEF Worker
  <1>2. k.call.at # "none" => k.call.about \in M!Dirs \cup {Leaf, <<>>}
    BY <1>1 DEF Calling
  <1>3. /\ k.up \in BOOLEAN /\ k.snapshot \in SUBSET Rows /\ k.heirOf \in M!Workers \cup {Nil} /\ k.lost \in BOOLEAN
        /\ k.memo \in {Nil} \cup [stamp : Nat, late : BOOLEAN]
        /\ k.seeded \in [M!Dirs -> {Nil} \cup [id : Nat, late : BOOLEAN]]
    BY DEF Worker
  <1> QED BY <1>1, <1>3, <1>2 DEF Calling, Calls

\* What a call finds.
LEMMA FindsIs ==
  ASSUME MountsInv, NEW v \in M!Workers, NEW p \in M!Dirs \cup {Leaf}
  PROVE  /\ M!Finds(v, p) \in Nat
         /\ p = Leaf => M!Finds(v, p) = M!Seen(layers[v], base)
         /\ p \in M!Dirs => M!Finds(v, p) = M!Resolve(layers[v], base, p).id
  <1>1. layers[v] \in Layer /\ base \in Table /\ p \in Steps /\ Leaf \in Steps
    BY StateIs, PlacesAre
  <1>2. M!Resolve(layers[v], base, p) \in Stamped /\ M!Resolve(layers[v], base, Leaf) \in Stamped
    BY <1>1, ServedBy
  <1>3. M!Seen(layers[v], base) \in Nat
    BY <1>2, <1>1, LayerParts DEF M!Seen, Stamped
  <1> QED BY <1>2, <1>3, PlacesAre DEF M!Finds, Stamped

LEMMA CallSet ==
  ASSUME NEW k \in Worker, NEW c \in Calling
  PROVE  LET n == [k EXCEPT !.call = c]
         IN  /\ n \in Worker /\ n.call = c /\ n.up = k.up /\ n.snapshot = k.snapshot /\ n.lost = k.lost
             /\ n.memo = k.memo /\ n.seeded = k.seeded
             /\ (Answered(k.call, c) \/ (k.call.at # "replied" /\ c.at # "replied")) => Alike(k, n)
  <1> DEFINE n == [k EXCEPT !.call = c]
  <1>1. n \in Worker
    BY DEF Worker
  <1>2. n.call = c /\ n.up = k.up /\ n.snapshot = k.snapshot /\ n.lost = k.lost
    BY DEF Worker
  <1>3. n.memo = k.memo /\ n.seeded = k.seeded
    BY DEF Worker
  <1> HIDE DEF n
  <1> QED BY <1>1, <1>2, <1>3 DEF n, Alike

LEMMA IdleIs ==
  /\ M!Idle \in Calling /\ M!Idle.at = "none"
  /\ \A p \in M!Dirs \cup {Leaf, <<>>} :
       [M!Idle EXCEPT !.about = p, !.at = "asked"] \in Calling
         /\ [M!Idle EXCEPT !.about = p, !.at = "asked"].at = "asked"
  <1> HIDE DEF M!Nothing
  <1>1. M!Idle = [about |-> Nil, at |-> "none", value |-> 0, late |-> FALSE, said |-> M!Nothing, tries |-> 0]
    BY DEF M!Idle
  <1>2. M!Idle \in Calling /\ M!Idle.at = "none"
    BY <1>1 DEF Calling, Calls, M!Nothing, Saying
  <1> QED BY <1>2 DEF Calling, Calls

LEMMA StartsKept ==
  ASSUME MountsInv, NEW v \in M!Workers, NEW from \in M!Workers \cup {Nil}, M!Starts(v, from) PROVE MountsInv'
  <1> DEFINE l == layers[v]
             k == workers[v]
             x == M!List(l, base)
             n == [k EXCEPT !.up = TRUE, !.snapshot = x, !.heirOf = from]
             bx == box[v]
  <1>1. /\ l \in Layer /\ k \in Worker /\ bx \in Seq(Message) /\ base \in Table /\ ~ k.up
        /\ Informed(k, l, bx, base) /\ Doubted(k, l, bx, base)
        /\ layers \in [M!Workers -> Layer] /\ box \in [M!Workers -> Seq(Message)] /\ workers \in [M!Workers -> Worker]
    BY StateIs DEF M!Starts
  <1>2. x \in SUBSET Rows
    BY <1>1, ListIs
  <1>3. /\ workers' = [workers EXCEPT ![v] = n] /\ layers' = [layers EXCEPT ![v] = l] /\ box' = [box EXCEPT ![v] = bx]
        /\ base' = base /\ made' = made /\ asked' = asked
    BY <1>1 DEF M!Starts
  <1> HIDE DEF l, k, bx, x
  <1>4. n \in Worker
    BY <1>1, <1>2 DEF Worker
  <1>5. n.up = TRUE /\ n.snapshot = x /\ n.lost = k.lost /\ n.memo = k.memo
    BY <1>1 DEF Worker
  <1>6. n.seeded = k.seeded /\ n.call = k.call
    BY <1>1 DEF Worker
  <1> HIDE DEF n
  <1>7. Informed(n, l, bx, base)
    BY <1>1, <1>5 DEF Informed, x
  <1>8. Doubted(n, l, bx, base)
    BY <1>1, <1>5, <1>6 DEF Doubted, Way
  <1> QED BY <1>1, <1>3, StateIs, <1>4, <1>7, <1>8, WorkerKept

LEMMA AsksKept ==
  ASSUME MountsInv, NEW v \in M!Workers, NEW p \in M!Dirs \cup {Leaf, M!Writing}, M!Asks(v, p) PROVE MountsInv'
  <1> DEFINE c == [M!Idle EXCEPT !.about = p, !.at = "asked"]
             k == workers[v]
             n == [k EXCEPT !.call = c]
  <1>1. k \in Worker /\ workers \in [M!Workers -> Worker] /\ made \in Nat /\ asked \in Nat
    BY StateIs
  <1>2. c \in Calling /\ c.at = "asked"
    BY IdleIs DEF M!Writing
  <1>3. k.call.at = "none" /\ workers' = [workers EXCEPT ![v] = n] /\ made' = made /\ asked' = asked + 1
        /\ layers' = layers /\ box' = box /\ base' = base
    BY <1>1 DEF M!Asks
  <1> HIDE DEF c
  <1>4. Alike(k, n)
    BY <1>1, <1>2, <1>3, CallSet
  <1>5. made' \in Nat /\ asked' \in Nat
    BY <1>1, <1>3
  <1> HIDE DEF n
  <1> QED BY <1>3, <1>4, <1>5, AlikeKept

LEMMA PerformsKept ==
  ASSUME MountsInv, NEW v \in M!Workers, M!Performs(v) PROVE MountsInv'
  <1> DEFINE k == workers[v]
             c == k.call
             g == [c EXCEPT !.at = "done"]
             z == M!Finds(v, c.about)
             h == [c EXCEPT !.at = "done", !.value = z]
  <1>1. k \in Worker /\ workers \in [M!Workers -> Worker] /\ made \in Nat /\ asked \in Nat /\ c.at = "asked"
        /\ c \in Calling /\ c.about \in M!Dirs \cup {Leaf, <<>>}
    <2>1. k \in Worker /\ workers \in [M!Workers -> Worker] /\ made \in Nat /\ asked \in Nat
      BY StateIs
    <2> QED BY <2>1, WorkerParts DEF M!Performs
  <1>2. /\ c.about = M!Writing => /\ M!Makes /\ M!Written /\ workers' = [workers EXCEPT ![v] = [k EXCEPT !.call = g]]
        /\ c.about # M!Writing => /\ workers' = [workers EXCEPT ![v] = [k EXCEPT !.call = h]]
                                  /\ base' = base /\ layers' = layers /\ made' = made
        /\ box' = box /\ asked' = asked
    <2>1. c.about = M!Writing => /\ M!Makes /\ M!Written /\ workers' = [workers EXCEPT ![v].call.at = "done"]
      BY DEF M!Performs
    <2>2. c.about # M!Writing =>
            /\ workers' = [workers EXCEPT ![v].call.at = "done", ![v].call.value = z]
            /\ base' = base /\ layers' = layers /\ made' = made
      BY DEF M!Performs
    <2>3. box' = box /\ asked' = asked
      BY DEF M!Performs
    <2>4. [workers EXCEPT ![v].call.at = "done"] = [workers EXCEPT ![v] = [k EXCEPT !.call = g]]
      BY <1>1
    <2>5. [workers EXCEPT ![v].call.at = "done", ![v].call.value = z] = [workers EXCEPT ![v] = [k EXCEPT !.call = h]]
      BY <1>1 DEF Worker
    <2> QED BY <2>1, <2>2, <2>3, <2>4, <2>5
  <1> HIDE DEF c, k
  <1>3. g \in Calling /\ g.at # "replied"
    BY <1>1 DEF Calling, Calls
  <1>4. CASE c.about = M!Writing
    <2> DEFINE n == [k EXCEPT !.call = g]
    <2> HIDE DEF g
    <2>1. Alike(k, n) /\ n \in Worker
      BY <1>1, <1>3, CallSet DEF c
    <2> HIDE DEF n
    <2>2. workers' = [workers EXCEPT ![v] = n]
      BY <1>2, <1>4 DEF n
    <2>3. ASSUME NEW x \in M!Workers PROVE Alike(workers[x], workers'[x])
      <3>1. CASE x = v
        BY <1>1, <2>1, <2>2, <3>1 DEF k
      <3>2. CASE x # v
        BY <1>1, <2>2, <3>2 DEF Alike, Answered
      <3> QED BY <3>1, <3>2
    <2> QED BY <1>2, <1>4, <1>1, <2>1, <2>2, <2>3, WrittenKept
  <1>5. CASE c.about # M!Writing
    <2> DEFINE n == [k EXCEPT !.call = h]
    <2>1. workers' = [workers EXCEPT ![v] = n] /\ base' = base /\ layers' = layers /\ made' \in Nat /\ asked' \in Nat
      BY <1>1, <1>2, <1>5
    <2>2. h \in Calling /\ h.at # "replied"
      <3>1. z \in Nat
        <4> QED BY <1>1, <1>5, FindsIs DEF M!Writing
      <3> HIDE DEF z
      <3> QED BY <1>1, <3>1 DEF Calling, Calls
    <2> HIDE DEF h
    <2>3. Alike(k, n)
      BY <1>1, <2>2, CallSet DEF c
    <2> HIDE DEF n
    <2> QED BY <1>2, <2>1, <2>3, AlikeKept DEF k
  <1> QED BY <1>4, <1>5

LEMMA DrainIs ==
  ASSUME NEW l \in Layer, NEW b \in Table
  PROVE  LET n == [l EXCEPT !.paths = FALSE, !.trees = {}]
         IN  /\ n \in Layer /\ M!Said(n) = M!Nothing /\ M!List(n, b) = M!List(l, b) /\ M!Seen(n, b) = M!Seen(l, b)
             /\ \A d \in M!Dirs : M!Resolve(n, b, d) = M!Resolve(l, b, d)
  <1> DEFINE n == [l EXCEPT !.paths = FALSE, !.trees = {}]
  <1>1. n \in Layer /\ n.mounts = l.mounts /\ n.file = l.file /\ n.paths = FALSE /\ n.trees = {}
    BY DEF Layer
  <1> HIDE DEF n
  <1>2. \A p \in Steps : M!Own(n, p) = M!Own(l, p) /\ M!Resolve(n, b, p) = M!Resolve(l, b, p)
    BY <1>1, SameAbove
  <1>3. M!List(n, b) = M!List(l, b)
    BY <1>1, Restamped DEF Restamps
  <1>4. M!Seen(n, b) = M!Seen(l, b)
    BY <1>1, <1>2, PlacesAre DEF M!Seen
  <1> QED BY <1>1, <1>2, <1>3, <1>4, PlacesAre DEF n, M!Said, M!Nothing

\* The reply takes what is pending with it.
LEMMA RepliesKept ==
  ASSUME MountsInv, NEW v \in M!Workers, M!Replies(v) PROVE MountsInv'
  <1> DEFINE l == layers[v]
             k == workers[v]
             bx == box[v]
             c == k.call
             lt == c.about # M!Writing /\ c.value # M!Finds(v, c.about)
             g == [c EXCEPT !.at = "replied", !.said = M!Said(l), !.late = lt]
             m == [k EXCEPT !.call = g]
             n == [l EXCEPT !.paths = FALSE, !.trees = {}]
  <1>1. /\ l \in Layer /\ k \in Worker /\ bx \in Seq(Message) /\ base \in Table /\ made \in Nat /\ asked \in Nat
        /\ Informed(k, l, bx, base) /\ Doubted(k, l, bx, base) /\ c \in Calling
        /\ layers \in [M!Workers -> Layer] /\ box \in [M!Workers -> Seq(Message)] /\ workers \in [M!Workers -> Worker]
    BY StateIs, WorkerParts
  <1>2. /\ c.at = "done" /\ workers' = [workers EXCEPT ![v] = m] /\ layers' = [layers EXCEPT ![v] = n]
        /\ box' = [box EXCEPT ![v] = bx] /\ base' = base /\ made' \in Nat /\ asked' \in Nat
    BY <1>1 DEF M!Replies, M!Drained
  <1>3. /\ n \in Layer /\ M!Said(n) = M!Nothing /\ M!List(n, base) = M!List(l, base) /\ M!Seen(n, base) = M!Seen(l, base)
        /\ \A d \in M!Dirs : M!Resolve(n, base, d) = M!Resolve(l, base, d)
    BY <1>1, DrainIs
  <1>4. M!Said(l) \in Saying /\ lt \in BOOLEAN
    BY <1>1, SaidIs
  <1>5. /\ c.about = Leaf => lt = (c.value # M!Seen(l, base))
        /\ \A d \in M!Dirs : c.about = d => lt = (c.value # M!Resolve(l, base, d).id)
    BY FindsIs, PlacesAre DEF M!Writing
  <1> HIDE DEF l, bx, c, lt, n
  <1>6. g \in Calling /\ g.at = "replied" /\ g.said = M!Said(l) /\ g.late = lt /\ g.about = c.about /\ g.value = c.value
    BY <1>1, <1>2, <1>4 DEF Calling, Calls
  <1> HIDE DEF g, k
  <1>7. /\ m \in Worker /\ m.call = g /\ m.up = k.up /\ m.snapshot = k.snapshot /\ m.lost = k.lost
        /\ m.memo = k.memo /\ m.seeded = k.seeded
    BY <1>1, <1>6, CallSet
  <1> HIDE DEF m
  <1>8. Way(k, l, bx) \subseteq Way(m, n, bx)
    BY <1>2, <1>6, <1>7 DEF Way, Waiting, c
  <1>9. AnyPath(Way(k, l, bx)) => AnyPath(Way(m, n, bx))
    BY <1>8 DEF AnyPath
  <1>10. \A d : Tree(Way(k, l, bx), d) => Tree(Way(m, n, bx), d)
    BY <1>8 DEF Tree
  <1>11. Doubted(m, n, bx, base)
    BY <1>1, <1>3, <1>5, <1>6, <1>7, <1>9, <1>10 DEF Doubted
  <1> QED BY <1>2, <1>1, <1>3, <1>7, <1>11, WorkerKept DEF Informed

LEMMA AgainKept ==
  ASSUME MountsInv, NEW v \in M!Workers, M!Again(v) PROVE MountsInv'
  <1> DEFINE k == workers[v]
             c == k.call
             g == [c EXCEPT !.tries = c.tries + 1]
             n == [k EXCEPT !.call = g]
  <1>1. k \in Worker /\ workers \in [M!Workers -> Worker] /\ made \in Nat /\ asked \in Nat /\ c \in Calling /\ c.tries \in Nat
    BY StateIs, WorkerParts
  <1>2. /\ workers' = [workers EXCEPT ![v] = n] /\ layers' = layers /\ box' = box /\ base' = base
        /\ made' \in Nat /\ asked' \in Nat
    BY <1>1 DEF M!Again
  <1> HIDE DEF c
  <1>3. g \in Calling
    BY <1>1 DEF Calling, Calls
  <1>4. Answered(c, g)
    BY <1>1 DEF Answered, Calling, Calls
  <1> HIDE DEF g
  <1>5. Alike(k, n)
    BY <1>1, <1>3, <1>4, CallSet DEF c
  <1> HIDE DEF n
  <1> QED BY <1>2, <1>5, AlikeKept

\* What rode on the last try is lost, and the worker knows no better.
LEMMA GivesUpKept ==
  ASSUME MountsInv, NEW v \in M!Workers, M!GivesUp(v) PROVE MountsInv'
  <1> DEFINE l == layers[v]
             k == workers[v]
             bx == box[v]
             c == k.call
             g == k.lost \/ c.said # M!Nothing
             n == [k EXCEPT !.lost = g, !.call = M!Idle]
  <1>1. /\ l \in Layer /\ k \in Worker /\ bx \in Seq(Message) /\ made \in Nat /\ asked \in Nat
        /\ Informed(k, l, bx, base) /\ Doubted(k, l, bx, base) /\ k.lost \in BOOLEAN
        /\ layers \in [M!Workers -> Layer] /\ box \in [M!Workers -> Seq(Message)] /\ workers \in [M!Workers -> Worker]
    BY StateIs, WorkerParts
  <1>2. /\ c.at = "replied" /\ workers' = [workers EXCEPT ![v] = n] /\ layers' = [layers EXCEPT ![v] = l]
        /\ box' = [box EXCEPT ![v] = bx] /\ base' = base /\ made' \in Nat /\ asked' \in Nat
    BY <1>1 DEF M!GivesUp
  <1> HIDE DEF l, bx, k, c
  <1>3. n \in Worker
    BY <1>1, IdleIs DEF Worker
  <1>4. n.lost = g /\ n.call = M!Idle /\ n.up = k.up /\ n.snapshot = k.snapshot
    BY <1>1 DEF Worker
  <1>5. n.memo = k.memo /\ n.seeded = k.seeded
    BY <1>1 DEF Worker
  <1> HIDE DEF n
  <1>6. Doubted(n, l, bx, base)
    <2>1. CASE g
      BY <1>4, <2>1 DEF Doubted
    <2>2. CASE ~ g
      <3>1. c.said = M!Nothing /\ ~ k.lost
        BY <2>2
      <3>2. Way(n, l, bx) = Waiting(l, bx)
        BY <1>4, IdleIs DEF Way
      <3>3. Way(k, l, bx) = Waiting(l, bx) \cup {M!Nothing}
        BY <1>2, <3>1 DEF Way, c
      <3>4. AnyPath(Way(k, l, bx)) => AnyPath(Way(n, l, bx))
        BY <3>2, <3>3 DEF AnyPath
      <3>5. \A d : Tree(Way(k, l, bx), d) => Tree(Way(n, l, bx), d)
        BY <1>1, <3>2, <3>3, SaidIs DEF Tree
      <3> QED BY <1>1, <1>4, <1>5, <3>1, <3>4, <3>5, IdleIs DEF Doubted
    <2> QED BY <2>1, <2>2
  <1> QED BY <1>1, <1>2, <1>3, <1>4, <1>6, WorkerKept DEF Informed

LEMMA RepliesLaterKept ==
  ASSUME MountsInv, NEW v \in M!Workers, M!RepliesLater(v) PROVE MountsInv'
  <1> DEFINE l == layers[v]
             k == workers[v]
             bx == box[v]
             x == [kind |-> "reply", said |-> M!Said(l)]
             ax == Append(bx, x)
             n == [l EXCEPT !.paths = FALSE, !.trees = {}]
             z == Len(bx)
  <1>1. /\ l \in Layer /\ k \in Worker /\ bx \in Seq(Message) /\ base \in Table /\ made \in Nat /\ asked \in Nat
        /\ Informed(k, l, bx, base) /\ Doubted(k, l, bx, base)
        /\ layers \in [M!Workers -> Layer] /\ box \in [M!Workers -> Seq(Message)] /\ workers \in [M!Workers -> Worker]
    BY StateIs
  <1>2. /\ k.up /\ workers' = [workers EXCEPT ![v] = k] /\ layers' = [layers EXCEPT ![v] = n]
        /\ box' = [box EXCEPT ![v] = ax] /\ base' = base /\ made' \in Nat /\ asked' \in Nat
    <2>1. /\ k.up /\ asked' = asked + 1 /\ box' = [box EXCEPT ![v] = Append(@, x)]
          /\ layers' = M!Drained(v) /\ base' = base /\ workers' = workers /\ made' = made
      BY DEF M!RepliesLater
    <2>2. layers' = [layers EXCEPT ![v] = n]
      BY <1>1, <2>1 DEF M!Drained
    <2>3. box' = [box EXCEPT ![v] = ax]
      BY <1>1, <2>1
    <2>4. workers' = [workers EXCEPT ![v] = k]
      BY <1>1, <2>1
    <2>5. asked' \in Nat /\ made' \in Nat
      BY <1>1, <2>1
    <2> HIDE DEF n, ax, x
    <2> QED BY ONLY <2>1, <2>2, <2>3, <2>4, <2>5
  <1>3. /\ n \in Layer /\ M!Said(n) = M!Nothing /\ M!List(n, base) = M!List(l, base) /\ M!Seen(n, base) = M!Seen(l, base)
        /\ \A d \in M!Dirs : M!Resolve(n, base, d) = M!Resolve(l, base, d)
    BY <1>1, DrainIs
  <1>4. x \in Message /\ x.kind = "reply" /\ x.said = M!Said(l)
    BY <1>1, SaidIs DEF Message
  <1> HIDE DEF l, k, bx, x, n, z
  <1>5. ax \in Seq(Message) /\ Len(ax) = z + 1 /\ ax[z + 1] = x /\ \A i \in 1 .. z : ax[i] = bx[i]
    BY <1>1, <1>4, AppendProperties DEF z
  <1>6. z \in Nat /\ DOMAIN bx = 1 .. z /\ DOMAIN ax = 1 .. (z + 1)
    BY <1>1, <1>5, LenProperties DEF z
  <1> HIDE DEF ax
  <1>7. /\ \A i \in 1 .. z : i \in 1 .. (z + 1)
        /\ z + 1 \in 1 .. (z + 1) /\ \A i \in 1 .. (z + 1) : i = z + 1 \/ i \in 1 .. z
    BY <1>6
  <1>8. Informed(k, n, ax, base)
    <2>1. ASSUME NEW i \in DOMAIN ax, ax[i].kind = "mounts", \A j \in DOMAIN ax : j > i => ax[j].kind # "mounts"
          PROVE  ax[i].list = M!List(n, base)
      <3>1. i \in 1 .. z
        BY <1>4, <1>5, <1>6, <1>7, <2>1
      <3> QED BY <1>1, <1>3, <1>5, <1>6, <3>1, <1>7, <2>1 DEF Informed
    <2> QED BY <1>2, <1>1, <1>3, <1>5, <1>6, <1>7, <2>1 DEF Informed
  <1>9. Waiting(l, bx) \subseteq Waiting(n, ax)
    <2>1. x.said \in Heard(ax)
      BY <1>4, <1>5, <1>6, <1>7 DEF Heard
    <2> QED BY <1>4, <1>5, <1>6, <1>7, <2>1 DEF Waiting, Heard
  <1>10. Doubted(k, n, ax, base)
    <2>1. Way(k, l, bx) \subseteq Way(k, n, ax)
      BY <1>9 DEF Way
    <2>2. \A d : /\ Tree(Way(k, l, bx), d) => Tree(Way(k, n, ax), d)
                 /\ Tree(Waiting(l, bx), d) => Tree(Waiting(n, ax), d)
      BY <1>9, <2>1 DEF Tree
    <2> QED BY <1>1, <1>3, <1>9, <2>1, <2>2 DEF Doubted, AnyPath
  <1> QED BY <1>1, <1>2, <1>3, <1>5, <1>8, <1>10, WorkerKept

LEMMA AppliedIs ==
  ASSUME NEW k \in Worker, NEW said \in Saying
  PROVE  LET n == M!Applied(k, said)
         IN  /\ n \in Worker /\ n.up = k.up /\ n.snapshot = k.snapshot /\ n.lost = k.lost /\ n.call = k.call
             /\ n.memo = IF said # M!Nothing THEN Nil ELSE k.memo
             /\ \A d \in M!Dirs :
                  n.seeded[d] = IF \E t \in said.trees : M!IsPrefix(t, d) THEN Nil ELSE k.seeded[d]
  <1> DEFINE a == IF said # M!Nothing THEN Nil ELSE k.memo
             b == [d \in M!Dirs |-> IF \E t \in said.trees : M!IsPrefix(t, d) THEN Nil ELSE k.seeded[d]]
             n == M!Applied(k, said)
  <1>1. n = [k EXCEPT !.memo = a, !.seeded = b]
    BY DEF M!Applied
  <1>2. a \in {Nil} \cup [stamp : Nat, late : BOOLEAN] /\ b \in [M!Dirs -> {Nil} \cup [id : Nat, late : BOOLEAN]]
    BY WorkerParts
  <1>3. \A d \in M!Dirs : b[d] = IF \E t \in said.trees : M!IsPrefix(t, d) THEN Nil ELSE k.seeded[d]
    OBVIOUS
  <1> HIDE DEF a, b, n
  <1>4. n \in Worker
    BY <1>1, <1>2 DEF Worker
  <1>5. n.up = k.up /\ n.snapshot = k.snapshot /\ n.lost = k.lost /\ n.call = k.call
    BY <1>1 DEF Worker
  <1>6. n.memo = a /\ n.seeded = b
    BY <1>1 DEF Worker
  <1> QED BY <1>3, <1>4, <1>5, <1>6 DEF n, a

LEMMA ConcludedIs ==
  ASSUME NEW k \in Worker, NEW c \in Calling
  PROVE  LET n == M!Concluded(k, c)
         IN  /\ n \in Worker /\ n.up = k.up /\ n.snapshot = k.snapshot /\ n.lost = k.lost /\ n.call = k.call
             /\ n.memo = IF c.about = Leaf THEN [stamp |-> c.value, late |-> c.late] ELSE k.memo
             /\ \A d \in M!Dirs :
                  n.seeded[d] = IF c.about = d THEN [id |-> c.value, late |-> c.late] ELSE k.seeded[d]
  <1> DEFINE a == [stamp |-> c.value, late |-> c.late]
             e == [id |-> c.value, late |-> c.late]
             n == M!Concluded(k, c)
  <1>1. a \in [stamp : Nat, late : BOOLEAN] /\ e \in [id : Nat, late : BOOLEAN]
    BY DEF Calling, Calls
  <1>2. n = IF c.about = Leaf THEN [k EXCEPT !.memo = a]
            ELSE IF c.about \in M!Dirs THEN [k EXCEPT !.seeded = [k.seeded EXCEPT ![c.about] = e]]
            ELSE k
    BY DEF M!Concluded
  <1>3. k.seeded \in [M!Dirs -> {Nil} \cup [id : Nat, late : BOOLEAN]]
    BY WorkerParts
  <1> HIDE DEF a, e, n
  <1>4. CASE c.about = Leaf
    <2>1. n = [k EXCEPT !.memo = a]
      BY <1>2, <1>4
    <2>2. n.up = k.up /\ n.snapshot = k.snapshot /\ n.lost = k.lost /\ n.call = k.call
      BY <2>1 DEF Worker
    <2>3. n.memo = a /\ n.seeded = k.seeded
      BY <2>1 DEF Worker
    <2> QED BY <1>4, <1>1, <2>1, <2>2, <2>3, PlacesAre DEF n, a, Worker
  <1>5. CASE c.about \in M!Dirs
    <2> DEFINE f == [k.seeded EXCEPT ![c.about] = e]
    <2>1. c.about # Leaf /\ n = [k EXCEPT !.seeded = f]
      BY <1>2, <1>5, PlacesAre
    <2>2. f \in [M!Dirs -> {Nil} \cup [id : Nat, late : BOOLEAN]]
      BY <1>1, <1>3
    <2>3. \A d \in M!Dirs : f[d] = IF c.about = d THEN e ELSE k.seeded[d]
      BY <1>3
    <2> HIDE DEF f
    <2>4. n \in Worker
      BY <2>1, <2>2 DEF Worker
    <2>5. n.up = k.up /\ n.snapshot = k.snapshot /\ n.lost = k.lost /\ n.call = k.call
      BY <2>1 DEF Worker
    <2>6. n.memo = k.memo /\ n.seeded = f
      BY <2>1 DEF Worker
    <2> QED BY <2>1, <2>3, <2>4, <2>5, <2>6 DEF n, e
  <1>6. CASE c.about # Leaf /\ c.about \notin M!Dirs
    <2> QED BY <1>6, <1>2 DEF n
  <1> QED BY <1>4, <1>5, <1>6

LEMMA ArrivesKept ==
  ASSUME MountsInv, NEW v \in M!Workers, M!Arrives(v) PROVE MountsInv'
  <1> DEFINE l == layers[v]
             k == workers[v]
             bx == box[v]
             c == k.call
             a == M!Applied(k, c.said)
             e == M!Concluded(a, c)
             g == M!Idle
             n == [e EXCEPT !.call = g]
  <1>1. /\ l \in Layer /\ k \in Worker /\ bx \in Seq(Message) /\ made \in Nat /\ asked \in Nat
        /\ Informed(k, l, bx, base) /\ Doubted(k, l, bx, base) /\ c \in Calling /\ c.said \in Saying
        /\ layers \in [M!Workers -> Layer] /\ box \in [M!Workers -> Seq(Message)] /\ workers \in [M!Workers -> Worker]
    BY StateIs, WorkerParts
  <1>2. /\ c.at = "replied" /\ workers' = [workers EXCEPT ![v] = n] /\ layers' = [layers EXCEPT ![v] = l]
        /\ box' = [box EXCEPT ![v] = bx] /\ base' = base /\ made' \in Nat /\ asked' \in Nat
    BY <1>1 DEF M!Arrives
  <1> HIDE DEF l, k, bx, c
  <1>3. /\ a \in Worker /\ a.up = k.up /\ a.snapshot = k.snapshot /\ a.lost = k.lost /\ a.call = k.call
        /\ a.memo = IF c.said # M!Nothing THEN Nil ELSE k.memo
        /\ \A d \in M!Dirs : a.seeded[d] = IF \E t \in c.said.trees : M!IsPrefix(t, d) THEN Nil ELSE k.seeded[d]
    BY <1>1, AppliedIs
  <1> HIDE DEF a
  <1>4. /\ e \in Worker /\ e.up = a.up /\ e.snapshot = a.snapshot /\ e.lost = a.lost
        /\ e.memo = IF c.about = Leaf THEN [stamp |-> c.value, late |-> c.late] ELSE a.memo
        /\ \A d \in M!Dirs : e.seeded[d] = IF c.about = d THEN [id |-> c.value, late |-> c.late] ELSE a.seeded[d]
    BY <1>1, <1>3, ConcludedIs
  <1>5. g \in Calling /\ g.at = "none"
    BY IdleIs
  <1> HIDE DEF e, g
  <1>6. /\ n \in Worker /\ n.call = g /\ n.up = e.up /\ n.snapshot = e.snapshot /\ n.lost = e.lost
        /\ n.memo = e.memo /\ n.seeded = e.seeded
    BY <1>4, <1>5, CallSet
  <1> HIDE DEF n
  <1>7. Informed(n, l, bx, base)
    BY <1>1, <1>3, <1>4, <1>6 DEF Informed
  <1>8. Doubted(n, l, bx, base)
    <2>1. CASE k.lost
      BY <1>3, <1>4, <1>6, <2>1 DEF Doubted
    <2>2. CASE ~ k.lost
      <3>1. Way(n, l, bx) = Waiting(l, bx) /\ Way(k, l, bx) = Waiting(l, bx) \cup {c.said}
        BY <1>2, <1>5, <1>6 DEF Way, c
      <3>2. /\ k.memo # Nil /\ k.memo.stamp # M!Seen(l, base) /\ ~ k.memo.late => AnyPath(Way(k, l, bx))
            /\ \A d \in M!Dirs :
                 k.seeded[d] # Nil /\ k.seeded[d].id # M!Resolve(l, base, d).id /\ ~ k.seeded[d].late
                   => Tree(Way(k, l, bx), d)
            /\ c.about = Leaf /\ c.value # M!Seen(l, base) /\ ~ c.late => AnyPath(Waiting(l, bx))
            /\ \A d \in M!Dirs :
                 c.about = d /\ c.value # M!Resolve(l, base, d).id /\ ~ c.late => Tree(Waiting(l, bx), d)
        BY <1>1, <1>2, <2>2 DEF Doubted, c
      <3>3. n.memo # Nil /\ n.memo.stamp # M!Seen(l, base) /\ ~ n.memo.late => AnyPath(Way(n, l, bx))
        <4>1. CASE c.about = Leaf
          <5> QED BY <3>1, <3>2, <4>1, <1>4, <1>6
        <4>2. CASE c.about # Leaf
          <5>1. n.memo = IF c.said # M!Nothing THEN Nil ELSE k.memo
            BY <1>3, <1>4, <1>6, <4>2
          <5> QED BY <3>1, <3>2, <5>1 DEF AnyPath
        <4> QED BY <4>1, <4>2
      <3>4. ASSUME NEW d \in M!Dirs,
                   n.seeded[d] # Nil /\ n.seeded[d].id # M!Resolve(l, base, d).id /\ ~ n.seeded[d].late
            PROVE  Tree(Way(n, l, bx), d)
        <4>1. CASE c.about = d
          <5>1. n.seeded[d].id = c.value /\ n.seeded[d].late = c.late
            BY <1>4, <1>6, <4>1
          <5> QED BY <3>1, <3>2, <3>4, <4>1, <5>1
        <4>2. CASE c.about # d
          <5>1. ~ (\E t \in c.said.trees : M!IsPrefix(t, d)) /\ n.seeded[d] = k.seeded[d]
            BY <3>4, <1>3, <1>4, <1>6, <4>2
          <5> QED BY <3>1, <3>2, <3>4, <5>1 DEF Tree
        <4> QED BY <4>1, <4>2
      <3> QED BY <1>5, <1>6, <3>3, <3>4 DEF Doubted
    <2> QED BY <2>1, <2>2
  <1> QED BY <1>1, <1>2, <1>6, <1>7, <1>8, WorkerKept

LEMMA HearsKept ==
  ASSUME MountsInv, NEW v \in M!Workers, M!Hears(v) PROVE MountsInv'
  <1> DEFINE l == layers[v]
             k == workers[v]
             bx == box[v]
             x == Head(bx)
             ax == Tail(bx)
             n == IF x.kind = "mounts" THEN [k EXCEPT !.snapshot = x.list] ELSE M!Applied(k, x.said)
             z == Len(bx)
  <1>1. /\ l \in Layer /\ k \in Worker /\ bx \in Seq(Message) /\ made \in Nat /\ asked \in Nat
        /\ Informed(k, l, bx, base) /\ Doubted(k, l, bx, base)
        /\ layers \in [M!Workers -> Layer] /\ box \in [M!Workers -> Seq(Message)] /\ workers \in [M!Workers -> Worker]
    BY StateIs
  <1>2. /\ bx # <<>> /\ k.call.at = "none"
        /\ workers' = [workers EXCEPT ![v] = n] /\ layers' = [layers EXCEPT ![v] = l]
        /\ box' = [box EXCEPT ![v] = ax] /\ base' = base /\ made' \in Nat /\ asked' \in Nat
    BY <1>1 DEF M!Hears
  <1> HIDE DEF l, k, bx, z
  <1>3. x \in Message /\ x = bx[1] /\ ax \in Seq(Message) /\ Len(ax) = z - 1
    BY <1>1, <1>2, HeadTailProperties DEF z
  <1>4. \A i \in 1 .. Len(ax) : ax[i] = bx[i + 1]
    BY <1>1, <1>2, HeadTailProperties
  <1>5. z \in Nat /\ z # 0 /\ DOMAIN bx = 1 .. z /\ DOMAIN ax = 1 .. (z - 1)
    <2> QED BY <1>1, <1>3, <1>2, EmptySeq, LenProperties DEF z
  <1> HIDE DEF ax, x
  <1>6. /\ \A i \in 1 .. (z - 1) : i + 1 \in 1 .. z /\ ax[i] = bx[i + 1]
        /\ 1 \in 1 .. z /\ \A i \in 1 .. z : i # 1 => i - 1 \in 1 .. (z - 1) /\ bx[i] = ax[i - 1]
    <2>1. \A i \in 1 .. (z - 1) : i + 1 \in 1 .. z /\ ax[i] = bx[i + 1]
      BY <1>3, <1>4, <1>5
    <2>2. ASSUME NEW i \in 1 .. z, i # 1 PROVE i - 1 \in 1 .. (z - 1) /\ bx[i] = ax[i - 1]
      <3>1. i - 1 \in 1 .. (z - 1) /\ (i - 1) + 1 = i
        BY <1>5, <2>2
      <3> QED BY <3>1, <2>1
    <2> QED BY <1>5, <2>1, <2>2
  <1>7. Heard(bx) \subseteq Heard(ax) \cup (IF x.kind = "reply" THEN {x.said} ELSE {})
    <2> SUFFICES ASSUME NEW y \in Heard(bx) PROVE y \in Heard(ax) \cup (IF x.kind = "reply" THEN {x.said} ELSE {})
      OBVIOUS
    <2>1. PICK i \in DOMAIN bx : bx[i].kind = "reply" /\ y = bx[i].said
      BY DEF Heard
    <2>2. CASE i = 1
      BY <1>3, <2>1, <2>2
    <2>3. CASE i # 1
      <3> DEFINE j == i - 1
      <3>1. j \in DOMAIN ax /\ ax[j].kind = "reply" /\ y = ax[j].said
        BY <2>1, <1>5, <1>6, <2>3
      <3> HIDE DEF j
      <3> QED BY <3>1 DEF Heard
    <2> QED BY <2>2, <2>3
  \* What was after the head is as it was, whatever the head told.
  <1>8. ASSUME NEW i \in DOMAIN ax, ax[i].kind = "mounts", \A j \in DOMAIN ax : j > i => ax[j].kind # "mounts"
        PROVE  ax[i].list = M!List(l, base)
    <2> DEFINE p == i + 1
    <2>1. p \in DOMAIN bx /\ bx[p] = ax[i] /\ p > 1
      BY <1>5, <1>6, <1>8
    <2>2. \A j \in DOMAIN bx : j > p => bx[j].kind # "mounts"
      <3> TAKE j \in DOMAIN bx
      <3> HAVE j > p
      <3>1. j # 1 /\ j - 1 > i
        BY <1>5, <1>8
      <3>2. j - 1 \in DOMAIN ax /\ bx[j] = ax[j - 1]
        BY <1>5, <1>6, <3>1
      <3> QED BY <1>8, <3>1, <3>2
    <2> HIDE DEF p
    <2> QED BY <2>1, <1>1, <1>8, <2>2 DEF Informed
  <1>9. \A j \in DOMAIN bx : j # 1 => j - 1 \in DOMAIN ax /\ bx[j] = ax[j - 1]
    BY <1>5, <1>6
  <1>10. ~ k.up => \A i \in DOMAIN ax : ax[i].kind # "mounts"
    <2> SUFFICES ASSUME ~ k.up, NEW i \in DOMAIN ax PROVE ax[i].kind # "mounts"
      OBVIOUS
    <2>1. i + 1 \in DOMAIN bx /\ ax[i] = bx[i + 1]
      BY <1>5, <1>6
    <2> DEFINE j == i + 1
    <2> HIDE DEF j
    <2> QED BY <1>1, <2>1 DEF Informed
  <1>11. CASE x.kind = "mounts"
    <2>1. n = [k EXCEPT !.snapshot = x.list]
      BY <1>11
    <2> HIDE DEF n
    <2>2. n \in Worker
      BY <1>1, <1>3, <1>11, <2>1 DEF Worker, Message
    <2>3. n.up = k.up /\ n.snapshot = x.list /\ n.lost = k.lost /\ n.call = k.call
      BY <1>1, <2>1 DEF Worker
    <2>4. (\A i \in DOMAIN ax : ax[i].kind # "mounts") => x.list = M!List(l, base)
      <3> HAVE \A i \in DOMAIN ax : ax[i].kind # "mounts"
      <3>1. ASSUME NEW j \in DOMAIN bx, j > 1 PROVE bx[j].kind # "mounts"
        <4>1. j - 1 \in DOMAIN ax /\ bx[j] = ax[j - 1]
          BY <1>9, <1>5, <3>1
        <4> QED BY <4>1
      <3> QED BY <1>1, <1>3, <1>5, <1>6, <1>11, <3>1 DEF Informed
    <2>5. Informed(n, l, ax, base)
      BY <1>8, <1>10, <2>3, <2>4 DEF Informed
    <2>6. Way(k, l, bx) \subseteq Way(n, l, ax)
      BY <1>7, <1>11, <2>3 DEF Way, Waiting
    <2>7. AnyPath(Way(k, l, bx)) => AnyPath(Way(n, l, ax))
      BY <2>6 DEF AnyPath
    <2>8. \A d : Tree(Way(k, l, bx), d) => Tree(Way(n, l, ax), d)
      BY <2>6 DEF Tree
    <2>9. Doubted(n, l, ax, base)
      BY <1>1, <1>2, <2>3, <2>1, <2>7, <2>8 DEF Doubted, Worker
    <2> QED BY <1>1, <1>2, <1>3, <2>2, <2>5, <2>9, WorkerKept
  <1>12. CASE x.kind # "mounts"
    <2> DEFINE y == x.said
    <2>1. x.kind = "reply" /\ y \in Saying
      BY <1>3, <1>12 DEF Message
    <2>2. n = M!Applied(k, y)
      BY <1>12
    <2> HIDE DEF n, y
    <2>3. /\ n \in Worker /\ n.up = k.up /\ n.snapshot = k.snapshot /\ n.lost = k.lost /\ n.call = k.call
          /\ n.memo = IF y # M!Nothing THEN Nil ELSE k.memo
          /\ \A d \in M!Dirs : n.seeded[d] = IF \E t \in y.trees : M!IsPrefix(t, d) THEN Nil ELSE k.seeded[d]
      BY <1>1, <2>1, <2>2, AppliedIs
    <2>4. (\A i \in DOMAIN ax : ax[i].kind # "mounts") /\ k.up => k.snapshot = M!List(l, base)
      <3> HAVE (\A i \in DOMAIN ax : ax[i].kind # "mounts") /\ k.up
      <3>1. ASSUME NEW j \in DOMAIN bx PROVE bx[j].kind # "mounts"
        <4>1. CASE j = 1
          BY <1>3, <1>12, <4>1
        <4>2. CASE j # 1
          <5> QED BY <1>9, <4>2
        <4> QED BY <4>1, <4>2
      <3> QED BY <1>1, <3>1 DEF Informed
    <2>5. Way(k, l, bx) \subseteq Way(n, l, ax) \cup {y}
      BY <1>7, <2>1, <2>3 DEF Way, Waiting, y
    <2>6. \A d : ~ (\E t \in y.trees : M!IsPrefix(t, d)) /\ Tree(Way(k, l, bx), d) => Tree(Way(n, l, ax), d)
      BY <2>5 DEF Tree
    <2>7. Doubted(n, l, ax, base)
      BY <1>1, <1>2, <2>3, <2>5, <2>6 DEF Doubted, AnyPath
    <2> QED BY <1>1, <1>2, <1>3, <2>3, <1>8, <1>10, <2>4, <2>7, WorkerKept DEF Informed
  <1> QED BY <1>11, <1>12

LEMMA MountsKeep ==
  ASSUME MountsInv, M!Next PROVE MountsInv'
  <1>1. ASSUME NEW q \in Points, M!BaseMount(q) \/ M!BaseUnmount(q) PROVE MountsInv'
    BY <1>1, BaseKept
  <1>2. CASE M!Write
    <2>1. M!Makes /\ M!Written /\ workers' = workers /\ box' = box /\ asked' = asked
      BY <1>2 DEF M!Write
    <2>2. workers \in [M!Workers -> Worker]
      BY StateIs
    <2> QED BY <2>1, <2>2, WrittenKept DEF Alike, Answered
  <1>3. ASSUME NEW v \in M!Workers, NEW q \in Points, M!LocalMount(v, q) \/ M!LocalUnmount(v, q) \/ M!Replace(v, q)
        PROVE  MountsInv'
    BY <1>3, MountKept
  <1>4. ASSUME NEW v \in M!Workers, M!AddVirtualFile(v) \/ M!RemoveVirtualFile(v) PROVE MountsInv'
    BY <1>4, FileKept
  <1>5. ASSUME NEW v \in M!Workers, NEW from \in M!Workers \cup {Nil}, M!Starts(v, from) PROVE MountsInv'
    BY <1>5, StartsKept
  <1>6. ASSUME NEW v \in M!Workers, M!CopyLocalTo(v) PROVE MountsInv'
    BY <1>6, CopyKept
  <1>7. ASSUME NEW v \in M!Workers, NEW p \in M!Dirs \cup {Leaf, M!Writing}, M!Asks(v, p) PROVE MountsInv'
    BY <1>7, AsksKept
  <1>8. ASSUME NEW v \in M!Workers, M!Performs(v) \/ M!Replies(v) PROVE MountsInv'
    BY <1>8, PerformsKept, RepliesKept
  <1>9. ASSUME NEW v \in M!Workers, M!Again(v) \/ M!GivesUp(v) PROVE MountsInv'
    BY <1>9, AgainKept, GivesUpKept
  <1>10. ASSUME NEW v \in M!Workers, M!RepliesLater(v) \/ M!Arrives(v) \/ M!Hears(v) PROVE MountsInv'
    BY <1>10, RepliesLaterKept, ArrivesKept, HearsKept
  <1> QED BY <1>1, <1>2, <1>3, <1>4, <1>5, <1>6, <1>7, <1>8, <1>9, <1>10 DEF M!Next

LEMMA MountsBegin == Init => MountsInv
  <1> SUFFICES ASSUME Init PROVE MountsInv
    OBVIOUS
  <1> DEFINE l == [mounts |-> [q \in Points |-> Nil], file |-> Nil, paths |-> FALSE, trees |-> {}]
             k == [up |-> FALSE, snapshot |-> {}, heirOf |-> Nil, lost |-> FALSE, memo |-> Nil,
                   seeded |-> [d \in M!Dirs |-> Nil], call |-> M!Idle]
  <1>1. /\ base = [q \in M!Roots |-> IF q = <<>> THEN [id |-> 0, stamp |-> 0] ELSE Nil]
        /\ layers = [v \in M!Workers |-> l] /\ workers = [v \in M!Workers |-> k]
        /\ box = [v \in M!Workers |-> <<>>] /\ made = 0 /\ asked = 0
    BY DEF Init, M!Init
  <1>2. l \in Layer
    BY DEF Layer
  <1>3. k \in Worker
    BY IdleIs DEF Worker
  <1>4. k.up = FALSE /\ k.memo = Nil /\ k.call.at = "none" /\ \A d \in M!Dirs : k.seeded[d] = Nil
    BY IdleIs
  <1>5. base \in Table
    <2>1. [id |-> 0, stamp |-> 0] \in Stamped
      BY DEF Stamped
    <2> QED BY <1>1, <2>1, FileSystemAssumption, PlacesAre DEF Table, Stamped
  <1> HIDE DEF l, k
  <1>6. <<>> \in Seq(Message) /\ DOMAIN <<>> = {}
    OBVIOUS
  <1>7. Informed(k, l, <<>>, base)
    BY <1>4, <1>6 DEF Informed
  <1>8. Doubted(k, l, <<>>, base)
    BY <1>4 DEF Doubted
  <1> QED BY <1>1, <1>2, <1>3, <1>5, <1>6, <1>7, <1>8 DEF MountsInv

LEMMA MountsAgree ==
  ASSUME MountsInv PROVE M!SnapshotAgrees /\ M!NoneStale
  <1>1. ASSUME NEW v \in M!Workers, workers[v].up, \A i \in DOMAIN box[v] : box[v][i].kind # "mounts",
               NEW p \in M!Queries
        PROVE  M!MountFor(workers[v].snapshot, p) = M!Resolve(layers[v], base, p).id
    <2>1. layers[v] \in Layer /\ Informed(workers[v], layers[v], box[v], base) /\ p \in Steps
      BY StateIs, PlacesAre
    <2>2. workers[v].snapshot = M!List(layers[v], base)
      BY <1>1, <2>1 DEF Informed
    <2> QED BY StateIs, <2>1, <2>2, ToldIsServed
  <1>2. ASSUME NEW v \in M!Workers
        PROVE  LET k == workers[v]
               IN  \/ k.lost
                   \/ /\ k.memo # Nil /\ k.memo.stamp # M!Seen(layers[v], base) /\ ~ k.memo.late =>
                           M!OnTheWay(v) \ {M!Nothing} # {}
                      /\ \A d \in M!Dirs :
                           k.seeded[d] # Nil /\ k.seeded[d].id # M!Resolve(layers[v], base, d).id /\ ~ k.seeded[d].late =>
                             \E said \in M!OnTheWay(v) : \E t \in said.trees : M!IsPrefix(t, d)
    <2>1. M!OnTheWay(v) = Way(workers[v], layers[v], box[v])
      BY DEF M!OnTheWay, Way, Waiting, Heard
    <2>2. AnyPath(Way(workers[v], layers[v], box[v])) => M!OnTheWay(v) \ {M!Nothing} # {}
      BY <2>1 DEF AnyPath
    <2> QED BY StateIs, <2>1, <2>2 DEF Doubted, Tree
  <1>3. M!NoneStale
    BY <1>2 DEF M!NoneStale
  <1> QED BY <1>1, <1>3 DEF M!SnapshotAgrees

-----------------------------------------------------------------------------

\* Across layers and mounts a listing names what a stat of each name finds: the trees are trees,
\* and a listing takes the upper layer's entry where both have one, and the mounts below it.  A
\* worker that has heard every snapshot has each path in the mount that serves it, and what it
\* concluded before a change is doubted by something on its way to it (facade.ts readdir, union.ts
\* readdir, mounts.ts resolve, index.ts drainInvalidations, transport.ts applyMountSnapshot).
THEOREM ListingsHold == Spec => []ListingsAgree
  <1>1. Init => NameInv /\ MountsInv
    BY NamesBegin, MountsBegin
  <1>2. (NameInv /\ MountsInv) /\ [Next]_vars => (NameInv /\ MountsInv)'
    <2> SUFFICES ASSUME NameInv, MountsInv, [Next]_vars PROVE NameInv' /\ MountsInv'
      OBVIOUS
    <2>1. UNCHANGED names => NameInv'
      <3> SUFFICES ASSUME UNCHANGED names PROVE NameInv'
        OBVIOUS
      <3>1. s' = s /\ mount' = mount /\ call' = call
        BY DEF names
      <3> QED BY <3>1 DEF NameInv, MountOk, Trees, Treelike, Shallow, CallOk, Serving, N!NoCall
    <2>2. UNCHANGED mounts => MountsInv'
      <3> SUFFICES ASSUME UNCHANGED mounts PROVE MountsInv'
        OBVIOUS
      <3> QED BY StateIs DEF MountsInv, Table, M!Roots, mounts
    <2>3. M!Next => MountsInv'
      BY MountsKeep
    <2>4. \/ N!Next /\ UNCHANGED mounts
          \/ M!Next /\ UNCHANGED names
          \/ UNCHANGED names /\ UNCHANGED mounts
      BY DEF Next, Part, vars
    <2> QED BY <2>1, <2>2, NamesKeep, <2>3, <2>4
  <1>3. NameInv /\ MountsInv => ListingsAgree
    BY NamesAgree, MountsAgree DEF ListingsAgree, NameInv
  <1> QED BY <1>1, <1>2, <1>3, PTL DEF Spec

-----------------------------------------------------------------------------
(* What is mounted read-only *)

Three(x) == x = [O |-> x.O, L |-> x.L, M |-> x.M]

\* A call of a provider leaves three trees, and what is read-only as it was.
Spares(res) == Three(res.s) /\ (mount.readOnly => res.s.M = s.M)

LEMMA DoesSpares ==
  ASSUME Three(s), NEW res
  PROVE  /\ Spares(N!Does("O", res)) /\ Spares(N!Does("L", res))
         /\ ~ mount.readOnly => Spares(N!Does("M", res))
         /\ \A e, v : Spares(N!Answer(e, v))
         /\ Spares([N!Does("L", res) EXCEPT !.err = "io"])
  <1>1. /\ [s EXCEPT !["O"] = res.t] = [O |-> res.t, L |-> s.L, M |-> s.M]
        /\ [s EXCEPT !["L"] = res.t] = [O |-> s.O, L |-> res.t, M |-> s.M]
        /\ [s EXCEPT !["M"] = res.t] = [O |-> s.O, L |-> s.L, M |-> res.t]
    <2> DEFINE a == s.O
               b == s.L
               c == s.M
    <2>1. s = [O |-> a, L |-> b, M |-> c]
      BY DEF Three
    <2> HIDE DEF a, b, c
    <2>2. [s EXCEPT !["O"] = res.t] = [O |-> res.t, L |-> b, M |-> c]
      BY ONLY <2>1
    <2>3. [s EXCEPT !["L"] = res.t] = [O |-> a, L |-> res.t, M |-> c]
      BY ONLY <2>1
    <2>4. [s EXCEPT !["M"] = res.t] = [O |-> a, L |-> b, M |-> res.t]
      BY ONLY <2>1
    <2> QED BY <2>2, <2>3, <2>4 DEF a, b, c
  <1>2. /\ N!Does("O", res).s = [O |-> res.t, L |-> s.L, M |-> s.M]
        /\ N!Does("L", res).s = [O |-> s.O, L |-> res.t, M |-> s.M]
        /\ N!Does("M", res).s = [O |-> s.O, L |-> s.L, M |-> res.t]
        /\ [N!Does("L", res) EXCEPT !.err = "io"].s = N!Does("L", res).s
    BY <1>1 DEF N!Does
  <1>3. ~ mount.readOnly => Spares(N!Does("M", res))
    BY <1>2 DEF Spares, Three
  <1>4. \A e, v : Spares(N!Answer(e, v))
    BY DEF Spares, N!Answer
  <1>5. Spares([N!Does("L", res) EXCEPT !.err = "io"])
    BY <1>2 DEF Spares, Three
  <1> QED BY <1>2, <1>3, <1>4, <1>5 DEF Spares, Three

LEMMA LayersSpare ==
  ASSUME Three(s), NEW m, NEW res
  PROVE  /\ \A x \in N!Upper(res) : Spares(x)
         /\ \A x \in N!Lower(m, res) : Spares(x)
         /\ \A S : (\A x \in S : Spares(x)) => \A x \in N!Allowed(m, S) : Spares(x)
  <1>1. ASSUME NEW x \in N!Lower(m, res) PROVE Spares(x)
    <2>1. CASE m.low = "M"
      <3> QED BY <1>1, <2>1, DoesSpares DEF N!Lower
    <2>2. CASE m.low # "M"
      <3> QED BY <1>1, <2>2, DoesSpares DEF N!Lower
    <2> QED BY <2>1, <2>2
  <1>2. ASSUME NEW S, \A x \in S : Spares(x) PROVE \A x \in N!Allowed(m, S) : Spares(x)
    BY <1>2, DoesSpares DEF N!Allowed
  <1> QED BY DoesSpares, <1>1, <1>2 DEF N!Upper

\* Each call of the facade.
LEMMA CallsSpare ==
  ASSUME Three(s), NEW m, NEW p
  PROVE  /\ \A d : \A x \in N!Write(m, p, d) : Spares(x)
         /\ \A f : \A x \in N!Mkdir(m, p, f) : Spares(x)
         /\ \A f, g : \A x \in N!Rm(m, p, f, g) : Spares(x)
         /\ \A q : \A x \in N!Rename(m, p, q) : Spares(x)
  <1> DEFINE l == N!Local(m, p)
  <1>1. ASSUME NEW d, NEW x \in N!Write(m, p, d) PROVE Spares(x)
    <2> DEFINE S == IF N!InUp(m, p) THEN N!Upper(N!WriteTo(s.O, p, d))
                    ELSE N!Lower(m, N!WriteTo(s[m.low], l, d))
    <2>1. \A y \in S : Spares(y)
      BY LayersSpare
    <2> HIDE DEF S
    <2> QED BY <1>1, <2>1, LayersSpare DEF N!Write
  <1>2. ASSUME NEW f, NEW x \in N!Mkdir(m, p, f) PROVE Spares(x)
    <2> DEFINE S == IF N!InUp(m, p) THEN N!Upper(N!MkdirIn(s.O, p, f))
                    ELSE N!Lower(m, N!MkdirIn(s[m.low], l, f))
    <2>1. \A y \in S : Spares(y)
      BY LayersSpare
    <2> HIDE DEF S
    <2> QED BY <1>2, <2>1, LayersSpare DEF N!Mkdir
  <1>3. ASSUME NEW q, NEW x \in N!Rename(m, p, q) PROVE Spares(x)
    <2> DEFINE S == IF N!InUp(m, p) THEN N!Upper(N!RenameIn(s.O, p, q))
                    ELSE N!Lower(m, N!RenameIn(s[m.low], l, N!Local(m, q)))
    <2>1. \A y \in S : Spares(y)
      BY LayersSpare
    <2> HIDE DEF S
    <2> QED BY <1>3, <2>1, LayersSpare DEF N!Rename
  <1>4. ASSUME NEW f, NEW g, NEW x \in N!Rm(m, p, f, g) PROVE Spares(x)
    <2> DEFINE below == N!Lower(m, N!RmFrom(s[m.low], l, f, g))
               S == IF N!InUp(m, p) THEN N!Upper(N!RmFrom(s.O, p, f, g))
                    ELSE IF m.up /\ s[m.low][l] = N!None
                    THEN {N!Answer(IF g THEN "ok" ELSE "missing", N!None)}
                    ELSE IF m.low = "L" /\ g THEN {[z EXCEPT !.err = "ok"] : z \in below} ELSE below
    <2>1. x \in N!Allowed(m, S)
      BY <1>4 DEF N!Rm
    <2>2. \A y \in below : Spares(y)
      BY LayersSpare
    <2>3. Spares(N!Answer(IF g THEN "ok" ELSE "missing", N!None))
      BY DoesSpares
    <2>4. \A y \in {[z EXCEPT !.err = "ok"] : z \in below} : Spares(y)
      <3>1. ASSUME NEW z \in below PROVE Spares([z EXCEPT !.err = "ok"])
        <4>1. [z EXCEPT !.err = "ok"].s = z.s
          BY DEF N!Lower, N!Answer, N!Does
        <4> QED BY <2>2, <4>1 DEF Spares
      <3> QED BY <3>1
    <2> HIDE DEF below
    <2>5. \A y \in S : Spares(y)
      BY <2>2, LayersSpare, <2>3, <2>4
    <2> HIDE DEF S
    <2> QED BY <2>1, <2>5, LayersSpare
  <1> QED BY <1>1, <1>2, <1>3, <1>4

\* A call that is one step of a provider is one of five.
Fields == {"op", "from", "to", "flag", "src", "dst", "err", "pc", "got", "todo", "had", "hidden", "twice", "alone"}

Called(c) ==
  /\ DOMAIN c = Fields
  /\ c.pc = "do" => c.op \in {"writeFile", "mkdir", "rm", "rename", "copyFile"}

SpareInv == Three(s) /\ (call = N!NoCall \/ Called(call))

LEMMA CallGoesOn ==
  ASSUME Called(call)
  PROVE  /\ \A e : Called(N!Ends(e))
         /\ \A e : e # "do" => Called(N!Goto(e))
         /\ \A v : Called([call EXCEPT !.got = v, !.pc = "write"])
         /\ \A d : Called(N!Next1([call EXCEPT !.todo = d]))
         /\ Called(N!Next1(call))
         /\ Called([call EXCEPT !.alone = FALSE, !.had = N!None, !.hidden = FALSE, !.twice = FALSE])
  <1>1. \A e : Called(N!Ends(e))
    BY DEF Called, Fields, N!Ends
  <1>2. \A v : Called([call EXCEPT !.got = v, !.pc = "write"])
    BY DEF Called, Fields
  <1>3. ASSUME NEW d PROVE Called(N!Next1([call EXCEPT !.todo = d]))
    <2> DEFINE c == [call EXCEPT !.todo = d]
    <2>1. Called(c)
      BY DEF Called, Fields
    <2> HIDE DEF c
    <2>2. Called([c EXCEPT !.todo = Tail(@), !.pc = "stat", !.got = <<>>])
      BY <2>1 DEF Called, Fields
    <2> QED BY <1>1, <2>2 DEF c, N!Next1
  <1>4. Called(N!Next1(call))
    BY <1>1 DEF N!Next1, Called, Fields
  <1>5. Called([call EXCEPT !.alone = FALSE, !.had = N!None, !.hidden = FALSE, !.twice = FALSE])
    BY DEF Called, Fields
  <1> QED BY <1>1, <1>2, <1>3, <1>4, <1>5 DEF Called, Fields, N!Goto

\* What a step of the program, or another call, does.
Spared ==
  /\ Three(s') /\ (mount.readOnly => s'.M = s.M)

LEMMA StepSpares ==
  ASSUME SpareInv, N!Begin \/ N!Step \/ N!Other
  PROVE  SpareInv' /\ Spared
  <1> USE DEF SpareInv
  <1>1. \A x : Spares(x) /\ s' = x.s => Spared
    BY DEF Spares, Spared, Three
  <1>2. s' = s => Spared
    BY DEF Spared, Three
  <1>3. ASSUME N!Busy PROVE call # N!NoCall /\ Called(call)
    <2> QED BY <1>3 DEF N!Busy, N!NoCall
  <1>4. CASE N!Begin
    <2>1. PICK op \in {"writeFile", "append", "truncate", "mkdir", "rm", "rename", "copyFile", "cp"},
               from, to \in N!Paths \ {<<>>}, flag \in BOOLEAN :
         /\ op \in {"writeFile", "append", "truncate", "mkdir", "rm"} => to = from
         /\ op \in {"writeFile", "append", "rename"} => flag
         /\ op = "cp" \/ (op = "rename" /\ N!StatOf(from).kind = "dir") => Len(to) = Len(from)
         /\ op = "rename" => from = to \/ ~ N!Under(from, to)
         /\ LET m == N!Resolve(from)
                ro == op \in {"rename", "copyFile"} /\ mount.readOnly /\
                      \E x \in {m, N!Resolve(to)} :
                        x.low = "M" /\ ~ x.up /\ (op = "rename" \/ x = N!Resolve(to))
            IN  call' = [op |-> op, from |-> from, to |-> to, flag |-> flag, src |-> m,
                         dst |-> N!Resolve(to), err |-> IF ro THEN "rofs" ELSE "ok",
                         pc |-> IF ro THEN "done" ELSE N!First(op, m, to, flag),
                         got |-> <<>>, todo |-> IF op = "cp" THEN <<<<from, to>>>> ELSE <<>>,
                         had |-> N!StatOf(from),
                         hidden |-> N!InUp(N!Resolve(to), to) /\ ~ N!InUp(m, from),
                         twice |-> N!InUp(m, from) /\ s[m.low][N!Local(m, from)] # N!None,
                         alone |-> TRUE]
      BY <1>4 DEF N!Begin
    <2>2. N!First(op, N!Resolve(from), to, flag) = "do"
            => op \in {"writeFile", "mkdir", "rm", "rename", "copyFile"}
      BY DEF N!First
    <2>3. Called(call')
      BY <2>1, <2>2 DEF Called, Fields
    <2> QED BY <1>2, <1>4, <2>3 DEF Three, N!Begin
  <1>5. CASE N!Step
    <2>1. CASE N!Do
      <3>1. Called(call) /\ call.pc = "do"
        BY <1>3, <2>1 DEF N!Do
      <3>2. PICK x \in N!Simple : s' = x.s /\ call' = N!Ends(x.err)
        BY <2>1 DEF N!Do
      <3>3. Spares(x)
        <4>1. CASE call.op = "writeFile"
          <5> QED BY <3>2, <4>1, CallsSpare DEF N!Simple
        <4>2. CASE call.op = "mkdir"
          <5> QED BY <3>2, <4>2, CallsSpare DEF N!Simple
        <4>3. CASE call.op = "rm"
          <5> QED BY <3>2, <4>3, CallsSpare DEF N!Simple
        <4>4. CASE call.op = "rename"
          <5> QED BY <3>2, <4>4, CallsSpare DEF N!Simple
        <4>5. CASE call.op = "copyFile"
          <5> QED BY <3>2, <4>5, LayersSpare DEF N!Simple
        <4> QED BY <3>1, <4>1, <4>2, <4>3, <4>4, <4>5 DEF Called
      <3>4. Spared
        BY <1>1, <3>2, <3>3
      <3> QED BY <3>1, <3>2, CallGoesOn, <3>4 DEF Spared, Three
    <2>2. CASE N!Stat
      <3>1. Called(call) /\ s' = s
        BY <1>3, <2>2 DEF N!Stat
      <3>2. PICK x \in N!Look(N!From) :
              call' = IF x.err # "ok" THEN N!Ends(x.err)
                      ELSE IF call.op = "rename"
                      THEN IF x.val.kind = "dir" THEN N!Ends("xdev") ELSE N!Goto("read")
                      ELSE IF x.val.kind = "file" THEN N!Goto("exists")
                      ELSE IF call.flag THEN N!Goto("mkdir") ELSE N!Ends("isdir")
        BY <2>2 DEF N!Stat
      <3>3. Called(call')
        BY <3>1, <3>2, CallGoesOn
      <3> QED BY <1>2, <3>1, <3>3 DEF Three
    <2>3. CASE N!CpMkdir
      <3>1. Called(call)
        BY <1>3, <2>3 DEF N!CpMkdir
      <3>2. PICK x \in N!Mkdir(N!Target, N!To, TRUE) :
              s' = x.s /\ call' = IF x.err # "ok" THEN N!Ends(x.err) ELSE N!Goto("list")
        BY <2>3 DEF N!CpMkdir
      <3>3. Called(call')
        BY <3>1, <3>2, CallGoesOn
      <3> QED BY <3>3, <1>1, <3>2, CallsSpare DEF Spared, Three
    <2>4. CASE N!CpList
      <3>1. Called(call) /\ s' = s
        BY <1>3, <2>4 DEF N!CpList
      <3>2. (\E d : call' = N!Next1([call EXCEPT !.todo = d])) \/ \E e : call' = N!Ends(e)
        <4> DEFINE kids == N!SetToSeq({N!Last(e.path) : e \in N!ListOf(N!From)})
                   pairs == [i \in 1 .. Len(kids) |-> <<Append(N!From, kids[i]), Append(N!To, kids[i])>>]
                   d == <<Head(call.todo)>> \o pairs \o Tail(call.todo)
        <4>1. [call EXCEPT !.todo = <<Head(@)>> \o pairs \o Tail(@)] = [call EXCEPT !.todo = d]
          OBVIOUS
        <4> HIDE DEF d, pairs, kids
        <4> QED BY <2>4, <4>1 DEF N!CpList
      <3> QED BY <1>2, <3>1, <3>2, CallGoesOn DEF Three
    <2>5. CASE N!Exists
      <3>1. Called(call) /\ s' = s
        BY <1>3, <2>5 DEF N!Exists
      <3>2. Called(N!Goto("read"))
        BY <3>1, CallGoesOn
      <3>3. Called(call')
        BY <3>1, <2>5, <3>2, CallGoesOn DEF N!Exists
      <3> QED BY <1>2, <3>1, <3>3 DEF Three
    <2>6. CASE N!ReadAll
      <3>1. Called(call) /\ s' = s
        BY <1>3, <2>6 DEF N!ReadAll
      <3>2. Called(call')
        BY <3>1, <2>6, CallGoesOn DEF N!ReadAll
      <3> QED BY <1>2, <3>1, <3>2 DEF Three
    <2>7. CASE N!WriteAll
      <3>1. Called(call)
        BY <1>3, <2>7 DEF N!WriteAll
      <3>0. PICK d \in N!Rewritten : \E x \in N!Write(N!Target, N!To, d) :
              /\ s' = x.s
              /\ call' = IF x.err # "ok" THEN N!Ends(x.err)
                         ELSE IF call.op = "rename" THEN N!Goto("rm") ELSE N!Next1(call)
        BY <2>7 DEF N!WriteAll
      <3>2. PICK x \in N!Write(N!Target, N!To, d) :
              /\ s' = x.s
              /\ call' = IF x.err # "ok" THEN N!Ends(x.err)
                         ELSE IF call.op = "rename" THEN N!Goto("rm") ELSE N!Next1(call)
        BY <3>0
      <3>3. Called(call')
        BY <3>1, <3>2, CallGoesOn
      <3> QED BY <3>3, <1>1, <3>2, CallsSpare DEF Spared, Three
    <2>8. CASE N!RmSource
      <3>1. PICK x \in N!Rm(N!Source, N!From, FALSE, FALSE) : s' = x.s /\ call' = N!Ends(x.err)
        BY <2>8 DEF N!RmSource
      <3>2. Called(call')
        BY <1>3, <2>8, <3>1, CallGoesOn DEF N!RmSource
      <3> QED BY <3>2, <1>1, <3>1, CallsSpare DEF Spared, Three
    <2> QED BY <1>5, <2>1, <2>2, <2>3, <2>4, <2>5, <2>6, <2>7, <2>8 DEF N!Step
  <1>6. CASE N!Other
    <2>0. PICK p \in N!Paths : \E x \in N!Write(N!Resolve(p), p, N!New) \cup N!Rm(N!Resolve(p), p, TRUE, FALSE) :
            s' = x.s
      BY <1>6 DEF N!Other
    <2>1. PICK x \in N!Write(N!Resolve(p), p, N!New) \cup N!Rm(N!Resolve(p), p, TRUE, FALSE) : s' = x.s
      BY <2>0
    <2>2. call' = N!NoCall \/ Called(call')
      BY <1>3, <1>6, CallGoesOn DEF N!Other, N!Meddles
    <2> QED BY <1>1, <2>1, CallsSpare, <2>2 DEF Spared, Three, N!NoCall
  <1> QED BY <1>4, <1>5, <1>6

\* What the host does to the trees is not asked whether they are read-only.
LEMMA HostSpares ==
  ASSUME SpareInv, N!Host
  PROVE  SpareInv' /\ (s'.M # s.M => N!AddVirtualFile \/ N!RemoveVirtualFile \/ N!MountMemory)
  <1> USE DEF SpareInv
  <1>1. call' = N!NoCall \/ Called(call')
    <2>1. N!Busy => Called(call)
      BY DEF N!Busy, N!NoCall
    <2> QED BY <2>1, CallGoesOn DEF N!Host, N!AddVirtualFile, N!RemoveVirtualFile, N!MountMemory,
        N!UnmountMemory, N!Meddles
  <1>2. \A t, v : t \in {"O", "M"} => Three([s EXCEPT ![t] = v])
    <2> DEFINE a == s.O
               b == s.L
               c == s.M
    <2>1. s = [O |-> a, L |-> b, M |-> c]
      BY DEF Three
    <2> HIDE DEF a, b, c
    <2>2. \A v : [s EXCEPT !["O"] = v] = [O |-> v, L |-> b, M |-> c]
      BY ONLY <2>1
    <2>3. \A v : [s EXCEPT !["M"] = v] = [O |-> a, L |-> b, M |-> v]
      BY ONLY <2>1
    <2> QED BY <2>2, <2>3 DEF Three
  <1>3. \A p : N!Injected(p) \in {"O", "M"}
    BY DEF N!Injected
  <1>4. CASE N!AddVirtualFile
    <2> QED BY <1>1, <1>2, <1>4, <1>3 DEF Three, N!NoCall, N!AddVirtualFile
  <1>5. CASE N!RemoveVirtualFile
    <2>1. PICK p \in N!Paths \ {<<>>, <<Point>>} :
            s' = [s EXCEPT ![N!Injected(p)] =
                     N!Gone(@, IF N!Injected(p) = "O" THEN p ELSE N!Local(N!AtPoint, p))]
      BY <1>5 DEF N!RemoveVirtualFile
    <2>2. Three(s')
      <3>1. PICK t \in {"O", "M"} : \E v : s' = [s EXCEPT ![t] = v]
        BY <1>3, <2>1
      <3>2. PICK v : s' = [s EXCEPT ![t] = v]
        BY <3>1
      <3> QED BY <3>2, <1>2 DEF Three
    <2> QED BY <1>1, <1>5, <2>2 DEF Three, N!NoCall
  <1>6. CASE N!MountMemory
    <2> QED BY <1>1, <1>2, <1>6 DEF Three, N!NoCall, N!MountMemory
  <1>7. CASE N!UnmountMemory
    <2> QED BY <1>1, <1>7 DEF Three, N!NoCall, N!UnmountMemory
  <1> QED BY <1>4, <1>5, <1>6, <1>7 DEF N!Host

-----------------------------------------------------------------------------
(* A directory that is read-only: no call of its provider gets under way *)

StillInv ==
  how.readOnly =>
    /\ DOMAIN dcall = Callers
    /\ \A k \in Callers : DOMAIN dcall[k] = DOMAIN D!NoCall /\ dcall[k].pc \in {"idle", "done"}

LEMMA StillStep ==
  ASSUME StillInv, D!Next
  PROVE  StillInv' /\ (how.readOnly /\ tree' # tree => D!Tab)
  <1> USE DEF StillInv
  <1> DEFINE Still(c) == DOMAIN c = DOMAIN D!NoCall /\ c.pc \in {"idle", "done"}
  <1>1. how' = how
    <2>1. \A k \in Callers : D!Begin(k) => how' = how
      BY DEF D!Begin
    <2>2. \A k : D!Creates(k) \/ D!Locks(k) \/ D!Writes(k) \/ D!Probes(k) \/ D!Makes(k) => how' = how
      BY DEF D!Creates, D!Locks, D!Writes, D!Probes, D!Makes
    <2>3. \A k : D!Kind(k) \/ D!Removes(k) \/ D!Moves(k) \/ D!Bytes(k) \/ D!Looks(k) => how' = how
      BY DEF D!Kind, D!Removes, D!Moves, D!Bytes, D!Looks
    <2>4. \A k : D!Unlinks(k) \/ D!CopiesDir(k) \/ D!CopiesChild(k) \/ D!Copied(k) => how' = how
      BY DEF D!Unlinks, D!CopiesDir, D!CopiesChild, D!Copied
    <2>5. D!Tab \/ D!TabUnlocks => how' = how
      BY DEF D!Tab, D!TabUnlocks
    <2> QED BY <2>1, <2>2, <2>3, <2>4, <2>5 DEF D!Next, D!Does
  <1>2. DOMAIN D!NoCall = {"op", "from", "to", "flag", "pc", "err", "at", "bytes", "found", "todo", "was", "alone"}
        /\ D!NoCall.pc = "idle"
    BY DEF D!NoCall
  <1>3. ASSUME NEW c, Still(c) PROVE Still(D!Disturbed(c))
    <2>1. Still([c EXCEPT !.alone = FALSE, !.was = D!NoCall.was])
      BY <1>2, <1>3
    <2> QED BY <1>2, <2>1 DEF D!Disturbed, D!Over
  <1>4. SUFFICES ASSUME how.readOnly
                 PROVE  /\ DOMAIN dcall' = Callers /\ \A k \in Callers : Still(dcall'[k])
                        /\ tree' # tree => D!Tab
    BY <1>1
  <1>5. DOMAIN dcall = Callers /\ \A k \in Callers : Still(dcall[k])
    BY <1>4
  <1>6. ASSUME NEW k \in Callers PROVE ~ D!Does(k)
    <2>1. dcall[k].pc \in {"idle", "done"}
      BY <1>5
    <2> QED BY <2>1 DEF D!Does, D!Creates, D!Locks, D!Writes, D!Probes, D!Makes, D!Kind, D!Removes, D!Moves,
                D!Bytes, D!Looks, D!Unlinks, D!CopiesDir, D!CopiesChild, D!Copied
  <1> HIDE DEF Still
  <1>7. CASE D!Tab
    BY <1>3, <1>5, <1>7 DEF D!Tab
  <1>8. CASE D!TabUnlocks
    BY <1>5, <1>8 DEF D!TabUnlocks
  <1>9. ASSUME NEW k \in Callers, D!Begin(k)
         PROVE  DOMAIN dcall' = Callers /\ (\A j \in Callers : Still(dcall'[j])) /\ tree' = tree
    <2> DEFINE rest == [j \in Callers |-> D!Disturbed(dcall[j])]
    <2>1. \E c : Still(c) /\ dcall' = [rest EXCEPT ![k] = [c EXCEPT !.pc = "done", !.err = "readonly"]]
      <3>1. PICK op \in {"writeFile", "mkdir", "rm", "rename"}, from, to \in D!Paths \ {<<>>}, flag \in BOOLEAN :
              /\ dcall[k].pc = "idle"
              /\ op = "rename" \/ from = to
              /\ k \in Writers => op = "writeFile"
              /\ op = "rename" => from # to /\ Len(to) <= Len(from) /\ ~ flag
              /\ op = "writeFile" => ~ flag
              /\ LET new == [D!NoCall EXCEPT !.op = op, !.from = from, !.to = to, !.flag = flag, !.was = tree,
                                             !.at = to, !.bytes = k]
                     c == IF \E j \in Callers : D!Busy(j) THEN D!Disturbed(new) ELSE new
                     others0 == [j \in Callers |-> D!Disturbed(dcall[j])]
                 IN  IF D!Refused(op)
                     THEN dcall' = [others0 EXCEPT ![k] = [c EXCEPT !.pc = "done", !.err = "readonly"]] /\ UNCHANGED chain
                     ELSE /\ dcall' = [others0 EXCEPT ![k] = [c EXCEPT !.pc = D!FirstStep(op, flag)]]
                          /\ IF op = "writeFile" THEN D!Enqueue(k, to) ELSE UNCHANGED chain
              /\ UNCHANGED <<tree, lock, how, tabs>>
        BY <1>9 DEF D!Begin
      <3> DEFINE new == [D!NoCall EXCEPT !.op = op, !.from = from, !.to = to, !.flag = flag, !.was = tree,
                                         !.at = to, !.bytes = k]
      <3>2. Still(new)
        BY <1>2 DEF Still
      <3> HIDE DEF new
      <3>3. Still(IF \E j \in Callers : D!Busy(j) THEN D!Disturbed(new) ELSE new)
        BY <1>3, <3>2
      <3> QED BY <1>4, <3>1, <3>3 DEF new, D!Refused
    <2>2. PICK c : Still(c) /\ dcall' = [rest EXCEPT ![k] = [c EXCEPT !.pc = "done", !.err = "readonly"]]
      BY <2>1
    <2> DEFINE over == [c EXCEPT !.pc = "done", !.err = "readonly"]
    <2>3. Still(over)
      BY <1>2, <2>2 DEF Still
    <2> HIDE DEF over
    <2>4. DOMAIN rest = Callers /\ \A j \in Callers : Still(rest[j])
      BY <1>3, <1>5
    <2> HIDE DEF rest
    <2>5. dcall' = [rest EXCEPT ![k] = over]
      BY <2>2 DEF over
    <2> QED BY <1>9, <2>3, <2>4, <2>5 DEF D!Begin
  <1> QED BY <1>6, <1>7, <1>8, <1>9 DEF D!Next, D!TabUnlocks

-----------------------------------------------------------------------------

LEMMA KeptInit == Init => SpareInv /\ StillInv
  <1> SUFFICES ASSUME Init PROVE SpareInv /\ StillInv
    OBVIOUS
  <1>1. SpareInv
    <2>1. N!Init
      BY DEF Init
    <2>2. \E A, B, C : s \in [O : A, L : B, M : C]
      BY <2>1 DEF N!Init
    <2> QED BY <2>1, <2>2 DEF SpareInv, N!Init, Three
  <1>2. StillInv
    <2>1. dcall = [k \in Callers |-> D!NoCall]
      BY DEF D!Init, Init
    <2> QED BY <2>1 DEF StillInv, D!NoCall
  <1> QED BY <1>1, <1>2

\* What a step may do to the trees that are read-only.
ReadOnlyStep ==
  /\ mount.readOnly /\ s'.M # s.M => N!AddVirtualFile \/ N!RemoveVirtualFile \/ N!MountMemory
  /\ how.readOnly /\ tree' # tree => D!Tab

LEMMA KeptStep ==
  ASSUME SpareInv, StillInv, [Next]_vars
  PROVE  SpareInv' /\ StillInv' /\ ReadOnlyStep
  <1>1. UNCHANGED directory => StillInv' /\ tree' = tree
    BY DEF directory, StillInv, D!NoCall
  <1>2. N!Next => SpareInv' /\ (mount.readOnly /\ s'.M # s.M => N!AddVirtualFile \/ N!RemoveVirtualFile \/ N!MountMemory)
    BY StepSpares, HostSpares DEF N!Next, Spared
  <1>3. D!Next => StillInv' /\ (how.readOnly /\ tree' # tree => D!Tab)
    BY StillStep
  <1>4. \/ N!Next /\ UNCHANGED directory
        \/ D!Next /\ UNCHANGED names
        \/ UNCHANGED names /\ UNCHANGED directory
    BY DEF Next, Part, vars
  <1> QED BY <1>1, <1>2, <1>3, <1>4 DEF ReadOnlyStep, names, SpareInv, Called, Three, N!NoCall

\* No call of a program changes what is mounted read-only, through a layer or not: of the
\* memory mount each call of the facade ends in a refusal or in another tree, and of a
\* directory of the browser none gets under way (facade.ts #assertWritable, index.ts
\* #inheritMount, handle-dir.ts assertWritable).
THEOREM ReadOnlyKept == Spec => ReadOnlyHolds
  <1>1. Init => SpareInv /\ StillInv
    BY KeptInit
  <1>2. (SpareInv /\ StillInv) /\ [Next]_vars => (SpareInv /\ StillInv)'
    BY KeptStep
  <1>3. (SpareInv /\ StillInv) /\ [Next]_vars
          => /\ [mount.readOnly /\ s'.M # s.M => N!AddVirtualFile \/ N!RemoveVirtualFile \/ N!MountMemory]_(N!vars)
             /\ [how.readOnly /\ tree' # tree => D!Tab]_(D!vars)
    BY KeptStep DEF ReadOnlyStep
  <1> QED BY <1>1, <1>2, <1>3, PTL DEF Spec, ReadOnlyHolds, N!ReadOnlyHolds, D!ReadOnlyHolds
=============================================================================
