-------------------------- MODULE PuterStore_proofs --------------------------
(***************************************************************************)
(* What puterfs asks of the api, for any number of calls and other         *)
(* clients, any tree of finitely many paths, any horizon and any limits of *)
(* the transport.                                                          *)
(*                                                                         *)
(* A request is not performed before it is answered, and what is answered  *)
(* is not sent again (NetOK).  A rename carries what it saw of its         *)
(* destination, which holds until somebody else changes it (RenameOK).     *)
(*                                                                         *)
(* A listing is whole because, at every moment, what has stayed is handed  *)
(* out, or left of the request that is under way, or below a directory     *)
(* that waits; and these three have nothing in common (Rest).  A page      *)
(* moves paths from the second to the others: cursors compare where the    *)
(* request cuts a path, so that a directory at the horizon stands for      *)
(* what is below it (Cut, PageTrue).                                       *)
(***************************************************************************)
EXTENDS PuterStore, TLAPS, FiniteSetTheorems, SequenceTheorems, WellFoundedInduction

-----------------------------------------------------------------------------
(* Numbers and paths *)

\* Every set of numbers has a least one: by the finite intervals below them.
LEMMA LeastExists ==
  ASSUME NEW S \in SUBSET Nat, S # {}
  PROVE  \E x \in S : \A y \in S : x <= y
  <1> DEFINE Below1(k) == 0..(k - 1)
             T == {Below1(k) : k \in S}
             R == StrictSubsetOrdering(Nat)
  <1>1. T \subseteq FiniteSubsetsOf(Nat) /\ T # {}
    <2>1. \A k \in S : 0..(k - 1) \in FiniteSubsetsOf(Nat)
      <3> TAKE k \in S
      <3> QED BY FS_Interval DEF FiniteSubsetsOf
    <2> QED BY <2>1
  <1>2. IsWellFoundedOn(R, FiniteSubsetsOf(Nat))
    BY FS_StrictSubsetOrderingWellFounded
  <1> HIDE DEF R
  <1>3. PICK D \in T : \A E \in T : ~ (<<E, D>> \in R)
    BY <1>1, <1>2, WFMin
  <1>4. PICK k \in S : D = 0..(k - 1)
    BY <1>3
  <1>5. ASSUME NEW y \in S, y < k PROVE FALSE
    <2>1. y \in 0..(k - 1) /\ y \notin 0..(y - 1)
      BY <1>5
    <2>2. <<0..(y - 1), D>> \in R
      BY <1>4, <1>5, <2>1 DEF R, StrictSubsetOrdering
    <2> QED BY <1>3, <2>2
  <1> QED BY <1>5

Names == Seq(Int)

\* What a sequence begins with.
LEMMA Begins ==
  ASSUME NEW p \in Names, NEW n \in 0..Len(p)
  PROVE  /\ SubSeq(p, 1, n) \in Names /\ Len(SubSeq(p, 1, n)) = n
         /\ \A i \in 1..n : SubSeq(p, 1, n)[i] = p[i]
  <1>1. n \in Int /\ n \in Nat
    BY LenProperties DEF Names
  <1> QED BY LenProperties, <1>1, SubSeqProperties DEF Names

LEMMA SameItems ==
  ASSUME NEW p \in Names, NEW q \in Names, Len(p) = Len(q), \A i \in 1..Len(p) : p[i] = q[i]
  PROVE  p = q
BY SeqEqual DEF Names

\* What it has from a place on.
LEMMA TakenFrom ==
  ASSUME NEW p \in Names, NEW m \in Nat, m <= Len(p), NEW n \in m..Len(p)
  PROVE  /\ SubSeq(p, m + 1, n) \in Names /\ Len(SubSeq(p, m + 1, n)) = n - m
         /\ \A i \in 1..(n - m) : SubSeq(p, m + 1, n)[i] = p[m + i]
  <1>1. m + 1 \in Int /\ n \in Int /\ \A i \in (m + 1)..n : p[i] \in Int
    BY LenProperties DEF Names
  <1>2. /\ SubSeq(p, m + 1, n) \in Seq(Int)
        /\ Len(SubSeq(p, m + 1, n)) = IF m + 1 <= n THEN n - (m + 1) + 1 ELSE 0
        /\ \A i \in 1..(n - (m + 1) + 1) : SubSeq(p, m + 1, n)[i] = p[(m + 1) + i - 1]
    BY <1>1, SubSeqProperties
  <1> QED BY <1>1, <1>2 DEF Names

LEMMA Joined ==
  ASSUME NEW p \in Names, NEW q \in Names
  PROVE  /\ p \o q \in Names /\ Len(p \o q) = Len(p) + Len(q)
         /\ \A i \in 1..(Len(p) + Len(q)) :
              (p \o q)[i] = IF i <= Len(p) THEN p[i] ELSE q[i - Len(p)]
BY ConcatProperties DEF Names

\* A prefix, item by item.
LEMMA PrefixIs ==
  ASSUME NEW p \in Names, NEW q \in Names
  PROVE  IsPrefix(p, q) <=> Len(p) <= Len(q) /\ \A i \in 1..Len(p) : p[i] = q[i]
  <1>1. Len(p) \in Nat /\ Len(q) \in Nat
    BY LenProperties DEF Names
  <1>2. ASSUME Len(p) <= Len(q)
        PROVE  SubSeq(q, 1, Len(p)) = p <=> \A i \in 1..Len(p) : p[i] = q[i]
    <2>1. /\ SubSeq(q, 1, Len(p)) \in Names /\ Len(SubSeq(q, 1, Len(p))) = Len(p)
          /\ \A i \in 1..Len(p) : SubSeq(q, 1, Len(p))[i] = q[i]
      BY <1>1, <1>2, Begins
    <2> QED BY <2>1, SeqEqual DEF Names
  <1> QED BY <1>1, SubSeqFull, <1>2 DEF IsPrefix, Names

\* Prefixes of one path are comparable, and what is a prefix both ways is the same.
LEMMA PrefixFacts ==
  ASSUME NEW p \in Names, NEW q \in Names, NEW r \in Names
  PROVE  /\ IsPrefix(p, p) /\ IsPrefix(<<>>, p)
         /\ IsPrefix(p, q) /\ IsPrefix(q, r) => IsPrefix(p, r)
         /\ IsPrefix(p, r) /\ IsPrefix(q, r) /\ Len(p) <= Len(q) => IsPrefix(p, q)
         /\ IsPrefix(p, q) => Len(p) <= Len(q)
         /\ IsPrefix(p, q) /\ Len(p) = Len(q) => p = q
  <1>1. Len(p) \in Nat /\ Len(q) \in Nat /\ Len(r) \in Nat
    BY LenProperties DEF Names
  <1>2. <<>> \in Names /\ Len(<<>>) = 0
    BY EmptySeq DEF Names
  <1>3. IsPrefix(p, p) /\ IsPrefix(<<>>, p)
    BY <1>1, <1>2, PrefixIs
  <1>4. IsPrefix(p, q) => Len(p) <= Len(q) /\ \A i \in 1..Len(p) : p[i] = q[i]
    BY PrefixIs
  <1>5. IsPrefix(q, r) => Len(q) <= Len(r) /\ \A i \in 1..Len(q) : q[i] = r[i]
    BY PrefixIs
  <1>6. IsPrefix(p, r) <=> Len(p) <= Len(r) /\ \A i \in 1..Len(p) : p[i] = r[i]
    BY PrefixIs
  <1>7. IsPrefix(p, r) /\ IsPrefix(q, r) /\ Len(p) <= Len(q) => IsPrefix(p, q)
    BY <1>1, <1>5, <1>6, PrefixIs
  <1>8. IsPrefix(p, q) /\ Len(p) = Len(q) => p = q
    BY <1>1, <1>4, SeqEqual DEF Names
  <1> QED BY <1>3, <1>4, <1>1, <1>5, <1>6, <1>7, <1>8

-----------------------------------------------------------------------------
(* The order of the listings *)

Differ(p, q, i) ==
  i \in 1..Len(p) /\ i <= Len(q) /\ p[i] < q[i] /\ \A j \in 1..(i - 1) : p[j] = q[j]

LEMMA BeforeIs ==
  ASSUME NEW p, NEW q
  PROVE  Before(p, q) <=> Under(p, q) \/ \E i \in 1..Len(p) : Differ(p, q, i)
BY DEF Before, Differ

\* It is an order ...
LEMMA BeforeOrders ==
  ASSUME NEW p \in Names, NEW q \in Names, NEW r \in Names
  PROVE  /\ ~ Before(p, p)
         /\ Before(p, q) /\ Before(q, r) => Before(p, r)
  <1>1. /\ Len(p) \in Nat /\ Len(q) \in Nat /\ Len(r) \in Nat
        /\ \A i \in 1..Len(p) : p[i] \in Int
        /\ \A i \in 1..Len(q) : q[i] \in Int
        /\ \A i \in 1..Len(r) : r[i] \in Int
    BY LenProperties DEF Names
  <1>2. ASSUME Under(p, q), Under(q, r) PROVE Before(p, r)
    <2>1. r = p => q = p
      <3> QED BY <1>1, <1>2, PrefixFacts DEF Under
    <2> QED BY <1>2, PrefixFacts, <2>1 DEF Under, Before
  <1>3. ASSUME Under(p, q), NEW i \in 1..Len(q), Differ(q, r, i) PROVE Before(p, r)
    <2>1. Len(p) <= Len(q) /\ \A j \in 1..Len(p) : p[j] = q[j]
      BY <1>3, PrefixIs DEF Under
    <2>2. CASE i <= Len(p)
      <3> QED BY <1>1, <1>3, <2>2, <2>1, BeforeIs DEF Differ
    <2>3. CASE i > Len(p)
      <3>1. p # r
        BY <1>1, <1>3, <2>3 DEF Differ
      <3> QED BY <1>1, <1>3, <2>1, <2>3, PrefixIs, <3>1 DEF Before, Under, Differ
    <2> QED BY <1>1, <1>3, <2>2, <2>3
  <1>4. ASSUME NEW i \in 1..Len(p), Differ(p, q, i), Under(q, r) PROVE Before(p, r)
    <2>1. Differ(p, r, i)
      BY <1>1, <1>4, PrefixIs DEF Differ, Under
    <2> QED BY <2>1, BeforeIs
  <1>5. ASSUME NEW i \in 1..Len(p), Differ(p, q, i), NEW j \in 1..Len(q), Differ(q, r, j)
        PROVE  Before(p, r)
    <2>1. CASE i <= j
      <3> QED BY <1>1, <1>5, <2>1, BeforeIs DEF Differ
    <2>2. CASE j < i
      <3> QED BY <1>1, <1>5, <2>2, BeforeIs DEF Differ
    <2> QED BY <1>1, <2>1, <2>2
  <1>6. ASSUME Before(p, q), Before(q, r) PROVE Before(p, r)
    <2>1. Under(q, r) \/ \E i \in 1..Len(q) : Differ(q, r, i)
      BY <1>6, BeforeIs
    <2> QED BY <1>2, <1>3, <1>4, <1>5, <1>6, BeforeIs, <2>1
  <1> QED BY <1>1, <1>6 DEF Before, Under

\* ... and a total one.
LEMMA BeforeTotal ==
  ASSUME NEW p \in Names, NEW q \in Names
  PROVE  p = q \/ Before(p, q) \/ Before(q, p)
  <1> DEFINE D == {i \in 1..Len(p) : i <= Len(q) /\ p[i] # q[i]}
  <1>1. /\ Len(p) \in Nat /\ Len(q) \in Nat
        /\ \A i \in 1..Len(p) : p[i] \in Int
        /\ \A i \in 1..Len(q) : q[i] \in Int
    BY LenProperties DEF Names
  <1>2. CASE D = {}
    <2>1. Len(p) <= Len(q) => IsPrefix(p, q)
      BY <1>1, <1>2, PrefixIs
    <2>2. Len(q) <= Len(p) => IsPrefix(q, p)
      BY <1>1, <1>2, PrefixIs
    <2> QED BY <1>1, <2>1, <2>2 DEF Before, Under
  <1>3. CASE D # {}
    <2>1. PICK i \in D : \A j \in D : i <= j
      <3>1. D \in SUBSET Nat
        BY <1>1
      <3> HIDE DEF D
      <3> QED BY <1>3, <3>1, LeastExists
    <2>2. \A j \in 1..(i - 1) : p[j] = q[j]
      BY <1>1, <2>1
    <2>3. Differ(p, q, i) \/ Differ(q, p, i)
      BY <1>1, <2>1, <2>2 DEF Differ
    <2> QED BY <2>3, <1>1, BeforeIs
  <1> QED BY <1>2, <1>3

LEMMA NotBothBefore ==
  ASSUME NEW p \in Names, NEW q \in Names, Before(p, q)
  PROVE  ~ Before(q, p) /\ p # q
BY BeforeOrders

-----------------------------------------------------------------------------
(* Trees *)

Kinds == {"none", "dir", "file"}

\* What is there is in a directory.
TreeOK(t) ==
  /\ t \in [Paths -> Kinds]
  /\ \A p \in Paths : t[p] # "none" /\ Len(p) > 1 => t[Front(p)] = "dir"

LEMMA PathFacts ==
  ASSUME NEW p \in Paths
  PROVE  /\ p \in Names /\ p # <<>> /\ Len(p) \in Nat \ {0} /\ p # None
         /\ Front(p) \in Names /\ Len(Front(p)) = Len(p) - 1
         /\ Front(p) = SubSeq(p, 1, Len(p) - 1) /\ IsPrefix(Front(p), p)
         /\ Len(p) > 1 => Front(p) \in Paths /\ Front(p) # <<>>
  <1>1. p \in Names /\ p # <<>> /\ p # None /\ (Len(p) > 1 => Front(p) \in Paths)
    BY PuterAssumption DEF Names
  <1>2. Len(p) \in Nat \ {0}
    BY <1>1, EmptySeq DEF Names
  <1>3. Len(p) - 1 \in 0..Len(p) /\ Front(p) = SubSeq(p, 1, Len(p) - 1)
    BY <1>2 DEF Front
  <1>4. /\ Front(p) \in Names /\ Len(Front(p)) = Len(p) - 1
        /\ \A i \in 1..(Len(p) - 1) : Front(p)[i] = p[i]
    BY <1>1, <1>3, Begins
  <1>5. IsPrefix(Front(p), p)
    BY <1>1, <1>2, <1>4, PrefixIs
  <1>6. Len(p) > 1 => Front(p) # <<>>
    BY <1>2, <1>4, EmptySeq
  <1> QED BY <1>1, <1>2, <1>3, <1>4, <1>5, <1>6

LEMMA RootIs ==
  <<>> \in Names /\ Len(<<>>) = 0 /\ <<>> \notin Paths
BY EmptySeq, PuterAssumption DEF Names

\* Whatever is under a path has its front under it, or at it.
LEMMA FrontUnder ==
  ASSUME NEW r \in Names, NEW p \in Paths
  PROVE  /\ IsPrefix(r, p) /\ p # r => IsPrefix(r, Front(p))
         /\ IsPrefix(r, Front(p)) => IsPrefix(r, p)
  <1>1. /\ p \in Names /\ Len(p) \in Nat \ {0} /\ Front(p) \in Names
        /\ Len(Front(p)) = Len(p) - 1 /\ IsPrefix(Front(p), p)
    BY PathFacts
  <1>2. ASSUME IsPrefix(r, p), p # r PROVE IsPrefix(r, Front(p))
    <2>1. Len(r) <= Len(p) /\ Len(r) # Len(p)
      BY <1>1, <1>2, PrefixFacts
    <2> QED BY <1>1, LenProperties, <1>2, <2>1, PrefixFacts DEF Names
  <1> QED BY <1>2, <1>1, PrefixFacts

\* All that leads to what is there is there, and is a directory.
LEMMA Ancestors ==
  ASSUME NEW t, TreeOK(t), NEW p \in Paths, t[p] # "none", NEW n \in 1..Len(p)
  PROVE  LET a == SubSeq(p, 1, n) IN a \in Paths /\ t[a] # "none" /\ (n < Len(p) => t[a] = "dir")
  <1> DEFINE a(m) == SubSeq(p, 1, m)
             Good(m) == a(m) \in Paths /\ t[a(m)] # "none" /\ (m < Len(p) => t[a(m)] = "dir")
             S == {m \in 1..Len(p) : \A i \in m..Len(p) : Good(i)}
  <1>1. p \in Names /\ Len(p) \in Nat \ {0}
    BY PathFacts
  <1>2. Good(Len(p))
    <2>1. a(Len(p)) = p
      BY <1>1, SubSeqFull DEF Names
    <2> HIDE DEF a
    <2> QED BY <1>1, <2>1
  <1>3. Len(p) \in S
    <2> HIDE DEF Good
    <2> QED BY <1>1, <1>2
  <1>4. PICK m \in S : \A i \in S : m <= i
    <2>1. S \in SUBSET Nat /\ S # {}
      BY <1>1, <1>3
    <2> HIDE DEF S
    <2> QED BY <2>1, LeastExists
  <1>5. m = 1
    <2> SUFFICES ASSUME m > 1 PROVE FALSE
      BY <1>1
    <2>1. m \in 2..Len(p) /\ m - 1 \in 1..Len(p) /\ m \in 0..Len(p) /\ m - 1 \in 0..Len(p) /\ m \in Nat
      BY <1>1
    <2>2. a(m) \in Names /\ Len(a(m)) = m /\ \A i \in 1..m : a(m)[i] = p[i]
      BY <1>1, <2>1, Begins
    <2>3. a(m - 1) \in Names /\ Len(a(m - 1)) = m - 1 /\ \A i \in 1..(m - 1) : a(m - 1)[i] = p[i]
      BY <1>1, <2>1, Begins
    <2>4. Front(a(m)) = a(m - 1)
      <3>1. m - 1 \in 0..Len(a(m))
        BY <2>1, <2>2
      <3>2. /\ SubSeq(a(m), 1, m - 1) \in Names /\ Len(SubSeq(a(m), 1, m - 1)) = m - 1
            /\ \A i \in 1..(m - 1) : SubSeq(a(m), 1, m - 1)[i] = a(m)[i]
        BY <2>2, <3>1, Begins
      <3>3. Front(a(m)) = SubSeq(a(m), 1, m - 1)
        BY <2>2 DEF Front
      <3> HIDE DEF a
      <3>4. \A i \in 1..(m - 1) : i \in 1..m
        BY <2>1
      <3>5. \A i \in 1..(m - 1) : Front(a(m))[i] = a(m - 1)[i]
        BY <2>2, <2>3, <3>2, <3>3, <3>4
      <3> DEFINE x == Front(a(m))
                 y == a(m - 1)
      <3>6. /\ x \in Names /\ y \in Names /\ Len(x) = Len(y) /\ Len(x) = m - 1
            /\ \A i \in 1..(m - 1) : x[i] = y[i]
        BY <2>3, <3>2, <3>3, <3>5
      <3> HIDE DEF x, y
      <3>7. x = y
        BY <3>6, SameItems
      <3> QED BY <3>7 DEF x, y
    <2>5. t[a(m - 1)] = "dir" /\ a(m - 1) \in Paths
      <3>1. a(m) \in Paths /\ t[a(m)] # "none" /\ Len(a(m)) > 1
        BY <2>1, <2>2
      <3> HIDE DEF a
      <3> QED BY <2>4, <3>1, PathFacts DEF TreeOK
    <2>6. Good(m - 1)
      BY <2>5
    <2>7. m - 1 \in S
      <3>1. \A i \in (m - 1)..Len(p) : i = m - 1 \/ i \in m..Len(p)
        BY <2>1
      <3>2. \A i \in m..Len(p) : Good(i)
        OBVIOUS
      <3> HIDE DEF Good
      <3> QED BY <2>1, <2>6, <3>1, <3>2
    <2> HIDE DEF S
    <2> QED BY <1>4, <2>1, <2>7
  <1>6. Good(n)
    BY <1>5
  <1> QED BY <1>6

\* A directory that has nothing directly in it has nothing below it.
LEMMA EmptyBelow ==
  ASSUME NEW t, TreeOK(t), NEW r \in Names,
         \A p \in Below(t, r) : Len(p) - Len(r) > 1
  PROVE  Below(t, r) = {}
  <1> SUFFICES ASSUME NEW p \in Below(t, r) PROVE FALSE
    OBVIOUS
  <1>1. p \in Paths /\ IsPrefix(r, p) /\ p # r /\ t[p] # "none"
    BY DEF Below, Under
  <1>2. p \in Names /\ Len(p) \in Nat /\ Len(r) \in Nat
    BY <1>1, PathFacts, LenProperties DEF Names
  <1>3. Len(r) + 1 \in 1..Len(p) /\ Len(r) + 1 \in 0..Len(p)
    BY <1>2
  <1> DEFINE a == SubSeq(p, 1, Len(r) + 1)
  <1>4. a \in Paths /\ t[a] # "none"
    BY <1>1, <1>3, Ancestors
  <1>5. a \in Names /\ Len(a) = Len(r) + 1 /\ \A i \in 1..(Len(r) + 1) : a[i] = p[i]
    BY <1>2, <1>3, Begins
  <1> HIDE DEF a
  <1>6. IsPrefix(r, a) /\ a # r
    BY <1>2, <1>5, <1>1, PrefixIs
  <1>7. a \in Below(t, r)
    BY <1>4, <1>6 DEF Below, Under
  <1> QED BY <1>2, <1>5, <1>7

-----------------------------------------------------------------------------
(* Changes of a tree *)

LEMMA WithoutOK ==
  ASSUME NEW t, TreeOK(t), NEW r \in Paths
  PROVE  TreeOK(Without(t, r))
  <1> DEFINE u == Without(t, r)
  <1>1. u \in [Paths -> Kinds] /\ \A p \in Paths : u[p] = IF IsPrefix(r, p) THEN "none" ELSE t[p]
    BY DEF Without, TreeOK, Kinds
  <1> HIDE DEF u
  <1>2. ASSUME NEW p \in Paths, u[p] # "none", Len(p) > 1 PROVE u[Front(p)] = "dir"
    <2>1. ~ IsPrefix(r, p) /\ t[p] # "none"
      BY <1>1, <1>2
    <2>2. Front(p) \in Paths /\ ~ IsPrefix(r, Front(p))
      BY PathFacts, <1>2, <2>1, FrontUnder
    <2> QED BY <1>1, <2>2, <1>2, <2>1 DEF TreeOK
  <1> QED BY <1>1, <1>2 DEF u, TreeOK

\* Something new, in a directory, where nothing was or no directory was.
LEMMA PlacedOK ==
  ASSUME NEW t, TreeOK(t), NEW p \in Paths, NEW k \in Kinds, k # "none",
         IsDir(t, Front(p)), t[p] # "dir"
  PROVE  TreeOK([t EXCEPT ![p] = k])
  <1> DEFINE u == [t EXCEPT ![p] = k]
  <1>1. u \in [Paths -> Kinds] /\ \A x \in Paths : u[x] = IF x = p THEN k ELSE t[x]
    BY DEF TreeOK
  <1> HIDE DEF u
  <1>2. ASSUME NEW x \in Paths, u[x] # "none", Len(x) > 1 PROVE u[Front(x)] = "dir"
    <2>1. Front(x) \in Paths /\ Front(x) # <<>>
      BY <1>2, PathFacts
    <2>2. CASE x = p
      BY <1>1, <2>1, PathFacts, <2>2 DEF IsDir, At
    <2>3. CASE x # p
      BY <1>1, <1>2, <2>1, <2>3 DEF TreeOK
    <2> QED BY <2>2, <2>3
  <1> QED BY <1>1, <1>2 DEF u, TreeOK

Old(from, to, p) == from \o SubSeq(p, Len(to) + 1, Len(p))

\* Where a thing was before its directory moved.
LEMMA OldFacts ==
  ASSUME NEW from \in Paths, NEW to \in Paths, NEW p \in Paths, IsPrefix(to, p)
  PROVE  /\ Old(from, to, p) \in Names
         /\ Len(Old(from, to, p)) = Len(from) + Len(p) - Len(to)
         /\ p = to => Old(from, to, p) = from
         /\ p # to => Front(Old(from, to, p)) = Old(from, to, Front(p))
  <1>1. /\ from \in Names /\ to \in Names /\ p \in Names
        /\ Len(from) \in Nat \ {0} /\ Len(to) \in Nat \ {0} /\ Len(p) \in Nat \ {0}
        /\ Front(p) \in Names /\ Len(Front(p)) = Len(p) - 1
    BY PathFacts
  <1>2. Len(to) <= Len(p)
    BY <1>1, PrefixFacts
  <1>3. \A i \in 1..Len(p) : p[i] \in Int
    BY <1>1, LenProperties DEF Names
  <1> DEFINE e == SubSeq(p, Len(to) + 1, Len(p))
             f == SubSeq(Front(p), Len(to) + 1, Len(p) - 1)
  <1>4. /\ e \in Names /\ Len(e) = Len(p) - Len(to)
        /\ \A i \in 1..(Len(p) - Len(to)) : e[i] = p[Len(to) + i]
    <2> QED BY <1>1, <1>2, TakenFrom, SMTT(30)
  <1>5. /\ Old(from, to, p) \in Names /\ Len(Old(from, to, p)) = Len(from) + Len(e)
        /\ \A i \in 1..(Len(from) + Len(e)) :
             Old(from, to, p)[i] = IF i <= Len(from) THEN from[i] ELSE e[i - Len(from)]
    <2>1. Old(from, to, p) = from \o e
      BY DEF Old
    <2> HIDE DEF e
    <2>2. /\ from \o e \in Names /\ Len(from \o e) = Len(from) + Len(e)
          /\ \A i \in 1..(Len(from) + Len(e)) :
               (from \o e)[i] = IF i <= Len(from) THEN from[i] ELSE e[i - Len(from)]
      BY <1>1, <1>4, Joined
    <2> QED BY <2>1, <2>2
  <1>6. p = to => Old(from, to, p) = from
    <2> QED BY <1>1, SubSeqEmpty, ConcatEmptySeq DEF Old, Names
  <1>7. ASSUME p # to PROVE Front(Old(from, to, p)) = Old(from, to, Front(p))
    <2>1. Len(to) < Len(p)
      <3> QED BY <1>1, <1>2, <1>7, PrefixFacts
    <2>2. \A i \in 1..(Len(p) - 1) : Front(p)[i] = p[i]
      <3> QED BY <1>1, PathFacts, PrefixIs
    <2>3. /\ f \in Names /\ Len(f) = Len(p) - 1 - Len(to)
          /\ \A i \in 1..(Len(p) - 1 - Len(to)) : f[i] = Front(p)[Len(to) + i]
      <3> QED BY <1>1, <2>1, TakenFrom
    <2>4. /\ Old(from, to, Front(p)) \in Names /\ Len(Old(from, to, Front(p))) = Len(from) + Len(f)
          /\ \A i \in 1..(Len(from) + Len(f)) :
               Old(from, to, Front(p))[i] = IF i <= Len(from) THEN from[i] ELSE f[i - Len(from)]
      <3>1. Old(from, to, Front(p)) = from \o f
        BY <1>1 DEF Old
      <3> HIDE DEF f
      <3>2. /\ from \o f \in Names /\ Len(from \o f) = Len(from) + Len(f)
            /\ \A i \in 1..(Len(from) + Len(f)) :
                 (from \o f)[i] = IF i <= Len(from) THEN from[i] ELSE f[i - Len(from)]
        BY <1>1, <2>3, Joined
      <3> QED BY <3>1, <3>2
    <2> DEFINE o == Old(from, to, p)
    <2>5. /\ Front(o) \in Names /\ Len(Front(o)) = Len(o) - 1
          /\ \A i \in 1..(Len(o) - 1) : Front(o)[i] = o[i]
      <3>1. Len(o) - 1 \in 0..Len(o) /\ o \in Names
        BY <1>1, <1>4, <1>5
      <3> HIDE DEF o
      <3> QED BY <3>1, Begins DEF Front
    <2> HIDE DEF e, f
    <2>6. Len(Front(o)) = Len(Old(from, to, Front(p)))
      BY <1>1, <1>4, <1>5, <2>3, <2>4, <2>5
    <2>7. ASSUME NEW i \in 1..Len(Front(o)) PROVE Front(o)[i] = Old(from, to, Front(p))[i]
      <3>1. i \in 1..(Len(o) - 1) /\ i \in 1..(Len(from) + Len(e)) /\ i \in 1..(Len(from) + Len(f)) /\ i \in Nat
        BY <1>1, <1>4, <1>5, <2>1, <2>3, <2>4, <2>5
      <3>2. CASE i <= Len(from)
        BY <1>5, <2>4, <2>5, <3>1, <3>2
      <3>3. CASE i > Len(from)
        <4> DEFINE j == i - Len(from)
        <4>1. j \in 1..(Len(p) - Len(to)) /\ j \in 1..(Len(p) - 1 - Len(to)) /\ Len(to) + j \in 1..(Len(p) - 1)
          BY <1>1, <1>4, <2>3, <3>1, <3>3
        <4>2. Front(o)[i] = e[j] /\ Old(from, to, Front(p))[i] = f[j]
          BY <1>1, <1>5, <2>4, <2>5, <3>1, <3>3
        <4> HIDE DEF j
        <4> QED BY <1>4, <2>2, <2>3, <4>1, <4>2
      <3> QED BY <1>1, <3>1, <3>2, <3>3
    <2> QED BY <2>4, <2>5, <2>6, <2>7, SameItems
  <1> QED BY <1>1, <1>4, <1>5, <1>6, <1>7

LEMMA MovedOK ==
  ASSUME NEW t, TreeOK(t), NEW from \in Paths, NEW to \in Paths, NEW over \in BOOLEAN
  PROVE  TreeOK(Moved(t, from, to, over).t)
  <1> DEFINE w == Without(t, to)
             u == [p \in Paths |->
                     IF IsPrefix(to, p)
                     THEN LET old == from \o SubSeq(p, Len(to) + 1, Len(p))
                          IN  IF old \in Paths THEN w[old] ELSE "none"
                     ELSE IF IsPrefix(from, p) THEN "none" ELSE t[p]]
  <1>1. TreeOK(w) /\ from \in Names /\ to \in Names
    BY WithoutOK, PathFacts
  <1>2. CASE ~ (t[from] = "none" \/ ~ IsDir(t, Front(to))) /\ ~ (IsPrefix(from, to) \/ IsPrefix(to, from))
    <2>1. \A p \in Paths : w[p] = IF IsPrefix(to, p) THEN "none" ELSE t[p]
      BY DEF Without
    <2>2. /\ \A p \in Paths : IsPrefix(to, p) =>
               u[p] = IF Old(from, to, p) \in Paths THEN w[Old(from, to, p)] ELSE "none"
          /\ \A p \in Paths : ~ IsPrefix(to, p) => u[p] = IF IsPrefix(from, p) THEN "none" ELSE t[p]
      BY DEF Old
    <2>3. u \in [Paths -> Kinds]
      <3> HIDE DEF w
      <3> QED BY <1>1 DEF Kinds, TreeOK
    <2> HIDE DEF u, w
    <2>4. ASSUME NEW p \in Paths, u[p] # "none", Len(p) > 1 PROVE u[Front(p)] = "dir"
      <3>1. Front(p) \in Paths /\ p \in Names /\ Front(p) \in Names
        BY <2>4, PathFacts
      <3>2. CASE IsPrefix(to, p) /\ p # to
        <4> DEFINE o == Old(from, to, p)
        <4>1. o \in Paths /\ w[o] # "none" /\ Front(o) = Old(from, to, Front(p))
          BY <2>2, <2>4, <3>2, OldFacts
        <4>2. Len(o) > 1
          <5>1. Len(o) = Len(from) + Len(p) - Len(to) /\ Len(to) <= Len(p) /\ Len(to) # Len(p)
            BY <1>1, <3>1, <3>2, OldFacts, PrefixFacts
          <5>2. Len(from) \in Nat \ {0} /\ Len(p) \in Nat /\ Len(to) \in Nat
            BY PathFacts
          <5> QED BY <5>1, <5>2
        <4> HIDE DEF o
        <4>3. IsPrefix(to, Front(p))
          BY <1>1, <3>2, FrontUnder
        <4> QED BY <2>2, <3>1, <4>1, <1>1, <4>2, PathFacts, <4>3 DEF TreeOK
      <3>3. CASE p = to
        <4>1. ~ IsPrefix(to, Front(p))
          <5> QED BY <1>1, <3>1, <3>3, PathFacts, PrefixFacts
        <4>2. ~ IsPrefix(from, Front(p))
          BY <1>1, <1>2, <3>3, FrontUnder
        <4> QED BY <2>2, <3>1, <1>2, <2>4, <3>3, RootIs, <4>1, <4>2 DEF IsDir, At
      <3>4. CASE ~ IsPrefix(to, p)
        <4>1. ~ IsPrefix(from, p) /\ t[p] # "none"
          BY <2>2, <2>4, <3>4
        <4>2. t[Front(p)] = "dir"
          BY <2>4, <4>1 DEF TreeOK
        <4> QED BY <2>2, <3>1, <1>1, <3>4, <4>1, FrontUnder, <4>2
      <3> QED BY <3>2, <3>3, <3>4
    <2>5. Moved(t, from, to, over).t \in {t, u}
      BY DEF Moved, Ok, No, u, w
    <2> QED BY <2>3, <2>4, <2>5 DEF TreeOK
  <1>3. CASE (t[from] = "none" \/ ~ IsDir(t, Front(to))) \/ (IsPrefix(from, to) \/ IsPrefix(to, from))
    BY <1>3 DEF Moved, No
  <1> QED BY <1>2, <1>3

-----------------------------------------------------------------------------
(* A listing in pages *)

\* The sequence that is made of a set has its elements, each once.
LEMMA SequenceOf ==
  ASSUME NEW S, IsFiniteSet(S)
  PROVE  /\ SetToSeq(S) \in Seq(S) /\ Range(SetToSeq(S)) = S /\ IsInjective(SetToSeq(S))
         /\ DOMAIN SetToSeq(S) = 1..Len(SetToSeq(S))
  <1> DEFINE n == Cardinality(S)
             f == SetToSeq(S)
  <1>1. n \in Nat /\ ExistsBijection(1..n, S)
    BY FS_CardinalityType
  <1>2. f \in [1..n -> S] /\ IsInjective(f)
    BY <1>1 DEF SetToSeq, ExistsBijection, Bijection, Injection
  <1> HIDE DEF f
  <1>3. f \in Surjection(1..n, S)
    <2>1. f \in Injection(1..n, S)
      BY <1>2 DEF Injection
    <2> QED BY <1>1, FS_Interval, <2>1, FS_Injection
  <1>4. f \in Seq(S)
    BY <1>1, <1>2, SeqDef
  <1>5. DOMAIN f = 1..Len(f)
    BY <1>4, LenProperties
  <1> QED BY <1>2, <1>3, <1>4, <1>5 DEF f, Surjection, Range

Roots == Paths \cup {<<>>}

Readdirs == [kind : {"readdir"}, root : Roots, deep : BOOLEAN, cursor : Paths \cup {None}]

PageRec == [items : SUBSET (Paths \X Kinds), many : BOOLEAN, cursor : Paths \cup {None}]

\* How far below a root one request of a listing goes, and where it cuts a path.
Reach(r) == IF r = <<>> THEN 1 ELSE Horizon

Cut(r, x) == SubSeq(x, 1, Smaller(Len(x), Len(r) + Reach(r)))

\* What is below the root of a request and was not passed by its cursor.
Left(q, x) == Under(q.root, x) /\ (q.cursor = None \/ Before(q.cursor, Cut(q.root, x)))

Upto(cursor, x) == cursor = None \/ x = cursor \/ Before(x, cursor)

\* A page has what was there and left, in order and up to its cursor.
PageTrue(q, t, page) ==
  /\ page \in PageRec
  /\ \A i \in page.items :
       /\ i[1] \in Below(t, q.root) /\ Left(q, i[1]) /\ Cut(q.root, i[1]) = i[1]
       /\ Upto(page.cursor, i[1])
  /\ page.cursor # None => \E i \in page.items : i[1] = page.cursor
  /\ \A p \in Paths : t[p] # "none" /\ Left(q, p) /\ Upto(page.cursor, Cut(q.root, p)) =>
       \E i \in page.items : i[1] = Cut(q.root, p) /\ (i[1] # p => i[2] = "dir")

LEMMA RootFacts ==
  ASSUME NEW r \in Roots
  PROVE  r \in Names /\ Len(r) \in Nat /\ Reach(r) \in Nat \ {0}
  <1>1. r \in Names
    BY PathFacts, RootIs DEF Roots
  <1>2. Reach(r) \in Nat \ {0}
    BY PuterAssumption DEF Reach
  <1> QED BY <1>1, LenProperties, <1>2 DEF Names

LEMMA CutFacts ==
  ASSUME NEW r \in Roots, NEW x \in Paths, Under(r, x)
  PROVE  /\ Cut(r, x) \in Names /\ Under(r, Cut(r, x)) /\ IsPrefix(Cut(r, x), x)
         /\ Len(Cut(r, x)) - Len(r) <= Reach(r)
         /\ Cut(r, x) = x <=> Len(x) - Len(r) <= Reach(r)
         /\ Cut(r, x) # x => Len(Cut(r, x)) - Len(r) = Reach(r) /\ Under(Cut(r, x), x)
         /\ \E n \in 1..Len(x) : Cut(r, x) = SubSeq(x, 1, n) /\ (Cut(r, x) # x => n < Len(x))
  <1> DEFINE n == Smaller(Len(x), Len(r) + Reach(r))
  <1>1. /\ r \in Names /\ x \in Names /\ Len(r) \in Nat /\ Reach(r) \in Nat \ {0}
        /\ Len(x) \in Nat \ {0} /\ IsPrefix(r, x) /\ x # r
    BY RootFacts, PathFacts DEF Under
  <1>2. Len(r) < Len(x)
    <2> QED BY <1>1, PrefixFacts
  <1>3. n \in 1..Len(x) /\ n \in 0..Len(x) /\ Len(r) < n /\ n <= Len(r) + Reach(r)
        /\ (n = Len(x) \/ n = Len(r) + Reach(r))
    BY <1>1, <1>2 DEF Smaller
  <1>4. /\ Cut(r, x) = SubSeq(x, 1, n) /\ Cut(r, x) \in Names /\ Len(Cut(r, x)) = n
        /\ \A i \in 1..n : Cut(r, x)[i] = x[i]
    <2>1. Cut(r, x) = SubSeq(x, 1, n)
      BY DEF Cut
    <2> HIDE DEF n
    <2> QED BY <1>1, <1>3, <2>1, Begins
  <1> HIDE DEF n
  <1> DEFINE d == Cut(r, x)
  <1> HIDE DEF d
  <1>a. d = Cut(r, x)
    BY DEF d
  <1>b. d \in Names /\ Len(d) = n /\ Len(d) <= Len(x) /\ \A i \in 1..Len(d) : d[i] = x[i]
    BY <1>1, <1>3, <1>4, <1>a
  <1>5. IsPrefix(Cut(r, x), x)
    BY <1>1, <1>a, <1>b, PrefixIs
  <1>6. Under(r, Cut(r, x))
    <2>1. IsPrefix(r, Cut(r, x))
      <3> QED BY <1>1, <1>5, <1>a, <1>b, <1>3, PrefixFacts
    <2> QED BY <1>1, <1>3, <1>4, <2>1 DEF Under
  <1>7. Cut(r, x) = x <=> n = Len(x)
    BY <1>1, <1>4, <1>5, PrefixFacts
  <1>8. Cut(r, x) # x => Under(Cut(r, x), x)
    BY <1>5 DEF Under
  <1>9. n = Len(x) <=> Len(x) - Len(r) <= Reach(r)
    BY <1>1, <1>3
  <1> QED BY <1>1, <1>3, <1>4, <1>5, <1>6, <1>7, <1>8, <1>9

\* What is there is there, or a directory, where a request cuts it.
LEMMA CutThere ==
  ASSUME NEW t, TreeOK(t), NEW r \in Roots, NEW x \in Paths, Under(r, x), t[x] # "none"
  PROVE  /\ Cut(r, x) \in Below(t, r) /\ Cut(r, x) \in Paths
         /\ Cut(r, x) # x => t[Cut(r, x)] = "dir"
  <1>1. PICK n \in 1..Len(x) : Cut(r, x) = SubSeq(x, 1, n) /\ (Cut(r, x) # x => n < Len(x))
    BY CutFacts
  <1>2. /\ SubSeq(x, 1, n) \in Paths /\ t[SubSeq(x, 1, n)] # "none"
        /\ n < Len(x) => t[SubSeq(x, 1, n)] = "dir"
    BY Ancestors
  <1> QED BY <1>1, CutFacts, <1>2 DEF Below

\* What a page has, when it has what is up to some place.
LEMMA PageHas ==
  ASSUME NEW t, NEW found \in SUBSET Paths, NEW items \in SUBSET found, \A x \in found : t[x] \in Kinds,
         NEW m, items = found \/ (m \in items /\ items = UpTo(found, m))
  PROVE  LET g == Page(t, found, items)
         IN  /\ g \in PageRec /\ g.items = Entries(t, items)
             /\ \/ g.cursor = None /\ items = found
                \/ g.cursor \in items /\ items = UpTo(found, g.cursor)
  <1> DEFINE g == Page(t, found, items)
             c == g.cursor
  <1>1. /\ g = [items |-> Entries(t, items), many |-> \E x, y \in found : x # y, cursor |-> c]
        /\ items = found => c = None
        /\ items # found => c = CHOOSE x \in items : \A y \in items : y = x \/ Before(y, x)
    BY DEF Page
  <1> HIDE DEF c
  <1>2. ASSUME items # found PROVE c = m
    <2>1. m \in items /\ \A y \in items : y = m \/ Before(y, m)
      BY <1>2 DEF UpTo
    <2>2. c \in items /\ \A y \in items : y = c \/ Before(y, c)
      BY <1>1, <1>2, <2>1
    <2> QED BY <2>1, <2>2, PathFacts, NotBothBefore
  <1>3. \/ c = None /\ items = found
        \/ c \in items /\ items = UpTo(found, c)
    BY <1>1, <1>2
  <1>4. g \in PageRec
    <2>1. c \in Paths \cup {None}
      BY <1>3
    <2> HIDE DEF g
    <2> QED BY <1>1, <2>1 DEF PageRec, Entries
  <1> QED BY <1>3, <1>4, <1>1 DEF c

LEMMA PagesAre ==
  ASSUME NEW t, NEW q, NEW a \in Pages(t, q)
  PROVE  /\ a.t = t
         /\ a.res = "ok" =>
              \E items \in SUBSET Found(t, q) :
                /\ a.val = Page(t, Found(t, q), items)
                /\ \/ items = Found(t, q) /\ items = {}
                   \/ \E m \in items : items = UpTo(Found(t, q), m)
  <1> DEFINE F == Found(t, q)
  <1> HIDE DEF F
  <1>1. CASE a \in {No(t, "missing"), No(t, "notdir")}
    BY <1>1 DEF No
  <1>2. CASE F = {} /\ a = Ok(t, Page(t, F, {}))
    <2> QED BY <1>2 DEF F, Ok
  <1>3. ASSUME NEW p \in F, a = Ok(t, Page(t, F, UpTo(F, p)))
        PROVE  /\ a.t = t
               /\ \E items \in SUBSET F : /\ a.val = Page(t, F, items)
                                          /\ \E m \in items : items = UpTo(F, m)
    <2>1. a.t = t /\ a.val = Page(t, F, UpTo(F, p))
      BY <1>3 DEF Ok
    <2> QED BY <2>1 DEF UpTo
  <1> QED BY <1>1, <1>2, <1>3 DEF F, Pages

\* The answers of the api to a listing of its own.
LEMMA PagesTell ==
  ASSUME NEW t, TreeOK(t), NEW q \in Readdirs, q.deep = (q.root # <<>>),
         NEW a \in Pages(t, q), a.res = "ok"
  PROVE  PageTrue(q, t, a.val)
  <1> DEFINE F == Found(t, q)
  <1>1. q.root \in Roots /\ q.cursor \in Paths \cup {None}
    BY DEF Readdirs
  <1>2. (IF q.deep THEN Horizon ELSE 1) = Reach(q.root)
    BY DEF Reach
  <1>3. \A x \in F : /\ x \in Paths /\ x \in Below(t, q.root) /\ Cut(q.root, x) = x /\ Left(q, x)
                     /\ t[x] \in Kinds
    <2> TAKE x \in F
    <2>1. /\ x \in Below(t, q.root) /\ x \in Paths /\ Under(q.root, x)
          /\ Len(x) - Len(q.root) <= Reach(q.root) /\ (q.cursor = None \/ Before(q.cursor, x))
      BY <1>2 DEF Below, Found
    <2>2. t[x] \in Kinds
      BY <2>1 DEF TreeOK
    <2> QED BY <2>1, <1>1, CutFacts, <2>2 DEF Left
  <1>4. ASSUME NEW p \in Paths, t[p] # "none", Left(q, p)
        PROVE  Cut(q.root, p) \in F /\ (Cut(q.root, p) # p => t[Cut(q.root, p)] = "dir")
    <2>1. Under(q.root, p) /\ (q.cursor = None \/ Before(q.cursor, Cut(q.root, p)))
      BY <1>4 DEF Left
    <2>2. /\ Cut(q.root, p) \in Below(t, q.root)
          /\ Cut(q.root, p) # p => t[Cut(q.root, p)] = "dir"
      BY <1>1, <1>4, <2>1, CutThere
    <2> QED BY <1>2, <2>1, <1>1, CutFacts, <2>2 DEF Found
  <1> DEFINE g == a.val
             c == g.cursor
  <1>5. PICK items \in SUBSET F :
          /\ g = Page(t, F, items)
          /\ items = F \/ \E m \in items : items = UpTo(F, m)
    BY PagesAre
  <1> HIDE DEF F, g
  <1>6. /\ g \in PageRec /\ g.items = Entries(t, items)
        /\ \/ c = None /\ items = F
           \/ c \in items /\ items = UpTo(F, c)
    <2>1. PICK m : items = F \/ (m \in items /\ items = UpTo(F, m))
      BY <1>5
    <2>2. LET h == Page(t, F, items)
          IN  /\ h \in PageRec /\ h.items = Entries(t, items)
              /\ \/ h.cursor = None /\ items = F
                 \/ h.cursor \in items /\ items = UpTo(F, h.cursor)
      BY <1>3, <2>1, PageHas
    <2> QED BY <1>5, <2>2
  <1>7. ASSUME NEW i \in g.items
        PROVE  /\ i[1] \in Below(t, q.root) /\ Left(q, i[1]) /\ Cut(q.root, i[1]) = i[1]
               /\ Upto(c, i[1])
    <2>1. PICK x \in items : i = <<x, t[x]>>
      BY <1>6 DEF Entries
    <2> QED BY <1>3, <1>6, <2>1 DEF Upto, UpTo
  <1>8. \A x \in items : \E i \in g.items : i[1] = x /\ i[2] = t[x]
    <2> TAKE x \in items
    <2>1. <<x, t[x]>> \in g.items
      BY <1>6 DEF Entries
    <2> QED BY <2>1
  <1>9. ASSUME NEW p \in Paths, t[p] # "none", Left(q, p), Upto(c, Cut(q.root, p))
         PROVE  \E i \in g.items : i[1] = Cut(q.root, p) /\ (i[1] # p => i[2] = "dir")
    <2>1. Cut(q.root, p) \in items
      <3> HIDE DEF c
      <3> QED BY <1>4, <1>6, <1>9, <1>3, PuterAssumption DEF Upto, UpTo, c
    <2> QED BY <1>4, <1>8, <1>9, <2>1
  <1>10. PageTrue(q, t, g)
    BY <1>6, <1>7, <1>8, <1>9 DEF PageTrue
  <1> QED BY <1>10 DEF g

\* A look at a directory that shows nothing says that nothing is there.
LEMMA LookTells ==
  ASSUME NEW t, TreeOK(t), NEW r \in Paths, NEW a \in Pages(t, Readdir(r, FALSE, None)),
         a.res = "ok", a.val.items = {}
  PROVE  Below(t, r) = {}
  <1> DEFINE q == Readdir(r, FALSE, None)
             F == Found(t, q)
  <1>0. q.root = r /\ q.deep = FALSE /\ q.cursor = None /\ a \in Pages(t, q)
    BY DEF Readdir
  <1> HIDE DEF q
  <1>1. PICK items \in SUBSET F :
          /\ a.val = Page(t, F, items)
          /\ items = F \/ \E m \in items : items = UpTo(F, m)
    BY <1>0, PagesAre
  <1>2. \A x \in items : <<x, t[x]>> \in a.val.items
    <2>1. a.val.items = Entries(t, items)
      BY <1>1 DEF Page
    <2> QED BY <2>1 DEF Entries
  <1>3. F = {}
    <2> HIDE DEF F
    <2> QED BY <1>1, <1>2
  <1>4. F = {p \in Below(t, r) : Len(p) - Len(r) <= 1}
    BY <1>0 DEF Found
  <1> HIDE DEF F
  <1>5. r \in Names /\ Len(r) \in Nat /\ \A p \in Below(t, r) : Len(p) \in Nat
    BY PathFacts DEF Below
  <1>6. \A p \in Below(t, r) : Len(p) - Len(r) > 1
    BY <1>3, <1>4, <1>5
  <1> QED BY <1>5, <1>6, EmptyBelow

-----------------------------------------------------------------------------
(* A listing as a whole *)

\* What is below one of the directories that wait to be listed.
Tails(F) == {x \in Paths : \E f \in F : Under(f, x)}

\* A path as deep as a request for r goes, and one that has nothing to do with r.
AtEnd(r, f) == Under(r, f) /\ Len(f) = Len(r) + Reach(r)

Aside(r, f) == ~ IsPrefix(f, r) /\ ~ IsPrefix(r, f)

\* Of a listing of from, which is at r: O was handed out, L of r is left and the directories F
\* wait.  What stayed all the time, S, is in one of them, in no two of them; and nothing else
\* than what was there some time, E, is handed out.
Rest(L, r, from, O, F, S, E) ==
  /\ F \subseteq Paths /\ O \subseteq E
  /\ S \subseteq O \cup L \cup Tails(F)
  /\ O \cap L = {} /\ O \cap Tails(F) = {}
  /\ \A f \in F : IsPrefix(from, f) /\ (Aside(r, f) \/ (AtEnd(r, f) /\ f \notin L))
  /\ \A f, g \in F : f # g => ~ IsPrefix(f, g)

LEMMA EndFacts ==
  ASSUME NEW r \in Roots, NEW f \in Paths, AtEnd(r, f)
  PROVE  /\ Cut(r, f) = f
         /\ \A x \in Paths : Under(f, x) => Under(r, x) /\ Cut(r, x) = f
  <1>1. /\ r \in Names /\ f \in Names /\ Len(r) \in Nat /\ Reach(r) \in Nat \ {0}
        /\ Len(f) = Len(r) + Reach(r) /\ Under(r, f) /\ IsPrefix(r, f)
    BY RootFacts, PathFacts DEF AtEnd, Under
  <1>2. ASSUME NEW x \in Paths, Under(f, x) PROVE Under(r, x) /\ Cut(r, x) = f
    <2>1. x \in Names /\ IsPrefix(f, x) /\ x # f /\ Len(x) \in Nat /\ Len(f) <= Len(x)
      BY <1>1, <1>2, PathFacts, PrefixFacts DEF Under
    <2>2. Len(f) < Len(x)
      BY <1>1, <2>1, PrefixFacts
    <2>3. Under(r, x)
      BY <1>1, <2>1, <2>2, PrefixFacts DEF Under
    <2>4. /\ Cut(r, x) \in Names /\ IsPrefix(Cut(r, x), x)
          /\ Cut(r, x) # x /\ Len(Cut(r, x)) - Len(r) = Reach(r)
      <3> QED BY <2>3, <1>1, <2>1, <2>2, CutFacts
    <2>5. Len(Cut(r, x)) = Len(f)
      BY <1>1, <2>4, LenProperties DEF Names
    <2> QED BY <1>1, <2>3, <2>4, <2>5, <2>1, PrefixFacts
  <1> QED BY <1>1, CutFacts, <1>2

LeftOf(q) == {x \in Paths : Left(q, x)}

NamesOf(items) == {i[1] : i \in items}

\* The directories of a page that are listed on their own.
Deeper(r, items) == {i[1] : i \in {x \in items : x[2] = "dir" /\ AtHorizon(r, x[1])}}

\* What a page says of what stayed, and of what was there some time.
Told(q, S, E, page) ==
  /\ page \in PageRec
  /\ \A i \in page.items :
       Left(q, i[1]) /\ Cut(q.root, i[1]) = i[1] /\ Upto(page.cursor, i[1]) /\ i[1] \in E
  /\ page.cursor # None => \E i \in page.items : i[1] = page.cursor
  /\ \A p \in S : Left(q, p) /\ Upto(page.cursor, Cut(q.root, p)) =>
       \E i \in page.items : i[1] = Cut(q.root, p) /\ (i[1] # p => i[2] = "dir")

\* What is left behind a page.
Beyond(q, page) == {x \in LeftOf(q) : ~ Upto(page.cursor, Cut(q.root, x))}

LEMMA PageNames ==
  ASSUME NEW q \in Readdirs, NEW S, NEW E, NEW page, Told(q, S, E, page)
  PROVE  /\ NamesOf(page.items) \subseteq Paths /\ NamesOf(page.items) \subseteq LeftOf(q)
         /\ NamesOf(page.items) \subseteq E
         /\ \A x \in NamesOf(page.items) :
              Under(q.root, x) /\ Cut(q.root, x) = x /\ Upto(page.cursor, x)
         /\ Deeper(q.root, page.items) \subseteq NamesOf(page.items)
         /\ \A x \in Deeper(q.root, page.items) : AtEnd(q.root, x)
  <1>1. \A i \in page.items : i[1] \in Paths
    BY DEF Told, PageRec
  <1>2. \A i \in page.items : /\ i[1] \in LeftOf(q) /\ Under(q.root, i[1]) /\ i[1] \in E
                              /\ Cut(q.root, i[1]) = i[1] /\ Upto(page.cursor, i[1])
    BY <1>1 DEF Told, LeftOf, Left
  <1>3. ASSUME NEW x \in Deeper(q.root, page.items) PROVE x \in NamesOf(page.items) /\ AtEnd(q.root, x)
    <2>1. PICK i \in page.items : i[1] = x /\ AtHorizon(q.root, x)
      BY DEF Deeper
    <2>2. Len(x) \in Nat /\ Len(q.root) \in Nat /\ Reach(q.root) \in Nat
      BY <1>1, <2>1, RootFacts, PathFacts DEF Readdirs
    <2> QED BY <1>2, <2>1, <2>2 DEF NamesOf, AtEnd, AtHorizon, Reach
  <1> QED BY <1>1, <1>2, <1>3 DEF NamesOf

\* A page taken: what it has is handed out, and its directories wait.
LEMMA PageTaken ==
  ASSUME NEW q \in Readdirs, NEW from \in Roots, IsPrefix(from, q.root),
         NEW O \in SUBSET Paths, NEW F, NEW S \in SUBSET Paths, NEW E,
         Rest(LeftOf(q), q.root, from, O, F, S, E),
         NEW page, Told(q, S, E, page)
  PROVE  /\ Rest(Beyond(q, page), q.root, from, O \cup NamesOf(page.items),
                 F \cup Deeper(q.root, page.items), S, E)
         /\ O \cap NamesOf(page.items) = {} /\ F \cap Deeper(q.root, page.items) = {}
  <1> DEFINE r == q.root
             L == LeftOf(q)
             N == NamesOf(page.items)
             M == Deeper(r, page.items)
             B == Beyond(q, page)
  <1>1. /\ r \in Roots /\ r \in Names /\ from \in Names
        /\ Len(r) \in Nat /\ Reach(r) \in Nat \ {0}
    <2> QED BY RootFacts DEF Readdirs
  <1>2. /\ N \subseteq Paths /\ N \subseteq L /\ N \subseteq E
        /\ \A x \in N : Under(r, x) /\ Cut(r, x) = x /\ Upto(page.cursor, x)
        /\ M \subseteq N /\ \A x \in M : AtEnd(r, x)
    BY PageNames
  <1>3. /\ F \subseteq Paths /\ O \subseteq E /\ S \subseteq O \cup L \cup Tails(F)
        /\ O \cap L = {} /\ O \cap Tails(F) = {}
        /\ \A f \in F : IsPrefix(from, f) /\ (Aside(r, f) \/ (AtEnd(r, f) /\ f \notin L))
        /\ \A f, g \in F : f # g => ~ IsPrefix(f, g)
    BY DEF Rest
  <1>4. B = {x \in L : ~ Upto(page.cursor, Cut(r, x))}
    BY DEF Beyond
  <1>5. \A x \in Paths : x \in L <=> Left(q, x)
    BY DEF LeftOf
  <1>6. ASSUME NEW x \in Paths, NEW m \in M, Under(m, x) PROVE x \in L /\ Cut(r, x) = m /\ Under(r, x)
    <2>1. m \in Paths /\ AtEnd(r, m) /\ Left(q, m)
      BY <1>2, <1>5
    <2>2. Under(r, x) /\ Cut(r, x) = m /\ Cut(r, m) = m
      BY <1>1, <1>6, <2>1, EndFacts
    <2> QED BY <1>5, <2>2, <2>1 DEF Left
  <1>7. ASSUME NEW p \in S PROVE p \in (O \cup N) \cup B \cup Tails(F \cup M)
    <2>1. CASE p \in O \/ p \in Tails(F)
      BY <2>1 DEF Tails
    <2>2. CASE p \in L /\ ~ Upto(page.cursor, Cut(r, p))
      BY <1>4, <2>2
    <2>3. CASE p \in L /\ Upto(page.cursor, Cut(r, p))
      <3>1. Left(q, p) /\ Under(r, p) /\ p \in Paths
        BY <1>5, <2>3 DEF Left
      <3>2. PICK i \in page.items : i[1] = Cut(r, p) /\ (i[1] # p => i[2] = "dir")
        BY <2>3, <3>1 DEF Told
      <3>3. CASE i[1] = p
        BY <3>3 DEF NamesOf
      <3>4. CASE i[1] # p
        <4>1. Len(Cut(r, p)) - Len(r) = Reach(r) /\ Under(Cut(r, p), p)
          BY <1>1, <3>1, <3>2, <3>4, CutFacts
        <4>2. i[1] \in M
          BY <3>2, <3>4, <4>1 DEF Deeper, AtHorizon, Reach
        <4> QED BY <3>1, <3>2, <4>1, <4>2 DEF Tails
      <3> QED BY <3>3, <3>4
    <2> QED BY <1>3, <2>1, <2>2, <2>3
  <1>8. (O \cup N) \cap B = {}
    BY <1>2, <1>3, <1>4
  <1>9. ASSUME NEW x \in O \cup N, x \in Tails(F \cup M) PROVE FALSE
    <2>1. PICK f \in F \cup M : Under(f, x)
      BY <1>9 DEF Tails
    <2>2. x \in Paths /\ f \in Paths /\ x \in Names /\ f \in Names /\ Len(x) \in Nat /\ Len(f) \in Nat
      BY <1>2, <1>3, PathFacts
    <2>3. IsPrefix(f, x) /\ f # x /\ Len(f) < Len(x)
      <3>1. IsPrefix(f, x) /\ f # x
        BY <2>1 DEF Under
      <3> QED BY <2>2, <3>1, PrefixFacts
    <2>4. CASE x \in O /\ f \in F
      BY <1>3, <2>1, <2>2, <2>4 DEF Tails
    <2>5. CASE x \in O /\ f \in M
      BY <1>3, <1>6, <2>1, <2>2, <2>5
    <2>6. CASE x \in N
      <3>1. Under(r, x) /\ IsPrefix(r, x) /\ Len(x) - Len(r) <= Reach(r)
        BY <1>1, <1>2, <2>2, <2>6, CutFacts DEF Under
      <3>2. Aside(r, f) => FALSE
        BY <1>1, <2>2, <2>3, <3>1, PrefixFacts DEF Aside
      <3> QED BY <1>2, <1>3, <2>1, <1>1, <2>2, <2>3, <3>1, <3>2 DEF AtEnd
    <2> QED BY <2>1, <2>4, <2>5, <2>6
  <1>10. ASSUME NEW m \in M
         PROVE  /\ m \in Names /\ Len(m) = Len(r) + Reach(r) /\ IsPrefix(r, m) /\ IsPrefix(from, m)
                /\ AtEnd(r, m) /\ m \notin B /\ m \in L
    <2>1. m \in Names /\ AtEnd(r, m) /\ m \in L /\ m \notin B
      BY <1>2, <1>4, PathFacts
    <2> QED BY <1>1, <2>1, PrefixFacts DEF AtEnd, Under
  <1>11. ASSUME NEW f \in F, NEW m \in M PROVE ~ IsPrefix(f, m) /\ ~ IsPrefix(m, f) /\ f # m
    <2>1. f \in Names /\ Len(f) \in Nat
      BY <1>3, PathFacts
    <2>2. CASE Aside(r, f)
      <3>1. ~ IsPrefix(f, m)
        <4> QED BY <2>2, <1>1, <1>10, <2>1, PrefixFacts DEF Aside
      <3>2. ~ IsPrefix(m, f)
        <4> QED BY <2>2, <1>1, <1>10, <2>1, PrefixFacts DEF Aside
      <3> QED BY <3>1, <3>2, <1>10, PrefixFacts
    <2>3. CASE AtEnd(r, f) /\ f \notin L
      <3> QED BY <1>10, <2>1, <2>3, PrefixFacts DEF AtEnd
    <2> QED BY <1>3, <2>2, <2>3
  <1>12. \A f \in F \cup M : IsPrefix(from, f) /\ (Aside(r, f) \/ (AtEnd(r, f) /\ f \notin B))
    BY <1>3, <1>4, <1>10
  <1>13. ASSUME NEW f \in F \cup M, NEW g \in F \cup M, f # g PROVE ~ IsPrefix(f, g)
    <2> QED BY <1>3, <1>11, <1>13, <1>10, PrefixFacts
  <1>14. Rest(B, r, from, O \cup N, F \cup M, S, E)
    <2>1. F \cup M \subseteq Paths /\ O \cup N \subseteq E
      BY <1>2, <1>3
    <2>2. (O \cup N) \cap Tails(F \cup M) = {}
      BY <1>9
    <2> HIDE DEF r, L, N, M, B
    <2> QED BY <1>7, <1>8, <1>12, <1>13, <2>1, <2>2 DEF Rest
  <1> QED BY <1>2, <1>3, <1>11, <1>14

\* The cursor of a page: what is behind it is what the next request has left.
LEMMA PageTurned ==
  ASSUME NEW q \in Readdirs, NEW S, NEW E, NEW page, Told(q, S, E, page), page.cursor # None
  PROVE  /\ NextPage(q, page) \in Readdirs /\ NextPage(q, page).root = q.root
         /\ NextPage(q, page).deep = q.deep
         /\ LeftOf(NextPage(q, page)) = Beyond(q, page)
  <1> DEFINE n == NextPage(q, page)
             c == page.cursor
  <1>1. q.root \in Roots /\ q.deep \in BOOLEAN /\ q.cursor \in Paths \cup {None}
    BY DEF Readdirs
  <1>2. c \in Paths /\ Left(q, c) /\ Cut(q.root, c) = c
    BY DEF Told, PageRec
  <1>3. n \in Readdirs /\ n.root = q.root /\ n.deep = q.deep /\ n.cursor = c
    BY <1>1, <1>2 DEF NextPage, Readdir, Readdirs
  <1> HIDE DEF n
  <1>4. c # None
    OBVIOUS
  <1>5. ASSUME NEW x \in Paths PROVE Left(n, x) <=> Left(q, x) /\ ~ Upto(c, Cut(q.root, x))
    <2> DEFINE y == Cut(q.root, x)
    <2>1. Left(q, x) <=> Under(q.root, x) /\ (q.cursor = None \/ Before(q.cursor, y))
      BY DEF Left
    <2>2. Upto(c, y) <=> y = c \/ Before(y, c)
      BY <1>4 DEF Upto
    <2>3. Under(q.root, x) => y \in Names
      BY <1>1, CutFacts
    <2>4. c \in Names /\ (q.cursor # None => q.cursor \in Names)
      BY <1>1, <1>2, PathFacts
    <2> HIDE DEF y, c
    <2>5. y \in Names => (Before(c, y) <=> ~ (y = c \/ Before(y, c)))
      BY <2>4, BeforeTotal, NotBothBefore
    <2>6. y \in Names /\ Before(c, y) => q.cursor = None \/ Before(q.cursor, y)
      BY <1>2, <2>4, BeforeOrders DEF Left
    <2> QED BY <1>3, <1>4, <2>1, <2>2, <2>3, <2>5, <2>6 DEF y, Left
  <1> QED BY <1>3, <1>5 DEF n, LeftOf, Beyond

\* The next directory of those that wait: nothing of the one before is left.
LEMMA RootTaken ==
  ASSUME NEW r, NEW from \in Roots, NEW O, NEW F, NEW S, NEW E, Rest({}, r, from, O, F, S, E),
         NEW h \in F
  PROVE  /\ Readdir(h, TRUE, None) \in Readdirs /\ IsPrefix(from, h) /\ h # <<>>
         /\ Rest(LeftOf(Readdir(h, TRUE, None)), h, from, O, F \ {h}, S, E)
  <1> DEFINE q == Readdir(h, TRUE, None)
  <1>1. h \in Paths /\ h \in Names /\ h # <<>> /\ IsPrefix(from, h)
    BY PathFacts DEF Rest
  <1>2. q \in Readdirs /\ q.root = h /\ q.cursor = None
    BY <1>1 DEF Readdir, Readdirs, Roots
  <1> HIDE DEF q
  <1>3. Tails(F) = LeftOf(q) \cup Tails(F \ {h})
    BY <1>2 DEF Tails, LeftOf, Left
  <1>4. Rest(LeftOf(q), h, from, O, F \ {h}, S, E)
    BY <1>3 DEF Rest, Aside
  <1> QED BY <1>1, <1>2, <1>4 DEF q


-----------------------------------------------------------------------------
(* What a call has to be *)

Batches == [kind : {"batch"}, path : Paths]
Moves == [kind : {"move"}, path : Paths, to : Paths, overwrite : BOOLEAN]
StatReqs == [kind : {"stat"}, path : Paths]
Requests == Batches \cup Moves \cup StatReqs \cup Readdirs

Codes == {"ok", "missing", "isdir", "notdir", "itself", "exists", "429", "5xx", "kind", "notempty"}

Results == [res : Codes, val : PageRec \cup {None}]

CallRec ==
  [op : {"none", "write", "rename", "list", "done"}, from : Roots, to : Roots,
   step : {"first", "source", "dest", "look", "over", "listed"}, req : Requests \cup {None},
   net : {"idle", "cool", "sent", "back", "answer"}, left : Int, attempt : Int, sleep : Int,
   ran : Nat, res : Results \cup {None}, source : {None, "dir", "other"},
   out : Seq(Paths), frontier : Seq(Paths), stayed : SUBSET Paths, ever : SUBSET Paths,
   raced : BOOLEAN, blind : BOOLEAN, lost : BOOLEAN]

Working(k) == k.op \notin {"none", "done"}

\* A request was not performed before it was answered.
NetOK(k) ==
  /\ Working(k) => k.net # "idle" /\ k.ran <= 1 /\ (k.net # "answer" => k.ran = 0)
  /\ Working(k) /\ k.net = "answer" => k.res \in Results
  /\ ~ Working(k) => k.net = "idle"

Answered(k) == k.net = "answer" /\ k.res.res = "ok"

\* A rename is about to overwrite only what it saw to be no directory, or an empty one.
RenameOK(k, t) ==
  /\ k.from \in Paths /\ k.to \in Paths
  /\ k.lost => k.step = "over"
  /\ k.step = "first" => k.req = Move(k.from, k.to, FALSE)
  /\ k.step = "source" => k.req = StatReq(k.from)
  /\ k.step = "dest" =>
       k.req = StatReq(k.to) /\ (Answered(k) /\ ~ k.raced => (SaysDir(k) <=> t[k.to] = "dir"))
  /\ k.step = "look" =>
       /\ k.req = Readdir(k.to, FALSE, None)
       /\ Answered(k) /\ ~ k.raced => (k.res.val.items = {} => Below(t, k.to) = {})
  /\ k.step = "over" =>
       /\ k.req = Move(k.from, k.to, TRUE)
       /\ k.net # "answer" => k.raced \/ k.blind \/ t[k.to] # "dir" \/ Below(t, k.to) = {}

\* A listing: what it handed out, has left and has waiting is what there is.
ListOK(k, t) ==
  /\ k.step = "first" /\ k.req \in Readdirs /\ k.req.deep = (k.req.root # <<>>)
  /\ IsPrefix(k.from, k.req.root)
  /\ k.stayed \subseteq Below(t, k.from) /\ Below(t, k.from) \subseteq k.ever
  /\ Rest(LeftOf(k.req), k.req.root, k.from, Range(k.out), Range(k.frontier), k.stayed, k.ever)
  /\ IsInjective(k.out) /\ IsInjective(k.frontier)
  /\ Answered(k) => Told(k.req, k.stayed, k.ever, k.res.val)

Whole(k) ==
  /\ k.op = "done" /\ k.stayed \subseteq Range(k.out) /\ Range(k.out) \subseteq k.ever
  /\ IsInjective(k.out)

CallOK(k, t) ==
  /\ k \in CallRec /\ NetOK(k)
  /\ k.lost => k.raced \/ k.blind
  /\ k.op = "write" => k.step = "first" /\ k.req \in Batches
  /\ k.op = "rename" => RenameOK(k, t)
  /\ k.op = "list" => ListOK(k, t)
  /\ k.step = "listed" => Whole(k)

Inv ==
  /\ TreeOK(tree) /\ cooldown \in Int
  /\ call \in [Clients -> CallRec]
  /\ \A c \in Clients : CallOK(call[c], tree)

\* What is the same of a call while its request is under way.
SameTask(k, m) ==
  /\ m.op = k.op /\ m.from = k.from /\ m.to = k.to /\ m.step = k.step /\ m.req = k.req
  /\ m.source = k.source /\ m.out = k.out /\ m.frontier = k.frontier /\ m.stayed = k.stayed
  /\ m.ever = k.ever /\ m.raced = k.raced /\ m.blind = k.blind /\ m.lost = k.lost /\ m.ran = k.ran

LEMMA TaskKeeps ==
  ASSUME NEW t, NEW k, CallOK(k, t), NEW m \in CallRec, SameTask(k, m),
         \/ m.net = k.net /\ m.res = k.res
         \/ Working(k) /\ k.net # "answer" /\ m.net \in {"cool", "sent", "back"}
         \/ /\ Working(k) /\ k.net # "answer" /\ m.net = "answer"
            /\ m.res \in Results /\ m.res.res # "ok"
  PROVE  CallOK(m, t)
  <1>1. Answered(m) => Answered(k) /\ m.res = k.res
    BY DEF Answered
  <1>2. k.op = "rename" => RenameOK(m, t)
    BY <1>1 DEF CallOK, RenameOK, SameTask, SaysDir
  <1>3. k.op = "list" => ListOK(m, t)
    BY <1>1 DEF CallOK, ListOK, SameTask
  <1>4. k.step = "listed" => Whole(m)
    BY DEF CallOK, Whole, SameTask
  <1> QED BY <1>2, <1>3, <1>4 DEF CallOK, SameTask, NetOK, Working

\* What asking, and being done, leave of a call.
LEMMA AskFacts ==
  ASSUME cooldown \in Int, NEW k \in CallRec, NEW q \in Requests
  PROVE  LET a == Asks(k, q)
         IN  /\ a \in CallRec
             /\ a.req = q /\ a.net = "cool" /\ a.ran = 0
             /\ a.op = k.op /\ a.from = k.from /\ a.to = k.to /\ a.step = k.step
             /\ a.source = k.source /\ a.out = k.out /\ a.frontier = k.frontier
             /\ a.stayed = k.stayed /\ a.ever = k.ever
             /\ a.raced = k.raced /\ a.blind = k.blind /\ a.lost = k.lost
  <1> DEFINE a == Asks(k, q)
  <1>1. a.raced = k.raced /\ a.blind = k.blind /\ a.lost = k.lost
    BY DEF Asks, CallRec
  <1>2. a \in CallRec
    <2> DEFINE s == Smaller(cooldown, Budget)
               l == Budget
               z == 0
               b == [k EXCEPT !.req = q, !.net = "cool", !.left = l, !.attempt = z, !.ran = z,
                              !.sleep = s]
    <2>1. s \in Int /\ l \in Int /\ z \in Int /\ z \in Nat /\ a = b
      BY PuterAssumption DEF Asks, Smaller
    <2> HIDE DEF s, l, z, a
    <2> QED BY <2>1 DEF CallRec
  <1> QED BY <1>1, <1>2 DEF Asks, CallRec

LEMMA DoneFacts ==
  ASSUME NEW k \in CallRec, NEW res \in Codes
  PROVE  LET d == Done(k, res)
         IN  /\ d \in CallRec
             /\ d.op = "done" /\ d.net = "idle" /\ d.step = k.step /\ d.out = k.out
             /\ d.stayed = k.stayed /\ d.ever = k.ever
             /\ d.raced = k.raced /\ d.blind = k.blind /\ d.lost = k.lost
  <1> DEFINE v == [res |-> res, val |-> None]
  <1> HIDE DEF v
  <1> QED BY DEF Done, CallRec, v, Results

LEMMA NewFacts ==
  ASSUME NEW op \in {"none", "write", "rename", "list"}, NEW from \in Roots, NEW to \in Roots
  PROVE  /\ New(op, from, to) \in CallRec
         /\ New(op, from, to).op = op /\ New(op, from, to).from = from /\ New(op, from, to).to = to
         /\ New(op, from, to).step = "first" /\ New(op, from, to).net = "idle"
         /\ New(op, from, to).out = <<>> /\ New(op, from, to).frontier = <<>>
         /\ ~ New(op, from, to).lost
  <1> QED BY EmptySeq DEF New, CallRec

\* A call that is done in any way but with a listing.
LEMMA DoneOK ==
  ASSUME NEW t, NEW k, CallOK(k, t), Working(k), NEW res \in Codes
  PROVE  CallOK(Done(k, res), t)
  <1> DEFINE d == Done(k, res)
  <1>1. /\ d \in CallRec
        /\ d.op = "done" /\ d.net = "idle" /\ d.step = k.step
        /\ d.raced = k.raced /\ d.blind = k.blind /\ d.lost = k.lost
    BY DoneFacts DEF CallOK
  <1> HIDE DEF d
  <1>2. k.step # "listed"
    BY DEF CallOK, Whole, Working
  <1>3. CallOK(d, t)
    BY <1>1, <1>2 DEF CallOK, NetOK, Working
  <1> QED BY <1>3 DEF d

LEMMA AsksNet ==
  ASSUME NEW k, k.net = "cool", k.ran = 0, Working(k)
  PROVE  NetOK(k) /\ ~ Answered(k) /\ k.net # "answer"
BY DEF NetOK, Working, Answered

LEMMA BatchIs ==
  ASSUME NEW p \in Paths
  PROVE  Batch(p) \in Requests /\ Batch(p) \in Batches
BY DEF Batch, Requests, Batches

LEMMA ReaddirIs ==
  ASSUME NEW r \in Roots, NEW d \in BOOLEAN, NEW x \in Paths \cup {None}
  PROVE  Readdir(r, d, x) \in Requests /\ Readdir(r, d, x) \in Readdirs
BY DEF Readdir, Requests, Readdirs

\* Once it started, before any of its requests is answered.
LEMMA ListStarts ==
  ASSUME NEW t, TreeOK(t), NEW r \in Roots
  PROVE  Rest(LeftOf(Readdir(r, r # <<>>, None)), r, r, {}, {}, Below(t, r), Below(t, r))
  <1> DEFINE q == Readdir(r, r # <<>>, None)
  <1>1. q.root = r /\ q.cursor = None
    BY DEF Readdir
  <1> HIDE DEF q
  <1>2. LeftOf(q) = {x \in Paths : Under(r, x)}
    BY <1>1 DEF LeftOf, Left
  <1>3. Rest(LeftOf(q), r, r, {}, {}, Below(t, r), Below(t, r))
    BY <1>2 DEF Rest, Below
  <1> QED BY <1>3 DEF q

-----------------------------------------------------------------------------
(* What the api does *)

LEMMA PagesTyped ==
  ASSUME NEW t, TreeOK(t), NEW q \in Readdirs, NEW a \in Pages(t, q)
  PROVE  a.t = t /\ a.res \in Codes /\ a.val \in PageRec \cup {None}
  <1>1. a.t = t
    BY PagesAre
  <1>2. CASE a.res = "ok"
    <2>1. PICK items \in SUBSET Found(t, q) :
            /\ a.val = Page(t, Found(t, q), items)
            /\ items = Found(t, q) \/ \E m \in items : items = UpTo(Found(t, q), m)
      BY <1>2, PagesAre
    <2>2. PICK m : items = Found(t, q) \/ (m \in items /\ items = UpTo(Found(t, q), m))
      BY <2>1
    <2>3. Page(t, Found(t, q), items) \in PageRec
      BY <2>2, PageHas DEF Found, Below, TreeOK
    <2> QED BY <1>1, <1>2, <2>1, <2>3 DEF Codes
  <1>3. CASE a.res # "ok"
    <2>1. a \in {No(t, "missing"), No(t, "notdir")}
      BY <1>3 DEF Ok, Pages
    <2> QED BY <1>1, <2>1 DEF No, Codes
  <1> QED BY <1>2, <1>3

\* A request that is performed: what it makes of the tree, and what it says.
LEMMA PerformedFacts ==
  ASSUME NEW t, TreeOK(t), NEW q \in Requests, NEW a \in Performed(t, q)
  PROVE  /\ TreeOK(a.t) /\ a.res \in Codes /\ a.val \in PageRec \cup {None}
         /\ q \notin Batches \cup Moves => a.t = t
         /\ q \in Readdirs => a \in Pages(t, q)
         /\ q \in StatReqs /\ a.res = "ok" =>
              a.val = [items |-> Entries(t, {q.path}), many |-> FALSE, cursor |-> None]
         /\ q \in Moves /\ ~ q.overwrite => a.t = t \/ t[q.to] = "none"
  <1>1. CASE q \in Batches
    <2>1. q.kind = "batch" /\ q.path \in Paths
      BY <1>1 DEF Batches
    <2>2. a = Written(t, q.path)
      BY <2>1 DEF Performed
    <2>3. t \in [Paths -> Kinds]
      BY DEF TreeOK
    <2>4. CASE ~ IsDir(t, Front(q.path)) \/ t[q.path] = "dir"
      BY <1>1, <2>1, <2>2, <2>4 DEF Written, No, Codes, Batches, Moves, StatReqs, Readdirs
    <2>5. CASE IsDir(t, Front(q.path)) /\ t[q.path] # "dir"
      <3>1. a.t = [t EXCEPT ![q.path] = "file"] /\ a.res = "ok" /\ a.val = None
        BY <2>2, <2>5 DEF Written, Ok
      <3>2. TreeOK([t EXCEPT ![q.path] = "file"])
        BY <2>1, <2>5, PlacedOK DEF Kinds
      <3> QED BY <1>1, <2>1, <3>1, <3>2 DEF Codes, Batches, Moves, StatReqs, Readdirs
    <2> QED BY <2>4, <2>5
  <1>2. CASE q \in Moves
    <2>1. q.kind = "move" /\ q.path \in Paths /\ q.to \in Paths /\ q.overwrite \in BOOLEAN
      BY <1>2 DEF Moves
    <2>2. a = Moved(t, q.path, q.to, q.overwrite)
      BY <2>1 DEF Performed
    <2>3. a.res \in Codes /\ a.val = None /\ (~ q.overwrite => a.t = t \/ t[q.to] = "none")
      BY <2>1, <2>2 DEF Moved, Ok, No, Codes
    <2> QED BY <1>2, <2>1, <2>2, MovedOK, <2>3 DEF Moves, StatReqs, Readdirs
  <1>3. CASE q \in StatReqs
    <2>1. q.kind = "stat" /\ q.path \in Paths
      BY <1>3 DEF StatReqs
    <2> DEFINE g == [items |-> Entries(t, {q.path}), many |-> FALSE, cursor |-> None]
    <2>2. g \in PageRec
      BY <2>1 DEF PageRec, Entries, TreeOK
    <2>3. a = IF There(t, q.path) THEN Ok(t, g) ELSE No(t, "missing")
      BY <2>1 DEF Performed
    <2>4. a.res = "ok" => a.val = g
      <3> HIDE DEF g
      <3> QED BY <2>3 DEF Ok, No
    <2>5. a.t = t /\ a.res \in Codes /\ a.val \in PageRec \cup {None}
      <3> HIDE DEF g
      <3> QED BY <2>2, <2>3 DEF Ok, No, Codes
    <2> QED BY <1>3, <2>1, <2>4, <2>5 DEF Moves, Readdirs
  <1>4. CASE q \in Readdirs
    <2>1. q.kind = "readdir"
      BY <1>4 DEF Readdirs
    <2>2. a \in Pages(t, q)
      BY <2>1 DEF Performed
    <2> QED BY <2>1, <2>2, <1>4, PagesTyped DEF Moves, StatReqs
  <1> QED BY <1>1, <1>2, <1>3, <1>4 DEF Requests

LEMMA PagesAreTold ==
  ASSUME NEW t, TreeOK(t), NEW q \in Readdirs, q.deep = (q.root # <<>>),
         NEW from \in Roots, IsPrefix(from, q.root), NEW S, NEW E,
         S \subseteq Below(t, from), Below(t, from) \subseteq E, NEW a \in Pages(t, q), a.res = "ok"
  PROVE  Told(q, S, E, a.val)
  <1> DEFINE g == a.val
  <1>1. PageTrue(q, t, g)
    BY PagesTell
  <1> HIDE DEF g
  <1>2. q.root \in Names /\ from \in Names
    BY RootFacts DEF Readdirs
  <1>3. \A x \in Below(t, q.root) : x \in E
    <2> TAKE x \in Below(t, q.root)
    <2>1. x \in Paths /\ x \in Names /\ t[x] # "none" /\ IsPrefix(q.root, x) /\ x # q.root
      BY PathFacts DEF Below, Under
    <2>2. x # from
      <3>1. Len(x) \in Nat /\ Len(q.root) \in Nat
        BY <1>2, <2>1, LenProperties DEF Names
      <3>2. x = from => Len(x) = Len(q.root)
        BY <1>2, <2>1, PrefixFacts, <3>1
      <3> QED BY <1>2, <2>1, <3>2, PrefixFacts
    <2>3. x \in Below(t, from)
      BY <2>1, <1>2, PrefixFacts, <2>2 DEF Below, Under
    <2> QED BY <2>3
  <1>4. \A p \in S : p \in Paths /\ t[p] # "none"
    BY DEF Below
  <1>5. Told(q, S, E, g)
    BY <1>1, <1>3, <1>4 DEF Told, PageTrue
  <1> QED BY <1>5 DEF g

-----------------------------------------------------------------------------
(* What a change of the tree does to the calls *)

SeenOf(k, t, u) ==
  IF k.op = "list"
  THEN [k EXCEPT !.stayed = {p \in @ : u[p] # "none"},
                 !.ever = @ \cup {p \in Paths : u[p] # "none"}]
  ELSE IF k.op = "rename" /\ k.step \in {"dest", "look", "over"}
  THEN [k EXCEPT !.raced = @ \/ \E p \in Paths : IsPrefix(k.to, p) /\ u[p] # t[p]]
  ELSE k

LEMMA SeenIs ==
  ASSUME NEW u, NEW c \in Clients
  PROVE  DOMAIN Seen(u) = Clients /\ Seen(u)[c] = SeenOf(call[c], tree, u)
BY DEF Seen, SeenOf

LEMMA SeenFacts ==
  ASSUME NEW k \in CallRec, NEW t, NEW u
  PROVE  LET s == SeenOf(k, t, u)
         IN  /\ s \in CallRec
             /\ s.op = k.op /\ s.from = k.from /\ s.to = k.to /\ s.step = k.step /\ s.req = k.req
             /\ s.net = k.net /\ s.res = k.res /\ s.ran = k.ran
             /\ s.out = k.out /\ s.frontier = k.frontier
             /\ s.blind = k.blind /\ s.lost = k.lost
             /\ k.op = "list" => /\ s.stayed = {p \in k.stayed : u[p] # "none"}
                                 /\ s.ever = k.ever \cup {p \in Paths : u[p] # "none"}
             /\ k.op # "list" => s.stayed = k.stayed /\ s.ever = k.ever
             /\ k.op = "rename" /\ k.step \in {"dest", "look", "over"} /\ ~ s.raced =>
                  ~ k.raced /\ \A p \in Paths : IsPrefix(k.to, p) => u[p] = t[p]
             /\ ~ (k.op = "rename" /\ k.step \in {"dest", "look", "over"}) => s.raced = k.raced
             /\ k.raced => s.raced
  <1> DEFINE s == SeenOf(k, t, u)
             stay == {p \in k.stayed : u[p] # "none"}
             all == k.ever \cup {p \in Paths : u[p] # "none"}
             r == k.raced \/ \E p \in Paths : IsPrefix(k.to, p) /\ u[p] # t[p]
  <1>1. stay \in SUBSET Paths /\ all \in SUBSET Paths /\ r \in BOOLEAN
    BY DEF CallRec
  <1>2. CASE k.op = "list"
    <2>1. s = [k EXCEPT !.stayed = stay, !.ever = all]
      BY <1>2 DEF SeenOf, CallRec
    <2> HIDE DEF s, stay, all, r
    <2>2. s.blind = k.blind /\ s.lost = k.lost /\ s.raced = k.raced
      BY <2>1 DEF CallRec
    <2> QED BY <1>2, <1>1, <2>1, <2>2 DEF s, stay, all, CallRec
  <1>3. CASE k.op = "rename" /\ k.step \in {"dest", "look", "over"}
    <2>1. s = [k EXCEPT !.raced = r]
      BY <1>3 DEF SeenOf, CallRec
    <2> HIDE DEF s, stay, all, r
    <2>2. s.blind = k.blind /\ s.lost = k.lost /\ s.raced = r
      BY <1>1, <2>1 DEF CallRec
    <2>3. /\ ~ r => ~ k.raced /\ \A p \in Paths : IsPrefix(k.to, p) => u[p] = t[p]
          /\ k.raced => r
      BY DEF r
    <2> QED BY <1>3, <1>1, <2>1, <2>2, <2>3 DEF s, CallRec
  <1>4. CASE k.op # "list" /\ ~ (k.op = "rename" /\ k.step \in {"dest", "look", "over"})
    <2> QED BY <1>4 DEF SeenOf
  <1> QED BY <1>2, <1>3, <1>4

LEMMA SeenKeeps ==
  ASSUME NEW t, TreeOK(t), NEW u, TreeOK(u), NEW k, CallOK(k, t)
  PROVE  CallOK(SeenOf(k, t, u), u)
  <1> DEFINE s == SeenOf(k, t, u)
  <1>0. k \in CallRec
    BY DEF CallOK
  <1>1. /\ s \in CallRec
        /\ s.op = k.op /\ s.from = k.from /\ s.to = k.to /\ s.step = k.step /\ s.req = k.req
        /\ s.net = k.net /\ s.res = k.res /\ s.ran = k.ran
        /\ s.out = k.out /\ s.frontier = k.frontier
        /\ s.blind = k.blind /\ s.lost = k.lost
        /\ k.op # "list" => s.stayed = k.stayed /\ s.ever = k.ever
        /\ k.raced => s.raced
    BY <1>0, SeenFacts
  <1>2. k.op = "list" => /\ s.stayed = {p \in k.stayed : u[p] # "none"}
                         /\ s.ever = k.ever \cup {p \in Paths : u[p] # "none"}
    BY <1>0, SeenFacts
  <1>3. k.op = "rename" /\ k.step \in {"dest", "look", "over"} /\ ~ s.raced =>
          ~ k.raced /\ \A p \in Paths : IsPrefix(k.to, p) => u[p] = t[p]
    BY <1>0, SeenFacts
  <1> HIDE DEF s
  <1>4. NetOK(s) /\ (s.lost => s.raced \/ s.blind) /\ (Answered(s) <=> Answered(k))
    BY <1>1 DEF CallOK, NetOK, Working, Answered
  <1>5. ASSUME k.op = "rename" PROVE RenameOK(s, u)
    <2>1. RenameOK(k, t) /\ k.to \in Paths /\ k.to \in Names
      BY <1>5, PathFacts DEF CallOK, RenameOK
    <2>2. (\A p \in Paths : IsPrefix(k.to, p) => u[p] = t[p]) =>
            u[k.to] = t[k.to] /\ Below(u, k.to) = Below(t, k.to)
      BY <2>1, PrefixFacts DEF Below, Under
    <2>3. k.step \in {"dest", "look", "over"} /\ ~ s.raced =>
            ~ k.raced /\ u[k.to] = t[k.to] /\ Below(u, k.to) = Below(t, k.to)
      BY <1>3, <1>5, <2>2
    <2> QED BY <1>1, <1>4, <2>1, <2>3 DEF RenameOK, SaysDir
  <1>6. ASSUME k.op = "list" PROVE ListOK(s, u)
    <2>1. ListOK(k, t)
      BY <1>6 DEF CallOK
    <2>2. s.stayed \subseteq k.stayed /\ k.ever \subseteq s.ever
      BY <1>2, <1>6
    <2>3. Rest(LeftOf(s.req), s.req.root, s.from, Range(s.out), Range(s.frontier), s.stayed, s.ever)
      <3> DEFINE L == LeftOf(k.req)
                 O == Range(k.out)
                 F == Range(k.frontier)
      <3> HIDE DEF L, O, F
      <3>1. Rest(L, k.req.root, k.from, O, F, k.stayed, k.ever) =>
              Rest(L, k.req.root, k.from, O, F, s.stayed, s.ever)
        BY <2>2 DEF Rest
      <3> QED BY <1>1, <2>1, <3>1 DEF L, O, F, ListOK
    <2>4. Answered(s) => Told(s.req, s.stayed, s.ever, s.res.val)
      <3>1. Told(k.req, k.stayed, k.ever, k.res.val) => Told(k.req, s.stayed, s.ever, k.res.val)
        BY <2>2 DEF Told
      <3> QED BY <1>1, <1>4, <2>1, <3>1 DEF ListOK
    <2> QED BY <1>1, <2>1, <1>2, <1>6, <2>3, <2>4 DEF ListOK, Below
  <1>7. k.step = "listed" => Whole(s)
    <2> QED BY <1>1 DEF Whole, CallOK
  <1> QED BY <1>1, <1>4, <1>5, <1>6, <1>7 DEF s, CallOK

-----------------------------------------------------------------------------
(* The requests *)

LEMMA MoveIs ==
  ASSUME NEW p \in Paths, NEW r \in Paths, NEW o \in BOOLEAN
  PROVE  /\ Move(p, r, o) \in Moves
         /\ Move(p, r, o).path = p /\ Move(p, r, o).to = r /\ Move(p, r, o).overwrite = o
BY DEF Move, Moves

LEMMA RequestIs ==
  ASSUME NEW t, NEW k, CallOK(k, t), Working(k)
  PROVE  /\ k.req \in Requests /\ k.op \in {"write", "rename", "list"} /\ k.step # "listed"
         /\ k.op = "write" => k.req \in Batches
         /\ k.op = "list" => k.req \in Readdirs
         /\ k.op = "rename" =>
              /\ RenameOK(k, t) /\ k.to \in Paths
              /\ k.step \in {"first", "source", "dest", "look", "over"}
              /\ k.step = "first" => k.req \in Moves /\ k.req.overwrite = FALSE
              /\ k.step = "source" => k.req \in StatReqs
              /\ k.step = "dest" => k.req \in StatReqs /\ k.req.path = k.to
              /\ k.step = "look" => k.req \in Readdirs
              /\ k.step = "over" => k.req \in Moves /\ k.req.to = k.to
  <1>1. k \in CallRec /\ k.op \in {"write", "rename", "list"} /\ k.step # "listed"
    BY DEF CallOK, Whole, CallRec, Working
  <1>2. k.step \in {"first", "source", "dest", "look", "over"}
    BY <1>1 DEF CallRec
  <1>3. k.op = "write" => k.req \in Batches
    BY DEF CallOK
  <1>4. k.op = "list" => k.req \in Readdirs
    BY DEF CallOK, ListOK
  <1>5. ASSUME k.op = "rename"
        PROVE  /\ RenameOK(k, t) /\ k.to \in Paths
               /\ k.step = "first" => k.req \in Moves /\ k.req.overwrite = FALSE
               /\ k.step = "source" => k.req \in StatReqs
               /\ k.step = "dest" => k.req \in StatReqs /\ k.req.path = k.to
               /\ k.step = "look" => k.req \in Readdirs
               /\ k.step = "over" => k.req \in Moves /\ k.req.to = k.to
    <2>1. RenameOK(k, t) /\ k.from \in Paths /\ k.to \in Paths
      BY <1>5 DEF CallOK, RenameOK
    <2>2. k.step = "first" => k.req \in Moves /\ k.req.overwrite = FALSE
      <3> DEFINE mv == Move(k.from, k.to, FALSE)
      <3>1. mv \in Moves /\ mv.overwrite = FALSE
        BY <2>1, MoveIs
      <3>2. k.step = "first" => k.req = mv
        BY <2>1 DEF RenameOK
      <3> HIDE DEF mv
      <3> QED BY <3>1, <3>2
    <2>3. k.step = "source" => k.req \in StatReqs
      BY <2>1 DEF RenameOK, StatReq, StatReqs
    <2>4. k.step = "dest" => k.req \in StatReqs /\ k.req.path = k.to
      BY <2>1 DEF RenameOK, StatReq, StatReqs
    <2>5. k.step = "look" => k.req \in Readdirs
      <3>1. Readdir(k.to, FALSE, None) \in Readdirs
        BY <2>1 DEF Readdir, Readdirs, Roots
      <3> QED BY <2>1, <3>1 DEF RenameOK
    <2>6. k.step = "over" => k.req \in Moves /\ k.req.to = k.to
      <3> DEFINE mv == Move(k.from, k.to, TRUE)
      <3>1. mv \in Moves /\ mv.to = k.to
        BY <2>1, MoveIs
      <3>2. k.step = "over" => k.req = mv
        BY <2>1 DEF RenameOK
      <3> HIDE DEF mv
      <3> QED BY <3>1, <3>2
    <2> QED BY <2>1, <2>2, <2>3, <2>4, <2>5, <2>6
  <1> QED BY <1>1, <1>2, <1>3, <1>4, <1>5 DEF Requests

\* A request that was performed, and answered with what the api said or with a failure.
LEMMA RunsKeeps ==
  ASSUME Inv, NEW c \in Clients, Busy(c), call[c].net = "sent",
         NEW a \in Performed(tree, call[c].req), NEW v \in Results,
         v.res = "ok" => v = [res |-> a.res, val |-> a.val],
         tree' = a.t, Runs(c, a.t, "answer", v), cooldown' = cooldown
  PROVE  Inv'
  <1> DEFINE k == call[c]
             u == a.t
             s == SeenOf(k, tree, u)
             lost == s.lost \/ Lost(tree, u, k.req)
             n == s.ran + 1
             m == [s EXCEPT !.net = "answer", !.ran = n, !.res = v, !.raced = k.raced,
                            !.lost = lost]
  <1>1. /\ TreeOK(tree) /\ CallOK(k, tree) /\ k \in CallRec /\ Working(k)
        /\ k.net = "sent" /\ k.ran = 0
    BY DEF Inv, CallOK, NetOK, Busy, Working
  <1>2. k.req \in Requests
    BY <1>1, RequestIs
  <1>3. TreeOK(u)
    BY <1>1, <1>2, PerformedFacts
  <1>4. /\ CallOK(s, u) /\ s \in CallRec
        /\ s.op = k.op /\ s.from = k.from /\ s.to = k.to /\ s.step = k.step /\ s.req = k.req
        /\ s.ran = k.ran /\ s.out = k.out /\ s.frontier = k.frontier
        /\ s.blind = k.blind /\ s.lost = k.lost
    BY <1>1, <1>3, SeenKeeps, SeenFacts
  <1>5. lost \in BOOLEAN /\ n \in Nat /\ k.raced \in BOOLEAN /\ n = 1
    BY <1>1, <1>4 DEF CallRec, Lost
  <1>6. lost => k.lost \/ Lost(tree, u, k.req)
    BY <1>4
  <1> DEFINE r == k.raced
  <1>7. m = [s EXCEPT !.net = "answer", !.ran = n, !.res = v, !.raced = r, !.lost = lost]
    OBVIOUS
  <1>8. r \in BOOLEAN /\ (r <=> k.raced)
    BY <1>5
  <1> HIDE DEF s, lost, n, r, m
  <1>9. /\ m \in CallRec
        /\ m.op = k.op /\ m.from = k.from /\ m.to = k.to /\ m.step = k.step /\ m.req = k.req
        /\ m.net = "answer" /\ m.ran = 1 /\ m.res = v
        /\ m.out = k.out /\ m.frontier = k.frontier /\ m.stayed = s.stayed /\ m.ever = s.ever
    <2>1. m \in CallRec
      <3> DEFINE w == [s EXCEPT !.net = "answer", !.ran = n, !.res = v]
                 x == [w EXCEPT !.raced = r]
      <3>1. w \in CallRec
        BY <1>4, <1>5 DEF CallRec
      <3>2. m = [x EXCEPT !.lost = lost]
        BY <1>4, <1>7 DEF CallRec
      <3> HIDE DEF w
      <3>3. x \in CallRec
        BY <1>8, <3>1 DEF CallRec
      <3> HIDE DEF x
      <3>4. [x EXCEPT !.lost = lost] \in CallRec
        BY <1>5, <3>3 DEF CallRec
      <3> QED BY <3>2, <3>4
    <2>2. m.net = "answer" /\ m.ran = n /\ m.res = v
      BY <1>4, <1>7 DEF CallRec
    <2>3. m.out = s.out /\ m.frontier = s.frontier /\ m.stayed = s.stayed /\ m.ever = s.ever
      BY <1>4, <1>7 DEF CallRec
    <2> QED BY <1>4, <1>5, <2>1, <1>7, <2>2, <2>3 DEF CallRec
  <1>10. m.raced = r /\ m.lost = lost /\ m.blind = k.blind
    <2>1. m.lost = lost
      BY <1>4, <1>5, <1>7 DEF CallRec
    <2>2. m.blind = s.blind
      BY <1>4, <1>7 DEF CallRec
    <2> QED BY <1>4, <1>7, <1>8, <2>1, <2>2 DEF CallRec
  <1> HIDE DEF k, u
  <1>11. Answered(m) => v = [res |-> a.res, val |-> a.val] /\ a.res = "ok" /\ v.val = a.val
    BY <1>9 DEF Answered
  <1>12. k.op \in {"write", "rename", "list"} /\ k.step # "listed"
    BY <1>1 DEF CallOK, Whole, CallRec, Working
  <1>13. a \in Performed(tree, k.req) /\ u = a.t
    BY DEF k, u
  <1>14. ASSUME Lost(tree, u, k.req)
         PROVE  k.op = "rename" /\ k.step = "over" /\ (k.raced \/ k.blind)
    <2>1. k.req.kind = "move" /\ u # tree /\ tree[k.req.to] = "dir" /\ Below(tree, k.req.to) # {}
      BY <1>14 DEF Lost
    <2>2. k.req \notin Batches /\ k.req \notin Readdirs /\ k.req \notin StatReqs
      BY <2>1 DEF Batches, Readdirs, StatReqs
    <2>3. k.op = "rename" /\ RenameOK(k, tree)
      BY <1>1, <2>2, RequestIs
    <2>4. k.step = "first" \/ k.step = "over"
      BY <1>1, <2>2, <2>3, RequestIs
    <2>5. k.step # "first"
      <3>1. k.step = "first" => u = tree \/ tree[k.req.to] = "none"
        BY <1>1, <1>2, <1>13, <2>3, RequestIs, PerformedFacts
      <3> QED BY <2>1, <3>1
    <2> QED BY <2>1, <2>3, <2>4, <2>5, <1>1 DEF RenameOK, Move
  <1>c. m.lost => m.raced \/ m.blind
    BY <1>1, <1>6, <1>8, <1>10, <1>14 DEF CallOK
  <1>15. ASSUME k.op = "rename" PROVE RenameOK(m, u)
    <2>1. RenameOK(k, tree) /\ k.to \in Paths
      BY <1>1, <1>15 DEF CallOK, RenameOK
    <2>2. ASSUME k.step = "dest", Answered(m) PROVE SaysDir(m) <=> u[k.to] = "dir"
      <3>1. k.req \in StatReqs /\ k.req.path = k.to /\ k.req \notin Batches \cup Moves
        BY <2>1, <2>2 DEF StatReq, StatReqs, Batches, Moves, RenameOK
      <3>2. u = tree /\ a.val = [items |-> Entries(tree, {k.to}), many |-> FALSE, cursor |-> None]
        BY <1>1, <1>2, <1>11, <1>13, <2>2, <3>1, PerformedFacts
      <3>3. m.res.val.items = Entries(tree, {k.to})
        BY <1>9, <1>11, <2>2, <3>2
      <3>4. (\E i \in Entries(tree, {k.to}) : i[2] = "dir") <=> tree[k.to] = "dir"
        <4> DEFINE e == <<k.to, tree[k.to]>>
        <4>1. Entries(tree, {k.to}) = {e}
          BY DEF Entries
        <4>2. e[2] = tree[k.to]
          OBVIOUS
        <4> HIDE DEF e
        <4> QED BY <4>1, <4>2
      <3> QED BY <2>2, <3>2, <3>3, <3>4 DEF SaysDir, Answered
    <2>3. ASSUME k.step = "look", Answered(m), m.res.val.items = {} PROVE Below(u, k.to) = {}
      <3>1. k.req = Readdir(k.to, FALSE, None) /\ k.req \in Readdirs
        BY <1>1, <1>15, <2>1, <2>3, RequestIs DEF RenameOK
      <3>2. k.req \notin Batches \cup Moves
        BY <3>1 DEF Readdirs, Batches, Moves
      <3>3. u = tree /\ a \in Pages(tree, k.req)
        BY <1>1, <1>2, <1>13, <3>1, <3>2, PerformedFacts
      <3> QED BY <1>1, <2>1, <3>1, <3>3, <1>9, <1>11, <2>3, LookTells
    <2> QED BY <1>9, <1>15, <1>1, <1>6, <1>10, <1>14, <2>1, <2>2, <2>3 DEF RenameOK, CallOK
  <1>16. ASSUME k.op = "list" PROVE ListOK(m, u)
    <2>1. ListOK(k, tree) /\ ListOK(s, u)
      BY <1>1, <1>4, <1>16 DEF CallOK
    <2>2. k.req \in Readdirs /\ k.req \notin Batches \cup Moves
      BY <2>1 DEF ListOK, Readdirs, Batches, Moves
    <2>3. u = tree /\ a \in Pages(tree, k.req)
      BY <1>1, <1>2, <1>13, <2>2, PerformedFacts
    <2>4. ASSUME Answered(m) PROVE Told(m.req, m.stayed, m.ever, m.res.val)
      <3>1. a.res = "ok" /\ m.res.val = a.val
        BY <1>9, <1>11, <2>4
      <3>2. Told(k.req, s.stayed, s.ever, a.val)
        BY <1>1, <2>2, <2>3, <1>4, <2>1, <3>1, PagesAreTold DEF ListOK, CallRec
      <3> QED BY <1>9, <3>1, <3>2
    <2> QED BY <1>4, <1>9, <2>1, <2>4 DEF ListOK
  <1>17. CallOK(m, u)
    <2>1. k.op = "write" => m.step = "first" /\ m.req \in Batches
      BY <1>1, <1>9 DEF CallOK
    <2> QED BY <1>9, <1>1, <1>12, <1>15, <1>16, <1>c, <2>1 DEF CallOK, NetOK, Working
  <1>18. /\ call'[c] = m /\ DOMAIN call' = Clients
         /\ \A d \in Clients : d # c => call'[d] = SeenOf(call[d], tree, u)
         /\ call' = [d \in Clients |-> call'[d]]
    <2>1. /\ DOMAIN Seen(u) = Clients /\ Seen(u) = [d \in Clients |-> Seen(u)[d]]
          /\ \A d \in Clients : Seen(u)[d] = SeenOf(call[d], tree, u)
      BY SeenIs DEF Seen
    <2>2. Seen(u)[c] = s
      BY <2>1 DEF s, k
    <2> DEFINE z == [Seen(u)[c] EXCEPT
                       !.net = "answer", !.ran = @ + 1, !.res = v, !.raced = k.raced,
                       !.lost = @ \/ Lost(tree, u, k.req)]
    <2>3. z = m
      BY <1>4, <2>2 DEF m, n, r, lost, CallRec
    <2>4. call' = [Seen(u) EXCEPT ![c] = z]
      BY DEF Runs, u, k
    <2>5. call' = [Seen(u) EXCEPT ![c] = m]
      <3> HIDE DEF z
      <3> QED BY <2>3, <2>4
    <2> QED BY <2>1, <2>5
  <1>19. ASSUME NEW d \in Clients PROVE CallOK(call'[d], u)
    <2> QED BY <1>17, <1>18, <1>1, <1>3, SeenKeeps DEF Inv
  <1>20. tree' = u
    BY DEF u
  <1> QED BY <1>3, <1>19, <1>18, <1>20 DEF Inv, CallOK

\* A call that changes, alone.
LEMMA OneKeeps ==
  ASSUME Inv, NEW c \in Clients, NEW m, CallOK(m, tree), call' = [call EXCEPT ![c] = m],
         tree' = tree, cooldown' \in Int
  PROVE  Inv'
  <1>1. /\ call' \in [Clients -> CallRec]
        /\ \A d \in Clients : call'[d] = IF d = c THEN m ELSE call[d]
    BY DEF CallOK, Inv
  <1> QED BY <1>1 DEF Inv

Net(k, net, sleep, attempt, v) ==
  [k EXCEPT !.net = net, !.sleep = sleep, !.attempt = attempt, !.res = v]

LEMMA NetFacts ==
  ASSUME NEW k \in CallRec, NEW net \in {"cool", "sent", "back", "answer"},
         NEW sleep \in Int, NEW attempt \in Int, NEW v \in Results \cup {None}
  PROVE  /\ Net(k, net, sleep, attempt, v) \in CallRec
         /\ SameTask(k, Net(k, net, sleep, attempt, v))
         /\ Net(k, net, sleep, attempt, v).net = net /\ Net(k, net, sleep, attempt, v).res = v
  <1> DEFINE m == Net(k, net, sleep, attempt, v)
  <1>1. m.net = net /\ m.res = v
    BY DEF CallRec, Net
  <1>2. SameTask(k, m)
    BY DEF CallRec, SameTask, Net
  <1> QED BY <1>1, <1>2 DEF CallRec, Net

-----------------------------------------------------------------------------
(* The steps *)

LEMMA InvInit ==
  ASSUME Init
  PROVE  Inv
  <1>1. NoCall \in CallRec /\ NoCall.op = "none" /\ NoCall.net = "idle" /\ NoCall.step = "first"
        /\ ~ NoCall.lost
    BY NewFacts DEF NoCall, Roots
  <1>2. call = [c \in Clients |-> NoCall] /\ cooldown = 0
    BY DEF Init
  <1>3. cooldown \in Int
    BY <1>2
  <1>4. call \in [Clients -> CallRec] /\ \A c \in Clients : CallOK(call[c], tree)
    BY <1>1, <1>2 DEF CallOK, NetOK, Working
  <1> QED BY <1>3, <1>4 DEF Inv, Init, TreeOK, Kinds

\* A call that begins.
LEMMA BeginKeeps ==
  ASSUME Inv, NEW c \in Clients, Begin(c)
  PROVE  Inv'
  <1>1. TreeOK(tree) /\ tree' = tree /\ cooldown \in Int /\ cooldown' = cooldown
    BY DEF Inv, Begin
  <1>2. CASE WriteFile(c)
    <2>1. PICK p \in Paths : call' = [call EXCEPT ![c] = Asks(New("write", p, p), Batch(p))]
      BY <1>2 DEF WriteFile
    <2> DEFINE n == New("write", p, p)
               m == Asks(n, Batch(p))
    <2>2. n \in CallRec /\ n.op = "write" /\ n.step = "first" /\ ~ n.lost
      BY NewFacts DEF Roots
    <2>3. Batch(p) \in Requests /\ Batch(p) \in Batches
      BY BatchIs
    <2> HIDE DEF n
    <2>4. /\ m \in CallRec /\ m.req = Batch(p) /\ m.net = "cool" /\ m.ran = 0
          /\ m.op = "write" /\ m.step = "first" /\ ~ m.lost
      BY <1>1, <2>2, <2>3, AskFacts
    <2> HIDE DEF m
    <2>5. CallOK(m, tree)
      BY <2>3, <2>4 DEF CallOK, NetOK, Working
    <2> QED BY <1>1, <2>1, <2>5, OneKeeps DEF m, n
  <1>3. CASE RenameCall(c)
    <2>1. PICK from \in Paths, to \in Paths :
            call' = [call EXCEPT ![c] = Asks(New("rename", from, to), Move(from, to, FALSE))]
      BY <1>3 DEF RenameCall
    <2> DEFINE n == New("rename", from, to)
               q == Move(from, to, FALSE)
               m == Asks(n, q)
    <2>2. n \in CallRec /\ n.op = "rename" /\ n.step = "first" /\ ~ n.lost
          /\ n.from = from /\ n.to = to
      BY NewFacts DEF Roots
    <2>3. q \in Requests
      BY MoveIs DEF Requests
    <2> HIDE DEF n, q
    <2>4. /\ m \in CallRec /\ m.req = q /\ m.net = "cool" /\ m.ran = 0
          /\ m.op = "rename" /\ m.step = "first" /\ ~ m.lost
          /\ m.from = from /\ m.to = to
      BY <1>1, <2>2, <2>3, AskFacts
    <2> HIDE DEF m
    <2>5. CallOK(m, tree)
      BY <2>4 DEF CallOK, NetOK, Working, RenameOK, q
    <2> QED BY <1>1, <2>1, <2>5, OneKeeps DEF m, n, q
  <1>4. CASE List(c)
    <2>1. PICK r \in Roots :
            LET new == [New("list", r, r) EXCEPT !.stayed = Below(tree, r), !.ever = Below(tree, r)]
            IN  call' = [call EXCEPT ![c] = Asks(new, Readdir(r, r # <<>>, None))]
      BY <1>4 DEF List, Roots
    <2> DEFINE b == New("list", r, r)
               s == Below(tree, r)
               n == [b EXCEPT !.stayed = s, !.ever = s]
               deep == (r # <<>>)
               q == Readdir(r, deep, None)
               m == Asks(n, q)
    <2>2. b \in CallRec /\ b.op = "list" /\ b.step = "first" /\ ~ b.lost
          /\ b.from = r /\ b.out = <<>> /\ b.frontier = <<>>
      BY NewFacts
    <2>3. s \in SUBSET Paths
      BY DEF Below
    <2> HIDE DEF b
    <2>4. /\ n \in CallRec /\ n.op = "list" /\ n.step = "first" /\ ~ n.lost
          /\ n.from = r /\ n.out = <<>> /\ n.frontier = <<>> /\ n.stayed = s /\ n.ever = s
      <3> HIDE DEF s
      <3> QED BY <2>2, <2>3 DEF CallRec
    <2>5. deep \in BOOLEAN /\ (deep <=> r # <<>>)
      OBVIOUS
    <2>6. q \in Requests /\ q \in Readdirs /\ q.root = r /\ q.deep = deep
      <3> HIDE DEF deep
      <3> QED BY <2>5 DEF Readdir, Requests, Readdirs
    <2>7. Rest(LeftOf(q), r, r, {}, {}, s, s)
      BY <1>1, ListStarts
    <2> HIDE DEF s, n, q
    <2>8. /\ m \in CallRec /\ m.req = q /\ m.net = "cool" /\ m.ran = 0
          /\ m.op = "list" /\ m.step = "first" /\ ~ m.lost
          /\ m.from = r /\ m.out = <<>> /\ m.frontier = <<>> /\ m.stayed = s /\ m.ever = s
      BY <1>1, <2>4, <2>6, AskFacts
    <2> HIDE DEF m
    <2>9. Range(<<>>) = {} /\ IsInjective(<<>>)
      BY DEF Range, IsInjective
    <2>10. ListOK(m, tree)
      <3>1. s = Below(tree, r)
        BY DEF s
      <3>2. IsPrefix(r, r)
        BY RootFacts, PrefixFacts
      <3>3. q.deep = (q.root # <<>>)
        BY <2>6
      <3>4. ~ Answered(m)
        BY <2>8 DEF Answered
      <3> QED BY <2>6, <2>7, <2>8, <2>9, <3>1, <3>2, <3>3, <3>4 DEF ListOK
    <2>11. CallOK(m, tree)
      BY <2>8, <2>10 DEF CallOK, NetOK, Working
    <2>12. call' = [call EXCEPT ![c] = m]
      BY <2>1 DEF m, n, q, s, b
    <2> QED BY <1>1, <2>11, <2>12, OneKeeps
  <1> QED BY <1>2, <1>3, <1>4 DEF Begin

LEMMA RequestKeeps ==
  ASSUME Inv, NEW c \in Clients, Request(c)
  PROVE  Inv'
  <1> DEFINE k == call[c]
  <1>1. TreeOK(tree) /\ cooldown \in Int /\ CallOK(k, tree) /\ k \in CallRec
        /\ call \in [Clients -> CallRec]
    BY DEF Inv, CallOK
  <1>2. Busy(c) /\ Working(k)
    BY DEF Request, Fetch, Throttled, Woken, Fails, Answers, Busy, Working
  <1>3. k.sleep \in Int /\ k.attempt \in Int /\ k.left \in Int /\ k.res \in Results \cup {None}
    BY <1>1 DEF CallRec
  <1>4. Failure \in Results /\ Failure.res = "5xx"
    BY DEF Failure, Results, Codes
  <1>5. ASSUME NEW net \in {"cool", "sent", "back", "answer"}, NEW sleep \in Int, NEW attempt \in Int,
               NEW v \in Results \cup {None}, k.net # "answer",
               net = "answer" => v \in Results /\ v.res # "ok",
               call' = [call EXCEPT ![c] = Net(k, net, sleep, attempt, v)],
               tree' = tree, cooldown' \in Int
        PROVE  Inv'
    <2> DEFINE m == Net(k, net, sleep, attempt, v)
    <2>1. m \in CallRec /\ SameTask(k, m) /\ m.net = net /\ m.res = v
      BY <1>1, NetFacts
    <2> HIDE DEF m
    <2>2. CallOK(m, tree)
      BY <1>1, <1>2, <1>5, <2>1, TaskKeeps
    <2> QED BY <1>5, <2>2, OneKeeps DEF m
  <1>6. CASE Fetch(c)
    <2>1. k.net = "cool" /\ tree' = tree /\ cooldown' = cooldown
          /\ call' = [call EXCEPT ![c].net = "sent"]
      BY <1>6 DEF Fetch
    <2>2. call' = [call EXCEPT ![c] = Net(k, "sent", k.sleep, k.attempt, k.res)]
      BY <1>1, <2>1 DEF CallRec, Net
    <2> HIDE DEF k
    <2> QED BY <1>1, <1>3, <1>5, <2>1, <2>2
  <1>7. CASE Throttled(c)
    <2>1. PICK wait \in 1..MaxWait :
            IF k.attempt >= Attempts \/ wait > k.left
            THEN /\ call' = [call EXCEPT ![c].net = "answer", ![c].res = [res |-> "429", val |-> None]]
                 /\ cooldown' = cooldown
            ELSE /\ call' = [call EXCEPT ![c].net = "back", ![c].sleep = wait, ![c].attempt = @ + 1]
                 /\ cooldown' = Larger(cooldown, wait)
      BY <1>7 DEF Throttled
    <2>2. k.net = "sent" /\ tree' = tree
      BY <1>7 DEF Throttled
    <2>3. wait \in Int /\ Larger(cooldown, wait) \in Int /\ k.attempt + 1 \in Int
      BY <1>1, <1>3, PuterAssumption DEF Larger
    <2> DEFINE v == [res |-> "429", val |-> None]
               n == k.attempt + 1
    <2>4. v \in Results /\ v.res = "429"
      BY DEF Results, Codes
    <2>5. CASE k.attempt >= Attempts \/ wait > k.left
      <3>1. call' = [call EXCEPT ![c].net = "answer", ![c].res = v] /\ cooldown' = cooldown
        BY <2>1, <2>5
      <3> HIDE DEF v
      <3>2. call' = [call EXCEPT ![c] = Net(k, "answer", k.sleep, k.attempt, v)]
        BY <1>1, <3>1 DEF CallRec, Net
      <3> HIDE DEF k
      <3> QED BY <1>1, <1>3, <1>5, <2>2, <2>4, <3>1, <3>2
    <2>6. CASE ~ (k.attempt >= Attempts \/ wait > k.left)
      <3>1. /\ call' = [call EXCEPT ![c].net = "back", ![c].sleep = wait, ![c].attempt = n]
            /\ cooldown' = Larger(cooldown, wait)
        BY <2>1, <2>6
      <3> HIDE DEF n
      <3>2. call' = [call EXCEPT ![c] = Net(k, "back", wait, n, k.res)]
        BY <1>1, <3>1 DEF CallRec, Net
      <3>3. n \in Int
        BY <2>3 DEF n
      <3> HIDE DEF k
      <3> QED BY <1>1, <1>3, <1>5, <2>2, <2>3, <3>1, <3>2, <3>3
    <2> QED BY <2>5, <2>6
  <1>8. CASE Woken(c)
    <2> DEFINE z == Smaller(cooldown, k.left)
    <2>1. k.net = "back" /\ tree' = tree /\ cooldown' = cooldown
          /\ call' = [call EXCEPT ![c].net = "cool", ![c].sleep = z]
      BY <1>8 DEF Woken
    <2>2. z \in Int
      BY <1>1, <1>3 DEF Smaller
    <2> HIDE DEF z
    <2>3. call' = [call EXCEPT ![c] = Net(k, "cool", z, k.attempt, k.res)]
      BY <1>1, <2>1 DEF CallRec, Net
    <2> HIDE DEF k
    <2> QED BY <1>1, <1>3, <1>5, <2>1, <2>2, <2>3
  <1>9. CASE Fails(c)
    <2>1. k.net = "sent" /\ cooldown' = cooldown
      BY <1>9 DEF Fails
    <2>2. CASE call' = [call EXCEPT ![c].net = "answer", ![c].res = Failure] /\ tree' = tree
      <3>1. call' = [call EXCEPT ![c] = Net(k, "answer", k.sleep, k.attempt, Failure)]
        BY <1>1, <2>2 DEF CallRec, Net
      <3> HIDE DEF k
      <3> QED BY <1>1, <1>3, <1>4, <1>5, <2>1, <2>2, <3>1
    <2>3. CASE \E r \in Performed(tree, call[c].req) : tree' = r.t /\ Runs(c, r.t, "answer", Failure)
      BY <1>2, <1>4, <2>1, <2>3, RunsKeeps
    <2> QED BY <1>9, <2>2, <2>3 DEF Fails
  <1>10. CASE Answers(c)
    <2>1. PICK r \in Performed(tree, call[c].req) :
            tree' = r.t /\ Runs(c, r.t, "answer", [res |-> r.res, val |-> r.val])
      BY <1>10 DEF Answers
    <2>2. r.res \in Codes /\ r.val \in PageRec \cup {None}
      BY <1>1, <1>2, RequestIs, PerformedFacts
    <2> DEFINE v == [res |-> r.res, val |-> r.val]
    <2>3. v \in Results /\ (v.res = "ok" => v = [res |-> r.res, val |-> r.val])
      BY <2>2 DEF Results
    <2>4. Runs(c, r.t, "answer", v)
      BY <2>1
    <2> HIDE DEF v
    <2> QED BY <1>2, <1>10, <2>1, <2>3, <2>4, RunsKeeps DEF Answers
  <1> QED BY <1>6, <1>7, <1>8, <1>9, <1>10 DEF Request

-----------------------------------------------------------------------------
(* The provider *)

\* What is asked next of a rename that goes on.
LEMMA RenameAsks ==
  ASSUME Inv, NEW c \in Clients, call[c].op = "rename", NEW step \in {"source", "dest", "look", "over"},
         NEW k \in CallRec,
         k.op = "rename", k.from = call[c].from, k.to = call[c].to, k.step = step,
         ~ k.lost, NEW q \in Requests,
         step = "source" => q = StatReq(k.from),
         step = "dest" => q = StatReq(k.to),
         step = "look" => q = Readdir(k.to, FALSE, None),
         step = "over" =>
           /\ q = Move(k.from, k.to, TRUE)
           /\ k.raced \/ k.blind \/ tree[k.to] # "dir" \/ Below(tree, k.to) = {},
         call' = [call EXCEPT ![c] = Asks(k, q)], tree' = tree, cooldown' = cooldown
  PROVE  Inv'
  <1> DEFINE m == Asks(k, q)
  <1>1. cooldown \in Int /\ CallOK(call[c], tree)
    BY DEF Inv
  <1>2. /\ m \in CallRec /\ m.req = q /\ m.net = "cool" /\ m.ran = 0
        /\ m.op = "rename" /\ m.from = k.from /\ m.to = k.to /\ m.step = step
    BY <1>1, AskFacts
  <1>3. m.raced = k.raced /\ m.blind = k.blind /\ m.lost = k.lost
    BY <1>1, AskFacts
  <1> HIDE DEF m
  <1>4. ~ m.lost
    BY <1>3
  <1>5. RenameOK(m, tree)
    BY <1>1, <1>2, <1>3, <1>4 DEF RenameOK, Answered, CallOK
  <1>6. CallOK(m, tree)
    BY <1>2, <1>4, <1>5 DEF CallOK, NetOK, Working
  <1> QED BY <1>1, <1>6, OneKeeps DEF m

\* A call that is done with its answer, or that was refused something.
LEMMA FinishKeeps ==
  ASSUME Inv, NEW c \in Clients, Working(call[c]), NEW res \in Codes, Finish(c, res),
         tree' = tree, cooldown' = cooldown
  PROVE  Inv'
  <1>1. call' = [call EXCEPT ![c] = Done(call[c], res)]
    BY DEF Finish
  <1> QED BY DoneOK, <1>1, OneKeeps DEF Inv

\* A step that takes an answer.
LEMMA TakesFacts ==
  ASSUME Inv, NEW c \in Clients, Takes(c)
  PROVE  /\ Working(call[c]) /\ call[c] \in CallRec /\ CallOK(call[c], tree)
         /\ call[c].net = "answer" /\ call[c].res \in Results /\ call[c].res.res \in Codes
         /\ call[c].step # "listed"
         /\ call[c].step \in {"source", "dest", "look", "over"} => call[c].op = "rename"
         /\ tree' = tree /\ cooldown' = cooldown /\ cooldown \in Int
         /\ call \in [Clients -> CallRec]
  <1> DEFINE k == call[c]
  <1>1. CallOK(k, tree) /\ k \in CallRec /\ cooldown \in Int /\ call \in [Clients -> CallRec]
    BY DEF Inv, CallOK
  <1>2. Working(k) /\ k.net = "answer" /\ tree' = tree /\ cooldown' = cooldown
    BY DEF Takes, Busy, Working
  <1>3. k.res \in Results
    BY <1>1, <1>2 DEF CallOK, NetOK
  <1>4. k.step # "listed" /\ k.op \in {"write", "rename", "list"}
    BY <1>1, <1>2, RequestIs
  <1>5. k.step \in {"source", "dest", "look", "over"} => k.op = "rename"
    BY <1>1, <1>4 DEF CallOK, ListOK
  <1> QED BY <1>1, <1>2, <1>3, <1>4, <1>5 DEF Results

LEMMA MovedKeeps ==
  ASSUME Inv, NEW c \in Clients, OnMoved(c)
  PROVE  Inv'
  <1> DEFINE k == call[c]
             m == [k EXCEPT !.step = "source"]
             q == StatReq(k.from)
  <1>1. /\ Working(k) /\ k \in CallRec /\ CallOK(k, tree) /\ k.res.res \in Codes
        /\ tree' = tree /\ cooldown' = cooldown
    BY TakesFacts DEF OnMoved
  <1>2. k.op = "rename" /\ ~ k.lost
    BY <1>1 DEF OnMoved, CallOK, RenameOK
  <1>3. CASE k.res.res = "exists"
    <2>1. call' = [call EXCEPT ![c] = Asks(m, q)]
      BY <1>3 DEF OnMoved
    <2>2. q \in Requests
      BY <1>1, <1>2 DEF StatReq, StatReqs, Requests, CallOK, RenameOK
    <2>3. /\ m \in CallRec /\ m.op = "rename" /\ m.from = k.from /\ m.to = k.to
          /\ m.step = "source"
      BY <1>1, <1>2 DEF CallRec
    <2>4. m.lost = k.lost /\ m.raced = k.raced /\ m.blind = k.blind /\ k.blind \in BOOLEAN
      BY <1>1 DEF CallRec
    <2>5. q = StatReq(m.from) /\ ~ m.lost
      BY <1>2, <2>3, <2>4
    <2> HIDE DEF m, q
    <2> QED BY <1>1, <1>2, <2>1, <2>2, <2>3, <2>4, <2>5, RenameAsks
  <1>4. CASE k.res.res # "exists"
    BY <1>1, <1>4, FinishKeeps DEF OnMoved
  <1> QED BY <1>3, <1>4

LEMMA SourceKeeps ==
  ASSUME Inv, NEW c \in Clients, OnSource(c)
  PROVE  Inv'
  <1> DEFINE k == call[c]
             d == IF SaysDir(k) THEN "dir" ELSE "other"
             m == [k EXCEPT !.step = "dest", !.source = d]
             q == StatReq(k.to)
  <1>1. /\ k \in CallRec /\ CallOK(k, tree) /\ k.op = "rename"
        /\ tree' = tree /\ cooldown' = cooldown
    BY TakesFacts DEF OnSource
  <1>2. ~ k.lost
    BY <1>1 DEF CallOK, RenameOK, OnSource
  <1>3. d \in {"dir", "other"}
    OBVIOUS
  <1>4. call' = [call EXCEPT ![c] = Asks(m, q)]
    BY DEF OnSource
  <1>5. q \in Requests
    BY <1>1 DEF StatReq, StatReqs, Requests, CallOK, RenameOK
  <1> HIDE DEF d
  <1>6. /\ m \in CallRec /\ m.op = "rename" /\ m.from = k.from /\ m.to = k.to
        /\ m.step = "dest" /\ m.source = d
    BY <1>1, <1>3 DEF CallRec
  <1>7. m.lost = k.lost /\ m.raced = k.raced /\ m.blind = k.blind /\ k.blind \in BOOLEAN
    BY <1>1 DEF CallRec
  <1>8. q = StatReq(m.to) /\ ~ m.lost
    BY <1>2, <1>6, <1>7
  <1> HIDE DEF m, q
  <1> QED BY <1>1, <1>3, <1>4, <1>5, <1>6, <1>7, <1>8, RenameAsks

LEMMA DestKeeps ==
  ASSUME Inv, NEW c \in Clients, OnDest(c)
  PROVE  Inv'
  <1> DEFINE k == call[c]
             b == (k.res.res # "ok")
             s == [k EXCEPT !.blind = b]
             l == [s EXCEPT !.step = "look"]
             o == [s EXCEPT !.step = "over"]
             look == Readdir(k.to, FALSE, None)
             over == Move(k.from, k.to, TRUE)
  <1>1. /\ Working(k) /\ k \in CallRec /\ CallOK(k, tree) /\ k.op = "rename" /\ k.net = "answer"
        /\ k.step = "dest" /\ tree' = tree /\ cooldown' = cooldown
    BY TakesFacts DEF OnDest
  <1>2. RenameOK(k, tree) /\ k.from \in Paths /\ k.to \in Paths
    BY <1>1 DEF CallOK, RenameOK
  <1>3. ~ b /\ ~ k.raced => (SaysDir(k) <=> tree[k.to] = "dir")
    BY <1>1, <1>2 DEF RenameOK, Answered
  <1>4. \/ Finish(c, "kind")
        \/ call' = [call EXCEPT ![c] = Asks(l, look)]
        \/ ~ SaysDir(k) /\ call' = [call EXCEPT ![c] = Asks(o, over)]
    BY DEF OnDest
  <1>5. ~ k.lost
    BY <1>1, <1>2 DEF RenameOK
  <1>6. look \in Requests /\ over \in Requests
    BY <1>2, ReaddirIs, MoveIs DEF Requests, Roots
  <1>7. b \in BOOLEAN
    OBVIOUS
  <1> HIDE DEF b
  <1>8. s \in CallRec /\ s.op = "rename" /\ s.from = k.from /\ s.to = k.to
    BY <1>1, <1>7 DEF CallRec
  <1>9. s.lost = k.lost /\ s.raced = k.raced /\ s.blind = b
    BY <1>1, <1>7 DEF CallRec
  <1> HIDE DEF s
  <1>10. l \in CallRec /\ l.op = "rename" /\ l.from = k.from /\ l.to = k.to /\ l.step = "look"
    BY <1>8 DEF CallRec
  <1>11. o \in CallRec /\ o.op = "rename" /\ o.from = k.from /\ o.to = k.to /\ o.step = "over"
    BY <1>8 DEF CallRec
  <1>12. l.lost = s.lost /\ o.lost = s.lost /\ o.raced = s.raced /\ o.blind = s.blind
    BY <1>8 DEF CallRec
  <1>13. look = Readdir(l.to, FALSE, None) /\ over = Move(o.from, o.to, TRUE)
    BY <1>10, <1>11
  <1>14. ~ l.lost /\ ~ o.lost
    BY <1>5, <1>9, <1>12
  <1>15. ~ SaysDir(k) => o.raced \/ o.blind \/ tree[o.to] # "dir"
    BY <1>3, <1>9, <1>11, <1>12
  <1> HIDE DEF l, o, look, over, k
  <1>16. k = call[c]
    BY DEF k
  <1>17. CASE Finish(c, "kind")
    BY <1>1, <1>16, <1>17, FinishKeeps DEF Codes
  <1>18. CASE call' = [call EXCEPT ![c] = Asks(l, look)]
    BY <1>1, <1>6, <1>10, <1>13, <1>14, <1>16, <1>18, RenameAsks
  <1>19. CASE ~ SaysDir(k) /\ call' = [call EXCEPT ![c] = Asks(o, over)]
    BY <1>1, <1>6, <1>11, <1>13, <1>14, <1>15, <1>16, <1>19, RenameAsks
  <1> QED BY <1>4, <1>17, <1>18, <1>19

LEMMA LookedKeeps ==
  ASSUME Inv, NEW c \in Clients, OnLooked(c)
  PROVE  Inv'
  <1> DEFINE k == call[c]
             over == Move(k.from, k.to, TRUE)
  <1>1. /\ Working(k) /\ k \in CallRec /\ CallOK(k, tree) /\ k.op = "rename" /\ k.net = "answer"
        /\ k.step = "look" /\ k.res.res \in Codes /\ tree' = tree /\ cooldown' = cooldown
    BY TakesFacts DEF OnLooked
  <1>2. RenameOK(k, tree) /\ k.from \in Paths /\ k.to \in Paths
    BY <1>1 DEF CallOK, RenameOK
  <1>3. \/ Finish(c, k.res.res) \/ Finish(c, "notempty")
        \/ \E counted \in BOOLEAN :
             /\ k.res.res = "ok" /\ (k.res.val.items = {} \/ GivenUp(k.res.val, counted))
             /\ call' = [call EXCEPT ![c] =
                  Asks([k EXCEPT !.step = "over", !.blind = k.blind \/ GivenUp(k.res.val, counted)], over)]
    <2>1. CASE k.res.res # "ok"
      BY <2>1 DEF OnLooked
    <2>2. CASE k.res.res = "ok"
      <3>1. PICK counted \in BOOLEAN :
              \/ Finish(c, "notempty")
              \/ /\ ~ (k.res.val.items # {} /\ ~ GivenUp(k.res.val, counted))
                 /\ call' = [call EXCEPT ![c] =
                      Asks([k EXCEPT !.step = "over", !.blind = k.blind \/ GivenUp(k.res.val, counted)], over)]
        BY <2>2 DEF OnLooked
      <3> HIDE DEF k, over
      <3> QED BY <2>2, <3>1
    <2> QED BY <2>1, <2>2
  <1>4. ~ k.lost
    BY <1>1, <1>2 DEF RenameOK
  <1> HIDE DEF over, k
  <1>5. k = call[c] /\ over = Move(k.from, k.to, TRUE)
    BY DEF k, over
  <1>6. CASE Finish(c, k.res.res) \/ Finish(c, "notempty")
    BY <1>1, <1>5, <1>6, FinishKeeps DEF Codes
  <1>7. ASSUME NEW counted \in BOOLEAN,
               k.res.res = "ok", k.res.val.items = {} \/ GivenUp(k.res.val, counted),
               call' = [call EXCEPT ![c] =
                 Asks([k EXCEPT !.step = "over", !.blind = k.blind \/ GivenUp(k.res.val, counted)], over)]
        PROVE  Inv'
    <2> DEFINE h == GivenUp(k.res.val, counted)
               o == [k EXCEPT !.step = "over", !.blind = k.blind \/ h]
    <2>1. /\ o \in CallRec /\ o.op = "rename" /\ o.from = k.from /\ o.to = k.to /\ o.step = "over"
          /\ o.lost = k.lost /\ o.raced = k.raced /\ (o.blind <=> k.blind \/ h)
      <3> HIDE DEF h
      <3> QED BY <1>1 DEF CallRec
    <2>2. k.res.val.items = {} => o.raced \/ Below(tree, o.to) = {}
      BY <1>1, <1>2, <1>7, <2>1 DEF RenameOK, Answered
    <2>3. call' = [call EXCEPT ![c] = Asks(o, over)]
      BY <1>7
    <2>4. k.res.val.items = {} \/ h
      BY <1>7
    <2> HIDE DEF o, h
    <2>5. o.raced \/ o.blind \/ tree[o.to] # "dir" \/ Below(tree, o.to) = {}
      BY <2>1, <2>2, <2>4
    <2>6. over \in Requests /\ over = Move(o.from, o.to, TRUE) /\ ~ o.lost
      BY <1>2, <1>4, <1>5, <2>1, MoveIs DEF Requests
    <2> QED BY <1>1, <1>5, <2>1, <2>3, <2>5, <2>6, RenameAsks
  <1> QED BY <1>3, <1>6, <1>7

LEMMA TwoLists ==
  ASSUME NEW s \in Seq(Paths), IsInjective(s), NEW t \in Seq(Paths), IsInjective(t),
         Range(s) \cap Range(t) = {}
  PROVE  s \o t \in Seq(Paths) /\ IsInjective(s \o t) /\ Range(s \o t) = Range(s) \cup Range(t)
  <1>1. /\ s \o t \in Seq(Paths) /\ Len(s \o t) = Len(s) + Len(t)
        /\ Len(s) \in Nat /\ Len(t) \in Nat
        /\ DOMAIN s = 1..Len(s) /\ DOMAIN t = 1..Len(t)
        /\ DOMAIN (s \o t) = 1..(Len(s) + Len(t))
        /\ \A i \in 1..(Len(s) + Len(t)) : (s \o t)[i] = IF i <= Len(s) THEN s[i] ELSE t[i - Len(s)]
    BY ConcatProperties, LenProperties
  <1> DEFINE u == s \o t
  <1> HIDE DEF u
  <1>2. /\ u \in Seq(Paths) /\ DOMAIN u = 1..(Len(s) + Len(t))
        /\ \A i \in 1..(Len(s) + Len(t)) : u[i] = IF i <= Len(s) THEN s[i] ELSE t[i - Len(s)]
    BY <1>1 DEF u
  <1>3. \A i \in 1..Len(s) : u[i] = s[i] /\ s[i] \in Range(s)
    BY <1>1, <1>2 DEF Range
  <1>4. \A i \in 1..(Len(s) + Len(t)) : i > Len(s) =>
          u[i] = t[i - Len(s)] /\ i - Len(s) \in 1..Len(t) /\ t[i - Len(s)] \in Range(t)
    BY <1>1, <1>2 DEF Range
  <1>5. Range(u) \subseteq Range(s) \cup Range(t)
    <2> SUFFICES ASSUME NEW i \in 1..(Len(s) + Len(t)) PROVE u[i] \in Range(s) \cup Range(t)
      BY <1>2 DEF Range
    <2>1. CASE i <= Len(s)
      BY <1>1, <1>3, <2>1
    <2>2. CASE i > Len(s)
      BY <1>1, <1>4, <2>2
    <2> QED BY <1>1, <2>1, <2>2
  <1>6. Range(s) \subseteq Range(u)
    BY <1>1, <1>2, <1>3 DEF Range
  <1>7. Range(t) \subseteq Range(u)
    <2> SUFFICES ASSUME NEW j \in 1..Len(t) PROVE t[j] \in Range(u)
      BY <1>1 DEF Range
    <2>1. Len(s) + j \in 1..(Len(s) + Len(t)) /\ Len(s) + j > Len(s) /\ Len(s) + j - Len(s) = j
      BY <1>1
    <2>2. u[Len(s) + j] = t[j]
      BY <1>4, <2>1
    <2> QED BY <1>2, <2>1, <2>2 DEF Range
  <1>8. IsInjective(u)
    <2> SUFFICES ASSUME NEW i \in 1..(Len(s) + Len(t)), NEW j \in 1..(Len(s) + Len(t)), u[i] = u[j]
                 PROVE  i = j
      BY <1>2 DEF IsInjective
    <2>1. CASE i <= Len(s) /\ j <= Len(s)
      BY <1>1, <1>3, <2>1 DEF IsInjective
    <2>2. CASE i > Len(s) /\ j > Len(s)
      <3> QED BY <1>1, <1>4, <2>2 DEF IsInjective
    <2>3. CASE (i <= Len(s) /\ j > Len(s)) \/ (i > Len(s) /\ j <= Len(s))
      BY <1>1, <1>3, <1>4, <2>3
    <2> QED BY <1>1, <2>1, <2>2, <2>3
  <1> QED BY <1>2, <1>5, <1>6, <1>7, <1>8 DEF u

LEMMA WithoutHead ==
  ASSUME NEW s \in Seq(Paths), IsInjective(s), s # <<>>
  PROVE  /\ Head(s) \in Range(s) /\ Head(s) \in Paths /\ Tail(s) \in Seq(Paths)
         /\ IsInjective(Tail(s)) /\ Range(Tail(s)) = Range(s) \ {Head(s)}
  <1>1. Len(s) \in Nat \ {0} /\ DOMAIN s = 1..Len(s)
    BY EmptySeq, LenProperties
  <1>2. /\ Tail(s) \in Seq(Paths) /\ Head(s) = s[1] /\ Head(s) \in Paths
        /\ Len(Tail(s)) = Len(s) - 1 /\ \A i \in 1..(Len(s) - 1) : Tail(s)[i] = s[i + 1]
    BY <1>1, HeadTailProperties
  <1> DEFINE t == Tail(s)
  <1>3. DOMAIN t = 1..(Len(s) - 1)
    BY <1>2, LenProperties
  <1> HIDE DEF t
  <1>4. \A i \in 1..(Len(s) - 1) : t[i] = s[i + 1] /\ i + 1 \in 1..Len(s) /\ i + 1 # 1
    BY <1>1, <1>2 DEF t
  <1>5. IsInjective(t)
    <2> SUFFICES ASSUME NEW i \in 1..(Len(s) - 1), NEW j \in 1..(Len(s) - 1), t[i] = t[j] PROVE i = j
      BY <1>3 DEF IsInjective
    <2> QED BY <1>1, <1>4 DEF IsInjective
  <1>6. Range(s) \ {s[1]} \subseteq Range(t)
    <2> SUFFICES ASSUME NEW j \in 1..Len(s), j # 1 PROVE s[j] \in Range(t)
      BY <1>1 DEF Range
    <2>1. j - 1 \in 1..(Len(s) - 1) /\ j - 1 + 1 = j
      BY <1>1
    <2> QED BY <1>3, <1>4, <2>1 DEF Range
  <1>7. s[1] \in Range(s)
    BY <1>1 DEF Range
  <1> QED BY <1>2, <1>5, <1>1, <1>3, <1>4, <1>6, <1>7 DEF t, IsInjective, Range

\* A page taken by its listing: handed out, and what is left is asked for or waits.
LEMMA PageKeeps ==
  ASSUME Inv, NEW c \in Clients, OnPage(c)
  PROVE  Inv'
  <1> DEFINE k == call[c]
             q == k.req
             page == k.res.val
             N == NamesOf(page.items)
             M == Deeper(q.root, page.items)
             out == k.out \o SetToSeq(N)
             frontier == k.frontier \o SetToSeq(M)
             next == [k EXCEPT !.out = out, !.frontier = frontier]
  <1>1. /\ Working(k) /\ k \in CallRec /\ CallOK(k, tree) /\ k.op = "list" /\ k.net = "answer"
        /\ k.res.res \in Codes /\ tree' = tree /\ cooldown' = cooldown /\ cooldown \in Int
    BY TakesFacts DEF OnPage
  <1>2. \/ k.res.res # "ok" /\ Finish(c, k.res.res)
        \/ /\ k.res.res = "ok" /\ page.cursor # None
           /\ call' = [call EXCEPT ![c] = Asks(next, NextPage(q, page))]
        \/ /\ k.res.res = "ok" /\ page.cursor = None /\ next.frontier # <<>>
           /\ call' = [call EXCEPT ![c] =
                Asks([next EXCEPT !.frontier = Tail(@)], Readdir(Head(next.frontier), TRUE, None))]
        \/ /\ k.res.res = "ok" /\ page.cursor = None /\ next.frontier = <<>>
           /\ call' = [call EXCEPT ![c] = [Done(next, "ok") EXCEPT !.step = "listed"]]
    BY DEF OnPage, MorePages, NamesOf, Deeper
  <1>3. CASE k.res.res # "ok" /\ Finish(c, k.res.res)
    BY <1>1, <1>3, FinishKeeps
  <1>4. ASSUME k.res.res = "ok"
        PROVE  Inv'
    <2>1. /\ k.step = "first" /\ q \in Readdirs /\ q.deep = (q.root # <<>>)
          /\ IsPrefix(k.from, q.root) /\ k.from \in Roots
          /\ k.stayed \subseteq Below(tree, k.from) /\ Below(tree, k.from) \subseteq k.ever
          /\ Rest(LeftOf(q), q.root, k.from, Range(k.out), Range(k.frontier), k.stayed, k.ever)
          /\ IsInjective(k.out) /\ IsInjective(k.frontier)
          /\ Told(q, k.stayed, k.ever, page)
      BY <1>1, <1>4 DEF CallOK, ListOK, Answered, CallRec
    <2>2. /\ k.out \in Seq(Paths) /\ k.frontier \in Seq(Paths)
          /\ k.stayed \in SUBSET Paths /\ k.ever \in SUBSET Paths
      BY <1>1 DEF CallRec
    <2>3. Range(k.out) \in SUBSET Paths /\ (k.lost => k.raced \/ k.blind)
      BY <1>1, <2>2, LenProperties DEF Range, CallOK
    <2> DEFINE S == k.stayed
               E == k.ever
               O == Range(k.out)
               F == Range(k.frontier)
               from == k.from
    <2>4. /\ q \in Readdirs /\ from \in Roots /\ IsPrefix(from, q.root) /\ Told(q, S, E, page)
          /\ Rest(LeftOf(q), q.root, from, O, F, S, E) /\ O \in SUBSET Paths /\ S \in SUBSET Paths
      BY <2>1, <2>2, <2>3
    <2>5. q = k.req /\ O = Range(k.out) /\ F = Range(k.frontier) /\ S = k.stayed /\ E = k.ever
          /\ from = k.from
      OBVIOUS
    <2> HIDE DEF S, E, O, F, from, q, page
    <2>6. /\ Rest(Beyond(q, page), q.root, from, O \cup N, F \cup M, S, E)
          /\ O \cap N = {} /\ F \cap M = {}
      BY <2>4, PageTaken
    <2>7. N \subseteq Paths /\ M \subseteq N
      BY <2>4, PageNames
    <2> HIDE DEF N, M
    <2>8. IsFiniteSet(N) /\ IsFiniteSet(M)
      BY <2>7, PuterAssumption, FS_Subset
    <2>9. /\ SetToSeq(N) \in Seq(Paths) /\ Range(SetToSeq(N)) = N /\ IsInjective(SetToSeq(N))
          /\ SetToSeq(M) \in Seq(Paths) /\ Range(SetToSeq(M)) = M /\ IsInjective(SetToSeq(M))
      <3>1. SetToSeq(N) \in Seq(Paths) /\ SetToSeq(M) \in Seq(Paths)
        BY <2>7, <2>8, SequenceOf, SeqMonotonic
      <3> QED BY <2>8, <3>1, SequenceOf
    <2>10. out \in Seq(Paths) /\ IsInjective(out) /\ Range(out) = O \cup N
      BY <2>1, <2>2, <2>5, <2>6, <2>9, TwoLists
    <2>11. frontier \in Seq(Paths) /\ IsInjective(frontier) /\ Range(frontier) = F \cup M
      BY <2>1, <2>2, <2>5, <2>6, <2>9, TwoLists
    <2> HIDE DEF out, frontier
    <2>12. /\ next \in CallRec /\ next.op = "list" /\ next.from = from /\ next.step = "first"
           /\ next.out = out /\ next.frontier = frontier /\ next.stayed = S /\ next.ever = E
      BY <1>1, <2>1, <2>5, <2>10, <2>11 DEF CallRec
    <2>13. next.lost = k.lost /\ next.raced = k.raced /\ next.blind = k.blind
      BY <1>1 DEF CallRec
    <2> HIDE DEF next, k
    <2>14. ASSUME NEW n \in CallRec, n.op = "list", n.from = from, n.step = "first", n.stayed = S,
                  n.ever = E, n.lost => n.raced \/ n.blind,
                  NEW p \in Readdirs, p.deep = (p.root # <<>>), IsPrefix(from, p.root),
                  Rest(LeftOf(p), p.root, from, Range(n.out), Range(n.frontier), S, E),
                  IsInjective(n.out), IsInjective(n.frontier),
                  call' = [call EXCEPT ![c] = Asks(n, p)]
           PROVE  Inv'
      <3> DEFINE m == Asks(n, p)
      <3>1. p \in Requests
        BY DEF Requests
      <3>2. /\ m \in CallRec /\ m.req = p /\ m.net = "cool" /\ m.ran = 0
            /\ m.op = "list" /\ m.from = from /\ m.step = "first" /\ m.out = n.out
            /\ m.frontier = n.frontier /\ m.stayed = S /\ m.ever = E
        BY <1>1, <2>14, <3>1, AskFacts
      <3>3. m.lost = n.lost /\ m.raced = n.raced /\ m.blind = n.blind
        BY <1>1, <3>1, AskFacts
      <3> HIDE DEF m
      <3>4. ListOK(m, tree)
        BY <2>14, <3>2, <2>1, <2>5 DEF ListOK, Answered
      <3>5. m.lost => m.raced \/ m.blind
        BY <2>14, <3>3
      <3>6. CallOK(m, tree)
        BY <3>2, <3>4, <3>5 DEF CallOK, NetOK, Working
      <3> QED BY <1>1, <2>14, <3>6, OneKeeps DEF m
    <2>15. next.lost => next.raced \/ next.blind
      BY <2>3, <2>13
    <2>16. ASSUME page.cursor # None, call' = [call EXCEPT ![c] = Asks(next, NextPage(q, page))]
           PROVE  Inv'
      <3> DEFINE p == NextPage(q, page)
      <3>1. p \in Readdirs /\ p.root = q.root /\ p.deep = q.deep /\ LeftOf(p) = Beyond(q, page)
        BY <2>4, <2>16, PageTurned
      <3> HIDE DEF p
      <3>2. p.deep = (p.root # <<>>) /\ IsPrefix(from, p.root)
        BY <2>1, <2>4, <3>1 DEF q
      <3> QED BY <2>10, <2>11, <2>12, <2>14, <2>15, <2>16, <3>1, <3>2, <2>6 DEF p
    <2>17. page.cursor = None => Rest({}, q.root, from, O \cup N, F \cup M, S, E)
      <3> QED BY <2>6 DEF Beyond, Upto
    <2>18. ASSUME page.cursor = None, frontier # <<>>,
                  call' = [call EXCEPT ![c] =
                    Asks([next EXCEPT !.frontier = Tail(@)], Readdir(Head(next.frontier), TRUE, None))]
           PROVE  Inv'
      <3> DEFINE h == Head(frontier)
                 rest == Tail(frontier)
                 n == [next EXCEPT !.frontier = rest]
                 p == Readdir(h, TRUE, None)
      <3>1. /\ h \in F \cup M /\ rest \in Seq(Paths) /\ IsInjective(rest)
            /\ Range(rest) = (F \cup M) \ {h}
        BY <2>11, <2>18, WithoutHead
      <3> HIDE DEF h, rest
      <3>2. /\ p \in Readdirs /\ IsPrefix(from, h) /\ h # <<>>
            /\ Rest(LeftOf(p), h, from, O \cup N, (F \cup M) \ {h}, S, E)
        BY <2>4, <2>17, <2>18, <3>1, RootTaken
      <3>3. p.root = h /\ p.deep = (p.root # <<>>)
        BY <3>2 DEF Readdir
      <3>4. /\ n \in CallRec /\ n.op = "list" /\ n.from = from /\ n.step = "first"
            /\ n.out = out /\ n.frontier = rest /\ n.stayed = S /\ n.ever = E
        BY <2>12, <3>1 DEF CallRec
      <3>5. call' = [call EXCEPT ![c] = Asks(n, p)]
        BY <2>12, <2>18 DEF h, rest
      <3>6. n.lost => n.raced \/ n.blind
        BY <2>15, <2>12 DEF CallRec
      <3> HIDE DEF n, p
      <3> QED BY <2>10, <2>14, <3>1, <3>2, <3>3, <3>4, <3>5, <3>6
    <2>19. ASSUME page.cursor = None, frontier = <<>>,
                  call' = [call EXCEPT ![c] = [Done(next, "ok") EXCEPT !.step = "listed"]]
           PROVE  Inv'
      <3> DEFINE d == Done(next, "ok")
                 m == [d EXCEPT !.step = "listed"]
      <3>1. /\ d \in CallRec /\ d.op = "done" /\ d.net = "idle" /\ d.out = out
            /\ d.stayed = S /\ d.ever = E
        BY <2>12, DoneFacts DEF Codes
      <3>2. d.lost = next.lost /\ d.raced = next.raced /\ d.blind = next.blind
        BY <2>12, DoneFacts DEF Codes
      <3> HIDE DEF d
      <3>3. /\ m \in CallRec /\ m.op = "done" /\ m.net = "idle" /\ m.out = out
            /\ m.stayed = S /\ m.ever = E
        BY <3>1 DEF CallRec
      <3>4. m.lost = d.lost /\ m.raced = d.raced /\ m.blind = d.blind
        BY <3>1 DEF CallRec
      <3> HIDE DEF m
      <3>5. F \cup M = {}
        BY <2>11, <2>19, EmptySeq DEF Range
      <3>6. O \cup N \subseteq E /\ S \subseteq O \cup N
        <4>1. Rest({}, q.root, from, O \cup N, {}, S, E)
          BY <2>17, <2>19, <3>5
        <4> QED BY <4>1 DEF Rest, Tails
      <3>7. m.lost => m.raced \/ m.blind
        BY <2>15, <3>2, <3>4
      <3>8. CallOK(m, tree)
        BY <3>3, <2>10, <3>6, <3>7 DEF CallOK, NetOK, Working, Whole
      <3> QED BY <1>1, <2>19, <3>8, OneKeeps DEF m, d
    <2> QED BY <1>2, <1>4, <2>16, <2>18, <2>19, <2>12
  <1> QED BY <1>2, <1>3, <1>4

LEMMA ProviderKeeps ==
  ASSUME Inv, NEW c \in Clients, Provider(c)
  PROVE  Inv'
  <1>1. CASE OnWritten(c) \/ OnOver(c)
    <2> QED BY <1>1, TakesFacts, FinishKeeps DEF OnWritten, OnOver
  <1>2. CASE OnMoved(c)
    BY <1>2, MovedKeeps
  <1>3. CASE OnSource(c)
    BY <1>3, SourceKeeps
  <1>4. CASE OnDest(c)
    BY <1>4, DestKeeps
  <1>5. CASE OnLooked(c)
    BY <1>5, LookedKeeps
  <1>6. CASE OnPage(c)
    BY <1>6, PageKeeps
  <1> QED BY <1>1, <1>2, <1>3, <1>4, <1>5, <1>6 DEF Provider

LEMMA TickKeeps ==
  ASSUME Inv, Tick
  PROVE  Inv'
  <1>1. TreeOK(tree) /\ tree' = tree /\ call \in [Clients -> CallRec] /\ cooldown \in Int
    BY DEF Inv, Tick
  <1>2. cooldown' \in Int
    <2>1. cooldown' = Larger(cooldown - 1, 0)
      BY DEF Tick
    <2> QED BY <1>1, <2>1 DEF Larger
  <1>3. /\ DOMAIN call' = Clients /\ call' = [c \in Clients |-> call'[c]]
        /\ \A c \in Clients : call'[c] =
             IF Busy(c)
             THEN [call[c] EXCEPT !.sleep = Larger(@ - 1, 0), !.left = Larger(@ - 1, 0)]
             ELSE call[c]
    BY DEF Tick
  <1>4. ASSUME NEW c \in Clients PROVE CallOK(call'[c], tree)
    <2> DEFINE k == call[c]
               s == Larger(k.sleep - 1, 0)
               l == Larger(k.left - 1, 0)
               m == [k EXCEPT !.sleep = s, !.left = l]
    <2>1. CallOK(k, tree) /\ k \in CallRec
      BY DEF Inv, CallOK
    <2>2. s \in Int /\ l \in Int
      BY <2>1 DEF CallRec, Larger
    <2>3. call'[c] = k \/ call'[c] = m
      BY <1>3
    <2> HIDE DEF k, s, l
    <2>4. m \in CallRec /\ m.net = k.net /\ m.res = k.res
      BY <2>1, <2>2 DEF CallRec
    <2>5. SameTask(k, m)
      BY <2>1 DEF CallRec, SameTask
    <2>6. CallOK(m, tree)
      BY <2>1, <2>4, <2>5, TaskKeeps
    <2> QED BY <2>1, <2>3, <2>6
  <1> QED BY <1>1, <1>2, <1>4, <1>3 DEF Inv, CallOK

LEMMA ForeignKeeps ==
  ASSUME Inv, Foreign
  PROVE  Inv'
  <1>1. PICK p \in Paths, what \in {"dir", "file", "none"} :
          /\ what # "none" => IsDir(tree, Front(p)) /\ tree[p] = "none"
          /\ tree' = IF what = "none" THEN Without(tree, p) ELSE [tree EXCEPT ![p] = what]
          /\ call' = Seen(tree')
    BY DEF Foreign
  <1>2. TreeOK(tree) /\ cooldown' \in Int
    BY DEF Inv, Foreign
  <1>3. TreeOK(tree')
    <2>1. CASE what = "none"
      BY <1>1, <1>2, <2>1, WithoutOK
    <2>2. CASE what # "none"
      <3> QED BY <1>1, <2>2, <1>2, PlacedOK DEF Kinds
    <2> QED BY <2>1, <2>2
  <1>4. /\ call' = [c \in Clients |-> call'[c]]
        /\ \A c \in Clients : call'[c] = SeenOf(call[c], tree, tree')
    BY <1>1 DEF Seen, SeenOf
  <1>5. \A c \in Clients : CallOK(call'[c], tree')
    BY <1>2, <1>3, <1>4, SeenKeeps DEF Inv
  <1> QED BY <1>2, <1>3, <1>5, <1>4 DEF Inv, CallOK

LEMMA InvKept ==
  ASSUME Inv, [Next]_vars
  PROVE  Inv'
  <1>1. CASE \E c \in Clients : Begin(c) \/ Request(c) \/ Provider(c)
    BY <1>1, BeginKeeps, RequestKeeps, ProviderKeeps
  <1>2. CASE Tick
    BY <1>2, TickKeeps
  <1>3. CASE Foreign
    BY <1>3, ForeignKeeps
  <1>4. CASE Elsewhere
    <2>1. PICK wait \in 1..MaxWait : cooldown' = Larger(cooldown, wait)
      BY <1>4 DEF Elsewhere
    <2> QED BY <1>4, <2>1, PuterAssumption DEF Inv, Larger, Elsewhere
  <1>5. CASE UNCHANGED vars
    BY <1>5 DEF vars, Inv
  <1> QED BY <1>1, <1>2, <1>3, <1>4, <1>5 DEF Next

LEMMA InvAlways ==
  Spec => []Inv
BY InvInit, InvKept, PTL DEF Spec

-----------------------------------------------------------------------------
(* The theorems *)

\* The transport asks again for what was refused and for nothing else, so no request of the
\* provider is performed twice (PuterApi.fetch); and rename, whose last request may delete a
\* tree, sends it only when it has seen that nothing is lost by it, or could not see
\* (lib/vfs/puter.ts): for any number of calls, any throttling and any other clients.
THEOREM CallsAreDoneOnce ==
  Spec => []DoneOnce
  <1>1. Inv => DoneOnce
    BY DEF Inv, CallOK, NetOK, Working, Busy, DoneOnce, PerformedOnce, NoTreeLost
  <1> QED BY <1>1, InvAlways, PTL

\* A recursive listing (puter-readdir.ts) that is answered is whole: all that stayed, nothing
\* that never was, and nothing twice; for any depth of the tree and of a request, wherever the
\* pages end, and whatever other clients do meanwhile.
THEOREM ListingsAreWhole ==
  Spec => []ListingWhole
  <1>1. Inv => ListingWhole
    BY DEF Inv, CallOK, Whole, ListingWhole
  <1> QED BY <1>1, InvAlways, PTL
=============================================================================
