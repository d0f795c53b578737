------------------------- MODULE FileHandles_proofs -------------------------
(***************************************************************************)
(* What open files keep for any number of paths, descriptors, opens,       *)
(* sessions and operations: the buffer of a handle tells what was not      *)
(* uploaded, a close loses nothing silently, opens are kept apart by the   *)
(* lock of their path, and a flush by path shows what was written.         *)
(*                                                                         *)
(* HandleOK is the invariant of one handle; every operation either ends    *)
(* (Ends) or goes to its next await (Waits), and both keep it.  StateOK    *)
(* puts the handles together with the opens and the flushes, and Apart     *)
(* says what the locks are for.                                            *)
(***************************************************************************)
EXTENDS FileHandles, TLAPS, FiniteSetTheorems, SequenceTheorems, WellFoundedInduction

-----------------------------------------------------------------------------
(* Numbers and bytes *)

\* Every set of numbers has a least one: by the finite intervals below them.
LEMMA LeastExists ==
  ASSUME NEW S \in SUBSET Nat, S # {}
  PROVE  \E x \in S : \A y \in S : x <= y
  <1> DEFINE T == {0..(k - 1) : k \in S}
             R == StrictSubsetOrdering(Nat)
  <1>1. T \subseteq FiniteSubsetsOf(Nat) /\ T # {}
    <2>1. \A k \in S : 0..(k - 1) \in SUBSET Nat /\ IsFiniteSet(0..(k - 1))
      <3> TAKE k \in S
      <3>1. k \in Nat /\ k - 1 \in Int
        OBVIOUS
      <3>2. IsFiniteSet(0..(k - 1))
        BY <3>1, FS_Interval
      <3>3. 0..(k - 1) \subseteq Nat
        BY <3>1
      <3> QED BY <3>2, <3>3
    <2> QED BY <2>1 DEF FiniteSubsetsOf
  <1>2. IsWellFoundedOn(R, FiniteSubsetsOf(Nat))
    BY FS_StrictSubsetOrderingWellFounded
  <1> HIDE DEF R
  <1>3. PICK D \in T : \A E \in T : ~ (<<E, D>> \in R)
    BY <1>1, <1>2, WFMin
  <1>4. PICK k \in S : D = 0..(k - 1)
    BY <1>3
  <1>5. ASSUME NEW y \in S, y < k PROVE FALSE
    <2>1. 0..(y - 1) \subseteq 0..(k - 1) /\ 0..(k-1) \subseteq Nat
      BY <1>5
    <2>2. y \in 0..(k - 1) /\ y \notin 0..(y - 1)
      BY <1>5
    <2>3. <<0..(y - 1), D>> \in R
      BY <2>1, <2>2, <1>4 DEF R, StrictSubsetOrdering
    <2> QED BY <2>3, <1>3
  <1> QED BY <1>5

\* Min of the community modules is what its name says ...
LEMMA MinIn ==
  ASSUME NEW S \in SUBSET Nat, S # {}
  PROVE  Min(S) \in S /\ \A y \in S : Min(S) <= y
BY LeastExists DEF Min

\* ... and so is Max, on a set with a bound.
LEMMA MaxIn ==
  ASSUME NEW n \in Nat, NEW S \in SUBSET (0..n), S # {}
  PROVE  Max(S) \in S
  <1> DEFINE T == {n - k : k \in S}
  <1>1. T \in SUBSET Nat /\ T # {}
    <2>1. \A k \in S : n - k \in Nat
      OBVIOUS
    <2> QED BY <2>1
  <1>2. PICK x \in T : \A y \in T : x <= y
    <2> HIDE DEF T
    <2> QED BY <1>1, LeastExists
  <1>3. PICK k \in S : x = n - k
    BY <1>2
  <1>4. ASSUME NEW j \in S PROVE k >= j
    <2>1. n - j \in T
      OBVIOUS
    <2>2. n - k <= n - j
      BY <1>2, <1>3, <2>1
    <2> HIDE DEF T
    <2>3. j \in Nat /\ k \in Nat
      OBVIOUS
    <2> QED BY <2>2, <2>3
  <1> QED BY <1>4 DEF Max

\* A function on 1..n is a sequence of length n.
LEMMA FunctionIsSeq ==
  ASSUME NEW n \in Nat, NEW S, NEW f \in [1..n -> S]
  PROVE  f \in Seq(S) /\ Len(f) = n
  <1>1. f \in Seq(S)
    BY SeqDef
  <1>2. DOMAIN f = 1..Len(f) /\ Len(f) \in Nat
    BY <1>1, LenProperties
  <1>3. DOMAIN f = 1..n
    OBVIOUS
  <1>4. CASE Len(f) < n
    <2>1. n \in 1..n /\ n \notin 1..Len(f)
      BY <1>2, <1>4
    <2> QED BY <1>2, <1>3, <2>1
  <1>5. CASE Len(f) > n
    <2>1. Len(f) \in 1..Len(f) /\ Len(f) \notin 1..n
      BY <1>2, <1>5
    <2> QED BY <1>2, <1>3, <2>1
  <1> QED BY <1>1, <1>2, <1>4, <1>5

\* A byte is the number of an operation, or 0.
LEMMA BytesOfWrites ==
  /\ 0 \in Bytes
  /\ \A o \in Op : o.id \in Bytes /\ o.id \in Nat /\ o.len \in Nat /\ (o.pos # Null => o.pos \in Nat)
  <1>1. MaxOps \in Nat /\ Positions \subseteq Nat /\ Lengths \subseteq Nat
    BY HandlesAssumption
  <1>2. 0 \in Bytes /\ \A i \in 1..MaxOps : i \in Bytes /\ i \in Nat
    BY <1>1 DEF Bytes
  <1>3. \A o \in Op : o.id \in 1..MaxOps /\ o.len \in Lengths /\ o.pos \in Positions \cup {Null}
    BY DEF Op
  <1> QED BY <1>1, <1>2, <1>3

\* splice and resize make bytes of bytes.
LEMMA SpliceBytes ==
  ASSUME NEW b \in Seq(Bytes), NEW at \in Nat, NEW t \in Bytes
  PROVE  Splice(b, at, t) \in Seq(Bytes)
  <1> DEFINE n == Later(Len(b), at + 1)
  <1>1. Len(b) \in Nat /\ \A i \in 1..Len(b) : b[i] \in Bytes
    BY LenProperties
  <1>2. n \in Nat
    BY <1>1 DEF Later
  <1> HIDE DEF n
  <1>3. Splice(b, at, t) = [i \in 1..n |-> IF i = at + 1 THEN t ELSE IF i <= Len(b) THEN b[i] ELSE 0]
    BY DEF Splice, n
  <1>4. Splice(b, at, t) \in [1..n -> Bytes]
    BY <1>1, <1>2, <1>3, BytesOfWrites
  <1> QED BY <1>2, <1>4, FunctionIsSeq

\* ... also when a buffer is cut or grown.
LEMMA ResizeBytes ==
  ASSUME NEW b \in Seq(Bytes), NEW n \in Nat
  PROVE  Resize(b, n) \in Seq(Bytes)
  <1>1. Len(b) \in Nat /\ \A i \in 1..Len(b) : b[i] \in Bytes
    BY LenProperties
  <1>2. Resize(b, n) \in [1..n -> Bytes]
    BY <1>1, BytesOfWrites DEF Resize
  <1> QED BY <1>2, FunctionIsSeq

-----------------------------------------------------------------------------
(* A handle *)

Fragments == UNION {[D -> Bytes] : D \in SUBSET Nat}

Handles == HandleRec(Fragments)

\* The queue of a handle is in the order of submission, after what it has taken.
Queued(h, n) ==
  /\ \A i \in DOMAIN h.queue : h.wrote < h.queue[i].id /\ h.queue[i].id <= n
  /\ \A i, j \in DOMAIN h.queue : i < j => h.queue[i].id < h.queue[j].id

\* What its flags say of what it has taken and what was uploaded.
Standing(h, n) ==
  /\ h.sent <= h.wrote /\ h.wrote <= n
  /\ h.dirty \/ h.at \in {"upload", "mtime"} => h.buf \in Seq(Bytes)
  /\ h.at # "upload" => (h.dirty <=> h.sent # h.wrote)
  /\ h.at = "upload" => ~ h.dirty /\ h.sent # h.wrote
  /\ h.mtime => h.dirty \/ h.at = "upload"

\* The await it is at is one of the operation at the head of its queue.
Working(h) ==
  /\ h.at # "idle" => h.queue # <<>>
  /\ h.at = "fill" => Head(h.queue).t \in ReadOps \cup WriteOps
  /\ h.at = "mtime" => Head(h.queue).t \in WriteOps
  /\ h.at = "upload" => Head(h.queue).t \in {"sync", "close"}
  /\ h.at \in {"size", "range"} => Head(h.queue).t = "read"
  /\ h.at = "stat" => Head(h.queue).t = "stat"

\* A close is the last operation of a handle.
Ending(h) ==
  /\ h.st = "open" => \A i \in DOMAIN h.queue : h.queue[i].t # "close"
  /\ h.st = "closing" =>
       /\ ~ h.held /\ h.queue # <<>>
       /\ \A i \in DOMAIN h.queue : h.queue[i].t = "close" <=> i = Len(h.queue)
  /\ h.st = "closed" => ~ h.held /\ h.queue = <<>> /\ (h.sent = h.wrote \/ h.lost)

HandleOK(h, n) ==
  h \in Handles /\ Queued(h, n) /\ Standing(h, n) /\ Working(h) /\ Ending(h)

\* What a handle g is, by the end of the operation at the head of the queue of h.
Ends(h, g) ==
  /\ g \in Handles
  /\ g.path = h.path /\ g.held = h.held /\ g.queue = h.queue /\ g.st = h.st
  /\ h.sent <= g.sent /\ g.sent <= g.wrote
  /\ h.wrote <= g.wrote /\ g.wrote <= Head(h.queue).id
  /\ g.dirty <=> g.sent # g.wrote
  /\ g.dirty => g.buf \in Seq(Bytes)
  /\ g.mtime => g.dirty
  /\ Head(h.queue).t = "close" => g.sent = g.wrote \/ g.lost

\* ... and when it goes to an await of that operation.
Waits(h, g, l) ==
  /\ g \in Handles
  /\ g.path = h.path /\ g.held = h.held /\ g.queue = h.queue /\ g.st = h.st
  /\ g.sent = h.sent /\ g.wrote = h.wrote
  /\ l \in {"fill", "mtime", "size", "range", "stat", "upload"}
  /\ g.dirty \/ l \in {"upload", "mtime"} => g.buf \in Seq(Bytes)
  /\ l # "upload" => (g.dirty <=> g.sent # g.wrote)
  /\ l = "upload" => ~ g.dirty /\ g.sent # g.wrote
  /\ g.mtime => g.dirty \/ l = "upload"
  /\ l = "fill" => Head(h.queue).t \in ReadOps \cup WriteOps
  /\ l = "mtime" => Head(h.queue).t \in WriteOps
  /\ l = "upload" => Head(h.queue).t \in {"sync", "close"}
  /\ l \in {"size", "range"} => Head(h.queue).t = "read"
  /\ l = "stat" => Head(h.queue).t = "stat"

\* The operation at the head of a queue, and what is left behind it.
LEMMA HeadIsFirst ==
  ASSUME NEW h \in Handles, h.queue # <<>>
  PROVE  /\ Len(h.queue) \in Nat \ {0} /\ DOMAIN h.queue = 1..Len(h.queue)
         /\ Head(h.queue) = h.queue[1] /\ Head(h.queue) \in Op
         /\ Tail(h.queue) \in Seq(Op) /\ Len(Tail(h.queue)) = Len(h.queue) - 1
         /\ DOMAIN Tail(h.queue) = 1..(Len(h.queue) - 1)
         /\ \A i \in 1..(Len(h.queue) - 1) : Tail(h.queue)[i] = h.queue[i + 1]
  <1>1. h.queue \in Seq(Op)
    BY DEF Handles, HandleRec
  <1> QED BY <1>1, HeadTailProperties, LenProperties, EmptySeq

\* An await keeps the invariant of a handle ...
LEMMA AwaitKeeps ==
  ASSUME NEW n \in Nat, NEW h, HandleOK(h, n), h.queue # <<>>, NEW g, NEW l, Waits(h, g, l)
  PROVE  HandleOK([g EXCEPT !.at = l], n)
  <1> DEFINE k == [g EXCEPT !.at = l]
  <1>1. k \in Handles
    BY DEF Waits, Handles, HandleRec
  <1>2. /\ k.at = l /\ k.queue = h.queue /\ k.st = h.st /\ k.held = h.held
        /\ k.sent = h.sent /\ k.wrote = h.wrote
        /\ k.dirty = g.dirty /\ k.buf = g.buf /\ k.mtime = g.mtime /\ k.lost = g.lost
    BY DEF Waits, Handles, HandleRec
  <1> HIDE DEF k
  <1>3. Queued(k, n)
    BY <1>2 DEF Queued, HandleOK
  <1>4. Standing(k, n)
    BY <1>2 DEF Standing, HandleOK, Waits
  <1>5. Working(k)
    BY <1>2 DEF Working, HandleOK, Waits
  <1>6. Ending(k)
    BY <1>2 DEF Ending, HandleOK
  <1> QED BY <1>1, <1>3, <1>4, <1>5, <1>6 DEF HandleOK, k

\* ... and so does the end of an operation.
LEMMA SettleKeeps ==
  ASSUME NEW n \in Nat, NEW h, HandleOK(h, n), h.queue # <<>>, NEW g, Ends(h, g)
  PROVE  HandleOK([g EXCEPT !.queue = Tail(@), !.at = "idle",
                            !.st = IF Head(h.queue).t = "close" THEN "closed" ELSE @], n)
  <1> DEFINE e == IF Head(h.queue).t = "close" THEN "closed" ELSE h.st
             q == Tail(h.queue)
             k == [g EXCEPT !.queue = q, !.at = "idle", !.st = e]
             L == Len(h.queue)
  <1>1. /\ L \in Nat \ {0} /\ DOMAIN h.queue = 1..L
        /\ Head(h.queue) = h.queue[1] /\ Head(h.queue) \in Op
        /\ q \in Seq(Op) /\ Len(q) = L - 1
        /\ DOMAIN q = 1..(L - 1)
        /\ \A i \in 1..(L - 1) : q[i] = h.queue[i + 1]
    BY HeadIsFirst DEF HandleOK
  <1>2. [g EXCEPT !.queue = Tail(@), !.at = "idle",
                  !.st = IF Head(h.queue).t = "close" THEN "closed" ELSE @] = k
    BY DEF Ends, Handles, HandleRec
  <1>3. e \in {"open", "closing", "closed"}
    BY DEF HandleOK, Handles, HandleRec
  <1> HIDE DEF e, q
  <1>4. k \in Handles
    BY <1>1, <1>3 DEF Ends, Handles, HandleRec
  <1>5. /\ k.at = "idle" /\ k.queue = q /\ k.st = e /\ k.held = h.held
        /\ k.sent = g.sent /\ k.wrote = g.wrote
        /\ k.dirty = g.dirty /\ k.buf = g.buf /\ k.mtime = g.mtime /\ k.lost = g.lost
    BY DEF Ends, Handles, HandleRec
  <1>6. g.wrote \in Nat /\ g.sent \in Nat /\ \A i \in 1..L : h.queue[i].id \in Nat
    <2>1. \A i \in 1..L : h.queue[i] \in Op
      BY <1>1, LenProperties DEF HandleOK, Handles, HandleRec
    <2> QED BY <2>1, BytesOfWrites DEF Ends, Handles, HandleRec
  <1> HIDE DEF k, L
  <1>7. Queued(k, n)
    <2>1. \A i \in 1..(L - 1) : i + 1 \in 1..L /\ 1 < i + 1 /\ 1 \in 1..L
      BY <1>1
    <2>2. \A i \in 1..(L - 1) : h.queue[1].id < h.queue[i + 1].id /\ h.queue[i + 1].id <= n
      BY <1>1, <2>1 DEF HandleOK, Queued
    <2>3. \A i \in 1..(L - 1) : g.wrote < h.queue[i + 1].id
      BY <1>1, <1>6, <2>1, <2>2 DEF Ends
    <2>4. \A i, j \in 1..(L - 1) : i < j => h.queue[i + 1].id < h.queue[j + 1].id
      <3> TAKE i, j \in 1..(L - 1)
      <3> HAVE i < j
      <3>1. i + 1 < j + 1
        BY <1>1
      <3> QED BY <2>1, <1>1, <3>1 DEF HandleOK, Queued
    <2>5. \A i \in 1..(L - 1) : k.wrote < k.queue[i].id /\ k.queue[i].id <= n
      BY <1>1, <1>5, <2>2, <2>3
    <2>6. \A i, j \in 1..(L - 1) : i < j => k.queue[i].id < k.queue[j].id
      BY <1>1, <1>5, <2>4
    <2>7. DOMAIN k.queue = 1..(L - 1)
      BY <1>1, <1>5
    <2> QED BY <2>5, <2>6, <2>7 DEF Queued
  <1>8. Standing(k, n)
    <2>1. g.wrote <= n
      <3>1. h.queue[1].id <= n
        BY <1>1 DEF HandleOK, Queued
      <3> QED BY <1>1, <1>6, <3>1 DEF Ends
    <2> QED BY <1>5, <2>1 DEF Standing, Ends
  <1>9. Working(k)
    BY <1>5 DEF Working
  <1>10. Ending(k)
    <2>1. CASE Head(h.queue).t = "close"
      <3>1. h.st = "closing"
        <4>1. h.st \in {"open", "closing", "closed"}
          BY DEF HandleOK, Handles, HandleRec
        <4>2. 1 \in DOMAIN h.queue /\ h.queue[1].t = "close"
          BY <1>1, <2>1
        <4> QED BY <4>1, <4>2 DEF HandleOK, Ending
      <3>2. L = 1 /\ ~ h.held
        <4>1. 1 \in DOMAIN h.queue /\ h.queue[1].t = "close"
          BY <1>1, <2>1
        <4> QED BY <3>1, <4>1 DEF HandleOK, Ending, L
      <3>3. q = <<>>
        BY <1>1, <3>2, EmptySeq
      <3> QED BY <1>5, <2>1, <3>2, <3>3 DEF Ending, Ends, e
    <2>2. CASE Head(h.queue).t # "close"
      <3>1. k.st = h.st
        BY <1>5, <2>2 DEF e
      <3>2. CASE h.st = "open"
        <4>1. \A i \in 1..(L - 1) : h.queue[i + 1].t # "close"
          BY <1>1, <3>2 DEF HandleOK, Ending
        <4> QED BY <1>1, <1>5, <3>1, <3>2, <4>1 DEF Ending
      <3>3. CASE h.st = "closing"
        <4>1. \A i \in 1..L : h.queue[i].t = "close" <=> i = L
          BY <1>1, <3>3 DEF HandleOK, Ending, L
        <4>2. L # 1
          BY <1>1, <2>2, <4>1
        <4>3. q # <<>>
          BY <1>1, <4>2, EmptySeq
        <4>4. \A i \in 1..(L - 1) : q[i].t = "close" <=> i = L - 1
          BY <1>1, <4>1
        <4>5. ~ h.held
          BY <3>3 DEF HandleOK, Ending
        <4> QED BY <1>1, <1>5, <3>1, <3>3, <4>3, <4>4, <4>5 DEF Ending
      <3>4. CASE h.st = "closed"
        BY <3>4 DEF HandleOK, Ending
      <3> QED BY <3>2, <3>3, <3>4 DEF HandleOK, Handles, HandleRec
    <2> QED BY <2>1, <2>2
  <1> QED BY <1>2, <1>4, <1>7, <1>8, <1>9, <1>10 DEF HandleOK, k

-----------------------------------------------------------------------------
(* The operations *)

\* What a read answers has a length.
LEMMA ReadLength ==
  ASSUME NEW h \in Handles, NEW o \in Op
  PROVE  /\ Start(h, o) \in Nat
         /\ h.buf \in Seq(Bytes) => Len(FromBuffer(h, o)) \in Nat
         /\ Len(FromFragments(h, o)) \in Nat
  <1>1. Start(h, o) \in Nat
    BY BytesOfWrites DEF Start, Handles, HandleRec
  <1>2. ASSUME h.buf \in Seq(Bytes)
        PROVE  Len(FromBuffer(h, o)) \in Nat
    <2> DEFINE from == Start(h, o) + 1
               to == Least(Start(h, o) + o.len, Len(h.buf))
    <2>1. from \in Int /\ from >= 1 /\ to \in Int /\ to <= Len(h.buf) /\ Len(h.buf) \in Nat
      BY <1>1, <1>2, BytesOfWrites, LenProperties DEF Least
    <2>2. FromBuffer(h, o) = SubSeq(h.buf, from, to)
      BY DEF FromBuffer, Sub
    <2> HIDE DEF from, to
    <2>3. \A i \in from..to : h.buf[i] \in Bytes
      BY <1>2, <2>1, LenProperties
    <2>4. Len(SubSeq(h.buf, from, to)) = IF from <= to THEN to - from + 1 ELSE 0
      BY <2>1, <2>3, SubSeqProperties
    <2> QED BY <2>1, <2>2, <2>4
  <1>3. Len(FromFragments(h, o)) \in Nat
    <2> DEFINE K == {k \in 0..o.len : \A i \in 0..(k - 1) : Start(h, o) + i \in DOMAIN h.frag}
               n == Max(K)
               f == [i \in 1..n |-> h.frag[Start(h, o) + i - 1]]
    <2>1. o.len \in Nat
      BY BytesOfWrites
    <2>2. 0 \in K
      BY <2>1
    <2>3. n \in K
      BY <2>1, <2>2, MaxIn
    <2>4. n \in Nat
      BY <2>1, <2>3
    <2>5. FromFragments(h, o) = f
      BY DEF FromFragments
    <2> HIDE DEF n
    <2>6. f \in [1..n -> {f[i] : i \in 1..n}]
      OBVIOUS
    <2> HIDE DEF f
    <2> QED BY <2>4, <2>5, <2>6, FunctionIsSeq
  <1> QED BY <1>1, <1>2, <1>3

\* What a write operation makes of a handle with a filled buffer.
LEMMA AppliedHandle ==
  ASSUME NEW h \in Handles, h.buf \in Seq(Bytes), NEW o \in Op, o.t \in WriteOps
  PROVE  LET g == Applied(h, o)
         IN /\ g \in Handles /\ g.buf \in Seq(Bytes)
            /\ g.path = h.path /\ g.held = h.held /\ g.queue = h.queue /\ g.st = h.st
            /\ g.sent = h.sent /\ g.mtime = h.mtime /\ g.lost = h.lost
            /\ g.dirty = TRUE /\ g.wrote = o.id
  <1> DEFINE end == Later(Len(h.buf), h.cursor)
             at == Target(h, o)
             d == [h EXCEPT !.dirty = TRUE, !.wrote = o.id]
             W(g) == /\ g \in Handles /\ g.buf \in Seq(Bytes)
                     /\ g.path = h.path /\ g.held = h.held /\ g.queue = h.queue /\ g.st = h.st
                     /\ g.sent = h.sent /\ g.mtime = h.mtime /\ g.lost = h.lost
                     /\ g.dirty = TRUE /\ g.wrote = o.id
  <1>1. Len(h.buf) \in Nat /\ h.cursor \in Nat /\ h.pos \in Nat
    BY LenProperties DEF Handles, HandleRec
  <1>2. end \in Nat /\ at \in Nat
    BY <1>1, BytesOfWrites DEF Later, Target
  <1>3. /\ o.id \in Bytes /\ o.len \in Nat
        /\ <<o.id>> \in Seq(Bytes)
    BY BytesOfWrites
  <1>4. <<>> \in Fragments
    <2>1. <<>> \in [{} -> Bytes]
      OBVIOUS
    <2> QED BY <2>1 DEF Fragments
  <1>5. d \in Handles /\ W([d EXCEPT !.buf = h.buf])
    <2>1. o.id \in 0..MaxOps
      BY <1>3 DEF Bytes
    <2>2. d \in Handles
      BY <2>1 DEF Handles, HandleRec
    <2> QED BY <2>2 DEF Handles, HandleRec
  <1>6. /\ Splice(h.buf, at, o.id) \in Seq(Bytes) /\ Splice(h.buf, end, o.id) \in Seq(Bytes)
        /\ Resize(h.buf, o.len) \in Seq(Bytes)
    BY <1>2, <1>3, SpliceBytes, ResizeBytes
  <1>7. ASSUME NEW b \in Seq(Bytes), NEW c \in Nat, NEW p \in Nat, NEW f \in Fragments
        PROVE  W([d EXCEPT !.buf = b, !.cursor = c, !.pos = p, !.frag = f])
    <2> DEFINE g == [d EXCEPT !.buf = b, !.cursor = c, !.pos = p, !.frag = f]
    <2>1. g \in Handles
      BY <1>5 DEF Handles, HandleRec
    <2>2. /\ g.path = h.path /\ g.held = h.held /\ g.queue = h.queue /\ g.st = h.st
          /\ g.sent = h.sent /\ g.mtime = h.mtime /\ g.lost = h.lost
      BY DEF Handles, HandleRec
    <2>3. g.buf = b /\ g.dirty = TRUE /\ g.wrote = o.id
      BY DEF Handles, HandleRec
    <2> HIDE DEF g
    <2> QED BY <2>1, <2>2, <2>3 DEF g
  <1> HIDE DEF end, at, W
  <1>8. \E b \in Seq(Bytes), c \in Nat, p \in Nat, f \in Fragments :
          Applied(h, o) = [d EXCEPT !.buf = b, !.cursor = c, !.pos = p, !.frag = f]
    <2>1. CASE o.t = "write"
      <3> DEFINE c == IF Appends(h.mode) THEN at + 1 ELSE h.cursor
                 p == IF Appends(h.mode) \/ o.pos = Null THEN at + 1 ELSE h.pos
                 b == Splice(h.buf, at, o.id)
      <3>1. Applied(h, o) = [d EXCEPT !.buf = b, !.cursor = c, !.pos = p]
        BY <2>1 DEF Applied, at, end, Handles, HandleRec
      <3>2. c \in Nat /\ p \in Nat /\ b \in Seq(Bytes) /\ h.frag \in Fragments
        BY <1>1, <1>2, <1>6 DEF Handles, HandleRec
      <3> HIDE DEF b, c, p
      <3>3. Applied(h, o) = [d EXCEPT !.buf = b, !.cursor = c, !.pos = p, !.frag = h.frag]
        BY <3>1 DEF Handles, HandleRec
      <3> QED BY <3>2, <3>3
    <2>2. CASE o.t = "appendFile"
      <3> DEFINE b == Splice(h.buf, end, o.id)
      <3>1. Applied(h, o) = [d EXCEPT !.buf = b, !.cursor = end + 1, !.pos = end + 1]
        BY <2>2 DEF Applied, at, end, Handles, HandleRec
      <3>2. end + 1 \in Nat /\ b \in Seq(Bytes) /\ h.frag \in Fragments
        BY <1>2, <1>6 DEF Handles, HandleRec
      <3> HIDE DEF b
      <3>3. Applied(h, o) = [d EXCEPT !.buf = b, !.cursor = end + 1, !.pos = end + 1, !.frag = h.frag]
        BY <3>1 DEF Handles, HandleRec
      <3> QED BY <3>2, <3>3
    <2>3. CASE o.t = "writeFile"
      <3>1. Applied(h, o) = [d EXCEPT !.buf = <<o.id>>, !.cursor = 1, !.pos = 1, !.frag = <<>>]
        BY <2>3 DEF Applied, Handles, HandleRec
      <3> QED BY <3>1, <1>3, <1>4
    <2>4. CASE o.t = "truncate"
      <3> DEFINE b == Resize(h.buf, o.len)
      <3>1. Applied(h, o) = [d EXCEPT !.buf = b, !.cursor = o.len, !.frag = <<>>]
        BY <2>4 DEF Applied, Handles, HandleRec
      <3> HIDE DEF b
      <3>2. Applied(h, o) = [d EXCEPT !.buf = b, !.cursor = o.len, !.pos = h.pos, !.frag = <<>>]
        BY <3>1 DEF Handles, HandleRec
      <3> QED BY <3>2, <1>1, <1>3, <1>4, <1>6 DEF b
    <2> QED BY <2>1, <2>2, <2>3, <2>4 DEF WriteOps
  <1> HIDE DEF d
  <1>9. W(Applied(h, o))
    <2>1. PICK b \in Seq(Bytes), c \in Nat, p \in Nat, f \in Fragments :
                 Applied(h, o) = [d EXCEPT !.buf = b, !.cursor = c, !.pos = p, !.frag = f]
      BY <1>8
    <2>2. W([d EXCEPT !.buf = b, !.cursor = c, !.pos = p, !.frag = f])
      BY <1>7
    <2> HIDE DEF d
    <2> QED BY <2>1, <2>2, Zenon
  <1> QED BY <1>9 DEF W

\* A handle g that differs from h in what it reads, not in what it owes.
Same(h, g) ==
  /\ g \in Handles
  /\ g.path = h.path /\ g.held = h.held /\ g.queue = h.queue /\ g.st = h.st
  /\ g.sent = h.sent /\ g.wrote = h.wrote /\ g.dirty = h.dirty /\ g.mtime = h.mtime
  /\ g.lost = h.lost
  /\ h.buf \in Seq(Bytes) => g.buf \in Seq(Bytes)

\* An operation that only read may end on such a handle ...
LEMMA SameEnds ==
  ASSUME NEW n \in Nat, NEW h, HandleOK(h, n), h.queue # <<>>, h.at # "upload",
         Head(h.queue).t = "close" => ~ h.dirty, NEW g, Same(h, g)
  PROVE  Ends(h, g)
  <1>1. h.wrote <= Head(h.queue).id /\ h.sent <= h.wrote
    <2>1. h.wrote \in Nat /\ 1 \in DOMAIN h.queue /\ Head(h.queue) = h.queue[1] /\ h.queue[1].id \in Nat
      BY HeadIsFirst, BytesOfWrites, HandlesAssumption DEF HandleOK, Handles, HandleRec
    <2>2. h.wrote < h.queue[1].id
      BY <2>1 DEF HandleOK, Queued
    <2> QED BY <2>1, <2>2 DEF HandleOK, Standing
  <1>2. h.sent \in Nat /\ h.wrote \in Nat
    BY HandlesAssumption DEF HandleOK, Handles, HandleRec
  <1> QED BY <1>1, <1>2 DEF Same, Ends, HandleOK, Standing

\* ... or await more.
LEMMA SameWaits ==
  ASSUME NEW n \in Nat, NEW h, HandleOK(h, n), h.queue # <<>>, h.at # "upload", NEW g, Same(h, g),
         NEW l \in {"fill", "mtime", "size", "range", "stat"},
         l = "fill" => Head(h.queue).t \in ReadOps \cup WriteOps,
         l = "mtime" => Head(h.queue).t \in WriteOps /\ g.buf \in Seq(Bytes),
         l \in {"size", "range"} => Head(h.queue).t = "read",
         l = "stat" => Head(h.queue).t = "stat"
  PROVE  Waits(h, g, l)
BY DEF Same, Waits, HandleOK, Standing

\* A write operation ends with what it applied.
LEMMA AppliedEnds ==
  ASSUME NEW n \in Nat, NEW h, HandleOK(h, n), h.queue # <<>>, h.at # "upload",
         Head(h.queue).t \in WriteOps, h.buf \in Seq(Bytes), NEW m \in BOOLEAN
  PROVE  Ends(h, Applied([h EXCEPT !.mtime = m], Head(h.queue)))
  <1> DEFINE o == Head(h.queue)
             k == [h EXCEPT !.mtime = m]
             g == Applied(k, o)
  <1>1. o \in Op /\ 1 \in DOMAIN h.queue /\ o = h.queue[1]
    BY HeadIsFirst DEF HandleOK
  <1>2. /\ k \in Handles /\ k.buf = h.buf /\ k.path = h.path /\ k.held = h.held
        /\ k.queue = h.queue /\ k.st = h.st /\ k.sent = h.sent
    BY DEF HandleOK, Handles, HandleRec
  <1>3. /\ h.sent \in Nat /\ h.wrote \in Nat /\ o.id \in Nat
        /\ h.sent <= h.wrote /\ h.wrote < o.id
    BY <1>1, BytesOfWrites, HandlesAssumption DEF HandleOK, Queued, Standing, Handles, HandleRec
  <1>4. o.t \in WriteOps /\ o.t # "close"
    BY DEF WriteOps
  <1> HIDE DEF k, o
  <1>5. /\ g \in Handles /\ g.buf \in Seq(Bytes)
        /\ g.path = h.path /\ g.held = h.held /\ g.queue = h.queue /\ g.st = h.st
        /\ g.sent = h.sent /\ g.dirty = TRUE /\ g.wrote = o.id
    BY <1>1, <1>2, <1>4, AppliedHandle
  <1> HIDE DEF g
  <1>6. Ends(h, g)
    BY <1>3, <1>4, <1>5 DEF Ends, o
  <1> QED BY <1>6 DEF g, k, o

\* The handles, their count and the storage.
HandlesOK == hs \in Seq(Handles) /\ \A fd \in DOMAIN hs : HandleOK(hs[fd], nops)
FilesOK == file \in [Paths -> [exists : BOOLEAN, data : Seq(Bytes)]]

\* A step of handle fd: the operation at the head of its queue ends, or goes to its
\* next await.  A sync that does not fail has uploaded what the handle took.
Served(fd) ==
  \/ \E g, res : /\ Settle(fd, g, res) /\ Ends(hs[fd], g)
                 /\ HeadOf(fd).t = "sync" /\ res # Failed => g.sent = g.wrote
  \/ \E g, l : Await(fd, g, l) /\ Waits(hs[fd], g, l)

\* Reads, stats and what the mode denies.
LEMMA Served_Reads ==
  ASSUME HandlesOK, FilesOK, nops \in Nat, NEW fd \in DOMAIN hs,
         Deny(fd) \/ BeginRead(fd) \/ BeginReadFile(fd) \/ BeginStat(fd)
  PROVE  Served(fd)
  <1> DEFINE h == hs[fd]
             o == HeadOf(fd)
  <1>1. HandleOK(h, nops) /\ h \in Handles
    BY DEF HandlesOK, HandleOK
  <1>2. h.queue # <<>> /\ h.at = "idle" /\ o = Head(h.queue)
    BY DEF Deny, BeginRead, BeginReadFile, BeginStat, Ready, HeadOf
  <1>3. o \in Op
    BY <1>1, <1>2, HeadIsFirst
  <1>4. o.t \notin {"sync", "close"}
    BY DEF Deny, BeginRead, BeginReadFile, BeginStat, Ready, ReadOps, WriteOps
  <1>5. ASSUME NEW g, NEW res, Settle(fd, g, res), Same(h, g)
        PROVE  Served(fd)
    <2>1. Ends(h, g)
      BY <1>1, <1>2, <1>4, <1>5, SameEnds
    <2> QED BY <1>4, <1>5, <2>1 DEF Served
  <1>6. ASSUME NEW l \in {"fill", "size", "range", "stat"}, Await(fd, h, l),
               l = "fill" => o.t \in ReadOps \cup WriteOps,
               l \in {"size", "range"} => o.t = "read", l = "stat" => o.t = "stat"
        PROVE  Served(fd)
    <2>1. Same(h, h)
      BY <1>1 DEF Same
    <2>2. Waits(h, h, l)
      BY <1>1, <1>2, <1>6, <2>1, SameWaits
    <2> QED BY <1>6, <2>2 DEF Served
  <1>7. Same(h, h)
    BY <1>1 DEF Same
  <1>8. \A p \in Nat : Same(h, [h EXCEPT !.pos = p])
    BY <1>1 DEF Same, Handles, HandleRec
  <1>9. CASE Deny(fd)
    BY <1>5, <1>7, <1>9 DEF Deny
  <1>10. CASE BeginRead(fd)
    <2>1. o.t = "read"
      BY <1>10 DEF BeginRead, Ready
    <2>2. ASSUME NEW got, Len(got) \in Nat, Answer(fd, h, got)
          PROVE  Served(fd)
      <3> DEFINE p == IF o.pos = Null THEN Start(h, o) + Len(got) ELSE h.pos
      <3>1. p \in Nat
        BY <1>1, <1>3, <2>2, ReadLength DEF Handles, HandleRec
      <3>2. Settle(fd, [h EXCEPT !.pos = p], got)
        BY <1>1, <2>2 DEF Answer, Handles, HandleRec
      <3> HIDE DEF p
      <3> QED BY <1>5, <1>8, <3>1, <3>2
    <2>3. h.buf # NoBuf => h.buf \in Seq(Bytes)
      BY <1>1 DEF Handles, HandleRec
    <2>4. /\ h.buf # NoBuf => Len(FromBuffer(h, o)) \in Nat
          /\ Len(FromFragments(h, o)) \in Nat
      BY <1>1, <1>3, <2>3, ReadLength
    <2>5. \/ h.buf # NoBuf /\ Answer(fd, h, FromBuffer(h, o))
          \/ Await(fd, h, "fill") \/ Await(fd, h, "size") \/ Await(fd, h, "range")
          \/ Answer(fd, h, FromFragments(h, o))
      BY <1>10 DEF BeginRead
    <2> HIDE DEF h, o
    <2> QED BY <1>6, <2>1, <2>2, <2>4, <2>5 DEF ReadOps
  <1>11. CASE BeginReadFile(fd)
    <2>1. o.t = "readFile"
      BY <1>11 DEF BeginReadFile, Ready
    <2>2. CASE h.buf # NoBuf
      <3>1. Len(h.buf) \in Nat
        BY <1>1, <2>2, LenProperties DEF Handles, HandleRec
      <3> QED BY <1>5, <1>8, <1>11, <2>2, <3>1 DEF BeginReadFile, ToEnd
    <2>3. CASE h.buf = NoBuf
      BY <1>6, <1>11, <2>1, <2>3 DEF BeginReadFile, ReadOps
    <2> QED BY <2>2, <2>3
  <1>12. CASE BeginStat(fd)
    <2>1. o.t = "stat"
      BY <1>12 DEF BeginStat, Ready
    <2> QED BY <1>5, <1>6, <1>7, <1>12, <2>1 DEF BeginStat
  <1> QED BY <1>9, <1>10, <1>11, <1>12

\* What was fetched are fragments.
LEMMA FetchedFragments ==
  ASSUME NEW h \in Handles, NEW data \in Seq(Bytes), NEW got, got \subseteq Nat,
         \A i \in got : i < Len(data)
  PROVE  Fetched(h, got, data) \in Fragments
  <1> DEFINE D == got \cup DOMAIN h.frag
  <1>1. PICK E \in SUBSET Nat : h.frag \in [E -> Bytes]
    BY DEF Handles, HandleRec, Fragments
  <1>2. \A i \in got : data[i + 1] \in Bytes
    <2> TAKE i \in got
    <2>1. i + 1 \in 1..Len(data)
      BY LenProperties
    <2> QED BY <2>1, LenProperties
  <1>3. Fetched(h, got, data) \in [D -> Bytes] /\ D \in SUBSET Nat
    BY <1>1, <1>2 DEF Fetched
  <1> QED BY <1>3 DEF Fragments

\* The step of an operation that is at the head of a queue, in general.
LEMMA SameServes ==
  ASSUME HandlesOK, nops \in Nat, NEW fd \in DOMAIN hs, hs[fd].queue # <<>>,
         hs[fd].at # "upload", HeadOf(fd).t \notin {"sync", "close"},
         NEW g, Same(hs[fd], g)
  PROVE  /\ \A res : Settle(fd, g, res) => Served(fd)
         /\ \A l \in {"fill", "mtime", "size", "range", "stat"} :
              /\ l = "fill" => HeadOf(fd).t \in ReadOps \cup WriteOps
              /\ l = "mtime" => HeadOf(fd).t \in WriteOps /\ g.buf \in Seq(Bytes)
              /\ l \in {"size", "range"} => HeadOf(fd).t = "read"
              /\ l = "stat" => HeadOf(fd).t = "stat"
              /\ Await(fd, g, l)
              => Served(fd)
  <1>1. HandleOK(hs[fd], nops) /\ HeadOf(fd) = Head(hs[fd].queue)
    BY DEF HandlesOK, HeadOf
  <1>2. Ends(hs[fd], g)
    BY <1>1, SameEnds
  <1> QED BY <1>1, <1>2, SameWaits DEF Served

\* A read that is answered ends.
LEMMA Served_Answer ==
  ASSUME HandlesOK, nops \in Nat, NEW fd \in DOMAIN hs, hs[fd].queue # <<>>,
         hs[fd].at # "upload", HeadOf(fd).t \in ReadOps,
         NEW g, Same(hs[fd], g), NEW got, Len(got) \in Nat, Answer(fd, g, got)
  PROVE  Served(fd)
  <1> DEFINE o == HeadOf(fd)
             p == IF o.pos = Null THEN Start(g, o) + Len(got) ELSE g.pos
  <1>1. o \in Op
    BY HeadIsFirst DEF HandlesOK, HandleOK, HeadOf
  <1>2. p \in Nat
    BY <1>1, ReadLength DEF Same, Handles, HandleRec
  <1>3. Settle(fd, [g EXCEPT !.pos = p], got)
    BY DEF Answer, Same, Handles, HandleRec
  <1> HIDE DEF p
  <1>4. Same(hs[fd], [g EXCEPT !.pos = p])
    BY <1>2 DEF Same, Handles, HandleRec
  <1> HIDE DEF o
  <1> QED BY <1>3, <1>4, SameServes DEF ReadOps

\* A readFile that is answered ends.
LEMMA Served_ToEnd ==
  ASSUME HandlesOK, nops \in Nat, NEW fd \in DOMAIN hs, hs[fd].queue # <<>>,
         hs[fd].at # "upload", HeadOf(fd).t \in ReadOps,
         NEW g, Same(hs[fd], g), g.buf \in Seq(Bytes), ToEnd(fd, g)
  PROVE  Served(fd)
  <1> DEFINE p == Len(g.buf)
  <1>1. p \in Nat
    BY LenProperties
  <1>2. Settle(fd, [g EXCEPT !.pos = p], Sub(g.buf, g.pos, p))
    BY DEF ToEnd
  <1> HIDE DEF p
  <1>3. Same(hs[fd], [g EXCEPT !.pos = p])
    BY <1>1 DEF Same, Handles, HandleRec
  <1> QED BY <1>2, <1>3, SameServes DEF ReadOps

\* The file of a handle is bytes.
LEMMA DataBytes ==
  ASSUME HandlesOK, FilesOK, NEW fd \in DOMAIN hs
  PROVE  hs[fd].path \in Paths /\ Data(fd) \in Seq(Bytes) /\ Len(Data(fd)) \in Nat
  <1>1. hs[fd].path \in Paths
    BY DEF HandlesOK, HandleOK, Handles, HandleRec
  <1>2. Data(fd) \in Seq(Bytes)
    BY <1>1 DEF Data, FilesOK
  <1> QED BY <1>1, <1>2, LenProperties

\* An operation goes on from an await at which it only read.
LEMMA Served_Resumes ==
  ASSUME HandlesOK, FilesOK, nops \in Nat, NEW fd \in DOMAIN hs,
         Fill(fd) \/ LearnSize(fd) \/ FetchRange(fd) \/ Stat(fd) \/ FacadeFails(fd)
  PROVE  Served(fd)
  <1> DEFINE h == hs[fd]
             o == HeadOf(fd)
             d == Data(fd)
  <1>1. HandleOK(h, nops) /\ h \in Handles
    BY DEF HandlesOK, HandleOK
  <1>2. h.at \in {"fill", "mtime", "size", "range", "stat"}
    BY DEF Fill, LearnSize, FetchRange, Stat, FacadeFails, At
  <1>3. h.queue # <<>> /\ o = Head(h.queue) /\ o.t \notin {"sync", "close"}
    BY <1>1, <1>2 DEF HandleOK, Working, HeadOf, ReadOps, WriteOps
  <1>4. o \in Op
    BY <1>1, <1>3, HeadIsFirst
  <1>5. d \in Seq(Bytes) /\ Len(d) \in Nat
    BY DataBytes
  <1>6. Same(h, h)
    BY <1>1 DEF Same
  <1>7. CASE Fill(fd)
    <2> DEFINE c == Later(h.cursor, Len(d))
               g == [h EXCEPT !.buf = d, !.frag = <<>>, !.size = Len(d), !.cursor = c]
    <2>1. c \in Nat
      BY <1>1, <1>5 DEF Later, Handles, HandleRec
    <2>2. <<>> \in Fragments
      <3>1. <<>> \in [{} -> Bytes]
        OBVIOUS
      <3> QED BY <3>1 DEF Fragments
    <2>3. [h EXCEPT !.buf = d, !.frag = <<>>, !.size = Len(d), !.cursor = Later(@, Len(d))] = g
      BY <1>1 DEF Handles, HandleRec
    <2> HIDE DEF c, d
    <2>4. Same(h, g) /\ g.buf = d
      BY <1>1, <1>5, <2>1, <2>2 DEF Same, Handles, HandleRec
    <2>5. /\ o.t \in WriteOps \cup ReadOps
          /\ o.t \in WriteOps => Await(fd, g, "mtime")
          /\ o.t = "readFile" => ToEnd(fd, g)
          /\ o.t = "read" => Answer(fd, g, FromBuffer(g, o))
      <3>1. o.t \in WriteOps \cup ReadOps
        BY <1>1, <1>7 DEF HandleOK, Working, Fill, At, HeadOf
      <3> QED BY <1>7, <2>3, <3>1 DEF Fill, d, ReadOps, WriteOps
    <2>6. g \in Handles
      BY <2>4 DEF Same
    <2> HIDE DEF g
    <2>7. CASE o.t \in WriteOps
      BY <1>2, <1>3, <1>5, <2>4, <2>5, <2>7, SameServes
    <2>8. CASE o.t = "readFile"
      BY <1>2, <1>3, <1>5, <2>4, <2>5, <2>8, Served_ToEnd DEF ReadOps
    <2>9. CASE o.t = "read"
      <3>1. Len(FromBuffer(g, o)) \in Nat
        BY <1>4, <1>5, <2>4, <2>6, ReadLength
      <3> QED BY <1>2, <1>3, <2>4, <2>5, <2>9, <3>1, Served_Answer DEF ReadOps
    <2> QED BY <2>5, <2>7, <2>8, <2>9 DEF ReadOps
  <1>8. CASE LearnSize(fd)
    <2> DEFINE g == [h EXCEPT !.size = Len(d)]
    <2>1. o.t = "read"
      BY <1>1, <1>3, <1>8 DEF LearnSize, At, HandleOK, Working
    <2>2. Same(h, g)
      BY <1>1, <1>5 DEF Same, Handles, HandleRec
    <2>3. Await(fd, g, "range") \/ Answer(fd, g, FromFragments(g, o))
      BY <1>8 DEF LearnSize
    <2> HIDE DEF g
    <2>4. Len(FromFragments(g, o)) \in Nat
      BY <1>4, <2>2, ReadLength DEF Same
    <2> QED BY <1>2, <1>3, <2>1, <2>2, <2>3, <2>4, SameServes, Served_Answer DEF ReadOps
  <1>9. CASE FetchRange(fd)
    <2> DEFINE miss == Missing(h, o)
               run == {i \in miss : \A j \in Min(miss)..i : j \in miss}
               got == {i \in run : i < Len(d)}
               f == Fetched(h, got, d)
               g == [h EXCEPT !.frag = f]
    <2>1. o.t = "read"
      BY <1>1, <1>3, <1>9 DEF FetchRange, At, HandleOK, Working
    <2>2. miss \subseteq Nat
      <3>1. Start(h, o) \in Nat
        BY <1>1, <1>4, ReadLength
      <3> QED BY <3>1 DEF Missing
    <2> HIDE DEF miss
    <2>3. f \in Fragments
      BY <1>1, <1>5, <2>2, FetchedFragments
    <2>4. Await(fd, g, "range") \/ Answer(fd, g, FromFragments(g, o))
      BY <1>9 DEF FetchRange, miss
    <2> HIDE DEF f
    <2>5. Same(h, g)
      BY <1>1, <2>3 DEF Same, Handles, HandleRec
    <2> HIDE DEF g
    <2>6. Len(FromFragments(g, o)) \in Nat
      BY <1>4, <2>5, ReadLength DEF Same
    <2> QED BY <1>2, <1>3, <2>1, <2>4, <2>5, <2>6, SameServes, Served_Answer DEF ReadOps
  <1>10. CASE Stat(fd)
    BY <1>2, <1>3, <1>6, <1>10, SameServes DEF Stat
  <1>11. CASE FacadeFails(fd)
    BY <1>2, <1>3, <1>6, <1>11, SameServes DEF FacadeFails
  <1> QED BY <1>7, <1>8, <1>9, <1>10, <1>11

\* A write is applied, now or after the buffer and the mtime are there.
LEMMA Served_Writes ==
  ASSUME HandlesOK, nops \in Nat, NEW fd \in DOMAIN hs, BeginWrite(fd) \/ RecordMtime(fd)
  PROVE  Served(fd)
  <1> DEFINE h == hs[fd]
             o == HeadOf(fd)
  <1>1. HandleOK(h, nops) /\ h \in Handles
    BY DEF HandlesOK, HandleOK
  <1>2. h.at \in {"idle", "mtime"} /\ h.queue # <<>> /\ o = Head(h.queue) /\ o.t \in WriteOps
    BY <1>1 DEF BeginWrite, RecordMtime, Ready, At, HeadOf, HandleOK, Working
  <1>3. o.t \notin {"sync", "close"}
    BY <1>2 DEF WriteOps
  <1>4. ASSUME NEW m \in BOOLEAN, h.buf \in Seq(Bytes),
               Settle(fd, Applied([h EXCEPT !.mtime = m], o), <<>>)
        PROVE  Served(fd)
    <2>1. Ends(h, Applied([h EXCEPT !.mtime = m], o))
      BY <1>1, <1>2, <1>4, AppliedEnds
    <2> QED BY <1>3, <1>4, <2>1 DEF Served
  <1>5. CASE BeginWrite(fd)
    <2>1. CASE h.buf # NoBuf
      <3>1. h.buf \in Seq(Bytes) /\ h.mtime \in BOOLEAN /\ h = [h EXCEPT !.mtime = h.mtime]
        BY <1>1, <2>1 DEF Handles, HandleRec
      <3> QED BY <1>4, <1>5, <2>1, <3>1 DEF BeginWrite
    <2>2. CASE h.buf = NoBuf
      <3>1. Same(h, h)
        BY <1>1 DEF Same
      <3>2. Await(fd, h, "fill")
        BY <1>5, <2>2 DEF BeginWrite
      <3> QED BY <1>2, <1>3, <3>1, <3>2, SameServes
    <2> QED BY <2>1, <2>2
  <1>6. CASE RecordMtime(fd)
    <2>1. h.buf \in Seq(Bytes)
      BY <1>1, <1>6 DEF RecordMtime, At, HandleOK, Standing
    <2> QED BY <1>4, <1>6, <2>1 DEF RecordMtime
  <1> QED BY <1>5, <1>6

\* A flush uploads what is dirty, and a handle is clean when one ends well.
LEMMA Served_Flushes ==
  ASSUME HandlesOK, nops \in Nat, NEW fd \in DOMAIN hs,
         BeginFlush(fd) \/ Upload(fd) \/ UploadFails(fd)
  PROVE  Served(fd)
  <1> DEFINE h == hs[fd]
             o == HeadOf(fd)
  <1>1. HandleOK(h, nops) /\ h \in Handles
    BY DEF HandlesOK, HandleOK
  <1>2. h.queue # <<>> /\ o = Head(h.queue) /\ o.t \in {"sync", "close"}
    BY <1>1 DEF BeginFlush, Upload, UploadFails, Ready, At, HeadOf, HandleOK, Working
  <1>3. h.sent \in Nat /\ h.wrote \in Nat /\ h.sent <= h.wrote /\ h.wrote <= o.id
    <2>1. h.wrote \in Nat /\ h.sent \in Nat
      BY <1>1, HandlesAssumption DEF Handles, HandleRec
    <2>2. 1 \in DOMAIN h.queue /\ o = h.queue[1] /\ o.id \in Nat
      BY <1>1, <1>2, HeadIsFirst, BytesOfWrites
    <2> QED BY <1>1, <2>1, <2>2 DEF HandleOK, Queued, Standing
  <1>4. CASE BeginFlush(fd) /\ h.dirty
    <2> DEFINE g == [h EXCEPT !.dirty = FALSE]
    <2>1. Await(fd, g, "upload")
      BY <1>4 DEF BeginFlush
    <2>2. Waits(h, g, "upload")
      <3>1. g \in Handles /\ ~ g.dirty
        BY <1>1 DEF Handles, HandleRec
      <3>2. /\ g.path = h.path /\ g.held = h.held /\ g.queue = h.queue /\ g.st = h.st
            /\ g.sent = h.sent /\ g.wrote = h.wrote /\ g.buf = h.buf /\ g.mtime = h.mtime
        BY <1>1 DEF Handles, HandleRec
      <3>3. h.buf \in Seq(Bytes) /\ h.sent # h.wrote
        BY <1>1, <1>4 DEF HandleOK, Standing, BeginFlush, Ready
      <3> QED BY <1>2, <3>1, <3>2, <3>3 DEF Waits
    <2> QED BY <2>1, <2>2 DEF Served
  <1>5. CASE BeginFlush(fd) /\ ~ h.dirty
    <2>1. h.at = "idle" /\ h.sent = h.wrote
      BY <1>1, <1>5 DEF HandleOK, Standing, BeginFlush, Ready
    <2>2. Same(h, h)
      BY <1>1 DEF Same
    <2>3. Ends(h, h)
      BY <1>1, <1>2, <1>5, <2>1, <2>2, SameEnds
    <2>4. Settle(fd, h, <<>>)
      BY <1>5 DEF BeginFlush
    <2> QED BY <2>1, <2>3, <2>4 DEF Served
  <1>6. CASE Upload(fd)
    <2> DEFINE n == Len(h.buf)
               g == [h EXCEPT !.size = n, !.frag = <<>>, !.mtime = FALSE, !.sent = h.wrote]
    <2>1. h.buf \in Seq(Bytes) /\ n \in Nat /\ ~ h.dirty
      BY <1>1, <1>6, LenProperties DEF Upload, At, HandleOK, Standing
    <2>2. <<>> \in Fragments
      <3>1. <<>> \in [{} -> Bytes]
        OBVIOUS
      <3> QED BY <3>1 DEF Fragments
    <2>3. Settle(fd, g, <<>>)
      BY <1>6 DEF Upload
    <2> HIDE DEF n
    <2>4. g \in Handles
      BY <1>1, <2>1, <2>2 DEF Handles, HandleRec
    <2>5. /\ g.path = h.path /\ g.held = h.held /\ g.queue = h.queue /\ g.st = h.st
          /\ g.sent = h.wrote /\ g.wrote = h.wrote /\ g.dirty = h.dirty /\ ~ g.mtime
      BY <1>1 DEF Handles, HandleRec
    <2> HIDE DEF g
    <2>6. Ends(h, g)
      BY <1>2, <1>3, <2>1, <2>4, <2>5 DEF Ends
    <2> QED BY <2>3, <2>5, <2>6 DEF Served
  <1>7. CASE UploadFails(fd)
    <2> DEFINE l == o.t = "close"
               g == [h EXCEPT !.dirty = TRUE, !.lost = l]
    <2>1. h.buf \in Seq(Bytes) /\ h.sent # h.wrote
      BY <1>1, <1>7 DEF UploadFails, At, HandleOK, Standing
    <2>2. Settle(fd, g, Failed)
      BY <1>7 DEF UploadFails
    <2>3. l \in BOOLEAN /\ (o.t = "close" => l)
      OBVIOUS
    <2> HIDE DEF l
    <2>4. g \in Handles
      BY <1>1, <2>3 DEF Handles, HandleRec
    <2>5. /\ g.path = h.path /\ g.held = h.held /\ g.queue = h.queue /\ g.st = h.st
          /\ g.sent = h.sent /\ g.wrote = h.wrote /\ g.dirty /\ g.lost = l /\ g.buf = h.buf
      BY <1>1 DEF Handles, HandleRec
    <2> HIDE DEF g
    <2>6. Ends(h, g)
      BY <1>2, <1>3, <2>1, <2>3, <2>4, <2>5 DEF Ends
    <2> QED BY <2>2, <2>6 DEF Served
  <1> QED BY <1>4, <1>5, <1>6, <1>7

\* What the storage holds are bytes, and a file that is there stays there.
Kept == /\ FilesOK'
        /\ \A p \in Paths : file[p].exists => file'[p].exists

\* A file that is written keeps the storage what it is.
LEMMA PutKeeps ==
  ASSUME FilesOK, NEW p \in Paths, NEW d \in Seq(Bytes),
         file' = [file EXCEPT ![p] = [exists |-> TRUE, data |-> d]] \/ file' = file
  PROVE  Kept
  <1>1. [exists |-> TRUE, data |-> d] \in [exists : BOOLEAN, data : Seq(Bytes)]
    OBVIOUS
  <1>2. FilesOK'
    BY <1>1 DEF FilesOK
  <1>3. \A x \in Paths : file[x].exists => file'[x].exists
    <2> TAKE x \in Paths
    <2>1. CASE file' = file
      BY <2>1
    <2>2. CASE file' = [file EXCEPT ![p] = [exists |-> TRUE, data |-> d]]
      BY <2>2 DEF FilesOK
    <2> QED BY <2>1, <2>2
  <1> QED BY <1>2, <1>3 DEF Kept

\* Every step of a handle serves the head of its queue.
LEMMA HandleStep ==
  ASSUME HandlesOK, FilesOK, nops \in Nat, NEW fd \in DOMAIN hs, Begin(fd) \/ Resume(fd)
  PROVE  /\ Served(fd) /\ hs[fd].queue # <<>> /\ Kept
         /\ UNCHANGED <<opens, gone, asked, nops>>
  <1>1. Served(fd)
    BY Served_Reads, Served_Resumes, Served_Writes, Served_Flushes DEF Begin, Resume
  <1>2. hs[fd].queue # <<>>
    <2>1. CASE hs[fd].at = "idle"
      BY <2>1 DEF Begin, Resume, Deny, BeginRead, BeginReadFile, BeginWrite, BeginFlush, BeginStat,
                  Ready, Fill, RecordMtime, LearnSize, FetchRange, Stat, FacadeFails, Upload,
                  UploadFails, At
    <2>2. CASE hs[fd].at # "idle"
      BY <2>2 DEF HandlesOK, HandleOK, Working
    <2> QED BY <2>1, <2>2
  <1>3. Kept
    <2>1. CASE Upload(fd) \/ UploadFails(fd)
      <3>1. hs[fd].path \in Paths
        BY DataBytes
      <3>2. hs[fd].buf \in Seq(Bytes)
        BY <2>1 DEF HandlesOK, HandleOK, Standing, Upload, UploadFails, At
      <3>3. \/ file' = [file EXCEPT ![hs[fd].path] = [exists |-> TRUE, data |-> hs[fd].buf]]
            \/ file' = file
        BY <2>1 DEF Upload, UploadFails
      <3> QED BY <3>1, <3>2, <3>3, PutKeeps
    <2>2. CASE ~ (Upload(fd) \/ UploadFails(fd))
      <3>1. file' = file
        BY <2>2 DEF Begin, Resume, Deny, BeginRead, BeginReadFile, BeginWrite, BeginFlush, BeginStat,
                    Fill, RecordMtime, LearnSize, FetchRange, Stat, FacadeFails
      <3> QED BY <3>1 DEF Kept, FilesOK
    <2> QED BY <2>1, <2>2
  <1>4. UNCHANGED <<opens, gone, asked, nops>>
    BY DEF Begin, Resume, Deny, BeginRead, BeginReadFile, BeginWrite, BeginFlush, BeginStat,
           Fill, RecordMtime, LearnSize, FetchRange, Stat, FacadeFails, Upload, UploadFails
  <1> QED BY <1>1, <1>2, <1>3, <1>4

-----------------------------------------------------------------------------
(* What else changes a handle *)

\* More operations are submitted elsewhere.
LEMMA LaterKeeps ==
  ASSUME NEW n \in Nat, NEW h, HandleOK(h, n)
  PROVE  HandleOK(h, n + 1)
  <1>1. h.wrote \in Nat
    BY HandlesAssumption DEF HandleOK, Handles, HandleRec
  <1>2. \A i \in DOMAIN h.queue : h.queue[i].id \in Nat
    <2>1. h.queue \in Seq(Op)
      BY DEF HandleOK, Handles, HandleRec
    <2> QED BY <2>1, BytesOfWrites, LenProperties
  <1>3. Queued(h, n + 1)
    BY <1>2 DEF HandleOK, Queued
  <1>4. Standing(h, n + 1)
    BY <1>1 DEF HandleOK, Standing
  <1> QED BY <1>3, <1>4 DEF HandleOK

\* An operation is queued behind the others.
LEMMA SubmitKeeps ==
  ASSUME NEW n \in Nat, NEW h, HandleOK(h, n), h.st = "open", NEW o \in Op, o.id = n + 1,
         NEW k \in Handles, k.queue = Append(h.queue, o),
         k.st = IF o.t = "close" THEN "closing" ELSE "open", o.t = "close" => ~ k.held,
         k.at = h.at, k.sent = h.sent, k.wrote = h.wrote, k.dirty = h.dirty, k.buf = h.buf,
         k.mtime = h.mtime
  PROVE  HandleOK(k, n + 1)
  <1> DEFINE L == Len(h.queue)
             q == Append(h.queue, o)
  <1>1. h \in Handles /\ h.queue \in Seq(Op)
    BY DEF HandleOK, Handles, HandleRec
  <1>2. /\ L \in Nat /\ q \in Seq(Op) /\ Len(q) = L + 1
        /\ DOMAIN h.queue = 1..L /\ DOMAIN q = 1..(L + 1) /\ q[L + 1] = o
        /\ \A i \in 1..L : q[i] = h.queue[i]
    BY <1>1, AppendProperties, LenProperties
  <1>3. h.wrote \in Nat /\ h.wrote <= n /\ \A i \in DOMAIN h.queue : h.queue[i].id \in Nat
    BY <1>1, BytesOfWrites, LenProperties, HandlesAssumption DEF HandleOK, Standing, Handles, HandleRec
  <1> HIDE DEF q, L
  <1>4. k.queue = q
    BY DEF q
  <1>5. Queued(k, n + 1)
    <2>1. \A i \in 1..(L + 1) : h.wrote < q[i].id /\ q[i].id <= n + 1
      <3> TAKE i \in 1..(L + 1)
      <3>1. CASE i = L + 1
        BY <1>2, <1>3, <3>1
      <3>2. CASE i \in 1..L
        <4>1. h.wrote < h.queue[i].id /\ h.queue[i].id <= n
          BY <1>2, <3>2 DEF HandleOK, Queued
        <4> QED BY <1>2, <1>3, <3>2, <4>1, SMTT(30)
      <3> QED BY <1>2, <3>1, <3>2
    <2>2. \A i, j \in 1..(L + 1) : i < j => q[i].id < q[j].id
      <3> TAKE i, j \in 1..(L + 1)
      <3> HAVE i < j
      <3>1. i \in 1..L /\ h.queue[i].id <= n
        BY <1>2 DEF HandleOK, Queued
      <3>2. CASE j = L + 1
        BY <1>2, <1>3, <3>1, <3>2
      <3>3. CASE j \in 1..L
        BY <1>2, <3>1, <3>3 DEF HandleOK, Queued
      <3> QED BY <1>2, <3>2, <3>3
    <2> QED BY <1>2, <1>4, <2>1, <2>2 DEF Queued
  <1>6. Standing(k, n + 1)
    BY <1>3, <1>4 DEF HandleOK, Standing
  <1>7. h.queue # <<>> => q # <<>> /\ Head(q) = Head(h.queue)
    <2> SUFFICES ASSUME h.queue # <<>> PROVE q # <<>> /\ Head(q) = Head(h.queue)
      OBVIOUS
    <2>1. L # 0 /\ Head(h.queue) = h.queue[1]
      BY <1>1, HeadIsFirst DEF L
    <2>2. q # <<>>
      BY <1>2, EmptySeq
    <2>3. Head(q) = q[1]
      BY <1>2, <2>2, HeadTailProperties
    <2> QED BY <1>2, <2>1, <2>2, <2>3
  <1>8. Working(k)
    BY <1>4, <1>7 DEF HandleOK, Working
  <1>9. Ending(k)
    <2>1. \A i \in 1..L : q[i].t # "close"
      BY <1>2 DEF HandleOK, Ending
    <2>2. q # <<>>
      BY <1>2, EmptySeq
    <2>3. \A i \in 1..(L + 1) : i \in 1..L \/ i = L + 1
      BY <1>2
    <2>4. \A i \in 1..L : i # L + 1
      BY <1>2
    <2>5. CASE o.t = "close"
      <3>1. \A i \in 1..(L + 1) : q[i].t = "close" <=> i = L + 1
        BY <1>2, <2>1, <2>3, <2>4, <2>5
      <3> QED BY <1>2, <1>4, <2>2, <2>5, <3>1 DEF Ending
    <2>6. CASE o.t # "close"
      BY <1>2, <1>4, <2>1, <2>3, <2>6 DEF Ending
    <2> QED BY <2>5, <2>6
  <1> QED BY <1>5, <1>6, <1>8, <1>9 DEF HandleOK

\* A fd stops resolving.
LEMMA ReleaseKeeps ==
  ASSUME NEW n \in Nat, NEW h, HandleOK(h, n)
  PROVE  HandleOK([h EXCEPT !.held = FALSE], n)
  <1> DEFINE k == [h EXCEPT !.held = FALSE]
  <1>1. k \in Handles
    BY DEF HandleOK, Handles, HandleRec
  <1>2. /\ k.at = h.at /\ k.queue = h.queue /\ k.st = h.st /\ ~ k.held
        /\ k.sent = h.sent /\ k.wrote = h.wrote
        /\ k.dirty = h.dirty /\ k.buf = h.buf /\ k.mtime = h.mtime /\ k.lost = h.lost
    BY DEF HandleOK, Handles, HandleRec
  <1> HIDE DEF k
  <1> QED BY <1>1, <1>2 DEF HandleOK, Queued, Standing, Working, Ending, k

\* A new handle has nothing queued.
LEMMA NewKeeps ==
  ASSUME NEW n \in Nat, FilesOK, NEW p \in Paths, NEW e,
         NEW o \in [mode : Modes, owner : Owners, native : BOOLEAN, at : {"lock", "stat", "empty"}]
  PROVE  /\ HandleOK(NewHandle(p, o, e), n)
         /\ NewHandle(p, o, e).path = p /\ NewHandle(p, o, e).queue = <<>>
  <1> DEFINE k == NewHandle(p, o, e)
             m == IF e THEN 0 ELSE Len(file[p].data)
             b == IF e THEN <<>> ELSE NoBuf
  <1>1. m \in Nat
    BY LenProperties DEF FilesOK
  <1>2. b \in Seq(Bytes) \cup {NoBuf}
    BY EmptySeq
  <1>3. <<>> \in Fragments
    <2>1. <<>> \in [{} -> Bytes]
      OBVIOUS
    <2> QED BY <2>1 DEF Fragments
  <1>4. <<>> \in Seq(Op) /\ 0 \in 0..MaxOps
    BY EmptySeq, HandlesAssumption
  <1>5. k = [path |-> p, owner |-> o.owner, mode |-> o.mode, native |-> o.native,
             held |-> TRUE, st |-> "open", pos |-> 0, cursor |-> m, buf |-> b,
             mtime |-> FALSE, dirty |-> FALSE, size |-> m, frag |-> <<>>,
             queue |-> <<>>, at |-> "idle", wrote |-> 0, sent |-> 0, lost |-> FALSE]
    BY DEF NewHandle
  <1> HIDE DEF m, b
  <1>6. k \in Handles
    BY <1>1, <1>2, <1>3, <1>4, <1>5 DEF Handles, HandleRec
  <1>7. /\ k.path = p /\ k.at = "idle" /\ k.queue = <<>> /\ k.st = "open"
        /\ k.sent = 0 /\ k.wrote = 0 /\ k.dirty = FALSE /\ k.mtime = FALSE
    BY <1>5
  <1> HIDE DEF k
  <1>8. DOMAIN k.queue = {}
    BY <1>7
  <1> QED BY <1>6, <1>7, <1>8 DEF HandleOK, Queued, Standing, Working, Ending, k

-----------------------------------------------------------------------------
(* The handles together, and the flushes that wait for them *)

OpenRec == [mode : Modes, owner : Owners, native : BOOLEAN, at : {"lock", "stat", "empty"}]

\* The opens of a path run one at a time.
OpensOK ==
  /\ opens \in [Paths -> Seq(OpenRec)]
  /\ \A p \in Paths : \A i \in DOMAIN opens[p] : i # 1 => opens[p][i].at = "lock"

FlushRec ==
  [id : Nat, path : Paths, waits : SUBSET Nat, syncs : SUBSET Nat,
   need : UNION {[D -> Nat] : D \in SUBSET Nat}]

\* A flush by path needs of the handles it syncs no more than they took; those it no
\* longer waits for have uploaded that; and what is queued in its name are syncs it
\* waits for.
FlushOK(f) ==
  /\ f \in FlushRec /\ f.id <= nops
  /\ f.waits \subseteq f.syncs /\ f.syncs \subseteq DOMAIN hs
  /\ \A fd \in f.syncs :
       /\ f.need[fd] \in Nat /\ f.need[fd] <= hs[fd].wrote
       /\ fd \notin f.waits => f.need[fd] <= hs[fd].sent
  /\ \A fd \in DOMAIN hs : \A i \in DOMAIN hs[fd].queue :
       hs[fd].queue[i].id = f.id => hs[fd].queue[i].t = "sync" /\ fd \in f.waits

FlushesOK == \A f \in flushes : FlushOK(f)

\* What a reader of a handle may rely on.
LEMMA HandleTypes ==
  ASSUME HandlesOK
  PROVE  \A fd \in DOMAIN hs :
           /\ HandleOK(hs[fd], nops) /\ hs[fd] \in Handles
           /\ hs[fd].sent \in Nat /\ hs[fd].wrote \in Nat /\ hs[fd].queue \in Seq(Op)
           /\ \A i \in DOMAIN hs[fd].queue : hs[fd].queue[i] \in Op /\ hs[fd].queue[i].id \in Nat
  <1> TAKE fd \in DOMAIN hs
  <1>1. HandleOK(hs[fd], nops) /\ hs[fd] \in Handles
    BY DEF HandlesOK, HandleOK
  <1>2. hs[fd].sent \in Nat /\ hs[fd].wrote \in Nat /\ hs[fd].queue \in Seq(Op)
    BY <1>1, HandlesAssumption DEF Handles, HandleRec
  <1>3. \A i \in DOMAIN hs[fd].queue : hs[fd].queue[i] \in Op /\ hs[fd].queue[i].id \in Nat
    BY <1>2, BytesOfWrites, LenProperties
  <1> QED BY <1>1, <1>2, <1>3

\* One handle becomes another.
LEMMA OneChanges ==
  ASSUME HandlesOK, NEW fd \in DOMAIN hs, NEW k \in Handles, hs' = [hs EXCEPT ![fd] = k]
  PROVE  /\ hs' \in Seq(Handles) /\ DOMAIN hs' = DOMAIN hs /\ Len(hs') = Len(hs)
         /\ hs'[fd] = k /\ \A x \in DOMAIN hs : x # fd => hs'[x] = hs[x]
  <1>1. hs \in Seq(Handles) /\ DOMAIN hs = 1..Len(hs) /\ Len(hs) \in Nat
    BY LenProperties DEF HandlesOK
  <1>2. hs' \in Seq(Handles) /\ Len(hs') = Len(hs)
    BY <1>1, ExceptSeq
  <1> QED BY <1>1, <1>2

\* Every handle becomes another.
LEMMA AllChange ==
  ASSUME HandlesOK, NEW k, k \in [DOMAIN hs -> Handles], hs' = k
  PROVE  hs' \in Seq(Handles) /\ DOMAIN hs' = DOMAIN hs /\ Len(hs') = Len(hs)
  <1>1. DOMAIN hs = 1..Len(hs) /\ Len(hs) \in Nat
    BY LenProperties DEF HandlesOK
  <1> QED BY <1>1, FunctionIsSeq

\* What a flush was promised stays so while handles only take and upload more, and
\* what is queued is queued in the name of later operations.
LEMMA FlushKept ==
  ASSUME HandlesOK, NEW f, FlushOK(f), nops \in Nat, nops' \in Nat, nops <= nops',
         DOMAIN hs \subseteq DOMAIN hs',
         \A fd \in DOMAIN hs : /\ hs'[fd].wrote \in Nat /\ hs'[fd].sent \in Nat
                               /\ hs[fd].wrote <= hs'[fd].wrote /\ hs[fd].sent <= hs'[fd].sent,
         \A fd \in DOMAIN hs' : \A i \in DOMAIN hs'[fd].queue :
           \/ hs'[fd].queue[i].id = nops + 1
           \/ fd \in DOMAIN hs /\ \E j \in DOMAIN hs[fd].queue : hs[fd].queue[j] = hs'[fd].queue[i]
  PROVE  FlushOK(f)'
  <1>1. f.id \in Nat /\ f.id <= nops' /\ f.id # nops + 1
    BY DEF FlushOK, FlushRec
  <1>2. \A fd \in f.syncs :
          /\ f.need[fd] \in Nat /\ f.need[fd] <= hs'[fd].wrote
          /\ fd \notin f.waits => f.need[fd] <= hs'[fd].sent
    BY HandleTypes DEF FlushOK
  <1>3. \A fd \in DOMAIN hs' : \A i \in DOMAIN hs'[fd].queue :
          hs'[fd].queue[i].id = f.id => hs'[fd].queue[i].t = "sync" /\ fd \in f.waits
    BY <1>1 DEF FlushOK
  <1> QED BY <1>1, <1>2, <1>3 DEF FlushOK

\* A step of one handle keeps the handles, and the flushes that wait for it.
LEMMA ServedKeeps ==
  ASSUME HandlesOK, FlushesOK, nops \in Nat, NEW fd \in DOMAIN hs, Served(fd), hs[fd].queue # <<>>,
         nops' = nops
  PROVE  /\ HandlesOK' /\ FlushesOK' /\ DOMAIN hs' = DOMAIN hs
         /\ \A x \in DOMAIN hs : hs'[x].path = hs[x].path /\ hs'[x].held = hs[x].held
  <1> DEFINE h == hs[fd]
             o == HeadOf(fd)
             q == Tail(h.queue)
             L == Len(h.queue)
  <1>1. HandleOK(h, nops) /\ o = Head(h.queue)
    BY HandleTypes DEF HeadOf
  <1>2. /\ L \in Nat \ {0} /\ DOMAIN h.queue = 1..L /\ o = h.queue[1] /\ o \in Op /\ o.id \in Nat
        /\ DOMAIN q = 1..(L - 1) /\ \A i \in 1..(L - 1) : q[i] = h.queue[i + 1]
    BY <1>1, HeadIsFirst, BytesOfWrites DEF HandleOK
  <1>3. CASE \E g, l : Await(fd, g, l) /\ Waits(h, g, l)
    <2> PICK g, l : Await(fd, g, l) /\ Waits(h, g, l)
      BY <1>3
    <2> DEFINE k == [g EXCEPT !.at = l]
    <2>1. HandleOK(k, nops)
      BY <1>1, AwaitKeeps
    <2>2. /\ k.path = h.path /\ k.held = h.held /\ k.queue = h.queue
          /\ k.sent = h.sent /\ k.wrote = h.wrote
      BY DEF Waits, Handles, HandleRec
    <2>3. hs' = [hs EXCEPT ![fd] = k] /\ flushes' = flushes
      BY DEF Await
    <2> HIDE DEF k
    <2>4. /\ hs' \in Seq(Handles) /\ DOMAIN hs' = DOMAIN hs
          /\ hs'[fd] = k /\ \A x \in DOMAIN hs : x # fd => hs'[x] = hs[x]
      BY <2>1, <2>3, OneChanges DEF HandleOK
    <2>5. HandlesOK'
      BY <2>1, <2>4 DEF HandlesOK
    <2>6. \A f \in flushes : FlushOK(f)'
      <3>1. \A x \in DOMAIN hs : /\ hs'[x].queue = hs[x].queue /\ hs'[x].sent = hs[x].sent
                                 /\ hs'[x].wrote = hs[x].wrote
        BY <2>2, <2>4
      <3>2. \A x \in DOMAIN hs : /\ hs'[x].wrote \in Nat /\ hs'[x].sent \in Nat
                                 /\ hs[x].wrote <= hs'[x].wrote /\ hs[x].sent <= hs'[x].sent
        BY <3>1, HandleTypes
      <3>3. \A x \in DOMAIN hs' : \A i \in DOMAIN hs'[x].queue :
              x \in DOMAIN hs /\ \E j \in DOMAIN hs[x].queue : hs[x].queue[j] = hs'[x].queue[i]
        BY <2>4, <3>1
      <3> QED BY <2>4, <3>2, <3>3, FlushKept DEF FlushesOK
    <2> QED BY <2>2, <2>3, <2>4, <2>5, <2>6 DEF FlushesOK
  <1>4. CASE \E g, res : /\ Settle(fd, g, res) /\ Ends(h, g)
                         /\ o.t = "sync" /\ res # Failed => g.sent = g.wrote
    <2> PICK g, res : /\ Settle(fd, g, res) /\ Ends(h, g)
                      /\ o.t = "sync" /\ res # Failed => g.sent = g.wrote
      BY <1>4
    <2> DEFINE k == [g EXCEPT !.queue = Tail(@), !.at = "idle",
                              !.st = IF Head(h.queue).t = "close" THEN "closed" ELSE @]
               F(f) == [f EXCEPT !.waits = IF f.id = o.id THEN @ \ {fd} ELSE @]
    <2>1. HandleOK(k, nops)
      BY <1>1, SettleKeeps
    <2>2. /\ k.path = h.path /\ k.held = h.held /\ k.queue = q
          /\ k.sent = g.sent /\ k.wrote = g.wrote
          /\ h.sent <= k.sent /\ h.wrote <= k.wrote /\ k.sent \in Nat /\ k.wrote \in Nat
      BY HandlesAssumption DEF Ends, Handles, HandleRec
    <2>3. /\ hs' = [hs EXCEPT ![fd] = k]
          /\ flushes' = {F(f) : f \in {x \in flushes : ~ (x.id = o.id /\ res = Failed)}}
      BY <1>1 DEF Settle, HeadOf
    <2> HIDE DEF k, q
    <2>4. /\ hs' \in Seq(Handles) /\ DOMAIN hs' = DOMAIN hs
          /\ hs'[fd] = k /\ \A x \in DOMAIN hs : x # fd => hs'[x] = hs[x]
      BY <2>1, <2>3, OneChanges DEF HandleOK
    <2>5. HandlesOK'
      BY <2>1, <2>4 DEF HandlesOK
    <2>6. \A x \in DOMAIN hs : \A i \in DOMAIN hs'[x].queue :
            \E j \in DOMAIN hs[x].queue :
              hs[x].queue[j] = hs'[x].queue[i] /\ (x = fd => hs[x].queue[j].id # o.id)
      <3> TAKE x \in DOMAIN hs
      <3> TAKE i \in DOMAIN hs'[x].queue
      <3>1. CASE x = fd
        <4>1. /\ i \in 1..(L - 1) /\ i + 1 \in 1..L /\ 1 \in 1..L /\ 1 < i + 1
              /\ hs'[x].queue[i] = h.queue[i + 1]
          <5>1. hs'[x].queue = q
            BY <2>2, <2>4, <3>1
          <5>2. i \in 1..(L - 1)
            BY <1>2, <5>1
          <5> HIDE DEF L, h
          <5> QED BY <1>2, <5>1, <5>2
        <4>2. h.queue[1].id < h.queue[i + 1].id
          BY <1>1, <1>2, <4>1 DEF HandleOK, Queued
        <4>3. h.queue[i + 1].id # o.id
          BY <1>2, <4>1, <4>2, HandleTypes
        <4> QED BY <1>2, <3>1, <4>1, <4>3
      <3>2. CASE x # fd
        BY <2>4, <3>2
      <3> QED BY <3>1, <3>2
    <2>7. ASSUME NEW f \in flushes, ~ (f.id = o.id /\ res = Failed), NEW e, e = F(f)
          PROVE  FlushOK(e)'
      <3>0. f \in FlushRec
        BY DEF FlushesOK, FlushOK
      <3>1. FlushOK(f)'
        <4>1. \A x \in DOMAIN hs :
                /\ hs'[x].wrote \in Nat /\ hs'[x].sent \in Nat
                /\ hs[x].wrote <= hs'[x].wrote /\ hs[x].sent <= hs'[x].sent
          BY <2>2, <2>4, HandleTypes
        <4> QED BY <2>4, <2>6, <4>1, FlushKept DEF FlushesOK
      <3>2. CASE f.id # o.id
        <4>1. e = f
          BY <3>0, <3>2, <2>7 DEF FlushRec
        <4> QED BY <3>1, <4>1
      <3>3. CASE f.id = o.id
        <4>1. /\ e \in FlushRec /\ e.id = f.id /\ e.waits = f.waits \ {fd}
              /\ e.syncs = f.syncs /\ e.need = f.need
          BY <3>0, <3>3, <2>7 DEF FlushRec
        <4>2. o.t = "sync" /\ res # Failed
          BY <1>1, <1>2, <2>7, <3>3 DEF FlushesOK, FlushOK
        <4>3. fd \in f.syncs => f.need[fd] <= hs'[fd].sent
          BY <2>2, <2>4, <3>1, <4>2 DEF FlushOK
        <4>4. \A x \in DOMAIN hs' : \A i \in DOMAIN hs'[x].queue :
                hs'[x].queue[i].id = f.id => x # fd
          BY <2>4, <2>6, <3>3
        <4>5. \A x \in e.syncs :
                /\ e.need[x] \in Nat /\ e.need[x] <= hs'[x].wrote
                /\ x \notin e.waits => e.need[x] <= hs'[x].sent
          BY <3>1, <4>1, <4>3 DEF FlushOK
        <4>6. \A x \in DOMAIN hs' : \A i \in DOMAIN hs'[x].queue :
                hs'[x].queue[i].id = e.id => hs'[x].queue[i].t = "sync" /\ x \in e.waits
          BY <3>1, <4>1, <4>4 DEF FlushOK
        <4>7. e.id <= nops' /\ e.waits \subseteq e.syncs /\ e.syncs \subseteq DOMAIN hs'
          BY <3>1, <4>1 DEF FlushOK
        <4> QED BY <4>1, <4>5, <4>6, <4>7 DEF FlushOK
      <3> QED BY <3>2, <3>3
    <2>8. FlushesOK'
      <3>1. \A e \in flushes' : \E f \in flushes : ~ (f.id = o.id /\ res = Failed) /\ e = F(f)
        BY <2>3
      <3> HIDE DEF F, o
      <3> QED BY <2>7, <3>1 DEF FlushesOK
    <2> QED BY <2>2, <2>4, <2>5, <2>8
  <1> QED BY <1>3, <1>4 DEF Served

-----------------------------------------------------------------------------
(* The opens of a path *)

\* To leave the head of a lock's queue is to take its tail.
LEMMA RemoveHead ==
  ASSUME NEW S, NEW s \in Seq(S), s # <<>>
  PROVE  RemoveAt(s, 1) = Tail(s)
  <1>1. Len(s) \in Nat /\ Tail(s) \in Seq(S)
    BY HeadTailProperties, LenProperties
  <1>2. SubSeq(s, 1, 0) = <<>>
    BY SubSeqEmpty
  <1>3. SubSeq(s, 2, Len(s)) = Tail(s)
    BY TailIsSubSeq
  <1> QED BY <1>1, <1>2, <1>3, ConcatEmptySeq DEF RemoveAt

\* What a reader of the opens may rely on: only the first has passed the lock.
LEMMA OpenTypes ==
  ASSUME OpensOK, NEW p \in Paths
  PROVE  /\ opens[p] \in Seq(OpenRec) /\ Len(opens[p]) \in Nat /\ DOMAIN opens[p] = 1..Len(opens[p])
         /\ \A i \in DOMAIN opens[p] : opens[p][i] \in OpenRec /\ (opens[p][i].at # "lock" => i = 1)
         /\ 1 \in DOMAIN opens[p] => opens[p] # <<>>
  <1>1. opens[p] \in Seq(OpenRec)
    BY DEF OpensOK
  <1>2. Len(opens[p]) \in Nat /\ DOMAIN opens[p] = 1..Len(opens[p])
    BY <1>1, LenProperties
  <1>3. \A i \in DOMAIN opens[p] : opens[p][i] \in OpenRec /\ (opens[p][i].at # "lock" => i = 1)
    BY <1>1, <1>2, LenProperties DEF OpensOK
  <1>4. 1 \in DOMAIN opens[p] => opens[p] # <<>>
    BY <1>1, <1>2, EmptySeq
  <1> QED BY <1>1, <1>2, <1>3, <1>4

\* The first open goes on ...
LEMMA GotoKeeps ==
  ASSUME OpensOK, NEW p \in Paths, 1 \in DOMAIN opens[p], NEW l \in {"stat", "empty"}, Goto(p, 1, l)
  PROVE  /\ OpensOK' /\ \A x \in Paths : x # p => opens'[x] = opens[x]
         /\ opens'[p] # <<>> /\ opens'[p][1].at = l /\ opens'[p][1].mode = opens[p][1].mode
  <1> DEFINE r == [opens[p][1] EXCEPT !.at = l]
             q == [opens[p] EXCEPT ![1] = r]
  <1>1. opens[p] \in Seq(OpenRec) /\ opens[p][1] \in OpenRec /\ DOMAIN opens[p] = 1..Len(opens[p])
    BY OpenTypes
  <1>2. r \in OpenRec /\ r.at = l /\ r.mode = opens[p][1].mode
    BY <1>1 DEF OpenRec
  <1>3. opens' = [opens EXCEPT ![p] = q]
    BY DEF Goto
  <1> HIDE DEF r
  <1>4. q \in Seq(OpenRec) /\ Len(q) = Len(opens[p]) /\ DOMAIN q = DOMAIN opens[p] /\ q[1] = r
    BY <1>1, <1>2, ExceptSeq
  <1>5. \A i \in DOMAIN q : i # 1 => q[i].at = "lock"
    BY <1>4 DEF OpensOK
  <1>6. q # <<>>
    BY <1>4, EmptySeq
  <1> HIDE DEF q
  <1>7. opens'[p] = q /\ \A x \in Paths : x # p => opens'[x] = opens[x]
    BY <1>3 DEF OpensOK
  <1>8. opens' \in [Paths -> Seq(OpenRec)]
    BY <1>3, <1>4 DEF OpensOK
  <1>9. OpensOK'
    BY <1>5, <1>7, <1>8 DEF OpensOK
  <1> QED BY <1>2, <1>4, <1>6, <1>7, <1>9

\* ... leaves, and the rest still wait for the lock ...
LEMMA LeaveKeeps ==
  ASSUME OpensOK, NEW p \in Paths, 1 \in DOMAIN opens[p], Leave(p, 1)
  PROVE  /\ OpensOK' /\ \A x \in Paths : x # p => opens'[x] = opens[x]
         /\ \A i \in DOMAIN opens'[p] : opens'[p][i].at = "lock"
  <1> DEFINE q == Tail(opens[p])
             L == Len(opens[p])
  <1>1. opens[p] \in Seq(OpenRec) /\ opens[p] # <<>> /\ L \in Nat /\ DOMAIN opens[p] = 1..L
    BY OpenTypes
  <1>2. opens' = [opens EXCEPT ![p] = q]
    BY <1>1, RemoveHead DEF Leave
  <1>3. q \in Seq(OpenRec) /\ DOMAIN q = 1..(L - 1) /\ \A i \in 1..(L - 1) : q[i] = opens[p][i + 1]
    <2>1. q \in Seq(OpenRec) /\ Len(q) = L - 1 /\ \A i \in 1..(L - 1) : q[i] = opens[p][i + 1]
      BY <1>1, HeadTailProperties
    <2> QED BY <2>1, LenProperties
  <1>4. \A i \in DOMAIN q : q[i].at = "lock"
    <2> TAKE i \in DOMAIN q
    <2>1. i + 1 \in DOMAIN opens[p] /\ i + 1 # 1 /\ q[i] = opens[p][i + 1]
      BY <1>1, <1>3
    <2> QED BY <2>1 DEF OpensOK
  <1> HIDE DEF q
  <1>5. opens'[p] = q /\ \A x \in Paths : x # p => opens'[x] = opens[x]
    BY <1>2 DEF OpensOK
  <1>6. opens' \in [Paths -> Seq(OpenRec)]
    BY <1>2, <1>3 DEF OpensOK
  <1>7. OpensOK'
    BY <1>4, <1>5, <1>6 DEF OpensOK
  <1> QED BY <1>4, <1>5, <1>7

\* ... or one is queued behind it.
LEMMA QueueKeeps ==
  ASSUME OpensOK, NEW p \in Paths, NEW r \in OpenRec, r.at = "lock",
         opens' = [opens EXCEPT ![p] = Append(@, r)]
  PROVE  /\ OpensOK' /\ \A x \in Paths : x # p => opens'[x] = opens[x]
         /\ \A i \in DOMAIN opens[p] : i \in DOMAIN opens'[p] /\ opens'[p][i] = opens[p][i]
         /\ \A i \in DOMAIN opens'[p] : i \in DOMAIN opens[p] \/ opens'[p][i].at = "lock"
  <1> DEFINE q == Append(opens[p], r)
             L == Len(opens[p])
  <1>1. opens[p] \in Seq(OpenRec) /\ L \in Nat /\ DOMAIN opens[p] = 1..L
    BY OpenTypes
  <1>2. /\ q \in Seq(OpenRec) /\ DOMAIN q = 1..(L + 1) /\ q[L + 1] = r
        /\ \A i \in 1..L : q[i] = opens[p][i]
    BY <1>1, AppendProperties, LenProperties
  <1>3. opens' = [opens EXCEPT ![p] = q]
    OBVIOUS
  <1> HIDE DEF q
  <1>4. opens'[p] = q /\ \A x \in Paths : x # p => opens'[x] = opens[x]
    BY <1>3 DEF OpensOK
  <1>5. \A i \in 1..(L + 1) : i \in 1..L \/ i = L + 1
    BY <1>1
  <1>6. \A i \in DOMAIN q : i \in DOMAIN opens[p] \/ q[i].at = "lock"
    BY <1>1, <1>2, <1>5
  <1>7. \A i \in DOMAIN opens[p] : i \in DOMAIN q /\ q[i] = opens[p][i]
    BY <1>1, <1>2
  <1>8. opens' \in [Paths -> Seq(OpenRec)]
    BY <1>2, <1>3 DEF OpensOK
  <1>9. OpensOK'
    BY <1>4, <1>6, <1>7, <1>8 DEF OpensOK
  <1> QED BY <1>4, <1>6, <1>7, <1>9

-----------------------------------------------------------------------------
(* The invariant *)

StateOK ==
  /\ HandlesOK /\ FilesOK /\ OpensOK /\ FlushesOK
  /\ nops \in 0..MaxOps /\ asked \in 0..MaxFds /\ gone \subseteq Owners

\* An open that is about to empty a file that was not there, or that it must find
\* missing.
Creating(p) ==
  \E i \in DOMAIN opens[p] :
    /\ opens[p][i].at = "empty"
    /\ Exclusive(opens[p][i].mode) \/ ~ Truncates(opens[p][i].mode)

\* The paths with an open that has passed MAX_OPEN and is not a handle yet.
Opening == {p \in Paths : \E i \in DOMAIN opens[p] : opens[p][i].at # "lock"}

\* A handle is on a file that is there, and on none that is being created; and the
\* opens under way count with the handles, one for each path.
Apart ==
  /\ \A fd \in DOMAIN hs : file[hs[fd].path].exists
  /\ \A p \in Paths : Creating(p) => \A fd \in DOMAIN hs : hs[fd].path # p
  /\ Cardinality(Held) + Cardinality(Opening) <= MaxOpen + Cardinality(Paths) - 1

\* The counts that MAX_OPEN bounds are finite.
LEMMA CountTypes ==
  ASSUME HandlesOK
  PROVE  /\ IsFiniteSet(Held) /\ Cardinality(Held) \in Nat
         /\ IsFiniteSet(Opening) /\ Cardinality(Opening) \in Nat
         /\ IsFiniteSet(Paths) /\ Cardinality(Paths) \in Nat
         /\ MaxOpen \in Nat \ {0}
  <1>1. IsFiniteSet(DOMAIN hs)
    <2>1. DOMAIN hs = 1..Len(hs) /\ Len(hs) \in Nat
      BY LenProperties DEF HandlesOK
    <2> QED BY <2>1, FS_Interval
  <1>2. IsFiniteSet(Paths) /\ MaxOpen \in Nat \ {0}
    BY HandlesAssumption
  <1>3. IsFiniteSet(Held) /\ IsFiniteSet(Opening)
    BY <1>1, <1>2, FS_Subset DEF Held, Opening
  <1> QED BY <1>2, <1>3, FS_CardinalityType

\* Opens stay apart while no handle is added and none begins to create a file that is there.
LEMMA ApartKept ==
  ASSUME HandlesOK, FilesOK, Apart, Kept, HandlesOK', DOMAIN hs' = DOMAIN hs,
         \A fd \in DOMAIN hs : hs'[fd].path = hs[fd].path /\ (hs'[fd].held => hs[fd].held),
         \A p \in Paths : Creating(p)' => Creating(p) \/ ~ file[p].exists,
         \/ Opening' \subseteq Opening
         \/ \E p \in Paths : /\ p \notin Opening /\ Opening' \subseteq Opening \cup {p}
                             /\ Cardinality(Held) < MaxOpen
  PROVE  Apart'
  <1>1. \A fd \in DOMAIN hs : hs[fd].path \in Paths
    BY DataBytes
  <1>2. \A fd \in DOMAIN hs' : file'[hs'[fd].path].exists
    BY <1>1 DEF Apart, Kept
  <1>3. \A p \in Paths : Creating(p)' => \A fd \in DOMAIN hs' : hs'[fd].path # p
    BY DEF Apart
  <1>4. Cardinality(Held') <= Cardinality(Held) /\ Cardinality(Held') \in Nat
    <2>1. Held' \subseteq Held
      BY DEF Held
    <2> QED BY <2>1, CountTypes, FS_Subset, FS_CardinalityType
  <1>5. Cardinality(Held') + Cardinality(Opening') <= MaxOpen + Cardinality(Paths) - 1
    <2>1. CASE Opening' \subseteq Opening
      <3>1. Cardinality(Opening') <= Cardinality(Opening) /\ Cardinality(Opening') \in Nat
        BY <2>1, CountTypes, FS_Subset, FS_CardinalityType
      <3> QED BY <1>4, <3>1, CountTypes DEF Apart
    <2>2. ASSUME NEW p \in Paths, p \notin Opening, Opening' \subseteq Opening \cup {p},
                 Cardinality(Held) < MaxOpen
          PROVE  Cardinality(Held') + Cardinality(Opening') <= MaxOpen + Cardinality(Paths) - 1
      <3>1. Opening' \subseteq Paths
        BY DEF Opening
      <3>2. Cardinality(Opening') <= Cardinality(Paths) /\ Cardinality(Opening') \in Nat
        BY <3>1, CountTypes, FS_Subset, FS_CardinalityType
      <3> QED BY <1>4, <2>2, <3>2, CountTypes
    <2> QED BY <2>1, <2>2
  <1> QED BY <1>2, <1>3, <1>5 DEF Apart

\* Apart is what the property asks for.
LEMMA ApartMeans ==
  ASSUME HandlesOK, Apart
  PROVE  OpensApart
  <1>1. CreateIsFirst
    BY DEF Apart, Creating, CreateIsFirst
  <1>2. CapBound
    BY CountTypes DEF Apart, CapBound
  <1> QED BY <1>1, <1>2 DEF OpensApart

\* What the flushes and the types need when no handle changes.
LEMMA SameHandles ==
  ASSUME HandlesOK, FlushesOK, nops \in Nat, nops' \in {nops, nops + 1}, hs' = hs,
         flushes' \subseteq flushes
  PROVE  HandlesOK' /\ FlushesOK'
  <1>1. HandlesOK'
    BY LaterKeeps DEF HandlesOK
  <1>2. \A f \in flushes : FlushOK(f)'
    BY HandleTypes, FlushKept DEF FlushesOK
  <1> QED BY <1>1, <1>2 DEF FlushesOK

\* An open is asked for.
LEMMA OpenCallKeeps ==
  ASSUME StateOK, Apart, NEW p \in Paths, NEW m \in Modes, NEW w \in Owners, NEW n \in NativeRange,
         OpenCall(p, m, w, n)
  PROVE  StateOK' /\ Apart'
  <1> DEFINE r == [mode |-> m, owner |-> w, native |-> n, at |-> "lock"]
  <1>1. r \in OpenRec /\ r.at = "lock"
    BY HandlesAssumption DEF OpenRec
  <1>2. opens' = [opens EXCEPT ![p] = Append(@, r)]
    BY DEF OpenCall
  <1> HIDE DEF r
  <1>3. /\ OpensOK' /\ \A x \in Paths : x # p => opens'[x] = opens[x]
        /\ \A i \in DOMAIN opens[p] : i \in DOMAIN opens'[p] /\ opens'[p][i] = opens[p][i]
        /\ \A i \in DOMAIN opens'[p] : i \in DOMAIN opens[p] \/ opens'[p][i].at = "lock"
    BY <1>1, <1>2, QueueKeeps DEF StateOK
  <1>4. HandlesOK' /\ FlushesOK' /\ nops \in Nat
    BY SameHandles, HandlesAssumption DEF StateOK, OpenCall
  <1>5. asked' \in 0..MaxFds
    BY HandlesAssumption DEF StateOK, OpenCall
  <1>6. Kept
    BY DEF StateOK, OpenCall, Kept, FilesOK
  <1>7. \A x \in Paths : Creating(x)' => Creating(x)
    BY <1>3 DEF Creating
  <1>8. Opening' \subseteq Opening
    BY <1>3 DEF Opening
  <1>9. Apart'
    BY <1>4, <1>6, <1>7, <1>8, ApartKept DEF StateOK, OpenCall
  <1> QED BY <1>3, <1>4, <1>5, <1>6, <1>9 DEF StateOK, OpenCall, Kept

\* An open that fails, or that goes on before it has its handle.
LEMMA OpenGoesKeeps ==
  ASSUME StateOK, Apart, NEW p \in Paths, 1 \in DOMAIN opens[p],
         Kept, UNCHANGED <<hs, flushes, gone, asked, nops>>,
         \/ Leave(p, 1)
         \/ /\ Goto(p, 1, "stat") /\ opens[p][1].at = "lock" /\ Cardinality(Held) < MaxOpen
         \/ /\ Goto(p, 1, "empty") /\ opens[p][1].at = "stat"
            /\ file[p].exists => ~ Exclusive(opens[p][1].mode) /\ Truncates(opens[p][1].mode)
  PROVE  StateOK' /\ Apart'
  <1>1. HandlesOK' /\ FlushesOK'
    BY SameHandles, HandlesAssumption DEF StateOK
  <1>2. OpensOK' /\ \A x \in Paths : x # p => opens'[x] = opens[x]
    BY LeaveKeeps, GotoKeeps DEF StateOK
  <1>3. StateOK'
    BY <1>1, <1>2 DEF StateOK, Kept
  <1>4. CASE Leave(p, 1)
    <2>1. \A i \in DOMAIN opens'[p] : opens'[p][i].at = "lock"
      BY <1>4, LeaveKeeps DEF StateOK
    <2>2. \A x \in Paths : Creating(x)' => Creating(x)
      BY <1>2, <2>1 DEF Creating
    <2>3. Opening' \subseteq Opening
      BY <1>2, <2>1 DEF Opening
    <2> QED BY <1>1, <1>3, <2>2, <2>3, ApartKept DEF StateOK
  <1>5. CASE Goto(p, 1, "stat") /\ opens[p][1].at = "lock" /\ Cardinality(Held) < MaxOpen
    <2>1. opens'[p][1].at = "stat" /\ \A i \in DOMAIN opens'[p] : i # 1 => opens'[p][i].at = "lock"
      BY <1>2, <1>5, GotoKeeps DEF StateOK, OpensOK
    <2>2. \A x \in Paths : Creating(x)' => Creating(x)
      BY <1>2, <2>1 DEF Creating
    <2>3. Opening' \subseteq Opening \cup {p}
      BY <1>2, <2>1 DEF Opening
    <2>4. p \notin Opening
      BY <1>5 DEF Opening, StateOK, OpensOK
    <2> QED BY <1>1, <1>3, <1>5, <2>2, <2>3, <2>4, ApartKept DEF StateOK
  <1>6. CASE /\ Goto(p, 1, "empty") /\ opens[p][1].at = "stat"
             /\ file[p].exists => ~ Exclusive(opens[p][1].mode) /\ Truncates(opens[p][1].mode)
    <2>1. /\ opens'[p][1].mode = opens[p][1].mode
          /\ \A i \in DOMAIN opens'[p] : i # 1 => opens'[p][i].at = "lock"
      BY <1>2, <1>6, GotoKeeps DEF StateOK, OpensOK
    <2>2. \A x \in Paths : Creating(x)' => Creating(x) \/ ~ file[x].exists
      BY <1>2, <1>6, <2>1 DEF Creating
    <2>3. Opening' \subseteq Opening
      BY <1>2, <1>6 DEF Opening
    <2> QED BY <1>1, <1>3, <2>2, <2>3, ApartKept DEF StateOK
  <1> QED BY <1>3, <1>4, <1>5, <1>6

\* An open gets its handle.
LEMMA RegisterKeeps ==
  ASSUME StateOK, Apart, NEW p \in Paths, 1 \in DOMAIN opens[p], opens[p][1].at # "lock",
         NEW e, Register(p, 1, e), Kept, file'[p].exists,
         UNCHANGED <<flushes, gone, asked, nops>>
  PROVE  StateOK' /\ Apart'
  <1> DEFINE k == NewHandle(p, opens[p][1], e)
             L == Len(hs)
  <1>0. nops \in Nat
    BY HandlesAssumption DEF StateOK
  <1>1. HandleOK(k, nops) /\ k.path = p /\ k.queue = <<>>
    <2>1. opens[p][1] \in [mode : Modes, owner : Owners, native : BOOLEAN,
                             at : {"lock", "stat", "empty"}]
      BY OpenTypes DEF StateOK, OpenRec
    <2>2. FilesOK
      BY DEF StateOK
    <2> QED BY <1>0, <2>1, <2>2, NewKeeps
  <1>2. hs' = Append(hs, k) /\ Leave(p, 1)
    BY DEF Register
  <1> HIDE DEF k
  <1>3. /\ L \in Nat /\ DOMAIN hs = 1..L /\ DOMAIN hs' = 1..(L + 1)
        /\ hs' \in Seq(Handles) /\ hs'[L + 1] = k /\ \A fd \in 1..L : hs'[fd] = hs[fd]
    BY <1>1, <1>2, AppendProperties, LenProperties DEF StateOK, HandlesOK, HandleOK
  <1>4. \A fd \in DOMAIN hs' : fd \in DOMAIN hs \/ fd = L + 1
    BY <1>3
  <1>5. HandlesOK'
    BY <1>1, <1>3, <1>4 DEF StateOK, HandlesOK
  <1>6. FlushesOK'
    <2>1. \A fd \in DOMAIN hs : fd \in DOMAIN hs' /\ hs'[fd] = hs[fd]
      BY <1>3
    <2>2. \A fd \in DOMAIN hs' : \A i \in DOMAIN hs'[fd].queue :
            fd \in DOMAIN hs /\ hs[fd].queue[i] = hs'[fd].queue[i] /\ i \in DOMAIN hs[fd].queue
      <3>1. DOMAIN k.queue = {}
        BY <1>1
      <3> QED BY <1>3, <1>4, <2>1, <3>1
    <2>3. \A f \in flushes : FlushOK(f)'
      BY <1>0, <2>1, <2>2, HandleTypes, FlushKept DEF StateOK, FlushesOK
    <2> QED BY <2>3 DEF FlushesOK
  <1>7. /\ OpensOK' /\ \A x \in Paths : x # p => opens'[x] = opens[x]
        /\ \A i \in DOMAIN opens'[p] : opens'[p][i].at = "lock"
    BY <1>2, LeaveKeeps DEF StateOK
  <1>8. StateOK'
    BY <1>5, <1>6, <1>7 DEF StateOK, Kept
  <1>9. \A fd \in DOMAIN hs' : file'[hs'[fd].path].exists
    <2>1. \A fd \in DOMAIN hs : hs[fd].path \in Paths /\ file[hs[fd].path].exists
      BY DataBytes DEF StateOK, Apart
    <2> QED BY <1>1, <1>3, <1>4, <2>1 DEF Kept
  <1>10. \A x \in Paths : Creating(x)' => \A fd \in DOMAIN hs' : hs'[fd].path # x
    <2>1. ASSUME NEW x \in Paths, Creating(x)', NEW fd \in DOMAIN hs'
          PROVE  hs'[fd].path # x
      <3>1. x # p /\ Creating(x)
        BY <1>7, <2>1 DEF Creating
      <3> QED BY <1>1, <1>3, <1>4, <3>1 DEF Apart
    <2> QED BY <2>1
  <1>11. Cardinality(Held') + Cardinality(Opening') <= MaxOpen + Cardinality(Paths) - 1
    <2>1. Cardinality(Held') <= Cardinality(Held) + 1 /\ Cardinality(Held') \in Nat
      <3>1. Held' \subseteq Held \cup {L + 1}
        BY <1>3, <1>4 DEF Held
      <3>2. L + 1 \notin Held
        BY <1>3 DEF Held
      <3>3. IsFiniteSet(Held \cup {L + 1}) /\ Cardinality(Held \cup {L + 1}) = Cardinality(Held) + 1
        BY <3>2, CountTypes, FS_AddElement DEF StateOK
      <3> QED BY <3>1, <3>3, CountTypes, FS_Subset, FS_CardinalityType DEF StateOK
    <2>2. Cardinality(Opening') <= Cardinality(Opening) - 1 /\ Cardinality(Opening') \in Nat
      <3>1. p \in Opening
        BY DEF Opening
      <3>2. Opening' \subseteq Opening \ {p}
        BY <1>7 DEF Opening
      <3>3. IsFiniteSet(Opening \ {p}) /\ Cardinality(Opening \ {p}) = Cardinality(Opening) - 1
        BY <3>1, CountTypes, FS_RemoveElement DEF StateOK
      <3> QED BY <3>2, <3>3, CountTypes, FS_Subset, FS_CardinalityType DEF StateOK
    <2> QED BY <2>1, <2>2, CountTypes DEF StateOK, Apart
  <1> QED BY <1>8, <1>9, <1>10, <1>11 DEF Apart

\* Every step of an open.
LEMMA OpenStepKeeps ==
  ASSUME StateOK, Apart, NEW p \in Paths, NEW i \in DOMAIN opens[p], OpenStep(p, i)
  PROVE  StateOK' /\ Apart'
  <1>1. i = 1 /\ opens[p][1] \in OpenRec
    BY OpenTypes DEF StateOK, OpenStep, OpenStart, OpenStat, OpenEmpty, OpenFails
  <1>2. <<>> \in Seq(Bytes)
    BY EmptySeq
  <1>3. CASE OpenStart(p, i)
    <2>1. Kept
      BY <1>3 DEF OpenStart, Kept, StateOK, FilesOK
    <2>2. Cardinality(Held) >= MaxOpen \/ Cardinality(Held) < MaxOpen
      BY CountTypes DEF StateOK
    <2> QED BY <1>1, <1>3, <2>1, <2>2, OpenGoesKeeps DEF OpenStart
  <1>4. CASE OpenStat(p, i)
    <2>1. Kept
      BY <1>4 DEF OpenStat, Kept, StateOK, FilesOK
    <2>2. CASE Register(p, 1, FALSE) /\ file[p].exists
      BY <1>1, <1>4, <2>1, <2>2, RegisterKeeps DEF OpenStat
    <2>3. CASE UNCHANGED hs
      <3>1. \/ Leave(p, 1)
            \/ /\ Goto(p, 1, "empty") /\ opens[p][1].at = "stat"
               /\ file[p].exists => ~ Exclusive(opens[p][1].mode) /\ Truncates(opens[p][1].mode)
        BY <1>1, <1>4, <2>3 DEF OpenStat, Register
      <3> QED BY <1>1, <1>4, <2>1, <2>3, <3>1, OpenGoesKeeps DEF OpenStat
    <2> QED BY <1>1, <1>4, <2>2, <2>3 DEF OpenStat
  <1>5. CASE OpenEmpty(p, i)
    <2>1. Kept /\ file'[p].exists
      BY <1>2, <1>5, PutKeeps DEF OpenEmpty, StateOK, FilesOK
    <2> QED BY <1>1, <1>5, <2>1, RegisterKeeps DEF OpenEmpty
  <1>6. CASE OpenFails(p, i)
    <2>1. Kept
      BY <1>2, <1>6, PutKeeps DEF OpenFails, StateOK
    <2> QED BY <1>1, <1>6, <2>1, OpenGoesKeeps DEF OpenFails
  <1> QED BY <1>3, <1>4, <1>5, <1>6 DEF OpenStep

\* The handles change and the opens do not.
LEMMA HandlesChange ==
  ASSUME StateOK, Apart, HandlesOK', FlushesOK', Kept, DOMAIN hs' = DOMAIN hs,
         \A fd \in DOMAIN hs : hs'[fd].path = hs[fd].path /\ (hs'[fd].held => hs[fd].held),
         opens' = opens, asked' = asked, gone' \subseteq Owners, nops' \in 0..MaxOps
  PROVE  StateOK' /\ Apart'
  <1>1. StateOK'
    BY DEF StateOK, Kept, OpensOK
  <1>2. \A p \in Paths : Creating(p)' => Creating(p)
    BY DEF Creating
  <1>3. Opening' \subseteq Opening
    BY DEF Opening
  <1> QED BY <1>1, <1>2, <1>3, ApartKept DEF StateOK

\* An operation is queued on one handle.
LEMMA SubmitStep ==
  ASSUME StateOK, Apart, NEW fd \in DOMAIN hs, NEW o \in Op, o.id = nops + 1, hs[fd].st = "open",
         NEW k \in Handles, k.path = hs[fd].path, k.held => hs[fd].held,
         k.queue = Append(hs[fd].queue, o),
         k.st = IF o.t = "close" THEN "closing" ELSE "open", o.t = "close" => ~ k.held,
         k.at = hs[fd].at, k.sent = hs[fd].sent, k.wrote = hs[fd].wrote,
         k.dirty = hs[fd].dirty, k.buf = hs[fd].buf, k.mtime = hs[fd].mtime,
         hs' = [hs EXCEPT ![fd] = k],
         nops < MaxOps, nops' = nops + 1, UNCHANGED <<file, opens, flushes, gone, asked>>
  PROVE  StateOK' /\ Apart'
  <1> DEFINE h == hs[fd]
  <1>1. nops \in Nat /\ nops' \in Nat /\ nops' \in 0..MaxOps /\ nops <= nops'
    BY HandlesAssumption DEF StateOK
  <1>2. HandleOK(h, nops) /\ h \in Handles /\ h.queue \in Seq(Op)
    BY HandleTypes DEF StateOK
  <1>3. HandleOK(k, nops + 1)
    BY <1>1, <1>2, SubmitKeeps
  <1>4. /\ hs' \in Seq(Handles) /\ DOMAIN hs' = DOMAIN hs
        /\ hs'[fd] = k /\ \A x \in DOMAIN hs : x # fd => hs'[x] = hs[x]
    BY OneChanges DEF StateOK
  <1>5. HandlesOK'
    <2>1. \A x \in DOMAIN hs : HandleOK(hs[x], nops + 1)
      BY <1>1, LaterKeeps DEF StateOK, HandlesOK
    <2> QED BY <1>3, <1>4, <2>1 DEF HandlesOK
  <1>6. \A i \in DOMAIN k.queue : k.queue[i] = o \/ (i \in DOMAIN h.queue /\ k.queue[i] = h.queue[i])
    <2> DEFINE L == Len(h.queue)
    <2>1. /\ L \in Nat /\ DOMAIN h.queue = 1..L /\ DOMAIN k.queue = 1..(L + 1)
          /\ k.queue[L + 1] = o /\ \A i \in 1..L : k.queue[i] = h.queue[i]
      BY <1>2, AppendProperties, LenProperties
    <2> HIDE DEF L
    <2> QED BY <2>1
  <1>7. FlushesOK'
    <2>1. \A x \in DOMAIN hs : /\ hs'[x].wrote \in Nat /\ hs'[x].sent \in Nat
                               /\ hs[x].wrote <= hs'[x].wrote /\ hs[x].sent <= hs'[x].sent
      <3>1. \A x \in DOMAIN hs : hs'[x].wrote = hs[x].wrote /\ hs'[x].sent = hs[x].sent
        BY <1>4
      <3> QED BY <3>1, HandleTypes DEF StateOK
    <2>2. \A x \in DOMAIN hs' : \A i \in DOMAIN hs'[x].queue :
            \/ hs'[x].queue[i].id = nops + 1
            \/ x \in DOMAIN hs /\ \E j \in DOMAIN hs[x].queue : hs[x].queue[j] = hs'[x].queue[i]
      <3> TAKE x \in DOMAIN hs'
      <3> TAKE i \in DOMAIN hs'[x].queue
      <3>1. CASE x = fd
        BY <1>4, <1>6, <3>1
      <3>2. CASE x # fd
        <4>1. hs'[x].queue = hs[x].queue /\ x \in DOMAIN hs
          BY <1>4, <3>2
        <4> QED BY <4>1
      <3> QED BY <3>1, <3>2
    <2>3. \A f \in flushes : FlushOK(f)'
      BY <1>1, <1>4, <2>1, <2>2, FlushKept DEF StateOK, FlushesOK
    <2> QED BY <2>3 DEF FlushesOK
  <1>8. \A x \in DOMAIN hs : hs'[x].path = hs[x].path /\ (hs'[x].held => hs[x].held)
    BY <1>4
  <1>9. Kept
    BY DEF StateOK, Kept, FilesOK
  <1> QED BY <1>1, <1>4, <1>5, <1>7, <1>8, <1>9, HandlesChange DEF StateOK

\* Calls and closes.
LEMMA SubmitsKeep ==
  ASSUME StateOK, Apart, NEW fd \in DOMAIN hs, Submit(fd)
  PROVE  StateOK' /\ Apart'
  <1> DEFINE h == hs[fd]
  <1>1. h \in Handles /\ HandleOK(h, nops)
    BY HandleTypes DEF StateOK
  <1>2. nops < MaxOps => nops + 1 \in 1..MaxOps
    BY HandlesAssumption DEF StateOK
  <1>3. Min(Lengths) \in Lengths
    <2>1. Lengths \in SUBSET Nat /\ Lengths # {}
      BY HandlesAssumption
    <2> QED BY <2>1, MinIn
  <1>4. CASE \E t \in Calls : \E a \in Args(t) : Call(fd, t, a[1], a[2])
    <2> PICK t \in Calls : \E a \in Args(t) : Call(fd, t, a[1], a[2])
      BY <1>4
    <2> PICK a \in Args(t) : Call(fd, t, a[1], a[2])
      OBVIOUS
    <2> DEFINE o == [id |-> nops + 1, t |-> t, pos |-> a[1], len |-> a[2]]
    <2>1. a[1] \in Positions \cup {Null} /\ a[2] \in Lengths
      BY DEF Args
    <2>2. t \in FdOps
      BY HandlesAssumption
    <2>3. o \in Op /\ o.id = nops + 1 /\ o.t # "close"
      BY <1>2, <2>1, <2>2 DEF Call, Op, FdOps, ReadOps, WriteOps
    <2> DEFINE q == Append(h.queue, o)
               k == [h EXCEPT !.queue = q]
    <2>4. hs' = [hs EXCEPT ![fd] = k] /\ h.st = "open"
      BY DEF Call, Admits
    <2> HIDE DEF o
    <2>5. q \in Seq(Op)
      BY <1>1, <2>3, AppendProperties DEF Handles, HandleRec
    <2> HIDE DEF q
    <2>6. k \in Handles
      BY <1>1, <2>5 DEF Handles, HandleRec
    <2>7. /\ k.path = h.path /\ k.held = h.held /\ k.queue = q /\ k.st = h.st /\ k.at = h.at
          /\ k.sent = h.sent /\ k.wrote = h.wrote /\ k.dirty = h.dirty /\ k.buf = h.buf
          /\ k.mtime = h.mtime
      BY <1>1 DEF Handles, HandleRec
    <2> HIDE DEF k
    <2>8. k.st = (IF o.t = "close" THEN "closing" ELSE "open") /\ (o.t = "close" => ~ k.held)
      BY <2>3, <2>4, <2>7
    <2>9. /\ nops < MaxOps /\ nops' = nops + 1
          /\ UNCHANGED <<file, opens, flushes, gone, asked>>
      BY DEF Call
    <2> QED BY <2>3, <2>4, <2>6, <2>7, <2>8, <2>9, SubmitStep DEF q
  <1>5. CASE Close(fd)
    <2> DEFINE o == [id |-> nops + 1, t |-> "close", pos |-> Null, len |-> Min(Lengths)]
    <2>1. o \in Op /\ o.id = nops + 1 /\ o.t = "close"
      BY <1>2, <1>3, <1>5 DEF Close, Op
    <2> DEFINE q == Append(h.queue, o)
               k == [h EXCEPT !.held = FALSE, !.st = "closing", !.queue = q]
    <2>2. hs' = [hs EXCEPT ![fd] = k]
      <3>1. [h EXCEPT !.held = FALSE, !.st = "closing", !.queue = Append(@, o)] = k
        BY <1>1 DEF Handles, HandleRec
      <3>2. Plain("close") = o
        BY DEF Plain
      <3> HIDE DEF k, q, o
      <3>3. hs' = [hs EXCEPT ![fd] = [h EXCEPT !.held = FALSE, !.st = "closing",
                                               !.queue = Append(@, o)]]
        BY <1>5, <3>2 DEF Close
      <3> QED BY <3>1, <3>3
    <2>3. h.st = "open"
      BY <1>1, <1>5 DEF Close, HandleOK, Ending, Handles, HandleRec
    <2> HIDE DEF o
    <2>4. q \in Seq(Op)
      BY <1>1, <2>1, AppendProperties DEF Handles, HandleRec
    <2> HIDE DEF q
    <2>5. k \in Handles
      BY <1>1, <2>4 DEF Handles, HandleRec
    <2>6. /\ k.path = h.path /\ ~ k.held /\ k.queue = q /\ k.st = "closing" /\ k.at = h.at
          /\ k.sent = h.sent /\ k.wrote = h.wrote /\ k.dirty = h.dirty /\ k.buf = h.buf
          /\ k.mtime = h.mtime
      BY <1>1 DEF Handles, HandleRec
    <2> HIDE DEF k
    <2>7. k.st = (IF o.t = "close" THEN "closing" ELSE "open") /\ (o.t = "close" => ~ k.held)
          /\ (k.held => h.held)
      BY <2>1, <2>6
    <2>8. /\ nops < MaxOps /\ nops' = nops + 1
          /\ UNCHANGED <<file, opens, flushes, gone, asked>>
      BY <1>5 DEF Close
    <2> QED BY <2>1, <2>2, <2>3, <2>5, <2>6, <2>7, <2>8, SubmitStep DEF q
  <1> QED BY <1>4, <1>5 DEF Submit

\* An operation that reads through a path flushes it.
LEMMA FlushPathKeeps ==
  ASSUME StateOK, Apart, NEW p \in Paths, FlushPath(p)
  PROVE  StateOK' /\ Apart'
  <1> DEFINE o == Plain("sync")
             q(fd) == Append(hs[fd].queue, o)
             k == [fd \in DOMAIN hs |->
                     IF fd \in ToFlush(p) THEN [hs[fd] EXCEPT !.queue = Append(@, o)] ELSE hs[fd]]
             g == [id |-> nops + 1, path |-> p, waits |-> ToFlush(p), syncs |-> ToFlush(p),
                   need |-> [fd \in {x \in DOMAIN hs : Admits(x)} |-> hs[fd].wrote]]
  <1>1. nops \in Nat /\ nops' = nops + 1 /\ nops' \in 0..MaxOps /\ nops + 1 \in 1..MaxOps
    BY HandlesAssumption DEF StateOK, FlushPath
  <1>2. o \in Op /\ o.id = nops + 1 /\ o.t = "sync"
    <2>1. Min(Lengths) \in Lengths
      <3>1. Lengths \in SUBSET Nat /\ Lengths # {}
        BY HandlesAssumption
      <3> QED BY <3>1, MinIn
    <2> QED BY <1>1, <2>1 DEF Plain, Op, FdOps
  <1>3. hs' = k /\ flushes' = flushes \cup {g}
    BY DEF FlushPath
  <1> HIDE DEF o
  <1>4. ASSUME NEW fd \in DOMAIN hs, fd \in ToFlush(p)
        PROVE  LET h == [hs[fd] EXCEPT !.queue = Append(@, o)]
               IN /\ HandleOK(h, nops + 1) /\ h.path = hs[fd].path /\ h.held = hs[fd].held
                  /\ h.sent = hs[fd].sent /\ h.wrote = hs[fd].wrote
                  /\ h.queue = Append(hs[fd].queue, o)
    <2> DEFINE a == Append(hs[fd].queue, o)
               h == [hs[fd] EXCEPT !.queue = a]
    <2>1. HandleOK(hs[fd], nops) /\ hs[fd] \in Handles /\ hs[fd].queue \in Seq(Op)
      BY HandleTypes DEF StateOK
    <2>2. a \in Seq(Op)
      BY <1>2, <2>1, AppendProperties
    <2> HIDE DEF a
    <2>3. h \in Handles
      BY <2>1, <2>2 DEF Handles, HandleRec
    <2>4. /\ h.path = hs[fd].path /\ h.held = hs[fd].held /\ h.queue = a /\ h.st = hs[fd].st
          /\ h.at = hs[fd].at /\ h.sent = hs[fd].sent /\ h.wrote = hs[fd].wrote
          /\ h.dirty = hs[fd].dirty /\ h.buf = hs[fd].buf /\ h.mtime = hs[fd].mtime
      BY <2>1 DEF Handles, HandleRec
    <2>5. hs[fd].st = "open"
      BY <1>4 DEF ToFlush, Admits
    <2> HIDE DEF h
    <2>6. h.st = (IF o.t = "close" THEN "closing" ELSE "open") /\ o.t # "close"
      BY <1>2, <2>4, <2>5
    <2>7. HandleOK(h, nops + 1)
      BY <1>1, <1>2, <2>1, <2>3, <2>4, <2>5, <2>6, SubmitKeeps DEF a
    <2> QED BY <2>4, <2>7 DEF h, a
  <1>5. \A fd \in DOMAIN hs : HandleOK(hs[fd], nops + 1)
    BY <1>1, LaterKeeps DEF StateOK, HandlesOK
  <1>6. \A fd \in DOMAIN hs :
          /\ HandleOK(k[fd], nops + 1) /\ k[fd].path = hs[fd].path /\ k[fd].held = hs[fd].held
          /\ k[fd].sent = hs[fd].sent /\ k[fd].wrote = hs[fd].wrote
          /\ k[fd].queue = IF fd \in ToFlush(p) THEN q(fd) ELSE hs[fd].queue
    BY <1>4, <1>5
  <1>7. k \in [DOMAIN hs -> Handles]
    BY <1>6 DEF HandleOK
  <1> HIDE DEF k, g
  <1>8. hs' \in Seq(Handles) /\ DOMAIN hs' = DOMAIN hs
    BY <1>3, <1>7, AllChange DEF StateOK
  <1>9. HandlesOK'
    BY <1>1, <1>3, <1>6, <1>8 DEF HandlesOK
  <1>10. ASSUME NEW fd \in DOMAIN hs, NEW i \in DOMAIN hs'[fd].queue
         PROVE  \/ fd \in ToFlush(p) /\ hs'[fd].queue[i] = o
                \/ i \in DOMAIN hs[fd].queue /\ hs'[fd].queue[i] = hs[fd].queue[i]
    <2>1. CASE fd \in ToFlush(p)
      <3> DEFINE L == Len(hs[fd].queue)
      <3>1. hs'[fd].queue = Append(hs[fd].queue, o) /\ hs[fd].queue \in Seq(Op)
        BY <1>3, <1>6, <2>1, HandleTypes DEF StateOK
      <3>2. /\ L \in Nat /\ DOMAIN hs[fd].queue = 1..L /\ DOMAIN hs'[fd].queue = 1..(L + 1)
            /\ hs'[fd].queue[L + 1] = o /\ \A j \in 1..L : hs'[fd].queue[j] = hs[fd].queue[j]
        BY <1>2, <3>1, AppendProperties, LenProperties
      <3> HIDE DEF L
      <3> QED BY <2>1, <3>2
    <2>2. CASE fd \notin ToFlush(p)
      BY <1>3, <1>6, <2>2
    <2> QED BY <2>1, <2>2
  <1>11. \A f \in flushes : FlushOK(f)'
    <2>1. \A fd \in DOMAIN hs : /\ hs'[fd].wrote \in Nat /\ hs'[fd].sent \in Nat
                                /\ hs[fd].wrote <= hs'[fd].wrote /\ hs[fd].sent <= hs'[fd].sent
      BY <1>3, <1>6, HandleTypes DEF StateOK
    <2>2. \A fd \in DOMAIN hs' : \A i \in DOMAIN hs'[fd].queue :
            \/ hs'[fd].queue[i].id = nops + 1
            \/ fd \in DOMAIN hs /\ \E j \in DOMAIN hs[fd].queue : hs[fd].queue[j] = hs'[fd].queue[i]
      BY <1>2, <1>8, <1>10
    <2> QED BY <1>1, <1>8, <2>1, <2>2, FlushKept DEF StateOK, FlushesOK
  <1>12. \A f : f = g => FlushOK(f)'
    <2> TAKE f
    <2> HAVE f = g
    <2>1. ToFlush(p) \subseteq DOMAIN hs /\ DOMAIN hs \subseteq Nat
      BY LenProperties DEF ToFlush, StateOK, HandlesOK
    <2>2. f.need \in [{x \in DOMAIN hs : Admits(x)} -> Nat]
      BY HandleTypes DEF StateOK, g
    <2>3. f \in FlushRec
      <3>1. f.need \in UNION {[D -> Nat] : D \in SUBSET Nat}
        BY <2>1, <2>2
      <3> QED BY <1>1, <2>1, <3>1 DEF FlushRec, g
    <2>4. f.id = nops + 1 /\ f.waits = ToFlush(p) /\ f.syncs = ToFlush(p)
      BY DEF g
    <2>5. \A fd \in f.syncs : f.need[fd] = hs[fd].wrote /\ hs[fd].wrote \in Nat
      BY <2>1, HandleTypes DEF ToFlush, StateOK, g
    <2>6. \A fd \in f.syncs : /\ f.need[fd] \in Nat /\ f.need[fd] <= hs'[fd].wrote
                              /\ fd \notin f.waits => f.need[fd] <= hs'[fd].sent
      BY <1>3, <1>6, <2>1, <2>4, <2>5
    <2>7. \A fd \in DOMAIN hs' : \A i \in DOMAIN hs'[fd].queue :
            hs'[fd].queue[i].id = f.id => hs'[fd].queue[i].t = "sync" /\ fd \in f.waits
      <3> TAKE fd \in DOMAIN hs'
      <3> TAKE i \in DOMAIN hs'[fd].queue
      <3>1. CASE fd \in ToFlush(p) /\ hs'[fd].queue[i] = o
        BY <1>2, <2>4, <3>1
      <3>2. CASE i \in DOMAIN hs[fd].queue /\ hs'[fd].queue[i] = hs[fd].queue[i]
        <4>1. hs[fd].queue[i].id <= nops /\ hs[fd].queue[i].id \in Nat
          BY <1>8, <3>2, HandleTypes DEF StateOK, HandleOK, Queued
        <4> QED BY <1>1, <2>4, <3>2, <4>1
      <3> QED BY <1>8, <1>10, <3>1, <3>2
    <2>8. f.id <= nops' /\ f.waits \subseteq f.syncs /\ f.syncs \subseteq DOMAIN hs'
      BY <1>1, <1>8, <2>1, <2>4
    <2> QED BY <2>3, <2>6, <2>7, <2>8 DEF FlushOK
  <1>13. FlushesOK'
    BY <1>3, <1>11, <1>12 DEF FlushesOK
  <1>14. \A fd \in DOMAIN hs : hs'[fd].path = hs[fd].path /\ (hs'[fd].held => hs[fd].held)
    BY <1>3, <1>6
  <1>15. Kept
    BY DEF FlushPath, StateOK, Kept, FilesOK
  <1> QED BY <1>1, <1>8, <1>9, <1>13, <1>14, <1>15, HandlesChange DEF FlushPath, StateOK

\* A session is gone.
LEMMA CloseAllKeeps ==
  ASSUME StateOK, Apart, NEW w \in Owners, CloseAll(w)
  PROVE  StateOK' /\ Apart'
  <1> DEFINE k == [fd \in DOMAIN hs |->
                     IF hs[fd].owner = w THEN [hs[fd] EXCEPT !.held = FALSE] ELSE hs[fd]]
  <1>1. nops \in Nat
    BY HandlesAssumption DEF StateOK
  <1>2. hs' = k
    BY DEF CloseAll
  <1>3. \A fd \in DOMAIN hs :
          LET h == [hs[fd] EXCEPT !.held = FALSE]
          IN /\ HandleOK(h, nops) /\ h.path = hs[fd].path /\ ~ h.held
             /\ h.sent = hs[fd].sent /\ h.wrote = hs[fd].wrote /\ h.queue = hs[fd].queue
    <2> TAKE fd \in DOMAIN hs
    <2>1. HandleOK(hs[fd], nops) /\ hs[fd] \in Handles
      BY HandleTypes DEF StateOK
    <2>2. HandleOK([hs[fd] EXCEPT !.held = FALSE], nops)
      BY <1>1, <2>1, ReleaseKeeps
    <2> QED BY <2>1, <2>2 DEF Handles, HandleRec
  <1>4. \A fd \in DOMAIN hs :
          /\ HandleOK(k[fd], nops) /\ k[fd].path = hs[fd].path /\ (k[fd].held => hs[fd].held)
          /\ k[fd].sent = hs[fd].sent /\ k[fd].wrote = hs[fd].wrote /\ k[fd].queue = hs[fd].queue
    BY <1>3, HandleTypes DEF StateOK
  <1>5. k \in [DOMAIN hs -> Handles]
    BY <1>4 DEF HandleOK
  <1> HIDE DEF k
  <1>6. hs' \in Seq(Handles) /\ DOMAIN hs' = DOMAIN hs
    BY <1>2, <1>5, AllChange DEF StateOK
  <1>7. HandlesOK'
    BY <1>2, <1>4, <1>6 DEF HandlesOK, CloseAll
  <1>8. FlushesOK'
    <2>1. \A fd \in DOMAIN hs : /\ hs'[fd].wrote \in Nat /\ hs'[fd].sent \in Nat
                                /\ hs[fd].wrote <= hs'[fd].wrote /\ hs[fd].sent <= hs'[fd].sent
      BY <1>2, <1>4, HandleTypes DEF StateOK
    <2>2. \A fd \in DOMAIN hs' : \A i \in DOMAIN hs'[fd].queue :
            fd \in DOMAIN hs /\ \E j \in DOMAIN hs[fd].queue : hs[fd].queue[j] = hs'[fd].queue[i]
      BY <1>2, <1>4, <1>6
    <2>3. nops' = nops /\ flushes' = flushes
      BY DEF CloseAll
    <2>4. \A f \in flushes : FlushOK(f)'
      BY <1>1, <1>6, <2>1, <2>2, <2>3, FlushKept DEF StateOK, FlushesOK
    <2> QED BY <2>3, <2>4 DEF FlushesOK
  <1>9. Kept
    BY DEF CloseAll, StateOK, Kept, FilesOK
  <1>10. gone' \subseteq Owners
    BY DEF CloseAll, StateOK
  <1>11. \A fd \in DOMAIN hs : hs'[fd].path = hs[fd].path /\ (hs'[fd].held => hs[fd].held)
    BY <1>2, <1>4
  <1> QED BY <1>6, <1>7, <1>8, <1>9, <1>10, <1>11, HandlesChange DEF CloseAll, StateOK

\* Writes by path, and the end of a flush by path.
LEMMA OutsideKeeps ==
  ASSUME StateOK, Apart,
         (\E p \in Paths : PathWrite(p)) \/ (\E f \in flushes : FlushDone(f)) \/ UNCHANGED vars
  PROVE  StateOK' /\ Apart'
  <1>1. nops \in Nat /\ nops' \in {nops, nops + 1} /\ nops' \in 0..MaxOps /\ hs' = hs
        /\ flushes' \subseteq flushes /\ UNCHANGED <<opens, gone, asked>>
    BY HandlesAssumption DEF StateOK, PathWrite, FlushDone, vars
  <1>2. HandlesOK' /\ FlushesOK'
    BY <1>1, SameHandles DEF StateOK
  <1>3. Kept
    <2>1. CASE file' = file
      BY <2>1 DEF StateOK, Kept, FilesOK
    <2>2. ASSUME NEW p \in Paths, PathWrite(p)
          PROVE  Kept
      <3>1. <<nops + 1>> \in Seq(Bytes)
        BY <1>1, <2>2 DEF PathWrite, Bytes
      <3> QED BY <2>2, <3>1, PutKeeps DEF PathWrite, StateOK
    <2> QED BY <2>1, <2>2 DEF FlushDone, vars
  <1> QED BY <1>1, <1>2, <1>3, HandlesChange DEF StateOK

\* Every step of an operation.
LEMMA HandleStepKeeps ==
  ASSUME StateOK, Apart, NEW fd \in DOMAIN hs, Begin(fd) \/ Resume(fd)
  PROVE  StateOK' /\ Apart'
  <1>1. nops \in Nat
    BY HandlesAssumption DEF StateOK
  <1>2. /\ Served(fd) /\ hs[fd].queue # <<>> /\ Kept
        /\ UNCHANGED <<opens, gone, asked, nops>>
    BY <1>1, HandleStep DEF StateOK
  <1>3. /\ HandlesOK' /\ FlushesOK' /\ DOMAIN hs' = DOMAIN hs
        /\ \A x \in DOMAIN hs : hs'[x].path = hs[x].path /\ hs'[x].held = hs[x].held
    BY <1>1, <1>2, ServedKeeps DEF StateOK
  <1> QED BY <1>2, <1>3, HandlesChange DEF StateOK

\* The initial states.
LEMMA InitOK ==
  ASSUME Init
  PROVE  StateOK /\ Apart
  <1>1. hs \in Seq(Handles) /\ DOMAIN hs = {}
    BY EmptySeq DEF Init
  <1>2. FilesOK
    <2>1. <<>> \in Seq(Bytes) /\ <<0>> \in Seq(Bytes)
      BY EmptySeq, BytesOfWrites
    <2>2. [exists |-> FALSE, data |-> <<>>] \in [exists : BOOLEAN, data : Seq(Bytes)]
          /\ [exists |-> TRUE, data |-> <<0>>] \in [exists : BOOLEAN, data : Seq(Bytes)]
      BY <2>1
    <2> QED BY <2>2 DEF Init, FilesOK
  <1>3. OpensOK
    <2>1. \A p \in Paths : opens[p] = <<>>
      BY DEF Init
    <2> QED BY <2>1, EmptySeq DEF Init, OpensOK
  <1>4. StateOK
    BY <1>1, <1>2, <1>3, HandlesAssumption DEF Init, StateOK, HandlesOK, FlushesOK
  <1>5. Held = {} /\ Opening = {}
    <2>1. \A p \in Paths : DOMAIN opens[p] = {}
      BY DEF Init
    <2> QED BY <1>1, <2>1 DEF Held, Opening
  <1>6. Cardinality(Held) + Cardinality(Opening) <= MaxOpen + Cardinality(Paths) - 1
    <2>1. Cardinality(Held) = 0 /\ Cardinality(Opening) = 0
      BY <1>5, FS_EmptySet
    <2>2. MaxOpen \in Nat \ {0} /\ Cardinality(Paths) \in Nat
      BY <1>4, CountTypes DEF StateOK
    <2> QED BY <2>1, <2>2
  <1> QED BY <1>1, <1>4, <1>6 DEF Apart

\* The inductive invariant.
HandlesInv == StateOK /\ Apart

\* The invariant holds of every state.
LEMMA HandlesInvariant == Spec => []HandlesInv
  <1>1. Init => HandlesInv
    BY InitOK DEF HandlesInv
  <1>2. HandlesInv /\ [Next]_vars => HandlesInv'
    <2> SUFFICES ASSUME StateOK, Apart, [Next]_vars PROVE StateOK' /\ Apart'
      BY DEF HandlesInv
    <2> QED BY OpenCallKeeps, OpenStepKeeps, FlushPathKeeps, OutsideKeeps, SubmitsKeep,
               HandleStepKeeps, CloseAllKeeps DEF Next
  <1> QED BY <1>1, <1>2, PTL DEF Spec

\* The invariant has the types of the model.
LEMMA StateTypes ==
  ASSUME StateOK
  PROVE  TypeOK
  <1>1. ASSUME NEW fd \in DOMAIN hs
        PROVE  /\ [hs[fd] EXCEPT !.frag = <<>>] \in HandleRec({<<>>})
               /\ \A i \in DOMAIN hs[fd].frag : i \in Nat /\ hs[fd].frag[i] \in Bytes
               /\ hs[fd].at # "idle" => hs[fd].queue # <<>>
    <2>1. hs[fd] \in Handles /\ HandleOK(hs[fd], nops)
      BY HandleTypes DEF StateOK
    <2>2. [hs[fd] EXCEPT !.frag = <<>>] \in HandleRec({<<>>})
      BY <2>1 DEF Handles, HandleRec
    <2>3. hs[fd].frag \in Fragments
      BY <2>1 DEF Handles, HandleRec
    <2>4. \A i \in DOMAIN hs[fd].frag : i \in Nat /\ hs[fd].frag[i] \in Bytes
      BY <2>3 DEF Fragments
    <2> QED BY <2>1, <2>2, <2>4 DEF HandleOK, Working
  <1>2. \A f \in flushes : f.waits \subseteq f.syncs /\ f.syncs \subseteq DOMAIN hs
    BY DEF StateOK, FlushesOK, FlushOK
  <1> QED BY <1>1, <1>2 DEF StateOK, TypeOK, FilesOK, OpensOK, OpenRec

\* A handle knows the standing of what it holds between any two operations, for any number of
\* handles, opens, flushes and failures (lib/vfs/handles.ts).
THEOREM BufferKnown == Spec => []BufferTells
  <1>1. HandlesInv => BufferTells
    <2> SUFFICES ASSUME StateOK PROVE BufferTells
      BY DEF HandlesInv
    <2>1. DirtyTells /\ MtimeIdle
      BY HandleTypes DEF StateOK, HandleOK, Standing, DirtyTells, MtimeIdle
    <2> QED BY <2>1, StateTypes DEF BufferTells
  <1> QED BY <1>1, HandlesInvariant, PTL

\* A write that was accepted is in storage once its handle has closed, or the close said
\* otherwise.
THEOREM NothingIsLostSilently == Spec => []NoSilentLoss
  <1>1. HandlesInv => NoSilentLoss
    BY HandleTypes DEF HandlesInv, StateOK, HandleOK, Ending, NoSilentLoss
  <1> QED BY <1>1, HandlesInvariant, PTL

\* Opens that overlap are kept apart by the lock of a path, and pass MAX_OPEN by no more than
\* one for each other path.
THEOREM OpensAreApart == Spec => []OpensApart
  <1>1. HandlesInv => OpensApart
    BY ApartMeans DEF HandlesInv, StateOK
  <1> QED BY <1>1, HandlesInvariant, PTL

\* A reader by path sees everything the handles it flushed had taken (flushLocalPath).
THEOREM FlushesShow == Spec => FlushShows
  <1>1. HandlesInv => \A f \in flushes : f.waits = {} => \A fd \in f.syncs : hs[fd].sent >= f.need[fd]
    <2> SUFFICES ASSUME StateOK, NEW f \in flushes, f.waits = {}, NEW fd \in f.syncs
                 PROVE  hs[fd].sent >= f.need[fd]
      BY DEF HandlesInv
    <2>1. FlushOK(f) /\ fd \in DOMAIN hs
      BY DEF StateOK, FlushesOK, FlushOK
    <2>2. f.need[fd] <= hs[fd].sent /\ f.need[fd] \in Nat /\ hs[fd].sent \in Nat
      BY <2>1, HandleTypes DEF StateOK, FlushOK
    <2> QED BY <2>2
  <1>2. HandlesInv /\ [Next]_vars =>
          [\A f \in flushes \ flushes' :
             f.waits = {} => \A fd \in f.syncs : hs[fd].sent >= f.need[fd]]_vars
    BY <1>1
  <1> QED BY <1>2, HandlesInvariant, PTL DEF Spec, FlushShows
=============================================================================
