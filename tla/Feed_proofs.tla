------------------------------ MODULE Feed_proofs ------------------------------
(***************************************************************************)
(* What the change feed keeps for any number of subscribers, tokens,       *)
(* watchers, changes and messages on their way.                            *)
(*                                                                         *)
(* PageInv: every change a subscriber is owed is still to come to it       *)
(* (ToCome), by the event that is queued, by the poll that will see the    *)
(* counter pass the baseline, or because the socket will be found dead.    *)
(* WorkerInv: the two ends of the feed are level but for the messages      *)
(* between them (Ends, CoverKnown), and a watcher of a directory is level  *)
(* with its notices but for the listing under way (Rescans).  IterInv:     *)
(* what was handed out and what is queued are together what was seen.      *)
(***************************************************************************)
EXTENDS Feed, TLAPS, FiniteSetTheorems, SequenceTheorems

-----------------------------------------------------------------------------
(* The iterator *)

Watchers ==
  [promised : BOOLEAN, signal : {"none", "live", "aborted", "fired"}, heard : BOOLEAN,
   closed : BOOLEAN, refed : BOOLEAN, probe : {"asked", "answered"}, late : BOOLEAN,
   iterating : BOOLEAN, queue : Seq(Nat), waiter : BOOLEAN, error : BOOLEAN,
   gen : {"none", "new", "waiting", "woken", "yielded", "done"},
   calls : Seq({"next", "return"}), got : Seq(Nat),
   result : {"none", "ended", "threw", "returned"}]

\* What holds of a watcher x between two turns, when n changes were dispatched to it.
IterOK(x, n) ==
  /\ x \in Watchers
  /\ n \in Seq(Nat)
  /\ x.gen = "none" => x.got = <<>> /\ x.queue = <<>> /\ n = <<>> /\ ~ x.iterating
  /\ x.gen \notin {"none", "done"} => x.iterating /\ x.got \o x.queue = n
  /\ x.waiter <=> x.gen = "waiting"
  /\ x.gen \in {"waiting", "woken"} => x.calls # <<>>
  /\ x.waiter => x.queue = <<>> /\ ~ x.error /\ ~ x.closed
  /\ x.closed => ~ x.refed
  /\ x.result # "none" => x.gen = "done" /\ x.closed /\ ~ x.iterating /\ x.queue = <<>>
  /\ x.result \in {"ended", "threw"} => x.got = n

IterInv ==
  /\ IterOK(iter, dispatched)
  /\ holds = IF iter.refed THEN 1 ELSE 0

\* Handing out the first of a queue, and queueing one more, keep the whole.
LEMMA QueueWhole ==
  ASSUME NEW g \in Seq(Nat), NEW q \in Seq(Nat), NEW n \in Nat
  PROVE  /\ q # <<>> => Append(g, Head(q)) \o Tail(q) = g \o q
         /\ g \o Append(q, n) = Append(g \o q, n)
  <1>1. ASSUME q # <<>> PROVE Append(g, Head(q)) \o Tail(q) = g \o q
    <2>1. /\ Head(q) \in Nat /\ Tail(q) \in Seq(Nat) /\ Len(Tail(q)) = Len(q) - 1
          /\ Len(q) \in Nat \ {0} /\ Head(q) = q[1]
          /\ \A i \in 1 .. Len(Tail(q)) : Tail(q)[i] = q[i + 1]
      BY <1>1, HeadTailProperties, EmptySeq
    <2> DEFINE a == Append(g, Head(q))
    <2>2. /\ a \in Seq(Nat) /\ Len(a) = Len(g) + 1 /\ Len(g) \in Nat /\ a[Len(g) + 1] = Head(q)
          /\ \A i \in 1..Len(g) : a[i] = g[i]
      BY <2>1, AppendProperties, LenProperties
    <2> HIDE DEF a
    <2>3. /\ a \o Tail(q) \in Seq(Nat) /\ g \o q \in Seq(Nat)
          /\ Len(a \o Tail(q)) = Len(g) + Len(q) /\ Len(g \o q) = Len(g) + Len(q)
      <3> DEFINE t == Tail(q)
      <3>1. t \in Seq(Nat) /\ Len(t) = Len(q) - 1
        BY <2>1
      <3> HIDE DEF t
      <3>2. a \o t \in Seq(Nat) /\ Len(a \o t) = Len(a) + Len(t)
        BY <2>2, <3>1, ConcatProperties
      <3>3. g \o q \in Seq(Nat) /\ Len(g \o q) = Len(g) + Len(q)
        BY ConcatProperties
      <3>4. Len(a) + Len(t) = Len(g) + Len(q)
        BY <2>1, <2>2, <3>1
      <3> QED BY <3>2, <3>3, <3>4 DEF t
    <2>4. ASSUME NEW i \in 1..(Len(g) + Len(q)) PROVE (a \o Tail(q))[i] = (g \o q)[i]
      <3>1. (g \o q)[i] = IF i <= Len(g) THEN g[i] ELSE q[i - Len(g)]
        BY ConcatProperties
      <3> DEFINE t == Tail(q)
      <3>6. /\ t \in Seq(Nat)
            /\ i \in 1..(Len(a) + Len(t))
        BY <2>1, <2>2
      <3>7. (a \o t)[i] = IF i <= Len(a) THEN a[i] ELSE t[i - Len(a)]
        BY <2>2, <3>6, ConcatProperties
      <3>2. (a \o Tail(q))[i] = IF i <= Len(g) + 1 THEN a[i] ELSE Tail(q)[i - (Len(g) + 1)]
        BY <2>2, <3>7
      <3>3. CASE i <= Len(g)
        BY <2>2, <3>1, <3>2, <3>3
      <3>4. CASE i = Len(g) + 1
        BY <2>1, <2>2, <3>1, <3>2, <3>4
      <3>5. CASE i > Len(g) + 1
        <4>1. i - (Len(g) + 1) \in 1 .. Len(Tail(q)) /\ (i - (Len(g) + 1)) + 1 = i - Len(g)
          BY <2>1, <2>2, <3>5
        <4>2. Tail(q)[i - (Len(g) + 1)] = q[(i - (Len(g) + 1)) + 1]
          BY <2>1, <4>1
        <4> QED BY <2>2, <3>1, <3>2, <3>5, <4>1, <4>2
      <3> QED BY <2>2, <3>3, <3>4, <3>5
    <2>5. a \o Tail(q) = g \o q
      BY <2>3, <2>4, SeqEqual
    <2> QED BY <2>5 DEF a
  <1>2. g \o Append(q, n) = Append(g \o q, n)
    <2>1. /\ g \o q \in Seq(Nat) /\ <<n>> \in Seq(Nat)
          /\ Append(q, n) = q \o <<n>> /\ Append(g \o q, n) = (g \o q) \o <<n>>
      BY AppendIsConcat, ConcatProperties
    <2> QED BY <2>1, ConcatAssociative
  <1> QED BY <1>1, <1>2

\* A wake moves the generator alone.
LEMMA WokenFields ==
  ASSUME NEW x \in Watchers
  PROVE  /\ I!Woken(x) \in Watchers
         /\ I!Woken(x).waiter = FALSE
         /\ I!Woken(x).gen = IF x.waiter THEN "woken" ELSE x.gen
         /\ I!Woken(x).closed = x.closed /\ I!Woken(x).refed = x.refed
         /\ I!Woken(x).iterating = x.iterating /\ I!Woken(x).error = x.error
         /\ I!Woken(x).queue = x.queue /\ I!Woken(x).got = x.got
         /\ I!Woken(x).calls = x.calls /\ I!Woken(x).result = x.result
  <1> DEFINE y == [x EXCEPT !.waiter = FALSE, !.gen = "woken"]
  <1>1. y \in Watchers
    BY DEF Watchers
  <1>2. /\ y.waiter = FALSE /\ y.gen = "woken"
        /\ y.closed = x.closed /\ y.refed = x.refed /\ y.iterating = x.iterating
        /\ y.error = x.error /\ y.queue = x.queue /\ y.got = x.got
        /\ y.calls = x.calls /\ y.result = x.result
    BY DEF Watchers
  <1> HIDE DEF y
  <1>3. I!Woken(x) = IF x.waiter THEN y ELSE x
    BY DEF I!Woken, y
  <1>4. x.waiter \in BOOLEAN
    BY DEF Watchers
  <1> QED BY <1>1, <1>2, <1>3, <1>4

\* A close wakes, and lets go of the run.
LEMMA ClosedOK ==
  ASSUME NEW n, NEW x, IterOK(x, n)
  PROVE  IterOK(I!Closed(x), n) /\ I!Closed(x).closed
  <1> DEFINE y == [x EXCEPT !.closed = TRUE, !.refed = FALSE]
  <1>1. x \in Watchers /\ y \in Watchers
    BY DEF Watchers, IterOK
  <1>2. /\ y.closed /\ ~ y.refed
        /\ y.waiter = x.waiter /\ y.gen = x.gen /\ y.iterating = x.iterating
        /\ y.error = x.error /\ y.queue = x.queue /\ y.got = x.got
        /\ y.calls = x.calls /\ y.result = x.result
    BY <1>1 DEF Watchers
  <1> HIDE DEF y
  <1>3. I!Closed(x) = IF x.closed THEN x ELSE I!Woken(y)
    BY DEF I!Closed, y
  <1>4. CASE x.closed
    BY <1>3, <1>4
  <1>5. CASE ~ x.closed
    <2> DEFINE z == I!Woken(y)
    <2>1. /\ z \in Watchers /\ z.waiter = FALSE /\ z.gen = IF x.waiter THEN "woken" ELSE x.gen
          /\ z.closed /\ ~ z.refed /\ z.iterating = x.iterating
          /\ z.queue = x.queue /\ z.got = x.got /\ z.calls = x.calls /\ z.result = x.result
      BY <1>1, <1>2, WokenFields
    <2> HIDE DEF z
    <2>2. IterOK(z, n)
      BY <2>1, <1>5 DEF IterOK
    <2> QED BY <2>1, <2>2, <1>3, <1>5 DEF z
  <1> QED BY <1>4, <1>5

\* The end of an iteration, from a state that is not left waiting.
LEMMA EndedOK ==
  ASSUME NEW n, NEW x, NEW how \in {"ended", "threw", "returned"}, IterOK(x, n), ~ x.waiter,
         x.gen # "none", how # "returned" => x.got = n
  PROVE  IterOK(I!Ended(x, how), n) /\ I!Ended(x, how).gen = "done" /\ I!Ended(x, how).calls = x.calls
  <1> DEFINE y == [x EXCEPT !.iterating = FALSE, !.queue = <<>>, !.gen = "done", !.result = how]
  <1>1. x \in Watchers /\ <<>> \in Seq(Nat)
    BY DEF IterOK
  <1>2. y \in Watchers
    BY <1>1 DEF Watchers
  <1>3. /\ ~ y.iterating /\ y.queue = <<>> /\ y.gen = "done" /\ y.result = how
        /\ y.closed = x.closed /\ y.refed = x.refed /\ y.waiter = x.waiter
        /\ y.error = x.error /\ y.got = x.got /\ y.calls = x.calls
    BY <1>1 DEF Watchers
  <1> DEFINE z == [y EXCEPT !.closed = TRUE, !.refed = FALSE]
  <1> HIDE DEF y
  <1>4. z \in Watchers
    BY <1>2 DEF Watchers
  <1>5. /\ z.closed /\ ~ z.refed
        /\ z.waiter = x.waiter /\ z.gen = "done" /\ ~ z.iterating
        /\ z.queue = <<>> /\ z.got = x.got /\ z.calls = x.calls /\ z.result = how
    BY <1>2, <1>3 DEF Watchers
  <1> HIDE DEF z
  <1>6. I!Ended(x, how) = IF y.closed THEN y ELSE I!Woken(z)
    BY DEF I!Ended, I!Closed, y, z
  <1>7. I!Woken(z) = z
    BY <1>5 DEF I!Woken
  <1>8. CASE x.closed
    <2>1. IterOK(y, n)
      BY <1>2, <1>3, <1>8 DEF IterOK
    <2> QED BY <2>1, <1>3, <1>6, <1>8
  <1>9. CASE ~ x.closed
    <2>1. IterOK(z, n)
      BY <1>4, <1>5 DEF IterOK
    <2> QED BY <2>1, <1>3, <1>5, <1>6, <1>7, <1>9
  <1> QED BY <1>8, <1>9

\* The loop of the generator: it hands out the first change of the queue, ends, or waits.
LEMMA LoopedOK ==
  ASSUME NEW n, NEW x, IterOK(x, n), x.gen \in {"new", "woken", "yielded"}, x.calls # <<>>
  PROVE  /\ IterOK(I!Looped(x), n)
         /\ I!Looped(x).gen # "woken"
         /\ I!Looped(x).calls = x.calls
  <1>1. /\ x \in Watchers /\ x.queue \in Seq(Nat) /\ x.got \in Seq(Nat) /\ ~ x.waiter
        /\ x.got \o x.queue = n /\ x.iterating
    BY DEF IterOK, Watchers
  <1>2. CASE x.queue # <<>>
    <2> DEFINE y == [x EXCEPT !.queue = Tail(@), !.got = Append(@, Head(x.queue)), !.gen = "yielded"]
    <2>1. /\ Tail(x.queue) \in Seq(Nat) /\ Append(x.got, Head(x.queue)) \in Seq(Nat)
          /\ Append(x.got, Head(x.queue)) \o Tail(x.queue) = x.got \o x.queue
      BY <1>1, <1>2, QueueWhole, HeadTailProperties, AppendProperties
    <2>2. y \in Watchers
      BY <1>1, <2>1 DEF Watchers
    <2>3. /\ y.queue = Tail(x.queue) /\ y.got = Append(x.got, Head(x.queue)) /\ y.gen = "yielded"
          /\ y.closed = x.closed /\ y.refed = x.refed /\ y.waiter = x.waiter
          /\ y.iterating = x.iterating /\ y.calls = x.calls /\ y.result = x.result
      BY <1>1 DEF Watchers
    <2>4. I!Looped(x) = y
      BY <1>2 DEF I!Looped
    <2> HIDE DEF y
    <2>5. IterOK(y, n)
      BY <1>1, <2>1, <2>2, <2>3 DEF IterOK
    <2> QED BY <2>3, <2>4, <2>5
  <1>3. CASE x.queue = <<>> /\ (x.error \/ x.closed)
    <2>1. x.got = n
      BY <1>1, <1>3
    <2>2. I!Looped(x) = I!Ended(x, IF x.error THEN "threw" ELSE "ended")
      BY <1>1, <1>3 DEF I!Looped
    <2> QED BY <1>1, <2>1, <2>2, EndedOK
  <1>4. CASE x.queue = <<>> /\ ~ x.error /\ ~ x.closed
    <2> DEFINE y == [x EXCEPT !.gen = "waiting", !.waiter = TRUE]
    <2>1. y \in Watchers
      BY <1>1 DEF Watchers
    <2>2. /\ y.gen = "waiting" /\ y.waiter /\ y.queue = <<>> /\ ~ y.error /\ ~ y.closed
          /\ y.got = x.got /\ y.iterating = x.iterating /\ y.calls = x.calls
          /\ y.result = x.result
      BY <1>1, <1>4 DEF Watchers
    <2>3. I!Looped(x) = y
      BY <1>4 DEF I!Looped
    <2> HIDE DEF y
    <2>4. IterOK(y, n)
      BY <1>1, <1>4, <2>1, <2>2 DEF IterOK
    <2> QED BY <2>2, <2>3, <2>4
  <1> QED BY <1>2, <1>3, <1>4

\* What the generator makes of a call that it takes.
LEMMA TakesOK ==
  ASSUME NEW n, NEW x, NEW call \in {"next", "return"}, IterOK(x, n),
         x.gen \in {"new", "yielded", "done"}, x.calls # <<>>
  PROVE  /\ IterOK(I!Takes(x, call), n)
         /\ I!Takes(x, call).gen # "woken"
         /\ I!Takes(x, call).calls = x.calls
  <1>1. CASE x.gen = "done"
    <2>1. I!Takes(x, call) = x
      BY <1>1 DEF I!Takes
    <2> QED BY <1>1, <2>1
  <1>2. CASE x.gen # "done" /\ call = "next"
    <2>1. I!Takes(x, call) = I!Looped(x)
      BY <1>2 DEF I!Takes
    <2> QED BY <1>2, <2>1, LoopedOK
  <1>3. CASE x.gen = "new" /\ call = "return"
    <2> DEFINE y == [x EXCEPT !.gen = "done"]
    <2>1. I!Takes(x, call) = y
      BY <1>3 DEF I!Takes
    <2>2. x \in Watchers
      BY DEF IterOK
    <2>3. y \in Watchers
      BY <2>2 DEF Watchers
    <2>4. /\ y.gen = "done" /\ y.closed = x.closed /\ y.refed = x.refed /\ y.waiter = x.waiter
          /\ y.calls = x.calls /\ y.result = x.result
      BY <2>2 DEF Watchers
    <2> HIDE DEF y
    <2>5. IterOK(y, n)
      BY <1>3, <2>3, <2>4 DEF IterOK
    <2> QED BY <2>1, <2>4, <2>5
  <1>4. CASE x.gen = "yielded" /\ call = "return"
    <2>1. I!Takes(x, call) = I!Ended(x, "returned")
      BY <1>4 DEF I!Takes
    <2>2. ~ x.waiter
      BY <1>4 DEF IterOK
    <2> QED BY <1>4, <2>1, <2>2, EndedOK
  <1> QED BY <1>1, <1>2, <1>3, <1>4

\* A call is settled, unless the generator waits for it.
LEMMA SettledOK ==
  ASSUME NEW n, NEW x, IterOK(x, n), x.gen # "woken", x.calls # <<>>
  PROVE  IterOK(I!Settled(x), n)
  <1> DEFINE y == [x EXCEPT !.calls = Tail(@)]
  <1>1. x \in Watchers /\ Tail(x.calls) \in Seq({"next", "return"})
    BY DEF IterOK, Watchers
  <1>2. y \in Watchers
    BY <1>1 DEF Watchers
  <1>3. /\ y.gen = x.gen /\ y.closed = x.closed /\ y.refed = x.refed /\ y.waiter = x.waiter
        /\ y.iterating = x.iterating /\ y.queue = x.queue /\ y.got = x.got
        /\ y.error = x.error /\ y.result = x.result
    BY <1>1 DEF Watchers
  <1>4. I!Settled(x) = IF x.gen = "waiting" THEN x ELSE y
    BY DEF I!Settled
  <1> HIDE DEF y
  <1>5. x.gen # "waiting" => IterOK(y, n)
    BY <1>2, <1>3 DEF IterOK
  <1> QED BY <1>4, <1>5

\* The holds on the run follow the watcher.
LEMMA HoldsFollow ==
  ASSUME NEW x \in Watchers, IterInv, I!Becomes(x)
  PROVE  iter' = x /\ holds' = IF iter'.refed THEN 1 ELSE 0
  <1>1. iter.refed \in BOOLEAN /\ x.refed \in BOOLEAN
    BY DEF IterInv, IterOK, Watchers
  <1> QED BY <1>1 DEF IterInv, I!Becomes

\* An iterator that was just made holds IterInv.
LEMMA IterInit == I!Init => IterInv
  <1> SUFFICES ASSUME I!Init PROVE IterInv
    OBVIOUS
  <1>1. <<>> \in Seq(Nat) /\ <<>> \in Seq({"next", "return"}) /\ <<>> \o <<>> = <<>>
    BY EmptySeq, ConcatEmptySeq
  <1>2. PICK promised, persistent, heard0 \in BOOLEAN, signal \in {"none", "live", "aborted"} :
          iter = I!Made(promised, persistent, signal, heard0)
    BY DEF I!Init
  <1>3. iter \in Watchers
    BY <1>1, <1>2 DEF I!Made, Watchers
  <1>4. /\ iter.got = <<>> /\ iter.queue = <<>> /\ ~ iter.waiter /\ ~ iter.closed
        /\ iter.iterating = promised /\ iter.result = "none"
        /\ iter.gen = IF promised THEN "new" ELSE "none"
    BY <1>2 DEF I!Made
  <1>5. IterOK(iter, <<>>)
    BY <1>1, <1>3, <1>4 DEF IterOK
  <1> QED BY <1>5 DEF I!Init, IterInv

\* A change is put into the queue of an iterator that was asked for, and wakes it.
LEMMA IterChange ==
  ASSUME IterInv, I!Change
  PROVE  IterInv'
  <1> DEFINE n == Len(dispatched) + 1
             more == Append(iter.queue, n)
             y == [iter EXCEPT !.queue = Append(@, n)]
             told == IF iter.gen = "none" THEN dispatched ELSE Append(dispatched, n)
  <1>1. /\ IterOK(iter, dispatched) /\ iter \in Watchers /\ dispatched \in Seq(Nat)
        /\ ~ iter.closed
    BY DEF IterInv, IterOK, I!Change
  <1>2. n \in Nat /\ told \in Seq(Nat)
    BY <1>1, LenProperties, AppendProperties
  <1>3. iter.queue \in Seq(Nat) /\ iter.got \in Seq(Nat)
    BY <1>1 DEF Watchers
  <1>4. more \in Seq(Nat) /\ iter.got \o more = Append(iter.got \o iter.queue, n)
    <2>1. more \in Seq(Nat)
      BY <1>2, <1>3, AppendProperties
    <2>2. iter.got \o more = Append(iter.got \o iter.queue, n)
      BY <1>2, <1>3, QueueWhole
    <2> QED BY <2>1, <2>2
  <1>5. dispatched' = told /\ I!Becomes(IF iter.iterating THEN I!Woken(y) ELSE iter)
    BY DEF I!Change
  <1>6. y \in Watchers
    BY <1>1, <1>4 DEF Watchers
  <1>7. /\ y.queue = more /\ y.got = iter.got /\ y.gen = iter.gen /\ y.closed = iter.closed
        /\ y.refed = iter.refed /\ y.waiter = iter.waiter /\ y.iterating = iter.iterating
        /\ y.calls = iter.calls /\ y.result = iter.result
    BY <1>1 DEF Watchers
  <1>8. iter.gen # "none" => told = Append(dispatched, n)
    OBVIOUS
  <1>9. iter.gen = "none" => told = dispatched
    OBVIOUS
  <1> HIDE DEF n, more, y, told
  <1>10. CASE iter.iterating
    <2> DEFINE z == I!Woken(y)
    <2>1. /\ z \in Watchers /\ z.waiter = FALSE /\ z.gen = IF iter.waiter THEN "woken" ELSE iter.gen
          /\ z.closed = iter.closed /\ z.refed = iter.refed /\ z.iterating = iter.iterating
          /\ z.queue = more /\ z.got = iter.got /\ z.calls = iter.calls /\ z.result = iter.result
      BY <1>6, <1>7, WokenFields
    <2>2. I!Becomes(z)
      BY <1>5, <1>10
    <2> HIDE DEF z
    <2>3. iter.gen # "none"
      BY <1>1, <1>10 DEF IterOK
    <2>4. iter.gen # "done" => iter.got \o more = told
      BY <1>1, <1>4, <1>8, <2>3 DEF IterOK
    <2>5. IterOK(z, told)
      BY <1>1, <1>2, <2>1, <2>3, <2>4 DEF IterOK
    <2> QED BY <1>5, <2>1, <2>2, <2>5, HoldsFollow DEF IterInv
  <1>11. CASE ~ iter.iterating
    <2>1. iter.gen \in {"none", "done"}
      BY <1>1, <1>11 DEF IterOK, Watchers
    <2>2. IterOK(iter, told)
      BY <1>1, <1>2, <1>9, <2>1 DEF IterOK
    <2> QED BY <1>1, <1>5, <1>11, <2>2, HoldsFollow DEF IterInv
  <1> QED BY <1>10, <1>11

\* The calls of the program on the watcher, the answer of its probe and its signal.
LEMMA IterWatcher ==
  ASSUME IterInv,
         I!Ref \/ I!Unref \/ I!Close \/ I!ProbeAnswers \/ I!ClosesLate \/ I!Abort
  PROVE  IterInv'
  <1> DEFINE OK(x) == I!Becomes(x) /\ IterOK(x, dispatched)
  <1>1. IterOK(iter, dispatched) /\ iter \in Watchers
    BY DEF IterInv, IterOK
  <1>2. dispatched' = dispatched
    BY DEF I!Ref, I!Unref, I!Close, I!ProbeAnswers, I!ClosesLate, I!Abort
  <1>3. ASSUME NEW x, OK(x) PROVE IterInv'
    BY <1>2, <1>3, HoldsFollow DEF IterInv, IterOK
  <1>4. ASSUME I!Ref PROVE \E x : OK(x)
    <2> DEFINE y == [iter EXCEPT !.refed = TRUE]
    <2>1. y \in Watchers
      BY <1>1 DEF Watchers
    <2>2. /\ y.queue = iter.queue /\ y.got = iter.got /\ y.gen = iter.gen /\ y.closed = iter.closed
          /\ y.waiter = iter.waiter /\ y.iterating = iter.iterating /\ y.error = iter.error
          /\ y.calls = iter.calls /\ y.result = iter.result
      BY <1>1 DEF Watchers
    <2>3. I!Becomes(y) /\ ~ iter.closed
      BY <1>4 DEF I!Ref
    <2> HIDE DEF y
    <2>4. IterOK(y, dispatched)
      BY <1>1, <2>1, <2>2, <2>3 DEF IterOK
    <2> QED BY <2>3, <2>4
  <1>5. ASSUME I!Unref PROVE \E x : OK(x)
    <2> DEFINE y == [iter EXCEPT !.refed = FALSE]
    <2>1. y \in Watchers
      BY <1>1 DEF Watchers
    <2>2. /\ y.queue = iter.queue /\ y.got = iter.got /\ y.gen = iter.gen /\ y.closed = iter.closed
          /\ y.waiter = iter.waiter /\ y.iterating = iter.iterating /\ y.error = iter.error
          /\ y.calls = iter.calls /\ y.result = iter.result /\ ~ y.refed
      BY <1>1 DEF Watchers
    <2>3. I!Becomes(y)
      BY <1>5 DEF I!Unref
    <2> HIDE DEF y
    <2>4. IterOK(y, dispatched)
      BY <1>1, <2>1, <2>2 DEF IterOK
    <2> QED BY <2>3, <2>4
  <1>6. ASSUME I!Close PROVE \E x : OK(x)
    BY <1>1, <1>6, ClosedOK DEF I!Close
  <1>7. ASSUME I!ProbeAnswers PROVE \E x : OK(x)
    <2> DEFINE y == [iter EXCEPT !.probe = "answered"]
    <2>1. y \in Watchers
      BY <1>1 DEF Watchers
    <2>2. /\ y.queue = iter.queue /\ y.got = iter.got /\ y.gen = iter.gen /\ y.closed = iter.closed
          /\ y.waiter = iter.waiter /\ y.iterating = iter.iterating /\ y.error = iter.error
          /\ y.calls = iter.calls /\ y.result = iter.result /\ y.refed = iter.refed
      BY <1>1 DEF Watchers
    <2>3. I!Becomes(y) \/ I!Becomes(I!Closed(y))
      BY <1>7 DEF I!ProbeAnswers
    <2> HIDE DEF y
    <2>4. IterOK(y, dispatched)
      BY <1>1, <2>1, <2>2 DEF IterOK
    <2> QED BY <2>3, <2>4, ClosedOK
  <1>8. ASSUME I!ClosesLate PROVE \E x : OK(x)
    <2> DEFINE y == [iter EXCEPT !.late = FALSE]
    <2>1. y \in Watchers
      BY <1>1 DEF Watchers
    <2>2. /\ y.queue = iter.queue /\ y.got = iter.got /\ y.gen = iter.gen /\ y.closed = iter.closed
          /\ y.waiter = iter.waiter /\ y.iterating = iter.iterating /\ y.error = iter.error
          /\ y.calls = iter.calls /\ y.result = iter.result /\ y.refed = iter.refed
      BY <1>1 DEF Watchers
    <2>3. I!Becomes(I!Closed(y))
      BY <1>8 DEF I!ClosesLate
    <2> HIDE DEF y
    <2>4. IterOK(y, dispatched)
      BY <1>1, <2>1, <2>2 DEF IterOK
    <2> QED BY <2>3, <2>4, ClosedOK
  <1>9. ASSUME I!Abort PROVE \E x : OK(x)
    <2> DEFINE y == [iter EXCEPT !.signal = "fired"]
               c == I!Closed(y)
               e == [c EXCEPT !.error = TRUE]
    <2>1. y \in Watchers
      BY <1>1 DEF Watchers
    <2>2. /\ y.queue = iter.queue /\ y.got = iter.got /\ y.gen = iter.gen /\ y.closed = iter.closed
          /\ y.waiter = iter.waiter /\ y.iterating = iter.iterating /\ y.error = iter.error
          /\ y.calls = iter.calls /\ y.result = iter.result /\ y.refed = iter.refed
      BY <1>1 DEF Watchers
    <2>3. I!Becomes(IF c.promised THEN I!Woken(e) ELSE c) \/ I!Becomes(c) \/ I!Becomes(I!Woken(e))
      BY <1>9 DEF I!Abort
    <2> HIDE DEF y
    <2>4. IterOK(y, dispatched)
      BY <1>1, <2>1, <2>2 DEF IterOK
    <2>5. IterOK(c, dispatched) /\ c.closed
      BY <2>4, ClosedOK
    <2> HIDE DEF c
    <2>11. c \in Watchers
      BY <2>5 DEF IterOK
    <2>6. e \in Watchers
      BY <2>11 DEF Watchers
    <2>7. /\ e.queue = c.queue /\ e.got = c.got /\ e.gen = c.gen /\ e.closed = c.closed
          /\ e.waiter = c.waiter /\ e.iterating = c.iterating
          /\ e.calls = c.calls /\ e.result = c.result /\ e.refed = c.refed
      BY <2>11 DEF Watchers
    <2> HIDE DEF e
    <2>8. ~ c.waiter
      BY <2>5 DEF IterOK
    <2>9. I!Woken(e) = e
      BY <2>7, <2>8 DEF I!Woken
    <2>10. IterOK(e, dispatched)
      BY <2>5, <2>6, <2>7, <2>8 DEF IterOK
    <2> QED BY <2>3, <2>5, <2>9, <2>10
  <1> QED BY <1>3, <1>4, <1>5, <1>6, <1>7, <1>8, <1>9

\* The steps of the iterator.
LEMMA IterIterator ==
  ASSUME IterInv,
         I!Iterate \/ (\E call \in {"next", "return"} : I!Call(call)) \/ I!Resumes \/ I!Goes
  PROVE  IterInv'
  <1> DEFINE OK(x) == I!Becomes(x) /\ IterOK(x, dispatched)
  <1>1. IterOK(iter, dispatched) /\ iter \in Watchers
    BY DEF IterInv, IterOK
  <1>2. dispatched' = dispatched
    BY DEF I!Iterate, I!Call, I!Resumes, I!Goes
  <1>3. ASSUME NEW x, OK(x) PROVE IterInv'
    BY <1>2, <1>3, HoldsFollow DEF IterInv, IterOK
  <1>4. ASSUME I!Iterate PROVE \E x : OK(x)
    <2> DEFINE y == [iter EXCEPT !.gen = "new", !.iterating = TRUE]
    <2>1. y \in Watchers
      BY <1>1 DEF Watchers
    <2>2. /\ y.queue = iter.queue /\ y.got = iter.got /\ y.gen = "new" /\ y.closed = iter.closed
          /\ y.waiter = iter.waiter /\ y.iterating /\ y.error = iter.error
          /\ y.calls = iter.calls /\ y.result = iter.result /\ y.refed = iter.refed
      BY <1>1 DEF Watchers
    <2>3. I!Becomes(y) /\ iter.gen = "none"
      BY <1>4 DEF I!Iterate
    <2> HIDE DEF y
    <2>4. iter.got \o iter.queue = dispatched
      BY <1>1, <2>3, ConcatEmptySeq DEF IterOK
    <2>5. IterOK(y, dispatched)
      BY <1>1, <2>1, <2>2, <2>3, <2>4 DEF IterOK
    <2> QED BY <2>3, <2>5
  <1>5. ASSUME NEW call \in {"next", "return"}, I!Call(call) PROVE \E x : OK(x)
    <2> DEFINE more == Append(iter.calls, call)
               y == [iter EXCEPT !.calls = Append(@, call)]
    <2>1. /\ iter.calls \in Seq({"next", "return"}) /\ more \in Seq({"next", "return"})
          /\ more # <<>>
      BY <1>1, AppendProperties DEF Watchers
    <2>2. y \in Watchers
      BY <1>1, <2>1 DEF Watchers
    <2>3. /\ y.queue = iter.queue /\ y.got = iter.got /\ y.gen = iter.gen /\ y.closed = iter.closed
          /\ y.waiter = iter.waiter /\ y.iterating = iter.iterating /\ y.error = iter.error
          /\ y.calls = more /\ y.result = iter.result /\ y.refed = iter.refed
      BY <1>1 DEF Watchers
    <2>4. \/ I!Idle /\ I!Becomes(I!Settled(I!Takes(y, call)))
          \/ I!Becomes(y)
      BY <1>5 DEF I!Call
    <2> HIDE DEF y, more
    <2>5. IterOK(y, dispatched)
      BY <1>1, <2>1, <2>2, <2>3 DEF IterOK
    <2>6. ASSUME I!Idle PROVE IterOK(I!Settled(I!Takes(y, call)), dispatched)
      <3>1. y.gen \in {"new", "yielded", "done"}
        BY <2>3, <2>6 DEF I!Idle
      <3> QED BY <2>1, <2>3, <2>5, <3>1, TakesOK, SettledOK
    <2> QED BY <2>4, <2>5, <2>6
  <1>6. ASSUME I!Resumes PROVE \E x : OK(x)
    <2>1. iter.gen = "woken" /\ I!Becomes(I!Settled(I!Looped(iter)))
      BY <1>6 DEF I!Resumes
    <2>2. iter.calls # <<>>
      BY <1>1, <2>1 DEF IterOK
    <2> QED BY <1>1, <2>1, <2>2, LoopedOK, SettledOK
  <1>7. ASSUME I!Goes PROVE \E x : OK(x)
    <2>1. /\ iter.gen \in {"new", "yielded", "done"} /\ iter.calls # <<>>
          /\ I!Becomes(I!Settled(I!Takes(iter, Head(iter.calls))))
      BY <1>7 DEF I!Goes, I!Idle
    <2>2. iter.calls \in Seq({"next", "return"})
      BY <1>1 DEF Watchers
    <2>3. Head(iter.calls) \in {"next", "return"}
      BY <2>1, <2>2, HeadTailProperties
    <2> QED BY <1>1, <2>1, <2>3, TakesOK, SettledOK
  <1> QED BY <1>3, <1>4, <1>5, <1>6, <1>7

\* Every turn keeps it (watch.ts iterate).
LEMMA IterStep ==
  ASSUME IterInv, I!Next \/ UNCHANGED iterVars
  PROVE  IterInv'
  <1>1. CASE I!Next
    BY <1>1, IterChange, IterWatcher, IterIterator DEF I!Next, I!Turn
  <1>2. CASE UNCHANGED iterVars
    BY <1>2 DEF iterVars, IterInv
  <1> QED BY <1>1, <1>2

\* It says what the iterator promises.
LEMMA IterTells == IterInv => I!HandsOutAll /\ I!NothingGoesOn
  <1> SUFFICES ASSUME IterInv PROVE I!HandsOutAll /\ I!NothingGoesOn
    OBVIOUS
  <1>1. I!HandsOutAll
    BY DEF I!HandsOutAll, IterInv, IterOK
  <1>2. I!NothingGoesOn
    BY DEF I!NothingGoesOn, IterInv, IterOK
  <1> QED BY <1>1, <1>2

-----------------------------------------------------------------------------
(* The hub *)

Packets == {"event", "connect", "error", "disconnect"} \X Nat

Sockets ==
  [at : {"none", "dialing", "greeted", "joined", "refused"}, in : Seq(Packets), deaf : BOOLEAN]

Hubs ==
  [connected : BOOLEAN, retry : BOOLEAN, watchdog : BOOLEAN, dead : BOOLEAN, ticking : BOOLEAN,
   poll : Nat \cup {None, Sent}, baseline : Nat \cup {None}, healthy : BOOLEAN, user : BOOLEAN]

\* What the subscribers C were told, and what they are owed.
Told(C) == [C -> [connected : BOOLEAN, polling : BOOLEAN]]
Owed(C) == [C -> SUBSET Nat]

Pages ==
  [socket : Sockets, hub : Hubs,
   heard : UNION {Told(C) : C \in SUBSET Consumers},
   owed : UNION {Owed(C) : C \in SUBSET Consumers}]

Waits(s, frame) == \E i \in DOMAIN s.socket.in : s.socket.in[i] = frame

\* Every subscriber was last told how the hub is.
KnowsState(s) == \A c \in DOMAIN s.heard : s.heard[c] = E!State(s.hub)

\* A connect arrives where the server has let the socket in, and the hub of a subscriber is
\* connected only there.
IsLetIn(s) ==
  /\ Waits(s, E!Packet("connect")) => s.socket.at = "joined"
  /\ s.hub.connected /\ DOMAIN s.heard # {} => s.socket.at = "joined"

\* Nothing is ahead of the counter n of the server.
Behind(s, n) ==
  /\ s.hub.poll \in Nat => s.hub.poll <= n
  /\ s.hub.baseline \in Nat => s.hub.baseline <= n
  /\ \A c \in DOMAIN s.owed : \A k \in s.owed[c] : k <= n

\* Change k is still to be told: of a hub that is up by its event, by the drop of a socket that
\* is black-holed, or by the poll that compares the counter with a baseline from before k; of
\* one that is down by any later answer, as its baseline, or the answer that will be the first
\* one, is from before k.
ToCome(s, k) ==
  IF s.hub.connected
  THEN \/ s.socket.deaf
       \/ Waits(s, <<"event", k>>)
       \/ /\ s.hub.baseline # None /\ k > s.hub.baseline
          /\ s.hub.poll # None /\ (s.hub.poll \in Nat => s.hub.poll >= k)
  ELSE \/ s.hub.baseline # None /\ k > s.hub.baseline
       \/ s.hub.baseline = None /\ s.hub.poll \in Nat /\ k > s.hub.poll

OwedToCome(s, h) == \A c \in DOMAIN s.owed : \A k \in s.owed[c] \ h : ToCome(s, k)

\* A hub without subscribers rests.
RestsAlone(s) ==
  DOMAIN s.heard = {} => /\ s.socket = E!NoSocket
                         /\ ~ s.hub.retry /\ ~ s.hub.watchdog /\ ~ s.hub.ticking

PageOK(s, n, h) ==
  /\ s \in Pages /\ DOMAIN s.owed = DOMAIN s.heard
  /\ KnowsState(s) /\ IsLetIn(s) /\ Behind(s, n) /\ OwedToCome(s, h) /\ RestsAlone(s)

PageInv == world \in Nat /\ PageOK(E!Now, world, hole)

-----------------------------------------------------------------------------
(* What the methods of the hub do to it *)

\* The two have the same subscribers, each owed the same.
SameOwed(s, t) == DOMAIN t.heard = DOMAIN s.heard /\ t.owed = s.owed

\* Nobody is owed anything.
NoneOwed(s, t) ==
  /\ DOMAIN t.heard = DOMAIN s.heard /\ DOMAIN t.owed = DOMAIN s.heard
  /\ \A c \in DOMAIN t.owed : t.owed[c] = {}

\* Who knew the state knows it still.
TellsOn(s, t) == KnowsState(s) => KnowsState(t)

\* The parts of a state of the page.
LEMMA PageParts ==
  ASSUME NEW s \in Pages
  PROVE  /\ s.socket \in Sockets /\ s.hub \in Hubs
         /\ s.heard \in Told(DOMAIN s.heard) /\ DOMAIN s.heard \in SUBSET Consumers
         /\ s.owed \in Owed(DOMAIN s.owed) /\ DOMAIN s.owed \in SUBSET Consumers
  <1>1. /\ s.socket \in Sockets /\ s.hub \in Hubs
        /\ s.heard \in UNION {Told(C) : C \in SUBSET Consumers}
        /\ s.owed \in UNION {Owed(C) : C \in SUBSET Consumers}
    BY DEF Pages
  <1>2. PICK C \in SUBSET Consumers : s.heard \in Told(C)
    BY <1>1
  <1>3. PICK D \in SUBSET Consumers : s.owed \in Owed(D)
    BY <1>1
  <1> QED BY <1>1, <1>2, <1>3 DEF Told, Owed

\* What a subscriber is told is a state.
LEMMA StateType ==
  ASSUME NEW h \in Hubs
  PROVE  E!State(h) \in [connected : BOOLEAN, polling : BOOLEAN]
BY DEF E!State, Hubs

\* Hubs that are connected alike and healthy alike are in the same state.
LEMMA SameState ==
  ASSUME NEW h \in Hubs, NEW g \in Hubs, g.connected = h.connected, g.healthy = h.healthy
  PROVE  E!State(g) = E!State(h)
BY DEF E!State

\* #tellState changes what was heard and nothing else.
LEMMA TellStateFields ==
  ASSUME NEW s \in Pages
  PROVE  /\ E!TellState(s) \in Pages
         /\ E!TellState(s).socket = s.socket /\ E!TellState(s).hub = s.hub
         /\ SameOwed(s, E!TellState(s)) /\ KnowsState(E!TellState(s))
  <1> DEFINE D == DOMAIN s.heard
             f == [c \in D |-> E!State(s.hub)]
             t == [s EXCEPT !.heard = f]
  <1>1. s.hub \in Hubs /\ D \in SUBSET Consumers
    BY PageParts
  <1>2. f \in Told(D)
    BY <1>1, StateType DEF Told
  <1>3. t \in Pages
    BY <1>1, <1>2 DEF Pages
  <1>4. t.socket = s.socket /\ t.hub = s.hub /\ t.owed = s.owed /\ t.heard = f
    BY DEF Pages
  <1>5. E!TellState(s) = t
    BY DEF E!TellState, E!Subscribers
  <1> HIDE DEF t
  <1> QED BY <1>3, <1>4, <1>5 DEF SameOwed, KnowsState

\* A stale notice settles what is owed and changes nothing else.
LEMMA TellStaleFields ==
  ASSUME NEW s \in Pages
  PROVE  /\ E!TellStale(s) \in Pages
         /\ E!TellStale(s).socket = s.socket /\ E!TellStale(s).hub = s.hub
         /\ E!TellStale(s).heard = s.heard
         /\ NoneOwed(s, E!TellStale(s))
  <1> DEFINE D == DOMAIN s.heard
             f == [c \in D |-> {}]
             t == [s EXCEPT !.owed = f]
  <1>1. D \in SUBSET Consumers
    BY PageParts
  <1>2. f \in Owed(D)
    BY DEF Owed
  <1>3. t \in Pages
    BY <1>1, <1>2 DEF Pages
  <1>4. t.socket = s.socket /\ t.hub = s.hub /\ t.owed = f /\ t.heard = s.heard
    BY DEF Pages
  <1>5. E!TellStale(s) = t
    BY DEF E!TellStale, E!Subscribers
  <1> HIDE DEF t
  <1> QED BY <1>3, <1>4, <1>5 DEF NoneOwed

\* Another hub that is up, or down, and healthy as the one before.
LEMMA NextHub ==
  ASSUME NEW s \in Pages, NEW h \in Hubs
  PROVE  /\ [s EXCEPT !.hub = h] \in Pages /\ [s EXCEPT !.hub = h].hub = h
         /\ [s EXCEPT !.hub = h].socket = s.socket
         /\ [s EXCEPT !.hub = h].heard = s.heard /\ [s EXCEPT !.hub = h].owed = s.owed
         /\ SameOwed(s, [s EXCEPT !.hub = h])
         /\ h.connected = s.hub.connected /\ h.healthy = s.hub.healthy =>
              TellsOn(s, [s EXCEPT !.hub = h])
  <1> DEFINE t == [s EXCEPT !.hub = h]
  <1>1. /\ t \in Pages /\ t.hub = h /\ t.socket = s.socket /\ t.heard = s.heard /\ t.owed = s.owed
    BY DEF Pages
  <1>2. s.hub \in Hubs
    BY PageParts
  <1> HIDE DEF t
  <1>3. SameOwed(s, t)
    BY <1>1 DEF SameOwed
  <1>4. h.connected = s.hub.connected /\ h.healthy = s.hub.healthy => TellsOn(s, t)
    BY <1>1, <1>2, SameState DEF TellsOn, KnowsState
  <1> QED BY <1>1, <1>3, <1>4 DEF t

\* The counter has been asked.
Asked(poll) == IF poll = None THEN Sent ELSE poll

\* #pollOnce asks for the counter and changes nothing else.
LEMMA PollFields ==
  ASSUME NEW s \in Pages
  PROVE  /\ E!Poll(s) \in Pages /\ E!Poll(s).socket = s.socket
         /\ E!Poll(s).hub = [s.hub EXCEPT !.poll = Asked(@)] /\ E!Poll(s).hub \in Hubs
         /\ SameOwed(s, E!Poll(s)) /\ TellsOn(s, E!Poll(s))
  <1> DEFINE h == [s.hub EXCEPT !.poll = Asked(@)]
             t == [s EXCEPT !.hub = h]
  <1>1. s.hub \in Hubs
    BY PageParts
  <1>2. h \in Hubs /\ h.connected = s.hub.connected /\ h.healthy = s.hub.healthy
    BY <1>1 DEF Hubs, Asked
  <1> HIDE DEF h
  <1>3. /\ t \in Pages /\ t.hub = h /\ t.socket = s.socket
        /\ SameOwed(s, t) /\ TellsOn(s, t)
    BY <1>2, NextHub
  <1>4. E!Poll(s) = t
    <2>1. CASE s.hub.poll = None
      BY <2>1 DEF E!Poll, Asked, h
    <2>2. CASE s.hub.poll # None
      <3>1. h = s.hub
        BY <2>2, <1>1 DEF Asked, Hubs, h
      <3>2. t = s
        BY <3>1 DEF Pages
      <3> QED BY <2>2, <3>2 DEF E!Poll
    <2> QED BY <2>1, <2>2
  <1> QED BY <1>2, <1>3, <1>4 DEF h

\* What setConnected makes of the hub.
LEMMA SetHealthyFields ==
  ASSUME NEW s \in Pages, NEW ok \in BOOLEAN
  PROVE  /\ E!SetHealthy(s, ok) \in Pages /\ E!SetHealthy(s, ok).socket = s.socket
         /\ E!SetHealthy(s, ok).hub = [s.hub EXCEPT !.healthy = ok]
         /\ E!SetHealthy(s, ok).hub \in Hubs
         /\ SameOwed(s, E!SetHealthy(s, ok)) /\ TellsOn(s, E!SetHealthy(s, ok))
  <1> DEFINE h == [s.hub EXCEPT !.healthy = ok]
             t == [s EXCEPT !.hub = h]
  <1>1. s.hub \in Hubs
    BY PageParts
  <1>2. h \in Hubs
    BY <1>1 DEF Hubs
  <1>3. CASE s.hub.healthy = ok
    <2>1. h = s.hub
      BY <1>1, <1>3 DEF Hubs
    <2>2. E!SetHealthy(s, ok) = s
      BY <1>3 DEF E!SetHealthy
    <2> QED BY <1>2, <2>1, <2>2 DEF SameOwed, TellsOn
  <1>4. CASE s.hub.healthy # ok
    <2>2. E!SetHealthy(s, ok) = E!TellState(t)
      BY <1>4 DEF E!SetHealthy
    <2> HIDE DEF h
    <2>1. t \in Pages /\ t.hub = h /\ t.socket = s.socket /\ SameOwed(s, t)
      BY <1>2, NextHub
    <2> HIDE DEF t
    <2>3. /\ E!TellState(t) \in Pages /\ E!TellState(t).hub = h
          /\ E!TellState(t).socket = s.socket
          /\ SameOwed(t, E!TellState(t)) /\ KnowsState(E!TellState(t))
      BY <2>1, TellStateFields
    <2> QED BY <1>2, <2>1, <2>2, <2>3 DEF SameOwed, TellsOn, h
  <1> QED BY <1>3, <1>4

\* The hub h after g with the same socket and baseline, and a poll that may have been asked.
SameLink(g, h) ==
  /\ h.connected = g.connected /\ h.baseline = g.baseline /\ h.dead = g.dead
  /\ h.retry = g.retry /\ h.watchdog = g.watchdog
  /\ h.poll \in {g.poll, Asked(g.poll)}

\* What #syncPolling makes of the hub.
LEMMA SyncPollingFields ==
  ASSUME NEW s \in Pages
  PROVE  /\ E!SyncPolling(s) \in Pages /\ E!SyncPolling(s).socket = s.socket
         /\ SameLink(s.hub, E!SyncPolling(s).hub)
         /\ E!SyncPolling(s).hub.ticking = (DOMAIN s.heard # {} /\ ~ s.hub.connected)
         /\ SameOwed(s, E!SyncPolling(s)) /\ TellsOn(s, E!SyncPolling(s))
  <1> DEFINE wanted == DOMAIN s.heard # {} /\ ~ s.hub.connected
             h == [s.hub EXCEPT !.ticking = wanted]
             t == [s EXCEPT !.hub = h]
  <1>1. s.hub \in Hubs
    BY PageParts
  <1>2. /\ h \in Hubs /\ h.ticking = wanted /\ h.connected = s.hub.connected
        /\ h.healthy = s.hub.healthy /\ h.baseline = s.hub.baseline /\ h.dead = s.hub.dead
        /\ h.retry = s.hub.retry /\ h.watchdog = s.hub.watchdog /\ h.poll = s.hub.poll
    BY <1>1 DEF Hubs
  <1> HIDE DEF h
  <1>3. CASE wanted = s.hub.ticking
    <2>1. E!SyncPolling(s) = s
      BY <1>3 DEF E!SyncPolling, E!Subscribers
    <2> QED BY <1>3, <2>1 DEF SameLink, SameOwed, TellsOn
  <1>4. /\ t \in Pages /\ t.hub = h /\ t.socket = s.socket
        /\ SameOwed(s, t) /\ TellsOn(s, t)
    BY <1>2, NextHub
  <1>5. CASE wanted # s.hub.ticking /\ wanted
    <2>1. E!SyncPolling(s) = E!Poll([s EXCEPT !.hub.ticking = TRUE])
      BY <1>5 DEF E!SyncPolling, E!Subscribers
    <2>2. E!SyncPolling(s) = E!Poll(t)
      BY <1>5, <2>1 DEF h
    <2> HIDE DEF t
    <2> DEFINE u == E!Poll(t)
    <2>3. /\ u \in Pages /\ u.socket = s.socket /\ u.hub = [h EXCEPT !.poll = Asked(@)]
          /\ SameOwed(t, u) /\ TellsOn(t, u)
      BY <1>4, PollFields
    <2> HIDE DEF u
    <2>4. /\ SameLink(s.hub, u.hub) /\ u.hub.ticking = wanted
      BY <1>2, <2>3 DEF SameLink, Hubs
    <2>5. SameOwed(s, u) /\ TellsOn(s, u)
      BY <1>4, <2>3 DEF SameOwed, TellsOn
    <2> QED BY <2>2, <2>3, <2>4, <2>5 DEF u
  <1>6. CASE wanted # s.hub.ticking /\ ~ wanted
    <2>1. E!SyncPolling(s) = E!SetHealthy([s EXCEPT !.hub.ticking = FALSE], FALSE)
      BY <1>6 DEF E!SyncPolling, E!Subscribers
    <2>2. E!SyncPolling(s) = E!SetHealthy(t, FALSE)
      BY <1>6, <2>1 DEF h
    <2> HIDE DEF t
    <2> DEFINE u == E!SetHealthy(t, FALSE)
    <2>3. /\ u \in Pages /\ u.socket = s.socket /\ u.hub = [h EXCEPT !.healthy = FALSE]
          /\ SameOwed(t, u) /\ TellsOn(t, u)
      BY <1>4, SetHealthyFields
    <2> HIDE DEF u
    <2>4. /\ SameLink(s.hub, u.hub) /\ u.hub.ticking = wanted
      BY <1>2, <2>3 DEF SameLink, Hubs
    <2>5. SameOwed(s, u) /\ TellsOn(s, u)
      BY <1>4, <2>3 DEF SameOwed, TellsOn
    <2> QED BY <2>2, <2>3, <2>4, <2>5 DEF u
  <1> QED BY <1>3, <1>5, <1>6

\* A drop is announced, and everyone looks again.
LEMMA SetDownFields ==
  ASSUME NEW s \in Pages, s.hub.connected
  PROVE  /\ E!SetDown(s) \in Pages /\ E!SetDown(s).socket = s.socket
         /\ ~ E!SetDown(s).hub.connected /\ E!SetDown(s).hub.baseline = None
         /\ E!SetDown(s).hub.retry = s.hub.retry /\ E!SetDown(s).hub.watchdog = s.hub.watchdog
         /\ E!SetDown(s).hub.ticking = (DOMAIN s.heard # {})
         /\ E!SetDown(s).hub.poll \in {s.hub.poll, Asked(s.hub.poll)}
         /\ NoneOwed(s, E!SetDown(s)) /\ KnowsState(E!SetDown(s))
  <1> DEFINE g == [s.hub EXCEPT !.connected = FALSE]
             p == [s EXCEPT !.hub = g]
             q == E!TellState(p)
             r == E!TellStale(q)
             h == [r.hub EXCEPT !.baseline = None]
             t == [r EXCEPT !.hub = h]
             u == E!SyncPolling(t)
  <1>1. s.hub \in Hubs
    BY PageParts
  <1>2. /\ g \in Hubs /\ ~ g.connected /\ g.retry = s.hub.retry /\ g.watchdog = s.hub.watchdog
        /\ g.poll = s.hub.poll
    BY <1>1 DEF Hubs
  <1>3. E!SetDown(s) = u
    BY DEF E!SetDown
  <1> HIDE DEF g
  <1>4. p \in Pages /\ p.hub = g /\ p.socket = s.socket /\ SameOwed(s, p)
    BY <1>2, NextHub
  <1> HIDE DEF p
  <1>5. q \in Pages /\ q.hub = g /\ q.socket = s.socket /\ SameOwed(p, q) /\ KnowsState(q)
    BY <1>4, TellStateFields
  <1> HIDE DEF q
  <1>6. r \in Pages /\ r.hub = g /\ r.socket = s.socket /\ NoneOwed(q, r) /\ r.heard = q.heard
    BY <1>5, TellStaleFields
  <1> HIDE DEF r
  <1>7. /\ h \in Hubs /\ ~ h.connected /\ h.retry = s.hub.retry /\ h.watchdog = s.hub.watchdog
        /\ h.poll = s.hub.poll /\ h.baseline = None
        /\ h.connected = r.hub.connected /\ h.healthy = r.hub.healthy
    BY <1>2, <1>6 DEF Hubs
  <1> HIDE DEF h
  <1>8. /\ t \in Pages /\ t.hub = h /\ t.socket = s.socket /\ SameOwed(r, t) /\ t.heard = r.heard
        /\ TellsOn(r, t)
    BY <1>6, <1>7, NextHub
  <1> HIDE DEF t
  <1>9. /\ u \in Pages /\ u.socket = s.socket /\ SameLink(h, u.hub)
        /\ u.hub.ticking = (DOMAIN t.heard # {} /\ ~ h.connected)
        /\ SameOwed(t, u) /\ TellsOn(t, u)
    BY <1>8, SyncPollingFields
  <1> HIDE DEF u
  <1>10. KnowsState(u)
    BY <1>5, <1>6, <1>8, <1>9 DEF TellsOn, KnowsState
  <1>11. NoneOwed(s, u) /\ DOMAIN t.heard = DOMAIN s.heard
    BY <1>4, <1>5, <1>6, <1>8, <1>9 DEF NoneOwed, SameOwed
  <1> QED BY <1>3, <1>7, <1>9, <1>10, <1>11 DEF SameLink

\* A connect: with a baseline a poll is on its way, without one everyone looks again.
LEMMA SetUpFields ==
  ASSUME NEW s \in Pages, ~ s.hub.connected
  PROVE  /\ E!SetUp(s) \in Pages /\ E!SetUp(s).socket = s.socket
         /\ E!SetUp(s).hub.connected /\ E!SetUp(s).hub.baseline = s.hub.baseline
         /\ E!SetUp(s).hub.retry = s.hub.retry /\ E!SetUp(s).hub.watchdog = s.hub.watchdog
         /\ ~ E!SetUp(s).hub.ticking
         /\ s.hub.baseline = None =>
              /\ NoneOwed(s, E!SetUp(s))
              /\ E!SetUp(s).hub.poll \in {s.hub.poll, Asked(s.hub.poll)}
         /\ s.hub.baseline # None =>
              /\ SameOwed(s, E!SetUp(s))
              /\ E!SetUp(s).hub.poll = Asked(s.hub.poll)
         /\ KnowsState(E!SetUp(s))
  <1> DEFINE g == [s.hub EXCEPT !.connected = TRUE]
             p == [s EXCEPT !.hub = g]
             q == E!TellState(p)
             u == E!SyncPolling(q)
  <1>1. s.hub \in Hubs
    BY PageParts
  <1>2. /\ g \in Hubs /\ g.connected /\ g.retry = s.hub.retry /\ g.watchdog = s.hub.watchdog
        /\ g.poll = s.hub.poll /\ g.baseline = s.hub.baseline
    BY <1>1 DEF Hubs
  <1>3. E!SetUp(s) = IF s.hub.baseline = None THEN E!TellStale(u) ELSE E!Poll(u)
    BY DEF E!SetUp
  <1> HIDE DEF g
  <1>4. p \in Pages /\ p.hub = g /\ p.socket = s.socket /\ SameOwed(s, p)
    BY <1>2, NextHub
  <1> HIDE DEF p
  <1>5. q \in Pages /\ q.hub = g /\ q.socket = s.socket /\ SameOwed(p, q) /\ KnowsState(q)
    BY <1>4, TellStateFields
  <1> HIDE DEF q
  <1>6. /\ u \in Pages /\ u.socket = s.socket /\ SameLink(g, u.hub)
        /\ u.hub.ticking = (DOMAIN q.heard # {} /\ ~ g.connected)
        /\ SameOwed(q, u) /\ TellsOn(q, u)
    BY <1>5, SyncPollingFields
  <1> HIDE DEF u
  <1>7. KnowsState(u) /\ SameOwed(s, u)
    BY <1>4, <1>5, <1>6 DEF TellsOn, SameOwed
  <1>8. CASE s.hub.baseline = None
    <2> DEFINE v == E!TellStale(u)
    <2>1. v \in Pages /\ v.socket = s.socket /\ v.hub = u.hub /\ v.heard = u.heard /\ NoneOwed(u, v)
      BY <1>6, TellStaleFields
    <2> HIDE DEF v
    <2>2. E!SetUp(s) = v
      BY <1>3, <1>8 DEF v
    <2>3. KnowsState(v) /\ NoneOwed(s, v)
      BY <1>7, <2>1 DEF KnowsState, NoneOwed, SameOwed
    <2> QED BY <1>2, <1>6, <1>8, <2>1, <2>2, <2>3 DEF SameLink
  <1>9. CASE s.hub.baseline # None
    <2> DEFINE v == E!Poll(u)
    <2>1. /\ v \in Pages /\ v.socket = s.socket /\ v.hub = [u.hub EXCEPT !.poll = Asked(@)]
          /\ SameOwed(u, v) /\ TellsOn(u, v)
      BY <1>6, PollFields
    <2> HIDE DEF v
    <2>2. E!SetUp(s) = v
      BY <1>3, <1>9 DEF v
    <2>3. u.hub \in Hubs
      BY <1>6, PageParts
    <2>4. /\ v.hub.connected = u.hub.connected /\ v.hub.baseline = u.hub.baseline
          /\ v.hub.retry = u.hub.retry /\ v.hub.watchdog = u.hub.watchdog
          /\ v.hub.ticking = u.hub.ticking /\ v.hub.poll = Asked(u.hub.poll)
      BY <2>1, <2>3 DEF Hubs
    <2>5. v.hub.poll = Asked(s.hub.poll)
      BY <1>2, <1>6, <2>4, FeedAssumption DEF SameLink, Asked
    <2>6. KnowsState(v) /\ SameOwed(s, v)
      BY <1>7, <2>1 DEF TellsOn, SameOwed
    <2> QED BY <1>2, <1>6, <1>9, <2>1, <2>2, <2>4, <2>5, <2>6 DEF SameLink
  <1> QED BY <1>8, <1>9

-----------------------------------------------------------------------------
(* What keeps the invariant *)

\* The page after s that goes on with the same connection and the same baseline, and a
\* socket that has lost nothing while it was up.
Follows(s, t) ==
  /\ t \in Pages /\ SameOwed(s, t) /\ TellsOn(s, t)
  /\ t.hub.connected = s.hub.connected /\ t.hub.baseline = s.hub.baseline
  /\ t.hub.poll \in {s.hub.poll, Asked(s.hub.poll)}
  /\ Waits(t, E!Packet("connect")) => t.socket.at = "joined"
  /\ s.hub.connected /\ s.socket.at = "joined" =>
       /\ t.socket.at = "joined"
       /\ s.socket.deaf => t.socket.deaf
       /\ \A k \in Nat : Waits(s, <<"event", k>>) => t.socket.deaf \/ Waits(t, <<"event", k>>)
  /\ RestsAlone(t)

\* A state that follows one that is right is right.
LEMMA FollowsOK ==
  ASSUME NEW n, NEW h, NEW s, NEW t, PageOK(s, n, h), Follows(s, t)
  PROVE  PageOK(t, n, h)
  <1>1. s \in Pages /\ DOMAIN s.owed = DOMAIN s.heard /\ t \in Pages /\ DOMAIN t.owed = DOMAIN t.heard
    BY DEF PageOK, Follows, SameOwed
  <1>2. DOMAIN t.heard = DOMAIN s.heard /\ t.owed = s.owed /\ s.owed \in Owed(DOMAIN s.owed)
    BY <1>1, PageParts DEF Follows, SameOwed
  <1>3. KnowsState(t)
    BY DEF PageOK, Follows, TellsOn
  <1>4. IsLetIn(t)
    BY <1>2 DEF PageOK, Follows, IsLetIn
  <1>5. Behind(t, n)
    BY <1>2, FeedAssumption DEF PageOK, Follows, Behind, Asked
  <1>6. ASSUME NEW c \in DOMAIN s.owed, NEW k \in s.owed[c] \ h
        PROVE  ToCome(t, k)
    <2>1. k \in Nat
      BY <1>2 DEF Owed
    <2>2. ToCome(s, k)
      BY DEF PageOK, OwedToCome
    <2>3. s.hub.connected => s.socket.at = "joined"
      BY <1>1 DEF PageOK, IsLetIn
    <2>4. CASE s.hub.connected
      BY <2>1, <2>2, <2>3, <2>4, FeedAssumption DEF Follows, ToCome, Asked
    <2>5. CASE ~ s.hub.connected
      BY <2>1, <2>2, <2>5, FeedAssumption DEF Follows, ToCome, Asked
    <2> QED BY <2>4, <2>5
  <1>7. OwedToCome(t, h)
    BY <1>2, <1>6 DEF OwedToCome
  <1> QED BY <1>1, <1>3, <1>4, <1>5, <1>7 DEF PageOK, Follows

\* The counter and the blind spots grow.
LEMMA GrowsOK ==
  ASSUME NEW n \in Nat, NEW m \in Nat, n <= m, NEW h, NEW g, h \subseteq g, NEW s, PageOK(s, n, h)
  PROVE  PageOK(s, m, g)
  <1>1. s \in Pages
    BY DEF PageOK
  <1>2. s.owed \in Owed(DOMAIN s.owed) /\ s.hub \in Hubs
    BY <1>1, PageParts
  <1>3. Behind(s, m)
    <2>1. s.hub.poll \in Nat => s.hub.poll <= m
      BY DEF PageOK, Behind
    <2>2. s.hub.baseline \in Nat => s.hub.baseline <= m
      BY DEF PageOK, Behind
    <2>3. ASSUME NEW c \in DOMAIN s.owed, NEW k \in s.owed[c] PROVE k <= m
      BY <1>2 DEF PageOK, Behind, Owed
    <2> QED BY <2>1, <2>2, <2>3 DEF Behind
  <1>4. OwedToCome(s, g)
    BY DEF PageOK, OwedToCome
  <1> QED BY <1>3, <1>4 DEF PageOK

\* With nobody owed anything little is asked for.
LEMMA NoneOwedOK ==
  ASSUME NEW n, NEW h, NEW s, NEW t \in Pages, PageOK(s, n, h), NoneOwed(s, t), KnowsState(t),
         IsLetIn(t), RestsAlone(t),
         t.hub.baseline \in {None, s.hub.baseline, s.hub.poll},
         t.hub.poll \in {None, s.hub.poll, Asked(s.hub.poll)}
  PROVE  PageOK(t, n, h)
  <1>1. Behind(t, n)
    BY FeedAssumption DEF PageOK, Behind, NoneOwed, Asked
  <1>2. OwedToCome(t, h)
    BY DEF OwedToCome, NoneOwed
  <1> QED BY <1>1, <1>2 DEF PageOK, NoneOwed

\* #pollOnce keeps what is right.
LEMMA PollOK ==
  ASSUME NEW n, NEW h, NEW s, PageOK(s, n, h)
  PROVE  PageOK(E!Poll(s), n, h)
  <1> DEFINE t == E!Poll(s)
  <1>1. s \in Pages
    BY DEF PageOK
  <1>2. /\ t \in Pages /\ t.socket = s.socket /\ t.hub = [s.hub EXCEPT !.poll = Asked(@)]
        /\ SameOwed(s, t) /\ TellsOn(s, t) /\ s.hub \in Hubs
    BY <1>1, PollFields, PageParts
  <1> HIDE DEF t
  <1>3. /\ t.hub.connected = s.hub.connected /\ t.hub.baseline = s.hub.baseline
        /\ t.hub.poll = Asked(s.hub.poll) /\ t.hub.retry = s.hub.retry
        /\ t.hub.watchdog = s.hub.watchdog /\ t.hub.ticking = s.hub.ticking
    BY <1>2 DEF Hubs
  <1>4. Follows(s, t)
    BY <1>2, <1>3 DEF Follows, PageOK, IsLetIn, RestsAlone, Waits, SameOwed
  <1>5. PageOK(t, n, h)
    BY <1>4, FollowsOK
  <1> QED BY <1>5 DEF t

\* #syncPolling keeps what is right.
LEMMA SyncPollingOK ==
  ASSUME NEW n, NEW h, NEW s, PageOK(s, n, h)
  PROVE  PageOK(E!SyncPolling(s), n, h)
  <1> DEFINE t == E!SyncPolling(s)
  <1>1. s \in Pages
    BY DEF PageOK
  <1>2. /\ t \in Pages /\ t.socket = s.socket /\ SameLink(s.hub, t.hub)
        /\ t.hub.ticking = (DOMAIN s.heard # {} /\ ~ s.hub.connected)
        /\ SameOwed(s, t) /\ TellsOn(s, t)
    BY <1>1, SyncPollingFields
  <1> HIDE DEF t
  <1>3. Follows(s, t)
    BY <1>2 DEF Follows, PageOK, IsLetIn, RestsAlone, Waits, SameOwed, SameLink
  <1>4. PageOK(t, n, h)
    BY <1>3, FollowsOK
  <1> QED BY <1>4 DEF t

\* A hub that differs by its timers, its token or its refusal.
LEMMA TimersOK ==
  ASSUME NEW n, NEW h, NEW s, PageOK(s, n, h), NEW g \in Hubs,
         g.connected = s.hub.connected, g.healthy = s.hub.healthy,
         g.baseline = s.hub.baseline, g.poll = s.hub.poll,
         DOMAIN s.heard = {} => ~ g.retry /\ ~ g.watchdog /\ ~ g.ticking
  PROVE  PageOK([s EXCEPT !.hub = g], n, h)
  <1> DEFINE t == [s EXCEPT !.hub = g]
  <1>1. s \in Pages
    BY DEF PageOK
  <1>2. /\ t \in Pages /\ t.hub = g /\ t.socket = s.socket /\ SameOwed(s, t) /\ TellsOn(s, t)
    BY <1>1, NextHub
  <1> HIDE DEF t
  <1>3. Follows(s, t)
    BY <1>2 DEF Follows, PageOK, IsLetIn, RestsAlone, Waits, SameOwed
  <1>4. PageOK(t, n, h)
    BY <1>3, FollowsOK
  <1> QED BY <1>4 DEF t

\* #scheduleReconnect keeps what is right.
LEMMA ScheduleReconnectOK ==
  ASSUME NEW n, NEW h, NEW s, PageOK(s, n, h)
  PROVE  PageOK(E!ScheduleReconnect(s), n, h)
  <1> DEFINE g == [s.hub EXCEPT !.retry = TRUE]
  <1>1. s \in Pages /\ s.hub \in Hubs
    BY PageParts DEF PageOK
  <1>2. /\ g \in Hubs /\ g.connected = s.hub.connected /\ g.healthy = s.hub.healthy
        /\ g.baseline = s.hub.baseline /\ g.poll = s.hub.poll
    BY <1>1 DEF Hubs
  <1>3. DOMAIN s.heard # {} => E!ScheduleReconnect(s) \in {s, [s EXCEPT !.hub = g]}
    BY DEF E!ScheduleReconnect
  <1>4. DOMAIN s.heard = {} => E!ScheduleReconnect(s) = s
    BY DEF E!ScheduleReconnect, E!Subscribers
  <1> HIDE DEF g
  <1>5. DOMAIN s.heard # {} => PageOK([s EXCEPT !.hub = g], n, h)
    BY <1>2, TimersOK
  <1> QED BY <1>3, <1>4, <1>5

\* Another socket.
LEMMA NextSocket ==
  ASSUME NEW s \in Pages, NEW k \in Sockets
  PROVE  /\ [s EXCEPT !.socket = k] \in Pages /\ [s EXCEPT !.socket = k].socket = k
         /\ [s EXCEPT !.socket = k].hub = s.hub
         /\ [s EXCEPT !.socket = k].heard = s.heard /\ [s EXCEPT !.socket = k].owed = s.owed
BY DEF Pages

\* #connect keeps what is right.
LEMMA ConnectOK ==
  ASSUME NEW n, NEW h, NEW s, PageOK(s, n, h)
  PROVE  PageOK(E!Connect(s), n, h)
  <1> DEFINE k == [s.socket EXCEPT !.at = "dialing"]
             t == [s EXCEPT !.socket = k]
  <1>1. s \in Pages /\ s.socket \in Sockets
    BY PageParts DEF PageOK
  <1>2. k \in Sockets /\ k.at = "dialing" /\ k.in = s.socket.in /\ k.deaf = s.socket.deaf
    BY <1>1 DEF Sockets
  <1>3. \/ E!Connect(s) = s
        \/ E!Connect(s) = t /\ s.socket.at = "none" /\ DOMAIN s.heard # {}
    BY DEF E!Connect, E!Subscribers
  <1> HIDE DEF k
  <1>4. t \in Pages /\ t.socket = k /\ t.hub = s.hub /\ t.heard = s.heard /\ t.owed = s.owed
    BY <1>1, <1>2, NextSocket
  <1> HIDE DEF t
  <1>5. ASSUME s.socket.at = "none", DOMAIN s.heard # {} PROVE PageOK(t, n, h)
    <2>1. ~ Waits(t, E!Packet("connect"))
      BY <1>2, <1>4, <1>5 DEF PageOK, IsLetIn, Waits
    <2>2. Follows(s, t)
      BY <1>4, <1>5, <2>1 DEF Follows, RestsAlone, SameOwed, TellsOn, KnowsState
    <2> QED BY <2>2, FollowsOK
  <1> QED BY <1>3, <1>5

\* Everyone looks again.
LEMMA TellStaleOK ==
  ASSUME NEW n, NEW h, NEW s, PageOK(s, n, h)
  PROVE  PageOK(E!TellStale(s), n, h)
  <1> DEFINE t == E!TellStale(s)
  <1>1. s \in Pages
    BY DEF PageOK
  <1>2. /\ t \in Pages /\ t.socket = s.socket /\ t.hub = s.hub /\ t.heard = s.heard
        /\ NoneOwed(s, t)
    BY <1>1, TellStaleFields
  <1> HIDE DEF t
  <1>3. KnowsState(t) /\ IsLetIn(t) /\ RestsAlone(t)
    BY <1>2 DEF PageOK, KnowsState, IsLetIn, RestsAlone, Waits
  <1>4. PageOK(t, n, h)
    BY <1>2, <1>3, NoneOwedOK
  <1> QED BY <1>4 DEF t

\* What #tearDown makes of the hub and of its socket.
LEMMA TearDownFields ==
  ASSUME NEW s \in Pages
  PROVE  /\ E!TearDown(s) \in Pages /\ E!TearDown(s).socket = E!NoSocket
         /\ E!TearDown(s).hub = s.hub
         /\ E!TearDown(s).heard = s.heard /\ E!TearDown(s).owed = s.owed
         /\ ~ Waits(E!TearDown(s), E!Packet("connect"))
  <1>1. E!NoSocket \in Sockets /\ DOMAIN E!NoSocket.in = {}
    BY EmptySeq DEF E!NoSocket, Sockets
  <1>2. E!TearDown(s) = [s EXCEPT !.socket = E!NoSocket]
    BY DEF E!TearDown
  <1>3. E!TearDown(s) \in Pages /\ E!TearDown(s).socket = E!NoSocket
    BY <1>1, <1>2, NextSocket
  <1> QED BY <1>1, <1>2, <1>3, NextSocket DEF Waits

\* The socket goes, and with it the connection.
LEMMA DropOK ==
  ASSUME NEW n, NEW h, NEW s, PageOK(s, n, h)
  PROVE  /\ PageOK(E!SetDown(E!TearDown(s)), n, h)
         /\ PageOK(E!TearDown(E!SetDown(s)), n, h)
  <1> DEFINE a == E!TearDown(s)
             b == E!SetDown(a)
             c == E!SetDown(s)
             d == E!TearDown(c)
  <1>1. s \in Pages /\ s.hub \in Hubs
    BY PageParts DEF PageOK
  <1>2. /\ a \in Pages /\ a.socket = E!NoSocket /\ a.hub = s.hub /\ a.heard = s.heard
        /\ a.owed = s.owed /\ ~ Waits(a, E!Packet("connect"))
    BY <1>1, TearDownFields
  <1>3. CASE ~ s.hub.connected
    <2> HIDE DEF a
    <2>1. b = a /\ c = s
      BY <1>2, <1>3 DEF E!SetDown
    <2>2. d = a
      BY <2>1 DEF a
    <2>3. Follows(s, a)
      BY <1>2, <1>3 DEF Follows, SameOwed, TellsOn, KnowsState, PageOK, RestsAlone
    <2>4. PageOK(a, n, h)
      BY <2>3, FollowsOK
    <2> QED BY <2>1, <2>2, <2>4
  <1>4. CASE s.hub.connected
    <2>1. PageOK(b, n, h)
      <3> HIDE DEF a
      <3>1. /\ b \in Pages /\ b.socket = a.socket
            /\ ~ b.hub.connected /\ b.hub.baseline = None
            /\ b.hub.retry = a.hub.retry /\ b.hub.watchdog = a.hub.watchdog
            /\ b.hub.ticking = (DOMAIN a.heard # {})
            /\ b.hub.poll \in {a.hub.poll, Asked(a.hub.poll)}
            /\ NoneOwed(a, b) /\ KnowsState(b)
        BY <1>2, <1>4, SetDownFields
      <3> HIDE DEF b
      <3>2. NoneOwed(s, b)
        BY <1>2, <3>1 DEF NoneOwed
      <3>3. IsLetIn(b)
        BY <1>2, <3>1 DEF IsLetIn, Waits
      <3>4. RestsAlone(b)
        BY <1>2, <3>1 DEF RestsAlone, PageOK, NoneOwed
      <3> QED BY <1>2, <3>1, <3>2, <3>3, <3>4, NoneOwedOK
    <2>2. PageOK(d, n, h)
      <3>1. /\ c \in Pages /\ c.socket = s.socket
            /\ ~ c.hub.connected /\ c.hub.baseline = None
            /\ c.hub.retry = s.hub.retry /\ c.hub.watchdog = s.hub.watchdog
            /\ c.hub.ticking = (DOMAIN s.heard # {})
            /\ c.hub.poll \in {s.hub.poll, Asked(s.hub.poll)}
            /\ NoneOwed(s, c) /\ KnowsState(c)
        BY <1>1, <1>4, SetDownFields
      <3> HIDE DEF c
      <3>2. /\ d \in Pages /\ d.socket = E!NoSocket /\ d.hub = c.hub /\ d.heard = c.heard
            /\ d.owed = c.owed /\ ~ Waits(d, E!Packet("connect"))
        BY <3>1, TearDownFields
      <3> HIDE DEF d
      <3>3. NoneOwed(s, d) /\ KnowsState(d)
        BY <3>1, <3>2 DEF NoneOwed, KnowsState
      <3>4. IsLetIn(d)
        BY <3>1, <3>2 DEF IsLetIn
      <3>5. RestsAlone(d)
        BY <3>1, <3>2 DEF RestsAlone, PageOK, NoneOwed
      <3> QED BY <3>1, <3>2, <3>3, <3>4, <3>5, NoneOwedOK
    <2> QED BY <2>1, <2>2
  <1> QED BY <1>3, <1>4

-----------------------------------------------------------------------------
(* The steps of the page *)

\* The state after Become(s) is s.
LEMMA BecomesNow ==
  ASSUME NEW s \in Pages, E!Becomes(s)
  PROVE  E!Now' = s
BY DEF E!Becomes, E!Now, Pages

\* A frame that is taken leaves the others.
LEMMA Arrives ==
  ASSUME NEW s, E!Becomes(s), world' \in Nat, PageOK(s, world', hole')
  PROVE  PageInv'
  <1>1. E!Now' = s
    BY BecomesNow DEF PageOK
  <1> QED BY <1>1 DEF PageInv

\* The page that has a frame less.
LEMMA RestFields ==
  ASSUME PageInv, NEW f, E!Frame(f)
  PROVE  /\ E!Rest \in Pages
         /\ E!Rest.hub = hub /\ E!Rest.heard = heard /\ E!Rest.owed = owed
         /\ E!Rest.socket.at = socket.at /\ E!Rest.socket.deaf = socket.deaf
         /\ \A x : Waits(E!Rest, x) => Waits(E!Now, x)
         /\ \A x : Waits(E!Now, x) /\ x # f => Waits(E!Rest, x)
         /\ Waits(E!Now, f)
  <1> DEFINE k == [socket EXCEPT !.in = Tail(@)]
  <1>1. E!Now \in Pages /\ socket \in Sockets
    BY PageParts DEF PageInv, PageOK, E!Now
  <1>2. /\ socket.in \in Seq(Packets) /\ socket.in # <<>> /\ Head(socket.in) = f
    BY <1>1 DEF E!Frame, Sockets
  <1>3. /\ Tail(socket.in) \in Seq(Packets) /\ Len(socket.in) \in Nat \ {0}
        /\ Len(Tail(socket.in)) = Len(socket.in) - 1 /\ f = socket.in[1]
        /\ \A i \in 1..Len(Tail(socket.in)) : Tail(socket.in)[i] = socket.in[i + 1]
    BY <1>2, HeadTailProperties, EmptySeq
  <1>4. k \in Sockets /\ k.in = Tail(socket.in) /\ k.at = socket.at /\ k.deaf = socket.deaf
    BY <1>1, <1>3 DEF Sockets
  <1>5. E!Rest = [E!Now EXCEPT !.socket = k]
    BY DEF E!Rest, E!Now
  <1> HIDE DEF k
  <1>6. /\ E!Rest \in Pages /\ E!Rest.socket = k
        /\ E!Rest.hub = hub /\ E!Rest.heard = heard /\ E!Rest.owed = owed
    BY <1>1, <1>4, <1>5, NextSocket DEF E!Now
  <1>7. DOMAIN socket.in = 1..Len(socket.in) /\ DOMAIN k.in = 1..(Len(socket.in) - 1)
    BY <1>2, <1>3, <1>4, LenProperties
  <1>8. ASSUME NEW x, Waits(E!Rest, x) PROVE Waits(E!Now, x)
    <2>1. PICK i \in 1..(Len(socket.in) - 1) : k.in[i] = x
      BY <1>6, <1>7, <1>8 DEF Waits
    <2>2. i + 1 \in 1..Len(socket.in) /\ socket.in[i + 1] = x
      BY <1>3, <1>4, <2>1
    <2> QED BY <1>7, <2>2 DEF Waits, E!Now
  <1>9. ASSUME NEW x, Waits(E!Now, x), x # f PROVE Waits(E!Rest, x)
    <2>1. PICK i \in 1..Len(socket.in) : socket.in[i] = x
      BY <1>7, <1>9 DEF Waits, E!Now
    <2>2. i # 1
      BY <1>3, <1>9, <2>1
    <2>3. i - 1 \in 1..(Len(socket.in) - 1) /\ (i - 1) + 1 = i
      BY <1>3, <2>2
    <2>4. k.in[i - 1] = x
      BY <1>3, <1>4, <2>1, <2>3
    <2> QED BY <1>6, <1>7, <2>3, <2>4 DEF Waits
  <1>10. Waits(E!Now, f)
    BY <1>3, <1>7 DEF Waits, E!Now
  <1> QED BY <1>4, <1>6, <1>8, <1>9, <1>10

\* A frame that is no event takes nothing with it.
LEMMA RestOK ==
  ASSUME PageInv, NEW f, E!Frame(f), \A k \in Nat : f # <<"event", k>>
  PROVE  PageOK(E!Rest, world, hole)
  <1>1. PageOK(E!Now, world, hole)
    BY DEF PageInv
  <1>2. /\ E!Now.hub = hub /\ E!Now.heard = heard /\ E!Now.owed = owed /\ E!Now.socket = socket
    BY DEF E!Now
  <1>3. SameOwed(E!Now, E!Rest) /\ TellsOn(E!Now, E!Rest)
    BY <1>2, RestFields DEF SameOwed, TellsOn, KnowsState
  <1>4. Waits(E!Rest, E!Packet("connect")) => E!Rest.socket.at = "joined"
    BY <1>1, <1>2, RestFields DEF PageOK, IsLetIn
  <1>5. ~ (DOMAIN heard = {})
    <2>1. E!NoSocket.in = <<>>
      BY DEF E!NoSocket
    <2> QED BY <1>1, <1>2, <2>1 DEF PageOK, RestsAlone, E!Frame
  <1>6. RestsAlone(E!Rest)
    BY <1>5, RestFields DEF RestsAlone
  <1>7. Follows(E!Now, E!Rest)
    BY <1>2, <1>3, <1>4, <1>6, RestFields DEF Follows
  <1> QED BY <1>1, <1>7, FollowsOK

\* The hub itself, under a poll, a timer or another token.
LEMMA NowOK ==
  ASSUME PageInv
  PROVE  /\ world \in Nat /\ PageOK(E!Now, world, hole)
         /\ E!Now \in Pages /\ hub \in Hubs /\ socket \in Sockets
         /\ E!Now.hub = hub /\ E!Now.heard = heard /\ E!Now.owed = owed /\ E!Now.socket = socket
BY PageParts DEF PageInv, PageOK, E!Now

\* The watchdog and the timers touch no message.
LEMMA TimersNow ==
  ASSUME PageInv, NEW g \in Hubs,
         g.connected = hub.connected, g.healthy = hub.healthy,
         g.baseline = hub.baseline, g.poll = hub.poll,
         DOMAIN heard = {} => ~ g.retry /\ ~ g.watchdog /\ ~ g.ticking
  PROVE  PageOK([E!Now EXCEPT !.hub = g], world, hole)
BY NowOK, TimersOK

\* The ticks of the poll.
LEMMA PagePolls ==
  ASSUME PageInv, E!EnsureFresh \/ E!PollTick
  PROVE  PageInv'
BY NowOK, PollOK, Arrives DEF E!EnsureFresh, E!PollTick

\* A change of the token.
LEMMA PageSetToken ==
  ASSUME PageInv, NEW user \in BOOLEAN, E!SetToken(user)
  PROVE  PageInv'
  <1> DEFINE g == [hub EXCEPT !.user = user]
             s == [E!Now EXCEPT !.hub = g]
             f == [g EXCEPT !.dead = FALSE]
             t == [s EXCEPT !.hub = f]
  <1>1. /\ g \in Hubs /\ g.connected = hub.connected /\ g.healthy = hub.healthy
        /\ g.baseline = hub.baseline /\ g.poll = hub.poll /\ g.retry = hub.retry
        /\ g.watchdog = hub.watchdog /\ g.ticking = hub.ticking
    BY NowOK DEF Hubs
  <1>2. DOMAIN heard = {} => ~ hub.retry /\ ~ hub.watchdog /\ ~ hub.ticking
    BY NowOK DEF PageOK, RestsAlone
  <1>3. world' = world /\ hole' = hole /\ E!Becomes(IF hub.dead THEN E!Connect(t) ELSE s)
    <2>1. /\ E!Now.hub = hub /\ s.hub = g
      BY NowOK, <1>1, NextHub
    <2> QED BY <2>1 DEF E!SetToken
  <1> HIDE DEF g
  <1>4. PageOK(s, world, hole) /\ s.hub = g /\ s.heard = heard
    BY <1>1, <1>2, NowOK, TimersNow, NextHub
  <1> HIDE DEF s
  <1>5. /\ f \in Hubs /\ f.connected = g.connected /\ f.healthy = g.healthy
        /\ f.baseline = g.baseline /\ f.poll = g.poll /\ f.retry = g.retry
        /\ f.watchdog = g.watchdog /\ f.ticking = g.ticking
    BY <1>1 DEF Hubs
  <1> HIDE DEF f
  <1>6. PageOK(t, world, hole)
    BY <1>1, <1>2, <1>4, <1>5, TimersOK
  <1> HIDE DEF t
  <1> QED BY <1>3, <1>4, <1>6, ConnectOK, NowOK, Arrives

\* A reconnection.
LEMMA PageReconnect ==
  ASSUME PageInv, E!Reconnect
  PROVE  PageInv'
  <1> DEFINE g == [hub EXCEPT !.retry = FALSE]
             s == [E!Now EXCEPT !.hub = g]
  <1>1. /\ g \in Hubs /\ g.connected = hub.connected /\ g.healthy = hub.healthy
        /\ g.baseline = hub.baseline /\ g.poll = hub.poll /\ ~ g.retry
        /\ g.watchdog = hub.watchdog /\ g.ticking = hub.ticking
    BY NowOK DEF Hubs
  <1>2. DOMAIN heard = {} => ~ hub.retry /\ ~ hub.watchdog /\ ~ hub.ticking
    BY NowOK DEF PageOK, RestsAlone
  <1>3. /\ world' = world /\ hole' = hole
        /\ E!Becomes(E!Connect(s)) \/ E!Becomes(E!ScheduleReconnect(s))
    BY NowOK DEF E!Reconnect
  <1> HIDE DEF g
  <1>4. PageOK(s, world, hole)
    BY <1>1, <1>2, NowOK, TimersNow
  <1> HIDE DEF s
  <1> QED BY <1>3, <1>4, ConnectOK, ScheduleReconnectOK, NowOK, Arrives

\* The ways to lose the socket.
LEMMA PageDrops ==
  ASSUME PageInv, E!OnClose \/ E!WatchdogFires \/ E!OnDisconnect
  PROVE  PageInv'
  <1>1. CASE E!OnClose
    BY <1>1, NowOK, DropOK, ScheduleReconnectOK, Arrives DEF E!OnClose
  <1>2. CASE E!OnDisconnect
    <2>1. PageOK(E!Rest, world, hole)
      BY <1>2, RestOK DEF E!OnDisconnect, E!Packet
    <2> QED BY <1>2, <2>1, NowOK, DropOK, ScheduleReconnectOK, Arrives DEF E!OnDisconnect
  <1>3. CASE E!WatchdogFires
    <2> DEFINE g == [hub EXCEPT !.watchdog = FALSE]
               s == [E!Now EXCEPT !.hub = g]
    <2>1. /\ g \in Hubs /\ g.connected = hub.connected /\ g.healthy = hub.healthy
          /\ g.baseline = hub.baseline /\ g.poll = hub.poll /\ g.retry = hub.retry
          /\ ~ g.watchdog /\ g.ticking = hub.ticking
      BY NowOK DEF Hubs
    <2>2. DOMAIN heard = {} => ~ hub.retry /\ ~ hub.watchdog /\ ~ hub.ticking
      BY NowOK DEF PageOK, RestsAlone
    <2>3. /\ world' = world /\ hole' = hole
          /\ E!Becomes(E!ScheduleReconnect(E!SetDown(E!TearDown(s))))
      BY <1>3, NowOK DEF E!WatchdogFires
    <2> HIDE DEF g
    <2>4. PageOK(s, world, hole)
      BY <2>1, <2>2, NowOK, TimersNow
    <2> HIDE DEF s
    <2> QED BY <2>3, <2>4, DropOK, ScheduleReconnectOK, NowOK, Arrives
  <1> QED BY <1>1, <1>2, <1>3

\* A socket that was refused.
LEMMA PageConnectError ==
  ASSUME PageInv, E!OnConnectError
  PROVE  PageInv'
  <1> DEFINE s == E!Rest
             g == [hub EXCEPT !.dead = TRUE]
             t == [s EXCEPT !.hub = g]
             f == [g EXCEPT !.retry = FALSE, !.watchdog = FALSE, !.ticking = FALSE]
             u == [t EXCEPT !.hub = f]
  <1>1. PageOK(s, world, hole) /\ s.hub = hub /\ s \in Pages /\ s.heard = heard
    BY RestOK, RestFields DEF E!OnConnectError, E!Packet
  <1>2. /\ g \in Hubs /\ g.connected = hub.connected /\ g.healthy = hub.healthy
        /\ g.baseline = hub.baseline /\ g.poll = hub.poll /\ g.retry = hub.retry
        /\ g.watchdog = hub.watchdog /\ g.ticking = hub.ticking
    BY NowOK DEF Hubs
  <1>3. DOMAIN heard = {} => ~ hub.retry /\ ~ hub.watchdog /\ ~ hub.ticking
    BY NowOK DEF PageOK, RestsAlone
  <1>4. /\ world' = world /\ hole' = hole
        /\ E!Becomes(E!TellStale(E!SyncPolling(E!SetDown(E!TearDown(E!ClearTimers(t))))))
    BY <1>1 DEF E!OnConnectError
  <1> HIDE DEF s, g
  <1>5. PageOK(t, world, hole) /\ t.hub = g /\ t.heard = heard
    BY <1>1, <1>2, <1>3, TimersOK, NextHub
  <1> HIDE DEF t
  <1>6. E!ClearTimers(t) = u
    BY <1>5 DEF E!ClearTimers
  <1>7. /\ f \in Hubs /\ f.connected = g.connected /\ f.healthy = g.healthy
        /\ f.baseline = g.baseline /\ f.poll = g.poll
        /\ ~ f.retry /\ ~ f.watchdog /\ ~ f.ticking
    BY <1>2 DEF Hubs
  <1> HIDE DEF f
  <1>8. PageOK(u, world, hole)
    BY <1>5, <1>7, TimersOK
  <1> HIDE DEF u
  <1>9. PageOK(E!TellStale(E!SyncPolling(E!SetDown(E!TearDown(u)))), world, hole)
    BY <1>8, DropOK, SyncPollingOK, TellStaleOK
  <1> QED BY <1>4, <1>6, <1>9, NowOK, Arrives

\* The server and the network, and a handshake that cannot be read.
LEMMA PageNetwork ==
  ASSUME PageInv,
         \/ E!Greet \/ E!BadGreeting \/ E!Accept \/ E!Reject \/ E!Disconnect \/ E!GoDeaf
  PROVE  PageInv'
  <1>1. CASE E!BadGreeting
    <2> DEFINE a == E!TearDown(E!Now)
    <2>1. /\ a \in Pages /\ a.socket = E!NoSocket /\ a.hub = hub /\ a.heard = heard
          /\ a.owed = owed /\ ~ Waits(a, E!Packet("connect"))
      BY NowOK, TearDownFields
    <2> HIDE DEF a
    <2>2. Follows(E!Now, a)
      BY <1>1, <2>1, NowOK DEF E!BadGreeting, Follows, SameOwed, TellsOn, KnowsState, PageOK, RestsAlone
    <2> QED BY <1>1, <2>2, NowOK, FollowsOK, ScheduleReconnectOK, Arrives DEF E!BadGreeting, a
  <1> SUFFICES ASSUME E!Greet \/ E!Accept \/ E!Reject \/ E!Disconnect \/ E!GoDeaf PROVE PageInv'
    BY <1>1
  <1> DEFINE t == E!Now'
  <1>2. /\ t.socket = socket' /\ t.hub = hub' /\ t.heard = heard /\ t.owed = owed
        /\ world' = world /\ hole' = hole
    BY DEF E!Now, E!Greet, E!Accept, E!Reject, E!Disconnect, E!GoDeaf
  <1>3. /\ hub' \in Hubs /\ hub'.connected = hub.connected /\ hub'.healthy = hub.healthy
        /\ hub'.baseline = hub.baseline /\ hub'.poll = hub.poll
    BY NowOK DEF E!Greet, E!Accept, E!Reject, E!Disconnect, E!GoDeaf, Hubs
  <1>4. /\ socket' \in Sockets
        /\ Waits(t, E!Packet("connect")) => socket'.at = "joined"
        /\ socket.at = "joined" =>
             /\ socket'.at = "joined"
             /\ socket.deaf => socket'.deaf
             /\ \A k \in Nat : Waits(E!Now, <<"event", k>>) => socket'.deaf \/ Waits(t, <<"event", k>>)
    <2>1. CASE E!Greet
      <3>1. /\ socket' \in Sockets /\ socket'.in = socket.in /\ socket.at = "dialing"
            /\ socket'.at = "greeted"
        BY <2>1, NowOK DEF E!Greet, Sockets
      <3>2. ~ Waits(t, E!Packet("connect"))
        BY <3>1, <1>2, NowOK DEF Waits, PageOK, IsLetIn
      <3> QED BY <3>1, <3>2
    <2>2. CASE E!Accept
      <3>1. <<E!Packet("connect")>> \in Seq(Packets)
        BY DEF E!Packet, Packets
      <3> QED BY <2>2, <3>1, NowOK DEF E!Accept, Sockets
    <2>3. CASE E!Reject
      <3>1. /\ <<E!Packet("error")>> \in Seq(Packets) /\ E!Packet("error") # E!Packet("connect")
            /\ \A x : x \in {<<E!Packet("error")>>[i] : i \in DOMAIN <<E!Packet("error")>>} => x = E!Packet("error")
        BY DEF E!Packet, Packets
      <3>2. /\ socket' \in Sockets /\ socket'.in = <<E!Packet("error")>> /\ socket.at = "greeted"
        BY <2>3, <3>1, NowOK DEF E!Reject, Sockets
      <3>3. ~ Waits(t, E!Packet("connect"))
        BY <3>1, <3>2, <1>2 DEF Waits
      <3> QED BY <3>2, <3>3
    <2>4. CASE E!Disconnect
      <3> DEFINE p == E!Packet("disconnect")
                 more == Append(socket.in, p)
      <3>1. socket.in \in Seq(Packets) /\ p \in Packets /\ p # E!Packet("connect")
        BY NowOK DEF E!Packet, Packets, Sockets
      <3> HIDE DEF p
      <3>2. /\ more \in Seq(Packets) /\ DOMAIN socket.in = 1..Len(socket.in)
            /\ DOMAIN more = 1..(Len(socket.in) + 1) /\ Len(socket.in) \in Nat
            /\ \A i \in 1..Len(socket.in) : more[i] = socket.in[i]
            /\ more[Len(socket.in) + 1] = p
        BY <3>1, AppendProperties, LenProperties
      <3> HIDE DEF more
      <3>3. socket' = [socket EXCEPT !.in = more] /\ socket.at = "joined"
        BY <2>4 DEF E!Disconnect, E!Joined, more, p
      <3>4. /\ socket' \in Sockets /\ socket'.in = more /\ socket'.at = "joined"
            /\ socket'.deaf = socket.deaf
        BY <3>2, <3>3, NowOK DEF Sockets
      <3>5. ASSUME NEW x, Waits(E!Now, x) PROVE Waits(t, x)
        <4>1. PICK i \in DOMAIN socket.in : socket.in[i] = x
          BY <3>5, NowOK DEF Waits
        <4>2. i \in DOMAIN more /\ more[i] = x
          BY <3>2, <4>1
        <4> QED BY <3>4, <4>2, <1>2 DEF Waits
      <3> QED BY <3>3, <3>4, <3>5
    <2>5. CASE E!GoDeaf
      <3>1. <<>> \in Seq(Packets)
        BY EmptySeq
      <3> QED BY <2>5, <3>1, NowOK DEF E!GoDeaf, E!Joined, Sockets
    <2> QED BY <2>1, <2>2, <2>3, <2>4, <2>5
  <1>5. DOMAIN heard # {}
    BY NowOK DEF PageOK, RestsAlone, E!NoSocket, E!Greet, E!Accept, E!Reject, E!Disconnect,
                 E!GoDeaf, E!Joined
  <1>6. t \in Pages
    <2>1. /\ heard \in UNION {Told(C) : C \in SUBSET Consumers}
          /\ owed \in UNION {Owed(C) : C \in SUBSET Consumers}
      BY NowOK DEF Pages
    <2> QED BY <1>2, <1>3, <1>4, <2>1 DEF Pages, E!Now
  <1>7. SameOwed(E!Now, t) /\ TellsOn(E!Now, t) /\ RestsAlone(t)
    BY <1>2, <1>3, <1>5, NowOK, SameState DEF SameOwed, TellsOn, KnowsState, RestsAlone
  <1> HIDE DEF t
  <1>8. Follows(E!Now, t)
    BY <1>2, <1>3, <1>4, <1>6, <1>7, NowOK DEF Follows
  <1>9. PageOK(t, world, hole)
    BY <1>8, NowOK, FollowsOK
  <1> QED BY <1>2, <1>9, NowOK DEF PageInv, t

\* An event frame joins the others where the server lets it through.
LEMMA ReceivesFields ==
  ASSUME PageInv, NEW k \in Nat, NEW z, z = E!Receives(<<"event", k>>)
  PROVE  /\ z \in Sockets /\ z.at = socket.at /\ z.deaf = socket.deaf
         /\ \A x : Waits(E!Now, x) => \E i \in DOMAIN z.in : z.in[i] = x
         /\ ~ Waits(E!Now, E!Packet("connect")) =>
              \A i \in DOMAIN z.in : z.in[i] # E!Packet("connect")
         /\ socket.at = "joined" =>
              z.deaf \/ \E i \in DOMAIN z.in : z.in[i] = <<"event", k>>
         /\ socket = E!NoSocket => z = E!NoSocket
  <1> DEFINE f == <<"event", k>>
             more == Append(socket.in, f)
  <1>1. /\ socket \in Sockets /\ socket.in \in Seq(Packets) /\ f \in Packets
        /\ f # E!Packet("connect") /\ E!Now.socket = socket
    BY NowOK DEF Sockets, Packets, E!Packet
  <1>2. z = IF socket.at = "joined" /\ ~ socket.deaf THEN [socket EXCEPT !.in = more] ELSE socket
    BY DEF E!Receives, E!Joined
  <1> HIDE DEF f
  <1>3. /\ more \in Seq(Packets) /\ DOMAIN socket.in = 1..Len(socket.in)
        /\ DOMAIN more = 1..(Len(socket.in) + 1) /\ Len(socket.in) \in Nat
        /\ \A i \in 1..Len(socket.in) : more[i] = socket.in[i]
        /\ more[Len(socket.in) + 1] = f
    BY <1>1, AppendProperties, LenProperties
  <1> HIDE DEF more
  <1>4. CASE socket.at = "joined" /\ ~ socket.deaf
    <2>1. z \in Sockets /\ z.at = socket.at /\ z.deaf = socket.deaf /\ z.in = more
      BY <1>1, <1>2, <1>3, <1>4 DEF Sockets
    <2>2. ASSUME NEW x, Waits(E!Now, x) PROVE \E i \in DOMAIN z.in : z.in[i] = x
      <3>1. PICK i \in DOMAIN socket.in : socket.in[i] = x
        BY <1>1, <2>2 DEF Waits
      <3>2. i \in DOMAIN more /\ more[i] = x
        BY <1>3, <3>1
      <3> QED BY <2>1, <3>2
    <2>3. ASSUME ~ Waits(E!Now, E!Packet("connect")), NEW i \in DOMAIN z.in
          PROVE  z.in[i] # E!Packet("connect")
      <3>1. CASE i = Len(socket.in) + 1
        BY <1>1, <1>3, <2>1, <3>1
      <3>2. CASE i # Len(socket.in) + 1
        <4>1. i \in DOMAIN socket.in /\ z.in[i] = socket.in[i]
          BY <1>3, <2>1, <3>2
        <4> QED BY <1>1, <2>3, <4>1 DEF Waits
      <3> QED BY <3>1, <3>2
    <2>4. Len(socket.in) + 1 \in DOMAIN z.in /\ z.in[Len(socket.in) + 1] = f
      BY <1>3, <2>1
    <2>5. socket # E!NoSocket
      BY <1>4 DEF E!NoSocket
    <2> QED BY <2>1, <2>2, <2>3, <2>4, <2>5 DEF f
  <1>5. CASE ~ (socket.at = "joined" /\ ~ socket.deaf)
    <2>1. z = socket
      BY <1>2, <1>5
    <2> QED BY <1>1, <1>5, <2>1 DEF Waits
  <1> QED BY <1>4, <1>5

\* A change of the page itself is echoed to it.
LEMMA PageInject ==
  ASSUME PageInv, E!Inject
  PROVE  PageInv'
  <1> DEFINE t == E!Now'
  <1>1. world + 1 \in Nat /\ world <= world + 1
    BY NowOK
  <1>2. /\ t.socket = socket' /\ t.hub = hub /\ t.heard = heard /\ t.owed = owed
        /\ world' = world + 1 /\ hole' = hole /\ socket' = E!Receives(<<"event", world + 1>>)
    BY DEF E!Now, E!Inject
  <1>3. /\ socket' \in Sockets /\ socket'.at = socket.at /\ socket'.deaf = socket.deaf
        /\ \A x : Waits(E!Now, x) => \E i \in DOMAIN socket'.in : socket'.in[i] = x
        /\ ~ Waits(E!Now, E!Packet("connect")) =>
              \A i \in DOMAIN socket'.in : socket'.in[i] # E!Packet("connect")
        /\ socket = E!NoSocket => socket' = E!NoSocket
    BY <1>1, <1>2, ReceivesFields
  <1>4. t \in Pages
    <2>1. /\ heard \in UNION {Told(C) : C \in SUBSET Consumers}
          /\ owed \in UNION {Owed(C) : C \in SUBSET Consumers}
      BY NowOK DEF Pages
    <2> QED BY <1>2, <1>3, <2>1, NowOK DEF Pages, E!Now, E!Inject
  <1> HIDE DEF t
  <1>5. Waits(t, E!Packet("connect")) => socket'.at = "joined"
    BY <1>2, <1>3, NowOK DEF Waits, PageOK, IsLetIn
  <1>6. SameOwed(E!Now, t) /\ TellsOn(E!Now, t) /\ RestsAlone(t)
    BY <1>2, <1>3, NowOK DEF SameOwed, TellsOn, KnowsState, RestsAlone, PageOK
  <1>7. \A k \in Nat : Waits(E!Now, <<"event", k>>) => Waits(t, <<"event", k>>)
    BY <1>2, <1>3 DEF Waits
  <1>8. Follows(E!Now, t)
    BY <1>2, <1>3, <1>4, <1>5, <1>6, <1>7, NowOK DEF Follows
  <1>9. PageOK(t, world, hole)
    BY <1>8, NowOK, FollowsOK
  <1>10. PageOK(t, world + 1, hole)
    BY <1>1, <1>9, NowOK, GrowsOK
  <1> QED BY <1>1, <1>2, <1>10 DEF PageInv, t

\* A change of somebody else is owed to every subscriber.
LEMMA PageChange ==
  ASSUME PageInv, E!Change
  PROVE  PageInv'
  <1> DEFINE t == E!Now'
             m == world + 1
  <1>1. m \in Nat /\ world <= m /\ m > world /\ world \in Nat
    BY NowOK
  <1>2. /\ t.socket = socket' /\ t.hub = hub /\ t.heard = heard /\ t.owed = owed'
        /\ world' = m /\ socket' = E!Receives(<<"event", m>>)
        /\ owed' = [c \in DOMAIN owed |-> owed[c] \cup {m}]
        /\ hole' = IF hub.baseline = None /\ hub.poll \notin Nat /\ ~ hub.connected
                   THEN hole \cup {m} ELSE hole
        /\ hub' = hub /\ heard' = heard
    BY DEF E!Now, E!Change
  <1> HIDE DEF m
  <1>3. /\ socket' \in Sockets /\ socket'.at = socket.at /\ socket'.deaf = socket.deaf
        /\ \A x : Waits(E!Now, x) => \E i \in DOMAIN socket'.in : socket'.in[i] = x
        /\ ~ Waits(E!Now, E!Packet("connect")) =>
              \A i \in DOMAIN socket'.in : socket'.in[i] # E!Packet("connect")
        /\ socket.at = "joined" =>
              socket'.deaf \/ \E i \in DOMAIN socket'.in : socket'.in[i] = <<"event", m>>
        /\ socket = E!NoSocket => socket' = E!NoSocket
    BY <1>1, <1>2, ReceivesFields
  <1>4. /\ owed \in Owed(DOMAIN owed) /\ DOMAIN owed \in SUBSET Consumers
        /\ heard \in UNION {Told(C) : C \in SUBSET Consumers}
        /\ DOMAIN owed = DOMAIN heard
    BY NowOK, PageParts DEF Pages, PageOK
  <1>5. owed' \in Owed(DOMAIN owed) /\ DOMAIN owed' = DOMAIN owed
    BY <1>1, <1>2, <1>4 DEF Owed
  <1>6. t \in Pages
    <2>1. owed' \in UNION {Owed(C) : C \in SUBSET Consumers}
      BY <1>4, <1>5
    <2> QED BY <1>2, <1>3, <1>4, <2>1, NowOK DEF Pages, E!Now
  <1> HIDE DEF t
  <1>7. IsLetIn(t)
    BY <1>2, <1>3, NowOK DEF Waits, PageOK, IsLetIn
  <1>8. KnowsState(t) /\ RestsAlone(t)
    BY <1>2, <1>3, NowOK DEF KnowsState, RestsAlone, PageOK
  <1>9. Behind(t, m)
    <2>1. hub.poll \in Nat => hub.poll <= m
      BY <1>1, NowOK DEF PageOK, Behind
    <2>2. hub.baseline \in Nat => hub.baseline <= m
      BY <1>1, NowOK DEF PageOK, Behind
    <2>3. ASSUME NEW c \in DOMAIN owed', NEW k \in owed'[c] PROVE k <= m
      <3>1. CASE k \in owed[c]
        <4>1. k \in Nat /\ k <= world
          BY <1>4, <1>5, <3>1, NowOK DEF Owed, PageOK, Behind
        <4> QED BY <1>1, <4>1
      <3>2. CASE k = m
        BY <1>1, <3>2
      <3> QED BY <1>2, <1>5, <2>3, <3>1, <3>2
    <2> QED BY <1>2, <2>1, <2>2, <2>3 DEF Behind
  <1>10. ASSUME NEW c \in DOMAIN owed', NEW k \in owed'[c] \ hole' PROVE ToCome(t, k)
    <2>1. hub.connected => socket.at = "joined"
      BY <1>5, <1>10, <1>4, NowOK DEF PageOK, IsLetIn
    <2>2. CASE k \in owed[c] /\ k \notin hole
      <3>1. ToCome(E!Now, k)
        BY <2>2, <1>5, NowOK DEF PageOK, OwedToCome
      <3> QED BY <3>1, <1>2, <1>3, NowOK DEF ToCome, Waits
    <2>3. CASE k = m /\ hub.connected
      BY <2>1, <2>3, <1>2, <1>3 DEF ToCome, Waits
    <2>4. CASE k = m /\ ~ hub.connected
      <3>1. hub.baseline # None \/ hub.poll \in Nat
        BY <2>4, <1>2, <1>10
      <3>2. hub.baseline # None => hub.baseline \in Nat /\ hub.baseline < m
        BY <1>1, NowOK DEF PageOK, Behind, Hubs
      <3>3. hub.poll \in Nat => hub.poll < m
        BY <1>1, NowOK DEF PageOK, Behind
      <3> QED BY <2>4, <3>1, <3>2, <3>3, <1>1, <1>2 DEF ToCome
    <2> QED BY <2>2, <2>3, <2>4, <1>2, <1>5, <1>10
  <1>11. OwedToCome(t, hole')
    BY <1>2, <1>10 DEF OwedToCome
  <1>12. PageOK(t, m, hole')
    BY <1>2, <1>4, <1>5, <1>6, <1>7, <1>8, <1>9, <1>11 DEF PageOK
  <1> QED BY <1>1, <1>2, <1>12 DEF PageInv, t

\* The server reads its counter for a poll.
LEMMA PagePollRead ==
  ASSUME PageInv, E!PollRead
  PROVE  PageInv'
  <1> DEFINE t == E!Now'
             g == [hub EXCEPT !.poll = world]
  <1>1. /\ t = [E!Now EXCEPT !.hub = g] /\ world' = world /\ hole' = hole /\ hub.poll = Sent
    BY NowOK DEF E!PollRead, E!Now
  <1>2. /\ g \in Hubs /\ g.connected = hub.connected /\ g.healthy = hub.healthy
        /\ g.baseline = hub.baseline /\ g.poll = world /\ g.retry = hub.retry
        /\ g.watchdog = hub.watchdog /\ g.ticking = hub.ticking
    BY NowOK DEF Hubs
  <1> HIDE DEF t, g
  <1>3. /\ t \in Pages /\ t.hub = g /\ t.socket = socket /\ t.heard = heard /\ t.owed = owed
        /\ TellsOn(E!Now, t)
    BY <1>1, <1>2, NowOK, NextHub
  <1>4. KnowsState(t) /\ IsLetIn(t) /\ RestsAlone(t) /\ DOMAIN t.owed = DOMAIN t.heard
    BY <1>2, <1>3, NowOK DEF PageOK, TellsOn, IsLetIn, RestsAlone, Waits
  <1>5. Behind(t, world)
    BY <1>2, <1>3, NowOK DEF PageOK, Behind
  <1>6. ASSUME NEW c \in DOMAIN owed, NEW k \in owed[c] \ hole PROVE ToCome(t, k)
    <2>1. k <= world /\ ToCome(E!Now, k) /\ world \in Nat /\ k \in Nat
      <3>1. owed \in Owed(DOMAIN owed)
        BY NowOK, PageParts
      <3> QED BY <3>1, NowOK DEF PageOK, Behind, OwedToCome, Owed
    <2>2. CASE hub.connected
      BY <1>1, <1>2, <1>3, <2>1, <2>2, NowOK, FeedAssumption DEF ToCome, Waits
    <2>3. CASE ~ hub.connected
      BY <1>1, <1>2, <1>3, <2>1, <2>3, NowOK, FeedAssumption DEF ToCome
    <2> QED BY <2>2, <2>3
  <1>7. PageOK(t, world, hole)
    BY <1>3, <1>4, <1>5, <1>6 DEF PageOK, OwedToCome
  <1> QED BY <1>1, <1>7, NowOK DEF PageInv, t

\* An answer is the baseline of the next; one that differs from it tells everyone.
LEMMA PagePollArrives ==
  ASSUME PageInv, E!PollArrives
  PROVE  PageInv'
  <1> DEFINE g == [hub EXCEPT !.poll = None, !.baseline = hub.poll]
             r == [E!Now EXCEPT !.hub = g]
             s == E!SetHealthy(r, TRUE)
             told == hub.baseline # None /\ hub.poll # hub.baseline
  <1>1. /\ E!Becomes(IF told THEN E!TellStale(s) ELSE s)
        /\ world' = world /\ hole' = hole /\ hub.poll \in Nat
    BY NowOK DEF E!PollArrives
  <1>2. /\ g \in Hubs /\ g.connected = hub.connected /\ g.healthy = hub.healthy
        /\ g.baseline = hub.poll /\ g.poll = None /\ g.retry = hub.retry
        /\ g.watchdog = hub.watchdog /\ g.ticking = hub.ticking
    BY <1>1, NowOK DEF Hubs
  <1> HIDE DEF g
  <1>3. /\ r \in Pages /\ r.hub = g /\ r.socket = socket
        /\ SameOwed(E!Now, r) /\ TellsOn(E!Now, r)
    BY <1>2, NowOK, NextHub
  <1> HIDE DEF r
  <1>4. /\ s \in Pages /\ s.socket = socket /\ s.hub = [g EXCEPT !.healthy = TRUE]
        /\ SameOwed(r, s) /\ TellsOn(r, s)
    BY <1>3, SetHealthyFields
  <1> HIDE DEF s, told
  <1>5. /\ s.hub.connected = hub.connected /\ s.hub.baseline = hub.poll /\ s.hub.poll = None
        /\ s.hub.retry = hub.retry /\ s.hub.watchdog = hub.watchdog
        /\ s.hub.ticking = hub.ticking
    BY <1>2, <1>4 DEF Hubs
  <1>6. /\ DOMAIN s.heard = DOMAIN heard /\ s.owed = owed /\ DOMAIN owed = DOMAIN heard
        /\ KnowsState(s)
    BY <1>3, <1>4, NowOK DEF SameOwed, TellsOn, PageOK
  <1>7. IsLetIn(s) /\ RestsAlone(s)
    BY <1>4, <1>5, <1>6, NowOK DEF PageOK, IsLetIn, RestsAlone, Waits
  <1>8. CASE told
    <2> DEFINE u == E!TellStale(s)
    <2>1. /\ u \in Pages /\ u.socket = socket /\ u.hub = s.hub /\ u.heard = s.heard
          /\ NoneOwed(s, u)
      BY <1>4, TellStaleFields
    <2> HIDE DEF u
    <2>2. NoneOwed(E!Now, u) /\ KnowsState(u) /\ IsLetIn(u) /\ RestsAlone(u)
      BY <1>4, <1>6, <1>7, <2>1, NowOK DEF NoneOwed, KnowsState, IsLetIn, RestsAlone, Waits
    <2>3. PageOK(u, world, hole)
      BY <1>5, <2>1, <2>2, NowOK, NoneOwedOK
    <2> QED BY <1>1, <1>8, <2>3, NowOK, Arrives DEF u
  <1>9. CASE ~ told
    <2>1. Behind(s, world)
      BY <1>1, <1>5, <1>6, NowOK, FeedAssumption DEF PageOK, Behind
    <2>2. ASSUME NEW c \in DOMAIN owed, NEW k \in owed[c] \ hole PROVE ToCome(s, k)
      <3>1. ToCome(E!Now, k) /\ k \in Nat
        <4>1. owed \in Owed(DOMAIN owed)
          BY NowOK, PageParts
        <4> QED BY <4>1, NowOK DEF PageOK, OwedToCome, Owed
      <3>2. hub.poll # None
        BY <1>1, FeedAssumption
      <3>3. hub.baseline = None \/ hub.poll = hub.baseline
        BY <1>9 DEF told
      <3>4. CASE hub.connected
        <4>1. hub.baseline # None => ~ (k > hub.baseline /\ hub.poll >= k)
          BY <1>1, <3>1, <3>3
        <4>2. socket.deaf \/ Waits(E!Now, <<"event", k>>)
          BY <1>1, <3>1, <3>4, <4>1, NowOK DEF ToCome
        <4>3. s.socket.deaf \/ Waits(s, <<"event", k>>)
          BY <1>4, <4>2, NowOK DEF Waits
        <4> QED BY <1>5, <3>4, <4>3 DEF ToCome
      <3>5. CASE ~ hub.connected
        BY <1>1, <1>4, <1>5, <3>1, <3>2, <3>3, <3>5, NowOK DEF ToCome
      <3> QED BY <3>4, <3>5
    <2>3. PageOK(s, world, hole)
      BY <1>4, <1>6, <1>7, <2>1, <2>2 DEF PageOK, OwedToCome
    <2> QED BY <1>1, <1>9, <2>3, NowOK, Arrives
  <1> QED BY <1>8, <1>9

\* A poll that fails leaves a blind spot where nothing else would have told what it would have.
LEMMA PagePollFails ==
  ASSUME PageInv, E!PollFails
  PROVE  PageInv'
  <1> DEFINE g == [hub EXCEPT !.poll = None]
             r == [E!Now EXCEPT !.hub = g]
             s == E!SetHealthy(r, FALSE)
             all == UNION {owed[c] : c \in DOMAIN owed}
  <1>1. /\ E!Becomes(s) /\ world' = world
        /\ hole' = IF hub.connected \/ hub.baseline = None THEN hole \cup all ELSE hole
    BY NowOK DEF E!PollFails
  <1>2. /\ g \in Hubs /\ g.connected = hub.connected /\ g.healthy = hub.healthy
        /\ g.baseline = hub.baseline /\ g.poll = None /\ g.retry = hub.retry
        /\ g.watchdog = hub.watchdog /\ g.ticking = hub.ticking
    BY NowOK DEF Hubs
  <1> HIDE DEF g
  <1>3. /\ r \in Pages /\ r.hub = g /\ r.socket = socket
        /\ SameOwed(E!Now, r) /\ TellsOn(E!Now, r)
    BY <1>2, NowOK, NextHub
  <1> HIDE DEF r
  <1>4. /\ s \in Pages /\ s.socket = socket /\ s.hub = [g EXCEPT !.healthy = FALSE]
        /\ SameOwed(r, s) /\ TellsOn(r, s)
    BY <1>3, SetHealthyFields
  <1> HIDE DEF s
  <1>5. /\ s.hub.connected = hub.connected /\ s.hub.baseline = hub.baseline /\ s.hub.poll = None
        /\ s.hub.retry = hub.retry /\ s.hub.watchdog = hub.watchdog
        /\ s.hub.ticking = hub.ticking
    BY <1>2, <1>4 DEF Hubs
  <1>6. /\ DOMAIN s.heard = DOMAIN heard /\ s.owed = owed /\ DOMAIN owed = DOMAIN heard
        /\ KnowsState(s)
    BY <1>3, <1>4, NowOK DEF SameOwed, TellsOn, PageOK
  <1>7. IsLetIn(s) /\ RestsAlone(s)
    BY <1>4, <1>5, <1>6, NowOK DEF PageOK, IsLetIn, RestsAlone, Waits
  <1>8. Behind(s, world)
    BY <1>5, <1>6, NowOK, FeedAssumption DEF PageOK, Behind
  <1>9. ASSUME NEW c \in DOMAIN owed, NEW k \in owed[c] \ hole' PROVE ToCome(s, k)
    <2>1. k \in all
      OBVIOUS
    <2> HIDE DEF all
    <2>2. ~ hub.connected /\ hub.baseline # None /\ k \notin hole
      BY <1>1, <1>9, <2>1
    <2>3. ToCome(E!Now, k)
      BY <2>2, NowOK DEF PageOK, OwedToCome
    <2> QED BY <1>5, <2>2, <2>3, NowOK DEF ToCome
  <1>10. PageOK(s, world, hole')
    BY <1>4, <1>6, <1>7, <1>8, <1>9 DEF PageOK, OwedToCome
  <1> QED BY <1>1, <1>10, NowOK, Arrives

\* An event tells everyone of its change.
LEMMA PageOnEvent ==
  ASSUME PageInv, E!OnEvent
  PROVE  PageInv'
  <1>1. PICK k \in 1..MaxChanges : E!Frame(<<"event", k>>) /\ E!Becomes(E!TellEvent(E!Rest, k))
    BY DEF E!OnEvent
  <1> DEFINE r == E!Rest
             f == [c \in DOMAIN heard |-> owed[c] \ {k}]
             s == [r EXCEPT !.owed = f]
  <1>2. world' = world /\ hole' = hole
    BY DEF E!OnEvent
  <1>3. /\ r \in Pages /\ r.hub = hub /\ r.heard = heard /\ r.owed = owed
        /\ r.socket.at = socket.at /\ r.socket.deaf = socket.deaf
        /\ \A x : Waits(r, x) => Waits(E!Now, x)
        /\ \A x : Waits(E!Now, x) /\ x # <<"event", k>> => Waits(r, x)
    BY <1>1, RestFields
  <1>4. E!TellEvent(r, k) = s
    BY <1>3 DEF E!TellEvent, E!Subscribers
  <1>5. /\ owed \in Owed(DOMAIN heard) /\ DOMAIN heard \in SUBSET Consumers
        /\ DOMAIN owed = DOMAIN heard
    BY NowOK, PageParts DEF PageOK
  <1>6. f \in Owed(DOMAIN heard)
    BY <1>5 DEF Owed
  <1>7. DOMAIN f = DOMAIN heard /\ \A c \in DOMAIN heard : f[c] = owed[c] \ {k}
    OBVIOUS
  <1> HIDE DEF r, f
  <1>8. /\ s \in Pages /\ s.socket = r.socket /\ s.hub = hub /\ s.heard = heard /\ s.owed = f
    BY <1>3, <1>5, <1>6 DEF Pages
  <1> HIDE DEF s
  <1>9. DOMAIN heard # {}
    BY <1>1, NowOK DEF PageOK, RestsAlone, E!NoSocket, E!Frame
  <1>10. KnowsState(s) /\ RestsAlone(s)
    BY <1>8, <1>9, NowOK DEF KnowsState, RestsAlone, PageOK
  <1>11. IsLetIn(s)
    BY <1>3, <1>8, NowOK DEF IsLetIn, PageOK, Waits
  <1>12. Behind(s, world)
    BY <1>5, <1>7, <1>8, NowOK DEF Behind, PageOK
  <1>13. ASSUME NEW c \in DOMAIN heard, NEW j \in f[c] \ hole PROVE ToCome(s, j)
    <2>1. j \in owed[c] \ hole /\ j # k
      BY <1>7, <1>13
    <2>2. ToCome(E!Now, j)
      BY <1>5, <2>1, NowOK DEF PageOK, OwedToCome
    <2>3. Waits(E!Now, <<"event", j>>) => Waits(s, <<"event", j>>)
      BY <1>3, <1>8, <2>1 DEF Waits
    <2> QED BY <1>3, <1>8, <2>2, <2>3, NowOK DEF ToCome
  <1>14. PageOK(s, world, hole)
    BY <1>7, <1>8, <1>10, <1>11, <1>12, <1>13 DEF PageOK, OwedToCome
  <1> QED BY <1>1, <1>2, <1>4, <1>14, NowOK, Arrives DEF r

\* A connect: with a baseline the poll that goes on tells what is missed, apart from what its
\* value is too old for.
LEMMA PageOnConnect ==
  ASSUME PageInv, E!OnConnect
  PROVE  PageInv'
  <1> DEFINE r == E!Rest
             s == E!SetUp(r)
  <1>1. /\ E!Frame(E!Packet("connect")) /\ E!Becomes(s) /\ world' = world
        /\ hole' = hole \cup E!Outrun
    BY DEF E!OnConnect
  <1>2. PageOK(r, world, hole)
    BY <1>1, RestOK DEF E!Packet
  <1>3. /\ r \in Pages /\ r.hub = hub /\ r.heard = heard /\ r.owed = owed
        /\ r.socket.at = socket.at /\ r.socket.deaf = socket.deaf
        /\ \A x : Waits(E!Now, x) /\ x # E!Packet("connect") => Waits(r, x)
        /\ Waits(E!Now, E!Packet("connect"))
    BY <1>1, RestFields
  <1>4. PageOK(r, world, hole')
    BY <1>1, <1>2, NowOK, GrowsOK
  <1>5. socket.at = "joined"
    BY <1>3, NowOK DEF PageOK, IsLetIn
  <1>6. DOMAIN heard # {}
    BY <1>5, NowOK DEF PageOK, RestsAlone, E!NoSocket
  <1> HIDE DEF r
  <1>7. CASE hub.connected
    <2>1. s = r
      BY <1>3, <1>7 DEF E!SetUp
    <2> QED BY <1>1, <1>4, <2>1, NowOK, Arrives
  <1>8. CASE ~ hub.connected
    <2>1. /\ s \in Pages /\ s.socket = r.socket
          /\ s.hub.connected /\ s.hub.baseline = hub.baseline
          /\ hub.baseline = None =>
               NoneOwed(r, s) /\ s.hub.poll \in {hub.poll, Asked(hub.poll)}
          /\ hub.baseline # None => SameOwed(r, s) /\ s.hub.poll = Asked(hub.poll)
          /\ KnowsState(s)
      BY <1>3, <1>8, SetUpFields
    <2> HIDE DEF s
    <2>2. IsLetIn(s)
      BY <1>3, <1>5, <2>1 DEF IsLetIn
    <2>3. DOMAIN s.heard = DOMAIN heard
      BY <1>3, <2>1 DEF NoneOwed, SameOwed
    <2>4. RestsAlone(s)
      BY <1>6, <2>3 DEF RestsAlone
    <2>5. CASE hub.baseline = None
      <3>1. PageOK(s, world, hole')
        BY <1>3, <1>4, <2>1, <2>2, <2>4, <2>5, NoneOwedOK
      <3> QED BY <1>1, <3>1, NowOK, Arrives
    <2>6. CASE hub.baseline # None
      <3>1. s.owed = owed /\ DOMAIN owed = DOMAIN heard /\ owed \in Owed(DOMAIN owed)
        BY <1>3, <2>1, <2>6, NowOK, PageParts DEF SameOwed, PageOK
      <3>2. Behind(s, world)
        BY <2>1, <2>6, <3>1, NowOK, FeedAssumption DEF Behind, PageOK, Asked
      <3>3. ASSUME NEW c \in DOMAIN owed, NEW k \in owed[c] \ hole' PROVE ToCome(s, k)
        <4>1. ToCome(E!Now, k) /\ k \in Nat
          BY <1>1, <3>1, <3>3, NowOK DEF PageOK, OwedToCome, Owed
        <4>2. k > hub.baseline
          BY <1>8, <2>6, <4>1, NowOK DEF ToCome
        <4>3. CASE Waits(E!Now, <<"event", k>>)
          <5>1. Waits(r, <<"event", k>>)
            BY <1>3, <4>3 DEF E!Packet
          <5> QED BY <2>1, <5>1 DEF ToCome, Waits
        <4>4. CASE ~ Waits(E!Now, <<"event", k>>)
          <5>1. \A i \in DOMAIN socket.in : socket.in[i] # <<"event", k>>
            BY <4>4, NowOK DEF Waits
          <5>2. hub.poll \in Nat => ~ (k > hub.poll)
            BY <1>1, <2>6, <3>3, <5>1 DEF E!Outrun
          <5>3. hub.poll \in Nat => hub.poll >= k
            BY <4>1, <5>2
          <5>4. s.hub.poll # None /\ (s.hub.poll \in Nat => s.hub.poll >= k)
            BY <2>1, <2>6, <5>3, FeedAssumption DEF Asked
          <5> QED BY <2>1, <2>6, <4>2, <5>4 DEF ToCome
        <4> QED BY <4>3, <4>4
      <3>4. PageOK(s, world, hole')
        BY <2>1, <2>2, <2>3, <2>4, <3>1, <3>2, <3>3 DEF PageOK, OwedToCome
      <3> QED BY <1>1, <3>4, NowOK, Arrives
    <2> QED BY <2>5, <2>6
  <1> QED BY <1>7, <1>8

-----------------------------------------------------------------------------
(* Subscribers come and go *)

\* Nobody subscribes to a hub whose map of subscribers is empty.
LEMMA NobodyHeard ==
  ASSUME NEW C, NEW f \in Told(C), DOMAIN f = {}
  PROVE  f = <<>>
  <1>1. <<>> \in [1..0 -> C] /\ 1..0 = {}
    BY EmptySeq, LenProperties
  <1> QED BY <1>1 DEF Told

\* A new subscriber.
LEMMA PageSubscribe ==
  ASSUME PageInv, NEW c \in Consumers, E!Subscribe(c)
  PROVE  PageInv'
  <1> DEFINE g == IF heard = <<>> THEN E!Fresh(hub.user) ELSE hub
             f == [d \in DOMAIN heard \cup {c} |-> IF d = c THEN E!State(g) ELSE heard[d]]
             o == [d \in DOMAIN owed \cup {c} |-> IF d = c THEN {} ELSE owed[d]]
             s == [E!Now EXCEPT !.hub = g, !.heard = f, !.owed = o]
  <1>1. E!Becomes(E!SyncPolling(E!Connect(s))) /\ world' = world /\ hole' = hole
    BY DEF E!Subscribe
  <1>2. /\ heard \in Told(DOMAIN heard) /\ DOMAIN heard \in SUBSET Consumers
        /\ owed \in Owed(DOMAIN heard) /\ DOMAIN owed = DOMAIN heard
    BY NowOK, PageParts DEF PageOK
  <1>3. g \in Hubs
    BY NowOK DEF E!Fresh, Hubs
  <1>4. /\ heard = <<>> => /\ ~ g.connected /\ g.poll = None /\ g.baseline = None
        /\ heard # <<>> => g = hub
    BY DEF E!Fresh
  <1> HIDE DEF g
  <1>5. f \in Told(DOMAIN heard \cup {c})
    BY <1>2, <1>3, StateType DEF Told
  <1>6. o \in Owed(DOMAIN heard \cup {c})
    BY <1>2 DEF Owed
  <1>7. /\ DOMAIN f = DOMAIN heard \cup {c} /\ DOMAIN o = DOMAIN heard \cup {c}
        /\ f[c] = E!State(g) /\ o[c] = {}
        /\ \A d \in DOMAIN heard : d # c => f[d] = heard[d] /\ o[d] = owed[d]
    BY <1>2
  <1> HIDE DEF f, o
  <1>8. DOMAIN heard \cup {c} \in SUBSET Consumers
    BY <1>2
  <1>9. /\ s \in Pages /\ s.socket = socket /\ s.hub = g /\ s.heard = f /\ s.owed = o
    <2>1. f \in UNION {Told(C) : C \in SUBSET Consumers} /\ o \in UNION {Owed(C) : C \in SUBSET Consumers}
      BY <1>5, <1>6, <1>8
    <2> QED BY <1>3, <2>1, NowOK DEF Pages
  <1> HIDE DEF s
  <1>10. PageOK(s, world, hole)
    <2>1. CASE heard = <<>>
      <3>1. DOMAIN heard = {}
        BY <2>1
      <3>2. socket = E!NoSocket /\ DOMAIN E!NoSocket.in = {}
        BY <3>1, NowOK DEF PageOK, RestsAlone, E!NoSocket
      <3>3. \A d \in DOMAIN s.heard : d = c
        BY <1>7, <1>9, <3>1
      <3> QED BY <1>4, <1>7, <1>9, <2>1, <3>1, <3>2, <3>3, FeedAssumption
              DEF PageOK, KnowsState, IsLetIn, Behind, OwedToCome, RestsAlone, Waits
    <2>2. CASE heard # <<>>
      <3>1. DOMAIN heard # {}
        BY <1>2, <2>2, NobodyHeard
      <3>2. g = hub
        BY <1>4, <2>2
      <3>3. KnowsState(s)
        BY <1>2, <1>7, <1>9, <3>2, NowOK DEF PageOK, KnowsState
      <3>4. IsLetIn(s)
        BY <1>9, <3>1, <3>2, NowOK DEF PageOK, IsLetIn, Waits
      <3>5. Behind(s, world)
        BY <1>2, <1>7, <1>9, <3>2, NowOK DEF PageOK, Behind
      <3>6. ASSUME NEW d \in DOMAIN o, NEW k \in o[d] \ hole PROVE ToCome(s, k)
        <4>1. d \in DOMAIN owed /\ k \in owed[d] \ hole
          BY <1>2, <1>7, <3>6
        <4>2. ToCome(E!Now, k)
          BY <4>1, NowOK DEF PageOK, OwedToCome
        <4> QED BY <1>9, <3>2, <4>2, NowOK DEF ToCome, Waits
      <3>7. RestsAlone(s)
        BY <1>7, <1>9 DEF RestsAlone
      <3> QED BY <1>7, <1>9, <3>3, <3>4, <3>5, <3>6, <3>7 DEF PageOK, OwedToCome
    <2> QED BY <2>1, <2>2
  <1> QED BY <1>1, <1>10, ConnectOK, SyncPollingOK, NowOK, Arrives

\* A subscriber that leaves; with the last one the hub is torn down.
LEMMA PageUnsubscribe ==
  ASSUME PageInv, NEW c \in Consumers, E!Unsubscribe(c)
  PROVE  PageInv'
  <1> DEFINE D == DOMAIN heard \ {c}
             f == [d \in D |-> heard[d]]
             o == [d \in D |-> owed[d]]
             s == [E!Now EXCEPT !.heard = f, !.owed = o]
  <1>1. /\ heard \in Told(DOMAIN heard) /\ DOMAIN heard \in SUBSET Consumers
        /\ owed \in Owed(DOMAIN heard) /\ DOMAIN owed = DOMAIN heard
    BY NowOK, PageParts DEF PageOK
  <1>2. /\ E!Becomes(IF E!Subscribers(s) = {} THEN E!CloseHub(s) ELSE s)
        /\ world' = world /\ hole' = hole
    BY <1>1 DEF E!Unsubscribe
  <1>3. /\ DOMAIN f = D /\ DOMAIN o = D /\ \A d \in D : f[d] = heard[d] /\ o[d] = owed[d]
    OBVIOUS
  <1>4. f \in Told(D) /\ o \in Owed(D) /\ D \in SUBSET Consumers /\ D \subseteq DOMAIN heard
    BY <1>1 DEF Told, Owed
  <1> HIDE DEF f, o, D
  <1>5. /\ s \in Pages /\ s.socket = socket /\ s.hub = hub /\ s.heard = f /\ s.owed = o
    <2>1. f \in UNION {Told(C) : C \in SUBSET Consumers} /\ o \in UNION {Owed(C) : C \in SUBSET Consumers}
      BY <1>4
    <2> QED BY <2>1, NowOK DEF Pages
  <1> HIDE DEF s
  <1>6. CASE D # {}
    <2>1. KnowsState(s)
      BY <1>3, <1>4, <1>5, NowOK DEF PageOK, KnowsState
    <2>2. IsLetIn(s)
      BY <1>4, <1>5, <1>6, NowOK DEF PageOK, IsLetIn, Waits
    <2>3. Behind(s, world)
      BY <1>1, <1>3, <1>4, <1>5, NowOK DEF PageOK, Behind
    <2>4. ASSUME NEW d \in D, NEW k \in o[d] \ hole PROVE ToCome(s, k)
      <3>1. d \in DOMAIN owed /\ k \in owed[d] \ hole
        BY <1>1, <1>3, <1>4, <2>4
      <3>2. ToCome(E!Now, k)
        BY <3>1, NowOK DEF PageOK, OwedToCome
      <3> QED BY <1>5, <3>2, NowOK DEF ToCome, Waits
    <2>5. RestsAlone(s)
      BY <1>3, <1>5, <1>6 DEF RestsAlone
    <2>6. PageOK(s, world, hole)
      BY <1>3, <1>5, <2>1, <2>2, <2>3, <2>4, <2>5 DEF PageOK, OwedToCome
    <2>7. E!Becomes(s)
      BY <1>2, <1>3, <1>5, <1>6 DEF E!Subscribers
    <2> QED BY <1>2, <2>6, <2>7, NowOK, Arrives
  <1>7. CASE D = {}
    <2> DEFINE g == [hub EXCEPT !.retry = FALSE, !.watchdog = FALSE, !.ticking = FALSE]
               u == [s EXCEPT !.hub = g]
               v == E!TearDown(u)
    <2>1. /\ g \in Hubs /\ ~ g.retry /\ ~ g.watchdog /\ ~ g.ticking
          /\ g.poll = hub.poll /\ g.baseline = hub.baseline
      BY NowOK DEF Hubs
    <2>2. E!Becomes(v)
      BY <1>2, <1>3, <1>5, <1>7 DEF E!Subscribers, E!CloseHub, E!ClearTimers
    <2> HIDE DEF g
    <2>3. u \in Pages /\ u.hub = g /\ u.heard = f /\ u.owed = o
      BY <1>5, <2>1, NextHub
    <2> HIDE DEF u
    <2>4. /\ v \in Pages /\ v.socket = E!NoSocket /\ v.hub = g /\ v.heard = f /\ v.owed = o
          /\ ~ Waits(v, E!Packet("connect"))
      BY <2>3, TearDownFields
    <2> HIDE DEF v
    <2>5. PageOK(v, world, hole)
      BY <1>3, <1>7, <2>1, <2>4, NowOK
         DEF PageOK, KnowsState, IsLetIn, Behind, OwedToCome, RestsAlone
    <2> QED BY <1>2, <2>2, <2>5, NowOK, Arrives
  <1> QED BY <1>6, <1>7

-----------------------------------------------------------------------------
(* The page as a whole *)

\* A hub that was just made holds PageInv.
LEMMA PageInit == E!Init => PageInv
  <1> SUFFICES ASSUME E!Init PROVE PageInv
    OBVIOUS
  <1>1. /\ world = 0 /\ socket = E!NoSocket /\ heard = <<>> /\ owed = <<>> /\ hole = {}
    BY DEF E!Init
  <1>2. PICK user \in UserToken : hub = E!Fresh(user)
    BY DEF E!Init
  <1>3. hub \in Hubs /\ ~ hub.connected /\ hub.poll = None /\ hub.baseline = None
        /\ ~ hub.retry /\ ~ hub.watchdog /\ ~ hub.ticking
    BY <1>2, FeedAssumption DEF E!Fresh, Hubs
  <1>4. socket \in Sockets /\ DOMAIN socket.in = {}
    BY <1>1, EmptySeq DEF E!NoSocket, Sockets
  <1>5. DOMAIN heard = {} /\ DOMAIN owed = {}
    BY <1>1
  <1>6. heard \in Told({}) /\ owed \in Owed({})
    <2>1. \A S : <<>> \in [1..0 -> S] /\ 1..0 = {}
      BY EmptySeq, LenProperties
    <2> QED BY <1>1, <2>1 DEF Told, Owed
  <1>7. E!Now \in Pages
    <2>1. {} \in SUBSET Consumers
      OBVIOUS
    <2>2. heard \in UNION {Told(C) : C \in SUBSET Consumers} /\ owed \in UNION {Owed(C) : C \in SUBSET Consumers}
      BY <1>6, <2>1
    <2> QED BY <1>3, <1>4, <2>2 DEF Pages, E!Now
  <1>8. /\ E!Now.hub = hub /\ E!Now.heard = heard /\ E!Now.owed = owed /\ E!Now.socket = socket
    BY DEF E!Now
  <1>9. PageOK(E!Now, world, hole)
    BY <1>1, <1>3, <1>4, <1>5, <1>7, <1>8, FeedAssumption
       DEF PageOK, KnowsState, IsLetIn, Behind, OwedToCome, RestsAlone, Waits
  <1> QED BY <1>1, <1>9 DEF PageInv

\* Every step of the page keeps it.
LEMMA PageStep ==
  ASSUME PageInv, E!Next \/ UNCHANGED hubVars
  PROVE  PageInv'
  <1>1. CASE UNCHANGED hubVars
    BY <1>1 DEF hubVars, PageInv, E!Now
  <1>2. CASE E!Next
    <2>1. CASE \E c \in Consumers : E!Subscribe(c) \/ E!Unsubscribe(c)
      BY <2>1, PageSubscribe, PageUnsubscribe
    <2>2. CASE E!EnsureFresh \/ E!PollTick
      BY <2>2, PagePolls
    <2>3. CASE \E user \in BOOLEAN : E!SetToken(user)
      BY <2>3, PageSetToken
    <2>4. CASE E!Network
      BY <2>4, PageChange, PageInject, PageNetwork DEF E!Network
    <2>5. CASE E!Frames
      BY <2>5, PageOnConnect, PageConnectError, PageDrops, PageOnEvent DEF E!Frames
    <2>6. CASE E!OnClose \/ E!WatchdogFires
      BY <2>6, PageDrops
    <2>7. CASE E!Reconnect
      BY <2>7, PageReconnect
    <2>8. CASE E!PollRead \/ E!PollArrives \/ E!PollFails
      BY <2>8, PagePollRead, PagePollArrives, PagePollFails
    <2> QED BY <1>2, <2>1, <2>2, <2>3, <2>4, <2>5, <2>6, <2>7, <2>8 DEF E!Next
  <1> QED BY <1>1, <1>2

\* It says what the hub promises.
LEMMA PageTells == PageInv => E!NothingMissed /\ E!StateTold /\ E!EmptyIsQuiet
  <1> SUFFICES ASSUME PageInv PROVE E!NothingMissed /\ E!StateTold /\ E!EmptyIsQuiet
    OBVIOUS
  <1>1. E!StateTold
    BY NowOK DEF PageOK, KnowsState, E!StateTold
  <1>2. E!EmptyIsQuiet
    <2>1. DOMAIN <<>> = {}
      OBVIOUS
    <2> QED BY <2>1, NowOK DEF PageOK, RestsAlone, E!EmptyIsQuiet
  <1>3. E!NothingMissed
    <2> SUFFICES ASSUME E!Level, NEW c \in DOMAIN owed, NEW k \in owed[c], k \notin hole
                 PROVE  FALSE
      BY DEF E!NothingMissed, E!AllTold
    <2>1. ToCome(E!Now, k) /\ k <= world
      BY NowOK DEF PageOK, OwedToCome, Behind
    <2>2. k \in Nat
      <3>1. owed \in Owed(DOMAIN owed)
        BY NowOK, PageParts
      <3> QED BY <3>1 DEF Owed
    <2>3. CASE hub.connected
      <3>1. socket.in = <<>> /\ ~ socket.deaf /\ hub.poll = None
        BY <2>3 DEF E!Level
      <3>2. DOMAIN socket.in = {}
        BY <3>1
      <3> QED BY <2>1, <2>3, <3>1, <3>2, NowOK DEF ToCome, Waits
    <2>4. CASE ~ hub.connected
      <3>1. hub.baseline = world /\ hub.poll = None
        BY <2>4 DEF E!Level
      <3> QED BY <2>1, <2>2, <2>4, <3>1, NowOK, FeedAssumption DEF ToCome
    <2> QED BY <2>3, <2>4
  <1> QED BY <1>1, <1>2, <1>3

-----------------------------------------------------------------------------
(* The watchers of the worker *)

Listings == [n : Nat, is : {"there", "gone", "failed"}]

DirWatchers ==
  [at : {"off", "on", "closed"}, snapshot : Nat \cup {None}, scan : Listings \cup {None, Sent},
   again : BOOLEAN, looked : Nat, due : Nat]

FileWatchers ==
  [at : {"off", "on", "closed"}, prev : Nat \cup {None}, seed : Nat \cup {None, Sent},
   check : Nat \cup {None, Sent}, timer : BOOLEAN]

Feeds == [subscribed : BOOLEAN, opening : BOOLEAN, covered : BOOLEAN]

Words == ({"event", "stale"} \X Nat) \cup ({"state", "reply"} \X BOOLEAN)

WorkerTypes ==
  /\ entry \in Nat /\ refs \in Nat
  /\ dir \in [Dirs -> DirWatchers] /\ file \in [Files -> FileWatchers]
  /\ feed \in Feeds /\ page \in [attached : BOOLEAN, covered : BOOLEAN, moved : BOOLEAN]
  /\ up \in Seq({"subscribe", "close"}) /\ down \in Seq(Words)

\* A watcher of a directory that nothing was asked of yet, or that is level with its notices, or
\* that will be by the listing under way or by the one after it.
Rescans ==
  \A d \in Dirs :
    /\ dir[d].at = "off" => dir[d].scan = None /\ ~ dir[d].again /\ dir[d].due = 0
    /\ dir[d].due <= entry
    /\ W!On(dir[d]) =>
         /\ dir[d].scan = None => ~ dir[d].again /\ dir[d].looked >= dir[d].due
         /\ dir[d].scan \in Listings => dir[d].again \/ dir[d].scan.n >= dir[d].due

\* A notice is of a change that was made.
NoticesTrue == \A i \in DOMAIN down : down[i][1] = "stale" => down[i][2] <= entry

Replies(q) == {i \in DOMAIN q : q[i][1] = "reply"}

\* How far the two ends are with the feed: the page has what is to come to the worker, the
\* worker what is to go to the page.
Ends ==
  \/ /\ up = <<>> /\ page.attached = (feed.subscribed \/ feed.opening)
     /\ feed.opening <=> Replies(down) # {}
  \/ up = <<"close">> /\ page.attached /\ ~ feed.opening /\ Replies(down) = {}
  \/ up = <<"subscribe">> /\ ~ page.attached /\ feed.opening /\ Replies(down) = {}
  \/ up = <<"close", "subscribe">> /\ page.attached /\ feed.opening /\ Replies(down) = {}

FeedOpen ==
  /\ feed.subscribed => up = <<>> /\ ~ feed.opening
  /\ \A i, j \in Replies(down) : i = j
  /\ ~ feed.opening => (feed.subscribed <=> W!Handlers # {})

\* The messages that say what covers the worker, and the last of them.
Says(m) == m[1] \in {"state", "reply"}

LastSaid(q, i) == Says(q[i]) /\ \A j \in DOMAIN q : j > i => ~ Says(q[j])

\* With the messages q on their way to it, a worker that believes w will believe p.
WillKnow(q, w, p) ==
  /\ \A i \in DOMAIN q : LastSaid(q, i) => q[i][2] = p
  /\ (\A i \in DOMAIN q : ~ Says(q[i])) => w = p

CoverKnown == up = <<>> /\ page.attached => WillKnow(down, feed.covered, page.covered)

\* A watched file is polled exactly while the worker believes that nothing covers it.
Polls ==
  \A f \in Files : /\ W!On(file[f]) => file[f].timer = ~ feed.covered
                   /\ file[f].timer => W!On(file[f])

Held == IsFiniteSet(W!Handlers) /\ refs = Cardinality(W!Handlers)

FeedInv == Ends /\ FeedOpen /\ CoverKnown

WorkerInv == WorkerTypes /\ Rescans /\ NoticesTrue /\ FeedInv /\ Polls /\ Held

-----------------------------------------------------------------------------
(* Messages *)

\* The first message and the rest.
LEMMA FirstOf ==
  ASSUME NEW q \in Seq(Words), q # <<>>
  PROVE  /\ Head(q) = q[1] /\ Head(q) \in Words /\ Tail(q) \in Seq(Words)
         /\ Len(q) \in Nat \ {0} /\ DOMAIN q = 1..Len(q) /\ DOMAIN Tail(q) = 1..(Len(q) - 1)
         /\ \A i \in 1..(Len(q) - 1) : Tail(q)[i] = q[i + 1]
BY HeadTailProperties, EmptySeq, LenProperties

\* One more message.
LEMMA OneMore ==
  ASSUME NEW q \in Seq(Words), NEW m \in Words
  PROVE  /\ Append(q, m) \in Seq(Words) /\ Len(q) \in Nat /\ DOMAIN q = 1..Len(q)
         /\ DOMAIN Append(q, m) = 1..(Len(q) + 1)
         /\ \A i \in 1..Len(q) : Append(q, m)[i] = q[i]
         /\ Append(q, m)[Len(q) + 1] = m
BY AppendProperties, LenProperties

\* What stays when the first message is taken.
LEMMA RestOf ==
  ASSUME NEW q \in Seq(Words), q # <<>>
  PROVE  /\ Head(q)[1] # "reply" => (Replies(Tail(q)) = {} <=> Replies(q) = {})
         /\ (\A i, j \in Replies(q) : i = j) =>
              /\ \A i, j \in Replies(Tail(q)) : i = j
              /\ Head(q)[1] = "reply" => Replies(q) # {} /\ Replies(Tail(q)) = {}
         /\ \A n : (\A i \in DOMAIN q : q[i][1] = "stale" => q[i][2] <= n) =>
              \A i \in DOMAIN Tail(q) : Tail(q)[i][1] = "stale" => Tail(q)[i][2] <= n
         /\ \A w, p : WillKnow(q, w, p) =>
              WillKnow(Tail(q), IF Says(Head(q)) THEN Head(q)[2] ELSE w, p)
  <1> DEFINE t == Tail(q)
             n == Len(q)
  <1>1. /\ Head(q) = q[1] /\ n \in Nat \ {0} /\ DOMAIN q = 1..n /\ DOMAIN t = 1..(n - 1)
        /\ \A i \in 1..(n - 1) : t[i] = q[i + 1]
    BY FirstOf
  <1> HIDE DEF t, n
  <1>2. \A i \in DOMAIN t : i + 1 \in DOMAIN q /\ t[i] = q[i + 1] /\ i + 1 > i /\ i + 1 # 1 /\ i \in Int
    BY <1>1
  <1>3. \A i \in DOMAIN q : i = 1 \/ (i - 1 \in DOMAIN t /\ t[i - 1] = q[i] /\ (i - 1) + 1 = i)
    <2> SUFFICES ASSUME NEW i \in DOMAIN q, i # 1
                 PROVE  i - 1 \in DOMAIN t /\ t[i - 1] = q[i] /\ (i - 1) + 1 = i
      OBVIOUS
    <2>1. i - 1 \in 1..(n - 1) /\ (i - 1) + 1 = i
      BY <1>1
    <2> QED BY <1>1, <2>1
  <1>4. ASSUME Head(q)[1] # "reply" PROVE Replies(t) = {} <=> Replies(q) = {}
    <2>1. ASSUME NEW i \in Replies(t) PROVE i + 1 \in Replies(q)
      BY <1>2 DEF Replies
    <2>2. ASSUME NEW i \in Replies(q) PROVE i - 1 \in Replies(t)
      BY <1>1, <1>3, <1>4 DEF Replies
    <2> QED BY <2>1, <2>2
  <1>5. ASSUME \A i, j \in Replies(q) : i = j, NEW i \in Replies(t)
        PROVE  Head(q)[1] # "reply" /\ \A j \in Replies(t) : i = j
    <2>1. \A j \in Replies(t) : j + 1 \in Replies(q) /\ j + 1 # 1 /\ j \in Int
      BY <1>2 DEF Replies
    <2>2. Head(q)[1] = "reply" => 1 \in Replies(q)
      BY <1>1 DEF Replies
    <2>3. Head(q)[1] # "reply"
      BY <1>5, <2>1, <2>2
    <2>4. ASSUME NEW j \in Replies(t) PROVE i = j
      <3>1. i + 1 = j + 1
        BY <1>5, <2>1
      <3> QED BY <2>1, <3>1
    <2> QED BY <2>3, <2>4
  <1>6. Head(q)[1] = "reply" => Replies(q) # {}
    BY <1>1 DEF Replies
  <1>7. ASSUME NEW w, NEW p, WillKnow(q, w, p)
        PROVE  WillKnow(t, IF Says(Head(q)) THEN Head(q)[2] ELSE w, p)
    <2>1. ASSUME NEW i \in DOMAIN t, LastSaid(t, i) PROVE t[i][2] = p
      <3>1. ASSUME NEW j \in DOMAIN q, j > i + 1, Says(q[j]) PROVE FALSE
        <4>1. j - 1 \in DOMAIN t /\ t[j - 1] = q[j] /\ j - 1 > i
          BY <1>1, <1>2, <1>3, <3>1
        <4> QED BY <2>1, <3>1, <4>1 DEF LastSaid
      <3>2. LastSaid(q, i + 1)
        BY <1>2, <2>1, <3>1 DEF LastSaid
      <3> QED BY <1>2, <1>7, <3>2 DEF WillKnow
    <2>2. ASSUME \A i \in DOMAIN t : ~ Says(t[i])
          PROVE  (IF Says(Head(q)) THEN Head(q)[2] ELSE w) = p
      <3>1. \A i \in DOMAIN q : i # 1 => ~ Says(q[i])
        BY <1>3, <2>2
      <3>2. CASE Says(q[1])
        <4>1. 1 \in DOMAIN q /\ LastSaid(q, 1)
          BY <1>1, <3>1, <3>2 DEF LastSaid
        <4> QED BY <1>1, <1>7, <3>2, <4>1 DEF WillKnow
      <3>3. CASE ~ Says(q[1])
        <4>1. \A i \in DOMAIN q : ~ Says(q[i])
          BY <3>1, <3>3
        <4> QED BY <1>1, <1>7, <3>3, <4>1 DEF WillKnow
      <3> QED BY <3>2, <3>3
    <2> QED BY <2>1, <2>2 DEF WillKnow
  <1>8. ASSUME NEW b, \A i \in DOMAIN q : q[i][1] = "stale" => q[i][2] <= b
        PROVE  \A i \in DOMAIN t : t[i][1] = "stale" => t[i][2] <= b
    BY <1>2, <1>8
  <1> QED BY <1>4, <1>5, <1>6, <1>7, <1>8 DEF t

\* What one more message adds.
LEMMA MoreOf ==
  ASSUME NEW q \in Seq(Words), NEW m \in Words
  PROVE  /\ m[1] # "reply" => Replies(Append(q, m)) = Replies(q)
         /\ m[1] = "reply" /\ Replies(q) = {} =>
              /\ Replies(Append(q, m)) # {}
              /\ \A i, j \in Replies(Append(q, m)) : i = j
         /\ \A n : /\ \A i \in DOMAIN q : q[i][1] = "stale" => q[i][2] <= n
                   /\ m[1] = "stale" => m[2] <= n
              => \A i \in DOMAIN Append(q, m) : Append(q, m)[i][1] = "stale" => Append(q, m)[i][2] <= n
         /\ \A w, p : ~ Says(m) /\ WillKnow(q, w, p) => WillKnow(Append(q, m), w, p)
         /\ \A w : Says(m) => WillKnow(Append(q, m), w, m[2])
  <1> DEFINE a == Append(q, m)
             n == Len(q)
  <1>1. /\ n \in Nat /\ DOMAIN q = 1..n /\ DOMAIN a = 1..(n + 1)
        /\ \A i \in 1..n : a[i] = q[i]
        /\ a[n + 1] = m
    BY OneMore
  <1> HIDE DEF a, n
  <1>2. \A i \in DOMAIN a : i = n + 1 \/ (i \in DOMAIN q /\ a[i] = q[i] /\ i # n + 1 /\ i < n + 1)
    BY <1>1
  <1>3. \A i \in DOMAIN q : i \in DOMAIN a /\ a[i] = q[i]
    BY <1>1
  <1>4. n + 1 \in DOMAIN a
    BY <1>1
  <1>5. m[1] # "reply" => Replies(a) = Replies(q)
    BY <1>1, <1>2, <1>3 DEF Replies
  <1>6. ASSUME m[1] = "reply", Replies(q) = {}
        PROVE  Replies(a) # {} /\ \A i, j \in Replies(a) : i = j
    <2>1. \A i \in Replies(a) : i = n + 1
      BY <1>2, <1>6 DEF Replies
    <2>2. n + 1 \in Replies(a)
      BY <1>1, <1>4, <1>6 DEF Replies
    <2> QED BY <2>1, <2>2
  <1>7. ASSUME NEW b, \A i \in DOMAIN q : q[i][1] = "stale" => q[i][2] <= b,
               m[1] = "stale" => m[2] <= b
        PROVE  \A i \in DOMAIN a : a[i][1] = "stale" => a[i][2] <= b
    BY <1>1, <1>2, <1>7
  <1>8. ASSUME NEW w, NEW p, ~ Says(m), WillKnow(q, w, p) PROVE WillKnow(a, w, p)
    <2>1. ASSUME NEW i \in DOMAIN a, LastSaid(a, i) PROVE a[i][2] = p
      <3>1. i \in DOMAIN q /\ a[i] = q[i]
        BY <1>1, <1>2, <1>8, <2>1 DEF LastSaid
      <3>2. LastSaid(q, i)
        BY <1>3, <2>1, <3>1 DEF LastSaid
      <3> QED BY <1>8, <3>1, <3>2 DEF WillKnow
    <2>2. (\A i \in DOMAIN a : ~ Says(a[i])) => \A i \in DOMAIN q : ~ Says(q[i])
      BY <1>3
    <2> QED BY <1>8, <2>1, <2>2 DEF WillKnow
  <1>9. ASSUME NEW w, Says(m) PROVE WillKnow(a, w, m[2])
    <2>1. ASSUME NEW i \in DOMAIN a, LastSaid(a, i) PROVE i = n + 1
      BY <1>1, <1>2, <1>4, <1>9, <2>1 DEF LastSaid
    <2> QED BY <1>1, <1>4, <1>9, <2>1 DEF WillKnow
  <1> QED BY <1>5, <1>6, <1>7, <1>8, <1>9 DEF a

-----------------------------------------------------------------------------
(* Handlers *)

\* The handlers are the watchers that are on.
LEMMA HandlersIn ==
  /\ \A d \in Dirs : d \in W!Handlers <=> W!On(dir[d])
  /\ \A f \in Files : f \in W!Handlers <=> W!On(file[f])
  /\ W!Handlers \subseteq Dirs \cup Files
BY FeedAssumption DEF W!Handlers

\* Who is on stays on.
LEMMA HandlersSame ==
  ASSUME \A d \in Dirs : W!On(dir'[d]) <=> W!On(dir[d]),
         \A f \in Files : W!On(file'[f]) <=> W!On(file[f])
  PROVE  W!Handlers' = W!Handlers
BY DEF W!Handlers

\* Who comes on joins them.
LEMMA HandlersJoin ==
  ASSUME NEW w, w \in Dirs \cup Files, w \notin W!Handlers,
         \A d \in Dirs : W!On(dir'[d]) <=> (d = w \/ W!On(dir[d])),
         \A f \in Files : W!On(file'[f]) <=> (f = w \/ W!On(file[f]))
  PROVE  W!Handlers' = W!Handlers \cup {w}
BY FeedAssumption DEF W!Handlers

\* Who goes leaves them.
LEMMA HandlersLeave ==
  ASSUME NEW w, w \in W!Handlers,
         \A d \in Dirs : W!On(dir'[d]) <=> (d # w /\ W!On(dir[d])),
         \A f \in Files : W!On(file'[f]) <=> (f # w /\ W!On(file[f]))
  PROVE  W!Handlers' = W!Handlers \ {w}
BY FeedAssumption DEF W!Handlers

\* One more holds the run, or one less.
LEMMA HeldJoin ==
  ASSUME Held, NEW w, w \notin W!Handlers, W!Handlers' = W!Handlers \cup {w}, refs' = refs + 1
  PROVE  Held' /\ refs' \in Nat
  <1>1. /\ IsFiniteSet(W!Handlers \cup {w})
        /\ Cardinality(W!Handlers \cup {w}) = Cardinality(W!Handlers) + 1
        /\ Cardinality(W!Handlers) \in Nat
    BY FS_AddElement, FS_CardinalityType DEF Held
  <1> QED BY <1>1 DEF Held

\* One less holds the run.
LEMMA HeldLeave ==
  ASSUME Held, NEW w, w \in W!Handlers, W!Handlers' = W!Handlers \ {w}, refs' = refs - 1
  PROVE  Held' /\ refs' \in Nat
  <1>1. /\ IsFiniteSet(W!Handlers \ {w})
        /\ Cardinality(W!Handlers \ {w}) = Cardinality(W!Handlers) - 1
        /\ Cardinality(W!Handlers \ {w}) \in Nat
    BY FS_RemoveElement, FS_CardinalityType DEF Held
  <1> QED BY <1>1 DEF Held

\* Nobody comes or goes.
LEMMA HeldSame ==
  ASSUME Held, W!Handlers' = W!Handlers, refs' = refs
  PROVE  Held'
BY DEF Held

-----------------------------------------------------------------------------
(* The feed *)

Ups == {<<>>, <<"close">>, <<"subscribe">>, <<"close", "subscribe">>}

\* What can be on its way to the page.
LEMMA UpSteps ==
  /\ Ups \subseteq Seq({"subscribe", "close"})
  /\ Append(<<>>, "subscribe") = <<"subscribe">>
  /\ Append(<<"close">>, "subscribe") = <<"close", "subscribe">>
  /\ Append(<<>>, "close") = <<"close">>
  /\ Head(<<"close">>) = "close" /\ Tail(<<"close">>) = <<>>
  /\ Head(<<"subscribe">>) = "subscribe" /\ Tail(<<"subscribe">>) = <<>>
  /\ Head(<<"close", "subscribe">>) = "close" /\ Tail(<<"close", "subscribe">>) = <<"subscribe">>
  /\ <<>> # <<"close">> /\ <<>> # <<"subscribe">> /\ <<>> # <<"close", "subscribe">>
  /\ <<"close">> # <<"subscribe">> /\ <<"close">> # <<"close", "subscribe">>
  /\ <<"subscribe">> # <<"close", "subscribe">>
  <1>1. /\ Len(<<>>) = 0 /\ Len(<<"close">>) = 1 /\ Len(<<"subscribe">>) = 1
        /\ Len(<<"close", "subscribe">>) = 2
    OBVIOUS
  <1>2. <<"close">>[1] # <<"subscribe">>[1] /\ <<"subscribe">>[1] # <<"close", "subscribe">>[1]
    OBVIOUS
  <1>3. Ups \subseteq Seq({"subscribe", "close"})
    BY DEF Ups
  <1>4. /\ Append(<<>>, "subscribe") = <<"subscribe">>
        /\ Append(<<"close">>, "subscribe") = <<"close", "subscribe">>
        /\ Append(<<>>, "close") = <<"close">>
    <2> DEFINE S == {"subscribe", "close"}
               a == Append(<<"close">>, "subscribe")
               b == <<"close", "subscribe">>
    <2>1. a \in Seq(S) /\ Len(a) = 2 /\ a[1] = "close" /\ a[2] = "subscribe"
      <3>1. <<"close">> \in Seq(S) /\ Len(<<"close">>) = 1 /\ <<"close">>[1] = "close"
        OBVIOUS
      <3> QED BY <3>1, AppendProperties
    <2>2. b \in Seq(S) /\ Len(b) = 2 /\ b[1] = "close" /\ b[2] = "subscribe"
      OBVIOUS
    <2>3. a = b
      <3> HIDE DEF a, b, S
      <3>1. Len(a) = Len(b) /\ \A i \in 1..Len(a) : a[i] = b[i]
        BY <2>1, <2>2
      <3> QED BY <2>1, <2>2, <3>1, SeqEqual
    <2>4. Append(<<>>, "subscribe") = <<"subscribe">> /\ Append(<<>>, "close") = <<"close">>
      OBVIOUS
    <2> QED BY <2>3, <2>4
  <1>5. /\ Head(<<"close">>) = "close" /\ Tail(<<"close">>) = <<>>
        /\ Head(<<"subscribe">>) = "subscribe" /\ Tail(<<"subscribe">>) = <<>>
    OBVIOUS
  <1>6. Head(<<"close", "subscribe">>) = "close" /\ Tail(<<"close", "subscribe">>) = <<"subscribe">>
    OBVIOUS
  <1> QED BY <1>1, <1>2, <1>3, <1>4, <1>5, <1>6

\* The feed of a step that touches neither it nor the handlers.
LEMMA FeedSame ==
  ASSUME FeedInv, UNCHANGED <<feed, page, up, down>>, W!Handlers' = W!Handlers
  PROVE  FeedInv'
BY DEF FeedInv, Ends, FeedOpen, CoverKnown

\* The first watcher opens the feed.
LEMMA FeedJoin ==
  ASSUME WorkerTypes, FeedInv, W!EnsureFeed, NEW w, W!Handlers' = W!Handlers \cup {w},
         UNCHANGED <<page, down>>
  PROVE  /\ FeedInv' /\ feed' \in Feeds /\ up' \in Seq({"subscribe", "close"})
         /\ feed'.covered = feed.covered
  <1>1. feed \in Feeds
    BY DEF WorkerTypes
  <1>2. CASE feed.subscribed \/ feed.opening
    <2>1. UNCHANGED <<feed, up>>
      BY <1>2 DEF W!EnsureFeed
    <2> QED BY <1>2, <2>1 DEF WorkerTypes, FeedInv, Ends, FeedOpen, CoverKnown
  <1>3. CASE ~ feed.subscribed /\ ~ feed.opening
    <2>1. feed' = [feed EXCEPT !.opening = TRUE] /\ up' = Append(up, "subscribe")
      BY <1>3 DEF W!EnsureFeed
    <2>2. /\ feed' \in Feeds /\ feed'.opening /\ ~ feed'.subscribed /\ feed'.covered = feed.covered
      BY <1>1, <1>3, <2>1 DEF Feeds
    <2>3. CASE up = <<>>
      <3>1. up' = <<"subscribe">> /\ up' \in Ups /\ up' # <<>>
        BY <2>1, <2>3, UpSteps DEF Ups
      <3>2. ~ page.attached /\ Replies(down) = {}
        BY <1>3, <2>3, UpSteps DEF FeedInv, Ends
      <3>3. Ends'
        BY <2>2, <3>1, <3>2 DEF Ends
      <3>4. FeedOpen' /\ CoverKnown'
        BY <2>2, <3>1, <3>2 DEF FeedInv, FeedOpen, CoverKnown
      <3> QED BY <2>2, <3>1, <3>3, <3>4, UpSteps DEF FeedInv
    <2>4. CASE up = <<"close">>
      <3>1. up' = <<"close", "subscribe">> /\ up' \in Ups /\ up' # <<>>
        BY <2>1, <2>4, UpSteps DEF Ups
      <3>2. page.attached /\ Replies(down) = {}
        BY <1>3, <2>4, UpSteps DEF FeedInv, Ends
      <3>3. Ends'
        BY <2>2, <3>1, <3>2 DEF Ends
      <3>4. FeedOpen' /\ CoverKnown'
        BY <2>2, <3>1, <3>2 DEF FeedInv, FeedOpen, CoverKnown
      <3> QED BY <2>2, <3>1, <3>3, <3>4, UpSteps DEF FeedInv
    <2> QED BY <1>3, <2>3, <2>4 DEF FeedInv, Ends
  <1> QED BY <1>2, <1>3

\* The last one closes it.
LEMMA FeedLeave ==
  ASSUME WorkerTypes, FeedInv, NEW w \in W!Handlers, W!Leave(w), W!Handlers' = W!Handlers \ {w},
         UNCHANGED <<page, down>>
  PROVE  /\ FeedInv' /\ feed' \in Feeds /\ up' \in Seq({"subscribe", "close"})
         /\ W!Handlers' # {} => feed'.covered = feed.covered
  <1>1. feed \in Feeds
    BY DEF WorkerTypes
  <1>2. CASE W!Handlers # {w} \/ ~ feed.subscribed
    <2>1. UNCHANGED <<feed, up>>
      BY <1>2 DEF W!Leave, W!CloseFeed
    <2>2. ~ feed.opening => feed.subscribed /\ W!Handlers' # {}
      BY <1>2 DEF FeedInv, FeedOpen
    <2> QED BY <2>1, <2>2 DEF WorkerTypes, FeedInv, Ends, FeedOpen, CoverKnown
  <1>3. CASE W!Handlers = {w} /\ feed.subscribed
    <2>1. feed' = [feed EXCEPT !.subscribed = FALSE, !.covered = FALSE] /\ up' = Append(up, "close")
      BY <1>3 DEF W!Leave, W!CloseFeed
    <2>2. up = <<>> /\ ~ feed.opening /\ page.attached /\ Replies(down) = {}
      BY <1>3, UpSteps DEF FeedInv, FeedOpen, Ends
    <2>3. feed' \in Feeds /\ ~ feed'.opening /\ ~ feed'.subscribed
      BY <1>1, <2>1, <2>2 DEF Feeds
    <2>4. up' = <<"close">> /\ up' \in Ups /\ up' # <<>>
      BY <2>1, <2>2, UpSteps DEF Ups
    <2>5. W!Handlers' = {}
      BY <1>3
    <2> QED BY <2>2, <2>3, <2>4, <2>5, UpSteps DEF FeedInv, Ends, FeedOpen, CoverKnown
  <1> QED BY <1>2, <1>3

\* The page hears of it: from a subscription on it says what covers the worker.
LEMMA FeedHears ==
  ASSUME WorkerTypes, FeedInv, W!PageHears, W!Handlers' = W!Handlers
  PROVE  /\ FeedInv' /\ up' \in Seq({"subscribe", "close"}) /\ down' \in Seq(Words)
         /\ page' \in [attached : BOOLEAN, covered : BOOLEAN, moved : BOOLEAN]
         /\ \A n : (\A i \in DOMAIN down : down[i][1] = "stale" => down[i][2] <= n) =>
              \A i \in DOMAIN down' : down'[i][1] = "stale" => down'[i][2] <= n
  <1> DEFINE m == <<"reply", page.covered>>
  <1>1. /\ up # <<>> /\ up' = Tail(up) /\ page' = [page EXCEPT !.attached = (Head(up) = "subscribe")]
        /\ down' = IF Head(up) = "subscribe" THEN Append(down, m) ELSE down
        /\ feed' = feed
    BY DEF W!PageHears
  <1>2. /\ page \in [attached : BOOLEAN, covered : BOOLEAN, moved : BOOLEAN]
        /\ down \in Seq(Words)
    BY DEF WorkerTypes
  <1>3. m \in Words /\ m[1] = "reply" /\ m[2] = page.covered /\ Says(m)
    BY <1>2 DEF Words, Says
  <1> HIDE DEF m
  <1>4. /\ page' \in [attached : BOOLEAN, covered : BOOLEAN, moved : BOOLEAN]
        /\ page'.attached = (Head(up) = "subscribe") /\ page'.covered = page.covered
    BY <1>1, <1>2
  <1>5. CASE up = <<"close">>
    <2>1. up' = <<>> /\ up' \in Ups /\ ~ page'.attached /\ down' = down
      BY <1>1, <1>4, <1>5, UpSteps DEF Ups
    <2>2. ~ feed.opening /\ ~ feed.subscribed /\ Replies(down) = {}
      BY <1>5, UpSteps DEF FeedInv, Ends, FeedOpen
    <2>3. Ends'
      BY <1>1, <2>1, <2>2, UpSteps DEF Ends
    <2>4. FeedOpen' /\ CoverKnown'
      BY <1>1, <2>1, <2>2 DEF FeedInv, FeedOpen, CoverKnown
    <2> QED BY <1>2, <1>4, <2>1, <2>3, <2>4, UpSteps DEF FeedInv
  <1>6. CASE up = <<"subscribe">>
    <2>1. up' = <<>> /\ up' \in Ups /\ page'.attached /\ down' = Append(down, m)
      BY <1>1, <1>4, <1>6, UpSteps DEF Ups
    <2>2. feed.opening /\ ~ feed.subscribed /\ Replies(down) = {}
      BY <1>6, UpSteps DEF FeedInv, Ends, FeedOpen
    <2>3. /\ down' \in Seq(Words) /\ Replies(down') # {}
          /\ \A i, j \in Replies(down') : i = j
          /\ WillKnow(down', feed.covered, page'.covered)
          /\ \A n : (\A i \in DOMAIN down : down[i][1] = "stale" => down[i][2] <= n) =>
              \A i \in DOMAIN down' : down'[i][1] = "stale" => down'[i][2] <= n
      <3> DEFINE a == Append(down, m)
      <3>1. a \in Seq(Words)
        BY <1>2, <1>3, OneMore
      <3>2. Replies(a) # {} /\ \A i, j \in Replies(a) : i = j
        BY <1>2, <1>3, <2>2, MoreOf
      <3>3. WillKnow(a, feed.covered, page.covered)
        <4>1. WillKnow(a, feed.covered, m[2])
          BY <1>2, <1>3, MoreOf
        <4> QED BY <1>3, <4>1
      <3>4. \A n : (\A i \in DOMAIN down : down[i][1] = "stale" => down[i][2] <= n) =>
              \A i \in DOMAIN a : a[i][1] = "stale" => a[i][2] <= n
        BY <1>2, <1>3, MoreOf
      <3> HIDE DEF a
      <3>5. down' = a
        BY <2>1 DEF a
      <3> QED BY <1>4, <3>1, <3>2, <3>3, <3>4, <3>5
    <2>4. Ends'
      BY <1>1, <2>1, <2>2, <2>3 DEF Ends
    <2>5. FeedOpen' /\ CoverKnown'
      BY <1>1, <2>1, <2>2, <2>3 DEF FeedInv, FeedOpen, CoverKnown
    <2> QED BY <1>4, <2>1, <2>3, <2>4, <2>5, UpSteps DEF FeedInv
  <1>7. CASE up = <<"close", "subscribe">>
    <2>1. up' = <<"subscribe">> /\ up' \in Ups /\ up' # <<>> /\ ~ page'.attached /\ down' = down
      BY <1>1, <1>4, <1>7, UpSteps DEF Ups
    <2>2. feed.opening /\ ~ feed.subscribed /\ Replies(down) = {}
      BY <1>7, UpSteps DEF FeedInv, Ends, FeedOpen
    <2>3. Ends'
      BY <1>1, <2>1, <2>2 DEF Ends
    <2>4. FeedOpen'
      BY <1>1, <2>1, <2>2 DEF FeedInv, FeedOpen
    <2>5. CoverKnown'
      BY <2>1 DEF CoverKnown
    <2> QED BY <1>2, <1>4, <2>1, <2>3, <2>4, <2>5, UpSteps DEF FeedInv
  <1> QED BY <1>1, <1>5, <1>6, <1>7 DEF FeedInv, Ends

\* Something happens at the page, which pushes it to a worker that is attached.
LEMMA FeedPush ==
  ASSUME WorkerTypes, FeedInv, NEW m \in Words, m[1] # "reply", W!Push(m),
         UNCHANGED <<feed, up>>, W!Handlers' = W!Handlers,
         page'.attached = page.attached,
         IF Says(m) THEN page'.covered = m[2] ELSE page'.covered = page.covered
  PROVE  /\ FeedInv' /\ down' \in Seq(Words)
         /\ \A n : /\ \A i \in DOMAIN down : down[i][1] = "stale" => down[i][2] <= n
                   /\ m[1] = "stale" => m[2] <= n
              => \A i \in DOMAIN down' : down'[i][1] = "stale" => down'[i][2] <= n
  <1>1. down \in Seq(Words)
    BY DEF WorkerTypes
  <1>2. CASE ~ page.attached
    <2>1. down' = down
      BY <1>2 DEF W!Push
    <2> QED BY <1>1, <1>2, <2>1 DEF FeedInv, Ends, FeedOpen, CoverKnown
  <1>3. CASE page.attached
    <2>1. down' = Append(down, m)
      BY <1>3 DEF W!Push
    <2>2. /\ down' \in Seq(Words) /\ Replies(down') = Replies(down)
          /\ \A n : /\ \A i \in DOMAIN down : down[i][1] = "stale" => down[i][2] <= n
                    /\ m[1] = "stale" => m[2] <= n
               => \A i \in DOMAIN down' : down'[i][1] = "stale" => down'[i][2] <= n
          /\ \A w, p : ~ Says(m) /\ WillKnow(down, w, p) => WillKnow(down', w, p)
          /\ \A w : Says(m) => WillKnow(down', w, m[2])
      BY <1>1, <2>1, OneMore, MoreOf
    <2>3. CoverKnown'
      BY <1>3, <2>2 DEF FeedInv, CoverKnown
    <2>4. Ends' /\ FeedOpen'
      BY <1>3, <2>2 DEF FeedInv, Ends, FeedOpen
    <2> QED BY <2>2, <2>3, <2>4 DEF FeedInv
  <1> QED BY <1>2, <1>3

\* The worker takes a message that is no reply.
LEMMA FeedPop ==
  ASSUME WorkerTypes, FeedInv, down # <<>>, Head(down)[1] # "reply", down' = Tail(down),
         UNCHANGED <<page, up>>, W!Handlers' = W!Handlers,
         feed'.subscribed = feed.subscribed, feed'.opening = feed.opening,
         feed'.covered = IF Says(Head(down)) THEN Head(down)[2] ELSE feed.covered
  PROVE  /\ FeedInv' /\ down' \in Seq(Words)
         /\ \A n : (\A i \in DOMAIN down : down[i][1] = "stale" => down[i][2] <= n) =>
              \A i \in DOMAIN down' : down'[i][1] = "stale" => down'[i][2] <= n
  <1>1. down \in Seq(Words)
    BY DEF WorkerTypes
  <1>2. /\ down' \in Seq(Words)
        /\ Replies(down') = {} <=> Replies(down) = {}
        /\ (\A i, j \in Replies(down) : i = j) => \A i, j \in Replies(down') : i = j
        /\ \A n : (\A i \in DOMAIN down : down[i][1] = "stale" => down[i][2] <= n) =>
             \A i \in DOMAIN down' : down'[i][1] = "stale" => down'[i][2] <= n
        /\ \A p : WillKnow(down, feed.covered, p) => WillKnow(down', feed'.covered, p)
    BY <1>1, FirstOf, RestOf
  <1>3. Ends'
    BY <1>2 DEF FeedInv, Ends
  <1>4. FeedOpen' /\ CoverKnown'
    BY <1>2 DEF FeedInv, FeedOpen, CoverKnown
  <1> QED BY <1>2, <1>3, <1>4 DEF FeedInv

\* The worker takes the reply to its subscription.
LEMMA FeedReply ==
  ASSUME WorkerTypes, FeedInv, W!OnReply, W!Handlers' = W!Handlers
  PROVE  /\ FeedInv' /\ down' \in Seq(Words) /\ feed' \in Feeds
         /\ up' \in Seq({"subscribe", "close"})
         /\ W!Handlers # {} => feed'.covered = Head(down)[2]
         /\ \A n : (\A i \in DOMAIN down : down[i][1] = "stale" => down[i][2] <= n) =>
              \A i \in DOMAIN down' : down'[i][1] = "stale" => down'[i][2] <= n
  <1>1. down \in Seq(Words) /\ feed \in Feeds
    BY DEF WorkerTypes
  <1>2. down # <<>> /\ Head(down)[1] = "reply" /\ down' = Tail(down) /\ page' = page
    BY DEF W!OnReply, W!Heard
  <1>3. Head(down)[2] \in BOOLEAN /\ Says(Head(down))
    BY <1>1, <1>2, FirstOf DEF Words, Says
  <1>4. /\ down' \in Seq(Words) /\ Replies(down) # {} /\ Replies(down') = {}
        /\ \A i, j \in Replies(down') : i = j
        /\ \A n : (\A i \in DOMAIN down : down[i][1] = "stale" => down[i][2] <= n) =>
             \A i \in DOMAIN down' : down'[i][1] = "stale" => down'[i][2] <= n
        /\ \A p : WillKnow(down, feed.covered, p) => WillKnow(down', Head(down)[2], p)
    BY <1>1, <1>2, <1>3, FirstOf, RestOf DEF FeedInv, FeedOpen
  <1>5. up = <<>> /\ feed.opening /\ page.attached /\ ~ feed.subscribed
    BY <1>4 DEF FeedInv, Ends, FeedOpen
  <1>6. CASE W!Handlers = {}
    <2>1. feed' = [feed EXCEPT !.opening = FALSE] /\ up' = Append(up, "close")
      BY <1>6 DEF W!OnReply
    <2>2. feed' \in Feeds /\ ~ feed'.opening /\ ~ feed'.subscribed
      BY <1>1, <1>5, <2>1 DEF Feeds
    <2>3. up' = <<"close">> /\ up' \in Ups /\ up' # <<>>
      BY <1>5, <2>1, UpSteps DEF Ups
    <2> QED BY <1>2, <1>4, <1>5, <1>6, <2>2, <2>3, UpSteps DEF FeedInv, Ends, FeedOpen, CoverKnown
  <1>7. CASE W!Handlers # {}
    <2> DEFINE b == Head(down)[2]
    <2>1. /\ feed' = [[feed EXCEPT !.opening = FALSE, !.subscribed = TRUE] EXCEPT !.covered = b]
          /\ up' = up
      BY <1>7 DEF W!OnReply, W!SetState
    <2>2. feed' \in Feeds /\ ~ feed'.opening /\ feed'.subscribed /\ feed'.covered = b
      BY <1>1, <1>3, <2>1 DEF Feeds
    <2>3. up' = <<>> /\ up' \in Seq({"subscribe", "close"})
      BY <1>5, <2>1
    <2>4. Ends' /\ FeedOpen'
      BY <1>2, <1>4, <1>5, <1>7, <2>2, <2>3 DEF Ends, FeedOpen
    <2>5. CoverKnown'
      BY <1>2, <1>4, <1>5, <2>2 DEF FeedInv, CoverKnown
    <2> QED BY <1>4, <2>2, <2>3, <2>4, <2>5 DEF FeedInv
  <1> QED BY <1>6, <1>7

-----------------------------------------------------------------------------
(* Watchers of directories *)

DirOK(x, n) ==
  /\ x.at = "off" => x.scan = None /\ ~ x.again /\ x.due = 0
  /\ x.due <= n
  /\ W!On(x) => /\ x.scan = None => ~ x.again /\ x.looked >= x.due
                /\ x.scan \in Listings => x.again \/ x.scan.n >= x.due

\* Rescans speaks of each watcher by itself.
LEMMA RescansEach == Rescans <=> \A d \in Dirs : DirOK(dir[d], entry)
BY DEF Rescans, DirOK

\* One watcher moves.
LEMMA DirMoves ==
  ASSUME WorkerTypes, Rescans, NEW d \in Dirs, NEW v \in DirWatchers,
         dir' = [dir EXCEPT ![d] = v], entry' = entry, DirOK(v, entry)
  PROVE  /\ dir' \in [Dirs -> DirWatchers] /\ Rescans' /\ dir'[d] = v
         /\ \A c \in Dirs : c # d => dir'[c] = dir[c]
  <1>1. dir \in [Dirs -> DirWatchers]
    BY DEF WorkerTypes
  <1>2. /\ dir' \in [Dirs -> DirWatchers] /\ dir'[d] = v
        /\ \A c \in Dirs : c # d => dir'[c] = dir[c]
    BY <1>1
  <1>3. \A c \in Dirs : DirOK(dir'[c], entry)
    BY <1>2, RescansEach
  <1>4. Rescans'
    BY <1>3 DEF Rescans, DirOK
  <1> QED BY <1>2, <1>4

\* What the steps of a watcher make of it.
LEMMA DirWatched ==
  ASSUME NEW x \in DirWatchers, x.at = "off", NEW n \in Nat, DirOK(x, n)
  PROVE  LET v == [x EXCEPT !.at = "on"]
         IN v \in DirWatchers /\ v.at = "on" /\ DirOK(v, n)
  <1> DEFINE v == [x EXCEPT !.at = "on"]
  <1>1. /\ v \in DirWatchers /\ v.at = "on" /\ v.scan = x.scan /\ v.again = x.again
        /\ v.looked = x.looked /\ v.due = x.due /\ x.looked \in Nat
    BY DEF DirWatchers
  <1> HIDE DEF v
  <1>2. x.scan = None /\ ~ x.again /\ x.due = 0
    BY DEF DirOK
  <1>3. None \notin Listings
    BY FeedAssumption DEF Listings
  <1>4. DirOK(v, n)
    BY <1>1, <1>2, <1>3 DEF DirOK
  <1> QED BY <1>1, <1>4 DEF v

\* close.
LEMMA DirClosed ==
  ASSUME NEW x \in DirWatchers, NEW n \in Nat, DirOK(x, n)
  PROVE  LET v == [x EXCEPT !.at = "closed", !.snapshot = None]
         IN v \in DirWatchers /\ v.at = "closed" /\ DirOK(v, n)
  <1> DEFINE v == [x EXCEPT !.at = "closed", !.snapshot = None]
  <1>1. v \in DirWatchers /\ v.at = "closed" /\ v.due = x.due
    BY DEF DirWatchers
  <1> HIDE DEF v
  <1>2. DirOK(v, n)
    BY <1>1 DEF DirOK, W!On
  <1> QED BY <1>1, <1>2 DEF v

\* The listing is read at the entry as it is.
LEMMA DirRead ==
  ASSUME NEW x \in DirWatchers, x.scan = Sent, NEW n \in Nat, DirOK(x, n), NEW l \in Listings, l.n = n
  PROVE  LET v == [x EXCEPT !.scan = l]
         IN v \in DirWatchers /\ v.at = x.at /\ DirOK(v, n)
  <1> DEFINE v == [x EXCEPT !.scan = l]
  <1>1. /\ v \in DirWatchers /\ v.at = x.at /\ v.scan = l /\ v.again = x.again
        /\ v.looked = x.looked /\ v.due = x.due /\ x.due \in Nat
    BY DEF DirWatchers
  <1> HIDE DEF v
  <1>2. x.at # "off" /\ x.due <= n
    BY FeedAssumption DEF DirOK
  <1>3. None \notin Listings
    BY FeedAssumption DEF Listings
  <1>4. DirOK(v, n)
    BY <1>1, <1>2, <1>3 DEF DirOK
  <1> QED BY <1>1, <1>4 DEF v

\* The listing arrives: unless another is wanted it covers every notice (#rescanOnce).
LEMMA DirListed ==
  ASSUME NEW x \in DirWatchers, x.scan \in Listings, NEW n \in Nat, DirOK(x, n)
  PROVE  LET v == IF W!On(x)
                  THEN [x EXCEPT !.snapshot = W!Listed(x), !.looked = x.scan.n,
                                 !.scan = IF x.again THEN Sent ELSE None, !.again = FALSE]
                  ELSE [x EXCEPT !.scan = None]
         IN v \in DirWatchers /\ v.at = x.at /\ DirOK(v, n)
  <1>1. x.scan.n \in Nat /\ x.scan.is \in {"there", "gone", "failed"}
    BY DEF Listings
  <1>2. W!Listed(x) \in Nat \cup {None}
    BY <1>1 DEF W!Listed, DirWatchers
  <1>3. x.at # "off" /\ x.due <= n /\ x.due \in Nat /\ x.again \in BOOLEAN
    BY FeedAssumption DEF DirOK, DirWatchers, Listings
  <1>4. None \notin Listings /\ Sent \notin Listings /\ None # Sent
    BY FeedAssumption DEF Listings
  <1>5. ASSUME W!On(x), NEW l, l = W!Listed(x)
        PROVE  LET v == [x EXCEPT !.snapshot = l, !.looked = x.scan.n,
                                  !.scan = IF x.again THEN Sent ELSE None, !.again = FALSE]
               IN v \in DirWatchers /\ v.at = x.at /\ DirOK(v, n)
    <2> DEFINE v == [x EXCEPT !.snapshot = l, !.looked = x.scan.n,
                              !.scan = IF x.again THEN Sent ELSE None, !.again = FALSE]
    <2>1. /\ v \in DirWatchers /\ v.at = x.at /\ v.looked = x.scan.n /\ v.due = x.due /\ ~ v.again
          /\ v.scan = IF x.again THEN Sent ELSE None
      BY <1>1, <1>2, <1>5 DEF DirWatchers
    <2> HIDE DEF v
    <2>2. x.again \/ x.scan.n >= x.due
      BY <1>5 DEF DirOK
    <2>3. DirOK(v, n)
      BY <1>3, <1>4, <2>1, <2>2 DEF DirOK
    <2> QED BY <2>1, <2>3 DEF v
  <1>6. ASSUME ~ W!On(x)
        PROVE  LET v == [x EXCEPT !.scan = None]
               IN v \in DirWatchers /\ v.at = x.at /\ DirOK(v, n)
    <2> DEFINE v == [x EXCEPT !.scan = None]
    <2>1. v \in DirWatchers /\ v.at = x.at /\ v.due = x.due
      BY DEF DirWatchers
    <2> HIDE DEF v
    <2>2. DirOK(v, n)
      BY <1>3, <1>6, <2>1 DEF DirOK, W!On
    <2> QED BY <2>1, <2>2 DEF v
  <1> QED BY <1>5, <1>6

\* A notice asks for a listing, or for one more after the one under way (#rescan).
LEMMA DirNoticed ==
  ASSUME NEW x \in DirWatchers, NEW n \in Nat, DirOK(x, n), W!On(x), NEW k \in Nat, k <= n
  PROVE  LET v == [W!Rescan(x) EXCEPT !.due = k]
         IN v \in DirWatchers /\ v.at = x.at /\ DirOK(v, n)
  <1> DEFINE r == W!Rescan(x)
             v == [r EXCEPT !.due = k]
  <1>1. r \in DirWatchers /\ r.at = x.at /\ r.scan # None /\ (r.again \/ r.scan = Sent)
    BY FeedAssumption DEF DirWatchers, W!Rescan
  <1> HIDE DEF r
  <1>2. v \in DirWatchers /\ v.at = x.at /\ v.due = k /\ v.scan = r.scan /\ v.again = r.again
    BY <1>1 DEF DirWatchers
  <1> HIDE DEF v
  <1>3. Sent \notin Listings
    BY FeedAssumption DEF Listings
  <1>4. DirOK(v, n)
    BY <1>1, <1>2, <1>3 DEF DirOK, W!On
  <1> QED BY <1>2, <1>4 DEF v, r

-----------------------------------------------------------------------------
(* Watchers of files *)

TimerOK(x, covered) == (W!On(x) => x.timer = ~ covered) /\ (x.timer => W!On(x))

\* Polls speaks of each watcher by itself.
LEMMA PollsEach == Polls <=> \A f \in Files : TimerOK(file[f], feed.covered)
BY DEF Polls, TimerOK

\* One watcher moves.
LEMMA FileMoves ==
  ASSUME WorkerTypes, Polls, NEW f \in Files, NEW v \in FileWatchers,
         file' = [file EXCEPT ![f] = v], TimerOK(v, feed.covered)
  PROVE  /\ file' \in [Files -> FileWatchers] /\ file'[f] = v
         /\ \A g \in Files : g # f => file'[g] = file[g]
         /\ feed'.covered = feed.covered => Polls'
  <1>1. file \in [Files -> FileWatchers]
    BY DEF WorkerTypes
  <1>2. /\ file' \in [Files -> FileWatchers] /\ file'[f] = v
        /\ \A g \in Files : g # f => file'[g] = file[g]
    BY <1>1
  <1>3. \A g \in Files : TimerOK(file'[g], feed.covered)
    BY <1>2, PollsEach
  <1>4. feed'.covered = feed.covered => Polls'
    BY <1>3 DEF Polls, TimerOK
  <1> QED BY <1>2, <1>4

\* What the steps of a watcher make of it.
LEMMA FileWatched ==
  ASSUME NEW x \in FileWatchers, NEW c \in BOOLEAN
  PROVE  LET v == [x EXCEPT !.at = "on", !.seed = Sent, !.timer = c]
         IN v \in FileWatchers /\ v.at = "on" /\ v.timer = c
BY DEF FileWatchers

\* stop.
LEMMA FileStopped ==
  ASSUME NEW x \in FileWatchers
  PROVE  LET v == [x EXCEPT !.at = "closed", !.timer = FALSE]
         IN v \in FileWatchers /\ v.at = "closed" /\ ~ v.timer
BY DEF FileWatchers

\* A stat is read.
LEMMA FileRead ==
  ASSUME NEW x \in FileWatchers, NEW n \in Nat
  PROVE  /\ LET v == [x EXCEPT !.seed = n]
            IN v \in FileWatchers /\ v.at = x.at /\ v.timer = x.timer
         /\ LET v == [x EXCEPT !.check = n]
            IN v \in FileWatchers /\ v.at = x.at /\ v.timer = x.timer
BY DEF FileWatchers

\* The first stat arrives.
LEMMA FileSeeded ==
  ASSUME NEW x \in FileWatchers, NEW p \in Nat \cup {None}
  PROVE  LET v == [x EXCEPT !.seed = None, !.prev = p]
         IN v \in FileWatchers /\ v.at = x.at /\ v.timer = x.timer
BY DEF FileWatchers

\* A later stat arrives.
LEMMA FileChecked ==
  ASSUME NEW x \in FileWatchers, NEW p \in Nat \cup {None}
  PROVE  LET v == [x EXCEPT !.check = None, !.prev = p]
         IN v \in FileWatchers /\ v.at = x.at /\ v.timer = x.timer
BY DEF FileWatchers

\* #check touches no timer.
LEMMA FileAsked ==
  ASSUME NEW x \in FileWatchers
  PROVE  W!Check(x) \in FileWatchers /\ W!Check(x).at = x.at /\ W!Check(x).timer = x.timer
BY DEF FileWatchers, W!Check

\* A timer is set or cleared.
LEMMA FileTimed ==
  ASSUME NEW x \in FileWatchers, NEW c \in BOOLEAN
  PROVE  LET v == [x EXCEPT !.timer = c]
         IN v \in FileWatchers /\ v.at = x.at /\ v.timer = c
BY DEF FileWatchers

-----------------------------------------------------------------------------
(* The steps of the worker *)

\* The watchers of files as they were, and what covers the worker too, or nobody left to poll.
LEMMA PollsStay ==
  ASSUME WorkerTypes, Polls, file' = file,
         feed'.covered = feed.covered \/ \A f \in Files : ~ W!On(file[f])
  PROVE  Polls'
BY PollsEach DEF Polls, TimerOK

\* fs.watch.
LEMMA WatchStep ==
  ASSUME WorkerInv, NEW d \in Dirs, W!Watch(d)
  PROVE  WorkerInv'
  <1> DEFINE v == [dir[d] EXCEPT !.at = "on"]
  <1>1. WorkerTypes /\ Rescans /\ NoticesTrue /\ FeedInv /\ Polls /\ Held
    BY DEF WorkerInv
  <1>2. /\ dir[d].at = "off" /\ dir' = [dir EXCEPT ![d] = v] /\ refs' = refs + 1 /\ W!EnsureFeed
        /\ UNCHANGED <<entry, file, page, down>>
    BY DEF W!Watch
  <1>3. dir[d] \in DirWatchers /\ entry \in Nat /\ DirOK(dir[d], entry)
    BY <1>1, RescansEach DEF WorkerTypes
  <1>4. v \in DirWatchers /\ v.at = "on" /\ DirOK(v, entry)
    BY <1>2, <1>3, DirWatched
  <1> HIDE DEF v
  <1>5. /\ dir' \in [Dirs -> DirWatchers] /\ Rescans' /\ dir'[d] = v
        /\ \A c \in Dirs : c # d => dir'[c] = dir[c]
    BY <1>1, <1>2, <1>4, DirMoves
  <1>6. d \notin W!Handlers
    BY <1>2, HandlersIn DEF W!On
  <1>7. W!Handlers' = W!Handlers \cup {d}
    <2>1. \A c \in Dirs : W!On(dir'[c]) <=> (c = d \/ W!On(dir[c]))
      BY <1>2, <1>4, <1>5 DEF W!On
    <2>2. \A f \in Files : W!On(file'[f]) <=> (f = d \/ W!On(file[f]))
      BY <1>2, FeedAssumption
    <2> QED BY <1>6, <2>1, <2>2, HandlersJoin
  <1>8. Held' /\ refs' \in Nat
    BY <1>1, <1>2, <1>6, <1>7, HeldJoin
  <1>9. /\ FeedInv' /\ feed' \in Feeds /\ up' \in Seq({"subscribe", "close"})
        /\ feed'.covered = feed.covered
    BY <1>1, <1>2, <1>7, FeedJoin
  <1>10. Polls'
    BY <1>1, <1>2, <1>9, PollsStay
  <1>11. WorkerTypes'
    BY <1>1, <1>2, <1>5, <1>8, <1>9 DEF WorkerTypes
  <1>12. NoticesTrue'
    BY <1>1, <1>2 DEF NoticesTrue
  <1> QED BY <1>5, <1>8, <1>9, <1>10, <1>11, <1>12 DEF WorkerInv

\* close of a watcher.
LEMMA CloseStep ==
  ASSUME WorkerInv, NEW d \in Dirs, W!Close(d)
  PROVE  WorkerInv'
  <1> DEFINE v == [dir[d] EXCEPT !.at = "closed", !.snapshot = None]
  <1>1. WorkerTypes /\ Rescans /\ NoticesTrue /\ FeedInv /\ Polls /\ Held
    BY DEF WorkerInv
  <1>2. /\ W!On(dir[d]) /\ dir' = [dir EXCEPT ![d] = v] /\ refs' = refs - 1 /\ W!Leave(d)
        /\ UNCHANGED <<entry, file, page, down>>
    BY DEF W!Close
  <1>3. dir[d] \in DirWatchers /\ entry \in Nat /\ DirOK(dir[d], entry)
    BY <1>1, RescansEach DEF WorkerTypes
  <1>4. v \in DirWatchers /\ v.at = "closed" /\ DirOK(v, entry)
    BY <1>3, DirClosed
  <1> HIDE DEF v
  <1>5. /\ dir' \in [Dirs -> DirWatchers] /\ Rescans' /\ dir'[d] = v
        /\ \A c \in Dirs : c # d => dir'[c] = dir[c]
    BY <1>1, <1>2, <1>4, DirMoves
  <1>6. d \in W!Handlers
    BY <1>2, HandlersIn
  <1>7. W!Handlers' = W!Handlers \ {d}
    <2>1. \A c \in Dirs : W!On(dir'[c]) <=> (c # d /\ W!On(dir[c]))
      BY <1>4, <1>5 DEF W!On
    <2>2. \A f \in Files : W!On(file'[f]) <=> (f # d /\ W!On(file[f]))
      BY <1>2, FeedAssumption
    <2> QED BY <1>6, <2>1, <2>2, HandlersLeave
  <1>8. Held' /\ refs' \in Nat
    BY <1>1, <1>2, <1>6, <1>7, HeldLeave
  <1>9. /\ FeedInv' /\ feed' \in Feeds /\ up' \in Seq({"subscribe", "close"})
        /\ W!Handlers' # {} => feed'.covered = feed.covered
    BY <1>1, <1>2, <1>6, <1>7, FeedLeave
  <1>10. Polls'
    <2>1. \A f \in Files : W!On(file[f]) => f \in W!Handlers'
      BY <1>2, <1>7, HandlersIn, FeedAssumption
    <2> QED BY <1>1, <1>2, <1>9, <2>1, PollsStay
  <1>11. WorkerTypes'
    BY <1>1, <1>2, <1>5, <1>8, <1>9 DEF WorkerTypes
  <1>12. NoticesTrue'
    BY <1>1, <1>2 DEF NoticesTrue
  <1> QED BY <1>5, <1>8, <1>9, <1>10, <1>11, <1>12 DEF WorkerInv

\* A step of a watcher of a directory by which nobody comes or goes.
LEMMA DirStays ==
  ASSUME WorkerInv, NEW d \in Dirs, NEW v \in DirWatchers, dir' = [dir EXCEPT ![d] = v],
         v.at = dir[d].at, DirOK(v, entry), UNCHANGED <<entry, file, feed, refs, page, up, down>>
  PROVE  WorkerInv'
  <1>1. WorkerTypes /\ Rescans /\ NoticesTrue /\ FeedInv /\ Polls /\ Held
    BY DEF WorkerInv
  <1>2. /\ dir' \in [Dirs -> DirWatchers] /\ Rescans' /\ dir'[d] = v
        /\ \A c \in Dirs : c # d => dir'[c] = dir[c]
    BY <1>1, DirMoves
  <1>3. W!Handlers' = W!Handlers
    <2>1. \A c \in Dirs : W!On(dir'[c]) <=> W!On(dir[c])
      BY <1>2 DEF W!On
    <2> QED BY <2>1, HandlersSame
  <1>4. FeedInv' /\ Held'
    BY <1>1, <1>3, FeedSame, HeldSame
  <1>5. Polls' /\ NoticesTrue'
    BY <1>1, PollsStay DEF NoticesTrue
  <1>6. WorkerTypes'
    BY <1>1, <1>2 DEF WorkerTypes
  <1> QED BY <1>2, <1>4, <1>5, <1>6 DEF WorkerInv

\* The filesystem reads a directory.
LEMMA ScanReadStep ==
  ASSUME WorkerInv, NEW d \in Dirs, W!ScanRead(d)
  PROVE  WorkerInv'
  <1>1. dir[d] \in DirWatchers /\ entry \in Nat /\ DirOK(dir[d], entry)
    BY RescansEach DEF WorkerInv, WorkerTypes
  <1>2. PICK is \in {"there", "gone", "failed"} :
          dir' = [dir EXCEPT ![d].scan = [n |-> entry, is |-> is]]
    BY DEF W!ScanRead
  <1> DEFINE l == [n |-> entry, is |-> is]
             v == [dir[d] EXCEPT !.scan = l]
  <1>3. l \in Listings /\ l.n = entry
    BY <1>1 DEF Listings
  <1>4. dir' = [dir EXCEPT ![d] = v]
    BY <1>2
  <1> HIDE DEF l
  <1>5. dir[d].scan = Sent /\ UNCHANGED <<entry, file, feed, refs, page, up, down>>
    BY DEF W!ScanRead
  <1>6. v \in DirWatchers /\ v.at = dir[d].at /\ DirOK(v, entry)
    BY <1>1, <1>3, <1>5, DirRead
  <1> HIDE DEF v
  <1> QED BY <1>4, <1>5, <1>6, DirStays

\* A listing arrives.
LEMMA ScanArrivesStep ==
  ASSUME WorkerInv, NEW d \in Dirs, W!ScanArrives(d)
  PROVE  WorkerInv'
  <1> DEFINE x == dir[d]
             v == IF W!On(x)
                  THEN [x EXCEPT !.snapshot = W!Listed(x), !.looked = x.scan.n,
                                 !.scan = IF x.again THEN Sent ELSE None, !.again = FALSE]
                  ELSE [x EXCEPT !.scan = None]
  <1>1. x \in DirWatchers /\ entry \in Nat /\ DirOK(x, entry)
    BY RescansEach DEF WorkerInv, WorkerTypes
  <1>2. /\ x.scan \notin {None, Sent} /\ dir' = [dir EXCEPT ![d] = v]
        /\ UNCHANGED <<entry, file, feed, refs, page, up, down>>
    BY DEF W!ScanArrives
  <1>3. x.scan \in Listings
    BY <1>1, <1>2 DEF DirWatchers
  <1>4. v \in DirWatchers /\ v.at = dir[d].at /\ DirOK(v, entry)
    BY <1>1, <1>3, DirListed
  <1> HIDE DEF v
  <1> QED BY <1>2, <1>4, DirStays

\* fs.watchFile.
LEMMA WatchFileStep ==
  ASSUME WorkerInv, NEW f \in Files, W!WatchFile(f)
  PROVE  WorkerInv'
  <1> DEFINE c == ~ feed.covered
             v == [file[f] EXCEPT !.at = "on", !.seed = Sent, !.timer = c]
  <1>1. WorkerTypes /\ Rescans /\ NoticesTrue /\ FeedInv /\ Polls /\ Held
    BY DEF WorkerInv
  <1>2. /\ file[f].at = "off" /\ file' = [file EXCEPT ![f] = v] /\ refs' = refs + 1 /\ W!EnsureFeed
        /\ UNCHANGED <<entry, dir, page, down>>
    BY DEF W!WatchFile
  <1>3. file[f] \in FileWatchers /\ c \in BOOLEAN
    BY <1>1 DEF WorkerTypes, Feeds
  <1> HIDE DEF c
  <1>4. v \in FileWatchers /\ v.at = "on" /\ v.timer = c
    BY <1>3, FileWatched
  <1> HIDE DEF v
  <1>5. TimerOK(v, feed.covered)
    BY <1>4 DEF TimerOK, W!On, c
  <1>6. /\ file' \in [Files -> FileWatchers] /\ file'[f] = v
        /\ \A g \in Files : g # f => file'[g] = file[g]
        /\ feed'.covered = feed.covered => Polls'
    BY <1>1, <1>2, <1>4, <1>5, FileMoves
  <1>7. f \notin W!Handlers
    BY <1>2, HandlersIn DEF W!On
  <1>8. W!Handlers' = W!Handlers \cup {f}
    <2>1. \A g \in Files : W!On(file'[g]) <=> (g = f \/ W!On(file[g]))
      BY <1>2, <1>4, <1>6 DEF W!On
    <2>2. \A d \in Dirs : W!On(dir'[d]) <=> (d = f \/ W!On(dir[d]))
      BY <1>2, FeedAssumption
    <2> QED BY <1>7, <2>1, <2>2, HandlersJoin
  <1>9. Held' /\ refs' \in Nat
    BY <1>1, <1>2, <1>7, <1>8, HeldJoin
  <1>10. /\ FeedInv' /\ feed' \in Feeds /\ up' \in Seq({"subscribe", "close"})
         /\ feed'.covered = feed.covered
    BY <1>1, <1>2, <1>8, FeedJoin
  <1>11. WorkerTypes'
    BY <1>1, <1>2, <1>6, <1>9, <1>10 DEF WorkerTypes
  <1>12. NoticesTrue' /\ Rescans'
    BY <1>1, <1>2 DEF NoticesTrue, Rescans
  <1> QED BY <1>6, <1>9, <1>10, <1>11, <1>12 DEF WorkerInv

\* fs.unwatchFile.
LEMMA StopStep ==
  ASSUME WorkerInv, NEW f \in Files, W!Stop(f)
  PROVE  WorkerInv'
  <1> DEFINE v == [file[f] EXCEPT !.at = "closed", !.timer = FALSE]
  <1>1. WorkerTypes /\ Rescans /\ NoticesTrue /\ FeedInv /\ Polls /\ Held
    BY DEF WorkerInv
  <1>2. /\ W!On(file[f]) /\ file' = [file EXCEPT ![f] = v] /\ refs' = refs - 1 /\ W!Leave(f)
        /\ UNCHANGED <<entry, dir, page, down>>
    BY DEF W!Stop
  <1>3. file[f] \in FileWatchers
    BY <1>1 DEF WorkerTypes
  <1>4. v \in FileWatchers /\ v.at = "closed" /\ ~ v.timer
    BY <1>3, FileStopped
  <1> HIDE DEF v
  <1>5. TimerOK(v, feed.covered)
    BY <1>4 DEF TimerOK, W!On
  <1>6. /\ file' \in [Files -> FileWatchers] /\ file'[f] = v
        /\ \A g \in Files : g # f => file'[g] = file[g]
        /\ feed'.covered = feed.covered => Polls'
    BY <1>1, <1>2, <1>4, <1>5, FileMoves
  <1>7. f \in W!Handlers
    BY <1>2, HandlersIn
  <1>8. W!Handlers' = W!Handlers \ {f}
    <2>1. \A g \in Files : W!On(file'[g]) <=> (g # f /\ W!On(file[g]))
      BY <1>4, <1>6 DEF W!On
    <2>2. \A d \in Dirs : W!On(dir'[d]) <=> (d # f /\ W!On(dir[d]))
      BY <1>2, FeedAssumption
    <2> QED BY <1>7, <2>1, <2>2, HandlersLeave
  <1>9. Held' /\ refs' \in Nat
    BY <1>1, <1>2, <1>7, <1>8, HeldLeave
  <1>10. /\ FeedInv' /\ feed' \in Feeds /\ up' \in Seq({"subscribe", "close"})
         /\ W!Handlers' # {} => feed'.covered = feed.covered
    BY <1>1, <1>2, <1>7, <1>8, FeedLeave
  <1>11. Polls'
    <2>1. CASE W!Handlers' # {}
      BY <1>6, <1>10, <2>1
    <2>2. CASE W!Handlers' = {}
      <3>1. \A g \in Files : g # f => ~ W!On(file[g])
        BY <1>8, <2>2, HandlersIn
      <3>2. \A g \in Files : ~ W!On(file'[g]) /\ ~ file'[g].timer
        BY <1>1, <1>4, <1>6, <3>1 DEF Polls, W!On
      <3> QED BY <3>2 DEF Polls
    <2> QED BY <2>1, <2>2
  <1>12. WorkerTypes'
    BY <1>1, <1>2, <1>6, <1>9, <1>10 DEF WorkerTypes
  <1>13. NoticesTrue' /\ Rescans'
    BY <1>1, <1>2 DEF NoticesTrue, Rescans
  <1> QED BY <1>9, <1>10, <1>11, <1>12, <1>13 DEF WorkerInv

\* A step of a watcher of a file by which nobody comes or goes.
LEMMA FileStays ==
  ASSUME WorkerInv, NEW f \in Files, NEW v \in FileWatchers, file' = [file EXCEPT ![f] = v],
         v.at = file[f].at, v.timer = file[f].timer,
         UNCHANGED <<entry, dir, feed, refs, page, up, down>>
  PROVE  WorkerInv'
  <1>1. WorkerTypes /\ Rescans /\ NoticesTrue /\ FeedInv /\ Polls /\ Held
    BY DEF WorkerInv
  <1>2. TimerOK(v, feed.covered)
    BY <1>1, PollsEach DEF TimerOK, W!On
  <1>3. /\ file' \in [Files -> FileWatchers] /\ file'[f] = v /\ Polls'
        /\ \A g \in Files : g # f => file'[g] = file[g]
    BY <1>1, <1>2, FileMoves
  <1>4. W!Handlers' = W!Handlers
    <2>1. \A g \in Files : W!On(file'[g]) <=> W!On(file[g])
      BY <1>3 DEF W!On
    <2> QED BY <2>1, HandlersSame
  <1>5. FeedInv' /\ Held'
    BY <1>1, <1>4, FeedSame, HeldSame
  <1>6. Rescans' /\ NoticesTrue'
    BY <1>1 DEF Rescans, NoticesTrue
  <1>7. WorkerTypes'
    BY <1>1, <1>3 DEF WorkerTypes
  <1> QED BY <1>3, <1>5, <1>6, <1>7 DEF WorkerInv

\* The stats of a watched file, and its timer.
LEMMA FileStepStep ==
  ASSUME WorkerInv, NEW f \in Files, W!FileStep(f)
  PROVE  WorkerInv'
  <1> DEFINE x == file[f]
  <1>1. x \in FileWatchers /\ entry \in Nat
    BY DEF WorkerInv, WorkerTypes
  <1>2. UNCHANGED <<entry, dir, feed, refs, page, up, down>>
    BY DEF W!FileStep, W!StatRead, W!SeedArrives, W!CheckArrives, W!TimerTick
  <1>3. CASE W!StatRead(f)
    <2> DEFINE v == [x EXCEPT !.seed = entry]
               c == [x EXCEPT !.check = entry]
    <2>1. file' = [file EXCEPT ![f] = v] \/ file' = [file EXCEPT ![f] = c]
      BY <1>3 DEF W!StatRead
    <2>2. /\ v \in FileWatchers /\ v.at = x.at /\ v.timer = x.timer
          /\ c \in FileWatchers /\ c.at = x.at /\ c.timer = x.timer
      BY <1>1, FileRead
    <2> HIDE DEF v, c
    <2>3. CASE file' = [file EXCEPT ![f] = v]
      BY <1>2, <2>2, <2>3, FileStays
    <2>4. CASE file' = [file EXCEPT ![f] = c]
      BY <1>2, <2>2, <2>4, FileStays
    <2> QED BY <2>1, <2>3, <2>4
  <1>4. CASE W!SeedArrives(f)
    <2> DEFINE p == IF W!On(x) /\ x.prev = None THEN x.seed ELSE x.prev
               v == [x EXCEPT !.seed = None, !.prev = p]
    <2>1. x.seed \in Nat /\ file' = [file EXCEPT ![f] = v]
      BY <1>4 DEF W!SeedArrives
    <2>2. p \in Nat \cup {None}
      BY <1>1, <2>1 DEF FileWatchers
    <2> HIDE DEF p
    <2>3. v \in FileWatchers /\ v.at = x.at /\ v.timer = x.timer
      BY <1>1, <2>2, FileSeeded
    <2> HIDE DEF v
    <2> QED BY <1>2, <2>1, <2>3, FileStays
  <1>5. CASE W!CheckArrives(f)
    <2> DEFINE p == IF W!On(x) THEN x.check ELSE x.prev
               v == [x EXCEPT !.check = None, !.prev = p]
    <2>1. x.check \in Nat /\ file' = [file EXCEPT ![f] = v]
      BY <1>5 DEF W!CheckArrives
    <2>2. p \in Nat \cup {None}
      BY <1>1, <2>1 DEF FileWatchers
    <2> HIDE DEF p
    <2>3. v \in FileWatchers /\ v.at = x.at /\ v.timer = x.timer
      BY <1>1, <2>2, FileChecked
    <2> HIDE DEF v
    <2> QED BY <1>2, <2>1, <2>3, FileStays
  <1>6. CASE W!TimerTick(f)
    <2> DEFINE v == W!Check(x)
    <2>1. file' = [file EXCEPT ![f] = v]
      BY <1>6 DEF W!TimerTick
    <2>2. v \in FileWatchers /\ v.at = x.at /\ v.timer = x.timer
      BY <1>1, FileAsked
    <2> HIDE DEF v
    <2> QED BY <1>2, <2>1, <2>2, FileStays
  <1> QED BY <1>3, <1>4, <1>5, <1>6 DEF W!FileStep

-----------------------------------------------------------------------------
(* What the page says and what arrives of it *)

\* A step that no watcher takes.
LEMMA WatchersStay ==
  ASSUME WorkerInv, UNCHANGED <<dir, file, feed, refs>>, entry' \in Nat, entry' >= entry,
         FeedInv', NoticesTrue', down' \in Seq(Words), up' \in Seq({"subscribe", "close"}),
         page' \in [attached : BOOLEAN, covered : BOOLEAN, moved : BOOLEAN]
  PROVE  WorkerInv'
  <1>1. WorkerTypes /\ Rescans /\ Polls /\ Held
    BY DEF WorkerInv
  <1>2. WorkerTypes'
    BY <1>1 DEF WorkerTypes
  <1>3. Rescans'
    <2>1. \A d \in Dirs : dir[d].due \in Nat
      BY <1>1 DEF WorkerTypes, DirWatchers
    <2>2. entry \in Nat
      BY <1>1 DEF WorkerTypes
    <2>3. \A d \in Dirs : dir[d].due <= entry'
      BY <1>1, <2>1, <2>2 DEF Rescans
    <2> QED BY <1>1, <2>3 DEF Rescans
  <1>4. W!Handlers' = W!Handlers
    BY HandlersSame
  <1>5. Held' /\ Polls'
    BY <1>1, <1>4, HeldSame, PollsStay
  <1> QED BY <1>2, <1>3, <1>5 DEF WorkerInv

\* The entry changes.
LEMMA ChangeStep ==
  ASSUME WorkerInv, W!Change
  PROVE  WorkerInv'
  <1> DEFINE m == <<"event", entry + 1>>
  <1>1. WorkerTypes /\ NoticesTrue /\ FeedInv
    BY DEF WorkerInv
  <1>2. /\ entry \in Nat /\ page \in [attached : BOOLEAN, covered : BOOLEAN, moved : BOOLEAN]
        /\ up \in Seq({"subscribe", "close"}) /\ down \in Seq(Words)
    BY <1>1 DEF WorkerTypes
  <1>3. entry' = entry + 1 /\ UNCHANGED <<dir, file, feed, refs, up>>
    BY DEF W!Change
  <1>4. entry' \in Nat /\ entry' >= entry
    BY <1>2, <1>3
  <1>5. W!Handlers' = W!Handlers
    BY <1>3, HandlersSame
  <1>6. \A i \in DOMAIN down : down[i][1] = "stale" => down[i][2] <= entry + 1
    <2>1. ASSUME NEW i \in DOMAIN down, down[i][1] = "stale" PROVE down[i][2] \in Nat
      <3>1. down[i] \in Words
        BY <1>2, <2>1
      <3> QED BY <2>1, <3>1 DEF Words
    <2> QED BY <1>1, <1>2, <2>1 DEF NoticesTrue
  <1>7. CASE W!Push(m) /\ page' = page
    <2>1. m \in Words /\ m[1] # "reply" /\ m[1] # "stale" /\ ~ Says(m)
      BY <1>2 DEF Words, Says
    <2> HIDE DEF m
    <2>2. /\ FeedInv' /\ down' \in Seq(Words)
          /\ \A i \in DOMAIN down' : down'[i][1] = "stale" => down'[i][2] <= entry + 1
      BY <1>1, <1>3, <1>5, <1>6, <1>7, <2>1, FeedPush
    <2>3. NoticesTrue'
      BY <1>3, <2>2 DEF NoticesTrue
    <2> QED BY <1>2, <1>3, <1>4, <1>7, <2>2, <2>3, WatchersStay
  <1>8. CASE page' = [page EXCEPT !.moved = TRUE] /\ down' = down
    <2>1. /\ page' \in [attached : BOOLEAN, covered : BOOLEAN, moved : BOOLEAN]
          /\ page'.attached = page.attached /\ page'.covered = page.covered
      BY <1>2, <1>8
    <2>2. FeedInv'
      BY <1>1, <1>3, <1>5, <1>8, <2>1 DEF FeedInv, Ends, FeedOpen, CoverKnown
    <2>3. NoticesTrue'
      BY <1>3, <1>6, <1>8 DEF NoticesTrue
    <2> QED BY <1>2, <1>3, <1>4, <1>8, <2>1, <2>2, <2>3, WatchersStay
  <1> QED BY <1>7, <1>8 DEF W!Change

\* The page says that something changed.
LEMMA NoticeStep ==
  ASSUME WorkerInv, W!Notice
  PROVE  WorkerInv'
  <1> DEFINE m == <<"stale", entry>>
  <1>1. WorkerTypes /\ NoticesTrue /\ FeedInv
    BY DEF WorkerInv
  <1>2. /\ entry \in Nat /\ page \in [attached : BOOLEAN, covered : BOOLEAN, moved : BOOLEAN]
        /\ up \in Seq({"subscribe", "close"})
    BY <1>1 DEF WorkerTypes
  <1>3. W!Push(m) /\ UNCHANGED <<entry, dir, file, feed, refs, up>>
    BY DEF W!Notice
  <1>4. /\ page' \in [attached : BOOLEAN, covered : BOOLEAN, moved : BOOLEAN]
        /\ page'.attached = page.attached /\ page'.covered = page.covered
    BY <1>2 DEF W!Notice
  <1>5. W!Handlers' = W!Handlers
    BY <1>3, HandlersSame
  <1>6. m \in Words /\ m[1] # "reply" /\ ~ Says(m) /\ m[2] <= entry
    BY <1>2 DEF Words, Says
  <1> HIDE DEF m
  <1>7. /\ FeedInv' /\ down' \in Seq(Words)
        /\ \A i \in DOMAIN down' : down'[i][1] = "stale" => down'[i][2] <= entry
    BY <1>1, <1>3, <1>4, <1>5, <1>6, FeedPush DEF NoticesTrue
  <1>8. NoticesTrue'
    BY <1>3, <1>7 DEF NoticesTrue
  <1>9. entry' \in Nat /\ entry' >= entry
    BY <1>2, <1>3
  <1> QED BY <1>2, <1>3, <1>4, <1>7, <1>8, <1>9, WatchersStay

\* What covers the page comes or goes.
LEMMA TurnStep ==
  ASSUME WorkerInv, W!Turn
  PROVE  WorkerInv'
  <1> DEFINE m == <<"state", ~ page.covered>>
  <1>1. WorkerTypes /\ NoticesTrue /\ FeedInv
    BY DEF WorkerInv
  <1>2. /\ entry \in Nat /\ page \in [attached : BOOLEAN, covered : BOOLEAN, moved : BOOLEAN]
        /\ up \in Seq({"subscribe", "close"})
    BY <1>1 DEF WorkerTypes
  <1>3. W!Push(m) /\ UNCHANGED <<entry, dir, file, feed, refs, up>>
    BY DEF W!Turn
  <1>4. /\ page' \in [attached : BOOLEAN, covered : BOOLEAN, moved : BOOLEAN]
        /\ page'.attached = page.attached /\ page'.covered = ~ page.covered
    <2>1. page' = [page EXCEPT !.covered = ~ page.covered]
      BY DEF W!Turn
    <2> DEFINE c == ~ page.covered
    <2>2. c \in BOOLEAN /\ page' = [page EXCEPT !.covered = c]
      BY <2>1
    <2> HIDE DEF c
    <2>3. /\ page' \in [attached : BOOLEAN, covered : BOOLEAN, moved : BOOLEAN]
          /\ page'.attached = page.attached /\ page'.covered = c
      BY <1>2, <2>2
    <2> QED BY <2>3 DEF c
  <1>5. W!Handlers' = W!Handlers
    BY <1>3, HandlersSame
  <1>6. m \in Words /\ m[1] = "state" /\ m[1] # "reply" /\ m[1] # "stale" /\ Says(m)
    <2> DEFINE c == ~ page.covered
    <2>1. c \in BOOLEAN /\ m = <<"state", c>>
      OBVIOUS
    <2> HIDE DEF c, m
    <2> QED BY <2>1 DEF Words, Says
  <1>7. page'.covered = m[2]
    BY <1>4
  <1> HIDE DEF m
  <1>8. /\ FeedInv' /\ down' \in Seq(Words)
        /\ \A i \in DOMAIN down' : down'[i][1] = "stale" => down'[i][2] <= entry
    BY <1>1, <1>3, <1>4, <1>5, <1>6, <1>7, FeedPush DEF NoticesTrue
  <1>9. NoticesTrue'
    BY <1>3, <1>8 DEF NoticesTrue
  <1>10. entry' \in Nat /\ entry' >= entry
    BY <1>2, <1>3
  <1> QED BY <1>2, <1>3, <1>4, <1>8, <1>9, <1>10, WatchersStay

\* The page takes a message.
LEMMA PageHearsStep ==
  ASSUME WorkerInv, W!PageHears
  PROVE  WorkerInv'
  <1>1. WorkerTypes /\ NoticesTrue /\ FeedInv /\ entry \in Nat
    BY DEF WorkerInv, WorkerTypes
  <1>2. UNCHANGED <<entry, dir, file, feed, refs>>
    BY DEF W!PageHears
  <1>3. W!Handlers' = W!Handlers
    BY <1>2, HandlersSame
  <1>4. /\ FeedInv' /\ up' \in Seq({"subscribe", "close"}) /\ down' \in Seq(Words)
        /\ page' \in [attached : BOOLEAN, covered : BOOLEAN, moved : BOOLEAN]
        /\ \A i \in DOMAIN down' : down'[i][1] = "stale" => down'[i][2] <= entry
    BY <1>1, <1>3, FeedHears DEF NoticesTrue
  <1>5. NoticesTrue'
    BY <1>2, <1>4 DEF NoticesTrue
  <1>6. entry' \in Nat /\ entry' >= entry
    BY <1>1, <1>2
  <1> QED BY <1>2, <1>4, <1>5, <1>6, WatchersStay

\* The watchers of files stay on and off as they were.
LEMMA FilesStay ==
  ASSUME UNCHANGED dir, \A f \in Files : file'[f].at = file[f].at
  PROVE  W!Handlers' = W!Handlers
BY HandlersSame DEF W!On

\* Every watcher of a file asks.
LEMMA FilesAsk ==
  ASSUME WorkerInv, file' = [f \in Files |-> W!Check(file[f])], feed' = feed
  PROVE  /\ file' \in [Files -> FileWatchers] /\ Polls'
         /\ \A f \in Files : file'[f].at = file[f].at
  <1>1. file \in [Files -> FileWatchers] /\ Polls
    BY DEF WorkerInv, WorkerTypes
  <1>2. \A f \in Files : /\ file'[f] \in FileWatchers /\ file'[f].at = file[f].at
                         /\ file'[f].timer = file[f].timer
    BY <1>1, FileAsked
  <1>3. file' \in [Files -> FileWatchers]
    <2>1. \A f \in Files : W!Check(file[f]) \in FileWatchers
      BY <1>1, FileAsked
    <2> QED BY <2>1
  <1> QED BY <1>1, <1>2, <1>3 DEF Polls, W!On

\* Every watcher of a file polls or stops polling.
LEMMA FilesTime ==
  ASSUME WorkerInv, NEW c \in BOOLEAN, feed'.covered = c,
         file' = IF feed.covered = c THEN file ELSE W!Timers(c)
  PROVE  /\ file' \in [Files -> FileWatchers] /\ Polls'
         /\ \A f \in Files : file'[f].at = file[f].at
  <1>1. file \in [Files -> FileWatchers] /\ Polls
    BY DEF WorkerInv, WorkerTypes
  <1>2. CASE feed.covered = c
    BY <1>1, <1>2 DEF Polls
  <1>3. CASE feed.covered # c
    <2> DEFINE n == ~ c
    <2>1. n \in BOOLEAN /\ file' = [f \in Files |-> IF W!On(file[f]) THEN [file[f] EXCEPT !.timer = n]
                                                                  ELSE file[f]]
      BY <1>3 DEF W!Timers
    <2> HIDE DEF n
    <2>2. \A f \in Files : LET v == [file[f] EXCEPT !.timer = n]
                           IN v \in FileWatchers /\ v.at = file[f].at /\ v.timer = n
      BY <1>1, <2>1, FileTimed
    <2>3. \A f \in Files : (IF W!On(file[f]) THEN [file[f] EXCEPT !.timer = n] ELSE file[f]) \in FileWatchers
      BY <1>1, <2>2
    <2>4. file' \in [Files -> FileWatchers]
      BY <2>1, <2>3
    <2>5. ASSUME NEW f \in Files
          PROVE  /\ file'[f].at = file[f].at
                 /\ W!On(file[f]) => file'[f].timer = n
                 /\ ~ W!On(file[f]) => file'[f] = file[f]
      <3> DEFINE v == [file[f] EXCEPT !.timer = n]
      <3>1. v.at = file[f].at /\ v.timer = n
        BY <2>2
      <3>2. file'[f] = IF W!On(file[f]) THEN v ELSE file[f]
        BY <2>1
      <3> HIDE DEF v
      <3> QED BY <3>1, <3>2
    <2>6. Polls'
      BY <1>1, <2>5 DEF Polls, W!On, n
    <2> QED BY <2>4, <2>5, <2>6
  <1> QED BY <1>2, <1>3

\* A step by which nobody comes or goes and no directory is noticed.
LEMMA RunStays ==
  ASSUME WorkerInv, UNCHANGED <<entry, dir, refs, page>>, file' \in [Files -> FileWatchers], Polls',
         W!Handlers' = W!Handlers, FeedInv', feed' \in Feeds,
         down' \in Seq(Words), up' \in Seq({"subscribe", "close"}),
         \A i \in DOMAIN down' : down'[i][1] = "stale" => down'[i][2] <= entry
  PROVE  WorkerInv'
  <1>1. WorkerTypes /\ Rescans /\ Held
    BY DEF WorkerInv
  <1>2. WorkerTypes' /\ Rescans' /\ NoticesTrue'
    BY <1>1 DEF WorkerTypes, Rescans, NoticesTrue
  <1> QED BY <1>1, <1>2, HeldSame DEF WorkerInv

\* The worker takes an event,
LEMMA OnEventStep ==
  ASSUME WorkerInv, W!OnEvent
  PROVE  WorkerInv'
  <1>1. WorkerTypes /\ NoticesTrue /\ FeedInv /\ feed \in Feeds /\ up \in Seq({"subscribe", "close"})
    BY DEF WorkerInv, WorkerTypes
  <1>2. /\ down # <<>> /\ Head(down)[1] = "event" /\ down' = Tail(down)
        /\ file' = [f \in Files |-> W!Check(file[f])]
        /\ UNCHANGED <<entry, dir, feed, refs, page, up>>
    BY DEF W!OnEvent, W!Heard
  <1>3. /\ file' \in [Files -> FileWatchers] /\ Polls'
        /\ \A f \in Files : file'[f].at = file[f].at
    BY <1>2, FilesAsk
  <1>4. W!Handlers' = W!Handlers
    BY <1>2, <1>3, FilesStay
  <1>5. Head(down)[1] # "reply" /\ ~ Says(Head(down))
    BY <1>2 DEF Says
  <1>6. /\ FeedInv' /\ down' \in Seq(Words)
        /\ \A i \in DOMAIN down' : down'[i][1] = "stale" => down'[i][2] <= entry
    BY <1>1, <1>2, <1>4, <1>5, FeedPop DEF NoticesTrue
  <1> QED BY <1>1, <1>2, <1>3, <1>4, <1>6, RunStays

\* a state,
LEMMA OnStateStep ==
  ASSUME WorkerInv, W!OnState
  PROVE  WorkerInv'
  <1> DEFINE b == Head(down)[2]
  <1>1. /\ WorkerTypes /\ NoticesTrue /\ FeedInv /\ feed \in Feeds /\ up \in Seq({"subscribe", "close"})
        /\ down \in Seq(Words)
    BY DEF WorkerInv, WorkerTypes
  <1>2. /\ down # <<>> /\ Head(down)[1] = "state" /\ down' = Tail(down)
        /\ feed' = [feed EXCEPT !.covered = b]
        /\ file' = IF feed.covered = b THEN file ELSE W!Timers(b)
        /\ UNCHANGED <<entry, dir, refs, page, up>>
    BY DEF W!OnState, W!Heard, W!SetState
  <1>3. b \in BOOLEAN
    BY <1>1, <1>2, FirstOf DEF Words
  <1>4. Head(down)[1] # "reply" /\ Says(Head(down))
    BY <1>2 DEF Says
  <1>5. /\ feed' \in Feeds /\ feed'.subscribed = feed.subscribed /\ feed'.opening = feed.opening
        /\ feed'.covered = b
    BY <1>1, <1>2, <1>3 DEF Feeds
  <1>6. /\ file' \in [Files -> FileWatchers] /\ Polls'
        /\ \A f \in Files : file'[f].at = file[f].at
    BY <1>2, <1>3, <1>5, FilesTime
  <1>7. W!Handlers' = W!Handlers
    BY <1>2, <1>6, FilesStay
  <1>8. /\ FeedInv' /\ down' \in Seq(Words)
        /\ \A i \in DOMAIN down' : down'[i][1] = "stale" => down'[i][2] <= entry
    BY <1>1, <1>2, <1>4, <1>5, <1>7, FeedPop DEF NoticesTrue
  <1> QED BY <1>1, <1>2, <1>5, <1>6, <1>7, <1>8, RunStays

\* the reply to its subscription,
LEMMA OnReplyStep ==
  ASSUME WorkerInv, W!OnReply
  PROVE  WorkerInv'
  <1> DEFINE b == Head(down)[2]
  <1>1. /\ WorkerTypes /\ NoticesTrue /\ FeedInv /\ Polls /\ file \in [Files -> FileWatchers]
        /\ down \in Seq(Words)
    BY DEF WorkerInv, WorkerTypes
  <1>2. /\ down # <<>> /\ Head(down)[1] = "reply" /\ UNCHANGED <<entry, dir, refs, page>>
    BY DEF W!OnReply, W!Heard
  <1>3. b \in BOOLEAN
    BY <1>1, <1>2, FirstOf DEF Words
  <1>4. W!Handlers # {} => feed'.covered = b /\ file' = IF feed.covered = b THEN file ELSE W!Timers(b)
    <2>1. ASSUME W!Handlers # {} PROVE /\ feed' = [[feed EXCEPT !.opening = FALSE, !.subscribed = TRUE] EXCEPT !.covered = b]
                                       /\ file' = IF feed.covered = b THEN file ELSE W!Timers(b)
      BY <2>1 DEF W!OnReply, W!SetState
    <2>2. feed \in Feeds
      BY <1>1 DEF WorkerTypes
    <2> QED BY <2>1, <2>2 DEF Feeds
  <1>5. W!Handlers = {} => file' = file /\ \A f \in Files : ~ W!On(file[f])
    BY HandlersIn DEF W!OnReply
  <1>6. /\ file' \in [Files -> FileWatchers] /\ Polls'
        /\ \A f \in Files : file'[f].at = file[f].at
    <2>1. CASE W!Handlers = {}
      BY <1>1, <1>5, <2>1, PollsStay
    <2>2. CASE W!Handlers # {}
      BY <1>3, <1>4, <2>2, FilesTime
    <2> QED BY <2>1, <2>2
  <1>7. W!Handlers' = W!Handlers
    BY <1>2, <1>6, FilesStay
  <1>8. /\ FeedInv' /\ down' \in Seq(Words) /\ feed' \in Feeds /\ up' \in Seq({"subscribe", "close"})
        /\ \A i \in DOMAIN down' : down'[i][1] = "stale" => down'[i][2] <= entry
    BY <1>1, <1>7, FeedReply DEF NoticesTrue
  <1> QED BY <1>2, <1>6, <1>7, <1>8, RunStays

\* or a stale notice, at which the directories are listed anew.
LEMMA OnStaleStep ==
  ASSUME WorkerInv, W!OnStale
  PROVE  WorkerInv'
  <1> DEFINE k == Head(down)[2]
             V(d) == IF W!On(dir[d]) THEN [W!Rescan(dir[d]) EXCEPT !.due = k] ELSE dir[d]
  <1>1. /\ WorkerTypes /\ NoticesTrue /\ FeedInv /\ feed \in Feeds /\ up \in Seq({"subscribe", "close"})
        /\ down \in Seq(Words) /\ entry \in Nat /\ dir \in [Dirs -> DirWatchers] /\ Held
        /\ \A d \in Dirs : DirOK(dir[d], entry)
    BY RescansEach DEF WorkerInv, WorkerTypes
  <1>2. /\ down # <<>> /\ Head(down)[1] = "stale" /\ down' = Tail(down)
        /\ file' = [f \in Files |-> W!Check(file[f])]
        /\ dir' = [d \in Dirs |-> V(d)]
        /\ UNCHANGED <<entry, feed, refs, page, up>>
    BY DEF W!OnStale, W!Heard
  <1>3. k \in Nat /\ k <= entry
    <2>1. 1 \in DOMAIN down /\ Head(down) = down[1] /\ Head(down) \in Words
      BY <1>1, <1>2, FirstOf
    <2> QED BY <1>1, <1>2, <2>1 DEF NoticesTrue, Words
  <1> HIDE DEF k
  <1>4. \A d \in Dirs : V(d) \in DirWatchers /\ V(d).at = dir[d].at /\ DirOK(V(d), entry)
    <2> SUFFICES ASSUME NEW d \in Dirs
                 PROVE  V(d) \in DirWatchers /\ V(d).at = dir[d].at /\ DirOK(V(d), entry)
      OBVIOUS
    <2>1. CASE W!On(dir[d])
      BY <1>1, <1>3, <2>1, DirNoticed
    <2>2. CASE ~ W!On(dir[d])
      BY <1>1, <2>2
    <2> QED BY <2>1, <2>2
  <1> HIDE DEF V
  <1>5. /\ dir' \in [Dirs -> DirWatchers]
        /\ \A d \in Dirs : dir'[d].at = dir[d].at /\ DirOK(dir'[d], entry)
    BY <1>2, <1>4
  <1>6. Rescans'
    BY <1>2, <1>5 DEF Rescans, DirOK
  <1>7. /\ file' \in [Files -> FileWatchers] /\ Polls'
        /\ \A f \in Files : file'[f].at = file[f].at
    BY <1>2, FilesAsk
  <1>8. W!Handlers' = W!Handlers
    BY <1>5, <1>7, HandlersSame DEF W!On
  <1>9. Head(down)[1] # "reply" /\ ~ Says(Head(down))
    BY <1>2 DEF Says
  <1>10. /\ FeedInv' /\ down' \in Seq(Words)
         /\ \A i \in DOMAIN down' : down'[i][1] = "stale" => down'[i][2] <= entry
    BY <1>1, <1>2, <1>8, <1>9, FeedPop DEF NoticesTrue
  <1>11. Held' /\ NoticesTrue'
    BY <1>1, <1>2, <1>8, <1>10, HeldSame DEF NoticesTrue
  <1>12. WorkerTypes'
    BY <1>1, <1>2, <1>5, <1>7, <1>10 DEF WorkerTypes
  <1> QED BY <1>6, <1>7, <1>10, <1>11, <1>12 DEF WorkerInv

-----------------------------------------------------------------------------
(* The worker as a whole *)

\* A worker that watches nothing holds WorkerInv.
LEMMA WorkerInit == Init => WorkerInv
  <1> SUFFICES ASSUME Init PROVE WorkerInv
    OBVIOUS
  <1>1. W!Init
    BY DEF Init
  <1>2. WorkerTypes
    <2>1. dir \in [Dirs -> DirWatchers] /\ file \in [Files -> FileWatchers] /\ feed \in Feeds
      BY <1>1 DEF W!Init, DirWatchers, FileWatchers, Feeds
    <2>2. /\ page \in [attached : BOOLEAN, covered : BOOLEAN, moved : BOOLEAN]
          /\ entry \in Nat /\ refs \in Nat
      BY <1>1 DEF W!Init
    <2>3. up \in Seq({"subscribe", "close"}) /\ down \in Seq(Words)
      BY <1>1 DEF W!Init
    <2> QED BY <2>1, <2>2, <2>3 DEF WorkerTypes
  <1>3. /\ \A d \in Dirs : /\ dir[d].at = "off" /\ dir[d].scan = None /\ ~ dir[d].again /\ dir[d].due = 0
        /\ \A f \in Files : file[f].at = "off" /\ ~ file[f].timer
        /\ entry = 0 /\ refs = 0
    BY <1>1 DEF W!Init
  <1>4. Rescans
    BY <1>3 DEF Rescans, W!On
  <1>5. NoticesTrue
    BY <1>1 DEF W!Init, NoticesTrue
  <1>6. Polls
    BY <1>3 DEF Polls, W!On
  <1>7. W!Handlers = {}
    BY <1>3 DEF W!Handlers, W!On
  <1>8. Held
    BY <1>3, <1>7, FS_EmptySet DEF Held
  <1>9. FeedInv
    <2>1. up = <<>> /\ down = <<>>
      BY <1>1 DEF W!Init
    <2>2. feed.opening = FALSE /\ feed.subscribed = FALSE
      BY <1>1 DEF W!Init
    <2>3. page \in [attached : {FALSE}, covered : BOOLEAN, moved : {FALSE}]
      BY <1>1 DEF W!Init
    <2>4. page.attached = FALSE
      BY <2>3
    <2>5. Replies(down) = {}
      BY <2>1 DEF Replies
    <2>6. Ends
      BY <2>1, <2>2, <2>4, <2>5 DEF Ends
    <2>7. FeedOpen /\ CoverKnown
      BY <1>7, <2>2, <2>4, <2>5 DEF FeedOpen, CoverKnown
    <2> QED BY <2>6, <2>7 DEF FeedInv
  <1> QED BY <1>2, <1>4, <1>5, <1>6, <1>8, <1>9 DEF WorkerInv

\* Every step of the worker and of what the page does to it keeps it.
LEMMA WorkerStep ==
  ASSUME WorkerInv, W!Next \/ UNCHANGED watchVars
  PROVE  WorkerInv'
  <1>1. CASE UNCHANGED watchVars
    <2>1. UNCHANGED <<entry, dir, file, feed, refs, page, up, down>>
      BY <1>1 DEF watchVars
    <2>2. W!Handlers' = W!Handlers
      BY <2>1, HandlersSame
    <2> QED BY <2>1, <2>2, FeedSame, HeldSame DEF WorkerInv, WorkerTypes, Rescans, NoticesTrue, Polls
  <1>2. ASSUME NEW d \in Dirs, W!Watch(d) \/ W!Close(d) \/ W!DirStep(d) PROVE WorkerInv'
    BY <1>2, WatchStep, CloseStep, ScanReadStep, ScanArrivesStep DEF W!DirStep
  <1>3. ASSUME NEW f \in Files, W!WatchFile(f) \/ W!Stop(f) \/ W!FileStep(f) PROVE WorkerInv'
    BY <1>3, WatchFileStep, StopStep, FileStepStep
  <1>4. CASE W!Change \/ W!Notice \/ W!Turn \/ W!PageHears
    BY <1>4, ChangeStep, NoticeStep, TurnStep, PageHearsStep
  <1>5. CASE W!Arrives
    BY <1>5, OnEventStep, OnStaleStep, OnStateStep, OnReplyStep DEF W!Arrives
  <1> QED BY <1>1, <1>2, <1>3, <1>4, <1>5 DEF W!Next

\* It says what the worker promises.
LEMMA WorkerTells == WorkerInv => W!RescanCatchesUp /\ W!FeedAgrees /\ W!HoldsTrue
  <1> SUFFICES ASSUME WorkerInv PROVE W!RescanCatchesUp /\ W!FeedAgrees /\ W!HoldsTrue
    OBVIOUS
  <1>1. W!RescanCatchesUp
    BY DEF WorkerInv, Rescans, W!RescanCatchesUp
  <1>2. W!HoldsTrue
    <2>1. W!Cardinality(W!Handlers) = Cardinality(W!Handlers)
      BY DEF W!Cardinality, Cardinality
    <2> QED BY <2>1 DEF WorkerInv, Held, Polls, W!HoldsTrue
  <1>3. W!FeedAgrees
    <2> SUFFICES ASSUME up = <<>>, down = <<>>
                 PROVE  /\ ~ feed.opening
                        /\ page.attached = (W!Handlers # {}) /\ feed.subscribed = page.attached
                        /\ page.attached =>
                             /\ feed.covered = page.covered
                             /\ \A f \in Files : W!On(file[f]) => file[f].timer = ~ page.covered
      BY DEF W!FeedAgrees
    <2>1. DOMAIN down = {} /\ Replies(down) = {}
      BY DEF Replies
    <2>2. ~ feed.opening /\ page.attached = feed.subscribed
      BY <2>1, UpSteps DEF WorkerInv, WorkerTypes, Feeds, FeedInv, Ends
    <2>3. page.attached = (W!Handlers # {})
      BY <2>2 DEF WorkerInv, WorkerTypes, FeedInv, FeedOpen
    <2>4. page.attached => feed.covered = page.covered
      BY <2>1 DEF WorkerInv, FeedInv, CoverKnown, WillKnow
    <2> QED BY <2>2, <2>3, <2>4 DEF WorkerInv, Polls
  <1> QED BY <1>1, <1>2, <1>3

-----------------------------------------------------------------------------
(* The feed as a whole *)

HalvesInv == PageInv /\ WorkerInv /\ IterInv

\* All three hold from the start and through every step of the half that moves.
LEMMA HalvesInvariant == FairSpec => []HalvesInv
  <1>1. Init => HalvesInv
    <2> SUFFICES ASSUME Init PROVE HalvesInv
      OBVIOUS
    <2>1. E!Init /\ I!Init
      BY DEF Init
    <2> QED BY <2>1, PageInit, WorkerInit, IterInit DEF HalvesInv
  <1>2. ASSUME HalvesInv, [Next]_vars PROVE HalvesInv'
    <2>1. PageInv /\ WorkerInv /\ IterInv
      BY <1>2 DEF HalvesInv
    <2>2. /\ E!Next \/ UNCHANGED hubVars
          /\ W!Next \/ UNCHANGED watchVars
          /\ I!Next \/ UNCHANGED iterVars
      <3>1. CASE Page(E!Next)
        BY <3>1 DEF Page
      <3>2. CASE Worker(W!Next)
        BY <3>2 DEF Worker
      <3>3. CASE Program(I!Next)
        BY <3>3 DEF Program
      <3>4. CASE UNCHANGED vars
        BY <3>4 DEF vars
      <3> QED BY <1>2, <3>1, <3>2, <3>3, <3>4 DEF Next
    <2> QED BY <2>1, <2>2, PageStep, WorkerStep, IterStep DEF HalvesInv
  <1> QED BY <1>1, <1>2, PTL DEF FairSpec

\* No change escapes for good: whoever is level with the server was told of everything since it
\* came, a watcher of a directory that rests has looked since its newest notice, and an iterator
\* that ended has handed out everything (fsevents.ts, worker/node/fs/watch.ts).
THEOREM ChangesAreTold == FairSpec => []NothingMissed
  <1>1. HalvesInv => NothingMissed
    BY PageTells, WorkerTells, IterTells DEF HalvesInv, NothingMissed
  <1> QED BY <1>1, HalvesInvariant, PTL

\* Every subscriber was last told how the hub is, and with nothing on its way the worker and the
\* page say the same of who watches and of what covers it (worker/fsevents.ts).
THEOREM EndsDoAgree == FairSpec => []EndsAgree
  <1>1. HalvesInv => EndsAgree
    BY PageTells, WorkerTells DEF HalvesInv, EndsAgree
  <1> QED BY <1>1, HalvesInvariant, PTL

\* A hub without subscribers holds no socket and no timer, a watcher that was closed no hold on
\* the run, and an iteration that ended no watcher.
THEOREM EmptyDoesRest == FairSpec => []EmptyIsQuiet
  <1>1. HalvesInv => EmptyIsQuiet
    BY PageTells, WorkerTells, IterTells DEF HalvesInv, EmptyIsQuiet
  <1> QED BY <1>1, HalvesInvariant, PTL
=============================================================================
