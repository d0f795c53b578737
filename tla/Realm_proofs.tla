------------------------------ MODULE Realm_proofs ------------------------------
(***************************************************************************)
(* A NodeWorker from its start to its end, the timers of its program, and  *)
(* what it loads, for any number of requests, chunks, timers, immediates   *)
(* and files.                                                              *)
(*                                                                         *)
(* The worker.  What a program said, it had printed by the time its end    *)
(* was settled: by process.exit, or by its return.  Once anything the page *)
(* may act upon tells of that end (Past), or the thread has started to     *)
(* tell of it (Settling), nothing the thread still does changes what was   *)
(* said (Fixed).  That rests on the count of keepalive.ts (CountsTrue): a  *)
(* flush is an operation, so a program that is left with its flushes only  *)
(* has no callback that could exit.  And whatever tells of the end is      *)
(* behind the chunks, wherever it is (Told): as a message behind or with   *)
(* those that carry them, in the write chain behind their bytes, as an     *)
(* answer or a deadline after they were taken or written.                  *)
(*                                                                         *)
(* A step of the thread is taken from Standing, what ThreadOK says but for *)
(* Fixed; a step of the page leaves the thread as it is (PageLeaves).      *)
(*                                                                         *)
(* The loader and the resolver follow the timers: what a worker remembers  *)
(* of files and of places is what there is, for any files, any candidates  *)
(* and any tree of packages, however deep.                                 *)
(***************************************************************************)
EXTENDS Realm, TLAPS, FiniteSetTheorems, SequenceTheorems, WellFoundedInduction

-----------------------------------------------------------------------------
(* The worker *)

\* How a run ends, and what is sent between the page and the thread.
Codes == {"ok", "status", "threw"}

Messages ==
  {m \in [is : {"ready", "returned", "exiting", "exit", "flush", "stdio", "serve"},
          code : Codes, out : Nat] :
     /\ m.is \in {"ready", "returned"} => m.out = 0
     /\ m.is \in {"exiting", "exit"} => m.code = "status"}

Orders == {"init", "execute", "flushed"}

Tasks == {"stdio", "unrefs", "recheck", "exitFlush", "endFlush"}

Pages ==
  [phase : {"user", "attach", "boot", "ready", "failed"}, terminated : BOOLEAN,
   worker : {"none", "alive", "dead"}, attachment : {"none", "open", "late"},
   deadline : {None, "status"}, listening : {None, "status"}]

HostRuns == [asked : BOOLEAN, sent : BOOLEAN, result : {None, "error"} \cup Codes]

Streams == [has : Nat, taken : Nat, flushes : Seq(Nat)]

Programs ==
  [stage : {"none", "module", "unwound", "drain", "flush", "replied"}, code : {"ok", "status"},
   exit : {"no", "handlers", "flush", "asked", "told"}, wedged : BOOLEAN, graced : BOOLEAN,
   started : Nat, timed : BOOLEAN, fired : BOOLEAN, served : BOOLEAN,
   printed : Nat, said : Nat, flushes : Seq({"exit", "end"})]

Loops ==
  [refs : Nat, ops : Nat, timers : Nat, deferred : Nat, drain : {"off", "waiting", "turn", "over"},
   tasks : Seq(Tasks)]

WorkerTypes ==
  /\ page \in Pages /\ run \in HostRuns /\ owned \in {"none", "coming", "open", "closed"}
  /\ stdout \in Streams /\ program \in Programs /\ loop \in Loops
  /\ toPage \in Seq(Messages) /\ toWorker \in Seq(Orders)

\* The flushes among the messages q, and the answers to flushes among the orders w.
Flushes(q) == {i \in DOMAIN q : q[i].is = "flush"}
Answers(w) == {i \in DOMAIN w : w[i] = "flushed"}

Has(t, x) == \E i \in DOMAIN t : t[i] = x

One(b) == IF b THEN 1 ELSE 0

\* The timer of the program, and the one that bounds its exit.
Pending(p) == p.timed /\ ~ p.fired
Grace(p) == p.exit \in {"flush", "asked", "told"} /\ ~ p.graced

\* The count of keepalive.ts is that of what lives, of which each flush is an operation.
CountsTrue(p, l) ==
  /\ l.refs = l.ops + l.timers + l.deferred
  /\ l.timers = One(Pending(p)) + One(Grace(p))
  /\ l.ops >= Len(p.flushes)
  /\ p.stage = "drain" /\ l.drain = "over" => l.refs = 0
  /\ p.graced => p.exit = "told"
  /\ p.fired => p.timed

\* The flush of an exit, and that of an ending, are tasks of their own.
TasksRight(p, t) ==
  /\ \A i, j \in DOMAIN t : t[i] = "exitFlush" /\ t[j] = "exitFlush" => i = j
  /\ Has(t, "exitFlush") => p.exit = "flush"
  /\ Has(t, "endFlush") => p.stage \in {"flush", "replied"}

\* What was said is settled: nothing the thread may still do changes it.
Fixed(p, l) ==
  \/ p.exit # "no"
  \/ p.stage \in {"flush", "replied"} /\ l.ops = Len(p.flushes) /\ ~ Pending(p)

\* The thread, or what it sent, is past that.
Settling(p, t) == p.stage \in {"unwound", "flush"} \/ p.flushes # <<>> \/ Has(t, "endFlush")

Final(m) == m.is \in {"exiting", "exit", "flush"} \/ (m.is = "returned" /\ m.code # "threw")

Past(g, n, st, q, w) ==
  \/ \E i \in DOMAIN q : Final(q[i])
  \/ g.deadline # None \/ g.listening # None \/ n.result \in {"ok", "status"}
  \/ st.flushes # <<>> \/ Answers(w) # {}

\* k chunks have come to the page, or ride on a message to it.
Reaches(q, has, k) == has >= k \/ \E i \in DOMAIN q : q[i].out >= k

\* Every flush among the messages is behind k chunks.
FlushesBehind(q, has, k) ==
  \A i \in DOMAIN q : q[i].is = "flush" => has >= k \/ \E j \in DOMAIN q : j < i /\ q[j].out >= k

\* An exit takes k chunks along; a run that returned had them accepted.
SaysEnough(q, taken, k) ==
  \A i \in DOMAIN q : /\ q[i].is \in {"exiting", "exit"} => q[i].out >= k
                      /\ q[i].is = "returned" /\ q[i].code # "threw" => taken >= k

\* An ending flushes after what it printed has been sent.
TasksBehind(t, sent) ==
  \A i \in DOMAIN t : t[i] = "endFlush" => sent \/ \E j \in DOMAIN t : j < i /\ t[j] = "stdio"

\* Whatever tells of the end of a run is behind what its program had said.
Told(g, n, st, k, q, w) ==
  /\ FlushesBehind(q, st.has, k) /\ SaysEnough(q, st.taken, k)
  /\ \A i \in DOMAIN st.flushes : st.flushes[i] >= k
  /\ Answers(w) # {} => st.taken >= k
  /\ g.deadline # None \/ g.listening # None => st.has >= k
  /\ n.result = "ok" => st.taken >= k
  /\ n.result = "status" => st.has >= k

Printed(st, p, q) ==
  /\ st.taken <= st.has /\ st.has <= p.printed /\ p.said <= p.printed
  /\ \A i \in DOMAIN q : q[i].out <= p.printed

\* What is printed is on its way while the thread lives.
Carried(st, p, l, q) ==
  /\ Reaches(q, st.has, p.printed) \/ Has(l.tasks, "stdio")
  /\ p.exit # "no" => Reaches(q, st.has, p.said)
  /\ TasksBehind(l.tasks, Reaches(q, st.has, p.said))

\* No flush is answered that was not asked for.
FlushesAsked(st, p, q, w) ==
  Cardinality(Flushes(q)) + Len(st.flushes) + Cardinality(Answers(w)) <= Len(p.flushes)

\* A program is run once.
StartsOnce(n, p, w) ==
  /\ Has(w, "execute") => p.stage = "none" /\ n.sent
  /\ \A i, j \in DOMAIN w : w[i] = "execute" /\ w[j] = "execute" => i = j
  /\ ~ n.sent => p.stage = "none"
  /\ p.stage = "none" => p.exit = "no"

\* The thread in p and l, seen from a page in g, n and st with q and w between them.
ThreadOK(g, n, st, p, l, q, w) ==
  /\ CountsTrue(p, l) /\ TasksRight(p, l.tasks)
  /\ Settling(p, l.tasks) \/ Past(g, n, st, q, w) => Fixed(p, l)
  /\ Told(g, n, st, p.said, q, w) /\ Printed(st, p, q)
  /\ ~ g.terminated => Carried(st, p, l, q)
  /\ FlushesAsked(st, p, q, w) /\ StartsOnce(n, p, w)

Outlived ==
  page.terminated =>
    /\ page.worker # "alive" /\ page.phase # "boot"
    /\ page.attachment # "open"
    /\ owned # "open"
    /\ run.sent => run.result # None

WorkerInv ==
  WorkerTypes /\ Outlived /\ ThreadOK(page, run, stdout, program, loop, toPage, toWorker)

-----------------------------------------------------------------------------
(* Sequences of messages, orders and tasks *)

\* The positions of a sequence after another element is put at its end.
LEMMA AppendAt ==
  ASSUME NEW S, NEW q \in Seq(S), NEW x \in S
  PROVE  /\ Append(q, x) \in Seq(S) /\ Append(q, x) # <<>>
         /\ Len(q) \in Nat /\ Len(Append(q, x)) = Len(q) + 1
         /\ DOMAIN q = 1..Len(q) /\ DOMAIN Append(q, x) = 1..(Len(q) + 1)
         /\ DOMAIN Append(q, x) = DOMAIN q \cup {Len(q) + 1}
         /\ \A i \in DOMAIN q : Append(q, x)[i] = q[i] /\ i \in Nat /\ i # Len(q) + 1 /\ i < Len(q) + 1
         /\ Append(q, x)[Len(q) + 1] = x
  <1>1. /\ Append(q, x) \in Seq(S) /\ Append(q, x) # <<>>
        /\ Len(Append(q, x)) = Len(q) + 1
        /\ \A i \in 1..Len(q) : Append(q, x)[i] = q[i]
        /\ Append(q, x)[Len(q) + 1] = x
    BY AppendProperties
  <1>2. DOMAIN Append(q, x) = 1..Len(Append(q, x))
    BY <1>1, LenProperties
  <1> QED BY <1>1, LenProperties, <1>2

\* The positions of a sequence after its first element is taken.
LEMMA TailAt ==
  ASSUME NEW S, NEW q \in Seq(S), q # <<>>
  PROVE  /\ Tail(q) \in Seq(S) /\ Head(q) \in S /\ Head(q) = q[1] /\ 1 \in DOMAIN q
         /\ Len(q) \in Nat /\ Len(Tail(q)) = Len(q) - 1
         /\ DOMAIN q = 1..Len(q) /\ DOMAIN Tail(q) = 1..(Len(q) - 1)
         /\ \A i \in DOMAIN Tail(q) : /\ Tail(q)[i] = q[i + 1] /\ i + 1 \in DOMAIN q
                                      /\ i \in Nat /\ i # 0
         /\ \A i \in DOMAIN q : i # 1 => i - 1 \in DOMAIN Tail(q) /\ Tail(q)[i - 1] = q[i]
  <1>1. /\ Tail(q) \in Seq(S) /\ Head(q) \in S /\ Head(q) = q[1]
        /\ Len(q) \in Nat /\ Len(q) # 0 /\ Len(Tail(q)) = Len(q) - 1
        /\ \A i \in 1..Len(Tail(q)) : Tail(q)[i] = q[i + 1]
    BY HeadTailProperties, LenProperties, EmptySeq
  <1> QED BY <1>1, LenProperties

\* An element that may be put at the end is there or was before.
LEMMA HasAppend ==
  ASSUME NEW S, NEW t \in Seq(S), NEW x \in S, NEW y
  PROVE  Has(Append(t, x), y) <=> Has(t, y) \/ x = y
  BY AppendAt DEF Has

\* What is among the rest is among the whole, and all but the first remains.
LEMMA HasTail ==
  ASSUME NEW S, NEW t \in Seq(S), t # <<>>, NEW y
  PROVE  /\ Has(Tail(t), y) => Has(t, y)
         /\ Has(t, y) /\ Head(t) # y => Has(Tail(t), y)
  BY TailAt DEF Has

\* At most one y, after an element is put at the end or the first is taken.
LEMMA OneAppend ==
  ASSUME NEW S, NEW t \in Seq(S), NEW x \in S, NEW y,
         \A i, j \in DOMAIN t : t[i] = y /\ t[j] = y => i = j,
         x = y => ~ Has(t, y)
  PROVE  \A i, j \in DOMAIN Append(t, x) : Append(t, x)[i] = y /\ Append(t, x)[j] = y => i = j
  BY AppendAt DEF Has

LEMMA OneTail ==
  ASSUME NEW S, NEW t \in Seq(S), t # <<>>, NEW y,
         \A i, j \in DOMAIN t : t[i] = y /\ t[j] = y => i = j
  PROVE  /\ \A i, j \in DOMAIN Tail(t) : Tail(t)[i] = y /\ Tail(t)[j] = y => i = j
         /\ Head(t) = y => ~ Has(Tail(t), y)
  <1>1. \A i, j \in DOMAIN Tail(t) : Tail(t)[i] = y /\ Tail(t)[j] = y => i = j
    <2> SUFFICES ASSUME NEW i \in DOMAIN Tail(t), NEW j \in DOMAIN Tail(t),
                        Tail(t)[i] = y, Tail(t)[j] = y
                 PROVE  i = j
      OBVIOUS
    <2> QED BY TailAt
  <1>2. Head(t) = y => ~ Has(Tail(t), y)
    <2> SUFFICES ASSUME Head(t) = y, NEW i \in DOMAIN Tail(t), Tail(t)[i] = y
                 PROVE  FALSE
      BY DEF Has
    <2> QED BY TailAt
  <1> QED BY <1>1, <1>2

\* How many positions satisfy R(i), which Flushes and Answers are instances of, when one
\* is added at the end or the first is taken.
LEMMA CountAppend ==
  ASSUME NEW n \in Nat, NEW F \in SUBSET (1..n), NEW G \in SUBSET (1..(n + 1)),
         \A i \in 1..n : i \in G <=> i \in F
  PROVE  /\ IsFiniteSet(F) /\ Cardinality(F) \in Nat
         /\ n + 1 \in G => Cardinality(G) = Cardinality(F) + 1
         /\ n + 1 \notin G => Cardinality(G) = Cardinality(F)
  <1>1. IsFiniteSet(1..n)
    BY FS_Interval
  <1>2. IsFiniteSet(F) /\ Cardinality(F) \in Nat
    BY <1>1, FS_Subset, FS_CardinalityType
  <1>3. CASE n + 1 \in G
    <2>0. \A i : i \in 1..(n + 1) <=> i \in 1..n \/ i = n + 1
      OBVIOUS
    <2>1. G = F \cup {n + 1} /\ n + 1 \notin F
      <3>1. \A i : i \in G <=> i \in F \/ i = n + 1
        BY <1>3, <2>0
      <3> QED BY <3>1
    <2> QED BY <1>2, <1>3, <2>1, FS_AddElement
  <1>4. CASE n + 1 \notin G
    <2>0. \A i : i \in 1..(n + 1) <=> i \in 1..n \/ i = n + 1
      OBVIOUS
    <2>1. G = F
      <3>1. \A i : i \in G <=> i \in F
        BY <1>4, <2>0
      <3> QED BY <3>1
    <2> QED BY <1>2, <1>4, <2>1
  <1> QED BY <1>3, <1>4

LEMMA CountTail ==
  ASSUME NEW n \in Nat, n # 0, NEW F \in SUBSET (1..n), NEW G \in SUBSET (1..(n - 1)),
         \A i \in 1..(n - 1) : i \in G <=> i + 1 \in F
  PROVE  /\ Cardinality(G) \in Nat /\ Cardinality(F) \in Nat
         /\ 1 \in F => Cardinality(F) = Cardinality(G) + 1
         /\ 1 \notin F => Cardinality(F) = Cardinality(G)
  <1>1. IsFiniteSet(1..n) /\ IsFiniteSet(1..(n - 1))
    BY FS_Interval
  <1>2. /\ IsFiniteSet(F) /\ Cardinality(F) \in Nat
        /\ IsFiniteSet(G) /\ Cardinality(G) \in Nat
    BY <1>1, FS_Subset, FS_CardinalityType
  <1> DEFINE H == F \ {1}
             f == [i \in G |-> i + 1]
  <1>3. f \in Bijection(G, H)
    <2>1. f \in [G -> H]
      <3> SUFFICES ASSUME NEW i \in G PROVE i + 1 \in H
        OBVIOUS
      <3> QED OBVIOUS
    <2>2. \A i, j \in G : f[i] = f[j] => i = j
      <3> SUFFICES ASSUME NEW i \in G, NEW j \in G, i + 1 = j + 1 PROVE i = j
        OBVIOUS
      <3> i \in Nat /\ j \in Nat
        OBVIOUS
      <3> QED OBVIOUS
    <2>3. \A k \in H : \E i \in G : f[i] = k
      <3> SUFFICES ASSUME NEW k \in H PROVE \E i \in G : f[i] = k
        OBVIOUS
      <3>1. k \in 1..n /\ k # 1 /\ k - 1 \in 1..(n - 1) /\ (k - 1) + 1 = k
        OBVIOUS
      <3> QED BY <3>1
    <2> QED BY <2>1, <2>2, <2>3 DEF Bijection, Injection, Surjection, IsInjective
  <1>4. Cardinality(G) = Cardinality(H)
    BY <1>2, FS_Subset, FS_CardinalityType, <1>3, FS_Bijection DEF ExistsBijection
  <1>5. CASE 1 \in F
    <2>1. Cardinality(F \ {1}) = Cardinality(F) - 1
      BY <1>2, <1>5, FS_RemoveElement
    <2> QED BY <1>2, <1>5, <1>4, <2>1
  <1>6. CASE 1 \notin F
    <2>1. H = F
      <3> QED BY <1>6
    <2> QED BY <1>2, <1>4, <1>6, <2>1
  <1> QED BY <1>5, <1>6

-----------------------------------------------------------------------------
(* Messages and orders *)

\* What a message is made of.
LEMMA MessageFields ==
  ASSUME NEW m \in Messages
  PROVE  /\ m.is \in {"ready", "returned", "exiting", "exit", "flush", "stdio", "serve"}
         /\ m.code \in Codes /\ m.out \in Nat
         /\ m.is \in {"ready", "returned"} => m.out = 0
         /\ m.is \in {"exiting", "exit"} => m.code = "status"
  BY DEF Messages

\* What the thread sends is a message, with what was printed unless it is a reply.
LEMMA MessageMade ==
  ASSUME program.printed \in Nat
  PROVE  /\ \A s \in {"flush", "stdio", "serve"} :
              /\ N!Message(s, "ok") \in Messages
              /\ N!Message(s, "ok").is = s /\ N!Message(s, "ok").out = program.printed
         /\ \A s \in {"exiting", "exit"} :
              /\ N!Message(s, "status") \in Messages
              /\ N!Message(s, "status").is = s /\ N!Message(s, "status").out = program.printed
         /\ \A s \in {"ready", "returned"}, c \in Codes :
              /\ N!Reply(s, c) \in Messages
              /\ N!Reply(s, c).is = s /\ N!Reply(s, c).code = c /\ N!Reply(s, c).out = 0
  <1>1. \A s \in {"exiting", "exit"} :
              /\ N!Message(s, "status") \in Messages
              /\ N!Message(s, "status").is = s /\ N!Message(s, "status").out = program.printed
    BY DEF N!Message, Messages, Codes
  <1>2. \A s \in {"ready", "returned"}, c \in Codes :
              /\ N!Reply(s, c) \in Messages
              /\ N!Reply(s, c).is = s /\ N!Reply(s, c).code = c /\ N!Reply(s, c).out = 0
    BY DEF N!Reply, Messages, Codes
  <1> QED BY <1>1, <1>2 DEF N!Message, Messages, Codes

LEMMA FlushesCount ==
  ASSUME NEW q \in Seq(Messages)
  PROVE  Cardinality(Flushes(q)) \in Nat
  <1>1. DOMAIN q = 1..Len(q) /\ Len(q) \in Nat
    BY LenProperties
  <1>2. IsFiniteSet(1..Len(q))
    BY <1>1, FS_Interval
  <1>3. Flushes(q) \subseteq 1..Len(q)
    BY <1>1 DEF Flushes
  <1> QED BY <1>2, <1>3, FS_Subset, FS_CardinalityType

\* The flushes among the messages, counted, as one is sent or taken.
LEMMA FlushesAppend ==
  ASSUME NEW q \in Seq(Messages), NEW m \in Messages
  PROVE  /\ Cardinality(Flushes(q)) \in Nat
         /\ m.is = "flush" => Cardinality(Flushes(Append(q, m))) = Cardinality(Flushes(q)) + 1
         /\ m.is # "flush" => Cardinality(Flushes(Append(q, m))) = Cardinality(Flushes(q))
  <1> DEFINE n == Len(q)
  <1>1. /\ n \in Nat /\ DOMAIN q = 1..n /\ DOMAIN Append(q, m) = 1..(n + 1)
        /\ \A i \in DOMAIN q : Append(q, m)[i] = q[i]
        /\ Append(q, m)[n + 1] = m
    BY AppendAt
  <1> HIDE DEF n
  <1>2. /\ Flushes(q) \in SUBSET (1..n) /\ Flushes(Append(q, m)) \in SUBSET (1..(n + 1))
        /\ \A i \in 1..n : i \in Flushes(Append(q, m)) <=> i \in Flushes(q)
        /\ n + 1 \in Flushes(Append(q, m)) <=> m.is = "flush"
    BY <1>1 DEF Flushes
  <1> QED BY <1>1, <1>2, CountAppend

LEMMA FlushesTail ==
  ASSUME NEW q \in Seq(Messages), q # <<>>
  PROVE  /\ Cardinality(Flushes(Tail(q))) \in Nat
         /\ Head(q).is = "flush" => Cardinality(Flushes(q)) = Cardinality(Flushes(Tail(q))) + 1
         /\ Head(q).is # "flush" => Cardinality(Flushes(q)) = Cardinality(Flushes(Tail(q)))
  <1> DEFINE n == Len(q)
  <1>1. /\ n \in Nat /\ DOMAIN q = 1..n /\ DOMAIN Tail(q) = 1..(n - 1) /\ Head(q) = q[1]
        /\ \A i \in DOMAIN Tail(q) : Tail(q)[i] = q[i + 1] /\ i + 1 \in DOMAIN q
        /\ 1 \in DOMAIN q
    BY TailAt
  <1> HIDE DEF n
  <1>2. /\ Flushes(q) \in SUBSET (1..n) /\ Flushes(Tail(q)) \in SUBSET (1..(n - 1))
        /\ \A i \in 1..(n - 1) : i \in Flushes(Tail(q)) <=> i + 1 \in Flushes(q)
        /\ 1 \in Flushes(q) <=> Head(q).is = "flush"
        /\ n # 0
    BY <1>1 DEF Flushes
  <1> DEFINE F == Flushes(q)
             G == Flushes(Tail(q))
  <1>3. /\ n \in Nat /\ n # 0 /\ F \in SUBSET (1..n) /\ G \in SUBSET (1..(n - 1))
        /\ \A i \in 1..(n - 1) : i \in G <=> i + 1 \in F
    BY <1>1, <1>2
  <1> HIDE DEF F, G
  <1>4. /\ Cardinality(G) \in Nat /\ Cardinality(F) \in Nat
        /\ 1 \in F => Cardinality(F) = Cardinality(G) + 1
        /\ 1 \notin F => Cardinality(F) = Cardinality(G)
    BY <1>3, CountTail
  <1> QED BY <1>2, <1>4 DEF F, G

\* Likewise the answers to flushes among the orders.
LEMMA AnswersAppend ==
  ASSUME NEW w \in Seq(Orders), NEW o \in Orders
  PROVE  /\ Cardinality(Answers(w)) \in Nat
         /\ o = "flushed" => Cardinality(Answers(Append(w, o))) = Cardinality(Answers(w)) + 1
         /\ o # "flushed" => Cardinality(Answers(Append(w, o))) = Cardinality(Answers(w))
         /\ Answers(Append(w, o)) # {} <=> Answers(w) # {} \/ o = "flushed"
  <1> DEFINE n == Len(w)
  <1>1. /\ n \in Nat /\ DOMAIN w = 1..n /\ DOMAIN Append(w, o) = 1..(n + 1)
        /\ \A i \in DOMAIN w : Append(w, o)[i] = w[i]
        /\ Append(w, o)[n + 1] = o
    BY AppendAt
  <1> HIDE DEF n
  <1>2. \A i : i \in 1..(n + 1) <=> i \in 1..n \/ i = n + 1
    BY <1>1
  <1>3. /\ Answers(w) \in SUBSET (1..n) /\ Answers(Append(w, o)) \in SUBSET (1..(n + 1))
        /\ \A i \in 1..n : i \in Answers(Append(w, o)) <=> i \in Answers(w)
        /\ n + 1 \in Answers(Append(w, o)) <=> o = "flushed"
    BY <1>1, <1>2 DEF Answers
  <1> QED BY <1>1, <1>3, <1>2, CountAppend

LEMMA AnswersTail ==
  ASSUME NEW w \in Seq(Orders), w # <<>>
  PROVE  /\ Cardinality(Answers(Tail(w))) \in Nat
         /\ Head(w) = "flushed" => Cardinality(Answers(w)) = Cardinality(Answers(Tail(w))) + 1
         /\ Head(w) # "flushed" => Cardinality(Answers(w)) = Cardinality(Answers(Tail(w)))
         /\ Answers(Tail(w)) # {} => Answers(w) # {}
         /\ Head(w) = "flushed" => Answers(w) # {}
  <1> DEFINE n == Len(w)
  <1>1. /\ n \in Nat /\ DOMAIN w = 1..n /\ DOMAIN Tail(w) = 1..(n - 1) /\ Head(w) = w[1]
        /\ \A i \in DOMAIN Tail(w) : Tail(w)[i] = w[i + 1] /\ i + 1 \in DOMAIN w
        /\ 1 \in DOMAIN w
    BY TailAt
  <1> HIDE DEF n
  <1>2. /\ Answers(w) \in SUBSET (1..n) /\ Answers(Tail(w)) \in SUBSET (1..(n - 1))
        /\ \A i \in 1..(n - 1) : i \in Answers(Tail(w)) <=> i + 1 \in Answers(w)
        /\ 1 \in Answers(w) <=> Head(w) = "flushed"
        /\ n # 0
    BY <1>1 DEF Answers
  <1> DEFINE F == Answers(w)
             G == Answers(Tail(w))
  <1>3. /\ n \in Nat /\ n # 0 /\ F \in SUBSET (1..n) /\ G \in SUBSET (1..(n - 1))
        /\ \A i \in 1..(n - 1) : i \in G <=> i + 1 \in F
    BY <1>1, <1>2
  <1> HIDE DEF F, G
  <1>4. /\ Cardinality(G) \in Nat /\ Cardinality(F) \in Nat
        /\ 1 \in F => Cardinality(F) = Cardinality(G) + 1
        /\ 1 \notin F => Cardinality(F) = Cardinality(G)
    BY <1>3, CountTail
  <1> QED BY <1>2, <1>4 DEF F, G

\* No message, no order.
LEMMA NoneOnTheWay ==
  /\ Flushes(<<>>) = {} /\ Answers(<<>>) = {} /\ Answers(<<"init">>) = {}
  /\ Cardinality({}) = 0
  /\ \A x : ~ Has(<<>>, x)
  /\ ~ Has(<<"init">>, "execute")
  <1>1. Flushes(<<>>) = {}
    BY DEF Flushes
  <1>2. Answers(<<>>) = {}
    BY DEF Answers
  <1>3. Answers(<<"init">>) = {}
    BY DEF Answers
  <1>4. \A x : ~ Has(<<>>, x)
    BY DEF Has
  <1>5. ~ Has(<<"init">>, "execute")
    BY DEF Has
  <1> QED BY FS_EmptySet, <1>1, <1>2, <1>3, <1>4, <1>5

\* What is past, before a message is taken by the page, or before one is sent to it.
LEMMA FinalTail ==
  ASSUME NEW q \in Seq(Messages), q # <<>>
  PROVE  (\E i \in DOMAIN Tail(q) : Final(Tail(q)[i])) \/ Final(Head(q)) =>
           \E i \in DOMAIN q : Final(q[i])
  BY TailAt

LEMMA FinalAppend ==
  ASSUME NEW q \in Seq(Messages), NEW m \in Messages,
         \E i \in DOMAIN Append(q, m) : Final(Append(q, m)[i])
  PROVE  Final(m) \/ \E i \in DOMAIN q : Final(q[i])
  BY AppendAt

\* What was to come to the page still does when the first message is taken, and the
\* chunks that ride on it with it.
LEMMA TakenReaches ==
  ASSUME NEW q \in Seq(Messages), q # <<>>, NEW h \in Nat, NEW hh \in Nat, NEW k \in Nat,
         hh >= h, hh >= Head(q).out
  PROVE  /\ Reaches(q, h, k) => Reaches(Tail(q), hh, k)
         /\ FlushesBehind(q, h, k) => FlushesBehind(Tail(q), hh, k)
  <1>0. Head(q).out \in Nat /\ Head(q) = q[1]
    BY TailAt, MessageFields
  <1>1. Reaches(q, h, k) => Reaches(Tail(q), hh, k)
    <2>1. CASE h >= k
      BY <2>1 DEF Reaches
    <2>2. ASSUME NEW i \in DOMAIN q, q[i].out >= k PROVE Reaches(Tail(q), hh, k)
      <3>1. CASE i = 1
        BY <3>1, <2>2, <1>0 DEF Reaches
      <3>2. CASE i # 1
        <4>1. i - 1 \in DOMAIN Tail(q) /\ Tail(q)[i - 1] = q[i]
          BY <3>2, TailAt
        <4> QED BY <4>1, <2>2 DEF Reaches
      <3> QED BY <3>1, <3>2
    <2> QED BY <2>1, <2>2 DEF Reaches
  <1>2. ASSUME FlushesBehind(q, h, k), NEW i \in DOMAIN Tail(q), Tail(q)[i].is = "flush", ~ hh >= k
        PROVE  \E j \in DOMAIN Tail(q) : j < i /\ Tail(q)[j].out >= k
    <2>1. i + 1 \in DOMAIN q /\ q[i + 1].is = "flush" /\ i \in Nat
      BY <1>2, TailAt
    <2>2. PICK j \in DOMAIN q : j < i + 1 /\ q[j].out >= k
      BY <1>2, <2>1 DEF FlushesBehind
    <2>3. j # 1
      BY <1>0, <1>2, <2>2
    <2>4. j - 1 \in DOMAIN Tail(q) /\ Tail(q)[j - 1] = q[j] /\ j \in Nat
      BY <2>3, TailAt
    <2> QED BY <2>2, <2>4, <2>1
  <1> QED BY <1>1, <1>2 DEF FlushesBehind

LEMMA TakenSays ==
  ASSUME NEW q \in Seq(Messages), q # <<>>, NEW t \in Nat, NEW k \in Nat, SaysEnough(q, t, k)
  PROVE  /\ SaysEnough(Tail(q), t, k)
         /\ Head(q).is \in {"exiting", "exit"} => Head(q).out >= k
         /\ Head(q).is = "returned" /\ Head(q).code # "threw" => t >= k
  BY TailAt DEF SaysEnough

LEMMA MoreTaken ==
  ASSUME NEW q \in Seq(Messages), NEW t \in Nat, NEW tt \in Nat, NEW k \in Nat, tt >= t,
         SaysEnough(q, t, k)
  PROVE  SaysEnough(q, tt, k)
  BY DEF SaysEnough

\* A message joins those on their way.
LEMMA SentReaches ==
  ASSUME NEW q \in Seq(Messages), NEW m \in Messages, NEW h \in Nat, NEW k \in Nat
  PROVE  /\ Reaches(q, h, k) \/ m.out >= k => Reaches(Append(q, m), h, k)
         /\ FlushesBehind(q, h, k) /\ (m.is = "flush" => Reaches(q, h, k)) =>
              FlushesBehind(Append(q, m), h, k)
  <1>1. ASSUME FlushesBehind(q, h, k), m.is = "flush" => Reaches(q, h, k)
        PROVE  FlushesBehind(Append(q, m), h, k)
    <2> SUFFICES ASSUME NEW i \in DOMAIN Append(q, m), Append(q, m)[i].is = "flush", ~ h >= k
                 PROVE  \E j \in DOMAIN Append(q, m) : j < i /\ Append(q, m)[j].out >= k
      BY DEF FlushesBehind
    <2>1. CASE i \in DOMAIN q
      <3>1. PICK j \in DOMAIN q : j < i /\ q[j].out >= k
        BY <1>1, <2>1, AppendAt DEF FlushesBehind
      <3> QED BY <3>1, AppendAt
    <2>2. CASE i = Len(q) + 1
      <3>1. PICK j \in DOMAIN q : q[j].out >= k
        BY <1>1, <2>2, AppendAt DEF Reaches
      <3> QED BY <3>1, <2>2, AppendAt
    <2> QED BY <2>1, <2>2, AppendAt
  <1> QED BY AppendAt, <1>1 DEF Reaches

LEMMA SentSays ==
  ASSUME NEW q \in Seq(Messages), NEW m \in Messages, NEW t \in Nat, NEW k \in Nat,
         SaysEnough(q, t, k),
         m.is \in {"exiting", "exit"} => m.out >= k,
         m.is = "returned" /\ m.code # "threw" => t >= k
  PROVE  SaysEnough(Append(q, m), t, k)
  <1> SUFFICES ASSUME NEW i \in DOMAIN Append(q, m)
               PROVE  /\ Append(q, m)[i].is \in {"exiting", "exit"} => Append(q, m)[i].out >= k
                      /\ Append(q, m)[i].is = "returned" /\ Append(q, m)[i].code # "threw" => t >= k
    BY DEF SaysEnough
  <1>1. CASE i \in DOMAIN q
    BY <1>1, AppendAt DEF SaysEnough
  <1>2. CASE i = Len(q) + 1
    BY <1>2, AppendAt
  <1> QED BY <1>1, <1>2, AppendAt

\* No message promises more than was printed.
LEMMA BoundAppend ==
  ASSUME NEW q \in Seq(Messages), NEW m \in Messages, NEW k \in Nat,
         \A i \in DOMAIN q : q[i].out <= k, m.out <= k
  PROVE  \A i \in DOMAIN Append(q, m) : Append(q, m)[i].out <= k
  BY AppendAt

LEMMA BoundTail ==
  ASSUME NEW q \in Seq(Messages), q # <<>>, NEW k \in Nat, \A i \in DOMAIN q : q[i].out <= k
  PROVE  (\A i \in DOMAIN Tail(q) : Tail(q)[i].out <= k) /\ Head(q).out <= k
  BY TailAt

\* The tasks of the loop, as one is added or run.
LEMMA BehindAppend ==
  ASSUME NEW t \in Seq(Tasks), NEW x \in Tasks, NEW b \in BOOLEAN, TasksBehind(t, b),
         x = "endFlush" => b \/ Has(t, "stdio")
  PROVE  TasksBehind(Append(t, x), b)
  <1> SUFFICES ASSUME NEW i \in DOMAIN Append(t, x), Append(t, x)[i] = "endFlush", ~ b
               PROVE  \E j \in DOMAIN Append(t, x) : j < i /\ Append(t, x)[j] = "stdio"
    BY DEF TasksBehind
  <1>1. CASE i \in DOMAIN t
    <2>1. PICK j \in DOMAIN t : j < i /\ t[j] = "stdio"
      BY <1>1, AppendAt DEF TasksBehind
    <2> QED BY <2>1, AppendAt
  <1>2. CASE i = Len(t) + 1
    <2>1. PICK j \in DOMAIN t : t[j] = "stdio"
      BY <1>2, AppendAt DEF Has
    <2> QED BY <1>2, <2>1, AppendAt
  <1> QED BY <1>1, <1>2, AppendAt

LEMMA BehindTail ==
  ASSUME NEW t \in Seq(Tasks), t # <<>>, NEW b \in BOOLEAN, TasksBehind(t, b),
         Head(t) = "stdio" => b
  PROVE  TasksBehind(Tail(t), b)
  <1> SUFFICES ASSUME NEW i \in DOMAIN Tail(t), Tail(t)[i] = "endFlush", ~ b
               PROVE  \E j \in DOMAIN Tail(t) : j < i /\ Tail(t)[j] = "stdio"
    BY DEF TasksBehind
  <1>1. i + 1 \in DOMAIN t /\ t[i + 1] = "endFlush" /\ i \in Nat
    BY TailAt
  <1>2. PICK j \in DOMAIN t : j < i + 1 /\ t[j] = "stdio"
    BY <1>1 DEF TasksBehind
  <1>3. j # 1 /\ j \in Nat
    BY <1>2, TailAt
  <1>4. j - 1 < i
    BY <1>1, <1>2, <1>3
  <1> QED BY <1>2, <1>3, TailAt, <1>4

LEMMA BehindMore ==
  ASSUME NEW t, NEW b \in BOOLEAN, NEW c \in BOOLEAN, TasksBehind(t, b), b => c
  PROVE  TasksBehind(t, c)
  BY DEF TasksBehind

-----------------------------------------------------------------------------
(* The loop *)

\* What is counted is what lives and what ended in this turn.
Summed(l) == l \in Loops /\ l.refs = l.ops + l.timers + l.deferred

\* The tasks u are those of t, or one more for the loop or the output.
Quiet(t, u) == u = t \/ \E x \in {"stdio", "unrefs", "recheck"} : u = Append(t, x)

\* Such a task does not flush, and leaves the order of those that do.
LEMMA QuietTasks ==
  ASSUME NEW t \in Seq(Tasks), NEW u, Quiet(t, u)
  PROVE  /\ u \in Seq(Tasks)
         /\ \A y \in {"exitFlush", "endFlush"} : Has(u, y) <=> Has(t, y)
         /\ Has(t, "stdio") => Has(u, "stdio")
         /\ \A b \in BOOLEAN : TasksBehind(t, b) => TasksBehind(u, b)
         /\ (\A i, j \in DOMAIN t : t[i] = "exitFlush" /\ t[j] = "exitFlush" => i = j) =>
               \A i, j \in DOMAIN u : u[i] = "exitFlush" /\ u[j] = "exitFlush" => i = j
  <1>1. CASE u = t
    BY <1>1
  <1>2. ASSUME NEW x \in {"stdio", "unrefs", "recheck"}, u = Append(t, x)
        PROVE  /\ u \in Seq(Tasks)
               /\ \A y \in {"exitFlush", "endFlush"} : Has(u, y) <=> Has(t, y)
               /\ Has(t, "stdio") => Has(u, "stdio")
               /\ \A b \in BOOLEAN : TasksBehind(t, b) => TasksBehind(u, b)
               /\ (\A i, j \in DOMAIN t : t[i] = "exitFlush" /\ t[j] = "exitFlush" => i = j) =>
                     \A i, j \in DOMAIN u : u[i] = "exitFlush" /\ u[j] = "exitFlush" => i = j
    <2>0. x \in Tasks /\ x # "exitFlush" /\ x # "endFlush"
      BY <1>2 DEF Tasks
    <2>1. \A y : Has(u, y) <=> Has(t, y) \/ x = y
      BY <1>2, <2>0, HasAppend
    <2>2. \A b \in BOOLEAN : TasksBehind(t, b) => TasksBehind(u, b)
      BY <1>2, <2>0, BehindAppend
    <2>3. ASSUME \A i, j \in DOMAIN t : t[i] = "exitFlush" /\ t[j] = "exitFlush" => i = j
          PROVE  \A i, j \in DOMAIN u : u[i] = "exitFlush" /\ u[j] = "exitFlush" => i = j
      BY <1>2, <2>0, <2>3, OneAppend
    <2> QED BY <2>0, <1>2, AppendAt, <2>1, <2>2, <2>3
  <1> QED BY <1>1, <1>2 DEF Quiet

\* The fields of a loop.
LEMMA LoopFields ==
  ASSUME NEW l \in Loops
  PROVE  /\ l.refs \in Nat /\ l.ops \in Nat /\ l.timers \in Nat /\ l.deferred \in Nat
         /\ l.drain \in {"off", "waiting", "turn", "over"} /\ l.tasks \in Seq(Tasks)
         /\ l = [refs |-> l.refs, ops |-> l.ops, timers |-> l.timers, deferred |-> l.deferred,
                 drain |-> l.drain, tasks |-> l.tasks]
  BY DEF Loops

\* SetTimeout
LEMMA SetTimeoutAdds ==
  ASSUME NEW l \in Loops, NEW x \in Tasks
  PROVE  LET k == N!SetTimeout(l, x) IN
         /\ k \in Loops /\ k.tasks = Append(l.tasks, x)
         /\ k.refs = l.refs /\ k.ops = l.ops /\ k.timers = l.timers /\ k.deferred = l.deferred
         /\ k.drain = l.drain
         /\ Summed(l) => Summed(k)
  <1> QED BY LoopFields, AppendAt DEF N!SetTimeout, Summed, Loops

\* StartOp
LEMMA StartOpCounts ==
  ASSUME NEW l, Summed(l)
  PROVE  LET k == N!StartOp(l) IN
         /\ Summed(k) /\ k.ops = l.ops + 1 /\ k.timers = l.timers /\ k.deferred = l.deferred
         /\ k.refs = l.refs + 1 /\ k.drain = l.drain /\ k.tasks = l.tasks
  <1> DEFINE more == [l EXCEPT !.ops = @ + 1]
  <1>1. /\ more \in Loops /\ more.ops = l.ops + 1 /\ more.refs = l.refs /\ more.timers = l.timers
        /\ more.deferred = l.deferred /\ more.drain = l.drain /\ more.tasks = l.tasks
        /\ l.timers \in Nat /\ l.refs \in Nat /\ l.ops \in Nat /\ l.deferred \in Nat
        /\ l.refs = l.ops + l.timers + l.deferred
    BY LoopFields DEF Loops, Summed
  <1>2. N!StartOp(l) = [more EXCEPT !.refs = @ + 1]
    BY DEF N!StartOp, N!Ref
  <1> HIDE DEF more
  <1> QED BY <1>1, <1>2, LoopFields DEF Loops, Summed

\* StartTimer
LEMMA StartTimerCounts ==
  ASSUME NEW l, Summed(l)
  PROVE  LET k == N!StartTimer(l) IN
         /\ Summed(k) /\ k.ops = l.ops /\ k.timers = l.timers + 1 /\ k.deferred = l.deferred
         /\ k.refs = l.refs + 1 /\ k.drain = l.drain /\ k.tasks = l.tasks
  <1> DEFINE more == [l EXCEPT !.timers = @ + 1]
  <1>1. /\ more \in Loops /\ more.timers = l.timers + 1 /\ more.refs = l.refs /\ more.ops = l.ops
        /\ more.deferred = l.deferred /\ more.drain = l.drain /\ more.tasks = l.tasks
        /\ l.timers \in Nat /\ l.refs \in Nat /\ l.ops \in Nat /\ l.deferred \in Nat
        /\ l.refs = l.ops + l.timers + l.deferred
    BY LoopFields DEF Loops, Summed
  <1>2. N!StartTimer(l) = [more EXCEPT !.refs = @ + 1]
    BY DEF N!StartTimer, N!Ref
  <1> HIDE DEF more
  <1> QED BY <1>1, <1>2, LoopFields DEF Loops, Summed

\* Unref of a count that is not zero.
LEMMA UnrefCounts ==
  ASSUME NEW l \in Loops, l.refs # 0
  PROVE  LET k == N!Unref(l) IN
         /\ k \in Loops /\ k.refs = l.refs - 1
         /\ k.ops = l.ops /\ k.timers = l.timers /\ k.deferred = l.deferred
         /\ k.drain = "over" => l.drain = "over"
         /\ Quiet(l.tasks, k.tasks)
  <1> DEFINE turned == [l EXCEPT !.refs = 0, !.drain = "turn"]
             less == [l EXCEPT !.refs = @ - 1]
  <1>1. CASE l.refs = 1 /\ l.drain = "waiting"
    <2>1. /\ turned \in Loops /\ turned.refs = 0 /\ turned.ops = l.ops /\ turned.timers = l.timers
          /\ turned.deferred = l.deferred /\ turned.drain = "turn" /\ turned.tasks = l.tasks
      BY LoopFields DEF Loops
    <2>2. N!Unref(l) = N!SetTimeout(turned, "recheck")
      BY <1>1 DEF N!Unref
    <2> HIDE DEF turned
    <2>3. "recheck" \in Tasks
      BY DEF Tasks
    <2> QED BY <1>1, <2>1, <2>2, <2>3, SetTimeoutAdds DEF Quiet
  <1>2. CASE ~ (l.refs = 1 /\ l.drain = "waiting")
    <2>1. /\ less \in Loops /\ less.refs = l.refs - 1 /\ less.ops = l.ops /\ less.timers = l.timers
          /\ less.deferred = l.deferred /\ less.drain = l.drain /\ less.tasks = l.tasks
      BY LoopFields DEF Loops
    <2> QED BY <1>2, <2>1 DEF Quiet, N!Unref
  <1> QED BY <1>1, <1>2

\* EndTimer
LEMMA EndTimerCounts ==
  ASSUME NEW l, Summed(l), l.timers # 0
  PROVE  LET k == N!EndTimer(l) IN
         /\ Summed(k) /\ k.ops = l.ops /\ k.timers = l.timers - 1 /\ k.deferred = l.deferred
         /\ k.drain = "over" => l.drain = "over"
         /\ Quiet(l.tasks, k.tasks)
  <1> DEFINE less == [l EXCEPT !.timers = @ - 1]
  <1>1. /\ less \in Loops /\ less.refs = l.refs /\ less.ops = l.ops /\ less.timers = l.timers - 1
        /\ less.deferred = l.deferred /\ less.drain = l.drain /\ less.tasks = l.tasks
        /\ l.timers \in Nat /\ l.refs \in Nat /\ l.ops \in Nat /\ l.deferred \in Nat
        /\ l.refs = l.ops + l.timers + l.deferred
    BY LoopFields DEF Loops, Summed
  <1>2. N!EndTimer(l) = N!Unref(less)
    BY DEF N!EndTimer
  <1> HIDE DEF less
  <1>3. less.refs # 0
    BY <1>1
  <1> QED BY <1>1, <1>2, <1>3, UnrefCounts DEF Summed

\* EndOp
LEMMA EndOpCounts ==
  ASSUME NEW l, Summed(l), l.ops # 0
  PROVE  LET k == N!EndOp(l) IN
         /\ Summed(k) /\ k.ops = l.ops - 1 /\ k.timers = l.timers /\ k.refs = l.refs
         /\ k.drain = l.drain
         /\ Quiet(l.tasks, k.tasks)
  <1> DEFINE ended == [l EXCEPT !.ops = @ - 1, !.deferred = @ + 1]
  <1>1. /\ ended.refs = l.refs /\ ended.ops = l.ops - 1
        /\ ended.timers = l.timers /\ ended.deferred = l.deferred + 1
        /\ ended.drain = l.drain /\ ended.tasks = l.tasks
        /\ l.timers \in Nat /\ l.refs \in Nat /\ l.ops \in Nat /\ l.deferred \in Nat
        /\ l.refs = l.ops + l.timers + l.deferred
    BY LoopFields DEF Loops, Summed
  <1>2. N!EndOp(l) = IF l.deferred = 0 THEN N!SetTimeout(ended, "unrefs") ELSE ended
    BY DEF N!EndOp
  <1>3. ended \in Loops
    <2>1. l.ops - 1 \in Nat /\ l.deferred + 1 \in Nat
      BY <1>1
    <2> QED BY <2>1, LoopFields DEF Loops, Summed
  <1> HIDE DEF ended
  <1>4. Summed(ended)
    BY <1>1, <1>3 DEF Summed
  <1>5. CASE l.deferred = 0
    <2> DEFINE k == N!SetTimeout(ended, "unrefs")
    <2>1. /\ Summed(k) /\ k.tasks = Append(ended.tasks, "unrefs")
          /\ k.refs = ended.refs /\ k.ops = ended.ops /\ k.timers = ended.timers
          /\ k.drain = ended.drain
      BY <1>3, <1>4, SetTimeoutAdds DEF Tasks
    <2> QED BY <1>1, <1>2, <1>5, <2>1 DEF Quiet
  <1>6. CASE l.deferred # 0
    <2> QED BY <1>1, <1>4, <1>2, <1>6 DEF Quiet
  <1> QED BY <1>5, <1>6

\* FlushDeferredUnrefs
LEMMA FlushDeferredCounts ==
  ASSUME NEW l, Summed(l)
  PROVE  LET k == N!FlushDeferredUnrefs(l) IN
         /\ Summed(k) /\ k.ops = l.ops /\ k.timers = l.timers /\ k.refs <= l.refs
         /\ k.drain = "over" => l.drain = "over"
         /\ Quiet(l.tasks, k.tasks)
  <1> DEFINE few == [l EXCEPT !.refs = @ - l.deferred + 1, !.deferred = 0]
  <1>1. /\ few.refs = l.refs - l.deferred + 1 /\ few.ops = l.ops
        /\ few.timers = l.timers /\ few.deferred = 0
        /\ few.drain = l.drain /\ few.tasks = l.tasks
        /\ l.timers \in Nat /\ l.refs \in Nat /\ l.ops \in Nat /\ l.deferred \in Nat
        /\ l.refs = l.ops + l.timers + l.deferred
    BY LoopFields DEF Loops, Summed
  <1>2. few \in Loops
    <2>1. l.refs - l.deferred + 1 \in Nat
      BY <1>1
    <2> QED BY <2>1, LoopFields DEF Loops, Summed
  <1>3. N!FlushDeferredUnrefs(l) = N!Unref(few)
    BY DEF N!FlushDeferredUnrefs
  <1> HIDE DEF few
  <1>4. few.refs # 0
    BY <1>1
  <1> QED BY <1>1, <1>2, <1>3, <1>4, UnrefCounts DEF Summed

\* Drain
LEMMA DrainCounts ==
  ASSUME NEW l, Summed(l)
  PROVE  LET k == N!Drain(l) IN
         /\ Summed(k) /\ k.ops = l.ops /\ k.timers = l.timers /\ k.refs = l.refs
         /\ k.drain # "over"
         /\ Quiet(l.tasks, k.tasks)
  <1> DEFINE wait == [l EXCEPT !.drain = "waiting"]
             look == [l EXCEPT !.drain = "turn"]
  <1>1. /\ Summed(wait) /\ wait.ops = l.ops /\ wait.timers = l.timers /\ wait.refs = l.refs
        /\ wait.drain = "waiting" /\ wait.tasks = l.tasks
    BY LoopFields DEF Loops, Summed
  <1>2. /\ Summed(look) /\ look.ops = l.ops /\ look.timers = l.timers /\ look.refs = l.refs
        /\ look.drain = "turn" /\ look.tasks = l.tasks
    BY LoopFields DEF Loops, Summed
  <1>3. N!Drain(l) = IF l.refs > 0 THEN wait ELSE N!SetTimeout(look, "recheck")
    BY DEF N!Drain
  <1> HIDE DEF wait, look
  <1>4. CASE l.refs > 0
    <2>1. N!Drain(l) = wait
      BY <1>3, <1>4
    <2> QED BY <1>1, <2>1 DEF Quiet
  <1>5. CASE ~ l.refs > 0
    <2>1. N!Drain(l) = N!SetTimeout(look, "recheck")
      BY <1>3, <1>5
    <2>2. look \in Loops
      BY <1>2 DEF Summed
    <2> QED BY <1>2, <2>1, <2>2, SetTimeoutAdds DEF Quiet, Tasks
  <1> QED BY <1>4, <1>5

\* Recheck
LEMMA RecheckCounts ==
  ASSUME NEW l, Summed(l)
  PROVE  LET k == N!Recheck(l) IN
         /\ Summed(k) /\ k.ops = l.ops /\ k.timers = l.timers /\ k.refs = l.refs
         /\ k.drain = "over" => k.refs = 0
         /\ k.tasks = l.tasks
  BY LoopFields DEF N!Recheck, Loops, Summed

\* NextTask
LEMMA NextTaskCounts ==
  ASSUME Summed(loop), loop.tasks # <<>>
  PROVE  LET k == N!NextTask IN
         /\ Summed(k) /\ k.ops = loop.ops /\ k.timers = loop.timers /\ k.refs = loop.refs
         /\ k.deferred = loop.deferred /\ k.drain = loop.drain /\ k.tasks = Tail(loop.tasks)
  <1> QED BY LoopFields, TailAt DEF N!NextTask, Loops, Summed

-----------------------------------------------------------------------------
(* What a turn of the thread leaves *)

\* What ThreadOK says but that what was said is fixed.
Standing(g, n, st, p, l, q, w) ==
  /\ CountsTrue(p, l) /\ TasksRight(p, l.tasks)
  /\ Told(g, n, st, p.said, q, w) /\ Printed(st, p, q)
  /\ ~ g.terminated => Carried(st, p, l, q)
  /\ FlushesAsked(st, p, q, w) /\ StartsOnce(n, p, w)

\* The end of the program is still open.
Open(g, n, st, p, l, q, w) == ~ Settling(p, l.tasks) /\ ~ Past(g, n, st, q, w)

\* The fields of a program.
LEMMA ProgramFields ==
  ASSUME NEW p \in Programs
  PROVE  /\ p.stage \in {"none", "module", "unwound", "drain", "flush", "replied"}
         /\ p.code \in {"ok", "status"}
         /\ p.exit \in {"no", "handlers", "flush", "asked", "told"}
         /\ p.wedged \in BOOLEAN /\ p.graced \in BOOLEAN /\ p.started \in Nat
         /\ p.timed \in BOOLEAN /\ p.fired \in BOOLEAN /\ p.served \in BOOLEAN
         /\ p.printed \in Nat /\ p.said \in Nat /\ p.flushes \in Seq({"exit", "end"})
         /\ Len(p.flushes) \in Nat
  <1>1. p.flushes \in Seq({"exit", "end"})
    BY DEF Programs
  <1> QED BY <1>1, LenProperties DEF Programs

\* The fields of the write chain.
LEMMA StreamFields ==
  ASSUME NEW st \in Streams
  PROVE  /\ st.has \in Nat /\ st.taken \in Nat /\ st.flushes \in Seq(Nat)
         /\ Len(st.flushes) \in Nat /\ DOMAIN st.flushes = 1..Len(st.flushes)
         /\ \A i \in DOMAIN st.flushes : st.flushes[i] \in Nat
  <1> QED BY LenProperties DEF Streams

\* With an end that is open nothing was told yet, whatever was printed.
LEMMA NothingTold ==
  ASSUME NEW g, NEW n, NEW st \in Streams, NEW q \in Seq(Messages), NEW w, NEW k \in Nat,
         ~ Past(g, n, st, q, w)
  PROVE  Told(g, n, st, k, q, w)
  <1>1. /\ \A i \in DOMAIN q : ~ Final(q[i])
        /\ st.flushes = <<>> /\ Answers(w) = {}
        /\ g.deadline = None /\ g.listening = None /\ n.result \notin {"ok", "status"}
    BY DEF Past
  <1>2. DOMAIN st.flushes = {}
    BY <1>1
  <1> QED BY <1>1, <1>2 DEF Told, FlushesBehind, SaysEnough, Final

\* A turn that only adds tasks of the loop, and does not touch what is said of the end.
LEMMA StandingOn ==
  ASSUME NEW g, NEW n, NEW st, NEW p, NEW l \in Loops, NEW q, NEW w, NEW pp, NEW ll,
         pp.stage = p.stage, pp.exit = p.exit, pp.printed = p.printed, pp.said = p.said,
         pp.flushes = p.flushes,
         Quiet(l.tasks, ll.tasks), CountsTrue(pp, ll), Standing(g, n, st, p, l, q, w)
  PROVE  /\ Standing(g, n, st, pp, ll, q, w)
         /\ Settling(pp, ll.tasks) <=> Settling(p, l.tasks)
  <1>1. l.tasks \in Seq(Tasks)
    BY LoopFields
  <1>2. /\ \A y \in {"exitFlush", "endFlush"} : Has(ll.tasks, y) <=> Has(l.tasks, y)
        /\ Has(l.tasks, "stdio") => Has(ll.tasks, "stdio")
        /\ \A b \in BOOLEAN : TasksBehind(l.tasks, b) => TasksBehind(ll.tasks, b)
    BY <1>1, QuietTasks
  <1>3. Told(g, n, st, pp.said, q, w) /\ Printed(st, pp, q)
    BY DEF Standing, Printed
  <1>4. ASSUME ~ g.terminated PROVE Carried(st, pp, ll, q)
    <2>1. Carried(st, p, l, q)
      BY <1>4 DEF Standing
    <2> DEFINE b == Reaches(q, st.has, p.said)
    <2>2. b \in BOOLEAN
      BY DEF Reaches
    <2>3. TasksBehind(l.tasks, b)
      BY <2>1 DEF Carried
    <2> HIDE DEF b
    <2>4. TasksBehind(ll.tasks, b)
      BY <1>2, <2>2, <2>3
    <2> QED BY <1>2, <2>1, <2>4 DEF Carried, b
  <1>5. FlushesAsked(st, pp, q, w) /\ StartsOnce(n, pp, w)
    BY DEF Standing, FlushesAsked, StartsOnce
  <1>6. Settling(pp, ll.tasks) <=> Settling(p, l.tasks)
    BY <1>2 DEF Settling
  <1> QED BY <1>1, <1>2, QuietTasks, <1>3, <1>4, <1>5, <1>6 DEF Standing, TasksRight

\* A message is sent that is no flush, and says enough.
LEMMA StandingSent ==
  ASSUME NEW g, NEW n, NEW st \in Streams, NEW p \in Programs, NEW l \in Loops,
         NEW q \in Seq(Messages), NEW w, NEW m \in Messages,
         m.is # "flush", m.out <= p.printed,
         m.is \in {"exiting", "exit"} => m.out >= p.said,
         m.is = "returned" /\ m.code # "threw" => st.taken >= p.said,
         Standing(g, n, st, p, l, q, w)
  PROVE  /\ Standing(g, n, st, p, l, Append(q, m), w)
         /\ Past(g, n, st, Append(q, m), w) => Past(g, n, st, q, w) \/ Final(m)
  <1>1. p.said \in Nat /\ p.printed \in Nat /\ st.has \in Nat /\ st.taken \in Nat
    BY ProgramFields, StreamFields
  <1>2. Told(g, n, st, p.said, Append(q, m), w)
    <2>1. FlushesBehind(q, st.has, p.said) /\ SaysEnough(q, st.taken, p.said)
      BY DEF Standing, Told
    <2>2. SaysEnough(Append(q, m), st.taken, p.said)
      BY <1>1, <2>1, SentSays
    <2> QED BY <1>1, <2>1, SentReaches, <2>2 DEF Standing, Told
  <1>3. ASSUME ~ g.terminated PROVE Carried(st, p, l, Append(q, m))
    <2>1. Carried(st, p, l, q)
      BY <1>3 DEF Standing
    <2>2. \A k \in Nat : Reaches(q, st.has, k) => Reaches(Append(q, m), st.has, k)
      BY <1>1, SentReaches
    <2> DEFINE b == Reaches(q, st.has, p.said)
               c == Reaches(Append(q, m), st.has, p.said)
    <2>3. b \in BOOLEAN /\ c \in BOOLEAN /\ (b => c)
      BY <1>1, <2>2 DEF Reaches
    <2>4. TasksBehind(l.tasks, b)
      BY <2>1 DEF Carried
    <2> HIDE DEF b, c
    <2>5. TasksBehind(l.tasks, c)
      BY <2>3, <2>4, BehindMore
    <2> QED BY <1>1, <2>1, <2>2, <2>5 DEF Carried, c
  <1>4. FlushesAsked(st, p, Append(q, m), w)
    <2> QED BY FlushesAppend DEF Standing, FlushesAsked
  <1>5. Past(g, n, st, Append(q, m), w) => Past(g, n, st, q, w) \/ Final(m)
    BY FinalAppend DEF Past
  <1> QED BY <1>2, <1>1, BoundAppend, <1>3, <1>4, <1>5 DEF Standing, Printed

-----------------------------------------------------------------------------
(* The turns of a program *)

\* The program does one thing more, or nothing.
LEMMA WorksKeeps ==
  ASSUME NEW p \in Programs, NEW l, NEW w,
         Summed(l), stdout \in Streams, toPage \in Seq(Messages), program \in Programs,
         p.printed = program.printed, p.stage = "drain" => l.drain # "over",
         Standing(page, run, stdout, p, l, toPage, w),
         p.exit = "no" => Open(page, run, stdout, p, l, toPage, w),
         N!Works(p, l)
  PROVE  /\ program' \in Programs /\ loop' \in Loops /\ toPage' \in Seq(Messages)
         /\ Standing(page, run, stdout, program', loop', toPage', w)
         /\ program'.exit = p.exit
         /\ p.exit = "no" => Open(page, run, stdout, program', loop', toPage', w)
  <1>0. /\ l \in Loops /\ CountsTrue(p, l) /\ l.tasks \in Seq(Tasks)
        /\ program.printed \in Nat /\ stdout.has \in Nat
        /\ p.said \in Nat /\ p.printed \in Nat
    BY LoopFields, ProgramFields, StreamFields DEF Summed, Standing
  <1>1. CASE program' = p /\ loop' = l /\ toPage' = toPage
    BY <1>0, <1>1
  <1>2. CASE /\ program' = [p EXCEPT !.started = @ + 1]
             /\ loop' = N!StartOp(l) /\ toPage' = toPage
    <2>0. p.started + 1 \in Nat /\ program' = [p EXCEPT !.started = p.started + 1]
      BY <1>2, ProgramFields
    <2>1. /\ program'.stage = p.stage /\ program'.exit = p.exit /\ program'.printed = p.printed
          /\ program'.said = p.said /\ program'.flushes = p.flushes
          /\ program'.timed = p.timed /\ program'.fired = p.fired /\ program'.graced = p.graced
      BY <2>0 DEF Programs
    <2>2. /\ Summed(loop') /\ loop'.ops = l.ops + 1 /\ loop'.timers = l.timers
          /\ loop'.drain = l.drain /\ loop'.tasks = l.tasks
      BY <1>2, StartOpCounts
    <2>3. l.ops \in Nat /\ Len(p.flushes) \in Nat
      BY <1>0, LoopFields, ProgramFields
    <2>4. CountsTrue(program', loop')
      BY <1>0, <2>1, <2>2, <2>3 DEF CountsTrue, Summed, Pending, Grace
    <2>5. /\ Standing(page, run, stdout, program', loop', toPage, w)
          /\ Settling(program', loop'.tasks) <=> Settling(p, l.tasks)
      BY <1>0, <2>1, <2>4, <2>2, StandingOn DEF Quiet
    <2> QED BY <1>2, <2>1, <2>0, <2>2, <2>5 DEF Summed, Open, Programs
  <1>3. CASE /\ ~ p.timed
             /\ program' = [p EXCEPT !.timed = TRUE]
             /\ loop' = N!StartTimer(l) /\ toPage' = toPage
    <2>1. /\ program' \in Programs
          /\ program'.stage = p.stage /\ program'.exit = p.exit /\ program'.printed = p.printed
          /\ program'.said = p.said /\ program'.flushes = p.flushes
          /\ program'.timed = TRUE /\ program'.fired = p.fired /\ program'.graced = p.graced
      BY <1>3, ProgramFields DEF Programs
    <2>2. /\ Summed(loop') /\ loop'.ops = l.ops /\ loop'.timers = l.timers + 1
          /\ loop'.drain = l.drain /\ loop'.tasks = l.tasks
      BY <1>3, StartTimerCounts
    <2>3. CountsTrue(program', loop')
      <3>1. loop'.timers = One(Pending(program')) + One(Grace(program'))
        BY <1>0, <2>2, <1>3, <2>1 DEF CountsTrue, One, Pending, Grace
      <3> QED BY <1>0, <2>1, <2>2, <3>1 DEF CountsTrue, Summed
    <2>4. /\ Standing(page, run, stdout, program', loop', toPage, w)
          /\ Settling(program', loop'.tasks) <=> Settling(p, l.tasks)
      BY <1>0, <2>1, <2>3, <2>2, StandingOn DEF Quiet
    <2> QED BY <1>3, <2>1, <2>2, <2>4 DEF Summed, Open
  <1>4. CASE /\ program' = [p EXCEPT !.printed = @ + 1]
             /\ loop' = N!SetTimeout(l, "stdio") /\ toPage' = toPage
    <2>1. /\ program' \in Programs
          /\ program'.stage = p.stage /\ program'.exit = p.exit /\ program'.printed = p.printed + 1
          /\ program'.said = p.said /\ program'.flushes = p.flushes
          /\ program'.timed = p.timed /\ program'.fired = p.fired /\ program'.graced = p.graced
      BY <1>4, ProgramFields DEF Programs
    <2>2. /\ Summed(loop') /\ loop'.ops = l.ops /\ loop'.timers = l.timers
          /\ loop'.drain = l.drain /\ loop'.tasks = Append(l.tasks, "stdio") /\ loop'.refs = l.refs
      BY <1>0, <1>4, SetTimeoutAdds DEF Tasks
    <2>3. CountsTrue(program', loop')
      BY <1>0, <2>1, <2>2 DEF CountsTrue, Summed, Pending, Grace
    <2> DEFINE pp == [program' EXCEPT !.printed = p.printed]
    <2>4. /\ pp.stage = p.stage /\ pp.exit = p.exit /\ pp.printed = p.printed
          /\ pp.said = p.said /\ pp.flushes = p.flushes
          /\ pp.timed = p.timed /\ pp.fired = p.fired /\ pp.graced = p.graced
      BY <2>1 DEF Programs
    <2> HIDE DEF pp
    <2>5. CountsTrue(pp, loop')
      BY <2>1, <2>3, <2>4 DEF CountsTrue, Pending, Grace
    <2>6. /\ Standing(page, run, stdout, pp, loop', toPage, w)
          /\ Settling(pp, loop'.tasks) <=> Settling(p, l.tasks)
      BY <1>0, <2>2, <2>4, <2>5, StandingOn DEF Quiet
    <2>7. Has(loop'.tasks, "stdio")
      <3> DEFINE u == Append(l.tasks, "stdio")
      <3> QED BY <2>2, <1>0, HasAppend DEF Tasks
    <2>8. Printed(stdout, program', toPage)
      <3> QED BY <1>0, <2>1, <2>4, <2>6, ElementOfSeq, LenProperties, MessageFields, ProgramFields,
          StreamFields DEF Standing, Printed
    <2>9. Standing(page, run, stdout, program', loop', toPage, w)
      BY <2>1, <2>3, <2>4, <2>6, <2>7, <2>8
         DEF Standing, TasksRight, Carried, FlushesAsked, StartsOnce
    <2> QED BY <1>4, <2>1, <2>2, <2>9, <2>4, <2>6 DEF Summed, Open, Settling
  <1>5. CASE /\ program' = [p EXCEPT !.served = TRUE]
             /\ loop' = l /\ toPage' = Append(toPage, N!Message("serve", N!Ok))
    <2>1. /\ program' \in Programs
          /\ program'.stage = p.stage /\ program'.exit = p.exit /\ program'.printed = p.printed
          /\ program'.said = p.said /\ program'.flushes = p.flushes
          /\ program'.timed = p.timed /\ program'.fired = p.fired /\ program'.graced = p.graced
      BY <1>5, ProgramFields DEF Programs
    <2>2. Quiet(l.tasks, l.tasks)
      BY DEF Quiet
    <2>3. /\ Standing(page, run, stdout, program', l, toPage, w)
          /\ Settling(program', l.tasks) <=> Settling(p, l.tasks)
      BY <1>0, <2>1, <2>2, StandingOn DEF CountsTrue, Pending, Grace
    <2> DEFINE m == N!Message("serve", N!Ok)
    <2>4. m \in Messages /\ m.is = "serve" /\ m.out = p.printed
      BY <1>0, MessageMade DEF N!Ok
    <2> HIDE DEF m
    <2>5. /\ Standing(page, run, stdout, program', l, Append(toPage, m), w)
          /\ Past(page, run, stdout, Append(toPage, m), w) => Past(page, run, stdout, toPage, w) \/ Final(m)
      BY <1>0, <2>1, <2>3, <2>4, StandingSent
    <2>6. ~ Final(m)
      BY <2>4 DEF Final
    <2>7. Append(toPage, m) \in Seq(Messages)
      BY <2>4, AppendAt
    <2> QED BY <1>0, <1>5, <2>1, <2>3, <2>5, <2>6, <2>7 DEF Open, m
  <1> QED BY <1>1, <1>2, <1>3, <1>4, <1>5 DEF N!Works

\* An exit is announced while the end is open, with all that was printed.
LEMMA AnnounceStands ==
  ASSUME NEW g, NEW n, NEW st \in Streams, NEW p \in Programs, NEW l,
         NEW q \in Seq(Messages), NEW w, NEW m \in Messages, NEW pp \in Programs, NEW ll,
         Standing(g, n, st, p, l, q, w), ~ Past(g, n, st, q, w),
         m.is = "exiting", m.out = p.printed, p.stage # "none",
         pp.stage = p.stage, pp.printed = p.printed, pp.said = p.printed, pp.flushes = p.flushes,
         CountsTrue(pp, ll), TasksRight(pp, ll.tasks)
  PROVE  Standing(g, n, st, pp, ll, Append(q, m), w)
  <1>1. p.printed \in Nat /\ st.has \in Nat /\ st.taken \in Nat
    BY ProgramFields, StreamFields
  <1>2. Told(g, n, st, p.printed, q, w)
    BY <1>1, NothingTold
  <1>3. Told(g, n, st, pp.said, Append(q, m), w)
    <2>1. FlushesBehind(q, st.has, p.printed) /\ SaysEnough(q, st.taken, p.printed)
      BY <1>2 DEF Told
    <2>2. SaysEnough(Append(q, m), st.taken, p.printed)
      BY <1>1, <2>1, SentSays
    <2> QED BY <1>2, <1>1, <2>1, SentReaches, <2>2 DEF Told
  <1>4. Printed(st, pp, Append(q, m))
    <2> QED BY <1>1, BoundAppend DEF Standing, Printed
  <1>5. Carried(st, pp, ll, Append(q, m))
    <2>1. Reaches(Append(q, m), st.has, p.printed)
      BY <1>1, SentReaches
    <2> QED BY <2>1 DEF Carried, TasksBehind
  <1>6. FlushesAsked(st, pp, Append(q, m), w)
    <2> QED BY FlushesAppend DEF Standing, FlushesAsked
  <1> QED BY <1>3, <1>4, <1>5, <1>6 DEF Standing, StartsOnce

\* process.exit: nothing of it is lost, and what is said is what was printed.
LEMMA ExitKeeps ==
  ASSUME NEW p \in Programs, NEW l, NEW w,
         Summed(l), stdout \in Streams, toPage \in Seq(Messages), program \in Programs,
         p.printed = program.printed, p.stage = "drain" => l.drain # "over",
         p.exit = "no", p.stage # "none", ~ Has(l.tasks, "endFlush"),
         Standing(page, run, stdout, p, l, toPage, w), ~ Past(page, run, stdout, toPage, w),
         N!Exit(p, l)
  PROVE  /\ program' \in Programs /\ loop' \in Loops /\ toPage' \in Seq(Messages)
         /\ Standing(page, run, stdout, program', loop', toPage', w)
         /\ program'.exit # "no"
  <1>0. /\ l \in Loops /\ CountsTrue(p, l) /\ l.tasks \in Seq(Tasks) /\ TasksRight(p, l.tasks)
        /\ program.printed \in Nat /\ p.said \in Nat /\ p.printed \in Nat
    BY LoopFields, ProgramFields DEF Summed, Standing
  <1> DEFINE m == N!Message("exiting", N!Status)
  <1>1. m \in Messages /\ m.is = "exiting" /\ m.out = p.printed
    BY <1>0, MessageMade DEF N!Status
  <1>2. toPage' = Append(toPage, m)
    BY DEF N!Exit
  <1> HIDE DEF m
  <1>3. toPage' \in Seq(Messages)
    BY <1>1, <1>2, AppendAt
  <1>4. CASE /\ program' = [p EXCEPT !.exit = "handlers", !.wedged = TRUE, !.said = p.printed]
             /\ loop' = l
    <2>1. program' \in Programs
      BY <1>4, ProgramFields DEF Programs
    <2>2. /\ program'.stage = p.stage /\ program'.exit = "handlers" /\ program'.printed = p.printed
          /\ program'.said = p.printed /\ program'.flushes = p.flushes
          /\ program'.timed = p.timed /\ program'.fired = p.fired /\ program'.graced = p.graced
      BY <1>4 DEF Programs
    <2>3. CountsTrue(program', loop')
      <3>1. Pending(program') <=> Pending(p)
        BY <2>2 DEF Pending
      <3> QED BY <1>0, <1>4, <2>2, <3>1 DEF CountsTrue, One, Grace
    <2> QED BY <1>0, <1>1, <1>2, <1>3, <1>4, <2>1, <2>2, <2>3, AnnounceStands DEF TasksRight
  <1>5. CASE /\ program' = [p EXCEPT !.exit = "flush", !.said = p.printed]
             /\ loop' = N!SetTimeout(N!StartTimer(l), "exitFlush")
    <2>1. program' \in Programs
      BY <1>5, ProgramFields DEF Programs
    <2>2. /\ program'.stage = p.stage /\ program'.exit = "flush" /\ program'.printed = p.printed
          /\ program'.said = p.printed /\ program'.flushes = p.flushes
          /\ program'.timed = p.timed /\ program'.fired = p.fired /\ program'.graced = p.graced
      BY <1>5 DEF Programs
    <2> DEFINE k == N!StartTimer(l)
    <2>3. /\ Summed(k) /\ k.ops = l.ops /\ k.timers = l.timers + 1
          /\ k.drain = l.drain /\ k.tasks = l.tasks
      BY StartTimerCounts
    <2>4. loop' = N!SetTimeout(k, "exitFlush")
      BY <1>5
    <2> HIDE DEF k
    <2>5. /\ Summed(loop') /\ loop'.ops = l.ops /\ loop'.timers = l.timers + 1
          /\ loop'.drain = l.drain /\ loop'.tasks = Append(l.tasks, "exitFlush")
      BY <2>3, <2>4, SetTimeoutAdds DEF Summed, Tasks
    <2>6. CountsTrue(program', loop')
      <3>1. Pending(program') <=> Pending(p)
        BY <2>2 DEF Pending
      <3>2. loop'.timers = One(Pending(program')) + One(Grace(program'))
        BY <1>0, <2>5, <2>2, <3>1 DEF CountsTrue, One, Grace
      <3> QED BY <1>0, <2>2, <2>5, <3>2 DEF CountsTrue, Summed
    <2>7. TasksRight(program', loop'.tasks)
      <3>1. "exitFlush" \in Tasks
        BY DEF Tasks
      <3>2. \A i, j \in DOMAIN loop'.tasks :
              loop'.tasks[i] = "exitFlush" /\ loop'.tasks[j] = "exitFlush" => i = j
        <4>1. \A i, j \in DOMAIN l.tasks :
                l.tasks[i] = "exitFlush" /\ l.tasks[j] = "exitFlush" => i = j
          BY <1>0 DEF TasksRight
        <4> DEFINE t == l.tasks
        <4>2. /\ t \in Seq(Tasks) /\ ~ Has(t, "exitFlush")
              /\ \A i, j \in DOMAIN t : t[i] = "exitFlush" /\ t[j] = "exitFlush" => i = j
          BY <1>0, <4>1 DEF TasksRight
        <4> HIDE DEF t
        <4> DEFINE u == Append(t, "exitFlush")
        <4>3. \A i, j \in DOMAIN u : u[i] = "exitFlush" /\ u[j] = "exitFlush" => i = j
          BY <3>1, <4>2, OneAppend
        <4> QED BY <2>5, <4>3 DEF t
      <3>3. ~ Has(loop'.tasks, "endFlush")
        <4> DEFINE u == Append(l.tasks, "exitFlush")
        <4> QED BY <2>5, <1>0, <3>1, HasAppend
      <3> QED BY <2>2, <3>2, <3>3 DEF TasksRight
    <2> QED BY <1>0, <1>1, <1>2, <1>3, <2>1, <2>2, <2>5, <2>6, <2>7, AnnounceStands DEF Summed
  <1> QED BY <1>4, <1>5 DEF N!Exit

\* What was said is fixed by an exit.
LEMMA ThreadStands ==
  ASSUME NEW g, NEW n, NEW st, NEW p, NEW l, NEW q, NEW w
  PROVE  /\ ThreadOK(g, n, st, p, l, q, w) <=>
              /\ Standing(g, n, st, p, l, q, w)
              /\ Settling(p, l.tasks) \/ Past(g, n, st, q, w) => Fixed(p, l)
         /\ Standing(g, n, st, p, l, q, w) /\ p.exit # "no" => ThreadOK(g, n, st, p, l, q, w)
         /\ Standing(g, n, st, p, l, q, w) /\ Open(g, n, st, p, l, q, w) =>
              ThreadOK(g, n, st, p, l, q, w)
  BY DEF ThreadOK, Standing, Open, Fixed

\* A callback of the program.
LEMMA CallbackKeeps ==
  ASSUME NEW p \in Programs, NEW l, NEW w,
         Summed(l), stdout \in Streams, toPage \in Seq(Messages), program \in Programs,
         p.printed = program.printed, p.stage # "none", p.stage = "drain" => l.drain # "over",
         Standing(page, run, stdout, p, l, toPage, w),
         p.exit = "no" => Open(page, run, stdout, p, l, toPage, w),
         N!Callback(p, l)
  PROVE  /\ program' \in Programs /\ loop' \in Loops /\ toPage' \in Seq(Messages)
         /\ ThreadOK(page, run, stdout, program', loop', toPage', w)
  <1>1. CASE N!Works(p, l)
    <2> QED BY <1>1, WorksKeeps, ThreadStands
  <1>2. CASE p.exit = "no" /\ N!Exit(p, l)
    <2>1. /\ program' \in Programs /\ loop' \in Loops /\ toPage' \in Seq(Messages)
          /\ Standing(page, run, stdout, program', loop', toPage', w)
          /\ program'.exit # "no"
      BY <1>2, ExitKeeps DEF Open, Settling
    <2> QED BY <2>1, ThreadStands
  <1> QED BY <1>1, <1>2 DEF N!Callback

\* A turn of the module.
LEMMA ModuleKeeps ==
  ASSUME NEW p \in Programs, NEW l, NEW w,
         Summed(l), stdout \in Streams, toPage \in Seq(Messages), program \in Programs,
         p.printed = program.printed, p.stage = "module",
         Standing(page, run, stdout, p, l, toPage, w),
         p.exit = "no" => Open(page, run, stdout, p, l, toPage, w),
         N!ModuleRuns(p, l)
  PROVE  /\ program' \in Programs /\ loop' \in Loops /\ toPage' \in Seq(Messages)
         /\ ThreadOK(page, run, stdout, program', loop', toPage', w)
  <1>1. CASE N!Works(p, l)
    <2> QED BY <1>1, WorksKeeps, ThreadStands
  <1>2. CASE p.exit = "no" /\ N!Exit([p EXCEPT !.stage = "unwound"], l)
    <2> DEFINE u == [p EXCEPT !.stage = "unwound"]
    <2>1. u \in Programs
      BY DEF Programs
    <2>2. /\ u.stage = "unwound" /\ u.exit = p.exit /\ u.printed = p.printed /\ u.said = p.said
          /\ u.flushes = p.flushes /\ u.timed = p.timed /\ u.fired = p.fired /\ u.graced = p.graced
      BY DEF Programs
    <2>3. N!Exit(u, l)
      BY <1>2
    <2> HIDE DEF u
    <2>4. ~ Has(l.tasks, "endFlush") /\ ~ Past(page, run, stdout, toPage, w)
      BY <1>2 DEF Open, Settling
    <2>5. CountsTrue(u, l) /\ TasksRight(u, l.tasks)
      BY <2>2, <2>4 DEF Standing, CountsTrue, TasksRight, Pending, Grace
    <2>6. Standing(page, run, stdout, u, l, toPage, w)
      BY <2>2, <2>5 DEF Standing, Printed, Carried, FlushesAsked, StartsOnce
    <2>7. /\ program' \in Programs /\ loop' \in Loops /\ toPage' \in Seq(Messages)
          /\ Standing(page, run, stdout, program', loop', toPage', w)
          /\ program'.exit # "no"
      BY <1>2, <2>1, <2>2, <2>3, <2>4, <2>6, ExitKeeps
    <2> QED BY <2>7, ThreadStands
  <1> QED BY <1>1, <1>2 DEF N!ModuleRuns

-----------------------------------------------------------------------------
(* The steps of the thread *)

\* What may change while what was printed and said stays.
LEMMA StandingMoves ==
  ASSUME NEW g, NEW n, NEW st, NEW p, NEW l, NEW q, NEW w, NEW pp, NEW ll, NEW ww,
         pp.printed = p.printed, pp.said = p.said, pp.exit # "no" => p.exit # "no",
         CountsTrue(pp, ll), TasksRight(pp, ll.tasks), FlushesAsked(st, pp, q, ww),
         StartsOnce(n, pp, ww), Told(g, n, st, p.said, q, ww),
         Has(l.tasks, "stdio") => Has(ll.tasks, "stdio"),
         \A b \in BOOLEAN : TasksBehind(l.tasks, b) => TasksBehind(ll.tasks, b),
         Standing(g, n, st, p, l, q, w)
  PROVE  Standing(g, n, st, pp, ll, q, ww)
  <1>1. ASSUME ~ g.terminated PROVE Carried(st, pp, ll, q)
    <2>1. Carried(st, p, l, q)
      BY <1>1 DEF Standing
    <2> DEFINE b == Reaches(q, st.has, p.said)
    <2>2. b \in BOOLEAN
      BY DEF Reaches
    <2>3. TasksBehind(l.tasks, b)
      BY <2>1 DEF Carried
    <2> HIDE DEF b
    <2>4. TasksBehind(ll.tasks, b)
      BY <2>2, <2>3
    <2> QED BY <2>1, <2>4 DEF Carried, b
  <1> QED BY <1>1 DEF Standing, Printed

\* The program is at another stage, with nothing of its end flushed.
LEMMA StageMoves ==
  ASSUME NEW g, NEW n, NEW st, NEW p, NEW l, NEW q, NEW w, NEW pp,
         pp.printed = p.printed, pp.said = p.said, pp.exit = p.exit, pp.flushes = p.flushes,
         pp.timed = p.timed, pp.fired = p.fired, pp.graced = p.graced,
         p.stage # "none", pp.stage # "none", ~ Has(l.tasks, "endFlush"),
         pp.stage = "drain" => l.drain # "over",
         Standing(g, n, st, p, l, q, w)
  PROVE  Standing(g, n, st, pp, l, q, w)
  <1>1. CountsTrue(pp, l) /\ TasksRight(pp, l.tasks)
    BY DEF Standing, CountsTrue, TasksRight, Pending, Grace
  <1>2. FlushesAsked(st, pp, q, w) /\ StartsOnce(n, pp, w) /\ Told(g, n, st, p.said, q, w)
    BY DEF Standing, FlushesAsked, StartsOnce
  <1> QED BY <1>1, <1>2, StandingMoves

\* An order is taken from those on their way.
LEMMA OrderTaken ==
  ASSUME NEW g, NEW n, NEW st \in Streams, NEW p \in Programs, NEW l, NEW q \in Seq(Messages),
         NEW w \in Seq(Orders), w # <<>>, Standing(g, n, st, p, l, q, w)
  PROVE  /\ Standing(g, n, st, p, l, q, Tail(w))
         /\ Past(g, n, st, q, Tail(w)) => Past(g, n, st, q, w)
         /\ Tail(w) \in Seq(Orders)
         /\ Head(w) = "execute" =>
              /\ p.stage = "none" /\ n.sent /\ ~ Has(Tail(w), "execute")
         /\ Head(w) = "flushed" =>
              /\ st.taken >= p.said /\ Past(g, n, st, q, w)
              /\ Cardinality(Flushes(q)) + Len(st.flushes) + Cardinality(Answers(Tail(w))) + 1
                   <= Len(p.flushes)
              /\ p.flushes # <<>>
  <1>1. Tail(w) \in Seq(Orders) /\ Has(w, Head(w))
    BY TailAt DEF Has
  <1>2. /\ Cardinality(Answers(Tail(w))) \in Nat
        /\ Head(w) = "flushed" => Cardinality(Answers(w)) = Cardinality(Answers(Tail(w))) + 1
        /\ Head(w) # "flushed" => Cardinality(Answers(w)) = Cardinality(Answers(Tail(w)))
        /\ Answers(Tail(w)) # {} => Answers(w) # {}
        /\ Head(w) = "flushed" => Answers(w) # {}
    BY AnswersTail
  <1>3. Cardinality(Flushes(q)) \in Nat /\ Len(st.flushes) \in Nat /\ Len(p.flushes) \in Nat
    BY StreamFields, ProgramFields, FlushesCount
  <1>4. FlushesAsked(st, p, q, Tail(w))
    BY <1>2, <1>3 DEF Standing, FlushesAsked
  <1>5. StartsOnce(n, p, Tail(w)) /\ (Head(w) = "execute" => ~ Has(Tail(w), "execute"))
    <2> DEFINE v == Tail(w)
    <2>1. /\ \A i, j \in DOMAIN v : v[i] = "execute" /\ v[j] = "execute" => i = j
          /\ Head(w) = "execute" => ~ Has(v, "execute")
      BY OneTail DEF Standing, StartsOnce
    <2> QED BY HasTail, <2>1 DEF Standing, StartsOnce
  <1>6. Standing(g, n, st, p, l, q, Tail(w))
    BY <1>2, <1>4, <1>5 DEF Standing, Told
  <1>7. ASSUME Head(w) = "flushed"
        PROVE  /\ st.taken >= p.said /\ Past(g, n, st, q, w)
               /\ Cardinality(Flushes(q)) + Len(st.flushes) + Cardinality(Answers(Tail(w))) + 1
                    <= Len(p.flushes)
               /\ p.flushes # <<>>
    <2>1. Cardinality(Flushes(q)) + Len(st.flushes) + Cardinality(Answers(Tail(w))) + 1
                    <= Len(p.flushes)
      BY <1>2, <1>3, <1>7 DEF Standing, FlushesAsked
    <2>2. Len(p.flushes) # 0
      BY <1>2, <1>3, <2>1
    <2> QED BY <1>2, <1>7, <2>1, <2>2 DEF Standing, Told, Past
  <1>8. Past(g, n, st, q, Tail(w)) => Past(g, n, st, q, w)
    BY <1>2 DEF Past
  <1> QED BY <1>1, <1>5, <1>6, <1>7, <1>8 DEF Standing, StartsOnce

\* What a step of the thread may rely on.
LEMMA AliveThread ==
  ASSUME WorkerInv, N!Alive
  PROVE  /\ ~ page.terminated
         /\ page \in Pages /\ run \in HostRuns /\ stdout \in Streams
         /\ program \in Programs /\ loop \in Loops /\ Summed(loop)
         /\ toPage \in Seq(Messages) /\ toWorker \in Seq(Orders)
         /\ CountsTrue(program, loop) /\ TasksRight(program, loop.tasks)
         /\ Carried(stdout, program, loop, toPage)
         /\ Standing(page, run, stdout, program, loop, toPage, toWorker)
         /\ Settling(program, loop.tasks) \/ Past(page, run, stdout, toPage, toWorker) =>
              Fixed(program, loop)
         /\ ~ Fixed(program, loop) => Open(page, run, stdout, program, loop, toPage, toWorker)
         /\ program.stage = "drain" /\ loop.drain = "over" =>
              program.flushes = <<>> /\ loop.ops = 0 /\ loop.timers = 0 /\ ~ Pending(program)
  <1>1. ~ page.terminated
    BY DEF WorkerInv, Outlived, N!Alive
  <1>2. /\ page \in Pages /\ run \in HostRuns /\ stdout \in Streams
        /\ program \in Programs /\ loop \in Loops
        /\ toPage \in Seq(Messages) /\ toWorker \in Seq(Orders)
    BY DEF WorkerInv, WorkerTypes
  <1>3. /\ Standing(page, run, stdout, program, loop, toPage, toWorker)
        /\ Settling(program, loop.tasks) \/ Past(page, run, stdout, toPage, toWorker) =>
              Fixed(program, loop)
    BY ThreadStands DEF WorkerInv
  <1>4. CountsTrue(program, loop) /\ TasksRight(program, loop.tasks)
    BY <1>3 DEF Standing
  <1>5. Carried(stdout, program, loop, toPage)
    BY <1>1, <1>3 DEF Standing
  <1>6. ASSUME program.stage = "drain" /\ loop.drain = "over"
        PROVE  program.flushes = <<>> /\ loop.ops = 0 /\ loop.timers = 0 /\ ~ Pending(program)
    <2>1. /\ loop.refs \in Nat /\ loop.ops \in Nat /\ loop.timers \in Nat /\ loop.deferred \in Nat
          /\ Len(program.flushes) \in Nat /\ program.flushes \in Seq({"exit", "end"})
      BY <1>2, LoopFields, ProgramFields
    <2>2. loop.ops = 0 /\ loop.timers = 0 /\ Len(program.flushes) = 0
      BY <2>1, <1>4, <1>6 DEF CountsTrue
    <2> QED BY <2>1, <2>2, <1>4, EmptySeq DEF CountsTrue, One
  <1> QED BY <1>1, <1>2, <1>3, <1>4, <1>5, <1>6 DEF Open, Summed, CountsTrue

\* The thread leaves the page as it is.
LEMMA ThreadLeaves ==
  ASSUME WorkerInv, UNCHANGED <<page, run, owned, stdout>>,
         program' \in Programs, loop' \in Loops, toPage' \in Seq(Messages),
         toWorker' \in Seq(Orders),
         ThreadOK(page, run, stdout, program', loop', toPage', toWorker')
  PROVE  WorkerInv'
  <1>1. ThreadOK(page', run', stdout', program', loop', toPage', toWorker')
    OBVIOUS
  <1> QED BY <1>1 DEF WorkerInv, WorkerTypes, Outlived

LEMMA OnInitKeeps ==
  ASSUME WorkerInv, N!OnInit PROVE WorkerInv'
  <1>0. N!Alive /\ toWorker # <<>>
    BY DEF N!OnInit
  <1>1. /\ Standing(page, run, stdout, program, loop, toPage, Tail(toWorker))
        /\ Past(page, run, stdout, toPage, Tail(toWorker)) => Past(page, run, stdout, toPage, toWorker)
        /\ Tail(toWorker) \in Seq(Orders)
    BY <1>0, AliveThread, OrderTaken
  <1> DEFINE m == N!Reply("ready", N!Ok)
  <1>2. m \in Messages /\ m.is = "ready" /\ m.out = 0
    BY <1>0, AliveThread, ProgramFields, MessageMade DEF N!Ok, Codes
  <1>3. toPage' = Append(toPage, m) /\ toWorker' = Tail(toWorker)
    BY DEF N!OnInit
  <1> HIDE DEF m
  <1>4. ~ Final(m) /\ m.out <= program.printed
    BY <1>0, <1>2, AliveThread, ProgramFields DEF Final
  <1>5. /\ Standing(page, run, stdout, program, loop, toPage', toWorker')
        /\ Past(page, run, stdout, toPage', toWorker') => Past(page, run, stdout, toPage, toWorker)
    BY <1>0, <1>1, <1>2, <1>3, <1>4, AliveThread, StandingSent
  <1>6. UNCHANGED <<page, run, owned, stdout, program, loop>>
    BY DEF N!OnInit, N!worker
  <1>7. ThreadOK(page, run, stdout, program', loop', toPage', toWorker')
    BY <1>0, <1>5, AliveThread, ThreadStands, <1>6
  <1> QED BY <1>0, <1>1, <1>3, <1>2, AliveThread, AppendAt, <1>6, <1>7, ThreadLeaves

LEMMA OnExecuteKeeps ==
  ASSUME WorkerInv, N!OnExecute PROVE WorkerInv'
  <1>0. N!Alive /\ toWorker # <<>> /\ Head(toWorker) = "execute"
    BY DEF N!OnExecute
  <1>1. /\ Standing(page, run, stdout, program, loop, toPage, Tail(toWorker))
        /\ Past(page, run, stdout, toPage, Tail(toWorker)) => Past(page, run, stdout, toPage, toWorker)
        /\ Tail(toWorker) \in Seq(Orders)
        /\ program.stage = "none" /\ run.sent /\ ~ Has(Tail(toWorker), "execute")
    BY <1>0, AliveThread, OrderTaken
  <1> DEFINE p == [program EXCEPT !.stage = "module"]
  <1>2. p \in Programs
    BY <1>0, AliveThread DEF Programs
  <1>3. /\ p.stage = "module" /\ p.exit = program.exit /\ p.printed = program.printed
        /\ p.said = program.said /\ p.flushes = program.flushes
        /\ p.timed = program.timed /\ p.fired = program.fired /\ p.graced = program.graced
    BY <1>0, AliveThread DEF Programs
  <1>4. N!ModuleRuns(p, loop) /\ toWorker' = Tail(toWorker) /\ UNCHANGED <<page, run, owned, stdout>>
    BY DEF N!OnExecute
  <1> HIDE DEF p
  <1>5. CountsTrue(p, loop) /\ TasksRight(p, loop.tasks)
    BY <1>0, <1>3, <1>1, AliveThread DEF CountsTrue, TasksRight, Pending, Grace
  <1>6. Standing(page, run, stdout, p, loop, toPage, toWorker')
    BY <1>1, <1>3, <1>4, <1>5 DEF Standing, Printed, Carried, FlushesAsked, StartsOnce
  <1>7. ASSUME p.exit = "no" PROVE Open(page, run, stdout, p, loop, toPage, toWorker')
    <2>1. Open(page, run, stdout, program, loop, toPage, toWorker)
      BY <1>0, <1>1, <1>3, <1>7, AliveThread DEF Fixed
    <2> QED BY <1>1, <1>3, <1>4, <2>1 DEF Open, Settling
  <1>8. /\ program' \in Programs /\ loop' \in Loops /\ toPage' \in Seq(Messages)
        /\ ThreadOK(page, run, stdout, program', loop', toPage', toWorker')
    BY <1>0, <1>2, <1>3, <1>4, <1>6, <1>7, AliveThread, ModuleKeeps
  <1> QED BY <1>1, <1>4, <1>8, ThreadLeaves

LEMMA ModuleGoesOnKeeps ==
  ASSUME WorkerInv, N!ModuleGoesOn PROVE WorkerInv'
  <1>0. N!Alive /\ program.stage = "module" /\ N!ModuleRuns(program, loop)
        /\ UNCHANGED <<page, run, owned, stdout, toWorker>>
    BY DEF N!ModuleGoesOn
  <1>1. /\ program' \in Programs /\ loop' \in Loops /\ toPage' \in Seq(Messages)
        /\ ThreadOK(page, run, stdout, program', loop', toPage', toWorker)
    BY <1>0, AliveThread, ModuleKeeps DEF Fixed
  <1> QED BY <1>0, <1>1, AliveThread, ThreadLeaves

LEMMA OpCompletesKeeps ==
  ASSUME WorkerInv, N!OpCompletes PROVE WorkerInv'
  <1>0. N!Alive /\ program.stage # "none" /\ loop.ops > Len(program.flushes) /\ N!Callback(program, N!EndOp(loop))
        /\ UNCHANGED <<page, run, owned, stdout, toWorker>>
    BY DEF N!OpCompletes, N!Turns
  <1>1. loop.ops \in Nat /\ Len(program.flushes) \in Nat /\ loop.ops # 0
    BY <1>0, AliveThread, LoopFields, ProgramFields
  <1> DEFINE k == N!EndOp(loop)
  <1>2. /\ Summed(k) /\ k.ops = loop.ops - 1 /\ k.timers = loop.timers /\ k.refs = loop.refs
        /\ k.drain = loop.drain /\ Quiet(loop.tasks, k.tasks)
    BY <1>0, <1>1, AliveThread, EndOpCounts
  <1>3. N!Callback(program, k)
    BY <1>0
  <1> HIDE DEF k
  <1>4. /\ Standing(page, run, stdout, program, k, toPage, toWorker)
        /\ Settling(program, k.tasks) <=> Settling(program, loop.tasks)
    BY <1>0, <1>2, <1>1, AliveThread, StandingOn DEF CountsTrue, Summed
  <1>5. program.stage = "drain" => k.drain # "over"
    BY <1>0, <1>1, <1>2, AliveThread
  <1>6. program.exit = "no" => Open(page, run, stdout, program, k, toPage, toWorker)
    BY <1>0, <1>1, <1>4, AliveThread DEF Fixed, Open
  <1>7. /\ program' \in Programs /\ loop' \in Loops /\ toPage' \in Seq(Messages)
        /\ ThreadOK(page, run, stdout, program', loop', toPage', toWorker)
    BY <1>0, <1>2, <1>3, <1>4, <1>5, <1>6, AliveThread, CallbackKeeps
  <1> QED BY <1>0, <1>7, AliveThread, ThreadLeaves

LEMMA TimerFiresKeeps ==
  ASSUME WorkerInv, N!TimerFires PROVE WorkerInv'
  <1> DEFINE k == N!EndTimer(loop)
             p == [program EXCEPT !.fired = TRUE]
  <1>0. N!Alive /\ program.stage # "none" /\ Pending(program) /\ N!Callback(p, k)
        /\ UNCHANGED <<page, run, owned, stdout, toWorker>>
    BY DEF N!TimerFires, N!Turns, Pending
  <1>1. p \in Programs
    BY <1>0, AliveThread DEF Programs
  <1>2. /\ p.stage = program.stage /\ p.exit = program.exit /\ p.printed = program.printed
        /\ p.said = program.said /\ p.flushes = program.flushes
        /\ p.timed = program.timed /\ p.fired = TRUE /\ p.graced = program.graced
    BY <1>0, AliveThread DEF Programs
  <1>3. loop.timers # 0 /\ loop.timers \in Nat
    <2> QED BY <1>0, AliveThread DEF One, CountsTrue
  <1>4. /\ Summed(k) /\ k.ops = loop.ops /\ k.timers = loop.timers - 1
        /\ k.drain = "over" => loop.drain = "over"
        /\ Quiet(loop.tasks, k.tasks)
    BY <1>0, <1>3, AliveThread, EndTimerCounts
  <1> HIDE DEF k, p
  <1>5. program.stage = "drain" => k.drain # "over"
    BY <1>0, <1>4, AliveThread
  <1>6. CountsTrue(p, k)
    <2>1. ~ Pending(p) /\ (Grace(p) <=> Grace(program)) /\ program.timed
      BY <1>0, <1>2 DEF Pending, Grace
    <2> QED BY <1>0, <1>2, <1>4, <1>5, <2>1, <1>3, AliveThread DEF CountsTrue, Summed, One
  <1>7. /\ Standing(page, run, stdout, p, k, toPage, toWorker)
        /\ Settling(p, k.tasks) <=> Settling(program, loop.tasks)
    BY <1>0, <1>2, <1>4, <1>6, AliveThread, StandingOn
  <1>8. p.exit = "no" => Open(page, run, stdout, p, k, toPage, toWorker)
    BY <1>0, <1>2, <1>7, AliveThread DEF Fixed, Open
  <1>9. /\ program' \in Programs /\ loop' \in Loops /\ toPage' \in Seq(Messages)
        /\ ThreadOK(page, run, stdout, program', loop', toPage', toWorker)
    BY <1>0, <1>1, <1>2, <1>4, <1>5, <1>7, <1>8, AliveThread, CallbackKeeps
  <1> QED BY <1>0, <1>9, AliveThread, ThreadLeaves

\* The answer to ctl.execute that waited for the loop is made ready: what it says is all
\* that was printed, unless an exit said less before.
LEMMA EndingKeeps ==
  ASSUME NEW c \in {"ok", "status"}, WorkerInv, N!Alive,
         program.stage \in {"unwound", "drain"},
         program.stage = "drain" => loop.drain = "over",
         N!Ending(program, loop, c),
         UNCHANGED <<page, run, owned, stdout, toPage, toWorker>>
  PROVE  WorkerInv'
  <1> DEFINE said == IF program.exit = "no" THEN program.printed ELSE program.said
             off == [loop EXCEPT !.drain = "off"]
             t == loop.tasks
  <1>0. program.printed \in Nat /\ program.said \in Nat /\ said \in Nat /\ t \in Seq(Tasks)
    BY AliveThread, ProgramFields, LoopFields
  <1>1. program' = [program EXCEPT !.stage = "flush", !.code = c, !.said = said]
    BY DEF N!Ending
  <1>2. program' \in Programs
    BY <1>0, <1>1, AliveThread DEF Programs
  <1>3. /\ program'.stage = "flush" /\ program'.exit = program.exit
        /\ program'.printed = program.printed
        /\ program'.said = said /\ program'.flushes = program.flushes
        /\ program'.timed = program.timed /\ program'.fired = program.fired
        /\ program'.graced = program.graced
    BY <1>1, AliveThread DEF Programs
  <1>4. /\ Summed(off) /\ off.ops = loop.ops /\ off.timers = loop.timers /\ off.tasks = t
        /\ off.drain = "off"
    BY AliveThread, LoopFields DEF Summed, Loops
  <1>5. loop' = N!SetTimeout(off, "endFlush")
    BY DEF N!Ending
  <1> HIDE DEF off, t
  <1>6. "endFlush" \in Tasks
    BY DEF Tasks
  <1>7. /\ Summed(loop') /\ loop'.ops = loop.ops /\ loop'.timers = loop.timers
        /\ loop'.tasks = Append(t, "endFlush") /\ loop'.drain = "off"
    BY <1>4, <1>5, <1>6, SetTimeoutAdds DEF Summed
  <1>8. CountsTrue(program', loop')
    BY <1>3, <1>7, AliveThread DEF CountsTrue, Summed, Pending, Grace
  <1>9. TasksRight(program', loop'.tasks)
    <2>1. \A i, j \in DOMAIN t : t[i] = "exitFlush" /\ t[j] = "exitFlush" => i = j
      BY AliveThread DEF TasksRight, t
    <2> DEFINE u == Append(t, "endFlush")
    <2>2. \A i, j \in DOMAIN u : u[i] = "exitFlush" /\ u[j] = "exitFlush" => i = j
      BY <1>0, <1>6, <2>1, OneAppend
    <2>3. Has(u, "exitFlush") <=> Has(t, "exitFlush")
      BY <1>0, <1>6, HasAppend
    <2>4. Has(t, "exitFlush") => program.exit = "flush"
      BY AliveThread DEF TasksRight, t
    <2> HIDE DEF u
    <2>5. loop'.tasks = u
      BY <1>7 DEF u
    <2> QED BY <1>3, <2>2, <2>3, <2>4, <2>5 DEF TasksRight
  <1>10. /\ FlushesAsked(stdout, program', toPage, toWorker) /\ StartsOnce(run, program', toWorker)
         /\ Printed(stdout, program', toPage)
    <2> QED BY <1>0, <1>3, AliveThread DEF FlushesAsked, StartsOnce, Printed, Standing
  <1>11. Has(loop'.tasks, "stdio") <=> Has(t, "stdio")
    BY <1>0, <1>6, <1>7, HasAppend
  <1>12. Carried(stdout, program, loop, toPage)
    BY AliveThread
  <1>13. CASE program.exit # "no"
    <2>1. Reaches(toPage, stdout.has, program'.said)
      BY <1>3, <1>12, <1>13 DEF Carried
    <2>2. Carried(stdout, program', loop', toPage)
      BY <1>3, <1>11, <1>12, <2>1 DEF Carried, t, TasksBehind
    <2>3. Standing(page, run, stdout, program', loop', toPage, toWorker)
      BY <1>8, <1>9, <1>10, <2>2, <1>3, <1>13, AliveThread DEF Standing
    <2> QED BY <1>2, <1>7, <1>3, <1>13, <2>3, ThreadStands, AliveThread, ThreadLeaves DEF Summed
  <1>14. CASE program.exit = "no"
    <2>1. Open(page, run, stdout, program, loop, toPage, toWorker)
      BY <1>14, AliveThread DEF Fixed
    <2> DEFINE b == Reaches(toPage, stdout.has, program.printed)
               u == Append(t, "endFlush")
    <2>2. b \in BOOLEAN /\ (b \/ Has(t, "stdio"))
      BY <1>12 DEF Carried, Reaches, t
    <2>3. TasksBehind(t, b)
      BY <2>1 DEF TasksBehind, Has, Open, Settling, t
    <2> HIDE DEF b
    <2>4. TasksBehind(u, b)
      BY <1>0, <1>6, <2>2, <2>3, BehindAppend
    <2>5. Carried(stdout, program', loop', toPage)
      BY <1>3, <1>11, <1>12, <1>14, <1>7, <2>4 DEF Carried, t, b
    <2>6. Standing(page, run, stdout, program', loop', toPage, toWorker)
      BY <1>8, <1>9, <1>10, <1>0, <1>3, <2>1, AliveThread, NothingTold, <2>5 DEF Standing, Open
    <2>7. Fixed(program', loop')
      <3>1. program.flushes = <<>> /\ loop.ops = 0 /\ ~ Pending(program)
        BY <2>1, AliveThread DEF Open, Settling
      <3> QED BY <1>3, <1>7, <3>1 DEF Fixed, Pending
    <2> QED BY <1>2, <1>7, <2>6, <2>7, ThreadStands, AliveThread, ThreadLeaves DEF Summed
  <1> QED BY <1>13, <1>14

LEMMA DrainEndsKeeps ==
  ASSUME WorkerInv, N!DrainEnds PROVE WorkerInv'
  BY EndingKeeps DEF N!DrainEnds, N!Ok

LEMMA ModuleEndsKeeps ==
  ASSUME WorkerInv, N!ModuleEnds PROVE WorkerInv'
  <1>0. N!Alive /\ UNCHANGED <<page, run, owned, stdout, toPage, toWorker>>
    BY DEF N!ModuleEnds
  <1>1. CASE /\ program.stage = "module"
             /\ program' = [program EXCEPT !.stage = "drain"]
             /\ loop' = N!Drain(loop)
    <2>1. program' \in Programs
      BY <1>0, <1>1, AliveThread DEF Programs
    <2>2. /\ program'.stage = "drain" /\ program'.exit = program.exit
          /\ program'.printed = program.printed
          /\ program'.said = program.said /\ program'.flushes = program.flushes
          /\ program'.timed = program.timed /\ program'.fired = program.fired
          /\ program'.graced = program.graced
      BY <1>0, <1>1, AliveThread DEF Programs
    <2>3. /\ Summed(loop') /\ loop'.ops = loop.ops /\ loop'.timers = loop.timers
          /\ loop'.refs = loop.refs /\ loop'.drain # "over" /\ Quiet(loop.tasks, loop'.tasks)
      BY <1>0, <1>1, AliveThread, DrainCounts
    <2>4. CountsTrue(program, loop')
      BY <1>0, <2>3, AliveThread DEF CountsTrue, Summed
    <2>5. /\ Standing(page, run, stdout, program, loop', toPage, toWorker)
          /\ Settling(program, loop'.tasks) <=> Settling(program, loop.tasks)
      BY <1>0, <2>3, <2>4, AliveThread, StandingOn
    <2>6. ~ Has(loop'.tasks, "endFlush")
      BY <1>1, <2>5 DEF Standing, TasksRight
    <2>7. Standing(page, run, stdout, program', loop', toPage, toWorker)
      BY <1>1, <2>2, <2>3, <2>5, <2>6, StageMoves
    <2>8. CASE program.exit # "no"
      BY <1>0, <2>1, <2>2, <2>3, <2>7, <2>8, AliveThread, ThreadStands, ThreadLeaves DEF Summed
    <2>9. CASE program.exit = "no"
      <3>1. Open(page, run, stdout, program', loop', toPage, toWorker)
        BY <2>2, <2>5, <2>6, <1>0, <1>1, <2>9, AliveThread DEF Open, Settling, Fixed
      <3> QED BY <1>0, <2>1, <2>3, <2>7, <3>1, AliveThread, ThreadStands, ThreadLeaves DEF Summed
    <2> QED BY <2>8, <2>9
  <1>2. CASE program.stage = "unwound" /\ N!Ending(program, loop, N!Status)
    BY <1>0, <1>2, EndingKeeps DEF N!Status
  <1> QED BY <1>1, <1>2 DEF N!ModuleEnds

LEMMA ModuleThrowsKeeps ==
  ASSUME WorkerInv, N!ModuleThrows PROVE WorkerInv'
  <1> DEFINE said == IF program.exit = "no" THEN program.printed ELSE program.said
             m == N!Reply("returned", N!Threw)
  <1>0. /\ N!Alive /\ program.stage = "module"
        /\ UNCHANGED <<page, run, owned, stdout, loop, toWorker>>
        /\ toPage' = Append(toPage, m)
        /\ program' = [program EXCEPT !.stage = "replied", !.said = said]
    BY DEF N!ModuleThrows
  <1>1. program.printed \in Nat /\ program.said \in Nat /\ said \in Nat
    BY <1>0, AliveThread, ProgramFields
  <1>2. program' \in Programs
    BY <1>0, <1>1, AliveThread DEF Programs
  <1>3. /\ program'.stage = "replied" /\ program'.exit = program.exit
        /\ program'.printed = program.printed
        /\ program'.said = said /\ program'.flushes = program.flushes
        /\ program'.timed = program.timed /\ program'.fired = program.fired
        /\ program'.graced = program.graced
    BY <1>0, AliveThread DEF Programs
  <1>4. m \in Messages /\ m.is = "returned" /\ m.code = "threw" /\ m.out = 0
    BY <1>1, MessageMade DEF N!Threw, Codes
  <1> HIDE DEF m
  <1>5. ~ Final(m) /\ m.out <= program'.printed /\ toPage' \in Seq(Messages)
    BY <1>0, <1>1, <1>3, <1>4, AliveThread, AppendAt DEF Final
  <1>6. ~ Has(loop.tasks, "endFlush")
    BY <1>0, AliveThread DEF TasksRight
  <1> DEFINE pp == [program' EXCEPT !.said = program.said]
  <1>7. /\ pp.stage = "replied" /\ pp.exit = program.exit /\ pp.printed = program.printed
        /\ pp.said = program.said /\ pp.flushes = program.flushes
        /\ pp.timed = program.timed /\ pp.fired = program.fired /\ pp.graced = program.graced
    BY <1>2, <1>3 DEF Programs
  <1> HIDE DEF pp
  <1>8. Standing(page, run, stdout, pp, loop, toPage, toWorker)
    BY <1>0, <1>6, <1>7, AliveThread, StageMoves
  <1>9. Standing(page, run, stdout, program', loop, toPage, toWorker)
    <2>1. CASE program.exit # "no"
      BY <1>3, <1>7, <1>8, <2>1
         DEF Standing, CountsTrue, TasksRight, Printed, Carried, FlushesAsked, StartsOnce,
             Pending, Grace
    <2>2. CASE program.exit = "no"
      <3>1. Told(page, run, stdout, program'.said, toPage, toWorker)
        BY <1>0, <1>1, <1>3, <2>2, AliveThread, NothingTold DEF Open, Fixed
      <3>2. Carried(stdout, program', loop, toPage)
        BY <1>0, <1>3, <1>6, <2>2, AliveThread DEF Carried, TasksBehind, Has
      <3>3. Printed(stdout, program', toPage)
        BY <1>1, <1>3, <1>7, <1>8 DEF Standing, Printed
      <3> QED BY <1>3, <1>7, <1>8, <3>1, <3>2, <3>3
              DEF Standing, CountsTrue, TasksRight, FlushesAsked, StartsOnce, Pending, Grace
    <2> QED BY <2>1, <2>2
  <1>10. /\ Standing(page, run, stdout, program', loop, toPage', toWorker)
         /\ Past(page, run, stdout, toPage', toWorker) => Past(page, run, stdout, toPage, toWorker)
    BY <1>0, <1>2, <1>4, <1>5, <1>9, AliveThread, StandingSent
  <1>11. CASE program.exit # "no"
    BY <1>0, <1>2, <1>3, <1>5, <1>10, <1>11, AliveThread, ThreadStands, ThreadLeaves
  <1>12. CASE program.exit = "no"
    <2>1. Open(page, run, stdout, program', loop, toPage', toWorker)
      BY <1>3, <1>6, <1>10, <1>0, <1>12, AliveThread DEF Open, Settling, Fixed
    <2> QED BY <1>0, <1>2, <1>5, <1>10, <2>1, AliveThread, ThreadStands, ThreadLeaves
  <1> QED BY <1>11, <1>12

LEMMA GraceEndsKeeps ==
  ASSUME WorkerInv, N!GraceEnds PROVE WorkerInv'
  <1> DEFINE m == N!Message("exit", N!Status)
  <1>0. /\ N!Alive /\ program.exit \in {"asked", "told"} /\ ~ program.graced
        /\ program' = [program EXCEPT !.graced = TRUE, !.exit = "told"]
        /\ loop' = N!EndTimer(loop)
        /\ toPage' = IF program.exit = "asked" THEN Append(toPage, m) ELSE toPage
        /\ UNCHANGED <<page, run, owned, stdout, toWorker>>
    BY DEF N!GraceEnds
  <1>1. program' \in Programs
    BY <1>0, AliveThread DEF Programs
  <1>2. /\ program'.stage = program.stage /\ program'.exit = "told"
        /\ program'.printed = program.printed
        /\ program'.said = program.said /\ program'.flushes = program.flushes
        /\ program'.timed = program.timed /\ program'.fired = program.fired
        /\ program'.graced = TRUE
    BY <1>0, AliveThread DEF Programs
  <1>3. Grace(program) /\ ~ Grace(program') /\ (Pending(program') <=> Pending(program))
    BY <1>0, <1>2 DEF Grace, Pending
  <1>4. loop.timers # 0 /\ loop.timers \in Nat
    <2> QED BY <1>0, <1>3, AliveThread DEF One, CountsTrue
  <1>5. /\ Summed(loop') /\ loop'.ops = loop.ops /\ loop'.timers = loop.timers - 1
        /\ loop'.drain = "over" => loop.drain = "over"
        /\ Quiet(loop.tasks, loop'.tasks)
    BY <1>0, <1>4, AliveThread, EndTimerCounts
  <1>6. CountsTrue(program', loop')
    <2>1. loop'.timers = One(Pending(program')) + One(Grace(program'))
      BY <1>0, <1>3, <1>4, <1>5, AliveThread DEF CountsTrue, One
    <2> QED BY <1>0, <1>2, <1>5, <1>4, AliveThread, <2>1 DEF CountsTrue, Summed
  <1>7. loop.tasks \in Seq(Tasks)
    BY <1>0, AliveThread, LoopFields
  <1>8. TasksRight(program', loop'.tasks)
    <2>1. ~ Has(loop'.tasks, "exitFlush") /\ (Has(loop'.tasks, "endFlush") <=> Has(loop.tasks, "endFlush"))
      BY <1>5, <1>7, <1>0, AliveThread, QuietTasks DEF TasksRight
    <2> QED BY <1>0, <1>2, <2>1, AliveThread DEF TasksRight, Has
  <1>9. Standing(page, run, stdout, program', loop', toPage, toWorker)
    <2>1. /\ FlushesAsked(stdout, program', toPage, toWorker) /\ StartsOnce(run, program', toWorker)
          /\ Told(page, run, stdout, program.said, toPage, toWorker)
      BY <1>0, <1>2, AliveThread DEF Standing, FlushesAsked, StartsOnce
    <2>2. /\ Has(loop.tasks, "stdio") => Has(loop'.tasks, "stdio")
          /\ \A b \in BOOLEAN : TasksBehind(loop.tasks, b) => TasksBehind(loop'.tasks, b)
      BY <1>5, <1>7, QuietTasks
    <2>3. program.exit # "no"
      BY <1>0
    <2>4. Standing(page, run, stdout, program, loop, toPage, toWorker)
      BY <1>0, AliveThread
    <2> QED BY <1>2, <1>6, <1>8, <2>1, <2>2, <2>3, <2>4, StandingMoves
  <1>10. m \in Messages /\ m.is = "exit" /\ m.out = program.printed
    BY <1>0, AliveThread, ProgramFields, MessageMade DEF N!Status
  <1> HIDE DEF m
  <1>11. Standing(page, run, stdout, program', loop', toPage', toWorker)
    <2>1. m.out <= program'.printed /\ m.out >= program'.said
      BY <1>0, <1>2, <1>10, AliveThread, ProgramFields DEF Standing, Printed
    <2>2. Standing(page, run, stdout, program', loop', Append(toPage, m), toWorker)
      BY <1>0, <1>1, <1>5, <1>9, <1>10, <2>1, AliveThread, StandingSent DEF Summed
    <2> QED BY <1>0, <1>9, <2>2
  <1>12. toPage' \in Seq(Messages)
    BY <1>0, <1>10, AliveThread, AppendAt
  <1> QED BY <1>0, <1>1, <1>2, <1>5, <1>11, <1>12, AliveThread, ThreadStands, ThreadLeaves DEF Summed

\* A task is run: those that remain are right.
LEMMA TaskRun ==
  ASSUME NEW p, NEW t \in Seq(Tasks), t # <<>>, TasksRight(p, t)
  PROVE  /\ TasksRight(p, Tail(t)) /\ Tail(t) \in Seq(Tasks)
         /\ \A y : Has(Tail(t), y) => Has(t, y)
         /\ Head(t) = "exitFlush" => ~ Has(Tail(t), "exitFlush")
         /\ Head(t) # "stdio" => /\ Has(t, "stdio") => Has(Tail(t), "stdio")
                                 /\ \A b \in BOOLEAN : TasksBehind(t, b) => TasksBehind(Tail(t), b)
  <1>1. \A y : /\ Has(Tail(t), y) => Has(t, y)
               /\ Has(t, y) /\ Head(t) # y => Has(Tail(t), y)
    BY HasTail
  <1> DEFINE u == Tail(t)
  <1>2. /\ \A i, j \in DOMAIN u : u[i] = "exitFlush" /\ u[j] = "exitFlush" => i = j
        /\ Head(t) = "exitFlush" => ~ Has(u, "exitFlush")
    BY OneTail DEF TasksRight
  <1>3. Head(t) # "stdio" => \A b \in BOOLEAN : TasksBehind(t, b) => TasksBehind(u, b)
    BY BehindTail
  <1>4. TasksRight(p, u)
    BY <1>1, <1>2 DEF TasksRight
  <1> QED BY <1>1, <1>2, TailAt, <1>3, <1>4

LEMMA StdioTaskKeeps ==
  ASSUME WorkerInv, N!StdioTask PROVE WorkerInv'
  <1> DEFINE m == N!Message("stdio", N!Ok)
  <1>0. /\ N!Alive /\ loop.tasks # <<>> /\ Head(loop.tasks) = "stdio"
        /\ loop' = N!NextTask /\ toPage' = Append(toPage, m)
        /\ UNCHANGED <<page, run, owned, stdout, program, toWorker>>
    BY DEF N!StdioTask, N!Task
  <1>1. m \in Messages /\ m.is = "stdio" /\ m.out = program.printed
    BY <1>0, AliveThread, ProgramFields, MessageMade DEF N!Ok
  <1> HIDE DEF m
  <1>2. /\ Summed(loop') /\ loop'.ops = loop.ops /\ loop'.timers = loop.timers
        /\ loop'.refs = loop.refs /\ loop'.drain = loop.drain /\ loop'.tasks = Tail(loop.tasks)
    BY <1>0, AliveThread, NextTaskCounts
  <1>3. loop.tasks \in Seq(Tasks) /\ stdout.has \in Nat /\ program.printed \in Nat /\ program.said \in Nat
    BY <1>0, AliveThread, LoopFields, ProgramFields, StreamFields
  <1>4. /\ Standing(page, run, stdout, program, loop, toPage', toWorker)
        /\ Past(page, run, stdout, toPage', toWorker) => Past(page, run, stdout, toPage, toWorker)
    <2>1. ~ Final(m) /\ m.out <= program.printed
      BY <1>1, <1>3 DEF Final
    <2> QED BY <1>0, <1>1, <2>1, AliveThread, StandingSent
  <1>5. /\ Reaches(toPage', stdout.has, program.printed) /\ Reaches(toPage', stdout.has, program.said)
    BY <1>0, <1>1, <1>3, AliveThread, SentReaches DEF Standing, Printed
  <1>6. /\ TasksRight(program, loop'.tasks)
        /\ Has(loop'.tasks, "endFlush") => Has(loop.tasks, "endFlush")
    <2> DEFINE t == Tail(loop.tasks)
    <2> QED BY <1>2, <1>0, <1>3, AliveThread, TaskRun
  <1>7. CountsTrue(program, loop')
    BY <1>0, <1>2, AliveThread DEF CountsTrue, Summed
  <1>8. Standing(page, run, stdout, program, loop', toPage', toWorker)
    BY <1>4, <1>5, <1>6, <1>7 DEF Standing, Carried, TasksBehind
  <1>9. ThreadOK(page, run, stdout, program, loop', toPage', toWorker)
    BY <1>8, <1>0, <1>2, <1>4, <1>6, AliveThread, ThreadStands DEF Settling, Fixed
  <1>10. ThreadOK(page, run, stdout, program', loop', toPage', toWorker')
    BY <1>0, <1>9
  <1>11. program' \in Programs /\ toWorker' \in Seq(Orders) /\ loop' \in Loops
    BY <1>0, <1>2, AliveThread DEF Summed
  <1> QED BY <1>0, <1>1, AliveThread, AppendAt, <1>10, <1>11, ThreadLeaves

\* A task of the loop itself, which only adds others.
LEMMA LoopTaskKeeps ==
  ASSUME NEW x \in {"unrefs", "recheck"}, WorkerInv, N!Task(x),
         UNCHANGED <<page, run, owned, stdout, program, toPage, toWorker>>,
         Summed(loop'), loop'.ops = loop.ops, loop'.timers = loop.timers,
         loop'.refs <= loop.refs,
         loop'.drain = "over" => loop.drain = "over" \/ loop'.refs = 0,
         Quiet(Tail(loop.tasks), loop'.tasks)
  PROVE  WorkerInv'
  <1>0. N!Alive /\ loop.tasks # <<>> /\ Head(loop.tasks) = x /\ x # "stdio" /\ x # "exitFlush"
    BY DEF N!Task
  <1> DEFINE t == Tail(loop.tasks)
  <1>1. /\ TasksRight(program, t) /\ t \in Seq(Tasks)
        /\ Has(t, "endFlush") => Has(loop.tasks, "endFlush")
        /\ Has(loop.tasks, "stdio") => Has(t, "stdio")
        /\ \A b \in BOOLEAN : TasksBehind(loop.tasks, b) => TasksBehind(t, b)
    BY <1>0, AliveThread, LoopFields, TaskRun
  <1> HIDE DEF t
  <1>2. Quiet(t, loop'.tasks)
    BY DEF t
  <1>3. /\ \A y \in {"exitFlush", "endFlush"} : Has(loop'.tasks, y) <=> Has(t, y)
        /\ Has(t, "stdio") => Has(loop'.tasks, "stdio")
        /\ \A b \in BOOLEAN : TasksBehind(t, b) => TasksBehind(loop'.tasks, b)
    BY <1>1, <1>2, QuietTasks
  <1>4. TasksRight(program, loop'.tasks)
    BY <1>1, <1>2, <1>3, QuietTasks DEF TasksRight
  <1>5. CountsTrue(program, loop')
    <2>1. CountsTrue(program, loop)
      BY <1>0, AliveThread
    <2>2. ASSUME program.stage = "drain", loop'.drain = "over" PROVE loop'.refs = 0
      <3>1. CASE loop.drain = "over"
        <4>1. loop.refs = 0
          BY <2>1, <2>2, <3>1 DEF CountsTrue
        <4> QED BY <1>0, AliveThread, LoopFields, <4>1 DEF Summed
      <3>2. CASE loop'.refs = 0
        BY <3>2
      <3> QED BY <2>2, <3>1, <3>2
    <2> QED BY <2>1, <2>2 DEF CountsTrue, Summed
  <1>6. Standing(page, run, stdout, program, loop', toPage, toWorker)
    <2>1. /\ Has(loop.tasks, "stdio") => Has(loop'.tasks, "stdio")
          /\ \A b \in BOOLEAN : TasksBehind(loop.tasks, b) => TasksBehind(loop'.tasks, b)
      BY <1>1, <1>3
    <2> QED BY <1>0, <1>4, <1>5, AliveThread, <2>1, StandingMoves DEF Standing
  <1>7. ThreadOK(page, run, stdout, program', loop', toPage', toWorker')
    BY <1>6, <1>0, <1>1, <1>3, AliveThread, ThreadStands DEF Settling, Fixed
  <1> QED BY <1>7, <1>0, AliveThread, ThreadLeaves DEF Summed

LEMMA UnrefsTaskKeeps ==
  ASSUME WorkerInv, N!UnrefsTask PROVE WorkerInv'
  <1> DEFINE k == N!NextTask
  <1>0. /\ N!Task("unrefs") /\ N!Alive /\ loop.tasks # <<>>
        /\ loop' = N!FlushDeferredUnrefs(k)
        /\ UNCHANGED <<page, run, owned, stdout, program, toPage, toWorker>>
    BY DEF N!UnrefsTask, N!Task
  <1>1. /\ Summed(k) /\ k.ops = loop.ops /\ k.timers = loop.timers /\ k.refs = loop.refs
        /\ k.drain = loop.drain /\ k.tasks = Tail(loop.tasks)
    BY <1>0, AliveThread, NextTaskCounts
  <1> HIDE DEF k
  <1> QED BY <1>0, <1>1, FlushDeferredCounts, LoopTaskKeeps

LEMMA RecheckTaskKeeps ==
  ASSUME WorkerInv, N!RecheckTask PROVE WorkerInv'
  <1> DEFINE k == N!NextTask
  <1>0. /\ N!Task("recheck") /\ N!Alive /\ loop.tasks # <<>>
        /\ loop' = N!Recheck(k)
        /\ UNCHANGED <<page, run, owned, stdout, program, toPage, toWorker>>
    BY DEF N!RecheckTask, N!Task
  <1>1. /\ Summed(k) /\ k.ops = loop.ops /\ k.timers = loop.timers /\ k.refs = loop.refs
        /\ k.drain = loop.drain /\ k.tasks = Tail(loop.tasks)
    BY <1>0, AliveThread, NextTaskCounts
  <1> HIDE DEF k
  <1>2. /\ Summed(loop') /\ loop'.ops = k.ops /\ loop'.timers = k.timers /\ loop'.refs = k.refs
        /\ loop'.drain = "over" => loop'.refs = 0
        /\ loop'.tasks = k.tasks
    BY <1>0, <1>1, RecheckCounts
  <1> QED BY <1>0, <1>1, <1>2, AliveThread, LoopFields, LoopTaskKeeps DEF Quiet

\* A flush is sent, behind what it is for.
LEMMA FlushSent ==
  ASSUME NEW x \in {"exit", "end"}, WorkerInv, N!Alive, NEW pp \in Programs, NEW ll,
         NEW m \in Messages, m.is = "flush", m.out = program.printed,
         loop.tasks # <<>>, ll = N!StartOp(N!NextTask), pp.flushes = Append(program.flushes, x),
         pp.stage = program.stage, pp.printed = program.printed, pp.said = program.said,
         pp.timed = program.timed, pp.fired = program.fired, pp.graced = program.graced,
         pp.exit # "no" <=> program.exit # "no", Grace(pp) <=> Grace(program),
         pp.graced => pp.exit = "told", program.stage = "drain" => loop.drain # "over",
         TasksRight(pp, ll.tasks), Reaches(toPage, stdout.has, program.said),
         Head(loop.tasks) # "stdio"
  PROVE  /\ Standing(page, run, stdout, pp, ll, Append(toPage, m), toWorker)
         /\ Summed(ll) /\ ll.ops = loop.ops + 1 /\ ll.tasks = Tail(loop.tasks)
         /\ Len(pp.flushes) = Len(program.flushes) + 1
  <1> DEFINE k == N!NextTask
  <1>1. ll = N!StartOp(k)
    OBVIOUS
  <1> HIDE DEF k
  <1>2. /\ Summed(ll) /\ ll.ops = loop.ops + 1 /\ ll.timers = loop.timers
        /\ ll.drain = loop.drain /\ ll.tasks = Tail(loop.tasks)
    BY AliveThread, NextTaskCounts, <1>1, StartOpCounts, ZenonT(60)
  <1>3. /\ program.printed \in Nat /\ program.said \in Nat /\ stdout.has \in Nat
        /\ stdout.taken \in Nat /\ Len(stdout.flushes) \in Nat
        /\ Len(program.flushes) \in Nat /\ program.flushes \in Seq({"exit", "end"})
        /\ loop.ops \in Nat /\ loop.tasks \in Seq(Tasks)
    BY AliveThread, ProgramFields, StreamFields, LoopFields
  <1>4. Len(pp.flushes) = Len(program.flushes) + 1
    BY <1>3, AppendProperties
  <1>5. CountsTrue(pp, ll)
    <2>1. ll.timers = One(Pending(pp)) + One(Grace(pp))
      BY <1>2, AliveThread DEF CountsTrue, One, Pending
    <2>2. CountsTrue(program, loop) /\ loop.ops >= Len(program.flushes)
      BY AliveThread DEF CountsTrue
    <2> QED BY <1>2, <1>3, <1>4, <2>1, <2>2 DEF CountsTrue, Summed
  <1>6. Standing(page, run, stdout, program, loop, toPage, toWorker)
    BY AliveThread
  <1> DEFINE q == Append(toPage, m)
  <1>7. Told(page, run, stdout, pp.said, q, toWorker)
    <2>1. FlushesBehind(toPage, stdout.has, program.said) /\ SaysEnough(toPage, stdout.taken, program.said)
      BY <1>6 DEF Standing, Told
    <2>2. SaysEnough(q, stdout.taken, program.said)
      BY <1>3, <2>1, AliveThread, SentSays
    <2> QED BY <1>6, <1>3, <2>1, AliveThread, SentReaches, <2>2 DEF Standing, Told
  <1>8. Printed(stdout, pp, q)
    <2> QED BY <1>6, <1>3, AliveThread, BoundAppend, SMTT(30) DEF Standing, Printed
  <1>9. Carried(stdout, pp, ll, q)
    <2> QED BY <1>3, AliveThread, SentReaches DEF Carried, TasksBehind
  <1>10. FlushesAsked(stdout, pp, q, toWorker)
    <2>1. Cardinality(Answers(toWorker)) \in Nat
      BY AliveThread, AnswersAppend DEF Orders
    <2> QED BY <1>3, <1>4, <1>6, AliveThread, FlushesAppend, <2>1, SMTT(30) DEF Standing, FlushesAsked
  <1> QED BY <1>2, <1>4, <1>5, <1>7, <1>8, <1>9, <1>10, <1>6 DEF Standing, StartsOnce

LEMMA FlushTaskKeeps ==
  ASSUME WorkerInv, N!FlushTask PROVE WorkerInv'
  <1> DEFINE m == N!Message("flush", N!Ok)
  <1>0. /\ N!Alive /\ loop.tasks # <<>> /\ loop' = N!StartOp(N!NextTask)
        /\ toPage' = Append(toPage, m)
        /\ UNCHANGED <<page, run, owned, stdout, toWorker>>
    BY DEF N!FlushTask, N!Task
  <1>1. m \in Messages /\ m.is = "flush" /\ m.out = program.printed
    BY <1>0, AliveThread, ProgramFields, MessageMade DEF N!Ok
  <1> HIDE DEF m
  <1>2. /\ loop.tasks \in Seq(Tasks) /\ program.flushes \in Seq({"exit", "end"})
        /\ stdout.has \in Nat /\ program.said \in Nat
    BY <1>0, AliveThread, ProgramFields, StreamFields, LoopFields
  <1>3. toPage' \in Seq(Messages) /\ toWorker' \in Seq(Orders)
    BY <1>0, <1>1, AliveThread, AppendAt
  <1>4. loop'.tasks = Tail(loop.tasks)
    <2> DEFINE k == N!NextTask
    <2>1. loop' = N!StartOp(k)
      BY <1>0
    <2> HIDE DEF k
    <2> QED BY <1>0, AliveThread, NextTaskCounts, <2>1, StartOpCounts
  <1> DEFINE t == Tail(loop.tasks)
  <1>5. /\ TasksRight(program, t)
        /\ \A y : Has(t, y) => Has(loop.tasks, y)
        /\ Head(loop.tasks) = "exitFlush" => ~ Has(t, "exitFlush")
        /\ Head(loop.tasks) = loop.tasks[1] /\ 1 \in DOMAIN loop.tasks
    BY <1>0, <1>2, AliveThread, TaskRun, TailAt
  <1> HIDE DEF t
  <1>6. CASE /\ Head(loop.tasks) = "exitFlush"
             /\ program' = [program EXCEPT !.exit = "asked", !.flushes = Append(@, "exit")]
    <2>1. program' \in Programs
      BY <1>0, <1>6, <1>2, AppendProperties, AliveThread DEF Programs
    <2>2. /\ program'.stage = program.stage /\ program'.exit = "asked"
          /\ program'.printed = program.printed
          /\ program'.said = program.said /\ program'.flushes = Append(program.flushes, "exit")
          /\ program'.timed = program.timed /\ program'.fired = program.fired
          /\ program'.graced = program.graced
      BY <1>0, <1>6, AliveThread DEF Programs
    <2>3. program.exit = "flush"
      <3> QED BY <1>0, <1>5, <1>6, AliveThread DEF TasksRight, Has
    <2>4. Grace(program) /\ Grace(program') /\ (program'.graced => program'.exit = "told")
      BY <1>0, <2>2, <2>3, AliveThread DEF Grace, CountsTrue
    <2>5. program.stage = "drain" => loop.drain # "over"
      <3> QED BY <1>0, <2>4, AliveThread DEF CountsTrue, One
    <2>6. TasksRight(program', loop'.tasks)
      <3> QED BY <1>4, <1>5, <1>6, <2>2 DEF t, TasksRight
    <2>7. Reaches(toPage, stdout.has, program.said)
      BY <1>0, <2>3, AliveThread DEF Carried
    <2>8. Standing(page, run, stdout, program', loop', toPage', toWorker) /\ Summed(loop')
      BY <1>0, <1>1, <1>6, <2>1, <2>2, <2>3, <2>4, <2>5, <2>6, <2>7, FlushSent
    <2> QED BY <1>0, <1>3, <2>1, <2>8, <2>2, ThreadStands, ThreadLeaves DEF Summed
  <1>7. CASE /\ Head(loop.tasks) = "endFlush"
             /\ program' = [program EXCEPT !.flushes = Append(@, "end")]
    <2>1. program' \in Programs
      BY <1>0, <1>7, <1>2, AppendProperties, AliveThread DEF Programs
    <2>2. /\ program'.stage = program.stage /\ program'.exit = program.exit
          /\ program'.printed = program.printed
          /\ program'.said = program.said /\ program'.flushes = Append(program.flushes, "end")
          /\ program'.timed = program.timed /\ program'.fired = program.fired
          /\ program'.graced = program.graced
      BY <1>0, <1>7, AliveThread DEF Programs
    <2>3. program.stage \in {"flush", "replied"} /\ Fixed(program, loop)
      BY <1>0, <1>5, <1>7, AliveThread DEF TasksRight, Settling, Has
    <2>4. /\ (Grace(program') <=> Grace(program)) /\ (Pending(program') <=> Pending(program))
          /\ program'.graced => program'.exit = "told"
      BY <1>0, <2>2, AliveThread DEF Grace, Pending, CountsTrue
    <2>5. TasksRight(program', loop'.tasks)
      <3> QED BY <1>4, <1>5, <2>2 DEF t, TasksRight
    <2>6. Reaches(toPage, stdout.has, program.said)
      <3>1. \A j \in DOMAIN loop.tasks : j >= 1
        BY <1>2, LenProperties
      <3>2. ~ \E j \in DOMAIN loop.tasks : j < 1
        <4> QED BY <1>2, LenProperties
      <3> QED BY <1>0, <1>5, <1>7, AliveThread, <3>2 DEF Carried, TasksBehind
    <2>7. /\ Standing(page, run, stdout, program', loop', toPage', toWorker) /\ Summed(loop')
          /\ loop'.ops = loop.ops + 1 /\ Len(program'.flushes) = Len(program.flushes) + 1
      BY <1>0, <1>1, <1>7, <2>1, <2>2, <2>3, <2>4, <2>5, <2>6, FlushSent
    <2>8. ThreadOK(page, run, stdout, program', loop', toPage', toWorker')
      BY <1>0, <2>7, <2>2, <2>3, <2>4, ThreadStands DEF Fixed
    <2> QED BY <1>0, <1>3, <2>1, <2>7, <2>8, ThreadLeaves DEF Summed
  <1> QED BY <1>6, <1>7 DEF N!FlushTask, N!Task

LEMMA OnFlushedKeeps ==
  ASSUME WorkerInv, N!OnFlushed PROVE WorkerInv'
  <1>0. /\ N!Alive /\ toWorker # <<>> /\ Head(toWorker) = "flushed"
        /\ toWorker' = Tail(toWorker) /\ loop' = N!EndOp(loop)
        /\ UNCHANGED <<page, run, owned, stdout>>
    BY DEF N!OnFlushed
  <1>1. /\ Standing(page, run, stdout, program, loop, toPage, toWorker')
        /\ toWorker' \in Seq(Orders)
        /\ stdout.taken >= program.said
        /\ Cardinality(Flushes(toPage)) + Len(stdout.flushes) + Cardinality(Answers(toWorker')) + 1
             <= Len(program.flushes)
        /\ program.flushes # <<>>
        /\ Past(page, run, stdout, toPage, toWorker)
    BY <1>0, AliveThread, OrderTaken
  <1>2. Fixed(program, loop)
    BY <1>0, <1>1, AliveThread
  <1>3. /\ program.flushes \in Seq({"exit", "end"}) /\ Len(program.flushes) \in Nat
        /\ Tail(program.flushes) \in Seq({"exit", "end"})
        /\ Len(Tail(program.flushes)) = Len(program.flushes) - 1
        /\ program.printed \in Nat /\ program.said \in Nat /\ stdout.taken \in Nat
        /\ loop.ops \in Nat /\ loop.tasks \in Seq(Tasks) /\ Len(program.flushes) # 0
    BY <1>0, <1>1, AliveThread, ProgramFields, StreamFields, LoopFields, HeadTailProperties, EmptySeq
  <1>4. loop.ops >= Len(program.flushes) /\ loop.ops # 0
    BY <1>0, <1>3, AliveThread DEF CountsTrue
  <1>5. /\ Summed(loop') /\ loop'.ops = loop.ops - 1 /\ loop'.timers = loop.timers
        /\ loop'.drain = loop.drain
        /\ Quiet(loop.tasks, loop'.tasks)
    BY <1>0, <1>4, AliveThread, EndOpCounts
  <1>6. /\ Has(loop.tasks, "stdio") => Has(loop'.tasks, "stdio")
        /\ \A y \in {"exitFlush", "endFlush"} : Has(loop'.tasks, y) <=> Has(loop.tasks, y)
        /\ \A b \in BOOLEAN : TasksBehind(loop.tasks, b) => TasksBehind(loop'.tasks, b)
        /\ \A i, j \in DOMAIN loop'.tasks :
              loop'.tasks[i] = "exitFlush" /\ loop'.tasks[j] = "exitFlush" => i = j
    <2> QED BY <1>3, <1>5, <1>0, AliveThread, QuietTasks DEF TasksRight
  <1>7. Cardinality(Answers(toWorker')) \in Nat /\ Cardinality(Flushes(toPage)) \in Nat
        /\ Len(stdout.flushes) \in Nat
    BY <1>0, <1>1, AliveThread, AnswersAppend, FlushesCount, StreamFields DEF Orders
  <1> DEFINE p == [program EXCEPT !.flushes = Tail(@)]
  \* Whichever of the three it was, the thread stands before it sends what follows.
  <1>8. ASSUME program' \in Programs,
               program'.stage = program.stage \/ program'.stage = "replied",
               program'.exit = program.exit \/ (program.exit = "asked" /\ program'.exit = "told"),
               program'.printed = program.printed, program'.said = program.said,
               program'.flushes = Tail(program.flushes), program'.timed = program.timed,
               program'.fired = program.fired, program'.graced = program.graced
        PROVE  /\ Standing(page, run, stdout, program', loop', toPage, toWorker')
               /\ program.stage \in {"flush", "replied"} \/ program.exit # "no" =>
                    Fixed(program', loop')
    <2>1. (Pending(program') <=> Pending(program)) /\ (Grace(program') <=> Grace(program))
      BY <1>8 DEF Pending, Grace
    <2>2. CountsTrue(program', loop')
      <3>1. loop'.ops >= Len(program'.flushes)
        BY <1>3, <1>4, <1>5, <1>8
      <3>2. program'.stage = "drain" => loop'.drain # "over"
        BY <1>5, <1>0, <1>4, AliveThread, <1>8
      <3>3. (program'.graced => program'.exit = "told") /\ (program'.fired => program'.timed)
        BY <1>0, <1>8, AliveThread DEF CountsTrue
      <3> QED BY <1>5, <1>0, <2>1, AliveThread, <3>1, <3>2, <3>3 DEF CountsTrue, Summed, One
    <2>3. FlushesAsked(stdout, program', toPage, toWorker')
      BY <1>1, <1>3, <1>7, <1>8 DEF FlushesAsked
    <2>4. StartsOnce(run, program', toWorker') /\ Told(page, run, stdout, program.said, toPage, toWorker')
      <3> QED BY <1>1, <1>8, <1>2 DEF Standing, StartsOnce, Fixed
    <2>5. Standing(page, run, stdout, program', loop', toPage, toWorker')
      BY <1>1, <1>6, <1>8, <2>2, <1>0, AliveThread, <2>3, <2>4, StandingMoves DEF TasksRight
    <2>6. ASSUME program.stage \in {"flush", "replied"} \/ program.exit # "no"
          PROVE  Fixed(program', loop')
      BY <1>2, <1>3, <1>4, <1>5, <1>8, <2>1, <2>6 DEF Fixed
    <2> QED BY <2>5, <2>6
  <1>9. /\ N!Reply("returned", program.code) \in Messages
         /\ N!Reply("returned", program.code).is = "returned"
         /\ N!Reply("returned", program.code).out = 0
    BY <1>3, <1>0, AliveThread, ProgramFields, MessageMade DEF Codes
  <1>10. CASE /\ program.exit = "asked" /\ program' = [p EXCEPT !.exit = "told"]
              /\ toPage' = Append(toPage, N!Message("exit", N!Status))
    <2>1. program' \in Programs
      BY <1>0, <1>3, <1>10, AliveThread DEF Programs
    <2>2. /\ program'.stage = program.stage /\ program'.exit = "told"
          /\ program'.printed = program.printed /\ program'.said = program.said
          /\ program'.flushes = Tail(program.flushes) /\ program'.timed = program.timed
          /\ program'.fired = program.fired /\ program'.graced = program.graced
      BY <1>0, <1>10, AliveThread DEF Programs
    <2>3. Standing(page, run, stdout, program', loop', toPage, toWorker')
      BY <1>8, <1>10, <2>1, <2>2
    <2> DEFINE m == N!Message("exit", N!Status)
    <2>4. m \in Messages /\ m.is = "exit" /\ m.out = program.printed /\ toPage' = Append(toPage, m)
      BY <1>3, MessageMade, <1>10 DEF N!Status
    <2> HIDE DEF m
    <2>5. loop' \in Loops
      BY <1>5 DEF Summed
    <2>6. Standing(page, run, stdout, program', loop', toPage', toWorker')
      <3>1. m.out <= program'.printed /\ m.out >= program'.said
        BY <1>3, <2>2, <1>1, <2>4 DEF Standing, Printed
      <3>2. m.is # "flush" /\ m.is # "returned"
        BY <2>4
      <3> QED BY <2>1, <2>3, <2>4, <2>5, <1>0, AliveThread, <3>1, <3>2, StandingSent
    <2>7. ThreadOK(page, run, stdout, program', loop', toPage', toWorker')
      BY <2>2, <2>6, ThreadStands
    <2> QED BY <1>0, <1>1, <2>1, <2>4, AliveThread, AppendAt, <2>5, <2>7, ThreadLeaves
  <1>11. CASE program.exit # "asked" /\ program' = p /\ toPage' = toPage
    <2>1. program' \in Programs
      BY <1>0, <1>3, <1>11, AliveThread DEF Programs
    <2>2. /\ Standing(page, run, stdout, program', loop', toPage, toWorker')
          /\ Fixed(program', loop')
      BY <1>2, <1>8, <2>1, <1>0, <1>11, AliveThread DEF Fixed, Programs
    <2> QED BY <1>0, <1>1, <1>5, <1>11, <2>1, <2>2, ThreadStands, AliveThread, ThreadLeaves DEF
        Summed
  <1>12. CASE /\ program' = [p EXCEPT !.stage = "replied"]
              /\ toPage' = Append(toPage, N!Reply("returned", program.code))
    <2>1. program' \in Programs
      BY <1>0, <1>3, <1>12, AliveThread DEF Programs
    <2>2. /\ program'.stage = "replied" /\ program'.exit = program.exit
          /\ program'.printed = program.printed /\ program'.said = program.said
          /\ program'.flushes = Tail(program.flushes) /\ program'.timed = program.timed
          /\ program'.fired = program.fired /\ program'.graced = program.graced
      BY <1>0, <1>12, AliveThread DEF Programs
    <2>3. /\ Standing(page, run, stdout, program', loop', toPage, toWorker')
          /\ Fixed(program', loop')
      BY <1>2, <1>8, <2>1, <2>2 DEF Fixed
    <2> DEFINE m == N!Reply("returned", program.code)
    <2>4. m \in Messages /\ m.is = "returned" /\ m.out = 0 /\ toPage' = Append(toPage, m)
      BY <1>9, <1>12
    <2> HIDE DEF m
    <2>5. loop' \in Loops
      BY <1>5 DEF Summed
    <2>6. m.out <= program'.printed /\ stdout.taken >= program'.said
      BY <1>1, <1>3, <2>2, <2>4
    <2>7. ThreadOK(page, run, stdout, program', loop', toPage', toWorker')
      BY <2>3, <1>0, <2>1, <2>4, <2>5, <2>6, AliveThread, StandingSent, ThreadStands
    <2> QED BY <1>0, <1>1, <2>1, <2>4, AliveThread, AppendAt, <2>5, <2>7, ThreadLeaves
  <1> QED BY <1>10, <1>11, <1>12 DEF N!OnFlushed

-----------------------------------------------------------------------------
(* The steps of the page *)

\* The thread stays as it is: what was told of its end may not grow, but for the better.
LEMMA PageLeaves ==
  ASSUME WorkerInv, UNCHANGED <<program, loop>>, WorkerTypes', Outlived',
         Past(page', run', stdout', toPage', toWorker') => Past(page, run, stdout, toPage, toWorker),
         Told(page', run', stdout', program.said, toPage', toWorker'),
         Printed(stdout', program, toPage'),
         ~ page'.terminated => Carried(stdout', program, loop, toPage'),
         FlushesAsked(stdout', program, toPage', toWorker'), StartsOnce(run', program, toWorker')
  PROVE  WorkerInv'
  <1>1. ThreadOK(page', run', stdout', program', loop', toPage', toWorker')
    BY DEF WorkerInv, ThreadOK
  <1> QED BY <1>1 DEF WorkerInv

\* What a step of the page may rely on.
LEMMA PageKnows ==
  ASSUME WorkerInv
  PROVE  /\ WorkerTypes /\ Outlived
         /\ page \in Pages /\ run \in HostRuns /\ stdout \in Streams /\ program \in Programs
         /\ owned \in {"none", "coming", "open", "closed"}
         /\ toPage \in Seq(Messages) /\ toWorker \in Seq(Orders) /\ loop \in Loops
         /\ stdout.has \in Nat /\ stdout.taken \in Nat /\ stdout.flushes \in Seq(Nat)
         /\ Len(stdout.flushes) \in Nat
         /\ program.printed \in Nat /\ program.said \in Nat /\ Len(program.flushes) \in Nat
         /\ Told(page, run, stdout, program.said, toPage, toWorker)
         /\ Printed(stdout, program, toPage)
         /\ ~ page.terminated => Carried(stdout, program, loop, toPage)
         /\ FlushesAsked(stdout, program, toPage, toWorker) /\ StartsOnce(run, program, toWorker)
         /\ Cardinality(Flushes(toPage)) \in Nat /\ Cardinality(Answers(toWorker)) \in Nat
  <1>1. WorkerTypes /\ Outlived /\ ThreadOK(page, run, stdout, program, loop, toPage, toWorker)
    BY DEF WorkerInv
  <1>2. /\ page \in Pages /\ run \in HostRuns /\ stdout \in Streams /\ program \in Programs
        /\ owned \in {"none", "coming", "open", "closed"}
        /\ toPage \in Seq(Messages) /\ toWorker \in Seq(Orders) /\ loop \in Loops
    BY <1>1 DEF WorkerTypes
  <1> QED BY <1>1, <1>2, FlushesCount, AnswersAppend, StreamFields, ProgramFields DEF ThreadOK,
      Orders

\* The page at another phase, a resource come, a run asked for or failed: nothing is told.
LEMMA QuietStep ==
  ASSUME WorkerInv, UNCHANGED <<stdout, program, loop, toPage, toWorker>>,
         page' \in Pages, run' \in HostRuns, owned' \in {"none", "coming", "open", "closed"},
         page'.deadline = page.deadline, page'.listening = page.listening,
         page'.terminated = page.terminated,
         run'.sent = run.sent, run'.result \in {run.result, "error"}, Outlived'
  PROVE  WorkerInv'
  <1>1. Past(page', run', stdout, toPage, toWorker) => Past(page, run, stdout, toPage, toWorker)
    BY DEF Past
  <1>2. Told(page', run', stdout, program.said, toPage, toWorker)
    BY PageKnows DEF Told
  <1>3. StartsOnce(run', program, toWorker)
    BY PageKnows DEF StartsOnce
  <1> QED BY PageKnows, <1>1, <1>2, <1>3, PageLeaves DEF WorkerTypes

LEMMA UserArrivesKeeps ==
  ASSUME WorkerInv, N!UserArrives PROVE WorkerInv'
  <1>1. /\ UNCHANGED <<stdout, program, loop, toPage, toWorker, run, owned>>
        /\ page' = [page EXCEPT !.phase = IF page.terminated THEN "failed" ELSE "attach"]
    BY DEF N!UserArrives, N!worker
  <1>2. /\ page'.deadline = page.deadline /\ page'.listening = page.listening
        /\ page'.terminated = page.terminated /\ page'.worker = page.worker
        /\ page'.phase # "boot" /\ page'.attachment = page.attachment
    BY <1>1, PageKnows DEF Pages
  <1>3. Outlived'
    BY <1>1, <1>2, PageKnows DEF Outlived
  <1> QED BY <1>1, PageKnows, <1>2, <1>3, QuietStep DEF Pages

LEMMA AttachedKeeps ==
  ASSUME WorkerInv, N!Attached PROVE WorkerInv'
  <1>0. UNCHANGED <<stdout, program, loop, toPage, run, owned>>
    BY DEF N!Attached, N!worker
  <1> PICK a \in N!Attachments :
        \/ page' = [N!Failed EXCEPT !.attachment = a] /\ toWorker' = toWorker
        \/ /\ ~ page.terminated
           /\ page' = [page EXCEPT !.phase = "boot", !.worker = "alive", !.attachment = a]
           /\ toWorker' = <<"init">>
    BY DEF N!Attached
  <1>a. a \in {"none", "open", "late"} /\ (page.terminated => a # "open")
    BY DEF N!Attachments
  <1>1. CASE page' = [N!Failed EXCEPT !.attachment = a] /\ toWorker' = toWorker
    <2>1. /\ page'.deadline = page.deadline /\ page'.listening = page.listening
          /\ page'.terminated = page.terminated /\ page'.worker = page.worker
          /\ page'.phase = "failed" /\ page'.attachment = a
          /\ page' \in Pages
      BY <1>1, <1>a, PageKnows DEF N!Failed, Pages
    <2>2. Outlived'
      BY <1>0, <1>a, <2>1, PageKnows DEF Outlived
    <2> QED BY <1>0, <1>1, PageKnows, <2>1, <2>2, QuietStep
  <1>2. CASE /\ ~ page.terminated
             /\ page' = [page EXCEPT !.phase = "boot", !.worker = "alive", !.attachment = a]
             /\ toWorker' = <<"init">>
    <2>1. page' \in Pages /\ toWorker' \in Seq(Orders)
      <3>1. page' \in Pages
        BY <1>2, <1>a, PageKnows DEF Pages
      <3> QED BY <3>1, <1>2 DEF Orders
    <2>2. /\ page'.deadline = page.deadline /\ page'.listening = page.listening
          /\ page'.terminated = FALSE
      BY <1>2, PageKnows DEF Pages
    <2>3. Answers(toWorker') = {} /\ Cardinality(Answers(toWorker')) = 0
      BY <1>2, NoneOnTheWay
    <2>4. WorkerTypes' /\ Outlived'
      BY <1>0, <2>1, <2>2, PageKnows DEF WorkerTypes, Outlived
    <2>5. Past(page', run, stdout, toPage, toWorker') => Past(page, run, stdout, toPage, toWorker)
      BY <2>2, <2>3 DEF Past
    <2>6. Told(page', run, stdout, program.said, toPage, toWorker')
      BY <2>2, <2>3, PageKnows DEF Told
    <2>7. FlushesAsked(stdout, program, toPage, toWorker')
      BY <2>3, PageKnows DEF FlushesAsked
    <2>8. StartsOnce(run, program, toWorker')
      <3> QED BY <1>2, NoneOnTheWay, PageKnows DEF StartsOnce, Has
    <2> QED BY <1>0, <1>2, <2>2, <2>4, <2>5, <2>6, <2>7, <2>8, PageKnows, PageLeaves
  <1> QED BY <1>1, <1>2

LEMMA ExecuteKeeps ==
  ASSUME WorkerInv, N!Execute PROVE WorkerInv'
  <1>1. /\ UNCHANGED <<stdout, program, loop, toPage, toWorker, page, owned>>
        /\ run' = [run EXCEPT !.asked = TRUE]
    BY DEF N!Execute, N!worker
  <1>2. run' \in HostRuns /\ run'.sent = run.sent /\ run'.result = run.result
    BY <1>1, PageKnows DEF HostRuns
  <1> QED BY <1>1, <1>2, PageKnows, QuietStep DEF Outlived

LEMMA NeverStartsKeeps ==
  ASSUME WorkerInv, N!NeverStarts PROVE WorkerInv'
  <1>1. /\ UNCHANGED <<stdout, program, loop, toPage, toWorker, page, owned>>
        /\ run' = [run EXCEPT !.result = "error"] /\ ~ run.sent
    BY DEF N!NeverStarts, N!worker
  <1>2. run' \in HostRuns /\ run'.sent = run.sent /\ run'.result = "error"
    BY <1>1, PageKnows DEF HostRuns
  <1> QED BY <1>1, <1>2, PageKnows, QuietStep DEF Outlived

LEMMA TrackKeeps ==
  ASSUME WorkerInv, N!Track PROVE WorkerInv'
  <1>1. /\ UNCHANGED <<stdout, program, loop, toPage, toWorker, page, run>>
        /\ owned' = IF page.terminated THEN "closed" ELSE "open"
    BY DEF N!Track, N!worker
  <1> QED BY <1>1, PageKnows, QuietStep DEF Outlived

\* ctl.execute is sent once, to a thread that has run nothing.
LEMMA SendExecuteKeeps ==
  ASSUME WorkerInv, N!SendExecute PROVE WorkerInv'
  <1>1. /\ UNCHANGED <<stdout, program, loop, toPage, page, owned>>
        /\ ~ run.sent /\ ~ page.terminated
        /\ run' = [run EXCEPT !.sent = TRUE] /\ toWorker' = Append(toWorker, "execute")
    BY DEF N!SendExecute, N!worker
  <1>2. run' \in HostRuns /\ run'.sent = TRUE /\ run'.result = run.result
    BY <1>1, PageKnows DEF HostRuns
  <1>3. /\ toWorker' \in Seq(Orders)
        /\ Cardinality(Answers(toWorker')) = Cardinality(Answers(toWorker))
        /\ Answers(toWorker') # {} => Answers(toWorker) # {}
    BY <1>1, PageKnows, AppendAt, AnswersAppend DEF Orders
  <1>4. Past(page, run', stdout, toPage, toWorker') => Past(page, run, stdout, toPage, toWorker)
    BY <1>2, <1>3 DEF Past
  <1>5. Told(page, run', stdout, program.said, toPage, toWorker')
    BY <1>2, <1>3, PageKnows DEF Told
  <1>6. FlushesAsked(stdout, program, toPage, toWorker')
    BY <1>3, PageKnows DEF FlushesAsked
  <1>7. StartsOnce(run', program, toWorker')
    <2>1. program.stage = "none" /\ program.exit = "no" /\ ~ Has(toWorker, "execute")
      BY <1>1, PageKnows DEF StartsOnce
    <2> DEFINE w == Append(toWorker, "execute")
    <2>2. \A i, j \in DOMAIN w : w[i] = "execute" /\ w[j] = "execute" => i = j
      <3>1. toWorker \in Seq(Orders) /\ "execute" \in Orders
        BY PageKnows DEF Orders
      <3> QED BY <2>1, PageKnows, <3>1, OneAppend, SMTT(30) DEF StartsOnce
    <2> QED BY <1>1, <1>2, <2>1, <2>2 DEF StartsOnce
  <1> QED BY <1>1, <1>2, <1>3, PageKnows, <1>4, <1>5, <1>6, <1>7, PageLeaves DEF WorkerTypes,
      Outlived

\* terminate: what was on its way is gone, and only a run whose exit was told of has a status.
LEMMA TerminateKeeps ==
  ASSUME WorkerInv, NEW reason, NEW g \in Pages, N!Terminate(reason, g),
         UNCHANGED <<stdout, program, loop>>,
         g.terminated = page.terminated, g.worker = page.worker, g.phase = page.phase,
         g.attachment = page.attachment,
         g.deadline \in {None, page.deadline}, g.listening \in {None, page.listening},
         \/ reason = "error"
         \/ reason = "status" /\ (page.deadline # None \/ page.listening # None)
  PROVE  WorkerInv'
  <1>1. CASE page.terminated /\ page' = g /\ UNCHANGED <<run, owned, toPage, toWorker>>
    <2>1. Past(page', run, stdout, toPage, toWorker) => Past(page, run, stdout, toPage, toWorker)
      BY <1>1 DEF Past
    <2>2. Told(page', run, stdout, program.said, toPage, toWorker)
      BY <1>1, PageKnows DEF Told
    <2> QED BY <1>1, PageKnows, <2>1, <2>2, PageLeaves DEF WorkerTypes, Outlived
  <1>2. CASE /\ ~ page.terminated
             /\ page' = [g EXCEPT !.terminated = TRUE,
                                  !.worker = IF @ = "alive" THEN "dead" ELSE @,
                                  !.phase = IF @ = "boot" THEN "failed" ELSE @,
                                  !.attachment = IF @ = "open" THEN "none" ELSE @]
             /\ run' = IF run.sent /\ ~ N!Settled THEN [run EXCEPT !.result = reason] ELSE run
             /\ owned' = IF owned = "open" THEN "closed" ELSE owned
             /\ toPage' = <<>> /\ toWorker' = <<>>
    <2>1. /\ page'.terminated = TRUE /\ page'.worker # "alive" /\ page'.phase # "boot"
          /\ page'.attachment # "open" /\ page' \in Pages
          /\ page'.deadline = g.deadline /\ page'.listening = g.listening
      BY <1>2 DEF Pages
    <2>2. run' \in HostRuns
      <3> QED BY <1>2, PageKnows DEF HostRuns, Codes
    <2>3. /\ run'.sent = run.sent
          /\ run'.result = run.result \/ (run'.result = reason /\ run.result = None)
          /\ run.sent => run'.result # None
      BY RealmAssumption, <1>2, PageKnows DEF HostRuns, N!Settled
    <2>4. WorkerTypes' /\ Outlived'
      <3>1. owned' \in {"none", "coming", "open", "closed"} /\ owned' # "open"
        BY <1>2, PageKnows
      <3>2. toPage' \in Seq(Messages) /\ toWorker' \in Seq(Orders)
        BY <1>2
      <3> QED BY <1>2, <2>1, <2>2, <2>3, <3>1, <3>2, PageKnows DEF WorkerTypes, Outlived, Pages
    <2>5. run'.result = "status" =>
            run.result = "status" \/ page.deadline # None \/ page.listening # None
      BY <2>3
    <2>6. Past(page', run', stdout, toPage', toWorker') => Past(page, run, stdout, toPage, toWorker)
      <3>1. ~ \E i \in DOMAIN toPage' : Final(toPage'[i])
        BY <1>2
      <3>2. run'.result = "ok" => run.result = "ok"
        BY <2>3
      <3> QED BY <2>1, <2>5, <1>2, NoneOnTheWay, <3>1, <3>2 DEF Past
    <2>7. Told(page', run', stdout, program.said, toPage', toWorker')
      <3>1. /\ FlushesBehind(toPage', stdout.has, program.said)
            /\ SaysEnough(toPage', stdout.taken, program.said)
        BY <1>2 DEF FlushesBehind, SaysEnough
      <3>2. run'.result = "ok" => stdout.taken >= program.said
        BY <2>3, PageKnows DEF Told
      <3>3. run'.result = "status" => stdout.has >= program.said
        BY <2>5, PageKnows DEF Told
      <3>4. page'.deadline # None \/ page'.listening # None => stdout.has >= program.said
        BY <2>1, PageKnows DEF Told
      <3>5. \A i \in DOMAIN stdout.flushes : stdout.flushes[i] >= program.said
        BY PageKnows DEF Told
      <3> QED BY <1>2, NoneOnTheWay, <3>1, <3>2, <3>3, <3>4, <3>5 DEF Told
    <2>8. FlushesAsked(stdout, program, toPage', toWorker')
      <3>1. Cardinality(Flushes(toPage')) = 0 /\ Cardinality(Answers(toWorker')) = 0
        BY <1>2, NoneOnTheWay
      <3> QED BY <3>1, PageKnows DEF FlushesAsked
    <2>9. StartsOnce(run', program, toWorker')
      <3> QED BY <2>3, <1>2, NoneOnTheWay, PageKnows DEF StartsOnce
    <2> QED BY <2>1, <2>4, <2>6, <2>7, <1>2, PageKnows, <2>8, <2>9, PageLeaves DEF Printed
  <1> QED BY <1>1, <1>2 DEF N!Terminate

LEMMA TerminationsKeep ==
  ASSUME WorkerInv, N!HostTerminates \/ N!ListenersDone \/ N!ExitDeadline PROVE WorkerInv'
  <1>0. UNCHANGED <<stdout, program, loop>>
    BY DEF N!HostTerminates, N!ListenersDone, N!ExitDeadline, N!worker
  <1>1. CASE N!HostTerminates
    BY <1>0, <1>1, PageKnows, TerminateKeeps DEF N!HostTerminates
  <1>2. CASE N!ListenersDone
    <2> DEFINE g == [page EXCEPT !.listening = None]
    <2>1. g \in Pages
      BY PageKnows DEF Pages
    <2>2. /\ g.terminated = page.terminated /\ g.worker = page.worker /\ g.phase = page.phase
          /\ g.attachment = page.attachment
          /\ g.deadline = page.deadline /\ g.listening = None
      BY PageKnows DEF Pages
    <2>3. page.listening # None /\ page.listening = "status" /\ N!Terminate(page.listening, g)
      BY <1>2, PageKnows DEF N!ListenersDone, Pages
    <2> HIDE DEF g
    <2> QED BY <1>0, <2>1, <2>2, <2>3, TerminateKeeps
  <1>3. CASE N!ExitDeadline
    <2> DEFINE g == [page EXCEPT !.deadline = None]
    <2>1. g \in Pages
      BY PageKnows DEF Pages
    <2>2. /\ g.terminated = page.terminated /\ g.worker = page.worker /\ g.phase = page.phase
          /\ g.attachment = page.attachment
          /\ g.deadline = None /\ g.listening = page.listening
      BY PageKnows DEF Pages
    <2>3. page.deadline # None /\ page.deadline = "status" /\ N!Terminate(page.deadline, g)
      BY <1>3, PageKnows DEF N!ExitDeadline, Pages
    <2> HIDE DEF g
    <2> QED BY <1>0, <2>1, <2>2, <2>3, TerminateKeeps
  <1> QED BY <1>1, <1>2, <1>3

\* A message is taken from those on their way, and what rides on it joins the write chain.
LEMMA MessageTaken ==
  ASSUME WorkerInv, toPage # <<>>, NEW hh,
         hh = IF Head(toPage).out > stdout.has THEN Head(toPage).out ELSE stdout.has,
         NEW st \in Streams, st.has = hh, st.taken = stdout.taken,
         NEW q, q = Tail(toPage)
  PROVE  /\ q \in Seq(Messages) /\ Head(toPage) \in Messages
         /\ hh \in Nat /\ hh >= stdout.has
         /\ FlushesBehind(q, st.has, program.said) /\ SaysEnough(q, st.taken, program.said)
         /\ Printed(st, program, q)
         /\ ~ page.terminated => Carried(st, program, loop, q)
         /\ (\E i \in DOMAIN q : Final(q[i])) \/ Final(Head(toPage)) =>
              \E i \in DOMAIN toPage : Final(toPage[i])
         /\ Head(toPage).is = "flush" => stdout.has >= program.said
         /\ Head(toPage).is \in {"exiting", "exit"} => hh >= program.said
         /\ Head(toPage).is = "returned" /\ Head(toPage).code # "threw" =>
              stdout.taken >= program.said /\ stdout.has >= program.said
         /\ Cardinality(Flushes(q)) \in Nat
         /\ Head(toPage).is = "flush" => Cardinality(Flushes(toPage)) = Cardinality(Flushes(q)) + 1
         /\ Head(toPage).is # "flush" => Cardinality(Flushes(toPage)) = Cardinality(Flushes(q))
  <1>1. /\ toPage \in Seq(Messages) /\ stdout.has \in Nat /\ stdout.taken \in Nat
        /\ program.printed \in Nat /\ program.said \in Nat
        /\ Printed(stdout, program, toPage) /\ loop.tasks \in Seq(Tasks)
    BY PageKnows, LoopFields
  <1>2. q \in Seq(Messages) /\ Head(toPage) \in Messages
    BY <1>1, TailAt
  <1>3. Head(toPage).out \in Nat
    BY <1>2, MessageFields
  <1>4. hh \in Nat /\ hh >= stdout.has /\ hh >= Head(toPage).out
    BY <1>1, <1>3
  <1>5. /\ FlushesBehind(toPage, stdout.has, program.said)
        /\ SaysEnough(toPage, stdout.taken, program.said)
    BY PageKnows DEF Told
  <1>6. FlushesBehind(q, hh, program.said)
    BY <1>1, <1>4, <1>5, TakenReaches
  <1>7. /\ SaysEnough(q, stdout.taken, program.said)
        /\ Head(toPage).is \in {"exiting", "exit"} => Head(toPage).out >= program.said
        /\ Head(toPage).is = "returned" /\ Head(toPage).code # "threw" =>
             stdout.taken >= program.said
    BY <1>1, <1>5, TakenSays
  <1>8. Printed(st, program, q)
    <2>1. (\A i \in DOMAIN q : q[i].out <= program.printed) /\ Head(toPage).out <= program.printed
      BY <1>1, BoundTail DEF Printed
    <2> QED BY <1>1, <2>1, <1>3, <1>4 DEF Printed
  <1>9. ASSUME ~ page.terminated PROVE Carried(st, program, loop, q)
    <2>1. Carried(stdout, program, loop, toPage)
      BY <1>9, PageKnows
    <2> DEFINE b == Reaches(toPage, stdout.has, program.said)
               c == Reaches(q, hh, program.said)
    <2>2. b \in BOOLEAN /\ c \in BOOLEAN
      BY DEF Reaches
    <2>3. b => c
      BY <1>1, <1>4, TakenReaches
    <2>4. TasksBehind(loop.tasks, b)
      BY <2>1 DEF Carried
    <2> HIDE DEF b, c
    <2>5. TasksBehind(loop.tasks, c)
      BY <2>2, <2>3, <2>4, BehindMore
    <2>6. TasksBehind(loop.tasks, Reaches(q, st.has, program.said))
      BY <2>5 DEF c
    <2>7. program.exit # "no" => Reaches(q, st.has, program.said)
      BY <2>1, <2>3 DEF b, c, Carried
    <2> QED BY <2>1, <1>1, <1>4, TakenReaches, <2>6, <2>7 DEF Carried
  <1>10. (\E i \in DOMAIN q : Final(q[i])) \/ Final(Head(toPage)) =>
              \E i \in DOMAIN toPage : Final(toPage[i])
    BY <1>1, FinalTail
  <1>11. Head(toPage).is = "flush" => stdout.has >= program.said
    <2>1. 1 \in DOMAIN toPage /\ Head(toPage) = toPage[1] /\ DOMAIN toPage = 1..Len(toPage)
          /\ Len(toPage) \in Nat
      BY <1>1, TailAt
    <2> QED BY <1>5, <2>1 DEF FlushesBehind
  <1>12. Head(toPage).is \in {"exiting", "exit"} => hh >= program.said
    BY <1>1, <1>3, <1>4, <1>7
  <1>13. Head(toPage).is = "returned" /\ Head(toPage).code # "threw" =>
           stdout.taken >= program.said /\ stdout.has >= program.said
    BY <1>1, <1>7 DEF Printed
  <1>14. /\ Cardinality(Flushes(q)) \in Nat
         /\ Head(toPage).is = "flush" => Cardinality(Flushes(toPage)) = Cardinality(Flushes(q)) + 1
         /\ Head(toPage).is # "flush" => Cardinality(Flushes(toPage)) = Cardinality(Flushes(q))
    BY <1>1, FlushesTail
  <1> QED BY <1>2, <1>4, <1>6, <1>7, <1>8, <1>9, <1>10, <1>11, <1>12, <1>13, <1>14

\* The chunks a message takes along, once they are written.
LEMMA WrittenFields ==
  ASSUME WorkerInv, toPage # <<>>
  PROVE  /\ N!Written \in Streams /\ N!Written.taken = stdout.taken
         /\ N!Written.flushes = stdout.flushes
         /\ N!Written.has = IF Head(toPage).out > stdout.has THEN Head(toPage).out ELSE stdout.has
  <1>1. stdout \in Streams /\ toPage \in Seq(Messages) /\ stdout.has \in Nat
    BY PageKnows
  <1> QED BY <1>1, TailAt, MessageFields DEF N!Written, Streams

\* What follows from the lemma above when the message was of no use to the write chain.
LEMMA ReplyTaken ==
  ASSUME WorkerInv, toPage # <<>>, Head(toPage).is \in {"ready", "returned"}
  PROVE  stdout.has = IF Head(toPage).out > stdout.has THEN Head(toPage).out ELSE stdout.has
  <1>1. stdout.has \in Nat /\ toPage \in Seq(Messages)
    BY PageKnows
  <1> QED BY <1>1, TailAt, MessageFields

LEMMA ReadyKeeps ==
  ASSUME WorkerInv, N!Ready PROVE WorkerInv'
  <1>0. /\ UNCHANGED <<run, owned, stdout, program, loop, toWorker>>
        /\ toPage # <<>> /\ Head(toPage).is = "ready" /\ toPage' = Tail(toPage)
        /\ page' \in {[page EXCEPT !.phase = "ready"], N!Failed}
    BY DEF N!Ready, N!worker
  <1>1. /\ page' \in Pages
        /\ page'.deadline = page.deadline /\ page'.listening = page.listening
        /\ page'.terminated = page.terminated /\ page'.worker = page.worker
        /\ page'.phase # "boot" /\ page'.attachment = page.attachment
    BY <1>0, PageKnows DEF N!Failed, Pages
  <1> DEFINE q == Tail(toPage)
  <1>2. /\ q \in Seq(Messages)
        /\ FlushesBehind(q, stdout.has, program.said) /\ SaysEnough(q, stdout.taken, program.said)
        /\ Printed(stdout, program, q)
        /\ ~ page.terminated => Carried(stdout, program, loop, q)
        /\ (\E i \in DOMAIN q : Final(q[i])) => \E i \in DOMAIN toPage : Final(toPage[i])
        /\ Cardinality(Flushes(toPage)) = Cardinality(Flushes(q))
    <2> QED BY <1>0, PageKnows, ReplyTaken, MessageTaken
  <1>3. toPage' = q
    BY <1>0
  <1> HIDE DEF q
  <1>4. Past(page', run, stdout, q, toWorker) => Past(page, run, stdout, toPage, toWorker)
    BY <1>1, <1>2 DEF Past
  <1>5. Told(page', run, stdout, program.said, q, toWorker)
    BY <1>1, <1>2, PageKnows DEF Told
  <1>6. FlushesAsked(stdout, program, q, toWorker)
    BY <1>2, PageKnows DEF FlushesAsked
  <1> QED BY <1>0, <1>1, <1>2, <1>3, PageKnows, <1>4, <1>5, <1>6, PageLeaves DEF WorkerTypes,
      Outlived

LEMMA OnReturnedKeeps ==
  ASSUME WorkerInv, N!OnReturned PROVE WorkerInv'
  <1>0. /\ UNCHANGED <<page, owned, stdout, program, loop, toWorker>>
        /\ toPage # <<>> /\ Head(toPage).is = "returned" /\ toPage' = Tail(toPage)
        /\ run' = IF run.result # None THEN run ELSE [run EXCEPT !.result = Head(toPage).code]
    BY DEF N!OnReturned, N!worker, N!Gets, N!Settled
  <1>1. run \in HostRuns /\ stdout \in Streams
    BY PageKnows
  <1> DEFINE q == Tail(toPage)
             m == Head(toPage)
  <1>2. /\ q \in Seq(Messages) /\ m \in Messages
        /\ FlushesBehind(q, stdout.has, program.said) /\ SaysEnough(q, stdout.taken, program.said)
        /\ Printed(stdout, program, q)
        /\ ~ page.terminated => Carried(stdout, program, loop, q)
        /\ (\E i \in DOMAIN q : Final(q[i])) \/ Final(m) => \E i \in DOMAIN toPage : Final(toPage[i])
        /\ m.code # "threw" => stdout.taken >= program.said /\ stdout.has >= program.said
        /\ Cardinality(Flushes(toPage)) = Cardinality(Flushes(q))
    BY <1>0, <1>1, ReplyTaken, MessageTaken
  <1>3. m.code \in Codes /\ m.is = "returned"
    BY <1>0, <1>2, MessageFields
  <1>4. toPage' = q /\ run' = IF run.result # None THEN run ELSE [run EXCEPT !.result = m.code]
    BY <1>0
  <1> HIDE DEF q, m
  <1>5. /\ run'.sent = run.sent
        /\ run'.result = run.result \/ (run'.result = m.code /\ run.result = None)
    BY <1>1, <1>4 DEF HostRuns
  <1>6. WorkerTypes' /\ Outlived'
    <2>1. WorkerTypes'
      BY <1>0, <1>2, <1>4, <1>1, <1>3, PageKnows DEF WorkerTypes, HostRuns
    <2> QED BY <1>0, <1>5, <1>3, RealmAssumption, <2>1, PageKnows DEF Outlived, Codes
  <1>7. Past(page, run', stdout, q, toWorker) => Past(page, run, stdout, toPage, toWorker)
    <2> QED BY <1>2, <1>3, <1>5 DEF Past, Final
  <1>8. Told(page, run', stdout, program.said, q, toWorker)
    <2>1. run'.result = "status" => stdout.has >= program.said
      BY <1>2, <1>5, PageKnows DEF Told
    <2> QED BY <1>2, <1>5, PageKnows, <2>1 DEF Told
  <1>9. StartsOnce(run', program, toWorker)
    BY <1>5, PageKnows DEF StartsOnce
  <1> QED BY <1>0, <1>2, <1>4, <1>6, <1>7, <1>8, PageKnows, <1>9, PageLeaves DEF FlushesAsked

\* ctl.exiting and ctl.exit: what was said is in the write chain.
LEMMA ExitToldKeeps ==
  ASSUME WorkerInv, N!OnExiting \/ N!OnExit PROVE WorkerInv'
  <1> DEFINE q == Tail(toPage)
             m == Head(toPage)
             st == N!Written
  <1>0. /\ UNCHANGED <<run, owned, program, loop, toWorker>>
        /\ toPage # <<>> /\ m.is \in {"exiting", "exit"} /\ toPage' = q /\ stdout' = st
        /\ page' \in {[page EXCEPT !.deadline = m.code],
                      [page EXCEPT !.deadline = None, !.listening = m.code]}
    BY DEF N!OnExiting, N!OnExit, N!worker, N!Gets
  <1>1. /\ st \in Streams /\ st.taken = stdout.taken /\ st.flushes = stdout.flushes
        /\ st.has = IF m.out > stdout.has THEN m.out ELSE stdout.has
    BY <1>0, WrittenFields
  <1>2. /\ q \in Seq(Messages) /\ m \in Messages /\ st.has \in Nat /\ st.has >= stdout.has
        /\ FlushesBehind(q, st.has, program.said) /\ SaysEnough(q, st.taken, program.said)
        /\ Printed(st, program, q)
        /\ ~ page.terminated => Carried(st, program, loop, q)
        /\ Final(m) => \E i \in DOMAIN toPage : Final(toPage[i])
        /\ st.has >= program.said
        /\ Cardinality(Flushes(toPage)) = Cardinality(Flushes(q))
    BY <1>0, <1>1, MessageTaken
  <1>3. m.code = "status" /\ Final(m)
    BY <1>0, <1>2, MessageFields DEF Final
  <1> HIDE DEF q, m, st
  <1>4. /\ page' \in Pages /\ page'.terminated = page.terminated /\ page'.worker = page.worker
        /\ page'.phase = page.phase /\ page'.attachment = page.attachment
    BY <1>0, <1>3, PageKnows DEF Pages
  <1>5. Past(page, run, stdout, toPage, toWorker)
    BY <1>2, <1>3 DEF Past
  <1>6. Told(page', run, st, program.said, q, toWorker)
    BY <1>1, <1>2, PageKnows DEF Told
  <1>7. FlushesAsked(st, program, q, toWorker)
    BY <1>1, <1>2, PageKnows DEF FlushesAsked
  <1> QED BY <1>0, <1>2, <1>4, <1>1, PageKnows, <1>5, <1>6, <1>7, PageLeaves DEF WorkerTypes,
      Outlived

\* A flush is behind what it waits for.
LEMMA OnFlushKeeps ==
  ASSUME WorkerInv, N!OnFlush PROVE WorkerInv'
  <1> DEFINE q == Tail(toPage)
             m == Head(toPage)
             v == N!Written
             st == [v EXCEPT !.flushes =
                      IF m.is = "flush" THEN Append(@, stdout.has) ELSE @]
  <1>0. /\ UNCHANGED <<page, run, owned, program, loop, toWorker>>
        /\ toPage # <<>> /\ m.is \in {"flush", "stdio"} /\ toPage' = q /\ stdout' = st
    BY DEF N!OnFlush, N!worker, N!Gets
  <1>1. /\ v \in Streams /\ v.taken = stdout.taken /\ v.flushes = stdout.flushes
        /\ v.has = IF m.out > stdout.has THEN m.out ELSE stdout.has
    BY <1>0, WrittenFields
  <1>2. stdout.has \in Nat /\ stdout.flushes \in Seq(Nat) /\ Len(stdout.flushes) \in Nat
    BY PageKnows
  <1> HIDE DEF v
  <1>3. /\ Append(stdout.flushes, stdout.has) \in Seq(Nat)
        /\ Len(Append(stdout.flushes, stdout.has)) = Len(stdout.flushes) + 1
    BY <1>2, AppendAt
  <1>4. /\ st \in Streams /\ st.taken = stdout.taken
        /\ st.has = IF m.out > stdout.has THEN m.out ELSE stdout.has
        /\ m.is = "flush" => st.flushes = Append(stdout.flushes, stdout.has)
        /\ m.is # "flush" => st.flushes = stdout.flushes
    BY <1>1, <1>3 DEF Streams
  <1> HIDE DEF st
  <1>5. /\ q \in Seq(Messages) /\ m \in Messages /\ st.has \in Nat /\ st.has >= stdout.has
        /\ FlushesBehind(q, st.has, program.said) /\ SaysEnough(q, st.taken, program.said)
        /\ Printed(st, program, q)
        /\ ~ page.terminated => Carried(st, program, loop, q)
        /\ (\E i \in DOMAIN q : Final(q[i])) \/ Final(m) => \E i \in DOMAIN toPage : Final(toPage[i])
        /\ m.is = "flush" => stdout.has >= program.said
        /\ Cardinality(Flushes(q)) \in Nat
        /\ m.is = "flush" => Cardinality(Flushes(toPage)) = Cardinality(Flushes(q)) + 1
        /\ m.is # "flush" => Cardinality(Flushes(toPage)) = Cardinality(Flushes(q))
    BY <1>0, <1>4, MessageTaken
  <1> HIDE DEF q, m
  <1>6. Past(page, run, st, q, toWorker) => Past(page, run, stdout, toPage, toWorker)
    <2> QED BY <1>4, <1>5 DEF Past, Final
  <1>7. Told(page, run, st, program.said, q, toWorker)
    <2>1. \A i \in DOMAIN st.flushes : st.flushes[i] >= program.said
      <3>1. \A i \in DOMAIN stdout.flushes : stdout.flushes[i] >= program.said
        BY PageKnows DEF Told
      <3>2. CASE m.is = "flush"
        <4> DEFINE f == Append(stdout.flushes, stdout.has)
        <4>1. \A i \in DOMAIN f : f[i] >= program.said
          BY <1>2, <1>5, <3>1, <3>2, AppendAt
        <4> QED BY <1>4, <3>2, <4>1
      <3> QED BY <1>4, <3>1, <3>2
    <2> QED BY <1>4, <1>5, <2>1, <1>2, PageKnows DEF Told
  <1>8. FlushesAsked(st, program, q, toWorker)
    <2>1. /\ Cardinality(Flushes(toPage)) + Len(stdout.flushes) + Cardinality(Answers(toWorker))
               <= Len(program.flushes)
          /\ Cardinality(Answers(toWorker)) \in Nat /\ Len(program.flushes) \in Nat
      BY PageKnows DEF FlushesAsked
    <2>2. CASE m.is = "flush"
      <3>1. /\ Len(st.flushes) = Len(stdout.flushes) + 1
            /\ Cardinality(Flushes(toPage)) = Cardinality(Flushes(q)) + 1
        BY <1>3, <1>4, <1>5, <2>2
      <3>2. Cardinality(Flushes(q)) \in Nat
        BY <1>5
      <3> QED BY <1>2, <2>1, <3>1, <3>2 DEF FlushesAsked
    <2>3. CASE m.is # "flush"
      <3> QED BY <2>1, <1>4, <1>5, <2>3 DEF FlushesAsked
    <2> QED BY <2>2, <2>3
  <1> QED BY <1>0, <1>5, <1>4, PageKnows, <1>6, <1>7, <1>8, PageLeaves DEF WorkerTypes, Outlived

LEMMA OnServeKeeps ==
  ASSUME WorkerInv, N!OnServe PROVE WorkerInv'
  <1> DEFINE q == Tail(toPage)
             m == Head(toPage)
             st == N!Written
  <1>0. /\ UNCHANGED <<page, run, program, loop, toWorker>>
        /\ toPage # <<>> /\ m.is = "serve" /\ toPage' = q /\ stdout' = st /\ owned' = "coming"
    BY DEF N!OnServe, N!worker, N!Gets
  <1>1. /\ st \in Streams /\ st.taken = stdout.taken /\ st.flushes = stdout.flushes
        /\ st.has = IF m.out > stdout.has THEN m.out ELSE stdout.has
    BY <1>0, WrittenFields
  <1>2. /\ q \in Seq(Messages) /\ m \in Messages /\ st.has \in Nat /\ st.has >= stdout.has
        /\ FlushesBehind(q, st.has, program.said) /\ SaysEnough(q, st.taken, program.said)
        /\ Printed(st, program, q)
        /\ ~ page.terminated => Carried(st, program, loop, q)
        /\ (\E i \in DOMAIN q : Final(q[i])) => \E i \in DOMAIN toPage : Final(toPage[i])
        /\ Cardinality(Flushes(toPage)) = Cardinality(Flushes(q))
    BY <1>0, <1>1, MessageTaken
  <1> HIDE DEF q, m, st
  <1>3. Past(page, run, st, q, toWorker) => Past(page, run, stdout, toPage, toWorker)
    BY <1>1, <1>2 DEF Past
  <1>4. Told(page, run, st, program.said, q, toWorker)
    <2> QED BY <1>1, <1>2, PageKnows DEF Told
  <1>5. FlushesAsked(st, program, q, toWorker)
    BY <1>1, <1>2, PageKnows DEF FlushesAsked
  <1> QED BY <1>0, <1>2, <1>1, PageKnows, <1>3, <1>4, <1>5, PageLeaves DEF WorkerTypes, Outlived

LEMMA ReaderTakesKeeps ==
  ASSUME WorkerInv, N!ReaderTakes PROVE WorkerInv'
  <1>0. /\ UNCHANGED <<page, run, owned, program, loop, toPage, toWorker>>
        /\ stdout.taken < stdout.has /\ stdout' = [stdout EXCEPT !.taken = @ + 1]
    BY DEF N!ReaderTakes, N!worker
  <1>1. /\ stdout \in Streams /\ stdout.taken \in Nat /\ stdout.has \in Nat
        /\ stdout.taken + 1 \in Nat /\ program.said \in Nat
    BY PageKnows
  <1>2. /\ stdout' \in Streams /\ stdout'.taken = stdout.taken + 1 /\ stdout'.has = stdout.has
        /\ stdout'.flushes = stdout.flushes
    BY <1>0, <1>1 DEF Streams
  <1>3. Past(page, run, stdout', toPage, toWorker) => Past(page, run, stdout, toPage, toWorker)
    BY <1>2 DEF Past
  <1>4. Told(page, run, stdout', program.said, toPage, toWorker)
    <2>1. /\ Answers(toWorker) # {} => stdout'.taken >= program.said
          /\ run.result = "ok" => stdout'.taken >= program.said
      BY <1>1, <1>2, PageKnows DEF Told
    <2> QED BY <1>2, <1>1, PageKnows, MoreTaken, <2>1 DEF Told
  <1>5. Printed(stdout', program, toPage)
    BY <1>0, <1>1, <1>2, PageKnows DEF Printed
  <1>6. ~ page.terminated => Carried(stdout', program, loop, toPage)
    BY <1>2, PageKnows DEF Carried
  <1>7. FlushesAsked(stdout', program, toPage, toWorker)
    BY <1>2, PageKnows DEF FlushesAsked
  <1> QED BY <1>0, <1>2, PageKnows, <1>3, <1>4, <1>5, <1>6, <1>7, PageLeaves DEF WorkerTypes,
      Outlived

\* A flush is answered once the reader has come as far as it waits for.
LEMMA FlushedKeeps ==
  ASSUME WorkerInv, N!Flushed PROVE WorkerInv'
  <1> DEFINE f == stdout.flushes
  <1>0. /\ UNCHANGED <<page, run, owned, program, loop, toPage>>
        /\ f # <<>> /\ Head(f) <= stdout.taken /\ stdout' = [stdout EXCEPT !.flushes = Tail(f)]
        /\ toWorker' = IF page.terminated THEN toWorker ELSE Append(toWorker, "flushed")
    BY DEF N!Flushed, N!worker
  <1>1. /\ stdout \in Streams /\ f \in Seq(Nat) /\ stdout.taken \in Nat /\ program.said \in Nat
        /\ toWorker \in Seq(Orders)
    BY PageKnows
  <1>2. /\ Tail(f) \in Seq(Nat) /\ Head(f) \in Nat /\ Len(f) \in Nat /\ Len(Tail(f)) = Len(f) - 1
        /\ \A i \in DOMAIN f : f[i] >= program.said
    BY <1>0, <1>1, TailAt, PageKnows DEF Told
  <1>3. /\ stdout' \in Streams /\ stdout'.taken = stdout.taken /\ stdout'.has = stdout.has
        /\ stdout'.flushes = Tail(f)
    BY <1>0, <1>1, <1>2 DEF Streams
  <1>4. /\ toWorker' \in Seq(Orders) /\ Cardinality(Answers(toWorker)) \in Nat
        /\ \/ Cardinality(Answers(toWorker')) = Cardinality(Answers(toWorker))
           \/ Cardinality(Answers(toWorker')) = Cardinality(Answers(toWorker)) + 1
    BY <1>0, <1>1, AppendAt, AnswersAppend DEF Orders
  <1>5. WorkerTypes' /\ Outlived'
    BY <1>0, <1>3, <1>4, PageKnows DEF WorkerTypes, Outlived
  <1>6. Told(page, run, stdout', program.said, toPage, toWorker')
    BY <1>0, <1>1, <1>2, TailAt, <1>3, PageKnows, SMTT(30) DEF Told
  <1>7. Printed(stdout', program, toPage)
    BY <1>3, PageKnows DEF Printed
  <1>8. ~ page.terminated => Carried(stdout', program, loop, toPage)
    BY <1>3, PageKnows DEF Carried
  <1>9. FlushesAsked(stdout', program, toPage, toWorker')
    <2>1. /\ Cardinality(Flushes(toPage)) + Len(f) + Cardinality(Answers(toWorker))
               <= Len(program.flushes)
          /\ Cardinality(Flushes(toPage)) \in Nat /\ Len(program.flushes) \in Nat
      BY PageKnows DEF FlushesAsked
    <2> QED BY <1>2, <1>3, <1>4, <2>1 DEF FlushesAsked
  <1>10. StartsOnce(run, program, toWorker')
    <2>1. CASE toWorker' = toWorker
      BY <2>1, PageKnows
    <2>2. CASE toWorker' = Append(toWorker, "flushed")
      <3> DEFINE w == Append(toWorker, "flushed")
      <3>1. "flushed" \in Orders /\ "flushed" # "execute"
        BY DEF Orders
      <3>2. Has(w, "execute") => Has(toWorker, "execute")
        BY <1>1, <3>1, HasAppend
      <3>3. \A i, j \in DOMAIN w : w[i] = "execute" /\ w[j] = "execute" => i = j
        BY <1>1, <3>1, PageKnows, OneAppend DEF StartsOnce
      <3> HIDE DEF w
      <3>4. StartsOnce(run, program, w)
        BY <3>2, <3>3, PageKnows DEF StartsOnce
      <3> QED BY <2>2, <3>4 DEF w
    <2> QED BY <1>0, <2>1, <2>2
  <1> QED BY <1>0, <1>5, <1>6, <1>7, <1>8, <1>9, <1>10, PageLeaves DEF Past

-----------------------------------------------------------------------------
(* The worker, for good *)

LEMMA WorkerStarts ==
  ASSUME N!Init PROVE WorkerInv
  <1>1. /\ page = [phase |-> "user", terminated |-> FALSE, worker |-> "none",
                   attachment |-> "none", deadline |-> None, listening |-> None]
        /\ run = [asked |-> FALSE, sent |-> FALSE, result |-> None]
        /\ owned = "none"
        /\ stdout = [has |-> 0, taken |-> 0, flushes |-> <<>>]
        /\ program = [stage |-> "none", code |-> "ok", exit |-> "no", wedged |-> FALSE,
                      graced |-> FALSE, started |-> 0, timed |-> FALSE, fired |-> FALSE,
                      served |-> FALSE, printed |-> 0, said |-> 0, flushes |-> <<>>]
        /\ loop = [refs |-> 0, ops |-> 0, timers |-> 0, deferred |-> 0, drain |-> "off",
                   tasks |-> <<>>]
        /\ toPage = <<>> /\ toWorker = <<>>
    BY DEF N!Init, N!NewLoop, N!Ok
  <1>2. page \in Pages /\ run \in HostRuns /\ stdout \in Streams
    BY <1>1 DEF Pages, HostRuns, Streams
  <1>3. loop \in Loops /\ toPage \in Seq(Messages) /\ toWorker \in Seq(Orders)
    BY <1>1 DEF Loops
  <1>4. WorkerTypes /\ Outlived
    BY <1>1, <1>2, <1>3 DEF WorkerTypes, Outlived, Programs
  <1>5. /\ program.stage = "none" /\ program.exit = "no" /\ program.flushes = <<>>
        /\ ~ program.graced /\ ~ program.fired /\ ~ program.timed
        /\ program.said = 0 /\ program.printed = 0
        /\ loop.refs = 0 /\ loop.ops = 0 /\ loop.timers = 0 /\ loop.deferred = 0
        /\ loop.tasks = <<>> /\ stdout.has = 0 /\ stdout.taken = 0 /\ stdout.flushes = <<>>
        /\ page.deadline = None /\ page.listening = None /\ run.result = None /\ ~ run.sent
    BY <1>1
  <1>6. /\ Flushes(toPage) = {} /\ Answers(toWorker) = {} /\ Cardinality({}) = 0
        /\ \A x : ~ Has(loop.tasks, x)
        /\ ~ Has(toWorker, "execute") /\ Len(<<>>) = 0
    BY <1>1, <1>5, NoneOnTheWay
  <1>7. CountsTrue(program, loop)
    BY <1>5, <1>6 DEF CountsTrue, Pending, Grace, One
  <1>8. TasksRight(program, loop.tasks)
    BY <1>5, <1>6 DEF TasksRight
  <1>9. ~ Settling(program, loop.tasks)
    BY <1>5, <1>6 DEF Settling
  <1>10. ~ Past(page, run, stdout, toPage, toWorker)
    <2> QED BY <1>1, <1>5, <1>6, RealmAssumption DEF Past
  <1>11. Told(page, run, stdout, program.said, toPage, toWorker)
    BY <1>1, <1>2, <1>3, <1>5, <1>10, NothingTold
  <1>12. Printed(stdout, program, toPage)
    BY <1>1, <1>5 DEF Printed
  <1>13. Carried(stdout, program, loop, toPage)
    BY <1>1, <1>5 DEF Carried, Reaches, TasksBehind
  <1>14. FlushesAsked(stdout, program, toPage, toWorker)
    BY <1>5, <1>6 DEF FlushesAsked
  <1>15. StartsOnce(run, program, toWorker)
    BY <1>1, <1>5, <1>6 DEF StartsOnce
  <1>16. ThreadOK(page, run, stdout, program, loop, toPage, toWorker)
    BY <1>7, <1>8, <1>9, <1>10, <1>11, <1>12, <1>13, <1>14, <1>15 DEF ThreadOK
  <1> QED BY <1>4, <1>16 DEF WorkerInv

\* Every step of the page and of the thread.
LEMMA WorkerSteps ==
  ASSUME WorkerInv, N!Next PROVE WorkerInv'
  <1>1. ASSUME N!PageStep PROVE WorkerInv'
    BY <1>1, UserArrivesKeeps, AttachedKeeps, ReadyKeeps, SendExecuteKeeps, NeverStartsKeeps,
       OnReturnedKeeps, ExitToldKeeps, OnFlushKeeps, OnServeKeeps, FlushedKeeps, TrackKeeps,
       TerminationsKeep DEF N!PageStep
  <1>2. ASSUME N!ThreadStep PROVE WorkerInv'
    BY <1>2, OnInitKeeps, OnExecuteKeeps, StdioTaskKeeps, UnrefsTaskKeeps, RecheckTaskKeeps,
       FlushTaskKeeps, DrainEndsKeeps, OnFlushedKeeps, GraceEndsKeeps DEF N!ThreadStep
  <1> QED BY <1>1, <1>2, TerminationsKeep, ExecuteKeeps, ReaderTakesKeeps, ModuleGoesOnKeeps,
             ModuleEndsKeeps, ModuleThrowsKeeps, OpCompletesKeeps, TimerFiresKeeps DEF N!Next

\* The worker is left alone by what the other parts of the realm do.
LEMMA WorkerRests ==
  ASSUME WorkerInv, UNCHANGED worker PROVE WorkerInv'
  <1> QED BY DEF WorkerInv, WorkerTypes, Outlived, worker

\* Every state a worker gets to is one its page and its thread agree on: what is counted lives,
\* what was said is settled once anything tells of it, and what tells of it is behind it.
THEOREM WorkerAgrees == FairSpec => []WorkerInv
  <1>1. Init => WorkerInv
    BY WorkerStarts DEF Init
  <1>2. WorkerInv /\ [Next]_vars => WorkerInv'
    <2> SUFFICES ASSUME WorkerInv, [Next]_vars PROVE WorkerInv'
      OBVIOUS
    <2>1. CASE Worker(N!Next)
      BY <2>1, WorkerSteps DEF Worker
    <2>2. CASE Loader(M!Next) \/ Resolver(V!Next) \/ KeepsTime(T!Next)
      BY <2>2, WorkerRests DEF Loader, Resolver, KeepsTime
    <2>3. CASE UNCHANGED vars
      BY <2>3, WorkerRests DEF vars
    <2> QED BY <2>1, <2>2, <2>3 DEF Next
  <1> QED BY <1>1, <1>2, PTL DEF FairSpec

\* Nothing of a terminated worker lives on: no thread is there or will be made, no resource of
\* the page is open, no run is left waiting (lib/index.ts terminate, #track, the start in steps).
THEOREM WorkersEndWhole == FairSpec => []NothingOutlives
  <1>1. WorkerInv => NothingOutlives
    BY DEF WorkerInv, Outlived, NothingOutlives, N!NothingOutlives, N!Settled
  <1> QED BY <1>1, WorkerAgrees, PTL

\* A run that returned has had what it printed accepted by the reader of stdout, and one that
\* called process.exit, queued for it (worker/index.ts flushConsole, requestExit in exit.ts).
THEOREM OutputComesFirst == FairSpec => []OutputFirst
  <1>1. WorkerInv => OutputFirst
    BY DEF WorkerInv, ThreadOK, Told, OutputFirst, N!OutputFirst, N!Ok, N!Status
  <1> QED BY <1>1, WorkerAgrees, PTL

-----------------------------------------------------------------------------
(***************************************************************************)
(* The timers.  Between the passes a handle is refed as lib/timers.js has  *)
(* it counted, and the timeout is the next expiry of lib/timers.js, no     *)
(* later than any timer; while the timers run neither need be so, and the  *)
(* end of the pass makes it good.                                          *)
(***************************************************************************)

Slots == [due : Nat, refed : BOOLEAN] \cup {T!Off}

Bindings ==
  [timeout : Nat \cup {None}, drain : BOOLEAN, timers : BOOLEAN, immediates : BOOLEAN]

TimerTypes ==
  /\ timer \in [of : [Timers -> Slots], count : Nat, next : Nat \cup {None}]
  /\ queue \in Seq(BOOLEAN) /\ bind \in Bindings
  /\ turn \in [at : {"idle", "timers", "immediates"}, left : Nat]
  /\ clock \in Nat

Refeds(of) == {t \in Timers : of[t].refed}

\* No timer is before the next expiry.
NextFirst(tm) ==
  \A t \in Timers : tm.of[t] # T!Off => tm.next # None /\ tm.next <= tm.of[t].due

TimersInv ==
  /\ TimerTypes
  /\ timer.count = Cardinality(Refeds(timer.of))
  /\ holds = T!Held(bind)
  /\ turn.at # "timers" => (bind.timers <=> timer.count > 0) /\ NextFirst(timer)
  /\ bind.immediates <=> T!AnyRefed(queue)
  /\ bind.timeout = timer.next
  /\ turn.at # "immediates" /\ queue # <<>> => bind.drain
  /\ turn.left <= Len(queue)

\* Every set of numbers has a least one, by the finite intervals below them, and Min is it.
LEMMA MinIn ==
  ASSUME NEW S \in SUBSET Nat, S # {}
  PROVE  T!Min(S) \in S /\ \A y \in S : T!Min(S) <= y
  <1> DEFINE Below == {0..(k - 1) : k \in S}
             R == StrictSubsetOrdering(Nat)
  <1>1. Below \subseteq FiniteSubsetsOf(Nat) /\ Below # {}
    <2>1. \A k \in S : 0..(k - 1) \in FiniteSubsetsOf(Nat)
      <3> TAKE k \in S
      <3> QED BY FS_Interval DEF FiniteSubsetsOf
    <2> QED BY <2>1
  <1>2. IsWellFoundedOn(R, FiniteSubsetsOf(Nat))
    BY FS_StrictSubsetOrderingWellFounded
  <1> HIDE DEF R
  <1>3. PICK D \in Below : \A E \in Below : ~ (<<E, D>> \in R)
    BY <1>1, <1>2, WFMin
  <1>4. PICK x \in S : D = 0..(x - 1)
    BY <1>3
  <1>5. ASSUME NEW y \in S, y < x PROVE FALSE
    <2>1. y \in 0..(x - 1) /\ y \notin 0..(y - 1)
      BY <1>5
    <2>2. <<0..(y - 1), D>> \in R
      BY <1>4, <1>5, <2>1 DEF R, StrictSubsetOrdering
    <2> QED BY <1>3, <2>2
  <1>6. \E z \in S : \A y \in S : z <= y
    BY <1>5
  <1> QED BY <1>6 DEF T!Min

\* The fields of what a step of the timers starts from.
LEMMA TimerFields ==
  ASSUME TimersInv
  PROVE  /\ timer \in [of : [Timers -> Slots], count : Nat, next : Nat \cup {None}]
         /\ timer.of \in [Timers -> Slots] /\ timer.count \in Nat /\ timer.next \in Nat \cup {None}
         /\ queue \in Seq(BOOLEAN) /\ Len(queue) \in Nat /\ DOMAIN queue = 1..Len(queue)
         /\ bind \in Bindings /\ bind.timeout \in Nat \cup {None}
         /\ bind.drain \in BOOLEAN /\ bind.timers \in BOOLEAN /\ bind.immediates \in BOOLEAN
         /\ turn \in [at : {"idle", "timers", "immediates"}, left : Nat]
         /\ turn.at \in {"idle", "timers", "immediates"} /\ turn.left \in Nat
         /\ clock \in Nat /\ turn.left <= Len(queue)
  <1>1. queue \in Seq(BOOLEAN) /\ bind \in Bindings /\ turn.left <= Len(queue)
    BY DEF TimersInv, TimerTypes
  <1> QED BY <1>1, LenProperties DEF TimersInv, TimerTypes, Bindings

\* A timer that is set has an expiry, and one that is refed is set.
LEMMA SlotFields ==
  ASSUME NEW s \in Slots
  PROVE  /\ s.refed \in BOOLEAN /\ T!Off.refed = FALSE
         /\ s # T!Off => s.due \in Nat
         /\ s.refed => s # T!Off
         /\ \A d \in Nat, r \in BOOLEAN : [due |-> d, refed |-> r] \in Slots \ {T!Off}
  <1>1. \A d \in Nat : d # None
    BY RealmAssumption
  <1>2. T!Off.refed = FALSE /\ T!Off.due = None
    BY DEF T!Off
  <1>3. ASSUME NEW d \in Nat, NEW r \in BOOLEAN
        PROVE  [due |-> d, refed |-> r] \in Slots \ {T!Off}
    BY <1>1, <1>2, <1>3 DEF Slots
  <1> QED BY <1>1, <1>2, <1>3 DEF Slots

\* A change of the binding is counted by what the handles hold.
LEMMA BindsHolds ==
  ASSUME TimersInv, NEW b \in Bindings, T!Binds(b)
  PROVE  bind' = b /\ holds' = T!Held(bind')
  <1>1. T!Held(b) \in Int /\ T!Held(bind) \in Int
    BY DEF T!Held
  <1> QED BY <1>1 DEF T!Binds, TimersInv

\* The first refed timer takes the handle, and the last lets it go.
LEMMA CountsToggles ==
  ASSUME NEW b \in Bindings, NEW n \in Nat, NEW m \in Nat
  PROVE  LET c == T!Counts(b, n, m)
         IN /\ c \in Bindings /\ c.timeout = b.timeout /\ c.drain = b.drain
            /\ c.immediates = b.immediates
            /\ (b.timers <=> n > 0) => (c.timers <=> m > 0)
  <1>1. CASE (n = 0) = (m = 0)
    BY <1>1 DEF T!Counts, Bindings
  <1>2. CASE (n = 0) # (m = 0)
    <2> DEFINE up == m > 0
               c == [b EXCEPT !.timers = up]
    <2>1. T!Counts(b, n, m) = c /\ up \in BOOLEAN
      BY <1>2 DEF T!Counts, T!TogglesTimer
    <2> HIDE DEF up
    <2> QED BY <2>1 DEF up, Bindings
  <1> QED BY <1>1, <1>2

\* How many timers are refed, when one changes.
LEMMA RefedsChange ==
  ASSUME NEW of \in [Timers -> Slots], NEW t \in Timers, NEW s \in Slots
  PROVE  LET n == Cardinality(Refeds(of))
             m == Cardinality(Refeds([of EXCEPT ![t] = s]))
         IN /\ n \in Nat /\ m \in Nat
            /\ s.refed /\ ~ of[t].refed => m = n + 1
            /\ ~ s.refed /\ of[t].refed => m = n - 1
            /\ (s.refed <=> of[t].refed) => m = n
            /\ n = 0 <=> Refeds(of) = {}
  <1> DEFINE g == [of EXCEPT ![t] = s]
             F == Refeds(of)
             G == Refeds(g)
  <1>1. g \in [Timers -> Slots] /\ g[t] = s /\ \A u \in Timers \ {t} : g[u] = of[u]
    OBVIOUS
  <1>2. IsFiniteSet(F) /\ IsFiniteSet(G)
    <2> QED BY RealmAssumption, FS_Subset DEF Refeds
  <1>3. Cardinality(F) \in Nat /\ Cardinality(G) \in Nat
    BY <1>2, FS_CardinalityType
  <1>4. \A u \in Timers : u \in F <=> of[u].refed
    BY DEF Refeds
  <1>5. \A u \in Timers : u \in G <=> g[u].refed
    BY DEF Refeds
  <1>6. F \subseteq Timers /\ G \subseteq Timers
    BY DEF Refeds
  <1>7. Cardinality(F) = 0 <=> F = {}
    BY <1>2, FS_EmptySet
  <1> HIDE DEF g, F, G
  <1>8. CASE s.refed /\ ~ of[t].refed
    <2>1. Cardinality(G) = Cardinality(F) + 1
      BY <1>2, <1>1, <1>4, <1>5, <1>6, <1>8, FS_AddElement
    <2> QED BY <1>3, <1>7, <1>8, <2>1 DEF g, F, G
  <1>9. CASE ~ s.refed /\ of[t].refed
    <2>1. Cardinality(G) = Cardinality(F) - 1
      BY <1>2, <1>1, <1>4, <1>5, <1>6, <1>9, FS_RemoveElement
    <2> QED BY <1>3, <1>7, <1>9, <2>1 DEF g, F, G
  <1>10. CASE s.refed <=> of[t].refed
    <2> QED BY <1>3, <1>7, <1>10, <1>1, <1>4, <1>5, <1>6 DEF g, F, G
  <1> QED BY <1>8, <1>9, <1>10

LEMMA SetTimerKeeps ==
  ASSUME TimersInv, NEW t \in Timers, NEW after \in 1..2, T!SetTimer(t, after)
  PROVE  TimersInv'
  <1> DEFINE due == clock + after
             sooner == timer.next = None \/ timer.next > due
             s == [due |-> due, refed |-> TRUE]
             c == T!Counts(bind, timer.count, timer.count + 1)
             b == IF sooner THEN T!Schedules(c, due) ELSE c
  <1>1. /\ timer.of[t] = T!Off
        /\ timer' = [of |-> [timer.of EXCEPT ![t] = s], count |-> timer.count + 1,
                     next |-> IF sooner THEN due ELSE timer.next]
        /\ T!Binds(b) /\ UNCHANGED <<queue, turn, clock>>
    BY DEF T!SetTimer, T!Armed
  <1>2. due \in Nat
    BY TimerFields
  <1>3. s \in Slots /\ s # T!Off /\ s.refed = TRUE /\ s.due = due
    BY <1>2, SlotFields DEF Slots
  <1>4. /\ c \in Bindings /\ c.timeout = bind.timeout /\ c.drain = bind.drain
        /\ c.immediates = bind.immediates
        /\ (bind.timers <=> timer.count > 0) => (c.timers <=> timer.count + 1 > 0)
    <2>1. bind \in Bindings /\ timer.count \in Nat /\ timer.count + 1 \in Nat
      BY TimerFields
    <2> QED BY <2>1, CountsToggles
  <1> HIDE DEF due, s, c
  <1>5. /\ b \in Bindings /\ b.timeout = (IF sooner THEN due ELSE timer.next)
        /\ b.drain = bind.drain /\ b.immediates = bind.immediates /\ b.timers = c.timers
    BY <1>2, <1>4 DEF T!Schedules, Bindings, TimersInv
  <1> HIDE DEF b
  <1>6. bind' = b /\ holds' = T!Held(bind')
    BY <1>1, <1>5, BindsHolds
  <1>7. /\ timer'.of = [timer.of EXCEPT ![t] = s] /\ timer'.count = timer.count + 1
        /\ timer'.next = IF sooner THEN due ELSE timer.next
    BY <1>1
  <1>8. TimerTypes'
    <2> QED BY <1>1, <1>5, <1>6, <1>2, <1>3, TimerFields DEF TimerTypes
  <1>9. timer'.count = Cardinality(Refeds(timer'.of))
    <2>1. timer.of \in [Timers -> Slots]
      BY TimerFields
    <2>2. Cardinality(Refeds([timer.of EXCEPT ![t] = s])) = Cardinality(Refeds(timer.of)) + 1
      BY <1>3, <1>1, <2>1, RefedsChange DEF T!Off
    <2> QED BY <1>7, <2>2 DEF TimersInv
  <1>10. turn.at # "timers" => (bind'.timers <=> timer'.count > 0) /\ NextFirst(timer')
    <2> SUFFICES ASSUME turn.at # "timers"
                 PROVE  (bind'.timers <=> timer'.count > 0) /\ NextFirst(timer')
      OBVIOUS
    <2>1. NextFirst(timer')
      <3> SUFFICES ASSUME NEW u \in Timers, timer'.of[u] # T!Off
                   PROVE  timer'.next # None /\ timer'.next <= timer'.of[u].due
        BY DEF NextFirst
      <3>0. due # None /\ timer.of \in [Timers -> Slots] /\ timer.next \in Nat \cup {None}
        BY <1>2, TimerFields, RealmAssumption
      <3>1. CASE u = t
        BY <1>2, <1>3, <1>7, <3>0, <3>1
      <3>2. CASE u # t
        <4>1. timer'.of[u] = timer.of[u] /\ timer.of[u] # T!Off
          BY <1>7, <3>0, <3>2
        <4>2. timer.next # None /\ timer.next <= timer.of[u].due /\ timer.of[u].due \in Nat
          BY <3>0, <4>1, SlotFields DEF TimersInv, NextFirst
        <4> QED BY <1>2, <1>7, <3>0, <4>1, <4>2
      <3> QED BY <3>1, <3>2
    <2> QED BY <1>4, <1>5, <1>6, <1>7, <2>1 DEF TimersInv
  <1> QED BY <1>1, <1>5, <1>6, <1>7, <1>8, <1>9, <1>10 DEF TimersInv

\* ref, unref and clearTimeout, of a timer that was set.
LEMMA ChangesKeeps ==
  ASSUME TimersInv, NEW t \in Timers, NEW s \in Slots, T!Changes(t, s),
         s # T!Off => s.due = timer.of[t].due
  PROVE  TimersInv'
  <1> DEFINE n == timer.count + (IF s.refed THEN 1 ELSE 0) - (IF timer.of[t].refed THEN 1 ELSE 0)
             b == T!Counts(bind, timer.count, n)
  <1>0. timer.of \in [Timers -> Slots] /\ timer.count \in Nat /\ bind \in Bindings
    BY TimerFields
  <1>1. /\ timer.of[t] # T!Off /\ timer' = [timer EXCEPT !.of[t] = s, !.count = n]
        /\ T!Binds(b) /\ UNCHANGED <<queue, turn, clock>>
    BY DEF T!Changes, T!Armed
  <1>2. n \in Nat /\ n = Cardinality(Refeds([timer.of EXCEPT ![t] = s]))
    <2>1. timer.count = Cardinality(Refeds(timer.of))
      BY DEF TimersInv
    <2> QED BY <1>0, SlotFields, <2>1, RefedsChange
  <1>3. /\ b \in Bindings /\ b.timeout = bind.timeout /\ b.drain = bind.drain
        /\ b.immediates = bind.immediates
        /\ (bind.timers <=> timer.count > 0) => (b.timers <=> n > 0)
    <2> HIDE DEF n
    <2> QED BY <1>0, <1>2, CountsToggles
  <1> HIDE DEF n, b
  <1>4. bind' = b /\ holds' = T!Held(bind')
    BY <1>1, <1>3, BindsHolds
  <1>5. /\ timer' \in [of : [Timers -> Slots], count : Nat, next : Nat \cup {None}]
        /\ timer'.of = [timer.of EXCEPT ![t] = s] /\ timer'.count = n /\ timer'.next = timer.next
    BY <1>1, <1>2, TimerFields
  <1>6. NextFirst(timer) => NextFirst(timer')
    BY <1>0, <1>1, <1>5 DEF NextFirst
  <1> QED BY <1>1, <1>2, <1>3, <1>4, <1>5, TimerFields, <1>6 DEF TimersInv, TimerTypes

LEMMA RunTimersKeeps ==
  ASSUME TimersInv, T!RunTimers PROVE TimersInv'
  <1> DEFINE b == [bind EXCEPT !.timeout = None]
  <1>1. /\ T!Binds(b) /\ timer' = [timer EXCEPT !.next = None]
        /\ turn' = [at |-> "timers", left |-> 0] /\ turn.at = "idle" /\ UNCHANGED <<queue, clock>>
    BY DEF T!RunTimers
  <1>2. /\ b \in Bindings /\ b.timeout = None /\ b.drain = bind.drain
        /\ b.immediates = bind.immediates
    BY TimerFields DEF Bindings
  <1> HIDE DEF b
  <1>3. bind' = b /\ holds' = T!Held(bind')
    BY <1>1, <1>2, BindsHolds
  <1>4. /\ timer' \in [of : [Timers -> Slots], count : Nat, next : Nat \cup {None}]
        /\ timer'.of = timer.of /\ timer'.count = timer.count /\ timer'.next = None
    BY <1>1, TimerFields
  <1> QED BY <1>1, <1>2, <1>3, <1>4, TimerFields DEF TimersInv, TimerTypes

LEMMA FiresKeeps ==
  ASSUME TimersInv, NEW t \in Timers, T!Fires(t) PROVE TimersInv'
  <1> DEFINE n == IF timer.of[t].refed THEN timer.count - 1 ELSE timer.count
  <1>0. timer.of \in [Timers -> Slots] /\ timer.count \in Nat
    BY TimerFields
  <1>1. /\ turn.at = "timers" /\ timer' = [timer EXCEPT !.of[t] = T!Off, !.count = n]
        /\ UNCHANGED <<queue, bind, turn, clock, holds>>
    BY DEF T!Fires
  <1>2. T!Off \in Slots /\ ~ T!Off.refed /\ timer.of[t].refed \in BOOLEAN
    BY <1>0, SlotFields DEF Slots, T!Off
  <1>3. n \in Nat /\ n = Cardinality(Refeds([timer.of EXCEPT ![t] = T!Off]))
    <2> QED BY <1>0, <1>2, RefedsChange DEF TimersInv
  <1> HIDE DEF n
  <1>4. /\ timer' \in [of : [Timers -> Slots], count : Nat, next : Nat \cup {None}]
        /\ timer'.of = [timer.of EXCEPT ![t] = T!Off] /\ timer'.count = n /\ timer'.next = timer.next
    BY <1>1, <1>2, <1>3, TimerFields
  <1> QED BY <1>1, <1>3, <1>4, TimerFields DEF TimersInv, TimerTypes

\* The end of a pass: the handle as counted, the timeout at the first expiry there is.
LEMMA TimersRanKeeps ==
  ASSUME TimersInv, T!TimersRan PROVE TimersInv'
  <1> DEFINE first == T!Min(T!Dues)
             none == T!Armed = {}
             b == T!Reconciled(bind)
  <1>0. timer.of \in [Timers -> Slots] /\ timer.count \in Nat /\ bind \in Bindings
    BY TimerFields
  <1>1. /\ turn.at = "timers" /\ timer' = [timer EXCEPT !.next = IF none THEN @ ELSE first]
        /\ T!Binds(b) /\ turn' = [at |-> "idle", left |-> 0] /\ UNCHANGED <<queue, clock>>
    BY DEF T!TimersRan
  <1>2. ~ none => first \in Nat /\ \A t \in T!Armed : first <= timer.of[t].due
    <2> SUFFICES ASSUME ~ none PROVE first \in Nat /\ \A t \in T!Armed : first <= timer.of[t].due
      OBVIOUS
    <2>1. \A t \in T!Armed : timer.of[t].due \in Nat /\ timer.of[t].due \in T!Dues
      BY <1>0, SlotFields DEF T!Armed, T!Dues
    <2>2. T!Dues \in SUBSET Nat /\ T!Dues # {}
      BY <2>1 DEF T!Dues
    <2> HIDE DEF none
    <2> QED BY <2>1, <2>2, MinIn
  <1> HIDE DEF first
  <1>3. /\ b \in Bindings /\ b.timeout = (IF none THEN bind.timeout ELSE first)
        /\ b.drain = bind.drain /\ b.immediates = bind.immediates
        /\ b.timers <=> timer.count > 0
    <2> DEFINE up == timer.count > 0
               c == IF none THEN bind ELSE [bind EXCEPT !.timeout = first]
    <2>1. b = [c EXCEPT !.timers = up] /\ up \in BOOLEAN
      BY DEF T!Reconciled, T!Schedules, T!TogglesTimer, first
    <2> HIDE DEF none, b, up
    <2>2. /\ c \in Bindings /\ c.timeout = (IF none THEN bind.timeout ELSE first)
          /\ c.drain = bind.drain /\ c.immediates = bind.immediates
      BY <1>0, <1>2 DEF Bindings
    <2> HIDE DEF c
    <2>3. /\ b \in Bindings /\ b.timeout = c.timeout
          /\ b.drain = c.drain /\ b.immediates = c.immediates /\ b.timers = up
      BY <2>1, <2>2 DEF Bindings
    <2> QED BY <2>2, <2>3 DEF up
  <1> HIDE DEF b
  <1>4. bind' = b /\ holds' = T!Held(bind')
    BY <1>1, <1>3, BindsHolds
  <1>5. /\ timer' \in [of : [Timers -> Slots], count : Nat, next : Nat \cup {None}]
        /\ timer'.of = timer.of /\ timer'.count = timer.count
        /\ timer'.next = IF none THEN timer.next ELSE first
    BY <1>1, <1>2, TimerFields
  <1>6. NextFirst(timer')
    <2> SUFFICES ASSUME NEW t \in Timers, timer.of[t] # T!Off
                 PROVE  timer'.next # None /\ timer'.next <= timer.of[t].due
      BY <1>5 DEF NextFirst
    <2>1. timer'.next = first /\ first \in Nat /\ first <= timer.of[t].due
      BY <1>2, <1>5 DEF T!Armed
    <2> QED BY <2>1, RealmAssumption
  <1> QED BY <1>1, <1>3, <1>4, <1>5, TimerFields, <1>6 DEF TimersInv, TimerTypes

\* The queue is another one, and the binding hears of the first refed one and of the last.
LEMMA QueuesKeeps ==
  ASSUME TimersInv, NEW q \in Seq(BOOLEAN), T!Queues(q), UNCHANGED <<timer, clock>>,
         turn' \in [at : {"idle", "timers", "immediates"}, left : Nat], turn'.at = turn.at,
         turn'.left <= Len(q), q # <<>> => queue # <<>> \/ T!AnyRefed(q)
  PROVE  TimersInv'
  <1> DEFINE b == IF T!AnyRefed(queue) = T!AnyRefed(q) THEN bind
                  ELSE T!TogglesImmediate(bind, T!AnyRefed(q))
  <1>1. queue' = q /\ T!Binds(b)
    BY DEF T!Queues
  <1>2. /\ b \in Bindings /\ b.timeout = bind.timeout /\ b.timers = bind.timers
        /\ b.immediates <=> T!AnyRefed(q)
        /\ bind.drain => b.drain
        /\ T!AnyRefed(q) /\ ~ T!AnyRefed(queue) => b.drain
    <2>1. bind.immediates <=> T!AnyRefed(queue)
      BY DEF TimersInv
    <2> QED BY TimerFields, <2>1 DEF T!TogglesImmediate, Bindings, T!AnyRefed
  <1> HIDE DEF b
  <1>3. bind' = b /\ holds' = T!Held(bind')
    BY <1>1, <1>2, BindsHolds
  <1>4. turn'.at # "immediates" /\ q # <<>> => bind'.drain
    <2> QED BY <1>2, <1>3 DEF TimersInv, T!AnyRefed
  <1> QED BY <1>1, <1>2, <1>3, TimerFields, <1>4 DEF TimersInv, TimerTypes

LEMMA ImmediatesKeep ==
  ASSUME TimersInv,
         \/ T!SetImmediate \/ T!DrainImmediates \/ T!RunsImmediate \/ T!ImmediatesRan
         \/ \E k \in DOMAIN queue :
              T!RefImmediate(k) \/ T!UnrefImmediate(k) \/ T!ClearImmediate(k)
  PROVE  TimersInv'
  <1>0. /\ queue \in Seq(BOOLEAN) /\ Len(queue) \in Nat /\ DOMAIN queue = 1..Len(queue)
        /\ turn \in [at : {"idle", "timers", "immediates"}, left : Nat]
        /\ turn.left \in Nat /\ turn.left <= Len(queue) /\ bind \in Bindings
    BY TimerFields
  <1>1. CASE T!SetImmediate
    <2> DEFINE q == Append(queue, TRUE)
    <2>1. q \in Seq(BOOLEAN) /\ Len(q) = Len(queue) + 1 /\ q[Len(queue) + 1] = TRUE
          /\ Len(queue) + 1 \in DOMAIN q
      BY <1>0, AppendAt
    <2>2. T!Queues(q) /\ UNCHANGED <<timer, turn, clock>>
      BY <1>1 DEF T!SetImmediate
    <2> HIDE DEF q
    <2> QED BY <1>0, <2>1, <2>2, QueuesKeeps DEF T!AnyRefed
  <1>2. CASE T!DrainImmediates
    <2> DEFINE b == [bind EXCEPT !.drain = FALSE]
    <2>1. /\ T!Binds(b) /\ turn.at = "idle" /\ turn' = [at |-> "immediates", left |-> Len(queue)]
          /\ UNCHANGED <<timer, queue, clock>>
      BY <1>2 DEF T!DrainImmediates
    <2>2. /\ b \in Bindings /\ b.timeout = bind.timeout /\ b.timers = bind.timers
          /\ b.immediates = bind.immediates
      BY <1>0 DEF Bindings
    <2> HIDE DEF b
    <2>3. bind' = b /\ holds' = T!Held(bind')
      BY <2>1, <2>2, BindsHolds
    <2> QED BY <1>0, <2>1, <2>2, <2>3, TimerFields DEF TimersInv, TimerTypes
  <1>3. CASE T!RunsImmediate
    <2> DEFINE q == Tail(queue)
    <2>1. /\ turn.left > 0 /\ T!Queues(q) /\ UNCHANGED <<timer, clock>>
          /\ turn' \in {[turn EXCEPT !.left = @ - 1], [turn EXCEPT !.left = 0]}
      BY <1>3 DEF T!RunsImmediate
    <2>2. queue # <<>>
      BY <1>0, <2>1, EmptySeq
    <2>3. q \in Seq(BOOLEAN) /\ Len(q) = Len(queue) - 1
      BY <1>0, <2>2, TailAt
    <2>4. /\ turn' \in [at : {"idle", "timers", "immediates"}, left : Nat] /\ turn'.at = turn.at
          /\ turn'.left = turn.left - 1 \/ turn'.left = 0
      BY <1>0, <2>1
    <2> HIDE DEF q
    <2> QED BY <2>1, <2>2, <2>3, <2>4, <1>0, QueuesKeeps
  <1>4. CASE T!ImmediatesRan
    <2> DEFINE b == [bind EXCEPT !.immediates = T!AnyRefed(queue), !.drain = @ \/ queue # <<>>]
    <2>1. /\ turn.at = "immediates" /\ T!Binds(b) /\ turn' = [at |-> "idle", left |-> 0]
          /\ UNCHANGED <<timer, queue, clock>>
      BY <1>4 DEF T!ImmediatesRan
    <2>2. /\ b \in Bindings /\ b.timeout = bind.timeout /\ b.timers = bind.timers
          /\ b.immediates = T!AnyRefed(queue) /\ (queue # <<>> => b.drain)
      BY <1>0 DEF Bindings, T!AnyRefed
    <2> HIDE DEF b
    <2>3. bind' = b /\ holds' = T!Held(bind')
      BY <2>1, <2>2, BindsHolds
    <2> QED BY <1>0, <2>1, <2>2, <2>3, TimerFields DEF TimersInv, TimerTypes
  <1>5. ASSUME NEW k \in DOMAIN queue,
               T!RefImmediate(k) \/ T!UnrefImmediate(k) \/ T!ClearImmediate(k)
        PROVE  TimersInv'
    <2>0. k \in Nat /\ k >= 1 /\ k <= Len(queue) /\ queue # <<>>
      BY <1>0, EmptySeq
    <2>1. CASE T!RefImmediate(k) \/ T!UnrefImmediate(k)
      <3>1. PICK r \in BOOLEAN : T!Queues([queue EXCEPT ![k] = r]) /\ UNCHANGED <<timer, turn, clock>>
        BY <2>1 DEF T!RefImmediate, T!UnrefImmediate
      <3> DEFINE q == [queue EXCEPT ![k] = r]
      <3>2. q \in Seq(BOOLEAN) /\ Len(q) = Len(queue)
        BY <1>0, ExceptSeq
      <3> HIDE DEF q
      <3> QED BY <1>0, <2>0, <3>1, <3>2, QueuesKeeps DEF q
    <2>2. CASE T!ClearImmediate(k)
      <3> DEFINE q1 == SubSeq(queue, 1, k - 1)
                 q2 == SubSeq(queue, k + 1, Len(queue))
                 q == q1 \o q2
      <3>1. /\ T!Queues(q) /\ UNCHANGED <<timer, clock>>
            /\ turn' = [turn EXCEPT !.left = IF k <= @ THEN @ - 1 ELSE @]
        BY <2>2 DEF T!ClearImmediate
      <3>2. q1 \in Seq(BOOLEAN) /\ Len(q1) = k - 1
        <4>1. \A i \in 1..(k - 1) : i \in 1..Len(queue)
          BY <1>0, <2>0
        <4> QED BY <1>0, <2>0, <4>1, ElementOfSeq, SubSeqProperties
      <3>3. q2 \in Seq(BOOLEAN) /\ Len(q2) = Len(queue) - k
        BY <1>0, <2>0, SubSeqProperties
      <3> HIDE DEF q1, q2
      <3>4. q \in Seq(BOOLEAN) /\ Len(q) = Len(queue) - 1
        <4>1. q1 \o q2 \in Seq(BOOLEAN) /\ Len(q1 \o q2) = Len(q1) + Len(q2)
          BY <3>2, <3>3, ConcatProperties
        <4> QED BY <1>0, <2>0, <3>2, <3>3, <4>1
      <3> HIDE DEF q
      <3>5. /\ turn' \in [at : {"idle", "timers", "immediates"}, left : Nat] /\ turn'.at = turn.at
            /\ turn'.left = IF k <= turn.left THEN turn.left - 1 ELSE turn.left
        BY <1>0, <3>1, <2>0
      <3>6. turn'.left <= Len(q)
        BY <1>0, <2>0, <3>4, <3>5
      <3> QED BY <2>0, <3>1, <3>4, <3>5, <3>6, QueuesKeeps
    <2> QED BY <1>5, <2>1, <2>2
  <1> QED BY <1>1, <1>2, <1>3, <1>4, <1>5

LEMMA TimerSteps ==
  ASSUME TimersInv, T!Next PROVE TimersInv'
  <1>1. ASSUME NEW t \in Timers, NEW after \in 1..2, T!SetTimer(t, after) PROVE TimersInv'
    BY <1>1, SetTimerKeeps
  <1>2. ASSUME NEW t \in Timers, T!RefTimer(t) \/ T!UnrefTimer(t) \/ T!ClearTimer(t) \/ T!Fires(t)
        PROVE  TimersInv'
    <2>0. timer.of \in [Timers -> Slots] /\ T!Off \in Slots
      BY TimerFields DEF Slots
    <2>1. CASE T!RefTimer(t) \/ T!UnrefTimer(t)
      <3>1. PICK r \in BOOLEAN : T!Changes(t, [timer.of[t] EXCEPT !.refed = r])
        BY <2>1 DEF T!RefTimer, T!UnrefTimer
      <3> DEFINE s == [timer.of[t] EXCEPT !.refed = r]
      <3>2. s \in Slots /\ s.due = timer.of[t].due
        BY <2>0, <2>1 DEF Slots, T!RefTimer, T!UnrefTimer, T!Changes, T!Armed
      <3> HIDE DEF s
      <3> QED BY <3>1, <3>2, ChangesKeeps DEF s
    <2>2. CASE T!ClearTimer(t)
      BY <2>0, <2>2, ChangesKeeps DEF T!ClearTimer
    <2> QED BY <1>2, <2>1, <2>2, FiresKeeps
  <1>3. CASE T!Tick
    <2>1. UNCHANGED <<timer, queue, bind, turn, holds>> /\ clock' = clock + 1 /\ clock' \in Nat
      BY <1>3, TimerFields DEF T!Tick
    <2> QED BY <2>1 DEF TimersInv, TimerTypes
  <1> QED BY <1>1, <1>2, <1>3, RunTimersKeeps, TimersRanKeeps, ImmediatesKeep DEF T!Next

LEMMA TimersStart ==
  ASSUME T!Init PROVE TimersInv
  <1>1. /\ timer = [of |-> [t \in Timers |-> T!Off], count |-> 0, next |-> None]
        /\ queue = <<>>
        /\ bind = [timeout |-> None, drain |-> FALSE, timers |-> FALSE, immediates |-> FALSE]
        /\ turn = [at |-> "idle", left |-> 0] /\ clock = 0 /\ holds = 0
    BY DEF T!Init
  <1>2. Cardinality(Refeds(timer.of)) = 0
    BY <1>1, FS_EmptySet DEF Refeds, T!Off
  <1>3. NextFirst(timer)
    BY <1>1 DEF NextFirst
  <1>4. ~ T!AnyRefed(queue) /\ Len(queue) = 0
    BY <1>1 DEF T!AnyRefed
  <1>5. holds = T!Held(bind)
    BY <1>1 DEF T!Held
  <1> QED BY <1>1, <1>2, <1>3, <1>4, <1>5 DEF TimersInv, TimerTypes, Slots, Bindings

\* Every state the timers get to is one the binding and lib/timers.js agree on between passes.
THEOREM TimersAgree == FairSpec => []TimersInv
  <1>1. Init => TimersInv
    BY TimersStart DEF Init
  <1>2. TimersInv /\ [Next]_vars => TimersInv'
    <2> SUFFICES ASSUME TimersInv, [Next]_vars PROVE TimersInv'
      OBVIOUS
    <2>1. CASE KeepsTime(T!Next)
      BY <2>1, TimerSteps DEF KeepsTime
    <2>2. CASE UNCHANGED timers
      BY <2>2 DEF timers, TimersInv, TimerTypes
    <2> QED BY <2>1, <2>2 DEF Next, Worker, Loader, Resolver, vars
  <1> QED BY <1>1, <1>2, PTL DEF FairSpec

\* A program is taken for finished when nothing of it lives, by a count that is right; its timers
\* hold it while one is refed, and none is forgotten (keepalive.ts drain, timers.ts runTimers).
THEOREM DrainsAreIdle == FairSpec => []DrainIsIdle
  <1>1. WorkerInv => N!TypeOK /\ N!DrainIsIdle
    <2> SUFFICES ASSUME WorkerInv PROVE N!TypeOK /\ N!DrainIsIdle
      OBVIOUS
    <2>1. /\ page \in Pages /\ run \in HostRuns /\ stdout \in Streams /\ program \in Programs
          /\ owned \in {"none", "coming", "open", "closed"} /\ loop \in Loops
          /\ Printed(stdout, program, toPage)
      BY PageKnows
    <2>2. CountsTrue(program, loop)
      BY DEF WorkerInv, ThreadOK
    <2>3. /\ page.phase \in {"user", "attach", "boot", "ready", "failed"}
          /\ page.worker \in {"none", "alive", "dead"}
          /\ page.attachment \in {"none", "open", "late"}
          /\ page.deadline \in {None, "status"} /\ page.listening \in {None, "status"}
      BY <2>1 DEF Pages
    <2>4. run.result \in {None, "error", "ok", "status", "threw"}
      BY <2>1 DEF HostRuns, Codes
    <2>5. N!DrainIsIdle
      BY <2>1, <2>2, LoopFields DEF N!DrainIsIdle, CountsTrue
    <2> QED BY <2>1, <2>2, <2>3, <2>4, ProgramFields, <2>5 DEF N!TypeOK, Printed, CountsTrue,
        N!Status, N!Ok, N!Threw
  <1>2. TimersInv => T!HoldsTrue
    <2> SUFFICES ASSUME TimersInv, turn.at = "idle"
                 PROVE  holds = (IF \E t \in T!Armed : timer.of[t].refed THEN 1 ELSE 0)
                                  + (IF T!AnyRefed(queue) THEN 1 ELSE 0)
      BY DEF T!HoldsTrue
    <2>1. Refeds(timer.of) # {} <=> timer.count > 0
      <3>1. IsFiniteSet(Refeds(timer.of))
        BY RealmAssumption, FS_Subset DEF Refeds
      <3> QED BY <3>1, FS_EmptySet, TimerFields DEF TimersInv
    <2>2. bind.timers <=> \E t \in T!Armed : timer.of[t].refed
      BY TimerFields, SlotFields, <2>1 DEF TimersInv, T!Armed, Refeds
    <2>3. holds = T!Held(bind)
      BY DEF TimersInv
    <2> QED BY <2>2, <2>3 DEF T!Held, TimersInv
  <1>3. TimersInv => T!NoneForgotten
    <2> SUFFICES ASSUME TimersInv, turn.at = "idle"
                 PROVE  /\ T!Armed # {} => bind.timeout # None /\ bind.timeout <= T!Min(T!Dues)
                        /\ queue # <<>> => bind.drain
      BY DEF T!NoneForgotten
    <2>1. ASSUME T!Armed # {} PROVE bind.timeout # None /\ bind.timeout <= T!Min(T!Dues)
      <3>1. \A t \in T!Armed : timer.of[t].due \in Nat
        BY TimerFields, SlotFields DEF T!Armed
      <3>2. T!Dues \in SUBSET Nat /\ T!Dues # {}
        BY <2>1, <3>1 DEF T!Dues
      <3>3. PICK t \in T!Armed : T!Min(T!Dues) = timer.of[t].due
        BY <3>2, MinIn DEF T!Dues
      <3> QED BY <3>3 DEF TimersInv, NextFirst, T!Armed
    <2> QED BY <2>1 DEF TimersInv
  <1>4. WorkerInv /\ TimersInv => DrainIsIdle
    BY <1>1, <1>2, <1>3 DEF DrainIsIdle
  <1> QED BY <1>4, WorkerAgrees, TimersAgree, PTL

-----------------------------------------------------------------------------
(***************************************************************************)
(* The loader.  A file whose version some frame, entry or read no longer   *)
(* has is one the worker is yet to be told of (Untold), by a control call   *)
(* on the way or by none; and a control call is heard when no frame and no  *)
(* read is left (Invalidates).  A resolution that nothing overtook has      *)
(* asked, of a disk that has not changed, for every candidate before the    *)
(* one it is at (LooksTrue), so what it ends in is the first that is there. *)
(***************************************************************************)

Entries == [version : Nat, whole : BOOLEAN, threw : BOOLEAN]

Hows == {"require", "import"}

Frames == [file : Files, version : Nat, how : Hows, todo : Seq(Specs)]

Finds ==
  [spec : Specs \cup {CHOOSE s \in Specs : TRUE}, how : Hows, at : Nat,
   step : {"probe", "probed", "read", "source", "failed"}, path : Files \cup {None}, saw : Nat,
   overtaken : BOOLEAN]

LoaderTypes ==
  /\ disk \in [Files -> Nat] /\ stamp \in Nat /\ pending \in BOOLEAN
  /\ control \in Seq(SUBSET Files) /\ memo \in [Specs -> Files \cup {None}]
  /\ cache \in [Files -> Entries \cup {None}]
  /\ registry \in [Files -> {"none", "loading", "done", "failed"}]
  /\ stack \in Seq(Frames) /\ find \in Finds \cup {None}
  /\ late \subseteq Specs /\ wrote \subseteq Files

\* Where a frame is, its module is known; and what has neither ended nor thrown is a frame's.
Known(st, ca, re) ==
  \A i \in DOMAIN st :
    IF st[i].how = "require" THEN ca[st[i].file] # None ELSE re[st[i].file] # "none"

Frame(st, f) == \E i \in DOMAIN st : st[i].file = f /\ st[i].how = "require"

Halves(st, ca) ==
  \A f \in Files : ca[f] # None /\ ~ ca[f].whole /\ ~ ca[f].threw => Frame(st, f)

Once(st) ==
  \A i, j \in DOMAIN st : st[i].file = st[j].file /\ st[i].how = st[j].how => i = j

\* The worker is yet to be told that f changed.
Untold(w, c, f) == f \in w \/ \E i \in DOMAIN c : f \in c[i]

\* What was read of a file is what is there, or the worker is yet to be told.
Latest(d, w, c, f, v) == v = d[f] \/ Untold(w, c, f)

ReadsLatest(d, w, c, ca, st, fi) ==
  /\ \A f \in Files : ca[f] # None => Latest(d, w, c, f, ca[f].version)
  /\ \A i \in DOMAIN st : Latest(d, w, c, st[i].file, st[i].version)
  /\ fi # None /\ fi.step = "source" => Latest(d, w, c, fi.path, fi.saw)

\* The steps of a resolution that have a file to read.
Reading(fi) == fi # None /\ fi.step \in {"read", "source"} => fi.path \in Files

Probing(fi) ==
  fi # None /\ fi.step \in {"probe", "probed"} =>
    /\ fi.spec \in Specs /\ fi.at \in DOMAIN Candidates[fi.spec]
    /\ fi.step = "probed" => fi.path = Candidates[fi.spec][fi.at]

LooksTrue(d, p, fi) ==
  fi # None /\ fi.step \in {"probe", "probed"} /\ ~ fi.overtaken /\ ~ p =>
    /\ \A i \in DOMAIN Candidates[fi.spec] : i < fi.at => d[Candidates[fi.spec][i]] = 0
    /\ fi.step = "probed" => fi.saw = d[fi.path]

\* The first candidate that is there, on the disk d.
Leads(d, s, f) ==
  \E i \in DOMAIN Candidates[s] :
    /\ f = Candidates[s][i] /\ d[f] # 0
    /\ \A j \in DOMAIN Candidates[s] : j < i => d[Candidates[s][j]] = 0

MemoLeads(d, p, m, la) ==
  \A s \in Specs : m[s] # None /\ ~ p /\ s \notin la => Leads(d, s, m[s])

LoaderInv ==
  /\ LoaderTypes
  /\ Once(stack) /\ Known(stack, cache, registry) /\ Halves(stack, cache) /\ M!HandedWhole
  /\ ReadsLatest(disk, wrote, control, cache, stack, find)
  /\ Reading(find) /\ Probing(find) /\ LooksTrue(disk, pending, find)
  /\ MemoLeads(disk, pending, memo, late)

\* The positions of a stack, and of what is under its top.
LEMMA FrontAt ==
  ASSUME NEW S, NEW q \in Seq(S), q # <<>>
  PROVE  /\ M!Front(q) \in Seq(S) /\ M!Last(q) \in S /\ M!Last(q) = q[Len(q)] /\ Len(q) \in DOMAIN q
         /\ Len(q) \in Nat /\ DOMAIN q = 1..Len(q) /\ DOMAIN M!Front(q) = 1..(Len(q) - 1)
         /\ \A i \in DOMAIN M!Front(q) : M!Front(q)[i] = q[i] /\ i \in DOMAIN q /\ i # Len(q)
         /\ \A i \in DOMAIN q : i # Len(q) => i \in DOMAIN M!Front(q)
  <1>1. Len(q) \in Nat /\ Len(q) # 0 /\ DOMAIN q = 1..Len(q)
    BY LenProperties, EmptySeq
  <1> DEFINE n == Len(q) - 1
  <1>2. 1 \in 1..(Len(q) + 1) /\ n \in 0..Len(q) /\ n \in Nat
    BY <1>1
  <1>3. /\ SubSeq(q, 1, n) \in Seq(S) /\ Len(SubSeq(q, 1, n)) = n
        /\ \A i \in 1..n : SubSeq(q, 1, n)[i] = q[i]
    <2>1. n - 1 + 1 = n /\ \A i \in 1..n : 1 + i - 1 = i
      BY <1>2
    <2> QED BY <1>2, SubSeqProperties, <2>1
  <1>4. M!Front(q) = SubSeq(q, 1, n) /\ M!Last(q) = q[Len(q)]
    BY DEF M!Front, M!Last
  <1>5. q[Len(q)] \in S /\ Len(q) \in DOMAIN q
    BY <1>1, ElementOfSeq
  <1>6. \A k \in Nat : /\ \A i \in 1..(k - 1) : i \in 1..k /\ i # k
                       /\ \A i \in 1..k : i # k => i \in 1..(k - 1)
    OBVIOUS
  <1>7. /\ \A i \in 1..n : i \in 1..Len(q) /\ i # Len(q)
        /\ \A i \in 1..Len(q) : i # Len(q) => i \in 1..n
    <2>1. Len(q) \in Nat
      BY <1>1
    <2> QED BY ONLY <1>6, <2>1 DEF n
  <1> HIDE DEF n
  <1>8. /\ M!Front(q) \in Seq(S) /\ DOMAIN M!Front(q) = 1..n
        /\ \A i \in 1..n : M!Front(q)[i] = q[i]
    BY <1>3, LenProperties, <1>4
  <1> QED BY <1>1, <1>4, <1>5, <1>7, <1>8 DEF n

\* The fields of an entry, of a frame, of a resolution.
LEMMA EntryFields ==
  ASSUME NEW e \in Entries
  PROVE  e.version \in Nat /\ e.whole \in BOOLEAN /\ e.threw \in BOOLEAN /\ e # None
  BY RealmAssumption DEF Entries

LEMMA EntryMade ==
  ASSUME NEW v \in Nat, NEW w \in BOOLEAN, NEW t \in BOOLEAN
  PROVE  [version |-> v, whole |-> w, threw |-> t] \in Entries
  BY DEF Entries

LEMMA FindFields ==
  ASSUME NEW f \in Finds
  PROVE  /\ f.how \in Hows /\ f.at \in Nat /\ f.path \in Files \cup {None} /\ f.saw \in Nat
         /\ f.step \in {"probe", "probed", "read", "source", "failed"} /\ f.overtaken \in BOOLEAN
         /\ f.spec \in Specs \cup {CHOOSE s \in Specs : TRUE}
  BY DEF Finds

LEMMA FrameFields ==
  ASSUME NEW f \in Frames
  PROVE  f.file \in Files /\ f.version \in Nat /\ f.how \in Hows /\ f.todo \in Seq(Specs)
  BY DEF Frames

\* A file that changed is one the worker is yet to be told of; what it was yet to be told of it
\* still is, after more changes.
LEMMA StaysUntold ==
  ASSUME NEW d, NEW e, NEW w, NEW x, NEW c, NEW k, NEW ca, NEW st, NEW fi,
         \A f : Untold(w, c, f) => Untold(x, k, f),
         \A f : d[f] # e[f] => Untold(x, k, f),
         ReadsLatest(d, w, c, ca, st, fi)
  PROVE  ReadsLatest(e, x, k, ca, st, fi)
  BY DEF ReadsLatest, Latest

LEMMA LoaderFields ==
  ASSUME LoaderInv
  PROVE  /\ disk \in [Files -> Nat] /\ stamp \in Nat /\ pending \in BOOLEAN
         /\ control \in Seq(SUBSET Files) /\ memo \in [Specs -> Files \cup {None}]
         /\ cache \in [Files -> Entries \cup {None}]
         /\ registry \in [Files -> {"none", "loading", "done", "failed"}]
         /\ stack \in Seq(Frames) /\ find \in Finds \cup {None}
         /\ late \subseteq Specs /\ wrote \subseteq Files
         /\ Len(stack) \in Nat /\ DOMAIN stack = 1..Len(stack)
         /\ Len(control) \in Nat /\ DOMAIN control = 1..Len(control)
         /\ \A i \in DOMAIN stack : stack[i] \in Frames
  <1>1. control \in Seq(SUBSET Files) /\ stack \in Seq(Frames)
    BY DEF LoaderInv, LoaderTypes
  <1>2. /\ Len(stack) \in Nat /\ DOMAIN stack = 1..Len(stack) /\ stack \in [1..Len(stack) -> Frames]
        /\ Len(control) \in Nat /\ DOMAIN control = 1..Len(control)
    BY <1>1, LenProperties
  <1> QED BY <1>1, <1>2 DEF LoaderInv, LoaderTypes

\* A resolution begins: at its first candidate, or where the memo has it lead.
LEMMA LookingMade ==
  ASSUME NEW s \in Specs \cup {CHOOSE s \in Specs : TRUE}, NEW how \in Hows
  PROVE  /\ M!Looking(s, how) \in Finds
         /\ M!Looking(s, how).step = "probe" /\ M!Looking(s, how).at = 1
         /\ M!Looking(s, how).spec = s
         /\ \A x \in {"read", "failed"} : [M!Looking(s, how) EXCEPT !.step = x] \in Finds
         /\ \A p \in Files : [M!Looking(s, how) EXCEPT !.step = "read", !.path = p] \in Finds
  BY DEF Finds, M!Looking

LEMMA BeginsRight ==
  ASSUME LoaderInv, NEW s \in Specs, NEW how \in Hows, M!Begins(s, how)
  PROVE  /\ find' \in Finds \cup {None} /\ Reading(find') /\ Probing(find')
         /\ \A p \in BOOLEAN : LooksTrue(disk, p, find')
         /\ find'.step # "source"
  <1>1. DOMAIN Candidates[s] = 1..Len(Candidates[s]) /\ 1 \in DOMAIN Candidates[s]
    BY RealmAssumption, LenProperties, TailAt
  <1>2. CASE memo[s] = None
    <2>1. find' \in Finds /\ find'.step = "probe" /\ find'.at = 1 /\ find'.spec = s
      BY <1>2, LookingMade DEF M!Begins
    <2> QED BY <1>1, <2>1 DEF Reading, Probing, LooksTrue
  <1>3. CASE memo[s] # None
    <2>1. memo[s] \in Files
      BY <1>3, LoaderFields
    <2>2. find' = [M!Looking(s, how) EXCEPT !.step = "read", !.path = memo[s]]
      BY <1>3 DEF M!Begins
    <2>3. find'.step = "read" /\ find'.path = memo[s]
      BY <2>2 DEF M!Looking
    <2> QED BY <2>1, <2>2, LookingMade, <2>3 DEF Reading, Probing, LooksTrue
  <1> QED BY <1>2, <1>3

\* What the page does: a file is another one, and the worker is yet to be told.
LEMMA PageKeeps ==
  ASSUME LoaderInv, M!Page PROVE LoaderInv'
  <1>1. PICK f \in Files :
          /\ M!Changes(f)
          /\ \/ wrote' = wrote \cup {f} /\ control' = control
             \/ wrote' = wrote /\ control' = Append(control, {f})
    BY DEF M!Page, M!Writes, M!Registers
  <1>2. UNCHANGED <<memo, cache, registry, stack, find, got, late>>
    BY DEF M!Page, M!Writes, M!Registers
  <1>3. /\ disk' \in [Files -> Nat] /\ pending' = TRUE /\ stamp' \in Nat
        /\ \A g : disk[g] # disk'[g] => g = f
    BY <1>1, LoaderFields DEF M!Changes
  <1>4. /\ control' \in Seq(SUBSET Files) /\ wrote' \subseteq Files
        /\ \A g : Untold(wrote, control, g) => Untold(wrote', control', g)
        /\ Untold(wrote', control', f)
    <2>1. CASE wrote' = wrote \cup {f} /\ control' = control
      BY <2>1, <1>1, LoaderFields DEF Untold
    <2>2. CASE wrote' = wrote /\ control' = Append(control, {f})
      <3>1. /\ control' \in Seq(SUBSET Files)
            /\ \A i \in DOMAIN control : i \in DOMAIN control' /\ control'[i] = control[i]
            /\ Len(control) + 1 \in DOMAIN control' /\ control'[Len(control) + 1] = {f}
        BY <1>1, <2>2, LoaderFields, AppendAt
      <3>2. \A g : Untold(wrote, control, g) => Untold(wrote', control', g)
        BY <2>2, <3>1 DEF Untold
      <3> QED BY <2>2, <3>1, <3>2, LoaderFields DEF Untold
    <2> QED BY <1>1, <2>1, <2>2
  <1>5. ReadsLatest(disk', wrote', control', cache, stack, find)
    <2>1. ReadsLatest(disk, wrote, control, cache, stack, find)
      BY DEF LoaderInv
    <2> QED BY <1>4, <1>3, <2>1, StaysUntold
  <1>6. LoaderTypes'
    BY <1>2, <1>3, <1>4 DEF LoaderTypes, LoaderInv
  <1>7. M!HandedWhole'
    BY <1>2 DEF LoaderInv, M!HandedWhole
  <1> QED BY <1>2, <1>5, <1>6, <1>3, <1>7 DEF LoaderInv, LooksTrue, MemoLeads

\* The page's answer.
LEMMA LooksKeeps ==
  ASSUME LoaderInv, M!Looks PROVE LoaderInv'
  <1>0. LoaderTypes /\ Reading(find) /\ Probing(find) /\ LooksTrue(disk, pending, find)
    BY DEF LoaderInv
  <1>1. /\ UNCHANGED <<disk, stamp, pending, control, memo, cache, registry, stack, got, late, wrote>>
        /\ find # None /\ find \in Finds /\ find.step \in {"probe", "read"}
    BY LoaderFields DEF M!Looks
  <1> DEFINE f == IF find.step = "probe" THEN Candidates[find.spec][find.at] ELSE find.path
             x == IF find.step = "probe" THEN "probed" ELSE "source"
  <1>2. find' = [find EXCEPT !.saw = disk[f], !.path = f, !.step = x]
    BY DEF M!Looks
  <1>3. f \in Files
    <2>1. CASE find.step = "probe"
      <3>1. find.spec \in Specs /\ find.at \in DOMAIN Candidates[find.spec]
        BY <1>0, <1>1, <2>1 DEF Probing
      <3> QED BY <2>1, <3>1, RealmAssumption, LenProperties
    <2>2. CASE find.step = "read"
      BY <1>0, <1>1, <2>2 DEF Reading
    <2> QED BY <1>1, <2>1, <2>2
  <1>4. disk[f] \in Nat /\ x \in {"probed", "source"}
    BY <1>3, LoaderFields
  <1> HIDE DEF f, x
  <1>5. /\ find' \in Finds /\ find'.saw = disk[f] /\ find'.path = f /\ find'.step = x
        /\ find'.spec = find.spec /\ find'.at = find.at /\ find'.overtaken = find.overtaken
    BY <1>1, <1>2, <1>3, <1>4 DEF Finds
  <1>6. Reading(find')
    BY <1>3, <1>5 DEF Reading
  <1>7. Probing(find') /\ LooksTrue(disk, pending, find')
    <2>1. find'.step \in {"probe", "probed"} => find'.step = "probed"
      BY <1>5 DEF x
    <2> QED BY <1>0, <1>1, <1>5, <2>1 DEF Probing, LooksTrue, f, x
  <1>8. ReadsLatest(disk, wrote, control, cache, stack, find')
    <2> QED BY <1>5 DEF ReadsLatest, Latest, LoaderInv
  <1>9. M!HandedWhole'
    BY <1>1 DEF LoaderInv, M!HandedWhole
  <1> QED BY <1>1, <1>0, <1>5, <1>6, <1>7, <1>8, <1>9 DEF LoaderInv, LoaderTypes

\* What is left of the memo when a reply is applied.
LEMMA DrainedLeads ==
  ASSUME LoaderInv
  PROVE  /\ MemoLeads(disk, FALSE, M!Drained.memo, M!Drained.late)
         /\ M!Drained.memo \in [Specs -> Files \cup {None}] /\ M!Drained.late \subseteq Specs
  <1>1. CASE pending
    <2> QED BY <1>1 DEF MemoLeads, M!Drained, M!Nowhere
  <1>2. CASE ~ pending
    <2> QED BY <1>2, LoaderFields DEF LoaderInv, MemoLeads, M!Drained
  <1> QED BY <1>1, <1>2

\* A resolution that is over, or has failed, has nothing to be right about.
LEMMA OverRight ==
  ASSUME NEW fi, fi = None \/ fi.step = "failed", NEW ca, NEW st, NEW old,
         ReadsLatest(disk, wrote, control, ca, st, old)
  PROVE  /\ Reading(fi) /\ Probing(fi) /\ \A p \in BOOLEAN : LooksTrue(disk, p, fi)
         /\ ReadsLatest(disk, wrote, control, ca, st, fi)
  BY DEF Reading, Probing, LooksTrue, ReadsLatest

LEMMA MissesKeeps ==
  ASSUME LoaderInv, M!Misses PROVE LoaderInv'
  <1>0. /\ LoaderTypes /\ Reading(find) /\ Probing(find) /\ LooksTrue(disk, pending, find)
        /\ ReadsLatest(disk, wrote, control, cache, stack, find)
    BY DEF LoaderInv
  <1>1. /\ UNCHANGED <<disk, stamp, control, cache, registry, stack, got, wrote>>
        /\ pending' = FALSE /\ memo' = M!Drained.memo /\ late' = M!Drained.late
        /\ find # None /\ find \in Finds /\ find.step = "probed" /\ find.saw = 0
    BY LoaderFields DEF M!Misses, M!Hears
  <1>2. /\ find' \in Finds
        /\ Reading(find') /\ Probing(find') /\ LooksTrue(disk, FALSE, find')
        /\ ReadsLatest(disk, wrote, control, cache, stack, find')
    <2>1. CASE find.at < Len(Candidates[find.spec])
      <3>1. /\ find' = [find EXCEPT !.at = find.at + 1, !.step = "probe", !.overtaken = M!Overtaken]
            /\ find.at + 1 \in Nat
        BY <1>1, <2>1, FindFields DEF M!Misses
      <3> HIDE DEF M!Overtaken
      <3>2. /\ find' \in Finds /\ find'.step = "probe" /\ find'.at = find.at + 1
            /\ find'.spec = find.spec /\ find'.overtaken = M!Overtaken
        BY <1>1, FindFields, LoaderFields, <3>1 DEF Finds, M!Overtaken
      <3>3. /\ find.spec \in Specs /\ find.at \in DOMAIN Candidates[find.spec]
            /\ find.path = Candidates[find.spec][find.at]
        BY <1>0, <1>1 DEF Probing
      <3>4. /\ Len(Candidates[find.spec]) \in Nat
            /\ DOMAIN Candidates[find.spec] = 1..Len(Candidates[find.spec])
        BY <3>3, RealmAssumption, LenProperties
      <3>5. Probing(find')
        BY <3>2, <3>3, <2>1, <3>4 DEF Probing
      <3>6. LooksTrue(disk, FALSE, find')
        <4> SUFFICES ASSUME ~ M!Overtaken, NEW i \in DOMAIN Candidates[find.spec], i < find.at + 1
                     PROVE  disk[Candidates[find.spec][i]] = 0
          BY <3>2 DEF LooksTrue
        <4>1. /\ \A j \in DOMAIN Candidates[find.spec] :
                   j < find.at => disk[Candidates[find.spec][j]] = 0
              /\ find.saw = disk[find.path]
          BY <1>0, <1>1 DEF LooksTrue, M!Overtaken
        <4> QED BY <1>1, <3>3, <4>1, <3>4
      <3> QED BY <1>0, <3>2, <3>5, <3>6 DEF Reading, ReadsLatest
    <2>2. CASE ~ find.at < Len(Candidates[find.spec])
      <3>1. find' \in Finds /\ find'.step = "failed"
        BY <1>1, <2>2 DEF Finds, M!Misses
      <3> QED BY <1>0, <3>1, OverRight
    <2> QED BY <2>1, <2>2
  <1>3. MemoLeads(disk', pending', memo', late')
    BY <1>1, DrainedLeads
  <1>4. M!HandedWhole'
    BY <1>1 DEF LoaderInv, M!HandedWhole
  <1> QED BY <1>1, <1>2, <1>0, DrainedLeads, <1>3, <1>4 DEF LoaderInv, LoaderTypes

LEMMA HitsKeeps ==
  ASSUME LoaderInv, M!Hits PROVE LoaderInv'
  <1>0. /\ LoaderTypes /\ Reading(find) /\ Probing(find) /\ LooksTrue(disk, pending, find)
        /\ ReadsLatest(disk, wrote, control, cache, stack, find)
    BY DEF LoaderInv
  <1> DEFINE m == M!Drained.memo
             l == M!Drained.late
  <1>1. /\ UNCHANGED <<disk, stamp, control, cache, registry, stack, got, wrote>>
        /\ pending' = FALSE /\ memo' = [m EXCEPT ![find.spec] = find.path]
        /\ late' = IF M!Overtaken THEN l \cup {find.spec} ELSE l \ {find.spec}
        /\ find # None /\ find \in Finds /\ find.step = "probed" /\ find.saw # 0
        /\ find' = [find EXCEPT !.step = "read"]
    BY LoaderFields DEF M!Hits, M!Hears
  <1>2. /\ MemoLeads(disk, FALSE, m, l)
        /\ m \in [Specs -> Files \cup {None}] /\ l \subseteq Specs
    BY DrainedLeads
  <1> HIDE DEF m, l
  <1>3. /\ find.spec \in Specs /\ find.at \in DOMAIN Candidates[find.spec]
        /\ find.path = Candidates[find.spec][find.at]
    BY <1>0, <1>1 DEF Probing
  <1>4. find.path \in Files
    BY <1>3, RealmAssumption, LenProperties
  <1>5. find' \in Finds /\ find'.step = "read" /\ find'.path = find.path
    BY <1>1 DEF Finds
  <1>6. /\ Reading(find') /\ Probing(find') /\ LooksTrue(disk, FALSE, find')
        /\ ReadsLatest(disk, wrote, control, cache, stack, find')
    BY <1>0, <1>4, <1>5 DEF Reading, Probing, LooksTrue, ReadsLatest
  <1>7. MemoLeads(disk, FALSE, memo', late')
    <2> SUFFICES ASSUME NEW s \in Specs, memo'[s] # None, s \notin late'
                 PROVE  Leads(disk, s, memo'[s])
      BY DEF MemoLeads
    <2>1. CASE s = find.spec
      <3>1. ~ find.overtaken /\ ~ pending
        BY <1>1, <2>1 DEF M!Overtaken
      <3>2. memo'[s] = find.path
        BY <1>1, <1>2, <2>1
      <3> QED BY <1>1, <1>3, <2>1, <1>0, <3>1, <3>2 DEF Leads, LooksTrue
    <2>2. CASE s # find.spec
      <3> QED BY <1>2, <1>1, <2>2 DEF MemoLeads
    <2> QED BY <2>1, <2>2
  <1>8. M!HandedWhole'
    BY <1>1 DEF LoaderInv, M!HandedWhole
  <1> QED BY <1>1, <1>0, <1>2, <1>3, <1>4, <1>5, <1>6, <1>7, <1>8 DEF LoaderInv, LoaderTypes

\* Exports are handed out as they are: half of them only while their body runs, or after it threw.
LEMMA CachedKeeps ==
  ASSUME LoaderInv, M!Cached PROVE LoaderInv'
  <1>0. /\ LoaderTypes /\ Reading(find) /\ Halves(stack, cache)
        /\ ReadsLatest(disk, wrote, control, cache, stack, find)
    BY DEF LoaderInv
  <1>1. /\ UNCHANGED <<disk, stamp, control, cache, registry, stack, wrote>>
        /\ pending' = FALSE /\ memo' = M!Drained.memo /\ late' = M!Drained.late
        /\ find # None /\ find.step = "source" /\ find' = None
        /\ got' = got \/ (cache[find.path] # None /\ M!Gives(find.path, cache[find.path]))
    BY DEF M!Cached, M!Hears
  <1>2. M!HandedWhole'
    <2>1. CASE got' = got
      BY <2>1 DEF LoaderInv, M!HandedWhole
    <2>2. CASE cache[find.path] # None /\ M!Gives(find.path, cache[find.path])
      <3> DEFINE e == cache[find.path]
      <3>1. /\ got'.whole = e.whole /\ got'.threw = e.threw
            /\ got'.inside = M!OnStack(find.path, "require")
        BY <2>2 DEF M!Gives
      <3>2. ~ e.whole /\ ~ e.threw => Frame(stack, find.path)
        BY <1>0, <1>1, <2>2 DEF Halves, Reading
      <3>3. Frame(stack, find.path) <=> M!OnStack(find.path, "require")
        BY DEF Frame, M!OnStack
      <3> HIDE DEF e
      <3>4. ~ got'.whole => got'.inside \/ got'.threw
        BY <3>1, <3>2, <3>3
      <3> QED BY <3>4 DEF M!HandedWhole
    <2> QED BY <1>1, <2>1, <2>2
  <1>3. LoaderTypes'
    BY <1>0, <1>1, DrainedLeads DEF LoaderTypes
  <1>4. MemoLeads(disk', pending', memo', late')
    BY <1>1, DrainedLeads
  <1> QED BY <1>1, <1>2, <1>0, OverRight, <1>3, <1>4 DEF LoaderInv

\* A body that starts is on the stack of those that run, under none of its own.
LEMMA PushedRight ==
  ASSUME LoaderInv, find # None, find.step = "source", NEW how \in Hows, M!Pushed(how)
  PROVE  /\ stack' \in Seq(Frames) /\ DOMAIN stack' = DOMAIN stack \cup {Len(stack) + 1}
         /\ \A i \in DOMAIN stack : stack'[i] = stack[i] /\ i # Len(stack) + 1
         /\ stack'[Len(stack) + 1].file = find.path /\ stack'[Len(stack) + 1].how = how
         /\ stack'[Len(stack) + 1].version = find.saw
         /\ find.path \in Files /\ find.saw \in Nat
         /\ (\A i \in DOMAIN stack : ~ (stack[i].file = find.path /\ stack[i].how = how)) => Once(stack')
         /\ \A f : Frame(stack, f) => Frame(stack', f)
         /\ how = "require" => Frame(stack', find.path)
         /\ \A ca : (\A f \in Files : ca[f] # None => Latest(disk, wrote, control, f, ca[f].version))
                      => ReadsLatest(disk, wrote, control, ca, stack', None)
  <1>1. find \in Finds /\ find.path \in Files /\ Requires[find.path] \in Seq(Specs) /\ find.saw \in Nat
    <2> QED BY LoaderFields, RealmAssumption, FindFields DEF LoaderInv, Reading
  <1> DEFINE x == [file |-> find.path, version |-> find.saw, how |-> how, todo |-> Requires[find.path]]
  <1>2. x \in Frames
    BY <1>1 DEF Frames
  <1>3. x.file = find.path /\ x.how = how /\ x.version = find.saw
    OBVIOUS
  <1>4. stack' = Append(stack, x)
    BY DEF M!Pushed
  <1> HIDE DEF x
  <1>5. /\ stack' \in Seq(Frames) /\ DOMAIN stack' = DOMAIN stack \cup {Len(stack) + 1}
        /\ \A i \in DOMAIN stack : stack'[i] = stack[i] /\ i # Len(stack) + 1
        /\ stack'[Len(stack) + 1] = x
    BY <1>2, <1>4, LoaderFields, AppendAt
  <1>6. (\A i \in DOMAIN stack : ~ (stack[i].file = find.path /\ stack[i].how = how)) => Once(stack')
    <2> QED BY <1>3, <1>5 DEF Once, LoaderInv
  <1>7. ASSUME NEW ca, \A f \in Files : ca[f] # None => Latest(disk, wrote, control, f, ca[f].version)
        PROVE  ReadsLatest(disk, wrote, control, ca, stack', None)
    <2> QED BY <1>3, <1>5, <1>7 DEF ReadsLatest, LoaderInv
  <1> QED BY <1>1, <1>3, <1>5, <1>6, <1>7 DEF Frame

LEMMA RunsBodyKeeps ==
  ASSUME LoaderInv, M!RunsBody PROVE LoaderInv'
  <1>0. /\ LoaderTypes /\ Halves(stack, cache) /\ Known(stack, cache, registry)
        /\ ReadsLatest(disk, wrote, control, cache, stack, find)
    BY DEF LoaderInv
  <1>1. /\ UNCHANGED <<disk, stamp, control, registry, got, wrote>>
        /\ pending' = FALSE /\ memo' = M!Drained.memo /\ late' = M!Drained.late
        /\ find # None /\ find.step = "source" /\ find' = None
        /\ cache[find.path] = None /\ M!Pushed("require")
        /\ cache' = [cache EXCEPT ![find.path] = M!Entry]
    BY DEF M!RunsBody, M!Hears
  <1>2. /\ "require" \in Hows /\ find.path \in Files /\ find.saw \in Nat
        /\ cache \in [Files -> Entries \cup {None}]
    BY <1>1, LoaderFields, PushedRight DEF Hows
  <1> DEFINE n == Len(stack) + 1
  <1> HIDE DEF n
  <1>3. /\ stack' \in Seq(Frames) /\ DOMAIN stack' = DOMAIN stack \cup {n}
        /\ \A i \in DOMAIN stack : stack'[i] = stack[i] /\ i # n
        /\ stack'[n].file = find.path /\ stack'[n].how = "require"
        /\ \A f : Frame(stack, f) => Frame(stack', f)
        /\ Frame(stack', find.path)
    BY <1>1, <1>2, PushedRight DEF n
  <1>4. M!Entry \in Entries /\ M!Entry # None /\ M!Entry.version = find.saw
    BY <1>2, EntryMade, EntryFields DEF M!Entry
  <1> HIDE DEF M!Entry
  <1>5. /\ cache' \in [Files -> Entries \cup {None}] /\ cache'[find.path] = M!Entry
        /\ \A f \in Files : f # find.path => cache'[f] = cache[f]
    BY <1>1, <1>2, <1>4
  <1>6. Once(stack')
    <2> QED BY <1>1, <1>2, <1>0, PushedRight DEF Known
  <1>7. Known(stack', cache', registry')
    <2> SUFFICES ASSUME NEW i \in DOMAIN stack'
                 PROVE  IF stack'[i].how = "require" THEN cache'[stack'[i].file] # None
                                                     ELSE registry[stack'[i].file] # "none"
      BY <1>1 DEF Known
    <2>1. CASE i = n
      BY <1>3, <1>4, <1>5, <2>1
    <2>2. CASE i \in DOMAIN stack
      <3>1. stack'[i] = stack[i] /\ stack[i] \in Frames
        BY <1>3, <2>2, LoaderFields
      <3> QED BY <1>0, <1>4, <1>5, <2>2, <3>1, FrameFields DEF Known
    <2> QED BY <1>3, <2>1, <2>2
  <1>8. Halves(stack', cache')
    BY <1>0, <1>3, <1>5 DEF Halves
  <1>9. ReadsLatest(disk, wrote, control, cache', stack', None)
    <2> QED BY <1>1, <1>2, <1>0, <1>4, <1>5, PushedRight DEF ReadsLatest
  <1>10. /\ Reading(find') /\ Probing(find') /\ LooksTrue(disk, FALSE, find')
    BY <1>0, <1>1, OverRight
  <1>11. LoaderTypes'
    BY <1>0, <1>1, <1>3, <1>5, DrainedLeads DEF LoaderTypes
  <1>12. M!HandedWhole'
    BY <1>1 DEF LoaderInv, M!HandedWhole
  <1> QED BY <1>1, <1>6, <1>7, <1>8, <1>9, <1>10, <1>11, DrainedLeads, <1>12 DEF LoaderInv

LEMMA InstantiatesKeeps ==
  ASSUME LoaderInv, M!Instantiates PROVE LoaderInv'
  <1>0. /\ LoaderTypes /\ Halves(stack, cache) /\ Known(stack, cache, registry)
        /\ ReadsLatest(disk, wrote, control, cache, stack, find)
    BY DEF LoaderInv
  <1>1. /\ UNCHANGED <<disk, stamp, control, cache, got, wrote>>
        /\ pending' = FALSE /\ memo' = M!Drained.memo /\ late' = M!Drained.late
        /\ find # None /\ find.step = "source" /\ find' = None
        /\ registry[find.path] = "none" /\ M!Pushed("import")
        /\ registry' = [registry EXCEPT ![find.path] = "loading"]
    BY DEF M!Instantiates, M!Hears
  <1>2. "import" \in Hows /\ find.path \in Files
    BY <1>1, PushedRight DEF Hows
  <1> DEFINE n == Len(stack) + 1
  <1> HIDE DEF n
  <1>3. /\ stack' \in Seq(Frames) /\ DOMAIN stack' = DOMAIN stack \cup {n}
        /\ \A i \in DOMAIN stack : stack'[i] = stack[i] /\ i # n
        /\ stack'[n].file = find.path /\ stack'[n].how = "import"
        /\ \A f : Frame(stack, f) => Frame(stack', f)
    BY <1>1, <1>2, PushedRight DEF n
  <1>4. /\ registry' \in [Files -> {"none", "loading", "done", "failed"}]
        /\ registry'[find.path] = "loading"
        /\ \A f \in Files : f # find.path => registry'[f] = registry[f]
    BY <1>1, <1>2, LoaderFields
  <1>5. Once(stack')
    <2> QED BY <1>1, <1>2, <1>0, PushedRight DEF Known
  <1>6. Known(stack', cache', registry')
    <2> SUFFICES ASSUME NEW i \in DOMAIN stack'
                 PROVE  IF stack'[i].how = "require" THEN cache[stack'[i].file] # None
                                                     ELSE registry'[stack'[i].file] # "none"
      BY <1>1 DEF Known
    <2>1. CASE i = n
      BY <1>3, <1>4, <2>1
    <2>2. CASE i \in DOMAIN stack
      <3>1. stack'[i] = stack[i] /\ stack[i] \in Frames
        BY <1>3, <2>2, LoaderFields
      <3> QED BY <1>0, <1>4, <2>2, <3>1, FrameFields DEF Known
    <2> QED BY <1>3, <2>1, <2>2
  <1>7. Halves(stack', cache')
    BY <1>0, <1>1, <1>3 DEF Halves
  <1>8. ReadsLatest(disk, wrote, control, cache', stack', None)
    <2> QED BY <1>1, <1>2, <1>0, PushedRight DEF ReadsLatest
  <1>9. /\ Reading(find') /\ Probing(find') /\ LooksTrue(disk, FALSE, find')
    BY <1>0, <1>1, OverRight
  <1>10. LoaderTypes'
    BY <1>0, <1>1, <1>3, <1>4, DrainedLeads DEF LoaderTypes
  <1>11. M!HandedWhole'
    BY <1>1 DEF LoaderInv, M!HandedWhole
  <1> QED BY <1>1, <1>5, <1>6, <1>7, <1>8, <1>9, <1>10, DrainedLeads, <1>11 DEF LoaderInv

LEMMA ReadFailsKeeps ==
  ASSUME LoaderInv, M!ReadFails PROVE LoaderInv'
  <1>0. LoaderTypes /\ ReadsLatest(disk, wrote, control, cache, stack, find)
    BY DEF LoaderInv
  <1>1. /\ UNCHANGED <<disk, stamp, control, cache, registry, stack, got, wrote>>
        /\ pending' = FALSE /\ memo' = M!Drained.memo /\ late' = M!Drained.late
        /\ find # None /\ find \in Finds /\ find' = [find EXCEPT !.step = "failed"]
    BY LoaderFields DEF M!ReadFails, M!Hears
  <1>2. find' \in Finds /\ find'.step = "failed"
    BY <1>1 DEF Finds
  <1>3. LoaderTypes'
    BY <1>0, <1>1, <1>2, DrainedLeads DEF LoaderTypes
  <1>4. MemoLeads(disk', pending', memo', late')
    BY <1>1, DrainedLeads
  <1>5. M!HandedWhole'
    BY <1>1 DEF LoaderInv, M!HandedWhole
  <1> QED BY <1>1, <1>0, <1>2, OverRight, <1>3, <1>4, <1>5 DEF LoaderInv

LEMMA RequiringKeeps ==
  ASSUME LoaderInv, M!Requiring PROVE LoaderInv'
  <1>0. /\ LoaderTypes /\ Once(stack) /\ Known(stack, cache, registry) /\ Halves(stack, cache)
        /\ ReadsLatest(disk, wrote, control, cache, stack, find)
    BY DEF LoaderInv
  <1> DEFINE n == Len(stack)
  <1>1. /\ UNCHANGED <<disk, stamp, pending, control, memo, cache, registry, got, late, wrote>>
        /\ stack # <<>> /\ stack[n].todo # <<>> /\ find = None
        /\ M!Begins(Head(stack[n].todo), "require")
        /\ stack' = [stack EXCEPT ![n].todo = Tail(stack[n].todo)]
    BY DEF M!Requiring, M!Top, M!Last
  <1>2. n \in DOMAIN stack /\ n \in Nat /\ DOMAIN stack = 1..n
    BY <1>1, LoaderFields, FrontAt
  <1>3. stack[n] \in Frames /\ stack \in Seq(Frames)
    BY <1>2, LoaderFields
  <1>4. Head(stack[n].todo) \in Specs /\ Tail(stack[n].todo) \in Seq(Specs)
    BY <1>1, <1>3, FrameFields, TailAt
  <1> DEFINE x == [stack[n] EXCEPT !.todo = Tail(stack[n].todo)]
  <1>5. /\ x \in Frames /\ x.file = stack[n].file /\ x.how = stack[n].how
        /\ x.version = stack[n].version
    BY <1>3, <1>4 DEF Frames
  <1>6. stack' = [stack EXCEPT ![n] = x]
    BY <1>1
  <1> HIDE DEF x, n
  <1>7. stack' \in [1..n -> Frames] /\ DOMAIN stack' = DOMAIN stack
    BY <1>2, <1>5, <1>6, <1>3, LenProperties DEF n
  <1>8. \A i \in DOMAIN stack : /\ stack'[i].file = stack[i].file /\ stack'[i].how = stack[i].how
                                 /\ stack'[i].version = stack[i].version
    BY <1>2, <1>5, <1>6
  <1>9. /\ find' \in Finds \cup {None} /\ Reading(find') /\ Probing(find')
         /\ LooksTrue(disk, pending, find') /\ find'.step # "source"
    BY <1>1, <1>4, BeginsRight, LoaderFields DEF Hows
  <1>10. ReadsLatest(disk, wrote, control, cache, stack', find')
    BY <1>0, <1>7, <1>8, <1>9 DEF ReadsLatest
  <1>11. LoaderTypes'
    BY <1>0, <1>1, <1>2, <1>7, SeqDef, <1>9 DEF LoaderTypes
  <1>12. M!HandedWhole'
    BY <1>1 DEF LoaderInv, M!HandedWhole
  <1>13. MemoLeads(disk, pending, memo, late)
    BY DEF LoaderInv
  <1> QED BY <1>1, <1>0, <1>7, <1>8, <1>9, <1>10, <1>11, <1>12, <1>13 DEF LoaderInv, Once, Known,
      Halves, Frame

\* A body that is over leaves its module known, and those under it as they were.
LEMMA SettledRight ==
  ASSUME LoaderInv, stack # <<>>, NEW threw \in BOOLEAN,
         M!Settled(M!Top.file, M!Top.how, threw), stack' = M!Front(stack)
  PROVE  /\ cache' \in [Files -> Entries \cup {None}]
         /\ registry' \in [Files -> {"none", "loading", "done", "failed"}]
         /\ stack' \in Seq(Frames)
         /\ Once(stack') /\ Known(stack', cache', registry') /\ Halves(stack', cache')
         /\ ReadsLatest(disk, wrote, control, cache', stack', None)
         /\ M!Top.how \in Hows
         /\ M!Top.how = "require" /\ ~ threw => cache'[M!Top.file].whole
  <1>0. /\ Once(stack) /\ Known(stack, cache, registry) /\ Halves(stack, cache)
        /\ ReadsLatest(disk, wrote, control, cache, stack, find)
        /\ cache \in [Files -> Entries \cup {None}]
        /\ registry \in [Files -> {"none", "loading", "done", "failed"}]
    BY LoaderFields DEF LoaderInv
  <1> DEFINE n == Len(stack)
             t == M!Top
             e == [version |-> t.version, whole |-> ~ threw, threw |-> threw]
  <1>1. /\ stack' \in Seq(Frames) /\ t \in Frames /\ t = stack[n] /\ n \in DOMAIN stack
        /\ \A i \in DOMAIN stack' : stack'[i] = stack[i] /\ i \in DOMAIN stack /\ i # n
        /\ \A i \in DOMAIN stack : i # n => i \in DOMAIN stack'
    BY LoaderFields, FrontAt DEF M!Top
  <1>2. t.file \in Files /\ t.version \in Nat /\ t.how \in Hows
    BY <1>1, FrameFields
  <1>3. e \in Entries /\ e.version = t.version /\ e.whole = ~ threw /\ e.threw = threw
    BY <1>2, EntryMade
  <1>4. IF t.how = "require"
        THEN registry' = registry /\ cache' = [cache EXCEPT ![t.file] = e]
        ELSE cache' = cache /\ registry' = [registry EXCEPT ![t.file] = IF threw THEN "failed" ELSE "done"]
    BY DEF M!Settled
  <1> HIDE DEF t, e, n
  <1>5. \A i \in DOMAIN stack' : stack'[i].file \in Files /\ stack[i].file \in Files
    BY <1>1, LoaderFields, FrameFields
  <1>6. Once(stack')
    BY <1>0, <1>1 DEF Once
  <1>7. \A i \in DOMAIN stack' : Latest(disk, wrote, control, stack'[i].file, stack'[i].version)
    BY <1>0, <1>1 DEF ReadsLatest
  <1>8. CASE t.how = "require"
    <2>1. /\ registry' = registry /\ cache' \in [Files -> Entries \cup {None}]
          /\ cache'[t.file] = e /\ \A f \in Files : f # t.file => cache'[f] = cache[f]
      BY <1>0, <1>2, <1>3, <1>4, <1>8
    <2>2. Known(stack', cache', registry')
      <3> SUFFICES ASSUME NEW i \in DOMAIN stack'
                   PROVE  IF stack'[i].how = "require" THEN cache'[stack'[i].file] # None
                                                       ELSE registry[stack'[i].file] # "none"
        BY <2>1 DEF Known
      <3>1. /\ stack'[i] = stack[i] /\ i \in DOMAIN stack /\ stack[i].file \in Files
            /\ IF stack[i].how = "require" THEN cache[stack[i].file] # None
                                           ELSE registry[stack[i].file] # "none"
        BY <1>0, <1>1, <1>5 DEF Known
      <3> QED BY <2>1, <1>3, EntryFields, <3>1
    <2>3. Halves(stack', cache')
      <3> SUFFICES ASSUME NEW f \in Files, cache'[f] # None, ~ cache'[f].whole, ~ cache'[f].threw
                   PROVE  Frame(stack', f)
        BY DEF Halves
      <3>1. f # t.file
        BY <1>3, <2>1
      <3>2. PICK i \in DOMAIN stack : stack[i].file = f /\ stack[i].how = "require"
        BY <1>0, <2>1, <3>1 DEF Frame, Halves
      <3> QED BY <1>1, <3>2, <3>1 DEF Frame
    <2>4. ReadsLatest(disk, wrote, control, cache', stack', None)
      BY <1>0, <1>3, <1>7, <2>1, <1>1 DEF ReadsLatest
    <2>5. t = M!Top
      BY DEF t
    <2>6. M!Top.how \in Hows /\ (~ threw => cache'[M!Top.file].whole)
      BY <1>2, <1>3, <2>1, <2>5
    <2> QED BY <1>0, <1>1, <1>6, <2>1, <2>2, <2>3, <2>4, <2>6
  <1>9. CASE t.how = "import"
    <2>1. /\ cache' = cache /\ registry' \in [Files -> {"none", "loading", "done", "failed"}]
          /\ registry'[t.file] # "none" /\ \A f \in Files : f # t.file => registry'[f] = registry[f]
      BY <1>0, <1>2, <1>4, <1>9
    <2>2. Known(stack', cache', registry')
      <3> SUFFICES ASSUME NEW i \in DOMAIN stack'
                   PROVE  IF stack'[i].how = "require" THEN cache[stack'[i].file] # None
                                                       ELSE registry'[stack'[i].file] # "none"
        BY <2>1 DEF Known
      <3> QED BY <2>1, <1>0, <1>1, <1>5 DEF Known
    <2>3. Halves(stack', cache')
      <3> SUFFICES ASSUME NEW f \in Files, Frame(stack, f) PROVE Frame(stack', f)
        BY <1>0, <2>1 DEF Halves
      <3>1. PICK i \in DOMAIN stack : stack[i].file = f /\ stack[i].how = "require"
        BY DEF Frame
      <3> QED BY <1>1, <3>1, <1>9 DEF Frame
    <2> QED BY <1>0, <1>1, <1>2, <1>6, <1>9, <2>1, <2>2, <2>3, <1>7 DEF t, ReadsLatest
  <1> QED BY <1>2, <1>8, <1>9 DEF Hows

\* A body ends, or throws, or fails with what it required.
LEMMA EndsKeeps ==
  ASSUME LoaderInv, M!Ends PROVE LoaderInv'
  <1>1. /\ UNCHANGED <<disk, stamp, pending, control, memo, find, late, wrote>>
        /\ stack # <<>> /\ find = None /\ stack' = M!Front(stack)
        /\ M!Settled(M!Top.file, M!Top.how, FALSE)
        /\ got' = IF M!Top.how = "require"
                  THEN [file |-> M!Top.file, whole |-> cache'[M!Top.file].whole,
                        threw |-> FALSE, inside |-> FALSE]
                  ELSE got
    BY DEF M!Ends
  <1>2. /\ cache' \in [Files -> Entries \cup {None}]
        /\ registry' \in [Files -> {"none", "loading", "done", "failed"}]
        /\ stack' \in Seq(Frames)
        /\ Once(stack') /\ Known(stack', cache', registry') /\ Halves(stack', cache')
        /\ ReadsLatest(disk, wrote, control, cache', stack', None)
        /\ M!Top.how = "require" => cache'[M!Top.file].whole
    BY <1>1, SettledRight
  <1> HIDE DEF M!Top
  <1>3. M!HandedWhole'
    <2>1. CASE M!Top.how = "require"
      <3> QED BY <1>1, <1>2, <2>1 DEF M!HandedWhole
    <2>2. CASE M!Top.how # "require"
      BY <1>1, <2>2 DEF LoaderInv, M!HandedWhole
    <2> QED BY <2>1, <2>2
  <1>4. LoaderTypes'
    BY <1>1, <1>2 DEF LoaderTypes, LoaderInv
  <1>5. MemoLeads(disk, pending, memo, late)
    BY DEF LoaderInv
  <1> QED BY <1>1, <1>2, <1>3, <1>4, <1>5 DEF LoaderInv, Reading, Probing, LooksTrue

LEMMA ThrowsKeeps ==
  ASSUME LoaderInv, M!Throws \/ M!Fails PROVE LoaderInv'
  <1>0. LoaderTypes /\ ReadsLatest(disk, wrote, control, cache, stack, find)
    BY DEF LoaderInv
  <1>1. UNCHANGED <<disk, stamp, pending, control, memo, got, late, wrote>>
    BY DEF M!Throws, M!Fails
  <1>2. find' \in Finds \cup {None} /\ (find' = None \/ find'.step = "failed")
    <2>1. CASE M!Throws
      <3>1. M!Top \in Frames
        BY <2>1, LoaderFields, FrontAt DEF M!Top, M!Throws
      <3> DEFINE s == CHOOSE s \in Specs : TRUE
                 h == M!Top.how
      <3>2. find' = [M!Looking(s, h) EXCEPT !.step = "failed"]
        BY <2>1 DEF M!Throws
      <3>3. s \in Specs \cup {CHOOSE z \in Specs : TRUE} /\ h \in Hows
        BY <3>1, FrameFields
      <3> HIDE DEF s, h
      <3>4. find'.step = "failed"
        BY <3>2 DEF M!Looking
      <3> QED BY <3>2, <3>3, LookingMade, <3>4
    <2>2. CASE M!Fails
      BY <2>2, LoaderFields DEF M!Fails
    <2> QED BY <2>1, <2>2
  <1>3. CASE UNCHANGED <<stack, cache, registry>>
    <2>1. LoaderTypes'
      BY <1>0, <1>1, <1>2, <1>3 DEF LoaderTypes
    <2>2. M!HandedWhole'
      BY <1>1 DEF LoaderInv, M!HandedWhole
    <2> QED BY <1>1, <1>3, <1>0, <1>2, OverRight, LoaderFields, <2>1, <2>2 DEF LoaderInv
  <1>4. CASE stack # <<>> /\ M!Settled(M!Top.file, M!Top.how, TRUE) /\ stack' = M!Front(stack)
    <2>1. /\ cache' \in [Files -> Entries \cup {None}]
          /\ registry' \in [Files -> {"none", "loading", "done", "failed"}]
          /\ stack' \in Seq(Frames)
          /\ Once(stack') /\ Known(stack', cache', registry') /\ Halves(stack', cache')
          /\ ReadsLatest(disk, wrote, control, cache', stack', None)
      BY <1>4, SettledRight
    <2>2. LoaderTypes'
      BY <1>0, <1>1, <1>2, <2>1 DEF LoaderTypes
    <2>3. M!HandedWhole' /\ MemoLeads(disk, pending, memo, late)
      BY <1>1 DEF LoaderInv, M!HandedWhole
    <2> QED BY <1>1, <2>1, <1>2, OverRight, LoaderFields, <2>2, <2>3 DEF LoaderInv
  <1> QED BY <1>3, <1>4 DEF M!Throws, M!Fails

LEMMA ExecuteBegins ==
  ASSUME LoaderInv, M!Execute PROVE LoaderInv'
  <1>0. LoaderTypes /\ ReadsLatest(disk, wrote, control, cache, stack, find)
    BY DEF LoaderInv
  <1>1. UNCHANGED <<disk, stamp, pending, control, memo, cache, registry, stack, got, late, wrote>>
    BY DEF M!Execute
  <1>2. PICK s \in Specs, how \in Hows : M!Begins(s, how)
    BY DEF M!Execute, Hows
  <1>3. /\ find' \in Finds \cup {None} /\ Reading(find') /\ Probing(find')
        /\ LooksTrue(disk, pending, find') /\ find'.step # "source"
    BY <1>2, BeginsRight, LoaderFields
  <1>4. LoaderTypes'
    BY <1>0, <1>1, <1>3 DEF LoaderTypes
  <1>5. M!HandedWhole'
    BY <1>1 DEF LoaderInv, M!HandedWhole
  <1> QED BY <1>1, <1>3, <1>0, <1>4, <1>5 DEF LoaderInv, ReadsLatest

\* A control call is heard when nothing runs, and what it names is forgotten.
LEMMA InvalidatesKeeps ==
  ASSUME LoaderInv, M!Invalidates PROVE LoaderInv'
  <1>0. LoaderTypes /\ ReadsLatest(disk, wrote, control, cache, stack, find) /\ Halves(stack, cache)
    BY DEF LoaderInv
  <1> DEFINE h == Head(control)
  <1>1. /\ UNCHANGED <<disk, stamp, pending, stack, find, got>>
        /\ stack = <<>> /\ find = None /\ control # <<>>
        /\ memo' = [s \in Specs |-> None] /\ late' = {}
        /\ cache' = [f \in Files |-> IF f \in h THEN None ELSE cache[f]]
        /\ registry' = [f \in Files |-> IF f \in h THEN "none" ELSE registry[f]]
        /\ control' = Tail(control) /\ wrote' = wrote \ h
    BY DEF M!Invalidates, M!Idle, M!Nowhere
  <1>2. /\ control' \in Seq(SUBSET Files) /\ h = control[1] /\ 1 \in DOMAIN control
        /\ \A i \in DOMAIN control : i # 1 => i - 1 \in DOMAIN control' /\ control'[i - 1] = control[i]
    BY <1>1, LoaderFields, TailAt
  <1> HIDE DEF h
  <1>3. \A f : f \notin h /\ Untold(wrote, control, f) => Untold(wrote', control', f)
    <2> SUFFICES ASSUME NEW f, f \notin h, Untold(wrote, control, f)
                 PROVE  Untold(wrote', control', f)
      OBVIOUS
    <2>1. CASE f \in wrote
      BY <1>1, <2>1 DEF Untold
    <2>2. CASE \E i \in DOMAIN control : f \in control[i]
      <3>1. PICK i \in DOMAIN control : f \in control[i]
        BY <2>2
      <3>2. i - 1 \in DOMAIN control' /\ f \in control'[i - 1]
        BY <1>2, <3>1
      <3> QED BY <3>2 DEF Untold
    <2> QED BY <2>1, <2>2 DEF Untold
  <1>4. /\ cache' \in [Files -> Entries \cup {None}]
        /\ \A f \in Files : cache'[f] # None => f \notin h /\ cache'[f] = cache[f]
    BY <1>1, LoaderFields
  <1>5. \A i : i \notin DOMAIN stack
    <2> QED BY <1>1, LoaderFields
  <1>6. ReadsLatest(disk, wrote', control', cache', stack, find)
    BY <1>0, <1>1, <1>3, <1>4, <1>5 DEF ReadsLatest, Latest
  <1>7. Once(stack) /\ Known(stack, cache', registry')
    BY <1>5 DEF Once, Known
  <1>8. LoaderTypes'
    BY <1>0, <1>1, <1>2, <1>4, LoaderFields DEF LoaderTypes
  <1>9. MemoLeads(disk, pending, memo', late')
    BY <1>1 DEF MemoLeads
  <1>10. M!HandedWhole'
    BY <1>1 DEF LoaderInv, M!HandedWhole
  <1>11. Reading(find) /\ Probing(find) /\ LooksTrue(disk, pending, find)
    BY DEF LoaderInv
  <1> QED BY <1>1, <1>6, <1>0, <1>4, <1>7, <1>8, <1>9, <1>10, <1>11 DEF LoaderInv, Halves

LEMMA LoaderStarts ==
  ASSUME M!Init PROVE LoaderInv
  <1>1. /\ disk \in [Files -> {0, 1}] /\ stamp = 1 /\ pending = FALSE /\ control = <<>>
        /\ memo = [s \in Specs |-> None] /\ cache = [f \in Files |-> None]
        /\ registry = [f \in Files |-> "none"]
        /\ stack = <<>> /\ find = None /\ got = None /\ late = {} /\ wrote = {}
    BY DEF M!Init, M!Nowhere
  <1>2. \A i : i \notin DOMAIN stack
    BY <1>1
  <1>3. LoaderTypes
    <2>1. disk \in [Files -> Nat] /\ memo \in [Specs -> Files \cup {None}]
      BY <1>1
    <2>2. cache \in [Files -> Entries \cup {None}]
      BY <1>1
    <2>3. registry \in [Files -> {"none", "loading", "done", "failed"}]
      BY <1>1
    <2>4. control \in Seq(SUBSET Files) /\ stack \in Seq(Frames)
      BY <1>1, EmptySeq
    <2> QED BY <1>1, <2>1, <2>2, <2>3, <2>4 DEF LoaderTypes
  <1>4. ReadsLatest(disk, wrote, control, cache, stack, find)
    BY <1>1, <1>2 DEF ReadsLatest
  <1>5. Reading(find) /\ Probing(find) /\ LooksTrue(disk, pending, find)
    BY <1>1 DEF Reading, Probing, LooksTrue
  <1>6. MemoLeads(disk, pending, memo, late)
    BY <1>1 DEF MemoLeads
  <1> QED BY <1>3, <1>1, <1>2, <1>4, <1>5, <1>6 DEF LoaderInv, Once, Known, Halves, M!HandedWhole

LEMMA LoaderSteps ==
  ASSUME LoaderInv, M!Next PROVE LoaderInv'
  BY PageKeeps, LooksKeeps, MissesKeeps, HitsKeeps, CachedKeeps, RunsBodyKeeps, InstantiatesKeeps,
     ReadFailsKeeps, RequiringKeeps, EndsKeeps, ThrowsKeeps, ExecuteBegins, InvalidatesKeeps
     DEF M!Next, M!Resolves, M!Program

-----------------------------------------------------------------------------
(***************************************************************************)
(* The resolver.  What is remembered of a specifier is what is found, for  *)
(* what is found is a matter of the tree, and every change forgets both    *)
(* memos.  A walk for a type may end at what another walk remembered: that  *)
(* one went on from there, so it ended where the whole walk would have      *)
(* (WalkTrue).  And what is found is what Node finds, with the exceptions   *)
(* of Resolve, by the nearest levels both look for (FoundAsNode).           *)
(***************************************************************************)

FileNames ==
  {"null", "unknown", "unexported", "notFound", "notInstalled",
   "import", "require", "own", "index", "main", "wasm"}

Places == [at : 0..Depth, file : FileNames]

TypeNames == {"undefined", "module", "commonjs"}

\* Where a directory is on the way to the root.
Height(d) == 3 * d[1] + V!Rank[d[2]]

\* The memos are true of the tree, and what was listed is what was counted.
TypesTrue == \A d \in V!Dirs : types[d] # "unknown" => types[d] = V!TypeOf(V!Untyped, d)

PathsTrue == \A q \in V!Query : paths[q] # V!Unknown => paths[q] = V!Found(q)

ResolverTypes ==
  /\ tree \in [V!Levels -> Facts] /\ paths \in [V!Query -> Places]
  /\ types \in [V!Dirs -> TypeNames \cup {"unknown"}]
  /\ seeded \in [V!Levels -> {-1, 1, 3, 99}] /\ hydrated \subseteq V!Levels
  /\ listings \in [V!Levels -> [nm : Nat, pkg : Nat]]

ResolverInv == ResolverTypes /\ PathsTrue /\ TypesTrue /\ V!AsNode /\ V!ListedOnce

-----------------------------------------------------------------------------
(* Levels and directories *)

LEMMA LevelsAre ==
  /\ V!Levels = 1..Depth /\ Depth \in Nat /\ Depth # 0 /\ Depth \in V!Levels
  /\ \A l \in V!Levels : l \in Nat /\ l # 0 /\ l <= Depth /\ l \in 1..Depth
  BY RealmAssumption DEF V!Levels

LEMMA NearestOf ==
  ASSUME NEW S \in SUBSET V!Levels
  PROVE  /\ V!Nearest(S) = 0 <=> S = {}
         /\ V!Nearest(S) \in 0..Depth
         /\ V!Nearest(S) # 0 => V!Nearest(S) \in S
         /\ \A y \in S : V!Nearest(S) <= y
         /\ \A y \in S : (\A z \in S : y <= z) => V!Nearest(S) = y
  <1>1. CASE S = {}
    <2>1. 0 \in 0..Depth
      BY LevelsAre
    <2> QED BY <1>1, <2>1 DEF V!Nearest
  <1>2. CASE S # {}
    <2>1. PICK x \in S : \A y \in S : x <= y
      BY <1>2, LevelsAre, MinIn
    <2>2. V!Nearest(S) \in S /\ \A y \in S : V!Nearest(S) <= y
      BY <1>2, <2>1 DEF V!Nearest
    <2>3. \A y \in S : y \in Nat /\ y # 0 /\ y <= Depth
      BY LevelsAre
    <2>4. V!Nearest(S) \in Nat /\ V!Nearest(S) # 0 /\ V!Nearest(S) <= Depth
      BY <2>2, <2>3
    <2>5. \A y \in S : (\A z \in S : y <= z) => V!Nearest(S) = y
      <3> SUFFICES ASSUME NEW y \in S, \A z \in S : y <= z PROVE V!Nearest(S) = y
        OBVIOUS
      <3> QED BY <2>3, <2>4, <2>2
    <2> QED BY <1>2, <2>2, <2>4, <2>5, LevelsAre
  <1> QED BY <1>1, <1>2

LEMMA RankIs == V!Rank["pkg"] = 0 /\ V!Rank["nm"] = 1 /\ V!Rank["dir"] = 2
  BY DEF V!Rank

\* The directories are in the order of their height.
LEMMA DirsOrder ==
  ASSUME NEW d \in V!Dirs
  PROVE  /\ d[1] \in V!Levels /\ d[1] \in Nat /\ d[2] \in {"pkg", "nm", "dir"}
         /\ d = <<d[1], d[2]>>
         /\ Height(d) \in Nat
         /\ \A e \in V!Dirs : V!Before(d, e) <=> Height(d) < Height(e)
         /\ \A e \in V!Dirs : Height(d) = Height(e) => d = e
  <1>1. \A e \in V!Dirs : /\ e[1] \in V!Levels /\ e[1] \in Nat /\ e[2] \in {"pkg", "nm", "dir"}
                          /\ e = <<e[1], e[2]>>
    BY LevelsAre DEF V!Dirs
  <1>2. \A e \in V!Dirs : /\ V!Rank[e[2]] \in 0..2 /\ Height(e) \in Nat
                          /\ V!Rank[e[2]] = V!Rank[d[2]] => e[2] = d[2]
    BY <1>1, RankIs DEF Height
  <1>3. ASSUME NEW e \in V!Dirs
        PROVE  /\ V!Before(d, e) <=> Height(d) < Height(e)
               /\ Height(d) = Height(e) => d = e
    <2> DEFINE x == V!Rank[d[2]]
               y == V!Rank[e[2]]
               a == d[1]
               b == e[1]
    <2>1. V!Before(d, e) <=> a < b \/ (a = b /\ x < y)
      BY DEF V!Before
    <2>2. Height(d) = 3 * a + x /\ Height(e) = 3 * b + y
      BY DEF Height
    <2>3. a \in Nat /\ b \in Nat /\ x \in 0..2 /\ y \in 0..2
      BY <1>1, <1>2
    <2>4. x = y => d[2] = e[2]
      BY <1>2
    <2> HIDE DEF x, y
    <2>5. a = b /\ x = y => d = e
      BY <1>1, <2>4
    <2> HIDE DEF a, b
    <2>6. (3 * a + x < 3 * b + y) <=> a < b \/ (a = b /\ x < y)
      BY <2>3
    <2>7. 3 * a + x = 3 * b + y => a = b /\ x = y
      BY <2>3
    <2> QED BY <2>1, <2>2, <2>5, <2>6, <2>7
  <1> QED BY <1>1, <1>2, <1>3

\* Of any directories, one is first.
LEMMA FirstDir ==
  ASSUME NEW S \in SUBSET V!Dirs, S # {}
  PROVE  \E x \in S : \A o \in S : o = x \/ V!Before(x, o)
  <1> DEFINE H == {Height(d) : d \in S}
  <1>1. H \in SUBSET Nat /\ H # {}
    BY DirsOrder
  <1> HIDE DEF H
  <1>2. PICK h \in H : \A y \in H : h <= y
    BY <1>1, MinIn
  <1>3. PICK x \in S : h = Height(x)
    BY <1>2 DEF H
  <1>4. ASSUME NEW o \in S PROVE o = x \/ V!Before(x, o)
    <2>1. Height(x) \in Nat /\ Height(o) \in Nat /\ Height(x) <= Height(o)
      BY <1>3, <1>2, DirsOrder DEF H
    <2> QED BY <1>3, <2>1, DirsOrder
  <1> QED BY <1>3, <1>4

LEMMA NotBoth ==
  ASSUME NEW d \in V!Dirs, NEW e \in V!Dirs
  PROVE  /\ V!Before(d, e) => ~ V!Before(e, d) /\ d # e
         /\ d = e \/ V!Before(d, e) \/ V!Before(e, d)
  <1>1. Height(d) \in Nat /\ Height(e) \in Nat
    BY DirsOrder
  <1> QED BY <1>1, DirsOrder

\* A walk goes on the same way from wherever it has come to.
LEMMA ChainGoesOn ==
  ASSUME NEW d \in V!Dirs, NEW e \in V!Chain(d)
  PROVE  /\ d \in V!Chain(d) /\ e \in V!Dirs
         /\ e = d \/ V!Before(d, e)
         /\ \A o \in V!Chain(e) : o \in V!Chain(d)
         /\ \A o \in V!Chain(d) : (o = e \/ V!Before(e, o)) => o \in V!Chain(e)
  <1>1. /\ d[1] \in Nat /\ d[2] \in {"pkg", "nm", "dir"} /\ d = <<d[1], d[2]>>
        /\ V!Rank[d[2]] \in 0..2
    BY DirsOrder, RankIs
  <1>2. /\ e \in V!Dirs /\ (e[1] > d[1] => e[2] = "dir")
        /\ (e[1] = d[1] => V!Rank[e[2]] >= V!Rank[d[2]]) /\ e[1] >= d[1] /\ (e = V!Root => d = V!Root)
    BY DEF V!Chain
  <1>3. /\ e[1] \in Nat /\ e[2] \in {"pkg", "nm", "dir"} /\ e = <<e[1], e[2]>>
        /\ V!Rank[e[2]] \in 0..2
    BY <1>2, DirsOrder, RankIs
  <1>4. e = d \/ V!Before(d, e)
    BY <1>1, <1>2, <1>3, RankIs DEF V!Before
  <1>5. ASSUME NEW o \in V!Chain(e) PROVE o \in V!Chain(d)
    <2>1. /\ o \in V!Dirs /\ (o[1] > e[1] => o[2] = "dir")
          /\ (o[1] = e[1] => V!Rank[o[2]] >= V!Rank[e[2]]) /\ o[1] >= e[1] /\ (o = V!Root => e = V!Root)
      BY DEF V!Chain
    <2>2. o[1] \in Nat /\ o[2] \in {"pkg", "nm", "dir"} /\ V!Rank[o[2]] \in 0..2
      BY <2>1, DirsOrder, RankIs
    <2>3. o[1] > d[1] => o[2] = "dir"
      <3> SUFFICES ASSUME o[1] > d[1], o[1] = e[1] PROVE o[2] = "dir"
        BY <1>3, <2>1, <2>2
      <3>1. V!Rank[o[2]] >= 2
        BY <2>1, <1>2, RankIs
      <3> QED BY <2>2, <3>1, RankIs
    <2>4. o[1] = d[1] => V!Rank[o[2]] >= V!Rank[d[2]]
      <3> SUFFICES ASSUME o[1] = d[1] PROVE V!Rank[o[2]] >= V!Rank[d[2]]
        OBVIOUS
      <3> QED BY <1>1, <1>2, <1>3, <2>1, <2>2
    <2> QED BY <1>2, <2>1, <1>1, <1>3, <2>2, <2>3, <2>4 DEF V!Chain
  <1>6. ASSUME NEW o \in V!Chain(d), o = e \/ V!Before(e, o) PROVE o \in V!Chain(e)
    <2>1. /\ o \in V!Dirs /\ (o[1] > d[1] => o[2] = "dir") /\ (o = V!Root => d = V!Root)
      BY DEF V!Chain
    <2>2. o[1] \in Nat /\ o[2] \in {"pkg", "nm", "dir"} /\ V!Rank[o[2]] \in 0..2
      BY <2>1, DirsOrder, RankIs
    <2>3. o[1] > e[1] => o[2] = "dir"
      BY <1>1, <1>2, <1>3, <2>1, <2>2
    <2>4. o = V!Root => e = V!Root
      <3> SUFFICES ASSUME o = V!Root, d = V!Root PROVE e = V!Root
        BY <2>1
      <3>1. d[1] = Depth /\ d[2] = "dir" /\ e[1] \in V!Levels
        BY <1>2, DirsOrder DEF V!Root
      <3>2. e[1] = Depth
        BY <1>2, <3>1, LevelsAre
      <3> QED BY <1>3, <3>2, <1>2, <3>1, RankIs DEF V!Root
    <2> QED BY <2>1, <1>3, <1>6, <2>2, <2>3, <2>4 DEF V!Chain, V!Before
  <1> QED BY <1>2, <1>1, <1>4, <1>5, <1>6 DEF V!Chain

\* A walk ends at the first of what it may end at.
LEMMA EndIs ==
  ASSUME NEW c, NEW d \in V!Dirs, V!Ends(c, d) # {}
  PROVE  /\ V!End(c, d) \in V!Ends(c, d)
         /\ \A o \in V!Ends(c, d) : o = V!End(c, d) \/ V!Before(V!End(c, d), o)
         /\ \A x \in V!Ends(c, d) :
              (\A o \in V!Ends(c, d) : o = x \/ V!Before(x, o)) => x = V!End(c, d)
  <1>1. V!Ends(c, d) \in SUBSET V!Dirs
    BY DEF V!Ends, V!Chain
  <1>2. /\ V!End(c, d) \in V!Ends(c, d)
        /\ \A o \in V!Ends(c, d) : o = V!End(c, d) \/ V!Before(V!End(c, d), o)
    BY <1>1, FirstDir DEF V!End
  <1>3. ASSUME NEW x \in V!Ends(c, d), \A o \in V!Ends(c, d) : o = x \/ V!Before(x, o)
        PROVE  x = V!End(c, d)
    <2> DEFINE z == V!End(c, d)
    <2> HIDE DEF z
    <2> QED BY <1>1, <1>2, <1>3, NotBoth DEF z
  <1> QED BY <1>2, <1>3

\* What no memo helps with: the first directory of the walk that has a type of its own.
LEMMA UntypedEnds ==
  ASSUME NEW d \in V!Dirs
  PROVE  /\ V!Ends(V!Untyped, d) = {e \in V!Chain(d) : V!Declares(e) # "unknown"}
         /\ V!Ends(V!Untyped, d) = {} => V!TypeOf(V!Untyped, d) = "undefined"
         /\ V!Ends(V!Untyped, d) # {} =>
              V!TypeOf(V!Untyped, d) = V!Declares(V!End(V!Untyped, d))
  <1>1. \A e \in V!Chain(d) : e \in V!Dirs /\ V!Untyped[e] = "unknown"
    BY DEF V!Chain, V!Untyped
  <1>2. V!Ends(V!Untyped, d) = {e \in V!Chain(d) : V!Declares(e) # "unknown"}
    BY <1>1 DEF V!Ends
  <1>3. V!Ends(V!Untyped, d) # {} => V!Untyped[V!End(V!Untyped, d)] = "unknown"
    <2> SUFFICES ASSUME V!Ends(V!Untyped, d) # {} PROVE V!Untyped[V!End(V!Untyped, d)] = "unknown"
      OBVIOUS
    <2>1. V!End(V!Untyped, d) \in V!Chain(d)
      BY <1>2, EndIs
    <2> QED BY <1>1, <2>1
  <1> QED BY <1>2, <1>3 DEF V!TypeOf

\* From anywhere before its end, a walk has the same end.
LEMMA SameEnd ==
  ASSUME NEW d \in V!Dirs, NEW x \in V!Chain(d), NEW e \in V!Chain(d), e = x \/ V!Before(e, x),
         \A o \in V!Chain(d) : V!Declares(o) # "unknown" => o = x \/ V!Before(x, o)
  PROVE  V!TypeOf(V!Untyped, e) = V!TypeOf(V!Untyped, x)
  <1>1. e \in V!Dirs /\ x \in V!Dirs /\ x \in V!Chain(e)
    BY ChainGoesOn
  <1>2. V!Ends(V!Untyped, e) = V!Ends(V!Untyped, x)
    <2>1. ASSUME NEW o \in V!Ends(V!Untyped, e) PROVE o \in V!Ends(V!Untyped, x)
      <3>1. o \in V!Chain(e) /\ V!Declares(o) # "unknown"
        BY <1>1, <2>1, UntypedEnds
      <3>2. o \in V!Chain(d)
        BY <3>1, ChainGoesOn
      <3>3. o \in V!Chain(x)
        BY <3>2, <3>1, ChainGoesOn
      <3> QED BY <1>1, <3>1, <3>3, UntypedEnds
    <2>2. ASSUME NEW o \in V!Ends(V!Untyped, x) PROVE o \in V!Ends(V!Untyped, e)
      <3>1. o \in V!Chain(x) /\ V!Declares(o) # "unknown"
        BY <1>1, <2>2, UntypedEnds
      <3> QED BY <1>1, <3>1, ChainGoesOn, UntypedEnds
    <2> QED BY <2>1, <2>2
  <1> QED BY <1>1, <1>2, UntypedEnds DEF V!End

\* What a walk finds with the help of the memo, it would find without, and so would every walk
\* from where it has been.
LEMMA WalkTrue ==
  ASSUME ResolverTypes, TypesTrue, NEW d \in V!Dirs
  PROVE  /\ V!TypeOf(types, d) = V!TypeOf(V!Untyped, d)
         /\ \A e \in V!Walked(d) : V!TypeOf(V!Untyped, e) = V!TypeOf(types, d)
  <1> DEFINE E == V!Ends(types, d)
             x == V!End(types, d)
  <1>0. E = {e \in V!Chain(d) : types[e] # "unknown" \/ V!Declares(e) # "unknown"}
    BY DEF V!Ends
  <1>1. \A e \in V!Walked(d) : e \in V!Chain(d) /\ (E = {} \/ e = x \/ V!Before(e, x))
    BY DEF V!Walked
  <1>2. E = {} => V!TypeOf(types, d) = "undefined"
    BY DEF V!TypeOf
  <1>3. E # {} => V!TypeOf(types, d) = IF types[x] # "unknown" THEN types[x] ELSE V!Declares(x)
    BY DEF V!TypeOf
  <1>4. E # {} => x \in E /\ \A o \in E : o = x \/ V!Before(x, o)
    BY EndIs
  <1>5. \A e \in V!Chain(d) : e \in V!Dirs /\ d \in V!Chain(d) /\ (d = e \/ V!Before(d, e))
    BY ChainGoesOn
  <1>6. d \in V!Chain(d)
    <2> QED BY DirsOrder, RankIs DEF V!Chain
  <1> HIDE DEF E, x
  <1>7. CASE E = {}
    <2>1. ASSUME NEW e \in V!Chain(d) PROVE V!TypeOf(V!Untyped, e) = "undefined"
      <3>1. e \in V!Dirs /\ \A o \in V!Chain(e) : o \in V!Chain(d)
        BY ChainGoesOn
      <3>2. V!Ends(V!Untyped, e) = {}
        BY <3>1, <1>0, <1>7, UntypedEnds
      <3> QED BY <3>1, <3>2, UntypedEnds
    <2> QED BY <1>1, <1>2, <1>6, <1>7, <2>1
  <1>8. CASE E # {}
    <2>1. /\ x \in V!Chain(d) /\ x \in V!Dirs
          /\ \A o \in V!Chain(d) : V!Declares(o) # "unknown" => o = x \/ V!Before(x, o)
      BY <1>0, <1>4, <1>5, <1>8
    <2>2. V!TypeOf(types, d) = V!TypeOf(V!Untyped, x)
      <3>1. CASE types[x] # "unknown"
        BY <1>3, <1>8, <2>1, <3>1 DEF TypesTrue
      <3>2. CASE types[x] = "unknown"
        <4>1. x \in V!Chain(x) /\ \A o \in V!Chain(x) : x = o \/ V!Before(x, o)
          BY <2>1, ChainGoesOn
        <4>2. x \in V!Ends(V!Untyped, x)
          BY <2>1, <1>0, <1>4, <1>8, <3>2, <4>1, UntypedEnds
        <4>3. V!End(V!Untyped, x) = x
          BY <2>1, <4>2, <4>1, UntypedEnds, EndIs
        <4> QED BY <1>3, <1>8, <3>2, <2>1, <4>2, <4>3, UntypedEnds
      <3> QED BY <3>1, <3>2
    <2>3. d = x \/ V!Before(d, x)
      BY <1>5, <2>1
    <2> QED BY <1>1, <1>6, <1>8, <2>1, SameEnd, <2>2, <2>3
  <1> QED BY <1>7, <1>8

-----------------------------------------------------------------------------
(* What is found *)

LEMMA FactsAre ==
  ASSUME ResolverTypes, NEW l \in V!Levels
  PROVE  /\ tree[l].nm \in {"none", "small", "big"} /\ tree[l].deep \in BOOLEAN
         /\ tree[l].pkg \in {"none", "bare", "main", "native", "dual", "importOnly"}
         /\ tree[l].type \in TypeNames /\ tree[l].scope \in TypeNames
         /\ tree[l].project \in {"none", "plain", "own", "extern"}
  <1> QED BY RealmAssumption DEF TypeNames, ResolverTypes

\* What is below the level l, and what is looked into from there.
LEMMA VisitedIs ==
  ASSUME NEW l \in V!Levels
  PROVE  /\ V!Visited(l) \subseteq l..Depth /\ l..Depth \subseteq V!Levels
         /\ \A i \in l..Depth : \A j \in V!Visited(l) : i <= j => i \in V!Visited(l)
         /\ l..(Depth - 1) \subseteq V!Levels
  <1> QED BY LevelsAre DEF V!Visited

\* The first package with a package.json among the levels that are visited.
LEMMA JsonAt ==
  ASSUME NEW l \in V!Levels
  PROVE  LET k == V!FindPackageJson(l) IN
         /\ k \in 0..Depth
         /\ k # 0 => k \in V!Visited(l) /\ tree[k].pkg \in V!HasJson
         /\ \A j \in V!Visited(l) : tree[j].pkg \in V!HasJson => k # 0 /\ k <= j
  <1> DEFINE S == {k \in V!Visited(l) : tree[k].pkg \in V!HasJson}
  <1>1. S \in SUBSET V!Levels
    BY VisitedIs
  <1>2. \A k : k \in S <=> k \in V!Visited(l) /\ tree[k].pkg \in V!HasJson
    OBVIOUS
  <1> HIDE DEF S
  <1>3. /\ V!Nearest(S) = 0 <=> S = {}
        /\ V!Nearest(S) \in 0..Depth /\ (V!Nearest(S) # 0 => V!Nearest(S) \in S)
        /\ \A y \in S : V!Nearest(S) <= y
    BY <1>1, NearestOf
  <1> QED BY <1>2, <1>3 DEF V!FindPackageJson

\* The nearest level of those from l up whose package is one of P.
Up(l, P) == V!Nearest({i \in l..Depth : tree[i].pkg \in P})

LEMMA UpIs ==
  ASSUME NEW l \in V!Levels, NEW P
  PROVE  /\ Up(l, P) \in 0..Depth
         /\ Up(l, P) # 0 => Up(l, P) \in l..Depth /\ tree[Up(l, P)].pkg \in P
         /\ \A j \in l..Depth : tree[j].pkg \in P => Up(l, P) # 0 /\ Up(l, P) <= j
  <1> DEFINE S == {i \in l..Depth : tree[i].pkg \in P}
  <1>1. S \in SUBSET V!Levels
    BY VisitedIs
  <1>2. \A k : k \in S <=> k \in l..Depth /\ tree[k].pkg \in P
    OBVIOUS
  <1> HIDE DEF S
  <1>3. /\ V!Nearest(S) = 0 <=> S = {}
        /\ V!Nearest(S) \in 0..Depth /\ (V!Nearest(S) # 0 => V!Nearest(S) \in S)
        /\ \A y \in S : V!Nearest(S) <= y
    BY <1>1, NearestOf
  <1> QED BY <1>2, <1>3 DEF Up

Loadables == {"bare", "main", "native", "dual"}
Packages == Loadables \cup {"importOnly"}

\* The nearest levels the definitions of Resolve name.
LEMMA UpNames ==
  ASSUME ResolverTypes, NEW l \in V!Levels
  PROVE  /\ V!Nearest({i \in l..Depth : V!Loadable(i)}) = Up(l, Loadables)
         /\ V!Nearest({i \in l..Depth : tree[i].pkg # "none"}) = Up(l, Packages)
  <1>1. {i \in l..Depth : tree[i].pkg # "none"} = {i \in l..Depth : tree[i].pkg \in Packages}
    BY VisitedIs, FactsAre DEF Packages, Loadables
  <1> QED BY <1>1 DEF Up, V!Loadable, Loadables

\* The same of package.json of the directories themselves.
ProjectUp(L) == V!Nearest({i \in L : tree[i].project # "none"})

LEMMA ProjectIs ==
  ASSUME NEW L \in SUBSET V!Levels
  PROVE  /\ ProjectUp(L) \in 0..Depth
         /\ ProjectUp(L) # 0 => ProjectUp(L) \in L /\ tree[ProjectUp(L)].project # "none"
         /\ \A j \in L : tree[j].project # "none" => ProjectUp(L) # 0 /\ ProjectUp(L) <= j
  <1> DEFINE S == {i \in L : tree[i].project # "none"}
  <1>1. S \in SUBSET V!Levels
    OBVIOUS
  <1>2. \A k : k \in S <=> k \in L /\ tree[k].project # "none"
    OBVIOUS
  <1> HIDE DEF S
  <1>3. /\ V!Nearest(S) = 0 <=> S = {}
        /\ V!Nearest(S) \in 0..Depth /\ (V!Nearest(S) # 0 => V!Nearest(S) \in S)
        /\ \A y \in S : V!Nearest(S) <= y
    BY <1>1, NearestOf
  <1> QED BY <1>2, <1>3 DEF ProjectUp

LEMMA QueryIs ==
  ASSUME NEW q \in V!Query
  PROVE  q.spec \in {"p", "#i"} /\ q.from \in V!Levels /\ q.cond \in {"import", "require"}
  BY DEF V!Query

LEMMA PathIs ==
  /\ \A k, f : V!Path(k, f).at = k /\ V!Path(k, f).file = f
  /\ \A k \in 0..Depth, f \in FileNames : V!Path(k, f) \in Places
  /\ \A f : V!Throws(f).at = 0 /\ V!Throws(f).file = f
  /\ \A f \in FileNames : V!Throws(f) \in Places
  /\ \A k, f : k # 0 => V!Path(k, f) # V!Null /\ V!Path(k, f) # V!Unknown
  /\ \A f, g : V!Throws(f) = V!Throws(g) <=> f = g
  /\ V!Null = V!Throws("null") /\ V!Unknown = V!Throws("unknown")
  /\ V!Null \in Places /\ V!Unknown \in Places
  <1>1. \A f \in FileNames : V!Throws(f) \in Places
    BY LevelsAre DEF V!Throws, Places
  <1>2. \A k, f : V!Path(k, f).at = k /\ V!Path(k, f).file = f
    BY DEF V!Path
  <1>3. \A f : V!Throws(f).at = 0 /\ V!Throws(f).file = f
    BY DEF V!Throws
  <1>4. V!Null = V!Throws("null") /\ V!Unknown = V!Throws("unknown")
    BY DEF V!Null, V!Unknown
  <1>5. V!Null \in Places /\ V!Unknown \in Places
    BY <1>1, <1>4 DEF FileNames
  <1>6. \A k, f : k # 0 => V!Path(k, f) # V!Null /\ V!Path(k, f) # V!Unknown
    BY <1>2, <1>3, <1>4
  <1>7. \A f, g : V!Throws(f) = V!Throws(g) <=> f = g
    BY <1>3
  <1> QED BY <1>1, <1>2, <1>3, <1>4, <1>5, <1>6, <1>7 DEF V!Path, Places

\* The exports of the nearest package.json, or main and index of the nearest package.
LEMMA FoundBare ==
  ASSUME ResolverTypes, NEW q \in V!Query, q.spec = "p"
  PROVE  LET k == V!FindPackageJson(q.from)
             m == Up(q.from, Loadables)
         IN  /\ k # 0 /\ tree[k].pkg \in V!Exporting =>
                  /\ V!Via(q) # V!Null
                  /\ V!Found(q) = IF tree[k].pkg = "importOnly" /\ q.cond = "require"
                                  THEN V!Throws("unexported") ELSE V!Path(k, q.cond)
             /\ ~ (k # 0 /\ tree[k].pkg \in V!Exporting) =>
                  /\ V!Via(q) = V!Null
                  /\ m = 0 => V!Found(q) = V!Throws("notFound")
                  /\ m # 0 => V!Found(q) = V!Redirected(V!MainOf(m))
  <1> DEFINE k == V!FindPackageJson(q.from)
             m == Up(q.from, Loadables)
  <1>1. q.from \in V!Levels /\ q.cond \in {"import", "require"}
    BY QueryIs
  <1>2. V!Via(q) = V!ViaExports(q)
    BY DEF V!Via
  <1>3. V!Legacy(q) = IF m = 0 THEN V!Throws("notFound") ELSE V!MainOf(m)
    BY <1>1, UpNames DEF V!Legacy
  <1>4. V!ViaExports(q) = CASE k = 0 \/ (k # 0 /\ tree[k].pkg \notin V!Exporting) -> V!Null
                            [] k # 0 /\ tree[k].pkg = "importOnly" /\ q.cond = "require" -> V!Throws("unexported")
                            [] OTHER -> V!Path(k, q.cond)
    BY DEF V!ViaExports
  <1> HIDE DEF k, m
  <1>5. ASSUME k # 0, tree[k].pkg \in V!Exporting
        PROVE  /\ V!Via(q) # V!Null
               /\ V!Found(q) = IF tree[k].pkg = "importOnly" /\ q.cond = "require"
                               THEN V!Throws("unexported") ELSE V!Path(k, q.cond)
    <2>1. V!Via(q) = IF tree[k].pkg = "importOnly" /\ q.cond = "require"
                     THEN V!Throws("unexported") ELSE V!Path(k, q.cond)
      BY <1>2, <1>4, <1>5
    <2>2. V!Redirected(V!Via(q)) = V!Via(q)
      BY <1>1, <2>1, PathIs DEF V!Redirected
    <2> QED BY <2>1, <1>5, PathIs, <2>2 DEF V!Found
  <1>6. ASSUME ~ (k # 0 /\ tree[k].pkg \in V!Exporting)
        PROVE  /\ V!Via(q) = V!Null
               /\ m = 0 => V!Found(q) = V!Throws("notFound")
               /\ m # 0 => V!Found(q) = V!Redirected(V!MainOf(m))
    <2>1. V!Via(q) = V!Null
      BY <1>2, <1>4, <1>6 DEF V!Exporting
    <2>2. V!Found(q) = V!Redirected(V!Legacy(q))
      BY <2>1 DEF V!Found
    <2>3. V!Redirected(V!Throws("notFound")) = V!Throws("notFound")
      BY PathIs DEF V!Redirected
    <2> QED BY <1>3, <2>1, <2>2, <2>3
  <1> QED BY <1>5, <1>6 DEF k, m

\* An import of the package's own.
LEMMA FoundOwn ==
  ASSUME ResolverTypes, NEW q \in V!Query, q.spec # "p"
  PROVE  LET k == ProjectUp(V!Visited(q.from)) IN
         V!Found(q) = IF k # 0 /\ tree[k].project = "own" THEN V!Path(k, "own") ELSE V!Throws("notFound")
  <1> DEFINE k == ProjectUp(V!Visited(q.from))
  <1>1. V!Legacy(q) = V!Throws("notFound")
    BY DEF V!Legacy
  <1>2. V!Redirected(V!Throws("notFound")) = V!Throws("notFound") /\ V!Redirected(V!Path(k, "own")) = V!Path(k, "own")
    BY PathIs DEF V!Redirected
  <1>3. k # 0 => V!Path(k, "own") # V!Null
    BY PathIs
  <1> HIDE DEF k
  <1> QED BY <1>1, <1>2, <1>3 DEF V!Found, k, V!Via, V!ViaImports, ProjectUp

\* A main file, and what a native package is served by instead.
LEMMA RedirectedMain ==
  ASSUME ResolverTypes, NEW m \in V!Levels, tree[m].pkg \in Loadables
  PROVE  LET p == V!MainOf(m)
             w == V!Redirected(p)
         IN  /\ p \in Places /\ p.at = m /\ p.file \in {"index", "main", "require"}
             /\ w \in Places
             /\ \/ w = p
                \/ w # p /\ w.at = 0 /\ w.file # "own"
                \/ w # p /\ w.file = "wasm" /\ w.at \in m..(Depth - 1)
  <1> DEFINE p == V!MainOf(m)
             W == {l \in m..(Depth - 1) : tree[l].wasm}
             k == V!Nearest(W)
  <1>1. p.at = m /\ p.file \in {"index", "main", "require"}
    BY PathIs DEF V!MainOf
  <1>2. p \in Places
    <2>1. \A f \in {"index", "main", "require"} : V!Path(m, f) \in Places
      BY LevelsAre, PathIs DEF FileNames
    <2> QED BY <2>1 DEF V!MainOf
  <1>3. k \in 0..Depth /\ (k # 0 => k \in m..(Depth - 1))
    <2>1. \A x : x \in W => x \in m..(Depth - 1)
      OBVIOUS
    <2> HIDE DEF W
    <2> QED BY VisitedIs, <2>1, NearestOf
  <1>4. \/ V!Redirected(p) = p
        \/ p.file = "main" /\ V!Redirected(p) = IF k = 0 THEN V!Throws("notInstalled") ELSE V!Path(k, "wasm")
    BY <1>1 DEF V!Redirected
  <1> HIDE DEF p, k, W
  <1>5. "notInstalled" \in FileNames /\ "wasm" \in FileNames
    BY DEF FileNames
  <1>6. \/ V!Redirected(p) = p
        \/ V!Redirected(p) = V!Throws("notInstalled")
        \/ V!Redirected(p) = V!Path(k, "wasm") /\ k # 0
    BY <1>4
  <1>7. V!Path(k, "wasm").at = k /\ V!Path(k, "wasm").file = "wasm" /\ V!Path(k, "wasm") \in Places
    BY <1>3, <1>5, PathIs
  <1> QED BY <1>1, <1>2, <1>3, <1>6, <1>5, PathIs, LevelsAre, <1>7 DEF p

\* A specifier leads where Node has it lead, or is one of the exceptions.
LEMMA FoundAsNode ==
  ASSUME ResolverTypes, NEW q \in V!Query
  PROVE  V!Excepted(q) \/ V!Found(q) = V!Node(q)
  <1> DEFINE l == q.from
  <1>0. l \in V!Levels /\ q.cond \in {"import", "require"} /\ q.spec \in {"p", "#i"}
    BY QueryIs
  <1>1. V!Visited(l) \subseteq l..Depth /\ l..Depth \subseteq V!Levels
    BY <1>0, VisitedIs
  <1>2. CASE q.spec = "p"
    <2> DEFINE k == V!FindPackageJson(l)
               m == Up(l, Loadables)
               n == Up(l, Packages)
    <2>1. V!Excepted(q) <=>
            /\ n # 0
            /\ \/ n \notin V!Visited(l) /\ tree[n].pkg \in V!Exporting
               \/ tree[n].pkg = "bare" /\ k # 0
      <3>1. V!Nearest({i \in q.from..Depth : tree[i].pkg # "none"}) = n
        BY <1>0, UpNames
      <3> HIDE DEF n, k
      <3>2. V!Excepted(q) <=>
              /\ n # 0
              /\ \/ n \notin V!Visited(q.from) /\ tree[n].pkg \in V!Exporting
                 \/ tree[n].pkg = "bare" /\ V!FindPackageJson(q.from) # 0
        BY <1>2, <3>1 DEF V!Excepted
      <3> QED BY <3>2 DEF k
    <2>2. V!Node(q) = V!NodeBare(l, q.cond)
      BY <1>2 DEF V!Node
    <2>3. V!NodeBare(l, q.cond) =
            CASE n = 0 -> V!Throws("notFound")
              [] n # 0 /\ tree[n].pkg = "importOnly" /\ q.cond = "require" -> V!Throws("unexported")
              [] n # 0 /\ tree[n].pkg \in V!Exporting /\ (tree[n].pkg = "dual" \/ q.cond = "import")
                 -> V!Path(n, q.cond)
              [] OTHER -> V!Redirected(V!MainOf(n))
      BY <1>0, UpNames DEF V!NodeBare
    <2>4. /\ k \in 0..Depth /\ m \in 0..Depth /\ n \in 0..Depth
          /\ k # 0 => k \in V!Visited(l) /\ tree[k].pkg \in V!HasJson
          /\ \A j \in V!Visited(l) : tree[j].pkg \in V!HasJson => k # 0 /\ k <= j
          /\ m # 0 => m \in l..Depth /\ tree[m].pkg \in Loadables
          /\ \A j \in l..Depth : tree[j].pkg \in Loadables => m # 0 /\ m <= j
          /\ n # 0 => n \in l..Depth /\ tree[n].pkg \in Packages
          /\ \A j \in l..Depth : tree[j].pkg \in Packages => n # 0 /\ n <= j
      BY <1>0, JsonAt, UpIs
    <2>5. /\ k # 0 /\ tree[k].pkg \in V!Exporting =>
               V!Found(q) = IF tree[k].pkg = "importOnly" /\ q.cond = "require"
                            THEN V!Throws("unexported") ELSE V!Path(k, q.cond)
          /\ ~ (k # 0 /\ tree[k].pkg \in V!Exporting) =>
               /\ m = 0 => V!Found(q) = V!Throws("notFound")
               /\ m # 0 => V!Found(q) = V!Redirected(V!MainOf(m))
      BY <1>2, FoundBare
    <2> HIDE DEF k, m, n, l
    <2>6. /\ \A x \in V!HasJson : x \in Packages
          /\ \A x \in Loadables : x \in Packages
          /\ \A x \in V!Exporting : x \in V!HasJson /\ x \in {"dual", "importOnly"}
          /\ \A x \in Packages : x \in V!HasJson \/ x = "bare"
          /\ \A x \in Packages : x \in Loadables \/ x = "importOnly"
          /\ "importOnly" \in V!Exporting /\ "dual" \in V!Exporting /\ "bare" \notin V!Exporting
      BY DEF V!HasJson, V!Exporting, Packages, Loadables
    <2>7. CASE k # 0 /\ tree[k].pkg \in V!Exporting
      <3>1. n # 0 /\ n <= k /\ n \in V!Visited(l)
        BY <1>1, <2>4, <2>6, <1>0, VisitedIs, <2>7
      <3>2. CASE n = k
        <4> QED BY <2>2, <2>5, <2>7, <1>0, <2>3, <2>6, <3>2
      <3>3. CASE n # k
        <4>1. tree[n].pkg = "bare"
          BY <2>4, <2>6, <3>1, <3>3
        <4> QED BY <2>1, <2>7, <3>1, <4>1
      <3> QED BY <3>2, <3>3
    <2>8. CASE ~ (k # 0 /\ tree[k].pkg \in V!Exporting)
      <3>1. n # 0 /\ tree[n].pkg \in V!Exporting => V!Excepted(q)
        <4> SUFFICES ASSUME n # 0, tree[n].pkg \in V!Exporting PROVE n \notin V!Visited(l)
          BY <2>1
        <4>1. ASSUME n \in V!Visited(l) PROVE FALSE
          <5>1. k # 0 /\ k <= n
            BY <2>4, <2>6, <4>1
          <5>2. n = k
            BY <2>4, <5>1, <1>1, <2>6
          <5> QED BY <2>8, <5>1, <5>2
        <4> QED BY <4>1
      <3>2. CASE n = 0
        <4>1. V!NodeBare(l, q.cond) = V!Throws("notFound")
          BY <2>3, <3>2
        <4> QED BY <2>2, <2>5, <2>8, <2>4, <2>6, <3>2, <4>1
      <3>3. CASE n # 0 /\ tree[n].pkg \notin V!Exporting
        <4>1. m # 0 /\ m <= n /\ n <= m
          BY <2>4, <2>6, <3>3
        <4>2. V!NodeBare(l, q.cond) = V!Redirected(V!MainOf(n))
          BY <2>3, <2>6, <3>3
        <4> QED BY <2>2, <2>5, <2>8, <4>1, <2>4, <4>2
      <3> QED BY <3>1, <3>2, <3>3
    <2> QED BY <2>7, <2>8
  <1>3. CASE q.spec # "p"
    <2> DEFINE k == ProjectUp(V!Visited(l))
               n == ProjectUp(l..Depth)
    <2>1. V!Found(q) = IF k # 0 /\ tree[k].project = "own" THEN V!Path(k, "own") ELSE V!Throws("notFound")
      BY <1>3, FoundOwn
    <2>2. V!Excepted(q) <=> n # 0 /\ (n \notin V!Visited(l) \/ tree[n].project = "extern")
      BY <1>3 DEF V!Excepted, ProjectUp
    <2>3. V!Node(q) =
            CASE n # 0 /\ tree[n].project = "own" -> V!Path(n, "own")
              [] n # 0 /\ tree[n].project = "extern" -> V!NodeBare(n, q.cond)
              [] OTHER -> V!Throws("notFound")
      BY <1>3 DEF V!Node, ProjectUp
    <2>4. /\ k \in 0..Depth /\ n \in 0..Depth
          /\ k # 0 => k \in V!Visited(l) /\ tree[k].project # "none"
          /\ \A j \in V!Visited(l) : tree[j].project # "none" => k # 0 /\ k <= j
          /\ n # 0 => n \in l..Depth /\ tree[n].project # "none"
          /\ \A j \in l..Depth : tree[j].project # "none" => n # 0 /\ n <= j
      <3> QED BY <1>1, ProjectIs
    <2> HIDE DEF k, n, l
    <2>5. n \in V!Visited(l) /\ n # 0 => n = k
      <3> SUFFICES ASSUME n \in V!Visited(l), n # 0 PROVE n = k
        OBVIOUS
      <3>1. k # 0 /\ k <= n
        BY <2>4
      <3> QED BY <2>4, <3>1, <1>1
    <2>6. n = 0 => k = 0
      BY <1>1, <2>4
    <2> QED BY <2>1, <2>2, <2>3, <2>5, <2>6
  <1> QED BY <1>2, <1>3

\* Where something is found there is something, and its node_modules was looked into.
LEMMA FoundAt ==
  ASSUME ResolverTypes, NEW q \in V!Query
  PROVE  LET p == V!Found(q) IN
         /\ p \in Places
         /\ p.at = 0 => p.file # "own"
         /\ p.at # 0 =>
              /\ p.at \in V!Levels
              /\ \/ p.file = "own" /\ q.spec # "p" /\ tree[p.at].project = "own"
                 \/ /\ p.file # "own" /\ q.spec = "p" /\ p.at \in V!Probed(q)
                    /\ p.file # "wasm" => tree[p.at].pkg \in Packages
  <1> DEFINE l == q.from
             p == V!Found(q)
             k == V!FindPackageJson(l)
             m == Up(l, Loadables)
  <1>0. l \in V!Levels /\ q.cond \in {"import", "require"} /\ q.spec \in {"p", "#i"}
    BY QueryIs
  <1>1. V!Visited(l) \subseteq l..Depth /\ l..Depth \subseteq V!Levels
    BY <1>0, VisitedIs
  <1>2. CASE q.spec # "p"
    <2> DEFINE j == ProjectUp(V!Visited(l))
    <2>1. p = IF j # 0 /\ tree[j].project = "own" THEN V!Path(j, "own") ELSE V!Throws("notFound")
      BY <1>2, FoundOwn
    <2>2. j \in 0..Depth /\ (j # 0 => j \in V!Levels)
      BY <1>1, ProjectIs
    <2> HIDE DEF j
    <2>3. /\ V!Path(j, "own") \in Places /\ V!Path(j, "own").at = j /\ V!Path(j, "own").file = "own"
          /\ V!Throws("notFound") \in Places /\ V!Throws("notFound").at = 0
          /\ V!Throws("notFound").file = "notFound"
      BY <2>2, PathIs DEF FileNames
    <2> HIDE DEF p
    <2> QED BY <1>2, <2>1, <2>2, <2>3 DEF p
  <1>3. CASE q.spec = "p"
    <2>1. /\ k \in 0..Depth /\ m \in 0..Depth
          /\ k # 0 => k \in V!Visited(l) /\ tree[k].pkg \in V!HasJson
          /\ m # 0 => m \in l..Depth /\ tree[m].pkg \in Loadables
      BY <1>0, JsonAt, UpIs
    <2>2. /\ k # 0 /\ tree[k].pkg \in V!Exporting =>
               /\ V!Via(q) # V!Null
               /\ p = IF tree[k].pkg = "importOnly" /\ q.cond = "require"
                      THEN V!Throws("unexported") ELSE V!Path(k, q.cond)
          /\ ~ (k # 0 /\ tree[k].pkg \in V!Exporting) =>
               /\ V!Via(q) = V!Null
               /\ m = 0 => p = V!Throws("notFound")
               /\ m # 0 => p = V!Redirected(V!MainOf(m))
      BY <1>3, FoundBare
    <2>3. /\ \A i \in V!Visited(l) : (k = 0 \/ i <= k) => i \in V!Probed(q)
          /\ V!Via(q) = V!Null =>
               /\ \A i \in l..Depth : (m # 0 => i <= m) => i \in V!Probed(q)
               /\ p # V!Legacy(q) =>
                    \A i \in V!Legacy(q).at..(Depth - 1) : (p.at # 0 => i <= p.at) => i \in V!Probed(q)
      <3>1. V!Nearest({i \in l..Depth : V!Loadable(i)}) = m
        BY <1>0, UpNames
      <3>2. V!Via(q) = V!Null => p = V!Redirected(V!Legacy(q))
        BY DEF V!Found
      <3> HIDE DEF m, k, p
      <3>3. ASSUME V!Via(q) = V!Null, NEW i \in l..Depth, m # 0 => i <= m PROVE i \in V!Probed(q)
        BY <3>1, <3>3 DEF V!Probed
      <3>4. ASSUME V!Via(q) = V!Null, p # V!Legacy(q), NEW i \in V!Legacy(q).at..(Depth - 1),
                   p.at # 0 => i <= p.at
            PROVE  i \in V!Probed(q)
        BY <3>2, <3>4 DEF V!Probed
      <3> QED BY <1>3, <3>3, <3>4 DEF V!Probed, k
    <2>4. V!Legacy(q) = IF m = 0 THEN V!Throws("notFound") ELSE V!MainOf(m)
      <3>1. V!Nearest({i \in l..Depth : V!Loadable(i)}) = m
        BY <1>0, UpNames
      <3> HIDE DEF m
      <3> QED BY <1>3, <3>1 DEF V!Legacy
    <2>5. /\ \A x \in V!Exporting : x \in Packages
          /\ \A x \in Loadables : x \in Packages
          /\ {"import", "require", "unexported", "notFound"} \subseteq FileNames
      BY DEF V!Exporting, Packages, Loadables, FileNames
    <2>6. m # 0 => m \in V!Levels
      BY <1>1, <2>1
    <2>6a. k # 0 => k \in V!Levels /\ k <= k
      BY <1>1, <2>1, LevelsAre
    <2> HIDE DEF p, k, m, l
    <2>7. CASE k # 0 /\ tree[k].pkg \in V!Exporting
      <3>1. /\ V!Throws("unexported").at = 0 /\ V!Throws("unexported") \in Places
            /\ V!Throws("unexported").file = "unexported"
            /\ V!Path(k, q.cond).at = k /\ V!Path(k, q.cond).file = q.cond
            /\ V!Path(k, q.cond) \in Places
        BY <1>0, <2>1, <2>5, PathIs
      <3>2. k \in V!Probed(q)
        BY <2>1, <2>3, <2>6a, <2>7
      <3>3. p = V!Path(k, q.cond) => p.at \in V!Levels /\ p.file # "own"
        BY <1>0, <2>6a, <2>7, <3>1
      <3> QED BY <1>0, <1>3, <2>5, <2>7, <2>2, <3>1, <3>2, <3>3 DEF p
    <2>8. CASE ~ (k # 0 /\ tree[k].pkg \in V!Exporting) /\ m = 0
      <3>1. p \in Places /\ p.at = 0 /\ p.file = "notFound"
        BY <2>5, <2>2, <2>8, PathIs
      <3> QED BY <3>1 DEF p
    <2>9. CASE ~ (k # 0 /\ tree[k].pkg \in V!Exporting) /\ m # 0
      <3> DEFINE g == V!MainOf(m)
      <3>1. V!Via(q) = V!Null /\ p = V!Redirected(g) /\ V!Legacy(q) = g
        BY <2>2, <2>4, <2>9
      <3>2. /\ g \in Places /\ g.at = m /\ g.file \in {"index", "main", "require"}
            /\ p \in Places
            /\ \/ p = g
               \/ p # g /\ p.at = 0 /\ p.file # "own"
               \/ p # g /\ p.file = "wasm" /\ p.at \in m..(Depth - 1)
        BY <2>1, <2>6, <2>9, <3>1, RedirectedMain
      <3> HIDE DEF g
      <3>3. CASE p = g
        <4>1. p.at \in V!Probed(q) /\ p.at \in V!Levels
          BY <2>1, <2>3, <2>6, <2>9, <3>1, <3>2, LevelsAre, <3>3
        <4> QED BY <1>3, <2>1, <2>5, <2>9, <3>2, <3>3, <4>1 DEF p
      <3>4. CASE p # g /\ p.at = 0
        BY <3>2, <3>4 DEF p
      <3>5. CASE p # g /\ p.file = "wasm" /\ p.at \in m..(Depth - 1)
        <4>1. p.at \in V!Levels /\ p.at <= p.at
          BY <2>6, <2>9, <3>5, VisitedIs, LevelsAre
        <4> QED BY <1>3, <3>2, <3>5, <4>1, <2>3, <3>1 DEF p
      <3> QED BY <3>2, <3>3, <3>4, <3>5
    <2> QED BY <2>7, <2>8, <2>9
  <1> QED BY <1>2, <1>3

\* The directory whose type a file has.
LEMMA DirOfIs ==
  ASSUME NEW p \in Places
  PROVE  /\ p.at = 0 /\ p.file # "own" => V!DirOf(p) = {}
         /\ p.at # 0 /\ p.file = "own" => V!DirOf(p) = {<<p.at, "dir">>}
         /\ p.at # 0 /\ p.file = "wasm" => V!DirOf(p) = {}
         /\ p.at # 0 /\ p.file \notin {"own", "wasm"} => V!DirOf(p) = {<<p.at, "pkg">>}
  BY DEF V!DirOf

\* A type of one's own is found at once.
LEMMA OwnType ==
  ASSUME NEW d \in V!Dirs, V!Declares(d) # "unknown"
  PROVE  V!TypeOf(V!Untyped, d) = V!Declares(d)
  <1>1. d \in V!Chain(d)
    <2> QED BY DirsOrder, RankIs DEF V!Chain
  <1>2. d \in V!Ends(V!Untyped, d)
    BY <1>1, UntypedEnds
  <1>3. \A o \in V!Ends(V!Untyped, d) : o = d \/ V!Before(d, o)
    <2> SUFFICES ASSUME NEW o \in V!Ends(V!Untyped, d) PROVE o = d \/ V!Before(d, o)
      OBVIOUS
    <2> QED BY UntypedEnds, ChainGoesOn
  <1> QED BY <1>2, <1>3, EndIs, UntypedEnds

\* The source is of the type Node gives it, or is one of the exceptions.
LEMMA TypedAsNode ==
  ASSUME ResolverTypes, NEW q \in V!Query, NEW d \in V!DirOf(V!Found(q))
  PROVE  /\ d \in V!Dirs /\ V!DirOf(V!Found(q)) = {d}
         /\ V!TypeExcepted(d) \/ V!TypeOf(V!Untyped, d) = V!NodeType(d)
  <1> DEFINE p == V!Found(q)
             k == p.at
  <1>1. /\ p \in Places
        /\ k = 0 => p.file # "own"
        /\ k # 0 =>
             /\ k \in V!Levels
             /\ \/ p.file = "own" /\ tree[k].project = "own"
                \/ p.file # "own" /\ (p.file # "wasm" => tree[k].pkg \in Packages)
    BY FoundAt
  <1>2. d \in V!DirOf(p)
    OBVIOUS
  <1> HIDE DEF p
  <1>3. k # 0 /\ p.file # "wasm"
    BY <1>1, <1>2, DirOfIs
  <1>4. CASE p.file = "own"
    <2>1. V!DirOf(p) = {d} /\ d = <<k, "dir">>
      BY <1>1, <1>2, <1>3, <1>4, DirOfIs
    <2>2. d \in V!Dirs /\ d[1] = k /\ d[2] = "dir"
      BY <1>1, <1>3, <2>1 DEF V!Dirs
    <2>3. tree[k].project = "own" /\ tree[k].scope \in TypeNames
      BY <1>1, <1>3, <1>4, FactsAre
    <2>4. V!NodeType(d) = tree[k].scope
      <3> DEFINE n == ProjectUp(k..Depth)
      <3>1. k..Depth \in SUBSET V!Levels /\ k \in k..Depth
        BY <1>1, <1>3, VisitedIs, LevelsAre
      <3>2. n # 0 /\ n <= k /\ n \in k..Depth /\ k \in Nat /\ Depth \in Nat
        BY <1>1, <1>3, <2>3, <3>1, ProjectIs, LevelsAre
      <3>3. V!NodeType(d) = IF n = 0 THEN "undefined" ELSE tree[n].scope
        BY <2>2 DEF V!NodeType, ProjectUp
      <3> HIDE DEF n, k
      <3>4. n = k
        BY <3>2
      <3> QED BY <3>2, <3>3, <3>4
    <2> QED BY <2>1, <2>2, <2>3, <2>4, OwnType DEF p, V!Declares, TypeNames
  <1>5. CASE p.file # "own"
    <2>1. V!DirOf(p) = {d} /\ d = <<k, "pkg">>
      BY <1>1, <1>2, <1>3, <1>5, DirOfIs
    <2>2. d \in V!Dirs /\ d[1] = k /\ d[2] = "pkg"
      BY <1>1, <1>3, <2>1 DEF V!Dirs
    <2>3. tree[k].pkg \in Packages /\ tree[k].type \in TypeNames
      BY <1>1, <1>3, <1>5, FactsAre
    <2>4. tree[k].pkg # "bare" => tree[k].pkg \in V!HasJson
      BY <2>3 DEF Packages, Loadables, V!HasJson
    <2>5. tree[k].pkg # "bare" => V!NodeType(d) = tree[k].type
      BY <2>2, <2>4 DEF V!NodeType
    <2>6. tree[k].pkg # "bare" => V!Declares(d) = tree[k].type /\ V!Declares(d) # "unknown"
      BY <2>2, <2>3, <2>4 DEF V!Declares, TypeNames
    <2> QED BY <2>1, <2>2, <2>5, <2>6, OwnType DEF p, V!TypeExcepted
  <1> QED BY <1>4, <1>5

-----------------------------------------------------------------------------
(* The steps *)

\* What is found is a matter of the tree.
LEMMA SameTree ==
  ASSUME UNCHANGED tree
  PROVE  /\ \A q : V!Found(q)' = V!Found(q)
         /\ \A d : V!TypeOf(V!Untyped, d)' = V!TypeOf(V!Untyped, d)
         /\ \A q : V!Node(q)' = V!Node(q)
         /\ \A q : V!Excepted(q)' = V!Excepted(q)
         /\ \A d : V!NodeType(d)' = V!NodeType(d)
         /\ \A d : V!TypeExcepted(d)' = V!TypeExcepted(d)
  <1>1. \A q : V!Found(q)' = V!Found(q)
    BY DEF V!Found, V!Via, V!ViaExports, V!ViaImports, V!Legacy, V!Redirected, V!FindPackageJson,
           V!Loadable, V!MainOf
  <1>2. \A q : V!Node(q)' = V!Node(q)
    BY DEF V!Node, V!NodeBare, V!Redirected, V!MainOf
  <1>3. \A q : V!Excepted(q)' = V!Excepted(q)
    BY DEF V!Excepted, V!FindPackageJson
  <1>4. \A d : V!NodeType(d)' = V!NodeType(d)
    BY DEF V!NodeType
  <1>5. \A d : V!TypeExcepted(d)' = V!TypeExcepted(d)
    BY DEF V!TypeExcepted
  <1> QED BY <1>1, <1>2, <1>3, <1>4, <1>5 DEF V!TypeOf, V!Ends, V!End, V!Declares

\* Past what was listed of a node_modules, the package that was looked for is listed.
LEMMA ListsRight ==
  ASSUME ResolverTypes, V!ListedOnce, NEW q \in V!Query, NEW p \in Places, p = V!Found(q),
         V!Lists(q, p)
  PROVE  /\ seeded' \in [V!Levels -> {-1, 1, 3, 99}] /\ hydrated' \subseteq V!Levels
         /\ listings' \in [V!Levels -> [nm : Nat, pkg : Nat]]
         /\ \A k \in V!Levels :
              /\ listings'[k].nm = CASE seeded'[k] = -1 -> 0 [] seeded'[k] = 1 -> 2 [] OTHER -> 1
              /\ listings'[k].pkg = IF k \in hydrated' THEN 1 ELSE 0
              /\ k \in hydrated \/ seeded[k] > 1 => k \in hydrated' \/ seeded'[k] > 1
              /\ p.at = k /\ p.file # "own" => k \in hydrated' \/ seeded'[k] > 1
  <1>0. /\ seeded \in [V!Levels -> {-1, 1, 3, 99}] /\ hydrated \subseteq V!Levels
        /\ listings \in [V!Levels -> [nm : Nat, pkg : Nat]]
    BY DEF ResolverTypes
  <1> DEFINE Q == V!Probed(q)
             H == V!Hydrates(q, p)
  <1>1. /\ \A k \in V!Levels : V!Fresh(k) = IF seeded[k] = -1 THEN V!Covered(k) ELSE seeded[k]
        /\ seeded' = [k \in V!Levels |-> IF k \in Q THEN V!Fresh(k) ELSE seeded[k]]
        /\ hydrated' = hydrated \cup H
        /\ listings' = [k \in V!Levels |->
             [nm |-> listings[k].nm + (IF k \in Q /\ seeded[k] = -1 THEN V!Requests(k) ELSE 0),
              pkg |-> listings[k].pkg + (IF k \in H THEN 1 ELSE 0)]]
    BY DEF V!Lists, V!Fresh
  <1>2. \A k \in V!Levels :
          /\ V!Covered(k) \in {1, 3, 99} /\ V!Requests(k) \in {1, 2}
          /\ V!Requests(k) = IF V!Covered(k) = 1 THEN 2 ELSE 1
    <2> SUFFICES ASSUME NEW k \in V!Levels
                 PROVE  /\ V!Covered(k) \in {1, 3, 99} /\ V!Requests(k) \in {1, 2}
                        /\ V!Requests(k) = IF V!Covered(k) = 1 THEN 2 ELSE 1
      OBVIOUS
    <2> QED BY FactsAre DEF V!Covered, V!Requests
  <1>3. \A k : k \in H <=> k \in Q /\ k \notin hydrated /\ V!Deepest(q, p, k) > V!Fresh(k)
    BY DEF V!Hydrates
  <1>4. Q \subseteq V!Levels
    <2> SUFFICES ASSUME NEW i \in Q PROVE i \in V!Levels
      OBVIOUS
    <2>1. q.from \in V!Levels
      BY QueryIs
    <2>2. V!Visited(q.from) \subseteq q.from..Depth /\ q.from..Depth \subseteq V!Levels
      BY <2>1, VisitedIs
    <2> DEFINE g == IF V!Via(q) = V!Null THEN V!Legacy(q) ELSE V!Via(q)
    <2>3. \/ i \in V!Visited(q.from) \/ i \in q.from..Depth
          \/ V!Redirected(g) # g /\ i \in g.at..(Depth - 1)
      BY DEF V!Probed
    <2>4. g.at \in 0..Depth
      <3>1. CASE V!Via(q) = V!Null
        <4>1. V!Legacy(q) = V!Throws("notFound") \/ V!Legacy(q) = V!MainOf(Up(q.from, Loadables))
          BY <2>1, UpNames DEF V!Legacy
        <4>2. Up(q.from, Loadables) \in 0..Depth /\ 0 \in 0..Depth
          BY <2>1, UpIs, LevelsAre
        <4> QED BY <3>1, <4>1, PathIs, <4>2 DEF V!MainOf
      <3>2. CASE V!Via(q) # V!Null
        <4>1. CASE q.spec = "p"
          <5> DEFINE k == V!FindPackageJson(q.from)
          <5>1. k \in 0..Depth
            BY <2>1, JsonAt
          <5>2. V!Via(q) = V!Throws("unexported") \/ V!Via(q) = V!Path(k, q.cond)
            <6>1. V!ViaExports(q) = IF tree[k].pkg = "importOnly" /\ q.cond = "require"
                                    THEN V!Throws("unexported") ELSE V!Path(k, q.cond)
              BY <3>2, <4>1, FoundBare DEF V!ViaExports
            <6> QED BY <4>1, <6>1 DEF V!Via
          <5> HIDE DEF k
          <5>3. V!Path(k, q.cond).at = k /\ V!Throws("unexported").at = 0 /\ 0 \in 0..Depth
            BY PathIs, LevelsAre
          <5> QED BY <3>2, <5>1, <5>2, <5>3
        <4>2. CASE q.spec # "p"
          <5> DEFINE j == ProjectUp(V!Visited(q.from))
          <5>1. V!Via(q) = V!Path(j, "own")
            BY <3>2, <4>2 DEF V!Via, V!ViaImports, ProjectUp
          <5>2. j \in 0..Depth
            BY <2>2, ProjectIs
          <5> HIDE DEF j
          <5> QED BY <3>2, <5>1, <5>2, PathIs
        <4> QED BY <4>1, <4>2
      <3> QED BY <3>1, <3>2
    <2> HIDE DEF g
    <2>5. V!Redirected(g) # g => g.at \in V!Levels
      BY <2>4, LevelsAre DEF V!Redirected
    <2>6. V!Redirected(g) # g => g.at..(Depth - 1) \subseteq V!Levels
      BY <2>5, VisitedIs
    <2> QED BY <2>2, <2>3, <2>6
  <1> HIDE DEF Q, H
  <1>5. \A k \in V!Levels : V!Fresh(k) \in {1, 3, 99}
    BY <1>0, <1>1, <1>2
  <1>6. ASSUME NEW k \in V!Levels
        PROVE  /\ listings'[k] \in [nm : Nat, pkg : Nat]
               /\ listings'[k].nm = CASE seeded'[k] = -1 -> 0 [] seeded'[k] = 1 -> 2 [] OTHER -> 1
               /\ listings'[k].pkg = IF k \in hydrated' THEN 1 ELSE 0
               /\ k \in hydrated \/ seeded[k] > 1 => k \in hydrated' \/ seeded'[k] > 1
               /\ p.at = k /\ p.file # "own" => k \in hydrated' \/ seeded'[k] > 1
    <2>1. /\ listings[k].nm = CASE seeded[k] = -1 -> 0 [] seeded[k] = 1 -> 2 [] OTHER -> 1
          /\ listings[k].pkg = IF k \in hydrated THEN 1 ELSE 0
      BY DEF V!ListedOnce
    <2>2. /\ seeded'[k] = IF k \in Q THEN V!Fresh(k) ELSE seeded[k]
          /\ listings'[k] = [nm |-> listings[k].nm + (IF k \in Q /\ seeded[k] = -1 THEN V!Requests(k) ELSE 0),
                             pkg |-> listings[k].pkg + (IF k \in H THEN 1 ELSE 0)]
          /\ k \in hydrated' <=> k \in hydrated \/ k \in H
          /\ V!Fresh(k) = IF seeded[k] = -1 THEN V!Covered(k) ELSE seeded[k]
      BY <1>1
    <2>3. /\ listings'[k].nm = listings[k].nm + (IF k \in Q /\ seeded[k] = -1 THEN V!Requests(k) ELSE 0)
          /\ listings'[k].pkg = listings[k].pkg + (IF k \in H THEN 1 ELSE 0)
      BY <2>2
    <2>4. /\ seeded[k] \in {-1, 1, 3, 99} /\ V!Covered(k) \in {1, 3, 99}
          /\ V!Requests(k) = IF V!Covered(k) = 1 THEN 2 ELSE 1
      BY <1>0, <1>2
    <2>5. listings'[k].nm = CASE seeded'[k] = -1 -> 0 [] seeded'[k] = 1 -> 2 [] OTHER -> 1
      <3>1. CASE k \in Q /\ seeded[k] = -1
        <4> QED BY <2>4, <2>1, <2>2, <2>3, <3>1
      <3>2. CASE ~ (k \in Q /\ seeded[k] = -1)
        <4>1. listings[k].nm \in Nat
          BY <1>0
        <4> QED BY <2>1, <2>2, <2>3, <3>2, <4>1
      <3> QED BY <3>1, <3>2
    <2>6. k \in hydrated \/ seeded[k] > 1 => k \in hydrated' \/ seeded'[k] > 1
      <3> QED BY <2>2, <2>4
    <2>7. p.at = k /\ p.file # "own" => k \in hydrated' \/ seeded'[k] > 1
      <3> SUFFICES ASSUME p.at = k, p.file # "own", k \notin hydrated' PROVE seeded'[k] > 1
        OBVIOUS
      <3>1. k \in Q /\ q.spec = "p"
        BY LevelsAre, FoundAt DEF Q
      <3>2. V!Deepest(q, p, k) \in {2, 4}
        BY <3>1 DEF V!Deepest
      <3>3. V!Fresh(k) \in {1, 3, 99}
        BY <1>5
      <3> QED BY <2>2, <3>1, <1>3, <3>2, <3>3
    <2>8. listings'[k] \in [nm : Nat, pkg : Nat]
      <3>1. listings'[k].nm \in Nat /\ listings'[k].pkg \in Nat
        BY <2>3, <2>4, <1>0
      <3> QED BY <2>2, <2>3, <3>1
    <2> QED BY <2>5, <1>3, <2>1, <2>2, <2>3, <2>6, <2>7, <2>8
  <1>7. listings' \in [V!Levels -> [nm : Nat, pkg : Nat]]
    <2> DEFINE e(k) == [nm |-> listings[k].nm + (IF k \in Q /\ seeded[k] = -1 THEN V!Requests(k) ELSE 0),
                        pkg |-> listings[k].pkg + (IF k \in H THEN 1 ELSE 0)]
    <2>1. listings' = [k \in V!Levels |-> e(k)]
      BY <1>1
    <2> HIDE DEF e
    <2> QED BY <2>1, <1>6
  <1> QED BY <1>0, <1>1, <1>3, <1>4, <1>5, <1>6, <1>7

\* A resolution remembers what it found, and the types its walk came to.
LEMMA ResolvesKeeps ==
  ASSUME ResolverInv, NEW q \in V!Query, V!Resolves(q) PROVE ResolverInv'
  <1>0. ResolverTypes /\ PathsTrue /\ TypesTrue /\ V!ListedOnce
    BY DEF ResolverInv
  <1> DEFINE p == IF paths[q] = V!Unknown THEN V!Found(q) ELSE paths[q]
             t == IF V!DirOf(p) = {} THEN "none" ELSE V!TypeOf(types, CHOOSE d \in V!DirOf(p) : TRUE)
  <1>1. /\ tree' = tree /\ paths' = V!Remembered(q, p) /\ types' = V!Typed(p)
        /\ answer' = [query |-> q, path |-> p, type |-> t]
        /\ IF paths[q] = V!Unknown THEN V!Lists(q, p) ELSE UNCHANGED <<seeded, hydrated, listings>>
    BY DEF V!Resolves
  <1>2. p = V!Found(q) /\ p \in Places
    BY <1>0, FoundAt DEF PathsTrue
  <1>3. \A d \in V!DirOf(p) : /\ d \in V!Dirs /\ V!DirOf(p) = {d}
                              /\ V!TypeExcepted(d) \/ V!TypeOf(V!Untyped, d) = V!NodeType(d)
    BY <1>0, <1>2, TypedAsNode
  <1>4. \A d \in V!DirOf(p) :
          /\ V!TypeOf(types, d) = V!TypeOf(V!Untyped, d)
          /\ \A e \in V!Walked(d) : V!TypeOf(V!Untyped, e) = V!TypeOf(types, d)
    BY <1>0, <1>3, WalkTrue
  <1>5. \A d \in V!DirOf(p) : (CHOOSE x \in V!DirOf(p) : TRUE) = d
    <2> SUFFICES ASSUME NEW d \in V!DirOf(p) PROVE (CHOOSE x \in V!DirOf(p) : TRUE) = d
      OBVIOUS
    <2>1. (CHOOSE x \in V!DirOf(p) : TRUE) \in V!DirOf(p)
      OBVIOUS
    <2> QED BY <1>3, <2>1
  <1>6. paths' = [paths EXCEPT ![q] = IF p.at = 0 THEN paths[q] ELSE p]
    BY <1>1 DEF V!Remembered
  <1>7. \A e \in V!Dirs :
          \/ types'[e] = types[e]
          \/ \E d \in V!DirOf(p) : e \in V!Walked(d) /\ types'[e] = V!TypeOf(types, d)
    <2>1. types' = [e \in V!Dirs |-> IF \E d \in V!DirOf(p) : e \in V!Walked(d)
                                     THEN V!TypeOf(types, CHOOSE d \in V!DirOf(p) : TRUE)
                                     ELSE types[e]]
      BY <1>1 DEF V!Typed
    <2> SUFFICES ASSUME NEW e \in V!Dirs, NEW d \in V!DirOf(p), e \in V!Walked(d)
                 PROVE  types'[e] = V!TypeOf(types, d)
      BY <2>1
    <2> QED BY <1>5, <2>1
  <1>8. /\ \A r : V!Found(r)' = V!Found(r)
        /\ \A d : V!TypeOf(V!Untyped, d)' = V!TypeOf(V!Untyped, d)
        /\ \A r : V!Node(r)' = V!Node(r) /\ V!Excepted(r)' = V!Excepted(r)
        /\ \A d : V!NodeType(d)' = V!NodeType(d) /\ V!TypeExcepted(d)' = V!TypeExcepted(d)
    BY <1>1, SameTree
  <1>9. V!AsNode'
    <2>1. V!Excepted(q) \/ p = V!Node(q)
      BY <1>0, <1>2, FoundAsNode
    <2>2. \A d \in V!DirOf(p) : V!TypeExcepted(d) \/ t = V!NodeType(d)
      BY <1>3, <1>4, <1>5
    <2> HIDE DEF p, t
    <2> QED BY <1>8, <1>1, <2>1, <2>2 DEF V!AsNode
  <1>10. PathsTrue'
    <2> SUFFICES ASSUME NEW r \in V!Query, paths'[r] # V!Unknown PROVE paths'[r] = V!Found(r)
      BY <1>8 DEF PathsTrue
    <2> QED BY <1>0, <1>2, <1>6 DEF PathsTrue, ResolverTypes
  <1>11. TypesTrue'
    <2> SUFFICES ASSUME NEW e \in V!Dirs, types'[e] # "unknown"
                 PROVE  types'[e] = V!TypeOf(V!Untyped, e)
      BY <1>8 DEF TypesTrue
    <2> HIDE DEF p
    <2>1. CASE types'[e] = types[e]
      BY <1>0, <2>1 DEF TypesTrue
    <2>2. CASE \E d \in V!DirOf(p) : e \in V!Walked(d) /\ types'[e] = V!TypeOf(types, d)
      BY <1>4, <2>2
    <2> QED BY <1>7, <2>1, <2>2
  <1>12. ResolverTypes' /\ V!ListedOnce'
    <2> HIDE DEF p
    <2>1. paths' \in [V!Query -> Places]
      BY <1>0, <1>2, <1>6 DEF ResolverTypes
    <2>2. types' \in [V!Dirs -> TypeNames \cup {"unknown"}]
      <3>1. \A d \in V!DirOf(p) : V!TypeOf(V!Untyped, d) \in TypeNames \cup {"unknown"}
        <4> SUFFICES ASSUME NEW d \in V!DirOf(p)
                     PROVE  V!TypeOf(V!Untyped, d) \in TypeNames \cup {"unknown"}
          OBVIOUS
        <4>1. d \in V!Dirs
          BY <1>3
        <4>2. \A e \in V!Dirs : V!Declares(e) \in TypeNames \cup {"unknown"}
          <5> SUFFICES ASSUME NEW e \in V!Dirs PROVE V!Declares(e) \in TypeNames \cup {"unknown"}
            OBVIOUS
          <5>1. e[1] \in V!Levels /\ e[2] \in {"pkg", "nm", "dir"}
            BY DirsOrder
          <5> QED BY <5>1, <1>0, FactsAre DEF V!Declares
        <4>3. CASE V!Ends(V!Untyped, d) = {}
          BY <4>1, <4>3, UntypedEnds DEF TypeNames
        <4>4. CASE V!Ends(V!Untyped, d) # {}
          <5>1. V!End(V!Untyped, d) \in V!Dirs
            <6> QED BY <4>1, <4>4, EndIs DEF V!Ends, V!Chain
          <5> QED BY <4>1, <4>2, <4>4, <5>1, UntypedEnds
        <4> QED BY <4>3, <4>4
      <3>2. types' = [e \in V!Dirs |-> types'[e]]
        BY <1>1 DEF V!Typed
      <3> QED BY <1>0, <1>4, <1>7, <3>1, <3>2 DEF ResolverTypes
    <2>3. CASE paths[q] = V!Unknown
      <3>1. /\ seeded' \in [V!Levels -> {-1, 1, 3, 99}] /\ hydrated' \subseteq V!Levels
            /\ listings' \in [V!Levels -> [nm : Nat, pkg : Nat]]
            /\ \A k \in V!Levels :
                 /\ listings'[k].nm = CASE seeded'[k] = -1 -> 0 [] seeded'[k] = 1 -> 2 [] OTHER -> 1
                 /\ listings'[k].pkg = IF k \in hydrated' THEN 1 ELSE 0
                 /\ k \in hydrated \/ seeded[k] > 1 => k \in hydrated' \/ seeded'[k] > 1
                 /\ p.at = k /\ p.file # "own" => k \in hydrated' \/ seeded'[k] > 1
        BY <1>0, <1>2, <1>1, <2>3, ListsRight
      <3>2. \A k \in V!Levels, r \in V!Query :
              paths'[r].at = k /\ paths'[r].file # "own" => k \in hydrated' \/ seeded'[k] > 1
        <4> SUFFICES ASSUME NEW k \in V!Levels, NEW r \in V!Query,
                            paths'[r].at = k, paths'[r].file # "own"
                     PROVE  k \in hydrated' \/ seeded'[k] > 1
          OBVIOUS
        <4>1. CASE paths'[r] = paths[r]
          <5> QED BY <3>1, <1>0, <4>1 DEF V!ListedOnce
        <4>2. CASE paths'[r] = p
          BY <3>1, <4>2
        <4> QED BY <1>0, <1>6, <4>1, <4>2 DEF ResolverTypes
      <3>3. V!ListedOnce'
        BY <3>1, <3>2 DEF V!ListedOnce
      <3> QED BY <1>0, <1>1, <2>1, <2>2, <3>1, <3>3 DEF ResolverTypes
    <2>4. CASE paths[q] # V!Unknown
      <3>1. UNCHANGED <<seeded, hydrated, listings>> /\ p = paths[q]
        BY <1>1, <2>4 DEF p
      <3>2. V!ListedOnce'
        BY <1>0, <3>1, <1>6 DEF V!ListedOnce, ResolverTypes
      <3> QED BY <1>0, <1>1, <2>1, <2>2, <3>1, <3>2 DEF ResolverTypes
    <2> QED BY <2>3, <2>4
  <1> QED BY <1>9, <1>10, <1>11, <1>12 DEF ResolverInv

\* A change of the tree: both memos go, and so does the last answer.
LEMMA ForgottenRight ==
  ASSUME paths' = V!Nowhere, types' = V!Untyped, answer' = V!NoAnswer
  PROVE  /\ PathsTrue' /\ TypesTrue' /\ V!AsNode'
         /\ paths' \in [V!Query -> Places] /\ types' \in [V!Dirs -> TypeNames \cup {"unknown"}]
         /\ \A k \in V!Levels : \A q \in V!Query : paths'[q].at # k
  <1>1. \A q \in V!Query : paths'[q] = V!Unknown
    BY DEF V!Nowhere
  <1>2. PathsTrue' /\ TypesTrue' /\ V!AsNode'
    BY <1>1 DEF PathsTrue, TypesTrue, V!AsNode, V!Untyped
  <1>3. \A k \in V!Levels : \A q \in V!Query : paths'[q].at # k
    BY <1>1, PathIs, LevelsAre
  <1> QED BY <1>2, PathIs, <1>3 DEF V!Nowhere, V!Untyped

LEMMA ChangeKeeps ==
  ASSUME ResolverInv, NEW l \in V!Levels, V!Changes(l) PROVE ResolverInv'
  <1>0. ResolverTypes /\ V!ListedOnce
    BY DEF ResolverInv
  <1>1. /\ paths' = V!Nowhere /\ types' = V!Untyped /\ answer' = V!NoAnswer
        /\ UNCHANGED <<seeded, hydrated, listings>>
        /\ \E f \in Facts : tree' = [tree EXCEPT ![l] = f]
    BY DEF V!Changes, V!Forgotten
  <1>2. V!ListedOnce'
    BY <1>0, <1>1, ForgottenRight DEF V!ListedOnce
  <1> QED BY <1>1, <1>0, ForgottenRight, <1>2 DEF ResolverInv, ResolverTypes

LEMMA MountsKeeps ==
  ASSUME ResolverInv, NEW l \in V!Levels, V!Mounts(l) PROVE ResolverInv'
  <1>0. ResolverTypes /\ V!ListedOnce
    BY DEF ResolverInv
  <1>1. /\ paths' = V!Nowhere /\ types' = V!Untyped /\ answer' = V!NoAnswer
        /\ seeded' = [k \in V!Levels |-> IF k \in 1..l THEN -1 ELSE seeded[k]]
        /\ hydrated' = hydrated \ 1..l
        /\ listings' = [k \in V!Levels |-> IF k <= l THEN [nm |-> 0, pkg |-> 0] ELSE listings[k]]
        /\ \E k \in 1..l, f \in Facts : tree' = [tree EXCEPT ![k] = f]
    BY DEF V!Mounts, V!Unseeded
  <1>2. \A k \in V!Levels : k \in 1..l <=> k <= l
    BY LevelsAre
  <1>3. /\ seeded' \in [V!Levels -> {-1, 1, 3, 99}] /\ hydrated' \subseteq V!Levels
        /\ tree' \in [V!Levels -> Facts]
    BY <1>0, <1>1, LevelsAre DEF ResolverTypes
  <1>4. ResolverTypes'
    BY <1>1, <1>3, <1>0, ForgottenRight DEF ResolverTypes
  <1>5. ASSUME NEW k \in V!Levels
        PROVE  /\ listings'[k].nm = CASE seeded'[k] = -1 -> 0 [] seeded'[k] = 1 -> 2 [] OTHER -> 1
               /\ listings'[k].pkg = IF k \in hydrated' THEN 1 ELSE 0
    <2>1. CASE k <= l
      <3> QED BY <1>1, <1>2, <2>1
    <2>2. CASE ~ (k <= l)
      <3> QED BY <1>0, <1>1, <1>2, <2>2 DEF V!ListedOnce
    <2> QED BY <2>1, <2>2
  <1> QED BY <1>1, <1>4, <1>5, ForgottenRight DEF ResolverInv, V!ListedOnce

LEMMA ResolverStarts ==
  ASSUME V!Init PROVE ResolverInv
  <1>1. /\ tree \in [V!Levels -> Facts] /\ paths = V!Nowhere /\ types = V!Untyped
        /\ answer = V!NoAnswer /\ seeded = [k \in V!Levels |-> -1] /\ hydrated = {}
        /\ listings = [k \in V!Levels |-> [nm |-> 0, pkg |-> 0]]
    BY DEF V!Init
  <1>2. \A q \in V!Query : paths[q] = V!Unknown
    BY <1>1 DEF V!Nowhere
  <1>3. PathsTrue /\ TypesTrue /\ V!AsNode
    BY <1>1, <1>2 DEF PathsTrue, TypesTrue, V!AsNode, V!Untyped
  <1>4. ResolverTypes
    BY <1>1, PathIs DEF ResolverTypes, V!Nowhere, V!Untyped
  <1>5. V!ListedOnce
    BY <1>1, <1>2, PathIs, LevelsAre DEF V!ListedOnce
  <1> QED BY <1>3, <1>4, <1>5 DEF ResolverInv

LEMMA ResolverSteps ==
  ASSUME ResolverInv, V!Next PROVE ResolverInv'
  BY ResolvesKeeps, ChangeKeeps, MountsKeeps DEF V!Next

-----------------------------------------------------------------------------
(* What the loader and the resolver keep *)

\* Every state the loader gets to: what it read is what is there, or it is yet to be told; and
\* what it remembers leads to the first that is there.
THEOREM LoaderAgrees == FairSpec => []LoaderInv
  <1>1. Init => LoaderInv
    BY LoaderStarts DEF Init
  <1>2. LoaderInv /\ [Next]_vars => LoaderInv'
    <2> SUFFICES ASSUME LoaderInv, [Next]_vars PROVE LoaderInv'
      OBVIOUS
    <2>1. CASE Loader(M!Next)
      BY <2>1, LoaderSteps DEF Loader
    <2>2. CASE UNCHANGED loader
      BY <2>2 DEF loader, LoaderInv, LoaderTypes, M!HandedWhole
    <2> QED BY <2>1, <2>2 DEF Next, Worker, Resolver, KeepsTime, vars
  <1> QED BY <1>1, <1>2, PTL DEF FairSpec

\* Every state the resolver gets to: its memos are true of the tree that is.
THEOREM ResolverAgrees == FairSpec => []ResolverInv
  <1>1. Init => ResolverInv
    BY ResolverStarts DEF Init
  <1>2. ResolverInv /\ [Next]_vars => ResolverInv'
    <2> SUFFICES ASSUME ResolverInv, [Next]_vars PROVE ResolverInv'
      OBVIOUS
    <2>1. CASE Resolver(V!Next)
      BY <2>1, ResolverSteps DEF Resolver
    <2>2. CASE UNCHANGED resolver
      <3>1. UNCHANGED <<tree, paths, types, seeded, hydrated, listings, answer>>
        BY <2>2 DEF resolver
      <3> QED BY <3>1, SameTree DEF ResolverInv, ResolverTypes, V!ListedOnce, PathsTrue, TypesTrue,
          V!AsNode
    <2> QED BY <2>1, <2>2 DEF Next, Worker, Loader, KeepsTime, vars
  <1> QED BY <1>1, <1>2, PTL DEF FairSpec

\* A body runs once, and before it ends it is given only to what it requires, or after it threw; a
\* node_modules is listed once until something is mounted over it (requireWithBasedir, seededDepth,
\* hydratePackage).
THEOREM BodiesRunOnce == FairSpec => []RunsOnce
  <1>1. ResolverInv => V!ListedOnce
    BY DEF ResolverInv
  <1>2. LoaderInv /\ ResolverInv => RunsOnce
    BY <1>1 DEF RunsOnce, LoaderInv, Once, M!RunsOnce
  <1> QED BY <1>2, LoaderAgrees, ResolverAgrees, PTL

\* What the loader remembers is what there is, and what there is is what Node would find, but for
\* the exceptions Resolve names (resolveSource, ctl.invalidateModules, detectRuntimeSourceType).
THEOREM ModulesLoadAnew == FairSpec => []LoadsAnew
  <1>1. LoaderInv => M!MemoTrue
    <2> SUFFICES ASSUME LoaderInv, NEW s \in Specs, memo[s] # None, ~ pending, s \notin late
                 PROVE  memo[s] = M!Best(s)
      BY DEF M!MemoTrue
    <2>1. PICK i \in DOMAIN Candidates[s] :
            /\ memo[s] = Candidates[s][i] /\ disk[memo[s]] # 0
            /\ \A j \in DOMAIN Candidates[s] : j < i => disk[Candidates[s][j]] = 0
      BY DEF Leads, LoaderInv, MemoLeads
    <2> DEFINE there == {k \in DOMAIN Candidates[s] : disk[Candidates[s][k]] # 0}
               c == CHOOSE k \in there : \A j \in there : k <= j
    <2>2. M!Best(s) = IF there = {} THEN None ELSE Candidates[s][c]
      BY DEF M!Best
    <2>3. Len(Candidates[s]) \in Nat /\ DOMAIN Candidates[s] = 1..Len(Candidates[s])
      BY RealmAssumption, LenProperties
    <2>4. \A k \in there : k \in Nat /\ k \in DOMAIN Candidates[s] /\ disk[Candidates[s][k]] # 0
      BY <2>3
    <2>5. i \in there
      BY <2>1
    <2> HIDE DEF there
    <2>6. \A j \in there : i <= j
      <3> SUFFICES ASSUME NEW j \in there PROVE i <= j
        OBVIOUS
      <3>1. i \in Nat /\ j \in Nat
        BY <2>4, <2>5
      <3> QED BY <2>1, <2>4, <3>1
    <2>7. c \in there /\ \A j \in there : c <= j
      BY <2>5, <2>6
    <2>8. c = i
      <3>1. i \in Nat /\ c \in Nat
        BY <2>4, <2>5, <2>7
      <3> HIDE DEF c
      <3> QED BY <2>5, <2>6, <2>7, <3>1
    <2> HIDE DEF c
    <2> QED BY <2>1, <2>2, <2>5, <2>8
  <1>2. ResolverInv => V!MemosTrue /\ V!AsNode
    BY DEF ResolverInv, PathsTrue, TypesTrue, V!MemosTrue
  <1>3. LoaderInv /\ ResolverInv => LoadsAnew
    BY <1>1, <1>2 DEF LoadsAnew, LoaderInv, ReadsLatest, Latest, Untold, M!NextIsNew
  <1> QED BY <1>3, LoaderAgrees, ResolverAgrees, PTL
=============================================================================
