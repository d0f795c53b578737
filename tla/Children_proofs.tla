---------------------------- MODULE Children_proofs ----------------------------
(***************************************************************************)
(* What a program starts and what it is heard by, for any number of        *)
(* messages, sessions, attempts and calls: the end it is told of a         *)
(* process is the one that was, a thread hears what is posted to it, and   *)
(* the calls over a port are settled by their own answers.                 *)
(*                                                                         *)
(* Each part has an inductive invariant of its own, and a step of one      *)
(* leaves the others as they are (ChildrenInv).  Of a process: one poll is *)
(* outstanding (OnePoll), so that an exit, which is the last of its events *)
(* and true (Exits), is taken by whoever asks, or is on its way (Kept).    *)
(* Of a thread: its messages are numbered on from those that were heard    *)
(* (Numbered), and what runs is known to a page that has not ended         *)
(* (RunsKnown).  Of a session's attachment: whoever waits has something to *)
(* wait for, which is of the scope it asked for (Waits).  Of a port: every *)
(* message, and whatever is being handled, carries the number and the      *)
(* parts of the call it is of (TrueMessages), and those who wait are the   *)
(* ones an answer finds (Waiting).                                         *)
(***************************************************************************)
EXTENDS Children, TLAPS, FiniteSetTheorems, SequenceTheorems

-----------------------------------------------------------------------------
(* Sequences *)

\* The positions of a sequence after another element is put at its end.
LEMMA AppendAt ==
  ASSUME NEW D, NEW q \in Seq(D), NEW x \in D
  PROVE  /\ Append(q, x) \in Seq(D) /\ Append(q, x) # <<>>
         /\ Len(q) \in Nat /\ Len(Append(q, x)) = Len(q) + 1
         /\ DOMAIN q = 1..Len(q) /\ DOMAIN Append(q, x) = 1..(Len(q) + 1)
         /\ DOMAIN Append(q, x) = DOMAIN q \cup {Len(q) + 1}
         /\ \A i \in DOMAIN q : Append(q, x)[i] = q[i] /\ i \in Nat /\ i # Len(q) + 1 /\ i < Len(q) + 1
         /\ Append(q, x)[Len(q) + 1] = x
  <1>1. /\ Append(q, x) \in Seq(D) /\ Append(q, x) # <<>>
        /\ Len(Append(q, x)) = Len(q) + 1
        /\ \A i \in 1..Len(q) : Append(q, x)[i] = q[i]
        /\ Append(q, x)[Len(q) + 1] = x
    BY AppendProperties
  <1>2. Len(q) \in Nat /\ DOMAIN q = 1..Len(q)
    BY LenProperties
  <1>3. DOMAIN Append(q, x) = 1..Len(Append(q, x))
    BY <1>1, LenProperties
  <1> QED BY <1>1, <1>2, <1>3

\* The positions of a sequence after its first element is taken.
LEMMA TailAt ==
  ASSUME NEW D, NEW q \in Seq(D), q # <<>>
  PROVE  /\ Tail(q) \in Seq(D) /\ Head(q) \in D /\ Head(q) = q[1] /\ 1 \in DOMAIN q
         /\ Len(q) \in Nat /\ Len(Tail(q)) = Len(q) - 1
         /\ DOMAIN q = 1..Len(q) /\ DOMAIN Tail(q) = 1..(Len(q) - 1)
         /\ \A i \in DOMAIN Tail(q) : /\ Tail(q)[i] = q[i + 1] /\ i + 1 \in DOMAIN q
                                      /\ i \in Nat /\ i # 0
         /\ \A i \in DOMAIN q : i # 1 => i - 1 \in DOMAIN Tail(q) /\ Tail(q)[i - 1] = q[i]
  <1>1. /\ Tail(q) \in Seq(D) /\ Head(q) \in D /\ Head(q) = q[1]
        /\ Len(q) \in Nat /\ Len(q) # 0 /\ Len(Tail(q)) = Len(q) - 1
        /\ \A i \in 1..Len(Tail(q)) : Tail(q)[i] = q[i + 1]
    BY HeadTailProperties, LenProperties, EmptySeq
  <1>2. DOMAIN q = 1..Len(q) /\ DOMAIN Tail(q) = 1..Len(Tail(q))
    BY <1>1, LenProperties
  <1> QED BY <1>1, <1>2

-----------------------------------------------------------------------------
(* The session *)

Ats ==
  {"new", "refused", "failed", "awaiting", "looking", "registering", "registered", "connecting",
   "shaking", "attached", "detached"}

Attachings ==
  [at : Ats, promise : Nat, reg : Nat, since : SUBSET Nat, blind : BOOLEAN, tries : Nat]

Registrations == [state : {"registering", "activating", "done", "failed"}, reg : Nat]

SessionTypes ==
  /\ env \in [unsupported : BOOLEAN, outOfScope : BOOLEAN]
  /\ sessions \in [Sessions -> Attachings] /\ promises \in Seq(Registrations)
  /\ cached \in 0 .. Len(promises)
  /\ active \in Seq(BOOLEAN) /\ scope \in 0 .. Len(active)

\* A registration that was made is one of the browser's.
Granted(ps, n) ==
  \A p \in DOMAIN ps : ps[p].state \in {"activating", "done"} => ps[p].reg \in 1 .. n

\* Whoever waits has something to wait for.  Who looks may be told of what has the scope
\* now, and who registers of what its own promise was answered with.
Waits(s) ==
  /\ s.at \in {"awaiting", "registering"} => s.promise \in DOMAIN promises
  /\ s.at = "looking" => s.reg # 0
  /\ s.at \in {"awaiting", "looking"} => scope = 0 \/ scope \in s.since
  /\ s.at = "registering" /\ promises[s.promise].state \in {"activating", "done"} =>
       promises[s.promise].reg \in s.since

AttachInv ==
  /\ SessionTypes /\ A!NoFailureKept /\ A!OwnsItsScope
  /\ Granted(promises, Len(active)) /\ \A s \in Sessions : Waits(sessions[s])

\* A session's own step, which asks nothing anew: the others wait as they did.
LEMMA SessionMoves ==
  ASSUME AttachInv, NEW s \in Sessions, NEW n \in Attachings,
         sessions' = [sessions EXCEPT ![s] = n],
         UNCHANGED <<env, cached, promises, scope, active>>,
         n.at \in {"registered", "connecting", "shaking", "attached"} => n.reg \in n.since \/ n.blind,
         Waits(n)
  PROVE  AttachInv'
  <1>1. sessions' \in [Sessions -> Attachings] /\ sessions'[s] = n
        /\ \A t \in Sessions : t # s => sessions'[t] = sessions[t]
    BY DEF AttachInv, SessionTypes
  <1>2. SessionTypes' /\ A!NoFailureKept' /\ Granted(promises, Len(active))'
    BY <1>1 DEF AttachInv, SessionTypes, A!NoFailureKept, Granted
  <1>3. A!OwnsItsScope'
    BY <1>1 DEF AttachInv, A!OwnsItsScope
  <1>4. \A t \in Sessions : Waits(sessions[t])'
    BY <1>1 DEF AttachInv, Waits
  <1> QED BY <1>2, <1>3, <1>4 DEF AttachInv

\* A session that registers: its promise is the last, and is what is remembered.
LEMMA RegistersKeeps ==
  ASSUME AttachInv, NEW s \in Sessions, A!Registers(s), UNCHANGED <<env, scope, active>>
  PROVE  AttachInv'
  <1> DEFINE new == [state |-> "registering", reg |-> 0]
             n == [sessions[s] EXCEPT !.at = "registering", !.promise = Len(promises) + 1]
  <1>1. new \in Registrations /\ promises \in Seq(Registrations) /\ promises' = Append(promises, new)
    BY DEF AttachInv, SessionTypes, A!Registers, Registrations
  <1> HIDE DEF new
  <1>2. /\ promises' \in Seq(Registrations) /\ Len(promises) \in Nat
        /\ Len(promises') = Len(promises) + 1
        /\ DOMAIN promises' = DOMAIN promises \cup {Len(promises) + 1}
        /\ \A i \in DOMAIN promises : promises'[i] = promises[i]
        /\ promises'[Len(promises) + 1] = new
    BY <1>1, AppendAt
  <1>3. /\ sessions' \in [Sessions -> Attachings]
        /\ sessions'[s].at = "registering" /\ sessions'[s].promise = Len(promises) + 1
        /\ \A t \in Sessions : t # s => sessions'[t] = sessions[t]
    <2>0. sessions[s] \in Attachings /\ Len(promises) + 1 \in Nat
      BY <1>2 DEF AttachInv, SessionTypes
    <2>1. n \in Attachings
      BY <2>0 DEF Attachings, Ats
    <2>2. n.at = "registering" /\ n.promise = Len(promises) + 1
      BY DEF AttachInv, SessionTypes, Attachings
    <2>3. sessions' = [sessions EXCEPT ![s] = n]
      BY DEF AttachInv, SessionTypes, A!Registers
    <2> HIDE DEF n
    <2> QED BY <2>1, <2>2, <2>3 DEF AttachInv, SessionTypes
  <1>4. cached' = Len(promises) + 1 /\ new.state = "registering"
    BY DEF A!Registers, new
  <1>5. SessionTypes'
    BY <1>2, <1>3, <1>4 DEF AttachInv, SessionTypes
  <1>6. A!NoFailureKept' /\ Granted(promises, Len(active))'
    BY <1>2, <1>4 DEF AttachInv, A!NoFailureKept, Granted
  <1>7. A!OwnsItsScope'
    BY <1>3 DEF AttachInv, A!OwnsItsScope
  <1>8. \A t \in Sessions : Waits(sessions[t])'
    <2> SUFFICES ASSUME NEW t \in Sessions PROVE Waits(sessions[t])'
      OBVIOUS
    <2>1. CASE t = s
      BY <1>2, <1>3, <1>4, <2>1 DEF Waits
    <2>2. CASE t # s
      BY <1>2, <1>3, <2>2 DEF AttachInv, Waits
    <2> QED BY <2>1, <2>2
  <1> QED BY <1>5, <1>6, <1>7, <1>8 DEF AttachInv

\* What a session is, and the promise it waits for.
LEMMA SessionFields ==
  ASSUME AttachInv, NEW s \in Sessions
  PROVE  /\ sessions[s] \in Attachings /\ Waits(sessions[s])
         /\ sessions[s].at \in Ats /\ sessions[s].promise \in Nat /\ sessions[s].reg \in Nat
         /\ sessions[s].since \in SUBSET Nat /\ sessions[s].blind \in BOOLEAN
         /\ sessions[s].tries \in Nat
         /\ DOMAIN promises = 1 .. Len(promises) /\ Len(promises) \in Nat
         /\ DOMAIN active = 1 .. Len(active) /\ Len(active) \in Nat
         /\ scope \in Nat /\ cached \in Nat
         /\ \A p \in DOMAIN promises : promises[p] \in Registrations /\ promises[p].reg \in Nat
  <1>1. sessions[s] \in Attachings /\ Waits(sessions[s])
    BY DEF AttachInv, SessionTypes
  <1>2. /\ DOMAIN promises = 1 .. Len(promises) /\ Len(promises) \in Nat
        /\ DOMAIN active = 1 .. Len(active) /\ Len(active) \in Nat
        /\ \A p \in DOMAIN promises : promises[p] \in Registrations
    BY LenProperties, ElementOfSeq DEF AttachInv, SessionTypes
  <1>3. scope \in Nat /\ cached \in Nat
    BY <1>2 DEF AttachInv, SessionTypes
  <1> QED BY <1>1, <1>2, <1>3 DEF Attachings, Registrations

LEMMA BeginsKeeps ==
  ASSUME AttachInv, NEW s \in Sessions, A!Begins(s) PROVE AttachInv'
  <1>1. CASE env.unsupported
    <2> DEFINE n == [sessions[s] EXCEPT !.at = "refused"]
    <2>1. n \in Attachings /\ n.at = "refused" /\ Waits(n)
      BY SessionFields DEF Attachings, Ats, Waits
    <2>2. /\ sessions' = [sessions EXCEPT ![s] = n]
          /\ UNCHANGED <<env, cached, promises, scope, active>>
      BY <1>1 DEF A!Begins, A!Goes
    <2> HIDE DEF n
    <2> QED BY <2>1, <2>2, SessionMoves
  <1>2. CASE ~ env.unsupported /\ cached = 0
    BY <1>2, RegistersKeeps DEF A!Begins
  <1>3. CASE ~ env.unsupported /\ cached # 0
    <2> DEFINE n == [sessions[s] EXCEPT !.at = "awaiting", !.promise = cached, !.since = {scope}]
    <2>1. n \in Attachings /\ n.at = "awaiting" /\ n.promise = cached /\ n.since = {scope}
      BY SessionFields DEF Attachings, Ats
    <2>2. cached \in DOMAIN promises
      BY <1>3, SessionFields DEF AttachInv, SessionTypes
    <2>3. Waits(n)
      BY <2>1, <2>2 DEF Waits
    <2>4. /\ sessions' = [sessions EXCEPT ![s] = n]
          /\ UNCHANGED <<env, cached, promises, scope, active>>
      BY <1>3 DEF A!Begins, AttachInv, SessionTypes
    <2> HIDE DEF n
    <2> QED BY <2>1, <2>3, <2>4, SessionMoves
  <1> QED BY <1>1, <1>2, <1>3

LEMMA AwaitedKeeps ==
  ASSUME AttachInv, NEW s \in Sessions, A!Awaited(s) PROVE AttachInv'
  <1> DEFINE q == promises[sessions[s].promise]
  <1>1. CASE q.state = "failed"
    BY <1>1, RegistersKeeps DEF A!Awaited
  <1>2. CASE q.state # "failed"
    <2> DEFINE n == [sessions[s] EXCEPT !.at = "looking", !.reg = q.reg]
    <2>1. q \in Registrations /\ q.state = "done" /\ q.reg # 0 /\ q.reg \in Nat
          /\ sessions[s].at = "awaiting"
      BY <1>2, SessionFields DEF A!Awaited, AttachInv, Granted, Waits, Registrations
    <2> HIDE DEF q
    <2>2. n \in Attachings /\ n.at = "looking" /\ n.reg # 0 /\ n.since = sessions[s].since
      BY <2>1, SessionFields DEF Attachings, Ats
    <2>3. Waits(n)
      BY <2>1, <2>2, SessionFields DEF Waits
    <2>4. /\ sessions' = [sessions EXCEPT ![s] = n]
          /\ UNCHANGED <<env, cached, promises, scope, active>>
      BY <1>2 DEF A!Awaited, AttachInv, SessionTypes, q
    <2> HIDE DEF n
    <2> QED BY <2>2, <2>3, <2>4, SessionMoves
  <1> QED BY <1>1, <1>2

\* What had the scope while it looked is what it goes on with, or it could not be told.
LEMMA LookedKeeps ==
  ASSUME AttachInv, NEW s \in Sessions, A!Looked(s) PROVE AttachInv'
  <1>1. CASE A!Registers(s)
    BY <1>1, RegistersKeeps DEF A!Looked
  <1>2. CASE scope = sessions[s].reg /\ A!Goes(s, "registered") /\ UNCHANGED <<cached, promises>>
    <2> DEFINE n == [sessions[s] EXCEPT !.at = "registered"]
    <2>1. sessions[s].reg \in sessions[s].since
      BY <1>2, SessionFields DEF A!Looked, Waits
    <2>2. /\ n \in Attachings /\ n.at = "registered" /\ n.reg = sessions[s].reg
          /\ n.since = sessions[s].since
      BY SessionFields DEF Attachings, Ats
    <2>3. /\ sessions' = [sessions EXCEPT ![s] = n]
          /\ UNCHANGED <<env, cached, promises, scope, active>>
      BY <1>2 DEF A!Looked, A!Goes, AttachInv, SessionTypes
    <2> HIDE DEF n
    <2>4. Waits(n)
      BY <2>2 DEF Waits
    <2> QED BY <2>1, <2>2, <2>3, <2>4, SessionMoves
  <1>3. CASE /\ sessions' = [sessions EXCEPT ![s].at = "registered", ![s].blind = TRUE]
             /\ UNCHANGED <<cached, promises>>
    <2> DEFINE n == [sessions[s] EXCEPT !.at = "registered", !.blind = TRUE]
    <2>1. n \in Attachings /\ n.at = "registered" /\ n.blind
      BY SessionFields DEF Attachings, Ats
    <2>2. /\ sessions' = [sessions EXCEPT ![s] = n]
          /\ UNCHANGED <<env, cached, promises, scope, active>>
      BY <1>3 DEF A!Looked, AttachInv, SessionTypes
    <2> HIDE DEF n
    <2>3. Waits(n)
      BY <2>1 DEF Waits
    <2> QED BY <2>1, <2>2, <2>3, SessionMoves
  <1> QED BY <1>1, <1>2, <1>3 DEF A!Looked

LEMMA AnsweredKeeps ==
  ASSUME AttachInv, NEW s \in Sessions, A!Answered(s) PROVE AttachInv'
  <1> DEFINE q == promises[sessions[s].promise]
             n == [sessions[s] EXCEPT !.at = IF q.state = "done" THEN "registered" ELSE "failed",
                                      !.reg = q.reg]
  <1>1. q \in Registrations /\ q.reg \in Nat /\ sessions[s].at = "registering"
        /\ (q.state = "done" => q.reg \in sessions[s].since)
    BY SessionFields DEF A!Answered, Waits, Registrations
  <1>2. /\ sessions' = [sessions EXCEPT ![s] = n]
        /\ UNCHANGED <<env, cached, promises, scope, active>>
    BY DEF A!Answered, AttachInv, SessionTypes
  <1> HIDE DEF q
  <1>3. /\ n \in Attachings /\ n.at \in {"registered", "failed"} /\ n.reg = q.reg
        /\ n.since = sessions[s].since /\ (n.at = "registered" => q.state = "done")
    BY <1>1, SessionFields DEF Attachings, Ats
  <1> HIDE DEF n
  <1>4. Waits(n)
    BY <1>3 DEF Waits
  <1> QED BY <1>1, <1>2, <1>3, <1>4, SessionMoves

\* From its registration to its attachment a session has the registration it was given.
LEMMA GoesOnKeeps ==
  ASSUME AttachInv, NEW s \in Sessions,
         A!Checked(s) \/ A!Connects(s) \/ A!Shaken(s) \/ A!Detaches(s)
  PROVE  AttachInv'
  <1>1. PICK n \in Attachings :
          /\ sessions' = [sessions EXCEPT ![s] = n]
          /\ n.at \in {"refused", "failed", "connecting", "shaking", "attached", "detached"}
          /\ n.reg = sessions[s].reg /\ n.since = sessions[s].since /\ n.blind = sessions[s].blind
    <2>0. sessions \in [Sessions -> Attachings] /\ sessions[s] \in Attachings
      BY DEF AttachInv, SessionTypes
    <2>1. ASSUME NEW a \in {"refused", "failed", "connecting", "shaking", "attached", "detached"},
                 sessions' = [sessions EXCEPT ![s].at = a]
                   \/ sessions' = [sessions EXCEPT ![s].tries = @ + 1, ![s].at = a]
          PROVE  \E n \in Attachings :
                   /\ sessions' = [sessions EXCEPT ![s] = n] /\ n.at = a
                   /\ n.reg = sessions[s].reg /\ n.since = sessions[s].since
                   /\ n.blind = sessions[s].blind
      <3>1. CASE sessions' = [sessions EXCEPT ![s].at = a]
        <4> DEFINE n == [sessions[s] EXCEPT !.at = a]
        <4>1. n \in Attachings /\ n.at = a /\ n.reg = sessions[s].reg
              /\ n.since = sessions[s].since /\ n.blind = sessions[s].blind
          BY <2>0, SessionFields DEF Attachings, Ats
        <4>2. sessions' = [sessions EXCEPT ![s] = n]
          BY <2>0, <3>1
        <4> HIDE DEF n
        <4> QED BY <4>1, <4>2
      <3>2. CASE sessions' = [sessions EXCEPT ![s].tries = @ + 1, ![s].at = a]
        <4> DEFINE n == [sessions[s] EXCEPT !.tries = @ + 1, !.at = a]
        <4>0. sessions[s].tries + 1 \in Nat /\ a \in Ats
          BY SessionFields DEF Ats
        <4>1. n \in Attachings /\ n.at = a /\ n.reg = sessions[s].reg
              /\ n.since = sessions[s].since /\ n.blind = sessions[s].blind
          BY <2>0, <4>0 DEF Attachings
        <4>2. sessions' = [sessions EXCEPT ![s] = n]
          BY <2>0, <3>2
        <4> HIDE DEF n
        <4> QED BY <4>1, <4>2
      <3> QED BY <2>1, <3>1, <3>2
    <2>2. \E a \in {"refused", "failed", "connecting", "shaking", "attached", "detached"} :
            sessions' = [sessions EXCEPT ![s].at = a]
              \/ sessions' = [sessions EXCEPT ![s].tries = @ + 1, ![s].at = a]
      BY DEF A!Checked, A!Connects, A!Shaken, A!Detaches, A!Goes
    <2> QED BY <2>1, <2>2
  <1>2. UNCHANGED <<env, cached, promises, scope, active>>
    BY DEF A!Checked, A!Connects, A!Shaken, A!Detaches
  <1>3. sessions[s].at \in {"registered", "connecting", "shaking", "attached"}
    BY DEF A!Checked, A!Connects, A!Shaken, A!Detaches
  <1>4. n.reg \in n.since \/ n.blind
    BY <1>1, <1>3 DEF AttachInv, A!OwnsItsScope
  <1>5. Waits(n)
    BY <1>1 DEF Waits
  <1> QED BY <1>1, <1>2, <1>4, <1>5, SessionMoves

\* A promise that fails is forgotten by the page, and whoever waits for it is told.
LEMMA PromiseFails ==
  ASSUME AttachInv, NEW p \in DOMAIN promises, NEW n \in Registrations, n.state = "failed",
         promises' = [promises EXCEPT ![p] = n], cached' = 0,
         UNCHANGED <<env, sessions, scope, active>>
  PROVE  AttachInv'
  <1>1. promises \in Seq(Registrations)
    BY DEF AttachInv, SessionTypes
  <1>2. /\ promises' \in Seq(Registrations) /\ Len(promises') = Len(promises)
        /\ DOMAIN promises' = DOMAIN promises /\ promises'[p] = n
        /\ \A i \in DOMAIN promises : i # p => promises'[i] = promises[i]
    BY <1>1, LenProperties, ExceptSeq
  <1>3. cached' \in 0 .. Len(promises)
    BY <1>1, LenProperties
  <1>4. SessionTypes' /\ A!NoFailureKept' /\ A!OwnsItsScope'
    BY <1>2, <1>3 DEF AttachInv, SessionTypes, A!NoFailureKept, A!OwnsItsScope
  <1>5. Granted(promises, Len(active))'
    BY <1>2 DEF AttachInv, Granted
  <1>6. \A t \in Sessions : Waits(sessions[t])'
    BY <1>2 DEF AttachInv, Waits
  <1> QED BY <1>4, <1>5, <1>6 DEF AttachInv

\* The browser grants a registration, and whoever looks or registers is known to have asked.
LEMMA RegisteredKeeps ==
  ASSUME AttachInv, NEW p \in DOMAIN promises, A!Registered(p) PROVE AttachInv'
  <1>0. /\ DOMAIN promises = 1 .. Len(promises) /\ Len(promises) \in Nat
        /\ promises \in Seq(Registrations) /\ active \in Seq(BOOLEAN) /\ scope \in 0 .. Len(active)
        /\ Len(active) \in Nat /\ cached \in 0 .. Len(promises)
        /\ promises[p] \in Registrations /\ promises[p].state = "registering"
    BY LenProperties, ElementOfSeq DEF AttachInv, SessionTypes, A!Registered
  <1>1. CASE A!Fails(p) /\ UNCHANGED <<sessions, scope, active>>
    <2> DEFINE n == [promises[p] EXCEPT !.state = "failed"]
    <2>1. n \in Registrations /\ n.state = "failed"
      BY <1>0 DEF Registrations
    <2>2. promises' = [promises EXCEPT ![p] = n] /\ cached' = 0 /\ UNCHANGED env
      BY <1>0, <1>1 DEF A!Registered, A!Fails
    <2> HIDE DEF n
    <2> QED BY <1>1, <2>1, <2>2, PromiseFails
  <1>2. CASE ~ (A!Fails(p) /\ UNCHANGED <<sessions, scope, active>>)
    <2> DEFINE reg == IF scope # 0 THEN scope ELSE Len(active) + 1
               n == [state |-> "activating", reg |-> reg]
    <2>1. /\ promises' = [promises EXCEPT ![p] = n]
          /\ scope' = reg /\ active' = (IF scope # 0 THEN active ELSE Append(active, FALSE))
          /\ sessions' = [t \in Sessions |-> [sessions[t] EXCEPT !.since = @ \cup {reg}]]
          /\ cached' = cached /\ UNCHANGED env
      BY <1>2 DEF A!Registered
    <2>2. reg \in Nat /\ reg # 0 /\ n \in Registrations /\ n.state = "activating" /\ n.reg = reg
      BY <1>0 DEF Registrations
    <2>3. /\ active' \in Seq(BOOLEAN) /\ Len(active') \in Nat /\ Len(active) <= Len(active')
          /\ reg \in 1 .. Len(active')
      <3>1. CASE scope # 0
        BY <1>0, <2>1, <3>1
      <3>2. CASE scope = 0
        <4>1. active' \in Seq(BOOLEAN) /\ Len(active') = Len(active) + 1
          BY <1>0, <2>1, <3>2, AppendProperties
        <4> QED BY <1>0, <3>2, <4>1
      <3> QED BY <3>1, <3>2
    <2> HIDE DEF reg
    <2> HIDE DEF n
    <2>4. /\ promises' \in Seq(Registrations) /\ Len(promises') = Len(promises)
          /\ DOMAIN promises' = DOMAIN promises /\ promises'[p] = n
          /\ \A i \in DOMAIN promises : i # p => promises'[i] = promises[i]
      BY <1>0, <2>1, <2>2, ExceptSeq
    <2>5. /\ sessions' \in [Sessions -> Attachings]
          /\ \A t \in Sessions :
               /\ sessions'[t].at = sessions[t].at /\ sessions'[t].promise = sessions[t].promise
               /\ sessions'[t].reg = sessions[t].reg /\ sessions'[t].blind = sessions[t].blind
               /\ sessions'[t].since = sessions[t].since \cup {reg}
      BY <2>1, <2>2 DEF AttachInv, SessionTypes, Attachings
    <2>6. SessionTypes'
      <3>1. scope' \in 0 .. Len(active') /\ cached' \in 0 .. Len(promises')
        BY <1>0, <2>1, <2>3, <2>4
      <3> QED BY <2>1, <2>3, <2>4, <2>5, <3>1 DEF AttachInv, SessionTypes
    <2>7. A!NoFailureKept' /\ A!OwnsItsScope'
      BY <1>0, <2>1, <2>2, <2>4, <2>5 DEF AttachInv, A!NoFailureKept, A!OwnsItsScope
    <2>8. Granted(promises, Len(active))'
      BY <1>0, <2>2, <2>3, <2>4 DEF AttachInv, Granted
    <2>9. \A t \in Sessions : Waits(sessions[t])'
      BY <2>1, <2>2, <2>4, <2>5 DEF AttachInv, Waits
    <2> QED BY <2>6, <2>7, <2>8, <2>9 DEF AttachInv
  <1> QED BY <1>1, <1>2

LEMMA ActivatedKeeps ==
  ASSUME AttachInv, NEW p \in DOMAIN promises, A!Activated(p) PROVE AttachInv'
  <1>0. /\ promises \in Seq(Registrations) /\ promises[p] \in Registrations
        /\ promises[p].state = "activating"
        /\ DOMAIN promises = 1 .. Len(promises)
    BY LenProperties, ElementOfSeq DEF AttachInv, SessionTypes, A!Activated
  <1>1. UNCHANGED <<env, sessions, scope, active>>
    BY DEF A!Activated
  <1>2. CASE A!Fails(p)
    <2> DEFINE n == [promises[p] EXCEPT !.state = "failed"]
    <2>1. n \in Registrations /\ n.state = "failed"
      BY <1>0 DEF Registrations
    <2>2. promises' = [promises EXCEPT ![p] = n] /\ cached' = 0
      BY <1>0, <1>2 DEF A!Fails
    <2> HIDE DEF n
    <2> QED BY <1>1, <2>1, <2>2, PromiseFails
  <1>3. CASE promises' = [promises EXCEPT ![p].state = "done"] /\ cached' = cached
    <2> DEFINE n == [promises[p] EXCEPT !.state = "done"]
    <2>1. n \in Registrations /\ n.state = "done" /\ n.reg = promises[p].reg
      BY <1>0 DEF Registrations
    <2>2. promises' = [promises EXCEPT ![p] = n]
      BY <1>0, <1>3
    <2> HIDE DEF n
    <2>3. /\ promises' \in Seq(Registrations) /\ Len(promises') = Len(promises)
          /\ DOMAIN promises' = DOMAIN promises /\ promises'[p] = n
          /\ \A i \in DOMAIN promises : i # p => promises'[i] = promises[i]
      BY <1>0, <2>1, <2>2, ExceptSeq
    <2>4. SessionTypes' /\ A!NoFailureKept' /\ A!OwnsItsScope'
      BY <1>1, <1>3, <2>1, <2>3 DEF AttachInv, SessionTypes, A!NoFailureKept, A!OwnsItsScope
    <2>5. Granted(promises, Len(active))'
      BY <1>0, <1>1, <2>1, <2>3 DEF AttachInv, Granted
    <2>6. \A t \in Sessions : Waits(sessions[t])'
      BY <1>0, <1>1, <2>1, <2>3 DEF AttachInv, Waits
    <2> QED BY <2>4, <2>5, <2>6 DEF AttachInv
  <1> QED BY <1>2, <1>3 DEF A!Activated

\* Workers become active and the scope is lost: nothing that was asked is changed by it.
LEMMA BrowserKeeps ==
  ASSUME AttachInv, A!Installs \/ A!Loses PROVE AttachInv'
  <1>1. /\ UNCHANGED <<env, sessions, cached, promises>> /\ scope # 0
        /\ scope' = scope \/ scope' = 0
        /\ \E b \in BOOLEAN : active' = [active EXCEPT ![scope] = b]
    <2>1. CASE A!Installs
      BY <2>1 DEF A!Installs
    <2>2. CASE A!Loses
      <3>1. scope # 0 /\ scope' = 0 /\ UNCHANGED <<env, sessions, cached, promises>>
        BY <2>2 DEF A!Loses
      <3>2. PICK still \in BOOLEAN : active' = [active EXCEPT ![scope] = active[scope] /\ still]
        BY <2>2 DEF A!Loses
      <3>3. (active[scope] /\ still) \in BOOLEAN
        OBVIOUS
      <3> QED BY <3>1, <3>2, <3>3
    <2> QED BY <2>1, <2>2
  <1>2. active \in Seq(BOOLEAN) /\ Len(active) \in Nat /\ scope \in 0 .. Len(active)
    BY LenProperties DEF AttachInv, SessionTypes
  <1>3. scope \in 1 .. Len(active)
    BY <1>1, <1>2
  <1>4. active' \in Seq(BOOLEAN) /\ Len(active') = Len(active)
    BY <1>1, <1>2, <1>3, ExceptSeq
  <1>5. SessionTypes' /\ A!NoFailureKept' /\ A!OwnsItsScope' /\ Granted(promises, Len(active))'
    BY <1>1, <1>2, <1>4
       DEF AttachInv, SessionTypes, A!NoFailureKept, A!OwnsItsScope, Granted
  <1>6. \A t \in Sessions : Waits(sessions[t])'
    BY <1>1 DEF AttachInv, Waits
  <1> QED BY <1>5, <1>6 DEF AttachInv

LEMMA AttachStarts ==
  ASSUME A!Init PROVE AttachInv
  <1>1. /\ sessions \in [Sessions -> Attachings] /\ \A s \in Sessions : sessions[s].at = "new"
    BY DEF A!Init, Attachings, Ats
  <1>2. /\ env \in [unsupported : BOOLEAN, outOfScope : BOOLEAN] /\ cached = 0 /\ scope = 0
        /\ promises = <<>> /\ active = <<>>
    BY DEF A!Init
  <1>3. promises \in Seq(Registrations) /\ active \in Seq(BOOLEAN)
        /\ Len(promises) = 0 /\ Len(active) = 0 /\ \A p : p \notin DOMAIN promises
    BY <1>2, EmptySeq
  <1>4. cached \in 0 .. Len(promises) /\ scope \in 0 .. Len(active)
    BY <1>2, <1>3
  <1> QED BY <1>1, <1>2, <1>3, <1>4
          DEF AttachInv, SessionTypes, A!NoFailureKept, A!OwnsItsScope, Granted, Waits

LEMMA AttachSteps ==
  ASSUME AttachInv, A!Next PROVE AttachInv'
  BY BeginsKeeps, AwaitedKeeps, LookedKeeps, AnsweredKeeps, GoesOnKeeps, RegisteredKeeps,
     ActivatedKeeps, BrowserKeeps DEF A!Next, A!Page, A!Browser

-----------------------------------------------------------------------------
(* The standard input *)

\* The record of process.stdin, whatever it holds.
Inputlike(s) ==
  s \in [reading : BOOLEAN, ended : BOOLEAN, paused : BOOLEAN, unrefed : BOOLEAN, refed : BOOLEAN,
         buffer : {s.buffer}]

HoldInv == Inputlike(tty) /\ S!StdinHolds

\* What was made to hold the run open as it should is so.
LEMMA KeptHolds ==
  ASSUME NEW s, Inputlike(s) PROVE Inputlike(S!Kept(s)) /\ S!Kept(S!Kept(s)) = S!Kept(s)
  <1> DEFINE h == s.reading /\ ~ s.paused /\ ~ s.ended /\ ~ s.unrefed
  <1>1. S!Kept(s) = [reading |-> s.reading, ended |-> s.ended, paused |-> s.paused,
                     unrefed |-> s.unrefed, refed |-> h, buffer |-> s.buffer]
    BY DEF Inputlike, S!Kept
  <1>2. h \in BOOLEAN
    OBVIOUS
  <1> QED BY <1>1, <1>2 DEF Inputlike, S!Kept

LEMMA HoldSteps ==
  ASSUME HoldInv, S!Next PROVE HoldInv'
  <1>1. UNCHANGED tty => HoldInv'
    BY DEF HoldInv, Inputlike, S!StdinHolds, S!Kept
  <1>2. ASSUME NEW s, Inputlike(s), tty' = S!Kept(s) PROVE HoldInv'
    <2>1. Inputlike(S!Kept(s)) /\ S!Kept(S!Kept(s)) = S!Kept(s)
      BY <1>2, KeptHolds
    <2> QED BY <1>2, <2>1 DEF HoldInv, S!StdinHolds, Inputlike, S!Kept
  <1>3. ASSUME S!StreamRead PROVE HoldInv'
    <2>1. Inputlike([tty EXCEPT !.reading = TRUE])
      BY DEF HoldInv, Inputlike
    <2> QED BY <1>2, <1>3, <2>1 DEF S!StreamRead
  <1>4. ASSUME NEW a, S!OnStreamAnswer(a) PROVE HoldInv'
    <2>1. Inputlike([tty EXCEPT !.ended = TRUE, !.reading = FALSE])
      BY DEF HoldInv, Inputlike
    <2>2. ASSUME NEW b, NEW more \in BOOLEAN
          PROVE  Inputlike([tty EXCEPT !.buffer = b, !.reading = more])
      BY DEF HoldInv, Inputlike
    <2>3. CASE a.eof
      BY <1>2, <1>4, <2>1, <2>3 DEF S!OnStreamAnswer
    <2>4. CASE ~ a.eof
      <3> DEFINE more == Len(tty.buffer) + Len(a.bytes) < HighWater
                 b == tty.buffer \o a.bytes
      <3>1. tty' = S!Kept([tty EXCEPT !.buffer = b, !.reading = more])
        BY <1>4, <2>4 DEF S!OnStreamAnswer
      <3>2. more \in BOOLEAN
        OBVIOUS
      <3> HIDE DEF more
      <3> HIDE DEF b
      <3> QED BY <1>2, <2>2, <3>1, <3>2
    <2> QED BY <2>3, <2>4
  <1>5. ASSUME S!OnAnswer PROVE HoldInv'
    <2>1. UNCHANGED tty \/ \E a : S!OnStreamAnswer(a)
      BY <1>5 DEF S!OnAnswer
    <2> QED BY <1>1, <1>4, <2>1
  <1>6. ASSUME S!Consume PROVE HoldInv'
    BY <1>6 DEF S!Consume, HoldInv, Inputlike, S!StdinHolds, S!Kept
  <1>7. ASSUME S!PauseOrUnref PROVE HoldInv'
    <2>1. /\ Inputlike([tty EXCEPT !.paused = ~ tty.paused])
          /\ Inputlike([tty EXCEPT !.unrefed = ~ tty.unrefed])
      BY DEF HoldInv, Inputlike
    <2> QED BY <1>2, <1>7, <2>1 DEF S!PauseOrUnref
  <1>8. \/ UNCHANGED tty \/ S!StreamRead \/ S!OnAnswer \/ S!Consume \/ S!PauseOrUnref
    BY DEF S!Next, S!Machine, S!Readers, S!Consumer, S!ReadStdio, S!ReaderRead, S!CloseEnds, S!Take,
           S!HearEnd, S!CloseInput, S!CloseStdio, S!Type, S!ReadSync, S!WriteStdio
  <1> QED BY <1>1, <1>3, <1>5, <1>6, <1>7, <1>8

LEMMA HoldStarts ==
  ASSUME S!Init PROVE HoldInv
  <1>1. /\ tty = [reading |-> FALSE, ended |-> FALSE, paused |-> TRUE, unrefed |-> FALSE,
                 refed |-> FALSE, buffer |-> <<>>]
    BY DEF S!Init
  <1>2. Inputlike(tty) /\ ~ tty.reading /\ tty.refed = FALSE
    BY <1>1 DEF Inputlike
  <1>3. [tty EXCEPT !.refed = FALSE] = tty
    BY <1>2 DEF Inputlike
  <1>4. S!Kept(tty) = [tty EXCEPT !.refed = FALSE]
    BY <1>2 DEF S!Kept
  <1> QED BY <1>2, <1>3, <1>4 DEF HoldInv, S!StdinHolds

-----------------------------------------------------------------------------
(* The thread *)

Objects ==
  [state : {"starting", "online", "finished"}, known : BOOLEAN, port : BOOLEAN, heeds : BOOLEAN,
   asked : BOOLEAN, stopping : BOOLEAN, posted : Nat, queued : Seq(Nat), out : Nat,
   told : {None, "exit", "failed", "stopped"}, exits : Nat]

ParentPages ==
  [terminated : BOOLEAN,
   spawn : {"none", "sibling", "placing", "done", "ending", "over", "failed"},
   threads : BOOLEAN, pulled : Nat]

Siblings ==
  [state : {"none", "made", "runs", "ended", "crashed", "dead"}, early : BOOLEAN,
   listens : BOOLEAN, said : Nat, heard : Seq(Nat), missed : Nat]

ThreadTypes ==
  /\ obj \in Objects /\ page \in ParentPages /\ thread \in Siblings
  /\ toPage \in Seq({"spawn", "terminate"}) /\ toParent \in Seq({"spawned", "failed", "stopped"})
  /\ data \in Seq(Nat)

\* The page is asked for one thread, and answers that it is there once.
SpawnedOnce(kn, at, tp, tr) ==
  /\ \A i \in DOMAIN tp : tp[i] = "spawn" => i = 1 /\ at = "none"
  /\ kn => at \in {"done", "ending", "over"}
  /\ \A i \in DOMAIN tr : tr[i] = "spawned" => ~ kn /\ at \in {"done", "ending", "over"}
  /\ \A i, j \in DOMAIN tr : tr[i] = "spawned" /\ tr[j] = "spawned" => i = j

\* A thread that runs is one the page knows of, and its page has not ended.
RunsKnown(pg, th) == th.state = "runs" => pg.spawn = "done" /\ pg.threads /\ ~ pg.terminated

\* The messages are numbered on from those that were heard or missed, and what waits for the
\* thread from the first.
Numbered(o, th, d) ==
  /\ \A j \in DOMAIN d : d[j] = Len(th.heard) + th.missed + j
  /\ o.port => Len(th.heard) + th.missed + Len(d) = o.posted
  /\ th.early => th.listens /\ th.missed = 0 /\ \A i \in DOMAIN th.heard : th.heard[i] = i
  /\ ~ o.known => /\ ~ o.port /\ d = <<>> /\ th.heard = <<>> /\ th.missed = 0
                  /\ Len(o.queued) = o.posted /\ \A i \in DOMAIN o.queued : o.queued[i] = i

ThreadInv ==
  /\ ThreadTypes /\ SpawnedOnce(obj.known, page.spawn, toPage, toParent)
  /\ RunsKnown(page, thread) /\ Numbered(obj, thread, data)

\* What the records of the thread are made of.
LEMMA ThreadFields ==
  ASSUME ThreadInv
  PROVE  /\ obj \in Objects /\ page \in ParentPages /\ thread \in Siblings
         /\ toPage \in Seq({"spawn", "terminate"})
         /\ toParent \in Seq({"spawned", "failed", "stopped"}) /\ data \in Seq(Nat)
         /\ obj.known \in BOOLEAN /\ obj.port \in BOOLEAN /\ obj.posted \in Nat
         /\ obj.queued \in Seq(Nat)
         /\ page.terminated \in BOOLEAN /\ page.threads \in BOOLEAN /\ page.pulled \in Nat
         /\ thread.early \in BOOLEAN /\ thread.listens \in BOOLEAN /\ thread.said \in Nat
         /\ thread.heard \in Seq(Nat) /\ thread.missed \in Nat
         /\ Len(thread.heard) \in Nat /\ Len(data) \in Nat /\ Len(obj.queued) \in Nat
         /\ DOMAIN data = 1 .. Len(data) /\ DOMAIN thread.heard = 1 .. Len(thread.heard)
  <1>1. /\ obj \in Objects /\ page \in ParentPages /\ thread \in Siblings
        /\ toPage \in Seq({"spawn", "terminate"})
        /\ toParent \in Seq({"spawned", "failed", "stopped"}) /\ data \in Seq(Nat)
    BY DEF ThreadInv, ThreadTypes
  <1>2. thread.heard \in Seq(Nat) /\ obj.queued \in Seq(Nat)
    BY <1>1 DEF Objects, Siblings
  <1> QED BY <1>1, <1>2, LenProperties DEF Objects, ParentPages, Siblings

\* Finish tells of the end, and takes nothing but the port away.
LEMMA FinishKeeps ==
  ASSUME NEW o \in Objects, NEW code \in {"exit", "failed", "stopped"}
  PROVE  /\ T!Finish(o, code) \in Objects
         /\ T!Finish(o, code).known = o.known /\ T!Finish(o, code).posted = o.posted
         /\ T!Finish(o, code).queued = o.queued /\ (T!Finish(o, code).port => o.port)
  <1>1. CASE how.of = "worker" /\ o.state = "finished"
    BY <1>1 DEF T!Finish, Objects
  <1>2. CASE ~ (how.of = "worker" /\ o.state = "finished")
    <2>1. o.exits + 1 \in Nat
      BY DEF Objects
    <2>2. T!Finish(o, code) =
            [o EXCEPT !.state = "finished", !.told = code, !.exits = o.exits + 1,
                      !.heeds = FALSE, !.port = FALSE]
      BY <1>2 DEF T!Finish
    <2> QED BY <2>1, <2>2 DEF Objects
  <1> QED BY <1>1, <1>2

\* A step of the parent that posts nothing.
LEMMA ParentKeeps ==
  ASSUME ThreadInv, NEW o \in Objects, obj' = o, o.known = obj.known, o.posted = obj.posted,
         o.queued = obj.queued, o.port => obj.port,
         UNCHANGED <<page, thread, data>>,
         toPage' = toPage \/ toPage' = Append(toPage, "terminate"),
         toParent' = toParent \/ (toParent # <<>> /\ toParent' = Tail(toParent))
  PROVE  ThreadInv'
  <1>1. /\ toPage' \in Seq({"spawn", "terminate"})
        /\ \A i \in DOMAIN toPage' : toPage'[i] = "spawn" => i \in DOMAIN toPage /\ toPage[i] = "spawn"
    <2>1. CASE toPage' = toPage
      BY <2>1, ThreadFields
    <2>2. CASE toPage' = Append(toPage, "terminate")
      BY <2>2, ThreadFields, AppendAt
    <2> QED BY <2>1, <2>2
  <1>2. /\ toParent' \in Seq({"spawned", "failed", "stopped"})
        /\ \E k \in {0, 1} : \A i \in DOMAIN toParent' :
             i \in Nat /\ i + k \in DOMAIN toParent /\ toParent'[i] = toParent[i + k]
    <2>1. CASE toParent' = toParent
      <3>1. DOMAIN toParent = 1 .. Len(toParent) /\ Len(toParent) \in Nat
        BY ThreadFields, LenProperties
      <3>2. \A i \in 1 .. Len(toParent) : i \in Nat /\ i + 0 = i
        BY <3>1
      <3> QED BY <2>1, <3>1, <3>2, ThreadFields
    <2>2. CASE toParent # <<>> /\ toParent' = Tail(toParent)
      BY <2>2, ThreadFields, TailAt
    <2> QED BY <2>1, <2>2
  <1>3. SpawnedOnce(o.known, page.spawn, toPage', toParent')
    <2>1. PICK k \in {0, 1} : \A i \in DOMAIN toParent' :
             i \in Nat /\ i + k \in DOMAIN toParent /\ toParent'[i] = toParent[i + k]
      BY <1>2
    <2>2. \A i, j \in Nat : i + k = j + k => i = j
      OBVIOUS
    <2> QED BY <1>1, <2>1, <2>2 DEF ThreadInv, SpawnedOnce
  <1>4. Numbered(o, thread, data)
    BY DEF ThreadInv, Numbered
  <1> QED BY <1>1, <1>2, <1>3, <1>4 DEF ThreadInv, ThreadTypes

LEMMA PostKeeps ==
  ASSUME ThreadInv, T!Post PROVE ThreadInv'
  <1> DEFINE n == obj.posted + 1
  <1>0. n \in Nat /\ UNCHANGED <<page, thread, toPage, toParent>>
    BY ThreadFields DEF T!Post
  <1>1. CASE obj.port
    <2>1. obj' = [obj EXCEPT !.posted = n] /\ data' = Append(data, n)
      BY <1>1 DEF T!Post
    <2> HIDE DEF n
    <2>2. /\ obj' \in Objects /\ obj'.posted = n /\ obj'.known = obj.known /\ obj'.port
          /\ obj'.queued = obj.queued
      BY <1>0, <1>1, <2>1, ThreadFields DEF Objects
    <2>3. /\ data' \in Seq(Nat) /\ Len(data') = Len(data) + 1 /\ data'[Len(data) + 1] = n
          /\ DOMAIN data' = DOMAIN data \cup {Len(data) + 1}
          /\ \A j \in DOMAIN data : data'[j] = data[j]
      BY <1>0, <2>1, ThreadFields, AppendAt
    <2>4. obj.known /\ Len(thread.heard) + thread.missed + (Len(data) + 1) = n
      <3>1. obj.known /\ Len(thread.heard) + thread.missed + Len(data) = obj.posted
        BY <1>1 DEF ThreadInv, Numbered
      <3>2. /\ Len(thread.heard) \in Nat /\ thread.missed \in Nat /\ Len(data) \in Nat
            /\ obj.posted \in Nat
        BY ThreadFields
      <3> QED BY <3>1, <3>2 DEF n
    <2>5. Numbered(obj', thread, data')
      BY <2>2, <2>3, <2>4 DEF ThreadInv, Numbered
    <2> QED BY <1>0, <2>2, <2>3, <2>5 DEF ThreadInv, ThreadTypes
  <1>2. CASE ~ obj.port
    <2>1. obj' = [obj EXCEPT !.posted = n, !.queued = Append(obj.queued, n)] /\ data' = data
      BY <1>2 DEF T!Post
    <2> HIDE DEF n
    <2>2. /\ Append(obj.queued, n) \in Seq(Nat) /\ Len(Append(obj.queued, n)) = Len(obj.queued) + 1
          /\ DOMAIN Append(obj.queued, n) = DOMAIN obj.queued \cup {Len(obj.queued) + 1}
          /\ \A i \in DOMAIN obj.queued : Append(obj.queued, n)[i] = obj.queued[i]
          /\ Append(obj.queued, n)[Len(obj.queued) + 1] = n
      <3>1. obj.queued \in Seq(Nat) /\ n \in Nat
        BY <1>0, ThreadFields
      <3> DEFINE q == obj.queued
      <3>2. q \in Seq(Nat) /\ n \in Nat
        BY <3>1
      <3> HIDE DEF q
      <3>3. /\ Append(q, n) \in Seq(Nat) /\ Len(Append(q, n)) = Len(q) + 1
            /\ DOMAIN Append(q, n) = DOMAIN q \cup {Len(q) + 1}
            /\ \A i \in DOMAIN q : Append(q, n)[i] = q[i]
            /\ Append(q, n)[Len(q) + 1] = n
        BY ONLY <3>2, AppendAt
      <3> QED BY <3>3 DEF q
    <2>3. /\ obj' \in Objects /\ obj'.posted = n /\ obj'.known = obj.known /\ ~ obj'.port
          /\ obj'.queued = Append(obj.queued, n)
      <3> DEFINE q == Append(obj.queued, n)
      <3>1. q \in Seq(Nat) /\ n \in Nat /\ obj \in Objects
        BY <1>0, <2>2, ThreadFields
      <3>2. obj' = [obj EXCEPT !.posted = n, !.queued = q]
        BY <2>1
      <3> HIDE DEF q
      <3>3. obj' \in Objects /\ obj'.posted = n /\ obj'.queued = q
        BY <3>1, <3>2 DEF Objects
      <3>4. obj'.known = obj.known /\ obj'.port = obj.port
        BY <3>1, <3>2 DEF Objects
      <3> QED BY <1>2, <3>3, <3>4 DEF q
    <2>4. ~ obj.known => Len(obj.queued) + 1 = n
      BY DEF ThreadInv, Numbered, n
    <2>5. Numbered(obj', thread, data)
      BY <1>2, <2>2, <2>3, <2>4 DEF ThreadInv, Numbered
    <2> QED BY <1>0, <2>1, <2>3, <2>5 DEF ThreadInv, ThreadTypes
  <1> QED BY <1>1, <1>2

LEMMA StopKeeps ==
  ASSUME ThreadInv, T!Stop PROVE ThreadInv'
  <1>1. CASE obj.known
    <2> DEFINE o == [obj EXCEPT !.asked = TRUE, !.stopping = TRUE]
    <2>1. /\ o \in Objects /\ o.known = obj.known /\ o.posted = obj.posted
          /\ o.queued = obj.queued /\ o.port = obj.port
      BY ThreadFields DEF Objects
    <2>2. /\ obj' = o /\ toPage' = Append(toPage, "terminate")
          /\ UNCHANGED <<page, thread, data, toParent>>
      BY <1>1 DEF T!Stop
    <2> HIDE DEF o
    <2> QED BY <2>1, <2>2, ParentKeeps
  <1>2. CASE ~ obj.known
    <2> DEFINE q == [obj EXCEPT !.asked = TRUE]
               o == IF how.of = "worker" THEN T!Finish(q, "stopped") ELSE q
    <2>1. /\ q \in Objects /\ q.known = obj.known /\ q.posted = obj.posted
          /\ q.queued = obj.queued /\ q.port = obj.port
      BY ThreadFields DEF Objects
    <2>2. obj' = o /\ UNCHANGED <<page, thread, data, toPage, toParent>>
      BY <1>2 DEF T!Stop
    <2> HIDE DEF q
    <2>3. /\ o \in Objects /\ o.known = obj.known /\ o.posted = obj.posted
          /\ o.queued = obj.queued /\ (o.port => obj.port)
      BY <2>1, FinishKeeps
    <2> HIDE DEF o
    <2> QED BY <2>2, <2>3, ParentKeeps
  <1> QED BY <1>1, <1>2

\* The spawn is answered: what waited goes out, from the first message on.
LEMMA OnSpawnedKeeps ==
  ASSUME ThreadInv, T!OnSpawned PROVE ThreadInv'
  <1>1. /\ toParent # <<>> /\ Head(toParent) = "spawned" /\ toParent' = Tail(toParent)
        /\ data' = obj.queued /\ UNCHANGED <<page, thread, toPage>>
    BY DEF T!OnSpawned, T!Answered
  <1>2. /\ obj' \in Objects /\ obj'.known /\ obj'.port /\ obj'.posted = obj.posted
    <2>1. <<>> \in Seq(Nat)
      BY EmptySeq
    <2>2. obj' = [obj EXCEPT !.known = TRUE, !.heeds = TRUE, !.port = TRUE, !.queued = <<>>,
                    !.state = IF obj.state = "starting" THEN "online" ELSE obj.state]
      BY DEF T!OnSpawned
    <2> QED BY <2>1, <2>2, ThreadFields DEF Objects
  <1>3. /\ toParent[1] = "spawned" /\ 1 \in DOMAIN toParent
        /\ toParent' \in Seq({"spawned", "failed", "stopped"})
        /\ \A i \in DOMAIN toParent' : /\ toParent'[i] = toParent[i + 1] /\ i + 1 \in DOMAIN toParent
                                       /\ i + 1 # 1
    <2>1. \A i \in Nat : i # 0 => i + 1 # 1
      OBVIOUS
    <2> QED BY <1>1, <2>1, ThreadFields, TailAt
  <1>4. ~ obj.known /\ page.spawn \in {"done", "ending", "over"}
        /\ \A i \in DOMAIN toParent' : toParent'[i] # "spawned"
    BY <1>3 DEF ThreadInv, SpawnedOnce
  <1>5. SpawnedOnce(TRUE, page.spawn, toPage, toParent')
    BY <1>4 DEF ThreadInv, SpawnedOnce
  <1>6. /\ thread.heard = <<>> /\ thread.missed = 0 /\ Len(obj.queued) = obj.posted
        /\ \A i \in DOMAIN obj.queued : obj.queued[i] = i
    BY <1>4 DEF ThreadInv, Numbered
  <1>7. Numbered(obj', thread, obj.queued)
    <2>1. Len(thread.heard) = 0 /\ obj.queued \in Seq(Nat) /\ Len(obj.queued) \in Nat
          /\ DOMAIN obj.queued = 1 .. Len(obj.queued)
      BY <1>6, ThreadFields, LenProperties
    <2>2. \A j \in DOMAIN obj.queued : obj.queued[j] = Len(thread.heard) + thread.missed + j
      BY <1>6, <2>1
    <2>3. Len(thread.heard) + thread.missed + Len(obj.queued) = obj'.posted
      BY <1>2, <1>6, <2>1
    <2>4. thread.early => thread.listens /\ thread.missed = 0
                            /\ \A i \in DOMAIN thread.heard : thread.heard[i] = i
      BY DEF ThreadInv, Numbered
    <2> QED BY <1>2, <2>2, <2>3, <2>4 DEF Numbered
  <1> QED BY <1>1, <1>2, <1>3, <1>5, <1>7, ThreadFields DEF ThreadInv, ThreadTypes

LEMMA OnAnswerKeeps ==
  ASSUME ThreadInv, T!OnSpawnFailed \/ T!OnStopped PROVE ThreadInv'
  <1>1. PICK code \in {"failed", "stopped"} : obj' = obj \/ obj' = T!Finish(obj, code)
    BY DEF T!OnSpawnFailed, T!OnStopped
  <1>2. /\ toParent # <<>> /\ toParent' = Tail(toParent) /\ UNCHANGED <<page, thread, toPage, data>>
    BY DEF T!OnSpawnFailed, T!OnStopped, T!Answered
  <1>3. /\ obj' \in Objects /\ obj'.known = obj.known /\ obj'.posted = obj.posted
        /\ obj'.queued = obj.queued /\ (obj'.port => obj.port)
    BY <1>1, ThreadFields, FinishKeeps
  <1> QED BY <1>2, <1>3, ParentKeeps

LEMMA OnControlKeeps ==
  ASSUME ThreadInv, T!OnControl PROVE ThreadInv'
  <1>1. \/ obj' = obj \/ obj' = [obj EXCEPT !.out = obj.out + 1]
        \/ obj' = T!Finish(obj, "exit")
    BY DEF T!OnControl
  <1>2. obj.out + 1 \in Nat
    BY ThreadFields DEF Objects
  <1>3. /\ obj' \in Objects /\ obj'.known = obj.known /\ obj'.posted = obj.posted
        /\ obj'.queued = obj.queued /\ (obj'.port => obj.port)
    <2>1. CASE obj' = [obj EXCEPT !.out = obj.out + 1]
      BY <1>2, <2>1, ThreadFields DEF Objects
    <2> QED BY <1>1, <2>1, ThreadFields, FinishKeeps
  <1>4. UNCHANGED <<page, thread, toPage, toParent, data>>
    BY DEF T!OnControl
  <1> QED BY <1>3, <1>4, ParentKeeps

\* A step of the page or of the thread that leaves its messages as they are.
LEMMA ThreadKeeps ==
  ASSUME ThreadInv, page' \in ParentPages, thread' \in Siblings, RunsKnown(page', thread'),
         thread'.heard = thread.heard, thread'.missed = thread.missed,
         thread'.early => thread'.listens /\ (thread.early \/ (thread.heard = <<>> /\ thread.missed = 0)),
         UNCHANGED <<obj, data>>,
         toPage' \in Seq({"spawn", "terminate"}),
         toParent' \in Seq({"spawned", "failed", "stopped"}),
         SpawnedOnce(obj.known, page'.spawn, toPage', toParent')
  PROVE  ThreadInv'
  <1>1. thread'.early => thread'.missed = 0 /\ \A i \in DOMAIN thread'.heard : thread'.heard[i] = i
    <2>1. CASE thread.early
      BY <2>1 DEF ThreadInv, Numbered
    <2>2. CASE thread.heard = <<>> /\ thread.missed = 0
      <3>1. \A i : i \notin DOMAIN thread.heard
        BY <2>2, EmptySeq
      <3> QED BY <2>2, <3>1
    <2> QED BY <2>1, <2>2
  <1>2. Numbered(obj, thread', data)
    BY <1>1 DEF ThreadInv, Numbered
  <1> QED BY <1>2 DEF ThreadInv, ThreadTypes

LEMMA OnSpawnThreadKeeps ==
  ASSUME ThreadInv, T!OnSpawn PROVE ThreadInv'
  <1>1. /\ toPage # <<>> /\ Head(toPage) = "spawn" /\ toPage' = Tail(toPage)
        /\ page' = [page EXCEPT !.spawn = "sibling"] /\ UNCHANGED <<obj, thread, toParent, data>>
    BY DEF T!OnSpawn, T!Requested
  <1>2. /\ toPage[1] = "spawn" /\ 1 \in DOMAIN toPage /\ toPage' \in Seq({"spawn", "terminate"})
        /\ \A i \in DOMAIN toPage' : /\ toPage'[i] = toPage[i + 1] /\ i + 1 \in DOMAIN toPage
                                     /\ i + 1 # 1
    <2>1. \A i \in Nat : i # 0 => i + 1 # 1
      OBVIOUS
    <2> QED BY <1>1, <2>1, ThreadFields, TailAt
  <1>3. page.spawn = "none" /\ \A i \in DOMAIN toPage' : toPage'[i] # "spawn"
    BY <1>2 DEF ThreadInv, SpawnedOnce
  <1>4. page' \in ParentPages /\ page'.spawn = "sibling"
    BY <1>1, ThreadFields DEF ParentPages
  <1>5. SpawnedOnce(obj.known, page'.spawn, toPage', toParent)
    BY <1>3, <1>4 DEF ThreadInv, SpawnedOnce
  <1>6. RunsKnown(page', thread)
    BY <1>3 DEF ThreadInv, RunsKnown
  <1> QED BY <1>1, <1>2, <1>4, <1>5, <1>6, ThreadKeeps, ThreadFields DEF ThreadInv, Numbered

LEMMA SiblingMadeKeeps ==
  ASSUME ThreadInv, T!SiblingMade PROVE ThreadInv'
  <1>1. /\ page.spawn = "sibling" /\ UNCHANGED <<obj, toPage, data>>
        /\ \E to \in {"placing", "failed"} : page' = [page EXCEPT !.spawn = to]
        /\ thread' = thread \/ \E st \in {"dead", "made"} : thread' = [thread EXCEPT !.state = st]
        /\ toParent' = toParent \/ toParent' = Append(toParent, "failed")
    BY DEF T!SiblingMade
  <1>2. page' \in ParentPages /\ page'.spawn \in {"placing", "failed"}
    BY <1>1, ThreadFields DEF ParentPages
  <1>3. /\ thread' \in Siblings /\ (thread'.state = "runs" => thread.state = "runs")
        /\ thread'.heard = thread.heard /\ thread'.missed = thread.missed
        /\ thread'.early = thread.early /\ thread'.listens = thread.listens
    BY <1>1, ThreadFields DEF Siblings
  <1>4. /\ toParent' \in Seq({"spawned", "failed", "stopped"})
        /\ \A i \in DOMAIN toParent' : toParent'[i] = "spawned" => i \in DOMAIN toParent /\ toParent[i] = "spawned"
    <2>1. CASE toParent' = toParent
      BY <2>1, ThreadFields
    <2>2. CASE toParent' = Append(toParent, "failed")
      BY <2>2, ThreadFields, AppendAt
    <2> QED BY <1>1, <2>1, <2>2
  <1>5. RunsKnown(page', thread')
    BY <1>1, <1>3 DEF ThreadInv, RunsKnown
  <1>6. SpawnedOnce(obj.known, page'.spawn, toPage', toParent')
    BY <1>1, <1>4 DEF ThreadInv, SpawnedOnce
  <1> QED BY <1>1, <1>2, <1>3, <1>4, <1>5, <1>6, ThreadKeeps, ThreadFields DEF ThreadInv, Numbered

\* The run starts: nothing was posted to its port before the answer, and the answer is the first.
LEMMA RunStartsKeeps ==
  ASSUME ThreadInv, T!RunStarts PROVE ThreadInv'
  <1>0. page.spawn = "placing" /\ UNCHANGED <<obj, toPage, data>>
    BY DEF T!RunStarts
  <1>1. CASE page.terminated
    <2>1. page' = [page EXCEPT !.spawn = "failed"] /\ UNCHANGED <<thread, toParent>>
      BY <1>1 DEF T!RunStarts
    <2>2. page' \in ParentPages /\ page'.spawn = "failed"
      BY <2>1, ThreadFields DEF ParentPages
    <2>3. RunsKnown(page', thread) /\ SpawnedOnce(obj.known, page'.spawn, toPage, toParent)
      BY <1>0, <2>2 DEF ThreadInv, RunsKnown, SpawnedOnce
    <2> QED BY <1>0, <2>1, <2>2, <2>3, ThreadKeeps, ThreadFields DEF ThreadInv, Numbered
  <1>2. CASE ~ page.terminated
    <2>1. PICK early \in BOOLEAN :
            thread' = [thread EXCEPT !.state = "runs", !.early = early, !.listens = early]
      BY <1>2 DEF T!RunStarts
    <2>2. /\ page' = [page EXCEPT !.spawn = "done", !.threads = TRUE]
          /\ toParent' = Append(toParent, "spawned")
      BY <1>2 DEF T!RunStarts
    <2>3. /\ thread' \in Siblings /\ thread'.heard = thread.heard
          /\ thread'.missed = thread.missed /\ thread'.listens = thread'.early
      BY <2>1, ThreadFields DEF Siblings
    <2>4. /\ page' \in ParentPages /\ page'.spawn = "done" /\ page'.threads
          /\ page'.terminated = page.terminated
      BY <2>2, ThreadFields DEF ParentPages
    <2>5. ~ obj.known /\ (\A i \in DOMAIN toParent : toParent[i] # "spawned")
          /\ (\A i \in DOMAIN toPage : toPage[i] # "spawn")
      BY <1>0 DEF ThreadInv, SpawnedOnce
    <2>6. /\ toParent' \in Seq({"spawned", "failed", "stopped"})
          /\ \A i \in DOMAIN toParent' : toParent'[i] = "spawned" => i = Len(toParent) + 1
      BY <2>2, <2>5, ThreadFields, AppendAt
    <2>7. RunsKnown(page', thread') /\ SpawnedOnce(obj.known, page'.spawn, toPage, toParent')
      BY <1>2, <2>4, <2>5, <2>6 DEF RunsKnown, SpawnedOnce
    <2>8. thread.heard = <<>> /\ thread.missed = 0
      BY <2>5 DEF ThreadInv, Numbered
    <2> QED BY <1>0, <2>3, <2>4, <2>6, <2>7, <2>8, ThreadKeeps, ThreadFields
  <1> QED BY <1>1, <1>2

\* What the page tells of a thread's output and end, to a port that has no part in this.
LEMMA TellsKeeps ==
  ASSUME ThreadInv, T!Forward \/ T!Settle \/ T!ReadersEnd PROVE ThreadInv'
  <1>0. UNCHANGED <<obj, toPage, toParent, data>>
    BY DEF T!Forward, T!Settle, T!ReadersEnd
  <1>1. CASE T!Forward
    <2>1. page.pulled + 1 \in Nat /\ page' = [page EXCEPT !.pulled = page.pulled + 1] /\ thread' = thread
      BY <1>1, ThreadFields DEF T!Forward
    <2>2. /\ page' \in ParentPages /\ page'.spawn = page.spawn /\ page'.threads = page.threads
          /\ page'.terminated = page.terminated
      BY <2>1, ThreadFields DEF ParentPages
    <2>3. RunsKnown(page', thread) /\ SpawnedOnce(obj.known, page'.spawn, toPage, toParent)
      BY <2>2 DEF ThreadInv, RunsKnown, SpawnedOnce
    <2> QED BY <1>0, <2>1, <2>2, <2>3, ThreadKeeps, ThreadFields DEF ThreadInv, Numbered
  <1>2. CASE T!Settle
    <2>1. /\ page.spawn = "done" /\ page' = [page EXCEPT !.spawn = "ending"]
          /\ thread' = [thread EXCEPT !.state = "dead"]
      BY <1>2 DEF T!Settle
    <2>2. /\ page' \in ParentPages /\ page'.spawn = "ending"
      BY <2>1, ThreadFields DEF ParentPages
    <2>3. /\ thread' \in Siblings /\ thread'.state = "dead"
          /\ thread'.heard = thread.heard /\ thread'.missed = thread.missed
          /\ thread'.early = thread.early /\ thread'.listens = thread.listens
      BY <2>1, ThreadFields DEF Siblings
    <2>4. RunsKnown(page', thread') /\ SpawnedOnce(obj.known, page'.spawn, toPage, toParent)
      BY <2>1, <2>2, <2>3 DEF ThreadInv, RunsKnown, SpawnedOnce
    <2> QED BY <1>0, <2>2, <2>3, <2>4, ThreadKeeps, ThreadFields DEF ThreadInv, Numbered
  <1>3. CASE T!ReadersEnd
    <2>1. /\ page.spawn = "ending" /\ page' = [page EXCEPT !.spawn = "over", !.threads = FALSE]
          /\ thread' = thread
      BY <1>3 DEF T!ReadersEnd
    <2>2. page' \in ParentPages /\ page'.spawn = "over"
      BY <2>1, ThreadFields DEF ParentPages
    <2>3. RunsKnown(page', thread) /\ SpawnedOnce(obj.known, page'.spawn, toPage, toParent)
      BY <2>1, <2>2 DEF ThreadInv, RunsKnown, SpawnedOnce
    <2> QED BY <1>0, <2>1, <2>2, <2>3, ThreadKeeps, ThreadFields DEF ThreadInv, Numbered
  <1> QED BY <1>1, <1>2, <1>3

\* Whoever ends a thread, it does not run any more.
LEMMA KilledIs ==
  ASSUME ThreadInv
  PROVE  /\ T!Killed \in Siblings /\ (T!Killed.state = "runs" => FALSE)
         /\ T!Killed.heard = thread.heard /\ T!Killed.missed = thread.missed
         /\ T!Killed.early = thread.early /\ T!Killed.listens = thread.listens
  <1>1. CASE thread.state = "runs"
    <2>1. T!Killed = [thread EXCEPT !.state = "dead"]
      BY <1>1 DEF T!Killed, ThreadInv, RunsKnown
    <2> QED BY <2>1, ThreadFields DEF Siblings
  <1>2. CASE thread.state # "runs"
    <2>1. T!Killed = thread
      BY <1>2 DEF T!Killed
    <2> QED BY <1>2, <2>1, ThreadFields
  <1> QED BY <1>1, <1>2

LEMMA KillsKeep ==
  ASSUME ThreadInv, T!OnTerminate \/ T!PageTerminates PROVE ThreadInv'
  <1>1. thread' = T!Killed /\ UNCHANGED <<obj, data>>
    BY DEF T!OnTerminate, T!PageTerminates
  <1>2. /\ thread' \in Siblings /\ thread'.state # "runs"
        /\ thread'.heard = thread.heard /\ thread'.missed = thread.missed
        /\ thread'.early = thread.early /\ thread'.listens = thread.listens
    BY <1>1, KilledIs
  <1>3. page' \in ParentPages /\ page'.spawn = page.spawn
    BY ThreadFields DEF T!OnTerminate, T!PageTerminates, ParentPages
  <1>4. /\ toPage' \in Seq({"spawn", "terminate"})
        /\ \A i \in DOMAIN toPage' : toPage'[i] = "spawn" => page.spawn = "none" /\ i = 1
    <2>1. CASE T!OnTerminate
      <3>1. toPage # <<>> /\ Head(toPage) = "terminate" /\ toPage' = Tail(toPage)
        BY <2>1 DEF T!OnTerminate, T!Requested
      <3>2. /\ toPage' \in Seq({"spawn", "terminate"})
            /\ \A i \in DOMAIN toPage' : /\ toPage'[i] = toPage[i + 1] /\ i + 1 \in DOMAIN toPage
                                         /\ i \in Nat /\ i # 0
        BY <3>1, ThreadFields, TailAt
      <3>3. \A i \in Nat : i # 0 => i + 1 # 1
        OBVIOUS
      <3> QED BY <3>2, <3>3 DEF ThreadInv, SpawnedOnce
    <2>2. CASE T!PageTerminates
      BY <2>2, ThreadFields DEF T!PageTerminates, ThreadInv, SpawnedOnce
    <2> QED BY <2>1, <2>2
  <1>5. /\ toParent' \in Seq({"spawned", "failed", "stopped"})
        /\ \A i \in DOMAIN toParent' : toParent'[i] = "spawned" => i \in DOMAIN toParent /\ toParent[i] = "spawned"
    <2>1. CASE toParent' = toParent
      BY <2>1, ThreadFields
    <2>2. CASE toParent' = Append(toParent, "stopped")
      BY <2>2, ThreadFields, AppendAt
    <2> QED BY <2>1, <2>2 DEF T!OnTerminate, T!PageTerminates
  <1>6. SpawnedOnce(obj.known, page'.spawn, toPage', toParent')
    BY <1>3, <1>4, <1>5 DEF ThreadInv, SpawnedOnce
  <1>7. RunsKnown(page', thread')
    BY <1>2 DEF RunsKnown
  <1> QED BY <1>1, <1>2, <1>3, <1>4, <1>5, <1>6, <1>7, ThreadKeeps DEF ThreadInv, Numbered

\* What the thread does of itself but receiving.
LEMMA ThreadActs ==
  ASSUME ThreadInv, T!Speak \/ T!Listen \/ T!Ends PROVE ThreadInv'
  <1>1. UNCHANGED <<obj, page, toPage, toParent, data>> /\ thread.state = "runs"
    BY DEF T!Speak, T!Listen, T!Ends, T!Runs
  <1>2. thread.said + 1 \in Nat
    BY ThreadFields
  <1>3. \/ thread' = [thread EXCEPT !.said = thread.said + 1]
        \/ thread' = [thread EXCEPT !.listens = TRUE]
        \/ \E st \in {"ended", "crashed"} : thread' = [thread EXCEPT !.state = st]
    BY DEF T!Speak, T!Listen, T!Ends
  <1>4. /\ thread' \in Siblings /\ thread'.heard = thread.heard /\ thread'.missed = thread.missed
        /\ thread'.early = thread.early /\ (thread.listens => thread'.listens)
    BY <1>2, <1>3, ThreadFields DEF Siblings
  <1>5. RunsKnown(page, thread')
    BY <1>1 DEF ThreadInv, RunsKnown
  <1>6. thread'.early => thread'.listens /\ thread.early
    BY <1>4 DEF ThreadInv, Numbered
  <1> QED BY <1>1, <1>4, <1>5, <1>6, ThreadKeeps, ThreadFields DEF ThreadInv

\* Numbers move by one from the queue to what is heard or missed.
LEMMA OneMoves ==
  \A a, b, c \in Nat : a + b + (c + 1) = (a + 1) + b + c /\ a + b + (c + 1) = a + (b + 1) + c
  OBVIOUS

LEMMA OneTaken ==
  \A a, b, c \in Nat : a + b + c = (a + 1) + b + (c - 1) /\ a + b + c = a + (b + 1) + (c - 1)
  OBVIOUS

\* A message is taken by whoever listens, or missed.
LEMMA ReceiveKeeps ==
  ASSUME ThreadInv, T!Receive PROVE ThreadInv'
  <1>0. data # <<>> /\ data' = Tail(data) /\ UNCHANGED <<obj, page, toPage, toParent>>
        /\ thread.state = "runs"
    BY DEF T!Receive, T!Runs
  <1>1. /\ data' \in Seq(Nat) /\ Head(data) = data[1] /\ 1 \in DOMAIN data /\ Head(data) \in Nat
        /\ Len(data') = Len(data) - 1
        /\ \A j \in DOMAIN data' : data'[j] = data[j + 1] /\ j + 1 \in DOMAIN data /\ j \in Nat
    <2>1. data \in Seq(Nat) /\ data # <<>>
      BY <1>0, ThreadFields
    <2>2. /\ Tail(data) \in Seq(Nat) /\ Head(data) \in Nat /\ Head(data) = data[1] /\ 1 \in DOMAIN data
          /\ Len(Tail(data)) = Len(data) - 1
          /\ \A j \in DOMAIN Tail(data) : Tail(data)[j] = data[j + 1] /\ j + 1 \in DOMAIN data /\ j \in Nat
      BY ONLY <2>1, TailAt
    <2> QED BY <1>0, <2>2
  <1>2. /\ Len(thread.heard) \in Nat /\ thread.missed \in Nat /\ Len(data) \in Nat
        /\ obj.posted \in Nat
    BY ThreadFields
  <1>3. obj.known
    BY <1>0 DEF ThreadInv, Numbered
  <1>4. Head(data) = Len(thread.heard) + thread.missed + 1
    BY <1>1 DEF ThreadInv, Numbered
  <1>5. \A j \in DOMAIN data' : data'[j] = Len(thread.heard) + thread.missed + (j + 1)
    BY <1>1 DEF ThreadInv, Numbered
  <1>6. obj.port => Len(thread.heard) + thread.missed + Len(data) = obj.posted
    BY DEF ThreadInv, Numbered
  <1>7. thread.early => thread.listens /\ thread.missed = 0
                          /\ \A i \in DOMAIN thread.heard : thread.heard[i] = i
    BY DEF ThreadInv, Numbered
  <1>8. CASE thread.listens
    <2>1. thread' = [thread EXCEPT !.heard = Append(thread.heard, Head(data))]
      BY <1>8 DEF T!Receive
    <2>2. /\ Append(thread.heard, Head(data)) \in Seq(Nat)
          /\ Len(Append(thread.heard, Head(data))) = Len(thread.heard) + 1
          /\ DOMAIN Append(thread.heard, Head(data)) = DOMAIN thread.heard \cup {Len(thread.heard) + 1}
          /\ \A i \in DOMAIN thread.heard : Append(thread.heard, Head(data))[i] = thread.heard[i]
          /\ Append(thread.heard, Head(data))[Len(thread.heard) + 1] = Head(data)
      BY <1>1, ThreadFields, AppendAt
    <2>3. /\ thread' \in Siblings /\ thread'.heard = Append(thread.heard, Head(data))
          /\ thread'.missed = thread.missed /\ thread'.early = thread.early /\ thread'.listens
          /\ thread'.state = "runs"
      BY <1>0, <1>8, <2>1, <2>2, ThreadFields DEF Siblings
    <2>4. \A j \in DOMAIN data' : data'[j] = Len(thread'.heard) + thread'.missed + j
      <3> SUFFICES ASSUME NEW j \in DOMAIN data'
                   PROVE  data'[j] = Len(thread'.heard) + thread'.missed + j
        OBVIOUS
      <3>1. j \in Nat /\ data'[j] = Len(thread.heard) + thread.missed + (j + 1)
        BY <1>1, <1>5
      <3>2. Len(thread'.heard) = Len(thread.heard) + 1 /\ thread'.missed = thread.missed
        BY <2>2, <2>3
      <3>3. Len(thread.heard) + thread.missed + (j + 1) = (Len(thread.heard) + 1) + thread.missed + j
        <4>1. Len(thread.heard) \in Nat /\ thread.missed \in Nat /\ j \in Nat
          BY <1>2, <3>1
        <4> QED BY ONLY <4>1, OneMoves
      <3> QED BY <3>1, <3>2, <3>3
    <2>5. obj.port => Len(thread'.heard) + thread'.missed + Len(data') = obj.posted
      <3>1. Len(thread'.heard) = Len(thread.heard) + 1 /\ thread'.missed = thread.missed
            /\ Len(data') = Len(data) - 1
        BY <1>1, <2>2, <2>3
      <3>2. Len(thread.heard) + thread.missed + Len(data)
              = (Len(thread.heard) + 1) + thread.missed + (Len(data) - 1)
        BY <1>2, OneTaken
      <3> QED BY <1>6, <3>1, <3>2
    <2>6. thread'.early => thread'.missed = 0 /\ \A i \in DOMAIN thread'.heard : thread'.heard[i] = i
      <3>1. thread.early => Head(data) = Len(thread.heard) + 1
        BY <1>2, <1>4, <1>7
      <3> QED BY <1>7, <2>2, <2>3, <3>1
    <2>7. Numbered(obj, thread', data')
      BY <1>3, <2>3, <2>4, <2>5, <2>6 DEF Numbered
    <2>8. RunsKnown(page, thread')
      BY <1>0 DEF ThreadInv, RunsKnown
    <2> QED BY <1>0, <1>1, <2>3, <2>7, <2>8 DEF ThreadInv, ThreadTypes
  <1>9. CASE ~ thread.listens
    <2>1. thread' = [thread EXCEPT !.missed = thread.missed + 1] /\ thread.missed + 1 \in Nat
      BY <1>2, <1>9 DEF T!Receive
    <2>2. /\ thread' \in Siblings /\ thread'.heard = thread.heard
          /\ thread'.missed = thread.missed + 1 /\ thread'.early = thread.early
          /\ thread'.state = "runs"
      BY <1>0, <2>1, ThreadFields DEF Siblings
    <2>3. ~ thread'.early
      BY <1>7, <1>9, <2>2
    <2>4. \A j \in DOMAIN data' : data'[j] = Len(thread'.heard) + thread'.missed + j
      <3> SUFFICES ASSUME NEW j \in DOMAIN data'
                   PROVE  data'[j] = Len(thread'.heard) + thread'.missed + j
        OBVIOUS
      <3>1. j \in Nat /\ data'[j] = Len(thread.heard) + thread.missed + (j + 1)
        BY <1>1, <1>5
      <3>2. Len(thread'.heard) + thread'.missed + j = Len(thread.heard) + (thread.missed + 1) + j
        BY ONLY <2>2
      <3>3. Len(thread.heard) + thread.missed + (j + 1) = Len(thread.heard) + (thread.missed + 1) + j
        <4>1. Len(thread.heard) \in Nat /\ thread.missed \in Nat /\ j \in Nat
          BY <1>2, <3>1
        <4> QED BY ONLY <4>1, OneMoves
      <3> QED BY ONLY <3>1, <3>2, <3>3
    <2>5. obj.port => Len(thread'.heard) + thread'.missed + Len(data') = obj.posted
      <3>1. thread'.heard = thread.heard /\ thread'.missed = thread.missed + 1
            /\ Len(data') = Len(data) - 1
        BY <1>1, <2>2
      <3>2. Len(thread.heard) + thread.missed + Len(data)
              = Len(thread.heard) + (thread.missed + 1) + (Len(data) - 1)
        BY <1>2, OneTaken
      <3> QED BY <1>6, <3>1, <3>2
    <2>6. Numbered(obj, thread', data')
      BY <1>3, <2>3, <2>4, <2>5 DEF Numbered
    <2>7. RunsKnown(page, thread')
      BY <1>0 DEF ThreadInv, RunsKnown
    <2> QED BY <1>0, <1>1, <2>2, <2>6, <2>7 DEF ThreadInv, ThreadTypes
  <1> QED BY <1>8, <1>9

LEMMA ThreadStarts ==
  ASSUME T!Init PROVE ThreadInv
  <1>0. <<>> \in Seq(Nat) /\ <<>> \in Seq({"spawned", "failed", "stopped"})
        /\ \A i : i \notin DOMAIN <<>>
    BY EmptySeq
  <1>1. /\ obj = [state |-> "starting", known |-> FALSE, port |-> FALSE, heeds |-> FALSE,
                  asked |-> FALSE, stopping |-> FALSE, posted |-> 0, queued |-> <<>>,
                  out |-> 0, told |-> None, exits |-> 0]
        /\ page = [terminated |-> FALSE, spawn |-> "none", threads |-> FALSE, pulled |-> 0]
        /\ thread = [state |-> "none", early |-> FALSE, listens |-> FALSE, said |-> 0,
                     heard |-> <<>>, missed |-> 0]
        /\ toPage = <<"spawn">> /\ toParent = <<>> /\ data = <<>>
    BY DEF T!Init
  <1>2. obj \in Objects /\ page \in ParentPages /\ thread \in Siblings
    BY <1>0, <1>1 DEF Objects, ParentPages, Siblings
  <1>3. /\ toPage \in Seq({"spawn", "terminate"}) /\ \A i \in DOMAIN toPage : i = 1
    BY <1>1
  <1>4. ThreadTypes
    BY <1>0, <1>1, <1>2, <1>3 DEF ThreadTypes
  <1>5. SpawnedOnce(obj.known, page.spawn, toPage, toParent) /\ RunsKnown(page, thread)
    BY <1>0, <1>1, <1>3 DEF SpawnedOnce, RunsKnown
  <1>6. Numbered(obj, thread, data)
    <2>1. Len(<<>>) = 0
      BY EmptySeq
    <2> QED BY <1>0, <1>1, <2>1 DEF Numbered
  <1> QED BY <1>4, <1>5, <1>6 DEF ThreadInv

LEMMA ThreadSteps ==
  ASSUME ThreadInv, T!Next PROVE ThreadInv'
  BY PostKeeps, StopKeeps, OnSpawnedKeeps, OnAnswerKeeps, OnControlKeeps, OnSpawnThreadKeeps,
     SiblingMadeKeeps, RunStartsKeeps, TellsKeeps, KillsKeep, ThreadActs, ReceiveKeeps
     DEF T!Next, T!ParentStep, T!PageStep

\* What is heard early is heard in order, and nothing runs on without its page.
LEMMA ThreadShows ==
  ASSUME ThreadInv PROVE T!InOrder /\ T!NothingRunsOn
  <1>1. ASSUME thread.early PROVE thread.heard = [i \in 1 .. Len(thread.heard) |-> i]
    <2>1. \A i \in DOMAIN thread.heard : thread.heard[i] = i
      BY <1>1 DEF ThreadInv, Numbered
    <2>2. thread.heard = [i \in DOMAIN thread.heard |-> thread.heard[i]]
          /\ DOMAIN thread.heard = 1 .. Len(thread.heard)
      BY ThreadFields
    <2> QED BY <2>1, <2>2
  <1> QED BY <1>1 DEF T!InOrder, T!NothingRunsOn, ThreadInv, RunsKnown

-----------------------------------------------------------------------------
(* The process *)

Requests == {"spawn", "poll", "write", "end", "kill"}

Endings == {"code", "failed", "signal"}

Events ==
  [is : {"stdout", "stderr", "report"}] \cup [is : {"exit"}, status : Endings]

Answers ==
  [op : {"spawn"}, ok : BOOLEAN] \cup [op : {"poll"}, events : Seq(Events)]
    \cup [op : {"sync"}, status : {"none"} \cup Endings, events : Seq(Events)]
    \cup [op : {"write", "end"}]

\* The records, but for what they count.
Callerlike(c) ==
  c \in [state : {"new", "spawning", "parked", "running", "closed"}, stdin : {c.stdin},
         wrote : {c.wrote}, queued : Int, busy : {c.busy}, killed : BOOLEAN,
         out : {c.out}, told : {None, "none"} \cup Endings, callbacks : {c.callbacks}]

Childlike(c) ==
  c \in [state : {"none", "runs", "ended", "crashed", "dead"}, said : {c.said}, cut : BOOLEAN]

Livelike(l) ==
  l \in [phase : {"none", "starting", "running", "flushing", "ending", "exited"},
         found : BOOLEAN, stdin : {l.stdin}, pulled : {l.pulled}, events : Seq(Events),
         waiting : BOOLEAN, killed : BOOLEAN, status : {None, "code", "failed"}]

ProcessTypes ==
  /\ Callerlike(caller) /\ Childlike(child) /\ Livelike(live)
  /\ stdin \in [chunks : Int, asked : {stdin.asked}, closed : {stdin.closed}]
  /\ kind.call \in {"spawn", "sync"} /\ toHost \in Seq(Requests) /\ toCaller \in Seq(Answers)

\* Until the spawn is answered nothing else is on its way, and there is no child before it
\* was begun.
Beginning ==
  /\ caller.state = "new" => toHost = <<>> /\ live.phase = "none"
  /\ caller.state \in {"new", "spawning", "parked"} =>
       /\ \A i \in DOMAIN toHost : toHost[i] = "spawn" /\ i = 1
       /\ caller.told = None
  /\ caller.state \in {"new", "spawning"} =>
       \A i \in DOMAIN toCaller : toCaller[i].op = "spawn" /\ i = 1
  /\ caller.state = "parked" => \A i \in DOMAIN toCaller : toCaller[i].op = "sync"
  /\ caller.state \in {"spawning", "running"} => kind.call = "spawn"
  /\ caller.state = "running" => caller.told = None
  /\ caller.state = "parked" => kind.call = "sync"
  /\ \A i \in DOMAIN toHost : toHost[i] = "spawn" =>
       live.phase = "none" /\ caller.state \in {"spawning", "parked"} /\ toCaller = <<>>
  /\ live.phase = "starting" =>
       caller.state \in {"spawning", "parked"} /\ toHost = <<>> /\ toCaller = <<>>
  /\ live.phase \in {"none", "starting"} =>
       ~ live.found /\ ~ live.waiting /\ live.events = <<>> /\ child.state = "none" /\ ~ child.cut
  /\ \A i \in DOMAIN toCaller : toCaller[i].op = "spawn" =>
       /\ caller.state = "spawning" /\ toHost = <<>>
       /\ IF toCaller[i].ok THEN live.found ELSE live.phase = "none"
  /\ kind.call = "spawn" /\ stdin.chunks # 0 => caller.state \in {"running", "closed"}

\* One poll is outstanding: asked, waiting or answered; and who is asked knows the child.
OnePoll ==
  /\ \A i \in DOMAIN toHost : toHost[i] = "poll" =>
       /\ caller.state = "running" /\ live.found /\ ~ live.waiting
       /\ \A j \in DOMAIN toHost : toHost[j] = "poll" => i = j
       /\ \A j \in DOMAIN toCaller : toCaller[j].op # "poll"
  /\ live.waiting =>
       /\ caller.state = "running" /\ live.found /\ live.events = <<>>
       /\ \A j \in DOMAIN toCaller : toCaller[j].op # "poll"
  /\ \A i \in DOMAIN toCaller : toCaller[i].op = "poll" =>
       /\ caller.state = "running" /\ toCaller[i].events # <<>>
       /\ \A j \in DOMAIN toCaller : toCaller[j].op = "poll" => i = j

\* What is called the child's end is it.
TrueEnd(ch, l, st) ==
  /\ l.phase = "exited" /\ st \in Endings
  /\ ch.cut => st = "signal"
  /\ st = "signal" => l.killed
  /\ st # "signal" => st = l.status

\* An exit comes last and is true.
ExitLast(ch, l, evs) ==
  \A i \in DOMAIN evs : evs[i].is = "exit" => i = Len(evs) /\ TrueEnd(ch, l, evs[i].status)

\* What a caller is told of its child, or is about to be.
TrueWord(ch, l, st) == (st = "none" /\ l.phase = "none") \/ TrueEnd(ch, l, st)

Exits ==
  /\ ExitLast(child, live, live.events)
  /\ \A i \in DOMAIN toCaller : toCaller[i].op = "poll" => ExitLast(child, live, toCaller[i].events)
  /\ \A i \in DOMAIN toCaller : toCaller[i].op = "sync" =>
       kind.call = "sync" /\ TrueWord(child, live, toCaller[i].status)
  /\ caller.told = None \/ TrueWord(child, live, caller.told)
  /\ live.phase = "exited" /\ live.found =>
       live.events # <<>> /\ live.events[Len(live.events)].is = "exit"

\* Who was killed was asked to be, and a program that is over is one the provider saw end.
Killings ==
  /\ \A i \in DOMAIN toHost : toHost[i] = "kill" => caller.killed
  /\ live.killed => caller.killed
  /\ child.cut => live.killed
  /\ live.phase \in {"flushing", "ending", "exited"} => live.status \in {"code", "failed"}
  /\ live.phase \in {"ending", "exited"} => child.state = "dead"

\* Who polls has a child, or its exit on the way.
Kept ==
  caller.state = "running" =>
    \/ live.found
    \/ \E i \in DOMAIN toCaller :
         /\ toCaller[i].op = "poll"
         /\ toCaller[i].events[Len(toCaller[i].events)].is = "exit"

ProcessInv == ProcessTypes /\ Beginning /\ OnePoll /\ Exits /\ Killings /\ Kept

LEMMA ProcessFields ==
  ASSUME ProcessInv
  PROVE  /\ Callerlike(caller) /\ Childlike(child) /\ Livelike(live)
         /\ caller.killed \in BOOLEAN /\ child.cut \in BOOLEAN
         /\ live.found \in BOOLEAN /\ live.waiting \in BOOLEAN /\ live.killed \in BOOLEAN
         /\ live.events \in Seq(Events) /\ stdin.chunks \in Int /\ caller.queued \in Int
         /\ toHost \in Seq(Requests) /\ toCaller \in Seq(Answers)
         /\ kind.call \in {"spawn", "sync"}
  BY DEF ProcessInv, ProcessTypes, Callerlike, Childlike, Livelike

\* What the caller and its stdin do of themselves, the child printing, reading or ending.
LEMMA ProcessRests ==
  ASSUME ProcessInv, ProcessTypes', UNCHANGED <<kind, toHost, toCaller>>,
         caller'.state = caller.state, caller'.killed = caller.killed, caller'.told = caller.told,
         child'.cut = child.cut, child'.state = child.state \/ child.state = "runs",
         live'.phase = live.phase, live'.found = live.found, live'.events = live.events,
         live'.waiting = live.waiting, live'.killed = live.killed, live'.status = live.status,
         stdin'.chunks # 0 => stdin.chunks # 0
  PROVE  ProcessInv'
  <1>1. Beginning'
    BY DEF ProcessInv, Beginning
  <1>2. OnePoll'
    BY DEF ProcessInv, OnePoll
  <1>3. Exits'
    BY DEF ProcessInv, Exits, ExitLast, TrueWord, TrueEnd
  <1>4. Killings'
    BY DEF ProcessInv, Killings
  <1>5. Kept'
    BY DEF ProcessInv, Kept
  <1> QED BY <1>1, <1>2, <1>3, <1>4, <1>5 DEF ProcessInv

LEMMA ProcessIdles ==
  ASSUME ProcessInv,
         \/ P!Write \/ P!End \/ P!Say \/ P!Ask \/ P!Ends \/ P!SyncStdin
         \/ P!Take /\ kind.call = "sync"
  PROVE  ProcessInv'
  <1> USE ProcessFields
  <1>1. CASE P!Write \/ P!End
    <2>1. UNCHANGED <<kind, child, live, stdin, toHost, toCaller>>
      BY <1>1 DEF P!Write, P!End
    <2>2. \/ caller' = [caller EXCEPT !.wrote = caller.wrote + 1, !.queued = caller.queued + 1]
          \/ caller' = [caller EXCEPT !.stdin = "ending"]
      BY <1>1 DEF P!Write, P!End
    <2>3. /\ Callerlike(caller') /\ caller'.state = caller.state
          /\ caller'.killed = caller.killed /\ caller'.told = caller.told
      <3>1. caller.queued + 1 \in Int
        OBVIOUS
      <3> QED BY <2>2, <3>1 DEF Callerlike
    <2>4. ProcessTypes'
      BY <2>1, <2>3 DEF ProcessInv, ProcessTypes, Childlike, Livelike
    <2> QED BY <2>1, <2>3, <2>4, ProcessRests
  <1>2. CASE P!Say \/ P!Ends
    <2>1. UNCHANGED <<kind, caller, live, stdin, toHost, toCaller>> /\ child.state = "runs"
      BY <1>2 DEF P!Say, P!Ends
    <2>2. \/ \E s : child' = [child EXCEPT !.said = s]
          \/ child' = [child EXCEPT !.state = "ended"]
          \/ child' = [child EXCEPT !.state = "crashed"]
      BY <1>2 DEF P!Say, P!Ends
    <2>3. Childlike(child') /\ child'.cut = child.cut
      BY <2>2 DEF Childlike
    <2>4. ProcessTypes'
      BY <2>1, <2>3 DEF ProcessInv, ProcessTypes, Callerlike, Livelike
    <2> QED BY <2>1, <2>3, <2>4, ProcessRests
  <1>3. CASE P!Ask \/ (P!Take /\ kind.call = "sync")
    <2>1. UNCHANGED <<kind, caller, child, live, toHost, toCaller>>
      BY <1>3 DEF P!Ask, P!Take
    <2>2. \/ stdin' = [stdin EXCEPT !.asked = TRUE]
          \/ /\ stdin.chunks > 0 /\ stdin.chunks - 1 \in Int
             /\ stdin' = [stdin EXCEPT !.asked = FALSE, !.chunks = stdin.chunks - 1]
      BY <1>3 DEF P!Ask, P!Take
    <2>3. /\ stdin' \in [chunks : Int, asked : {stdin'.asked}, closed : {stdin'.closed}]
          /\ stdin'.chunks # 0 => stdin.chunks # 0
      <3>1. stdin \in [chunks : Int, asked : {stdin.asked}, closed : {stdin.closed}]
        BY DEF ProcessInv, ProcessTypes
      <3>0. stdin.chunks > 0 => stdin.chunks # 0
        OBVIOUS
      <3>2. CASE stdin' = [stdin EXCEPT !.asked = TRUE]
        BY <3>1, <3>2
      <3>3. ASSUME NEW n \in Int, stdin.chunks # 0, stdin' = [stdin EXCEPT !.asked = FALSE, !.chunks = n]
            PROVE  /\ stdin' \in [chunks : Int, asked : {stdin'.asked}, closed : {stdin'.closed}]
                   /\ stdin'.chunks # 0 => stdin.chunks # 0
        BY <3>0, <3>1, <3>3
      <3> QED BY <2>2, <3>0, <3>2, <3>3
    <2>4. ProcessTypes'
      BY <2>1, <2>3 DEF ProcessInv, ProcessTypes, Callerlike, Childlike, Livelike
    <2> QED BY <2>1, <2>3, <2>4, ProcessRests
  <1>4. CASE P!SyncStdin
    <2>1. /\ UNCHANGED <<kind, caller, child, toHost, toCaller>>
          /\ stdin' = [stdin EXCEPT !.closed = TRUE] /\ live' = [live EXCEPT !.stdin = "null"]
      BY <1>4 DEF P!SyncStdin
    <2>2. /\ stdin' \in [chunks : Int, asked : {stdin'.asked}, closed : {stdin'.closed}]
          /\ stdin'.chunks = stdin.chunks
      BY <2>1 DEF ProcessInv, ProcessTypes
    <2>3. /\ Livelike(live') /\ live'.phase = live.phase /\ live'.found = live.found
          /\ live'.events = live.events /\ live'.waiting = live.waiting
          /\ live'.killed = live.killed /\ live'.status = live.status
      BY <2>1 DEF Livelike
    <2>4. ProcessTypes'
      BY <2>1, <2>2, <2>3 DEF ProcessInv, ProcessTypes, Callerlike, Childlike
    <2> QED BY <2>1, <2>2, <2>3, <2>4, ProcessRests
  <1> QED BY <1>1, <1>2, <1>3, <1>4

\* A request or an answer that is no poll and no end of a child comes or goes.
LEMMA QueuesMove ==
  ASSUME ProcessInv, ProcessTypes', UNCHANGED <<kind, child>>,
         caller.state \in {"running", "closed"},
         caller'.state = caller.state, caller'.told = caller.told,
         caller.killed => caller'.killed,
         live'.phase = live.phase, live'.found = live.found, live'.events = live.events,
         live'.waiting = live.waiting, live'.killed = live.killed, live'.status = live.status,
         NEW d \in {0, 1}, NEW b \in {0, 1},
         \A i \in DOMAIN toHost' :
           /\ toHost'[i] \in {"spawn", "poll"} => i + d \in DOMAIN toHost /\ toHost[i + d] = toHost'[i]
           /\ toHost'[i] = "kill" => caller'.killed,
         \A i \in DOMAIN toCaller' :
           toCaller'[i].op \in {"spawn", "poll", "sync"} =>
             i + b \in DOMAIN toCaller /\ toCaller[i + b] = toCaller'[i],
         \A j \in DOMAIN toCaller : toCaller[j].op = "poll" =>
           \E i \in DOMAIN toCaller' : toCaller'[i] = toCaller[j]
  PROVE  ProcessInv'
  <1>0. \A i \in DOMAIN toHost' : i \in Nat
    BY DEF ProcessTypes
  <1>1. \A i \in DOMAIN toCaller' : i \in Nat
    BY DEF ProcessTypes
  <1>2. Beginning'
    BY DEF ProcessInv, Beginning
  <1>3. OnePoll'
    <2>1. \A i, j \in DOMAIN toHost' : toHost'[i] = "poll" /\ toHost'[j] = "poll" => i = j
      BY <1>0 DEF ProcessInv, OnePoll
    <2>2. \A i, j \in DOMAIN toCaller' : toCaller'[i].op = "poll" /\ toCaller'[j].op = "poll" => i = j
      <3> SUFFICES ASSUME NEW i \in DOMAIN toCaller', NEW j \in DOMAIN toCaller',
                          toCaller'[i].op = "poll", toCaller'[j].op = "poll"
                   PROVE  i = j
        OBVIOUS
      <3>1. /\ i + b \in DOMAIN toCaller /\ toCaller[i + b].op = "poll"
            /\ j + b \in DOMAIN toCaller /\ toCaller[j + b].op = "poll"
        OBVIOUS
      <3>2. i + b = j + b
        BY <3>1 DEF ProcessInv, OnePoll
      <3>3. i \in Nat /\ j \in Nat
        BY <1>1
      <3> QED BY <3>2, <3>3
    <2> QED BY <2>1, <2>2 DEF ProcessInv, OnePoll
  <1>4. Exits'
    <2>1. ExitLast(child', live', live'.events)
      BY DEF ProcessInv, Exits, ExitLast, TrueEnd
    <2>2. \A i \in DOMAIN toCaller' :
            toCaller'[i].op = "poll" => ExitLast(child', live', toCaller'[i].events)
      BY DEF ProcessInv, Exits, ExitLast, TrueEnd
    <2>3. \A st : TrueWord(child, live, st) => TrueWord(child', live', st)
      BY DEF TrueWord, TrueEnd
    <2> QED BY <2>1, <2>2, <2>3 DEF ProcessInv, Exits
  <1>5. Killings'
    BY DEF ProcessInv, Killings
  <1>6. Kept'
    BY DEF ProcessInv, Kept
  <1> QED BY <1>2, <1>3, <1>4, <1>5, <1>6 DEF ProcessInv

\* A sequence with an element more, and one with an element less, for QueuesMove.
LEMMA Adds ==
  ASSUME NEW D, NEW q \in Seq(D), NEW x \in D
  PROVE  /\ Append(q, x) \in Seq(D)
         /\ \A i \in DOMAIN Append(q, x) :
              \/ i + 0 \in DOMAIN q /\ q[i + 0] = Append(q, x)[i]
              \/ Append(q, x)[i] = x
         /\ \A j \in DOMAIN q : \E i \in DOMAIN Append(q, x) : Append(q, x)[i] = q[j]
  <1>1. \A i \in DOMAIN Append(q, x) : i + 0 = i
    BY AppendAt
  <1>2. /\ Append(q, x) \in Seq(D)
        /\ DOMAIN Append(q, x) = DOMAIN q \cup {Len(q) + 1}
        /\ \A i \in DOMAIN q : Append(q, x)[i] = q[i]
        /\ Append(q, x)[Len(q) + 1] = x
    BY AppendAt
  <1> QED BY <1>1, <1>2

LEMMA Stays ==
  ASSUME NEW D, NEW q \in Seq(D)
  PROVE  /\ \A i \in DOMAIN q : i + 0 \in DOMAIN q /\ q[i + 0] = q[i]
         /\ \A j \in DOMAIN q : \E i \in DOMAIN q : q[i] = q[j]
  OBVIOUS

LEMMA Drops ==
  ASSUME NEW D, NEW q \in Seq(D), q # <<>>
  PROVE  /\ Tail(q) \in Seq(D) /\ Head(q) \in D /\ Head(q) = q[1] /\ 1 \in DOMAIN q
         /\ \A i \in DOMAIN Tail(q) : i + 1 \in DOMAIN q /\ q[i + 1] = Tail(q)[i]
         /\ \A j \in DOMAIN q : q[j] # Head(q) => \E i \in DOMAIN Tail(q) : Tail(q)[i] = q[j]
  <1>1. \A j \in DOMAIN q : q[j] # Head(q) => \E i \in DOMAIN Tail(q) : Tail(q)[i] = q[j]
    <2> SUFFICES ASSUME NEW j \in DOMAIN q, q[j] # Head(q)
                 PROVE  \E i \in DOMAIN Tail(q) : Tail(q)[i] = q[j]
      OBVIOUS
    <2>1. j # 1
      BY TailAt
    <2>2. j - 1 \in DOMAIN Tail(q) /\ Tail(q)[j - 1] = q[j]
      BY <2>1, TailAt
    <2> QED BY <2>2
  <1> QED BY <1>1, TailAt

LEMMA StdinAsks ==
  ASSUME ProcessInv, P!SendStdin \/ P!Kill PROVE ProcessInv'
  <1> USE ProcessFields
  <1>1. /\ UNCHANGED <<kind, child, live, stdin, toCaller>>
        /\ caller.state \in {"running", "closed"}
    BY DEF P!SendStdin, P!Kill, P!Known
  <1>2. PICK m :
             /\ m \in {"write", "end", "kill"} /\ toHost' = Append(toHost, m)
             /\ IF m = "kill" THEN caller' = [caller EXCEPT !.killed = TRUE]
                ELSE caller' = [caller EXCEPT !.busy = TRUE]
    BY DEF P!SendStdin, P!Kill
  <1>3. /\ Callerlike(caller') /\ caller'.state = caller.state /\ caller'.told = caller.told
        /\ (caller.killed => caller'.killed) /\ (m = "kill" => caller'.killed)
    BY <1>2 DEF Callerlike
  <1>4. m \in Requests /\ m # "spawn" /\ m # "poll"
    BY <1>2 DEF Requests
  <1>5. /\ toHost' \in Seq(Requests)
        /\ \A i \in DOMAIN toHost' :
             \/ i + 0 \in DOMAIN toHost /\ toHost[i + 0] = toHost'[i]
             \/ toHost'[i] = m
    BY <1>2, <1>4, Adds
  <1>6. \A i \in DOMAIN toHost' :
           /\ toHost'[i] \in {"spawn", "poll"} => i + 0 \in DOMAIN toHost /\ toHost[i + 0] = toHost'[i]
           /\ toHost'[i] = "kill" => caller'.killed
    <2> SUFFICES ASSUME NEW i \in DOMAIN toHost'
                 PROVE  /\ toHost'[i] \in {"spawn", "poll"} =>
                             i + 0 \in DOMAIN toHost /\ toHost[i + 0] = toHost'[i]
                        /\ toHost'[i] = "kill" => caller'.killed
      OBVIOUS
    <2>1. CASE i + 0 \in DOMAIN toHost /\ toHost[i + 0] = toHost'[i]
      BY <1>3, <2>1 DEF ProcessInv, Killings
    <2>2. CASE toHost'[i] = m
      BY <1>3, <1>4, <2>2
    <2> QED BY <1>5, <2>1, <2>2
  <1>7. /\ \A i \in DOMAIN toCaller : i + 0 \in DOMAIN toCaller /\ toCaller[i + 0] = toCaller[i]
        /\ \A j \in DOMAIN toCaller : \E i \in DOMAIN toCaller : toCaller[i] = toCaller[j]
    BY Stays
  <1>8. ProcessTypes'
    BY <1>1, <1>3, <1>5 DEF ProcessInv, ProcessTypes, Childlike, Livelike
  <1>9. 0 \in {0, 1}
    OBVIOUS
  <1> QED BY <1>1, <1>3, <1>6, <1>7, <1>8, <1>9, QueuesMove

LEMMA StdinAnswers ==
  ASSUME ProcessInv, P!OnWritten PROVE ProcessInv'
  <1> USE ProcessFields
  <1>1. /\ UNCHANGED <<kind, child, live, stdin, toHost>> /\ toCaller # <<>>
        /\ toCaller' = Tail(toCaller) /\ Head(toCaller).op \in {"write", "end"}
    BY DEF P!OnWritten, P!Answered
  <1>2. \/ caller' = [caller EXCEPT !.busy = FALSE, !.queued = caller.queued - 1]
        \/ caller' = [caller EXCEPT !.busy = FALSE, !.stdin = "ended"]
    BY DEF P!OnWritten
  <1>3. /\ Callerlike(caller') /\ caller'.state = caller.state /\ caller'.told = caller.told
        /\ caller'.killed = caller.killed
    <2>1. caller.queued - 1 \in Int
      OBVIOUS
    <2> QED BY <1>2, <2>1 DEF Callerlike
  <1>4. /\ toCaller' \in Seq(Answers) /\ Head(toCaller) = toCaller[1] /\ 1 \in DOMAIN toCaller
        /\ \A i \in DOMAIN toCaller' :
             i + 1 \in DOMAIN toCaller /\ toCaller[i + 1] = toCaller'[i]
        /\ \A j \in DOMAIN toCaller : toCaller[j] # Head(toCaller) =>
             \E i \in DOMAIN toCaller' : toCaller'[i] = toCaller[j]
    BY <1>1, Drops
  <1>5. caller.state \in {"running", "closed"}
    BY <1>1, <1>4 DEF ProcessInv, ProcessTypes, Beginning, Callerlike
  <1>6. \A j \in DOMAIN toCaller : toCaller[j].op = "poll" =>
           \E i \in DOMAIN toCaller' : toCaller'[i] = toCaller[j]
    BY <1>1, <1>4
  <1>7. \A i \in DOMAIN toHost :
           /\ i + 0 \in DOMAIN toHost /\ toHost[i + 0] = toHost[i]
           /\ toHost[i] = "kill" => caller.killed
    BY Stays DEF ProcessInv, Killings
  <1>8. ProcessTypes'
    BY <1>1, <1>3, <1>4 DEF ProcessInv, ProcessTypes, Childlike, Livelike
  <1>9. 0 \in {0, 1} /\ 1 \in {0, 1}
    OBVIOUS
  <1> QED BY <1>1, <1>3, <1>4, <1>5, <1>6, <1>7, <1>8, <1>9, QueuesMove

\* The page deals with a request of stdin, or the child with what was written.
LEMMA StdinServed ==
  ASSUME ProcessInv, P!OnWrite \/ P!OnEnd PROVE ProcessInv'
  <1> USE ProcessFields
  <1>1. /\ UNCHANGED <<kind, child, caller>> /\ toHost # <<>>
        /\ toHost' = Tail(toHost) /\ Head(toHost) \in {"write", "end"}
    BY DEF P!OnWrite, P!OnEnd, P!Requested
  <1>2. toCaller' = toCaller \/ \E op \in {"write", "end"} : toCaller' = Append(toCaller, [op |-> op])
    BY DEF P!OnWrite, P!OnEnd, P!Reply
  <1>3. /\ stdin' \in [chunks : Int, asked : {stdin'.asked}, closed : {stdin'.closed}]
    <2>1. stdin \in [chunks : Int, asked : {stdin.asked}, closed : {stdin.closed}]
          /\ stdin.chunks + 1 \in Int
      BY DEF ProcessInv, ProcessTypes
    <2>2. \/ stdin' = [stdin EXCEPT !.chunks = stdin.chunks + 1]
          \/ stdin' = stdin
          \/ \E c : stdin' = [stdin EXCEPT !.closed = c]
      BY DEF P!OnWrite, P!OnEnd
    <2> QED BY <2>1, <2>2
  <1>4. /\ Livelike(live') /\ live'.phase = live.phase /\ live'.found = live.found
        /\ live'.events = live.events /\ live'.waiting = live.waiting
        /\ live'.killed = live.killed /\ live'.status = live.status
    <2>1. live' = live \/ \E s : live' = [live EXCEPT !.stdin = s]
      BY DEF P!OnWrite, P!OnEnd
    <2> QED BY <2>1 DEF Livelike
  <1>5. /\ toHost' \in Seq(Requests) /\ Head(toHost) = toHost[1] /\ 1 \in DOMAIN toHost
        /\ \A i \in DOMAIN toHost' : i + 1 \in DOMAIN toHost /\ toHost[i + 1] = toHost'[i]
    BY <1>1, Drops
  <1>6. caller.state \in {"running", "closed"}
    BY <1>1, <1>5 DEF ProcessInv, ProcessTypes, Beginning, Callerlike
  <1>7. /\ toCaller' \in Seq(Answers)
        /\ \A i \in DOMAIN toCaller' : toCaller'[i].op \in {"spawn", "poll", "sync"} =>
             i + 0 \in DOMAIN toCaller /\ toCaller[i + 0] = toCaller'[i]
        /\ \A j \in DOMAIN toCaller : \E i \in DOMAIN toCaller' : toCaller'[i] = toCaller[j]
    <2>1. CASE toCaller' = toCaller
      BY <2>1, Stays
    <2>2. ASSUME NEW op, op \in {"write", "end"}, toCaller' = Append(toCaller, [op |-> op])
          PROVE  /\ toCaller' \in Seq(Answers)
                 /\ \A i \in DOMAIN toCaller' : toCaller'[i].op \in {"spawn", "poll", "sync"} =>
                      i + 0 \in DOMAIN toCaller /\ toCaller[i + 0] = toCaller'[i]
                 /\ \A j \in DOMAIN toCaller : \E i \in DOMAIN toCaller' : toCaller'[i] = toCaller[j]
      <3> DEFINE x == [op |-> op]
      <3>1. x \in Answers /\ x.op \notin {"spawn", "poll", "sync"}
        BY <2>2 DEF Answers
      <3>2. toCaller' = Append(toCaller, x)
        BY <2>2
      <3> HIDE DEF x
      <3>3. /\ toCaller' \in Seq(Answers)
            /\ \A i \in DOMAIN toCaller' : \/ i + 0 \in DOMAIN toCaller /\ toCaller[i + 0] = toCaller'[i]
                                          \/ toCaller'[i] = x
            /\ \A j \in DOMAIN toCaller : \E i \in DOMAIN toCaller' : toCaller'[i] = toCaller[j]
        <4>1. toCaller \in Seq(Answers)
          OBVIOUS
        <4> QED BY ONLY <3>1, <3>2, <4>1, Adds
      <3> QED BY <3>1, <3>3
    <2> QED BY <1>2, <2>1, <2>2
  <1>8. \A i \in DOMAIN toHost' : toHost'[i] = "kill" => caller.killed
    BY <1>5 DEF ProcessInv, Killings
  <1>9. ProcessTypes'
    BY <1>1, <1>3, <1>4, <1>5, <1>7 DEF ProcessInv, ProcessTypes, Childlike, Callerlike
  <1>10. 0 \in {0, 1} /\ 1 \in {0, 1}
    OBVIOUS
  <1> QED BY <1>1, <1>4, <1>5, <1>6, <1>7, <1>8, <1>9, <1>10, QueuesMove

LEMMA TakeKeeps ==
  ASSUME ProcessInv, P!Take PROVE ProcessInv'
  <1> USE ProcessFields
  <1>1. CASE kind.call = "sync"
    BY <1>1, ProcessIdles
  <1>2. CASE kind.call = "spawn"
    <2> DEFINE x == [op |-> "write"]
    <2>1. /\ UNCHANGED <<kind, child, caller, live, toHost>> /\ toCaller' = Append(toCaller, x)
          /\ stdin.chunks > 0 /\ stdin' = [stdin EXCEPT !.asked = FALSE, !.chunks = stdin.chunks - 1]
      BY <1>2 DEF P!Take, P!Reply
    <2>2. x \in Answers /\ x.op \notin {"spawn", "poll", "sync"}
      BY DEF Answers
    <2> HIDE DEF x
    <2>3. caller.state \in {"running", "closed"}
      <3>1. stdin.chunks # 0
        BY <2>1
      <3> QED BY <1>2, <3>1 DEF ProcessInv, Beginning
    <2>4. stdin' \in [chunks : Int, asked : {stdin'.asked}, closed : {stdin'.closed}]
      <3>1. stdin \in [chunks : Int, asked : {stdin.asked}, closed : {stdin.closed}]
            /\ stdin.chunks - 1 \in Int
        BY <2>1 DEF ProcessInv, ProcessTypes
      <3> QED BY <2>1, <3>1
    <2>5. /\ toCaller' \in Seq(Answers)
          /\ \A i \in DOMAIN toCaller' : toCaller'[i].op \in {"spawn", "poll", "sync"} =>
               i + 0 \in DOMAIN toCaller /\ toCaller[i + 0] = toCaller'[i]
          /\ \A j \in DOMAIN toCaller : \E i \in DOMAIN toCaller' : toCaller'[i] = toCaller[j]
      <3>1. /\ toCaller' \in Seq(Answers)
            /\ \A i \in DOMAIN toCaller' : \/ i + 0 \in DOMAIN toCaller /\ toCaller[i + 0] = toCaller'[i]
                                          \/ toCaller'[i] = x
            /\ \A j \in DOMAIN toCaller : \E i \in DOMAIN toCaller' : toCaller'[i] = toCaller[j]
        <4>1. toCaller \in Seq(Answers)
          OBVIOUS
        <4> QED BY ONLY <2>1, <2>2, <4>1, Adds
      <3> QED BY <2>2, <3>1
    <2>6. \A i \in DOMAIN toHost :
             /\ i + 0 \in DOMAIN toHost /\ toHost[i + 0] = toHost[i]
             /\ toHost[i] = "kill" => caller.killed
      BY Stays DEF ProcessInv, Killings
    <2>7. ProcessTypes'
      <3>1. Callerlike(caller') /\ Childlike(child') /\ Livelike(live')
        BY <2>1
      <3> QED BY <2>1, <2>4, <2>5, <3>1 DEF ProcessTypes
    <2>8. 0 \in {0, 1}
      OBVIOUS
    <2> QED BY <2>1, <2>3, <2>5, <2>6, <2>7, <2>8, QueuesMove
  <1> QED BY <1>1, <1>2

\* A sequence without positions, and one that got its first element.
LEMMA NoneThere ==
  ASSUME NEW D, NEW q \in Seq(D), \A i \in DOMAIN q : FALSE PROVE q = <<>>
  <1>1. Len(q) \in Nat /\ DOMAIN q = 1 .. Len(q)
    BY LenProperties
  <1>2. Len(q) = 0
    <2>1. Len(q) # 0 => 1 \in 1 .. Len(q)
      BY <1>1
    <2> QED BY <1>1, <2>1
  <1> QED BY <1>2, EmptySeq

LEMMA FirstOne ==
  ASSUME NEW D, NEW x \in D
  PROVE  /\ Append(<<>>, x) \in Seq(D) /\ Append(<<>>, x) # <<>> /\ Len(Append(<<>>, x)) = 1
         /\ \A i \in DOMAIN Append(<<>>, x) : i = 1 /\ Append(<<>>, x)[i] = x
         /\ 1 \in DOMAIN Append(<<>>, x)
  <1>1. <<>> \in Seq(D) /\ Len(<<>>) = 0
    BY EmptySeq
  <1>2. /\ Append(<<>>, x) \in Seq(D) /\ Append(<<>>, x) # <<>>
        /\ Len(Append(<<>>, x)) = 0 + 1
        /\ Append(<<>>, x)[0 + 1] = x /\ DOMAIN Append(<<>>, x) = 1 .. (0 + 1)
    BY <1>1, AppendAt
  <1> QED BY <1>2

LEMMA SpawnKeeps ==
  ASSUME ProcessInv, P!Spawn PROVE ProcessInv'
  <1> USE ProcessFields
  <1>1. /\ caller.state = "new" /\ toHost = <<>> /\ live.phase = "none"
        /\ UNCHANGED <<kind, child, live, stdin, toCaller>> /\ toHost' = Append(toHost, "spawn")
    BY DEF P!Spawn, ProcessInv, Beginning
  <1>2. \/ kind.call = "spawn" /\ caller' = [caller EXCEPT !.state = "spawning"]
        \/ kind.call = "sync" /\ \E n \in {0, 1} : caller' = [caller EXCEPT !.state = "parked", !.queued = n]
    BY DEF P!Spawn
  <1>3. /\ Callerlike(caller') /\ caller'.told = caller.told /\ caller'.killed = caller.killed
        /\ \/ kind.call = "spawn" /\ caller'.state = "spawning"
           \/ kind.call = "sync" /\ caller'.state = "parked"
    <2>1. CASE kind.call = "spawn" /\ caller' = [caller EXCEPT !.state = "spawning"]
      BY <2>1 DEF Callerlike
    <2>2. ASSUME NEW n \in Int, kind.call = "sync",
                 caller' = [caller EXCEPT !.state = "parked", !.queued = n]
          PROVE  /\ Callerlike(caller') /\ caller'.told = caller.told
                 /\ caller'.killed = caller.killed /\ caller'.state = "parked"
      BY <2>2 DEF Callerlike
    <2>3. \A n \in {0, 1} : n \in Int
      OBVIOUS
    <2> QED BY <1>2, <2>1, <2>2, <2>3
  <1>4. toCaller = <<>>
    <2>1. \A i \in DOMAIN toCaller : FALSE
      BY <1>1 DEF ProcessInv, Beginning
    <2> QED BY <2>1, NoneThere
  <1>5. "spawn" \in Requests
    BY DEF Requests
  <1>6. /\ toHost' \in Seq(Requests) /\ \A i \in DOMAIN toHost' : i = 1 /\ toHost'[i] = "spawn"
    BY <1>1, <1>5, FirstOne
  <1>7. ~ live.found /\ ~ live.waiting /\ live.events = <<>> /\ child.state = "none" /\ ~ child.cut
    BY <1>1 DEF ProcessInv, Beginning
  <1>8. \A i \in DOMAIN toCaller : FALSE
    BY <1>4
  <1>9. ProcessTypes'
    BY <1>1, <1>3, <1>6 DEF ProcessInv, ProcessTypes, Childlike, Livelike
  <1>10. caller.told = None /\ (kind.call = "spawn" => stdin.chunks = 0)
    BY <1>1 DEF ProcessInv, Beginning
  <1>11. Beginning'
    BY <1>1, <1>3, <1>4, <1>6, <1>7, <1>8, <1>10 DEF Beginning
  <1>12. OnePoll'
    BY <1>1, <1>3, <1>6, <1>7, <1>8 DEF OnePoll
  <1>13. Exits'
    BY <1>1, <1>3, <1>8, <1>10 DEF ProcessInv, Exits
  <1>14. Killings' /\ Kept'
    BY <1>1, <1>3, <1>6 DEF ProcessInv, Killings, Kept
  <1> QED BY <1>9, <1>11, <1>12, <1>13, <1>14 DEF ProcessInv

\* The page takes up the spawn, which is the only request there is.
LEMMA OnSpawnKeeps ==
  ASSUME ProcessInv, P!OnSpawn PROVE ProcessInv'
  <1> USE ProcessFields
  <1>1. /\ UNCHANGED <<kind, caller, child, stdin, toCaller>> /\ toHost # <<>>
        /\ toHost' = Tail(toHost) /\ live' = [live EXCEPT !.phase = "starting"]
        /\ Head(toHost) = "spawn"
    BY DEF P!OnSpawn, P!Requested
  <1>2. /\ toHost' \in Seq(Requests) /\ Head(toHost) = toHost[1] /\ 1 \in DOMAIN toHost
        /\ \A i \in DOMAIN toHost' : i + 1 \in DOMAIN toHost /\ i # 0
    BY <1>1, TailAt
  <1>3. /\ live.phase = "none" /\ caller.state \in {"spawning", "parked"} /\ toCaller = <<>>
        /\ \A i \in DOMAIN toHost : i = 1
    BY <1>1, <1>2 DEF ProcessInv, Beginning
  <1>4. toHost' = <<>>
    <2>1. ASSUME NEW i \in DOMAIN toHost' PROVE FALSE
      <3>1. i + 1 = 1 /\ i # 0 /\ i \in Nat
        BY <1>1, <1>2, <1>3, TailAt
      <3> QED BY <3>1
    <2> QED BY <1>2, <2>1, NoneThere
  <1>5. /\ Livelike(live') /\ live'.phase = "starting" /\ live'.found = live.found
        /\ live'.events = live.events /\ live'.waiting = live.waiting
        /\ live'.killed = live.killed /\ live'.status = live.status
    BY <1>1 DEF Livelike
  <1>6. ~ live.found /\ ~ live.waiting /\ live.events = <<>> /\ child.state = "none" /\ ~ child.cut
        /\ caller.told = None
    BY <1>3 DEF ProcessInv, Beginning
  <1>7. (\A i \in DOMAIN toCaller : FALSE) /\ (\A i \in DOMAIN toHost' : FALSE)
        /\ (\A i \in DOMAIN live.events : FALSE)
    BY <1>3, <1>4, <1>6
  <1>8. ProcessTypes'
    BY <1>1, <1>2, <1>5 DEF ProcessInv, ProcessTypes, Callerlike, Childlike
  <1>9. Beginning'
    BY <1>1, <1>3, <1>4, <1>5, <1>6, <1>7 DEF ProcessInv, Beginning
  <1>10. OnePoll'
    BY <1>1, <1>5, <1>6, <1>7 DEF OnePoll
  <1>11. Exits'
    BY <1>1, <1>5, <1>6, <1>7 DEF ProcessInv, Exits, ExitLast
  <1>12. Killings' /\ Kept'
    BY <1>1, <1>3, <1>5, <1>7 DEF ProcessInv, Killings, Kept
  <1> QED BY <1>8, <1>9, <1>10, <1>11, <1>12 DEF ProcessInv

LEMMA StartedKeeps ==
  ASSUME ProcessInv, P!Started PROVE ProcessInv'
  <1> USE ProcessFields
  <1>1. /\ UNCHANGED <<kind, caller, toHost>> /\ live.phase = "starting"
        /\ caller.state \in {"spawning", "parked"} /\ toHost = <<>> /\ toCaller = <<>>
        /\ ~ live.found /\ ~ live.waiting /\ live.events = <<>>
        /\ child.state = "none" /\ ~ child.cut /\ caller.told = None
        /\ (caller.state = "spawning" => kind.call = "spawn")
        /\ (caller.state = "parked" => kind.call = "sync")
    BY DEF P!Started, ProcessInv, Beginning
  <1>2. (\A i \in DOMAIN toCaller : FALSE) /\ (\A i \in DOMAIN toHost : FALSE)
        /\ (\A i \in DOMAIN live.events : FALSE)
    BY <1>1
  <1> DEFINE no == [op |-> "spawn", ok |-> FALSE]
             failed == [op |-> "sync", status |-> "none", events |-> <<>>]
             yes == [op |-> "spawn", ok |-> TRUE]
  <1>3. no \in Answers /\ failed \in Answers /\ yes \in Answers
    <2>1. <<>> \in Seq(Events)
      BY EmptySeq
    <2> QED BY <2>1 DEF Answers
  <1>4. /\ no.op = "spawn" /\ no.ok = FALSE /\ yes.op = "spawn" /\ yes.ok = TRUE
        /\ failed.op = "sync" /\ failed.status = "none"
    OBVIOUS
  <1>5. CASE live' = [live EXCEPT !.phase = "none"] /\ UNCHANGED <<child, stdin>>
             /\ toCaller' = Append(toCaller, IF kind.call = "spawn" THEN no ELSE failed)
    <2> DEFINE x == IF kind.call = "spawn" THEN no ELSE failed
    <2>1. x \in Answers /\ (x = no \/ x = failed) /\ (kind.call = "spawn" => x = no)
          /\ (kind.call # "spawn" => x = failed)
      BY <1>3
    <2>2. toCaller' = Append(<<>>, x)
      BY <1>1, <1>5
    <2> HIDE DEF x
    <2>3. toCaller' \in Seq(Answers) /\ \A i \in DOMAIN toCaller' : i = 1 /\ toCaller'[i] = x
      BY <2>1, <2>2, FirstOne
    <2>4. /\ Livelike(live') /\ live'.phase = "none" /\ live'.found = live.found
          /\ live'.events = live.events /\ live'.waiting = live.waiting
          /\ live'.killed = live.killed /\ live'.status = live.status
      BY <1>5 DEF Livelike
    <2> HIDE DEF no
    <2> HIDE DEF failed
    <2>5. ProcessTypes'
      BY <1>1, <1>5, <2>3, <2>4 DEF ProcessInv, ProcessTypes, Callerlike, Childlike
    <2>6. Beginning'
      BY <1>1, <1>2, <1>4, <1>5, <2>1, <2>3, <2>4 DEF ProcessInv, Beginning
    <2>7. OnePoll'
      BY <1>1, <1>2, <1>4, <2>1, <2>3, <2>4 DEF OnePoll
    <2>8. Exits'
      BY <1>1, <1>2, <1>4, <1>5, <2>1, <2>3, <2>4 DEF Exits, ExitLast, TrueWord
    <2>9. Killings' /\ Kept'
      BY <1>1, <1>2, <1>5, <2>4 DEF ProcessInv, Killings, Kept
    <2> QED BY <2>5, <2>6, <2>7, <2>8, <2>9 DEF ProcessInv
  <1>6. CASE /\ \E s : live' = [live EXCEPT !.phase = "running", !.found = TRUE, !.stdin = s]
             /\ child' = [child EXCEPT !.state = "runs"]
             /\ \E c : stdin' = [stdin EXCEPT !.closed = c, !.chunks =
                   IF kind.call = "sync" /\ kind.stdin = "pipe" THEN caller.queued ELSE 0]
             /\ toCaller' = IF kind.call = "spawn" THEN Append(toCaller, yes) ELSE toCaller
    <2>1. /\ toCaller' \in Seq(Answers)
          /\ \A i \in DOMAIN toCaller' : i = 1 /\ toCaller'[i] = yes /\ kind.call = "spawn"
      <3>1. CASE kind.call = "spawn"
        <4>1. toCaller' = Append(<<>>, yes)
          BY <1>1, <1>6, <3>1
        <4> HIDE DEF yes
        <4> QED BY <1>3, <3>1, <4>1, FirstOne
      <3>2. CASE kind.call # "spawn"
        BY <1>1, <1>2, <1>6, <3>2
      <3> QED BY <3>1, <3>2
    <2>2. /\ Livelike(live') /\ live'.phase = "running" /\ live'.found = TRUE
          /\ live'.events = live.events /\ live'.waiting = live.waiting
          /\ live'.killed = live.killed /\ live'.status = live.status
      BY <1>6 DEF Livelike
    <2>3. Childlike(child') /\ child'.cut = child.cut /\ child'.state = "runs"
      BY <1>6 DEF Childlike
    <2>4. /\ stdin' \in [chunks : Int, asked : {stdin'.asked}, closed : {stdin'.closed}]
          /\ kind.call = "spawn" => stdin'.chunks = 0
      <3> DEFINE k == IF kind.call = "sync" /\ kind.stdin = "pipe" THEN caller.queued ELSE 0
      <3>1. k \in Int /\ (kind.call = "spawn" => k = 0)
        OBVIOUS
      <3>2. \E c : stdin' = [stdin EXCEPT !.closed = c, !.chunks = k]
        BY <1>6
      <3>3. stdin \in [chunks : Int, asked : {stdin.asked}, closed : {stdin.closed}]
        BY DEF ProcessInv, ProcessTypes
      <3> HIDE DEF k
      <3> QED BY <3>1, <3>2, <3>3
    <2> HIDE DEF yes
    <2>5. ProcessTypes'
      BY <1>1, <2>1, <2>2, <2>3, <2>4 DEF ProcessInv, ProcessTypes, Callerlike
    <2>6. Beginning'
      BY <1>1, <1>2, <1>4, <2>1, <2>2, <2>3, <2>4 DEF ProcessInv, Beginning
    <2>7. OnePoll'
      BY <1>1, <1>2, <1>4, <2>1, <2>2 DEF OnePoll
    <2>8. Exits'
      BY <1>1, <1>2, <1>4, <2>1, <2>2, <2>3 DEF Exits, ExitLast
    <2>9. Killings' /\ Kept'
      BY <1>1, <1>2, <2>2, <2>3 DEF ProcessInv, Killings, Kept
    <2> QED BY <2>5, <2>6, <2>7, <2>8, <2>9 DEF ProcessInv
  <1>7. \/ live' = [live EXCEPT !.phase = "none"] /\ UNCHANGED <<child, stdin>>
             /\ toCaller' = Append(toCaller, IF kind.call = "spawn" THEN no ELSE failed)
        \/ /\ \E s : live' = [live EXCEPT !.phase = "running", !.found = TRUE, !.stdin = s]
           /\ child' = [child EXCEPT !.state = "runs"]
           /\ \E c : stdin' = [stdin EXCEPT !.closed = c, !.chunks =
                 IF kind.call = "sync" /\ kind.stdin = "pipe" THEN caller.queued ELSE 0]
           /\ toCaller' = IF kind.call = "spawn" THEN Append(toCaller, yes) ELSE toCaller
    BY DEF P!Started
  <1> QED BY <1>5, <1>6, <1>7

LEMMA ProcessSpawns ==
  ASSUME ProcessInv, P!OnSpawned PROVE ProcessInv'
  <1> USE ProcessFields
  <1>1. /\ UNCHANGED <<kind, child, live, stdin>> /\ toCaller # <<>> /\ toCaller' = Tail(toCaller)
        /\ Head(toCaller).op = "spawn"
    BY DEF P!OnSpawned, P!Answered
  <1>2. /\ toCaller' \in Seq(Answers) /\ Head(toCaller) = toCaller[1] /\ 1 \in DOMAIN toCaller
        /\ \A i \in DOMAIN toCaller' : i + 1 \in DOMAIN toCaller /\ i # 0 /\ i \in Nat
    BY <1>1, TailAt
  <1>3. /\ caller.state = "spawning" /\ toHost = <<>> /\ kind.call = "spawn" /\ caller.told = None
        /\ \A i \in DOMAIN toCaller : i = 1
        /\ IF Head(toCaller).ok THEN live.found ELSE live.phase = "none"
    BY <1>1, <1>2 DEF ProcessInv, Beginning
  <1>4. \A i \in DOMAIN toCaller' : FALSE
    <2> SUFFICES ASSUME NEW i \in DOMAIN toCaller' PROVE FALSE
      OBVIOUS
    <2>1. i + 1 = 1 /\ i # 0 /\ i \in Nat
      BY <1>2, <1>3
    <2> QED BY <2>1
  <1>5. toCaller' = <<>>
    BY <1>2, <1>4, NoneThere
  <1>6. ~ live.waiting
    BY <1>3 DEF ProcessInv, OnePoll
  <1>7. \A i \in DOMAIN toHost : FALSE
    BY <1>3
  <1>8. CASE Head(toCaller).ok
    <2>1. caller' = [caller EXCEPT !.state = "running"] /\ toHost' = Append(<<>>, "poll")
      BY <1>3, <1>8 DEF P!OnSpawned
    <2>2. Callerlike(caller') /\ caller'.state = "running" /\ caller'.told = caller.told
          /\ caller'.killed = caller.killed
      BY <2>1 DEF Callerlike
    <2>3. "poll" \in Requests
      BY DEF Requests
    <2>4. toHost' \in Seq(Requests) /\ \A i \in DOMAIN toHost' : i = 1 /\ toHost'[i] = "poll"
      BY <2>1, <2>3, FirstOne
    <2>5. live.found /\ live.phase \notin {"none", "starting"}
      BY <1>3, <1>8 DEF ProcessInv, Beginning
    <2>6. ProcessTypes'
      BY <1>1, <1>2, <2>2, <2>4 DEF ProcessInv, ProcessTypes, Childlike, Livelike
    <2>7. Beginning'
      BY <1>1, <1>3, <1>4, <2>2, <2>4, <2>5 DEF Beginning
    <2>8. OnePoll'
      BY <1>1, <1>4, <1>6, <2>2, <2>4, <2>5 DEF OnePoll
    <2>9. Exits'
      BY <1>1, <1>3, <1>4, <2>2 DEF ProcessInv, Exits
    <2>10. Killings' /\ Kept'
      BY <1>1, <2>2, <2>4, <2>5 DEF ProcessInv, Killings, Kept
    <2> QED BY <2>6, <2>7, <2>8, <2>9, <2>10 DEF ProcessInv
  <1>9. CASE ~ Head(toCaller).ok
    <2>1. \E n : caller' = [caller EXCEPT !.state = "closed", !.told = "none", !.callbacks = n,
                                          !.stdin = "ended", !.queued = 0]
          /\ toHost' = toHost
      <3>1. toHost' = toHost
            /\ caller' = P!Finish([caller EXCEPT !.callbacks = @ + 1, !.stdin = "ended", !.queued = 0],
                                  "none")
        BY <1>9 DEF P!OnSpawned
      <3> QED BY <3>1 DEF P!Finish, Callerlike
    <2>2. Callerlike(caller') /\ caller'.state = "closed" /\ caller'.told = "none"
          /\ caller'.killed = caller.killed /\ toHost' = toHost
      <3>1. 0 \in Int
        OBVIOUS
      <3>2. PICK n : caller' = [caller EXCEPT !.state = "closed", !.told = "none", !.callbacks = n,
                                              !.stdin = "ended", !.queued = 0]
        BY <2>1
      <3> QED BY <2>1, <3>1, <3>2 DEF Callerlike
    <2>3. live.phase = "none"
      BY <1>3, <1>9
    <2>4. ProcessTypes'
      BY <1>1, <1>2, <2>2 DEF ProcessInv, ProcessTypes, Childlike, Livelike
    <2>5. Beginning'
      BY <1>1, <1>4, <1>7, <2>2, <2>3 DEF ProcessInv, Beginning
    <2>6. OnePoll'
      BY <1>1, <1>4, <1>6, <1>7, <2>2 DEF OnePoll
    <2>7. Exits'
      BY <1>1, <1>4, <2>2, <2>3 DEF ProcessInv, Exits, TrueWord
    <2>8. Killings' /\ Kept'
      BY <1>1, <2>2 DEF ProcessInv, Killings, Kept
    <2> QED BY <2>4, <2>5, <2>6, <2>7, <2>8 DEF ProcessInv
  <1> QED BY <1>8, <1>9

LEMMA OnSyncKeeps ==
  ASSUME ProcessInv, P!OnSync PROVE ProcessInv'
  <1> USE ProcessFields
  <1>1. /\ UNCHANGED <<kind, child, live, stdin, toHost>> /\ toCaller # <<>>
        /\ toCaller' = Tail(toCaller) /\ Head(toCaller).op = "sync"
        /\ \E o : caller' = [caller EXCEPT !.state = "closed", !.told = Head(toCaller).status, !.out = o]
    BY DEF P!OnSync, P!Answered
  <1>2. /\ toCaller' \in Seq(Answers) /\ Head(toCaller) = toCaller[1] /\ 1 \in DOMAIN toCaller
        /\ Head(toCaller) \in Answers
        /\ \A i \in DOMAIN toCaller' : i + 1 \in DOMAIN toCaller /\ toCaller'[i] = toCaller[i + 1]
    BY <1>1, TailAt
  <1>3. /\ kind.call = "sync" /\ TrueWord(child, live, Head(toCaller).status)
        /\ caller.state \notin {"new", "spawning", "running"}
    BY <1>1, <1>2 DEF ProcessInv, Exits, Beginning
  <1>4. Head(toCaller).status \in {"none"} \cup Endings
    BY <1>3 DEF TrueWord, TrueEnd
  <1>5. Callerlike(caller') /\ caller'.state = "closed" /\ caller'.told = Head(toCaller).status
        /\ caller'.killed = caller.killed
    BY <1>1, <1>4 DEF Callerlike
  <1>6. /\ ~ live.waiting /\ \A i \in DOMAIN toHost : toHost[i] \notin {"poll", "spawn"}
        /\ \A i \in DOMAIN toCaller : toCaller[i].op \notin {"poll", "spawn"}
    BY <1>1, <1>3 DEF ProcessInv, OnePoll, Beginning
  <1>7. ProcessTypes'
    BY <1>1, <1>2, <1>5 DEF ProcessInv, ProcessTypes, Childlike, Livelike
  <1>8. live.phase # "starting"
    BY <1>1 DEF ProcessInv, Beginning
  <1>9. Beginning'
    BY <1>1, <1>2, <1>3, <1>5, <1>6, <1>8 DEF ProcessInv, Beginning
  <1>10. OnePoll'
    BY <1>1, <1>2, <1>5, <1>6 DEF OnePoll
  <1>11. Exits'
    BY <1>1, <1>2, <1>3, <1>5, <1>6 DEF ProcessInv, Exits
  <1>12. Killings' /\ Kept'
    BY <1>1, <1>5 DEF ProcessInv, Killings, Kept
  <1> QED BY <1>7, <1>9, <1>10, <1>11, <1>12 DEF ProcessInv

\* An answer to the poll: with the exit the child is closed, and else it is polled again.
LEMMA OnPolledKeeps ==
  ASSUME ProcessInv, P!OnPolled PROVE ProcessInv'
  <1> USE ProcessFields
  <1> DEFINE evs == Head(toCaller).events
  <1>1. /\ UNCHANGED <<kind, child, live, stdin>> /\ toCaller # <<>>
        /\ toCaller' = Tail(toCaller) /\ Head(toCaller).op = "poll"
    BY DEF P!OnPolled, P!Answered
  <1>2. /\ toCaller' \in Seq(Answers) /\ Head(toCaller) = toCaller[1] /\ 1 \in DOMAIN toCaller
        /\ Head(toCaller) \in Answers
        /\ \A i \in DOMAIN toCaller' :
             i + 1 \in DOMAIN toCaller /\ toCaller'[i] = toCaller[i + 1] /\ i # 0 /\ i \in Nat
    BY <1>1, TailAt
  <1>3. /\ caller.state = "running" /\ kind.call = "spawn" /\ caller.told = None /\ ~ live.waiting
        /\ \A i \in DOMAIN toHost : toHost[i] \notin {"poll", "spawn"}
        /\ \A i \in DOMAIN toCaller : toCaller[i].op = "poll" => i = 1
        /\ \A i \in DOMAIN toCaller : toCaller[i].op # "spawn"
    BY <1>1, <1>2 DEF ProcessInv, OnePoll, Beginning
  <1>4. evs # <<>> /\ ExitLast(child, live, evs)
    BY <1>1, <1>2 DEF ProcessInv, OnePoll, Exits
  <1>5. evs \in Seq(Events)
    BY <1>1, <1>2 DEF Answers
  <1> HIDE DEF evs
  <1>6. Len(evs) \in DOMAIN evs
    <2>1. Len(evs) \in Nat /\ Len(evs) # 0 /\ DOMAIN evs = 1 .. Len(evs)
      BY <1>4, <1>5, EmptySeq, LenProperties
    <2> QED BY <2>1
  <1>7. \A i \in DOMAIN toCaller' : toCaller'[i].op # "poll"
    <2> SUFFICES ASSUME NEW i \in DOMAIN toCaller', toCaller'[i].op = "poll" PROVE FALSE
      OBVIOUS
    <2>1. i + 1 = 1 /\ i # 0 /\ i \in Nat
      BY <1>2, <1>3
    <2> QED BY <2>1
  <1>8. CASE evs[Len(evs)].is = "exit"
    <2>1. \E o, n : caller' = [caller EXCEPT !.out = o, !.state = "closed", !.callbacks = n,
                                             !.told = evs[Len(evs)].status]
          /\ toHost' = toHost
      <3>1. PICK o : /\ caller' = P!Finish([caller EXCEPT !.out = o], evs[Len(evs)].status)
                     /\ toHost' = toHost
        BY <1>4, <1>8 DEF P!OnPolled, P!Last, evs
      <3>2. P!Finish([caller EXCEPT !.out = o], evs[Len(evs)].status)
              = [caller EXCEPT !.out = o, !.state = "closed", !.callbacks = caller.callbacks + 1,
                               !.told = evs[Len(evs)].status]
        BY DEF P!Finish, Callerlike
      <3> QED BY <3>1, <3>2
    <2>2. TrueEnd(child, live, evs[Len(evs)].status)
      BY <1>4, <1>6, <1>8 DEF ExitLast
    <2>3. evs[Len(evs)].status \in Endings
      BY <2>2 DEF TrueEnd
    <2>4. Callerlike(caller') /\ caller'.state = "closed" /\ caller'.told = evs[Len(evs)].status
          /\ caller'.killed = caller.killed /\ toHost' = toHost
      BY <2>1, <2>3 DEF Callerlike
    <2>5. ProcessTypes'
      BY <1>1, <1>2, <2>4 DEF ProcessInv, ProcessTypes, Childlike, Livelike
    <2>6. Beginning'
      BY <1>1, <1>2, <1>3, <2>4 DEF ProcessInv, Beginning
    <2>7. OnePoll'
      BY <1>1, <1>3, <1>7, <2>4 DEF OnePoll
    <2>8. Exits'
      BY <1>1, <1>2, <1>7, <2>2, <2>4 DEF ProcessInv, Exits, TrueWord
    <2>9. Killings' /\ Kept'
      BY <1>1, <2>4 DEF ProcessInv, Killings, Kept
    <2> QED BY <2>5, <2>6, <2>7, <2>8, <2>9 DEF ProcessInv
  <1>9. CASE evs[Len(evs)].is # "exit"
    <2>1. (\E o : caller' = [caller EXCEPT !.out = o]) /\ toHost' = Append(toHost, "poll")
      BY <1>4, <1>9 DEF P!OnPolled, P!Last, evs
    <2>2. Callerlike(caller') /\ caller'.state = "running" /\ caller'.told = None
          /\ caller'.killed = caller.killed
      BY <1>3, <2>1 DEF Callerlike
    <2>3. live.found
      BY <1>2, <1>3, <1>9 DEF ProcessInv, Kept, evs
    <2>4. "poll" \in Requests
      BY DEF Requests
    <2>5. /\ toHost' \in Seq(Requests) /\ DOMAIN toHost' = DOMAIN toHost \cup {Len(toHost) + 1}
          /\ \A i \in DOMAIN toHost : toHost'[i] = toHost[i] /\ i # Len(toHost) + 1
          /\ toHost'[Len(toHost) + 1] = "poll"
      BY <2>1, <2>4, AppendAt
    <2>6. /\ \A i \in DOMAIN toHost' : toHost'[i] # "spawn"
          /\ \A i \in DOMAIN toHost' : toHost'[i] = "poll" => i = Len(toHost) + 1
          /\ \A i \in DOMAIN toHost' : toHost'[i] = "kill" => caller.killed
      BY <1>3, <2>5 DEF ProcessInv, Killings
    <2>7. live.phase \notin {"none", "starting"}
      BY <2>3 DEF ProcessInv, Beginning
    <2>8. ProcessTypes'
      BY <1>1, <1>2, <2>2, <2>5 DEF ProcessInv, ProcessTypes, Childlike, Livelike
    <2>9. Beginning'
      BY <1>1, <1>2, <1>3, <2>2, <2>6, <2>7 DEF Beginning
    <2>10. OnePoll'
      BY <1>1, <1>3, <1>7, <2>2, <2>3, <2>6 DEF OnePoll
    <2>11. Exits'
      BY <1>1, <1>2, <1>7, <2>2 DEF ProcessInv, Exits
    <2>12. Killings' /\ Kept'
      BY <1>1, <2>2, <2>3, <2>6 DEF ProcessInv, Killings, Kept
    <2> QED BY <2>8, <2>9, <2>10, <2>11, <2>12 DEF ProcessInv
  <1> QED BY <1>8, <1>9

\* An event reaches the queue or the poll that waits, which is answered with nothing else.
LEMMA PushKeeps ==
  ASSUME ProcessInv, NEW l, Livelike(l), NEW x \in Events, P!Push(l, x),
         UNCHANGED <<kind, caller, child, stdin, toHost>>,
         live.phase \notin {"none", "starting", "exited"},
         l.phase \notin {"none", "starting"},
         l.found = live.found, l.waiting = live.waiting, l.events = live.events,
         l.killed = live.killed,
         l.phase \in {"flushing", "ending", "exited"} => l.status \in {"code", "failed"},
         l.phase \in {"ending", "exited"} => child.state = "dead",
         x.is = "exit" => TrueEnd(child, l, x.status),
         l.phase = "exited" => x.is = "exit"
  PROVE  ProcessInv'
  <1> USE ProcessFields
  <1>1. /\ live.events \in Seq(Events) /\ Len(live.events) \in Nat
        /\ Append(live.events, x) \in Seq(Events) /\ Append(live.events, x) # <<>>
        /\ Len(Append(live.events, x)) = Len(live.events) + 1
        /\ DOMAIN Append(live.events, x) = DOMAIN live.events \cup {Len(live.events) + 1}
        /\ \A i \in DOMAIN live.events : Append(live.events, x)[i] = live.events[i]
        /\ Append(live.events, x)[Len(live.events) + 1] = x
    BY AppendAt
  <1>2. caller.told = None /\ (\A i \in DOMAIN live.events : live.events[i].is # "exit")
        /\ (\A i \in DOMAIN toCaller : toCaller[i].op # "sync")
        /\ (\A i \in DOMAIN toCaller : toCaller[i].op = "poll" =>
              \A j \in DOMAIN toCaller[i].events : toCaller[i].events[j].is # "exit")
    BY DEF ProcessInv, Exits, TrueWord, TrueEnd, ExitLast
  <1>3. \A k : TrueEnd(child, l, k) => \A m : m.phase = l.phase /\ m.killed = l.killed
                                             /\ m.status = l.status => TrueEnd(child, m, k)
    BY DEF TrueEnd
  <1>4. CASE ~ live.waiting
    <2>1. live' = [l EXCEPT !.events = Append(live.events, x)] /\ toCaller' = toCaller
      BY <1>4 DEF P!Push
    <2>2. /\ Livelike(live') /\ live'.phase = l.phase /\ live'.found = l.found
          /\ live'.waiting = l.waiting /\ live'.killed = l.killed /\ live'.status = l.status
          /\ live'.events = Append(live.events, x)
      BY <1>1, <2>1 DEF Livelike
    <2>3. ExitLast(child, live', live'.events)
      BY <1>1, <1>2, <1>3, <2>2 DEF ExitLast
    <2>4. \A i \in DOMAIN toCaller : toCaller[i].op = "poll" => ExitLast(child, live', toCaller[i].events)
      BY <1>2 DEF ExitLast
    <2>5. live'.phase = "exited" =>
             live'.events # <<>> /\ live'.events[Len(live'.events)].is = "exit"
      BY <1>1, <2>2
    <2>6. ProcessTypes'
      BY <2>1, <2>2 DEF ProcessInv, ProcessTypes, Callerlike, Childlike
    <2>7. Beginning'
      BY <2>1, <2>2 DEF ProcessInv, Beginning
    <2>8. OnePoll'
      BY <1>4, <2>1, <2>2 DEF ProcessInv, OnePoll
    <2>9. Exits'
      BY <1>2, <2>1, <2>3, <2>4, <2>5 DEF Exits
    <2>10. Killings' /\ Kept'
      BY <2>1, <2>2 DEF ProcessInv, Killings, Kept
    <2> QED BY <2>6, <2>7, <2>8, <2>9, <2>10 DEF ProcessInv
  <1>5. CASE live.waiting
    <2> DEFINE a == [op |-> "poll", events |-> Append(live.events, x)]
    <2>1. /\ \E f \in BOOLEAN :
               /\ live' = [l EXCEPT !.events = <<>>, !.waiting = FALSE, !.found = f]
               /\ f = (live.found /\ x.is # "exit")
          /\ toCaller' = Append(toCaller, a)
      BY <1>5 DEF P!Push, Livelike
    <2>2. a \in Answers /\ a.op = "poll" /\ a.events = Append(live.events, x)
      BY <1>1 DEF Answers
    <2> HIDE DEF a
    <2>3. /\ toCaller' \in Seq(Answers)
          /\ DOMAIN toCaller' = DOMAIN toCaller \cup {Len(toCaller) + 1}
          /\ \A i \in DOMAIN toCaller : toCaller'[i] = toCaller[i] /\ i # Len(toCaller) + 1
          /\ toCaller'[Len(toCaller) + 1] = a
      BY <2>1, <2>2, AppendAt
    <2>4. <<>> \in Seq(Events) /\ \A i \in DOMAIN <<>> : FALSE
      BY EmptySeq
    <2>5. /\ Livelike(live') /\ live'.phase = l.phase /\ live'.waiting = FALSE
          /\ live'.found = (live.found /\ x.is # "exit")
          /\ live'.killed = l.killed /\ live'.status = l.status /\ live'.events = <<>>
      BY <2>1, <2>4 DEF Livelike
    <2>6. /\ caller.state = "running" /\ kind.call = "spawn" /\ live.found
          /\ \A j \in DOMAIN toCaller : toCaller[j].op \notin {"poll", "spawn"}
          /\ \A i \in DOMAIN toHost : toHost[i] \notin {"poll", "spawn"}
      BY <1>5 DEF ProcessInv, OnePoll, Beginning
    <2>7. \A i \in DOMAIN toCaller' : toCaller'[i].op = "poll" <=> i = Len(toCaller) + 1
      BY <2>2, <2>3, <2>6
    <2>8. ExitLast(child, live', a.events)
      BY <1>1, <1>2, <1>3, <2>2, <2>5 DEF ExitLast
    <2>9. ProcessTypes'
      BY <2>3, <2>5 DEF ProcessInv, ProcessTypes, Callerlike, Childlike
    <2>10. Beginning'
      BY <2>2, <2>3, <2>5, <2>6 DEF ProcessInv, Beginning
    <2>11. OnePoll'
      BY <1>1, <2>2, <2>3, <2>5, <2>6, <2>7 DEF OnePoll
    <2>12. Exits'
      <3>1. live'.phase = "exited" => ~ live'.found
        BY <2>5
      <3>2. ExitLast(child, live', live'.events)
        BY <2>4, <2>5 DEF ExitLast
      <3>3. \A i \in DOMAIN toCaller' :
              /\ toCaller'[i].op = "poll" => ExitLast(child, live', toCaller'[i].events)
              /\ toCaller'[i].op # "sync"
        BY <1>2, <2>2, <2>3, <2>7, <2>8
      <3> QED BY <1>2, <3>1, <3>2, <3>3 DEF Exits
    <2>13. Killings'
      BY <2>5 DEF ProcessInv, Killings
    <2>14. Kept'
      <3>1. CASE x.is = "exit"
        <4>1. /\ Len(toCaller) + 1 \in DOMAIN toCaller' /\ toCaller'[Len(toCaller) + 1].op = "poll"
              /\ toCaller'[Len(toCaller) + 1].events = Append(live.events, x)
              /\ Append(live.events, x)[Len(Append(live.events, x))].is = "exit"
          BY <1>1, <2>2, <2>3, <3>1
        <4> QED BY <4>1 DEF Kept
      <3>2. CASE x.is # "exit"
        BY <2>5, <2>6, <3>2 DEF Kept
      <3> QED BY <3>1, <3>2
    <2> QED BY <2>9, <2>10, <2>11, <2>12, <2>13, <2>14 DEF ProcessInv
  <1> QED BY <1>4, <1>5

LEMMA PumpKeeps ==
  ASSUME ProcessInv, P!Pump PROVE ProcessInv'
  <1> USE ProcessFields
  <1>1. PICK fd \in {"stdout", "stderr"} :
          P!Push([live EXCEPT !.pulled[fd] = @ + 1], [is |-> fd])
    BY DEF P!Pump, P!Fds
  <1>2. /\ UNCHANGED <<kind, caller, child, stdin, toHost>>
        /\ live.phase \in {"running", "flushing", "ending"}
    BY DEF P!Pump
  <1> DEFINE x == [is |-> fd]
             l == [live EXCEPT !.pulled[fd] = @ + 1]
  <1>3. x \in Events /\ x.is # "exit"
    BY DEF Events
  <1>4. /\ Livelike(l) /\ l.phase = live.phase /\ l.found = live.found /\ l.waiting = live.waiting
        /\ l.events = live.events /\ l.killed = live.killed /\ l.status = live.status
    BY DEF Livelike
  <1>5. P!Push(l, x)
    BY <1>1
  <1>6. /\ live.phase \in {"flushing", "ending"} => live.status \in {"code", "failed"}
        /\ live.phase = "ending" => child.state = "dead"
    BY DEF ProcessInv, Killings
  <1> HIDE DEF x
  <1> HIDE DEF l
  <1> QED BY <1>2, <1>3, <1>4, <1>5, <1>6, PushKeeps

LEMMA SettleKeeps ==
  ASSUME ProcessInv, P!Settle PROVE ProcessInv'
  <1> USE ProcessFields
  <1>1. UNCHANGED <<kind, caller, child, stdin, toHost>> /\ live.phase = "running"
    BY DEF P!Settle
  <1>2. CASE child.state = "crashed"
    <2> DEFINE x == [is |-> "report"]
               l == [live EXCEPT !.phase = "flushing", !.status = "failed"]
    <2>1. x \in Events /\ x.is # "exit"
      BY DEF Events
    <2>2. /\ Livelike(l) /\ l.phase = "flushing" /\ l.found = live.found /\ l.waiting = live.waiting
          /\ l.events = live.events /\ l.killed = live.killed /\ l.status = "failed"
      BY DEF Livelike
    <2>3. P!Push(l, x)
      BY <1>2 DEF P!Settle
    <2> HIDE DEF x
    <2> HIDE DEF l
    <2> QED BY <1>1, <2>1, <2>2, <2>3, PushKeeps
  <1>3. CASE child.state # "crashed"
    <2>1. live' = [live EXCEPT !.phase = "flushing", !.status = "code"] /\ toCaller' = toCaller
      BY <1>3 DEF P!Settle
    <2>2. /\ Livelike(live') /\ live'.phase = "flushing" /\ live'.found = live.found
          /\ live'.waiting = live.waiting /\ live'.events = live.events
          /\ live'.killed = live.killed /\ live'.status = "code"
      BY <2>1 DEF Livelike
    <2>3. ProcessTypes'
      BY <1>1, <2>1, <2>2 DEF ProcessInv, ProcessTypes, Callerlike, Childlike
    <2>4. Beginning'
      BY <1>1, <2>1, <2>2 DEF ProcessInv, Beginning
    <2>5. OnePoll'
      BY <1>1, <2>1, <2>2 DEF ProcessInv, OnePoll
    <2>6. Exits'
      BY <1>1, <2>1, <2>2 DEF ProcessInv, Exits, ExitLast, TrueWord, TrueEnd
    <2>7. Killings' /\ Kept'
      BY <1>1, <2>1, <2>2 DEF ProcessInv, Killings, Kept
    <2> QED BY <2>3, <2>4, <2>5, <2>6, <2>7 DEF ProcessInv
  <1> QED BY <1>2, <1>3

LEMMA TerminateKeeps ==
  ASSUME ProcessInv, P!Terminate PROVE ProcessInv'
  <1> USE ProcessFields
  <1>1. /\ UNCHANGED <<kind, caller, stdin, toHost, toCaller>> /\ live.phase = "flushing"
        /\ live' = [live EXCEPT !.phase = "ending"] /\ child' = [child EXCEPT !.state = "dead"]
    BY DEF P!Terminate
  <1>2. /\ Livelike(live') /\ live'.phase = "ending" /\ live'.found = live.found
        /\ live'.waiting = live.waiting /\ live'.events = live.events
        /\ live'.killed = live.killed /\ live'.status = live.status
    BY <1>1 DEF Livelike
  <1>3. Childlike(child') /\ child'.state = "dead" /\ child'.cut = child.cut
    BY <1>1 DEF Childlike
  <1>4. ProcessTypes'
    BY <1>1, <1>2, <1>3 DEF ProcessInv, ProcessTypes, Callerlike
  <1>5. Beginning'
    BY <1>1, <1>2, <1>3 DEF ProcessInv, Beginning
  <1>6. OnePoll'
    BY <1>1, <1>2 DEF ProcessInv, OnePoll
  <1>7. Exits'
    BY <1>1, <1>2 DEF ProcessInv, Exits, ExitLast, TrueWord, TrueEnd
  <1>8. Killings' /\ Kept'
    BY <1>1, <1>2, <1>3 DEF ProcessInv, Killings, Kept
  <1> QED BY <1>4, <1>5, <1>6, <1>7, <1>8 DEF ProcessInv

LEMMA ReadersEndKeeps ==
  ASSUME ProcessInv, P!ReadersEnd PROVE ProcessInv'
  <1> USE ProcessFields
  <1> DEFINE x == P!Exit
             l == [live EXCEPT !.phase = "exited"]
  <1>1. /\ UNCHANGED <<kind, caller, child, stdin, toHost>> /\ live.phase = "ending" /\ P!Push(l, x)
    BY DEF P!ReadersEnd
  <1>2. /\ live.status \in {"code", "failed"} /\ child.state = "dead" /\ (child.cut => live.killed)
    BY <1>1 DEF ProcessInv, Killings
  <1>3. /\ x \in Events /\ x.is = "exit" /\ x.status = IF live.killed THEN "signal" ELSE live.status
    BY <1>2 DEF P!Exit, Events, Endings
  <1>4. /\ Livelike(l) /\ l.phase = "exited" /\ l.found = live.found /\ l.waiting = live.waiting
        /\ l.events = live.events /\ l.killed = live.killed /\ l.status = live.status
    BY DEF Livelike
  <1> HIDE DEF x
  <1> HIDE DEF l
  <1>5. TrueEnd(child, l, x.status)
    BY <1>2, <1>3, <1>4 DEF TrueEnd, Endings
  <1> QED BY <1>1, <1>2, <1>3, <1>4, <1>5, PushKeeps

\* The poll waits, or takes what has gathered.
LEMMA OnPollKeeps ==
  ASSUME ProcessInv, P!OnPoll PROVE ProcessInv'
  <1> USE ProcessFields
  <1>1. /\ UNCHANGED <<kind, caller, child, stdin>> /\ toHost # <<>>
        /\ toHost' = Tail(toHost) /\ Head(toHost) = "poll"
    BY DEF P!OnPoll, P!Requested
  <1>2. /\ toHost' \in Seq(Requests) /\ Head(toHost) = toHost[1] /\ 1 \in DOMAIN toHost
        /\ \A i \in DOMAIN toHost' :
             i + 1 \in DOMAIN toHost /\ toHost'[i] = toHost[i + 1] /\ i # 0 /\ i \in Nat
    BY <1>1, TailAt
  <1>3. /\ caller.state = "running" /\ live.found /\ ~ live.waiting /\ kind.call = "spawn"
        /\ \A i \in DOMAIN toHost : toHost[i] = "poll" => i = 1
        /\ \A i \in DOMAIN toHost : toHost[i] # "spawn"
        /\ \A j \in DOMAIN toCaller : toCaller[j].op \notin {"poll", "spawn"}
        /\ live.phase \notin {"none", "starting"}
    BY <1>1, <1>2 DEF ProcessInv, OnePoll, Beginning
  <1>4. /\ \A i \in DOMAIN toHost' : toHost'[i] \notin {"poll", "spawn"}
        /\ \A i \in DOMAIN toHost' : toHost'[i] = "kill" => caller.killed
    <2> SUFFICES ASSUME NEW i \in DOMAIN toHost'
                 PROVE  /\ toHost'[i] \notin {"poll", "spawn"}
                        /\ toHost'[i] = "kill" => caller.killed
      OBVIOUS
    <2>1. i + 1 \in DOMAIN toHost /\ toHost'[i] = toHost[i + 1] /\ i + 1 # 1
      <3>1. i + 1 \in DOMAIN toHost /\ toHost'[i] = toHost[i + 1] /\ i # 0 /\ i \in Nat
        BY <1>2
      <3> QED BY <3>1
    <2> QED BY <1>3, <2>1 DEF ProcessInv, Killings
  <1>5. CASE live.events = <<>>
    <2>1. live' = [live EXCEPT !.waiting = TRUE] /\ toCaller' = toCaller
      BY <1>3, <1>5 DEF P!OnPoll
    <2>2. /\ Livelike(live') /\ live'.phase = live.phase /\ live'.found = live.found
          /\ live'.waiting = TRUE /\ live'.events = live.events
          /\ live'.killed = live.killed /\ live'.status = live.status
      BY <2>1 DEF Livelike
    <2>3. ProcessTypes'
      BY <1>1, <1>2, <2>1, <2>2 DEF ProcessInv, ProcessTypes, Callerlike, Childlike
    <2>4. Beginning'
      BY <1>1, <1>3, <1>4, <2>1, <2>2 DEF ProcessInv, Beginning
    <2>5. OnePoll'
      BY <1>1, <1>3, <1>4, <1>5, <2>1, <2>2 DEF OnePoll
    <2>6. Exits'
      BY <1>1, <2>1, <2>2 DEF ProcessInv, Exits, ExitLast, TrueWord, TrueEnd
    <2>7. Killings' /\ Kept'
      BY <1>1, <1>4, <2>1, <2>2 DEF ProcessInv, Killings, Kept
    <2> QED BY <2>3, <2>4, <2>5, <2>6, <2>7 DEF ProcessInv
  <1>6. CASE live.events # <<>>
    <2> DEFINE a == [op |-> "poll", events |-> live.events]
               last == live.events[Len(live.events)]
    <2>1. /\ \E f \in BOOLEAN : live' = [live EXCEPT !.events = <<>>, !.found = f]
                                /\ f = (last.is # "exit")
          /\ toCaller' = Append(toCaller, a)
      BY <1>3, <1>6 DEF P!OnPoll, P!Last, Livelike
    <2>2. a \in Answers /\ a.op = "poll" /\ a.events = live.events
      BY DEF Answers
    <2> HIDE DEF a
    <2> HIDE DEF last
    <2>3. /\ toCaller' \in Seq(Answers)
          /\ DOMAIN toCaller' = DOMAIN toCaller \cup {Len(toCaller) + 1}
          /\ \A i \in DOMAIN toCaller : toCaller'[i] = toCaller[i] /\ i # Len(toCaller) + 1
          /\ toCaller'[Len(toCaller) + 1] = a
      BY <2>1, <2>2, AppendAt
    <2>4. <<>> \in Seq(Events) /\ \A i \in DOMAIN <<>> : FALSE
      BY EmptySeq
    <2>5. /\ Livelike(live') /\ live'.phase = live.phase /\ live'.waiting = live.waiting
          /\ live'.found = (last.is # "exit")
          /\ live'.killed = live.killed /\ live'.status = live.status /\ live'.events = <<>>
      BY <2>1, <2>4 DEF Livelike
    <2>6. \A i \in DOMAIN toCaller' : toCaller'[i].op = "poll" <=> i = Len(toCaller) + 1
      BY <1>3, <2>2, <2>3
    <2>7. /\ \A evs : ExitLast(child, live, evs) => ExitLast(child, live', evs)
          /\ \A st : TrueWord(child, live, st) => TrueWord(child, live', st)
      BY <2>5 DEF ExitLast, TrueWord, TrueEnd
    <2>8. ProcessTypes'
      BY <1>1, <1>2, <2>3, <2>5 DEF ProcessInv, ProcessTypes, Callerlike, Childlike
    <2>9. Beginning'
      BY <1>1, <1>3, <1>4, <2>2, <2>3, <2>5 DEF ProcessInv, Beginning
    <2>10. OnePoll'
      BY <1>1, <1>3, <1>4, <1>6, <2>2, <2>3, <2>5, <2>6 DEF OnePoll
    <2>11. Exits'
      <3>1. live'.phase = "exited" => ~ live'.found
        BY <1>3, <2>5 DEF ProcessInv, Exits, last
      <3>2. ExitLast(child', live', live'.events)
        BY <2>4, <2>5 DEF ExitLast
      <3>3. \A i \in DOMAIN toCaller' :
              /\ toCaller'[i].op = "poll" => ExitLast(child', live', toCaller'[i].events)
              /\ toCaller'[i].op = "sync" => FALSE
        <4>1. ExitLast(child', live', a.events)
          BY <1>1, <2>2, <2>7 DEF ProcessInv, Exits
        <4>2. \A i \in DOMAIN toCaller : toCaller[i].op # "sync"
          BY <1>3 DEF ProcessInv, Exits
        <4> QED BY <2>2, <2>3, <2>6, <4>1, <4>2
      <3>4. caller'.told = None \/ TrueWord(child', live', caller'.told)
        BY <1>1, <2>7 DEF ProcessInv, Exits
      <3> QED BY <3>1, <3>2, <3>3, <3>4 DEF Exits
    <2>12. Killings'
      BY <1>1, <1>4, <2>5 DEF ProcessInv, Killings
    <2>13. Kept'
      <3>1. CASE last.is = "exit"
        <4>1. /\ Len(toCaller) + 1 \in DOMAIN toCaller' /\ toCaller'[Len(toCaller) + 1].op = "poll"
              /\ toCaller'[Len(toCaller) + 1].events = live.events
          BY <2>2, <2>3
        <4>2. live.events[Len(live.events)].is = "exit"
          BY <3>1 DEF last
        <4> QED BY <4>1, <4>2 DEF Kept
      <3>2. CASE last.is # "exit"
        BY <2>5, <3>2 DEF Kept
      <3> QED BY <3>1, <3>2
    <2> QED BY <2>8, <2>9, <2>10, <2>11, <2>12, <2>13 DEF ProcessInv
  <1> QED BY <1>5, <1>6

LEMMA OnKillKeeps ==
  ASSUME ProcessInv, P!OnKill PROVE ProcessInv'
  <1> USE ProcessFields
  <1>1. /\ UNCHANGED <<kind, caller, stdin, toCaller>> /\ toHost # <<>>
        /\ toHost' = Tail(toHost) /\ Head(toHost) = "kill"
    BY DEF P!OnKill, P!Requested
  <1>2. /\ toHost' \in Seq(Requests) /\ Head(toHost) = toHost[1] /\ 1 \in DOMAIN toHost
        /\ \A i \in DOMAIN toHost' :
             i + 1 \in DOMAIN toHost /\ toHost'[i] = toHost[i + 1] /\ i \in Nat
    BY <1>1, TailAt
  <1>3. /\ caller.killed /\ caller.state \in {"running", "closed"}
        /\ \A i \in DOMAIN toHost : toHost[i] # "spawn"
    BY <1>1, <1>2 DEF ProcessInv, ProcessTypes, Callerlike, Killings, Beginning
  <1>4. /\ Livelike(live') /\ live'.phase = live.phase /\ live'.found = live.found
        /\ live'.waiting = live.waiting /\ live'.events = live.events
        /\ live'.status = live.status /\ live'.killed = (live.killed \/ live.found)
    BY DEF P!OnKill, Livelike
  <1>5. /\ Childlike(child') /\ (child'.cut => live'.killed)
        /\ \/ child' = child
           \/ child.state = "runs" /\ child'.state = "dead"
    <2>1. CASE live.found /\ child.state = "runs"
      <3>1. child' = [child EXCEPT !.state = "dead", !.cut = TRUE]
        BY <2>1 DEF P!OnKill
      <3> QED BY <1>4, <2>1, <3>1 DEF Childlike
    <2>2. CASE ~ (live.found /\ child.state = "runs")
      <3>1. child' = child
        BY <2>2 DEF P!OnKill
      <3> QED BY <1>4, <3>1 DEF ProcessInv, Killings
    <2> QED BY <2>1, <2>2
  <1>6. child' = child \/ live.phase \in {"running", "flushing"}
    BY <1>5 DEF ProcessInv, ProcessTypes, Livelike, Killings, Beginning
  <1>7. \A st : TrueEnd(child, live, st) => TrueEnd(child', live', st)
    BY <1>4, <1>6 DEF TrueEnd
  <1>8. \A evs : ExitLast(child, live, evs) => ExitLast(child', live', evs)
    BY <1>7 DEF ExitLast
  <1>9. ProcessTypes'
    BY <1>1, <1>2, <1>4, <1>5 DEF ProcessInv, ProcessTypes, Callerlike
  <1>10. Beginning'
    BY <1>1, <1>2, <1>3, <1>4, <1>5, <1>6 DEF ProcessInv, Beginning
  <1>11. OnePoll'
    <2>1. \A i, j \in DOMAIN toHost' : toHost'[i] = "poll" /\ toHost'[j] = "poll" => i = j
      <3> SUFFICES ASSUME NEW i \in DOMAIN toHost', NEW j \in DOMAIN toHost',
                          toHost'[i] = "poll", toHost'[j] = "poll"
                   PROVE  i = j
        OBVIOUS
      <3>1. i + 1 = j + 1
        BY <1>2 DEF ProcessInv, OnePoll
      <3>2. i \in Nat /\ j \in Nat
        BY <1>2
      <3> QED BY <3>1, <3>2
    <2> QED BY <1>1, <1>2, <1>4, <2>1 DEF ProcessInv, OnePoll
  <1>12. Exits'
    BY <1>1, <1>4, <1>7, <1>8 DEF ProcessInv, Exits, TrueWord
  <1>13. Killings'
    BY <1>1, <1>2, <1>3, <1>4, <1>5, <1>6 DEF ProcessInv, Killings
  <1>14. Kept'
    BY <1>1, <1>4 DEF ProcessInv, Kept
  <1> QED BY <1>9, <1>10, <1>11, <1>12, <1>13, <1>14 DEF ProcessInv

LEMMA SyncDoneKeeps ==
  ASSUME ProcessInv, P!SyncDone PROVE ProcessInv'
  <1> USE ProcessFields
  <1> DEFINE st == live.events[Len(live.events)].status
             a == [op |-> "sync", status |-> st, events |-> live.events]
  <1>1. /\ UNCHANGED <<kind, caller, child, stdin, toHost>> /\ kind.call = "sync"
        /\ live.found /\ live.phase = "exited" /\ live' = [live EXCEPT !.found = FALSE]
        /\ toCaller' = Append(toCaller, a)
    BY DEF P!SyncDone, P!Last
  <1>2. live.events # <<>> /\ live.events[Len(live.events)].is = "exit"
    BY <1>1 DEF ProcessInv, Exits
  <1>3. Len(live.events) \in DOMAIN live.events
    <2>1. Len(live.events) \in Nat /\ Len(live.events) # 0 /\ DOMAIN live.events = 1 .. Len(live.events)
      BY <1>2, EmptySeq, LenProperties
    <2> QED BY <2>1
  <1>4. TrueEnd(child, live, st)
    BY <1>2, <1>3 DEF ProcessInv, Exits, ExitLast
  <1>5. st \in Endings
    BY <1>4 DEF TrueEnd
  <1> HIDE DEF st
  <1>6. a \in Answers /\ a.op = "sync" /\ a.status = st
    BY <1>5 DEF Answers
  <1> HIDE DEF a
  <1>7. /\ toCaller' \in Seq(Answers)
        /\ DOMAIN toCaller' = DOMAIN toCaller \cup {Len(toCaller) + 1}
        /\ \A i \in DOMAIN toCaller : toCaller'[i] = toCaller[i]
        /\ toCaller'[Len(toCaller) + 1] = a
    BY <1>1, <1>6, AppendAt
  <1>8. /\ Livelike(live') /\ live'.phase = live.phase /\ live'.found = FALSE
        /\ live'.waiting = live.waiting /\ live'.events = live.events
        /\ live'.killed = live.killed /\ live'.status = live.status
    BY <1>1 DEF Livelike
  <1>9. /\ caller.state \notin {"spawning", "running"} /\ ~ live.waiting
        /\ \A i \in DOMAIN toHost : toHost[i] \notin {"poll", "spawn"}
        /\ \A i \in DOMAIN toCaller : toCaller[i].op \notin {"poll", "spawn"}
    BY <1>1 DEF ProcessInv, Beginning, OnePoll
  <1>10. \A s : TrueEnd(child, live, s) => TrueEnd(child', live', s)
    BY <1>1, <1>8 DEF TrueEnd
  <1>11. ProcessTypes'
    BY <1>1, <1>7, <1>8 DEF ProcessInv, ProcessTypes, Callerlike, Childlike
  <1>12. caller.state # "new"
    BY <1>1 DEF ProcessInv, Beginning
  <1>13. Beginning'
    BY <1>1, <1>6, <1>7, <1>8, <1>9, <1>12 DEF ProcessInv, Beginning
  <1>14. OnePoll'
    BY <1>1, <1>6, <1>7, <1>8, <1>9 DEF OnePoll
  <1>15. Exits'
    <2>1. \A evs : ExitLast(child, live, evs) => ExitLast(child', live', evs)
      BY <1>10 DEF ExitLast
    <2>2. \A s : TrueWord(child, live, s) => TrueWord(child', live', s)
      BY <1>8, <1>10 DEF TrueWord
    <2>3. ExitLast(child', live', live'.events)
      BY <1>8, <2>1 DEF ProcessInv, Exits
    <2>4. \A i \in DOMAIN toCaller' : toCaller'[i].op # "poll"
      BY <1>6, <1>7, <1>9
    <2>5. TrueWord(child', live', a.status)
      BY <1>4, <1>6, <1>10 DEF TrueWord
    <2>6. \A i \in DOMAIN toCaller' :
            toCaller'[i].op = "sync" => TrueWord(child', live', toCaller'[i].status)
      BY <1>7, <2>2, <2>5 DEF ProcessInv, Exits
    <2>7. caller'.told = None \/ TrueWord(child', live', caller'.told)
      BY <1>1, <2>2 DEF ProcessInv, Exits
    <2> QED BY <1>1, <1>8, <2>3, <2>4, <2>6, <2>7 DEF Exits
  <1>16. Killings' /\ Kept'
    BY <1>1, <1>8, <1>9 DEF ProcessInv, Killings, Kept
  <1> QED BY <1>11, <1>13, <1>14, <1>15, <1>16 DEF ProcessInv

LEMMA ProcessStarts ==
  ASSUME P!Init PROVE ProcessInv
  <1>0. <<>> \in Seq(Requests) /\ <<>> \in Seq(Answers) /\ <<>> \in Seq(Events)
        /\ (\A i \in DOMAIN <<>> : FALSE) /\ 0 \in Int
    BY EmptySeq
  <1>1. /\ kind \in [call : {"spawn", "sync"}, stdin : {"pipe", "ignore"}]
        /\ \E o : caller = [state |-> "new", stdin |-> "open", wrote |-> 0, queued |-> 0,
                            busy |-> FALSE, killed |-> FALSE, out |-> o, told |-> None,
                            callbacks |-> 0]
        /\ \E s : child = [state |-> "none", said |-> s, cut |-> FALSE]
        /\ \E p : live = [phase |-> "none", found |-> FALSE, stdin |-> "null", pulled |-> p,
                          events |-> <<>>, waiting |-> FALSE, killed |-> FALSE, status |-> None]
        /\ stdin = [chunks |-> 0, asked |-> FALSE, closed |-> FALSE]
        /\ toHost = <<>> /\ toCaller = <<>>
    BY DEF P!Init
  <1>2. Callerlike(caller) /\ caller.state = "new" /\ caller.told = None /\ caller.killed = FALSE
    BY <1>0, <1>1 DEF Callerlike
  <1>3. Childlike(child) /\ child.state = "none" /\ child.cut = FALSE
    BY <1>1 DEF Childlike
  <1>4. /\ Livelike(live) /\ live.phase = "none" /\ live.found = FALSE /\ live.waiting = FALSE
        /\ live.killed = FALSE /\ live.events = <<>>
    BY <1>0, <1>1 DEF Livelike
  <1>5. stdin.chunks = 0 /\ stdin \in [chunks : Int, asked : {stdin.asked}, closed : {stdin.closed}]
    BY <1>0, <1>1
  <1>6. ProcessTypes
    BY <1>0, <1>1, <1>2, <1>3, <1>4, <1>5 DEF ProcessTypes
  <1>7. Beginning /\ OnePoll /\ Killings /\ Kept
    BY <1>0, <1>1, <1>2, <1>3, <1>4, <1>5 DEF Beginning, OnePoll, Killings, Kept
  <1>8. Exits
    BY <1>0, <1>1, <1>2, <1>4 DEF Exits, ExitLast
  <1> QED BY <1>6, <1>7, <1>8 DEF ProcessInv

LEMMA ProcessSteps ==
  ASSUME ProcessInv, P!Next PROVE ProcessInv'
  BY ProcessIdles, StdinAsks, StdinAnswers, StdinServed, TakeKeeps, SpawnKeeps, OnSpawnKeeps,
     StartedKeeps, ProcessSpawns, OnSyncKeeps, OnPolledKeeps, PumpKeeps, SettleKeeps,
     TerminateKeeps, ReadersEndKeeps, OnPollKeeps, OnKillKeeps, SyncDoneKeeps
     DEF P!Next, P!CallerStep, P!HostStep

\* The end that is told is the one there was, and who polls has a child.
LEMMA ProcessShows ==
  ASSUME ProcessInv, None \notin {"none", "code", "failed", "signal"}
  PROVE  P!ExitTrue /\ P!EntryKept
  <1>1. P!ExitTrue
    <2>1. caller.told = None \/ TrueWord(child, live, caller.told)
      BY DEF ProcessInv, Exits
    <2>2. (live.phase = "none" => ~ child.cut) /\ (live.killed => caller.killed)
      BY DEF ProcessInv, Beginning, Killings
    <2> QED BY <2>1, <2>2 DEF P!ExitTrue, TrueWord, TrueEnd, Endings
  <1>2. P!EntryKept
    <2>1. DOMAIN toCaller = 1 .. Len(toCaller)
      BY LenProperties DEF ProcessInv, ProcessTypes
    <2> QED BY <2>1 DEF ProcessInv, Kept, P!EntryKept, P!Last
  <1> QED BY <1>1, <1>2

-----------------------------------------------------------------------------
(* The port *)

Parts == Seq(Seq(Nat))

Pieces == [fd : {1, 2}, chunks : Seq(Nat)]

PortEnds ==
  [port : {"none", "open", "closed"}, closed : BOOLEAN, seq : Nat, inflight : SUBSET Nat]

Asks ==
  [state : {"failed", "pending", "post", "answered"}, own : Parts,
   got : {None} \cup [of : E!Ends \X Nat, parts : Parts]]

Handlings == [of : E!Ends \X Nat, seq : Nat, parts : Parts]

Messages ==
  [is : {"call"}, of : E!Ends \X Nat, seq : Nat, kind : {"known", "unknown"},
   n : Nat \cup {None}, parts : Parts, pushes : Seq({1, 2})]
    \cup [is : {"result"}, of : E!Ends \X Nat, seq : Nat, parts : Parts]
    \cup [is : {"garbage"}]

PortTypes ==
  /\ end \in [E!Ends -> PortEnds] /\ calls \in [E!Ends -> Seq(Asks)]
  /\ toEnd \in [E!Ends -> Seq(Messages)] /\ handling \in [E!Ends -> SUBSET Handlings]
  /\ raw \in {None} \cup Messages
  /\ out \in [printed : Seq({1, 2}), runs : Seq(Pieces), scheduled : BOOLEAN, lost : {out.lost}]

\* The numbers are those of the calls, except that a thread that sent garbage sends no more.
Numbers(en, cs) ==
  \A e \in E!Ends : en[e].seq = Len(cs[e]) + 1 \/ en[e].seq > MaxSeq[e]

\* A call of e, as it is known where it is handled or answered.
TrueCall(cs, e, of, seq, parts) ==
  of = <<e, seq>> /\ seq \in DOMAIN cs[e] /\ parts = cs[e][seq].own

TrueMessage(cs, o, m) ==
  /\ m.is = "call" => TrueCall(cs, E!Other(o), m.of, m.seq, E!PrimaryParts(m))
  /\ m.is = "result" => TrueCall(cs, o, m.of, m.seq, m.parts)

TrueMessages(cs, te, hd, rw) ==
  /\ \A o \in E!Ends :
       /\ \A i \in DOMAIN te[o] : TrueMessage(cs, o, te[o][i])
       /\ \A h \in hd[o] : TrueCall(cs, E!Other(o), h.of, h.seq, h.parts)
  /\ rw # None => rw.is = "call" /\ TrueMessage(cs, "worker", rw)

\* The thread has its port from the page.
PortsAgree(en, rw) ==
  /\ \A e \in E!Ends : en[e].closed <=> en[e].port = "closed"
  /\ rw # None => en["worker"].port = "none"
  /\ en["page"].port = "none" => en["worker"].port = "none" /\ rw = None

\* Who waits is one whom an answer finds.
Waiting(en, cs) ==
  \A e \in E!Ends :
    /\ \A i \in DOMAIN cs[e] : i \in en[e].inflight <=> cs[e][i].state = "pending"
    /\ en[e].inflight \subseteq DOMAIN cs[e]
    /\ en[e].closed => en[e].inflight = {}

\* An answer is the call's own.
Answering(cs) ==
  \A e \in E!Ends : \A i \in DOMAIN cs[e] :
    cs[e][i].state = "answered" => cs[e][i].got = [of |-> <<e, i>>, parts |-> cs[e][i].own]

PortInv ==
  /\ PortTypes /\ Numbers(end, calls) /\ TrueMessages(calls, toEnd, handling, raw)
  /\ PortsAgree(end, raw) /\ Waiting(end, calls) /\ Answering(calls)

LEMMA OwnFirst ==
  ASSUME NEW D, NEW s \in Seq(D), NEW t \in Seq(D)
  PROVE  s \o t \in Seq(D) /\ SubSeq(s \o t, 1, Len(s)) = s
  <1>1. /\ s \o t \in Seq(D) /\ Len(s) \in Nat /\ Len(t) \in Nat
        /\ \A i \in 1 .. Len(s) + Len(t) :
             (s \o t)[i] = IF i <= Len(s) THEN s[i] ELSE t[i - Len(s)]
    BY ConcatProperties, LenProperties
  <1>2. \A i \in 1 .. Len(s) : (s \o t)[i] = s[i] /\ s[i] \in D
    <2> SUFFICES ASSUME NEW i \in 1 .. Len(s) PROVE (s \o t)[i] = s[i] /\ s[i] \in D
      OBVIOUS
    <2>1. i \in 1 .. Len(s) + Len(t) /\ i <= Len(s)
      BY <1>1
    <2> QED BY <1>1, <2>1, ElementOfSeq
  <1> DEFINE q == s \o t
             u == SubSeq(q, 1, Len(s))
  <1>3. \A i \in 1 .. Len(s) : q[i] \in D
    BY <1>2
  <1>4. 1 \in Int /\ Len(s) \in Int /\ Len(s) - 1 + 1 = Len(s)
        /\ (IF 1 <= Len(s) THEN Len(s) - 1 + 1 ELSE 0) = Len(s)
    BY <1>1
  <1> HIDE DEF q
  <1>5. /\ u \in Seq(D) /\ Len(u) = Len(s)
        /\ \A i \in 1 .. Len(s) : u[i] = q[1 + i - 1]
    BY <1>3, <1>4, SubSeqProperties
  <1>6. \A i \in 1 .. Len(s) : 1 + i - 1 = i
    BY <1>1
  <1>7. \A i \in 1 .. Len(s) : u[i] = s[i]
    BY <1>2, <1>5, <1>6 DEF q
  <1> HIDE DEF u
  <1>8. u = s
    BY <1>5, <1>7, SeqEqual
  <1> QED BY <1>1, <1>8 DEF u, q

\* What leaves carries its caller's own parts first, whatever rides along.
LEMMA PackedTrue ==
  ASSUME NEW e \in E!Ends, NEW own \in Parts, NEW knd \in {"known", "unknown"},
         NEW runs \in Seq(Pieces), end[e].seq \in Nat, None \notin Nat
  PROVE  /\ E!Packed(e, own, knd, runs) \in Messages
         /\ E!Packed(e, own, knd, runs).is = "call"
         /\ E!Packed(e, own, knd, runs).of = <<e, end[e].seq>>
         /\ E!Packed(e, own, knd, runs).seq = end[e].seq
         /\ E!PrimaryParts(E!Packed(e, own, knd, runs)) = own
  <1> DEFINE r == [i \in DOMAIN runs |-> runs[i].chunks]
             f == [i \in DOMAIN runs |-> runs[i].fd]
             n == IF own # <<>> \/ runs # <<>> THEN Len(own) ELSE None
             q == own \o r
  <1>1. Len(runs) \in Nat /\ DOMAIN runs = 1 .. Len(runs) /\ \A i \in 1 .. Len(runs) : runs[i] \in Pieces
    BY LenProperties, ElementOfSeq
  <1>2. r \in Parts
    <2>1. r = [i \in 1 .. Len(runs) |-> runs[i].chunks]
      BY <1>1
    <2>2. \A i \in 1 .. Len(runs) : runs[i].chunks \in Seq(Nat)
      BY <1>1 DEF Pieces
    <2> QED BY <1>1, <2>1, <2>2 DEF Parts
  <1>3. f \in Seq({1, 2}) /\ Len(f) = Len(runs)
    <2>1. f = [i \in 1 .. Len(runs) |-> runs[i].fd]
      BY <1>1
    <2>2. \A i \in 1 .. Len(runs) : runs[i].fd \in {1, 2}
      BY <1>1 DEF Pieces
    <2> QED BY <1>1, <2>1, <2>2
  <1>4. n \in Nat \cup {None}
    BY LenProperties DEF Parts
  <1> HIDE DEF r
  <1>5. q \in Parts /\ SubSeq(q, 1, Len(own)) = own
    BY <1>2, OwnFirst DEF Parts
  <1> DEFINE m == [is |-> "call", of |-> <<e, end[e].seq>>, seq |-> end[e].seq, kind |-> knd,
                   n |-> n, parts |-> q, pushes |-> f]
  <1>6. E!Packed(e, own, knd, runs) = m
    BY DEF E!Packed, r
  <1>7. m \in Messages
    BY <1>3, <1>4, <1>5 DEF Messages
  <1>8. m.n = n /\ m.parts = q /\ m.pushes = f /\ m.is = "call" /\ m.of = <<e, end[e].seq>>
        /\ m.seq = end[e].seq
    OBVIOUS
  <1>9. (f = <<>>) = (runs = <<>>)
    <2>1. \A s, t : s \in Seq({1, 2}) /\ t \in Seq(Pieces) /\ Len(s) = Len(t) =>
                      (s = <<>>) = (t = <<>>)
      BY EmptySeq
    <2> HIDE DEF f
    <2> QED BY <1>3, <2>1
  <1> HIDE DEF m
  <1>10. E!PrimaryParts(m) = own
    <2>1. CASE runs = <<>>
      <3>1. r = <<>>
        <4>1. r \in Parts /\ Len(r) = 0
          <5>1. Len(runs) = 0
            BY <2>1, EmptySeq
          <5> QED BY <1>1, <1>2, <5>1 DEF r
        <4> HIDE DEF r
        <4> QED BY <4>1, EmptySeq DEF Parts
      <3>2. q = own
        BY <3>1, ConcatEmptySeq DEF Parts
      <3> HIDE DEF q
      <3> HIDE DEF f
      <3> QED BY <1>8, <1>9, <2>1, <3>2 DEF E!PrimaryParts
    <2>2. CASE runs # <<>>
      <3>1. n = Len(own) /\ n # None
        <4>1. Len(own) \in Nat
          BY LenProperties DEF Parts
        <4> QED BY <2>2, <4>1
      <3> HIDE DEF n
      <3> HIDE DEF q
      <3> HIDE DEF f
      <3> QED BY <1>5, <1>8, <1>9, <2>2, <3>1 DEF E!PrimaryParts
    <2> QED BY <2>1, <2>2
  <1> QED BY <1>6, <1>7, <1>8, <1>10

LEMMA PortFields ==
  ASSUME PortInv
  PROVE  /\ end \in [E!Ends -> PortEnds] /\ calls \in [E!Ends -> Seq(Asks)]
         /\ toEnd \in [E!Ends -> Seq(Messages)] /\ handling \in [E!Ends -> SUBSET Handlings]
         /\ out \in [printed : Seq({1, 2}), runs : Seq(Pieces), scheduled : BOOLEAN,
                     lost : {out.lost}]
         /\ "page" \in E!Ends /\ "worker" \in E!Ends /\ E!Ends = {"page", "worker"}
         /\ \A e \in E!Ends :
              /\ end[e] \in PortEnds /\ end[e].seq \in Nat /\ end[e].inflight \subseteq Nat
              /\ end[e].closed \in BOOLEAN
              /\ calls[e] \in Seq(Asks) /\ toEnd[e] \in Seq(Messages)
              /\ handling[e] \in SUBSET Handlings
              /\ E!Other(e) \in E!Ends /\ E!Other(E!Other(e)) = e
              /\ MaxSeq[e] \in Nat
         /\ out.runs \in Seq(Pieces) /\ out.printed \in Seq({1, 2})
  <1>1. PortTypes /\ "page" \in E!Ends /\ "worker" \in E!Ends /\ E!Ends = {"page", "worker"}
    BY DEF PortInv, E!Ends
  <1>2. \A e \in E!Ends : E!Other(e) \in E!Ends /\ E!Other(E!Other(e)) = e
    BY DEF E!Ends, E!Other
  <1>3. \A e \in E!Ends : MaxSeq[e] \in Nat
    BY ChildrenAssumption DEF MaxSeq, E!Ends
  <1>4. \A e \in E!Ends : end[e] \in PortEnds /\ calls[e] \in Seq(Asks) /\ toEnd[e] \in Seq(Messages)
                          /\ handling[e] \in SUBSET Handlings
    BY <1>1 DEF PortTypes
  <1>5. \A n \in PortEnds : n.seq \in Nat /\ n.inflight \subseteq Nat /\ n.closed \in BOOLEAN
    BY DEF PortEnds
  <1> QED BY <1>1, <1>2, <1>3, <1>4, <1>5 DEF PortTypes

\* What is known of calls stays so when more are made.
Grown(cs, ds) ==
  \A e \in E!Ends : \A i \in DOMAIN cs[e] : i \in DOMAIN ds[e] /\ ds[e][i].own = cs[e][i].own

LEMMA GrownTrue ==
  ASSUME NEW cs, NEW ds, Grown(cs, ds)
  PROVE  /\ \A e \in E!Ends : \A of, seq, parts :
               TrueCall(cs, e, of, seq, parts) => TrueCall(ds, e, of, seq, parts)
         /\ \A o \in E!Ends : \A m : TrueMessage(cs, o, m) => TrueMessage(ds, o, m)
  <1>1. \A e \in E!Ends : \A of, seq, parts :
               TrueCall(cs, e, of, seq, parts) => TrueCall(ds, e, of, seq, parts)
    BY DEF Grown, TrueCall
  <1>2. \A o \in E!Ends : E!Other(o) \in E!Ends
    BY DEF E!Ends, E!Other
  <1> QED BY <1>1, <1>2 DEF TrueMessage

LEMMA GrownMessages ==
  ASSUME NEW cs, NEW ds, Grown(cs, ds), NEW te, NEW hd, NEW rw, TrueMessages(cs, te, hd, rw)
  PROVE  TrueMessages(ds, te, hd, rw)
  <1>1. \A o \in E!Ends : E!Other(o) \in E!Ends
    BY DEF E!Ends, E!Other
  <1>2. "worker" \in E!Ends
    BY DEF E!Ends
  <1> QED BY <1>1, <1>2, GrownTrue DEF TrueMessages

\* One more call of an end, which is numbered next.
LEMMA AskKeeps ==
  ASSUME PortInv, NEW e \in E!Ends, NEW st \in {"failed", "pending", "post"}, NEW own \in Parts,
         end[e].seq <= MaxSeq[e], calls' = E!Asked(e, st, own),
         NEW n \in PortEnds, end' = [end EXCEPT ![e] = n],
         n.closed = end[e].closed, n.seq = end[e].seq + 1,
         n.inflight = IF st = "pending" THEN end[e].inflight \cup {end[e].seq} ELSE end[e].inflight,
         st = "pending" => ~ end[e].closed
  PROVE  /\ end' \in [E!Ends -> PortEnds] /\ calls' \in [E!Ends -> Seq(Asks)]
         /\ Numbers(end', calls') /\ Waiting(end', calls') /\ Answering(calls')
         /\ Grown(calls, calls')
         /\ end[e].seq \in DOMAIN calls'[e] /\ calls'[e][end[e].seq].own = own
         /\ end'[e] = n /\ \A o \in E!Ends : o # e => end'[o] = end[o]
  <1> DEFINE a == [state |-> st, own |-> own, got |-> None]
  <1>1. a \in Asks /\ a.state = st /\ a.own = own
    BY DEF Asks
  <1>2. calls' = [calls EXCEPT ![e] = Append(calls[e], a)]
    BY PortFields DEF E!Asked
  <1> HIDE DEF a
  <1>3. calls[e] \in Seq(Asks) /\ calls \in [E!Ends -> Seq(Asks)] /\ end \in [E!Ends -> PortEnds]
    BY PortFields
  <1>4. /\ Append(calls[e], a) \in Seq(Asks) /\ Len(calls[e]) \in Nat
        /\ Len(Append(calls[e], a)) = Len(calls[e]) + 1
        /\ DOMAIN Append(calls[e], a) = DOMAIN calls[e] \cup {Len(calls[e]) + 1}
        /\ \A i \in DOMAIN calls[e] : Append(calls[e], a)[i] = calls[e][i] /\ i # Len(calls[e]) + 1
        /\ Append(calls[e], a)[Len(calls[e]) + 1] = a
    BY <1>1, <1>3, AppendAt
  <1>5. end[e].seq = Len(calls[e]) + 1
    <2>1. end[e].seq \in Nat /\ MaxSeq[e] \in Nat
      BY PortFields
    <2> QED BY <2>1 DEF PortInv, Numbers
  <1>6. /\ calls' \in [E!Ends -> Seq(Asks)] /\ end' \in [E!Ends -> PortEnds]
        /\ calls'[e] = Append(calls[e], a) /\ end'[e] = n
        /\ \A o \in E!Ends : o # e => calls'[o] = calls[o] /\ end'[o] = end[o]
    BY <1>2, <1>3, <1>4
  <1>7. Numbers(end', calls')
    <2>1. n.seq = Len(calls'[e]) + 1
      BY <1>4, <1>5, <1>6
    <2> QED BY <1>6, <2>1 DEF PortInv, Numbers
  <1>8. Waiting(end', calls')
    <2>1. /\ \A i \in DOMAIN calls'[e] : i \in n.inflight <=> calls'[e][i].state = "pending"
          /\ n.inflight \subseteq DOMAIN calls'[e] /\ (n.closed => n.inflight = {})
      <3>1. /\ \A i \in DOMAIN calls[e] : i \in end[e].inflight <=> calls[e][i].state = "pending"
            /\ end[e].inflight \subseteq DOMAIN calls[e]
            /\ (end[e].closed => end[e].inflight = {})
        BY DEF PortInv, Waiting
      <3>2. CASE st = "pending"
        BY <1>1, <1>4, <1>5, <1>6, <3>1, <3>2
      <3>3. CASE st # "pending"
        <4>1. Len(calls[e]) + 1 \notin end[e].inflight
          BY <1>4, <3>1
        <4> QED BY <1>1, <1>4, <1>5, <1>6, <3>1, <3>3, <4>1
      <3> QED BY <3>2, <3>3
    <2>2. ASSUME NEW o \in E!Ends, o # e
          PROVE  /\ \A i \in DOMAIN calls[o] : i \in end[o].inflight <=> calls[o][i].state = "pending"
                 /\ end[o].inflight \subseteq DOMAIN calls[o]
                 /\ end[o].closed => end[o].inflight = {}
      BY DEF PortInv, Waiting
    <2> SUFFICES ASSUME NEW o \in E!Ends
                 PROVE  /\ \A i \in DOMAIN calls'[o] :
                             i \in end'[o].inflight <=> calls'[o][i].state = "pending"
                        /\ end'[o].inflight \subseteq DOMAIN calls'[o]
                        /\ end'[o].closed => end'[o].inflight = {}
      BY DEF Waiting
    <2>3. CASE o = e
      BY <1>6, <2>1, <2>3
    <2>4. CASE o # e
      BY <1>6, <2>2, <2>4
    <2> QED BY <2>3, <2>4
  <1>9. Answering(calls')
    <2> SUFFICES ASSUME NEW o \in E!Ends, NEW i \in DOMAIN calls'[o], calls'[o][i].state = "answered"
                 PROVE  calls'[o][i].got = [of |-> <<o, i>>, parts |-> calls'[o][i].own]
      BY DEF Answering
    <2>1. i \in DOMAIN calls[o] /\ calls'[o][i] = calls[o][i]
      <3>1. CASE o = e
        <4>1. calls'[e][Len(calls[e]) + 1].state # "answered"
          BY <1>1, <1>4, <1>6
        <4> QED BY <1>4, <1>6, <3>1, <4>1
      <3>2. CASE o # e
        BY <1>6, <3>2
      <3> QED BY <3>1, <3>2
    <2> QED BY <2>1 DEF PortInv, Answering
  <1>10. Grown(calls, calls')
    <2>1. ASSUME NEW o \in E!Ends, NEW i \in DOMAIN calls[o]
          PROVE  i \in DOMAIN calls'[o] /\ calls'[o][i] = calls[o][i]
      <3>1. CASE o = e
        BY <1>4, <1>6, <3>1
      <3>2. CASE o # e
        BY <1>6, <3>2
      <3> QED BY <3>1, <3>2
    <2> QED BY <2>1 DEF Grown
  <1> QED BY <1>1, <1>4, <1>5, <1>6, <1>7, <1>8, <1>9, <1>10

\* A message that is true is posted, or the port it would go to is closed.
LEMMA PostKeepsTrue ==
  ASSUME PortInv, NEW e \in E!Ends, NEW m \in Messages, TrueMessage(calls', E!Other(e), m),
         Grown(calls, calls'), toEnd' = E!Posted(e, m), UNCHANGED <<raw, handling>>
  PROVE  toEnd' \in [E!Ends -> Seq(Messages)] /\ TrueMessages(calls', toEnd', handling, raw)
  <1> DEFINE o == E!Other(e)
  <1>1. /\ o \in E!Ends /\ toEnd \in [E!Ends -> Seq(Messages)] /\ toEnd[o] \in Seq(Messages)
    BY PortFields
  <1>2. TrueMessages(calls', toEnd, handling, raw)
    BY GrownMessages DEF PortInv
  <1>3. CASE toEnd' = toEnd
    BY <1>1, <1>2, <1>3
  <1>4. CASE toEnd' = [toEnd EXCEPT ![o] = Append(toEnd[o], m)]
    <2>1. /\ Append(toEnd[o], m) \in Seq(Messages)
          /\ DOMAIN Append(toEnd[o], m) = DOMAIN toEnd[o] \cup {Len(toEnd[o]) + 1}
          /\ \A i \in DOMAIN toEnd[o] : Append(toEnd[o], m)[i] = toEnd[o][i]
          /\ Append(toEnd[o], m)[Len(toEnd[o]) + 1] = m
      BY <1>1, AppendAt
    <2>2. /\ toEnd' \in [E!Ends -> Seq(Messages)] /\ toEnd'[o] = Append(toEnd[o], m)
          /\ \A k \in E!Ends : k # o => toEnd'[k] = toEnd[k]
      BY <1>1, <1>4, <2>1
    <2>3. TrueMessage(calls', o, m)
      OBVIOUS
    <2> HIDE DEF o
    <2>4. \A k \in E!Ends : \A i \in DOMAIN toEnd'[k] : TrueMessage(calls', k, toEnd'[k][i])
      BY <1>2, <2>1, <2>2, <2>3 DEF TrueMessages
    <2> QED BY <1>2, <2>2, <2>4 DEF TrueMessages
  <1> QED BY <1>1, <1>3, <1>4 DEF E!Posted

\* The call an end has numbered is the one its message tells of.
LEMMA AskedTrue ==
  ASSUME PortInv, NEW e \in E!Ends, NEW own \in Parts, NEW knd \in {"known", "unknown"},
         NEW runs \in Seq(Pieces),
         end[e].seq \in DOMAIN calls'[e], calls'[e][end[e].seq].own = own
  PROVE  /\ E!Packed(e, own, knd, runs) \in Messages
         /\ TrueMessage(calls', E!Other(e), E!Packed(e, own, knd, runs))
         /\ E!Packed(e, own, knd, runs).is = "call"
  <1> DEFINE m == E!Packed(e, own, knd, runs)
  <1>1. end[e].seq \in Nat /\ None \notin Nat /\ E!Other(E!Other(e)) = e
    BY PortFields, ChildrenAssumption
  <1>2. /\ m \in Messages /\ m.is = "call" /\ m.of = <<e, end[e].seq>> /\ m.seq = end[e].seq
        /\ E!PrimaryParts(m) = own
    BY <1>1, PackedTrue
  <1> HIDE DEF m
  <1>3. TrueMessage(calls', E!Other(e), m)
    BY <1>1, <1>2 DEF TrueMessage, TrueCall
  <1> QED BY <1>2, <1>3 DEF m

\* The ports stay as they were.
LEMMA PortsStay ==
  ASSUME PortInv, NEW e \in E!Ends, end'[e].port = end[e].port, end'[e].closed = end[e].closed,
         \A o \in E!Ends : o # e => end'[o] = end[o]
  PROVE  PortsAgree(end', raw)
  <1>1. \A o \in E!Ends : end'[o].port = end[o].port /\ end'[o].closed = end[o].closed
    OBVIOUS
  <1>2. "page" \in E!Ends /\ "worker" \in E!Ends
    BY DEF E!Ends
  <1> QED BY <1>1, <1>2 DEF PortInv, PortsAgree

\* A call that fails where it is made, or goes on its way with what rides along.
LEMMA AskSends ==
  ASSUME PortInv, NEW e \in E!Ends, NEW st \in {"failed", "pending", "post"}, NEW own \in Parts,
         NEW knd \in {"known", "unknown"}, NEW runs \in Seq(Pieces),
         end[e].seq <= MaxSeq[e], calls' = E!Asked(e, st, own),
         st = "pending" => end[e].port = "open",
         end' = [end EXCEPT ![e].seq = end[e].seq + 1, ![e].inflight =
                   IF st = "pending" THEN end[e].inflight \cup {end[e].seq} ELSE end[e].inflight],
         toEnd' \in {toEnd, E!Posted(e, E!Packed(e, own, knd, runs))},
         UNCHANGED <<raw, handling>>,
         out' \in [printed : Seq({1, 2}), runs : Seq(Pieces), scheduled : BOOLEAN, lost : {out'.lost}]
  PROVE  PortInv'
  <1> DEFINE f == IF st = "pending" THEN end[e].inflight \cup {end[e].seq} ELSE end[e].inflight
             n == [end[e] EXCEPT !.seq = end[e].seq + 1, !.inflight = f]
  <1>1. end[e] \in PortEnds /\ end[e].seq \in Nat /\ end[e].seq + 1 \in Nat
        /\ end[e].inflight \subseteq Nat
    <2>1. end[e] \in PortEnds /\ end[e].seq \in Nat /\ end[e].inflight \subseteq Nat
      BY PortFields
    <2> QED BY <2>1
  <1>2. f \subseteq Nat
    BY <1>1
  <1>3. end' = [end EXCEPT ![e].seq = end[e].seq + 1, ![e].inflight = f]
    OBVIOUS
  <1>4. f = IF st = "pending" THEN end[e].inflight \cup {end[e].seq} ELSE end[e].inflight
    OBVIOUS
  <1> HIDE DEF f
  <1>5. n \in PortEnds /\ n.port = end[e].port /\ n.closed = end[e].closed
        /\ n.seq = end[e].seq + 1 /\ n.inflight = f
    BY <1>1, <1>2 DEF PortEnds
  <1>6. end' = [end EXCEPT ![e] = n]
    <2>1. end \in [E!Ends -> PortEnds]
      BY PortFields
    <2> QED BY <1>3, <2>1 DEF PortEnds
  <1> HIDE DEF n
  <1>7. st = "pending" => ~ end[e].closed
    BY DEF PortInv, PortsAgree
  <1>12. n.inflight = IF st = "pending" THEN end[e].inflight \cup {end[e].seq} ELSE end[e].inflight
    BY <1>4, <1>5
  <1>8. /\ end' \in [E!Ends -> PortEnds] /\ calls' \in [E!Ends -> Seq(Asks)]
        /\ Numbers(end', calls') /\ Waiting(end', calls') /\ Answering(calls')
        /\ Grown(calls, calls')
        /\ end[e].seq \in DOMAIN calls'[e] /\ calls'[e][end[e].seq].own = own
        /\ end'[e] = n /\ \A o \in E!Ends : o # e => end'[o] = end[o]
    BY <1>5, <1>6, <1>7, <1>12, AskKeeps
  <1>9. PortsAgree(end', raw')
    BY <1>5, <1>8, PortsStay
  <1>10. toEnd' \in [E!Ends -> Seq(Messages)] /\ TrueMessages(calls', toEnd', handling, raw)
    <2>1. CASE toEnd' = toEnd
      BY <1>8, <2>1, PortFields, GrownMessages DEF PortInv
    <2>2. CASE toEnd' = E!Posted(e, E!Packed(e, own, knd, runs))
      <3>1. /\ E!Packed(e, own, knd, runs) \in Messages
            /\ TrueMessage(calls', E!Other(e), E!Packed(e, own, knd, runs))
        BY <1>8, AskedTrue
      <3> QED BY <1>8, <2>2, <3>1, PostKeepsTrue
    <2> QED BY <2>1, <2>2
  <1>11. PortTypes'
    BY <1>8, <1>10 DEF PortInv, PortTypes
  <1> QED BY <1>8, <1>9, <1>10, <1>11 DEF PortInv

LEMMA CallKeeps ==
  ASSUME PortInv, NEW e \in E!Ends, E!Call(e) PROVE PortInv'
  <1>1. /\ <<>> \in Parts /\ <<<<0>>>> \in Parts /\ <<>> \in Seq(Pieces)
    BY EmptySeq DEF Parts
  <1>2. /\ end[e].seq <= MaxSeq[e] /\ end \in [E!Ends -> PortEnds] /\ end[e] \in PortEnds
        /\ E!Drained(e) \in Seq(Pieces)
    BY <1>1, PortFields DEF E!Call, E!Drained
  <1>3. /\ out \in [printed : Seq({1, 2}), runs : Seq(Pieces), scheduled : BOOLEAN, lost : {out.lost}]
        /\ E!Emptied(e) \in {out, [out EXCEPT !.runs = <<>>]}
    BY PortFields DEF E!Emptied
  <1>4. ASSUME end' = [end EXCEPT ![e].seq = end[e].seq + 1]
        PROVE  end' = [end EXCEPT ![e].seq = end[e].seq + 1, ![e].inflight = end[e].inflight]
    BY <1>2, <1>4 DEF PortEnds
  <1>5. CASE E!Refuse(e)
    <2>1. /\ calls' = E!Asked(e, "failed", <<>>) /\ end' = [end EXCEPT ![e].seq = end[e].seq + 1]
          /\ toEnd' = toEnd /\ UNCHANGED <<raw, handling, out>>
      BY <1>5 DEF E!Refuse
    <2>2. out' \in [printed : Seq({1, 2}), runs : Seq(Pieces), scheduled : BOOLEAN, lost : {out'.lost}]
      BY <1>3, <2>1
    <2> QED BY <1>1, <1>2, <1>4, <2>1, <2>2, AskSends
  <1>6. CASE E!SendThrows(e)
    <2>1. /\ calls' = E!Asked(e, "failed", <<>>) /\ end' = [end EXCEPT ![e].seq = end[e].seq + 1]
          /\ toEnd' = toEnd /\ UNCHANGED <<raw, handling>>
      BY <1>6 DEF E!SendThrows
    <2>2. out' \in [printed : Seq({1, 2}), runs : Seq(Pieces), scheduled : BOOLEAN, lost : {out'.lost}]
      <3>1. \E l : out' = [E!Emptied(e) EXCEPT !.lost = l]
        BY <1>6 DEF E!SendThrows
      <3> QED BY <1>1, <1>3, <3>1
    <2> QED BY <1>1, <1>2, <1>4, <2>1, <2>2, AskSends
  <1>7. ASSUME NEW own \in Parts, NEW knd \in {"known", "unknown"}, E!Send(e, own, knd)
        PROVE  PortInv'
    <2>1. /\ calls' = E!Asked(e, "pending", own) /\ end[e].port = "open"
          /\ end' = [end EXCEPT ![e].seq = end[e].seq + 1,
                                ![e].inflight = end[e].inflight \cup {end[e].seq}]
          /\ toEnd' = E!Posted(e, E!Packed(e, own, knd, E!Drained(e)))
          /\ out' = E!Emptied(e) /\ UNCHANGED <<raw, handling>>
      BY <1>2, <1>7 DEF E!Send
    <2>2. out' \in [printed : Seq({1, 2}), runs : Seq(Pieces), scheduled : BOOLEAN, lost : {out'.lost}]
      BY <1>1, <1>3, <2>1
    <2> QED BY <1>2, <2>1, <2>2, AskSends
  <1> QED BY <1>1, <1>5, <1>6, <1>7 DEF E!Call

\* What is printed makes a run of its own or goes on with the last one.
LEMMA RunsTyped ==
  ASSUME NEW runs \in Seq(Pieces), NEW fd \in {1, 2}, NEW k \in Nat
  PROVE  E!Runs(runs, fd, k) \in Seq(Pieces)
  <1> DEFINE one == [fd |-> fd, chunks |-> <<k>>]
  <1>1. one \in Pieces
    BY DEF Pieces
  <1>2. CASE runs # <<>> /\ E!Last(runs).fd = fd
    <2> DEFINE l == Len(runs)
               c == Append(runs[l].chunks, k)
               p == [runs[l] EXCEPT !.chunks = c]
    <2>1. l \in 1 .. Len(runs)
      <3>1. Len(runs) \in Nat \ {0}
        BY <1>2, EmptySeq
      <3> QED BY <3>1
    <2>2. runs[l] \in Pieces
      BY <2>1, ElementOfSeq
    <2>3. c \in Seq(Nat)
      BY <2>2, AppendProperties DEF Pieces
    <2> HIDE DEF c
    <2>4. p \in Pieces
      BY <2>2, <2>3 DEF Pieces
    <2>5. E!Runs(runs, fd, k) = [runs EXCEPT ![l] = p]
      BY <1>2, <2>1, <2>2 DEF E!Runs, c
    <2> HIDE DEF p, l
    <2> QED BY <2>1, <2>4, <2>5, ExceptSeq
  <1>3. CASE ~ (runs # <<>> /\ E!Last(runs).fd = fd)
    <2>1. E!Runs(runs, fd, k) = Append(runs, one)
      BY <1>3 DEF E!Runs
    <2> HIDE DEF one
    <2> QED BY <1>1, <2>1, AppendProperties
  <1> QED BY <1>2, <1>3

\* What is printed waits or goes at once; the task sends what waits.
LEMMA PrintKeeps ==
  ASSUME PortInv, E!StdioTask \/ \E fd \in {1, 2} : E!WriteStdio(fd) PROVE PortInv'
  <1>1. /\ "worker" \in E!Ends /\ <<>> \in Parts /\ <<>> \in Seq(Pieces)
        /\ out \in [printed : Seq({1, 2}), runs : Seq(Pieces), scheduled : BOOLEAN, lost : {out.lost}]
        /\ out.runs \in Seq(Pieces) /\ out.printed \in Seq({1, 2})
        /\ end \in [E!Ends -> PortEnds] /\ end["worker"] \in PortEnds
    BY PortFields, EmptySeq DEF Parts
  <1>2. end["worker"].seq <= MaxSeq["worker"]
    BY DEF E!StdioTask, E!WriteStdio, E!Prints
  <1>3. ASSUME NEW runs \in Seq(Pieces), NEW o, E!Post(runs, o), UNCHANGED <<raw, handling, heard, gone>>,
               o \in [printed : Seq({1, 2}), runs : Seq(Pieces), scheduled : BOOLEAN, lost : {o.lost}]
        PROVE  PortInv'
    <2>1. CASE E!Open("worker") /\ runs # <<>>
      <3>1. /\ out' = [o EXCEPT !.runs = <<>>] /\ calls' = E!Asked("worker", "post", <<>>)
            /\ end' = [end EXCEPT !["worker"].seq = end["worker"].seq + 1]
            /\ toEnd' = E!Posted("worker", E!Packed("worker", <<>>, "known", runs))
        BY <1>1, <1>3, <2>1 DEF E!Post
      <3>2. end' = [end EXCEPT !["worker"].seq = end["worker"].seq + 1,
                               !["worker"].inflight = end["worker"].inflight]
        BY <1>1, <3>1 DEF PortEnds
      <3>3. out' \in [printed : Seq({1, 2}), runs : Seq(Pieces), scheduled : BOOLEAN, lost : {out'.lost}]
        BY <1>1, <1>3, <3>1
      <3> QED BY <1>1, <1>2, <1>3, <3>1, <3>2, <3>3, AskSends
    <2>2. CASE ~ (E!Open("worker") /\ runs # <<>>)
      <3>1. out' = [o EXCEPT !.runs = runs] /\ UNCHANGED <<calls, end, toEnd>>
        BY <1>3, <2>2 DEF E!Post
      <3>2. out' \in [printed : Seq({1, 2}), runs : Seq(Pieces), scheduled : BOOLEAN, lost : {out'.lost}]
        BY <1>3, <3>1
      <3>3. PortTypes'
        BY <1>3, <3>1, <3>2 DEF PortInv, PortTypes
      <3> QED BY <1>3, <3>1, <3>3 DEF PortInv
    <2> QED BY <2>1, <2>2
  <1>4. CASE E!StdioTask
    <2> DEFINE o == [out EXCEPT !.scheduled = FALSE]
    <2>1. o \in [printed : Seq({1, 2}), runs : Seq(Pieces), scheduled : BOOLEAN, lost : {o.lost}]
      BY <1>1
    <2>2. E!Post(out.runs, o) /\ UNCHANGED <<raw, handling, heard, gone>>
      BY <1>4 DEF E!StdioTask
    <2> HIDE DEF o
    <2> QED BY <1>1, <1>3, <2>1, <2>2
  <1>5. ASSUME NEW fd \in {1, 2}, E!WriteStdio(fd) PROVE PortInv'
    <2> DEFINE runs == E!Runs(out.runs, fd, Len(out.printed) + 1)
               o == [out EXCEPT !.printed = Append(out.printed, fd)]
    <2>1. Len(out.printed) + 1 \in Nat
      <3>1. Len(out.printed) \in Nat
        BY <1>1, LenProperties
      <3> QED BY <3>1
    <2>2. runs \in Seq(Pieces)
      BY <1>1, <2>1, RunsTyped
    <2>3. Append(out.printed, fd) \in Seq({1, 2})
      BY <1>1, AppendProperties
    <2>4. o \in [printed : Seq({1, 2}), runs : Seq(Pieces), scheduled : BOOLEAN, lost : {o.lost}]
      BY <1>1, <2>3
    <2>5. /\ UNCHANGED <<raw, handling, heard, gone>>
          /\ \/ out' = [o EXCEPT !.runs = runs, !.scheduled = TRUE] /\ UNCHANGED <<calls, end, toEnd>>
             \/ E!Post(runs, o)
      BY <1>5 DEF E!WriteStdio
    <2> HIDE DEF o
    <2> HIDE DEF runs
    <2>6. CASE out' = [o EXCEPT !.runs = runs, !.scheduled = TRUE] /\ UNCHANGED <<calls, end, toEnd>>
      <3>1. out' \in [printed : Seq({1, 2}), runs : Seq(Pieces), scheduled : BOOLEAN, lost : {out'.lost}]
        BY <2>2, <2>4, <2>6
      <3>2. PortTypes'
        BY <2>5, <2>6, <3>1 DEF PortInv, PortTypes
      <3> QED BY <2>5, <2>6, <3>2 DEF PortInv
    <2>7. CASE E!Post(runs, o)
      BY <1>3, <2>2, <2>4, <2>5, <2>7
    <2> QED BY <2>5, <2>6, <2>7
  <1> QED BY <1>4, <1>5

LEMMA BootstrapKeeps ==
  ASSUME PortInv, E!Bootstrap PROVE PortInv'
  <1> DEFINE q == end["page"].seq
             f == end["page"].inflight \cup {q}
             n == [end["page"] EXCEPT !.port = "open", !.seq = q + 1, !.inflight = f]
             m == E!Packed("page", <<>>, "known", <<>>)
  <1>1. /\ "page" \in E!Ends /\ "worker" \in E!Ends /\ <<>> \in Parts /\ <<>> \in Seq(Pieces)
        /\ end \in [E!Ends -> PortEnds] /\ end["page"] \in PortEnds
        /\ end["page"].inflight \subseteq Nat /\ q \in Nat
    BY PortFields, EmptySeq DEF Parts
  <1>2. /\ end["page"].port = "none" /\ ~ end["page"].closed /\ q <= MaxSeq["page"]
        /\ raw' = m /\ calls' = E!Asked("page", "pending", <<>>)
        /\ end' = [end EXCEPT !["page"].port = "open", !["page"].seq = q + 1, !["page"].inflight = f]
        /\ UNCHANGED <<toEnd, handling, out>>
    BY <1>1 DEF E!Bootstrap
  <1>3. f \subseteq Nat /\ q + 1 \in Nat
    BY <1>1
  <1>4. end["page"].closed = FALSE
    BY <1>1, <1>2 DEF PortEnds
  <1>5. n \in PortEnds /\ n.port = "open" /\ n.closed = FALSE /\ n.seq = q + 1 /\ n.inflight = f
    BY <1>1, <1>3, <1>4 DEF PortEnds
  <1>6. end' = [end EXCEPT !["page"] = n]
    BY <1>1, <1>2 DEF PortEnds
  <1> HIDE DEF n
  <1>7. n.inflight = IF "pending" = "pending" THEN end["page"].inflight \cup {end["page"].seq}
                     ELSE end["page"].inflight
    BY <1>5
  <1>8. /\ end' \in [E!Ends -> PortEnds] /\ calls' \in [E!Ends -> Seq(Asks)]
        /\ Numbers(end', calls') /\ Waiting(end', calls') /\ Answering(calls')
        /\ Grown(calls, calls')
        /\ q \in DOMAIN calls'["page"] /\ calls'["page"][q].own = <<>>
        /\ end'["page"] = n /\ \A o \in E!Ends : o # "page" => end'[o] = end[o]
    <2>1. /\ end["page"].seq <= MaxSeq["page"] /\ calls' = E!Asked("page", "pending", <<>>)
          /\ n.closed = end["page"].closed /\ n.seq = end["page"].seq + 1
          /\ ~ end["page"].closed
      BY <1>2, <1>4, <1>5
    <2> HIDE DEF q
    <2> HIDE DEF f
    <2>2. /\ end' \in [E!Ends -> PortEnds] /\ calls' \in [E!Ends -> Seq(Asks)]
          /\ Numbers(end', calls') /\ Waiting(end', calls') /\ Answering(calls')
          /\ Grown(calls, calls')
          /\ end["page"].seq \in DOMAIN calls'["page"] /\ calls'["page"][end["page"].seq].own = <<>>
          /\ end'["page"] = n /\ \A o \in E!Ends : o # "page" => end'[o] = end[o]
      BY <1>1, <1>5, <1>6, <1>7, <2>1, AskKeeps
    <2> QED BY <2>2 DEF q
  <1>9. m \in Messages /\ TrueMessage(calls', "worker", m) /\ m.is = "call"
    <2>1. E!Other("page") = "worker"
      BY DEF E!Other
    <2> QED BY <1>1, <1>8, <2>1, AskedTrue
  <1> HIDE DEF m
  <1>10. TrueMessages(calls', toEnd, handling, m)
    <2>1. TrueMessages(calls', toEnd, handling, raw)
      BY <1>8, GrownMessages DEF PortInv
    <2> QED BY <1>9, <2>1 DEF TrueMessages
  <1>11. PortsAgree(end', raw')
    <2>1. end["worker"].port = "none" /\ \A o \in E!Ends : o # "page" => end'[o] = end[o]
      BY <1>2, <1>8 DEF PortInv, PortsAgree
    <2>2. end'["worker"] = end["worker"]
      BY <1>1, <2>1
    <2>3. end'["page"].port = "open" /\ end'["page"].closed = FALSE
      BY <1>5, <1>8
    <2>4. \A o \in E!Ends : o = "page" \/ o = "worker"
      BY DEF E!Ends
    <2> QED BY <1>1, <2>1, <2>2, <2>3, <2>4 DEF PortInv, PortsAgree
  <1>12. PortTypes'
    BY <1>2, <1>8, <1>9 DEF PortInv, PortTypes
  <1> QED BY <1>2, <1>8, <1>10, <1>11, <1>12 DEF PortInv

LEMMA CallFields ==
  ASSUME PortInv, NEW e \in E!Ends, NEW of, NEW seq, NEW parts, TrueCall(calls, e, of, seq, parts)
  PROVE  /\ seq \in Nat /\ parts \in Parts /\ of \in E!Ends \X Nat
         /\ of = <<e, seq>> /\ seq \in DOMAIN calls[e]
  <1>1. /\ calls[e] \in Seq(Asks) /\ seq \in DOMAIN calls[e] /\ of = <<e, seq>>
        /\ parts = calls[e][seq].own
    BY PortFields DEF TrueCall
  <1>2. seq \in 1 .. Len(calls[e]) /\ Len(calls[e]) \in Nat
    BY <1>1, LenProperties
  <1>3. calls[e][seq] \in Asks /\ seq \in Nat
    BY <1>1, <1>2, ElementOfSeq
  <1> QED BY <1>1, <1>3 DEF Asks

\* A call is answered or handed on as it is known.
LEMMA HandleTrue ==
  ASSUME PortInv, NEW e \in E!Ends, NEW m \in Messages, m.is = "call", TrueMessage(calls, e, m),
         NEW e1, NEW rest \in [E!Ends -> Seq(Messages)],
         \A o \in E!Ends : \A i \in DOMAIN rest[o] : TrueMessage(calls, o, rest[o][i]),
         E!Handle(e, m, e1, rest)
  PROVE  /\ toEnd' \in [E!Ends -> Seq(Messages)] /\ handling' \in [E!Ends -> SUBSET Handlings]
         /\ \A o \in E!Ends :
              /\ \A i \in DOMAIN toEnd'[o] : TrueMessage(calls, o, toEnd'[o][i])
              /\ \A h \in handling'[o] : TrueCall(calls, E!Other(o), h.of, h.seq, h.parts)
  <1> DEFINE p == E!PrimaryParts(m)
             h == [of |-> m.of, seq |-> m.seq, parts |-> p]
             o == E!Other(e)
             r == E!Result(h)
  <1>1. /\ o \in E!Ends /\ handling \in [E!Ends -> SUBSET Handlings]
        /\ \A k \in E!Ends : \A x \in handling[k] : TrueCall(calls, E!Other(k), x.of, x.seq, x.parts)
    BY PortFields DEF PortInv, TrueMessages
  <1>2. TrueCall(calls, o, m.of, m.seq, p)
    BY DEF TrueMessage
  <1>3. m.seq \in Nat /\ p \in Parts /\ m.of \in E!Ends \X Nat
    BY <1>1, <1>2, CallFields
  <1>4. CASE /\ handling' = handling
             /\ toEnd' = [rest EXCEPT ![o] = IF e1[o].port = "closed" THEN rest[o] ELSE Append(rest[o], r)]
    <2> HIDE DEF p
    <2>1. /\ r \in Messages /\ r.is = "result" /\ r.of = m.of /\ r.seq = m.seq /\ r.parts = p
      BY <1>3 DEF E!Result, Messages
    <2>2. TrueMessage(calls, o, r)
      BY <1>2, <2>1 DEF TrueMessage
    <2> HIDE DEF r
    <2>3. toEnd' = rest \/ toEnd' = [rest EXCEPT ![o] = Append(rest[o], r)]
      BY <1>1, <1>4
    <2>4. CASE toEnd' = rest
      BY <1>1, <1>4, <2>4
    <2>5. CASE toEnd' = [rest EXCEPT ![o] = Append(rest[o], r)]
      <3> HIDE DEF o
      <3>1. /\ Append(rest[o], r) \in Seq(Messages)
            /\ DOMAIN Append(rest[o], r) = DOMAIN rest[o] \cup {Len(rest[o]) + 1}
            /\ \A i \in DOMAIN rest[o] : Append(rest[o], r)[i] = rest[o][i]
            /\ Append(rest[o], r)[Len(rest[o]) + 1] = r
        BY <1>1, <2>1, AppendAt
      <3>2. /\ toEnd' \in [E!Ends -> Seq(Messages)] /\ toEnd'[o] = Append(rest[o], r)
            /\ \A k \in E!Ends : k # o => toEnd'[k] = rest[k]
        BY <1>1, <2>5, <3>1
      <3>3. \A k \in E!Ends : \A i \in DOMAIN toEnd'[k] : TrueMessage(calls, k, toEnd'[k][i])
        BY <2>2, <3>1, <3>2
      <3> QED BY <1>1, <1>4, <3>2, <3>3
    <2> QED BY <2>3, <2>4, <2>5
  <1>5. CASE handling' = [handling EXCEPT ![e] = handling[e] \cup {h}] /\ toEnd' = rest
    <2>1. h \in Handlings /\ h.of = m.of /\ h.seq = m.seq /\ h.parts = p
      BY <1>3 DEF Handlings
    <2> HIDE DEF h
    <2>2. /\ handling' \in [E!Ends -> SUBSET Handlings] /\ handling'[e] = handling[e] \cup {h}
          /\ \A k \in E!Ends : k # e => handling'[k] = handling[k]
      BY <1>1, <1>5, <2>1
    <2>3. \A k \in E!Ends : \A x \in handling'[k] : TrueCall(calls, E!Other(k), x.of, x.seq, x.parts)
      BY <1>1, <1>2, <2>1, <2>2
    <2> QED BY <1>5, <2>2, <2>3
  <1>6. \/ /\ handling' = handling
           /\ toEnd' = [rest EXCEPT ![o] = IF e1[o].port = "closed" THEN rest[o] ELSE Append(rest[o], r)]
        \/ handling' = [handling EXCEPT ![e] = handling[e] \cup {h}] /\ toEnd' = rest
    BY DEF E!Handle
  <1> QED BY <1>4, <1>5, <1>6

LEMMA OnBootstrapKeeps ==
  ASSUME PortInv, E!OnBootstrap PROVE PortInv'
  <1>1. /\ raw # None /\ raw' = None /\ end' = [end EXCEPT !["worker"].port = "open"]
        /\ E!Handle("worker", raw, end, toEnd) /\ UNCHANGED <<calls, out>>
    BY DEF E!OnBootstrap
  <1>2. /\ "worker" \in E!Ends /\ "page" \in E!Ends /\ toEnd \in [E!Ends -> Seq(Messages)]
        /\ end \in [E!Ends -> PortEnds] /\ end["worker"] \in PortEnds
        /\ \A o \in E!Ends : o = "page" \/ o = "worker"
    BY PortFields DEF E!Ends
  <1>3. /\ raw \in Messages /\ raw.is = "call" /\ TrueMessage(calls, "worker", raw)
        /\ \A o \in E!Ends : \A i \in DOMAIN toEnd[o] : TrueMessage(calls, o, toEnd[o][i])
    BY <1>1 DEF PortInv, PortTypes, TrueMessages
  <1>4. /\ toEnd' \in [E!Ends -> Seq(Messages)] /\ handling' \in [E!Ends -> SUBSET Handlings]
        /\ \A o \in E!Ends :
             /\ \A i \in DOMAIN toEnd'[o] : TrueMessage(calls, o, toEnd'[o][i])
             /\ \A h \in handling'[o] : TrueCall(calls, E!Other(o), h.of, h.seq, h.parts)
    BY <1>1, <1>2, <1>3, HandleTrue
  <1>5. /\ end' \in [E!Ends -> PortEnds] /\ end'["page"] = end["page"]
        /\ end'["worker"].port = "open" /\ end'["worker"].closed = end["worker"].closed
        /\ end'["worker"].seq = end["worker"].seq /\ end'["worker"].inflight = end["worker"].inflight
    BY <1>1, <1>2 DEF PortEnds
  <1>6. end["worker"].port = "none" /\ ~ end["worker"].closed /\ end["page"].port # "none"
    BY <1>1, <1>2 DEF PortInv, PortsAgree
  <1>7. PortsAgree(end', raw')
    BY <1>1, <1>2, <1>5, <1>6 DEF PortInv, PortsAgree
  <1>8. \A o \in E!Ends : end'[o].seq = end[o].seq /\ end'[o].inflight = end[o].inflight
                          /\ end'[o].closed = end[o].closed
    BY <1>2, <1>5
  <1>9. Numbers(end', calls') /\ Waiting(end', calls') /\ Answering(calls')
    BY <1>1, <1>8 DEF PortInv, Numbers, Waiting
  <1>10. TrueMessages(calls', toEnd', handling', raw')
    BY <1>1, <1>4 DEF TrueMessages
  <1>11. PortTypes'
    BY <1>1, <1>4, <1>5 DEF PortInv, PortTypes
  <1> QED BY <1>7, <1>9, <1>10, <1>11 DEF PortInv

LEMMA PortFinishes ==
  ASSUME PortInv, NEW e \in E!Ends, E!Finish(e) PROVE PortInv'
  <1>1. PICK h \in handling[e] :
          /\ handling' = [handling EXCEPT ![e] = handling[e] \ {h}]
          /\ toEnd' = IF end[e].port = "open" THEN E!Posted(e, E!Result(h)) ELSE toEnd
    BY PortFields DEF E!Finish
  <1>2. UNCHANGED <<end, raw, calls, out>>
    BY DEF E!Finish
  <1>3. /\ handling \in [E!Ends -> SUBSET Handlings] /\ toEnd \in [E!Ends -> Seq(Messages)]
        /\ h \in Handlings /\ TrueCall(calls, E!Other(e), h.of, h.seq, h.parts)
        /\ E!Other(e) \in E!Ends
    BY PortFields DEF PortInv, TrueMessages
  <1>4. /\ handling' \in [E!Ends -> SUBSET Handlings]
        /\ \A o \in E!Ends : handling'[o] \subseteq handling[o]
    BY <1>1, <1>3
  <1> DEFINE r == E!Result(h)
             o == E!Other(e)
  <1>5. r \in Messages /\ r.is = "result" /\ r.of = h.of /\ r.seq = h.seq /\ r.parts = h.parts
    BY <1>3 DEF E!Result, Messages, Handlings
  <1>6. TrueMessage(calls, o, r)
    BY <1>3, <1>5 DEF TrueMessage
  <1> HIDE DEF r
  <1>7. toEnd' = toEnd \/ toEnd' = [toEnd EXCEPT ![o] = Append(toEnd[o], r)]
    BY <1>1, <1>3 DEF E!Posted, r
  <1> HIDE DEF o
  <1>8. /\ toEnd' \in [E!Ends -> Seq(Messages)]
        /\ \A k \in E!Ends : \A i \in DOMAIN toEnd'[k] : TrueMessage(calls, k, toEnd'[k][i])
    <2>1. CASE toEnd' = toEnd
      BY <1>3, <2>1 DEF PortInv, TrueMessages
    <2>2. CASE toEnd' = [toEnd EXCEPT ![o] = Append(toEnd[o], r)]
      <3>0. o \in E!Ends /\ toEnd[o] \in Seq(Messages)
        BY <1>3 DEF o
      <3>1. /\ Append(toEnd[o], r) \in Seq(Messages)
            /\ DOMAIN Append(toEnd[o], r) = DOMAIN toEnd[o] \cup {Len(toEnd[o]) + 1}
            /\ \A i \in DOMAIN toEnd[o] : Append(toEnd[o], r)[i] = toEnd[o][i]
            /\ Append(toEnd[o], r)[Len(toEnd[o]) + 1] = r
        BY <1>5, <3>0, AppendAt
      <3>2. /\ toEnd' \in [E!Ends -> Seq(Messages)] /\ toEnd'[o] = Append(toEnd[o], r)
            /\ \A k \in E!Ends : k # o => toEnd'[k] = toEnd[k]
        BY <1>3, <2>2, <3>0, <3>1
      <3> QED BY <1>6, <3>1, <3>2 DEF PortInv, TrueMessages
    <2> QED BY <1>7, <2>1, <2>2
  <1>9. TrueMessages(calls', toEnd', handling', raw')
    BY <1>2, <1>4, <1>8 DEF PortInv, TrueMessages
  <1>10. PortTypes'
    BY <1>2, <1>4, <1>8 DEF PortInv, PortTypes
  <1> QED BY <1>2, <1>9, <1>10 DEF PortInv

\* Who waits at an end that closes is told so.
LEMMA FailedTold ==
  ASSUME PortInv, NEW e \in E!Ends, NEW cs, cs = E!Failed(e)
  PROVE  /\ cs \in [E!Ends -> Seq(Asks)] /\ Grown(calls, cs) /\ Answering(cs)
         /\ \A o \in E!Ends : DOMAIN cs[o] = DOMAIN calls[o] /\ Len(cs[o]) = Len(calls[o])
         /\ \A o \in E!Ends : o # e => cs[o] = calls[o]
         /\ \A i \in DOMAIN cs[e] : cs[e][i].state # "pending"
  <1> DEFINE a(i) == IF i \in end[e].inflight THEN [calls[e][i] EXCEPT !.state = "failed"]
                     ELSE calls[e][i]
             q == [i \in DOMAIN calls[e] |-> a(i)]
  <1>1. /\ calls \in [E!Ends -> Seq(Asks)] /\ calls[e] \in Seq(Asks)
        /\ Len(calls[e]) \in Nat /\ DOMAIN calls[e] = 1 .. Len(calls[e])
        /\ \A i \in DOMAIN calls[e] : calls[e][i] \in Asks
    BY PortFields, LenProperties, ElementOfSeq
  <1>2. \A i \in DOMAIN calls[e] :
          /\ a(i) \in Asks /\ a(i).own = calls[e][i].own /\ a(i).got = calls[e][i].got
          /\ a(i).state # "pending" /\ (a(i).state = "answered" => calls[e][i].state = "answered")
    <2> SUFFICES ASSUME NEW i \in DOMAIN calls[e]
                 PROVE  /\ a(i) \in Asks /\ a(i).own = calls[e][i].own /\ a(i).got = calls[e][i].got
                        /\ a(i).state # "pending"
                        /\ (a(i).state = "answered" => calls[e][i].state = "answered")
      OBVIOUS
    <2>1. calls[e][i] \in Asks /\ (i \in end[e].inflight <=> calls[e][i].state = "pending")
      BY <1>1 DEF PortInv, Waiting
    <2>2. \A x \in Asks : LET y == [x EXCEPT !.state = "failed"]
                          IN y \in Asks /\ y.own = x.own /\ y.got = x.got /\ y.state = "failed"
      BY DEF Asks
    <2>3. CASE i \in end[e].inflight
      BY <2>1, <2>2, <2>3
    <2>4. CASE i \notin end[e].inflight
      BY <2>1, <2>4
    <2> QED BY <2>3, <2>4
  <1>3. cs = [calls EXCEPT ![e] = q]
    BY DEF E!Failed
  <1> HIDE DEF a
  <1>4. q \in Seq(Asks) /\ Len(q) = Len(calls[e]) /\ DOMAIN q = DOMAIN calls[e]
        /\ \A i \in DOMAIN calls[e] : q[i] = a(i)
    <2>1. q = [i \in 1 .. Len(calls[e]) |-> a(i)]
      BY <1>1
    <2> QED BY <1>1, <1>2, <2>1
  <1> HIDE DEF q
  <1>5. /\ cs \in [E!Ends -> Seq(Asks)] /\ cs[e] = q /\ \A o \in E!Ends : o # e => cs[o] = calls[o]
    BY <1>1, <1>3, <1>4
  <1>6. Grown(calls, cs)
    BY <1>2, <1>4, <1>5 DEF Grown
  <1>7. Answering(cs)
    <2> SUFFICES ASSUME NEW o \in E!Ends, NEW i \in DOMAIN cs[o], cs[o][i].state = "answered"
                 PROVE  cs[o][i].got = [of |-> <<o, i>>, parts |-> cs[o][i].own]
      BY DEF Answering
    <2>1. /\ i \in DOMAIN calls[o] /\ calls[o][i].state = "answered"
          /\ calls[o][i].got = cs[o][i].got /\ calls[o][i].own = cs[o][i].own
      BY <1>2, <1>4, <1>5
    <2> QED BY <2>1 DEF PortInv, Answering
  <1>8. \A o \in E!Ends : DOMAIN cs[o] = DOMAIN calls[o] /\ Len(cs[o]) = Len(calls[o])
    BY <1>4, <1>5
  <1>9. \A i \in DOMAIN cs[e] : cs[e][i].state # "pending"
    BY <1>2, <1>4, <1>5
  <1> QED BY <1>5, <1>6, <1>7, <1>8, <1>9

LEMMA CloseKeeps ==
  ASSUME PortInv, NEW e \in E!Ends, E!Close(e), UNCHANGED <<raw, handling, out>>,
         e = "worker" => end[e].port = "open"
  PROVE  PortInv'
  <1>1. /\ end' = [end EXCEPT ![e] = [end[e] EXCEPT !.port = "closed", !.closed = TRUE, !.inflight = {}]]
        /\ toEnd' = [toEnd EXCEPT ![e] = <<>>] /\ calls' = E!Failed(e)
    BY PortFields DEF E!Close
  <1>2. /\ end \in [E!Ends -> PortEnds] /\ end[e] \in PortEnds /\ toEnd \in [E!Ends -> Seq(Messages)]
        /\ <<>> \in Seq(Messages) /\ (\A i \in DOMAIN <<>> : FALSE)
        /\ "page" \in E!Ends /\ "worker" \in E!Ends
    BY PortFields, EmptySeq
  <1>3. /\ end' \in [E!Ends -> PortEnds] /\ end'[e].port = "closed" /\ end'[e].closed
        /\ end'[e].seq = end[e].seq /\ end'[e].inflight = {}
        /\ \A o \in E!Ends : o # e => end'[o] = end[o]
    BY <1>1, <1>2 DEF PortEnds
  <1>4. toEnd' \in [E!Ends -> Seq(Messages)] /\ toEnd'[e] = <<>>
        /\ \A o \in E!Ends : o # e => toEnd'[o] = toEnd[o]
    BY <1>1, <1>2
  <1>5. /\ calls' \in [E!Ends -> Seq(Asks)] /\ Grown(calls, calls') /\ Answering(calls')
        /\ \A o \in E!Ends : DOMAIN calls'[o] = DOMAIN calls[o] /\ Len(calls'[o]) = Len(calls[o])
        /\ \A o \in E!Ends : o # e => calls'[o] = calls[o]
        /\ \A i \in DOMAIN calls'[e] : calls'[e][i].state # "pending"
    BY <1>1, FailedTold
  <1>6. Numbers(end', calls')
    BY <1>3, <1>5 DEF PortInv, Numbers
  <1>7. Waiting(end', calls')
    <2>1. \A o \in E!Ends : o # e =>
            /\ \A i \in DOMAIN calls'[o] : i \in end'[o].inflight <=> calls'[o][i].state = "pending"
            /\ end'[o].inflight \subseteq DOMAIN calls'[o]
            /\ end'[o].closed => end'[o].inflight = {}
      <3>1. SUFFICES ASSUME NEW o \in E!Ends, o # e
                     PROVE  /\ \A i \in DOMAIN calls'[o] : i \in end'[o].inflight <=> calls'[o][i].state = "pending"
                            /\ end'[o].inflight \subseteq DOMAIN calls'[o]
                            /\ end'[o].closed => end'[o].inflight = {}
        OBVIOUS
      <3>2. end'[o] = end[o]
        BY <1>3, <3>1
      <3>3. calls'[o] = calls[o]
        BY <1>5, <3>1
      <3>4. /\ \A i \in DOMAIN calls[o] : i \in end[o].inflight <=> calls[o][i].state = "pending"
            /\ end[o].inflight \subseteq DOMAIN calls[o]
            /\ end[o].closed => end[o].inflight = {}
        BY DEF PortInv, Waiting
      <3> QED BY <3>2, <3>3, <3>4
    <2>2. /\ \A i \in DOMAIN calls'[e] : i \in end'[e].inflight <=> calls'[e][i].state = "pending"
          /\ end'[e].inflight \subseteq DOMAIN calls'[e]
          /\ end'[e].closed => end'[e].inflight = {}
      BY <1>3, <1>5
    <2> QED BY <2>1, <2>2 DEF Waiting
  <1>8. TrueMessages(calls', toEnd', handling', raw')
    <2>1. TrueMessages(calls', toEnd, handling, raw)
      BY <1>5, GrownMessages DEF PortInv
    <2> QED BY <1>2, <1>4, <2>1 DEF TrueMessages
  <1>9. PortsAgree(end', raw')
    <2>1. e = "page" \/ e = "worker"
      BY DEF E!Ends
    <2>2. CASE e = "page"
      BY <1>2, <1>3, <2>2 DEF PortInv, PortsAgree, E!Ends
    <2>3. CASE e = "worker"
      BY <1>2, <1>3, <2>3 DEF PortInv, PortsAgree, E!Ends
    <2> QED BY <2>1, <2>2, <2>3
  <1>10. PortTypes'
    BY <1>3, <1>4, <1>5 DEF PortInv, PortTypes
  <1> QED BY <1>5, <1>6, <1>7, <1>8, <1>9, <1>10 DEF PortInv

\* A message is a call, which is handled, an answer, which settles its call, or garbage.
LEMMA PortReceives ==
  ASSUME PortInv, NEW e \in E!Ends, E!Receive(e) PROVE PortInv'
  <1> DEFINE m == Head(toEnd[e])
             rest == [toEnd EXCEPT ![e] = Tail(toEnd[e])]
  <1>1. end[e].port = "open" /\ toEnd[e] # <<>> /\ UNCHANGED <<raw, out>>
    BY DEF E!Receive, E!Open
  <1>2. /\ toEnd \in [E!Ends -> Seq(Messages)] /\ toEnd[e] \in Seq(Messages)
        /\ end \in [E!Ends -> PortEnds] /\ end[e] \in PortEnds
        /\ end[e].inflight \subseteq Nat /\ calls \in [E!Ends -> Seq(Asks)] /\ calls[e] \in Seq(Asks)
    BY PortFields
  <1>3. /\ Tail(toEnd[e]) \in Seq(Messages) /\ m \in Messages /\ m = toEnd[e][1]
        /\ 1 \in DOMAIN toEnd[e]
        /\ \A i \in DOMAIN Tail(toEnd[e]) :
             Tail(toEnd[e])[i] = toEnd[e][i + 1] /\ i + 1 \in DOMAIN toEnd[e]
    BY <1>1, <1>2, TailAt
  <1>4. TrueMessage(calls, e, m)
    BY <1>3 DEF PortInv, TrueMessages
  <1>5. /\ rest \in [E!Ends -> Seq(Messages)] /\ rest[e] = Tail(toEnd[e])
        /\ \A o \in E!Ends : o # e => rest[o] = toEnd[o]
    BY <1>2, <1>3
  <1>6. \A o \in E!Ends : \A i \in DOMAIN rest[o] : TrueMessage(calls, o, rest[o][i])
    <2> SUFFICES ASSUME NEW o \in E!Ends, NEW i \in DOMAIN rest[o]
                 PROVE  TrueMessage(calls, o, rest[o][i])
      OBVIOUS
    <2> HIDE DEF rest
    <2>1. \A j \in DOMAIN toEnd[o] : TrueMessage(calls, o, toEnd[o][j])
      BY DEF PortInv, TrueMessages
    <2>2. CASE o = e
      BY <1>3, <1>5, <2>1, <2>2
    <2>3. CASE o # e
      BY <1>5, <2>1, <2>3
    <2> QED BY <2>2, <2>3
  <1>7. CASE E!Close(e) /\ UNCHANGED <<handling, heard>>
    BY <1>1, <1>7, CloseKeeps
  <1>8. CASE m.is = "call" /\ E!Handle(e, m, end, rest) /\ UNCHANGED <<end, calls>>
    <2> HIDE DEF m
    <2> HIDE DEF rest
    <2>1. /\ toEnd' \in [E!Ends -> Seq(Messages)] /\ handling' \in [E!Ends -> SUBSET Handlings]
          /\ \A o \in E!Ends :
               /\ \A i \in DOMAIN toEnd'[o] : TrueMessage(calls, o, toEnd'[o][i])
               /\ \A h \in handling'[o] : TrueCall(calls, E!Other(o), h.of, h.seq, h.parts)
      BY <1>3, <1>4, <1>5, <1>6, <1>8, HandleTrue
    <2>2. TrueMessages(calls', toEnd', handling', raw')
      BY <1>1, <1>8, <2>1 DEF PortInv, TrueMessages
    <2>3. PortTypes'
      BY <1>1, <1>8, <2>1 DEF PortInv, PortTypes
    <2> QED BY <1>1, <1>8, <2>2, <2>3 DEF PortInv
  <1>9. CASE /\ m.is = "result" /\ toEnd' = rest /\ UNCHANGED <<handling, heard>>
             /\ m.seq \notin end[e].inflight /\ UNCHANGED <<end, calls>>
    <2> HIDE DEF m
    <2> HIDE DEF rest
    <2>1. TrueMessages(calls', toEnd', handling', raw')
      BY <1>1, <1>6, <1>9 DEF PortInv, TrueMessages
    <2>2. PortTypes'
      BY <1>1, <1>5, <1>9 DEF PortInv, PortTypes
    <2> QED BY <1>1, <1>9, <2>1, <2>2 DEF PortInv
  <1>10. CASE /\ m.is = "result" /\ toEnd' = rest /\ UNCHANGED <<handling, heard>>
              /\ m.seq \in end[e].inflight
              /\ end' = [end EXCEPT ![e].inflight = end[e].inflight \ {m.seq}]
              /\ calls' = [calls EXCEPT ![e][m.seq].state = "answered",
                                        ![e][m.seq].got = [of |-> m.of, parts |-> m.parts]]
    <2> DEFINE k == m.seq
               g == [of |-> m.of, parts |-> m.parts]
               a == [calls[e][k] EXCEPT !.state = "answered", !.got = g]
               q == [calls[e] EXCEPT ![k] = a]
    <2> HIDE DEF rest
    <2> HIDE DEF m
    <2>1. TrueCall(calls, e, m.of, k, m.parts)
      BY <1>4, <1>10 DEF TrueMessage
    <2>2. /\ k \in Nat /\ m.parts \in Parts /\ m.of = <<e, k>> /\ k \in DOMAIN calls[e]
          /\ m.of \in E!Ends \X Nat /\ m.parts = calls[e][k].own
      BY <2>1, CallFields DEF TrueCall
    <2>3. g \in [of : E!Ends \X Nat, parts : Parts] /\ g = [of |-> <<e, k>>, parts |-> calls[e][k].own]
      BY <2>2
    <2> HIDE DEF g
    <2>4. /\ DOMAIN calls[e] = 1 .. Len(calls[e]) /\ calls[e][k] \in Asks
      BY <1>2, <2>2, LenProperties, ElementOfSeq
    <2>5. a \in Asks /\ a.state = "answered" /\ a.got = g /\ a.own = calls[e][k].own
      BY <2>3, <2>4 DEF Asks
    <2>6. calls' = [calls EXCEPT ![e] = q]
      BY <1>2, <1>10, <2>2, <2>4 DEF g, Asks
    <2> HIDE DEF a
    <2>7. /\ q \in Seq(Asks) /\ Len(q) = Len(calls[e]) /\ DOMAIN q = DOMAIN calls[e] /\ q[k] = a
          /\ \A i \in DOMAIN calls[e] : i # k => q[i] = calls[e][i]
      BY <1>2, <2>2, <2>4, <2>5, ExceptSeq
    <2> HIDE DEF q
    <2>8. /\ calls' \in [E!Ends -> Seq(Asks)] /\ calls'[e] = q
          /\ \A o \in E!Ends : o # e => calls'[o] = calls[o]
      BY <1>2, <2>6, <2>7
    <2>9. /\ end' \in [E!Ends -> PortEnds] /\ end'[e].inflight = end[e].inflight \ {k}
          /\ end'[e].port = end[e].port /\ end'[e].closed = end[e].closed /\ end'[e].seq = end[e].seq
          /\ \A o \in E!Ends : o # e => end'[o] = end[o]
      <3>1. end[e].inflight \ {k} \subseteq Nat
        BY <1>2
      <3> QED BY <1>2, <1>10, <3>1 DEF PortEnds
    <2>10. Grown(calls, calls')
      <3>1. ASSUME NEW o \in E!Ends, NEW i \in DOMAIN calls[o]
            PROVE  i \in DOMAIN calls'[o] /\ calls'[o][i].own = calls[o][i].own
        <4>1. CASE o = e /\ i = k
          BY <2>5, <2>7, <2>8, <4>1
        <4>2. CASE o = e /\ i # k
          BY <2>7, <2>8, <4>2
        <4>3. CASE o # e
          BY <2>8, <4>3
        <4> QED BY <4>1, <4>2, <4>3
      <3> QED BY <3>1 DEF Grown
    <2>11. Numbers(end', calls')
      BY <2>7, <2>8, <2>9 DEF PortInv, Numbers
    <2>12. Waiting(end', calls')
      <3>1. /\ \A i \in DOMAIN calls[e] : i \in end[e].inflight <=> calls[e][i].state = "pending"
            /\ end[e].inflight \subseteq DOMAIN calls[e]
            /\ end[e].closed => end[e].inflight = {}
        BY DEF PortInv, Waiting
      <3>2. /\ \A i \in DOMAIN calls'[e] : i \in end'[e].inflight <=> calls'[e][i].state = "pending"
            /\ end'[e].inflight \subseteq DOMAIN calls'[e]
            /\ end'[e].closed => end'[e].inflight = {}
        BY <2>5, <2>7, <2>8, <2>9, <3>1
      <3>3. \A o \in E!Ends : o # e =>
            /\ \A i \in DOMAIN calls'[o] : i \in end'[o].inflight <=> calls'[o][i].state = "pending"
            /\ end'[o].inflight \subseteq DOMAIN calls'[o]
            /\ end'[o].closed => end'[o].inflight = {}
        BY <2>8, <2>9 DEF PortInv, Waiting
      <3> QED BY <3>2, <3>3 DEF Waiting
    <2>13. Answering(calls')
      <3> SUFFICES ASSUME NEW o \in E!Ends, NEW i \in DOMAIN calls'[o], calls'[o][i].state = "answered"
                   PROVE  calls'[o][i].got = [of |-> <<o, i>>, parts |-> calls'[o][i].own]
        BY DEF Answering
      <3>1. CASE o = e /\ i = k
        BY <2>3, <2>5, <2>7, <2>8, <3>1
      <3>2. CASE ~ (o = e /\ i = k)
        <4>1. i \in DOMAIN calls[o] /\ calls'[o][i] = calls[o][i]
          BY <2>7, <2>8, <3>2
        <4> QED BY <4>1 DEF PortInv, Answering
      <3> QED BY <3>1, <3>2
    <2>14. TrueMessages(calls', toEnd', handling', raw')
      <3>1. TrueMessages(calls', toEnd, handling, raw)
        BY <2>10, GrownMessages DEF PortInv
      <3>2. \A o \in E!Ends : \A i \in DOMAIN rest[o] : TrueMessage(calls', o, rest[o][i])
        BY <1>6, <2>10, GrownTrue
      <3> QED BY <1>1, <1>10, <3>1, <3>2 DEF TrueMessages
    <2>15. PortsAgree(end', raw')
      BY <1>1, <2>9, PortsStay
    <2>16. PortTypes'
      BY <1>1, <1>5, <1>10, <2>8, <2>9 DEF PortInv, PortTypes
    <2> QED BY <2>11, <2>12, <2>13, <2>14, <2>15, <2>16 DEF PortInv
  <1>11. m.is = "result" \/ m.is = "call" \/ m = E!Garbage
    BY <1>3 DEF Messages, E!Garbage
  <1>12. \/ E!Close(e) /\ UNCHANGED <<handling, heard>>
         \/ m.is = "call" /\ E!Handle(e, m, end, rest) /\ UNCHANGED <<end, calls>>
         \/ /\ m # E!Garbage /\ m.is # "call" /\ toEnd' = rest /\ UNCHANGED <<handling, heard>>
            /\ \/ m.seq \notin end[e].inflight /\ UNCHANGED <<end, calls>>
               \/ /\ m.seq \in end[e].inflight
                  /\ end' = [end EXCEPT ![e].inflight = end[e].inflight \ {m.seq}]
                  /\ calls' = [calls EXCEPT ![e][m.seq].state = "answered",
                                            ![e][m.seq].got = [of |-> m.of, parts |-> m.parts]]
    BY PortFields DEF E!Receive, E!IsRequest
  <1> QED BY <1>7, <1>8, <1>9, <1>10, <1>11, <1>12

LEMMA PortTerminates ==
  ASSUME PortInv, E!Terminate PROVE PortInv'
  <1>1. UNCHANGED <<raw, handling, out>> /\ "page" \in E!Ends
    BY PortFields DEF E!Terminate
  <1>2. CASE E!Close("page")
    BY <1>1, <1>2, CloseKeeps
  <1>3. CASE UNCHANGED <<end, toEnd, calls>>
    <2>1. PortTypes'
      BY <1>1, <1>3 DEF PortInv, PortTypes
    <2> QED BY <1>1, <1>3, <2>1 DEF PortInv
  <1> QED BY <1>2, <1>3 DEF E!Terminate

LEMMA GarbageKeeps ==
  ASSUME PortInv, E!SendGarbage PROVE PortInv'
  <1>1. /\ end' = [end EXCEPT !["worker"].seq = MaxSeq["worker"] + 1]
        /\ toEnd' = E!Posted("worker", E!Garbage) /\ UNCHANGED <<raw, handling, calls, out>>
    BY DEF E!SendGarbage
  <1>2. /\ "worker" \in E!Ends /\ end \in [E!Ends -> PortEnds] /\ MaxSeq["worker"] \in Nat
    BY PortFields
  <1>3. MaxSeq["worker"] + 1 \in Nat /\ MaxSeq["worker"] + 1 > MaxSeq["worker"]
    BY <1>2
  <1>4. /\ end' \in [E!Ends -> PortEnds] /\ end'["worker"].seq = MaxSeq["worker"] + 1
        /\ end'["worker"].inflight = end["worker"].inflight
        /\ end'["worker"].closed = end["worker"].closed /\ end'["worker"].port = end["worker"].port
        /\ \A o \in E!Ends : o # "worker" => end'[o] = end[o]
    BY <1>1, <1>2, <1>3 DEF PortEnds
  <1>5. Numbers(end', calls')
    BY <1>1, <1>3, <1>4 DEF PortInv, Numbers
  <1>6. Waiting(end', calls')
    <2>1. \A o \in E!Ends : end'[o].inflight = end[o].inflight /\ end'[o].closed = end[o].closed
      BY <1>4
    <2> QED BY <1>1, <2>1 DEF PortInv, Waiting
  <1>7. PortsAgree(end', raw')
    BY <1>1, <1>2, <1>4, PortsStay
  <1>8. Grown(calls, calls')
    BY <1>1 DEF Grown
  <1>9. E!Garbage \in Messages /\ TrueMessage(calls', E!Other("worker"), E!Garbage)
    BY DEF E!Garbage, Messages, TrueMessage
  <1>10. toEnd' \in [E!Ends -> Seq(Messages)] /\ TrueMessages(calls', toEnd', handling, raw)
    BY <1>1, <1>2, <1>8, <1>9, PostKeepsTrue
  <1>11. PortTypes'
    BY <1>1, <1>4, <1>10 DEF PortInv, PortTypes
  <1> QED BY <1>1, <1>5, <1>6, <1>7, <1>10, <1>11 DEF PortInv

LEMMA PortStarts ==
  ASSUME E!Init PROVE PortInv
  <1>0. /\ <<>> \in Seq(Asks) /\ <<>> \in Seq(Messages) /\ <<>> \in Seq({1, 2}) /\ <<>> \in Seq(Pieces)
        /\ Len(<<>>) = 0 /\ (\A i \in DOMAIN <<>> : FALSE) /\ 1 \in Nat
    BY EmptySeq
  <1>1. /\ end = [e \in E!Ends |-> [port |-> "none", closed |-> FALSE, seq |-> 1, inflight |-> {}]]
        /\ raw = None /\ toEnd = [e \in E!Ends |-> <<>>] /\ handling = [e \in E!Ends |-> {}]
        /\ calls = [e \in E!Ends |-> <<>>]
        /\ out = [printed |-> <<>>, runs |-> <<>>, scheduled |-> FALSE, lost |-> {}]
    BY DEF E!Init
  <1>2. [port |-> "none", closed |-> FALSE, seq |-> 1, inflight |-> {}] \in PortEnds
    BY <1>0 DEF PortEnds
  <1>3. end \in [E!Ends -> PortEnds]
    BY <1>1, <1>2
  <1>4. \A e \in E!Ends : /\ end[e].port = "none" /\ end[e].closed = FALSE /\ end[e].seq = 1
                          /\ end[e].inflight = {} /\ toEnd[e] = <<>> /\ handling[e] = {}
                          /\ calls[e] = <<>>
    BY <1>1
  <1>5. PortTypes
    BY <1>0, <1>1, <1>3 DEF PortTypes
  <1>6. Numbers(end, calls) /\ Waiting(end, calls) /\ Answering(calls)
    BY <1>0, <1>4 DEF Numbers, Waiting, Answering
  <1>7. "page" \in E!Ends /\ "worker" \in E!Ends
    BY DEF E!Ends
  <1>8. PortsAgree(end, raw) /\ TrueMessages(calls, toEnd, handling, raw)
    BY <1>0, <1>1, <1>4, <1>7 DEF PortsAgree, TrueMessages
  <1> QED BY <1>5, <1>6, <1>8 DEF PortInv

LEMMA PortSteps ==
  ASSUME PortInv, E!Next PROVE PortInv'
  <1>1. "page" \in E!Ends /\ "worker" \in E!Ends
    BY DEF E!Ends
  <1> QED BY <1>1, CallKeeps, PrintKeeps, BootstrapKeeps, OnBootstrapKeeps, PortFinishes, PortReceives,
             PortTerminates, GarbageKeeps
             DEF E!Next, E!PortStep, E!Settles

\* A call is answered with its own, and nobody waits whom no answer finds.
LEMMA PortShows ==
  ASSUME PortInv PROVE E!OwnAnswers /\ E!NoneForgotten
  <1>1. E!OwnAnswers
    BY DEF PortInv, Answering, E!OwnAnswers
  <1>2. E!NoneForgotten
    BY DEF PortInv, Waiting, E!NoneForgotten
  <1> QED BY <1>1, <1>2

-----------------------------------------------------------------------------
(* What holds of all of them *)

\* The parts that are not taken rest.
ChildrenInv == ProcessInv /\ ThreadInv /\ AttachInv /\ HoldInv /\ PortInv

LEMMA ProcessUnchanged ==
  ASSUME ProcessInv, UNCHANGED process PROVE ProcessInv'
  <1>1. UNCHANGED <<kind, caller, child, live, stdin, toHost, toCaller>>
    BY DEF process
  <1>2. ProcessTypes'
    BY <1>1 DEF ProcessInv, ProcessTypes, Callerlike, Childlike, Livelike
  <1> QED BY <1>1, <1>2, ProcessRests

LEMMA ThreadUnchanged ==
  ASSUME ThreadInv, UNCHANGED sibling PROVE ThreadInv'
  BY DEF ThreadInv, ThreadTypes, sibling

LEMMA AttachUnchanged ==
  ASSUME AttachInv, UNCHANGED session PROVE AttachInv'
  BY DEF AttachInv, SessionTypes, Waits, A!NoFailureKept, A!OwnsItsScope, session

LEMMA HoldUnchanged ==
  ASSUME HoldInv, UNCHANGED terminal PROVE HoldInv'
  BY DEF HoldInv, Inputlike, S!StdinHolds, S!Kept, terminal

LEMMA PortUnchanged ==
  ASSUME PortInv, UNCHANGED port PROVE PortInv'
  <1>1. UNCHANGED <<end, raw, toEnd, handling, calls, out>>
    BY DEF port
  <1>2. PortTypes'
    BY <1>1 DEF PortInv, PortTypes
  <1> QED BY <1>1, <1>2 DEF PortInv

LEMMA ChildrenSteps ==
  ASSUME ChildrenInv, [Next]_vars PROVE ChildrenInv'
  <1> USE DEF ChildrenInv
  <1>1. CASE Process(P!Next)
    <2>1. P!Next /\ UNCHANGED <<which, sibling, session, port, terminal>>
      BY <1>1 DEF Process
    <2> QED BY <2>1, ProcessSteps, ThreadUnchanged, AttachUnchanged, PortUnchanged, HoldUnchanged
  <1>2. CASE Thread(T!Next)
    <2>1. T!Next /\ UNCHANGED <<which, process, session, port, terminal>>
      BY <1>2 DEF Thread
    <2> QED BY <2>1, ThreadSteps, ProcessUnchanged, AttachUnchanged, PortUnchanged, HoldUnchanged
  <1>3. CASE Session(A!Next)
    <2>1. A!Next /\ UNCHANGED <<which, process, sibling, port, terminal>>
      BY <1>3 DEF Session
    <2> QED BY <2>1, AttachSteps, ProcessUnchanged, ThreadUnchanged, PortUnchanged, HoldUnchanged
  <1>4. CASE Port(E!Next)
    <2>1. E!Next /\ UNCHANGED <<which, process, sibling, session, terminal>>
      BY <1>4 DEF Port
    <2> QED BY <2>1, PortSteps, ProcessUnchanged, ThreadUnchanged, AttachUnchanged, HoldUnchanged
  <1>5. CASE Terminal(S!Next)
    <2>1. S!Next /\ UNCHANGED <<which, process, sibling, session, port>>
      BY <1>5 DEF Terminal
    <2> QED BY <2>1, HoldSteps, ProcessUnchanged, ThreadUnchanged, AttachUnchanged, PortUnchanged
  <1>6. CASE UNCHANGED vars
    <2>1. UNCHANGED <<which, process, sibling, session, port, terminal>>
      BY <1>6 DEF vars
    <2> QED BY <2>1, ProcessUnchanged, ThreadUnchanged, AttachUnchanged, PortUnchanged, HoldUnchanged
  <1> QED BY <1>1, <1>2, <1>3, <1>4, <1>5, <1>6 DEF Next

LEMMA ChildrenStarts ==
  ASSUME Init PROVE ChildrenInv
  BY ProcessStarts, ThreadStarts, AttachStarts, PortStarts, HoldStarts DEF Init, ChildrenInv

\* Each part is in its own invariant, whichever is taken.
THEOREM ChildrenAreSound == FairSpec => []ChildrenInv
  <1>1. Init => ChildrenInv
    BY ChildrenStarts
  <1>2. ChildrenInv /\ [Next]_vars => ChildrenInv'
    BY ChildrenSteps
  <1> QED BY <1>1, <1>2, PTL DEF FairSpec

\* The end a program is told of a process is the one it had, and who polls has a child or its
\* exit on the way; standard input holds a run open exactly while somebody waits for it; and a
\* session goes on with a registration that owns its scope, no failure kept for the next
\* (child_process.ts #poll, stdio.ts syncKeepalive, sw.ts registerOnce).
THEOREM EndsAreTrue == FairSpec => []ExitTrue
  <1>1. ChildrenInv => ExitTrue
    BY ChildrenAssumption, ProcessShows DEF ChildrenInv, ExitTrue, HoldInv, AttachInv
  <1> QED BY <1>1, ChildrenAreSound, PTL

\* What is posted to a thread is heard in order and from the first, and no thread runs on when
\* its parent's page has ended it; a call over the port is settled by its own answer, with the
\* bytes that are its own, and no caller is forgotten (worker_threads.ts, wire/endpoint.ts).
THEOREM ThreadsFollow == FairSpec => []ThreadFollows
  <1>1. ChildrenInv => ThreadFollows
    BY ThreadShows, PortShows DEF ChildrenInv, ThreadFollows
  <1> QED BY <1>1, ChildrenAreSound, PTL
================================================================================
