------------------------ MODULE SyncTransport_proofs ------------------------
(***************************************************************************)
(* What the blocking transport keeps for any number of sessions, kinds,    *)
(* attempts, ports and service worker incarnations: its types, the routing *)
(* of requests and answers, and what a retry may repeat.                   *)
(*                                                                         *)
(* A sideband rides on one message and is delivered at most once, however  *)
(* often the message that carries it is retried (Sidebands).               *)
(*                                                                         *)
(* A recorded call that completed is run again only once ReplayWindow      *)
(* others of its session have completed.  A number stands for one kind of  *)
(* call wherever it still is (OneKind), so a repeat of a recorded call is  *)
(* recorded too; and the place of an answer in the record tells how many   *)
(* have completed since (Window).                                          *)
(*                                                                         *)
(* And a session is not left with a port that was given up (PortsInOrder). *)
(***************************************************************************)
EXTENDS SyncTransport, TLAPS, FiniteSetTheorems, SequenceTheorems

-----------------------------------------------------------------------------
(* Type correctness *)

\* The part of TypeOK that the two ends of an XHR share.
CallTypes ==
  /\ worker \in [Sids -> WorkerRec]
  /\ \A s \in Sids : Parked(s) => worker[s].seq \in Seqs
  /\ outbox \in [Sids -> SUBSET Pushes]
  /\ fetches \subseteq Fetch /\ IsFiniteSet(fetches)

LEMMA RequestType ==
  ASSUME TypeOK, NEW s \in Sids, NEW q \in Seqs, NEW k \in Kinds, NEW a \in 0..SyncRetries
  PROVE  Request(s, q, k, a) \in Fetch
BY DEF TypeOK, Request, Fetch

LEMMA FewerFetches ==
  ASSUME TypeOK, NEW rest \in SUBSET fetches
  PROVE  /\ rest \subseteq Fetch /\ IsFiniteSet(rest)
         /\ \A f \in Fetch : IsFiniteSet(rest \cup {f})
BY FS_Subset, FS_AddElement DEF TypeOK

LEMMA FailAttemptTypes ==
  ASSUME TypeOK, NEW s \in Sids, Parked(s), NEW rest \in SUBSET fetches, FailAttempt(s, rest)
  PROVE  CallTypes'
  <1>1. worker \in [Sids -> WorkerRec] /\ worker[s] \in WorkerRec /\ worker[s].seq \in Seqs
    BY DEF TypeOK
  <1>2. /\ worker[s].att \in 0..SyncRetries /\ worker[s].kind \in Kinds
        /\ worker[s].st = "parked"
    BY <1>1 DEF WorkerRec, Parked
  <1>3. CASE /\ worker[s].att < SyncRetries
             /\ worker' = [worker EXCEPT ![s].att = @ + 1]
             /\ fetches' = rest \cup {Request(s, worker[s].seq, worker[s].kind, worker[s].att + 1)}
             /\ outbox' = [outbox EXCEPT ![s] = {}]
    <2>1. worker[s].att + 1 \in 0..SyncRetries
      BY <1>2, <1>3, TransportAssumption
    <2>2. Request(s, worker[s].seq, worker[s].kind, worker[s].att + 1) \in Fetch
      BY <2>1, <1>1, <1>2, RequestType
    <2>3. worker' \in [Sids -> WorkerRec]
      BY <2>1, <1>1, <1>3 DEF WorkerRec
    <2>4. \A x \in Sids : Parked(x)' => worker'[x].seq \in Seqs
      BY <1>1, <1>3 DEF TypeOK, Parked, WorkerRec
    <2>5. outbox' \in [Sids -> SUBSET Pushes]
      BY <1>3 DEF TypeOK
    <2> QED BY <1>3, <2>2, <2>3, <2>4, <2>5, FewerFetches DEF CallTypes
  <1>4. CASE /\ worker' = [worker EXCEPT ![s].st = "run"]
             /\ fetches' = rest
             /\ UNCHANGED outbox
    <2>1. worker' \in [Sids -> WorkerRec]
      BY <1>1, <1>4 DEF WorkerRec
    <2>2. \A x \in Sids : Parked(x)' => worker'[x].seq \in Seqs
      BY <1>1, <1>4 DEF TypeOK, Parked, WorkerRec
    <2> QED BY <1>4, <2>1, <2>2, FewerFetches DEF CallTypes, TypeOK
  <1> QED BY <1>3, <1>4 DEF FailAttempt

LEMMA RefuseTypes ==
  ASSUME TypeOK, NEW f \in fetches, Refuse(f)
  PROVE  CallTypes'
  <1>1. f.sid \in Sids
    BY DEF TypeOK, Fetch
  <1>2. CASE Current(f)
    BY <1>1, <1>2, FailAttemptTypes DEF Refuse, Current
  <1>3. CASE ~ Current(f)
    BY <1>3, FewerFetches DEF Refuse, CallTypes, TypeOK, Parked
  <1> QED BY <1>2, <1>3

LEMMA SettleTypes ==
  ASSUME TypeOK, NEW p, NEW r, NEW q, NEW by \in Calls, Settle(p, r, q, by)
  PROVE  CallTypes'
  <1>1. CASE Reaches(p) /\ Waiting(p, r) # {}
    <2>1. PICK f \in Waiting(p, r) :
            IF Current(f) /\ q = f.seq
            THEN /\ worker' = [worker EXCEPT ![f.sid] = [@ EXCEPT !.st = "run", !.got = by]]
                 /\ fetches' = fetches \ {f}
                 /\ UNCHANGED outbox
            ELSE Refuse(f)
      BY <1>1 DEF Settle
    <2>2. f \in fetches /\ f.sid \in Sids
      BY DEF Waiting, TypeOK, Fetch
    <2>3. CASE Current(f) /\ q = f.seq
      <3> DEFINE w == [worker[f.sid] EXCEPT !.st = "run", !.got = by]
      <3>1. w \in WorkerRec /\ w.st = "run"
        <4>1. worker[f.sid] \in WorkerRec
          BY <2>2 DEF TypeOK
        <4> QED BY <4>1 DEF WorkerRec
      <3>2. worker' = [worker EXCEPT ![f.sid] = w]
        BY <2>1, <2>3
      <3> HIDE DEF w
      <3>3. worker' \in [Sids -> WorkerRec]
        BY <2>2, <3>1, <3>2 DEF TypeOK
      <3>4. \A x \in Sids : Parked(x)' => worker'[x].seq \in Seqs
        BY <2>2, <3>1, <3>2 DEF TypeOK, Parked
      <3> QED BY <2>1, <2>3, <3>3, <3>4, FewerFetches DEF CallTypes, TypeOK
    <2> QED BY <2>1, <2>2, <2>3, RefuseTypes
  <1>2. CASE ~ (Reaches(p) /\ Waiting(p, r) # {})
    BY <1>2 DEF Settle, CallTypes, TypeOK, Parked
  <1> QED BY <1>1, <1>2

LEMMA HandshakeTypes ==
  ASSUME TypeOK, NEW s \in Sids, NEW a \in 1..AttachAttempts, Handshake(s, a)
  PROVE  /\ ports' \in Seq(PortRec) /\ Len(ports') <= MaxPorts
         /\ swq' \in Seq(Notice)
BY TransportAssumption DEF TypeOK, Handshake, PortRec, Notice, Ports

\* The worker's own steps.
LEMMA WorkerTypes ==
  ASSUME TypeOK, NEW s \in Sids, WorkerStep(s)
  PROVE  TypeOK'
  <1> USE DEF workerVars, swVars, linkVars, hostVars, history
  <1>1. worker[s] \in WorkerRec /\ outbox[s] \in SUBSET Pushes /\ printed[s] \in 0..MaxPush
    BY DEF TypeOK
  <1>2. CASE Enqueue(s)
    <2>1. printed' \in [Sids -> 0..MaxPush]
      BY <1>1, <1>2, TransportAssumption DEF TypeOK, Enqueue
    <2>2. outbox' \in [Sids -> SUBSET Pushes]
      BY <1>1, <1>2, TransportAssumption DEF TypeOK, Enqueue, Pushes
    <2> QED BY <1>2, <2>1, <2>2 DEF Enqueue, TypeOK, Parked
  <1>3. ASSUME NEW k \in Kinds, SendSync(s, k)
        PROVE  TypeOK'
    <2> DEFINE w == [st |-> "parked", seq |-> worker[s].seq + 1, att |-> 0, got |-> NoCall,
                     kind |-> k]
    <2>1. worker[s].seq + 1 \in Seqs
      BY <1>1, <1>3, TransportAssumption DEF SendSync, WorkerRec, Seqs
    <2>2. w \in WorkerRec /\ w.seq \in Seqs /\ 0 \in 0..SyncRetries
      BY <2>1, TransportAssumption DEF WorkerRec, Seqs
    <2>3. Request(s, worker[s].seq + 1, k, 0) \in Fetch
      BY <2>1, <2>2, RequestType
    <2>4. /\ worker' = [worker EXCEPT ![s] = w]
          /\ fetches' = fetches \cup {Request(s, worker[s].seq + 1, k, 0)}
      BY <1>3 DEF SendSync
    <2> HIDE DEF w
    <2>5. worker' \in [Sids -> WorkerRec] /\ \A x \in Sids : Parked(x)' => worker'[x].seq \in Seqs
      BY <2>2, <2>4 DEF TypeOK, Parked
    <2>6. fetches' \subseteq Fetch /\ IsFiniteSet(fetches')
      BY <2>3, <2>4, FewerFetches
    <2>7. outbox' \in [Sids -> SUBSET Pushes]
      BY <1>3 DEF SendSync, TypeOK
    <2> QED BY <1>3, <2>5, <2>6, <2>7 DEF SendSync, TypeOK
  <1>4. ASSUME NEW k \in Kinds, SendAsync(s, k)
        PROVE  TypeOK'
    <2> DEFINE w == [worker[s] EXCEPT !.seq = worker[s].seq + 1, !.got = NoCall]
    <2>1. worker[s].seq + 1 \in Seqs /\ worker[s].seq + 1 \in 0..MaxSeq
      BY <1>1, <1>4, TransportAssumption DEF SendAsync, WorkerRec, Seqs
    <2>2. w \in WorkerRec /\ w.st = worker[s].st
      BY <2>1, <1>1 DEF WorkerRec
    <2>3. worker' = [worker EXCEPT ![s] = w]
      BY <1>4, <1>1 DEF SendAsync
    <2> HIDE DEF w
    <2>4. worker' \in [Sids -> WorkerRec] /\ \A x \in Sids : Parked(x)' => worker'[x].seq \in Seqs
      BY <1>4, <2>2, <2>3 DEF TypeOK, Parked, SendAsync
    <2>5. ops' \subseteq Op
      BY <1>1, <1>4, <2>1, TransportAssumption DEF SendAsync, TypeOK, Op
    <2>6. outbox' \in [Sids -> SUBSET Pushes]
      BY <1>4 DEF SendAsync, TypeOK
    <2> QED BY <1>4, <2>4, <2>5, <2>6 DEF SendAsync, TypeOK
  <1>5. CASE XhrTimeout(s)
    <2>1. CallTypes'
      BY <1>5, FailAttemptTypes DEF XhrTimeout
    <2> QED BY <1>5, <2>1 DEF XhrTimeout, TypeOK, CallTypes
  <1>6. CASE NetworkError(s)
    <2>1. CallTypes'
      BY <1>6, FailAttemptTypes DEF NetworkError
    <2> QED BY <1>6, <2>1 DEF NetworkError, TypeOK, CallTypes
  <1> QED BY <1>2, <1>3, <1>4, <1>5, <1>6 DEF WorkerStep

LEMMA PortChange ==
  ASSUME TypeOK, NEW p, NEW r, p \in DOMAIN ports => r \in PortRec
  PROVE  /\ [ports EXCEPT ![p] = r] \in Seq(PortRec)
         /\ Len([ports EXCEPT ![p] = r]) = Len(ports)
  <1> DEFINE q == [ports EXCEPT ![p] = r]
  <1>1. Len(ports) \in Nat /\ ports \in [1..Len(ports) -> PortRec]
    BY LenProperties DEF TypeOK
  <1>2. q \in [1..Len(ports) -> PortRec]
    BY <1>1
  <1>3. q \in Seq(PortRec)
    BY <1>1, <1>2, SeqDef
  <1>4. DOMAIN q = 1..Len(q) /\ Len(q) \in Nat
    BY <1>3, LenProperties
  <1> HIDE DEF q
  <1>5. 1..Len(q) = 1..Len(ports)
    BY <1>2, <1>4
  <1>6. Len(q) = Len(ports)
    <2>1. CASE Len(q) < Len(ports)
      <3>1. Len(ports) \in 1..Len(ports) /\ Len(ports) \notin 1..Len(q)
        BY <1>1, <1>4, <2>1
      <3> QED BY <3>1, <1>5
    <2>2. CASE Len(ports) < Len(q)
      <3>1. Len(q) \in 1..Len(q) /\ Len(q) \notin 1..Len(ports)
        BY <1>1, <1>4, <2>2
      <3> QED BY <3>1, <1>5
    <2>3. Len(q) \in Nat /\ Len(ports) \in Nat
      BY <1>1, <1>4
    <2> QED BY <2>1, <2>2, <2>3
  <1> QED BY <1>3, <1>6 DEF q

\* The service worker's steps.
LEMMA AdoptTypes ==
  ASSUME TypeOK, Adopt
  PROVE  TypeOK'
  <1> USE DEF workerVars, swVars, linkVars, hostVars, history
  <1> DEFINE m    == Head(swq)
             wait == Rescuing(m.sid)
             rank(f) == nextSeq + Cardinality({g \in wait : Before(g, f)})
             go   == {Relayed(f, m.port, rank(f)) : f \in wait}
  <1>1. m \in Notice /\ Tail(swq) \in Seq(Notice)
    BY DEF TypeOK, Adopt
  <1>2. wait \subseteq fetches /\ wait \subseteq Fetch /\ IsFiniteSet(wait)
    BY FewerFetches DEF Rescuing
  <1>3. \A f \in wait : rank(f) \in Nat
    <2> SUFFICES ASSUME NEW f \in wait PROVE rank(f) \in Nat
      OBVIOUS
    <2>1. IsFiniteSet({g \in wait : Before(g, f)})
      BY <1>2, FS_Subset
    <2> QED BY <2>1, FS_CardinalityType DEF TypeOK
  <1>4. go \subseteq Fetch /\ {OpOf(f) : f \in go} \subseteq Op
    <2> HIDE DEF rank
    <2>1. \A f \in wait : Relayed(f, m.port, rank(f)) \in Fetch
      BY <1>1, <1>2, <1>3 DEF Relayed, Fetch, Notice
    <2>2. \A f \in Fetch : OpOf(f) \in Op
      BY DEF OpOf, Fetch, Op
    <2> QED BY <2>1, <2>2
  <1>5. IsFiniteSet(go) /\ IsFiniteSet({f \in go : Current(f)})
    <2> HIDE DEF rank
    <2> DEFINE h == [f \in wait |-> Relayed(f, m.port, rank(f))]
    <2>1. h \in Surjection(wait, go)
      BY DEF Surjection
    <2>2. IsFiniteSet(go)
      BY <1>2, <2>1, FS_Surjection
    <2> QED BY <2>2, FS_Subset
  <1>6. /\ sessions' = [sessions EXCEPT ![m.sid] = m.port]
        /\ ports' = [ports EXCEPT ![m.port].inc = inc]
        /\ fetches' = (fetches \ wait) \cup {f \in go : Current(f)}
        /\ ops' = ops \cup {OpOf(f) : f \in go}
        /\ nextSeq' = nextSeq + Cardinality(wait)
    BY DEF Adopt
  <1> HIDE DEF wait, go
  <1>7. fetches' \subseteq Fetch /\ IsFiniteSet(fetches')
    <2>1. IsFiniteSet(fetches \ wait) /\ fetches \ wait \subseteq Fetch
      BY FewerFetches
    <2> QED BY <2>1, <1>4, <1>5, <1>6, FS_Union
  <1>8. ops' \subseteq Op
    BY <1>4, <1>6 DEF TypeOK
  <1>9. nextSeq' \in Nat \ {0}
    BY <1>2, <1>6, FS_CardinalityType DEF TypeOK
  <1>10. sessions' \in [Sids -> Ports \cup {NoPort}]
    BY <1>1, <1>6 DEF TypeOK, Notice
  <1>11. ports' \in Seq(PortRec) /\ Len(ports') <= MaxPorts
    <2> DEFINE r == [ports[m.port] EXCEPT !.inc = inc]
    <2>1. inc \in 0..MaxInc
      BY TransportAssumption DEF TypeOK
    <2>2. m.port \in DOMAIN ports => ports[m.port] \in PortRec
      BY LenProperties DEF TypeOK
    <2>3. m.port \in DOMAIN ports => r \in PortRec
      BY <2>1, <2>2 DEF PortRec
    <2>4. ports' = [ports EXCEPT ![m.port] = r]
      BY <1>6
    <2> HIDE DEF r
    <2> QED BY <2>3, <2>4, PortChange DEF TypeOK
  <1> QED BY <1>1, <1>7, <1>8, <1>9, <1>10, <1>11 DEF Adopt, TypeOK, Parked

LEMMA ServiceWorkerTypes ==
  ASSUME TypeOK, ServiceWorkerStep
  PROVE  TypeOK'
  <1> USE DEF workerVars, swVars, linkVars, hostVars, history
  <1>1. ASSUME NEW f \in fetches, Relay(f)
        PROVE  TypeOK'
    <2> DEFINE g == Relayed(f, sessions[f.sid], nextSeq)
    <2>1. f \in Fetch /\ f.sid \in Sids
      BY DEF TypeOK, Fetch
    <2>2. sessions[f.sid] \in Ports \cup {NoPort} /\ nextSeq \in Nat
      BY <2>1 DEF TypeOK
    <2>3. g \in Fetch
      BY <2>1, <2>2 DEF Relayed, Fetch
    <2>4. OpOf(g) \in Op
      BY <2>3 DEF OpOf, Op, Fetch
    <2>5. /\ fetches' = (fetches \ {f}) \cup {x \in {g} : Current(x)}
          /\ ops' = ops \cup {OpOf(g)}
      BY <1>1 DEF Relay
    <2> HIDE DEF g
    <2>6. fetches' \subseteq Fetch /\ IsFiniteSet(fetches')
      <3>1. IsFiniteSet(fetches \ {f}) /\ fetches \ {f} \subseteq Fetch
        BY FewerFetches
      <3>2. fetches' = fetches \ {f} \/ fetches' = (fetches \ {f}) \cup {g}
        BY <2>5
      <3> QED BY <3>1, <3>2, <2>3, FS_AddElement, ZenonT(60)
    <2>7. ops' \subseteq Op /\ nextSeq' \in Nat \ {0}
      BY <1>1, <2>2, <2>4, <2>5 DEF Relay, TypeOK
    <2> QED BY <1>1, <2>6, <2>7 DEF Relay, TypeOK, Parked
  <1>2. ASSUME NEW f \in fetches, NEW st \in {"asking", "rescue"},
               fetches' = (fetches \ {f}) \cup {[f EXCEPT !.st = st]}
        PROVE  fetches' \subseteq Fetch /\ IsFiniteSet(fetches') /\ f.sid \in Sids
    <2> DEFINE g == [f EXCEPT !.st = st]
    <2>1. f \in Fetch /\ f.sid \in Sids
      BY DEF TypeOK, Fetch
    <2>2. g \in Fetch
      BY <2>1 DEF Fetch
    <2> QED BY <1>2, <2>1, <2>2, FewerFetches
  <1>3. ASSUME NEW f \in fetches, LookupMiss(f)
        PROVE  TypeOK'
    <2>1. fetches' \subseteq Fetch /\ IsFiniteSet(fetches')
      BY <1>2, <1>3 DEF LookupMiss
    <2> QED BY <1>3, <2>1 DEF LookupMiss, TypeOK, Parked
  <1>7. ASSUME NEW f \in fetches, Ask(f)
        PROVE  TypeOK'
    <2>1. CASE /\ fetches' = (fetches \ {f}) \cup {[f EXCEPT !.st = "rescue"]}
               /\ rescues' = rescues \cup {f.sid}
               /\ UNCHANGED <<worker, outbox>>
      <3>1. fetches' \subseteq Fetch /\ IsFiniteSet(fetches') /\ f.sid \in Sids
        BY <1>2, <2>1
      <3> QED BY <1>7, <2>1, <3>1 DEF Ask, TypeOK, Parked
    <2>2. CASE Refuse(f) /\ UNCHANGED rescues
      <3>1. CallTypes'
        BY <2>2, RefuseTypes
      <3> QED BY <1>7, <2>2, <3>1 DEF Ask, CallTypes, TypeOK
    <2> QED BY <1>7, <2>1, <2>2 DEF Ask
  <1>8. ASSUME NEW f \in fetches, RescueTimeout(f) \/ Expire(f)
        PROVE  TypeOK'
    <2>1. CASE Relay(f)
      BY <1>1, <2>1
    <2>2. CASE Refuse(f) /\ UNCHANGED <<printed, inc, sessions, nextSeq, linkVars, hostVars, history>>
      <3>1. CallTypes'
        BY <2>2, RefuseTypes
      <3> QED BY <2>2, <3>1 DEF CallTypes, TypeOK
    <2> QED BY <1>8, <2>1, <2>2 DEF RescueTimeout, Expire
  <1>4. CASE Adopt
    BY <1>4, AdoptTypes
  <1>5. CASE Detach
    <2>1. Head(swq) \in Notice /\ Tail(swq) \in Seq(Notice)
      BY <1>5 DEF Detach, TypeOK
    <2>2. sessions' \in [Sids -> Ports \cup {NoPort}]
      BY <1>5, <2>1 DEF Detach, TypeOK, Notice
    <2> QED BY <1>5, <2>1, <2>2 DEF Detach, TypeOK, Parked
  <1>6. CASE Evict
    <2>1. inc' \in 1..MaxInc /\ nextSeq' \in Nat \ {0}
      BY <1>6, TransportAssumption DEF Evict, TypeOK
    <2>2. fetches' \subseteq Fetch /\ IsFiniteSet(fetches')
      BY <1>6, FS_EmptySet DEF Evict
    <2>3. sessions' \in [Sids -> Ports \cup {NoPort}]
      BY <1>6 DEF Evict
    <2> QED BY <1>6, <2>1, <2>2, <2>3 DEF Evict, TypeOK, Parked
  <1> QED BY <1>1, <1>3, <1>4, <1>5, <1>6, <1>7, <1>8 DEF ServiceWorkerStep, LookupHit

\* The page's steps.
LEMMA FinishTypes ==
  ASSUME TypeOK, NEW e \in execs, Finish(e)
  PROVE  TypeOK'
  <1> USE DEF workerVars, swVars, linkVars, hostVars, history
  <1>1. e \in Op /\ e.sid \in Sids /\ e.seq \in Seqs /\ e.kind \in Kinds
    BY DEF TypeOK, Op
  <1>2. <<e.sid, e.seq>> \in Calls
    BY <1>1 DEF Calls
  <1>3. CallTypes'
    BY <1>2, SettleTypes DEF Finish
  <1>4. ran' \in [Sids -> Seq(Completed)]
    <2>1. [seq |-> e.seq, kind |-> e.kind] \in Completed
      BY <1>1 DEF Completed
    <2>2. Append(ran[e.sid], [seq |-> e.seq, kind |-> e.kind]) \in Seq(Completed)
      BY <1>1, <2>1, AppendProperties DEF TypeOK
    <2> QED BY <1>1, <2>2 DEF Finish, TypeOK
  <1>5. record' \in [Sids -> Seq(Remembered)]
    <2> DEFINE w == Append(record[e.sid], [seq |-> e.seq, by |-> <<e.sid, e.seq>>])
    <2>1. [seq |-> e.seq, by |-> <<e.sid, e.seq>>] \in Remembered
      BY <1>1, <1>2 DEF Remembered
    <2>0. record[e.sid] \in Seq(Remembered)
      BY <1>1 DEF TypeOK
    <2>2. w \in Seq(Remembered) /\ w # <<>>
      BY <2>0, <2>1, AppendProperties
    <2>3. Tail(w) \in Seq(Remembered)
      BY <2>2, HeadTailProperties
    <2>4. \/ Remember(e.sid, e.seq, <<e.sid, e.seq>>) = record[e.sid]
          \/ Remember(e.sid, e.seq, <<e.sid, e.seq>>) = w
          \/ Remember(e.sid, e.seq, <<e.sid, e.seq>>) = Tail(w)
      BY DEF Remember
    <2> HIDE DEF w
    <2>5. Remember(e.sid, e.seq, <<e.sid, e.seq>>) \in Seq(Remembered)
      BY <2>0, <2>2, <2>3, <2>4
    <2> QED BY <1>1, <2>5 DEF Finish, TypeOK
  <1> QED BY <1>3, <1>4, <1>5 DEF Finish, TypeOK, CallTypes

LEMMA AnswerTypes ==
  ASSUME TypeOK, NEW m \in ops, Answer(m)
  PROVE  TypeOK'
  <1> USE DEF workerVars, swVars, linkVars, hostVars, history
  <1>1. m \in Op /\ m.sid \in Sids /\ m.push \in SUBSET Pushes
    BY DEF TypeOK, Op
  <1>2. heard' \in [Sids -> SUBSET Pushes]
    BY <1>1 DEF Answer, TypeOK
  <1> DEFINE hit == IF m.kind \in Recorded THEN Recall(m.sid, m.seq) ELSE {}
  <1>3. CallTypes' /\ execs' \subseteq Op
    <2>1. CASE hit = {}
      BY <1>1, <2>1 DEF Answer, TypeOK, CallTypes, Parked
    <2>2. CASE hit # {}
      <3>1. PICK r \in hit : Settle(m.port, m.rseq, m.seq, r.by)
        BY <2>2 DEF Answer
      <3>2. r \in Range(record[m.sid])
        BY <3>1 DEF Recall
      <3>3. r \in Remembered
        BY <1>1, <3>2, LenProperties DEF TypeOK, Range
      <3>4. r.by \in Calls
        BY <3>3 DEF Remembered
      <3>5. CallTypes'
        BY <3>1, <3>4, SettleTypes
      <3> QED BY <2>2, <3>5 DEF Answer, TypeOK
    <2> QED BY <2>1, <2>2
  <1> QED BY <1>2, <1>3 DEF Answer, TypeOK, CallTypes

LEMMA PageTypes ==
  ASSUME TypeOK, PageStep
  PROVE  TypeOK'
  <1> USE DEF workerVars, swVars, linkVars, hostVars, history
  <1>1. 1 \in 1..AttachAttempts
    BY TransportAssumption
  <1>2. ASSUME NEW s \in Sids, AttachSession(s)
        PROVE  TypeOK'
    <2>1. worker' \in [Sids -> WorkerRec] /\ \A x \in Sids : Parked(x)' => worker'[x].seq \in Seqs
      BY <1>2 DEF AttachSession, TypeOK, WorkerRec, Parked
    <2> QED BY <1>1, <1>2, <2>1, HandshakeTypes DEF AttachSession, TypeOK
  <1>3. ASSUME NEW s \in Sids, Rescued(s)
        PROVE  TypeOK'
    <2>1. /\ ports' \in Seq(PortRec) /\ Len(ports') <= MaxPorts
          /\ swq' \in Seq(Notice)
      BY <1>1, <1>3, HandshakeTypes DEF Rescued, TypeOK
    <2> QED BY <1>3, <2>1 DEF Rescued, TypeOK, Parked
  <1>4. ASSUME NEW s \in Sids, ControllerChange(s)
        PROVE  TypeOK'
    BY <1>1, <1>4, HandshakeTypes DEF ControllerChange, TypeOK, Parked
  <1>5. ASSUME NEW s \in Sids, Terminate(s)
        PROVE  TypeOK'
    <2>1. worker' \in [Sids -> WorkerRec] /\ \A x \in Sids : Parked(x)' => worker'[x].seq \in Seqs
      BY <1>5, ZenonT(60) DEF Terminate, TypeOK, WorkerRec, Parked
    <2>2. fetches' \subseteq Fetch /\ IsFiniteSet(fetches')
      BY <1>5, FewerFetches DEF Terminate
    <2>3. closed' \in [Sids -> BOOLEAN] /\ swq' \in Seq(Notice)
      <3>1. [t |-> "detach", sid |-> s, port |-> NoPort] \in Notice
        BY DEF Notice
      <3>2. Append(swq, [t |-> "detach", sid |-> s, port |-> NoPort]) \in Seq(Notice)
        BY <3>1, AppendProperties DEF TypeOK
      <3> QED BY <1>5, <3>2 DEF Terminate, TypeOK
    <2> QED BY <1>5, <2>1, <2>2, <2>3 DEF Terminate, TypeOK
  <1>6. ASSUME NEW p \in DOMAIN ports, Attached(p)
        PROVE  TypeOK'
    <2> DEFINE r == [ports[p] EXCEPT !.st = "open"]
    <2>1. ports[p] \in PortRec
      BY LenProperties DEF TypeOK
    <2>2. r \in PortRec
      BY <2>1 DEF PortRec
    <2>3. ports' = [ports EXCEPT ![p] = r]
      BY <1>6 DEF Attached
    <2> HIDE DEF r
    <2>4. ports' \in Seq(PortRec) /\ Len(ports') <= MaxPorts
      BY <2>2, <2>3, PortChange DEF TypeOK
    <2>5. worker' \in [Sids -> WorkerRec] /\ \A x \in Sids : Parked(x)' => worker'[x].seq \in Seqs
      <3>1. ports[p].sid \in Sids
        BY <2>1 DEF PortRec
      <3>2. CASE worker' = worker
        BY <3>2 DEF TypeOK, Parked
      <3>3. CASE worker' = [worker EXCEPT ![ports[p].sid].st = "run"]
        BY <3>1, <3>3, ZenonT(60) DEF TypeOK, WorkerRec, Parked
      <3> QED BY <1>6, <3>2, <3>3 DEF Attached
    <2> QED BY <1>6, <2>4, <2>5 DEF Attached, TypeOK
  <1>m. ASSUME NEW p \in DOMAIN ports, Mismatched(p)
        PROVE  TypeOK'
    <2> DEFINE r == [ports[p] EXCEPT !.st = "refused"]
    <2>4. ports[p] \in PortRec
      BY LenProperties DEF TypeOK
    <2>1. r \in PortRec
      BY <2>4 DEF PortRec
    <2>2. ports' = [ports EXCEPT ![p] = r]
      BY <1>m DEF Mismatched
    <2> HIDE DEF r
    <2>3. ports' \in Seq(PortRec) /\ Len(ports') <= MaxPorts
      BY <2>1, <2>2, PortChange DEF TypeOK
    <2> QED BY <1>m, <2>3 DEF Mismatched, TypeOK, Parked
  <1>7. ASSUME NEW p \in DOMAIN ports, AttachTimeout(p)
        PROVE  TypeOK'
    <2> DEFINE r == [ports[p] EXCEPT !.st = "closed"]
               q == [ports EXCEPT ![p] = r]
               n == [sid |-> ports[p].sid, att |-> ports[p].att + 1, inc |-> 0,
                     st |-> "handshake"]
               a == [t |-> "attach", sid |-> ports[p].sid, port |-> Len(ports) + 1]
    <2>1. ports[p] \in PortRec
      BY LenProperties DEF TypeOK
    <2>2. r \in PortRec
      BY <2>1 DEF PortRec
    <2>3. q \in Seq(PortRec) /\ Len(q) = Len(ports)
      BY <2>2, PortChange
    <2>4. CASE /\ ports[p].att < AttachAttempts
               /\ Len(ports) + 1 \in Ports
               /\ ports' = Append(q, n)
               /\ swq' = Append(swq, a)
      <3>1. n \in PortRec
        BY <2>1, <2>4, TransportAssumption DEF PortRec
      <3>2. a \in Notice
        BY <2>1, <2>4 DEF PortRec, Notice
      <3>3. ports' \in Seq(PortRec) /\ Len(ports') = Len(ports) + 1
        BY <2>3, <2>4, <3>1, AppendProperties
      <3>4. swq' \in Seq(Notice)
        BY <2>4, <3>2, AppendProperties DEF TypeOK
      <3> QED BY <1>7, <2>4, <3>3, <3>4, TransportAssumption
              DEF AttachTimeout, TypeOK, Parked, Ports
    <2>5. CASE ports' = q /\ UNCHANGED swq
      <3> HIDE DEF q
      <3> QED BY <1>7, <2>3, <2>5 DEF AttachTimeout, TypeOK, Parked
    <2> QED BY <1>7, <2>4, <2>5, <2>3 DEF AttachTimeout
  <1>8. ASSUME NEW m \in ops, LoseOp(m)
        PROVE  TypeOK'
    BY <1>8 DEF LoseOp, TypeOK, Parked
  <1> QED BY <1>2, <1>3, <1>4, <1>5, <1>6, <1>7, <1>8, <1>m, AnswerTypes, FinishTypes DEF PageStep

LEMMA InitTypes == Init => TypeOK
BY TransportAssumption, FS_EmptySet, EmptySeq
   DEF Init, TypeOK, WorkerRec, Parked

\* Every state of the transport is well typed.
THEOREM TypeCorrect == Spec => []TypeOK
  <1>1. TypeOK /\ [Next]_vars => TypeOK'
    <2> SUFFICES ASSUME TypeOK, [Next]_vars PROVE TypeOK'
      OBVIOUS
    <2>1. CASE Next
      BY <2>1, WorkerTypes, ServiceWorkerTypes, PageTypes DEF Next
    <2>2. CASE UNCHANGED vars
      BY <2>2 DEF vars, workerVars, swVars, linkVars, hostVars, history, TypeOK, Parked
    <2> QED BY <2>1, <2>2
  <1> QED BY <1>1, InitTypes, PTL DEF Spec

-----------------------------------------------------------------------------
(* Whose reply it is *)

\* A step that relays nothing.
NoNewRelay == \A f \in fetches' : f.st = "relayed" => f \in fetches

\* What a thread was told, and for which call.
SameAnswer(x) == worker'[x].got = worker[x].got /\ worker'[x].seq = worker[x].seq

LEMMA FailAttemptAnswers ==
  ASSUME TypeOK, NEW s \in Sids, NEW rest \in SUBSET fetches, FailAttempt(s, rest)
  PROVE  NoNewRelay /\ \A x \in Sids : SameAnswer(x)
  <1>1. worker \in [Sids -> WorkerRec] /\ worker[s] \in WorkerRec
    BY DEF TypeOK
  <1>2. CASE /\ worker' = [worker EXCEPT ![s].att = @ + 1]
             /\ fetches' = rest \cup {Request(s, worker[s].seq, worker[s].kind, worker[s].att + 1)}
    BY <1>1, <1>2 DEF NoNewRelay, SameAnswer, Request, WorkerRec
  <1>3. CASE worker' = [worker EXCEPT ![s].st = "run"] /\ fetches' = rest
    BY <1>1, <1>3 DEF NoNewRelay, SameAnswer, WorkerRec
  <1> QED BY <1>2, <1>3 DEF FailAttempt

LEMMA RefuseAnswers ==
  ASSUME TypeOK, NEW f \in fetches, Refuse(f)
  PROVE  NoNewRelay /\ \A x \in Sids : SameAnswer(x)
  <1>1. f.sid \in Sids
    BY DEF TypeOK, Fetch
  <1>2. CASE Current(f)
    BY <1>1, <1>2, FailAttemptAnswers DEF Refuse
  <1>3. CASE ~ Current(f)
    BY <1>3 DEF Refuse, NoNewRelay, SameAnswer
  <1> QED BY <1>2, <1>3

\* A reply that is computed for the call it names wakes only a thread parked in
\* that call.
LEMMA SettleAnswers ==
  ASSUME TypeOK, NEW p, NEW r, NEW q, NEW by, Settle(p, r, q, by),
         Reaches(p) => by = <<ports[p].sid, q>>
  PROVE  /\ NoNewRelay
         /\ \A x \in Sids :
              \/ SameAnswer(x)
              \/ /\ worker'[x].got = by /\ by = <<x, q>>
                 /\ worker'[x].seq = q
  <1>1. CASE Reaches(p) /\ Waiting(p, r) # {}
    <2>1. PICK f \in Waiting(p, r) :
            IF Current(f) /\ q = f.seq
            THEN /\ worker' = [worker EXCEPT ![f.sid] = [@ EXCEPT !.st = "run", !.got = by]]
                 /\ fetches' = fetches \ {f}
                 /\ UNCHANGED outbox
            ELSE Refuse(f)
      BY <1>1 DEF Settle
    <2>2. f \in fetches /\ f.sid \in Sids /\ f.sid = ports[p].sid
      BY DEF Waiting, TypeOK, Fetch
    <2>3. CASE Current(f) /\ q = f.seq
      <3>1. worker[f.sid].seq = q /\ by = <<f.sid, q>>
        BY <1>1, <2>2, <2>3 DEF Current
      <3>2. worker[f.sid] \in WorkerRec /\ worker \in [Sids -> WorkerRec]
        BY <2>2 DEF TypeOK
      <3>3. worker' = [worker EXCEPT ![f.sid] = [worker[f.sid] EXCEPT !.st = "run", !.got = by]]
        BY <2>1, <2>3
      <3>4. worker'[f.sid].got = by /\ worker'[f.sid].seq = q
        BY <2>2, <3>1, <3>2, <3>3 DEF WorkerRec
      <3>5. \A x \in Sids \ {f.sid} : SameAnswer(x)
        BY <3>2, <3>3 DEF SameAnswer
      <3>6. NoNewRelay
        BY <2>1, <2>3 DEF NoNewRelay
      <3> QED BY <3>1, <3>4, <3>5, <3>6
    <2> QED BY <2>1, <2>2, <2>3, RefuseAnswers
  <1>2. CASE ~ (Reaches(p) /\ Waiting(p, r) # {})
    BY <1>2 DEF Settle, NoNewRelay, SameAnswer
  <1> QED BY <1>1, <1>2

\* The ports, the sessions and the notices stay linked when only messages move.
LinkedMessage(m) ==
  m.port # NoPort => /\ m.port \in DOMAIN ports
                     /\ ports[m.port].sid = m.sid /\ ports[m.port].inc # 0

LEMMA LinksKept ==
  ASSUME PortsLinked, NewestPort, UNCHANGED <<sessions, ports, inc, swq>>,
         \A m \in ops' \cup execs' : m \in ops \cup execs \/ LinkedMessage(m)
  PROVE  PortsLinked' /\ NewestPort'
BY DEF PortsLinked, NoticeLinked, NewestPort, LinkedMessage, Reaches

\* ... when a port changes only its own state ...
SamePorts(q) ==
  /\ q \in Seq(PortRec) /\ Len(q) = Len(ports)
  /\ \A p \in DOMAIN ports : q[p].sid = ports[p].sid /\ q[p].inc = ports[p].inc

LEMMA LinksOfSamePorts ==
  ASSUME TypeOK, PortsLinked, NewestPort, NEW q, SamePorts(q), ports' = q,
         UNCHANGED <<sessions, inc, swq, ops, execs>>
  PROVE  PortsLinked' /\ NewestPort'
  <1>1. DOMAIN ports' = DOMAIN ports
    BY LenProperties DEF SamePorts, TypeOK
  <1> QED BY <1>1, SMTT(30) DEF PortsLinked, NoticeLinked, NewestPort, Reaches, SamePorts

\* ... and when the page mints a port and announces it.
LEMMA LinksMinted ==
  ASSUME TypeOK, PortsLinked, NewestPort, NEW q, SamePorts(q),
         NEW r \in PortRec, r.inc = 0, ports' = Append(q, r),
         swq' = Append(swq, [t |-> "attach", sid |-> r.sid, port |-> Len(ports) + 1]),
         Len(ports) + 1 \in Ports,
         UNCHANGED <<sessions, inc, ops, execs>>
  PROVE  PortsLinked' /\ NewestPort'
  <1> DEFINE n == [t |-> "attach", sid |-> r.sid, port |-> Len(ports) + 1]
             L == Len(ports)
             W == Len(swq)
  <1>1. L \in Nat /\ W \in Nat /\ inc \in Nat \ {0}
    BY LenProperties DEF TypeOK
  <1>2. n \in Notice
    BY DEF Notice, PortRec
  <1>3. /\ DOMAIN swq' = 1..(W + 1) /\ DOMAIN swq = 1..W
        /\ \A i \in 1..W : swq'[i] = swq[i]
        /\ swq'[W + 1] = n
    BY <1>2, AppendProperties, LenProperties DEF TypeOK
  <1>4. /\ DOMAIN ports' = 1..(L + 1) /\ DOMAIN ports = 1..L
        /\ \A p \in 1..L : ports'[p].sid = ports[p].sid /\ ports'[p].inc = ports[p].inc
        /\ ports'[L + 1] = r
    <2>1. Len(q) = L /\ DOMAIN q = 1..L /\ DOMAIN ports = 1..L
      BY LenProperties DEF TypeOK, SamePorts
    <2>2. /\ ports' \in Seq(PortRec) /\ Len(ports') = L + 1 /\ ports'[L + 1] = r
          /\ \A p \in 1..L : ports'[p] = q[p]
      BY <2>1, AppendProperties DEF SamePorts
    <2> QED BY <2>1, <2>2, LenProperties DEF SamePorts
  <1> HIDE DEF L, W, n
  <1>5. NoPort # L + 1
    BY <1>1, TransportAssumption
  <1>6. \A s \in Sids : sessions[s] # NoPort =>
          /\ sessions[s] \in DOMAIN ports'
          /\ ports'[sessions[s]].sid = s /\ ports'[sessions[s]].inc = inc
    BY <1>1, <1>4 DEF PortsLinked
  <1>7. \A m \in ops \cup execs : m.port # NoPort =>
          /\ m.port \in DOMAIN ports'
          /\ ports'[m.port].sid = m.sid /\ ports'[m.port].inc # 0
    BY <1>1, <1>4 DEF PortsLinked
  <1>8. \A p \in DOMAIN ports' : ports'[p].inc <= inc
    BY <1>1, <1>4 DEF PortsLinked
  <1>9. ASSUME NEW i \in DOMAIN swq', swq'[i].t = "attach"
        PROVE  NoticeLinked(i)'
    <2>1. CASE i \in 1..W
      <3>1. swq'[i] = swq[i] /\ NoticeLinked(i)
        BY <1>3, <1>9, <2>1 DEF PortsLinked
      <3>2. \A j \in 1..(i - 1) : j \in 1..W /\ swq'[j] = swq[j]
        BY <1>1, <1>3, <2>1
      <3>3. /\ swq'[i].port \in DOMAIN ports'
            /\ ports'[swq'[i].port].sid = swq'[i].sid
        BY <1>1, <1>4, <3>1 DEF NoticeLinked
      <3>4. \A p \in DOMAIN ports' : ports'[p].inc # 0 => p < swq'[i].port
        BY <1>1, <1>4, <3>1 DEF NoticeLinked
      <3>5. \A j \in 1..(i - 1) : swq'[j].t = "attach" => swq'[j].port < swq'[i].port
        BY <3>1, <3>2 DEF NoticeLinked
      <3> QED BY <3>3, <3>4, <3>5 DEF NoticeLinked
    <2>2. CASE i = W + 1
      <3>1. swq'[i].port = L + 1 /\ swq'[i].sid = r.sid
        BY <1>3, <2>2 DEF n, L
      <3>2. \A p \in DOMAIN ports' : ports'[p].inc # 0 => p < L + 1
        BY <1>1, <1>4
      <3>3. \A j \in 1..(i - 1) : j \in 1..W /\ swq'[j] = swq[j]
        BY <1>1, <1>3, <2>2
      <3>4. \A j \in 1..W : swq[j].t = "attach" => swq[j].port < L + 1
        <4> TAKE j \in 1..W
        <4> HAVE swq[j].t = "attach"
        <4>1. swq[j].port \in DOMAIN ports
          BY <1>3 DEF PortsLinked, NoticeLinked
        <4> QED BY <1>1, <1>4, <4>1
      <3>5. L + 1 \in DOMAIN ports' /\ ports'[L + 1].sid = r.sid
        BY <1>1, <1>4
      <3> QED BY <3>1, <3>2, <3>3, <3>4, <3>5 DEF NoticeLinked
    <2> QED BY <1>1, <1>3, <2>1, <2>2
  <1>10. PortsLinked'
    BY <1>6, <1>7, <1>8, <1>9 DEF PortsLinked
  <1>11. NewestPort'
    <2>1. \A p \in DOMAIN ports' : ports'[p].inc = inc => p \in DOMAIN ports /\ ports[p].inc = inc
      BY <1>1, <1>4
    <2> QED BY <1>1, <1>4, <1>6, <2>1 DEF NewestPort, Reaches
  <1> QED BY <1>10, <1>11

\* The session's end leaves the notices in the queue as they were.
LEMMA LinksDetachSent ==
  ASSUME TypeOK, PortsLinked, NewestPort, NEW n \in Notice, n.t = "detach",
         swq' = swq \/ swq' = Append(swq, n),
         UNCHANGED <<sessions, inc, ports, ops, execs>>
  PROVE  PortsLinked' /\ NewestPort'
  <1>1. CASE swq' = swq
    BY <1>1 DEF PortsLinked, NoticeLinked, NewestPort, Reaches
  <1>2. CASE swq' = Append(swq, n)
    <2> DEFINE W == Len(swq)
    <2>1. /\ W \in Nat /\ DOMAIN swq' = 1..(W + 1) /\ DOMAIN swq = 1..W
          /\ \A i \in 1..W : swq'[i] = swq[i]
          /\ swq'[W + 1].t = "detach"
      BY <1>2, AppendProperties, LenProperties DEF TypeOK
    <2> HIDE DEF W
    <2>2. ASSUME NEW i \in DOMAIN swq', swq'[i].t = "attach"
          PROVE  NoticeLinked(i)'
      <3>1. i \in 1..W
        BY <2>1, <2>2
      <3>2. swq'[i] = swq[i] /\ NoticeLinked(i)
        BY <2>1, <2>2, <3>1 DEF PortsLinked
      <3>3. \A j \in 1..(i - 1) : swq'[j] = swq[j]
        BY <2>1, <3>1
      <3> QED BY <3>2, <3>3 DEF NoticeLinked
    <2> QED BY <2>2 DEF PortsLinked, NewestPort, Reaches
  <1> QED BY <1>1, <1>2

\* The first notice of the queue is taken.
LEMMA NoticesAfterFirst ==
  ASSUME TypeOK, PortsLinked, swq # <<>>, swq' = Tail(swq)
  PROVE  \A i \in DOMAIN swq' :
           /\ i + 1 \in DOMAIN swq /\ swq'[i] = swq[i + 1]
           /\ \A j \in 1..(i - 1) : j + 1 \in 1..((i + 1) - 1) /\ swq'[j] = swq[j + 1]
  <1>1. /\ Len(swq) \in Nat /\ DOMAIN swq = 1..Len(swq)
        /\ Len(swq') = Len(swq) - 1 /\ DOMAIN swq' = 1..Len(swq')
        /\ \A i \in 1..Len(swq') : swq'[i] = swq[i + 1]
    BY HeadTailProperties, LenProperties DEF TypeOK
  <1> QED BY <1>1

LEMMA LinksDetach ==
  ASSUME TypeOK, PortsLinked, NewestPort, Detach
  PROVE  PortsLinked' /\ NewestPort'
  <1>1. swq' = Tail(swq) /\ swq # <<>>
    BY DEF Detach
  <1>2. ASSUME NEW i \in DOMAIN swq', swq'[i].t = "attach"
        PROVE  NoticeLinked(i)'
    <2>1. i + 1 \in DOMAIN swq /\ swq'[i] = swq[i + 1]
      BY <1>1, NoticesAfterFirst
    <2>2. \A j \in 1..(i - 1) : j + 1 \in 1..((i + 1) - 1) /\ swq'[j] = swq[j + 1]
      BY <1>1, NoticesAfterFirst
    <2>3. NoticeLinked(i + 1)
      BY <1>2, <2>1 DEF PortsLinked
    <2>4. ports' = ports
      BY DEF Detach
    <2> QED BY <2>1, <2>2, <2>3, <2>4 DEF NoticeLinked
  <1>3. \A s \in Sids : sessions'[s] # NoPort => sessions'[s] = sessions[s]
    BY DEF Detach, TypeOK
  <1>4. UNCHANGED <<ports, inc, ops, execs>>
    BY DEF Detach, hostVars
  <1> QED BY <1>2, <1>3, <1>4 DEF PortsLinked, NewestPort, Reaches

LEMMA LinksEvict ==
  ASSUME TypeOK, PortsLinked, NewestPort, Evict
  PROVE  PortsLinked' /\ NewestPort'
  <1>1. /\ \A s \in Sids : sessions'[s] = NoPort
        /\ UNCHANGED <<ports, ops, execs, swq>>
        /\ inc' = inc + 1
    BY DEF Evict, linkVars, hostVars
  <1>2. \A p \in DOMAIN ports : ports[p].inc <= inc + 1
    <2>1. \A p \in DOMAIN ports : ports[p].inc <= inc /\ ports[p].inc \in Int
      <3>1. \A p \in DOMAIN ports : ports[p] \in PortRec
        BY LenProperties DEF TypeOK
      <3>2. \A p \in DOMAIN ports : ports[p].inc \in Int
        BY <3>1 DEF PortRec
      <3> QED BY <3>2 DEF PortsLinked
    <2> QED BY <2>1 DEF TypeOK
  <1>3. \A i \in DOMAIN swq : swq[i].t = "attach" => NoticeLinked(i)'
    BY <1>1 DEF PortsLinked, NoticeLinked
  <1> QED BY <1>1, <1>2, <1>3 DEF PortsLinked, NewestPort

\* A request is relayed as it came, on the port and under the number it is given.
LEMMA RelayedFields ==
  ASSUME NEW f \in Fetch, NEW p, NEW r
  PROVE  /\ Relayed(f, p, r).sid = f.sid /\ Relayed(f, p, r).seq = f.seq
         /\ Relayed(f, p, r).push = f.push /\ Relayed(f, p, r).st = "relayed"
         /\ Relayed(f, p, r).rseq = r
         /\ OpOf(Relayed(f, p, r)).sid = f.sid /\ OpOf(Relayed(f, p, r)).seq = f.seq
         /\ OpOf(Relayed(f, p, r)).push = f.push
         /\ OpOf(Relayed(f, p, r)).port = p /\ OpOf(Relayed(f, p, r)).rseq = r
BY DEF Relayed, OpOf, Fetch

\* The newest port becomes the session's.
LEMMA LinksAdopt ==
  ASSUME TypeOK, PortsLinked, NewestPort, Adopt
  PROVE  /\ PortsLinked' /\ NewestPort'
         /\ Head(swq).port \in DOMAIN ports /\ ports[Head(swq).port].inc = 0
         /\ ports[Head(swq).port].sid = Head(swq).sid
  <1> DEFINE m == Head(swq)
             wait == Rescuing(m.sid)
             go   == {Relayed(f, m.port, nextSeq + Cardinality({g \in wait : Before(g, f)})) :
                        f \in wait}
  <1>1. /\ sessions' = [sessions EXCEPT ![m.sid] = m.port]
        /\ ports' = [ports EXCEPT ![m.port].inc = inc]
        /\ ops' = ops \cup {OpOf(f) : f \in go}
        /\ swq' = Tail(swq) /\ swq # <<>>
        /\ m.t = "attach"
        /\ UNCHANGED <<inc, execs>>
    BY DEF Adopt
  <1>2. \A o \in {OpOf(f) : f \in go} : o.port = m.port /\ o.sid = m.sid
    <2>1. \A f \in wait : f \in Fetch /\ f.sid = m.sid
      BY DEF Rescuing, TypeOK
    <2> SUFFICES ASSUME NEW o \in {OpOf(f) : f \in go} PROVE o.port = m.port /\ o.sid = m.sid
      OBVIOUS
    <2>2. PICK f \in wait :
            o = OpOf(Relayed(f, m.port, nextSeq + Cardinality({g \in wait : Before(g, f)})))
      OBVIOUS
    <2> QED BY <2>1, <2>2, RelayedFields
  <1> HIDE DEF go, wait
  <1>3. 1 \in DOMAIN swq /\ m = swq[1] /\ m \in Notice /\ m.sid \in Sids
    <2>1. swq \in Seq(Notice)
      BY DEF TypeOK
    <2>2. 1 \in DOMAIN swq
      BY <1>1, <2>1, LenProperties, EmptySeq
    <2>3. m = swq[1] /\ m \in Notice
      BY <1>1, <2>1, HeadTailProperties
    <2> QED BY <2>2, <2>3 DEF Notice
  <1>4. NoticeLinked(1)
    BY <1>1, <1>3 DEF PortsLinked
  <1>5. /\ m.port \in DOMAIN ports /\ ports[m.port].sid = m.sid
        /\ \A p \in DOMAIN ports : ports[p].inc # 0 => p < m.port
    BY <1>3, <1>4 DEF NoticeLinked
  <1>6. DOMAIN ports \subseteq Nat /\ ports \in [DOMAIN ports -> PortRec] /\ m.port \in Nat
    BY <1>5, LenProperties DEF TypeOK
  <1>7. ports[m.port].inc = 0
    BY <1>5, <1>6
  <1>8. /\ DOMAIN ports' = DOMAIN ports
        /\ \A p \in DOMAIN ports : /\ ports'[p].sid = ports[p].sid
                                   /\ p # m.port => ports'[p].inc = ports[p].inc
        /\ ports'[m.port].inc = inc
    BY <1>1, <1>5, <1>6 DEF PortRec
  <1>9. inc \in Nat \ {0}
    BY DEF TypeOK
  <1>10. m.port # NoPort
    BY <1>6, TransportAssumption
  <1>11. \A s \in Sids : sessions'[s] # NoPort =>
           /\ sessions'[s] \in DOMAIN ports'
           /\ ports'[sessions'[s]].sid = s /\ ports'[sessions'[s]].inc = inc'
    BY <1>1, <1>3, <1>5, <1>7, <1>8, <1>9 DEF PortsLinked, TypeOK
  <1>12. \A o \in ops' \cup execs' : o.port # NoPort =>
           /\ o.port \in DOMAIN ports'
           /\ ports'[o.port].sid = o.sid /\ ports'[o.port].inc # 0
    <2>1. \A o \in ops \cup execs : o.port # NoPort =>
            o.port \in DOMAIN ports' /\ ports'[o.port].sid = o.sid /\ ports'[o.port].inc # 0
      BY <1>5, <1>8, <1>9 DEF PortsLinked
    <2>2. \A o \in {OpOf(f) : f \in go} :
            o.port \in DOMAIN ports' /\ ports'[o.port].sid = o.sid /\ ports'[o.port].inc # 0
      BY <1>2, <1>5, <1>8, <1>9
    <2> QED BY <1>1, <2>1, <2>2
  <1>13. \A p \in DOMAIN ports' : ports'[p].inc <= inc'
    BY <1>1, <1>8, <1>9 DEF PortsLinked
  <1>14. ASSUME NEW i \in DOMAIN swq', swq'[i].t = "attach"
         PROVE  NoticeLinked(i)'
    <2>1. i + 1 \in DOMAIN swq /\ swq'[i] = swq[i + 1]
      BY <1>1, NoticesAfterFirst
    <2>2. \A j \in 1..(i - 1) : j + 1 \in 1..((i + 1) - 1) /\ swq'[j] = swq[j + 1]
      BY <1>1, NoticesAfterFirst
    <2>3. NoticeLinked(i + 1)
      BY <1>14, <2>1 DEF PortsLinked
    <2>4. m.port < swq[i + 1].port
      <3>1. 1 \in 1..((i + 1) - 1)
        <4>1. DOMAIN swq' = 1..Len(swq') /\ Len(swq') \in Nat
          BY <1>1, HeadTailProperties, LenProperties DEF TypeOK
        <4> QED BY <1>14, <4>1
      <3> QED BY <1>1, <1>3, <2>3, <3>1 DEF NoticeLinked
    <2>5. \A p \in DOMAIN ports' : ports'[p].inc # 0 => p < swq'[i].port
      BY <1>8, <2>1, <2>3, <2>4 DEF NoticeLinked
    <2>6. \A j \in 1..(i - 1) : swq'[j].t = "attach" => swq'[j].port < swq'[i].port
      BY <2>1, <2>2, <2>3 DEF NoticeLinked
    <2>7. swq'[i].port \in DOMAIN ports' /\ ports'[swq'[i].port].sid = swq'[i].sid
      BY <1>8, <2>1, <2>3 DEF NoticeLinked
    <2> QED BY <2>5, <2>6, <2>7 DEF NoticeLinked
  <1>15. PortsLinked'
    BY <1>11, <1>12, <1>13, <1>14 DEF PortsLinked
  <1>16. NewestPort'
    <2>1. \A p \in DOMAIN ports : p # m.port /\ ports'[p].inc = inc => ports[p].inc = inc /\ p < m.port
      BY <1>5, <1>8, <1>9
    <2>2. ASSUME NEW s \in Sids, sessions'[s] # NoPort, NEW p \in DOMAIN ports',
                 ports'[p].sid = s, Reaches(p)'
          PROVE  p <= sessions'[s]
      <3>1. p \in DOMAIN ports /\ ports[p].sid = s /\ ports'[p].inc = inc
        BY <1>1, <1>8, <2>2 DEF Reaches
      <3>2. CASE s = m.sid
        BY <1>1, <1>3, <1>6, <2>1, <3>1, <3>2 DEF TypeOK
      <3>3. CASE s # m.sid
        <4>1. sessions'[s] = sessions[s] /\ p # m.port
          BY <1>1, <1>5, <3>1, <3>3 DEF TypeOK
        <4>2. ports[p].inc = inc /\ p # NoPort
          BY <1>6, <2>1, <3>1, <4>1, TransportAssumption
        <4> QED BY <2>2, <3>1, <4>1, <4>2 DEF NewestPort, Reaches
      <3> QED BY <3>2, <3>3
    <2> QED BY <1>1, <1>11, <2>2 DEF NewestPort, Reaches
  <1> QED BY <1>5, <1>7, <1>15, <1>16

\* Numbers and pending entries stay in step when nothing is relayed.
Numbered == NumbersFresh /\ NoCrossedReply

\* The ports the messages name still reach the service worker if they did.
SameReach ==
  /\ UNCHANGED inc
  /\ \A p \in DOMAIN ports : /\ p \in DOMAIN ports'
                             /\ ports'[p].sid = ports[p].sid /\ ports'[p].inc = ports[p].inc

LEMMA NumbersKept ==
  ASSUME PortsLinked, Numbered, SameReach, NoNewRelay, UNCHANGED nextSeq,
         \A m \in ops' \cup execs' : m \in ops \cup execs \/ m.port = NoPort
  PROVE  Numbered'
  <1>1. ASSUME NEW m \in ops' \cup execs', Reaches(m.port)'
        PROVE  m \in ops \cup execs /\ Reaches(m.port) /\ ports'[m.port].sid = ports[m.port].sid
    BY <1>1 DEF PortsLinked, SameReach, Reaches
  <1>2. NumbersFresh'
    BY <1>1 DEF Numbered, NumbersFresh, NoNewRelay
  <1>3. NoCrossedReply'
    BY <1>1 DEF Numbered, NoCrossedReply, NoNewRelay, Waiting
  <1> QED BY <1>2, <1>3 DEF Numbered

LEMMA NumbersEvict ==
  ASSUME TypeOK, PortsLinked, Evict
  PROVE  Numbered'
  <1>1. /\ fetches' = {} /\ inc' = inc + 1
        /\ UNCHANGED <<ports, ops, execs>>
    BY DEF Evict, linkVars, hostVars
  <1>2. \A p \in DOMAIN ports : ports[p].inc # inc + 1
    <2>1. inc \in Int /\ \A p \in DOMAIN ports : ports[p].inc <= inc
      BY DEF TypeOK, PortsLinked
    <2>2. \A p \in DOMAIN ports : ports[p] \in PortRec
      BY LenProperties DEF TypeOK
    <2>3. \A p \in DOMAIN ports : ports[p].inc \in Int
      BY <2>2 DEF PortRec
    <2> QED BY <2>1, <2>3
  <1>3. \A m \in ops' \cup execs' : ~ Reaches(m.port)'
    BY <1>1, <1>2 DEF PortsLinked, Reaches
  <1> QED BY <1>1, <1>3 DEF Numbered, NumbersFresh, NoCrossedReply

\* serve mints a number nobody waits under.
LEMMA NumbersRelay ==
  ASSUME TypeOK, PortsLinked, Numbered, NEW f \in fetches, sessions[f.sid] # NoPort, Relay(f)
  PROVE  Numbered'
  <1> DEFINE r == Relayed(f, sessions[f.sid], nextSeq)
  <1>1. /\ fetches' = (fetches \ {f}) \cup {x \in {r} : Current(x)}
        /\ ops' = ops \cup {OpOf(r)}
        /\ nextSeq' = nextSeq + 1
        /\ UNCHANGED <<execs, ports, inc>>
    BY DEF Relay, linkVars
  <1>2. f \in Fetch /\ f.sid \in Sids
    BY DEF TypeOK, Fetch
  <1>3. /\ r.st = "relayed" /\ r.rseq = nextSeq /\ r.sid = f.sid /\ r.seq = f.seq
        /\ OpOf(r).rseq = nextSeq /\ OpOf(r).sid = f.sid /\ OpOf(r).seq = f.seq
    BY <1>2, RelayedFields
  <1>4. nextSeq \in Nat
    BY DEF TypeOK
  <1>5. \A m \in ops \cup execs : m.rseq \in Nat
    BY DEF TypeOK, Op
  <1>6. \A g \in fetches : g.rseq \in Nat
    BY DEF TypeOK, Fetch
  <1>7. ports[OpOf(r).port].sid = f.sid
    BY <1>2, RelayedFields DEF PortsLinked
  <1> HIDE DEF r
  <1>8. NumbersFresh'
    BY <1>1, <1>3, <1>4, <1>5, <1>6 DEF Numbered, NumbersFresh, Reaches
  <1>9. NoCrossedReply'
    <2> SUFFICES ASSUME NEW m \in ops' \cup execs', Reaches(m.port),
                        NEW g \in fetches', g.st = "relayed", g.sid = ports[m.port].sid,
                        g.rseq = m.rseq
                 PROVE  g.sid = m.sid /\ g.seq = m.seq
      BY <1>1 DEF NoCrossedReply, Waiting, Reaches
    <2>1. CASE m \in ops \cup execs /\ g \in fetches
      BY <2>1 DEF Numbered, NoCrossedReply, Waiting
    <2>2. CASE m = OpOf(r) /\ g = r
      BY <1>3, <2>2
    <2>3. CASE m \in ops \cup execs /\ g = r
      BY <1>3, <1>4, <1>5, <2>3 DEF Numbered, NumbersFresh
    <2>4. CASE m = OpOf(r) /\ g \in fetches
      BY <1>3, <1>4, <1>6, <2>4 DEF Numbered, NumbersFresh
    <2> QED BY <1>1, <2>1, <2>2, <2>3, <2>4
  <1> QED BY <1>8, <1>9 DEF Numbered

\* adopt numbers the waiting requests in order: below the counter it leaves, and
\* never two calls alike.
Rank(wait, f) == Cardinality({g \in wait : Before(g, f)})

LEMMA RankOrder ==
  ASSUME NEW wait \in SUBSET Fetch, IsFiniteSet(wait), NEW f \in wait, NEW g \in wait
  PROVE  /\ Rank(wait, f) \in Nat /\ Rank(wait, f) < Cardinality(wait)
         /\ Rank(wait, f) = Rank(wait, g) => f.seq = g.seq
  <1> DEFINE B(x) == {y \in wait : Before(y, x)}
  <1>1. \A x \in wait : x.seq \in Nat /\ x.att \in Nat
    BY TransportAssumption DEF Fetch, Seqs
  <1>2. ASSUME NEW x \in wait
        PROVE  /\ B(x) \subseteq wait /\ x \notin B(x)
               /\ IsFiniteSet(B(x)) /\ Cardinality(B(x)) \in Nat
               /\ Cardinality(B(x)) < Cardinality(wait)
    <2>1. B(x) \subseteq wait /\ x \notin B(x)
      BY <1>1 DEF Before
    <2> HIDE DEF B
    <2>2. /\ IsFiniteSet(B(x)) /\ Cardinality(B(x)) <= Cardinality(wait)
          /\ Cardinality(wait) # Cardinality(B(x))
      BY <2>1, FS_Subset
    <2>3. Cardinality(B(x)) \in Nat /\ Cardinality(wait) \in Nat
      BY <2>2, FS_CardinalityType
    <2> QED BY <2>1, <2>2, <2>3
  <1>3. ASSUME NEW x \in wait, NEW y \in wait, x.seq < y.seq
        PROVE  Cardinality(B(x)) # Cardinality(B(y))
    <2>1. B(x) \subseteq B(y) /\ x \in B(y)
      BY <1>1, <1>3 DEF Before
    <2> HIDE DEF B
    <2> QED BY <1>2, <2>1, FS_Subset
  <1>4. Cardinality(B(f)) = Cardinality(B(g)) => f.seq = g.seq
    <2> HIDE DEF B
    <2> QED BY <1>1, <1>3
  <1> QED BY <1>2, <1>4 DEF Rank

LEMMA NumbersAdopt ==
  ASSUME TypeOK, PortsLinked, NewestPort, Numbered, Adopt
  PROVE  Numbered'
  <1> DEFINE m    == Head(swq)
             wait == Rescuing(m.sid)
             new(f) == Relayed(f, m.port, nextSeq + Rank(wait, f))
             go   == {new(f) : f \in wait}
  <1>1. /\ fetches' = (fetches \ wait) \cup {f \in go : Current(f)}
        /\ ops' = ops \cup {OpOf(f) : f \in go}
        /\ nextSeq' = nextSeq + Cardinality(wait)
        /\ ports' = [ports EXCEPT ![m.port].inc = inc]
        /\ UNCHANGED <<inc, execs>>
    BY DEF Adopt, Rank
  <1>2. wait \in SUBSET Fetch /\ IsFiniteSet(wait) /\ \A f \in wait : f.sid = m.sid
    BY FewerFetches DEF Rescuing, TypeOK
  <1>3. nextSeq \in Nat /\ Cardinality(wait) \in Nat
    BY <1>2, FS_CardinalityType DEF TypeOK
  <1>4. m.port \in DOMAIN ports /\ ports[m.port].inc = 0 /\ ports[m.port].sid = m.sid
    BY LinksAdopt
  <1>5. \A f \in wait :
          /\ new(f).st = "relayed" /\ new(f).rseq = nextSeq + Rank(wait, f)
          /\ new(f).sid = m.sid /\ new(f).seq = f.seq
          /\ OpOf(new(f)).rseq = nextSeq + Rank(wait, f) /\ OpOf(new(f)).port = m.port
          /\ OpOf(new(f)).sid = m.sid /\ OpOf(new(f)).seq = f.seq
    BY <1>2, RelayedFields
  <1>6. \A p \in DOMAIN ports : /\ ports'[p].sid = ports[p].sid
                                /\ p # m.port => ports'[p].inc = ports[p].inc
    <2>1. \A p \in DOMAIN ports : ports[p] \in PortRec
      BY LenProperties DEF TypeOK
    <2> QED BY <1>1, <2>1 DEF PortRec
  <1>7. \A o \in ops \cup execs : Reaches(o.port)' => Reaches(o.port) /\ o.port \in DOMAIN ports
    <2> SUFFICES ASSUME NEW o \in ops \cup execs, o.port # NoPort, ports'[o.port].inc = inc
                 PROVE  ports[o.port].inc = inc /\ o.port \in DOMAIN ports
      BY <1>1 DEF Reaches
    <2>1. o.port \in DOMAIN ports /\ o.port # m.port
      BY <1>4 DEF PortsLinked
    <2> QED BY <1>6, <2>1
  <1>8. \A o \in ops \cup execs : o.rseq \in Nat
    BY DEF TypeOK, Op
  <1>9. \A g \in fetches : g.rseq \in Nat
    BY DEF TypeOK, Fetch
  <1> HIDE DEF new, m, wait
  <1>10. \A o \in ops' : o \in ops \/ \E f \in wait : o = OpOf(new(f))
    BY <1>1
  <1>11. \A g \in fetches' : g \in fetches \/ \E f \in wait : g = new(f)
    BY <1>1
  <1>12. \A f \in wait : Rank(wait, f) \in Nat /\ Rank(wait, f) < Cardinality(wait)
    BY <1>2, RankOrder
  <1> HIDE DEF go
  <1>13. NumbersFresh'
    <2>1. ASSUME NEW o \in ops' \cup execs', Reaches(o.port)'
          PROVE  o.rseq < nextSeq + Cardinality(wait)
      <3>1. CASE o \in ops \cup execs
        BY <1>3, <1>7, <1>8, <2>1, <3>1 DEF Numbered, NumbersFresh
      <3>2. CASE \E f \in wait : o = OpOf(new(f))
        BY <1>3, <1>5, <1>12, <3>2
      <3> QED BY <1>1, <1>10, <3>1, <3>2
    <2>2. ASSUME NEW g \in fetches', g.st = "relayed"
          PROVE  g.rseq < nextSeq + Cardinality(wait)
      <3>1. CASE g \in fetches
        BY <1>3, <1>9, <2>2, <3>1 DEF Numbered, NumbersFresh
      <3>2. CASE \E f \in wait : g = new(f)
        BY <1>3, <1>5, <1>12, <3>2
      <3> QED BY <1>11, <3>1, <3>2
    <2> QED BY <1>1, <2>1, <2>2 DEF NumbersFresh
  <1>14. NoCrossedReply'
    <2> SUFFICES ASSUME NEW o \in ops' \cup execs', Reaches(o.port)',
                        NEW g \in fetches', g.st = "relayed", g.sid = ports'[o.port].sid,
                        g.rseq = o.rseq
                 PROVE  g.sid = o.sid /\ g.seq = o.seq
      BY DEF NoCrossedReply, Waiting
    <2>1. CASE o \in ops \cup execs /\ g \in fetches
      <3>1. ports'[o.port].sid = ports[o.port].sid /\ Reaches(o.port)
        BY <1>6, <1>7, <2>1
      <3> QED BY <2>1, <3>1 DEF Numbered, NoCrossedReply, Waiting
    <2>2. ASSUME NEW f \in wait, NEW h \in wait, o = OpOf(new(f)), g = new(h)
          PROVE  g.sid = o.sid /\ g.seq = o.seq
      <3>1. Rank(wait, f) = Rank(wait, h)
        BY <1>3, <1>5, <1>12, <2>2
      <3> QED BY <1>2, <1>5, <2>2, <3>1, RankOrder
    <2>3. ASSUME o \in ops \cup execs, NEW h \in wait, g = new(h)
          PROVE  FALSE
      BY <1>3, <1>5, <1>7, <1>8, <1>12, <2>3 DEF Numbered, NumbersFresh
    <2>4. ASSUME NEW f \in wait, o = OpOf(new(f)), g \in fetches
          PROVE  FALSE
      BY <1>3, <1>5, <1>9, <1>12, <2>4 DEF Numbered, NumbersFresh
    <2> QED BY <1>1, <1>10, <1>11, <2>1, <2>2, <2>3, <2>4
  <1> QED BY <1>13, <1>14 DEF Numbered

\* What the record and the threads hold stays true while nothing completes ...
Answered == RecordTrue /\ TrueAnswer

LEMMA AnsweredKept ==
  ASSUME Answered, UNCHANGED <<record, ran>>,
         \A x \in Sids : SameAnswer(x) \/ worker'[x].got = NoCall
  PROVE  Answered'
BY DEF Answered, RecordTrue, TrueAnswer, SameAnswer, HasRun

\* ... when a repeat is answered from the record ...
LEMMA AnsweredAnswer ==
  ASSUME TypeOK, PortsLinked, Answered, NEW m \in ops, Answer(m)
  PROVE  Answered' /\ NoNewRelay
  <1> DEFINE hit == IF m.kind \in Recorded THEN Recall(m.sid, m.seq) ELSE {}
  <1>1. m.sid \in Sids /\ m.seq \in Seqs
    BY DEF TypeOK, Op
  <1>2. UNCHANGED <<record, ran>>
    BY DEF Answer
  <1>3. CASE hit = {}
    <2>1. UNCHANGED <<worker, fetches>>
      BY <1>3 DEF Answer
    <2> QED BY <1>2, <2>1, AnsweredKept DEF SameAnswer, NoNewRelay
  <1>4. CASE hit # {}
    <2>1. PICK r \in hit : Settle(m.port, m.rseq, m.seq, r.by)
      BY <1>4 DEF Answer
    <2>2. r \in Range(record[m.sid]) /\ r.seq = m.seq
      BY <2>1 DEF Recall
    <2>3. PICK i \in DOMAIN record[m.sid] : record[m.sid][i] = r
      BY <2>2 DEF Range
    <2>4. r.by = <<m.sid, m.seq>> /\ HasRun(m.sid, m.seq)
      BY <1>1, <2>2, <2>3 DEF Answered, RecordTrue
    <2>5. Reaches(m.port) => r.by = <<ports[m.port].sid, m.seq>>
      BY <2>4 DEF PortsLinked, Reaches
    <2>6. /\ NoNewRelay
          /\ \A x \in Sids :
               \/ SameAnswer(x)
               \/ /\ worker'[x].got = r.by /\ r.by = <<x, m.seq>>
                  /\ worker'[x].seq = m.seq
      BY <2>1, <2>5, SettleAnswers
    <2>7. TrueAnswer'
      BY <1>2, <2>4, <2>6 DEF Answered, TrueAnswer, SameAnswer, HasRun
    <2> QED BY <1>2, <2>6, <2>7 DEF Answered, RecordTrue, HasRun
  <1> QED BY <1>3, <1>4

\* ... and when a run completes.
LEMMA AnsweredFinish ==
  ASSUME TypeOK, PortsLinked, Answered, NEW e \in execs, Finish(e)
  PROVE  Answered' /\ NoNewRelay
  <1> DEFINE Ran(x, q) == \E i \in DOMAIN ran'[x] : ran'[x][i].seq = q
             by == <<e.sid, e.seq>>
             entry == [seq |-> e.seq, by |-> by]
             c  == [seq |-> e.seq, kind |-> e.kind]
  <1>1. e.sid \in Sids /\ e.seq \in Seqs /\ e.kind \in Kinds
    BY DEF TypeOK, Op
  <1>2. /\ \A s \in Sids, q \in Seqs : HasRun(s, q) => Ran(s, q)
        /\ Ran(e.sid, e.seq)
    <2>1. ran[e.sid] \in Seq(Completed) /\ c \in Completed
      BY <1>1 DEF TypeOK, Completed
    <2>2. ran' = [ran EXCEPT ![e.sid] = Append(ran[e.sid], c)]
      BY DEF Finish
    <2>3. ran'[e.sid] = Append(ran[e.sid], c) /\ \A s \in Sids \ {e.sid} : ran'[s] = ran[s]
      BY <1>1, <2>2 DEF TypeOK
    <2>4. /\ Len(ran[e.sid]) \in Nat /\ DOMAIN ran[e.sid] = 1..Len(ran[e.sid])
          /\ DOMAIN ran'[e.sid] = 1..(Len(ran[e.sid]) + 1)
          /\ \A i \in 1..Len(ran[e.sid]) : ran'[e.sid][i] = ran[e.sid][i]
          /\ ran'[e.sid][Len(ran[e.sid]) + 1] = c
      BY <2>1, <2>3, AppendProperties, LenProperties
    <2>5. Ran(e.sid, e.seq)
      BY <2>4 DEF HasRun
    <2>6. \A q \in Seqs : HasRun(e.sid, q) => Ran(e.sid, q)
      BY <2>4 DEF HasRun
    <2> QED BY <2>3, <2>5, <2>6 DEF HasRun
  <1>3. Settle(e.port, e.rseq, e.seq, by)
    BY DEF Finish
  <1>4. Reaches(e.port) => by = <<ports[e.port].sid, e.seq>>
    BY DEF PortsLinked, Reaches
  <1>5. /\ NoNewRelay
        /\ \A x \in Sids :
             \/ SameAnswer(x)
             \/ worker'[x].got = by /\ by = <<x, e.seq>> /\ worker'[x].seq = e.seq
    BY <1>3, <1>4, SettleAnswers
  <1>6. TrueAnswer'
    <2> SUFFICES ASSUME NEW x \in Sids, worker'[x].got # NoCall
                 PROVE  worker'[x].got = <<x, worker'[x].seq>> /\ Ran(x, worker'[x].seq)
      BY DEF TrueAnswer, HasRun
    <2>1. CASE SameAnswer(x)
      <3>1. worker[x].got = <<x, worker[x].seq>> /\ HasRun(x, worker[x].seq)
        BY <2>1 DEF Answered, TrueAnswer, SameAnswer
      <3>2. worker[x].seq \in Seqs
        <4>1. PICK i \in DOMAIN ran[x] : ran[x][i].seq = worker[x].seq
          BY <3>1 DEF HasRun
        <4>2. ran[x] \in Seq(Completed)
          BY DEF TypeOK
        <4>3. ran[x][i] \in Completed
          BY <4>2, ElementOfSeq, LenProperties
        <4> QED BY <4>1, <4>3 DEF Completed
      <3> QED BY <1>2, <2>1, <3>1, <3>2 DEF SameAnswer
    <2>2. CASE worker'[x].got = by /\ by = <<x, e.seq>> /\ worker'[x].seq = e.seq
      BY <1>2, <2>2
    <2> QED BY <1>5, <2>1, <2>2
  <1>7. RecordTrue'
    <2>0. record \in [Sids -> Seq(Remembered)] /\ record[e.sid] \in Seq(Remembered)
      BY <1>1 DEF TypeOK
    <2> DEFINE w == Append(record[e.sid], entry)
               new == Remember(e.sid, e.seq, by)
    <2>1. entry \in Remembered
      BY <1>1 DEF Remembered, Calls
    <2>2. /\ w \in Seq(Remembered) /\ w # <<>>
          /\ Len(record[e.sid]) \in Nat /\ Len(w) = Len(record[e.sid]) + 1
          /\ DOMAIN w = 1..Len(w) /\ DOMAIN record[e.sid] = 1..Len(record[e.sid])
          /\ \A i \in 1..Len(record[e.sid]) : w[i] = record[e.sid][i]
          /\ w[Len(record[e.sid]) + 1] = entry
      <3> HIDE DEF entry
      <3>1. w \in Seq(Remembered) /\ w # <<>>
        BY <2>0, <2>1, AppendProperties
      <3>2. /\ Len(w) = Len(record[e.sid]) + 1
            /\ \A i \in 1..Len(record[e.sid]) : w[i] = record[e.sid][i]
            /\ w[Len(record[e.sid]) + 1] = entry
        BY <2>0, <2>1, AppendProperties
      <3> HIDE DEF w
      <3> QED BY <2>0, <3>1, <3>2, LenProperties
    <2>3. /\ Len(Tail(w)) = Len(w) - 1 /\ DOMAIN Tail(w) = 1..(Len(w) - 1)
          /\ \A i \in 1..(Len(w) - 1) : Tail(w)[i] = w[i + 1]
      BY <2>2, HeadTailProperties, LenProperties
    <2>4. new = record[e.sid] \/ new = w \/ new = Tail(w)
      BY DEF Remember
    <2> HIDE DEF w, new
    <2>5. \A i \in DOMAIN w : w[i] = entry \/ \E j \in DOMAIN record[e.sid] : w[i] = record[e.sid][j]
      BY <2>2
    <2>6. \A i \in DOMAIN new : new[i] = entry \/ \E j \in DOMAIN record[e.sid] : new[i] = record[e.sid][j]
      <3>1. \A i \in DOMAIN Tail(w) : i + 1 \in DOMAIN w /\ Tail(w)[i] = w[i + 1]
        BY <2>2, <2>3
      <3> QED BY <2>4, <2>5, <3>1
    <2>7. record' = record \/ record' = [record EXCEPT ![e.sid] = new]
      BY DEF Finish, new
    <2>8. \A s \in Sids : \A i \in DOMAIN record'[s] :
            \/ s = e.sid /\ record'[s][i] = entry
            \/ \E j \in DOMAIN record[s] : record'[s][i] = record[s][j]
      BY <1>1, <2>0, <2>6, <2>7
    <2>9. \A s \in Sids : \A j \in DOMAIN record[s] : record[s][j].seq \in Seqs
      <3>1. \A s \in Sids : \A j \in DOMAIN record[s] : record[s][j] \in Remembered
        BY <2>0, ElementOfSeq, LenProperties
      <3> QED BY <3>1 DEF Remembered
    <2>10. ASSUME NEW s \in Sids, NEW i \in DOMAIN record'[s]
           PROVE  record'[s][i].by = <<s, record'[s][i].seq>> /\ Ran(s, record'[s][i].seq)
      <3>1. CASE s = e.sid /\ record'[s][i] = entry
        BY <1>2, <3>1
      <3>2. ASSUME NEW j \in DOMAIN record[s], record'[s][i] = record[s][j]
            PROVE  record'[s][i].by = <<s, record'[s][i].seq>> /\ Ran(s, record'[s][i].seq)
        <4>1. record[s][j].by = <<s, record[s][j].seq>> /\ HasRun(s, record[s][j].seq)
          BY DEF Answered, RecordTrue
        <4> QED BY <1>2, <2>9, <3>2, <4>1
      <3> QED BY <2>8, <3>1, <3>2
    <2> QED BY <2>10 DEF RecordTrue, HasRun
  <1> QED BY <1>5, <1>6, <1>7 DEF Answered

\* The parts of RoutingInv, as the lemmas above take them.
Routing == PortsLinked /\ NewestPort /\ Numbered /\ Answered

\* Steps that leave the ports and the page's record alone.
LEMMA RoutingKept ==
  ASSUME Routing, NoNewRelay, UNCHANGED <<sessions, ports, inc, swq, nextSeq, record, ran>>,
         \A m \in ops' \cup execs' : m \in ops \cup execs \/ m.port = NoPort,
         \A x \in Sids : SameAnswer(x) \/ worker'[x].got = NoCall
  PROVE  Routing'
  <1>1. PortsLinked' /\ NewestPort'
    BY LinksKept DEF Routing, LinkedMessage
  <1>2. Numbered'
    BY NumbersKept DEF Routing, SameReach
  <1>3. Answered'
    BY AnsweredKept DEF Routing
  <1> QED BY <1>1, <1>2, <1>3 DEF Routing

LEMMA RoutingWorker ==
  ASSUME TypeOK, Routing, NEW s \in Sids, WorkerStep(s)
  PROVE  Routing'
  <1> USE DEF swVars, linkVars, hostVars, history
  <1>0. worker \in [Sids -> WorkerRec] /\ worker[s] \in WorkerRec
    BY DEF TypeOK
  <1>1. CASE Enqueue(s)
    BY <1>1, RoutingKept DEF Enqueue, NoNewRelay, SameAnswer
  <1>2. ASSUME NEW k \in Kinds, SendSync(s, k)
        PROVE  Routing'
    <2>1. NoNewRelay
      BY <1>2 DEF SendSync, NoNewRelay, Request
    <2>2. \A x \in Sids : SameAnswer(x) \/ worker'[x].got = NoCall
      BY <1>0, <1>2 DEF SendSync, SameAnswer
    <2> QED BY <1>2, <2>1, <2>2, RoutingKept DEF SendSync
  <1>3. ASSUME NEW k \in Kinds, SendAsync(s, k)
        PROVE  Routing'
    <2>1. NoNewRelay
      BY <1>3 DEF SendAsync, NoNewRelay
    <2>2. \A x \in Sids : SameAnswer(x) \/ worker'[x].got = NoCall
      <3>1. worker' = [worker EXCEPT ![s] = [worker[s] EXCEPT !.seq = worker[s].seq + 1, !.got = NoCall]]
        BY <1>3 DEF SendAsync
      <3>2. worker'[s].got = NoCall
        BY <1>0, <3>1 DEF WorkerRec
      <3> QED BY <1>0, <3>1, <3>2 DEF SameAnswer
    <2>3. \A m \in ops' : m \in ops \/ m.port = NoPort
      BY <1>3 DEF SendAsync
    <2> QED BY <1>3, <2>1, <2>2, <2>3, RoutingKept DEF SendAsync
  <1>4. CASE XhrTimeout(s)
    BY <1>4, FailAttemptAnswers, RoutingKept DEF XhrTimeout
  <1>5. CASE NetworkError(s)
    BY <1>5, FailAttemptAnswers, RoutingKept DEF NetworkError
  <1> QED BY <1>1, <1>2, <1>3, <1>4, <1>5 DEF WorkerStep

LEMMA RoutingServiceWorker ==
  ASSUME TypeOK, Routing, ServiceWorkerStep
  PROVE  Routing'
  <1> USE DEF workerVars, swVars, linkVars, hostVars, history
  <1>1. ASSUME NEW f \in fetches, sessions[f.sid] # NoPort, Relay(f)
        PROVE  Routing'
    <2>1. f \in Fetch /\ f.sid \in Sids
      BY DEF TypeOK, Fetch
    <2>2. LinkedMessage(OpOf(Relayed(f, sessions[f.sid], nextSeq)))
      <3>1. inc # 0
        BY DEF TypeOK
      <3> QED BY <1>1, <2>1, <3>1, RelayedFields DEF Routing, PortsLinked, LinkedMessage
    <2>3. PortsLinked' /\ NewestPort'
      BY <1>1, <2>2, LinksKept DEF Routing, Relay
    <2>4. Numbered'
      BY <1>1, NumbersRelay DEF Routing
    <2>5. Answered'
      BY <1>1, AnsweredKept DEF Routing, Relay, SameAnswer
    <2> QED BY <2>3, <2>4, <2>5 DEF Routing
  <1>2. ASSUME NEW f \in fetches, NEW st \in {"asking", "rescue"},
               fetches' = (fetches \ {f}) \cup {[f EXCEPT !.st = st]}
        PROVE  NoNewRelay
    <2>1. f \in Fetch
      BY DEF TypeOK
    <2> QED BY <1>2, <2>1 DEF NoNewRelay, Fetch
  <1>3. ASSUME NEW f \in fetches, LookupMiss(f)
        PROVE  Routing'
    <2>1. NoNewRelay
      BY <1>2, <1>3 DEF LookupMiss
    <2> QED BY <1>3, <2>1, RoutingKept DEF LookupMiss, SameAnswer
  <1>7. ASSUME NEW f \in fetches, Ask(f)
        PROVE  Routing'
    <2>1. NoNewRelay /\ \A x \in Sids : SameAnswer(x)
      <3>1. CASE fetches' = (fetches \ {f}) \cup {[f EXCEPT !.st = "rescue"]} /\ UNCHANGED worker
        BY <1>2, <3>1 DEF SameAnswer
      <3>2. CASE Refuse(f)
        BY <3>2, RefuseAnswers
      <3> QED BY <1>7, <3>1, <3>2 DEF Ask
    <2> QED BY <1>7, <2>1, RoutingKept DEF Ask
  <1>8. ASSUME NEW f \in fetches, RescueTimeout(f) \/ Expire(f)
        PROVE  Routing'
    <2>1. CASE sessions[f.sid] # NoPort /\ Relay(f)
      BY <1>1, <2>1
    <2>2. CASE Refuse(f) /\ UNCHANGED <<printed, inc, sessions, nextSeq, linkVars, hostVars, history>>
      BY <2>2, RefuseAnswers, RoutingKept
    <2> QED BY <1>8, <2>1, <2>2 DEF RescueTimeout, Expire
  <1>4. CASE Adopt
    <2>1. Answered'
      BY <1>4, AnsweredKept DEF Routing, Adopt, SameAnswer
    <2> QED BY <1>4, <2>1, LinksAdopt, NumbersAdopt DEF Routing
  <1>5. CASE Detach
    <2>1. Answered'
      BY <1>5, AnsweredKept DEF Routing, Detach, SameAnswer
    <2>2. Numbered'
      BY <1>5, NumbersKept DEF Routing, Detach, SameReach, NoNewRelay
    <2> QED BY <1>5, <2>1, <2>2, LinksDetach DEF Routing
  <1>6. CASE Evict
    <2>1. Answered'
      BY <1>6, AnsweredKept DEF Routing, Evict, SameAnswer
    <2> QED BY <1>6, <2>1, LinksEvict, NumbersEvict DEF Routing
  <1> QED BY <1>1, <1>3, <1>4, <1>5, <1>6, <1>7, <1>8 DEF ServiceWorkerStep, LookupHit

\* Steps of the page that touch ports and notices alone.
LEMMA RoutingPorts ==
  ASSUME Routing, PortsLinked', NewestPort', NEW q, SamePorts(q), NEW r,
         ports' = q \/ (ports' = Append(q, r) /\ r \in PortRec),
         TypeOK, UNCHANGED <<inc, nextSeq, fetches, ops, execs, record, ran>>,
         \A x \in Sids : SameAnswer(x)
  PROVE  Routing'
  <1>1. SameReach
    <2>1. DOMAIN ports = 1..Len(ports) /\ DOMAIN q = DOMAIN ports /\ Len(ports) \in Nat
      BY LenProperties DEF TypeOK, SamePorts
    <2>2. CASE ports' = q
      BY <2>1, <2>2 DEF SameReach, SamePorts
    <2>3. CASE ports' = Append(q, r) /\ r \in PortRec
      <3>1. /\ ports' \in Seq(PortRec) /\ Len(ports') = Len(ports) + 1
            /\ \A p \in DOMAIN ports : ports'[p] = q[p]
        <4>1. q \in Seq(PortRec) /\ Len(q) = Len(ports)
          BY DEF SamePorts
        <4>2. /\ Append(q, r) \in Seq(PortRec) /\ Len(Append(q, r)) = Len(q) + 1
              /\ \A p \in 1..Len(q) : Append(q, r)[p] = q[p]
          BY <2>3, <4>1, AppendProperties
        <4> QED BY <2>1, <2>3, <4>1, <4>2
      <3>2. DOMAIN ports' = 1..(Len(ports) + 1)
        BY <3>1, LenProperties
      <3> QED BY <2>1, <3>1, <3>2 DEF SameReach, SamePorts
    <2> QED BY <2>2, <2>3
  <1>2. Numbered'
    BY <1>1, NumbersKept DEF Routing, NoNewRelay
  <1>3. Answered'
    BY AnsweredKept DEF Routing
  <1> QED BY <1>2, <1>3 DEF Routing

LEMMA RoutingHandshake ==
  ASSUME TypeOK, Routing, NEW s \in Sids, Handshake(s, 1),
         UNCHANGED <<sessions, inc, nextSeq, fetches, ops, execs, record, ran>>,
         \A x \in Sids : SameAnswer(x)
  PROVE  Routing'
  <1> DEFINE r == [sid |-> s, att |-> 1, inc |-> 0, st |-> "handshake"]
  <1>1. r \in PortRec /\ r.inc = 0 /\ r.sid = s
    BY TransportAssumption DEF PortRec
  <1>2. SamePorts(ports)
    BY DEF SamePorts, TypeOK
  <1>3. /\ ports' = Append(ports, r) /\ Len(ports) + 1 \in Ports
        /\ swq' = Append(swq, [t |-> "attach", sid |-> r.sid, port |-> Len(ports) + 1])
    BY DEF Handshake
  <1> HIDE DEF r
  <1>4. PortsLinked' /\ NewestPort'
    BY <1>1, <1>2, <1>3, LinksMinted DEF Routing
  <1> QED BY <1>1, <1>2, <1>3, <1>4, RoutingPorts

LEMMA RoutingPage ==
  ASSUME TypeOK, Routing, PageStep
  PROVE  Routing'
  <1> USE DEF workerVars, swVars, linkVars, hostVars, history
  <1>0. worker \in [Sids -> WorkerRec]
    BY DEF TypeOK
  <1>1. ASSUME NEW s \in Sids, AttachSession(s)
        PROVE  Routing'
    <2>1. \A x \in Sids : SameAnswer(x)
      BY <1>0, <1>1 DEF AttachSession, SameAnswer, WorkerRec
    <2> QED BY <1>1, <2>1, RoutingHandshake DEF AttachSession
  <1>2. ASSUME NEW s \in Sids, Rescued(s)
        PROVE  Routing'
    <2>1. CASE Listening(s)
      BY <1>2, <2>1, RoutingHandshake DEF Rescued, SameAnswer
    <2>2. CASE ~ Listening(s)
      BY <1>2, <2>2, RoutingKept DEF Rescued, SameAnswer, NoNewRelay
    <2> QED BY <2>1, <2>2
  <1>3. ASSUME NEW s \in Sids, ControllerChange(s)
        PROVE  Routing'
    BY <1>3, RoutingHandshake DEF ControllerChange, SameAnswer
  <1>4. ASSUME NEW s \in Sids, Terminate(s)
        PROVE  Routing'
    <2> DEFINE n == [t |-> "detach", sid |-> s, port |-> NoPort]
    <2>1. n \in Notice /\ n.t = "detach"
      BY DEF Notice
    <2>2. swq' = swq \/ swq' = Append(swq, n)
      BY <1>4 DEF Terminate
    <2> HIDE DEF n
    <2>3. PortsLinked' /\ NewestPort'
      BY <1>4, <2>1, <2>2, LinksDetachSent DEF Routing, Terminate
    <2>4. \A x \in Sids : SameAnswer(x)
      BY <1>0, <1>4 DEF Terminate, SameAnswer, WorkerRec
    <2>5. NoNewRelay /\ SameReach
      BY <1>4 DEF Terminate, NoNewRelay, SameReach
    <2>6. Numbered'
      BY <1>4, <2>5, NumbersKept DEF Routing, Terminate
    <2>7. Answered'
      BY <1>4, <2>4, AnsweredKept DEF Routing, Terminate
    <2> QED BY <2>3, <2>6, <2>7 DEF Routing
  <1>5. ASSUME NEW p \in DOMAIN ports, NEW st \in {"open", "closed", "refused"}
        PROVE  SamePorts([ports EXCEPT ![p].st = st])
    <2>1. ports[p] \in PortRec /\ \A x \in DOMAIN ports : ports[x] \in PortRec
      BY LenProperties DEF TypeOK
    <2>2. [ports[p] EXCEPT !.st = st] \in PortRec
      BY <2>1 DEF PortRec
    <2>3. [ports EXCEPT ![p].st = st] = [ports EXCEPT ![p] = [ports[p] EXCEPT !.st = st]]
      OBVIOUS
    <2>4. /\ [ports EXCEPT ![p].st = st] \in Seq(PortRec)
          /\ Len([ports EXCEPT ![p].st = st]) = Len(ports)
      BY <2>2, <2>3, PortChange
    <2> QED BY <2>1, <2>4 DEF SamePorts, PortRec
  <1>6. ASSUME NEW p \in DOMAIN ports, Attached(p)
        PROVE  Routing'
    <2>1. \A x \in Sids : SameAnswer(x)
      BY <1>0, <1>6 DEF Attached, SameAnswer, WorkerRec
    <2>2. SamePorts([ports EXCEPT ![p].st = "open"]) /\ ports' = [ports EXCEPT ![p].st = "open"]
      BY <1>5, <1>6 DEF Attached
    <2>3. PortsLinked' /\ NewestPort'
      BY <1>6, <2>2, LinksOfSamePorts DEF Routing, Attached
    <2> QED BY <1>6, <2>1, <2>2, <2>3, RoutingPorts DEF Attached
  <1>m. ASSUME NEW p \in DOMAIN ports, Mismatched(p)
        PROVE  Routing'
    <2>1. \A x \in Sids : SameAnswer(x)
      BY <1>m DEF Mismatched, SameAnswer
    <2>2. SamePorts([ports EXCEPT ![p].st = "refused"]) /\ ports' = [ports EXCEPT ![p].st = "refused"]
      BY <1>5, <1>m DEF Mismatched
    <2>3. PortsLinked' /\ NewestPort'
      BY <1>m, <2>2, LinksOfSamePorts DEF Routing, Mismatched
    <2> QED BY <1>m, <2>1, <2>2, <2>3, RoutingPorts DEF Mismatched
  <1>7. ASSUME NEW p \in DOMAIN ports, AttachTimeout(p)
        PROVE  Routing'
    <2> DEFINE q == [ports EXCEPT ![p].st = "closed"]
               r == [sid |-> ports[p].sid, att |-> ports[p].att + 1, inc |-> 0,
                     st |-> "handshake"]
    <2>1. SamePorts(q)
      BY <1>5
    <2>2. \A x \in Sids : SameAnswer(x)
      BY <1>7 DEF AttachTimeout, SameAnswer
    <2>3. CASE /\ ports[p].att < AttachAttempts
               /\ Len(ports) + 1 \in Ports
               /\ ports' = Append(q, r)
               /\ swq' = Append(swq, [t |-> "attach", sid |-> ports[p].sid,
                                      port |-> Len(ports) + 1])
      <3>1. ports[p] \in PortRec
        BY LenProperties DEF TypeOK
      <3>2. r \in PortRec /\ r.inc = 0 /\ r.sid = ports[p].sid
        BY <2>3, <3>1, TransportAssumption DEF PortRec
      <3> HIDE DEF q, r
      <3>3. PortsLinked' /\ NewestPort'
        BY <1>7, <2>1, <2>3, <3>2, LinksMinted DEF Routing, AttachTimeout
      <3> QED BY <1>7, <2>1, <2>2, <2>3, <3>2, <3>3, RoutingPorts DEF AttachTimeout
    <2>4. CASE ports' = q /\ UNCHANGED swq
      <3> HIDE DEF q
      <3>1. PortsLinked' /\ NewestPort'
        BY <1>7, <2>1, <2>4, LinksOfSamePorts DEF Routing, AttachTimeout
      <3> QED BY <1>7, <2>1, <2>2, <2>4, <3>1, RoutingPorts DEF AttachTimeout
    <2> QED BY <1>7, <2>3, <2>4 DEF AttachTimeout
  <1>8. ASSUME NEW m \in ops, Answer(m)
        PROVE  Routing'
    <2>1. \A x \in ops' \cup execs' : x \in ops \cup execs
      BY <1>8 DEF Answer
    <2>2. Answered' /\ NoNewRelay
      BY <1>8, AnsweredAnswer DEF Routing
    <2>3. PortsLinked' /\ NewestPort'
      BY <1>8, <2>1, LinksKept DEF Routing, Answer
    <2>4. Numbered'
      BY <1>8, <2>1, <2>2, NumbersKept DEF Routing, Answer, SameReach
    <2> QED BY <2>2, <2>3, <2>4 DEF Routing
  <1>9. ASSUME NEW m \in ops, LoseOp(m)
        PROVE  Routing'
    BY <1>9, RoutingKept DEF LoseOp, SameAnswer, NoNewRelay
  <1>10. ASSUME NEW e \in execs, Finish(e)
         PROVE  Routing'
    <2>1. \A x \in ops' \cup execs' : x \in ops \cup execs
      BY <1>10 DEF Finish
    <2>2. Answered' /\ NoNewRelay
      BY <1>10, AnsweredFinish DEF Routing
    <2>3. PortsLinked' /\ NewestPort'
      BY <1>10, <2>1, LinksKept DEF Routing, Finish
    <2>4. Numbered'
      BY <1>10, <2>1, <2>2, NumbersKept DEF Routing, Finish, SameReach
    <2> QED BY <2>2, <2>3, <2>4 DEF Routing
  <1> QED BY <1>1, <1>2, <1>3, <1>4, <1>6, <1>7, <1>8, <1>m, <1>9, <1>10 DEF PageStep

LEMMA RoutingInit == Init => Routing
BY EmptySeq DEF Init, Routing, PortsLinked, NewestPort, Numbered, NumbersFresh, NoCrossedReply,
                Answered, RecordTrue, TrueAnswer, Waiting

\* Replies find the call they answer: RoutingInv holds in every state.
THEOREM RoutingCorrect == Spec => []RoutingInv
  <1>1. RoutingInv <=> TypeOK /\ Routing
    BY DEF RoutingInv, Routing, Numbered, Answered
  <1>2. TypeOK /\ Routing /\ [Next]_vars => Routing'
    <2> SUFFICES ASSUME TypeOK, Routing, [Next]_vars PROVE Routing'
      OBVIOUS
    <2>1. CASE Next
      BY <2>1, RoutingWorker, RoutingServiceWorker, RoutingPage DEF Next
    <2>2. CASE UNCHANGED vars
      BY <2>2, RoutingKept DEF vars, workerVars, swVars, linkVars, hostVars, history,
                               SameAnswer, NoNewRelay
    <2> QED BY <2>1, <2>2
  <1> QED BY <1>1, <1>2, RoutingInit, TypeCorrect, PTL DEF Spec

\* A thread wakes up with the answer computed for the very call it is parked in.
THEOREM TrueAnswers == Spec => []TrueAnswer
  <1>1. RoutingInv => TrueAnswer
    BY DEF RoutingInv
  <1> QED BY <1>1, RoutingCorrect, PTL

\* No reply on a live port can settle the request of another call.
THEOREM RepliesDoNotCross == Spec => []NoCrossedReply
  <1>1. RoutingInv => NoCrossedReply
    BY DEF RoutingInv
  <1> QED BY <1>1, RoutingCorrect, PTL

\* The service worker relays to the newest port it has been given.
THEOREM NewestPortWins == Spec => []NewestPort
  <1>1. RoutingInv => NewestPort
    BY DEF RoutingInv
  <1> QED BY <1>1, RoutingCorrect, PTL

-----------------------------------------------------------------------------
(* The bookkeeping, apart from the transport: queues o, delivered sidebands *)
(* h, packets P and the number n each session has printed.                  *)

Once(o, h, P, n) ==
  \A s \in Sids :
    /\ o[s] \cap h[s] = {}
    /\ o[s] \cup h[s] \subseteq 1..n[s]
    /\ \A m \in P : m.sid = s =>
         /\ m.push \cap (o[s] \cup h[s]) = {}
         /\ m.push \subseteq 1..n[s]
         /\ \A x \in P : x.sid = s /\ x # m => x.push \cap m.push = {}

LEMMA OnceFewer ==
  ASSUME NEW o, NEW h, NEW P, NEW n, NEW Q \in SUBSET P, Once(o, h, P, n)
  PROVE  Once(o, h, Q, n)
BY DEF Once

\* A packet takes the whole queue of its session.
LEMMA OnceDrain ==
  ASSUME NEW o \in [Sids -> SUBSET Pushes], NEW h, NEW P, NEW n, NEW s \in Sids, NEW m,
         m.sid = s, m.push = o[s], Once(o, h, P, n)
  PROVE  Once([o EXCEPT ![s] = {}], h, P \cup {m}, n)
  <1> DEFINE q == [o EXCEPT ![s] = {}]
  <1>1. q[s] = {} /\ \A t \in Sids \ {s} : q[t] = o[t]
    OBVIOUS
  <1> HIDE DEF q
  <1> SUFFICES ASSUME NEW t \in Sids
               PROVE  /\ q[t] \cap h[t] = {}
                      /\ q[t] \cup h[t] \subseteq 1..n[t]
                      /\ \A x \in P \cup {m} : x.sid = t =>
                           /\ x.push \cap (q[t] \cup h[t]) = {}
                           /\ x.push \subseteq 1..n[t]
                           /\ \A y \in P \cup {m} : y.sid = t /\ y # x => y.push \cap x.push = {}
    BY DEF Once, q
  <1>2. CASE t = s
    BY <1>1, <1>2 DEF Once
  <1>3. CASE t # s
    BY <1>1, <1>3 DEF Once
  <1> QED BY <1>2, <1>3

\* A packet is delivered.
LEMMA OnceHeard ==
  ASSUME NEW o, NEW h \in [Sids -> SUBSET Pushes], NEW P, NEW n, NEW m \in P, m.sid \in Sids,
         Once(o, h, P, n)
  PROVE  Once(o, [h EXCEPT ![m.sid] = @ \cup m.push], P \ {m}, n)
  <1> DEFINE g == [h EXCEPT ![m.sid] = @ \cup m.push]
  <1>1. g[m.sid] = h[m.sid] \cup m.push /\ \A t \in Sids \ {m.sid} : g[t] = h[t]
    OBVIOUS
  <1> HIDE DEF g
  <1>2. Once(o, g, P \ {m}, n)
    BY <1>1 DEF Once
  <1> QED BY <1>2 DEF g

\* Packets change hands: each is one that was there, and no two are the same one.
LEMMA OnceMoved ==
  ASSUME NEW o, NEW h, NEW P, NEW Q, NEW n, Once(o, h, P, n),
         \A m \in Q : \E x \in P : x.sid = m.sid /\ x.push = m.push,
         \A m, k \in Q : m # k /\ m.sid = k.sid =>
           \E x, y \in P : /\ x # y /\ x.sid = m.sid /\ y.sid = k.sid
                           /\ x.push = m.push /\ y.push = k.push
  PROVE  Once(o, h, Q, n)
BY DEF Once

-----------------------------------------------------------------------------
(* The transport *)

Packets == ops \cup Carrying

Sidebands == Once(outbox, heard, Packets, printed)

\* After a call fails, what it carried is gone with it and the retry takes the queue.
LEMMA FailAttemptSidebands ==
  ASSUME TypeOK, NEW s \in Sids, NEW rest \in SUBSET fetches, FailAttempt(s, rest),
         NEW P, NEW h, Carrying \subseteq P, Once(outbox, h, P, printed)
  PROVE  \E Q : P \cup Carrying' \subseteq Q /\ Once(outbox', h, Q, printed)
  <1> DEFINE r == Request(s, worker[s].seq, worker[s].kind, worker[s].att + 1)
  <1>1. outbox \in [Sids -> SUBSET Pushes]
    BY DEF TypeOK
  <1>2. CASE fetches' = rest \cup {r} /\ outbox' = [outbox EXCEPT ![s] = {}]
    <2>1. r.sid = s /\ r.push = outbox[s]
      BY DEF Request
    <2> HIDE DEF r
    <2>2. Once(outbox', h, P \cup {r}, printed)
      BY <1>1, <1>2, <2>1, OnceDrain
    <2>3. Carrying' \subseteq P \cup {r}
      BY <1>2 DEF Carrying
    <2> QED BY <2>2, <2>3
  <1>3. CASE fetches' = rest /\ outbox' = outbox
    <2>1. Carrying' \subseteq P
      BY <1>3 DEF Carrying
    <2> QED BY <1>3, <2>1
  <1> QED BY <1>2, <1>3 DEF FailAttempt

LEMMA RefuseSidebands ==
  ASSUME TypeOK, NEW f \in fetches, Refuse(f),
         NEW P, NEW h, Carrying \subseteq P, Once(outbox, h, P, printed)
  PROVE  \E Q : P \cup Carrying' \subseteq Q /\ Once(outbox', h, Q, printed)
  <1>1. f.sid \in Sids
    BY DEF TypeOK, Fetch
  <1>2. CASE Current(f)
    BY <1>1, <1>2, FailAttemptSidebands DEF Refuse
  <1>3. CASE ~ Current(f)
    <2>1. Carrying' \subseteq P /\ outbox' = outbox
      BY <1>3 DEF Refuse, Carrying
    <2> QED BY <2>1
  <1> QED BY <1>2, <1>3

LEMMA SettleSidebands ==
  ASSUME TypeOK, NEW p, NEW r, NEW q, NEW by, Settle(p, r, q, by),
         NEW P, NEW h, Carrying \subseteq P, Once(outbox, h, P, printed)
  PROVE  \E Q : P \cup Carrying' \subseteq Q /\ Once(outbox', h, Q, printed)
  <1>1. CASE Reaches(p) /\ Waiting(p, r) # {}
    <2>1. PICK f \in Waiting(p, r) :
            \/ fetches' = fetches \ {f} /\ outbox' = outbox
            \/ Refuse(f)
      BY <1>1 DEF Settle
    <2>2. f \in fetches
      BY DEF Waiting
    <2>3. CASE fetches' = fetches \ {f} /\ outbox' = outbox
      <3>1. Carrying' \subseteq P
        BY <2>3 DEF Carrying
      <3> QED BY <2>3, <3>1
    <2> QED BY <2>1, <2>2, <2>3, RefuseSidebands
  <1>2. CASE ~ (Reaches(p) /\ Waiting(p, r) # {})
    <2>1. Carrying' \subseteq P /\ outbox' = outbox
      BY <1>2 DEF Settle, Carrying
    <2> QED BY <2>1
  <1> QED BY <1>1, <1>2

\* A request on its way to the page is not a fetch event.
LEMMA OpsNotFetches ==
  ASSUME TypeOK
  PROVE  ops \cap fetches = {}
  <1> SUFFICES ASSUME NEW m \in Op, m \in Fetch PROVE FALSE
    BY DEF TypeOK
  <1>1. "st" \in DOMAIN m
    BY DEF Fetch
  <1>2. "st" \notin DOMAIN m
    BY DEF Op
  <1> QED BY <1>1, <1>2

LEMMA SidebandsWorker ==
  ASSUME TypeOK, Sidebands, NEW s \in Sids, WorkerStep(s)
  PROVE  Sidebands'
  <1> USE DEF swVars, linkVars, hostVars, history
  <1>0. outbox \in [Sids -> SUBSET Pushes] /\ printed \in [Sids -> 0..MaxPush]
    BY DEF TypeOK
  <1>1. CASE Enqueue(s)
    <2> DEFINE k == printed[s] + 1
    <2>1. /\ printed'[s] = k /\ \A t \in Sids \ {s} : printed'[t] = printed[t]
          /\ outbox'[s] = outbox[s] \cup {k} /\ \A t \in Sids \ {s} : outbox'[t] = outbox[t]
          /\ UNCHANGED <<heard, ops, fetches>>
      BY <1>0, <1>1 DEF Enqueue
    <2>2. k \notin 1..printed[s] /\ 1..printed[s] \subseteq 1..k /\ k \in 1..k
      BY <1>0, TransportAssumption
    <2> HIDE DEF k
    <2>3. Packets' = Packets
      BY <2>1 DEF Packets, Carrying
    <2> SUFFICES ASSUME NEW t \in Sids
                 PROVE  /\ outbox'[t] \cap heard[t] = {}
                        /\ outbox'[t] \cup heard[t] \subseteq 1..printed'[t]
                        /\ \A m \in Packets : m.sid = t =>
                             /\ m.push \cap (outbox'[t] \cup heard[t]) = {}
                             /\ m.push \subseteq 1..printed'[t]
                             /\ \A x \in Packets : x.sid = t /\ x # m => x.push \cap m.push = {}
      BY <2>1, <2>3 DEF Sidebands, Once
    <2>4. CASE t = s
      BY <2>1, <2>2, <2>4 DEF Sidebands, Once
    <2>5. CASE t # s
      BY <2>1, <2>5 DEF Sidebands, Once
    <2> QED BY <2>4, <2>5
  <1>2. ASSUME NEW k \in Kinds, SendSync(s, k)
        PROVE  Sidebands'
    <2> DEFINE r == Request(s, worker[s].seq + 1, k, 0)
    <2>1. r.sid = s /\ r.push = outbox[s]
      BY DEF Request
    <2>2. /\ fetches' = fetches \cup {r} /\ outbox' = [outbox EXCEPT ![s] = {}]
          /\ UNCHANGED <<heard, ops, printed>>
      BY <1>2 DEF SendSync
    <2> HIDE DEF r
    <2>3. Once(outbox', heard, Packets \cup {r}, printed)
      BY <1>0, <2>1, <2>2, OnceDrain DEF Sidebands
    <2>4. Packets' \subseteq Packets \cup {r}
      BY <2>2 DEF Packets, Carrying
    <2> QED BY <2>2, <2>3, <2>4, OnceFewer DEF Sidebands
  <1>3. ASSUME NEW k \in Kinds, SendAsync(s, k)
        PROVE  Sidebands'
    <2> DEFINE r == [sid |-> s, seq |-> worker[s].seq + 1, kind |-> k,
                     push |-> outbox[s], rseq |-> 0, port |-> NoPort]
    <2>1. r.sid = s /\ r.push = outbox[s]
      OBVIOUS
    <2>2. /\ ops' = ops \cup {r} /\ outbox' = [outbox EXCEPT ![s] = {}]
          /\ UNCHANGED <<heard, fetches, printed>>
      BY <1>3 DEF SendAsync
    <2> HIDE DEF r
    <2>3. Once(outbox', heard, Packets \cup {r}, printed)
      BY <1>0, <2>1, <2>2, OnceDrain DEF Sidebands
    <2>4. Packets' \subseteq Packets \cup {r}
      BY <2>2 DEF Packets, Carrying
    <2> QED BY <2>2, <2>3, <2>4, OnceFewer DEF Sidebands
  <1>4. CASE XhrTimeout(s) \/ NetworkError(s)
    <2>1. PICK rest \in SUBSET fetches : FailAttempt(s, rest)
      BY <1>4 DEF XhrTimeout, NetworkError
    <2>2. UNCHANGED <<printed, heard, ops>>
      BY <1>4 DEF XhrTimeout, NetworkError
    <2>3. Carrying \subseteq Packets
      BY DEF Packets
    <2>4. PICK Q : Packets \cup Carrying' \subseteq Q /\ Once(outbox', heard, Q, printed)
      BY <2>1, <2>3, FailAttemptSidebands DEF Sidebands
    <2>5. Packets' \in SUBSET Q
      BY <2>2, <2>4 DEF Packets
    <2> QED BY <2>2, <2>4, <2>5, OnceFewer DEF Sidebands
  <1> QED BY <1>1, <1>2, <1>3, <1>4 DEF WorkerStep

\* Steps that queue and deliver nothing.
LEMMA SidebandsKept ==
  ASSUME Sidebands, UNCHANGED <<outbox, heard, printed>>, Packets' \subseteq Packets
  PROVE  Sidebands'
BY OnceFewer DEF Sidebands

LEMMA SidebandsServiceWorker ==
  ASSUME TypeOK, Sidebands, ServiceWorkerStep
  PROVE  Sidebands'
  <1> USE DEF workerVars, swVars, linkVars, hostVars, history
  <1>1. ASSUME NEW f \in fetches, f.st # "relayed", Relay(f)
        PROVE  Sidebands'
    <2> DEFINE r == Relayed(f, sessions[f.sid], nextSeq)
    <2>1. f \in Fetch
      BY DEF TypeOK
    <2>2. r.st = "relayed" /\ OpOf(r).sid = f.sid /\ OpOf(r).push = f.push
      BY <2>1, RelayedFields
    <2>3. /\ fetches' = (fetches \ {f}) \cup {x \in {r} : Current(x)}
          /\ ops' = ops \cup {OpOf(r)}
          /\ UNCHANGED <<outbox, heard, printed>>
      BY <1>1 DEF Relay
    <2> HIDE DEF r
    <2>4. f \in Packets /\ f \notin ops
      BY <1>1, OpsNotFetches DEF Packets, Carrying
    <2>5. \A m \in Packets' : (m \in Packets /\ m # f) \/ m = OpOf(r)
      BY <2>2, <2>3, <2>4 DEF Packets, Carrying
    <2>6. Once(outbox, heard, Packets', printed)
      BY <2>2, <2>4, <2>5, OnceMoved DEF Sidebands
    <2> QED BY <2>3, <2>6 DEF Sidebands
  <1>2. ASSUME NEW f \in fetches, f.st # "relayed", NEW st \in {"asking", "rescue"},
               fetches' = (fetches \ {f}) \cup {[f EXCEPT !.st = st]},
               UNCHANGED <<outbox, heard, printed, ops>>
        PROVE  Sidebands'
    <2> DEFINE r == [f EXCEPT !.st = st]
    <2>1. f \in Fetch
      BY DEF TypeOK
    <2>2. r.sid = f.sid /\ r.push = f.push
      BY <2>1 DEF Fetch
    <2>3. /\ fetches' = (fetches \ {f}) \cup {r}
          /\ UNCHANGED <<outbox, heard, printed, ops>>
      BY <1>2
    <2> HIDE DEF r
    <2>4. f \in Packets /\ f \notin ops
      BY <1>2, OpsNotFetches DEF Packets, Carrying
    <2>5. \A m \in Packets' : (m \in Packets /\ m # f) \/ m = r
      BY <2>2, <2>3, <2>4 DEF Packets, Carrying
    <2>6. Once(outbox, heard, Packets', printed)
      BY <2>2, <2>4, <2>5, OnceMoved DEF Sidebands
    <2> QED BY <2>3, <2>6 DEF Sidebands
  <1>3. ASSUME NEW f \in fetches, Refuse(f), UNCHANGED <<printed, heard, ops>>
        PROVE  Sidebands'
    <2>1. Refuse(f) /\ UNCHANGED <<printed, heard, ops>>
      BY <1>3
    <2>2. Carrying \subseteq Packets
      BY DEF Packets
    <2>3. PICK Q : Packets \cup Carrying' \subseteq Q /\ Once(outbox', heard, Q, printed)
      BY <2>1, <2>2, RefuseSidebands DEF Sidebands
    <2>4. Packets' \in SUBSET Q
      BY <2>1, <2>3 DEF Packets
    <2> QED BY <2>1, <2>3, <2>4, OnceFewer DEF Sidebands
  <1>7. ASSUME NEW f \in fetches,
               LookupHit(f) \/ LookupMiss(f) \/ Ask(f) \/ RescueTimeout(f) \/ Expire(f)
        PROVE  Sidebands'
    <2>1. CASE LookupHit(f)
      BY <1>1, <2>1 DEF LookupHit
    <2>2. CASE LookupMiss(f)
      BY <1>2, <2>2 DEF LookupMiss
    <2>3. CASE Ask(f)
      BY <1>2, <1>3, <2>3 DEF Ask
    <2>4. CASE RescueTimeout(f)
      BY <1>1, <1>3, <2>4 DEF RescueTimeout
    <2>5. CASE Expire(f)
      BY <1>3, <2>5 DEF Expire
    <2> QED BY <1>7, <2>1, <2>2, <2>3, <2>4, <2>5
  <1>4. CASE Adopt
    <2> DEFINE m    == Head(swq)
               wait == Rescuing(m.sid)
               new(f) == Relayed(f, m.port, nextSeq + Rank(wait, f))
               go   == {new(f) : f \in wait}
    <2>1. /\ fetches' = (fetches \ wait) \cup {f \in go : Current(f)}
          /\ ops' = ops \cup {OpOf(f) : f \in go}
          /\ UNCHANGED <<outbox, heard, printed>>
      BY <1>4 DEF Adopt, Rank
    <2>2. wait \subseteq Fetch /\ wait \subseteq Carrying
      BY DEF Rescuing, TypeOK, Carrying
    <2>3. \A f \in wait : /\ new(f).st = "relayed"
                          /\ OpOf(new(f)).sid = f.sid /\ OpOf(new(f)).push = f.push
      BY <2>2, RelayedFields
    <2> HIDE DEF new, wait
    <2>4. \A o \in ops' : o \in ops \/ \E f \in wait : o = OpOf(new(f))
      BY <2>1
    <2>5. \A g \in fetches' : (g \in fetches /\ g \notin wait) \/ \E f \in wait : g = new(f)
      BY <2>1
    <2> HIDE DEF go
    <2>6. ops \cap wait = {}
      BY <2>2, OpsNotFetches DEF Carrying
    <2>7. \A x \in Packets' :
            \/ x \in Packets /\ x \notin wait
            \/ \E f \in wait : x = OpOf(new(f))
      BY <2>3, <2>4, <2>5, <2>6 DEF Packets, Carrying
    <2>8. wait \subseteq Packets
      BY <2>2 DEF Packets
    <2>9. Once(outbox, heard, Packets', printed)
      <3> DEFINE From(x, y) == /\ y \in Packets /\ y.sid = x.sid /\ y.push = x.push
                               /\ \/ x = y /\ y \notin wait
                                  \/ y \in wait /\ x = OpOf(new(y))
      <3>1. \A x \in Packets' : \E y : From(x, y)
        BY <2>3, <2>7, <2>8
      <3>2. \A x, y, u, v : From(x, u) /\ From(y, v) /\ x # y => u # v
        OBVIOUS
      <3>3. \A x \in Packets' : \E y \in Packets : y.sid = x.sid /\ y.push = x.push
        BY <3>1
      <3>4. \A x, y \in Packets' : x # y /\ x.sid = y.sid =>
              \E u, v \in Packets : /\ u # v /\ u.sid = x.sid /\ v.sid = y.sid
                                    /\ u.push = x.push /\ v.push = y.push
        BY <3>1, <3>2
      <3> QED BY <3>3, <3>4, OnceMoved DEF Sidebands
    <2> QED BY <2>1, <2>9 DEF Sidebands
  <1>5. CASE Detach
    BY <1>5, SidebandsKept DEF Detach, Packets, Carrying
  <1>6. CASE Evict
    BY <1>6, SidebandsKept DEF Evict, Packets, Carrying
  <1> QED BY <1>4, <1>5, <1>6, <1>7 DEF ServiceWorkerStep

LEMMA SidebandsPage ==
  ASSUME TypeOK, Sidebands, PageStep
  PROVE  Sidebands'
  <1> USE DEF workerVars, swVars, linkVars, hostVars, history
  <1>1. ASSUME NEW s \in Sids, AttachSession(s) \/ Rescued(s) \/ ControllerChange(s) \/ Terminate(s)
        PROVE  Sidebands'
    <2>1. UNCHANGED <<outbox, heard, printed, ops>> /\ fetches' \subseteq fetches
      BY <1>1 DEF AttachSession, Rescued, ControllerChange, Terminate
    <2> QED BY <2>1, SidebandsKept DEF Packets, Carrying
  <1>2. ASSUME NEW p \in DOMAIN ports, Attached(p) \/ Mismatched(p) \/ AttachTimeout(p)
        PROVE  Sidebands'
    <2>1. UNCHANGED <<outbox, heard, printed, ops, fetches>>
      BY <1>2 DEF Attached, Mismatched, AttachTimeout
    <2> QED BY <2>1, SidebandsKept DEF Packets, Carrying
  <1>3. ASSUME NEW m \in ops, Answer(m)
        PROVE  Sidebands'
    <2> DEFINE h == [heard EXCEPT ![m.sid] = @ \cup m.push]
               P == Packets \ {m}
    <2>1. m.sid \in Sids /\ m \in Packets /\ heard \in [Sids -> SUBSET Pushes]
      BY DEF TypeOK, Op, Packets
    <2>2. Once(outbox, h, P, printed)
      BY <2>1, OnceHeard DEF Sidebands
    <2>3. ops' = ops \ {m} /\ heard' = h /\ UNCHANGED printed
      BY <1>3 DEF Answer
    <2>4. Carrying \subseteq P
      BY OpsNotFetches DEF Packets, Carrying
    <2> HIDE DEF h
    <2>5. CASE UNCHANGED <<outbox, fetches>>
      <3>1. Packets' \in SUBSET P
        BY <2>3, <2>4, <2>5 DEF Packets, Carrying
      <3> QED BY <2>2, <2>3, <2>5, <3>1, OnceFewer DEF Sidebands
    <2>6. ASSUME NEW r, Settle(m.port, m.rseq, m.seq, r.by)
          PROVE  Sidebands'
      <3>1. PICK Q : P \cup Carrying' \subseteq Q /\ Once(outbox', h, Q, printed)
        BY <2>2, <2>4, <2>6, SettleSidebands
      <3>2. Packets' \in SUBSET Q
        BY <2>3, <3>1 DEF Packets
      <3> QED BY <2>3, <3>1, <3>2, OnceFewer DEF Sidebands
    <2> QED BY <1>3, <2>5, <2>6 DEF Answer
  <1>4. ASSUME NEW m \in ops, LoseOp(m)
        PROVE  Sidebands'
    BY <1>4, SidebandsKept DEF LoseOp, Packets, Carrying
  <1>5. ASSUME NEW e \in execs, Finish(e)
        PROVE  Sidebands'
    <2>1. Carrying \subseteq Packets /\ UNCHANGED <<ops, heard, printed>>
      BY <1>5 DEF Packets, Finish
    <2>2. PICK Q : Packets \cup Carrying' \subseteq Q /\ Once(outbox', heard, Q, printed)
      BY <1>5, <2>1, SettleSidebands DEF Finish, Sidebands
    <2>3. Packets' \in SUBSET Q
      BY <2>1, <2>2 DEF Packets
    <2> QED BY <2>1, <2>2, <2>3, OnceFewer DEF Sidebands
  <1> QED BY <1>1, <1>2, <1>3, <1>4, <1>5 DEF PageStep

LEMMA SidebandsInit == Init => Sidebands
BY DEF Init, Sidebands, Once, Packets, Carrying

\* A sideband is in the queue, in one request or delivered, and never in two places.
THEOREM SidebandsAtMostOnce == Spec => []SidebandOnce
  <1>1. TypeOK /\ Sidebands /\ [Next]_vars => Sidebands'
    <2> SUFFICES ASSUME TypeOK, Sidebands, [Next]_vars PROVE Sidebands'
      OBVIOUS
    <2>1. CASE Next
      BY <2>1, SidebandsWorker, SidebandsServiceWorker, SidebandsPage DEF Next
    <2>2. CASE UNCHANGED vars
      BY <2>2, SidebandsKept DEF vars, workerVars, swVars, linkVars, hostVars, history,
                                 Packets, Carrying
    <2> QED BY <2>1, <2>2
  <1>2. Sidebands => SidebandOnce
    BY DEF Sidebands, Once, Packets, SidebandOnce
  <1> QED BY <1>1, <1>2, SidebandsInit, TypeCorrect, PTL DEF Spec

-----------------------------------------------------------------------------
(* A number stands for one call *)

\* Call q of session s is somewhere known as one of kind k: in a message, at the parked
\* thread or among what completed.
Named(s, q, k) ==
  \/ \E x \in fetches \cup ops \cup execs : x.sid = s /\ x.seq = q /\ x.kind = k
  \/ Parked(s) /\ worker[s].seq = q /\ worker[s].kind = k
  \/ \E i \in DOMAIN ran[s] : ran[s][i].seq = q /\ ran[s][i].kind = k

OneKind ==
  \A s \in Sids, q \in Seqs, k \in Kinds : Named(s, q, k) =>
    /\ q <= worker[s].seq
    /\ \A l \in Kinds : Named(s, q, l) => l = k

\* The steps of a worker and the service worker that mint no call: what is fetched or parked
\* in after one was known before.
SameCalls ==
  /\ \A x \in Sids : /\ worker'[x].seq = worker[x].seq
                     /\ Parked(x)' => Named(x, worker[x].seq, worker'[x].kind)
  /\ \A f \in fetches' : Named(f.sid, f.seq, f.kind)

\* Nothing completed that was not known.
SameRan ==
  \A s \in Sids : \A i \in DOMAIN ran'[s] : Named(s, ran'[s][i].seq, ran'[s][i].kind)

\* What completed before was known.
LEMMA RanNamed ==
  ASSUME UNCHANGED ran
  PROVE  SameRan
BY DEF SameRan, Named

\* What is fetched, asked or run is known.
LEMMA HeldNamed ==
  ASSUME NEW x \in fetches \cup ops \cup execs
  PROVE  Named(x.sid, x.seq, x.kind)
BY DEF Named

\* A step that mints no call leaves every number its kind.
LEMMA OneKindKept ==
  ASSUME OneKind, SameCalls, SameRan,
         \A m \in ops' \cup execs' : Named(m.sid, m.seq, m.kind)
  PROVE  OneKind'
  <1>1. ASSUME NEW s \in Sids, NEW q \in Seqs, NEW k \in Kinds, Named(s, q, k)'
        PROVE  Named(s, q, k)
    <2>1. CASE \E x \in fetches' \cup ops' \cup execs' : x.sid = s /\ x.seq = q /\ x.kind = k
      BY <2>1 DEF SameCalls
    <2>2. CASE Parked(s)' /\ worker'[s].seq = q /\ worker'[s].kind = k
      BY <2>2 DEF SameCalls
    <2>3. CASE \E i \in DOMAIN ran'[s] : ran'[s][i].seq = q /\ ran'[s][i].kind = k
      BY <2>3 DEF SameRan
    <2> QED BY <1>1, <2>1, <2>2, <2>3 DEF Named
  <1>2. \A s \in Sids : worker'[s].seq = worker[s].seq
    BY DEF SameCalls
  <1> QED BY <1>1, <1>2 DEF OneKind

\* A call is minted under a number above all that were given out.
LEMMA OneKindMinted ==
  ASSUME TypeOK, OneKind, NEW s \in Sids, NEW k \in Kinds, NEW n \in Nat,
         n = worker[s].seq + 1, worker'[s].seq = n,
         Parked(s)' => worker'[s].kind = k,
         \A x \in Sids \ {s} : worker'[x] = worker[x],
         \A f \in fetches' \cup ops' :
           f \in fetches \cup ops \/ (f.sid = s /\ f.seq = n /\ f.kind = k),
         UNCHANGED <<execs, ran>>
  PROVE  OneKind'
  <1>1. \A x \in Sids : worker[x].seq \in Nat
    BY TransportAssumption DEF TypeOK, WorkerRec
  <1>2. ASSUME NEW x \in Sids, NEW q \in Seqs, NEW l \in Kinds, Named(x, q, l)'
        PROVE  Named(x, q, l) \/ (x = s /\ q = n /\ l = k)
    <2>1. CASE \E f \in fetches' \cup ops' \cup execs' : f.sid = x /\ f.seq = q /\ f.kind = l
      BY <2>1 DEF Named
    <2>2. CASE Parked(x)' /\ worker'[x].seq = q /\ worker'[x].kind = l
      BY <2>2 DEF Named, Parked
    <2>3. CASE \E i \in DOMAIN ran'[x] : ran'[x][i].seq = q /\ ran'[x][i].kind = l
      BY <2>3 DEF Named
    <2> QED BY <1>2, <2>1, <2>2, <2>3 DEF Named
  <1>3. \A q \in Seqs, l \in Kinds : Named(s, q, l) => q < n
    BY <1>1, TransportAssumption DEF OneKind, Seqs
  <1>4. ASSUME NEW x \in Sids, NEW q \in Seqs, NEW l \in Kinds, Named(x, q, l)'
        PROVE  q <= worker'[x].seq /\ \A j \in Kinds : Named(x, q, j)' => j = l
    <2>0. q \in Nat
      BY TransportAssumption DEF Seqs
    <2>1. CASE x = s /\ q = n
      <3>1. \A j \in Kinds : ~ Named(x, q, j)
        BY <1>3, <2>0, <2>1
      <3>2. \A j \in Kinds : Named(x, q, j)' => j = k
        BY <1>2, <3>1
      <3> QED BY <1>4, <2>1, <3>2
    <2>2. CASE ~ (x = s /\ q = n)
      <3>1. \A j \in Kinds : Named(x, q, j)' => Named(x, q, j)
        BY <1>2, <2>2
      <3>2. worker[x].seq <= worker'[x].seq
        BY <1>1
      <3>3. q <= worker[x].seq /\ \A j \in Kinds : Named(x, q, j) => j = l
        BY <1>4, <3>1 DEF OneKind
      <3> QED BY <1>1, <2>0, <3>1, <3>2, <3>3
    <2> QED BY <2>1, <2>2
  <1> QED BY <1>4 DEF OneKind

\* A failed attempt is retried as the same call, or the program goes on.
LEMMA FailAttemptCalls ==
  ASSUME TypeOK, NEW s \in Sids, Parked(s), NEW rest \in SUBSET fetches, FailAttempt(s, rest)
  PROVE  SameCalls
  <1>1. worker \in [Sids -> WorkerRec] /\ worker[s] \in WorkerRec
    BY DEF TypeOK
  <1>2. \A x \in Sids : Parked(x) => Named(x, worker[x].seq, worker[x].kind)
    BY DEF Named
  <1>3. \A f \in rest : Named(f.sid, f.seq, f.kind)
    BY HeldNamed
  <1>4. CASE /\ worker' = [worker EXCEPT ![s].att = @ + 1]
             /\ fetches' = rest \cup {Request(s, worker[s].seq, worker[s].kind, worker[s].att + 1)}
    <2>1. \A x \in Sids : /\ worker'[x].seq = worker[x].seq /\ worker'[x].kind = worker[x].kind
                          /\ worker'[x].st = worker[x].st
      BY <1>1, <1>4 DEF WorkerRec
    <2>2. \A f \in fetches' : f \in rest \/ (f.sid = s /\ f.seq = worker[s].seq /\ f.kind = worker[s].kind)
      BY <1>4 DEF Request
    <2>3. \A f \in fetches' : Named(f.sid, f.seq, f.kind)
      BY <1>2, <1>3, <2>2
    <2> QED BY <1>2, <2>1, <2>3 DEF SameCalls, Parked
  <1>5. CASE worker' = [worker EXCEPT ![s].st = "run"] /\ fetches' = rest
    <2>1. \A x \in Sids : /\ worker'[x].seq = worker[x].seq /\ worker'[x].kind = worker[x].kind
                          /\ worker'[x].st # worker[x].st => worker'[x].st = "run"
      BY <1>1, <1>5 DEF WorkerRec
    <2>2. \A x \in Sids : Parked(x)' => Parked(x)
      BY <2>1 DEF Parked
    <2> QED BY <1>2, <1>3, <1>5, <2>1, <2>2 DEF SameCalls
  <1> QED BY <1>4, <1>5 DEF FailAttempt

\* A response that is not a 200 retries the call, or ends nothing.
LEMMA RefuseCalls ==
  ASSUME TypeOK, NEW f \in fetches, Refuse(f)
  PROVE  SameCalls
  <1>1. f.sid \in Sids
    BY DEF TypeOK, Fetch
  <1>2. CASE Current(f)
    BY <1>1, <1>2, FailAttemptCalls DEF Refuse, Current
  <1>3. CASE ~ Current(f)
    <2>1. \A x \in fetches' : Named(x.sid, x.seq, x.kind)
      BY <1>3, HeldNamed DEF Refuse
    <2>2. \A x \in Sids : Parked(x) => Named(x, worker[x].seq, worker[x].kind)
      BY DEF Named
    <2> QED BY <1>3, <2>1, <2>2 DEF Refuse, SameCalls, Parked
  <1> QED BY <1>2, <1>3

\* Nobody waits and nothing is fetched that was not before.
LEMMA QuietCalls ==
  ASSUME UNCHANGED worker, \A f \in fetches' : Named(f.sid, f.seq, f.kind)
  PROVE  SameCalls
BY DEF SameCalls, Named, Parked

\* A reply lets the thread go on, or is refused.
LEMMA SettleCalls ==
  ASSUME TypeOK, NEW p, NEW r, NEW q, NEW by \in Calls, Settle(p, r, q, by)
  PROVE  SameCalls
  <1>1. CASE Reaches(p) /\ Waiting(p, r) # {}
    <2>1. PICK f \in Waiting(p, r) :
            IF Current(f) /\ q = f.seq
            THEN /\ worker' = [worker EXCEPT ![f.sid] = [@ EXCEPT !.st = "run", !.got = by]]
                 /\ fetches' = fetches \ {f}
                 /\ UNCHANGED outbox
            ELSE Refuse(f)
      BY <1>1 DEF Settle
    <2>2. f \in fetches /\ f.sid \in Sids
      BY DEF Waiting, TypeOK, Fetch
    <2>3. CASE Current(f) /\ q = f.seq
      <3>1. worker[f.sid] \in WorkerRec /\ worker \in [Sids -> WorkerRec]
        BY <2>2 DEF TypeOK
      <3>2. worker' = [worker EXCEPT ![f.sid] = [worker[f.sid] EXCEPT !.st = "run", !.got = by]]
        BY <2>1, <2>3
      <3>3. worker'[f.sid].seq = worker[f.sid].seq /\ worker'[f.sid].st = "run"
        BY <2>2, <3>1, <3>2 DEF WorkerRec
      <3>4. \A x \in Sids : /\ worker'[x].seq = worker[x].seq
                            /\ Parked(x)' => Parked(x) /\ worker'[x] = worker[x]
        BY <3>1, <3>2, <3>3 DEF Parked
      <3>5. \A x \in fetches' : Named(x.sid, x.seq, x.kind)
        BY <2>1, <2>3, HeldNamed
      <3> QED BY <3>4, <3>5 DEF SameCalls, Named
    <2> QED BY <2>1, <2>2, <2>3, RefuseCalls
  <1>2. CASE ~ (Reaches(p) /\ Waiting(p, r) # {})
    BY <1>2, QuietCalls, HeldNamed DEF Settle
  <1> QED BY <1>1, <1>2

\* A worker's step mints at most one call, under the next number of its own.
LEMMA WorkerCalls ==
  ASSUME TypeOK, OneKind, NEW s \in Sids, WorkerStep(s)
  PROVE  OneKind'
  <1> USE DEF swVars, linkVars, hostVars, history
  <1>1. /\ worker \in [Sids -> WorkerRec] /\ worker[s] \in WorkerRec
        /\ worker[s].seq \in Nat /\ worker[s].seq + 1 \in Nat
    BY TransportAssumption DEF TypeOK, WorkerRec
  <1>2. \A m \in ops \cup execs : Named(m.sid, m.seq, m.kind)
    BY HeldNamed
  <1>3. CASE Enqueue(s)
    <2>1. SameCalls
      BY <1>3, QuietCalls, HeldNamed DEF Enqueue
    <2> QED BY <1>2, <1>3, <2>1, RanNamed, OneKindKept DEF Enqueue
  <1>4. ASSUME NEW k \in Kinds, SendSync(s, k)
        PROVE  OneKind'
    <2>1. /\ worker'[s].seq = worker[s].seq + 1 /\ worker'[s].kind = k
          /\ \A x \in Sids \ {s} : worker'[x] = worker[x]
      BY <1>1, <1>4 DEF SendSync
    <2>2. \A f \in fetches' \cup ops' :
            f \in fetches \cup ops \/ (f.sid = s /\ f.seq = worker[s].seq + 1 /\ f.kind = k)
      BY <1>4 DEF SendSync, Request
    <2> QED BY <1>1, <1>4, <2>1, <2>2, OneKindMinted DEF SendSync
  <1>5. ASSUME NEW k \in Kinds, SendAsync(s, k)
        PROVE  OneKind'
    <2>1. worker' = [worker EXCEPT ![s] = [worker[s] EXCEPT !.seq = worker[s].seq + 1, !.got = NoCall]]
      BY <1>5 DEF SendAsync
    <2>2. /\ worker'[s].seq = worker[s].seq + 1 /\ worker'[s].st = "run"
          /\ \A x \in Sids \ {s} : worker'[x] = worker[x]
      BY <1>1, <1>5, <2>1 DEF WorkerRec, SendAsync
    <2>3. \A f \in fetches' \cup ops' :
            f \in fetches \cup ops \/ (f.sid = s /\ f.seq = worker[s].seq + 1 /\ f.kind = k)
      BY <1>5 DEF SendAsync
    <2>4. ~ Parked(s)'
      BY <2>2 DEF Parked
    <2> QED BY <1>1, <1>5, <2>2, <2>3, <2>4, OneKindMinted DEF SendAsync
  <1>6. CASE XhrTimeout(s)
    <2>1. SameCalls
      BY <1>6, FailAttemptCalls DEF XhrTimeout
    <2> QED BY <1>2, <1>6, <2>1, RanNamed, OneKindKept DEF XhrTimeout
  <1>7. CASE NetworkError(s)
    <2>1. SameCalls
      BY <1>7, FailAttemptCalls DEF NetworkError
    <2> QED BY <1>2, <1>7, <2>1, RanNamed, OneKindKept DEF NetworkError
  <1> QED BY <1>3, <1>4, <1>5, <1>6, <1>7 DEF WorkerStep

\* The service worker passes calls on under their own numbers and kinds.
LEMMA ServiceWorkerCalls ==
  ASSUME TypeOK, OneKind, ServiceWorkerStep
  PROVE  OneKind' /\ UNCHANGED <<execs, record, ran>>
  <1> USE DEF workerVars, swVars, linkVars, hostVars, history
  <1>1. \A m \in ops \cup execs : Named(m.sid, m.seq, m.kind)
    BY HeldNamed
  <1>2. ASSUME NEW f \in fetches, NEW p, NEW r
        PROVE  /\ Named(f.sid, f.seq, f.kind)
               /\ Relayed(f, p, r).sid = f.sid /\ Relayed(f, p, r).seq = f.seq
               /\ Relayed(f, p, r).kind = f.kind
               /\ OpOf(Relayed(f, p, r)).sid = f.sid /\ OpOf(Relayed(f, p, r)).seq = f.seq
               /\ OpOf(Relayed(f, p, r)).kind = f.kind
    <2>1. f \in Fetch /\ Named(f.sid, f.seq, f.kind)
      BY HeldNamed DEF TypeOK
    <2> QED BY <2>1 DEF Fetch, Relayed, OpOf
  <1>3. ASSUME NEW f \in fetches, Relay(f)
        PROVE  OneKind' /\ UNCHANGED <<execs, record, ran>>
    <2> DEFINE r == Relayed(f, sessions[f.sid], nextSeq)
    <2>1. /\ fetches' \subseteq fetches \cup {r} /\ ops' = ops \cup {OpOf(r)}
          /\ UNCHANGED <<worker, execs, record, ran>>
      BY <1>3 DEF Relay
    <2>2. Named(r.sid, r.seq, r.kind) /\ Named(OpOf(r).sid, OpOf(r).seq, OpOf(r).kind)
      BY <1>2
    <2> HIDE DEF r
    <2>3. SameCalls
      BY <2>1, <2>2, QuietCalls, HeldNamed
    <2>4. \A m \in ops' \cup execs' : Named(m.sid, m.seq, m.kind)
      BY <1>1, <2>1, <2>2
    <2> QED BY <2>1, <2>3, <2>4, RanNamed, OneKindKept
  <1>4. ASSUME SameCalls, UNCHANGED <<ops, execs, record, ran>>
        PROVE  OneKind' /\ UNCHANGED <<execs, record, ran>>
    BY <1>1, <1>4, RanNamed, OneKindKept
  <1>5. ASSUME NEW f \in fetches, NEW st \in {"asking", "rescue"}, UNCHANGED worker,
               fetches' = (fetches \ {f}) \cup {[f EXCEPT !.st = st]}
        PROVE  SameCalls
    <2> DEFINE g == [f EXCEPT !.st = st]
    <2>1. f \in Fetch /\ Named(f.sid, f.seq, f.kind)
      BY HeldNamed DEF TypeOK
    <2>2. g.sid = f.sid /\ g.seq = f.seq /\ g.kind = f.kind
      BY <2>1 DEF Fetch
    <2> HIDE DEF g
    <2>3. \A x \in fetches' : Named(x.sid, x.seq, x.kind)
      BY <1>5, <2>1, <2>2, HeldNamed DEF g
    <2> QED BY <1>5, <2>3, QuietCalls
  <1>6. ASSUME NEW f \in fetches, LookupMiss(f)
        PROVE  OneKind' /\ UNCHANGED <<execs, record, ran>>
    <2>1. SameCalls
      BY <1>5, <1>6 DEF LookupMiss
    <2> QED BY <1>4, <1>6, <2>1 DEF LookupMiss
  <1>7. ASSUME NEW f \in fetches, Ask(f)
        PROVE  OneKind' /\ UNCHANGED <<execs, record, ran>>
    <2>1. SameCalls
      <3>1. CASE fetches' = (fetches \ {f}) \cup {[f EXCEPT !.st = "rescue"]} /\ UNCHANGED worker
        BY <1>5, <3>1
      <3>2. CASE Refuse(f)
        BY <3>2, RefuseCalls
      <3> QED BY <1>7, <3>1, <3>2 DEF Ask
    <2> QED BY <1>4, <1>7, <2>1 DEF Ask
  <1>8. ASSUME NEW f \in fetches, RescueTimeout(f) \/ Expire(f)
        PROVE  OneKind' /\ UNCHANGED <<execs, record, ran>>
    <2>1. CASE Relay(f)
      BY <1>3, <2>1
    <2>2. CASE Refuse(f) /\ UNCHANGED <<printed, inc, sessions, nextSeq, linkVars, hostVars, history>>
      BY <1>4, <2>2, RefuseCalls
    <2> QED BY <1>8, <2>1, <2>2 DEF RescueTimeout, Expire
  <1>9. CASE Adopt
    <2> DEFINE m == Head(swq)
               wait == Rescuing(m.sid)
               N(f) == nextSeq + Cardinality({g \in wait : Before(g, f)})
               go == {Relayed(f, m.port, N(f)) : f \in wait}
    <2>1. /\ fetches' = (fetches \ wait) \cup {f \in go : Current(f)}
          /\ ops' = ops \cup {OpOf(f) : f \in go}
          /\ UNCHANGED <<worker, execs, record, ran>>
      BY <1>9 DEF Adopt
    <2> HIDE DEF N
    <2>2. \A f \in go : Named(f.sid, f.seq, f.kind) /\ Named(OpOf(f).sid, OpOf(f).seq, OpOf(f).kind)
      BY <1>2 DEF Rescuing
    <2> HIDE DEF go, wait
    <2>3. SameCalls
      BY <2>1, <2>2, QuietCalls, HeldNamed
    <2>4. \A x \in ops' \cup execs' : Named(x.sid, x.seq, x.kind)
      BY <1>1, <2>1, <2>2
    <2> QED BY <2>1, <2>3, <2>4, RanNamed, OneKindKept
  <1>10. CASE Detach
    <2>1. SameCalls
      BY <1>10, QuietCalls, HeldNamed DEF Detach
    <2> QED BY <1>4, <1>10, <2>1 DEF Detach
  <1>11. CASE Evict
    <2>1. SameCalls
      BY <1>11, QuietCalls DEF Evict
    <2> QED BY <1>4, <1>11, <2>1 DEF Evict
  <1> QED BY <1>3, <1>6, <1>7, <1>8, <1>9, <1>10, <1>11 DEF ServiceWorkerStep, LookupHit

\* A call that completes is known by what it did.
LEMMA FinishRan ==
  ASSUME TypeOK, NEW e \in execs, Finish(e)
  PROVE  /\ e.sid \in Sids /\ e.seq \in Seqs /\ e.kind \in Kinds
         /\ \A s \in Sids \ {e.sid} : ran'[s] = ran[s]
         /\ Len(ran[e.sid]) \in Nat /\ DOMAIN ran[e.sid] = 1..Len(ran[e.sid])
         /\ DOMAIN ran'[e.sid] = 1..(Len(ran[e.sid]) + 1)
         /\ \A i \in 1..Len(ran[e.sid]) : ran'[e.sid][i] = ran[e.sid][i]
         /\ ran'[e.sid][Len(ran[e.sid]) + 1] = [seq |-> e.seq, kind |-> e.kind]
  <1> DEFINE c == [seq |-> e.seq, kind |-> e.kind]
  <1>1. e.sid \in Sids /\ e.seq \in Seqs /\ e.kind \in Kinds
    BY DEF TypeOK, Op
  <1>2. ran[e.sid] \in Seq(Completed) /\ c \in Completed /\ ran \in [Sids -> Seq(Completed)]
    BY <1>1 DEF TypeOK, Completed
  <1>3. ran' = [ran EXCEPT ![e.sid] = Append(ran[e.sid], c)]
    BY DEF Finish
  <1>4. ran'[e.sid] = Append(ran[e.sid], c) /\ \A s \in Sids \ {e.sid} : ran'[s] = ran[s]
    BY <1>1, <1>2, <1>3
  <1>5. /\ Len(ran[e.sid]) \in Nat /\ DOMAIN ran[e.sid] = 1..Len(ran[e.sid])
        /\ DOMAIN ran'[e.sid] = 1..(Len(ran[e.sid]) + 1)
        /\ \A i \in 1..Len(ran[e.sid]) : ran'[e.sid][i] = ran[e.sid][i]
        /\ ran'[e.sid][Len(ran[e.sid]) + 1] = c
    BY <1>2, <1>4, AppendProperties, LenProperties
  <1> QED BY <1>1, <1>4, <1>5

\* The page runs and answers what it was asked, and mints no call.
LEMMA PageCalls ==
  ASSUME TypeOK, OneKind, PageStep
  PROVE  OneKind'
  <1> USE DEF workerVars, swVars, linkVars, hostVars, history
  <1>0. worker \in [Sids -> WorkerRec]
    BY DEF TypeOK
  <1>1. /\ \A m \in ops \cup execs : Named(m.sid, m.seq, m.kind)
        /\ \A x \in Sids : Parked(x) => Named(x, worker[x].seq, worker[x].kind)
    BY HeldNamed DEF Named
  <1>2. ASSUME NEW s \in Sids, NEW st \in {"connecting", "run", "dead"},
               worker' = [worker EXCEPT ![s].st = st], fetches' \subseteq fetches
        PROVE  SameCalls
    <2>1. /\ worker'[s].seq = worker[s].seq /\ worker'[s].st = st
          /\ \A x \in Sids \ {s} : worker'[x] = worker[x]
      BY <1>0, <1>2 DEF WorkerRec
    <2>2. \A x \in Sids : Parked(x)' => Parked(x) /\ worker'[x] = worker[x]
      BY <2>1 DEF Parked
    <2> QED BY <1>1, <1>2, <2>1, <2>2, HeldNamed DEF SameCalls
  <1>3. ASSUME SameCalls, UNCHANGED <<ops, execs, ran>>
        PROVE  OneKind'
    BY <1>1, <1>3, RanNamed, OneKindKept
  <1>4. ASSUME UNCHANGED <<worker, fetches>>
        PROVE  SameCalls
    BY <1>4, QuietCalls, HeldNamed
  <1>5. ASSUME NEW s \in Sids, AttachSession(s)
        PROVE  OneKind'
    BY <1>2, <1>3, <1>5 DEF AttachSession
  <1>6. ASSUME NEW s \in Sids, Rescued(s) \/ ControllerChange(s)
        PROVE  OneKind'
    BY <1>3, <1>4, <1>6 DEF Rescued, ControllerChange
  <1>7. ASSUME NEW s \in Sids, Terminate(s)
        PROVE  OneKind'
    BY <1>2, <1>3, <1>7 DEF Terminate
  <1>8. ASSUME NEW p \in DOMAIN ports, Attached(p)
        PROVE  OneKind'
    <2>1. ports[p].sid \in Sids
      <3>1. ports[p] \in PortRec
        BY LenProperties DEF TypeOK
      <3> QED BY <3>1 DEF PortRec
    <2>2. SameCalls
      BY <1>2, <1>4, <1>8, <2>1 DEF Attached
    <2> QED BY <1>3, <1>8, <2>2 DEF Attached
  <1>9. ASSUME NEW p \in DOMAIN ports, Mismatched(p) \/ AttachTimeout(p)
        PROVE  OneKind'
    BY <1>3, <1>4, <1>9 DEF Mismatched, AttachTimeout
  <1>10. ASSUME NEW m \in ops, Answer(m)
         PROVE  OneKind'
    <2>1. \A x \in ops' \cup execs' : x \in ops \cup execs
      BY <1>10 DEF Answer
    <2>2. SameCalls
      <3> DEFINE hit == IF m.kind \in Recorded THEN Recall(m.sid, m.seq) ELSE {}
      <3>1. CASE hit = {}
        BY <1>4, <1>10, <3>1 DEF Answer
      <3>2. CASE hit # {}
        <4>1. PICK r \in hit : Settle(m.port, m.rseq, m.seq, r.by)
          BY <1>10, <3>2 DEF Answer
        <4>2. r \in Range(record[m.sid]) /\ m.sid \in Sids
          BY <4>1 DEF Recall, TypeOK, Op
        <4>3. PICK i \in DOMAIN record[m.sid] : r = record[m.sid][i]
          BY <4>2 DEF Range
        <4>4. record[m.sid] \in Seq(Remembered)
          BY <4>2 DEF TypeOK
        <4>5. r \in Remembered
          BY <4>3, <4>4, ElementOfSeq, LenProperties
        <4> QED BY <4>1, <4>5, SettleCalls DEF Remembered
      <3> QED BY <3>1, <3>2
    <2>3. UNCHANGED ran
      BY <1>10 DEF Answer
    <2> QED BY <1>1, <2>1, <2>2, <2>3, RanNamed, OneKindKept
  <1>11. ASSUME NEW m \in ops, LoseOp(m)
         PROVE  OneKind'
    <2>1. SameCalls /\ UNCHANGED ran /\ \A x \in ops' \cup execs' : x \in ops \cup execs
      BY <1>4, <1>11 DEF LoseOp
    <2> QED BY <1>1, <2>1, RanNamed, OneKindKept
  <1>12. ASSUME NEW e \in execs, Finish(e)
         PROVE  OneKind'
    <2>1. \A x \in ops' \cup execs' : x \in ops \cup execs
      BY <1>12 DEF Finish
    <2>2. SameCalls
      <3>1. <<e.sid, e.seq>> \in Calls
        BY <1>12, FinishRan DEF Calls
      <3> QED BY <1>12, <3>1, SettleCalls DEF Finish
    <2>3. SameRan
      <3> SUFFICES ASSUME NEW s \in Sids, NEW i \in DOMAIN ran'[s]
                   PROVE  Named(s, ran'[s][i].seq, ran'[s][i].kind)
        BY DEF SameRan
      <3>1. CASE i \in DOMAIN ran[s] /\ ran'[s][i] = ran[s][i]
        BY <3>1 DEF Named
      <3>2. CASE s = e.sid /\ ran'[s][i] = [seq |-> e.seq, kind |-> e.kind]
        <4>1. ran'[s][i].seq = e.seq /\ ran'[s][i].kind = e.kind
          BY <3>2
        <4> QED BY <1>12, <3>2, <4>1, HeldNamed
      <3>3. CASE s # e.sid
        <4>1. \A x \in Sids \ {e.sid} : ran'[x] = ran[x]
          BY <1>12, FinishRan
        <4>2. ran'[s] = ran[s]
          BY <3>3, <4>1
        <4> QED BY <3>1, <4>2
      <3>4. CASE s = e.sid
        <4>1. i \in 1..(Len(ran[s]) + 1) /\ Len(ran[s]) \in Nat
          BY <1>12, <3>4, FinishRan
        <4>2. CASE i = Len(ran[s]) + 1
          BY <1>12, <3>2, <3>4, <4>2, FinishRan
        <4>3. CASE i \in 1..Len(ran[s])
          BY <1>12, <3>1, <3>4, <4>3, FinishRan
        <4> QED BY <4>1, <4>2, <4>3
      <3> QED BY <3>3, <3>4
    <2> QED BY <1>1, <2>1, <2>2, <2>3, OneKindKept
  <1> QED BY <1>5, <1>6, <1>7, <1>8, <1>9, <1>10, <1>11, <1>12 DEF PageStep

-----------------------------------------------------------------------------
(* What the record has forgotten is long ago *)

\* The record holds at most ReplayWindow answers; behind an answer at place i of n, n - i
\* others completed; and a recorded call without an answer there has ReplayWindow behind it.
Window ==
  \A s \in Sids :
    /\ Len(record[s]) <= ReplayWindow
    /\ \A i \in DOMAIN record[s] : Since(s, record[s][i].seq) >= Len(record[s]) - i
    /\ \A i \in DOMAIN ran[s] :
         ran[s][i].kind \in Recorded /\ Recall(s, ran[s][i].seq) = {} =>
           Since(s, ran[s][i].seq) >= ReplayWindow

\* The completions that Since counts, among those of r.
After(r, q) ==
  {i \in DOMAIN r :
     /\ r[i].kind \in Recorded /\ r[i].seq # q
     /\ \E j \in DOMAIN r : j < i /\ r[j].seq = q}

\* Since counts a finite set.
LEMMA AfterCounts ==
  ASSUME NEW r \in Seq(Completed), NEW q
  PROVE  /\ Cardinality(After(r, q)) \in Nat /\ IsFiniteSet(After(r, q))
         /\ After(r, q) \subseteq 1..Len(r)
  <1>1. Len(r) \in Nat /\ DOMAIN r = 1..Len(r)
    BY LenProperties
  <1>2. After(r, q) \subseteq 1..Len(r)
    BY <1>1 DEF After
  <1>3. IsFiniteSet(1..Len(r))
    BY <1>1, FS_Interval
  <1>4. IsFiniteSet(After(r, q)) /\ Cardinality(After(r, q)) \in Nat
    BY <1>2, <1>3, FS_Subset, FS_CardinalityType
  <1> QED BY <1>2, <1>4

\* A completion makes no count smaller, and counts for the recorded calls that completed
\* before it.
LEMMA SinceFinish ==
  ASSUME TypeOK, TypeOK', NEW e \in execs, Finish(e), NEW q \in Seqs
  PROVE  /\ Since(e.sid, q) \in Nat /\ Since(e.sid, q)' \in Nat
         /\ Since(e.sid, q) <= Since(e.sid, q)'
         /\ e.kind \in Recorded /\ e.seq # q /\ HasRun(e.sid, q) =>
              Since(e.sid, q) + 1 <= Since(e.sid, q)'
  <1> DEFINE n == Len(ran[e.sid])
             A == After(ran[e.sid], q)
             B == After(ran'[e.sid], q)
  <1>1. /\ n \in Nat /\ DOMAIN ran[e.sid] = 1..n /\ DOMAIN ran'[e.sid] = 1..(n + 1)
        /\ \A i \in 1..n : ran'[e.sid][i] = ran[e.sid][i]
        /\ ran'[e.sid][n + 1].seq = e.seq /\ ran'[e.sid][n + 1].kind = e.kind
        /\ e.sid \in Sids
    <2>1. /\ n \in Nat /\ DOMAIN ran[e.sid] = 1..n /\ DOMAIN ran'[e.sid] = 1..(n + 1)
          /\ \A i \in 1..n : ran'[e.sid][i] = ran[e.sid][i]
          /\ e.sid \in Sids
      BY FinishRan
    <2>2. ran'[e.sid][n + 1] = [seq |-> e.seq, kind |-> e.kind]
      BY FinishRan
    <2> QED BY <2>1, <2>2
  <1>2. /\ Since(e.sid, q) = Cardinality(A) /\ Since(e.sid, q)' = Cardinality(B)
        /\ Since(e.sid, q) \in Nat /\ Since(e.sid, q)' \in Nat
        /\ IsFiniteSet(A) /\ IsFiniteSet(B) /\ A \subseteq 1..n
    <2>1. Since(e.sid, q) = Cardinality(A) /\ Since(e.sid, q)' = Cardinality(B)
      BY DEF Since, After
    <2>2. ran[e.sid] \in Seq(Completed) /\ ran'[e.sid] \in Seq(Completed)
      BY <1>1 DEF TypeOK
    <2> QED BY <2>1, <2>2, AfterCounts
  <1>3. A \subseteq B
    BY <1>1 DEF After
  <1>4. Cardinality(A) <= Cardinality(B)
    BY <1>2, <1>3, FS_Subset
  <1>5. ASSUME e.kind \in Recorded, e.seq # q, HasRun(e.sid, q)
        PROVE  Cardinality(A) + 1 <= Cardinality(B)
    <2>1. n + 1 \in B
      <3>1. PICK j \in 1..n : ran[e.sid][j].seq = q
        BY <1>1, <1>5 DEF HasRun
      <3>2. /\ j \in DOMAIN ran'[e.sid] /\ ran'[e.sid][j].seq = q /\ j < n + 1
            /\ n + 1 \in DOMAIN ran'[e.sid]
        BY <1>1, <3>1
      <3> HIDE DEF n
      <3> QED BY <1>1, <1>5, <3>2 DEF After
    <2>2. n + 1 \notin A
      BY <1>1, <1>2
    <2> HIDE DEF A, B
    <2>3. A \cup {n + 1} \subseteq B
      BY <1>3, <2>1
    <2>4. Cardinality(A \cup {n + 1}) = Cardinality(A) + 1
      BY <1>2, <2>2, FS_AddElement
    <2> QED BY <1>2, <2>3, <2>4, FS_Subset
  <1> HIDE DEF A, B
  <1> QED BY <1>2, <1>4, <1>5

\* remember adds an answer at the end, and drops the first of a full window.
LEMMA RememberShape ==
  ASSUME TypeOK, NEW e \in execs, Finish(e), NEW r, r = record[e.sid], Len(r) <= ReplayWindow,
         e.kind \in Recorded, \A i \in DOMAIN r : r[i].seq # e.seq
  PROVE  /\ Len(r) \in Nat /\ DOMAIN r = 1..Len(r)
         /\ \E d \in {0, 1} :
              /\ d = 1 => Len(r) = ReplayWindow
              /\ Len(record'[e.sid]) = Len(r) + 1 - d /\ Len(record'[e.sid]) <= ReplayWindow
              /\ DOMAIN record'[e.sid] = 1..(Len(r) + 1 - d)
              /\ \A i \in 1..(Len(r) - d) : record'[e.sid][i] = r[i + d]
              /\ record'[e.sid][Len(r) + 1 - d].seq = e.seq
  <1> DEFINE entry == [seq |-> e.seq, by |-> <<e.sid, e.seq>>]
             w == Append(r, entry)
  <1>1. e.sid \in Sids /\ r \in Seq(Remembered) /\ entry \in Remembered /\ entry.seq = e.seq
    BY FinishRan DEF TypeOK, Remembered, Calls
  <1>2. record'[e.sid] = IF Len(w) > ReplayWindow THEN Tail(w) ELSE w
    <2>1. Recall(e.sid, e.seq) = {}
      BY DEF Recall, Range
    <2>2. record' = [record EXCEPT ![e.sid] = Remember(e.sid, e.seq, <<e.sid, e.seq>>)]
      BY DEF Finish
    <2>3. record'[e.sid] = Remember(e.sid, e.seq, <<e.sid, e.seq>>)
      BY <1>1, <2>2 DEF TypeOK
    <2> QED BY <2>1, <2>3 DEF Remember
  <1> HIDE DEF entry
  <1>3. /\ Len(r) \in Nat /\ DOMAIN r = 1..Len(r)
        /\ w \in Seq(Remembered) /\ w # <<>> /\ Len(w) = Len(r) + 1
        /\ \A i \in 1..Len(r) : w[i] = r[i]
        /\ w[Len(r) + 1] = entry
    BY <1>1, AppendProperties, LenProperties
  <1> HIDE DEF w
  <1>4. /\ DOMAIN w = 1..Len(w)
        /\ Len(Tail(w)) = Len(w) - 1 /\ DOMAIN Tail(w) = 1..(Len(w) - 1)
        /\ \A i \in 1..(Len(w) - 1) : Tail(w)[i] = w[i + 1]
    BY <1>3, HeadTailProperties, LenProperties
  <1>5. CASE Len(w) > ReplayWindow
    <2>1. Len(r) = ReplayWindow
      BY <1>3, <1>5, TransportAssumption
    <2>2. /\ record'[e.sid] = Tail(w) /\ Len(Tail(w)) = Len(r) + 1 - 1
          /\ DOMAIN Tail(w) = 1..(Len(r) + 1 - 1)
          /\ \A i \in 1..(Len(r) - 1) : Tail(w)[i] = r[i + 1]
          /\ Tail(w)[Len(r) + 1 - 1].seq = e.seq
      BY <1>1, <1>2, <1>3, <1>4, <1>5, <2>1, TransportAssumption
    <2>3. Len(record'[e.sid]) <= ReplayWindow
      BY <1>3, <2>1, <2>2
    <2> QED BY <1>3, <2>1, <2>2, <2>3
  <1>6. CASE ~ (Len(w) > ReplayWindow)
    <2>1. /\ record'[e.sid] = w /\ Len(w) = Len(r) + 1 - 0
          /\ DOMAIN w = 1..(Len(r) + 1 - 0)
          /\ \A i \in 1..(Len(r) - 0) : w[i] = r[i + 0]
          /\ w[Len(r) + 1 - 0].seq = e.seq
      BY <1>1, <1>2, <1>3, <1>4, <1>6
    <2>2. Len(record'[e.sid]) <= ReplayWindow
      BY <1>3, <1>6, <2>1, TransportAssumption
    <2> QED BY <1>3, <2>1, <2>2
  <1> QED BY <1>5, <1>6

\* Only a completion moves the record and what completed.
LEMMA WindowKept ==
  ASSUME Window, UNCHANGED <<record, ran>>
  PROVE  Window'
BY DEF Window, Since, Recall

\* A completion moves every answer one place on and adds its own.
LEMMA WindowFinish ==
  ASSUME TypeOK, TypeOK', RecordTrue, Window, NEW e \in execs, Finish(e)
  PROVE  Window'
  <1> DEFINE z == e.sid
             n == Len(ran[z])
             r == record[z]
             Was(q) == Cardinality(After(ran[z], q))
             Now(q) == Cardinality(After(ran'[z], q))
  <1>0. \A q : Was(q) = Since(z, q) /\ Now(q) = Since(z, q)'
    BY DEF Since, After
  <1> HIDE DEF Was, Now
  <1>1. /\ z \in Sids /\ e.seq \in Seqs /\ n \in Nat
        /\ DOMAIN ran[z] = 1..n /\ DOMAIN ran'[z] = 1..(n + 1)
        /\ \A i \in 1..n : ran'[z][i] = ran[z][i]
        /\ \A s \in Sids \ {z} : ran'[s] = ran[s]
    BY FinishRan
  <1>2. ran'[z][n + 1].seq = e.seq /\ ran'[z][n + 1].kind = e.kind
    <2>1. ran'[z][n + 1] = [seq |-> e.seq, kind |-> e.kind]
      BY FinishRan
    <2> QED BY <2>1
  <1>3. /\ \A i \in DOMAIN r : r[i].seq \in Seqs /\ HasRun(z, r[i].seq)
        /\ \A i \in 1..n : ran[z][i].seq \in Seqs /\ HasRun(z, ran[z][i].seq)
    <2>1. \A i \in DOMAIN r : r[i] \in Remembered
      BY <1>1, ElementOfSeq, LenProperties DEF TypeOK
    <2>2. \A i \in 1..n : ran[z][i] \in Completed
      BY <1>1, ElementOfSeq, LenProperties DEF TypeOK
    <2> QED BY <1>1, <2>1, <2>2 DEF RecordTrue, HasRun, Remembered, Completed
  <1>4. /\ \A q \in Seqs : /\ Was(q) \in Nat /\ Now(q) \in Nat
                           /\ Was(q) <= Now(q)
        /\ \A q \in Seqs : e.kind \in Recorded /\ e.seq # q /\ HasRun(z, q) =>
                             Was(q) + 1 <= Now(q)
    BY <1>0, SinceFinish
  <1>5. /\ Len(r) \in Nat /\ DOMAIN r = 1..Len(r) /\ Len(r) <= ReplayWindow
        /\ \A i \in 1..Len(r) : Was(r[i].seq) >= Len(r) - i
        /\ \A i \in 1..n : ran[z][i].kind \in Recorded /\ Recall(z, ran[z][i].seq) = {} =>
                             Was(ran[z][i].seq) >= ReplayWindow
    <2>1. Len(r) \in Nat /\ DOMAIN r = 1..Len(r)
      BY <1>1, LenProperties DEF TypeOK
    <2> QED BY <1>0, <1>1, <2>1 DEF Window
  <1>6. ASSUME NEW s \in Sids \ {z}
        PROVE  /\ Len(record[s])' <= ReplayWindow
               /\ \A i \in DOMAIN record'[s] : Since(s, record[s][i].seq)' >= Len(record'[s]) - i
               /\ \A i \in DOMAIN ran'[s] :
                    ran'[s][i].kind \in Recorded /\ Recall(s, ran[s][i].seq)' = {} =>
                      Since(s, ran[s][i].seq)' >= ReplayWindow
    <2>1. record'[s] = record[s] /\ ran'[s] = ran[s]
      BY <1>1, <1>6 DEF Finish, TypeOK
    <2> QED BY <2>1 DEF Window, Since, Recall
  <1>7. \A q : Recall(z, q)' = {} <=> \A i \in DOMAIN record'[z] : record'[z][i].seq # q
    BY DEF Recall, Range
  <1>8. \A q : Recall(z, q) = {} <=> \A i \in 1..Len(r) : r[i].seq # q
    BY <1>5 DEF Recall, Range
  <1> DEFINE r1 == record'[z]
             OK == /\ Len(r1) <= ReplayWindow
                   /\ \A i \in DOMAIN r1 : Now(r1[i].seq) >= Len(r1) - i
                   /\ \A i \in 1..(n + 1) :
                        /\ ran'[z][i].kind \in Recorded
                        /\ \A j \in DOMAIN r1 : r1[j].seq # ran'[z][i].seq
                        => Now(ran'[z][i].seq) >= ReplayWindow
  <1> HIDE DEF n, r
  <1>9. ASSUME r1 = r, e.kind \in Recorded => Recall(z, e.seq) # {}
        PROVE  OK
    <2> HIDE DEF r1
    <2>1. ASSUME NEW i \in 1..Len(r)
          PROVE  Now(r[i].seq) >= Len(r) - i
      <3>1. r[i].seq \in Seqs /\ Was(r[i].seq) >= Len(r) - i
        BY <1>3, <1>5
      <3>2. Now(r[i].seq) >= Was(r[i].seq)
        BY <1>4, <3>1
      <3> QED BY <1>4, <1>5, <3>1, <3>2
    <2>2. ASSUME NEW i \in 1..(n + 1), ran'[z][i].kind \in Recorded,
                 \A j \in 1..Len(r) : r[j].seq # ran'[z][i].seq
          PROVE  Now(ran'[z][i].seq) >= ReplayWindow
      <3>1. i # n + 1
        BY <1>2, <1>8, <1>9, <2>2
      <3>2. i \in 1..n /\ ran'[z][i] = ran[z][i]
        BY <1>1, <3>1
      <3>3. ran[z][i].seq \in Seqs /\ Was(ran[z][i].seq) >= ReplayWindow
        BY <1>3, <1>5, <1>8, <2>2, <3>2
      <3>4. Now(ran[z][i].seq) >= Was(ran[z][i].seq)
        BY <1>4, <3>3
      <3>5. Now(ran[z][i].seq) >= ReplayWindow
        BY <1>4, <3>3, <3>4, TransportAssumption
      <3> QED BY <3>2, <3>5
    <2> QED BY <1>5, <1>9, <2>1, <2>2
  <1>10. ASSUME e.kind \in Recorded, Recall(z, e.seq) = {}
         PROVE  OK
    <2>1. \A i \in DOMAIN r : r[i].seq # e.seq
      BY <1>5, <1>8, <1>10
    <2>2. PICK d \in {0, 1} :
            /\ d = 1 => Len(r) = ReplayWindow
            /\ Len(r1) = Len(r) + 1 - d /\ Len(r1) <= ReplayWindow
            /\ DOMAIN r1 = 1..(Len(r) + 1 - d)
            /\ \A i \in 1..(Len(r) - d) : r1[i] = r[i + d]
            /\ r1[Len(r) + 1 - d].seq = e.seq
      BY <1>5, <1>10, <2>1, RememberShape DEF r
    <2> HIDE DEF r1
    <2>3. \A i \in 1..Len(r) : Now(r[i].seq) >= Len(r) - i + 1 /\ Now(r[i].seq) \in Nat
      <3> TAKE i \in 1..Len(r)
      <3>1. r[i].seq \in Seqs /\ HasRun(z, r[i].seq) /\ r[i].seq # e.seq
        BY <1>3, <1>5, <2>1
      <3>2. Was(r[i].seq) + 1 <= Now(r[i].seq)
        BY <1>4, <1>10, <3>1
      <3>3. /\ Was(r[i].seq) \in Nat /\ Now(r[i].seq) \in Nat
            /\ Was(r[i].seq) >= Len(r) - i
        BY <1>4, <1>5, <3>1
      <3> QED BY <1>5, <3>2, <3>3
    <2>4. ASSUME NEW i \in DOMAIN r1
          PROVE  Now(r1[i].seq) >= Len(r1) - i
      <3>1. CASE i = Len(r) + 1 - d
        <4>1. r1[i].seq = e.seq /\ Len(r1) - i = 0
          BY <1>5, <2>2, <3>1
        <4>2. Now(e.seq) \in Nat
          BY <1>1, <1>4
        <4>3. Now(e.seq) >= 0
          BY <4>2
        <4> QED BY <4>1, <4>3
      <3>2. CASE i \in 1..(Len(r) - d)
        <4>1. r1[i] = r[i + d] /\ i + d \in 1..Len(r) /\ Len(r1) - i = Len(r) - (i + d) + 1
          BY <1>5, <2>2, <3>2
        <4>2. Now(r[i + d].seq) >= Len(r) - (i + d) + 1
          BY <2>3, <4>1
        <4> QED BY <4>1, <4>2
      <3> QED BY <1>5, <2>2, <3>1, <3>2
    <2>5. ASSUME NEW i \in 1..(n + 1), ran'[z][i].kind \in Recorded,
                 \A j \in DOMAIN r1 : r1[j].seq # ran'[z][i].seq
          PROVE  Now(ran'[z][i].seq) >= ReplayWindow
      <3>1. ran'[z][i].seq # e.seq
        <4>1. Len(r) + 1 - d \in DOMAIN r1
          <5>1. d = 0 \/ Len(r) >= 1
            BY <2>2, TransportAssumption
          <5>2. Len(r) + 1 - d >= 1
            BY <1>5, <5>1
          <5> QED BY <1>5, <2>2, <5>2
        <4>2. r1[Len(r) + 1 - d].seq # ran'[z][i].seq
          BY <2>5, <4>1
        <4> QED BY <2>2, <4>2
      <3>2. i \in 1..n /\ ran'[z][i] = ran[z][i]
        <4>1. i # n + 1
          BY <1>2, <3>1
        <4> QED BY <1>1, <4>1
      <3> DEFINE q == ran[z][i].seq
      <3>3. q \in Seqs /\ HasRun(z, q) /\ ran[z][i].kind \in Recorded
        BY <1>3, <2>5, <3>2
      <3>4. CASE \A j \in 1..Len(r) : r[j].seq # q
        <4>1. Was(q) >= ReplayWindow
          BY <1>5, <1>8, <3>2, <3>3, <3>4
        <4>2. Now(q) >= Was(q) /\ Was(q) \in Nat /\ Now(q) \in Nat
          BY <1>4, <3>3
        <4>3. Now(q) >= ReplayWindow
          BY <4>1, <4>2, TransportAssumption
        <4> QED BY <3>2, <4>3
      <3>5. ASSUME NEW j \in 1..Len(r), r[j].seq = q
            PROVE  Now(ran'[z][i].seq) >= ReplayWindow
        <4>1. j - d \notin 1..(Len(r) - d)
          <5>1. j - d \in 1..(Len(r) - d) => j - d \in DOMAIN r1 /\ r1[j - d] = r[(j - d) + d]
            BY <1>5, <2>2
          <5>2. (j - d) + d = j
            BY <1>5
          <5> QED BY <2>5, <3>2, <3>5, <5>1, <5>2
        <4>2. d = 1 /\ j = 1 /\ Len(r) = ReplayWindow
          BY <1>5, <2>2, <4>1
        <4>3. Now(r[j].seq) >= ReplayWindow
          BY <1>5, <2>3, <4>2, TransportAssumption
        <4> QED BY <3>2, <3>5, <4>3
      <3> QED BY <3>4, <3>5
    <2> QED BY <2>2, <2>4, <2>5
  <1>11. OK
    <2>1. r1 = r \/ (e.kind \in Recorded /\ Recall(z, e.seq) = {})
      <3>1. record \in [Sids -> Seq(Remembered)]
        BY DEF TypeOK
      <3> QED BY <1>1, <3>1 DEF Finish, Remember, r
    <2>2. (e.kind \in Recorded /\ Recall(z, e.seq) # {}) \/ e.kind \notin Recorded => r1 = r
      BY <2>1
    <2> HIDE DEF r1, OK
    <2> QED BY <1>9, <1>10, <2>1, <2>2
  <1>12. /\ \A i \in DOMAIN record'[z] : Since(z, record[z][i].seq)' >= Len(record'[z]) - i
         /\ \A i \in DOMAIN ran'[z] :
              ran'[z][i].kind \in Recorded /\ Recall(z, ran[z][i].seq)' = {} =>
                Since(z, ran[z][i].seq)' >= ReplayWindow
    <2>1. ASSUME NEW i \in DOMAIN record'[z]
          PROVE  Since(z, record[z][i].seq)' >= Len(record'[z]) - i
      <3>1. Since(z, record[z][i].seq)' = Now(record'[z][i].seq)
        BY DEF Now, Since, After
      <3> QED BY <1>11, <3>1
    <2>2. ASSUME NEW i \in DOMAIN ran'[z], ran'[z][i].kind \in Recorded,
                 Recall(z, ran[z][i].seq)' = {}
          PROVE  Since(z, ran[z][i].seq)' >= ReplayWindow
      <3>1. Since(z, ran[z][i].seq)' = Now(ran'[z][i].seq)
        BY DEF Now, Since, After
      <3>2. \A j \in DOMAIN r1 : r1[j].seq # ran'[z][i].seq
        BY <2>2 DEF Recall, Range
      <3> QED BY <1>1, <1>11, <2>2, <3>1, <3>2
    <2> QED BY <2>1, <2>2
  <1> HIDE DEF z
  <1> QED BY <1>6, <1>11, <1>12 DEF Window

-----------------------------------------------------------------------------
(* The theorem *)

\* A step that begins a recorded call which has completed begins one that the record has
\* forgotten.
LEMMA RerunsForgotten ==
  ASSUME TypeOK, OneKind, Window, Next, NEW e \in execs' \ execs, e.kind \in Recorded,
         HasRun(e.sid, e.seq)
  PROVE  Since(e.sid, e.seq) >= ReplayWindow
  <1> USE DEF workerVars, swVars, linkVars, hostVars, history
  <1>1. ASSUME NEW s \in Sids, WorkerStep(s)
        PROVE  execs' = execs
    BY <1>1 DEF WorkerStep, Enqueue, SendSync, SendAsync, XhrTimeout, NetworkError
  <1>2. CASE ServiceWorkerStep
    BY <1>2, ServiceWorkerCalls
  <1>3. ASSUME NEW m \in ops, Answer(m)
        PROVE  Since(e.sid, e.seq) >= ReplayWindow
    <2>1. e = m /\ Recall(e.sid, e.seq) = {}
      BY <1>3 DEF Answer
    <2>2. e.sid \in Sids /\ e.seq \in Seqs /\ e.kind \in Kinds /\ Named(e.sid, e.seq, e.kind)
      BY <2>1, HeldNamed DEF TypeOK, Op
    <2>3. PICK i \in DOMAIN ran[e.sid] : ran[e.sid][i].seq = e.seq
      BY DEF HasRun
    <2>4. ran[e.sid] \in Seq(Completed)
      BY <2>2 DEF TypeOK
    <2>5. ran[e.sid][i].kind \in Kinds
      <3>1. ran[e.sid][i] \in Completed
        BY <2>4, ElementOfSeq, LenProperties
      <3> QED BY <3>1 DEF Completed
    <2>6. Named(e.sid, e.seq, ran[e.sid][i].kind)
      BY <2>3 DEF Named
    <2>7. ran[e.sid][i].kind = e.kind
      BY <2>2, <2>5, <2>6 DEF OneKind
    <2> QED BY <2>1, <2>2, <2>3, <2>7 DEF Window
  <1>4. CASE PageStep
    <2>1. execs' \subseteq execs \/ \E m \in ops : Answer(m)
      <3>1. ASSUME NEW s \in Sids,
                   AttachSession(s) \/ Rescued(s) \/ ControllerChange(s) \/ Terminate(s)
            PROVE  execs' = execs
        BY <3>1 DEF AttachSession, Rescued, ControllerChange, Terminate
      <3>2. ASSUME NEW p \in DOMAIN ports, Attached(p) \/ Mismatched(p) \/ AttachTimeout(p)
            PROVE  execs' = execs
        BY <3>2 DEF Attached, Mismatched, AttachTimeout
      <3>3. ASSUME NEW m \in ops, LoseOp(m)
            PROVE  execs' = execs
        BY <3>3 DEF LoseOp
      <3>4. ASSUME NEW x \in execs, Finish(x)
            PROVE  execs' \subseteq execs
        BY <3>4 DEF Finish
      <3> QED BY <1>4, <3>1, <3>2, <3>3, <3>4 DEF PageStep
    <2> QED BY <1>3, <2>1
  <1> QED BY <1>1, <1>2, <1>4 DEF Next

\* Every step keeps the record in its bounds.
LEMMA ReplayStep ==
  ASSUME TypeOK, TypeOK', RecordTrue, OneKind, Window, [Next]_vars
  PROVE  OneKind' /\ Window'
  <1> USE DEF workerVars, swVars, linkVars, hostVars, history
  <1>1. ASSUME NEW s \in Sids, WorkerStep(s)
        PROVE  OneKind' /\ Window'
    <2>1. UNCHANGED <<record, ran>>
      BY <1>1 DEF WorkerStep, Enqueue, SendSync, SendAsync, XhrTimeout, NetworkError
    <2> QED BY <1>1, <2>1, WorkerCalls, WindowKept
  <1>2. CASE ServiceWorkerStep
    BY <1>2, ServiceWorkerCalls, WindowKept
  <1>3. CASE PageStep
    <2>1. UNCHANGED <<record, ran>> \/ \E e \in execs : Finish(e)
      <3>1. ASSUME NEW s \in Sids,
                   AttachSession(s) \/ Rescued(s) \/ ControllerChange(s) \/ Terminate(s)
            PROVE  UNCHANGED <<record, ran>>
        BY <3>1 DEF AttachSession, Rescued, ControllerChange, Terminate
      <3>2. ASSUME NEW p \in DOMAIN ports, Attached(p) \/ Mismatched(p) \/ AttachTimeout(p)
            PROVE  UNCHANGED <<record, ran>>
        BY <3>2 DEF Attached, Mismatched, AttachTimeout
      <3>3. ASSUME NEW m \in ops, Answer(m) \/ LoseOp(m)
            PROVE  UNCHANGED <<record, ran>>
        BY <3>3 DEF Answer, LoseOp
      <3> QED BY <1>3, <3>1, <3>2, <3>3 DEF PageStep
    <2>2. Window'
      BY <2>1, WindowKept, WindowFinish
    <2> QED BY <1>3, <2>2, PageCalls
  <1>4. CASE UNCHANGED vars
    BY <1>4, WindowKept DEF vars, OneKind, Named, Parked
  <1> QED BY <1>1, <1>2, <1>3, <1>4 DEF Next

\* The exactly-once that the reply record gives (wire/replay.ts): a recorded call that has
\* completed is run again only after ReplayWindow other calls of its session have completed.
THEOREM RerunsArePastWindow == Spec => RerunOnlyPastWindow
  <1>1. Init => OneKind /\ Window
    BY EmptySeq, TransportAssumption DEF Init, OneKind, Named, Parked, Window
  <1>2. TypeOK /\ TypeOK' /\ RecordTrue /\ OneKind /\ Window /\ [Next]_vars => OneKind' /\ Window'
    BY ReplayStep
  <1>3. RoutingInv => TypeOK /\ RecordTrue
    BY DEF RoutingInv
  <1>4. TypeOK /\ OneKind /\ Window /\ [Next]_vars =>
          [\A e \in execs' \ execs :
             e.kind \in Recorded /\ HasRun(e.sid, e.seq) => Since(e.sid, e.seq) >= ReplayWindow]_vars
    BY RerunsForgotten
  <1> QED BY <1>1, <1>2, <1>3, <1>4, RoutingCorrect, PTL DEF Spec, RerunOnlyPastWindow

-----------------------------------------------------------------------------
(* A session is not left with a port that was given up *)

\* The page has told the service worker of port p, and it has not heard it yet.
Announced(p) == \E i \in DOMAIN swq : swq[i].t = "attach" /\ swq[i].port = p

\* A port is adopted unless its notice is still on its way; ports are adopted in the
\* order they were minted; and one that was closed before its last attempt has a
\* successor for the same session.
PortsInOrder ==
  /\ \A p \in DOMAIN ports : ports[p].inc = 0 => Announced(p)
  /\ \A p, q \in DOMAIN ports :
       p < q /\ ports[p].inc # 0 /\ ports[q].inc # 0 => ports[p].inc <= ports[q].inc
  /\ \A p \in DOMAIN ports :
       ports[p].st = "closed" /\ ports[p].att # AttachAttempts =>
         \E q \in DOMAIN ports : p < q /\ ports[q].sid = ports[p].sid

\* What a reader of the ports and the notices may rely on.
LEMMA PortTypes ==
  ASSUME TypeOK
  PROVE  /\ Len(ports) \in Nat /\ DOMAIN ports = 1..Len(ports)
         /\ \A p \in DOMAIN ports : ports[p] \in PortRec /\ ports[p].inc \in Nat /\ p \in Nat
         /\ Len(swq) \in Nat /\ DOMAIN swq = 1..Len(swq)
         /\ inc \in Nat \ {0}
  <1>1. \A p \in DOMAIN ports : ports[p] \in PortRec
    BY LenProperties DEF TypeOK
  <1>2. \A p \in DOMAIN ports : ports[p].inc \in Nat
    BY <1>1, TransportAssumption DEF PortRec
  <1>3. /\ Len(ports) \in Nat /\ DOMAIN ports = 1..Len(ports)
        /\ Len(swq) \in Nat /\ DOMAIN swq = 1..Len(swq)
    BY LenProperties DEF TypeOK
  <1>4. inc \in Nat \ {0}
    BY TransportAssumption DEF TypeOK
  <1> QED BY <1>1, <1>2, <1>3, <1>4

\* The order of the ports gives a session with a closed port its successor.
LEMMA OrderMeansLast ==
  ASSUME TypeOK, PortsLinked, NewestPort, PortsInOrder
  PROVE  ClosedPortIsLast
  <1> SUFFICES ASSUME NEW s \in Sids, sessions[s] # NoPort, ports[sessions[s]].st = "closed",
                      ports[sessions[s]].att # AttachAttempts
               PROVE  \E i \in DOMAIN swq : swq[i].t = "attach" /\ swq[i].sid = s
    BY DEF ClosedPortIsLast, Shut
  <1> DEFINE p == sessions[s]
  <1>1. p \in DOMAIN ports /\ ports[p].sid = s /\ ports[p].inc = inc
    BY DEF PortsLinked
  <1>2. PICK q \in DOMAIN ports : p < q /\ ports[q].sid = s
    BY <1>1 DEF PortsInOrder
  <1>3. ports[q].inc = 0
    <2> SUFFICES ASSUME ports[q].inc # 0 PROVE FALSE
      OBVIOUS
    <2>1. ports[q].inc = inc
      BY <1>1, <1>2, PortTypes DEF PortsInOrder, PortsLinked
    <2>2. Reaches(q)
      BY <2>1, PortTypes, TransportAssumption DEF Reaches
    <2>3. q <= p
      BY <1>2, <2>2 DEF NewestPort
    <2> QED BY <1>1, <1>2, <2>3, PortTypes
  <1>4. PICK i \in DOMAIN swq : swq[i].t = "attach" /\ swq[i].port = q
    BY <1>3 DEF PortsInOrder, Announced
  <1>5. swq[i].sid = s
    BY <1>2, <1>4 DEF PortsLinked, NoticeLinked
  <1> QED BY <1>4, <1>5

\* Notices are only added: what was announced stays so.
LEMMA OrderKept ==
  ASSUME TypeOK, PortsInOrder, UNCHANGED ports,
         swq' = swq \/ (\E n \in Notice : swq' = Append(swq, n))
  PROVE  PortsInOrder'
  <1>1. \A p \in DOMAIN ports : Announced(p) => Announced(p)'
    <2>1. CASE swq' = swq
      BY <2>1 DEF Announced
    <2>2. ASSUME NEW n \in Notice, swq' = Append(swq, n)
          PROVE  \A p \in DOMAIN ports : Announced(p) => Announced(p)'
      <3>1. \A i \in DOMAIN swq : i \in DOMAIN swq' /\ swq'[i] = swq[i]
        BY <2>2, AppendProperties, LenProperties, PortTypes DEF TypeOK
      <3> QED BY <3>1 DEF Announced
    <2> QED BY <2>1, <2>2
  <1> QED BY <1>1 DEF PortsInOrder

\* A port changes its own state: it is closed only after the last attempt.
LEMMA OrderOfSamePorts ==
  ASSUME TypeOK, PortsInOrder, NEW q, SamePorts(q), ports' = q, UNCHANGED swq,
         \A p \in DOMAIN ports :
           /\ q[p].att = ports[p].att
           /\ q[p].st = "closed" => ports[p].st = "closed" \/ ports[p].att = AttachAttempts
  PROVE  PortsInOrder'
  <1>1. DOMAIN ports' = DOMAIN ports
    BY LenProperties DEF SamePorts, TypeOK
  <1> QED BY <1>1 DEF PortsInOrder, SamePorts, Announced

\* A port is minted and announced, and the one it replaces may be closed.
LEMMA OrderMinted ==
  ASSUME TypeOK, PortsInOrder, NEW q, SamePorts(q), NEW r \in PortRec, r.inc = 0,
         r.st = "handshake", ports' = Append(q, r),
         swq' = Append(swq, [t |-> "attach", sid |-> r.sid, port |-> Len(ports) + 1]),
         Len(ports) + 1 \in Ports,
         \A p \in DOMAIN ports :
           /\ q[p].att = ports[p].att
           /\ q[p].st = "closed" => ports[p].st = "closed" \/ ports[p].sid = r.sid
  PROVE  PortsInOrder'
  <1> DEFINE n == [t |-> "attach", sid |-> r.sid, port |-> Len(ports) + 1]
             L == Len(ports)
  <1>1. n \in Notice
    BY DEF Notice, PortRec
  <1>2. /\ \A i \in DOMAIN swq : i \in DOMAIN swq' /\ swq'[i] = swq[i]
        /\ Len(swq) + 1 \in DOMAIN swq' /\ swq'[Len(swq) + 1] = n
    BY <1>1, AppendProperties, LenProperties, PortTypes DEF TypeOK
  <1>3. /\ DOMAIN ports' = 1..(L + 1) /\ DOMAIN ports = 1..L /\ L \in Nat
        /\ \A p \in 1..L : /\ ports'[p].sid = ports[p].sid /\ ports'[p].inc = ports[p].inc
                           /\ ports'[p].att = q[p].att /\ ports'[p].st = q[p].st
        /\ ports'[L + 1] = r
    <2>1. Len(q) = L /\ DOMAIN q = 1..L /\ DOMAIN ports = 1..L
      BY LenProperties DEF TypeOK, SamePorts
    <2>2. /\ ports' \in Seq(PortRec) /\ Len(ports') = L + 1 /\ ports'[L + 1] = r
          /\ \A p \in 1..L : ports'[p] = q[p]
      BY <2>1, AppendProperties DEF SamePorts
    <2> QED BY <2>1, <2>2, LenProperties, PortTypes DEF SamePorts
  <1>4. /\ \A p \in 1..L : Announced(p) => Announced(p)'
        /\ \A p : p = L + 1 => Announced(p)'
    BY <1>2, <1>3 DEF Announced
  <1> HIDE DEF L, n
  <1>5. \A p \in DOMAIN ports' : ports'[p].inc = 0 => Announced(p)'
    BY <1>3, <1>4 DEF PortsInOrder
  <1>6. \A x, y \in DOMAIN ports' :
          x < y /\ ports'[x].inc # 0 /\ ports'[y].inc # 0 => ports'[x].inc <= ports'[y].inc
    BY <1>3 DEF PortsInOrder
  <1>7. ASSUME NEW p \in DOMAIN ports', ports'[p].st = "closed", ports'[p].att # AttachAttempts
        PROVE  \E x \in DOMAIN ports' : p < x /\ ports'[x].sid = ports'[p].sid
    <2>1. p \in 1..L /\ p < L + 1
      BY <1>3, <1>7
    <2>2. CASE ports[p].sid = r.sid
      BY <1>3, <2>1, <2>2
    <2>3. CASE ports[p].sid # r.sid
      <3>1. ports[p].st = "closed" /\ ports[p].att # AttachAttempts
        BY <1>3, <1>7, <2>1, <2>3
      <3>2. PICK x \in DOMAIN ports : p < x /\ ports[x].sid = ports[p].sid
        BY <1>3, <2>1, <3>1 DEF PortsInOrder
      <3> QED BY <1>3, <2>1, <3>2
    <2> QED BY <2>2, <2>3
  <1> QED BY <1>5, <1>6, <1>7 DEF PortsInOrder

\* The service worker adopts the first port it was told of and has not heard of.
LEMMA OrderAdopt ==
  ASSUME TypeOK, PortsLinked, NewestPort, PortsInOrder, Adopt
  PROVE  PortsInOrder'
  <1> DEFINE n == Head(swq).port
  <1>1. /\ swq # <<>> /\ Head(swq).t = "attach" /\ swq' = Tail(swq)
        /\ ports' = [ports EXCEPT ![n].inc = inc]
    BY DEF Adopt
  <1>2. n \in DOMAIN ports /\ ports[n].inc = 0
    BY LinksAdopt
  <1>3. /\ 1 \in DOMAIN swq /\ Head(swq) = swq[1]
        /\ \A i \in DOMAIN swq : i # 1 => i - 1 \in DOMAIN swq' /\ swq'[i - 1] = swq[i]
    BY <1>1, HeadTailProperties, LenProperties, PortTypes DEF TypeOK
  <1>4. /\ DOMAIN ports' = DOMAIN ports /\ ports'[n].inc = inc
        /\ \A p \in DOMAIN ports : /\ p # n => ports'[p].inc = ports[p].inc
                                   /\ ports'[p].sid = ports[p].sid /\ ports'[p].att = ports[p].att
                                   /\ ports'[p].st = ports[p].st
    BY <1>1, <1>2, PortTypes DEF PortRec
  <1>5. \A p \in DOMAIN ports : ports[p].inc # 0 => p < n
    BY <1>1, <1>3 DEF PortsLinked, NoticeLinked
  <1> HIDE DEF n
  <1>6. \A p \in DOMAIN ports' : ports'[p].inc = 0 => Announced(p)'
    <2> SUFFICES ASSUME NEW p \in DOMAIN ports, ports'[p].inc = 0
                 PROVE  Announced(p)'
      BY <1>4
    <2>1. p # n /\ ports[p].inc = 0
      BY <1>4, PortTypes
    <2>2. PICK i \in DOMAIN swq : swq[i].t = "attach" /\ swq[i].port = p
      BY <2>1 DEF PortsInOrder, Announced
    <2>3. i # 1
      BY <1>3, <2>1, <2>2 DEF n
    <2> QED BY <1>3, <2>2, <2>3 DEF Announced
  <1>7. \A p, q \in DOMAIN ports' :
          p < q /\ ports'[p].inc # 0 /\ ports'[q].inc # 0 => ports'[p].inc <= ports'[q].inc
    <2> SUFFICES ASSUME NEW p \in DOMAIN ports, NEW q \in DOMAIN ports, p < q,
                        ports'[p].inc # 0, ports'[q].inc # 0
                 PROVE  ports'[p].inc <= ports'[q].inc
      BY <1>4
    <2>1. CASE q = n
      BY <1>4, <2>1, PortTypes DEF PortsLinked
    <2>2. CASE q # n
      BY <1>2, <1>4, <1>5, <2>2, PortTypes DEF PortsInOrder
    <2> QED BY <2>1, <2>2
  <1> QED BY <1>4, <1>6, <1>7 DEF PortsInOrder

\* A detach changes no port and announces none.
LEMMA OrderDetach ==
  ASSUME TypeOK, PortsInOrder, Detach
  PROVE  PortsInOrder'
  <1>1. swq # <<>> /\ Head(swq).t = "detach" /\ swq' = Tail(swq) /\ ports' = ports
    BY DEF Detach
  <1>2. /\ 1 \in DOMAIN swq /\ Head(swq) = swq[1]
        /\ \A i \in DOMAIN swq : i # 1 => i - 1 \in DOMAIN swq' /\ swq'[i - 1] = swq[i]
    BY <1>1, HeadTailProperties, LenProperties, PortTypes DEF TypeOK
  <1>3. \A p \in DOMAIN ports : Announced(p) => Announced(p)'
    BY <1>1, <1>2 DEF Announced
  <1> QED BY <1>1, <1>3 DEF PortsInOrder

\* A failed handshake mints a port in place of the one it closes, or gives up.
LEMMA OrderHandshake ==
  ASSUME TypeOK, PortsInOrder, NEW s \in Sids, Handshake(s, 1)
  PROVE  PortsInOrder'
  <1> DEFINE r == [sid |-> s, att |-> 1, inc |-> 0, st |-> "handshake"]
  <1>1. r \in PortRec /\ r.inc = 0 /\ r.sid = s /\ r.st = "handshake"
    BY TransportAssumption DEF PortRec
  <1>2. SamePorts(ports)
    BY DEF SamePorts, TypeOK
  <1>3. /\ ports' = Append(ports, r) /\ Len(ports) + 1 \in Ports
        /\ swq' = Append(swq, [t |-> "attach", sid |-> r.sid, port |-> Len(ports) + 1])
    BY DEF Handshake
  <1> HIDE DEF r
  <1> QED BY <1>1, <1>2, <1>3, OrderMinted

\* Every step of the page keeps the order.
LEMMA OrderPage ==
  ASSUME TypeOK, PortsInOrder, PageStep
  PROVE  PortsInOrder'
  <1> USE DEF linkVars
  <1>1. ASSUME NEW s \in Sids, AttachSession(s) \/ Rescued(s) \/ ControllerChange(s)
        PROVE  PortsInOrder'
    <2>1. Handshake(s, 1) \/ UNCHANGED <<swq, ports>>
      BY <1>1 DEF AttachSession, Rescued, ControllerChange
    <2> QED BY <2>1, OrderHandshake, OrderKept
  <1>2. ASSUME NEW s \in Sids, Terminate(s)
        PROVE  PortsInOrder'
    <2>1. [t |-> "detach", sid |-> s, port |-> NoPort] \in Notice
      BY DEF Notice
    <2> QED BY <1>2, <2>1, OrderKept DEF Terminate
  <1>3. ASSUME NEW p \in DOMAIN ports, NEW st \in {"open", "closed", "refused"}
        PROVE  /\ SamePorts([ports EXCEPT ![p].st = st])
               /\ \A x \in DOMAIN ports :
                    /\ [ports EXCEPT ![p].st = st][x].att = ports[x].att
                    /\ x # p => [ports EXCEPT ![p].st = st][x].st = ports[x].st
                    /\ x = p => [ports EXCEPT ![p].st = st][x].st = st
    <2>1. ports[p] \in PortRec /\ \A x \in DOMAIN ports : ports[x] \in PortRec
      BY LenProperties DEF TypeOK
    <2>2. [ports[p] EXCEPT !.st = st] \in PortRec
      BY <2>1 DEF PortRec
    <2>3. [ports EXCEPT ![p].st = st] = [ports EXCEPT ![p] = [ports[p] EXCEPT !.st = st]]
      OBVIOUS
    <2>4. /\ [ports EXCEPT ![p].st = st] \in Seq(PortRec)
          /\ Len([ports EXCEPT ![p].st = st]) = Len(ports)
      BY <2>2, <2>3, PortChange
    <2> QED BY <2>1, <2>4 DEF SamePorts, PortRec
  <1>4. ASSUME NEW p \in DOMAIN ports, Attached(p)
        PROVE  PortsInOrder'
    <2> DEFINE q == [ports EXCEPT ![p].st = "open"]
    <2>1. /\ SamePorts(q) /\ ports' = q /\ UNCHANGED swq
          /\ \A x \in DOMAIN ports : q[x].att = ports[x].att
                                     /\ (q[x].st = "closed" => ports[x].st = "closed")
      BY <1>3, <1>4 DEF Attached
    <2> HIDE DEF q
    <2> QED BY <2>1, OrderOfSamePorts
  <1>8. ASSUME NEW p \in DOMAIN ports, Mismatched(p)
        PROVE  PortsInOrder'
    <2> DEFINE q == [ports EXCEPT ![p].st = "refused"]
    <2>1. /\ SamePorts(q) /\ ports' = q /\ UNCHANGED swq
          /\ \A x \in DOMAIN ports : q[x].att = ports[x].att
                                     /\ (q[x].st = "closed" => ports[x].st = "closed")
      BY <1>3, <1>8 DEF Mismatched
    <2> HIDE DEF q
    <2> QED BY <2>1, OrderOfSamePorts
  <1>5. ASSUME NEW p \in DOMAIN ports, AttachTimeout(p)
        PROVE  PortsInOrder'
    <2> DEFINE q == [ports EXCEPT ![p].st = "closed"]
               r == [sid |-> ports[p].sid, att |-> ports[p].att + 1, inc |-> 0,
                     st |-> "handshake"]
    <2>1. /\ SamePorts(q)
          /\ \A x \in DOMAIN ports : q[x].att = ports[x].att
                                     /\ (x # p => q[x].st = ports[x].st)
      BY <1>3
    <2>2. CASE /\ ports[p].att < AttachAttempts
               /\ Len(ports) + 1 \in Ports
               /\ ports' = Append(q, r)
               /\ swq' = Append(swq, [t |-> "attach", sid |-> ports[p].sid,
                                      port |-> Len(ports) + 1])
      <3>1. ports[p] \in PortRec
        BY PortTypes
      <3>2. r \in PortRec /\ r.inc = 0 /\ r.sid = ports[p].sid /\ r.st = "handshake"
        BY <2>2, <3>1, TransportAssumption DEF PortRec
      <3> HIDE DEF q, r
      <3>3. \A x \in DOMAIN ports :
              q[x].st = "closed" => ports[x].st = "closed" \/ ports[x].sid = r.sid
        BY <2>1, <3>2
      <3> QED BY <2>1, <2>2, <3>2, <3>3, OrderMinted
    <2>3. CASE ports[p].att = AttachAttempts /\ ports' = q /\ UNCHANGED swq
      <3> HIDE DEF q
      <3> QED BY <2>1, <2>3, OrderOfSamePorts
    <2> QED BY <1>5, <2>2, <2>3 DEF AttachTimeout
  <1>6. ASSUME NEW m \in ops, Answer(m) \/ LoseOp(m)
        PROVE  PortsInOrder'
    BY <1>6, OrderKept DEF Answer, LoseOp
  <1>7. ASSUME NEW e \in execs, Finish(e)
        PROVE  PortsInOrder'
    BY <1>7, OrderKept DEF Finish
  <1> QED BY <1>1, <1>2, <1>4, <1>5, <1>6, <1>7, <1>8 DEF PageStep

\* A session points at a closed port only while a newer attach is on its way, or
\* when its connect is over: the attempts are used up, or the service worker
\* speaks another protocol and connect does not try again (lib/sw.ts 249, 296).
THEOREM ClosedPortsAreReplaced == Spec => []ClosedPortIsLast
  <1>1. Init => PortsInOrder
    BY DEF Init, PortsInOrder
  <1>2. RoutingInv /\ PortsInOrder /\ [Next]_vars => PortsInOrder'
    <2> SUFFICES ASSUME RoutingInv, PortsInOrder, [Next]_vars PROVE PortsInOrder'
      OBVIOUS
    <2> USE DEF linkVars
    <2>0. TypeOK /\ PortsLinked /\ NewestPort
      BY DEF RoutingInv
    <2>1. ASSUME NEW s \in Sids, WorkerStep(s) PROVE PortsInOrder'
      BY <2>0, <2>1, OrderKept DEF WorkerStep, Enqueue, SendSync, SendAsync, XhrTimeout, NetworkError
    <2>2. CASE ServiceWorkerStep
      <3>1. ASSUME NEW f \in fetches,
                   LookupHit(f) \/ LookupMiss(f) \/ Ask(f) \/ RescueTimeout(f) \/ Expire(f)
            PROVE  UNCHANGED <<ports, swq>>
        BY <3>1 DEF LookupHit, LookupMiss, Ask, RescueTimeout, Expire, Relay
      <3>2. CASE Evict
        BY <2>0, <3>2, OrderKept DEF Evict
      <3> QED BY <2>0, <2>2, <3>1, <3>2, OrderKept, OrderAdopt, OrderDetach DEF ServiceWorkerStep
    <2>3. CASE PageStep
      BY <2>0, <2>3, OrderPage
    <2>4. CASE UNCHANGED vars
      BY <2>0, <2>4, OrderKept DEF vars
    <2> QED BY <2>1, <2>2, <2>3, <2>4 DEF Next
  <1>3. RoutingInv /\ PortsInOrder => ClosedPortIsLast
    BY OrderMeansLast DEF RoutingInv
  <1> QED BY <1>1, <1>2, <1>3, RoutingCorrect, PTL DEF Spec
=============================================================================
