---------------------------- MODULE SyncTransport ----------------------------
(***************************************************************************)
(* The blocking transport between a node worker and the page that hosts    *)
(* its filesystem.  A worker parks its thread in a synchronous XHR         *)
(* (worker/node/fs/transport.ts); a service worker turns the request into  *)
(* a message on the session's port (sw/handler.ts); the page answers it    *)
(* through the router and the reply record (lib/sw.ts, wire/router.ts,     *)
(* lib/vfs/dispatch.ts, wire/replay.ts).  The service worker can be        *)
(* evicted between any two steps and forgets every session, every request  *)
(* in flight and its own counter; every timer of the three parties can     *)
(* fire while the answer is still on its way.                              *)
(*                                                                         *)
(* Messages in flight are sets.  Only the page's attach and detach notices *)
(* need their order, and swq keeps it.  A reply crosses the service worker *)
(* and wakes the parked thread in the step that posts it: a timeout or an  *)
(* eviction during that trip has the effect of one just before it.  Time   *)
(* is left out: a timer may fire whenever it is armed, except the service  *)
(* worker's own deadline, which the page's heartbeat holds off when        *)
(* Heartbeat is TRUE.                                                      *)
(***************************************************************************)
EXTENDS Integers, Sequences, FiniteSets, Functions

CONSTANTS
  Sids,          \* the sessions: one per node worker
  Kinds,         \* the sync-capable message kinds in play
  Recorded,      \* the kinds whose dispatcher was given a reply record
  NoPort,        \* "no port": a session the service worker does not hold
  Heartbeat,     \* TRUE: the page's heartbeat always beats OP_TIMEOUT_MS
  XhrDeadline,   \* TRUE: the engine honours xhr.timeout (WebKit does not)
  SyncRetries,   \* SYNC_RETRIES
  AttachAttempts,\* ATTACH_ATTEMPTS
  ReplayWindow,  \* REPLAY_WINDOW
  MaxSeq,        \* bound: sequence numbers one worker mints
  MaxPorts,      \* bound: ports the page mints
  MaxInc,        \* bound: service worker incarnations
  MaxPush        \* bound: sidebands one worker enqueues

ASSUME TransportAssumption ==
  /\ Recorded \subseteq Kinds /\ Kinds # {}
  /\ Heartbeat \in BOOLEAN /\ XhrDeadline \in BOOLEAN
  /\ SyncRetries \in Nat
  /\ AttachAttempts \in Nat \ {0}
  /\ ReplayWindow \in Nat \ {0}
  /\ MaxSeq \in Nat /\ MaxPorts \in Nat /\ MaxInc \in Nat \ {0} /\ MaxPush \in Nat
  /\ NoPort \notin Nat

VARIABLES
  worker,    \* per session: is the thread parked, in which call, which attempt
  outbox,    \* per session: sidebands waiting for a ride (wire.outbound)
  printed,   \* per session: how many sidebands it has enqueued
  inc,       \* the service worker's incarnation
  sessions,  \* the service worker's registry: session -> port
  nextSeq,   \* the service worker's own counter
  fetches,   \* the fetch events it is serving
  swq,       \* attach and detach notices on their way to it, in order
  rescues,   \* rescue notices on their way to the page
  ports,     \* the ports the page has minted
  closed,    \* per session: the page has detached it
  ops,       \* requests on their way to the page
  execs,     \* requests the page is running
  record,    \* the reply record, oldest first
  ran,       \* history: the executions that completed, in order
  heard      \* history: the sidebands delivered

workerVars == <<worker, outbox, printed>>
swVars     == <<inc, sessions, nextSeq, fetches>>
linkVars   == <<swq, rescues, ports, closed>>
hostVars   == <<ops, execs, record>>
history    == <<ran, heard>>
vars       == <<workerVars, swVars, linkVars, hostVars, history>>

-----------------------------------------------------------------------------
(* Types *)

Seqs   == 1..MaxSeq
Pushes == 1..MaxPush
Ports  == 1..MaxPorts
Calls  == Sids \X Seqs
NoCall == <<>>     \* the parked or failed call has no answer

Frame == [sid : Sids, seq : Seqs, kind : Kinds, push : SUBSET Pushes]

Fetch == [sid : Sids, seq : Seqs, kind : Kinds, push : SUBSET Pushes,
          att : 0..SyncRetries, rseq : Nat, port : Ports \cup {NoPort},
          st : {"lookup", "asking", "rescue", "relayed"}]

Op == [sid : Sids, seq : Seqs, kind : Kinds, push : SUBSET Pushes,
       rseq : Nat, port : Ports \cup {NoPort}]

WorkerRec == [st : {"new", "connecting", "run", "parked", "dead"}, seq : 0..MaxSeq,
              att : 0..SyncRetries, kind : Kinds, got : Calls \cup {NoCall}]

Remembered == [seq : Seqs, by : Calls]
Completed  == [seq : Seqs, kind : Kinds]

PortRec == [sid : Sids, att : 1..AttachAttempts, inc : 0..MaxInc,
            st : {"handshake", "open", "closed", "refused"}]

\* The page has closed the port: its handshake timed out or met another protocol.
Shut(p) == ports[p].st \in {"closed", "refused"}

Notice == [t : {"attach", "detach"}, sid : Sids, port : Ports \cup {NoPort}]

-----------------------------------------------------------------------------
(* The worker: sendSync and rawSync *)

\* One XHR of call q.  packRequest drains the sidebands into every attempt.
Request(s, q, k, a) ==
  [sid |-> s, seq |-> q, kind |-> k, push |-> outbox[s],
   att |-> a, rseq |-> 0, port |-> NoPort, st |-> "lookup"]

Parked(s) == worker[s].st = "parked"

\* The fetch the session's thread is parked in.  One whose XHR has been given up
\* still looks for its session; once relayed it leaves nothing to wait for.
Current(f) ==
  /\ Parked(f.sid)
  /\ worker[f.sid].seq = f.seq
  /\ worker[f.sid].att = f.att

Pending(s) == {f \in fetches : f.sid = s /\ Current(f)}
Abandoned(s) == {f \in Pending(s) : f.st = "relayed"}

\* A program prints: the bytes wait for the next message.
Enqueue(s) ==
  /\ worker[s].st = "run"
  /\ printed[s] < MaxPush
  /\ printed' = [printed EXCEPT ![s] = @ + 1]
  /\ outbox' = [outbox EXCEPT ![s] = @ \cup {printed[s] + 1}]
  /\ UNCHANGED <<worker, swVars, linkVars, hostVars, history>>

\* An asynchronous call shares the counter and the record but goes straight to
\* the page over the worker's own port, and is never retried.
SendAsync(s, k) ==
  /\ worker[s].st = "run"
  /\ worker[s].seq < MaxSeq
  /\ worker' = [worker EXCEPT ![s] = [@ EXCEPT !.seq = worker[s].seq + 1, !.got = NoCall]]
  /\ ops' = ops \cup {[sid |-> s, seq |-> worker[s].seq + 1, kind |-> k,
                       push |-> outbox[s], rseq |-> 0, port |-> NoPort]}
  /\ outbox' = [outbox EXCEPT ![s] = {}]
  /\ UNCHANGED <<printed, swVars, linkVars, execs, record, history>>

\* Mutation: the drain leaves the queue as it was.
SendSync_KeepsQueue(s, k) ==
  /\ worker[s].st = "run"
  /\ worker[s].seq < MaxSeq
  /\ worker' = [worker EXCEPT ![s] = [st |-> "parked", seq |-> @.seq + 1,
                                      att |-> 0, got |-> NoCall, kind |-> k]]
  /\ fetches' = fetches \cup {Request(s, worker[s].seq + 1, k, 0)}
  /\ UNCHANGED <<outbox, printed, inc, sessions, nextSeq, linkVars, hostVars, history>>

\* A synchronous call of kind k: mint a sequence number and park.
SendSync(s, k) ==
  /\ worker[s].st = "run"
  /\ worker[s].seq < MaxSeq
  /\ worker' = [worker EXCEPT ![s] = [st |-> "parked", seq |-> @.seq + 1,
                                      att |-> 0, got |-> NoCall, kind |-> k]]
  /\ fetches' = fetches \cup {Request(s, worker[s].seq + 1, k, 0)}
  /\ outbox' = [outbox EXCEPT ![s] = {}]
  /\ UNCHANGED <<printed, inc, sessions, nextSeq, linkVars, hostVars, history>>

\* An attempt failed to deliver.  The same call is tried again under the same
\* sequence number until the attempts run out, and then the program gets EIO.
FailAttempt(s, rest) ==
  LET w == worker[s]
  IN \/ /\ w.att < SyncRetries
        /\ worker' = [worker EXCEPT ![s].att = @ + 1]
        /\ fetches' = rest \cup {Request(s, w.seq, w.kind, w.att + 1)}
        /\ outbox' = [outbox EXCEPT ![s] = {}]
     \/ /\ w.att = SyncRetries
        /\ worker' = [worker EXCEPT ![s].st = "run"]
        /\ fetches' = rest
        /\ UNCHANGED outbox

\* The worker's own deadline.  What it asked for goes on without it.
XhrTimeout(s) ==
  /\ XhrDeadline
  /\ Parked(s)
  /\ FailAttempt(s, fetches \ Abandoned(s))
  /\ UNCHANGED <<printed, inc, sessions, nextSeq, linkVars, hostVars, history>>

\* The service worker serving the request is gone: send() throws.
NetworkError(s) ==
  /\ Parked(s)
  /\ Pending(s) = {}
  /\ FailAttempt(s, fetches)
  /\ UNCHANGED <<printed, inc, sessions, nextSeq, linkVars, hostVars, history>>

-----------------------------------------------------------------------------
(* The service worker: serve, rescue, adopt, settle, expire *)

\* A response that is not a 200.  Only the thread still waiting on it notices.
Refuse(f) ==
  IF Current(f)
  THEN FailAttempt(f.sid, fetches \ {f})
  ELSE /\ fetches' = fetches \ {f}
       /\ UNCHANGED <<worker, outbox>>

\* The request as it goes to the page, under the service worker's own number.
Relayed(f, p, r) == [f EXCEPT !.st = "relayed", !.port = p, !.rseq = r]

OpOf(f) == [sid |-> f.sid, seq |-> f.seq, kind |-> f.kind, push |-> f.push,
            rseq |-> f.rseq, port |-> f.port]

\* The page is sent request f on the session's port, and f waits for its answer.
Relay(f) ==
  LET r == Relayed(f, sessions[f.sid], nextSeq)
  IN /\ fetches' = (fetches \ {f}) \cup {x \in {r} : Current(x)}
     /\ ops' = ops \cup {OpOf(r)}
     /\ nextSeq' = nextSeq + 1
     /\ UNCHANGED <<workerVars, inc, sessions, linkVars, execs, record, history>>

\* serve: the session is known ...
LookupHit(f) ==
  /\ f.st = "lookup"
  /\ sessions[f.sid] # NoPort
  /\ Relay(f)

\* ... or it has to be found: rescue looks for the windows first.
LookupMiss(f) ==
  /\ f.st = "lookup"
  /\ sessions[f.sid] = NoPort
  /\ fetches' = (fetches \ {f}) \cup {[f EXCEPT !.st = "asking"]}
  /\ UNCHANGED <<workerVars, inc, sessions, nextSeq, linkVars, hostVars, history>>

\* Every window is asked to attach again, and f waits for one that does; an
\* attach that came before it began to wait is not noticed.  With no window to
\* ask, 503 at once.
Ask(f) ==
  /\ f.st = "asking"
  /\ \/ /\ fetches' = (fetches \ {f}) \cup {[f EXCEPT !.st = "rescue"]}
        /\ rescues' = rescues \cup {f.sid}
        /\ UNCHANGED <<worker, outbox>>
     \/ /\ Refuse(f)
        /\ UNCHANGED rescues
  /\ UNCHANGED <<printed, inc, sessions, nextSeq, swq, ports, closed, hostVars, history>>

\* Mutation: nothing bounds the wait for a page to attach.
RescueTimeout_Never(f) == FALSE /\ UNCHANGED vars

\* RESCUE_TIMEOUT_MS: use the session if there is one by now; else 503.
RescueTimeout(f) ==
  /\ f.st = "rescue"
  /\ \/ /\ sessions[f.sid] # NoPort
        /\ Relay(f)
     \/ /\ sessions[f.sid] = NoPort
        /\ Refuse(f)
        /\ UNCHANGED <<printed, inc, sessions, nextSeq, linkVars, hostVars, history>>

\* A message on a port reaches the service worker only while the incarnation
\* that adopted the port lives.
Reaches(p) == p # NoPort /\ ports[p].inc = inc

\* The page is running the request behind a port that still reaches the
\* service worker, so its heartbeat refreshes the deadline.
Beating(f) ==
  \E e \in execs : e.port = f.port /\ e.rseq = f.rseq /\ Reaches(e.port)

\* expire: OP_TIMEOUT_MS without an answer or a heartbeat; 504.
Expire(f) ==
  /\ f.st = "relayed"
  /\ Heartbeat => ~ Beating(f)
  /\ Refuse(f)
  /\ UNCHANGED <<printed, inc, sessions, nextSeq, linkVars, hostVars, history>>

\* Mutation: pending is keyed by the session alone.
Waiting_AnySeq(p, r) == {f \in fetches : f.st = "relayed" /\ f.sid = ports[p].sid}

\* pending is keyed by the session of the port and the number.
Waiting(p, r) ==
  {f \in fetches : f.st = "relayed" /\ f.sid = ports[p].sid /\ f.rseq = r}

\* settle: the page's reply to request r on port p, naming call q and computed
\* for call by, becomes the response.  rawSync checks that it names the call it
\* made; a crossed reply is a transport failure.
Settle(p, r, q, by) ==
  IF Reaches(p) /\ Waiting(p, r) # {}
  THEN \E f \in Waiting(p, r) :
         IF Current(f) /\ q = f.seq
         THEN /\ worker' = [worker EXCEPT ![f.sid] = [@ EXCEPT !.st = "run", !.got = by]]
              /\ fetches' = fetches \ {f}
              /\ UNCHANGED outbox
         ELSE Refuse(f)
  ELSE UNCHANGED <<worker, outbox, fetches>>

\* The requests of session s that wait for it to be attached, first one first.
Rescuing(s) == {f \in fetches : f.sid = s /\ f.st = "rescue"}

Before(f, g) == f.seq < g.seq \/ (f.seq = g.seq /\ f.att < g.att)

\* Mutation: the counter stays behind the numbers it has given out.
Adopt_SameNumber ==
  /\ swq # <<>>
  /\ Head(swq).t = "attach"
  /\ LET m  == Head(swq)
         go == {Relayed(f, m.port, nextSeq) : f \in Rescuing(m.sid)}
     IN /\ sessions' = [sessions EXCEPT ![m.sid] = m.port]
        /\ ports' = [ports EXCEPT ![m.port].inc = inc]
        /\ fetches' = (fetches \ Rescuing(m.sid)) \cup {f \in go : Current(f)}
        /\ ops' = ops \cup {OpOf(f) : f \in go}
  /\ swq' = Tail(swq)
  /\ UNCHANGED <<workerVars, inc, nextSeq, rescues, closed, execs, record, history>>

\* A message event: adopt the newest port and hand it to everyone waiting ...
Adopt ==
  /\ swq # <<>>
  /\ Head(swq).t = "attach"
  /\ LET m    == Head(swq)
         wait == Rescuing(m.sid)
         go   == {Relayed(f, m.port, nextSeq + Cardinality({g \in wait : Before(g, f)})) :
                    f \in wait}
     IN /\ sessions' = [sessions EXCEPT ![m.sid] = m.port]
        /\ ports' = [ports EXCEPT ![m.port].inc = inc]
        /\ fetches' = (fetches \ wait) \cup {f \in go : Current(f)}
        /\ ops' = ops \cup {OpOf(f) : f \in go}
        /\ nextSeq' = nextSeq + Cardinality(wait)
  /\ swq' = Tail(swq)
  /\ UNCHANGED <<workerVars, inc, rescues, closed, execs, record, history>>

\* ... or forget the session.
Detach ==
  /\ swq # <<>>
  /\ Head(swq).t = "detach"
  /\ sessions' = [sessions EXCEPT ![Head(swq).sid] = NoPort]
  /\ swq' = Tail(swq)
  /\ UNCHANGED <<workerVars, inc, nextSeq, fetches, rescues, ports, closed,
                 hostVars, history>>

\* The browser stops the service worker: all of its state goes, and nothing the
\* page posts to a port it had adopted arrives any more.
Evict ==
  /\ inc < MaxInc
  /\ inc' = inc + 1
  /\ sessions' = [s \in Sids |-> NoPort]
  /\ nextSeq' = 1
  /\ fetches' = {}
  /\ UNCHANGED <<workerVars, linkVars, hostVars, history>>

-----------------------------------------------------------------------------
(* The page: connect, handshake, answer, detach *)

\* handshake: a port of its own, announced to the active service worker.
Handshake(s, a) ==
  LET p == Len(ports) + 1
  IN /\ p \in Ports
     /\ ports' = Append(ports, [sid |-> s, att |-> a, inc |-> 0, st |-> "handshake"])
     /\ swq' = Append(swq, [t |-> "attach", sid |-> s, port |-> p])

\* attachSession: the session's first connect, before there is a worker.
AttachSession(s) ==
  /\ worker[s].st = "new"
  /\ worker' = [worker EXCEPT ![s].st = "connecting"]
  /\ Handshake(s, 1)
  /\ UNCHANGED <<outbox, printed, swVars, rescues, closed, hostVars, history>>

\* The listeners that re-attach are installed once the first connect has succeeded,
\* also when terminate() came during it, and nothing detaches them then.
Listening(s) ==
  /\ \E p \in DOMAIN ports : ports[p].sid = s /\ ports[p].st = "open"
  /\ ~ closed[s]

\* onServiceWorkerMessage: asked to re-attach.  The copy of the notice that comes
\* over the broadcast channel does what ControllerChange does, at any time.
Rescued(s) ==
  /\ s \in rescues
  /\ rescues' = rescues \ {s}
  /\ IF Listening(s) THEN Handshake(s, 1) ELSE UNCHANGED <<swq, ports>>
  /\ UNCHANGED <<workerVars, swVars, closed, hostVars, history>>

\* onControllerChange: the service worker was replaced.
ControllerChange(s) ==
  /\ Listening(s)
  /\ Handshake(s, 1)
  /\ UNCHANGED <<workerVars, swVars, rescues, closed, hostVars, history>>

\* "attached" has arrived on the new port.  An incarnation of the service worker
\* speaks one protocol: it answers with the page's on every port or on none.
Acknowledged(p, other) ==
  /\ ports[p].st = "handshake"
  /\ ports[p].inc # 0
  /\ \A q \in DOMAIN ports : ports[q].inc = ports[p].inc => ports[q].st # other

\* It speaks this page's.  After the first attach the worker starts, unless
\* terminate() came first.
Attached(p) ==
  /\ Acknowledged(p, "refused")
  /\ ports' = [ports EXCEPT ![p].st = "open"]
  /\ worker' = IF worker[ports[p].sid].st = "connecting"
               THEN [worker EXCEPT ![ports[p].sid].st = "run"]
               ELSE worker
  /\ UNCHANGED <<outbox, printed, swVars, swq, rescues, closed, hostVars, history>>

\* It speaks another: the page closes the port and connect gives up at once,
\* while the service worker keeps the session it has adopted.
Mismatched(p) ==
  /\ Acknowledged(p, "open")
  /\ ports' = [ports EXCEPT ![p].st = "refused"]
  /\ UNCHANGED <<workerVars, swVars, swq, rescues, closed, hostVars, history>>

\* Mutation: one missed handshake is the end of it.
AttachTimeout_Once(p) ==
  /\ ports[p].st = "handshake"
  /\ ports' = [ports EXCEPT ![p].st = "closed"]
  /\ UNCHANGED <<workerVars, swVars, swq, rescues, closed, hostVars, history>>

\* AttachTimeout: close the port, then try again while attempts last.  closed
\* is not looked at again.
AttachTimeout(p) ==
  /\ ports[p].st = "handshake"
  /\ \/ /\ ports[p].att < AttachAttempts
        /\ Len(ports) + 1 \in Ports
        /\ ports' = Append([ports EXCEPT ![p].st = "closed"],
                           [sid |-> ports[p].sid, att |-> ports[p].att + 1,
                            inc |-> 0, st |-> "handshake"])
        /\ swq' = Append(swq, [t |-> "attach", sid |-> ports[p].sid,
                               port |-> Len(ports) + 1])
     \/ /\ ports[p].att = AttachAttempts
        /\ ports' = [ports EXCEPT ![p].st = "closed"]
        /\ UNCHANGED swq
  /\ UNCHANGED <<workerVars, swVars, rescues, closed, hostVars, history>>

\* NodeWorker.terminate: detach the session, if there is an attachment to
\* detach yet, and stop the thread.
Terminate(s) ==
  /\ worker[s].st # "dead"
  /\ worker' = [worker EXCEPT ![s].st = "dead"]
  /\ fetches' = fetches \ Abandoned(s)
  /\ IF worker[s].st \in {"new", "connecting"}
     THEN UNCHANGED <<closed, swq>>
     ELSE /\ closed' = [closed EXCEPT ![s] = TRUE]
          /\ swq' = Append(swq, [t |-> "detach", sid |-> s, port |-> NoPort])
  /\ UNCHANGED <<outbox, printed, inc, sessions, nextSeq, rescues, ports, hostVars, history>>

HasRun(s, q) == \E i \in DOMAIN ran[s] : ran[s][i].seq = q

\* Mutation: recall answers with whatever the session was last told.
Recall_AnyCall(s, q) == Range(record[s])

\* recall and remember: a window of answered calls per session.
Recall(s, q) == {r \in Range(record[s]) : r.seq = q}

\* Mutation: the window holds one reply fewer than it says.
Remember_ShortWindow(s, q, by) ==
  IF Recall(s, q) # {} THEN record[s]
  ELSE LET w == Append(record[s], [seq |-> q, by |-> by])
       IN IF Len(w) >= ReplayWindow THEN Tail(w) ELSE w

Remember(s, q, by) ==
  IF Recall(s, q) # {} THEN record[s]
  ELSE LET w == Append(record[s], [seq |-> q, by |-> by])
       IN IF Len(w) > ReplayWindow THEN Tail(w) ELSE w

\* A request reaches the page.  Its sidebands are delivered first; then a
\* repeat is answered from the record, and anything else is run.
Answer(m) ==
  /\ m.port # NoPort => ~ Shut(m.port)
  /\ ops' = ops \ {m}
  /\ heard' = [heard EXCEPT ![m.sid] = @ \cup m.push]
  /\ LET hit == IF m.kind \in Recorded THEN Recall(m.sid, m.seq) ELSE {}
     IN IF hit = {}
        THEN /\ execs' = execs \cup {m}
             /\ UNCHANGED <<worker, outbox, fetches>>
        ELSE /\ \E r \in hit : Settle(m.port, m.rseq, m.seq, r.by)
             /\ UNCHANGED execs
  /\ UNCHANGED <<printed, inc, sessions, nextSeq, linkVars, record, ran>>

\* The port was closed under the request.
LoseOp(m) ==
  /\ m.port # NoPort
  /\ Shut(m.port)
  /\ ops' = ops \ {m}
  /\ UNCHANGED <<workerVars, swVars, linkVars, execs, record, history>>

\* perform settles, one way or the other: remember the reply and post it.
Finish(e) ==
  /\ execs' = execs \ {e}
  /\ ran' = [ran EXCEPT ![e.sid] = Append(@, [seq |-> e.seq, kind |-> e.kind])]
  /\ record' = IF e.kind \in Recorded
               THEN [record EXCEPT ![e.sid] = Remember(e.sid, e.seq, <<e.sid, e.seq>>)]
               ELSE record
  /\ Settle(e.port, e.rseq, e.seq, <<e.sid, e.seq>>)
  /\ UNCHANGED <<printed, inc, sessions, nextSeq, linkVars, ops, heard>>

-----------------------------------------------------------------------------

\* Nothing is attached and no worker has started.
Init ==
  /\ worker = [s \in Sids |-> [st |-> "new", seq |-> 0, att |-> 0, got |-> NoCall,
                               kind |-> CHOOSE k \in Kinds : TRUE]]
  /\ outbox = [s \in Sids |-> {}]
  /\ printed = [s \in Sids |-> 0]
  /\ inc = 1
  /\ nextSeq = 1
  /\ fetches = {} /\ swq = <<>> /\ rescues = {}
  /\ ports = <<>>
  /\ sessions = [s \in Sids |-> NoPort]
  /\ closed = [s \in Sids |-> FALSE]
  /\ ops = {} /\ execs = {}
  /\ record = [s \in Sids |-> <<>>]
  /\ ran = [s \in Sids |-> <<>>]
  /\ heard = [s \in Sids |-> {}]

WorkerStep(s) ==
  \/ Enqueue(s)
  \/ \E k \in Kinds : SendSync(s, k) \/ SendAsync(s, k)
  \/ XhrTimeout(s)
  \/ NetworkError(s)

ServiceWorkerStep ==
  \/ \E f \in fetches :
       LookupHit(f) \/ LookupMiss(f) \/ Ask(f) \/ RescueTimeout(f) \/ Expire(f)
  \/ Adopt \/ Detach \/ Evict

PageStep ==
  \/ \E s \in Sids : AttachSession(s) \/ Rescued(s) \/ ControllerChange(s) \/ Terminate(s)
  \/ \E p \in DOMAIN ports : Attached(p) \/ Mismatched(p) \/ AttachTimeout(p)
  \/ \E m \in ops : Answer(m) \/ LoseOp(m)
  \/ \E e \in execs : Finish(e)

Next == (\E s \in Sids : WorkerStep(s)) \/ ServiceWorkerStep \/ PageStep

Spec == Init /\ [][Next]_vars

\* What the event loops and the timers of the three parties promise: a message
\* is handled, a running operation settles, an armed deadline fires.  Nothing
\* says that the service worker stays up or that a handshake is answered.
Fairness ==
  /\ \A s \in Sids :
       /\ WF_vars(NetworkError(s))
       /\ WF_vars(\E f \in fetches : f.sid = s /\ (LookupHit(f) \/ LookupMiss(f) \/ Ask(f)))
       /\ WF_vars(\E f \in fetches : f.sid = s /\ RescueTimeout(f))
       /\ WF_vars(\E f \in fetches : f.sid = s /\ Expire(f))
       /\ WF_vars(\E m \in ops : m.sid = s /\ (Answer(m) \/ LoseOp(m)))
       /\ WF_vars(\E e \in execs : e.sid = s /\ Finish(e))
  /\ WF_vars(Adopt \/ Detach)

FairSpec == Spec /\ Fairness

-----------------------------------------------------------------------------
(* Properties *)

TypeOK ==
  /\ worker \in [Sids -> WorkerRec]
  /\ \A s \in Sids : Parked(s) => worker[s].seq \in Seqs
  /\ outbox \in [Sids -> SUBSET Pushes]
  /\ printed \in [Sids -> 0..MaxPush]
  /\ inc \in 1..MaxInc
  /\ sessions \in [Sids -> Ports \cup {NoPort}]
  /\ nextSeq \in Nat \ {0}
  /\ fetches \subseteq Fetch /\ IsFiniteSet(fetches)
  /\ swq \in Seq(Notice)
  /\ rescues \subseteq Sids
  /\ ports \in Seq(PortRec) /\ Len(ports) <= MaxPorts
  /\ closed \in [Sids -> BOOLEAN]
  /\ ops \subseteq Op
  /\ execs \subseteq Op
  /\ record \in [Sids -> Seq(Remembered)]
  /\ ran \in [Sids -> Seq(Completed)]
  /\ heard \in [Sids -> SUBSET Pushes]

\* The answer a thread wakes up with was computed for the very call it is parked
\* in, in its own session, and that call has run.  Sequence numbers repeat
\* across sessions and the service worker's own counter restarts with every
\* eviction, so neither number alone says whose reply it is.
TrueAnswer ==
  \A s \in Sids : worker[s].got # NoCall =>
    /\ worker[s].got = <<s, worker[s].seq>>
    /\ HasRun(s, worker[s].seq)

\* Whatever the page still has to answer on a port that reaches the service
\* worker, the pending entry it would settle is for the same call: the worker's
\* check for a crossed reply never has to fire.
NoCrossedReply ==
  \A m \in ops \cup execs : Reaches(m.port) =>
    \A f \in Waiting(m.port, m.rseq) : f.sid = m.sid /\ f.seq = m.seq

\* A sideband is in one place: the queue, one request or the page, never two,
\* however often its carrier is retried; so none is delivered twice.
Carrying == {f \in fetches : f.st # "relayed"}

SidebandOnce ==
  \A s \in Sids :
    /\ outbox[s] \cap heard[s] = {}
    /\ \A m \in ops \cup Carrying : m.sid = s =>
         /\ m.push \cap (outbox[s] \cup heard[s]) = {}
         /\ \A n \in ops \cup Carrying : n.sid = s /\ n # m => n.push \cap m.push = {}

\* The service worker relays to the newest port it has been given for a session
\* in this incarnation, and to that session's own.
NewestPort ==
  \A s \in Sids : sessions[s] # NoPort =>
    /\ sessions[s] \in DOMAIN ports
    /\ ports[sessions[s]].sid = s
    /\ Reaches(sessions[s])
    /\ \A p \in DOMAIN ports : ports[p].sid = s /\ Reaches(p) => p <= sessions[s]

\* A session is left pointing at a port the page has closed only while a newer
\* attach is on its way, or once a connect is over: its attempts are used up, or
\* the service worker speaks another protocol, after which nothing is tried again.
ClosedPortIsLast ==
  \A s \in Sids :
    sessions[s] # NoPort /\ Shut(sessions[s]) =>
      \/ ports[sessions[s]].att = AttachAttempts
      \/ ports[sessions[s]].st = "refused"
      \/ \E i \in DOMAIN swq : swq[i].t = "attach" /\ swq[i].sid = s

\* The i-th notice names a port newer than every port adopted or announced before.
NoticeLinked(i) ==
  /\ swq[i].port \in DOMAIN ports
  /\ ports[swq[i].port].sid = swq[i].sid
  /\ \A p \in DOMAIN ports : ports[p].inc # 0 => p < swq[i].port
  /\ \A j \in 1..(i - 1) : swq[j].t = "attach" => swq[j].port < swq[i].port

\* Why a reply cannot cross.  Every port a message or a session names is one the
\* page minted for that very session; notices reach the service worker in the
\* order the ports were minted, so one still in the queue is newer than every
\* port adopted so far.
PortsLinked ==
  /\ \A s \in Sids : sessions[s] # NoPort =>
       /\ sessions[s] \in DOMAIN ports
       /\ ports[sessions[s]].sid = s /\ ports[sessions[s]].inc = inc
  /\ \A m \in ops \cup execs : m.port # NoPort =>
       /\ m.port \in DOMAIN ports
       /\ ports[m.port].sid = m.sid /\ ports[m.port].inc # 0
  /\ \A p \in DOMAIN ports : ports[p].inc <= inc
  /\ \A i \in DOMAIN swq : swq[i].t = "attach" => NoticeLinked(i)

\* Numbers are minted upwards within an incarnation, and what an earlier one
\* minted no longer reaches the service worker.
NumbersFresh ==
  /\ \A m \in ops \cup execs : Reaches(m.port) => m.rseq < nextSeq
  /\ \A f \in fetches : f.st = "relayed" => f.rseq < nextSeq

\* The record holds answers of the session's own calls, and only of calls that ran.
RecordTrue ==
  \A s \in Sids : \A i \in DOMAIN record[s] :
    /\ record[s][i].by = <<s, record[s][i].seq>>
    /\ HasRun(s, record[s][i].seq)

\* The inductive invariant behind TrueAnswer, NoCrossedReply and NewestPort.
RoutingInv ==
  /\ TypeOK
  /\ PortsLinked
  /\ NumbersFresh
  /\ RecordTrue
  /\ NoCrossedReply
  /\ TrueAnswer
  /\ NewestPort

\* How many executions of other recorded calls of the session have completed since
\* call q first did.
Since(s, q) ==
  Cardinality({i \in DOMAIN ran[s] :
                 /\ ran[s][i].kind \in Recorded /\ ran[s][i].seq # q
                 /\ \E j \in DOMAIN ran[s] : j < i /\ ran[s][j].seq = q})

\* A recorded call that has completed is run again only after ReplayWindow other
\* calls of its session have completed since.
RerunOnlyPastWindow ==
  [][\A e \in execs' \ execs :
       e.kind \in Recorded /\ HasRun(e.sid, e.seq) => Since(e.sid, e.seq) >= ReplayWindow]_vars

\* "Never a worker parked forever" (lib/sw.ts): a blocking call ends, in an
\* answer or in an error, whatever the service worker forgets.
ParkedReturns == \A s \in Sids : Parked(s) ~> ~ Parked(s)

\* What transport.ts and replay.ts say of a retry: "the host answers a repeat from
\* its reply record instead of re-executing, which makes the transport
\* exactly-once".
ExactlyOnce ==
  [][\A e \in execs' \ execs :
       e.kind \in Recorded =>
         /\ ~ HasRun(e.sid, e.seq)
         /\ \A x \in execs : ~ (x.sid = e.sid /\ x.seq = e.seq)]_vars

\* What pack.ts says of a sideband: "a push is delivered exactly once - there is no
\* acknowledgement and no retry, because the carrier message already has both".
\* Once a call is answered, nothing enqueued before it has vanished.
AnsweredCarriesSidebands ==
  \A s \in Sids : worker[s].got # NoCall =>
    1..printed[s] \subseteq
      outbox[s] \cup heard[s] \cup UNION {m.push : m \in {x \in ops \cup Carrying : x.sid = s}}
=============================================================================
