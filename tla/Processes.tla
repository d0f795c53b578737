------------------------------ MODULE Processes -------------------------------
(***************************************************************************)
(* A child process from spawn or spawnSync to its close: the ChildProcess  *)
(* a program holds (worker/node/child_process.ts), the provider at the     *)
(* page that runs the child in a NodeWorker (lib/process/                  *)
(* worker-provider.ts, reached by lib/process/dispatch.ts), and the child. *)
(* The provider never pushes: what happens to the child waits in a queue   *)
(* for the one poll the caller keeps outstanding.                          *)
(*                                                                         *)
(* Requests reach the page in order and its handlers run concurrently; the *)
(* answers come back in the order they were given.  The child is external: *)
(* it prints, reads its stdin or not, and ends as it likes.                *)
(***************************************************************************)
EXTENDS Integers, Sequences, SequencesExt

CONSTANTS
  None,
  MaxOut,    \* bound: chunks the child prints to each of its streams
  MaxIn      \* bound: chunks the caller writes to its stdin

VARIABLES
  kind,      \* "spawn" or "sync", and what stdin is: "pipe" or "ignore"
  caller,    \* ChildProcess
  child,     \* the child's NodeWorker and program
  live,      \* the provider's record of it
  stdin,     \* the stream between the page and the child
  toHost, toCaller

vars == <<kind, caller, child, live, stdin, toHost, toCaller>>

Fds == {"stdout", "stderr"}

Silent == [fd \in Fds |-> 0]

-----------------------------------------------------------------------------
(* The caller: ChildProcess *)

Known == caller.state \in {"running", "closed"}

\* spawn, and the call of spawnSync, with input or without.
Spawn ==
  /\ caller.state = "new"
  /\ \/ kind.call = "spawn" /\ caller' = [caller EXCEPT !.state = "spawning"]
     \/ /\ kind.call = "sync"
        /\ \E n \in 0 .. MaxIn :
             caller' = [caller EXCEPT !.state = "parked", !.queued = IF n > 0 THEN 1 ELSE 0]
  /\ toHost' = Append(toHost, "spawn")
  /\ UNCHANGED <<kind, child, live, stdin, toCaller>>

\* child.stdin.write: the chunk waits for the ones before it, and for the pid.
Write ==
  /\ kind = [call |-> "spawn", stdin |-> "pipe"]
  /\ caller.state \in {"spawning", "running", "closed"}
  /\ caller.stdin = "open" /\ caller.wrote < MaxIn
  /\ caller' = [caller EXCEPT !.wrote = @ + 1, !.queued = @ + 1]
  /\ UNCHANGED <<kind, child, live, stdin, toHost, toCaller>>

\* child.stdin.end
End ==
  /\ kind = [call |-> "spawn", stdin |-> "pipe"]
  /\ caller.state \in {"spawning", "running", "closed"} /\ caller.stdin = "open"
  /\ caller' = [caller EXCEPT !.stdin = "ending"]
  /\ UNCHANGED <<kind, child, live, stdin, toHost, toCaller>>

\* #write and #endStdin, one at a time.
SendStdin ==
  /\ kind.call = "spawn" /\ Known /\ ~ caller.busy
  /\ \/ caller.queued > 0 /\ toHost' = Append(toHost, "write")
     \/ caller.queued = 0 /\ caller.stdin = "ending" /\ toHost' = Append(toHost, "end")
  /\ caller' = [caller EXCEPT !.busy = TRUE]
  /\ UNCHANGED <<kind, child, live, stdin, toCaller>>

\* kill: nothing without a pid.
Kill ==
  /\ kind.call = "spawn" /\ Known /\ ~ caller.killed
  /\ caller' = [caller EXCEPT !.killed = TRUE]
  /\ toHost' = Append(toHost, "kill")
  /\ UNCHANGED <<kind, child, live, stdin, toCaller>>

Answered(op) == toCaller # <<>> /\ Head(toCaller).op = op

\* #finish, and the microtask after it: exit, close, the callback of exec.
Finish(c, status) ==
  [c EXCEPT !.state = "closed", !.told = status, !.callbacks = @ + 1]

\* The answer to proc.spawn: the first poll, or the error that collect also reports.
OnSpawned ==
  /\ Answered("spawn")
  /\ toCaller' = Tail(toCaller)
  /\ IF Head(toCaller).ok
     THEN caller' = [caller EXCEPT !.state = "running"] /\ toHost' = Append(toHost, "poll")
     ELSE /\ caller' = Finish([caller EXCEPT !.callbacks = @ + 1, !.stdin = "ended", !.queued = 0],
                              "none")
          /\ toHost' = toHost
  /\ UNCHANGED <<kind, child, live, stdin>>

\* What the events add to the streams of the caller.
Chunks(events, fd) == Len(SelectSeq(events, LAMBDA e : e.is = fd))

\* #pump: chunks in order, the exit last, or the next poll; an error ends it as well.
OnPolled ==
  /\ Answered("poll")
  /\ toCaller' = Tail(toCaller)
  /\ LET events == Head(toCaller).events
         heard == [caller EXCEPT !.out = [fd \in Fds |-> @[fd] + Chunks(events, fd)]]
         last == IF events = <<>> THEN [is |-> "exit", status |-> "none"] ELSE Last(events)
     IN IF last.is = "exit" THEN caller' = Finish(heard, last.status) /\ toHost' = toHost
        ELSE caller' = heard /\ toHost' = Append(toHost, "poll")
  /\ UNCHANGED <<kind, child, live, stdin>>

\* The stream's callback: the next chunk, or the end of the ending.
OnWritten ==
  /\ Answered("write") \/ Answered("end")
  /\ toCaller' = Tail(toCaller)
  /\ caller' = IF Head(toCaller).op = "write"
               THEN [caller EXCEPT !.busy = FALSE, !.queued = @ - 1]
               ELSE [caller EXCEPT !.busy = FALSE, !.stdin = "ended"]
  /\ UNCHANGED <<kind, child, live, stdin, toHost>>

\* The answer to proc.spawnSync, with all that was collected.
OnSync ==
  /\ Answered("sync")
  /\ toCaller' = Tail(toCaller)
  /\ caller' = [caller EXCEPT !.state = "closed", !.told = Head(toCaller).status,
       !.out = [fd \in Fds |-> Chunks(Head(toCaller).events, fd)]]
  /\ UNCHANGED <<kind, child, live, stdin, toHost>>

-----------------------------------------------------------------------------
(* The provider *)

Requested(op) == toHost # <<>> /\ Head(toHost) = op

Reply(op) == toCaller' = Append(toCaller, [op |-> op])

OnSpawn ==
  /\ Requested("spawn")
  /\ toHost' = Tail(toHost)
  /\ live' = [live EXCEPT !.phase = "starting"]
  /\ UNCHANGED <<kind, caller, child, stdin, toCaller>>

\* begin, after start answered: ENOENT, or a child with its readers attached and its
\* stdin open or closed for good.  spawnSync goes on to write its input.
Started ==
  /\ live.phase = "starting"
  /\ \/ /\ live' = [live EXCEPT !.phase = "none"]
        /\ toCaller' = Append(toCaller,
             IF kind.call = "spawn" THEN [op |-> "spawn", ok |-> FALSE]
             ELSE [op |-> "sync", status |-> "none", events |-> <<>>])
        /\ UNCHANGED <<child, stdin>>
     \/ /\ live' = [live EXCEPT !.phase = "running", !.found = TRUE,
                                !.stdin = IF kind.stdin = "pipe" THEN "open" ELSE "null"]
        /\ child' = [child EXCEPT !.state = "runs"]
        /\ stdin' = [stdin EXCEPT !.closed = kind.stdin # "pipe",
              !.chunks = IF kind.call = "sync" /\ kind.stdin = "pipe" THEN caller.queued ELSE 0]
        /\ toCaller' = IF kind.call = "spawn"
                       THEN Append(toCaller, [op |-> "spawn", ok |-> TRUE]) ELSE toCaller
  /\ UNCHANGED <<kind, caller, toHost>>

\* Mutation: the event is queued and whoever waits is not woken.
Push_NoWake(l, event) ==
  /\ live' = [l EXCEPT !.events = Append(@, event)]
  /\ toCaller' = toCaller

\* Child.push, and the poll it wakes: all the queue is the answer, and a child whose
\* exit is in it is forgotten.
Push(l, event) ==
  IF l.waiting
  THEN /\ live' = [l EXCEPT !.events = <<>>, !.waiting = FALSE, !.found = @ /\ event.is # "exit"]
       /\ toCaller' = Append(toCaller, [op |-> "poll", events |-> Append(l.events, event)])
  ELSE /\ live' = [l EXCEPT !.events = Append(@, event)]
       /\ toCaller' = toCaller

\* pump: a chunk of a stream of the child.
Pump ==
  /\ live.phase \in {"running", "flushing", "ending"}
  /\ \E fd \in Fds :
       /\ live.pulled[fd] < child.said[fd]
       /\ Push([live EXCEPT !.pulled[fd] = @ + 1], [is |-> fd])
  /\ UNCHANGED <<kind, caller, child, stdin, toHost>>

\* The run has settled, one way or the other; a crash is told on stderr.
Settle ==
  /\ live.phase = "running" /\ child.state \in {"ended", "crashed", "dead"}
  /\ IF child.state = "crashed"
     THEN Push([live EXCEPT !.phase = "flushing", !.status = "failed"], [is |-> "report"])
     ELSE /\ live' = [live EXCEPT !.phase = "flushing", !.status = "code"]
          /\ toCaller' = toCaller
  /\ UNCHANGED <<kind, caller, child, stdin, toHost>>

\* The flush is over, or its half second is: the worker is terminated.
Terminate ==
  /\ live.phase = "flushing"
  /\ live' = [live EXCEPT !.phase = "ending"]
  /\ child' = [child EXCEPT !.state = "dead"]
  /\ UNCHANGED <<kind, caller, stdin, toHost, toCaller>>

Exit == [is |-> "exit", status |-> IF live.killed THEN "signal" ELSE live.status]

\* Mutation: the exit does not wait for the readers.
ReadersEnd_NoWait ==
  /\ live.phase = "ending"
  /\ Push([live EXCEPT !.phase = "exited"], Exit)
  /\ UNCHANGED <<kind, caller, child, stdin, toHost>>

\* Both readers have ended, and the exit is the last event.
ReadersEnd ==
  /\ live.phase = "ending" /\ live.pulled = child.said
  /\ Push([live EXCEPT !.phase = "exited"], Exit)
  /\ UNCHANGED <<kind, caller, child, stdin, toHost>>

\* Mutation: the entry goes when the child has exited, whether or not that was told.
OnPoll_Forgets ==
  /\ Requested("poll")
  /\ toHost' = Tail(toHost)
  /\ IF live.found /\ live.events = <<>>
     THEN live' = [live EXCEPT !.waiting = TRUE] /\ toCaller' = toCaller
     ELSE /\ live' = [live EXCEPT !.events = <<>>, !.found = @ /\ live.phase # "ending"]
          /\ toCaller' = Append(toCaller, [op |-> "poll", events |-> live.events])
  /\ UNCHANGED <<kind, caller, child, stdin>>

\* poll, up to where it waits; a child that is not found has no events, and the answer
\* is the error ESRCH.
OnPoll ==
  /\ Requested("poll")
  /\ toHost' = Tail(toHost)
  /\ IF live.found /\ live.events = <<>>
     THEN live' = [live EXCEPT !.waiting = TRUE] /\ toCaller' = toCaller
     ELSE /\ live' = [live EXCEPT !.events = <<>>,
                                  !.found = @ /\ Last(live.events).is # "exit"]
          /\ toCaller' = Append(toCaller, [op |-> "poll", events |-> live.events])
  /\ UNCHANGED <<kind, caller, child, stdin>>

HasStdin == live.found /\ live.stdin = "open"

\* write: answered when the child has read the chunk, or at once if it has no stdin.
OnWrite ==
  /\ Requested("write")
  /\ toHost' = Tail(toHost)
  /\ IF HasStdin
     THEN stdin' = [stdin EXCEPT !.chunks = @ + 1] /\ toCaller' = toCaller
     ELSE Reply("write") /\ stdin' = stdin
  /\ UNCHANGED <<kind, caller, child, live>>

\* endStdin: no chunk is waiting, for the caller has one request out at a time.
OnEnd ==
  /\ Requested("end")
  /\ toHost' = Tail(toHost)
  /\ stdin' = [stdin EXCEPT !.closed = @ \/ HasStdin]
  /\ live' = [live EXCEPT !.stdin = IF HasStdin THEN "null" ELSE @]
  /\ Reply("end")
  /\ UNCHANGED <<kind, caller, child>>

\* kill: the worker is terminated, and the run's own teardown does the rest.
OnKill ==
  /\ Requested("kill")
  /\ toHost' = Tail(toHost)
  /\ live' = [live EXCEPT !.killed = @ \/ live.found]
  /\ child' = IF live.found /\ child.state = "runs" THEN [child EXCEPT !.state = "dead", !.cut = TRUE] ELSE child
  /\ UNCHANGED <<kind, caller, stdin, toCaller>>

\* spawnSync after its write: stdin is closed.
SyncStdin ==
  /\ kind.call = "sync" /\ HasStdin /\ stdin.chunks = 0
  /\ stdin' = [stdin EXCEPT !.closed = TRUE]
  /\ live' = [live EXCEPT !.stdin = "null"]
  /\ UNCHANGED <<kind, caller, child, toHost, toCaller>>

\* spawnSync after its wait for the child.
SyncDone ==
  /\ kind.call = "sync" /\ live.found /\ live.stdin = "null" /\ live.phase = "exited"
  /\ live' = [live EXCEPT !.found = FALSE]
  /\ toCaller' = Append(toCaller, [op |-> "sync", status |-> Last(live.events).status,
                                   events |-> live.events])
  /\ UNCHANGED <<kind, caller, child, stdin, toHost>>

-----------------------------------------------------------------------------
(* The child *)

Say ==
  /\ child.state = "runs"
  /\ \E fd \in Fds :
       /\ child.said[fd] < MaxOut
       /\ child' = [child EXCEPT !.said[fd] = @ + 1]
  /\ UNCHANGED <<kind, caller, live, stdin, toHost, toCaller>>

\* io.read
Ask ==
  /\ child.state = "runs" /\ ~ stdin.asked
  /\ stdin' = [stdin EXCEPT !.asked = TRUE]
  /\ UNCHANGED <<kind, caller, child, live, toHost, toCaller>>

\* A chunk goes to the read that waits for one, and its write is over: the stream
\* holds nothing for a reader that does not ask.
Take ==
  /\ stdin.asked /\ stdin.chunks > 0
  /\ stdin' = [stdin EXCEPT !.asked = FALSE, !.chunks = @ - 1]
  /\ IF kind.call = "spawn" THEN Reply("write") ELSE toCaller' = toCaller
  /\ UNCHANGED <<kind, caller, child, live, toHost>>

\* It returns, or exits; or it throws, or its worker fails.
Ends ==
  /\ child.state = "runs"
  /\ child' \in {[child EXCEPT !.state = "ended"], [child EXCEPT !.state = "crashed"]}
  /\ UNCHANGED <<kind, caller, live, stdin, toHost, toCaller>>

-----------------------------------------------------------------------------

Init ==
  /\ kind \in [call : {"spawn", "sync"}, stdin : {"pipe", "ignore"}]
  /\ caller = [state |-> "new", stdin |-> "open", wrote |-> 0, queued |-> 0, busy |-> FALSE,
               killed |-> FALSE, out |-> Silent, told |-> None, callbacks |-> 0]
  /\ child = [state |-> "none", said |-> Silent, cut |-> FALSE]
  /\ live = [phase |-> "none", found |-> FALSE, stdin |-> "null", pulled |-> Silent,
             events |-> <<>>, waiting |-> FALSE, killed |-> FALSE, status |-> None]
  /\ stdin = [chunks |-> 0, asked |-> FALSE, closed |-> FALSE]
  /\ toHost = <<>> /\ toCaller = <<>>

CallerStep == SendStdin \/ OnSpawned \/ OnPolled \/ OnWritten \/ OnSync

HostStep ==
  \/ OnSpawn \/ Started \/ Pump \/ Settle \/ Terminate \/ ReadersEnd
  \/ OnPoll \/ OnWrite \/ OnEnd \/ OnKill \/ SyncStdin \/ SyncDone \/ Take

Next ==
  \/ CallerStep \/ HostStep
  \/ Spawn \/ Write \/ End \/ Kill
  \/ Say \/ Ask \/ Ends

Spec == Init /\ [][Next]_vars

\* Messages arrive and promises are acted on; nobody has to write, read or end.
FairSpec == Spec /\ WF_vars(CallerStep) /\ WF_vars(HostStep)

-----------------------------------------------------------------------------
(* Properties *)

\* The variables have their types, and the provider keeps no second poll waiting: it
\* has one place for whom to wake (Child.wake).
TypeOK ==
  /\ caller.state \in {"new", "spawning", "parked", "running", "closed"}
  /\ caller.stdin \in {"open", "ending", "ended"} /\ caller.queued \in 0 .. MaxIn + 1
  /\ caller.told \in {None, "none", "code", "failed", "signal"}
  /\ child.state \in {"none", "runs", "ended", "crashed", "dead"}
  /\ live.phase \in {"none", "starting", "running", "flushing", "ending", "exited"}
  /\ stdin.chunks \in 0 .. 1
  /\ live.waiting => \A i \in 1 .. Len(toHost) : toHost[i] # "poll"

\* A caller that has been told of an exit has every chunk the child wrote, of both its
\* streams, for no chunk is heard after it.
OutputWhole ==
  caller.told \in {"code", "failed", "signal"} => caller.out = child.said

\* The exit that is told is the child's: a signal for a child that was cut short, a
\* signal only to a caller that asked for one, and a failure for a program that crashed.
ExitTrue ==
  /\ child.cut /\ caller.told # None => caller.told = "signal"
  /\ caller.told = "signal" => caller.killed
  /\ caller.told \in {"code", "failed"} => caller.told = live.status

\* A caller that polls finds its child: the entry is kept until the exit has been
\* collected, whatever happened to the child meanwhile.
EntryKept ==
  caller.state = "running" =>
    \/ live.found
    \/ \E i \in 1 .. Len(toCaller) :
         toCaller[i].op = "poll" /\ Last(toCaller[i].events).is = "exit"

\* A child that ends or is killed is told to a caller that did not wait in spawnSync.
ExitTold == kind.call = "spawn" /\ child.state \in {"ended", "crashed", "dead"} ~> caller.told # None

\* Once the child is gone no request of the caller stays out, and holds its run open,
\* but a write the child did not read.
RequestsEnd == caller.state = "closed" ~> ~ caller.busy \/ stdin.chunks > 0

\* spawnSync answers once the program is over ("Run to completion and answer once",
\* process/provider.ts).
SyncAnswers == kind.call = "sync" /\ child.state \in {"ended", "crashed"} ~> caller.told # None

\* The callback of exec is called once (collect).
CallbackOnce == caller.callbacks <= 1
=============================================================================
