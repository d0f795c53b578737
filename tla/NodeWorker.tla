------------------------------ MODULE NodeWorker ------------------------------
(***************************************************************************)
(* A NodeWorker from its start to its end: the page's object               *)
(* (lib/index.ts), the thread that runs one program (worker/index.ts,      *)
(* exit.ts, stdio.ts, keepalive.ts) and the port between them.  The page   *)
(* starts in steps, each of which terminate may overtake; the program runs *)
(* in turns, may end by returning, by process.exit or in an exit handler   *)
(* that never returns; what it prints rides on its messages; and the page  *)
(* learns of the end by the answer to ctl.execute, by ctl.exit, or by a    *)
(* deadline.                                                               *)
(*                                                                         *)
(* Keepalive is on.  A program starts requests and a timer, prints, asks   *)
(* for one host resource, and runs once.                                   *)
(***************************************************************************)
EXTENDS Integers, Sequences, FiniteSets

CONSTANTS
  None,
  RequireSyncFs,  \* options.requireSyncFs
  MaxOps,     \* bound: requests the program starts
  MaxPrints   \* bound: chunks the program prints

VARIABLES
  page,      \* NodeWorker
  run,       \* the run the host asked for, and how it ended
  owned,     \* a resource the worker asked the page for
  stdout,    \* Console: chunks in its write chain, chunks its reader took
  program,   \* where the worker's thread is
  loop,      \* keepalive.ts, and the macrotasks of the thread
  toPage, toWorker

vars == <<page, run, owned, stdout, program, loop, toPage, toWorker>>

worker == <<program, loop>>

-----------------------------------------------------------------------------
(***************************************************************************)
(* keepalive.ts, what holds a run open: a count of the handles and         *)
(* requests that live, and a drain that ends when the count is zero and    *)
(* still is one macrotask later.  A request that completes lets go a turn  *)
(* late, so that what its completion starts is counted before.             *)
(*                                                                         *)
(* The state of a thread is a record l, which the operations here take to  *)
(* the next; a turn of the thread is one step, with the microtasks it      *)
(* leaves.  Macrotasks made with setTimeout(0) run in the order made.      *)
(***************************************************************************)

\* No handle, no request; the drain has not started.
NewLoop == [refs |-> 0, ops |-> 0, timers |-> 0, deferred |-> 0, drain |-> "off", tasks |-> <<>>]

SetTimeout(l, task) == [l EXCEPT !.tasks = Append(@, task)]

\* ref
Ref(l) == [l EXCEPT !.refs = @ + 1]

\* Mutation: the count is believed at once.
Unref_Trusting(l) ==
  LET last == l.refs = 1 /\ l.drain = "waiting"
  IN IF l.refs = 0 THEN l
     ELSE [l EXCEPT !.refs = @ - 1, !.drain = IF last THEN "over" ELSE @]

\* unref: the last one wakes the drain, which looks again a macrotask later.
Unref(l) ==
  LET last == l.refs = 1 /\ l.drain = "waiting"
  IN IF l.refs = 0 THEN l
     ELSE IF last THEN SetTimeout([l EXCEPT !.refs = 0, !.drain = "turn"], "recheck")
     ELSE [l EXCEPT !.refs = @ - 1]

\* refOperation
StartOp(l) == Ref([l EXCEPT !.ops = @ + 1])

\* The release function of refOperation: one task lets go of all that ended.
EndOp(l) ==
  LET ended == [l EXCEPT !.ops = @ - 1, !.deferred = @ + 1]
  IN IF l.deferred = 0 THEN SetTimeout(ended, "unrefs") ELSE ended

\* flushDeferredUnrefs
FlushDeferredUnrefs(l) ==
  LET few == [l EXCEPT !.refs = @ - l.deferred + 1, !.deferred = 0]
  IN Unref(few)

\* A refed handle of the program, of which a timer is the example.
StartTimer(l) == Ref([l EXCEPT !.timers = @ + 1])

EndTimer(l) == Unref([l EXCEPT !.timers = @ - 1])

\* drain, up to its first wait.
Drain(l) ==
  IF l.refs > 0 THEN [l EXCEPT !.drain = "waiting"]
  ELSE SetTimeout([l EXCEPT !.drain = "turn"], "recheck")

\* The end of nextMacrotask in drain.
Recheck(l) == [l EXCEPT !.drain = IF l.refs = 0 THEN "over" ELSE "waiting"]

-----------------------------------------------------------------------------
(* The port *)

\* The exit codes of a program that returned, and of one that called process.exit.
Ok == "ok"
Status == "status"

\* What a program that threw answers with instead.
Threw == "threw"

\* Whatever the worker sends takes along what was printed (OutboundQueue.drain).
Message(is, code) == [is |-> is, code |-> code, out |-> program.printed]

\* A reply takes nothing along.
Reply(is, code) == [is |-> is, code |-> code, out |-> 0]

-----------------------------------------------------------------------------
(* The start *)

\* The user is known; what comes next is the service worker, if there is one.
UserArrives ==
  /\ page.phase = "user"
  /\ page' = [page EXCEPT !.phase = IF page.terminated THEN "failed" ELSE "attach"]
  /\ UNCHANGED <<run, owned, stdout, worker, toPage, toWorker>>

Failed == [page EXCEPT !.phase = "failed"]

\* What attachSession leaves: a session with its listeners; none, when it fails or no
\* service worker is named; or one that comes after terminate(), which looked for it
\* before it was there.
Attachments == IF page.terminated THEN {"none", "late"} ELSE {"none", "open"}

\* Mutation: terminate is looked at before the attach, not after it.
Attached_NoLook ==
  /\ page.phase = "attach"
  /\ \E a \in {"none", "open"} :
       page' = [page EXCEPT !.phase = "boot", !.worker = "alive", !.attachment = a]
  /\ toWorker' = <<"init">>
  /\ UNCHANGED <<run, owned, stdout, worker, toPage>>

\* attachSession is over: the worker is made, unless there has to be a session or the
\* page has no use for the worker any more.
Attached ==
  /\ page.phase = "attach"
  /\ \E a \in Attachments :
       \/ /\ page.terminated \/ (RequireSyncFs /\ a = "none")
          /\ page' = [Failed EXCEPT !.attachment = a]
          /\ toWorker' = toWorker
       \/ /\ ~ page.terminated
          /\ RequireSyncFs => a # "none"
          /\ page' = [page EXCEPT !.phase = "boot", !.worker = "alive", !.attachment = a]
          /\ toWorker' = <<"init">>
  /\ UNCHANGED <<run, owned, stdout, worker, toPage>>

\* The answer to ctl.init, with what the probe of the filesystem found.
Ready ==
  /\ toPage # <<>> /\ Head(toPage).is = "ready"
  /\ toPage' = Tail(toPage)
  /\ page' \in {[page EXCEPT !.phase = "ready"], Failed}
  /\ UNCHANGED <<run, owned, stdout, worker, toWorker>>

-----------------------------------------------------------------------------
(* The run, seen from the page *)

Settled == run.result # None

\* settleRun: the run waits for ready.
Execute ==
  /\ ~ run.asked
  /\ run' = [run EXCEPT !.asked = TRUE]
  /\ UNCHANGED <<page, owned, stdout, worker, toPage, toWorker>>

SendExecute ==
  /\ run.asked /\ ~ Settled /\ ~ run.sent
  /\ page.phase = "ready" /\ ~ page.terminated
  /\ run' = [run EXCEPT !.sent = TRUE]
  /\ toWorker' = Append(toWorker, "execute")
  /\ UNCHANGED <<page, owned, stdout, worker, toPage>>

\* ready rejected, for the start that failed or the worker that was terminated.
NeverStarts ==
  /\ run.asked /\ ~ Settled /\ ~ run.sent
  /\ page.phase = "failed" \/ page.terminated
  /\ run' = [run EXCEPT !.result = "error"]
  /\ UNCHANGED <<page, owned, stdout, worker, toPage, toWorker>>

\* The state after terminate(reason), of which the second call does nothing: calls in
\* flight fail, the session is detached, resources are closed, the port and the thread are gone.
Terminate(reason, p) ==
  IF page.terminated
  THEN page' = p /\ UNCHANGED <<run, owned, toPage, toWorker>>
  ELSE /\ page' = [p EXCEPT !.terminated = TRUE,
                            !.worker = IF @ = "alive" THEN "dead" ELSE @,
                            !.phase = IF @ = "boot" THEN "failed" ELSE @,
                            !.attachment = IF @ = "open" THEN "none" ELSE @]
       /\ run' = IF run.sent /\ ~ Settled THEN [run EXCEPT !.result = reason] ELSE run
       /\ owned' = IF owned = "open" THEN "closed" ELSE owned
       /\ toPage' = <<>> /\ toWorker' = <<>>

HostTerminates ==
  /\ ~ page.terminated
  /\ Terminate("error", page)
  /\ UNCHANGED <<stdout, worker>>

-----------------------------------------------------------------------------
(* What the page does with a message of the worker *)

Gets(is) == toPage # <<>> /\ Head(toPage).is = is

\* The chunks that ride on a message enter the write chain in a microtask of their own
\* (deliverSidebands), by the time anything else is looked at.
Written == [stdout EXCEPT !.has = IF Head(toPage).out > @ THEN Head(toPage).out ELSE @]

\* ctl.execute is answered.
OnReturned ==
  /\ Gets("returned")
  /\ toPage' = Tail(toPage)
  /\ run' = IF Settled THEN run ELSE [run EXCEPT !.result = Head(toPage).code]
  /\ UNCHANGED <<page, owned, stdout, worker, toWorker>>

\* ctl.exiting
OnExiting ==
  /\ Gets("exiting")
  /\ toPage' = Tail(toPage)
  /\ stdout' = Written
  /\ page' = [page EXCEPT !.deadline = Head(toPage).code]
  /\ UNCHANGED <<run, owned, worker, toWorker>>

\* ctl.exit: the exit listeners have their turn first.
OnExit ==
  /\ Gets("exit")
  /\ toPage' = Tail(toPage)
  /\ stdout' = Written
  /\ page' = [page EXCEPT !.deadline = None, !.listening = Head(toPage).code]
  /\ UNCHANGED <<run, owned, worker, toWorker>>

\* The listeners are through, or their second is over.
ListenersDone ==
  /\ page.listening # None
  /\ Terminate(page.listening, [page EXCEPT !.listening = None])
  /\ UNCHANGED <<stdout, worker>>

\* The deadline set by ctl.exiting.
ExitDeadline ==
  /\ page.deadline # None
  /\ Terminate(page.deadline, [page EXCEPT !.deadline = None])
  /\ UNCHANGED <<stdout, worker>>

\* io.flush, and what stdio sends when nothing else does.  A flush waits for the chain as
\* it finds it: what rides on the flush itself joins the chain just after.
OnFlush ==
  /\ Gets("flush") \/ Gets("stdio")
  /\ toPage' = Tail(toPage)
  /\ stdout' = [Written EXCEPT !.flushes =
       IF Head(toPage).is = "flush" THEN Append(@, stdout.has) ELSE @]
  /\ UNCHANGED <<page, run, owned, worker, toWorker>>

\* A chunk is accepted by whoever reads stdout.
ReaderTakes ==
  /\ stdout.taken < stdout.has
  /\ stdout' = [stdout EXCEPT !.taken = @ + 1]
  /\ UNCHANGED <<page, run, owned, worker, toPage, toWorker>>

\* The write chain has come as far as the flush waits for.
Flushed ==
  /\ stdout.flushes # <<>> /\ Head(stdout.flushes) <= stdout.taken
  /\ stdout' = [stdout EXCEPT !.flushes = Tail(@)]
  /\ toWorker' = IF page.terminated THEN toWorker ELSE Append(toWorker, "flushed")
  /\ UNCHANGED <<page, run, owned, worker, toPage>>

\* peer.serve and the like: the page begins to make the resource.
OnServe ==
  /\ Gets("serve")
  /\ toPage' = Tail(toPage)
  /\ stdout' = Written
  /\ owned' = "coming"
  /\ UNCHANGED <<page, run, worker, toWorker>>

\* #track: what comes after terminate is closed at once.
Track ==
  /\ owned = "coming"
  /\ owned' = IF page.terminated THEN "closed" ELSE "open"
  /\ UNCHANGED <<page, run, stdout, worker, toPage, toWorker>>

-----------------------------------------------------------------------------
(* The thread *)

Alive == page.worker = "alive" /\ ~ program.wedged

OnInit ==
  /\ Alive /\ toWorker # <<>> /\ Head(toWorker) = "init"
  /\ toWorker' = Tail(toWorker)
  /\ toPage' = Append(toPage, Reply("ready", Ok))
  /\ UNCHANGED <<page, run, owned, stdout, worker>>

\* Mutation: the exit is announced with the rest, after the handlers.
Exit_NoAnnounce(p, l) ==
  \/ /\ program' = [p EXCEPT !.exit = "handlers", !.wedged = TRUE, !.said = p.printed]
     /\ loop' = l /\ toPage' = toPage
  \/ /\ program' = [p EXCEPT !.exit = "flush", !.said = p.printed]
     /\ loop' = SetTimeout(StartTimer(l), "exitFlush")
     /\ toPage' = Append(toPage, Message("exiting", Status))

\* process.exit: announceExit, the handlers of the program, which may block the
\* thread for good, and requestExit up to its flush, with the timer that bounds it.
Exit(p, l) ==
  /\ toPage' = Append(toPage, Message("exiting", Status))
  /\ \/ /\ program' = [p EXCEPT !.exit = "handlers", !.wedged = TRUE, !.said = p.printed]
        /\ loop' = l
     \/ /\ program' = [p EXCEPT !.exit = "flush", !.said = p.printed]
        /\ loop' = SetTimeout(StartTimer(l), "exitFlush")

\* The rest of a turn that leaves the thread in p and its loop in l: the program does
\* one thing more, or nothing.  Chunks leave by a task of their own, if no message
\* takes them along.
Works(p, l) ==
  \/ program' = p /\ loop' = l /\ toPage' = toPage
  \/ /\ p.started < MaxOps
     /\ program' = [p EXCEPT !.started = @ + 1]
     /\ loop' = StartOp(l) /\ toPage' = toPage
  \/ /\ ~ p.timed
     /\ program' = [p EXCEPT !.timed = TRUE]
     /\ loop' = StartTimer(l) /\ toPage' = toPage
  \/ /\ p.printed < MaxPrints
     /\ program' = [p EXCEPT !.printed = @ + 1]
     /\ loop' = SetTimeout(l, "stdio") /\ toPage' = toPage
  \/ /\ ~ p.served
     /\ program' = [p EXCEPT !.served = TRUE]
     /\ loop' = l /\ toPage' = Append(toPage, Message("serve", Ok))

\* A callback: the throw of process.exit ends nothing but the callback.
Callback(p, l) == Works(p, l) \/ (p.exit = "no" /\ Exit(p, l))

\* A turn of the module itself, which the throw unwinds.
ModuleRuns(p, l) ==
  Works(p, l) \/ (p.exit = "no" /\ Exit([p EXCEPT !.stage = "unwound"], l))

\* flushConsole begins: its request leaves a macrotask later.
Ending(p, l, code) ==
  /\ program' = [p EXCEPT !.stage = "flush", !.code = code,
                          !.said = IF p.exit = "no" THEN p.printed ELSE @]
  /\ loop' = SetTimeout([l EXCEPT !.drain = "off"], "endFlush")

\* ctl.execute: the first turn of the module.
OnExecute ==
  /\ Alive /\ toWorker # <<>> /\ Head(toWorker) = "execute"
  /\ toWorker' = Tail(toWorker)
  /\ ModuleRuns([program EXCEPT !.stage = "module"], loop)
  /\ UNCHANGED <<page, run, owned, stdout>>

\* A module that awaits at its top has more turns.
ModuleGoesOn ==
  /\ Alive /\ program.stage = "module"
  /\ ModuleRuns(program, loop)
  /\ UNCHANGED <<page, run, owned, stdout, toWorker>>

\* The module is through, and the run waits for the loop, unless process.exit ended it.
ModuleEnds ==
  /\ Alive
  /\ \/ /\ program.stage = "module"
        /\ program' = [program EXCEPT !.stage = "drain"]
        /\ loop' = Drain(loop)
     \/ program.stage = "unwound" /\ Ending(program, loop, Status)
  /\ UNCHANGED <<page, run, owned, stdout, toPage, toWorker>>

\* An error of the module is the answer, at once.
ModuleThrows ==
  /\ Alive /\ program.stage = "module"
  /\ program' = [program EXCEPT !.stage = "replied",
                                !.said = IF program.exit = "no" THEN program.printed ELSE @]
  /\ toPage' = Append(toPage, Reply("returned", Threw))
  /\ UNCHANGED <<page, run, owned, stdout, loop, toWorker>>

\* A callback of the program is a turn of its own.
Turns == Alive /\ program.stage # "none"

\* A request is answered, and the program goes on from there.
OpCompletes ==
  /\ Turns /\ loop.ops > Len(program.flushes)
  /\ Callback(program, EndOp(loop))
  /\ UNCHANGED <<page, run, owned, stdout, toWorker>>

\* The timer fires: its callback first, then the handle lets go.
TimerFires ==
  /\ Turns /\ program.timed /\ ~ program.fired
  /\ Callback([program EXCEPT !.fired = TRUE], EndTimer(loop))
  /\ UNCHANGED <<page, run, owned, stdout, toWorker>>

\* The half second of requestExit is over, whether or not anything still waits for it.
GraceEnds ==
  /\ Alive /\ program.exit \in {"asked", "told"} /\ ~ program.graced
  /\ program' = [program EXCEPT !.graced = TRUE, !.exit = "told"]
  /\ loop' = EndTimer(loop)
  /\ toPage' = IF program.exit = "asked" THEN Append(toPage, Message("exit", Status)) ELSE toPage
  /\ UNCHANGED <<page, run, owned, stdout, toWorker>>

Task(name) == Alive /\ loop.tasks # <<>> /\ Head(loop.tasks) = name

NextTask == [loop EXCEPT !.tasks = Tail(@)]

\* schedule in stdio.ts
StdioTask ==
  /\ Task("stdio")
  /\ loop' = NextTask
  /\ toPage' = Append(toPage, Message("stdio", Ok))
  /\ UNCHANGED <<page, run, owned, stdout, program, toWorker>>

UnrefsTask ==
  /\ Task("unrefs")
  /\ loop' = FlushDeferredUnrefs(NextTask)
  /\ UNCHANGED <<page, run, owned, stdout, program, toPage, toWorker>>

RecheckTask ==
  /\ Task("recheck")
  /\ loop' = Recheck(NextTask)
  /\ UNCHANGED <<page, run, owned, stdout, program, toPage, toWorker>>

\* drain has returned: takeExitCode, which knows nothing of an exit in a callback.
DrainEnds ==
  /\ Alive /\ program.stage = "drain" /\ loop.drain = "over"
  /\ Ending(program, loop, Ok)
  /\ UNCHANGED <<page, run, owned, stdout, toPage, toWorker>>

\* Mutation: the answer goes out while the flush is under way.
FlushTask_NoWait ==
  /\ \/ /\ Task("exitFlush")
        /\ program' = [program EXCEPT !.exit = "asked", !.flushes = Append(@, "exit")]
        /\ toPage' = Append(toPage, Message("flush", Ok))
     \/ /\ Task("endFlush")
        /\ program' = [program EXCEPT !.stage = "replied"]
        /\ toPage' = Append(toPage, Reply("returned", program.code))
  /\ loop' = StartOp(NextTask)
  /\ UNCHANGED <<page, run, owned, stdout, toWorker>>

\* flushConsole after its macrotask: the request for an exit, or that of an ending.
FlushTask ==
  /\ \/ Task("exitFlush") /\ program' = [program EXCEPT !.exit = "asked", !.flushes = Append(@, "exit")]
     \/ Task("endFlush") /\ program' = [program EXCEPT !.flushes = Append(@, "end")]
  /\ loop' = StartOp(NextTask)
  /\ toPage' = Append(toPage, Message("flush", Ok))
  /\ UNCHANGED <<page, run, owned, stdout, toWorker>>

\* A flush is answered: ctl.exit leaves, if the half second has not sent it, or the
\* answer to ctl.execute.
OnFlushed ==
  /\ Alive /\ toWorker # <<>> /\ Head(toWorker) = "flushed"
  /\ toWorker' = Tail(toWorker)
  /\ loop' = EndOp(loop)
  /\ LET whose == Head(program.flushes)
         p == [program EXCEPT !.flushes = Tail(@)]
     IN \/ /\ whose = "exit" /\ program.exit = "asked"
           /\ program' = [p EXCEPT !.exit = "told"]
           /\ toPage' = Append(toPage, Message("exit", Status))
        \/ /\ whose = "exit" /\ program.exit # "asked"
           /\ program' = p /\ toPage' = toPage
        \/ /\ whose = "end"
           /\ program' = [p EXCEPT !.stage = "replied"]
           /\ toPage' = Append(toPage, Reply("returned", program.code))
  /\ UNCHANGED <<page, run, owned, stdout>>

-----------------------------------------------------------------------------

Init ==
  /\ page = [phase |-> "user", terminated |-> FALSE, worker |-> "none",
             attachment |-> "none", deadline |-> None, listening |-> None]
  /\ run = [asked |-> FALSE, sent |-> FALSE, result |-> None]
  /\ owned = "none"
  /\ stdout = [has |-> 0, taken |-> 0, flushes |-> <<>>]
  /\ program = [stage |-> "none", code |-> Ok, exit |-> "no", wedged |-> FALSE, graced |-> FALSE,
                started |-> 0, timed |-> FALSE, fired |-> FALSE, served |-> FALSE,
                printed |-> 0, said |-> 0, flushes |-> <<>>]
  /\ loop = NewLoop
  /\ toPage = <<>> /\ toWorker = <<>>

PageStep ==
  \/ UserArrives \/ Attached \/ Ready \/ SendExecute \/ NeverStarts
  \/ OnReturned \/ OnExiting \/ OnExit \/ OnFlush \/ OnServe \/ Flushed \/ Track
  \/ ListenersDone

ThreadStep ==
  \/ OnInit \/ OnExecute \/ StdioTask \/ UnrefsTask \/ RecheckTask
  \/ FlushTask \/ DrainEnds \/ OnFlushed \/ GraceEnds

Next ==
  \/ PageStep \/ ThreadStep \/ ExitDeadline
  \/ Execute \/ HostTerminates \/ ReaderTakes
  \/ ModuleGoesOn \/ ModuleEnds \/ ModuleThrows \/ OpCompletes \/ TimerFires

Spec == Init /\ [][Next]_vars

-----------------------------------------------------------------------------
(* Properties *)

\* The variables have their types, and the count of keepalive.ts is that of what
\* lives and of what ended in this turn (ref, unref, refOperation).
TypeOK ==
  /\ page.phase \in {"user", "attach", "boot", "ready", "failed"}
  /\ page.worker \in {"none", "alive", "dead"}
  /\ page.attachment \in {"none", "open", "late"}
  /\ {page.deadline, page.listening} \subseteq {None, Status}
  /\ run.result \in {None, "error", Ok, Status, Threw}
  /\ owned \in {"none", "coming", "open", "closed"}
  /\ stdout.taken <= stdout.has /\ stdout.has <= program.printed
  /\ program.stage \in {"none", "module", "unwound", "drain", "flush", "replied"}
  /\ program.exit \in {"no", "handlers", "flush", "asked", "told"}
  /\ loop.refs = loop.ops + loop.timers + loop.deferred

\* Nothing of a terminated worker lives on: no thread is there or will be made, no
\* resource of the page is open, no run is left waiting for it (terminate, #track,
\* the start in steps), and its session is detached.  One thing does live on, and
\* is excepted: a session that was being attached when terminate() came ("late"),
\* which nobody detaches.
NothingOutlives ==
  page.terminated =>
    /\ page.worker # "alive" /\ page.phase # "boot"
    /\ page.attachment # "open"
    /\ owned # "open"
    /\ run.sent => Settled

\* A run that returned has had all it printed accepted by whoever reads stdout; one
\* that called process.exit, all it had printed by then queued for them, for a reader
\* that stalls does not hold up an exit (flushConsole, requestExit).
OutputFirst ==
  /\ run.result = Ok => stdout.taken >= program.said
  /\ run.result = Status => stdout.has >= program.said

\* A program is taken for finished only when no request and no timer of it lives and
\* nothing that just completed has gone on to start one (drain, refOperation).
DrainIsIdle ==
  program.stage = "drain" /\ loop.drain = "over" => loop.ops = 0 /\ loop.timers = 0

\* A run whose program calls process.exit settles: exit handlers that block the
\* thread, a reader of stdout that stalls, an exit listener that hangs do not prevent
\* it (announceExit, requestExit and the deadlines of the page).
ExitSettles == program.exit # "no" ~> Settled

\* A run whose program called process.exit ends with the status given to it, or with
\* the host's own terminate: the doc of require in lib/index.ts.
ExitStatus ==
  [][~ Settled /\ program.exit # "no" => run'.result \in {None, Status, "error"}]_run

\* When a run that threw is told so, what the program printed is in the write chain:
\* the comment on flushConsole in worker/index.ts, of the answer to ctl.execute.
OutputBeforeReply == run.result = Threw => stdout.has >= program.said
=============================================================================
