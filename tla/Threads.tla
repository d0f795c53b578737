------------------------------- MODULE Threads --------------------------------
(***************************************************************************)
(* A sibling realm: worker_threads.Worker and child_process.fork in the    *)
(* program (worker/node/worker_threads.ts, child_process.ts), the host of  *)
(* threads at the page (lib/index.ts, #installThreadHost), and the thread, *)
(* which is a NodeWorker of its own.  The page places the two ends of one  *)
(* channel and starts the run before it answers; the thread's output and   *)
(* its end come on the control port, which all threads of a program share. *)
(*                                                                         *)
(* Each port keeps its order and no two have one between them: whoever     *)
(* listens takes from whichever it likes.  The thread's program is         *)
(* external; it may take its time to listen to its port.                   *)
(***************************************************************************)
EXTENDS Integers, Sequences, SequencesExt

CONSTANTS
  None,
  MaxOut,    \* bound: chunks the thread prints
  MaxMsgs    \* bound: messages the parent posts

VARIABLES
  kind,      \* "worker" or "fork"; whether an earlier thread opened the control port
  obj,       \* the Worker, or ChildProcess, in the parent
  page,      \* the parent's NodeWorker and the spawn it works on
  thread,    \* the sibling
  toPage, toParent, control, data   \* the ports

vars == <<kind, obj, page, thread, toPage, toParent, control, data>>

-----------------------------------------------------------------------------
(* The parent *)

\* The program runs while its own worker does.
Parent == ~ page.terminated

\* #finish of Worker, which runs once, and of ChildProcess.
Finish(o, code) ==
  IF kind.of = "worker" /\ o.state = "finished" THEN o
  ELSE [o EXCEPT !.state = "finished", !.told = code, !.exits = @ + 1,
                 !.heeds = FALSE, !.port = FALSE]

\* postMessage waits for the port; send of a fork fails without it.
Post ==
  /\ Parent /\ obj.posted < MaxMsgs
  /\ IF obj.port
     THEN /\ obj' = [obj EXCEPT !.posted = @ + 1]
          /\ data' = Append(data, obj.posted + 1)
     ELSE /\ kind.of = "worker"
          /\ obj' = [obj EXCEPT !.posted = @ + 1, !.queued = Append(@, obj.posted + 1)]
          /\ data' = data
  /\ UNCHANGED <<kind, page, thread, toPage, toParent, control>>

\* terminate of Worker, and kill of a fork: the page is asked if the realm is known.
Stop ==
  /\ Parent /\ ~ obj.asked
  /\ IF obj.known
     THEN /\ obj' = [obj EXCEPT !.asked = TRUE, !.stopping = TRUE]
          /\ toPage' = Append(toPage, "terminate")
     ELSE /\ obj' = IF kind.of = "worker" THEN Finish([obj EXCEPT !.asked = TRUE], "stopped")
                    ELSE [obj EXCEPT !.asked = TRUE]
          /\ toPage' = toPage
  /\ UNCHANGED <<kind, page, thread, toParent, control, data>>

Answered(op) == Parent /\ toParent # <<>> /\ Head(toParent) = op

\* spawnRealm has its answer: the ports, which came before it, and what was queued.
OnSpawned ==
  /\ Answered("spawned")
  /\ toParent' = Tail(toParent)
  /\ obj' = [obj EXCEPT !.known = TRUE, !.heeds = TRUE, !.port = TRUE, !.queued = <<>>,
                        !.state = IF @ = "starting" THEN "online" ELSE @]
  /\ data' = obj.queued
  /\ UNCHANGED <<kind, page, thread, toPage, control>>

OnSpawnFailed ==
  /\ Answered("failed")
  /\ toParent' = Tail(toParent)
  /\ obj' = Finish(obj, "failed")
  /\ UNCHANGED <<kind, page, thread, toPage, control, data>>

\* terminateRealm is answered: a Worker is finished then, a fork when it hears so.
OnStopped ==
  /\ Answered("stopped")
  /\ toParent' = Tail(toParent)
  /\ obj' = IF kind.of = "worker" THEN Finish(obj, "stopped") ELSE obj
  /\ UNCHANGED <<kind, page, thread, toPage, control, data>>

\* A message of the control port, heard from when a thread of this program first was
\* attached, and dropped when no handler is registered for its thread.
OnControl ==
  /\ Parent /\ control # <<>> /\ (kind.earlier \/ obj.known)
  /\ control' = Tail(control)
  /\ obj' = IF ~ obj.heeds THEN obj
            ELSE IF Head(control) = "chunk" THEN [obj EXCEPT !.out = @ + 1]
            ELSE IF Head(control) = "error" THEN obj
            ELSE Finish(obj, "exit")
  /\ UNCHANGED <<kind, page, thread, toPage, toParent, data>>

-----------------------------------------------------------------------------
(* The page *)

Requested(op) == toPage # <<>> /\ Head(toPage) = op

OnSpawn ==
  /\ Requested("spawn")
  /\ toPage' = Tail(toPage)
  /\ page' = [page EXCEPT !.spawn = "sibling"]
  /\ UNCHANGED <<kind, obj, thread, toParent, control, data>>

\* spawnSibling has its answer, and looks whether the parent is still there.
SiblingMade ==
  /\ page.spawn = "sibling"
  /\ \/ /\ page.terminated
        /\ thread' = [thread EXCEPT !.state = "dead"]
        /\ page' = [page EXCEPT !.spawn = "failed"] /\ toParent' = toParent
     \/ /\ ~ page.terminated
        /\ thread' = [thread EXCEPT !.state = "made"]
        /\ page' = [page EXCEPT !.spawn = "placing"] /\ toParent' = toParent
     \/ /\ ~ page.terminated
        /\ page' = [page EXCEPT !.spawn = "failed"] /\ thread' = thread
        /\ toParent' = Append(toParent, "failed")
  /\ UNCHANGED <<kind, obj, toPage, control, data>>

\* Mutation: the run is started for a parent that is gone.
RunStarts_NoLook ==
  /\ page.spawn = "placing"
  /\ \E early \in BOOLEAN :
       thread' = [thread EXCEPT !.state = "runs", !.early = early, !.listens = early]
  /\ page' = [page EXCEPT !.spawn = "done", !.threads = TRUE]
  /\ toParent' = Append(toParent, "spawned")
  /\ UNCHANGED <<kind, obj, toPage, control, data>>

\* The ports are placed, which needs a parent that is ready: the thread is entered and
\* its run started, and the answer follows.  A program listens in the turn that starts
\* it, or later.
RunStarts ==
  /\ page.spawn = "placing"
  /\ IF page.terminated
     THEN page' = [page EXCEPT !.spawn = "failed"] /\ UNCHANGED <<thread, toParent>>
     ELSE /\ \E early \in BOOLEAN :
               thread' = [thread EXCEPT !.state = "runs", !.early = early, !.listens = early]
          /\ page' = [page EXCEPT !.spawn = "done", !.threads = TRUE]
          /\ toParent' = Append(toParent, "spawned")
  /\ UNCHANGED <<kind, obj, toPage, control, data>>

\* forward: the reader of the thread's output.
Forward ==
  /\ page.pulled < thread.said
  /\ page' = [page EXCEPT !.pulled = @ + 1]
  /\ control' = Append(control, "chunk")
  /\ UNCHANGED <<kind, obj, thread, toPage, toParent, data>>

\* The run has settled: the thread is terminated, and a crash is told.
Settle ==
  /\ page.spawn = "done" /\ thread.state \in {"ended", "crashed", "dead"}
  /\ page' = [page EXCEPT !.spawn = "ending"]
  /\ thread' = [thread EXCEPT !.state = "dead"]
  /\ control' = IF thread.state = "crashed" THEN Append(control, "error") ELSE control
  /\ UNCHANGED <<kind, obj, toPage, toParent, data>>

ReadersEnd ==
  /\ page.spawn = "ending" /\ page.pulled = thread.said
  /\ page' = [page EXCEPT !.spawn = "over", !.threads = FALSE]
  /\ control' = Append(control, "exit")
  /\ UNCHANGED <<kind, obj, thread, toPage, toParent, data>>

Killed == IF page.threads /\ thread.state = "runs" THEN [thread EXCEPT !.state = "dead"] ELSE thread

\* nw:thread.terminate
OnTerminate ==
  /\ Requested("terminate")
  /\ toPage' = Tail(toPage)
  /\ thread' = Killed
  /\ toParent' = Append(toParent, "stopped")
  /\ UNCHANGED <<kind, obj, page, control, data>>

\* terminate of the parent's NodeWorker.
PageTerminates ==
  /\ Parent
  /\ page' = [page EXCEPT !.terminated = TRUE]
  /\ thread' = Killed
  /\ UNCHANGED <<kind, obj, toPage, toParent, control, data>>

-----------------------------------------------------------------------------
(* The thread *)

Runs == thread.state = "runs"

Speak ==
  /\ Runs /\ thread.said < MaxOut
  /\ thread' = [thread EXCEPT !.said = @ + 1]
  /\ UNCHANGED <<kind, obj, page, toPage, toParent, control, data>>

Listen ==
  /\ Runs /\ ~ thread.listens
  /\ thread' = [thread EXCEPT !.listens = TRUE]
  /\ UNCHANGED <<kind, obj, page, toPage, toParent, control, data>>

\* initThread has started the port: a message is for whoever listens, or for nobody.
Receive ==
  /\ Runs /\ data # <<>>
  /\ data' = Tail(data)
  /\ thread' = IF thread.listens THEN [thread EXCEPT !.heard = Append(@, Head(data))]
               ELSE [thread EXCEPT !.missed = @ + 1]
  /\ UNCHANGED <<kind, obj, page, toPage, toParent, control>>

Ends ==
  /\ Runs
  /\ thread' \in {[thread EXCEPT !.state = "ended"], [thread EXCEPT !.state = "crashed"]}
  /\ UNCHANGED <<kind, obj, page, toPage, toParent, control, data>>

-----------------------------------------------------------------------------

Init ==
  /\ kind \in [of : {"worker", "fork"}, earlier : BOOLEAN]
  /\ obj = [state |-> "starting", known |-> FALSE, port |-> FALSE, heeds |-> FALSE,
            asked |-> FALSE, stopping |-> FALSE, posted |-> 0, queued |-> <<>>,
            out |-> 0, told |-> None, exits |-> 0]
  /\ page = [terminated |-> FALSE, spawn |-> "none", threads |-> FALSE, pulled |-> 0]
  /\ thread = [state |-> "none", early |-> FALSE, listens |-> FALSE, said |-> 0,
               heard |-> <<>>, missed |-> 0]
  /\ toPage = <<"spawn">> /\ toParent = <<>> /\ control = <<>> /\ data = <<>>

ParentStep == OnSpawned \/ OnSpawnFailed \/ OnStopped \/ OnControl

PageStep ==
  \/ OnSpawn \/ SiblingMade \/ RunStarts \/ Forward \/ Settle \/ ReadersEnd \/ OnTerminate

Next ==
  \/ ParentStep \/ PageStep \/ PageTerminates
  \/ Post \/ Stop
  \/ Speak \/ Listen \/ Receive \/ Ends

Spec == Init /\ [][Next]_vars

\* Messages arrive and promises are acted on; no program has to do anything.
FairSpec == Spec /\ WF_vars(ParentStep) /\ WF_vars(PageStep)

-----------------------------------------------------------------------------
(* Properties *)

\* The variables have their types, and the program is told of one end only, of a
\* thread that was stopped before it was known as well (#finish, forgetRealm).
TypeOK ==
  /\ obj.state \in {"starting", "online", "finished"}
  /\ obj.told \in {None, "exit", "failed", "stopped"}
  /\ obj.exits = IF obj.told = None THEN 0 ELSE 1
  /\ page.spawn \in {"none", "sibling", "placing", "done", "ending", "over", "failed"}
  /\ thread.state \in {"none", "made", "runs", "ended", "crashed", "dead"}

\* A program that hears the exit of its first thread has all that the thread printed.
OutputWhole == ~ kind.earlier /\ obj.told = "exit" => obj.out = thread.said

\* A thread that listens as it starts hears what was posted from the first message on,
\* in order, the messages that were posted before it was there included.
InOrder == thread.early => thread.heard = [i \in 1 .. Len(thread.heard) |-> i]

\* No thread's program runs on when its parent's NodeWorker has been terminated, at
\* whatever point of the spawn that was.
NothingRunsOn == page.terminated => thread.state # "runs"

\* The first thread's end is told, so that it does not hold its parent's run open.
ExitTold ==
  ~ kind.earlier /\ thread.state \in {"ended", "crashed", "dead"}
    ~> obj.state = "finished" \/ page.terminated

\* A thread that is asked to stop stops, once the spawn has been answered.
StopWorks == obj.stopping ~> thread.state # "runs"

\* The same, of whichever thread: the control port has no order with the answer.
EveryExitTold ==
  thread.state \in {"ended", "crashed", "dead"} ~> obj.state = "finished" \/ page.terminated

\* A thread stops whenever it is asked to.
StopAlwaysWorks == obj.asked ~> thread.state # "runs"

\* A message posted to a thread is queued rather than dropped (postMessage).
QueuedNotDropped == thread.missed = 0
=============================================================================
