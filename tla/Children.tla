------------------------------ MODULE Children ---------------------------------
(***************************************************************************)
(* What a program starts and what it is heard by: a process, which is a     *)
(* NodeWorker that its page makes (Processes), or a thread, which is a      *)
(* sibling that shares its page's file system and ports (Threads); the      *)
(* service worker its blocking calls go through (Attach), the port to the   *)
(* page (Endpoint), and the standard streams on either side of it           *)
(* (Terminal).  One of them is taken in a behaviour.  What they promise is   *)
(* of one kind: output is whole and in order, an end is told, and what is   *)
(* asked is answered.                                                      *)
(***************************************************************************)
EXTENDS Integers, Sequences

CONSTANTS
  None,
  MaxOut, MaxIn, MaxMsgs,                        \* of Processes and Threads
  Sessions, Attempts, MaxLosses,                 \* of Attach
  MaxBuffered, MaxFromPage, MaxFromWorker, MaxPrints,   \* of Endpoint
  HighWater, MaxTyped, MaxReads, MaxWrites       \* of Terminal

ASSUME ChildrenAssumption ==
  /\ MaxOut \in Nat /\ MaxIn \in Nat /\ MaxMsgs \in Nat
  /\ Attempts \in Nat \ {0} /\ MaxLosses \in Nat
  /\ MaxBuffered \in Nat \ {0} /\ MaxFromPage \in Nat /\ MaxFromWorker \in Nat /\ MaxPrints \in Nat
  /\ None \notin Nat /\ None \notin {"none", "code", "failed", "signal"}
  /\ HighWater \in Nat \ {0} /\ MaxTyped \in Nat \ {0} /\ MaxReads \in Nat /\ MaxWrites \in Nat

VARIABLES
  which,    \* "process", "thread", "session", "port" or "terminal"
  kind, caller, child, live, stdin, toHost, toCaller,               \* of Processes
  how, obj, page, thread, toPage, toParent, control, data,          \* of Threads
  env, sessions, cached, promises, scope, active, losses,           \* of Attach
  end, raw, toEnd, handling, calls, out, heard, gone,               \* of Endpoint
  about, input, console, tty, parked, asked, answers, given, reader \* of Terminal

process == <<kind, caller, child, live, stdin, toHost, toCaller>>
sibling == <<how, obj, page, thread, toPage, toParent, control, data>>
session == <<env, sessions, cached, promises, scope, active, losses>>
port == <<end, raw, toEnd, handling, calls, out, heard, gone>>
terminal == <<about, input, console, tty, parked, asked, answers, given, reader>>
vars == <<which, process, sibling, session, port, terminal>>

\* bound: messages of each side of a port
MaxSeq == [page |-> MaxFromPage, worker |-> MaxFromWorker]

P == INSTANCE Processes
T == INSTANCE Threads WITH kind <- how
A == INSTANCE Attach
E == INSTANCE Endpoint
S == INSTANCE Terminal WITH stdin <- tty

\* The parts that are not chosen rest in one of their initial states.
Init ==
  /\ which \in {"process", "thread", "session", "port", "terminal"}
  /\ P!Init /\ T!Init /\ A!Init /\ E!Init /\ S!Init
  /\ which # "process" => kind = [call |-> "spawn", stdin |-> "pipe"]
  /\ which # "thread" => how = [of |-> "worker", earlier |-> FALSE]
  /\ which # "session" => ~ env.unsupported /\ ~ env.outOfScope
  /\ which # "terminal" => about = "input"

Process(step) == which = "process" /\ step /\ UNCHANGED <<which, sibling, session, port, terminal>>

Thread(step) == which = "thread" /\ step /\ UNCHANGED <<which, process, session, port, terminal>>

Session(step) == which = "session" /\ step /\ UNCHANGED <<which, process, sibling, port, terminal>>

Port(step) == which = "port" /\ step /\ UNCHANGED <<which, process, sibling, session, terminal>>

Terminal(step) == which = "terminal" /\ step /\ UNCHANGED <<which, process, sibling, session, port>>

Next ==
  \/ Process(P!Next) \/ Thread(T!Next) \/ Session(A!Next)
  \/ Port(E!Next) \/ Terminal(S!Next)

\* Messages arrive, promises are acted on, handlers settle.  No program has to do anything,
\* but an embedder reads what it asked for, and a consumer of standard input what it gets.
\* A browser answers what it is asked about a registration.  As one part is taken, its fairness is that of the disjunction.
ProgramSide ==
  \/ Process(P!CallerStep) \/ Thread(T!ParentStep)
  \/ Port(E!PortStep \/ E!Settles) \/ Session(A!Page)
  \/ Terminal(S!Machine \/ S!Readers \/ S!Consumer)

PageSide == Process(P!HostStep) \/ Thread(T!PageStep) \/ Session(A!Browser)

FairSpec == Init /\ [][Next]_vars /\ WF_vars(ProgramSide) /\ WF_vars(PageSide)

-----------------------------------------------------------------------------
(* Properties *)

\* Whoever hears that a child is over has all that it wrote, of every stream, and nothing
\* after it (child_process.ts #poll, worker_threads.ts #finish); the page hears what is
\* printed in the order printed, whatever messages it rides on, hands it on so, and loses no
\* byte of what is typed (worker/stdio.ts, wire/pack.ts, lib/console.ts).
OutputWhole ==
  P!OutputWhole /\ T!OutputWhole /\ E!OutputInOrder /\ S!StreamsWhole /\ S!InputWhole

\* The end a program is told of a process is the one it had: a signal only where it was
\* asked for and the child cut short, a failure only of a program that crashed; and a caller
\* that polls finds its child until it has collected the exit (child_process.ts #poll).
\* Standard input holds the run open exactly while somebody waits for it (syncKeepalive).
\* A session goes on with a registration that owned its scope when that was asked, and no
\* failure is remembered for the next one (sw.ts registerOnce).
ExitTrue ==
  /\ P!ExitTrue /\ P!EntryKept /\ S!StdinHolds
  /\ A!OwnsItsScope /\ A!NoFailureKept

\* Between a parent and its thread, from the spawn to the end: what is posted is heard in order
\* and from the first message on, the messages of the time before the thread was there included;
\* and no thread's program runs on when its parent's NodeWorker has been terminated, at whatever
\* point of the spawn that was (worker_threads.ts, lib/worker-provider.ts).  Between a page
\* and its thread, a call is settled by the answer to that very call, with the bytes that are
\* its own, and no caller is forgotten when an end closes (wire/endpoint.ts).
ThreadFollows == T!InOrder /\ T!NothingRunsOn /\ E!OwnAnswers /\ E!NoneForgotten

\* A child that ended, crashed or was killed is told, so that it does not hold its parent's
\* run open; and what is asked of a child is answered or done: requests end, and a thread that
\* is asked to stop stops.  Calls over the port are settled while both ends live, and the
\* standard streams of a worker that was terminated end for whoever reads them.  A session is
\* attached to its service worker or told why not (sw.ts attachSession).
ExitTold ==
  /\ P!ExitTold /\ T!ExitTold /\ P!RequestsEnd /\ T!StopWorks
  /\ E!CallsSettle /\ S!StreamsEnd /\ A!AttachSettles
=============================================================================
