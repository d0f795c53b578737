---------------------------- MODULE WatchIterator -----------------------------
(***************************************************************************)
(* An FSWatcher as its program has it (worker/node/fs/watch.ts): a signal   *)
(* that may abort it, a hold on the run, and the asynchronous iterator that *)
(* fsPromises.watch returns, which hands its changes out one by one and     *)
(* closes the watcher when it ends.  What makes a change is in FsWatch.     *)
(***************************************************************************)
EXTENDS Naturals, Sequences

CONSTANTS
  MaxChanges,  \* bound: changes dispatched
  MaxAsked     \* bound: calls of the iterator that are not settled

VARIABLES
  w,       \* the watcher and its iterator
  dispatched,    \* changes dispatched since the iterator was asked for, numbered as they came
  refs     \* keepalive: holds on the run

vars == <<w, dispatched, refs>>

\* promised: made by fsPromises.watch, whose caller never has the watcher itself; persistent,
\* signal: the options; heard: somebody listens for "error"; probe: the stat of the constructor;
\* gen: where the generator is; calls: what it was asked; result: how it ended.
Made(promised, persistent, signal, heard) ==
  [promised |-> promised, signal |-> signal, heard |-> heard,
   closed |-> FALSE, refed |-> persistent, probe |-> "asked", late |-> signal = "aborted",
   iterating |-> promised, queue |-> <<>>, waiter |-> FALSE, error |-> promised /\ signal = "aborted",
   gen |-> IF promised THEN "new" ELSE "none", calls |-> <<>>, got |-> <<>>, result |-> "none"]

Init ==
  /\ \E signal \in {"none", "live", "aborted"}, persistent, heard \in BOOLEAN :
       \/ w = Made(TRUE, FALSE, signal, FALSE)
       \/ w = Made(FALSE, persistent, signal, heard)
  /\ dispatched = <<>>
  /\ refs = IF w.refed THEN 1 ELSE 0

-----------------------------------------------------------------------------
(* The watcher *)

\* #wake: the generator goes on in a turn of its own.
Woken(x) == IF x.waiter THEN [x EXCEPT !.waiter = FALSE, !.gen = "woken"] ELSE x

\* close; the signal is let go of.
Closed(x) ==
  IF x.closed THEN x ELSE Woken([x EXCEPT !.closed = TRUE, !.refed = FALSE])

Becomes(x) ==
  /\ w' = x
  /\ refs' = (refs + (IF x.refed THEN 1 ELSE 0)) - (IF w.refed THEN 1 ELSE 0)

\* #dispatch: kept only for an iterator, from the moment it was asked for.
Change ==
  /\ ~ w.closed /\ Len(dispatched) < MaxChanges
  /\ LET n == Len(dispatched) + 1
     IN /\ dispatched' = IF w.gen = "none" THEN dispatched ELSE Append(dispatched, n)
        /\ Becomes(IF w.iterating THEN Woken([w EXCEPT !.queue = Append(@, n)]) ELSE w)

Ref == /\ ~ w.promised /\ ~ w.refed /\ ~ w.closed
       /\ Becomes([w EXCEPT !.refed = TRUE]) /\ UNCHANGED dispatched

Unref == /\ ~ w.promised /\ w.refed
         /\ Becomes([w EXCEPT !.refed = FALSE]) /\ UNCHANGED dispatched

Close == ~ w.promised /\ ~ w.closed /\ Becomes(Closed(w)) /\ UNCHANGED dispatched

\* The constructor's stat: without a listener the error is thrown out of the handler, before
\* its close.
ProbeAnswers ==
  /\ w.probe = "asked"
  /\ \E there \in BOOLEAN :
       LET x == [w EXCEPT !.probe = "answered"]
       IN Becomes(IF ~ there /\ w.heard THEN Closed(x) ELSE x)
  /\ UNCHANGED dispatched

\* A signal that was aborted before the watcher was made.
ClosesLate == w.late /\ Becomes(Closed([w EXCEPT !.late = FALSE])) /\ UNCHANGED dispatched

\* The listener of the constructor comes first, and that of fsPromises.watch after it: it is
\* not let go of with the watcher.
Abort ==
  /\ w.signal = "live"
  /\ LET x == Closed([w EXCEPT !.signal = "fired"])
     IN Becomes(IF w.promised THEN Woken([x EXCEPT !.error = TRUE]) ELSE x)
  /\ UNCHANGED dispatched

-----------------------------------------------------------------------------
(* The iterator *)

\* finally
Ended(x, how) ==
  Closed([x EXCEPT !.iterating = FALSE, !.queue = <<>>, !.gen = "done", !.result = how])

\* The loop, from a call of next or from its wait on.
Looped(x) ==
  CASE x.queue # <<>> -> [x EXCEPT !.queue = Tail(@), !.got = Append(@, Head(x.queue)), !.gen = "yielded"]
    [] x.queue = <<>> /\ x.error -> Ended(x, "threw")
    [] x.queue = <<>> /\ ~ x.error /\ x.closed -> Ended(x, "ended")
    [] OTHER -> [x EXCEPT !.gen = "waiting", !.waiter = TRUE]

\* A call that the generator takes: one that has not begun is only marked as over by return().
Takes(x, call) ==
  CASE x.gen = "done" -> x
    [] call = "next" /\ x.gen # "done" -> Looped(x)
    [] call = "return" /\ x.gen = "new" -> [x EXCEPT !.gen = "done"]
    [] call = "return" /\ x.gen = "yielded" -> Ended(x, "returned")

\* A call is settled unless the generator waits.
Settled(x) == IF x.gen = "waiting" THEN x ELSE [x EXCEPT !.calls = Tail(@)]

Idle == w.gen \in {"new", "yielded", "done"}

\* [Symbol.asyncIterator]
Iterate ==
  /\ w.gen = "none"
  /\ Becomes([w EXCEPT !.gen = "new", !.iterating = TRUE])
  /\ UNCHANGED dispatched

\* next() and return() run at once when the generator is idle, and else when it is.
Call(call) ==
  /\ w.gen # "none" /\ Len(w.calls) < MaxAsked
  /\ LET x == [w EXCEPT !.calls = Append(@, call)]
     IN Becomes(IF Idle /\ w.calls = <<>> THEN Settled(Takes(x, call)) ELSE x)
  /\ UNCHANGED dispatched

Resumes ==
  /\ w.gen = "woken" /\ Becomes(Settled(Looped(w))) /\ UNCHANGED dispatched

Goes ==
  /\ Idle /\ w.calls # <<>>
  /\ Becomes(Settled(Takes(w, Head(w.calls))))
  /\ UNCHANGED dispatched

Turn == Resumes \/ Goes \/ ClosesLate

Next ==
  \/ Change \/ Ref \/ Unref \/ Close \/ ProbeAnswers \/ Abort
  \/ Iterate \/ (\E call \in {"next", "return"} : Call(call))
  \/ Turn

-----------------------------------------------------------------------------
(* Properties *)

\* "events between `watch()` and the first `next()` aren't lost": what was dispatched has been
\* handed out, in its order, or is in the queue; an iteration that ended of itself, or threw, had
\* handed out all of it.
HandsOutAll ==
  /\ w.gen \notin {"none", "done"} => w.got \o w.queue = dispatched
  /\ w.result \in {"ended", "threw"} => w.got = dispatched

\* An iterator waits only for what has not happened; and one that was begun and is over leaves
\* nothing that goes on, nor a closed watcher a hold on the run.
NothingGoesOn ==
  /\ w.gen = "waiting" => w.waiter /\ w.queue = <<>> /\ ~ w.error /\ ~ w.closed
  /\ w.result # "none" => w.closed /\ ~ w.iterating /\ w.queue = <<>>
  /\ w.closed => refs = 0
=============================================================================
