------------------------------- MODULE FsWatch --------------------------------
(***************************************************************************)
(* fs.watch and fs.watchFile in a worker (worker/fsevents.ts and           *)
(* worker/node/fs/watch.ts).  All watchers share one feed, which the first *)
(* opens and the last closes by messages to the page; what the page sends  *)
(* are events with a path, stale notices without one, and whether anything *)
(* covers it at all.  A watcher of a directory answers a stale notice with *)
(* a listing that it compares with the one before; a watcher of a file     *)
(* with a stat, and where nothing covers it a timer asks again and again.  *)
(*                                                                         *)
(* All watch the same entry, a directory for some and a file for others,   *)
(* which is there as the number of the last change to it.                  *)
(***************************************************************************)
EXTENDS Integers, Sequences, FiniteSets

CONSTANTS
  Dirs,        \* FSWatchers a program may make
  Files,       \* StatWatchers a program may make, each once
  None,        \* no listing, no stat, nothing in flight
  Sent,        \* asked, and not answered by the filesystem yet
  MaxChanges,  \* bound: changes, of the entry and of what covers the page together
  MaxTurns     \* bound: changes of what covers the page

VARIABLES
  world,  \* the last change of the entry
  dir,    \* the FSWatchers
  file,   \* the StatWatchers
  feed,   \* worker/fsevents.ts: subscribed, opening, covered
  refs,   \* keepalive: handles that hold the run
  page,   \* the page: does it push to this worker, does anything cover it
  up,     \* messages to the page
  down,   \* messages to the worker
  turns   \* changes of what covers the page, so far

vars == <<world, dir, file, feed, refs, page, up, down, turns>>

-----------------------------------------------------------------------------
(* The feed *)

On(w) == w.at = "on"

Handlers == {d \in Dirs : On(dir[d])} \cup {f \in Files : On(file[f])}

\* ensureFeed
EnsureFeed ==
  IF feed.subscribed \/ feed.opening THEN UNCHANGED <<feed, up>>
  ELSE /\ feed' = [feed EXCEPT !.opening = TRUE]
       /\ up' = Append(up, "subscribe")

\* closeFeed; no handler is left that could be told the state.
CloseFeed ==
  IF ~ feed.subscribed THEN UNCHANGED <<feed, up>>
  ELSE /\ feed' = [feed EXCEPT !.subscribed = FALSE, !.covered = FALSE]
       /\ up' = Append(up, "close")

\* The unsubscribe function: the last handler closes the feed.
Leave(w) == IF Handlers = {w} THEN CloseFeed ELSE UNCHANGED <<feed, up>>

-----------------------------------------------------------------------------
(* FSWatcher *)

Watch(d) ==
  /\ dir[d].at = "off"
  /\ dir' = [dir EXCEPT ![d].at = "on"]
  /\ refs' = refs + 1
  /\ EnsureFeed
  /\ UNCHANGED <<world, file, page, down, turns>>

\* close, by the program, by a signal, by the end of an iteration, or because the
\* probe of the constructor found nothing.
Close(d) ==
  /\ On(dir[d])
  /\ dir' = [dir EXCEPT ![d].at = "closed", ![d].snapshot = None]
  /\ refs' = refs - 1
  /\ Leave(d)
  /\ UNCHANGED <<world, file, page, down, turns>>

\* #rescan: a notice during a rescan asks for another.
Rescan(w) == IF w.scan # None THEN [w EXCEPT !.again = TRUE] ELSE [w EXCEPT !.scan = Sent]

\* The filesystem reads the directory, or fails.
ScanRead(d) ==
  /\ dir[d].scan = Sent
  /\ \E is \in {"there", "gone", "failed"} :
       dir' = [dir EXCEPT ![d].scan = [n |-> world, is |-> is]]
  /\ UNCHANGED <<world, file, feed, refs, page, up, down, turns>>

\* #rescanOnce: the listing is the one to compare the next with; an entry that is
\* gone leaves none; any other error changes nothing.
Listed(w) ==
  CASE w.scan.is = "there" -> w.scan.n
    [] w.scan.is = "gone" -> None
    [] w.scan.is = "failed" -> w.snapshot

ScanArrives(d) ==
  /\ dir[d].scan \notin {None, Sent}
  /\ dir' = [dir EXCEPT ![d] =
       LET w == dir[d]
       IN IF On(w)
          THEN [w EXCEPT !.snapshot = Listed(w), !.looked = w.scan.n,
                         !.scan = IF w.again THEN Sent ELSE None, !.again = FALSE]
          ELSE [w EXCEPT !.scan = None]]
  /\ UNCHANGED <<world, file, feed, refs, page, up, down, turns>>

-----------------------------------------------------------------------------
(* StatWatcher *)

\* The constructor: the first stat is asked for, the feed, and a timer if nothing
\* covers the worker yet.
WatchFile(f) ==
  /\ file[f].at = "off"
  /\ file' = [file EXCEPT ![f].at = "on", ![f].seed = Sent, ![f].timer = ~ feed.covered]
  /\ refs' = refs + 1
  /\ EnsureFeed
  /\ UNCHANGED <<world, dir, page, down, turns>>

\* unwatchFile of the last listener, stop.
Stop(f) ==
  /\ On(file[f])
  /\ file' = [file EXCEPT ![f].at = "closed", ![f].timer = FALSE]
  /\ refs' = refs - 1
  /\ Leave(f)
  /\ UNCHANGED <<world, dir, page, down, turns>>

\* #check: while one check runs another is not wanted.
Check(w) == IF On(w) /\ w.check = None THEN [w EXCEPT !.check = Sent] ELSE w

StatRead(f) ==
  /\ \/ /\ file[f].seed = Sent
        /\ file' = [file EXCEPT ![f].seed = world]
     \/ /\ file[f].check = Sent
        /\ file' = [file EXCEPT ![f].check = world]
  /\ UNCHANGED <<world, dir, feed, refs, page, up, down, turns>>

SeedArrives(f) ==
  /\ file[f].seed \in Nat
  /\ file' = [file EXCEPT ![f].seed = None,
                           ![f].prev = IF On(file[f]) /\ @ = None THEN file[f].seed ELSE @]
  /\ UNCHANGED <<world, dir, feed, refs, page, up, down, turns>>

CheckArrives(f) ==
  /\ file[f].check \in Nat
  /\ file' = [file EXCEPT ![f].check = None,
                           ![f].prev = IF On(file[f]) THEN file[f].check ELSE @]
  /\ UNCHANGED <<world, dir, feed, refs, page, up, down, turns>>

TimerTick(f) ==
  /\ file[f].timer
  /\ file' = [file EXCEPT ![f] = Check(@)]
  /\ UNCHANGED <<world, dir, feed, refs, page, up, down, turns>>

-----------------------------------------------------------------------------
(* The page *)

Push(message) == down' = IF page.attached THEN Append(down, message) ELSE down

\* The entry changes or goes or comes back; with a socket the page says so,
\* with the counter it finds out later.
Change ==
  /\ world + turns < MaxChanges
  /\ world' = world + 1
  /\ \/ Push(<<"event", world + 1>>) /\ page.covered /\ page' = page
     \/ page' = [page EXCEPT !.moved = TRUE] /\ down' = down
  /\ UNCHANGED <<dir, file, feed, refs, up, turns>>

\* ev.stale
Notice ==
  /\ page.attached /\ page.moved
  /\ Push(<<"stale", world>>)
  /\ page' = [page EXCEPT !.moved = FALSE]
  /\ UNCHANGED <<world, dir, file, feed, refs, up, turns>>

\* The socket and the counter come and go.
Turn ==
  /\ turns < MaxTurns /\ world + turns < MaxChanges
  /\ turns' = turns + 1
  /\ page' = [page EXCEPT !.covered = ~ @]
  /\ Push(<<"state", ~ page.covered>>)
  /\ UNCHANGED <<world, dir, file, feed, refs, up>>

\* ev.subscribe and ev.close, in the dispatcher of the page.
PageHears ==
  /\ up # <<>>
  /\ up' = Tail(up)
  /\ page' = [page EXCEPT !.attached = (Head(up) = "subscribe")]
  /\ down' = IF Head(up) = "subscribe" THEN Append(down, <<"reply", page.covered>>) ELSE down
  /\ UNCHANGED <<world, dir, file, feed, refs, turns>>

-----------------------------------------------------------------------------
(* What arrives from the page *)

Heard(type) == down # <<>> /\ Head(down)[1] = type

\* setState, with what its handlers do.
Timers(covered) ==
  [f \in Files |-> IF On(file[f]) THEN [file[f] EXCEPT !.timer = ~ covered] ELSE file[f]]

SetState(covered, next) ==
  /\ feed' = [next EXCEPT !.covered = covered]
  /\ file' = IF feed.covered = covered THEN file ELSE Timers(covered)

OnEvent ==
  /\ Heard("event")
  /\ down' = Tail(down)
  /\ file' = [f \in Files |-> Check(file[f])]
  /\ UNCHANGED <<world, dir, feed, refs, page, up, turns>>

OnStale ==
  /\ Heard("stale")
  /\ down' = Tail(down)
  /\ file' = [f \in Files |-> Check(file[f])]
  /\ dir' = [d \in Dirs |->
       IF On(dir[d]) THEN [Rescan(dir[d]) EXCEPT !.due = Head(down)[2]] ELSE dir[d]]
  /\ UNCHANGED <<world, feed, refs, page, up, turns>>

OnState ==
  /\ Heard("state")
  /\ down' = Tail(down)
  /\ SetState(Head(down)[2], feed)
  /\ UNCHANGED <<world, dir, refs, page, up, turns>>

\* The rest of ensureFeed: everyone may have left meanwhile.
OnReply ==
  /\ Heard("reply")
  /\ down' = Tail(down)
  /\ IF Handlers = {}
     THEN /\ feed' = [feed EXCEPT !.opening = FALSE]
          /\ up' = Append(up, "close")
          /\ file' = file
     ELSE /\ SetState(Head(down)[2], [feed EXCEPT !.opening = FALSE, !.subscribed = TRUE])
          /\ up' = up
  /\ UNCHANGED <<world, dir, refs, page, turns>>

-----------------------------------------------------------------------------

Init ==
  /\ world = 0
  /\ dir = [d \in Dirs |-> [at |-> "off", snapshot |-> None, scan |-> None,
                            again |-> FALSE, looked |-> 0, due |-> 0]]
  /\ file = [f \in Files |-> [at |-> "off", prev |-> None, seed |-> None, check |-> None,
                              timer |-> FALSE]]
  /\ feed = [subscribed |-> FALSE, opening |-> FALSE, covered |-> FALSE]
  /\ refs = 0
  /\ page \in [attached : {FALSE}, covered : BOOLEAN, moved : {FALSE}]
  /\ up = <<>> /\ down = <<>> /\ turns = 0

Arrives == OnEvent \/ OnStale \/ OnState \/ OnReply

DirStep(d) == ScanRead(d) \/ ScanArrives(d)

FileStep(f) == StatRead(f) \/ SeedArrives(f) \/ CheckArrives(f) \/ TimerTick(f)

Next ==
  \/ \E d \in Dirs : Watch(d) \/ Close(d) \/ DirStep(d)
  \/ \E f \in Files : WatchFile(f) \/ Stop(f) \/ FileStep(f)
  \/ Change \/ Notice \/ Turn \/ PageHears \/ Arrives

Spec == Init /\ [][Next]_vars

\* Messages arrive, the filesystem answers, an interval fires.
FairSpec ==
  /\ Spec
  /\ WF_vars(PageHears) /\ WF_vars(Arrives)
  /\ \A d \in Dirs : WF_vars(ScanRead(d)) /\ WF_vars(ScanArrives(d))
  /\ \A f \in Files : /\ WF_vars(StatRead(f)) /\ WF_vars(SeedArrives(f))
                      /\ WF_vars(CheckArrives(f)) /\ WF_vars(TimerTick(f))

-----------------------------------------------------------------------------
(* Properties *)

\* The handles that hold the run are exactly the watchers that live (ref, unref), and a timer
\* belongs to one of them.
HoldsTrue ==
  /\ refs = Cardinality(Handlers)
  /\ \A f \in Files : file[f].timer => On(file[f])

\* A watcher of a directory that rests has looked since the newest stale notice it
\* got, however the notices fell into a listing under way (#rescan).
RescanCatchesUp ==
  \A d \in Dirs : On(dir[d]) /\ dir[d].scan = None => dir[d].looked >= dir[d].due

\* With no message on its way the two ends of the feed agree: the page pushes if
\* and only if somebody watches, the worker knows what covers it, and a watched
\* file is polled exactly while nothing does (ensureFeed, closeFeed, setState).
FeedAgrees ==
  up = <<>> /\ down = <<>> =>
    /\ ~ feed.opening
    /\ page.attached = (Handlers # {}) /\ feed.subscribed = page.attached
    /\ page.attached =>
         /\ feed.covered = page.covered
         /\ \A f \in Files : On(file[f]) => file[f].timer = ~ page.covered

\* Where nothing covers the worker any more, a watched file is known in the end as
\* it is, by the interval alone (#startPolling).
PollingCatchesUp ==
  \A f \in Files :
    <>[](On(file[f]) /\ ~ page.covered) => <>[](file[f].prev = world)
=============================================================================
