-------------------------------- MODULE Feed -----------------------------------
(***************************************************************************)
(* How a program hears of changes.  The page's half is the hub that holds   *)
(* the socket and the counter of changes (FsEvents), the worker's half the  *)
(* watchers that list and stat (FsWatch) and the iterator that hands out    *)
(* what they find (WatchIterator).  Each is taken against all that the      *)
(* others may say to it, so one of them moves in a behaviour.               *)
(***************************************************************************)
EXTENDS Integers, Sequences

CONSTANTS
  None, Sent,
  Consumers, UserToken, MaxTokens,   \* of FsEvents
  Dirs, Files, MaxTurns,             \* of FsWatch
  MaxAsked,                          \* of WatchIterator
  MaxChanges

ASSUME FeedAssumption ==
  /\ UserToken \subseteq BOOLEAN /\ UserToken # {}
  /\ MaxChanges \in Nat /\ MaxTokens \in Nat /\ MaxTurns \in Nat /\ MaxAsked \in Nat
  /\ None \notin Nat /\ Sent \notin Nat /\ None # Sent
  /\ LET Listing == [n : Nat, is : {"there", "gone", "failed"}]
     IN None \notin Listing /\ Sent \notin Listing
  /\ Dirs \cap Files = {}

VARIABLES
  half,                                                      \* "page", "worker" or "program"
  world, socket, hub, heard, owed, hole, renewed,            \* of FsEvents
  entry, dir, file, feed, refs, page, up, down, turns,       \* of FsWatch
  iter, dispatched, holds                                         \* of WatchIterator

hubVars == <<world, socket, hub, heard, owed, hole, renewed>>
watchVars == <<entry, dir, file, feed, refs, page, up, down, turns>>
iterVars == <<iter, dispatched, holds>>
vars == <<half, hubVars, watchVars, iterVars>>

E == INSTANCE FsEvents
W == INSTANCE FsWatch WITH world <- entry
I == INSTANCE WatchIterator WITH w <- iter, refs <- holds

\* The half that is not chosen rests in one of its initial states.
Init ==
  /\ half \in {"page", "worker", "program"} /\ E!Init /\ W!Init /\ I!Init
  /\ half # "worker" => ~ page.covered
  /\ half # "program" => iter = I!Made(TRUE, FALSE, "none", FALSE)
  /\ half # "page" => hub.user = CHOOSE u \in UserToken : TRUE

Page(step) == half = "page" /\ step /\ UNCHANGED <<half, watchVars, iterVars>>

Worker(step) == half = "worker" /\ step /\ UNCHANGED <<half, hubVars, iterVars>>

Program(step) == half = "program" /\ step /\ UNCHANGED <<half, hubVars, watchVars>>

Next == Page(E!Next) \/ Worker(W!Next) \/ Program(I!Next)

\* What arrived is processed and timers fire; a black-holed connection outlives its pings; a
\* server that is asked again and again answers once; the filesystem answers.
FairSpec ==
  /\ Init /\ [][Next]_vars
  /\ WF_vars(Page(E!Frames)) /\ WF_vars(Page(E!PollTick))
  /\ WF_vars(Page(socket.deaf /\ E!WatchdogFires))
  /\ SF_vars(Page(E!PollRead)) /\ SF_vars(Page(E!PollArrives))
  /\ WF_vars(Worker(W!PageHears)) /\ WF_vars(Worker(W!Arrives))
  /\ \A d \in Dirs : WF_vars(Worker(W!ScanRead(d))) /\ WF_vars(Worker(W!ScanArrives(d)))
  /\ \A f \in Files : /\ WF_vars(Worker(W!StatRead(f))) /\ WF_vars(Worker(W!SeedArrives(f)))
                      /\ WF_vars(Worker(W!CheckArrives(f))) /\ WF_vars(Worker(W!TimerTick(f)))

-----------------------------------------------------------------------------
(* Properties *)

\* Who is level has missed nothing: whenever the hub is level with the server, every subscriber
\* was told of every change made since it came, but for the feed's blind spots (fsevents.ts
\* setConnected, pollOnce); and a watcher of a directory that rests has looked since the newest
\* stale notice it got, however the notices fell into a listing under way (watch.ts rescan).  An iterator hands out every change
\* since it was asked for, in its order, before it ends (watch.ts iterate).
NothingMissed == E!NothingMissed /\ W!RescanCatchesUp /\ I!HandsOutAll

\* The two ends say the same of what covers the worker: every subscriber of the hub was last
\* told how the hub is, and with nothing on its way the worker knows what the page knows, is
\* pushed to if and only if somebody watches, and polls exactly while nothing covers it
\* (fsevents.ts #state, worker/fsevents.ts setState).
EndsAgree == E!StateTold /\ W!FeedAgrees

\* What nobody listens to holds nothing that could bring it back: a hub without listeners no
\* socket and no timer (fsevents.ts close), a watcher that was closed no hold on the run
\* (watch.ts unref), an iteration that ended no watcher, and none waits for what has happened.
EmptyIsQuiet == E!EmptyIsQuiet /\ W!HoldsTrue /\ I!NothingGoesOn

\* Changes are told of in the end: by the hub to whoever stays, also when its connection is
\* black-holed, drops again and again or is refused; and where nothing covers the worker a
\* watched file is known as it is by the interval alone.
ChangesSurface == E!ChangesSurface /\ W!PollingCatchesUp
=============================================================================
