-------------------------------- MODULE Realm ----------------------------------
(***************************************************************************)
(* The realm of a program: the thread of a NodeWorker from its start to its *)
(* end (NodeWorker), the modules its programs load while the page writes    *)
(* their files (Loader), where a specifier leads in a tree of packages      *)
(* (Resolve), or the timers that keep a program running (TimerHandles).     *)
(* One of them is taken in a behaviour: what they share is that a control   *)
(* call waits for the program's thread, which Loader has as a guard, that a *)
(* resolution ends in the candidates Loader tries, and that a timer holds   *)
(* the run by the count NodeWorker has of its operations.                   *)
(***************************************************************************)
EXTENDS Integers, Sequences, FiniteSets

CONSTANTS
  None,
  RequireSyncFs, MaxOps, MaxPrints,                                    \* of NodeWorker
  Files, Specs, Candidates, Requires, MaxVersion, MaxBodies, MaxRuns,  \* of Loader
  Depth, Facts, MaxResolves, MaxChanges,                               \* of Resolve
  Timers, MaxImmediates, MaxTime                                       \* of TimerHandles

ASSUME RealmAssumption ==
  /\ RequireSyncFs \in BOOLEAN /\ MaxOps \in Nat /\ MaxPrints \in Nat
  /\ Candidates \in [Specs -> Seq(Files)] /\ Requires \in [Files -> Seq(Specs)]
  /\ \A s \in Specs : Candidates[s] # <<>>
  /\ Depth \in Nat \ {0} /\ Facts # {}
  /\ IsFiniteSet(Timers) /\ MaxImmediates \in Nat /\ MaxTime \in Nat /\ None \notin Int
  /\ None \notin {"error", "ok", "status", "threw"}
  /\ None \notin [version : Nat, whole : BOOLEAN, threw : BOOLEAN]
  /\ Facts \subseteq [nm : {"none", "small", "big"}, deep : BOOLEAN, wasm : BOOLEAN,
                      pkg : {"none", "bare", "main", "native", "dual", "importOnly"},
                      type : {"undefined", "module", "commonjs"},
                      project : {"none", "plain", "own", "extern"},
                      scope : {"undefined", "module", "commonjs"}]

VARIABLES
  which,                                                              \* "worker", "loader", "resolver" or "timers"
  page, run, owned, stdout, program, loop, toPage, toWorker,          \* of NodeWorker
  disk, stamp, pending, control, memo, cache, registry, stack, find, got, late, wrote, bodies, runs,
                                                                      \* of Loader
  tree, paths, types, seeded, hydrated, listings, answer, resolves, changes,  \* of Resolve
  timer, queue, bind, turn, clock, holds                                      \* of TimerHandles

worker == <<page, run, owned, stdout, program, loop, toPage, toWorker>>
loader == <<disk, stamp, pending, control, memo, cache, registry, stack, find, got, late, wrote,
            bodies, runs>>
resolver == <<tree, paths, types, seeded, hydrated, listings, answer, resolves, changes>>
timers == <<timer, queue, bind, turn, clock, holds>>
vars == <<which, worker, loader, resolver, timers>>

N == INSTANCE NodeWorker
M == INSTANCE Loader
V == INSTANCE Resolve WITH memo <- paths
T == INSTANCE TimerHandles

\* A part that is not chosen rests in one of its initial states.
Init ==
  /\ which \in {"worker", "loader", "resolver", "timers"} /\ N!Init /\ M!Init /\ V!Init /\ T!Init
  /\ which # "loader" => \A f \in Files : disk[f] = 0
  /\ which # "resolver" => \A k \in V!Levels : tree[k] = CHOOSE f \in Facts : TRUE

Worker(step) == which = "worker" /\ step /\ UNCHANGED <<which, loader, resolver, timers>>

Loader(step) == which = "loader" /\ step /\ UNCHANGED <<which, worker, resolver, timers>>

Resolver(step) == which = "resolver" /\ step /\ UNCHANGED <<which, worker, loader, timers>>

KeepsTime(step) == which = "timers" /\ step /\ UNCHANGED <<which, worker, loader, resolver>>

Next == Worker(N!Next) \/ Loader(M!Next) \/ Resolver(V!Next) \/ KeepsTime(T!Next)

\* Messages arrive, callbacks and timers run.  Nobody has to read stdout, and no
\* request of the program needs an answer.
FairSpec ==
  /\ Init /\ [][Next]_vars
  /\ WF_vars(Worker(N!PageStep)) /\ WF_vars(Worker(N!ThreadStep)) /\ WF_vars(Worker(N!ExitDeadline))

-----------------------------------------------------------------------------
(* Properties *)

\* Nothing of a terminated worker lives on: no thread is there or will be made, no resource of
\* the page is open, no run is left waiting for it (lib/index.ts terminate, #track), and its
\* session is detached, unless it was still being attached then: that one, excepted here, nobody
\* detaches (839-863).
NothingOutlives == N!NothingOutlives

\* A run that returned has had all it printed accepted by whoever reads stdout; one that called
\* process.exit, all it had printed by then queued for them (flushConsole, requestExit).
OutputFirst == N!OutputFirst

\* A program is taken for finished only when no request and no timer of it lives, and the count
\* that tells so is that of what lives (keepalive.ts drain, refOperation).  Between its turns
\* the timers hold it while one of them is refed, and none is forgotten (timers.ts runTimers).
DrainIsIdle == N!TypeOK /\ N!DrainIsIdle /\ T!HoldsTrue /\ T!NoneForgotten

\* A run whose program calls process.exit settles: exit handlers that block the thread, a reader
\* of stdout that stalls, an exit listener that hangs do not prevent it (announceExit).
ExitSettles == N!ExitSettles

\* A body runs once, however modules require each other, and what a require is given of a module
\* whose body has not ended it is given by its own ancestor (cjs.ts requireWithBasedir).  A node_modules is
\* listed once for all that is looked for in it, until something is mounted (resolve.ts statKind).
RunsOnce == M!RunsOnce /\ M!HandedWhole /\ V!ListedOnce

\* What the loader remembers is what there is: of a specifier, where it leads once the worker
\* has heard of the page's changes; of a module that was registered again, its next body
\* (resolve.ts resolveSource, worker/index.ts ctl.invalidateModules).  And what there is is what
\* Node would find in that tree, but for the exceptions Resolve names.
LoadsAnew == M!MemoTrue /\ M!NextIsNew /\ V!MemosTrue /\ V!AsNode
=============================================================================
