------------------------------- MODULE Loader ----------------------------------
(***************************************************************************)
(* The module loader of the worker (worker/module): a specifier is resolved *)
(* by asking for one candidate after the other over the blocking           *)
(* transport, the answer is remembered, the source is read and the body     *)
(* run, with require() nesting as deep as the modules do.                   *)
(*                                                                         *)
(* The page writes files meanwhile (lib/vfs/index.ts, lib/index.ts).  It    *)
(* tells the worker on two ways: with the next reply, which reaches a       *)
(* worker that is in the middle of a resolution, and with a control call,   *)
(* which waits until the program's thread is idle.                          *)
(***************************************************************************)
EXTENDS Integers, Sequences, SequencesExt

CONSTANTS
  None,
  Files, Specs,
  Candidates,     \* of each specifier, the files it may mean, best first
  Requires,       \* of each file, the specifiers its body requires, in order
  MaxVersion, MaxBodies, MaxRuns   \* bounds: of the files' versions, of bodies run, of ctl.execute

VARIABLES
  disk,        \* the version of each file; 0: it is not there
  stamp,       \* the latest version
  pending,     \* #pendingPaths is not empty
  control,     \* ctl.invalidateModules on the way to the worker: sets of files
  memo,        \* resolvePathCache
  cache,       \* REQUIRE_CACHE: the instance, its version, and whether its body ended
  registry,    \* the module registry of systemjs
  stack,       \* bodies that run
  find,        \* the resolution under way
  got,         \* what the last require was given
  late,        \* specifiers remembered by a resolution that an invalidation overtook
  wrote,       \* files changed without a control call since their modules were forgotten
  bodies, runs

vars == <<disk, stamp, pending, control, memo, cache, registry, stack, find, got, late, wrote, bodies, runs>>

-----------------------------------------------------------------------------
(* The page *)

\* A file becomes another one, or goes.
Changes(f) ==
  /\ stamp < MaxVersion /\ stamp' = stamp + 1
  /\ \E v \in {0, stamp + 1} \ {disk[f]} : disk' = [disk EXCEPT ![f] = v]
  /\ pending' = TRUE

\* memory(root).write and remove: the worker hears of it with a reply.
Writes ==
  /\ \E f \in Files : Changes(f) /\ wrote' = wrote \cup {f}
  /\ UNCHANGED <<control, memo, cache, registry, stack, find, got, late, bodies, runs>>

\* registerVirtualModule and removeVirtualModule also send a control call.
Registers ==
  /\ \E f \in Files : Changes(f) /\ control' = Append(control, {f})
  /\ UNCHANGED <<memo, cache, registry, stack, find, got, late, bodies, wrote, runs>>

-----------------------------------------------------------------------------
(* Resolution *)

Nowhere == [s \in Specs |-> None]

Idle == stack = <<>> /\ find = None

Looking(s, how) ==
  [spec |-> s, how |-> how, at |-> 1, step |-> "probe", path |-> None, saw |-> 0, overtaken |-> FALSE]

\* resolveSource: what was resolved before is not looked for again.
Begins(s, how) ==
  find' = IF memo[s] = None THEN Looking(s, how)
          ELSE [Looking(s, how) EXCEPT !.step = "read", !.path = memo[s]]

\* The page answers a stat, or a read, with what is there.
Looks ==
  /\ find # None /\ find.step \in {"probe", "read"}
  /\ LET f == IF find.step = "probe" THEN Candidates[find.spec][find.at] ELSE find.path
     IN  find' = [find EXCEPT !.saw = disk[f], !.path = f,
                              !.step = IF @ = "probe" THEN "probed" ELSE "source"]
  /\ UNCHANGED <<disk, stamp, pending, control, memo, cache, registry, stack, got, late, bodies, wrote, runs>>

\* The reply is encoded, and applied before the call that waits for it returns: every memo
\* goes, for a resolution is a fact about the tree.
\* Mutation: what was resolved stays.
Drained_Keeps == [memo |-> memo, late |-> late]

Drained == IF pending THEN [memo |-> Nowhere, late |-> {}] ELSE [memo |-> memo, late |-> late]

Overtaken == find.overtaken \/ pending

Hears == pending' = FALSE /\ UNCHANGED <<disk, stamp, control>>

\* The candidate is not there: the next one, or no module of this name.
Misses ==
  /\ find # None /\ find.step = "probed" /\ find.saw = 0 /\ Hears
  /\ memo' = Drained.memo /\ late' = Drained.late
  /\ find' = IF find.at < Len(Candidates[find.spec])
             THEN [find EXCEPT !.at = @ + 1, !.step = "probe", !.overtaken = Overtaken]
             ELSE [find EXCEPT !.step = "failed"]
  /\ UNCHANGED <<cache, registry, stack, got, bodies, wrote, runs>>

\* It is there: remembered, and read.
Hits ==
  /\ find # None /\ find.step = "probed" /\ find.saw # 0 /\ Hears
  /\ memo' = [Drained.memo EXCEPT ![find.spec] = find.path]
  /\ late' = IF Overtaken THEN Drained.late \cup {find.spec} ELSE Drained.late \ {find.spec}
  /\ find' = [find EXCEPT !.step = "read"]
  /\ UNCHANGED <<cache, registry, stack, got, bodies, wrote, runs>>

-----------------------------------------------------------------------------
(* Bodies *)

Top == Last(stack)

OnStack(f, how) == \E i \in DOMAIN stack : stack[i].file = f /\ stack[i].how = how

\* What a require is given: the exports as they are.
Gives(f, entry) ==
  got' = [file |-> f, whole |-> entry.whole, threw |-> entry.threw, inside |-> OnStack(f, "require")]

Entry == [version |-> find.saw, whole |-> FALSE, threw |-> FALSE]

Pushed(how) ==
  stack' = Append(stack, [file |-> find.path, version |-> find.saw, how |-> how,
                          todo |-> Requires[find.path]])

\* The source arrived: a module that is known is not run again.
Cached ==
  /\ find # None /\ find.step = "source" /\ find.saw # 0 /\ Hears
  /\ memo' = Drained.memo /\ late' = Drained.late
  /\ \/ /\ find.how = "require" /\ cache[find.path] # None
        /\ Gives(find.path, cache[find.path])
     \/ /\ find.how = "import" /\ registry[find.path] # "none" /\ got' = got
  /\ find' = None
  /\ UNCHANGED <<cache, registry, stack, bodies, wrote, runs>>

\* requireWithBasedir: known before its body runs, so that a cycle comes to an end.
RunsBody ==
  /\ find # None /\ find.step = "source" /\ find.saw # 0 /\ Hears /\ bodies < MaxBodies
  /\ memo' = Drained.memo /\ late' = Drained.late
  /\ find.how = "require" /\ cache[find.path] = None
  /\ cache' = [cache EXCEPT ![find.path] = Entry]
  /\ Pushed("require") /\ find' = None /\ bodies' = bodies + 1
  /\ UNCHANGED <<registry, got, wrote, runs>>

\* System.instantiate: an import makes a module of its own of a file, that require knows
\* nothing of.
Instantiates ==
  /\ find # None /\ find.step = "source" /\ find.saw # 0 /\ Hears /\ bodies < MaxBodies
  /\ memo' = Drained.memo /\ late' = Drained.late
  /\ find.how = "import" /\ registry[find.path] = "none"
  /\ registry' = [registry EXCEPT ![find.path] = "loading"]
  /\ Pushed("import") /\ find' = None /\ bodies' = bodies + 1
  /\ UNCHANGED <<cache, got, wrote, runs>>

\* The file is gone that was resolved: the read fails.
ReadFails ==
  /\ find # None /\ find.step = "source" /\ find.saw = 0 /\ Hears
  /\ memo' = Drained.memo /\ late' = Drained.late
  /\ find' = [find EXCEPT !.step = "failed"]
  /\ UNCHANGED <<cache, registry, stack, got, bodies, wrote, runs>>

\* The body requires the next one of its modules.
Requiring ==
  /\ stack # <<>> /\ find = None /\ Top.todo # <<>>
  /\ Begins(Head(Top.todo), "require")
  /\ stack' = [stack EXCEPT ![Len(stack)].todo = Tail(@)]
  /\ UNCHANGED <<disk, stamp, pending, control, memo, cache, registry, got, late, bodies, wrote, runs>>

\* Mutation: what the body put in the place of its exports is not looked at.
Settled_KeepsFirst(f, how, threw) ==
  IF how = "require"
  THEN /\ registry' = registry
       /\ cache' = [cache EXCEPT ![f] = [version |-> Top.version, whole |-> FALSE, threw |-> threw]]
  ELSE /\ cache' = cache
       /\ registry' = [registry EXCEPT ![f] = IF threw THEN "failed" ELSE "done"]

\* A body is over: its exports are what module.exports is now, unless it threw.
Settled(f, how, threw) ==
  IF how = "require"
  THEN /\ registry' = registry
       /\ cache' = [cache EXCEPT ![f] = [version |-> Top.version, whole |-> ~ threw, threw |-> threw]]
  ELSE /\ cache' = cache
       /\ registry' = [registry EXCEPT ![f] = IF threw THEN "failed" ELSE "done"]

Ends ==
  /\ stack # <<>> /\ find = None /\ Top.todo = <<>>
  /\ Settled(Top.file, Top.how, FALSE)
  /\ got' = IF Top.how = "require"
            THEN [file |-> Top.file, whole |-> cache'[Top.file].whole, threw |-> FALSE, inside |-> FALSE]
            ELSE got
  /\ stack' = Front(stack)
  /\ UNCHANGED <<disk, stamp, pending, control, memo, find, late, bodies, wrote, runs>>

\* The body throws.  What it had exported stays in the cache.
Throws ==
  /\ stack # <<>> /\ find = None
  /\ Settled(Top.file, Top.how, TRUE)
  /\ find' = [Looking(CHOOSE s \in Specs : TRUE, Top.how) EXCEPT !.step = "failed"]
  /\ stack' = Front(stack)
  /\ UNCHANGED <<disk, stamp, pending, control, memo, got, late, bodies, wrote, runs>>

\* A require that failed: its body catches that, or fails with it; so does the run.
Fails ==
  /\ find # None /\ find.step = "failed"
  /\ \/ /\ find' = None /\ UNCHANGED <<stack, cache, registry>>
     \/ /\ stack # <<>> /\ Settled(Top.file, Top.how, TRUE)
        /\ stack' = Front(stack) /\ find' = find
  /\ UNCHANGED <<disk, stamp, pending, control, memo, got, late, bodies, wrote, runs>>

-----------------------------------------------------------------------------
(* Control calls *)

\* ctl.execute
Execute ==
  /\ Idle /\ control = <<>> /\ runs < MaxRuns /\ runs' = runs + 1
  /\ \E s \in Specs, how \in {"require", "import"} : Begins(s, how)
  /\ UNCHANGED <<disk, stamp, pending, control, memo, cache, registry, stack, got, late, wrote, bodies>>

\* ctl.invalidateModules: invalidateResolved, invalidateCjs, invalidateEsm.
Invalidates ==
  /\ Idle /\ control # <<>>
  /\ memo' = Nowhere /\ late' = {}
  /\ cache' = [f \in Files |-> IF f \in Head(control) THEN None ELSE cache[f]]
  /\ registry' = [f \in Files |-> IF f \in Head(control) THEN "none" ELSE registry[f]]
  /\ control' = Tail(control) /\ wrote' = wrote \ Head(control)
  /\ UNCHANGED <<disk, stamp, pending, stack, find, got, bodies, runs>>

-----------------------------------------------------------------------------
(* The system *)

Init ==
  /\ disk \in [Files -> {0, 1}] /\ stamp = 1 /\ pending = FALSE /\ control = <<>>
  /\ memo = Nowhere /\ cache = [f \in Files |-> None] /\ registry = [f \in Files |-> "none"]
  /\ stack = <<>> /\ find = None /\ got = None /\ late = {} /\ wrote = {}
  /\ bodies = 0 /\ runs = 0

Page == Writes \/ Registers

Resolves == Looks \/ Misses \/ Hits \/ Cached \/ RunsBody \/ Instantiates \/ ReadFails

Program == Requiring \/ Ends \/ Throws \/ Fails

Next == Page \/ Resolves \/ Program \/ Execute \/ Invalidates

Spec == Init /\ [][Next]_vars

-----------------------------------------------------------------------------
(* Properties *)

\* The first of the candidates that is there.
Best(s) ==
  LET there == {i \in DOMAIN Candidates[s] : disk[Candidates[s][i]] # 0}
  IN  IF there = {} THEN None ELSE Candidates[s][CHOOSE i \in there : \A j \in there : i <= j]

\* No body is started again while it runs, however the modules require each other: a cycle is
\* given what there is.
RunsOnce ==
  \A i, j \in DOMAIN stack : stack[i].file = stack[j].file /\ stack[i].how = stack[j].how => i = j

\* Exports of a body that has not ended are given only to what it requires itself, or after
\* it threw.
HandedWhole == got # None /\ ~ got.whole => got.inside \/ got.threw

\* What is remembered of a specifier is where it leads now, once the worker has heard of the
\* page's changes: unless an invalidation came in the middle of that very resolution, which
\* forgets everything before this answer is stored.
MemoTrue ==
  \A s \in Specs : memo[s] # None /\ ~ pending /\ s \notin late => memo[s] = Best(s)

\* A module that was registered again is never answered with its earlier body, once the control
\* call arrived: not even when that body was read before and ended after the registration.
NextIsNew ==
  \A f \in Files :
    cache[f] # None /\ f \notin wrote /\ (\A i \in DOMAIN control : f \notin control[i])
      => cache[f].version = disk[f]
=============================================================================
