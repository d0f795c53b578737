------------------------------ MODULE FileSystem ------------------------------
(***************************************************************************)
(* What a program does with files by path and by stream: the filesystem of *)
(* its session (Namespace), the mounts that a worker is told of (Mounts),  *)
(* a provider over a directory of the browser (HandleDir), and the streams *)
(* of node:fs (FileStreams).  One of them is taken in a behaviour; the     *)
(* others rest in an initial state of theirs.                              *)
(***************************************************************************)
EXTENDS Integers, Sequences, FiniteSets

CONSTANTS
  Names, Point, MaxCalls, MaxOthers,            \* of Namespace
  Count, Askers, Points, Leaf, Nil,            \* of Mounts
  Retries, MaxMade, MaxAsked,
  Callers, Writers, MaxTabs,                    \* of HandleDir
  Text, Size, MaxChunk, MaxWrites,              \* of FileStreams
  MaxChunks, MaxHandles, MinLength, MaxLength

ASSUME FileSystemAssumption ==
  /\ Point \in Names /\ IsFiniteSet(Names) /\ Cardinality(Names) > 1 /\ Writers \subseteq Callers
  /\ MaxCalls \in Nat /\ MaxOthers \in Nat /\ MaxTabs \in Nat
  /\ Count \in Nat /\ Askers \subseteq 1 .. Count /\ Retries \in Nat /\ MaxMade \in Nat /\ MaxAsked \in Nat
  /\ Points \subseteq Seq(Nat) \ {<<>>} /\ IsFiniteSet(Points)
  /\ Leaf \in Seq(Nat) /\ Len(Leaf) > 1        \* in a directory: the root is not asked about
  /\ Nil \notin [id : Nat, stamp : Nat]
  /\ Text \in Seq({0, 1}) /\ Text # <<>> /\ Size \in Nat \ {0} /\ MaxChunk \in Nat \ {0}
  /\ MaxWrites \in Nat /\ MaxChunks \in Nat /\ MaxHandles \in Nat \ {0}
  /\ MinLength \in Nat /\ MaxLength \in Nat

VARIABLES
  which,                                   \* the part that is taken
  s, mount, call, calls, others,           \* of Namespace
  base, layers, workers, box, made, asked, \* of Mounts
  tree, lock, how, chain, dcall, tabs,     \* of HandleDir
  r, rfd, body, got, lines,                \* of FileStreams, the stream that reads
  w, wfd, held, file,                      \* the one that writes
  u, handles, stored, told, mixed          \* and the log

names == <<s, mount, call, calls, others>>
mounts == <<base, layers, workers, box, made, asked>>
directory == <<tree, lock, how, chain, dcall, tabs>>
reads == <<r, rfd, body, got, lines>>
writes == <<w, wfd, held, file>>
logs == <<u, handles, stored, told, mixed>>
vars == <<which, names, mounts, directory, reads, writes, logs>>

N == INSTANCE Namespace
M == INSTANCE Mounts
D == INSTANCE HandleDir WITH call <- dcall
F == INSTANCE FileStreams

Init ==
  /\ which \in {"names", "mounts", "directory", "reads", "writes", "logs"}
  /\ N!Init /\ (which # "names" =>
       ~ mount.there /\ ~ mount.layered /\ s.L = N!Empty
         /\ s.O = IF \E n \in Names : s.O[<<n, n>>] # N!None THEN N!Empty ELSE s.O)
  /\ M!Init
  /\ D!Init /\ (which # "directory" =>
       ~ how.movable /\ ~ how.readOnly /\ Cardinality({p \in D!Paths : tree[p] # D!None}) = 3)
  /\ F!ReadInit /\ (which # "reads" => r.path /\ r.end = 1)
  /\ F!WriteInit /\ (which # "writes" => w.path /\ w.truncates /\ w.start)
  /\ F!LogInit /\ (which # "logs" => u.append /\ u.handle = 1)

Part(name, step, rest) == which = name /\ step /\ UNCHANGED <<which, rest>>

Next ==
  \/ Part("names", N!Next, <<mounts, directory, reads, writes, logs>>)
  \/ Part("mounts", M!Next, <<names, directory, reads, writes, logs>>)
  \/ Part("directory", D!Next, <<names, mounts, reads, writes, logs>>)
  \/ Part("reads", F!ReadNext, <<names, mounts, directory, writes, logs>>)
  \/ Part("writes", F!WriteNext, <<names, mounts, directory, reads, logs>>)
  \/ Part("logs", F!LogNext, <<names, mounts, directory, reads, writes>>)

Spec == Init /\ [][Next]_vars
-----------------------------------------------------------------------------
(* Properties *)

\* What a listing names is what a stat of it finds, across layers and mounts (facade.ts
\* readdir, union.ts readdir).  What a worker has been told of the mounts is where its paths are
\* served, and what it concluded before they changed is on its way to be dropped (mounts.ts,
\* index.ts drainInvalidations).
ListingsAgree ==
  /\ which = "names" => N!ListingsAgree
  /\ which = "mounts" => M!SnapshotAgrees /\ M!NoneStale

\* No bytes are lost that the call did not say were lost: of a file that is renamed, by one step
\* or by a copy that may fail at any of its own, or appended to (ops.ts, handle-dir.ts rename), and of
\* what a log stream has taken (utf8-stream.ts), whose file has it in order.
BytesKept ==
  /\ which = "names" => N!BytesKept
  /\ which = "directory" => D!BytesKept
  /\ which = "logs" => F!NothingSilent /\ F!InOrder

\* What a call or a stream reports is so.  A call that succeeded left what it says, and nothing
\* locked; a stream that ends was read whole and in lines, one that finishes has everything in
\* its place, and one that closed holds neither its handle nor its body (streams.ts _destroy,
\* utf8-stream.ts #teardown).
CallShows ==
  /\ which = "names" => N!CallShows
  /\ which = "directory" => D!CallShows
  /\ which = "reads" => F!ReadWhole /\ F!NothingHeld
  /\ which = "writes" => F!WrittenInPlace /\ F!ClosesOwn
  /\ which = "logs" => F!FinishIsLast

\* No call of a program changes what is mounted read-only, through a layer or not.
ReadOnlyHolds == N!ReadOnlyHolds /\ D!ReadOnlyHolds
=============================================================================
