# Verification of node-worker

node-worker runs a Node program in a web worker. The program's files, processes and
sockets are served by the page that created the worker. A *blocking* call (`fs.readFileSync`)
parks the worker's thread in a synchronous XMLHttpRequest; a service worker turns that
request into a message to the page and the page's reply into the response. This directory
holds TLA+ models of that machinery, TLC runs on small instances, and TLAPS proofs for
every instance. Paths are relative to the repository's `src/` unless they start with `tla/`.

## The system

| part | state it keeps | operations | talks to | modules |
| --- | --- | --- | --- | --- |
| worker transport (`worker/node/fs/transport.ts`, `wire/sw.ts`, `wire/pack.ts`) | sequence counter, queue of sidebands | `sendSync`, `sendAsync`, the attempts of `rawSync` | service worker by XHR, page by port | `SyncTransport` |
| service worker (`sw/handler.ts`) | sessions and ports, requests in flight, waiters, a counter; all lost when the browser stops it | `serve`, `rescue`, `adopt`, `settle`, `expire` | windows, page | `SyncTransport` |
| page attachment (`lib/sw.ts`) | registrations, the current port | `registerOnce`, `attachSession`, `connect`, `answer`, `detach` | service worker | `Attach`, `SyncTransport` |
| router and reply record (`wire/router.ts`, `wire/replay.ts`, `lib/vfs/dispatch.ts`) | the last 64 replies of a session | `recall`, dispatch, `remember` | everything the page serves | `SyncTransport`, `Endpoint` |
| port of a worker (`wire/endpoint.ts`, `worker/stdio.ts`, `worker/channels.ts`) | calls outstanding, bytes that ride along | `call`, `post`, `bootstrap`, `close` | both ends | `Endpoint` |
| standard streams (`lib/console.ts`, `worker/console.ts`) | two writers, a reader and its leftover, holds | write, read, `closeStdio` | program and page | `Terminal` |
| open files (`lib/vfs/handles.ts`, `vfs/flags.ts`) | per descriptor: offset, buffer, fragments, dirty, queue; per path a lock | `open`, reads, writes, `sync`, `close`, `flushPath`, `closeAll` | the facade | `FileHandles`, `PosixFile` |
| facade, mounts, unions, composite calls (`lib/vfs/facade.ts`, `mounts.ts`, `union.ts`, `ops.ts`, `memory.ts`, `index.ts`) | mount tables, layers, overlay, snapshots and memos | calls by path, mounting, layering | providers, workers | `Namespace`, `Mounts` |
| directory of the browser (`lib/vfs/handle-dir.ts`) | none; the browser's | calls as chains of awaits | the browser | `HandleDir` |
| puterfs (`lib/vfs/puter*.ts`) | throttle, budget, pages | requests, listings, rename | the api | `PuterStore` |
| read cache (`lib/vfs/cache.ts`) | tree, generations, calls in flight | read through, change, events, stale marks | provider, feed | `ReadCache` |
| change feed (`lib/fsevents.ts`, `worker/fsevents.ts`, `worker/node/fs/watch.ts`) | a hub with socket, watchdog, counter; watchers | subscribe, poll, `setState`, rescan, iterate | server, cache, worker | `FsEvents`, `FsWatch`, `WatchIterator` |
| file streams (`worker/node/fs/streams.ts`, `utf8-stream.ts`) | handle, body, buffer | read, write, end, destroy | handles | `FileStreams` |
| lifecycle (`lib/index.ts`, `worker/index.ts`, `exit.ts`, `keepalive.ts`, `timers.ts`) | status, tracked resources, reference count | start, execute, exit, drain, `terminate` | everything | `NodeWorker`, `TimerHandles` |
| module loader (`worker/module/`) | memos, require cache, registry | resolve, require, import, invalidate | transport | `Loader`, `Resolve` |
| children (`lib/process/`, `worker/node/child_process.ts`, `worker_threads.ts`) | children, output, wake slot | spawn, poll, kill, exit; threads and their ports | a NodeWorker each | `Processes`, `Threads` |
| network (`worker/node/net/`, `lib/network*.ts`, `lib/peer.ts`, `worker/peer.ts`) | sockets, servers, a peer's channel, relays | connect, write, end, listen, close | the page, peers | `Sockets`, `PeerChannel`, `Relay` |
| protocols (`node-core/internal-binding/http2`, `http_parser`, `zlib.ts`) | sessions and streams, spans of headers, a codec's state | pump, parse, write | sockets | `Http2`, `HttpParser`, `Zlib` |
| globals of the web (`worker/epoxy/globals.ts`) | a socket's state and writer, a body's reader | dial, send, close, fetch, read | epoxy client | `WebGlobals` |

What makes it hard: the service worker may be stopped between any two steps and forgets
everything; every party has timers that can fire while the answer is on its way, and the
worker answers a failure with a retry; the page's file system is asynchronous, so every
check in it is separated from its use by an await; events and cached reads come from a
remote that other clients write to; a worker may be terminated in the middle of its own
start. What correct means, per part, is what the properties of the runs say below.

## Modules

Each component is a module with its own variables. `Feed`, `Realm`, `Children`, `Network` and
`FileSystem` put several of them side by side: their variable `which` (in `Feed`, `half`)
says which one moves in a behaviour, and a property of theirs is the conjunction of those of
their parts. Every part is checked against all that its neighbours may do to it, so nothing is lost by letting one
move at a time; what they share is stated in the composing module's header. The header of
each module says what it models, what is external to it and what it leaves out; `map` in
`PROJECT.json` names the source of each definition. Conventions: an action is one callback,
handler or stretch of code between two awaits; an armed timer may fire at any moment; bytes are
numbers, so that order and origin can be told apart; history variables exist only for the
properties.

### `SyncTransport` - a blocking call, from the parked thread to the page and back

One session per node worker. The variables follow the parties: `worker`, `outbox` and
`printed` are the worker's; `sessions`, `nextSeq`, `fetches` and the incarnation `inc` the
service worker's (`fetches` is a set of fetch events, each with the point it has reached:
looking up its session, listing the windows, waiting for one, relayed); `ports`, `closed`
and the notices `swq`, `rescues` are the link; `ops`, `execs` and `record` are the page's;
`ran` and `heard` are history. Each message handler, timer and early return is an action:

| actions | code |
| --- | --- |
| `Enqueue`, `SendSync`, `SendAsync`, `XhrTimeout`, `NetworkError` (with `FailAttempt`) | `sendSync`, `sendAsync`, `rawSync` in `transport.ts`, `OutboundQueue` in `pack.ts` |
| `LookupHit`, `LookupMiss`, `Ask`, `RescueTimeout`, `Expire`, `Adopt`, `Detach`, `Evict` (with `Relay`, `Refuse`, `Settle`) | `sw/handler.ts` |
| `AttachSession`, `Rescued`, `ControllerChange`, `Attached`, `Mismatched`, `AttachTimeout`, `Terminate` | `lib/sw.ts`, `terminate` in `lib/index.ts` |
| `Answer`, `LoseOp`, `Finish` (with `Recall`, `Remember`) | `answer` in `lib/sw.ts`, `wire/router.ts`, `lib/vfs/dispatch.ts`, `wire/replay.ts` |

Abstractions. Time is left out: an armed timer may fire at any moment. The exception is the
service worker's deadline: the page's heartbeat is sent every few seconds against a deadline
several times as long, so with `Heartbeat` TRUE it holds the deadline off while the page is
running the request on a port that still reaches the service worker. A reply crosses the
service worker and wakes the thread in the step that posts it; a timeout or an eviction
during that trip has the effect of one just before it. Request kinds are a constant; those in
`Recorded` go through a dispatcher with a reply record (all but stdio), and the runs use one such kind.

### `FileHandles` - open files; `PosixFile` - what they promise

`FileHandles` models the registry of one page: `hs` are the handles in the order of their
descriptors, each with its buffer, fragments, offset, `O_APPEND` cursor, dirty flag, mtime
and the queue on which its operations run one at a time; `opens` is the lock of each path
with the opens queued on it; `flushes` are the operations by path that are waiting for a
flush. An operation is split at its awaits: `Begin` actions run it from the head of the
queue to its first call of the facade, `Resume` actions from there on (`Fill`,
`RecordMtime`, `LearnSize`, `FetchRange`, `Stat`, `Upload`), and each call may fail
(`FacadeFails`, `UploadFails`, `OpenFails`). Bytes are the numbers of the operations that
wrote them, so content, order and holes can be told apart. The fields `wrote`, `sent` and
`lost` are history: the last write accepted, the last contained in a completed upload, and
whether a failing close told its caller.

`PosixFile` is the abstract specification: one content, one offset, each operation one
atomic step at the moment of its answer, and after a confirmed flush storage equals content.
The instance `Posix` gives the refinement mapping: the content a descriptor shows is its buffer
while it is dirty or uploading, and storage otherwise. The property `IsPosixFile` says that
a `FileHandles` behaviour with one descriptor is a `PosixFile` behaviour.

### `ReadCache` - what a session remembers of a remote that others write to

`cache` is the tree (one node for each path: missing, directory or file, with its stat, its
contents, how deep its listing is complete, and its generation) and the index of uids; `gen`
is the generation. `past` is the remote (per path, everything it has been), `feed` the events
on their way. `reads` and `changes` are the calls of the provider under way: the remote
answers in the step that sends the request, and the answer arrives any time later (`Stat`,
`ReadFile`, `Readdir`, `Revalidate`, `Change`, then `Arrive`, `Settle` or a failure).
`Foreign` is another client; `ApplyEvent`, `MarkStale` and `Flush` are the controls. Readers
are not state: `CachedStat`, `CachedRead` and `CachedList` are what a reader would be told
now, and a reader they cannot answer may send its request. The helpers of the code (`dirAt`,
`forget`, `replace`, `unseal`, `invalidate`, `put`, `seal`, `ingest`, ...) are operators from
a tree to a tree.

What is promised is stated against two history variables: `known`, the last moment of each
path that this side was told of (by an own change, an event or a stale mark), and `raced`,
the paths about which a call overlapped with other calls or news, or an event came after
something newer was read. An answer about a path that is not raced must be true of some moment
from `known` on. The code has no defence for raced paths; see the findings.

An own rename goes out as a move, whose event names both paths; a rename by `POST /rename`
(`relabel`), a recursive mkdir and a forced `rm` are operations of the model that the runs leave
out, since the code is wrong about them (see the findings). A directory stands for itself by being
one, and a node made only to hold something below it may be answered with EISDIR by `readFile`
(`putMissing` builds such nodes for ancestors that may be absent). Two writes in one second to one
size cannot be told apart by the code, as its header says; the model's stamps are all different.

### The other components

- `PuterStore`: requests of one call after the other, each with the throttle's waits and the
  budget; a recursive listing page by page and horizon by horizon; rename with what it looks
  at before it moves. Another client changes the tree between any two requests.
- `FsEvents`, `FsWatch`, `WatchIterator`: the hub of the page with its socket, its watchdog and
  the counter it polls; the worker's subscription with its watchers; a watcher as
  `fsPromises.watch` gives it. `Sent` and the number of the last change stand for events.
- `Namespace`, `Mounts`: the calls of one session over a union of an overlay and a store and a
  memory mount, each provider failing at any step (a rename into itself is not taken: the memory
  provider would cut the subtree off); the mounts and layers of several workers,
  with what is pushed to them and what rides on replies.
- `HandleDir`: calls that overlap in one provider, another tab, and the browser's locks.
- `FileStreams`: one stream that reads, one that writes and one `fs.Utf8Stream`, over handles
  whose calls fail.
- `NodeWorker` (with `keepalive.ts`); `TimerHandles`; `Loader`; `Resolve`.
- `Processes`, `Threads`, `Endpoint`, `Terminal`, `Attach`.
- `Sockets`, `PeerChannel`, `Relay`, `Http2`, `HttpParser`, `Zlib`, `WebGlobals`
  (a WebSocket, a WebSocketStream and a fetch).

### Modules for TLC and proofs

`MC*` modules extend a module for a configuration and only define values of constants that a
`.cfg` cannot write down; the other runs take their module as it is. The theorems are in
`SyncTransport_proofs`, `FileHandles_proofs`, `Feed_proofs`, `Realm_proofs`, `PuterStore_proofs`,
`Children_proofs`, `Network_proofs` and `FileSystem_proofs`. Definitions marked "Mutation" are plausible bugs:
put in place of the definition they vary, they make the property named in `PROJECT.json`
fail, so each property depends on the code.

## Runs

| run | instance | shows |
| --- | --- | --- |
| `transport_retry` | 1 session, 2 attempts of a call, 2 incarnations of the service worker, 2 attach attempts, every timer, a reply window of 1, 1 sideband | a thread wakes with the answer to its own call (`TrueAnswer`), no reply settles another entry (`NoCrossedReply`), a sideband arrives at most once (`SidebandOnce`), the port adopted last is not one the page has closed, unless a newer one is on its way or connecting is over (`ClosedPortIsLast`), a recorded call runs again after completing only past the window (`RerunOnlyPastWindow`) |
| `transport_sessions` | 2 sessions whose numbers coincide, 2 incarnations, no deadline in the worker (WebKit) | the inductive invariant (`RoutingInv`), and that every parked thread returns (`ParkedReturns`) |
| `handles_posix` | 1 descriptor, 3 operations of any kind, 4 modes, ranges native or not, any failure | what is not in storage is known to be dirty (`BufferTells`), nothing accepted is lost unless the close says so (`NoSilentLoss`), the descriptor is a file with an offset (`IsPosixFile`) |
| `handles_shared` | 3 opens over 2 paths, a cap of 1, flushes and writes by path | creation is serialised and the cap holds but for one open per path (`OpensApart`), a flush shows what it flushed (`FlushShows`), every queue drains (`QueuesDrain`) |
| `cache_events` | 3 paths in 2 levels, 2 changes of any kind by either side, room for 1 file | `BelievedTrue`, `ListingsTrue`: an answer is never older than what this side was told |
| `cache_stale` | the same paths, the directory empty too, 1 write or removal, 2 calls at once, 2 generations | `BelievedTrue` across a stale mark, absences that a listing implied included |
| `feed` | 2 changes, 2 consumers, a watcher of a directory and of a file, 2 requests of an iterator | `NothingMissed`, `EndsAgree`, `EmptyIsQuiet`, `ChangesSurface` |
| `realm` | 1 worker with 2 operations; 3 files and 2 specifiers; trees of depth 3; 2 timers and 2 immediates | `NothingOutlives`, `OutputFirst`, `DrainIsIdle`, `ExitSettles`, `RunsOnce`, `LoadsAnew` |
| `children` | a process with 1 piece of output and 2 of input; a thread with 2 messages; 2 sessions and 3 attempts to attach; an endpoint with 3 prints; 3 bytes typed | `OutputWhole`, `ExitTrue`, `ThreadFollows`, `ExitTold` |
| `network` | 1 client and a server, or 2 of which one is connected while the server closes and listens again; a channel with a mark of 2; 1 stream of 2 frames; 2 parsers; codecs over every text of 2 units; a socket with 2 messages each way; bodies of 2 chunks | `EndMeansAll`, `NothingLeft`, `AllSettle` |
| `filesystem` | 2 names, 1 call and 1 foreign change; 2 workers' layers; 2 overlapping calls and a tab; streams of 2 or 3 chunks, a log of 3 with 4 handles | `ListingsAgree`, `BytesKept`, `CallShows`, `ReadOnlyHolds` |
| `puter` | a tree of 2 levels with 2 entries in a directory, a horizon of 1, pages of any length, 1 retry, a budget of 2, 2 foreign changes | `DoneOnce`, `ListingWhole`, `CallEnds` |

Disagreements of the code with its own comments, met while modelling, are the `findings` of
`PROJECT.json`, each with the lines that say so. Where a property would be false because of
one, it excepts exactly that case, by a history variable or an operator whose comment names it
(`raced`, `torn`, `late`, `lost`, `threw`, `early`, `mixed`, `blind`, `refused`, `Forgotten`). The
exceptions a reader should know first:

- `ClosedPortIsLast`: a service worker of another protocol keeps a session whose port was closed.
- `NothingOutlives`: a session that is being attached when `terminate` comes is never detached.
- `DoneOnce`: a look that failed, or that was given up because the directory has several entries,
  which `rename` takes for an empty one, lets it delete a tree; so does a change after the look.
- `AllSettle`: a server that was closed with connections left and listens again is published as one
  that closes, and whoever waits for it waits for ever; and an `end()` before the connection is lost.
- `BytesKept`: an `end()` that waits for no write and a `write()` after `end()` finish too early;
  an open answered late, or in place of a newer one, leaves a handle nobody closes.

Why the bounds are enough. A retry needs two attempts of one call; a stale reply needs two
incarnations, so that the service worker's counter starts over; a stale port needs a second
attach attempt; a full reply window needs one call more than the window; a wrong session needs
two sessions whose numbers coincide. For open files, an append over a hole, a read past a
fragment or a write during an upload needs two or three operations, two byte positions and
one flush; a race of creations needs two opens of one path, and a cap of 1 with two paths is
the smallest that two opens can pass together. For the cache, a directory with a file in it
and a path beside it give every relation the tree code distinguishes, two changes make an
event late behind another, two generations are all a comparison can see, and room for one
file makes every second read evict; an absence that
a claim from before a stale mark implied needs a directory that was listed when it was empty. A change missed needs one change during the look that
answers another; a second consumer is one that must be told of what the first was told of before.
Streams need a chunk that is cut (a mark, a window or a buffer smaller than it), one after it,
and an end; a log needs a chunk in flight, one buffered at `end()` and one written after it, and
as flushes may come at any time a minimum of two for a write stands for every minimum. A directory
taken for empty needs two entries. `Plans` bounds what the programs of `Sockets` do: all there is,
with one client; or, with two that only dial, a server that is closed with a connection and
listens again. `RequireSyncFs` is an option of the program: with it, which is the default, there is no
worker without a session. A registration that is shared needs two sessions, a leftover of standard input
three bytes typed and two reads at once. Bounds named `Max...`, `Attempts`, `Retries`, `Budget`, `Askers`,
`Count` are guards of the actions that would pass them; a bounded behaviour may stop, hence
`CHECK_DEADLOCK FALSE`.

Fairness. That a message is handled, a running operation settles, a callback or an armed timer
runs: event loops and timers of browsers promise that, and each action that stands for one
is weakly fair in the specification of the run. Nothing is assumed of what the program, another
client, the network or a reader may or may not do: nobody has to read, write, close, or answer a handshake; the service
worker need not stay up, and the worker's own XHR deadline need not fire (WebKit ignores it).

## Proofs

`SyncTransport_proofs` proves, for any number of sessions, kinds, retries, attach attempts,
ports and incarnations:

- `TypeCorrect`: `Spec => []TypeOK`;
- `RoutingCorrect`: `Spec => []RoutingInv`;
- `TrueAnswers`, `RepliesDoNotCross`, `NewestPortWins`: the invariants of the runs, as
  consequences.

`NoCrossedReply` is not inductive. A reply finds its pending entry by session and number, so
one needs to know (`PortsLinked`) that a port belongs to the session whose requests travel on
it and that ports are adopted in the order they were minted, and (`NumbersFresh`) that every
number in use on a port that reaches the service worker was minted by the incarnation that
lives: then a new number meets no old reply, although the counter restarts. `TrueAnswer` adds
that the reply record is true of its own session (`RecordTrue`). The conjunction
`RoutingInv` is inductive, has been checked by TLC first (`transport_sessions`), and its
proof has one lemma per action. The only assumption is `TransportAssumption`: the constants
are naturals and Booleans of the kinds the code gives.

The same module proves three more, of what a retry may repeat and which port it finds.

- `SidebandsAtMostOnce`: what is queued, what rides on a message and what was delivered are apart
  (`Once`), and no two messages carry the same one, the attempts of one call included.
- `RerunsArePastWindow`: the record holds at most `ReplayWindow` answers, and the place of an
  answer there tells how many recorded calls completed since (`Window`). A call that completed and
  is not remembered has a whole window behind it. A number stands for one kind of call wherever
  it still is (`OneKind`), so that the repeat of a recorded call is looked up in the record too.
- `ClosedPortsAreReplaced`: a port is adopted unless its notice is on its way; ports are adopted
  in the order they were minted; and one closed for its deadline before its last attempt has a
  successor for the same session (`PortsInOrder`). One closed for its protocol has none.

`FileHandles_proofs` proves the four safety properties of open files: `BufferKnown`,
`NothingIsLostSilently`, `OpensAreApart` and `FlushesShow`, for any paths, descriptors, opens,
sessions and operations. `HandleOK` is the invariant of one handle: what its buffer, its dirty
flag and the newest write it took and sent may be in every phase of an operation. Each operation
either ends (`Ends`) or goes to its next await (`Waits`), and both keep it. `StateOK` puts the
handles together with files, opens and flushes. `Apart` says what the locks are for: a handle is
on a file that is there and on none that is being created, and the handles and the opens under
way pass `MaxOpen` by at most one for each other path, the exact bound that `OpensApart` states.
`HandlesAssumption` asks for finitely many paths and positive lengths. `Min` and `Max` of the
community modules are shown to be what they say (`MinIn`, `MaxIn`) from the library's theorem
that finite sets are well-founded under inclusion.

`Feed_proofs` proves `ChangesAreTold`, `EndsDoAgree` and `EmptyDoesRest`, each half of the feed
by its own invariant (`HalvesInv == PageInv /\ WorkerInv /\ IterInv`).
- `PageInv`: every change a subscriber is owed is still to come to it (`ToCome`): by an event
  that is queued, by the poll that will see the counter pass the baseline, or because its socket
  will be found dead.
- `WorkerInv`: the two ends of the feed are level but for the messages between them (`Ends`,
  `CoverKnown`), and a watcher of a directory is level with its notices but for the listing under
  way (`Rescans`).
- `IterInv`: what was handed out and what is queued are together what was seen.

`FeedAssumption` says that directories are not files and that the marks `None` and `Sent` are not
listings.

`Realm_proofs` proves `WorkersEndWhole`, `OutputComesFirst`, `DrainsAreIdle`, `BodiesRunOnce` and
`ModulesLoadAnew`, for any number of requests, chunks, timers and immediates, any files and
candidates, and any tree of packages, however deep.
- What a program said, it had printed by the time its end was settled, by `process.exit` or by its
  return. `OutputFirst` needs that this cannot change any more once the thread has started to tell
  of its end (`Settling`) or anything the page may act upon does (`Past`): then what was said is
  `Fixed`. That rests on the count of `keepalive.ts` being right (`CountsTrue`), and in it each
  flush being an operation: a program left with its flushes only has no callback that could call
  `process.exit`. With that, whatever tells of the end is behind the chunks, wherever it is
  (`Told`): behind or with the messages that carry them, in the write chain behind their bytes,
  or, as an answer or a deadline, after they were taken or written.
- `WorkersEndWhole` follows from the page's part of the same invariant (`Outlived`), with a session
  attached too late as the one thing that may stay.
- The timers' invariant (`TimersInv`) says that the flags of the binding, the next expiry and the
  count of refed timers agree with the timers themselves whenever no pass over them is under
  way: a pass leaves them behind, and its end makes them good.
- The loader's invariant (`LoaderInv`) says that a frame, entry or read whose version is not that
  of the disk is of a file the worker is yet to be told of, by a control call on the way or by
  none (`Untold`); a call is heard only when no frame and no read is left, and then nothing of the
  file stays. A resolution that nothing overtook found every candidate before the one it is at
  missing, of a disk that has not changed (`LooksTrue`), so what is remembered of it is the first
  that is there. What has neither ended nor thrown is on the stack of those that run (`Halves`).
- The resolver's (`ResolverInv`) says that both memos are true of the tree. A walk for a type may
  end at what another walk remembered, and that one went on from there: it ended where the whole
  walk would have (`WalkTrue`). What is found in a true tree is what Node finds, with the
  exceptions `Resolve` names, because both end at the same nearest level (`FoundAsNode`,
  `TypedAsNode`).

`RealmAssumption` asks that a program has finitely many timers, that `None` is not a result and no
entry of the module cache, and that the facts a level may hold are of the kinds `Resolve` knows.

`PuterStore_proofs` proves `CallsAreDoneOnce` and `ListingsAreWhole`, for any number of calls, other
clients, limits of the transport, and any finite tree of paths.
- A request is not performed before it is answered, and what is answered is not sent again
  (`NetOK`). A rename carries what it saw of its destination, which holds until another client
  changes it (`RenameOK`), or knows that it saw nothing: only its last request overwrites.
- A listing is whole because at every moment what has stayed is handed out, or left of the request
  that is under way, or below a directory that waits to be listed, and these three have nothing in
  common (`Rest`). A page takes its paths from the second to the others (`PageTaken`), its cursor
  divides what is left (`PageTurned`), and the next directory becomes the request (`RootTaken`).
  Cursors compare paths where the request cuts them (`Cut`), so that a directory at the horizon
  stands for all that is below it; that needs the order of the paths to be total (`BeforeTotal`),
  and what is there to have all its ancestors there (`TreeOK`, `Ancestors`), which every change of
  the api keeps (`WithoutOK`, `PlacedOK`, `MovedOK`).

`PuterAssumption` asks that paths are finitely many sequences of numbers that are closed under
taking a parent, and that a request reaches one level at least.

`Children_proofs` proves `EndsAreTrue` and `ThreadsFollow`, for any number of messages, sessions,
attempts and calls. Each part has an inductive invariant of its own (`ChildrenInv`), and those of
the process and of the port were checked by TLC first, on the run's instance.
- `ProcessInv`: one poll is outstanding, asked, waiting or answered (`OnePoll`); an exit is the last
  event of the answer it is in, and true of the child (`Exits`); and whoever polls has a child or
  its exit on the way (`Kept`). Without the last two `ExitTrue` is not inductive: an answer on its
  way would be taken for the end, whatever it says.
- `ThreadInv`: the messages of a thread are numbered on from those that were heard or missed
  (`Numbered`), and a thread that runs is known to a page that has not ended (`RunsKnown`).
- `AttachInv`: whoever waits has something to wait for, and what it will be given is of the scope
  it asked for (`Waits`, `Granted`).
- `HoldInv`: standard input holds the run open exactly while somebody waits for it.
- `PortInv`: each message, and whatever is being handled, carries the number and the parts of the
  call it is of (`TrueMessages`); the calls in flight are those that an answer finds (`Waiting`).

`ChildrenAssumption` asks that `None` is no number and no status.

`Network_proofs` proves `NothingIsLeft`, for any number of clients, parsers, services, renewals of
the credential, messages, frames and chunks: what is over holds nothing. `NetworkInv` is the
conjunction of an inductive invariant for each part, and a step of one leaves the others alone.
- `SocketsInv`, `PeerInv`: `terminate` closes what is there and nothing opens after it; a channel
  that was shut down is not dialled again. Here the property is nearly inductive.
- `ParserInv`: a parser and its pointer name each other, and the server's list has something under
  a pointer exactly while its parser is ready and of the list (`Listed`). Without the first, a
  pointer that is given again could find what an earlier parser left there.
- `RelayInv`: of each token one relay at most did not fail, and the map has it until the token is
  renewed (`Mapping`); a service has no client that failed (`Having`); a call that is open is of
  a service that is not closed, and its port is shut once, with its end (`Calling`).
- `WebInv`: what the object says of its connection while it is dialled, open and given up
  (`Standing`); `bufferedAmount` is the number of sends that are not done, a cardinality
  (`Counted`); and a text is on the wire only after those sent before it have left the queue in
  which they are converted, without which their order is not inductive (`InOrder`).
- `DuplexInv`: the two promises of a WebSocketStream say what it holds (`Given`).
- `FetchInv`: the holds on the run are the request, each reader of a whole body, and a mirror
  that was pulled from and has not ended (`Held`, `LetsGo`).

`NetworkAssumption` asks that `"nobody"` is no parser and that the number of renewals is one.

`FileSystem_proofs` proves `ReadOnlyKept` and `ListingsHold`, for any names, mounts, calls, callers,
workers, steps of the host and of other tabs.
- Of the memory mount (`SpareInv`), every call of the facade, to whichever layer, answers with the
  tree as it was while the mount is read-only (`CallsSpare`), so the only steps that change it are
  the host's. Of a directory of the browser (`StillInv`), every call is refused before it is queued,
  and none is under way.
- What a listing names agrees with a stat because each of the three trees stays a tree: what has
  something below it is a directory, through every call and every part of one that may fail
  (`NameInv`: `Trees` of the state, `CallOk` of the call under way). From that, what the facade
  merges of two layers and of a mount below is what a stat finds, path by path.
- What workers are told of the mounts (`MountsInv`) rests on three things: the last list posted to a
  worker is of the mounts as they are (`Informed`); what it concluded and is no longer so is doubted
  by something on its way, and a reply it is about to conclude from by something behind the reply
  (`Doubted`); and every change on the page adds to what a layer owes its worker at least the trees
  whose mount is another now (`Owed`). That the one who serves a path is the longest root above it
  (`LongestIs`) gives the last one: a change of a root changes only what is below it.

`FileSystemAssumption` asks that names are finite and more than one, one of them the mount's; that
no mount is at the root, which is the overlay's, and the path a worker asks about is in a directory;
and that `Nil` is no mount.

## Only model-checked

Liveness (`ParkedReturns`, `QueuesDrain`, `ChangesSurface`, `ExitSettles`, `ExitTold`,
`AllSettle`, `CallEnds`) is out of the prover's reach and stays with TLC. So do:

- the refinement `IsPosixFile`, whose abstract content is what a sequence of operations made
  of a file;
- `BelievedTrue` and `ListingsTrue`: the tree the cache holds is compared with a fold over
  everything a side was told, and a fact about every fold is an induction over data;
- the algorithms that are compared with a reference over bounded inputs (`Zlib`, `HttpParser`),
  for the same reason;
- `OutputWhole`, which compares what was read with the concatenation of all that was written: an
  induction over data again;
- `EndMeansAll` of `Network`, whose parts compare sequences of what was written and read, and
  `CallShows` of `FileSystem`, some of whose parts compare a copy made in steps with its source;
- `BytesKept` of `FileSystem`, whose parts compare what was pushed with the window, or a file and
  its order with what was written to it piece by piece.

## Not modelled

- The Node runtime in the worker: bindings without a state of their own (crypto, streams,
  url and others under `worker/node-core/internal-binding`), which translate call by call, and
  the rewriter of program text (`worker/node-rust`).
- What is external: browsers' storage and streams, nghttp2, llhttp, zlib, the TCP stack in
  WebAssembly, Node's own JavaScript. Modules model it from how the code here uses it.
- The serving side of a peer's signaller, TLS, addresses and name lookup; `/dev`; symbolic
  links; the matching of conditions and patterns within one package's exports; wire framing
  (a frame is what it holds).
