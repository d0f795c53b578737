----------------------------- MODULE FileHandles -----------------------------
(***************************************************************************)
(* Open files (lib/vfs/handles.ts).  The storage behind a mount has no     *)
(* partial write, so a handle buffers the file and uploads it whole when   *)
(* it is flushed.  The operations of a handle run one at a time, in the    *)
(* order they were submitted; every call of the facade is an await, at     *)
(* which other handles, opens, flushes by path and writes by path go on.   *)
(*                                                                         *)
(* A call of the facade takes effect in the step that resumes its caller.  *)
(* A byte is the number of the operation that wrote it, 0 for what nobody  *)
(* wrote; an operation writes one byte.  readv and writev are a read and a *)
(* write of the lengths together, utimes and openRead are a stat: what     *)
(* they change or read is not of the handle.  The registries of a parent   *)
(* and a child file system share the locks and the flushes, so one         *)
(* registry stands for them.  Files are not removed.                       *)
(***************************************************************************)
EXTENDS Integers, Sequences, FiniteSets, SequencesExt

CONSTANTS
  Paths,
  Owners,     \* the sync sessions
  Modes,      \* open modes in play
  Existing,   \* the paths that may be there from the start
  NativeRange,\* what a mount may say of readRange
  Null,       \* a positionless read or write
  NoBuf,      \* no whole-file buffer
  Failed,     \* the answer of an operation that failed
  Positions,  \* bound: explicit positions
  Lengths,    \* bound: lengths of reads and truncations
  Calls,      \* bound: the fd operations in play
  Foreign,    \* bound: TRUE if files are also written by path
  MaxOpen,    \* MAX_OPEN
  MaxFds,     \* bound: opens
  MaxOps      \* bound: operations

AllModes == {"r", "r+", "w", "w+", "wx", "wx+", "a", "a+", "ax", "ax+"}

ReadOps  == {"read", "readFile"}
WriteOps == {"write", "appendFile", "writeFile", "truncate"}
FdOps    == ReadOps \cup WriteOps \cup {"sync", "stat"}

ASSUME HandlesAssumption ==
  /\ Modes \subseteq AllModes
  /\ Existing \subseteq Paths /\ IsFiniteSet(Paths)
  /\ NativeRange \subseteq BOOLEAN /\ NativeRange # {}
  /\ Positions \subseteq Nat /\ Lengths \subseteq Nat \ {0} /\ Lengths # {} /\ Null \notin Nat
  /\ Calls \subseteq FdOps /\ Foreign \in BOOLEAN
  /\ MaxOpen \in Nat \ {0} /\ MaxFds \in Nat /\ MaxOps \in Nat

VARIABLES
  file,     \* the storage: per path, is it there, and its bytes
  hs,       \* the handles, in the order of their fds
  opens,    \* per path: the opens queued on its lock, the running one first
  flushes,  \* flushPath calls under way
  gone,     \* the sessions that were torn down
  asked,    \* opens asked for
  nops,     \* operations submitted
  answer    \* the last answer given

vars == <<file, hs, opens, flushes, gone, asked, nops, answer>>

-----------------------------------------------------------------------------
(* Flags and bytes *)

Reads(m)     == m \in {"r", "r+", "w+", "wx+", "a+", "ax+"}
Writes(m)    == m # "r"
Appends(m)   == m \in {"a", "a+", "ax", "ax+"}
Creates(m)   == m \notin {"r", "r+"}
Truncates(m) == m \in {"w", "w+", "wx", "wx+"}
Exclusive(m) == m \in {"wx", "wx+", "ax", "ax+"}

Op == [id : 1..MaxOps, t : FdOps \cup {"close"},
       pos : Positions \cup {Null}, len : Lengths]

Later(x, y) == IF x > y THEN x ELSE y
Least(x, y) == IF x < y THEN x ELSE y

\* Bytes from..to-1 of b.
Sub(b, from, to) == SubSeq(b, from + 1, Least(to, Len(b)))

\* splice: one byte at an offset, zeros before it where the buffer ends sooner.
Splice(b, at, t) ==
  [i \in 1..Later(Len(b), at + 1) |->
     IF i = at + 1 THEN t ELSE IF i <= Len(b) THEN b[i] ELSE 0]

Resize(b, n) == [i \in 1..n |-> IF i <= Len(b) THEN b[i] ELSE 0]

-----------------------------------------------------------------------------
(* Opening: one at a time for each path *)

\* emptied: the open created or truncated the file, so its size is known.
NewHandle(p, o, emptied) ==
  LET n == IF emptied THEN 0 ELSE Len(file[p].data)
  IN [path |-> p, owner |-> o.owner, mode |-> o.mode, native |-> o.native,
      held |-> TRUE, st |-> "open", pos |-> 0, cursor |-> n,
      buf |-> IF emptied THEN <<>> ELSE NoBuf,
      mtime |-> FALSE, dirty |-> FALSE, size |-> n, frag |-> <<>>,
      queue |-> <<>>, at |-> "idle", wrote |-> 0, sent |-> 0, lost |-> FALSE]

\* open: queue on the lock of the path.
OpenCall(p, m, w, n) ==
  /\ w \notin gone
  /\ asked < MaxFds
  /\ asked' = asked + 1
  /\ opens' = [opens EXCEPT ![p] =
                 Append(@, [mode |-> m, owner |-> w, native |-> n, at |-> "lock"])]
  /\ UNCHANGED <<file, hs, flushes, gone, nops, answer>>

Leave(p, i) == opens' = [opens EXCEPT ![p] = RemoveAt(@, i)]
Goto(p, i, l) == opens' = [opens EXCEPT ![p][i].at = l]
Held == {fd \in DOMAIN hs : hs[fd].held}

\* Mutation: the lock is not waited for.
OpenStart_NoLock(p, i) ==
  /\ opens[p][i].at = "lock"
  /\ Goto(p, i, "stat")
  /\ UNCHANGED <<file, hs, flushes, gone, asked, nops, answer>>

\* The lock is free: EMFILE, or look at the file.
OpenStart(p, i) ==
  /\ i = 1
  /\ opens[p][i].at = "lock"
  /\ IF Cardinality(Held) >= MaxOpen THEN Leave(p, i) ELSE Goto(p, i, "stat")
  /\ UNCHANGED <<file, hs, flushes, gone, asked, nops, answer>>

Register(p, i, emptied) ==
  /\ hs' = Append(hs, NewHandle(p, opens[p][i], emptied))
  /\ Leave(p, i)

\* EEXIST, ENOENT, a file to create or to truncate, or the handle.
OpenStat(p, i) ==
  /\ opens[p][i].at = "stat"
  /\ LET m == opens[p][i].mode
     IN IF file[p].exists
        THEN IF Exclusive(m) THEN Leave(p, i) /\ UNCHANGED hs
             ELSE IF Truncates(m) THEN Goto(p, i, "empty") /\ UNCHANGED hs
             ELSE Register(p, i, FALSE)
        ELSE /\ IF Creates(m) THEN Goto(p, i, "empty") ELSE Leave(p, i)
             /\ UNCHANGED hs
  /\ UNCHANGED <<file, flushes, gone, asked, nops, answer>>

OpenEmpty(p, i) ==
  /\ opens[p][i].at = "empty"
  /\ file' = [file EXCEPT ![p] = [exists |-> TRUE, data |-> <<>>]]
  /\ Register(p, i, TRUE)
  /\ UNCHANGED <<flushes, gone, asked, nops, answer>>

\* Mutation: the lock is kept when the open fails.
OpenFails_KeepsLock(p, i) ==
  /\ opens[p][i].at \in {"stat", "empty"}
  /\ Goto(p, i, "failed")
  /\ UNCHANGED <<file, hs, flushes, gone, asked, nops, answer>>

\* The stat or the write fails; the file may have been emptied all the same.
OpenFails(p, i) ==
  /\ opens[p][i].at \in {"stat", "empty"}
  /\ Leave(p, i)
  /\ \/ UNCHANGED file
     \/ /\ opens[p][i].at = "empty"
        /\ file' = [file EXCEPT ![p] = [exists |-> TRUE, data |-> <<>>]]
  /\ UNCHANGED <<hs, flushes, gone, asked, nops, answer>>

-----------------------------------------------------------------------------
(* The queue of a handle *)

\* get, then submit: a handle that is closed or closing admits nothing.
Admits(fd) == hs[fd].held /\ hs[fd].st = "open"

Call(fd, t, pos, len) ==
  /\ nops < MaxOps
  /\ Admits(fd)
  /\ nops' = nops + 1
  /\ hs' = [hs EXCEPT ![fd].queue =
              Append(@, [id |-> nops + 1, t |-> t, pos |-> pos, len |-> len])]
  /\ UNCHANGED <<file, opens, flushes, gone, asked, answer>>

Plain(t) == [id |-> nops + 1, t |-> t, pos |-> Null, len |-> Min(Lengths)]

\* close: the fd stops resolving at once, and the flush queues behind what was
\* accepted before it.
Close(fd) ==
  /\ nops < MaxOps
  /\ hs[fd].held
  /\ nops' = nops + 1
  /\ hs' = [hs EXCEPT ![fd] = [hs[fd] EXCEPT !.held = FALSE, !.st = "closing",
                                             !.queue = Append(@, Plain("close"))]]
  /\ UNCHANGED <<file, opens, flushes, gone, asked, answer>>

HeadOf(fd) == Head(hs[fd].queue)

\* The operation at the head ends: the handle becomes h, and whoever awaits it
\* gets res.  A flushPath that awaits a sync that fails fails with it.
Settle(fd, h, res) ==
  LET o == HeadOf(fd)
  IN /\ hs' = [hs EXCEPT ![fd] =
                 [h EXCEPT !.queue = Tail(@), !.at = "idle",
                           !.st = IF o.t = "close" THEN "closed" ELSE @]]
     /\ answer' = [id |-> o.id, res |-> res]
     /\ flushes' = {[f EXCEPT !.waits = IF f.id = o.id THEN @ \ {fd} ELSE @] :
                      f \in {g \in flushes : ~ (g.id = o.id /\ res = Failed)}}

Await(fd, h, l) ==
  /\ hs' = [hs EXCEPT ![fd] = [h EXCEPT !.at = l]]
  /\ UNCHANGED <<flushes, answer>>

Ready(fd, ts) ==
  /\ hs[fd].at = "idle"
  /\ hs[fd].queue # <<>>
  /\ HeadOf(fd).t \in ts

-----------------------------------------------------------------------------
(* The operations, from the head of the queue to their next await *)

\* O_APPEND: past everything this handle knows about.
Target(h, o) ==
  IF Appends(h.mode) THEN Later(Len(h.buf), h.cursor)
  ELSE IF o.pos = Null THEN h.pos ELSE o.pos

\* The handle after a write operation on a filled buffer.
Applied(h, o) ==
  LET dirtied == [h EXCEPT !.dirty = TRUE, !.wrote = o.id]
      at      == Target(h, o)
      end     == Later(Len(h.buf), h.cursor)
  IN CASE o.t = "write" ->
            [dirtied EXCEPT !.buf = Splice(@, at, o.id),
               !.cursor = IF Appends(h.mode) THEN at + 1 ELSE @,
               !.pos = IF Appends(h.mode) \/ o.pos = Null THEN at + 1 ELSE @]
       [] o.t = "appendFile" ->
            [dirtied EXCEPT !.buf = Splice(@, end, o.id),
                            !.cursor = end + 1, !.pos = end + 1]
       [] o.t = "writeFile" ->
            [dirtied EXCEPT !.buf = <<o.id>>, !.pos = 1, !.cursor = 1, !.frag = <<>>]
       [] o.t = "truncate" ->
            [dirtied EXCEPT !.buf = Resize(@, o.len), !.cursor = o.len, !.frag = <<>>]

Start(h, o) == IF o.pos = Null THEN h.pos ELSE o.pos

\* Mutation: the offset advances by what was asked for.
Answer_WholeLength(fd, h, got) ==
  LET o == HeadOf(fd)
  IN Settle(fd, [h EXCEPT !.pos = IF o.pos = Null THEN Start(h, o) + o.len ELSE @], got)

\* Answer a read from the bytes got.
Answer(fd, h, got) ==
  LET o == HeadOf(fd)
  IN Settle(fd, [h EXCEPT !.pos = IF o.pos = Null THEN Start(h, o) + Len(got) ELSE @], got)

FromBuffer(h, o) == Sub(h.buf, Start(h, o), Start(h, o) + o.len)

\* The cached bytes from the start of the read, up to the first gap.
FromFragments(h, o) ==
  LET n == Max({k \in 0..o.len : \A i \in 0..(k - 1) : Start(h, o) + i \in DOMAIN h.frag})
  IN [i \in 1..n |-> h.frag[Start(h, o) + i - 1]]

Missing(h, o) ==
  {i \in Start(h, o)..(Least(Start(h, o) + o.len, h.size) - 1) : i \notin DOMAIN h.frag}

\* The fragments with those of data at the offsets got.
Fetched(h, got, data) ==
  [i \in got \cup DOMAIN h.frag |-> IF i \in got THEN data[i + 1] ELSE h.frag[i]]

\* A mode that does not permit the operation refuses it.
Deny(fd) ==
  /\ Ready(fd, ReadOps \cup WriteOps)
  /\ HeadOf(fd).t \in ReadOps => ~ Reads(hs[fd].mode)
  /\ HeadOf(fd).t \in WriteOps => ~ Writes(hs[fd].mode)
  /\ Settle(fd, hs[fd], Failed)
  /\ UNCHANGED <<file, opens, gone, asked, nops>>

BeginRead(fd) ==
  LET h == hs[fd]
      o == HeadOf(fd)
  IN /\ Ready(fd, {"read"})
     /\ Reads(h.mode)
     /\ IF h.buf # NoBuf THEN Answer(fd, h, FromBuffer(h, o))
        ELSE IF ~ h.native THEN Await(fd, h, "fill")
        ELSE IF Start(h, o) >= h.size THEN Await(fd, h, "size")
        ELSE IF Missing(h, o) # {} THEN Await(fd, h, "range")
        ELSE Answer(fd, h, FromFragments(h, o))
     /\ UNCHANGED <<file, opens, gone, asked, nops>>

ToEnd(fd, h) ==
  Settle(fd, [h EXCEPT !.pos = Len(h.buf)], Sub(h.buf, h.pos, Len(h.buf)))

BeginReadFile(fd) ==
  /\ Ready(fd, {"readFile"})
  /\ Reads(hs[fd].mode)
  /\ IF hs[fd].buf # NoBuf THEN ToEnd(fd, hs[fd]) ELSE Await(fd, hs[fd], "fill")
  /\ UNCHANGED <<file, opens, gone, asked, nops>>

\* fillForWrite.  A buffer that is there is not read again: MtimeIdle.
BeginWrite(fd) ==
  /\ Ready(fd, WriteOps)
  /\ Writes(hs[fd].mode)
  /\ IF hs[fd].buf # NoBuf
     THEN Settle(fd, Applied(hs[fd], HeadOf(fd)), <<>>)
     ELSE Await(fd, hs[fd], "fill")
  /\ UNCHANGED <<file, opens, gone, asked, nops>>

\* Mutation: a handle that is closing is not flushed.
BeginFlush_OpenOnly(fd) ==
  /\ Ready(fd, {"sync", "close"})
  /\ IF hs[fd].dirty /\ hs[fd].st = "open"
     THEN Await(fd, [hs[fd] EXCEPT !.dirty = FALSE], "upload")
     ELSE Settle(fd, hs[fd], <<>>)
  /\ UNCHANGED <<file, opens, gone, asked, nops>>

\* sync and close: upload what is dirty; dirty is cleared first.
BeginFlush(fd) ==
  /\ Ready(fd, {"sync", "close"})
  /\ IF hs[fd].dirty
     THEN Await(fd, [hs[fd] EXCEPT !.dirty = FALSE], "upload")
     ELSE Settle(fd, hs[fd], <<>>)
  /\ UNCHANGED <<file, opens, gone, asked, nops>>

BeginStat(fd) ==
  /\ Ready(fd, {"stat"})
  /\ IF hs[fd].dirty THEN Settle(fd, hs[fd], <<Len(hs[fd].buf)>>)
     ELSE Await(fd, hs[fd], "stat")
  /\ UNCHANGED <<file, opens, gone, asked, nops>>

-----------------------------------------------------------------------------
(* ... and from an await on *)

At(fd, l) == hs[fd].at = l

Data(fd) == file[hs[fd].path].data

\* fill: the buffer is the file as it is now.  A write also records the mtime.
Fill(fd) ==
  LET o == HeadOf(fd)
      h == [hs[fd] EXCEPT !.buf = Data(fd), !.frag = <<>>, !.size = Len(Data(fd)),
                          !.cursor = Later(@, Len(Data(fd)))]
  IN /\ At(fd, "fill")
     /\ CASE o.t \in WriteOps -> Await(fd, h, "mtime")
          [] o.t = "readFile" -> ToEnd(fd, h)
          [] o.t = "read"     -> Answer(fd, h, FromBuffer(h, o))
     /\ UNCHANGED <<file, opens, gone, asked, nops>>

RecordMtime(fd) ==
  /\ At(fd, "mtime")
  /\ Settle(fd, Applied([hs[fd] EXCEPT !.mtime = TRUE], HeadOf(fd)), <<>>)
  /\ UNCHANGED <<file, opens, gone, asked, nops>>

\* ensureRanges: re-stat before concluding EOF ...
LearnSize(fd) ==
  LET h == [hs[fd] EXCEPT !.size = Len(Data(fd))]
      o == HeadOf(fd)
  IN /\ At(fd, "size")
     /\ IF Start(h, o) < h.size /\ Missing(h, o) # {}
        THEN Await(fd, h, "range")
        ELSE Answer(fd, h, FromFragments(h, o))
     /\ UNCHANGED <<file, opens, gone, asked, nops>>

\* ... then fetch the first missing range, and the next until one comes short.
FetchRange(fd) ==
  LET o    == HeadOf(fd)
      miss == Missing(hs[fd], o)
      run  == {i \in miss : \A j \in Min(miss)..i : j \in miss}
      got  == {i \in run : i < Len(Data(fd))}
      h    == [hs[fd] EXCEPT !.frag = Fetched(hs[fd], got, Data(fd))]
  IN /\ At(fd, "range")
     /\ IF got = run /\ run # miss THEN Await(fd, h, "range")
        ELSE Answer(fd, h, FromFragments(h, o))
     /\ UNCHANGED <<file, opens, gone, asked, nops>>

Stat(fd) ==
  /\ At(fd, "stat")
  /\ Settle(fd, hs[fd], <<Len(Data(fd))>>)
  /\ UNCHANGED <<file, opens, gone, asked, nops>>

\* A stat or a read fails.  The next operation runs all the same.
FacadeFails(fd) ==
  /\ hs[fd].at \in {"fill", "mtime", "size", "range", "stat"}
  /\ Settle(fd, hs[fd], Failed)
  /\ UNCHANGED <<file, opens, gone, asked, nops>>

\* The file changed under the mtime, which is dropped with the upload.
Upload(fd) ==
  /\ At(fd, "upload")
  /\ file' = [file EXCEPT ![hs[fd].path] = [exists |-> TRUE, data |-> hs[fd].buf]]
  /\ Settle(fd, [hs[fd] EXCEPT !.size = Len(hs[fd].buf), !.frag = <<>>,
                               !.mtime = FALSE, !.sent = hs[fd].wrote], <<>>)
  /\ UNCHANGED <<opens, gone, asked, nops>>

\* Mutation: dirty is not restored.
UploadFails_StaysClean(fd) ==
  /\ At(fd, "upload")
  /\ Settle(fd, [hs[fd] EXCEPT !.lost = HeadOf(fd).t = "close"], Failed)
  /\ UNCHANGED <<file, opens, gone, asked, nops>>

\* The upload fails, perhaps after the storage took it: dirty again.
UploadFails(fd) ==
  /\ At(fd, "upload")
  /\ Settle(fd, [hs[fd] EXCEPT !.dirty = TRUE, !.lost = HeadOf(fd).t = "close"], Failed)
  /\ \/ UNCHANGED file
     \/ file' = [file EXCEPT ![hs[fd].path] = [exists |-> TRUE, data |-> hs[fd].buf]]
  /\ UNCHANGED <<opens, gone, asked, nops>>

-----------------------------------------------------------------------------
(* By path, and teardown *)

\* The handles flushLocalPath syncs.
ToFlush(p) == {fd \in DOMAIN hs : hs[fd].path = p /\ Admits(fd) /\ hs[fd].dirty}

\* Mutation: it does not wait for what it started.
FlushPath_NoWait(p) ==
  /\ nops < MaxOps
  /\ nops' = nops + 1
  /\ hs' = [fd \in DOMAIN hs |->
              IF fd \in ToFlush(p)
              THEN [hs[fd] EXCEPT !.queue = Append(@, Plain("sync"))] ELSE hs[fd]]
  /\ flushes' = flushes \cup
       {[id |-> nops + 1, path |-> p, waits |-> {}, syncs |-> ToFlush(p),
         need |-> [fd \in {x \in DOMAIN hs : Admits(x)} |-> hs[fd].wrote]]}
  /\ UNCHANGED <<file, opens, gone, asked, answer>>

\* An operation that reads through path p flushes it first.
FlushPath(p) ==
  /\ nops < MaxOps
  /\ nops' = nops + 1
  /\ hs' = [fd \in DOMAIN hs |->
              IF fd \in ToFlush(p)
              THEN [hs[fd] EXCEPT !.queue = Append(@, Plain("sync"))] ELSE hs[fd]]
  /\ flushes' = flushes \cup
       {[id |-> nops + 1, path |-> p, waits |-> ToFlush(p), syncs |-> ToFlush(p),
         need |-> [fd \in {x \in DOMAIN hs : Admits(x)} |-> hs[fd].wrote]]}
  /\ UNCHANGED <<file, opens, gone, asked, answer>>

\* Everything it waited for is synced: the operation reads the file.
FlushDone(f) ==
  /\ f.waits = {}
  /\ flushes' = flushes \ {f}
  /\ UNCHANGED <<file, hs, opens, gone, asked, nops, answer>>

\* writeFile by path, and whatever else writes the file from outside.
PathWrite(p) ==
  /\ Foreign
  /\ nops < MaxOps
  /\ nops' = nops + 1
  /\ file' = [file EXCEPT ![p] = [exists |-> TRUE, data |-> <<nops + 1>>]]
  /\ UNCHANGED <<hs, opens, flushes, gone, asked, answer>>

\* closeAll: a worker is gone.  Its fds stop resolving, nothing is flushed, and
\* what was queued still runs.
CloseAll(w) ==
  /\ gone' = gone \cup {w}
  /\ hs' = [fd \in DOMAIN hs |->
              IF hs[fd].owner = w THEN [hs[fd] EXCEPT !.held = FALSE] ELSE hs[fd]]
  /\ UNCHANGED <<file, opens, flushes, asked, nops, answer>>

-----------------------------------------------------------------------------

Init ==
  /\ file \in [Paths -> {[exists |-> FALSE, data |-> <<>>], [exists |-> TRUE, data |-> <<0>>]}]
  /\ \A p \in Paths : file[p].exists => p \in Existing
  /\ hs = <<>>
  /\ opens = [p \in Paths |-> <<>>]
  /\ flushes = {} /\ gone = {}
  /\ asked = 0 /\ nops = 0
  /\ answer = [id |-> 0, res |-> <<>>]

\* The arguments an operation takes.
Args(t) ==
  {a \in (Positions \cup {Null}) \X Lengths :
     /\ t \notin {"read", "write"} => a[1] = Null
     /\ t \notin {"read", "truncate"} => a[2] = Min(Lengths)}

Submit(fd) ==
  \/ \E t \in Calls : \E a \in Args(t) : Call(fd, t, a[1], a[2])
  \/ Close(fd)

Begin(fd) ==
  \/ Deny(fd) \/ BeginRead(fd) \/ BeginReadFile(fd) \/ BeginWrite(fd)
  \/ BeginFlush(fd) \/ BeginStat(fd)

Resume(fd) ==
  \/ Fill(fd) \/ RecordMtime(fd) \/ LearnSize(fd) \/ FetchRange(fd) \/ Stat(fd)
  \/ FacadeFails(fd) \/ Upload(fd) \/ UploadFails(fd)

OpenStep(p, i) == OpenStart(p, i) \/ OpenStat(p, i) \/ OpenEmpty(p, i) \/ OpenFails(p, i)

Next ==
  \/ \E p \in Paths :
       \/ \E m \in Modes, w \in Owners, n \in NativeRange : OpenCall(p, m, w, n)
       \/ \E i \in DOMAIN opens[p] : OpenStep(p, i)
       \/ FlushPath(p) \/ PathWrite(p)
  \/ \E fd \in DOMAIN hs : Submit(fd) \/ Begin(fd) \/ Resume(fd)
  \/ \E f \in flushes : FlushDone(f)
  \/ \E w \in Owners : CloseAll(w)

Spec == Init /\ [][Next]_vars

\* Every call of the facade settles, and the event loop runs what it resumes.
Fairness ==
  /\ \A p \in Paths : WF_vars(\E i \in DOMAIN opens[p] : OpenStep(p, i))
  /\ \A fd \in 1..MaxFds : WF_vars(fd \in DOMAIN hs /\ (Begin(fd) \/ Resume(fd)))

FairSpec == Spec /\ Fairness

-----------------------------------------------------------------------------
(* Properties *)

Bytes == 0..MaxOps

\* A handle, with fragments of some set.
HandleRec(frags) ==
  [path : Paths, owner : Owners, mode : Modes, native : BOOLEAN, held : BOOLEAN,
   st : {"open", "closing", "closed"}, pos : Nat, cursor : Nat,
   buf : Seq(Bytes) \cup {NoBuf}, mtime : BOOLEAN, dirty : BOOLEAN, size : Nat,
   frag : frags, queue : Seq(Op),
   at : {"idle", "fill", "mtime", "size", "range", "stat", "upload"},
   wrote : 0..MaxOps, sent : 0..MaxOps, lost : BOOLEAN]

TypeOK ==
  /\ file \in [Paths -> [exists : BOOLEAN, data : Seq(Bytes)]]
  /\ \A fd \in DOMAIN hs :
       /\ [hs[fd] EXCEPT !.frag = <<>>] \in HandleRec({<<>>})
       /\ \A i \in DOMAIN hs[fd].frag : i \in Nat /\ hs[fd].frag[i] \in Bytes
       /\ hs[fd].at # "idle" => hs[fd].queue # <<>>
  /\ opens \in [Paths -> Seq([mode : Modes, owner : Owners, native : BOOLEAN,
                              at : {"lock", "stat", "empty"}])]
  /\ gone \subseteq Owners
  /\ asked \in 0..MaxFds /\ nops \in 0..MaxOps
  /\ \A f \in flushes : f.waits \subseteq f.syncs /\ f.syncs \subseteq DOMAIN hs

\* A handle between two operations is dirty exactly when it has taken writes that
\* no completed upload contained, whatever failed or raced on the way.
DirtyTells ==
  \A fd \in DOMAIN hs :
    hs[fd].at # "upload" => (hs[fd].dirty <=> hs[fd].sent # hs[fd].wrote)

\* A write that was accepted is in storage once its handle has closed, unless the
\* close said otherwise.
NoSilentLoss ==
  \A fd \in DOMAIN hs :
    hs[fd].st = "closed" => hs[fd].sent = hs[fd].wrote \/ hs[fd].lost

\* An mtime is remembered only by a buffer that holds unflushed writes, so fill
\* has nothing to revalidate a clean buffer by.
MtimeIdle ==
  \A fd \in DOMAIN hs : hs[fd].mtime => hs[fd].dirty \/ hs[fd].at = "upload"

\* What a handle holds it knows the standing of, between any two operations: one works at its
\* queue at a time, it is dirty exactly when something is not uploaded, and remembers an mtime
\* only then.
BufferTells == TypeOK /\ DirtyTells /\ MtimeIdle

\* Creating is for the first: whoever is about to empty the file without O_TRUNC,
\* or with O_EXCL, is alone on the path.
CreateIsFirst ==
  \A p \in Paths : \A i \in DOMAIN opens[p] :
    /\ opens[p][i].at = "empty"
    /\ Exclusive(opens[p][i].mode) \/ ~ Truncates(opens[p][i].mode)
    => \A fd \in DOMAIN hs : hs[fd].path # p

\* MAX_OPEN is looked at before the first await of an open, so opens of other
\* paths can pass it together, but no more than one for each path.
CapBound == Cardinality(Held) <= MaxOpen + Cardinality(Paths) - 1

\* Opens that overlap are kept apart by the lock of a path, and no further.
OpensApart == CreateIsFirst /\ CapBound

\* What a reader by path sees holds everything the handles it flushed had taken.
FlushShows ==
  [][\A f \in flushes \ flushes' :
       f.waits = {} => \A fd \in f.syncs : hs[fd].sent >= f.need[fd]]_vars

\* Every accepted operation is answered and every open gets its turn, also behind
\* one that fails.
QueuesDrain ==
  /\ \A fd \in 1..MaxFds :
       (fd \in DOMAIN hs /\ hs[fd].queue # <<>>) ~> (fd \in DOMAIN hs /\ hs[fd].queue = <<>>)
  /\ \A p \in Paths : opens[p] # <<>> ~> opens[p] = <<>>

\* What flushPath says: "so an operation addressing the file by path sees bytes
\* that were written through an open fd".
ReadByPathSeesWrites ==
  [][\A f \in flushes \ flushes' :
       f.waits = {} => \A fd \in DOMAIN f.need :
         hs[fd].path = f.path => hs[fd].sent >= f.need[fd]]_vars

-----------------------------------------------------------------------------
(* What a single descriptor stands for *)

\* The one handle, or what it will be.
Made == Len(hs) = 1

\* Unflushed bytes are in the buffer; everything else is in storage.
Seen ==
  LET p == CHOOSE p \in Paths : TRUE
  IN IF Made /\ (hs[1].st # "closed") /\ (hs[1].dirty \/ hs[1].at = "upload")
     THEN hs[1].buf ELSE file[p].data

Posix == INSTANCE PosixFile WITH
  Ops     <- Op,
  content <- Seen,
  stable  <- file[CHOOSE p \in Paths : TRUE].data,
  offset  <- IF Made THEN hs[1].pos ELSE 0,
  opened  <- Made,
  append  <- Made /\ Appends(hs[1].mode)

\* A descriptor that nobody else writes behind is a file with an offset: whatever
\* is buffered, fetched in ranges, uploaded or failed on the way.
IsPosixFile == Posix!Spec
=============================================================================
