----------------------------- MODULE FileStreams ------------------------------
(***************************************************************************)
(* fs.createReadStream and fs.createWriteStream (worker/node/fs/streams.ts)*)
(* and the lines read from the first (worker/node/fs/handle.ts readLines). *)
(* One of each:                                                            *)
(*   - reading: a path is opened and its body fetched at once, as one      *)
(*     stream of the host; a handle of the program is read through;        *)
(*   - writing, over a FileHandle: chunks go into what the host holds of   *)
(*     the file, and that is uploaded once, before the end.                *)
(*                                                                         *)
(* Node's Readable and Writable are external: they construct the stream,   *)
(* the first asks for one chunk at a time, the second gives it what is     *)
(* queued, one at a time or several at once (_write, _writev), and asks    *)
(* for _final after the last; each destroys it once, after the             *)
(* construction.  So is the host.                                          *)
(*                                                                         *)
(* And fs.Utf8Stream (worker/node/fs/utf8-stream.ts): an appending writer  *)
(* that buffers, over a FileHandle that it opens itself or is given.  The  *)
(* host's side of a handle is external: it does the calls of one handle in *)
(* order, keeps what it has appended, and uploads the whole file at a sync *)
(* and at the close.                                                       *)
(***************************************************************************)
EXTENDS Integers, Sequences, FiniteSets, SequencesExt

CONSTANTS
  Text,        \* what the file that is read holds: 1 is a character, 0 the end of a line
  Size,        \* how much Readable asks for at a time
  MaxChunk,    \* how much the host sends at most at once
  MaxWrites,   \* bound: what the program writes, the chunks 1, 2, ...
  MaxChunks,   \* bound: what the program writes, the chunks 1, 2, ...
  MaxHandles,  \* bound: opens
  MinLength, MaxLength   \* options of the stream; MaxLength of 0 is none

VARIABLES
  r,           \* the stream that reads
  rfd,         \* its handle: "none", "asked", "open", "failed", "closed"
  body,        \* the host's stream: asked for or not, and what is left of it
  got,         \* what was pushed
  lines,       \* the reader of lines
  w,           \* the stream that writes
  wfd,         \* its handle
  held,        \* what the host holds of the file for the handle, and the handle's position in it
  file,        \* what storage has
  u,           \* the stream
  handles,     \* what was opened, wrapper and host side together
  stored,      \* what storage has at each path
  told,        \* chunks the program was told of: dropped, failed, or thrown away by destroy()
  mixed        \* two handles of one file that cannot agree: see FlushSync and OpenFails

readVars == <<r, rfd, body, got, lines>>
writeVars == <<w, wfd, held, file>>
logVars == <<u, handles, stored, told, mixed>>

-----------------------------------------------------------------------------
(* Reading *)

\* The window of the file that start and end name; the end is inclusive.
Window == SubSeq(Text, r.start, r.end)

-----------------------------------------------------------------------------
(* _construct: the open and the body are asked for together *)

\* Both are there: the stream may be read.  The first to fail ends the construction, whatever
\* the other still brings.
BothAnswered(o, b) == o = "open" /\ b = "held"

Construct(o, b) ==
  r' = CASE r.made # "no" -> r
         [] o = "failed" \/ b = "failed" ->
              [r EXCEPT !.made = "failed", !.destroy = "asked", !.parted = {o, b} \cap {"asked", "wanted"} # {}]
         [] BothAnswered(o, b) -> [r EXCEPT !.made = "yes"]
         [] OTHER -> r

ReadOpenAnswers(o) ==
  /\ rfd = "asked" /\ rfd' = o /\ Construct(o, body.st)
  /\ UNCHANGED <<body, got, lines>>

BodyAnswers(b) ==
  /\ body.st = "wanted" /\ body' = [body EXCEPT !.st = b, !.rest = Window]
  /\ Construct(rfd, b)
  /\ UNCHANGED <<rfd, got, lines>>

-----------------------------------------------------------------------------
(* _read *)

CanRead == r.made = "yes" /\ ~ r.ended /\ r.destroy = "no"

Cut(chunk) == IF Len(chunk) > Size THEN SubSeq(chunk, 1, Size) ELSE chunk

\* push: at most what was asked for, and the rest is kept for the next time.
Pushes(chunk) ==
  /\ got' = got \o Cut(chunk)
  /\ r' = [r EXCEPT !.leftover = SubSeq(chunk, Size + 1, Len(chunk)), !.pulling = FALSE]

FromLeftover(kept) == Pushes(kept)

Leftover ==
  /\ CanRead /\ ~ r.pulling /\ r.leftover # <<>> /\ FromLeftover(r.leftover)
  /\ UNCHANGED <<rfd, body, lines>>

Pull ==
  /\ CanRead /\ ~ r.pulling /\ r.leftover = <<>> /\ r' = [r EXCEPT !.pulling = TRUE]
  /\ UNCHANGED <<rfd, body, got, lines>>

\* The body ends: it is let go of, and keepalive's reference with it.
Released(b) == [b EXCEPT !.st = "released"]

\* What comes after the stream was destroyed is pushed into nothing.
PullEnds ==
  /\ r' = [r EXCEPT !.pulling = FALSE, !.ended = r.destroy = "no"] /\ UNCHANGED got

PullChunk(chunk) == IF r.destroy = "no" THEN Pushes(chunk) ELSE r' = [r EXCEPT !.pulling = FALSE] /\ UNCHANGED got

PullFails == r' = [r EXCEPT !.pulling = FALSE, !.destroy = IF @ = "no" THEN "asked" ELSE @] /\ UNCHANGED got

\* #pullStreamed: chunks of any length.  A reader that was cancelled reports an end.
Streamed ==
  /\ r.path /\ r.pulling
  /\ \/ /\ body.st = "held" /\ body.rest # <<>>
        /\ \E n \in 1 .. MaxChunk : n <= Len(body.rest) /\
             /\ PullChunk(SubSeq(body.rest, 1, n))
             /\ body' = [body EXCEPT !.rest = SubSeq(@, n + 1, Len(@))]
     \/ body.st = "held" /\ body.rest = <<>> /\ PullEnds /\ body' = Released(body)
     \/ body.st = "released" /\ PullEnds /\ UNCHANGED body
     \/ body.st = "held" /\ PullFails /\ UNCHANGED body
  /\ UNCHANGED <<rfd, lines>>

\* #pull through a handle: no more than what is left of the window.
Wanted(at) == SubSeq(Text, at, IF at + Size - 1 < r.end THEN at + Size - 1 ELSE r.end)

FromHandle ==
  /\ ~ r.path /\ r.pulling
  /\ LET chunk == Wanted(r.start + Len(got)) IN
     \/ chunk = <<>> /\ PullEnds
     \/ rfd = "open" /\ chunk # <<>> /\ \E n \in 1 .. Len(chunk) : PullChunk(SubSeq(chunk, 1, n))
     \/ PullFails
  /\ UNCHANGED <<rfd, body, lines>>

-----------------------------------------------------------------------------
(* _destroy *)

\* By the program, its signal, an error, or the end of the stream; Readable waits for the
\* construction.
DestroysReading ==
  /\ r.destroy = "no" /\ r' = [r EXCEPT !.destroy = "asked"]
  /\ UNCHANGED <<rfd, body, got, lines>>

\* The body is cancelled, and then let go of.
Cancels ==
  /\ r.destroy = "asked" /\ r.made # "no" /\ r' = [r EXCEPT !.destroy = "closing", !.leftover = <<>>]
  /\ body' = IF body.st = "held" THEN Released(body) ELSE body
  /\ UNCHANGED <<rfd, got, lines>>

\* The stream closes what it has opened, and no handle of the program's.
ClosedRead == IF r.path /\ rfd = "open" THEN "closed" ELSE rfd

CloseAnswers ==
  /\ r.destroy = "closing" /\ r' = [r EXCEPT !.destroy = "closed"] /\ rfd' = ClosedRead
  /\ UNCHANGED <<body, got, lines>>

\* The program closes its own handle under the stream (fd.ts close).
ProgramClosesReading ==
  /\ ~ r.path /\ rfd = "open" /\ rfd' = "closed"
  /\ UNCHANGED <<r, body, got, lines>>

-----------------------------------------------------------------------------
(* readLines *)

\* The pieces of a text between the ends of its lines: the last is what comes after them.
Pieces(t) ==
  LET cuts == {0} \cup {i \in 1 .. Len(t) : t[i] = 0} \cup {Len(t) + 1}
      nth == SetToSortSeq(cuts, <)
  IN  [i \in 1 .. Len(nth) - 1 |-> SubSeq(t, nth[i] + 1, nth[i + 1] - 1)]

\* "data": whole lines are handed on, and the last piece waits for more.
LineData ==
  /\ r.lines /\ lines.seen < Len(got)
  /\ \E n \in 1 .. Len(got) - lines.seen :
       LET pieces == Pieces(lines.pending \o SubSeq(got, lines.seen + 1, lines.seen + n)) IN
       lines' = [lines EXCEPT !.seen = @ + n, !.out = @ \o Front(pieces), !.pending = Last(pieces)]
  /\ UNCHANGED <<r, rfd, body, got>>

\* "end": what waited is a line too.
LineEnd ==
  /\ r.lines /\ r.ended /\ lines.seen = Len(got) /\ ~ lines.ended
  /\ lines' = [lines EXCEPT !.ended = TRUE, !.pending = <<>>,
                            !.out = IF lines.pending = <<>> THEN @ ELSE Append(@, lines.pending)]
  /\ UNCHANGED <<r, rfd, body, got>>

-----------------------------------------------------------------------------
ReadInit ==
  /\ \E path, rd \in BOOLEAN, a, b \in 1 .. Len(Text) : a <= b /\ (rd => a = 1 /\ b = Len(Text) /\ ~ path) /\
       /\ r = [path |-> path, lines |-> rd, start |-> a, end |-> b, made |-> IF path THEN "no" ELSE "yes",
               leftover |-> <<>>, pulling |-> FALSE, ended |-> FALSE, destroy |-> "no", parted |-> FALSE]
       /\ rfd = IF path THEN "asked" ELSE "open"
       /\ body = [st |-> IF path THEN "wanted" ELSE "none", rest |-> <<>>]
  /\ got = <<>> /\ lines = [seen |-> 0, pending |-> <<>>, out |-> <<>>, ended |-> FALSE]

ReadNext ==
  \/ \E o \in {"open", "failed"} : ReadOpenAnswers(o)
  \/ \E b \in {"held", "failed"} : BodyAnswers(b)
  \/ Leftover \/ Pull \/ Streamed \/ FromHandle \/ DestroysReading \/ Cancels \/ CloseAnswers
  \/ ProgramClosesReading \/ LineData \/ LineEnd

-----------------------------------------------------------------------------
(* Writing *)

\* What was there before, and what a hole is filled with.
Old == <<9, 9, 9>>

\* The file with a chunk at a position, counted from 0.
Placed(t, at, c) ==
  [i \in 1 .. (IF at >= Len(t) THEN at + 1 ELSE Len(t)) |->
     IF i = at + 1 THEN c ELSE IF i <= Len(t) THEN t[i] ELSE 0]

-----------------------------------------------------------------------------
\* _construct: the open with "w" truncates the file, one with "r+" does not.
WriteOpenAnswers(ok) ==
  /\ wfd = "asked" /\ wfd' = IF ok THEN "open" ELSE "failed"
  /\ w' = [w EXCEPT !.made = TRUE, !.destroy = IF ok \/ @ # "no" THEN @ ELSE "asked", !.failed = @ \/ ~ ok]
  /\ file' = IF ok /\ w.truncates THEN <<>> ELSE file
  /\ held' = [held EXCEPT !.text = file']

Write ==
  /\ ~ w.ended /\ w.destroy = "no" /\ w.next <= MaxWrites
  /\ w' = [w EXCEPT !.queue = Append(@, w.next), !.next = @ + 1]
  /\ UNCHANGED <<wfd, held, file>>

\* end, and close, which is the same.
End ==
  /\ ~ w.ended /\ w.destroy = "no" /\ w' = [w EXCEPT !.ended = TRUE]
  /\ UNCHANGED <<wfd, held, file>>

Idle == w.made /\ w.destroy = "no" /\ w.batch = <<>> /\ w.final = "no"

\* _write with the first, or _writev with all that is queued.
Takes(n) ==
  /\ Idle /\ n <= Len(w.queue)
  /\ w' = [w EXCEPT !.batch = SubSeq(w.queue, 1, n), !.queue = SubSeq(w.queue, n + 1, Len(w.queue))]
  /\ UNCHANGED <<wfd, held, file>>

Errs == [w EXCEPT !.batch = <<>>, !.final = "no", !.failed = TRUE,
                  !.destroy = IF @ = "no" THEN "asked" ELSE @]

\* The position the stream keeps for itself, when it was given a start.
Moved(at) == at + 1

\* #writeChunk, of a batch one after the other: at the stream's own position, or at the handle's.
Chunk ==
  /\ w.batch # <<>>
  /\ \/ /\ wfd = "open"
        /\ held' = [held EXCEPT !.text = Placed(@, IF w.start THEN w.at ELSE held.at, Head(w.batch)),
                                !.at = IF w.start THEN @ ELSE @ + 1, !.dirty = TRUE]
        /\ w' = [w EXCEPT !.batch = Tail(@), !.at = IF w.start THEN Moved(@) ELSE @]
     \/ w' = Errs /\ UNCHANGED held
  /\ UNCHANGED <<wfd, file>>

AllTaken == w.queue = <<>>

\* _final: the upload.
Final ==
  /\ Idle /\ w.ended /\ AllTaken /\ w' = [w EXCEPT !.final = "syncing"]
  /\ UNCHANGED <<wfd, held, file>>

Uploaded == IF held.dirty THEN held.text ELSE file

Synced ==
  /\ w.final = "syncing"
  /\ \/ /\ wfd = "open" /\ file' = Uploaded /\ held' = [held EXCEPT !.dirty = FALSE]
        /\ w' = [w EXCEPT !.final = "done"]
     \/ w' = Errs /\ UNCHANGED <<held, file>>
  /\ UNCHANGED wfd

\* destroy: of the program, its signal, or Writable's own after the finish.
DestroysWriting ==
  /\ w.destroy = "no" /\ w' = [w EXCEPT !.destroy = "asked"]
  /\ UNCHANGED <<wfd, held, file>>

\* _destroy: the stream's own handle is closed, in the middle of a batch too, and the host uploads
\* what the handle still holds, after the sync that it was asked for before.
ClosesWriting ==
  /\ w.destroy = "asked" /\ w.made /\ w.final # "syncing"
  /\ w' = [w EXCEPT !.destroy = "closed", !.queue = <<>>]
  /\ IF w.path /\ wfd = "open"
     THEN wfd' = "closed" /\ file' \in {file, Uploaded}
     ELSE UNCHANGED <<wfd, file>>
  /\ UNCHANGED held

\* The program closes its own handle under the stream (fd.ts close).
ProgramClosesWriting ==
  /\ ~ w.path /\ wfd = "open" /\ wfd' = "closed" /\ file' \in {file, Uploaded}
  /\ UNCHANGED <<w, held>>

-----------------------------------------------------------------------------
\* A stream of a path, or of a handle of the program's, at a start of its own or not.
WriteInit ==
  /\ \E path, truncates, start \in BOOLEAN :
       /\ w = [path |-> path, truncates |-> truncates, start |-> start, at |-> IF start THEN 1 ELSE 0,
               made |-> ~ path, queue |-> <<>>, batch |-> <<>>, next |-> 1, ended |-> FALSE,
               final |-> "no", destroy |-> "no", failed |-> FALSE]
       /\ wfd = IF path THEN "asked" ELSE "open"
       /\ file = IF truncates /\ ~ path THEN <<>> ELSE Old
  /\ held = [text |-> file, at |-> 0, dirty |-> FALSE]

WriteNext ==
  \/ \E ok \in BOOLEAN : WriteOpenAnswers(ok)
  \/ \E n \in 1 .. MaxWrites : Takes(n)
  \/ Write \/ End \/ Chunk \/ Final \/ Synced \/ DestroysWriting \/ ClosesWriting \/ ProgramClosesWriting

-----------------------------------------------------------------------------
(* The log: Utf8Stream *)

Ids == DOMAIN handles

\* Bound: the one reopen goes to the second path.
Files == {1, 2}

\* cache: what the host holds of the file, after a mark, from the first append or the truncating
\* open on; late: the stream was torn down before the open was answered, or another took the
\* handle's place.
NewHandle(f) == [st |-> "opening", file |-> f, cache |-> <<>>, late |-> FALSE]

Truncated == <<0>>

IsOpen(h) == handles[h].st = "open"

-----------------------------------------------------------------------------
(* #open, flush and what a flush calls back, on the stream and its handles together *)

Log == [s |-> u, hs |-> handles]

Becomes(z) == Len(z.hs) <= MaxHandles /\ u' = z.s /\ handles' = z.hs

\* #open, unless there is a handle or an open under way.
Opens(z) ==
  IF z.s.handle # 0 \/ z.s.opening # 0 THEN z
  ELSE [s |-> [z.s EXCEPT !.opening = Len(z.hs) + 1], hs |-> Append(z.hs, NewHandle(z.s.file))]

\* flush does something, unless a write is under way, which #drain makes up for.
CanFlush(s) == ~ s.destroyed /\ ~ s.writing /\ s.buffer # <<>>

Flushes(z, callback) ==
  LET o == Opens(z) IN
  [s |-> [o.s EXCEPT !.writing = TRUE, !.payload = o.s.buffer, !.buffer = <<>>, !.stage = "open",
                     !.callback = callback, !.on = IF o.s.handle # 0 THEN o.s.handle ELSE o.s.opening],
   hs |-> o.hs]

\* #teardown: the handle is closed, if there is one by now.
Torn(s) == [s EXCEPT !.destroyed = TRUE, !.handle = 0, !.opening = 0]

\* FileHandle.close: the wrapper refuses everything from here on.
Closing(z) ==
  IF z.s.handle # 0 /\ z.hs[z.s.handle].st = "open" THEN [z.hs EXCEPT ![z.s.handle].st = "closing"] ELSE z.hs

\* #finish.
Finishes(z) ==
  IF z.s.destroyed THEN z ELSE [s |-> [Torn(z.s) EXCEPT !.finished = TRUE], hs |-> Closing(z)]

\* #drain.
Drains(z) ==
  IF z.s.buffer # <<>> /\ ~ z.s.destroyed THEN IF CanFlush(z.s) THEN Flushes(z, "none") ELSE z
  ELSE IF z.s.ended THEN Finishes(z) ELSE z

\* The callback of reopen: the handle is closed and another one opened, by a stream that was torn
\* down meanwhile too.
Reopens(z) == Opens([s |-> [z.s EXCEPT !.handle = 0, !.opening = 0, !.file = 2], hs |-> Closing(z)])

Calls(z, callback) ==
  CASE callback = "drain" -> Drains(z) [] callback = "reopen" -> Reopens(z) [] OTHER -> z

\* flush: a callback that has nothing to wait for is called at once.
FlushThen(z, callback) == IF CanFlush(z.s) THEN Flushes(z, callback) ELSE Calls(z, callback)

-----------------------------------------------------------------------------
(* What the program calls *)

\* write: over maxLength it is dropped, and said to be.  It is taken after end() too.
LogWrite ==
  /\ ~ u.destroyed /\ u.next <= MaxChunks
  /\ IF MaxLength > 0 /\ Len(u.buffer) >= MaxLength
     THEN Becomes([Log EXCEPT !.s.next = @ + 1]) /\ told' = told \cup {u.next}
     ELSE LET z == [Log EXCEPT !.s = [@ EXCEPT !.next = @ + 1, !.buffer = Append(@, u.next),
                                               !.early = @ \/ u.ended]] IN
          /\ Becomes(IF Len(z.s.buffer) >= MinLength THEN FlushThen(z, "none") ELSE z)
          /\ UNCHANGED told
  /\ UNCHANGED <<stored, mixed>>

\* flush, of the program or of the timer.
Flush ==
  /\ CanFlush(u) /\ Becomes(Flushes(Log, "none"))
  /\ UNCHANGED <<stored, told, mixed>>

\* flushSync opens the file once more, and writes, uploads and closes in one request.  The handle
\* of the stream knows nothing of it and uploads over it later; and an open with "w" truncates.
FlushSync ==
  /\ ~ u.destroyed /\ u.buffer # <<>>
  /\ stored' = [stored EXCEPT ![u.file] = IF u.append THEN @ \o u.buffer ELSE u.buffer]
  /\ u' = [u EXCEPT !.buffer = <<>>]
  /\ mixed' = TRUE /\ UNCHANGED <<handles, told>>

\* reopen: once the flush that it asks for has landed or failed; at once when there is nothing to
\* flush, when a write is under way, whose handle is closed under it, and on a stream that was
\* torn down.
Reopen ==
  /\ ~ u.reopened /\ Becomes(FlushThen([Log EXCEPT !.s.reopened = TRUE], "reopen"))
  /\ UNCHANGED <<stored, told, mixed>>

\* end: what is buffered is flushed first, and its callback drains once more; a write that is
\* under way with nothing behind it is not waited for.
LogEnd ==
  /\ ~ u.ended /\ ~ u.destroyed
  /\ LET z == [Log EXCEPT !.s = [@ EXCEPT !.ended = TRUE, !.early = u.writing /\ u.buffer = <<>>]] IN
     Becomes(IF u.buffer # <<>> \/ u.writing THEN FlushThen(z, "drain") ELSE Finishes(z))
  /\ UNCHANGED <<stored, told, mixed>>

\* destroy drops the buffer, deliberately.
LogDestroy ==
  /\ ~ u.destroyed /\ u' = [Torn(u) EXCEPT !.buffer = <<>>] /\ handles' = Closing(Log)
  /\ told' = told \cup Range(u.buffer)
  /\ UNCHANGED <<stored, mixed>>

-----------------------------------------------------------------------------
(* What the host answers *)

\* An open is answered; with "w" the file was truncated.  One that the stream has given up
\* since takes the place of the handle it has by now, which nobody closes any more.
Opened(h) ==
  /\ handles[h].st = "opening" /\ u' = [u EXCEPT !.handle = h]
  /\ handles' = [x \in Ids |->
       IF x = h THEN [handles[h] EXCEPT !.st = "open", !.cache = IF u.append THEN <<>> ELSE Truncated,
                                        !.late = u.destroyed]
       ELSE [handles[x] EXCEPT !.late = @ \/ x = u.handle]]
  /\ stored' = IF u.append THEN stored ELSE [stored EXCEPT ![handles[h].file] = <<>>]
  /\ UNCHANGED <<told, mixed>>

\* A write is over.
Landed(s) == [s EXCEPT !.writing = FALSE, !.payload = <<>>, !.stage = "none", !.on = 0, !.callback = "none"]

\* Mutation: only the callback of the flush hears of the error.
Fails_Quietly(z) ==
  /\ Becomes(Calls([z EXCEPT !.s = Landed(@)], z.s.callback))
  /\ UNCHANGED told

\* The payload of a write that fails is gone, and the error is emitted; then the callback, which
\* may drain, and so finish or flush again, or reopen.
Fails(z) ==
  /\ Becomes(Calls([z EXCEPT !.s = Landed(@)], z.s.callback))
  /\ told' = told \cup Range(z.s.payload)

\* An open fails: what is remembered as being opened is forgotten, another open that reopen() has
\* put in its place included, after which a flush opens the same file once more.
OpenFails(h) ==
  /\ handles[h].st = "opening"
  /\ LET z == [s |-> [u EXCEPT !.opening = 0], hs |-> [handles EXCEPT ![h].st = "failed"]] IN
     IF u.on = h /\ u.stage = "open" THEN Fails(z) ELSE Becomes(z) /\ UNCHANGED told
  /\ mixed' = (mixed \/ u.opening \notin {0, h})
  /\ UNCHANGED stored

\* appendFile, once #open has resolved: refused by a wrapper that was closed meanwhile.
Appends ==
  /\ u.stage = "open" /\ handles[u.on].st \notin {"opening", "failed"}
  /\ IF IsOpen(u.on) THEN Becomes([Log EXCEPT !.s.stage = "append"]) /\ UNCHANGED told ELSE Fails(Log)
  /\ UNCHANGED <<stored, mixed>>

\* The host appends to what it holds of the file, read now if it held nothing.
Held(h) == IF handles[h].cache = <<>> THEN Truncated \o stored[handles[h].file] ELSE handles[h].cache

Appended ==
  /\ u.stage = "append"
  /\ \/ LET z == [Log EXCEPT !.hs[u.on].cache = Held(u.on) \o u.payload] IN
        IF IsOpen(u.on) THEN Becomes([z EXCEPT !.s.stage = "sync"]) /\ UNCHANGED told ELSE Fails(z)
     \/ Fails(Log)
  /\ UNCHANGED <<stored, mixed>>

\* What an upload leaves in storage: the handle's own file, with all it ever appended.
Uploads(h) == stored' = [stored EXCEPT ![handles[h].file] = IF handles[h].cache = <<>> THEN @ ELSE Tail(handles[h].cache)]

\* fsync: the write has landed, #drain looks at what came in meanwhile, and then the callback.
LogSynced ==
  /\ u.stage = "sync"
  /\ \/ /\ Uploads(u.on) /\ Becomes(Calls(Drains([Log EXCEPT !.s = Landed(@)]), u.callback))
        /\ UNCHANGED told
     \/ Fails(Log) /\ UNCHANGED stored
  /\ UNCHANGED mixed

\* A close comes after what was asked of the handle before it, and uploads what is left.
Closed(h) ==
  /\ handles[h].st = "closing" /\ ~ (u.on = h /\ u.stage \in {"append", "sync"})
  /\ handles' = [handles EXCEPT ![h].st = "closed"]
  /\ Uploads(h) \/ UNCHANGED stored
  /\ UNCHANGED <<u, told, mixed>>

-----------------------------------------------------------------------------
LogInit ==
  /\ \E given, append \in BOOLEAN :
       /\ u = [append |-> append, buffer |-> <<>>, writing |-> FALSE, payload |-> <<>>, stage |-> "none",
               callback |-> "none", on |-> 0, file |-> 1, handle |-> IF given THEN 1 ELSE 0,
               opening |-> IF given THEN 0 ELSE 1, next |-> 1, reopened |-> FALSE, ended |-> FALSE,
               early |-> FALSE, finished |-> FALSE, destroyed |-> FALSE]
       /\ handles = <<[NewHandle(1) EXCEPT !.st = IF given THEN "open" ELSE "opening"]>>
  /\ stored = [f \in Files |-> <<>>] /\ told = {} /\ mixed = FALSE

LogNext ==
  \/ LogWrite \/ Flush \/ FlushSync \/ Reopen \/ LogEnd \/ LogDestroy \/ Appends \/ Appended \/ LogSynced
  \/ \E h \in Ids : Opened(h) \/ OpenFails(h) \/ Closed(h)

-----------------------------------------------------------------------------
(* Properties *)

\* What was pushed is the beginning of the window, and all of it when the stream ends, however
\* the host cuts it; and so are its lines, each once.
ReadWhole ==
  /\ IsPrefix(got, Window) /\ (r.ended => got = Window)
  /\ lines.ended => lines.out = LET all == Pieces(Text) IN IF Last(all) = <<>> THEN Front(all) ELSE all

\* A stream that was closed holds neither the body, which would keep the program alive, nor a
\* handle of its own, unless one half of its construction failed before the other was there; a
\* handle of the program's is the program's to close.
NothingHeld ==
  r.destroy = "closed" /\ ~ r.parted => body.st # "held" /\ (r.path => rfd # "open")

\* The file with the first n chunks in their places.
Base == IF w.truncates THEN <<>> ELSE Old

After(n) ==
  FoldLeft(LAMBDA t, c : Placed(t, (IF w.start THEN c ELSE c - 1), c), Base, [i \in 1 .. n |-> i])

\* Storage has the old file, or what was written up to some chunk, each in its place; and all
\* of it when the stream has finished.
WrittenInPlace ==
  /\ file = Old \/ \E n \in 0 .. w.next - 1 : file = After(n)
  /\ w.final = "done" => file = After(w.next - 1)

\* A stream that was closed has closed its own handle, and never says that it finished after it
\* failed.
ClosesOwn ==
  /\ w.destroy = "closed" /\ w.path => wfd # "open"
  /\ w.final = "done" => ~ w.failed

InFiles == UNION {Range(stored[f]) : f \in Files}

\* Nothing that write() took vanishes silently: it is buffered, on its way, in a file, or the
\* program was told of it (an error, a drop, its own destroy).  A close whose upload fails says
\* nothing, as the stream swallows it (#teardown).
NothingSilent ==
  ~ mixed => \A c \in 1 .. u.next - 1 :
    c \in Range(u.buffer) \cup Range(u.payload) \cup InFiles \cup told

\* What is in a file is in the order it was written in.
InOrder == ~ mixed => \A f \in Files : \A i, j \in 1 .. Len(stored[f]) : i < j => stored[f][i] < stored[f][j]

\* A stream that has finished has nothing left to write, unless it was ended during a write with
\* nothing behind it, or was written to after its end; and one that is torn down has closed what
\* it opened, but for an open that was answered later and a handle whose place one took.
FinishIsLast ==
  /\ u.finished /\ ~ u.early => u.buffer = <<>> /\ u.payload = <<>>
  /\ u.destroyed => \A h \in Ids : handles[h].st = "open" => handles[h].late
=============================================================================
