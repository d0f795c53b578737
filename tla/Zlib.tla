---------------------------------- MODULE Zlib ----------------------------------
(***************************************************************************)
(* The binding of node:zlib (node-core/internal-binding/zlib.ts over        *)
(* node-wasm/zlib-shim.c and brotli-shim.c): one stream, its chunks cut     *)
(* anywhere and its output buffer full at any byte.                        *)
(*                                                                         *)
(* zlib and brotli are external: a call takes input and gives output until *)
(* it wants input, has no room, has ended or finds that the data is bad.   *)
(* So is node's own lib/zlib.js: it writes again while a call has filled    *)
(* its buffer, and ends the stream early if a call with room left input.   *)
(***************************************************************************)
EXTENDS Integers, Sequences, SequencesExt

CONSTANTS
  Jobs,          \* kind and text: n > 0 a unit of n bytes of output; or one of the marks below
  Room           \* chunkSize: of the buffer for output

VARIABLES
  job,
  stream,        \* lib/zlib.js: what of the text it wrote, and how the stream stands
  call,          \* the call under way
  codec,         \* the library's state behind the handle
  out            \* what was pushed: of each byte, the unit it is of

vars == <<job, stream, call, codec, out>>

EndOfMember == 0     \* the trailer of a member
Zero == -1           \* a byte of padding
Bad == -2            \* what no stream has there

Encodes == job.kind \in {"deflate", "brotliEncode"}
Brotli == job.kind \in {"brotliEncode", "brotliDecode"}

-----------------------------------------------------------------------------
(* lib/zlib.js *)

Text == job.text

\* A chunk; the last one may be known to be the last, and is followed by an empty one.
Write(n, finish) ==
  /\ call.at = "idle" /\ ~ stream.destroyed /\ ~ stream.flushed
  /\ n <= Len(Text) - stream.given /\ (n = 0 => stream.given = Len(Text) /\ finish)
  /\ finish => stream.given + n = Len(Text)
  /\ stream' = [stream EXCEPT !.given = @ + n, !.flushed = n = 0, !.calls = @ + 1]
  /\ call' = [call EXCEPT !.at = "queued", !.finish = finish,
                          !.in = [i \in 1 .. n |-> stream.given + i]]
  /\ UNCHANGED <<job, codec, out>>

\* close: a write may be on its way.
Close ==
  /\ call.at \in {"idle", "queued"} /\ ~ stream.destroyed
  /\ stream' = [stream EXCEPT !.destroyed = TRUE] /\ codec' = [codec EXCEPT !.handle = FALSE]
  /\ UNCHANGED <<job, call, out>>

-----------------------------------------------------------------------------
(* _process: zlib_write, brotli_write *)

\* The microtask: without a handle there is no buffer, which is an error like any other.
Starts ==
  /\ call.at = "queued"
  /\ call' = IF codec.handle THEN [call EXCEPT !.at = "inside"] ELSE [call EXCEPT !.at = "back", !.err = "error"]
  /\ UNCHANGED <<job, stream, codec, out>>

\* The library takes a unit.
Takes ==
  /\ call.at = "inside" /\ call.in # <<>> /\ codec.state = "body" /\ Len(codec.held) < 2
  /\ LET i == Head(call.in) IN
       /\ codec' = IF Encodes THEN [codec EXCEPT !.held = Append(@, i)]
                   ELSE IF Text[i] = EndOfMember THEN [codec EXCEPT !.state = "trailer"]
                   ELSE IF Text[i] < 0 THEN [codec EXCEPT !.state = "bad"]
                   ELSE [codec EXCEPT !.held = @ \o [b \in 1 .. Text[i] |-> i]]
       /\ call' = [call EXCEPT !.in = Tail(@)]
  /\ UNCHANGED <<job, stream, out>>

\* ... and gives a byte.
Gives ==
  /\ call.at = "inside" /\ codec.held # <<>> /\ call.room > 0
  /\ codec' = [codec EXCEPT !.held = Tail(@)]
  /\ call' = [call EXCEPT !.room = @ - 1, !.made = Append(@, Head(codec.held))]
  /\ UNCHANGED <<job, stream, out>>

\* The end of what is encoded takes a byte of its own.
Closes ==
  /\ call.at = "inside" /\ Encodes /\ call.finish /\ call.in = <<>> /\ codec.held = <<>>
  /\ codec.state = "body" /\ call.room > 0
  /\ codec' = [codec EXCEPT !.state = "end"]
  /\ call' = [call EXCEPT !.room = @ - 1, !.made = Append(@, EndOfMember)]
  /\ UNCHANGED <<job, stream, out>>

Ends ==
  /\ call.at = "inside" /\ codec.state = "trailer" /\ codec.held = <<>>
  /\ codec' = [codec EXCEPT !.state = "end"] /\ UNCHANGED <<job, stream, call, out>>

\* The loop of zlib_write: another member follows.
More == job.kind = "gunzip" /\ codec.state = "end" /\ call.in # <<>> /\ Text[Head(call.in)] # Zero

NextMember ==
  /\ call.at = "inside" /\ More /\ codec' = [codec EXCEPT !.state = "body"]
  /\ UNCHANGED <<job, stream, call, out>>

\* _checkError: the input ended in the middle.  Brotli's has no such check.
CheckError(err) == IF err = "ok" /\ call.finish /\ ~ Brotli /\ call.room > 0 THEN "error" ELSE err

Done(err) ==
  /\ call.at = "inside"
  /\ call' = [call EXCEPT !.at = "back", !.err = CheckError(err)] /\ UNCHANGED <<job, stream, codec, out>>

\* The library returns: at the end; with nothing more to do with what it has, where an encoder
\* may keep some of it until it is to finish; when there is no room; or for bad data.
Returns ==
  \/ codec.state = "end" /\ ~ More /\ Done("end")
  \/ codec.state = "bad" /\ codec.held = <<>> /\ Done("error")
  \/ codec.state = "body" /\ call.in = <<>> /\ (IF Encodes THEN ~ call.finish ELSE codec.held = <<>>) /\ Done("ok")
  \/ codec.state # "end" /\ call.room = 0 /\ Done("ok")

-----------------------------------------------------------------------------
(* processCallback, of lib/zlib.js *)

\* What an error gave is dropped: the stream was destroyed before the callback.  So is what comes
\* after the end, as a chunk does that follows one with padding.
Back ==
  /\ call.at = "back"
  /\ LET gone == stream.destroyed \/ call.err = "error" IN
       /\ out' = IF gone \/ stream.ended THEN out ELSE out \o call.made
       /\ stream' = [stream EXCEPT
            !.destroyed = gone,
            !.error = @ \/ (call.err = "error" /\ ~ stream.destroyed /\ ~ stream.ended),
            !.ended = @ \/ (~ gone /\ call.room > 0 /\ (call.in # <<>> \/ stream.flushed)),
            !.called = IF gone \/ call.room > 0 THEN @ + 1 ELSE @]
       /\ codec' = [codec EXCEPT !.handle = @ /\ ~ gone]
       /\ call' = [call EXCEPT !.at = IF gone \/ call.room > 0 THEN "idle" ELSE "queued", !.made = <<>>,
                               !.room = IF call.room = 0 THEN Room ELSE @]
  /\ UNCHANGED job

-----------------------------------------------------------------------------
Init ==
  /\ job \in Jobs /\ out = <<>>
  /\ stream = [given |-> 0, flushed |-> FALSE, destroyed |-> FALSE, error |-> FALSE, ended |-> FALSE,
               calls |-> 0, called |-> 0]
  /\ call = [at |-> "idle", finish |-> FALSE, in |-> <<>>, room |-> Room, made |-> <<>>, err |-> "ok"]
  /\ codec = [handle |-> TRUE, state |-> "body", held |-> <<>>]

Next ==
  \/ \E n \in 0 .. Len(Text), finish \in BOOLEAN : Write(n, finish)
  \/ Close \/ Starts \/ Takes \/ Gives \/ Closes \/ Ends \/ NextMember \/ Returns \/ Back

-----------------------------------------------------------------------------
(* Properties *)

\* Where the text stops being of this stream: after its first member, or for gunzip where no
\* other follows; 0 if it ends or goes wrong before.
Stop ==
  LET IsStop(i) ==
        /\ Text[i] = EndOfMember
        /\ \A j \in 1 .. i - 1 : Text[j] >= 0
        /\ IF job.kind = "gunzip" THEN i = Len(Text) \/ Text[i + 1] = Zero
           ELSE \A j \in 1 .. i - 1 : Text[j] # EndOfMember
  IN  IF \E i \in 1 .. Len(Text) : IsStop(i) THEN CHOOSE i \in 1 .. Len(Text) : IsStop(i) ELSE 0

\* What a text stands for.
Decoded ==
  FoldLeft(LAMBDA all, i : IF Text[i] > 0 THEN all \o [b \in 1 .. Text[i] |-> i] ELSE all, <<>>,
           [i \in 1 .. (IF Stop = 0 THEN Len(Text) ELSE Stop) |-> i])

Expected == IF Encodes THEN [i \in 1 .. Len(Text) + 1 |-> IF i > Len(Text) THEN EndOfMember ELSE i] ELSE Decoded

\* However the text is cut and wherever the buffer is full, what comes out is the beginning of
\* what it stands for, and all of it when the stream ends; input that is cut off or bad never
\* ends well (but for brotli, which does not tell), and what is well is never an error.
Whole ==
  /\ IsPrefix(out, Expected)
  /\ stream.ended => out = Expected /\ (Encodes \/ Stop # 0 \/ job.kind = "brotliDecode")
  /\ stream.error => ~ Encodes /\ Stop = 0

\* Every call has its callback once, though the stream is closed or fails under it, and the
\* library is never entered without a handle (write, close).
Answered ==
  /\ stream.calls = stream.called + (IF call.at = "idle" THEN 0 ELSE 1)
  /\ call.at = "inside" => codec.handle
=============================================================================
