------------------------------- MODULE Terminal -------------------------------
(***************************************************************************)
(* Both ends of a program's standard streams: the page's Console           *)
(* (lib/console.ts), which writes what the thread sends to two streams and *)
(* answers its reads from a third, and the thread's process.stdin          *)
(* (worker/console.ts) beside readSync of descriptor 0 (worker/node/fs/    *)
(* sync.ts).  Bytes of input are numbers in the order typed, and chunks of *)
(* output in the order written.                                            *)
(***************************************************************************)
EXTENDS Integers, Sequences, SequencesExt

CONSTANTS
  HighWater,  \* highWaterMark of process.stdin, in bytes
  MaxTyped,   \* bound: bytes of input
  MaxReads,   \* bound: calls of readSync
  MaxWrites   \* bound: chunks of output

VARIABLES
  about,    \* the half a behaviour is about, "input" or "output": they share nothing
  input,    \* the stream the embedder types into
  console,  \* Console
  stdin,    \* makeReadableStream, and what keeps the run open for it
  parked,   \* whether the thread is in a readSync, and how many more it will do
  asked,    \* reads on their way to the page, or there
  answers,  \* their answers on the way back
  given,    \* bytes each way of reading has had
  reader    \* of stdout (1) and stderr (2): chunks taken, and whether it heard the end

vars == <<about, input, console, stdin, parked, asked, answers, given, reader>>

Ways == {"stream", "sync"}

-----------------------------------------------------------------------------
(* Input at the page *)

Typed == input.typed

\* The embedder writes a chunk of n bytes, or closes the stream.
Type(n) ==
  /\ about = "input" /\ ~ input.closed /\ Typed + n <= MaxTyped
  /\ input' = [input EXCEPT !.typed = @ + n,
                            !.chunks = Append(@, [i \in 1..n |-> Typed + i])]
  /\ UNCHANGED <<about, console, stdin, parked, asked, answers, given, reader>>

CloseInput ==
  /\ about = "input" /\ ~ input.closed
  /\ input' = [input EXCEPT !.closed = TRUE]
  /\ UNCHANGED <<about, console, stdin, parked, asked, answers, given, reader>>

Answer(r, bytes, eof) == [way |-> r.way, bytes |-> bytes, eof |-> eof]

\* The end of readStdio: what is longer than asked for leaves a rest.
Cut(held, r) ==
  IF Len(held) <= r.length
  THEN /\ console' = [console EXCEPT !.leftover = <<>>]
       /\ answers' = Append(answers, Answer(r, held, FALSE))
  ELSE /\ console' = [console EXCEPT !.leftover = SubSeq(held, r.length + 1, Len(held))]
       /\ answers' = Append(answers, Answer(r, SubSeq(held, 1, r.length), FALSE))

\* readStdio: from the rest, or the end, or nothing now; else it waits.
ReadStdio(r) ==
  /\ r \in asked /\ r.at = "way"
  /\ \/ /\ console.leftover # <<>>
        /\ Cut(console.leftover, r) /\ asked' = asked \ {r} /\ UNCHANGED input
     \/ /\ console.leftover = <<>> /\ console.ended
        /\ answers' = Append(answers, Answer(r, <<>>, TRUE)) /\ asked' = asked \ {r}
        /\ UNCHANGED <<input, console>>
     \/ /\ console.leftover = <<>> /\ ~ console.ended /\ ~ r.blocking
        /\ answers' = Append(answers, Answer(r, <<>>, FALSE)) /\ asked' = asked \ {r}
        /\ UNCHANGED <<input, console>>
     \/ /\ console.leftover = <<>> /\ ~ console.ended /\ r.blocking
        /\ asked' = (asked \ {r}) \union {[r EXCEPT !.at = "page"]}
        /\ input' = [input EXCEPT !.readers = Append(@, r.way)]
        /\ UNCHANGED <<about, console, answers>>
  /\ UNCHANGED <<about, stdin, parked, given, reader>>

\* The first of those that wait has a chunk, and looks at nothing again: a rest that
\* another has left meanwhile is overwritten.
ReaderRead ==
  /\ input.readers # <<>>
  /\ \E r \in asked :
       /\ r.at = "page" /\ r.way = Head(input.readers)
       /\ asked' = asked \ {r}
       /\ \/ /\ input.chunks # <<>>
             /\ input' = [input EXCEPT !.readers = Tail(@), !.chunks = Tail(@),
                                       !.lost = @ \union ToSet(console.leftover)]
             /\ Cut(Head(input.chunks), r)
          \/ /\ input.chunks = <<>> /\ input.closed
             /\ input' = [input EXCEPT !.readers = Tail(@)]
             /\ console' = [console EXCEPT !.ended = TRUE]
             /\ answers' = Append(answers, Answer(r, <<>>, TRUE))
  /\ UNCHANGED <<about, stdin, parked, given, reader>>

-----------------------------------------------------------------------------
(* Input in the thread *)

\* syncKeepalive
Kept(s) == [s EXCEPT !.refed = s.reading /\ ~ s.paused /\ ~ s.ended /\ ~ s.unrefed]

\* The thread runs.
Runs == about = "input" /\ ~ parked.inside

\* read of process.stdin, which its consumer's demand has led to.
StreamRead ==
  /\ Runs /\ ~ stdin.reading /\ ~ stdin.ended /\ ~ stdin.paused
  /\ Len(stdin.buffer) < HighWater
  /\ stdin' = Kept([stdin EXCEPT !.reading = TRUE])
  /\ asked' = asked \union {[way |-> "stream", at |-> "way", length |-> MaxTyped, blocking |-> TRUE]}
  /\ UNCHANGED <<about, input, console, parked, answers, given, reader>>

\* The loop of read: it goes on for as long as push takes more.
OnStreamAnswer(a) ==
  /\ IF a.eof
     THEN stdin' = Kept([stdin EXCEPT !.ended = TRUE, !.reading = FALSE]) /\ asked' = asked
     ELSE LET more == Len(stdin.buffer) + Len(a.bytes) < HighWater
          IN /\ stdin' = Kept([stdin EXCEPT !.buffer = @ \o a.bytes, !.reading = more])
             /\ asked' = IF more
                         THEN asked \union {[way |-> "stream", at |-> "way", length |-> MaxTyped,
                                             blocking |-> TRUE]}
                         ELSE asked

\* An answer to the stream is looked at when the thread is; one to readSync wakes it.
OnAnswer ==
  /\ \E i \in DOMAIN answers :
       /\ answers' = RemoveAt(answers, i)
       /\ LET a == answers[i]
          IN \/ /\ a.way = "stream" /\ Runs
                /\ OnStreamAnswer(a) /\ UNCHANGED <<parked, given>>
             \/ /\ a.way = "sync"
                /\ parked' = [parked EXCEPT !.inside = FALSE]
                /\ given' = [given EXCEPT !["sync"] = @ \o a.bytes]
                /\ UNCHANGED <<about, stdin, asked>>
  /\ UNCHANGED <<about, input, console, reader>>

\* What the stream holds is taken by its consumer.
Consume ==
  /\ Runs /\ ~ stdin.paused /\ stdin.buffer # <<>>
  /\ given' = [given EXCEPT !["stream"] = @ \o stdin.buffer]
  /\ stdin' = [stdin EXCEPT !.buffer = <<>>]
  /\ UNCHANGED <<about, input, console, parked, asked, answers, reader>>

\* pause and resume, ref and unref of the program.
PauseOrUnref ==
  /\ Runs
  /\ stdin' \in {Kept([stdin EXCEPT !.paused = ~ @]), Kept([stdin EXCEPT !.unrefed = ~ @])}
  /\ UNCHANGED <<about, input, console, parked, asked, answers, given, reader>>

\* readStdinSync: in raw mode it does not wait.
ReadSync(length, raw) ==
  /\ Runs /\ parked.left > 0
  /\ parked' = [inside |-> TRUE, left |-> parked.left - 1]
  /\ asked' = asked \union {[way |-> "sync", at |-> "way", length |-> length, blocking |-> ~ raw]}
  /\ UNCHANGED <<about, input, console, stdin, answers, given, reader>>

-----------------------------------------------------------------------------
(* Output *)

\* writeStdio: one chain for both streams.
WriteStdio(fd) ==
  /\ about = "output" /\ console.writes < MaxWrites /\ console.closing = "no"
  /\ console' = [console EXCEPT !.writes = @ + 1,
                                !.chain = Append(@, [fd |-> fd, k |-> console.writes + 1])]
  /\ UNCHANGED <<about, input, stdin, parked, asked, answers, given, reader>>

\* The head of the chain is in writer.write, until its stream's reader takes it; the next
\* one follows.
Take(fd) ==
  /\ console.chain # <<>> /\ Head(console.chain).fd = fd
  /\ reader' = [reader EXCEPT ![fd].taken = Append(@, Head(console.chain).k)]
  /\ console' = [console EXCEPT !.chain = Tail(@)]
  /\ UNCHANGED <<about, input, stdin, parked, asked, answers, given>>

\* closeStdio begins, with its half second.
CloseStdio ==
  /\ about = "output" /\ console.closing = "no"
  /\ console' = [console EXCEPT !.closing = "flush"]
  /\ UNCHANGED <<about, input, stdin, parked, asked, answers, given, reader>>

\* Its flush is through, or the half second is over: the streams close behind the one
\* chunk that is in its writer, and what is behind it in the chain is refused.
Close ==
  /\ console.closing = "flush"
  /\ \/ console.chain = <<>> /\ console' = [console EXCEPT !.closing = "closed"]
     \/ console' = [console EXCEPT !.closing = "closed", !.late = TRUE,
                                   !.chain = IF @ = <<>> THEN @ ELSE <<Head(@)>>]

CloseEnds == Close /\ UNCHANGED <<about, input, stdin, parked, asked, answers, given, reader>>

\* A reader comes to the end of its stream.
HearEnd(fd) ==
  /\ console.closing = "closed" /\ ~ reader[fd].done
  /\ \A i \in DOMAIN console.chain : console.chain[i].fd # fd
  /\ reader' = [reader EXCEPT ![fd].done = TRUE]
  /\ UNCHANGED <<about, input, console, stdin, parked, asked, answers, given>>

-----------------------------------------------------------------------------

Init ==
  /\ about \in {"input", "output"}
  /\ input = [typed |-> 0, chunks |-> <<>>, closed |-> FALSE, readers |-> <<>>, lost |-> {}]
  /\ console = [leftover |-> <<>>, ended |-> FALSE, chain |-> <<>>, writes |-> 0,
                closing |-> "no", late |-> FALSE]
  /\ stdin = [reading |-> FALSE, ended |-> FALSE, paused |-> TRUE, unrefed |-> FALSE,
              refed |-> FALSE, buffer |-> <<>>]
  /\ parked = [inside |-> FALSE, left |-> MaxReads] /\ asked = {} /\ answers = <<>>
  /\ given = [w \in Ways |-> <<>>]
  /\ reader = [fd \in {1, 2} |-> [taken |-> <<>>, done |-> FALSE]]

\* What happens without anybody's doing.
Machine ==
  \/ \E r \in asked : ReadStdio(r)
  \/ ReaderRead \/ OnAnswer \/ CloseEnds

\* What the embedder does who reads both streams.
Readers == \E fd \in {1, 2} : Take(fd) \/ HearEnd(fd)

\* A consumer that flows.
Consumer == StreamRead \/ Consume

Next ==
  \/ Machine \/ Readers \/ Consumer
  \/ CloseInput \/ PauseOrUnref \/ CloseStdio
  \/ \E n \in {1, 2} : Type(n)
  \/ \E length \in {1, MaxTyped}, raw \in BOOLEAN : ReadSync(length, raw)
  \/ \E fd \in {1, 2} : WriteStdio(fd)

-----------------------------------------------------------------------------
(* Properties *)

InAnswers(way) ==
  FlattenSeq([i \in DOMAIN answers |-> IF answers[i].way = way THEN answers[i].bytes ELSE <<>>])

\* The bytes one way of reading has had, in the order it has them.
Had(way) == given[way] \o (IF way = "stream" THEN stdin.buffer ELSE <<>>) \o InAnswers(way)

Rises(s) == \A i, j \in DOMAIN s : i < j => s[i] < s[j]

\* A byte that was typed is in one place: not read yet, or with one of the two that read,
\* each of which has its bytes in order.  It is lost only if a chunk was cut while another
\* read was waiting (readStdio).
InputWhole ==
  LET still == FlattenSeq(input.chunks)
      places == <<console.leftover, still, Had("stream"), Had("sync")>>
      all == FlattenSeq(places)
  IN /\ Rises(Had("stream")) /\ Rises(Had("sync"))
     /\ IsInjective(all)
     /\ ToSet(all) \intersect input.lost = {}
     /\ ToSet(all) \union input.lost = 1..Typed

\* Standard input holds the run open exactly while somebody waits for it: never past its
\* end, nor paused or unrefed (syncKeepalive, wherever one of them changes).
StdinHolds == stdin = Kept(stdin)

\* Whoever reads stdout or stderr has what was written to it, in order, and comes to the
\* end after all of it, unless a reader let the half second pass (writeStdio, closeStdio).
StreamsWhole ==
  \A fd \in {1, 2} :
    /\ Rises(reader[fd].taken)
    /\ reader[fd].done /\ ~ console.late =>
         console.chain = <<>> /\ Len(reader[1].taken) + Len(reader[2].taken) = console.writes

\* A terminated worker's streams end, for a reader that reads; and standard input that was
\* closed ends for its consumer and lets go of the run.
StreamsEnd ==
  console.closing = "flush" \/ input.closed ~>
    (\A fd \in {1, 2} : reader[fd].done) \/ (input.closed /\ ~ stdin.refed)
=============================================================================
