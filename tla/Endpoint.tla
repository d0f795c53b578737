------------------------------- MODULE Endpoint -------------------------------
(***************************************************************************)
(* The port between a NodeWorker and its thread (wire/endpoint.ts), as the *)
(* two ends use it at once: calls and their answers in both directions,    *)
(* the bootstrap that delivers the port, the buffer of standard output     *)
(* (worker/stdio.ts) whose bytes ride on whatever message goes next        *)
(* (wire/pack.ts), and the routing of what arrives (wire/router.ts).       *)
(*                                                                         *)
(* A part is the sequence of the chunks it holds; chunk 0 is what a caller *)
(* sends along, chunk k > 0 the k-th one printed.                          *)
(***************************************************************************)
EXTENDS Integers, Sequences, SequencesExt

CONSTANTS
  None,
  MaxBuffered,  \* MAX_BUFFERED of stdio.ts, in chunks
  MaxSeq,       \* bound: messages of each side
  MaxPrints     \* bound: chunks printed

Ends == {"page", "worker"}

Other(e) == IF e = "page" THEN "worker" ELSE "page"

VARIABLES
  end,      \* PortEndpoint of each side
  raw,      \* the message that carries the port, on its way to the thread
  toEnd,    \* the messages on the port
  handling, \* requests whose handlers have not settled
  calls,    \* by their sequence number, what their callers know
  out,      \* stdio.ts
  heard,    \* Console.writeStdio: what the page was given of standard output
  gone      \* the thread was terminated

vars == <<end, raw, toEnd, handling, calls, out, heard, gone>>

Open(e) == end[e].port = "open" /\ ~ (e = "worker" /\ gone)

-----------------------------------------------------------------------------
(* Messages *)

\* packRequest: the caller's own parts first, then those of the pushes that ride along.
Packed(e, own, kind, runs) ==
  [is |-> "call", of |-> <<e, end[e].seq>>, seq |-> end[e].seq, kind |-> kind,
   n |-> IF own # <<>> \/ runs # <<>> THEN Len(own) ELSE None,
   parts |-> own \o [i \in DOMAIN runs |-> runs[i].chunks],
   pushes |-> [i \in DOMAIN runs |-> runs[i].fd]]

\* contribute, by way of drain: one push for each run, and one part for each push.
Drained(e) == IF e = "worker" THEN out.runs ELSE <<>>

Emptied(e) == IF e = "worker" THEN [out EXCEPT !.runs = <<>>] ELSE out

Chunks(runs) == FlattenSeq([i \in DOMAIN runs |-> runs[i].chunks])

Result(h) == [is |-> "result", of |-> h.of, seq |-> h.seq, parts |-> h.parts]

Garbage == [is |-> "garbage"]

\* primaryParts
PrimaryParts(m) ==
  IF m.pushes = <<>> THEN m.parts
  ELSE SubSeq(m.parts, 1, IF m.n = None THEN Len(m.parts) ELSE m.n)

\* unpackSidebands: from the n-th part on, one for each push.
Sidebands(m) ==
  LET n == IF m.n = None THEN Len(m.parts) ELSE m.n
  IN FlattenSeq([i \in DOMAIN m.pushes |->
       [j \in DOMAIN m.parts[n + i] |-> [fd |-> m.pushes[i], chunk |-> m.parts[n + i][j]]]])

\* Who posts to a port that is closed at the other side is not told.
Posted(e, m) ==
  IF end[Other(e)].port = "closed" THEN toEnd
  ELSE [toEnd EXCEPT ![Other(e)] = Append(@, m)]

-----------------------------------------------------------------------------
(* Asking *)

Asked(e, state, own) ==
  [calls EXCEPT ![e] = Append(@, [state |-> state, own |-> own, got |-> None])]

\* callWithSeq: refused, with nothing drained, where there is no port.
Refuse(e) ==
  /\ end[e].port # "open"
  /\ calls' = Asked(e, "failed", <<>>)
  /\ end' = [end EXCEPT ![e].seq = @ + 1]
  /\ UNCHANGED <<raw, toEnd, handling, out, heard, gone>>

\* callWithSeq: the request leaves.
Send(e, own, kind) ==
  /\ end[e].port = "open"
  /\ out' = Emptied(e)
  /\ calls' = Asked(e, "pending", own)
  /\ end' = [end EXCEPT ![e].seq = @ + 1, ![e].inflight = @ \union {end[e].seq}]
  /\ toEnd' = Posted(e, Packed(e, own, kind, Drained(e)))
  /\ UNCHANGED <<raw, handling, heard, gone>>

\* What goes with the request cannot be cloned: the post throws, after the drain.
SendThrows(e) ==
  /\ end[e].port = "open"
  /\ out' = [Emptied(e) EXCEPT !.lost = @ \union ToSet(Chunks(Drained(e)))]
  /\ calls' = Asked(e, "failed", <<>>)
  /\ end' = [end EXCEPT ![e].seq = @ + 1]
  /\ UNCHANGED <<raw, toEnd, handling, heard, gone>>

\* Bytes, values to be cloned and kinds that the other build does not know are the
\* program's to send.
Call(e) ==
  /\ end[e].seq <= MaxSeq[e] /\ (e = "worker" => ~ gone /\ end[e].port # "none")
  /\ \/ Refuse(e)
     \/ e = "page" /\ Send(e, <<>>, "known")
     \/ e = "worker" /\ (SendThrows(e) \/ Send(e, <<<<0>>>>, "known") \/ Send(e, <<>>, "unknown"))

\* post of the thread, which nobody waits for; o is the buffer it leaves.
Post(runs, o) ==
  IF Open("worker") /\ runs # <<>>
  THEN /\ out' = [o EXCEPT !.runs = <<>>]
       /\ calls' = Asked("worker", "post", <<>>)
       /\ end' = [end EXCEPT !["worker"].seq = @ + 1]
       /\ toEnd' = Posted("worker", Packed("worker", <<>>, "known", runs))
  ELSE out' = [o EXCEPT !.runs = runs] /\ UNCHANGED <<calls, end, toEnd>>

\* The page attaches its end and sends the other one, past the port.
Bootstrap ==
  /\ end["page"].port = "none" /\ ~ end["page"].closed /\ end["page"].seq <= MaxSeq["page"]
  /\ raw' = Packed("page", <<>>, "known", <<>>)
  /\ calls' = Asked("page", "pending", <<>>)
  /\ end' = [end EXCEPT !["page"].port = "open", !["page"].seq = @ + 1,
                        !["page"].inflight = @ \union {end["page"].seq}]
  /\ UNCHANGED <<toEnd, handling, out, heard, gone>>

-----------------------------------------------------------------------------
(* Standard output *)

\* writeStdio: consecutive writes to one descriptor make a run.
Runs(runs, fd, k) ==
  IF runs # <<>> /\ Last(runs).fd = fd
  THEN [runs EXCEPT ![Len(runs)].chunks = Append(@, k)]
  ELSE Append(runs, [fd |-> fd, chunks |-> <<k>>])

\* The thread runs, and may still number a message.
Prints == end["worker"].port # "none" /\ ~ gone /\ end["worker"].seq <= MaxSeq["worker"]

\* writeStdio below its limit, with the task that stands in for a carrier; at the limit,
\* flushStdio.
WriteStdio(fd) ==
  /\ Prints /\ Len(out.printed) < MaxPrints
  /\ LET runs == Runs(out.runs, fd, Len(out.printed) + 1)
         o == [out EXCEPT !.printed = Append(@, fd)]
     IN IF Len(Chunks(runs)) < MaxBuffered
        THEN /\ out' = [o EXCEPT !.runs = runs, !.scheduled = TRUE]
             /\ UNCHANGED <<calls, end, toEnd>>
        ELSE Post(runs, o)
  /\ UNCHANGED <<raw, handling, heard, gone>>

\* The task of schedule.
StdioTask ==
  /\ Prints /\ out.scheduled
  /\ Post(out.runs, [out EXCEPT !.scheduled = FALSE])
  /\ UNCHANGED <<raw, handling, heard, gone>>

-----------------------------------------------------------------------------
(* Answering *)

\* Router.handle, and the microtasks of its sidebands: an unregistered kind is answered,
\* any other has its handler.
Handle(e, m, e1, rest) ==
  LET h == [of |-> m.of, seq |-> m.seq, parts |-> PrimaryParts(m)]
  IN /\ heard' = heard \o Sidebands(m)
     /\ IF m.kind = "unknown"
        THEN handling' = handling /\ toEnd' = [rest EXCEPT ![Other(e)] =
               IF e1[Other(e)].port = "closed" THEN @ ELSE Append(@, Result(h))]
        ELSE handling' = [handling EXCEPT ![e] = @ \union {h}] /\ toEnd' = rest

\* worker/wire.ts: the first message brings the port.
OnBootstrap ==
  /\ raw # None /\ ~ gone
  /\ raw' = None
  /\ end' = [end EXCEPT !["worker"].port = "open"]
  /\ Handle("worker", raw, end, toEnd)
  /\ UNCHANGED <<calls, out, gone>>

\* A handler has settled, with a value or an error: the answer is posted if there still is
\* a port.
Finish(e) ==
  /\ ~ (e = "worker" /\ gone)
  /\ \E h \in handling[e] :
       /\ handling' = [handling EXCEPT ![e] = @ \ {h}]
       /\ toEnd' = IF end[e].port = "open" THEN Posted(e, Result(h)) ELSE toEnd
  /\ UNCHANGED <<end, raw, calls, out, heard, gone>>

Failed(e) ==
  [calls EXCEPT ![e] = [i \in DOMAIN @ |->
     IF i \in end[e].inflight THEN [@[i] EXCEPT !.state = "failed"] ELSE @[i]]]

\* close
Close(e) ==
  /\ end' = [end EXCEPT ![e] = [@ EXCEPT !.port = "closed", !.closed = TRUE, !.inflight = {}]]
  /\ toEnd' = [toEnd EXCEPT ![e] = <<>>]
  /\ calls' = Failed(e)

\* #receive: a request carries a call.
IsRequest(e, m) == m.is = "call"

Receive(e) ==
  /\ Open(e) /\ toEnd[e] # <<>>
  /\ LET m == Head(toEnd[e])
         rest == [toEnd EXCEPT ![e] = Tail(@)]
     IN \/ m = Garbage /\ Close(e) /\ UNCHANGED <<handling, heard>>
        \/ m # Garbage /\ IsRequest(e, m) /\ Handle(e, m, end, rest) /\ UNCHANGED <<end, calls>>
        \/ /\ m # Garbage /\ ~ IsRequest(e, m)
           /\ toEnd' = rest
           /\ IF m.seq \in end[e].inflight
              THEN /\ end' = [end EXCEPT ![e].inflight = @ \ {m.seq}]
                   /\ calls' = [calls EXCEPT ![e][m.seq].state = "answered",
                                             ![e][m.seq].got = [of |-> m.of, parts |-> m.parts]]
              ELSE UNCHANGED <<end, calls>>
           /\ UNCHANGED <<handling, heard>>
  /\ UNCHANGED <<raw, out, gone>>

\* terminate: the page's end closes and the thread is gone.
Terminate ==
  /\ ~ gone
  /\ gone' = TRUE
  /\ IF end["page"].closed THEN UNCHANGED <<end, toEnd, calls>> ELSE Close("page")
  /\ UNCHANGED <<raw, handling, out, heard>>

\* The thread is of a build that speaks another version, which the page cannot decode.
SendGarbage ==
  /\ Open("worker") /\ end["worker"].seq = 1 /\ out.printed = <<>>
  /\ end' = [end EXCEPT !["worker"].seq = MaxSeq["worker"] + 1]
  /\ toEnd' = Posted("worker", Garbage)
  /\ UNCHANGED <<raw, handling, calls, out, heard, gone>>

-----------------------------------------------------------------------------

Init ==
  /\ end = [e \in Ends |-> [port |-> "none", closed |-> FALSE, seq |-> 1, inflight |-> {}]]
  /\ raw = None /\ toEnd = [e \in Ends |-> <<>>] /\ handling = [e \in Ends |-> {}]
  /\ calls = [e \in Ends |-> <<>>]
  /\ out = [printed |-> <<>>, runs |-> <<>>, scheduled |-> FALSE, lost |-> {}]
  /\ heard = <<>> /\ gone = FALSE

PortStep == Bootstrap \/ OnBootstrap \/ Receive("page") \/ Receive("worker")

Settles == Finish("page") \/ Finish("worker")

Next ==
  \/ PortStep \/ Settles \/ StdioTask \/ Terminate
  \/ SendGarbage \/ \E e \in Ends : Call(e)
  \/ \E fd \in {1, 2} : WriteStdio(fd)

-----------------------------------------------------------------------------
(* Properties *)

\* A call is settled by the answer to that very call, although both sides number from one
\* and handlers settle in any order; and its handler was given the caller's own bytes,
\* whatever rode on the message (#receive, primaryParts).
OwnAnswers ==
  \A e \in Ends : \A i \in DOMAIN calls[e] :
    calls[e][i].state = "answered" =>
      calls[e][i].got = [of |-> <<e, i>>, parts |-> calls[e][i].own]

\* What the page hears of standard output is what was printed, to the descriptors it was
\* printed to, in that order and once; a chunk is passed over only if the message it rode
\* on could not be posted (writeStdio, contribute, unpackSidebands).
OutputInOrder ==
  /\ \A i \in DOMAIN heard : heard[i].fd = out.printed[heard[i].chunk]
  /\ \A i \in DOMAIN heard :
       \A k \in 1..heard[i].chunk :
         k = heard[i].chunk \/ k \in out.lost \/ \E j \in 1..i - 1 : heard[j].chunk = k
  /\ \A i, j \in DOMAIN heard : heard[i].chunk = heard[j].chunk => i = j

\* No caller is forgotten: who waits is one whom an answer or the close of its end will
\* find, and at a closed end nobody waits (callWithSeq, close).
NoneForgotten ==
  \A e \in Ends :
    /\ end[e].inflight = {i \in DOMAIN calls[e] : calls[e][i].state = "pending"}
    /\ end[e].closed => end[e].inflight = {}

\* Every call is settled, as long as the other end lives and its handlers settle
\* (Router.handle, which never rejects).
CallsSettle ==
  []<>(\A e \in Ends : end[e].inflight = {} \/ end[Other(e)].closed \/ gone)
=============================================================================
