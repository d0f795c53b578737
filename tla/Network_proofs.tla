---------------------------- MODULE Network_proofs ----------------------------
(***************************************************************************)
(* What a program's connections leave behind, for any number of peers,     *)
(* clients, parsers, services, renewals, messages, frames and chunks: what *)
(* is over holds nothing.                                                  *)
(*                                                                         *)
(* Each part has an inductive invariant of its own, and a step of one      *)
(* leaves the others as they are (NetworkInv).  A terminated worker opens  *)
(* nothing, and a channel that was shut down is not dialled again, so of   *)
(* both the property is nearly inductive.  Of the parsers: the list has a  *)
(* parser under its pointer exactly while it is of the list and serves     *)
(* somebody (Listed).  Of the relay: an asking that did not fail is the    *)
(* one its token maps to (Mapping), a client that a service has did not    *)
(* fail (Having), and a call stands where its service does (Calling).  Of  *)
(* a WebSocket: where it stands follows from its state and what it was     *)
(* told (Standing), its amount counts what is not sent (Counted), and what *)
(* is on the wire is in order (InOrder).  Of a WebSocketStream: its two    *)
(* promises say what it holds (Given).  Of a fetch: the holds on the run   *)
(* are counted one by one (Held), and a mirror gives its own up with its   *)
(* end (LetsGo).                                                           *)
(***************************************************************************)
EXTENDS Network, TLAPS, FiniteSetTheorems, SequenceTheorems

-----------------------------------------------------------------------------
(* A terminated worker's sockets *)

\* What `terminate` left closed stays so: nothing of a page that is gone opens anything.
SocketsInv == S!NothingLeft

LEMMA SocketsStart ==
  ASSUME S!Init PROVE SocketsInv
  BY DEF S!Init, SocketsInv, S!NothingLeft

LEMMA SocketsUnchanged ==
  ASSUME SocketsInv, UNCHANGED socket PROVE SocketsInv'
  <1>1. UNCHANGED <<plan, serve, net, pipe>>
    BY DEF socket
  <1> QED BY <1>1 DEF SocketsInv, S!NothingLeft

\* A stream that failed is not open.
LEMMA FailShuts ==
  ASSUME NEW flow PROVE S!Fail(flow).st # "open"
  BY DEF S!Fail

LEMMA SocketsStep ==
  ASSUME SocketsInv, S!Next PROVE SocketsInv'
  <1> USE DEF SocketsInv, S!NothingLeft
  <1>1. CASE S!Program
    BY <1>1 DEF S!Program, S!Listen, S!CloseServer, S!Connect, S!Write, S!End, S!ProgramDestroys
  <1>2. CASE S!PageServes
    BY <1>2 DEF S!PageServes
  <1>3. CASE S!ServerSide
    BY <1>3 DEF S!ServerSide, S!Published, S!PublishFails
  <1>4. ASSUME NEW c \in Clients, S!Dialling(c) PROVE SocketsInv'
    <2>1. CASE S!Go(c)
      BY <2>1 DEF S!Go
    <2>2. CASE S!PageOpens(c)
      <3>1. CASE net
        <4>1. /\ UNCHANGED <<plan, serve, net>>
              /\ pipe' = [e \in S!Ends |-> IF e[1] = c THEN [q |-> 0, st |-> "dead"] ELSE pipe[e]]
          BY <2>2, <3>1 DEF S!PageOpens, S!Cancelled
        <4> QED BY <3>1, <4>1
      <3>2. CASE ~ net
        BY <2>2, <3>2 DEF S!PageOpens
      <3> QED BY <3>1, <3>2
    <2>3. CASE S!PageRefuses(c)
      BY <2>3 DEF S!PageRefuses
    <2>4. CASE S!Refused(c)
      BY <2>4 DEF S!Refused
    <2>5. CASE S!Attach(c)
      BY <2>5 DEF S!Attach
    <2> QED BY <1>4, <2>1, <2>2, <2>3, <2>4, <2>5 DEF S!Dialling
  <1>5. ASSUME NEW e \in S!Ends, S!Streaming(e) PROVE SocketsInv'
    BY <1>5 DEF S!Streaming, S!Writes, S!Written, S!Final, S!Receive, S!ReceiveEnd, S!AutoDestroy, S!Closed
  <1>6. CASE S!Terminate
    <2>1. /\ serve' # "open" /\ plan' = plan
          /\ pipe' = [e \in S!Ends |-> IF e[1] \in plan.remote THEN S!Fail(pipe[e]) ELSE pipe[e]]
      BY <1>6 DEF S!Terminate
    <2> QED BY <2>1, FailShuts
  <1> QED BY <1>1, <1>2, <1>3, <1>4, <1>5, <1>6 DEF S!Next

-----------------------------------------------------------------------------
(* A peer's channel *)

\* A channel that is open was dialled, and one that was shut down is not dialled again.
PeerInv ==
  /\ C!NothingLeft
  /\ dc = "open" => dialled # "ws"
  /\ done => dialled # "ws"

LEMMA PeerStarts ==
  ASSUME C!Init PROVE PeerInv
  BY DEF C!Init, PeerInv, C!NothingLeft

LEMMA PeerUnchanged ==
  ASSUME PeerInv, UNCHANGED peer PROVE PeerInv'
  <1>1. UNCHANGED <<dialled, ws, pc, done, dc>>
    BY DEF peer
  <1> QED BY <1>1 DEF PeerInv, C!NothingLeft

LEMMA PeerStep ==
  ASSUME PeerInv, C!Next PROVE PeerInv'
  <1> USE DEF PeerInv, C!NothingLeft, C!dialled
  <1>1. CASE C!Sends \/ C!OnMessage \/ C!Takes
    <2>1. UNCHANGED <<dialled, ws, pc, done, dc>>
      BY <1>1 DEF C!Sends, C!OnMessage, C!Takes
    <2> QED BY <2>1
  <1>2. CASE C!OnClosed \/ C!OnError
    BY <1>2 DEF C!OnClosed, C!OnError
  <1>3. CASE C!Drains \/ C!SignallerOpens \/ C!SignallerFails \/ C!SignallerGone \/ C!ChannelOpens
    BY <1>3 DEF C!Drains, C!SignallerOpens, C!SignallerFails, C!SignallerGone, C!ChannelOpens, C!Shutdown, C!Shuts
  <1>4. CASE C!Program
    BY <1>4 DEF C!Program, C!Write, C!CloseWriter, C!Cancel, C!Owner, C!Shutdown, C!Shuts
  <1> QED BY <1>1, <1>2, <1>3, <1>4 DEF C!Next, C!Browser

-----------------------------------------------------------------------------
(* The parsers of HTTP/1, and a server's list *)

\* A parser, whatever it has read.
Parserlike(q) ==
  q \in [ptr : P!Pointers \cup {0}, ready : BOOLEAN, list : BOOLEAN, at : {"none", "headers", "body"},
         failed : BOOLEAN, message : {q.message}, span : {q.span}, read : {q.read}, begun : {q.begun},
         fields : {q.fields}, values : {q.values}, last : {q.last}]

ListRecords == [parser : Parsers \cup {P!Nobody}, active : BOOLEAN]

\* What the list has under the pointer of a parser.
Listed(q, y, r) ==
  IF q.ready /\ q.list
  THEN r # P!NoRecord /\ r.parser = y /\ (r.active <=> q.at # "none")
  ELSE r = P!NoRecord

\* Parsers and the pointers that are in use are in step, and a pointer that is free is in no list.
ParserInv ==
  /\ DOMAIN p = Parsers /\ \A y \in Parsers : Parserlike(p[y])
  /\ parsers \in [P!Pointers -> Parsers \cup {P!Nobody}] /\ records \in [P!Pointers -> ListRecords]
  /\ \A ptr \in P!Pointers : parsers[ptr] # P!Nobody => p[parsers[ptr]].ptr = ptr
  /\ \A ptr \in P!Pointers : parsers[ptr] = P!Nobody => records[ptr] = P!NoRecord
  /\ \A y \in Parsers : p[y].ptr # 0 => /\ p[y].ptr \in P!Pointers /\ parsers[p[y].ptr] = y
                                        /\ Listed(p[y], y, records[p[y].ptr])
  /\ \A y \in Parsers : p[y].ready => p[y].ptr # 0

LEMMA NoParserIs ==
  /\ Parserlike(P!NoParser) /\ P!NoParser.ptr = 0 /\ ~ P!NoParser.ready
  /\ P!NoRecord \in ListRecords /\ P!NoRecord.parser = P!Nobody
  BY DEF Parserlike, P!NoParser, P!NoRecord, ListRecords

LEMMA ParserStarts ==
  ASSUME P!Init PROVE ParserInv
  BY NoParserIs DEF P!Init, ParserInv

LEMMA ParserUnchanged ==
  ASSUME ParserInv, UNCHANGED <<p, records, parsers>> PROVE ParserInv'
  BY DEF ParserInv

\* A parser that keeps its pointer.
LEMMA ParserMoves ==
  ASSUME ParserInv, NEW y \in Parsers, p[y].ptr # 0, NEW v, Parserlike(v), v.ptr = p[y].ptr,
         p' = [p EXCEPT ![y] = v], parsers' = parsers, records' \in [P!Pointers -> ListRecords],
         \A ptr \in P!Pointers : ptr # p[y].ptr => records'[ptr] = records[ptr],
         Listed(v, y, records'[p[y].ptr])
  PROVE  ParserInv'
  <1>1. /\ DOMAIN p' = Parsers /\ p'[y] = v /\ \A z \in Parsers : z # y => p'[z] = p[z]
    BY DEF ParserInv
  <1>2. \A z \in Parsers : Parserlike(p'[z]) /\ p'[z].ptr = p[z].ptr
    BY <1>1 DEF ParserInv
  <1>3. y # P!Nobody
    BY NetworkAssumption DEF P!Nobody
  <1>4. \A ptr \in P!Pointers : parsers[ptr] # P!Nobody => parsers[ptr] \in Parsers /\ p'[parsers[ptr]].ptr = ptr
    BY <1>2 DEF ParserInv
  <1>5. \A ptr \in P!Pointers : parsers[ptr] = P!Nobody => records'[ptr] = P!NoRecord
    BY <1>3 DEF ParserInv
  <1>6. \A z \in Parsers : p'[z].ptr # 0 => /\ p'[z].ptr \in P!Pointers /\ parsers[p'[z].ptr] = z
                                           /\ Listed(p'[z], z, records'[p'[z].ptr])
    BY <1>1, <1>2 DEF ParserInv
  <1>7. \A z \in Parsers : p'[z].ready => p'[z].ptr # 0
    BY <1>1, <1>2 DEF ParserInv
  <1> QED BY <1>1, <1>2, <1>4, <1>5, <1>6, <1>7 DEF ParserInv

\* A callback changes no more of a parser than what it has read and what it is in.
Kept(v, q) == Parserlike(v) /\ v.ptr = q.ptr /\ v.ready = q.ready /\ v.list = q.list

LEMMA ResetIs ==
  ASSUME NEW q, Parserlike(q) PROVE Kept(P!Reset(q), q) /\ P!Reset(q).at = q.at
  BY DEF Parserlike, P!Reset, Kept

LEMMA SpanIs ==
  ASSUME NEW q, Parserlike(q), NEW text
  PROVE  /\ Kept(P!WithField(q, text), q) /\ P!WithField(q, text).at = q.at
         /\ Kept(P!WithValue(q, text), q) /\ P!WithValue(q, text).at = q.at
  <1>1. PICK f : P!WithField(q, text) = [q EXCEPT !.fields = f, !.last = "field"]
    BY DEF P!WithField
  <1>2. PICK g : P!WithValue(q, text) = [q EXCEPT !.values = g, !.last = "value"]
    BY DEF P!WithValue
  <1> QED BY <1>1, <1>2 DEF Parserlike, Kept

\* What the list says of a parser that is in it.
LEMMA MarkedIs ==
  ASSUME ParserInv, NEW y \in Parsers, p[y].ready, NEW active \in BOOLEAN
  PROVE  LET r == P!Marked(p[y], active) IN
         /\ r \in [P!Pointers -> ListRecords]
         /\ \A ptr \in P!Pointers : ptr # p[y].ptr => r[ptr] = records[ptr]
         /\ IF p[y].list THEN r[p[y].ptr] # P!NoRecord /\ r[p[y].ptr].parser = y /\ r[p[y].ptr].active = active
            ELSE r[p[y].ptr] = P!NoRecord
  <1> DEFINE t == p[y].ptr
  <1>1. /\ t \in P!Pointers /\ Listed(p[y], y, records[t]) /\ records \in [P!Pointers -> ListRecords]
        /\ records[t] \in ListRecords
    BY DEF ParserInv
  <1>2. y # P!Nobody /\ P!NoRecord.parser = P!Nobody
    BY NetworkAssumption, NoParserIs DEF P!Nobody
  <1>3. CASE p[y].list
    <2>1. records[t] # P!NoRecord /\ records[t].parser = y
      BY <1>1, <1>3 DEF Listed
    <2> DEFINE w == [records[t] EXCEPT !.active = active]
    <2>2. w \in ListRecords /\ w.parser = y /\ w.active = active
      BY <1>1, <2>1 DEF ListRecords
    <2>3. P!Marked(p[y], active) = [records EXCEPT ![t] = w]
      BY <1>3, <2>1 DEF P!Marked
    <2> HIDE DEF w
    <2>4. w # P!NoRecord
      BY <1>2, <2>2
    <2> QED BY <1>1, <1>3, <2>2, <2>3, <2>4
  <1>4. CASE ~ p[y].list
    <2>1. P!Marked(p[y], active) = records /\ records[t] = P!NoRecord
      BY <1>1, <1>4 DEF P!Marked, Listed
    <2> QED BY <1>1, <1>4, <2>1
  <1> QED BY <1>3, <1>4

LEMMA DetachedIs ==
  ASSUME ParserInv, NEW y \in Parsers, p[y].ptr # 0
  PROVE  LET r == P!Detached(p[y]) IN
         /\ r \in [P!Pointers -> ListRecords] /\ r[p[y].ptr] = P!NoRecord
         /\ \A ptr \in P!Pointers : ptr # p[y].ptr => r[ptr] = records[ptr]
  <1>1. /\ p[y].ptr \in P!Pointers /\ Listed(p[y], y, records[p[y].ptr]) /\ records \in [P!Pointers -> ListRecords]
    BY DEF ParserInv
  <1> QED BY <1>1, NoParserIs DEF P!Detached, Listed

LEMMA ParserStep ==
  ASSUME ParserInv, P!Next PROVE ParserInv'
  <1> SUFFICES ASSUME NEW y \in Parsers,
                      \/ P!New(y) \/ P!Remove(y) \/ P!Destroy(y) \/ P!MessageBegin(y) \/ P!HeadersComplete(y)
                      \/ P!MessageComplete(y) \/ P!Fails(y)
                      \/ \E list \in BOOLEAN : P!Initialize(y, list)
                      \/ \E i \in 1 .. P!MaxSpans, n \in 0 .. 2 : P!Span(y, i, n)
               PROVE  ParserInv'
    BY DEF P!Next
  <1>0. /\ Parserlike(p[y]) /\ DOMAIN p = Parsers /\ (p[y].ready => p[y].ptr # 0) /\ y # P!Nobody
        /\ parsers \in [P!Pointers -> Parsers \cup {P!Nobody}] /\ records \in [P!Pointers -> ListRecords]
        /\ p[y].ptr # 0 => /\ p[y].ptr \in P!Pointers /\ parsers[p[y].ptr] = y
                           /\ Listed(p[y], y, records[p[y].ptr])
    BY NetworkAssumption DEF ParserInv, P!Nobody
  <1>1. CASE P!New(y)
    <2>1. PICK ptr \in P!Pointers :
            /\ p[y].ptr = 0 /\ parsers[ptr] = P!Nobody
            /\ p' = [p EXCEPT ![y] = [P!NoParser EXCEPT !.ptr = ptr, !.begun = p[y].begun]]
            /\ parsers' = [parsers EXCEPT ![ptr] = y] /\ records' = records
      BY <1>1 DEF P!New
    <2> DEFINE v == [P!NoParser EXCEPT !.ptr = ptr, !.begun = p[y].begun]
    <2>2. Parserlike(v) /\ v.ptr = ptr /\ ~ v.ready
      BY NoParserIs DEF Parserlike
    <2>3. p' = [p EXCEPT ![y] = v]
      BY <2>1
    <2> HIDE DEF v
    <2>4. DOMAIN p' = Parsers /\ p'[y] = v /\ \A z \in Parsers : z # y => p'[z] = p[z]
      BY <1>0, <2>3
    <2>5. /\ parsers' \in [P!Pointers -> Parsers \cup {P!Nobody}] /\ parsers'[ptr] = y
          /\ \A t \in P!Pointers : t # ptr => parsers'[t] = parsers[t]
      BY <1>0, <2>1
    <2>6. records[ptr] = P!NoRecord /\ \A z \in Parsers : z # y /\ p[z].ptr # 0 => p[z].ptr # ptr
      BY <2>1, NetworkAssumption DEF ParserInv, P!Nobody
    <2>7. \A z \in Parsers : Parserlike(p'[z])
      BY <2>2, <2>4 DEF ParserInv
    <2>8. \A t \in P!Pointers : parsers'[t] # P!Nobody => p'[parsers'[t]].ptr = t
      <3> SUFFICES ASSUME NEW t \in P!Pointers, parsers'[t] # P!Nobody PROVE p'[parsers'[t]].ptr = t
        OBVIOUS
      <3>1. CASE t = ptr
        BY <2>2, <2>4, <2>5, <3>1
      <3>2. CASE t # ptr
        <4>1. parsers'[t] = parsers[t] /\ parsers[t] \in Parsers /\ p[parsers[t]].ptr = t
          BY <1>0, <2>5, <3>2 DEF ParserInv
        <4>2. CASE parsers[t] = y
          BY <2>1, <4>1, <4>2, <1>0, <2>5 DEF ParserInv, P!Pointers
        <4>3. CASE parsers[t] # y
          BY <2>4, <4>1, <4>3
        <4> QED BY <4>2, <4>3
      <3> QED BY <3>1, <3>2
    <2>9. \A t \in P!Pointers : parsers'[t] = P!Nobody => records'[t] = P!NoRecord
      BY <1>0, <2>1, <2>5 DEF ParserInv
    <2>10. \A z \in Parsers : p'[z].ptr # 0 => /\ p'[z].ptr \in P!Pointers /\ parsers'[p'[z].ptr] = z
                                              /\ Listed(p'[z], z, records'[p'[z].ptr])
      <3> SUFFICES ASSUME NEW z \in Parsers, p'[z].ptr # 0
                   PROVE  /\ p'[z].ptr \in P!Pointers /\ parsers'[p'[z].ptr] = z
                          /\ Listed(p'[z], z, records'[p'[z].ptr])
        OBVIOUS
      <3>1. CASE z = y
        BY <2>1, <2>2, <2>4, <2>5, <2>6, <3>1 DEF Listed
      <3>2. CASE z # y
        <4>1. /\ p'[z] = p[z] /\ p[z].ptr # 0 /\ p[z].ptr # ptr /\ p[z].ptr \in P!Pointers /\ parsers[p[z].ptr] = z
              /\ Listed(p[z], z, records[p[z].ptr])
          BY <2>4, <2>6, <3>2 DEF ParserInv
        <4> QED BY <2>1, <2>5, <4>1
      <3> QED BY <3>1, <3>2
    <2>11. \A z \in Parsers : p'[z].ready => p'[z].ptr # 0
      BY <2>2, <2>4 DEF ParserInv
    <2> QED BY <1>0, <2>1, <2>4, <2>5, <2>7, <2>8, <2>9, <2>10, <2>11 DEF ParserInv
  <1>2. CASE P!Remove(y)
    <2> DEFINE v == [p[y] EXCEPT !.ready = FALSE]
    <2>1. p[y].ready /\ p' = [p EXCEPT ![y] = v] /\ records' = P!Detached(p[y]) /\ parsers' = parsers
      BY <1>2 DEF P!Remove
    <2>2. Parserlike(v) /\ v.ptr = p[y].ptr /\ ~ v.ready
      BY <1>0 DEF Parserlike
    <2> HIDE DEF v
    <2>3. Listed(v, y, records'[p[y].ptr])
      BY <1>0, <2>1, <2>2, DetachedIs DEF Listed
    <2> QED BY <1>0, <2>1, <2>2, <2>3, DetachedIs, ParserMoves
  <1>3. CASE P!Destroy(y)
    <2> DEFINE v == [P!NoParser EXCEPT !.begun = p[y].begun]
               t == p[y].ptr
    <2>1. /\ t # 0 /\ p' = [p EXCEPT ![y] = v] /\ records' = P!Detached(p[y])
          /\ parsers' = [parsers EXCEPT ![t] = P!Nobody]
      BY <1>3 DEF P!Destroy
    <2>2. Parserlike(v) /\ v.ptr = 0 /\ ~ v.ready
      BY NoParserIs DEF Parserlike
    <2> HIDE DEF v
    <2>3. DOMAIN p' = Parsers /\ p'[y] = v /\ \A z \in Parsers : z # y => p'[z] = p[z]
      BY <1>0, <2>1
    <2>4. /\ parsers' \in [P!Pointers -> Parsers \cup {P!Nobody}] /\ parsers'[t] = P!Nobody /\ t \in P!Pointers
          /\ \A u \in P!Pointers : u # t => parsers'[u] = parsers[u]
      BY <1>0, <2>1
    <2>5. /\ records' \in [P!Pointers -> ListRecords] /\ records'[t] = P!NoRecord
          /\ \A u \in P!Pointers : u # t => records'[u] = records[u]
      BY <2>1, DetachedIs
    <2>6. \A z \in Parsers : Parserlike(p'[z])
      BY <2>2, <2>3 DEF ParserInv
    <2>7. \A u \in P!Pointers : parsers'[u] # P!Nobody => p'[parsers'[u]].ptr = u
      BY <1>0, <2>3, <2>4 DEF ParserInv
    <2>8. \A u \in P!Pointers : parsers'[u] = P!Nobody => records'[u] = P!NoRecord
      BY <2>4, <2>5 DEF ParserInv
    <2>9. \A z \in Parsers : p'[z].ptr # 0 => /\ p'[z].ptr \in P!Pointers /\ parsers'[p'[z].ptr] = z
                                             /\ Listed(p'[z], z, records'[p'[z].ptr])
      <3> SUFFICES ASSUME NEW z \in Parsers, p'[z].ptr # 0
                   PROVE  /\ p'[z].ptr \in P!Pointers /\ parsers'[p'[z].ptr] = z
                          /\ Listed(p'[z], z, records'[p'[z].ptr])
        OBVIOUS
      <3>1. z # y
        BY <2>2, <2>3
      <3>2. /\ p'[z] = p[z] /\ p[z].ptr \in P!Pointers /\ parsers[p[z].ptr] = z
            /\ Listed(p[z], z, records[p[z].ptr])
        BY <2>3, <3>1 DEF ParserInv
      <3>3. p[z].ptr # t
        BY <1>0, <2>1, <3>1, <3>2
      <3> QED BY <2>4, <2>5, <3>2, <3>3
    <2>10. \A z \in Parsers : p'[z].ready => p'[z].ptr # 0
      BY <2>2, <2>3 DEF ParserInv
    <2> QED BY <2>3, <2>4, <2>5, <2>6, <2>7, <2>8, <2>9, <2>10 DEF ParserInv
  <1>4. CASE P!MessageBegin(y)
    <2>1. PICK m : p' = [p EXCEPT ![y] = [P!Fresh(p[y]) EXCEPT !.begun = @ + 1, !.at = "headers", !.message = m,
                                                             !.span = 0, !.read = 0]]
      BY <1>4 DEF P!MessageBegin
    <2> DEFINE f == P!Reset(p[y])
               v == [f EXCEPT !.begun = f.begun + 1, !.at = "headers", !.message = m, !.span = 0, !.read = 0]
    <2>2. Kept(f, p[y])
      BY <1>0, ResetIs
    <2>3. p' = [p EXCEPT ![y] = v] /\ p[y].ready /\ parsers' = parsers /\ records' = P!Marked(p[y], TRUE)
      BY <1>4, <2>1 DEF P!MessageBegin, P!Called, P!Fresh
    <2> HIDE DEF f
    <2>4. Kept(v, p[y]) /\ v.at = "headers"
      BY <2>2 DEF Parserlike, Kept
    <2> HIDE DEF v
    <2>5. /\ records' \in [P!Pointers -> ListRecords]
          /\ \A ptr \in P!Pointers : ptr # p[y].ptr => records'[ptr] = records[ptr]
          /\ IF p[y].list THEN /\ records'[p[y].ptr] # P!NoRecord /\ records'[p[y].ptr].parser = y
                              /\ records'[p[y].ptr].active = TRUE
             ELSE records'[p[y].ptr] = P!NoRecord
      BY <2>3, MarkedIs
    <2>6. Listed(v, y, records'[p[y].ptr])
      BY <2>3, <2>4, <2>5 DEF Listed, Kept
    <2>7. Parserlike(v) /\ v.ptr = p[y].ptr
      BY <2>4 DEF Kept
    <2> QED BY <1>0, <2>3, <2>5, <2>6, <2>7, ParserMoves
  <1>5. CASE P!HeadersComplete(y)
    <2> DEFINE v == [p[y] EXCEPT !.at = "body"]
    <2>1. /\ p[y].ready /\ p[y].at = "headers" /\ p' = [p EXCEPT ![y] = v] /\ records' = records
          /\ parsers' = parsers
      BY <1>5 DEF P!HeadersComplete, P!Called
    <2>2. Kept(v, p[y]) /\ v.at = "body"
      BY <1>0 DEF Parserlike, Kept
    <2> HIDE DEF v
    <2>3. Listed(v, y, records'[p[y].ptr])
      BY <1>0, <2>1, <2>2 DEF Listed, Kept
    <2> QED BY <1>0, <2>1, <2>2, <2>3, ParserMoves DEF Kept
  <1>6. CASE P!MessageComplete(y)
    <2> DEFINE v == [p[y] EXCEPT !.at = "none"]
    <2>1. /\ p[y].ready /\ p' = [p EXCEPT ![y] = v] /\ records' = P!Marked(p[y], FALSE) /\ parsers' = parsers
      BY <1>6 DEF P!MessageComplete, P!Called
    <2>2. Kept(v, p[y]) /\ v.at = "none"
      BY <1>0 DEF Parserlike, Kept
    <2> HIDE DEF v
    <2>3. /\ records' \in [P!Pointers -> ListRecords]
          /\ \A ptr \in P!Pointers : ptr # p[y].ptr => records'[ptr] = records[ptr]
          /\ IF p[y].list THEN /\ records'[p[y].ptr] # P!NoRecord /\ records'[p[y].ptr].parser = y
                              /\ records'[p[y].ptr].active = FALSE
             ELSE records'[p[y].ptr] = P!NoRecord
      BY <2>1, MarkedIs
    <2>4. Listed(v, y, records'[p[y].ptr])
      BY <2>1, <2>2, <2>3 DEF Listed, Kept
    <2>5. Parserlike(v) /\ v.ptr = p[y].ptr
      BY <2>2 DEF Kept
    <2> QED BY <1>0, <2>1, <2>3, <2>4, <2>5, ParserMoves
  <1>7. CASE P!Fails(y)
    <2> DEFINE v == [p[y] EXCEPT !.failed = TRUE]
    <2>1. p[y].ready /\ p' = [p EXCEPT ![y] = v] /\ records' = records /\ parsers' = parsers
      BY <1>7 DEF P!Fails, P!Called
    <2>2. Kept(v, p[y]) /\ v.at = p[y].at
      BY <1>0 DEF Parserlike, Kept
    <2> HIDE DEF v
    <2>3. Listed(v, y, records'[p[y].ptr])
      BY <1>0, <2>1, <2>2 DEF Listed, Kept
    <2> QED BY <1>0, <2>1, <2>2, <2>3, ParserMoves DEF Kept
  <1>8. ASSUME NEW list \in BOOLEAN, P!Initialize(y, list) PROVE ParserInv'
    <2> DEFINE f == P!Reset(p[y])
               v == [f EXCEPT !.ready = TRUE, !.list = list, !.at = "none", !.failed = FALSE]
               one == [parser |-> y, active |-> FALSE]
    <2>1. /\ p[y].ptr # 0 /\ p' = [p EXCEPT ![y] = v] /\ parsers' = parsers
          /\ records' = IF list THEN [records EXCEPT ![p[y].ptr] = one] ELSE P!Detached(p[y])
      BY <1>8 DEF P!Initialize
    <2>2. Kept(f, p[y])
      BY <1>0, ResetIs
    <2>3. one \in ListRecords /\ one.parser = y /\ ~ one.active
      BY DEF ListRecords
    <2>4. one # P!NoRecord
      BY <1>0, NoParserIs
    <2> HIDE DEF f, one
    <2>5. Parserlike(v) /\ v.ptr = p[y].ptr /\ v.ready /\ v.list = list /\ v.at = "none"
      BY <2>2 DEF Parserlike, Kept
    <2> HIDE DEF v
    <2>6. /\ records' \in [P!Pointers -> ListRecords]
          /\ \A ptr \in P!Pointers : ptr # p[y].ptr => records'[ptr] = records[ptr]
          /\ records'[p[y].ptr] = IF list THEN one ELSE P!NoRecord
      BY <1>0, <2>1, <2>3, DetachedIs
    <2>7. Listed(v, y, records'[p[y].ptr])
      BY <2>3, <2>4, <2>5, <2>6 DEF Listed
    <2> QED BY <2>1, <2>5, <2>6, <2>7, ParserMoves
  <1>9. ASSUME NEW i \in 1 .. P!MaxSpans, NEW n \in 0 .. 2, P!Span(y, i, n) PROVE ParserInv'
    <2>1. PICK total : p' = [p EXCEPT ![y] = IF i % 2 = 1
                                THEN P!WithField([p[y] EXCEPT !.span = i, !.read = total], P!Text(i, n))
                                ELSE P!WithValue([p[y] EXCEPT !.span = i, !.read = total], P!Text(i, n))]
      BY <1>9 DEF P!Span
    <2> DEFINE a == [p[y] EXCEPT !.span = i, !.read = total]
               v == IF i % 2 = 1 THEN P!WithField(a, P!Text(i, n)) ELSE P!WithValue(a, P!Text(i, n))
    <2>2. p[y].ready /\ p' = [p EXCEPT ![y] = v] /\ records' = records /\ parsers' = parsers
      BY <1>9, <2>1 DEF P!Span, P!Called
    <2>3. Kept(a, p[y]) /\ a.at = p[y].at
      BY <1>0 DEF Parserlike, Kept
    <2> HIDE DEF a
    <2>4. Kept(v, a) /\ v.at = a.at
      BY <2>3, SpanIs DEF Kept
    <2> HIDE DEF v
    <2>5. Kept(v, p[y]) /\ v.at = p[y].at
      BY <2>3, <2>4 DEF Kept
    <2>6. Listed(v, y, records'[p[y].ptr])
      BY <1>0, <2>2, <2>5 DEF Listed, Kept
    <2> QED BY <1>0, <2>2, <2>5, <2>6, ParserMoves DEF Kept
  <1> QED BY <1>1, <1>2, <1>3, <1>4, <1>5, <1>6, <1>7, <1>8, <1>9

LEMMA ParserHolds ==
  ASSUME ParserInv PROVE P!ListsTrue
  <1> SUFFICES ASSUME NEW ptr \in P!Pointers
               PROVE  IF records[ptr] # P!NoRecord
                      THEN LET z == records[ptr].parser IN
                           /\ parsers[ptr] = z /\ p[z].ptr = ptr /\ p[z].ready /\ p[z].list
                           /\ records[ptr].active <=> p[z].at # "none"
                      ELSE parsers[ptr] # P!Nobody => ~ (p[parsers[ptr]].ready /\ p[parsers[ptr]].list)
    BY DEF P!ListsTrue
  <1> DEFINE y == parsers[ptr]
  <1>1. y # P!Nobody => /\ y \in Parsers /\ p[y].ptr = ptr
    BY DEF ParserInv
  <1>2. y = P!Nobody => records[ptr] = P!NoRecord
    BY DEF ParserInv
  <1>3. CASE y # P!Nobody /\ p[y].ptr # 0
    <2>1. Listed(p[y], y, records[ptr])
      BY <1>1, <1>3 DEF ParserInv
    <2> QED BY <1>1, <1>3, <2>1 DEF Listed
  <1>4. CASE y # P!Nobody /\ p[y].ptr = 0
    BY <1>1, <1>4 DEF P!Pointers
  <1> QED BY <1>2, <1>3, <1>4

-----------------------------------------------------------------------------
(* The relay of a page, and its clients *)

Askings == [token : R!Tokens, st : {"asking", "ready", "failed"}]

RelayMaps == [map : [R!Tokens -> Nat], asked : Seq(Askings)]

\* One relay of a token that did not fail; the map has it, unless the token was renewed.
Mapping(now, map, made) ==
  /\ \A r \in 1 .. Len(made) : made[r].token <= now
  /\ \A r \in 1 .. Len(made) : made[r].st # "failed" => made[r].token < now \/ map[made[r].token] = r
  /\ \A r, q \in 1 .. Len(made) : made[r].st # "failed" /\ made[q].st # "failed" /\ made[r].token = made[q].token => r = q
  /\ \A t \in R!Tokens : map[t] # 0 => map[t] \in 1 .. Len(made) /\ made[map[t]].token = t /\ made[map[t]].st # "failed"

MapInv == token \in R!Tokens /\ relays \in RelayMaps /\ Mapping(token, relays.map, relays.asked)

Attempts == [svc : Services, st : {"load", "relay", "ready", "failed"}, relay : Nat]

ServiceRecords ==
  [client : Nat, closed : BOOLEAN, ice : Int, asking : BOOLEAN, asked : Int, overtaken : BOOLEAN]

\* A service has no client that failed.
Having(svs, cls) ==
  \A s \in Services : svs[s].client # 0 => svs[s].client \in 1 .. Len(cls) /\ cls[svs[s].client].st # "failed"

ClientInv ==
  service \in [Services -> ServiceRecords] /\ clients \in Seq(Attempts) /\ Having(service, clients)

CallRecords ==
  [st : {"none", "client", "connecting", "open", "over"}, kind : {"none", "fetch", "stream"},
   svc : Services \cup {"none"}, began : Nat, port : Nat, client : Nat]

\* A call that is under way is of some service, and one that is open is of one that is not closed.
Calling(c, svs) ==
  /\ c \in CallRecords
  /\ c.st \in {"client", "connecting", "open"} => c.svc \in Services
  /\ c.st = "open" => ~ svs[c.svc].closed
  /\ c.port = IF c.st = "over" THEN 1 ELSE 0

CallInv == DOMAIN calls = R!Calls /\ \A c \in R!Calls : Calling(calls[c], service)

RelayInv == MapInv /\ ClientInv /\ CallInv

LEMMA RelayStarts ==
  ASSUME R!Init PROVE RelayInv
  <1>1. /\ token = 0 /\ 0 \in R!Tokens
        /\ relays.map = [t \in R!Tokens |-> 0] /\ relays.asked = <<>> /\ clients = <<>>
        /\ relays = [map |-> [t \in R!Tokens |-> 0], asked |-> <<>>]
        /\ service = [s \in Services |-> [client |-> 0, closed |-> FALSE, ice |-> -1, asking |-> FALSE,
                                          asked |-> 0, overtaken |-> FALSE]]
        /\ calls = [c \in R!Calls |-> R!NoCall]
    BY NetworkAssumption DEF R!Init, R!Tokens, R!None
  <1>2. MapInv
    <2>1. relays \in RelayMaps
      BY <1>1 DEF RelayMaps
    <2>2. Mapping(token, relays.map, relays.asked)
      BY <1>1 DEF Mapping
    <2> QED BY <1>1, <2>1, <2>2 DEF MapInv
  <1>3. ClientInv
    BY <1>1 DEF ClientInv, Having, ServiceRecords
  <1>4. CallInv
    <2>1. Calling(R!NoCall, service)
      BY DEF Calling, CallRecords, R!NoCall, R!None
    <2> QED BY <1>1, <2>1 DEF CallInv
  <1> QED BY <1>2, <1>3, <1>4 DEF RelayInv

LEMMA RelayUnchanged ==
  ASSUME RelayInv, UNCHANGED <<token, relays, clients, service, calls>> PROVE RelayInv'
  BY DEF RelayInv, MapInv, ClientInv, CallInv

\* Who has asked for a relay, by the number of it.
LEMMA AskedIs ==
  ASSUME NEW made \in Seq(Askings)
  PROVE  /\ Len(made) \in Nat
         /\ \A q \in 1 .. Len(made) : /\ made[q] \in Askings /\ made[q].token \in R!Tokens /\ made[q].token \in Nat
                                     /\ q # 0 /\ q \in Nat
  <1>1. \A q \in 1 .. Len(made) : made[q] \in Askings
    BY ElementOfSeq
  <1>2. \A q \in 1 .. Len(made) : made[q].token \in R!Tokens
    BY <1>1 DEF Askings
  <1> QED BY <1>1, <1>2, LenProperties DEF R!Tokens

\* An answer to whoever asked.
Answer(made, r, w) == [made EXCEPT ![r] = w]

OthersStay(a, made, r) ==
  \A q \in 1 .. Len(made) : a[q].token = made[q].token /\ (q # r => a[q] = made[q])

LEMMA AnswerIs ==
  ASSUME NEW made \in Seq(Askings), NEW r \in 1 .. Len(made), NEW w \in Askings, w.token = made[r].token
  PROVE  /\ Answer(made, r, w) \in Seq(Askings) /\ Len(Answer(made, r, w)) = Len(made)
         /\ Answer(made, r, w)[r] = w
         /\ OthersStay(Answer(made, r, w), made, r)
  <1> DEFINE a == [made EXCEPT ![r] = w]
  <1>1. /\ a \in Seq(Askings) /\ Len(a) = Len(made) /\ \A q \in 1 .. Len(made) : a[q] = IF q = r THEN w ELSE made[q]
    BY ONLY made \in Seq(Askings), r \in 1 .. Len(made), w \in Askings, ExceptSeq DEF a
  <1> HIDE DEF a
  <1>2. OthersStay(a, made, r)
    BY <1>1 DEF OthersStay
  <1>3. a[r] = w
    BY <1>1
  <1> QED BY <1>1, <1>2, <1>3 DEF a, Answer

LEMMA MapAnswers ==
  ASSUME MapInv, NEW r \in 1 .. Len(relays.asked), R!RelayAnswers(r) PROVE MapInv'
  <1> DEFINE w == [relays.asked[r] EXCEPT !.st = "ready"]
             a == Answer(relays.asked, r, w)
  <1>1. /\ relays.asked \in Seq(Askings) /\ relays.map \in [R!Tokens -> Nat] /\ relays \in RelayMaps
        /\ Mapping(token, relays.map, relays.asked) /\ token \in R!Tokens
    BY DEF MapInv, RelayMaps
  <1>2. relays.asked[r].st = "asking" /\ token' = token /\ relays' = [relays EXCEPT !.asked = a]
    BY <1>1 DEF R!RelayAnswers, RelayMaps, Answer
  <1>3. /\ a \in Seq(Askings) /\ Len(a) = Len(relays.asked) /\ a[r].st = "ready"
        /\ \A q \in 1 .. Len(relays.asked) : a[q].token = relays.asked[q].token /\ (q # r => a[q] = relays.asked[q])
    <2>1. relays.asked[r] \in Askings
      BY <1>1, ElementOfSeq
    <2>2. w \in Askings /\ w.token = relays.asked[r].token /\ w.st = "ready"
      BY <2>1 DEF Askings
    <2> HIDE DEF w
    <2>3. a \in Seq(Askings) /\ Len(a) = Len(relays.asked) /\ a[r] = w /\ OthersStay(a, relays.asked, r)
      BY <1>1, <2>2, AnswerIs
    <2> QED BY <2>2, <2>3 DEF OthersStay
  <1> HIDE DEF a
  <1>4. relays' \in RelayMaps /\ relays'.asked = a /\ relays'.map = relays.map
    BY <1>1, <1>2, <1>3 DEF RelayMaps
  <1>5. \A q \in 1 .. Len(relays.asked) : a[q].st = "failed" <=> relays.asked[q].st = "failed"
    BY <1>2, <1>3
  <1>6. Mapping(token, relays.map, a)
    BY <1>1, <1>3, <1>5 DEF Mapping
  <1> QED BY <1>1, <1>2, <1>4, <1>6 DEF MapInv

LEMMA MapFails ==
  ASSUME MapInv, NEW r \in 1 .. Len(relays.asked), relays.asked[r].st = "asking", token' = token,
         relays' = [asked |-> [relays.asked EXCEPT ![r].st = "failed"],
                    map |-> R!Unmapped(relays.map, relays.asked[r].token)]
  PROVE  MapInv'
  <1> DEFINE w == [relays.asked[r] EXCEPT !.st = "failed"]
             a == Answer(relays.asked, r, w)
             t == relays.asked[r].token
             m == [relays.map EXCEPT ![t] = 0]
  <1>1. /\ relays.asked \in Seq(Askings) /\ relays.map \in [R!Tokens -> Nat]
        /\ Mapping(token, relays.map, relays.asked) /\ token \in R!Tokens
    BY DEF MapInv, RelayMaps
  <1>2. t \in R!Tokens
    BY <1>1, AskedIs
  <1>3. /\ a \in Seq(Askings) /\ Len(a) = Len(relays.asked) /\ a[r].st = "failed"
        /\ \A q \in 1 .. Len(relays.asked) : a[q].token = relays.asked[q].token /\ (q # r => a[q] = relays.asked[q])
    <2>1. relays.asked[r] \in Askings
      BY <1>1, ElementOfSeq
    <2>2. w \in Askings /\ w.token = relays.asked[r].token /\ w.st = "failed"
      BY <2>1 DEF Askings
    <2> HIDE DEF w
    <2>3. a \in Seq(Askings) /\ Len(a) = Len(relays.asked) /\ a[r] = w /\ OthersStay(a, relays.asked, r)
      BY <1>1, <2>2, AnswerIs
    <2> QED BY <2>2, <2>3 DEF OthersStay
  <1>4. relays'.asked = a /\ relays'.map = m /\ relays' = [asked |-> a, map |-> m]
    BY DEF R!Unmapped, R!None, Answer
  <1> HIDE DEF a
  <1>5. /\ m \in [R!Tokens -> Nat] /\ m[t] = 0 /\ \A u \in R!Tokens : u # t => m[u] = relays.map[u]
    BY <1>1, <1>2
  <1> HIDE DEF m
  <1>6. \A q \in 1 .. Len(relays.asked) : a[q].st # "failed" =>
          relays.asked[q].st # "failed" /\ q # r /\ relays.asked[q].token # t /\ relays.asked[q].token \in R!Tokens
    BY <1>1, <1>3, AskedIs DEF Mapping
  <1> HIDE DEF t
  <1>7. \A q \in 1 .. Len(a) : a[q].token <= token
    BY <1>1, <1>3 DEF Mapping
  <1>8. \A q \in 1 .. Len(a) : a[q].st # "failed" => a[q].token < token \/ m[a[q].token] = q
    BY <1>1, <1>3, <1>5, <1>6 DEF Mapping
  <1>9. \A q, o \in 1 .. Len(a) : a[q].st # "failed" /\ a[o].st # "failed" /\ a[q].token = a[o].token => q = o
    BY <1>1, <1>3, <1>6 DEF Mapping
  <1>10. \A u \in R!Tokens : m[u] # 0 => m[u] \in 1 .. Len(a) /\ a[m[u]].token = u /\ a[m[u]].st # "failed"
    <2> SUFFICES ASSUME NEW u \in R!Tokens, m[u] # 0
                 PROVE  m[u] \in 1 .. Len(a) /\ a[m[u]].token = u /\ a[m[u]].st # "failed"
      OBVIOUS
    <2>1. u # t /\ m[u] = relays.map[u]
      BY <1>5
    <2>2. /\ m[u] \in 1 .. Len(relays.asked) /\ relays.asked[m[u]].token = u /\ relays.asked[m[u]].st # "failed"
      BY <1>1, <2>1 DEF Mapping
    <2>3. m[u] # r
      BY <2>1, <2>2 DEF t
    <2> QED BY <1>3, <2>2, <2>3
  <1>11. Mapping(token, m, a)
    BY <1>7, <1>8, <1>9, <1>10 DEF Mapping
  <1>12. relays' \in RelayMaps
    BY <1>3, <1>4, <1>5 DEF RelayMaps
  <1> QED BY <1>1, <1>4, <1>11, <1>12 DEF MapInv

LEMMA MapTakes ==
  ASSUME MapInv, NEW a \in 1 .. Len(clients), R!TakesRelay(a) PROVE MapInv'
  <1> DEFINE one == [token |-> token, st |-> "asking"]
             n == Len(relays.asked) + 1
             m == [relays.map EXCEPT ![token] = n]
             made == Append(relays.asked, one)
  <1>1. /\ relays.asked \in Seq(Askings) /\ relays.map \in [R!Tokens -> Nat]
        /\ Mapping(token, relays.map, relays.asked) /\ token \in R!Tokens /\ token' = token
    BY DEF MapInv, RelayMaps, R!TakesRelay
  <1>2. CASE relays.map[token] # 0
    BY <1>1, <1>2 DEF R!TakesRelay, R!None, MapInv
  <1>3. CASE relays.map[token] = 0
    <2>1. relays' = [map |-> m, asked |-> made]
      BY <1>3 DEF R!TakesRelay, R!None, R!Mapped
    <2>2. one \in Askings /\ one.token = token /\ one.st = "asking" /\ n \in Nat /\ n # 0
      BY <1>1 DEF Askings
    <2> HIDE DEF one
    <2>3. /\ made \in Seq(Askings) /\ Len(made) = n /\ made[n] = one
          /\ \A q \in 1 .. Len(relays.asked) : made[q] = relays.asked[q]
          /\ \A q \in 1 .. Len(made) : q \in 1 .. Len(relays.asked) \/ q = n
          /\ \A q \in 1 .. Len(relays.asked) : q \in 1 .. Len(made)
          /\ n \in 1 .. Len(made)
      <3>1. Len(relays.asked) \in Nat
        BY <1>1, LenProperties
      <3>2. /\ made \in Seq(Askings) /\ Len(made) = n /\ made[n] = one
            /\ \A q \in 1 .. Len(relays.asked) : made[q] = relays.asked[q]
        BY <1>1, <2>2, AppendProperties
      <3> HIDE DEF made
      <3> QED BY <3>1, <3>2
    <2> HIDE DEF n, made
    <2>4. m \in [R!Tokens -> Nat] /\ m[token] = n /\ \A u \in R!Tokens : u # token => m[u] = relays.map[u]
      BY <1>1, <2>2
    <2> HIDE DEF m
    <2>5. \A q \in 1 .. Len(relays.asked) :
            /\ relays.asked[q].token \in R!Tokens /\ relays.asked[q].token <= token
            /\ relays.asked[q].st # "failed" => relays.asked[q].token < token
      <3>1. \A q \in 1 .. Len(relays.asked) : q # 0 /\ relays.asked[q].token \in R!Tokens
        BY <1>1, AskedIs
      <3>2. \A q \in 1 .. Len(relays.asked) :
              /\ relays.asked[q].token <= token
              /\ relays.asked[q].st # "failed" =>
                   relays.asked[q].token < token \/ relays.map[relays.asked[q].token] = q
        BY <1>1 DEF Mapping
      <3>3. \A q \in 1 .. Len(relays.asked) : relays.asked[q].token \in Nat /\ token \in Nat
        BY <1>1, AskedIs DEF R!Tokens
      <3>4. \A q \in 1 .. Len(relays.asked) :
              relays.asked[q].st # "failed" /\ ~ relays.asked[q].token < token => relays.asked[q].token = token
        BY <3>2, <3>3
      <3> QED BY <1>3, <3>1, <3>2, <3>4
    <2>6. token \in Nat
      BY <1>1 DEF R!Tokens
    <2>7. \A q \in 1 .. Len(relays.asked) : relays.asked[q].st # "failed" => relays.asked[q].token # token
      BY <2>5, <2>6 DEF R!Tokens
    <2>8. \A q \in 1 .. Len(made) : made[q].token <= token
      BY <2>2, <2>3, <2>5, <2>6
    <2>9. \A q \in 1 .. Len(made) : made[q].st # "failed" => made[q].token < token \/ m[made[q].token] = q
      BY <2>2, <2>3, <2>4, <2>5
    <2>10. \A q, o \in 1 .. Len(made) : made[q].st # "failed" /\ made[o].st # "failed" /\ made[q].token = made[o].token => q = o
      BY <1>1, <2>2, <2>3, <2>7 DEF Mapping
    <2>11. \A u \in R!Tokens : m[u] # 0 => m[u] \in 1 .. Len(made) /\ made[m[u]].token = u /\ made[m[u]].st # "failed"
      BY <1>1, <2>2, <2>3, <2>4 DEF Mapping
    <2>12. Mapping(token, m, made)
      BY <2>8, <2>9, <2>10, <2>11 DEF Mapping
    <2>13. relays' \in RelayMaps /\ relays'.map = m /\ relays'.asked = made
      BY <2>1, <2>3, <2>4 DEF RelayMaps
    <2> QED BY <1>1, <2>12, <2>13 DEF MapInv
  <1> QED BY <1>2, <1>3

LEMMA MapRenews ==
  ASSUME MapInv, R!Renew PROVE MapInv'
  <1>1. /\ relays \in RelayMaps /\ relays.asked \in Seq(Askings) /\ relays.map \in [R!Tokens -> Nat]
        /\ Mapping(token, relays.map, relays.asked) /\ token \in R!Tokens /\ token \in Nat
    BY DEF MapInv, RelayMaps, R!Tokens
  <1>2. token' = token + 1 /\ token' \in R!Tokens
    <2>1. MaxRenewals \in Nat
      BY NetworkAssumption
    <2>2. token < MaxRenewals /\ token' = token + 1
      BY DEF R!Renew
    <2> QED BY <1>1, <2>1, <2>2 DEF R!Tokens
  <1>3. PICK v : v \in {0, relays.map[token]} /\ relays' = [relays EXCEPT !.map[token] = v]
    BY DEF R!Renew, R!None
  <1> DEFINE m == [relays.map EXCEPT ![token] = v]
  <1>4. relays' = [relays EXCEPT !.map = m]
    BY <1>1, <1>3 DEF RelayMaps
  <1>5. m \in [R!Tokens -> Nat] /\ \A u \in R!Tokens : m[u] # 0 => m[u] = relays.map[u]
    BY <1>1, <1>3
  <1> HIDE DEF m
  <1>6. relays' \in RelayMaps /\ relays'.map = m /\ relays'.asked = relays.asked
    BY <1>1, <1>4, <1>5 DEF RelayMaps
  <1>7. \A q \in 1 .. Len(relays.asked) : relays.asked[q].token \in Nat /\ relays.asked[q].token <= token
    BY <1>1, AskedIs DEF Mapping
  <1>8. Mapping(token + 1, m, relays.asked)
    BY <1>1, <1>5, <1>7 DEF Mapping
  <1> QED BY <1>2, <1>6, <1>8 DEF MapInv

\* A call that is over has let go of whatever it held.
LEMMA OverIs ==
  ASSUME NEW c \in R!Calls, NEW svs, Calling(calls[c], service), calls[c].st # "over"
  PROVE  Calling(R!Over(c), svs)
  <1>1. calls[c].port = 0
    BY DEF Calling
  <1>2. /\ R!Over(c) \in CallRecords /\ R!Over(c).st = "over" /\ R!Over(c).port = 1
    <2> DEFINE n == calls[c].port + 1
    <2>1. n = 1
      BY <1>1
    <2>2. R!Over(c) = [R!NoCall EXCEPT !.st = "over", !.port = n]
      BY DEF R!Over
    <2>3. R!NoCall \in CallRecords
      BY DEF R!NoCall, R!None, CallRecords
    <2> HIDE DEF n
    <2>4. R!Over(c) = [R!NoCall EXCEPT !.st = "over", !.port = 1]
      BY <2>1, <2>2
    <2> DEFINE o == [R!NoCall EXCEPT !.st = "over", !.port = 1]
    <2>5. o \in CallRecords
      BY <2>3 DEF CallRecords
    <2>6. o.st = "over" /\ o.port = 1
      BY DEF R!NoCall
    <2> HIDE DEF o
    <2>7. R!Over(c) = o
      BY <2>4 DEF o
    <2> QED BY <2>5, <2>6, <2>7
  <1> QED BY <1>2 DEF Calling

\* A service that is no more closed than it was.
SameClosed(before, after) == \A s \in Services : after[s].closed = before[s].closed

LEMMA CallStays ==
  ASSUME NEW c, Calling(c, service), SameClosed(service, service') PROVE Calling(c, service')
  BY DEF Calling, SameClosed

LEMMA CallsStay ==
  ASSUME CallInv, calls' = calls, SameClosed(service, service') PROVE CallInv'
  BY CallStays DEF CallInv

LEMMA CallMoves ==
  ASSUME CallInv, NEW c \in R!Calls, NEW v, Calling(v, service'), calls' = [calls EXCEPT ![c] = v],
         SameClosed(service, service')
  PROVE  CallInv'
  <1>1. DOMAIN calls' = R!Calls /\ calls'[c] = v /\ \A o \in R!Calls : o # c => calls'[o] = calls[o]
    BY DEF CallInv
  <1>2. \A o \in R!Calls : o # c => Calling(calls'[o], service')
    BY <1>1, CallStays DEF CallInv
  <1> QED BY <1>1, <1>2 DEF CallInv

\* The services look after their clients alone.
SameClient(before, after) == \A s \in Services : after[s].client = before[s].client

LEMMA ClientsStay ==
  ASSUME ClientInv, clients' = clients, service' \in [Services -> ServiceRecords], SameClient(service, service')
  PROVE  ClientInv'
  BY DEF ClientInv, Having, SameClient

LEMMA ClientMoves ==
  ASSUME ClientInv, NEW a \in 1 .. Len(clients), NEW w \in Attempts, w.st # "failed",
         clients' = [clients EXCEPT ![a] = w], service' = service
  PROVE  ClientInv'
  <1>1. clients \in Seq(Attempts)
    BY DEF ClientInv
  <1>2. /\ clients' \in Seq(Attempts) /\ Len(clients') = Len(clients)
        /\ \A b \in 1 .. Len(clients) : clients'[b] = IF b = a THEN w ELSE clients[b]
    BY <1>1, ExceptSeq
  <1> QED BY <1>2 DEF ClientInv, Having

LEMMA RelayFailed ==
  ASSUME ClientInv, CallInv, NEW bad, R!Failed(bad) PROVE ClientInv' /\ CallInv'
  <1>1. /\ clients \in Seq(Attempts) /\ service \in [Services -> ServiceRecords] /\ Len(clients) \in Nat
        /\ \A b \in 1 .. Len(clients) : clients[b] \in Attempts
    BY ElementOfSeq, LenProperties DEF ClientInv
  <1>2. /\ clients' = [b \in 1 .. Len(clients) |-> IF b \in bad THEN [clients[b] EXCEPT !.st = "failed"] ELSE clients[b]]
        /\ service' = [s \in Services |-> IF service[s].client \in bad THEN [service[s] EXCEPT !.client = 0] ELSE service[s]]
        /\ calls' = [c \in R!Calls |-> IF calls[c].st = "client" /\ calls[c].client \in bad
                                      THEN R!Over(c) ELSE calls[c]]
    BY DEF R!Failed, R!None
  <1>3. clients' \in Seq(Attempts) /\ Len(clients') = Len(clients)
    <2>1. \A b \in 1 .. Len(clients) : clients'[b] \in Attempts
      <3> SUFFICES ASSUME NEW b \in 1 .. Len(clients) PROVE clients'[b] \in Attempts
        OBVIOUS
      <3>1. CASE b \in bad
        BY <1>1, <1>2, <3>1 DEF Attempts
      <3>2. CASE b \notin bad
        BY <1>1, <1>2, <3>2
      <3> QED BY <3>1, <3>2
    <2>2. clients' \in [1 .. Len(clients) -> Attempts]
      BY <1>2, <2>1
    <2> QED BY <1>1, <2>2, SeqDef
  <1>4. /\ service' \in [Services -> ServiceRecords] /\ SameClosed(service, service')
        /\ \A s \in Services : service'[s].client # 0 => service'[s].client = service[s].client /\ service[s].client \notin bad
    <2>1. ASSUME NEW s \in Services
          PROVE  /\ service'[s] \in ServiceRecords /\ service'[s].closed = service[s].closed
                 /\ service'[s].client # 0 => service'[s].client = service[s].client /\ service[s].client \notin bad
      <3>0. service[s] \in ServiceRecords
        BY <1>1
      <3>1. CASE service[s].client \in bad
        BY <1>2, <3>0, <3>1 DEF ServiceRecords
      <3>2. CASE service[s].client \notin bad
        BY <1>2, <3>0, <3>2
      <3> QED BY <3>1, <3>2
    <2>2. service' \in [Services -> ServiceRecords]
      BY <1>2, <2>1
    <2> QED BY <2>1, <2>2 DEF SameClosed
  <1>5. \A b \in 1 .. Len(clients) : b \notin bad => clients'[b] = clients[b]
    BY <1>2
  <1>6. ClientInv'
    BY <1>3, <1>4, <1>5 DEF ClientInv, Having
  <1>7. CallInv'
    <2>1. ASSUME NEW c \in R!Calls PROVE Calling(calls'[c], service')
      <3>1. Calling(calls[c], service)
        BY DEF CallInv
      <3>2. CASE calls[c].st = "client" /\ calls[c].client \in bad
        BY <1>2, <3>1, <3>2, OverIs
      <3>3. CASE ~ (calls[c].st = "client" /\ calls[c].client \in bad)
        BY <1>2, <1>4, <3>1, <3>3, CallStays
      <3> QED BY <3>2, <3>3
    <2> QED BY <1>2, <2>1 DEF CallInv
  <1> QED BY <1>6, <1>7

LEMMA RelayBegins ==
  ASSUME RelayInv, NEW c \in R!Calls, NEW s \in Services, NEW kind \in {"fetch", "stream"}, R!Begin(c, s, kind)
  PROVE  ClientInv' /\ CallInv'
  <1> DEFINE fresh == Len(clients) + 1
             memo == service[s].client
             v == [st |-> "client", kind |-> kind, svc |-> s, began |-> token, port |-> 0,
                   client |-> IF memo = 0 THEN fresh ELSE memo]
  <1>1. /\ clients \in Seq(Attempts) /\ service \in [Services -> ServiceRecords] /\ Len(clients) \in Nat
        /\ Having(service, clients) /\ service[s] \in ServiceRecords /\ memo \in Nat /\ token \in Nat
    BY LenProperties DEF RelayInv, ClientInv, MapInv, ServiceRecords, R!Tokens
  <1>2. calls' = [calls EXCEPT ![c] = v]
    BY DEF R!Begin, R!None
  <1>3. Calling(v, service')
    <2>1. v \in CallRecords
      BY <1>1 DEF CallRecords
    <2> QED BY <2>1 DEF Calling
  <1> HIDE DEF v
  <1>4. CASE memo = 0
    <2> DEFINE one == [svc |-> s, st |-> "load", relay |-> 0]
               w == [service[s] EXCEPT !.client = fresh]
    <2>1. clients' = Append(clients, one) /\ service' = [service EXCEPT ![s] = w]
      BY <1>4 DEF R!Begin, R!None
    <2>2. one \in Attempts /\ one.st = "load"
      BY DEF Attempts
    <2>3. w \in ServiceRecords /\ w.client = fresh /\ w.closed = service[s].closed
      <3>1. fresh \in Nat
        BY <1>1
      <3> HIDE DEF fresh, memo
      <3> QED BY <1>1, <3>1 DEF ServiceRecords
    <2> HIDE DEF one, w
    <2>4. /\ clients' \in Seq(Attempts) /\ Len(clients') = fresh /\ clients'[fresh] = one
          /\ \A b \in 1 .. Len(clients) : clients'[b] = clients[b]
      BY <1>1, <2>1, <2>2, AppendProperties
    <2>5. /\ service' \in [Services -> ServiceRecords] /\ service'[s] = w
          /\ \A o \in Services : o # s => service'[o] = service[o]
      BY <1>1, <2>1, <2>3
    <2>6. fresh \in 1 .. Len(clients') /\ \A b \in 1 .. Len(clients) : b \in 1 .. Len(clients')
      BY <1>1, <2>4
    <2> HIDE DEF fresh
    <2>7. Having(service', clients')
      <3> SUFFICES ASSUME NEW o \in Services, service'[o].client # 0
                   PROVE  service'[o].client \in 1 .. Len(clients') /\ clients'[service'[o].client].st # "failed"
        BY DEF Having
      <3>1. CASE o = s
        BY <2>2, <2>3, <2>4, <2>5, <2>6, <3>1
      <3>2. CASE o # s
        BY <1>1, <2>4, <2>5, <2>6, <3>2 DEF Having
      <3> QED BY <3>1, <3>2
    <2>8. SameClosed(service, service')
      BY <2>3, <2>5 DEF SameClosed
    <2>9. ClientInv'
      BY <2>4, <2>5, <2>7 DEF ClientInv
    <2> QED BY <1>2, <1>3, <2>8, <2>9, CallMoves DEF RelayInv
  <1>5. CASE memo # 0
    <2>1. clients' = clients /\ service' = service
      BY <1>5 DEF R!Begin, R!None
    <2>2. SameClosed(service, service') /\ SameClient(service, service')
      BY <2>1 DEF SameClosed, SameClient
    <2>3. ClientInv'
      BY <1>1, <2>1, <2>2, ClientsStay DEF RelayInv
    <2> QED BY <1>2, <1>3, <2>2, <2>3, CallMoves DEF RelayInv
  <1> QED BY <1>4, <1>5

LEMMA RelayRenews ==
  ASSUME RelayInv, R!Renew PROVE ClientInv' /\ CallInv'
  <1>1. /\ clients \in Seq(Attempts) /\ service \in [Services -> ServiceRecords] /\ Having(service, clients)
        /\ clients' = clients /\ calls' = calls
    BY DEF RelayInv, ClientInv, R!Renew
  <1>2. service' = [s \in Services |-> [service[s] EXCEPT
            !.client = R!Forgotten(s), !.ice = IF service[s].closed THEN @ ELSE -1, !.overtaken = @ \/ service[s].asking]]
    BY DEF R!Renew
  <1>3. ASSUME NEW s \in Services
        PROVE  /\ service'[s] \in ServiceRecords /\ service'[s].closed = service[s].closed
               /\ service'[s].client # 0 => service'[s].client = service[s].client
    <2>1. service[s] \in ServiceRecords
      BY <1>1
    <2> DEFINE cl == R!Forgotten(s)
               ic == IF service[s].closed THEN service[s].ice ELSE -1
               ov == service[s].overtaken \/ service[s].asking
    <2>2. service'[s] = [service[s] EXCEPT !.client = cl, !.ice = ic, !.overtaken = ov]
      BY <1>2
    <2>3. cl \in Nat /\ (cl # 0 => cl = service[s].client)
      BY <2>1 DEF R!Forgotten, R!None, ServiceRecords
    <2>4. ic \in Int /\ ov \in BOOLEAN
      BY <2>1 DEF ServiceRecords
    <2> HIDE DEF cl, ic, ov
    <2> QED BY <2>1, <2>2, <2>3, <2>4 DEF ServiceRecords
  <1>4. service' \in [Services -> ServiceRecords]
    BY <1>2, <1>3
  <1>5. ClientInv'
    BY <1>1, <1>3, <1>4 DEF ClientInv, Having
  <1>6. SameClosed(service, service')
    BY <1>3 DEF SameClosed
  <1> QED BY <1>1, <1>5, <1>6, CallsStay DEF RelayInv

LEMMA RelayCloses ==
  ASSUME RelayInv, NEW s \in Services, R!Close(s) PROVE ClientInv' /\ CallInv'
  <1> DEFINE w == [service[s] EXCEPT !.closed = TRUE]
  <1>1. /\ service \in [Services -> ServiceRecords] /\ service[s] \in ServiceRecords /\ clients' = clients
        /\ service' = [service EXCEPT ![s] = w]
    BY DEF RelayInv, ClientInv, R!Close
  <1>2. w \in ServiceRecords /\ w.client = service[s].client
    BY <1>1 DEF ServiceRecords
  <1> HIDE DEF w
  <1>3. /\ service' \in [Services -> ServiceRecords] /\ SameClient(service, service')
        /\ \A o \in Services : o # s => service'[o] = service[o]
    BY <1>1, <1>2 DEF SameClient
  <1>4. ClientInv'
    BY <1>1, <1>3, ClientsStay DEF RelayInv
  <1>5. DOMAIN calls' = R!Calls
    BY DEF R!Close
  <1>6. ASSUME NEW c \in R!Calls PROVE Calling(calls'[c], service')
    <2>1. Calling(calls[c], service)
      BY DEF RelayInv, CallInv
    <2>2. \/ calls'[c] = R!Over(c) /\ calls[c].st # "over"
          \/ calls'[c] = calls[c] /\ (calls[c].svc # s \/ calls[c].st # "open")
      <3> DEFINE sts == {"open"} \cup (IF calls[c].kind = "fetch" THEN {"client", "connecting"} ELSE {})
      <3>1. calls'[c] = IF calls[c].svc = s /\ calls[c].st \in sts THEN R!Over(c) ELSE calls[c]
        BY DEF R!Close
      <3>2. "open" \in sts /\ "over" \notin sts
        OBVIOUS
      <3> HIDE DEF sts
      <3> QED BY <3>1, <3>2
    <2>3. CASE calls'[c] = R!Over(c) /\ calls[c].st # "over"
      BY <2>1, <2>3, OverIs
    <2>4. CASE calls'[c] = calls[c] /\ (calls[c].svc # s \/ calls[c].st # "open")
      BY <1>3, <2>1, <2>4 DEF Calling
    <2> QED BY <2>2, <2>3, <2>4
  <1> QED BY <1>4, <1>5, <1>6 DEF CallInv

\* The steps of a call
LEMMA RelayCalls ==
  ASSUME RelayInv, NEW c \in R!Calls,
         R!Connects(c) \/ R!Opened(c) \/ R!OpenFails(c) \/ R!Ended(c) \/ R!Abort(c)
  PROVE  ClientInv' /\ CallInv'
  <1>1. clients' = clients /\ service' = service
    BY DEF R!Connects, R!Opened, R!OpenFails, R!Ended, R!Abort
  <1>2. SameClosed(service, service') /\ SameClient(service, service')
    BY <1>1 DEF SameClosed, SameClient
  <1>3. ClientInv'
    BY <1>1, <1>2, ClientsStay DEF RelayInv, ClientInv
  <1>4. Calling(calls[c], service) /\ calls[c] \in CallRecords
    BY DEF RelayInv, CallInv, Calling
  <1>5. CASE calls' = [calls EXCEPT ![c] = R!Over(c)] /\ calls[c].st # "over"
    <2>1. Calling(R!Over(c), service')
      BY <1>4, <1>5, OverIs
    <2> QED BY <1>2, <1>3, <1>5, <2>1, CallMoves DEF RelayInv
  <1>6. CASE /\ calls' = [calls EXCEPT ![c] = [calls[c] EXCEPT !.st = "connecting"]]
             /\ calls[c].st = "client"
    <2> DEFINE v == [calls[c] EXCEPT !.st = "connecting"]
    <2>1. v \in CallRecords /\ v.st = "connecting" /\ v.svc = calls[c].svc /\ v.port = calls[c].port
      BY <1>4 DEF CallRecords
    <2>2. calls' = [calls EXCEPT ![c] = v]
      BY <1>6
    <2> HIDE DEF v
    <2>3. Calling(v, service')
      BY <1>4, <1>6, <2>1 DEF Calling
    <2> QED BY <1>2, <1>3, <2>2, <2>3, CallMoves DEF RelayInv
  <1>7. CASE /\ calls' = [calls EXCEPT ![c] = [calls[c] EXCEPT !.st = "open"]]
             /\ calls[c].st = "connecting" /\ ~ service[calls[c].svc].closed
    <2> DEFINE v == [calls[c] EXCEPT !.st = "open"]
    <2>1. v \in CallRecords /\ v.st = "open" /\ v.svc = calls[c].svc /\ v.port = calls[c].port
      BY <1>4 DEF CallRecords
    <2>2. calls' = [calls EXCEPT ![c] = v]
      BY <1>7
    <2> HIDE DEF v
    <2>3. Calling(v, service')
      BY <1>1, <1>4, <1>7, <2>1 DEF Calling
    <2> QED BY <1>2, <1>3, <2>2, <2>3, CallMoves DEF RelayInv
  <1>8. CASE R!Connects(c)
    <2>1. calls[c].st = "client"
      BY <1>8 DEF R!Connects
    <2>2. CASE service[calls[c].svc].closed
      BY <1>5, <1>8, <2>1, <2>2, <1>3 DEF R!Connects
    <2>3. CASE ~ service[calls[c].svc].closed
      BY <1>6, <1>8, <2>1, <2>3, <1>3 DEF R!Connects
    <2> QED BY <2>2, <2>3
  <1>9. CASE R!Opened(c)
    <2>1. calls[c].st = "connecting"
      BY <1>9 DEF R!Opened
    <2>2. CASE service[calls[c].svc].closed
      BY <1>5, <1>9, <2>1, <2>2, <1>3 DEF R!Opened, R!Opens
    <2>3. CASE ~ service[calls[c].svc].closed
      BY <1>7, <1>9, <2>1, <2>3, <1>3 DEF R!Opened, R!Opens
    <2> QED BY <2>2, <2>3
  <1>10. CASE R!OpenFails(c) \/ R!Ended(c) \/ R!Abort(c)
    <2>1. calls' = [calls EXCEPT ![c] = R!Over(c)] /\ calls[c].st # "over"
      BY <1>10 DEF R!OpenFails, R!Ended, R!Abort
    <2> QED BY <1>3, <1>5, <2>1
  <1> QED BY <1>8, <1>9, <1>10

\* Servers for peers say nothing of clients and calls.
LEMMA RelayIce ==
  ASSUME RelayInv, NEW s \in Services, R!AsksIce(s) \/ R!IceAnswers(s) \/ R!IceExpires(s)
  PROVE  ClientInv' /\ CallInv'
  <1>1. /\ service \in [Services -> ServiceRecords] /\ service[s] \in ServiceRecords /\ token \in Int
    BY DEF RelayInv, ClientInv, MapInv, R!Tokens
  <1>2. PICK w : /\ service' = [service EXCEPT ![s] = w]
                 /\ \/ w = [service[s] EXCEPT !.asking = TRUE, !.asked = token, !.overtaken = FALSE]
                    \/ w = [service[s] EXCEPT !.asking = FALSE, !.ice = service[s].asked]
                    \/ w = [service[s] EXCEPT !.ice = -1]
    <2>1. CASE R!AsksIce(s)
      <3>1. service' = [service EXCEPT ![s].asking = TRUE, ![s].asked = token, ![s].overtaken = FALSE]
        BY <2>1 DEF R!AsksIce
      <3>2. service' = [service EXCEPT ![s] = [service[s] EXCEPT !.asking = TRUE, !.asked = token, !.overtaken = FALSE]]
        BY <3>1
      <3> QED BY <3>2
    <2>2. CASE R!IceAnswers(s)
      <3>1. service' = [service EXCEPT ![s].asking = FALSE, ![s].ice = service[s].asked]
        BY <2>2 DEF R!IceAnswers
      <3>2. service' = [service EXCEPT ![s] = [service[s] EXCEPT !.asking = FALSE, !.ice = service[s].asked]]
        BY <3>1
      <3> QED BY <3>2
    <2>3. CASE R!IceExpires(s)
      BY <2>3 DEF R!IceExpires
    <2> QED BY <2>1, <2>2, <2>3
  <1>3. w \in ServiceRecords /\ w.client = service[s].client /\ w.closed = service[s].closed
    <2>1. CASE w = [service[s] EXCEPT !.asking = TRUE, !.asked = token, !.overtaken = FALSE]
      BY <1>1, <2>1 DEF ServiceRecords
    <2>2. CASE w = [service[s] EXCEPT !.asking = FALSE, !.ice = service[s].asked]
      BY <1>1, <2>2 DEF ServiceRecords
    <2>3. CASE w = [service[s] EXCEPT !.ice = -1]
      BY <1>1, <2>3 DEF ServiceRecords
    <2> QED BY <1>2, <2>1, <2>2, <2>3
  <1>4. /\ service' \in [Services -> ServiceRecords] /\ SameClient(service, service') /\ SameClosed(service, service')
    BY <1>1, <1>2, <1>3 DEF SameClient, SameClosed
  <1>5. clients' = clients /\ calls' = calls
    BY DEF R!AsksIce, R!IceAnswers, R!IceExpires
  <1> QED BY <1>4, <1>5, ClientsStay, CallsStay DEF RelayInv

\* The steps of an attempt
LEMMA RelayAttempts ==
  ASSUME RelayInv, NEW a \in 1 .. Len(clients), R!TakesRelay(a) \/ R!Built(a) PROVE ClientInv' /\ CallInv'
  <1>1. /\ clients \in Seq(Attempts) /\ clients[a] \in Attempts
        /\ relays.map[token] \in Nat /\ Len(relays.asked) \in Nat
    BY ElementOfSeq, LenProperties DEF RelayInv, ClientInv, MapInv, RelayMaps
  <1>2. service' = service /\ calls' = calls
    BY DEF R!TakesRelay, R!Built
  <1>3. PICK w : clients' = [clients EXCEPT ![a] = w] /\ w \in Attempts /\ w.st # "failed"
    <2>1. CASE R!TakesRelay(a)
      <3> DEFINE n == IF relays.map[token] = 0 THEN Len(relays.asked) + 1 ELSE relays.map[token]
                 w == [clients[a] EXCEPT !.st = "relay", !.relay = n]
      <3>1. clients' = [clients EXCEPT ![a].st = "relay", ![a].relay = n]
        BY <2>1 DEF R!TakesRelay, R!None
      <3>2. n \in Nat
        BY <1>1
      <3> HIDE DEF n
      <3>3. w \in Attempts /\ w.st # "failed"
        BY <1>1, <3>2 DEF Attempts
      <3>4. clients' = [clients EXCEPT ![a] = w]
        BY <1>1, <3>1, LenProperties
      <3> QED BY <3>3, <3>4
    <2>2. CASE R!Built(a)
      <3> DEFINE w == [clients[a] EXCEPT !.st = "ready"]
      <3>1. clients' = [clients EXCEPT ![a] = w]
        BY <2>2 DEF R!Built
      <3>2. w \in Attempts /\ w.st # "failed"
        BY <1>1 DEF Attempts
      <3> QED BY <3>1, <3>2
    <2> QED BY <2>1, <2>2
  <1>4. SameClosed(service, service')
    BY <1>2 DEF SameClosed
  <1> QED BY <1>2, <1>3, <1>4, ClientMoves, CallsStay DEF RelayInv

LEMMA RelayStep ==
  ASSUME RelayInv, R!Next PROVE RelayInv'
  <1>1. MapInv /\ ClientInv /\ CallInv
    BY DEF RelayInv
  <1>2. CASE R!Renew
    BY <1>1, <1>2, MapRenews, RelayRenews DEF RelayInv
  <1>3. CASE R!LoadAnswers
    BY <1>3, RelayUnchanged DEF R!LoadAnswers
  <1>4. CASE R!LoadFails
    <2>1. MapInv'
      BY <1>1, <1>4 DEF MapInv, R!LoadFails
    <2>2. ClientInv' /\ CallInv'
      BY <1>1, <1>4, RelayFailed DEF R!LoadFails
    <2> QED BY <2>1, <2>2 DEF RelayInv
  <1>5. ASSUME NEW a \in 1 .. Len(clients), R!TakesRelay(a) \/ R!Built(a) PROVE RelayInv'
    <2>1. MapInv'
      <3>1. CASE R!TakesRelay(a)
        BY <1>1, <3>1, MapTakes
      <3>2. CASE R!Built(a)
        BY <1>1, <3>2 DEF R!Built, MapInv
      <3> QED BY <1>5, <3>1, <3>2
    <2> QED BY <1>5, <2>1, RelayAttempts DEF RelayInv
  <1>6. ASSUME NEW r \in 1 .. Len(relays.asked), R!RelayAnswers(r) PROVE RelayInv'
    <2>1. UNCHANGED <<clients, service, calls>>
      BY <1>6 DEF R!RelayAnswers
    <2>2. ClientInv' /\ CallInv'
      BY <1>1, <2>1 DEF ClientInv, CallInv
    <2> QED BY <1>1, <1>6, <2>2, MapAnswers DEF RelayInv
  <1>7. ASSUME NEW r \in 1 .. Len(relays.asked), R!RelayFails(r) PROVE RelayInv'
    <2>1. MapInv'
      BY <1>1, <1>7, MapFails DEF R!RelayFails
    <2>2. ClientInv' /\ CallInv'
      BY <1>1, <1>7, RelayFailed DEF R!RelayFails
    <2> QED BY <2>1, <2>2 DEF RelayInv
  <1>8. ASSUME NEW c \in R!Calls, R!Connects(c) \/ R!Opened(c) \/ R!OpenFails(c) \/ R!Ended(c) \/ R!Abort(c)
        PROVE  RelayInv'
    <2>1. token' = token /\ relays' = relays
      BY <1>8 DEF R!Connects, R!Opened, R!OpenFails, R!Ended, R!Abort
    <2> QED BY <1>1, <1>8, <2>1, RelayCalls DEF RelayInv, MapInv
  <1>9. ASSUME NEW c \in R!Calls, NEW s \in Services, NEW kind \in {"fetch", "stream"}, R!Begin(c, s, kind)
        PROVE  RelayInv'
    <2>1. token' = token /\ relays' = relays
      BY <1>9 DEF R!Begin
    <2>2. ClientInv' /\ CallInv'
      BY <1>9, RelayBegins
    <2> QED BY <1>1, <2>1, <2>2 DEF RelayInv, MapInv
  <1>10. ASSUME NEW s \in Services, R!Close(s) PROVE RelayInv'
    <2>1. token' = token /\ relays' = relays
      BY <1>10 DEF R!Close
    <2> QED BY <1>1, <1>10, <2>1, RelayCloses DEF RelayInv, MapInv
  <1>11. ASSUME NEW s \in Services, R!AsksIce(s) \/ R!IceAnswers(s) \/ R!IceExpires(s) PROVE RelayInv'
    <2>1. token' = token /\ relays' = relays
      BY <1>11 DEF R!AsksIce, R!IceAnswers, R!IceExpires
    <2> QED BY <1>1, <1>11, <2>1, RelayIce DEF RelayInv, MapInv
  <1> QED BY <1>2, <1>3, <1>4, <1>5, <1>6, <1>7, <1>8, <1>9, <1>10, <1>11 DEF R!Next

LEMMA RelayHolds ==
  ASSUME RelayInv PROVE R!OneRelay /\ R!NothingHeld
  <1>1. Mapping(token, relays.map, relays.asked) /\ Having(service, clients)
    BY DEF RelayInv, MapInv, ClientInv
  <1>2. ASSUME NEW t \in R!Tokens
        PROVE  R!Cardinality({r \in 1 .. Len(relays.asked) :
                 relays.asked[r].token = t /\ relays.asked[r].st # "failed"}) <= 1
    <2> DEFINE G == {r \in 1 .. Len(relays.asked) : relays.asked[r].token = t /\ relays.asked[r].st # "failed"}
    <2>1. \A r, q \in G : r = q
      BY <1>1 DEF Mapping
    <2> HIDE DEF G
    <2>0. R!Cardinality(G) = Cardinality(G)
      BY DEF R!Cardinality, Cardinality
    <2>2. CASE G = {}
      <3>1. Cardinality(G) = 0
        BY <2>2, FS_EmptySet
      <3> QED BY <2>0, <3>1 DEF G
    <2>3. CASE G # {}
      <3>1. PICK r : r \in G
        BY <2>3
      <3>2. G = {r}
        BY <2>1, <3>1
      <3>3. Cardinality(G) = 1
        BY <3>2, FS_Singleton
      <3> QED BY <2>0, <3>3 DEF G
    <2> QED BY <2>2, <2>3
  <1>3. \A t \in R!Tokens : relays.map[t] # R!None => relays.asked[relays.map[t]].st # "failed"
    BY <1>1 DEF Mapping, R!None
  <1>4. \A s \in Services : service[s].client # R!None => clients[service[s].client].st # "failed"
    BY <1>1 DEF Having, R!None
  <1>5. R!NothingHeld
    <2>1. \A c \in R!Calls : Calling(calls[c], service)
      BY DEF RelayInv, CallInv
    <2>2. \A c \in R!Calls : calls[c].st = "open" => ~ service[calls[c].svc].closed
      BY <2>1 DEF Calling
    <2>3. \A c \in R!Calls : calls[c].port = IF calls[c].st = "over" THEN 1 ELSE 0
      BY <2>1 DEF Calling
    <2> QED BY <2>2, <2>3 DEF R!NothingHeld
  <1> QED BY <1>2, <1>3, <1>4, <1>5 DEF R!OneRelay

-----------------------------------------------------------------------------
(* A WebSocket *)

WebStates == {"connecting", "open", "closing", "closed"}

\* The object, whatever it counts.
Weblike(y) ==
  y \in [state : WebStates, dialling : BOOLEAN, writer : {"none", "held", "released"},
         pump : {"off", "reading", "over"}, amount : Int, closes : BOOLEAN]

Tellings == [type : {"open", "message", "error", "close"}, n : Nat]

Sends == [kind : O!Kinds, at : {"converting", "writing", "done"}]

WebTypes ==
  /\ Weblike(x) /\ inbox \in Seq(Nat) /\ came \in Nat /\ events \in Seq(Tellings)
  /\ sends \in Seq(Sends) /\ wire \in Seq(Nat)

HasTold(es, type) == \E i \in DOMAIN es : es[i].type = type

\* What the object says of its connection: it has none while it is dialled, and whoever closed it
\* and knows of no failure has given it up.
Standing(y, c, es) ==
  /\ HasTold(es, "close") <=> y.state = "closed"
  /\ y.dialling => c = "none" /\ y.state \in {"connecting", "closed"} /\ y.writer = "none"
  /\ ~ y.dialling => y.state # "connecting"
  /\ y.state = "open" => y.writer = "held"
  /\ y.state = "closing" => y.writer # "none"
  /\ ~ y.dialling /\ y.state \in {"closing", "closed"} /\ ~ HasTold(es, "error") => c # "open"

\* What was sent and is not counted off yet.
Undone(ss) == {k \in DOMAIN ss : ss[k].at # "done"}

Counted(n, ss) == IsFiniteSet(Undone(ss)) /\ n = Cardinality(Undone(ss))

\* Texts were written in the order sent, and none was left behind.
InOrder(ss, wr) ==
  /\ \A i \in DOMAIN wr : wr[i] \in DOMAIN ss /\ ss[wr[i]].at # "converting"
  /\ \A i \in DOMAIN wr : ss[wr[i]].kind = "text" =>
       \A k \in 1 .. wr[i] : ss[k].kind = "text" => ss[k].at # "converting"
  /\ \A i, j \in DOMAIN wr :
       i < j /\ ss[wr[i]].kind = "text" /\ ss[wr[j]].kind = "text" => wr[i] < wr[j]

WebInv == WebTypes /\ Standing(x, conn, events) /\ Counted(x.amount, sends) /\ InOrder(sends, wire)

LEMMA WebStarts ==
  ASSUME O!Init PROVE WebInv
  <1>1. /\ Weblike(x) /\ x.state = "connecting" /\ x.dialling /\ x.writer = "none" /\ x.amount = 0
        /\ conn = "none"
    BY DEF O!Init, Weblike, WebStates
  <1>2. inbox = <<>> /\ came = 0 /\ sends = <<>> /\ wire = <<>> /\ events = <<>>
    BY DEF O!Init
  <1>3. WebTypes
    BY <1>1, <1>2 DEF WebTypes
  <1>4. Undone(sends) = {}
    BY <1>2 DEF Undone
  <1>5. Counted(x.amount, sends)
    BY <1>1, <1>4, FS_EmptySet DEF Counted
  <1>6. Standing(x, conn, events) /\ InOrder(sends, wire)
    BY <1>1, <1>2 DEF Standing, HasTold, InOrder
  <1> QED BY <1>3, <1>5, <1>6 DEF WebInv

LEMMA WebUnchanged ==
  ASSUME WebInv, UNCHANGED <<x, conn, inbox, came, sends, wire, events>> PROVE WebInv'
  BY DEF WebInv, WebTypes

LEMMA TellsOne ==
  ASSUME NEW es \in Seq(Tellings), NEW t \in Tellings
  PROVE  /\ Append(es, t) \in Seq(Tellings)
         /\ \A type : HasTold(Append(es, t), type) <=> HasTold(es, type) \/ t.type = type
  <1>1. /\ Append(es, t) \in Seq(Tellings) /\ Len(Append(es, t)) = Len(es) + 1
        /\ \A i \in 1 .. Len(es) : Append(es, t)[i] = es[i]
        /\ Append(es, t)[Len(es) + 1] = t /\ Len(es) \in Nat
    BY AppendProperties, LenProperties
  <1>2. DOMAIN es = 1 .. Len(es) /\ DOMAIN Append(es, t) = 1 .. Len(es) + 1
    BY <1>1, LenProperties
  <1> QED BY <1>1, <1>2 DEF HasTold

LEMMA EventsAre ==
  ASSUME NEW n \in Nat
  PROVE  /\ \A type \in {"open", "message", "error", "close"} : O!Event(type, n) \in Tellings
         /\ \A type : O!Event(type, n).type = type
  BY DEF O!Event, Tellings

LEMMA TellsFailure ==
  ASSUME NEW es \in Seq(Tellings), NEW y, y.state # "closed"
  PROVE  /\ O!Fails(y, es) \in Seq(Tellings) /\ HasTold(O!Fails(y, es), "error")
         /\ HasTold(O!Fails(y, es), "close")
  <1> DEFINE a == O!Event("error", 0)
             b == O!Event("close", 0)
             f == Append(Append(es, a), b)
  <1>1. a \in Tellings /\ b \in Tellings /\ a.type = "error" /\ b.type = "close"
    BY EventsAre
  <1>2. O!Fails(y, es) = es \o <<a, b>>
    BY DEF O!Fails
  <1> HIDE DEF a, b
  <1>3. es \o <<a, b>> = f
    BY <1>1
  <1>4. Append(es, a) \in Seq(Tellings) /\ HasTold(Append(es, a), "error")
    BY <1>1, TellsOne
  <1>5. f \in Seq(Tellings) /\ HasTold(f, "error") /\ HasTold(f, "close")
    BY <1>1, <1>4, TellsOne
  <1> QED BY <1>2, <1>3, <1>5

LEMMA NothingFails ==
  ASSUME NEW es, NEW y, y.state = "closed"
  PROVE  O!Fails(y, es) = es /\ O!Finalizes(y, es) = es
  BY DEF O!Fails, O!Finalizes

LEMMA TellsClose ==
  ASSUME NEW es \in Seq(Tellings), NEW y, y.state # "closed"
  PROVE  /\ O!Finalizes(y, es) \in Seq(Tellings) /\ HasTold(O!Finalizes(y, es), "close")
         /\ \A type : HasTold(es, type) => HasTold(O!Finalizes(y, es), type)
         /\ HasTold(O!Finalizes(y, es), "error") => HasTold(es, "error")
  <1>1. O!Finalizes(y, es) = Append(es, O!Event("close", 0))
    BY DEF O!Finalizes
  <1>2. O!Event("close", 0) \in Tellings /\ O!Event("close", 0).type = "close"
    BY EventsAre
  <1> QED BY <1>1, <1>2, TellsOne

\* What #finalize and close() leave of the object.
LEMMA FinalizedIs ==
  ASSUME NEW y, Weblike(y)
  PROVE  /\ Weblike(O!Finalized(y)) /\ O!Finalized(y).state = "closed"
         /\ O!Finalized(y).dialling = y.dialling /\ O!Finalized(y).amount = y.amount
         /\ y.writer = "none" => O!Finalized(y).writer = "none"
  BY DEF Weblike, WebStates, O!Finalized

LEMMA ClosedIs ==
  ASSUME NEW y, Weblike(y)
  PROVE  /\ Weblike(O!Closed(y))
         /\ O!Closed(y).dialling = y.dialling /\ O!Closed(y).amount = y.amount
         /\ y.writer = "none" => O!Closed(y).state = "closed" /\ O!Closed(y).writer = "none"
         /\ y.writer # "none" => O!Closed(y).state = "closing" /\ O!Closed(y).writer = y.writer
  <1> DEFINE z == [y EXCEPT !.closes = TRUE]
  <1>1. /\ Weblike(z) /\ z.dialling = y.dialling /\ z.amount = y.amount /\ z.writer = y.writer
    BY DEF Weblike
  <1>2. O!Closed(y) = IF y.writer = "none" THEN O!Finalized(z) ELSE [z EXCEPT !.state = "closing"]
    BY DEF O!Closed
  <1> HIDE DEF z
  <1>3. CASE y.writer = "none"
    BY <1>1, <1>2, <1>3, FinalizedIs
  <1>4. CASE y.writer # "none"
    BY <1>1, <1>2, <1>4 DEF Weblike, WebStates
  <1> QED BY <1>3, <1>4

LEMMA StandsAlike ==
  ASSUME NEW y, NEW z, NEW c, NEW es, Standing(y, c, es),
         z.state = y.state, z.dialling = y.dialling, z.writer = y.writer
  PROVE  Standing(z, c, es)
  BY DEF Standing

\* A failure finalizes, and tells it.
LEMMA StandsFailed ==
  ASSUME NEW y, Weblike(y), NEW c, NEW es \in Seq(Tellings),
         HasTold(es, "close") <=> y.state = "closed",
         y.dialling => c = "none" /\ y.writer = "none",
         ~ y.dialling /\ y.state = "closed" /\ ~ HasTold(es, "error") => c # "open"
  PROVE  /\ Weblike(O!Finalized(y)) /\ O!Fails(y, es) \in Seq(Tellings)
         /\ Standing(O!Finalized(y), c, O!Fails(y, es))
         /\ O!Finalized(y).amount = y.amount
  <1>1. /\ Weblike(O!Finalized(y)) /\ O!Finalized(y).state = "closed"
        /\ O!Finalized(y).dialling = y.dialling /\ O!Finalized(y).amount = y.amount
        /\ y.writer = "none" => O!Finalized(y).writer = "none"
    BY FinalizedIs
  <1>2. CASE y.state = "closed"
    <2>1. O!Fails(y, es) = es
      BY <1>2, NothingFails
    <2> QED BY <1>1, <1>2, <2>1 DEF Standing
  <1>3. CASE y.state # "closed"
    <2>1. /\ O!Fails(y, es) \in Seq(Tellings) /\ HasTold(O!Fails(y, es), "error")
          /\ HasTold(O!Fails(y, es), "close")
      BY <1>3, TellsFailure
    <2> QED BY <1>1, <2>1 DEF Standing
  <1> QED BY <1>2, <1>3

\* close(), of a socket that may be closed.
LEMMA StandsClosed ==
  ASSUME NEW y, Weblike(y), NEW c, NEW es \in Seq(Tellings), Standing(y, c, es), O!CanClose(y)
  PROVE  LET f == IF y.writer = "none" THEN O!Finalizes(y, es) ELSE es IN
         /\ Weblike(O!Closed(y)) /\ f \in Seq(Tellings) /\ O!Closed(y).amount = y.amount
         /\ Standing(O!Closed(y), O!Asked(y, c), f)
  <1>1. /\ Weblike(O!Closed(y))
        /\ O!Closed(y).dialling = y.dialling /\ O!Closed(y).amount = y.amount
        /\ y.writer = "none" => O!Closed(y).state = "closed" /\ O!Closed(y).writer = "none"
        /\ y.writer # "none" => O!Closed(y).state = "closing" /\ O!Closed(y).writer = y.writer
    BY ClosedIs
  <1>2. y.state \in {"connecting", "open"}
    BY DEF O!CanClose
  <1>3. CASE y.writer = "none"
    <2>1. y.dialling /\ c = "none" /\ O!Asked(y, c) = c
      BY <1>2, <1>3 DEF Standing, O!Asked, Weblike
    <2>2. O!Finalizes(y, es) \in Seq(Tellings) /\ HasTold(O!Finalizes(y, es), "close")
      BY <1>2, TellsClose
    <2> QED BY <1>1, <1>3, <2>1, <2>2 DEF Standing
  <1>4. CASE y.writer # "none"
    <2>1. ~ y.dialling /\ O!Asked(y, c) # "open" /\ ~ HasTold(es, "close")
      BY <1>2, <1>4 DEF Standing, O!Asked, Weblike
    <2> QED BY <1>1, <1>4, <2>1 DEF Standing
  <1> QED BY <1>3, <1>4

\* What sends nothing has only to leave the socket well.
LEMMA WebStays ==
  ASSUME WebInv, Weblike(x'), events' \in Seq(Tellings), Standing(x', conn', events'),
         x'.amount = x.amount, UNCHANGED <<sends, wire>>, inbox' \in Seq(Nat), came' \in Nat
  PROVE  WebInv'
  <1>1. Counted(x.amount, sends) /\ InOrder(sends, wire) /\ sends \in Seq(Sends) /\ wire \in Seq(Nat)
    BY DEF WebInv, WebTypes
  <1>2. sends' = sends /\ wire' = wire
    OBVIOUS
  <1>3. Counted(x'.amount, sends') /\ InOrder(sends', wire')
    BY <1>1, <1>2
  <1> QED BY <1>1, <1>2, <1>3 DEF WebInv, WebTypes

LEMMA WebCloses ==
  ASSUME WebInv, O!Close PROVE WebInv'
  <1>1. /\ Weblike(x) /\ events \in Seq(Tellings) /\ Standing(x, conn, events) /\ O!CanClose(x)
        /\ inbox \in Seq(Nat) /\ came \in Nat
    BY DEF WebInv, WebTypes, O!Close
  <1>2. /\ x' = O!Closed(x) /\ conn' = O!Asked(x, conn)
        /\ events' = IF x.writer = "none" THEN O!Finalizes(x, events) ELSE events
        /\ UNCHANGED <<inbox, came, sends, wire>>
    BY DEF O!Close, O!Now
  <1>3. /\ Weblike(x') /\ events' \in Seq(Tellings) /\ x'.amount = x.amount /\ Standing(x', conn', events')
    BY <1>1, <1>2, StandsClosed
  <1> QED BY <1>1, <1>2, <1>3, WebStays

LEMMA WebDials ==
  ASSUME WebInv, O!DialAnswers PROVE WebInv'
  <1> DEFINE es == Append(events, O!Event("open", 0))
             rest == [x EXCEPT !.dialling = FALSE]
  <1>1. /\ Weblike(x) /\ events \in Seq(Tellings) /\ Standing(x, conn, events) /\ x.dialling
        /\ inbox \in Seq(Nat) /\ came \in Nat /\ UNCHANGED <<inbox, came, sends, wire>>
    BY DEF WebInv, WebTypes, O!DialAnswers
  <1>2. conn = "none" /\ x.writer = "none" /\ x.state \in {"connecting", "closed"}
    BY <1>1 DEF Standing
  <1>3. Weblike(rest) /\ ~ rest.dialling /\ rest.state = x.state /\ rest.amount = x.amount /\ rest.writer = "none"
    BY <1>1, <1>2 DEF Weblike
  <1>4. Weblike(O!Opened) /\ O!Opened.state = "open" /\ O!Opened.writer = "held" /\ ~ O!Opened.dialling
        /\ O!Opened.amount = x.amount
    BY <1>1 DEF Weblike, WebStates, O!Opened
  <1>5. es \in Seq(Tellings) /\ (HasTold(es, "close") <=> x.state = "closed")
    <2>1. O!Event("open", 0) \in Tellings /\ O!Event("open", 0).type = "open"
      BY EventsAre
    <2> QED BY <1>1, <2>1, TellsOne DEF Standing
  <1>6. \/ x' = O!Finalized(rest) /\ conn' = conn /\ events' = O!Fails(x, events)
        \/ x.state # "connecting" /\ x' = rest /\ conn' = "closing" /\ events' = events
        \/ x.state = "connecting" /\ x' = [O!Opened EXCEPT !.pump = "reading"] /\ conn' = "open" /\ events' = es
        \/ x.state = "connecting" /\ x' = [O!Closed(O!Opened) EXCEPT !.pump = "reading"] /\ conn' = "closing"
           /\ events' = es
        \/ x.state = "connecting" /\ x' = O!Finalized(O!Opened) /\ conn' = "open" /\ events' = O!Fails(O!Opened, es)
    BY DEF O!DialAnswers, O!Now
  <1> HIDE DEF es, rest
  <1>7. CASE x' = O!Finalized(rest) /\ conn' = conn /\ events' = O!Fails(x, events)
    <2>1. O!Fails(x, events) = O!Fails(rest, events)
      BY <1>3 DEF O!Fails
    <2>2. HasTold(events, "close") <=> rest.state = "closed"
      BY <1>1, <1>3 DEF Standing
    <2>3. Weblike(x') /\ events' \in Seq(Tellings) /\ Standing(x', conn', events') /\ x'.amount = x.amount
      BY <1>1, <1>2, <1>3, <1>7, <2>1, <2>2, StandsFailed
    <2> QED BY <1>1, <2>3, WebStays
  <1>8. CASE x.state # "connecting" /\ x' = rest /\ conn' = "closing" /\ events' = events
    <2>1. Standing(x', conn', events')
      BY <1>1, <1>2, <1>3, <1>8 DEF Standing
    <2> QED BY <1>1, <1>3, <1>8, <2>1, WebStays
  <1>9. x.state = "connecting" => Standing(O!Opened, "open", es)
    BY <1>4, <1>5 DEF Standing
  <1>10. CASE x.state = "connecting" /\ x' = [O!Opened EXCEPT !.pump = "reading"] /\ conn' = "open" /\ events' = es
    <2>1. Weblike(x') /\ x'.state = O!Opened.state /\ x'.dialling = O!Opened.dialling /\ x'.writer = O!Opened.writer
          /\ x'.amount = x.amount
      BY <1>4, <1>10 DEF Weblike
    <2>2. Standing(x', conn', events')
      BY <1>9, <1>10, <2>1, StandsAlike
    <2> QED BY <1>1, <1>5, <1>10, <2>1, <2>2, WebStays
  <1>11. CASE x.state = "connecting" /\ x' = [O!Closed(O!Opened) EXCEPT !.pump = "reading"] /\ conn' = "closing"
              /\ events' = es
    <2> DEFINE z == O!Closed(O!Opened)
    <2>1. O!CanClose(O!Opened) /\ O!Asked(O!Opened, "open") = "closing"
      BY <1>4 DEF O!CanClose, O!Asked
    <2>2. Weblike(z) /\ z.amount = x.amount /\ Standing(z, "closing", es)
      BY <1>4, <1>5, <1>9, <1>11, <2>1, StandsClosed
    <2>3. x' = [z EXCEPT !.pump = "reading"]
      BY <1>11
    <2> HIDE DEF z
    <2>4. Weblike(x') /\ x'.state = z.state /\ x'.dialling = z.dialling /\ x'.writer = z.writer
          /\ x'.amount = x.amount
      BY <2>2, <2>3 DEF Weblike
    <2>5. Standing(x', conn', events')
      BY <1>11, <2>2, <2>4, StandsAlike
    <2> QED BY <1>1, <1>5, <1>11, <2>4, <2>5, WebStays
  <1>12. CASE x.state = "connecting" /\ x' = O!Finalized(O!Opened) /\ conn' = "open" /\ events' = O!Fails(O!Opened, es)
    <2>1. Weblike(x') /\ events' \in Seq(Tellings) /\ Standing(x', conn', events') /\ x'.amount = x.amount
      BY <1>4, <1>5, <1>12, StandsFailed
    <2> QED BY <1>1, <2>1, WebStays
  <1> QED BY <1>6, <1>7, <1>8, <1>10, <1>11, <1>12

\* The pump turned off, of a socket that failed.
LEMMA WebPumpFails ==
  ASSUME WebInv, NEW es \in Seq(Tellings), HasTold(es, "close") <=> HasTold(events, "close"),
         HasTold(events, "error") <=> HasTold(es, "error"),
         x' = [O!Finalized(x) EXCEPT !.pump = "off"], conn' = conn, events' = O!Fails(x, es),
         UNCHANGED <<sends, wire>>, inbox' \in Seq(Nat), came' \in Nat
  PROVE  WebInv'
  <1> DEFINE z == O!Finalized(x)
  <1>1. Weblike(x) /\ Standing(x, conn, events)
    BY DEF WebInv, WebTypes
  <1>2. /\ HasTold(es, "close") <=> x.state = "closed"
        /\ x.dialling => conn = "none" /\ x.writer = "none"
        /\ ~ x.dialling /\ x.state = "closed" /\ ~ HasTold(es, "error") => conn # "open"
    BY <1>1 DEF Standing
  <1>3. Weblike(z) /\ events' \in Seq(Tellings) /\ Standing(z, conn', events') /\ z.amount = x.amount
    BY <1>1, <1>2, StandsFailed
  <1>4. x' = [z EXCEPT !.pump = "off"]
    OBVIOUS
  <1> HIDE DEF z
  <1>5. Weblike(x') /\ x'.state = z.state /\ x'.dialling = z.dialling /\ x'.writer = z.writer /\ x'.amount = x.amount
    BY <1>3, <1>4 DEF Weblike
  <1>6. Standing(x', conn', events')
    BY <1>3, <1>5, StandsAlike
  <1> QED BY <1>3, <1>5, <1>6, WebStays

LEMMA WebPumpReads ==
  ASSUME WebInv, O!PumpReads PROVE WebInv'
  <1> DEFINE es == Append(events, O!Event("message", Head(inbox)))
  <1>1. /\ Weblike(x) /\ events \in Seq(Tellings) /\ Standing(x, conn, events)
        /\ inbox \in Seq(Nat) /\ came \in Nat /\ UNCHANGED <<came, sends, wire>> /\ inbox # <<>>
        /\ inbox' = Tail(inbox)
    BY DEF WebInv, WebTypes, O!PumpReads
  <1>2. inbox' \in Seq(Nat) /\ came' \in Nat /\ Head(inbox) \in Nat
    BY <1>1
  <1>3. es \in Seq(Tellings) /\ (\A type : HasTold(es, type) <=> HasTold(events, type) \/ type = "message")
    <2>1. O!Event("message", Head(inbox)) \in Tellings /\ O!Event("message", Head(inbox)).type = "message"
      BY <1>2, EventsAre
    <2> QED BY <1>1, <2>1, TellsOne
  <1>4. \/ x.state # "open" /\ x' = [x EXCEPT !.pump = "over"] /\ conn' = conn /\ events' = events
        \/ x.state = "open" /\ x' = x /\ conn' = conn /\ events' = es
        \/ x.state = "open" /\ x' = O!Closed(x) /\ conn' = O!Asked(x, conn) /\ events' = es
        \/ x.state = "open" /\ x' = [O!Finalized(x) EXCEPT !.pump = "off"] /\ conn' = conn /\ events' = O!Fails(x, es)
    BY DEF O!PumpReads, O!Now
  <1> HIDE DEF es
  <1>5. Standing(x, conn, es)
    BY <1>1, <1>3 DEF Standing
  <1>6. CASE x.state # "open" /\ x' = [x EXCEPT !.pump = "over"] /\ conn' = conn /\ events' = events
    <2>1. Weblike(x') /\ x'.state = x.state /\ x'.dialling = x.dialling /\ x'.writer = x.writer /\ x'.amount = x.amount
      BY <1>1, <1>6 DEF Weblike
    <2>2. Standing(x', conn', events')
      BY <1>1, <1>6, <2>1, StandsAlike
    <2> QED BY <1>1, <1>2, <1>6, <2>1, <2>2, WebStays
  <1>7. CASE x.state = "open" /\ x' = x /\ conn' = conn /\ events' = es
    <2>1. Weblike(x') /\ Standing(x', conn', events') /\ x'.amount = x.amount
      BY <1>1, <1>5, <1>7
    <2> QED BY <1>1, <1>2, <1>3, <1>7, <2>1, WebStays
  <1>8. CASE x.state = "open" /\ x' = O!Closed(x) /\ conn' = O!Asked(x, conn) /\ events' = es
    <2>1. O!CanClose(x) /\ x.writer # "none"
      BY <1>1, <1>8 DEF O!CanClose, Standing
    <2>2. Weblike(x') /\ x'.amount = x.amount /\ Standing(x', conn', events')
      BY <1>1, <1>3, <1>5, <1>8, <2>1, StandsClosed
    <2> QED BY <1>1, <1>2, <1>3, <1>8, <2>2, WebStays
  <1>9. CASE x.state = "open" /\ x' = [O!Finalized(x) EXCEPT !.pump = "off"] /\ conn' = conn /\ events' = O!Fails(x, es)
    BY <1>1, <1>2, <1>3, <1>9, WebPumpFails
  <1> QED BY <1>4, <1>6, <1>7, <1>8, <1>9

LEMMA WebPumpEnds ==
  ASSUME WebInv, O!PumpEnds PROVE WebInv'
  <1>1. /\ Weblike(x) /\ events \in Seq(Tellings) /\ Standing(x, conn, events)
        /\ inbox \in Seq(Nat) /\ came \in Nat
    BY DEF WebInv, WebTypes
  <1>2. x' = [x EXCEPT !.pump = "over"] /\ conn' = conn /\ events' = events /\ UNCHANGED <<inbox, came, sends, wire>>
    BY DEF O!PumpEnds, O!Now
  <1>3. Weblike(x') /\ x'.state = x.state /\ x'.dialling = x.dialling /\ x'.writer = x.writer /\ x'.amount = x.amount
    BY <1>1, <1>2 DEF Weblike
  <1>4. Standing(x', conn', events')
    BY <1>1, <1>2, <1>3, StandsAlike
  <1> QED BY <1>1, <1>2, <1>3, <1>4, WebStays

LEMMA WebPumpBreaks ==
  ASSUME WebInv, O!PumpFails PROVE WebInv'
  <1>1. /\ x' = [O!Finalized(x) EXCEPT !.pump = "off"] /\ conn' = conn /\ events' = O!Fails(x, events)
        /\ UNCHANGED <<inbox, came, sends, wire>>
    BY DEF O!PumpFails, O!Now
  <1>2. events \in Seq(Tellings) /\ inbox \in Seq(Nat) /\ came \in Nat
    BY DEF WebInv, WebTypes
  <1> QED BY <1>1, <1>2, WebPumpFails

LEMMA WebFinalizes ==
  ASSUME WebInv, O!Finalize PROVE WebInv'
  <1> DEFINE z == O!Finalized(x)
  <1>1. /\ Weblike(x) /\ events \in Seq(Tellings) /\ Standing(x, conn, events)
        /\ inbox \in Seq(Nat) /\ came \in Nat /\ conn # "open"
    BY DEF WebInv, WebTypes, O!Finalize
  <1>2. x' = [z EXCEPT !.pump = "off"] /\ conn' = conn /\ events' = O!Finalizes(x, events)
        /\ UNCHANGED <<inbox, came, sends, wire>>
    BY DEF O!Finalize, O!Now
  <1>3. /\ Weblike(z) /\ z.state = "closed" /\ z.dialling = x.dialling /\ z.amount = x.amount
        /\ x.writer = "none" => z.writer = "none"
    BY <1>1, FinalizedIs
  <1>4. events' \in Seq(Tellings) /\ HasTold(events', "close")
    <2>1. CASE x.state = "closed"
      BY <1>1, <1>2, <2>1, NothingFails DEF Standing
    <2>2. CASE x.state # "closed"
      BY <1>1, <1>2, <2>2, TellsClose
    <2> QED BY <2>1, <2>2
  <1> HIDE DEF z
  <1>5. Weblike(x') /\ x'.state = z.state /\ x'.dialling = z.dialling /\ x'.writer = z.writer /\ x'.amount = x.amount
    BY <1>2, <1>3 DEF Weblike
  <1>6. Standing(z, conn', events')
    BY <1>1, <1>2, <1>3, <1>4 DEF Standing
  <1>7. Standing(x', conn', events')
    BY <1>5, <1>6, StandsAlike
  <1> QED BY <1>1, <1>2, <1>4, <1>5, <1>7, WebStays

\* What is sent
Moved(ss, k, at) == [ss EXCEPT ![k].at = at]

LEMMA MovedIs ==
  ASSUME NEW ss \in Seq(Sends), NEW k \in DOMAIN ss, NEW at \in {"writing", "done"}
  PROVE  /\ Moved(ss, k, at) \in Seq(Sends) /\ DOMAIN Moved(ss, k, at) = DOMAIN ss
         /\ Moved(ss, k, at)[k].at = at
         /\ \A j \in DOMAIN ss : Moved(ss, k, at)[j].kind = ss[j].kind /\ (j # k => Moved(ss, k, at)[j] = ss[j])
  <1>1. /\ DOMAIN ss = 1 .. Len(ss) /\ Len(ss) \in Nat /\ ss[k] \in Sends
        /\ \A j \in DOMAIN ss : ss[j] \in Sends
    BY LenProperties
  <1>2. [ss[k] EXCEPT !.at = at] \in Sends /\ [ss[k] EXCEPT !.at = at].at = at
        /\ [ss[k] EXCEPT !.at = at].kind = ss[k].kind
    BY <1>1 DEF Sends
  <1>3. Moved(ss, k, at) = [ss EXCEPT ![k] = [ss[k] EXCEPT !.at = at]]
    BY DEF Moved
  <1>4. /\ Moved(ss, k, at) \in [1 .. Len(ss) -> Sends] /\ Moved(ss, k, at)[k] = [ss[k] EXCEPT !.at = at]
        /\ \A j \in DOMAIN ss : j # k => Moved(ss, k, at)[j] = ss[j]
    BY <1>1, <1>2, <1>3
  <1>5. Moved(ss, k, at) \in Seq(Sends)
    BY <1>1, <1>2, <1>3, ExceptSeq
  <1>6. DOMAIN Moved(ss, k, at) = DOMAIN ss
    BY <1>1, <1>4
  <1>7. \A j \in DOMAIN ss : Moved(ss, k, at)[j].kind = ss[j].kind
    <2> SUFFICES ASSUME NEW j \in DOMAIN ss PROVE Moved(ss, k, at)[j].kind = ss[j].kind
      OBVIOUS
    <2>1. CASE j = k
      BY <1>2, <1>4, <2>1
    <2>2. CASE j # k
      BY <1>4, <2>2
    <2> QED BY <2>1, <2>2
  <1> QED BY <1>2, <1>4, <1>5, <1>6, <1>7

\* One that is done is counted off; one that is written is still counted.
LEMMA CountsOff ==
  ASSUME NEW ss \in Seq(Sends), NEW k \in DOMAIN ss, ss[k].at # "done", NEW n, Counted(n, ss)
  PROVE  /\ Counted(n - 1, Moved(ss, k, "done")) /\ Counted(n, Moved(ss, k, "writing")) /\ n \in Int
  <1>1. Undone(Moved(ss, k, "done")) = Undone(ss) \ {k}
    <2>1. /\ DOMAIN Moved(ss, k, "done") = DOMAIN ss /\ Moved(ss, k, "done")[k].at = "done"
          /\ \A j \in DOMAIN ss : j # k => Moved(ss, k, "done")[j] = ss[j]
      BY MovedIs
    <2> QED BY <2>1 DEF Undone
  <1>2. Undone(Moved(ss, k, "writing")) = Undone(ss)
    <2>1. /\ DOMAIN Moved(ss, k, "writing") = DOMAIN ss /\ Moved(ss, k, "writing")[k].at = "writing"
          /\ \A j \in DOMAIN ss : j # k => Moved(ss, k, "writing")[j] = ss[j]
      BY MovedIs
    <2> QED BY <2>1 DEF Undone
  <1>3. k \in Undone(ss) /\ IsFiniteSet(Undone(ss)) /\ n = Cardinality(Undone(ss))
    BY DEF Undone, Counted
  <1>4. /\ IsFiniteSet(Undone(ss) \ {k}) /\ Cardinality(Undone(ss) \ {k}) = Cardinality(Undone(ss)) - 1
        /\ Cardinality(Undone(ss)) \in Nat
    BY <1>3, FS_RemoveElement, FS_CardinalityType
  <1>5. n - 1 = Cardinality(Undone(ss) \ {k}) /\ n \in Int
    BY <1>3, <1>4
  <1>6. Counted(n - 1, Moved(ss, k, "done"))
    BY <1>1, <1>4, <1>5 DEF Counted
  <1>7. Counted(n, Moved(ss, k, "writing"))
    BY <1>2, <1>3 DEF Counted
  <1> QED BY <1>5, <1>6, <1>7

LEMMA OrderStays ==
  ASSUME NEW ss \in Seq(Sends), NEW m, NEW wr \in Seq(Nat), InOrder(ss, wr), DOMAIN m = DOMAIN ss,
         \A j \in DOMAIN ss : m[j].kind = ss[j].kind /\ (ss[j].at # "converting" => m[j].at # "converting")
  PROVE  InOrder(m, wr)
  <1>1. DOMAIN ss = 1 .. Len(ss) /\ Len(ss) \in Nat
    BY LenProperties
  <1>2. \A i \in DOMAIN wr : wr[i] \in DOMAIN ss /\ \A j \in 1 .. wr[i] : j \in DOMAIN ss
    BY <1>1 DEF InOrder
  <1>3. \A i \in DOMAIN wr : wr[i] \in DOMAIN m /\ m[wr[i]].at # "converting"
    BY <1>2 DEF InOrder
  <1>4. \A i \in DOMAIN wr : m[wr[i]].kind = "text" =>
          \A j \in 1 .. wr[i] : m[j].kind = "text" => m[j].at # "converting"
    BY <1>2 DEF InOrder
  <1>5. \A i, j \in DOMAIN wr : i < j /\ m[wr[i]].kind = "text" /\ m[wr[j]].kind = "text" => wr[i] < wr[j]
    BY <1>2 DEF InOrder
  <1> QED BY <1>3, <1>4, <1>5 DEF InOrder

LEMMA WebSends ==
  ASSUME WebInv, NEW kind \in O!Kinds, O!Send(kind) PROVE WebInv'
  <1> DEFINE one == [kind |-> kind, at |-> "converting"]
             n == Len(sends) + 1
  <1>1. /\ Weblike(x) /\ Standing(x, conn, events) /\ Counted(x.amount, sends) /\ InOrder(sends, wire)
        /\ sends \in Seq(Sends) /\ wire \in Seq(Nat) /\ inbox \in Seq(Nat) /\ came \in Nat /\ events \in Seq(Tellings)
    BY DEF WebInv, WebTypes
  <1>2. /\ x' = [x EXCEPT !.amount = x.amount + 1] /\ sends' = Append(sends, one)
        /\ UNCHANGED <<conn, inbox, came, wire, events>>
    BY DEF O!Send
  <1>3. one \in Sends /\ one.at # "done"
    BY DEF Sends
  <1> HIDE DEF one
  <1>4. /\ sends' \in Seq(Sends) /\ DOMAIN sends = 1 .. Len(sends) /\ Len(sends) \in Nat
        /\ DOMAIN sends' = DOMAIN sends \cup {n} /\ n \notin DOMAIN sends
        /\ (\A i \in DOMAIN sends : sends'[i] = sends[i]) /\ sends'[n] = one
    BY <1>1, <1>2, <1>3
  <1>5. Undone(sends') = Undone(sends) \cup {n} /\ n \notin Undone(sends)
    BY <1>3, <1>4 DEF Undone
  <1>6. Counted(x.amount + 1, sends')
    <2>1. IsFiniteSet(Undone(sends)) /\ x.amount = Cardinality(Undone(sends))
      BY <1>1 DEF Counted
    <2> HIDE DEF n
    <2>2. /\ IsFiniteSet(Undone(sends) \cup {n})
          /\ Cardinality(Undone(sends) \cup {n}) = Cardinality(Undone(sends)) + 1
      BY <1>5, <2>1, FS_AddElement
    <2> QED BY <1>5, <2>1, <2>2 DEF Counted
  <1> HIDE DEF n
  <1>7. x.amount + 1 \in Int
    BY <1>1 DEF Weblike
  <1>8. /\ Weblike(x') /\ x'.amount = x.amount + 1 /\ x'.state = x.state /\ x'.dialling = x.dialling
        /\ x'.writer = x.writer
    BY <1>1, <1>2, <1>7 DEF Weblike
  <1>9. Standing(x', conn', events')
    BY <1>1, <1>2, <1>8, StandsAlike
  <1>10. InOrder(sends', wire')
    <2>1. \A i \in DOMAIN wire : wire[i] \in DOMAIN sends /\ \A j \in 1 .. wire[i] : j \in DOMAIN sends
      BY <1>1, <1>4 DEF InOrder
    <2>2. \A i \in DOMAIN wire : wire[i] \in DOMAIN sends' /\ sends'[wire[i]] = sends[wire[i]]
            /\ \A j \in 1 .. wire[i] : sends'[j] = sends[j]
      BY <1>4, <2>1
    <2>3. InOrder(sends', wire)
      BY <1>1, <2>1, <2>2 DEF InOrder
    <2> QED BY <1>2, <2>3
  <1>11. Counted(x'.amount, sends')
    BY <1>6, <1>8
  <1>12. WebTypes'
    BY <1>1, <1>2, <1>4, <1>8 DEF WebTypes
  <1> QED BY <1>9, <1>10, <1>11, <1>12 DEF WebInv

LEMMA WebWrites ==
  ASSUME WebInv, NEW k \in DOMAIN sends, O!Writes(k) PROVE WebInv'
  <1>1. /\ Weblike(x) /\ Standing(x, conn, events) /\ Counted(x.amount, sends) /\ InOrder(sends, wire)
        /\ sends \in Seq(Sends) /\ wire \in Seq(Nat) /\ inbox \in Seq(Nat) /\ came \in Nat /\ events \in Seq(Tellings)
    BY DEF WebInv, WebTypes
  <1>2. /\ sends' = Moved(sends, k, "writing") /\ wire' = Append(wire, k)
        /\ UNCHANGED <<x, conn, inbox, came, events>> /\ sends[k].at = "converting"
        /\ sends[k].kind = "text" => \A j \in 1 .. k - 1 : sends[j] # [kind |-> "text", at |-> "converting"]
    BY DEF O!Writes, O!Ready, Moved
  <1>3. /\ sends' \in Seq(Sends) /\ DOMAIN sends' = DOMAIN sends /\ sends'[k].at = "writing"
        /\ \A j \in DOMAIN sends : sends'[j].kind = sends[j].kind /\ (j # k => sends'[j] = sends[j])
    <2>1. LET m == Moved(sends, k, "writing") IN
            /\ m \in Seq(Sends) /\ DOMAIN m = DOMAIN sends /\ m[k].at = "writing"
            /\ \A j \in DOMAIN sends : m[j].kind = sends[j].kind /\ (j # k => m[j] = sends[j])
      BY <1>1, MovedIs
    <2>2. sends' = Moved(sends, k, "writing")
      BY <1>2
    <2> QED BY <2>1, <2>2, Zenon
  <1>4. /\ DOMAIN sends = 1 .. Len(sends) /\ Len(sends) \in Nat /\ k \in Nat
        /\ wire' \in Seq(Nat) /\ DOMAIN wire = 1 .. Len(wire) /\ Len(wire) \in Nat
        /\ DOMAIN wire' = DOMAIN wire \cup {Len(wire) + 1}
        /\ (\A i \in DOMAIN wire : wire'[i] = wire[i]) /\ wire'[Len(wire) + 1] = k
    BY <1>1, <1>2
  <1>5. Counted(x'.amount, sends')
    BY <1>1, <1>2, CountsOff
  <1>6. sends[k].kind = "text" => \A j \in 1 .. k - 1 : sends[j].kind = "text" => sends[j].at # "converting"
    <2> SUFFICES ASSUME sends[k].kind = "text", NEW j \in 1 .. k - 1, sends[j].kind = "text",
                        sends[j].at = "converting"
                 PROVE  FALSE
      OBVIOUS
    <2>1. j \in DOMAIN sends
      BY <1>4
    <2>2. sends[j] \in Sends
      BY <1>1, <2>1
    <2>3. sends[j] = [kind |-> "text", at |-> "converting"]
      BY <2>2 DEF Sends
    <2> QED BY <1>2, <2>3
  <1>7. InOrder(sends', wire)
    <2>1. \A j \in DOMAIN sends : sends[j].at # "converting" => sends'[j].at # "converting"
      BY <1>3
    <2> QED BY <1>1, <1>3, <2>1, OrderStays
  <1>8. \A i \in DOMAIN wire : wire[i] \in Nat
    BY <1>1
  <1>9. \A i \in DOMAIN wire : sends[wire[i]].kind = "text" /\ sends[k].kind = "text" => wire[i] < k
    <2> SUFFICES ASSUME NEW i \in DOMAIN wire, sends[wire[i]].kind = "text", sends[k].kind = "text", ~ wire[i] < k
                 PROVE  FALSE
      OBVIOUS
    <2>1. k \in 1 .. wire[i]
      BY <1>4, <1>8
    <2> QED BY <1>1, <1>2, <2>1 DEF InOrder
  <1>10. InOrder(sends', wire')
    <2>1. \A i \in DOMAIN wire' : wire'[i] \in DOMAIN sends' /\ sends'[wire'[i]].at # "converting"
      BY <1>3, <1>4, <1>7 DEF InOrder
    <2>2. ASSUME NEW i \in DOMAIN wire', sends'[wire'[i]].kind = "text",
                 NEW j \in 1 .. wire'[i], sends'[j].kind = "text"
          PROVE  sends'[j].at # "converting"
      <3>1. CASE i \in DOMAIN wire
        BY <1>4, <1>7, <2>2, <3>1 DEF InOrder
      <3>2. CASE i = Len(wire) + 1
        <4>1. wire'[i] = k /\ sends[k].kind = "text" /\ j \in DOMAIN sends
          BY <1>3, <1>4, <2>2, <3>2
        <4>2. CASE j = k
          BY <1>3, <4>2
        <4>3. CASE j # k
          <5>1. j \in 1 .. k - 1 /\ sends'[j] = sends[j]
            BY <1>3, <1>4, <4>1, <4>3
          <5> QED BY <1>6, <2>2, <4>1, <5>1
        <4> QED BY <4>2, <4>3
      <3> QED BY <1>4, <3>1, <3>2
    <2>3. ASSUME NEW i \in DOMAIN wire', NEW j \in DOMAIN wire', i < j, sends'[wire'[i]].kind = "text",
                 sends'[wire'[j]].kind = "text"
          PROVE  wire'[i] < wire'[j]
      <3>1. i \in DOMAIN wire
        BY <1>4, <2>3
      <3>2. CASE j \in DOMAIN wire
        BY <1>4, <1>7, <2>3, <3>1, <3>2 DEF InOrder
      <3>3. CASE j = Len(wire) + 1
        <4>1. wire'[j] = k /\ wire'[i] = wire[i] /\ wire[i] \in DOMAIN sends
          BY <1>1, <1>4, <3>1, <3>3 DEF InOrder
        <4>2. sends[k].kind = "text" /\ sends[wire[i]].kind = "text"
          BY <1>3, <2>3, <4>1
        <4> QED BY <1>9, <3>1, <4>1, <4>2
      <3> QED BY <1>4, <3>2, <3>3
    <2> QED BY <2>1, <2>2, <2>3 DEF InOrder
  <1>11. WebTypes'
    BY <1>1, <1>2, <1>3, <1>4 DEF WebTypes
  <1>12. Standing(x', conn', events')
    BY <1>1, <1>2
  <1> QED BY <1>5, <1>10, <1>11, <1>12 DEF WebInv

LEMMA WebWriteEnds ==
  ASSUME WebInv, NEW k \in DOMAIN sends, O!WriteEnds(k) \/ O!WriteFails(k) PROVE WebInv'
  <1> DEFINE y == O!Counted
  <1>1. /\ Weblike(x) /\ Standing(x, conn, events) /\ Counted(x.amount, sends) /\ InOrder(sends, wire)
        /\ sends \in Seq(Sends) /\ wire \in Seq(Nat) /\ inbox \in Seq(Nat) /\ came \in Nat /\ events \in Seq(Tellings)
    BY DEF WebInv, WebTypes
  <1>2. /\ sends' = Moved(sends, k, "done") /\ sends[k].at # "done" /\ UNCHANGED <<conn, inbox, came, wire>>
        /\ \/ x' = y /\ events' = events
           \/ x' = O!Finalized(y) /\ events' = O!Fails(x, events)
    BY DEF O!WriteEnds, O!WriteFails, O!Ready, O!Done, O!Now, Moved
  <1>3. /\ sends' \in Seq(Sends) /\ Counted(x.amount - 1, sends') /\ InOrder(sends', wire')
    <2>1. /\ sends' \in Seq(Sends) /\ DOMAIN sends' = DOMAIN sends /\ sends'[k].at = "done"
          /\ \A j \in DOMAIN sends : sends'[j].kind = sends[j].kind /\ (j # k => sends'[j] = sends[j])
      <3>1. sends' = Moved(sends, k, "done") /\ sends \in Seq(Sends) /\ k \in DOMAIN sends
        BY <1>1, <1>2
      <3>2. /\ Moved(sends, k, "done") \in Seq(Sends) /\ DOMAIN Moved(sends, k, "done") = DOMAIN sends
            /\ Moved(sends, k, "done")[k].at = "done"
            /\ \A j \in DOMAIN sends : /\ Moved(sends, k, "done")[j].kind = sends[j].kind
                                       /\ j # k => Moved(sends, k, "done")[j] = sends[j]
        BY <1>1, MovedIs
      <3> QED BY <3>1, <3>2
    <2>2. \A j \in DOMAIN sends : sends[j].at # "converting" => sends'[j].at # "converting"
      BY <2>1
    <2>3. InOrder(sends', wire)
      BY <1>1, <2>1, <2>2, OrderStays
    <2> QED BY <1>1, <1>2, <2>1, <2>3, CountsOff
  <1>4. y = [x EXCEPT !.amount = x.amount - 1] /\ x.amount - 1 \in Int
    BY <1>1 DEF O!Counted, Weblike
  <1> HIDE DEF y
  <1>5. /\ Weblike(y) /\ y.amount = x.amount - 1 /\ y.state = x.state /\ y.dialling = x.dialling
        /\ y.writer = x.writer
    BY <1>1, <1>4 DEF Weblike
  <1>6. Standing(y, conn, events)
    BY <1>1, <1>5, StandsAlike
  <1>7. Weblike(x') /\ x'.amount = x.amount - 1 /\ Standing(x', conn', events') /\ events' \in Seq(Tellings)
    <2>1. CASE x' = y /\ events' = events
      BY <1>1, <1>2, <1>5, <1>6, <2>1
    <2>2. CASE x' = O!Finalized(y) /\ events' = O!Fails(x, events)
      <3>1. O!Fails(x, events) = O!Fails(y, events)
        BY <1>5 DEF O!Fails
      <3>2. /\ HasTold(events, "close") <=> y.state = "closed"
            /\ y.dialling => conn = "none" /\ y.writer = "none"
            /\ ~ y.dialling /\ y.state = "closed" /\ ~ HasTold(events, "error") => conn # "open"
        BY <1>6 DEF Standing
      <3> QED BY <1>1, <1>2, <1>5, <2>2, <3>1, <3>2, StandsFailed
    <2> QED BY <1>2, <2>1, <2>2
  <1>8. Counted(x'.amount, sends')
    BY <1>3, <1>7
  <1>9. WebTypes'
    BY <1>1, <1>2, <1>3, <1>7 DEF WebTypes
  <1> QED BY <1>3, <1>7, <1>8, <1>9 DEF WebInv

LEMMA WebOther ==
  ASSUME WebInv, O!Arrives \/ O!Ends PROVE WebInv'
  <1>1. /\ Weblike(x) /\ Standing(x, conn, events) /\ inbox \in Seq(Nat) /\ came \in Nat /\ events \in Seq(Tellings)
    BY DEF WebInv, WebTypes
  <1>2. UNCHANGED <<x, sends, wire, events>> /\ conn \in {"open", "closing"} /\ (conn' = conn \/ conn' \in {"closed", "broken"})
    BY DEF O!Arrives, O!Ends
  <1>3. came' \in Nat /\ inbox' \in Seq(Nat)
    <2>1. came + 1 \in Nat /\ Append(inbox, came + 1) \in Seq(Nat)
      BY <1>1
    <2>2. \/ came' = came + 1 /\ inbox' = Append(inbox, came + 1)
          \/ came' = came /\ inbox' = inbox
      BY DEF O!Arrives, O!Ends
    <2> QED BY <1>1, <2>1, <2>2
  <1>4. Weblike(x') /\ x'.amount = x.amount /\ events' \in Seq(Tellings)
    BY <1>1, <1>2
  <1>5. Standing(x', conn', events')
    BY <1>1, <1>2 DEF Standing
  <1> QED BY <1>1, <1>2, <1>3, <1>4, <1>5, WebStays

LEMMA WebStep ==
  ASSUME WebInv, O!Next PROVE WebInv'
  BY WebCloses, WebDials, WebPumpReads, WebPumpEnds, WebPumpBreaks, WebFinalizes, WebSends, WebWrites, WebWriteEnds,
     WebOther DEF O!Next

LEMMA WebHolds ==
  ASSUME WebInv PROVE O!NothingHeld
  <1>1. /\ Weblike(x) /\ Standing(x, conn, events) /\ Counted(x.amount, sends) /\ InOrder(sends, wire)
    BY DEF WebInv, WebTypes
  <1>2. \A type : O!Told(type) <=> HasTold(events, type)
    BY DEF O!Told, HasTold
  <1>3. (\A k \in DOMAIN sends : sends[k].at = "done") => x.amount = 0
    <2> SUFFICES ASSUME \A k \in DOMAIN sends : sends[k].at = "done" PROVE x.amount = 0
      OBVIOUS
    <2>1. Undone(sends) = {}
      BY DEF Undone
    <2> QED BY <1>1, <2>1, FS_EmptySet DEF Counted
  <1>4. \A i, j \in DOMAIN wire :
       i < j /\ sends[wire[i]].kind = "text" /\ sends[wire[j]].kind = "text" => wire[i] < wire[j]
    BY <1>1 DEF InOrder
  <1> QED BY <1>1, <1>2, <1>3, <1>4 DEF Standing, O!NothingHeld

-----------------------------------------------------------------------------
(* A WebSocketStream *)

Duplexes ==
  [signal : {"none", "live", "aborted", "fired"}, dialling : BOOLEAN, socket : BOOLEAN, early : BOOLEAN,
   abort : BOOLEAN, opened : {"pending", "resolved", "rejected"}, closed : {"pending", "resolved", "rejected"}]

\* A stream has its connection as long as it is neither dialled nor given up, and `opened` says which.
Given(d, l) ==
  /\ d.socket <=> d.opened = "resolved"
  /\ d.dialling <=> d.opened = "pending"
  /\ d.dialling => l = "none"
  /\ d.early => ~ d.socket
  /\ d.abort => l # "open"
  /\ d.opened = "rejected" => l # "open" /\ d.closed # "pending"
  /\ d.opened = "resolved" /\ l = "closed" => d.closed # "pending"

DuplexInv == duplex \in Duplexes /\ Given(duplex, line)

LEMMA DuplexStarts ==
  ASSUME O!StreamInit PROVE DuplexInv
  <1>1. PICK s, f :
          /\ s \in {"none", "live", "aborted"} /\ f = (IF s = "aborted" THEN "rejected" ELSE "pending")
          /\ duplex = [signal |-> s, dialling |-> s # "aborted", socket |-> FALSE,
                       early |-> FALSE, abort |-> FALSE, opened |-> f, closed |-> f]
    BY DEF O!StreamInit
  <1>2. /\ duplex.signal = s /\ (duplex.dialling <=> s # "aborted") /\ ~ duplex.socket /\ ~ duplex.early
        /\ ~ duplex.abort /\ duplex.opened = f /\ duplex.closed = f /\ line = "none"
    BY <1>1 DEF O!StreamInit
  <1>3. f \in {"pending", "resolved", "rejected"} /\ (f = "pending" <=> s # "aborted") /\ f # "resolved"
    BY <1>1
  <1>4. duplex \in Duplexes
    BY <1>1, <1>3 DEF Duplexes
  <1>5. Given(duplex, line)
    BY <1>2, <1>3 DEF Given
  <1> QED BY <1>4, <1>5 DEF DuplexInv

LEMMA DuplexUnchanged ==
  ASSUME DuplexInv, UNCHANGED <<duplex, line>> PROVE DuplexInv'
  BY DEF DuplexInv

\* The first to settle `closed` counts, and nothing else is changed.
LEMMA SettledIs ==
  ASSUME NEW s \in Duplexes, NEW how, how = "resolved" \/ how = "rejected"
  PROVE  LET z == O!StreamSettled(s, how) IN
         /\ z \in Duplexes /\ z.closed # "pending" /\ z.socket = s.socket /\ z.opened = s.opened
         /\ z.dialling = s.dialling /\ z.early = s.early /\ z.abort = s.abort
  BY DEF O!StreamSettled, Duplexes

LEMMA StreamClosedIs ==
  ASSUME NEW s \in Duplexes
  PROVE  LET z == O!StreamClosed(s) IN
         /\ z \in Duplexes /\ z.socket = s.socket /\ z.opened = s.opened /\ z.dialling = s.dialling
         /\ z.abort = s.abort
         /\ s.socket => z = s
         /\ ~ s.socket => z.closed # "pending"
  <1> DEFINE e == [s EXCEPT !.early = TRUE]
  <1>1. e \in Duplexes /\ e.socket = s.socket /\ e.opened = s.opened /\ e.dialling = s.dialling /\ e.abort = s.abort
    BY DEF Duplexes
  <1>2. O!StreamClosed(s) = IF s.socket THEN s ELSE O!StreamSettled(e, "resolved")
    BY DEF O!StreamClosed
  <1> HIDE DEF e
  <1>3. CASE s.socket
    BY <1>2, <1>3
  <1>4. CASE ~ s.socket
    BY <1>1, <1>2, <1>4, SettledIs
  <1> QED BY <1>3, <1>4

LEMMA DuplexStep ==
  ASSUME DuplexInv, O!StreamNext PROVE DuplexInv'
  <1>0. duplex \in Duplexes /\ Given(duplex, line)
    BY DEF DuplexInv
  <1>1. CASE O!CloseStream
    <2>1. duplex' = O!StreamClosed(duplex) /\ line' = IF duplex.socket /\ line = "open" THEN "closing" ELSE line
      BY <1>1 DEF O!CloseStream
    <2>2. /\ duplex' \in Duplexes /\ duplex'.socket = duplex.socket /\ duplex'.opened = duplex.opened
          /\ duplex'.dialling = duplex.dialling /\ duplex'.abort = duplex.abort
          /\ duplex.socket => duplex' = duplex
          /\ ~ duplex.socket => duplex'.closed # "pending"
      BY <1>0, <2>1, StreamClosedIs
    <2>3. Given(duplex', line')
      BY <1>0, <2>1, <2>2 DEF Given
    <2> QED BY <2>2, <2>3 DEF DuplexInv
  <1>2. CASE O!AbortStream
    <2> DEFINE s == [duplex EXCEPT !.signal = "fired", !.abort = TRUE]
    <2>1. /\ duplex' = IF s.socket THEN O!StreamClosed(s) ELSE O!StreamSettled(s, "rejected")
          /\ line' = IF duplex.socket /\ line = "open" THEN "closing" ELSE line
      BY <1>2 DEF O!AbortStream
    <2>2. /\ s \in Duplexes /\ s.socket = duplex.socket /\ s.opened = duplex.opened /\ s.dialling = duplex.dialling
          /\ s.abort /\ s.early = duplex.early /\ s.closed = duplex.closed
      BY <1>0 DEF Duplexes
    <2> HIDE DEF s
    <2>3. CASE duplex.socket
      <3>1. duplex' = s
        BY <2>1, <2>2, <2>3, StreamClosedIs
      <3>2. Given(duplex', line')
        BY <1>0, <2>1, <2>2, <2>3, <3>1 DEF Given
      <3> QED BY <2>2, <3>1, <3>2 DEF DuplexInv
    <2>4. CASE ~ duplex.socket
      <3>1. /\ duplex' \in Duplexes /\ duplex'.closed # "pending" /\ duplex'.socket = s.socket
            /\ duplex'.opened = s.opened /\ duplex'.dialling = s.dialling /\ duplex'.early = s.early
            /\ duplex'.abort = s.abort
        BY <2>1, <2>2, <2>4, SettledIs
      <3>2. line' # "open" /\ line' = line
        BY <1>0, <2>1, <2>4 DEF Given, Duplexes
      <3>3. Given(duplex', line')
        BY <1>0, <2>2, <2>4, <3>1, <3>2 DEF Given
      <3> QED BY <3>1, <3>3 DEF DuplexInv
    <2> QED BY <2>3, <2>4
  <1>3. CASE O!StreamDialFails
    <2> DEFINE s == [duplex EXCEPT !.dialling = FALSE, !.opened = "rejected"]
    <2>1. duplex' = O!StreamSettled(s, "rejected") /\ line' = line /\ duplex.dialling
      BY <1>3 DEF O!StreamDialFails
    <2>2. /\ s \in Duplexes /\ s.socket = duplex.socket /\ s.opened = "rejected" /\ ~ s.dialling
          /\ s.abort = duplex.abort /\ s.early = duplex.early
      BY <1>0 DEF Duplexes
    <2> HIDE DEF s
    <2>3. /\ duplex' \in Duplexes /\ duplex'.closed # "pending" /\ duplex'.socket = s.socket
          /\ duplex'.opened = s.opened /\ duplex'.dialling = s.dialling /\ duplex'.early = s.early
          /\ duplex'.abort = s.abort
      BY <2>1, <2>2, SettledIs
    <2>4. Given(duplex', line')
      BY <1>0, <2>1, <2>2, <2>3 DEF Given
    <2> QED BY <2>3, <2>4 DEF DuplexInv
  <1>4. CASE O!StreamDialAnswers
    <2> DEFINE s == [duplex EXCEPT !.dialling = FALSE]
               t == [s EXCEPT !.opened = "rejected"]
    <2>1. /\ duplex.dialling
          /\ IF s.early \/ s.abort
             THEN duplex' = O!StreamSettled(t, "rejected") /\ line' = "closing"
             ELSE duplex' = [s EXCEPT !.opened = "resolved", !.socket = TRUE] /\ line' = "open"
      BY <1>4 DEF O!StreamDialAnswers
    <2>2. /\ s \in Duplexes /\ s.socket = duplex.socket /\ ~ s.dialling
          /\ s.abort = duplex.abort /\ s.early = duplex.early
      BY <1>0 DEF Duplexes
    <2>3. /\ t \in Duplexes /\ t.socket = duplex.socket /\ t.opened = "rejected" /\ ~ t.dialling
      BY <1>0 DEF Duplexes
    <2> HIDE DEF t
    <2>4. CASE duplex.early \/ duplex.abort
      <3>1. /\ duplex' \in Duplexes /\ duplex'.closed # "pending" /\ duplex'.socket = t.socket
            /\ duplex'.opened = t.opened /\ duplex'.dialling = t.dialling /\ line' = "closing"
        BY <2>1, <2>2, <2>3, <2>4, SettledIs
      <3>2. Given(duplex', line')
        BY <1>0, <2>1, <2>3, <3>1 DEF Given
      <3> QED BY <3>1, <3>2 DEF DuplexInv
    <2>5. CASE ~ (duplex.early \/ duplex.abort)
      <3>1. duplex' = [s EXCEPT !.opened = "resolved", !.socket = TRUE] /\ line' = "open"
        BY <2>1, <2>2, <2>5
      <3> HIDE DEF s
      <3>2. /\ duplex' \in Duplexes /\ duplex'.socket /\ duplex'.opened = "resolved" /\ ~ duplex'.dialling
            /\ duplex'.early = s.early /\ duplex'.abort = s.abort
        BY <2>2, <3>1 DEF Duplexes
      <3>3. Given(duplex', line')
        BY <2>2, <2>5, <3>1, <3>2 DEF Given
      <3> QED BY <3>2, <3>3 DEF DuplexInv
    <2> QED BY <2>4, <2>5
  <1>5. CASE O!LineEnds
    <2>1. PICK how \in {"resolved", "rejected"} :
            duplex' = IF duplex.socket THEN O!StreamSettled(duplex, how) ELSE duplex
      BY <1>5 DEF O!LineEnds
    <2>2. line' = "closed"
      BY <1>5 DEF O!LineEnds
    <2>3. CASE duplex.socket
      <3>1. /\ duplex' \in Duplexes /\ duplex'.closed # "pending" /\ duplex'.socket = duplex.socket
            /\ duplex'.opened = duplex.opened /\ duplex'.dialling = duplex.dialling /\ duplex'.early = duplex.early
            /\ duplex'.abort = duplex.abort
        BY <1>0, <2>1, <2>3, SettledIs
      <3>2. Given(duplex', line')
        BY <1>0, <2>2, <2>3, <3>1 DEF Given
      <3> QED BY <3>1, <3>2 DEF DuplexInv
    <2>4. CASE ~ duplex.socket
      <3>1. line \in {"open", "closing"}
        BY <1>5 DEF O!LineEnds
      <3>2. Given(duplex', line')
        BY <1>0, <2>1, <2>2, <2>4, <3>1 DEF Given
      <3> QED BY <1>0, <2>1, <2>4, <3>2 DEF DuplexInv
    <2> QED BY <2>3, <2>4
  <1> QED BY <1>1, <1>2, <1>3, <1>4, <1>5 DEF O!StreamNext

LEMMA DuplexHolds ==
  ASSUME DuplexInv PROVE O!GivenUp
  BY DEF DuplexInv, Given, Duplexes, O!GivenUp

-----------------------------------------------------------------------------
(* A fetch *)

Mirrorlike(m) ==
  m \in [at : {"readable", "closed", "errored", "cancelled"}, pulling : BOOLEAN, refed : BOOLEAN,
         released : BOOLEAN, leftover : {m.leftover}, torn : BOOLEAN]

\* The calls of text() and its like that are not over.
Reading(w) == {k \in DOMAIN w : w[k] # "over"}

\* What holds the run: the request, those who read the body, and its mirror from the first pull on.
Held(r, w, m, h) ==
  /\ IsFiniteSet(Reading(w))
  /\ h = (IF r = "pending" THEN 1 ELSE 0) + Cardinality(Reading(w))
           + (IF m.refed /\ ~ m.released THEN 1 ELSE 0)

\* The mirror lets go with its end, unless it was torn.
LetsGo(m) ==
  /\ m.released => m.at # "readable"
  /\ m.at # "readable" => m.released \/ m.torn

FetchInv ==
  /\ whole \in Seq({"reading", "rejected", "over"})
  /\ Mirrorlike(mirror) /\ LetsGo(mirror)
  /\ Held(request, whole, mirror, holds)

LEMMA FetchStarts ==
  ASSUME O!FetchInit PROVE FetchInv
  <1>1. /\ request = "pending" /\ holds = 1 /\ whole = <<>>
        /\ mirror = [at |-> "readable", pulling |-> FALSE, refed |-> FALSE, released |-> FALSE,
                     leftover |-> <<>>, torn |-> FALSE]
    BY DEF O!FetchInit
  <1>2. Reading(whole) = {}
    BY <1>1 DEF Reading
  <1>3. Held(request, whole, mirror, holds)
    BY <1>1, <1>2, FS_EmptySet DEF Held
  <1>4. Mirrorlike(mirror) /\ LetsGo(mirror) /\ whole \in Seq({"reading", "rejected", "over"})
    BY <1>1 DEF Mirrorlike, LetsGo
  <1> QED BY <1>3, <1>4 DEF FetchInv

LEMMA FetchUnchanged ==
  ASSUME FetchInv, UNCHANGED <<request, whole, mirror, holds>> PROVE FetchInv'
  BY DEF FetchInv

LEMMA HeldIs ==
  ASSUME NEW r, NEW w, NEW m, NEW h, Held(r, w, m, h)
  PROVE  Cardinality(Reading(w)) \in Nat /\ IsFiniteSet(Reading(w)) /\ h \in Nat
  <1>1. Cardinality(Reading(w)) \in Nat
    BY FS_CardinalityType DEF Held
  <1> QED BY <1>1 DEF Held

\* One more, or one less, who reads.
LEMMA OneReads ==
  ASSUME NEW w \in Seq({"reading", "rejected", "over"}), NEW v, v \in {"reading", "rejected"}, IsFiniteSet(Reading(w))
  PROVE  /\ Append(w, v) \in Seq({"reading", "rejected", "over"})
         /\ IsFiniteSet(Reading(Append(w, v)))
         /\ Cardinality(Reading(Append(w, v))) = Cardinality(Reading(w)) + 1
  <1>1. /\ Append(w, v) \in Seq({"reading", "rejected", "over"}) /\ DOMAIN w = 1 .. Len(w) /\ Len(w) \in Nat
        /\ DOMAIN Append(w, v) = DOMAIN w \cup {Len(w) + 1} /\ Len(w) + 1 \notin DOMAIN w
        /\ (\A i \in DOMAIN w : Append(w, v)[i] = w[i]) /\ Append(w, v)[Len(w) + 1] = v
    OBVIOUS
  <1>2. Reading(Append(w, v)) = Reading(w) \cup {Len(w) + 1} /\ Len(w) + 1 \notin Reading(w)
    BY <1>1 DEF Reading
  <1> QED BY <1>1, <1>2, FS_AddElement

LEMMA OneStops ==
  ASSUME NEW w \in Seq({"reading", "rejected", "over"}), NEW k \in DOMAIN w, w[k] # "over", IsFiniteSet(Reading(w))
  PROVE  /\ [w EXCEPT ![k] = "over"] \in Seq({"reading", "rejected", "over"})
         /\ IsFiniteSet(Reading([w EXCEPT ![k] = "over"]))
         /\ Cardinality(Reading([w EXCEPT ![k] = "over"])) = Cardinality(Reading(w)) - 1
  <1> DEFINE z == [w EXCEPT ![k] = "over"]
  <1>1. DOMAIN w = 1 .. Len(w) /\ k \in 1 .. Len(w)
    BY LenProperties
  <1>2. z \in Seq({"reading", "rejected", "over"})
    BY <1>1, ExceptSeq
  <1>3. DOMAIN z = DOMAIN w /\ z[k] = "over" /\ \A j \in DOMAIN w : j # k => z[j] = w[j]
    OBVIOUS
  <1> HIDE DEF z
  <1>4. Reading(z) = Reading(w) \ {k} /\ k \in Reading(w)
    BY <1>3 DEF Reading
  <1>5. IsFiniteSet(Reading(z)) /\ Cardinality(Reading(z)) = Cardinality(Reading(w)) - 1
    BY <1>4, FS_RemoveElement
  <1> QED BY <1>2, <1>5 DEF z

\* A chunk that is given leaves of the mirror what counts here.
LEMMA GivenIs ==
  ASSUME NEW s, Mirrorlike(s), NEW chunk, O!Given(s, chunk)
  PROVE  /\ Mirrorlike(mirror') /\ mirror'.at = s.at /\ mirror'.refed = s.refed
         /\ mirror'.released = s.released /\ mirror'.torn = s.torn
  <1>1. PICK left_ : mirror' = [s EXCEPT !.leftover = left_, !.pulling = FALSE]
    BY DEF O!Given
  <1> QED BY <1>1 DEF Mirrorlike

\* What leaves the mirror as readable as it was and lets go of nothing, holds the run as before.
LEMMA FetchStays ==
  ASSUME FetchInv, Mirrorlike(mirror'), mirror'.at = mirror.at, mirror'.refed = mirror.refed,
         mirror'.released = mirror.released, mirror'.torn = mirror.torn, UNCHANGED <<request, whole, holds>>
  PROVE  FetchInv'
  <1>1. /\ whole' \in Seq({"reading", "rejected", "over"}) /\ request' = request /\ whole' = whole /\ holds' = holds
        /\ Held(request, whole, mirror, holds) /\ LetsGo(mirror)
    BY DEF FetchInv
  <1>2. Held(request', whole', mirror', holds')
    BY <1>1 DEF Held
  <1>3. LetsGo(mirror')
    BY <1>1 DEF LetsGo
  <1> QED BY <1>1, <1>2, <1>3 DEF FetchInv

LEMMA FetchEndsIt ==
  ASSUME FetchInv, NEW end_, end_ \in {"closed", "errored", "cancelled"}, mirror.at = "readable",
         mirror' = [O!Released(mirror) EXCEPT !.at = end_, !.pulling = FALSE],
         holds' = O!LetGo(mirror), UNCHANGED <<request, whole>>
  PROVE  FetchInv'
  <1>1. /\ whole \in Seq({"reading", "rejected", "over"}) /\ Mirrorlike(mirror) /\ LetsGo(mirror)
        /\ Held(request, whole, mirror, holds) /\ request' = request /\ whole' = whole
    BY DEF FetchInv
  <1> DEFINE r == [mirror EXCEPT !.released = TRUE]
  <1>2. mirror' = [r EXCEPT !.at = end_, !.pulling = FALSE]
    BY DEF O!Released
  <1>3. Mirrorlike(r) /\ r.released
    BY <1>1 DEF Mirrorlike
  <1> HIDE DEF r
  <1>4. Mirrorlike(mirror') /\ mirror'.released /\ mirror'.at # "readable"
    BY <1>2, <1>3 DEF Mirrorlike
  <1>5. Held(request', whole', mirror', holds')
    <2>1. holds' = IF mirror.refed /\ ~ mirror.released THEN holds - 1 ELSE holds
      BY DEF O!LetGo
    <2>2. Cardinality(Reading(whole)) \in Nat
      BY <1>1, HeldIs
    <2> QED BY <1>1, <1>4, <2>1, <2>2 DEF Held
  <1> QED BY <1>1, <1>4, <1>5 DEF FetchInv, LetsGo

LEMMA FetchStep ==
  ASSUME FetchInv, O!FetchNext PROVE FetchInv'
  <1>0. /\ whole \in Seq({"reading", "rejected", "over"}) /\ Mirrorlike(mirror) /\ LetsGo(mirror)
        /\ Held(request, whole, mirror, holds) /\ IsFiniteSet(Reading(whole))
        /\ Cardinality(Reading(whole)) \in Nat /\ holds \in Nat
    BY HeldIs DEF FetchInv
  <1>1. CASE O!FetchAnswers
    <2>1. request = "pending" /\ request' # "pending" /\ holds' = holds - 1 /\ UNCHANGED <<whole, mirror>>
      BY <1>1 DEF O!FetchAnswers
    <2>2. Held(request', whole', mirror', holds')
      BY <1>0, <2>1 DEF Held
    <2> QED BY <1>0, <2>1, <2>2 DEF FetchInv
  <1>2. CASE O!Whole
    <2>1. PICK v : v \in {"reading", "rejected"} /\ whole' = Append(whole, v)
      BY <1>2 DEF O!Whole
    <2>2. holds' = holds + 1 /\ UNCHANGED <<request, mirror>>
      BY <1>2 DEF O!Whole
    <2>3. /\ whole' \in Seq({"reading", "rejected", "over"}) /\ IsFiniteSet(Reading(whole'))
          /\ Cardinality(Reading(whole')) = Cardinality(Reading(whole)) + 1
      BY <1>0, <2>1, OneReads
    <2>4. Held(request', whole', mirror', holds')
      BY <1>0, <2>2, <2>3 DEF Held
    <2> QED BY <1>0, <2>2, <2>3, <2>4 DEF FetchInv
  <1>3. ASSUME NEW k \in DOMAIN whole, O!WholeEnds(k) PROVE FetchInv'
    <2>1. /\ whole' = [whole EXCEPT ![k] = "over"] /\ whole[k] # "over" /\ holds' = holds - 1
          /\ UNCHANGED <<request, mirror>>
      BY <1>3 DEF O!WholeEnds
    <2>2. /\ whole' \in Seq({"reading", "rejected", "over"}) /\ IsFiniteSet(Reading(whole'))
          /\ Cardinality(Reading(whole')) = Cardinality(Reading(whole)) - 1
      BY <1>0, <2>1, OneStops
    <2>3. Held(request', whole', mirror', holds')
      BY <1>0, <2>1, <2>2 DEF Held
    <2> QED BY <1>0, <2>1, <2>2, <2>3 DEF FetchInv
  <1>4. CASE \E room \in Views : O!Read(room)
    <2>1. UNCHANGED <<request, whole, mirror, holds>>
      BY <1>4 DEF O!Read
    <2> QED BY <2>1, FetchUnchanged
  <1>5. CASE O!PullStarts
    <2> DEFINE s == [mirror EXCEPT !.refed = TRUE]
    <2>1. /\ mirror.at = "readable" /\ UNCHANGED <<request, whole>>
          /\ holds' = IF mirror.refed \/ mirror.released THEN holds ELSE holds + 1
          /\ \/ mirror' = [s EXCEPT !.at = "errored", !.torn = TRUE]
             \/ O!Given([s EXCEPT !.leftover = <<>>], s.leftover)
             \/ mirror' = [s EXCEPT !.pulling = TRUE]
      BY <1>5 DEF O!PullStarts
    <2>2. ~ mirror.released
      BY <1>0, <2>1 DEF LetsGo
    <2>3. /\ Mirrorlike(s) /\ s.refed /\ s.released = mirror.released /\ s.at = mirror.at /\ s.torn = mirror.torn
      BY <1>0 DEF Mirrorlike
    <2> HIDE DEF s
    <2>4. Mirrorlike(mirror') /\ mirror'.refed /\ ~ mirror'.released /\ LetsGo(mirror')
      <3>1. CASE mirror' = [s EXCEPT !.at = "errored", !.torn = TRUE]
        BY <2>2, <2>3, <3>1 DEF Mirrorlike, LetsGo
      <3>2. CASE O!Given([s EXCEPT !.leftover = <<>>], s.leftover)
        <4> DEFINE t == [s EXCEPT !.leftover = <<>>]
        <4>1. Mirrorlike(t) /\ t.refed /\ t.released = mirror.released /\ t.at = mirror.at /\ t.torn = mirror.torn
          BY <2>3 DEF Mirrorlike
        <4>2. O!Given(t, s.leftover)
          BY <3>2
        <4> HIDE DEF t
        <4>3. /\ Mirrorlike(mirror') /\ mirror'.at = t.at /\ mirror'.refed = t.refed
              /\ mirror'.released = t.released /\ mirror'.torn = t.torn
          BY <4>1, <4>2, GivenIs
        <4> QED BY <2>1, <2>2, <4>1, <4>3 DEF LetsGo
      <3>3. CASE mirror' = [s EXCEPT !.pulling = TRUE]
        BY <2>1, <2>2, <2>3, <3>3 DEF Mirrorlike, LetsGo
      <3> QED BY <2>1, <3>1, <3>2, <3>3
    <2>5. Held(request', whole', mirror', holds')
      BY <1>0, <2>1, <2>2, <2>4 DEF Held, Mirrorlike
    <2> QED BY <1>0, <2>1, <2>4, <2>5 DEF FetchInv
  <1>6. CASE O!PullGets
    <2>1. UNCHANGED <<request, whole, holds>>
      BY <1>6 DEF O!PullGets
    <2>2. mirror' = mirror \/ O!Given(mirror, Head(source.left))
      BY <1>6 DEF O!PullGets
    <2>3. CASE mirror' = mirror
      BY <2>1, <2>3, FetchUnchanged
    <2>4. CASE O!Given(mirror, Head(source.left))
      BY <1>0, <2>1, <2>4, GivenIs, FetchStays
    <2> QED BY <2>2, <2>3, <2>4
  <1>7. CASE O!PullEnds
    <2>1. PICK e : e \in {"closed", "errored"} /\ mirror' = [O!Released(mirror) EXCEPT !.at = e, !.pulling = FALSE]
      BY <1>7 DEF O!PullEnds
    <2>2. mirror.at = "readable" /\ holds' = O!LetGo(mirror) /\ UNCHANGED <<request, whole>>
      BY <1>7 DEF O!PullEnds
    <2> QED BY <2>1, <2>2, FetchEndsIt
  <1>8. CASE O!Cancel
    BY <1>8, FetchEndsIt DEF O!Cancel
  <1> QED BY <1>1, <1>2, <1>3, <1>4, <1>5, <1>6, <1>7, <1>8 DEF O!FetchNext

LEMMA FetchHolds ==
  ASSUME FetchInv PROVE O!HeldWhileAwaited
  <1>1. /\ LetsGo(mirror) /\ Held(request, whole, mirror, holds) /\ Cardinality(Reading(whole)) \in Nat
        /\ IsFiniteSet(Reading(whole)) /\ holds \in Nat
    BY HeldIs DEF FetchInv
  <1>2. (\E k \in DOMAIN whole : whole[k] # "over") <=> Reading(whole) # {}
    BY DEF Reading
  <1>3. Cardinality(Reading(whole)) = 0 <=> Reading(whole) = {}
    BY <1>1, FS_EmptySet
  <1>4. O!Awaited => holds > 0
    BY <1>1, <1>2, <1>3 DEF O!Awaited, Held, LetsGo
  <1>5. ~ O!Awaited /\ ~ mirror.torn => holds = 0
    BY <1>1, <1>2, <1>3 DEF O!Awaited, Held, LetsGo
  <1> QED BY <1>4, <1>5 DEF O!HeldWhileAwaited

-----------------------------------------------------------------------------
(* The whole *)

NetworkInv == SocketsInv /\ PeerInv /\ ParserInv /\ RelayInv /\ WebInv /\ DuplexInv /\ FetchInv

LEMMA NetworkStarts ==
  ASSUME Init PROVE NetworkInv
  BY SocketsStart, PeerStarts, ParserStarts, RelayStarts, WebStarts, DuplexStarts, FetchStarts
     DEF Init, NetworkInv

\* What a part of the network leaves alone.
LEMMA SocketsRest == ASSUME SocketsInv, UNCHANGED socket PROVE SocketsInv'
  BY SocketsUnchanged

LEMMA ParserRest == ASSUME ParserInv, UNCHANGED parser PROVE ParserInv'
  <1>1. UNCHANGED <<p, records, parsers>>
    BY DEF parser
  <1> QED BY <1>1, ParserUnchanged

LEMMA RelayRest == ASSUME RelayInv, UNCHANGED relay PROVE RelayInv'
  <1>1. UNCHANGED <<token, relays, clients, service, calls>>
    BY DEF relay
  <1> QED BY <1>1, RelayUnchanged

LEMMA WebRest == ASSUME WebInv, DuplexInv, FetchInv, UNCHANGED web PROVE WebInv' /\ DuplexInv' /\ FetchInv'
  <1>1. UNCHANGED <<x, conn, inbox, came, sends, wire, events>>
    BY DEF web
  <1>2. UNCHANGED <<duplex, line>>
    BY DEF web
  <1>3. UNCHANGED <<request, whole, mirror, holds>>
    BY DEF web
  <1> QED BY <1>1, <1>2, <1>3, WebUnchanged, DuplexUnchanged, FetchUnchanged

LEMMA NetworkStep ==
  ASSUME NetworkInv, Next PROVE NetworkInv'
  <1> USE DEF NetworkInv
  <1>1. CASE Socket(S!Next)
    <2>1. S!Next /\ UNCHANGED peer /\ UNCHANGED parser /\ UNCHANGED relay /\ UNCHANGED web
      BY <1>1 DEF Socket, Part
    <2> QED BY <2>1, SocketsStep, PeerUnchanged, ParserRest, RelayRest, WebRest
  <1>2. CASE Peer(C!Next)
    <2>1. C!Next /\ UNCHANGED socket /\ UNCHANGED parser /\ UNCHANGED relay /\ UNCHANGED web
      BY <1>2 DEF Peer, Part
    <2> QED BY <2>1, SocketsUnchanged, PeerStep, ParserRest, RelayRest, WebRest
  <1>3. CASE Part("http2", H!Next, <<socket, peer, parser, zlib, relay, web>>)
    <2>1. UNCHANGED socket /\ UNCHANGED peer /\ UNCHANGED parser /\ UNCHANGED relay /\ UNCHANGED web
      BY <1>3 DEF Part
    <2> QED BY <2>1, SocketsUnchanged, PeerUnchanged, ParserRest, RelayRest, WebRest
  <1>4. CASE Part("parser", P!Next, <<socket, peer, http2, zlib, relay, web>>)
    <2>1. P!Next /\ UNCHANGED socket /\ UNCHANGED peer /\ UNCHANGED relay /\ UNCHANGED web
      BY <1>4 DEF Part
    <2> QED BY <2>1, SocketsUnchanged, PeerUnchanged, ParserStep, RelayRest, WebRest
  <1>5. CASE Part("zlib", Z!Next, <<socket, peer, http2, parser, relay, web>>)
    <2>1. UNCHANGED socket /\ UNCHANGED peer /\ UNCHANGED parser /\ UNCHANGED relay /\ UNCHANGED web
      BY <1>5 DEF Part
    <2> QED BY <2>1, SocketsUnchanged, PeerUnchanged, ParserRest, RelayRest, WebRest
  <1>6. CASE Part("relay", R!Next, <<socket, peer, http2, parser, zlib, web>>)
    <2>1. R!Next /\ UNCHANGED socket /\ UNCHANGED peer /\ UNCHANGED parser /\ UNCHANGED web
      BY <1>6 DEF Part
    <2> QED BY <2>1, SocketsUnchanged, PeerUnchanged, ParserRest, RelayStep, WebRest
  <1>7. CASE Part("websocket", O!Next, <<socket, peer, http2, parser, zlib, relay,
                                         duplex, line, request, whole, source, mirror, reads, read, holds>>)
    <2>1. /\ O!Next /\ UNCHANGED socket /\ UNCHANGED peer /\ UNCHANGED parser /\ UNCHANGED relay
          /\ UNCHANGED <<duplex, line>> /\ UNCHANGED <<request, whole, mirror, holds>>
      BY <1>7 DEF Part
    <2> QED BY <2>1, SocketsUnchanged, PeerUnchanged, ParserRest, RelayRest, WebStep, DuplexUnchanged, FetchUnchanged
  <1>8. CASE Part("duplex", O!StreamNext, <<socket, peer, http2, parser, zlib, relay, x, conn, inbox, came, sends,
                              wire, events, request, whole, source, mirror, reads, read, holds>>)
    <2>1. /\ O!StreamNext /\ UNCHANGED socket /\ UNCHANGED peer /\ UNCHANGED parser /\ UNCHANGED relay
          /\ UNCHANGED <<x, conn, inbox, came, sends, wire, events>> /\ UNCHANGED <<request, whole, mirror, holds>>
      BY <1>8 DEF Part
    <2> QED BY <2>1, SocketsUnchanged, PeerUnchanged, ParserRest, RelayRest, WebUnchanged, DuplexStep, FetchUnchanged
  <1>9. CASE Part("fetch", O!FetchNext, <<socket, peer, http2, parser, zlib, relay, x, conn, inbox, came, sends,
                             wire, events, duplex, line>>)
    <2>1. /\ O!FetchNext /\ UNCHANGED socket /\ UNCHANGED peer /\ UNCHANGED parser /\ UNCHANGED relay
          /\ UNCHANGED <<x, conn, inbox, came, sends, wire, events>> /\ UNCHANGED <<duplex, line>>
      BY <1>9 DEF Part
    <2> QED BY <2>1, SocketsUnchanged, PeerUnchanged, ParserRest, RelayRest, WebUnchanged, DuplexUnchanged, FetchStep
  <1> QED BY <1>1, <1>2, <1>3, <1>4, <1>5, <1>6, <1>7, <1>8, <1>9 DEF Next

LEMMA NetworkStays ==
  ASSUME NetworkInv, UNCHANGED vars PROVE NetworkInv'
  <1>1. UNCHANGED socket /\ UNCHANGED peer /\ UNCHANGED parser /\ UNCHANGED relay /\ UNCHANGED web
    BY DEF vars
  <1> QED BY <1>1, SocketsUnchanged, PeerUnchanged, ParserRest, RelayRest, WebRest DEF NetworkInv

\* What is over holds nothing, whatever the bounds: a terminated worker no socket, a channel that
\* was shut down no connection, a server's list no parser that serves nobody, a closed service no
\* stream and a relay or a client that could not be had no caller, a WebSocket that was closed or a
\* WebSocketStream that was given up no connection, and a fetch nobody waits for no hold on the run.
THEOREM NothingIsLeft == FairSpec => []NothingLeft
  <1>1. Init => NetworkInv
    BY NetworkStarts
  <1>2. NetworkInv /\ [Next]_vars => NetworkInv'
    BY NetworkStep, NetworkStays
  <1>3. NetworkInv => NothingLeft
    BY ParserHolds, RelayHolds, WebHolds, DuplexHolds, FetchHolds DEF NetworkInv, SocketsInv, PeerInv, NothingLeft
  <1> QED BY <1>1, <1>2, <1>3, PTL DEF FairSpec
=============================================================================
