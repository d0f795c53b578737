------------------------------ MODULE HttpParser ------------------------------
(***************************************************************************)
(* The parser of node:http over llhttp, and the list of a server's         *)
(* connections (node-core/internal-binding/http_parser/index.js).          *)
(*                                                                         *)
(* llhttp is external: it hands on the names and values of headers in      *)
(* spans, cut wherever the bytes that came were cut, and a pointer that    *)
(* was freed is given out again.  So is node's own module: it keeps        *)
(* parsers for the next connection, and destroys those it cannot keep.     *)
(***************************************************************************)
EXTENDS Integers, Sequences, FiniteSets, FiniteSetsExt

CONSTANTS
  Parsers,
  Messages,      \* spans: the lengths of names and values, in turn; headers: how many are before the body
  MaxMessages    \* bound: messages that are begun

VARIABLES
  p,             \* the parsers
  records,       \* ConnectionsList: of each pointer, the parser and whether it is active
  parsers,       \* the parsers by pointer, for the callbacks
  shown          \* the message and the headers that were handed on last, by parser

vars == <<p, records, parsers, shown>>

Pointers == 1 .. Cardinality(Parsers)

Nobody == "nobody"

NoRecord == [parser |-> Nobody, active |-> FALSE]

NoMessage == [spans |-> <<>>, headers |-> 0]

Nothing == [of |-> NoMessage, headers |-> <<>>]

\* at: what llhttp is in; span: the name or value it is at, and how much of it was read.
NoParser ==
  [ptr |-> 0, ready |-> FALSE, list |-> FALSE, at |-> "none", failed |-> FALSE, message |-> NoMessage,
   span |-> 0, read |-> 0, begun |-> 0, fields |-> <<>>, values |-> <<>>, last |-> "none"]

\* _resetState.
Reset(q) == [q EXCEPT !.fields = <<>>, !.values = <<>>, !.last = "none"]

-----------------------------------------------------------------------------
(* What node's module calls *)

\* The constructor takes memory that is free.
New(x) == \E ptr \in Pointers :
  /\ p[x].ptr = 0 /\ parsers[ptr] = Nobody
  /\ p' = [p EXCEPT ![x] = [NoParser EXCEPT !.ptr = ptr, !.begun = p[x].begun]]
  /\ parsers' = [parsers EXCEPT ![ptr] = x] /\ UNCHANGED <<records, shown>>

Detached(q) == IF q.list THEN [records EXCEPT ![q.ptr] = NoRecord] ELSE records

\* initialize, of a new parser or of one that served another connection, in whatever it was.
Initialize(x, list) ==
  /\ p[x].ptr # 0 /\ ~ p[x].ready
  /\ p' = [p EXCEPT ![x] = [Reset(p[x]) EXCEPT !.ready = TRUE, !.list = list, !.at = "none", !.failed = FALSE]]
  /\ records' = IF list THEN [records EXCEPT ![p[x].ptr] = [parser |-> x, active |-> FALSE]] ELSE Detached(p[x])
  /\ UNCHANGED <<parsers, shown>>

\* remove: the connection is over, and the parser is kept.
Remove(x) ==
  /\ p[x].ready /\ p' = [p EXCEPT ![x].ready = FALSE] /\ records' = Detached(p[x])
  /\ UNCHANGED <<parsers, shown>>

\* destroy, in a callback of the parser too.
Destroy(x) ==
  /\ p[x].ptr # 0 /\ p' = [p EXCEPT ![x] = [NoParser EXCEPT !.begun = p[x].begun]]
  /\ records' = Detached(p[x]) /\ parsers' = [parsers EXCEPT ![p[x].ptr] = Nobody]
  /\ UNCHANGED shown

-----------------------------------------------------------------------------
(* The callbacks of llhttp_execute *)

\* A callback is for the parser of its pointer.
Called(x) == p[x].ready /\ parsers[p[x].ptr] = x /\ ~ p[x].failed

\* _markActive, _markIdle: of a parser that is listed.
Marked(q, active) ==
  IF q.list /\ records[q.ptr] # NoRecord THEN [records EXCEPT ![q.ptr].active = active] ELSE records

Fresh(q) == Reset(q)

MessageBegin(x) == \E m \in Messages :
  /\ Called(x) /\ p[x].at = "none" /\ MapThenSumSet(LAMBDA y : p[y].begun, Parsers) < MaxMessages
  /\ p' = [p EXCEPT ![x] = [Fresh(p[x]) EXCEPT !.begun = @ + 1, !.at = "headers", !.message = m, !.span = 0, !.read = 0]]
  /\ records' = Marked(p[x], TRUE) /\ UNCHANGED <<parsers, shown>>

\* A name or a value, each of its bytes known by which of them it is of.
Text(i, n) == [k \in 1 .. n |-> i]

ExtendLast(list, text) == [list EXCEPT ![Len(list)] = @ \o text]

\* _appendHeaderField: the rest of a name that was cut, or a new one.
WithField(q, text) ==
  [q EXCEPT !.fields = IF q.last = "field" /\ Len(q.fields) > Len(q.values) THEN ExtendLast(@, text)
                       ELSE Append(@, text),
            !.last = "field"]

\* _appendHeaderValue.
WithValue(q, text) ==
  [q EXCEPT !.values = IF q.last = "value" /\ Len(q.values) = Len(q.fields) THEN ExtendLast(@, text)
                       ELSE Append(@, text),
            !.last = "value"]

SpanLength(q) == IF q.span = 0 THEN 0 ELSE q.message.spans[q.span]

IsRead(q) == q.read = SpanLength(q)

\* n bytes of a name or a value: the next one's first, or more of one that a chunk cut, which
\* may turn out to have none left.  After the body they are trailers.
Span(x, i, n) ==
  LET q == p[x]
      total == (IF i = q.span THEN q.read ELSE 0) + n
      at == [q EXCEPT !.span = i, !.read = total]
  IN  /\ Called(x) /\ q.at # "none"
      /\ i <= (IF q.at = "headers" THEN q.message.headers ELSE Len(q.message.spans))
      /\ \/ i = q.span /\ i > 0
         \/ i = q.span + 1 /\ IsRead(q) /\ (n = 0 => q.message.spans[i] = 0)
      /\ q.at = "body" => i > q.message.headers
      /\ total <= q.message.spans[i]
      /\ p' = [p EXCEPT ![x] = IF i % 2 = 1 THEN WithField(at, Text(i, n)) ELSE WithValue(at, Text(i, n))]
      /\ UNCHANGED <<records, parsers, shown>>

\* buildHeaders: a name whose value never came has an empty one.
BuildHeaders(q) ==
  [k \in 1 .. Len(q.fields) |-> <<q.fields[k], IF k <= Len(q.values) THEN q.values[k] ELSE <<>>>>]

HeadersComplete(x) ==
  /\ Called(x) /\ p[x].at = "headers" /\ p[x].span = p[x].message.headers /\ IsRead(p[x])
  /\ p' = [p EXCEPT ![x].at = "body"]
  /\ shown' = [shown EXCEPT ![x] = [of |-> p[x].message, headers |-> BuildHeaders(p[x])]]
  /\ UNCHANGED <<records, parsers>>

MessageComplete(x) ==
  /\ Called(x) /\ p[x].at = "body" /\ p[x].span = Len(p[x].message.spans) /\ IsRead(p[x])
  /\ p' = [p EXCEPT ![x].at = "none"]
  /\ records' = Marked(p[x], FALSE) /\ UNCHANGED <<parsers, shown>>

\* Bytes that are no message: execute returns the error, and llhttp does nothing more.
Fails(x) ==
  /\ Called(x) /\ p' = [p EXCEPT ![x].failed = TRUE] /\ UNCHANGED <<records, parsers, shown>>

-----------------------------------------------------------------------------
Init ==
  /\ p = [x \in Parsers |-> NoParser] /\ records = [ptr \in Pointers |-> NoRecord]
  /\ parsers = [ptr \in Pointers |-> Nobody] /\ shown = [x \in Parsers |-> Nothing]

MaxSpans == CHOOSE n \in {Len(m.spans) : m \in Messages} : \A m \in Messages : Len(m.spans) <= n

Next == \E x \in Parsers :
  \/ New(x) \/ Remove(x) \/ Destroy(x) \/ MessageBegin(x) \/ HeadersComplete(x) \/ MessageComplete(x) \/ Fails(x)
  \/ \E list \in BOOLEAN : Initialize(x, list)
  \/ \E i \in 1 .. MaxSpans, n \in 0 .. 2 : Span(x, i, n)

-----------------------------------------------------------------------------
(* Properties *)

\* The headers that a program is shown are those of the message, name by name and value by value,
\* wherever the chunks of it were cut and whatever the parser read before: another message of the
\* connection, its trailers, or half a message of another connection (_appendHeaderField,
\* _appendHeaderValue, _resetState).
HeadersWhole == \A x \in Parsers :
  LET m == shown[x].of IN
  shown[x].headers = [k \in 1 .. m.headers \div 2 |->
                       <<Text(2 * k - 1, m.spans[2 * k - 1]), Text(2 * k, m.spans[2 * k])>>]

\* A server's list has the connections that it serves and no other, each under the pointer of its
\* parser though pointers are used again, and takes for active those in the middle of a message,
\* for whom it has a timeout (ConnectionsList).
ListsTrue == \A ptr \in Pointers :
  IF records[ptr] # NoRecord
  THEN LET x == records[ptr].parser IN
       /\ parsers[ptr] = x /\ p[x].ptr = ptr /\ p[x].ready /\ p[x].list
       /\ records[ptr].active <=> p[x].at # "none"
  ELSE parsers[ptr] # Nobody => ~ (p[parsers[ptr]].ready /\ p[parsers[ptr]].list)
=============================================================================
