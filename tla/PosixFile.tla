------------------------------ MODULE PosixFile ------------------------------
(***************************************************************************)
(* What an open file promises its program: one file, one offset, every     *)
(* operation happens at one moment, the one it is answered at, and what    *)
(* fsync or close confirmed is in storage.  No buffers, no round trips, no *)
(* queue.  FileHandles implements it.                                      *)
(***************************************************************************)
EXTENDS Integers, Sequences

CONSTANTS
  Ops,        \* the operations: [id, t, pos, len]; one that writes writes <<id>>
  Null,       \* a positionless read or write: use the offset
  Failed      \* the answer of an operation that failed

VARIABLES
  content,    \* the bytes of the file, as this descriptor sees them
  stable,     \* the bytes in storage
  offset,     \* the descriptor's offset
  opened,     \* the descriptor has been made
  append,     \* it was opened with O_APPEND
  answer      \* the answer to the last operation

vars == <<content, stable, offset, opened, append, answer>>

flags == <<opened, append>>

\* The bytes b resized to n, zero-filled where they grow.
Resized(b, n) == [i \in 1..n |-> IF i <= Len(b) THEN b[i] ELSE 0]

\* The bytes b with t written at offset at.
Written(b, at, t) ==
  [Resized(b, IF at >= Len(b) THEN at + 1 ELSE Len(b)) EXCEPT ![at + 1] = t]

Slice(b, from, to) == SubSeq(b, from + 1, IF to > Len(b) THEN Len(b) ELSE to)

At(o) == IF o.pos = Null THEN offset ELSE o.pos

Reply(o, res) == answer' = [id |-> o.id, res |-> res]

\* write(2), or pwrite(2) with a position; O_APPEND means the end of the file.
Write(o) ==
  LET at == IF append THEN Len(content) ELSE At(o)
  IN /\ o.t = "write"
     /\ content' = Written(content, at, o.id)
     /\ offset' = IF append \/ o.pos = Null THEN at + 1 ELSE offset
     /\ Reply(o, <<>>)
     /\ UNCHANGED <<stable, flags>>

AppendFile(o) ==
  /\ o.t = "appendFile"
  /\ content' = Append(content, o.id)
  /\ offset' = Len(content) + 1
  /\ Reply(o, <<>>)
  /\ UNCHANGED <<stable, flags>>

\* The whole file is replaced.
WriteFile(o) ==
  /\ o.t = "writeFile"
  /\ content' = <<o.id>>
  /\ offset' = 1
  /\ Reply(o, <<>>)
  /\ UNCHANGED <<stable, flags>>

Truncate(o) ==
  /\ o.t = "truncate"
  /\ content' = Resized(content, o.len)
  /\ Reply(o, <<>>)
  /\ UNCHANGED <<offset, stable, flags>>

Read(o) ==
  LET got == Slice(content, At(o), At(o) + o.len)
  IN /\ o.t = "read"
     /\ Reply(o, got)
     /\ offset' = IF o.pos = Null THEN offset + Len(got) ELSE offset
     /\ UNCHANGED <<content, stable, flags>>

\* From the offset to the end.
ReadFile(o) ==
  /\ o.t = "readFile"
  /\ Reply(o, Slice(content, offset, Len(content)))
  /\ offset' = Len(content)
  /\ UNCHANGED <<content, stable, flags>>

Stat(o) ==
  /\ o.t = "stat"
  /\ Reply(o, <<Len(content)>>)
  /\ UNCHANGED <<content, stable, offset, flags>>

\* fsync and close: confirmed, so it is in storage.
Flush(o) ==
  /\ o.t \in {"sync", "close"}
  /\ stable' = content
  /\ Reply(o, <<>>)
  /\ UNCHANGED <<content, offset, flags>>

\* An operation that fails changes nothing the descriptor can see; a flush that
\* fails may have reached storage all the same ...
Fail(o) ==
  /\ Reply(o, Failed)
  /\ \/ UNCHANGED stable
     \/ o.t = "sync" /\ stable' = content
  /\ UNCHANGED <<content, offset, flags>>

\* ... and after a close that fails, storage is all there is.
CloseFails(o) ==
  /\ o.t = "close"
  /\ Reply(o, Failed)
  /\ stable' \in {stable, content}
  /\ content' = stable'
  /\ UNCHANGED <<offset, flags>>

\* The descriptor is made, on an empty file or on what is there; an open that
\* fails may have emptied the file.
Open ==
  /\ ~ opened
  /\ opened' \in BOOLEAN
  /\ content' \in {content, <<>>}
  /\ stable' = content'
  /\ append' \in BOOLEAN
  /\ UNCHANGED <<offset, answer>>

Init ==
  /\ content \in {<<>>, <<0>>}
  /\ stable = content
  /\ offset = 0
  /\ opened = FALSE /\ append = FALSE
  /\ answer = [id |-> 0, res |-> <<>>]

Next ==
  \/ Open
  \/ \E o \in Ops :
       \/ Write(o) \/ AppendFile(o) \/ WriteFile(o) \/ Truncate(o)
       \/ Read(o) \/ ReadFile(o) \/ Stat(o) \/ Flush(o) \/ Fail(o) \/ CloseFails(o)

Spec == Init /\ [][Next]_vars
=============================================================================
