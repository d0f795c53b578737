------------------------------ MODULE MCReadCache ------------------------------
(* Small instances of ReadCache for TLC. *)
EXTENDS ReadCache

d == <<"d">>
a == <<"d", "a">>
b == <<"b">>

MCPaths == {d, a, b}

\* A directory with a file in it.
MCOrigin ==
  {[p \in MCPaths |-> IF p = d THEN There(d) ELSE IF p = a THEN Text(a) ELSE Absent]}

\* Or with nothing in it.
MCOrigins == MCOrigin \cup {[p \in MCPaths |-> IF p = d THEN There(d) ELSE Absent]}

\* Everything, by a recursive listing, and directories for themselves, of which a
\* limit may leave a part out of d.
MCListings == {<<Root, 2, TRUE>>, <<Root, 1, TRUE>>, <<d, 1, FALSE>>}

\* What is asked for by name.
MCFiles == {a, b}
MCFile  == {a}
================================================================================
