------------------------------ MODULE MCNetwork ------------------------------
(***************************************************************************)
(* Network for TLC.                                                        *)
(***************************************************************************)
EXTENDS Network

CONSTANTS c1, c2

\* One client of which the program makes all it can, of another machine, or of a server that has
\* room for it or not; or two, the second of which may dial a server that was closed with the
\* first one's connection, and listens again.
MCPlans ==
  {[dials |-> {c1}, remote |-> m[1], quiet |-> {}, drops |-> {<<c1, "client">>, <<c1, "far">>},
    listens |-> 1, limit |-> m[2]] : m \in {<<{c1}, 1>>, <<{}, 1>>, <<{}, 0>>}}
    \cup {[dials |-> {c1, c2}, remote |-> {}, quiet |-> {c1, c2}, drops |-> {<<c1, "far">>},
           listens |-> 2, limit |-> 1]}

\* A write of two bytes, and one of two chunks the second of which is empty.
MCShapes == {<<2>>, <<1, 0>>}

\* A header whose name and value may be cut, and a trailer without a value.
MCMessages == {[spans |-> <<2, 2, 1, 0>>, headers |-> 2]}

\* Every text of two units, and some of several members, cut off, padded or bad.
MCTexts == UNION {[1 .. n -> {2, 1, 0, -1, -2}] : n \in 0 .. 2}
             \cup {<<1, 0, 3, 0>>, <<1, 0, 1, 0, -1>>, <<1, 0, 2>>, <<2, 0, -2>>, <<3, 3, 0>>}

MCJobs ==
  [kind : {"gunzip", "inflate", "unzip", "brotliDecode"}, text : MCTexts]
    \cup [kind : {"deflate", "brotliEncode"}, text : {<<>>, <<1, 1, 1>>}]

\* Bodies whose chunks are empty, or more than a reader's buffer has room for.
MCBodies == {<<<<1, 2, 3>>, <<>>>>, <<<<>>, <<1>>>>, <<<<1, 2>>, <<3, 4>>>>, <<<<>>, <<>>>>}
==============================================================================
