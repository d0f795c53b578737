------------------------------- MODULE ReadCache -------------------------------
(***************************************************************************)
(* The read cache in front of a remote file system (lib/vfs/cache.ts).     *)
(* One tree remembers stats, contents, listings and absences.  Each call   *)
(* of the provider is an await: other calls, the news of the change feed   *)
(* and stale marks come in between.  Other clients write to the same       *)
(* remote, which names what changed in events that arrive later, in order. *)
(*                                                                         *)
(* A path is a sequence of names.  The remote answers a request in the     *)
(* step that sends it; what comes late is the answer.  The readers are not *)
(* state: what they would be told is an operator (CachedStat, CachedRead,  *)
(* CachedList), and a reader the tree cannot satisfy may send its request  *)
(* at any time.  seedSubtree is such a request, for a deeper listing.      *)
(* Which contents are let go when there are too many is left open; statfs, *)
(* which caches one number for a time, is left out.                        *)
(***************************************************************************)
EXTENDS Integers, Sequences, FiniteSets, SequencesExt

CONSTANTS
  Paths,         \* the paths in play: sequences of names, closed upwards
  Origin,        \* what may be at them from the start: a set of functions
  Ops,           \* bound: the mutations in play
  Asked,         \* bound: the paths that are asked for by name
  Listings,      \* bound: the listings asked for: of what path, how deep, and if all of it
  Behind,        \* TRUE: the feed may be behind, so the tree is not believed
  NoEntry,       \* no stat
  NoBytes,       \* no contents
  NoAnswer,      \* the tree cannot answer
  MaxFiles,      \* maxBytes, in files
  MaxGen,        \* bound: generations
  MaxChanges,    \* bound: changes of the remote
  MaxFlight      \* bound: calls of the provider under way

Root  == <<>>
Nodes == Paths \cup {Root}

\* relabel: a rename of another client by POST /rename, whose event names the new
\* path only.  empty: it removes what is in a directory.  rmForce: rm with force.
OwnOps    == {"write", "mkdir", "mkdirp", "rm", "rmForce", "rename", "utimes", "copy"}
OthersOps == {"write", "mkdir", "mkdirp", "rm", "rename", "relabel", "utimes", "copy", "empty"}

ASSUME CacheAssumption ==
  /\ Ops \subseteq OwnOps \cup OthersOps
  /\ Root \notin Paths /\ \A p \in Paths : Front(p) \in Nodes
  /\ Asked \subseteq Nodes
  /\ Listings \subseteq Nodes \X (Nat \ {0}) \X BOOLEAN
  /\ Behind \in BOOLEAN
  /\ MaxFiles \in Nat /\ MaxGen \in Nat \ {0} /\ MaxChanges \in Nat /\ MaxFlight \in Nat

VARIABLES
  past,      \* the remote: per path, everything it has been, the present last
  feed,      \* events on their way, oldest first
  cache,     \* the tree: a node for each path; and where each uid was seen last
  gen,       \* the generation: what carries an older one is not believed
  reads,     \* requests whose answer is on its way
  changes,   \* mutations of this side whose answer is on its way
  nchanges,  \* changes the remote has taken
  known,     \* history: per path, the last of its past this side was told of
  raced      \* history: the paths about which calls and news overlapped

vars == <<past, feed, cache, gen, reads, changes, nchanges, known, raced>>

-----------------------------------------------------------------------------
(* Paths and the remote *)

Under(p) == {q \in Nodes : IsPrefix(p, q)}
Below(p) == Under(p) \ {p}
Above(p) == {q \in Nodes : IsStrictPrefix(q, p)}
Within(p, k) == {q \in Below(p) : Len(q) - Len(p) <= k}

Absent == [kind |-> "none", uid |-> <<>>, stamp |-> 0, data |-> <<>>]
There(p) == [kind |-> "dir", uid |-> <<0, p>>, stamp |-> 0, data |-> <<>>]
Text(p) == [kind |-> "file", uid |-> <<0, p>>, stamp |-> 0, data |-> <<0, p>>]

Now(p) == IF p = Root THEN There(Root) ELSE Last(past[p])
Is(p, k) == Now(p).kind = k

\* What the remote is after a mutation, as far as it differs from now.
\* external: the api behind lib/vfs/puter.ts.
Fresh(k, p) ==
  [kind |-> k, uid |-> <<nchanges + 1, p>>, stamp |-> nchanges + 1,
   data |-> IF k = "file" THEN <<nchanges + 1, p>> ELSE <<>>]

Differs(f) == [q \in {r \in DOMAIN f : f[r] # Now(r)} |-> f[q]]

Written(p) ==
  IF Is(p, "file")
  THEN [q \in {p} |-> [Now(p) EXCEPT !.stamp = nchanges + 1, !.data = <<nchanges + 1, p>>]]
  ELSE [q \in {p} |-> Fresh("file", p)]

Created(p) == [q \in {r \in Above(p) \cup {p} : Is(r, "none")} |-> Fresh("dir", q)]
Removed(p) == Differs([q \in Under(p) |-> Absent])
Emptied(p) == Differs([q \in Below(p) |-> Absent])
Touched(p) == [q \in {p} |-> [Now(p) EXCEPT !.stamp = nchanges + 1]]
Copied(p, to) == [q \in {to} |-> [Fresh("file", to) EXCEPT !.data = Now(p).data]]

Moved(p, to) ==
  LET from(q) == p \o SubSeq(q, Len(to) + 1, Len(q))
  IN Differs([q \in Under(p) \cup Under(to) |->
                IF q \in Under(to) /\ from(q) \in Paths THEN Now(from(q)) ELSE Absent])

\* The ways op o of p (and to) can come out: what the paths it changes become.
\* None if it fails; a forced rm swallows its failure, and changes nothing.
Outcomes(o, p, to) ==
  LET in == Is(Front(p), "dir")
  IN CASE o = "write"   -> IF in /\ ~ Is(p, "dir") THEN {Written(p)} ELSE {}
       [] o = "mkdir"   -> IF in /\ Is(p, "none") THEN {Created(p)} ELSE {}
       [] o = "mkdirp"  -> IF \E q \in Above(p) \cup {p} : Is(q, "file") THEN {} ELSE {Created(p)}
       [] o = "rm"      -> IF Is(p, "none") THEN {} ELSE {Removed(p)}
       [] o = "rmForce" -> {Removed(p), <<>>}
       [] o = "empty"   -> IF Is(p, "dir") THEN {Emptied(p)} ELSE {}
       [] o = "utimes"  -> IF Is(p, "none") THEN {} ELSE {Touched(p)}
       [] o = "copy"    -> IF Is(p, "file") /\ ~ Is(to, "dir") /\ Is(Front(to), "dir")
                           THEN {Copied(p, to)} ELSE {}
       [] o \in {"rename", "relabel"} ->
                           IF /\ ~ Is(p, "none") /\ Is(Front(to), "dir")
                              /\ o = "relabel" => Front(p) = Front(to)
                              /\ ~ IsPrefix(p, to) /\ ~ IsPrefix(to, p)
                              /\ Is(to, "none") \/ (Is(p, "file") /\ Is(to, "file"))
                           THEN {Moved(p, to)} ELSE {}

Pairs(o) ==
  IF o \in {"copy", "rename", "relabel"} THEN {x \in Paths \X Paths : x[1] # x[2]}
  ELSE {<<p, p>> : p \in Paths}

\* The places in the pasts that a change adds, which are what its news tells.
Tells(f) == [q \in DOMAIN f |-> Len(past[q]) + 1]

Event(k, p, old, uid, tells) == [kind |-> k, path |-> p, old |-> old, uid |-> uid, tells |-> tells]

OnPath(f, p) == [q \in {p} \cap DOMAIN f |-> Tells(f)[q]]

\* The events of a change, in order; mkdir -p has one for each directory.
News(o, p, to, f) ==
  IF DOMAIN f = {} THEN <<>>
  ELSE CASE o = "write" -> <<Event(IF Is(p, "file") THEN "updated" ELSE "added", p, p, f[p].uid, Tells(f))>>
    [] o \in {"mkdir", "mkdirp"} ->
         [i \in 1..Cardinality(DOMAIN f) |->
            LET q == SubSeq(p, 1, Len(p) - Cardinality(DOMAIN f) + i)
            IN Event("added", q, q, f[q].uid, OnPath(f, q))]
    [] o \in {"rm", "rmForce"} -> <<Event("removed", p, p, Now(p).uid, Tells(f))>>
    [] o = "empty"  -> <<Event("emptied", p, p, Now(p).uid, Tells(f))>>
    [] o = "utimes" -> <<Event("updated", p, p, Now(p).uid, Tells(f))>>
    [] o = "copy"   -> <<Event("added", to, to, f[to].uid, Tells(f))>>
    [] o = "rename"  -> <<Event("moved", to, p, Now(p).uid, Tells(f))>>
    [] o = "relabel" -> <<Event("updated", to, to, Now(p).uid, Tells(f))>>

\* The remote takes the change; whoever is connected will hear of it.
Take(o, p, to, f) ==
  /\ nchanges < MaxChanges
  /\ nchanges' = nchanges + 1
  /\ past' = [q \in Paths |-> IF q \in DOMAIN f THEN Append(past[q], f[q]) ELSE past[q]]
  /\ feed' = feed \o News(o, p, to, f)

-----------------------------------------------------------------------------
(* The tree *)

NodeOf(k, e, b) == [kind |-> k, entry |-> e, bytes |-> b, depth |-> 0, gen |-> gen]
Nothing == [kind |-> "none", entry |-> NoEntry, bytes |-> NoBytes, depth |-> 0, gen |-> 0]
Bare    == NodeOf("dir", NoEntry, NoBytes)
Missing == NodeOf("missing", NoEntry, NoBytes)

Node(c, p) == c.node[p]
Live(c, p) == Node(c, p).gen = gen
Dir(c, p)  == Node(c, p).kind = "dir"

Uids(c, S) == {Node(c, q).entry.uid : q \in {r \in S : Node(c, r).entry # NoEntry}}
Unindex(u, S) == [x \in DOMAIN u \ S |-> u[x]]

\* forget: the nodes S leave the tree, and their uids the index.
Forget(c, S) ==
  [node |-> [q \in Nodes |-> IF q \in S THEN Nothing ELSE Node(c, q)],
   uid  |-> Unindex(c.uid, Uids(c, S))]

\* dirAt: directories all the way to p.  Making one says that the listing of the
\* directory it is in was not complete.
DirAt(c, p) ==
  LET new == {q \in Above(p) \cup {p} : ~ Dir(c, q)}
      d   == Forget(c, UNION {Under(q) : q \in new})
  IN [d EXCEPT !.node = [q \in Nodes |->
        IF q \in new THEN Bare
        ELSE IF \E r \in new : q = Front(r) THEN [Node(d, q) EXCEPT !.depth = 0]
        ELSE Node(d, q)]]

Indexed(c, p, n) ==
  IF n.entry = NoEntry THEN c.uid
  ELSE [u \in DOMAIN c.uid \cup {n.entry.uid} |-> IF u = n.entry.uid THEN p ELSE c.uid[u]]

SetNode(c, p, n) == [node |-> [c.node EXCEPT ![p] = n], uid |-> Indexed(c, p, n)]

\* replace: something else at p, or nothing.
Drop(c, p) == Forget(c, Under(p))
Replace(c, p, n) == SetNode(Forget(DirAt(c, Front(p)), Under(p)), p, n)

\* unseal: no ancestor of p is believed to be listed completely.
Unseal(c, p) ==
  [c EXCEPT !.node = [q \in Nodes |->
     IF q \in Above(p) THEN [Node(c, q) EXCEPT !.depth = 0] ELSE Node(c, q)]]

\* invalidate, with and without a replacement.
\* Mutation: without unseal.
Invalidate_KeepsClaims(c, p) == Drop(c, p)
Invalidate(c, p) == Drop(Unseal(c, p), p)
Supersede(c, p, n) == Replace(Unseal(c, p), p, n)

InvalidateChildren(c, p) ==
  IF Dir(c, p)
  THEN LET d == Forget(c, Below(p))
       IN [d EXCEPT !.node[p].depth = 0]
  ELSE Invalidate(c, p)

\* put: record one entry.  Contents survive under an unchanged identity, and what a
\* directory said of its children does not survive its generation.
\* Mutation: the time of the change is not compared.
SameFile_UidOnly(e, f) == e # NoEntry /\ e.uid = f.uid
SameFile(e, f) == e # NoEntry /\ e.uid = f.uid /\ e.stamp = f.stamp

Put(c, p, e) ==
  IF p = Root
  THEN [c EXCEPT !.node[Root].entry = e, !.node[Root].gen = gen]
  ELSE LET d == DirAt(c, Front(p))
           x == Node(d, p)
       IN IF x.kind # e.kind
          THEN SetNode(Forget(d, Under(p)), p, NodeOf(e.kind, e, NoBytes))
          ELSE SetNode(d, p, [x EXCEPT
                 !.entry = e, !.gen = gen,
                 !.depth = IF x.gen # gen THEN 0 ELSE @,
                 !.bytes = IF SameFile(x.entry, e) THEN @ ELSE NoBytes])

\* seal and reconcile: the children of the directories D are known, D[q] levels
\* down, and are among seen.

Closed(c, D, seen) ==
  LET gone == {q \in Nodes \ (seen \cup {Root}) : Front(q) \in DOMAIN D /\ Node(c, q).kind # "none"}
      d    == Forget(c, UNION {Under(q) : q \in gone})
  IN [d EXCEPT !.node = [q \in Nodes |->
        IF q \in gone THEN Missing
        ELSE IF q \in DOMAIN D
        THEN [Node(d, q) EXCEPT !.gen = gen,
                !.depth = IF @ > D[q] /\ Live(d, q) THEN @ ELSE D[q]]
        ELSE Node(d, q)]]

\* ingest: fold in a listing of p, k levels deep.  A directory at the horizon is
\* there, but its children were not asked for.
Ingest(c, p, k, E, complete) ==
  LET d == FoldSet(LAMBDA q, x : Put(x, q, E[q]), c, DOMAIN E)
      D == [q \in {p} \cup {r \in DOMAIN E : E[r].kind = "dir" /\ Len(r) - Len(p) < k} |->
              k - (Len(q) - Len(p))]
  IN IF complete THEN Closed(DirAt(d, p), D, DOMAIN E) ELSE d

-----------------------------------------------------------------------------
(* What a reader is told *)

\* believe: the node at p, an absence that follows from one above it, or nothing
\* that can be believed.
Believed(p) ==
  LET out  == {q \in Above(p) \cup {p} : ~ Dir(cache, q)}
      stop == CHOOSE q \in out : \A r \in out : IsPrefix(q, r)
      from == IF out = {} THEN p ELSE IF Node(cache, stop).kind = "none" THEN Front(stop) ELSE stop
      n    == Node(cache, from)
  IN IF ~ Live(cache, from) THEN NoAnswer
     ELSE IF from = p THEN n
     ELSE IF n.kind # "dir" \/ n.depth >= 1 THEN Missing
     ELSE NoAnswer

CachedStat(p) ==
  LET n == Believed(p)
  IN IF n = NoAnswer THEN NoAnswer
     ELSE IF n.kind = "missing" THEN Absent
     ELSE IF n.entry # NoEntry THEN n.entry ELSE NoAnswer

CachedRead(p) ==
  LET n == Believed(p)
  IN IF n = NoAnswer THEN NoAnswer
     ELSE IF n.kind = "missing" THEN Absent
     ELSE IF n.kind = "dir" THEN There(p)
     ELSE IF n.bytes # NoBytes THEN [Absent EXCEPT !.kind = "file", !.data = n.bytes]
     ELSE NoAnswer

\* listFromTree and collect.  The children are not looked at for themselves, except
\* that each must have a stat.
CachedList(p, k) ==
  LET n  == Believed(p)
      in == {q \in Within(p, k) : Node(cache, q).kind \in {"dir", "file"}}
  IN IF n = NoAnswer THEN NoAnswer
     ELSE IF n.kind # "dir" THEN [q \in {} |-> Absent]
     ELSE IF n.depth < k THEN NoAnswer
     ELSE IF \E q \in in : Node(cache, q).entry = NoEntry THEN NoAnswer
     ELSE [q \in in |-> Node(cache, q).entry]

-----------------------------------------------------------------------------
(* Requests *)

ReadCover(r) == {r.p} \cup Within(r.p, r.k)
ChangeCover(m) == {m.p, m.to} \cup DOMAIN m.tells
Flying == UNION ({ReadCover(r) : r \in reads} \cup {ChangeCover(m) : m \in changes})

Error(t, p) ==
  CASE \E q \in Above(p) : Is(q, "file") -> "ENOTDIR"
    [] Is(p, "none") -> "ENOENT"
    [] t = "list" /\ Is(p, "file") -> "ENOTDIR"
    [] t = "read" /\ Is(p, "dir") -> "EISDIR"
    [] OTHER -> "ok"

\* A request, which a second one for the same joins.  again: the answer is for a
\* revalidation.
Send(t, p, k, whole, again) ==
  LET same == {r \in reads : r.t = t /\ r.p = p /\ r.k = k /\ r.whole = whole}
      new  == [t |-> t, p |-> p, k |-> k, whole |-> whole, again |-> again, err |-> Error(t, p),
               got |-> [q \in {x \in {p} \cup Within(p, k) : ~ Is(x, "none")} |-> Now(q)]]
  IN /\ \/ /\ same = {}
           /\ Cardinality(reads) + Cardinality(changes) < MaxFlight
           /\ reads' = reads \cup {new}
           /\ raced' = raced \cup (ReadCover(new) \cap Flying)
        \/ /\ same # {} /\ again
           /\ reads' = (reads \ same) \cup {[r EXCEPT !.again = TRUE] : r \in same}
           /\ UNCHANGED raced
     /\ UNCHANGED <<past, feed, cache, gen, changes, nchanges, known>>

\* stat, readdir and readFile that the tree cannot answer, or may not.
Stat(p) == (Behind \/ CachedStat(p) = NoAnswer) /\ Send("stat", p, 0, TRUE, FALSE)
ReadFile(p) == (Behind \/ CachedRead(p) = NoAnswer) /\ Send("read", p, 0, TRUE, FALSE)
Readdir(p, k, whole) ==
  (Behind \/ CachedList(p, k) = NoAnswer) /\ Send("list", p, k, whole, FALSE)

\* revalidate: list the parent of a node of an earlier generation, if it was listed.
Revalidate(p) ==
  /\ Node(cache, p).kind # "none"
  /\ ~ Live(cache, p)
  /\ Node(cache, Front(p)).depth # 0
  /\ Send("list", Front(p), 1, TRUE, TRUE)

\* putMissing: an ENOENT is recorded.
NotThere(r) == IF r.err = "ENOENT" THEN Replace(cache, r.p, Missing) ELSE cache

StatArrives(r) ==
  /\ r.t = "stat"
  /\ cache' = IF r.err = "ok" THEN Put(cache, r.p, r.got[r.p]) ELSE NotThere(r)

\* A listing may come short, if there was a limit.
ListArrives(r) ==
  /\ r.t = "list"
  /\ IF r.err = "ok"
     THEN \E S \in SUBSET (DOMAIN r.got \ {r.p}) :
            LET all == S = DOMAIN r.got \ {r.p}
            IN /\ r.whole => all
               /\ cache' = Ingest(cache, r.p, r.k, [q \in S |-> r.got[q]], all)
     ELSE cache' = IF r.again THEN Invalidate(NotThere(r), r.p) ELSE NotThere(r)

\* admit: hold the contents, and let others go if they are too many.
Holding(c) == {q \in Nodes : Node(c, q).bytes # NoBytes}

Admit(c, p, b) ==
  IF MaxFiles = 0 THEN cache' = c
  ELSE LET d == [c EXCEPT !.node[p].bytes = b]
       IN IF Cardinality(Holding(d)) <= MaxFiles THEN cache' = d
          ELSE \E q \in Holding(d) \ {p} : cache' = [d EXCEPT !.node[q].bytes = NoBytes]

\* Contents that are small enough are kept, with a stat only if it is still believed.
ReadArrives(r) ==
  /\ r.t = "read"
  /\ IF r.err # "ok" THEN cache' = NotThere(r)
     ELSE LET n == Node(cache, r.p)
              e == IF n.kind = "file" /\ Live(cache, r.p) THEN n.entry ELSE NoEntry
          IN \/ Admit(Replace(cache, r.p, NodeOf("file", e, NoBytes)), r.p, r.got[r.p].data)
             \/ UNCHANGED cache

Arrive(r) ==
  /\ reads' = reads \ {r}
  /\ StatArrives(r) \/ ListArrives(r) \/ ReadArrives(r)
  /\ UNCHANGED <<past, feed, gen, changes, nchanges, known, raced>>

ReadFails(r) ==
  /\ reads' = reads \ {r}
  /\ UNCHANGED <<past, feed, cache, gen, changes, nchanges, known, raced>>

-----------------------------------------------------------------------------
(* Mutations, here and elsewhere *)

\* The session knows of the changes that tells names.
Told(tells) ==
  known' = [q \in Paths |->
              IF q \in DOMAIN tells /\ tells[q] > known[q] THEN tells[q] ELSE known[q]]

\* A mutation of this side, which the remote takes; its answer comes later.  That of
\* utimes tells nothing of what is at the path.
Change(o, p, to) ==
  /\ Cardinality(reads) + Cardinality(changes) < MaxFlight
  /\ \E f \in Outcomes(o, p, to) :
       LET m == [o |-> o, p |-> p, to |-> to, tells |-> IF o = "utimes" THEN <<>> ELSE Tells(f),
                 bytes |-> IF o = "write" THEN f[p].data ELSE NoBytes]
       IN /\ Take(o, p, to, f)
          /\ changes' = changes \cup {m}
          /\ raced' = raced \cup (ChangeCover(m) \cap Flying)
  /\ UNCHANGED <<cache, gen, reads, known>>

\* The answer to a mutation: what it may have made wrong is dropped.  The contents
\* of a write are known and small ones are kept; its stat is not known.
Settles(m) ==
  CASE m.o = "write" ->
         LET c == Supersede(cache, m.p, NodeOf("file", NoEntry, NoBytes))
         IN cache' = c \/ Admit(c, m.p, m.bytes)
    [] m.o \in {"mkdir", "mkdirp"} -> cache' = Invalidate(cache, m.p)
    [] m.o \in {"rm", "rmForce"} -> cache' = Supersede(cache, m.p, Missing)
    [] m.o = "rename" -> cache' = Invalidate(Supersede(cache, m.p, Missing), m.to)
    [] m.o = "copy"   -> cache' = Invalidate(cache, m.to)
    [] m.o = "utimes" -> cache' = [node |-> [cache.node EXCEPT ![m.p].entry = NoEntry],
                                   uid  |-> Unindex(cache.uid, Uids(cache, {m.p}))]

Settle(m) ==
  /\ changes' = changes \ {m}
  /\ Settles(m)
  /\ Told(m.tells)
  /\ UNCHANGED <<past, feed, gen, reads, nchanges, raced>>

\* The answer is lost, or an error: nothing is dropped, and only the feed tells.
ChangeFails(m) ==
  /\ changes' = changes \ {m}
  /\ UNCHANGED <<past, feed, cache, gen, reads, nchanges, known, raced>>

\* Another client changes the remote.
Foreign(o, p, to) ==
  /\ \E f \in Outcomes(o, p, to) : Take(o, p, to, f)
  /\ UNCHANGED <<cache, gen, reads, changes, known, raced>>

\* applyEvent.  A uid that was seen elsewhere has moved from there.
\* Mutation: the old path of a move is left alone.
Applied_KeepsOld(e) ==
  LET c == IF e.uid \in DOMAIN cache.uid /\ cache.uid[e.uid] # e.path
           THEN Supersede(cache, cache.uid[e.uid], Missing) ELSE cache
  IN CASE e.kind = "removed" -> Supersede(c, e.path, Missing)
       [] e.kind = "emptied" -> InvalidateChildren(c, e.path)
       [] OTHER              -> Invalidate(c, e.path)

Applied(e) ==
  LET c == IF e.uid \in DOMAIN cache.uid /\ cache.uid[e.uid] # e.path
           THEN Supersede(cache, cache.uid[e.uid], Missing) ELSE cache
  IN CASE e.kind = "removed" -> Supersede(c, e.path, Missing)
       [] e.kind = "emptied" -> InvalidateChildren(c, e.path)
       [] e.kind = "moved"   -> Invalidate(Supersede(c, e.old, Missing), e.path)
       [] OTHER              -> Invalidate(c, e.path)

\* The paths about which an event is older than what this side already has: it was
\* told more, or has read where the entry is now.
Late(e) ==
  {q \in DOMAIN e.tells : e.tells[q] < known[q]}
    \cup {q \in Paths \ (DOMAIN e.tells \cup {e.path}) :
             e.uid \in DOMAIN cache.uid /\ cache.uid[e.uid] = q}

ApplyEvent ==
  /\ feed # <<>>
  /\ LET e == Head(feed)
     IN /\ cache' = Applied(e)
        /\ Told(e.tells)
        /\ raced' = raced \cup (DOMAIN e.tells \cap Flying) \cup Late(e)
  /\ feed' = Tail(feed)
  /\ UNCHANGED <<past, gen, reads, changes, nchanges>>

\* markStale: the feed was interrupted and may have lost what was on its way.
MarkStale ==
  /\ gen < MaxGen
  /\ gen' = gen + 1
  /\ feed' \in {feed, <<>>}
  /\ known' = [q \in Paths |-> Len(past[q])]
  /\ raced' = raced \cup Flying
  /\ UNCHANGED <<past, cache, reads, changes, nchanges>>

\* flush: the tree starts again.
Empty(g) ==
  [node |-> [q \in Nodes |-> IF q = Root THEN [Nothing EXCEPT !.kind = "dir", !.gen = g] ELSE Nothing],
   uid  |-> <<>>]

Flush ==
  /\ gen < MaxGen
  /\ gen' = gen + 1
  /\ cache' = Empty(gen')
  /\ UNCHANGED <<past, feed, reads, changes, nchanges, known, raced>>

-----------------------------------------------------------------------------

Init ==
  /\ past \in {[q \in Paths |-> <<o[q]>>] : o \in Origin}
  /\ feed = <<>>
  /\ gen = 1
  /\ cache = Empty(1)
  /\ reads = {} /\ changes = {}
  /\ nchanges = 0
  /\ known = [q \in Paths |-> 1]
  /\ raced = {}

Next ==
  \/ \E p \in Asked : Stat(p)
  \/ \E p \in Asked \ {Root} : ReadFile(p) \/ Revalidate(p)
  \/ \E l \in Listings : Readdir(l[1], l[2], l[3])
  \/ \E r \in reads : Arrive(r) \/ ReadFails(r)
  \/ \E o \in Ops \cap OwnOps : \E x \in Pairs(o) : Change(o, x[1], x[2])
  \/ \E m \in changes : Settle(m) \/ ChangeFails(m)
  \/ \E o \in Ops \cap OthersOps : \E x \in Pairs(o) : Foreign(o, x[1], x[2])
  \/ ApplyEvent \/ MarkStale \/ Flush

Spec == Init /\ [][Next]_vars

-----------------------------------------------------------------------------
(* Properties *)

\* No call about p, or a directory it is in, overlapped with news about it.
Settled(p) == (Above(p) \cup {p}) \cap raced = {}

\* What may be said of p: what it is, or was since this side last heard of it.
Current(p) == {past[p][i] : i \in known[p] .. Len(past[p])}

\* Says(e, s): the stat s is that of e; of a directory only that it is one.
Says(e, s) == IF s.kind = "dir" THEN e.kind = "dir" ELSE e = s

StatFits(p) ==
  LET s == CachedStat(p)
  IN s # NoAnswer => \E e \in Current(p) : Says(e, s)

ReadFits(p) ==
  LET r == CachedRead(p)
  IN r # NoAnswer /\ r.kind # "dir" => \E e \in Current(p) : e.kind = r.kind /\ e.data = r.data

ListFits(p, k) ==
  LET l == CachedList(p, k)
  IN l # NoAnswer => \A q \in Within(p, k) :
       Settled(q) => \E e \in Current(q) : Says(e, IF q \in DOMAIN l THEN l[q] ELSE Absent)

\* The tree is one: whatever is below a path that is not a directory is gone from it,
\* nothing in it is newer than the generation, and it does not hold too many contents.
TypeOK ==
  /\ \A q \in Nodes :
       LET n == Node(cache, q)
       IN /\ n.kind \in {"none", "missing", "dir", "file"}
          /\ n.gen \in 0..gen
          /\ n.kind # "none" /\ q # Root => Dir(cache, Front(q))
          /\ n.kind # "dir" => n.depth = 0
          /\ n.kind \in {"dir", "file"} \/ n.entry = NoEntry
          /\ n.kind = "file" \/ n.bytes = NoBytes
  /\ Cardinality(Holding(cache)) <= MaxFiles
  /\ DOMAIN cache.uid \subseteq UNION {{e.uid : e \in Range(past[p])} : p \in Paths} \cup {There(Root).uid}
  /\ \A p \in Paths : known[p] \in 1 .. Len(past[p])
  /\ raced \subseteq Nodes

\* What the tree answers to stat and readFile is what the remote has, or had at some
\* moment since this side last heard of the path: no answer goes back behind an own
\* change, an event or a stale mark, as long as no call overlapped with it
\* (believe, put, invalidate, applyEvent, markStale).
AnswersTrue == \A p \in Paths : Settled(p) => StatFits(p) /\ ReadFits(p)

\* A listing answered from the tree leaves nothing out and makes nothing up: all that
\* is in it, and every absence, is true of such a moment too (seal, ingest, collect).
ListingsTrue == \A l \in Listings : Settled(l[1]) => ListFits(l[1], l[2])

\* Contents are never older than the stat they are held under: a listing that finds
\* the stat unchanged may then keep them (sameFile, put, readThrough).
BytesNotOlder ==
  \A p \in Paths : Settled(p) =>
    LET n == Node(cache, p)
    IN n.entry # NoEntry /\ n.bytes # NoBytes =>
         \E i, j \in 1 .. Len(past[p]) :
           i <= j /\ past[p][i] = n.entry /\ past[p][j].data = n.bytes

\* What the tree believes is true: of one tree that holds no more than it may, whatever it answers
\* and the contents it keeps under the stat they belong to.
BelievedTrue == TypeOK /\ AnswersTrue /\ BytesNotOlder

\* What a stale mark is said to do: "everything merely stops being believed", until
\* it is read again.  The stat of a directory too would then be true of a moment since.
StaleMarkHolds ==
  \A p \in Paths : Settled(p) /\ CachedStat(p) # NoAnswer => CachedStat(p) \in Current(p)

=============================================================================
