------------------------------- MODULE Mounts -----------------------------------
(***************************************************************************)
(* Which mount serves a path, and what a worker is told of it              *)
(* (lib/vfs/mounts.ts, lib/vfs/index.ts).  Every worker has a layer over    *)
(* the page's filesystem: mounts of its own, which hide what is below them, *)
(* and files of its own over the mounts it inherits.  The worker keeps a     *)
(* snapshot of the mounts (node/fs/transport.ts), which is pushed to its    *)
(* port, and conclusions of its resolver, which it must drop when a reply    *)
(* says so; a blocking call hears its own reply and nothing else.            *)
(*                                                                         *)
(* A mount has an identity and the stamp of the one file that is watched    *)
(* here: both are numbers never used before.                                *)
(***************************************************************************)
EXTENDS Integers, Sequences, FiniteSets, SequencesExt

CONSTANTS
  Count,                   \* of the workers
  Askers,                  \* those whose calls are followed
  Points,                  \* where something may be mounted, apart from the root
  Leaf,                    \* the watched path
  Nil,
  Retries,                 \* SYNC_RETRIES
  MaxMade, MaxAsked        \* bounds: changes on the page, calls of the workers

VARIABLES
  base,      \* #mounts of the page's filesystem
  layers,    \* the layer of each worker
  workers,   \* what each worker believes, and the call it is in
  box,       \* what was posted to each worker's port
  made, asked

vars == <<base, layers, workers, box, made, asked>>

Workers == 1 .. Count

Roots == {<<>>} \cup Points

\* The directory whose node_modules a worker lists.
Dirs == {Front(Leaf)}

Queries == Dirs \cup {Leaf, <<>>}

\* What a call that is a write of the program is about: no path of the resolver's.
Writing == <<>>

Mounted(t) == {r \in DOMAIN t : t[r] # Nil}

Above(t, p) == {r \in Mounted(t) : IsPrefix(r, p)}

Longest(S) == CHOOSE r \in S : \A q \in S : Len(q) <= Len(r)

Own(l, p) == Above(l.mounts, p)

Resolve(l, b, p) ==
  IF Own(l, p) # {} THEN l.mounts[Longest(Own(l, p))] ELSE b[Longest(Above(b, p))]

Entry(t, r) == [root |-> r, id |-> t[r].id]

List(l, b) ==
  {Entry(l.mounts, r) : r \in Mounted(l.mounts)}
    \cup {Entry(b, r) : r \in {q \in Mounted(b) : Own(l, q) = {}}}

\* mountFor: the snapshot is sorted, the longest root first.
MountFor(list, p) ==
  LET over == {e \in list : IsPrefix(e.root, p)}
      root == Longest({e.root : e \in over})
  IN (CHOOSE e \in over : e.root = root).id

OwnsPath(l) == l.file # Nil \/ Own(l, Leaf) # {}

\* What a reader of the file finds through a layer.
Seen(l, b) == IF l.file # Nil /\ Own(l, Leaf) = {} THEN l.file ELSE Resolve(l, b, Leaf).stamp

New == [id |-> made + 1, stamp |-> made + 1]

Nothing == [paths |-> FALSE, trees |-> {}]

Said(l) == [paths |-> l.paths, trees |-> l.trees]

Idle == [about |-> Nil, at |-> "none", value |-> 0, late |-> FALSE, said |-> Nothing, tries |-> 0]

Makes == made < MaxMade /\ made' = made + 1

\* onMountsChanged: the listener of a worker that is up posts the snapshot.
Pushed(w, lists) ==
  IF workers[w].up THEN box[w] \o [i \in DOMAIN lists |-> [kind |-> "mounts", list |-> lists[i]]]
  ELSE box[w]
-----------------------------------------------------------------------------
(* Changes on the page *)

\* The subscription of a layer to its parent: everything below the root is doubtful.
TableChanges(b) ==
  /\ Makes /\ base' = b
  /\ layers' = [w \in Workers |-> [layers[w] EXCEPT !.trees = @ \cup {<<>>}]]
  /\ box' = [w \in Workers |-> Pushed(w, <<List(layers[w], b)>>)]
  /\ UNCHANGED <<workers, asked>>

BaseMount(r) == base[r] = Nil /\ TableChanges([base EXCEPT ![r] = New])

BaseUnmount(r) == base[r] # Nil /\ TableChanges([base EXCEPT ![r] = Nil])

LocalChanges(w, l, lists) ==
  /\ layers' = [layers EXCEPT ![w] = l]
  /\ box' = [box EXCEPT ![w] = Pushed(w, lists)]
  /\ UNCHANGED <<base, workers, asked>>

With(l, r, m) == [l EXCEPT !.mounts[r] = m, !.trees = @ \cup {r}]

LocalMount(w, r) ==
  LET l == With(layers[w], r, New) IN
  /\ layers[w].mounts[r] = Nil
  /\ Makes
  /\ LocalChanges(w, l, <<List(l, base)>>)

LocalUnmount(w, r) ==
  LET l == With(layers[w], r, Nil) IN
  /\ layers[w].mounts[r] # Nil
  /\ Makes
  /\ LocalChanges(w, l, <<List(l, base)>>)

\* mountMemory with `replace`.
Replace(w, r) ==
  LET gone == With(layers[w], r, Nil)
      l == With(gone, r, New)
  IN
  /\ layers[w].mounts[r] # Nil
  /\ Makes
  /\ LocalChanges(w, l, <<List(gone, base), List(l, base)>>)

\* An event of the page's filesystem: a layer that has the path itself passes over it.
Written ==
  /\ base' = [base EXCEPT ![Longest(Above(base, Leaf))].stamp = made + 1]
  /\ layers' = [w \in Workers |->
       IF OwnsPath(layers[w]) THEN layers[w] ELSE [layers[w] EXCEPT !.paths = TRUE]]

Write == Makes /\ Written /\ UNCHANGED <<workers, box, asked>>

\* addVirtualFile: into the worker's own mount if it has one there, else over what it inherits.
Put(l, stamp) ==
  IF Own(l, Leaf) # {} THEN [l EXCEPT !.mounts[Longest(Own(l, Leaf))].stamp = stamp, !.paths = TRUE]
  ELSE [l EXCEPT !.file = stamp, !.paths = TRUE]

AddVirtualFile(w) == Makes /\ LocalChanges(w, Put(layers[w], made + 1), <<>>)

RemoveVirtualFile(w) ==
  LET l == layers[w] IN
  /\ Makes
  /\ LocalChanges(w, IF Own(l, Leaf) # {} THEN Put(l, made + 1) ELSE [Put(l, 0) EXCEPT !.file = Nil], <<>>)
-----------------------------------------------------------------------------
(* Workers *)

\* Workers are numbered as they start.  The bootstrap carries the first snapshot; spawnSibling says whose files it is to have.
Starts(w, from) ==
  /\ ~ workers[w].up /\ \A v \in 1 .. w - 1 : workers[v].up
  /\ from # Nil => workers[from].up
  /\ workers' = [workers EXCEPT ![w].up = TRUE, ![w].snapshot = List(layers[w], base), ![w].heirOf = from]
  /\ UNCHANGED <<base, layers, box, made, asked>>

\* A layer when i of the mounts of `old` are copied over it, with what is in each.
Copied(l, old, order, i) ==
  [l EXCEPT !.mounts = [r \in Points |->
                IF \E j \in 1 .. i : order[j] = r
                THEN [id |-> made + (CHOOSE j \in 1 .. i : order[j] = r), stamp |-> old.mounts[r].stamp]
                ELSE @[r]],
            !.trees = @ \cup {order[j] : j \in 1 .. i}, !.paths = @ \/ i > 0]

\* copyLocalTo: the files over the root first, then each mount.
CopyLocalTo(w) ==
  LET old == layers[workers[w].heirOf]
      order == SetToSeq(Mounted(old.mounts))
      files == IF old.file = Nil THEN layers[w] ELSE [layers[w] EXCEPT !.file = old.file, !.paths = TRUE]
  IN
  /\ workers[w].heirOf # Nil
  /\ \A r \in Points : layers[w].mounts[r] = Nil
  /\ made' = made + Len(order)
  /\ layers' = [layers EXCEPT ![w] = Copied(files, old, order, Len(order))]
  /\ box' = [box EXCEPT ![w] = Pushed(w, [i \in DOMAIN order |-> List(Copied(files, old, order, i), base)])]
  /\ workers' = [workers EXCEPT ![w].heirOf = Nil]
  /\ UNCHANGED <<base, asked>>

\* A blocking call: of the resolver about the file or a directory, or a write of the program.
Asks(w, about) ==
  /\ w \in Askers /\ workers[w].up /\ workers[w].call.at = "none" /\ asked < MaxAsked
  /\ \/ about = Leaf /\ workers[w].memo = Nil
     \/ about \in Dirs /\ workers[w].seeded[about] = Nil
     \/ about = Writing /\ ~ OwnsPath(layers[w])
  /\ asked' = asked + 1
  /\ workers' = [workers EXCEPT ![w].call = [Idle EXCEPT !.about = about, !.at = "asked"]]
  /\ UNCHANGED <<base, layers, box, made>>

Finds(w, about) ==
  IF about = Leaf THEN Seen(layers[w], base) ELSE Resolve(layers[w], base, about).id

Performs(w) ==
  LET c == workers[w].call IN
  /\ c.at = "asked"
  /\ IF c.about = Writing
     THEN /\ Makes /\ Written
          /\ workers' = [workers EXCEPT ![w].call.at = "done"]
     ELSE /\ workers' = [workers EXCEPT ![w].call.at = "done", ![w].call.value = Finds(w, c.about)]
          /\ UNCHANGED <<base, layers, made>>
  /\ UNCHANGED <<box, asked>>

Drained(w) == [layers EXCEPT ![w].paths = FALSE, ![w].trees = {}]

\* The reply takes what is pending when it is encoded; what was found may be older than that.
Replies(w) ==
  LET c == workers[w].call IN
  /\ c.at = "done"
  /\ workers' = [workers EXCEPT ![w].call = [c EXCEPT !.at = "replied", !.said = Said(layers[w]),
                   !.late = c.about # Writing /\ c.value # Finds(w, c.about)]]
  /\ layers' = Drained(w)
  /\ UNCHANGED <<base, box, made, asked>>

\* The reply is lost on its way, and the call sent again is answered from the record: the same
\* bytes, with the same on them.
Again(w) ==
  /\ workers[w].call.at = "replied" /\ workers[w].call.tries < Retries
  /\ workers' = [workers EXCEPT ![w].call.tries = @ + 1]
  /\ UNCHANGED <<base, layers, box, made, asked>>

\* The last of them is lost too, and with it what rode on it.
GivesUp(w) ==
  /\ workers[w].call.at = "replied" /\ workers[w].call.tries = Retries
  /\ workers' = [workers EXCEPT ![w].lost = @ \/ workers[w].call.said # Nothing, ![w].call = Idle]
  /\ UNCHANGED <<base, layers, box, made, asked>>

\* A reply to a call that does not block: it waits in the port like everything else.
RepliesLater(w) ==
  /\ w \in Askers /\ workers[w].up /\ asked < MaxAsked /\ asked' = asked + 1
  /\ box' = [box EXCEPT ![w] = Append(@, [kind |-> "reply", said |-> Said(layers[w])])]
  /\ layers' = Drained(w)
  /\ UNCHANGED <<base, workers, made>>

\* applyMeta: any path forgets every conclusion, a subtree also what was listed in it.
Applied(k, said) ==
  [k EXCEPT !.memo = IF said # Nothing THEN Nil ELSE @,
            !.seeded = [d \in Dirs |-> IF \E t \in said.trees : IsPrefix(t, d) THEN Nil ELSE @[d]]]

Concluded(k, c) ==
  IF c.about = Leaf THEN [k EXCEPT !.memo = [stamp |-> c.value, late |-> c.late]]
  ELSE IF c.about \in Dirs THEN [k EXCEPT !.seeded[c.about] = [id |-> c.value, late |-> c.late]]
  ELSE k

Arrives(w) ==
  LET c == workers[w].call IN
  /\ c.at = "replied"
  /\ workers' = [workers EXCEPT ![w] = [Concluded(Applied(@, c.said), c) EXCEPT !.call = Idle]]
  /\ UNCHANGED <<base, layers, box, made, asked>>

\* The port is heard when no call blocks.
Hears(w) ==
  LET m == Head(box[w]) IN
  /\ box[w] # <<>> /\ workers[w].call.at = "none"
  /\ box' = [box EXCEPT ![w] = Tail(@)]
  /\ workers' = [workers EXCEPT ![w] =
       IF m.kind = "mounts" THEN [@ EXCEPT !.snapshot = m.list] ELSE Applied(@, m.said)]
  /\ UNCHANGED <<base, layers, made, asked>>

Init ==
  /\ base = [r \in Roots |-> IF r = <<>> THEN [id |-> 0, stamp |-> 0] ELSE Nil]
  /\ layers = [w \in Workers |-> [mounts |-> [r \in Points |-> Nil], file |-> Nil,
                                  paths |-> FALSE, trees |-> {}]]
  /\ workers = [w \in Workers |-> [up |-> FALSE, snapshot |-> {}, heirOf |-> Nil, lost |-> FALSE, memo |-> Nil,
                                   seeded |-> [d \in Dirs |-> Nil], call |-> Idle]]
  /\ box = [w \in Workers |-> <<>>]
  /\ made = 0 /\ asked = 0

Next ==
  \/ \E r \in Points : BaseMount(r) \/ BaseUnmount(r)
  \/ Write
  \/ \E w \in Workers :
       \/ \E r \in Points : LocalMount(w, r) \/ LocalUnmount(w, r) \/ Replace(w, r)
       \/ AddVirtualFile(w) \/ RemoveVirtualFile(w)
       \/ \E from \in Workers \cup {Nil} : Starts(w, from)
       \/ CopyLocalTo(w)
       \/ \E about \in Dirs \cup {Leaf, Writing} : Asks(w, about)
       \/ Performs(w) \/ Replies(w) \/ Again(w) \/ GivesUp(w)
       \/ RepliesLater(w) \/ Arrives(w) \/ Hears(w)
-----------------------------------------------------------------------------
(* Properties *)

\* A worker that has heard every snapshot takes each path to be in the mount that serves it
\* (transport.ts mountFor, mounts.ts resolve).
SnapshotAgrees ==
  \A w \in Workers :
    workers[w].up /\ (\A i \in DOMAIN box[w] : box[w][i].kind # "mounts") =>
      \A p \in Queries : MountFor(workers[w].snapshot, p) = Resolve(layers[w], base, p).id

\* What was said of a worker's paths and is not applied yet.
OnTheWay(w) ==
  {Said(layers[w])} \cup (IF workers[w].call.at = "replied" THEN {workers[w].call.said} ELSE {})
    \cup {box[w][i].said : i \in {j \in DOMAIN box[w] : box[w][j].kind = "reply"}}

\* A conclusion that is no longer so will be dropped, unless it was no longer so when its own
\* reply was sent, or every try of a call was lost: then nothing drops it (index.ts
\* drainInvalidations, worker/index.ts onReplyMeta).
NoneStale ==
  \A w \in Workers :
    LET k == workers[w] IN
    k.lost \/
    /\ k.memo # Nil /\ k.memo.stamp # Seen(layers[w], base) /\ ~ k.memo.late =>
         OnTheWay(w) \ {Nothing} # {}
    /\ \A d \in Dirs :
         k.seeded[d] # Nil /\ k.seeded[d].id # Resolve(layers[w], base, d).id /\ ~ k.seeded[d].late =>
           \E said \in OnTheWay(w) : \E t \in said.trees : IsPrefix(t, d)
=============================================================================
