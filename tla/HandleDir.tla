------------------------------ MODULE HandleDir -------------------------------
(***************************************************************************)
(* The provider over a FileSystemDirectoryHandle (lib/vfs/handle-dir.ts):  *)
(* calls that overlap, each a chain of awaits of the browser's storage.    *)
(*                                                                         *)
(* The storage is external: a tree of files, where an open writable keeps  *)
(* other writers of its file out and shows its bytes when it is closed,    *)
(* and which another tab changes and locks as well.                        *)
(***************************************************************************)
EXTENDS Integers, Sequences, FiniteSets, SequencesExt

CONSTANTS
  Names,
  Callers,     \* the calls that may be under way together
  Writers,     \* bound: the callers that only write files
  MaxTabs      \* bound: steps of another tab

VARIABLES
  tree, lock,  \* of the storage: what is at a path, and who has an open writable on it
  how,         \* what the storage can do, and whether the mount is read-only
  chain,       \* writeChains
  call,
  tabs         \* how often another tab did something

vars == <<tree, lock, how, chain, call, tabs>>

\* Bound: paths of two segments.
Paths == {<<>>} \cup {<<n>> : n \in Names} \cup (Names \X Names)

None == [kind |-> "none", data |-> "none"]
Dir == [kind |-> "dir", data |-> "none"]
File(d) == [kind |-> "file", data |-> d]

Above(p) == {SubSeq(p, 1, i) : i \in 0 .. Len(p) - 1}

Under(p, q) == IsPrefix(p, q)

Kids(t, p) == {q \in Paths : Len(q) = Len(p) + 1 /\ Under(p, q) /\ t[q] # None}

Moved(from, to, q) == to \o SubSeq(q, Len(from) + 1, Len(q))

-----------------------------------------------------------------------------
(* The storage: what its calls answer, as errors of this provider *)

\* dirAt without create, up to the parent.
Placed(p) == \A q \in Above(p) : tree[q] = Dir

\* kindOf: the root is a directory without a question.
KindOf(p) == IF p = <<>> THEN "dir" ELSE IF Placed(p) THEN tree[p].kind ELSE "none"

\* dirAt with create: every segment, unless a file is in the way.
MadeDirs(p) == [q \in Paths |-> IF q \in Above(p) \cup {p} THEN Dir ELSE tree[q]]

InTheWay(p) == \E q \in Above(p) \cup {p} : tree[q].kind = "file"

Gone(t, p) == [q \in Paths |-> IF Under(p, q) THEN None ELSE t[q]]

\* removeEntry: an open writable below keeps its file, and what is above it.
RemoveErr(p, recursive) ==
  IF KindOf(p) = "none" THEN "missing"
  ELSE IF \E q \in Paths : Under(p, q) /\ lock[q] # "free" THEN "busy"
  ELSE IF Kids(tree, p) # {} /\ ~ recursive THEN "notempty" ELSE "ok"

-----------------------------------------------------------------------------
NoCall == [op |-> "none", from |-> <<>>, to |-> <<>>, flag |-> FALSE, pc |-> "idle", err |-> "ok",
           at |-> <<>>, bytes |-> "none", found |-> None, todo |-> {}, was |-> <<>>, alone |-> TRUE]

\* A call is alone until another begins, or another tab does something.
Over == [NoCall EXCEPT !.pc = "done", !.alone = FALSE]

Disturbed(c) == IF c.pc = "done" THEN Over ELSE [c EXCEPT !.alone = FALSE, !.was = NoCall.was]

Busy(k) == call[k].pc \notin {"idle", "done"}

Step(k, c) == call' = [call EXCEPT ![k] = c]

Ends(k, e) == Step(k, IF call[k].alone THEN [call[k] EXCEPT !.pc = "done", !.err = e] ELSE Over)

Goes(k, pc) == Step(k, [call[k] EXCEPT !.pc = pc])

\* serialize: a write starts when every earlier one of its path has settled, failed or not.
Enqueue(k, p) == chain' = [chain EXCEPT ![p] = Append(@, k)]

\* Mutation: writes of one file are not put in a queue.
First_NoWait(k, p) == TRUE

First(k, p) == Head(chain[p]) = k

Released(k, p) == [chain EXCEPT ![p] = SelectSeq(@, LAMBDA j : j # k)]

\* assertWritable: every call that is modelled here changes something.
Refused(op) == how.readOnly

FirstStep(op, flag) ==
  CASE op = "writeFile" -> "queued"
    [] op = "mkdir" -> IF flag THEN "makeAll" ELSE "probe"
    [] op \in {"rm", "rename"} -> "kind"

\* Bounds: a directory is not renamed to a path longer than its own, so that what is copied
\* fits the tree; nothing is renamed to itself.
Begin(k) == \E op \in {"writeFile", "mkdir", "rm", "rename"}, from, to \in Paths \ {<<>>}, flag \in BOOLEAN :
  /\ call[k].pc = "idle"
  /\ op = "rename" \/ from = to
  /\ k \in Writers => op = "writeFile"
  /\ op = "rename" => from # to /\ Len(to) <= Len(from) /\ ~ flag
  /\ op = "writeFile" => ~ flag
  /\ LET new == [NoCall EXCEPT !.op = op, !.from = from, !.to = to, !.flag = flag, !.was = tree,
                               !.at = to, !.bytes = k]
         c == IF \E j \in Callers : Busy(j) THEN Disturbed(new) ELSE new
         others == [j \in Callers |-> Disturbed(call[j])]
     IN  IF Refused(op)
         THEN call' = [others EXCEPT ![k] = [c EXCEPT !.pc = "done", !.err = "readonly"]] /\ UNCHANGED chain
         ELSE /\ call' = [others EXCEPT ![k] = [c EXCEPT !.pc = FirstStep(op, flag)]]
              /\ IF op = "writeFile" THEN Enqueue(k, to) ELSE UNCHANGED chain
  /\ UNCHANGED <<tree, lock, how, tabs>>

-----------------------------------------------------------------------------
(* writeBytes, for a call or for a file that is copied *)

\* What comes after the bytes are there: of a rename, the original is removed, or the next
\* child of a directory is copied.
Written(k, e) ==
  LET c == call[k] IN
  /\ chain' = Released(k, c.at)
  /\ IF e # "ok" \/ c.op = "writeFile" THEN Ends(k, e)
     ELSE Goes(k, IF c.found = Dir THEN "copying" ELSE "rmKind")

\* fileAt with create; createWritable is asked next.
Creates(k) ==
  LET p == call[k].at IN
  /\ call[k].pc = "queued" /\ First(k, p)
  /\ IF ~ Placed(p) THEN Written(k, "missing") /\ UNCHANGED tree
     ELSE IF tree[p] = Dir THEN Written(k, "isdir") /\ UNCHANGED tree
     ELSE /\ tree' = [tree EXCEPT ![p] = IF @ = None THEN File("empty") ELSE @]
          /\ Goes(k, "locking") /\ UNCHANGED chain
  /\ UNCHANGED <<lock, how, tabs>>

Locks(k) ==
  LET p == call[k].at IN
  /\ call[k].pc = "locking"
  /\ IF tree[p].kind # "file" THEN Written(k, "missing") /\ UNCHANGED lock
     ELSE IF lock[p] # "free" THEN Written(k, "busy") /\ UNCHANGED lock
     ELSE lock' = [lock EXCEPT ![p] = k] /\ Goes(k, "writing") /\ UNCHANGED chain
  /\ UNCHANGED <<tree, how, tabs>>

\* write and close; or one of them fails, and the writable is aborted.
Unlocked(p) == [lock EXCEPT ![p] = "free"]

Writes(k) ==
  LET p == call[k].at IN
  /\ call[k].pc = "writing" /\ lock' = Unlocked(p)
  /\ \/ tree' = [tree EXCEPT ![p] = File(call[k].bytes)] /\ Written(k, "ok")
     \/ UNCHANGED tree /\ Written(k, "failed")
  /\ UNCHANGED <<how, tabs>>

-----------------------------------------------------------------------------
(* mkdir and rm *)

\* Without recursive: the directory is looked for, and then made.
Probes(k) ==
  LET p == call[k].to IN
  /\ call[k].pc = "probe"
  /\ IF ~ Placed(p) THEN Ends(k, "missing")
     ELSE IF tree[p] # None THEN Ends(k, "exists") ELSE Goes(k, "make")
  /\ UNCHANGED <<tree, lock, how, chain, tabs>>

Makes(k) ==
  LET p == call[k].to IN
  /\ call[k].pc \in {"make", "makeAll"}
  /\ IF (call[k].pc = "make" /\ ~ Placed(p)) \/ InTheWay(p) THEN Ends(k, "isdir") /\ UNCHANGED tree
     ELSE tree' = MadeDirs(p) /\ Ends(k, "ok")
  /\ UNCHANGED <<lock, how, chain, tabs>>

\* kindOf: of rm, and of the rm that ends a rename.
Kind(k) ==
  LET c == call[k]
      p == c.from
      found == IF KindOf(p) = "none" THEN None ELSE tree[p]
  IN  /\ c.pc \in {"kind", "rmKind"}
      /\ IF found = None THEN Ends(k, "missing")
         ELSE Step(k, [c EXCEPT !.pc = IF c.op = "rm" \/ c.pc = "rmKind" THEN "remove" ELSE "move",
                                !.found = found])
      /\ UNCHANGED <<tree, lock, how, chain, tabs>>

\* removeEntry, the last step of a rename too: of a directory with all that is in it.
Removes(k) ==
  LET c == call[k]
      e == RemoveErr(c.from, c.flag \/ c.pc = "removeTree")
  IN  /\ c.pc \in {"remove", "removeTree"}
      /\ IF e = "ok" THEN tree' = Gone(tree, c.from) /\ Ends(k, "ok")
         ELSE UNCHANGED tree /\ Ends(k, e)
      /\ UNCHANGED <<lock, how, chain, tabs>>

-----------------------------------------------------------------------------
(* rename *)

\* Where the storage has it, `move` is one step: it replaces a file, and nothing else.
MoveErr(from, to) ==
  IF KindOf(from) = "none" \/ ~ Placed(to) THEN "missing"
  ELSE IF \E q \in Paths : (Under(from, q) \/ q = to) /\ lock[q] # "free" THEN "busy"
  ELSE IF tree[to] = Dir \/ (tree[to] # None /\ tree[from] = Dir) THEN "exists" ELSE "ok"

MovedTree(from, to) ==
  [q \in Paths |-> IF Under(to, q) /\ Moved(to, from, q) \in Paths THEN tree[Moved(to, from, q)]
                   ELSE IF Under(from, q) THEN None ELSE tree[q]]

\* Without it, or when it turns out not to be supported, the bytes are copied.
Moves(k) ==
  LET c == call[k]
      e == MoveErr(c.from, c.to)
      next == IF c.found = Dir THEN "look" ELSE "bytes"
  IN  /\ c.pc = "move"
      /\ IF ~ how.movable THEN UNCHANGED tree /\ Goes(k, next)
         ELSE IF e = "ok" THEN tree' = MovedTree(c.from, c.to) /\ Ends(k, "ok")
         ELSE UNCHANGED tree /\ Ends(k, e)
      /\ UNCHANGED <<lock, how, chain, tabs>>

\* The File that kindOf took cannot be read once the file was changed.
Bytes(k) ==
  LET c == call[k] IN
  /\ c.pc = "bytes"
  /\ IF tree[c.from] # c.found THEN Ends(k, "stale") /\ UNCHANGED chain
     ELSE Step(k, [c EXCEPT !.pc = "queued", !.bytes = c.found.data]) /\ Enqueue(k, c.to)
  /\ UNCHANGED <<tree, lock, how, tabs>>

\* moveDirectory: what is at the destination; only an empty directory is replaced.
Replaceable(p) == Kids(tree, p) = {}

Looks(k) ==
  LET c == call[k] IN
  /\ c.pc = "look"
  /\ CASE KindOf(c.to) = "none" -> Goes(k, "copyDir")
       [] KindOf(c.to) = "file" -> Ends(k, "notdir")
       [] KindOf(c.to) = "dir" -> IF Replaceable(c.to) THEN Goes(k, "unlink") ELSE Ends(k, "notempty")
  /\ UNCHANGED <<tree, lock, how, chain, tabs>>

Unlinks(k) ==
  LET c == call[k]
      e == RemoveErr(c.to, FALSE)
  IN  /\ c.pc = "unlink"
      /\ IF e = "ok" THEN tree' = Gone(tree, c.to) /\ Goes(k, "copyDir")
         ELSE UNCHANGED tree /\ Ends(k, e)
      /\ UNCHANGED <<lock, how, chain, tabs>>

\* The destination is made, and the children are listed before the first is copied.
CopiesDir(k) ==
  LET c == call[k] IN
  /\ c.pc = "copyDir"
  /\ IF InTheWay(c.to) THEN Ends(k, "isdir") /\ UNCHANGED tree
     ELSE /\ tree' = MadeDirs(c.to)
          /\ IF KindOf(c.from) # "dir" THEN Ends(k, "missing")
             ELSE Step(k, [c EXCEPT !.pc = "copying", !.todo = Kids(tree', c.from)])
  /\ UNCHANGED <<lock, how, chain, tabs>>

\* Bound: a directory below it holds nothing, as paths are of two segments.
CopiesChild(k) == \E q \in call[k].todo :
  LET c == call[k]
      to == Moved(c.from, c.to, q)
      rest == [c EXCEPT !.todo = @ \ {q}]
  IN  /\ c.pc = "copying"
      /\ CASE KindOf(q) = "none" -> Ends(k, "missing") /\ UNCHANGED <<tree, chain>>
           [] KindOf(q) = "dir" ->
                IF InTheWay(to) THEN Ends(k, "isdir") /\ UNCHANGED <<tree, chain>>
                ELSE tree' = MadeDirs(to) /\ Step(k, rest) /\ UNCHANGED chain
           [] KindOf(q) = "file" ->
                /\ Step(k, [rest EXCEPT !.pc = "queued", !.at = to, !.bytes = tree[q].data])
                /\ Enqueue(k, to) /\ UNCHANGED tree
      /\ UNCHANGED <<lock, how, tabs>>

\* Everything was copied: the original may go.
AllCopied(c) == c.todo = {}

Copied(k) ==
  /\ call[k].pc = "copying" /\ AllCopied(call[k]) /\ Goes(k, "removeTree")
  /\ UNCHANGED <<tree, lock, how, chain, tabs>>

-----------------------------------------------------------------------------
\* Another tab: it writes, removes, and keeps a file locked for a while.
Tab ==
  /\ tabs < MaxTabs /\ tabs' = tabs + 1
  /\ \E p \in Paths \ {<<>>} :
       \/ /\ tree[p].kind = "file" /\ lock[p] = "free"
          /\ tree' \in {[tree EXCEPT ![p] = File("tab")], Gone(tree, p)} /\ UNCHANGED lock
       \/ /\ tree[p].kind = "file" /\ lock[p] = "free"
          /\ lock' = [lock EXCEPT ![p] = "tab"] /\ UNCHANGED tree
       \/ /\ tree[p] = None /\ Placed(p)
          /\ tree' = [tree EXCEPT ![p] = File("tab")] /\ UNCHANGED lock
  /\ call' = [k \in Callers |-> Disturbed(call[k])]
  /\ UNCHANGED <<how, chain>>

TabUnlocks == \E p \in Paths :
  /\ lock[p] = "tab" /\ lock' = Unlocked(p)
  /\ UNCHANGED <<tree, how, chain, call, tabs>>

Does(k) ==
  \/ Creates(k) \/ Locks(k) \/ Writes(k) \/ Probes(k) \/ Makes(k) \/ Kind(k) \/ Removes(k) \/ Moves(k)
  \/ Bytes(k) \/ Looks(k) \/ Unlinks(k) \/ CopiesDir(k) \/ CopiesChild(k) \/ Copied(k)

Holding(fs) == [p \in Paths |-> IF p \in DOMAIN fs THEN fs[p] ELSE IF p = <<>> THEN Dir ELSE None]

\* A directory with a file, one with two, one beside a file, or two beside each other.
Init ==
  /\ LET a == CHOOSE n \in Names : TRUE
         b == CHOOSE n \in Names \ {a} : TRUE
     IN tree \in {Holding(<<a>> :> Dir @@ <<a, a>> :> File("old")),
                 Holding(<<a>> :> Dir @@ <<a, a>> :> File("old") @@ <<a, b>> :> File("older")),
                 Holding(<<a>> :> Dir @@ <<a, a>> :> File("old") @@ <<b>> :> File("older")),
                 Holding(<<a>> :> Dir @@ <<a, b>> :> File("old") @@ <<b>> :> Dir)}
  /\ lock = [p \in Paths |-> "free"]
  /\ how \in [movable : BOOLEAN, readOnly : BOOLEAN]
  /\ chain = [p \in Paths |-> <<>>]
  /\ call = [k \in Callers |-> NoCall] /\ tabs = 0

Next == (\E k \in Callers : Begin(k) \/ Does(k)) \/ Tab \/ TabUnlocks

Spec == Init /\ [][Next]_vars
-----------------------------------------------------------------------------
(* Properties *)

\* A rename loses none of the bytes it moves, at no moment and whichever of its steps fails:
\* each file is at its old path or at its new one (rename, moveDirectory).
BytesKept == \A k \in Callers :
  LET c == call[k] IN
  c.op = "rename" /\ c.alone =>
    \A q \in Paths : Under(c.from, q) /\ c.was[q].kind = "file" =>
      c.was[q] \in {tree[q], tree[Moved(c.from, c.to, q)]}

\* What a call that succeeded alone leaves is the tree it found with its change and no other.
Shows(c) ==
  CASE c.op = "writeFile" -> tree = [c.was EXCEPT ![c.to] = File(c.bytes)]
    [] c.op = "mkdir" -> tree[c.to] = Dir /\ \A q \in Paths : q \notin Above(c.to) \cup {c.to} => tree[q] = c.was[q]
    [] c.op = "rm" -> tree = Gone(c.was, c.to)
    [] c.op = "rename" ->
         \A q \in Paths : q \notin Above(c.to) =>
           tree[q] = IF Under(c.to, q) /\ Moved(c.to, c.from, q) \in Paths THEN c.was[Moved(c.to, c.from, q)]
                     ELSE IF Under(c.from, q) THEN None ELSE c.was[q]

\* And it keeps no file from others: a writable is open only while its write runs, and no write
\* meets one of this provider's own ("so it never fights itself", handle-dir.ts:21-24).
CallShows ==
  /\ \A k \in Callers : call[k].pc = "done" /\ call[k].err = "ok" /\ call[k].alone => Shows(call[k])
  /\ \A p \in Paths, k \in Callers : lock[p] = k => call[k].pc = "writing" /\ call[k].at = p
  /\ \A k \in Callers : call[k].pc = "locking" => lock[call[k].at] \notin Callers

\* A read-only mount changes nothing: what changes comes from another tab.
ReadOnlyHolds == [][how.readOnly /\ tree' # tree => Tab]_vars
=============================================================================
