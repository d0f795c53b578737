------------------------------ MODULE Namespace -------------------------------
(***************************************************************************)
(* One session's filesystem above its backends: the mount table (lib/vfs/  *)
(* mounts.ts), the facade (facade.ts), the calls composed of others        *)
(* (ops.ts), unions (union.ts, as "existing"), memory (memory.ts) and what *)
(* the host does to them (lib/vfs/index.ts).                               *)
(*                                                                         *)
(* "/" is a union of the overlay O and the store L, and /Point a memory    *)
(* mount M.  A layer (createLayer) sees each of its parent's mounts as a   *)
(* union with its own overlay; for what is not layered M stands alone.     *)
(* The store is external: it answers like a filesystem, or fails, before   *)
(* or after it did what it was asked.                                      *)
(***************************************************************************)
EXTENDS Integers, Sequences, FiniteSets, SequencesExt

CONSTANTS
  Names,
  Point,       \* the name the memory mount is at
  MaxCalls,    \* bound: calls of the program
  MaxOthers    \* bound: steps of the host and of other programs

VARIABLES
  s,           \* the three trees
  mount,       \* the memory mount: is it there, is it read-only, is it seen from a layer
  call,        \* the call of the program that is under way
  calls, others

vars == <<s, mount, call, calls, others>>

\* Bound: paths of two segments.
Paths == {<<>>} \cup {<<n>> : n \in Names} \cup (Names \X Names)

-----------------------------------------------------------------------------
(* A tree of files: MemDir, MemFile *)

None == [kind |-> "none", data |-> <<>>]
Dir == [kind |-> "dir", data |-> <<>>]
File(d) == [kind |-> "file", data |-> d]

Above(p) == {SubSeq(p, 1, i) : i \in 0 .. Len(p) - 1}

Under(p, q) == IsPrefix(p, q)

Kids(t, p) == {q \in Paths : Len(q) = Len(p) + 1 /\ Under(p, q) /\ t[q].kind # "none"}

Gone(t, p) == [q \in Paths |-> IF Under(p, q) THEN None ELSE t[q]]

Ok(t) == [err |-> "ok", t |-> t]
Err(t, e) == [err |-> e, t |-> t]

\* parentOf: ENOENT and ENOTDIR are both "missing".
Placed(t, p, r) ==
  IF p = <<>> THEN Err(t, "perm")
  ELSE IF \E q \in Above(p) : t[q].kind # "dir" THEN Err(t, "missing") ELSE r

WriteTo(t, p, d) ==
  Placed(t, p, IF t[p].kind = "dir" THEN Err(t, "isdir") ELSE Ok([t EXCEPT ![p] = File(d)]))

\* mkdirp, and mkdir of one directory.
Mkdirp(t, p) ==
  IF \E q \in Above(p) \cup {p} : t[q].kind = "file" THEN Err(t, "missing")
  ELSE Ok([q \in Paths |-> IF Under(q, p) THEN Dir ELSE t[q]])

MkdirIn(t, p, recursive) ==
  IF recursive THEN Mkdirp(t, p)
  ELSE Placed(t, p, IF t[p] # None THEN Err(t, "exists") ELSE Ok([t EXCEPT ![p] = Dir]))

RmFrom(t, p, recursive, force) ==
  IF p = <<>> THEN Err(t, "perm")
  ELSE IF t[p] = None THEN IF force THEN Ok(t) ELSE Err(t, "missing")
  ELSE IF t[p].kind = "dir" /\ Kids(t, p) # {} /\ ~ recursive THEN Err(t, "notempty")
  ELSE Ok(Gone(t, p))

RenameIn(t, from, to) ==
  LET move == [q \in Paths |->
        IF Under(to, q)
        THEN LET old == from \o SubSeq(q, Len(to) + 1, Len(q))
             IN  IF old \in Paths THEN t[old] ELSE None
        ELSE IF Under(from, q) THEN None ELSE t[q]]
      held == t[to]
  IN  Placed(t, from, IF t[from] = None THEN Err(t, "missing")
        ELSE Placed(t, to,
          IF from = to \/ held = None THEN Ok(move)
          ELSE IF t[from].kind = "dir" /\ held.kind # "dir" THEN Err(t, "missing")
          ELSE IF t[from].kind # "dir" /\ held.kind = "dir" THEN Err(t, "isdir")
          ELSE IF Kids(t, to) # {} THEN Err(t, "notempty") ELSE Ok(move)))

\* copyFile of a memory mount: a directory in the way is replaced like a file.
CopyIn(t, from, to, overwrite) ==
  IF t[from].kind # "file" THEN Err(t, IF t[from] = None THEN "missing" ELSE "isdir")
  ELSE Placed(t, to, IF t[to] # None /\ ~ overwrite THEN Err(t, "exists")
                     ELSE Ok([Gone(t, to) EXCEPT ![to] = t[from]]))

-----------------------------------------------------------------------------
(* The mount table and the union of an overlay and what is below it *)

Root == [up |-> TRUE, low |-> "L", base |-> <<>>]
AtPoint == [up |-> mount.layered, low |-> "M", base |-> <<Point>>]

\* MountTable.resolve: the longest root above the path.
Resolve(p) == IF mount.there /\ p # <<>> /\ p[1] = Point THEN AtPoint ELSE Root

Local(m, p) == SubSeq(p, Len(m.base) + 1, Len(p))

\* has(upper, path)
InUp(m, p) == m.up /\ s.O[p] # None

\* Facade.stat.  A directory in both layers is one directory.
StatOf(p) ==
  LET m == Resolve(p) IN IF InUp(m, p) THEN s.O[p] ELSE s[m.low][Local(m, p)]

Answer(err, val) == [err |-> err, s |-> s, val |-> val]
Does(tree, r) == [err |-> r.err, s |-> [s EXCEPT ![tree] = r.t], val |-> None]

Upper(r) == {Does("O", r)}

\* Mutation: a layer's mount asks the parent's provider and not its facade.
Lower_Direct(m, r) ==
  IF m.low = "M" THEN {Does("M", r)}
  ELSE {Does("L", r), Answer("io", None), [Does("L", r) EXCEPT !.err = "io"]}

\* The store fails before it did it, or after.
Lower(m, r) ==
  IF m.low = "M"
  THEN {IF mount.readOnly THEN Answer("rofs", None) ELSE Does("M", r)}
  ELSE {Does("L", r), Answer("io", None), [Does("L", r) EXCEPT !.err = "io"]}

\* #assertWritable: of a layer's mount it is the parent that says so, in Lower.
Allowed(m, outcomes) ==
  IF m.low = "M" /\ ~ m.up /\ mount.readOnly THEN {Answer("rofs", None)} ELSE outcomes

Look(p) ==
  LET found == StatOf(p)
  IN  {Answer(IF found = None THEN "missing" ELSE "ok", found)} \cup
      (IF Resolve(p).low = "L" THEN {Answer("io", None)} ELSE {})

\* Facade.readFile
Read(m, p) ==
  LET n == IF InUp(m, p) THEN s.O[p] ELSE s[m.low][Local(m, p)]
  IN  {Answer(CASE n.kind = "file" -> "ok" [] n.kind = "dir" -> "isdir" [] OTHER -> "missing", n)}
        \cup (IF m.low = "L" /\ ~ InUp(m, p) THEN {Answer("io", None)} ELSE {})

\* Facade.writeFile: to the layer that holds the path, else to the lower one.
Write(m, p, d) ==
  Allowed(m, IF InUp(m, p) THEN Upper(WriteTo(s.O, p, d))
             ELSE Lower(m, WriteTo(s[m.low], Local(m, p), d)))

\* Facade.mkdir
Mkdir(m, p, recursive) ==
  Allowed(m, IF InUp(m, p) THEN Upper(MkdirIn(s.O, p, recursive))
             ELSE Lower(m, MkdirIn(s[m.low], Local(m, p), recursive)))

\* Facade.rm.  The store's answer to a forced rm is not looked at.
Rm(m, p, recursive, force) ==
  LET below == Lower(m, RmFrom(s[m.low], Local(m, p), recursive, force))
  IN  Allowed(m,
        IF InUp(m, p) THEN Upper(RmFrom(s.O, p, recursive, force))
        ELSE IF m.up /\ s[m.low][Local(m, p)] = None
        THEN {Answer(IF force THEN "ok" ELSE "missing", None)}
        ELSE IF m.low = "L" /\ force THEN {[r EXCEPT !.err = "ok"] : r \in below} ELSE below)

\* Facade.rename within one mount.
Rename(m, from, to) ==
  Allowed(m, IF InUp(m, from) THEN Upper(RenameIn(s.O, from, to))
             ELSE Lower(m, RenameIn(s[m.low], Local(m, from), Local(m, to))))

-----------------------------------------------------------------------------
(* Listings: Facade.readdir *)

Entry(p, kind) == [path |-> p, kind |-> kind]

\* One provider's listing, of a directory or of all below it, in the namespace's paths.
Entries(t, base, dir, recursive) ==
  {Entry(base \o q, t[q].kind) :
    q \in {x \in Paths : /\ Under(dir, x) /\ x # dir /\ t[x] # None /\ t[dir].kind = "dir"
                         /\ recursive \/ Len(x) = Len(dir) + 1}}

\* union.readdir: merged by path, the upper layer winning.
Merged(m, p, recursive) ==
  LET up == IF m.up THEN Entries(s.O, <<>>, p, recursive) ELSE {}
      low == Entries(s[m.low], m.base, Local(m, p), recursive)
  IN  up \cup {e \in low : \A u \in up : u.path # e.path}

\* Mutation: a listing is what the provider lists.
ListOf_NoGraft(p) == Merged(Resolve(p), p, FALSE)

\* A listing with the mount below it grafted in.
ListOf(p) ==
  LET own == Merged(Resolve(p), p, FALSE)
  IN  IF mount.there /\ p = <<>>
      THEN {e \in own : e.path # <<Point>>} \cup {Entry(<<Point>>, "dir")} ELSE own

\* A recursive one: what the mount shadows is left out, and the mount's own view added.
\* The graft looks for an entry of the mount's name at whatever depth.
TreeOf(p) ==
  LET own == Merged(Resolve(p), p, TRUE)
      seen == {e \in own : ~ Under(<<Point>>, e.path)}
      named == {e \in seen : Last(e.path) = Point}
  IN  IF ~ (mount.there /\ p = <<>>) THEN own
      ELSE Merged(AtPoint, <<Point>>, TRUE) \cup
           (IF named = {} THEN seen \cup {Entry(<<Point>>, "dir")}
            ELSE {[e EXCEPT !.kind = IF e \in named THEN "dir" ELSE @] : e \in seen})

-----------------------------------------------------------------------------
(* The program's calls: one under way, a step for each call of a provider *)

NoCall == [op |-> "none"]

Busy == call.op # "none" /\ call.pc # "done"

\* What each call asks first.
First(op, m, to, flag) ==
  CASE op = "append" -> "read"
    [] op = "truncate" -> IF flag THEN "write" ELSE "read"
    [] op = "rename" -> IF m = Resolve(to) THEN "do" ELSE "stat"
    [] op = "copyFile" -> IF m = Resolve(to) /\ ~ m.up THEN "do"
                          ELSE IF flag THEN "read" ELSE "exists"
    [] op = "cp" -> "stat"
    [] OTHER -> "do"

\* perform: an entry of the dispatch.  `flag' is recursive, force, overwrite, or to nothing.
Begin ==
  /\ ~ Busy /\ calls < MaxCalls
  /\ \E op \in {"writeFile", "append", "truncate", "mkdir", "rm", "rename", "copyFile", "cp"},
        from, to \in Paths \ {<<>>}, flag \in BOOLEAN :
       /\ op \in {"writeFile", "append", "truncate", "mkdir", "rm"} => to = from
       /\ op \in {"writeFile", "append", "rename"} => flag
       \* Bounds: a directory is moved or copied to its own depth, and nothing into itself.
       /\ op = "cp" \/ (op = "rename" /\ StatOf(from).kind = "dir") => Len(to) = Len(from)
       /\ op = "rename" => from = to \/ ~ Under(from, to)
       /\ LET m == Resolve(from)
              ro == op \in {"rename", "copyFile"} /\ mount.readOnly /\
                    \E x \in {m, Resolve(to)} :
                      x.low = "M" /\ ~ x.up /\ (op = "rename" \/ x = Resolve(to))
          IN  call' = [op |-> op, from |-> from, to |-> to, flag |-> flag, src |-> m,
                       dst |-> Resolve(to), err |-> IF ro THEN "rofs" ELSE "ok",
                       pc |-> IF ro THEN "done" ELSE First(op, m, to, flag),
                       got |-> <<>>, todo |-> IF op = "cp" THEN <<<<from, to>>>> ELSE <<>>,
                       had |-> StatOf(from),
                       hidden |-> InUp(Resolve(to), to) /\ ~ InUp(m, from),
                       twice |-> InUp(m, from) /\ s[m.low][Local(m, from)] # None,
                       alone |-> TRUE]
  /\ calls' = calls + 1
  /\ UNCHANGED <<s, mount, others>>

\* Bound: one token is written, or added.
New == <<9>>

Simple ==
  LET m == call.src
  IN  CASE call.op = "writeFile" -> Write(m, call.from, New)
        [] call.op = "mkdir" -> Mkdir(m, call.from, call.flag)
        [] call.op = "rm" -> Rm(m, call.from, call.flag, call.flag)
        [] call.op = "rename" -> Rename(m, call.from, call.to)
        [] call.op = "copyFile" ->
             Lower(m, CopyIn(s.M, Local(m, call.from), Local(m, call.to), call.flag))

Goto(pc) == [call EXCEPT !.pc = pc]
Ends(err) == [call EXCEPT !.pc = "done", !.err = err, !.got = <<>>, !.todo = <<>>]

\* One provider call that ends the call.
Do ==
  /\ Busy /\ call.pc = "do"
  /\ \E r \in Simple : s' = r.s /\ call' = Ends(r.err)

\* The entry of a cp that is being copied, or the whole of a call.
From == IF call.op = "cp" THEN Head(call.todo)[1] ELSE call.from
To == IF call.op = "cp" THEN Head(call.todo)[2] ELSE call.to

\* A mount is looked up when the facade is called: once by a rename or a copy, and each
\* time by the calls composed of others.
Source == IF call.op \in {"rename", "copyFile"} THEN call.src ELSE Resolve(From)
Target == IF call.op \in {"rename", "copyFile"} THEN call.dst ELSE Resolve(To)

\* The next entry of a cp, or the end.
Next1(c) ==
  IF c.op = "cp" /\ Len(c.todo) > 1 THEN [c EXCEPT !.todo = Tail(@), !.pc = "stat", !.got = <<>>]
  ELSE Ends("ok")

\* rename between two mounts, and each entry of a cp.
Stat ==
  /\ Busy /\ call.pc = "stat" /\ s' = s
  /\ \E r \in Look(From) :
       call' = IF r.err # "ok" THEN Ends(r.err)
               ELSE IF call.op = "rename"
               THEN IF r.val.kind = "dir" THEN Ends("xdev") ELSE Goto("read")
               ELSE IF r.val.kind = "file" THEN Goto("exists")
               ELSE IF call.flag THEN Goto("mkdir") ELSE Ends("isdir")

CpMkdir ==
  /\ Busy /\ call.pc = "mkdir"
  /\ \E r \in Mkdir(Target, To, TRUE) :
       s' = r.s /\ call' = IF r.err # "ok" THEN Ends(r.err) ELSE Goto("list")

CpList ==
  /\ Busy /\ call.pc = "list" /\ s' = s
  /\ LET kids == SetToSeq({Last(e.path) : e \in ListOf(From)})
         pairs == [i \in 1 .. Len(kids) |-> <<Append(From, kids[i]), Append(To, kids[i])>>]
     IN  \/ /\ StatOf(From).kind = "dir"
            /\ call' = Next1([call EXCEPT !.todo = <<Head(@)>> \o pairs \o Tail(@)])
         \/ /\ StatOf(From).kind # "dir" \/ Source.low = "L"
            /\ call' = Ends(IF StatOf(From).kind # "dir" THEN "missing" ELSE "io")

\* An exclusive copy, and a file of a cp, which is forced to overwrite.
Exists ==
  /\ Busy /\ call.pc = "exists" /\ s' = s
  /\ \E r \in Look(To) :
       call' = IF r.err = "io" THEN Ends("io")
               ELSE IF r.err = "ok" /\ call.op = "copyFile" THEN Ends("exists") ELSE Goto("read")

\* Only a missing file is an empty one to append to.
ReadAll ==
  /\ Busy /\ call.pc = "read" /\ s' = s
  /\ \E r \in Read(Source, From) :
       call' = IF r.err = "ok" \/ (call.op = "append" /\ r.err = "missing")
               THEN [call EXCEPT !.got = r.val.data, !.pc = "write"] ELSE Ends(r.err)

Rewritten ==
  CASE call.op = "append" -> {call.got \o New}
    [] call.op = "truncate" ->
         IF call.flag THEN {<<>>} ELSE {SubSeq(call.got, 1, 1), call.got \o <<0>>}
    [] OTHER -> {call.got}

WriteAll ==
  /\ Busy /\ call.pc = "write"
  /\ \E d \in Rewritten : \E r \in Write(Target, To, d) :
       /\ s' = r.s
       /\ call' = IF r.err # "ok" THEN Ends(r.err)
                  ELSE IF call.op = "rename" THEN Goto("rm") ELSE Next1(call)

RmSource ==
  /\ Busy /\ call.pc = "rm"
  /\ \E r \in Rm(Source, From, FALSE, FALSE) : s' = r.s /\ call' = Ends(r.err)

Step ==
  /\ Do \/ Stat \/ CpMkdir \/ CpList \/ Exists \/ ReadAll \/ WriteAll \/ RmSource
  /\ UNCHANGED <<mount, calls, others>>

-----------------------------------------------------------------------------
(* The host, and the other calls of this filesystem *)

\* Bound: nobody else does anything after the last call, for nothing would look.
Meddles ==
  /\ others < MaxOthers /\ others' = others + 1 /\ calls' = calls
  /\ Busy \/ calls < MaxCalls
  /\ call' = IF Busy THEN [call EXCEPT !.alone = FALSE, !.had = None, !.hidden = FALSE,
                                       !.twice = FALSE] ELSE NoCall

\* Another call, or another session on this filesystem.
Other ==
  /\ Meddles /\ mount' = mount
  /\ \E p \in Paths : \E r \in Write(Resolve(p), p, New) \cup Rm(Resolve(p), p, TRUE, FALSE) :
       s' = r.s

\* #injectionTarget: the layer in memory of whoever owns the path.
Injected(p) == IF Resolve(p).up THEN "O" ELSE "M"

\* addVirtualFile: put makes the directories, and replaces what is there.
AddVirtualFile ==
  /\ Meddles /\ mount' = mount
  /\ \E p \in Paths \ {<<>>, <<Point>>} :
       LET tree == Injected(p)
           local == IF tree = "O" THEN p ELSE Local(AtPoint, p)
           up == Mkdirp(s[tree], Front(local))
       IN  /\ up.err = "ok"
           /\ s' = [s EXCEPT ![tree] = [Gone(up.t, local) EXCEPT ![local] = File(New)]]

RemoveVirtualFile ==
  /\ Meddles /\ mount' = mount
  /\ \E p \in Paths \ {<<>>, <<Point>>} :
       LET tree == Injected(p)
           local == IF tree = "O" THEN p ELSE Local(AtPoint, p)
       IN  s' = [s EXCEPT ![tree] = Gone(@, local)]

\* mountMemory and unmountMemory.
Empty == [q \in Paths |-> IF q = <<>> THEN Dir ELSE None]

\* Bound: a mount that was there is not replaced, for a call may still hold it.
MountMemory ==
  /\ Meddles /\ ~ mount.there /\ ~ mount.was
  /\ \E readOnly \in BOOLEAN :
       mount' = [mount EXCEPT !.there = TRUE, !.was = TRUE, !.readOnly = readOnly]
  /\ s' = [s EXCEPT !.M = Empty]

UnmountMemory ==
  /\ Meddles /\ mount.there
  /\ mount' = [mount EXCEPT !.there = FALSE]
  /\ s' = s

Host == AddVirtualFile \/ RemoveVirtualFile \/ MountMemory \/ UnmountMemory

-----------------------------------------------------------------------------

Holding(p, d) ==
  [q \in Paths |-> IF q = p THEN File(d) ELSE IF Under(q, p) THEN Dir ELSE None]

\* What was stored, injected and mounted before.
Init ==
  /\ \E n \in Names \ {Point} :
       s \in [O : {Empty, Holding(<<n, n>>, <<2>>)},
              L : {Empty, Holding(<<n>>, <<1, 1>>), Holding(<<n, n>>, <<1, 1>>),
                   Holding(<<n, Point>>, <<1, 1>>), Holding(<<Point>>, <<1, 1>>)},
              M : {Empty, Holding(<<n>>, <<3, 3>>)}]
  /\ mount \in [there : {TRUE}, was : {TRUE}, readOnly : BOOLEAN, layered : BOOLEAN]
        \cup [there : {FALSE}, was : {FALSE}, readOnly : {FALSE}, layered : BOOLEAN]
  /\ mount.there \/ s.M = Empty
  /\ call = NoCall /\ calls = 0 /\ others = 0

Next == Begin \/ Step \/ Other \/ Host

Spec == Init /\ [][Next]_vars
-----------------------------------------------------------------------------
(* Properties *)

\* The layers disagree about what is at a path, or above it.
Clash(p) ==
  LET m == Resolve(p)
  IN  m.up /\ \E q \in Above(p) \cup {p} :
        /\ Under(m.base, q) /\ s.O[q] # None /\ s[m.low][Local(m, q)] # None
        /\ s.O[q].kind # s[m.low][Local(m, q)].kind

Seen(p) == IF StatOf(p) = None THEN {} ELSE {Entry(p, StatOf(p).kind)}

At(entries, p) == {e \in entries : e.path = p}

\* Something below has the name of the mount.
Taken == \E p \in Paths : Len(p) = 2 /\ Last(p) = Point /\ StatOf(p) # None

\* What a listing names is what a stat of it finds, and nothing that a stat finds is left
\* out, across layers and mounts; of a recursive one too, unless something below has the
\* name of a mount (facade.ts readdir, union.ts readdir and stat).  Looked at when a call is
\* over: what others do comes in the middle of calls as well.
ListingsAgree ==
  ~ Busy => \A d \in {x \in Paths : StatOf(x).kind = "dir"} :
    LET list == ListOf(d)
        tree == TreeOf(d)
    IN  \A p \in Paths : Under(d, p) /\ p # d /\ ~ Clash(p) =>
          /\ Len(p) = Len(d) + 1 => At(list, p) = Seen(p)
          /\ (mount.there /\ Taken) \/ At(tree, p) = Seen(p)

\* The same of every recursive listing.
TreesAgree ==
  \A d, p \in Paths :
    StatOf(d).kind = "dir" /\ Under(d, p) /\ p # d /\ ~ Clash(p) => At(TreeOf(d), p) = Seen(p)

\* A rename leaves the bytes of the file at one of its two paths, and an append what it
\* adds to, at every moment and whatever fails (Facade.rename, ops.ts append).  A file
\* that is moved below an overlay's own is hidden there.
BytesKept ==
  call.op \in {"rename", "append"} /\ call.alone /\ call.had.kind = "file" =>
    IF call.op = "rename"
    THEN call.hidden \/ \E p \in {call.from, call.to} : StatOf(p) = call.had
    ELSE IsPrefix(call.had.data, StatOf(call.from).data)

\* What a call that succeeded did is what is found afterwards, whichever layer it went to;
\* but what an overlay holds above something else shows that when it is removed.
CallShows ==
  call.op # "none" /\ call.alone /\ call.pc = "done" /\ call.err = "ok" =>
    LET found == StatOf(call.to)
    IN  CASE call.op = "writeFile" -> found = File(New)
          [] call.op = "append" -> found = File(call.had.data \o New)
          [] call.op = "truncate" -> found.kind = "file" /\ (call.flag => found.data = <<>>)
          [] call.op = "mkdir" -> found = Dir
          [] call.op = "rm" -> call.twice \/ call.flag \/ found = None
          [] call.op = "rename" -> call.hidden \/ call.had.kind = "dir" \/ found = call.had
          [] call.op = "copyFile" -> found = call.had
          [] call.op = "cp" ->
               \A p \in Paths : Under(call.from, p) /\ ~ Clash(p) /\ StatOf(p).kind = "file" =>
                 StatOf(call.to \o SubSeq(p, Len(call.from) + 1, Len(p))) = StatOf(p)

\* No call of a program changes what is mounted read-only, through a layer or not
\* (#assertWritable, #inheritMount).
ReadOnlyHolds ==
  [][mount.readOnly /\ s'.M # s.M => AddVirtualFile \/ RemoveVirtualFile \/ MountMemory]_vars
=============================================================================
