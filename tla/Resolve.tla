------------------------------- MODULE Resolve ----------------------------------
(***************************************************************************)
(* What a specifier means (worker/module/resolve.ts): the package of a bare *)
(* one is looked for from the importer's directory up to the root, that of  *)
(* a #-import is the importer's own.  The answer and the type of each        *)
(* directory are remembered until a file changes, and every node_modules    *)
(* that is looked into is listed first.                                     *)
(*                                                                         *)
(* The directories above an importer are numbered from its own, 1, to the   *)
(* root, Depth.  A resolution is one step here: Loader has the changes that *)
(* reach the worker in the middle of one.                                  *)
(***************************************************************************)
EXTENDS Integers, FiniteSets

CONSTANTS
  Depth,
  Facts,                     \* what may be at a level
  MaxResolves, MaxChanges    \* bounds

VARIABLES
  tree,       \* what is at each level
  memo,       \* resolvePathCache
  types,      \* packageTypeCache
  seeded,     \* seededNodeModules: how deep each was listed
  hydrated,   \* hydratedPackages, of the one package
  listings,   \* of each level's node_modules and package, since what is there was mounted
  answer,     \* of the last resolution, for the tree that is
  resolves, changes

vars == <<tree, memo, types, seeded, hydrated, listings, answer, resolves, changes>>

Levels == 1 .. Depth

\* A fact: the size of node_modules, what the package in it is, whether its main file lies deep,
\* and its type; the package.json of the directory itself and its type; and whether what a native
\* package is replaced by is installed there.
HasJson == {"main", "native", "dual", "importOnly"}

Exporting == {"dual", "importOnly"}

\* The package's inner directory, node_modules, and the directory that has it.
Dirs == Levels \X {"pkg", "nm", "dir"}

Rank == [x \in {"pkg", "nm", "dir"} |-> CASE x = "pkg" -> 0 [] x = "nm" -> 1 [] x = "dir" -> 2]

Root == <<Depth, "dir">>

Nearest(S) == IF S = {} THEN 0 ELSE CHOOSE l \in S : \A m \in S : l <= m

\* Everything stops one level above the root, unless it starts there.
Visited(l) == IF l = Depth THEN {Depth} ELSE l .. Depth - 1

Query == [spec : {"p", "#i"}, from : Levels, cond : {"import", "require"}]

Path(l, f) == [at |-> l, file |-> f]

Throws(why) == [at |-> 0, file |-> why]

Null == Throws("null")

Unknown == Throws("unknown")

-----------------------------------------------------------------------------
(* resolveSource *)

\* findPackageJson: a directory that has the package without a package.json is passed by.
FindPackageJson(l) == Nearest({k \in Visited(l) : tree[k].pkg \in HasJson})

\* The exports of that package, or none to speak of.
ViaExports(q) ==
  LET k == FindPackageJson(q.from) IN
  CASE k = 0 \/ (k # 0 /\ tree[k].pkg \notin Exporting) -> Null
    [] k # 0 /\ tree[k].pkg = "importOnly" /\ q.cond = "require" -> Throws("unexported")
    [] OTHER -> Path(k, q.cond)

\* The nearest package.json, which has imports or has not.  One that leads to another package is
\* left to the search for a module of this name.
ViaImports(q) ==
  LET k == Nearest({l \in Visited(q.from) : tree[l].project # "none"}) IN
  IF k # 0 /\ tree[k].project = "own" THEN Path(k, "own") ELSE Null

\* resolve's own search goes to the root, and knows main and index.js.
Loadable(k) == tree[k].pkg \in {"bare", "main", "native", "dual"}

MainOf(k) == Path(k, CASE tree[k].pkg = "bare" -> "index" [] tree[k].pkg = "dual" -> "require" [] OTHER -> "main")

Legacy(q) ==
  LET k == Nearest({l \in q.from .. Depth : Loadable(l)}) IN
  IF q.spec # "p" \/ k = 0 THEN Throws("notFound") ELSE MainOf(k)

\* maybeRedirectModule: a native package is served by another one, which must be found from it.
Redirected(p) ==
  IF p.at = 0 \/ p.file # "main" \/ tree[p.at].pkg # "native" THEN p
  ELSE LET k == Nearest({l \in p.at .. Depth - 1 : tree[l].wasm})
       IN  IF k = 0 THEN Throws("notInstalled") ELSE Path(k, "wasm")

Via(q) == IF q.spec = "p" THEN ViaExports(q) ELSE ViaImports(q)

Found(q) == Redirected(IF Via(q) = Null THEN Legacy(q) ELSE Via(q))

\* What failed is not remembered.
Remembered(q, p) == [memo EXCEPT ![q] = IF p.at = 0 THEN @ ELSE p]

-----------------------------------------------------------------------------
(* readPackageType *)

\* The directories from d up.
Chain(d) == {e \in Dirs : /\ e[1] > d[1] => e[2] = "dir"
                          /\ e[1] = d[1] => Rank[e[2]] >= Rank[d[2]]
                          /\ e[1] >= d[1] /\ (e = Root => d = Root)}

Before(d, e) == d[1] < e[1] \/ (d[1] = e[1] /\ Rank[d[2]] < Rank[e[2]])

\* The type a directory's own package.json gives it.
Declares(d) ==
  CASE d[2] = "dir" /\ tree[d[1]].project # "none" -> tree[d[1]].scope
    [] d[2] = "pkg" /\ tree[d[1]].pkg \in HasJson -> tree[d[1]].type
    [] OTHER -> "unknown"

\* The walk ends at what is known, or at a package.json.
Ends(cache, d) == {e \in Chain(d) : cache[e] # "unknown" \/ Declares(e) # "unknown"}

End(cache, d) == CHOOSE e \in Ends(cache, d) : \A o \in Ends(cache, d) : o = e \/ Before(e, o)

TypeOf(cache, d) ==
  CASE Ends(cache, d) = {} -> "undefined"
    [] Ends(cache, d) # {} /\ cache[End(cache, d)] # "unknown" -> cache[End(cache, d)]
    [] OTHER -> Declares(End(cache, d))

Walked(d) == {e \in Chain(d) : Ends(types, d) = {} \/ e = End(types, d) \/ Before(e, End(types, d))}

\* What a package is replaced by has a package.json of its own.
DirOf(p) == CASE p.file = "wasm" \/ p.at = 0 -> {} [] p.file = "own" -> {<<p.at, "dir">>} [] OTHER -> {<<p.at, "pkg">>}

Typed(p) == [e \in Dirs |-> IF \E d \in DirOf(p) : e \in Walked(d)
                            THEN TypeOf(types, CHOOSE d \in DirOf(p) : TRUE) ELSE types[e]]

-----------------------------------------------------------------------------
(* statKind *)

\* The node_modules that are looked into: those of the search for exports, and when it finds none
\* those of the other search; and those of the package that replaces one.
Probed(q) ==
  LET l == q.from
      k == FindPackageJson(l)
      m == Nearest({i \in l .. Depth : Loadable(i)})
      p == IF Via(q) = Null THEN Legacy(q) ELSE Via(q)
      w == Redirected(p)
  IN  (IF q.spec # "p" THEN {} ELSE {i \in Visited(l) : k = 0 \/ i <= k})
        \cup (IF Via(q) # Null THEN {} ELSE {i \in l .. Depth : (q.spec = "p" /\ m # 0) => i <= m})
        \cup (IF w = p THEN {} ELSE {i \in p.at .. Depth - 1 : w.at # 0 => i <= w.at})

\* seededDepth: as deep as a listing may go that is complete; one that is not there has nothing to list.
Covered(k) == [none |-> 99, small |-> 3, big |-> 1][tree[k].nm]

Requests(k) == IF tree[k].nm = "big" THEN 2 ELSE 1

\* Past what was listed, the package is listed whole, where a probe is of it: of its package.json
\* at depth 2, of a file that lies deep at depth 4.
Deepest(q, p, k) ==
  CASE p.at = k /\ p.file # "wasm" /\ q.spec = "p" /\ tree[k].deep -> 4 [] q.spec = "p" -> 2 [] OTHER -> 1

Fresh(k) == IF seeded[k] = -1 THEN Covered(k) ELSE seeded[k]

Hydrates(q, p) == {k \in Probed(q) \ hydrated : Deepest(q, p, k) > Fresh(k)}

Lists(q, p) ==
  /\ seeded' = [k \in Levels |-> IF k \in Probed(q) THEN Fresh(k) ELSE seeded[k]]
  /\ hydrated' = hydrated \cup Hydrates(q, p)
  /\ listings' = [k \in Levels |->
       [nm |-> listings[k].nm + (IF k \in Probed(q) /\ seeded[k] = -1 THEN Requests(k) ELSE 0),
        pkg |-> listings[k].pkg + (IF k \in Hydrates(q, p) THEN 1 ELSE 0)]]

Resolves(q) ==
  LET p == IF memo[q] = Unknown THEN Found(q) ELSE memo[q]
      t == IF DirOf(p) = {} THEN "none" ELSE TypeOf(types, CHOOSE d \in DirOf(p) : TRUE)
  IN  /\ resolves < MaxResolves /\ resolves' = resolves + 1
      /\ memo' = Remembered(q, p) /\ types' = Typed(p)
      /\ answer' = [query |-> q, path |-> p, type |-> t]
      /\ IF memo[q] = Unknown THEN Lists(q, p) ELSE UNCHANGED <<seeded, hydrated, listings>>
      /\ UNCHANGED <<tree, changes>>

-----------------------------------------------------------------------------
(* invalidateResolved *)

Nowhere == [q \in Query |-> Unknown]

Untyped == [d \in Dirs |-> "unknown"]

NoAnswer == [query |-> [spec |-> "none", from |-> 1, cond |-> "none"], path |-> Unknown, type |-> "none"]

\* Both memos go: neither can be asked what depends on a path.
Forgotten(l) == Nowhere

Changes(l) ==
  /\ changes < MaxChanges /\ changes' = changes + 1
  /\ \E f \in Facts \ {tree[l]} : tree' = [tree EXCEPT ![l] = f]
  /\ memo' = Forgotten(l) /\ types' = Untyped /\ answer' = NoAnswer
  /\ UNCHANGED <<seeded, hydrated, listings, resolves>>

\* invalidateResolvedSubtree: what is under the mount is to be listed again.  (One level of it is
\* another one than it was.)
Unseeded(l) == 1 .. l

Mounts(l) ==
  /\ changes < MaxChanges /\ changes' = changes + 1
  /\ \E k \in 1 .. l, f \in Facts : f # tree[k] /\ tree' = [tree EXCEPT ![k] = f]
  /\ memo' = Nowhere /\ types' = Untyped /\ answer' = NoAnswer
  /\ seeded' = [k \in Levels |-> IF k \in Unseeded(l) THEN -1 ELSE seeded[k]]
  /\ hydrated' = hydrated \ Unseeded(l)
  /\ listings' = [k \in Levels |-> IF k <= l THEN [nm |-> 0, pkg |-> 0] ELSE listings[k]]
  /\ UNCHANGED resolves

Init ==
  /\ tree \in [Levels -> Facts] /\ memo = Nowhere /\ types = Untyped /\ answer = NoAnswer
  /\ seeded = [k \in Levels |-> -1] /\ hydrated = {} /\ listings = [k \in Levels |-> [nm |-> 0, pkg |-> 0]]
  /\ resolves = 0 /\ changes = 0

Next == (\E q \in Query : Resolves(q)) \/ (\E l \in Levels : Changes(l) \/ Mounts(l))

-----------------------------------------------------------------------------
(* Properties *)

\* What is remembered of a specifier, and of a directory, is what would be found now, however the
\* walks that filled the memos overlapped (resolvePathCache, packageTypeCache).
MemosTrue ==
  /\ \A q \in Query : memo[q] # Unknown => memo[q] = Found(q)
  /\ \A d \in Dirs : types[d] # "unknown" => types[d] = TypeOf(Untyped, d)

\* Node's algorithm: the nearest package decides, by its exports if it has any; an import of a
\* package's own leads where it says, another package included.
NodeBare(l, cond) ==
  LET k == Nearest({i \in l .. Depth : tree[i].pkg # "none"}) IN
  CASE k = 0 -> Throws("notFound")
    [] k # 0 /\ tree[k].pkg = "importOnly" /\ cond = "require" -> Throws("unexported")
    [] k # 0 /\ tree[k].pkg \in Exporting /\ (tree[k].pkg = "dual" \/ cond = "import") -> Path(k, cond)
    [] OTHER -> Redirected(MainOf(k))

Node(q) ==
  LET k == Nearest({i \in q.from .. Depth : tree[i].project # "none"}) IN
  CASE q.spec = "p" -> NodeBare(q.from, q.cond)
    [] q.spec # "p" /\ k # 0 /\ tree[k].project = "own" -> Path(k, "own")
    [] q.spec # "p" /\ k # 0 /\ tree[k].project = "extern" -> NodeBare(k, q.cond)
    [] OTHER -> Throws("notFound")

\* Where this resolver is not Node: exports are not looked for in /node_modules, nor in a package
\* past which one with a package.json is found; a package.json of the root is not read; an import
\* that leads to another package is not followed.
Excepted(q) ==
  LET n == Nearest({i \in q.from .. Depth : tree[i].pkg # "none"})
      k == Nearest({i \in q.from .. Depth : tree[i].project # "none"})
  IN  IF q.spec = "p"
      THEN /\ n # 0
           /\ \/ n \notin Visited(q.from) /\ tree[n].pkg \in Exporting
              \/ tree[n].pkg = "bare" /\ FindPackageJson(q.from) # 0
      ELSE k # 0 /\ (k \notin Visited(q.from) \/ tree[k].project = "extern")

\* Node's package scope ends at node_modules, and the root has one.
NodeType(d) ==
  LET k == Nearest({i \in d[1] .. Depth : tree[i].project # "none"}) IN
  CASE d[2] = "pkg" -> IF tree[d[1]].pkg \in HasJson THEN tree[d[1]].type ELSE "undefined"
    [] OTHER -> IF k = 0 THEN "undefined" ELSE tree[k].scope

TypeExcepted(d) ==
  IF d[2] = "pkg" THEN tree[d[1]].pkg = "bare" ELSE Nearest({k \in d[1] .. Depth : tree[k].project # "none"}) = Depth /\ d # Root

\* A specifier leads where Node has it lead, and its source is of the type Node gives it, but for
\* the exceptions (resolveSource, detectRuntimeSourceType).
AsNode == answer # NoAnswer =>
  /\ Excepted(answer.query) \/ answer.path = Node(answer.query)
  /\ \A d \in DirOf(answer.path) : TypeExcepted(d) \/ answer.type = NodeType(d)

\* A node_modules is listed before it is looked into, once, and again only when something was
\* mounted over it; so is a package (seededDepth, hydratePackage).
ListedOnce == \A k \in Levels :
  /\ listings[k].nm = CASE seeded[k] = -1 -> 0 [] seeded[k] = 1 -> 2 [] OTHER -> 1
  /\ listings[k].pkg = IF k \in hydrated THEN 1 ELSE 0
  /\ \A q \in Query : memo[q].at = k /\ memo[q].file # "own" => k \in hydrated \/ seeded[k] > 1
=============================================================================
