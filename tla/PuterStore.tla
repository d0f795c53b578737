----------------------------- MODULE PuterStore -------------------------------
(***************************************************************************)
(* puterfs as a backend: the requests of its provider (lib/vfs/puter.ts),  *)
(* the listings in pages and from horizon to horizon (puter-readdir.ts),   *)
(* and the transport below, which asks again when the account is throttled *)
(* and never otherwise (puter-http.ts).                                    *)
(*                                                                         *)
(* The api is external: it throttles, performs a request and answers, or   *)
(* fails before or after it performed it.  Pages end where it likes, in    *)
(* the order of the paths.  Another client changes what it pleases.        *)
(***************************************************************************)
EXTENDS Integers, Sequences, FiniteSets, SequencesExt, Functions

CONSTANTS
  None,
  Clients,     \* calls that may be under way at once
  Paths,       \* bound: sequences of integers, closed under taking a parent
  Horizon,     \* MAX_DEPTH
  Attempts,    \* RETRY_ATTEMPTS
  Budget,      \* RETRY_BUDGET_MS, in ticks
  MaxWait,     \* RETRY_MAX_MS, in ticks
  MaxCalls, MaxForeign   \* bounds

ASSUME PuterAssumption ==
  /\ Horizon \in Nat \ {0} /\ Attempts \in Nat /\ Budget \in Nat /\ MaxWait \in Nat \ {0}
  /\ Paths \subseteq Seq(Int) /\ IsFiniteSet(Paths) /\ None \notin Paths
  /\ \A p \in Paths : p # <<>> /\ (Len(p) > 1 => Front(p) \in Paths)

VARIABLES
  tree,        \* what the api holds: "none", "dir" or "file" for each path
  cooldown,    \* #cooldownUntil: ticks until the account may be asked again
  call,        \* of each client
  calls, foreign

vars == <<tree, cooldown, call, calls, foreign>>

Under(r, p) == IsPrefix(r, p) /\ p # r

\* The order of the api's listings.
Before(p, q) ==
  \/ Under(p, q)
  \/ \E i \in 1 .. Len(p) :
       i <= Len(q) /\ p[i] < q[i] /\ \A j \in 1 .. i - 1 : p[j] = q[j]

\* What is at a path; the root is always there.
At(t, p) == IF p = <<>> THEN "dir" ELSE t[p]

There(t, p) == At(t, p) # "none"

IsDir(t, p) == At(t, p) = "dir"

Below(t, r) == {p \in Paths : Under(r, p) /\ t[p] # "none"}

-----------------------------------------------------------------------------
(* The api *)

Ok(t, val) == [t |-> t, res |-> "ok", val |-> val]
No(t, code) == [t |-> t, res |-> code, val |-> None]

Without(t, r) == [p \in Paths |-> IF IsPrefix(r, p) THEN "none" ELSE t[p]]

\* POST /batch: a file is written into a directory that is there.
Written(t, p) ==
  IF ~ IsDir(t, Front(p)) THEN No(t, "missing")
  ELSE IF t[p] = "dir" THEN No(t, "isdir") ELSE Ok([t EXCEPT ![p] = "file"], None)

\* POST /move; overwrite removes what is in the way, a tree or not.
Moved(t, from, to, overwrite) ==
  LET cleared == Without(t, to)
      moved == [p \in Paths |->
        IF IsPrefix(to, p)
        THEN LET old == from \o SubSeq(p, Len(to) + 1, Len(p))
             IN  IF old \in Paths THEN cleared[old] ELSE "none"
        ELSE IF IsPrefix(from, p) THEN "none" ELSE t[p]]
  IN  IF t[from] = "none" \/ ~ IsDir(t, Front(to)) THEN No(t, "missing")
      ELSE IF IsPrefix(from, to) \/ IsPrefix(to, from) THEN No(t, "itself")
      ELSE IF t[to] # "none" /\ ~ overwrite THEN No(t, "exists") ELSE Ok(moved, None)

\* What is left of a listing from its cursor on, to its depth.
Found(t, q) ==
  {p \in Below(t, q.root) :
     /\ Len(p) - Len(q.root) <= (IF q.deep THEN Horizon ELSE 1)
     /\ q.cursor = None \/ Before(q.cursor, p)}

UpTo(found, p) == {x \in found : x = p \/ Before(x, p)}

Entries(t, items) == {<<x, t[x]>> : x \in items}

\* A page with some of it, the next cursor, and whether the total is above one.
Page(t, found, items) ==
  [items |-> Entries(t, items), many |-> \E x, y \in found : x # y,
   cursor |-> IF items = found THEN None
              ELSE CHOOSE x \in items : \A y \in items : y = x \/ Before(y, x)]

\* GET /fs/readdir: a page from the cursor on, which ends anywhere.
Pages(t, q) ==
  IF ~ There(t, q.root) THEN {No(t, "missing")}
  ELSE IF ~ IsDir(t, q.root) THEN {No(t, "notdir")}
  ELSE LET found == Found(t, q)
       IN  IF found = {} THEN {Ok(t, Page(t, found, {}))}
           ELSE {Ok(t, Page(t, found, UpTo(found, p))) : p \in found}

Performed(t, q) ==
  CASE q.kind = "batch" -> {Written(t, q.path)}
    [] q.kind = "move" -> {Moved(t, q.path, q.to, q.overwrite)}
    [] q.kind = "stat" -> {IF There(t, q.path) THEN Ok(t, [items |-> Entries(t, {q.path}), many |-> FALSE, cursor |-> None]) ELSE No(t, "missing")}
    [] q.kind = "readdir" -> Pages(t, q)

-----------------------------------------------------------------------------
(* The transport: PuterApi.fetch *)

Busy(c) == call[c].op \notin {"none", "done"}

Smaller(a, b) == IF a < b THEN a ELSE b
Larger(a, b) == IF a > b THEN a ELSE b

\* A request of the provider's: #send, which waits out a cooldown first.
Asks(c, q) ==
  [c EXCEPT !.req = q, !.net = "cool", !.left = Budget, !.attempt = 0, !.ran = 0,
            !.sleep = Smaller(cooldown, Budget)]

\* The request goes out.
Fetch(c) ==
  /\ Busy(c) /\ call[c].net = "cool" /\ call[c].sleep = 0
  /\ call' = [call EXCEPT ![c].net = "sent"]
  /\ UNCHANGED <<tree, cooldown, calls, foreign>>

\* Throttled: refused without being performed.
Throttled(c) ==
  /\ Busy(c) /\ call[c].net = "sent"
  /\ \E wait \in 1 .. MaxWait :
       IF call[c].attempt >= Attempts \/ wait > call[c].left
       THEN /\ call' = [call EXCEPT ![c].net = "answer", ![c].res = [res |-> "429", val |-> None]]
            /\ cooldown' = cooldown
       ELSE /\ call' = [call EXCEPT ![c].net = "back", ![c].sleep = wait, ![c].attempt = @ + 1]
            /\ cooldown' = Larger(cooldown, wait)
  /\ UNCHANGED <<tree, calls, foreign>>

\* Mutation: the request is sent anew, with a budget and attempts of its own.
Woken_Anew(c) ==
  /\ Busy(c) /\ call[c].net = "back" /\ call[c].sleep = 0
  /\ call' = [call EXCEPT ![c] = Asks(@, @.req)]
  /\ UNCHANGED <<tree, cooldown, calls, foreign>>

\* It slept, and stands behind a cooldown that began meanwhile.
Woken(c) ==
  /\ Busy(c) /\ call[c].net = "back" /\ call[c].sleep = 0
  /\ call' = [call EXCEPT ![c].net = "cool", ![c].sleep = Smaller(cooldown, call[c].left)]
  /\ UNCHANGED <<tree, cooldown, calls, foreign>>

\* What a change of the tree means to the calls that are under way: a listing owes what stays,
\* and a rename may have looked at what is now another destination.
Seen(t) == [k \in Clients |->
  IF call[k].op = "list"
  THEN [call[k] EXCEPT !.stayed = {p \in @ : t[p] # "none"},
                       !.ever = @ \cup {p \in Paths : t[p] # "none"}]
  ELSE IF call[k].op = "rename" /\ call[k].step \in {"dest", "look", "over"}
  THEN [call[k] EXCEPT !.raced = @ \/ \E p \in Paths : IsPrefix(call[k].to, p) /\ t[p] # tree[p]]
  ELSE call[k]]

\* A move that removed a directory with something in it.
Lost(t, u, q) ==
  q.kind = "move" /\ u # t /\ t[q.to] = "dir" /\ Below(t, q.to) # {}

\* The api performs a request, and this is what the client hears of it.
Runs(c, t, net, res) ==
  LET k == call[c]
      seen == Seen(t)[c]
      ran == [seen EXCEPT !.net = net, !.ran = @ + 1, !.res = res, !.raced = k.raced,
                          !.lost = @ \/ Lost(tree, t, k.req)]
  IN  call' = [Seen(t) EXCEPT ![c] = ran]

Failure == [res |-> "5xx", val |-> None]

\* Mutation: what failed is asked again, as what was refused is.
Fails_Retried(c) ==
  /\ Busy(c) /\ call[c].net = "sent"
  /\ \E r \in Performed(tree, call[c].req) :
       tree' = r.t /\ Runs(c, r.t, IF call[c].attempt < Attempts THEN "back" ELSE "answer", Failure)
  /\ UNCHANGED <<cooldown, calls, foreign>>

\* A failure says nothing of whether the request was performed.
Fails(c) ==
  /\ Busy(c) /\ call[c].net = "sent"
  /\ \/ /\ call' = [call EXCEPT ![c].net = "answer", ![c].res = Failure]
        /\ tree' = tree
     \/ \E r \in Performed(tree, call[c].req) : tree' = r.t /\ Runs(c, r.t, "answer", Failure)
  /\ UNCHANGED <<cooldown, calls, foreign>>

Answers(c) ==
  /\ Busy(c) /\ call[c].net = "sent"
  /\ \E r \in Performed(tree, call[c].req) :
       tree' = r.t /\ Runs(c, r.t, "answer", [res |-> r.res, val |-> r.val])
  /\ UNCHANGED <<cooldown, calls, foreign>>

\* Time, for those who sleep.
Tick ==
  /\ \E c \in Clients : Busy(c) /\ call[c].sleep > 0
  /\ cooldown' = Larger(cooldown - 1, 0)
  /\ call' = [c \in Clients |->
       IF Busy(c) THEN [call[c] EXCEPT !.sleep = Larger(@ - 1, 0), !.left = Larger(@ - 1, 0)]
       ELSE call[c]]
  /\ UNCHANGED <<tree, calls, foreign>>

-----------------------------------------------------------------------------
(* The provider *)

Batch(p) == [kind |-> "batch", path |-> p]
Move(from, to, overwrite) == [kind |-> "move", path |-> from, to |-> to, overwrite |-> overwrite]
StatReq(p) == [kind |-> "stat", path |-> p]
Readdir(root, deep, cursor) == [kind |-> "readdir", root |-> root, deep |-> deep, cursor |-> cursor]

New(op, from, to) ==
  [op |-> op, from |-> from, to |-> to, step |-> "first", req |-> None, net |-> "idle",
   left |-> 0, attempt |-> 0, sleep |-> 0, ran |-> 0, res |-> None, source |-> None,
   out |-> <<>>, frontier |-> <<>>, stayed |-> {}, ever |-> {}, raced |-> FALSE, blind |-> FALSE,
   lost |-> FALSE]

NoCall == New("none", <<>>, <<>>)

\* writeFile, as each call of one request is: mkdir, rm, copyFile, touch.
WriteFile(c) ==
  \E p \in Paths : call' = [call EXCEPT ![c] = Asks(New("write", p, p), Batch(p))]

RenameCall(c) ==
  \E from, to \in Paths :
    /\ \A p \in Paths : Under(from, p) => to \o SubSeq(p, Len(from) + 1, Len(p)) \in Paths
    /\ call' = [call EXCEPT ![c] = Asks(New("rename", from, to), Move(from, to, FALSE))]

\* readdirTree: the root cannot be listed recursively.
List(c) ==
  \E r \in Paths \cup {<<>>} :
    LET new == [New("list", r, r) EXCEPT !.stayed = Below(tree, r), !.ever = Below(tree, r)]
    IN  call' = [call EXCEPT ![c] = Asks(new, Readdir(r, r # <<>>, None))]

Begin(c) ==
  /\ ~ Busy(c) /\ calls < MaxCalls /\ calls' = calls + 1
  /\ WriteFile(c) \/ RenameCall(c) \/ List(c)
  /\ UNCHANGED <<tree, cooldown, foreign>>

\* The answer of the first client's request, taken.
Takes(c) == Busy(c) /\ call[c].net = "answer" /\ UNCHANGED <<tree, cooldown, calls, foreign>>

Done(k, res) ==
  [k EXCEPT !.op = "done", !.net = "idle", !.res = [res |-> res, val |-> None], !.req = None]

Finish(c, res) == call' = [call EXCEPT ![c] = Done(@, res)]

\* A call that is one request.
OnWritten(c) == Takes(c) /\ call[c].op = "write" /\ Finish(c, call[c].res.res)

\* rename: only when something is in the way is it looked at.
OnMoved(c) ==
  /\ Takes(c) /\ call[c].op = "rename" /\ call[c].step = "first"
  /\ IF call[c].res.res = "exists"
     THEN call' = [call EXCEPT ![c] = Asks([@ EXCEPT !.step = "source"], StatReq(@.from))]
     ELSE Finish(c, call[c].res.res)

\* What a stat says that was answered; one that failed says that there is no directory.
SaysDir(k) == k.res.res = "ok" /\ \E i \in k.res.val.items : i[2] = "dir"

\* The two stats are sent together: the order of their answers does not matter here.
OnSource(c) ==
  /\ Takes(c) /\ call[c].step = "source"
  /\ LET k == call[c]
         dir == SaysDir(k)
     IN  call' = [call EXCEPT ![c] =
           Asks([k EXCEPT !.step = "dest", !.source = IF dir THEN "dir" ELSE "other"], StatReq(k.to))]

OnDest(c) ==
  /\ Takes(c) /\ call[c].step = "dest"
  /\ LET k == call[c]
         dir == SaysDir(k)
         seen == [k EXCEPT !.blind = k.res.res # "ok"]
     IN  IF dir # (k.source = "dir") THEN Finish(c, "kind")
         ELSE IF dir
         THEN call' = [call EXCEPT ![c] =
                Asks([seen EXCEPT !.step = "look"], Readdir(k.to, FALSE, None))]
         ELSE call' = [call EXCEPT ![c] =
                Asks([seen EXCEPT !.step = "over"], Move(k.from, k.to, TRUE))]

\* The look is a listing of at most one entry.  When the api tells the total and it is above
\* that, the listing is given up before an entry was taken, and looks empty; the total is optional.
GivenUp(page, counted) == counted /\ page.many

OnLooked(c) ==
  /\ Takes(c) /\ call[c].step = "look"
  /\ LET k == call[c] IN
     IF k.res.res # "ok" THEN Finish(c, k.res.res)
     ELSE \E counted \in BOOLEAN :
       IF k.res.val.items # {} /\ ~ GivenUp(k.res.val, counted) THEN Finish(c, "notempty")
       ELSE call' = [call EXCEPT ![c] =
              Asks([k EXCEPT !.step = "over", !.blind = k.blind \/ GivenUp(k.res.val, counted)],
                   Move(k.from, k.to, TRUE))]

OnOver(c) == Takes(c) /\ call[c].step = "over" /\ Finish(c, call[c].res.res)

\* Mutation: the last page is the one that is not full.
MorePages_ByLength(page) == page.cursor # None /\ Cardinality(page.items) > 1

\* Only an absent cursor means the last page.
MorePages(page) == page.cursor # None

\* Directories that are listed on their own: at the depth the api stops at, and, of a flat
\* listing of the root, all.
AtHorizon(r, p) == Len(p) - Len(r) = (IF r = <<>> THEN 1 ELSE Horizon)

NextPage(q, page) == Readdir(q.root, q.deep, page.cursor)

\* readdirPages and the loop of readdirTree.
OnPage(c) ==
  /\ Takes(c) /\ call[c].op = "list"
  /\ LET k == call[c]
         page == k.res.val
         items == SetToSeq({i[1] : i \in page.items})
         more == SetToSeq({i[1] : i \in {x \in page.items : x[2] = "dir" /\ AtHorizon(k.req.root, x[1])}})
         next == [k EXCEPT !.out = @ \o items, !.frontier = @ \o more]
     IN  IF k.res.res # "ok" THEN Finish(c, k.res.res)
         ELSE IF MorePages(page)
         THEN call' = [call EXCEPT ![c] = Asks(next, NextPage(k.req, page))]
         ELSE IF next.frontier # <<>>
         THEN call' = [call EXCEPT ![c] =
                Asks([next EXCEPT !.frontier = Tail(@)], Readdir(Head(next.frontier), TRUE, None))]
         ELSE call' = [call EXCEPT ![c] =
                [Done(next, "ok") EXCEPT !.step = "listed"]]

Provider(c) ==
  OnWritten(c) \/ OnMoved(c) \/ OnSource(c) \/ OnDest(c) \/ OnLooked(c) \/ OnOver(c) \/ OnPage(c)

-----------------------------------------------------------------------------
(* Another client *)

Foreign ==
  /\ foreign < MaxForeign /\ foreign' = foreign + 1
  /\ \E p \in Paths, what \in {"dir", "file", "none"} :
       /\ what # "none" => IsDir(tree, Front(p)) /\ tree[p] = "none"
       /\ tree' = IF what = "none" THEN Without(tree, p) ELSE [tree EXCEPT ![p] = what]
       /\ call' = Seen(tree')
  /\ UNCHANGED <<cooldown, calls>>

\* A call of this page that is not followed here was throttled: the limit is the account's.
Elsewhere ==
  /\ foreign < MaxForeign /\ foreign' = foreign + 1
  /\ \E wait \in 1 .. MaxWait : cooldown' = Larger(cooldown, wait)
  /\ UNCHANGED <<tree, call, calls>>

Init ==
  /\ tree \in {t \in [Paths -> {"none", "dir", "file"}] :
                \A p \in Paths : t[p] # "none" /\ Len(p) > 1 => t[Front(p)] = "dir"}
  /\ cooldown = 0 /\ call = [c \in Clients |-> NoCall] /\ calls = 0 /\ foreign = 0

Request(c) == Fetch(c) \/ Throttled(c) \/ Woken(c) \/ Fails(c) \/ Answers(c)

Next == (\E c \in Clients : Begin(c) \/ Request(c) \/ Provider(c)) \/ Tick \/ Foreign \/ Elsewhere

Spec == Init /\ [][Next]_vars

\* The api answers in the end, timers fire, and the page takes what it is told.
FairSpec ==
  /\ Spec /\ WF_vars(Tick)
  /\ \A c \in Clients : WF_vars(Request(c)) /\ WF_vars(Provider(c))

-----------------------------------------------------------------------------
(* Properties *)

\* "nothing in this api is idempotent": a request that is asked again after a 429 was not
\* performed before, so no request of the provider is ever performed twice.
PerformedOnce == \A c \in Clients : Busy(c) => call[c].ran <= 1

\* A recursive listing that was answered has everything that was there from its start to its
\* end, each entry once, and nothing that never was there: wherever the pages end, whatever
\* another client does meanwhile, and beyond the depth one request reaches.
ListingWhole ==
  \A c \in Clients :
    call[c].step = "listed" =>
      /\ call[c].stayed \subseteq Range(call[c].out) /\ Range(call[c].out) \subseteq call[c].ever
      /\ IsInjective(call[c].out)

\* rename never deletes a tree that was in its way, unless the destination changed after it
\* looked, or the look was blind: it failed, or was given up as there is more than one entry.
NoTreeLost == \A c \in Clients : call[c].lost => call[c].raced \/ call[c].blind

\* A call does what it was asked once, and nothing else: no request is repeated that was performed,
\* and no tree is deleted that the call found in its way.
DoneOnce == PerformedOnce /\ NoTreeLost

\* However the account is throttled, every call comes to an end: attempts, waits and pages run out.
CallEnds == \A c \in Clients : Busy(c) ~> ~ Busy(c)
=============================================================================
