---------------------------- MODULE TimerHandles ------------------------------
(***************************************************************************)
(* The timers and immediates of a program (worker/node-core/               *)
(* internal-binding/timers.ts): one timeout of the browser stands for all  *)
(* timers, one drain for all immediates, and each of the two holds the run *)
(* open while one is left that is refed.                                   *)
(*                                                                         *)
(* Node's own lib/timers.js is external: it keeps the timers and the       *)
(* queue, counts the refed ones, and calls the binding when the first      *)
(* comes, the last goes, or an earlier expiry is needed.  A callback may   *)
(* set, clear, ref and unref; what a throwing one leaves is run later.     *)
(***************************************************************************)
EXTENDS Integers, Sequences, FiniteSets, FiniteSetsExt

CONSTANTS
  Timers,         \* timers a program may have at once
  None,           \* no timeout, no expiry
  MaxImmediates,  \* bound: immediates at once
  MaxTime         \* bound: the clock

VARIABLES
  timer,   \* lib/timers.js: the timers, their count of refed ones, the next expiry
  queue,   \* lib/timers.js: the immediates, TRUE for a refed one
  bind,    \* the binding: its timeout, its drain, and whether each handle is refed
  turn,    \* "idle", "timers" or "immediates", and how many are left of that pass
  clock,   \* getLibuvNow
  holds    \* keepalive: holds on the run

vars == <<timer, queue, bind, turn, clock, holds>>

Off == [due |-> None, refed |-> FALSE]

Init ==
  /\ timer = [of |-> [t \in Timers |-> Off], count |-> 0, next |-> None]
  /\ queue = <<>>
  /\ bind = [timeout |-> None, drain |-> FALSE, timers |-> FALSE, immediates |-> FALSE]
  /\ turn = [at |-> "idle", left |-> 0] /\ clock = 0 /\ holds = 0

-----------------------------------------------------------------------------
(* The binding *)

Held(b) == (IF b.timers THEN 1 ELSE 0) + (IF b.immediates THEN 1 ELSE 0)

\* setTimerHandleRef and setImmediateHandleRef count a change only.
Binds(b) == bind' = b /\ holds' = (holds + Held(b)) - Held(bind)

\* toggleTimerRef
TogglesTimer(b, refed) == [b EXCEPT !.timers = refed]

\* toggleImmediateRef, scheduleImmediateDrain
TogglesImmediate(b, refed) == [b EXCEPT !.immediates = refed, !.drain = @ \/ refed]

\* scheduleTimer replaces the timeout.
Schedules(b, due) == [b EXCEPT !.timeout = due]

-----------------------------------------------------------------------------
(* Timers *)

Armed == {t \in Timers : timer.of[t] # Off}

Dues == {timer.of[t].due : t \in Armed}

\* The first refed timer takes the handle, the last lets it go.
Counts(b, before, after) ==
  IF (before = 0) = (after = 0) THEN b ELSE TogglesTimer(b, after > 0)

\* insert
SetTimer(t, after) ==
  /\ t \notin Armed /\ clock + after <= MaxTime
  /\ LET due == clock + after
         sooner == timer.next = None \/ timer.next > due
         b == Counts(bind, timer.count, timer.count + 1)
     IN /\ timer' = [of |-> [timer.of EXCEPT ![t] = [due |-> due, refed |-> TRUE]],
                     count |-> timer.count + 1, next |-> IF sooner THEN due ELSE timer.next]
        /\ Binds(IF sooner THEN Schedules(b, due) ELSE b)
  /\ UNCHANGED <<queue, turn, clock>>

\* ref, unref, and clearTimeout of a timer that is refed or not.
Changes(t, to) ==
  LET was == timer.of[t].refed
      n == timer.count + (IF to.refed THEN 1 ELSE 0) - (IF was THEN 1 ELSE 0)
  IN /\ t \in Armed /\ to # timer.of[t]
     /\ timer' = [timer EXCEPT !.of[t] = to, !.count = n]
     /\ Binds(Counts(bind, timer.count, n))
     /\ UNCHANGED <<queue, turn, clock>>

RefTimer(t) == Changes(t, [timer.of[t] EXCEPT !.refed = TRUE])

UnrefTimer(t) == Changes(t, [timer.of[t] EXCEPT !.refed = FALSE])

ClearTimer(t) == Changes(t, Off)

\* runTimers: the timeout is used up.
RunTimers ==
  /\ turn.at = "idle" /\ bind.timeout # None /\ bind.timeout <= clock
  /\ Binds([bind EXCEPT !.timeout = None])
  /\ timer' = [timer EXCEPT !.next = None]
  /\ turn' = [at |-> "timers", left |-> 0]
  /\ UNCHANGED <<queue, clock>>

\* listOnTimeout: a timer that fires is only counted off.
Fires(t) ==
  /\ turn.at = "timers" /\ t \in Armed
  /\ timer.of[t].due <= clock /\ timer.of[t].due = Min(Dues)
  /\ timer' = [timer EXCEPT !.of[t] = Off,
                            !.count = IF timer.of[t].refed THEN @ - 1 ELSE @]
  /\ UNCHANGED <<queue, bind, turn, clock, holds>>

\* The end of a pass, from what processTimers returned: 0, an expiry, or its negative.
Reconciled(b) ==
  LET c == IF Armed = {} THEN b ELSE Schedules(b, Min(Dues))
  IN TogglesTimer(c, timer.count > 0)

TimersRan ==
  /\ turn.at = "timers" /\ \A due \in Dues : due > clock
  /\ timer' = [timer EXCEPT !.next = IF Armed = {} THEN @ ELSE Min(Dues)]
  /\ Binds(Reconciled(bind))
  /\ turn' = [at |-> "idle", left |-> 0]
  /\ UNCHANGED <<queue, clock>>

-----------------------------------------------------------------------------
(* Immediates *)

\* immediateInfo counts the refed ones; what is asked of the count is whether there is one.
AnyRefed(q) == \E k \in DOMAIN q : q[k]

\* The queue as it is and as it is to be: the binding hears of the first refed one and of the last.
Queues(q) ==
  /\ queue' = q
  /\ Binds(IF AnyRefed(queue) = AnyRefed(q) THEN bind
           ELSE TogglesImmediate(bind, AnyRefed(q)))

SetImmediate ==
  /\ Len(queue) < MaxImmediates /\ Queues(Append(queue, TRUE))
  /\ UNCHANGED <<timer, turn, clock>>

RefImmediate(k) ==
  /\ ~ queue[k] /\ Queues([queue EXCEPT ![k] = TRUE])
  /\ UNCHANGED <<timer, turn, clock>>

UnrefImmediate(k) ==
  /\ queue[k] /\ Queues([queue EXCEPT ![k] = FALSE])
  /\ UNCHANGED <<timer, turn, clock>>

ClearImmediate(k) ==
  /\ Queues(SubSeq(queue, 1, k - 1) \o SubSeq(queue, k + 1, Len(queue)))
  /\ turn' = [turn EXCEPT !.left = IF k <= @ THEN @ - 1 ELSE @]
  /\ UNCHANGED <<timer, clock>>

\* drainImmediates: what is there by now is of this pass.
DrainImmediates ==
  /\ turn.at = "idle" /\ bind.drain
  /\ Binds([bind EXCEPT !.drain = FALSE])
  /\ turn' = [at |-> "immediates", left |-> Len(queue)]
  /\ UNCHANGED <<timer, queue, clock>>

\* An immediate runs; one that throws leaves the others to the next pass.
RunsImmediate ==
  /\ turn.at = "immediates" /\ turn.left > 0
  /\ Queues(Tail(queue))
  /\ turn' \in {[turn EXCEPT !.left = @ - 1], [turn EXCEPT !.left = 0]}
  /\ UNCHANGED <<timer, clock>>

ImmediatesRan ==
  /\ turn.at = "immediates" /\ turn.left = 0
  /\ Binds([bind EXCEPT !.immediates = AnyRefed(queue), !.drain = @ \/ queue # <<>>])
  /\ turn' = [at |-> "idle", left |-> 0]
  /\ UNCHANGED <<timer, queue, clock>>

Tick == clock < MaxTime /\ clock' = clock + 1 /\ UNCHANGED <<timer, queue, bind, turn, holds>>

Next ==
  \/ \E t \in Timers : \/ \E after \in 1 .. 2 : SetTimer(t, after)
                       \/ RefTimer(t) \/ UnrefTimer(t) \/ ClearTimer(t) \/ Fires(t)
  \/ RunTimers \/ TimersRan
  \/ SetImmediate \/ DrainImmediates \/ RunsImmediate \/ ImmediatesRan
  \/ \E k \in DOMAIN queue : RefImmediate(k) \/ UnrefImmediate(k) \/ ClearImmediate(k)
  \/ Tick

-----------------------------------------------------------------------------
(* Properties *)

\* Between its turns the run is held by its timers if one of them is refed, and by its immediates
\* likewise, whichever were fired, cleared or unrefed in a callback meanwhile.
HoldsTrue ==
  turn.at = "idle" =>
    holds = (IF \E t \in Armed : timer.of[t].refed THEN 1 ELSE 0)
              + (IF AnyRefed(queue) THEN 1 ELSE 0)

\* Nothing set is forgotten: the timeout comes no later than the first timer, refed or not, and
\* a drain is under way while there is an immediate.
NoneForgotten ==
  turn.at = "idle" =>
    /\ Armed # {} => bind.timeout # None /\ bind.timeout <= Min(Dues)
    /\ queue # <<>> => bind.drain
=============================================================================
