------------------------------- MODULE Attach -----------------------------------
(***************************************************************************)
(* How the sessions of a page come by the service worker that relays their  *)
(* blocking calls (lib/sw.ts): one registration for all that want the same, *)
(* looked at again by every session that finds it remembered, and a         *)
(* handshake that is tried again.  What the service worker does with a       *)
(* session is in SyncTransport.                                             *)
(*                                                                         *)
(* The browser is external: it registers or refuses, a worker becomes       *)
(* active or does not, and the site's data may be cleared, which the page's  *)
(* own object of the registration does not show.                            *)
(***************************************************************************)
EXTENDS Integers, Sequences

CONSTANTS
  Sessions,
  Attempts,     \* ATTACH_ATTEMPTS
  MaxLosses     \* bound: how often the scope is lost

VARIABLES
  env,          \* what unsupportedReason and checkScope find
  sessions,     \* attachSession, for each
  cached,       \* registrations, at the one key: a promise, or 0
  promises,     \* the promises that were ever made
  scope,        \* the browser's: the registration that owns the scope, or 0
  active,       \* of every registration, whether it has an active worker
  losses

vars == <<env, sessions, cached, promises, scope, active, losses>>

Settled == {"refused", "failed", "attached", "detached"}

Goes(s, at) == sessions' = [sessions EXCEPT ![s].at = at]

\* register is called, and its promise is what is remembered from now on.
Registers(s) ==
  /\ promises' = Append(promises, [state |-> "registering", reg |-> 0])
  /\ cached' = Len(promises) + 1
  /\ sessions' = [sessions EXCEPT ![s].at = "registering", ![s].promise = Len(promises) + 1]

Begins(s) ==
  /\ sessions[s].at = "new"
  /\ IF env.unsupported
     THEN Goes(s, "refused") /\ UNCHANGED <<cached, promises>>
     ELSE IF cached = 0 THEN Registers(s)
     ELSE /\ sessions' = [sessions EXCEPT ![s].at = "awaiting", ![s].promise = cached,
                                          ![s].since = {scope}]
          /\ UNCHANGED <<cached, promises>>
  /\ UNCHANGED <<env, scope, active, losses>>

\* The remembered promise has settled.
Awaited(s) ==
  LET p == promises[sessions[s].promise] IN
  /\ sessions[s].at = "awaiting" /\ p.state \in {"done", "failed"}
  /\ IF p.state = "failed" THEN Registers(s)
     ELSE /\ sessions' = [sessions EXCEPT ![s].at = "looking", ![s].reg = p.reg]
          /\ UNCHANGED <<cached, promises>>
  /\ UNCHANGED <<env, scope, active, losses>>

\* ownsScope: a look that fails is taken for a yes.  Whoever else has registered anew meanwhile
\* is not asked about.
Looked(s) ==
  /\ sessions[s].at = "looking"
  /\ \/ /\ scope = sessions[s].reg /\ active[sessions[s].reg]
        /\ Goes(s, "registered") /\ UNCHANGED <<cached, promises>>
     \/ /\ sessions' = [sessions EXCEPT ![s].at = "registered", ![s].blind = TRUE]
        /\ UNCHANGED <<cached, promises>>
     \/ ~ (scope = sessions[s].reg /\ active[sessions[s].reg]) /\ Registers(s)
  /\ UNCHANGED <<env, scope, active, losses>>

\* A promise that fails takes the entry away, whoever's it is by then.
Fails(p) == promises' = [promises EXCEPT ![p].state = "failed"] /\ cached' = 0

\* The browser answers register: with the registration that has the scope, or a new one.
Registered(p) ==
  /\ promises[p].state = "registering"
  /\ \/ Fails(p) /\ UNCHANGED <<sessions, scope, active>>
     \/ /\ LET reg == IF scope # 0 THEN scope ELSE Len(active) + 1 IN
           /\ promises' = [promises EXCEPT ![p] = [state |-> "activating", reg |-> reg]]
           /\ scope' = reg
           /\ active' = IF scope # 0 THEN active ELSE Append(active, FALSE)
           /\ sessions' = [s \in Sessions |-> [sessions[s] EXCEPT !.since = @ \cup {reg}]]
        /\ cached' = cached
  /\ UNCHANGED <<env, losses>>

\* activeOf: looked at every 50 ms, for ten seconds.
Activated(p) ==
  /\ promises[p].state = "activating"
  /\ IF active[promises[p].reg]
     THEN promises' = [promises EXCEPT ![p].state = "done"] /\ cached' = cached
     ELSE Fails(p)
  /\ UNCHANGED <<env, sessions, scope, active, losses>>

\* The session's own promise settles.
Answered(s) ==
  LET p == promises[sessions[s].promise] IN
  /\ sessions[s].at = "registering" /\ p.state \in {"done", "failed"}
  /\ sessions' = [sessions EXCEPT ![s].at = IF p.state = "done" THEN "registered" ELSE "failed",
                                  ![s].reg = p.reg]
  /\ UNCHANGED <<env, cached, promises, scope, active, losses>>

\* checkScope, and the first attempt.
Checked(s) ==
  /\ sessions[s].at = "registered"
  /\ Goes(s, IF env.outOfScope THEN "refused" ELSE "connecting")
  /\ UNCHANGED <<env, cached, promises, scope, active, losses>>

\* connect: an attempt posts through the worker that is active now, and waits for its own deadline.
Connects(s) ==
  /\ sessions[s].at = "connecting"
  /\ Goes(s, IF active[sessions[s].reg] THEN "shaking" ELSE "failed")
  /\ UNCHANGED <<env, cached, promises, scope, active, losses>>

\* The worker answers, or speaks another protocol, or nothing comes.
Shaken(s) ==
  /\ sessions[s].at = "shaking"
  /\ \/ Goes(s, "attached")
     \/ Goes(s, "refused")
     \/ sessions' = [sessions EXCEPT ![s].tries = @ + 1,
                       ![s].at = IF sessions[s].tries + 1 >= Attempts THEN "failed" ELSE "connecting"]
  /\ UNCHANGED <<env, cached, promises, scope, active, losses>>

Detaches(s) ==
  /\ sessions[s].at = "attached" /\ Goes(s, "detached")
  /\ UNCHANGED <<env, cached, promises, scope, active, losses>>

\* The browser: a worker becomes active, the scope is lost, a worker is stopped for good.
Installs ==
  /\ scope # 0 /\ active' = [active EXCEPT ![scope] = TRUE]
  /\ UNCHANGED <<env, sessions, cached, promises, scope, losses>>

Loses ==
  /\ scope # 0 /\ losses < MaxLosses /\ losses' = losses + 1
  /\ scope' = 0
  /\ \E still \in BOOLEAN : active' = [active EXCEPT ![scope] = @ /\ still]
  /\ UNCHANGED <<env, sessions, cached, promises>>

Init ==
  /\ env \in [unsupported : BOOLEAN, outOfScope : BOOLEAN]
  /\ sessions = [s \in Sessions |-> [at |-> "new", promise |-> 0, reg |-> 0, since |-> {},
                                     blind |-> FALSE, tries |-> 0]]
  /\ cached = 0 /\ promises = <<>> /\ scope = 0 /\ active = <<>> /\ losses = 0

Page ==
  \/ \E p \in DOMAIN promises : Activated(p)
  \/ \E s \in Sessions : Awaited(s) \/ Answered(s) \/ Checked(s) \/ Connects(s)

Browser ==
  \/ \E p \in DOMAIN promises : Registered(p)
  \/ \E s \in Sessions : Looked(s) \/ Shaken(s)

Next ==
  \/ Page \/ Browser \/ Installs \/ Loses
  \/ \E s \in Sessions : Begins(s) \/ Detaches(s)
-----------------------------------------------------------------------------
(* Properties *)

\* A session goes on with a registration that owned the scope after it had asked, unless the
\* browser would not say (sw.ts ownsScope): one from before would answer and intercept nothing.
OwnsItsScope ==
  \A s \in Sessions :
    sessions[s].at \in {"registered", "connecting", "shaking", "attached"} =>
      sessions[s].reg \in sessions[s].since \/ sessions[s].blind

\* No failure is what the next session finds remembered (sw.ts registerOnce).
NoFailureKept == cached # 0 => promises[cached].state # "failed"

\* A session is attached or told why not: none is parked for ever.
AttachSettles == \A s \in Sessions : sessions[s].at # "new" ~> sessions[s].at \in Settled
=============================================================================
