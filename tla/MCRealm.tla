------------------------------ MODULE MCRealm ---------------------------------
(***************************************************************************)
(* Realm for TLC: two files one specifier may mean, and one that requires  *)
(* it back; and five things that may be at each of three levels.           *)
(***************************************************************************)
EXTENDS Realm, TLC

CONSTANTS xjs, xindex, gjs, x, g

MCCandidates == x :> <<xjs, xindex>> @@ g :> <<gjs>>

MCRequires == xjs :> <<g>> @@ xindex :> <<>> @@ gjs :> <<x>>

Nothing == [nm |-> "none", pkg |-> "none", deep |-> FALSE, type |-> "undefined",
            project |-> "none", scope |-> "undefined", wasm |-> FALSE]

MCFacts ==
  {Nothing,
   [Nothing EXCEPT !.nm = "small", !.pkg = "bare", !.project = "plain", !.scope = "module"],
   [Nothing EXCEPT !.nm = "small", !.pkg = "dual", !.deep = TRUE, !.type = "module",
                   !.project = "extern", !.scope = "commonjs"],
   [Nothing EXCEPT !.nm = "big", !.pkg = "importOnly", !.wasm = TRUE],
   [Nothing EXCEPT !.nm = "big", !.pkg = "native", !.type = "commonjs", !.project = "own"]}
=============================================================================
