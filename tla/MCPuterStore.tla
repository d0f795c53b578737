---------------------------- MODULE MCPuterStore ------------------------------
(* Two trees below the root: one is deeper than one request lists, and one *)
(* of its directories may have two entries.                                *)
EXTENDS PuterStore

CONSTANTS c1

Tree == {<<1>>, <<1, 1>>, <<1, 2>>, <<1, 1, 1>>, <<2>>}
=============================================================================
