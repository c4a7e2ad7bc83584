-------------------------- MODULE MCWebSocketProxy --------------------------
(***************************************************************************)
(* Small instances of WebSocketProxy: more connections than names, so that *)
(* two connections compete for a name, and a name nobody requires.         *)
(***************************************************************************)
EXTENDS WebSocketProxy, TLC

Symmetry == Permutations(Conns) \cup Permutations(Stops)
=============================================================================
