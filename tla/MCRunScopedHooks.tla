-------------------------- MODULE MCRunScopedHooks --------------------------
(***************************************************************************)
(* Small instances of RunScopedHooks: concurrent requests, two closes, and *)
(* lists in which the two kinds of hooks interleave.                       *)
(***************************************************************************)
EXTENDS RunScopedHooks, TLC

MCHookLists ==
  { <<"beforeAll", "afterAll", "beforeAll">>,
    <<"afterAll", "beforeAll", "beforeAll", "afterAll">>,
    <<"afterAll">> }

Symmetry == Permutations(Requests) \cup Permutations(Closes)
=============================================================================
