----------------------------- MODULE MCHttpTest -----------------------------
(***************************************************************************)
(* Two cases, c1 about the transaction a and c2 about p.  The beforeEach   *)
(* hook of a seeds b, and may have two such seeds under way at once.  The  *)
(* authorize hook of b would seed b or a, and both are refused: they would *)
(* run for ever.  The request of c2 has an authorize hook and an afterEach *)
(* hook, which seed nothing.                                               *)
(***************************************************************************)
EXTENDS HttpTest

CONSTANTS a, b, p, c1, c2, s1, s2

MCTransactions == {a, b, p}
MCCases == {c1, c2}
MCSeedIds == {s1, s2}
MCOwn == [c \in MCCases |-> IF c = c1 THEN a ELSE p]
MCFlag == [c \in MCCases |-> c = c2]
MCBeforeEach == [t \in MCTransactions |-> IF t = a THEN 1 ELSE 0]
MCAfterEach == [t \in MCTransactions |-> IF t = p THEN 1 ELSE 0]
MCAuthorized == {b, p}

Token == [target |-> b, runHooks |-> FALSE, flag |-> TRUE]
Back == [target |-> a, runHooks |-> TRUE, flag |-> FALSE]

MCSeeds ==
  [ t \in MCTransactions |->
      [ kind \in Kinds |->
          CASE t = a /\ kind = "beforeEach" -> {Token}
            [] t = b /\ kind = "authorize" -> {Token, Back}
            [] OTHER -> {} ] ]
=============================================================================
