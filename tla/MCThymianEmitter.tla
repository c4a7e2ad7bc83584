-------------------------- MODULE MCThymianEmitter --------------------------
(***************************************************************************)
(* Small instances of ThymianEmitter: two concurrent calls and two         *)
(* listeners of one action.  Whether that action is a "core." one is the   *)
(* configuration's choice.                                                 *)
(***************************************************************************)
EXTENDS ThymianEmitter, TLC

CONSTANTS l1, l2, core, plain

MCListensTo == l1 :> core @@ l2 :> core

Ask(name, strategy, strict) == [name |-> name, strategy |-> strategy, strict |-> strict]

(* A strict collecting call and a lenient "first" call of a core action,   *)
(* and a strict call of a plugin action nobody handles.                    *)
MCRequests ==
  { Ask(core, "collect", TRUE), Ask(core, "first", FALSE), Ask(plain, "first", TRUE) }

(* The default options of emitAction, and "first" in strict mode.          *)
StrictRequests == { Ask(core, "collect", TRUE), Ask(core, "first", TRUE) }

CallSymmetry == Permutations(Calls)
=============================================================================
