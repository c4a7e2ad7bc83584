--------------------------- MODULE ActionPromise ---------------------------
(***************************************************************************)
(* What `emitAction` promises the code that awaits it, without saying how: *)
(* a call hears answers one at a time and in order, is settled at most     *)
(* once, is never fulfilled over an error it heard, is never rejected      *)
(* unless it heard an error or heard nothing at all, and hears nothing     *)
(* more once settled.  Several calls may settle together (when the bus is  *)
(* torn down), so one step may move every call at once.                    *)
(***************************************************************************)
EXTENDS Sequences

CONSTANTS
  Calls,      \* the calls of emitAction
  Answers     \* what a handler may answer: records with a field "kind"

VARIABLES
  promise,    \* promise[c]: the state of the promise the caller of c awaits
  heard       \* heard[c]: the answers c has heard, in order

promiseVars == <<promise, heard>>

PromiseTypeOK ==
  /\ promise \in [Calls -> {"unsent", "pending", "fulfilled", "rejected"}]
  /\ heard \in [Calls -> Seq(Answers)]

HasErrorIn(s) == \E i \in DOMAIN s : s[i].kind = "error"

PromiseInit ==
  /\ promise = [c \in Calls |-> "unsent"]
  /\ heard = [c \in Calls |-> <<>>]

Keep(c) == UNCHANGED <<promise[c], heard[c]>>

(* The answer is heard: it becomes the last of those heard so far.         *)
Hear(c) == \E a \in Answers : heard'[c] = Append(heard[c], a)

(* The promise settles on the answers heard by then.                       *)
Settle(c) ==
  \/ promise'[c] = "fulfilled" /\ ~HasErrorIn(heard'[c])
  \/ promise'[c] = "rejected" /\ (heard'[c] = <<>> \/ HasErrorIn(heard'[c]))

(* The action is emitted; with nobody to wait for it settles at once.      *)
Issue(c) ==
  /\ promise[c] = "unsent"
  /\ heard'[c] = heard[c]
  /\ promise'[c] = "pending" \/ Settle(c)

Progress(c) ==
  /\ promise[c] = "pending"
  /\ \/ Hear(c) /\ (promise'[c] = "pending" \/ Settle(c))
     \/ heard'[c] = heard[c] /\ Settle(c)

PromiseNext == \A c \in Calls : Keep(c) \/ Issue(c) \/ Progress(c)

PromiseSpec == PromiseInit /\ [][PromiseNext]_promiseVars
=============================================================================
