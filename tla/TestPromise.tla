---------------------------- MODULE TestPromise ----------------------------
(***************************************************************************)
(* What a run of test cases promises whoever waits for it, without hooks,  *)
(* requests, queues or timers.  A case earns one outcome, and earns it     *)
(* once.  The promise resolves with the last outcome and not before.  One  *)
(* that breaks rejects the promise of a rule, once; to `sampler check` it  *)
(* is an outcome like the others, unless the whole run ends with it.       *)
(* Cases that were under way when the promise settled may still earn their *)
(* outcome, which changes nothing for the caller; none begins.             *)
(***************************************************************************)
CONSTANTS
  Cases,      \* the test cases
  Outcomes,   \* what a case may earn
  NoOutcome   \* what a case has before

VARIABLES
  caller,     \* "rule" or "check"
  promise,    \* "pending", "resolved", "rejected", or "ended" with the run
  active,     \* the cases under way
  outcome     \* outcome[c]: what c has earned

testVars == <<caller, promise, active, outcome>>

Undecided == {c \in Cases : outcome[c] = NoOutcome}

TestInit ==
  /\ caller \in {"rule", "check"}
  /\ promise = IF Cases = {} THEN "resolved" ELSE "pending"
  /\ active = {}
  /\ outcome = [c \in Cases |-> NoOutcome]

(* `sampler check` begins no case while another is under way.              *)
Begin(c) ==
  /\ promise = "pending"
  /\ c \in Undecided \ active
  /\ caller = "check" => active = {}
  /\ active' = active \cup {c}
  /\ UNCHANGED <<caller, promise, outcome>>

Earn(c, o) ==
  /\ c \in Undecided
  /\ active' = active \ {c}
  /\ outcome' = [outcome EXCEPT ![c] = o]
  /\ UNCHANGED caller

(* The last outcome resolves a promise that is pending.                    *)
Resolution(c) ==
  IF promise = "pending" /\ Undecided = {c} THEN "resolved" ELSE promise

Finish(c) ==
  /\ c \in active
  /\ \E o \in Outcomes \ {"broken"} : Earn(c, o)
  /\ promise' = Resolution(c)

(* A case may break before it is under way, while its request is sampled.  *)
Break(c) ==
  /\ c \in active \/ (promise = "pending" /\ (caller = "check" => active = {}))
  /\ Earn(c, "broken")
  /\ promise' = IF caller = "check" THEN Resolution(c)
                ELSE IF promise = "pending" THEN "rejected" ELSE promise

(* The run closes over a diagnostic, and `sampler check` stops.            *)
RunStops(c) ==
  /\ caller = "check" /\ promise = "pending" /\ active = {}
  /\ Earn(c, "broken")
  /\ promise' = "ended"

TestNext == \E c \in Cases : Begin(c) \/ Finish(c) \/ Break(c) \/ RunStops(c)

TestSpec == TestInit /\ [][TestNext]_testVars
=============================================================================
