----------------------------- MODULE HookRunner -----------------------------
(***************************************************************************)
(* How the sampler runs the user's hooks around one request, and around    *)
(* the requests those hooks send: `HookRunner.compose` and `runNested`.    *)
(*                                                                         *)
(* A hook may call utils.request, as often as it likes and without waiting *)
(* for the answer; the request it sends runs the hooks of its own target,  *)
(* which may call utils.request again.  Each request under way, of a test  *)
(* case or a seed, is a frame.  What happens to a frame is defined here,   *)
(* the module HttpTest says when it happens.                               *)
(***************************************************************************)
EXTENDS Naturals, Sequences, FiniteSets

CONSTANTS
  Transactions,  \* the transactions of the catalog; each has its selector
  BeforeEach,    \* BeforeEach[t]: the number of beforeEach hooks bound to t
  AfterEach,     \* AfterEach[t]: the number of afterEach hooks bound to t
  Authorized,    \* the transactions an authorize hook covers
  SetsFlag,      \* the transactions whose hooks may set the authorize flag
  Seeds          \* Seeds[t][k]: what a hook of t of kind k may seed

(* runHooks is the option of utils.request, flag the authorize flag of the *)
(* template once the option `authorize` and the sample have decided it.    *)
Seed == [target : Transactions, runHooks : BOOLEAN, flag : BOOLEAN]

Kinds == {"beforeEach", "authorize", "afterEach"}

ASSUME HooksAssumption ==
  /\ IsFiniteSet(Transactions)
  /\ BeforeEach \in [Transactions -> Nat]
  /\ AfterEach \in [Transactions -> Nat]
  /\ Authorized \subseteq Transactions
  /\ SetsFlag \subseteq Transactions
  /\ Seeds \in [Transactions -> [Kinds -> SUBSET Seed]]

(* "send": to be serialized; "sent": at the dispatcher; "answered": over.  *)
Stages == Kinds \cup {"send", "sent", "answered"}

(* The status a request was answered with: the one its selector names,     *)
(* another one its operation declares, or one it does not declare.         *)
Answers == {"named", "declared", "undeclared"}

(* What testResults says of a seed: an answer it was not meant to get.     *)
OffSpec == Answers \ {"named"}

Frame ==
  [ target : Transactions,
    chain : Seq(Transactions),    \* whose hooks it was sent from, in order
    runHooks : BOOLEAN,
    flag : BOOLEAN,               \* template.authorize
    stage : Stages,
    left : Nat,                   \* hooks that have not ended; one of them runs
    recorded : SUBSET OffSpec,    \* answers in the testResults of this stage
    answer : Answers \cup {"none"} ]

-----------------------------------------------------------------------------
(* Which hooks compose is given at a stage: at most one authorize hook.    *)
Entries(stage, t) ==
  CASE stage = "beforeEach" -> BeforeEach[t]
    [] stage = "authorize" -> IF t \in Authorized THEN 1 ELSE 0
    [] stage = "afterEach" -> AfterEach[t]
    [] OTHER -> 0

Enter(f, stage) ==
  [f EXCEPT !.stage = stage, !.left = Entries(stage, f.target),
            !.recorded = {}]

(* The flag is read after beforeEach, which may have set it.               *)
AfterBeforeEach(f) ==
  IF f.flag /\ f.target \in Authorized THEN "authorize" ELSE "send"

(* A kind without hooks passes in the same turn of the event loop, and so  *)
(* does all that follows the last hook: a request is at a kind only while  *)
(* a hook of it runs.                                                      *)
AtFirst(f) ==
  IF f.runHooks /\ BeforeEach[f.target] > 0
  THEN "beforeEach" ELSE AfterBeforeEach(f)

AfterAnswer(f) ==
  IF f.runHooks /\ AfterEach[f.target] > 0 THEN "afterEach" ELSE "answered"

(* The stage that follows when compose has returned.                       *)
NextStage(f) ==
  CASE f.stage = "beforeEach" -> AfterBeforeEach(f)
    [] f.stage = "authorize" -> "send"
    [] f.stage = "afterEach" -> "answered"
    [] OTHER -> f.stage

NewFrame(seed, chain) ==
  LET f == [ target |-> seed.target, chain |-> chain,
             runHooks |-> seed.runHooks, flag |-> seed.flag,
             stage |-> "beforeEach", left |-> 0, recorded |-> {},
             answer |-> "none" ]
  IN  Enter(f, AtFirst(f))

-----------------------------------------------------------------------------
(* The chain a hook of f seeds with: f's own selector is the last of it.   *)
HookChain(f) == Append(f.chain, f.target)

IsOnChain(chain, t) == \E i \in DOMAIN chain : chain[i] = t

(* A wrong guard that asks the option alone: an authorize hook that seeds  *)
(* its own token without hooks passes it for ever.                         *)
RunHooksAlone(seed) == seed.runHooks

WillRunAHook(seed) ==
  seed.runHooks \/ (seed.flag /\ seed.target \in Authorized)

Refused(chain, seed) == WillRunAHook(seed) /\ IsOnChain(chain, seed.target)

-----------------------------------------------------------------------------
(* utils.setAuthorize writes to the template, in a hook of any kind.       *)
FlagsLeft(f) == IF f.target \in SetsFlag THEN BOOLEAN ELSE {f.flag}

(* interpretHookFailure: the kinds that run for a transaction turn control *)
(* flow and an uncaught undeclared answer into a verdict; anything else is *)
(* a defect and is thrown on.                                              *)
Verdict(e) ==
  CASE e = "fail" -> "failed"
    [] e \in {"skip", "undeclared"} -> "skipped"
    [] OTHER -> "none"

(* What a hook can end with: an error of its own, a seed of it that failed *)
(* included, or the undeclared answer a seed of this stage has got.        *)
Errors(f) == {"skip", "fail", "defect"} \cup (f.recorded \cap {"undeclared"})

(* runNested, when a seed is over: an answer other than the named one is   *)
(* recorded with the hooks that asked; an undeclared one is thrown, too.   *)
SeedAnswered(f, answer) ==
  [f EXCEPT !.recorded = @ \cup ({answer} \cap OffSpec)]
=============================================================================
