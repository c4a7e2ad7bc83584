--------------------------- MODULE HttpTestProofs ---------------------------
(***************************************************************************)
(* Proofs about HttpTest, for any catalog of transactions, any hooks and   *)
(* seeds, any cases, any number of steps and any concurrency.              *)
(***************************************************************************)
EXTENDS HttpTest, TLAPS, FiniteSetTheorems, SequenceTheorems

(* A request that runs no hook.                                            *)
Plain(f) == ~f.runHooks /\ f.stage \notin Kinds

NoRepeat(chain) == \A i, j \in 1..Len(chain) : chain[i] = chain[j] => i = j

(* A request that runs hooks was not sent from hooks of its transaction.   *)
FrameOK(f) ==
  /\ NoRepeat(f.chain)
  /\ ~Plain(f) => ~IsOnChain(f.chain, f.target)

FramesOK == \A r \in Requests : Live(r) => FrameOK(request[r])

(* A case has a request while it runs, or when its hook outlived the timer *)
(* of the action; then it is still at its hooks.  It is without one when   *)
(* nobody has listened to its last answer.                                 *)
CasesFit ==
  \A c \in Cases :
    /\ Live(c) => /\ status[c] \in {"running", "broken"}
                  /\ IsZombie(c) => AtHooks(c)
    /\ test = "running" /\ status[c] = "running" => Live(c)

(* Whoever takes the answers of seeds is at its hooks.                     *)
CallersFit == \A s \in SeedIds : caller[s] # Nobody => AtHooks(caller[s])

(* Nobody is owed an answer who does not wait for one.                     *)
OwedWait ==
  /\ closing = "asked" => owed \subseteq Waiting
  /\ closing # "asked" => owed = {}

(* A test is pending while some case is; and the httpTest of a rule that   *)
(* has not been rejected broke no case.                                    *)
Accounts ==
  /\ test = "running" => \E c \in Cases : status[c] \notin Settled
  /\ mode = "check" => test # "rejected"
  /\ test = "resolved" => \A c \in Cases : status[c] \in Settled
  /\ mode = "rule" /\ test \in {"running", "resolved"} =>
       \A c \in Cases : status[c] # "broken"

(* The inductive invariant.                                                *)
IInv ==
  /\ TypeOK /\ FramesOK /\ CasesFit /\ CallersFit
  /\ SlotsAreUsed /\ OneRequestEach /\ OwedWait /\ Accounts
-----------------------------------------------------------------------------
(* The frames.                                                             *)
LEMMA EntriesType ==
  ASSUME NEW t \in Transactions, NEW stage
  PROVE  Entries(stage, t) \in Nat
BY HooksAssumption DEF Entries

LEMMA EnterFrame ==
  ASSUME NEW f \in Frame, NEW stage \in Stages
  PROVE  /\ Enter(f, stage) \in Frame
         /\ Enter(f, stage).stage = stage
         /\ Enter(f, stage).target = f.target
         /\ Enter(f, stage).chain = f.chain
         /\ Enter(f, stage).runHooks = f.runHooks
<1>1. Entries(stage, f.target) \in Nat
  BY EntriesType DEF Frame
<1> QED BY <1>1 DEF Enter, Frame

(* The request goes on, with its chain and its target.                     *)
LEMMA SameChain ==
  ASSUME NEW f, NEW g, FrameOK(f),
         g.chain = f.chain, g.target = f.target, Plain(f) => Plain(g)
  PROVE  FrameOK(g)
BY DEF FrameOK

(* A seed that passed the guard of runNested although its transaction is   *)
(* on the chain runs no hook.                                              *)
LEMMA NewFrameProps ==
  ASSUME NEW seed \in Seed, NEW chain \in Seq(Transactions),
         NoRepeat(chain), ~Refused(chain, seed)
  PROVE  /\ NewFrame(seed, chain) \in Frame
         /\ FrameOK(NewFrame(seed, chain))
         /\ NewFrame(seed, chain).stage \in {"beforeEach", "authorize", "send"}
<1> DEFINE f == [ target |-> seed.target, chain |-> chain,
                  runHooks |-> seed.runHooks, flag |-> seed.flag,
                  stage |-> "beforeEach", left |-> 0, recorded |-> {},
                  answer |-> "none" ]
           stage == AtFirst(f)
<1>1. f \in Frame
  BY DEF Frame, Seed, Stages, Kinds
<1>2. stage \in Stages /\ stage \in {"beforeEach", "authorize", "send"}
  BY DEF Stages, Kinds, AtFirst, AfterBeforeEach
<1>3. NewFrame(seed, chain) = Enter(f, stage)
  BY DEF NewFrame
<1>4. ~WillRunAHook(seed) => ~f.runHooks /\ stage = "send"
  BY DEF WillRunAHook, AtFirst, AfterBeforeEach
<1>5. f.target = seed.target /\ f.chain = chain
  OBVIOUS
<1> HIDE DEF f, stage
<1>6. /\ Enter(f, stage) \in Frame /\ Enter(f, stage).stage = stage
      /\ Enter(f, stage).target = seed.target /\ Enter(f, stage).chain = chain
      /\ Enter(f, stage).runHooks = f.runHooks
  BY <1>1, <1>2, <1>5, EnterFrame
<1>7. ~Plain(Enter(f, stage)) => WillRunAHook(seed)
  BY <1>4, <1>6 DEF Plain, Kinds
<1> QED BY <1>2, <1>3, <1>6, <1>7 DEF FrameOK, Refused

(* The chain a running hook seeds with.                                    *)
LEMMA HookChainProps ==
  ASSUME NEW f \in Frame, FrameOK(f), f.stage \in Kinds
  PROVE  HookChain(f) \in Seq(Transactions) /\ NoRepeat(HookChain(f))
<1> DEFINE s == f.chain
           t == f.target
<1>1. s \in Seq(Transactions) /\ t \in Transactions
  BY DEF Frame
<1>2. NoRepeat(s) /\ \A i \in 1..Len(s) : s[i] # t
  BY <1>1 DEF FrameOK, Plain, IsOnChain
<1> HIDE DEF s, t
<1>3. /\ Append(s, t) \in Seq(Transactions) /\ Len(Append(s, t)) = Len(s) + 1
      /\ \A i \in 1..Len(s) : Append(s, t)[i] = s[i]
      /\ Append(s, t)[Len(s) + 1] = t /\ Len(s) \in Nat
  BY <1>1, AppendProperties, LenProperties
<1>4. \A i \in 1..Len(Append(s, t)) : i \in 1..Len(s) \/ i = Len(s) + 1
  BY <1>3
<1>5. NoRepeat(Append(s, t))
  BY <1>2, <1>3, <1>4 DEF NoRepeat
<1> QED BY <1>3, <1>5 DEF HookChain, s, t

LEMMA OwnFrameProps ==
  ASSUME NEW c \in Cases, NEW flag \in BOOLEAN
  PROVE  /\ OwnFrame(c, flag) \in Frame
         /\ FrameOK(OwnFrame(c, flag))
         /\ OwnFrame(c, flag).stage \in {"beforeEach", "authorize", "send"}
<1> DEFINE seed == [target |-> Own[c], runHooks |-> TRUE, flag |-> flag]
<1>1. seed \in Seed
  BY HttpTestAssumption DEF Seed
<1>2. <<>> \in Seq(Transactions) /\ NoRepeat(<<>>) /\ ~Refused(<<>>, seed)
  BY EmptySeq DEF NoRepeat, Refused, IsOnChain
<1>3. OwnFrame(c, flag) = NewFrame(seed, <<>>)
  BY DEF OwnFrame
<1> HIDE DEF seed
<1> QED BY <1>1, <1>2, <1>3, NewFrameProps
-----------------------------------------------------------------------------
LEMMA RequestFacts ==
  /\ Nobody \notin Requests /\ IsFiniteSet(Requests)
  /\ Cases \subseteq Requests /\ SeedIds \subseteq Requests
  /\ \A s \in SeedIds : s \notin Cases
<1>1. IsFiniteSet(Cases \cup SeedIds)
  BY HttpTestAssumption, FS_Union
<1> QED BY <1>1, HttpTestAssumption DEF Requests

(* The dispatcher.                                                         *)
QueueOK ==
  /\ queue \in Seq(Requests \cup {Nobody})
  /\ inflight \subseteq Requests
  /\ orphans \in Nat
  /\ SlotsAreUsed
  /\ \A i, j \in 1..Len(queue) :
       queue[i] = queue[j] /\ queue[i] # Nobody => i = j
  /\ \A i \in 1..Len(queue) : queue[i] \notin inflight

Queued(c) == \E i \in 1..Len(queue) : queue[i] = c

LEMMA QueueIsOK == IInv => QueueOK
<1> SUFFICES ASSUME IInv PROVE QueueOK
  OBVIOUS
<1>1. queue \in Seq(Requests \cup {Nobody}) /\ inflight \subseteq Requests /\ orphans \in Nat
  BY DEF IInv, TypeOK
<1>2. DOMAIN queue = 1..Len(queue)
  BY <1>1
<1> QED BY <1>1, <1>2 DEF IInv, OneRequestEach, QueueOK

LEMMA WaitingProps ==
  ASSUME QueueOK, NEW c \in Requests
  PROVE  c \in Waiting <=> c \in inflight \/ Queued(c)
<1>1. DOMAIN queue = 1..Len(queue)
  BY DEF QueueOK
<1> QED BY <1>1 DEF Waiting, Queued

LEMMA FiniteFlights ==
  ASSUME QueueOK
  PROVE  /\ IsFiniteSet(inflight) /\ Cardinality(inflight) \in Nat
         /\ \A c \in inflight :
              Cardinality(inflight \ {c}) = Cardinality(inflight) - 1
         /\ \A c : c \notin inflight =>
              Cardinality(inflight \cup {c}) = Cardinality(inflight) + 1
<1>1. IsFiniteSet(inflight)
  BY HttpTestAssumption, RequestFacts, FS_Subset DEF QueueOK
<1> QED BY <1>1, FS_CardinalityType, FS_AddElement, FS_RemoveElement

(* The request that leaves its slot hands it to the head of the queue.     *)
LEMMA Started ==
  ASSUME QueueOK, NEW flying \in SUBSET inflight, NEW n \in Nat,
         IsFiniteSet(flying), Cardinality(flying) + n = Load - 1,
         StartNext(flying, n)
  PROVE  /\ QueueOK'
         /\ \A c \in Requests : c \in Waiting' <=> c \in flying \/ Queued(c)
<1>0. Cardinality(flying) \in Nat /\ Cardinality(inflight) \in Nat
  BY FS_CardinalityType, FiniteFlights
<1>1. CASE queue = <<>>
  <2>1. queue' = queue /\ inflight' = flying /\ orphans' = n
    BY <1>1 DEF StartNext
  <2>2. QueueOK'
    BY <1>0, <1>1, <2>1, HttpTestAssumption, RequestFacts DEF QueueOK, SlotsAreUsed, Load
  <2>3. \A c \in Requests : c \in Waiting' <=> c \in inflight' \/ Queued(c)'
    BY <2>2, WaitingProps DEF QueueOK, Waiting, Queued
  <2> QED BY <2>1, <2>2, <2>3 DEF Queued
<1>2. CASE queue # <<>>
  <2>1. /\ queue' = Tail(queue)
        /\ queue' \in Seq(Requests \cup {Nobody}) /\ Len(queue') = Len(queue) - 1
        /\ \A i \in 1..Len(queue') : queue'[i] = queue[i + 1]
        /\ Len(queue) \in Nat /\ Len(queue) > 0
    <3>1. queue' = Tail(queue)
      BY <1>2 DEF StartNext
    <3>2. queue \in Seq(Requests \cup {Nobody})
      BY DEF QueueOK
    <3>3. Len(queue) \in Nat /\ Len(queue) > 0
      BY <1>2, <3>2, EmptySeq
    <3> HIDE DEF QueueOK
    <3> QED BY <1>2, <3>1, <3>2, <3>3, HeadTailProperties
  <2>2. Head(queue) = queue[1] /\ queue[1] \in Requests \cup {Nobody}
    BY <2>1 DEF QueueOK
  <2>3. queue[1] \notin inflight /\ Load = Concurrency
    BY <1>2, <2>1 DEF QueueOK, SlotsAreUsed
  <2>4. \A i \in 1..Len(queue') : queue'[i] \notin inflight
    BY <2>1 DEF QueueOK
  <2>5. \A i, j \in 1..Len(queue') :
          queue'[i] = queue'[j] /\ queue'[i] # Nobody => i = j
    <3> SUFFICES ASSUME NEW i \in 1..Len(queue'), NEW j \in 1..Len(queue'),
                        queue'[i] = queue'[j], queue'[i] # Nobody
                 PROVE  i = j
      OBVIOUS
    <3>1. i + 1 \in 1..Len(queue) /\ j + 1 \in 1..Len(queue)
      BY <2>1
    <3>2. queue[i + 1] = queue[j + 1] /\ queue[i + 1] # Nobody
      BY <2>1
    <3> QED BY <3>1, <3>2 DEF QueueOK
  <2>6. \A i \in 1..Len(queue') : queue[1] = Nobody \/ queue'[i] # queue[1]
    <3> SUFFICES ASSUME NEW i \in 1..Len(queue'), queue'[i] = queue[1]
                 PROVE  queue[1] = Nobody
      OBVIOUS
    <3>1. i + 1 \in 1..Len(queue) /\ 1 \in 1..Len(queue) /\ queue[i + 1] = queue[1]
      BY <2>1
    <3> QED BY <3>1 DEF QueueOK
  <2>7. \A c : Queued(c) <=> c = queue[1] \/ Queued(c)'
    <3> SUFFICES ASSUME NEW c PROVE Queued(c) <=> c = queue[1] \/ Queued(c)'
      OBVIOUS
    <3>1. Queued(c)' => Queued(c)
      BY <2>1 DEF Queued
    <3>2. c = queue[1] => Queued(c)
      BY <2>1 DEF Queued
    <3>3. ASSUME Queued(c), c # queue[1] PROVE Queued(c)'
      <4>1. PICK i \in 1..Len(queue) : queue[i] = c
        BY <3>3 DEF Queued
      <4>2. i - 1 \in 1..Len(queue') /\ queue'[i - 1] = c
        BY <4>1, <3>3, <2>1
      <4> QED BY <4>2 DEF Queued
    <3> QED BY <3>1, <3>2, <3>3
  <2>8. CASE queue[1] = Nobody
    <3>1. inflight' = flying /\ orphans' = n + 1
      BY <1>2, <2>2, <2>8 DEF StartNext
    <3>2. QueueOK'
      BY <1>0, <2>1, <2>3, <2>4, <2>5, <3>1, HttpTestAssumption, RequestFacts
         DEF QueueOK, SlotsAreUsed, Load
    <3>3. \A c \in Requests : c \in Waiting' <=> c \in inflight' \/ Queued(c)'
      BY <3>2, WaitingProps DEF QueueOK, Waiting, Queued
    <3> QED BY <3>1, <3>2, <3>3, <2>7, <2>8, HttpTestAssumption, RequestFacts
  <2>9. CASE queue[1] # Nobody
    <3>1. inflight' = flying \cup {queue[1]} /\ orphans' = n
      BY <1>2, <2>2, <2>9 DEF StartNext
    <3>2. Cardinality(inflight') = Cardinality(flying) + 1
      BY <3>1, <2>3, FS_AddElement
    <3>3. inflight' \subseteq Requests
      BY <3>1, <2>2, <2>9 DEF QueueOK
    <3>4. \A i \in 1..Len(queue') : queue'[i] \notin inflight'
      BY <3>1, <2>4, <2>6, <2>9
    <3>5. QueueOK'
      BY <1>0, <2>1, <2>3, <2>5, <3>1, <3>2, <3>3, <3>4, HttpTestAssumption, RequestFacts
         DEF QueueOK, SlotsAreUsed, Load
    <3>6. \A c \in Requests : c \in Waiting' <=> c \in inflight' \/ Queued(c)'
      BY <3>5, WaitingProps DEF QueueOK, Waiting, Queued
    <3> QED BY <3>1, <3>5, <3>6, <2>7
  <2> QED BY <2>8, <2>9
<1> QED BY <1>1, <1>2

LEMMA Enqueued ==
  ASSUME QueueOK, NEW c \in Requests, c \notin Waiting, Enqueue(c)
  PROVE  /\ QueueOK'
         /\ \A d \in Requests : d \in Waiting' <=> d \in Waiting \/ d = c
<1>0. c \notin inflight /\ ~Queued(c)
  BY WaitingProps
<1>1. CASE Load < Concurrency
  <2>1. inflight' = inflight \cup {c} /\ queue' = queue /\ orphans' = orphans
    BY <1>1 DEF Enqueue
  <2>2. Cardinality(inflight') = Cardinality(inflight) + 1 /\ Cardinality(inflight) \in Nat
    BY <1>0, <2>1, FiniteFlights
  <2>3. \A i \in 1..Len(queue) : queue[i] # c
    BY <1>0 DEF Queued
  <2>4. QueueOK'
    BY <1>1, <2>1, <2>2, <2>3, HttpTestAssumption, RequestFacts DEF QueueOK, SlotsAreUsed, Load
  <2>5. \A d \in Requests : d \in Waiting' <=> d \in inflight' \/ Queued(d)'
    BY <2>4, WaitingProps DEF QueueOK, Waiting, Queued
  <2> QED BY <2>1, <2>4, <2>5, WaitingProps DEF Queued
<1>2. CASE ~(Load < Concurrency)
  <2>1. inflight' = inflight /\ queue' = Append(queue, c) /\ orphans' = orphans
    BY <1>2 DEF Enqueue
  <2>2. /\ queue' \in Seq(Requests \cup {Nobody}) /\ Len(queue') = Len(queue) + 1
        /\ \A i \in 1..Len(queue) : queue'[i] = queue[i]
        /\ queue'[Len(queue) + 1] = c /\ Len(queue) \in Nat
    BY <2>1, AppendProperties DEF QueueOK
  <2>3. \A i \in 1..Len(queue) : queue[i] # c
    BY <1>0 DEF Queued
  <2>4. \A i \in 1..Len(queue') : i \in 1..Len(queue) \/ i = Len(queue) + 1
    BY <2>2
  <2>5. \A i, j \in 1..Len(queue') :
          queue'[i] = queue'[j] /\ queue'[i] # Nobody => i = j
    BY <2>2, <2>3, <2>4 DEF QueueOK
  <2>6. \A i \in 1..Len(queue') : queue'[i] \notin inflight'
    BY <1>0, <2>1, <2>2, <2>4 DEF QueueOK
  <2>7. Load' = Concurrency
    BY <1>2, <2>1, FiniteFlights, HttpTestAssumption, RequestFacts DEF QueueOK, SlotsAreUsed, Load
  <2>8. QueueOK'
    BY <2>1, <2>2, <2>5, <2>6, <2>7, HttpTestAssumption, RequestFacts DEF QueueOK, SlotsAreUsed
  <2>9. \A d \in Requests : Queued(d)' <=> Queued(d) \/ d = c
    BY <2>2, <2>4 DEF Queued
  <2>10. \A d \in Requests : d \in Waiting' <=> d \in inflight' \/ Queued(d)'
    BY <2>8, WaitingProps DEF QueueOK, Waiting, Queued
  <2> QED BY <2>1, <2>8, <2>9, <2>10, WaitingProps
<1> QED BY <1>1, <1>2

LEMMA GivenUp ==
  ASSUME QueueOK, NEW c \in Requests, c \in Waiting, Abandon(c)
  PROVE  /\ QueueOK'
         /\ \A d \in Requests : d \in Waiting' <=> d \in Waiting /\ d # c
<1>1. CASE c \in inflight
  <2>1. inflight' = inflight \ {c} /\ orphans' = orphans + 1 /\ queue' = queue
    BY <1>1 DEF Abandon
  <2>2. Cardinality(inflight') = Cardinality(inflight) - 1 /\ Cardinality(inflight) \in Nat
    BY <1>1, <2>1, FiniteFlights
  <2>3. QueueOK'
    BY <2>1, <2>2, HttpTestAssumption DEF QueueOK, SlotsAreUsed, Load
  <2>4. \A d \in Requests : d \in Waiting' <=> d \in inflight' \/ Queued(d)'
    BY <2>3, WaitingProps DEF QueueOK, Waiting, Queued
  <2>5. ~Queued(c)
    BY <1>1 DEF QueueOK, Queued
  <2> QED BY <2>1, <2>3, <2>4, <2>5, WaitingProps DEF Queued
<1>2. CASE c \notin inflight
  <2>1. /\ inflight' = inflight /\ orphans' = orphans
        /\ queue' = [i \in DOMAIN queue |-> IF queue[i] = c THEN Nobody ELSE queue[i]]
    BY <1>2 DEF Abandon
  <2>2. /\ queue' \in Seq(Requests \cup {Nobody}) /\ Len(queue') = Len(queue)
        /\ \A i \in 1..Len(queue) :
             queue'[i] = IF queue[i] = c THEN Nobody ELSE queue[i]
        /\ Len(queue) \in Nat
    <3>1. DOMAIN queue = 1..Len(queue) /\ Len(queue) \in Nat
      BY DEF QueueOK
    <3>2. \A i \in 1..Len(queue) : queue[i] \in Requests \cup {Nobody}
      BY DEF QueueOK
    <3> QED BY <2>1, <3>1, <3>2
  <2>3. Nobody \notin inflight
    BY HttpTestAssumption, RequestFacts DEF QueueOK
  <2>4. queue' # <<>> => queue # <<>>
    BY <2>2 DEF QueueOK
  <2>5. QueueOK'
    BY <2>1, <2>2, <2>3, <2>4, HttpTestAssumption, RequestFacts DEF QueueOK, SlotsAreUsed, Load
  <2>6. \A d \in Requests : d \in Waiting' <=> d \in inflight' \/ Queued(d)'
    BY <2>5, WaitingProps DEF QueueOK, Waiting, Queued
  <2>7. \A d \in Requests : Queued(d)' <=> Queued(d) /\ d # c
    BY <2>2, HttpTestAssumption, RequestFacts DEF Queued
  <2> QED BY <1>2, <2>1, <2>5, <2>6, <2>7, WaitingProps
<1> QED BY <1>1, <1>2
-----------------------------------------------------------------------------
(* What a step of the request r makes of the outcomes: those there are     *)
(* stay, and only r can earn one, if it is the request of a case.          *)
Delivers(r) ==
  /\ mode' = mode
  /\ test' \in {"running", "resolved", "rejected", "ended"}
  /\ test' = "running" => test = "running"
  /\ status' \in [Cases -> Statuses]
  /\ \A c \in Cases \ {r} : status'[c] = status[c]
  /\ Accounts'

LEMMA NothingDelivered ==
  ASSUME IInv, NEW r, UNCHANGED <<mode, test, status>>
  PROVE  Delivers(r)
BY DEF IInv, TypeOK, Accounts, Delivers

LEMMA Ended ==
  ASSUME IInv, NEW c \in Cases, status[c] = "running", mode' = mode,
         NEW s \in {"skipped", "failed", "passed"}, EndCase(c, s)
  PROVE  Delivers(c) /\ status'[c] = s
<1>1. status' = [status EXCEPT ![c] = s] /\ status' \in [Cases -> Statuses]
  BY DEF EndCase, IInv, TypeOK, Statuses, Settled
<1>2. test' = IF test = "running" /\ LastOf(c) THEN "resolved" ELSE test
  BY DEF EndCase, Completed
<1>3. Accounts'
  <2>1. test' = "resolved" => \A d \in Cases : status'[d] \in Settled
    BY <1>1, <1>2 DEF IInv, Accounts, LastOf, Settled, TypeOK
  <2>2. test' = "rejected" => test = "rejected"
    BY <1>2
  <2>3. test' \in {"running", "resolved"} => test \in {"running", "resolved"}
    BY <1>2
  <2>4. test' = "running" => \E d \in Cases : status'[d] \notin Settled
    BY <1>1, <1>2 DEF LastOf, IInv, TypeOK
  <2> QED BY <1>1, <2>1, <2>2, <2>3, <2>4 DEF IInv, Accounts, TypeOK
<1> QED BY <1>1, <1>2, <1>3 DEF Delivers, IInv, TypeOK, Settled

LEMMA Broken ==
  ASSUME IInv, NEW c \in Cases, status[c] \in {"idle", "running"},
         mode' = mode, BreakCase(c)
  PROVE  Delivers(c) /\ status'[c] = "broken"
<1>1. status' = [status EXCEPT ![c] = "broken"] /\ status' \in [Cases -> Statuses]
  BY DEF BreakCase, IInv, TypeOK, Statuses, Settled
<1>2. test # "resolved"
  BY DEF IInv, Accounts, Settled
<1>3. mode = "rule" => test' # "running" /\ test' # "resolved"
                       /\ test' \in {"rejected", test}
  BY <1>2 DEF BreakCase, ErrorLeaves, IInv, TypeOK
<1>4. mode = "check" =>
        test' = IF test = "running" /\ LastOf(c) THEN "resolved" ELSE test
  BY DEF BreakCase, ErrorLeaves, Completed
<1>5. Accounts'
  <2>1. test' = "resolved" => \A d \in Cases : status'[d] \in Settled
    BY <1>1, <1>2, <1>3, <1>4 DEF IInv, LastOf, Settled, TypeOK
  <2>2. mode' = "check" => test' # "rejected"
    BY <1>4 DEF IInv, Accounts
  <2>3. test' = "running" => \E d \in Cases : status'[d] \notin Settled
    BY <1>1, <1>3, <1>4 DEF LastOf, IInv, TypeOK
  <2> QED BY <1>3, <2>1, <2>2, <2>3 DEF Accounts
<1>6. /\ test' \in {"running", "resolved", "rejected", "ended"}
      /\ test' = "running" => test = "running"
  BY <1>3, <1>4 DEF IInv, TypeOK
<1> QED BY <1>1, <1>5, <1>6 DEF Delivers, IInv, TypeOK, Settled
-----------------------------------------------------------------------------
(* The request r becomes f, which is NoRequest when it is over.            *)
RequestMoves(r, f) ==
  /\ request' = [request EXCEPT ![r] = f]
  /\ caller' \in [SeedIds -> Requests \cup {Nobody}]
  /\ CallersFit'
  /\ f # NoRequest => f \in Frame /\ FrameOK(f)

(* What the invariant asks of a case whose request is f.                   *)
CaseFits(r, f) ==
  r \in Cases =>
    /\ f # NoRequest => /\ status'[r] \in {"running", "broken"}
                        /\ status'[r] = "broken" => f.stage \in Kinds
    /\ f = NoRequest => status'[r] # "running" \/ test' # "running"

(* A step of the request r keeps the invariant when the dispatcher and the *)
(* outcomes do.                                                            *)
LEMMA Moved ==
  ASSUME IInv, NEW r \in Requests, Delivers(r), NEW f, RequestMoves(r, f),
         CaseFits(r, f),
         kept' \in [Cases -> BOOLEAN], step' \in [Cases -> 0..Steps],
         QueueOK',
         \A q \in Requests \ {r} : q \in Waiting' <=> q \in Waiting,
         r \in Waiting' <=> f # NoRequest /\ f.stage = "sent",
         closing' \in Closings, owed' \subseteq Requests, OwedWait'
  PROVE  IInv'
<1>1. /\ request' \in [Requests -> Frame \cup {NoRequest}] /\ request'[r] = f
      /\ \A q \in Requests \ {r} : request'[q] = request[q]
  BY DEF IInv, TypeOK, RequestMoves
<1>2. TypeOK'
  BY <1>1 DEF IInv, TypeOK, Delivers, RequestMoves, QueueOK
<1>3. FramesOK'
  BY <1>1 DEF IInv, FramesOK, Live, RequestMoves
<1>4. CasesFit'
  <2> SUFFICES ASSUME NEW c \in Cases
               PROVE  /\ request'[c] # NoRequest =>
                           /\ status'[c] \in {"running", "broken"}
                           /\ status'[c] = "broken" => request'[c].stage \in Kinds
                      /\ test' = "running" /\ status'[c] = "running" =>
                           request'[c] # NoRequest
    BY DEF CasesFit, Live, IsZombie, AtHooks
  <2>1. CASE c = r
    BY <1>1, <2>1 DEF CaseFits
  <2>2. CASE c # r
    BY <1>1, <2>2, RequestFacts
       DEF IInv, CasesFit, Live, IsZombie, AtHooks, Delivers
  <2> QED BY <2>1, <2>2
<1>5. OneRequestEach'
  <2>1. \A q \in Requests : AtDispatcher(q)' <=> q \in Waiting'
    <3> SUFFICES ASSUME NEW q \in Requests PROVE AtDispatcher(q)' <=> q \in Waiting'
      OBVIOUS
    <3>1. CASE q = r
      BY <1>1, <3>1 DEF AtDispatcher, Live
    <3>2. CASE q # r
      <4>1. AtDispatcher(q)' <=> AtDispatcher(q)
        BY <1>1, <3>2 DEF AtDispatcher, Live
      <4> QED BY <3>2, <4>1 DEF IInv, OneRequestEach
    <3> QED BY <3>1, <3>2
  <2>2. DOMAIN queue' = 1..Len(queue')
    BY DEF QueueOK
  <2> QED BY <2>1, <2>2 DEF OneRequestEach, QueueOK
<1>6. SlotsAreUsed' /\ CallersFit' /\ Accounts'
  BY DEF QueueOK, RequestMoves, Delivers
<1> QED BY <1>2, <1>3, <1>4, <1>5, <1>6 DEF IInv

(* The same for a step that leaves the dispatcher alone.                   *)
LEMMA MovedLocally ==
  ASSUME IInv, NEW r \in Requests, Delivers(r), NEW f, RequestMoves(r, f),
         CaseFits(r, f),
         kept' \in [Cases -> BOOLEAN], step' \in [Cases -> 0..Steps],
         UNCHANGED <<queueVars, closeVars>>,
         ~AtDispatcher(r), f # NoRequest => f.stage # "sent"
  PROVE  IInv'
<1>1. UNCHANGED <<queue, inflight, orphans, closing, owed>>
  BY DEF queueVars, closeVars
<1>2. QueueOK'
  BY <1>1, QueueIsOK DEF QueueOK, SlotsAreUsed, Load
<1>3. Waiting' = Waiting
  BY <1>1 DEF Waiting
<1>4. OwedWait' /\ closing' \in Closings /\ owed' \subseteq Requests
  BY <1>1, <1>3 DEF IInv, OwedWait, TypeOK
<1>5. r \notin Waiting'
  BY <1>3 DEF IInv, OneRequestEach
<1> QED BY <1>2, <1>3, <1>4, <1>5, Moved

(* What the invariant says of one request.                                 *)
LEMMA RequestProps ==
  ASSUME IInv, NEW r \in Requests
  PROVE  /\ Live(r) => request[r] \in Frame /\ FrameOK(request[r])
         /\ r \in Cases /\ Live(r) /\ ~IsZombie(r) => status[r] = "running"
         /\ r \in Cases /\ Live(r) /\ ~AtHooks(r) =>
              status[r] = "running" /\ ~IsZombie(r)
         /\ NoRequest \notin Frame
<1>1. Live(r) => request[r] \in Frame /\ FrameOK(request[r])
  BY DEF IInv, TypeOK, FramesOK, Live
<1>2. r \in Cases /\ Live(r) =>
        status[r] \in {"running", "broken"} /\ (IsZombie(r) => AtHooks(r))
  BY DEF IInv, CasesFit
<1> QED BY <1>1, <1>2, HttpTestAssumption DEF IsZombie

(* The seeds whose answers somebody takes are those before the step, less  *)
(* those of a request that leaves its hooks.                               *)
LEMMA CallersStay ==
  ASSUME IInv, NEW r \in Requests, NEW f, request' = [request EXCEPT ![r] = f],
         caller' \in [SeedIds -> Requests \cup {Nobody}],
         \A s \in SeedIds : caller'[s] # Nobody =>
           /\ caller'[s] = caller[s]
           /\ caller[s] = r => f # NoRequest /\ f.stage \in Kinds
  PROVE  CallersFit'
<1> SUFFICES ASSUME NEW s \in SeedIds, caller'[s] # Nobody
             PROVE  /\ request'[caller'[s]] # NoRequest
                    /\ request'[caller'[s]].stage \in Kinds
  BY DEF CallersFit, AtHooks, Live
<1>1. /\ caller'[s] = caller[s] /\ caller[s] \in Requests /\ AtHooks(caller[s])
  BY DEF IInv, CallersFit, TypeOK
<1>2. CASE caller[s] = r
  BY <1>1, <1>2 DEF IInv, TypeOK
<1>3. CASE caller[s] # r
  BY <1>1, <1>3 DEF IInv, TypeOK, AtHooks, Live
<1> QED BY <1>2, <1>3

LEMMA RequestSet ==
  ASSUME IInv, NEW r \in Requests, Live(r), NEW f \in Frame, FrameOK(f),
         AtHooks(r) => f.stage \in Kinds, SetRequest(r, f)
  PROVE  RequestMoves(r, f)
<1>1. request' = [request EXCEPT ![r] = f] /\ caller' = caller
  BY DEF SetRequest
<1>2. \A s \in SeedIds : caller'[s] = r /\ caller'[s] # Nobody => f.stage \in Kinds
  BY <1>1 DEF IInv, CallersFit
<1>3. f # NoRequest /\ caller' \in [SeedIds -> Requests \cup {Nobody}]
  BY <1>1, HttpTestAssumption DEF IInv, TypeOK
<1>4. CallersFit'
  BY <1>1, <1>2, <1>3, CallersStay
<1> QED BY <1>1, <1>3, <1>4 DEF RequestMoves

LEMMA StageEntered ==
  ASSUME IInv, NEW r \in Requests, NEW f \in Frame, NEW stage \in Stages,
         FrameOK(Enter(f, stage)), EnterStage(r, f, stage)
  PROVE  RequestMoves(r, Enter(f, stage))
<1>1. /\ request' = [request EXCEPT ![r] = Enter(f, stage)]
      /\ caller' = [s \in SeedIds |-> IF caller[s] = r THEN Nobody ELSE caller[s]]
  BY DEF EnterStage
<1>2. caller' \in [SeedIds -> Requests \cup {Nobody}]
  BY <1>1 DEF IInv, TypeOK
<1>3. \A s \in SeedIds : caller'[s] # Nobody => caller'[s] = caller[s] /\ caller[s] # r
  BY <1>1
<1>4. CallersFit'
  BY <1>1, <1>2, <1>3, CallersStay
<1> QED BY <1>1, <1>2, <1>4, EnterFrame DEF RequestMoves

LEMMA RequestDropped ==
  ASSUME IInv, NEW r \in Requests, DropRequest(r)
  PROVE  RequestMoves(r, NoRequest)
<1>1. /\ request' = [request EXCEPT ![r] = NoRequest]
      /\ caller' = [s \in SeedIds |->
                      IF s = r \/ caller[s] = r THEN Nobody ELSE caller[s]]
  BY DEF DropRequest
<1>2. caller' \in [SeedIds -> Requests \cup {Nobody}]
  BY <1>1 DEF IInv, TypeOK
<1>3. \A s \in SeedIds : caller'[s] # Nobody => caller'[s] = caller[s] /\ caller[s] # r
  BY <1>1
<1>4. CallersFit'
  BY <1>1, <1>2, <1>3, CallersStay
<1> QED BY <1>1, <1>2, <1>4 DEF RequestMoves

(* The request r is over, and its case has its outcome.                    *)
LEMMA DropStep ==
  ASSUME IInv, NEW r \in Requests, ~AtDispatcher(r), Delivers(r),
         r \in Cases => status'[r] # "running" \/ test' # "running",
         kept' \in [Cases -> BOOLEAN],
         UNCHANGED <<step, queueVars, closeVars>>, DropRequest(r)
  PROVE  IInv'
<1>1. step' \in [Cases -> 0..Steps]
  BY DEF IInv, TypeOK
<1>2. RequestMoves(r, NoRequest) /\ CaseFits(r, NoRequest)
  BY RequestDropped DEF CaseFits
<1> QED BY <1>1, <1>2, MovedLocally
-----------------------------------------------------------------------------
(* The hooks.                                                              *)
LEMMA KeptType ==
  ASSUME IInv, NEW r, KeepResults(r) \/ UNCHANGED kept
  PROVE  kept' \in [Cases -> BOOLEAN]
BY DEF IInv, TypeOK, KeepResults, VerdictCounts

(* compose has returned: the request goes on, not to the dispatcher yet.   *)
LEMMA ComposeStep ==
  ASSUME IInv, NEW r \in Requests, AtHooks(r), NEW flag \in BOOLEAN,
         ComposeReturns(r, flag), kept' \in [Cases -> BOOLEAN],
         UNCHANGED <<mode, test, status, step, queueVars, closeVars>>
  PROVE  IInv'
<1>0. /\ Live(r) /\ request[r].stage \in Kinds /\ request[r] \in Frame
      /\ FrameOK(request[r]) /\ ~AtDispatcher(r) /\ Delivers(r)
      /\ step' \in [Cases -> 0..Steps]
  BY RequestProps, NothingDelivered DEF AtHooks, AtDispatcher, Kinds, IInv, TypeOK
<1>1. CASE IsZombie(r)
  <2>1. DropRequest(r)
    BY <1>1 DEF ComposeReturns
  <2>2. r \in Cases => status'[r] # "running"
    BY <1>1 DEF IsZombie
  <2> QED BY <1>0, <2>1, <2>2, DropStep
<1>2. CASE ~IsZombie(r)
  <2> DEFINE f == [request[r] EXCEPT !.flag = flag]
             g == Enter(f, NextStage(f))
  <2>1. /\ f \in Frame /\ f.stage \in Kinds /\ f.chain = request[r].chain
        /\ f.target = request[r].target
    BY <1>0 DEF Frame
  <2>2. EnterStage(r, f, NextStage(f))
    BY <1>2 DEF ComposeReturns
  <2> HIDE DEF f
  <2>3. NextStage(f) \in Stages /\ NextStage(f) # "sent"
    BY <2>1 DEF NextStage, AfterBeforeEach, Stages, Kinds
  <2>4. /\ g \in Frame /\ g.stage = NextStage(f) /\ g.chain = f.chain
        /\ g.target = f.target
    BY <2>1, <2>3, EnterFrame
  <2> HIDE DEF g
  <2>5. ~Plain(request[r])
    BY <1>0 DEF Plain
  <2>6. FrameOK(g)
    BY <1>0, <2>1, <2>4, <2>5, SameChain
  <2>7. RequestMoves(r, g)
    BY <2>1, <2>2, <2>3, <2>6, StageEntered DEF g
  <2>8. CaseFits(r, g)
    BY <1>0, <1>2, <2>4, RequestProps DEF CaseFits
  <2> QED BY <1>0, <2>3, <2>4, <2>7, <2>8, MovedLocally
<1> QED BY <1>1, <1>2

LEMMA FlagsAreBoolean ==
  ASSUME IInv, NEW r \in Requests, AtHooks(r), NEW flag \in FlagsLeft(request[r])
  PROVE  flag \in BOOLEAN
BY RequestProps DEF FlagsLeft, Frame, AtHooks

LEMMA ReturnsStep ==
  ASSUME IInv, NEW r \in Requests, HookReturns(r)
  PROVE  IInv'
<1>0. /\ AtHooks(r) /\ Live(r) /\ request[r].stage \in Kinds
      /\ request[r] \in Frame /\ FrameOK(request[r])
      /\ UNCHANGED <<mode, test, status, step, queueVars, closeVars>>
  BY RequestProps DEF HookReturns, AtHooks
<1>1. PICK flag \in FlagsLeft(request[r]) :
        IF request[r].left > 1
        THEN /\ SetRequest(r, [request[r] EXCEPT !.left = @ - 1, !.flag = flag])
             /\ UNCHANGED kept
        ELSE ComposeReturns(r, flag) /\ KeepResults(r)
  BY DEF HookReturns
<1>2. flag \in BOOLEAN
  BY <1>0, FlagsAreBoolean
<1>3. CASE ~(request[r].left > 1)
  <2>1. ComposeReturns(r, flag) /\ kept' \in [Cases -> BOOLEAN]
    BY <1>1, <1>3, KeptType
  <2> QED BY <1>0, <1>2, <2>1, ComposeStep
<1>4. CASE request[r].left > 1
  <2> DEFINE g == [request[r] EXCEPT !.left = @ - 1, !.flag = flag]
  <2>1. SetRequest(r, g) /\ kept' \in [Cases -> BOOLEAN]
    BY <1>1, <1>4, KeptType
  <2>0. request[r].left - 1 \in Nat
    BY <1>0, <1>4 DEF Frame
  <2>2. /\ g \in Frame /\ g.stage = request[r].stage /\ g.chain = request[r].chain
        /\ g.target = request[r].target
    BY <1>0, <1>2, <2>0 DEF Frame
  <2> HIDE DEF g
  <2>3. FrameOK(g)
    BY <1>0, <2>2, SameChain DEF Plain
  <2>4. RequestMoves(r, g) /\ g.stage # "sent"
    BY <1>0, <2>1, <2>2, <2>3, RequestSet DEF Kinds
  <2>5. CaseFits(r, g)
    BY <1>0, <2>2, RequestProps DEF CaseFits, IInv, CasesFit
  <2>6. Delivers(r) /\ ~AtDispatcher(r) /\ step' \in [Cases -> 0..Steps]
    BY <1>0, NothingDelivered DEF AtDispatcher, Kinds, IInv, TypeOK
  <2> QED BY <1>0, <2>1, <2>4, <2>5, <2>6, MovedLocally
<1> QED BY <1>3, <1>4

(* A seed passed the guard: its chain repeats nothing.                     *)
LEMMA SeedsStep ==
  ASSUME IInv, NEW r \in Requests, HookSeeds(r)
  PROVE  IInv'
<1>0. /\ AtHooks(r) /\ Live(r) /\ request[r].stage \in Kinds
      /\ request[r] \in Frame /\ FrameOK(request[r])
      /\ UNCHANGED <<mode, test, status, kept, step, queueVars, closeVars>>
  BY RequestProps DEF HookSeeds, AtHooks, caseVars
<1> DEFINE s == NextSeed
<1>1. PICK seed \in Seeds[request[r].target][request[r].stage] :
        /\ ~Refused(HookChain(request[r]), seed)
        /\ request' = [request EXCEPT
             ![NextSeed] = NewFrame(seed, HookChain(request[r]))]
  BY DEF HookSeeds
<1> DEFINE g == NewFrame(seed, HookChain(request[r]))
<1>2. s \in Unused
  BY DEF HookSeeds, NextSeed
<1>3. s \in SeedIds /\ s \in Requests /\ s \notin Cases /\ ~Live(s) /\ s # r
  BY <1>0, <1>2, RequestFacts DEF Unused
<1>4. request[r].target \in Transactions
  BY <1>0 DEF Frame
<1>5. seed \in Seed
  BY <1>0, <1>1, <1>4, HooksAssumption
<1>6. HookChain(request[r]) \in Seq(Transactions) /\ NoRepeat(HookChain(request[r]))
  BY <1>0, HookChainProps
<1>7. g \in Frame /\ FrameOK(g) /\ g.stage # "sent" /\ g # NoRequest
  BY <1>1, <1>5, <1>6, NewFrameProps, HttpTestAssumption
<1>8. request' = [request EXCEPT ![s] = g] /\ caller' = [caller EXCEPT ![s] = r]
  BY <1>1 DEF HookSeeds
<1> HIDE DEF s, g
<1>9. caller' \in [SeedIds -> Requests \cup {Nobody}]
  BY <1>8 DEF IInv, TypeOK
<1>10. CallersFit'
  <2> SUFFICES ASSUME NEW t \in SeedIds, caller'[t] # Nobody
               PROVE  request'[caller'[t]] # NoRequest /\ request'[caller'[t]].stage \in Kinds
    BY DEF CallersFit, AtHooks, Live
  <2>1. caller'[t] \in Requests /\ AtHooks(caller'[t])
    BY <1>0, <1>3, <1>8 DEF IInv, TypeOK, CallersFit
  <2>2. caller'[t] # s
    BY <1>3, <2>1 DEF AtHooks
  <2> QED BY <1>8, <2>1, <2>2 DEF AtHooks, Live, IInv, TypeOK
<1>11. RequestMoves(s, g) /\ CaseFits(s, g)
  BY <1>3, <1>7, <1>8, <1>9, <1>10 DEF RequestMoves, CaseFits
<1>12. /\ Delivers(s) /\ ~AtDispatcher(s) /\ step' \in [Cases -> 0..Steps]
       /\ kept' \in [Cases -> BOOLEAN]
  BY <1>0, <1>3, NothingDelivered DEF AtDispatcher, IInv, TypeOK
<1> QED BY <1>0, <1>3, <1>7, <1>11, <1>12, MovedLocally

LEMMA ThrowsStep ==
  ASSUME IInv, NEW r \in Requests, HookThrows(r)
  PROVE  IInv'
<1>0. /\ AtHooks(r) /\ ~AtDispatcher(r) /\ mode' = mode
      /\ UNCHANGED <<step, queueVars, closeVars>>
  BY DEF HookThrows, AtHooks, AtDispatcher, Kinds
<1>1. PICK e \in Errors(request[r]), flag \in FlagsLeft(request[r]) :
        IF Verdict(e) = "none"
        THEN HookIsDefect(r)
        ELSE HookGivesVerdict(r, e) \/ HookVerdictDropped(r, flag)
  BY DEF HookThrows
<1>2. CASE HookIsDefect(r)
  <2>1. DropRequest(r) /\ kept' \in [Cases -> BOOLEAN]
    BY <1>2, KeptType DEF HookIsDefect
  <2>2. Delivers(r) /\ (r \in Cases => status'[r] # "running")
    <3>1. CASE r \in Cases /\ ~IsZombie(r)
      BY <1>0, <1>2, <3>1, RequestProps, Broken DEF HookIsDefect, AtHooks
    <3>2. CASE r \notin Cases \/ IsZombie(r)
      BY <1>0, <1>2, <3>2, NothingDelivered DEF HookIsDefect, IsZombie
    <3> QED BY <3>1, <3>2
  <2> QED BY <1>0, <2>1, <2>2, DropStep
<1>3. CASE Verdict(e) # "none" /\ HookGivesVerdict(r, e)
  <2>1. DropRequest(r) /\ r \in Cases /\ kept' \in [Cases -> BOOLEAN]
    BY <1>3 DEF HookGivesVerdict, VerdictCounts, IInv, TypeOK
  <2>2. status[r] = "running" /\ Verdict(e) \in {"skipped", "failed", "passed"}
    BY <1>0, <1>3, RequestProps
       DEF HookGivesVerdict, VerdictCounts, Verdict, AtHooks
  <2>3. Delivers(r) /\ status'[r] # "running"
    BY <1>0, <1>3, <2>1, <2>2, Ended DEF HookGivesVerdict
  <2> QED BY <1>0, <2>1, <2>3, DropStep
<1>4. CASE HookVerdictDropped(r, flag)
  <2>1. /\ ComposeReturns(r, flag) /\ kept' \in [Cases -> BOOLEAN]
        /\ UNCHANGED <<mode, test, status, step, queueVars, closeVars>>
    BY <1>0, <1>4, KeptType DEF HookVerdictDropped
  <2>2. flag \in BOOLEAN
    BY <1>0, FlagsAreBoolean
  <2> QED BY <1>0, <2>1, <2>2, ComposeStep
<1> QED BY <1>1, <1>2, <1>3, <1>4

(* The outcome changes, and the request does not.                          *)
LEMMA StaysStep ==
  ASSUME IInv, NEW c \in Cases, Delivers(c), ~AtDispatcher(c),
         Live(c) => AtHooks(c), status'[c] = "broken",
         UNCHANGED <<kept, step, requestVars, queueVars, closeVars>>
  PROVE  IInv'
<1>1. /\ c \in Requests /\ request' = [request EXCEPT ![c] = request[c]]
      /\ caller' = caller /\ request' = request
  BY RequestFacts DEF requestVars, IInv, TypeOK
<1>2. CallersFit' /\ caller' \in [SeedIds -> Requests \cup {Nobody}]
  BY <1>1 DEF IInv, TypeOK, CallersFit, AtHooks, Live
<1>3. RequestMoves(c, request[c])
  BY <1>1, <1>2, RequestProps DEF RequestMoves, Live
<1>4. CaseFits(c, request[c]) /\ (request[c] # NoRequest => request[c].stage # "sent")
  BY DEF CaseFits, Live, AtHooks, AtDispatcher
<1>5. kept' \in [Cases -> BOOLEAN] /\ step' \in [Cases -> 0..Steps]
  BY DEF IInv, TypeOK
<1> QED BY <1>1, <1>3, <1>4, <1>5, MovedLocally

LEMMA HookTimesOutStep ==
  ASSUME IInv, NEW c \in Cases, HookTimesOut(c)
  PROVE  IInv'
<1>1. /\ AtHooks(c) /\ ~AtDispatcher(c) /\ BreakCase(c) /\ status[c] = "running"
      /\ mode' = mode /\ UNCHANGED <<kept, step, requestVars, queueVars, closeVars>>
  BY DEF HookTimesOut, AtHooks, AtDispatcher, Kinds
<1>2. Delivers(c) /\ status'[c] = "broken"
  BY <1>1, Broken
<1> QED BY <1>1, <1>2, StaysStep

(* A case that has not begun has no request.                               *)
LEMMA IdleCase ==
  ASSUME IInv, NEW c \in Cases, MayStart(c)
  PROVE  status[c] = "idle" /\ ~Live(c) /\ ~AtDispatcher(c) /\ test = "running"
BY DEF MayStart, IInv, CasesFit, AtDispatcher

LEMMA StartStep ==
  ASSUME IInv, NEW c \in Cases, StartCase(c) \/ SampleFails(c) \/ RunEnds(c)
  PROVE  IInv'
<1>0. MayStart(c) /\ mode' = mode
  BY DEF StartCase, SampleFails, RunEnds
<1>1. CASE StartCase(c)
  <2> DEFINE f == OwnFrame(c, Flag[c])
  <2>1. f \in Frame /\ FrameOK(f) /\ f.stage # "sent" /\ c \in Requests
    BY OwnFrameProps, HttpTestAssumption, RequestFacts
  <2>2. /\ status' = [status EXCEPT ![c] = "running"] /\ test' = test
        /\ step' = [step EXCEPT ![c] = 1] /\ kept' = kept
        /\ request' = [request EXCEPT ![c] = f] /\ caller' = caller
        /\ UNCHANGED <<queueVars, closeVars>>
    BY <1>1 DEF StartCase, SetRequest
  <2> HIDE DEF f
  <2>3. 1 \in 0..Steps
    BY HttpTestAssumption
  <2>4. step' \in [Cases -> 0..Steps] /\ kept' \in [Cases -> BOOLEAN]
    BY <2>2, <2>3 DEF IInv, TypeOK
  <2>5. status' \in [Cases -> Statuses] /\ status'[c] = "running"
    BY <2>2 DEF IInv, TypeOK, Statuses
  <2>6. Delivers(c)
    <3>1. status'[c] \notin Settled /\ test = "running"
      BY <1>0, <2>5, IdleCase DEF Settled
    <3>2. Accounts'
      BY <1>0, <2>2, <3>1 DEF Accounts, IInv, TypeOK
    <3> QED BY <1>0, <2>2, <2>5, <3>2 DEF Delivers, IInv, TypeOK
  <2>7. \A s \in SeedIds : caller[s] # Nobody => caller[s] # c
    BY <1>0, IdleCase DEF IInv, CallersFit, AtHooks
  <2>8. caller' \in [SeedIds -> Requests \cup {Nobody}]
    BY <2>2 DEF IInv, TypeOK
  <2>9. CallersFit'
    BY <2>1, <2>2, <2>7, <2>8, CallersStay
  <2>10. RequestMoves(c, f) /\ CaseFits(c, f)
    BY <2>1, <2>2, <2>5, <2>8, <2>9, HttpTestAssumption DEF RequestMoves, CaseFits
  <2> QED BY <1>0, <2>1, <2>2, <2>4, <2>6, <2>10, IdleCase, MovedLocally
<1>2. CASE SampleFails(c)
  <2>1. BreakCase(c) /\ UNCHANGED <<kept, step, requestVars, queueVars, closeVars>>
    BY <1>2 DEF SampleFails
  <2> QED BY <1>0, <2>1, IdleCase, Broken, StaysStep
<1>3. CASE RunEnds(c)
  <2>1. /\ status' = [status EXCEPT ![c] = "broken"] /\ mode = "check"
        /\ test' = "ended"
        /\ UNCHANGED <<kept, step, requestVars, queueVars, closeVars>>
    BY <1>3 DEF RunEnds
  <2>2. status' \in [Cases -> Statuses]
    BY <2>1 DEF IInv, TypeOK, Statuses, Settled
  <2>3. Delivers(c)
    BY <1>0, <2>1, <2>2 DEF Delivers, Accounts, IInv, TypeOK
  <2>4. status'[c] = "broken"
    BY <2>1 DEF IInv, TypeOK
  <2> QED BY <1>0, <2>1, <2>3, <2>4, IdleCase, StaysStep
<1> QED BY <1>1, <1>2, <1>3
-----------------------------------------------------------------------------
(* The dispatcher.                                                         *)
LEMMA SendStep ==
  ASSUME IInv, NEW r \in Requests, Send(r)
  PROVE  IInv'
<1> DEFINE f == [request[r] EXCEPT !.stage = "sent"]
<1>0. /\ Live(r) /\ request[r].stage = "send" /\ ~AtHooks(r) /\ ~AtDispatcher(r)
  BY DEF Send, AtSend, AtHooks, AtDispatcher, Kinds
<1>1. request[r] \in Frame /\ FrameOK(request[r])
  BY <1>0, RequestProps
<1>2. /\ f \in Frame /\ f.target = request[r].target /\ f.chain = request[r].chain
      /\ f.stage = "sent" /\ f.runHooks = request[r].runHooks
  BY <1>1 DEF Frame, Stages
<1>3. /\ SetRequest(r, f) /\ Enqueue(r)
      /\ UNCHANGED <<mode, test, status, kept, step, closing, owed>>
  BY DEF Send, caseVars, closeVars
<1> HIDE DEF f
<1>4. Plain(request[r]) => Plain(f)
  BY <1>2 DEF Plain, Kinds
<1>5. FrameOK(f) /\ f # NoRequest
  BY <1>1, <1>2, <1>4, SameChain, RequestProps
<1>6. RequestMoves(r, f)
  BY <1>0, <1>2, <1>3, <1>5, RequestSet
<1>7. CaseFits(r, f)
  BY <1>0, <1>3, <1>5, RequestProps DEF CaseFits
<1>8. /\ QueueOK'
      /\ \A q \in Requests : q \in Waiting' <=> q \in Waiting \/ q = r
  BY <1>0, <1>3, QueueIsOK, Enqueued DEF IInv, OneRequestEach
<1>9. OwedWait' /\ closing' \in Closings /\ owed' \subseteq Requests
  BY <1>3, <1>8 DEF IInv, OwedWait, TypeOK
<1>10. /\ Delivers(r) /\ step' \in [Cases -> 0..Steps]
       /\ kept' \in [Cases -> BOOLEAN]
  BY <1>3, NothingDelivered DEF IInv, TypeOK
<1>11. r \in Waiting' <=> f # NoRequest /\ f.stage = "sent"
  BY <1>2, <1>5, <1>8
<1> QED BY <1>6, <1>7, <1>8, <1>9, <1>10, <1>11, Moved

LEMMA SerializeStep ==
  ASSUME IInv, NEW r \in Requests, SerializeFails(r)
  PROVE  IInv'
<1>1. /\ Live(r) /\ ~AtHooks(r) /\ ~AtDispatcher(r) /\ DropRequest(r) /\ mode' = mode
      /\ UNCHANGED <<kept, step, queueVars, closeVars>>
  BY DEF SerializeFails, AtSend, AtHooks, AtDispatcher, Kinds
<1>2. CASE r \in Cases
  <2>1. status[r] = "running"
    BY <1>1, <1>2, RequestProps
  <2>2. EndCase(r, "skipped") \/ BreakCase(r)
    BY <1>2 DEF SerializeFails
  <2>3. Delivers(r) /\ status'[r] # "running"
    BY <1>1, <1>2, <2>1, <2>2, Ended, Broken
  <2> QED BY <1>1, <2>3, KeptType, DropStep
<1>3. CASE r \notin Cases
  <2>1. Delivers(r)
    BY <1>1, <1>3, NothingDelivered DEF SerializeFails
  <2> QED BY <1>1, <1>3, <2>1, KeptType, DropStep
<1> QED BY <1>2, <1>3

(* The request r leaves the dispatcher, or is abandoned there.             *)
LeavesDispatcher(r) ==
  /\ QueueOK'
  /\ \A q \in Requests : q \in Waiting' <=> q \in Waiting /\ q # r

LEMMA SlotFreed ==
  ASSUME IInv, NEW r \in inflight, StartNext(inflight \ {r}, orphans)
  PROVE  r \in Requests /\ LeavesDispatcher(r)
<1>1. QueueOK /\ r \in Requests
  BY QueueIsOK DEF QueueOK
<1>2. /\ IsFiniteSet(inflight \ {r}) /\ inflight \ {r} \in SUBSET inflight
      /\ Cardinality(inflight \ {r}) + orphans = Load - 1
  BY <1>1, FiniteFlights, FS_RemoveElement DEF Load, QueueOK
<1>3. /\ QueueOK'
      /\ \A q \in Requests : q \in Waiting' <=> q \in inflight \ {r} \/ Queued(q)
  BY <1>1, <1>2, Started DEF QueueOK
<1>4. ~Queued(r)
  BY <1>1 DEF QueueOK, Queued
<1> QED BY <1>1, <1>3, <1>4, WaitingProps DEF LeavesDispatcher

(* The request goes on as f, that is not at the dispatcher.                *)
LEMMA LeaveStep ==
  ASSUME IInv, NEW r \in Requests, LeavesDispatcher(r), NotOwed(r),
         Delivers(r), UNCHANGED <<kept, step>>,
         NEW f, RequestMoves(r, f), CaseFits(r, f),
         f # NoRequest => f.stage # "sent"
  PROVE  IInv'
<1>1. OwedWait' /\ closing' \in Closings /\ owed' \subseteq Requests
  BY DEF NotOwed, LeavesDispatcher, IInv, OwedWait, TypeOK
<1>2. kept' \in [Cases -> BOOLEAN] /\ step' \in [Cases -> 0..Steps]
  BY DEF IInv, TypeOK
<1>3. /\ r \in Waiting' <=> f # NoRequest /\ f.stage = "sent"
      /\ QueueOK' /\ \A q \in Requests \ {r} : q \in Waiting' <=> q \in Waiting
  BY DEF LeavesDispatcher
<1> QED BY <1>1, <1>2, <1>3, Moved

LEMMA AnswerStep ==
  ASSUME IInv, NEW r \in Requests, Answer(r)
  PROVE  IInv'
<1>1. /\ r \in inflight /\ StartNext(inflight \ {r}, orphans) /\ NotOwed(r)
      /\ UNCHANGED <<mode, test, status, kept, step>>
  BY DEF Answer, caseVars
<1>2. LeavesDispatcher(r)
  BY <1>1, SlotFreed
<1>3. Live(r) /\ request[r].stage = "sent" /\ ~AtHooks(r)
  BY <1>1 DEF IInv, OneRequestEach, Waiting, AtDispatcher, AtHooks, Kinds
<1>4. request[r] \in Frame /\ FrameOK(request[r])
  BY <1>3, RequestProps
<1>5. PICK answer \in Served :
        LET f == [request[r] EXCEPT !.answer = answer]
        IN  EnterStage(r, f, AfterAnswer(f))
  BY DEF Answer
<1> DEFINE f == [request[r] EXCEPT !.answer = answer]
           g == Enter(f, AfterAnswer(f))
<1>6. /\ f \in Frame /\ f.target = request[r].target /\ f.chain = request[r].chain
      /\ f.runHooks = request[r].runHooks
  BY <1>4, <1>5, HttpTestAssumption DEF Frame
<1>7. EnterStage(r, f, AfterAnswer(f))
  BY <1>5
<1> HIDE DEF f
<1>8. /\ AfterAnswer(f) \in {"afterEach", "answered"} /\ AfterAnswer(f) \in Stages
      /\ ~f.runHooks => AfterAnswer(f) = "answered"
  BY DEF AfterAnswer, Stages, Kinds
<1>9. /\ g \in Frame /\ g.target = request[r].target /\ g.chain = request[r].chain
      /\ g.stage = AfterAnswer(f) /\ g.runHooks = request[r].runHooks
  BY <1>6, <1>8, EnterFrame
<1> HIDE DEF g
<1>10. Plain(request[r]) => Plain(g)
  BY <1>6, <1>8, <1>9 DEF Plain, Kinds
<1>11. FrameOK(g)
  BY <1>4, <1>9, <1>10, SameChain
<1>12. RequestMoves(r, g) /\ g.stage # "sent"
  BY <1>6, <1>7, <1>8, <1>9, <1>11, StageEntered DEF g
<1>13. CaseFits(r, g) /\ Delivers(r)
  BY <1>1, <1>3, <1>9, RequestProps, NothingDelivered DEF CaseFits
<1> QED BY <1>1, <1>2, <1>12, <1>13, LeaveStep

LEMMA FailStep ==
  ASSUME IInv, NEW r \in Requests, r \in Waiting, LeavesDispatcher(r), DispatchFails(r)
  PROVE  IInv'
<1>1. NotOwed(r) /\ DropRequest(r) /\ UNCHANGED <<mode, kept, step>>
  BY DEF DispatchFails
<1>2. Live(r) /\ ~AtHooks(r)
  BY DEF IInv, OneRequestEach, AtDispatcher, AtHooks, Kinds
<1>3. CASE r \in Cases
  <2>1. status[r] = "running"
    BY <1>2, <1>3, RequestProps
  <2>2. Delivers(r) /\ CaseFits(r, NoRequest)
    BY <1>1, <1>3, <2>1, Broken DEF DispatchFails, CaseFits
  <2> QED BY <1>1, <2>2, RequestDropped, LeaveStep
<1>4. CASE r \notin Cases
  <2>1. Delivers(r) /\ CaseFits(r, NoRequest)
    BY <1>1, <1>4, NothingDelivered DEF DispatchFails, CaseFits
  <2> QED BY <1>1, <2>1, RequestDropped, LeaveStep
<1> QED BY <1>3, <1>4

(* What the invariant asks of all but the dispatcher stays with these.     *)
LEMMA SameRequests ==
  ASSUME IInv, UNCHANGED <<mode, test, status, kept, step, request, caller>>
  PROVE  FramesOK' /\ CasesFit' /\ CallersFit' /\ Accounts'
BY DEF IInv, FramesOK, CasesFit, CallersFit, Accounts, Live, AtHooks, IsZombie

LEMMA OrphanStep ==
  ASSUME IInv, OrphanAnswered
  PROVE  IInv'
<1>1. /\ orphans > 0 /\ StartNext(inflight, orphans - 1)
      /\ UNCHANGED <<mode, test, status, kept, step, request, caller, closing, owed>>
  BY DEF OrphanAnswered, caseVars, requestVars, closeVars
<1>2. QueueOK /\ orphans - 1 \in Nat /\ IsFiniteSet(inflight)
      /\ Cardinality(inflight) + (orphans - 1) = Load - 1
  BY <1>1, QueueIsOK, FiniteFlights DEF QueueOK, Load
<1>3. /\ QueueOK'
      /\ \A q \in Requests : q \in Waiting' <=> q \in inflight \/ Queued(q)
  BY <1>1, <1>2, Started
<1>4. \A q \in Requests : q \in Waiting' <=> q \in Waiting
  BY <1>2, <1>3, WaitingProps
<1>5. TypeOK' /\ SlotsAreUsed'
  BY <1>1, <1>3 DEF IInv, TypeOK, QueueOK
<1>6. OneRequestEach'
  <2>1. DOMAIN queue' = 1..Len(queue')
    BY <1>3 DEF QueueOK
  <2>2. \A q \in Requests : AtDispatcher(q)' <=> q \in Waiting'
    BY <1>1, <1>4 DEF IInv, OneRequestEach, AtDispatcher, Live
  <2> QED BY <1>3, <2>1, <2>2 DEF QueueOK, OneRequestEach
<1>7. OwedWait'
  BY <1>1, <1>4 DEF IInv, OwedWait, TypeOK
<1> QED BY <1>1, <1>5, <1>6, <1>7, SameRequests DEF IInv

(* The answer of a seed goes to the hooks that wait for it.                *)
LEMMA SeedReturnsStep ==
  ASSUME IInv, NEW s \in SeedIds, SeedReturns(s)
  PROVE  IInv'
<1>0. /\ Live(s) /\ request[s].stage = "answered" /\ s \in Requests /\ s \notin Cases
      /\ caller' = [caller EXCEPT ![s] = Nobody]
      /\ UNCHANGED <<mode, test, status, kept, step, queue, inflight, orphans, closing, owed>>
  BY RequestFacts DEF SeedReturns, caseVars, queueVars, closeVars
<1>1. PICK recorded \in BOOLEAN :
        request' = [r \in Requests |->
          IF r = s THEN NoRequest
          ELSE IF recorded /\ r = caller[s]
               THEN SeedAnswered(request[r], request[s].answer)
               ELSE request[r]]
  BY DEF SeedReturns
<1>2. caller[s] \in Requests \cup {Nobody} /\ (caller[s] # Nobody => AtHooks(caller[s]))
  BY DEF IInv, TypeOK, CallersFit
<1>3. \A r \in Requests \ {s} :
        /\ Live(r)' <=> Live(r)
        /\ Live(r) => /\ request'[r] \in Frame
                      /\ request'[r].stage = request[r].stage
                      /\ FrameOK(request'[r])
  <2> SUFFICES ASSUME NEW r \in Requests \ {s}
               PROVE  /\ Live(r)' <=> Live(r)
                      /\ Live(r) => /\ request'[r] \in Frame
                                    /\ request'[r].stage = request[r].stage
                                    /\ FrameOK(request'[r])
    OBVIOUS
  <2>1. Live(r) => request[r] \in Frame /\ FrameOK(request[r])
    BY RequestProps
  <2>2. CASE request'[r] = request[r]
    BY <2>1, <2>2 DEF Live
  <2>3. CASE request'[r] = SeedAnswered(request[r], request[s].answer) /\ r = caller[s]
    <3> DEFINE g == SeedAnswered(request[r], request[s].answer)
    <3>1. Live(r) /\ request[r] \in Frame
      BY <1>2, <2>1, <2>3, RequestFacts DEF AtHooks
    <3>2. /\ g \in Frame /\ g.stage = request[r].stage /\ g.chain = request[r].chain
          /\ g.target = request[r].target /\ g.runHooks = request[r].runHooks
      BY <3>1 DEF SeedAnswered, Frame
    <3> HIDE DEF g
    <3>3. Plain(request[r]) => Plain(g)
      BY <3>2 DEF Plain
    <3>4. FrameOK(g) /\ g # NoRequest
      BY <2>1, <3>1, <3>2, <3>3, SameChain, HttpTestAssumption
    <3> QED BY <2>3, <3>1, <3>2, <3>4 DEF g, Live
  <2> QED BY <1>1, <2>2, <2>3
<1>4. request' \in [Requests -> Frame \cup {NoRequest}] /\ ~Live(s)'
  <2>1. \A r \in Requests \ {s} : ~Live(r) => request'[r] = NoRequest
    BY <1>3 DEF Live
  <2>2. \A r \in Requests : request'[r] \in Frame \cup {NoRequest}
    BY <1>1, <1>3, <2>1
  <2> QED BY <1>0, <1>1, <2>2 DEF Live
<1>5. TypeOK'
  BY <1>0, <1>4 DEF IInv, TypeOK
<1>6. FramesOK'
  BY <1>3, <1>4 DEF FramesOK
<1>7. CasesFit'
  BY <1>0, <1>3, RequestFacts DEF IInv, CasesFit, IsZombie, AtHooks
<1>8. CallersFit'
  <2> SUFFICES ASSUME NEW t \in SeedIds, caller'[t] # Nobody
               PROVE  /\ request'[caller'[t]] # NoRequest
                      /\ request'[caller'[t]].stage \in Kinds
    BY DEF CallersFit, AtHooks, Live
  <2>1. /\ caller'[t] = caller[t] /\ caller[t] # Nobody /\ caller[t] \in Requests
        /\ AtHooks(caller[t])
    BY <1>0 DEF IInv, TypeOK, CallersFit
  <2>2. caller[t] # s
    BY <1>0, <2>1 DEF AtHooks, Kinds
  <2> QED BY <1>3, <2>1, <2>2 DEF AtHooks, Live
<1>9. \A q \in Requests : AtDispatcher(q)' <=> AtDispatcher(q)
  BY <1>0, <1>3, <1>4 DEF AtDispatcher
<1>10. OneRequestEach' /\ SlotsAreUsed' /\ OwedWait' /\ Accounts'
  BY <1>0, <1>9 DEF IInv, OneRequestEach, SlotsAreUsed, Load, OwedWait, Waiting, Accounts
<1> QED BY <1>5, <1>6, <1>7, <1>8, <1>10 DEF IInv

LEMMA CheckStep ==
  ASSUME IInv, NEW c \in Cases, Check(c)
  PROVE  IInv'
<1>0. /\ Live(c) /\ request[c].stage = "answered" /\ mode' = mode
      /\ ~AtHooks(c) /\ ~AtDispatcher(c) /\ c \in Requests
      /\ UNCHANGED <<kept, queueVars, closeVars>>
  BY RequestFacts DEF Check, AtCheck, AtHooks, AtDispatcher, Kinds
<1>1. status[c] = "running" /\ request[c] \in Frame /\ kept' \in [Cases -> BOOLEAN]
  BY <1>0, RequestProps, KeptType
<1>2. CASE StatusDiffers(c)
  <2>1. DropRequest(c) /\ step' = step /\ EndCase(c, "skipped")
    BY <1>2 DEF StatusDiffers
  <2>2. Delivers(c) /\ status'[c] # "running"
    BY <1>0, <1>1, <2>1, Ended
  <2> QED BY <1>0, <1>1, <2>1, <2>2, DropStep
<1>3. CASE NobodyListens(c)
  <2>1. /\ DropRequest(c) /\ test' # "running" /\ step' = step
        /\ UNCHANGED <<mode, test, status>>
    BY <1>0, <1>3 DEF NobodyListens
  <2> QED BY <1>0, <1>1, <2>1, NothingDelivered, DropStep
<1>4. CASE ExpectationDecides(c)
  <2>1. DropRequest(c) /\ step' = step
    BY <1>4 DEF ExpectationDecides
  <2>2. BreakCase(c) \/ EndCase(c, "failed") \/ EndCase(c, "skipped")
    BY <1>4 DEF ExpectationDecides
  <2>3. Delivers(c) /\ status'[c] # "running"
    BY <1>0, <1>1, <2>2, Ended, Broken
  <2> QED BY <1>0, <1>1, <2>1, <2>3, DropStep
<1>5. CASE Passes(c)
  <2>1. DropRequest(c) /\ step' = step /\ EndCase(c, "passed")
    BY <1>5 DEF Passes
  <2>2. Delivers(c) /\ status'[c] # "running"
    BY <1>0, <1>1, <2>1, Ended
  <2> QED BY <1>0, <1>1, <2>1, <2>2, DropStep
<1>6. CASE Replay(c)
  <2> DEFINE f == OwnFrame(c, request[c].flag)
  <2>1. /\ step[c] < Steps /\ step' = [step EXCEPT ![c] = @ + 1]
        /\ SetRequest(c, f) /\ UNCHANGED <<test, status>>
    BY <1>6 DEF Replay
  <2>2. step' \in [Cases -> 0..Steps]
    BY <2>1, HttpTestAssumption DEF IInv, TypeOK
  <2>3. f \in Frame /\ FrameOK(f) /\ f.stage # "sent"
    BY <1>1, OwnFrameProps DEF Frame
  <2> HIDE DEF f
  <2>4. RequestMoves(c, f) /\ CaseFits(c, f)
    BY <1>0, <1>1, <2>1, <2>3, RequestSet, HttpTestAssumption DEF CaseFits
  <2>5. Delivers(c)
    BY <1>0, <2>1, NothingDelivered
  <2> QED BY <1>0, <1>1, <2>2, <2>3, <2>4, <2>5, MovedLocally
<1> QED BY <1>2, <1>3, <1>4, <1>5, <1>6 DEF Check

(* A queue that is idle owes nobody an answer.                             *)
LEMMA ClosingStep ==
  ASSUME IInv, Closing
  PROVE  IInv'
<1>1. UNCHANGED <<mode, test, status, kept, step, request, caller, queue, inflight, orphans>>
  BY DEF Closing, AskClose, RepliesToClose, caseVars, requestVars, queueVars
<1>2. Waiting' = Waiting /\ Waiting \subseteq Requests
  BY <1>1 DEF Waiting, IInv, TypeOK
<1>3. closing' \in Closings /\ owed' \subseteq Requests /\ OwedWait'
  <2>1. CASE AskClose
    BY <1>2, <2>1 DEF AskClose, OwedWait, Closings
  <2>2. CASE RepliesToClose
    <3>1. queue = <<>> /\ inflight = {}
      BY <2>2, QueueIsOK, FiniteFlights, FS_EmptySet
         DEF RepliesToClose, IsIdle, Load, QueueOK
    <3>2. Waiting = {}
      BY <3>1, EmptySeq DEF Waiting
    <3>3. owed = {}
      BY <2>2, <3>2 DEF RepliesToClose, IInv, OwedWait
    <3> QED BY <2>2, <3>3 DEF RepliesToClose, OwedWait, Closings
  <2> QED BY <2>1, <2>2 DEF Closing
<1>4. TypeOK' /\ SlotsAreUsed'
  BY <1>1, <1>3 DEF IInv, TypeOK, SlotsAreUsed, Load
<1>5. OneRequestEach'
  BY <1>1, <1>2 DEF IInv, OneRequestEach, AtDispatcher, Live
<1> QED BY <1>1, <1>3, <1>4, <1>5, SameRequests DEF IInv

-----------------------------------------------------------------------------
LEMMA InitIInv == Init => IInv
<1> SUFFICES ASSUME Init PROVE IInv
  OBVIOUS
<1>1. /\ \A r \in Requests : ~Live(r)
      /\ <<>> \in Seq(Requests \cup {Nobody}) /\ DOMAIN <<>> = {}
  BY EmptySeq DEF Init, Live
<1>2. TypeOK
  BY <1>1, HttpTestAssumption DEF Init, TypeOK, Statuses, Closings
<1>3. FramesOK /\ CasesFit /\ CallersFit
  BY <1>1, RequestFacts DEF Init, FramesOK, CasesFit, CallersFit
<1>4. SlotsAreUsed /\ OneRequestEach /\ OwedWait
  BY <1>1, FS_EmptySet, HttpTestAssumption
     DEF Init, SlotsAreUsed, Load, OneRequestEach, Waiting, AtDispatcher, OwedWait
<1>5. Accounts
  BY DEF Init, Accounts, Settled
<1> QED BY <1>2, <1>3, <1>4, <1>5 DEF IInv

LEMMA NextIInv == IInv /\ [Next]_vars => IInv'
<1> SUFFICES ASSUME IInv, [Next]_vars PROVE IInv'
  OBVIOUS
<1>1. ASSUME NEW r \in Requests, HookSteps(r) \/ PipelineSteps(r)
      PROVE  IInv'
  BY <1>1, ReturnsStep, SeedsStep, ThrowsStep, SendStep, SerializeStep
     DEF HookSteps, PipelineSteps
<1>2. ASSUME NEW c \in Cases, CaseSteps(c) \/ HookTimesOut(c)
      PROVE  IInv'
  BY <1>2, StartStep, CheckStep, HookTimesOutStep DEF CaseSteps
<1>3. ASSUME NEW r \in Requests, DispatchTimesOut(r)
      PROVE  IInv'
  <2>1. r \in Waiting /\ Abandon(r) /\ DispatchFails(r)
    BY <1>3 DEF DispatchTimesOut
  <2>2. LeavesDispatcher(r)
    BY <2>1, QueueIsOK, GivenUp DEF LeavesDispatcher
  <2> QED BY <2>1, <2>2, FailStep
<1>4. CASE Dispatcher
  <2>1. ASSUME NEW r \in Requests, Refuse(r)
        PROVE  IInv'
    <3>1. r \in Waiting /\ LeavesDispatcher(r)
      BY <2>1, SlotFreed DEF Refuse, Waiting
    <3> QED BY <2>1, <3>1, FailStep DEF Refuse
  <2> QED BY <1>4, <2>1, AnswerStep, OrphanStep DEF Dispatcher
<1>5. CASE UNCHANGED vars
  <2>1. UNCHANGED <<mode, test, status, kept, step, request, caller, queue, inflight,
                    orphans, closing, owed>>
    BY <1>5 DEF vars, caseVars, requestVars, queueVars, closeVars
  <2>2. Waiting' = Waiting
    BY <2>1 DEF Waiting
  <2>3. TypeOK' /\ SlotsAreUsed'
    BY <2>1 DEF IInv, TypeOK, SlotsAreUsed, Load
  <2>4. OneRequestEach' /\ OwedWait'
    BY <2>1, <2>2 DEF IInv, OneRequestEach, AtDispatcher, Live, OwedWait
  <2> QED BY <2>1, <2>3, <2>4, SameRequests DEF IInv
<1> QED BY <1>1, <1>2, <1>3, <1>4, <1>5, SeedReturnsStep, ClosingStep, RequestFacts
        DEF Next, Timers

(* The inductive invariant holds of every state.                           *)
THEOREM Invariance == Spec => []IInv
BY InitIInv, NextIInv, PTL DEF Spec

(* Every value a variable takes is one the program gives it.               *)
THEOREM TypeCorrect == Spec => []TypeOK
BY Invariance, PTL DEF IInv

(* A hook runs only in a chain that names no transaction twice, however    *)
(* the hooks of the catalog seed each other and however many of their      *)
(* seeds are under way at once.                                            *)
THEOREM NeverReentered == Spec => []NoReentry
<1>1. IInv => NoReentry
  <2> SUFFICES ASSUME IInv, NEW r \in Requests, AtHooks(r)
               PROVE  LET chain == HookChain(request[r])
                      IN  \A i, j \in DOMAIN chain : chain[i] = chain[j] => i = j
    BY DEF NoReentry
  <2>1. request[r] \in Frame /\ FrameOK(request[r]) /\ request[r].stage \in Kinds
    BY RequestProps DEF AtHooks
  <2> DEFINE chain == HookChain(request[r])
  <2>2. chain \in Seq(Transactions) /\ NoRepeat(chain)
    BY <2>1, HookChainProps
  <2> HIDE DEF chain
  <2>3. \A i, j \in DOMAIN chain : chain[i] = chain[j] => i = j
    BY <2>2 DEF NoRepeat
  <2> QED BY <2>3 DEF chain
<1> QED BY <1>1, Invariance, PTL

(* Every chain of seeds ends: it is never longer than there are            *)
(* transactions.                                                           *)
THEOREM Bounded == Spec => []ChainsBounded
<1>1. IInv => ChainsBounded
  <2> SUFFICES ASSUME IInv, NEW r \in Requests, Live(r)
               PROVE  Len(request[r].chain) <= Cardinality(Transactions)
    BY DEF ChainsBounded
  <2> DEFINE s == request[r].chain
             n == Len(s)
             f == [i \in 1..n |-> s[i]]
  <2>1. s \in Seq(Transactions) /\ NoRepeat(s) /\ n \in Nat
    BY RequestProps DEF Frame, FrameOK
  <2> HIDE DEF s
  <2>2. f \in Injection(1..n, Transactions)
    BY <2>1, ElementOfSeq DEF NoRepeat, Injection, IsInjective
  <2> HIDE DEF f
  <2>3. Cardinality(1..n) <= Cardinality(Transactions)
    BY <2>2, HooksAssumption, FS_Injection
  <2>4. Cardinality(1..n) = n
    BY <2>1, FS_Interval
  <2> QED BY <2>1, <2>3, <2>4 DEF s
<1> QED BY <1>1, Invariance, PTL

(* The dispatcher has never more than `concurrency` requests in flight,    *)
(* and none waits while a slot is free, whoever has given up in between.   *)
THEOREM SlotsUsed == Spec => []SlotsAreUsed
BY Invariance, PTL DEF IInv

(* Every request at the dispatcher, of a case or of any of the seeds its   *)
(* hooks have under way, is waited for by the one pipeline that sent it.   *)
THEOREM RequestsAreOwned == Spec => []OneRequestEach
BY Invariance, PTL DEF IInv

(* The dispatcher replies to core.close when all who waited for an answer  *)
(* when it was asked have it, or have given up.                            *)
THEOREM CloseWaits == Spec => []CloseSettlesOwed
<1>1. IInv => CloseSettlesOwed
  BY DEF IInv, OwedWait, CloseSettlesOwed
<1> QED BY <1>1, Invariance, PTL

(* `sampler check` gives every transaction an outcome unless the run ends, *)
(* and an httpTest that resolves has no case under way.                    *)
THEOREM AccountedFor == Spec => []AllAreAccountedFor
<1>1. IInv => AllAreAccountedFor
  BY DEF IInv, Accounts, CasesFit, AllAreAccountedFor, Settled
<1> QED BY <1>1, Invariance, PTL

(* A case has its outcome from its own request, where that can decide it.  *)
OwnEnd(c) ==
  /\ DropRequest(c)
  /\ AtHooks(c) => /\ request[c].stage # "authorize"
                   /\ request[c].recorded # {} => kept'[c]
  /\ AtHooks(c) \/ AtSend(c) \/ AtCheck(c)

(* What can change the outcome of a case finds it without one.             *)
Decides(c) ==
  \/ /\ status[c] = "running" /\ mode' = mode
     /\ \/ BreakCase(c)
        \/ OwnEnd(c) /\ \E s \in {"skipped", "failed", "passed"} : EndCase(c, s)
  \/ SampleFails(c) \/ StartCase(c) \/ RunEnds(c)

Undecided == UNCHANGED <<mode, test, status>>

LEMMA OutcomeSteps ==
  ASSUME IInv, [Next]_vars
  PROVE  Undecided \/ \E c \in Cases : Decides(c)
<1> DEFINE Goal == Undecided \/ \E c \in Cases : Decides(c)
<1>1. ASSUME NEW r \in Requests, HookThrows(r) PROVE Goal
  <2>1. AtHooks(r) /\ Live(r) /\ mode' = mode
    BY <1>1 DEF HookThrows, AtHooks
  <2>2. PICK e \in Errors(request[r]), flag \in FlagsLeft(request[r]) :
          IF Verdict(e) = "none"
          THEN HookIsDefect(r)
          ELSE HookGivesVerdict(r, e) \/ HookVerdictDropped(r, flag)
    BY <1>1 DEF HookThrows
  <2>3. CASE HookIsDefect(r)
    BY <2>1, <2>3, RequestProps DEF HookIsDefect, Decides, Undecided
  <2>4. CASE Verdict(e) # "none" /\ HookGivesVerdict(r, e)
    <3>1. /\ r \in Cases /\ status[r] = "running" /\ DropRequest(r)
          /\ request[r].stage # "authorize"
          /\ kept' = [kept EXCEPT ![r] = @ \/ request[r].recorded # {}]
          /\ EndCase(r, Verdict(e))
      BY <2>1, <2>4, RequestProps DEF HookGivesVerdict, VerdictCounts
    <3>2. request[r].recorded # {} => kept'[r]
      BY <3>1 DEF IInv, TypeOK
    <3>3. Verdict(e) \in {"skipped", "failed", "passed"}
      BY <2>4 DEF Verdict
    <3> QED BY <2>1, <3>1, <3>2, <3>3 DEF Decides, OwnEnd
  <2>5. CASE HookVerdictDropped(r, flag)
    BY <2>1, <2>5 DEF HookVerdictDropped, Undecided
  <2> QED BY <2>2, <2>3, <2>4, <2>5
<1>2. ASSUME NEW r \in Requests, HookReturns(r) \/ HookSeeds(r) \/ Send(r) PROVE Goal
  BY <1>2 DEF HookReturns, HookSeeds, Send, caseVars, Undecided
<1>3. ASSUME NEW r \in Requests, SerializeFails(r) PROVE Goal
  <2>1. /\ AtSend(r) /\ Live(r) /\ ~AtHooks(r) /\ mode' = mode /\ DropRequest(r)
    BY <1>3 DEF SerializeFails, AtSend, AtHooks, Kinds
  <2> QED BY <1>3, <2>1, RequestProps DEF SerializeFails, Decides, OwnEnd, Undecided
<1>4. ASSUME NEW c \in Cases, CaseSteps(c) PROVE Goal
  <2>1. CASE StartCase(c) \/ SampleFails(c) \/ RunEnds(c)
    BY <2>1 DEF Decides
  <2>2. CASE Check(c)
    <3>1. /\ AtCheck(c) /\ ~AtHooks(c) /\ mode' = mode /\ c \in Requests /\ Live(c)
      BY <2>2, RequestFacts DEF Check, AtCheck, AtHooks, Kinds
    <3>2. status[c] = "running"
      BY <3>1, RequestProps
    <3>3. /\ StatusDiffers(c) => OwnEnd(c) /\ EndCase(c, "skipped")
          /\ Passes(c) => OwnEnd(c) /\ EndCase(c, "passed")
          /\ ExpectationDecides(c) =>
               /\ OwnEnd(c)
               /\ EndCase(c, "failed") \/ EndCase(c, "skipped") \/ BreakCase(c)
      BY <3>1 DEF StatusDiffers, Passes, ExpectationDecides, OwnEnd
    <3>4. NobodyListens(c) \/ Replay(c) => Undecided
      BY <3>1 DEF NobodyListens, Replay, Undecided
    <3> QED BY <2>2, <3>1, <3>2, <3>3, <3>4 DEF Check, Decides
  <2> QED BY <1>4, <2>1, <2>2 DEF CaseSteps
<1>5. ASSUME NEW r \in Requests, r \in Waiting, DispatchFails(r) PROVE Goal
  <2>1. Live(r) /\ ~AtHooks(r) /\ mode' = mode
    BY <1>5 DEF IInv, OneRequestEach, AtDispatcher, AtHooks, Kinds, DispatchFails
  <2> QED BY <1>5, <2>1, RequestProps DEF DispatchFails, Decides, Undecided
<1>6. ASSUME NEW r \in Requests, DispatchTimesOut(r) PROVE Goal
  BY <1>5, <1>6 DEF DispatchTimesOut
<1>7. ASSUME NEW c \in Cases, HookTimesOut(c) PROVE Goal
  BY <1>7 DEF HookTimesOut, Decides
<1>8. CASE Dispatcher
  BY <1>5, <1>8 DEF Dispatcher, Answer, Refuse, OrphanAnswered, caseVars, Waiting, Undecided
<1>9. ASSUME NEW s \in SeedIds, SeedReturns(s) PROVE Goal
  BY <1>9 DEF SeedReturns, caseVars, Undecided
<1>10. CASE Closing \/ UNCHANGED vars
  BY <1>10 DEF Closing, AskClose, RepliesToClose, vars, caseVars, Undecided
<1> QED BY <1>1, <1>2, <1>3, <1>4, <1>6, <1>7, <1>8, <1>9, <1>10, RequestFacts
        DEF Next, HookSteps, PipelineSteps, Timers

(* A case is skipped, failed or passed by its own request alone: nothing a *)
(* hook of a seed decides, or its own authorize hook, ends the case; and a *)
(* verdict of its own hooks keeps the results that name an off-spec seed.  *)
THEOREM OwnRequestsDecide == Spec => OwnRequestDecides
<1> DEFINE Own1 ==
      \A c \in Cases :
        status[c] = "running" /\ status'[c] \in Settled \ {"broken"} =>
          /\ \A s \in SeedIds : request'[s] = request[s]
          /\ AtHooks(c) => /\ request[c].stage # "authorize"
                           /\ request[c].recorded # {} => kept'[c]
          /\ AtHooks(c) \/ AtSend(c) \/ AtCheck(c)
<1>1. ASSUME IInv, [Next]_vars PROVE Own1
  <2> SUFFICES ASSUME NEW c \in Cases, status[c] = "running",
                      status'[c] \in Settled \ {"broken"}
               PROVE  OwnEnd(c)
    BY <1>1, RequestFacts DEF OwnEnd, DropRequest, IInv, TypeOK
  <2>1. \E d \in Cases : Decides(d)
    BY <1>1, OutcomeSteps DEF Undecided, Settled
  <2>2. PICK d \in Cases : Decides(d)
    BY <2>1
  <2>3. d = c
    BY <1>1, <2>2 DEF Decides, BreakCase, EndCase, StartCase, SampleFails, RunEnds,
                      IInv, TypeOK, Settled
  <2>4. status'[c] # "broken" /\ status[c] # "idle"
    OBVIOUS
  <2> QED BY <1>1, <2>2, <2>3, <2>4 DEF Decides, BreakCase, StartCase, SampleFails,
             RunEnds, MayStart, IInv, TypeOK
<1>2. IInv /\ [Next]_vars => [Own1]_vars
  BY <1>1
<1> HIDE DEF Own1
<1>3. Spec => [][Own1]_vars
  BY <1>2, Invariance, PTL DEF Spec
<1> QED BY <1>3 DEF OwnRequestDecides, Own1

LEMMA OutcomeStep ==
  ASSUME IInv, [Next]_vars, NEW d \in Cases, status[d] \in Settled
  PROVE  status'[d] = status[d]
<1>1. ASSUME NEW c \in Cases, Decides(c) PROVE status'[d] = status[d]
  BY <1>1 DEF Decides, BreakCase, EndCase, StartCase, SampleFails, RunEnds, MayStart,
              IInv, TypeOK, Settled
<1> QED BY <1>1, OutcomeSteps DEF Undecided

(* The verdict of a hook that outlived the timer of its action, or of any  *)
(* other step, changes nothing of a case that has its outcome.             *)
THEOREM OutcomesStay == Spec => OutcomesAreFinal
<1>1. IInv /\ [Next]_vars =>
        [\A c \in Cases : status[c] \in Settled => status'[c] = status[c]]_vars
  BY OutcomeStep
<1> QED BY <1>1, Invariance, PTL DEF Spec, OutcomesAreFinal

-----------------------------------------------------------------------------
(* A case under way can go on: its own request can, by the timer of its    *)
(* hooks or of the dispatch where it has to wait.                          *)
LEMMA RunningGoesOn ==
  ASSUME IInv, NEW c \in Cases, status[c] = "running", test = "running"
  PROVE  GoesOn(c)
<1>1. Live(c) /\ c \in Requests
  BY RequestFacts DEF IInv, CasesFit
<1>2. request[c].stage \in Kinds \cup {"send", "sent", "answered"}
  BY <1>1, RequestProps DEF Frame, Stages
<1>3. request[c].stage = "sent" => c \in Waiting
  BY <1>1 DEF IInv, OneRequestEach, AtDispatcher
<1> QED BY <1>1, <1>2, <1>3 DEF GoesOn, AtHooks, AtSend, AtCheck

(* Nobody waits for what nobody owes: as long as a test is pending, timers *)
(* and continuations are enough to bring it on.                            *)
THEOREM NobodyStuck == Spec => []NobodyIsStuck
<1>1. ASSUME IInv PROVE NobodyIsStuck
  <2> SUFFICES ASSUME test = "running", NEW c \in Cases, status[c] \notin Settled
               PROVE  \/ GoesOn(c)
                      \/ /\ mode = "check"
                         /\ \E d \in Cases : status[d] = "running" /\ GoesOn(d)
    BY <1>1 DEF NobodyIsStuck, IInv, Accounts
  <2>1. \A d \in Cases : status[d] = "running" => GoesOn(d)
    BY <1>1, RunningGoesOn
  <2>2. status[c] \in {"idle", "running"}
    BY <1>1 DEF IInv, TypeOK, Statuses
  <2>3. status[c] = "idle" =>
          GoesOn(c) \/ (mode = "check" /\ \E d \in Cases : status[d] = "running")
    BY DEF GoesOn, MayStart
  <2> QED BY <2>1, <2>2, <2>3
<1> QED BY <1>1, Invariance, PTL

-----------------------------------------------------------------------------
(* The promise of a test.  Initially nobody has earned anything.           *)
LEMMA TestInitMaps == Init => TP!TestInit
<1> SUFFICES ASSUME Init PROVE TP!TestInit
  OBVIOUS
<1>1. mode \in {"rule", "check"}
  BY HttpTestAssumption DEF Init
<1>2. {c \in Cases : status[c] = "running"} = {}
  BY DEF Init
<1>3. [c \in Cases |-> OutcomeOf(c)] = [c \in Cases |-> "none"]
  BY DEF Init, OutcomeOf, Settled
<1> QED BY <1>1, <1>2, <1>3 DEF Init, TP!TestInit

(* The variables of the promise, as the test has them.                     *)
Active == {c \in Cases : status[c] = "running"}

Earned == [c \in Cases |-> OutcomeOf(c)]

LEMMA UndecidedMaps ==
  ASSUME IInv
  PROVE  /\ TP!Undecided = {c \in Cases : status[c] \in {"idle", "running"}}
         /\ TP!Undecided \ Active = {c \in Cases : status[c] = "idle"}
         /\ \A c \in Cases : status[c] \in {"idle", "running"} =>
              (TP!Undecided = {c} <=> LastOf(c))
<1>1. \A c \in Cases : OutcomeOf(c) = "none" <=> status[c] \in {"idle", "running"}
  BY DEF IInv, TypeOK, Statuses, OutcomeOf, Settled
<1>2. TP!Undecided = {c \in Cases : status[c] \in {"idle", "running"}}
  BY <1>1 DEF TP!Undecided
<1>3. \A c \in Cases : status[c] \in {"idle", "running"} <=> status[c] \notin Settled
  BY DEF IInv, TypeOK, Statuses, Settled
<1> QED BY <1>2, <1>3 DEF Active, LastOf

LEMMA EarnMaps ==
  ASSUME IInv, NEW c \in Cases, status[c] \in {"idle", "running"}, mode' = mode,
         NEW s \in Settled, status' = [status EXCEPT ![c] = s]
  PROVE  TP!Earn(c, s)
<1>1. Active' = Active \ {c}
  BY DEF Active, IInv, TypeOK, Settled
<1>2. Earned' = [Earned EXCEPT ![c] = s]
  BY DEF Earned, OutcomeOf, IInv, TypeOK
<1>3. c \in TP!Undecided
  BY UndecidedMaps
<1> QED BY <1>1, <1>2, <1>3 DEF TP!Earn, Active, Earned

(* Each step of the test is a step of its promise, or leaves it alone.     *)
LEMMA TestStepMaps ==
  ASSUME IInv, [Next]_vars
  PROVE  [TP!TestNext]_TP!testVars
<1>0. /\ status \in [Cases -> Statuses] /\ mode \in {"rule", "check"}
      /\ test \in {"running", "resolved", "rejected", "ended"}
  BY DEF IInv, TypeOK
<1>1. CASE Undecided
  BY <1>1 DEF Undecided, TP!testVars, OutcomeOf
<1>2. ASSUME NEW c \in Cases, status[c] = "running", mode' = mode,
             NEW s \in {"skipped", "failed", "passed"}, EndCase(c, s)
      PROVE  TP!Finish(c)
  <2>1. TP!Earn(c, s)
    BY <1>2, EarnMaps DEF EndCase, Settled
  <2>2. s \in Settled \ {"broken"} /\ c \in Active
    BY <1>2 DEF Settled, Active
  <2>3. TP!Undecided = {c} <=> LastOf(c)
    BY <1>2, UndecidedMaps
  <2>4. test' = IF test = "running" /\ LastOf(c) THEN "resolved" ELSE test
    BY <1>2 DEF EndCase, Completed
  <2>5. (IF test' = "running" THEN "pending" ELSE test') = TP!Resolution(c)
    BY <1>0, <2>3, <2>4 DEF TP!Resolution
  <2> QED BY <2>1, <2>2, <2>5 DEF TP!Finish, Active
<1>3. ASSUME NEW c \in Cases, status[c] \in {"idle", "running"}, mode' = mode, BreakCase(c),
             status[c] = "idle" => MayStart(c)
      PROVE  TP!Break(c)
  <2>1. TP!Earn(c, "broken")
    BY <1>3, EarnMaps DEF BreakCase, Settled
  <2>2. c \in Active \/ (test = "running" /\ (mode = "check" => Active = {}))
    BY <1>3 DEF Active, MayStart
  <2>3. TP!Undecided = {c} <=> LastOf(c)
    BY <1>3, UndecidedMaps
  <2>4. (IF test' = "running" THEN "pending" ELSE test') =
          IF mode = "check" THEN TP!Resolution(c)
          ELSE IF test = "running" THEN "rejected"
          ELSE IF test = "running" THEN "pending" ELSE test
    BY <1>0, <1>3, <2>3 DEF BreakCase, ErrorLeaves, Completed, TP!Resolution
  <2>5. (IF test = "running" THEN "pending" ELSE test) = "pending" <=> test = "running"
    BY <1>0
  <2> QED BY <2>1, <2>2, <2>4, <2>5 DEF TP!Break, Active
<1>4. ASSUME NEW c \in Cases, StartCase(c)
      PROVE  TP!Begin(c)
  <2>1. /\ test = "running" /\ status[c] = "idle" /\ UNCHANGED <<mode, test>>
        /\ mode = "check" => Active = {}
        /\ status' = [status EXCEPT ![c] = "running"]
    BY <1>4 DEF StartCase, MayStart, Active
  <2>2. Active' = Active \cup {c}
    BY <1>0, <2>1 DEF Active
  <2>3. Earned' = Earned
    BY <1>0, <2>1 DEF Earned, OutcomeOf, Settled
  <2>4. c \in TP!Undecided \ Active
    BY <2>1, UndecidedMaps
  <2> QED BY <2>1, <2>2, <2>3, <2>4 DEF TP!Begin, Active, Earned
<1>5. ASSUME NEW c \in Cases, RunEnds(c)
      PROVE  TP!RunStops(c)
  <2>1. /\ test = "running" /\ status[c] = "idle" /\ mode = "check" /\ mode' = mode
        /\ Active = {} /\ test' = "ended"
        /\ status' = [status EXCEPT ![c] = "broken"]
    BY <1>5 DEF RunEnds, MayStart, Active
  <2>2. TP!Earn(c, "broken")
    BY <2>1, EarnMaps DEF Settled
  <2> QED BY <2>1, <2>2 DEF TP!RunStops, Active
<1>6. ASSUME NEW c \in Cases, SampleFails(c)
      PROVE  TP!Break(c)
  BY <1>3, <1>6 DEF SampleFails, MayStart
<1> QED BY <1>1, <1>2, <1>3, <1>4, <1>5, <1>6, OutcomeSteps DEF Decides, TP!TestNext

(* However hooks, server, timers and queue interleave, the caller of a     *)
(* test sees each case earn one outcome, and the promise settle once, with *)
(* the last of them or with the first of a rule's that breaks.             *)
THEOREM TestPromiseKept == Spec => ImplementsTestPromise
BY TestInitMaps, TestStepMaps, Invariance, PTL DEF Spec, ImplementsTestPromise, TP!TestSpec
=============================================================================
