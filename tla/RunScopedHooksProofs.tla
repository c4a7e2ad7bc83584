------------------------ MODULE RunScopedHooksProofs ------------------------
(***************************************************************************)
(* Proofs about RunScopedHooks, for any requests, closes and hook lists.   *)
(***************************************************************************)
EXTENDS RunScopedHooks, WellFoundedInduction, TLAPS

(* How far the setup got, as its callbacks tell.                           *)
SetupProgress ==
  /\ setup = "off" => at = 0 /\ trace = <<>>
  /\ \A i \in DOMAIN trace :
       trace[i].did # "teardown" => trace[i].hook \in BeforeAll /\ trace[i].hook <= at
  /\ setup = "running" => \A h \in BeforeAll : h <= at => ReturnedFrom(h)
  /\ setup = "resolved" => \A h \in BeforeAll : ReturnedFrom(h)

(* Who may be where while the setup is off, running or settled.            *)
Latched ==
  /\ \A r \in Requests : request[r] = "sent" => setup = "resolved"
  /\ setup # "off" => \E r \in Requests : request[r] # "idle"
  /\ \A k \in Closes :
       /\ closing[k] \in {"waiting", "running", "finished"} => setup # "off"
       /\ closing[k] \in {"running", "finished"} => setup # "running" /\ teardown = {}
       /\ items[k] # {} => closing[k] = "running"

(* Teardown happens in one close, and what is left of it comes earlier in  *)
(* the list than whatever has run.                                         *)
Remaining ==
  /\ \A j, k \in Closes : items[j] # {} /\ items[k] # {} => j = k
  /\ \A i \in DOMAIN trace : trace[i].did = "teardown" =>
       /\ \E k \in Closes : closing[k] \in {"running", "finished"}
       /\ \A k \in Closes : \A h \in items[k] : h < trace[i].hook

(* Every item owed is accounted for.                                       *)
Accounted ==
  \A h \in Sequences :
    Owed(h) => RanTeardown(h) \/ h \in teardown \/ \E k \in Closes : h \in items[k]

(* The inductive invariant.                                                *)
IInv == TypeOK /\ SetupProgress /\ Latched /\ Remaining /\ Accounted /\ Unwinds
-----------------------------------------------------------------------------
LEMMA HooksType ==
  ASSUME TypeOK
  PROVE  /\ hooks \in Seq({"beforeAll", "afterAll"})
         /\ Sequences = 1 .. Len(hooks)
         /\ Sequences \subseteq Nat \ {0}
         /\ at \in Nat
<1>1. hooks \in Seq({"beforeAll", "afterAll"})
  <2>1. <<>> \in Seq({"beforeAll", "afterAll"})
    OBVIOUS
  <2>2. hooks \in HookLists \/ hooks = <<>>
    BY DEF TypeOK
  <2> QED BY <2>1, <2>2, HookListsAssumption
<1> QED BY <1>1 DEF Sequences, TypeOK

LEMMA InitIInv == Init => IInv
<1> SUFFICES ASSUME Init PROVE IInv
  OBVIOUS
<1>1. TypeOK
  <2>1. trace \in Seq(Callbacks)
    BY DEF Init
  <2>2. items \in [Closes -> SUBSET Sequences]
    BY DEF Init
  <2>3. at \in Sequences \cup {0} /\ loads \in Nat /\ teardown \subseteq Sequences
    BY DEF Init
  <2> QED BY <2>1, <2>2, <2>3 DEF Init, TypeOK
<1>2. Sequences = {} /\ DOMAIN trace = {}
  BY DEF Init, Sequences
<1>3. SetupProgress /\ Latched /\ Remaining /\ Accounted /\ Unwinds
  BY <1>2 DEF Init, SetupProgress, Latched, Remaining, Accounted, Unwinds
<1> QED BY <1>1, <1>3 DEF IInv

(* A callback that runs becomes the last of the trace.                     *)
LEMMA Appended ==
  ASSUME TypeOK, NEW e \in Callbacks, trace' = Append(trace, e)
  PROVE  /\ trace' \in Seq(Callbacks)
         /\ Len(trace) \in Nat
         /\ DOMAIN trace = 1 .. Len(trace)
         /\ DOMAIN trace' = 1 .. Len(trace) + 1
         /\ trace'[Len(trace) + 1] = e
         /\ \A i \in DOMAIN trace : i \in DOMAIN trace' /\ trace'[i] = trace[i]
BY DEF TypeOK

(* A load starts over.                                                     *)
LEMMA LoadStep == IInv /\ Load => IInv'
<1> SUFFICES ASSUME IInv, Load PROVE IInv'
  OBVIOUS
<1>1. hooks' \in Seq({"beforeAll", "afterAll"})
  BY HookListsAssumption DEF Load
<1>2. trace' = <<>> /\ DOMAIN trace' = {}
  BY DEF Load
<1>3. TypeOK'
  <2>1. trace' \in Seq(Callbacks')
    BY <1>2
  <2>2. teardown' \subseteq Sequences'
    BY DEF Load, FreshTeardown, AfterAllOf, Sequences
  <2>3. loads' \in Nat
    BY DEF Load, IInv, TypeOK
  <2>4. items' \in [Closes -> SUBSET Sequences']
    BY DEF Load
  <2> QED BY <2>1, <2>2, <2>3, <2>4 DEF Load, TypeOK
<1>4. SetupProgress' /\ Remaining' /\ Unwinds'
  BY <1>2 DEF Load, SetupProgress, Remaining, Unwinds
<1>5. Latched'
  BY DEF Load, Latched
<1>6. Accounted'
  BY <1>2 DEF Load, Accounted, Owed, FreshTeardown, AfterAllOf, Sequences
<1> QED BY <1>3, <1>4, <1>5, <1>6 DEF IInv

(* The steps that run no callback.                                         *)
LEMMA QuietStep ==
  ASSUME IInv, UNCHANGED <<hooks, trace>>,
         \/ \E r \in Requests : BeforeRequest(r) \/ Proceed(r)
         \/ \E k \in Closes : Close(k) \/ Splice(k) \/ Finish(k)
  PROVE  IInv'
<1> USE HooksType DEF IInv
<1>0. UNCHANGED <<Sequences, BeforeAll, Callbacks>>
  BY DEF Sequences, BeforeAll, Callbacks
<1>1. /\ \A h : RanTeardown(h)' = RanTeardown(h) /\ ReturnedFrom(h)' = ReturnedFrom(h)
      /\ \A h : Owed(h)' = Owed(h)
  BY DEF RanTeardown, ReturnedFrom, Owed
<1>2. Unwinds'
  BY DEF Unwinds
<1>3. ASSUME NEW r \in Requests, BeforeRequest(r) PROVE IInv'
  <2>1. CASE setup = "off"
    <3>1. setup' = SetupAfter(0) /\ at' = 0 /\ DOMAIN trace = {}
      BY <1>3, <2>1 DEF BeforeRequest, Start, SetupProgress
    <3>2. setup' \in {"running", "resolved"} /\ (setup' = "resolved" => BeforeAll = {})
      BY <3>1 DEF SetupAfter, BeforeAll
    <3>3. SetupProgress'
      BY <1>0, <3>1, <3>2 DEF SetupProgress, BeforeAll
    <3>4. Latched'
      BY <1>3, <2>1, <3>2 DEF BeforeRequest, Latched, TypeOK
    <3>5. Remaining' /\ Accounted'
      BY <1>0, <1>1, <1>3 DEF BeforeRequest, Remaining, Accounted
    <3>6. TypeOK'
      BY <1>0, <1>3, <3>1, <3>2 DEF BeforeRequest, TypeOK
    <3> QED BY <1>2, <3>3, <3>4, <3>5, <3>6
  <2>2. CASE setup # "off"
    <3>1. UNCHANGED <<setup, at>>
      BY <1>3, <2>2 DEF BeforeRequest, Start
    <3>2. SetupProgress'
      BY <1>0, <1>1, <3>1 DEF SetupProgress
    <3>3. Latched'
      BY <1>3, <3>1 DEF BeforeRequest, Latched, TypeOK
    <3>4. Remaining' /\ Accounted'
      BY <1>0, <1>1, <1>3 DEF BeforeRequest, Remaining, Accounted
    <3>5. TypeOK'
      BY <1>0, <1>3, <3>1 DEF BeforeRequest, TypeOK
    <3> QED BY <1>2, <3>2, <3>3, <3>4, <3>5
  <2> QED BY <2>1, <2>2
<1>4. ASSUME NEW r \in Requests, Proceed(r) PROVE IInv'
  <2>1. SetupProgress' /\ Remaining' /\ Accounted'
    BY <1>0, <1>1, <1>4 DEF Proceed, SetupProgress, Remaining, Accounted
  <2>2. Latched'
    BY <1>4 DEF Proceed, Latched, TypeOK
  <2>3. TypeOK'
    BY <1>0, <1>4 DEF Proceed, TypeOK
  <2> QED BY <1>2, <2>1, <2>2, <2>3
<1>5. ASSUME NEW k \in Closes, Close(k) PROVE IInv'
  <2>1. SetupProgress' /\ Accounted'
    BY <1>0, <1>1, <1>5 DEF Close, SetupProgress, Accounted
  <2>2. Latched' /\ Remaining'
    BY <1>5 DEF Close, Latched, Remaining, TypeOK
  <2>3. TypeOK'
    BY <1>0, <1>5 DEF Close, TypeOK
  <2> QED BY <1>2, <2>1, <2>2, <2>3
<1>6. ASSUME NEW k \in Closes, Splice(k) PROVE IInv'
  <2>0. items' = [items EXCEPT ![k] = teardown] /\ items[k] = {} /\ teardown' = {}
    BY <1>6 DEF Splice, Latched
  <2>1. SetupProgress'
    BY <1>0, <1>1, <1>6 DEF Splice, SetupProgress
  <2>2. Latched'
    BY <1>6, <2>0 DEF Splice, Latched, TypeOK
  <2>3. teardown # {} => \A j \in Closes : items[j] = {}
    BY DEF Latched
  <2>4. Remaining'
    <3>1. ASSUME NEW i \in DOMAIN trace, trace[i].did = "teardown" PROVE teardown = {}
      BY <3>1 DEF Remaining, Latched
    <3> QED BY <1>6, <2>0, <2>3, <3>1 DEF Splice, Remaining, TypeOK
  <2>5. Accounted'
    BY <1>0, <1>1, <2>0, <2>3 DEF Accounted, TypeOK
  <2>6. TypeOK'
    BY <1>0, <1>6, <2>0 DEF Splice, TypeOK
  <2> QED BY <1>2, <2>1, <2>2, <2>4, <2>5, <2>6
<1>7. ASSUME NEW k \in Closes, Finish(k) PROVE IInv'
  <2>1. SetupProgress' /\ Accounted'
    BY <1>0, <1>1, <1>7 DEF Finish, SetupProgress, Accounted
  <2>2. Latched' /\ Remaining'
    BY <1>7 DEF Finish, Latched, Remaining, TypeOK
  <2>3. TypeOK'
    BY <1>0, <1>7 DEF Finish, TypeOK
  <2> QED BY <1>2, <2>1, <2>2, <2>3
<1> QED BY <1>3, <1>4, <1>5, <1>6, <1>7

(* A beforeAll that ran is the last of the setup callbacks.                *)
LEMMA SetupStep ==
  ASSUME IInv, setup = "running", NEW h \in Sequences, NextBeforeAll(h),
         NEW left \in {"cleanup", "nothing", "threw"},
         at' = h,
         setup' = IF left = "threw" THEN "rejected" ELSE SetupAfter(h),
         teardown' = IF left = "cleanup" THEN teardown \cup {h} ELSE teardown,
         trace' = Append(trace, SetUp(h, left)),
         UNCHANGED <<hooks, request, closing, items, loads>>
  PROVE  IInv'
<1> USE HooksType DEF IInv
<1> DEFINE e == SetUp(h, left)
           last == Len(trace) + 1
<1>0. UNCHANGED <<Sequences, BeforeAll, Callbacks>>
  BY DEF Sequences, BeforeAll, Callbacks
<1>1. e \in Callbacks /\ e.hook = h /\ e.did = left
  BY DEF SetUp, Callbacks
<1>2. /\ trace' \in Seq(Callbacks)
      /\ Len(trace) \in Nat
      /\ DOMAIN trace = 1 .. Len(trace)
      /\ DOMAIN trace' = 1 .. last
      /\ trace'[last] = e
      /\ \A i \in DOMAIN trace : i \in DOMAIN trace' /\ trace'[i] = trace[i]
  BY <1>1, Appended
<1>3. h \in BeforeAll /\ h > at /\ (\A i \in BeforeAll : i > at => h <= i)
  BY DEF NextBeforeAll
<1>4. setup' \in {"running", "resolved", "rejected"}
  BY DEF SetupAfter
<1>5. \A i \in DOMAIN trace : trace[i].did # "teardown" /\ trace[i].hook < h
  <2>1. \A i \in DOMAIN trace : trace[i].did # "teardown"
    BY DEF Remaining, Latched
  <2>2. \A i \in DOMAIN trace : trace[i].hook <= at /\ trace[i].hook \in Nat
    BY <2>1 DEF SetupProgress, BeforeAll
  <2> QED BY <1>3, <2>1, <2>2
<1>6. TypeOK'
  BY <1>0, <1>2, <1>4 DEF TypeOK
<1>7. \A g : ReturnedFrom(g) => ReturnedFrom(g)'
  BY <1>2 DEF ReturnedFrom
<1>8. SetupProgress'
  <2>1. left # "threw" => ReturnedFrom(h)'
    <3>1. left # "threw" => trace'[last] \in {SetUp(h, "cleanup"), SetUp(h, "nothing")}
      BY <1>2
    <3>2. last \in DOMAIN trace'
      BY <1>2
    <3> QED BY <3>1, <3>2 DEF ReturnedFrom
  <2>2. left # "threw" => \A g \in BeforeAll : g <= h => ReturnedFrom(g)'
    <3>1. \A g \in BeforeAll : g <= h => g <= at \/ g = h
      BY <1>3 DEF BeforeAll
    <3> QED BY <1>7, <2>1, <3>1 DEF SetupProgress
  <2>3. setup' = "running" => left # "threw"
    OBVIOUS
  <2>4. setup' = "resolved" => left # "threw" /\ \A g \in BeforeAll : g <= h
    BY DEF SetupAfter, BeforeAll
  <2>5. \A i \in DOMAIN trace' :
          trace'[i].did # "teardown" => trace'[i].hook \in BeforeAll /\ trace'[i].hook <= h
    <3>1. ASSUME NEW i \in DOMAIN trace', trace'[i].did # "teardown"
          PROVE  trace'[i].hook \in BeforeAll /\ trace'[i].hook <= h
      <4>1. CASE i = last
        BY <1>1, <1>2, <1>3, <4>1
      <4>2. CASE i # last
        <5>1. i \in DOMAIN trace /\ trace'[i] = trace[i]
          BY <1>2, <4>2
        <5> QED BY <1>3, <1>5, <3>1, <5>1 DEF SetupProgress, BeforeAll
      <4> QED BY <4>1, <4>2
    <3> QED BY <3>1
  <2> QED BY <1>0, <1>4, <2>2, <2>3, <2>4, <2>5 DEF SetupProgress
<1>9. \A k \in Closes : items[k] = {}
  BY DEF Latched
<1>10. Latched'
  BY <1>4, <1>9 DEF Latched
<1>11. Remaining'
  <2>1. \A i \in DOMAIN trace' : trace'[i].did # "teardown"
    BY <1>1, <1>2, <1>5
  <2> QED BY <1>9, <2>1 DEF Remaining
<1>12. Accounted'
  <2> SUFFICES ASSUME NEW g \in Sequences, Owed(g)'
               PROVE  RanTeardown(g)' \/ g \in teardown' \/ \E k \in Closes : g \in items'[k]
    BY <1>0 DEF Accounted
  <2>1. RanTeardown(g) => RanTeardown(g)'
    BY <1>2 DEF RanTeardown
  <2>2. CASE Owed(g)
    BY <2>1, <2>2 DEF Accounted
  <2>3. CASE ~Owed(g)
    <3>1. PICK i \in DOMAIN trace' : trace'[i] = SetUp(g, "cleanup")
      BY <2>3 DEF Owed
    <3>2. i = last
      BY <1>2, <2>3, <3>1 DEF Owed
    <3>3. g = h /\ left = "cleanup"
      BY <1>1, <1>2, <3>1, <3>2 DEF SetUp
    <3> QED BY <3>3
  <2> QED BY <2>2, <2>3
<1>13. Unwinds'
  <2> SUFFICES ASSUME NEW i \in DOMAIN trace', NEW j \in DOMAIN trace', i < j
               PROVE  /\ trace'[i].did # "teardown"
                      /\ trace'[j].did = "teardown" \/ trace'[i].hook < trace'[j].hook
    BY DEF Unwinds
  <2>1. i \in DOMAIN trace /\ trace'[i] = trace[i]
    BY <1>2
  <2>2. CASE j = last
    BY <1>1, <1>2, <1>5, <2>1, <2>2
  <2>3. CASE j # last
    <3>1. j \in DOMAIN trace /\ trace'[j] = trace[j]
      BY <1>2, <2>3
    <3> QED BY <1>5, <2>1, <3>1 DEF Unwinds
  <2> QED BY <2>2, <2>3
<1> QED BY <1>6, <1>8, <1>10, <1>11, <1>12, <1>13

(* A teardown item that ran comes earlier in the list than all before it.  *)
LEMMA TeardownStep ==
  ASSUME IInv, NEW k \in Closes, RunItem(k)
  PROVE  IInv'
<1> USE HooksType DEF IInv
<1>0. UNCHANGED <<hooks, Sequences, BeforeAll, Callbacks>>
  BY DEF RunItem, Sequences, BeforeAll, Callbacks
<1>1. PICK h \in items[k] :
        /\ \A i \in items[k] : i <= h
        /\ items' = [items EXCEPT ![k] = @ \ {h}]
        /\ trace' = Append(trace, TornDown(h))
  BY DEF RunItem
<1> DEFINE e == TornDown(h)
           last == Len(trace) + 1
<1>2. h \in Sequences /\ items[k] \subseteq Sequences
  BY <1>1 DEF TypeOK
<1>3. e \in Callbacks /\ e.hook = h /\ e.did = "teardown"
  BY <1>2 DEF TornDown, Callbacks
<1>4. /\ trace' \in Seq(Callbacks)
      /\ Len(trace) \in Nat
      /\ DOMAIN trace = 1 .. Len(trace)
      /\ DOMAIN trace' = 1 .. last
      /\ trace'[last] = e
      /\ \A i \in DOMAIN trace : i \in DOMAIN trace' /\ trace'[i] = trace[i]
  BY <1>1, <1>3, Appended
<1>5. /\ UNCHANGED <<setup, at, teardown, request, closing, loads>>
      /\ closing[k] = "running"
  BY DEF RunItem
<1>6. /\ items'[k] = items[k] \ {h}
      /\ \A j \in Closes : j # k => items'[j] = items[j] /\ items[j] = {}
  BY <1>1, <1>2 DEF Remaining, TypeOK
<1>7. TypeOK'
  <2>1. items' \in [Closes -> SUBSET Sequences]
    BY <1>1, <1>2 DEF TypeOK
  <2> QED BY <1>0, <1>4, <1>5, <2>1 DEF TypeOK
<1>8. \A g : /\ ReturnedFrom(g) => ReturnedFrom(g)'
             /\ RanTeardown(g) => RanTeardown(g)'
  BY <1>4 DEF ReturnedFrom, RanTeardown
<1>9. RanTeardown(h)'
  <2>1. last \in DOMAIN trace' /\ trace'[last] = TornDown(h)
    BY <1>4
  <2> QED BY <2>1 DEF RanTeardown
<1>10. setup \notin {"off", "running"} /\ teardown = {}
  BY <1>5 DEF Latched
<1>11. SetupProgress'
  <2>1. \A i \in DOMAIN trace' :
          trace'[i].did # "teardown" => trace'[i].hook \in BeforeAll /\ trace'[i].hook <= at
    BY <1>3, <1>4 DEF SetupProgress
  <2> QED BY <1>0, <1>5, <1>8, <1>10, <2>1 DEF SetupProgress
<1>12. Latched'
  BY <1>5, <1>6 DEF Latched
<1>13. Remaining'
  <2>1. \A i, j \in Closes : items'[i] # {} /\ items'[j] # {} => i = j
    BY <1>6
  <2>2. ASSUME NEW i \in DOMAIN trace', trace'[i].did = "teardown",
               NEW j \in Closes, NEW g \in items'[j]
        PROVE  g < trace'[i].hook
    <3>1. j = k /\ g \in items[k] /\ g # h
      BY <1>6
    <3>2. g < h
      BY <1>1, <1>2, <3>1
    <3>3. CASE i = last
      BY <1>3, <1>4, <3>2, <3>3
    <3>4. CASE i # last
      <4>1. i \in DOMAIN trace /\ trace'[i] = trace[i]
        BY <1>4, <3>4
      <4> QED BY <2>2, <3>1, <4>1 DEF Remaining
    <3> QED BY <3>3, <3>4
  <2>3. \E j \in Closes : closing'[j] \in {"running", "finished"}
    BY <1>5
  <2> QED BY <2>1, <2>2, <2>3 DEF Remaining
<1>14. Accounted'
  <2> SUFFICES ASSUME NEW g \in Sequences, Owed(g)'
               PROVE  RanTeardown(g)' \/ g \in teardown' \/ \E j \in Closes : g \in items'[j]
    BY <1>0 DEF Accounted
  <2>1. Owed(g)
    <3>1. ASSUME NEW i \in DOMAIN trace', trace'[i] = SetUp(g, "cleanup")
          PROVE  i \in DOMAIN trace /\ trace[i] = SetUp(g, "cleanup")
      <4>1. i # last
        BY <1>3, <1>4, <3>1 DEF SetUp
      <4> QED BY <1>4, <3>1, <4>1
    <3> QED BY <1>0, <3>1 DEF Owed
  <2>2. RanTeardown(g) \/ \E j \in Closes : g \in items[j]
    BY <1>10, <2>1 DEF Accounted
  <2>3. CASE RanTeardown(g)
    BY <1>8, <2>3
  <2>4. CASE g = h
    BY <1>9, <2>4
  <2>5. CASE g # h /\ \E j \in Closes : g \in items[j]
    <3>1. PICK j \in Closes : g \in items[j]
      BY <2>5
    <3>2. g \in items'[j]
      BY <1>6, <2>5, <3>1
    <3> QED BY <3>2
  <2> QED BY <2>2, <2>3, <2>4, <2>5
<1>15. Unwinds'
  <2> SUFFICES ASSUME NEW i \in DOMAIN trace', NEW j \in DOMAIN trace', i < j
               PROVE  IF trace'[i].did = "teardown"
                      THEN trace'[j].did = "teardown" /\ trace'[j].hook < trace'[i].hook
                      ELSE trace'[j].did = "teardown" \/ trace'[i].hook < trace'[j].hook
    BY DEF Unwinds
  <2>1. i \in DOMAIN trace /\ trace'[i] = trace[i]
    BY <1>4
  <2>2. CASE j = last
    <3>1. trace[i].did = "teardown" => h < trace[i].hook
      BY <1>1, <2>1 DEF Remaining
    <3> QED BY <1>3, <1>4, <2>1, <2>2, <3>1
  <2>3. CASE j # last
    <3>1. j \in DOMAIN trace /\ trace'[j] = trace[j]
      BY <1>4, <2>3
    <3> QED BY <2>1, <3>1 DEF Unwinds
  <2> QED BY <2>2, <2>3
<1> QED BY <1>7, <1>11, <1>12, <1>13, <1>14, <1>15

LEMMA StepIInv == IInv /\ [Next]_vars => IInv'
<1> SUFFICES ASSUME IInv, [Next]_vars PROVE IInv'
  OBVIOUS
<1>1. CASE Load
  BY <1>1, LoadStep
<1>2. CASE \E r \in Requests : BeforeRequest(r) \/ Proceed(r)
  <2>1. UNCHANGED <<hooks, trace>>
    BY <1>2 DEF BeforeRequest, Proceed
  <2> QED BY <1>2, <2>1, QuietStep
<1>3. CASE BeforeAllThrows
  <2>1. PICK h \in Sequences :
          NextBeforeAll(h) /\ at' = h /\ setup' = "rejected"
          /\ trace' = Append(trace, SetUp(h, "threw"))
    BY <1>3 DEF BeforeAllThrows
  <2>2. setup = "running" /\ UNCHANGED <<hooks, teardown, request, closing, items, loads>>
    BY <1>3 DEF BeforeAllThrows
  <2> QED BY <2>1, <2>2, SetupStep
<1>4. CASE \E left \in {"cleanup", "nothing"} : BeforeAllReturns(left)
  <2>1. PICK left \in {"cleanup", "nothing"} : BeforeAllReturns(left)
    BY <1>4
  <2>2. PICK h \in Sequences :
          /\ NextBeforeAll(h) /\ at' = h /\ setup' = SetupAfter(h)
          /\ teardown' = IF left = "cleanup" THEN teardown \cup {h} ELSE teardown
          /\ trace' = Append(trace, SetUp(h, left))
    BY <2>1 DEF BeforeAllReturns
  <2>3. setup = "running" /\ UNCHANGED <<hooks, request, closing, items, loads>>
    BY <2>1 DEF BeforeAllReturns
  <2>4. left # "threw"
    OBVIOUS
  <2> QED BY <2>2, <2>3, <2>4, SetupStep
<1>5. CASE \E k \in Closes : Close(k) \/ Splice(k) \/ Finish(k)
  <2>1. UNCHANGED <<hooks, trace>>
    BY <1>5 DEF Close, Splice, Finish
  <2> QED BY <1>5, <2>1, QuietStep
<1>6. CASE \E k \in Closes : RunItem(k)
  BY <1>6, TeardownStep
<1>7. CASE UNCHANGED vars
  <2> USE <1>7 DEF vars
  <2>1. TypeOK' /\ SetupProgress'
    BY DEF IInv, TypeOK, SetupProgress, Sequences, Callbacks, BeforeAll, ReturnedFrom
  <2>2. Latched' /\ Remaining' /\ Unwinds'
    BY DEF IInv, Latched, Remaining, Unwinds
  <2>3. Accounted'
    BY DEF IInv, Accounted, Sequences, Owed, RanTeardown
  <2> QED BY <2>1, <2>2, <2>3 DEF IInv
<1> QED BY <1>1, <1>2, <1>3, <1>4, <1>5, <1>6, <1>7 DEF Next

LEMMA Invariance == Spec => []IInv
BY InitIInv, StepIInv, PTL DEF Spec
-----------------------------------------------------------------------------
(* The types of the hooks' state are respected.                            *)
THEOREM TypeCorrect == Spec => []TypeOK
<1>1. IInv => TypeOK
  BY DEF IInv
<1> QED BY <1>1, Invariance, PTL

(* No request is sent before every beforeAll has returned.                 *)
THEOREM SetupFirst == Spec => []NoRequestBeforeSetup
<1>1. IInv => NoRequestBeforeSetup
  BY DEF IInv, Latched, SetupProgress, NoRequestBeforeSetup
<1> QED BY <1>1, Invariance, PTL

(* The callbacks of a run unwind, each of them called once.                *)
THEOREM Unwinding == Spec => []Unwinds
<1>1. IInv => Unwinds
  BY DEF IInv
<1> QED BY <1>1, Invariance, PTL

(* A close that finished leaves no teardown owed behind.                   *)
THEOREM NothingIsStranded == Spec => []NothingStranded
<1>1. IInv => NothingStranded
  BY DEF IInv, Accounted, Latched, NothingStranded
<1> QED BY <1>1, Invariance, PTL

(* No teardown runs in a load no request ever touched.                     *)
THEOREM LatchedTeardown == Spec => []TeardownIsLatched
<1>1. IInv => TeardownIsLatched
  <2> SUFFICES ASSUME IInv, NEW h \in Sequences, RanTeardown(h)
               PROVE  \E r \in Requests : request[r] # "idle"
    BY DEF TeardownIsLatched
  <2>1. PICK i \in DOMAIN trace : trace[i] = TornDown(h)
    BY DEF RanTeardown
  <2>2. trace # <<>>
    BY <2>1
  <2> QED BY <2>2 DEF IInv, SetupProgress, Latched, TypeOK
<1> QED BY <1>1, Invariance, PTL

-----------------------------------------------------------------------------
(* What liveness rests on: the latch.  Whoever waits for the setup waits   *)
(* for one that was started; a setup that runs has a next hook to run, and *)
(* a close has a next item to run as long as it has any.  So only a hook   *)
(* that never returns can hang a request or a close.                       *)
NextItem(k, h) == h \in items[k] /\ \A i \in items[k] : i <= h

NobodyWaitsInVain ==
  /\ \A r \in Requests : request[r] = "waiting" => setup # "off"
  /\ \A k \in Closes : closing[k] = "waiting" => setup # "off"
  /\ setup = "running" => \E h \in Sequences : NextBeforeAll(h)
  /\ \A k \in Closes : items[k] # {} => closing[k] = "running" /\ \E h \in Sequences : NextItem(k, h)

(* The part of it that is not in IInv.                                     *)
HooksLeft ==
  /\ \A r \in Requests : request[r] = "waiting" => setup # "off"
  /\ setup = "running" => \E i \in BeforeAll : i > at

LEMMA Smallest ==
  ASSUME NEW S \in SUBSET Nat, S # {}
  PROVE  \E n \in S : \A m \in S : n <= m
<1>1. PICK n \in S : \A m \in S : ~ (<<m, n>> \in OpToRel(<, Nat))
  BY WFMin, NatLessThanWellFounded
<1>2. \A m \in S : ~ (m < n)
  BY <1>1 DEF OpToRel
<1> QED BY <1>2

LEMMA Largest ==
  ASSUME NEW n \in Nat, NEW S \in SUBSET (1 .. n), S # {}
  PROVE  \E h \in S : \A i \in S : i <= h
<1> DEFINE T == {d \in 0 .. n : n - d \in S}
<1>1. T \in SUBSET Nat /\ T # {}
  <2>1. PICK i \in S : TRUE
    OBVIOUS
  <2>2. n - i \in 0 .. n /\ n - (n - i) = i
    BY <2>1
  <2>3. n - i \in T
    BY <2>2
  <2>4. T \subseteq Nat
    OBVIOUS
  <2> QED BY <2>3, <2>4
<1>2. PICK m \in T : \A k \in T : m <= k
  BY <1>1, Smallest
<1>3. ASSUME NEW i \in S PROVE i <= n - m
  <2>1. n - i \in T
    BY <1>3
  <2>2. m <= n - i
    BY <1>2, <2>1
  <2> QED BY <1>2, <2>2
<1> QED BY <1>2, <1>3

LEMMA HooksLeftStep == IInv /\ HooksLeft /\ [Next]_vars => HooksLeft'
<1> SUFFICES ASSUME IInv, HooksLeft, [Next]_vars PROVE HooksLeft'
  OBVIOUS
<1> USE DEF HooksLeft
<1>1. CASE Load
  BY <1>1 DEF Load
<1>2. ASSUME NEW r \in Requests, BeforeRequest(r) PROVE HooksLeft'
  <2>1. setup' # "off" /\ UNCHANGED <<hooks, BeforeAll>>
    BY <1>2 DEF BeforeRequest, Start, SetupAfter, BeforeAll, Sequences
  <2>2. setup' = "running" => \E i \in BeforeAll : i > at'
    BY <1>2 DEF BeforeRequest, Start, SetupAfter
  <2> QED BY <2>1, <2>2
<1>3. CASE \E left \in {"cleanup", "nothing"} : BeforeAllReturns(left)
  BY <1>3 DEF BeforeAllReturns, SetupAfter, BeforeAll, Sequences
<1>4. CASE BeforeAllThrows
  BY <1>4 DEF BeforeAllThrows
<1>5. ASSUME NEW r \in Requests, Proceed(r) PROVE HooksLeft'
  BY <1>5 DEF Proceed, BeforeAll, Sequences, IInv, TypeOK
<1>6. ASSUME NEW k \in Closes, Close(k) \/ Splice(k) \/ RunItem(k) \/ Finish(k)
      PROVE  HooksLeft'
  BY <1>6 DEF Close, Splice, RunItem, Finish, BeforeAll, Sequences
<1>7. CASE UNCHANGED vars
  BY <1>7 DEF vars, BeforeAll, Sequences
<1> QED BY <1>1, <1>2, <1>3, <1>4, <1>5, <1>6, <1>7 DEF Next

(* Nobody waits for a setup that no step of the hooks can settle.          *)
THEOREM NobodyHangs == Spec => []NobodyWaitsInVain
<1>1. Init => HooksLeft
  BY DEF Init, HooksLeft
<1>2. Spec => []HooksLeft
  BY <1>1, HooksLeftStep, Invariance, PTL DEF Spec
<1>3. ASSUME IInv, HooksLeft PROVE NobodyWaitsInVain
  <2>0. TypeOK /\ Sequences = 1 .. Len(hooks) /\ Len(hooks) \in Nat /\ at \in Nat
    BY <1>3, HooksType DEF IInv
  <2>1. \A k \in Closes : closing[k] = "waiting" => setup # "off"
    BY <1>3 DEF IInv, Latched
  <2>2. ASSUME setup = "running" PROVE \E h \in Sequences : NextBeforeAll(h)
    <3> DEFINE S == {i \in BeforeAll : i > at}
    <3>1. S \in SUBSET Nat /\ S # {}
      BY <1>3, <2>0, <2>2 DEF HooksLeft, BeforeAll
    <3>2. PICK h \in S : \A i \in S : h <= i
      BY <3>1, Smallest
    <3> QED BY <3>2 DEF NextBeforeAll, BeforeAll
  <2>3. ASSUME NEW k \in Closes, items[k] # {}
        PROVE  closing[k] = "running" /\ \E h \in Sequences : NextItem(k, h)
    <3>1. items[k] \in SUBSET (1 .. Len(hooks))
      BY <2>0 DEF TypeOK
    <3>2. PICK h \in items[k] : \A i \in items[k] : i <= h
      BY <2>0, <2>3, <3>1, Largest
    <3> QED BY <1>3, <2>0, <2>3, <3>1, <3>2 DEF NextItem, IInv, Latched
  <2> QED BY <1>3, <2>1, <2>2, <2>3 DEF NobodyWaitsInVain, HooksLeft
<1> QED BY <1>2, <1>3, Invariance, PTL
=============================================================================
