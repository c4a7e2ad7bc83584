------------------------- MODULE ExpectationProofs -------------------------
(***************************************************************************)
(* What the compiled functions make of `and` and `or`, and what an         *)
(* expectation, which is the `and` of its filters, does promise.  Of       *)
(* Outcome nothing is used: this holds whatever the filters assert.        *)
(***************************************************************************)
EXTENDS Expectation, WellFoundedInduction, TLAPS

-----------------------------------------------------------------------------
(* The compiled `and` and `or` *)

LEMMA Least ==
  ASSUME NEW S, S \subseteq Nat, S # {}
  PROVE  \E m \in S : \A n \in S : m <= n
<1>1. PICK m \in S : \A n \in S : ~ (<<n, m>> \in OpToRel(<, Nat))
  BY WFMin, NatLessThanWellFounded
<1>2. \A n \in S : ~ (n < m)
  BY <1>1 DEF OpToRel
<1> QED
  BY <1>2

\* The first part of an `and` that does not return true decides it.
LEMMA FirstDecides ==
  ASSUME NEW outcomes, DOMAIN outcomes \subseteq Nat, NEW i \in DOMAIN outcomes,
         outcomes[i] # "true", \A j \in DOMAIN outcomes : j < i => outcomes[j] = "true"
  PROVE  AndOf(outcomes) = IF outcomes[i] = "throws" THEN "throws" ELSE "false"
<1> DEFINE Ends == {k \in DOMAIN outcomes : outcomes[k] # "true"}
           first == CHOOSE k \in Ends : \A j \in Ends : k <= j
<1>1. i \in Ends /\ \A j \in Ends : i <= j
  OBVIOUS
<1>2. first \in Ends /\ \A j \in Ends : first <= j
  BY <1>1
<1>3. first = i
  BY <1>1, <1>2
<1>4. Ends # {}
  BY <1>1
<1>5. AndOf(outcomes) = IF outcomes[first] = "throws" THEN "throws" ELSE "false"
  BY <1>4 DEF AndOf
<1> HIDE DEF first
<1> QED
  BY <1>3, <1>5

\* An `and` throws just when a part throws and every part before it returned true.
THEOREM AndThrows ==
  ASSUME NEW outcomes, DOMAIN outcomes \subseteq Nat
  PROVE  AndOf(outcomes) = "throws" <=>
           \E i \in DOMAIN outcomes :
             /\ outcomes[i] = "throws"
             /\ \A j \in DOMAIN outcomes : j < i => outcomes[j] = "true"
<1> DEFINE Ends == {k \in DOMAIN outcomes : outcomes[k] # "true"}
<1>1. CASE Ends = {}
  BY <1>1 DEF AndOf
<1>2. CASE Ends # {}
  <2>1. PICK i \in Ends : \A j \in Ends : i <= j
    BY <1>2, Least
  <2>2. \A j \in DOMAIN outcomes : j < i => outcomes[j] = "true"
    BY <2>1
  <2>3. AndOf(outcomes) = IF outcomes[i] = "throws" THEN "throws" ELSE "false"
    BY <2>1, <2>2, FirstDecides
  <2>4. ASSUME NEW k \in DOMAIN outcomes, outcomes[k] = "throws",
               \A j \in DOMAIN outcomes : j < k => outcomes[j] = "true"
        PROVE  k = i
    BY <2>1, <2>2, <2>4
  <2> QED
    BY <2>1, <2>2, <2>3, <2>4
<1> QED
  BY <1>1, <1>2

\* Whatever stands behind the first part that does not return true has no say in what
\* an `and` makes of a response: it is never asked.
THEOREM LaterNeverAsked ==
  ASSUME NEW a, NEW b, DOMAIN a \subseteq Nat, DOMAIN b \subseteq Nat,
         NEW i \in DOMAIN a \cap DOMAIN b, a[i] # "true",
         \A j \in DOMAIN a \cup DOMAIN b : j <= i => /\ j \in DOMAIN a \cap DOMAIN b
                                                    /\ a[j] = b[j]
  PROVE  AndOf(a) = AndOf(b)
<1> DEFINE Ends == {k \in DOMAIN a : a[k] # "true"}
<1>1. PICK first \in Ends : \A j \in Ends : first <= j
  BY Least
<1>2. first <= i
  BY <1>1
<1>3. /\ \A j \in DOMAIN a : j < first => a[j] = "true"
      /\ \A j \in DOMAIN b : j < first => b[j] = "true"
      /\ first \in DOMAIN b /\ b[first] = a[first]
  BY <1>1, <1>2
<1>4. AndOf(a) = IF a[first] = "throws" THEN "throws" ELSE "false"
  BY <1>1, <1>3, FirstDecides
<1>5. AndOf(b) = IF b[first] = "throws" THEN "throws" ELSE "false"
  BY <1>1, <1>3, FirstDecides
<1> QED
  BY <1>3, <1>4, <1>5

\* `or` is the stricter of the two, where it should be the more lenient: wherever an
\* `and` throws, the `or` of the same parts throws as well.
THEOREM OrDemandsMore ==
  ASSUME NEW outcomes, DOMAIN outcomes \subseteq Nat, AndOf(outcomes) = "throws"
  PROVE  OrOf(outcomes) = "throws"
BY AndThrows DEF OrOf

-----------------------------------------------------------------------------
(* The verdict of an expectation *)

Throws(t, i) == Outcome(transactions[t])[filters[i]] = "throws"

ReturnsTrue(t, i) == Outcome(transactions[t])[filters[i]] = "true"

\* Filters and transactions are lists; those checked have validated, and a failure is
\* that of the next one.
ExpectationInv ==
  /\ \E n \in Nat : DOMAIN filters = 1 .. n
  /\ transactions \in Seq(Responses)
  /\ checked \in 0 .. Len(transactions)
  /\ verdict \in {"open", "failed", "passed"}
  /\ \A t \in 1 .. checked : Validates(transactions[t])
  /\ verdict = "passed" => checked = Len(transactions)
  /\ verdict = "failed" =>
       checked < Len(transactions) /\ ~Validates(transactions[checked + 1])

\* A test case that passes is only too lenient where a filter before the one that
\* throws did not return true: that filter hides those behind it.
MaskedOnly ==
  verdict = "passed" =>
    \A t \in DOMAIN transactions : \A i \in DOMAIN filters :
      Throws(t, i) => \E j \in DOMAIN filters : j < i /\ ~ReturnsTrue(t, j)

\* It is no stricter than its filters are (an `or` among them is too strict, see
\* EitherCanMatch): a test case fails at the first transaction some filter throws for
\* unmasked, and each transaction before it passes in the same sense.
NoFalseAlarm ==
  verdict = "failed" =>
    /\ checked + 1 \in DOMAIN transactions
    /\ \E i \in DOMAIN filters :
         /\ Throws(checked + 1, i)
         /\ \A j \in DOMAIN filters : j < i => ReturnsTrue(checked + 1, j)
    /\ \A t \in 1 .. checked : \A i \in DOMAIN filters :
         Throws(t, i) => \E j \in DOMAIN filters : j < i /\ ~ReturnsTrue(t, j)

LEMMA ValidatesMeans ==
  ASSUME NEW n \in Nat, DOMAIN filters = 1 .. n, NEW t
  PROVE  Validates(transactions[t]) <=>
           \A i \in DOMAIN filters :
             Throws(t, i) => \E j \in DOMAIN filters : j < i /\ ~ReturnsTrue(t, j)
<1> DEFINE outcomes == [i \in DOMAIN filters |-> Outcome(transactions[t])[filters[i]]]
<1>1. DOMAIN outcomes = DOMAIN filters /\ DOMAIN outcomes \subseteq Nat
  OBVIOUS
<1>2. \A i \in DOMAIN filters : /\ outcomes[i] = "throws" <=> Throws(t, i)
                                /\ outcomes[i] = "true" <=> ReturnsTrue(t, i)
  BY DEF Throws, ReturnsTrue
<1>3. Validates(transactions[t]) <=> AndOf(outcomes) # "throws"
  BY DEF Validates
<1> HIDE DEF outcomes
<1>4. AndOf(outcomes) = "throws" <=>
        \E i \in DOMAIN outcomes :
          /\ outcomes[i] = "throws"
          /\ \A j \in DOMAIN outcomes : j < i => outcomes[j] = "true"
  BY <1>1, AndThrows
<1> QED
  BY <1>1, <1>2, <1>3, <1>4

LEMMA ListOf ==
  ASSUME NEW n, NEW S, NEW s \in UpTo(n, S)
  PROVE  s \in Seq(S) /\ \E k \in Nat : DOMAIN s = 1 .. k
<1>1. PICK k \in 0 .. n : s \in [1 .. k -> S]
  BY DEF UpTo
<1>2. k \in Nat
  BY <1>1
<1> QED
  BY <1>1, <1>2

LEMMA ExpectationInvariance == Spec => []ExpectationInv
<1>1. Init => ExpectationInv
  BY ListOf DEF Init, ExpectationInv
<1>2. ASSUME ExpectationInv, [Next]_vars PROVE ExpectationInv'
  <2> USE <1>2 DEF ExpectationInv, Validates
  <2>1. CASE CheckTransaction /\ Validates(transactions[checked + 1])
    <3> DEFINE V(t) ==
                 AndOf([i \in DOMAIN filters |-> Outcome(transactions[t])[filters[i]]]) # "throws"
    <3>1. checked \in Nat /\ checked' = checked + 1 /\ UNCHANGED <<filters, transactions, verdict>>
      BY <2>1 DEF CheckTransaction
    <3>2. \A t \in 1 .. checked' : t \in 1 .. checked \/ t = checked + 1
      BY <3>1
    <3>3. (\A t \in 1 .. checked : V(t)) /\ V(checked + 1)
      BY <2>1
    <3>4. \A t \in 1 .. checked' : V(t)
      <4> HIDE DEF V
      <4> QED
        BY <3>2, <3>3
    <3>5. \A t \in 1 .. checked' : Validates(transactions[t])'
      BY <3>1, <3>4
    <3> QED
      BY <2>1, <3>1, <3>5 DEF CheckTransaction
  <2>2. CASE CheckTransaction /\ ~Validates(transactions[checked + 1])
    BY <2>2 DEF CheckTransaction
  <2>3. CASE Passes
    BY <2>3 DEF Passes
  <2>4. CASE UNCHANGED vars
    BY <2>4 DEF vars
  <2> QED
    BY <2>1, <2>2, <2>3, <2>4 DEF Next
<1> QED
  BY <1>1, <1>2, PTL DEF Spec

\* What hides a mismatch is an earlier filter, never the order or number of responses.
THEOREM OnlyMasked == Spec => []MaskedOnly
<1>1. ASSUME ExpectationInv PROVE MaskedOnly
  BY <1>1, ValidatesMeans DEF ExpectationInv, MaskedOnly
<1> QED
  BY <1>1, ExpectationInvariance, PTL

\* A test case never fails over a transaction that no filter of it throws for.
THEOREM NoFalseAlarms == Spec => []NoFalseAlarm
<1>1. ASSUME ExpectationInv, verdict = "failed" PROVE NoFalseAlarm
  <2>1. /\ checked + 1 \in DOMAIN transactions
        /\ ~Validates(transactions[checked + 1])
    BY <1>1 DEF ExpectationInv
  <2>2. \E i \in DOMAIN filters :
          /\ Throws(checked + 1, i)
          /\ \A j \in DOMAIN filters : j < i => ReturnsTrue(checked + 1, j)
    BY <1>1, <2>1, ValidatesMeans DEF ExpectationInv
  <2>3. \A t \in 1 .. checked : \A i \in DOMAIN filters :
          Throws(t, i) => \E j \in DOMAIN filters : j < i /\ ~ReturnsTrue(t, j)
    BY <1>1, ValidatesMeans DEF ExpectationInv
  <2> QED
    BY <2>1, <2>2, <2>3 DEF NoFalseAlarm
<1>2. ExpectationInv => NoFalseAlarm
  BY <1>1 DEF NoFalseAlarm
<1> QED
  BY <1>2, ExpectationInvariance, PTL
=============================================================================
