---------------------------- MODULE Expectation ----------------------------
(***************************************************************************)
(* What expectForTransactions(...filters) makes of the responses of a test *)
(* case: its filters are compiled to one function that asserts (core/src/  *)
(* http-testing/test-builder/compilers), and the test case fails at the    *)
(* first transaction the function throws for.                              *)
(***************************************************************************)
EXTENDS Naturals, Sequences

CONSTANTS
  Filters,         \* response filters, with every filter these are made of
  Responses,       \* responses: status, headers, body, trailers
  MaxFilters,      \* bound on the filters of one expectation
  MaxTransactions  \* bound on the transactions of its step

VARIABLES
  filters,       \* the filters of the expectation: and(...filters)
  transactions,  \* the responses of the last step, in order
  checked,       \* transactions the function has not thrown for
  verdict        \* "open", "failed" or "passed"

vars == <<filters, transactions, checked, verdict>>

UpTo(n, S) == UNION {[1 .. k -> S] : k \in 0 .. n}

-----------------------------------------------------------------------------
\* A compiled function throws an AssertionError, returns true or false, or returns
\* nothing: node's assertions do.
Asserted(holds) == IF holds THEN "nothing" ELSE "throws"

Returned(value) == IF value THEN "true" ELSE "false"

\* every and some stop at the first part that throws
AndOf(outcomes) ==
  LET Ends == {i \in DOMAIN outcomes : outcomes[i] # "true"} IN
  IF Ends = {} THEN "true"
  ELSE LET first == CHOOSE i \in Ends : \A j \in Ends : i <= j IN
       IF outcomes[first] = "throws" THEN "throws" ELSE "false"

\* The callback of some has no return: every part is asked.
OrOf(outcomes) ==
  IF \E i \in DOMAIN outcomes : outcomes[i] = "throws" THEN "throws" ELSE "false"

\* compileResponseScopedExpressionToTransactionValidationFn.  A header or trailer
\* without a name asserts nothing; the value of a header, and the argument of
\* hasResponseBody, are not looked at; an empty body or trailer is none.
Outcome(response) ==
  LET out[f \in Filters] ==
        CASE f.type = "statusCode" -> Asserted(response.status = f.code)
          [] f.type = "statusCodeRange" ->
               Asserted(f.start <= response.status /\ response.status <= f.end)
          [] f.type = "responseMediaType" -> Asserted(response.mediaType = f.mediaType)
          [] f.type = "hasResponseBody" -> Asserted(response.body = "some")
          [] f.type = "responseHeader" ->
               IF f.header = "none" THEN Returned(TRUE) ELSE Asserted(f.header \in response.headers)
          [] f.type = "responseTrailer" ->
               IF f.trailer = "none" THEN Returned(TRUE)
               ELSE Asserted(IF f.value = "none"
                             THEN response.trailers[f.trailer] \notin {"none", "empty"}
                             ELSE response.trailers[f.trailer] = f.value)
          [] f.type = "constant" -> Returned(f.value)
          [] f.type \in {"and", "xor"} ->
               AndOf([i \in DOMAIN f.filters |-> out[f.filters[i]]])
          [] f.type = "or" -> OrOf([i \in DOMAIN f.filters |-> out[f.filters[i]]])
          [] f.type = "not" -> Asserted(out[f.filter] = "throws")
  IN out

\* The function of the expectation, and(...filters)
Validates(response) ==
  AndOf([i \in DOMAIN filters |-> Outcome(response)[filters[i]]]) # "throws"

-----------------------------------------------------------------------------
Init ==
  /\ filters \in UpTo(MaxFilters, Filters)
  /\ transactions \in UpTo(MaxTransactions, Responses)
  /\ checked = 0 /\ verdict = "open"

\* The loop of the operator; the value a function returns is dropped.
CheckTransaction ==
  /\ verdict = "open" /\ checked < Len(transactions)
  /\ IF Validates(transactions[checked + 1])
     THEN checked' = checked + 1 /\ UNCHANGED verdict
     ELSE verdict' = "failed" /\ UNCHANGED checked
  /\ UNCHANGED <<filters, transactions>>

Passes ==
  /\ verdict = "open" /\ checked = Len(transactions)
  /\ verdict' = "passed"
  /\ UNCHANGED <<filters, transactions, checked>>

Next == CheckTransaction \/ Passes

Spec == Init /\ [][Next]_vars

-----------------------------------------------------------------------------
\* What the guide says of or(a, b): "Either can match".  A test case that expects one
\* `or` fails only at a transaction that none of its parts matches.
EitherCanMatch ==
  verdict = "failed" /\ Len(filters) = 1 /\ filters[1].type = "or" =>
    \A i \in DOMAIN filters[1].filters :
      Outcome(transactions[checked + 1])[filters[1].filters[i]] = "throws"
=============================================================================
