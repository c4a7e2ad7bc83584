--------------------------- MODULE MCExpectation ---------------------------
(***************************************************************************)
(* The instance TLC checks: every kind of response filter, and a compound  *)
(* of each kind over them.                                                 *)
(***************************************************************************)
EXTENDS Expectation

StatusCode(n) == [type |-> "statusCode", code |-> n]
Success == [type |-> "statusCodeRange", start |-> 200, end |-> 299]
Json == [type |-> "responseMediaType", mediaType |-> "json"]
HasBody == [type |-> "hasResponseBody"]
Header(name) == [type |-> "responseHeader", header |-> name]
Trailer(name, value) == [type |-> "responseTrailer", trailer |-> name, value |-> value]
Constant(value) == [type |-> "constant", value |-> value]
All(fs) == [type |-> "and", filters |-> fs]
Any(fs) == [type |-> "or", filters |-> fs]
OneOf(fs) == [type |-> "xor", filters |-> fs]
Not(f) == [type |-> "not", filter |-> f]

MCFilters ==
  {StatusCode(301), StatusCode(302), Success, Json, HasBody,
   Header("location"), Header("none"),
   Trailer("digest", "good"), Trailer("digest", "none"), Trailer("none", "none"),
   Constant(TRUE), Constant(FALSE), All(<<Success, HasBody>>),
   Any(<<StatusCode(301), StatusCode(302)>>), OneOf(<<Header("location"), HasBody>>),
   Not(StatusCode(301))}

MCResponses ==
  [status: {201, 301}, mediaType: {"json", "none"}, headers: SUBSET {"location"},
   body: {"none", "empty", "some"}, trailers: [{"digest"} -> {"none", "empty", "good"}]]
=============================================================================
