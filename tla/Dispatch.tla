------------------------------ MODULE Dispatch ------------------------------
(***************************************************************************)
(* handleRequest of pkg/server/server.go and the handlers it calls: what a *)
(* request is answered with, given the tables of registered tools,         *)
(* resources and prompts.  Both servers use it.                            *)
(*                                                                         *)
(* A body is a request without its ID: the method, whether the params      *)
(* decode into the struct of the method, and the name (or URI) asked for.  *)
(* Absent params do not decode either (Unmarshal of an empty input fails). *)
(***************************************************************************)
CONSTANTS Tools, Resources, Prompts,  \* the names registered in each table
          BadSchemas  \* the tools whose input schema, a map the application
                      \* fills, does not marshal

Listing  == {"initialize", "tools/list", "resources/list", "prompts/list"}
Invoking == {"tools/call", "resources/read", "prompts/get"}
Initialized == "notifications/initialized"
Methods  == Listing \cup Invoking \cup {Initialized, "unknown"}

Table(m) == CASE m = "tools/call"     -> Tools
              [] m = "resources/read" -> Resources
              [] m = "prompts/get"    -> Prompts

RunsHandler(b) ==
    b.method \in Invoking /\ b.params = "ok" /\ b.name \in Table(b.method)

(* One such tool and tools/list fails.  The results of the other listings  *)
(* hold nothing but strings and flags.                                     *)
Lists(b) == ~(b.method = "tools/list" /\ Tools \cap BadSchemas # {})

(* The answer to a body for which no registered handler runs; "none" is no *)
(* answer.                                                                 *)
Answer(b) ==
    CASE b.method \in Listing   -> IF Lists(b) THEN "result" ELSE "internalError"
      [] b.method \in Invoking  -> "invalidParams"
      [] b.method = Initialized -> "none"
      [] b.method = "unknown"   -> "methodNotFound"

(* How a registered handler can end: with a value, with a value longer     *)
(* than a peer accepts on one line, with an error, with a value that does  *)
(* not marshal, or with neither value nor error.                           *)
Outcomes == {"value", "huge", "error", "unencodable", "nil"}

(* handleReadResource dereferences the content it got: without one it      *)
(* panics.  The other two marshal the null.                                *)
AnswerOf(b, outcome) ==
    CASE outcome = "value"                  -> "result"
      [] outcome = "huge"                   -> "hugeResult"
      [] outcome \in {"error", "unencodable"} -> "internalError"
      [] outcome = "nil" /\ b.method = "resources/read" -> "panic"
      [] outcome = "nil" /\ b.method # "resources/read" -> "result"

Codes == {"result", "hugeResult", "methodNotFound", "invalidParams",
          "internalError", "parseError"}
=============================================================================
