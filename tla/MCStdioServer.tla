--------------------------- MODULE MCStdioServer ---------------------------
(* Instances of StdioServer for TLC.  The name "here" is registered in each *)
(* table, "gone" in none.                                                   *)
EXTENDS StdioServer

CONSTANTS tool, resource, prompt, missing, bad, list, initialized, unknown

Ask(m, p, n) == [method |-> m, params |-> p, name |-> n]

(* One call for each way through handleRequest.                            *)
MCBody ==
    [c \in Calls |->
        CASE c = tool        -> Ask("tools/call", "ok", "here")
          [] c = resource    -> Ask("resources/read", "ok", "here")
          [] c = prompt      -> Ask("prompts/get", "ok", "here")
          [] c = missing     -> Ask("tools/call", "ok", "gone")
          [] c = bad         -> Ask("resources/read", "bad", "here")
          [] c = list        -> Ask("tools/list", "bad", None)
          [] c = initialized -> Ask(Initialized, "ok", None)
          [] c = unknown     -> Ask("unknown", "ok", None)]
=============================================================================
