--------------------------- MODULE MCStdioSystem ---------------------------
(* An instance of StdioSystem for TLC: an Initialize and a call that runs  *)
(* a handler.                                                              *)
EXTENDS StdioSystem

CONSTANTS c1, c2

MCBody ==
    [c \in Calls |->
        IF c \in InitCalls
        THEN [method |-> "initialize", params |-> "ok", name |-> None]
        ELSE [method |-> "resources/read", params |-> "ok", name |-> "here"]]
=============================================================================
