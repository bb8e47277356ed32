---------------------------- MODULE MCHTTPServer ----------------------------
(* Instances of HTTPServer for TLC.  The name "here" is registered in each  *)
(* table.                                                                   *)
EXTENDS HTTPServer, TLC

CONSTANTS k1, k2, p1, p2

Ask(m, n) == [method |-> m, params |-> "ok", name |-> n]
Read   == Ask("resources/read", "here")
List   == Ask("tools/list", None)
Notify == Ask(Initialized, None)
Junk   == Ask(Malformed, None)

EveryBody == {Read, List, Notify, Junk}
TwoBodies == {Read, Junk}

Symmetry == Permutations(Conns)
=============================================================================
