------------------------------ MODULE Protocol ------------------------------
(***************************************************************************)
(* Request IDs of pkg/protocol/protocol.go.  An ID is an int64 where a     *)
(* client allocates it and a JSON number on the wire, which decodes as     *)
(* float64; other peers may use strings, and a notification has none.      *)
(* Map keys compare type and value, so a reply finds its request only      *)
(* under the normalised ID.  Values stay below 2^53, where the conversion  *)
(* is exact.                                                               *)
(***************************************************************************)
EXTENDS Naturals

IDTypes == {"int64", "float64", "string", "nil"}
IDs == [type : IDTypes, val : Nat]
GoID(n)   == [type |-> "int64", val |-> n]
WireID(n) == [type |-> "float64", val |-> n]
NilID     == [type |-> "nil", val |-> 0]

(* Faulty: a map key that keeps the type the decoder gave it.              *)
NormalizeIDKeepsFloat(i) == i

NormalizeID(i) == IF i.type = "float64" THEN GoID(i.val) ELSE i
=============================================================================
