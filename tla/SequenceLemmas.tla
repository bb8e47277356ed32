--------------------------- MODULE SequenceLemmas ---------------------------
(***************************************************************************)
(* What is in a pipe or a stream after a line is put into it or taken out. *)
(***************************************************************************)
EXTENDS Naturals, Sequences, Functions, TLAPS

(* An appended line is the only new one, ...                               *)
LEMMA RangeAppend ==
    ASSUME NEW S, NEW q \in Seq(S), NEW x \in S
    PROVE  Range(Append(q, x)) = Range(q) \cup {x}
  <1>1. Len(Append(q, x)) = Len(q) + 1 /\ Len(q) \in Nat
    OBVIOUS
  <1>2. DOMAIN q = 1 .. Len(q) /\ DOMAIN Append(q, x) = 1 .. Len(q) + 1
    BY <1>1
  <1>3. \A i \in 1 .. Len(q) : Append(q, x)[i] = q[i]
    OBVIOUS
  <1>4. Append(q, x)[Len(q) + 1] = x
    OBVIOUS
  <1>5. 1 .. Len(q) + 1 = (1 .. Len(q)) \cup {Len(q) + 1}
    BY <1>1
  <1> QED  BY <1>2, <1>3, <1>4, <1>5 DEF Range

(* ... a tail has no new one, ...                                          *)
LEMMA RangeTail ==
    ASSUME NEW S, NEW q \in Seq(S), q # <<>>
    PROVE  /\ Head(q) \in Range(q) /\ Head(q) \in S
           /\ Range(Tail(q)) \subseteq Range(q)
           /\ Tail(q) \in Seq(S)
  <1>1. Len(q) \in Nat \ {0} /\ Head(q) = q[1] /\ Len(Tail(q)) = Len(q) - 1
    OBVIOUS
  <1>2. DOMAIN q = 1 .. Len(q) /\ DOMAIN Tail(q) = 1 .. Len(q) - 1
    BY <1>1
  <1>3. \A i \in 1 .. Len(q) - 1 : Tail(q)[i] = q[i + 1] /\ i + 1 \in 1 .. Len(q)
    BY <1>1
  <1>4. Head(q) \in Range(q)
    BY <1>1, <1>2 DEF Range
  <1>5. Range(Tail(q)) \subseteq Range(q)
    BY <1>2, <1>3 DEF Range
  <1> QED  BY <1>1, <1>4, <1>5

(* ... nothing is in an empty sequence, and all that is in one has its     *)
(* type.                                                                   *)
LEMMA RangeEmpty == Range(<<>>) = {}
  BY DEF Range

LEMMA RangeType ==
    ASSUME NEW S, NEW q \in Seq(S)
    PROVE  Range(q) \subseteq S
  BY DEF Range
=============================================================================
