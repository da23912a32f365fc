------------------------------ MODULE Sublists ------------------------------
(***************************************************************************)
(* What Python's in-order filters of a list do: `[x for x in s if x in S]`, *)
(* `list.remove`, deleting a key from the middle of an OrderedDict.         *)
(*                                                                         *)
(* Sublist(s, S) is SelectSeq(s, LAMBDA x : x \in S), written without       *)
(* recursion: its i-th element is the element of s at the position where    *)
(* the i-th member of S is met.  The closed form is what the proofs about   *)
(* the modules that use it can reason with (module SublistProofs).          *)
(***************************************************************************)
EXTENDS Integers, Sequences, FiniteSets

Elements(s) == {s[i] : i \in DOMAIN s}

IsInjectiveSeq(s) == \A i, j \in DOMAIN s : s[i] = s[j] => i = j

\* How many of the first j elements of s belong to S.
MetBy(s, S, j) == Cardinality({m \in 1..j : s[m] \in S})

Sublist(s, S) ==
  [i \in 1..MetBy(s, S, Len(s)) |->
     s[CHOOSE j \in DOMAIN s : s[j] \in S /\ MetBy(s, S, j) = i]]

Without(s, x) == Sublist(s, Elements(s) \ {x})

Backwards(s) == [i \in 1..Len(s) |-> s[Len(s) + 1 - i]]
=============================================================================
