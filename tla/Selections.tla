----------------------------- MODULE Selections -----------------------------
(***************************************************************************)
(* The elements of a sequence s at the positions ks, in their order: what  *)
(* a list comprehension with a condition keeps.  The n-th position is      *)
(* chosen and not counted out, so that proofs can speak of it.             *)
(***************************************************************************)
EXTENDS Naturals, Sequences, FiniteSets

UpTo(ks, k) == {j \in ks : j <= k}
Nth(ks, n) == CHOOSE k \in ks : Cardinality(UpTo(ks, k)) = n

Pick(s, ks) == [n \in 1 .. Cardinality(ks) |-> s[Nth(ks, n)]]
=============================================================================
