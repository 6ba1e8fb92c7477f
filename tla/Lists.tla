------------------------------- MODULE Lists -------------------------------
(***************************************************************************)
(* What is left of a list when the entries at some places are dropped.     *)
(***************************************************************************)
EXTENDS Naturals, Sequences, FiniteSets

(* The k-th smallest of a set of numbers.                                  *)
Nth(S, k) == CHOOSE i \in S : Cardinality({j \in S : j <= i}) = k

(* The entries of s at the places in keep, in their order.                 *)
Only(s, keep) == [k \in 1..Cardinality(keep) |-> s[Nth(keep, k)]]
=============================================================================
