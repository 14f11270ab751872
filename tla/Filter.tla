------------------------------- MODULE Filter -------------------------------
(***************************************************************************)
(* Iterator::filter and Vec::retain: the elements of a sequence at some of *)
(* its positions, in their order.  It is what SelectSeq returns, defined   *)
(* by counting instead of recursion so that it can be reasoned about.      *)
(***************************************************************************)
EXTENDS Naturals, Sequences, FiniteSets

(* How many of the positions K are not after k.                            *)
PosRank(K, k) == Cardinality({j \in K : j <= k})

Filtered(s, K) == [n \in 1..Cardinality(K) |-> s[CHOOSE k \in K : PosRank(K, k) = n]]
=============================================================================
