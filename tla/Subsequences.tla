---------------------------- MODULE Subsequences ----------------------------
(* The elements of a sequence at a set of positions, in their order.  Stated
   without recursion, unlike SelectSeq, so that it can be proved about. *)
EXTENDS Integers, Sequences, FiniteSets

(* The increasing enumeration of a finite set of integers. *)
Enumerates(g, n, I) ==
    /\ \A j, k \in 1 .. n : j < k => g[j] < g[k]
    /\ \A i \in I : \E k \in 1 .. n : g[k] = i

Subsequence(s, I) ==
    LET n == Cardinality(I)
        f == CHOOSE g \in [1 .. n -> I] : Enumerates(g, n, I)
    IN [k \in 1 .. n |-> s[f[k]]]
=============================================================================
