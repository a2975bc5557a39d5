----------------------------- MODULE Subsequence -----------------------------
(***************************************************************************)
(* The elements of a sequence at some of its positions, in their order:    *)
(* SelectSeq by position, written without a recursion.                     *)
(***************************************************************************)
EXTENDS Naturals, Sequences, FiniteSets

Nth(S, n)  == CHOOSE i \in S : Cardinality({j \in S : j <= i}) = n
Pick(q, S) == [n \in 1..Cardinality(S) |-> q[Nth(S, n)]]
=============================================================================
