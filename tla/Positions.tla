------------------------------ MODULE Positions ------------------------------
(***************************************************************************)
(* What is left of a list when some of its positions are taken, in their   *)
(* order.                                                                  *)
(***************************************************************************)
EXTENDS Naturals, FiniteSets

(* The k-th of a finite set of positions.                                   *)
Nth(A, k) == CHOOSE i \in A : Cardinality({ j \in A : j <= i }) = k

(* The elements of a sequence at a set of its positions, in their order.    *)
Kept(s, A) == [ k \in 1..Cardinality(A) |-> s[Nth(A, k)] ]
==============================================================================
