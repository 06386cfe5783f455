------------------------------ MODULE Selection ------------------------------
(***************************************************************************)
(* The elements of a sequence at chosen positions, in their order: what      *)
(* SelectSeq gives, in a form that can be reasoned about.  The mode          *)
(* indications among the jobs of a mailbox are selected in this way.         *)
(***************************************************************************)
EXTENDS Naturals, Sequences, FiniteSets

\* How many of the positions are not behind i, and the k-th of the positions.
Rank(at, i) == Cardinality({j \in at : j <= i})
Nth(at, k)  == CHOOSE i \in {j \in at : Rank(at, j) = k} : TRUE

SelectAt(q, at) == [k \in 1..Cardinality(at) |-> q[Nth(at, k)]]
=============================================================================
