----------------------------- MODULE MCIndexer -----------------------------
(***************************************************************************)
(* Instances of Indexer for TLC: every block carries one relation.         *)
(***************************************************************************)
EXTENDS Indexer

MCBlockOf == [r \in Relation |-> CHOOSE b \in Block :
                Cardinality({a \in Block : a < b}) = Cardinality({q \in Relation : q < r})]
Symmetry == Permutations(Consumer)
=============================================================================
