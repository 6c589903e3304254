---------------------------- MODULE MCProcessor ----------------------------
(***************************************************************************)
(* Instances of Processor for TLC.                                         *)
(***************************************************************************)
EXTENDS Processor

(* Block 1 carries up to two relations, block 2 up to two, block 3 the rest.                 *)
MCBlockOf == [r \in Relation |-> IF r \in {"r1", "r1b"} THEN 1
                                 ELSE IF r \in {"r2", "r2v"} THEN 2 ELSE 3]

Symmetry == Permutations(Consumer)
=============================================================================
