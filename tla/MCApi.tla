------------------------------- MODULE MCApi --------------------------------
(***************************************************************************)
(* Instances of Api for TLC: two relations of one user with two providers. *)
(***************************************************************************)
EXTENDS Api, TLC

CONSTANTS alice, bob, p, q

MCRelation == {[from |-> alice, to |-> bob, provider |-> p],
               [from |-> alice, to |-> bob, provider |-> q]}

MCFilter == {[from |-> "", to |-> bob, providers |-> {}],
             [from |-> alice, to |-> "", providers |-> {p}]}

Symmetry == Permutations(Thread)

=============================================================================
