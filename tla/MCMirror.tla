------------------------------ MODULE MCMirror ------------------------------
(***************************************************************************)
(* Instances of Mirror for TLC.                                            *)
(***************************************************************************)
EXTENDS Mirror, TLC

(* People claim relations of usersig, from anybody.                         *)
MCForeignHash == [from : Key, provider : {UsersigPda}]

(* What is handed to usersig is out of the way: usersig signs for no tree.   *)
MCHeir == Key \cup {Controller}

Symmetry == Permutations(Key)
=============================================================================
