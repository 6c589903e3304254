------------------------------ MODULE Registry ------------------------------
(***************************************************************************)
(* What the programs on the chain promise, without trees, accounts that    *)
(* are half initialized, and instructions that fail: a registry of         *)
(* relations.  People sign a transaction, and it is carried out as a whole *)
(* or not at all.  It may found providers and add relations, each by the   *)
(* right of somebody who signed for it; nothing is ever taken back.        *)
(***************************************************************************)
EXTENDS Naturals, FiniteSets

CONSTANTS Key,          \* keys people hold; also addresses of providers
          Usersig,      \* the provider for relations that users sign themselves
          Nobody        \* authority of a provider that is not founded

Account == Key \cup {Usersig}

VARIABLES authority,    \* authority of each provider, an address
          count,        \* how many relations it says it has
          relations,    \* the relations by their position, 1 the oldest
          signers       \* keys that signed what is being carried out

rvars == <<authority, count, relations, signers>>

RInit ==
    /\ authority = [p \in Account |-> Nobody]
    /\ count = [p \in Account |-> 0]
    /\ DOMAIN relations = {}
    /\ signers = {}

(* Keys sign.                                                               *)
Sign ==
    /\ signers = {}
    /\ signers' \in SUBSET Key \ {{}}
    /\ UNCHANGED <<authority, count, relations>>

(* A provider is founded once, with its own signature, and keeps its        *)
(* authority; anyone may found the one for users, which is its own.         *)
FoundsByRight(p) ==
    /\ authority[p] = Nobody
    /\ p \in signers \/ p = Usersig
    /\ authority'[p] \in IF p = Usersig THEN {Usersig} ELSE Account

(* A relation of a provider is added with the signature of its authority,   *)
(* one of the provider for users with the signature of the user.            *)
AddedByRight(relation) ==
    IF relation.provider = Usersig
    THEN authority'[Usersig] = Usersig /\ relation.from \in signers
    ELSE authority'[relation.provider] \in signers

NumberOf(rels, p) == Cardinality({n \in DOMAIN rels : rels[n].provider = p})

(* All of it takes effect, or nothing.                                      *)
CarryOut ==
    /\ signers # {} /\ signers' = {}
    /\ \A p \in Account : authority'[p] # authority[p] => FoundsByRight(p)
    /\ DOMAIN relations \subseteq DOMAIN relations'
    /\ \A n \in DOMAIN relations : relations'[n] = relations[n]
    /\ \A n \in DOMAIN relations' \ DOMAIN relations : AddedByRight(relations'[n])
    /\ count' = [p \in Account |-> NumberOf(relations', p)]

RNext == Sign \/ CarryOut

RSpec == RInit /\ [][RNext]_rvars

=============================================================================
