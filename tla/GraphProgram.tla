---------------------------- MODULE GraphProgram ----------------------------
(***************************************************************************)
(* The programs on the chain: the graph program (programs/graph), and the  *)
(* provider usersig (programs/usersig) that calls into it.  A relation is  *)
(* a leaf of a Merkle tree, which the account-compression program appends  *)
(* to if the tree's authority signs; the authority of the graph's own tree *)
(* is its controller account, which only the graph program can sign for.   *)
(*                                                                         *)
(* A transaction is a sequence of instructions that all take effect or     *)
(* none.  Solana runs transactions that write to the same account one      *)
(* after the other, and every instruction that adds a leaf writes to the   *)
(* tree, so one transaction at a time is modelled.                         *)
(***************************************************************************)
EXTENDS Naturals, Sequences, SequencesExt, FiniteSets

CONSTANTS Key,          \* keys people hold; also addresses of provider accounts
          UsersigPda,   \* address of usersig's provider, which usersig signs for
          Controller,   \* address of the controller, which graph signs for
          Nobody,       \* authority of an account that is not initialized
          Tree,         \* accounts owned by the account-compression program
          NoTree,       \* before initialize_tree
          MaxLeaves,    \* capacity of a tree (2^30 in the code)
          MaxCount,     \* largest relations_count (2^64 - 1)
          ForeignHash,  \* bound: relations whose hash people put into trees themselves
          MaxForeign,   \* bound: leaves they put into one
          Heir          \* bound: to whom they hand a tree

Account == Key \cup {UsersigPda}

ASSUME GraphAssumption ==
    /\ UsersigPda \notin Key /\ Controller \notin Account
    /\ Nobody \notin Account \cup {Controller} /\ NoTree \notin Tree
    /\ MaxLeaves \in Nat /\ MaxCount \in Nat
    /\ ForeignHash \subseteq [from : Key, provider : Account] /\ MaxForeign \in Nat
    /\ Heir \subseteq Account \cup {Controller}

VARIABLES acc,        \* the accounts as the running transaction sees them
          saved,      \* the accounts before that transaction
          signers,    \* keys that signed it, {} when none is running
          counting    \* provider whose leaf is appended but not yet counted

gvars == <<acc, saved, signers, counting>>

(* A leaf, with all who signed for the add_relation (ghost): nobody, if it  *)
(* was appended by a direct call.                                           *)
Leaf == [from : Key, provider : Account, by : SUBSET Account]

Accounts ==
    [owner    : [Account -> Account \cup {Nobody}],     \* Provider.authority
     count    : [Account -> 0..MaxCount],               \* Provider.relations_count
     treeAuth : [Tree -> Account \cup {Controller, Nobody}],
     leaves   : [Tree -> Seq(Leaf)],
     tree     : Tree \cup {NoTree}]                     \* Controller.tree

GTypeOK ==
    /\ acc \in Accounts /\ saved \in Accounts
    /\ signers \subseteq Key
    /\ counting \in Account \cup {Nobody}

Genesis ==
    [owner    |-> [a \in Account |-> Nobody],
     count    |-> [a \in Account |-> 0],
     treeAuth |-> [t \in Tree |-> Nobody],
     leaves   |-> [t \in Tree |-> <<>>],
     tree     |-> NoTree]

GInit == acc = Genesis /\ saved = Genesis /\ signers = {} /\ counting = Nobody

-----------------------------------------------------------------------------
(* The Solana runtime.                                                      *)

Running == signers # {} /\ counting = Nobody

BeginTransaction ==
    /\ signers = {}
    /\ signers' \in SUBSET Key \ {{}}
    /\ UNCHANGED <<acc, saved, counting>>

CommitTransaction ==
    /\ Running
    /\ saved' = acc /\ signers' = {}
    /\ UNCHANGED <<acc, counting>>

(* Any instruction may fail: by an error, or for want of compute units.     *)
AbortTransaction ==
    /\ signers # {}
    /\ acc' = saved /\ signers' = {} /\ counting' = Nobody
    /\ UNCHANGED saved

-----------------------------------------------------------------------------
(* The account-compression program, called directly by anyone.              *)

InitEmptyTree(a, t, authority) ==
    [a EXCEPT !.treeAuth[t] = authority]

AppendLeaf(a, t, leaf) == [a EXCEPT !.leaves[t] = Append(@, leaf)]

ForeignTree ==
    /\ Running
    /\ \E t \in Tree, k \in signers :
          /\ acc.treeAuth[t] = Nobody
          /\ acc' = InitEmptyTree(acc, t, k)
    /\ UNCHANGED <<saved, signers, counting>>

(* Whoever is the authority may append any hash, that of any relation, or   *)
(* replace a leaf by it.                                                    *)
ForeignLeaf ==
    /\ Running
    /\ \E t \in Tree, hash \in ForeignHash :
          /\ acc.treeAuth[t] \in signers
          /\ LET leaf == [from |-> hash.from, provider |-> hash.provider, by |-> {}]
             IN \/ /\ Len(acc.leaves[t]) < MaxForeign
                   /\ acc' = AppendLeaf(acc, t, leaf)
                \/ \E i \in DOMAIN acc.leaves[t] :
                      acc' = [acc EXCEPT !.leaves[t][i] = leaf]
    /\ UNCHANGED <<saved, signers, counting>>

(* It may hand the tree, with what is in it, to anybody who need not agree: *)
(* to usersig's provider, or to the controller.                             *)
ForeignTransfer ==
    /\ Running
    /\ \E t \in Tree, authority \in Heir :
          /\ acc.treeAuth[t] \in signers
          /\ acc' = [acc EXCEPT !.treeAuth[t] = authority]
    /\ UNCHANGED <<saved, signers, counting>>

(* And it may close the tree, when it has replaced all leaves by empty ones.*)
ForeignClose ==
    /\ Running
    /\ \E t \in Tree :
          /\ acc.treeAuth[t] \in signers
          /\ acc' = [acc EXCEPT !.treeAuth[t] = Nobody, !.leaves[t] = <<>>]
    /\ UNCHANGED <<saved, signers, counting>>

-----------------------------------------------------------------------------
(* The graph program.                                                       *)

(* Wrong on purpose: the controller is not "init", only "mut".              *)
InitializeTree_Again ==
    /\ Running
    /\ \E t \in Tree :
          /\ acc.treeAuth[t] = Nobody
          /\ acc' = [InitEmptyTree(acc, t, Controller) EXCEPT !.tree = t]
    /\ UNCHANGED <<saved, signers, counting>>

(* Wrong on purpose: a tree that is the controller's already will do.       *)
InitializeTree_Adopts ==
    /\ Running
    /\ acc.tree = NoTree
    /\ \E t \in Tree :
          /\ acc.treeAuth[t] \in {Nobody, Controller}
          /\ acc' = [InitEmptyTree(acc, t, Controller) EXCEPT !.tree = t]
    /\ UNCHANGED <<saved, signers, counting>>

(* initialize_tree: the controller is created (so this works once), and the *)
(* tree, which must not have been initialized by anyone, gets it as its     *)
(* authority.                                                               *)
InitializeTree ==
    /\ Running
    /\ acc.tree = NoTree
    /\ \E t \in Tree :
          /\ acc.treeAuth[t] = Nobody
          /\ acc' = [InitEmptyTree(acc, t, Controller) EXCEPT !.tree = t]
    /\ UNCHANGED <<saved, signers, counting>>

Provider(a, p, authority) ==
    [a EXCEPT !.owner[p] = authority, !.count[p] = 0]

(* Wrong on purpose: the provider is not "init", only "mut".                *)
InitializeProvider_Again ==
    /\ Running
    /\ \E p \in signers, authority \in Account : acc' = Provider(acc, p, authority)
    /\ UNCHANGED <<saved, signers, counting>>

(* initialize_provider: "init" creates the account, which must sign; its    *)
(* authority is an argument and need not.                                   *)
InitializeProvider ==
    /\ Running
    /\ \E p \in signers, authority \in Account :
          /\ acc.owner[p] = Nobody
          /\ acc' = Provider(acc, p, authority)
    /\ UNCHANGED <<saved, signers, counting>>

(* The first half of add_relation, with the signatures by: the leaf goes to *)
(* the tree of the controller.                                              *)
AppendRelation(p, authority, from, by) ==
    /\ acc.owner[p] = authority /\ authority \in by
    /\ acc.tree # NoTree
    /\ acc.treeAuth[acc.tree] = Controller
    /\ Len(acc.leaves[acc.tree]) < MaxLeaves
    /\ acc' = AppendLeaf(acc, acc.tree, [from |-> from, provider |-> p, by |-> by])
    /\ counting' = p

(* Wrong on purpose: some key signs, "has_one = authority" is missing.       *)
AddRelation_AnyAuthority ==
    /\ Running
    /\ acc.tree # NoTree /\ Len(acc.leaves[acc.tree]) < MaxLeaves
    /\ \E p \in Account, from \in Key :
          /\ acc.owner[p] # Nobody
          /\ acc' = AppendLeaf(acc, acc.tree, [from |-> from, provider |-> p, by |-> signers])
          /\ counting' = p
    /\ UNCHANGED <<saved, signers>>

(* add_relation, called by a transaction: the provider's authority signs.   *)
AddRelation ==
    /\ Running
    /\ \E p \in Account, from \in Key, authority \in signers :
          AppendRelation(p, authority, from, signers)
    /\ UNCHANGED <<saved, signers>>

(* Wrong on purpose: wrapping_add.                                          *)
CountRelation_Wraps ==
    /\ counting # Nobody
    /\ acc' = [acc EXCEPT !.count[counting] = (@ + 1) % (MaxCount + 1)]
    /\ counting' = Nobody
    /\ UNCHANGED <<saved, signers>>

(* Wrong on purpose: an addition without a check.                           *)
CountRelation_Unchecked ==
    /\ counting # Nobody
    /\ acc' = [acc EXCEPT !.count[counting] = @ + 1]
    /\ counting' = Nobody
    /\ UNCHANGED <<saved, signers>>

(* Its second half, checked_add; the error Overflow is AbortTransaction.    *)
CountRelation ==
    /\ counting # Nobody
    /\ acc.count[counting] < MaxCount
    /\ acc' = [acc EXCEPT !.count[counting] = @ + 1]
    /\ counting' = Nobody
    /\ UNCHANGED <<saved, signers>>

-----------------------------------------------------------------------------
(* The usersig program, which signs for its provider.                       *)

(* initialize: initialize_provider with itself as the authority.            *)
UsersigInitialize ==
    /\ Running
    /\ acc.owner[UsersigPda] = Nobody
    /\ acc' = Provider(acc, UsersigPda, UsersigPda)
    /\ UNCHANGED <<saved, signers, counting>>

(* Wrong on purpose: from is an account that need not sign.                 *)
SignRelation_AnyFrom ==
    /\ Running
    /\ \E from \in Key :
          AppendRelation(UsersigPda, UsersigPda, from, signers \cup {UsersigPda})
    /\ UNCHANGED <<saved, signers>>

(* sign_relation: add_relation, from an account that signs.                 *)
SignRelation ==
    /\ Running
    /\ \E from \in signers :
          AppendRelation(UsersigPda, UsersigPda, from, signers \cup {UsersigPda})
    /\ UNCHANGED <<saved, signers>>

-----------------------------------------------------------------------------
Instruction ==
    \/ InitializeTree
    \/ InitializeProvider
    \/ AddRelation
    \/ CountRelation
    \/ UsersigInitialize
    \/ SignRelation
    \/ ForeignTree
    \/ ForeignLeaf
    \/ ForeignTransfer
    \/ ForeignClose

GNext ==
    \/ BeginTransaction
    \/ Instruction
    \/ CommitTransaction
    \/ AbortTransaction

GSpec == GInit /\ [][GNext]_gvars

-----------------------------------------------------------------------------
(* Properties.                                                              *)

Leaves(a) == IF a.tree = NoTree THEN <<>> ELSE a.leaves[a.tree]

LeavesOf(a, p) == {i \in DOMAIN Leaves(a) : Leaves(a)[i].provider = p}

(* Tree and counters agree: in the accounts a transaction leaves behind, no *)
(* matter which of its instructions failed or overflowed, relations_count   *)
(* of every provider is the number of its leaves in the graph's tree.       *)
Counted(a, uncounted) ==
    \A p \in Account :
        Cardinality(LeavesOf(a, p)) = a.count[p] + (IF p = uncounted THEN 1 ELSE 0)

CountsMatchLeaves == Counted(saved, Nobody)

(* lib.rs:117 says of a provider's authority that it "must sign             *)
(* transactions to create relations": nothing gets into the graph's tree    *)
(* otherwise, not even before it became the graph's tree.                   *)
SignedByProvider(a) ==
    \A i \in DOMAIN Leaves(a) :
        a.owner[Leaves(a)[i].provider] \in Leaves(a)[i].by

ProviderSigned == SignedByProvider(saved)

(* README.md:5 of usersig: it "creates relation from user1 to user2 only if *)
(* user1 signs the transaction".  So no relation of its provider is without *)
(* that key, whoever initialized it, whichever program was called, and      *)
(* whatever people have put into other trees, and to whomever they gave     *)
(* them (usersig/src/lib.rs:47-62, graph/src/lib.rs:21-50).                 *)
SignedByUser(a) ==
    \A i \in DOMAIN Leaves(a) :
        Leaves(a)[i].provider = UsersigPda => Leaves(a)[i].from \in Leaves(a)[i].by

UserSigned == SignedByUser(saved)

(* Why they hold, as an inductive invariant.  The graph's tree stays with   *)
(* the controller, a tree nobody has initialized is empty, and usersig is   *)
(* its own authority; of the running transaction, one leaf may be uncounted.*)
(* The controller may have other trees, which people have handed to it.     *)
Sound(a) ==
    /\ a.tree # NoTree => a.treeAuth[a.tree] = Controller
    /\ \A t \in Tree : a.treeAuth[t] = Nobody => a.leaves[t] = <<>>
    /\ a.owner[UsersigPda] \in {Nobody, UsersigPda}
    /\ SignedByProvider(a) /\ SignedByUser(a)

Extends(b, a) ==
    /\ a.tree # NoTree => b.tree = a.tree
    /\ IsPrefix(Leaves(a), Leaves(b))
    /\ \A p \in Account : a.owner[p] # Nobody => b.owner[p] = a.owner[p]

(* What the running transaction has done so far is the right of its         *)
(* signers, or what the programs do for anyone.                             *)
ByRight(leaf) ==
    \/ acc.owner[leaf.provider] \in signers
    \/ /\ leaf.provider = UsersigPda /\ leaf.from \in signers
       /\ acc.owner[UsersigPda] = UsersigPda

WithinRights ==
    /\ \A p \in Account : acc.owner[p] # saved.owner[p] => p \in signers \cup {UsersigPda}
    /\ \A i \in DOMAIN Leaves(acc) \ DOMAIN Leaves(saved) : ByRight(Leaves(acc)[i])

GInv ==
    /\ GTypeOK
    /\ Sound(saved) /\ Counted(saved, Nobody)
    /\ Sound(acc) /\ Counted(acc, counting)
    /\ Extends(acc, saved) /\ WithinRights
    /\ signers = {} => acc = saved /\ counting = Nobody

(* The registry only grows: the graph keeps its tree, the tree its leaves,  *)
(* and a provider its authority, from any transaction to the next.          *)
OnlyGrows == [][Extends(saved', saved)]_gvars

(* The programs implement the registry: whatever instructions a transaction *)
(* puts together, in whatever order, and wherever it fails, what it leaves  *)
(* behind is a step within the rights of its signers (graph/src/lib.rs:21-  *)
(* 106, 135-183 and usersig/src/lib.rs:22-62).                              *)
Relations(a) ==
    [i \in DOMAIN Leaves(a) |->
        [from |-> Leaves(a)[i].from, provider |-> Leaves(a)[i].provider]]

RegistryOf == INSTANCE Registry WITH
    Usersig <- UsersigPda,
    authority <- saved.owner,
    count <- saved.count,
    relations <- Relations(saved)

KeepsRegistry == RegistryOf!RSpec

=============================================================================
