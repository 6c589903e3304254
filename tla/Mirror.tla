------------------------------- MODULE Mirror -------------------------------
(***************************************************************************)
(* From the chain to MongoDB: how the indexer finds relations in the       *)
(* transactions of a block.  The programs of GraphProgram run; a block     *)
(* shows each transaction, also a failed one, with its outer instructions  *)
(* and the inner ones its programs called.  TxFromBlockTransaction         *)
(* (cli/cli.go) picks transactions, findAddInst (processor.go) picks       *)
(* instructions, and process inserts a document for each.                  *)
(*                                                                         *)
(* Each block counts once here; Processor is about how often it is read.   *)
(***************************************************************************)
EXTENDS GraphProgram

VARIABLES form,     \* what kind of transaction is running
          trace,    \* its instructions to the graph program that read as add_relation
          docs,     \* how many documents of each relation MongoDB holds
          unseen    \* leaves added in transactions the indexer does not take (ghost)

mvars == <<gvars, form, trace, docs, unseen>>

Form == {"legacy",      \* no version, or the version "legacy"
         "versioned",   \* has a version number
         "vote"}        \* its first instruction is one of the vote program

(* A relation of the index: from, and accounts[0] of the instruction.       *)
Pair == Account \X Account

(* A compiled instruction that deserializes as addRelationParams; outer or  *)
(* inner, the discriminator in its first 8 bytes is never looked at.        *)
Inst == [from : Account, provider : Account, inner : BOOLEAN]

MTypeOK ==
    /\ GTypeOK
    /\ form \in Form /\ trace \in Seq(Inst)
    /\ docs \in [Pair -> Nat] /\ unseen \in [Pair -> Nat]

MInit ==
    /\ GInit
    /\ form = "legacy" /\ trace = <<>>
    /\ docs = [d \in Pair |-> 0] /\ unseen = [d \in Pair |-> 0]

-----------------------------------------------------------------------------
(* The indexer.                                                             *)

(* Wrong on purpose: whether the transaction has failed is not looked at.   *)
Included_Failed(kind, failed) == kind = "legacy"

(* TxFromBlockTransaction: which transactions of a block are looked into.   *)
Included(kind, failed) == kind = "legacy" /\ ~ failed

(* Wrong on purpose: only outer instructions are searched.                  *)
FindAddInst_Outer(t, d) ==
    {k \in DOMAIN t : t[k].from = d[1] /\ t[k].provider = d[2] /\ ~ t[k].inner}

(* findAddInst: the instructions of a transaction that become document d.   *)
FindAddInst(t, d) == {k \in DOMAIN t : t[k].from = d[1] /\ t[k].provider = d[2]}

Process(kind, failed) ==
    docs' = IF Included(kind, failed)
            THEN [d \in Pair |-> docs[d] + Cardinality(FindAddInst(trace, d))]
            ELSE docs

-----------------------------------------------------------------------------
(* The chain, and what it shows of each instruction.                        *)

LeavesBy(a, d) ==
    {i \in DOMAIN Leaves(a) : Leaves(a)[i].from = d[1] /\ Leaves(a)[i].provider = d[2]}

Shows(from, provider, inner) ==
    trace' = Append(trace, [from |-> from, provider |-> provider, inner |-> inner])

(* add_relation has just appended a leaf.                                   *)
ShowsLeaf(inner) ==
    Shows(Last(Leaves(acc')).from, Last(Leaves(acc')).provider, inner)

(* initialize_provider has its authority where add_relation has from, and   *)
(* the provider as accounts[0] too.  Name and website read as "to" and      *)
(* "extra" for some lengths of the name, 28 bytes for one.  usersig's name  *)
(* has 31 bytes, which do not, and the 8 bytes of initialize_tree never do. *)
ShowsProvider ==
    \E p \in Account : /\ acc.owner[p] = Nobody /\ acc'.owner[p] # Nobody
                       /\ Shows(acc'.owner[p], p, FALSE)

Execute ==
    /\ \/ AddRelation /\ ShowsLeaf(FALSE)
       \/ SignRelation /\ ShowsLeaf(TRUE)
       \/ InitializeProvider /\ (ShowsProvider \/ UNCHANGED trace)
       \/ /\ InitializeTree \/ CountRelation \/ UsersigInitialize
             \/ ForeignTree \/ ForeignLeaf \/ ForeignTransfer \/ ForeignClose
          /\ UNCHANGED trace
    /\ UNCHANGED <<form, docs, unseen>>

Begin == /\ BeginTransaction /\ form' \in Form
         /\ UNCHANGED <<trace, docs, unseen>>

Commit ==
    /\ CommitTransaction
    /\ Process(form, FALSE)
    /\ unseen' = IF form = "legacy" THEN unseen
                 ELSE [d \in Pair |-> unseen[d] + Cardinality(LeavesBy(acc, d))
                                                - Cardinality(LeavesBy(saved, d))]
    /\ form' = "legacy" /\ trace' = <<>>

Abort ==
    /\ AbortTransaction
    /\ Process(form, TRUE)
    /\ form' = "legacy" /\ trace' = <<>>
    /\ UNCHANGED unseen

MNext == Begin \/ Execute \/ Commit \/ Abort

MSpec == MInit /\ [][MNext]_mvars

-----------------------------------------------------------------------------
(* Properties.                                                              *)

Count(a, d) == Cardinality(LeavesBy(a, d))

(* Complete, as far as it goes: every relation in the graph's tree, added   *)
(* directly or through usersig, has its document with the right from and    *)
(* provider, except those added in a transaction the indexer does not take  *)
(* (TxFromBlockTransaction, cli.go:372-429; findAddInst, processor.go:255). *)
NoRelationMissed == \A d \in Pair : Count(saved, d) <= docs[d] + unseen[d]

(* And sound, as far as it goes: beyond the leaves, whatever failed and     *)
(* rolled back, there is at most one document for a provider, and it names  *)
(* the provider's authority as its from.                                    *)
NothingInvented ==
    \A d \in Pair :
        docs[d] + unseen[d] <= Count(saved, d) + (IF saved.owner[d[2]] = d[1] THEN 1 ELSE 0)

(* Why they hold, as an inductive invariant.  Of the running transaction,   *)
(* the trace shows each leaf added so far, and one instruction more at most *)
(* for a provider it has initialized; outside of one there is no trace.     *)
TraceShows ==
    /\ signers = {} => trace = <<>>
    /\ \A d \in Pair :
          LET added == Count(acc, d) - Count(saved, d)
              shown == Cardinality(FindAddInst(trace, d))
          IN /\ Count(saved, d) <= Count(acc, d)
             /\ added <= shown
             /\ shown <= added + (IF acc.owner[d[2]] = d[1] /\ saved.owner[d[2]] = Nobody
                                  THEN 1 ELSE 0)

MInv == MTypeOK /\ NoRelationMissed /\ NothingInvented /\ TraceShows

(* processor.go:270 says of what findAddInst passes over that it is "not an *)
(* add_relation instruction": so what it does not pass over is one, and no  *)
(* document is without a leaf.                                              *)
OnlyAddRelation == \A d \in Pair : docs[d] <= Count(saved, d)

=============================================================================
