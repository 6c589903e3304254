----------------------------- MODULE Processor -----------------------------
(***************************************************************************)
(* The block processors of the indexer (indexer/processor.go): goroutines  *)
(* that share a Redis consumer group, each looping over                    *)
(*                                                                         *)
(*   claim  FindStaleBlocks      XAUTOCLAIM what has been idle too long    *)
(*   read   FetchStreamEvents    XREADGROUP up to batchSize entries        *)
(*   fetch  rpc.GetBlocks        one round of getBlock calls per attempt   *)
(*   save   process              insert the relations of the blocks        *)
(*   readd  AddBlocks            queue the failed blocks again             *)
(*   ack    AcknowledgeBlocks    XACK the whole batch                      *)
(*                                                                         *)
(* An error at any step makes ProcessBlocks return, and the loop starts a  *)
(* new round; what was delivered stays pending in Redis.                   *)
(***************************************************************************)
EXTENDS BlockStream, SequencesExt

CONSTANTS Consumer,       \* processor goroutines
          Responsive,     \* those whose calls always return in the end
          BatchSize,      \* 20 in the code
          Retries,        \* attempts after the first one (4 in the code)
          Relation,       \* relations on the chain, one per transaction
          BlockOf,        \* the block each of them is in
          Versioned,      \* relations added by a transaction that is not "legacy"
          Undecodable,    \* relations whose transaction the indexer cannot parse
          MaxEnqueued     \* bound: length up to which the environment adds blocks

ASSUME ProcessorAssumption ==
    /\ IsFiniteSet(Consumer) /\ Responsive \subseteq Consumer
    /\ BatchSize \in Nat \ {0} /\ Retries \in Nat
    /\ BlockOf \in [Relation -> Block]
    /\ Versioned \subseteq Relation /\ Undecodable \subseteq Relation
    /\ Versioned \cap Undecodable = {}
    /\ MaxEnqueued \in Nat

VARIABLES pc,       \* the step each processor is at
          batch,    \* entries of its current round (the keys of the Go map)
          ids,      \* the same in the order of values(batch); stands for the blocks
          want,     \* entries asked for in the current attempt of GetBlocks
          left,     \* retries left
          got,      \* entries whose slot of the result holds a block
          requeue,  \* entries whose block will be added again
          todo,     \* inserts still to be done
          missed,   \* blocks GetBlocks neither returned nor reported (ghost)
          store,    \* how many documents MongoDB holds of each relation
          dropped   \* blocks acknowledged while missed (ghost)

localVars == <<pc, batch, ids, want, left, got, requeue, todo, missed>>
procVars  == <<localVars, store, dropped>>
pvars     == <<streamVars, faults, procVars>>

Steps == {"claim", "read", "fetch", "save", "readd", "ack"}

-----------------------------------------------------------------------------
(* What fetchBlocks makes of a block.  TxFromBlockTransaction leaves out    *)
(* transactions with a version and errors on undecodable ones; the error is *)
(* reported for the block, the other transactions are returned all the same.*)

RelationsIn(b) == {r \in Relation : BlockOf[r] = b}
Indexable(b)   == RelationsIn(b) \ Versioned
Parsed(b)      == Indexable(b) \ Undecodable
Poisoned(b)    == RelationsIn(b) \cap Undecodable # {}

Indexed(b) == \A r \in Indexable(b) : store[r] > 0
Queued(b)  == \E i \in Entry : stream[i] = b /\ Owed(i)

LocalTypeOK ==
    /\ pc \in [Consumer -> Steps]
    /\ batch \in [Consumer -> SUBSET Entry]
    /\ ids \in [Consumer -> Seq(Entry)]
    /\ want \in [Consumer -> Seq(Entry)]
    /\ left \in [Consumer -> 0..Retries]
    /\ got \in [Consumer -> SUBSET Entry]
    /\ requeue \in [Consumer -> SUBSET Entry]
    /\ todo \in [Consumer -> SUBSET (Entry \X Relation)]
    /\ missed \in [Consumer -> SUBSET Block]

PTypeOK ==
    /\ StreamTypeOK /\ LocalTypeOK
    /\ store \in [Relation -> Nat]
    /\ dropped \subseteq Block

LocalInit ==
    /\ pc = [c \in Consumer |-> "claim"]
    /\ batch = [c \in Consumer |-> {}]
    /\ ids = [c \in Consumer |-> <<>>]
    /\ want = [c \in Consumer |-> <<>>]
    /\ left = [c \in Consumer |-> 0]
    /\ got = [c \in Consumer |-> {}]
    /\ requeue = [c \in Consumer |-> {}]
    /\ todo = [c \in Consumer |-> {}]
    /\ missed = [c \in Consumer |-> {}]

StoreInit == store = [r \in Relation |-> 0] /\ dropped = {}

PInit == StreamInit /\ faults = 0 /\ LocalInit /\ StoreInit

-----------------------------------------------------------------------------
(* The end of a round: ProcessBlocks returns and its locals are gone.       *)
EndRound(c) ==
    /\ pc' = [pc EXCEPT ![c] = "claim"]
    /\ batch' = [batch EXCEPT ![c] = {}]
    /\ ids' = [ids EXCEPT ![c] = <<>>]
    /\ want' = [want EXCEPT ![c] = <<>>]
    /\ left' = [left EXCEPT ![c] = 0]
    /\ got' = [got EXCEPT ![c] = {}]
    /\ requeue' = [requeue EXCEPT ![c] = {}]
    /\ todo' = [todo EXCEPT ![c] = {}]
    /\ missed' = [missed EXCEPT ![c] = {}]

-----------------------------------------------------------------------------
(* claim: redis.FindStaleBlocks.                                            *)

(* Wrong on purpose: the round does not look for what others left behind.   *)
FindStaleBlocks_Skipped(c) ==
    /\ pc[c] = "claim"
    /\ pc' = [pc EXCEPT ![c] = "read"]
    /\ NoFault
    /\ UNCHANGED <<batch, ids, want, left, got, requeue, todo, missed, store, dropped>>
    /\ UNCHANGED streamVars

FindStaleBlocks(c) ==
    /\ pc[c] = "claim"
    /\ XAutoClaim(BatchSize)
    /\ batch' = [batch EXCEPT ![c] = Claimed(BatchSize)]
    /\ pc' = [pc EXCEPT ![c] = "read"]
    /\ NoFault
    /\ UNCHANGED <<ids, want, left, got, requeue, todo, missed, store, dropped>>

(* Redis claims the entries, the reply does not arrive: the round ends and  *)
(* the entries are nobody's until they are stale again.                     *)
ClaimReplyLost(c) ==
    /\ pc[c] = "claim"
    /\ Fail("redis")
    /\ XAutoClaim(BatchSize)
    /\ UNCHANGED procVars

-----------------------------------------------------------------------------
(* read: redis.FetchStreamEvents for what is left of the batch, and the     *)
(* merge of the two maps.  Go iterates over a map in any order.             *)

Remaining(b) == BatchSize - Cardinality(b)

Merged(c) == batch[c] \cup NewEntries(Remaining(batch[c]))

FetchStreamEvents(c) ==
    /\ pc[c] = "read"
    /\ XReadGroup(Remaining(batch[c]))
    /\ batch' = [batch EXCEPT ![c] = Merged(c)]
    /\ IF Merged(c) = {}
       THEN /\ pc' = [pc EXCEPT ![c] = "claim"]
            /\ UNCHANGED <<ids, want, left>>
       ELSE /\ pc' = [pc EXCEPT ![c] = "fetch"]
            /\ \E order \in SetToSeqs(Merged(c)) :
                  /\ ids' = [ids EXCEPT ![c] = order]
                  /\ want' = [want EXCEPT ![c] = order]
            /\ left' = [left EXCEPT ![c] = Retries]
    /\ NoFault
    /\ UNCHANGED <<got, requeue, todo, missed, store, dropped>>

(* XREADGROUP fails, before or after Redis has delivered the entries, or    *)
(* its reply cannot be decoded.  What FindStaleBlocks has claimed is        *)
(* forgotten as well.                                                       *)
FetchStreamEventsFails(c) ==
    /\ pc[c] = "read"
    /\ Fail("redis")
    /\ XReadGroup(Remaining(batch[c])) \/ UNCHANGED streamVars
    /\ EndRound(c)
    /\ UNCHANGED <<store, dropped>>

-----------------------------------------------------------------------------
(* fetch: rpc.GetBlocks.  An attempt asks for the entries of want[c]; the   *)
(* reply has no block for the positions in none and an error for those in   *)
(* flagged.                                                                 *)

(* A block with an undecodable transaction is returned with an error.       *)
Flagged(w, none) == none \cup {k \in DOMAIN w : Poisoned(stream[w[k]])}

(* Wrong on purpose: the first position is taken for "no failure".          *)
FailedIdx_NotTheFirst(w, flagged) == flagged \ {1}

(* The map "failed" of GetBlocks: one position per block, the last one.     *)
FailedIdx(w, flagged) ==
    {k \in flagged : \A j \in flagged : stream[w[j]] = stream[w[k]] => j <= k}

(* blocks, after the reply to this attempt has been copied into it.         *)
Filled(have, w, none) ==
    (have \ ToSet(w)) \cup {w[k] : k \in DOMAIN w \ none}

(* processBlocks: failed[i] = ids[f].  The index f is a position in the     *)
(* list of the last attempt, ids is the list of the first one.              *)
ReportedFailed(c, idx) == {ids[c][k] : k \in idx}

(* Wrong on purpose: the failed blocks are not added again.                 *)
AfterFetch_NothingAgain(inserts, again) ==
    IF inserts # {} THEN "save" ELSE "ack"

(* The next step of a round with these inserts and re-adds still to do.     *)
AfterFetch(inserts, again) ==
    IF inserts # {} THEN "save" ELSE IF again # {} THEN "readd" ELSE "ack"

BlocksOf(S) == {stream[i] : i \in S}

FinishFetch(c, have, idx) ==
    LET again   == ReportedFailed(c, idx)
        inserts == UNION {{i} \X Parsed(stream[i]) : i \in have}
        whole   == {b \in BlocksOf(have) : ~ Poisoned(b)}
    IN  /\ requeue' = [requeue EXCEPT ![c] = again]
        /\ todo' = [todo EXCEPT ![c] = inserts]
        /\ missed' = [missed EXCEPT ![c] =
                        BlocksOf(batch[c]) \ (whole \cup BlocksOf(again))]
        /\ pc' = [pc EXCEPT ![c] = AfterFetch(inserts, again)]
        /\ want' = [want EXCEPT ![c] = <<>>]
        /\ left' = [left EXCEPT ![c] = 0]
        /\ got' = [got EXCEPT ![c] = {}]

(* Wrong on purpose: what has failed is put behind the list of before.      *)
Retry_Appends(c, have, again) ==
    /\ \E order \in SetToSeqs(again) : want' = [want EXCEPT ![c] = @ \o order]
    /\ left' = [left EXCEPT ![c] = left[c] - 1]
    /\ got' = [got EXCEPT ![c] = have]
    /\ UNCHANGED <<pc, requeue, todo, missed>>

Retry(c, have, again) ==
    /\ \E order \in SetToSeqs(again) : want' = [want EXCEPT ![c] = order]
    /\ left' = [left EXCEPT ![c] = left[c] - 1]
    /\ got' = [got EXCEPT ![c] = have]
    /\ UNCHANGED <<pc, requeue, todo, missed>>

(* Wrong on purpose: retries without end.                                   *)
AfterReply_NoEnd(c, none, flagged) ==
    LET w    == want[c]
        idx  == FailedIdx(w, flagged)
        have == Filled(got[c], w, none)
    IN  /\ IF idx = {} THEN FinishFetch(c, have, idx)
           ELSE Retry(c, have, {w[k] : k \in idx})
        /\ UNCHANGED <<streamVars, batch, ids, store, dropped>>

AfterReply(c, none, flagged) ==
    LET w    == want[c]
        idx  == FailedIdx(w, flagged)
        have == Filled(got[c], w, none)
    IN  /\ IF idx = {} \/ left[c] = 0
           THEN FinishFetch(c, have, idx)
           ELSE Retry(c, have, {w[k] : k \in idx})
        /\ UNCHANGED <<streamVars, batch, ids, store, dropped>>

(* The batch request is answered, with an error for some of its calls.      *)
BlocksFetched(c) ==
    /\ pc[c] = "fetch"
    /\ \E none \in SUBSET DOMAIN want[c] :
          /\ IF none = {} THEN NoFault ELSE Fail("block")
          /\ AfterReply(c, none, Flagged(want[c], none))

(* The batch request fails as a whole: fetchBlocks returns no block and a   *)
(* list of one error, which GetBlocks takes for the error of the first.     *)
BatchRequestFails(c) ==
    /\ pc[c] = "fetch"
    /\ Fail("batch")
    /\ AfterReply(c, DOMAIN want[c], {1})

-----------------------------------------------------------------------------
(* save: mongo.SaveRelations, transaction by transaction.  The order in     *)
(* which the relations of a batch are inserted is left open.                *)

(* Wrong on purpose: what was inserted is inserted again.                   *)
SaveRelation_Twice(c) ==
    /\ pc[c] = "save"
    /\ \E ins \in todo[c] :
          /\ store' = [store EXCEPT ![ins[2]] = @ + 2]
          /\ todo' = [todo EXCEPT ![c] = @ \ {ins}]
          /\ pc' = [pc EXCEPT ![c] = AfterFetch(todo[c] \ {ins}, requeue[c])]
    /\ NoFault
    /\ UNCHANGED <<streamVars, batch, ids, want, left, got, requeue, missed, dropped>>

SaveRelation(c) ==
    /\ pc[c] = "save"
    /\ \E ins \in todo[c] :
          /\ store' = [store EXCEPT ![ins[2]] = @ + 1]
          /\ todo' = [todo EXCEPT ![c] = @ \ {ins}]
          /\ pc' = [pc EXCEPT ![c] = AfterFetch(todo[c] \ {ins}, requeue[c])]
    /\ NoFault
    /\ UNCHANGED <<streamVars, batch, ids, want, left, got, requeue, missed, dropped>>

(* Wrong on purpose: the error is logged and the round goes on.             *)
SaveRelationFails_GoesOn(c) ==
    /\ pc[c] = "save"
    /\ Fail("mongo")
    /\ todo' = [todo EXCEPT ![c] = {}]
    /\ pc' = [pc EXCEPT ![c] = AfterFetch({}, requeue[c])]
    /\ UNCHANGED <<streamVars, batch, ids, want, left, got, requeue, missed, store, dropped>>

(* InsertMany fails, with or without the document in the collection.        *)
SaveRelationFails(c) ==
    /\ pc[c] = "save"
    /\ Fail("mongo")
    /\ \/ \E ins \in todo[c] : store' = [store EXCEPT ![ins[2]] = @ + 1]
       \/ UNCHANGED store
    /\ EndRound(c)
    /\ UNCHANGED <<streamVars, dropped>>

-----------------------------------------------------------------------------
(* readd: redis.AddBlocks(failed), one pipelined XADD after the other.      *)

(* Wrong on purpose: a block that some other entry is still owed for is not *)
(* added again, as the comment on AddBlocks (redis.go:99-100) has it.       *)
AddFailedBlock_UnlessQueued(c) ==
    /\ pc[c] = "readd"
    /\ \E i \in requeue[c] :
          /\ IF \E j \in Entry \ batch[c] : stream[j] = stream[i] /\ Owed(j)
             THEN UNCHANGED streamVars
             ELSE XAdd(stream[i])
          /\ requeue' = [requeue EXCEPT ![c] = @ \ {i}]
          /\ pc' = [pc EXCEPT ![c] = AfterFetch({}, requeue[c] \ {i})]
    /\ NoFault
    /\ UNCHANGED <<batch, ids, want, left, got, todo, missed, store, dropped>>

AddFailedBlock(c) ==
    /\ pc[c] = "readd"
    /\ \E i \in requeue[c] :
          /\ XAdd(stream[i])
          /\ requeue' = [requeue EXCEPT ![c] = @ \ {i}]
          /\ pc' = [pc EXCEPT ![c] = AfterFetch({}, requeue[c] \ {i})]
    /\ NoFault
    /\ UNCHANGED <<batch, ids, want, left, got, todo, missed, store, dropped>>

(* The connection breaks after some of the XADDs; nothing is acknowledged.  *)
AddFailedBlocksFails(c) ==
    /\ pc[c] = "readd"
    /\ Fail("redis")
    /\ UNCHANGED streamVars \/ \E i \in requeue[c] : XAdd(stream[i])
    /\ EndRound(c)
    /\ UNCHANGED <<store, dropped>>

-----------------------------------------------------------------------------
(* ack: redis.AcknowledgeBlocks(keys(batch)).                               *)

AcknowledgeBlocks(c) ==
    /\ pc[c] = "ack"
    /\ XAck(batch[c])
    /\ dropped' = dropped \cup missed[c]
    /\ EndRound(c)
    /\ NoFault
    /\ UNCHANGED store

AcknowledgeBlocksFails(c) ==
    /\ pc[c] = "ack"
    /\ Fail("redis")
    /\ \/ XAck(batch[c]) /\ dropped' = dropped \cup missed[c]
       \/ UNCHANGED <<streamVars, dropped>>
    /\ EndRound(c)
    /\ UNCHANGED store

-----------------------------------------------------------------------------
ProcessBlocks(c) ==
    \/ FindStaleBlocks(c)
    \/ FetchStreamEvents(c)
    \/ BlocksFetched(c)
    \/ SaveRelation(c)
    \/ AddFailedBlock(c)
    \/ AcknowledgeBlocks(c)

ProcessBlocksFails(c) ==
    \/ ClaimReplyLost(c)
    \/ FetchStreamEventsFails(c)
    \/ BatchRequestFails(c)
    \/ SaveRelationFails(c)
    \/ AddFailedBlocksFails(c)
    \/ AcknowledgeBlocksFails(c)

ProcessorStep ==
    \/ \E c \in Consumer : ProcessBlocks(c) \/ ProcessBlocksFails(c)
    \/ \E i \in pending : GoesStale(i) /\ UNCHANGED procVars

(* The process dies with all its goroutines; Redis and MongoDB remain.      *)
ProcessorsCrash ==
    /\ pc' = [c \in Consumer |-> "claim"]
    /\ batch' = [c \in Consumer |-> {}]
    /\ ids' = [c \in Consumer |-> <<>>]
    /\ want' = [c \in Consumer |-> <<>>]
    /\ left' = [c \in Consumer |-> 0]
    /\ got' = [c \in Consumer |-> {}]
    /\ requeue' = [c \in Consumer |-> {}]
    /\ todo' = [c \in Consumer |-> {}]
    /\ missed' = [c \in Consumer |-> {}]
    /\ UNCHANGED <<store, dropped>>

PCrash == Fail("crash") /\ ProcessorsCrash /\ UNCHANGED streamVars

(* The harvester, as the processors see it: it adds some block.             *)
Enqueue == /\ Len(stream) < MaxEnqueued
           /\ \E b \in Block : XAdd(b)
           /\ NoFault /\ UNCHANGED procVars

(* Not a step of the code: a block to be added again finds the model full.  *)
ModelFull == /\ Len(stream) = MaxEntries
             /\ \E c \in Consumer : pc[c] = "readd"
             /\ UNCHANGED pvars

PNext == ProcessorStep \/ PCrash \/ Enqueue \/ ModelFull

PSpec == PInit /\ [][PNext]_pvars

(* Fairness: the goroutines run, and the calls of the responsive ones end;  *)
(* faults are not fair, and their number is bounded.  Time passes.          *)
PFairSpec ==
    /\ PSpec
    /\ \A c \in Responsive : WF_pvars(ProcessBlocks(c))
    /\ \A i \in 1..MaxEntries : WF_pvars(GoesStale(i) /\ UNCHANGED procVars)

-----------------------------------------------------------------------------
(* Properties.                                                              *)

(* At-least-once processing, as far as it goes.  A block that was ever      *)
(* queued is fully in MongoDB, or Redis still owes it to a processor, or it *)
(* is one of the two known kinds of loss: acknowledged although GetBlocks   *)
(* misreported it (dropped), or cut off by MAXLEN.  So crashes, lost        *)
(* replies, failed inserts, stale claims and requeuing lose nothing.        *)
Lost(b) == b \in dropped \/ \E i \in evicted : stream[i] = b

NoSilentLoss ==
    \A i \in Entry : Indexed(stream[i]) \/ Queued(stream[i]) \/ Lost(stream[i])

(* The processors and the stream implement the ledger: from whatever step a *)
(* round is cut off, retried or overtaken at, blocks cease to be due only   *)
(* when stored or lost, and only what a received block carries is stored    *)
(* (ProcessBlocks, processor.go:114-170; redis.go; mongo.go:34-45).         *)
LedgerOf == INSTANCE Ledger WITH
    known <- {stream[i] : i \in Entry},
    due   <- {b \in Block : Queued(b)},
    lost  <- {b \in Block : Lost(b)}

KeepsLedger == LedgerOf!LSpec

(* Why NoSilentLoss holds, as an inductive invariant.  Once a round has fetched its   *)
(* batch, each block of it is missed, or stored up to the inserts to come,  *)
(* or about to be added again, or some entry after all of the batch is owed *)
(* for it.  "After" matters: of two rounds that hold copies of one block,   *)
(* only the one with the older copy may count on the other.                 *)
Later(c, b) == \E i \in Entry : /\ stream[i] = b /\ Owed(i)
                                /\ \A e \in batch[c] : e < i

Accounted(c, b) ==
    \/ b \in missed[c]
    \/ \A r \in Indexable(b) : store[r] > 0 \/ \E e \in Entry : <<e, r>> \in todo[c]
    \/ \E q \in requeue[c] : stream[q] = b
    \/ Later(c, b)
    \/ Lost(b)

BatchAccounted(c) ==
    /\ pc[c] \in {"save", "readd", "ack"} =>
            \A e \in batch[c] : Accounted(c, stream[e])
    /\ pc[c] \in {"readd", "ack"} => todo[c] = {}
    /\ pc[c] = "ack" => requeue[c] = {}

(* No index out of range: however often GetBlocks retries, a position in    *)
(* the list of the last attempt is one in the list of the batch, where      *)
(* processBlocks looks it up (processor.go:193-195); Go would panic.        *)
RetriesFit ==
    \A c \in Consumer :
        pc[c] = "fetch" => want[c] # <<>> /\ Len(want[c]) <= Len(ids[c])

PInv == /\ PTypeOK /\ EvictedKnown /\ RetriesFit /\ NoSilentLoss
        /\ \A c \in Consumer : BatchAccounted(c)

(* Misreporting needs company: a round that processes one entry only never  *)
(* acknowledges a block it neither stored nor queued again, whatever the    *)
(* RPC node does (processor.go:174-186, cli.go:226-270).                    *)
MissNeedsCompany ==
    \A c \in Consumer : missed[c] # {} => Cardinality(batch[c]) > 1

(* No document without a delivery: MongoDB never holds more copies of a     *)
(* relation than Redis has handed out entries of its block.  Retries inside *)
(* GetBlocks and the merging of the two batches add no copies of their own. *)
Handed(b) ==
    UNION {{i} \X (1..deliveries[i]) : i \in {j \in Entry : stream[j] = b}}

CopiesArePaidFor ==
    \A r \in Relation : store[r] <= Cardinality(Handed(BlockOf[r]))

(* What is behind a loss.  With batches of one, or another reason to trust  *)
(* what GetBlocks reports as failed, no fault loses a block by itself: one  *)
(* that is neither stored nor owed any more was queued before the newest    *)
(* MaxStreamLen entries, so MAXLEN has cut it off (redis.go:103-124, with   *)
(* ProcessBlocks, processor.go:114-198).                                    *)
LossNeedsBacklog ==
    \A i \in Entry :
        \/ Indexed(stream[i]) \/ Queued(stream[i])
        \/ \E j \in 1..(Len(stream) - MaxStreamLen) : stream[j] = stream[i]

(* Why copies are paid for, inductively.  A round can insert a relation      *)
(* once for each entry of its block that it holds, until it has done so;    *)
(* every such insert to come is paid for by a delivery, as are the copies.  *)
MayInsert(c, e, r) ==
    /\ stream[e] = BlockOf[r]
    /\ \/ pc[c] \in {"read", "fetch"} /\ e \in batch[c]
       \/ <<e, r>> \in todo[c]

InsertsToCome(r) == {x \in Consumer \X Entry : MayInsert(x[1], x[2], r)}

PaidFor(r) ==
    store[r] + Cardinality(InsertsToCome(r)) <= Cardinality(Handed(BlockOf[r]))

OwnEntriesOnly(c) ==
    /\ IF pc[c] = "fetch" THEN got[c] \cup ToSet(want[c]) \subseteq batch[c]
                          ELSE got[c] = {}
    /\ \A ins \in todo[c] : stream[ins[1]] = BlockOf[ins[2]]

(* What XAUTOCLAIM and XREADGROUP return together (processor.go:126-127).   *)
BatchFits == \A c \in Consumer : Cardinality(batch[c]) <= BatchSize

CInv == /\ PInv /\ BatchFits
        /\ \A c \in Consumer : OwnEntriesOnly(c)
        /\ \A r \in Relation : PaidFor(r)

(* What the comment on processBlocks promises ("returns blocks that we      *)
(* failed to process"): every block of the batch that was not fetched whole *)
(* is among those it returns.                                               *)
FailedBlocksAreReturned == \A c \in Consumer : missed[c] = {}

(* Every entry comes to rest: its block ends up in MongoDB or is one of the *)
(* known losses, even when a processor hangs with the entry in its batch.   *)
Settled(i) ==
    i \in Entry /\ (Indexed(stream[i]) \/ Lost(stream[i]))

EveryEntrySettles ==
    \A i \in 1..MaxEntries : i \in Entry ~> Settled(i)

=============================================================================
