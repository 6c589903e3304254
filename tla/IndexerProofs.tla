--------------------------- MODULE IndexerProofs ---------------------------
(***************************************************************************)
(* Proofs about the whole indexer: the invariants of the harvester and of  *)
(* the processors hold together, although each changes the stream of the   *)
(* other and one crash ends both, and they add up to the end-to-end one.   *)
(* And that the processors, and the whole, implement the abstract Ledger.   *)
(***************************************************************************)
EXTENDS Indexer, HarvesterProofs, ProcessorProofs

(* Steps of the processors only ever extend the history of the stream.      *)
LEMMA ProcessorGrows ==
    ASSUME PInv, ProcessorStep
    PROVE  Grows
<1>1. StreamTypeOK /\ EvictedKnown /\ LocalTypeOK
  BY DEF PInv, PTypeOK
<1>2. CASE UNCHANGED stream
  BY <1>2 DEF Grows, Entry
<1>3. ASSUME NEW c \in Consumer, AddFailedBlock(c) \/ AddFailedBlocksFails(c)
      PROVE  Grows
  <2>1. \A i \in requeue[c] : stream[i] \in Block
    BY <1>1 DEF LocalTypeOK, StreamTypeOK, Entry
  <2>2. UNCHANGED stream \/ \E b \in Block : XAdd(b)
    BY <1>3, <2>1 DEF AddFailedBlock, AddFailedBlocksFails, streamVars
  <2>. QED
    BY <1>1, <1>2, <2>2, XAddKeeps
<1>4. ASSUME NEW c \in Consumer,
             ProcessBlocks(c) /\ ~AddFailedBlock(c)
      PROVE  UNCHANGED stream
  <2>1. CASE FindStaleBlocks(c)
    BY <2>1 DEF FindStaleBlocks, XAutoClaim
  <2>2. CASE FetchStreamEvents(c)
    BY <2>2 DEF FetchStreamEvents, XReadGroup
  <2>3. CASE BlocksFetched(c)
    BY <2>3 DEF BlocksFetched, AfterReply, streamVars
  <2>4. CASE SaveRelation(c)
    BY <2>4 DEF SaveRelation, streamVars
  <2>5. CASE AcknowledgeBlocks(c)
    BY <2>5 DEF AcknowledgeBlocks, XAck
  <2>. QED
    BY <1>4, <2>1, <2>2, <2>3, <2>4, <2>5 DEF ProcessBlocks
<1>5. ASSUME NEW c \in Consumer,
             ProcessBlocksFails(c) /\ ~AddFailedBlocksFails(c)
      PROVE  UNCHANGED stream
  <2>1. CASE ClaimReplyLost(c)
    BY <2>1 DEF ClaimReplyLost, XAutoClaim
  <2>2. CASE FetchStreamEventsFails(c)
    BY <2>2 DEF FetchStreamEventsFails, XReadGroup, streamVars
  <2>3. CASE BatchRequestFails(c)
    BY <2>3 DEF BatchRequestFails, AfterReply, streamVars
  <2>4. CASE SaveRelationFails(c)
    BY <2>4 DEF SaveRelationFails, streamVars
  <2>5. CASE AcknowledgeBlocksFails(c)
    BY <2>5 DEF AcknowledgeBlocksFails, XAck, streamVars
  <2>. QED
    BY <1>5, <2>1, <2>2, <2>3, <2>4, <2>5 DEF ProcessBlocksFails
<1>6. CASE \E i \in pending : GoesStale(i)
  BY <1>2, <1>6 DEF GoesStale
<1>. QED
  BY <1>2, <1>3, <1>4, <1>5, <1>6 DEF ProcessorStep

(* What the processors do to the stream does not disturb the harvester.     *)
LEMMA HarvesterUndisturbed ==
    ASSUME HInv, StreamTypeOK', EvictedKnown', Grows, UNCHANGED harvestVars
    PROVE  HInv'
<1>1. UNCHANGED <<tip, lastSeen, hpc, start, found, next, origin, hung, crashes>>
  BY DEF harvestVars, lostVars
<1>2. HTypeOK'
  BY <1>1 DEF HInv, HTypeOK
<1>3. NoGap'
  BY <1>1, NoGapStays DEF HInv, PositionSame
<1>4. IterationCovers'
  BY <1>1, ScheduledStays DEF HInv, IterationCovers
<1>. QED
  BY <1>2, <1>3, <1>4 DEF HInv

(* What the harvester does to the stream does not disturb the processors.   *)
LEMMA ProcessorsUndisturbed ==
    ASSUME PInv, HInv, faults' \in 0..MaxFaults, HarvestBlocks \/ NewSlot \/ HHang,
           UNCHANGED procVars
    PROVE  PInv'
<1>1. StreamTypeOK /\ EvictedKnown
  BY DEF PInv, PTypeOK
<1>2. CASE UNCHANGED streamVars
  <2>1. Keeps({}) /\ Entry' = Entry
    BY <1>1, <1>2, UnchangedStep
  <2>. QED
    BY <2>1, ArrivalStep
<1>3. CASE AddBlock
  <2>1. PICK b \in Block : XAdd(b)
    BY <1>3 DEF AddBlock, HInv, HTypeOK
  <2>2. Keeps({}) /\ \A j \in Entry' : j \in Entry \/ Owed(j)'
    BY <1>1, <2>1, XAddStep
  <2>. QED
    BY <2>2, ArrivalStep
<1>. QED
  BY <1>2, <1>3 DEF HarvestBlocks, NewSlot, HHang, GetLastSeenBlock, GetLatestBlock,
     GetBlocksWithLimit, SaveLastSeenBlock

LEMMA IInitInv == IInit => HInv /\ PInv
<1>. SUFFICES ASSUME IInit PROVE HInv /\ PInv
  OBVIOUS
<1>1. HInit /\ PInit
  BY DEF IInit, HInit, PInit
<1>. QED
  BY <1>1, HInitInv, InitInv

LEMMA INextInv == HInv /\ PInv /\ [INext]_ivars => HInv' /\ PInv'
<1>. SUFFICES ASSUME HInv, PInv, [INext]_ivars PROVE HInv' /\ PInv'
  OBVIOUS
<1>1. CASE HarvesterRuns \/ HarvesterHangs \/ Environment
  <2>1. (HarvestBlocks \/ NewSlot \/ HHang) /\ UNCHANGED procVars
    BY <1>1 DEF HarvesterRuns, HarvesterHangs, Environment
  <2>2. HNext
    BY <2>1 DEF HNext
  <2>3. faults' \in 0..MaxFaults
    BY <2>2, HFaults DEF HInv
  <2>4. HInv'
    BY <2>2, HNextInv
  <2>. QED
    BY <2>1, <2>3, <2>4, ProcessorsUndisturbed
<1>2. CASE ProcessorStep /\ UNCHANGED harvestVars
  <2>1. PInv'
    BY <1>2, NextInv DEF PNext
  <2>2. HInv'
    BY <1>2, <2>1, ProcessorGrows, HarvesterUndisturbed DEF PInv, PTypeOK
  <2>. QED
    BY <2>1, <2>2
<1>3. CASE ProcessCrash
  <2>1. HCrash /\ PCrash
    BY <1>3 DEF ProcessCrash, HCrash, PCrash
  <2>. QED
    BY <2>1, HNextInv, NextInv DEF HNext, PNext
<1>4. CASE UNCHANGED ivars
  BY <1>4, HNextInv, NextInv DEF ivars, hvars, pvars
<1>. QED
  BY <1>1, <1>2, <1>3, <1>4 DEF INext

(* Both invariants hold together in every reachable state.                  *)
THEOREM IndexerInvariantHolds == ISpec => [](HInv /\ PInv)
BY IInitInv, INextInv, PTL DEF ISpec

(* End to end (main.go:332-379 with processor.go:114-170): every block the  *)
(* harvester has passed is indexed, or owed by Redis to a processor, or     *)
(* lost in one of the two known ways.                                       *)
THEOREM EndToEnd == ISpec => []NoBlockForgotten
<1>1. HInv /\ PInv => NoBlockForgotten
  BY DEF HInv, PInv, NoGap, NoSilentLoss, NoBlockForgotten, Passed, Scheduled
<1>. QED
  BY <1>1, IndexerInvariantHolds, PTL

(* The harvester does nothing to the stream but add to it.                  *)
LEMMA HarvesterAdds ==
    ASSUME HInv, HarvesterRuns \/ HarvesterHangs \/ Environment
    PROVE  UNCHANGED procVars /\ (UNCHANGED streamVars \/ \E b \in Block : XAdd(b))
BY DEF HarvesterRuns, HarvesterHangs, Environment, HarvestBlocks, NewSlot, HHang, GetLastSeenBlock,
   GetLatestBlock, GetBlocksWithLimit, AddBlock, SaveLastSeenBlock, HInv, HTypeOK

-----------------------------------------------------------------------------
(* Copies in the whole indexer.                                             *)

LEMMA IndexerCopiesStep == HInv /\ CInv /\ [INext]_ivars => HInv' /\ CInv'
<1>. SUFFICES ASSUME HInv, CInv, [INext]_ivars PROVE HInv' /\ CInv'
  OBVIOUS
<1>1. HInv' /\ PInv'
  BY INextInv DEF CInv
<1>2. StreamTypeOK /\ EvictedKnown
  BY DEF CInv, PInv, PTypeOK
<1>3. CASE HarvesterRuns \/ HarvesterHangs \/ Environment \/ UNCHANGED ivars
  <2>1. UNCHANGED procVars /\ (UNCHANGED streamVars \/ \E b \in Block : XAdd(b))
    BY <1>3, HarvesterAdds DEF ivars
  <2>2. Grows /\ deliveries' = deliveries
    BY <1>2, <2>1, XAddKeeps DEF Grows, streamVars, Entry, XAdd
  <2>. QED
    BY <1>1, <2>1, <2>2, PaidElsewhere
<1>4. CASE ProcessorStep
  BY <1>1, <1>4, PaidStep
<1>5. CASE ProcessCrash
  BY <1>1, <1>5, PaidCrash DEF ProcessCrash
<1>. QED
  BY <1>1, <1>3, <1>4, <1>5 DEF INext

(* Also with the harvester, which adds a block again after a crash, and     *)
(* crashes of the whole process (main.go:332-379, processor.go:114-198),    *)
(* no copy is stored without a delivery of an entry of its block.           *)
THEOREM IndexerPaysForCopies == ISpec => [](CopiesArePaidFor /\ BatchFits)
<1>1. IInit => HInv /\ CInv
  BY IInitInv, CInitInv DEF IInit, HInit, PInit
<1>2. CInv => CopiesArePaidFor /\ BatchFits
  BY PaidImpliesCopies DEF CInv
<1>. QED
  BY <1>1, <1>2, IndexerCopiesStep, PTL DEF ISpec

-----------------------------------------------------------------------------
(* What the whole indexer loses: what the processors misreport and what     *)
(* MAXLEN cuts off, as without the harvester.                               *)

(* For the processors a step of the indexer is one of theirs, or the crash, *)
(* or leaves their locals alone.                                            *)
LEMMA IndexerActs ==
    ASSUME HInv, [INext]_ivars
    PROVE  \/ ProcessorStep
           \/ ProcessorsCrash /\ UNCHANGED streamVars
           \/ UNCHANGED procVars /\ (UNCHANGED streamVars \/ \E b \in Block : XAdd(b))
BY HarvesterAdds DEF INext, ProcessCrash, ivars

LEMMA IndexerCompany ==
    ASSUME HInv, PInv, [INext]_ivars, \A c \in Consumer : Company(c)
    PROVE  \A c \in Consumer : Company(c)'
<1>1. CASE ProcessorStep
  BY <1>1, CompanyNext DEF PNext
<1>2. CASE ProcessorsCrash
  BY <1>2 DEF ProcessorsCrash, Company
<1>3. CASE UNCHANGED procVars
  BY <1>3, CompanyOfOthers DEF procVars, localVars
<1>. QED
  BY <1>1, <1>2, <1>3, IndexerActs

LEMMA IndexerWhole ==
    ASSUME HInv, PInv, OneListOnly, [INext]_ivars, \A c \in Consumer : WholeReport(c)
    PROVE  \A c \in Consumer : WholeReport(c)'
<1>1. CASE ProcessorStep
  BY <1>1, WholeStep
<1>2. CASE ProcessorsCrash
  BY <1>2 DEF ProcessorsCrash, WholeReport
<1>3. CASE UNCHANGED procVars
  BY <1>3 DEF procVars, localVars, WholeReport
<1>. QED
  BY <1>1, <1>2, <1>3, IndexerActs

(* In the whole indexer, too, only the position of a failed block in a list *)
(* of several can be mistaken (processor.go:174-186, cli.go:226-270).       *)
THEOREM IndexerMissNeedsCompany == ISpec => []MissNeedsCompany
<1>. DEFINE Companies == \A c \in Consumer : Company(c)
<1>1. IInit => Companies
  BY DEF IInit, LocalInit, Company
<1>2. HInv /\ PInv /\ Companies /\ [INext]_ivars => Companies'
  BY IndexerCompany
<1>3. PInv /\ Companies => MissNeedsCompany
  BY CompanyImplies
<1>. HIDE DEF Companies
<1>. QED
  BY <1>1, <1>2, <1>3, IndexerInvariantHolds, PTL DEF ISpec

THEOREM IndexerReportsAreWhole ==
    ASSUME ReportsTrusted
    PROVE  ISpec => [](FailedBlocksAreReturned /\ dropped = {})
<1>1. ISpec => []FailedBlocksAreReturned
  <2>1. CASE BatchSize = 1
    <3>1. BatchFits /\ MissNeedsCompany /\ PInv => FailedBlocksAreReturned
      BY <2>1, SingleIsReturned DEF PInv
    <3>. QED
      BY <3>1, IndexerPaysForCopies, IndexerMissNeedsCompany, IndexerInvariantHolds, PTL
  <2>2. CASE OneListOnly
    <3>. DEFINE Whole == \A c \in Consumer : WholeReport(c)
    <3>1. IInit => Whole
      BY DEF IInit, LocalInit, WholeReport
    <3>2. HInv /\ PInv /\ Whole /\ [INext]_ivars => Whole'
      BY <2>2, IndexerWhole
    <3>3. Whole => FailedBlocksAreReturned
      BY DEF WholeReport, FailedBlocksAreReturned
    <3>. HIDE DEF Whole
    <3>. QED
      BY <3>1, <3>2, <3>3, IndexerInvariantHolds, PTL DEF ISpec
  <2>. QED
    BY <2>1, <2>2 DEF ReportsTrusted
<1>2. IInit => dropped = {}
  BY DEF IInit, StoreInit
<1>3. HInv /\ FailedBlocksAreReturned /\ dropped = {} /\ [INext]_ivars => (dropped = {})'
  BY IndexerActs, NothingDropped DEF ProcessorsCrash, procVars
<1>. QED
  BY <1>1, <1>2, <1>3, IndexerInvariantHolds, PTL DEF ISpec

THEOREM IndexerKeepsNewest == ISpec => []NewestAreKept
<1>1. IInit => NewestAreKept
  BY DEF IInit, HInit, StreamInit, NewestAreKept
<1>2. HInv /\ PInv /\ NewestAreKept /\ [INext]_ivars => NewestAreKept'
  <2>. SUFFICES ASSUME HInv, PInv, NewestAreKept, [INext]_ivars PROVE NewestAreKept'
    OBVIOUS
  <2>1. PTypeOK /\ StreamTypeOK
    BY DEF PInv, PTypeOK
  <2>2. UNCHANGED <<stream, trimmed>> \/ \E b \in Block : XAdd(b)
    BY <2>1, IndexerActs, AddsOrKeeps DEF streamVars
  <2>. QED
    BY <2>1, <2>2, AddingKeepsNewest DEF NewestAreKept
<1>. QED
  BY <1>1, <1>2, IndexerInvariantHolds, PTL DEF ISpec

(* End to end without a loss (main.go:332-379 with processor.go:114-170):   *)
(* if the reports can be trusted and the stream has not outgrown MAXLEN,    *)
(* each block that the harvester has passed is in MongoDB, or the stream    *)
(* holds it for a processor, whatever crashes, and however replies and      *)
(* commands get lost.                                                       *)
NoBlockLost == \A b \in Block : Passed(b) => Indexed(b) \/ Queued(b)

THEOREM EndToEndWithoutLoss ==
    ASSUME ReportsTrusted
    PROVE  ISpec => [](Len(stream) <= MaxStreamLen => NoBlockLost)
<1>1. /\ PInv /\ NewestAreKept /\ NoBlockForgotten /\ dropped = {}
      => (Len(stream) <= MaxStreamLen => NoBlockLost)
  <2>. SUFFICES ASSUME PInv, NewestAreKept, NoBlockForgotten, dropped = {},
                       Len(stream) <= MaxStreamLen
                PROVE  NoBlockLost
    OBVIOUS
  <2>1. Len(stream) \in Nat /\ trimmed \in Nat /\ evicted \subseteq 1..trimmed
    BY DEF PInv, PTypeOK, StreamTypeOK
  <2>2. trimmed = 0
    BY <2>1, StreamAssumption DEF NewestAreKept
  <2>3. \A b : ~ Lost(b)
    BY <2>1, <2>2 DEF Lost
  <2>. QED
    BY <2>3 DEF NoBlockForgotten, NoBlockLost
<1>. QED
  BY <1>1, IndexerInvariantHolds, IndexerKeepsNewest, IndexerReportsAreWhole, EndToEnd, PTL

(* The rounds of the processors come to their ends as they do alone.        *)
THEOREM IndexerRoundsAdvance ==
    ISpec => [][\A c \in Consumer :
                  ProcessBlocks(c) \/ ProcessBlocksFails(c) => RoundAdvances(c)]_ivars
<1>1. PInv => \A c \in Consumer :
                ProcessBlocks(c) \/ ProcessBlocksFails(c) => RoundAdvances(c)
  BY RoundStep DEF PInv
<1>. QED
  BY <1>1, IndexerInvariantHolds, PTL

-----------------------------------------------------------------------------
(* The ledger.  The processors alone, and the whole indexer, implement it:  *)
(* each of their steps is one of the ledger's, or changes nothing it sees.  *)


(* An insert still to be done is of a relation in the block of its entry,   *)
(* and only blocks that were queued can be missed.                          *)
WorkFits ==
    /\ \A c \in Consumer : \A ins \in todo[c] : ins[2] \in Indexable(stream[ins[1]])
    /\ \A c \in Consumer : missed[c] \subseteq BlocksOf(Entry)
    /\ dropped \subseteq BlocksOf(Entry)

LInv == PInv /\ WorkFits

-----------------------------------------------------------------------------
(* The invariant.                                                           *)

LEMMA BlocksGrow == ASSUME Grows PROVE BlocksOf(Entry) \subseteq BlocksOf(Entry)'
BY DEF Grows, BlocksOf

(* It survives what only takes work away and extends the history.           *)
LEMMA WorkShrinks ==
    ASSUME PInv, WorkFits, Grows,
           \A c \in Consumer : todo'[c] \subseteq todo[c] /\ missed'[c] \subseteq missed[c],
           \A b \in dropped' : b \in dropped \/ \E c \in Consumer : b \in missed[c]
    PROVE  WorkFits'
<1>1. \A c \in Consumer : todo[c] \subseteq Entry \X Relation
  BY DEF PInv, PTypeOK, LocalTypeOK
<1>2. ASSUME NEW c \in Consumer, NEW ins \in todo'[c]
      PROVE  ins[2] \in Indexable(stream[ins[1]])'
  <2>1. ins \in todo[c] /\ ins[1] \in Entry
    BY <1>1, <1>2
  <2>2. stream'[ins[1]] = stream[ins[1]] /\ ins[2] \in Indexable(stream[ins[1]])
    BY <2>1 DEF Grows, WorkFits
  <2>. QED
    BY <2>2 DEF Indexable, RelationsIn
<1>3. dropped' \subseteq BlocksOf(Entry)'
  BY BlocksGrow DEF WorkFits
<1>4. \A c \in Consumer : missed'[c] \subseteq BlocksOf(Entry)'
  BY BlocksGrow DEF WorkFits
<1>. QED
  BY <1>2, <1>3, <1>4 DEF WorkFits

(* The reply to an attempt of GetBlocks.                                    *)
LEMMA WorkReply ==
    ASSUME PInv, WorkFits, NEW c \in Consumer, NEW none, NEW flagged,
           AfterReply(c, none, flagged)
    PROVE  WorkFits'
<1>. DEFINE have == Filled(got[c], want[c], none)
            idx  == FailedIdx(want[c], flagged)
            inserts == UNION {{i} \X Parsed(stream[i]) : i \in have}
<1>1. /\ stream' = stream /\ dropped' = dropped /\ Entry' = Entry
      /\ LocalTypeOK
  BY DEF AfterReply, streamVars, PInv, PTypeOK, Entry
<1>2. todo' = todo \/ todo' = [todo EXCEPT ![c] = inserts]
  BY DEF AfterReply, FinishFetch, Retry
<1>3. \A ins \in inserts : ins[2] \in Indexable(stream[ins[1]])
  BY DEF Parsed
<1>4. \A d \in Consumer : missed'[d] \subseteq missed[d] \cup BlocksOf(batch[c])
  <2>1. missed' = missed \/ \E S : missed' = [missed EXCEPT ![c] = BlocksOf(batch[c]) \ S]
    BY DEF AfterReply, FinishFetch, Retry
  <2>2. missed \in [Consumer -> SUBSET Block]
    BY <1>1 DEF LocalTypeOK
  <2>. QED
    BY <2>1, <2>2
<1>5. BlocksOf(batch[c]) \subseteq BlocksOf(Entry)
  BY <1>1 DEF BlocksOf, LocalTypeOK
<1>6. \A d \in Consumer : missed'[d] \subseteq BlocksOf(Entry)'
  BY <1>1, <1>4, <1>5 DEF WorkFits, BlocksOf
<1>7. \A d \in Consumer : \A ins \in todo'[d] : ins[2] \in Indexable(stream[ins[1]])
  BY <1>1, <1>2, <1>3 DEF WorkFits, LocalTypeOK
<1>. QED
  BY <1>1, <1>6, <1>7 DEF WorkFits, Indexable, RelationsIn, BlocksOf

LEMMA WorkStep ==
    ASSUME PInv, WorkFits, PNext
    PROVE  WorkFits' /\ Grows
<1>1. LocalTypeOK /\ StreamTypeOK /\ EvictedKnown
  BY DEF PInv, PTypeOK
<1>2. Grows
  <2>1. CASE UNCHANGED stream
    BY <2>1 DEF Grows, Entry
  <2>2. CASE Enqueue
    BY <1>1, <2>2, XAddKeeps DEF Enqueue
  <2>. QED
    BY <2>1, <2>2, ProcessorGrows DEF PNext, PCrash, ModelFull, pvars, streamVars
<1>3. ASSUME NEW c \in Consumer, BlocksFetched(c) \/ BatchRequestFails(c)
      PROVE  WorkFits'
  BY <1>3, WorkReply DEF BlocksFetched, BatchRequestFails
<1>. DEFINE Less == /\ \A d \in Consumer : /\ todo'[d] \subseteq todo[d]
                                           /\ missed'[d] \subseteq missed[d]
                    /\ \A b \in dropped' : b \in dropped \/ \E d \in Consumer : b \in missed[d]
<1>4. ASSUME NEW c \in Consumer, ProcessBlocks(c), ~ BlocksFetched(c)
      PROVE  Less
  <2>1. CASE FindStaleBlocks(c) \/ FetchStreamEvents(c) \/ AddFailedBlock(c)
    BY <2>1 DEF FindStaleBlocks, FetchStreamEvents, AddFailedBlock
  <2>2. CASE SaveRelation(c)
    BY <1>1, <2>2 DEF SaveRelation, LocalTypeOK
  <2>3. CASE AcknowledgeBlocks(c)
    BY <1>1, <2>3 DEF AcknowledgeBlocks, EndRound, LocalTypeOK
  <2>. QED
    BY <1>4, <2>1, <2>2, <2>3 DEF ProcessBlocks
<1>5. ASSUME NEW c \in Consumer, ProcessBlocksFails(c), ~ BatchRequestFails(c)
      PROVE  Less
  BY <1>1, <1>5 DEF ProcessBlocksFails, ClaimReplyLost, FetchStreamEventsFails,
     SaveRelationFails, AddFailedBlocksFails, AcknowledgeBlocksFails, EndRound,
     procVars, localVars, LocalTypeOK
<1>6. CASE UNCHANGED procVars \/ PCrash
  BY <1>2, <1>6, WorkShrinks DEF PCrash, ProcessorsCrash, procVars, localVars
<1>7. Less => WorkFits'
  BY <1>2, WorkShrinks
<1>. HIDE DEF Less
<1>. QED
  BY <1>2, <1>3, <1>4, <1>5, <1>6, <1>7
     DEF PNext, ProcessorStep, Enqueue, ModelFull, pvars

-----------------------------------------------------------------------------
(* Steps, as the ledger sees them.                                          *)

(* What is written off is never taken back, and has been received.          *)
LEMMA LostGrows ==
    ASSUME LInv, WorkFits', StreamTypeOK', Grows, evicted \subseteq evicted',
           dropped \subseteq dropped'
    PROVE  LedgerOf!WriteOff
<1>1. evicted \subseteq Entry
  BY DEF LInv, PInv, PTypeOK, StreamTypeOK, Entry
<1>2. evicted' \subseteq Entry'
  BY DEF StreamTypeOK, Entry
<1>3. \A b : Lost(b) => Lost(b)'
  BY <1>1 DEF Lost, Grows
<1>4. \A b : Lost(b)' => \E i \in Entry' : stream'[i] = b
  BY <1>2 DEF Lost, WorkFits, BlocksOf
<1>. QED
  BY <1>3, <1>4 DEF LedgerOf!WriteOff

(* Nothing that was not owed before is owed after the step.                 *)
NothingNew == Entry' = Entry /\ \A i \in Entry : Owed(i)' => Owed(i)

(* A step that adds no entry and stores nothing settles blocks, if those    *)
(* which cease to be queued are stored or lost.                             *)
LEMMA SettleStep ==
    ASSUME LInv, WorkFits', StreamTypeOK', Grows, evicted \subseteq evicted',
           dropped \subseteq dropped', NothingNew, store' = store,
           \A b \in Block : Queued(b) => Queued(b)' \/ Indexed(b) \/ Lost(b)'
    PROVE  LedgerOf!Settle
<1>1. {stream[i] : i \in Entry}' = {stream[i] : i \in Entry}
  BY DEF NothingNew, Grows
<1>2. {b \in Block : Queued(b)}' \subseteq {b \in Block : Queued(b)}
  BY DEF NothingNew, Queued, Grows
<1>3. \A b \in Block : LedgerOf!Stored(b) <=> Indexed(b)
  BY DEF LedgerOf!Stored, LedgerOf!Wanted, Indexed, Indexable, RelationsIn
<1>. QED
  BY <1>1, <1>2, <1>3, LostGrows DEF LedgerOf!Settle

(* In particular if nothing is acknowledged.                                *)
LEMMA QuietStep ==
    ASSUME LInv, WorkFits', Keeps({}), NothingNew, UNCHANGED <<store, dropped>>
    PROVE  LedgerOf!Settle
<1>1. ASSUME NEW b \in Block, Queued(b)
      PROVE  Queued(b)' \/ Lost(b)'
  <2>1. PICK i \in Entry : stream[i] = b /\ Owed(i)
    BY <1>1 DEF Queued
  <2>2. i \in Entry' /\ stream'[i] = b /\ (Owed(i)' \/ i \in evicted')
    BY <2>1 DEF Keeps, Grows, StaysOwed
  <2>. QED
    BY <2>2 DEF Queued, Lost
<1>. QED
  BY <1>1, SettleStep DEF Keeps

LEMMA ReceiveStep ==
    ASSUME LInv, WorkFits', faults' \in 0..MaxFaults, NEW b \in Block, XAdd(b),
           UNCHANGED <<store, dropped>>
    PROVE  LedgerOf!Receive(b)
<1>1. StreamTypeOK /\ EvictedKnown
  BY DEF LInv, PInv, PTypeOK
<1>2. /\ Keeps({})
      /\ Entry' = Entry \cup {Len(stream')} /\ Len(stream') = Len(stream) + 1
      /\ stream'[Len(stream')] = b /\ Owed(Len(stream))'
  BY <1>1, XAddStep
<1>3. {stream[i] : i \in Entry}' = {stream[i] : i \in Entry} \cup {b}
  BY <1>2 DEF Keeps, Grows
<1>4. \A i \in Entry : Owed(i)' <=> Owed(i)
  BY DEF XAdd, Owed
<1>5. {d \in Block : Queued(d)}' = {d \in Block : Queued(d)} \cup {b}
  BY <1>2, <1>4 DEF Queued, Keeps, Grows
<1>. QED
  BY <1>2, <1>3, <1>5, LostGrows DEF LedgerOf!Receive, Keeps

LEMMA InsertStep ==
    ASSUME LInv, NEW c \in Consumer, NEW ins \in todo[c],
           store' = [store EXCEPT ![ins[2]] = @ + 1],
           UNCHANGED <<streamVars, dropped>>
    PROVE  \E r \in Relation \ Versioned : LedgerOf!Save(r)
<1>. DEFINE r == ins[2]
<1>1. ins \in Entry \X Relation /\ r \in Indexable(stream[ins[1]])
  BY DEF LInv, PInv, PTypeOK, LocalTypeOK, WorkFits
<1>2. /\ ins[1] \in Entry /\ r \in Relation \ Versioned
      /\ BlockOf[r] = stream[ins[1]]
  BY <1>1 DEF Indexable, RelationsIn
<1>3. /\ {stream[i] : i \in Entry}' = {stream[i] : i \in Entry}
      /\ {b \in Block : Queued(b)}' = {b \in Block : Queued(b)}
      /\ {b \in Block : Lost(b)}' = {b \in Block : Lost(b)}
  BY DEF streamVars, Entry, Queued, Lost, Owed
<1>. QED
  BY <1>2, <1>3 DEF LedgerOf!Save

-----------------------------------------------------------------------------
(* The steps of the processors.                                             *)

LEMMA ReadCommandSteps ==
    ASSUME LInv, WorkFits', faults' \in 0..MaxFaults, UNCHANGED <<store, dropped>>,
           \/ UNCHANGED streamVars
           \/ \E i : GoesStale(i)
           \/ XAutoClaim(BatchSize)
           \/ \E n \in Int : XReadGroup(n)
    PROVE  LedgerOf!Settle
<1>1. StreamTypeOK /\ EvictedKnown
  BY DEF LInv, PInv, PTypeOK
<1>2. Keeps({}) /\ Entry' = Entry
  BY <1>1, UnchangedStep, GoesStaleStep, XAutoClaimStep, XReadGroupStep
<1>3. CASE UNCHANGED streamVars \/ (\E i : GoesStale(i)) \/ XAutoClaim(BatchSize)
  <2>1. \A i \in Entry : Owed(i)' => Owed(i)
    BY <1>3 DEF streamVars, GoesStale, XAutoClaim, Owed
  <2>. QED
    BY <1>2, <2>1, QuietStep DEF NothingNew
<1>4. ASSUME NEW n \in Int, XReadGroup(n)
      PROVE  LedgerOf!Settle
  <2>1. /\ Len(stream) \in Nat /\ trimmed \in 0..Len(stream)
        /\ lastDelivered \in 0..Len(stream)
    BY <1>1 DEF StreamTypeOK
  <2>2. \A i \in NewEntries(n) : i > lastDelivered
    BY <2>1 DEF NewEntries, Horizon
  <2>3. NewEntries(n) # {} => ReadTo(n) >= lastDelivered
    BY <2>1 DEF NewEntries, Horizon, ReadTo
  <2>4. \A i \in Entry : Owed(i)' => Owed(i)
    BY <1>4, <2>1, <2>2, <2>3 DEF XReadGroup, Owed, Entry, ReadTo, Horizon
  <2>. QED
    BY <1>2, <2>4, QuietStep DEF NothingNew
<1>. QED
  BY <1>3, <1>4

(* An acknowledgement.  Blocks of the batch that cease to be queued are     *)
(* accounted for as stored or lost.                                         *)
LEMMA AckSettles ==
    ASSUME LInv, WorkFits', faults' \in 0..MaxFaults, NEW c \in Consumer,
           pc[c] = "ack", XAck(batch[c]), dropped' = dropped \cup missed[c],
           store' = store
    PROVE  LedgerOf!Settle
<1>1. /\ PInv /\ PTypeOK /\ StreamTypeOK /\ EvictedKnown /\ missed[c] \subseteq Block
  BY DEF LInv, PInv, PTypeOK, LocalTypeOK
<1>2. Keeps(batch[c]) /\ Entry' = Entry
  BY <1>1, XAckStep
<1>3. StoreGrows
  BY <1>1 DEF StoreGrows, PTypeOK
<1>4. NothingNew
  BY <1>2 DEF NothingNew, XAck, Owed
<1>5. ASSUME NEW b \in Block, Queued(b)
      PROVE  Queued(b)' \/ Indexed(b) \/ Lost(b)'
  <2>1. PICK j \in Entry : stream[j] = b /\ Owed(j)
    BY <1>5 DEF Queued
  <2>2. j \in Entry' /\ stream'[j] = b /\ Grows
    BY <1>2, <2>1 DEF Keeps, Grows
  <2>3. CASE Owed(j)' \/ j \in evicted'
    BY <2>2, <2>3 DEF Queued, Lost
  <2>4. CASE j \in batch[c]
    <3>1. \/ Indexed(b)' \/ Lost(b)'
          \/ \E k \in Entry : stream[k] = b /\ Owed(k)'
      BY <1>1, <1>2, <1>3, <2>1, <2>4, AckedSafe
    <3>2. Indexed(b)' => Indexed(b)
      BY DEF Indexed, Indexable, RelationsIn
    <3>. QED
      BY <2>2, <3>1, <3>2 DEF Queued, Grows
  <2>. QED
    BY <1>2, <2>1, <2>3, <2>4 DEF Keeps, StaysOwed
<1>. QED
  BY <1>2, <1>4, <1>5, SettleStep DEF Keeps

LEMMA ProcessorImplements ==
    ASSUME LInv, WorkFits', faults' \in 0..MaxFaults, PNext
    PROVE  LedgerOf!LNext
<1>1. PInv /\ StreamTypeOK /\ LocalTypeOK
  BY DEF LInv, PInv, PTypeOK
<1>2. ASSUME NEW c \in Consumer PROVE Remaining(batch[c]) \in Int
  <2>1. batch[c] \in SUBSET Entry
    BY <1>1 DEF LocalTypeOK
  <2>. QED
    BY <1>1, <2>1, EntriesFinite, ProcessorAssumption DEF Remaining
<1>3. \A c \in Consumer : \A i \in requeue[c] : stream[i] \in Block
  BY <1>1 DEF LocalTypeOK, StreamTypeOK, Entry
<1>4. ASSUME NEW c \in Consumer, ProcessBlocks(c)
      PROVE  LedgerOf!LNext
  <2>1. CASE FindStaleBlocks(c)
    BY <2>1, ReadCommandSteps DEF FindStaleBlocks, LedgerOf!LNext
  <2>2. CASE FetchStreamEvents(c)
    BY <1>2, <2>2, ReadCommandSteps DEF FetchStreamEvents, LedgerOf!LNext
  <2>3. CASE BlocksFetched(c)
    BY <2>3, ReadCommandSteps DEF BlocksFetched, AfterReply, LedgerOf!LNext
  <2>4. CASE SaveRelation(c)
    BY <2>4, InsertStep DEF SaveRelation, LedgerOf!LNext
  <2>5. CASE AddFailedBlock(c)
    BY <1>3, <2>5, ReceiveStep DEF AddFailedBlock, LedgerOf!LNext
  <2>6. CASE AcknowledgeBlocks(c)
    BY <2>6, AckSettles DEF AcknowledgeBlocks, LedgerOf!LNext
  <2>. QED
    BY <1>4, <2>1, <2>2, <2>3, <2>4, <2>5, <2>6 DEF ProcessBlocks
<1>5. ASSUME NEW c \in Consumer, ProcessBlocksFails(c)
      PROVE  LedgerOf!LNext
  <2>1. CASE ClaimReplyLost(c)
    BY <2>1, ReadCommandSteps DEF ClaimReplyLost, procVars, LedgerOf!LNext
  <2>2. CASE FetchStreamEventsFails(c)
    BY <1>2, <2>2, ReadCommandSteps DEF FetchStreamEventsFails, LedgerOf!LNext
  <2>3. CASE BatchRequestFails(c)
    BY <2>3, ReadCommandSteps DEF BatchRequestFails, AfterReply, LedgerOf!LNext
  <2>4. CASE SaveRelationFails(c)
    BY <2>4, InsertStep, ReadCommandSteps DEF SaveRelationFails, LedgerOf!LNext
  <2>5. CASE AddFailedBlocksFails(c)
    BY <1>3, <2>5, ReceiveStep, ReadCommandSteps
       DEF AddFailedBlocksFails, LedgerOf!LNext
  <2>6. CASE AcknowledgeBlocksFails(c)
    BY <2>6, AckSettles, ReadCommandSteps DEF AcknowledgeBlocksFails, LedgerOf!LNext
  <2>. QED
    BY <1>5, <2>1, <2>2, <2>3, <2>4, <2>5, <2>6 DEF ProcessBlocksFails
<1>6. CASE \E i \in pending : GoesStale(i) /\ UNCHANGED procVars
  BY <1>6, ReadCommandSteps DEF procVars, LedgerOf!LNext
<1>7. CASE PCrash
  BY <1>7, ReadCommandSteps DEF PCrash, ProcessorsCrash, LedgerOf!LNext
<1>8. CASE Enqueue
  BY <1>8, ReceiveStep DEF Enqueue, procVars, LedgerOf!LNext
<1>9. CASE ModelFull
  BY <1>9, ReadCommandSteps DEF ModelFull, pvars, procVars, LedgerOf!LNext
<1>. QED
  BY <1>4, <1>5, <1>6, <1>7, <1>8, <1>9 DEF PNext, ProcessorStep

(* What changes neither the stream nor MongoDB changes no page of the ledger.*)
LEMMA Stutter ==
    ASSUME UNCHANGED <<streamVars, store, dropped>>
    PROVE  UNCHANGED LedgerOf!lvars
<1>1. /\ {stream[i] : i \in Entry}' = {stream[i] : i \in Entry}
      /\ {b \in Block : Queued(b)}' = {b \in Block : Queued(b)}
      /\ {b \in Block : Lost(b)}' = {b \in Block : Lost(b)}
  BY DEF streamVars, Entry, Queued, Lost, Owed
<1>. QED
  BY <1>1 DEF LedgerOf!lvars

(* It starts empty.                                                         *)
LEMMA LedgerInit ==
    ASSUME StreamInit, StoreInit
    PROVE  LedgerOf!LInit
<1>1. Entry = {} /\ evicted = {} /\ dropped = {}
  BY DEF StreamInit, StoreInit, Entry
<1>. QED
  BY <1>1 DEF LedgerOf!LInit, Queued, Lost, StoreInit

LEMMA WorkInit == ASSUME LocalInit, StoreInit PROVE WorkFits
BY DEF LocalInit, StoreInit, WorkFits

LEMMA LNextInv == LInv /\ [PNext]_pvars => LInv' /\ [LedgerOf!LNext]_(LedgerOf!lvars)
<1>. SUFFICES ASSUME LInv, [PNext]_pvars
     PROVE LInv' /\ [LedgerOf!LNext]_(LedgerOf!lvars)
  OBVIOUS
<1>1. PInv' /\ PInv /\ WorkFits
  BY NextInv DEF LInv
<1>2. faults' \in 0..MaxFaults
  BY <1>1 DEF PInv, PTypeOK, StreamTypeOK
<1>3. CASE PNext
  BY <1>1, <1>2, <1>3, WorkStep, ProcessorImplements DEF LInv
<1>4. CASE UNCHANGED pvars
  <2>1. WorkFits'
    BY <1>1, <1>4 DEF pvars, procVars, localVars, streamVars, WorkFits, BlocksOf,
       Entry, Indexable, RelationsIn
  <2>. QED
    BY <1>1, <1>4, <2>1, Stutter DEF LInv, pvars, procVars
<1>. QED
  BY <1>3, <1>4

(* The processors and the Redis stream (processor.go:114-170, redis.go)     *)
(* implement the ledger, for any number of processors, batch size, number   *)
(* of retries and stream length, and any faults.                            *)
THEOREM ProcessorsKeepLedger == PSpec => KeepsLedger
<1>1. PInit => LInv /\ LedgerOf!LInit
  BY InitInv, WorkInit, LedgerInit DEF PInit, LInv
<1>. QED
  BY <1>1, LNextInv, PTL DEF PSpec, KeepsLedger, LedgerOf!LSpec

-----------------------------------------------------------------------------
(* The steps of the whole indexer.                                          *)

LEMMA IndexerStep ==
    HInv /\ LInv /\ [INext]_ivars => HInv' /\ LInv' /\ [LedgerOf!LNext]_(LedgerOf!lvars)
<1>. SUFFICES ASSUME HInv, LInv, [INext]_ivars
     PROVE HInv' /\ LInv' /\ [LedgerOf!LNext]_(LedgerOf!lvars)
  OBVIOUS
<1>1. HInv' /\ PInv' /\ PInv /\ WorkFits
  BY INextInv DEF LInv
<1>2. StreamTypeOK /\ EvictedKnown /\ faults' \in 0..MaxFaults
  BY <1>1 DEF PInv, PTypeOK, StreamTypeOK
<1>3. CASE HarvesterRuns \/ HarvesterHangs \/ Environment
  <2>1. UNCHANGED procVars /\ (UNCHANGED streamVars \/ \E b \in Block : XAdd(b))
    BY <1>3, HarvesterAdds
  <2>2. Grows
    BY <1>2, <2>1, XAddKeeps DEF Grows, streamVars, Entry
  <2>3. WorkFits'
    BY <1>1, <2>1, <2>2, WorkShrinks DEF procVars, localVars
  <2>4. CASE UNCHANGED streamVars
    BY <1>1, <2>1, <2>3, <2>4, Stutter DEF LInv, procVars
  <2>5. CASE \E b \in Block : XAdd(b)
    BY <1>1, <1>2, <2>1, <2>3, <2>5, ReceiveStep DEF LInv, procVars, LedgerOf!LNext
  <2>. QED
    BY <2>1, <2>4, <2>5
<1>4. CASE ProcessorStep
  BY <1>1, <1>4, LNextInv DEF PNext
<1>5. CASE ProcessCrash
  BY <1>1, <1>5, LNextInv DEF ProcessCrash, PNext, PCrash
<1>6. CASE UNCHANGED ivars
  BY <1>1, <1>6, LNextInv DEF ivars, pvars
<1>. QED
  BY <1>3, <1>4, <1>5, <1>6 DEF INext

(* So does the indexer as a whole: of what the harvester has received       *)
(* (main.go:332-379), nothing leaves the ledger but what is stored or       *)
(* written off, whatever the process and the services it uses go through.   *)
THEOREM IndexerKeepsLedger == ISpec => KeepsLedger
<1>1. IInit => HInv /\ LInv /\ LedgerOf!LInit
  BY IInitInv, WorkInit, LedgerInit DEF IInit, HInit, LInv
<1>. QED
  BY <1>1, IndexerStep, PTL DEF ISpec, KeepsLedger, LedgerOf!LSpec

-----------------------------------------------------------------------------
(* What the ledger means, of whatever implements it.                        *)

LEMMA LedgerTrusted ==
    LedgerOf!Trustworthy /\ [LedgerOf!LNext]_(LedgerOf!lvars) => LedgerOf!Trustworthy'
<1>. DEFINE known == {stream[i] : i \in Entry}
            due   == {b \in Block : Queued(b)}
            lost  == {b \in Block : Lost(b)}
<1>. SUFFICES ASSUME LedgerOf!Trustworthy, [LedgerOf!LNext]_(LedgerOf!lvars)
              PROVE  LedgerOf!Trustworthy'
  OBVIOUS
<1>1. /\ store \in [Relation -> Nat] /\ lost \subseteq known
      /\ \A b \in known : LedgerOf!Stored(b) \/ b \in due \/ b \in lost
      /\ \A r \in Relation : store[r] > 0 => r \notin Versioned /\ BlockOf[r] \in known
  BY DEF LedgerOf!Trustworthy, LedgerOf!NothingForgotten, LedgerOf!NothingMadeUp
<1>2. ASSUME /\ store' \in [Relation -> Nat] /\ lost' \subseteq known'
             /\ \A b \in known' : LedgerOf!Stored(b)' \/ b \in due' \/ b \in lost'
             /\ \A r \in Relation : store'[r] > 0 => r \notin Versioned /\ BlockOf[r] \in known'
      PROVE  LedgerOf!Trustworthy'
  BY <1>2 DEF LedgerOf!Trustworthy, LedgerOf!NothingForgotten, LedgerOf!NothingMadeUp
<1>3. ASSUME NEW b \in Block,
             known' = known \cup {b}, due' = due \cup {b},
             lost \subseteq lost', lost' \subseteq known', store' = store
      PROVE  LedgerOf!Trustworthy'
  <2>. HIDE DEF known, due, lost
  <2>1. \A d : LedgerOf!Stored(d)' <=> LedgerOf!Stored(d)
    BY <1>3 DEF LedgerOf!Stored, LedgerOf!Wanted
  <2>. QED
    BY <1>1, <1>2, <1>3, <2>1
<1>4. ASSUME NEW r \in Relation \ Versioned, BlockOf[r] \in known,
             store' = [store EXCEPT ![r] = @ + 1],
             known' = known, due' = due, lost' = lost
      PROVE  LedgerOf!Trustworthy'
  <2>. HIDE DEF known, due, lost
  <2>1. store' \in [Relation -> Nat] /\ \A q \in Relation : q # r => store'[q] = store[q]
    BY <1>1, <1>4
  <2>2. \A q \in Relation : store[q] > 0 => store'[q] > 0
    BY <1>1, <1>4
  <2>3. \A d : LedgerOf!Stored(d) => LedgerOf!Stored(d)'
    BY <2>2 DEF LedgerOf!Stored, LedgerOf!Wanted
  <2>. QED
    BY <1>1, <1>2, <1>4, <2>1, <2>3
<1>5. ASSUME due' \subseteq due, lost \subseteq lost', lost' \subseteq known',
             \A b \in due \ due' : LedgerOf!Stored(b) \/ b \in lost',
             known' = known, store' = store
      PROVE  LedgerOf!Trustworthy'
  <2>. HIDE DEF known, due, lost
  <2>1. \A d : LedgerOf!Stored(d)' <=> LedgerOf!Stored(d)
    BY <1>5 DEF LedgerOf!Stored, LedgerOf!Wanted
  <2>. QED
    BY <1>1, <1>2, <1>5, <2>1
<1>6. CASE UNCHANGED LedgerOf!lvars
  <2>1. known' = known /\ due' = due /\ lost' = lost /\ store' = store
    BY <1>6 DEF LedgerOf!lvars
  <2>2. lost \subseteq known
    BY <1>1
  <2>. HIDE DEF known, due, lost
  <2>. QED
    BY <2>1, <2>2, <1>5
<1>7. CASE LedgerOf!LNext
  <2>1. CASE \E b \in Block : LedgerOf!Receive(b)
    BY <2>1, <1>3 DEF LedgerOf!Receive, LedgerOf!WriteOff
  <2>2. CASE \E r \in Relation \ Versioned : LedgerOf!Save(r)
    BY <2>2, <1>4 DEF LedgerOf!Save
  <2>3. CASE LedgerOf!Settle
    BY <2>3, <1>5 DEF LedgerOf!Settle, LedgerOf!WriteOff
  <2>. QED
    BY <1>7, <2>1, <2>2, <2>3 DEF LedgerOf!LNext
<1>. QED
  BY <1>6, <1>7

(* Whatever implements the ledger forgets no block it has received, and     *)
(* stores nothing it has not: this is what it means that the processors     *)
(* (processor.go:114-170) and the indexer implement it.                     *)
THEOREM LedgerIsTrustworthy == KeepsLedger => []LedgerOf!Trustworthy
<1>1. LedgerOf!LInit => LedgerOf!Trustworthy
  BY DEF LedgerOf!LInit, LedgerOf!Trustworthy, LedgerOf!NothingForgotten,
     LedgerOf!NothingMadeUp
<1>. QED
  BY <1>1, LedgerTrusted, PTL DEF KeepsLedger, LedgerOf!LSpec

(* So the indexer (main.go:332-379, processor.go:114-170) never stores a    *)
(* relation of a block it did not receive, or one it does not look for, and *)
(* writes off only what it received.                                        *)
THEOREM IndexerIsTrustworthy == ISpec => []LedgerOf!Trustworthy
BY IndexerKeepsLedger, LedgerIsTrustworthy, PTL

=============================================================================
