-------------------------- MODULE ProcessorProofs --------------------------
(***************************************************************************)
(* Proofs about the block processors: types, and that no block is lost     *)
(* silently, for any number of processors, blocks, relations and faults,   *)
(* any batch size and any number of retries.                               *)
(***************************************************************************)
EXTENDS Processor, BlockStreamProofs

(* MongoDB and the record of losses only ever gain.                         *)
StoreGrows == /\ store' \in [Relation -> Nat]
              /\ \A r \in Relation : store[r] > 0 => store'[r] > 0
              /\ dropped \subseteq dropped' /\ dropped' \subseteq Block

SameRound(c) == /\ pc'[c] = pc[c] /\ batch'[c] = batch[c] /\ todo'[c] = todo[c]
                /\ requeue'[c] = requeue[c] /\ missed'[c] = missed[c]

-----------------------------------------------------------------------------
(* Types.                                                                   *)

(* A sequence of entries is one of the longer history too.                  *)
LEMMA SeqGrows ==
    ASSUME NEW S, NEW T, S \subseteq T
    PROVE  Seq(S) \subseteq Seq(T)
OBVIOUS

(* An order of a set of entries is a sequence of entries.                   *)
LEMMA OrderType ==
    ASSUME StreamTypeOK, NEW S \in SUBSET Entry, NEW order \in SetToSeqs(S)
    PROVE  order \in Seq(Entry)
<1>1. Cardinality(S) \in Nat
  BY EntriesFinite
<1>2. order \in [1..Cardinality(S) -> S]
  BY DEF SetToSeqs
<1>3. order \in [1..Cardinality(S) -> Entry]
  BY <1>2
<1>. QED
  BY <1>1, <1>3

(* The locals keep their type while the history grows.                      *)
LEMMA LocalTypeGrows ==
    ASSUME LocalTypeOK, Entry \subseteq Entry', UNCHANGED localVars
    PROVE  LocalTypeOK'
<1>1. Seq(Entry) \subseteq Seq(Entry')
  BY SeqGrows
<1>. QED
  BY <1>1 DEF LocalTypeOK, localVars, Steps

(* The end of a round keeps them as well.                                   *)
LEMMA EndRoundType ==
    ASSUME LocalTypeOK, Entry \subseteq Entry', NEW c \in Consumer, EndRound(c)
    PROVE  LocalTypeOK'
<1>1. Seq(Entry) \subseteq Seq(Entry')
  BY SeqGrows
<1>2. <<>> \in Seq(Entry')
  OBVIOUS
<1>3. 0 \in 0..Retries
  BY ProcessorAssumption
<1>. QED
  BY <1>1, <1>2, <1>3 DEF LocalTypeOK, EndRound, Steps

(* The positions that failed in an attempt are positions of its list.       *)
LEMMA FailedIdxRange ==
    ASSUME NEW w, NEW flagged \in SUBSET DOMAIN w
    PROVE  FailedIdx(w, flagged) \subseteq DOMAIN w
BY DEF FailedIdx

(* An order of the entries that failed is not longer than the list was.     *)
LEMMA RetryShorter ==
    ASSUME NEW w \in Seq(Entry), NEW idx \in SUBSET DOMAIN w, idx # {},
           NEW order \in SetToSeqs({w[k] : k \in idx})
    PROVE  Len(order) <= Len(w) /\ order # <<>>
<1>. DEFINE T == {w[k] : k \in idx}
            f == [k \in idx |-> w[k]]
<1>1. Len(w) \in Nat /\ DOMAIN w = 1..Len(w)
  OBVIOUS
<1>2. IsFiniteSet(idx) /\ Cardinality(idx) <= Len(w)
  <2>1. IsFiniteSet(1..Len(w)) /\ Cardinality(1..Len(w)) = Len(w)
    BY <1>1, UpTo
  <2>2. idx \in SUBSET (1..Len(w))
    BY <1>1
  <2>. QED
    BY <2>1, <2>2, FS_Subset
<1>3. f \in Surjection(idx, T)
  BY DEF Surjection
<1>4. IsFiniteSet(T) /\ Cardinality(T) <= Cardinality(idx)
  BY <1>2, <1>3, FS_Surjection
<1>5. Cardinality(T) \in Nat /\ Cardinality(idx) \in Nat
  BY <1>2, <1>4, FS_CardinalityType
<1>6. Cardinality(T) # 0
  <2>1. T # {}
    OBVIOUS
  <2>. QED
    BY <1>4, <2>1, FS_EmptySet
<1>7. order \in [1..Cardinality(T) -> T]
  BY DEF SetToSeqs
<1>8. Len(order) = Cardinality(T)
  BY <1>5, <1>7
<1>9. Len(order) <= Len(w)
  BY <1>1, <1>2, <1>4, <1>5, <1>8
<1>10. order # <<>>
  BY <1>6, <1>8
<1>. QED
  BY <1>9, <1>10

(* A reply to an attempt keeps the types, and the next list fits.           *)
LEMMA AfterReplyType ==
    ASSUME StreamTypeOK, LocalTypeOK, RetriesFit,
           NEW c \in Consumer, pc[c] = "fetch",
           NEW none \in SUBSET DOMAIN want[c],
           NEW flagged \in SUBSET DOMAIN want[c],
           AfterReply(c, none, flagged)
    PROVE  LocalTypeOK' /\ RetriesFit'
<1>. DEFINE w    == want[c]
            idx  == FailedIdx(w, flagged)
            have == Filled(got[c], w, none)
<1>1. /\ w \in Seq(Entry) /\ ids[c] \in Seq(Entry) /\ got[c] \subseteq Entry
      /\ Len(w) <= Len(ids[c]) /\ batch[c] \subseteq Entry
      /\ left[c] \in 0..Retries
  BY DEF LocalTypeOK, RetriesFit
<1>2. idx \subseteq DOMAIN w
  BY FailedIdxRange
<1>3. have \subseteq Entry
  BY <1>1 DEF Filled
<1>4. UNCHANGED <<streamVars, batch, ids>> /\ Entry' = Entry
  BY DEF AfterReply, streamVars, Entry
<1>5. CASE idx = {} \/ left[c] = 0
  <2>1. FinishFetch(c, have, idx)
    BY <1>5 DEF AfterReply
  <2>2. ReportedFailed(c, idx) \subseteq Entry
    BY <1>1, <1>2 DEF ReportedFailed
  <2>3. UNION {{i} \X Parsed(stream[i]) : i \in have} \subseteq Entry \X Relation
    BY <1>3 DEF Parsed, Indexable, RelationsIn
  <2>4. BlocksOf(batch[c]) \subseteq Block
    BY <1>1 DEF BlocksOf, StreamTypeOK, Entry
  <2>5. /\ pc' \in [Consumer -> Steps] /\ pc'[c] # "fetch"
        /\ requeue' \in [Consumer -> SUBSET Entry]
    BY <2>1, <2>2 DEF FinishFetch, AfterFetch, LocalTypeOK, Steps
  <2>6. todo' \in [Consumer -> SUBSET (Entry \X Relation)]
    BY <2>1, <2>3 DEF FinishFetch, LocalTypeOK
  <2>7. missed' \in [Consumer -> SUBSET Block]
    BY <2>1, <2>4 DEF FinishFetch, LocalTypeOK
  <2>8. /\ want' \in [Consumer -> Seq(Entry)]
        /\ left' \in [Consumer -> 0..Retries]
        /\ got' \in [Consumer -> SUBSET Entry]
    BY <2>1, ProcessorAssumption DEF FinishFetch, LocalTypeOK
  <2>9. LocalTypeOK'
    BY <1>4, <2>5, <2>6, <2>7, <2>8 DEF LocalTypeOK
  <2>10. RetriesFit'
    BY <1>4, <2>1, <2>5 DEF RetriesFit, FinishFetch, LocalTypeOK
  <2>. QED
    BY <2>9, <2>10
<1>6. CASE idx # {} /\ left[c] # 0
  <2>1. Retry(c, have, {w[k] : k \in idx})
    BY <1>6 DEF AfterReply
  <2>2. PICK order \in SetToSeqs({w[k] : k \in idx}) : want' = [want EXCEPT ![c] = order]
    BY <2>1 DEF Retry
  <2>3. order \in Seq(Entry)
    BY <1>1, <1>2, OrderType
  <2>4. Len(order) <= Len(w) /\ order # <<>>
    BY <1>1, <1>2, <1>6, RetryShorter
  <2>5. left[c] - 1 \in 0..Retries
    BY <1>1, <1>6, ProcessorAssumption
  <2>6. LocalTypeOK'
    BY <1>3, <1>4, <2>1, <2>2, <2>3, <2>5 DEF LocalTypeOK, Retry
  <2>7. Len(order) <= Len(ids[c])
    BY <1>1, <2>3, <2>4
  <2>8. RetriesFit'
    BY <1>4, <2>1, <2>2, <2>4, <2>7 DEF RetriesFit, Retry, LocalTypeOK
  <2>. QED
    BY <2>6, <2>8
<1>. QED
  BY <1>5, <1>6

-----------------------------------------------------------------------------
(* The fault budget.                                                        *)

LEMMA FaultsStep ==
    ASSUME PTypeOK, PNext
    PROVE  faults' \in 0..MaxFaults
<1>1. StreamTypeOK /\ faults \in 0..MaxFaults
  BY DEF PTypeOK, StreamTypeOK
<1>2. ASSUME NEW c \in Consumer, ProcessBlocks(c)
      PROVE  NoFault \/ \E kind \in FaultKinds : Fail(kind)
  <2>1. CASE FindStaleBlocks(c)
    BY <2>1 DEF FindStaleBlocks
  <2>2. CASE FetchStreamEvents(c)
    BY <2>2 DEF FetchStreamEvents
  <2>3. CASE BlocksFetched(c)
    BY <2>3 DEF BlocksFetched, FaultKinds
  <2>4. CASE SaveRelation(c)
    BY <2>4 DEF SaveRelation
  <2>5. CASE AddFailedBlock(c)
    BY <2>5 DEF AddFailedBlock
  <2>6. CASE AcknowledgeBlocks(c)
    BY <2>6 DEF AcknowledgeBlocks
  <2>. QED
    BY <1>2, <2>1, <2>2, <2>3, <2>4, <2>5, <2>6 DEF ProcessBlocks
<1>3. ASSUME NEW c \in Consumer, ProcessBlocksFails(c)
      PROVE  \E kind \in FaultKinds : Fail(kind)
  BY <1>3 DEF ProcessBlocksFails, ClaimReplyLost, FetchStreamEventsFails,
       BatchRequestFails, SaveRelationFails, AddFailedBlocksFails,
       AcknowledgeBlocksFails, FaultKinds
<1>4. CASE \E i \in pending : GoesStale(i) /\ UNCHANGED procVars
  BY <1>1, <1>4 DEF GoesStale
<1>5. CASE PCrash
  BY <1>1, <1>5, FaultType DEF PCrash, FaultKinds
<1>6. CASE Enqueue
  BY <1>1, <1>6, FaultType DEF Enqueue
<1>7. CASE ModelFull
  BY <1>1, <1>7 DEF ModelFull, pvars
<1>. QED
  BY <1>1, <1>2, <1>3, <1>4, <1>5, <1>6, <1>7, FaultType DEF PNext, ProcessorStep

-----------------------------------------------------------------------------
(* What persists from one step to the next.                                 *)

(* A block that is stored or lost remains so.                               *)
LEMMA SettledStays ==
    ASSUME PTypeOK, Grows, evicted \subseteq evicted', StoreGrows, NEW b
    PROVE  /\ Indexed(b) => Indexed(b)'
           /\ Lost(b) => Lost(b)'
<1>1. Indexed(b) => Indexed(b)'
  BY DEF StoreGrows, Indexed, Indexable, RelationsIn
<1>2. evicted \subseteq Entry
  BY DEF PTypeOK, StreamTypeOK, Entry
<1>3. Lost(b) => Lost(b)'
  BY <1>2 DEF StoreGrows, Lost, Grows
<1>. QED
  BY <1>1, <1>3

(* As long as nothing is acknowledged, the blocks of old entries are safe.  *)
LEMMA OldEntriesSafe ==
    ASSUME PInv, Keeps({}), StoreGrows, NEW i \in Entry
    PROVE  Indexed(stream[i])' \/ Queued(stream[i])' \/ Lost(stream[i])'
<1>. DEFINE b == stream[i]
<1>1. Grows /\ evicted \subseteq evicted' /\ PTypeOK
  BY DEF Keeps, PInv
<1>2. stream'[i] = b
  BY <1>1 DEF Grows
<1>3. CASE Indexed(b)
  BY <1>1, <1>2, <1>3, SettledStays DEF Indexed, Indexable, RelationsIn
<1>4. CASE Lost(b)
  BY <1>1, <1>2, <1>4, SettledStays DEF Lost
<1>5. CASE Queued(b)
  <2>1. PICK j \in Entry : stream[j] = b /\ Owed(j)
    BY <1>5 DEF Queued
  <2>2. Owed(j)' \/ j \in evicted'
    BY <2>1 DEF Keeps, StaysOwed
  <2>3. j \in Entry' /\ stream'[j] = b
    BY <1>1, <2>1 DEF Grows
  <2>. QED
    BY <1>2, <2>2, <2>3 DEF Queued, Lost
<1>. QED
  BY <1>3, <1>4, <1>5 DEF PInv, NoSilentLoss

(* A later copy that is owed stays owed or is cut off.                      *)
LEMMA LaterStays ==
    ASSUME PTypeOK, Keeps({}), StoreGrows, NEW c \in Consumer, NEW b,
           batch'[c] = batch[c], Later(c, b)
    PROVE  Later(c, b)' \/ Lost(b)'
<1>1. PICK i \in Entry : stream[i] = b /\ Owed(i) /\ \A e \in batch[c] : e < i
  BY DEF Later
<1>2. i \in Entry' /\ stream'[i] = b
  BY <1>1 DEF Keeps, Grows
<1>3. Owed(i)' \/ i \in evicted'
  BY <1>1 DEF Keeps, StaysOwed
<1>. QED
  BY <1>1, <1>2, <1>3 DEF Later, Lost

(* What a round has done for a block of its batch counts as long as the     *)
(* round is where it was and every later copy it counts on is good for it.  *)
LEMMA AccountedStays ==
    ASSUME PTypeOK, Grows, evicted \subseteq evicted', StoreGrows,
           NEW c \in Consumer, SameRound(c),
           \A b \in Block : Later(c, b) => Later(c, b)' \/ Lost(b)' \/ Indexed(b)',
           NEW e \in batch[c], Accounted(c, stream[e])
    PROVE  Accounted(c, stream[e])'
<1>. PICK b : b = stream[e]
  OBVIOUS
<1>1. Grows
  OBVIOUS
<1>2. e \in Entry /\ stream'[e] = b /\ b \in Block
  BY <1>1 DEF PTypeOK, LocalTypeOK, Grows, StreamTypeOK, Entry
<1>3. CASE b \in missed[c]
  BY <1>2, <1>3 DEF Accounted, SameRound
<1>4. CASE \A r \in Indexable(b) : store[r] > 0 \/ \E x \in Entry : <<x, r>> \in todo[c]
  <2>1. ASSUME NEW r \in Indexable(b)
        PROVE  store'[r] > 0 \/ \E x \in Entry' : <<x, r>> \in todo'[c]
    BY <1>1, <1>4 DEF StoreGrows, SameRound, Indexable, RelationsIn, Grows
  <2>. QED
    BY <1>2, <2>1 DEF Accounted, Indexable, RelationsIn
<1>5. CASE \E q \in requeue[c] : stream[q] = b
  <2>1. PICK q \in requeue[c] : stream[q] = b
    BY <1>5
  <2>2. q \in Entry /\ q \in requeue'[c]
    BY <2>1 DEF PTypeOK, LocalTypeOK, SameRound
  <2>3. stream'[q] = b
    BY <1>1, <2>1, <2>2 DEF Grows
  <2>. QED
    BY <1>2, <2>2, <2>3 DEF Accounted
<1>6. CASE Later(c, b)
  <2>1. Later(c, b)' \/ Lost(b)' \/ Indexed(b)'
    BY <1>2, <1>6
  <2>. QED
    BY <1>2, <2>1 DEF Accounted, Later, Lost, Indexed, Indexable, RelationsIn
<1>7. CASE Lost(b)
  <2>1. Lost(b)'
    BY <1>1, <1>7, SettledStays
  <2>. QED
    BY <1>2, <2>1 DEF Accounted, Lost
<1>. QED
  BY <1>3, <1>4, <1>5, <1>6, <1>7 DEF Accounted

(* So a round that does not move stays accounted for while nothing is       *)
(* acknowledged.                                                            *)
LEMMA RoundStays ==
    ASSUME PTypeOK, Keeps({}), StoreGrows, NEW c \in Consumer, SameRound(c),
           BatchAccounted(c)
    PROVE  BatchAccounted(c)'
<1>1. \A b \in Block : Later(c, b) => Later(c, b)' \/ Lost(b)'
  BY LaterStays DEF SameRound
<1>2. \A e \in batch[c] : Accounted(c, stream[e]) => Accounted(c, stream[e])'
  BY <1>1, AccountedStays DEF Keeps
<1>. QED
  BY <1>2 DEF BatchAccounted, SameRound

(* A round that has fetched nothing yet has nothing to account for.         *)
LEMMA YoungRound ==
    ASSUME NEW c \in Consumer, pc'[c] \in {"claim", "read", "fetch"}
    PROVE  BatchAccounted(c)'
BY DEF BatchAccounted

-----------------------------------------------------------------------------
(* The invariant, action by action.                                         *)

(* A step that acknowledges nothing keeps it if it keeps the types, what it *)
(* adds to the stream is owed, and the rounds it moves are accounted for.   *)
LEMMA StepKeeps ==
    ASSUME PInv, Keeps({}), StoreGrows, LocalTypeOK', RetriesFit',
           \A i \in Entry' : i \in Entry \/ Owed(i)',
           \A c \in Consumer : \/ SameRound(c)
                              \/ pc'[c] \in {"claim", "read", "fetch"}
                              \/ BatchAccounted(c)'
    PROVE  PInv'
<1>1. PTypeOK'
  BY DEF Keeps, StoreGrows, PTypeOK
<1>2. NoSilentLoss'
  <2>1. ASSUME NEW i \in Entry'
        PROVE  (Indexed(stream[i]) \/ Queued(stream[i]) \/ Lost(stream[i]))'
    <3>1. CASE i \in Entry
      BY <3>1, OldEntriesSafe
    <3>2. CASE Owed(i)'
      BY <2>1, <3>2 DEF Queued
    <3>. QED
      BY <2>1, <3>1, <3>2
  <2>. QED
    BY <2>1 DEF NoSilentLoss
<1>3. \A c \in Consumer : BatchAccounted(c)'
  BY RoundStays, YoungRound DEF PInv
<1>. QED
  BY <1>1, <1>2, <1>3 DEF PInv, Keeps

(* Steps that touch neither the stream's contents nor MongoDB.              *)
LEMMA StoreSame ==
    ASSUME PTypeOK, UNCHANGED <<store, dropped>>
    PROVE  StoreGrows
BY DEF PTypeOK, StoreGrows

LEMMA ClaimStep ==
    ASSUME PInv, faults' \in 0..MaxFaults, NEW c \in Consumer,
           FindStaleBlocks(c) \/ ClaimReplyLost(c)
    PROVE  PInv'
<1>1. PTypeOK /\ StreamTypeOK /\ EvictedKnown /\ LocalTypeOK /\ RetriesFit
  BY DEF PInv, PTypeOK
<1>2. XAutoClaim(BatchSize)
  BY DEF FindStaleBlocks, ClaimReplyLost
<1>3. Keeps({}) /\ Entry' = Entry /\ Claimed(BatchSize) \subseteq Entry
  BY <1>1, <1>2, XAutoClaimStep
<1>4. StoreGrows
  BY <1>1, StoreSame DEF FindStaleBlocks, ClaimReplyLost, procVars
<1>5. CASE FindStaleBlocks(c)
  <2>1. LocalTypeOK'
    BY <1>1, <1>3, <1>5 DEF LocalTypeOK, FindStaleBlocks, Steps
  <2>2. /\ RetriesFit'
        /\ \A d \in Consumer : SameRound(d) \/ pc'[d] = "read"
    BY <1>1, <1>5 DEF RetriesFit, SameRound, LocalTypeOK, FindStaleBlocks
  <2>. QED
    BY <1>3, <1>4, <2>1, <2>2, StepKeeps
<1>6. CASE ClaimReplyLost(c)
  <2>1. LocalTypeOK'
    BY <1>1, <1>3, <1>6, LocalTypeGrows DEF ClaimReplyLost, procVars
  <2>2. RetriesFit' /\ \A d \in Consumer : SameRound(d)
    BY <1>1, <1>6 DEF RetriesFit, SameRound, ClaimReplyLost, procVars, localVars
  <2>. QED
    BY <1>3, <1>4, <2>1, <2>2, StepKeeps
<1>. QED
  BY <1>5, <1>6

(* The end of a round, whatever the reason, if nothing was acknowledged.    *)
LEMMA EndRoundStep ==
    ASSUME PInv, Keeps({}), StoreGrows, NEW c \in Consumer, EndRound(c),
           \A i \in Entry' : i \in Entry \/ Owed(i)'
    PROVE  PInv'
<1>1. LocalTypeOK /\ RetriesFit /\ Entry \subseteq Entry'
  BY DEF PInv, PTypeOK, Keeps, Grows
<1>2. LocalTypeOK'
  BY <1>1, EndRoundType
<1>3. RetriesFit' /\ \A d \in Consumer : SameRound(d) \/ pc'[d] = "claim"
  BY <1>1 DEF RetriesFit, SameRound, LocalTypeOK, EndRound
<1>. QED
  BY <1>2, <1>3, StepKeeps

LEMMA ReadStep ==
    ASSUME PInv, faults' \in 0..MaxFaults, NEW c \in Consumer,
           FetchStreamEvents(c) \/ FetchStreamEventsFails(c)
    PROVE  PInv'
<1>. DEFINE n == Remaining(batch[c])
<1>1. PTypeOK /\ StreamTypeOK /\ EvictedKnown /\ LocalTypeOK /\ RetriesFit
  BY DEF PInv, PTypeOK
<1>2. batch[c] \in SUBSET Entry
  BY <1>1 DEF LocalTypeOK
<1>3. n \in Int
  BY <1>1, <1>2, EntriesFinite, ProcessorAssumption DEF Remaining
<1>4. StoreGrows
  BY <1>1, StoreSame DEF FetchStreamEvents, FetchStreamEventsFails
<1>5. CASE FetchStreamEvents(c)
  <2>1. Keeps({}) /\ Entry' = Entry /\ NewEntries(n) \subseteq Entry
    BY <1>1, <1>3, <1>5, XReadGroupStep DEF FetchStreamEvents
  <2>2. Merged(c) \in SUBSET Entry
    BY <1>2, <2>1 DEF Merged
  <2>3. CASE Merged(c) = {}
    <3>1. LocalTypeOK'
      BY <1>1, <1>5, <2>1, <2>3 DEF LocalTypeOK, FetchStreamEvents, Steps
    <3>2. /\ RetriesFit'
          /\ \A d \in Consumer : SameRound(d) \/ pc'[d] = "claim"
      BY <1>1, <1>5, <2>3 DEF RetriesFit, SameRound, LocalTypeOK, FetchStreamEvents
    <3>. QED
      BY <1>4, <2>1, <3>1, <3>2, StepKeeps
  <2>4. CASE Merged(c) # {}
    <3>1. PICK order \in SetToSeqs(Merged(c)) : /\ ids' = [ids EXCEPT ![c] = order]
                                                /\ want' = [want EXCEPT ![c] = order]
      BY <1>5, <2>4 DEF FetchStreamEvents
    <3>2. order \in Seq(Entry)
      BY <1>1, <2>2, <3>1, OrderType
    <3>3. order # <<>>
      <4>1. Cardinality(Merged(c)) \in Nat \ {0}
        BY <1>1, <2>2, <2>4, EntriesFinite, FS_EmptySet
      <4>2. order \in [1..Cardinality(Merged(c)) -> Merged(c)]
        BY <3>1 DEF SetToSeqs
      <4>. QED
        BY <4>1, <4>2
    <3>4. LocalTypeOK'
      <4>1. /\ pc' \in [Consumer -> Steps] /\ batch' \in [Consumer -> SUBSET Entry]
            /\ left' \in [Consumer -> 0..Retries]
        <5>1. /\ pc' = [pc EXCEPT ![c] = "fetch"]
              /\ batch' = [batch EXCEPT ![c] = Merged(c)]
              /\ left' = [left EXCEPT ![c] = Retries]
          BY <1>5, <2>4 DEF FetchStreamEvents
        <5>2. Retries \in 0..Retries
          BY ProcessorAssumption
        <5>. QED
          BY <1>1, <2>2, <5>1, <5>2 DEF LocalTypeOK, Steps
      <4>2. ids' \in [Consumer -> Seq(Entry)] /\ want' \in [Consumer -> Seq(Entry)]
        BY <1>1, <3>1, <3>2 DEF LocalTypeOK
      <4>3. UNCHANGED <<got, requeue, todo, missed>>
        BY <1>5 DEF FetchStreamEvents
      <4>. QED
        BY <1>1, <2>1, <4>1, <4>2, <4>3 DEF LocalTypeOK
    <3>5. Len(order) <= Len(order)
      BY <3>2
    <3>6. RetriesFit'
      BY <1>1, <1>5, <2>4, <3>1, <3>3, <3>5 DEF RetriesFit, LocalTypeOK, FetchStreamEvents
    <3>7. \A d \in Consumer : SameRound(d) \/ pc'[d] = "fetch"
      BY <1>1, <1>5, <2>4 DEF SameRound, LocalTypeOK, FetchStreamEvents
    <3>. QED
      BY <1>4, <2>1, <3>4, <3>6, <3>7, StepKeeps
  <2>. QED
    BY <2>3, <2>4
<1>6. CASE FetchStreamEventsFails(c)
  <2>1. Keeps({}) /\ Entry' = Entry
    BY <1>1, <1>3, <1>6, XReadGroupStep, UnchangedStep DEF FetchStreamEventsFails
  <2>2. EndRound(c)
    BY <1>6 DEF FetchStreamEventsFails
  <2>. QED
    BY <1>4, <2>1, <2>2, EndRoundStep
<1>. QED
  BY <1>5, <1>6

(* A fetched batch is accounted for: what GetBlocks returned whole will be  *)
(* inserted, what it reported will be added again, and the rest is missed.  *)
LEMMA FinishFetchAccounts ==
    ASSUME PInv, NEW c \in Consumer, NEW have \in SUBSET Entry, NEW idx,
           FinishFetch(c, have, idx),
           UNCHANGED <<streamVars, batch, ids, store, dropped>>
    PROVE  BatchAccounted(c)'
<1>. DEFINE again   == ReportedFailed(c, idx)
            inserts == UNION {{i} \X Parsed(stream[i]) : i \in have}
            whole   == {b \in BlocksOf(have) : ~ Poisoned(b)}
<1>1. LocalTypeOK
  BY DEF PInv, PTypeOK
<1>2. /\ requeue'[c] = again /\ todo'[c] = inserts
      /\ missed'[c] = BlocksOf(batch[c]) \ (whole \cup BlocksOf(again))
      /\ pc'[c] = AfterFetch(inserts, again)
  BY <1>1 DEF FinishFetch, LocalTypeOK
<1>3. stream' = stream /\ batch' = batch /\ store' = store /\ Entry' = Entry
  BY DEF streamVars, Entry
<1>4. ASSUME NEW e \in batch'[c] PROVE Accounted(c, stream[e])'
  <2>. PICK b : b = stream[e]
    OBVIOUS
  <2>1. b \in BlocksOf(batch[c])
    BY <1>3, <1>4 DEF BlocksOf
  <2>2. CASE b \in missed'[c]
    BY <1>3, <2>2 DEF Accounted
  <2>3. CASE b \in whole
    <3>1. PICK i \in have : stream[i] = b
      BY <2>3 DEF BlocksOf
    <3>2. Parsed(b) = Indexable(b)
      BY <2>3 DEF Parsed, Poisoned, Indexable
    <3>3. \A r \in Indexable(b) : <<i, r>> \in todo'[c]
      BY <1>2, <3>1, <3>2
    <3>. QED
      BY <1>3, <3>1, <3>3 DEF Accounted, Indexable, RelationsIn
  <2>4. CASE b \in BlocksOf(again)
    BY <1>2, <1>3, <2>4 DEF Accounted, BlocksOf
  <2>. QED
    BY <1>2, <2>1, <2>2, <2>3, <2>4
<1>5. /\ pc'[c] \in {"readd", "ack"} => todo'[c] = {}
      /\ pc'[c] = "ack" => requeue'[c] = {}
  BY <1>2 DEF AfterFetch
<1>. QED
  BY <1>4, <1>5 DEF BatchAccounted

LEMMA FetchStep ==
    ASSUME PInv, faults' \in 0..MaxFaults, NEW c \in Consumer,
           BlocksFetched(c) \/ BatchRequestFails(c)
    PROVE  PInv'
<1>. DEFINE w == want[c]
<1>1. /\ PTypeOK /\ StreamTypeOK /\ EvictedKnown /\ LocalTypeOK /\ RetriesFit
      /\ pc[c] = "fetch"
  BY DEF PInv, PTypeOK, BlocksFetched, BatchRequestFails
<1>2. w \in Seq(Entry) /\ w # <<>>
  BY <1>1 DEF LocalTypeOK, RetriesFit
<1>3. PICK none \in SUBSET DOMAIN w, flagged \in SUBSET DOMAIN w :
          AfterReply(c, none, flagged)
  <2>1. CASE BlocksFetched(c)
    BY <2>1 DEF BlocksFetched, Flagged
  <2>2. CASE BatchRequestFails(c)
    <3>1. {1} \in SUBSET DOMAIN w
      BY <1>2
    <3>. QED
      BY <2>2, <3>1 DEF BatchRequestFails
  <2>. QED
    BY <2>1, <2>2
<1>. DEFINE idx  == FailedIdx(w, flagged)
            have == Filled(got[c], w, none)
<1>4. LocalTypeOK' /\ RetriesFit'
  BY <1>1, <1>3, AfterReplyType
<1>5. UNCHANGED <<streamVars, batch, ids, store, dropped>>
  BY <1>3 DEF AfterReply
<1>6. Keeps({}) /\ Entry' = Entry /\ StoreGrows
  BY <1>1, <1>5, UnchangedStep, StoreSame
<1>7. have \in SUBSET Entry
  BY <1>1, <1>2 DEF Filled, LocalTypeOK
<1>8. pc'[c] = "fetch" \/ BatchAccounted(c)'
  <2>1. CASE FinishFetch(c, have, idx)
    BY <1>5, <1>7, <2>1, FinishFetchAccounts
  <2>2. CASE Retry(c, have, {w[k] : k \in idx})
    BY <1>1, <2>2 DEF Retry
  <2>. QED
    BY <1>3, <2>1, <2>2 DEF AfterReply
<1>9. ASSUME NEW d \in Consumer, d # c PROVE SameRound(d)
  <2>1. CASE FinishFetch(c, have, idx)
    BY <1>1, <1>5, <1>9, <2>1 DEF FinishFetch, SameRound, LocalTypeOK
  <2>2. CASE Retry(c, have, {w[k] : k \in idx})
    BY <1>5, <2>2 DEF Retry, SameRound
  <2>. QED
    BY <1>3, <2>1, <2>2 DEF AfterReply
<1>. QED
  BY <1>4, <1>6, <1>8, <1>9, StepKeeps

(* One more document of a relation.                                         *)
LEMMA InsertGrows ==
    ASSUME PTypeOK, NEW r \in Relation, store' = [store EXCEPT ![r] = @ + 1],
           UNCHANGED dropped
    PROVE  StoreGrows
BY DEF PTypeOK, StoreGrows

LEMMA SaveStep ==
    ASSUME PInv, faults' \in 0..MaxFaults, NEW c \in Consumer,
           SaveRelation(c) \/ SaveRelationFails(c)
    PROVE  PInv'
<1>1. /\ PTypeOK /\ StreamTypeOK /\ EvictedKnown /\ LocalTypeOK /\ RetriesFit
      /\ pc[c] = "save" /\ todo[c] \subseteq Entry \X Relation
  BY DEF PInv, PTypeOK, LocalTypeOK, SaveRelation, SaveRelationFails
<1>2. Keeps({}) /\ Entry' = Entry
  BY <1>1, UnchangedStep DEF SaveRelation, SaveRelationFails
<1>3. CASE SaveRelation(c)
  <2>1. PICK ins \in todo[c] :
           /\ store' = [store EXCEPT ![ins[2]] = @ + 1]
           /\ todo' = [todo EXCEPT ![c] = @ \ {ins}]
           /\ pc' = [pc EXCEPT ![c] = AfterFetch(todo[c] \ {ins}, requeue[c])]
    BY <1>3 DEF SaveRelation
  <2>2. /\ ins[2] \in Relation /\ ins = <<ins[1], ins[2]>>
        /\ UNCHANGED <<stream, batch, ids, want, left, got, requeue, missed, dropped>>
    BY <1>1, <1>3, <2>1 DEF SaveRelation, streamVars
  <2>3. StoreGrows
    BY <1>1, <2>1, <2>2, InsertGrows
  <2>4. AfterFetch(todo[c] \ {ins}, requeue[c]) \in {"save", "readd", "ack"}
    BY DEF AfterFetch
  <2>5. LocalTypeOK' /\ RetriesFit'
    BY <1>1, <1>2, <2>1, <2>2, <2>4 DEF LocalTypeOK, RetriesFit, Steps
  <2>6. todo'[c] = todo[c] \ {ins} /\ pc'[c] = AfterFetch(todo'[c], requeue'[c])
    BY <1>1, <2>1, <2>2 DEF LocalTypeOK
  <2>7. ASSUME NEW e \in batch'[c] PROVE Accounted(c, stream[e])'
    <3>. PICK b : b = stream[e]
      OBVIOUS
    <3>1. e \in batch[c] /\ Accounted(c, b) /\ stream'[e] = b
      BY <1>1, <2>2, <2>7 DEF PInv, BatchAccounted
    <3>2. CASE \A r \in Indexable(b) : store[r] > 0 \/ \E x \in Entry : <<x, r>> \in todo[c]
      <4>1. ASSUME NEW r \in Indexable(b)
            PROVE  store'[r] > 0 \/ \E x \in Entry' : <<x, r>> \in todo'[c]
        <5>1. r \in Relation
          BY <4>1 DEF Indexable, RelationsIn
        <5>2. CASE r = ins[2]
          BY <1>1, <2>1, <5>1, <5>2 DEF PTypeOK
        <5>3. CASE store[r] > 0
          BY <2>3, <5>1, <5>3 DEF StoreGrows
        <5>4. CASE r # ins[2] /\ \E x \in Entry : <<x, r>> \in todo[c]
          BY <1>2, <2>2, <2>6, <5>4
        <5>. QED
          BY <3>2, <4>1, <5>2, <5>3, <5>4
      <4>. QED
        BY <3>1, <4>1 DEF Accounted, Indexable, RelationsIn
    <3>3. CASE b \in missed[c] \/ \E q \in requeue[c] : stream[q] = b
      BY <2>2, <3>1, <3>3 DEF Accounted
    <3>4. CASE Later(c, b)
      <4>1. Later(c, b)' \/ Lost(b)'
        BY <1>1, <1>2, <2>2, <2>3, <3>4, LaterStays
      <4>. QED
        BY <3>1, <4>1 DEF Accounted, Later, Lost
    <3>5. CASE Lost(b)
      <4>1. Lost(b)'
        BY <1>1, <1>2, <2>3, <3>5, SettledStays DEF Keeps
      <4>. QED
        BY <3>1, <4>1 DEF Accounted, Lost
    <3>. QED
      BY <3>1, <3>2, <3>3, <3>4, <3>5 DEF Accounted
  <2>8. BatchAccounted(c)'
    BY <2>6, <2>7 DEF BatchAccounted, AfterFetch
  <2>9. \A d \in Consumer : d # c => SameRound(d)
    BY <1>1, <2>1, <2>2 DEF SameRound, LocalTypeOK
  <2>. QED
    BY <1>2, <2>3, <2>5, <2>8, <2>9, StepKeeps
<1>4. CASE SaveRelationFails(c)
  <2>1. StoreGrows
    BY <1>1, <1>4, InsertGrows, StoreSame DEF SaveRelationFails
  <2>2. EndRound(c)
    BY <1>4 DEF SaveRelationFails
  <2>. QED
    BY <1>2, <2>1, <2>2, EndRoundStep
<1>. QED
  BY <1>3, <1>4

(* Adding a block again: its new entry comes after the whole batch.         *)
LEMMA AddAgainStep ==
    ASSUME PInv, faults' \in 0..MaxFaults, NEW c \in Consumer,
           AddFailedBlock(c) \/ AddFailedBlocksFails(c)
    PROVE  PInv'
<1>1. /\ PTypeOK /\ StreamTypeOK /\ EvictedKnown /\ LocalTypeOK /\ RetriesFit
      /\ pc[c] = "readd" /\ requeue[c] \subseteq Entry /\ batch[c] \subseteq Entry
      /\ todo[c] = {}
  BY DEF PInv, PTypeOK, LocalTypeOK, BatchAccounted, AddFailedBlock, AddFailedBlocksFails
<1>2. \A i \in Entry : stream[i] \in Block
  BY <1>1 DEF StreamTypeOK, Entry
<1>3. StoreGrows
  BY <1>1, StoreSame DEF AddFailedBlock, AddFailedBlocksFails
<1>4. CASE AddFailedBlock(c)
  <2>1. PICK i \in requeue[c] :
           /\ XAdd(stream[i])
           /\ requeue' = [requeue EXCEPT ![c] = @ \ {i}]
           /\ pc' = [pc EXCEPT ![c] = AfterFetch({}, requeue[c] \ {i})]
    BY <1>4 DEF AddFailedBlock
  <2>2. /\ Keeps({})
        /\ Entry' = Entry \cup {Len(stream')} /\ Len(stream') = Len(stream) + 1
        /\ stream'[Len(stream')] = stream[i] /\ Owed(Len(stream))'
    BY <1>1, <1>2, <2>1, XAddStep
  <2>3. UNCHANGED <<batch, ids, want, left, got, todo, missed>>
    BY <1>4 DEF AddFailedBlock
  <2>4. AfterFetch({}, requeue[c] \ {i}) \in {"readd", "ack"}
    BY DEF AfterFetch
  <2>5. LocalTypeOK'
    <3>1. Seq(Entry) \subseteq Seq(Entry')
      BY <2>2, SeqGrows
    <3>2. pc' \in [Consumer -> Steps] /\ requeue' \in [Consumer -> SUBSET Entry']
      BY <1>1, <2>1, <2>2, <2>4 DEF LocalTypeOK, Steps
    <3>. QED
      BY <1>1, <2>2, <2>3, <3>1, <3>2 DEF LocalTypeOK
  <2>6. RetriesFit'
    BY <1>1, <2>1, <2>3, <2>4 DEF RetriesFit, LocalTypeOK
  <2>7. /\ requeue'[c] = requeue[c] \ {i} /\ pc'[c] = AfterFetch({}, requeue'[c])
        /\ todo'[c] = {}
    BY <1>1, <2>1, <2>3 DEF LocalTypeOK
  <2>8. ASSUME NEW e \in batch'[c] PROVE Accounted(c, stream[e])'
    <3>. PICK b : b = stream[e]
      OBVIOUS
    <3>1. e \in batch[c] /\ Accounted(c, b) /\ stream'[e] = b
      BY <1>1, <2>2, <2>3, <2>8 DEF PInv, BatchAccounted, Keeps, Grows
    <3>2. CASE b \in missed[c]
      BY <2>3, <3>1, <3>2 DEF Accounted
    <3>3. CASE \A r \in Indexable(b) : store[r] > 0 \/ \E x \in Entry : <<x, r>> \in todo[c]
      BY <1>1, <1>3, <3>1, <3>3 DEF Accounted, StoreGrows, Indexable, RelationsIn
    <3>4. CASE \E q \in requeue[c] : stream[q] = b
      <4>1. PICK q \in requeue[c] : stream[q] = b
        BY <3>4
      <4>2. CASE q # i
        BY <1>1, <2>2, <2>7, <3>1, <4>1, <4>2 DEF Accounted, Keeps, Grows
      <4>3. CASE q = i
        <5>1. \A x \in batch'[c] : x < Len(stream')
          BY <1>1, <2>2, <2>3 DEF Entry, StreamTypeOK
        <5>2. /\ Len(stream') \in Entry' /\ stream'[Len(stream')] = b
              /\ Owed(Len(stream))'
          BY <2>2, <4>1, <4>3
        <5>3. Later(c, stream[e])'
          BY <3>1, <5>1, <5>2 DEF Later
        <5>. QED
          BY <5>3 DEF Accounted
      <4>. QED
        BY <4>2, <4>3
    <3>5. CASE Later(c, b)
      <4>1. Later(c, b)' \/ Lost(b)'
        BY <1>1, <1>3, <2>2, <2>3, <3>5, LaterStays
      <4>. QED
        BY <3>1, <4>1 DEF Accounted, Later, Lost
    <3>6. CASE Lost(b)
      <4>1. Lost(b)'
        BY <1>1, <1>3, <2>2, <3>6, SettledStays DEF Keeps
      <4>. QED
        BY <3>1, <4>1 DEF Accounted, Lost
    <3>. QED
      BY <3>1, <3>2, <3>3, <3>4, <3>5, <3>6 DEF Accounted
  <2>9. BatchAccounted(c)'
    BY <2>7, <2>8 DEF BatchAccounted, AfterFetch
  <2>10. \A d \in Consumer : d # c => SameRound(d)
    BY <1>1, <2>1, <2>3 DEF SameRound, LocalTypeOK
  <2>11. \A j \in Entry' : j \in Entry \/ Owed(j)'
    BY <2>2
  <2>. QED
    BY <1>3, <2>2, <2>5, <2>6, <2>9, <2>10, <2>11, StepKeeps
<1>5. CASE AddFailedBlocksFails(c)
  <2>1. EndRound(c)
    BY <1>5 DEF AddFailedBlocksFails
  <2>2. CASE UNCHANGED streamVars
    BY <1>1, <1>3, <2>1, <2>2, UnchangedStep, EndRoundStep
  <2>3. CASE \E i \in requeue[c] : XAdd(stream[i])
    <3>1. PICK b \in Block : XAdd(b)
      BY <1>1, <1>2, <2>3
    <3>2. Keeps({}) /\ \A j \in Entry' : j \in Entry \/ Owed(j)'
      BY <1>1, <3>1, XAddStep
    <3>. QED
      BY <1>3, <2>1, <3>2, EndRoundStep
  <2>. QED
    BY <1>5, <2>2, <2>3 DEF AddFailedBlocksFails
<1>. QED
  BY <1>4, <1>5

(* What an acknowledged batch leaves behind for each of its blocks.         *)
LEMMA AckedSafe ==
    ASSUME PInv, NEW c \in Consumer, pc[c] = "ack", Keeps(batch[c]), StoreGrows,
           missed[c] \subseteq dropped', NEW j \in batch[c], NEW b, b = stream[j]
    PROVE  \/ Indexed(b)' \/ Lost(b)'
           \/ \E k \in Entry : /\ stream[k] = b /\ Owed(k)'
                              /\ \A e \in batch[c] : e < k
<1>1. /\ PTypeOK /\ Grows /\ evicted \subseteq evicted'
      /\ Accounted(c, b) /\ todo[c] = {} /\ requeue[c] = {}
      /\ batch[c] \subseteq Entry
  BY DEF PInv, BatchAccounted, Keeps, PTypeOK, LocalTypeOK
<1>2. CASE b \in missed[c] \/ Lost(b)
  BY <1>1, <1>2, SettledStays DEF Lost
<1>3. CASE \A r \in Indexable(b) : store[r] > 0 \/ \E x \in Entry : <<x, r>> \in todo[c]
  BY <1>1, <1>3, SettledStays DEF Indexed
<1>4. CASE Later(c, b)
  <2>1. PICK k \in Entry : stream[k] = b /\ Owed(k) /\ \A e \in batch[c] : e < k
    BY <1>4 DEF Later
  <2>2. k \notin batch[c]
    BY <2>1 DEF Entry
  <2>3. Owed(k)' \/ k \in evicted'
    BY <2>1, <2>2 DEF Keeps, StaysOwed
  <2>4. k \in Entry' /\ stream'[k] = b
    BY <1>1, <2>1 DEF Grows
  <2>. QED
    BY <2>1, <2>3, <2>4 DEF Lost
<1>. QED
  BY <1>1, <1>2, <1>3, <1>4 DEF Accounted

(* The other rounds survive the acknowledgement.                            *)
LEMMA AckedOthers ==
    ASSUME PInv, NEW c \in Consumer, pc[c] = "ack", Keeps(batch[c]), StoreGrows,
           missed[c] \subseteq dropped', NEW d \in Consumer, SameRound(d)
    PROVE  BatchAccounted(d)'
<1>1. /\ PTypeOK /\ Grows /\ evicted \subseteq evicted' /\ BatchAccounted(d)
      /\ batch[c] \subseteq Entry /\ batch[d] \subseteq Entry
  BY DEF PInv, Keeps, PTypeOK, LocalTypeOK
<1>2. ASSUME NEW b \in Block, Later(d, b)
      PROVE  Later(d, b)' \/ Lost(b)' \/ Indexed(b)'
  <2>1. PICK i \in Entry : stream[i] = b /\ Owed(i) /\ \A e \in batch[d] : e < i
    BY <1>2 DEF Later
  <2>2. i \in Entry' /\ stream'[i] = b /\ batch'[d] = batch[d]
    BY <1>1, <2>1 DEF Grows, SameRound
  <2>3. CASE Owed(i)'
    BY <2>1, <2>2, <2>3 DEF Later
  <2>4. CASE i \in evicted'
    BY <2>2, <2>4 DEF Lost
  <2>5. CASE i \in batch[c]
    <3>1. CASE Indexed(b)' \/ Lost(b)'
      BY <3>1
    <3>2. CASE \E k \in Entry : stream[k] = b /\ Owed(k)' /\ \A e \in batch[c] : e < k
      <4>1. PICK k \in Entry : stream[k] = b /\ Owed(k)' /\ i < k
        BY <2>5, <3>2
      <4>2. \A e \in batch[d] : e < k
        BY <1>1, <2>1, <4>1 DEF Entry
      <4>3. k \in Entry' /\ stream'[k] = b
        BY <1>1, <4>1 DEF Grows
      <4>. QED
        BY <2>2, <4>1, <4>2, <4>3 DEF Later
    <3>. QED
      BY <2>1, <2>5, <3>1, <3>2, AckedSafe
  <2>. QED
    BY <2>1, <2>3, <2>4, <2>5 DEF Keeps, StaysOwed
<1>3. \A e \in batch[d] : Accounted(d, stream[e]) => Accounted(d, stream[e])'
  BY <1>1, <1>2, AccountedStays
<1>. QED
  BY <1>1, <1>3 DEF BatchAccounted, SameRound

LEMMA AckStep ==
    ASSUME PInv, faults' \in 0..MaxFaults, NEW c \in Consumer,
           AcknowledgeBlocks(c) \/ AcknowledgeBlocksFails(c)
    PROVE  PInv'
<1>1. /\ PTypeOK /\ StreamTypeOK /\ EvictedKnown /\ LocalTypeOK /\ RetriesFit
      /\ missed[c] \subseteq Block
  BY DEF PInv, PTypeOK, LocalTypeOK
<1>2. pc[c] = "ack" /\ EndRound(c) /\ UNCHANGED store
  BY DEF AcknowledgeBlocks, AcknowledgeBlocksFails
<1>3. CASE XAck(batch[c]) /\ dropped' = dropped \cup missed[c]
  <2>1. Keeps(batch[c]) /\ Entry' = Entry
    BY <1>1, <1>3, XAckStep
  <2>2. StoreGrows
    BY <1>1, <1>2, <1>3 DEF StoreGrows, PTypeOK
  <2>3. LocalTypeOK'
    BY <1>1, <1>2, <2>1, EndRoundType
  <2>4. RetriesFit' /\ \A d \in Consumer : SameRound(d) \/ pc'[d] = "claim"
    BY <1>1, <1>2 DEF RetriesFit, SameRound, LocalTypeOK, EndRound
  <2>5. \A d \in Consumer : BatchAccounted(d)'
    BY <1>2, <1>3, <2>1, <2>2, <2>4, AckedOthers, YoungRound
  <2>6. ASSUME NEW i \in Entry'
        PROVE  (Indexed(stream[i]) \/ Queued(stream[i]) \/ Lost(stream[i]))'
    <3>. PICK b : b = stream[i]
      OBVIOUS
    <3>1. i \in Entry /\ stream'[i] = b /\ Grows /\ evicted \subseteq evicted'
      BY <2>1, <2>6 DEF Keeps, Grows
    <3>2. Indexed(b)' \/ Queued(b)' \/ Lost(b)'
      <4>1. CASE Indexed(b) \/ Lost(b)
        BY <1>1, <2>2, <3>1, <4>1, SettledStays
      <4>2. CASE Queued(b)
        <5>1. PICK j \in Entry : stream[j] = b /\ Owed(j)
          BY <4>2 DEF Queued
        <5>2. j \in Entry' /\ stream'[j] = b
          BY <3>1, <5>1 DEF Grows
        <5>3. CASE Owed(j)' \/ j \in evicted'
          BY <5>2, <5>3 DEF Queued, Lost
        <5>4. CASE j \in batch[c]
          <6>1. CASE \E k \in Entry : stream[k] = b /\ Owed(k)'
            BY <3>1, <6>1 DEF Queued, Grows
          <6>. QED
            BY <1>2, <1>3, <2>1, <2>2, <5>1, <5>4, <6>1, AckedSafe
        <5>. QED
          BY <2>1, <5>1, <5>3, <5>4 DEF Keeps, StaysOwed
      <4>. QED
        BY <3>1, <4>1, <4>2 DEF PInv, NoSilentLoss
    <3>. QED
      BY <3>1, <3>2 DEF Indexed, Indexable, RelationsIn, Queued, Lost
  <2>7. NoSilentLoss'
    BY <2>6 DEF NoSilentLoss
  <2>. QED
    BY <2>1, <2>2, <2>3, <2>4, <2>5, <2>7 DEF PInv, PTypeOK, Keeps, StoreGrows
<1>4. CASE UNCHANGED <<streamVars, dropped>>
  <2>1. Keeps({}) /\ Entry' = Entry /\ StoreGrows
    BY <1>1, <1>2, <1>4, UnchangedStep, StoreSame
  <2>. QED
    BY <1>2, <2>1, EndRoundStep
<1>. QED
  BY <1>3, <1>4 DEF AcknowledgeBlocks, AcknowledgeBlocksFails

(* What arrives in the stream disturbs no processor.                        *)
LEMMA ArrivalStep ==
    ASSUME PInv, UNCHANGED procVars, Keeps({}),
           \A j \in Entry' : j \in Entry \/ Owed(j)'
    PROVE  PInv'
<1>1. PTypeOK /\ LocalTypeOK /\ RetriesFit
  BY DEF PInv, PTypeOK
<1>2. StoreGrows
  BY <1>1, StoreSame DEF procVars
<1>3. LocalTypeOK'
  BY <1>1, LocalTypeGrows DEF procVars, Keeps, Grows
<1>4. RetriesFit' /\ \A d \in Consumer : SameRound(d)
  BY <1>1 DEF RetriesFit, SameRound, procVars, localVars
<1>. QED
  BY <1>2, <1>3, <1>4, StepKeeps

(* The process dies, the stream and MongoDB remain.                         *)
LEMMA CrashStep ==
    ASSUME PInv, faults' \in 0..MaxFaults, ProcessorsCrash, UNCHANGED streamVars
    PROVE  PInv'
<1>1. PTypeOK /\ StreamTypeOK /\ EvictedKnown
  BY DEF PInv, PTypeOK
<1>2. Keeps({}) /\ Entry' = Entry
  BY <1>1, UnchangedStep
<1>3. StoreGrows
  BY <1>1, StoreSame DEF ProcessorsCrash
<1>4. LocalTypeOK'
  <2>1. <<>> \in Seq(Entry') /\ 0 \in 0..Retries
    BY ProcessorAssumption
  <2>. QED
    BY <2>1 DEF ProcessorsCrash, LocalTypeOK, Steps
<1>5. RetriesFit' /\ \A d \in Consumer : pc'[d] = "claim"
  BY DEF ProcessorsCrash, RetriesFit
<1>. QED
  BY <1>2, <1>3, <1>4, <1>5, StepKeeps

(* Steps of the surroundings: time, the crash, the harvester, and none.     *)
LEMMA OtherSteps ==
    ASSUME PInv, faults' \in 0..MaxFaults,
           \/ \E i \in pending : GoesStale(i) /\ UNCHANGED procVars
           \/ PCrash \/ Enqueue \/ UNCHANGED pvars
    PROVE  PInv'
<1>1. StreamTypeOK /\ EvictedKnown
  BY DEF PInv, PTypeOK
<1>2. CASE \E i \in pending : GoesStale(i) /\ UNCHANGED procVars
  BY <1>1, <1>2, GoesStaleStep, ArrivalStep
<1>3. CASE PCrash
  BY <1>3, CrashStep DEF PCrash
<1>4. CASE Enqueue
  <2>1. PICK b \in Block : XAdd(b)
    BY <1>4 DEF Enqueue
  <2>2. Keeps({}) /\ \A j \in Entry' : j \in Entry \/ Owed(j)'
    BY <1>1, <2>1, XAddStep
  <2>. QED
    BY <1>4, <2>2, ArrivalStep DEF Enqueue
<1>5. CASE UNCHANGED pvars
  <2>1. Keeps({}) /\ Entry' = Entry
    BY <1>1, <1>5, UnchangedStep DEF pvars
  <2>. QED
    BY <1>5, <2>1, ArrivalStep DEF pvars
<1>. QED
  BY <1>2, <1>3, <1>4, <1>5

-----------------------------------------------------------------------------
(* The theorems.                                                            *)

LEMMA InitInv == PInit => PInv
<1>. SUFFICES ASSUME PInit PROVE PInv
  OBVIOUS
<1>1. StreamTypeOK /\ EvictedKnown /\ Entry = {}
  BY StreamInitOK DEF PInit
<1>2. <<>> \in Seq(Entry) /\ 0 \in 0..Retries
  BY ProcessorAssumption
<1>3. LocalTypeOK
  BY <1>2 DEF PInit, LocalInit, LocalTypeOK, Steps
<1>4. PTypeOK
  BY <1>1, <1>3 DEF PInit, StoreInit, PTypeOK
<1>5. NoSilentLoss /\ RetriesFit /\ \A c \in Consumer : BatchAccounted(c)
  BY <1>1 DEF PInit, LocalInit, NoSilentLoss, RetriesFit, BatchAccounted
<1>. QED
  BY <1>1, <1>4, <1>5 DEF PInv

LEMMA NextInv == PInv /\ [PNext]_pvars => PInv'
<1>. SUFFICES ASSUME PInv, [PNext]_pvars PROVE PInv'
  OBVIOUS
<1>1. CASE UNCHANGED pvars
  <2>1. faults' \in 0..MaxFaults
    BY <1>1 DEF pvars, PInv, PTypeOK, StreamTypeOK
  <2>. QED
    BY <1>1, <2>1, OtherSteps
<1>2. CASE PNext
  <2>1. faults' \in 0..MaxFaults
    BY <1>2, FaultsStep DEF PInv
  <2>2. ASSUME NEW c \in Consumer, ProcessBlocks(c) \/ ProcessBlocksFails(c)
        PROVE  PInv'
    BY <2>1, <2>2, ClaimStep, ReadStep, FetchStep, SaveStep, AddAgainStep, AckStep
       DEF ProcessBlocks, ProcessBlocksFails
  <2>. QED
    BY <1>2, <2>1, <2>2, OtherSteps DEF PNext, ProcessorStep, ModelFull
<1>. QED
  BY <1>1, <1>2

(* The inductive invariant holds in every reachable state.                  *)
THEOREM InvariantHolds == PSpec => []PInv
BY InitInv, NextInv, PTL DEF PSpec

(* The variables of the processors and of the stream keep their types.      *)
THEOREM TypesHold == PSpec => []PTypeOK
<1>1. PInv => PTypeOK
  BY DEF PInv
<1>. QED
  BY <1>1, InvariantHolds, PTL

(* No crash, lost reply, failed insert, stale claim or requeuing loses a    *)
(* block: ProcessBlocks (processor.go:114-170) either leaves it indexed,    *)
(* or owed by Redis, or it is one of the two named kinds of loss.           *)
THEOREM NothingLostSilently == PSpec => []NoSilentLoss
<1>1. PInv => NoSilentLoss
  BY DEF PInv
<1>. QED
  BY <1>1, InvariantHolds, PTL

(* The lookup of failed blocks (processor.go:193-195) stays in range, for   *)
(* every batch size and every number of retries.                            *)
THEOREM IndexInRange == PSpec => []RetriesFit
<1>1. PInv => RetriesFit
  BY DEF PInv
<1>. QED
  BY <1>1, InvariantHolds, PTL

-----------------------------------------------------------------------------
(* A round with one entry.  It asks for that entry only, at the first       *)
(* position of every list, where each of the two ways to fail reports it.   *)
Alone(c) == Cardinality(batch[c]) <= 1

OneAsked(c) ==
    /\ Len(ids[c]) = 1 /\ Len(want[c]) = 1
    /\ want[c][1] = ids[c][1] /\ batch[c] = {ids[c][1]}

Company(c) ==
    /\ missed[c] # {} => ~ Alone(c) /\ pc[c] \notin {"claim", "read"}
    /\ pc[c] = "fetch" /\ Alone(c) => OneAsked(c)

LEMMA OneOrder ==
    ASSUME NEW S, IsFiniteSet(S), Cardinality(S) <= 1, S # {}, NEW order \in SetToSeqs(S)
    PROVE  Len(order) = 1 /\ S = {order[1]}
<1>1. Cardinality(S) = 1
  BY FS_CardinalityType, FS_EmptySet
<1>2. PICK x : S = {x}
  BY <1>1, FS_Singleton
<1>3. order \in [1..1 -> {x}]
  BY <1>1, <1>2 DEF SetToSeqs
<1>. QED
  BY <1>2, <1>3

(* The reply to an attempt of such a round: nothing is missed.              *)
LEMMA OneReply ==
    ASSUME PInv, NEW c \in Consumer, pc[c] = "fetch", Company(c),
           NEW none \in SUBSET DOMAIN want[c], NEW flagged \in SUBSET DOMAIN want[c],
           none \subseteq flagged,
           \A k \in DOMAIN want[c] \ flagged : ~ Poisoned(stream[want[c][k]]),
           AfterReply(c, none, flagged)
    PROVE  Company(c)'
<1>. DEFINE w    == want[c]
            idx  == FailedIdx(w, flagged)
            have == Filled(got[c], w, none)
<1>1. /\ LocalTypeOK /\ StreamTypeOK /\ (missed[c] = {} \/ ~ Alone(c))
      /\ batch' = batch /\ ids' = ids /\ stream' = stream
  BY DEF PInv, PTypeOK, AfterReply, Company, streamVars
<1>2. \/ FinishFetch(c, have, idx) /\ (idx = {} \/ left[c] = 0)
      \/ Retry(c, have, {w[k] : k \in idx}) /\ idx # {}
  BY DEF AfterReply
<1>3. /\ pc \in [Consumer -> Steps] /\ want \in [Consumer -> Seq(Entry)]
      /\ missed \in [Consumer -> SUBSET Block]
  BY <1>1 DEF LocalTypeOK
<1>4. ASSUME FinishFetch(c, have, idx)
      PROVE  /\ missed'[c] = BlocksOf(batch[c]) \
                  ({x \in BlocksOf(have) : ~ Poisoned(x)} \cup BlocksOf(ReportedFailed(c, idx)))
             /\ pc'[c] \in {"save", "readd", "ack"}
  <2>. HIDE DEF have, idx
  <2>. QED
    BY <1>3, <1>4 DEF FinishFetch, AfterFetch
<1>5. CASE ~ Alone(c)
  <2>1. pc'[c] \notin {"claim", "read"}
    BY <1>2, <1>3, <1>4 DEF Retry
  <2>. QED
    BY <1>1, <1>5, <2>1 DEF Company, Alone
<1>6. CASE Alone(c)
  <2>1. OneAsked(c) /\ missed[c] = {}
    BY <1>1, <1>6 DEF Company
  <2>. DEFINE e == w[1]
  <2>2. w \in Seq(Entry) /\ Len(w) = 1 /\ DOMAIN w = {1} /\ w = <<e>>
    BY <1>3, <2>1 DEF OneAsked
  <2>3. batch[c] = {e} /\ ids[c][1] = e
    BY <2>1 DEF OneAsked
  <2>4. flagged \in {{}, {1}}
    BY <2>2
  <2>5. idx = flagged
    BY <2>4 DEF FailedIdx
  <2>6. CASE FinishFetch(c, have, idx)
    <3>1. CASE flagged = {1}
      <4>1. ReportedFailed(c, idx) = {e}
        BY <2>3, <2>5, <3>1 DEF ReportedFailed
      <4>2. BlocksOf(batch[c]) = BlocksOf(ReportedFailed(c, idx))
        BY <2>3, <4>1
      <4>3. missed'[c] = {}
        BY <1>4, <2>6, <4>2
      <4>. QED
        BY <1>4, <2>6, <4>3 DEF Company
    <3>2. CASE flagged = {}
      <4>1. ~ Poisoned(stream[e])
        BY <2>2, <3>2
      <4>2. e \in {w[k] : k \in DOMAIN w \ none}
        BY <2>2, <3>2
      <4>3. e \in have
        BY <4>2 DEF Filled
      <4>4. BlocksOf(batch[c]) = {stream[e]} /\ stream[e] \in BlocksOf(have)
        BY <2>3, <4>3 DEF BlocksOf
      <4>5. missed'[c] = {}
        <5>. HIDE DEF have, e
        <5>. QED
          BY <1>4, <2>6, <4>1, <4>4
      <4>. QED
        BY <1>4, <2>6, <4>5 DEF Company
    <3>. QED
      BY <2>4, <3>1, <3>2
  <2>7. CASE Retry(c, have, {w[k] : k \in idx}) /\ idx # {}
    <3>1. {w[k] : k \in idx} = {e}
      BY <2>4, <2>5, <2>7
    <3>2. PICK order \in SetToSeqs({e}) : want' = [want EXCEPT ![c] = order]
      BY <2>7, <3>1 DEF Retry
    <3>3. Len(order) = 1 /\ order[1] = e
      <4>. HIDE DEF e
      <4>1. IsFiniteSet({e}) /\ Cardinality({e}) = 1 /\ {e} # {}
        BY FS_Singleton
      <4>2. Len(order) = 1 /\ {e} = {order[1]}
        BY <4>1, OneOrder
      <4>. QED
        BY <4>2
    <3>4. want'[c] = order /\ missed' = missed
      BY <1>3, <2>7, <3>2 DEF Retry
    <3>. QED
      BY <1>1, <2>1, <2>3, <3>3, <3>4 DEF Company, OneAsked
  <2>. QED
    BY <1>2, <2>6, <2>7
<1>. QED
  BY <1>5, <1>6

LEMMA CompanyOfOthers ==
    ASSUME NEW d, Company(d),
           pc'[d] = pc[d] /\ batch'[d] = batch[d] /\ ids'[d] = ids[d]
           /\ want'[d] = want[d] /\ missed'[d] = missed[d]
    PROVE  Company(d)'
BY DEF Company, Alone, OneAsked

LEMMA CompanyEndRound ==
    ASSUME LocalTypeOK, NEW c \in Consumer, NEW d \in Consumer, Company(d), EndRound(c)
    PROVE  Company(d)'
<1>1. CASE d = c
  <2>1. missed'[c] = {} /\ pc'[c] = "claim"
    BY DEF EndRound, LocalTypeOK
  <2>. QED
    BY <1>1, <2>1 DEF Company
<1>2. CASE d # c
  BY <1>2, CompanyOfOthers DEF EndRound, LocalTypeOK
<1>. QED
  BY <1>1, <1>2

LEMMA CompanyRead ==
    ASSUME PInv, NEW c \in Consumer, Company(c), FetchStreamEvents(c)
    PROVE  Company(c)'
<1>1. /\ LocalTypeOK /\ StreamTypeOK /\ missed' = missed /\ missed[c] = {}
  BY DEF PInv, PTypeOK, FetchStreamEvents, Company
<1>2. CASE Merged(c) = {}
  <2>1. pc'[c] = "claim"
    BY <1>1, <1>2 DEF FetchStreamEvents, LocalTypeOK
  <2>. QED
    BY <1>1, <2>1 DEF Company
<1>3. CASE Merged(c) # {}
  <2>1. PICK order \in SetToSeqs(Merged(c)) :
           ids' = [ids EXCEPT ![c] = order] /\ want' = [want EXCEPT ![c] = order]
    BY <1>3 DEF FetchStreamEvents
  <2>2. batch'[c] = Merged(c) /\ ids'[c] = order /\ want'[c] = order
    BY <1>1, <2>1 DEF FetchStreamEvents, LocalTypeOK
  <2>3. ASSUME Alone(c)' PROVE OneAsked(c)'
    <3>1. Merged(c) \subseteq Entry'
      <4>1. PInv'
        BY ReadStep, FaultsStep DEF PInv, PNext, ProcessorStep, ProcessBlocks
      <4>. QED
        BY <2>2, <4>1 DEF PInv, PTypeOK, LocalTypeOK
    <3>2. Entry' = Entry
      BY DEF FetchStreamEvents, XReadGroup, Entry
    <3>3. IsFiniteSet(Merged(c))
      <4>1. Len(stream) \in Nat
        BY <1>1 DEF StreamTypeOK
      <4>2. IsFiniteSet(Entry)
        BY <4>1, UpTo DEF Entry
      <4>. QED
        BY <3>1, <3>2, <4>2, FS_Subset
    <3>4. Cardinality(Merged(c)) <= 1
      BY <2>2, <2>3 DEF Alone
    <3>5. Len(order) = 1 /\ Merged(c) = {order[1]}
      BY <1>3, <3>3, <3>4, OneOrder
    <3>. QED
      BY <2>2, <3>5 DEF OneAsked
  <2>. QED
    BY <1>1, <2>3 DEF Company
<1>. QED
  BY <1>2, <1>3

(* A step of one processor leaves the locals of the others alone.           *)
LEMMA OthersStay ==
    ASSUME PInv, NEW c \in Consumer, ProcessBlocks(c) \/ ProcessBlocksFails(c),
           NEW d \in Consumer, d # c
    PROVE  /\ pc'[d] = pc[d] /\ batch'[d] = batch[d] /\ ids'[d] = ids[d]
           /\ want'[d] = want[d] /\ missed'[d] = missed[d]
<1>1. LocalTypeOK
  BY DEF PInv, PTypeOK
<1>2. CASE EndRound(c)
  BY <1>1, <1>2 DEF LocalTypeOK, EndRound
<1>3. CASE FindStaleBlocks(c) \/ ClaimReplyLost(c)
  BY <1>1, <1>3 DEF LocalTypeOK, FindStaleBlocks, ClaimReplyLost, procVars, localVars
<1>4. CASE FetchStreamEvents(c)
  BY <1>1, <1>4 DEF LocalTypeOK, FetchStreamEvents
<1>5. ASSUME NEW none, NEW flagged, AfterReply(c, none, flagged)
      PROVE  /\ pc'[d] = pc[d] /\ batch'[d] = batch[d] /\ ids'[d] = ids[d]
             /\ want'[d] = want[d] /\ missed'[d] = missed[d]
  <2>1. batch'[d] = batch[d] /\ ids'[d] = ids[d]
    BY <1>5 DEF AfterReply
  <2>2. ASSUME NEW have, NEW idx, FinishFetch(c, have, idx)
        PROVE  pc'[d] = pc[d] /\ want'[d] = want[d] /\ missed'[d] = missed[d]
    BY <1>1, <2>2 DEF LocalTypeOK, FinishFetch
  <2>3. ASSUME NEW have, NEW again, Retry(c, have, again)
        PROVE  pc'[d] = pc[d] /\ want'[d] = want[d] /\ missed'[d] = missed[d]
    BY <1>1, <2>3 DEF LocalTypeOK, Retry
  <2>. QED
    BY <1>5, <2>1, <2>2, <2>3, Zenon DEF AfterReply
<1>6. CASE BlocksFetched(c)
  BY <1>5, <1>6 DEF BlocksFetched
<1>7. CASE BatchRequestFails(c)
  BY <1>5, <1>7 DEF BatchRequestFails
<1>8. CASE SaveRelation(c)
  BY <1>1, <1>8 DEF LocalTypeOK, SaveRelation
<1>9. CASE AddFailedBlock(c)
  BY <1>1, <1>9 DEF LocalTypeOK, AddFailedBlock
<1>. QED
  BY <1>2, <1>3, <1>4, <1>6, <1>7, <1>8, <1>9 DEF ProcessBlocks, ProcessBlocksFails,
     FetchStreamEventsFails, SaveRelationFails, AddFailedBlocksFails,
     AcknowledgeBlocks, AcknowledgeBlocksFails

LEMMA CompanyStep ==
    ASSUME PInv, NEW c \in Consumer, ProcessBlocks(c) \/ ProcessBlocksFails(c),
           \A d \in Consumer : Company(d), NEW d \in Consumer
    PROVE  Company(d)'
<1>1. LocalTypeOK /\ Company(c) /\ Company(d) /\ RetriesFit
  BY DEF PInv, PTypeOK
<1>2. CASE d # c
  <2>1. /\ pc'[d] = pc[d] /\ batch'[d] = batch[d] /\ ids'[d] = ids[d]
        /\ want'[d] = want[d] /\ missed'[d] = missed[d]
    BY <1>2, OthersStay
  <2>. QED
    BY <1>1, <2>1, CompanyOfOthers
<1>3. CASE EndRound(c)
  BY <1>1, <1>3, CompanyEndRound
<1>4. CASE d = c /\ FindStaleBlocks(c)
  <2>1. missed'[c] = {} /\ pc'[c] = "read"
    BY <1>1, <1>4 DEF FindStaleBlocks, Company, LocalTypeOK
  <2>. QED
    BY <1>4, <2>1 DEF Company
<1>5. CASE d = c /\ ClaimReplyLost(c)
  BY <1>1, <1>5, CompanyOfOthers DEF ClaimReplyLost, procVars, localVars
<1>6. CASE d = c /\ FetchStreamEvents(c)
  BY <1>1, <1>6, CompanyRead
<1>7. CASE d = c /\ BlocksFetched(c)
  <2>1. PICK none \in SUBSET DOMAIN want[c] : AfterReply(c, none, Flagged(want[c], none))
    BY <1>7 DEF BlocksFetched
  <2>. DEFINE flagged == Flagged(want[c], none)
  <2>2. /\ flagged \in SUBSET DOMAIN want[c] /\ none \subseteq flagged
        /\ \A k \in DOMAIN want[c] \ flagged : ~ Poisoned(stream[want[c][k]])
    BY DEF Flagged
  <2>. HIDE DEF flagged
  <2>3. AfterReply(c, none, flagged) /\ pc[c] = "fetch"
    BY <1>7, <2>1 DEF BlocksFetched, flagged
  <2>. QED
    BY <1>1, <1>7, <2>2, <2>3, OneReply
<1>8. CASE d = c /\ BatchRequestFails(c)
  <2>. DEFINE none == DOMAIN want[c]
  <2>1. AfterReply(c, none, {1}) /\ pc[c] = "fetch" /\ want[c] # <<>> /\ want[c] \in Seq(Entry)
    BY <1>1, <1>8 DEF BatchRequestFails, RetriesFit, LocalTypeOK
  <2>2. 1 \in none
    BY <2>1
  <2>3. CASE none = {1}
    BY <1>1, <1>8, <2>1, <2>3, OneReply
  <2>4. CASE none # {1}
    <3>1. ~ Alone(c)
      BY <1>1, <2>1, <2>2, <2>4 DEF Company, OneAsked
    <3>2. batch' = batch /\ pc'[c] \notin {"claim", "read"}
      BY <1>1, <2>1 DEF AfterReply, FinishFetch, Retry, AfterFetch, LocalTypeOK
    <3>. QED
      BY <1>8, <3>1, <3>2 DEF Company, Alone
  <2>. QED
    BY <2>3, <2>4
<1>9. CASE d = c /\ (SaveRelation(c) \/ AddFailedBlock(c))
  <2>1. /\ batch' = batch /\ missed' = missed
        /\ pc'[c] \in {"save", "readd", "ack"}
    BY <1>1, <1>9 DEF SaveRelation, AddFailedBlock, AfterFetch, LocalTypeOK
  <2>. QED
    BY <1>1, <1>9, <2>1 DEF Company, Alone
<1>. QED
  BY <1>2, <1>3, <1>4, <1>5, <1>6, <1>7, <1>8, <1>9 DEF ProcessBlocks, ProcessBlocksFails,
     FetchStreamEventsFails, SaveRelationFails, AddFailedBlocksFails, AcknowledgeBlocks,
     AcknowledgeBlocksFails

LEMMA CompanyNext ==
    PInv /\ (\A c \in Consumer : Company(c)) /\ [PNext]_pvars
        => (\A c \in Consumer : Company(c))'
<1>. SUFFICES ASSUME PInv, \A c \in Consumer : Company(c), [PNext]_pvars, NEW d \in Consumer
              PROVE  Company(d)'
  OBVIOUS
<1>1. CASE \E c \in Consumer : ProcessBlocks(c) \/ ProcessBlocksFails(c)
  BY <1>1, CompanyStep
<1>2. CASE UNCHANGED localVars
  BY <1>2, CompanyOfOthers DEF localVars
<1>3. CASE PCrash
  BY <1>3 DEF PCrash, ProcessorsCrash, Company
<1>. QED
  BY <1>1, <1>2, <1>3 DEF PNext, ProcessorStep, Enqueue, ModelFull, procVars, pvars

LEMMA CompanyImplies ==
    ASSUME PInv, \A c \in Consumer : Company(c)
    PROVE  MissNeedsCompany
<1>. SUFFICES ASSUME NEW c \in Consumer, Company(c), missed[c] # {}
              PROVE  Cardinality(batch[c]) > 1
  BY DEF MissNeedsCompany
<1>1. batch[c] \subseteq Entry /\ StreamTypeOK
  BY DEF PInv, PTypeOK, LocalTypeOK
<1>2. Cardinality(batch[c]) \in Nat
  BY <1>1, EntriesFinite
<1>. QED
  BY <1>2 DEF Company, Alone

(* A round with one entry never acknowledges a block it neither stored nor  *)
(* added again (processor.go:174-186, cli.go:226-270): only the position of *)
(* a failed block in a list of several can be mistaken.                     *)
THEOREM OneEntryIsNeverMissed == PSpec => []MissNeedsCompany
<1>1. PInit => \A c \in Consumer : Company(c)
  BY DEF PInit, LocalInit, Company
<1>2. PInv /\ (\A c \in Consumer : Company(c)) => MissNeedsCompany
  BY CompanyImplies
<1>. QED
  BY <1>1, <1>2, CompanyNext, InvariantHolds, PTL DEF PSpec

-----------------------------------------------------------------------------
(* When the reports can be trusted.  If batch requests never fail as a      *)
(* whole, and either nothing is retried or nothing needs a retry, then the  *)
(* one list a round asks for is the list of its batch, in which a position  *)
(* means the same block to GetBlocks and to processBlocks.                  *)
OneListOnly == /\ "batch" \notin Faults
               /\ Retries = 0 \/ ("block" \notin Faults /\ Undecodable = {})

WholeReport(c) ==
    /\ missed[c] = {}
    /\ pc[c] = "fetch" => want[c] = ids[c] /\ batch[c] \subseteq ToSet(ids[c])

(* An order of a set of entries has every entry of it.                      *)
LEMMA OrderIsWhole ==
    ASSUME NEW S, IsFiniteSet(S), NEW order \in SetToSeqs(S)
    PROVE  S \subseteq ToSet(order)
<1>. DEFINE n == Cardinality(S)
<1>1. n \in Nat
  BY FS_CardinalityType
<1>2. order \in Injection(1..n, S)
  BY DEF SetToSeqs, Injection, IsInjective
<1>3. Cardinality(1..n) = Cardinality(S)
  BY <1>1, UpTo
<1>. HIDE DEF n
<1>4. order \in Surjection(1..n, S)
  BY <1>2, <1>3, FS_Injection
<1>. QED
  BY <1>4 DEF Surjection, ToSet

(* The reply to the one attempt: what is not returned whole is reported.    *)
LEMMA WholeReply ==
    ASSUME PInv, OneListOnly, NEW c \in Consumer, WholeReport(c), BlocksFetched(c)
    PROVE  missed'[c] = {} /\ pc'[c] # "fetch"
<1>. DEFINE w == want[c]
<1>1. /\ LocalTypeOK /\ StreamTypeOK /\ pc[c] = "fetch" /\ w \in Seq(Entry)
      /\ w = ids[c] /\ batch[c] \subseteq ToSet(w)
      /\ left[c] \in 0..Retries
  BY DEF PInv, PTypeOK, LocalTypeOK, BlocksFetched, WholeReport
<1>2. PICK none \in SUBSET DOMAIN w :
         /\ IF none = {} THEN NoFault ELSE Fail("block")
         /\ AfterReply(c, none, Flagged(w, none))
  BY DEF BlocksFetched
<1>. DEFINE flagged == Flagged(w, none)
            idx     == FailedIdx(w, flagged)
            have    == Filled(got[c], w, none)
            whole   == {b \in BlocksOf(have) : ~ Poisoned(b)}
            again   == ReportedFailed(c, idx)
<1>3. flagged \subseteq DOMAIN w /\ none \subseteq flagged
  BY DEF Flagged
<1>4. idx = {} \/ left[c] = 0
  <2>1. CASE Retries = 0
    BY <1>1, <2>1
  <2>2. CASE "block" \notin Faults /\ Undecodable = {}
    <3>1. none = {}
      BY <1>2, <2>2 DEF Fail
    <3>2. flagged = {}
      BY <2>2, <3>1 DEF Flagged, Poisoned
    <3>. QED
      BY <3>2 DEF FailedIdx
  <2>. QED
    BY <2>1, <2>2 DEF OneListOnly
<1>5. ASSUME NEW e \in batch[c]
      PROVE  stream[e] \in whole \cup BlocksOf(again)
  <2>1. PICK k \in DOMAIN w : w[k] = e
    BY <1>1 DEF ToSet
  <2>2. CASE k \in flagged
    <3>. DEFINE S == {j \in flagged : stream[w[j]] = stream[e]}
    <3>1. S \in SUBSET (1..Len(w)) /\ S # {} /\ Len(w) \in Nat
      BY <1>1, <1>3, <2>1, <2>2
    <3>2. PICK m \in S : \A j \in S : j <= m
      <4>. HIDE DEF S
      <4>. QED
        BY <3>1, LastPosition
    <3>3. m \in idx
      <4>. HIDE DEF flagged
      <4>. QED
        BY <3>2 DEF FailedIdx
    <3>4. ids[c][m] \in again /\ stream[ids[c][m]] = stream[e]
      BY <1>1, <3>2, <3>3 DEF ReportedFailed
    <3>. QED
      BY <3>4 DEF BlocksOf
  <2>3. CASE k \notin flagged
    <3>1. e \in have /\ ~ Poisoned(stream[e])
      BY <1>3, <2>1, <2>3 DEF Flagged, Filled
    <3>. HIDE DEF have
    <3>. QED
      BY <3>1 DEF BlocksOf
  <2>. QED
    BY <2>2, <2>3
<1>6. FinishFetch(c, have, idx)
  <2>. HIDE DEF idx, have
  <2>. QED
    BY <1>2, <1>4 DEF AfterReply, idx, have
<1>. HIDE DEF idx, have
<1>7. /\ missed'[c] = BlocksOf(batch[c]) \ (whole \cup BlocksOf(again))
      /\ pc'[c] # "fetch"
  BY <1>1, <1>6 DEF FinishFetch, AfterFetch, LocalTypeOK
<1>. HIDE DEF whole, again
<1>. QED
  BY <1>5, <1>7 DEF BlocksOf

LEMMA WholeRead ==
    ASSUME PInv, NEW c \in Consumer, WholeReport(c), FetchStreamEvents(c)
    PROVE  WholeReport(c)'
<1>1. LocalTypeOK /\ StreamTypeOK /\ missed' = missed
  BY DEF PInv, PTypeOK, FetchStreamEvents
<1>2. CASE Merged(c) = {}
  <2>1. pc'[c] = "claim"
    BY <1>1, <1>2 DEF FetchStreamEvents, LocalTypeOK
  <2>. QED
    BY <1>1, <2>1 DEF WholeReport
<1>3. CASE Merged(c) # {}
  <2>1. PICK order \in SetToSeqs(Merged(c)) :
           ids' = [ids EXCEPT ![c] = order] /\ want' = [want EXCEPT ![c] = order]
    BY <1>3 DEF FetchStreamEvents
  <2>2. batch'[c] = Merged(c) /\ ids'[c] = order /\ want'[c] = order
    BY <1>1, <2>1 DEF FetchStreamEvents, LocalTypeOK
  <2>3. IsFiniteSet(Merged(c))
    <3>1. PInv' /\ Entry' = Entry
      BY ReadStep, FaultsStep DEF PInv, PNext, ProcessorStep, ProcessBlocks,
         FetchStreamEvents, XReadGroup, Entry
    <3>2. Merged(c) \subseteq Entry
      BY <2>2, <3>1 DEF PInv, PTypeOK, LocalTypeOK
    <3>. QED
      BY <1>1, <3>2, EntriesFinite
  <2>4. Merged(c) \subseteq ToSet(order)
    <3>. HIDE DEF Merged
    <3>. QED
      BY <2>1, <2>3, OrderIsWhole
  <2>. QED
    BY <1>1, <2>2, <2>4 DEF WholeReport
<1>. QED
  BY <1>2, <1>3

(* One step of a processor keeps the reports whole and drops nothing.       *)
LEMMA WholeStep ==
    ASSUME PInv, OneListOnly, \A d \in Consumer : WholeReport(d), ProcessorStep
    PROVE  \A d \in Consumer : WholeReport(d)'
<1>1. LocalTypeOK
  BY DEF PInv, PTypeOK
<1>2. ASSUME NEW d \in Consumer,
             pc'[d] = pc[d] /\ batch'[d] = batch[d] /\ ids'[d] = ids[d]
             /\ want'[d] = want[d] /\ missed'[d] = missed[d]
      PROVE  WholeReport(d)'
  BY <1>2 DEF WholeReport
<1>3. ASSUME NEW c \in Consumer, ProcessBlocks(c) \/ ProcessBlocksFails(c)
      PROVE  WholeReport(c)'
  <2>1. CASE EndRound(c)
    BY <1>1, <2>1 DEF EndRound, LocalTypeOK, WholeReport
  <2>2. CASE FindStaleBlocks(c)
    <3>1. missed'[c] = missed[c] /\ pc'[c] = "read"
      BY <1>1, <2>2 DEF FindStaleBlocks, LocalTypeOK
    <3>. QED
      BY <3>1 DEF WholeReport
  <2>3. CASE ClaimReplyLost(c)
    BY <1>2, <2>3 DEF ClaimReplyLost, procVars, localVars
  <2>4. CASE FetchStreamEvents(c)
    BY <2>4, WholeRead
  <2>5. CASE BlocksFetched(c)
    BY <2>5, WholeReply DEF WholeReport
  <2>6. CASE BatchRequestFails(c)
    BY <2>6 DEF BatchRequestFails, Fail, OneListOnly
  <2>7. CASE SaveRelation(c) \/ AddFailedBlock(c)
    <3>1. missed'[c] = missed[c] /\ pc'[c] \in {"save", "readd", "ack"}
      BY <1>1, <2>7 DEF SaveRelation, AddFailedBlock, AfterFetch, LocalTypeOK
    <3>. QED
      BY <3>1 DEF WholeReport
  <2>. QED
    BY <1>3, <2>1, <2>2, <2>3, <2>4, <2>5, <2>6, <2>7 DEF ProcessBlocks,
       ProcessBlocksFails, FetchStreamEventsFails, SaveRelationFails,
       AddFailedBlocksFails, AcknowledgeBlocks, AcknowledgeBlocksFails
<1>4. ASSUME UNCHANGED procVars PROVE \A d \in Consumer : WholeReport(d)'
  BY <1>2, <1>4 DEF procVars, localVars
<1>. QED
  BY <1>2, <1>3, <1>4, OthersStay DEF ProcessorStep

LEMMA WholeNext ==
    ASSUME PInv, OneListOnly, \A d \in Consumer : WholeReport(d), [PNext]_pvars
    PROVE  \A d \in Consumer : WholeReport(d)'
<1>1. CASE ProcessorStep
  BY <1>1, WholeStep
<1>2. CASE PCrash
  BY <1>2 DEF PCrash, ProcessorsCrash, WholeReport
<1>3. CASE UNCHANGED localVars
  BY <1>3 DEF localVars, WholeReport
<1>. QED
  BY <1>1, <1>2, <1>3 DEF PNext, Enqueue, ModelFull, procVars, pvars

(* What no round has missed, none drops.                                    *)
LEMMA NothingDropped ==
    ASSUME FailedBlocksAreReturned, ProcessorStep
    PROVE  dropped' = dropped
<1>1. ASSUME NEW c \in Consumer, ProcessBlocks(c) \/ ProcessBlocksFails(c)
      PROVE  dropped' = dropped \/ dropped' = dropped \cup missed[c]
  BY <1>1 DEF ProcessBlocks, ProcessBlocksFails, FindStaleBlocks, ClaimReplyLost, procVars,
     FetchStreamEvents, FetchStreamEventsFails, BlocksFetched, BatchRequestFails, AfterReply,
     SaveRelation, SaveRelationFails, AddFailedBlock, AddFailedBlocksFails,
     AcknowledgeBlocks, AcknowledgeBlocksFails
<1>2. CASE UNCHANGED procVars
  BY <1>2 DEF procVars
<1>. QED
  BY <1>1, <1>2 DEF ProcessorStep, FailedBlocksAreReturned

-----------------------------------------------------------------------------
(* Copies are paid for: sets of deliveries and of inserts to come.          *)

LEMMA DeliveriesNat ==
    ASSUME StreamTypeOK, NEW i \in Entry
    PROVE  deliveries[i] \in Nat
<1>1. Len(stream) \in Nat /\ Len(stream) <= MaxEntries
  BY DEF StreamTypeOK
<1>2. i \in 1..MaxEntries
  BY <1>1, StreamAssumption DEF Entry
<1>. QED
  BY <1>2 DEF StreamTypeOK

LEMMA HandedFinite ==
    ASSUME StreamTypeOK, NEW b
    PROVE  IsFiniteSet(Handed(b)) /\ Cardinality(Handed(b)) \in Nat
<1>. DEFINE T == {j \in Entry : stream[j] = b}
            S == {{i} \X (1..deliveries[i]) : i \in T}
            f == [i \in T |-> {i} \X (1..deliveries[i])]
<1>1. IsFiniteSet(T)
  BY EntriesFinite
<1>2. f \in Surjection(T, S)
  BY DEF Surjection
<1>3. IsFiniteSet(S)
  BY <1>1, <1>2, FS_Surjection
<1>4. ASSUME NEW i \in T PROVE IsFiniteSet({i} \X (1..deliveries[i]))
  <2>1. deliveries[i] \in Nat
    BY DeliveriesNat
  <2>2. IsFiniteSet({i}) /\ IsFiniteSet(1..deliveries[i])
    BY <2>1, UpTo, FS_Singleton
  <2>. QED
    BY <2>2, FS_Product
<1>5. IsFiniteSet(UNION S)
  BY <1>3, <1>4, FS_UNION
<1>. QED
  BY <1>5, FS_CardinalityType DEF Handed

LEMMA InsertsFinite ==
    ASSUME StreamTypeOK, NEW r
    PROVE  IsFiniteSet(InsertsToCome(r)) /\ Cardinality(InsertsToCome(r)) \in Nat
<1>1. IsFiniteSet(Consumer) /\ IsFiniteSet(Entry)
  BY EntriesFinite, ProcessorAssumption
<1>2. IsFiniteSet(Consumer \X Entry)
  BY <1>1, FS_Product
<1>3. InsertsToCome(r) \in SUBSET (Consumer \X Entry)
  BY DEF InsertsToCome
<1>. QED
  BY <1>2, <1>3, FS_Subset, FS_CardinalityType

(* The same after a step.                                                   *)
SizesOK(b, r) ==
    /\ IsFiniteSet(Handed(b)) /\ Cardinality(Handed(b)) \in Nat
    /\ IsFiniteSet(InsertsToCome(r)) /\ Cardinality(InsertsToCome(r)) \in Nat

LEMMA FiniteNext ==
    ASSUME NEW b, NEW r
    PROVE  StreamTypeOK' => SizesOK(b, r)'
<1>1. StreamTypeOK => SizesOK(b, r)
  BY HandedFinite, InsertsFinite DEF SizesOK
<1>. QED
  BY <1>1, PTL

(* Once more delivered, and only those of D.                                *)
HandsOut(D) == \A i \in Entry : deliveries'[i] = deliveries[i] + (IF i \in D THEN 1 ELSE 0)

(* Each entry of D handed out is one more delivery of its block.            *)
LEMMA Delivered ==
    ASSUME StreamTypeOK, StreamTypeOK', Grows, NEW D \in SUBSET Entry, HandsOut(D), NEW b
    PROVE  Cardinality(Handed(b)) + Cardinality({i \in D : stream[i] = b})
              <= Cardinality(Handed(b)')
<1>. DEFINE N == {i \in D : stream[i] = b}
            g == [i \in N |-> <<i, deliveries[i] + 1>>]
            New == {<<i, deliveries[i] + 1>> : i \in N}
<1>1. IsFiniteSet(N) /\ Cardinality(N) \in Nat
  BY EntriesFinite
<1>2. \A i \in Entry : deliveries[i] \in Nat
  BY DeliveriesNat
<1>3. g \in Bijection(N, New)
  BY DEF Bijection, Injection, Surjection, IsInjective
<1>4. IsFiniteSet(New) /\ Cardinality(New) = Cardinality(N)
  BY <1>1, <1>3, FS_Bijection DEF ExistsBijection
<1>5. New \cap Handed(b) = {}
  <2>. SUFFICES ASSUME NEW i \in N, <<i, deliveries[i] + 1>> \in Handed(b)
                PROVE  FALSE
    OBVIOUS
  <2>1. deliveries[i] + 1 \in 1..deliveries[i]
    BY DEF Handed
  <2>. QED
    BY <1>2, <2>1
<1>6. Handed(b) \subseteq Handed(b)'
  <2>. SUFFICES ASSUME NEW i \in Entry, stream[i] = b, NEW k \in 1..deliveries[i]
                PROVE  <<i, k>> \in Handed(b)'
    BY DEF Handed
  <2>1. i \in Entry' /\ stream'[i] = b
    BY DEF Grows
  <2>2. k \in 1..deliveries'[i]
    BY <1>2 DEF HandsOut
  <2>. QED
    BY <2>1, <2>2 DEF Handed
<1>7. New \subseteq Handed(b)'
  <2>. SUFFICES ASSUME NEW i \in N PROVE <<i, deliveries[i] + 1>> \in Handed(b)'
    OBVIOUS
  <2>1. i \in Entry' /\ stream'[i] = b
    BY DEF Grows
  <2>2. deliveries[i] + 1 \in 1..deliveries'[i]
    BY <1>2 DEF HandsOut
  <2>. QED
    BY <2>1, <2>2 DEF Handed
<1>. HIDE DEF N, New, g
<1>8. IsFiniteSet(Handed(b)) /\ Cardinality(Handed(b)) \in Nat /\ IsFiniteSet(Handed(b)')
      /\ Cardinality(Handed(b)') \in Nat
  BY HandedFinite, FiniteNext DEF SizesOK
<1>9. Cardinality(New \cup Handed(b)) = Cardinality(New) + Cardinality(Handed(b))
  <2>1. Cardinality(New \cap Handed(b)) = 0
    BY <1>5, FS_EmptySet
  <2>2. Cardinality(New \cup Handed(b)) =
          Cardinality(New) + Cardinality(Handed(b)) - Cardinality(New \cap Handed(b))
    BY <1>4, <1>8, FS_Union, Zenon
  <2>. QED
    BY <1>1, <1>4, <1>8, <2>1, <2>2
<1>10. Cardinality(New \cup Handed(b)) <= Cardinality(Handed(b)')
  BY <1>6, <1>7, <1>8, FS_Subset
<1>11. Cardinality(Handed(b)) + Cardinality(N) <= Cardinality(Handed(b)')
  BY <1>1, <1>4, <1>8, <1>9, <1>10
<1>. QED
  BY <1>11 DEF N

(* A step that hands D to the round c, and starts no other insert, pays for *)
(* the inserts that may come of it.                                         *)
LEMMA HandingPays ==
    ASSUME StreamTypeOK, StreamTypeOK', Grows, NEW D \in SUBSET Entry, HandsOut(D),
           NEW r \in Relation, PaidFor(r), store \in [Relation -> Nat], store'[r] = store[r],
           NEW c,
           \A d \in Consumer, e \in Entry' : MayInsert(d, e, r)' =>
               \/ e \in Entry /\ MayInsert(d, e, r)
               \/ d = c /\ e \in D /\ stream[e] = BlockOf[r]
    PROVE  PaidFor(r)'
<1>. DEFINE N == {i \in D : stream[i] = BlockOf[r]}
            X == {c} \X N
            I == InsertsToCome(r)
            H == Handed(BlockOf[r])
<1>1. IsFiniteSet(N) /\ Cardinality(N) \in Nat
  BY EntriesFinite
<1>2. IsFiniteSet(X) /\ Cardinality(X) = Cardinality(N)
  <2>1. IsFiniteSet({c}) /\ Cardinality({c}) = 1
    BY FS_Singleton
  <2>. HIDE DEF N
  <2>2. IsFiniteSet(X) /\ Cardinality(X) = Cardinality({c}) * Cardinality(N)
    BY <1>1, <2>1, FS_Product
  <2>. QED
    BY <1>1, <2>1, <2>2
<1>3. I' \subseteq I \cup X
  BY DEF InsertsToCome
<1>4. Cardinality(H) + Cardinality(N) <= Cardinality(H')
  BY Delivered
<1>5. /\ IsFiniteSet(I) /\ Cardinality(I) \in Nat /\ Cardinality(I') \in Nat
      /\ Cardinality(H) \in Nat /\ Cardinality(H') \in Nat
  BY HandedFinite, InsertsFinite, FiniteNext DEF SizesOK
<1>6. store[r] + Cardinality(I) <= Cardinality(H) /\ store[r] \in Nat
  BY DEF PaidFor
<1>. HIDE DEF N, X, I, H
<1>7. /\ IsFiniteSet(I \cup X) /\ Cardinality(I \cap X) \in Nat
      /\ Cardinality(I \cup X) = Cardinality(I) + Cardinality(X) - Cardinality(I \cap X)
  BY <1>2, <1>5, FS_Union, FS_Intersection, FS_CardinalityType
<1>8. Cardinality(I') <= Cardinality(I \cup X)
  BY <1>3, <1>7, FS_Subset
<1>9. store[r] + Cardinality(I') <= Cardinality(H')
  BY <1>1, <1>2, <1>4, <1>5, <1>6, <1>7, <1>8
<1>. QED
  BY <1>9 DEF PaidFor, I, H

(* A document more is one insert less to come.                              *)
LEMMA InsertIsPaid ==
    ASSUME StreamTypeOK, StreamTypeOK', Grows, HandsOut({}),
           NEW r \in Relation, PaidFor(r), store \in [Relation -> Nat],
           store'[r] = store[r] + 1,
           NEW c \in Consumer, NEW e \in Entry, MayInsert(c, e, r),
           ~ MayInsert(c, e, r)',
           \A d \in Consumer, i \in Entry' : MayInsert(d, i, r)' =>
               i \in Entry /\ MayInsert(d, i, r)
    PROVE  PaidFor(r)'
<1>. DEFINE I == InsertsToCome(r)
            H == Handed(BlockOf[r])
            x == <<c, e>>
<1>1. x \in I /\ I' \subseteq I \ {x}
  BY DEF InsertsToCome
<1>2. /\ IsFiniteSet(I) /\ Cardinality(I) \in Nat /\ Cardinality(I') \in Nat
      /\ Cardinality(H) \in Nat /\ Cardinality(H') \in Nat
  BY HandedFinite, InsertsFinite, FiniteNext DEF SizesOK
<1>3. Cardinality(H) <= Cardinality(H')
  <2>1. Cardinality({i \in {} : stream[i] = BlockOf[r]}) = 0
    <3>1. {i \in {} : stream[i] = BlockOf[r]} = {}
      OBVIOUS
    <3>. QED
      BY <3>1, FS_EmptySet
  <2>2. Cardinality(H) + Cardinality({i \in {} : stream[i] = BlockOf[r]}) <= Cardinality(H')
    BY Delivered
  <2>. QED
    BY <1>2, <2>1, <2>2
<1>4. store[r] + Cardinality(I) <= Cardinality(H) /\ store[r] \in Nat
  BY DEF PaidFor
<1>. HIDE DEF I, H, x
<1>5. IsFiniteSet(I \ {x}) /\ Cardinality(I \ {x}) = Cardinality(I) - 1
  BY <1>1, <1>2, FS_RemoveElement
<1>6. Cardinality(I') <= Cardinality(I) - 1
  BY <1>1, <1>5, FS_Subset
<1>7. store'[r] + Cardinality(I') <= Cardinality(H')
  BY <1>2, <1>3, <1>4, <1>6
<1>. QED
  BY <1>7 DEF PaidFor, I, H

(* A round that only does, or forgets, what it was about to do.             *)
LessToDo(c) ==
    /\ todo'[c] \subseteq todo[c]
    /\ \/ pc'[c] = pc[c] /\ batch'[c] = batch[c] /\ got'[c] = got[c] /\ want'[c] = want[c]
       \/ /\ pc[c] # "fetch" /\ pc'[c] \in {"save", "readd", "ack"}
          /\ batch'[c] = batch[c] /\ got'[c] = got[c]
       \/ pc'[c] = "claim" /\ batch'[c] = {} /\ got'[c] = {}

LEMMA LessKeeps ==
    ASSUME CInv, Grows, NEW c \in Consumer, LessToDo(c)
    PROVE  /\ OwnEntriesOnly(c)' /\ Cardinality(batch'[c]) <= BatchSize
           /\ \A r \in Relation, e \in Entry' :
                 MayInsert(c, e, r)' => e \in Entry /\ MayInsert(c, e, r)
<1>1. /\ OwnEntriesOnly(c) /\ Cardinality(batch[c]) <= BatchSize
      /\ batch[c] \subseteq Entry /\ todo[c] \subseteq Entry \X Relation
  BY DEF CInv, BatchFits, PInv, PTypeOK, LocalTypeOK
<1>2. \A e \in Entry : stream'[e] = stream[e]
  BY DEF Grows
<1>3. OwnEntriesOnly(c)'
  <2>1. \A ins \in todo'[c] : stream'[ins[1]] = BlockOf[ins[2]]
    BY <1>1, <1>2 DEF LessToDo, OwnEntriesOnly
  <2>2. IF pc'[c] = "fetch" THEN got'[c] \cup ToSet(want'[c]) \subseteq batch'[c]
                           ELSE got'[c] = {}
    BY <1>1 DEF LessToDo, OwnEntriesOnly
  <2>. QED
    BY <2>1, <2>2 DEF OwnEntriesOnly
<1>4. Cardinality(batch'[c]) <= BatchSize
  <2>1. Cardinality({}) = 0 /\ 0 <= BatchSize
    BY FS_EmptySet, ProcessorAssumption
  <2>2. batch'[c] = batch[c] \/ batch'[c] = {}
    BY DEF LessToDo
  <2>. QED
    BY <1>1, <2>1, <2>2
<1>5. ASSUME NEW r \in Relation, NEW e \in Entry', MayInsert(c, e, r)'
      PROVE  e \in Entry /\ MayInsert(c, e, r)
  <2>1. \/ pc[c] \in {"read", "fetch"} /\ e \in batch[c]
        \/ <<e, r>> \in todo[c]
    BY <1>5 DEF MayInsert, LessToDo
  <2>2. e \in Entry
    BY <1>1, <2>1
  <2>. QED
    BY <1>2, <1>5, <2>1, <2>2 DEF MayInsert
<1>. QED
  BY <1>3, <1>4, <1>5

(* The round c gets the entries D, the others go on or end.                 *)
LEMMA HandsPay ==
    ASSUME CInv, PInv', Grows, NEW c \in Consumer, NEW D \in SUBSET Entry, HandsOut(D),
           store' = store, \A d \in Consumer : d # c => LessToDo(d),
           OwnEntriesOnly(c)', Cardinality(batch'[c]) <= BatchSize,
           \A r \in Relation, e \in Entry' : MayInsert(c, e, r)' =>
               \/ e \in Entry /\ MayInsert(c, e, r)
               \/ e \in D /\ stream[e] = BlockOf[r]
    PROVE  CInv'
<1>1. StreamTypeOK /\ StreamTypeOK' /\ store \in [Relation -> Nat]
  BY DEF CInv, PInv, PTypeOK
<1>2. \A d \in Consumer : OwnEntriesOnly(d)' /\ Cardinality(batch'[d]) <= BatchSize
  BY LessKeeps
<1>3. ASSUME NEW r \in Relation PROVE PaidFor(r)'
  <2>1. PaidFor(r) /\ store'[r] = store[r]
    BY DEF CInv
  <2>2. \A d \in Consumer, e \in Entry' : MayInsert(d, e, r)' =>
            \/ e \in Entry /\ MayInsert(d, e, r)
            \/ d = c /\ e \in D /\ stream[e] = BlockOf[r]
    BY LessKeeps
  <2>. QED
    BY <1>1, <2>1, <2>2, HandingPays
<1>. QED
  BY <1>2, <1>3 DEF CInv, BatchFits

(* Nobody gets anything.                                                    *)
LEMMA LessPays ==
    ASSUME CInv, PInv', Grows, deliveries' = deliveries, store' = store,
           \A d \in Consumer : LessToDo(d)
    PROVE  CInv'
<1>1. StreamTypeOK /\ StreamTypeOK' /\ store \in [Relation -> Nat]
  BY DEF CInv, PInv, PTypeOK
<1>2. \A d \in Consumer : OwnEntriesOnly(d)' /\ Cardinality(batch'[d]) <= BatchSize
  BY LessKeeps
<1>3. HandsOut({})
  BY <1>1, DeliveriesNat DEF HandsOut
<1>4. ASSUME NEW r \in Relation PROVE PaidFor(r)'
  <2>1. PaidFor(r) /\ store'[r] = store[r]
    BY DEF CInv
  <2>2. \A d \in Consumer, e \in Entry' : MayInsert(d, e, r)' =>
            e \in Entry /\ MayInsert(d, e, r)
    BY LessKeeps
  <2>. QED
    BY <1>1, <1>3, <2>1, <2>2, HandingPays
<1>. QED
  BY <1>2, <1>4 DEF CInv, BatchFits

(* One relation is inserted, which the round c was about to do.             *)
LEMMA InsertPays ==
    ASSUME CInv, PInv', Grows, deliveries' = deliveries,
           \A d \in Consumer : LessToDo(d), NEW c \in Consumer, NEW ins \in todo[c],
           store' = [store EXCEPT ![ins[2]] = @ + 1],
           ins \notin todo'[c], pc'[c] \notin {"read", "fetch"}
    PROVE  CInv'
<1>1. /\ StreamTypeOK /\ StreamTypeOK' /\ store \in [Relation -> Nat]
      /\ ins \in Entry \X Relation /\ stream[ins[1]] = BlockOf[ins[2]]
  BY DEF CInv, PInv, PTypeOK, LocalTypeOK, OwnEntriesOnly
<1>2. \A d \in Consumer : OwnEntriesOnly(d)' /\ Cardinality(batch'[d]) <= BatchSize
  BY LessKeeps
<1>3. HandsOut({})
  BY <1>1, DeliveriesNat DEF HandsOut
<1>4. ASSUME NEW r \in Relation PROVE PaidFor(r)'
  <2>1. PaidFor(r)
    BY DEF CInv
  <2>2. \A d \in Consumer, e \in Entry' : MayInsert(d, e, r)' =>
            e \in Entry /\ MayInsert(d, e, r)
    BY LessKeeps
  <2>3. CASE r = ins[2]
    <3>. DEFINE e == ins[1]
    <3>1. e \in Entry /\ <<e, r>> = ins
      BY <1>1, <2>3
    <3>2. MayInsert(c, e, r) /\ ~ MayInsert(c, e, r)'
      BY <1>1, <2>3, <3>1 DEF MayInsert
    <3>3. store'[r] = store[r] + 1
      BY <1>1, <2>3
    <3>. HIDE DEF e
    <3>. QED
      BY <1>1, <1>3, <2>1, <2>2, <3>1, <3>2, <3>3, InsertIsPaid
  <2>4. CASE r # ins[2]
    <3>1. store'[r] = store[r]
      BY <1>1, <2>4
    <3>. QED
      BY <1>1, <1>3, <2>1, <2>2, <3>1, HandingPays
  <2>. QED
    BY <2>3, <2>4
<1>. QED
  BY <1>2, <1>4 DEF CInv, BatchFits

(* Deliver(D), from the point of view of the copies.                        *)
LEMMA DeliverHands ==
    ASSUME StreamTypeOK, NEW D, Deliver(D)
    PROVE  HandsOut(D)
<1>1. Len(stream) \in Nat /\ Len(stream) <= MaxEntries
  BY DEF StreamTypeOK
<1>2. Entry \subseteq 1..MaxEntries
  BY <1>1, StreamAssumption DEF Entry
<1>3. \A i \in Entry : deliveries[i] \in Nat
  BY DeliveriesNat
<1>. QED
  BY <1>2, <1>3 DEF Deliver, HandsOut

LEMMA PaidClaim ==
    ASSUME CInv, PInv', NEW c \in Consumer, FindStaleBlocks(c) \/ ClaimReplyLost(c)
    PROVE  CInv'
<1>. DEFINE D == Claimed(BatchSize)
<1>1. /\ PInv /\ StreamTypeOK /\ EvictedKnown /\ LocalTypeOK /\ faults' \in 0..MaxFaults
      /\ OwnEntriesOnly(c) /\ pc[c] = "claim"
  BY DEF CInv, PInv, PTypeOK, StreamTypeOK, FindStaleBlocks, ClaimReplyLost
<1>2. XAutoClaim(BatchSize) /\ store' = store
  BY DEF FindStaleBlocks, ClaimReplyLost, procVars
<1>3. Grows /\ D \in SUBSET Entry /\ HandsOut(D) /\ stream' = stream
  <2>1. Deliver(D) /\ stream' = stream
    BY <1>2 DEF XAutoClaim
  <2>. QED
    BY <1>1, <1>2, <2>1, XAutoClaimStep, DeliverHands DEF Keeps
<1>. HIDE DEF D
<1>4. CASE FindStaleBlocks(c)
  <2>1. pc'[c] = "read" /\ batch'[c] = D /\ got' = got /\ want' = want /\ todo' = todo
    BY <1>1, <1>4 DEF FindStaleBlocks, LocalTypeOK, D
  <2>2. \A d \in Consumer : d # c => LessToDo(d)
    BY <1>1, <1>4 DEF FindStaleBlocks, LocalTypeOK, LessToDo
  <2>3. OwnEntriesOnly(c)'
    BY <1>1, <1>3, <2>1 DEF OwnEntriesOnly
  <2>4. Cardinality(batch'[c]) <= BatchSize
    BY <1>1, <2>1, ClaimBounds, ProcessorAssumption DEF D
  <2>5. \A r \in Relation, e \in Entry' : MayInsert(c, e, r)' =>
               \/ e \in Entry /\ MayInsert(c, e, r)
               \/ e \in D /\ stream[e] = BlockOf[r]
    <3>1. Entry' = Entry
      BY <1>3 DEF Entry
    <3>. QED
      BY <1>3, <2>1, <3>1 DEF MayInsert
  <2>. QED
    BY <1>2, <1>3, <2>2, <2>3, <2>4, <2>5, HandsPay
<1>5. CASE ClaimReplyLost(c)
  <2>1. \A d \in Consumer : LessToDo(d)
    BY <1>5 DEF ClaimReplyLost, procVars, localVars, LessToDo
  <2>. QED
    BY <1>2, <1>3, <2>1, LessKeeps, HandsPay
<1>. QED
  BY <1>4, <1>5

(* A round that ends has less to do, and so have the others.                *)
LEMMA EndIsLess ==
    ASSUME LocalTypeOK, NEW c \in Consumer, EndRound(c), NEW d \in Consumer
    PROVE  LessToDo(d)
BY DEF LocalTypeOK, EndRound, LessToDo

LEMMA PaidRead ==
    ASSUME CInv, PInv', NEW c \in Consumer,
           FetchStreamEvents(c) \/ FetchStreamEventsFails(c)
    PROVE  CInv'
<1>. DEFINE n == Remaining(batch[c])  D == NewEntries(n)
<1>1. /\ PInv /\ StreamTypeOK /\ EvictedKnown /\ LocalTypeOK /\ faults' \in 0..MaxFaults
      /\ OwnEntriesOnly(c) /\ pc[c] = "read" /\ store' = store
      /\ batch[c] \in SUBSET Entry /\ Cardinality(batch[c]) <= BatchSize
  BY DEF CInv, BatchFits, PInv, PTypeOK, StreamTypeOK, LocalTypeOK, FetchStreamEvents,
     FetchStreamEventsFails
<1>2. IsFiniteSet(batch[c]) /\ Cardinality(batch[c]) \in Nat
  BY <1>1, EntriesFinite
<1>3. n \in Nat /\ n + Cardinality(batch[c]) = BatchSize
  BY <1>1, <1>2, ProcessorAssumption DEF Remaining
<1>. HIDE DEF n
<1>4. XReadGroup(n) => Grows /\ D \in SUBSET Entry /\ HandsOut(D) /\ stream' = stream
  <2>. SUFFICES ASSUME XReadGroup(n) PROVE Grows /\ D \in SUBSET Entry /\ HandsOut(D) /\ stream' = stream
    OBVIOUS
  <2>1. Deliver(D) /\ stream' = stream
    BY DEF XReadGroup
  <2>. QED
    BY <1>1, <1>3, <2>1, XReadGroupStep, DeliverHands DEF Keeps
<1>5. IsFiniteSet(D) /\ Cardinality(D) <= n /\ Cardinality(D) \in Nat
  BY <1>1, <1>3, ReadBounds, FS_CardinalityType
<1>6. Merged(c) = batch[c] \cup D
  BY DEF Merged, n
<1>. HIDE DEF D
<1>7. Cardinality(Merged(c)) <= BatchSize
  <2>1. /\ Cardinality(batch[c] \cup D) =
             Cardinality(batch[c]) + Cardinality(D) - Cardinality(batch[c] \cap D)
        /\ Cardinality(batch[c] \cap D) \in Nat
    BY <1>2, <1>5, FS_Union, FS_Intersection, FS_CardinalityType
  <2>. QED
    BY <1>2, <1>3, <1>5, <1>6, <2>1, ProcessorAssumption
<1>8. CASE FetchStreamEvents(c)
  <2>1. XReadGroup(n) /\ batch'[c] = Merged(c) /\ got' = got /\ todo' = todo
    BY <1>1, <1>8 DEF FetchStreamEvents, LocalTypeOK, n
  <2>2. \A d \in Consumer : d # c => LessToDo(d)
    BY <1>1, <1>8 DEF FetchStreamEvents, LocalTypeOK, LessToDo
  <2>3. \/ pc'[c] = "claim"
        \/ pc'[c] = "fetch" /\ ToSet(want'[c]) \subseteq Merged(c)
    <3>1. CASE Merged(c) = {}
      BY <1>1, <1>8, <3>1 DEF FetchStreamEvents, LocalTypeOK
    <3>2. CASE Merged(c) # {}
      <4>1. PICK order \in SetToSeqs(Merged(c)) : want' = [want EXCEPT ![c] = order]
        BY <1>8, <3>2 DEF FetchStreamEvents
      <4>2. want'[c] = order
        BY <1>1, <4>1 DEF LocalTypeOK
      <4>3. ToSet(order) \subseteq Merged(c)
        <5>. HIDE DEF Merged
        <5>1. order \in [1..Cardinality(Merged(c)) -> Merged(c)]
          BY <4>1 DEF SetToSeqs
        <5>. QED
          BY <5>1 DEF ToSet
      <4>4. pc'[c] = "fetch"
        BY <1>1, <1>8, <3>2 DEF FetchStreamEvents, LocalTypeOK
      <4>. QED
        BY <4>2, <4>3, <4>4
    <3>. QED
      BY <3>1, <3>2
  <2>4. OwnEntriesOnly(c)'
    BY <1>1, <1>4, <2>1, <2>3 DEF OwnEntriesOnly
  <2>5. \A r \in Relation, e \in Entry' : MayInsert(c, e, r)' =>
               \/ e \in Entry /\ MayInsert(c, e, r)
               \/ e \in D /\ stream[e] = BlockOf[r]
    <3>1. Entry' = Entry /\ stream' = stream
      BY <1>4, <2>1 DEF Entry
    <3>. QED
      BY <1>1, <1>6, <2>1, <3>1 DEF MayInsert
  <2>. QED
    BY <1>1, <1>4, <1>7, <2>1, <2>2, <2>4, <2>5, HandsPay
<1>9. CASE FetchStreamEventsFails(c)
  <2>1. \A d \in Consumer : LessToDo(d)
    BY <1>1, <1>9, EndIsLess DEF FetchStreamEventsFails
  <2>2. CASE XReadGroup(n)
    BY <1>1, <1>4, <2>1, <2>2, LessKeeps, HandsPay
  <2>3. CASE UNCHANGED streamVars
    BY <1>1, <2>1, <2>3, LessPays DEF streamVars, Grows, Entry
  <2>. QED
    BY <1>9, <2>2, <2>3 DEF FetchStreamEventsFails, n
<1>. QED
  BY <1>8, <1>9

(* The reply to an attempt: what is inserted comes from the own batch.      *)
LEMMA PaidFetch ==
    ASSUME CInv, PInv', NEW c \in Consumer, pc[c] = "fetch",
           NEW none \in SUBSET DOMAIN want[c], NEW flagged \in SUBSET DOMAIN want[c],
           AfterReply(c, none, flagged)
    PROVE  CInv'
<1>. DEFINE w    == want[c]
            idx  == FailedIdx(w, flagged)
            have == Filled(got[c], w, none)
            again == {w[k] : k \in idx}
            inserts == UNION {{i} \X Parsed(stream[i]) : i \in have}
<1>1. /\ PInv /\ StreamTypeOK /\ LocalTypeOK /\ OwnEntriesOnly(c)
      /\ batch[c] \subseteq Entry /\ Cardinality(batch[c]) <= BatchSize
  BY DEF CInv, BatchFits, PInv, PTypeOK, LocalTypeOK
<1>2. /\ stream' = stream /\ deliveries' = deliveries /\ store' = store /\ batch' = batch
      /\ Entry' = Entry /\ Grows
  BY DEF AfterReply, streamVars, Grows, Entry
<1>3. HandsOut({})
  BY <1>1, <1>2, DeliveriesNat DEF HandsOut
<1>4. ToSet(w) \subseteq batch[c] /\ got[c] \subseteq batch[c]
  BY <1>1 DEF OwnEntriesOnly
<1>5. \A k \in DOMAIN w : w[k] \in batch[c]
  BY <1>4 DEF ToSet
<1>6. have \subseteq batch[c]
  BY <1>4, <1>5 DEF Filled
<1>7. again \subseteq batch[c]
  BY <1>5, FailedIdxRange
<1>. HIDE DEF have, again, idx
<1>8. FinishFetch(c, have, idx) \/ Retry(c, have, again)
  BY DEF AfterReply, have, again, idx
<1>9. \A d \in Consumer : d # c => LessToDo(d)
  BY <1>1, <1>2, <1>8 DEF FinishFetch, Retry, LocalTypeOK, LessToDo
<1>10. CASE FinishFetch(c, have, idx)
  <2>1. todo'[c] = inserts /\ got'[c] = {} /\ pc'[c] \in {"save", "readd", "ack"}
    BY <1>1, <1>10 DEF FinishFetch, AfterFetch, LocalTypeOK
  <2>2. \A ins \in inserts : /\ ins[1] \in have /\ BlockOf[ins[2]] = stream[ins[1]]
    BY DEF Parsed, Indexable, RelationsIn
  <2>3. OwnEntriesOnly(c)'
    BY <1>2, <2>1, <2>2 DEF OwnEntriesOnly
  <2>4. \A r \in Relation, e \in Entry' : MayInsert(c, e, r)' => e \in Entry /\ MayInsert(c, e, r)
    <3>. SUFFICES ASSUME NEW r \in Relation, NEW e \in Entry', MayInsert(c, e, r)'
                  PROVE  e \in Entry /\ MayInsert(c, e, r)
      OBVIOUS
    <3>1. <<e, r>> \in inserts /\ stream[e] = BlockOf[r] /\ e \in Entry
      BY <1>2, <2>1 DEF MayInsert
    <3>2. e \in batch[c]
      BY <1>6, <3>1
    <3>. QED
      BY <3>1, <3>2 DEF MayInsert
  <2>. QED
    BY <1>1, <1>2, <1>3, <1>9, <2>3, <2>4, HandsPay
<1>11. CASE Retry(c, have, again)
  <2>1. PICK order \in SetToSeqs(again) : want' = [want EXCEPT ![c] = order]
    BY <1>11 DEF Retry
  <2>2. want'[c] = order /\ got'[c] = have /\ pc' = pc /\ todo' = todo
    BY <1>1, <1>11, <2>1 DEF Retry, LocalTypeOK
  <2>3. ToSet(order) \subseteq again
    <3>1. order \in [1..Cardinality(again) -> again]
      BY <2>1 DEF SetToSeqs
    <3>. QED
      BY <3>1 DEF ToSet
  <2>4. OwnEntriesOnly(c)'
    BY <1>1, <1>2, <1>6, <1>7, <2>2, <2>3 DEF OwnEntriesOnly
  <2>5. \A r \in Relation, e \in Entry' : MayInsert(c, e, r)' => e \in Entry /\ MayInsert(c, e, r)
    BY <1>2, <2>2 DEF MayInsert
  <2>. QED
    BY <1>1, <1>2, <1>3, <1>9, <2>4, <2>5, HandsPay
<1>. QED
  BY <1>8, <1>10, <1>11

LEMMA PaidSave ==
    ASSUME CInv, PInv', NEW c \in Consumer, SaveRelation(c) \/ SaveRelationFails(c)
    PROVE  CInv'
<1>1. LocalTypeOK /\ pc[c] = "save" /\ deliveries' = deliveries /\ Grows
  BY DEF CInv, PInv, PTypeOK, SaveRelation, SaveRelationFails, streamVars, Grows, Entry
<1>2. CASE SaveRelation(c)
  <2>1. PICK ins \in todo[c] :
           /\ store' = [store EXCEPT ![ins[2]] = @ + 1]
           /\ todo' = [todo EXCEPT ![c] = @ \ {ins}]
           /\ pc' = [pc EXCEPT ![c] = AfterFetch(todo[c] \ {ins}, requeue[c])]
    BY <1>2 DEF SaveRelation
  <2>2. AfterFetch(todo[c] \ {ins}, requeue[c]) \in {"save", "readd", "ack"}
    BY DEF AfterFetch
  <2>3. /\ todo'[c] = todo[c] \ {ins} /\ pc'[c] \in {"save", "readd", "ack"}
        /\ \A d \in Consumer : LessToDo(d)
    BY <1>1, <1>2, <2>1, <2>2 DEF SaveRelation, LocalTypeOK, LessToDo
  <2>4. ins \notin todo'[c] /\ pc'[c] \notin {"read", "fetch"}
    BY <2>3
  <2>. QED
    BY <1>1, <2>1, <2>3, <2>4, InsertPays
<1>3. CASE SaveRelationFails(c)
  <2>1. \A d \in Consumer : LessToDo(d)
    BY <1>1, <1>3, EndIsLess DEF SaveRelationFails
  <2>2. todo'[c] = {} /\ pc'[c] = "claim"
    BY <1>1, <1>3 DEF SaveRelationFails, EndRound, LocalTypeOK
  <2>3. CASE \E ins \in todo[c] : store' = [store EXCEPT ![ins[2]] = @ + 1]
    <3>1. PICK ins \in todo[c] : store' = [store EXCEPT ![ins[2]] = @ + 1]
      BY <2>3
    <3>2. ins \notin todo'[c] /\ pc'[c] \notin {"read", "fetch"}
      BY <2>2
    <3>. QED
      BY <1>1, <2>1, <3>1, <3>2, InsertPays
  <2>4. CASE store' = store
    BY <1>1, <2>1, <2>4, LessPays
  <2>. QED
    BY <1>3, <2>3, <2>4 DEF SaveRelationFails
<1>. QED
  BY <1>2, <1>3

(* Adding again and acknowledging: nothing is handed out, nothing inserted. *)
LEMMA PaidRest ==
    ASSUME CInv, PInv', NEW c \in Consumer,
           \/ AddFailedBlock(c) \/ AddFailedBlocksFails(c)
           \/ AcknowledgeBlocks(c) \/ AcknowledgeBlocksFails(c)
    PROVE  CInv'
<1>1. /\ LocalTypeOK /\ StreamTypeOK /\ EvictedKnown
      /\ requeue[c] \subseteq Entry /\ \A i \in Entry : stream[i] \in Block
  <2>1. LocalTypeOK /\ StreamTypeOK /\ EvictedKnown
    BY DEF CInv, PInv, PTypeOK
  <2>2. requeue[c] \subseteq Entry
    BY <2>1 DEF LocalTypeOK
  <2>3. \A i \in Entry : stream[i] \in Block
    BY <2>1 DEF StreamTypeOK, Entry
  <2>. QED
    BY <2>1, <2>2, <2>3
<1>2. CASE AddFailedBlock(c)
  <2>1. PICK i \in requeue[c] :
           /\ XAdd(stream[i])
           /\ pc' = [pc EXCEPT ![c] = AfterFetch({}, requeue[c] \ {i})]
    BY <1>2 DEF AddFailedBlock
  <2>2. Grows /\ deliveries' = deliveries
    BY <1>1, <2>1, XAddKeeps DEF XAdd
  <2>3. AfterFetch({}, requeue[c] \ {i}) \in {"save", "readd", "ack"}
    BY DEF AfterFetch
  <2>4. \A d \in Consumer : LessToDo(d)
    BY <1>1, <1>2, <2>1, <2>3 DEF AddFailedBlock, LocalTypeOK, LessToDo
  <2>. QED
    BY <1>2, <2>2, <2>4, LessPays DEF AddFailedBlock
<1>3. CASE ~ AddFailedBlock(c)
  <2>1. EndRound(c) /\ store' = store
    BY <1>3 DEF AddFailedBlocksFails, AcknowledgeBlocks, AcknowledgeBlocksFails
  <2>2. \A d \in Consumer : LessToDo(d)
    BY <1>1, <2>1, EndIsLess
  <2>3. CASE \E i \in requeue[c] : XAdd(stream[i])
    <3>1. Grows /\ deliveries' = deliveries
      BY <1>1, <2>3, XAddKeeps DEF XAdd
    <3>. QED
      BY <2>1, <2>2, <3>1, LessPays
  <2>4. CASE XAck(batch[c]) \/ UNCHANGED streamVars
    <3>1. Grows /\ deliveries' = deliveries
      BY <2>4 DEF XAck, streamVars, Grows, Entry
    <3>. QED
      BY <2>1, <2>2, <3>1, LessPays
  <2>. QED
    BY <1>3, <2>3, <2>4 DEF AddFailedBlocksFails, AcknowledgeBlocks, AcknowledgeBlocksFails
<1>. QED
  BY <1>2, <1>3

(* Steps of the surroundings: the stream grows or time passes.              *)
LEMMA PaidElsewhere ==
    ASSUME CInv, PInv', Grows, deliveries' = deliveries, UNCHANGED procVars
    PROVE  CInv'
<1>1. \A d \in Consumer : LessToDo(d)
  BY DEF procVars, localVars, LessToDo
<1>. QED
  BY <1>1, LessPays DEF procVars

LEMMA PaidCrash ==
    ASSUME CInv, PInv', ProcessorsCrash, UNCHANGED streamVars
    PROVE  CInv'
<1>1. Grows /\ deliveries' = deliveries /\ store' = store
  BY DEF streamVars, Grows, Entry, ProcessorsCrash
<1>2. \A d \in Consumer : LessToDo(d)
  BY DEF ProcessorsCrash, LessToDo
<1>. QED
  BY <1>1, <1>2, LessPays

(* One step of a processor, or of time.                                     *)
LEMMA PaidStep ==
    ASSUME CInv, PInv', ProcessorStep
    PROVE  CInv'
<1>1. ASSUME NEW c \in Consumer, BlocksFetched(c) \/ BatchRequestFails(c)
      PROVE  CInv'
  <2>1. pc[c] = "fetch" /\ want[c] # <<>> /\ want[c] \in Seq(Entry)
    BY <1>1 DEF CInv, PInv, PTypeOK, LocalTypeOK, RetriesFit, BlocksFetched, BatchRequestFails
  <2>2. PICK none \in SUBSET DOMAIN want[c], flagged \in SUBSET DOMAIN want[c] :
            AfterReply(c, none, flagged)
    <3>1. CASE BlocksFetched(c)
      BY <3>1 DEF BlocksFetched, Flagged
    <3>2. CASE BatchRequestFails(c)
      <4>1. {1} \in SUBSET DOMAIN want[c]
        BY <2>1
      <4>. QED
        BY <3>2, <4>1 DEF BatchRequestFails
    <3>. QED
      BY <1>1, <3>1, <3>2
  <2>. QED
    BY <2>1, <2>2, PaidFetch
<1>2. CASE \E i \in pending : GoesStale(i) /\ UNCHANGED procVars
  <2>1. Grows /\ deliveries' = deliveries /\ UNCHANGED procVars
    BY <1>2 DEF GoesStale, Grows, Entry
  <2>. QED
    BY <2>1, PaidElsewhere
<1>. QED
  BY <1>1, <1>2, PaidClaim, PaidRead, PaidSave, PaidRest
     DEF ProcessorStep, ProcessBlocks, ProcessBlocksFails

LEMMA CInitInv == PInit => CInv
<1>. SUFFICES ASSUME PInit PROVE CInv
  OBVIOUS
<1>1. PInv /\ StreamTypeOK /\ Entry = {}
  BY InitInv, StreamInitOK DEF PInit
<1>2. \A c \in Consumer : pc[c] = "claim" /\ batch[c] = {} /\ got[c] = {} /\ todo[c] = {}
  BY DEF PInit, LocalInit
<1>3. BatchFits
  <2>1. Cardinality({}) = 0 /\ 0 <= BatchSize
    BY FS_EmptySet, ProcessorAssumption
  <2>. QED
    BY <1>2, <2>1 DEF BatchFits
<1>4. ASSUME NEW r \in Relation PROVE PaidFor(r)
  <2>1. InsertsToCome(r) = {}
    BY <1>1 DEF InsertsToCome
  <2>2. Cardinality(InsertsToCome(r)) = 0
    BY <2>1, FS_EmptySet
  <2>3. store[r] = 0
    BY DEF PInit, StoreInit
  <2>4. Cardinality(Handed(BlockOf[r])) \in Nat
    BY <1>1, HandedFinite
  <2>. QED
    BY <2>2, <2>3, <2>4 DEF PaidFor
<1>. QED
  BY <1>1, <1>2, <1>3, <1>4 DEF CInv, OwnEntriesOnly

LEMMA CNextInv == CInv /\ [PNext]_pvars => CInv'
<1>. SUFFICES ASSUME CInv, [PNext]_pvars PROVE CInv'
  OBVIOUS
<1>1. PInv /\ PInv' /\ StreamTypeOK /\ EvictedKnown
  BY NextInv DEF CInv, PInv, PTypeOK
<1>2. CASE ProcessorStep
  BY <1>1, <1>2, PaidStep
<1>3. CASE PCrash
  BY <1>1, <1>3, PaidCrash DEF PCrash
<1>4. CASE Enqueue
  <2>1. PICK b \in Block : XAdd(b)
    BY <1>4 DEF Enqueue
  <2>2. Grows /\ deliveries' = deliveries
    BY <1>1, <2>1, XAddKeeps DEF XAdd
  <2>. QED
    BY <1>1, <1>4, <2>2, PaidElsewhere DEF Enqueue
<1>5. CASE UNCHANGED pvars
  <2>1. Grows /\ deliveries' = deliveries /\ UNCHANGED procVars
    BY <1>5 DEF pvars, streamVars, Grows, Entry
  <2>. QED
    BY <1>1, <2>1, PaidElsewhere
<1>. QED
  BY <1>2, <1>3, <1>4, <1>5 DEF PNext, ModelFull

(* MongoDB holds no copy without a delivery, and every insert to come has   *)
(* one of its own.                                                          *)
THEOREM CopiesInvariantHolds == PSpec => []CInv
BY CInitInv, CNextInv, PTL DEF PSpec

LEMMA PaidImpliesCopies == CInv => CopiesArePaidFor
<1>. SUFFICES ASSUME CInv, NEW r \in Relation
              PROVE  store[r] <= Cardinality(Handed(BlockOf[r]))
  BY DEF CopiesArePaidFor
<1>1. /\ PaidFor(r) /\ StreamTypeOK /\ store[r] \in Nat
  BY DEF CInv, PInv, PTypeOK
<1>2. Cardinality(InsertsToCome(r)) \in Nat /\ Cardinality(Handed(BlockOf[r])) \in Nat
  BY <1>1, InsertsFinite, HandedFinite
<1>. QED
  BY <1>1, <1>2 DEF PaidFor

(* Every copy of a relation is paid for by a delivery of an entry of its    *)
(* block (processor.go:114-198, mongo.go:34-45): retries inside GetBlocks,  *)
(* stale claims, crashes and failed inserts add none of their own.          *)
THEOREM NoCopyWithoutDelivery == PSpec => []CopiesArePaidFor
BY CopiesInvariantHolds, PaidImpliesCopies, PTL

(* The two reads of a round together never exceed batchSize, so the         *)
(* unsigned difference of processor.go:126 does not wrap.                   *)
THEOREM BatchesFit == PSpec => []BatchFits
<1>1. CInv => BatchFits
  BY DEF CInv
<1>. QED
  BY <1>1, CopiesInvariantHolds, PTL

-----------------------------------------------------------------------------
(* The two ways to keep a round's reports true.                             *)
ReportsTrusted == BatchSize = 1 \/ OneListOnly

(* A batch of one entry leaves no room for a mistake.                       *)
LEMMA SingleIsReturned ==
    ASSUME BatchSize = 1, BatchFits, MissNeedsCompany, PTypeOK
    PROVE  FailedBlocksAreReturned
<1>. SUFFICES ASSUME NEW c \in Consumer, missed[c] # {}
              PROVE  FALSE
  BY DEF FailedBlocksAreReturned
<1>1. StreamTypeOK /\ batch[c] \subseteq Entry
  BY DEF PTypeOK, LocalTypeOK
<1>2. Cardinality(batch[c]) \in Nat
  BY <1>1, EntriesFinite
<1>. QED
  BY <1>2 DEF BatchFits, MissNeedsCompany

(* What the comment on processBlocks promises (processor.go:172, with       *)
(* GetBlocks, cli.go:226-270) is true of a batch of one, and of any batch   *)
(* as long as one list of positions is all there is; then no block is ever  *)
(* dropped.  That a batch of two needs both parts of OneListOnly is what    *)
(* the runs processor_whole_batch and processor_wrong_index show.           *)
THEOREM ReportsAreWhole ==
    ASSUME ReportsTrusted
    PROVE  PSpec => [](FailedBlocksAreReturned /\ dropped = {})
<1>1. PSpec => []FailedBlocksAreReturned
  <2>1. CASE BatchSize = 1
    <3>1. BatchFits /\ MissNeedsCompany /\ PTypeOK => FailedBlocksAreReturned
      BY <2>1, SingleIsReturned
    <3>. QED
      BY <3>1, BatchesFit, OneEntryIsNeverMissed, TypesHold, PTL
  <2>2. CASE OneListOnly
    <3>. DEFINE Whole == \A c \in Consumer : WholeReport(c)
    <3>1. PInit => Whole
      BY DEF PInit, LocalInit, WholeReport
    <3>2. PInv /\ Whole /\ [PNext]_pvars => Whole'
      BY <2>2, WholeNext
    <3>3. Whole => FailedBlocksAreReturned
      BY DEF WholeReport, FailedBlocksAreReturned
    <3>. HIDE DEF Whole
    <3>. QED
      BY <3>1, <3>2, <3>3, InvariantHolds, PTL DEF PSpec
  <2>. QED
    BY <2>1, <2>2 DEF ReportsTrusted
<1>2. PInit => dropped = {}
  BY DEF PInit, StoreInit
<1>3. FailedBlocksAreReturned /\ dropped = {} /\ [PNext]_pvars => (dropped = {})'
  BY NothingDropped DEF PNext, PCrash, ProcessorsCrash, Enqueue, ModelFull, procVars, pvars
<1>. QED
  BY <1>1, <1>2, <1>3, PTL DEF PSpec

(* Then the stream is the only one to forget: a block that was ever queued  *)
(* is in MongoDB or still owed, or MAXLEN has cut it off (redis.go:103-124).*)
OnlyCutOff ==
    \A i \in Entry : \/ Indexed(stream[i]) \/ Queued(stream[i])
                     \/ \E j \in evicted : stream[j] = stream[i]

THEOREM OnlyTheStreamForgets ==
    ASSUME ReportsTrusted
    PROVE  PSpec => []OnlyCutOff
<1>1. NoSilentLoss /\ dropped = {} => OnlyCutOff
  BY DEF NoSilentLoss, Lost, OnlyCutOff
<1>. QED
  BY <1>1, NothingLostSilently, ReportsAreWhole, PTL

(* MAXLEN never cuts off the newest entries, and nothing at all before the  *)
(* stream is longer than that (redis.go:103-124).                           *)
NewestAreKept == trimmed # 0 => trimmed + MaxStreamLen <= Len(stream)

LEMMA AddingKeepsNewest ==
    ASSUME StreamTypeOK, NewestAreKept, NEW b \in Block, XAdd(b)
    PROVE  NewestAreKept'
<1>1. Len(stream) \in Nat /\ trimmed \in Nat /\ Len(stream') = Len(stream) + 1
  BY DEF StreamTypeOK, XAdd
<1>2. /\ trimmed' \in trimmed..Len(stream)
      /\ trimmed' = trimmed \/ trimmed' + MaxStreamLen <= Len(stream) + 1
  BY DEF XAdd, TrimTo
<1>. QED
  BY <1>1, <1>2, StreamAssumption DEF NewestAreKept

(* A processor adds an entry to the stream, or leaves what it holds alone.  *)
LEMMA AddsOrKeeps ==
    ASSUME PTypeOK, ProcessorStep
    PROVE  UNCHANGED <<stream, trimmed>> \/ \E b \in Block : XAdd(b)
<1>1. ASSUME NEW c \in Consumer, NEW i \in requeue[c]
      PROVE  stream[i] \in Block
  BY DEF PTypeOK, LocalTypeOK, StreamTypeOK, Entry
<1>2. ASSUME NEW c \in Consumer, ProcessBlocks(c)
      PROVE  UNCHANGED <<stream, trimmed>> \/ \E b \in Block : XAdd(b)
  BY <1>1, <1>2 DEF ProcessBlocks, FindStaleBlocks, XAutoClaim, FetchStreamEvents, XReadGroup,
     BlocksFetched, AfterReply, SaveRelation, AddFailedBlock, AcknowledgeBlocks, XAck, streamVars
<1>3. ASSUME NEW c \in Consumer, ProcessBlocksFails(c)
      PROVE  UNCHANGED <<stream, trimmed>> \/ \E b \in Block : XAdd(b)
  BY <1>1, <1>3 DEF ProcessBlocksFails, ClaimReplyLost, XAutoClaim, FetchStreamEventsFails,
     XReadGroup, BatchRequestFails, AfterReply, SaveRelationFails, AddFailedBlocksFails,
     AcknowledgeBlocksFails, XAck, streamVars
<1>. QED
  BY <1>2, <1>3 DEF ProcessorStep, GoesStale

THEOREM NewestEntriesKept == PSpec => []NewestAreKept
<1>1. PInit => NewestAreKept
  BY DEF PInit, StreamInit, NewestAreKept
<1>2. PTypeOK /\ NewestAreKept /\ [PNext]_pvars => NewestAreKept'
  <2>. SUFFICES ASSUME PTypeOK, NewestAreKept, [PNext]_pvars PROVE NewestAreKept'
    OBVIOUS
  <2>1. UNCHANGED <<stream, trimmed>> \/ \E b \in Block : XAdd(b)
    BY AddsOrKeeps DEF PNext, PCrash, Enqueue, ModelFull, pvars, streamVars
  <2>. QED
    BY <2>1, AddingKeepsNewest DEF PTypeOK, NewestAreKept
<1>. QED
  BY <1>1, <1>2, TypesHold, PTL DEF PSpec

(* So with trusted reports no fault loses a block by itself: each is in     *)
(* MongoDB or owed to a processor, or MaxStreamLen newer entries have come  *)
(* (processor.go:114-198, redis.go:103-124).                                *)
LEMMA LossIsBehind ==
    ASSUME StreamTypeOK, NewestAreKept, OnlyCutOff
    PROVE  LossNeedsBacklog
<1>1. /\ Len(stream) \in Nat /\ trimmed \in Nat /\ MaxStreamLen \in Nat
      /\ evicted \subseteq 1..trimmed
  BY StreamAssumption DEF StreamTypeOK
<1>2. evicted \subseteq 1..(Len(stream) - MaxStreamLen)
  <2>. SUFFICES ASSUME NEW j \in evicted
                PROVE  j \in 1..(Len(stream) - MaxStreamLen)
    OBVIOUS
  <2>1. j \in 1..trimmed /\ trimmed # 0
    BY <1>1
  <2>. QED
    BY <1>1, <2>1 DEF NewestAreKept
<1>. QED
  BY <1>2 DEF OnlyCutOff, LossNeedsBacklog

THEOREM NothingIsLost ==
    ASSUME ReportsTrusted
    PROVE  PSpec => []LossNeedsBacklog
<1>1. PTypeOK /\ NewestAreKept /\ OnlyCutOff => LossNeedsBacklog
  BY LossIsBehind DEF PTypeOK
<1>. QED
  BY <1>1, TypesHold, NewestEntriesKept, OnlyTheStreamForgets, PTL

-----------------------------------------------------------------------------
(* Rounds come to an end.  Whatever fails, each step of a processor brings  *)
(* its round closer to it: it moves on to a later part of the round, or     *)
(* uses up a retry, an insert to be done or a block to be added again.      *)
(* With the fairness of PFairSpec this is what its liveness rests on.       *)
StepsAfter(step) ==
    CASE step = "claim" -> Steps \ {"claim"}
      [] step = "read"  -> {"fetch", "save", "readd", "ack"}
      [] step = "fetch" -> {"save", "readd", "ack"}
      [] step = "save"  -> {"readd", "ack"}
      [] step = "readd" -> {"ack"}
      [] step = "ack"   -> {}

Fewer(S, T) == S \subseteq T /\ S # T

RoundAdvances(c) ==
    \/ pc'[c] = "claim"
    \/ pc'[c] \in StepsAfter(pc[c])
    \/ /\ pc'[c] = pc[c]
       /\ \/ pc[c] = "fetch" /\ left'[c] < left[c]
          \/ pc[c] = "save"  /\ Fewer(todo'[c], todo[c])
          \/ pc[c] = "readd" /\ Fewer(requeue'[c], requeue[c])

LEMMA RoundStep ==
    ASSUME PTypeOK, NEW c \in Consumer, ProcessBlocks(c) \/ ProcessBlocksFails(c)
    PROVE  RoundAdvances(c)
<1>1. LocalTypeOK /\ pc[c] \in Steps /\ left[c] \in Nat
  BY ProcessorAssumption DEF PTypeOK, LocalTypeOK
<1>2. CASE EndRound(c)
  BY <1>1, <1>2 DEF EndRound, LocalTypeOK, RoundAdvances
<1>3. CASE FindStaleBlocks(c) \/ ClaimReplyLost(c)
  BY <1>1, <1>3 DEF FindStaleBlocks, ClaimReplyLost, procVars, localVars, LocalTypeOK,
     RoundAdvances, StepsAfter, Steps
<1>4. CASE FetchStreamEvents(c)
  BY <1>1, <1>4 DEF FetchStreamEvents, LocalTypeOK, RoundAdvances, StepsAfter
<1>5. ASSUME NEW none, NEW flagged, pc[c] = "fetch", AfterReply(c, none, flagged)
      PROVE  RoundAdvances(c)
  <2>1. ASSUME NEW have, NEW idx, FinishFetch(c, have, idx)
        PROVE  pc'[c] \in {"save", "readd", "ack"}
    BY <1>1, <2>1 DEF FinishFetch, AfterFetch, LocalTypeOK
  <2>2. ASSUME NEW have, NEW again, Retry(c, have, again), left[c] # 0
        PROVE  pc'[c] = "fetch" /\ left'[c] < left[c]
    BY <1>1, <1>5, <2>2 DEF Retry, LocalTypeOK
  <2>3. \/ \E have, idx : FinishFetch(c, have, idx)
        \/ left[c] # 0 /\ \E have, again : Retry(c, have, again)
    BY <1>5, Zenon DEF AfterReply
  <2>. QED
    BY <1>5, <2>1, <2>2, <2>3 DEF RoundAdvances, StepsAfter
<1>6. CASE BlocksFetched(c) \/ BatchRequestFails(c)
  BY <1>5, <1>6 DEF BlocksFetched, BatchRequestFails
<1>7. CASE SaveRelation(c)
  <2>1. pc[c] = "save" /\ Fewer(todo'[c], todo[c]) /\ pc'[c] \in {"save", "readd", "ack"}
    BY <1>1, <1>7 DEF SaveRelation, AfterFetch, LocalTypeOK, Fewer
  <2>. QED
    BY <2>1 DEF RoundAdvances, StepsAfter
<1>8. CASE AddFailedBlock(c)
  <2>1. pc[c] = "readd" /\ Fewer(requeue'[c], requeue[c]) /\ pc'[c] \in {"readd", "ack"}
    BY <1>1, <1>8 DEF AddFailedBlock, AfterFetch, LocalTypeOK, Fewer
  <2>. QED
    BY <2>1 DEF RoundAdvances, StepsAfter
<1>. QED
  BY <1>2, <1>3, <1>4, <1>6, <1>7, <1>8 DEF ProcessBlocks, ProcessBlocksFails,
     FetchStreamEventsFails, SaveRelationFails, AddFailedBlocksFails, AcknowledgeBlocks,
     AcknowledgeBlocksFails

(* So a round ends after one claim, one read, as many attempts as retries   *)
(* allow, its inserts and its XADDs (processor.go:114-170, cli.go:226-270). *)
THEOREM RoundsAdvance ==
    PSpec => [][\A c \in Consumer :
                  ProcessBlocks(c) \/ ProcessBlocksFails(c) => RoundAdvances(c)]_pvars
<1>1. PTypeOK => \A c \in Consumer :
                   ProcessBlocks(c) \/ ProcessBlocksFails(c) => RoundAdvances(c)
  BY RoundStep
<1>. QED
  BY <1>1, TypesHold, PTL

=============================================================================
