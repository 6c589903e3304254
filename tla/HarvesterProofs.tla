-------------------------- MODULE HarvesterProofs --------------------------
(***************************************************************************)
(* Proofs about the harvester: types, and that it leaves no gap and never  *)
(* goes back, for every chain, any Limit, and any number of crashes and    *)
(* lagging answers.                                                        *)
(***************************************************************************)
EXTENDS Harvester, BlockStreamProofs

(* The saved position and its origin, as far as a step may change them.     *)
PositionSame == UNCHANGED <<lastSeen, origin>>

(* What the harvester does not know of: that it hangs, and crashed before.  *)
LossTypeOK == hung \in BOOLEAN /\ crashes \in Nat

(* The stream grows at most by XADD, so what was scheduled remains so.      *)
LEMMA ScheduledStays ==
    ASSUME Grows
    PROVE  Scheduled \subseteq Scheduled'
BY DEF Grows, Scheduled

LEMMA NoGapStays ==
    ASSUME NoGap, Grows, PositionSame
    PROVE  NoGap'
BY ScheduledStays DEF NoGap, PositionSame

LEMMA HFaults ==
    ASSUME HTypeOK, HNext
    PROVE  faults' \in 0..MaxFaults /\ LossTypeOK'
<1>1. StreamTypeOK /\ faults \in 0..MaxFaults /\ LossTypeOK
  BY DEF HTypeOK, StreamTypeOK, LossTypeOK
<1>2. CASE HarvestBlocks
  BY <1>1, <1>2, FaultType DEF HarvestBlocks, GetLastSeenBlock, GetLatestBlock,
     GetBlocksWithLimit, AddBlock, SaveLastSeenBlock, FaultKinds, LossTypeOK, lostVars
<1>3. CASE NewSlot
  BY <1>1, <1>3 DEF NewSlot, LossTypeOK, lostVars
<1>4. CASE HCrash
  <2>1. faults' \in 0..MaxFaults
    BY <1>1, <1>4, FaultType DEF HCrash, FaultKinds
  <2>2. hung' \in BOOLEAN
    BY <1>4 DEF HCrash, HarvesterCrash
  <2>3. crashes' \in {crashes, crashes + 1} /\ crashes \in Nat
    BY <1>1, <1>4 DEF HCrash, HarvesterCrash, LossTypeOK
  <2>. QED
    BY <2>1, <2>2, <2>3 DEF LossTypeOK
<1>5. CASE HHang
  BY <1>1, <1>5, FaultType DEF HHang, CallHangs, FaultKinds, LossTypeOK
<1>. QED
  BY <1>2, <1>3, <1>4, <1>5 DEF HNext

-----------------------------------------------------------------------------
(* One answer of getBlocksWithLimit has no hole: what lies between two of   *)
(* its blocks is in it.                                                     *)
LEMMA AnswerContiguous ==
    ASSUME NEW from, NEW view \in Slot, NEW n \in Nat,
           NEW last \in FirstN(BlocksFrom(from, view), n),
           NEW b \in Block, from <= b, b <= last
    PROVE  b \in FirstN(BlocksFrom(from, view), n)
<1>. DEFINE S == BlocksFrom(from, view)
            Before(x) == {a \in S : a < x}
<1>1. /\ Block \subseteq Nat /\ Block \subseteq 1..MaxSlot /\ MaxSlot \in Nat
      /\ view \in Nat
  BY HarvesterAssumption DEF Slot
<1>2. last \in S /\ last \in Nat /\ last <= view
  BY <1>1 DEF FirstN, BlocksFrom
<1>3. b \in S
  BY <1>1, <1>2 DEF BlocksFrom
<1>4. IsFiniteSet(Before(last)) /\ Cardinality(Before(last)) \in Nat
  <2>1. IsFiniteSet(1..MaxSlot)
    BY <1>1, FS_Interval
  <2>2. Before(last) \in SUBSET (1..MaxSlot)
    BY <1>1 DEF BlocksFrom
  <2>3. IsFiniteSet(Before(last))
    BY <2>1, <2>2, FS_Subset
  <2>. QED
    BY <2>3, FS_CardinalityType
<1>5. Before(b) \in SUBSET Before(last)
  <2>1. b \in Nat /\ S \subseteq Nat
    BY <1>1 DEF BlocksFrom
  <2>2. ASSUME NEW a \in S, a < b PROVE a < last
    BY <1>2, <2>1, <2>2
  <2>. HIDE DEF S
  <2>. QED
    BY <2>2
<1>6. /\ Cardinality(Before(b)) <= Cardinality(Before(last))
      /\ Cardinality(Before(b)) \in Nat
  <2>1. /\ IsFiniteSet(Before(b))
        /\ Cardinality(Before(b)) <= Cardinality(Before(last))
    BY <1>4, <1>5, FS_Subset, Zenon
  <2>. QED
    BY <2>1, FS_CardinalityType
<1>7. Cardinality(Before(last)) < n
  BY DEF FirstN
<1>8. Cardinality(Before(b)) < n
  BY <1>4, <1>6, <1>7
<1>. QED
  BY <1>3, <1>8 DEF FirstN

LEMMA HListStep ==
    ASSUME HInv, faults' \in 0..MaxFaults, LossTypeOK', GetBlocksWithLimit
    PROVE  HInv'
<1>1. /\ HTypeOK /\ StreamTypeOK /\ EvictedKnown /\ hpc = "list" /\ found = {}
      /\ lastSeen # 0 => start = lastSeen
  BY DEF HInv, HTypeOK, IterationCovers, GetBlocksWithLimit
<1>2. Keeps({}) /\ Entry' = Entry
  BY <1>1, UnchangedStep DEF GetBlocksWithLimit
<1>3. PICK view \in Slot : found' = FirstN(BlocksFrom(start, view), Limit)
  BY DEF GetBlocksWithLimit
<1>4. /\ SetNext /\ UNCHANGED <<tip, lastSeen, start, origin>>
      /\ hpc' = IF found' = {} THEN "save" ELSE "add"
  BY DEF GetBlocksWithLimit
<1>5. /\ found' \subseteq Block /\ \A b \in found' : start <= b
      /\ Block \subseteq 1..MaxSlot /\ Limit \in Nat /\ MaxSlot \in Nat
      /\ start \in Nat /\ start \in 0..(MaxSlot + 1)
  BY <1>1, <1>3, HarvesterAssumption DEF FirstN, BlocksFrom, HTypeOK
<1>6. next' \in 0..(MaxSlot + 1) /\ start <= next'
  BY <1>5, <1>4 DEF SetNext
<1>7. ASSUME NEW b \in Block, start <= b, b < next' PROVE b \in found'
  <2>1. b \in Nat
    BY <1>5
  <2>2. PICK last \in found' : next' = last + 1
    BY <1>4, <1>5, <1>7, <2>1 DEF SetNext
  <2>3. b <= last
    BY <1>5, <1>7, <2>1, <2>2
  <2>. QED
    BY <1>3, <1>5, <1>7, <2>2, <2>3, AnswerContiguous
<1>8. HTypeOK'
  BY <1>1, <1>2, <1>4, <1>5, <1>6 DEF HTypeOK, Keeps, LossTypeOK
<1>9. NoGap'
  BY <1>2, <1>4, NoGapStays DEF HInv, Keeps, PositionSame
<1>10. IterationCovers'
  BY <1>1, <1>4, <1>5, <1>6, <1>7 DEF IterationCovers
<1>. QED
  BY <1>2, <1>8, <1>9, <1>10 DEF HInv, Keeps

LEMMA HAddStep ==
    ASSUME HInv, faults' \in 0..MaxFaults, LossTypeOK', AddBlock
    PROVE  HInv'
<1>1. /\ HTypeOK /\ StreamTypeOK /\ EvictedKnown /\ hpc = "add"
      /\ found \subseteq Block /\ Block \subseteq Nat
  BY StreamAssumption DEF HInv, HTypeOK, AddBlock
<1>2. PICK b \in found : XAdd(b) /\ found' = found \ {b}
  BY DEF AddBlock
<1>3. /\ Keeps({}) /\ Grows
      /\ Entry' = Entry \cup {Len(stream')} /\ stream'[Len(stream')] = b
  BY <1>1, <1>2, XAddStep DEF Keeps
<1>4. /\ UNCHANGED <<tip, lastSeen, start, next, origin>>
      /\ hpc' = IF found' = {} THEN "save" ELSE "add"
  BY DEF AddBlock
<1>5. Scheduled \cup {b} \subseteq Scheduled'
  BY <1>3, ScheduledStays DEF Scheduled
<1>6. HTypeOK'
  BY <1>1, <1>2, <1>3, <1>4 DEF HTypeOK, Keeps, LossTypeOK
<1>7. NoGap'
  BY <1>3, <1>4, NoGapStays DEF HInv, PositionSame
<1>8. IterationCovers'
  BY <1>1, <1>2, <1>4, <1>5 DEF HInv, IterationCovers
<1>. QED
  BY <1>3, <1>6, <1>7, <1>8 DEF HInv, Keeps

LEMMA HSaveStep ==
    ASSUME HInv, faults' \in 0..MaxFaults, LossTypeOK', SaveLastSeenBlock
    PROVE  HInv'
<1>1. /\ HTypeOK /\ StreamTypeOK /\ EvictedKnown /\ NoGap /\ IterationCovers
      /\ hpc = "save" /\ found = {} /\ Block \subseteq Nat
      /\ start \in Nat /\ next \in Nat /\ origin \in Nat /\ lastSeen \in Nat
  BY StreamAssumption, HarvesterAssumption
     DEF HInv, HTypeOK, IterationCovers, SaveLastSeenBlock
<1>2. Keeps({}) /\ Entry' = Entry /\ Grows
  BY <1>1, UnchangedStep DEF SaveLastSeenBlock, Keeps
<1>3. /\ lastSeen' = next /\ origin' = IF lastSeen = 0 THEN start ELSE origin
      /\ hpc' = "seen" /\ start' = 0 /\ next' = 0 /\ UNCHANGED <<tip, found>>
  BY DEF SaveLastSeenBlock
<1>4. HTypeOK'
  BY <1>1, <1>2, <1>3, HarvesterAssumption DEF HTypeOK, Keeps, LossTypeOK
<1>5. ASSUME NEW b \in Block, origin' <= b, b < next PROVE b \in Scheduled'
  <2>1. CASE start <= b
    BY <1>1, <1>2, <1>5, <2>1, ScheduledStays DEF IterationCovers
  <2>2. CASE lastSeen # 0 /\ b < start
    <3>1. start = lastSeen /\ origin' = origin
      BY <1>1, <1>3, <2>2 DEF IterationCovers
    <3>. QED
      BY <1>1, <1>2, <1>5, <2>2, <3>1, ScheduledStays DEF NoGap
  <2>. QED
    BY <1>1, <1>3, <1>5, <2>1, <2>2
<1>6. NoGap'
  BY <1>3, <1>5 DEF NoGap
<1>7. IterationCovers'
  BY <1>1, <1>3 DEF IterationCovers
<1>. QED
  BY <1>2, <1>4, <1>6, <1>7 DEF HInv, Keeps

(* The remaining steps leave the stream and the saved position alone.       *)
LEMMA HPlainSteps ==
    ASSUME HInv, faults' \in 0..MaxFaults, LossTypeOK',
           GetLastSeenBlock \/ GetLatestBlock \/ NewSlot \/ HHang \/ HCrash
           \/ UNCHANGED hvars
    PROVE  HInv'
<1>1. /\ HTypeOK /\ StreamTypeOK /\ EvictedKnown /\ IterationCovers
      /\ MaxSlot \in Nat /\ lastSeen \in Nat /\ tip \in 1..MaxSlot
      /\ Block \subseteq Nat
  BY HarvesterAssumption, StreamAssumption DEF HInv, HTypeOK, Slot
<1>2. UNCHANGED streamVars /\ PositionSame
  BY DEF GetLastSeenBlock, GetLatestBlock, NewSlot, HCrash, HarvesterCrash, HHang, CallHangs,
     hvars, harvestVars, PositionSame
<1>3. Keeps({}) /\ Entry' = Entry
  BY <1>1, <1>2, UnchangedStep
<1>4. NoGap'
  BY <1>2, <1>3, NoGapStays DEF HInv, Keeps
<1>5. CASE GetLastSeenBlock
  BY <1>1, <1>3, <1>4, <1>5 DEF HInv, HTypeOK, LossTypeOK, IterationCovers, Keeps, GetLastSeenBlock
<1>6. CASE GetLatestBlock
  <2>1. start' \in 0..MaxSlot
    BY <1>1, <1>6 DEF GetLatestBlock
  <2>2. hpc = "latest" /\ hpc' = "list" /\ UNCHANGED <<tip, lastSeen, found, next, origin>>
    BY <1>6 DEF GetLatestBlock
  <2>. QED
    BY <1>1, <1>3, <1>4, <2>1, <2>2 DEF HInv, HTypeOK, LossTypeOK, IterationCovers, Keeps
<1>7. CASE NewSlot
  <2>1. tip' \in Slot \ {0}
    BY <1>1, <1>7 DEF NewSlot, Slot
  <2>2. UNCHANGED <<stream, lastSeen, hpc, start, found, next, origin>>
    BY <1>7 DEF NewSlot, streamVars
  <2>3. Scheduled' = Scheduled
    BY <1>3, <2>2 DEF Scheduled
  <2>. QED
    BY <1>1, <1>3, <1>4, <2>1, <2>2, <2>3 DEF HInv, HTypeOK, LossTypeOK, IterationCovers, Keeps
<1>8. CASE HCrash
  BY <1>1, <1>3, <1>4, <1>8 DEF HInv, HTypeOK, LossTypeOK, IterationCovers, Keeps, HCrash, HarvesterCrash
<1>9. CASE HHang \/ UNCHANGED hvars
  <2>1. UNCHANGED <<stream, tip, lastSeen, hpc, start, found, next, origin>>
    BY <1>9 DEF HHang, CallHangs, hvars, streamVars, harvestVars
  <2>2. Scheduled' = Scheduled
    BY <1>3, <2>1 DEF Scheduled
  <2>. QED
    BY <1>1, <1>3, <1>4, <2>1, <2>2 DEF HInv, HTypeOK, LossTypeOK, IterationCovers, Keeps
<1>. QED
  BY <1>5, <1>6, <1>7, <1>8, <1>9

-----------------------------------------------------------------------------
(* The theorems.                                                            *)

LEMMA HInitInv == HInit => HInv
<1>. SUFFICES ASSUME HInit PROVE HInv
  OBVIOUS
<1>1. StreamTypeOK /\ EvictedKnown
  BY StreamInitOK DEF HInit
<1>2. hung \in BOOLEAN /\ crashes \in Nat
  BY DEF HInit, IterationInit
<1>3. HTypeOK
  <2>1. /\ tip \in Slot \ {0} /\ lastSeen \in 0..(MaxSlot + 1)
        /\ start \in 0..(MaxSlot + 1) /\ next \in 0..(MaxSlot + 1)
        /\ origin \in 0..(MaxSlot + 1)
        /\ hpc = "seen" /\ found \subseteq Block
    BY HarvesterAssumption DEF HInit, IterationInit
  <2>. QED
    BY <1>1, <1>2, <2>1 DEF HTypeOK
<1>4. NoGap /\ IterationCovers
  BY DEF HInit, IterationInit, NoGap, IterationCovers
<1>. QED
  BY <1>1, <1>3, <1>4 DEF HInv

LEMMA HNextInv == HInv /\ [HNext]_hvars => HInv'
<1>. SUFFICES ASSUME HInv, [HNext]_hvars PROVE HInv'
  OBVIOUS
<1>1. CASE UNCHANGED hvars
  <2>1. faults' \in 0..MaxFaults /\ LossTypeOK'
    BY <1>1 DEF hvars, harvestVars, lostVars, HInv, HTypeOK, StreamTypeOK, LossTypeOK
  <2>. QED
    BY <1>1, <2>1, HPlainSteps
<1>2. CASE HNext
  <2>1. faults' \in 0..MaxFaults /\ LossTypeOK'
    BY <1>2, HFaults DEF HInv
  <2>. QED
    BY <1>2, <2>1, HListStep, HAddStep, HSaveStep, HPlainSteps DEF HNext, HarvestBlocks
<1>. QED
  BY <1>1, <1>2

-----------------------------------------------------------------------------
(* Copies of a block.  A block not yet passed has been queued once for each *)
(* crash in an iteration at most, and a block is passed when the iteration queues it.       *)
Copies(b) == {i \in Entry : stream[i] = b}

Behind(b) == b < lastSeen \/ (hpc \in {"add", "save"} /\ b < next /\ b \notin found)

CopiesBounded ==
    /\ hpc = "add" => \A b \in found : b < next
    /\ \A b \in Block :
          /\ Cardinality(Copies(b)) <= 1 + crashes
          /\ Behind(b) \/ Cardinality(Copies(b)) <= crashes

LEMMA CopiesFinite ==
    ASSUME StreamTypeOK, NEW b
    PROVE  IsFiniteSet(Copies(b)) /\ Cardinality(Copies(b)) \in Nat
<1>1. Len(stream) \in Nat
  BY DEF StreamTypeOK
<1>2. IsFiniteSet(Entry)
  BY <1>1, FS_Interval DEF Entry
<1>3. Copies(b) \in SUBSET Entry
  BY DEF Copies
<1>4. IsFiniteSet(Copies(b))
  BY <1>2, <1>3, FS_Subset
<1>. QED
  BY <1>4, FS_CardinalityType

LEMMA CopiesAddStep ==
    ASSUME HInv, CopiesBounded, AddBlock, UNCHANGED lostVars
    PROVE  CopiesBounded'
<1>1. /\ StreamTypeOK /\ IterationCovers /\ hpc = "add" /\ found \subseteq Block
      /\ Block \subseteq Nat /\ lastSeen \in Nat /\ start \in Nat /\ next \in Nat
      /\ crashes \in Nat /\ EvictedKnown
  <2>1. HTypeOK /\ IterationCovers /\ EvictedKnown /\ hpc = "add"
    BY DEF HInv, AddBlock
  <2>2. StreamTypeOK /\ found \subseteq Block /\ lastSeen \in Nat /\ start \in Nat /\ next \in Nat
    BY <2>1, HarvesterAssumption DEF HTypeOK
  <2>3. crashes \in Nat
    BY <2>1 DEF HTypeOK
  <2>. QED
    BY <2>1, <2>2, <2>3, StreamAssumption
<1>2. PICK a \in found : XAdd(a) /\ found' = found \ {a}
  BY DEF AddBlock
<1>3. /\ Len(stream) \in Nat /\ stream' = Append(stream, a)
      /\ Len(stream') = Len(stream) + 1 /\ stream'[Len(stream) + 1] = a
      /\ \A i \in Entry : stream'[i] = stream[i]
      /\ Entry' = Entry \cup {Len(stream) + 1} /\ Len(stream) + 1 \notin Entry
  BY <1>1, <1>2 DEF XAdd, StreamTypeOK, Entry
<1>4. UNCHANGED <<lastSeen, next, crashes>> /\ hpc' \in {"add", "save"}
  BY DEF AddBlock, lostVars
<1>5. ~ Behind(a)
  <2>1. a \in Nat /\ start <= a
    BY <1>1, <1>2 DEF IterationCovers
  <2>2. lastSeen # 0 => start = lastSeen
    BY <1>1 DEF IterationCovers
  <2>3. ~ (a < lastSeen)
    BY <1>1, <2>1, <2>2
  <2>. QED
    BY <1>2, <2>3 DEF Behind
<1>6. ASSUME NEW b \in Block
      PROVE  /\ Cardinality(Copies(b))' <= 1 + crashes'
             /\ Behind(b)' \/ Cardinality(Copies(b))' <= crashes'
  <2>1. CASE b = a
    <3>1. Copies(b)' = Copies(b) \cup {Len(stream) + 1} /\ Len(stream) + 1 \notin Copies(b)
      BY <1>3, <2>1 DEF Copies
    <3>2. Cardinality(Copies(b))' = Cardinality(Copies(b)) + 1
      BY <1>1, <3>1, CopiesFinite, FS_AddElement
    <3>3. Cardinality(Copies(b)) <= crashes /\ Cardinality(Copies(b)) \in Nat
      BY <1>1, <1>5, <2>1, CopiesFinite DEF CopiesBounded
    <3>4. Behind(b)'
      BY <1>1, <1>2, <1>4, <2>1 DEF Behind, CopiesBounded
    <3>. QED
      BY <1>1, <1>4, <3>2, <3>3, <3>4
  <2>2. CASE b # a
    <3>1. Copies(b)' = Copies(b)
      BY <1>3, <2>2 DEF Copies
    <3>2. Behind(b) => Behind(b)'
      BY <1>1, <1>2, <1>4, <2>2 DEF Behind
    <3>. QED
      BY <1>4, <3>1, <3>2 DEF CopiesBounded
  <2>. QED
    BY <2>1, <2>2
<1>7. \A b \in found' : b < next'
  BY <1>1, <1>2, <1>4 DEF CopiesBounded
<1>. QED
  BY <1>6, <1>7 DEF CopiesBounded

(* The steps that add nothing: no block is passed less than before, unless  *)
(* it is by a crash in an iteration, which allows for one copy more.                        *)
LEMMA CopiesOtherSteps ==
    ASSUME HInv, CopiesBounded, [HNext]_hvars,
           ~ (AddBlock /\ UNCHANGED lostVars)
    PROVE  CopiesBounded'
<1>1. /\ StreamTypeOK /\ IterationCovers /\ found \subseteq Block
      /\ Block \subseteq Nat /\ lastSeen \in Nat /\ start \in Nat /\ next \in Nat
      /\ crashes \in Nat
  BY StreamAssumption, HarvesterAssumption DEF HInv, HTypeOK
<1>2. stream' = stream
  BY DEF HNext, HarvestBlocks, GetLastSeenBlock, GetLatestBlock, GetBlocksWithLimit,
     SaveLastSeenBlock, NewSlot, HHang, HCrash, hvars, streamVars
<1>3. ASSUME NEW b \in Block
      PROVE  Copies(b)' = Copies(b) /\ Cardinality(Copies(b)) \in Nat
  BY <1>1, <1>2, CopiesFinite DEF Copies, Entry
<1>4. ~ HCrash => crashes' = crashes
  BY DEF HNext, HarvestBlocks, NewSlot, HHang, CallHangs, hvars, harvestVars, lostVars
<1>5. CASE HCrash
  <2>1. hpc' = "seen" /\ lastSeen' = lastSeen
        /\ crashes' = IF hpc \in {"add", "save"} THEN crashes + 1 ELSE crashes
    BY <1>5 DEF HCrash, HarvesterCrash
  <2>2. ASSUME NEW b \in Block, Behind(b), hpc \notin {"add", "save"} PROVE Behind(b)'
    BY <2>1, <2>2 DEF Behind
  <2>. QED
    BY <1>1, <1>3, <2>1, <2>2 DEF CopiesBounded
<1>6. ASSUME ~ HCrash PROVE \A b \in Block : Behind(b) => Behind(b)'
  <2>. SUFFICES ASSUME NEW b \in Block, Behind(b) PROVE Behind(b)'
    OBVIOUS
  <2>1. b \in Nat
    BY <1>1
  <2>2. CASE SaveLastSeenBlock
    <3>1. lastSeen' = next /\ hpc = "save" /\ (b < lastSeen \/ b < next)
      BY <2>2 DEF SaveLastSeenBlock, Behind
    <3>2. start <= next /\ (lastSeen # 0 => start = lastSeen)
      BY <1>1, <3>1 DEF IterationCovers
    <3>3. b < lastSeen'
      BY <1>1, <2>1, <3>1, <3>2
    <3>. QED
      BY <3>3 DEF Behind
  <2>3. CASE GetLastSeenBlock \/ GetLatestBlock \/ GetBlocksWithLimit
    BY <2>3 DEF GetLastSeenBlock, GetLatestBlock, GetBlocksWithLimit, Behind
  <2>4. CASE NewSlot \/ HHang \/ UNCHANGED hvars
    BY <2>4 DEF NewSlot, HHang, CallHangs, hvars, harvestVars, Behind
  <2>. QED
    BY <1>6, <2>2, <2>3, <2>4 DEF HNext, HarvestBlocks
<1>7. ASSUME ~ HCrash, hpc' = "add" PROVE \A b \in found' : b < next'
  <2>1. CASE GetBlocksWithLimit
    <3>1. SetNext /\ found' \subseteq Block
      BY <2>1 DEF GetBlocksWithLimit, FirstN, BlocksFrom
    <3>. QED
      BY <1>1, <3>1 DEF SetNext
  <2>2. CASE NewSlot \/ HHang \/ UNCHANGED hvars
    BY <1>7, <2>2 DEF NewSlot, HHang, CallHangs, hvars, harvestVars, CopiesBounded
  <2>. QED
    BY <1>7, <2>1, <2>2 DEF HNext, HarvestBlocks, GetLastSeenBlock, GetLatestBlock,
       SaveLastSeenBlock
<1>. QED
  <2>1. CASE ~ HCrash
    BY <1>1, <1>3, <1>4, <1>6, <1>7, <2>1 DEF CopiesBounded
  <2>. QED
    BY <1>5, <2>1

LEMMA CopiesInitially == HInit => CopiesBounded
<1>. SUFFICES ASSUME HInit PROVE CopiesBounded
  OBVIOUS
<1>1. \A b \in Block : Copies(b) = {}
  BY DEF HInit, StreamInit, Copies, Entry
<1>. QED
  BY <1>1, FS_EmptySet DEF HInit, IterationInit, CopiesBounded

-----------------------------------------------------------------------------
(* The inductive invariant holds in every reachable state.                  *)
THEOREM HarvestInvariantHolds == HSpec => []HInv
BY HInitInv, HNextInv, PTL DEF HSpec

(* HarvestBlocks (main.go:332-379) leaves no gap behind the saved position. *)
THEOREM HarvestLeavesNoGap == HSpec => []NoGap
<1>1. HInv => NoGap
  BY DEF HInv
<1>. QED
  BY <1>1, HarvestInvariantHolds, PTL

(* The saved position never decreases, and no block before it is queued     *)
(* again (main.go:340-373).                                                 *)
THEOREM HarvestOnlyForward == HSpec => OnlyForward
<1>. DEFINE Forward ==
       /\ lastSeen' >= lastSeen
       /\ Len(stream') > Len(stream) => stream'[Len(stream')] >= lastSeen
<1>1. HInv /\ [HNext]_hvars => [Forward]_hvars
  <2>. SUFFICES ASSUME HInv, HNext PROVE Forward
    OBVIOUS
  <2>1. /\ HTypeOK /\ IterationCovers /\ lastSeen \in Nat /\ stream \in Seq(Block)
        /\ Block \subseteq Nat /\ Len(stream) \in Nat /\ start \in Nat /\ next \in Nat
    BY StreamAssumption, HarvesterAssumption DEF HInv, HTypeOK, StreamTypeOK
  <2>2. CASE AddBlock
    <3>1. PICK b \in found : XAdd(b)
      BY <2>2 DEF AddBlock
    <3>2. lastSeen' = lastSeen /\ b \in Nat /\ b >= lastSeen
      BY <2>1, <2>2, <3>1 DEF AddBlock, IterationCovers, HTypeOK
    <3>3. stream' = Append(stream, b)
      BY <3>1 DEF XAdd
    <3>. QED
      BY <2>1, <3>2, <3>3
  <2>3. CASE SaveLastSeenBlock
    <3>1. lastSeen' = next /\ stream' = stream
      BY <2>3 DEF SaveLastSeenBlock, streamVars
    <3>2. lastSeen <= next
      BY <2>1, <2>3 DEF SaveLastSeenBlock, IterationCovers
    <3>. QED
      BY <2>1, <3>1, <3>2
  <2>4. CASE UNCHANGED <<stream, lastSeen>>
    BY <2>1, <2>4
  <2>. QED
    BY <2>2, <2>3, <2>4 DEF HNext, HarvestBlocks, GetLastSeenBlock, GetLatestBlock,
       GetBlocksWithLimit, NewSlot, HHang, CallHangs, HCrash, HarvesterCrash, streamVars
<1>. QED
  BY <1>1, HarvestInvariantHolds, PTL DEF HSpec, OnlyForward

(* The variables of the harvester keep their types (main.go:320-324).       *)
THEOREM HarvestTypesHold == HSpec => []HTypeOK
<1>1. HInv => HTypeOK
  BY DEF HInv
<1>. QED
  BY <1>1, HarvestInvariantHolds, PTL

(* A second copy of a block in the stream is the price of a crash between   *)
(* AddBlocks and SaveLastSeenBlock (main.go:361-373), one copy each.        *)
THEOREM CopiesCostCrashes == HSpec => []CopiesPerCrash
<1>1. HInv /\ CopiesBounded /\ [HNext]_hvars => CopiesBounded'
  BY CopiesAddStep, CopiesOtherSteps
<1>2. CopiesBounded => CopiesPerCrash
  BY DEF CopiesBounded, CopiesPerCrash, Copies
<1>. QED
  BY <1>1, <1>2, CopiesInitially, HarvestInvariantHolds, PTL DEF HSpec

(* That the harvester may start at the first slot there is takes an answer  *)
(* of getEpochInfo with an error (main.go:339-346, cli.go:273-293): as long *)
(* as there is none, it starts at a slot that has been the tip.             *)
THEOREM ColdStartWithoutErrors ==
    ASSUME "latest" \notin Faults
    PROVE  HSpec => []ColdStartAtLatest
<1>1. HInit => ColdStartAtLatest
  BY DEF HInit, IterationInit, ColdStartAtLatest
<1>2. HInv /\ ColdStartAtLatest /\ [HNext]_hvars => ColdStartAtLatest'
  <2>. SUFFICES ASSUME HInv, ColdStartAtLatest, [HNext]_hvars PROVE ColdStartAtLatest'
    OBVIOUS
  <2>1. tip \in Nat /\ tip # 0
    BY HarvesterAssumption DEF HInv, HTypeOK, Slot
  <2>2. CASE GetLastSeenBlock
    BY <2>2 DEF GetLastSeenBlock, ColdStartAtLatest
  <2>3. CASE GetLatestBlock
    BY <2>1, <2>3 DEF GetLatestBlock, Fail, ColdStartAtLatest
  <2>4. CASE hpc' # "list"
    BY <2>4 DEF ColdStartAtLatest
  <2>5. CASE UNCHANGED <<hpc, lastSeen, start>>
    BY <2>5 DEF ColdStartAtLatest
  <2>6. CASE GetBlocksWithLimit \/ AddBlock \/ SaveLastSeenBlock \/ HCrash
    BY <2>4, <2>6 DEF GetBlocksWithLimit, AddBlock, SaveLastSeenBlock, HCrash, HarvesterCrash
  <2>7. CASE NewSlot \/ HHang \/ UNCHANGED hvars
    BY <2>5, <2>7 DEF NewSlot, HHang, CallHangs, hvars, harvestVars
  <2>. QED
    BY <2>2, <2>3, <2>6, <2>7 DEF HNext, HarvestBlocks
<1>. QED
  BY <1>1, <1>2, HarvestInvariantHolds, PTL DEF HSpec

=============================================================================
