---------------------------- MODULE ProcessProofs ----------------------------
(***************************************************************************)
(* Proofs about the life of the process: for any number of processors, any *)
(* size of the pool and any chain, no batch is reported twice, two reports *)
(* at most are withheld from the log, and no report is absurd.             *)
(***************************************************************************)
EXTENDS Process, FiniteSetTheorems, TLAPS

(* Why two reports at most are withheld: nothing is counted before a block  *)
(* was processed, and the look at the last of them in the report after one  *)
(* that was withheld with something in it finds it.                         *)
Withheld ==
    /\ quiet <= 1 \/ lastReport
    /\ quiet # 0 \/ lastReport => lastProcessed # 0 /\ (rpc = "swap" => seen # 0)
    /\ count # 0 \/ seen # 0 \/ (\E t \in Thread : tpc[t] = "count") => lastProcessed # 0

(* The slot in the reporter's hands is one the chain has reached, and those *)
(* that hold a batch will not exceed the bound on batches.                  *)
RInv ==
    /\ RTypeOK
    /\ EveryBatchReportedOnce
    /\ NeverBehindTheChain
    /\ latest <= tip
    /\ acked + Cardinality(Holders) <= MaxBatches
    /\ Withheld

-----------------------------------------------------------------------------
(* Sets of processors.                                                      *)

LEMMA ThreadSets ==
    ASSUME NEW S \in SUBSET Thread, NEW t \in Thread
    PROVE  /\ Cardinality(S) \in Nat
           /\ t \notin S => Cardinality(S \cup {t}) = Cardinality(S) + 1
           /\ t \in S => Cardinality(S \ {t}) = Cardinality(S) - 1
<1>1. IsFiniteSet(S)
  BY FS_Subset, ProcessAssumption
<1>. QED
  BY <1>1, FS_CardinalityType, FS_AddElement, FS_RemoveElement

(* What one processor's next step makes of the two sets.                    *)
LEMMA Moves ==
    ASSUME RTypeOK, NEW t \in Thread, NEW to, Goto(t, to)
    PROVE  /\ tpc'[t] = to /\ \A u \in Thread \ {t} : tpc'[u] = tpc[u]
           /\ Uncounted' = IF to \in {"store", "count"} THEN Uncounted \cup {t}
                                                       ELSE Uncounted \ {t}
           /\ Holders' = IF to \in {"work", "ack"} THEN Holders \cup {t} ELSE Holders \ {t}
<1>1. tpc'[t] = to /\ \A u \in Thread \ {t} : tpc'[u] = tpc[u]
  BY DEF RTypeOK, Goto
<1>. QED
  BY <1>1 DEF Uncounted, Holders

LEMMA SetsAreNatural ==
    Cardinality(Uncounted) \in Nat /\ Cardinality(Holders) \in Nat
<1>1. Uncounted \subseteq Thread /\ Holders \subseteq Thread
  BY DEF Uncounted, Holders
<1>. QED
  BY <1>1, FS_Subset, FS_CardinalityType, ProcessAssumption

-----------------------------------------------------------------------------
(* The steps of a processor.                                                *)

LEMMA PoolBounded ==
    ASSUME RTypeOK
    PROVE  Taken \in 0..MaxIdle /\ Returned \in 0..MaxIdle
BY ProcessAssumption DEF RTypeOK, Taken, Returned

LEMMA ThreadTypes ==
    ASSUME RInv, NEW t \in Thread, ThreadStep(t)
    PROVE  /\ tpc' \in [Thread -> {"check", "read", "work", "ack", "store", "count"}]
           /\ idle' \in 0..MaxIdle /\ lastProcessed' \in 0..MaxTip
           /\ main' \in {"prepare", "mongo", "starting", "running", "stopping", "waiting", "dead"}
           /\ live' \subseteq Goroutine
<1>1. RTypeOK /\ Taken \in 0..MaxIdle /\ Returned \in 0..MaxIdle
  BY PoolBounded DEF RInv
<1>2. CASE CheckContext(t)
  BY <1>1, <1>2 DEF CheckContext, RTypeOK, Leave, mainVars, Goto
<1>3. CASE ReadBatch(t)
  BY <1>1, <1>3 DEF ReadBatch, RTypeOK, mainVars, Goto
<1>4. CASE WorkOnBatch(t)
  BY <1>1, <1>4, ProcessAssumption DEF WorkOnBatch, RTypeOK, mainVars, Goto
<1>5. CASE AckBatch(t)
  BY <1>1, <1>5, ProcessAssumption DEF AckBatch, RTypeOK, mainVars, Goto
<1>6. CASE StoreLast(t)
  BY <1>1, <1>6, ProcessAssumption DEF StoreLast, RTypeOK, mainVars, Goto
<1>7. CASE CountBatch(t)
  BY <1>1, <1>7 DEF CountBatch, RTypeOK, mainVars, Goto
<1>. QED
  BY <1>2, <1>3, <1>4, <1>5, <1>6, <1>7 DEF ThreadStep

(* An acknowledged batch moves into the set, and out of it into the counter. *)
LEMMA ThreadCounts ==
    ASSUME RInv, NEW t \in Thread, ThreadStep(t)
    PROVE  /\ EveryBatchReportedOnce' /\ reported' = reported
           /\ acked' \in Nat /\ count' \in Nat
           /\ acked' + Cardinality(Holders') <= MaxBatches
<1>. DEFINE U == Cardinality(Uncounted)  H == Cardinality(Holders)
<1>1. /\ RTypeOK /\ U \in Nat /\ H \in Nat /\ acked \in Nat /\ count \in Nat
      /\ reported \in Nat /\ kept \in Nat /\ quiet \in Nat
      /\ acked = reported + kept + count + U /\ quiet <= 2 /\ (quiet = 0 => kept = 0) /\ acked + H <= MaxBatches /\ MaxBatches \in Nat
  BY SetsAreNatural, ProcessAssumption DEF RInv, RTypeOK, EveryBatchReportedOnce
<1>2. /\ t \notin Uncounted => Cardinality(Uncounted \cup {t}) = U + 1
      /\ t \in Uncounted => Cardinality(Uncounted \ {t}) = U - 1
      /\ t \notin Holders => Cardinality(Holders \cup {t}) = H + 1
      /\ t \in Holders => Cardinality(Holders \ {t}) = H - 1
  BY ThreadSets DEF Uncounted, Holders
<1>3. CASE CheckContext(t) /\ UNCHANGED tpc
  <2>1. Uncounted' = Uncounted /\ Holders' = Holders
    BY <1>3 DEF Uncounted, Holders
  <2>. QED
    BY <1>1, <1>3, <2>1 DEF CheckContext, EveryBatchReportedOnce, reportVars
<1>4. CASE CheckContext(t) /\ Goto(t, "read")
  <2>1. Uncounted' = Uncounted /\ Holders' = Holders
    BY <1>1, <1>4, Moves DEF CheckContext, At, Uncounted, Holders
  <2>. QED
    BY <1>1, <1>4, <2>1 DEF CheckContext, EveryBatchReportedOnce, reportVars
<1>5. CASE ReadBatch(t)
  <2>1. Uncounted' = Uncounted
    BY <1>1, <1>5, Moves DEF ReadBatch, At, Uncounted
  <2>2. \/ Holders' = Holders
        \/ Holders' = Holders \cup {t} /\ t \notin Holders /\ acked + H < MaxBatches
    BY <1>1, <1>5, Moves DEF ReadBatch, At, Holders
  <2>3. UNCHANGED <<acked, count, reported, kept, quiet>>
    BY <1>5 DEF ReadBatch, reportVars
  <2>4. EveryBatchReportedOnce'
    BY <1>1, <2>1, <2>3 DEF EveryBatchReportedOnce
  <2>5. Cardinality(Holders') = H \/ (Cardinality(Holders') = H + 1 /\ acked + H < MaxBatches)
    BY <1>2, <2>2
  <2>. HIDE DEF U, H
  <2>. QED
    BY <1>1, <2>3, <2>4, <2>5
<1>6. CASE WorkOnBatch(t)
  <2>1. Uncounted' = Uncounted
    BY <1>1, <1>6, Moves DEF WorkOnBatch, At, Uncounted
  <2>2. Holders' = Holders \/ (Holders' = Holders \ {t} /\ t \in Holders)
    BY <1>1, <1>6, Moves DEF WorkOnBatch, At, Holders
  <2>3. Cardinality(Holders') \in {H, H - 1}
    BY <1>2, <2>2
  <2>4. UNCHANGED <<acked, count, reported, kept, quiet>>
    BY <1>6 DEF WorkOnBatch, reportVars
  <2>5. EveryBatchReportedOnce'
    BY <1>1, <2>1, <2>4 DEF EveryBatchReportedOnce
  <2>. HIDE DEF U, H
  <2>. QED
    BY <1>1, <2>3, <2>4, <2>5
<1>7. CASE AckBatch(t)
  <2>1. Holders' = Holders \ {t} /\ t \in Holders /\ t \notin Uncounted
    BY <1>1, <1>7, Moves DEF AckBatch, At, Holders, Uncounted
  <2>2. Cardinality(Holders') = H - 1
    BY <1>2, <2>1
  <2>3. \/ Uncounted' = Uncounted \cup {t} /\ acked' = acked + 1
        \/ Uncounted' = Uncounted /\ acked' = acked
    BY <1>1, <1>7, Moves DEF AckBatch, At, Uncounted
  <2>4. \/ Cardinality(Uncounted') = U + 1 /\ acked' = acked + 1
        \/ Cardinality(Uncounted') = U /\ acked' = acked
    BY <1>2, <2>1, <2>3
  <2>5. UNCHANGED <<count, reported, kept, quiet>>
    BY <1>7 DEF AckBatch, reportVars
  <2>. HIDE DEF U, H
  <2>6. EveryBatchReportedOnce'
    BY <1>1, <2>4, <2>5 DEF EveryBatchReportedOnce
  <2>. QED
    BY <1>1, <2>2, <2>4, <2>5, <2>6
<1>8. CASE StoreLast(t)
  <2>1. Uncounted' = Uncounted /\ Holders' = Holders
    BY <1>1, <1>8, Moves DEF StoreLast, At, Uncounted, Holders
  <2>. QED
    BY <1>1, <1>8, <2>1 DEF StoreLast, EveryBatchReportedOnce, reportVars
<1>9. CASE CountBatch(t)
  <2>1. Uncounted' = Uncounted \ {t} /\ t \in Uncounted /\ Holders' = Holders
    BY <1>1, <1>9, Moves DEF CountBatch, At, Uncounted, Holders
  <2>2. count' = count + 1 /\ UNCHANGED <<acked, reported, kept, quiet>>
    BY <1>9 DEF CountBatch, reportVars
  <2>3. EveryBatchReportedOnce'
    BY <1>1, <1>2, <2>1, <2>2 DEF EveryBatchReportedOnce
  <2>. QED
    BY <1>1, <2>1, <2>2, <2>3
<1>. QED
  BY <1>3, <1>4, <1>5, <1>6, <1>7, <1>8, <1>9 DEF ThreadStep, CheckContext

(* A batch is counted after its last block was stored.                      *)
LEMMA ThreadWithholds ==
    ASSUME RInv, NEW t \in Thread, ThreadStep(t)
    PROVE  Withheld'
<1>1. RTypeOK /\ Withheld /\ UNCHANGED <<rpc, seen, lastReport, quiet>>
  BY DEF RInv, ThreadStep, CheckContext, ReadBatch, WorkOnBatch, AckBatch, StoreLast, CountBatch,
         reportVars
<1>2. CASE StoreLast(t)
  <2>1. lastProcessed' # 0 /\ count' = count
    BY <1>1, <1>2 DEF StoreLast, RTypeOK
  <2>. QED
    BY <1>1, <2>1 DEF Withheld
<1>3. CASE CountBatch(t)
  <2>1. lastProcessed # 0 /\ lastProcessed' = lastProcessed
    BY <1>1, <1>3 DEF CountBatch, At, Withheld
  <2>. QED
    BY <1>1, <2>1 DEF Withheld
<1>4. CASE ~ StoreLast(t) /\ ~ CountBatch(t)
  <2>1. UNCHANGED <<lastProcessed, count>>
    BY <1>4 DEF ThreadStep, CheckContext, ReadBatch, WorkOnBatch, AckBatch
  <2>2. tpc' = tpc \/ \E to \in {"check", "read", "work", "ack", "store"} : Goto(t, to)
    BY <1>4 DEF ThreadStep, CheckContext, ReadBatch, WorkOnBatch, AckBatch
  <2>3. \A u \in Thread : tpc'[u] = "count" => tpc[u] = "count"
    BY <1>1, <2>2 DEF RTypeOK, Goto
  <2>. QED
    BY <1>1, <2>1, <2>3 DEF Withheld
<1>. QED
  BY <1>2, <1>3, <1>4

LEMMA ThreadKeeps ==
    ASSUME RInv, NEW t \in Thread, ThreadStep(t)
    PROVE  RInv'
<1>1. RTypeOK /\ Cardinality(Uncounted') \in Nat /\ Cardinality(Holders') \in Nat
  BY ThreadSets DEF RInv, Uncounted, Holders
<1>2. UNCHANGED <<hpc, tip, reportVars>>
  BY DEF ThreadStep, CheckContext, ReadBatch, WorkOnBatch, AckBatch, StoreLast, CountBatch
<1>3. acked' \in 0..MaxBatches /\ count' \in 0..MaxBatches
  BY <1>1, <1>2, ThreadCounts, ProcessAssumption
     DEF EveryBatchReportedOnce, RTypeOK, reportVars
<1>4. RTypeOK'
  BY <1>1, <1>2, <1>3, ThreadTypes DEF RTypeOK, reportVars
<1>. QED
  <2>1. EveryBatchReportedOnce' /\ Withheld' /\ acked' + Cardinality(Holders') <= MaxBatches
    BY ThreadCounts, ThreadWithholds
  <2>2. latest' <= tip' /\ NeverBehindTheChain'
    BY <1>2 DEF RInv, NeverBehindTheChain, reportVars
  <2>. QED
    BY <1>4, <2>1, <2>2 DEF RInv

-----------------------------------------------------------------------------
(* The other steps.                                                         *)

LEMMA HarvesterKeeps ==
    ASSUME RInv, HarvesterStep
    PROVE  RInv'
<1>1. RTypeOK /\ Taken \in 0..MaxIdle /\ Returned \in 0..MaxIdle
  BY PoolBounded DEF RInv
<1>2. UNCHANGED <<tpc, tip, lastProcessed, count, reportVars, acked>>
  BY DEF HarvesterStep
<1>3. ASSUME NEW from, NEW to \in {"check", "list", "save"}, NEW left \in 0..MaxIdle,
             HarvesterRedis(from, to, left)
      PROVE  hpc' \in {"check", "seen", "list", "add", "save"} /\ idle' \in 0..MaxIdle
             /\ main' \in {main, "dead"} /\ live' \subseteq live
  BY <1>1, <1>3 DEF HarvesterRedis, RTypeOK, Die, mainVars
<1>4. idle \in 0..MaxIdle /\ (IF idle = 0 THEN Returned ELSE idle) \in 0..MaxIdle
  BY <1>1 DEF RTypeOK
<1>5. hpc' \in {"check", "seen", "list", "add", "save"} /\ idle' \in 0..MaxIdle
      /\ main' \in {main, "dead"} /\ live' \subseteq live
  <2>1. CASE HarvesterRedis("seen", "list", Taken)
    BY <1>1, <1>3, <2>1
  <2>2. CASE HarvesterRedis("add", "save", IF idle = 0 THEN Returned ELSE idle)
    BY <1>3, <1>4, <2>2
  <2>3. CASE HarvesterRedis("save", "check", Taken)
    BY <1>1, <1>3, <2>3
  <2>4. CASE hpc \in {"check", "list"}
    BY <1>1, <1>4, <2>4 DEF HarvesterStep, HarvesterRedis, RTypeOK, Leave, mainVars
  <2>. QED
    BY <2>1, <2>2, <2>3, <2>4 DEF HarvesterStep
<1>6. RTypeOK'
  BY <1>1, <1>2, <1>5 DEF RTypeOK, reportVars
<1>7. Uncounted' = Uncounted /\ Holders' = Holders
  BY <1>2 DEF Uncounted, Holders
<1>. QED
  BY <1>2, <1>6, <1>7 DEF RInv, EveryBatchReportedOnce, NeverBehindTheChain, Withheld, reportVars

(* A report is of the chain as it was asked for, or of less.                *)
LEMMA SwapKeeps ==
    ASSUME RInv, SwapCount, UNCHANGED <<mainVars, idle, hpc, tpc, tip, lastProcessed, acked>>
    PROVE  RInv'
<1>1. /\ RTypeOK /\ tip \in Nat /\ latest \in Nat /\ seen \in Nat /\ latest <= tip
      /\ count \in Nat /\ reported \in Nat /\ kept \in Nat /\ quiet \in Nat
      /\ Cardinality(Uncounted) \in Nat /\ Withheld /\ EveryBatchReportedOnce
  BY SetsAreNatural, ProcessAssumption DEF RInv, RTypeOK
<1>2. Uncounted' = Uncounted /\ Holders' = Holders
  BY DEF Uncounted, Holders
<1>3. /\ count' = 0 /\ latest' = 0 /\ seen' = 0
      /\ rpc = "swap" /\ rpc' = "select" /\ lastReport' = (seen # 0)
  BY DEF SwapCount
<1>4. behind' \in 0..Word /\ (behind' = Unknown \/ behind' <= tip)
  <2>1. CalcStatus(latest, seen) = Unknown
        \/ (CalcStatus(latest, seen) \in Nat /\ CalcStatus(latest, seen) <= tip)
    BY <1>1 DEF CalcStatus
  <2>2. tip <= Word /\ Word \in Nat
    BY <1>1, ProcessAssumption DEF RTypeOK
  <2>3. behind \in 0..Word /\ (behind = Unknown \/ behind <= tip)
    BY DEF RInv, RTypeOK, NeverBehindTheChain
  <2>. QED
    BY <1>1, <2>1, <2>2, <2>3 DEF SwapCount, LogReport, Unknown
<1>5. \/ lastReport /\ reported' = reported + count /\ kept' = kept /\ quiet' = quiet
      \/ /\ ~ lastReport /\ reported' = reported /\ kept' = kept + count
         /\ quiet' = IF count = 0 THEN quiet ELSE quiet + 1
  BY DEF SwapCount, LogReport
<1>6. RTypeOK'
  BY <1>1, <1>3, <1>4, <1>5, ProcessAssumption DEF RTypeOK, mainVars
<1>7. Withheld'
  <2>1. quiet # 0 \/ lastReport => lastReport' /\ lastProcessed # 0
    BY <1>1, <1>3 DEF Withheld
  <2>2. count # 0 \/ seen # 0 => lastProcessed # 0
    BY <1>1 DEF Withheld
  <2>3. quiet' <= 1 \/ lastReport'
    BY <1>1, <1>5, <2>1
  <2>4. quiet' # 0 \/ lastReport' => lastProcessed # 0
    BY <1>1, <1>3, <1>5, <2>1, <2>2
  <2>5. (\E t \in Thread : tpc[t] = "count") => lastProcessed # 0
    BY <1>1 DEF Withheld
  <2>. QED
    BY <1>3, <2>3, <2>4, <2>5 DEF Withheld
<1>8. EveryBatchReportedOnce'
  <2>1. quiet' <= 2
    BY <1>1, <1>5 DEF Withheld, EveryBatchReportedOnce
  <2>. QED
    BY <1>1, <1>2, <1>3, <1>5, <2>1 DEF EveryBatchReportedOnce
<1>. QED
  BY <1>1, <1>2, <1>3, <1>4, <1>6, <1>7, <1>8 DEF RInv, NeverBehindTheChain, Unknown

LEMMA ReportKeeps ==
    ASSUME RInv, ReportStep
    PROVE  RInv'
<1>1. RTypeOK /\ tip \in Nat /\ latest <= tip /\ Withheld
  BY ProcessAssumption DEF RInv, RTypeOK
<1>2. UNCHANGED <<mainVars, idle, hpc, tpc, tip, lastProcessed, acked>>
  BY DEF ReportStep
<1>3. CASE SwapCount
  BY <1>2, <1>3, SwapKeeps
<1>4. CASE ~ SwapCount
  <2>1. /\ UNCHANGED <<count, lastReport, behind, reported, kept, quiet>>
        /\ latest' = latest \/ latest' \in 0..tip
        /\ \/ seen' = seen /\ rpc' \in {rpc, "load"}
           \/ seen' = lastProcessed /\ rpc' = "swap"
    BY <1>4 DEF ReportStep
  <2>2. latest' \in 0..MaxTip /\ latest' <= tip
    BY <1>1, <2>1, ProcessAssumption DEF RTypeOK
  <2>3. RTypeOK'
    BY <1>1, <1>2, <2>1, <2>2 DEF RTypeOK, mainVars
  <2>4. Withheld'
    BY <1>1, <1>2, <2>1 DEF Withheld
  <2>5. Uncounted' = Uncounted /\ Holders' = Holders
    BY <1>2 DEF Uncounted, Holders
  <2>. QED
    BY <1>2, <2>1, <2>2, <2>3, <2>4, <2>5 DEF RInv, EveryBatchReportedOnce, NeverBehindTheChain
<1>. QED
  BY <1>3, <1>4

LEMMA ProcessKeeps ==
    ASSUME RInv, Start \/ Fails \/ Signal \/ Cancel \/ ConnectionExpires \/ NewBlock
                 \/ ReportLeaves \/ UNCHANGED vars
    PROVE  RInv'
<1>1. RTypeOK
  BY DEF RInv
<1>2. /\ UNCHANGED <<hpc, tpc, lastProcessed, count, reportVars, acked>>
      /\ main' \in {main, "mongo", "starting", "running", "stopping", "waiting", "dead"}
      /\ live' \subseteq live \cup Goroutine
  BY DEF Start, Fails, Signal, Cancel, ConnectionExpires, NewBlock, ReportLeaves, Die, Leave,
     mainVars, vars
<1>3. /\ idle' = idle \/ (idle > 0 /\ idle' = idle - 1)
      /\ tip' = tip \/ (tip < MaxTip /\ tip' = tip + 1)
  BY DEF Start, Fails, Signal, Cancel, ConnectionExpires, NewBlock, ReportLeaves, vars
<1>4. idle' \in 0..MaxIdle /\ tip' \in 1..MaxTip /\ tip' >= tip
  BY <1>1, <1>3, ProcessAssumption DEF RTypeOK
<1>5. RTypeOK'
  BY <1>1, <1>2, <1>4 DEF RTypeOK, reportVars
<1>6. Uncounted' = Uncounted /\ Holders' = Holders
  BY <1>2 DEF Uncounted, Holders
<1>7. latest' <= tip' /\ NeverBehindTheChain'
  <2>1. latest <= tip /\ (behind = Unknown \/ behind <= tip)
    BY DEF RInv, NeverBehindTheChain
  <2>2. latest \in Nat /\ tip \in Nat /\ tip' \in Nat /\ behind \in Nat
    BY <1>1, <1>4, ProcessAssumption DEF RTypeOK
  <2>. QED
    BY <1>2, <1>4, <2>1, <2>2 DEF NeverBehindTheChain, reportVars, Unknown
<1>. QED
  BY <1>2, <1>5, <1>6, <1>7 DEF RInv, EveryBatchReportedOnce, Withheld, reportVars

-----------------------------------------------------------------------------
LEMMA RInitInv == RInit => RInv
<1>. SUFFICES ASSUME RInit PROVE RInv
  OBVIOUS
<1>1. Uncounted = {} /\ Holders = {}
  BY DEF RInit, Uncounted, Holders
<1>2. Cardinality({}) = 0
  BY FS_EmptySet
<1>3. RTypeOK
  <2>1. lastReport \in BOOLEAN
    BY DEF RInit
  <2>2. /\ behind \in 0..Word /\ acked \in 0..MaxBatches /\ count \in 0..MaxBatches
        /\ idle \in 0..MaxIdle /\ live \subseteq Goroutine
        /\ reported \in Nat /\ kept \in Nat /\ quiet \in Nat
    BY ProcessAssumption DEF RInit, Unknown
  <2>3. /\ tip \in 1..MaxTip /\ lastProcessed \in 0..MaxTip
        /\ latest \in 0..MaxTip /\ seen \in 0..MaxTip
    BY ProcessAssumption DEF RInit
  <2>4. tpc \in [Thread -> {"check", "read", "work", "ack", "store", "count"}]
        /\ main = "prepare" /\ hpc = "check" /\ rpc = "select"
    BY DEF RInit
  <2>. QED
    BY <2>1, <2>2, <2>3, <2>4 DEF RTypeOK
<1>4. Withheld
  <2>1. \A t \in Thread : tpc[t] = "check"
    BY DEF RInit
  <2>2. lastReport = FALSE /\ quiet = 0 /\ count = 0 /\ seen = 0
    BY DEF RInit
  <2>. QED
    BY <2>1, <2>2 DEF Withheld
<1>. QED
  BY <1>1, <1>2, <1>3, <1>4, ProcessAssumption
     DEF RInit, RInv, EveryBatchReportedOnce, NeverBehindTheChain

LEMMA RNextInv == RInv /\ [RNext]_vars => RInv'
BY ThreadKeeps, HarvesterKeeps, ReportKeeps, ProcessKeeps DEF RNext

LEMMA RInvHolds == RSpec => []RInv
BY RInitInv, RNextInv, PTL DEF RSpec

(* Types of the process (main.go:165-286): the pool keeps MaxIdle           *)
(* connections at most, whatever is taken, returned, lost and expired.      *)
THEOREM ProcessTypesHold == RSpec => []RTypeOK
<1>1. RInv => RTypeOK
  BY DEF RInv
<1>. QED
  BY <1>1, RInvHolds, PTL

(* However many processors count their batches while ReportProgress resets  *)
(* the counter (processor.go:77, 167), each batch is in the log once, but   *)
(* for those of two reports at most, withheld because no block had been     *)
(* processed at the report before (84-90).                                  *)
THEOREM BatchesAreReportedOnce == RSpec => []EveryBatchReportedOnce
<1>1. RInv => EveryBatchReportedOnce
  BY DEF RInv
<1>. QED
  BY <1>1, RInvHolds, PTL

(* No report of ReportProgress (processor.go:66-110) puts the indexer       *)
(* further behind than the chain is long, whatever the processors store     *)
(* between the request for the latest slot and the look at their own.       *)
THEOREM ReportsAreSane == RSpec => []NeverBehindTheChain
<1>1. RInv => NeverBehindTheChain
  BY DEF RInv
<1>. QED
  BY <1>1, RInvHolds, PTL

=============================================================================
