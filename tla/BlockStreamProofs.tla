------------------------- MODULE BlockStreamProofs -------------------------
(***************************************************************************)
(* What the Redis commands of BlockStream preserve, for every block set    *)
(* and all bounds.  The proofs about the harvester and the processors use  *)
(* these lemmas and do not look into the commands again.                   *)
(***************************************************************************)
EXTENDS BlockStream, FiniteSetTheorems, TLAPS

(* The history of the stream is only ever extended.                         *)
Grows == /\ Entry \subseteq Entry'
         /\ \A i \in Entry : stream'[i] = stream[i]

(* An entry that is owed stays owed, unless it is cut off or acknowledged,  *)
(* which only those of S are.                                               *)
StaysOwed(S) == \A i \in Entry : Owed(i) => Owed(i)' \/ i \in evicted' \/ i \in S

(* What every command on the stream keeps.                                  *)
Keeps(S) == /\ StreamTypeOK' /\ EvictedKnown' /\ Grows /\ StaysOwed(S)
            /\ evicted \subseteq evicted'

-----------------------------------------------------------------------------

(* Both outcomes of the fault budget keep its type.                         *)
LEMMA FaultType ==
    ASSUME StreamTypeOK, NoFault \/ \E kind \in FaultKinds : Fail(kind)
    PROVE  faults' \in 0..MaxFaults
BY FaultsAssumption DEF StreamTypeOK, NoFault, Fail

(* Counting deliveries keeps the type of the counter.                       *)
LEMMA DeliverType ==
    ASSUME StreamTypeOK, NEW S, Deliver(S)
    PROVE  deliveries' \in [1..MaxEntries -> Nat]
BY DEF StreamTypeOK, Deliver

(* XADD keeps the type of the stream and appends one entry, which is owed.  *)
LEMMA XAddType ==
    ASSUME StreamTypeOK, NEW b \in Block, XAdd(b), faults' \in 0..MaxFaults
    PROVE  StreamTypeOK'
<1>1. Len(stream) \in Nat
  BY DEF StreamTypeOK
<1>2. stream' \in Seq(Block) /\ Len(stream') = Len(stream) + 1
  BY DEF StreamTypeOK, XAdd
<1>3. PICK t \in TrimTo : /\ trimmed' = t
                          /\ evicted' = evicted \cup {i \in (trimmed + 1)..t : Owed(i)}
  BY DEF XAdd
<1>4. t \in trimmed..Len(stream)
  BY DEF TrimTo
<1>5. trimmed' \in 0..Len(stream') /\ evicted' \subseteq 1..trimmed'
  <2>1. trimmed \in Nat /\ evicted \subseteq 1..trimmed
    BY DEF StreamTypeOK
  <2>2. {i \in (trimmed + 1)..t : Owed(i)} \subseteq 1..t
    BY <1>1, <1>4, <2>1
  <2>. QED
    <3>1. 1..trimmed \subseteq 1..t /\ t \in 0..Len(stream')
      BY <1>1, <1>2, <1>4, <2>1
    <3>2. evicted' \subseteq 1..t
      BY <1>3, <2>1, <2>2, <3>1
    <3>. QED
      BY <1>3, <3>1, <3>2
<1>6. /\ Len(stream') <= MaxEntries
      /\ UNCHANGED <<lastDelivered, pending, stale, deliveries>>
  BY <1>1, <1>2, StreamAssumption DEF XAdd
<1>7. lastDelivered' \in 0..Len(stream')
  BY <1>1, <1>2, <1>6 DEF StreamTypeOK
<1>. QED
  BY <1>2, <1>5, <1>6, <1>7 DEF StreamTypeOK

LEMMA XAddKeeps ==
    ASSUME StreamTypeOK, EvictedKnown, NEW b \in Block, XAdd(b)
    PROVE  /\ Grows /\ EvictedKnown' /\ StaysOwed({})
           /\ evicted \subseteq evicted'
           /\ Len(stream') = Len(stream) + 1
           /\ Entry' = Entry \cup {Len(stream')}
           /\ stream'[Len(stream')] = b /\ Owed(Len(stream))'
<1>1. Len(stream) \in Nat /\ trimmed \in Nat /\ lastDelivered \in 0..Len(stream)
  BY DEF StreamTypeOK
<1>2. /\ stream' \in Seq(Block) /\ Len(stream') = Len(stream) + 1
      /\ \A i \in Entry : stream'[i] = stream[i]
      /\ stream'[Len(stream) + 1] = b
  BY DEF StreamTypeOK, XAdd, Entry
<1>3. PICK t \in TrimTo : /\ trimmed' = t
                          /\ evicted' = evicted \cup {i \in (trimmed + 1)..t : Owed(i)}
  BY DEF XAdd
<1>4. t \in trimmed..Len(stream)
  BY DEF TrimTo
<1>5. lastDelivered' = lastDelivered /\ pending' = pending
  BY DEF XAdd
<1>6. EvictedKnown'
  BY <1>1, <1>3, <1>4, <1>5 DEF EvictedKnown, Owed
<1>7. StaysOwed({})
  BY <1>5 DEF StaysOwed, Owed
<1>8. Owed(Len(stream))'
  BY <1>1, <1>2, <1>5 DEF Owed
<1>. QED
  BY <1>1, <1>2, <1>3, <1>6, <1>7, <1>8 DEF Grows, Entry

(* XREADGROUP keeps the type; what it skips had been cut off before.        *)
LEMMA XReadGroupType ==
    ASSUME StreamTypeOK, NEW n \in Int, XReadGroup(n), faults' \in 0..MaxFaults
    PROVE  StreamTypeOK' /\ NewEntries(n) \subseteq Entry
<1>1. Len(stream) \in Nat /\ trimmed \in 0..Len(stream) /\ lastDelivered \in 0..Len(stream)
  BY DEF StreamTypeOK
<1>2. /\ Horizon \in lastDelivered..Len(stream) /\ ReadTo(n) \in Int
      /\ ReadTo(n) <= Len(stream)
  BY <1>1 DEF Horizon, ReadTo
<1>3. NewEntries(n) \subseteq Entry
  BY <1>1, <1>2 DEF NewEntries, Entry
<1>4. lastDelivered' \in lastDelivered..Len(stream)
      /\ NewEntries(n) \subseteq 1..lastDelivered'
  BY <1>1, <1>2 DEF NewEntries, XReadGroup
<1>5. deliveries' \in [1..MaxEntries -> Nat]
  BY DeliverType DEF XReadGroup
<1>6. pending' \subseteq 1..lastDelivered'
  <2>1. pending \subseteq 1..lastDelivered /\ pending' = pending \cup NewEntries(n)
    BY DEF StreamTypeOK, XReadGroup
  <2>2. 1..lastDelivered \subseteq 1..lastDelivered'
    BY <1>1, <1>4
  <2>. QED
    BY <1>4, <2>1, <2>2
<1>7. /\ UNCHANGED <<stream, stale, trimmed, evicted>>
      /\ stale \subseteq pending'
  BY DEF StreamTypeOK, XReadGroup
<1>8. lastDelivered' \in 0..Len(stream)
  BY <1>1, <1>4
<1>. QED
  BY <1>3, <1>5, <1>6, <1>7, <1>8 DEF StreamTypeOK

LEMMA XReadGroupKeeps ==
    ASSUME StreamTypeOK, EvictedKnown, NEW n \in Int, XReadGroup(n)
    PROVE  /\ Grows /\ EvictedKnown' /\ StaysOwed({})
           /\ evicted' = evicted /\ Entry' = Entry
<1>1. Len(stream) \in Nat /\ trimmed \in 0..Len(stream) /\ lastDelivered \in 0..Len(stream)
  BY DEF StreamTypeOK
<1>2. /\ Horizon \in lastDelivered..Len(stream) /\ ReadTo(n) \in Int
      /\ Horizon >= trimmed /\ ReadTo(n) <= Len(stream)
      /\ Horizon = lastDelivered \/ Horizon = trimmed
  BY <1>1 DEF Horizon, ReadTo
<1>3. Grows /\ Entry' = Entry /\ evicted' = evicted /\ trimmed' = trimmed
  BY DEF XReadGroup, Grows, Entry
<1>4. pending' = pending \cup NewEntries(n)
  BY DEF XReadGroup
<1>5. lastDelivered' >= lastDelivered /\ lastDelivered' \in Nat
      /\ (NewEntries(n) = {} => lastDelivered' = lastDelivered)
      /\ (NewEntries(n) # {} => lastDelivered' = ReadTo(n))
  BY <1>1, <1>2 DEF NewEntries, XReadGroup
<1>6. EvictedKnown'
  BY <1>1, <1>2, <1>3, <1>4, <1>5 DEF EvictedKnown, Owed, NewEntries
<1>7. ASSUME NEW i \in Entry, Owed(i) PROVE Owed(i)' \/ i \in evicted'
  <2>1. CASE i <= trimmed
    BY <1>1, <1>3, <1>7, <2>1 DEF EvictedKnown, Entry
  <2>2. CASE i > trimmed
    BY <1>1, <1>2, <1>4, <1>5, <1>7, <2>2 DEF Owed, NewEntries, Entry
  <2>. QED
    BY <1>1, <2>1, <2>2 DEF Entry
<1>. QED
  BY <1>3, <1>6, <1>7 DEF StaysOwed

(* XAUTOCLAIM keeps the type; what it forgets had been cut off before.      *)
LEMMA XAutoClaimType ==
    ASSUME StreamTypeOK, NEW n, XAutoClaim(n), faults' \in 0..MaxFaults
    PROVE  StreamTypeOK' /\ Claimed(n) \subseteq Entry
<1>1. Claimed(n) \subseteq stale /\ stale \subseteq Entry
  BY DEF StreamTypeOK, Claimed, Claimable, Entry
<1>2. deliveries' \in [1..MaxEntries -> Nat]
  BY DeliverType DEF XAutoClaim
<1>3. pending' \subseteq 1..lastDelivered' /\ stale' \subseteq pending'
  BY DEF StreamTypeOK, XAutoClaim, Claimable
<1>. QED
  BY <1>1, <1>2, <1>3 DEF StreamTypeOK, XAutoClaim

LEMMA XAutoClaimKeeps ==
    ASSUME StreamTypeOK, EvictedKnown, NEW n, XAutoClaim(n)
    PROVE  /\ Grows /\ EvictedKnown' /\ StaysOwed({})
           /\ evicted' = evicted /\ Entry' = Entry
<1>1. Len(stream) \in Nat /\ trimmed \in 0..Len(stream) /\ pending \subseteq Entry
  BY DEF StreamTypeOK, Entry
<1>2. /\ Grows /\ Entry' = Entry /\ evicted' = evicted /\ trimmed' = trimmed
      /\ lastDelivered' = lastDelivered
      /\ pending' = {i \in pending : i > trimmed}
  BY DEF XAutoClaim, Grows, Entry
<1>3. EvictedKnown'
  BY <1>2 DEF EvictedKnown, Owed
<1>4. ASSUME NEW i \in Entry, Owed(i) PROVE Owed(i)' \/ i \in evicted'
  <2>1. CASE i \in 1..trimmed
    BY <1>2, <1>4, <2>1 DEF EvictedKnown
  <2>2. CASE i > trimmed
    BY <1>2, <1>4, <2>2 DEF Owed
  <2>. QED
    BY <1>1, <2>1, <2>2 DEF Entry
<1>. QED
  BY <1>2, <1>3, <1>4 DEF StaysOwed

(* XACK releases the entries it names and no other.                         *)
LEMMA XAckKeeps ==
    ASSUME StreamTypeOK, EvictedKnown, NEW S, XAck(S)
    PROVE  /\ Grows /\ EvictedKnown' /\ StaysOwed(S)
           /\ evicted' = evicted /\ Entry' = Entry
           /\ (faults' \in 0..MaxFaults => StreamTypeOK')
<1>1. Grows /\ Entry' = Entry /\ evicted' = evicted
  BY DEF XAck, Grows, Entry
<1>2. EvictedKnown'
  BY DEF XAck, EvictedKnown, Owed
<1>3. StaysOwed(S)
  BY DEF XAck, StaysOwed, Owed
<1>4. faults' \in 0..MaxFaults => StreamTypeOK'
  BY DEF XAck, StreamTypeOK
<1>. QED
  BY <1>1, <1>2, <1>3, <1>4

(* Steps that leave the stream alone, or only let time pass.                *)
LEMMA QuietKeeps ==
    ASSUME StreamTypeOK, EvictedKnown,
           UNCHANGED <<stream, lastDelivered, pending, trimmed, evicted>>
    PROVE  /\ Grows /\ EvictedKnown' /\ StaysOwed({})
           /\ evicted' = evicted /\ Entry' = Entry
BY DEF Grows, EvictedKnown, StaysOwed, Entry, Owed

LEMMA GoesStaleType ==
    ASSUME StreamTypeOK, NEW i, GoesStale(i)
    PROVE  StreamTypeOK'
BY DEF StreamTypeOK, GoesStale

LEMMA UnchangedType ==
    ASSUME StreamTypeOK, UNCHANGED streamVars, faults' \in 0..MaxFaults
    PROVE  StreamTypeOK'
BY DEF StreamTypeOK, streamVars

-----------------------------------------------------------------------------
(* The lemmas above, command by command.                                    *)

LEMMA XAddStep ==
    ASSUME StreamTypeOK, EvictedKnown, faults' \in 0..MaxFaults,
           NEW b \in Block, XAdd(b)
    PROVE  /\ Keeps({})
           /\ Entry' = Entry \cup {Len(stream')} /\ Len(stream') = Len(stream) + 1
           /\ stream'[Len(stream')] = b /\ Owed(Len(stream))'
BY XAddType, XAddKeeps DEF Keeps

LEMMA XReadGroupStep ==
    ASSUME StreamTypeOK, EvictedKnown, faults' \in 0..MaxFaults,
           NEW n \in Int, XReadGroup(n)
    PROVE  Keeps({}) /\ Entry' = Entry /\ NewEntries(n) \subseteq Entry
BY XReadGroupType, XReadGroupKeeps DEF Keeps

LEMMA XAutoClaimStep ==
    ASSUME StreamTypeOK, EvictedKnown, faults' \in 0..MaxFaults,
           NEW n, XAutoClaim(n)
    PROVE  Keeps({}) /\ Entry' = Entry /\ Claimed(n) \subseteq Entry
BY XAutoClaimType, XAutoClaimKeeps DEF Keeps

LEMMA XAckStep ==
    ASSUME StreamTypeOK, EvictedKnown, faults' \in 0..MaxFaults,
           NEW S, XAck(S)
    PROVE  Keeps(S) /\ Entry' = Entry
BY XAckKeeps DEF Keeps

LEMMA GoesStaleStep ==
    ASSUME StreamTypeOK, EvictedKnown, NEW i, GoesStale(i)
    PROVE  Keeps({}) /\ Entry' = Entry
BY GoesStaleType, QuietKeeps DEF Keeps, GoesStale

LEMMA UnchangedStep ==
    ASSUME StreamTypeOK, EvictedKnown, faults' \in 0..MaxFaults, UNCHANGED streamVars
    PROVE  Keeps({}) /\ Entry' = Entry
BY UnchangedType, QuietKeeps DEF Keeps, streamVars

(* The initial stream.                                                      *)
LEMMA StreamInitOK ==
    ASSUME StreamInit, faults = 0
    PROVE  StreamTypeOK /\ EvictedKnown /\ Entry = {}
BY FaultsAssumption, StreamAssumption DEF StreamInit, StreamTypeOK, EvictedKnown, Entry

(* Every set of entries is finite.                                          *)
LEMMA EntriesFinite ==
    ASSUME StreamTypeOK, NEW S \in SUBSET Entry
    PROVE  IsFiniteSet(S) /\ Cardinality(S) \in Nat
<1>1. IsFiniteSet(Entry)
  BY FS_Interval DEF StreamTypeOK, Entry
<1>2. IsFiniteSet(S)
  BY <1>1, FS_Subset
<1>. QED
  BY <1>2, FS_CardinalityType

(* Counting up to n gives n.                                                *)
LEMMA UpTo ==
    ASSUME NEW n \in Nat
    PROVE  IsFiniteSet(1..n) /\ Cardinality(1..n) = n
<1>1. 1 \in Int /\ n \in Int
  OBVIOUS
<1>2. /\ IsFiniteSet(1..n)
      /\ Cardinality(1..n) = IF 1 > n THEN 0 ELSE n - 1 + 1
  BY <1>1, FS_Interval, Zenon
<1>. QED
  BY <1>2

(* XREADGROUP COUNT n returns at most n entries.                            *)
LEMMA ReadBounds ==
    ASSUME StreamTypeOK, NEW n \in Nat
    PROVE  IsFiniteSet(NewEntries(n)) /\ Cardinality(NewEntries(n)) <= n
<1>1. Len(stream) \in Nat /\ trimmed \in 0..Len(stream) /\ lastDelivered \in 0..Len(stream)
  BY DEF StreamTypeOK
<1>2. Horizon \in Nat /\ ReadTo(n) \in Nat /\ ReadTo(n) <= Horizon + n
  BY <1>1 DEF Horizon, ReadTo
<1>. DEFINE a == Horizon + 1  b == ReadTo(n)
<1>3. a \in Int /\ b \in Int /\ b - a + 1 <= n
  BY <1>2
<1>. HIDE DEF a, b
<1>4. /\ IsFiniteSet(a..b)
      /\ Cardinality(a..b) = IF a > b THEN 0 ELSE b - a + 1
  BY <1>3, FS_Interval, Zenon
<1>5. Cardinality(a..b) <= n
  BY <1>3, <1>4
<1>. QED
  BY <1>4, <1>5 DEF NewEntries, a, b

(* XAUTOCLAIM COUNT n returns at most n entries: each of them has its own   *)
(* number of claimable ones before it, below n.                             *)
LEMMA ClaimBounds ==
    ASSUME StreamTypeOK, NEW n \in Nat
    PROVE  IsFiniteSet(Claimed(n)) /\ Cardinality(Claimed(n)) <= n
<1>. DEFINE Before(i) == {j \in Claimable : j < i}
            f == [i \in Claimed(n) |-> Cardinality(Before(i))]
<1>. HIDE DEF f
<1>1. /\ Claimable \in SUBSET Entry /\ Claimed(n) \subseteq Claimable
      /\ Claimable \subseteq Int /\ Claimed(n) \subseteq Int
  <2>1. Claimable \in SUBSET Entry
    <3>1. /\ Len(stream) \in Nat /\ lastDelivered \in 0..Len(stream)
          /\ stale \subseteq 1..lastDelivered
      BY DEF StreamTypeOK
    <3>2. stale \subseteq Entry
      BY <3>1 DEF Entry
    <3>. QED
      BY <3>2 DEF Claimable
  <2>2. Claimed(n) \subseteq Claimable
    BY Zenon DEF Claimed
  <2>3. Entry \subseteq Int
    BY DEF Entry
  <2>. QED
    BY <2>1, <2>2, <2>3
<1>2. IsFiniteSet(Claimed(n)) /\ \A i : IsFiniteSet(Before(i)) /\ Cardinality(Before(i)) \in Nat
  BY <1>1, EntriesFinite
<1>3. \A i \in Claimed(n) : Cardinality(Before(i)) < n
  BY DEF Claimed
<1>4. f \in [Claimed(n) -> 0..(n - 1)]
  BY <1>2, <1>3 DEF f
<1>5. ASSUME NEW i \in Claimed(n), NEW k \in Claimed(n), i < k
      PROVE  f[i] # f[k]
  <2>1. Before(i) \in SUBSET Before(k) /\ i \in Before(k) /\ i \notin Before(i)
    <3>1. i \in Claimable /\ k \in Claimable /\ i \in Int /\ k \in Int
      BY <1>1
    <3>2. \A j \in Claimable : j < i => j < k
      BY <1>1, <1>5, <3>1
    <3>3. ~ (i < i)
      BY <3>1
    <3>. QED
      BY <1>5, <3>1, <3>2, <3>3, Zenon
  <2>2. Cardinality(Before(i)) # Cardinality(Before(k))
    <3>. HIDE DEF Before
    <3>. QED
      BY <1>2, <2>1, FS_Subset
  <2>. QED
    BY <2>2 DEF f
<1>6. \A i, k \in Claimed(n) : f[i] = f[k] => i = k
  <2>1. \A i, k \in Claimed(n) : i # k => i < k \/ k < i
    BY <1>1
  <2>. QED
    BY <1>5, <2>1
<1>7. f \in Injection(Claimed(n), 0..(n - 1))
  BY <1>4, <1>6 DEF Injection, IsInjective
<1>. DEFINE m == n - 1
<1>8. /\ IsFiniteSet(0..m)
      /\ Cardinality(0..m) = IF 0 > m THEN 0 ELSE m - 0 + 1
  <2>1. 0 \in Int /\ m \in Int
    OBVIOUS
  <2>. HIDE DEF m
  <2>. QED
    BY <2>1, FS_Interval, Zenon
<1>9. Cardinality(0..m) = n
  BY <1>8
<1>10. Cardinality(Claimed(n)) <= Cardinality(0..m)
  BY <1>7, <1>8, FS_Injection
<1>. QED
  BY <1>2, <1>9, <1>10

(* Of positions in a list, one is the last.                                 *)
LEMMA LastPosition ==
    ASSUME NEW n \in Nat, NEW S \in SUBSET (1..n), S # {}
    PROVE  \E m \in S : \A k \in S : k <= m
<1>. DEFINE R == OpToRel(<, Nat)
            T == {n - k : k \in S}
<1>1. IsWellFoundedOn(R, Nat)
  BY NatLessThanWellFounded
<1>2. \A x, y \in Nat : <<x, y>> \in R <=> x < y
  BY DEF OpToRel
<1>3. T \subseteq Nat /\ T # {}
  <2>1. \A k \in S : k \in 1..n /\ n - k \in Nat
    OBVIOUS
  <2>2. PICK k \in S : TRUE
    OBVIOUS
  <2>. QED
    BY <2>1, <2>2
<1>. HIDE DEF R
<1>4. \E x \in T : \A y \in T : ~ (<<y, x>> \in R)
  <2>. HIDE DEF T
  <2>. QED
    BY <1>1, <1>3, WFMin
<1>5. PICK x \in T : \A y \in T : ~ (y < x)
  <2>. HIDE DEF T
  <2>. QED
    BY <1>2, <1>3, <1>4
<1>6. PICK m \in S : x = n - m
  OBVIOUS
<1>7. \A k \in S : ~ (n - k < n - m)
  BY <1>5, <1>6
<1>. QED
  BY <1>7

=============================================================================
