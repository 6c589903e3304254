----------------------------- MODULE MirrorProofs -----------------------------
(***************************************************************************)
(* Proofs about what the indexer makes of the chain: for any keys, trees   *)
(* and capacities, and any mix of transactions, no relation is missed and  *)
(* at most one document for a provider is none.  The programs' invariant   *)
(* GInv is used as it is: every step of Mirror is one of GraphProgram.     *)
(***************************************************************************)
EXTENDS Mirror, GraphProgramProofs

(* Of a sequence, the elements that are in T.                               *)
Hits(q, T) == {k \in DOMAIN q : q[k] \in T}

LEMMA HitsFinite ==
    ASSUME NEW S, NEW s \in Seq(S), NEW T
    PROVE  IsFiniteSet(Hits(s, T)) /\ Cardinality(Hits(s, T)) \in Nat
<1>. DEFINE n == Len(s)
<1>1. n \in Nat /\ Hits(s, T) \in SUBSET (1..n)
  BY DEF Hits
<1>. HIDE DEF n
<1>2. IsFiniteSet(1..n)
  BY <1>1, FS_Interval
<1>3. IsFiniteSet(Hits(s, T))
  BY <1>1, <1>2, FS_Subset
<1>. QED
  BY <1>3, FS_CardinalityType

LEMMA HitsAppended ==
    ASSUME NEW S, NEW s \in Seq(S), NEW e \in S, NEW T
    PROVE  /\ e \in T => Cardinality(Hits(Append(s, e), T)) = Cardinality(Hits(s, T)) + 1
           /\ e \notin T => Hits(Append(s, e), T) = Hits(s, T)
<1>. DEFINE n == Len(s)
            t == Append(s, e)
<1>1. /\ n \in Nat /\ DOMAIN s = 1..n /\ DOMAIN t = 1..(n + 1) /\ t[n + 1] = e
      /\ \A k \in 1..n : t[k] = s[k]
  OBVIOUS
<1>2. IsFiniteSet(Hits(s, T)) /\ Cardinality(Hits(s, T)) \in Nat
  BY HitsFinite
<1>. HIDE DEF n, t
<1>3. CASE e \in T
  <2>1. Hits(t, T) = Hits(s, T) \cup {n + 1} /\ n + 1 \notin Hits(s, T)
    BY <1>1, <1>3 DEF Hits
  <2>2. Cardinality(Hits(t, T)) = Cardinality(Hits(s, T)) + 1
    BY <1>2, <2>1, FS_AddElement
  <2>. QED
    BY <1>3, <2>2 DEF t
<1>4. CASE e \notin T
  <2>1. Hits(t, T) = Hits(s, T)
    BY <1>1, <1>4 DEF Hits
  <2>. QED
    BY <1>4, <2>1 DEF t
<1>. QED
  BY <1>3, <1>4

-----------------------------------------------------------------------------
(* Leaves of the graph's tree, and what a block shows, as such elements.    *)
OfPair(S, d) == {x \in S : x.from = d[1] /\ x.provider = d[2]}

LEMMA LeavesAsHits ==
    ASSUME NEW a, Leaves(a) \in Seq(Leaf), NEW d
    PROVE  LeavesBy(a, d) = Hits(Leaves(a), OfPair(Leaf, d))
<1>1. \A k \in DOMAIN Leaves(a) : Leaves(a)[k] \in Leaf
  OBVIOUS
<1>. QED
  BY <1>1 DEF LeavesBy, Hits, OfPair

LEMMA ShownAsHits ==
    ASSUME NEW t \in Seq(Inst), NEW d
    PROVE  FindAddInst(t, d) = Hits(t, OfPair(Inst, d))
<1>1. \A k \in DOMAIN t : t[k] \in Inst
  OBVIOUS
<1>. QED
  BY <1>1 DEF FindAddInst, Hits, OfPair

LEMMA CountNatural ==
    ASSUME NEW a \in Accounts, NEW d
    PROVE  Count(a, d) \in Nat
BY LeavesType, LeavesAsHits, HitsFinite DEF Count

LEMMA ShownNatural ==
    ASSUME NEW t \in Seq(Inst), NEW d
    PROVE  Cardinality(FindAddInst(t, d)) \in Nat
BY ShownAsHits, HitsFinite

LEMMA LeafCountAppended ==
    ASSUME NEW a \in Accounts, NEW b, NEW leaf \in Leaf, NEW d \in Pair,
           Leaves(b) = Append(Leaves(a), leaf)
    PROVE  Count(b, d) = Count(a, d)
              + (IF leaf.from = d[1] /\ leaf.provider = d[2] THEN 1 ELSE 0)
<1>1. Leaves(a) \in Seq(Leaf) /\ Leaves(b) \in Seq(Leaf)
  BY LeavesType
<1>. DEFINE T == OfPair(Leaf, d)
            s == Leaves(a)
<1>2. LeavesBy(a, d) = Hits(s, T) /\ LeavesBy(b, d) = Hits(Append(s, leaf), T)
  BY <1>1, LeavesAsHits
<1>3. leaf \in T <=> leaf.from = d[1] /\ leaf.provider = d[2]
  BY DEF OfPair
<1>. HIDE DEF s, T
<1>4. s \in Seq(Leaf) /\ Cardinality(Hits(s, T)) \in Nat
  BY <1>1, HitsFinite DEF s
<1>5. /\ leaf \in T => Cardinality(Hits(Append(s, leaf), T)) = Cardinality(Hits(s, T)) + 1
      /\ leaf \notin T => Hits(Append(s, leaf), T) = Hits(s, T)
  BY <1>4, HitsAppended
<1>6. CASE leaf \in T
  BY <1>2, <1>3, <1>5, <1>6 DEF Count
<1>7. CASE leaf \notin T
  BY <1>2, <1>3, <1>4, <1>5, <1>7 DEF Count
<1>. QED
  BY <1>6, <1>7

LEMMA ShownAppended ==
    ASSUME NEW t \in Seq(Inst), NEW e \in Inst, NEW d \in Pair
    PROVE  Cardinality(FindAddInst(Append(t, e), d)) = Cardinality(FindAddInst(t, d))
              + (IF e.from = d[1] /\ e.provider = d[2] THEN 1 ELSE 0)
<1>1. Append(t, e) \in Seq(Inst)
  OBVIOUS
<1>. DEFINE T == OfPair(Inst, d)
<1>2. FindAddInst(t, d) = Hits(t, T) /\ FindAddInst(Append(t, e), d) = Hits(Append(t, e), T)
  BY <1>1, ShownAsHits
<1>3. e \in T <=> e.from = d[1] /\ e.provider = d[2]
  BY DEF OfPair
<1>. HIDE DEF T
<1>4. Cardinality(Hits(t, T)) \in Nat
  BY HitsFinite
<1>5. /\ e \in T => Cardinality(Hits(Append(t, e), T)) = Cardinality(Hits(t, T)) + 1
      /\ e \notin T => Hits(Append(t, e), T) = Hits(t, T)
  BY HitsAppended
<1>6. CASE e \in T
  BY <1>2, <1>3, <1>5, <1>6
<1>7. CASE e \notin T
  BY <1>2, <1>3, <1>4, <1>5, <1>7
<1>. QED
  BY <1>6, <1>7

LEMMA CountsAreNatural ==
    ASSUME GInv, MTypeOK, NEW d \in Pair
    PROVE  /\ Count(acc, d) \in Nat /\ Count(saved, d) \in Nat
           /\ Cardinality(FindAddInst(trace, d)) \in Nat
           /\ docs[d] \in Nat /\ unseen[d] \in Nat
           /\ d[1] \in Account /\ d[2] \in Account
<1>1. acc \in Accounts /\ saved \in Accounts /\ trace \in Seq(Inst)
  BY DEF GInv, GTypeOK, MTypeOK
<1>. QED
  BY <1>1, CountNatural, ShownNatural DEF MTypeOK, Pair

LEMMA NothingShown ==
    ASSUME NEW d
    PROVE  Cardinality(FindAddInst(<<>>, d)) = 0
<1>1. FindAddInst(<<>>, d) = {}
  BY DEF FindAddInst
<1>. QED
  BY <1>1, FS_EmptySet

-----------------------------------------------------------------------------
(* Every step is one of the programs.                                       *)
LEMMA StepOfPrograms ==
    ASSUME [MNext]_mvars
    PROVE  [GNext]_gvars
BY DEF MNext, mvars, Begin, Execute, Commit, Abort, GNext, Instruction

(* What the running transaction may leave to TraceShows.                    *)
TraceGrows ==
    /\ UNCHANGED <<saved, signers, form, docs, unseen>> /\ signers # {}
    /\ trace' \in Seq(Inst)
    /\ \A d \in Pair :
          LET bonus(a) == IF a.owner[d[2]] = d[1] /\ saved.owner[d[2]] = Nobody
                          THEN 1 ELSE 0
              grown == Count(acc', d) - Count(acc, d)
              more == Cardinality(FindAddInst(trace', d)) - Cardinality(FindAddInst(trace, d))
          IN /\ Count(acc', d) >= Count(acc, d)
             /\ grown <= more
             /\ more <= grown + bonus(acc') - bonus(acc)

LEMMA TraceGrowsKeeps ==
    ASSUME GInv, MInv, GInv', TraceGrows
    PROVE  MInv'
<1>1. MTypeOK'
  BY DEF TraceGrows, MInv, MTypeOK, GInv
<1>2. NoRelationMissed' /\ NothingInvented'
  BY DEF TraceGrows, MInv, NoRelationMissed, NothingInvented, Count, LeavesBy
<1>3. ASSUME NEW d \in Pair
      PROVE  /\ Count(acc, d) \in Nat /\ Count(saved, d) \in Nat
             /\ Cardinality(FindAddInst(trace, d)) \in Nat
             /\ Count(acc', d) \in Nat /\ Cardinality(FindAddInst(trace', d)) \in Nat
  <2>1. acc' \in Accounts /\ trace' \in Seq(Inst)
    BY DEF GInv, GTypeOK, TraceGrows
  <2>. QED
    BY <2>1, CountNatural, ShownNatural, CountsAreNatural DEF MInv
<1>4. TraceShows'
  <2>. SUFFICES ASSUME NEW d \in Pair
                PROVE  LET added == Count(acc', d) - Count(saved', d)
                           shown == Cardinality(FindAddInst(trace', d))
                       IN /\ Count(saved', d) <= Count(acc', d)
                          /\ added <= shown
                          /\ shown <= added + (IF /\ acc'.owner[d[2]] = d[1]
                                                  /\ saved'.owner[d[2]] = Nobody
                                               THEN 1 ELSE 0)
    BY DEF TraceShows, TraceGrows, Count, LeavesBy, Leaves, FindAddInst
  <2>1. /\ Count(saved, d) <= Count(acc, d)
        /\ Count(acc, d) - Count(saved, d) <= Cardinality(FindAddInst(trace, d))
        /\ Cardinality(FindAddInst(trace, d)) <= Count(acc, d) - Count(saved, d) +
               (IF acc.owner[d[2]] = d[1] /\ saved.owner[d[2]] = Nobody THEN 1 ELSE 0)
    BY DEF MInv, TraceShows
  <2>2. saved' = saved
    BY DEF TraceGrows
  <2>3. /\ Count(acc', d) >= Count(acc, d)
        /\ Count(acc', d) - Count(acc, d) <=
             Cardinality(FindAddInst(trace', d)) - Cardinality(FindAddInst(trace, d))
        /\ Cardinality(FindAddInst(trace', d)) - Cardinality(FindAddInst(trace, d)) <=
             Count(acc', d) - Count(acc, d)
               + (IF acc'.owner[d[2]] = d[1] /\ saved.owner[d[2]] = Nobody THEN 1 ELSE 0)
               - (IF acc.owner[d[2]] = d[1] /\ saved.owner[d[2]] = Nobody THEN 1 ELSE 0)
    BY DEF TraceGrows
  <2>. QED
    BY <1>3, <2>1, <2>2, <2>3
<1>. QED
  BY <1>1, <1>2, <1>4 DEF MInv

(* A leaf is added, and the block shows it.                                 *)
LEMMA AddingShows ==
    ASSUME GInv, MInv, NEW p \in Account, NEW authority \in Account,
           NEW from \in Key, NEW by \in SUBSET Account, NEW inner \in BOOLEAN,
           AppendRelation(p, authority, from, by), ShowsLeaf(inner),
           UNCHANGED <<saved, signers, form, docs, unseen>>, signers # {}
    PROVE  TraceGrows
<1>. DEFINE leaf == [from |-> from, provider |-> p, by |-> by]
<1>1. acc \in Accounts /\ NoTree \notin Tree /\ trace \in Seq(Inst) /\ Key \subseteq Account
  BY WorkFacts DEF MInv, MTypeOK, Account
<1>2. leaf \in Leaf /\ leaf.provider = p /\ leaf.from = from
  BY DEF Leaf
<1>3. /\ acc' = AppendLeaf(acc, acc.tree, leaf) /\ acc.tree \in Tree
  BY <1>1 DEF AppendRelation, Accounts
<1>. HIDE DEF leaf
<1>4. /\ acc'.tree = acc.tree /\ acc'.owner = acc.owner
      /\ acc'.leaves = [acc.leaves EXCEPT ![acc.tree] = Append(@, leaf)]
  BY <1>1, <1>3 DEF AppendLeaf, Accounts
<1>5. Leaves(acc') = Append(Leaves(acc), leaf)
  BY <1>1, <1>3, <1>4 DEF Leaves, Accounts
<1>6. Last(Leaves(acc')) = leaf
  BY <1>1, <1>2, <1>5, LeavesType DEF Last
<1>. DEFINE e == [from |-> from, provider |-> p, inner |-> inner]
<1>7. trace' = Append(trace, e) /\ e \in Inst /\ e.from = from /\ e.provider = p
  BY <1>1, <1>2, <1>6 DEF ShowsLeaf, Shows, Inst
<1>. HIDE DEF e
<1>8. trace' \in Seq(Inst)
  BY <1>1, <1>7
<1>. SUFFICES ASSUME NEW d \in Pair
              PROVE  LET bonus(a) == IF a.owner[d[2]] = d[1] /\ saved.owner[d[2]] = Nobody
                                     THEN 1 ELSE 0
                         grown == Count(acc', d) - Count(acc, d)
                         more == Cardinality(FindAddInst(trace', d))
                                   - Cardinality(FindAddInst(trace, d))
                     IN /\ Count(acc', d) >= Count(acc, d)
                        /\ grown <= more
                        /\ more <= grown + bonus(acc') - bonus(acc)
  BY <1>8 DEF TraceGrows
<1>9. Count(acc', d) = Count(acc, d) + (IF from = d[1] /\ p = d[2] THEN 1 ELSE 0)
  BY <1>1, <1>2, <1>5, LeafCountAppended
<1>10. Cardinality(FindAddInst(trace', d)) = Cardinality(FindAddInst(trace, d))
             + (IF from = d[1] /\ p = d[2] THEN 1 ELSE 0)
  BY <1>1, <1>7, ShownAppended
<1>11. Count(acc, d) \in Nat /\ Cardinality(FindAddInst(trace, d)) \in Nat
  BY CountsAreNatural DEF MInv
<1>. QED
  BY <1>4, <1>9, <1>10, <1>11

(* The leaves stay as they are.                                             *)
LEMMA SameLeavesSameCount ==
    ASSUME NEW a, NEW b, Leaves(b) = Leaves(a), NEW d
    PROVE  Count(b, d) = Count(a, d)
BY DEF Count, LeavesBy

LEMMA OthersShowNothing ==
    ASSUME GInv, MInv, GInv', UNCHANGED <<saved, signers, form, docs, unseen>>,
           signers # {}, Leaves(acc') = Leaves(acc), trace' = trace,
           Extends(acc', acc)
    PROVE  TraceGrows
<1>1. trace' \in Seq(Inst)
  BY DEF MInv, MTypeOK
<1>2. ASSUME NEW d \in Pair
      PROVE  /\ Count(acc', d) = Count(acc, d) /\ Count(acc, d) \in Nat
             /\ Cardinality(FindAddInst(trace, d)) \in Nat
             /\ acc.owner[d[2]] = d[1] => acc'.owner[d[2]] = d[1]
  <2>1. Nobody \notin Account /\ d[1] \in Account /\ d[2] \in Account
    BY WorkFacts DEF Pair
  <2>. QED
    BY <2>1, CountsAreNatural, SameLeavesSameCount DEF MInv, Extends
<1>. QED
  BY <1>1, <1>2 DEF TraceGrows

(* A provider is initialized, and the block may show that as a relation.    *)
LEMMA ProviderShows ==
    ASSUME GInv, MInv, GInv', UNCHANGED <<saved, signers, form, docs, unseen>>,
           InitializeProvider, ShowsProvider, Extends(acc', acc)
    PROVE  TraceGrows
<1>1. /\ acc \in Accounts /\ acc' \in Accounts /\ trace \in Seq(Inst)
      /\ Extends(acc, saved) /\ Nobody \notin Account
  <2>1. acc' \in Accounts
    BY DEF GInv, GTypeOK
  <2>. QED
    BY <2>1, WorkFacts DEF MInv, MTypeOK
<1>2. signers # {} /\ signers \subseteq Account
  BY WorkFacts DEF InitializeProvider, Running
<1>3. Leaves(acc') = Leaves(acc)
  <2>1. PICK p \in signers, authority \in Account : acc' = Provider(acc, p, authority)
    BY DEF InitializeProvider
  <2>. QED
    BY <1>1, <2>1 DEF Provider, Accounts, Leaves
<1>4. PICK p \in Account : /\ acc.owner[p] = Nobody /\ acc'.owner[p] # Nobody
                           /\ Shows(acc'.owner[p], p, FALSE)
  BY DEF ShowsProvider
<1>. DEFINE e == [from |-> acc'.owner[p], provider |-> p, inner |-> FALSE]
<1>5. acc'.owner[p] \in Account
  BY <1>1, <1>4 DEF Accounts
<1>6. trace' = Append(trace, e) /\ e \in Inst /\ e.from = acc'.owner[p] /\ e.provider = p
  BY <1>4, <1>5 DEF Shows, Inst
<1>. HIDE DEF e
<1>7. trace' \in Seq(Inst)
  BY <1>1, <1>6
<1>8. saved.owner[p] = Nobody
  BY <1>1, <1>4 DEF Extends
<1>. SUFFICES ASSUME NEW d \in Pair
              PROVE  LET bonus(a) == IF a.owner[d[2]] = d[1] /\ saved.owner[d[2]] = Nobody
                                     THEN 1 ELSE 0
                         grown == Count(acc', d) - Count(acc, d)
                         more == Cardinality(FindAddInst(trace', d))
                                   - Cardinality(FindAddInst(trace, d))
                     IN /\ Count(acc', d) >= Count(acc, d)
                        /\ grown <= more
                        /\ more <= grown + bonus(acc') - bonus(acc)
  BY <1>2, <1>7 DEF TraceGrows
<1>9. /\ Count(acc', d) = Count(acc, d) /\ Count(acc, d) \in Nat
      /\ Cardinality(FindAddInst(trace, d)) \in Nat
      /\ d[1] \in Account /\ d[2] \in Account
  BY <1>3, CountsAreNatural, SameLeavesSameCount DEF MInv
<1>10. Cardinality(FindAddInst(trace', d)) = Cardinality(FindAddInst(trace, d))
             + (IF acc'.owner[p] = d[1] /\ p = d[2] THEN 1 ELSE 0)
  BY <1>1, <1>6, ShownAppended
<1>11. acc.owner[d[2]] = d[1] => acc'.owner[d[2]] = d[1]
  BY <1>1, <1>9 DEF Extends
<1>12. p = d[2] => acc.owner[d[2]] # d[1]
  BY <1>1, <1>4, <1>9
<1>. QED
  BY <1>8, <1>9, <1>10, <1>11, <1>12

-----------------------------------------------------------------------------
LEMMA ExecuteGrows ==
    ASSUME GInv, MInv, GInv', Execute
    PROVE  TraceGrows
<1>1. /\ acc \in Accounts /\ Sound(acc) /\ NoTree \notin Tree /\ Controller \notin Account
      /\ signers \subseteq Account /\ signers \subseteq Key /\ Nobody # Controller
      /\ UsersigPda \in Account /\ acc.tree \in Tree \cup {NoTree}
  BY WorkFacts DEF Account, Accounts
<1>2. Instruction /\ UNCHANGED <<saved, signers, form, docs, unseen>>
  BY DEF Execute, Instruction, AddRelation, SignRelation, InitializeProvider,
     InitializeTree, CountRelation, UsersigInitialize, ForeignTree, ForeignLeaf,
     ForeignTransfer, ForeignClose
<1>3. signers # {}
  BY <1>2 DEF Instruction, Running, InitializeTree, InitializeProvider, AddRelation,
     CountRelation, UsersigInitialize, SignRelation, ForeignTree, ForeignLeaf,
     ForeignTransfer, ForeignClose, GInv
<1>4. Extends(acc', acc)
  BY <1>2, InstructionKeeps DEF Keeps
<1>5. CASE AddRelation /\ ShowsLeaf(FALSE)
  <2>1. PICK p \in Account, from \in Key, authority \in signers :
           AppendRelation(p, authority, from, signers)
    BY <1>5 DEF AddRelation
  <2>. QED
    BY <1>1, <1>2, <1>3, <1>5, <2>1, AddingShows
<1>6. CASE SignRelation /\ ShowsLeaf(TRUE)
  <2>1. PICK from \in signers :
           AppendRelation(UsersigPda, UsersigPda, from, signers \cup {UsersigPda})
    BY <1>6 DEF SignRelation
  <2>. QED
    BY <1>1, <1>2, <1>3, <1>6, <2>1, AddingShows
<1>7. CASE InitializeProvider /\ ShowsProvider
  BY <1>2, <1>4, <1>7, ProviderShows
<1>8. CASE InitializeProvider /\ UNCHANGED trace
  <2>1. PICK p \in signers, authority \in Account : acc' = Provider(acc, p, authority)
    BY <1>8 DEF InitializeProvider
  <2>2. Leaves(acc') = Leaves(acc)
    BY <1>1, <2>1 DEF Provider, Accounts, Leaves
  <2>. QED
    BY <1>2, <1>3, <1>4, <1>8, <2>2, OthersShowNothing
<1>9. CASE InitializeTree /\ UNCHANGED trace
  <2>1. PICK t \in Tree :
           /\ acc.tree = NoTree /\ acc.treeAuth[t] = Nobody
           /\ acc' = [InitEmptyTree(acc, t, Controller) EXCEPT !.tree = t]
    BY <1>9 DEF InitializeTree
  <2>2. acc.leaves[t] = <<>>
    BY <1>1, <2>1 DEF Sound
  <2>3. Leaves(acc') = Leaves(acc)
    BY <1>1, <2>1, <2>2 DEF InitEmptyTree, Accounts, Leaves
  <2>. QED
    BY <1>2, <1>3, <1>4, <1>9, <2>3, OthersShowNothing
<1>10. CASE CountRelation /\ UNCHANGED trace
  <2>1. Leaves(acc') = Leaves(acc)
    BY <1>1, <1>10 DEF CountRelation, Accounts, Leaves
  <2>. QED
    BY <1>2, <1>3, <1>4, <1>10, <2>1, OthersShowNothing
<1>11. CASE UsersigInitialize /\ UNCHANGED trace
  <2>1. Leaves(acc') = Leaves(acc)
    BY <1>1, <1>11 DEF UsersigInitialize, Provider, Accounts, Leaves
  <2>. QED
    BY <1>2, <1>3, <1>4, <1>11, <2>1, OthersShowNothing
<1>12. CASE /\ ForeignTree \/ ForeignLeaf \/ ForeignTransfer \/ ForeignClose
            /\ UNCHANGED trace
  <2>1. Leaves(acc') = Leaves(acc)
    BY <1>12, ForeignElsewhere, ElsewhereKeeps
  <2>. QED
    BY <1>2, <1>3, <1>4, <1>12, <2>1, OthersShowNothing
<1>. QED
  BY <1>5, <1>6, <1>7, <1>8, <1>9, <1>10, <1>11, <1>12 DEF Execute

(* A transaction is in a block, and the indexer takes it or not.            *)
LEMMA CommitMirrored ==
    ASSUME GInv, MInv, GInv', Commit
    PROVE  MInv'
<1>1. /\ saved' = acc /\ acc' = acc /\ signers' = {} /\ trace' = <<>> /\ form' = "legacy"
      /\ form \in Form /\ docs \in [Pair -> Nat] /\ unseen \in [Pair -> Nat]
      /\ Extends(acc, saved) /\ Nobody \notin Account
  BY WorkFacts DEF Commit, CommitTransaction, MInv, MTypeOK
<1>2. ASSUME NEW d \in Pair
      PROVE  /\ Count(acc, d) \in Nat /\ Count(saved, d) \in Nat
             /\ Cardinality(FindAddInst(trace, d)) \in Nat
             /\ docs[d] \in Nat /\ unseen[d] \in Nat
             /\ Count(saved, d) <= Count(acc, d)
             /\ Count(acc, d) - Count(saved, d) <= Cardinality(FindAddInst(trace, d))
             /\ Cardinality(FindAddInst(trace, d)) <= Count(acc, d) - Count(saved, d) +
                  (IF acc.owner[d[2]] = d[1] /\ saved.owner[d[2]] = Nobody THEN 1 ELSE 0)
             /\ Count(saved, d) <= docs[d] + unseen[d]
             /\ docs[d] + unseen[d] <= Count(saved, d) +
                  (IF saved.owner[d[2]] = d[1] THEN 1 ELSE 0)
             /\ saved.owner[d[2]] = d[1] => acc.owner[d[2]] = d[1]
  <2>1. d[1] \in Account /\ d[2] \in Account
    BY DEF Pair
  <2>2. saved.owner[d[2]] = d[1] => acc.owner[d[2]] = d[1]
    BY <1>1, <2>1 DEF Extends
  <2>. QED
    BY <2>2, CountsAreNatural DEF MInv, TraceShows, NoRelationMissed, NothingInvented
<1>3. Nobody \notin Account /\ \A d \in Pair : d[1] # Nobody
  BY <1>1 DEF Pair
<1>4. ASSUME NEW d \in Pair
      PROVE  /\ docs'[d] \in Nat /\ unseen'[d] \in Nat
             /\ Count(acc, d) <= docs'[d] + unseen'[d]
             /\ docs'[d] + unseen'[d] <= Count(acc, d) +
                  (IF acc.owner[d[2]] = d[1] THEN 1 ELSE 0)
  <2>1. CASE form = "legacy"
    <3>1. /\ docs'[d] = docs[d] + Cardinality(FindAddInst(trace, d))
          /\ unseen'[d] = unseen[d]
      BY <2>1 DEF Commit, Process, Included
    <3>. QED
      BY <1>2, <1>3, <3>1
  <2>2. CASE form # "legacy"
    <3>1. /\ docs'[d] = docs[d]
          /\ unseen'[d] = unseen[d] + Count(acc, d) - Count(saved, d)
      BY <2>2 DEF Commit, Process, Included, Count
    <3>. QED
      BY <1>2, <3>1
  <2>. QED
    BY <2>1, <2>2
<1>5. docs' \in [Pair -> Nat] /\ unseen' \in [Pair -> Nat]
  <2>1. docs' = [d \in Pair |-> docs'[d]]
    BY <1>1 DEF Commit, Process
  <2>2. unseen' = [d \in Pair |-> unseen'[d]]
    BY <1>1 DEF Commit
  <2>. QED
    BY <1>4, <2>1, <2>2
<1>6. MTypeOK'
  BY <1>1, <1>5 DEF MTypeOK, GInv, Form
<1>7. \A d \in Pair : Count(saved, d)' = Count(acc, d) /\ Count(acc, d)' = Count(acc, d)
  BY <1>1 DEF Count, LeavesBy, Leaves
<1>8. NoRelationMissed' /\ NothingInvented'
  BY <1>1, <1>4, <1>7 DEF NoRelationMissed, NothingInvented
<1>9. TraceShows'
  <2>1. \A d \in Pair : Cardinality(FindAddInst(trace, d))' = 0
    BY <1>1, NothingShown
  <2>. QED
    BY <1>1, <1>2, <1>7, <2>1 DEF TraceShows
<1>. QED
  BY <1>6, <1>8, <1>9 DEF MInv

(* A transaction fails: it is in the block, its leaves are not in the tree. *)
LEMMA AbortMirrored ==
    ASSUME GInv, MInv, GInv', Abort
    PROVE  MInv'
<1>1. /\ saved' = saved /\ acc' = saved /\ signers' = {} /\ trace' = <<>> /\ form' = "legacy"
      /\ docs' = docs /\ unseen' = unseen
  BY DEF Abort, AbortTransaction, Process, Included
<1>2. MTypeOK'
  BY <1>1 DEF MInv, MTypeOK, GInv, Form
<1>3. \A d \in Pair : /\ Count(saved, d)' = Count(saved, d) /\ Count(saved, d) \in Nat
                      /\ Count(acc, d)' = Count(saved, d)
                      /\ Cardinality(FindAddInst(trace, d))' = 0
  BY <1>1, NothingShown, CountsAreNatural DEF MInv, Count, LeavesBy, Leaves
<1>4. NoRelationMissed' /\ NothingInvented'
  BY <1>1, <1>3 DEF MInv, NoRelationMissed, NothingInvented
<1>5. TraceShows'
  BY <1>1, <1>3 DEF TraceShows
<1>. QED
  BY <1>2, <1>4, <1>5 DEF MInv

LEMMA MNextInv == GInv /\ MInv /\ [MNext]_mvars => GInv' /\ MInv'
<1>. SUFFICES ASSUME GInv, MInv, [MNext]_mvars PROVE GInv' /\ MInv'
  OBVIOUS
<1>1. GInv'
  BY StepOfPrograms, GNextInv
<1>2. CASE Begin \/ UNCHANGED mvars
  <2>1. /\ UNCHANGED <<acc, saved, trace, docs, unseen>>
        /\ form' \in Form /\ (signers = {} \/ UNCHANGED signers)
    BY <1>2 DEF Begin, BeginTransaction, mvars, gvars, MInv, MTypeOK
  <2>2. \A d \in Pair : /\ Count(saved, d)' = Count(saved, d)
                        /\ Count(acc, d)' = Count(acc, d)
                        /\ FindAddInst(trace, d)' = FindAddInst(trace, d)
    BY <2>1 DEF Count, LeavesBy, Leaves, FindAddInst
  <2>3. MTypeOK'
    BY <1>1, <2>1 DEF MInv, MTypeOK, GInv
  <2>4. TraceShows'
    BY <2>1, <2>2 DEF MInv, TraceShows
  <2>5. NoRelationMissed' /\ NothingInvented'
    BY <2>1, <2>2 DEF MInv, NoRelationMissed, NothingInvented
  <2>. QED
    BY <1>1, <2>3, <2>4, <2>5 DEF MInv
<1>3. CASE Execute
  BY <1>1, <1>3, ExecuteGrows, TraceGrowsKeeps
<1>4. CASE Commit
  BY <1>1, <1>4, CommitMirrored
<1>5. CASE Abort
  BY <1>1, <1>5, AbortMirrored
<1>. QED
  BY <1>2, <1>3, <1>4, <1>5 DEF MNext

LEMMA MInitInv == MInit => GInv /\ MInv
<1>. SUFFICES ASSUME MInit PROVE GInv /\ MInv
  OBVIOUS
<1>1. GInv /\ acc = saved /\ saved.tree = NoTree
  BY GInitInv DEF MInit, GInit, Genesis
<1>2. \A d \in Pair : Count(saved, d) = 0 /\ Count(acc, d) = 0
  <2>1. \A d \in Pair : LeavesBy(saved, d) = {}
    BY <1>1 DEF LeavesBy, Leaves
  <2>. QED
    BY <1>1, <2>1, FS_EmptySet DEF Count
<1>3. \A d \in Pair : Cardinality(FindAddInst(trace, d)) = 0
  BY NothingShown DEF MInit
<1>4. MTypeOK
  BY <1>1 DEF MInit, MTypeOK, GInv, Form
<1>5. NoRelationMissed /\ NothingInvented /\ TraceShows
  BY <1>2, <1>3 DEF MInit, NoRelationMissed, NothingInvented, TraceShows
<1>. QED
  BY <1>1, <1>4, <1>5 DEF MInv

-----------------------------------------------------------------------------
(* The inductive invariant of chain and index (processor.go:215-286,        *)
(* cli.go:372-429), together with that of the programs.                     *)
THEOREM MirrorInvariantHolds == MSpec => [](GInv /\ MInv)
BY MInitInv, MNextInv, PTL DEF MSpec

(* Types of the index: no document is ever counted away, whatever trees are *)
(* compared (processor.go:215-286, cli.go:372-429).                         *)
THEOREM IndexTypesHold == MSpec => []MTypeOK
<1>1. MInv => MTypeOK
  BY DEF MInv
<1>. QED
  BY <1>1, MirrorInvariantHolds, PTL

(* Chain and index together implement the programs alone: that somebody     *)
(* reads the blocks takes nothing from what is promised of the chain        *)
(* (graph/src/lib.rs:21-106), in particular that it is a registry.          *)
THEOREM MirrorRunsPrograms == MSpec => GSpec
<1>1. MInit => GInit
  BY DEF MInit
<1>2. [MNext]_mvars => [GNext]_gvars
  BY StepOfPrograms
<1>. QED
  BY <1>1, <1>2, PTL DEF MSpec, GSpec

THEOREM MirroredRegistry == MSpec => KeepsRegistry
BY MirrorRunsPrograms, ProgramsKeepRegistry

(* Every relation of a transaction the indexer takes has its document       *)
(* (findAddInst, processor.go:255-286).                                     *)
THEOREM IndexIsComplete == MSpec => []NoRelationMissed
<1>1. MInv => NoRelationMissed
  BY DEF MInv
<1>. QED
  BY <1>1, MirrorInvariantHolds, PTL

(* And at most one document of a provider is not a relation, whatever       *)
(* failed and was rolled back (processor.go:269, cli.go:401).               *)
THEOREM IndexInventsAtMostOne == MSpec => []NothingInvented
<1>1. MInv => NothingInvented
  BY DEF MInv
<1>. QED
  BY <1>1, MirrorInvariantHolds, PTL

(* So of anybody but a provider's own authority the index holds exactly the *)
(* relations there are, those of transactions it does not take aside        *)
(* (processor.go:215-286, cli.go:372-429).                                  *)
Exact(d) == docs[d] + unseen[d] = Count(saved, d)

LEMMA BoundsMeet ==
    ASSUME GInv, MInv, NEW d \in Pair, saved.owner[d[2]] # d[1]
    PROVE  Exact(d)
<1>1. Count(saved, d) \in Nat /\ docs[d] \in Nat /\ unseen[d] \in Nat
  BY CountsAreNatural DEF MInv
<1>2. Count(saved, d) <= docs[d] + unseen[d] /\ docs[d] + unseen[d] <= Count(saved, d) + 0
  BY DEF MInv, NoRelationMissed, NothingInvented
<1>. QED
  BY <1>1, <1>2 DEF Exact

THEOREM OthersAreMirroredExactly ==
    MSpec => [](\A d \in Pair : saved.owner[d[2]] # d[1] => Exact(d))
<1>1. GInv /\ MInv => \A d \in Pair : saved.owner[d[2]] # d[1] => Exact(d)
  BY BoundsMeet
<1>. QED
  BY <1>1, MirrorInvariantHolds, PTL

(* From the user's signature to the index: a document says of a user that   *)
(* she follows somebody through usersig only if she has signed that         *)
(* relation (usersig/src/lib.rs:38-62, graph/src/lib.rs:74-106,             *)
(* processor.go:255-286), and each one she has signed is counted.           *)
FollowsBySignature(user) ==
    LET d == <<user, UsersigPda>>
    IN  /\ Exact(d)
        /\ docs[d] > 0 => \E i \in LeavesBy(saved, d) : user \in Leaves(saved)[i].by

THEOREM UsersAreMirrored == MSpec => [](\A user \in Key : FollowsBySignature(user))
<1>1. GInv /\ MInv => \A user \in Key : FollowsBySignature(user)
  <2>. SUFFICES ASSUME GInv, MInv, NEW user \in Key PROVE FollowsBySignature(user)
    OBVIOUS
  <2>. DEFINE d == <<user, UsersigPda>>
  <2>1. d \in Pair /\ d[1] = user /\ d[2] = UsersigPda
    BY DEF Pair, Account
  <2>2. saved.owner[d[2]] # d[1]
    BY <2>1, GraphAssumption DEF GInv, Sound, Account
  <2>. HIDE DEF d
  <2>3. Exact(d)
    BY <2>1, <2>2, BoundsMeet
  <2>4. ASSUME docs[d] > 0
        PROVE  \E i \in LeavesBy(saved, d) : user \in Leaves(saved)[i].by
    <3>1. Count(saved, d) # 0
      BY <2>1, <2>3, <2>4, CountsAreNatural DEF Exact, MInv
    <3>2. LeavesBy(saved, d) # {}
      BY <3>1, FS_EmptySet DEF Count
    <3>3. PICK i \in LeavesBy(saved, d) : TRUE
      BY <3>2
    <3>4. user \in Leaves(saved)[i].by
      BY <2>1, <3>3 DEF LeavesBy, GInv, Sound, SignedByUser
    <3>. QED
      BY <3>4
  <2>. QED
    BY <2>3, <2>4 DEF FollowsBySignature, d
<1>. QED
  BY <1>1, MirrorInvariantHolds, PTL

=============================================================================
