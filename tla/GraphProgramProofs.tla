------------------------- MODULE GraphProgramProofs -------------------------
(***************************************************************************)
(* Proofs about the programs on the chain: counters and leaves agree, and  *)
(* whose signature is behind a leaf, for any keys, trees and capacities.   *)
(***************************************************************************)
EXTENDS GraphProgram, FiniteSetTheorems, TLAPS

(* Sequences are equal if they are so element by element.                   *)
LEMMA SeqEqual ==
    ASSUME NEW S, NEW s \in Seq(S), NEW t \in Seq(S), Len(s) = Len(t),
           \A i \in 1..Len(s) : s[i] = t[i]
    PROVE  s = t
OBVIOUS

(* A prefix, by its elements.                                               *)
LEMMA PrefixDef ==
    ASSUME NEW S, NEW s \in Seq(S), NEW t \in Seq(S)
    PROVE  IsPrefix(s, t) <=> Len(s) <= Len(t) /\ \A i \in 1..Len(s) : s[i] = t[i]
<1>1. Len(s) \in Nat /\ Len(t) \in Nat
  OBVIOUS
<1>2. CASE Len(s) <= Len(t)
  <2>1. SubSeq(s, 1, Len(s)) \in Seq(S) /\ SubSeq(t, 1, Len(s)) \in Seq(S)
    BY <1>1, <1>2
  <2>2. Len(SubSeq(s, 1, Len(s))) = Len(s) /\ Len(SubSeq(t, 1, Len(s))) = Len(s)
    BY <1>1, <1>2
  <2>3. \A i \in 1..Len(s) :
          SubSeq(s, 1, Len(s))[i] = s[i] /\ SubSeq(t, 1, Len(s))[i] = t[i]
    BY <1>1, <1>2
  <2>. DEFINE s1 == SubSeq(s, 1, Len(s))  t1 == SubSeq(t, 1, Len(s))
  <2>. HIDE DEF s1, t1
  <2>4. /\ s1 \in Seq(S) /\ t1 \in Seq(S) /\ Len(s1) = Len(s) /\ Len(t1) = Len(s)
        /\ \A i \in 1..Len(s) : s1[i] = s[i] /\ t1[i] = t[i]
    BY <2>1, <2>2, <2>3 DEF s1, t1
  <2>5. s1 = t1 <=> \A i \in 1..Len(s) : s1[i] = t1[i]
    BY <2>4, SeqEqual
  <2>6. IsPrefix(s, t) <=> s1 = t1
    BY <1>2 DEF IsPrefix, s1, t1
  <2>. QED
    BY <1>2, <2>4, <2>5, <2>6
<1>3. CASE ~(Len(s) <= Len(t))
  BY <1>3 DEF IsPrefix
<1>. QED
  BY <1>2, <1>3

LEMMA LeavesType ==
    ASSUME NEW a \in Accounts
    PROVE  Leaves(a) \in Seq(Leaf)
BY DEF Accounts, Leaves

LEMMA LeavesOfFinite ==
    ASSUME NEW a \in Accounts, NEW p
    PROVE  IsFiniteSet(LeavesOf(a, p)) /\ Cardinality(LeavesOf(a, p)) \in Nat
<1>. DEFINE n == Len(Leaves(a))
<1>1. LeavesOf(a, p) \subseteq 1..n /\ n \in Nat
  BY LeavesType DEF LeavesOf
<1>. HIDE DEF n
<1>2. IsFiniteSet(1..n)
  BY <1>1, FS_Interval
<1>3. IsFiniteSet(LeavesOf(a, p))
  BY <1>1, <1>2, FS_Subset
<1>. QED
  BY <1>3, FS_CardinalityType

LEMMA ExtendsRefl ==
    ASSUME NEW a \in Accounts
    PROVE  Extends(a, a)
<1>1. IsPrefix(Leaves(a), Leaves(a))
  BY LeavesType, PrefixDef
<1>. QED
  BY <1>1 DEF Extends

LEMMA ExtendsTrans ==
    ASSUME NEW a \in Accounts, NEW b \in Accounts, NEW c \in Accounts,
           Extends(b, a), Extends(c, b)
    PROVE  Extends(c, a)
<1>. DEFINE s == Leaves(a)  t == Leaves(b)  u == Leaves(c)
<1>1. s \in Seq(Leaf) /\ t \in Seq(Leaf) /\ u \in Seq(Leaf)
  BY LeavesType
<1>2. IsPrefix(s, t) /\ IsPrefix(t, u)
  BY DEF Extends
<1>. HIDE DEF s, t, u
<1>3. /\ Len(s) <= Len(t) /\ \A i \in 1..Len(s) : s[i] = t[i]
      /\ Len(t) <= Len(u) /\ \A i \in 1..Len(t) : t[i] = u[i]
  BY <1>1, <1>2, PrefixDef
<1>4. Len(s) <= Len(u) /\ \A i \in 1..Len(s) : s[i] = u[i]
  BY <1>1, <1>3
<1>5. IsPrefix(s, u)
  BY <1>1, <1>4, PrefixDef
<1>6. IsPrefix(Leaves(a), Leaves(c))
  BY <1>5 DEF s, u
<1>. QED
  BY <1>6 DEF Extends, Accounts

-----------------------------------------------------------------------------
(* What an instruction makes of the accounts a it finds is b, with one leaf *)
(* of the provider c not yet counted.                                       *)
Keeps(b, c) ==
    /\ b \in Accounts /\ Sound(b) /\ Counted(b, c) /\ Extends(b, acc)

(* The facts about the running transaction that instructions rely on.       *)
LEMMA WorkFacts ==
    ASSUME GInv
    PROVE  /\ acc \in Accounts /\ saved \in Accounts /\ signers \subseteq Key
           /\ Sound(acc) /\ Counted(acc, counting) /\ Extends(acc, saved)
           /\ signers \subseteq Account /\ NoTree \notin Tree
           /\ Controller \notin Account /\ Nobody \notin Account
           /\ Nobody # Controller
BY GraphAssumption DEF GInv, GTypeOK, Account

(* Nobody's leaves are in the tree: a provider without authority has none.  *)
LEMMA UnownedHasNoLeaf ==
    ASSUME NEW a \in Accounts, SignedByProvider(a), NEW p \in Account,
           a.owner[p] = Nobody
    PROVE  LeavesOf(a, p) = {}
<1>1. \A i \in DOMAIN Leaves(a) :  Leaves(a)[i].by \subseteq Account
  <2>1. \A i \in DOMAIN Leaves(a) : Leaves(a)[i] \in Leaf
    BY LeavesType
  <2>. QED
    BY <2>1 DEF Leaf
<1>2. Nobody \notin Account
  BY GraphAssumption
<1>. QED
  BY <1>1, <1>2 DEF SignedByProvider, LeavesOf

LEMMA NewProvider ==
    ASSUME GInv, counting = Nobody, NEW p \in Account, NEW authority \in Account,
           acc.owner[p] = Nobody, p = UsersigPda => authority = UsersigPda
    PROVE  Keeps(Provider(acc, p, authority), Nobody)
<1>. DEFINE b == Provider(acc, p, authority)
<1>1. acc \in Accounts /\ Sound(acc) /\ Counted(acc, Nobody)
  BY WorkFacts
<1>2. b \in Accounts
  <2>1. [acc.owner EXCEPT ![p] = authority] \in [Account -> Account \cup {Nobody}]
    BY <1>1 DEF Accounts
  <2>2. 0 \in 0..MaxCount
    BY GraphAssumption
  <2>3. [acc.count EXCEPT ![p] = 0] \in [Account -> 0..MaxCount]
    BY <1>1, <2>2 DEF Accounts
  <2>. QED
    BY <1>1, <2>1, <2>3 DEF Accounts, Provider
<1>3. /\ b.tree = acc.tree /\ b.leaves = acc.leaves /\ b.treeAuth = acc.treeAuth
      /\ b.owner = [acc.owner EXCEPT ![p] = authority]
      /\ b.count = [acc.count EXCEPT ![p] = 0]
  BY <1>1 DEF Accounts, Provider
<1>. HIDE DEF b
<1>4. Leaves(b) = Leaves(acc) /\ \A q \in Account : LeavesOf(b, q) = LeavesOf(acc, q)
  BY <1>3 DEF Leaves, LeavesOf
<1>5. \A q \in Account : q # p => b.owner[q] = acc.owner[q] /\ b.count[q] = acc.count[q]
  BY <1>1, <1>3 DEF Accounts
<1>6. b.owner[p] = authority /\ b.count[p] = 0
  BY <1>1, <1>3 DEF Accounts
<1>7. LeavesOf(acc, p) = {}
  BY <1>1, UnownedHasNoLeaf DEF Sound
<1>8. Counted(b, Nobody)
  BY <1>1, <1>4, <1>5, <1>6, <1>7, FS_EmptySet, GraphAssumption DEF Counted
<1>9. \A i \in DOMAIN Leaves(acc) :
         Leaves(acc)[i].provider \in Account /\ Leaves(acc)[i].provider # p
  <2>1. \A i \in DOMAIN Leaves(acc) : Leaves(acc)[i] \in Leaf
    BY <1>1, LeavesType
  <2>. QED
    BY <1>7, <2>1 DEF Leaf, LeavesOf
<1>10. SignedByProvider(b) /\ SignedByUser(b)
  BY <1>1, <1>4, <1>5, <1>9 DEF Sound, SignedByProvider, SignedByUser
<1>11. b.owner[UsersigPda] \in {Nobody, UsersigPda}
  BY <1>1, <1>5, <1>6 DEF Sound, Account
<1>12. Sound(b)
  BY <1>1, <1>3, <1>10, <1>11 DEF Sound
<1>13. Extends(b, acc)
  BY <1>1, <1>3, <1>4, <1>5, ExtendsRefl DEF Extends
<1>. QED
  BY <1>2, <1>8, <1>12, <1>13 DEF Keeps, b

(* A tree that is not the graph's changes: t.                               *)
Elsewhere(t) ==
    /\ t # acc.tree /\ acc' \in Accounts
    /\ acc'.owner = acc.owner /\ acc'.count = acc.count /\ acc'.tree = acc.tree
    /\ \A u \in Tree \ {t} : acc'.treeAuth[u] = acc.treeAuth[u] /\ acc'.leaves[u] = acc.leaves[u]
    /\ acc'.treeAuth[t] = Nobody => acc'.leaves[t] = <<>>

(* The direct calls of account-compression have a key that signed, or       *)
(* nobody, for the authority of the tree; the graph's has the controller.   *)
LEMMA ForeignElsewhere ==
    ASSUME GInv, ForeignTree \/ ForeignLeaf \/ ForeignTransfer \/ ForeignClose
    PROVE  /\ UNCHANGED <<saved, signers, counting>>
           /\ \E t \in Tree : Elsewhere(t)
<1>1. /\ acc \in Accounts /\ Sound(acc) /\ signers \subseteq Key /\ signers \subseteq Account
      /\ NoTree \notin Tree /\ Controller \notin Account /\ Nobody \notin Account
      /\ Nobody # Controller
  BY WorkFacts
<1>2. ASSUME NEW t \in Tree, acc.treeAuth[t] \in signers \cup {Nobody}
      PROVE  t # acc.tree
  BY <1>1, <1>2 DEF Sound
<1>3. CASE ForeignTree
  <2>1. PICK t \in Tree, k \in signers :
           acc.treeAuth[t] = Nobody /\ acc' = InitEmptyTree(acc, t, k)
    BY <1>3 DEF ForeignTree
  <2>2. /\ acc'.owner = acc.owner /\ acc'.count = acc.count /\ acc'.tree = acc.tree
        /\ acc'.leaves = acc.leaves /\ acc'.treeAuth = [acc.treeAuth EXCEPT ![t] = k]
        /\ acc' \in Accounts
    BY <1>1, <2>1 DEF InitEmptyTree, Accounts
  <2>3. \A u \in Tree : acc'.treeAuth[u] = IF u = t THEN k ELSE acc.treeAuth[u]
    BY <1>1, <2>1, <2>2 DEF Accounts
  <2>4. Elsewhere(t)
    BY <1>1, <1>2, <2>1, <2>2, <2>3 DEF Elsewhere
  <2>. QED
    BY <1>3, <2>4 DEF ForeignTree
<1>4. CASE ForeignLeaf
  <2>1. PICK t \in Tree, leaf \in Leaf :
           /\ acc.treeAuth[t] \in signers
           /\ \/ acc' = AppendLeaf(acc, t, leaf)
              \/ \E i \in DOMAIN acc.leaves[t] : acc' = [acc EXCEPT !.leaves[t][i] = leaf]
    <3>1. PICK t \in Tree, hash \in ForeignHash :
             /\ acc.treeAuth[t] \in signers
             /\ LET leaf == [from |-> hash.from, provider |-> hash.provider, by |-> {}]
                IN \/ acc' = AppendLeaf(acc, t, leaf)
                   \/ \E i \in DOMAIN acc.leaves[t] : acc' = [acc EXCEPT !.leaves[t][i] = leaf]
      BY <1>4 DEF ForeignLeaf
    <3>2. hash \in [from : Key, provider : Account]
      BY GraphAssumption
    <3>3. [from |-> hash.from, provider |-> hash.provider, by |-> {}] \in Leaf
      BY <3>2 DEF Leaf
    <3>. QED
      BY <3>1, <3>3
  <2>2. acc.leaves \in [Tree -> Seq(Leaf)] /\ acc.leaves[t] \in Seq(Leaf)
    BY <1>1 DEF Accounts
  <2>3. PICK new \in Seq(Leaf) : acc' = [acc EXCEPT !.leaves = [@ EXCEPT ![t] = new]]
    <3>1. CASE acc' = AppendLeaf(acc, t, leaf)
      <4>1. Append(acc.leaves[t], leaf) \in Seq(Leaf)
        BY <2>2
      <4>. QED
        BY <1>1, <2>2, <3>1, <4>1 DEF AppendLeaf
    <3>2. ASSUME NEW i \in DOMAIN acc.leaves[t], acc' = [acc EXCEPT !.leaves[t][i] = leaf]
          PROVE  \E new \in Seq(Leaf) : acc' = [acc EXCEPT !.leaves = [@ EXCEPT ![t] = new]]
      <4>1. [acc.leaves[t] EXCEPT ![i] = leaf] \in Seq(Leaf)
        BY <2>2
      <4>. QED
        BY <2>2, <3>2, <4>1
    <3>. QED
      BY <2>1, <3>1, <3>2
  <2>4. /\ acc'.owner = acc.owner /\ acc'.count = acc.count /\ acc'.tree = acc.tree
        /\ acc'.treeAuth = acc.treeAuth /\ acc'.leaves = [acc.leaves EXCEPT ![t] = new]
        /\ acc' \in Accounts
    BY <1>1, <2>2, <2>3 DEF Accounts
  <2>5. \A u \in Tree \ {t} : acc'.leaves[u] = acc.leaves[u]
    BY <2>2, <2>4
  <2>6. acc'.treeAuth[t] # Nobody
    BY <1>1, <2>1, <2>4
  <2>7. Elsewhere(t)
    BY <1>2, <2>1, <2>4, <2>5, <2>6 DEF Elsewhere
  <2>. QED
    BY <1>4, <2>7 DEF ForeignLeaf
<1>5. CASE ForeignTransfer
  <2>1. PICK t \in Tree, authority \in Heir :
           /\ acc.treeAuth[t] \in signers
           /\ acc' = [acc EXCEPT !.treeAuth[t] = authority]
    BY <1>5 DEF ForeignTransfer
  <2>2. authority \in Account \cup {Controller} /\ authority # Nobody
    BY <1>1, GraphAssumption
  <2>3. /\ acc'.owner = acc.owner /\ acc'.count = acc.count /\ acc'.tree = acc.tree
        /\ acc'.leaves = acc.leaves /\ acc'.treeAuth = [acc.treeAuth EXCEPT ![t] = authority]
        /\ acc' \in Accounts
    BY <1>1, <2>1, <2>2 DEF Accounts
  <2>4. \A u \in Tree : acc'.treeAuth[u] = IF u = t THEN authority ELSE acc.treeAuth[u]
    BY <1>1, <2>3 DEF Accounts
  <2>5. Elsewhere(t)
    BY <1>1, <1>2, <2>1, <2>2, <2>3, <2>4 DEF Elsewhere
  <2>. QED
    BY <1>5, <2>5 DEF ForeignTransfer
<1>6. CASE ForeignClose
  <2>1. PICK t \in Tree :
           /\ acc.treeAuth[t] \in signers
           /\ acc' = [acc EXCEPT !.treeAuth[t] = Nobody, !.leaves[t] = <<>>]
    BY <1>6 DEF ForeignClose
  <2>2. <<>> \in Seq(Leaf)
    OBVIOUS
  <2>3. /\ acc'.owner = acc.owner /\ acc'.count = acc.count /\ acc'.tree = acc.tree
        /\ acc'.leaves = [acc.leaves EXCEPT ![t] = <<>>]
        /\ acc'.treeAuth = [acc.treeAuth EXCEPT ![t] = Nobody]
        /\ acc' \in Accounts
    BY <1>1, <2>1, <2>2 DEF Accounts
  <2>4. /\ \A u \in Tree \ {t} : acc'.treeAuth[u] = acc.treeAuth[u]
                                 /\ acc'.leaves[u] = acc.leaves[u]
        /\ acc'.leaves[t] = <<>>
    BY <1>1, <2>3 DEF Accounts
  <2>5. Elsewhere(t)
    BY <1>1, <1>2, <2>1, <2>3, <2>4 DEF Elsewhere
  <2>. QED
    BY <1>6, <2>5 DEF ForeignClose
<1>. QED
  BY <1>3, <1>4, <1>5, <1>6

(* Nothing of that is visible in the graph's tree.                          *)
LEMMA ElsewhereKeeps ==
    ASSUME GInv, NEW t \in Tree, Elsewhere(t)
    PROVE  Keeps(acc', counting) /\ Leaves(acc') = Leaves(acc)
<1>1. /\ acc \in Accounts /\ Sound(acc) /\ Counted(acc, counting)
      /\ acc.tree \in Tree \cup {NoTree}
  BY WorkFacts DEF Accounts
<1>2. Leaves(acc') = Leaves(acc) /\ \A q \in Account : LeavesOf(acc', q) = LeavesOf(acc, q)
  BY <1>1 DEF Elsewhere, Leaves, LeavesOf
<1>3. Counted(acc', counting)
  BY <1>1, <1>2 DEF Counted, Elsewhere
<1>4. SignedByProvider(acc') /\ SignedByUser(acc')
  BY <1>1, <1>2 DEF Sound, SignedByProvider, SignedByUser, Elsewhere
<1>5. Sound(acc')
  BY <1>1, <1>4 DEF Sound, Elsewhere
<1>6. Extends(acc', acc)
  BY <1>1, <1>2, ExtendsRefl DEF Extends, Elsewhere
<1>. QED
  BY <1>2, <1>3, <1>5, <1>6 DEF Keeps, Elsewhere

(* The graph gets its tree, which is empty.                                 *)
LEMMA NewTree ==
    ASSUME GInv, NEW t \in Tree, acc.tree = NoTree, acc.treeAuth[t] = Nobody
    PROVE  Keeps([InitEmptyTree(acc, t, Controller) EXCEPT !.tree = t], counting)
<1>. DEFINE b == [InitEmptyTree(acc, t, Controller) EXCEPT !.tree = t]
<1>1. /\ acc \in Accounts /\ Sound(acc) /\ Counted(acc, counting)
      /\ NoTree \notin Tree /\ Nobody # Controller
  BY WorkFacts
<1>2. b \in Accounts
  BY <1>1 DEF Accounts, InitEmptyTree
<1>3. /\ b.tree = t /\ b.leaves = acc.leaves /\ b.owner = acc.owner /\ b.count = acc.count
      /\ b.treeAuth = [acc.treeAuth EXCEPT ![t] = Controller]
  BY <1>1 DEF Accounts, InitEmptyTree
<1>. HIDE DEF b
<1>4. acc.leaves[t] = <<>>
  BY <1>1 DEF Sound
<1>5. Leaves(b) = <<>> /\ Leaves(acc) = <<>>
  BY <1>1, <1>3, <1>4 DEF Leaves
<1>6. \A q : LeavesOf(b, q) = LeavesOf(acc, q)
  BY <1>5 DEF LeavesOf
<1>7. Counted(b, counting)
  BY <1>1, <1>3, <1>6 DEF Counted
<1>8. SignedByProvider(b) /\ SignedByUser(b)
  BY <1>5 DEF SignedByProvider, SignedByUser
<1>9. Sound(b)
  BY <1>1, <1>3, <1>8 DEF Sound, Accounts
<1>10. IsPrefix(Leaves(acc), Leaves(b))
  BY <1>1, <1>5, ExtendsRefl DEF Extends
<1>11. Extends(b, acc)
  BY <1>3, <1>10 DEF Extends
<1>. QED
  BY <1>2, <1>7, <1>9, <1>11 DEF Keeps, b

(* A leaf is appended for the provider p, whose authority has signed.       *)
LEMMA NewLeaf ==
    ASSUME GInv, counting = Nobody, NEW p \in Account, NEW authority \in Account,
           NEW from \in Key, NEW by \in SUBSET Account,
           AppendRelation(p, authority, from, by),
           p = UsersigPda /\ UsersigPda \in by => from \in by
    PROVE  Keeps(acc', p)
<1>. DEFINE leaf == [from |-> from, provider |-> p, by |-> by]
<1>1. acc \in Accounts /\ Sound(acc) /\ Counted(acc, Nobody) /\ NoTree \notin Tree
      /\ Nobody \notin Account
  BY WorkFacts
<1>2. leaf \in Leaf /\ leaf.provider = p /\ leaf.from = from /\ leaf.by = by
  BY DEF Leaf
<1>. HIDE DEF leaf
<1>3. acc' = AppendLeaf(acc, acc.tree, leaf) /\ acc.tree \in Tree
      /\ acc.owner[p] = authority /\ authority \in by
  BY <1>1 DEF AppendRelation, Accounts, leaf
<1>4. /\ acc'.tree = acc.tree /\ acc'.owner = acc.owner /\ acc'.count = acc.count
      /\ acc'.treeAuth = acc.treeAuth
      /\ acc'.leaves = [acc.leaves EXCEPT ![acc.tree] = Append(@, leaf)]
  BY <1>1, <1>3 DEF AppendLeaf, Accounts
<1>5. Append(acc.leaves[acc.tree], leaf) \in Seq(Leaf)
  BY <1>1, <1>2, <1>3 DEF Accounts
<1>6. acc' \in Accounts
  <2>1. [acc.leaves EXCEPT ![acc.tree] = Append(@, leaf)] \in [Tree -> Seq(Leaf)]
    BY <1>1, <1>3, <1>5 DEF Accounts
  <2>. QED
    BY <1>1, <1>3, <2>1 DEF Accounts, AppendLeaf
<1>. DEFINE s == Leaves(acc)  n == Len(s) + 1
<1>7. s \in Seq(Leaf) /\ n \in Nat \ {0} /\ Leaves(acc)' = Append(s, leaf)
  BY <1>1, <1>3, <1>4, LeavesType DEF Leaves, Accounts
<1>8. /\ DOMAIN Leaves(acc)' = 1..n /\ DOMAIN s = 1..(n - 1)
      /\ Leaves(acc)'[n] = leaf
      /\ \A i \in 1..(n - 1) : Leaves(acc)'[i] = s[i]
  BY <1>2, <1>7
<1>9. \A q \in Account : q # p => LeavesOf(acc, q)' = LeavesOf(acc, q)
  BY <1>2, <1>7, <1>8 DEF LeavesOf
<1>10. LeavesOf(acc, p)' = LeavesOf(acc, p) \cup {n} /\ n \notin LeavesOf(acc, p)
  BY <1>2, <1>7, <1>8 DEF LeavesOf
<1>11. Cardinality(LeavesOf(acc, p)') = Cardinality(LeavesOf(acc, p)) + 1
  BY <1>1, <1>10, LeavesOfFinite, FS_AddElement
<1>12. Counted(acc', p)
  <2>1. \A q \in Account : acc.count[q] \in Nat
    BY <1>1, GraphAssumption DEF Accounts
  <2>2. \A q \in Account : Cardinality(LeavesOf(acc, q)) = acc.count[q]
    BY <1>1, <2>1 DEF Counted
  <2>. QED
    BY <1>4, <1>9, <1>11, <2>1, <2>2 DEF Counted
<1>13. SignedByProvider(acc')
  <2>. SUFFICES ASSUME NEW i \in 1..n
                PROVE  acc'.owner[Leaves(acc)'[i].provider] \in Leaves(acc)'[i].by
    BY <1>8 DEF SignedByProvider
  <2>1. CASE i = n
    BY <1>2, <1>3, <1>4, <1>8, <2>1
  <2>2. CASE i \in 1..(n - 1)
    BY <1>1, <1>4, <1>8, <2>2 DEF Sound, SignedByProvider
  <2>. QED
    BY <1>7, <2>1, <2>2
<1>14. p = UsersigPda => authority = UsersigPda
  BY <1>1, <1>3 DEF Sound
<1>15. SignedByUser(acc')
  <2>. SUFFICES ASSUME NEW i \in 1..n, Leaves(acc)'[i].provider = UsersigPda
                PROVE  Leaves(acc)'[i].from \in Leaves(acc)'[i].by
    BY <1>8 DEF SignedByUser
  <2>1. CASE i = n
    BY <1>2, <1>3, <1>8, <1>14, <2>1
  <2>2. CASE i \in 1..(n - 1)
    BY <1>1, <1>8, <2>2 DEF Sound, SignedByUser
  <2>. QED
    BY <1>7, <2>1, <2>2
<1>16. Sound(acc')
  <2>1. \A t \in Tree : acc.treeAuth[t] = Nobody => acc'.leaves[t] = acc.leaves[t]
    BY <1>1, <1>3, <1>4, GraphAssumption DEF Sound, Accounts
  <2>. QED
    BY <1>1, <1>4, <1>13, <1>15, <2>1 DEF Sound
<1>17. IsPrefix(s, Leaves(acc)')
  <2>1. Append(s, leaf) \in Seq(Leaf) /\ Len(s) <= Len(Append(s, leaf))
    BY <1>2, <1>7
  <2>2. \A i \in 1..Len(s) : s[i] = Append(s, leaf)[i]
    BY <1>2, <1>7
  <2>3. s \in Seq(Leaf)
    BY <1>7
  <2>. HIDE DEF s, n
  <2>4. IsPrefix(s, Append(s, leaf))
    BY <2>1, <2>2, <2>3, PrefixDef
  <2>. QED
    BY <1>7, <2>4
<1>18. Extends(acc', acc)
  BY <1>4, <1>17 DEF Extends
<1>. QED
  BY <1>6, <1>12, <1>16, <1>18 DEF Keeps

(* The counter catches up with the leaf.                                    *)
LEMMA LeafCounted ==
    ASSUME GInv, CountRelation
    PROVE  Keeps(acc', Nobody)
<1>. DEFINE c == counting
<1>1. /\ acc \in Accounts /\ Sound(acc) /\ Counted(acc, c) /\ c \in Account
      /\ Nobody \notin Account
  BY WorkFacts DEF CountRelation, GInv, GTypeOK
<1>2. /\ acc' = [acc EXCEPT !.count[c] = @ + 1] /\ acc.count[c] < MaxCount
      /\ acc.count[c] \in Nat /\ MaxCount \in Nat
  BY <1>1, GraphAssumption DEF CountRelation, Accounts
<1>3. /\ acc'.tree = acc.tree /\ acc'.owner = acc.owner /\ acc'.leaves = acc.leaves
      /\ acc'.treeAuth = acc.treeAuth /\ acc'.count = [acc.count EXCEPT ![c] = @ + 1]
  BY <1>1, <1>2 DEF Accounts
<1>4. acc' \in Accounts
  <2>1. acc.count[c] + 1 \in 0..MaxCount
    BY <1>2
  <2>2. [acc.count EXCEPT ![c] = @ + 1] \in [Account -> 0..MaxCount]
    BY <1>1, <2>1 DEF Accounts
  <2>. QED
    BY <1>1, <1>2, <2>2 DEF Accounts
<1>5. Leaves(acc') = Leaves(acc) /\ \A q \in Account : LeavesOf(acc', q) = LeavesOf(acc, q)
  BY <1>3 DEF Leaves, LeavesOf
<1>6. Counted(acc', Nobody)
  <2>1. \A q \in Account : acc.count[q] \in Nat
    BY <1>1, <1>2 DEF Accounts
  <2>2. \A q \in Account : acc'.count[q] = acc.count[q] + (IF q = c THEN 1 ELSE 0)
    BY <1>1, <1>3, <2>1 DEF Accounts
  <2>. QED
    BY <1>1, <1>5, <2>1, <2>2 DEF Counted
<1>7. SignedByProvider(acc') /\ SignedByUser(acc')
  BY <1>1, <1>3, <1>5 DEF Sound, SignedByProvider, SignedByUser
<1>8. Sound(acc')
  BY <1>1, <1>3, <1>7 DEF Sound
<1>9. Extends(acc', acc)
  BY <1>1, <1>3, <1>5, ExtendsRefl DEF Extends
<1>. QED
  BY <1>4, <1>6, <1>8, <1>9 DEF Keeps

-----------------------------------------------------------------------------
(* One step of an instruction keeps the accounts good, from transaction to  *)
(* transaction.                                                             *)
LEMMA InstructionKeeps ==
    ASSUME GInv, Instruction
    PROVE  Keeps(acc', counting') /\ counting' \in Account \cup {Nobody}
<1>1. /\ acc \in Accounts /\ Sound(acc) /\ signers \subseteq Account /\ signers \subseteq Key
      /\ NoTree \notin Tree /\ Controller \notin Account /\ Nobody \notin Account
      /\ Nobody # Controller /\ counting \in Account \cup {Nobody}
      /\ UsersigPda \notin Key /\ UsersigPda \in Account
  BY WorkFacts, GraphAssumption DEF GInv, GTypeOK, Account
<1>2. CASE InitializeTree
  BY <1>1, <1>2, NewTree DEF InitializeTree
<1>3. CASE InitializeProvider
  BY <1>1, <1>3, NewProvider DEF InitializeProvider, Running
<1>4. CASE AddRelation
  <2>1. PICK p \in Account, from \in Key, authority \in signers :
           AppendRelation(p, authority, from, signers)
    BY <1>4 DEF AddRelation
  <2>2. counting = Nobody /\ counting' = p
    BY <1>4, <2>1 DEF AddRelation, Running, AppendRelation
  <2>. QED
    BY <1>1, <2>1, <2>2, NewLeaf
<1>5. CASE CountRelation
  BY <1>5, LeafCounted DEF CountRelation
<1>6. CASE UsersigInitialize
  BY <1>1, <1>6, NewProvider DEF UsersigInitialize, Running
<1>7. CASE SignRelation
  <2>1. PICK from \in signers :
           AppendRelation(UsersigPda, UsersigPda, from, signers \cup {UsersigPda})
    BY <1>7 DEF SignRelation
  <2>2. counting = Nobody /\ counting' = UsersigPda
    BY <1>7, <2>1 DEF SignRelation, Running, AppendRelation
  <2>. QED
    BY <1>1, <2>1, <2>2, NewLeaf
<1>8. CASE ForeignTree \/ ForeignLeaf \/ ForeignTransfer \/ ForeignClose
  BY <1>1, <1>8, ForeignElsewhere, ElsewhereKeeps
<1>. QED
  BY <1>2, <1>3, <1>4, <1>5, <1>6, <1>7, <1>8 DEF Instruction

-----------------------------------------------------------------------------
(* What an instruction does, it does by the right of the signers.           *)

LEMMA LeafAppended ==
    ASSUME GInv, NEW p \in Account, NEW authority, NEW from \in Key,
           NEW by \in SUBSET Account, AppendRelation(p, authority, from, by)
    PROVE  LET leaf == [from |-> from, provider |-> p, by |-> by]
           IN  leaf \in Leaf /\ Leaves(acc') = Append(Leaves(acc), leaf) /\ acc'.owner = acc.owner
<1>. DEFINE leaf == [from |-> from, provider |-> p, by |-> by]
<1>1. acc \in Accounts /\ NoTree \notin Tree /\ leaf \in Leaf
  BY WorkFacts DEF Leaf
<1>2. acc' = AppendLeaf(acc, acc.tree, leaf) /\ acc.tree \in Tree
  BY <1>1 DEF AppendRelation, Accounts
<1>. HIDE DEF leaf
<1>3. /\ acc'.tree = acc.tree /\ acc'.owner = acc.owner
      /\ acc'.leaves = [acc.leaves EXCEPT ![acc.tree] = Append(@, leaf)]
  BY <1>1, <1>2 DEF AppendLeaf, Accounts
<1>4. Leaves(acc') = Append(Leaves(acc), leaf)
  BY <1>1, <1>2, <1>3 DEF Leaves, Accounts
<1>. QED
  BY <1>1, <1>3, <1>4 DEF leaf

Founds == \A p \in Account : acc'.owner[p] # acc.owner[p] => p \in signers \cup {UsersigPda}

Adds == \/ Leaves(acc') = Leaves(acc)
        \/ \E leaf \in Leaf : /\ ByRight(leaf) /\ acc'.owner = acc.owner
                              /\ Leaves(acc') = Append(Leaves(acc), leaf)

LEMMA InstructionByRight ==
    ASSUME GInv, Instruction
    PROVE  Founds /\ Adds
<1>1. /\ acc \in Accounts /\ Sound(acc) /\ signers \subseteq Account /\ signers \subseteq Key
      /\ NoTree \notin Tree /\ Controller \notin Account /\ UsersigPda \in Account
      /\ UsersigPda \notin Key
  BY WorkFacts, GraphAssumption DEF Account
<1>2. CASE InitializeTree
  <2>1. PICK t \in Tree :
           /\ acc.treeAuth[t] = Nobody /\ acc.tree = NoTree
           /\ acc' = [InitEmptyTree(acc, t, Controller) EXCEPT !.tree = t]
    BY <1>2 DEF InitializeTree
  <2>2. acc'.owner = acc.owner /\ acc'.leaves = acc.leaves /\ acc'.tree = t
    BY <1>1, <2>1 DEF InitEmptyTree, Accounts
  <2>3. Leaves(acc') = <<>> /\ Leaves(acc) = <<>>
    BY <1>1, <2>1, <2>2 DEF Sound, Leaves
  <2>. QED
    BY <2>2, <2>3 DEF Founds, Adds
<1>3. ASSUME NEW p \in Account, NEW authority, acc' = Provider(acc, p, authority),
             p \in signers \cup {UsersigPda}
      PROVE  Founds /\ Adds
  <2>1. /\ acc'.owner = [acc.owner EXCEPT ![p] = authority]
        /\ acc'.leaves = acc.leaves /\ acc'.tree = acc.tree
    BY <1>1, <1>3 DEF Provider, Accounts
  <2>2. \A q \in Account : q # p => acc'.owner[q] = acc.owner[q]
    BY <1>1, <2>1 DEF Accounts
  <2>. QED
    BY <1>3, <2>1, <2>2 DEF Founds, Adds, Leaves
<1>4. CASE AddRelation
  <2>1. PICK p \in Account, from \in Key, authority \in signers :
           AppendRelation(p, authority, from, signers)
    BY <1>4 DEF AddRelation
  <2>2. acc.owner[p] \in signers
    BY <2>1 DEF AppendRelation
  <2>. QED
    BY <1>1, <2>1, <2>2, LeafAppended DEF Founds, Adds, ByRight
<1>5. CASE SignRelation
  <2>1. PICK from \in signers :
           AppendRelation(UsersigPda, UsersigPda, from, signers \cup {UsersigPda})
    BY <1>5 DEF SignRelation
  <2>. DEFINE by   == signers \cup {UsersigPda}
              leaf == [from |-> from, provider |-> UsersigPda, by |-> by]
  <2>2. acc.owner[UsersigPda] = UsersigPda /\ from \in Key /\ by \in SUBSET Account
    BY <1>1, <2>1 DEF AppendRelation
  <2>3. leaf \in Leaf /\ Leaves(acc') = Append(Leaves(acc), leaf) /\ acc'.owner = acc.owner
    BY <1>1, <2>1, <2>2, LeafAppended
  <2>4. ByRight(leaf)
    BY <2>2 DEF ByRight
  <2>. QED
    BY <2>3, <2>4 DEF Founds, Adds
<1>6. CASE ForeignTree \/ ForeignLeaf \/ ForeignTransfer \/ ForeignClose
  <2>1. PICK t \in Tree : Elsewhere(t)
    BY <1>6, ForeignElsewhere
  <2>2. acc'.owner = acc.owner /\ Leaves(acc') = Leaves(acc)
    BY <2>1, ElsewhereKeeps DEF Elsewhere
  <2>. QED
    BY <2>2 DEF Founds, Adds
<1>7. CASE CountRelation
  <2>1. acc'.owner = acc.owner /\ acc'.tree = acc.tree /\ acc'.leaves = acc.leaves
    BY <1>1, <1>7 DEF CountRelation, Accounts
  <2>. QED
    BY <2>1 DEF Founds, Adds, Leaves
<1>. QED
  BY <1>1, <1>2, <1>3, <1>4, <1>5, <1>6, <1>7
     DEF Instruction, InitializeProvider, UsersigInitialize

(* So the running transaction stays within its rights.                      *)
LEMMA StaysWithinRights ==
    ASSUME GInv, Founds, Adds, acc' \in Accounts, Extends(acc', acc),
           UNCHANGED <<saved, signers>>
    PROVE  WithinRights'
<1>1. /\ acc \in Accounts /\ saved \in Accounts /\ WithinRights /\ Nobody \notin Account
      /\ signers \subseteq Account /\ UsersigPda \in Account
  BY WorkFacts DEF GInv, Account
<1>2. \A p \in Account : acc'.owner[p] # saved'.owner[p] => p \in signers' \cup {UsersigPda}
  BY <1>1 DEF WithinRights, Founds
<1>. DEFINE s == Leaves(acc)
<1>3. s \in Seq(Leaf)
  BY <1>1, LeavesType
<1>. DEFINE After(leaf) == \/ acc'.owner[leaf.provider] \in signers'
                           \/ /\ leaf.provider = UsersigPda /\ leaf.from \in signers'
                              /\ acc'.owner[UsersigPda] = UsersigPda
<1>4. ASSUME NEW leaf \in Leaf, ByRight(leaf)
      PROVE  After(leaf)
  <2>1. leaf.provider \in Account
    BY DEF Leaf
  <2>. QED
    BY <1>1, <1>4, <2>1 DEF ByRight, Extends
<1>5. \A i \in DOMAIN s \ DOMAIN Leaves(saved) : s[i] \in Leaf /\ ByRight(s[i])
  BY <1>1, <1>3 DEF WithinRights
<1>. DEFINE known == DOMAIN Leaves(saved)
<1>6. known = DOMAIN Leaves(saved)'
  BY DEF Leaves
<1>. HIDE DEF known, After
<1>. DEFINE t == Leaves(acc')
<1>7. ASSUME \A i \in DOMAIN t \ known : After(t[i])
      PROVE  WithinRights'
  <2>1. Leaves(acc)' = t /\ Leaves(saved)' = Leaves(saved')
    BY DEF Leaves
  <2>2. \A i \in DOMAIN Leaves(acc)' \ DOMAIN Leaves(saved)' : After(Leaves(acc)'[i])
    BY <1>6, <1>7, <2>1
  <2>. HIDE DEF t
  <2>. QED
    BY <1>2, <2>2 DEF WithinRights, ByRight, After
<1>8. CASE Leaves(acc') = s
  <2>1. \A i \in DOMAIN s \ known : After(s[i])
    BY <1>4, <1>5 DEF known
  <2>2. \A i \in DOMAIN Leaves(acc') \ known : After(Leaves(acc')[i])
    BY <1>8, <2>1
  <2>. QED
    BY <1>7, <2>2
<1>9. ASSUME NEW leaf \in Leaf, ByRight(leaf), Leaves(acc') = Append(s, leaf)
      PROVE  WithinRights'
  <2>. DEFINE u == Append(s, leaf)
  <2>1. \A i \in DOMAIN u : (i \in DOMAIN s /\ u[i] = s[i]) \/ u[i] = leaf
    BY <1>3
  <2>. HIDE DEF s, u
  <2>2. \A i \in DOMAIN u \ known : u[i] \in Leaf /\ ByRight(u[i])
    BY <1>5, <1>9, <2>1 DEF known
  <2>3. \A i \in DOMAIN u \ known : After(u[i])
    BY <1>4, <2>2
  <2>4. Leaves(acc') = u
    BY <1>9 DEF u
  <2>. QED
    BY <1>7, <2>3, <2>4
<1>. QED
  BY <1>8, <1>9 DEF Adds

-----------------------------------------------------------------------------
LEMMA GInitInv == GInit => GInv
<1>. SUFFICES ASSUME GInit PROVE GInv
  OBVIOUS
<1>1. /\ UsersigPda \in Account /\ NoTree \notin Tree /\ Nobody # Controller
      /\ 0 \in 0..MaxCount /\ <<>> \in Seq(Leaf) /\ Nobody \notin Account
  BY GraphAssumption DEF Account
<1>2. Genesis \in Accounts
  BY <1>1 DEF Genesis, Accounts
<1>3. Genesis.tree = NoTree /\ Leaves(Genesis) = <<>>
  BY DEF Genesis, Leaves
<1>4. \A p : LeavesOf(Genesis, p) = {}
  BY <1>3 DEF LeavesOf
<1>5. Counted(Genesis, Nobody)
  <2>1. \A p \in Account : Genesis.count[p] = 0
    BY DEF Genesis
  <2>2. \A p \in Account : Cardinality(LeavesOf(Genesis, p)) = 0
    BY <1>4, FS_EmptySet
  <2>. QED
    BY <1>1, <2>1, <2>2 DEF Counted
<1>6. Sound(Genesis)
  BY <1>1, <1>3 DEF Sound, SignedByProvider, SignedByUser, Genesis
<1>7. Extends(Genesis, Genesis)
  BY <1>2, ExtendsRefl
<1>8. GTypeOK
  BY <1>2 DEF GInit, GTypeOK
<1>9. WithinRights
  BY DEF GInit, WithinRights
<1>. QED
  BY <1>5, <1>6, <1>7, <1>8, <1>9 DEF GInit, GInv

(* What is committed is only ever extended, and good after every step.      *)
LEMMA GNextInv == GInv /\ [GNext]_gvars => GInv' /\ Extends(saved', saved)
<1>. SUFFICES ASSUME GInv, [GNext]_gvars PROVE GInv' /\ Extends(saved', saved)
  OBVIOUS
<1>1. /\ acc \in Accounts /\ saved \in Accounts /\ signers \subseteq Key
      /\ Extends(acc, saved) /\ Extends(saved, saved)
  BY WorkFacts, ExtendsRefl
<1>2. CASE Instruction
  <2>1. UNCHANGED <<saved, signers>> /\ signers # {}
    BY <1>2 DEF Instruction, Running, InitializeTree, InitializeProvider, AddRelation,
       CountRelation, UsersigInitialize, SignRelation, ForeignTree, ForeignLeaf, ForeignTransfer,
       ForeignClose, GInv
  <2>2. Keeps(acc', counting') /\ counting' \in Account \cup {Nobody}
    BY <1>2, InstructionKeeps
  <2>3. Extends(acc', saved)
    BY <1>1, <2>2, ExtendsTrans DEF Keeps
  <2>4. WithinRights'
    BY <1>2, <2>1, <2>2, InstructionByRight, StaysWithinRights DEF Keeps
  <2>. QED
    BY <1>1, <2>1, <2>2, <2>3, <2>4 DEF Keeps, GInv, GTypeOK
<1>3. CASE ~ Instruction
  <2>1. \/ BeginTransaction \/ CommitTransaction \/ AbortTransaction \/ UNCHANGED gvars
    BY <1>3 DEF GNext
  <2>2. Extends(acc, acc)
    BY <1>1, ExtendsRefl
  <2>3. WithinRights'
    <3>1. CASE acc' = saved'
      BY <3>1 DEF WithinRights, Leaves
    <3>2. CASE UNCHANGED gvars
      BY <3>2 DEF gvars, GInv, WithinRights, ByRight, Leaves
    <3>. QED
      BY <2>1, <3>1, <3>2 DEF BeginTransaction, CommitTransaction, AbortTransaction, GInv
  <2>. QED
    BY <1>1, <2>1, <2>2, <2>3 DEF BeginTransaction, CommitTransaction, Running,
       AbortTransaction, gvars, GInv, GTypeOK
<1>. QED
  BY <1>2, <1>3

(* The inductive invariant holds in every reachable state.                  *)
THEOREM GraphInvariantHolds == GSpec => []GInv
<1>1. GInv /\ [GNext]_gvars => GInv'
  BY GNextInv
<1>. QED
  BY <1>1, GInitInv, PTL DEF GSpec

(* The accounts keep their types: relations_count never leaves the range of *)
(* a u64 (lib.rs:98-103, 189-195).                                         *)
THEOREM AccountTypesHold == GSpec => []GTypeOK
<1>1. GInv => GTypeOK
  BY DEF GInv
<1>. QED
  BY <1>1, GraphInvariantHolds, PTL

(* relations_count is the number of leaves (lib.rs:96-103), whatever        *)
(* overflows or fails.                                                      *)
THEOREM TreeAndCountersAgree == GSpec => []CountsMatchLeaves
<1>1. GInv => CountsMatchLeaves
  BY DEF GInv, CountsMatchLeaves
<1>. QED
  BY <1>1, GraphInvariantHolds, PTL

(* Every leaf of the graph's tree has the signature of its provider's       *)
(* authority (lib.rs:117, 163-165).                                         *)
THEOREM LeavesAreSigned == GSpec => []ProviderSigned
<1>1. GInv => ProviderSigned
  BY DEF GInv, Sound, ProviderSigned
<1>. QED
  BY <1>1, GraphInvariantHolds, PTL

(* Every leaf of usersig's provider has the signature of the account it     *)
(* starts from (usersig/src/lib.rs:48-62, 94).                              *)
THEOREM UsersSign == GSpec => []UserSigned
<1>1. GInv => UserSigned
  BY DEF GInv, Sound, UserSigned
<1>. QED
  BY <1>1, GraphInvariantHolds, PTL

(* From one transaction to the next, the graph keeps its tree, the tree its *)
(* leaves, and each provider its authority.                                 *)
THEOREM RegistryOnlyGrows == GSpec => OnlyGrows
<1>1. GInv /\ [GNext]_gvars => [Extends(saved', saved)]_gvars
  BY GNextInv
<1>. QED
  BY <1>1, GraphInvariantHolds, PTL DEF GSpec, OnlyGrows

-----------------------------------------------------------------------------
(* The registry.  The programs implement it: instructions are invisible in  *)
(* it, and a transaction that ends carries out all it did, or nothing.      *)

(* The relations of a tree, as the registry sees them.                      *)
LEMMA RelationsOfLeaves ==
    ASSUME NEW a \in Accounts
    PROVE  /\ DOMAIN Relations(a) = DOMAIN Leaves(a)
           /\ \A n \in DOMAIN Leaves(a) :
                 /\ Leaves(a)[n] \in Leaf
                 /\ Relations(a)[n] =
                        [from |-> Leaves(a)[n].from, provider |-> Leaves(a)[n].provider]
BY LeavesType DEF Relations

(* The registry counts as the programs do.                                  *)
LEMMA SameCardinality ==
    ASSUME NEW S
    PROVE  RegistryOf!Cardinality(S) = Cardinality(S)
BY DEF RegistryOf!Cardinality, Cardinality

(* Counters that match the leaves match the relations.                      *)
LEMMA CountsOfRelations ==
    ASSUME NEW a \in Accounts, Counted(a, Nobody)
    PROVE  a.count = [p \in Account |-> RegistryOf!NumberOf(Relations(a), p)]
<1>1. ASSUME NEW p \in Account
      PROVE  RegistryOf!NumberOf(Relations(a), p) = Cardinality(LeavesOf(a, p))
  <2>1. {n \in DOMAIN Relations(a) : Relations(a)[n].provider = p} = LeavesOf(a, p)
    <3>. DEFINE R == {n \in DOMAIN Relations(a) : Relations(a)[n].provider = p}
    <3>1. \A n \in DOMAIN Leaves(a) : Relations(a)[n].provider = Leaves(a)[n].provider
      BY DEF Relations
    <3>2. \A n : n \in R <=> n \in LeavesOf(a, p)
      BY <3>1, RelationsOfLeaves DEF LeavesOf
    <3>. QED
      BY <3>2
  <2>. QED
    BY <2>1, SameCardinality DEF RegistryOf!NumberOf
<1>2. \A p \in Account : a.count[p] = Cardinality(LeavesOf(a, p))
  <2>1. \A p \in Account : p # Nobody /\ a.count[p] \in Nat
    BY GraphAssumption DEF Accounts
  <2>. QED
    BY <2>1 DEF Counted
<1>3. a.count = [p \in Account |-> a.count[p]]
  BY DEF Accounts
<1>. QED
  BY <1>1, <1>2, <1>3

(* What the registry has, it keeps.                                         *)
LEMMA RelationsKept ==
    ASSUME NEW a \in Accounts, NEW b \in Accounts, Extends(b, a)
    PROVE  /\ DOMAIN Relations(a) \subseteq DOMAIN Relations(b)
           /\ \A n \in DOMAIN Relations(a) : Relations(b)[n] = Relations(a)[n]
<1>. DEFINE s == Leaves(a)  t == Leaves(b)
<1>1. s \in Seq(Leaf) /\ t \in Seq(Leaf) /\ IsPrefix(s, t)
  BY LeavesType DEF Extends
<1>2. /\ DOMAIN Relations(a) = DOMAIN s /\ DOMAIN Relations(b) = DOMAIN t
      /\ \A n \in DOMAIN s : Relations(a)[n] = [from |-> s[n].from, provider |-> s[n].provider]
      /\ \A n \in DOMAIN t : Relations(b)[n] = [from |-> t[n].from, provider |-> t[n].provider]
  BY RelationsOfLeaves
<1>. HIDE DEF s, t
<1>3. Len(s) <= Len(t) /\ \A n \in 1..Len(s) : s[n] = t[n]
  BY <1>1, PrefixDef
<1>4. DOMAIN s \subseteq DOMAIN t /\ \A n \in DOMAIN s : s[n] = t[n]
  BY <1>1, <1>3
<1>. QED
  BY <1>2, <1>4

(* A transaction ends, with its accounts or those before.                   *)
LEMMA TransactionCarriedOut ==
    ASSUME GInv, GInv', Extends(saved', saved), saved' \in {acc, saved},
           signers # {}, signers' = {}
    PROVE  RegistryOf!CarryOut
<1>1. /\ saved \in Accounts /\ saved' \in Accounts /\ acc \in Accounts /\ Sound(acc)
      /\ Extends(acc, saved) /\ WithinRights /\ signers \subseteq Key
      /\ Nobody \notin Account /\ UsersigPda \notin Key /\ Key \subseteq Account
  BY WorkFacts, GraphAssumption DEF GInv, GTypeOK, Account
<1>2. Counted(saved', Nobody)
  BY DEF GInv, Counted, LeavesOf, Leaves
<1>3. acc.owner[UsersigPda] \in {Nobody, UsersigPda}
  BY <1>1 DEF Sound
<1>4. ASSUME NEW p \in Account, saved'.owner[p] # saved.owner[p]
      PROVE  RegistryOf!FoundsByRight(p)
  <2>1. saved'.owner[p] = acc.owner[p] /\ acc.owner[p] # saved.owner[p]
    BY <1>4
  <2>2. saved.owner[p] = Nobody /\ p \in signers \cup {UsersigPda}
    BY <1>1, <2>1 DEF WithinRights, Extends
  <2>3. acc.owner[p] \in Account
    BY <1>1, <2>1, <2>2 DEF Accounts
  <2>4. p = UsersigPda => acc.owner[p] = UsersigPda
    BY <1>3, <2>1, <2>2
  <2>. QED
    BY <2>1, <2>2, <2>3, <2>4 DEF RegistryOf!FoundsByRight, RegistryOf!Account, Account
<1>5. ASSUME NEW n \in DOMAIN Relations(saved') \ DOMAIN Relations(saved)
      PROVE  RegistryOf!AddedByRight(Relations(saved')[n])
  <2>1. saved' = acc
    BY <1>5
  <2>2. /\ n \in DOMAIN Leaves(acc) \ DOMAIN Leaves(saved) /\ Leaves(acc)[n] \in Leaf
        /\ Relations(acc)[n] =
              [from |-> Leaves(acc)[n].from, provider |-> Leaves(acc)[n].provider]
    BY <1>1, <1>5, <2>1, RelationsOfLeaves
  <2>3. ByRight(Leaves(acc)[n])
    BY <1>1, <2>2 DEF WithinRights
  <2>4. acc.owner[UsersigPda] \notin signers
    BY <1>1, <1>3
  <2>. QED
    BY <2>1, <2>2, <2>3, <2>4 DEF RegistryOf!AddedByRight, ByRight
<1>6. saved'.count = [p \in Account |-> RegistryOf!NumberOf(Relations(saved'), p)]
  BY <1>1, <1>2, CountsOfRelations
<1>7. /\ DOMAIN Relations(saved) \subseteq DOMAIN Relations(saved')
      /\ \A n \in DOMAIN Relations(saved) : Relations(saved')[n] = Relations(saved)[n]
  BY <1>1, RelationsKept
<1>8. Relations(saved)' = Relations(saved')
  BY DEF Relations, Leaves
<1>. QED
  BY <1>4, <1>5, <1>6, <1>7, <1>8 DEF RegistryOf!CarryOut, RegistryOf!Account, Account

LEMMA RegistryStep == GInv /\ [GNext]_gvars => [RegistryOf!RNext]_(RegistryOf!rvars)
<1>. SUFFICES ASSUME GInv, [GNext]_gvars PROVE [RegistryOf!RNext]_(RegistryOf!rvars)
  OBVIOUS
<1>1. GInv' /\ Extends(saved', saved)
  BY GNextInv
<1>2. CASE UNCHANGED <<saved, signers>>
  BY <1>2 DEF RegistryOf!rvars, Relations, Leaves
<1>3. CASE BeginTransaction
  <2>1. Relations(saved)' = Relations(saved)
    BY <1>3 DEF BeginTransaction, Relations, Leaves
  <2>. QED
    BY <1>3, <2>1 DEF BeginTransaction, RegistryOf!RNext, RegistryOf!Sign
<1>4. CASE CommitTransaction \/ AbortTransaction
  <2>1. saved' \in {acc, saved} /\ signers # {} /\ signers' = {}
    BY <1>4 DEF CommitTransaction, AbortTransaction, Running
  <2>. QED
    BY <1>1, <2>1, TransactionCarriedOut DEF RegistryOf!RNext
<1>. QED
  BY <1>2, <1>3, <1>4 DEF GNext, gvars, Instruction, InitializeTree, InitializeProvider,
     AddRelation, CountRelation, UsersigInitialize, SignRelation, ForeignTree, ForeignLeaf, ForeignTransfer,
       ForeignClose

LEMMA RegistryInit == GInit => RegistryOf!RInit
<1>. SUFFICES ASSUME GInit PROVE RegistryOf!RInit
  OBVIOUS
<1>1. DOMAIN Relations(saved) = {}
  BY DEF GInit, Genesis, Relations, Leaves
<1>. QED
  BY <1>1 DEF GInit, Genesis, RegistryOf!RInit, RegistryOf!Account, Account

(* The programs (graph/src/lib.rs:21-106, usersig/src/lib.rs:22-62), called *)
(* in any order in transactions that may fail anywhere, implement the       *)
(* registry: nothing appears in it but by the right of somebody who signed, *)
(* and nothing is ever taken back.                                          *)
THEOREM ProgramsKeepRegistry == GSpec => KeepsRegistry
<1>1. GInv /\ [GNext]_gvars => GInv'
  BY GNextInv
<1>. QED
  BY <1>1, GInitInv, RegistryInit, RegistryStep, PTL
     DEF GSpec, KeepsRegistry, RegistryOf!RSpec

=============================================================================
