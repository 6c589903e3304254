------------------------------- MODULE Ledger -------------------------------
(***************************************************************************)
(* What the indexer promises, without any of its machinery: a ledger of    *)
(* blocks.  A block that is once received stays due until each relation it *)
(* carries is stored at least once, or until it is written off as lost, in *)
(* the open.  Nothing is stored that is not in a received block, and       *)
(* nothing stored or written off is ever taken back.                       *)
(***************************************************************************)
EXTENDS Naturals

CONSTANTS Block,        \* slots of the chain that carry a block
          Relation,     \* relations on the chain
          BlockOf,      \* the block each of them is in
          Versioned     \* relations the indexer does not look for

VARIABLES known,        \* blocks received
          due,          \* blocks that still have to be worked on
          lost,         \* blocks written off
          store         \* how many copies of each relation are stored

lvars == <<known, due, lost, store>>

Wanted(b) == {r \in Relation \ Versioned : BlockOf[r] = b}

Stored(b) == \A r \in Wanted(b) : store[r] > 0

LInit ==
    /\ known = {} /\ due = {} /\ lost = {}
    /\ store = [r \in Relation |-> 0]

(* Losses are only ever added, and only of what was received.               *)
WriteOff == lost \subseteq lost' /\ lost' \subseteq known'

(* A block arrives, for the first time or again; some may be crowded out.   *)
Receive(b) ==
    /\ known' = known \cup {b} /\ due' = due \cup {b}
    /\ WriteOff
    /\ UNCHANGED store

(* A copy of a relation is stored; there may be many.                       *)
Save(r) ==
    /\ BlockOf[r] \in known
    /\ store' = [store EXCEPT ![r] = @ + 1]
    /\ UNCHANGED <<known, due, lost>>

(* Blocks are crossed out.                                                  *)
Settle ==
    /\ due' \subseteq due
    /\ WriteOff
    /\ \A b \in due \ due' : Stored(b) \/ b \in lost'
    /\ UNCHANGED <<known, store>>

LNext ==
    \/ \E b \in Block : Receive(b)
    \/ \E r \in Relation \ Versioned : Save(r)
    \/ Settle

LSpec == LInit /\ [][LNext]_lvars

-----------------------------------------------------------------------------
(* What follows from it, of whatever implements it.                         *)

(* No block is forgotten: what was received is stored, due or lost.         *)
NothingForgotten == \A b \in known : Stored(b) \/ b \in due \/ b \in lost

(* Nothing is made up: what is stored, or lost, was received.               *)
NothingMadeUp ==
    /\ \A r \in Relation : store[r] > 0 => r \notin Versioned /\ BlockOf[r] \in known
    /\ lost \subseteq known

Trustworthy == store \in [Relation -> Nat] /\ NothingForgotten /\ NothingMadeUp

=============================================================================
