----------------------------- MODULE Harvester -----------------------------
(***************************************************************************)
(* The block harvester of the indexer (HarvestBlocks in indexer/main.go):  *)
(* one goroutine that walks along the chain and queues every block it sees *)
(*                                                                         *)
(*   seen    GetLastSeenBlock     where the last iteration stopped         *)
(*   latest  GetLatestBlock       only if nothing (or 0) was saved         *)
(*   list    GetBlocksWithLimit   the next blocks from there on            *)
(*   add     AddBlocks            one pipelined XADD per block             *)
(*   save    SaveLastSeenBlock    where the next iteration starts          *)
(*                                                                         *)
(* Every error of an iteration ends the process (lgr.Fatalf), so there is  *)
(* no failure action beside the crash: a Redis command that was done but   *)
(* whose reply was lost is the step followed by the crash.  But no call    *)
(* has a deadline, and any of them may hang.                               *)
(***************************************************************************)
EXTENDS BlockStream

CONSTANTS Limit,          \* blocks asked for at once (1000 in the code)
          MaxSlot         \* bound: the last slot of the chain

ASSUME HarvesterAssumption == /\ Limit \in Nat \ {0}
                              /\ MaxSlot \in Nat \ {0}
                              /\ Block \subseteq 1..MaxSlot

VARIABLES tip,            \* the latest confirmed slot of the chain
          lastSeen,       \* Redis key last_seen_block, 0 when absent
          hpc,            \* the step of the iteration
          start,          \* startBlock
          found,          \* blocks of the iteration still to be added
          next,           \* lastSeen of the code, what will be saved
          hung,           \* the call that is under way does not return
          origin,         \* start of the first iteration to save (ghost)
          crashes         \* crashes between AddBlocks and SaveLastSeenBlock (ghost)

lostVars    == <<hung, crashes>>
harvestVars == <<tip, lastSeen, hpc, start, found, next, origin, lostVars>>
hvars       == <<streamVars, faults, harvestVars>>

Slot == 0..MaxSlot

HTypeOK ==
    /\ StreamTypeOK
    /\ tip \in Slot \ {0}
    /\ lastSeen \in 0..(MaxSlot + 1)
    /\ hpc \in {"seen", "latest", "list", "add", "save"}
    /\ start \in 0..(MaxSlot + 1)
    /\ found \subseteq Block
    /\ next \in 0..(MaxSlot + 1)
    /\ origin \in 0..(MaxSlot + 1)
    /\ hung \in BOOLEAN /\ crashes \in Nat

IterationInit == hpc = "seen" /\ start = 0 /\ found = {} /\ next = 0 /\ hung = FALSE

HInit ==
    /\ StreamInit /\ faults = 0
    /\ tip \in Slot \ {0}
    /\ lastSeen = 0 /\ origin = 0 /\ crashes = 0
    /\ IterationInit

-----------------------------------------------------------------------------
(* Wrong on purpose: starts one after the saved position, and one before.   *)
GetLastSeenBlock_Exclusive ==
    /\ hpc = "seen"
    /\ start' = IF lastSeen = 0 THEN 0 ELSE lastSeen + 1
    /\ hpc' = IF lastSeen = 0 THEN "latest" ELSE "list"
    /\ NoFault
    /\ UNCHANGED <<streamVars, tip, lastSeen, found, next, origin>>

GetLastSeenBlock_Inclusive ==
    /\ hpc = "seen"
    /\ start' = IF lastSeen = 0 THEN 0 ELSE lastSeen - 1
    /\ hpc' = IF lastSeen = 0 THEN "latest" ELSE "list"
    /\ NoFault
    /\ UNCHANGED <<streamVars, tip, lastSeen, found, next, origin>>

(* redis.GetLastSeenBlock answers 0 when the key does not exist.            *)
GetLastSeenBlock ==
    /\ hpc = "seen"
    /\ start' = lastSeen
    /\ hpc' = IF lastSeen = 0 THEN "latest" ELSE "list"
    /\ NoFault
    /\ UNCHANGED <<streamVars, tip, lastSeen, found, next, origin>>

(* rpc.GetLatestBlock.  The error member of the answer is never looked at:  *)
(* without a result, AbsoluteSlot is 0.                                     *)
GetLatestBlock ==
    /\ hpc = "latest"
    /\ \/ start' = tip /\ NoFault
       \/ start' \in 1..(tip - 1) /\ Fail("lag")
       \/ start' = 0 /\ Fail("latest")
    /\ hpc' = "list"
    /\ UNCHANGED <<streamVars, tip, lastSeen, found, next, origin>>

-----------------------------------------------------------------------------
(* rpc.GetBlocksWithLimit, from a node that knows the chain up to view.  An *)
(* answer with an error member reads as no blocks, like a node far behind.  *)

BlocksFrom(from, view) == {b \in Block : from <= b /\ b <= view}

FirstN(S, n) == {b \in S : Cardinality({a \in S : a < b}) < n}

(* lastSeen of the code: one after the last block, or start again.          *)

(* Wrong on purpose: one too far, and not far enough.                       *)
SetNext_TooFar == IF found' = {} THEN next' = start
                  ELSE \E last \in found' :
                          next' = last + 2 /\ \A b \in found' : b <= last

SetNext_Last == IF found' = {} THEN next' = start
                ELSE next' \in found' /\ \A b \in found' : b <= next'

SetNext == IF found' = {} THEN next' = start
           ELSE \E last \in found' :
                   next' = last + 1 /\ \A b \in found' : b <= last

(* Wrong on purpose: the position is saved before the blocks are added.     *)
GetBlocksWithLimit_SavesFirst ==
    /\ hpc = "list"
    /\ found' = FirstN(BlocksFrom(start, tip), Limit)
    /\ SetNext
    /\ hpc' = IF found' = {} THEN "save" ELSE "add"
    /\ lastSeen' = next'
    /\ origin' = IF lastSeen = 0 THEN start ELSE origin
    /\ NoFault
    /\ UNCHANGED <<streamVars, tip, start>>

GetBlocksWithLimit ==
    /\ hpc = "list"
    /\ \E view \in Slot :
          /\ \/ view = tip /\ NoFault
             \/ view < tip /\ Fail("lag")
          /\ found' = FirstN(BlocksFrom(start, view), Limit)
    /\ SetNext
    /\ hpc' = IF found' = {} THEN "save" ELSE "add"
    /\ UNCHANGED <<streamVars, tip, lastSeen, start, origin>>

(* redis.AddBlocks, in the order of the chain.                              *)
AddBlock ==
    /\ hpc = "add"
    /\ \E b \in found :
          /\ \A a \in found : b <= a
          /\ XAdd(b)
          /\ found' = found \ {b}
    /\ hpc' = IF found' = {} THEN "save" ELSE "add"
    /\ NoFault
    /\ UNCHANGED <<tip, lastSeen, start, next, origin>>

SaveLastSeenBlock ==
    /\ hpc = "save"
    /\ lastSeen' = next
    /\ origin' = IF lastSeen = 0 THEN start ELSE origin
    /\ hpc' = "seen" /\ start' = 0 /\ next' = 0
    /\ NoFault
    /\ UNCHANGED <<streamVars, tip, found>>

HarvestBlocks ==
    /\ ~ hung
    /\ \/ GetLastSeenBlock
       \/ GetLatestBlock
       \/ GetBlocksWithLimit
       \/ AddBlock
       \/ SaveLastSeenBlock
    /\ UNCHANGED lostVars

(* The call does not return: batchRequest uses a client without a timeout,  *)
(* commands on an open Redis connection have none, and the context of the   *)
(* harvester has no deadline.                                               *)
CallHangs ==
    /\ ~ hung /\ hung' = TRUE
    /\ UNCHANGED <<tip, lastSeen, hpc, start, found, next, origin, crashes>>

HHang == Fail("hang") /\ CallHangs /\ UNCHANGED streamVars

-----------------------------------------------------------------------------
(* The chain grows by a slot, with or without a block.                      *)
NewSlot ==
    /\ tip < MaxSlot
    /\ tip' = tip + 1
    /\ UNCHANGED <<streamVars, faults, lastSeen, hpc, start, found, next, origin, lostVars>>

(* The process dies, by an error or from outside, and is started again.     *)
HarvesterCrash ==
    /\ hpc' = "seen" /\ start' = 0 /\ found' = {} /\ next' = 0 /\ hung' = FALSE
    /\ crashes' = IF hpc \in {"add", "save"} THEN crashes + 1 ELSE crashes
    /\ UNCHANGED <<tip, lastSeen, origin>>

HCrash == Fail("crash") /\ HarvesterCrash /\ UNCHANGED streamVars

HNext == HarvestBlocks \/ NewSlot \/ HHang \/ HCrash

HSpec == HInit /\ [][HNext]_hvars

(* Fairness: the goroutine runs, unless it hangs in a call.                 *)
HFairSpec == HSpec /\ WF_hvars(HarvestBlocks)

-----------------------------------------------------------------------------
(* Properties.                                                              *)

Scheduled == {stream[i] : i \in Entry}

(* What has been passed has been queued: once a position is saved, every    *)
(* block between the start of the first saving iteration and that position  *)
(* is in the stream, whatever crashes and lagging RPC nodes came between    *)
(* (HarvestBlocks, main.go:332-379).                                        *)
NoGap ==
    lastSeen # 0 => \A b \in Block : origin <= b /\ b < lastSeen => b \in Scheduled

(* Why it holds, as an inductive invariant: in an iteration, start is the   *)
(* saved position, and what lies between start and next is queued already   *)
(* or among the blocks still to be added, all of them from start on.        *)
IterationCovers ==
    /\ lastSeen # 0 /\ hpc # "seen" => hpc # "latest" /\ start = lastSeen
    /\ hpc \in {"add", "save"} =>
          /\ start <= next
          /\ \A b \in Block : start <= b /\ b < next => b \in Scheduled \/ b \in found
    /\ \A b \in found : start <= b
    /\ hpc # "add" => found = {}

HInv == HTypeOK /\ EvictedKnown /\ NoGap /\ IterationCovers

(* Every second copy of a block in the stream is the price of a crash       *)
(* between AddBlocks and SaveLastSeenBlock, at most one copy per crash.     *)
(* Nothing else adds a block again: no lagging node, no cold start, no call *)
(* that hangs (main.go:361-375).                                            *)
CopiesPerCrash ==
    \A b \in Block : Cardinality({i \in Entry : stream[i] = b}) <= 1 + crashes

(* The harvester only goes forward: the saved position never decreases and  *)
(* a block before it is never queued again.                                 *)
OnlyForward ==
    [][/\ lastSeen' >= lastSeen
       /\ Len(stream') > Len(stream) => stream'[Len(stream')] >= lastSeen]_hvars

(* main.go:339 says of a position that is "not present": "start with        *)
(* latest".  So an iteration without a saved position starts at a slot that *)
(* has been the tip of the chain, never before the first one.               *)
ColdStartAtLatest ==
    hpc = "list" /\ lastSeen = 0 => start # 0

(* Every block from the origin on that the chain has is queued in the end,  *)
(* however often the harvester is started again; what can stop it is a call *)
(* that never returns, and only that (main.go:332-379).                     *)
EveryBlockScheduled ==
    \A b \in Block :
        lastSeen # 0 /\ origin <= b /\ b <= tip ~> b \in Scheduled \/ []hung

=============================================================================
