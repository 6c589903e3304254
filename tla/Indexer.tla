------------------------------ MODULE Indexer ------------------------------
(***************************************************************************)
(* The indexer process (run in indexer/main.go): the harvester and the     *)
(* processors, which share the Redis stream and one operating system       *)
(* process.  An error of the harvester, or a panic, takes all of them      *)
(* down; Redis and MongoDB keep their contents.                            *)
(***************************************************************************)
EXTENDS Harvester, Processor

ivars == <<streamVars, faults, harvestVars, procVars>>

IInit == HInit /\ LocalInit /\ StoreInit

HarvesterRuns  == HarvestBlocks /\ UNCHANGED procVars
ProcessorRuns(c) == ProcessBlocks(c) /\ UNCHANGED harvestVars

HarvesterHangs == HHang /\ UNCHANGED procVars

Environment == NewSlot /\ UNCHANGED procVars

ProcessCrash == /\ Fail("crash")
                /\ HarvesterCrash /\ ProcessorsCrash
                /\ UNCHANGED streamVars

INext ==
    \/ HarvesterRuns
    \/ HarvesterHangs
    \/ ProcessorStep /\ UNCHANGED harvestVars
    \/ Environment
    \/ ProcessCrash

ISpec == IInit /\ [][INext]_ivars

TimePasses(i) == GoesStale(i) /\ UNCHANGED <<procVars, harvestVars>>

IFairSpec ==
    /\ ISpec
    /\ WF_ivars(HarvesterRuns)
    /\ \A c \in Responsive : WF_ivars(ProcessorRuns(c))
    /\ \A i \in 1..MaxEntries : WF_ivars(TimePasses(i))

-----------------------------------------------------------------------------
(* Properties.                                                              *)

(* End to end: of every block that the harvester has passed, each relation  *)
(* is in MongoDB, or the stream still holds the block for a processor, or   *)
(* the loss is one of the two known kinds.  No crash of the process between *)
(* any two steps of the harvester and the processors opens a third.         *)
Passed(b) == lastSeen # 0 /\ origin <= b /\ b < lastSeen

NoBlockForgotten ==
    \A b \in Block : Passed(b) => Indexed(b) \/ Queued(b) \/ Lost(b)

(* And in the end it is in MongoDB or lost, even if a processor hangs.  If  *)
(* the harvester hangs for ever nobody takes its place, but what it has     *)
(* queued is indexed all the same (main.go:332-379, processor.go:114-170).  *)
EveryBlockIndexed ==
    \A b \in Block :
        lastSeen # 0 /\ origin <= b /\ b <= tip
            ~> \/ Indexed(b) \/ Lost(b)
               \/ [](hung /\ b \notin Scheduled)

=============================================================================
