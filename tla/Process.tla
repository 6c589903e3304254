------------------------------ MODULE Process -------------------------------
(***************************************************************************)
(* The life of the indexer process (main.go, run): it connects to Redis    *)
(* and MongoDB, starts its goroutines, and on a signal cancels their       *)
(* context and waits for them.  What the goroutines do to the stream and   *)
(* to MongoDB is in Harvester and Processor; here it matters which of      *)
(* their calls listen to the context, which connections of the Redis pool  *)
(* they take, and the two counters the processors share with the reporter. *)
(***************************************************************************)
EXTENDS Naturals, FiniteSets

CONSTANTS Thread,       \* goroutines of the processors
          Responsive,   \* those whose calls always return in the end
          MaxIdle,      \* connections the pool keeps (10 in the code)
          Word,         \* size of an unsigned integer (2^64)
          MaxTip,       \* bound: the last slot of the chain
          MaxBatches    \* bound: batches acknowledged in one behaviour

ASSUME ProcessAssumption ==
    /\ Responsive \subseteq Thread /\ IsFiniteSet(Thread)
    /\ Thread \cap {"harvester", "reporter", "server"} = {}
    /\ MaxIdle \in Nat /\ MaxBatches \in Nat
    /\ MaxTip \in Nat \ {0} /\ Word \in Nat /\ Word > 2 * MaxTip

VARIABLES main,           \* where run() is
          live,           \* goroutines that have not returned
          idle,           \* connections waiting in the Redis pool
          hpc,            \* the next call of the harvester
          tpc,            \* the next step of each processor
          tip,            \* the latest slot of the chain
          lastProcessed,  \* atomic lastProcessedBlock
          count,          \* atomic processedBlocksCount, in batches
          rpc,            \* the next step of the reporter
          latest, seen,   \* latestBlock and lastProcessed of ReportProgress
          lastReport,     \* lastReportBlock # 0
          behind,         \* slots behind, as last reported
          acked, reported,  \* batches acknowledged, and in a report of the log (ghosts)
          kept, quiet     \* batches in reports that were not logged, and such reports

mainVars == <<main, live>>
reportVars == <<rpc, latest, seen, lastReport, behind, reported, kept, quiet>>
vars == <<mainVars, idle, hpc, tpc, tip, lastProcessed, count, reportVars, acked>>

Unknown == Word     \* status "UNKNOWN"

Goroutine == Thread \cup {"harvester", "reporter", "server"}

RTypeOK ==
    /\ main \in {"prepare", "mongo", "starting", "running", "stopping", "waiting", "dead"}
    /\ live \subseteq Goroutine
    /\ idle \in 0..MaxIdle
    /\ hpc \in {"check", "seen", "list", "add", "save"}
    /\ tpc \in [Thread -> {"check", "read", "work", "ack", "store", "count"}]
    /\ tip \in 1..MaxTip
    /\ lastProcessed \in 0..MaxTip /\ count \in 0..MaxBatches
    /\ rpc \in {"select", "load", "swap"}
    /\ latest \in 0..MaxTip /\ seen \in 0..MaxTip /\ lastReport \in BOOLEAN
    /\ behind \in 0..Word
    /\ acked \in 0..MaxBatches
    /\ reported \in Nat /\ kept \in Nat /\ quiet \in Nat

RInit ==
    /\ main = "prepare" /\ live = {} /\ idle = 0
    /\ hpc = "check" /\ tpc = [t \in Thread |-> "check"]
    /\ tip = 1 /\ lastProcessed = 0 /\ count = 0
    /\ rpc = "select" /\ latest = 0 /\ seen = 0 /\ lastReport = FALSE /\ behind = Unknown
    /\ acked = 0 /\ reported = 0 /\ kept = 0 /\ quiet = 0

Cancelled == main = "waiting"
Runs(g)   == main # "dead" /\ g \in live
Leave(g)  == live' = live \ {g} /\ UNCHANGED main
Die       == main' = "dead" /\ live' = {}

-----------------------------------------------------------------------------
(* The pool.  It never lets anybody wait: without an idle connection it     *)
(* dials, and forgets about connections that are not returned.              *)
Taken == IF idle = 0 THEN 0 ELSE idle - 1

(* Wrong on purpose: every connection that comes back is kept.              *)
Returned_Keeps == idle + 1

Returned == IF idle = MaxIdle THEN MaxIdle ELSE idle + 1

(* An idle connection is closed after idleTimeout, or fails TestOnBorrow.   *)
ConnectionExpires ==
    /\ idle > 0 /\ idle' = idle - 1
    /\ UNCHANGED <<mainVars, hpc, tpc, tip, lastProcessed, count, reportVars, acked>>

-----------------------------------------------------------------------------
(* run: main.go.                                                            *)

(* Redis, whose connection InitializeRedis keeps, then MongoDB, then the    *)
(* goroutines, and only then does a signal do anything but kill.            *)
Start ==
    /\ \/ main = "prepare" /\ main' = "mongo" /\ UNCHANGED live
       \/ main = "mongo" /\ main' = "starting" /\ live' = Goroutine
       \/ main = "starting" /\ main' = "running" /\ UNCHANGED live
    /\ UNCHANGED <<idle, hpc, tpc, tip, lastProcessed, count, reportVars, acked>>

(* An error of the set-up, of the harvester or of the server ends it all.   *)
Fails ==
    /\ main \in {"prepare", "mongo"} \/ Runs("harvester") \/ Runs("server")
    /\ Die
    /\ UNCHANGED <<idle, hpc, tpc, tip, lastProcessed, count, reportVars, acked>>

(* SIGINT or SIGTERM: received once, between Notify and Stop.               *)
Signal ==
    /\ main # "dead"
    /\ IF main = "running" THEN main' = "stopping" /\ UNCHANGED live ELSE Die
    /\ UNCHANGED <<idle, hpc, tpc, tip, lastProcessed, count, reportVars, acked>>

(* cancelCtx, and wg.Wait.  The server never returns, so the wait, and the  *)
(* process, has no end of its own.                                          *)
Cancel ==
    /\ main = "stopping" /\ main' = "waiting"
    /\ UNCHANGED <<live, idle, hpc, tpc, tip, lastProcessed, count, reportVars, acked>>

-----------------------------------------------------------------------------
(* The harvester: every call but a command on an open connection, which has *)
(* no deadline, listens to the context.  A cancelled request ends the       *)
(* goroutine.  A cancelled dial ends the process: newRedisPool formats the  *)
(* error with %v, so that it is not context.Canceled (main.go:78, 213).     *)

HarvesterRedis(from, to, left) ==
    /\ hpc = from
    /\ IF Cancelled /\ idle = 0 THEN Die /\ UNCHANGED <<hpc, idle>>
       ELSE hpc' = to /\ idle' = left /\ UNCHANGED mainVars

HarvesterStep ==
    /\ Runs("harvester")
    /\ \/ /\ hpc = "check" /\ UNCHANGED idle
          /\ IF Cancelled THEN Leave("harvester") /\ UNCHANGED hpc
             ELSE hpc' = "seen" /\ UNCHANGED mainVars
       \/ HarvesterRedis("seen", "list", Taken)         \* and not returned
       \/ /\ hpc = "list" /\ UNCHANGED idle
          /\ IF Cancelled THEN Leave("harvester") /\ UNCHANGED hpc
             ELSE hpc' = "add" /\ UNCHANGED mainVars
       \/ HarvesterRedis("add", "save", IF idle = 0 THEN Returned ELSE idle)
       \/ HarvesterRedis("save", "check", Taken)        \* and not returned
    /\ UNCHANGED <<tpc, tip, lastProcessed, count, reportVars, acked>>

-----------------------------------------------------------------------------
(* A processor: only between batches does it look at the context; a batch   *)
(* has a context of its own.                                                *)

At(t, from) == Runs(t) /\ tpc[t] = from
Goto(t, to) == tpc' = [tpc EXCEPT ![t] = to]

(* Wrong on purpose: the last round is not the last.                        *)
CheckContext_Goes(t) ==
    /\ At(t, "check")
    /\ Goto(t, "read") /\ idle' = Taken /\ UNCHANGED mainVars
    /\ UNCHANGED <<hpc, tip, lastProcessed, count, reportVars, acked>>

CheckContext(t) ==
    /\ At(t, "check")
    /\ IF Cancelled THEN Leave(t) /\ UNCHANGED <<tpc, idle>>
       ELSE Goto(t, "read") /\ idle' = Taken /\ UNCHANGED mainVars
    /\ UNCHANGED <<hpc, tip, lastProcessed, count, reportVars, acked>>

(* Those that work on a batch not yet acknowledged.                         *)
Holders == {t \in Thread : tpc[t] \in {"work", "ack"}}

(* The batch is read, or there is none.                                     *)
ReadBatch(t) ==
    /\ At(t, "read") /\ idle' = Returned
    /\ \/ Goto(t, "check")
       \/ acked + Cardinality(Holders) < MaxBatches /\ Goto(t, "work")
    /\ UNCHANGED <<mainVars, hpc, tip, lastProcessed, count, reportVars, acked>>

(* It is fetched and saved, or an error sends the loop into a new round.    *)
WorkOnBatch(t) ==
    /\ At(t, "work")
    /\ \/ Goto(t, "ack") /\ idle' = Taken
       \/ Goto(t, "check") /\ UNCHANGED idle
    /\ UNCHANGED <<mainVars, hpc, tip, lastProcessed, count, reportVars, acked>>

AckBatch(t) ==
    /\ At(t, "ack") /\ idle' = Returned
    /\ \/ Goto(t, "store") /\ acked' = acked + 1
       \/ Goto(t, "check") /\ UNCHANGED acked
    /\ UNCHANGED <<mainVars, hpc, tip, lastProcessed, count, reportVars>>

(* The last of its blocks, ids[len(ids)-1], is some slot of the chain.      *)
StoreLast(t) ==
    /\ At(t, "store") /\ Goto(t, "count")
    /\ lastProcessed' \in 1..tip
    /\ UNCHANGED <<mainVars, idle, hpc, tip, count, reportVars, acked>>

CountBatch(t) ==
    /\ At(t, "count") /\ Goto(t, "check")
    /\ count' = count + 1
    /\ UNCHANGED <<mainVars, idle, hpc, tip, lastProcessed, reportVars, acked>>

ThreadStep(t) ==
    \/ CheckContext(t) \/ ReadBatch(t) \/ WorkOnBatch(t)
    \/ AckBatch(t) \/ StoreLast(t) \/ CountBatch(t)

-----------------------------------------------------------------------------
(* The reporter.                                                            *)

(* Wrong on purpose: the difference of two unsigned numbers, unguarded.     *)
CalcStatus_Wraps(newest, processed) == (newest + Word - processed) % Word

CalcStatus(newest, processed) ==
    IF newest < processed THEN Unknown ELSE newest - processed

(* The report is logged unless it is the first since a block was processed: *)
(* until then lastReportBlock is 0.  The counter is reset all the same.     *)
LogReport ==
    IF lastReport
    THEN /\ reported' = reported + count
         /\ behind' = CalcStatus(latest, seen)
         /\ UNCHANGED <<kept, quiet>>
    ELSE /\ kept' = kept + count
         /\ quiet' = IF count = 0 THEN quiet ELSE quiet + 1
         /\ UNCHANGED <<reported, behind>>

(* Wrong on purpose: the counter is read, not swapped with 0.               *)
SwapCount_Loads ==
    /\ rpc = "swap" /\ rpc' = "select"
    /\ LogReport
    /\ lastReport' = (seen # 0) /\ latest' = 0 /\ seen' = 0
    /\ UNCHANGED count

SwapCount ==
    /\ rpc = "swap" /\ rpc' = "select"
    /\ LogReport /\ count' = 0
    /\ lastReport' = (seen # 0) /\ latest' = 0 /\ seen' = 0

(* ReportProgress, on a tick.  The request has a context of its own, with a *)
(* timeout; it may fail, and the answer may be an error, which reads as     *)
(* slot 0, or old.                                                          *)
ReportStep ==
    /\ Runs("reporter")
    /\ \/ /\ rpc = "select"
          /\ \/ UNCHANGED <<rpc, latest>>
             \/ rpc' = "load" /\ latest' \in 0..tip
          /\ UNCHANGED <<seen, count, lastReport, behind, reported, kept, quiet>>
       \/ /\ rpc = "load" /\ rpc' = "swap" /\ seen' = lastProcessed
          /\ UNCHANGED <<latest, count, lastReport, behind, reported, kept, quiet>>
       \/ SwapCount
    /\ UNCHANGED <<mainVars, idle, hpc, tpc, tip, lastProcessed, acked>>

ReportLeaves ==
    /\ Runs("reporter") /\ rpc = "select" /\ Cancelled
    /\ Leave("reporter")
    /\ UNCHANGED <<idle, hpc, tpc, tip, lastProcessed, count, reportVars, acked>>

NewBlock ==
    /\ main # "dead" /\ tip < MaxTip /\ tip' = tip + 1
    /\ UNCHANGED <<mainVars, idle, hpc, tpc, lastProcessed, count, reportVars, acked>>

-----------------------------------------------------------------------------
RNext ==
    \/ Start \/ Fails \/ Signal \/ Cancel
    \/ ConnectionExpires \/ NewBlock
    \/ HarvesterStep
    \/ \E t \in Thread : ThreadStep(t)
    \/ ReportStep \/ ReportLeaves

RSpec == RInit /\ [][RNext]_vars

(* Fairness: main and the goroutines run; a command of the harvester on an  *)
(* open Redis connection need not return.  select picks at random when the  *)
(* ticker and the context are both ready, hence SF for the way out.         *)
AtRedis == hpc \in {"seen", "add", "save"}

RFairSpec ==
    /\ RSpec
    /\ WF_vars(Cancel) /\ WF_vars(~ AtRedis /\ HarvesterStep)
    /\ \A t \in Responsive : WF_vars(ThreadStep(t))
    /\ WF_vars(ReportStep) /\ SF_vars(ReportLeaves)

-----------------------------------------------------------------------------
(* Properties.                                                              *)

(* Every batch is reported once, while the reporter resets the counter      *)
(* under the processors (processor.go:76-90, 166-167): what has been        *)
(* acknowledged is in the log, or in the counter, or on its way there, but  *)
(* for what two reports at most have taken from the counter without logging *)
(* it, because no block was processed before the last look at it.           *)
Uncounted == {t \in Thread : tpc[t] \in {"store", "count"}}

EveryBatchReportedOnce ==
    /\ acked = reported + kept + count + Cardinality(Uncounted)
    /\ quiet <= 2 /\ (quiet = 0 => kept = 0)

(* The processors may overtake the reporter between its request and its     *)
(* look at lastProcessedBlock, and an error reads as slot 0; still, nobody  *)
(* is ever reported to be further behind than the chain is long (94-101).   *)
NeverBehindTheChain == behind = Unknown \/ behind <= tip

(* A signal takes effect: in the end the process is gone, or no goroutine   *)
(* works any more beside the server, processors that hang in a call, and    *)
(* the harvester if Redis never answers it (main.go:268-272).               *)
StopsAfterSignal ==
    main = "stopping" ~>
        \/ main = "dead"
        \/ live \subseteq {"server"} \cup (Thread \ Responsive)
        \/ /\ live \subseteq {"server", "harvester"} \cup (Thread \ Responsive)
           /\ []AtRedis

=============================================================================
