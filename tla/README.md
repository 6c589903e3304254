# The social graph indexer, in TLA+

Models of the sgraph-protocol repository, checked with TLC, and theorems about
them, proved with TLAPS. The repository records relations between accounts on
Solana (the *programs*) and keeps a queryable copy of them (the *indexer*). All
line numbers are of the files under `src/`.

The question behind most of this project is the one the repository's README
raises when it describes the indexer as "a dedicated binary that maintains a
local copy of all the relations": **is the copy complete, and if not, what
exactly can be missing or be there twice?**

## 1. Inventory

| component | code | state | operations | talks to |
|---|---|---|---|---|
| block harvester | `indexer/main.go:310-380` | key `last_seen_block` in Redis; locals of one iteration | `HarvestBlocks` (one endless loop, one goroutine) | RPC node, Redis |
| block stream | `indexer/repo/redis.go` | stream `indexer:block_stream`, consumer group `block_processor` with its pending entries | `AddBlocks`, `FetchStreamEvents`, `FindStaleBlocks`, `AcknowledgeBlocks`, `SaveLastSeenBlock`, `GetLastSeenBlock` | called by harvester and processors |
| block processors | `indexer/processor.go` | locals of one round; `lastProcessedBlock`, `processedBlocksCount` | `ProcessBlocks` in a loop, one goroutine per CPU; `ReportProgress` every 30 s | Redis, RPC node, MongoDB |
| RPC client | `indexer/cli/cli.go` | none | `GetBlocks` with retries over `fetchBlocks`, `GetBlocksWithLimit`, `GetLatestBlock`, the parsing of a transaction | Solana RPC node over HTTP |
| block loader | `indexer/cli/blockloader_gen.go` (generated) | cache, current batch | `LoadAll`; never called, only its `fetch` field is | RPC client |
| relation store | `indexer/repo/mongo.go` | collection of relations | `SaveRelations`, `FetchRelations` | processors, API |
| relations API and JSON-RPC server | `indexer/api.go`, `indexer/srv/srv.go` | the table of handlers; per request none | `Register`, `process`, `FindRelations` | relation store |
| indexer process | `indexer/main.go:165-286` | one process for all goroutines above | start, shutdown on a signal; an error of the harvester or a panic ends it | all |
| graph program | `programs/graph/src/lib.rs` | `Controller` (tree, authority), `Provider` (authority, `relations_count`), the Merkle tree account | `initialize_tree`, `initialize_provider`, `add_relation` | account-compression program (CPI) |
| usersig program | `programs/usersig/src/lib.rs` | its provider PDA | `initialize`, `sign_relation` | graph program (CPI) |
| SDKs, scripts, mocks, generated JSON | `sdk/`, `programs/usersig/cli`, `indexer/mocks`, `indexer/cli/cli_easyjson.go` | none | bindings | |

### How the parts interact

A provider signs `add_relation`; the graph program appends a leaf to the tree
and counts it. The indexer finds the call in a block: the harvester asks a node
for the blocks after `last_seen_block`, adds each to the stream and saves where
it stopped. Each processor claims entries others have left idle for four
minutes, reads new ones until it has 20, fetches the blocks with up to five
attempts, inserts the relations into MongoDB transaction by transaction, adds
the blocks it could not fetch to the stream again, and acknowledges the batch.
Between any two of these calls the process may die, a service may fail, or a
command may be executed and its answer lost.

Clients page through the collection by the id of the last document they know of,
newest first, while processors insert. The goroutines share one context, which a
signal cancels, one pool of Redis connections, and two counters that a reporter
reads every 30 seconds.

### What is hard here, and what must hold

* *At-least-once delivery built from steps that are not atomic*: add/save in
  the harvester, insert/re-add/acknowledge in the processor. Must hold: a block
  is stored or still owed, or the loss is one we can name (`NoSilentLoss`,
  `NoGap`, `NoBlockForgotten`).
* *Two holders of one entry*: a stale claim takes an entry from a processor
  that is merely slow. Must hold: neither undoes what the other counts on (`CInv`),
  and from outside none of it shows (`KeepsLedger`).
* *Error reports of GetBlocks*: a list, a map keyed by block, the retry list in
  map order, and positions of one list applied to another (`RetriesFit`,
  `MissNeedsCompany`; `FailedBlocksAreReturned` fails). Must hold: they are the
  only way but MAXLEN to lose a block, and MAXLEN only takes from behind the
  newest entries (`LossNeedsBacklog`).
* *Duplicates*: nothing makes an insert idempotent. Must hold: copies of a
  relation are bounded by the deliveries of its block, and copies of a block in
  the stream by crashes between adding and saving (`CopiesArePaidFor`,
  `CopiesPerCrash`).
* *Positions*: lagging nodes, a cold start, 0 as a mark (`OnlyForward`;
  `ColdStartAtLatest` fails).
* *Two programs and their callers*: usersig signs for its provider, anyone may
  call any of the programs in any order, an instruction may fail after the leaf
  has been appended. Must hold: counters agree with the tree
  (`CountsMatchLeaves`), no leaf without the signature it stands for
  (`ProviderSigned`, `UserSigned`), nothing is taken back (`OnlyGrows`), and from
  outside a transaction is one step of its signers (`KeepsRegistry`).
* *From instructions to documents*: blocks show failed transactions, inner
  instructions and transactions with a version, and the indexer tells
  instructions apart by whether their data can be read. Must hold: no relation is
  missed (`NoRelationMissed`), what is made up is bounded (`NothingInvented`;
  `OnlyAddRelation` fails).
* *Pages over a collection that grows*: ids are given before documents are
  inserted, and a page may fail half-way. Must hold: a walk through the pages
  skips nothing and repeats nothing (`WalkShowsAll`, `NewestFirst`).
* *Progress*: HTTP has no timeout. A processor that hangs is stood in for by the
  others (`EveryEntrySettles`). The harvester is alone: if one of its calls never
  returns, no more blocks are queued until somebody restarts the process. Must
  hold: nothing else stops it, and what it has queued is indexed
  (`EveryBlockScheduled`, `EveryBlockIndexed`).
* *Shutdown and reporting*: some calls listen to the cancelled context and some
  do not; the reporter resets a counter under the processors
  (`StopsAfterSignal`, `EveryBatchReportedOnce`, `NeverBehindTheChain`).

Some hazards the code accepts, and the properties accept them with it: MAXLEN
losing blocks (a known loss in `NoSilentLoss`; `LossNeedsBacklog` bounds it), an
undecodable block that is queued again for ever (`CopiesArePaidFor` bounds what
that costs), the relations of versioned transactions (`unseen`), a shutdown that
ends in `lgr.Fatalf`, and connections that are never returned to the pool.
PROJECT.json has a note at each of them.

## 2. Modules

```
Faults              what can go wrong, and how often
  BlockStream       the Redis stream and its consumer group
    Harvester       HarvestBlocks
    Processor       ProcessBlocks and rpc.GetBlocks    (implements Ledger)
      Indexer       both in one process    (EXTENDS Harvester, Processor)
Ledger              what the indexer promises, without its machinery

GraphProgram        graph and usersig, in Solana transactions  (implements Registry)
  Mirror            what the indexer makes of their instructions

Registry            what the programs promise, without trees and instructions

Api                 the JSON-RPC server, and a client that pages
Process             start, goroutines, pool, reporter, signal

MCHarvester, MCProcessor, MCIndexer, MCGraphProgram, MCMirror, MCApi, MCProcess
                    the instances for TLC
BlockStreamProofs <- HarvesterProofs, ProcessorProofs <- IndexerProofs
GraphProgramProofs <- MirrorProofs            ApiProofs            ProcessProofs
```

**Faults.** Crashes, lost replies and failing services draw on one budget,
`MaxFaults`; `Faults` says which kinds an instance considers. The proofs hold
for every value of both.

**BlockStream.** An entry is its position in `stream`, the history of all
XADDs: like Redis IDs, positions only grow. `lastDelivered` is the group's
cursor, `pending` its pending entries, `stale` those idle for `staleTimeout`,
`trimmed` how far MAXLEN has cut. XADD, XREADGROUP, XAUTOCLAIM and XACK are
operators which the two components' actions use. The owner of a pending entry is
left out: none of the commands as called here looks at it.
`deliveries` and `evicted` are ghosts.

**Harvester.** `hpc` walks through the five calls of an iteration. Every error
of an iteration ends in `lgr.Fatalf`, so a failed call is the crash action, and
a call that was done but whose reply was lost is the call followed by a crash.
`hung` is a call that never returns (`main.go:346`, `355` with the client of
`cli.go:356`); only a crash, which here includes somebody's restart, ends it.
A node that lags (`"lag"`) knows less of the chain than another node has shown
before. `origin` (ghost) is where the first iteration that saved a position
started; `crashes` (ghost) counts the crashes between AddBlocks and
SaveLastSeenBlock, and no others.

**Processor.** One value of `pc[c]` for each call of `ProcessBlocks`; the other
locals are the Go variables of the round (`batch`, `ids`) and of `GetBlocks`
(`want` is the list of the current attempt, `got` the result slots filled so
far). One attempt of `GetBlocks` is one action: `none` are the calls answered
with an error, `FailedIdx` is the map `failed`, `Retry` the recursive call with
the keys of that map in any order, `FinishFetch` the return to `processBlocks`
with the positions of the *last* list. Ghosts: `missed` (blocks of the batch
that were neither fetched whole nor reported) and `dropped` (those of them that
were acknowledged).

**Indexer.** The two together; a crash ends both.

**Ledger.** The abstract specification: a block that was received is due until
each of its relations is stored at least once or it is written off as lost, and
nothing is ever taken back. `Processor` names the refinement mapping: `known` are
the blocks in `stream`, `due` those for which `Queued`, `lost` those for which
`Lost`, `store` the collection; `KeepsLedger` is the specification of that
instance of `Ledger`. Most steps of the code stutter there. The others are an
XADD (`Receive`), an insert (`Save`), and an acknowledgement (`Settle`); XADD
writes off what MAXLEN cuts.

**Registry.** The abstract specification of the programs: keys sign
(`Sign`), and what they signed is carried out as a whole (`CarryOut`). Providers
are founded once, by their own signature, relations are added by the right of
somebody who signed, and a provider's count is the number of its relations.
`GraphProgram` names the refinement mapping: `authority`, `count` and `relations`
are taken from `saved`, the signers are the same. BeginTransaction is `Sign`,
CommitTransaction is `CarryOut`, AbortTransaction a `CarryOut` that changes
nothing, and every instruction stutters.

**Mirror.** The programs again, and for each transaction its `form` and the
`trace` of those of its instructions that the indexer would read as
add_relation. At the end of the transaction `TxFromBlockTransaction` takes or
drops it and `findAddInst` makes documents of the trace. add_relation is an outer
instruction, or an inner one if usersig calls it. initialize_provider is in the
trace for some lengths of its strings: the discriminator is not compared
(finding 4), and its first accounts stand where add_relation has `from` and
the provider. `unseen` (ghost) counts the leaves of versioned transactions and
of those that vote first.

**Api.** A client that walks through pages of `sg_findRelations`. `Serve` are the
checks of `Run`, `process`, `WrapH`, `FindRelations` and the parsing of the cursor,
each of which answers with an error; `FetchRelations` is one step of MongoDB's
cursor over the index by `_id`; `Answer` converts the page. Meanwhile
`SaveRelations` gives ids to the documents of a transaction and `Inserted` makes
them visible one by one, so that a smaller id may appear after a larger.

**Process.** `main` is where `run` is, `live` the goroutines that have not
returned. A call is kept only for what the context, the pool and the counters
make of it: `Taken` and `Returned` are the pool, which never makes anybody wait,
since it has no limit; a harvester's connection is taken and not given back
(`redis.go:54`, `71`). A cancelled request ends the harvester; a cancelled dial ends
the process (`main.go:78`, `214`). A processor looks at the context between
batches only. `ReportStep` are the request, the load and the swap of
`ReportProgress`; of `lastReportBlock` only whether it is 0 matters, since until a
report has seen a processed block it is not logged, and resets the counter all the
same (`processor.go:77-84`). `kept` (ghost) are the batches such reports took away, `quiet`
(ghost) is how many of these reports took any. The last block of a batch
(`ids[len(ids)-1]`, in map order) is any slot of the chain.

**GraphProgram.** `acc` are the accounts as the running transaction sees them,
`saved` those it started from; CommitTransaction makes the first the second,
AbortTransaction the second the first, at any point, for an error (`Overflow`
among them) as well as for want of compute units. Every add_relation
writes to the one tree, so Solana runs such transactions one after the other,
and there is one at a time in the model. `add_relation` is two steps,
`AppendRelation` and `CountRelation`, because only the rollback between them
keeps the counter right. Anchor's account constraints are the guards: `init` is
"not initialized, and signs", `has_one` and `Signer` are `authority \in by`. An
address that usersig can sign for (its PDA) is `UsersigPda`, the one
only graph can sign for is `Controller`. The `Foreign` actions are
direct calls of the account-compression program, external code of which the
repository uses two instructions. Anybody may initialize a tree, append the hash of
any relation to it, with whatever provider and user (`ForeignLeaf`), replace a leaf,
close the tree, or hand it to usersig's provider or the controller
(`ForeignTransfer`). `by` in a leaf is a ghost: who signed the add_relation,
nobody if it was appended directly.

### Abstractions

* The content of a block is the set of relations its transactions add. A
  transaction is legacy, versioned (`TxFromBlockTransaction` skips it) or
  undecodable (its block is returned *and* reported as failed). Grouping of
  relations in transactions, hence one InsertMany for several, is left out:
  each insert is a step, which is the finer interleaving.
* The order in which a batch is inserted and failed blocks are added again is
  left open; in the code it is the order of a Go map.
* XADD sends all blocks in one pipeline; each is a step here, so a crash may fall
  between two of them, and with the pipeline of another client interleaved.
* XAUTOCLAIM's scan limit (Redis looks at ten times COUNT pending entries per
  call) and the cursor the code throws away are left out. So is a
  `getBlocksWithLimit` answer with a hole in it: the node is trusted to answer
  contiguously from its own view.
* A relation is whom it is from, its provider, and who signed; `to`, `extra` and
  the time do not influence any of the programs. The Merkle tree is the sequence
  of its leaves. `Controller.authority` is stored and never read.
* The README's "local copy of all the relations" (`README.md:36`) is meant less
  literally by the code: a transaction with a version is skipped (`cli.go:377`).
  `unseen` and `Versioned` carry this through the properties.
* The answers of a batch request are matched with its calls by position (all
  calls have the id 1, `cli.go:338`); Solana's nodes answer in the order of the
  calls, and `Processor` relies on it as the code does.
* Balance changes and log lines of a transaction are parsed and never used:
  only that they may be undecodable is kept.
* Requests to the API share nothing but the collection, so one client stands for
  all. An answer carries no ids (`types/relation.go:10` keeps `_id` out of the JSON),
  so a client has to learn the id to go on from elsewhere; the model lets it.
  The one sign of the end is a page that is not full. `MaxId` bounds the ids, and
  the ids of one transaction are given in one step.
* In `Process`, the two calls by which a processor claims and reads entries
  are one borrowing of a connection, and a tick and the request it causes are one
  step.
* Anchor's own instructions (its IDL account) are left out. Their data can be read
  as add_relation too, so `NothingInvented` and the bounds built on it are about
  documents of initialized providers.
* Which answer a node gives to a request for a block it does not have yet is the
  fault `"block"`.

## 3. Runs

| run | asks | instance | result |
|---|---|---|---|
| `harvester` | gaps, direction, copies; is every block queued in the end | blocks 1, 3, 4, 6 of 6 slots, `Limit` 2, 3 faults: crash, lag, JSON-RPC error, a call that hangs | holds |
| `harvester_cold_start` | `main.go:339` "start with latest" | one JSON-RPC error | **violated** |
| `processor_copies` | two holders of copies of one block; is every insert paid for by a delivery, what is behind a loss, is every step one of the ledger | 2 processors, one block queued up to twice and added again, a stream of 3 kept out of 4 entries, no retries, 3 faults: block, mongo, redis, crash | holds |
| `processor_batches` | positions and retries | 1 processor, batches of 3, 2 retries, a stream of 3 kept out of 4, an undecodable and a versioned transaction, 1 fault: block, batch, redis | holds |
| `processor_wrong_index` | `processor.go:172` "returns blocks that we failed to process" | single getBlock calls fail | **violated** |
| `processor_whole_batch` | the same | a whole request fails | **violated** |
| `indexer` | end to end: is anything forgotten, is every block indexed, does every entry come to rest | one block, 2 processors of which one may hang for ever, 1 fault: block, redis, lag, crash, a hung harvester | holds |
| `graph_safety` | counters, leaves and signatures; is every transaction one step of the registry | 2 keys, 2 trees of 2 leaves, one leaf that people put into trees of their own, counters up to 1, any instructions in a transaction, any of them failing | holds |
| `mirror` | what MongoDB shows of the chain | 2 keys, 1 tree of 2 leaves, counters up to 1, transactions of every form | holds |
| `mirror_phantom` | `processor.go:270` "not an add_relation instruction" | the same | **violated** |
| `process` | reports, and what a signal stops | 2 processors of which one may hang, a pool of 1, 2 batches, 2 slots, numbers modulo 8 | holds |
| `api` | a walk through the pages | 2 processors, 4 ids, default limit 1, largest 2, transactions of 1 or 2 relations of two providers, two filters | holds |

Why the bounds are enough. Every hazard of the processors needs two holders of
one entry, two entries of one block, or two failures in a row, and the instances
have room for them: two processors and a re-added copy (`processor_copies`), three
positions so that the second retry list is shorter than the first and in another
order (`processor_batches`), a stream longer than `MaxStreamLen` so that undelivered
and pending entries are cut off. `MaxEntries` is larger than `MaxEnqueued` so that
failed blocks can be added again; a re-add beyond it stutters (`ModelFull`). The
harvester has a chain with empty slots and a `Limit` smaller than the number of
blocks, so that an iteration ends in the middle, and room for the copies of three
crashes. In `indexer`, the copies one fault can cause fit below `MaxEntries`.
In `graph_safety` a counter overflows before the tree is full (one provider) and the
tree is full before a counter overflows (two providers). On the chain it is only
the latter, 2^30 leaves being fewer than a u64 counts; `MaxCount` is below
`MaxLeaves` here because the error `Overflow` is in the code, and its rollback would
otherwise be met by `AbortTransaction` only. The second tree is there to
be somebody else's: one leaf in it (`MaxForeign`) is enough to be forged, replaced or
handed over, its hash is that of a relation of usersig's provider from any
key (`ForeignHash`), and it may go to the other key or to the controller (`Heir`;
usersig signs for no tree, so one that its provider has is out of the way). One of
two keys is not the signer; `mirror` needs no
second tree, since the properties are about documents of the graph's. In `api` a
walk has up to four pages, a page may be full or not, and the second processor
inserts ids older than those already read. In `process` a batch more than there
are responsive processors, and a pool that is full with one connection, meet
every branch; 8 stands for 2^64, since what matters is that it is more than twice
the chain's length. What TLC checks for these sizes is proved for all sizes where
a theorem is listed below.

### Fairness

`HFairSpec`: the harvester's goroutine runs while no call of it hangs. Nothing
guarantees that a call returns: batch requests use a client without a timeout
(`cli.go:356`), and the context of `main.go:346` and `355` has no deadline. So a
call may hang for ever (`CallHangs`, a fault), fairness does not touch it
(`HarvestBlocks` is not enabled then), and the liveness properties say so:
`EveryBlockScheduled` promises the block or `[]hung`, and `EveryBlockIndexed` that
only blocks the hung harvester has never queued stay out. An error ends the
process, which a supervisor starts again (`HCrash`); that is not fair either.
`harvester` does not check for deadlock, since a harvester that hangs on a chain
at its last slot does nothing more. `PFairSpec`: only the processors in `Responsive` are fair: the HTTP client
has no timeout (`cli.go:356`), so nothing guarantees that a call returns. What
saves the batch of a hung processor is that time passes (`GoesStale` is fair)
and a responsive one claims it. Faults are never fair and their number is
bounded, so liveness is claimed for behaviours in which failures come to an
end. Without that the code promises nothing: a block which can never be fetched
is queued again for ever. For the same reason `indexer` has no
undecodable transaction: its block is fetched, saved, and queued again, in
every round (`cli.go:93-98`). `IFairSpec` is the two together, in one process.

`RFairSpec`: after a signal `main` goes on to cancel. The reporter's request
returns, because its context has a timeout (`processor.go:67`), and the harvester's
requests and dials do, because theirs is cancelled. A Redis command on an open
connection listens to no context and has no deadline: there the harvester has
no fairness (`AtRedis`), and `StopsAfterSignal` lets it wait for ever. Of the
processors, only those in `Responsive` return. The reporter's `select` picks at random when both the
tick and the context are ready, so its way out has strong fairness. `process` does
not check for deadlock: the process may end, and after a shutdown only the
server is left.

### Findings

1. `processor_wrong_index`: after a retry the positions GetBlocks returns
   belong to the list of the last attempt, in map order; `processor.go:194`
   looks them up in the first list. A fetched block is queued again, the failed
   one is acknowledged and lost.
2. `processor_whole_batch`: `fetchBlocks` returns one error for a whole request;
   `cli.go:231` bypasses `LoadAll`, which would spread it over all keys, so all
   blocks but the first are acknowledged unread.
3. `harvester_cold_start`: the error member of a JSON-RPC answer is never looked
   at; a cold start then begins at slot 0.
4. `mirror_phantom`: `findAddInst` passes over an instruction of the graph program
   only if its data is short *and* starts with another discriminator
   (`processor.go:269`, `&&` for `||`). An initialize_provider whose name has a
   suitable length is stored as a relation that no chain holds.
   `NothingInvented` says how far this goes: one document for a provider.

The theorems say how far each of them goes. For the first two,
`MissNeedsCompany`: a batch of one loses nothing; and `ReportsAreWhole`: nor does
any batch, if no request fails as a whole and nothing is retried, or nothing has
to be, so there is no third cause. For the third, `ColdStartWithoutErrors`: if
the node does not answer with an error, a cold start begins at a slot that has
been the tip. For the fourth, `OthersAreMirroredExactly` and `UsersAreMirrored`:
the one document too many is about a provider's own authority, never
about a user who signs through usersig.

Noted on the way, with no line of the repository to contradict: `wg.Wait`
(`main.go:272`) never returns, because the server does not listen to the context; a
cancelled dial ends the process and with it batches that `processor.go:57` means
to let finish; connections taken in `redis.go:54` and `71` are never returned.

## 4. Proofs

All theorems hold for every chain, number of processors, batch size, number of
retries, stream length and budget of faults, under the named assumptions on the
constants (`FaultsAssumption`, `StreamAssumption`, `HarvesterAssumption`,
`ProcessorAssumption`, `GraphAssumption`, `ApiAssumption`, `ProcessAssumption`), which
TLC evaluates in the runs. One of them is that the processors are finitely many: the
code starts a configured number, or one per CPU (`main.go:220`).

| theorem | module | says |
|---|---|---|
| `InvariantHolds` | ProcessorProofs | `PSpec => []PInv` |
| `TypesHold` | ProcessorProofs | `PSpec => []PTypeOK` |
| `NothingLostSilently` | ProcessorProofs | `PSpec => []NoSilentLoss` |
| `IndexInRange` | ProcessorProofs | `PSpec => []RetriesFit` |
| `OneEntryIsNeverMissed` | ProcessorProofs | `PSpec => []MissNeedsCompany` |
| `CopiesInvariantHolds` | ProcessorProofs | `PSpec => []CInv` |
| `NoCopyWithoutDelivery` | ProcessorProofs | `PSpec => []CopiesArePaidFor` |
| `BatchesFit` | ProcessorProofs | `PSpec => []BatchFits`: no batch is larger than `batchSize` |
| `ReportsAreWhole` | ProcessorProofs | if `ReportsTrusted`, `PSpec => [](FailedBlocksAreReturned /\ dropped = {})` |
| `OnlyTheStreamForgets` | ProcessorProofs | if `ReportsTrusted`, a block is stored, owed, or cut off by MAXLEN |
| `NewestEntriesKept` | ProcessorProofs | MAXLEN cuts off none of the newest `MaxStreamLen` entries |
| `NothingIsLost` | ProcessorProofs | if `ReportsTrusted`, `PSpec => []LossNeedsBacklog` |
| `RoundsAdvance` | ProcessorProofs | each step of a processor brings its round closer to the end |
| `HarvestInvariantHolds` | HarvesterProofs | `HSpec => []HInv` |
| `HarvestTypesHold` | HarvesterProofs | `HSpec => []HTypeOK` |
| `HarvestLeavesNoGap` | HarvesterProofs | `HSpec => []NoGap` |
| `HarvestOnlyForward` | HarvesterProofs | `HSpec => OnlyForward` |
| `CopiesCostCrashes` | HarvesterProofs | `HSpec => []CopiesPerCrash` |
| `ColdStartWithoutErrors` | HarvesterProofs | if `"latest"` is no fault, `HSpec => []ColdStartAtLatest` |
| `IndexerInvariantHolds` | IndexerProofs | `ISpec => [](HInv /\ PInv)` |
| `EndToEnd` | IndexerProofs | `ISpec => []NoBlockForgotten` |
| `ProcessorsKeepLedger` | IndexerProofs | `PSpec => KeepsLedger` |
| `IndexerKeepsLedger` | IndexerProofs | `ISpec => KeepsLedger` |
| `IndexerPaysForCopies`, `IndexerMissNeedsCompany`, `IndexerReportsAreWhole`, `IndexerKeepsNewest`, `IndexerRoundsAdvance` | IndexerProofs | the same of `ISpec`, with the harvester and crashes |
| `EndToEndWithoutLoss` | IndexerProofs | if `ReportsTrusted`, and until the stream outgrows MAXLEN, each block passed is stored or owed |
| `LedgerIsTrustworthy` | IndexerProofs | `KeepsLedger` implies that nothing is forgotten or made up |
| `IndexerIsTrustworthy` | IndexerProofs | so `ISpec` does neither |
| `GraphInvariantHolds` | GraphProgramProofs | `GSpec => []GInv` |
| `AccountTypesHold` | GraphProgramProofs | `GSpec => []GTypeOK` |
| `TreeAndCountersAgree` | GraphProgramProofs | `GSpec => []CountsMatchLeaves` |
| `LeavesAreSigned` | GraphProgramProofs | `GSpec => []ProviderSigned` |
| `UsersSign` | GraphProgramProofs | `GSpec => []UserSigned` |
| `RegistryOnlyGrows` | GraphProgramProofs | `GSpec => OnlyGrows` |
| `ProgramsKeepRegistry` | GraphProgramProofs | `GSpec => KeepsRegistry` |
| `MirrorInvariantHolds` | MirrorProofs | `MSpec => [](GInv /\ MInv)` |
| `IndexIsComplete` | MirrorProofs | `MSpec => []NoRelationMissed` |
| `IndexInventsAtMostOne` | MirrorProofs | `MSpec => []NothingInvented` |
| `IndexTypesHold` | MirrorProofs | `MSpec => []MTypeOK` |
| `MirrorRunsPrograms`, `MirroredRegistry` | MirrorProofs | `MSpec => GSpec`, so `MSpec => KeepsRegistry` |
| `OthersAreMirroredExactly` | MirrorProofs | of anybody but a provider's own authority the index counts exactly the leaves |
| `UsersAreMirrored` | MirrorProofs | a document about a user of usersig has her signature, and each such leaf is counted |
| `WalkInvariantHolds` | ApiProofs | `ASpec => []AInv` |
| `AnswersAreBounded` | ApiProofs | `ASpec => []ATypeOK` |
| `PagesNewestFirst` | ApiProofs | `ASpec => []NewestFirst` |
| `WalkIsComplete` | ApiProofs | `ASpec => WalkShowsAll` |
| `ProcessTypesHold` | ProcessProofs | `RSpec => []RTypeOK` |
| `BatchesAreReportedOnce` | ProcessProofs | `RSpec => []EveryBatchReportedOnce` |
| `ReportsAreSane` | ProcessProofs | `RSpec => []NeverBehindTheChain` |

**The stream.** `BlockStreamProofs` states once what each command preserves:
types, that MAXLEN's victims are known (`EvictedKnown`), and two relations
between a state and the next: `Grows` (history is only extended) and `Keeps(S)`
(every entry outside S that was owed is still owed, or evicted and known). The
component proofs use nothing else about Redis.

**The harvester.** `NoGap` is not inductive: between the answer of the node and
the save, the blocks are in `found`. `IterationCovers` says that what lies
between `start` and `next` is queued or in `found`, and that `start` is the
saved position. One lemma (`AnswerContiguous`) shows that an answer cut off at
`Limit` has no hole. `CopiesPerCrash` needs more: `CopiesBounded` counts a block once
for the iteration that is under way, so that a block not yet added in it has
fewer copies than crashes plus one, and a block before the saved position
(`Behind`) will not be added again. A crash between adding and saving starts the
iteration anew and raises the bound by one in the same step; a crash elsewhere, a
lagging node or an error answer leaves both the copies and the bound alone.

**The processors.** `NoSilentLoss` is not inductive either: an acknowledgement
takes away what the block was owed by. `BatchAccounted` gives each block of a
fetched batch a reason: missed, stored up to the inserts to come, to be
added again, or *owed through an entry later than all of the batch*. The last
is the heart of it. Two processors may hold copies of one block; if each could
count on the copy of the other, both would acknowledge and the block would be
gone. Entries are ordered by age and a re-added copy is younger than anything
delivered before, so a round may count on younger copies only, and the youngest
owed copy cannot be excused by another: a round that holds it must account for
the block in one of the other ways. `AckedSafe` and `AckedOthers` are this
argument for the acknowledging round and for all others. `MissNeedsCompany` follows
from `Company`: while a round asks for one block, the list of each attempt is that
block, so position 1 of any list is the right one (`OneAsked`).

**Copies.** That MongoDB holds no more copies of a relation than entries of its
block were delivered is not inductive, for an insert is done long after the
delivery that justifies it. `PaidFor` therefore adds to the copies stored the
inserts still to come, `InsertsToCome`: pairs of a processor and an entry of its
batch which the processor may yet insert (`MayInsert`). A delivery raises the
number of `Handed` entries and gives one processor one pair for each entry it
hands out, an insert turns a pair into a copy, and everything else, a crash
above all, only takes pairs away. That needs a round to work on entries of its
own batch only, and to insert what is in the blocks of these (`OwnEntriesOnly`).

**When nothing is lost.** While batch requests do not fail as a whole and a round
asks for one list only (`OneListOnly`), that list is the order of its batch, so
the positions GetBlocks returns mean the same block on both sides
(`WholeReport`): nothing is missed, nothing dropped. If a block is in the batch
twice, the map `failed` keeps its last position only, which is enough to queue
it again (`LastPosition`). A batch of one gets there by
`MissNeedsCompany` instead; `ReportsTrusted` is either of the two. What is left of the losses of `NoSilentLoss` is
MAXLEN, and MAXLEN never cuts one of the newest entries (`NewestAreKept`), so a
block is lost only behind these (`LossNeedsBacklog`), whatever crashes, fails
or is delivered twice, and none before there are so many. In the indexer the same is true of every block the
harvester has passed.

**Rounds.** `RoundAdvances` is the safety half of liveness: each step of a
processor moves it to a later part of its round, or uses up a retry, an insert
or a block to be added again; failed calls too. So a round cannot go round in
circles, and what liveness needs beyond that is only that calls return.

**The indexer.** Each component only extends the history the other relies on
(`HarvesterUndisturbed`, `ProcessorsUndisturbed`), so both invariants hold
together; "everything passed is queued" and "everything queued is stored, owed
or a known loss" give `NoBlockForgotten`.

**The ledger.** The initial states map to `LInit`, and each step to `Receive`,
`Save`, `Settle` or a stutter. That a block crossed out is stored or lost is
`NoSilentLoss` in the next state; that nothing but received blocks is stored and
that losses stay losses needs one conjunct more (`WorkFits`): the inserts to come
are of relations their blocks carry, and the blocks missed are blocks of the
stream. In `Indexer` the harvester's steps map to `Receive` or a stutter, and a
crash to a stutter. `LedgerIsTrustworthy` is about the ledger alone: what it
promises follows from its own steps, so whatever implements it neither forgets
nor invents.

**The programs.** The properties are about `saved`, but what is saved next is
`acc`, so `GInv` says of both that they are `Sound` and `Counted`, of `acc` up
to the one leaf in `counting`, and that `acc` extends `saved`. `Sound` adds what
the signatures rest on: the graph's tree stays with the controller (so no direct
call reaches it, `ForeignElsewhere`; other trees the controller may have been handed,
with forged leaves in them, and they change nothing, since initialize_tree takes
none but one nobody has initialized), a tree nobody has
initialized is empty (else a foreign leaf could be there before the tree
becomes the graph's), and usersig's provider has itself as its authority, so
that only usersig, which demands the user's signature, can speak for it.
`Keeps` is what every instruction does, one lemma for each kind of step; a new
provider disturbs no count because a provider without authority has no leaf
(`UnownedHasNoLeaf`).

**The registry.** `GInv` has to say by what right the transaction has changed what
it has changed so far (`WithinRights`): authorities that are new have signed
their provider, and each new leaf has its provider's authority or its user among
the signers. Every instruction keeps that (`StaysWithinRights`), so a commit is a
`CarryOut`. Its counts are those of the relations because leaves and relations
are numbered alike (`CountsOfRelations`).

**Chain and index.** `TraceShows` relates the running transaction to its trace: the
instructions for a document are as many as the leaves added so far, or one more
if the transaction has initialized the provider. A commit adds both to what the
block shows, an abort neither. One step of the programs appends at most one leaf
and one instruction (the lemmas on `LeavesBy` and `FindAddInst`), and a provider
is initialized once because `GInv` keeps its authority. `NoRelationMissed` and
`NothingInvented` are bounds from below and above on the documents; unless the
person is the provider's own authority the two meet (`BoundsMeet`), and usersig's
provider is its own, an address nobody holds the key of. `MSpec` implements
`GSpec`, since the index only looks on.

**The walk.** `DueAhead` is the heart: a document that was there when the walk
began has been shown or has an id below the place the scan has come to. Each
step of the cursor takes the largest id ahead, so nothing due is between the two
places; ids are unique (`IdsUnique`), so nothing due is *at* the new place but what
is shown. When a page is not full nothing matching is ahead, so all that was due
is shown. Documents inserted in the meantime only add to what is ahead or
behind.

**The process.** `EveryBatchReportedOnce` counts processors, so a step is followed through
the two sets it may move a processor between: `Holders`, who have a batch, and
`Uncounted`, who have acknowledged one. That two reports at most are withheld is
`Withheld`: a report takes batches away only after a processor has stored its last
block, so the look at `lastProcessedBlock` after the first such report sees one, and
the report after that is logged. `NeverBehindTheChain` needs that `latest` is
a slot the chain has reached.

### Model-checked only

Liveness: `EveryBlockScheduled`, `EveryBlockIndexed`, `EveryEntrySettles`,
`StopsAfterSignal` (fairness and ENABLED are beyond the prover; of the processors
`RoundsAdvance` is proved). And the four violations; what remains true of each is
proved, see the findings.

Induction over data is beyond the prover as well, since the library's induction
theorems take an operator as a parameter. One induction was needed, for the last
position of a block in a list, and is an argument about a minimal element
instead (`LastPosition`). `CopiesArePaidFor` would need another if it summed over
the stream; it compares the cardinalities of two sets instead.

## 5. Not modelled

* Generated code (`cli_easyjson.go`, the Go SDK), the JavaScript SDK, scripts and
  mocks: no state of their own.
* The block loader: never used beyond its `fetch` field. That the code bypasses
  the rest of it is in `Processor`.
* The configuration (its values are the constants), the pprof server, the wording of
  log lines and errors, HTTP statuses.
* Scan limits inside Redis, see the abstractions.

## 6. Plan

Done: the stream, harvester and processors, their composition and the ledger
they implement; the programs and what the indexer makes of them; the API; the
life of the process. What is left:

1. XAUTOCLAIM with its scan limit and cursor, to ask when an entry behind many
   others is never claimed.
2. An abstract specification of the walk through the pages (a snapshot, and what
   has been added since) and of the harvester (a position that moves over a
   chain), with the refinements proved.
