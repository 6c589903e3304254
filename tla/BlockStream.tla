---------------------------- MODULE BlockStream ----------------------------
(***************************************************************************)
(* The Redis stream "indexer:block_stream" and its one consumer group      *)
(* "block_processor", as indexer/repo/redis.go uses them.                  *)
(*                                                                         *)
(* An entry is known by its position in the history of all entries ever    *)
(* added: like the IDs of XADD *, positions only grow.  The owner a        *)
(* pending entry has in Redis is left out, since XAUTOCLAIM and XACK as    *)
(* called here never look at it.                                           *)
(***************************************************************************)
EXTENDS Faults, Sequences, FiniteSets

CONSTANTS Block,          \* slots of the chain that carry a block
          MaxStreamLen,   \* length XADD ... MAXLEN ~ keeps (2000000 in the code)
          MaxEntries      \* bound: entries ever added in one behaviour

ASSUME StreamAssumption == /\ Block \subseteq Nat
                           /\ MaxStreamLen \in Nat \ {0}
                           /\ MaxEntries \in Nat

VARIABLES stream,         \* the block of every entry ever added
          lastDelivered,  \* last-delivered-id of the group
          pending,        \* entries delivered and not acknowledged (PEL)
          stale,          \* pending entries idle for more than staleTimeout
          trimmed,        \* entries up to this one have been cut off by MAXLEN
          deliveries,     \* how often each entry has been handed to a consumer
          evicted         \* entries cut off while undelivered or pending (ghost)

streamVars == <<stream, lastDelivered, pending, stale, trimmed, deliveries, evicted>>

Entry == 1..Len(stream)

StreamTypeOK ==
    /\ stream \in Seq(Block) /\ Len(stream) <= MaxEntries
    /\ lastDelivered \in 0..Len(stream)
    /\ trimmed \in 0..Len(stream)
    /\ pending \subseteq 1..lastDelivered
    /\ stale \subseteq pending
    /\ deliveries \in [1..MaxEntries -> Nat]
    /\ evicted \subseteq 1..trimmed
    /\ faults \in 0..MaxFaults

(* InitializeRedis: XGROUP CREATE ... 0 MKSTREAM on an empty server.        *)
StreamInit ==
    /\ stream = <<>> /\ lastDelivered = 0 /\ pending = {} /\ stale = {}
    /\ trimmed = 0 /\ evicted = {}
    /\ deliveries = [i \in 1..MaxEntries |-> 0]

-----------------------------------------------------------------------------
(* Redis commands.                                                          *)

(* An entry the group still owes to some consumer.                          *)
Owed(i) == i > lastDelivered \/ i \in pending

(* Of what MAXLEN has cut off, all that was owed is accounted for.          *)
EvictedKnown == \A i \in 1..trimmed : Owed(i) => i \in evicted

(* MAXLEN ~ n trims in whole nodes: never below n entries, often not at all.*)
TrimTo == {t \in trimmed..Len(stream) :
             t = trimmed \/ t + MaxStreamLen <= Len(stream) + 1}

(* XADD indexer:block_stream MAXLEN ~ n * block b                           *)
XAdd(b) ==
    /\ Len(stream) < MaxEntries
    /\ stream' = Append(stream, b)
    /\ \E t \in TrimTo :
          /\ trimmed' = t
          /\ evicted' = evicted \cup {i \in (trimmed + 1)..t : Owed(i)}
    /\ UNCHANGED <<lastDelivered, pending, stale, deliveries>>

Deliver(S) == deliveries' = [i \in 1..MaxEntries |->
                               IF i \in S THEN deliveries[i] + 1 ELSE deliveries[i]]

(* The n entries after the last delivered one that still exist.             *)
Horizon == IF trimmed > lastDelivered THEN trimmed ELSE lastDelivered
ReadTo(n) == IF Horizon + n < Len(stream) THEN Horizon + n ELSE Len(stream)
NewEntries(n) == (Horizon + 1)..ReadTo(n)

(* XREADGROUP GROUP block_processor c COUNT n STREAMS ... >                 *)
XReadGroup(n) ==
    /\ pending' = pending \cup NewEntries(n)
    /\ lastDelivered' = IF NewEntries(n) = {} THEN lastDelivered ELSE ReadTo(n)
    /\ Deliver(NewEntries(n))
    /\ UNCHANGED <<stream, stale, trimmed, evicted>>

(* The n oldest stale entries that still exist.                             *)
Claimable == {i \in stale : i > trimmed}

Claimed(n) == {i \in Claimable : Cardinality({j \in Claimable : j < i}) < n}

(* XAUTOCLAIM ... 0 COUNT n resets the idle time of what it claims and      *)
(* forgets the pending entries that the stream no longer holds.             *)
XAutoClaim(n) ==
    /\ pending' = {i \in pending : i > trimmed}
    /\ stale' = Claimable \ Claimed(n)
    /\ Deliver(Claimed(n))
    /\ UNCHANGED <<stream, lastDelivered, trimmed, evicted>>

(* XACK indexer:block_stream block_processor S                              *)
XAck(S) ==
    /\ pending' = pending \ S
    /\ stale' = stale \ S
    /\ UNCHANGED <<stream, lastDelivered, trimmed, deliveries, evicted>>

(* Time passes: a pending entry has been idle for staleTimeout (4 minutes).  *)
(* Nothing in the code bounds how long a batch takes (http.Client{} has no   *)
(* timeout), so this may happen to an entry that is being processed.         *)
GoesStale(i) ==
    /\ i \in pending \ stale
    /\ stale' = stale \cup {i}
    /\ UNCHANGED <<stream, lastDelivered, pending, trimmed, deliveries, evicted, faults>>

=============================================================================
