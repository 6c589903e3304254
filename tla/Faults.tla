------------------------------- MODULE Faults -------------------------------
(***************************************************************************)
(* What can go wrong around the indexer, and how often.  The code has no    *)
(* such budget: MaxFaults is a bound of the models, there so that a run is  *)
(* finite and so that liveness is asked only of behaviours whose faults     *)
(* come to an end.                                                          *)
(***************************************************************************)
EXTENDS Naturals

CONSTANTS Faults,      \* the kinds of fault an instance considers
          MaxFaults    \* bound: how many faults one behaviour has

FaultKinds == {"crash",     \* the process exits and is started again
               "hang",      \* a call of the harvester does not return
               "latest",    \* getEpochInfo answers with a JSON-RPC error
               "lag",       \* an RPC node answers from an older view of the chain
               "batch",     \* a whole getBlock batch request fails
               "block",     \* single getBlock calls of a batch fail
               "redis",     \* a Redis command fails, or is done and its reply lost
               "mongo"}     \* an insert fails, or is done and its reply lost

ASSUME FaultsAssumption == Faults \subseteq FaultKinds /\ MaxFaults \in Nat

VARIABLE faults        \* how many faults have happened

Fail(kind) == kind \in Faults /\ faults < MaxFaults /\ faults' = faults + 1

NoFault == UNCHANGED faults

=============================================================================
