----------------------------- MODULE Environment -----------------------------
(***************************************************************************)
(* What the run life cycle is set in: the run ids, and the failures around *)
(* the two processes. Every failure is of a kind, and each one is counted  *)
(* against a budget, so that a check can say which failures it allows and  *)
(* how many of them (MaxFaults is the one bound this module introduces).   *)
(***************************************************************************)
EXTENDS Naturals

CONSTANTS
  Runs,        \* run ids, one per submission that reaches POST /simulate
  Faults,      \* the kinds of failure that may happen, a subset of FaultKinds
  MaxFaults    \* how many failures may happen in one behaviour

VARIABLE faults    \* how many have happened

FaultKinds == {"redis",     \* a Redis command of the API fails, or loses its reply
               "database",  \* a Postgres call fails, or loses its reply
               "api",       \* an API process dies with requests in flight
               "worker",    \* a worker process dies, or stops renewing its locks
               "expiry"}    \* a deduplication key reaches its TTL

ASSUME EnvironmentAssumption == Faults \subseteq FaultKinds /\ MaxFaults \in Nat

FaultsTypeOK == faults \in 0 .. MaxFaults

FaultsInit == faults = 0

Fault(kind) ==
  /\ kind \in Faults
  /\ faults < MaxFaults
  /\ faults' = faults + 1

NoFault == UNCHANGED faults

==============================================================================
