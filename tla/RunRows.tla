------------------------------- MODULE RunRows -------------------------------
(***************************************************************************)
(* The SimulationRun table as its two writers see it: apps/api creates a   *)
(* row, apps/worker moves it, and every move is an updateMany whose where  *)
(* clause carries the statuses the row may hold (packages/db/src/runs.ts). *)
(* A column that no decision reads (result, durationMs, mode) is left out. *)
(***************************************************************************)
EXTENDS Environment

VARIABLES
  status,         \* [Runs -> RowStatus]: the status column
  errorMessage    \* [Runs -> FailureCodes]: the failure code column

rowVars == <<status, errorMessage>>

RunStatuses == {"QUEUED", "RUNNING", "DONE", "FAILED"}

\* A run id that names no row yet, and one whose row was deleted.
RowStatus == RunStatuses \union {"ABSENT", "DISCARDED"}

\* "WORK" stands for every code a failure of the simulation itself carries.
FailureCodes == {"NONE", "WORK", "INVALID_CIRCUIT", "WORKER_CRASHED",
                 "QUEUE_UNAVAILABLE"}

Terminal    == {"DONE", "FAILED"}
NonTerminal == {"QUEUED", "RUNNING"}

PredecessorsOf(next) ==
  CASE next = "QUEUED"  -> {}
    [] next = "RUNNING" -> {"QUEUED"}
    [] next \in Terminal -> NonTerminal

RowsTypeOK ==
  /\ status \in [Runs -> RowStatus]
  /\ errorMessage \in [Runs -> FailureCodes]

RowsInit ==
  /\ status = [r \in Runs |-> "ABSENT"]
  /\ errorMessage = [r \in Runs |-> "NONE"]

------------------------------------------------------------------------------
(* The repository. A compare-and-set that matches no row changes nothing;  *)
(* the count it answers is the test "status[r] \in ..." in the same state. *)

CreateRow(r) ==
  /\ status[r] = "ABSENT"
  /\ status' = [status EXCEPT ![r] = "QUEUED"]
  /\ UNCHANGED errorMessage

\* Mutant: a re-delivery claims like a first delivery.
ClaimableOnce(recovery) == {"QUEUED"}

ClaimableBy(recovery) ==
  IF recovery THEN {"QUEUED", "RUNNING"} ELSE {"QUEUED"}

ClaimRow(r, recovery) ==
  /\ status' = IF status[r] \in ClaimableBy(recovery)
               THEN [status EXCEPT ![r] = "RUNNING"] ELSE status
  /\ UNCHANGED errorMessage

\* Mutant: the update is by id alone.
FinishUnconditionally(rs, next, code) ==
  /\ status' = [r \in Runs |-> IF r \in rs THEN next ELSE status[r]]
  /\ errorMessage' = [r \in Runs |-> IF r \in rs THEN code ELSE errorMessage[r]]

\* completeRun, failRun and the write of failStaleRuns, on a set of rows.
FinishRows(rs, next, code) ==
  LET matched == {r \in rs : status[r] \in NonTerminal} IN
  /\ status' = [r \in Runs |-> IF r \in matched THEN next ELSE status[r]]
  /\ errorMessage' =
       [r \in Runs |-> IF r \in matched THEN code ELSE errorMessage[r]]

DiscardRow(r) ==
  /\ status' = IF status[r] = "QUEUED"
               THEN [status EXCEPT ![r] = "DISCARDED"] ELSE status
  /\ UNCHANGED errorMessage

==============================================================================
