----------------------------- MODULE HardwareRow -----------------------------
(***************************************************************************)
(* One row of the HardwareJob table as its writers see it: the API creates *)
(* and cancels it, the ticks of apps/worker move it, the reaper ends it.   *)
(* Every move is an updateMany whose where clause carries the statuses the *)
(* row may hold (packages/db/src/hardware.ts). Rows share nothing, so one  *)
(* is enough. Timestamps are kept as what the code asks of them: whether   *)
(* lastPolledAt is set, how long ago that was (or submittedAt, when it is  *)
(* not), and whether the row is two days old. The program, written with    *)
(* the row, and the queue position are left out.                           *)
(***************************************************************************)
EXTENDS Naturals

CONSTANTS
  Settings,     \* what a behaviour may assume of its surroundings, see Outside
  MaxIds        \* bound: how many jobs the provider may be sent

VARIABLES
  row,       \* the row, RowType
  quiet,     \* Quiet: how long ago the row was polled, or else submitted
  old,       \* submittedAt is more than HARDWARE_STALE_AFTER_MS ago
  outside    \* the setting of this behaviour, and how many failures happened

rowVars == <<row, quiet>>

FaultKinds == {"database",   \* a Postgres call fails, or loses its reply
               "redis",      \* a queue.add fails, or loses its reply
               "network",    \* the provider cannot be reached, or its answer is lost
               "refusal",    \* the provider refuses for good, or answers nonsense
               "worker",     \* a worker dies, or stops renewing a lock
               "api",        \* an API process dies inside a request
               "owner"}      \* the owner deletes the credential of the job

\* "calls": a tick, a sweep and a request are over within SUBMIT_CLAIM_MS (the
\*   transport aborts a call after ten seconds).
\* "queue": a booked tick starts and a request ends within RESUME_IDLE_MS (the
\*   longest delay of the schedule is two minutes).
\* "poll": what must happen happens within HARDWARE_STALE_AFTER_MS, so that
\*   no row is ever two days old.
\* "results": what the provider says is done can be read some day.
Timings == {"calls", "queue", "poll", "results"}

\* A setting: the kinds of failure that may happen, how many may happen in one
\* behaviour (a bound), and the timing assumptions in force.
Outside == [kinds: SUBSET FaultKinds, max: Nat, timely: SUBSET Timings]

ASSUME SettingsAssumption == Settings \subseteq Outside /\ MaxIds \in Nat

Fault(kind) ==
  /\ kind \in outside.kinds
  /\ outside.happened < outside.max
  /\ outside' = [outside EXCEPT !.happened = @ + 1]

NoFault == UNCHANGED outside

Timely(timing) == timing \in outside.timely

OpenStatus  == {"SUBMITTED", "QUEUED", "RUNNING"}
FinalStatus == {"DONE", "FAILED", "CANCELLED"}

\* SUBMIT_CLAIM_MS tells "fresh" from "cool", RESUME_IDLE_MS "cool" from "idle".
Quiet == {"fresh", "cool", "idle"}

NoId == 0

ErrorCodes == {"NONE", "POLL_ABANDONED", "SUBMIT_ABANDONED", "QUEUE_UNAVAILABLE",
               "CREDENTIAL_MISSING", "PROVIDER_FAILED", "PROVIDER_REFUSED",
               "RESULT_UNREADABLE"}

RowType == [status: {"ABSENT"} \union OpenStatus \union FinalStatus,
            providerJobId: 0 .. MaxIds,
            pollCount: Nat,
            polled: BOOLEAN,          \* lastPolledAt is not null
            credential: BOOLEAN,      \* credentialId is not null
            result: 0 .. MaxIds,      \* the provider job whose samples it holds
            errorMessage: ErrorCodes]

RowTypeOK ==
  /\ row \in RowType
  /\ quiet \in Quiet
  /\ old \in BOOLEAN
  /\ outside \in [kinds: SUBSET FaultKinds, max: Nat, timely: SUBSET Timings,
                 happened: Nat]
  /\ outside.happened <= outside.max

RowInit ==
  /\ row = [status |-> "ABSENT", providerJobId |-> NoId, pollCount |-> 0,
            polled |-> FALSE, credential |-> TRUE, result |-> NoId,
            errorMessage |-> "NONE"]
  /\ quiet = "fresh"
  /\ old = FALSE
  /\ \E o \in Settings :
       outside = [kinds |-> o.kinds, max |-> o.max, timely |-> o.timely, happened |-> 0]

HardwarePredecessorsOf(next) ==
  CASE next = "QUEUED" -> {"SUBMITTED", "QUEUED"}
    [] next \in FinalStatus \union {"RUNNING"} -> OpenStatus
    [] OTHER -> {}

------------------------------------------------------------------------------
(* The repository. "When" is the where clause: a write that matches no row *)
(* changes nothing, and the count it answers is the truth of that clause.  *)

When(matches, next) == row' = IF matches THEN next ELSE row

\* The same, with lastPolledAt set to now.
Touch(matches, next) ==
  /\ When(matches, [next EXCEPT !.polled = TRUE])
  /\ quiet' = IF matches THEN "fresh" ELSE quiet

IsOpen == row.status \in OpenStatus

CreateJob ==
  /\ row.status = "ABSENT"
  /\ row' = [row EXCEPT !.status = "SUBMITTED"]
  /\ quiet' = "fresh"

\* Mutant: the claim does not look at how fresh the last one is.
ClaimableAnyTime == row.status = "SUBMITTED" /\ row.providerJobId = NoId

Claimable ==
  /\ row.status = "SUBMITTED"
  /\ row.providerJobId = NoId
  /\ ~row.polled \/ quiet # "fresh"

ClaimSubmission == Touch(Claimable, [row EXCEPT !.pollCount = @ + 1])

Recordable == row.status = "SUBMITTED"

RecordSubmission(id) ==
  /\ When(Recordable, [row EXCEPT !.status = "QUEUED", !.providerJobId = id])
  /\ UNCHANGED quiet

Observable(next) == row.status \in HardwarePredecessorsOf(next)

RecordObservation(next) ==
  Touch(Observable(next), [row EXCEPT !.status = next, !.pollCount = @ + 1])

CompleteJob(id) ==
  Touch(IsOpen, [row EXCEPT !.status = "DONE", !.result = id,
                            !.errorMessage = "NONE"])

\* Mutant: the failure is written by id alone.
FailAnyJob(code) ==
  Touch(TRUE, [row EXCEPT !.status = "FAILED", !.errorMessage = code,
                          !.result = NoId])

FailJob(code) ==
  Touch(IsOpen, [row EXCEPT !.status = "FAILED", !.errorMessage = code,
                            !.result = NoId])

CancelJob ==
  /\ When(IsOpen, [row EXCEPT !.status = "CANCELLED"])
  /\ UNCHANGED quiet

\* Mutant: only rows that were polled once are looked for.
ResumablePolled == IsOpen /\ row.polled /\ quiet = "idle"

\* findResumable: idle on both branches, polled or not.
Resumable == IsOpen /\ quiet = "idle"

\* Mutant: only a job the device has started can be stale.
FailStaleRunning ==
  /\ old
  /\ row.status = "RUNNING"
  /\ row' = [row EXCEPT !.status = "FAILED", !.errorMessage = "POLL_ABANDONED"]
  /\ UNCHANGED <<quiet, old>>

\* failStaleJobs reads and then writes under the same clause; submittedAt does
\* not move between the two, so the write decides.
FailStaleJobs ==
  /\ old
  /\ IsOpen
  /\ row' = [row EXCEPT !.status = "FAILED", !.errorMessage = "POLL_ABANDONED"]
  /\ UNCHANGED <<quiet, old>>

\* ON DELETE SET NULL, when the owner deletes the credential.
DeleteCredential ==
  /\ row.credential
  /\ row' = [row EXCEPT !.credential = FALSE]
  /\ UNCHANGED <<quiet, old>>

==============================================================================
