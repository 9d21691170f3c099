------------------------------ MODULE JobQueue -------------------------------
(***************************************************************************)
(* The BullMQ queue "simulate", as the options in packages/jobs/src/queue.ts *)
(* and apps/worker/src/queue.ts configure it. The library is external: its *)
(* state per job is the list the job is on, the execution that holds the   *)
(* job's lock, and the three counters the code reads. The job id is the    *)
(* run id, so a second add of one run is ignored.                          *)
(***************************************************************************)
EXTENDS Environment, FiniteSets

CONSTANTS
  Executors,         \* concurrent executions, over all worker processes
  NoLock,            \* the holder of a lock nobody renews
  JobAttempts,       \* JOB_ATTEMPTS
  MaxStalledCount    \* MAX_STALLED_COUNT

VARIABLES
  list,              \* [Runs -> JobList]: where the job is
  lock,              \* [Runs -> Executors \union {NoLock}]
  attemptsMade,      \* [Runs -> Nat]: executions that failed
  attemptsStarted,   \* [Runs -> Nat]: executions that were started
  stalledCounter,    \* [Runs -> Nat]: times the lock expired under it
  signalled          \* the runs whose completion key (`done:`) is set

queueVars == <<list, lock, attemptsMade, attemptsStarted, stalledCounter>>

JobList == {"absent", "waiting", "active", "delayed", "completed", "failed"}
Live    == {"waiting", "active", "delayed"}

ASSUME QueueAssumption ==
  /\ NoLock \notin Executors
  /\ JobAttempts \in Nat \ {0}
  /\ MaxStalledCount \in Nat

QueueTypeOK ==
  /\ list \in [Runs -> JobList]
  /\ lock \in [Runs -> Executors \union {NoLock}]
  /\ attemptsMade \in [Runs -> 0 .. JobAttempts]
  /\ attemptsStarted \in [Runs -> Nat]
  /\ stalledCounter \in [Runs -> 0 .. MaxStalledCount + 1]
  /\ signalled \in SUBSET Runs

QueueInit ==
  /\ list = [j \in Runs |-> "absent"]
  /\ lock = [j \in Runs |-> NoLock]
  /\ attemptsMade = [j \in Runs |-> 0]
  /\ attemptsStarted = [j \in Runs |-> 0]
  /\ stalledCounter = [j \in Runs |-> 0]
  /\ signalled = {}

WaitingJobs == {j \in Runs : list[j] = "waiting"}

------------------------------------------------------------------------------

\* queue.add with an explicit job id: a no-op on an id the queue knows.
Add(j) ==
  /\ list' = IF list[j] = "absent" THEN [list EXCEPT ![j] = "waiting"] ELSE list
  /\ UNCHANGED <<lock, attemptsMade, attemptsStarted, stalledCounter>>

\* A worker's blocking read hands the job to execution e, with its lock.
MoveToActive(j, e) ==
  /\ list[j] = "waiting"
  /\ list' = [list EXCEPT ![j] = "active"]
  /\ lock' = [lock EXCEPT ![j] = e]
  /\ attemptsStarted' = [attemptsStarted EXCEPT ![j] = @ + 1]
  /\ UNCHANGED <<attemptsMade, stalledCounter>>

\* The processor returned. Without the lock the queue refuses the move.
MoveToCompleted(j, e) ==
  /\ list' = IF lock[j] = e THEN [list EXCEPT ![j] = "completed"] ELSE list
  /\ lock' = IF lock[j] = e THEN [lock EXCEPT ![j] = NoLock] ELSE lock
  /\ UNCHANGED <<attemptsMade, attemptsStarted, stalledCounter>>

\* The processor threw: a delayed retry while attempts remain.
MoveToFailed(j, e) ==
  /\ IF lock[j] = e
     THEN /\ attemptsMade' = [attemptsMade EXCEPT ![j] = @ + 1]
          /\ list' = [list EXCEPT ![j] =
               IF attemptsMade[j] + 1 < JobAttempts THEN "delayed" ELSE "failed"]
          /\ lock' = [lock EXCEPT ![j] = NoLock]
     ELSE UNCHANGED <<attemptsMade, list, lock>>
  /\ UNCHANGED <<attemptsStarted, stalledCounter>>

\* The backoff of a delayed retry elapses.
Promote(j) ==
  /\ list[j] = "delayed"
  /\ list' = [list EXCEPT ![j] = "waiting"]
  /\ UNCHANGED <<lock, attemptsMade, attemptsStarted, stalledCounter>>

\* LOCK_DURATION_MS passes without a renewal, whatever became of the holder.
LockExpires(j) ==
  /\ list[j] = "active"
  /\ lock[j] # NoLock
  /\ lock' = [lock EXCEPT ![j] = NoLock]
  /\ UNCHANGED <<list, attemptsMade, attemptsStarted, stalledCounter>>

\* Mutant: no limit on the recoveries of one job.
RecoverForever(j) ==
  /\ list[j] = "active"
  /\ lock[j] = NoLock
  /\ stalledCounter' = [stalledCounter EXCEPT ![j] = @ + 1]
  /\ list' = [list EXCEPT ![j] = "waiting"]
  /\ UNCHANGED <<lock, attemptsMade, attemptsStarted>>

\* The stalled check: back to the waiting list, or failed past the limit.
RecoverStalled(j) ==
  /\ list[j] = "active"
  /\ lock[j] = NoLock
  /\ stalledCounter' = [stalledCounter EXCEPT ![j] = @ + 1]
  /\ list' = [list EXCEPT ![j] =
       IF stalledCounter[j] + 1 > MaxStalledCount THEN "failed" ELSE "waiting"]
  /\ UNCHANGED <<lock, attemptsMade, attemptsStarted>>

==============================================================================
