---------------------------- MODULE RunProcessor -----------------------------
(***************************************************************************)
(* apps/worker: the BullMQ consumer (queue.ts) and what one delivery of a  *)
(* job does (processor.ts). An execution is a process: it claims the row,  *)
(* runs the work in the pool, writes the answer, announces it, and reports *)
(* to the queue, and a second execution of the same job may be interleaved *)
(* at every step once the first has lost its lock. The pool is a choice of *)
(* outcome here (SimPool models it); progress and the RUNNING frame, which *)
(* decide nothing in this process, are left out.                           *)
(***************************************************************************)
EXTENDS RunRows, JobQueue, Sequences

CONSTANTS
  NoRun,         \* the job of an idle execution
  Malformed      \* runs whose payload does not parse but names its run

VARIABLES
  at,            \* [Executors -> ExecutorPc]: the step an execution is at
  job,           \* [Executors -> Runs \union {NoRun}]
  recovery,      \* [Executors -> BOOLEAN]: ports.recovery of the delivery
  outcome,       \* [Executors -> Terminal \union {"NONE"}]: what the pool said
  announced      \* [Runs -> Seq(Terminal)]: the run:complete frames published

execVars == <<at, job, recovery, outcome>>

ASSUME ProcessorAssumption == NoRun \notin Runs /\ Malformed \subseteq Runs

ExecutorPc == {"idle", "parse", "claim", "run", "write", "announce", "signal",
               "ack", "nack"}

ProcessorTypeOK ==
  /\ at \in [Executors -> ExecutorPc]
  /\ job \in [Executors -> Runs \union {NoRun}]
  /\ recovery \in [Executors -> BOOLEAN]
  /\ outcome \in [Executors -> Terminal \union {"NONE"}]
  /\ announced \in [Runs -> Seq(Terminal)]

ProcessorInit ==
  /\ at = [e \in Executors |-> "idle"]
  /\ job = [e \in Executors |-> NoRun]
  /\ recovery = [e \in Executors |-> FALSE]
  /\ outcome = [e \in Executors |-> "NONE"]
  /\ announced = [r \in Runs |-> <<>>]

Step(e, from, to) == at[e] = from /\ at' = [at EXCEPT ![e] = to]

\* The executions in E hold no job any more.
BecomeIdle(E) ==
  /\ at' = [e \in Executors |-> IF e \in E THEN "idle" ELSE at[e]]
  /\ job' = [e \in Executors |-> IF e \in E THEN NoRun ELSE job[e]]
  /\ recovery' = [e \in Executors |-> IF e \in E THEN FALSE ELSE recovery[e]]
  /\ outcome' = [e \in Executors |-> IF e \in E THEN "NONE" ELSE outcome[e]]

KeepJob == UNCHANGED <<job, recovery, outcome>>
Silent  == UNCHANGED <<announced, signalled>>

------------------------------------------------------------------------------

\* Mutant: only a stalled job counts as re-delivered.
DeliverStalledOnly(e, r) ==
  /\ MoveToActive(r, e)
  /\ Step(e, "idle", "parse")
  /\ job' = [job EXCEPT ![e] = r]
  /\ recovery' = [recovery EXCEPT ![e] = stalledCounter[r] > 0]
  /\ UNCHANGED <<outcome, rowVars>>
  /\ NoFault /\ Silent

\* A delivery. Any execution past the first is a re-delivery, whether the
\* lock expired or the previous execution threw.
Deliver(e, r) ==
  /\ MoveToActive(r, e)
  /\ Step(e, "idle", "parse")
  /\ job' = [job EXCEPT ![e] = r]
  /\ recovery' = [recovery EXCEPT ![e] =
                    stalledCounter[r] > 0 \/ attemptsStarted[r] + 1 > 1]
  /\ UNCHANGED <<outcome, rowVars>>
  /\ NoFault /\ Silent

\* parseJobPayload, and the row of a payload that did not parse.
Parse(e) ==
  /\ \/ /\ job[e] \notin Malformed
        /\ Step(e, "parse", "claim")
        /\ UNCHANGED rowVars
        /\ NoFault
     \/ /\ job[e] \in Malformed
        /\ Step(e, "parse", IF status[job[e]] \in NonTerminal
                            THEN "signal" ELSE "ack")
        /\ FinishRows({job[e]}, "FAILED", "INVALID_CIRCUIT")
        /\ NoFault
     \/ /\ job[e] \in Malformed
        /\ Fault("database")
        /\ Step(e, "parse", "nack")
        /\ FinishRows({job[e]}, "FAILED", "INVALID_CIRCUIT") \/ UNCHANGED rowVars
  /\ KeepJob /\ Silent /\ UNCHANGED queueVars

\* claimRun. A delivery that cannot claim is done; a claim whose answer never
\* came is a RunStorageError, whether or not the row moved.
Claim(e) ==
  /\ \/ /\ Step(e, "claim", IF status[job[e]] \in ClaimableBy(recovery[e])
                            THEN "run" ELSE "ack")
        /\ ClaimRow(job[e], recovery[e])
        /\ NoFault
     \/ /\ Fault("database")
        /\ Step(e, "claim", "nack")
        /\ ClaimRow(job[e], recovery[e]) \/ UNCHANGED rowVars
  /\ KeepJob /\ Silent /\ UNCHANGED queueVars

\* Mutant: the waiting request is told before the row is written.
SettleAndSignal(e) ==
  /\ Step(e, "run", "write")
  /\ \E o \in Terminal : outcome' = [outcome EXCEPT ![e] = o]
  /\ signalled' = signalled \union {job[e]}
  /\ UNCHANGED <<job, recovery, announced, rowVars, queueVars>>
  /\ NoFault

\* pool.run settles: a result, or an error that is a code.
PoolSettles(e) ==
  /\ Step(e, "run", "write")
  /\ \E o \in Terminal : outcome' = [outcome EXCEPT ![e] = o]
  /\ UNCHANGED <<job, recovery, rowVars, queueVars>>
  /\ NoFault /\ Silent

CodeOf(o) == IF o = "DONE" THEN "NONE" ELSE "WORK"

\* completeRun or failRun. A write that matched no row announces nothing, but
\* a failure still signals.
Write(e) ==
  LET write == FinishRows({job[e]}, outcome[e], CodeOf(outcome[e])) IN
  /\ \/ /\ Step(e, "write", IF status[job[e]] \in NonTerminal THEN "announce"
                            ELSE IF outcome[e] = "FAILED" THEN "signal"
                            ELSE "ack")
        /\ write
        /\ NoFault
     \/ /\ Fault("database")
        /\ Step(e, "write", "nack")
        /\ write \/ UNCHANGED rowVars
  /\ KeepJob /\ Silent /\ UNCHANGED queueVars

\* signalQuietly: the key is set, or the failure to set it is swallowed.
SignalQuietly(r) == signalled' \in {signalled, signalled \union {r}}

\* The run:complete frame, published without waiting, and then the signal.
Announce(e) ==
  /\ Step(e, "announce", "ack")
  /\ announced' = [announced EXCEPT ![job[e]] = Append(@, outcome[e])]
  /\ SignalQuietly(job[e])
  /\ KeepJob /\ NoFault /\ UNCHANGED <<rowVars, queueVars>>

Signal(e) ==
  /\ Step(e, "signal", "ack")
  /\ SignalQuietly(job[e])
  /\ KeepJob /\ NoFault /\ UNCHANGED <<announced, rowVars, queueVars>>

\* The processor returned, or threw; the queue is told.
Ack(e) ==
  /\ at[e] = "ack"
  /\ MoveToCompleted(job[e], e)
  /\ BecomeIdle({e})
  /\ NoFault /\ Silent /\ UNCHANGED rowVars

Nack(e) ==
  /\ at[e] = "nack"
  /\ MoveToFailed(job[e], e)
  /\ BecomeIdle({e})
  /\ NoFault /\ Silent /\ UNCHANGED rowVars

\* A worker process dies with the executions E. Nobody renews their locks.
WorkerDies(E) ==
  /\ Fault("worker")
  /\ E # {} /\ \A e \in E : at[e] # "idle"
  /\ BecomeIdle(E)
  /\ lock' = [r \in Runs |-> IF lock[r] \in E THEN NoLock ELSE lock[r]]
  /\ Silent
  /\ UNCHANGED <<rowVars, list, attemptsMade, attemptsStarted, stalledCounter>>

\* A live execution stops renewing for LOCK_DURATION_MS, and carries on.
Starves(r) ==
  /\ Fault("worker")
  /\ LockExpires(r)
  /\ Silent
  /\ UNCHANGED <<rowVars, execVars>>

QueueMoves(r) ==
  /\ Promote(r) \/ RecoverStalled(r)
  /\ NoFault /\ Silent
  /\ UNCHANGED <<rowVars, execVars>>

ExecutorStep(e) ==
  \/ \E r \in Runs : Deliver(e, r)
  \/ Parse(e) \/ Claim(e) \/ PoolSettles(e) \/ Write(e) \/ Announce(e)
  \/ Signal(e) \/ Ack(e) \/ Nack(e)

ProcessorNext ==
  \/ \E e \in Executors : ExecutorStep(e)
  \/ \E E \in SUBSET Executors : WorkerDies(E)
  \/ \E r \in Runs : Starves(r) \/ QueueMoves(r)

==============================================================================
