------------------------------ MODULE RunSystem ------------------------------
(***************************************************************************)
(* The life of a simulation run: the submissions of apps/api, the          *)
(* executions of apps/worker and the reaper, over one table and one queue. *)
(***************************************************************************)
EXTENDS SimulateRoute, RunProcessor, Reaper

vars == <<rowVars, queueVars, signalled, routeVars, execVars, announced,
          reaperVars, faults>>

Init ==
  /\ FaultsInit /\ RowsInit /\ QueueInit
  /\ RouteInit /\ ProcessorInit /\ ReaperInit

RouteActs ==
  /\ RouteNext
  /\ UNCHANGED <<signalled, execVars, announced, reaperVars>>

WorkerActs ==
  /\ ProcessorNext
  /\ UNCHANGED <<routeVars, reaperVars>>

\* A run is thirty minutes old. Its own request, bounded by seconds, is over,
\* its key, which lives five minutes, is gone, and so is every request that
\* was sent to it by that key.
RunAges(r) ==
  /\ Ages(r)
  /\ \A s \in Runs : pc[s] \in InFlight => r # s /\ r # winner[s]
  /\ dedupe' = [w \in Works |-> IF dedupe[w] = r THEN Nobody ELSE dedupe[w]]
  /\ expired' = expired \union {w \in Works : dedupe[w] = r}
  /\ UNCHANGED <<pc, winner, seen, missed>>

ReaperActs ==
  /\ \/ Sweep /\ UNCHANGED routeVars
     \/ \E r \in Runs : RunAges(r)
  /\ UNCHANGED <<queueVars, signalled, execVars, announced>>

Settled == \A s \in Runs : pc[s] \notin InFlight

\* Every request is over, every job and every row has ended.
AllOver ==
  /\ Settled
  /\ \A r \in Runs : list[r] \notin Live /\ status[r] \notin NonTerminal
  /\ \A e \in Executors : at[e] = "idle"
  /\ picked = {}
  /\ UNCHANGED vars

Next == RouteActs \/ WorkerActs \/ ReaperActs \/ AllOver

Spec == Init /\ [][Next]_vars

------------------------------------------------------------------------------
(* Fairness. The event loops of the API and of a live worker take the next *)
(* step of what they hold; Redis elapses a backoff and the stalled check   *)
(* runs every STALLED_CHECK_INTERVAL_MS. No failure is ever owed.          *)

RouteMoves(s) ==
  RouteStep(s) /\ UNCHANGED <<signalled, execVars, announced, reaperVars>>

ExecutorMoves(e) == ExecutorStep(e) /\ UNCHANGED <<routeVars, reaperVars>>

QueueFairness ==
  /\ \A s \in Runs : WF_vars(RouteMoves(s))
  /\ \A e \in Executors : WF_vars(ExecutorMoves(e))
  /\ \A r \in Runs : WF_vars(QueueMoves(r) /\ UNCHANGED <<routeVars, reaperVars>>)

\* The interval timer of the reaper, and the clock.
ReaperFairness == WF_vars(ReaperActs)

QueueSpec == Spec /\ QueueFairness
FairSpec  == Spec /\ QueueFairness /\ ReaperFairness

------------------------------------------------------------------------------
(* Properties. *)

\* Every variable holds a value of its kind.
TypeOK ==
  /\ FaultsTypeOK /\ RowsTypeOK /\ QueueTypeOK
  /\ RouteTypeOK /\ ProcessorTypeOK /\ ReaperTypeOK

\* "A terminal status is final" (run.ts): once a row is DONE or FAILED no
\* writer of any process changes its status or its code, however many
\* executions of its job, compensations and sweeps are still under way.
TerminalIsFinal ==
  [][\A r \in Runs : status[r] \in Terminal =>
        status'[r] = status[r] /\ errorMessage'[r] = errorMessage[r]]_vars

\* A job the queue files as completed has a row that ended: a delivery that
\* refuses itself must not leave a row nothing will revisit (processor.ts,
\* "a permanent spinner").
CompletedJobHasEndedRow ==
  \A r \in Runs : list[r] = "completed" => status[r] \in Terminal

\* A run:complete frame is published at most once for a run and carries the
\* status the row ended with, whichever execution published it.
AnnouncedOnceAndTruly ==
  \A r \in Runs : announced[r] \in {<<>>, <<status[r]>>}

\* The completion key of a run is set only once its row has ended: who sees
\* the signal and then reads the row reads the final answer (processor.ts,
\* "the completion signal is last").
SignalFollowsWrite ==
  \A r \in signalled : status[r] \in Terminal

\* A row that was deleted as the loser of a deduplication race is not named
\* by a key, by a job or by an execution: nobody is sent to it and no worker
\* writes into nothing.
DiscardedIsForgotten ==
  \A r \in Runs : status[r] \in {"ABSENT", "DISCARDED"} =>
    /\ list[r] = "absent"
    /\ \A w \in Works : dedupe[w] # r
    /\ \A e \in Executors : job[e] # r

\* The handler's 404, "unreachable through this route", is unreachable.
WinnerIsReadable == \A s \in Runs : pc[s] # "404"

Pending(r) == list[r] # "absent" /\ status[r] \in NonTerminal

\* The works that two unfinished submissions are queued for at once.
DuplicatedWork ==
  {WorkOf[s] : s \in {s \in Runs : \E t \in Runs \ {s} :
                        WorkOf[s] = WorkOf[t] /\ Pending(s) /\ Pending(t)}}

\* Identical work is queued twice at once only if its deduplication key
\* expired, or if a claim found the key gone and went ahead without setting
\* it; a release never opens the way on its own.
DuplicateNeedsLostKey == DuplicatedWork \subseteq expired \union missed

\* A row that is left open with no request, job or execution to move it was
\* left by a request that died or threw, or by a job the queue gave up on.
StrandedHasACause ==
  \A r \in Runs :
    /\ status[r] \in NonTerminal
    /\ pc[r] \notin InFlight
    /\ list[r] \notin Live
    => pc[r] \in {"dead", "500", "503"} \/ list[r] = "failed"

\* Whatever fails, a row that was created ends or is discarded: the reaper is
\* the last line of defence.
EveryRunEnds ==
  \A r \in Runs :
    status[r] \in NonTerminal ~> status[r] \in Terminal \union {"DISCARDED"}

\* "A worker killed mid-job does not lose the job" (packages/jobs/queue.ts):
\* work the queue has accepted ends without the reaper's help, unless the
\* queue gives the job up, its attempts or its stalls spent.
AcceptedWorkEnds ==
  \A r \in Runs :
    list[r] = "waiting" ~> status[r] \in Terminal \/ list[r] = "failed"

Contract == INSTANCE RunContract WITH
              handedOver <- {r \in Runs : list[r] # "absent"}

\* The life cycle implements the contract its clients rely on.
ImplementsContract == Contract!Spec

------------------------------------------------------------------------------
(* The inductive invariant. No safety property above is inductive as it    *)
(* stands: that a completed job has an ended row, say, rests on a first    *)
(* delivery never meeting a RUNNING row, which rests on how many           *)
(* executions a job has had, which rests on who may hold its lock. The     *)
(* parts below are these reasons, from the queue up.                       *)

\* A counter of a job that is not filed as failed is below its limit, a lock
\* is held on an active job by an execution of it, and a job nobody added was
\* never started.
QueueInd ==
  \A r \in Runs :
    /\ list[r] \in Live \union {"absent"} =>
         attemptsMade[r] < JobAttempts /\ stalledCounter[r] <= MaxStalledCount
    /\ lock[r] # NoLock => list[r] = "active" /\ job[lock[r]] = r
    /\ list[r] = "absent" => attemptsStarted[r] = 0

\* An execution that is not idle has a job the queue knows, and an outcome
\* from the moment the pool has settled.
ExecInd ==
  \A e \in Executors :
    /\ at[e] = "idle" <=> job[e] = NoRun
    /\ job[e] # NoRun => list[job[e]] # "absent" /\ attemptsStarted[job[e]] >= 1
    /\ at[e] \in {"write", "announce"} => outcome[e] \in Terminal

\* The steps of a request whose run is not yet named by a key or a job.
Early == {"depth", "create", "claim", "get", "read", "release", "discard"}

\* What a request at a step knows of its own row and of its winner's.
RequestInd(s) ==
  /\ pc[s] \in {"depth", "create", "429"} => status[s] = "ABSENT"
  /\ pc[s] \in {"depth", "create"} => winner[s] = Nobody
  /\ pc[s] \in InFlight \ {"depth", "create"} => status[s] \in RunStatuses
  /\ pc[s] \in Early => list[s] = "absent" /\ \A w \in Works : dedupe[w] # s
  /\ pc[s] \in {"watch", "201", "202"} => list[s] # "absent"
  /\ pc[s] \in {"200", "404"} => status[s] \in Terminal \union {"DISCARDED"}
  /\ pc[s] \in {"read", "release", "discard"} => winner[s] # Nobody
  /\ winner[s] # Nobody =>
       /\ status[winner[s]] \in RunStatuses
       /\ pc[winner[s]] \notin Early
       /\ pc[s] \in {"claim", "get", "release", "discard"} =>
            seen[s] \in RunStatuses

RouteInd == \A s \in Runs : RequestInd(s)

\* A run that is named by a key or by a job has a row, and a row that is
\* RUNNING was started by an execution.
RowInd ==
  \A r \in Runs :
    /\ list[r] # "absent" => status[r] \in RunStatuses
    /\ (\E w \in Works : dedupe[w] = r) => status[r] \in RunStatuses
    /\ status[r] = "RUNNING" => attemptsStarted[r] >= 1

\* Two executions of one job mean two starts. A first delivery that holds its
\* lock is the only execution there has been, so the row it is about to claim
\* is not RUNNING.
DeliveryInd ==
  /\ \A e, f \in Executors :
       e # f /\ job[e] = job[f] /\ job[e] # NoRun =>
         attemptsStarted[job[e]] >= 2
  /\ \A e \in Executors :
       job[e] # NoRun /\ ~recovery[e] /\ lock[job[e]] = e =>
         /\ attemptsStarted[job[e]] = 1
         /\ at[e] \in {"parse", "claim"} => status[job[e]] # "RUNNING"

\* An execution that announces or signals does so for a row that has ended,
\* and one that reports success with its lock leaves such a row behind.
EndingInd ==
  /\ \A e \in Executors :
       /\ at[e] \in {"announce", "signal"} => status[job[e]] \in Terminal
       /\ at[e] = "ack" /\ lock[job[e]] = e => status[job[e]] \in Terminal
  /\ \A r \in Runs : list[r] = "completed" => status[r] \in Terminal
  /\ \A r \in signalled : status[r] \in Terminal

\* At most one execution is about to announce a run, with the status the row
\* has, and nothing was announced for the run before.
FrameInd ==
  /\ \A e \in Executors : at[e] = "announce" =>
       announced[job[e]] = <<>> /\ status[job[e]] = outcome[e]
  /\ \A e, f \in Executors :
       at[e] = "announce" /\ at[f] = "announce" /\ job[e] = job[f] => e = f
  /\ \A r \in Runs :
       /\ announced[r] # <<>> => status[r] \in Terminal
       /\ announced[r] \in {<<>>, <<status[r]>>}

Ind == /\ TypeOK /\ QueueInd /\ ExecInd /\ RouteInd /\ RowInd
       /\ WinnerIsReadable /\ DeliveryInd /\ EndingInd /\ FrameInd

==============================================================================
