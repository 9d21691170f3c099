-------------------------- MODULE RunSystem_proofs ---------------------------
(***************************************************************************)
(* What RunSystem states of the run life cycle, proved for any number of   *)
(* runs, executions, attempts, stalls and failures.  First every step      *)
(* keeps the invariant Ind: two lemmas carry what the actors               *)
(* leave alone for each other, a request or the reaper does not disturb    *)
(* the executions, and an execution or the reaper does not disturb the     *)
(* requests, so that each action answers only for the parts that are about *)
(* its own actor.                                                          *)
(***************************************************************************)
EXTENDS RunSystem, TLAPS


------------------------------------------------------------------------------
(* The initial state. *)

\* Ind holds before anything has happened.
LEMMA InitInd == Init => Ind
<1> SUFFICES ASSUME Init PROVE Ind
  OBVIOUS
<1>0. FaultsInit /\ RowsInit /\ QueueInit /\ RouteInit /\ ProcessorInit /\ ReaperInit
  BY DEF Init
<1>1. TypeOK
  <2>1. FaultsTypeOK /\ RowsTypeOK
    BY <1>0, EnvironmentAssumption
       DEF FaultsInit, RowsInit, FaultsTypeOK, RowsTypeOK, RowStatus,
           FailureCodes
  <2>2. QueueTypeOK
    BY <1>0, QueueAssumption DEF QueueInit, QueueTypeOK, JobList
  <2>3. RouteTypeOK
    BY <1>0 DEF RouteInit, RouteTypeOK, RoutePc, InFlight, RowStatus
  <2>4. ProcessorTypeOK
    BY <1>0 DEF ProcessorInit, ProcessorTypeOK, ExecutorPc
  <2>5. ReaperTypeOK
    BY <1>0 DEF ReaperInit, ReaperTypeOK
  <2> QED
    BY <2>1, <2>2, <2>3, <2>4, <2>5 DEF TypeOK
<1>2. QueueInd
  BY <1>0, QueueAssumption DEF QueueAssumption, QueueInit, QueueInd
<1>3. ExecInd
  BY <1>0 DEF ProcessorInit, ExecInd
<1>4. RouteInd
  BY <1>0, RouteAssumption
     DEF RouteInit, QueueInit, RowsInit, RouteInd, RequestInd
<1>5. RowInd
  BY <1>0, RouteAssumption DEF RouteInit, QueueInit, RowsInit, RowInd
<1>6. WinnerIsReadable /\ DeliveryInd
  BY <1>0 DEF RouteInit, ProcessorInit, WinnerIsReadable, DeliveryInd
<1>7. EndingInd /\ FrameInd
  BY <1>0 DEF ProcessorInit, QueueInit, EndingInd, FrameInd
<1> QED
  BY <1>1, <1>2, <1>3, <1>4, <1>5, <1>6, <1>7 DEF Ind

------------------------------------------------------------------------------
(* What the steps of one actor leave alone for the others. *)

\* A row only moves as the transition table allows, apart from being created
\* and discarded: an ended one stays, and only a claim starts one.
RowsObey ==
  \A r \in Runs :
    /\ status[r] \in Terminal => status'[r] = status[r]
    /\ status'[r] = "RUNNING" => status[r] = "RUNNING"

\* A step of a request or of the reaper, which moves rows and at most adds a
\* job, keeps what the queue and the executions rely on.
LEMMA WorkersUndisturbed ==
  ASSUME Ind, TypeOK', RowsObey,
         UNCHANGED <<lock, attemptsMade, attemptsStarted, stalledCounter>>,
         UNCHANGED <<signalled, execVars, announced>>,
         \A r \in Runs :
           list'[r] = list[r] \/ (list[r] = "absent" /\ list'[r] = "waiting")
  PROVE  (QueueInd /\ ExecInd /\ DeliveryInd /\ EndingInd /\ FrameInd)'
<1> USE DEF execVars
<1>1. QueueInd'
  BY DEF Ind, QueueInd, Live
<1>2. ExecInd'
  BY DEF Ind, ExecInd, TypeOK, ProcessorTypeOK
<1>3. DeliveryInd'
  BY DEF Ind, DeliveryInd, RowsObey, TypeOK, ProcessorTypeOK
<1>4. EndingInd'
  <2>1. ASSUME NEW e \in Executors, at[e] # "idle"
        PROVE  job[e] \in Runs
    BY <2>1 DEF Ind, ExecInd, TypeOK, ProcessorTypeOK
  <2>2. \A e \in Executors : EndingInd!1!(e)'
    BY <2>1 DEF Ind, EndingInd, RowsObey
  <2>3. \A r \in Runs : list'[r] = "completed" => status'[r] \in Terminal
    BY DEF Ind, EndingInd, RowsObey
  <2>4. \A r \in signalled' : status'[r] \in Terminal
    BY DEF Ind, EndingInd, RowsObey, TypeOK, QueueTypeOK
  <2> QED
    BY <2>2, <2>3, <2>4 DEF EndingInd
<1>5. FrameInd'
  BY DEF Ind, FrameInd, EndingInd, ExecInd, RowsObey, TypeOK, ProcessorTypeOK
<1> QED
  BY <1>1, <1>2, <1>3, <1>4, <1>5

\* A step of a worker or of the reaper, which ends or starts rows and moves
\* jobs that were added, keeps what the requests rely on.
LEMMA RequestsUndisturbed ==
  ASSUME Ind, UNCHANGED <<pc, winner, seen>>,
         \A w \in Works : dedupe'[w] = dedupe[w] \/ dedupe'[w] = Nobody,
         \A r \in Runs :
           /\ status[r] \in RunStatuses => status'[r] \in RunStatuses
           /\ status[r] \notin NonTerminal => status'[r] = status[r]
           /\ list[r] = "absent" <=> list'[r] = "absent"
           /\ status'[r] = "RUNNING" => status[r] = "RUNNING" \/ attemptsStarted'[r] >= 1
           /\ attemptsStarted[r] >= 1 => attemptsStarted'[r] >= 1
  PROVE  (RouteInd /\ RowInd /\ WinnerIsReadable)'
<1>1. RouteInd'
  <2> SUFFICES ASSUME NEW s \in Runs PROVE RequestInd(s)'
    BY DEF RouteInd
  <2> USE DEF Ind, RouteInd, RequestInd
  <2>1. /\ pc[s] \in Early => \A w \in Works : dedupe'[w] # s
        /\ winner[s] # Nobody => winner[s] \in Runs
    BY RouteAssumption DEF RouteAssumption, TypeOK, RouteTypeOK
  <2>2. status[s] \in {"ABSENT"} \union RunStatuses \union Terminal \union {"DISCARDED"}
    BY DEF TypeOK, RowsTypeOK, RowStatus
  <2> QED
    BY <2>1, <2>2 DEF Terminal, NonTerminal, RunStatuses
<1>2. RowInd'
  BY RouteAssumption DEF Ind, RowInd
<1>3. WinnerIsReadable'
  BY DEF Ind, WinnerIsReadable
<1> QED
  BY <1>1, <1>2, <1>3

------------------------------------------------------------------------------
(* What a call of the repository does to each row. *)

\* A row is created once, as QUEUED, and no other row moves.
LEMMA CreateRowFacts ==
  ASSUME RowsTypeOK, NEW r \in Runs, CreateRow(r)
  PROVE  /\ RowsTypeOK'
         /\ RowsObey
         /\ status[r] = "ABSENT" /\ status'[r] = "QUEUED"
         /\ \A q \in Runs \ {r} : status'[q] = status[q]
BY DEF CreateRow, RowsTypeOK, RowStatus, RunStatuses, RowsObey, Terminal

\* Ending rows moves exactly those that had not ended.
LEMMA FinishRowsFacts ==
  ASSUME RowsTypeOK, NEW rs \in SUBSET Runs, NEW next \in Terminal,
         NEW code \in FailureCodes, FinishRows(rs, next, code)
  PROVE  /\ RowsTypeOK'
         /\ RowsObey
         /\ \A q \in Runs :
              status'[q] = IF q \in rs /\ status[q] \in NonTerminal
                           THEN next ELSE status[q]
BY DEF FinishRows, RowsTypeOK, RowStatus, RunStatuses, RowsObey, Terminal,
   NonTerminal

\* A claim moves its own row, from a status it may claim.
LEMMA ClaimRowFacts ==
  ASSUME RowsTypeOK, NEW r \in Runs, NEW rec \in BOOLEAN, ClaimRow(r, rec)
  PROVE  /\ RowsTypeOK'
         /\ \A q \in Runs :
              status'[q] = IF q = r /\ status[q] \in ClaimableBy(rec)
                           THEN "RUNNING" ELSE status[q]
BY DEF ClaimRow, RowsTypeOK, RowStatus, RunStatuses

\* A discard deletes its own row, and only while it is QUEUED.
LEMMA DiscardRowFacts ==
  ASSUME RowsTypeOK, NEW r \in Runs, DiscardRow(r)
  PROVE  /\ RowsTypeOK'
         /\ RowsObey
         /\ status'[r] = IF status[r] = "QUEUED" THEN "DISCARDED" ELSE status[r]
         /\ \A q \in Runs \ {r} : status'[q] = status[q]
BY DEF DiscardRow, RowsTypeOK, RowStatus, RunStatuses, RowsObey, Terminal

------------------------------------------------------------------------------
(* The submissions. *)

\* A step of a submission costs at most one failure.
LEMMA RouteStepFaults ==
  ASSUME FaultsTypeOK, NEW s \in Runs, RouteStep(s)
  PROVE  FaultsTypeOK'
<1> USE EnvironmentAssumption DEF EnvironmentAssumption, FaultsTypeOK, Fault, NoFault
<1>1. CASE AssertQueueHasRoom(s)
  BY <1>1 DEF AssertQueueHasRoom
<1>2. CASE CreateRun(s)
  BY <1>2 DEF CreateRun
<1>3. CASE ClaimKey(s)
  BY <1>3 DEF ClaimKey
<1>4. CASE GetWinner(s)
  BY <1>4 DEF GetWinner
<1>5. CASE ReadWinner(s)
  BY <1>5 DEF ReadWinner
<1>6. CASE ReleaseKey(s)
  BY <1>6 DEF ReleaseKey
<1>7. CASE DiscardRun(s)
  BY <1>7 DEF DiscardRun
<1>8. CASE Enqueue(s)
  BY <1>8 DEF Enqueue
<1>9. CASE Compensate(s)
  BY <1>9 DEF Compensate
<1>10. CASE Watch(s)
  BY <1>10 DEF Watch
<1> QED
  BY <1>1, <1>2, <1>3, <1>4, <1>5, <1>6, <1>7, <1>8, <1>9, <1>10 DEF RouteStep

\* It makes at most one write, to its own row, at one of three steps.
LEMMA RouteStepRows ==
  ASSUME NEW s \in Runs, RouteStep(s)
  PROVE  \/ NoRows
         \/ pc[s] = "create" /\ CreateRow(s)
         \/ pc[s] = "discard" /\ DiscardRow(s)
         \/ pc[s] = "compensate" /\ FinishRows({s}, "FAILED", "QUEUE_UNAVAILABLE")
<1>1. CASE AssertQueueHasRoom(s)
  BY <1>1, Zenon DEF AssertQueueHasRoom
<1>2. CASE CreateRun(s)
  BY <1>2, Zenon DEF CreateRun
<1>3. CASE ClaimKey(s)
  BY <1>3, Zenon DEF ClaimKey
<1>4. CASE GetWinner(s)
  BY <1>4, Zenon DEF GetWinner
<1>5. CASE ReadWinner(s)
  BY <1>5, Zenon DEF ReadWinner
<1>6. CASE ReleaseKey(s)
  BY <1>6, Zenon DEF ReleaseKey
<1>7. CASE DiscardRun(s)
  BY <1>7, Zenon DEF DiscardRun
<1>8. CASE Enqueue(s)
  BY <1>8, Zenon DEF Enqueue
<1>9. CASE Compensate(s)
  BY <1>9, Zenon DEF Compensate
<1>10. CASE Watch(s)
  BY <1>10, Zenon DEF Watch
<1> QED
  BY <1>1, <1>2, <1>3, <1>4, <1>5, <1>6, <1>7, <1>8, <1>9, <1>10 DEF RouteStep

\* It adds at most its own job, at one step.
LEMMA RouteStepQueue ==
  ASSUME NEW s \in Runs, RouteStep(s)
  PROVE  NoQueue \/ (pc[s] = "enqueue" /\ Add(s))
<1>1. CASE AssertQueueHasRoom(s)
  BY <1>1, Zenon DEF AssertQueueHasRoom
<1>2. CASE CreateRun(s)
  BY <1>2, Zenon DEF CreateRun
<1>3. CASE ClaimKey(s)
  BY <1>3, Zenon DEF ClaimKey
<1>4. CASE GetWinner(s)
  BY <1>4, Zenon DEF GetWinner
<1>5. CASE ReadWinner(s)
  BY <1>5, Zenon DEF ReadWinner
<1>6. CASE ReleaseKey(s)
  BY <1>6, Zenon DEF ReleaseKey
<1>7. CASE DiscardRun(s)
  BY <1>7, Zenon DEF DiscardRun
<1>8. CASE Enqueue(s)
  BY <1>8, Zenon DEF Enqueue
<1>9. CASE Compensate(s)
  BY <1>9, Zenon DEF Compensate
<1>10. CASE Watch(s)
  BY <1>10, Zenon DEF Watch
<1> QED
  BY <1>1, <1>2, <1>3, <1>4, <1>5, <1>6, <1>7, <1>8, <1>9, <1>10 DEF RouteStep

\* An add puts a job that was absent on the waiting list, and no other.
LEMMA AddFacts ==
  ASSUME QueueTypeOK, NEW j \in Runs, Add(j), UNCHANGED signalled
  PROVE  /\ QueueTypeOK'
         /\ UNCHANGED <<lock, attemptsMade, attemptsStarted, stalledCounter>>
         /\ list'[j] = IF list[j] = "absent" THEN "waiting" ELSE list[j]
         /\ \A r \in Runs \ {j} : list'[r] = list[r]
BY DEF Add, QueueTypeOK, JobList

\* What a step of a submission does to the table and to the queue, by the step.
RouteEffect(s) ==
  /\ RowsObey
  /\ \A r \in Runs \ {s} : status'[r] = status[r] /\ list'[r] = list[r]
  /\ \/ status'[s] = status[s]
     \/ pc[s] = "create" /\ status'[s] = "QUEUED"
     \/ pc[s] = "discard" /\ status[s] = "QUEUED" /\ status'[s] = "DISCARDED"
     \/ pc[s] = "compensate" /\ status'[s] = "FAILED"
  /\ \/ list'[s] = list[s]
     \/ pc[s] = "enqueue" /\ list[s] = "absent" /\ list'[s] = "waiting"
  /\ UNCHANGED <<lock, attemptsMade, attemptsStarted, stalledCounter>>

\* Every step of a submission has that effect and keeps the types.
LEMMA RouteStepElsewhere ==
  ASSUME RowsTypeOK, QueueTypeOK, NEW s \in Runs, RouteStep(s), UNCHANGED signalled
  PROVE  (RowsTypeOK /\ QueueTypeOK)' /\ RouteEffect(s)
<1> USE DEF RouteEffect
<1>1. /\ RowsTypeOK' /\ RowsObey
      /\ \A r \in Runs \ {s} : status'[r] = status[r]
      /\ \/ status'[s] = status[s]
         \/ pc[s] = "create" /\ status'[s] = "QUEUED"
         \/ pc[s] = "discard" /\ status[s] = "QUEUED" /\ status'[s] = "DISCARDED"
         \/ pc[s] = "compensate" /\ status'[s] = "FAILED"
  <2>1. CASE NoRows
    BY <2>1 DEF NoRows, rowVars, RowsTypeOK, RowsObey
  <2>2. CASE pc[s] = "create" /\ CreateRow(s)
    BY <2>2, CreateRowFacts
  <2>3. CASE pc[s] = "discard" /\ DiscardRow(s)
    BY <2>3, DiscardRowFacts
  <2>4. CASE pc[s] = "compensate" /\ FinishRows({s}, "FAILED", "QUEUE_UNAVAILABLE")
    <3>1. "FAILED" \in Terminal /\ "QUEUE_UNAVAILABLE" \in FailureCodes
      BY DEF Terminal, FailureCodes
    <3> QED
      BY <2>4, <3>1, FinishRowsFacts
  <2> QED
    BY <2>1, <2>2, <2>3, <2>4, RouteStepRows
<1>2. CASE NoQueue
  BY <1>1, <1>2 DEF NoQueue, queueVars, QueueTypeOK
<1>3. CASE pc[s] = "enqueue" /\ Add(s)
  BY <1>1, <1>3, AddFacts
<1> QED
  BY <1>2, <1>3, RouteStepQueue

\* Of the variables of the requests, a step moves its own entries, and the key
\* of its work, which it sets to itself or clears.
LEMMA RouteStepShape ==
  ASSUME Ind, NEW s \in Runs, RouteStep(s)
  PROVE  /\ RouteTypeOK'
         /\ \A t \in Runs \ {s} :
              pc'[t] = pc[t] /\ winner'[t] = winner[t] /\ seen'[t] = seen[t]
         /\ \A w \in Works :
              \/ dedupe'[w] \in {dedupe[w], Nobody}
              \/ pc[s] = "claim" /\ dedupe'[w] = s
<1> USE RouteAssumption DEF RouteAssumption, Goto, NoKey
<1>0. WorkOf[s] \in Works /\ RouteTypeOK
  BY DEF Works, Ind, TypeOK
<1>1. CASE AssertQueueHasRoom(s)
  <2>1. RouteTypeOK'
    BY <1>0, <1>1
       DEF AssertQueueHasRoom, RouteTypeOK, RoutePc, InFlight, Answered
  <2>2. \A t \in Runs \ {s} :
          pc'[t] = pc[t] /\ winner'[t] = winner[t] /\ seen'[t] = seen[t]
    BY <1>0, <1>1 DEF AssertQueueHasRoom, RouteTypeOK
  <2>3. \A w \in Works : \/ dedupe'[w] \in {dedupe[w], Nobody}
                         \/ pc[s] = "claim" /\ dedupe'[w] = s
    BY <1>0, <1>1 DEF AssertQueueHasRoom, RouteTypeOK
  <2> QED
    BY <2>1, <2>2, <2>3
<1>2. CASE CreateRun(s)
  <2>1. RouteTypeOK'
    BY <1>0, <1>2 DEF CreateRun, RouteTypeOK, RoutePc, InFlight, Answered
  <2>2. \A t \in Runs \ {s} :
          pc'[t] = pc[t] /\ winner'[t] = winner[t] /\ seen'[t] = seen[t]
    BY <1>0, <1>2 DEF CreateRun, RouteTypeOK
  <2>3. \A w \in Works : \/ dedupe'[w] \in {dedupe[w], Nobody}
                         \/ pc[s] = "claim" /\ dedupe'[w] = s
    BY <1>0, <1>2 DEF CreateRun, RouteTypeOK
  <2> QED
    BY <2>1, <2>2, <2>3
<1>3. CASE ClaimKey(s)
  <2>1. RouteTypeOK'
    BY <1>0, <1>3 DEF ClaimKey, RouteTypeOK, RoutePc, InFlight, SetKey
  <2>2. \A t \in Runs \ {s} :
          pc'[t] = pc[t] /\ winner'[t] = winner[t] /\ seen'[t] = seen[t]
    BY <1>0, <1>3 DEF ClaimKey, RouteTypeOK
  <2>3. \A w \in Works : \/ dedupe'[w] \in {dedupe[w], Nobody}
                         \/ pc[s] = "claim" /\ dedupe'[w] = s
    BY <1>0, <1>3 DEF ClaimKey, RouteTypeOK, SetKey
  <2> QED
    BY <2>1, <2>2, <2>3
<1>4. CASE GetWinner(s)
  <2>1. RouteTypeOK'
    BY <1>0, <1>4 DEF GetWinner, RouteTypeOK, RoutePc, InFlight
  <2>2. \A t \in Runs \ {s} :
          pc'[t] = pc[t] /\ winner'[t] = winner[t] /\ seen'[t] = seen[t]
    BY <1>0, <1>4 DEF GetWinner, RouteTypeOK
  <2>3. \A w \in Works : \/ dedupe'[w] \in {dedupe[w], Nobody}
                         \/ pc[s] = "claim" /\ dedupe'[w] = s
    BY <1>0, <1>4 DEF GetWinner, RouteTypeOK
  <2> QED
    BY <2>1, <2>2, <2>3
<1>5. CASE ReadWinner(s)
  <2>1. RouteTypeOK'
    BY <1>0, <1>5
       DEF ReadWinner, RouteTypeOK, RoutePc, InFlight, Answered, Ind, RouteInd,
           RequestInd, RowStatus
  <2>2. \A t \in Runs \ {s} :
          pc'[t] = pc[t] /\ winner'[t] = winner[t] /\ seen'[t] = seen[t]
    BY <1>0, <1>5 DEF ReadWinner, RouteTypeOK
  <2>3. \A w \in Works : \/ dedupe'[w] \in {dedupe[w], Nobody}
                         \/ pc[s] = "claim" /\ dedupe'[w] = s
    BY <1>0, <1>5 DEF ReadWinner, RouteTypeOK
  <2> QED
    BY <2>1, <2>2, <2>3
<1>6. CASE ReleaseKey(s)
  <2>1. RouteTypeOK'
    BY <1>0, <1>6
       DEF ReleaseKey, RouteTypeOK, RoutePc, InFlight, Answered, ClearKey
  <2>2. \A t \in Runs \ {s} :
          pc'[t] = pc[t] /\ winner'[t] = winner[t] /\ seen'[t] = seen[t]
    BY <1>0, <1>6 DEF ReleaseKey, RouteTypeOK
  <2>3. \A w \in Works : \/ dedupe'[w] \in {dedupe[w], Nobody}
                         \/ pc[s] = "claim" /\ dedupe'[w] = s
    BY <1>0, <1>6 DEF ReleaseKey, RouteTypeOK, ClearKey
  <2> QED
    BY <2>1, <2>2, <2>3
<1>7. CASE DiscardRun(s)
  <2>1. RouteTypeOK'
    BY <1>0, <1>7 DEF DiscardRun, RouteTypeOK, RoutePc, Answered
  <2>2. \A t \in Runs \ {s} :
          pc'[t] = pc[t] /\ winner'[t] = winner[t] /\ seen'[t] = seen[t]
    BY <1>0, <1>7 DEF DiscardRun, RouteTypeOK
  <2>3. \A w \in Works : \/ dedupe'[w] \in {dedupe[w], Nobody}
                         \/ pc[s] = "claim" /\ dedupe'[w] = s
    BY <1>0, <1>7 DEF DiscardRun, RouteTypeOK
  <2> QED
    BY <2>1, <2>2, <2>3
<1>8. CASE Enqueue(s)
  <2>1. RouteTypeOK'
    BY <1>0, <1>8 DEF Enqueue, RouteTypeOK, RoutePc, InFlight
  <2>2. \A t \in Runs \ {s} :
          pc'[t] = pc[t] /\ winner'[t] = winner[t] /\ seen'[t] = seen[t]
    BY <1>0, <1>8 DEF Enqueue, RouteTypeOK
  <2>3. \A w \in Works : \/ dedupe'[w] \in {dedupe[w], Nobody}
                         \/ pc[s] = "claim" /\ dedupe'[w] = s
    BY <1>0, <1>8 DEF Enqueue, RouteTypeOK
  <2> QED
    BY <2>1, <2>2, <2>3
<1>9. CASE Compensate(s)
  <2>1. RouteTypeOK'
    BY <1>0, <1>9 DEF Compensate, RouteTypeOK, RoutePc, Answered
  <2>2. \A t \in Runs \ {s} :
          pc'[t] = pc[t] /\ winner'[t] = winner[t] /\ seen'[t] = seen[t]
    BY <1>0, <1>9 DEF Compensate, RouteTypeOK
  <2>3. \A w \in Works : \/ dedupe'[w] \in {dedupe[w], Nobody}
                         \/ pc[s] = "claim" /\ dedupe'[w] = s
    BY <1>0, <1>9 DEF Compensate, RouteTypeOK
  <2> QED
    BY <2>1, <2>2, <2>3
<1>10. CASE Watch(s)
  <2>1. RouteTypeOK'
    BY <1>0, <1>10 DEF Watch, RouteTypeOK, RoutePc, Answered
  <2>2. \A t \in Runs \ {s} :
          pc'[t] = pc[t] /\ winner'[t] = winner[t] /\ seen'[t] = seen[t]
    BY <1>0, <1>10 DEF Watch, RouteTypeOK
  <2>3. \A w \in Works : \/ dedupe'[w] \in {dedupe[w], Nobody}
                         \/ pc[s] = "claim" /\ dedupe'[w] = s
    BY <1>0, <1>10 DEF Watch, RouteTypeOK
  <2> QED
    BY <2>1, <2>2, <2>3
<1> QED
  BY <1>1, <1>2, <1>3, <1>4, <1>5, <1>6, <1>7, <1>8, <1>9, <1>10 DEF RouteStep

\* A request past the early steps does not return to them.
LEMMA RouteStepLeavesEarly ==
  ASSUME RouteTypeOK, NEW s \in Runs, RouteStep(s), pc[s] \notin Early
  PROVE  pc'[s] \notin Early
<1> USE DEF RouteTypeOK, Goto, Early
<1>1. CASE AssertQueueHasRoom(s)
  BY <1>1 DEF AssertQueueHasRoom
<1>2. CASE CreateRun(s)
  BY <1>2 DEF CreateRun
<1>3. CASE ClaimKey(s)
  BY <1>3 DEF ClaimKey
<1>4. CASE GetWinner(s)
  BY <1>4 DEF GetWinner
<1>5. CASE ReadWinner(s)
  BY <1>5 DEF ReadWinner
<1>6. CASE ReleaseKey(s)
  BY <1>6 DEF ReleaseKey
<1>7. CASE DiscardRun(s)
  BY <1>7 DEF DiscardRun
<1>8. CASE Enqueue(s)
  BY <1>8 DEF Enqueue
<1>9. CASE Compensate(s)
  BY <1>9 DEF Compensate
<1>10. CASE Watch(s)
  BY <1>10 DEF Watch
<1> QED
  BY <1>1, <1>2, <1>3, <1>4, <1>5, <1>6, <1>7, <1>8, <1>9, <1>10 DEF RouteStep

\* The step keeps what its own request knows, and does not end at "404".
LEMMA RouteStepOwn ==
  ASSUME Ind, NEW s \in Runs, RouteStep(s), UNCHANGED signalled
  PROVE  RequestInd(s)' /\ pc'[s] # "404"
<1> DEFINE Known(r) == status'[r] \in RunStatuses /\ pc'[r] \notin Early
<1>i. RequestInd(s) /\ pc[s] # "404"
  BY DEF Ind, RouteInd, WinnerIsReadable
<1>t. RouteTypeOK /\ RowsTypeOK /\ QueueTypeOK
  BY DEF Ind, TypeOK
<1>e. RouteEffect(s)
  BY <1>t, RouteStepElsewhere
<1>w. ASSUME NEW r \in Runs, status[r] \in RunStatuses, pc[r] \notin Early
      PROVE  Known(r)
  BY <1>t, <1>w, <1>e, RouteStepShape, RouteStepLeavesEarly
     DEF RouteEffect, Early, RunStatuses
<1>v. winner[s] \in Runs \union {Nobody} /\ WorkOf[s] \in Works
  BY <1>t DEF RouteTypeOK, Works
<1>x. winner[s] # Nobody => Known(winner[s])
  BY <1>i, <1>v, <1>w DEF RequestInd
<1>y. ASSUME NEW r \in Runs, r = dedupe[WorkOf[s]], r # s
      PROVE  Known(r)
  BY <1>v, <1>w, <1>y DEF Ind, RowInd, RouteInd, RequestInd
<1>z. list[s] = "absent" => status[s] # "RUNNING"
  BY DEF Ind, RowInd, QueueInd
<1> USE RouteAssumption DEF RouteAssumption, RequestInd, InFlight, Early, Goto,
        NoKey, RouteTypeOK, RowsTypeOK, QueueTypeOK
<1>1. CASE AssertQueueHasRoom(s)
  BY <1>1, <1>i, <1>t
     DEF AssertQueueHasRoom, NoRows, rowVars, NoQueue, queueVars
<1>2. CASE CreateRun(s)
  BY <1>2, <1>i, <1>t DEF CreateRun, RunStatuses, CreateRow, NoQueue, queueVars
<1>3. CASE ClaimKey(s)
  BY <1>3, <1>i, <1>t DEF ClaimKey, NoRows, rowVars, NoQueue, queueVars
<1>4. CASE GetWinner(s)
  BY <1>4, <1>i, <1>t, <1>v, <1>y
     DEF GetWinner, NoRows, rowVars, NoQueue, queueVars
<1>5. CASE ReadWinner(s)
  BY <1>5, <1>i, <1>t DEF ReadWinner, NoRows, rowVars, NoQueue, queueVars
<1>6. CASE ReleaseKey(s)
  BY <1>6, <1>i, <1>t
     DEF ReleaseKey, ClearKey, NoRows, rowVars, NoQueue, queueVars
<1>7. CASE DiscardRun(s)
  BY <1>7, <1>i, <1>t, <1>x, <1>z
     DEF DiscardRun, DiscardRow, RunStatuses, Terminal
<1>8. CASE Enqueue(s)
  BY <1>8, <1>i, <1>t DEF Enqueue, Add, NoRows, rowVars
<1>9. CASE Compensate(s)
  BY <1>9, <1>t, <1>x DEF Compensate
<1>10. CASE Watch(s)
  BY <1>10, <1>i, <1>t, <1>x DEF Watch, NoQueue, queueVars
<1> QED
  BY <1>1, <1>2, <1>3, <1>4, <1>5, <1>6, <1>7, <1>8, <1>9, <1>10 DEF RouteStep

\* A step of a submission keeps the whole invariant.
LEMMA RouteStepKeeps ==
  ASSUME Ind, NEW s \in Runs, RouteStep(s),
         UNCHANGED <<signalled, execVars, announced, reaperVars>>
  PROVE  Ind'
<1>1. /\ RouteEffect(s) /\ RowsObey
      /\ TypeOK'
  <2>1. FaultsTypeOK'
    BY RouteStepFaults DEF Ind, TypeOK
  <2>2. (RowsTypeOK /\ QueueTypeOK)' /\ RouteEffect(s)
    BY RouteStepElsewhere DEF Ind, TypeOK
  <2>3. RouteTypeOK'
    BY RouteStepShape
  <2>4. (ProcessorTypeOK /\ ReaperTypeOK)'
    BY DEF Ind, TypeOK, ProcessorTypeOK, ReaperTypeOK, execVars, reaperVars
  <2> QED
    BY <2>1, <2>2, <2>3, <2>4 DEF TypeOK, RouteEffect
<1>2. (QueueInd /\ ExecInd /\ DeliveryInd /\ EndingInd /\ FrameInd)'
  <2>1. \A r \in Runs :
          list'[r] = list[r] \/ (list[r] = "absent" /\ list'[r] = "waiting")
    BY <1>1 DEF RouteEffect
  <2>2. UNCHANGED <<lock, attemptsMade, attemptsStarted, stalledCounter>>
    BY <1>1 DEF RouteEffect
  <2> QED
    BY <1>1, <2>1, <2>2, WorkersUndisturbed
<1>3. RouteInd'
  <2> SUFFICES ASSUME NEW t \in Runs PROVE RequestInd(t)'
    BY DEF RouteInd
  <2>1. CASE t = s
    BY <2>1, RouteStepOwn
  <2>2. CASE t # s
    <3>1. /\ pc'[t] = pc[t] /\ winner'[t] = winner[t] /\ seen'[t] = seen[t]
          /\ status'[t] = status[t] /\ list'[t] = list[t]
          /\ \A w \in Works : dedupe'[w] \in {dedupe[w], Nobody, s}
          /\ winner[t] \in Runs \union {Nobody}
      BY <1>1, <2>2, RouteStepShape DEF RouteEffect, RouteTypeOK
    <3>2. winner[t] # Nobody => /\ status'[winner[t]] \in RunStatuses
                                /\ pc'[winner[t]] \notin Early
      <4>1. CASE winner[t] \in Runs \ {s}
        BY <4>1, <1>1, RouteStepShape DEF RouteEffect, Ind, RouteInd, RequestInd
      <4>2. CASE winner[t] = s
        BY <4>2, <1>1, RouteStepLeavesEarly
           DEF RouteEffect, Ind, TypeOK, RouteInd, RequestInd, Early,
               RunStatuses
      <4> QED
        BY <3>1, <4>1, <4>2
    <3> QED
      BY <2>2, <3>1, <3>2, RouteAssumption DEF Ind, RouteInd, RequestInd
  <2> QED
    BY <2>1, <2>2
<1>4. RowInd'
  <2> SUFFICES ASSUME NEW r \in Runs
               PROVE  /\ list'[r] # "absent" => status'[r] \in RunStatuses
                      /\ (\E w \in Works : dedupe'[w] = r) => status'[r] \in RunStatuses
                      /\ status'[r] = "RUNNING" => attemptsStarted'[r] >= 1
    BY DEF RowInd
  <2>1. status'[r] = "RUNNING" => attemptsStarted'[r] >= 1
    BY <1>1 DEF RouteEffect, Ind, RowInd
  <2>2. list'[r] # "absent" => status'[r] \in RunStatuses
    BY <1>1
       DEF RouteEffect, Ind, RowInd, RouteInd, RequestInd, InFlight, Early,
           RunStatuses
  <2>3. ASSUME NEW w \in Works, dedupe'[w] = r PROVE status'[r] \in RunStatuses
    <3>1. \/ dedupe[w] = r
          \/ r = s /\ pc[s] = "claim"
      BY <2>3, RouteStepShape, RouteAssumption DEF RouteAssumption
    <3>2. CASE dedupe[w] = r
      BY <1>1, <3>2
         DEF RouteEffect, Ind, RowInd, RouteInd, RequestInd, Early, RunStatuses
    <3>3. CASE r = s /\ pc[s] = "claim"
      BY <1>1, <3>3 DEF RouteEffect, Ind, RouteInd, RequestInd, InFlight
    <3> QED
      BY <3>1, <3>2, <3>3
  <2> QED
    BY <2>1, <2>2, <2>3
<1>5. WinnerIsReadable'
  BY RouteStepOwn, RouteStepShape DEF Ind, WinnerIsReadable
<1> QED
  BY <1>1, <1>2, <1>3, <1>4, <1>5 DEF Ind

\* Requests that die leave their rows, their keys and their jobs where they were.
LEMMA ApiDiesKeeps ==
  ASSUME Ind, NEW S \in SUBSET Runs, ApiDies(S),
         UNCHANGED <<signalled, execVars, announced, reaperVars>>
  PROVE  Ind'
<1> USE DEF ApiDies, NoRows, rowVars, NoQueue, queueVars, NoKey
<1>1. TypeOK'
  <2>1. FaultsTypeOK'
    BY EnvironmentAssumption DEF Ind, TypeOK, FaultsTypeOK, Fault
  <2>2. (RowsTypeOK /\ QueueTypeOK)'
    BY DEF Ind, TypeOK, RowsTypeOK, QueueTypeOK
  <2>3. RouteTypeOK'
    BY DEF Ind, TypeOK, RouteTypeOK, RoutePc
  <2>4. (ProcessorTypeOK /\ ReaperTypeOK)'
    BY DEF Ind, TypeOK, ProcessorTypeOK, ReaperTypeOK, execVars, reaperVars
  <2> QED
    BY <2>1, <2>2, <2>3, <2>4 DEF TypeOK
<1>2. (QueueInd /\ ExecInd /\ DeliveryInd /\ EndingInd /\ FrameInd)'
  BY <1>1, WorkersUndisturbed DEF RowsObey
<1>3. RouteInd'
  <2> SUFFICES ASSUME NEW s \in Runs PROVE RequestInd(s)'
    BY DEF RouteInd
  <2>1. \A r \in Runs : pc'[r] = IF r \in S THEN "dead" ELSE pc[r]
    OBVIOUS
  <2>2. "dead" \notin InFlight /\ "dead" \notin Early
    BY DEF InFlight, Early
  <2>3. winner[s] \in Runs \union {Nobody}
    BY DEF Ind, TypeOK, RouteTypeOK
  <2> QED
    BY <2>1, <2>2, <2>3 DEF Ind, RouteInd, RequestInd
<1>4. (RowInd /\ WinnerIsReadable)'
  BY DEF Ind, RowInd, WinnerIsReadable
<1> QED
  BY <1>1, <1>2, <1>3, <1>4 DEF Ind

\* A key that expires is only forgotten: the invariant asks for no key.
LEMMA KeyExpiresKeeps ==
  ASSUME Ind, NEW w \in Works, KeyExpires(w),
         UNCHANGED <<signalled, execVars, announced, reaperVars>>
  PROVE  Ind'
<1> USE DEF KeyExpires, NoRows, rowVars, NoQueue, queueVars, ClearKey
<1>1. TypeOK'
  <2>1. FaultsTypeOK'
    BY EnvironmentAssumption DEF Ind, TypeOK, FaultsTypeOK, Fault
  <2>2. (RowsTypeOK /\ QueueTypeOK)'
    BY DEF Ind, TypeOK, RowsTypeOK, QueueTypeOK
  <2>3. RouteTypeOK'
    BY DEF Ind, TypeOK, RouteTypeOK
  <2>4. (ProcessorTypeOK /\ ReaperTypeOK)'
    BY DEF Ind, TypeOK, ProcessorTypeOK, ReaperTypeOK, execVars, reaperVars
  <2> QED
    BY <2>1, <2>2, <2>3, <2>4 DEF TypeOK
<1>2. (QueueInd /\ ExecInd /\ DeliveryInd /\ EndingInd /\ FrameInd)'
  BY <1>1, WorkersUndisturbed DEF RowsObey
<1>3. \A v \in Works : dedupe'[v] = dedupe[v] \/ dedupe'[v] = Nobody
  BY DEF Ind, TypeOK, RouteTypeOK
<1>4. (RouteInd /\ RowInd /\ WinnerIsReadable)'
  BY <1>3, RequestsUndisturbed
<1> QED
  BY <1>1, <1>2, <1>4 DEF Ind

------------------------------------------------------------------------------
(* The executions: the steps that keep the job and leave the queue alone.  *)

\* What an execution may do to the row of its job: start it or end it.
RowAdvances(r) ==
  /\ \A q \in Runs \ {r} : status'[q] = status[q]
  /\ \/ status'[r] = status[r]
     \/ status[r] \in NonTerminal /\ status'[r] \in Terminal \union {"RUNNING"}

\* Parse, Claim, PoolSettles, Write, Announce and Signal have this shape.
InPlace(e) ==
  /\ at[e] # "idle"
  /\ at'[e] \in ExecutorPc \ {"idle", "parse"}
  /\ at' = [at EXCEPT ![e] = at'[e]]
  /\ at'[e] = "claim" => at[e] = "parse" /\ status' = status
  /\ RowAdvances(job[e])
  /\ RowsTypeOK'
  /\ UNCHANGED <<queueVars, job, recovery>>

\* An execution that is not idle has a job that was started, with a row.
LEMMA HoldsItsJob ==
  ASSUME Ind, NEW e \in Executors, at[e] # "idle"
  PROVE  /\ job[e] \in Runs /\ job[e] # NoRun
         /\ list[job[e]] # "absent" /\ attemptsStarted[job[e]] >= 1
         /\ status[job[e]] \in RunStatuses
BY DEF Ind, ExecInd, RowInd, TypeOK, ProcessorTypeOK

\* Such a step keeps the queue's, the deliveries' and the requests' parts.
LEMMA InPlaceKeeps ==
  ASSUME Ind, NEW e \in Executors, InPlace(e), UNCHANGED <<routeVars, reaperVars>>
  PROVE  (QueueInd /\ DeliveryInd /\ RouteInd /\ RowInd /\ WinnerIsReadable)'
<1>j. /\ job[e] \in Runs /\ job[e] # NoRun
      /\ attemptsStarted[job[e]] >= 1 /\ status[job[e]] \in RunStatuses
  BY HoldsItsJob DEF InPlace
<1>1. QueueInd'
  BY DEF Ind, QueueInd, InPlace, queueVars
<1>2. DeliveryInd'
  BY DEF Ind, DeliveryInd, InPlace, queueVars, RowAdvances, TypeOK,
         ProcessorTypeOK
<1>3. \A r \in Runs :
           /\ status[r] \in RunStatuses => status'[r] \in RunStatuses
           /\ status[r] \notin NonTerminal => status'[r] = status[r]
           /\ list[r] = "absent" <=> list'[r] = "absent"
           /\ status'[r] = "RUNNING" => status[r] = "RUNNING" \/ attemptsStarted'[r] >= 1
           /\ attemptsStarted[r] >= 1 => attemptsStarted'[r] >= 1
  BY <1>j DEF InPlace, RowAdvances, queueVars, RunStatuses, Terminal
<1>4. (RouteInd /\ RowInd /\ WinnerIsReadable)'
  BY <1>3, RequestsUndisturbed DEF routeVars
<1> QED
  BY <1>1, <1>2, <1>4

\* The part of the type invariant that such a step can disturb.
LEMMA InPlaceTypeOK ==
  ASSUME Ind, NEW e \in Executors, InPlace(e), UNCHANGED <<routeVars, reaperVars>>,
         FaultsTypeOK',
         signalled' \in SUBSET Runs,
         outcome' \in [Executors -> Terminal \union {"NONE"}],
         announced' \in [Runs -> Seq(Terminal)]
  PROVE  TypeOK'
<1>1. QueueTypeOK'
  BY DEF Ind, TypeOK, QueueTypeOK, InPlace, queueVars
<1>2. (RouteTypeOK /\ ReaperTypeOK)'
  BY DEF Ind, TypeOK, RouteTypeOK, ReaperTypeOK, routeVars, reaperVars
<1>3. ProcessorTypeOK'
  BY DEF Ind, TypeOK, ProcessorTypeOK, InPlace
<1> QED
  BY <1>1, <1>2, <1>3 DEF TypeOK, InPlace

\* It keeps EndingInd, if what it goes on to signal or report has ended.
LEMMA InPlaceEnding ==
  ASSUME Ind, NEW e \in Executors, InPlace(e),
         signalled' \in {signalled, signalled \union {job[e]}},
         signalled' # signalled \/ at'[e] \in {"announce", "signal"}
           => status'[job[e]] \in Terminal,
         at'[e] = "ack" /\ lock[job[e]] = e => status'[job[e]] \in Terminal
  PROVE  EndingInd'
<1>1. \A r \in Runs : status[r] \in Terminal => status'[r] = status[r]
  BY DEF InPlace, RowAdvances, Terminal, NonTerminal
<1>2. ASSUME NEW f \in Executors \ {e}
      PROVE  at'[f] = at[f] /\ job'[f] = job[f] /\ (at[f] # "idle" => job[f] \in Runs)
  BY HoldsItsJob DEF InPlace, Ind, TypeOK, ProcessorTypeOK
<1>3. job'[e] = job[e] /\ lock' = lock /\ list' = list
  BY DEF InPlace, queueVars
<1>4. ASSUME NEW f \in Executors
      PROVE  /\ at'[f] \in {"announce", "signal"} => status'[job'[f]] \in Terminal
             /\ at'[f] = "ack" /\ lock'[job'[f]] = f => status'[job'[f]] \in Terminal
  <2>1. CASE f = e
    BY <2>1, <1>3
  <2>2. CASE f # e
    BY <2>2, <1>1, <1>2, <1>3 DEF Ind, EndingInd
  <2> QED
    BY <2>1, <2>2
<1>5. \A r \in Runs : list'[r] = "completed" => status'[r] \in Terminal
  BY <1>1, <1>3 DEF Ind, EndingInd
<1>6. \A r \in signalled' : status'[r] \in Terminal
  BY <1>1 DEF Ind, EndingInd, TypeOK, QueueTypeOK
<1> QED
  BY <1>4, <1>5, <1>6 DEF EndingInd

\* It keeps FrameInd, if it goes on to announce only a row it has just ended.
LEMMA InPlaceFrame ==
  ASSUME Ind, NEW e \in Executors, InPlace(e), UNCHANGED announced,
         \A f \in Executors \ {e} : outcome'[f] = outcome[f],
         at'[e] = "announce" =>
           /\ status[job[e]] \in NonTerminal
           /\ status'[job[e]] = outcome'[e]
  PROVE  FrameInd'
<1>j. job[e] \in Runs
  BY HoldsItsJob DEF InPlace
<1>1. \A r \in Runs : status[r] \in Terminal => status'[r] = status[r]
  BY DEF InPlace, RowAdvances, Terminal, NonTerminal
<1>2. ASSUME NEW f \in Executors \ {e}, at[f] = "announce"
      PROVE  /\ job[f] \in Runs
             /\ status'[job[f]] = outcome'[f] /\ announced'[job[f]] = <<>>
             /\ at'[e] = "announce" => job[f] # job[e]
  BY <1>1, <1>2, HoldsItsJob DEF Ind, EndingInd, FrameInd, Terminal, NonTerminal
<1>3. at'[e] = "announce" => announced[job[e]] = <<>>
  BY <1>j DEF Ind, FrameInd, Terminal, NonTerminal
<1>4. \A f \in Executors \ {e} : at'[f] = at[f]
  BY DEF InPlace, Ind, TypeOK, ProcessorTypeOK
<1>5. job' = job
  BY DEF InPlace
<1>6. \A r \in Runs : /\ announced'[r] # <<>> => status'[r] \in Terminal
                      /\ announced'[r] \in {<<>>, <<status'[r]>>}
  BY <1>1 DEF Ind, FrameInd
<1>7. \A f \in Executors : at'[f] = "announce" =>
        announced'[job'[f]] = <<>> /\ status'[job'[f]] = outcome'[f]
  BY <1>2, <1>3, <1>4, <1>5
<1>8. \A f, g \in Executors :
        at'[f] = "announce" /\ at'[g] = "announce" /\ job'[f] = job'[g] => f = g
  BY <1>2, <1>4, <1>5 DEF Ind, FrameInd
<1> QED
  BY <1>6, <1>7, <1>8 DEF FrameInd

\* No step of an execution costs more than one failure.
LEMMA InPlaceFaults ==
  ASSUME FaultsTypeOK, NEW e \in Executors,
         Parse(e) \/ Claim(e) \/ PoolSettles(e) \/ Write(e) \/ Announce(e) \/ Signal(e)
  PROVE  FaultsTypeOK'
<1> USE EnvironmentAssumption DEF EnvironmentAssumption, FaultsTypeOK, Fault, NoFault
<1>1. CASE Parse(e)
  BY <1>1 DEF Parse
<1>2. CASE Claim(e)
  BY <1>2 DEF Claim
<1>3. CASE PoolSettles(e)
  BY <1>3 DEF PoolSettles
<1>4. CASE Write(e)
  BY <1>4 DEF Write
<1>5. CASE Announce(e)
  BY <1>5 DEF Announce
<1>6. CASE Signal(e)
  BY <1>6 DEF Signal
<1> QED
  BY <1>1, <1>2, <1>3, <1>4, <1>5, <1>6

\* A payload that does not parse ends its row, or has no row left to end.
LEMMA ParseKeeps ==
  ASSUME Ind, NEW e \in Executors, Parse(e), UNCHANGED <<routeVars, reaperVars>>
  PROVE  Ind'
<1>a. at[e] # "idle"
  BY DEF Parse, Step
<1>j. /\ job[e] \in Runs /\ job[e] # NoRun
      /\ list[job[e]] # "absent" /\ attemptsStarted[job[e]] >= 1
      /\ status[job[e]] \in RunStatuses
  BY <1>a, HoldsItsJob
<1>t. RowsTypeOK /\ ProcessorTypeOK /\ QueueTypeOK /\ FaultsTypeOK
  BY DEF Ind, TypeOK
<1>r. RowsTypeOK' /\ RowAdvances(job[e])
  BY <1>t
     DEF Parse, FinishRows, RowsTypeOK, RowStatus, RunStatuses, RowAdvances,
         Terminal, FailureCodes, rowVars
<1>p. InPlace(e)
  BY <1>r, <1>t
     DEF InPlace, Parse, Step, ProcessorTypeOK, ExecutorPc, KeepJob, rowVars
<1>1. TypeOK'
  <2>1. FaultsTypeOK'
    BY <1>t, InPlaceFaults
  <2>2. /\ signalled' \in SUBSET Runs
        /\ outcome' \in [Executors -> Terminal \union {"NONE"}]
        /\ announced' \in [Runs -> Seq(Terminal)]
    BY <1>t DEF Parse, Silent, KeepJob, QueueTypeOK, ProcessorTypeOK
  <2> QED
    BY <1>p, <2>1, <2>2, InPlaceTypeOK
<1>2. (QueueInd /\ DeliveryInd /\ RouteInd /\ RowInd /\ WinnerIsReadable)'
  BY <1>p, InPlaceKeeps
<1>3. ExecInd'
  BY <1>t DEF Ind, ExecInd, Parse, Step, KeepJob, queueVars, ProcessorTypeOK
<1>4. EndingInd'
  <2>1. signalled' = signalled /\ at[e] \notin {"announce", "signal", "ack"}
    BY DEF Parse, Step, Silent
  <2>2. /\ at'[e] \in {"announce", "signal"} => status'[job[e]] \in Terminal
        /\ at'[e] = "ack" /\ lock[job[e]] = e => status'[job[e]] \in Terminal
    BY <1>t, <1>j
       DEF Parse, Step, FinishRows, Terminal, NonTerminal, RunStatuses,
           ProcessorTypeOK
  <2> QED
    BY <1>p, <2>1, <2>2, InPlaceEnding
<1>5. FrameInd'
  <2>1. /\ announced' = announced
        /\ \A f \in Executors \ {e} : outcome'[f] = outcome[f]
    BY DEF Parse, Silent, KeepJob
  <2>2. at'[e] = "announce" => /\ status[job[e]] \in NonTerminal
                              /\ status'[job[e]] = outcome'[e]
    BY <1>t DEF Parse, Step, ProcessorTypeOK
  <2> QED
    BY <1>p, <2>1, <2>2, InPlaceFrame
<1> QED
  BY <1>1, <1>2, <1>3, <1>4, <1>5 DEF Ind

\* A claim that is refused leaves a row that ended, or has no lock to report
\* success with: the case analysis CompletedJobHasEndedRow rests on.
LEMMA ClaimKeeps ==
  ASSUME Ind, NEW e \in Executors, Claim(e), UNCHANGED <<routeVars, reaperVars>>
  PROVE  Ind'
<1>a. at[e] # "idle"
  BY DEF Claim, Step
<1>j. /\ job[e] \in Runs /\ job[e] # NoRun
      /\ list[job[e]] # "absent" /\ attemptsStarted[job[e]] >= 1
      /\ status[job[e]] \in RunStatuses
  BY <1>a, HoldsItsJob
<1>t. RowsTypeOK /\ ProcessorTypeOK /\ QueueTypeOK /\ FaultsTypeOK
  BY DEF Ind, TypeOK
<1>r. RowsTypeOK' /\ RowAdvances(job[e])
  BY <1>t
     DEF Claim, ClaimRow, RowsTypeOK, RowStatus, RunStatuses, RowAdvances,
         NonTerminal, rowVars, ClaimableBy
<1>p. InPlace(e)
  BY <1>r, <1>t DEF InPlace, Claim, Step, ProcessorTypeOK, ExecutorPc, KeepJob
<1>1. TypeOK'
  <2>1. FaultsTypeOK'
    BY <1>t, InPlaceFaults
  <2>2. /\ signalled' \in SUBSET Runs
        /\ outcome' \in [Executors -> Terminal \union {"NONE"}]
        /\ announced' \in [Runs -> Seq(Terminal)]
    BY <1>t DEF Claim, Silent, KeepJob, QueueTypeOK, ProcessorTypeOK
  <2> QED
    BY <1>p, <2>1, <2>2, InPlaceTypeOK
<1>2. (QueueInd /\ DeliveryInd /\ RouteInd /\ RowInd /\ WinnerIsReadable)'
  BY <1>p, InPlaceKeeps
<1>3. ExecInd'
  BY <1>t DEF Ind, ExecInd, Claim, Step, KeepJob, queueVars, ProcessorTypeOK
<1>4. EndingInd'
  <2>1. signalled' = signalled /\ at[e] \notin {"announce", "signal", "ack"}
    BY DEF Claim, Step, Silent
  <2>2. /\ at'[e] \in {"announce", "signal"} => status'[job[e]] \in Terminal
        /\ at'[e] = "ack" /\ lock[job[e]] = e => status'[job[e]] \in Terminal
    BY <1>t, <1>j
       DEF Claim, Step, Ind, DeliveryInd, ClaimableBy, Terminal, RunStatuses,
           ClaimRow, ProcessorTypeOK
  <2> QED
    BY <1>p, <2>1, <2>2, InPlaceEnding
<1>5. FrameInd'
  <2>1. /\ announced' = announced
        /\ \A f \in Executors \ {e} : outcome'[f] = outcome[f]
    BY DEF Claim, Silent, KeepJob
  <2>2. at'[e] = "announce" => /\ status[job[e]] \in NonTerminal
                              /\ status'[job[e]] = outcome'[e]
    BY <1>t DEF Claim, Step, ProcessorTypeOK
  <2> QED
    BY <1>p, <2>1, <2>2, InPlaceFrame
<1> QED
  BY <1>1, <1>2, <1>3, <1>4, <1>5 DEF Ind

\* The outcome is recorded; nothing else moves.
LEMMA PoolSettlesKeeps ==
  ASSUME Ind, NEW e \in Executors, PoolSettles(e), UNCHANGED <<routeVars, reaperVars>>
  PROVE  Ind'
<1>a. at[e] # "idle"
  BY DEF PoolSettles, Step
<1>j. /\ job[e] \in Runs /\ job[e] # NoRun
      /\ list[job[e]] # "absent" /\ attemptsStarted[job[e]] >= 1
      /\ status[job[e]] \in RunStatuses
  BY <1>a, HoldsItsJob
<1>t. RowsTypeOK /\ ProcessorTypeOK /\ QueueTypeOK /\ FaultsTypeOK
  BY DEF Ind, TypeOK
<1>r. RowsTypeOK' /\ RowAdvances(job[e])
  BY <1>t DEF PoolSettles, RowsTypeOK, RowAdvances, rowVars
<1>p. InPlace(e)
  BY <1>r, <1>t DEF InPlace, PoolSettles, Step, ProcessorTypeOK, ExecutorPc
<1>1. TypeOK'
  <2>1. FaultsTypeOK'
    BY <1>t, InPlaceFaults
  <2>2. /\ signalled' \in SUBSET Runs
        /\ outcome' \in [Executors -> Terminal \union {"NONE"}]
        /\ announced' \in [Runs -> Seq(Terminal)]
    BY <1>t DEF PoolSettles, Silent, QueueTypeOK, ProcessorTypeOK
  <2> QED
    BY <1>p, <2>1, <2>2, InPlaceTypeOK
<1>2. (QueueInd /\ DeliveryInd /\ RouteInd /\ RowInd /\ WinnerIsReadable)'
  BY <1>p, InPlaceKeeps
<1>3. ExecInd'
  BY <1>t DEF Ind, ExecInd, PoolSettles, Step, queueVars, ProcessorTypeOK
<1>4. EndingInd'
  <2>1. signalled' = signalled /\ at[e] \notin {"announce", "signal", "ack"}
    BY DEF PoolSettles, Step, Silent
  <2>2. /\ at'[e] \in {"announce", "signal"} => status'[job[e]] \in Terminal
        /\ at'[e] = "ack" /\ lock[job[e]] = e => status'[job[e]] \in Terminal
    BY DEF PoolSettles, Step
  <2> QED
    BY <1>p, <2>1, <2>2, InPlaceEnding
<1>5. FrameInd'
  <2>1. /\ announced' = announced
        /\ \A f \in Executors \ {e} : outcome'[f] = outcome[f]
    BY DEF PoolSettles, Silent
  <2>2. at'[e] = "announce" => /\ status[job[e]] \in NonTerminal
                              /\ status'[job[e]] = outcome'[e]
    BY DEF PoolSettles, Step
  <2> QED
    BY <1>p, <2>1, <2>2, InPlaceFrame
<1> QED
  BY <1>1, <1>2, <1>3, <1>4, <1>5 DEF Ind

\* Only the write that moved the row goes on to announce it.
LEMMA WriteKeeps ==
  ASSUME Ind, NEW e \in Executors, Write(e), UNCHANGED <<routeVars, reaperVars>>
  PROVE  Ind'
<1>a. at[e] # "idle"
  BY DEF Write, Step
<1>j. /\ job[e] \in Runs /\ job[e] # NoRun
      /\ list[job[e]] # "absent" /\ attemptsStarted[job[e]] >= 1
      /\ status[job[e]] \in RunStatuses
  BY <1>a, HoldsItsJob
<1>t. RowsTypeOK /\ ProcessorTypeOK /\ QueueTypeOK /\ FaultsTypeOK
  BY DEF Ind, TypeOK
<1>o. outcome[e] \in Terminal /\ CodeOf(outcome[e]) \in FailureCodes
  BY DEF Write, Step, Ind, ExecInd, CodeOf, FailureCodes
<1>r. RowsTypeOK' /\ RowAdvances(job[e])
  <2>1. CASE FinishRows({job[e]}, outcome[e], CodeOf(outcome[e]))
    BY <1>o, <1>j, <1>t, <2>1, FinishRowsFacts DEF RowAdvances
  <2>2. CASE UNCHANGED rowVars
    BY <1>t, <2>2 DEF RowsTypeOK, RowAdvances, rowVars
  <2> QED
    BY <2>1, <2>2 DEF Write
<1>p. InPlace(e)
  BY <1>r, <1>t DEF InPlace, Write, Step, ProcessorTypeOK, ExecutorPc, KeepJob
<1>1. TypeOK'
  <2>1. FaultsTypeOK'
    BY <1>t, InPlaceFaults
  <2>2. /\ signalled' \in SUBSET Runs
        /\ outcome' \in [Executors -> Terminal \union {"NONE"}]
        /\ announced' \in [Runs -> Seq(Terminal)]
    BY <1>t DEF Write, Silent, KeepJob, QueueTypeOK, ProcessorTypeOK
  <2> QED
    BY <1>p, <2>1, <2>2, InPlaceTypeOK
<1>2. (QueueInd /\ DeliveryInd /\ RouteInd /\ RowInd /\ WinnerIsReadable)'
  BY <1>p, InPlaceKeeps
<1>3. ExecInd'
  BY <1>t DEF Ind, ExecInd, Write, Step, KeepJob, queueVars, ProcessorTypeOK
<1>4. EndingInd'
  <2>1. signalled' = signalled /\ at[e] \notin {"announce", "signal", "ack"}
    BY DEF Write, Step, Silent
  <2>2. /\ at'[e] \in {"announce", "signal"} => status'[job[e]] \in Terminal
        /\ at'[e] = "ack" /\ lock[job[e]] = e => status'[job[e]] \in Terminal
    BY <1>t, <1>j, <1>o
       DEF Write, Step, FinishRows, Terminal, NonTerminal, RunStatuses,
           ProcessorTypeOK
  <2> QED
    BY <1>p, <2>1, <2>2, InPlaceEnding
<1>5. FrameInd'
  <2>1. /\ announced' = announced
        /\ \A f \in Executors \ {e} : outcome'[f] = outcome[f]
    BY DEF Write, Silent, KeepJob
  <2>2. at'[e] = "announce" => /\ status[job[e]] \in NonTerminal
                              /\ status'[job[e]] = outcome'[e]
    BY <1>t, <1>j DEF Write, Step, FinishRows, KeepJob, ProcessorTypeOK
  <2> QED
    BY <1>p, <2>1, <2>2, InPlaceFrame
<1> QED
  BY <1>1, <1>2, <1>3, <1>4, <1>5 DEF Ind

\* The one announcement of a run carries the status its row has.
LEMMA AnnounceKeeps ==
  ASSUME Ind, NEW e \in Executors, Announce(e), UNCHANGED <<routeVars, reaperVars>>
  PROVE  Ind'
<1>a. at[e] # "idle"
  BY DEF Announce, Step
<1>j. /\ job[e] \in Runs /\ job[e] # NoRun
      /\ list[job[e]] # "absent" /\ attemptsStarted[job[e]] >= 1
      /\ status[job[e]] \in RunStatuses
  BY <1>a, HoldsItsJob
<1>t. RowsTypeOK /\ ProcessorTypeOK /\ QueueTypeOK /\ FaultsTypeOK
  BY DEF Ind, TypeOK
<1>r. RowsTypeOK' /\ RowAdvances(job[e])
  BY <1>t DEF Announce, RowsTypeOK, RowAdvances, rowVars
<1>p. InPlace(e)
  BY <1>r, <1>t
     DEF InPlace, Announce, Step, ProcessorTypeOK, ExecutorPc, KeepJob
<1>1. TypeOK'
  <2>1. FaultsTypeOK'
    BY <1>t, InPlaceFaults
  <2>2. /\ signalled' \in SUBSET Runs
        /\ outcome' \in [Executors -> Terminal \union {"NONE"}]
        /\ announced' \in [Runs -> Seq(Terminal)]
    BY <1>t
       DEF Announce, KeepJob, SignalQuietly, QueueTypeOK, ProcessorTypeOK, Step,
           Ind, ExecInd
  <2> QED
    BY <1>p, <2>1, <2>2, InPlaceTypeOK
<1>2. (QueueInd /\ DeliveryInd /\ RouteInd /\ RowInd /\ WinnerIsReadable)'
  BY <1>p, InPlaceKeeps
<1>3. ExecInd'
  BY DEF Ind, ExecInd, Announce, Step, KeepJob, queueVars
<1>4. EndingInd'
  <2>1. status'[job[e]] \in Terminal /\ signalled' \in {signalled, signalled \union {job[e]}}
    BY DEF Announce, Step, SignalQuietly, Ind, EndingInd, rowVars
  <2> QED
    BY <1>p, <2>1, InPlaceEnding
<1>5. FrameInd'
  <2>1. /\ status[job[e]] = outcome[e] /\ outcome[e] \in Terminal
        /\ announced[job[e]] = <<>>
    BY DEF Announce, Step, Ind, EndingInd, FrameInd
  <2>2. announced' = [announced EXCEPT ![job[e]] = <<status[job[e]]>>]
    BY <2>1 DEF Announce
  <2>3. status' = status /\ job' = job /\ outcome' = outcome
    BY DEF Announce, KeepJob, rowVars
  <2>4. \A f \in Executors : at'[f] = "announce" =>
          at[f] = "announce" /\ job[f] # job[e]
    BY <1>t DEF Announce, Step, ProcessorTypeOK, Ind, FrameInd
  <2> QED
    BY <1>t, <1>j, <2>1, <2>2, <2>3, <2>4 DEF Ind, FrameInd, ProcessorTypeOK
<1> QED
  BY <1>1, <1>2, <1>3, <1>4, <1>5 DEF Ind

\* A signal that is sent without an announcement is for a row that ended.
LEMMA SignalKeeps ==
  ASSUME Ind, NEW e \in Executors, Signal(e), UNCHANGED <<routeVars, reaperVars>>
  PROVE  Ind'
<1>a. at[e] # "idle"
  BY DEF Signal, Step
<1>j. /\ job[e] \in Runs /\ job[e] # NoRun
      /\ list[job[e]] # "absent" /\ attemptsStarted[job[e]] >= 1
      /\ status[job[e]] \in RunStatuses
  BY <1>a, HoldsItsJob
<1>t. RowsTypeOK /\ ProcessorTypeOK /\ QueueTypeOK /\ FaultsTypeOK
  BY DEF Ind, TypeOK
<1>r. RowsTypeOK' /\ RowAdvances(job[e])
  BY <1>t DEF Signal, RowsTypeOK, RowAdvances, rowVars
<1>p. InPlace(e)
  BY <1>r, <1>t DEF InPlace, Signal, Step, ProcessorTypeOK, ExecutorPc, KeepJob
<1>1. TypeOK'
  <2>1. FaultsTypeOK'
    BY <1>t, InPlaceFaults
  <2>2. /\ signalled' \in SUBSET Runs
        /\ outcome' \in [Executors -> Terminal \union {"NONE"}]
        /\ announced' \in [Runs -> Seq(Terminal)]
    BY <1>j, <1>t
       DEF Signal, KeepJob, SignalQuietly, QueueTypeOK, ProcessorTypeOK
  <2> QED
    BY <1>p, <2>1, <2>2, InPlaceTypeOK
<1>2. (QueueInd /\ DeliveryInd /\ RouteInd /\ RowInd /\ WinnerIsReadable)'
  BY <1>p, InPlaceKeeps
<1>3. ExecInd'
  BY DEF Ind, ExecInd, Signal, Step, KeepJob, queueVars
<1>4. EndingInd'
  <2>1. status'[job[e]] \in Terminal /\ signalled' \in {signalled, signalled \union {job[e]}}
    BY DEF Signal, Step, SignalQuietly, Ind, EndingInd, rowVars
  <2> QED
    BY <1>p, <2>1, InPlaceEnding
<1>5. FrameInd'
  <2>1. announced' = announced /\ outcome' = outcome /\ at'[e] # "announce"
    BY DEF Signal, Step, KeepJob
  <2> QED
    BY <1>p, <2>1, InPlaceFrame
<1> QED
  BY <1>1, <1>2, <1>3, <1>4, <1>5 DEF Ind

------------------------------------------------------------------------------
(* The steps that move a job, or that end an execution.                    *)

\* A step that writes no row and announces nothing keeps what the requests rely
\* on, as long as jobs stay in the queue.
LEMMA RowsStandStill ==
  ASSUME Ind, UNCHANGED <<routeVars, rowVars>>,
         \A r \in Runs :
           /\ list[r] = "absent" <=> list'[r] = "absent"
           /\ attemptsStarted[r] >= 1 => attemptsStarted'[r] >= 1
  PROVE  (RouteInd /\ RowInd /\ WinnerIsReadable)'
BY RequestsUndisturbed DEF routeVars, rowVars

\* A delivery is a start more, which the row cannot have seen yet.
LEMMA DeliverKeeps ==
  ASSUME Ind, NEW e \in Executors, NEW r \in Runs, Deliver(e, r),
         UNCHANGED <<routeVars, reaperVars>>
  PROVE  Ind'
<1>t. FaultsTypeOK /\ RowsTypeOK /\ QueueTypeOK /\ ProcessorTypeOK
  BY DEF Ind, TypeOK
<1>1. TypeOK'
  <2>1. FaultsTypeOK'
    BY <1>t DEF FaultsTypeOK, Deliver, NoFault
  <2>2. RowsTypeOK'
    BY <1>t DEF RowsTypeOK, Deliver, rowVars
  <2>3. QueueTypeOK'
    BY <1>t DEF QueueTypeOK, JobList, Deliver, MoveToActive, Silent
  <2>4. ProcessorTypeOK'
    BY <1>t DEF ProcessorTypeOK, ExecutorPc, Deliver, Step, Silent
  <2>5. (RouteTypeOK /\ ReaperTypeOK)'
    BY DEF Ind, TypeOK, RouteTypeOK, ReaperTypeOK, routeVars, reaperVars
  <2> QED
    BY <2>1, <2>2, <2>3, <2>4, <2>5 DEF TypeOK
<1>2. QueueInd'
  BY <1>t, ProcessorAssumption
     DEF Ind, QueueInd, QueueTypeOK, ProcessorTypeOK, Live, ExecInd, Deliver,
         MoveToActive, Step
<1>3. ExecInd'
  BY <1>t, ProcessorAssumption
     DEF Ind, ExecInd, QueueTypeOK, ProcessorTypeOK, Deliver, MoveToActive, Step
<1>4. (RouteInd /\ RowInd /\ WinnerIsReadable)'
  <2>1. \A q \in Runs :
           /\ list[q] = "absent" <=> list'[q] = "absent"
           /\ attemptsStarted[q] >= 1 => attemptsStarted'[q] >= 1
    BY <1>t DEF QueueTypeOK, Deliver, MoveToActive
  <2>2. UNCHANGED rowVars
    BY DEF Deliver
  <2> QED
    BY <2>1, <2>2, RowsStandStill
<1>5. DeliveryInd'
  <2>1. /\ list[r] = "waiting" /\ lock[r] = NoLock /\ at[e] = "idle" /\ job[e] = NoRun
    BY DEF Deliver, MoveToActive, Step, Ind, QueueInd, ExecInd
  <2>2. /\ job' = [job EXCEPT ![e] = r] /\ at' = [at EXCEPT ![e] = "parse"]
        /\ lock' = [lock EXCEPT ![r] = e] /\ status' = status
        /\ attemptsStarted' = [attemptsStarted EXCEPT ![r] = @ + 1]
        /\ recovery' = [recovery EXCEPT ![e] =
                           stalledCounter[r] > 0 \/ attemptsStarted[r] + 1 > 1]
    BY DEF Deliver, MoveToActive, Step, rowVars
  <2>3. \A f \in Executors : job[f] # NoRun => job[f] \in Runs /\ attemptsStarted[job[f]] >= 1
    BY <1>t DEF ProcessorTypeOK, Ind, ExecInd
  <2>4. ASSUME NEW f \in Executors, NEW g \in Executors,
               f # g, job'[f] = job'[g], job'[f] # NoRun
        PROVE  attemptsStarted'[job'[f]] >= 2
    <3>1. CASE f # e /\ g # e
      BY <1>t, <2>2, <2>4, <3>1 DEF Ind, DeliveryInd, QueueTypeOK
    <3>2. CASE f = e \/ g = e
      <4>1. \E h \in {f, g} : h # e /\ job[h] = r
        BY <1>t, <2>2, <2>4, <3>2 DEF ProcessorTypeOK
      <4>2. job'[f] = r
        BY <1>t, <2>2, <2>4, <3>2 DEF ProcessorTypeOK
      <4> QED
        BY <1>t, <2>2, <2>3, <4>1, <4>2, ProcessorAssumption
           DEF ProcessorAssumption, QueueTypeOK
    <3> QED
      BY <3>1, <3>2
  <2>5. ASSUME NEW f \in Executors, job'[f] # NoRun, ~recovery'[f], lock'[job'[f]] = f
        PROVE  /\ attemptsStarted'[job'[f]] = 1
               /\ at'[f] \in {"parse", "claim"} => status'[job'[f]] # "RUNNING"
    <3>1. CASE f = e
      <4>1. ~(attemptsStarted[r] + 1 > 1) /\ job'[f] = r
        BY <1>t, <2>2, <2>5, <3>1 DEF ProcessorTypeOK
      <4>2. attemptsStarted[r] = 0 /\ status[r] # "RUNNING"
        BY <1>t, <4>1 DEF QueueTypeOK, Ind, RowInd
      <4> QED
        BY <1>t, <2>2, <4>1, <4>2 DEF QueueTypeOK
    <3>2. CASE f # e
      <4>1. job'[f] = job[f] /\ job[f] # r /\ recovery'[f] = recovery[f] /\ at'[f] = at[f]
        BY <1>t, <2>2, <2>5, <3>2 DEF ProcessorTypeOK, QueueTypeOK
      <4> QED
        BY <1>t, <2>2, <2>3, <2>5, <4>1 DEF Ind, DeliveryInd, QueueTypeOK
    <3> QED
      BY <3>1, <3>2
  <2> QED
    BY <2>4, <2>5 DEF DeliveryInd
<1>6. EndingInd'
  BY DEF Ind, EndingInd, Deliver, MoveToActive, Step, Silent, rowVars
<1>7. FrameInd'
  BY DEF Ind, FrameInd, Deliver, Step, Silent, rowVars
<1> QED
  BY <1>1, <1>2, <1>3, <1>4, <1>5, <1>6, <1>7 DEF Ind

\* Success is only filed by the execution that holds the lock.
LEMMA AckKeeps ==
  ASSUME Ind, NEW e \in Executors, Ack(e), UNCHANGED <<routeVars, reaperVars>>
  PROVE  Ind'
<1>t. FaultsTypeOK /\ RowsTypeOK /\ QueueTypeOK /\ ProcessorTypeOK
  BY DEF Ind, TypeOK
<1>j. job[e] \in Runs /\ job[e] # NoRun /\ list[job[e]] # "absent"
  BY HoldsItsJob DEF Ack
<1>1. TypeOK'
  <2>1. FaultsTypeOK'
    BY <1>t DEF FaultsTypeOK, Ack, NoFault
  <2>2. RowsTypeOK'
    BY <1>t DEF RowsTypeOK, Ack, rowVars
  <2>3. QueueTypeOK'
    BY <1>t DEF QueueTypeOK, JobList, Ack, MoveToCompleted, Silent
  <2>4. ProcessorTypeOK'
    BY <1>t DEF ProcessorTypeOK, ExecutorPc, Ack, BecomeIdle, Silent
  <2>5. (RouteTypeOK /\ ReaperTypeOK)'
    BY DEF Ind, TypeOK, RouteTypeOK, ReaperTypeOK, routeVars, reaperVars
  <2> QED
    BY <2>1, <2>2, <2>3, <2>4, <2>5 DEF TypeOK
<1>2. QueueInd'
  BY <1>t DEF Ind, QueueInd, QueueTypeOK, Live, Ack, MoveToCompleted, BecomeIdle
<1>3. ExecInd'
  BY DEF Ind, ExecInd, Ack, MoveToCompleted, BecomeIdle
<1>4. (RouteInd /\ RowInd /\ WinnerIsReadable)'
  <2>1. \A q \in Runs :
           /\ list[q] = "absent" <=> list'[q] = "absent"
           /\ attemptsStarted[q] >= 1 => attemptsStarted'[q] >= 1
    BY <1>j DEF Ack, MoveToCompleted
  <2>2. UNCHANGED rowVars
    BY DEF Ack
  <2> QED
    BY <2>1, <2>2, RowsStandStill
<1>5. DeliveryInd'
  BY <1>t, <1>j, QueueAssumption, ProcessorAssumption
     DEF QueueAssumption, ProcessorAssumption, Ind, DeliveryInd, ExecInd, RowInd,
         QueueInd, QueueTypeOK, ProcessorTypeOK, Ack,
         MoveToCompleted, BecomeIdle, Silent, rowVars
<1>6. EndingInd'
  BY DEF Ind, EndingInd, Ack, MoveToCompleted, BecomeIdle, Silent, rowVars
<1>7. FrameInd'
  BY DEF Ind, FrameInd, Ack, BecomeIdle, Silent, rowVars
<1> QED
  BY <1>1, <1>2, <1>3, <1>4, <1>5, <1>6, <1>7 DEF Ind

\* A failure is only filed by the execution that holds the lock.
LEMMA NackKeeps ==
  ASSUME Ind, NEW e \in Executors, Nack(e), UNCHANGED <<routeVars, reaperVars>>
  PROVE  Ind'
<1>t. FaultsTypeOK /\ RowsTypeOK /\ QueueTypeOK /\ ProcessorTypeOK
  BY DEF Ind, TypeOK
<1>j. job[e] \in Runs /\ job[e] # NoRun /\ list[job[e]] # "absent"
  BY HoldsItsJob DEF Nack
<1>1. TypeOK'
  <2>1. FaultsTypeOK'
    BY <1>t DEF FaultsTypeOK, Nack, NoFault
  <2>2. RowsTypeOK'
    BY <1>t DEF RowsTypeOK, Nack, rowVars
  <2>3. QueueTypeOK'
    BY <1>t, QueueAssumption
       DEF QueueTypeOK, JobList, Nack, MoveToFailed, Silent, Ind, QueueInd, Live
  <2>4. ProcessorTypeOK'
    BY <1>t DEF ProcessorTypeOK, ExecutorPc, Nack, BecomeIdle, Silent
  <2>5. (RouteTypeOK /\ ReaperTypeOK)'
    BY DEF Ind, TypeOK, RouteTypeOK, ReaperTypeOK, routeVars, reaperVars
  <2> QED
    BY <2>1, <2>2, <2>3, <2>4, <2>5 DEF TypeOK
<1>2. QueueInd'
  BY <1>t, QueueAssumption
     DEF Ind, QueueInd, QueueTypeOK, Live, Nack, MoveToFailed, BecomeIdle
<1>3. ExecInd'
  BY <1>t
     DEF Ind, ExecInd, QueueTypeOK, ProcessorTypeOK, Nack, MoveToFailed,
         BecomeIdle
<1>4. (RouteInd /\ RowInd /\ WinnerIsReadable)'
  <2>1. \A q \in Runs :
           /\ list[q] = "absent" <=> list'[q] = "absent"
           /\ attemptsStarted[q] >= 1 => attemptsStarted'[q] >= 1
    BY <1>t, <1>j DEF QueueTypeOK, Nack, MoveToFailed
  <2>2. UNCHANGED rowVars
    BY DEF Nack
  <2> QED
    BY <2>1, <2>2, RowsStandStill
<1>5. DeliveryInd'
  BY <1>t, <1>j, QueueAssumption, ProcessorAssumption
     DEF QueueAssumption, ProcessorAssumption, Ind, DeliveryInd, ExecInd, RowInd,
         QueueInd, QueueTypeOK, ProcessorTypeOK, Nack,
         MoveToFailed, BecomeIdle, Silent, rowVars
<1>6. EndingInd'
  BY <1>t, QueueAssumption
     DEF Ind, EndingInd, ExecInd, QueueTypeOK, ProcessorTypeOK, Nack,
         MoveToFailed, BecomeIdle, Silent, rowVars
<1>7. FrameInd'
  BY DEF Ind, FrameInd, Nack, BecomeIdle, Silent, rowVars
<1> QED
  BY <1>1, <1>2, <1>3, <1>4, <1>5, <1>6, <1>7 DEF Ind

\* Executions that die take their locks with them, and nothing else.
LEMMA WorkerDiesKeeps ==
  ASSUME Ind, NEW E \in SUBSET Executors, WorkerDies(E), UNCHANGED <<routeVars, reaperVars>>
  PROVE  Ind'
<1>t. FaultsTypeOK /\ RowsTypeOK /\ QueueTypeOK /\ ProcessorTypeOK
  BY DEF Ind, TypeOK
<1>1. TypeOK'
  <2>1. FaultsTypeOK'
    BY <1>t, EnvironmentAssumption DEF FaultsTypeOK, WorkerDies, Fault
  <2>2. RowsTypeOK'
    BY <1>t DEF RowsTypeOK, WorkerDies, rowVars
  <2>3. QueueTypeOK'
    BY <1>t DEF QueueTypeOK, WorkerDies, Silent
  <2>4. ProcessorTypeOK'
    BY <1>t DEF ProcessorTypeOK, ExecutorPc, WorkerDies, BecomeIdle, Silent
  <2>5. (RouteTypeOK /\ ReaperTypeOK)'
    BY DEF Ind, TypeOK, RouteTypeOK, ReaperTypeOK, routeVars, reaperVars
  <2> QED
    BY <2>1, <2>2, <2>3, <2>4, <2>5 DEF TypeOK
<1>2. QueueInd'
  BY <1>t DEF Ind, QueueInd, QueueTypeOK, WorkerDies, BecomeIdle
<1>3. ExecInd'
  BY DEF Ind, ExecInd, WorkerDies, BecomeIdle
<1>4. (RouteInd /\ RowInd /\ WinnerIsReadable)'
  <2>1. \A q \in Runs :
           /\ list[q] = "absent" <=> list'[q] = "absent"
           /\ attemptsStarted[q] >= 1 => attemptsStarted'[q] >= 1
    BY DEF WorkerDies
  <2>2. UNCHANGED rowVars
    BY DEF WorkerDies
  <2> QED
    BY <2>1, <2>2, RowsStandStill
<1>5. DeliveryInd'
  BY <1>t, QueueAssumption, ProcessorAssumption
     DEF QueueAssumption, ProcessorAssumption, Ind, DeliveryInd, ExecInd, RowInd,
         QueueInd, QueueTypeOK, ProcessorTypeOK, WorkerDies, BecomeIdle, Silent, rowVars
<1>6. EndingInd'
  BY <1>t, QueueAssumption
     DEF Ind, EndingInd, ExecInd, ProcessorTypeOK, WorkerDies, BecomeIdle,
         Silent, rowVars
<1>7. FrameInd'
  BY DEF Ind, FrameInd, WorkerDies, BecomeIdle, Silent, rowVars
<1> QED
  BY <1>1, <1>2, <1>3, <1>4, <1>5, <1>6, <1>7 DEF Ind

\* A lock that expires leaves the execution and the job where they are.
LEMMA StarvesKeeps ==
  ASSUME Ind, NEW r \in Runs, Starves(r), UNCHANGED <<routeVars, reaperVars>>
  PROVE  Ind'
<1>t. FaultsTypeOK /\ RowsTypeOK /\ QueueTypeOK /\ ProcessorTypeOK
  BY DEF Ind, TypeOK
<1>1. TypeOK'
  <2>1. FaultsTypeOK'
    BY <1>t, EnvironmentAssumption DEF FaultsTypeOK, Starves, Fault
  <2>2. RowsTypeOK'
    BY <1>t DEF RowsTypeOK, Starves, rowVars
  <2>3. QueueTypeOK'
    BY <1>t DEF QueueTypeOK, Starves, LockExpires, Silent
  <2>4. ProcessorTypeOK'
    BY <1>t DEF ProcessorTypeOK, Starves, Silent, execVars
  <2>5. (RouteTypeOK /\ ReaperTypeOK)'
    BY DEF Ind, TypeOK, RouteTypeOK, ReaperTypeOK, routeVars, reaperVars
  <2> QED
    BY <2>1, <2>2, <2>3, <2>4, <2>5 DEF TypeOK
<1>2. QueueInd'
  BY DEF Ind, QueueInd, Starves, LockExpires, execVars
<1>3. ExecInd'
  BY DEF Ind, ExecInd, Starves, LockExpires, execVars
<1>4. (RouteInd /\ RowInd /\ WinnerIsReadable)'
  <2>1. \A q \in Runs :
           /\ list[q] = "absent" <=> list'[q] = "absent"
           /\ attemptsStarted[q] >= 1 => attemptsStarted'[q] >= 1
    BY DEF Starves, LockExpires
  <2>2. UNCHANGED rowVars
    BY DEF Starves
  <2> QED
    BY <2>1, <2>2, RowsStandStill
<1>5. DeliveryInd'
  BY QueueAssumption
     DEF Ind, DeliveryInd, Starves, LockExpires, rowVars, execVars
<1>6. EndingInd'
  BY QueueAssumption
     DEF Ind, EndingInd, Starves, LockExpires, Silent, rowVars, execVars
<1>7. FrameInd'
  BY DEF Ind, FrameInd, Starves, Silent, rowVars, execVars
<1> QED
  BY <1>1, <1>2, <1>3, <1>4, <1>5, <1>6, <1>7 DEF Ind

\* A job that is retried or recovered is held by no lock.
LEMMA QueueMovesKeeps ==
  ASSUME Ind, NEW r \in Runs, QueueMoves(r), UNCHANGED <<routeVars, reaperVars>>
  PROVE  Ind'
<1>t. FaultsTypeOK /\ RowsTypeOK /\ QueueTypeOK /\ ProcessorTypeOK
  BY DEF Ind, TypeOK
<1>1. TypeOK'
  <2>1. FaultsTypeOK'
    BY <1>t DEF FaultsTypeOK, QueueMoves, NoFault
  <2>2. RowsTypeOK'
    BY <1>t DEF RowsTypeOK, QueueMoves, rowVars
  <2>3. QueueTypeOK'
    BY <1>t, QueueAssumption
       DEF QueueTypeOK, JobList, QueueMoves, Promote, RecoverStalled, Silent,
           Ind, QueueInd, Live
  <2>4. ProcessorTypeOK'
    BY <1>t DEF ProcessorTypeOK, QueueMoves, Silent, execVars
  <2>5. (RouteTypeOK /\ ReaperTypeOK)'
    BY DEF Ind, TypeOK, RouteTypeOK, ReaperTypeOK, routeVars, reaperVars
  <2> QED
    BY <2>1, <2>2, <2>3, <2>4, <2>5 DEF TypeOK
<1>2. QueueInd'
  BY <1>t, QueueAssumption
     DEF Ind, QueueInd, QueueTypeOK, Live, QueueMoves, Promote, RecoverStalled,
         execVars
<1>3. ExecInd'
  BY <1>t
     DEF Ind, ExecInd, QueueTypeOK, ProcessorTypeOK, QueueMoves, Promote,
         RecoverStalled, execVars
<1>4. (RouteInd /\ RowInd /\ WinnerIsReadable)'
  <2>1. \A q \in Runs :
           /\ list[q] = "absent" <=> list'[q] = "absent"
           /\ attemptsStarted[q] >= 1 => attemptsStarted'[q] >= 1
    BY <1>t DEF QueueTypeOK, QueueMoves, Promote, RecoverStalled
  <2>2. UNCHANGED rowVars
    BY DEF QueueMoves
  <2> QED
    BY <2>1, <2>2, RowsStandStill
<1>5. DeliveryInd'
  BY DEF Ind, DeliveryInd, QueueMoves, Promote, RecoverStalled, rowVars,
         execVars
<1>6. EndingInd'
  BY <1>t
     DEF Ind, EndingInd, QueueTypeOK, QueueMoves, Promote, RecoverStalled,
         Silent, rowVars, execVars
<1>7. FrameInd'
  BY DEF Ind, FrameInd, QueueMoves, Silent, rowVars, execVars
<1> QED
  BY <1>1, <1>2, <1>3, <1>4, <1>5, <1>6, <1>7 DEF Ind

------------------------------------------------------------------------------
(* The reaper.                                                             *)

\* A sweep ends rows under everyone's feet, which no part minds.
LEMMA SweepKeeps ==
  ASSUME Ind, Sweep,
         UNCHANGED <<routeVars, queueVars, signalled, execVars, announced>>
  PROVE  Ind'
<1>t. FaultsTypeOK /\ RowsTypeOK /\ QueueTypeOK /\ ProcessorTypeOK /\ ReaperTypeOK
  BY DEF Ind, TypeOK
<1>r. RowsTypeOK' /\ RowsObey
      /\ \A r \in Runs : \/ status'[r] = status[r]
                         \/ status[r] \in NonTerminal /\ status'[r] = "FAILED"
  <2>1. CASE UNCHANGED rowVars
    BY <1>t, <2>1 DEF rowVars, RowsTypeOK, RowsObey
  <2>2. CASE FinishRows(picked, "FAILED", "WORKER_CRASHED")
    <3>1. "FAILED" \in Terminal /\ "WORKER_CRASHED" \in FailureCodes
          /\ picked \in SUBSET Runs
      BY <1>t DEF Terminal, FailureCodes, ReaperTypeOK
    <3> QED
      BY <1>t, <2>2, <3>1, FinishRowsFacts
  <2> QED
    BY <2>1, <2>2 DEF Sweep, SweepRead, SweepWrite
<1>1. TypeOK'
  <2>1. FaultsTypeOK'
    BY <1>t, EnvironmentAssumption
       DEF FaultsTypeOK, Sweep, SweepRead, SweepWrite, Fault, NoFault
  <2>2. ReaperTypeOK'
    BY <1>t DEF ReaperTypeOK, Sweep, SweepRead, SweepWrite, Stale
  <2>3. (QueueTypeOK /\ RouteTypeOK /\ ProcessorTypeOK)'
    BY DEF Ind, TypeOK, QueueTypeOK, RouteTypeOK, ProcessorTypeOK,
           queueVars, routeVars, execVars
  <2> QED
    BY <1>r, <2>1, <2>2, <2>3 DEF TypeOK
<1>2. (QueueInd /\ ExecInd /\ DeliveryInd /\ EndingInd /\ FrameInd)'
  BY <1>1, <1>r, WorkersUndisturbed DEF queueVars
<1>3. \A r \in Runs :
           /\ status[r] \in RunStatuses => status'[r] \in RunStatuses
           /\ status[r] \notin NonTerminal => status'[r] = status[r]
           /\ list[r] = "absent" <=> list'[r] = "absent"
           /\ status'[r] = "RUNNING" => status[r] = "RUNNING" \/ attemptsStarted'[r] >= 1
           /\ attemptsStarted[r] >= 1 => attemptsStarted'[r] >= 1
  BY <1>r DEF queueVars, RunStatuses
<1>4. (RouteInd /\ RowInd /\ WinnerIsReadable)'
  BY <1>3, RequestsUndisturbed DEF routeVars
<1> QED
  BY <1>1, <1>2, <1>4 DEF Ind

\* A run that grows old loses its key, which only forgets.
LEMMA RunAgesKeeps ==
  ASSUME Ind, NEW r \in Runs, RunAges(r),
         UNCHANGED <<queueVars, signalled, execVars, announced>>
  PROVE  Ind'
<1> USE DEF RunAges, Ages, NoFault, rowVars
<1>1. TypeOK'
  <2>1. (FaultsTypeOK /\ RowsTypeOK /\ ReaperTypeOK)'
    BY DEF Ind, TypeOK, FaultsTypeOK, RowsTypeOK, ReaperTypeOK
  <2>2. RouteTypeOK'
    BY DEF Ind, TypeOK, RouteTypeOK
  <2>3. (QueueTypeOK /\ ProcessorTypeOK)'
    BY DEF Ind, TypeOK, QueueTypeOK, ProcessorTypeOK, queueVars, execVars
  <2> QED
    BY <2>1, <2>2, <2>3 DEF TypeOK
<1>2. (QueueInd /\ ExecInd /\ DeliveryInd /\ EndingInd /\ FrameInd)'
  BY <1>1, WorkersUndisturbed DEF RowsObey, queueVars
<1>3. \A w \in Works : dedupe'[w] = dedupe[w] \/ dedupe'[w] = Nobody
  OBVIOUS
<1>4. (RouteInd /\ RowInd /\ WinnerIsReadable)'
  BY <1>3, RequestsUndisturbed DEF queueVars
<1> QED
  BY <1>1, <1>2, <1>4 DEF Ind

------------------------------------------------------------------------------
(* Every step keeps the invariant.                                         *)

\* A step that changes nothing keeps the invariant.
LEMMA StutterKeeps ==
  ASSUME Ind, UNCHANGED vars
  PROVE  Ind'
<1> USE DEF vars, rowVars, queueVars, routeVars, execVars, reaperVars
<1>1. TypeOK'
  BY DEF Ind, TypeOK, FaultsTypeOK, RowsTypeOK, QueueTypeOK, RouteTypeOK,
         ProcessorTypeOK, ReaperTypeOK
<1>2. (QueueInd /\ ExecInd /\ DeliveryInd /\ EndingInd /\ FrameInd)'
  BY <1>1, WorkersUndisturbed DEF RowsObey
<1>3. (RouteInd /\ RowInd /\ WinnerIsReadable)'
  BY RowsStandStill DEF Ind
<1> QED
  BY <1>1, <1>2, <1>3 DEF Ind

\* Every step of the life cycle keeps the invariant.
LEMMA StepKeepsInd ==
  ASSUME Ind, [Next]_vars
  PROVE  Ind'
<1>1. CASE RouteActs
  BY <1>1, RouteStepKeeps, ApiDiesKeeps, KeyExpiresKeeps DEF RouteActs, RouteNext
<1>2. CASE WorkerActs
  <2> USE <1>2 DEF WorkerActs
  <2>1. ASSUME NEW e \in Executors, ExecutorStep(e) PROVE Ind'
    BY <2>1, DeliverKeeps, ParseKeeps, ClaimKeeps, PoolSettlesKeeps, WriteKeeps,
       AnnounceKeeps, SignalKeeps, AckKeeps, NackKeeps DEF ExecutorStep
  <2>2. ASSUME NEW E \in SUBSET Executors, WorkerDies(E) PROVE Ind'
    BY <2>2, WorkerDiesKeeps
  <2>3. ASSUME NEW r \in Runs, Starves(r) \/ QueueMoves(r) PROVE Ind'
    BY <2>3, StarvesKeeps, QueueMovesKeeps
  <2> QED
    BY <2>1, <2>2, <2>3 DEF ProcessorNext
<1>3. CASE ReaperActs
  BY <1>3, SweepKeeps, RunAgesKeeps DEF ReaperActs
<1>4. CASE AllOver \/ UNCHANGED vars
  BY <1>4, StutterKeeps DEF AllOver
<1> QED
  BY <1>1, <1>2, <1>3, <1>4 DEF Next

\* Ind is an invariant of the life cycle.
THEOREM Invariance == Spec => []Ind
BY InitInd, StepKeepsInd, PTL DEF Spec


------------------------------------------------------------------------------
(* The properties that RunSystem states.                                   *)

\* Every variable holds a value of its kind.
THEOREM TypeCorrect == Spec => []TypeOK
<1>1. Ind => TypeOK
  BY DEF Ind
<1> QED
  BY <1>1, Invariance, PTL

\* A job the queue files as completed has a row that ended, for any number of
\* executions, attempts and stalls.
THEOREM CompletedJobsAreOver == Spec => []CompletedJobHasEndedRow
<1>1. Ind => CompletedJobHasEndedRow
  BY DEF Ind, EndingInd, CompletedJobHasEndedRow
<1> QED
  BY <1>1, Invariance, PTL

\* A final status is announced at most once, and truthfully.
THEOREM AnnouncementsAreTrue == Spec => []AnnouncedOnceAndTruly
<1>1. Ind => AnnouncedOnceAndTruly
  BY DEF Ind, FrameInd, AnnouncedOnceAndTruly
<1> QED
  BY <1>1, Invariance, PTL

\* Whoever sees the completion key of a run reads a row that has ended.
THEOREM SignalsFollowWrites == Spec => []SignalFollowsWrite
<1>1. Ind => SignalFollowsWrite
  BY DEF Ind, EndingInd, SignalFollowsWrite
<1> QED
  BY <1>1, Invariance, PTL

\* No key, job or execution names a row that was deleted.
THEOREM DiscardedRowsAreForgotten == Spec => []DiscardedIsForgotten
<1>1. Ind => DiscardedIsForgotten
  BY ProcessorAssumption
     DEF ProcessorAssumption, Ind, RowInd, ExecInd, DiscardedIsForgotten, RunStatuses
<1> QED
  BY <1>1, Invariance, PTL

\* The 404 of the deduplicated answer is unreachable.
THEOREM WinnersAreReadable == Spec => []WinnerIsReadable
<1>1. Ind => WinnerIsReadable
  BY DEF Ind
<1> QED
  BY <1>1, Invariance, PTL

\* A row that nothing will move was left by a request that died or threw, or by
\* a job the queue gave up on.
THEOREM StrandedRowsHaveACause == Spec => []StrandedHasACause
<1>1. Ind => StrandedHasACause
  BY DEF Ind, TypeOK, QueueTypeOK, JobList, Live, RouteTypeOK, RoutePc, Answered,
         EndingInd, RouteInd, RequestInd, NonTerminal, Terminal, StrandedHasACause
<1> QED
  BY <1>1, Invariance, PTL

\* What a row that has ended keeps.
EndedRowsStay ==
  \A r \in Runs : status[r] \in Terminal =>
    status'[r] = status[r] /\ errorMessage'[r] = errorMessage[r]

\* No call of the repository touches a row that has ended.
LEMMA RepositorySparesEndedRows ==
  ASSUME RowsTypeOK,
         \/ UNCHANGED rowVars
         \/ \E r \in Runs : CreateRow(r) \/ DiscardRow(r)
         \/ \E r \in Runs, rec \in BOOLEAN : ClaimRow(r, rec)
         \/ \E rs \in SUBSET Runs, next \in Terminal,
               code \in FailureCodes : FinishRows(rs, next, code)
  PROVE  EndedRowsStay
<1> USE DEF RowsTypeOK, EndedRowsStay, Terminal
<1>1. CASE UNCHANGED rowVars
  BY <1>1 DEF rowVars
<1>2. ASSUME NEW r \in Runs, CreateRow(r) \/ DiscardRow(r) PROVE EndedRowsStay
  BY <1>2 DEF CreateRow, DiscardRow
<1>3. ASSUME NEW r \in Runs, NEW rec \in BOOLEAN, ClaimRow(r, rec) PROVE EndedRowsStay
  BY <1>3 DEF ClaimRow, ClaimableBy
<1>4. ASSUME NEW rs \in SUBSET Runs, NEW next, NEW code, FinishRows(rs, next, code)
      PROVE  EndedRowsStay
  BY <1>4 DEF FinishRows, NonTerminal
<1> QED
  BY <1>1, <1>2, <1>3, <1>4

\* No step of the life cycle touches a row that has ended.
LEMMA StepSparesEndedRows ==
  ASSUME Ind, [Next]_vars
  PROVE  EndedRowsStay
<1>t. RowsTypeOK /\ ReaperTypeOK /\ ProcessorTypeOK
  BY DEF Ind, TypeOK
<1>c. {"QUEUE_UNAVAILABLE", "INVALID_CIRCUIT", "WORKER_CRASHED"} \subseteq FailureCodes
      /\ "FAILED" \in Terminal
  BY DEF FailureCodes, Terminal
<1>u. UNCHANGED rowVars => EndedRowsStay
  BY <1>t, RepositorySparesEndedRows
<1>1. CASE RouteActs
  <2>1. ASSUME NEW s \in Runs, RouteStep(s) PROVE EndedRowsStay
    <3>1. CASE NoRows
      BY <3>1, <1>u DEF NoRows
    <3>2. CASE CreateRow(s) \/ DiscardRow(s)
      BY <3>2, <1>t, RepositorySparesEndedRows
    <3>3. CASE FinishRows({s}, "FAILED", "QUEUE_UNAVAILABLE")
      BY <3>3, <1>t, <1>c, RepositorySparesEndedRows
    <3> QED
      BY <2>1, <3>1, <3>2, <3>3, RouteStepRows
  <2>2. ASSUME NEW S \in SUBSET Runs, ApiDies(S) PROVE EndedRowsStay
    BY <2>2, <1>u DEF ApiDies, NoRows
  <2>3. ASSUME NEW w \in Works, KeyExpires(w) PROVE EndedRowsStay
    BY <2>3, <1>u DEF KeyExpires, NoRows
  <2> QED
    BY <1>1, <2>1, <2>2, <2>3 DEF RouteActs, RouteNext
<1>2. CASE WorkerActs
  <2>1. ASSUME NEW e \in Executors, ExecutorStep(e) PROVE EndedRowsStay
    <3>1. ASSUME Parse(e) PROVE EndedRowsStay
      <4>1. job[e] \in Runs
        BY <3>1, HoldsItsJob DEF Parse, Step
      <4> QED
        BY <3>1, <4>1, <1>t, <1>c, <1>u, RepositorySparesEndedRows DEF Parse
    <3>2. ASSUME Claim(e) PROVE EndedRowsStay
      <4>1. job[e] \in Runs /\ recovery[e] \in BOOLEAN
        BY <3>2, <1>t, HoldsItsJob DEF Claim, Step, ProcessorTypeOK
      <4> QED
        BY <3>2, <4>1, <1>t, <1>u, RepositorySparesEndedRows DEF Claim
    <3>3. ASSUME Write(e) PROVE EndedRowsStay
      <4>1. /\ job[e] \in Runs /\ outcome[e] \in Terminal
            /\ CodeOf(outcome[e]) \in FailureCodes
        BY <3>3, HoldsItsJob DEF Write, Step, Ind, ExecInd, CodeOf, FailureCodes
      <4> QED
        BY <3>3, <4>1, <1>t, <1>u, RepositorySparesEndedRows DEF Write
    <3>4. ASSUME \/ \E r \in Runs : Deliver(e, r)
                 \/ PoolSettles(e) \/ Announce(e) \/ Signal(e) \/ Ack(e) \/ Nack(e)
          PROVE  EndedRowsStay
      BY <3>4, <1>u DEF Deliver, PoolSettles, Announce, Signal, Ack, Nack
    <3> QED
      BY <2>1, <3>1, <3>2, <3>3, <3>4 DEF ExecutorStep
  <2>2. ASSUME NEW E \in SUBSET Executors, WorkerDies(E) PROVE EndedRowsStay
    BY <2>2, <1>u DEF WorkerDies
  <2>3. ASSUME NEW r \in Runs, Starves(r) \/ QueueMoves(r) PROVE EndedRowsStay
    BY <2>3, <1>u DEF Starves, QueueMoves
  <2> QED
    BY <1>2, <2>1, <2>2, <2>3 DEF WorkerActs, ProcessorNext
<1>3. CASE ReaperActs
  <2>1. ASSUME Sweep PROVE EndedRowsStay
    <3>1. picked \in SUBSET Runs
      BY <1>t DEF ReaperTypeOK
    <3> QED
      BY <2>1, <3>1, <1>t, <1>c, <1>u, RepositorySparesEndedRows
         DEF Sweep, SweepRead, SweepWrite, rowVars
  <2>2. ASSUME NEW r \in Runs, RunAges(r) PROVE EndedRowsStay
    BY <2>2, <1>u DEF RunAges, Ages
  <2> QED
    BY <1>3, <2>1, <2>2 DEF ReaperActs
<1>4. CASE AllOver \/ UNCHANGED vars
  BY <1>4, <1>u DEF AllOver, vars
<1> QED
  BY <1>1, <1>2, <1>3, <1>4 DEF Next

\* A terminal status is final, and so is the code beside it, whatever the
\* executions, the compensations and the sweeps still under way go on to do.
THEOREM EndedRowsAreFinal == Spec => TerminalIsFinal
<1>1. Ind /\ [Next]_vars => [EndedRowsStay]_vars
  BY StepSparesEndedRows
<1>2. Spec => [][EndedRowsStay]_vars
  BY <1>1, Invariance, PTL DEF Spec
<1> QED
  BY <1>2 DEF EndedRowsStay, TerminalIsFinal

------------------------------------------------------------------------------
(* The deduplication key. Who may yet be queued beside another submission  *)
(* of the same work holds its key until the row has ended.                 *)

\* A submission past its claim whose row is open.
Entered(s) ==
  status[s] \in NonTerminal /\ (pc[s] = "enqueue" \/ list[s] # "absent")

\* It holds the key of its work, or that key was lost; and a request releases a
\* key only after it has read that the run it names FAILED.
KeyInd ==
  \A s \in Runs :
    /\ Entered(s) => WorkOf[s] \in expired \union missed \/ dedupe[WorkOf[s]] = s
    /\ pc[s] = "release" => status[winner[s]] = "FAILED"

\* A step of a worker or of the reaper opens no row and adds no job.
OpensNothing ==
  \A r \in Runs :
    /\ status[r] \notin NonTerminal => status'[r] = status[r]
    /\ list[r] = "absent" => list'[r] = "absent"

\* Of the calls of the repository, a claim and an end move open rows alone.
LEMMA OpenRowsMove ==
  ASSUME RowsTypeOK,
         \/ UNCHANGED rowVars
         \/ \E r \in Runs, rec \in BOOLEAN : ClaimRow(r, rec)
         \/ \E rs, next, code : FinishRows(rs, next, code)
  PROVE  \A r \in Runs : status[r] \notin NonTerminal => status'[r] = status[r]
<1> USE DEF RowsTypeOK, NonTerminal
<1>1. CASE UNCHANGED rowVars
  BY <1>1 DEF rowVars
<1>2. ASSUME NEW r \in Runs, NEW rec \in BOOLEAN, ClaimRow(r, rec)
      PROVE  \A q \in Runs : status[q] \notin NonTerminal => status'[q] = status[q]
  BY <1>2 DEF ClaimRow, ClaimableBy
<1>3. ASSUME NEW rs, NEW next, NEW code, FinishRows(rs, next, code)
      PROVE  \A q \in Runs : status[q] \notin NonTerminal => status'[q] = status[q]
  BY <1>3 DEF FinishRows
<1> QED
  BY <1>1, <1>2, <1>3

\* The executions, whatever becomes of them, open nothing.
LEMMA WorkersOpenNothing ==
  ASSUME Ind, WorkerActs
  PROVE  OpensNothing
<1>t. RowsTypeOK /\ QueueTypeOK /\ ProcessorTypeOK
  BY DEF Ind, TypeOK
<1>q. UNCHANGED queueVars => \A r \in Runs : list[r] = "absent" => list'[r] = "absent"
  BY DEF queueVars
<1>1. ASSUME NEW e \in Executors, ExecutorStep(e) PROVE OpensNothing
  <2>1. CASE \/ Parse(e) \/ Claim(e) \/ Write(e)
             \/ PoolSettles(e) \/ Announce(e) \/ Signal(e)
    <3>1. at[e] # "idle" /\ job[e] \in Runs /\ recovery[e] \in BOOLEAN
      BY <2>1, <1>t, HoldsItsJob
         DEF Parse, Claim, Write, PoolSettles, Announce, Signal, Step, ProcessorTypeOK
    <3>2. UNCHANGED queueVars
      BY <2>1 DEF Parse, Claim, Write, PoolSettles, Announce, Signal
    <3>3. \/ UNCHANGED rowVars
          \/ \E r \in Runs, rec \in BOOLEAN : ClaimRow(r, rec)
          \/ \E rs, next, code : FinishRows(rs, next, code)
      BY <2>1, <3>1 DEF Parse, Claim, Write, PoolSettles, Announce, Signal
    <3> QED
      BY <3>2, <3>3, <1>t, <1>q, OpenRowsMove DEF OpensNothing
  <2>2. ASSUME NEW r \in Runs, Deliver(e, r) PROVE OpensNothing
    BY <2>2, <1>t DEF Deliver, MoveToActive, QueueTypeOK, rowVars, OpensNothing
  <2>3. CASE Ack(e) \/ Nack(e)
    <3>1. job[e] \in Runs
      BY <2>3, HoldsItsJob DEF Ack, Nack
    <3>2. lock[job[e]] = e => list[job[e]] = "active"
      BY <3>1, QueueAssumption DEF Ind, QueueInd, QueueAssumption
    <3> QED
      BY <2>3, <3>1, <3>2, <1>t
         DEF Ack, Nack, MoveToCompleted, MoveToFailed, QueueTypeOK, rowVars, OpensNothing
  <2> QED
    BY <1>1, <2>1, <2>2, <2>3 DEF ExecutorStep
<1>2. ASSUME NEW E \in SUBSET Executors, WorkerDies(E) PROVE OpensNothing
  BY <1>2 DEF WorkerDies, rowVars, OpensNothing
<1>3. ASSUME NEW r \in Runs, Starves(r) \/ QueueMoves(r) PROVE OpensNothing
  BY <1>3, <1>t
     DEF Starves, LockExpires, QueueMoves, Promote, RecoverStalled, QueueTypeOK,
         rowVars, OpensNothing
<1> QED
  BY <1>1, <1>2, <1>3 DEF WorkerActs, ProcessorNext

\* A winner that was read is a run.
LEMMA ReleasesARun ==
  ASSUME Ind, NEW s \in Runs, pc[s] = "release"
  PROVE  winner[s] \in Runs
BY DEF Ind, TypeOK, RouteTypeOK, RouteInd, RequestInd

\* A step that opens nothing, and loses a key only to its time, keeps KeyInd.
LEMMA KeysUndisturbed ==
  ASSUME Ind, KeyInd, OpensNothing, UNCHANGED winner,
         \A s \in Runs : pc'[s] = pc[s] \/ pc'[s] = "dead",
         expired \subseteq expired', missed \subseteq missed',
         \A w \in Works : dedupe'[w] = dedupe[w] \/ w \in expired'
  PROVE  KeyInd'
<1> SUFFICES ASSUME NEW s \in Runs
             PROVE  /\ Entered(s)' => \/ WorkOf[s] \in expired' \union missed'
                                      \/ dedupe'[WorkOf[s]] = s
                    /\ pc'[s] = "release" => status'[winner'[s]] = "FAILED"
  BY DEF KeyInd
<1>1. Entered(s)' => Entered(s)
  BY DEF OpensNothing, Entered
<1>2. WorkOf[s] \in Works
  BY DEF Works
<1>3. pc'[s] = "release" => status'[winner'[s]] = "FAILED"
  BY ReleasesARun DEF KeyInd, OpensNothing, NonTerminal
<1> QED
  BY <1>1, <1>2, <1>3 DEF KeyInd

\* What a step of a submission does to the keys: it sets one that does not
\* exist, or deletes the one it read under.
LEMMA RouteStepKeys ==
  ASSUME RouteTypeOK, NEW s \in Runs, RouteStep(s)
  PROVE  /\ expired' = expired /\ missed \subseteq missed'
         /\ \A w \in Works :
              \/ dedupe'[w] = dedupe[w]
              \/ dedupe[w] = Nobody
              \/ pc[s] = "release" /\ w = WorkOf[s] /\ dedupe[w] = winner[s]
<1> USE DEF RouteTypeOK, NoKey
<1>1. CASE AssertQueueHasRoom(s)
  BY <1>1 DEF AssertQueueHasRoom
<1>2. CASE CreateRun(s)
  BY <1>2 DEF CreateRun
<1>3. CASE ClaimKey(s)
  BY <1>3 DEF ClaimKey, SetKey
<1>4. CASE GetWinner(s)
  BY <1>4 DEF GetWinner
<1>5. CASE ReadWinner(s)
  BY <1>5 DEF ReadWinner
<1>6. CASE ReleaseKey(s)
  BY <1>6 DEF ReleaseKey, ClearKey
<1>7. CASE DiscardRun(s)
  BY <1>7 DEF DiscardRun
<1>8. CASE Enqueue(s)
  BY <1>8 DEF Enqueue
<1>9. CASE Compensate(s)
  BY <1>9 DEF Compensate
<1>10. CASE Watch(s)
  BY <1>10 DEF Watch
<1> QED
  BY <1>1, <1>2, <1>3, <1>4, <1>5, <1>6, <1>7, <1>8, <1>9, <1>10 DEF RouteStep

\* A request comes to its add by a claim that set the key, or by one that found
\* the key gone.
LEMMA RouteStepEnters ==
  ASSUME Ind, NEW s \in Runs, RouteStep(s), pc'[s] = "enqueue"
  PROVE  WorkOf[s] \in missed' \/ dedupe'[WorkOf[s]] = s
<1>t. RouteTypeOK /\ WorkOf[s] \in Works
  BY DEF Ind, TypeOK, Works
<1>e. pc[s] \in Early => dedupe[WorkOf[s]] # s
  BY <1>t DEF Ind, RouteInd, RequestInd
<1> USE DEF RouteTypeOK, Goto
<1>1. CASE AssertQueueHasRoom(s)
  BY <1>1, <1>t DEF AssertQueueHasRoom
<1>2. CASE CreateRun(s)
  BY <1>2, <1>t DEF CreateRun
<1>3. CASE ClaimKey(s)
  BY <1>3, <1>t DEF ClaimKey, SetKey
<1>4. CASE GetWinner(s)
  BY <1>4, <1>t, <1>e DEF GetWinner, Early
<1>5. CASE ReadWinner(s)
  BY <1>5, <1>t DEF ReadWinner
<1>6. CASE ReleaseKey(s)
  BY <1>6, <1>t DEF ReleaseKey
<1>7. CASE DiscardRun(s)
  BY <1>7, <1>t DEF DiscardRun
<1>8. CASE Enqueue(s)
  BY <1>8, <1>t DEF Enqueue
<1>9. CASE Compensate(s)
  BY <1>9, <1>t DEF Compensate
<1>10. CASE Watch(s)
  BY <1>10, <1>t DEF Watch
<1> QED
  BY <1>1, <1>2, <1>3, <1>4, <1>5, <1>6, <1>7, <1>8, <1>9, <1>10 DEF RouteStep

\* A request comes to a release by reading that its winner FAILED.
LEMMA RouteStepReads ==
  ASSUME Ind, NEW s \in Runs, RouteStep(s), pc'[s] = "release"
  PROVE  pc[s] = "read" /\ winner'[s] = winner[s] /\ status[winner[s]] = "FAILED"
<1>t. RouteTypeOK
  BY DEF Ind, TypeOK
<1> USE <1>t DEF RouteTypeOK, Goto
<1>1. CASE AssertQueueHasRoom(s)
  BY <1>1 DEF AssertQueueHasRoom
<1>2. CASE CreateRun(s)
  BY <1>2 DEF CreateRun
<1>3. CASE ClaimKey(s)
  BY <1>3 DEF ClaimKey
<1>4. CASE GetWinner(s)
  BY <1>4 DEF GetWinner
<1>5. CASE ReadWinner(s)
  BY <1>5 DEF ReadWinner
<1>6. CASE ReleaseKey(s)
  BY <1>6 DEF ReleaseKey
<1>7. CASE DiscardRun(s)
  BY <1>7 DEF DiscardRun
<1>8. CASE Enqueue(s)
  BY <1>8 DEF Enqueue
<1>9. CASE Compensate(s)
  BY <1>9 DEF Compensate
<1>10. CASE Watch(s)
  BY <1>10 DEF Watch
<1> QED
  BY <1>1, <1>2, <1>3, <1>4, <1>5, <1>6, <1>7, <1>8, <1>9, <1>10 DEF RouteStep

\* A step of a submission keeps KeyInd: the key it sets was nobody's, and the
\* key it deletes named a run that had FAILED.
LEMMA RouteStepKeepsKeys ==
  ASSUME Ind, KeyInd, NEW s \in Runs, RouteStep(s), UNCHANGED signalled
  PROVE  KeyInd'
<1>t. RouteTypeOK /\ RowsTypeOK /\ QueueTypeOK
  BY DEF Ind, TypeOK
<1>e. RouteEffect(s)
  BY <1>t, RouteStepElsewhere
<1>k. /\ expired' = expired /\ missed \subseteq missed'
      /\ \A w \in Works :
           \/ dedupe'[w] = dedupe[w]
           \/ dedupe[w] = Nobody
           \/ pc[s] = "release" /\ w = WorkOf[s] /\ dedupe[w] = winner[s]
  BY <1>t, RouteStepKeys
<1>o. \A t \in Runs \ {s} : pc'[t] = pc[t] /\ winner'[t] = winner[t]
  BY RouteStepShape
<1>f. \A r \in Runs : status[r] = "FAILED" => status'[r] = "FAILED"
  BY <1>e DEF RouteEffect, RowsObey, Terminal
<1>1. ASSUME NEW t \in Runs, Entered(t)
      PROVE  \/ WorkOf[t] \in expired' \union missed'
             \/ dedupe'[WorkOf[t]] = t
  <2>1. WorkOf[t] \in Works
    BY DEF Works
  <2>2. WorkOf[t] \in expired \union missed \/ dedupe[WorkOf[t]] = t
    BY <1>1 DEF KeyInd
  <2>3. status[t] # "FAILED" /\ t # Nobody
    BY <1>1, RouteAssumption DEF Entered, NonTerminal, RouteAssumption
  <2>4. pc[s] = "release" => winner[s] # t
    BY <2>3 DEF KeyInd
  <2> QED
    BY <2>1, <2>2, <2>3, <2>4, <1>k
<1>2. ASSUME NEW t \in Runs, Entered(t)'
      PROVE  Entered(t) \/ (t = s /\ pc'[s] = "enqueue")
  <2>1. CASE t # s
    BY <2>1, <1>2, <1>e, <1>o DEF Entered, RouteEffect
  <2>2. CASE t = s
    <3>1. pc[s] = "create" => list[s] = "absent"
      BY DEF Ind, RouteInd, RequestInd, Early
    <3> QED
      BY <2>2, <3>1, <1>2, <1>e DEF Entered, RouteEffect, NonTerminal
  <2> QED
    BY <2>1, <2>2
<1>3. ASSUME NEW t \in Runs, pc'[t] = "release"
      PROVE  status'[winner'[t]] = "FAILED"
  <2>1. CASE t # s
    BY <2>1, <1>3, <1>o, <1>f, ReleasesARun DEF KeyInd
  <2>2. CASE t = s
    <3>1. pc[s] = "read" /\ winner'[s] = winner[s] /\ status[winner[s]] = "FAILED"
      BY <2>2, <1>3, RouteStepReads
    <3>2. winner[s] \in Runs
      BY <3>1, <1>t DEF Ind, RouteInd, RequestInd, RouteTypeOK
    <3> QED
      BY <2>2, <3>1, <3>2, <1>f
  <2> QED
    BY <2>1, <2>2
<1> QED
  BY <1>1, <1>2, <1>3, RouteStepEnters DEF KeyInd

\* Every step keeps KeyInd.
LEMMA StepKeepsKeys ==
  ASSUME Ind, KeyInd, [Next]_vars
  PROVE  KeyInd'
<1>t. RowsTypeOK /\ RouteTypeOK
  BY DEF Ind, TypeOK
<1>s. UNCHANGED <<rowVars, list>> => OpensNothing
  BY DEF rowVars, OpensNothing
<1>1. CASE RouteActs
  <2>1. ASSUME NEW s \in Runs, RouteStep(s) PROVE KeyInd'
    BY <1>1, <2>1, RouteStepKeepsKeys DEF RouteActs
  <2>2. ASSUME NEW S \in SUBSET Runs, ApiDies(S) PROVE KeyInd'
    BY <2>2, <1>s, KeysUndisturbed DEF ApiDies, NoRows, NoQueue, NoKey, queueVars
  <2>3. ASSUME NEW w \in Works, KeyExpires(w) PROVE KeyInd'
    <3>1. \A v \in Works : dedupe'[v] = dedupe[v] \/ v \in expired'
      BY <2>3, <1>t DEF KeyExpires, ClearKey, RouteTypeOK
    <3> QED
      BY <2>3, <3>1, <1>s, KeysUndisturbed
         DEF KeyExpires, NoRows, NoQueue, queueVars
  <2> QED
    BY <1>1, <2>1, <2>2, <2>3 DEF RouteActs, RouteNext
<1>2. CASE WorkerActs
  BY <1>2, WorkersOpenNothing, KeysUndisturbed DEF WorkerActs, routeVars
<1>3. CASE ReaperActs
  <2>1. CASE Sweep /\ UNCHANGED routeVars
    <3>1. \/ UNCHANGED rowVars
          \/ \E rs, next, code : FinishRows(rs, next, code)
      BY <2>1 DEF Sweep, SweepRead, SweepWrite
    <3>2. OpensNothing
      BY <3>1, <1>3, <1>t, OpenRowsMove DEF ReaperActs, queueVars, OpensNothing
    <3> QED
      BY <2>1, <3>2, KeysUndisturbed DEF routeVars
  <2>2. ASSUME NEW r \in Runs, RunAges(r) PROVE KeyInd'
    <3>1. \A w \in Works : dedupe'[w] = dedupe[w] \/ w \in expired'
      BY <2>2 DEF RunAges
    <3> QED
      BY <1>3, <2>2, <3>1, <1>s, KeysUndisturbed DEF RunAges, Ages, ReaperActs, queueVars
  <2> QED
    BY <1>3, <2>1, <2>2 DEF ReaperActs
<1>4. CASE AllOver \/ UNCHANGED vars
  BY <1>4, <1>s, KeysUndisturbed DEF AllOver, vars, routeVars, queueVars
<1> QED
  BY <1>1, <1>2, <1>3, <1>4 DEF Next

\* Two open submissions of identical work are queued at once only if the key of
\* that work expired or a claim found it gone: a release alone, even one that
\* races a new claim, never opens the way.
THEOREM DuplicatesCostAKey == Spec => []DuplicateNeedsLostKey
<1>1. Init => KeyInd
  BY DEF Init, RouteInit, QueueInit, RowsInit, KeyInd, Entered, NonTerminal
<1>2. Spec => []KeyInd
  BY <1>1, Invariance, StepKeepsKeys, PTL DEF Spec
<1>3. KeyInd => DuplicateNeedsLostKey
  BY DEF KeyInd, Entered, Pending, DuplicatedWork, DuplicateNeedsLostKey
<1> QED
  BY <1>2, <1>3, PTL

------------------------------------------------------------------------------
(* The refinement. Each step of the life cycle is a step of RunContract or *)
(* leaves its three variables alone.                                       *)

\* A step that moves no row, no job and no frame is a stutter of the contract.
LEMMA ContractStutters ==
  ASSUME UNCHANGED <<status, list, announced>>
  PROVE  UNCHANGED Contract!vars
BY DEF Contract!vars

\* Jobs move between the lists, and none that was absent is added.
LEMMA ContractMovesJobs ==
  ASSUME UNCHANGED <<status, announced>>,
         \A r \in Runs : list[r] = "absent" <=> list'[r] = "absent"
  PROVE  UNCHANGED Contract!vars
BY DEF Contract!vars

\* Ending rows is an End of the contract, of the rows that had not ended.
LEMMA ContractEnds ==
  ASSUME Ind, NEW rs \in SUBSET Runs, NEW final \in Terminal, NEW code \in FailureCodes,
         FinishRows(rs, final, code), UNCHANGED <<list, announced>>
  PROVE  Contract!Next
<1> DEFINE matched == {r \in rs : status[r] \in NonTerminal}
<1>1. Contract!End(matched, final)
  BY DEF Contract!End, Contract!Open, FinishRows, NonTerminal
<1>2. matched \in SUBSET Runs /\ final \in Contract!Final
  BY DEF Contract!Final, Terminal
<1> QED
  BY <1>1, <1>2 DEF Contract!Next

\* A step of a submission is Queue, HandOver, Discard, End or a stutter.
LEMMA RouteStepMaps ==
  ASSUME Ind, NEW s \in Runs, RouteStep(s), UNCHANGED <<signalled, announced>>
  PROVE  Contract!Next \/ UNCHANGED Contract!vars
<1>i. RequestInd(s) /\ RowsTypeOK /\ QueueTypeOK
  BY DEF Ind, TypeOK, RouteInd
<1>1. CASE NoRows /\ NoQueue
  BY <1>1, ContractStutters DEF NoRows, NoQueue, rowVars, queueVars
<1>2. CASE NoRows /\ ~NoQueue
  <2>1. pc[s] = "enqueue" /\ Add(s)
    BY <1>2, RouteStepQueue
  <2>2. /\ status[s] \in Contract!Open \union Contract!Final
        /\ status' = status
    BY <1>i, <1>2, <2>1 DEF RequestInd, InFlight, RunStatuses, Contract!Open,
       Contract!Final, NoRows, rowVars
  <2>3. {r \in Runs : list'[r] # "absent"} = {r \in Runs : list[r] # "absent"} \union {s}
    BY <1>i, <2>1, AddFacts
  <2>4. Contract!HandOver(s)
    BY <2>2, <2>3 DEF Contract!HandOver
  <2> QED
    BY <2>4 DEF Contract!Next
<1>3. CASE ~NoRows
  <2>1. list' = list
    BY <1>3, RouteStepQueue, RouteStepRows DEF NoQueue, queueVars
  <2>2. CASE pc[s] = "create" /\ CreateRow(s)
    <3>1. Contract!Queue(s)
      BY <2>1, <2>2 DEF CreateRow, Contract!Queue
    <3> QED
      BY <3>1 DEF Contract!Next
  <2>3. CASE pc[s] = "discard" /\ DiscardRow(s)
    <3>1. CASE status[s] = "QUEUED"
      <4>1. list[s] = "absent"
        BY <1>i, <2>3 DEF RequestInd, Early
      <4>2. Contract!Discard(s)
        BY <2>1, <2>3, <3>1, <4>1 DEF DiscardRow, Contract!Discard
      <4> QED
        BY <4>2 DEF Contract!Next
    <3>2. CASE status[s] # "QUEUED"
      BY <2>1, <2>3, <3>2, ContractStutters DEF DiscardRow
    <3> QED
      BY <3>1, <3>2
  <2>4. CASE pc[s] = "compensate" /\ FinishRows({s}, "FAILED", "QUEUE_UNAVAILABLE")
    <3>1. "FAILED" \in Terminal /\ "QUEUE_UNAVAILABLE" \in FailureCodes
      BY DEF Terminal, FailureCodes
    <3> QED
      BY <2>1, <2>4, <3>1, ContractEnds
  <2> QED
    BY <1>3, <2>2, <2>3, <2>4, RouteStepRows
<1> QED
  BY <1>1, <1>2, <1>3

\* A step of an execution is Start, End, Announce or a stutter.
LEMMA ExecutorStepMaps ==
  ASSUME Ind, NEW e \in Executors, ExecutorStep(e)
  PROVE  Contract!Next \/ UNCHANGED Contract!vars
<1>t. RowsTypeOK /\ QueueTypeOK /\ ProcessorTypeOK
  BY DEF Ind, TypeOK
<1>j. at[e] # "idle" => /\ job[e] \in Runs /\ list[job[e]] # "absent"
                        /\ status[job[e]] \in RunStatuses
  BY HoldsItsJob
<1>u. UNCHANGED <<rowVars, queueVars, announced>> => UNCHANGED Contract!vars
  BY ContractStutters DEF rowVars, queueVars
<1>1. CASE \E r \in Runs : Deliver(e, r)
  BY <1>1, <1>t, ContractMovesJobs DEF Deliver, MoveToActive, Silent, rowVars, QueueTypeOK
<1>2. CASE Parse(e)
  <2>1. CASE FinishRows({job[e]}, "FAILED", "INVALID_CIRCUIT")
    <3>1. "FAILED" \in Terminal /\ "INVALID_CIRCUIT" \in FailureCodes
      BY DEF Terminal, FailureCodes
    <3> QED
      BY <1>2, <1>j, <2>1, <3>1, ContractEnds DEF Parse, Step, Silent, queueVars
  <2>2. CASE UNCHANGED rowVars
    BY <1>2, <1>u, <2>2 DEF Parse, Silent
  <2> QED
    BY <1>2, <2>1, <2>2 DEF Parse
<1>3. CASE Claim(e)
  <2>1. CASE UNCHANGED status
    BY <1>3, <2>1, ContractStutters DEF Claim, Silent, queueVars
  <2>2. CASE status' # status
    <3>1. job[e] \in Runs /\ list[job[e]] # "absent" /\ ClaimRow(job[e], recovery[e])
      BY <1>3, <1>j, <2>2 DEF Claim, Step, rowVars
    <3>2. status[job[e]] = "QUEUED" /\ status' = [status EXCEPT ![job[e]] = "RUNNING"]
      BY <1>t, <2>2, <3>1 DEF ClaimRow, ClaimableBy, RowsTypeOK
    <3>3. Contract!Start(job[e])
      BY <1>3, <3>1, <3>2 DEF Contract!Start, Claim, Silent, queueVars
    <3> QED
      BY <3>1, <3>3 DEF Contract!Next
  <2> QED
    BY <2>1, <2>2
<1>4. CASE PoolSettles(e)
  BY <1>4, <1>u DEF PoolSettles, Silent
<1>5. CASE Write(e)
  <2>1. CASE FinishRows({job[e]}, outcome[e], CodeOf(outcome[e]))
    <3>1. outcome[e] \in Terminal /\ CodeOf(outcome[e]) \in FailureCodes
      BY <1>5 DEF Write, Step, Ind, ExecInd, CodeOf, FailureCodes
    <3> QED
      BY <1>5, <1>j, <2>1, <3>1, ContractEnds DEF Write, Step, Silent, queueVars
  <2>2. CASE UNCHANGED rowVars
    BY <1>5, <1>u, <2>2 DEF Write, Silent
  <2> QED
    BY <1>5, <2>1, <2>2 DEF Write
<1>6. CASE Announce(e)
  <2>1. /\ job[e] \in Runs
        /\ status[job[e]] = outcome[e] /\ outcome[e] \in Terminal
        /\ announced[job[e]] = <<>>
    BY <1>6, <1>j DEF Announce, Step, Ind, EndingInd, FrameInd
  <2>2. announced' = [announced EXCEPT ![job[e]] = <<status[job[e]]>>]
    BY <1>6, <2>1 DEF Announce
  <2>3. Contract!Announce(job[e])
    BY <1>6, <2>1, <2>2
       DEF Contract!Announce, Contract!Final, Terminal, Announce, rowVars, queueVars
  <2> QED
    BY <2>1, <2>3 DEF Contract!Next
<1>7. CASE Signal(e)
  BY <1>7, <1>u DEF Signal
<1>8. CASE Ack(e)
  BY <1>8, <1>t, <1>j, ContractMovesJobs DEF Ack, MoveToCompleted, Silent, rowVars, QueueTypeOK
<1>9. CASE Nack(e)
  BY <1>9, <1>t, <1>j, ContractMovesJobs DEF Nack, MoveToFailed, Silent, rowVars, QueueTypeOK
<1> QED
  BY <1>1, <1>2, <1>3, <1>4, <1>5, <1>6, <1>7, <1>8, <1>9 DEF ExecutorStep

\* Every step of the life cycle is a step of the contract or a stutter.
LEMMA StepMaps ==
  ASSUME Ind, [Next]_vars
  PROVE  [Contract!Next]_Contract!vars
<1>t. QueueTypeOK /\ ReaperTypeOK
  BY DEF Ind, TypeOK
<1>u. UNCHANGED <<rowVars, queueVars, announced>> => UNCHANGED Contract!vars
  BY ContractStutters DEF rowVars, queueVars
<1>1. CASE RouteActs
  <2>1. ASSUME NEW S \in SUBSET Runs, ApiDies(S) PROVE UNCHANGED Contract!vars
    BY <1>1, <2>1, <1>u DEF ApiDies, NoRows, NoQueue, RouteActs
  <2>2. ASSUME NEW w \in Works, KeyExpires(w) PROVE UNCHANGED Contract!vars
    BY <1>1, <2>2, <1>u DEF KeyExpires, NoRows, NoQueue, RouteActs
  <2> QED
    BY <1>1, <2>1, <2>2, RouteStepMaps DEF RouteActs, RouteNext
<1>2. CASE WorkerActs
  <2>1. ASSUME NEW E \in SUBSET Executors, WorkerDies(E) PROVE UNCHANGED Contract!vars
    BY <2>1, ContractStutters DEF WorkerDies, Silent, rowVars
  <2>2. ASSUME NEW r \in Runs, Starves(r) \/ QueueMoves(r) PROVE UNCHANGED Contract!vars
    BY <2>2, <1>t, ContractMovesJobs
       DEF Starves, LockExpires, QueueMoves, Promote, RecoverStalled, Silent, rowVars,
           QueueTypeOK
  <2> QED
    BY <1>2, <2>1, <2>2, ExecutorStepMaps DEF WorkerActs, ProcessorNext
<1>3. CASE ReaperActs
  <2>1. CASE FinishRows(picked, "FAILED", "WORKER_CRASHED")
    <3>1. "FAILED" \in Terminal /\ "WORKER_CRASHED" \in FailureCodes
          /\ picked \in SUBSET Runs
      BY <1>t DEF Terminal, FailureCodes, ReaperTypeOK
    <3> QED
      BY <1>3, <2>1, <3>1, ContractEnds DEF ReaperActs, queueVars
  <2>2. CASE UNCHANGED rowVars
    BY <1>3, <2>2, <1>u DEF ReaperActs
  <2> QED
    BY <1>3, <2>1, <2>2 DEF ReaperActs, Sweep, SweepRead, SweepWrite, RunAges, Ages
<1>4. CASE AllOver \/ UNCHANGED vars
  BY <1>4, <1>u DEF AllOver, vars
<1> QED
  BY <1>1, <1>2, <1>3, <1>4 DEF Next

\* The life cycle implements the contract its clients rely on: what a holder of
\* a run id can see, the row, the hand-over and the frames, moves only as
\* RunContract allows.
THEOREM LifeCycleImplementsContract == Spec => ImplementsContract
<1>1. Init => Contract!Init
  BY DEF Init, RowsInit, QueueInit, ProcessorInit, Contract!Init
<1>2. Ind /\ [Next]_vars => [Contract!Next]_Contract!vars
  BY StepMaps
<1> QED
  BY <1>1, <1>2, Invariance, PTL DEF Spec, ImplementsContract, Contract!Spec
==============================================================================
