--------------------------- MODULE HardwareSystem ----------------------------
(***************************************************************************)
(* The life of a hardware job: the requests of apps/api, the ticks and the *)
(* resume sweep of apps/worker, the reaper and the provider, over one row  *)
(* and one queue, and the clock they all read.                             *)
(***************************************************************************)
EXTENDS HardwarePoll, HardwareRoutes, FiniteSets

vars == <<rowVars, old, outside, tickVars, device, pollVars, routeVars>>

Init ==
  /\ RowInit /\ TicksInit /\ DeviceInit /\ PollInit /\ RoutesInit

RouteActs == RoutesNext /\ UNCHANGED <<old, pollVars>>

WorkerActs == PollNext /\ UNCHANGED <<old, routeVars>>

Calm == (\A e \in Executors : At(e, "idle")) /\ sweep = NoSweep

Elapse == UNCHANGED <<row, outside, tickVars, device, pollVars, routeVars>>

ClaimWindowPasses ==
  /\ quiet = "fresh" /\ IsOpen
  /\ Timely("calls") => Calm
  /\ quiet' = "cool"
  /\ Elapse /\ UNCHANGED old

BecomesIdle ==
  /\ quiet = "cool" /\ IsOpen
  /\ Timely("calls") => Calm
  /\ Timely("queue") =>
       Booked = {} /\ post \notin {"enqueue", "compensate"} /\ del = NoDelete
  /\ quiet' = "idle"
  /\ Elapse /\ UNCHANGED old

TwoDaysPass ==
  /\ ~Timely("poll")
  /\ ~old /\ IsOpen
  /\ post \notin {"enqueue", "compensate"}
  /\ old' = TRUE
  /\ Elapse /\ UNCHANGED quiet

\* reapStaleHardwareJobs. A sweep that fails is swallowed and runs again.
ReapStaleHardwareJobs ==
  /\ FailStaleJobs
  /\ NoFault
  /\ UNCHANGED <<tickVars, device, pollVars, routeVars>>

OwnerDeletesCredential ==
  /\ row.status # "ABSENT"
  /\ Fault("owner")
  /\ DeleteCredential
  /\ UNCHANGED <<tickVars, device, pollVars, routeVars>>

ProviderMoves(A) ==
  A /\ UNCHANGED <<rowVars, old, outside, tickVars, pollVars, routeVars>>

ProviderActs ==
  \E id \in DOMAIN device : ProviderMoves(DeviceMoves(id) \/ ResultsArrive(id))

Next ==
  \/ RouteActs \/ WorkerActs \/ ProviderActs
  \/ ClaimWindowPasses \/ BecomesIdle \/ TwoDaysPass
  \/ ReapStaleHardwareJobs \/ OwnerDeletesCredential

Spec == Init /\ [][Next]_vars

------------------------------------------------------------------------------
(* Fairness. The event loops of the API and of a live worker take the next *)
(* step of what they hold, the stalled check, the sweep and the reaper run *)
(* on timers, and time passes. No failure is owed, nor is any progress of  *)
(* the provider, nor that the queue drops a failed tick; but where the     *)
(* timing "results" is assumed, what it says is done can be read some day. *)

WorkerMoves(A) == A /\ UNCHANGED <<old, routeVars>>
RouteMoves(A)  == A /\ UNCHANGED <<old, pollVars>>

HardwareFairness ==
  /\ WF_vars(RouteMoves(PostStep)) /\ WF_vars(RouteMoves(DeleteStep))
  /\ \A e \in Executors : WF_vars(WorkerMoves(TickStep(e)))
  /\ \A t \in Ticks : WF_vars(WorkerMoves(QueueMoves(t) /\ list[t] = "active"))
  /\ WF_vars(WorkerMoves(SweepRead)) /\ WF_vars(WorkerMoves(SweepBook))
  /\ WF_vars(ClaimWindowPasses) /\ WF_vars(BecomesIdle) /\ WF_vars(TwoDaysPass)
  /\ WF_vars(ReapStaleHardwareJobs)
  /\ \A id \in 1 .. MaxIds :
       WF_vars(Timely("results") /\ ProviderMoves(ResultsArrive(id)))

FairSpec == Spec /\ HardwareFairness

------------------------------------------------------------------------------
(* Properties. *)

\* Every variable holds a value of its kind.
TypeOK == RowTypeOK /\ TicksTypeOK /\ DeviceTypeOK /\ PollTypeOK /\ RoutesTypeOK

\* A final status is final: no second tick, cancel, sweep or reaper changes
\* the status, the answer or the failure code of a row that has ended
\* (packages/db/src/hardware.ts, completeJob: "a second poll that raced the
\* first must not overwrite an answer somebody has already read"). And the
\* provider's id is written once, by the tick that sent the job: no row loses
\* the handle of what spends the allowance.
RowOnlyAdvances ==
  [][/\ row.status \in FinalStatus =>
          /\ row'.status = row.status
          /\ row'.result = row.result
          /\ row'.errorMessage = row.errorMessage
     /\ row.providerJobId # NoId => row'.providerJobId = row.providerJobId]_vars

\* The allowance: however many ticks, sweeps, redeliveries and lost answers,
\* one job of the user is sent to the provider at most MAX_SUBMIT_ATTEMPTS
\* times (packages/jobs/src/hardware.ts, "the worst case is three jobs").
SubmissionsAreBounded == Sent <= MaxSubmitAttempts

Submitting == {e \in Executors : exec[e].at \in {"send", "record"}}

\* Two ticks of one job are never both between their claim and the end of
\* their submission: the claim is exclusive.
OneSubmissionAtATime == Cardinality(Submitting) <= 1

\* Once the row has its provider id nothing is sent for it again.
NothingIsSentTwice ==
  [][row.providerJobId # NoId => Sent' = Sent]_vars

\* A DONE row holds the samples of the provider job it names, and that job
\* had its results to give.
DoneHasTheAnswer ==
  row.status = "DONE" =>
    /\ row.result = row.providerJobId
    /\ row.result \in DOMAIN device
    /\ device[row.result] = "readable"

\* A hardware:complete frame goes out at most once and carries the status
\* the row ended with, whichever tick published it.
FinalFrameIsTrue == published \in {<<>>, <<row.status>>}

\* Together: what every tick, request and sweep may find.
HardwareInvariant ==
  TypeOK /\ OneSubmissionAtATime /\ DoneHasTheAnswer /\ FinalFrameIsTrue

\* The provider jobs that are under way and that neither the row nor the tick
\* that sent them knows of: they spend the allowance unseen.
Orphans ==
  {id \in DOMAIN device :
     /\ Live(id)
     /\ id # row.providerJobId
     /\ \A e \in Executors :
          ~(exec[e].id = id /\ exec[e].at \in {"record", "undo"})}

\* A cancel, a sweep or a second tick that races a submission never leaves an
\* orphan: each one costs a failure of a call or of a worker.
OrphansNeedFailures == Cardinality(Orphans) <= outside.happened

\* Every job ends: DONE, FAILED or CANCELLED.
EveryJobEnds == row.status # "ABSENT" ~> row.status \in FinalStatus

==============================================================================
