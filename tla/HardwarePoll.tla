---------------------------- MODULE HardwarePoll -----------------------------
(***************************************************************************)
(* One tick of a hardware job (apps/worker/src/hardware.ts) and the queue  *)
(* and sweep around it (hardware-queue.ts). An execution reads the row     *)
(* once and then acts on that reading: every call it makes is a step, and  *)
(* other ticks, the sweep, a cancel or the reaper may come in between.     *)
(* Frames are published without waiting, with the write they report, and   *)
(* only the final ones are kept.                                           *)
(***************************************************************************)
EXTENDS HardwareTicks, HardwareProvider

CONSTANT MaxSubmitAttempts    \* MAX_SUBMIT_ATTEMPTS

VARIABLES
  exec,         \* [Executors -> ExecType]: the ticks that are under way
  sweep,        \* the tick a resume sweep is about to book, or NoSweep
  published     \* Seq(FinalStatus): the hardware:complete frames

pollVars == <<exec, sweep, published>>

ASSUME PollAssumption == MaxSubmitAttempts \in Nat \ {0}

NoSweep == 0    \* a sweep books pollCount + 1, which is never 0

PollPc == {"idle", "find", "client", "claim", "send", "record", "undo", "ask",
           "collect", "observe", "complete", "fail", "book", "ack", "nack"}

ExecType == [at: PollPc,
             tick: Ticks,
             id: 0 .. MaxIds,       \* providerJobId as it was read, or just sent
             count: Nat,            \* pollCount as it was read
             word: OpenStatus \union FinalStatus \union ErrorCodes]

Idle == [at |-> "idle", tick |-> 0, id |-> NoId, count |-> 0, word |-> "NONE"]

PollTypeOK ==
  /\ exec \in [Executors -> ExecType]
  /\ sweep \in Ticks
  /\ published \in Seq(FinalStatus)

PollInit ==
  /\ exec = [e \in Executors |-> Idle]
  /\ sweep = NoSweep
  /\ published = <<>>

At(e, pc) == exec[e].at = pc

\* On with the provider job the tick knows of; to a write of a status or of a
\* failure code; to the end, with nothing left to remember but the number.
Goto(e, pc) == exec' = [exec EXCEPT ![e].at = pc, ![e].count = 0]

GotoWith(e, pc, word) ==
  exec' = [exec EXCEPT ![e] =
             [Idle EXCEPT !.at = pc, !.tick = exec[e].tick, !.word = word]]

End(e, pc) == GotoWith(e, pc, "NONE")

Publish(s) == published' = Append(published, s)

KeepRow    == UNCHANGED rowVars
KeepDevice == UNCHANGED device
Quietly    == UNCHANGED <<published, sweep>>

\* The repository fails: the write may have been made all the same.
StorageFails(e, write) ==
  /\ Fault("database")
  /\ write \/ KeepRow
  /\ End(e, "nack")
  /\ UNCHANGED published

------------------------------------------------------------------------------
(* The head of pollHardwareJob. *)

\* The consumer: parseHardwarePayload refuses a tick past the schema's max.
Deliver(e, t) ==
  /\ At(e, "idle")
  /\ MoveToActive(t, e)
  /\ exec' = [exec EXCEPT ![e] =
       [Idle EXCEPT !.at = IF t <= MaxPollAttempts THEN "find" ELSE "nack",
                    !.tick = t]]
  /\ KeepRow /\ KeepDevice /\ Quietly /\ NoFault

PollAbandoned(tick) == tick >= MaxPollAttempts

\* findPollable, the one reading of the row, and the refusals that follow it.
Find(e) ==
  /\ At(e, "find")
  /\ \/ ~IsOpen /\ End(e, "ack") /\ NoFault
     \/ /\ IsOpen
        /\ PollAbandoned(exec[e].tick)
        /\ GotoWith(e, "fail", "POLL_ABANDONED")
        /\ NoFault
     \/ /\ IsOpen
        /\ ~PollAbandoned(exec[e].tick)
        /\ IF ~row.credential THEN GotoWith(e, "fail", "CREDENTIAL_MISSING")
           ELSE exec' = [exec EXCEPT ![e].at = "client",
                                     ![e].id = row.providerJobId,
                                     ![e].count = row.pollCount]
        /\ NoFault
     \/ Fault("database") /\ End(e, "nack")
  /\ KeepRow /\ UNCHANGED <<tickVars, device>> /\ Quietly

\* Mutant: one attempt too many.
SubmitAbandonedLate(count) == count > MaxSubmitAttempts

SubmitAbandoned(count) == count >= MaxSubmitAttempts

\* clientFor reads the credential outside storage(): a failed read there is
\* an error of the provider's to failFromProvider, and final. Then the split
\* into submit, with its ceiling on attempts, and observe.
Client(e) ==
  /\ At(e, "client")
  /\ \/ /\ ~row.credential
        /\ GotoWith(e, "fail", "CREDENTIAL_MISSING")
        /\ NoFault
     \/ /\ row.credential
        /\ IF exec[e].id # NoId THEN Goto(e, "ask")
           ELSE IF SubmitAbandoned(exec[e].count)
                THEN GotoWith(e, "fail", "SUBMIT_ABANDONED")
                ELSE Goto(e, "claim")
        /\ NoFault
     \/ Fault("database") /\ GotoWith(e, "fail", "PROVIDER_REFUSED")
  /\ KeepRow /\ UNCHANGED <<tickVars, device>> /\ Quietly

\* failFromProvider on an error of a provider call. A retryable one books the
\* next tick; a refusal ends the job; so does a credential that could not be
\* read again for the token exchange, by whichever cause.
ProviderFails(e) ==
  \/ Fault("network") /\ End(e, "book")
  \/ Fault("refusal") /\ GotoWith(e, "fail", "PROVIDER_REFUSED")
  \/ Fault("database") /\ GotoWith(e, "fail", "PROVIDER_REFUSED")
  \/ ~row.credential /\ NoFault /\ GotoWith(e, "fail", "PROVIDER_REFUSED")

------------------------------------------------------------------------------
(* submit *)

\* Mutant: a tick that lost the claim submits all the same.
ClaimLoosely(e) ==
  /\ At(e, "claim")
  /\ ClaimSubmission
  /\ Goto(e, "send")
  /\ NoFault /\ Quietly /\ UNCHANGED <<tickVars, device>>

Claim(e) ==
  /\ At(e, "claim")
  /\ \/ /\ ClaimSubmission
        /\ IF Claimable THEN Goto(e, "send") ELSE End(e, "ack")
        /\ NoFault /\ UNCHANGED published
     \/ StorageFails(e, ClaimSubmission)
  /\ UNCHANGED <<tickVars, device, sweep>>

\* submitJob: the one call that spends QPU time. Its answer may be lost, or
\* be one this build cannot read.
Send(e) ==
  /\ At(e, "send")
  /\ Sent < MaxIds
  /\ \/ /\ PostJob
        /\ exec' = [exec EXCEPT ![e].at = "record", ![e].id = Sent + 1]
        /\ NoFault
     \/ PostJob /\ Fault("network") /\ End(e, "book")
     \/ PostJob /\ Fault("refusal") /\ GotoWith(e, "fail", "RESULT_UNREADABLE")
     \/ ProviderFails(e) /\ KeepDevice
  /\ KeepRow /\ UNCHANGED tickVars /\ Quietly

Record(e) ==
  /\ At(e, "record")
  /\ \/ /\ RecordSubmission(exec[e].id)
        /\ IF Recordable THEN End(e, "book") ELSE Goto(e, "undo")
        /\ NoFault /\ UNCHANGED published
     \/ StorageFails(e, RecordSubmission(exec[e].id))
  /\ UNCHANGED <<tickVars, device, sweep>>

\* Mutant: a job whose row had moved is left to run.
ForgetToUndo(e) ==
  /\ At(e, "undo")
  /\ End(e, "ack")
  /\ NoFault /\ KeepDevice /\ KeepRow /\ UNCHANGED tickVars /\ Quietly

\* The row moved during the submission: a best-effort cancel at the provider.
Undo(e) ==
  /\ At(e, "undo")
  /\ End(e, "ack")
  /\ \/ CancelAtProvider(exec[e].id) /\ NoFault
     \/ KeepDevice /\ ~row.credential /\ NoFault
     \/ KeepDevice /\ (Fault("network") \/ Fault("refusal") \/ Fault("database"))
  /\ KeepRow /\ UNCHANGED tickVars /\ Quietly

------------------------------------------------------------------------------
(* observe, collect, finish, scheduleNext *)

\* readJob, and what each answer leads to.
Ask(e) ==
  /\ At(e, "ask")
  /\ \/ /\ \E answer \in Answers(exec[e].id) :
             CASE answer = "UNKNOWN" -> End(e, "book")
               [] answer = "DONE"    -> Goto(e, "collect")
               [] answer = "FAILED"  -> GotoWith(e, "fail", "PROVIDER_FAILED")
               [] OTHER              -> GotoWith(e, "observe", answer)
        /\ NoFault
     \/ ProviderFails(e)
  /\ KeepRow /\ KeepDevice /\ UNCHANGED tickVars /\ Quietly

\* readResults and the conversion. Results that are not readable yet end the
\* tick, and nothing is booked.
Collect(e) ==
  /\ At(e, "collect")
  /\ \/ device[exec[e].id] = "done" /\ End(e, "ack") /\ NoFault
     \/ device[exec[e].id] = "readable" /\ Goto(e, "complete") /\ NoFault
     \/ device[exec[e].id] = "readable" /\ Fault("refusal")
          /\ GotoWith(e, "fail", "RESULT_UNREADABLE")
     \/ ProviderFails(e)
  /\ KeepRow /\ KeepDevice /\ UNCHANGED tickVars /\ Quietly

\* Mutant: the final frame goes out whether or not the write matched.
CompleteLoudly(e) ==
  /\ At(e, "complete")
  /\ CompleteJob(exec[e].id)
  /\ Publish("DONE")
  /\ End(e, "ack")
  /\ NoFault /\ UNCHANGED <<tickVars, device, sweep>>

Complete(e) ==
  /\ At(e, "complete")
  /\ \/ /\ CompleteJob(exec[e].id)
        /\ IF IsOpen THEN Publish("DONE") ELSE UNCHANGED published
        /\ End(e, "ack")
        /\ NoFault
     \/ StorageFails(e, CompleteJob(exec[e].id))
  /\ UNCHANGED <<tickVars, device, sweep>>

\* recordObservation: a status to go on from, or the provider's CANCELLED.
Observe(e) ==
  LET word == exec[e].word IN
  /\ At(e, "observe")
  /\ \/ /\ RecordObservation(word)
        /\ IF word = "CANCELLED"
           THEN /\ End(e, "ack")
                /\ IF IsOpen THEN Publish(word) ELSE UNCHANGED published
           ELSE /\ End(e, IF Observable(word) THEN "book" ELSE "ack")
                /\ UNCHANGED published
        /\ NoFault
     \/ StorageFails(e, RecordObservation(word))
  /\ UNCHANGED <<tickVars, device, sweep>>

\* finish
Fail(e) ==
  /\ At(e, "fail")
  /\ \/ /\ FailJob(exec[e].word)
        /\ IF IsOpen THEN Publish("FAILED") ELSE UNCHANGED published
        /\ End(e, "ack")
        /\ NoFault
     \/ StorageFails(e, FailJob(exec[e].word))
  /\ UNCHANGED <<tickVars, device, sweep>>

\* scheduleNext. A failure escapes as a storage error.
Book(e) ==
  /\ At(e, "book")
  /\ \/ AddTick(exec[e].tick + 1) /\ End(e, "ack") /\ NoFault
     \/ /\ Fault("redis") /\ End(e, "nack")
        /\ AddTick(exec[e].tick + 1) \/ UNCHANGED tickVars
  /\ KeepRow /\ KeepDevice /\ Quietly

\* The processor returned or threw; the queue is told.
Settle(e) ==
  /\ exec[e].at \in {"ack", "nack"}
  /\ Release(exec[e].tick, e, IF At(e, "ack") THEN "absent" ELSE "failed")
  /\ exec' = [exec EXCEPT ![e] = Idle]
  /\ NoFault /\ KeepRow /\ KeepDevice /\ Quietly

------------------------------------------------------------------------------
(* The workers around the ticks. *)

\* A worker process dies with execution e; its lock will not be renewed.
WorkerDies(e) ==
  /\ ~At(e, "idle")
  /\ Fault("worker")
  /\ lock' = [t \in Ticks |-> IF lock[t] = e THEN NoLock ELSE lock[t]]
  /\ exec' = [exec EXCEPT ![e] = Idle]
  /\ KeepRow /\ KeepDevice /\ Quietly /\ UNCHANGED <<list, stalled>>

\* A live execution stops renewing, and carries on.
Starves(t) ==
  /\ Fault("worker")
  /\ LockExpires(t)
  /\ KeepRow /\ KeepDevice /\ Quietly /\ UNCHANGED exec

QueueMoves(t) ==
  /\ RecoverStalled(t) \/ ForgetFailed(t)
  /\ NoFault /\ KeepRow /\ KeepDevice /\ Quietly /\ UNCHANGED exec

\* resumeOnce: the read, on a timer and at boot.
SweepRead ==
  /\ sweep = NoSweep
  /\ Resumable
  /\ row.pollCount < TickBound
  /\ sweep' = row.pollCount + 1
  /\ NoFault /\ KeepRow /\ KeepDevice /\ UNCHANGED <<tickVars, exec, published>>

\* Then the booking, whose failure is swallowed.
SweepBook ==
  /\ sweep # NoSweep
  /\ sweep' = NoSweep
  /\ \/ AddTick(sweep) /\ NoFault
     \/ Fault("redis") /\ (AddTick(sweep) \/ UNCHANGED tickVars)
     \/ Fault("worker") /\ UNCHANGED tickVars
  /\ KeepRow /\ KeepDevice /\ UNCHANGED <<exec, published>>

TickStep(e) ==
  \/ \E t \in Ticks : Deliver(e, t)
  \/ Find(e) \/ Client(e) \/ Claim(e) \/ Send(e) \/ Record(e) \/ Undo(e)
  \/ Ask(e) \/ Collect(e) \/ Complete(e) \/ Observe(e) \/ Fail(e) \/ Book(e)
  \/ Settle(e)

PollNext ==
  \/ \E e \in Executors : TickStep(e) \/ WorkerDies(e)
  \/ \E t \in Ticks : Starves(t) \/ QueueMoves(t)
  \/ SweepRead \/ SweepBook

==============================================================================
