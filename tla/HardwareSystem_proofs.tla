------------------------ MODULE HardwareSystem_proofs ------------------------
(***************************************************************************)
(* What HardwareSystem states of a hardware job, proved for any number of  *)
(* executions, ticks, submissions and failures. The first half needs no    *)
(* timing assumption: a final row stays as it ended, its samples are those *)
(* of the job it names, its frame is true. The second half, that the claim *)
(* is exclusive and what follows from it, is proved where calls are timely:*)
(* the transport gives a call up long before SUBMIT_CLAIM_MS is over.      *)
(***************************************************************************)
EXTENDS HardwareSystem, FiniteSetTheorems, TLAPS

------------------------------------------------------------------------------
(* The invariant. *)

\* The word a tick is about to write is one the write is for.
WordOf(e) ==
  /\ At(e, "fail") => exec[e].word \in ErrorCodes
  /\ At(e, "observe") => exec[e].word \in {"QUEUED", "RUNNING", "CANCELLED"}

\* Whoever goes on with a provider job goes on with the one the row names, and
\* completes the row with samples that can be read.
HandleOf(e) ==
  /\ exec[e].at \in {"record", "undo"} => exec[e].id \in DOMAIN device
  /\ At(e, "client") /\ exec[e].id # NoId => exec[e].id = row.providerJobId
  /\ exec[e].at \in {"ask", "collect", "complete"} =>
       exec[e].id # NoId /\ exec[e].id = row.providerJobId
  /\ At(e, "complete") => device[exec[e].id] = "readable"

\* The provider's id is written as the row leaves SUBMITTED.
HandleInd ==
  row.providerJobId # NoId =>
    /\ row.status \notin {"ABSENT", "SUBMITTED"}
    /\ row.providerJobId \in DOMAIN device

\* Nothing was published of a job that goes on, and one frame of one that ended.
FrameInd ==
  published = <<>> \/ (row.status \in FinalStatus /\ published = <<row.status>>)

\* What holds whatever the timing.
AnswerInd ==
  /\ TypeOK
  /\ \A e \in Executors : WordOf(e) /\ HandleOf(e)
  /\ HandleInd
  /\ DoneHasTheAnswer
  /\ FrameInd

\* On the way to a submission, or in one.
SubmitPc == {"client", "claim", "send", "record", "undo"}

\* Between a claim and the end of its submission.
Busy == {e \in Executors : exec[e].at \in {"send", "record", "undo"}}

\* One tick at a time holds the claim, which is fresh as long as it does.
ClaimInd ==
  /\ \A e, f \in Busy : e = f
  /\ Busy # {} => row.polled /\ quiet = "fresh"
  /\ \A e \in Executors :
       /\ exec[e].at \in SubmitPc => row.status # "ABSENT"
       /\ At(e, "send") => row.providerJobId = NoId
       /\ At(e, "undo") => row.status # "SUBMITTED"

\* Each submission was counted before it was made, and a tick that may still
\* win the claim has read the count as it is.
CountInd ==
  /\ Sent <= row.pollCount
  /\ Sent <= MaxSubmitAttempts
  /\ \A e \in Executors :
       /\ At(e, "send") => Sent < row.pollCount /\ Sent < MaxSubmitAttempts
       /\ At(e, "client") /\ exec[e].id = NoId /\ Claimable =>
            exec[e].count = row.pollCount
       /\ At(e, "claim") /\ Claimable => row.pollCount < MaxSubmitAttempts

\* A deleted credential may yet cost one orphan: the job of a submission that
\* is under way, or that may still be claimed.
Debt == IF ~row.credential /\ (row.status = "SUBMITTED" \/ Busy # {}) THEN 1 ELSE 0

OrphanInd ==
  /\ row.status = "ABSENT" => row.credential
  /\ Cardinality(Orphans) + Debt <= outside.happened

\* Where calls are timely.
TimelyInd ==
  Timely("calls") /\ AnswerInd /\ ClaimInd /\ CountInd /\ OrphanInd

------------------------------------------------------------------------------
(* Where an execution may be after a step of its own.                      *)

\* Goto moves e alone, which keeps its number, its provider job and its word.
LEMMA GotoMoves ==
  ASSUME exec \in [Executors -> ExecType], NEW e \in Executors, NEW pc \in PollPc,
         Goto(e, pc)
  PROVE  /\ exec' \in [Executors -> ExecType]
         /\ exec'[e].at = pc
         /\ exec'[e].id = exec[e].id
         /\ exec'[e].count = 0
         /\ exec'[e].word = exec[e].word
         /\ \A f \in Executors : f # e => exec'[f] = exec[f]
BY DEF Goto, ExecType

\* GotoWith moves e alone, which keeps nothing but its number.
LEMMA GotoWithMoves ==
  ASSUME exec \in [Executors -> ExecType], NEW e \in Executors, NEW pc \in PollPc,
         NEW word \in OpenStatus \union FinalStatus \union ErrorCodes,
         GotoWith(e, pc, word), TicksAssumption
  PROVE  /\ exec' \in [Executors -> ExecType]
         /\ exec'[e].at = pc
         /\ exec'[e].id = NoId
         /\ exec'[e].word = word
         /\ \A f \in Executors : f # e => exec'[f] = exec[f]
<1>1. exec'[e] = [at |-> pc, tick |-> exec[e].tick, id |-> NoId, count |-> 0,
                  word |-> word]
  BY DEF GotoWith, Idle
<1>2. exec'[e] \in ExecType
  BY <1>1, SettingsAssumption DEF ExecType, NoId, SettingsAssumption
<1> QED
  BY <1>1, <1>2 DEF GotoWith

\* So does the end of a tick.
LEMMA EndMoves ==
  ASSUME exec \in [Executors -> ExecType], NEW e \in Executors, NEW pc \in PollPc,
         End(e, pc), TicksAssumption
  PROVE  /\ exec' \in [Executors -> ExecType]
         /\ exec'[e].at = pc
         /\ exec'[e].id = NoId
         /\ exec'[e].word = "NONE"
         /\ \A f \in Executors : f # e => exec'[f] = exec[f]
BY GotoWithMoves DEF End, ErrorCodes

\* A failure is one of the budget, or there is none.
LEMMA FaultCounts ==
  ASSUME RowTypeOK, NEW kind, Fault(kind)
  PROVE  /\ outside' \in [kinds: SUBSET FaultKinds, max: Nat,
                          timely: SUBSET Timings, happened: Nat]
         /\ outside'.happened <= outside'.max
         /\ outside'.happened = outside.happened + 1
         /\ outside'.timely = outside.timely
BY DEF RowTypeOK, Fault

------------------------------------------------------------------------------
(* What the writes leave. *)

\* A row, field by field.
LEMMA RowFields ==
  ASSUME row \in RowType
  PROVE  /\ row = [status |-> row.status, providerJobId |-> row.providerJobId,
                   pollCount |-> row.pollCount, polled |-> row.polled,
                   credential |-> row.credential, result |-> row.result,
                   errorMessage |-> row.errorMessage]
         /\ row.status \in {"ABSENT"} \union OpenStatus \union FinalStatus
         /\ row.providerJobId \in 0 .. MaxIds
         /\ row.pollCount \in Nat
         /\ row.polled \in BOOLEAN
         /\ row.credential \in BOOLEAN
         /\ row.result \in 0 .. MaxIds
         /\ row.errorMessage \in ErrorCodes
BY DEF RowType

\* A record of such fields is a row.
LEMMA FieldsRow ==
  ASSUME NEW s \in {"ABSENT"} \union OpenStatus \union FinalStatus,
         NEW p \in 0 .. MaxIds, NEW n \in Nat, NEW b \in BOOLEAN, NEW c \in BOOLEAN,
         NEW r \in 0 .. MaxIds, NEW m \in ErrorCodes
  PROVE  [status |-> s, providerJobId |-> p, pollCount |-> n, polled |-> b,
          credential |-> c, result |-> r, errorMessage |-> m] \in RowType
BY DEF RowType

\* What claimSubmission leaves of the row.
LEMMA ClaimWrites ==
  ASSUME row \in RowType, quiet \in Quiet, ClaimSubmission
  PROVE  /\ row' \in RowType /\ quiet' \in Quiet
         /\ ~Claimable => row' = row
         /\ Claimable =>
              row' = [status |-> row.status, providerJobId |-> row.providerJobId,
                      pollCount |-> row.pollCount + 1, polled |-> TRUE,
                      credential |-> row.credential, result |-> row.result,
                      errorMessage |-> row.errorMessage]
         /\ quiet' = IF Claimable THEN "fresh" ELSE quiet
<1>1. quiet' = IF Claimable THEN "fresh" ELSE quiet
  BY DEF ClaimSubmission, Touch
<1>2. ~Claimable => row' = row
  BY DEF ClaimSubmission, When, Touch
<1>3. Claimable =>
        row' = [status |-> row.status, providerJobId |-> row.providerJobId,
                pollCount |-> row.pollCount + 1, polled |-> TRUE,
                credential |-> row.credential, result |-> row.result,
                errorMessage |-> row.errorMessage]
  BY RowFields DEF ClaimSubmission, When, Touch
<1>4. Claimable => row' \in RowType
  <2>1. row.status \in {"ABSENT"} \union OpenStatus \union FinalStatus
    BY RowFields
  <2>2. row.providerJobId \in 0 .. MaxIds /\ row.result \in 0 .. MaxIds
    BY RowFields, SettingsAssumption DEF NoId, SettingsAssumption
  <2>3. row.pollCount + 1 \in Nat
    BY RowFields
  <2>4. row.errorMessage \in ErrorCodes
    BY RowFields
  <2>5. row.polled \in BOOLEAN /\ row.credential \in BOOLEAN
    BY RowFields
  <2>6. [status |-> row.status, providerJobId |-> row.providerJobId,
         pollCount |-> row.pollCount + 1, polled |-> TRUE,
         credential |-> row.credential, result |-> row.result,
         errorMessage |-> row.errorMessage]
        \in RowType
    BY <2>1, <2>2, <2>3, <2>4, <2>5, FieldsRow
  <2> QED
    BY <1>3, <2>6
<1> QED
  BY <1>1, <1>2, <1>3, <1>4 DEF Quiet

\* What recordSubmission leaves.
LEMMA RecordWrites ==
  ASSUME row \in RowType, quiet \in Quiet, NEW id \in 0 .. MaxIds,
         RecordSubmission(id)
  PROVE  /\ row' \in RowType /\ quiet' \in Quiet
         /\ ~Recordable => row' = row
         /\ Recordable =>
              row' = [status |-> "QUEUED", providerJobId |-> id,
                      pollCount |-> row.pollCount, polled |-> row.polled,
                      credential |-> row.credential, result |-> row.result,
                      errorMessage |-> row.errorMessage]
         /\ quiet' = quiet
<1>1. quiet' = quiet
  BY DEF RecordSubmission
<1>2. ~Recordable => row' = row
  BY DEF RecordSubmission, When
<1>3. Recordable =>
        row' = [status |-> "QUEUED", providerJobId |-> id,
                pollCount |-> row.pollCount, polled |-> row.polled,
                credential |-> row.credential, result |-> row.result,
                errorMessage |-> row.errorMessage]
  BY RowFields DEF RecordSubmission, When
<1>4. Recordable => row' \in RowType
  <2>1. "QUEUED" \in {"ABSENT"} \union OpenStatus \union FinalStatus
    BY RowFields DEF OpenStatus, FinalStatus
  <2>2. id \in 0 .. MaxIds /\ row.result \in 0 .. MaxIds
    BY RowFields, SettingsAssumption DEF NoId, SettingsAssumption
  <2>3. row.pollCount \in Nat
    BY RowFields
  <2>4. row.errorMessage \in ErrorCodes
    BY RowFields
  <2>5. row.polled \in BOOLEAN /\ row.credential \in BOOLEAN
    BY RowFields
  <2>6. [status |-> "QUEUED", providerJobId |-> id,
         pollCount |-> row.pollCount, polled |-> row.polled,
         credential |-> row.credential, result |-> row.result,
         errorMessage |-> row.errorMessage]
        \in RowType
    BY <2>1, <2>2, <2>3, <2>4, <2>5, FieldsRow
  <2> QED
    BY <1>3, <2>6
<1> QED
  BY <1>1, <1>2, <1>3, <1>4 DEF Quiet

\* What recordObservation leaves.
LEMMA ObservationWrites ==
  ASSUME row \in RowType, quiet \in Quiet, NEW word \in OpenStatus \union FinalStatus,
         RecordObservation(word)
  PROVE  /\ row' \in RowType /\ quiet' \in Quiet
         /\ ~Observable(word) => row' = row
         /\ Observable(word) =>
              row' = [status |-> word, providerJobId |-> row.providerJobId,
                      pollCount |-> row.pollCount + 1, polled |-> TRUE,
                      credential |-> row.credential, result |-> row.result,
                      errorMessage |-> row.errorMessage]
         /\ quiet' = IF Observable(word) THEN "fresh" ELSE quiet
<1>1. quiet' = IF Observable(word) THEN "fresh" ELSE quiet
  BY DEF RecordObservation, Touch
<1>2. ~Observable(word) => row' = row
  BY DEF RecordObservation, When, Touch
<1>3. Observable(word) =>
        row' = [status |-> word, providerJobId |-> row.providerJobId,
                pollCount |-> row.pollCount + 1, polled |-> TRUE,
                credential |-> row.credential, result |-> row.result,
                errorMessage |-> row.errorMessage]
  BY RowFields DEF RecordObservation, When, Touch
<1>4. Observable(word) => row' \in RowType
  <2>1. word \in {"ABSENT"} \union OpenStatus \union FinalStatus
    BY RowFields
  <2>2. row.providerJobId \in 0 .. MaxIds /\ row.result \in 0 .. MaxIds
    BY RowFields, SettingsAssumption DEF NoId, SettingsAssumption
  <2>3. row.pollCount + 1 \in Nat
    BY RowFields
  <2>4. row.errorMessage \in ErrorCodes
    BY RowFields
  <2>5. row.polled \in BOOLEAN /\ row.credential \in BOOLEAN
    BY RowFields
  <2>6. [status |-> word, providerJobId |-> row.providerJobId,
         pollCount |-> row.pollCount + 1, polled |-> TRUE,
         credential |-> row.credential, result |-> row.result,
         errorMessage |-> row.errorMessage]
        \in RowType
    BY <2>1, <2>2, <2>3, <2>4, <2>5, FieldsRow
  <2> QED
    BY <1>3, <2>6
<1> QED
  BY <1>1, <1>2, <1>3, <1>4 DEF Quiet

\* What completeJob leaves.
LEMMA CompleteWrites ==
  ASSUME row \in RowType, quiet \in Quiet, NEW id \in 0 .. MaxIds,
         CompleteJob(id)
  PROVE  /\ row' \in RowType /\ quiet' \in Quiet
         /\ ~IsOpen => row' = row
         /\ IsOpen =>
              row' = [status |-> "DONE", providerJobId |-> row.providerJobId,
                      pollCount |-> row.pollCount, polled |-> TRUE,
                      credential |-> row.credential, result |-> id,
                      errorMessage |-> "NONE"]
         /\ quiet' = IF IsOpen THEN "fresh" ELSE quiet
<1>1. quiet' = IF IsOpen THEN "fresh" ELSE quiet
  BY DEF CompleteJob, Touch
<1>2. ~IsOpen => row' = row
  BY DEF CompleteJob, When, Touch
<1>3. IsOpen =>
        row' = [status |-> "DONE", providerJobId |-> row.providerJobId,
                pollCount |-> row.pollCount, polled |-> TRUE,
                credential |-> row.credential, result |-> id,
                errorMessage |-> "NONE"]
  BY RowFields DEF CompleteJob, When, Touch
<1>4. IsOpen => row' \in RowType
  <2>1. "DONE" \in {"ABSENT"} \union OpenStatus \union FinalStatus
    BY RowFields DEF OpenStatus, FinalStatus
  <2>2. row.providerJobId \in 0 .. MaxIds /\ id \in 0 .. MaxIds
    BY RowFields, SettingsAssumption DEF NoId, SettingsAssumption
  <2>3. row.pollCount \in Nat
    BY RowFields
  <2>4. "NONE" \in ErrorCodes
    BY RowFields DEF ErrorCodes
  <2>5. row.polled \in BOOLEAN /\ row.credential \in BOOLEAN
    BY RowFields
  <2>6. [status |-> "DONE", providerJobId |-> row.providerJobId,
         pollCount |-> row.pollCount, polled |-> TRUE,
         credential |-> row.credential, result |-> id,
         errorMessage |-> "NONE"]
        \in RowType
    BY <2>1, <2>2, <2>3, <2>4, <2>5, FieldsRow
  <2> QED
    BY <1>3, <2>6
<1> QED
  BY <1>1, <1>2, <1>3, <1>4 DEF Quiet

\* What failJob leaves.
LEMMA FailWrites ==
  ASSUME row \in RowType, quiet \in Quiet, NEW code \in ErrorCodes,
         FailJob(code)
  PROVE  /\ row' \in RowType /\ quiet' \in Quiet
         /\ ~IsOpen => row' = row
         /\ IsOpen =>
              row' = [status |-> "FAILED", providerJobId |-> row.providerJobId,
                      pollCount |-> row.pollCount, polled |-> TRUE,
                      credential |-> row.credential, result |-> NoId,
                      errorMessage |-> code]
         /\ quiet' = IF IsOpen THEN "fresh" ELSE quiet
<1>1. quiet' = IF IsOpen THEN "fresh" ELSE quiet
  BY DEF FailJob, Touch
<1>2. ~IsOpen => row' = row
  BY DEF FailJob, When, Touch
<1>3. IsOpen =>
        row' = [status |-> "FAILED", providerJobId |-> row.providerJobId,
                pollCount |-> row.pollCount, polled |-> TRUE,
                credential |-> row.credential, result |-> NoId,
                errorMessage |-> code]
  BY RowFields DEF FailJob, When, Touch
<1>4. IsOpen => row' \in RowType
  <2>1. "FAILED" \in {"ABSENT"} \union OpenStatus \union FinalStatus
    BY RowFields DEF OpenStatus, FinalStatus
  <2>2. row.providerJobId \in 0 .. MaxIds /\ NoId \in 0 .. MaxIds
    BY RowFields, SettingsAssumption DEF NoId, SettingsAssumption
  <2>3. row.pollCount \in Nat
    BY RowFields
  <2>4. code \in ErrorCodes
    BY RowFields
  <2>5. row.polled \in BOOLEAN /\ row.credential \in BOOLEAN
    BY RowFields
  <2>6. [status |-> "FAILED", providerJobId |-> row.providerJobId,
         pollCount |-> row.pollCount, polled |-> TRUE,
         credential |-> row.credential, result |-> NoId,
         errorMessage |-> code]
        \in RowType
    BY <2>1, <2>2, <2>3, <2>4, <2>5, FieldsRow
  <2> QED
    BY <1>3, <2>6
<1> QED
  BY <1>1, <1>2, <1>3, <1>4 DEF Quiet

\* What creating, cancelling and reaping a job leaves.
LEMMA StatusWrites ==
  ASSUME row \in RowType, quiet \in Quiet
  PROVE  /\ CreateJob => /\ row' = [row EXCEPT !.status = "SUBMITTED"]
                         /\ row' \in RowType /\ quiet' = "fresh"
         /\ CancelJob => /\ row' = IF IsOpen THEN [row EXCEPT !.status = "CANCELLED"]
                                   ELSE row
                         /\ row' \in RowType /\ quiet' = quiet
         /\ FailStaleJobs => /\ IsOpen
                             /\ row' = [row EXCEPT !.status = "FAILED",
                                                   !.errorMessage = "POLL_ABANDONED"]
                             /\ row' \in RowType /\ quiet' = quiet
<1>1. CreateJob => row' = [row EXCEPT !.status = "SUBMITTED"] /\ quiet' = "fresh"
  BY DEF CreateJob
<1>2. CreateJob => row' \in RowType
  BY <1>1 DEF RowType, OpenStatus
<1>3. CancelJob => /\ row' = IF IsOpen THEN [row EXCEPT !.status = "CANCELLED"] ELSE row
                   /\ quiet' = quiet
  BY DEF CancelJob, When
<1>4. CancelJob => row' \in RowType
  BY <1>3 DEF RowType, FinalStatus
<1>5. FailStaleJobs => /\ IsOpen
                       /\ row' = [row EXCEPT !.status = "FAILED",
                                             !.errorMessage = "POLL_ABANDONED"]
                       /\ quiet' = quiet
  BY DEF FailStaleJobs
<1>6. FailStaleJobs => row' \in RowType
  BY <1>5 DEF RowType, FinalStatus, ErrorCodes
<1> QED
  BY <1>1, <1>2, <1>3, <1>4, <1>5, <1>6

\* The first state is of the type.
LEMMA InitType == Init => TypeOK
<1> SUFFICES ASSUME Init PROVE TypeOK
  OBVIOUS
<1> USE SettingsAssumption, TicksAssumption DEF Init, NoId
<1>1. RowTypeOK
  <2>1. row \in RowType /\ quiet \in Quiet /\ old \in BOOLEAN
    <3>1. NoId \in 0 .. MaxIds /\ "NONE" \in ErrorCodes
      BY DEF ErrorCodes, SettingsAssumption
    <3>2. row \in RowType
      BY <3>1, FieldsRow DEF RowInit
    <3> QED
      BY <3>2 DEF RowInit, Quiet
  <2>2. PICK o \in Settings :
          outside = [kinds |-> o.kinds, max |-> o.max, timely |-> o.timely,
                     happened |-> 0]
    BY DEF RowInit
  <2>3. o \in Outside
    BY DEF SettingsAssumption
  <2> QED
    BY <2>1, <2>2, <2>3 DEF RowTypeOK, Outside
<1>2. TicksTypeOK
  BY DEF TicksInit, TicksTypeOK
<1>3. DeviceTypeOK
  BY DEF DeviceInit, DeviceTypeOK
<1>4. PollTypeOK
  BY DEF PollInit, PollTypeOK, Idle, ExecType, PollPc, Ticks, ErrorCodes, NoSweep,
         SettingsAssumption, TicksAssumption
<1>5. RoutesTypeOK
  BY DEF RoutesInit, RoutesTypeOK, NoDelete, SettingsAssumption
<1> QED
  BY <1>1, <1>2, <1>3, <1>4, <1>5 DEF TypeOK

\* What a queue command leaves is a queue.
LEMMA TickTypes ==
  ASSUME TicksTypeOK
  PROVE  /\ UNCHANGED tickVars => TicksTypeOK'
         /\ \A t : AddTick(t) => TicksTypeOK'
         /\ \A t \in Ticks, e \in Executors : MoveToActive(t, e) => TicksTypeOK'
         /\ \A t \in Ticks, e \in Executors, gone \in {"absent", "failed"} :
              Release(t, e, gone) => TicksTypeOK'
         /\ \A t \in Ticks : LockExpires(t) \/ RecoverStalled(t) \/ ForgetFailed(t)
                               => TicksTypeOK'
<1> USE DEF TicksTypeOK, tickVars
<1>1. UNCHANGED tickVars => TicksTypeOK'
  OBVIOUS
<1>2. ASSUME NEW t, AddTick(t) PROVE TicksTypeOK'
  BY <1>2 DEF AddTick
<1>3. ASSUME NEW t \in Ticks, NEW e \in Executors, MoveToActive(t, e)
      PROVE  TicksTypeOK'
  BY <1>3 DEF MoveToActive
<1>4. ASSUME NEW t \in Ticks, NEW e \in Executors, NEW gone \in {"absent", "failed"},
             Release(t, e, gone)
      PROVE  TicksTypeOK'
  BY <1>4 DEF Release
<1>5. ASSUME NEW t \in Ticks, LockExpires(t) \/ RecoverStalled(t) \/ ForgetFailed(t)
      PROVE  TicksTypeOK'
  BY <1>5 DEF LockExpires, RecoverStalled, ForgetFailed
<1> QED
  BY <1>1, <1>2, <1>3, <1>4, <1>5

------------------------------------------------------------------------------
(* What a step may do to the row, to the provider's jobs and to the frames.  *)

\* No step takes a row back: an ended one stays as it is, an id is written only
\* as the row leaves SUBMITTED, and only a row whose samples can be read is DONE.
RowAdvances ==
  /\ row.status \in FinalStatus =>
       /\ row'.status = row.status
       /\ row'.result = row.result
       /\ row'.errorMessage = row.errorMessage
       /\ row'.providerJobId = row.providerJobId
  /\ row'.providerJobId # row.providerJobId =>
       /\ row.status = "SUBMITTED"
       /\ row'.status = "QUEUED"
       /\ row'.providerJobId \in DOMAIN device
  /\ row'.status \in {"ABSENT", "SUBMITTED"} => row.status \in {"ABSENT", "SUBMITTED"}
  /\ row'.status = "DONE" /\ row.status # "DONE" =>
       /\ row'.result = row'.providerJobId
       /\ row'.result \in DOMAIN device
       /\ device[row'.result] = "readable"

\* The provider forgets no job, and what can be read stays so.
DeviceAdvances ==
  \A id \in DOMAIN device :
    /\ id \in DOMAIN device'
    /\ device[id] = "readable" => device'[id] = "readable"

\* A frame goes out with the write that ends the row.
FramesAreOfWrites ==
  \/ published' = published
  \/ /\ IsOpen
     /\ row'.status \in FinalStatus
     /\ published' = Append(published, row'.status)

Advances == RowAdvances /\ DeviceAdvances /\ FramesAreOfWrites

\* Every write of the code advances the row.
LEMMA WritesAdvance ==
  ASSUME AnswerInd
  PROVE  /\ UNCHANGED row => RowAdvances
         /\ CreateJob \/ CancelJob \/ FailStaleJobs \/ DeleteCredential => RowAdvances
         /\ ClaimSubmission => RowAdvances
         /\ \A code \in ErrorCodes : FailJob(code) => RowAdvances
         /\ \A word \in {"QUEUED", "RUNNING", "CANCELLED"} :
              RecordObservation(word) => RowAdvances
         /\ \A id \in DOMAIN device :
              id \in 0 .. MaxIds /\ RecordSubmission(id) => RowAdvances
         /\ \A id \in DOMAIN device :
              /\ id \in 0 .. MaxIds /\ CompleteJob(id)
              /\ id = row.providerJobId /\ device[id] = "readable"
              => RowAdvances
<1>0. row \in RowType /\ quiet \in Quiet
  BY DEF AnswerInd, TypeOK, RowTypeOK
<1>1. UNCHANGED row => RowAdvances
  BY DEF RowAdvances
<1>2. CreateJob \/ CancelJob \/ FailStaleJobs => RowAdvances
  BY <1>0, StatusWrites
     DEF RowAdvances, RowType, CreateJob, IsOpen, OpenStatus, FinalStatus
<1>3. DeleteCredential => RowAdvances
  BY <1>0 DEF RowAdvances, RowType, DeleteCredential
<1>4. ClaimSubmission => RowAdvances
  BY <1>0, ClaimWrites DEF RowAdvances, Claimable, FinalStatus
<1>5. ASSUME NEW code \in ErrorCodes, FailJob(code) PROVE RowAdvances
  BY <1>0, <1>5, FailWrites DEF RowAdvances, IsOpen, OpenStatus, FinalStatus
<1>6. ASSUME NEW word \in {"QUEUED", "RUNNING", "CANCELLED"}, RecordObservation(word)
      PROVE  RowAdvances
  <2>1. word \in OpenStatus \union FinalStatus
    BY DEF OpenStatus, FinalStatus
  <2>2. Observable(word) => row.status \in OpenStatus
    BY DEF Observable, HardwarePredecessorsOf, OpenStatus, FinalStatus
  <2> QED
    BY <1>0, <1>6, <2>1, <2>2, ObservationWrites
       DEF RowAdvances, OpenStatus, FinalStatus
<1>7. ASSUME NEW id \in DOMAIN device, id \in 0 .. MaxIds, RecordSubmission(id)
      PROVE  RowAdvances
  BY <1>0, <1>7, RecordWrites DEF RowAdvances, Recordable, FinalStatus
<1>8. ASSUME NEW id \in DOMAIN device, id \in 0 .. MaxIds, CompleteJob(id),
             id = row.providerJobId, device[id] = "readable"
      PROVE  RowAdvances
  BY <1>0, <1>8, CompleteWrites DEF RowAdvances, IsOpen, OpenStatus, FinalStatus
<1> QED
  BY <1>1, <1>2, <1>3, <1>4, <1>5, <1>6, <1>7, <1>8

\* So does every move of the provider's jobs.
LEMMA DeviceMovesOn ==
  ASSUME DeviceTypeOK
  PROVE  /\ UNCHANGED device => DeviceAdvances /\ DeviceTypeOK'
         /\ PostJob => DeviceAdvances /\ DeviceTypeOK' /\ Sent + 1 \in DOMAIN device'
         /\ \A id : CancelAtProvider(id) \/ DeviceMoves(id) \/ ResultsArrive(id) =>
                      DeviceAdvances /\ DeviceTypeOK'
<1> USE DEF DeviceTypeOK, DeviceState, DeviceAdvances
<1>1. UNCHANGED device => DeviceAdvances /\ DeviceTypeOK'
  OBVIOUS
<1>2. PostJob => DeviceAdvances /\ DeviceTypeOK' /\ Sent + 1 \in DOMAIN device'
  BY DEF PostJob, Sent
<1>3. ASSUME NEW id, CancelAtProvider(id) PROVE DeviceAdvances /\ DeviceTypeOK'
  BY <1>3 DEF CancelAtProvider, Live
<1>4. ASSUME NEW id, DeviceMoves(id) PROVE DeviceAdvances /\ DeviceTypeOK'
  BY <1>4 DEF DeviceMoves, Live
<1>5. ASSUME NEW id, ResultsArrive(id) PROVE DeviceAdvances /\ DeviceTypeOK'
  BY <1>5 DEF ResultsArrive
<1> QED
  BY <1>1, <1>2, <1>3, <1>4, <1>5

\* A step that advances, and leaves each execution as it was or in order, keeps
\* the invariant.
LEMMA AdvanceKeeps ==
  ASSUME AnswerInd, TypeOK', Advances,
         \A e \in Executors : exec'[e] = exec[e] \/ (WordOf(e) /\ HandleOf(e))'
  PROVE  AnswerInd'
<1> USE DEF AnswerInd, Advances
<1>1. ASSUME NEW e \in Executors PROVE (WordOf(e) /\ HandleOf(e))'
  <2>1. CASE exec'[e] = exec[e]
    <3>1. WordOf(e)'
      BY <2>1 DEF WordOf, At
    <3>2. HandleOf(e)'
      BY <2>1 DEF HandleOf, At, HandleInd, RowAdvances, DeviceAdvances
    <3> QED
      BY <3>1, <3>2
  <2> QED
    BY <2>1
<1>2. HandleInd'
  BY DEF HandleInd, RowAdvances, DeviceAdvances
<1>3. DoneHasTheAnswer'
  BY DEF DoneHasTheAnswer, RowAdvances, DeviceAdvances, FinalStatus
<1>4. FrameInd'
  <2>1. CASE published' = published
    BY <2>1 DEF FrameInd, RowAdvances
  <2>2. CASE /\ IsOpen
             /\ row'.status \in FinalStatus
             /\ published' = Append(published, row'.status)
    <3>1. published = <<>>
      BY <2>2 DEF FrameInd, IsOpen, OpenStatus, FinalStatus
    <3>2. published' = <<row'.status>>
      BY <2>2, <3>1
    <3> QED
      BY <2>2, <3>2 DEF FrameInd
  <2> QED
    BY <2>1, <2>2 DEF FramesAreOfWrites
<1> QED
  BY <1>1, <1>2, <1>3, <1>4

------------------------------------------------------------------------------
(* The steps of a tick. *)

\* The executions a step leaves are of their type, and each is as it was or has
\* the word and the handle it will use.
ExecKeeps ==
  /\ exec' \in [Executors -> ExecType]
  /\ \A e \in Executors : exec'[e] = exec[e] \/ (WordOf(e) /\ HandleOf(e))'

\* The ways a tick goes on.
LEMMA TickGoesOn ==
  ASSUME AnswerInd, NEW e \in Executors
  PROVE  /\ UNCHANGED exec => ExecKeeps
         /\ \A pc \in {"ack", "nack", "book"} : End(e, pc) => ExecKeeps
         /\ \A code \in ErrorCodes : GotoWith(e, "fail", code) => ExecKeeps
         /\ \A word \in {"QUEUED", "RUNNING", "CANCELLED"} :
              GotoWith(e, "observe", word) => ExecKeeps
         /\ Goto(e, "claim") \/ Goto(e, "send") => ExecKeeps
         /\ UNCHANGED <<row, device>> =>
              /\ At(e, "client") /\ exec[e].id # NoId /\ Goto(e, "ask") => ExecKeeps
              /\ At(e, "ask") /\ Goto(e, "collect") => ExecKeeps
              /\ At(e, "collect") /\ device[exec[e].id] = "readable"
                   /\ Goto(e, "complete") => ExecKeeps
         /\ UNCHANGED device /\ At(e, "record") /\ Goto(e, "undo") => ExecKeeps
<1> USE TicksAssumption DEF ExecKeeps, WordOf, HandleOf, At
<1>0. exec \in [Executors -> ExecType]
  BY DEF AnswerInd, TypeOK, PollTypeOK
<1>1. UNCHANGED exec => ExecKeeps
  BY <1>0
<1>2. ASSUME NEW pc \in {"ack", "nack", "book"}, End(e, pc) PROVE ExecKeeps
  BY <1>0, <1>2, EndMoves DEF PollPc
<1>3. ASSUME NEW code \in ErrorCodes, GotoWith(e, "fail", code) PROVE ExecKeeps
  BY <1>0, <1>3, GotoWithMoves DEF PollPc
<1>4. ASSUME NEW word \in {"QUEUED", "RUNNING", "CANCELLED"},
             GotoWith(e, "observe", word)
      PROVE  ExecKeeps
  BY <1>0, <1>4, GotoWithMoves DEF PollPc, OpenStatus, FinalStatus
<1>5. ASSUME Goto(e, "claim") \/ Goto(e, "send") PROVE ExecKeeps
  BY <1>0, <1>5, GotoMoves DEF PollPc
<1>6. ASSUME UNCHANGED <<row, device>>, At(e, "client"), exec[e].id # NoId,
             Goto(e, "ask")
      PROVE  ExecKeeps
  BY <1>0, <1>6, GotoMoves DEF PollPc, AnswerInd
<1>7. ASSUME UNCHANGED <<row, device>>, At(e, "ask"), Goto(e, "collect")
      PROVE  ExecKeeps
  BY <1>0, <1>7, GotoMoves DEF PollPc, AnswerInd
<1>8. ASSUME UNCHANGED <<row, device>>, At(e, "collect"),
             device[exec[e].id] = "readable", Goto(e, "complete")
      PROVE  ExecKeeps
  BY <1>0, <1>8, GotoMoves DEF PollPc, AnswerInd
<1>9. ASSUME UNCHANGED device, At(e, "record"), Goto(e, "undo") PROVE ExecKeeps
  BY <1>0, <1>9, GotoMoves DEF PollPc, AnswerInd
<1> QED
  BY <1>1, <1>2, <1>3, <1>4, <1>5, <1>6, <1>7, <1>8, <1>9

\* What is asked of a step of a worker.
WorkerKeeps ==
  /\ RowTypeOK' /\ TicksTypeOK' /\ DeviceTypeOK'
  /\ ExecKeeps
  /\ sweep' \in Ticks
  /\ published' \in Seq(FinalStatus)
  /\ Advances

\* It is enough.
LEMMA WorkerKeepsAnswerInd ==
  ASSUME AnswerInd, WorkerKeeps, UNCHANGED routeVars
  PROVE  AnswerInd'
<1>1. RoutesTypeOK'
  BY DEF AnswerInd, TypeOK, RoutesTypeOK, routeVars
<1>2. PollTypeOK'
  BY DEF WorkerKeeps, ExecKeeps, PollTypeOK
<1>3. TypeOK'
  BY <1>1, <1>2 DEF TypeOK, WorkerKeeps
<1> QED
  BY <1>3, AdvanceKeeps DEF WorkerKeeps, ExecKeeps

\* A step that writes the row, and publishes at most how it ended.
LEMMA WritingKeeps ==
  ASSUME AnswerInd, ExecKeeps, RowAdvances, FramesAreOfWrites,
         row' \in RowType, quiet' \in Quiet,
         UNCHANGED <<old, tickVars, device, sweep>>,
         NoFault \/ \E kind \in FaultKinds : Fault(kind)
  PROVE  WorkerKeeps
<1> USE DEF AnswerInd, TypeOK
<1>1. RowTypeOK'
  BY FaultCounts DEF RowTypeOK, NoFault
<1>2. TicksTypeOK'
  BY TickTypes
<1>3. DeviceTypeOK' /\ DeviceAdvances
  BY DeviceMovesOn
<1>4. sweep' \in Ticks
  BY DEF PollTypeOK
<1>5. published' \in Seq(FinalStatus)
  BY DEF FramesAreOfWrites, PollTypeOK
<1> QED
  BY <1>1, <1>2, <1>3, <1>4, <1>5 DEF WorkerKeeps, Advances

\* A step that writes nothing but where its tick goes on.
LEMMA ReadingKeeps ==
  ASSUME AnswerInd, ExecKeeps, UNCHANGED <<rowVars, old, tickVars, device>>, Quietly,
         NoFault \/ \E kind \in FaultKinds : Fault(kind)
  PROVE  WorkerKeeps
<1>1. row' \in RowType /\ quiet' \in Quiet
  BY DEF AnswerInd, TypeOK, RowTypeOK, rowVars
<1>2. RowAdvances /\ FramesAreOfWrites
  BY WritesAdvance DEF rowVars, Quietly, FramesAreOfWrites
<1> QED
  BY <1>1, <1>2, WritingKeeps DEF Quietly

\* A failed provider call leaves a tick that books the next or ends the row.
LEMMA ProviderFailsKeeps ==
  ASSUME AnswerInd, NEW e \in Executors, ProviderFails(e)
  PROVE  ExecKeeps /\ (NoFault \/ \E kind \in FaultKinds : Fault(kind))
<1>1. CASE Fault("network") /\ End(e, "book")
  BY <1>1, TickGoesOn DEF FaultKinds
<1>2. CASE (Fault("refusal") \/ Fault("database") \/ NoFault)
             /\ GotoWith(e, "fail", "PROVIDER_REFUSED")
  BY <1>2, TickGoesOn DEF FaultKinds, ErrorCodes
<1> QED
  BY <1>1, <1>2 DEF ProviderFails

\* The reading of the row.
LEMMA FindKeeps ==
  ASSUME AnswerInd, NEW e \in Executors, Find(e), UNCHANGED old
  PROVE  WorkerKeeps
<1>1. UNCHANGED <<rowVars, tickVars, device>> /\ Quietly
  BY DEF Find, KeepRow
<1>2. NoFault \/ \E kind \in FaultKinds : Fault(kind)
  BY DEF Find, FaultKinds
<1>3. ExecKeeps
  <2>1. ASSUME End(e, "ack") \/ End(e, "nack") PROVE ExecKeeps
    BY <2>1, TickGoesOn
  <2>2. ASSUME NEW code \in {"POLL_ABANDONED", "CREDENTIAL_MISSING"},
               GotoWith(e, "fail", code)
        PROVE  ExecKeeps
    BY <2>2, TickGoesOn DEF ErrorCodes
  <2>3. ASSUME exec' = [exec EXCEPT ![e].at = "client", ![e].id = row.providerJobId,
                                    ![e].count = row.pollCount]
        PROVE  ExecKeeps
    <3>1. exec \in [Executors -> ExecType] /\ row \in RowType
      BY DEF AnswerInd, TypeOK, PollTypeOK, RowTypeOK
    <3>2. exec' = [exec EXCEPT ![e] =
                     [exec[e] EXCEPT !.at = "client", !.id = row.providerJobId,
                                     !.count = row.pollCount]]
      BY <2>3, <3>1
    <3>3. exec' \in [Executors -> ExecType]
      BY <3>1, <3>2, RowFields DEF ExecType, PollPc
    <3>4. exec'[e].at = "client" /\ exec'[e].id = row'.providerJobId
      BY <1>1, <3>1, <3>2 DEF ExecType, rowVars
    <3>5. \A f \in Executors : f # e => exec'[f] = exec[f]
      BY <3>1, <3>2
    <3> QED
      BY <3>3, <3>4, <3>5 DEF ExecKeeps, WordOf, HandleOf, At
  <2> QED
    BY <2>1, <2>2, <2>3 DEF Find
<1> QED
  BY <1>1, <1>2, <1>3, ReadingKeeps

\* The reading of the credential.
LEMMA ClientKeeps ==
  ASSUME AnswerInd, NEW e \in Executors, Client(e), UNCHANGED old
  PROVE  WorkerKeeps
<1>1. UNCHANGED <<rowVars, tickVars, device>> /\ Quietly
  BY DEF Client, KeepRow
<1>2. NoFault \/ \E kind \in FaultKinds : Fault(kind)
  BY DEF Client, FaultKinds
<1>3. ExecKeeps
  <2>1. ASSUME NEW code \in {"CREDENTIAL_MISSING", "SUBMIT_ABANDONED",
                             "PROVIDER_REFUSED"},
               GotoWith(e, "fail", code)
        PROVE  ExecKeeps
    BY <2>1, TickGoesOn DEF ErrorCodes
  <2>2. ASSUME exec[e].id # NoId, Goto(e, "ask") PROVE ExecKeeps
    BY <1>1, <2>2, TickGoesOn DEF Client, rowVars
  <2>3. ASSUME Goto(e, "claim") PROVE ExecKeeps
    BY <2>3, TickGoesOn
  <2> QED
    BY <2>1, <2>2, <2>3 DEF Client
<1> QED
  BY <1>1, <1>2, <1>3, ReadingKeeps

\* The question to the provider.
LEMMA AskKeeps ==
  ASSUME AnswerInd, NEW e \in Executors, Ask(e), UNCHANGED old
  PROVE  WorkerKeeps
<1>1. UNCHANGED <<rowVars, tickVars, device>> /\ Quietly
  BY DEF Ask, KeepRow, KeepDevice
<1>2. CASE ProviderFails(e)
  BY <1>1, <1>2, ProviderFailsKeeps, ReadingKeeps
<1>3. ASSUME NEW answer \in Answers(exec[e].id), NoFault,
             CASE answer = "UNKNOWN" -> End(e, "book")
               [] answer = "DONE"    -> Goto(e, "collect")
               [] answer = "FAILED"  -> GotoWith(e, "fail", "PROVIDER_FAILED")
               [] OTHER              -> GotoWith(e, "observe", answer)
      PROVE  WorkerKeeps
  <2>1. answer \in {"QUEUED", "RUNNING", "CANCELLED", "UNKNOWN", "DONE", "FAILED"}
    BY <1>3 DEF Answers
  <2>2. ExecKeeps
    <3>1. CASE answer = "UNKNOWN"
      BY <1>3, <3>1, TickGoesOn
    <3>2. CASE answer = "DONE"
      BY <1>1, <1>3, <3>2, TickGoesOn DEF Ask, rowVars
    <3>3. CASE answer = "FAILED"
      BY <1>3, <3>3, TickGoesOn DEF ErrorCodes
    <3>4. CASE answer \in {"QUEUED", "RUNNING", "CANCELLED"}
      BY <1>3, <3>4, TickGoesOn
    <3> QED
      BY <2>1, <3>1, <3>2, <3>3, <3>4
  <2> QED
    BY <1>1, <1>3, <2>2, ReadingKeeps
<1> QED
  BY <1>2, <1>3 DEF Ask

\* The reading of the samples.
LEMMA CollectKeeps ==
  ASSUME AnswerInd, NEW e \in Executors, Collect(e), UNCHANGED old
  PROVE  WorkerKeeps
<1>1. UNCHANGED <<rowVars, tickVars, device>> /\ Quietly
  BY DEF Collect, KeepRow, KeepDevice
<1>2. CASE ProviderFails(e)
  BY <1>1, <1>2, ProviderFailsKeeps, ReadingKeeps
<1>3. CASE End(e, "ack") /\ NoFault
  BY <1>1, <1>3, TickGoesOn, ReadingKeeps
<1>4. CASE device[exec[e].id] = "readable" /\ Goto(e, "complete") /\ NoFault
  BY <1>1, <1>4, TickGoesOn, ReadingKeeps DEF Collect, rowVars
<1>5. CASE Fault("refusal") /\ GotoWith(e, "fail", "RESULT_UNREADABLE")
  BY <1>1, <1>5, TickGoesOn, ReadingKeeps DEF FaultKinds, ErrorCodes
<1> QED
  BY <1>2, <1>3, <1>4, <1>5 DEF Collect

\* A write that fails was made, or was not.
LEMMA StorageFailsKeeps ==
  ASSUME AnswerInd, NEW e \in Executors, NEW write, StorageFails(e, write),
         write => RowAdvances /\ row' \in RowType /\ quiet' \in Quiet,
         UNCHANGED <<old, tickVars, device, sweep>>
  PROVE  WorkerKeeps
<1>1. ExecKeeps
  BY TickGoesOn DEF StorageFails
<1>2. CASE write
  BY <1>1, <1>2, WritingKeeps DEF StorageFails, FramesAreOfWrites, FaultKinds
<1>3. CASE KeepRow
  BY <1>1, <1>3, ReadingKeeps DEF StorageFails, FaultKinds, KeepRow, Quietly
<1> QED
  BY <1>2, <1>3 DEF StorageFails

\* The claim.
LEMMA ClaimKeeps ==
  ASSUME AnswerInd, NEW e \in Executors, Claim(e), UNCHANGED old
  PROVE  WorkerKeeps
<1>0. ClaimSubmission => RowAdvances /\ row' \in RowType /\ quiet' \in Quiet
  BY WritesAdvance, ClaimWrites DEF AnswerInd, TypeOK, RowTypeOK
<1>1. CASE /\ ClaimSubmission
           /\ IF Claimable THEN Goto(e, "send") ELSE End(e, "ack")
           /\ NoFault /\ UNCHANGED published
  <2>1. ExecKeeps
    BY <1>1, TickGoesOn
  <2> QED
    BY <1>0, <1>1, <2>1, WritingKeeps DEF Claim, FramesAreOfWrites
<1>2. CASE StorageFails(e, ClaimSubmission)
  BY <1>0, <1>2, StorageFailsKeeps DEF Claim
<1> QED
  BY <1>1, <1>2 DEF Claim

\* The record of the submission.
LEMMA RecordKeeps ==
  ASSUME AnswerInd, NEW e \in Executors, Record(e), UNCHANGED old
  PROVE  WorkerKeeps
<1>0. exec[e].id \in DOMAIN device /\ exec[e].id \in 0 .. MaxIds
  BY DEF AnswerInd, TypeOK, PollTypeOK, ExecType, HandleOf, Record, At
<1>1. RecordSubmission(exec[e].id) =>
        RowAdvances /\ row' \in RowType /\ quiet' \in Quiet
  BY <1>0, WritesAdvance, RecordWrites DEF AnswerInd, TypeOK, RowTypeOK
<1>2. CASE /\ RecordSubmission(exec[e].id)
           /\ IF Recordable THEN End(e, "book") ELSE Goto(e, "undo")
           /\ NoFault /\ UNCHANGED published
  <2>1. ExecKeeps
    BY <1>2, TickGoesOn DEF Record
  <2> QED
    BY <1>1, <1>2, <2>1, WritingKeeps DEF Record, FramesAreOfWrites
<1>3. CASE StorageFails(e, RecordSubmission(exec[e].id))
  BY <1>1, <1>3, StorageFailsKeeps DEF Record
<1> QED
  BY <1>2, <1>3 DEF Record

\* The completion.
LEMMA CompleteKeeps ==
  ASSUME AnswerInd, NEW e \in Executors, Complete(e), UNCHANGED old
  PROVE  WorkerKeeps
<1>0. /\ exec[e].id \in 0 .. MaxIds
      /\ exec[e].id = row.providerJobId /\ exec[e].id \in DOMAIN device
      /\ device[exec[e].id] = "readable"
  BY DEF AnswerInd, TypeOK, PollTypeOK, ExecType, HandleOf, HandleInd, Complete, At
<1>1. CompleteJob(exec[e].id) => RowAdvances /\ row' \in RowType /\ quiet' \in Quiet
  BY <1>0, WritesAdvance, CompleteWrites DEF AnswerInd, TypeOK, RowTypeOK
<1>2. CASE /\ CompleteJob(exec[e].id)
           /\ IF IsOpen THEN Publish("DONE") ELSE UNCHANGED published
           /\ End(e, "ack")
           /\ NoFault
  <2>1. ExecKeeps
    BY <1>2, TickGoesOn
  <2>2. IsOpen => row'.status = "DONE"
    BY <1>0, <1>2, CompleteWrites DEF AnswerInd, TypeOK, RowTypeOK
  <2>3. FramesAreOfWrites
    BY <1>2, <2>2 DEF FramesAreOfWrites, Publish, FinalStatus
  <2> QED
    BY <1>1, <1>2, <2>1, <2>3, WritingKeeps DEF Complete
<1>3. CASE StorageFails(e, CompleteJob(exec[e].id))
  BY <1>1, <1>3, StorageFailsKeeps DEF Complete
<1> QED
  BY <1>2, <1>3 DEF Complete

\* The end of a row with a failure code.
LEMMA FailKeeps ==
  ASSUME AnswerInd, NEW e \in Executors, Fail(e), UNCHANGED old
  PROVE  WorkerKeeps
<1>0. exec[e].word \in ErrorCodes
  BY DEF AnswerInd, WordOf, Fail
<1>1. FailJob(exec[e].word) => RowAdvances /\ row' \in RowType /\ quiet' \in Quiet
  BY <1>0, WritesAdvance, FailWrites DEF AnswerInd, TypeOK, RowTypeOK
<1>2. CASE /\ FailJob(exec[e].word)
           /\ IF IsOpen THEN Publish("FAILED") ELSE UNCHANGED published
           /\ End(e, "ack")
           /\ NoFault
  <2>1. ExecKeeps
    BY <1>2, TickGoesOn
  <2>2. IsOpen => row'.status = "FAILED"
    BY <1>0, <1>2, FailWrites DEF AnswerInd, TypeOK, RowTypeOK
  <2>3. FramesAreOfWrites
    BY <1>2, <2>2 DEF FramesAreOfWrites, Publish, FinalStatus
  <2> QED
    BY <1>1, <1>2, <2>1, <2>3, WritingKeeps DEF Fail
<1>3. CASE StorageFails(e, FailJob(exec[e].word))
  BY <1>1, <1>3, StorageFailsKeeps DEF Fail
<1> QED
  BY <1>2, <1>3 DEF Fail

\* The observation.
LEMMA ObserveKeeps ==
  ASSUME AnswerInd, NEW e \in Executors, Observe(e), UNCHANGED old
  PROVE  WorkerKeeps
<1> DEFINE word == exec[e].word
<1>0. word \in {"QUEUED", "RUNNING", "CANCELLED"}
  BY DEF AnswerInd, WordOf, Observe
<1>1. RecordObservation(word) => RowAdvances /\ row' \in RowType /\ quiet' \in Quiet
  BY <1>0, WritesAdvance, ObservationWrites
     DEF AnswerInd, TypeOK, RowTypeOK, OpenStatus, FinalStatus
<1>2. CASE /\ RecordObservation(word)
           /\ IF word = "CANCELLED"
              THEN /\ End(e, "ack")
                   /\ IF IsOpen THEN Publish(word) ELSE UNCHANGED published
              ELSE /\ End(e, IF Observable(word) THEN "book" ELSE "ack")
                   /\ UNCHANGED published
           /\ NoFault
  <2>1. ExecKeeps
    BY <1>2, TickGoesOn
  <2>2. word = "CANCELLED" /\ IsOpen => row'.status = "CANCELLED"
    <3>1. word = "CANCELLED" /\ IsOpen => Observable(word)
      BY DEF IsOpen, Observable, HardwarePredecessorsOf, FinalStatus
    <3> QED
      BY <1>0, <1>2, <3>1, ObservationWrites
         DEF AnswerInd, TypeOK, RowTypeOK, OpenStatus, FinalStatus
  <2>3. FramesAreOfWrites
    BY <1>2, <2>2 DEF FramesAreOfWrites, Publish, FinalStatus
  <2> QED
    BY <1>1, <1>2, <2>1, <2>3, WritingKeeps DEF Observe
<1>3. CASE StorageFails(e, RecordObservation(word))
  BY <1>1, <1>3, StorageFailsKeeps DEF Observe
<1> QED
  BY <1>2, <1>3 DEF Observe

\* A step that leaves the row alone, whatever it does to the queue or at the
\* provider.
LEMMA RowKept ==
  ASSUME AnswerInd, ExecKeeps, UNCHANGED <<rowVars, old, published>>,
         TicksTypeOK', DeviceTypeOK', DeviceAdvances, sweep' \in Ticks,
         NoFault \/ \E kind \in FaultKinds : Fault(kind)
  PROVE  WorkerKeeps
<1> USE DEF AnswerInd, TypeOK
<1>1. RowTypeOK'
  BY FaultCounts DEF RowTypeOK, NoFault, rowVars
<1>2. published' \in Seq(FinalStatus)
  BY DEF PollTypeOK
<1>3. RowAdvances /\ FramesAreOfWrites
  BY WritesAdvance DEF rowVars, FramesAreOfWrites
<1> QED
  BY <1>1, <1>2, <1>3 DEF WorkerKeeps, Advances

\* The submission.
LEMMA SendKeeps ==
  ASSUME AnswerInd, NEW e \in Executors, Send(e), UNCHANGED old
  PROVE  WorkerKeeps
<1>0. UNCHANGED <<rowVars, tickVars>> /\ Quietly /\ Sent < MaxIds
  BY DEF Send, KeepRow
<1>1. DeviceTypeOK /\ TicksTypeOK /\ PollTypeOK
  BY DEF AnswerInd, TypeOK
<1>2. TicksTypeOK' /\ sweep' \in Ticks /\ published' = published
  BY <1>0, <1>1, TickTypes DEF Quietly, PollTypeOK
<1>3. ASSUME PostJob \/ UNCHANGED device
      PROVE  DeviceTypeOK' /\ DeviceAdvances
  BY <1>1, <1>3, DeviceMovesOn
<1>4. CASE /\ PostJob
           /\ exec' = [exec EXCEPT ![e].at = "record", ![e].id = Sent + 1]
           /\ NoFault
  <2>1. exec \in [Executors -> ExecType]
    BY <1>1 DEF PollTypeOK
  <2>2. Sent + 1 \in 0 .. MaxIds
    BY <1>0, <1>1, SettingsAssumption DEF SettingsAssumption, Sent, DeviceTypeOK
  <2>3. exec' = [exec EXCEPT ![e] = [exec[e] EXCEPT !.at = "record", !.id = Sent + 1]]
    BY <1>4, <2>1
  <2>4. exec' \in [Executors -> ExecType]
    BY <2>1, <2>2, <2>3 DEF ExecType, PollPc
  <2>5. exec'[e].at = "record" /\ exec'[e].id = Sent + 1
    BY <2>1, <2>3 DEF ExecType
  <2>6. Sent + 1 \in DOMAIN device'
    BY <1>1, <1>4, DeviceMovesOn
  <2>7. \A f \in Executors : f # e => exec'[f] = exec[f]
    BY <2>1, <2>3
  <2>8. ExecKeeps
    BY <2>4, <2>5, <2>6, <2>7 DEF ExecKeeps, WordOf, HandleOf, At
  <2> QED
    BY <1>0, <1>2, <1>3, <1>4, <2>8, RowKept
<1>5. CASE PostJob /\ Fault("network") /\ End(e, "book")
  BY <1>0, <1>2, <1>3, <1>5, TickGoesOn, RowKept DEF FaultKinds
<1>6. CASE PostJob /\ Fault("refusal") /\ GotoWith(e, "fail", "RESULT_UNREADABLE")
  BY <1>0, <1>2, <1>3, <1>6, TickGoesOn, RowKept DEF FaultKinds, ErrorCodes
<1>7. CASE ProviderFails(e) /\ KeepDevice
  BY <1>0, <1>2, <1>3, <1>7, ProviderFailsKeeps, RowKept DEF KeepDevice
<1> QED
  BY <1>4, <1>5, <1>6, <1>7 DEF Send

\* The cancel of a job whose row had moved.
LEMMA UndoKeeps ==
  ASSUME AnswerInd, NEW e \in Executors, Undo(e), UNCHANGED old
  PROVE  WorkerKeeps
<1>0. UNCHANGED <<rowVars, tickVars>> /\ Quietly /\ End(e, "ack")
  BY DEF Undo, KeepRow
<1>1. DeviceTypeOK /\ TicksTypeOK /\ PollTypeOK
  BY DEF AnswerInd, TypeOK
<1>2. TicksTypeOK' /\ sweep' \in Ticks /\ published' = published
  BY <1>0, <1>1, TickTypes DEF Quietly, PollTypeOK
<1>3. CancelAtProvider(exec[e].id) \/ UNCHANGED device
  BY DEF Undo, KeepDevice
<1>4. DeviceTypeOK' /\ DeviceAdvances
  BY <1>1, <1>3, DeviceMovesOn
<1>5. NoFault \/ \E kind \in FaultKinds : Fault(kind)
  BY DEF Undo, FaultKinds
<1> QED
  BY <1>0, <1>2, <1>4, <1>5, TickGoesOn, RowKept

\* The start of a tick.
LEMMA DeliverKeeps ==
  ASSUME AnswerInd, NEW e \in Executors, NEW t \in Ticks, Deliver(e, t), UNCHANGED old
  PROVE  WorkerKeeps
<1>0. UNCHANGED <<rowVars, device>> /\ Quietly /\ NoFault /\ MoveToActive(t, e)
  BY DEF Deliver, KeepRow, KeepDevice
<1>1. DeviceTypeOK /\ TicksTypeOK /\ PollTypeOK
  BY DEF AnswerInd, TypeOK
<1>2. TicksTypeOK' /\ sweep' \in Ticks /\ published' = published
  BY <1>0, <1>1, TickTypes DEF Quietly, PollTypeOK
<1>3. DeviceTypeOK' /\ DeviceAdvances
  BY <1>0, <1>1, DeviceMovesOn
<1>4. ExecKeeps
  <2>0. ASSUME NEW pc, NEW x, x = [Idle EXCEPT !.at = pc, !.tick = t]
        PROVE  x = [at |-> pc, tick |-> t, id |-> NoId, count |-> 0, word |-> "NONE"]
    BY <2>0 DEF Idle
  <2> DEFINE pc == IF t <= MaxPollAttempts THEN "find" ELSE "nack"
  <2>1. exec' = [exec EXCEPT ![e] = [at |-> pc, tick |-> t, id |-> NoId,
                                     count |-> 0, word |-> "NONE"]]
    BY <2>0 DEF Deliver
  <2>2. exec \in [Executors -> ExecType]
    BY <1>1 DEF PollTypeOK
  <2>3. [at |-> pc, tick |-> t, id |-> NoId, count |-> 0, word |-> "NONE"] \in ExecType
    BY SettingsAssumption DEF SettingsAssumption, NoId, ExecType, PollPc, ErrorCodes
  <2>4. exec' \in [Executors -> ExecType] /\ exec'[e].at = pc
    BY <2>1, <2>2, <2>3
  <2> QED
    BY <2>1, <2>2, <2>4 DEF ExecKeeps, WordOf, HandleOf, At
<1> QED
  BY <1>0, <1>2, <1>3, <1>4, RowKept

\* The booking of the next tick.
LEMMA BookKeeps ==
  ASSUME AnswerInd, NEW e \in Executors, Book(e), UNCHANGED old
  PROVE  WorkerKeeps
<1>0. UNCHANGED <<rowVars, device>> /\ Quietly
  BY DEF Book, KeepRow, KeepDevice
<1>1. DeviceTypeOK /\ TicksTypeOK /\ PollTypeOK
  BY DEF AnswerInd, TypeOK
<1>2. TicksTypeOK'
  BY <1>1, TickTypes DEF Book
<1>3. sweep' \in Ticks /\ published' = published
  BY <1>0, <1>1 DEF Quietly, PollTypeOK
<1>4. DeviceTypeOK' /\ DeviceAdvances
  BY <1>0, <1>1, DeviceMovesOn
<1>5. ExecKeeps /\ (NoFault \/ \E kind \in FaultKinds : Fault(kind))
  BY TickGoesOn DEF Book, FaultKinds
<1> QED
  BY <1>0, <1>2, <1>3, <1>4, <1>5, RowKept

\* An execution that is over, or whose worker died, is idle.
LEMMA IdleKeeps ==
  ASSUME AnswerInd, NEW e \in Executors, exec' = [exec EXCEPT ![e] = Idle]
  PROVE  ExecKeeps
<1>1. exec \in [Executors -> ExecType]
  BY DEF AnswerInd, TypeOK, PollTypeOK
<1>2. Idle \in ExecType
  BY SettingsAssumption, TicksAssumption
     DEF SettingsAssumption, TicksAssumption, Idle, NoId, ExecType, PollPc, Ticks,
         ErrorCodes
<1>3. exec' \in [Executors -> ExecType] /\ exec'[e].at = "idle"
  BY <1>1, <1>2 DEF Idle
<1> QED
  BY <1>1, <1>3 DEF ExecKeeps, WordOf, HandleOf, At

\* What the queue is told of a tick that is over.
LEMMA SettleKeeps ==
  ASSUME AnswerInd, NEW e \in Executors, Settle(e), UNCHANGED old
  PROVE  WorkerKeeps
<1>0. UNCHANGED <<rowVars, device>> /\ Quietly /\ NoFault
  BY DEF Settle, KeepRow, KeepDevice
<1>1. DeviceTypeOK /\ TicksTypeOK /\ PollTypeOK
  BY DEF AnswerInd, TypeOK
<1>2. TicksTypeOK'
  <2>1. exec[e].tick \in Ticks
    BY <1>1 DEF PollTypeOK, ExecType
  <2>2. PICK gone \in {"absent", "failed"} : Release(exec[e].tick, e, gone)
    BY DEF Settle
  <2> QED
    BY <1>1, <2>1, <2>2, TickTypes
<1>3. sweep' \in Ticks /\ published' = published
  BY <1>0, <1>1 DEF Quietly, PollTypeOK
<1>4. DeviceTypeOK' /\ DeviceAdvances
  BY <1>0, <1>1, DeviceMovesOn
<1>5. ExecKeeps
  BY IdleKeeps DEF Settle
<1> QED
  BY <1>0, <1>2, <1>3, <1>4, <1>5, RowKept

\* The steps around the ticks: a worker that dies, a lock that runs out, the
\* queue's own checks, and the two halves of the resume sweep.
LEMMA AroundKeeps ==
  ASSUME AnswerInd, UNCHANGED old,
         \/ \E e \in Executors : WorkerDies(e)
         \/ \E t \in Ticks : Starves(t) \/ QueueMoves(t)
         \/ SweepRead \/ SweepBook
  PROVE  WorkerKeeps
<1>1. DeviceTypeOK /\ TicksTypeOK /\ PollTypeOK /\ RowTypeOK
  BY DEF AnswerInd, TypeOK
<1>2. UNCHANGED device => DeviceTypeOK' /\ DeviceAdvances
  BY <1>1, DeviceMovesOn
<1>3. ASSUME NEW e \in Executors, WorkerDies(e) PROVE WorkerKeeps
  <2>1. TicksTypeOK'
    BY <1>1, <1>3 DEF WorkerDies, TicksTypeOK
  <2>2. ExecKeeps
    BY <1>3, IdleKeeps DEF WorkerDies
  <2>3. sweep' \in Ticks /\ published' = published
    BY <1>1, <1>3 DEF WorkerDies, Quietly, PollTypeOK
  <2> QED
    BY <1>2, <1>3, <2>1, <2>2, <2>3, RowKept
       DEF WorkerDies, KeepRow, KeepDevice, FaultKinds
<1>4. ASSUME NEW t \in Ticks, Starves(t) \/ QueueMoves(t) PROVE WorkerKeeps
  <2>1. TicksTypeOK'
    BY <1>1, <1>4, TickTypes DEF Starves, QueueMoves
  <2>2. ExecKeeps
    BY <1>4, TickGoesOn DEF Starves, QueueMoves, ExecKeeps, AnswerInd, TypeOK, PollTypeOK
  <2>3. sweep' \in Ticks /\ published' = published
    BY <1>1, <1>4 DEF Starves, QueueMoves, Quietly, PollTypeOK
  <2> QED
    BY <1>2, <1>4, <2>1, <2>2, <2>3, RowKept
       DEF Starves, QueueMoves, KeepRow, KeepDevice, FaultKinds
<1>5. CASE SweepRead
  <2>1. sweep' \in Ticks
    <3>1. row.pollCount \in Nat
      BY <1>1, RowFields DEF RowTypeOK
    <3> QED
      BY <1>5, <3>1, TicksAssumption DEF SweepRead, Ticks, TicksAssumption
  <2>2. ExecKeeps
    BY <1>5 DEF SweepRead, ExecKeeps, AnswerInd, TypeOK, PollTypeOK
  <2> QED
    BY <1>1, <1>2, <1>5, <2>1, <2>2, TickTypes, RowKept
       DEF SweepRead, KeepRow, KeepDevice
<1>6. CASE SweepBook
  <2>1. TicksTypeOK'
    BY <1>1, <1>6, TickTypes DEF SweepBook
  <2>2. sweep' \in Ticks
    BY <1>6, TicksAssumption DEF SweepBook, NoSweep, Ticks, TicksAssumption
  <2>3. ExecKeeps
    BY <1>6 DEF SweepBook, ExecKeeps, AnswerInd, TypeOK, PollTypeOK
  <2> QED
    BY <1>2, <1>6, <2>1, <2>2, <2>3, RowKept DEF SweepBook, KeepRow, KeepDevice, FaultKinds
<1> QED
  BY <1>3, <1>4, <1>5, <1>6

\* Every step of a worker.
LEMMA WorkerActsKeeps ==
  ASSUME AnswerInd, WorkerActs
  PROVE  WorkerKeeps /\ AnswerInd'
<1>0. PollNext /\ UNCHANGED old /\ UNCHANGED routeVars
  BY DEF WorkerActs
<1>1. ASSUME NEW e \in Executors, TickStep(e) PROVE WorkerKeeps
  BY <1>0, <1>1, DeliverKeeps, FindKeeps, ClientKeeps, ClaimKeeps, SendKeeps,
     RecordKeeps, UndoKeeps, AskKeeps, CollectKeeps, CompleteKeeps, ObserveKeeps,
     FailKeeps, BookKeeps, SettleKeeps
     DEF TickStep
<1>2. WorkerKeeps
  BY <1>0, <1>1, AroundKeeps DEF PollNext
<1> QED
  BY <1>0, <1>2, WorkerKeepsAnswerInd

------------------------------------------------------------------------------
(* The steps of the others. *)

\* A step outside the worker leaves the executions and the frames alone.
LEMMA OthersKeep ==
  ASSUME AnswerInd, UNCHANGED <<exec, published, sweep>>,
         RowTypeOK', TicksTypeOK', DeviceTypeOK', RoutesTypeOK',
         RowAdvances, DeviceAdvances
  PROVE  AnswerInd' /\ Advances
<1>1. PollTypeOK'
  BY DEF AnswerInd, TypeOK, PollTypeOK
<1>2. TypeOK'
  BY <1>1 DEF TypeOK
<1>3. Advances
  BY DEF Advances, FramesAreOfWrites
<1> QED
  BY <1>2, <1>3, AdvanceKeeps

\* A failure, or none, is of its type with the row.
LEMMA RowTypeKept ==
  ASSUME RowTypeOK, row' \in RowType, quiet' \in Quiet, UNCHANGED old,
         NoFault \/ \E kind \in FaultKinds : Fault(kind)
  PROVE  RowTypeOK'
BY FaultCounts DEF RowTypeOK, NoFault

\* The POST.
LEMMA PostActsKeep ==
  ASSUME AnswerInd, PostStep \/ PostDies, UNCHANGED <<old, pollVars>>
  PROVE  AnswerInd' /\ Advances
<1>0. RowTypeOK /\ TicksTypeOK /\ DeviceTypeOK /\ RoutesTypeOK
  BY DEF AnswerInd, TypeOK
<1>1. UNCHANGED <<exec, published, sweep, device>>
  BY DEF PostStep, Create, Enqueue, Compensate, PostDies, pollVars
<1>2. TicksTypeOK'
  BY <1>0, TickTypes DEF PostStep, Create, Enqueue, Compensate, PostDies
<1>3. DeviceTypeOK' /\ DeviceAdvances
  BY <1>0, <1>1, DeviceMovesOn
<1>4. RoutesTypeOK'
  BY <1>0 DEF PostStep, Create, Enqueue, Compensate, PostDies, RoutesTypeOK
<1>5. NoFault \/ \E kind \in FaultKinds : Fault(kind)
  BY DEF PostStep, Create, Enqueue, Compensate, PostDies, FaultKinds
<1>6. UNCHANGED rowVars \/ CreateJob \/ FailJob("QUEUE_UNAVAILABLE")
  BY DEF PostStep, Create, Enqueue, Compensate, PostDies
<1>7. RowAdvances /\ row' \in RowType /\ quiet' \in Quiet
  <2>1. "QUEUE_UNAVAILABLE" \in ErrorCodes
    BY DEF ErrorCodes
  <2>2. CASE UNCHANGED rowVars
    BY <1>0, <2>2, WritesAdvance DEF rowVars, RowTypeOK
  <2>3. CASE CreateJob
    BY <1>0, <2>3, WritesAdvance, StatusWrites DEF RowTypeOK, Quiet
  <2>4. CASE FailJob("QUEUE_UNAVAILABLE")
    BY <1>0, <2>1, <2>4, WritesAdvance, FailWrites DEF RowTypeOK
  <2> QED
    BY <1>6, <2>2, <2>3, <2>4
<1>8. RowTypeOK'
  BY <1>0, <1>5, <1>7, RowTypeKept
<1> QED
  BY <1>1, <1>2, <1>3, <1>4, <1>7, <1>8, OthersKeep

\* The DELETE.
LEMMA DeleteActsKeep ==
  ASSUME AnswerInd, DeleteRead \/ DeleteStep \/ DeleteDies, UNCHANGED <<old, pollVars>>
  PROVE  AnswerInd' /\ Advances
<1> USE DEF DeleteStep, KeepPost
<1>0. RowTypeOK /\ TicksTypeOK /\ DeviceTypeOK /\ RoutesTypeOK
  BY DEF AnswerInd, TypeOK
<1>1. UNCHANGED <<exec, published, sweep, quiet, tickVars>>
  BY DEF DeleteRead, DeleteCancels, DeleteTells, DeleteDies, pollVars
<1>2. TicksTypeOK'
  BY <1>0, <1>1, TickTypes
<1>3. UNCHANGED device \/ \E id : CancelAtProvider(id)
  BY DEF DeleteRead, DeleteCancels, DeleteTells, DeleteDies
<1>4. DeviceTypeOK' /\ DeviceAdvances
  BY <1>0, <1>3, DeviceMovesOn
<1>5. row.providerJobId \in 0 .. MaxIds /\ NoId \in 0 .. MaxIds
  BY <1>0, RowFields, SettingsAssumption DEF RowTypeOK, NoId, SettingsAssumption
<1>6. RoutesTypeOK'
  BY <1>0, <1>5
     DEF DeleteRead, DeleteCancels, DeleteTells, DeleteDies, NoDelete, RoutesTypeOK
<1>7. NoFault \/ \E kind \in FaultKinds : Fault(kind)
  BY DEF DeleteRead, DeleteCancels, DeleteTells, DeleteDies, FaultKinds
<1>8. UNCHANGED row \/ CancelJob
  BY DEF DeleteRead, DeleteCancels, DeleteTells, DeleteDies
<1>9. RowAdvances /\ row' \in RowType /\ quiet' \in Quiet
  BY <1>0, <1>1, <1>8, WritesAdvance, StatusWrites DEF RowTypeOK
<1>10. RowTypeOK'
  BY <1>0, <1>7, <1>9, RowTypeKept
<1> QED
  BY <1>1, <1>2, <1>4, <1>6, <1>9, <1>10, OthersKeep

\* The provider, the clock, the reaper and the owner.
LEMMA WorldKeeps ==
  ASSUME AnswerInd,
         \/ ProviderActs
         \/ ClaimWindowPasses \/ BecomesIdle \/ TwoDaysPass
         \/ ReapStaleHardwareJobs \/ OwnerDeletesCredential
  PROVE  AnswerInd' /\ Advances
<1>0. RowTypeOK /\ TicksTypeOK /\ DeviceTypeOK /\ RoutesTypeOK
  BY DEF AnswerInd, TypeOK
<1>1. UNCHANGED <<exec, published, sweep, tickVars, routeVars>>
  BY DEF ProviderActs, ProviderMoves, ClaimWindowPasses, BecomesIdle, TwoDaysPass, Elapse,
         ReapStaleHardwareJobs, OwnerDeletesCredential, pollVars
<1>2. TicksTypeOK' /\ RoutesTypeOK'
  BY <1>0, <1>1, TickTypes DEF RoutesTypeOK, routeVars
<1>3. UNCHANGED device \/ \E id : DeviceMoves(id) \/ ResultsArrive(id)
  BY DEF ProviderActs, ProviderMoves, ClaimWindowPasses, BecomesIdle, TwoDaysPass, Elapse,
         ReapStaleHardwareJobs, OwnerDeletesCredential
<1>4. DeviceTypeOK' /\ DeviceAdvances
  BY <1>0, <1>3, DeviceMovesOn
<1>5. UNCHANGED row \/ FailStaleJobs \/ DeleteCredential
  BY DEF ProviderActs, ProviderMoves, ClaimWindowPasses, BecomesIdle, TwoDaysPass, Elapse,
         ReapStaleHardwareJobs, OwnerDeletesCredential, rowVars
<1>6. RowAdvances
  BY <1>5, WritesAdvance
<1>7. row' \in RowType
  <2>1. DeleteCredential => row' \in RowType
    BY <1>0 DEF DeleteCredential, RowTypeOK, RowType
  <2> QED
    BY <1>0, <1>5, <2>1, StatusWrites DEF RowTypeOK
<1>8. quiet' \in Quiet /\ old' \in BOOLEAN
  BY <1>0 DEF ProviderActs, ProviderMoves, ClaimWindowPasses, BecomesIdle, TwoDaysPass,
         Elapse, ReapStaleHardwareJobs, OwnerDeletesCredential, DeleteCredential,
         FailStaleJobs, rowVars, RowTypeOK, Quiet
<1>9. UNCHANGED outside \/ Fault("owner")
  BY DEF ProviderActs, ProviderMoves, ClaimWindowPasses, BecomesIdle, TwoDaysPass, Elapse,
         ReapStaleHardwareJobs, OwnerDeletesCredential, NoFault
<1>10. RowTypeOK'
  BY <1>0, <1>7, <1>8, <1>9, FaultCounts DEF RowTypeOK
<1> QED
  BY <1>1, <1>2, <1>4, <1>6, <1>10, OthersKeep

\* Every step keeps the invariant and advances.
LEMMA NextKeeps ==
  ASSUME AnswerInd, [Next]_vars
  PROVE  AnswerInd' /\ Advances
<1>1. CASE RouteActs
  BY <1>1, PostActsKeep, DeleteActsKeep DEF RouteActs, RoutesNext
<1>2. CASE WorkerActs
  BY <1>2, WorkerActsKeeps DEF WorkerKeeps
<1>3. CASE \/ ProviderActs
           \/ ClaimWindowPasses \/ BecomesIdle \/ TwoDaysPass
           \/ ReapStaleHardwareJobs \/ OwnerDeletesCredential
  BY <1>3, WorldKeeps
<1>4. CASE UNCHANGED vars
  <2>1. UNCHANGED <<exec, published, sweep, row, quiet, old, outside, tickVars, device,
                    routeVars>>
    BY <1>4 DEF vars, rowVars, pollVars
  <2>2. RowTypeOK' /\ TicksTypeOK' /\ DeviceTypeOK' /\ RoutesTypeOK'
    BY <2>1, TickTypes, DeviceMovesOn DEF AnswerInd, TypeOK, RowTypeOK, RoutesTypeOK, routeVars
  <2>3. RowAdvances /\ DeviceAdvances
    BY <2>1, WritesAdvance, DeviceMovesOn DEF AnswerInd, TypeOK
  <2> QED
    BY <2>1, <2>2, <2>3, OthersKeep
<1> QED
  BY <1>1, <1>2, <1>3, <1>4 DEF Next

\* Nothing has happened in the first state.
LEMMA InitAnswerInd == Init => AnswerInd
<1> SUFFICES ASSUME Init PROVE AnswerInd
  OBVIOUS
<1>1. TypeOK
  BY InitType
<1>2. \A e \in Executors : WordOf(e) /\ HandleOf(e)
  BY DEF Init, PollInit, Idle, WordOf, HandleOf, At
<1>3. HandleInd /\ DoneHasTheAnswer /\ FrameInd
  BY DEF Init, RowInit, PollInit, HandleInd, DoneHasTheAnswer, FrameInd
<1> QED
  BY <1>1, <1>2, <1>3 DEF AnswerInd

\* The invariant holds throughout.
LEMMA AnswerInvariant == Spec => []AnswerInd
<1>1. AnswerInd /\ [Next]_vars => AnswerInd'
  BY NextKeeps
<1> QED
  BY <1>1, InitAnswerInd, PTL DEF Spec

------------------------------------------------------------------------------
(* What holds whatever the timing. *)

\* Every variable holds a value of its kind, for any number of executions,
\* ticks, submissions and failures.
THEOREM HardwareTypes == Spec => []TypeOK
<1>1. AnswerInd => TypeOK
  BY DEF AnswerInd
<1> QED
  BY <1>1, AnswerInvariant, PTL

\* A row that ended keeps its status, its answer and its failure code, and an
\* id that was written stays, whatever races it.
THEOREM RowsOnlyAdvance == Spec => RowOnlyAdvances
<1>1. AnswerInd /\ [Next]_vars =>
        [/\ row.status \in FinalStatus =>
              /\ row'.status = row.status
              /\ row'.result = row.result
              /\ row'.errorMessage = row.errorMessage
         /\ row.providerJobId # NoId => row'.providerJobId = row.providerJobId]_vars
  BY NextKeeps DEF Advances, RowAdvances, AnswerInd, HandleInd
<1> QED
  BY <1>1, AnswerInvariant, PTL DEF Spec, RowOnlyAdvances

\* A DONE row holds the samples of the provider job it names.
THEOREM AnswersAreTheJobs == Spec => []DoneHasTheAnswer
<1>1. AnswerInd => DoneHasTheAnswer
  BY DEF AnswerInd
<1> QED
  BY <1>1, AnswerInvariant, PTL

\* One frame at most, with the status the row ended with.
THEOREM FinalFramesAreTrue == Spec => []FinalFrameIsTrue
<1>1. AnswerInd => FinalFrameIsTrue
  BY DEF AnswerInd, FrameInd, FinalFrameIsTrue
<1> QED
  BY <1>1, AnswerInvariant, PTL

------------------------------------------------------------------------------
(* Where calls are timely: what the claim excludes. *)

\* What every write keeps of what the claim looks at.
RowSteps ==
  /\ row.polled => row'.polled
  /\ row'.status = "ABSENT" => row.status = "ABSENT"
  /\ row'.status = "SUBMITTED" => row.status \in {"ABSENT", "SUBMITTED"}
  /\ \/ row'.pollCount = row.pollCount
     \/ /\ row'.pollCount = row.pollCount + 1
        /\ row'.status # "SUBMITTED" \/ (row'.polled /\ quiet' = "fresh")
  /\ quiet' \in {quiet, "fresh"}

\* The two keys of a row that a write which is not about them leaves alone.
KeysKept == UNCHANGED <<row.credential, row.providerJobId>>

\* Every write of the code does.
LEMMA WritesStep ==
  ASSUME row \in RowType, quiet \in Quiet
  PROVE  /\ UNCHANGED rowVars \/ CreateJob => RowSteps /\ KeysKept
         /\ CancelJob => RowSteps /\ KeysKept
         /\ FailStaleJobs => RowSteps /\ KeysKept
         /\ DeleteCredential => RowSteps
         /\ ClaimSubmission => RowSteps /\ KeysKept
         /\ \A code \in ErrorCodes :
              FailJob(code) => RowSteps /\ KeysKept
         /\ \A word \in {"QUEUED", "RUNNING", "CANCELLED"} :
              RecordObservation(word) => RowSteps /\ KeysKept
         /\ \A id \in 0 .. MaxIds :
              /\ CompleteJob(id) => RowSteps /\ KeysKept
              /\ RecordSubmission(id) => RowSteps /\ UNCHANGED row.credential
<1> USE DEF RowSteps, KeysKept
<1>1. UNCHANGED rowVars => RowSteps /\ KeysKept
  BY DEF rowVars
<1>2. CreateJob => RowSteps /\ KeysKept
  BY StatusWrites DEF CreateJob, RowType
<1>3. CancelJob => RowSteps /\ KeysKept
  BY StatusWrites DEF IsOpen, OpenStatus, RowType
<1>4. FailStaleJobs => RowSteps /\ KeysKept
  BY StatusWrites DEF IsOpen, OpenStatus, RowType
<1>5. DeleteCredential => RowSteps
  BY DEF DeleteCredential, RowType
<1>6. ClaimSubmission => RowSteps /\ KeysKept
  BY ClaimWrites DEF Claimable
<1>7. ASSUME NEW code \in ErrorCodes, FailJob(code)
      PROVE  RowSteps /\ KeysKept
  BY <1>7, FailWrites
<1>8. ASSUME NEW word \in {"QUEUED", "RUNNING", "CANCELLED"}, RecordObservation(word)
      PROVE  RowSteps /\ KeysKept
  <2>1. word \in OpenStatus \union FinalStatus
    BY DEF OpenStatus, FinalStatus
  <2> QED
    BY <1>8, <2>1, ObservationWrites
<1>9. ASSUME NEW id \in 0 .. MaxIds, RecordSubmission(id)
      PROVE  RowSteps /\ UNCHANGED row.credential
  BY <1>9, RecordWrites DEF Recordable
<1>10. ASSUME NEW id \in 0 .. MaxIds, CompleteJob(id)
       PROVE  RowSteps /\ KeysKept
  BY <1>10, CompleteWrites
<1> QED
  BY <1>1, <1>2, <1>3, <1>4, <1>5, <1>6, <1>7, <1>8, <1>9, <1>10

\* So does every step of a tick, which leaves the credential alone, and
\* the id too unless it is what it came to write.
LEMMA TickRowSteps ==
  ASSUME AnswerInd, NEW e \in Executors, TickStep(e)
  PROVE  RowSteps /\ UNCHANGED row.credential /\ (At(e, "record") \/ KeysKept)
<1> USE DEF KeysKept
<1>0. row \in RowType /\ quiet \in Quiet /\ exec[e] \in ExecType /\ WordOf(e)
  BY DEF AnswerInd, TypeOK, RowTypeOK, PollTypeOK
<1>1. exec[e].id \in 0 .. MaxIds
  BY <1>0 DEF ExecType
<1>2. CASE Claim(e)
  BY <1>0, <1>2, WritesStep DEF Claim, StorageFails, KeepRow
<1>3. CASE Record(e)
  BY <1>0, <1>1, <1>3, WritesStep DEF Record, StorageFails, KeepRow
<1>4. CASE Complete(e)
  BY <1>0, <1>1, <1>4, WritesStep DEF Complete, StorageFails, KeepRow
<1>5. CASE Observe(e)
  BY <1>0, <1>5, WritesStep DEF Observe, StorageFails, KeepRow, WordOf
<1>6. CASE Fail(e)
  BY <1>0, <1>6, WritesStep DEF Fail, StorageFails, KeepRow, WordOf
<1>7. CASE \/ \E t \in Ticks : Deliver(e, t)
           \/ Find(e) \/ Client(e) \/ Send(e) \/ Undo(e) \/ Ask(e) \/ Collect(e)
           \/ Book(e) \/ Settle(e)
  <2>1. UNCHANGED rowVars
    BY <1>7 DEF Deliver, Find, Client, Send, Undo, Ask, Collect, Book, Settle, KeepRow
  <2> QED
    BY <1>0, <2>1, WritesStep
<1> QED
  BY <1>2, <1>3, <1>4, <1>5, <1>6, <1>7 DEF TickStep

\* A step of e moves no other execution.
LEMMA TickMovesAlone ==
  ASSUME AnswerInd, NEW e \in Executors, TickStep(e) \/ WorkerDies(e),
         NEW f \in Executors, f # e
  PROVE  exec'[f] = exec[f]
<1>0. exec \in [Executors -> ExecType]
  BY DEF AnswerInd, TypeOK, PollTypeOK
<1>1. ASSUME \E pc, word : GotoWith(e, pc, word) \/ Goto(e, pc) \/ End(e, pc)
      PROVE  exec'[f] = exec[f]
  BY <1>0, <1>1 DEF GotoWith, Goto, End
<1>2. CASE \/ \E t \in Ticks : Deliver(e, t)
           \/ Settle(e) \/ WorkerDies(e)
  BY <1>0, <1>2 DEF Deliver, Settle, WorkerDies
<1>3. CASE Find(e)
  BY <1>0, <1>1, <1>3 DEF Find
<1>4. CASE Client(e)
  BY <1>1, <1>4 DEF Client
<1>5. CASE Claim(e) \/ Record(e) \/ Complete(e) \/ Observe(e) \/ Fail(e)
  BY <1>1, <1>5 DEF Claim, Record, Complete, Observe, Fail, StorageFails
<1>6. CASE Send(e)
  BY <1>0, <1>1, <1>6 DEF Send, ProviderFails
<1>7. CASE Undo(e) \/ Book(e) \/ Collect(e)
  BY <1>1, <1>7 DEF Undo, Book, Collect, ProviderFails
<1>8. CASE Ask(e)
  BY <1>1, <1>8 DEF Ask, ProviderFails
<1> QED
  BY <1>2, <1>3, <1>4, <1>5, <1>6, <1>7, <1>8 DEF TickStep

\* The steps of a tick that is not on the way to a submission, and does not set
\* out for one: they touch neither its path nor the provider's jobs.
LEMMA FarFromSubmission ==
  ASSUME AnswerInd, NEW e \in Executors,
         \/ \E t \in Ticks : Deliver(e, t)
         \/ Ask(e) \/ Collect(e) \/ Complete(e) \/ Observe(e) \/ Fail(e) \/ Book(e)
         \/ Settle(e)
  PROVE  /\ exec[e].at \notin SubmitPc
         /\ exec'[e].at \notin SubmitPc
         /\ UNCHANGED device
         /\ NoFault \/ \E kind \in FaultKinds : Fault(kind)
<1> USE DEF SubmitPc, At
<1>0. exec \in [Executors -> ExecType]
  BY DEF AnswerInd, TypeOK, PollTypeOK
<1>1. exec[e].at \notin SubmitPc
  BY DEF Deliver, Ask, Collect, Complete, Observe, Fail, Book, Settle
<1>2. UNCHANGED device
  BY DEF Deliver, Ask, Collect, Complete, Observe, Fail, Book, Settle, KeepDevice
<1>3. NoFault \/ \E kind \in FaultKinds : Fault(kind)
  BY DEF Deliver, Ask, Collect, Complete, Observe, Fail, Book, Settle, ProviderFails,
         StorageFails, FaultKinds
<1>4. ASSUME NEW pc \in {"ack", "nack", "book"}, End(e, pc)
      PROVE  exec'[e].at \notin SubmitPc
  BY <1>0, <1>4, EndMoves, TicksAssumption DEF PollPc
<1>5. ASSUME NEW pc \in {"fail", "observe"},
             NEW word \in OpenStatus \union FinalStatus \union ErrorCodes,
             GotoWith(e, pc, word)
      PROVE  exec'[e].at \notin SubmitPc
  BY <1>0, <1>5, GotoWithMoves, TicksAssumption DEF PollPc
<1>6. ASSUME NEW pc \in {"collect", "complete"}, Goto(e, pc)
      PROVE  exec'[e].at \notin SubmitPc
  BY <1>0, <1>6, GotoMoves DEF PollPc
<1>7. exec'[e].at \notin SubmitPc
  <2>1. CASE \E t \in Ticks : Deliver(e, t)
    BY <1>0, <2>1 DEF Deliver, Idle
  <2>2. CASE Settle(e)
    BY <1>0, <2>2 DEF Settle, Idle
  <2>3. CASE Complete(e) \/ Fail(e) \/ Book(e)
    BY <1>4, <2>3 DEF Complete, Fail, Book, StorageFails
  <2>4. CASE Observe(e)
    BY <1>4, <2>4 DEF Observe, StorageFails
  <2>5. ProviderFails(e) => exec'[e].at \notin SubmitPc
    BY <1>4, <1>5 DEF ProviderFails, ErrorCodes
  <2>6. CASE Collect(e)
    BY <1>4, <1>5, <1>6, <2>5, <2>6 DEF Collect, ErrorCodes
  <2>7. CASE Ask(e)
    <3>1. ASSUME NEW answer \in Answers(exec[e].id),
                 CASE answer = "UNKNOWN" -> End(e, "book")
                   [] answer = "DONE"    -> Goto(e, "collect")
                   [] answer = "FAILED"  -> GotoWith(e, "fail", "PROVIDER_FAILED")
                   [] OTHER              -> GotoWith(e, "observe", answer)
          PROVE  exec'[e].at \notin SubmitPc
      <4>1. answer \in {"QUEUED", "RUNNING", "CANCELLED", "UNKNOWN", "DONE", "FAILED"}
        BY DEF Answers
      <4>2. "PROVIDER_FAILED" \in ErrorCodes /\ {"QUEUED", "RUNNING", "CANCELLED"}
              \subseteq OpenStatus \union FinalStatus
        BY DEF ErrorCodes, OpenStatus, FinalStatus
      <4> HIDE DEF SubmitPc
      <4> QED
        BY <1>4, <1>5, <1>6, <3>1, <4>1, <4>2
    <3> QED
      BY <2>5, <2>7, <3>1 DEF Ask
  <2> QED
    BY <2>1, <2>2, <2>3, <2>4, <2>6, <2>7
<1> QED
  BY <1>1, <1>2, <1>3, <1>7

\* A step on which nothing sets out for a submission or gets on with one keeps
\* the claim exclusive. The clock may age it only when no tick is under way, and
\* only the one that recorded its submission can have written the id.
LEMMA ClaimKept ==
  ASSUME AnswerInd, Advances, ClaimInd,
         \A f \in Executors : exec'[f] = exec[f] \/ exec'[f].at \notin SubmitPc,
         \/ RowSteps
         \/ Calm /\ UNCHANGED <<row, exec>>,
         row'.providerJobId = row.providerJobId \/ \E e \in Executors : At(e, "record")
  PROVE  ClaimInd'
<1> USE DEF SubmitPc, At
<1>1. Busy' \subseteq Busy
  BY DEF Busy
<1>2. \A e, f \in Busy' : e = f
  BY <1>1 DEF ClaimInd
<1>3. Busy' # {} => row'.polled /\ quiet' = "fresh"
  <2>1. CASE RowSteps
    BY <1>1, <2>1 DEF ClaimInd, RowSteps
  <2>2. CASE Calm /\ UNCHANGED <<row, exec>>
    BY <1>1, <2>2 DEF Calm, Busy
  <2> QED
    BY <2>1, <2>2
<1>4. ASSUME NEW f \in Executors
      PROVE  /\ exec'[f].at \in SubmitPc => row'.status # "ABSENT"
             /\ exec'[f].at = "send" => row'.providerJobId = NoId
             /\ exec'[f].at = "undo" => row'.status # "SUBMITTED"
  <2>1. exec'[f].at \in SubmitPc => exec'[f] = exec[f]
    OBVIOUS
  <2>2. exec'[f].at \in SubmitPc => row'.status # "ABSENT"
    BY <2>1 DEF ClaimInd, RowSteps
  <2>3. exec'[f].at = "send" => row'.providerJobId = NoId
    <3>1. SUFFICES ASSUME exec'[f].at = "send" PROVE row'.providerJobId = NoId
      OBVIOUS
    <3>2. exec[f].at = "send" /\ f \in Busy /\ row.providerJobId = NoId
      BY <2>1, <3>1 DEF Busy, ClaimInd
    <3>3. ~\E e \in Executors : At(e, "record")
      BY <3>2 DEF Busy, ClaimInd
    <3> QED
      BY <3>2, <3>3
  <2>4. exec'[f].at = "undo" => row'.status # "SUBMITTED"
    BY <2>1 DEF ClaimInd, RowSteps
  <2> QED
    BY <2>2, <2>3, <2>4
<1> QED
  BY <1>2, <1>3, <1>4 DEF ClaimInd

\* Nor does it disturb the counts, unless something is sent.
LEMMA CountKept ==
  ASSUME AnswerInd, Advances, ClaimInd, CountInd, Sent' = Sent,
         \A f \in Executors : exec'[f] = exec[f] \/ exec'[f].at \notin SubmitPc,
         \/ RowSteps
         \/ Calm /\ UNCHANGED <<row, exec>>
  PROVE  CountInd'
<1> USE DEF SubmitPc, At
<1>0. row.pollCount \in Nat /\ Sent \in Nat /\ row \in RowType /\ quiet \in Quiet
  BY DEF AnswerInd, TypeOK, RowTypeOK, RowType, DeviceTypeOK, Sent
<1>1. row'.pollCount \in {row.pollCount, row.pollCount + 1}
  BY <1>0 DEF RowSteps
<1>2. Sent' <= row'.pollCount /\ Sent' <= MaxSubmitAttempts
  BY <1>0, <1>1 DEF CountInd
<1>3. ASSUME NEW f \in Executors, exec'[f].at \in SubmitPc, Claimable'
      PROVE  Claimable /\ row'.pollCount = row.pollCount /\ exec'[f] = exec[f]
  <2>1. exec'[f] = exec[f] /\ ~Calm /\ row.status # "ABSENT"
    BY <1>3 DEF Calm, ClaimInd
  <2>2. RowSteps
    BY <2>1
  <2>3. row.status = "SUBMITTED" /\ row.providerJobId = NoId
    BY <1>3, <2>1, <2>2 DEF Claimable, RowSteps, AnswerInd, HandleInd
  <2>4. (~row.polled \/ quiet # "fresh") /\ row'.pollCount = row.pollCount
    BY <1>3, <2>2 DEF Claimable, RowSteps
  <2> QED
    BY <2>1, <2>3, <2>4 DEF Claimable
<1>4. ASSUME NEW f \in Executors
      PROVE  /\ exec'[f].at = "send" =>
                  Sent' < row'.pollCount /\ Sent' < MaxSubmitAttempts
             /\ exec'[f].at = "client" /\ exec'[f].id = NoId /\ Claimable' =>
                  exec'[f].count = row'.pollCount
             /\ exec'[f].at = "claim" /\ Claimable' => row'.pollCount < MaxSubmitAttempts
  <2>1. exec'[f].at = "send" => Sent' < row'.pollCount /\ Sent' < MaxSubmitAttempts
    BY <1>0, <1>1 DEF CountInd
  <2>2. exec'[f].at = "client" /\ exec'[f].id = NoId /\ Claimable' =>
          exec'[f].count = row'.pollCount
    BY <1>3 DEF CountInd
  <2>3. exec'[f].at = "claim" /\ Claimable' => row'.pollCount < MaxSubmitAttempts
    BY <1>3 DEF CountInd
  <2> QED
    BY <2>1, <2>2, <2>3
<1> QED
  BY <1>2, <1>4 DEF CountInd

\* The jobs that were sent are finitely many.
LEMMA SentAreFinite ==
  ASSUME NEW d \in Seq(DeviceState), NEW S \in SUBSET DOMAIN d
  PROVE  IsFiniteSet(S) /\ Cardinality(S) \in Nat
<1>1. DOMAIN d = 1 .. Len(d) /\ Len(d) \in Nat
  OBVIOUS
<1>2. IsFiniteSet(DOMAIN d)
  BY <1>1, FS_Interval
<1>3. IsFiniteSet(S)
  BY <1>2, FS_Subset
<1> QED
  BY <1>3, FS_CardinalityType

\* So are the orphans among them.
LEMMA OrphansAreFinite ==
  ASSUME DeviceTypeOK, DeviceTypeOK'
  PROVE  /\ IsFiniteSet(Orphans) /\ Cardinality(Orphans) \in Nat
         /\ IsFiniteSet(Orphans') /\ Cardinality(Orphans') \in Nat
<1>1. Orphans \in SUBSET DOMAIN device /\ Orphans' \in SUBSET DOMAIN device'
  BY DEF Orphans
<1> QED
  BY <1>1, SentAreFinite DEF DeviceTypeOK

\* One step that makes at most one orphan makes their number at most one greater.
LEMMA OneMoreOrphan ==
  ASSUME DeviceTypeOK, DeviceTypeOK', NEW x, Orphans' \subseteq Orphans \union {x}
  PROVE  Cardinality(Orphans)' <= Cardinality(Orphans) + 1
<1>1. IsFiniteSet(Orphans) /\ Cardinality(Orphans) \in Nat
  BY OrphansAreFinite
<1>2. IsFiniteSet(Orphans \union {x})
  BY <1>1, FS_AddElement
<1>3. Cardinality(Orphans \union {x}) <= Cardinality(Orphans) + 1
  BY <1>1, FS_AddElement
<1>4. Cardinality(Orphans') <= Cardinality(Orphans \union {x})
  BY <1>2, FS_Subset
<1>5. Cardinality(Orphans') \in Nat
  BY OrphansAreFinite
<1>6. Cardinality(Orphans \union {x}) \in Nat
  BY <1>2, FS_CardinalityType
<1> QED
  BY <1>1, <1>3, <1>4, <1>5, <1>6

\* And one that makes none does not make them more.
LEMMA NoMoreOrphans ==
  ASSUME DeviceTypeOK, DeviceTypeOK', Orphans' \subseteq Orphans
  PROVE  Cardinality(Orphans)' <= Cardinality(Orphans)
<1>1. IsFiniteSet(Orphans)
  BY OrphansAreFinite
<1> QED
  BY <1>1, FS_Subset

\* A step that makes no orphan and no debt keeps the bound; so does one that
\* makes one orphan, if it is a failure or pays the debt with it.
LEMMA OrphanSteps ==
  ASSUME AnswerInd, TypeOK', OrphanInd, row'.status = "ABSENT" => row'.credential,
         outside'.happened \in {outside.happened, outside.happened + 1},
         \/ Orphans' \subseteq Orphans /\ Debt' <= Debt
         \/ /\ outside'.happened = outside.happened + 1
            /\ Orphans' \subseteq Orphans
         \/ /\ outside'.happened = outside.happened + 1 /\ Debt' <= Debt
            /\ \E x : Orphans' \subseteq Orphans \union {x}
         \/ /\ Debt = 1 /\ Debt' = 0
            /\ \E x : Orphans' \subseteq Orphans \union {x}
  PROVE  OrphanInd'
<1>0. DeviceTypeOK /\ DeviceTypeOK' /\ outside.happened \in Nat
  BY DEF AnswerInd, TypeOK, RowTypeOK
<1>1. Debt \in {0, 1} /\ Debt' \in {0, 1}
  BY DEF Debt
<1>2. Cardinality(Orphans) \in Nat /\ Cardinality(Orphans)' \in Nat
  BY <1>0, OrphansAreFinite
<1>3. Orphans' \subseteq Orphans => Cardinality(Orphans)' <= Cardinality(Orphans)
  BY <1>0, NoMoreOrphans
<1>4. (\E x : Orphans' \subseteq Orphans \union {x}) =>
        Cardinality(Orphans)' <= Cardinality(Orphans) + 1
  BY <1>0, OneMoreOrphan
<1>5. Cardinality(Orphans)' + Debt' <= outside'.happened
  BY <1>0, <1>1, <1>2, <1>3, <1>4 DEF OrphanInd
<1> QED
  BY <1>5 DEF OrphanInd

\* Whoever still has a job keeps it, and no job comes to life: no orphan.
LEMMA NoOrphanMade ==
  ASSUME AnswerInd, Advances,
         \A id \in DOMAIN device' : Live(id)' => Live(id),
         \A f \in Executors : exec[f].at \in {"record", "undo"} =>
           exec'[f].at \in {"record", "undo"} /\ exec'[f].id = exec[f].id
  PROVE  Orphans' \subseteq Orphans
<1> SUFFICES ASSUME NEW id \in Orphans' PROVE id \in Orphans
  OBVIOUS
<1>1. /\ id \in DOMAIN device' /\ Live(id)' /\ id # row'.providerJobId
      /\ \A f \in Executors : ~(exec'[f].id = id /\ exec'[f].at \in {"record", "undo"})
  BY DEF Orphans
<1>2. Live(id) /\ id \in DOMAIN device
  BY <1>1 DEF Live
<1>3. id # row.providerJobId
  <2>1. id # NoId
    BY <1>2 DEF AnswerInd, TypeOK, DeviceTypeOK, NoId
  <2>2. row'.providerJobId # row.providerJobId => row.providerJobId = NoId
    BY DEF Advances, RowAdvances, AnswerInd, HandleInd
  <2> QED
    BY <1>1, <2>1, <2>2
<1>4. \A f \in Executors : ~(exec[f].id = id /\ exec[f].at \in {"record", "undo"})
  BY <1>1
<1> QED
  BY <1>2, <1>3, <1>4 DEF Orphans

\* A step is a failure, or there is none; the setting stays.
LEMMA SettingStays ==
  ASSUME RowTypeOK, NoFault \/ \E kind \in FaultKinds : Fault(kind)
  PROVE  /\ outside'.happened \in {outside.happened, outside.happened + 1}
         /\ outside'.timely = outside.timely
         /\ NoFault \/ outside'.happened = outside.happened + 1
BY FaultCounts DEF NoFault, RowTypeOK

\* A step away from every submission keeps the whole invariant.
LEMMA FarKeeps ==
  ASSUME TimelyInd, AnswerInd', Advances,
         \A f \in Executors :
           exec'[f] = exec[f] \/ (exec[f].at \notin SubmitPc /\ exec'[f].at \notin SubmitPc),
         \/ RowSteps
         \/ Calm /\ UNCHANGED <<row, exec>>,
         KeysKept,
         Sent' = Sent, \A id \in DOMAIN device' : Live(id)' => Live(id),
         outside'.happened \in {outside.happened, outside.happened + 1},
         outside'.timely = outside.timely
  PROVE  TimelyInd'
<1> USE DEF KeysKept
<1>0. AnswerInd /\ ClaimInd /\ CountInd /\ OrphanInd /\ Timely("calls")
  BY DEF TimelyInd
<1>1. Timely("calls")'
  BY <1>0 DEF Timely
<1>2. ClaimInd'
  BY <1>0, ClaimKept
<1>3. CountInd'
  BY <1>0, CountKept
<1>4. OrphanInd'
  <2>1. Orphans' \subseteq Orphans
    BY <1>0, NoOrphanMade DEF SubmitPc
  <2>2. row'.status = "ABSENT" => row'.credential
    BY <1>0 DEF RowSteps, OrphanInd
  <2>3. Busy' \subseteq Busy
    BY DEF Busy, SubmitPc
  <2>4. Debt' <= Debt
    BY <1>0, <2>3 DEF Debt, RowSteps, OrphanInd
  <2>5. TypeOK'
    BY DEF AnswerInd
  <2> QED
    BY <1>0, <2>1, <2>2, <2>4, <2>5, OrphanSteps
<1> QED
  BY <1>1, <1>2, <1>3, <1>4 DEF TimelyInd

\* No job comes to life at the provider but by being sent.
LEMMA NoneComesToLife ==
  ASSUME DeviceTypeOK,
         \/ UNCHANGED device
         \/ \E id : CancelAtProvider(id) \/ DeviceMoves(id) \/ ResultsArrive(id)
  PROVE  Sent' = Sent /\ \A id \in DOMAIN device' : Live(id)' => Live(id)
<1> USE DEF DeviceTypeOK, DeviceState, Live, Sent
<1>1. CASE UNCHANGED device
  BY <1>1
<1>2. ASSUME NEW id, CancelAtProvider(id)
      PROVE  Sent' = Sent /\ \A j \in DOMAIN device' : Live(j)' => Live(j)
  BY <1>2 DEF CancelAtProvider
<1>3. ASSUME NEW id, DeviceMoves(id)
      PROVE  Sent' = Sent /\ \A j \in DOMAIN device' : Live(j)' => Live(j)
  BY <1>3 DEF DeviceMoves
<1>4. ASSUME NEW id, ResultsArrive(id)
      PROVE  Sent' = Sent /\ \A j \in DOMAIN device' : Live(j)' => Live(j)
  BY <1>4 DEF ResultsArrive
<1> QED
  BY <1>1, <1>2, <1>3, <1>4

\* The steps of the others, and of the ticks far from a submission.
LEMMA OthersAreFar ==
  ASSUME TimelyInd, AnswerInd', Advances,
         UNCHANGED exec,
         RowSteps /\ KeysKept,
         \/ UNCHANGED device
         \/ \E id : CancelAtProvider(id) \/ DeviceMoves(id) \/ ResultsArrive(id),
         NoFault \/ \E kind \in FaultKinds : Fault(kind)
  PROVE  TimelyInd'
<1>1. DeviceTypeOK /\ RowTypeOK
  BY DEF TimelyInd, AnswerInd, TypeOK
<1> QED
  BY <1>1, NoneComesToLife, SettingStays, FarKeeps

\* The requests.
LEMMA RouteActsTimely ==
  ASSUME TimelyInd, AnswerInd', Advances, RouteActs
  PROVE  TimelyInd'
<1>0. row \in RowType /\ quiet \in Quiet
  BY DEF TimelyInd, AnswerInd, TypeOK, RowTypeOK
<1>1. UNCHANGED exec
  BY DEF RouteActs, pollVars
<1>2. CASE PostStep \/ PostDies
  <2>1. UNCHANGED rowVars \/ CreateJob \/ FailJob("QUEUE_UNAVAILABLE")
    BY <1>2 DEF PostStep, Create, Enqueue, Compensate, PostDies
  <2>2. "QUEUE_UNAVAILABLE" \in ErrorCodes
    BY DEF ErrorCodes
  <2>3. RowSteps /\ KeysKept
    BY <1>0, <2>1, <2>2, WritesStep
  <2>4. UNCHANGED device /\ (NoFault \/ \E kind \in FaultKinds : Fault(kind))
    BY <1>2 DEF PostStep, Create, Enqueue, Compensate, PostDies, FaultKinds
  <2> QED
    BY <1>1, <2>3, <2>4, OthersAreFar
<1>3. CASE DeleteRead \/ DeleteStep \/ DeleteDies
  <2> USE DEF DeleteStep, KeepPost
  <2>1. UNCHANGED rowVars \/ CancelJob
    BY <1>3 DEF DeleteRead, DeleteCancels, DeleteTells, DeleteDies, rowVars
  <2>2. RowSteps /\ KeysKept
    BY <1>0, <2>1, WritesStep
  <2>3. UNCHANGED device \/ \E id : CancelAtProvider(id)
    BY <1>3 DEF DeleteRead, DeleteCancels, DeleteTells, DeleteDies
  <2>4. NoFault \/ \E kind \in FaultKinds : Fault(kind)
    BY <1>3 DEF DeleteRead, DeleteCancels, DeleteTells, DeleteDies, FaultKinds
  <2> QED
    BY <1>1, <2>2, <2>3, <2>4, OthersAreFar
<1> QED
  BY <1>2, <1>3 DEF RouteActs, RoutesNext

\* The provider and the reaper; the clock, which ages a claim when no tick is
\* under way; and the owner, who takes on a debt with the failure counted.
LEMMA WorldTimely ==
  ASSUME TimelyInd, AnswerInd', Advances,
         \/ ProviderActs
         \/ ClaimWindowPasses \/ BecomesIdle \/ TwoDaysPass
         \/ ReapStaleHardwareJobs \/ OwnerDeletesCredential
  PROVE  TimelyInd'
<1>0. /\ row \in RowType /\ quiet \in Quiet /\ RowTypeOK /\ DeviceTypeOK
      /\ Timely("calls")
  BY DEF TimelyInd, AnswerInd, TypeOK, RowTypeOK
<1>1. CASE ProviderActs
  <2>1. UNCHANGED <<rowVars, exec, outside>>
    BY <1>1 DEF ProviderActs, ProviderMoves, pollVars
  <2>2. RowSteps /\ KeysKept
    BY <1>0, <2>1, WritesStep
  <2>3. \E id : DeviceMoves(id) \/ ResultsArrive(id)
    BY <1>1 DEF ProviderActs, ProviderMoves
  <2> QED
    BY <2>1, <2>2, <2>3, OthersAreFar DEF NoFault
<1>2. CASE ClaimWindowPasses \/ BecomesIdle
  <2>1. UNCHANGED <<row, exec, outside, device>> /\ Calm
    BY <1>0, <1>2 DEF ClaimWindowPasses, BecomesIdle, Elapse, pollVars
  <2>2. Sent' = Sent /\ \A id \in DOMAIN device' : Live(id)' => Live(id)
    BY <1>0, <2>1, NoneComesToLife
  <2> QED
    BY <2>1, <2>2, FarKeeps DEF KeysKept
<1>3. CASE TwoDaysPass
  <2>1. UNCHANGED <<rowVars, exec, outside, device>>
    BY <1>3 DEF TwoDaysPass, Elapse, pollVars, rowVars
  <2>2. RowSteps /\ KeysKept
    BY <1>0, <2>1, WritesStep
  <2> QED
    BY <2>1, <2>2, OthersAreFar DEF NoFault
<1>4. CASE ReapStaleHardwareJobs
  <2>1. UNCHANGED <<exec, device>> /\ NoFault /\ FailStaleJobs
    BY <1>4 DEF ReapStaleHardwareJobs, pollVars
  <2>2. RowSteps /\ KeysKept
    BY <1>0, <2>1, WritesStep
  <2> QED
    BY <2>1, <2>2, OthersAreFar
<1>5. CASE OwnerDeletesCredential
  <2>1. /\ UNCHANGED <<exec, device, quiet>> /\ Fault("owner") /\ DeleteCredential
        /\ row.status # "ABSENT"
    BY <1>5 DEF OwnerDeletesCredential, DeleteCredential, pollVars
  <2>2. RowSteps
    BY <1>0, <2>1, WritesStep
  <2>3. /\ row.credential /\ ~row'.credential /\ row'.status = row.status
        /\ row'.providerJobId = row.providerJobId
    BY <1>0, <2>1 DEF DeleteCredential, RowType
  <2>4. Sent' = Sent /\ \A id \in DOMAIN device' : Live(id)' => Live(id)
    BY <1>0, <2>1, NoneComesToLife
  <2>5. /\ outside'.happened = outside.happened + 1
        /\ outside'.timely = outside.timely
    BY <1>0, <2>1, FaultCounts
  <2>6. ClaimInd'
    BY <2>1, <2>2, <2>3, ClaimKept DEF TimelyInd
  <2>7. CountInd'
    BY <2>1, <2>2, <2>4, CountKept DEF TimelyInd
  <2>8. OrphanInd'
    <3>1. Orphans' \subseteq Orphans
      BY <2>1, <2>4, NoOrphanMade DEF TimelyInd
    <3>2. TypeOK'
      BY DEF AnswerInd
    <3> QED
      BY <2>1, <2>3, <2>5, <3>1, <3>2, OrphanSteps DEF TimelyInd
  <2> QED
    BY <1>0, <2>5, <2>6, <2>7, <2>8 DEF TimelyInd, Timely
<1> QED
  BY <1>1, <1>2, <1>3, <1>4, <1>5

\* The ticks far from a submission.
LEMMA FarTicksTimely ==
  ASSUME TimelyInd, AnswerInd', Advances, NEW e \in Executors,
         \/ \E t \in Ticks : Deliver(e, t)
         \/ Ask(e) \/ Collect(e) \/ Complete(e) \/ Observe(e) \/ Fail(e) \/ Book(e)
         \/ Settle(e)
  PROVE  TimelyInd'
<1>0. AnswerInd /\ TickStep(e) /\ DeviceTypeOK /\ RowTypeOK
  BY DEF TimelyInd, AnswerInd, TypeOK, TickStep
<1>1. /\ exec[e].at \notin SubmitPc /\ exec'[e].at \notin SubmitPc
      /\ UNCHANGED device
      /\ NoFault \/ \E kind \in FaultKinds : Fault(kind)
  BY <1>0, FarFromSubmission
<1>2. RowSteps /\ KeysKept
  BY <1>0, <1>1, TickRowSteps DEF At, SubmitPc
<1>3. \A f \in Executors : f # e => exec'[f] = exec[f]
  BY <1>0, TickMovesAlone
<1> QED
  BY <1>0, <1>1, <1>2, <1>3, NoneComesToLife, SettingStays, FarKeeps

\* The reading of the row sets out with the count as it is.
LEMMA FindTimely ==
  ASSUME TimelyInd, AnswerInd', Advances, NEW e \in Executors, Find(e)
  PROVE  TimelyInd'
<1> USE DEF SubmitPc, At
<1>0. /\ AnswerInd /\ ClaimInd /\ CountInd /\ OrphanInd /\ TickStep(e)
      /\ DeviceTypeOK /\ RowTypeOK /\ exec \in [Executors -> ExecType]
  BY DEF TimelyInd, AnswerInd, TypeOK, TickStep, PollTypeOK
<1>1. UNCHANGED <<rowVars, device>>
  BY DEF Find, KeepRow
<1>2. NoFault \/ \E kind \in FaultKinds : Fault(kind)
  BY DEF Find, FaultKinds
<1>3. RowSteps /\ KeysKept
  BY <1>1, <1>0, WritesStep DEF RowTypeOK
<1>4. \A f \in Executors : f # e => exec'[f] = exec[f]
  BY <1>0, TickMovesAlone
<1>5. exec[e].at = "find"
  BY DEF Find
<1>6. CASE exec'[e].at \notin SubmitPc
  BY <1>0, <1>1, <1>2, <1>3, <1>4, <1>5, <1>6, NoneComesToLife, SettingStays, FarKeeps
<1>7. CASE /\ IsOpen
           /\ exec' = [exec EXCEPT ![e].at = "client", ![e].id = row.providerJobId,
                                   ![e].count = row.pollCount]
  <2>1. exec'[e].at = "client" /\ exec'[e].count = row.pollCount
    <3>1. exec' = [exec EXCEPT ![e] =
                     [exec[e] EXCEPT !.at = "client", !.id = row.providerJobId,
                                     !.count = row.pollCount]]
      BY <1>0, <1>7
    <3> QED
      BY <1>0, <3>1 DEF ExecType
  <2>2. Busy' = Busy
    BY <1>4, <1>5, <2>1 DEF Busy
  <2>3. UNCHANGED <<row, quiet, device, Claimable, Sent>>
    BY <1>1 DEF rowVars, Claimable, Sent
  <2>4. ClaimInd'
    BY <1>0, <1>4, <1>7, <2>1, <2>2, <2>3 DEF ClaimInd, IsOpen, OpenStatus
  <2>5. CountInd'
    BY <1>0, <1>4, <2>1, <2>3 DEF CountInd
  <2>6. OrphanInd'
    <3>1. Orphans' \subseteq Orphans
      BY <1>0, <1>1, <1>4, <1>5, NoneComesToLife, NoOrphanMade
    <3>2. Debt' <= Debt
      BY <2>2, <2>3 DEF Debt
    <3>3. row'.status = "ABSENT" => row'.credential
      BY <1>0, <2>3 DEF OrphanInd
    <3>4. TypeOK'
      BY DEF AnswerInd
    <3> QED
      BY <1>0, <1>2, <3>1, <3>2, <3>3, <3>4, SettingStays, OrphanSteps
  <2> QED
    BY <1>0, <1>2, <2>4, <2>5, <2>6, SettingStays DEF TimelyInd, Timely
<1>8. \/ exec'[e].at \notin SubmitPc
      \/ /\ IsOpen
         /\ exec' = [exec EXCEPT ![e].at = "client", ![e].id = row.providerJobId,
                                 ![e].count = row.pollCount]
  <2>1. End(e, "ack") \/ End(e, "nack") => exec'[e].at \notin SubmitPc
    BY <1>0, EndMoves, TicksAssumption DEF PollPc
  <2>2. ASSUME NEW code \in {"POLL_ABANDONED", "CREDENTIAL_MISSING"},
               GotoWith(e, "fail", code)
        PROVE  exec'[e].at \notin SubmitPc
    BY <1>0, <2>2, GotoWithMoves, TicksAssumption DEF PollPc, ErrorCodes
  <2> QED
    BY <2>1, <2>2 DEF Find
<1> QED
  BY <1>6, <1>7, <1>8

\* The ceiling is on the count that was read: whoever goes on to the claim, and
\* may still win it, is below it.
LEMMA ClientTimely ==
  ASSUME TimelyInd, AnswerInd', Advances, NEW e \in Executors, Client(e)
  PROVE  TimelyInd'
<1> USE DEF SubmitPc, At
<1>0. /\ AnswerInd /\ ClaimInd /\ CountInd /\ OrphanInd /\ TickStep(e)
      /\ DeviceTypeOK /\ RowTypeOK /\ exec \in [Executors -> ExecType]
  BY DEF TimelyInd, AnswerInd, TypeOK, TickStep, PollTypeOK
<1>1. UNCHANGED <<rowVars, device>>
  BY DEF Client, KeepRow
<1>2. NoFault \/ \E kind \in FaultKinds : Fault(kind)
  BY DEF Client, FaultKinds
<1>3. RowSteps /\ KeysKept
  BY <1>1, <1>0, WritesStep DEF RowTypeOK
<1>4. \A f \in Executors : f # e => exec'[f] = exec[f]
  BY <1>0, TickMovesAlone
<1>5. exec[e].at = "client"
  BY DEF Client
<1>6. UNCHANGED <<row, quiet, device, Claimable, Sent>>
  BY <1>1 DEF rowVars, Claimable, Sent
<1>7. \/ exec'[e].at \notin SubmitPc
      \/ /\ exec[e].id = NoId /\ ~SubmitAbandoned(exec[e].count)
         /\ exec'[e].at = "claim"
  <2>1. ASSUME NEW code \in {"CREDENTIAL_MISSING", "SUBMIT_ABANDONED",
                             "PROVIDER_REFUSED"},
               GotoWith(e, "fail", code)
        PROVE  exec'[e].at \notin SubmitPc
    BY <1>0, <2>1, GotoWithMoves, TicksAssumption DEF PollPc, ErrorCodes
  <2>2. Goto(e, "ask") => exec'[e].at \notin SubmitPc
    BY <1>0, GotoMoves DEF PollPc
  <2>3. Goto(e, "claim") => exec'[e].at = "claim"
    BY <1>0, GotoMoves DEF PollPc
  <2> QED
    BY <2>1, <2>2, <2>3 DEF Client
<1>8. exec'[e].at \notin {"send", "record", "undo"}
  BY <1>7
<1>9. Busy' = Busy
  BY <1>4, <1>5, <1>8 DEF Busy
<1>10. ClaimInd'
  BY <1>0, <1>4, <1>5, <1>6, <1>8, <1>9 DEF ClaimInd
<1>11. CountInd'
  <2>1. exec'[e].at = "claim" /\ Claimable => row.pollCount < MaxSubmitAttempts
    <3>1. row.pollCount \in Nat
      BY <1>0, RowFields DEF RowTypeOK
    <3> QED
      BY <1>0, <1>5, <1>7, <3>1, PollAssumption
         DEF CountInd, SubmitAbandoned, PollAssumption
  <2>2. exec'[e].at \notin {"client", "send"}
    BY <1>7
  <2> QED
    BY <1>0, <1>4, <1>6, <2>1, <2>2 DEF CountInd
<1>12. OrphanInd'
  <2>1. Orphans' \subseteq Orphans
    BY <1>0, <1>1, <1>4, <1>5, NoneComesToLife, NoOrphanMade
  <2>2. Debt' <= Debt
    BY <1>6, <1>9 DEF Debt
  <2>3. row'.status = "ABSENT" => row'.credential
    BY <1>0, <1>6 DEF OrphanInd
  <2>4. TypeOK'
    BY DEF AnswerInd
  <2> QED
    BY <1>0, <1>2, <2>1, <2>2, <2>3, <2>4, SettingStays, OrphanSteps
<1> QED
  BY <1>0, <1>2, <1>10, <1>11, <1>12, SettingStays DEF TimelyInd, Timely

\* Who wins the claim finds nobody else with one, and room for a submission.
LEMMA ClaimTimely ==
  ASSUME TimelyInd, AnswerInd', Advances, NEW e \in Executors, Claim(e)
  PROVE  TimelyInd'
<1> USE DEF SubmitPc, At
<1>0. /\ AnswerInd /\ ClaimInd /\ CountInd /\ OrphanInd /\ TickStep(e)
      /\ DeviceTypeOK /\ RowTypeOK /\ exec \in [Executors -> ExecType]
      /\ row \in RowType /\ quiet \in Quiet /\ row.pollCount \in Nat
  BY DEF TimelyInd, AnswerInd, TypeOK, TickStep, PollTypeOK, RowTypeOK, RowType
<1>1. UNCHANGED device
  BY DEF Claim
<1>2. NoFault \/ \E kind \in FaultKinds : Fault(kind)
  BY DEF Claim, StorageFails, FaultKinds
<1>3. exec[e].at = "claim"
  BY DEF Claim
<1>4. RowSteps /\ KeysKept
  BY <1>0, <1>3, TickRowSteps
<1>5. \A f \in Executors : f # e => exec'[f] = exec[f]
  BY <1>0, TickMovesAlone
<1>6. Sent' = Sent /\ \A id \in DOMAIN device' : Live(id)' => Live(id)
  BY <1>0, <1>1, NoneComesToLife
<1>7. Orphans' \subseteq Orphans
  BY <1>0, <1>3, <1>5, <1>6, NoOrphanMade
<1>8. row'.status = "ABSENT" => row'.credential
  BY <1>0, <1>4 DEF RowSteps, KeysKept, OrphanInd
<1>9. CASE exec'[e].at \notin SubmitPc
  <2>1. ClaimInd' /\ CountInd'
    BY <1>0, <1>4, <1>5, <1>6, <1>9, ClaimKept, CountKept DEF KeysKept
  <2>2. Debt' <= Debt
    BY <1>0, <1>4, <1>5, <1>9 DEF Debt, Busy, RowSteps, KeysKept, OrphanInd
  <2>3. OrphanInd'
    <3>1. TypeOK'
      BY DEF AnswerInd
    <3> QED
      BY <1>0, <1>2, <1>7, <1>8, <2>2, <3>1, SettingStays, OrphanSteps
  <2> QED
    BY <1>0, <1>2, <2>1, <2>3, SettingStays DEF TimelyInd, Timely
<1>10. CASE Claimable /\ ClaimSubmission /\ Goto(e, "send")
  <2>1. exec'[e].at = "send"
    BY <1>0, <1>10, GotoMoves DEF PollPc
  <2>2. /\ row.status = "SUBMITTED" /\ row.providerJobId = NoId
        /\ row'.status = "SUBMITTED" /\ row'.providerJobId = NoId
        /\ row'.pollCount = row.pollCount + 1
        /\ row'.polled /\ quiet' = "fresh"
    BY <1>0, <1>10, ClaimWrites DEF Claimable
  <2>3. Busy = {}
    BY <1>0, <1>10 DEF ClaimInd, Claimable
  <2>4. \A f \in Executors : exec'[f].at \in {"send", "record", "undo"} => f = e
    BY <1>5, <2>3 DEF Busy
  <2>5. ClaimInd'
    <3>1. \A f, g \in Busy' : f = g
      BY <2>4 DEF Busy
    <3>2. \A f \in Executors : exec'[f].at # "undo"
      BY <2>1, <2>4
    <3> QED
      BY <2>2, <3>1, <3>2 DEF ClaimInd
  <2>6. CountInd'
    <3>1. row.pollCount < MaxSubmitAttempts /\ Sent <= row.pollCount /\ Sent \in Nat
      BY <1>0, <1>3, <1>10 DEF CountInd, Sent, DeviceTypeOK
    <3>2. ~Claimable'
      BY <2>2 DEF Claimable
    <3> QED
      BY <1>0, <1>6, <2>2, <3>1, <3>2, PollAssumption DEF CountInd, PollAssumption
  <2>7. OrphanInd'
    <3>1. Debt' <= Debt
      BY <1>4, <2>2 DEF Debt, KeysKept
    <3>2. TypeOK'
      BY DEF AnswerInd
    <3> QED
      BY <1>0, <1>2, <1>7, <1>8, <3>1, <3>2, SettingStays, OrphanSteps
  <2> QED
    BY <1>0, <1>2, <2>5, <2>6, <2>7, SettingStays DEF TimelyInd, Timely
<1>11. End(e, "ack") \/ End(e, "nack") => exec'[e].at \notin SubmitPc
  BY <1>0, EndMoves, TicksAssumption DEF PollPc
<1> QED
  BY <1>9, <1>10, <1>11 DEF Claim, StorageFails

\* A submission was counted with its claim, and the one tick that makes it holds
\* the job until it is recorded; a lost answer is a failure.
LEMMA SendTimely ==
  ASSUME TimelyInd, AnswerInd', Advances, NEW e \in Executors, Send(e)
  PROVE  TimelyInd'
<1> USE DEF SubmitPc, At
<1>0. /\ AnswerInd /\ ClaimInd /\ CountInd /\ OrphanInd /\ TickStep(e)
      /\ DeviceTypeOK /\ RowTypeOK /\ exec \in [Executors -> ExecType]
      /\ row.pollCount \in Nat /\ Sent \in Nat
  BY DEF TimelyInd, AnswerInd, TypeOK, TickStep, PollTypeOK, RowTypeOK, RowType,
         DeviceTypeOK, Sent
<1>1. UNCHANGED rowVars
  BY DEF Send, KeepRow
<1>2. NoFault \/ \E kind \in FaultKinds : Fault(kind)
  BY DEF Send, ProviderFails, FaultKinds
<1>3. exec[e].at = "send" /\ e \in Busy
  BY DEF Send, Busy
<1>4. \A f \in Executors : f # e => exec'[f] = exec[f]
  BY <1>0, TickMovesAlone
<1>5. UNCHANGED <<row, quiet, Claimable>>
  BY <1>1 DEF rowVars, Claimable
<1>6. exec'[e].at = "record" \/ exec'[e].at \notin SubmitPc
  <2>1. End(e, "book") => exec'[e].at \notin SubmitPc
    BY <1>0, EndMoves, TicksAssumption DEF PollPc
  <2>2. ASSUME NEW code \in {"RESULT_UNREADABLE", "PROVIDER_REFUSED"},
               GotoWith(e, "fail", code)
        PROVE  exec'[e].at \notin SubmitPc
    BY <1>0, <2>2, GotoWithMoves, TicksAssumption DEF PollPc, ErrorCodes
  <2>3. ASSUME exec' = [exec EXCEPT ![e].at = "record", ![e].id = Sent + 1]
        PROVE  exec'[e].at = "record"
    BY <1>0, <2>3 DEF ExecType
  <2> QED
    BY <2>1, <2>2, <2>3 DEF Send, ProviderFails
<1>7. \A f \in Executors : exec'[f].at # "send" /\ (f # e => exec'[f].at \notin {"record", "undo"})
  BY <1>0, <1>3, <1>4, <1>6 DEF ClaimInd, Busy
<1>8. Busy' \subseteq Busy
  BY <1>3, <1>7 DEF Busy
<1>9. ClaimInd'
  <2>1. exec'[e].at # "undo"
    BY <1>6
  <2> QED
    BY <1>0, <1>3, <1>4, <1>5, <1>7, <1>8, <2>1 DEF ClaimInd
<1>10. CountInd'
  <2>1. Sent < row.pollCount /\ Sent < MaxSubmitAttempts
    BY <1>0, <1>3 DEF CountInd
  <2>2. Sent' \in {Sent, Sent + 1}
    BY <1>0 DEF Send, PostJob, KeepDevice, Sent, DeviceTypeOK
  <2>3. Sent' <= row'.pollCount /\ Sent' <= MaxSubmitAttempts
    BY <1>0, <1>5, <2>1, <2>2, PollAssumption DEF PollAssumption
  <2>4. exec'[e].at \notin {"client", "claim"}
    BY <1>6
  <2> QED
    BY <1>0, <1>4, <1>5, <1>7, <2>3, <2>4 DEF CountInd
<1>11. OrphanInd'
  <2>1. Debt' <= Debt
    BY <1>5, <1>8 DEF Debt
  <2>2. row'.status = "ABSENT" => row'.credential
    BY <1>0, <1>5 DEF OrphanInd
  <2>3. TypeOK'
    BY DEF AnswerInd
  <2>4. \A f \in Executors : exec[f].at \notin {"record", "undo"}
    BY <1>0, <1>3 DEF ClaimInd, Busy
  <2>5. ASSUME PostJob PROVE Orphans' \subseteq Orphans \union {Sent + 1}
    <3>1. SUFFICES ASSUME NEW id \in Orphans', id # Sent + 1 PROVE id \in Orphans
      OBVIOUS
    <3>2. id \in DOMAIN device' /\ Live(id)' /\ id # row'.providerJobId
      BY DEF Orphans
    <3>3. id \in DOMAIN device /\ device'[id] = device[id]
      BY <1>0, <2>5, <3>1, <3>2 DEF PostJob, DeviceTypeOK, Sent
    <3>4. Live(id)
      BY <3>2, <3>3 DEF Live
    <3> QED
      BY <1>5, <2>4, <3>2, <3>3, <3>4 DEF Orphans
  <2>6. CASE /\ PostJob
             /\ exec' = [exec EXCEPT ![e].at = "record", ![e].id = Sent + 1]
    <3>1. exec'[e].at = "record" /\ exec'[e].id = Sent + 1
      <4>1. exec' = [exec EXCEPT ![e] = [exec[e] EXCEPT !.at = "record", !.id = Sent + 1]]
        BY <1>0, <2>6
      <4> QED
        BY <1>0, <4>1 DEF ExecType
    <3>2. Sent + 1 \notin Orphans'
      BY <3>1 DEF Orphans
    <3>3. Orphans' \subseteq Orphans
      BY <2>5, <2>6, <3>2
    <3> QED
      BY <1>0, <1>2, <2>1, <2>2, <2>3, <3>3, SettingStays, OrphanSteps
  <2>7. CASE PostJob /\ \E kind \in FaultKinds : Fault(kind)
    <3>1. outside'.happened = outside.happened + 1
      BY <1>0, <2>7, FaultCounts
    <3> QED
      BY <1>0, <2>1, <2>2, <2>3, <2>5, <2>7, <3>1, OrphanSteps
  <2>8. CASE UNCHANGED device
    <3>1. Orphans' \subseteq Orphans
      BY <1>0, <2>4, <2>8, NoneComesToLife, NoOrphanMade
    <3> QED
      BY <1>0, <1>2, <2>1, <2>2, <2>3, <3>1, SettingStays, OrphanSteps
  <2> QED
    BY <2>6, <2>7, <2>8 DEF Send, KeepDevice, FaultKinds
<1> QED
  BY <1>0, <1>2, <1>9, <1>10, <1>11, SettingStays DEF TimelyInd, Timely

\* The record hands the job to the row, or the tick keeps it to undo it; a record
\* that fails may lose it.
LEMMA RecordTimely ==
  ASSUME TimelyInd, AnswerInd', Advances, NEW e \in Executors, Record(e)
  PROVE  TimelyInd'
<1> USE DEF SubmitPc, At
<1>0. /\ AnswerInd /\ ClaimInd /\ CountInd /\ OrphanInd /\ TickStep(e)
      /\ DeviceTypeOK /\ RowTypeOK /\ exec \in [Executors -> ExecType]
      /\ row \in RowType /\ quiet \in Quiet
  BY DEF TimelyInd, AnswerInd, TypeOK, TickStep, PollTypeOK, RowTypeOK
<1>1. UNCHANGED device
  BY DEF Record
<1>2. NoFault \/ \E kind \in FaultKinds : Fault(kind)
  BY DEF Record, StorageFails, FaultKinds
<1>3. exec[e].at = "record" /\ e \in Busy
  BY DEF Record, Busy
<1>4. \A f \in Executors : f # e => exec'[f] = exec[f]
  BY <1>0, TickMovesAlone
<1>5. RowSteps /\ UNCHANGED row.credential
  BY <1>0, TickRowSteps
<1>6. Sent' = Sent /\ \A id \in DOMAIN device' : Live(id)' => Live(id)
  BY <1>0, <1>1, NoneComesToLife
<1>7. row'.status = "ABSENT" => row'.credential
  BY <1>0, <1>5 DEF RowSteps, OrphanInd
<1>8. TypeOK'
  BY DEF AnswerInd
<1>9. \A f \in Executors : f # e => exec[f].at \notin {"send", "record", "undo"}
  BY <1>0, <1>3 DEF ClaimInd, Busy
<1>10. CASE exec'[e].at \notin SubmitPc
  <2>1. ClaimInd' /\ CountInd'
    BY <1>0, <1>3, <1>4, <1>5, <1>6, <1>10, ClaimKept, CountKept
  <2>2. Debt' <= Debt
    BY <1>0, <1>4, <1>5, <1>10 DEF Debt, Busy, RowSteps, OrphanInd
  <2>3. CASE \E kind \in FaultKinds : Fault(kind)
    <3>1. outside'.happened = outside.happened + 1 /\ outside'.timely = outside.timely
      BY <1>0, <2>3, FaultCounts
    <3>2. Orphans' \subseteq Orphans \union {exec[e].id}
      <4>1. SUFFICES ASSUME NEW id \in Orphans', id # exec[e].id PROVE id \in Orphans
        OBVIOUS
      <4>2. id \in DOMAIN device /\ Live(id) /\ id # row'.providerJobId
        BY <1>1, <1>6 DEF Orphans
      <4>3. id # row.providerJobId
        <5>1. id # NoId
          BY <1>0, <4>2 DEF DeviceTypeOK, NoId
        <5> QED
          BY <1>0, <4>2, <5>1 DEF Advances, RowAdvances, AnswerInd, HandleInd
      <4>4. \A f \in Executors : ~(exec[f].id = id /\ exec[f].at \in {"record", "undo"})
        BY <1>9, <4>1
      <4> QED
        BY <4>2, <4>3, <4>4 DEF Orphans
    <3>3. OrphanInd'
      BY <1>0, <1>7, <1>8, <2>2, <3>1, <3>2, OrphanSteps
    <3> QED
      BY <1>0, <2>1, <3>1, <3>3 DEF TimelyInd, Timely
  <2>4. CASE RecordSubmission(exec[e].id) /\ Recordable /\ NoFault
    <3>1. row'.providerJobId = exec[e].id
      <4>1. exec[e].id \in 0 .. MaxIds
        BY <1>0 DEF ExecType
      <4> QED
        BY <1>0, <2>4, <4>1, RecordWrites
    <3>2. Orphans' \subseteq Orphans
      <4>1. SUFFICES ASSUME NEW id \in Orphans' PROVE id \in Orphans
        OBVIOUS
      <4>2. id \in DOMAIN device /\ Live(id) /\ id # row'.providerJobId
        BY <1>1, <1>6 DEF Orphans
      <4>3. id # row.providerJobId
        <5>1. id # NoId
          BY <1>0, <4>2 DEF DeviceTypeOK, NoId
        <5> QED
          BY <1>0, <4>2, <5>1 DEF Advances, RowAdvances, AnswerInd, HandleInd
      <4>4. \A f \in Executors : ~(exec[f].id = id /\ exec[f].at \in {"record", "undo"})
        BY <1>9, <3>1, <4>2
      <4> QED
        BY <4>2, <4>3, <4>4 DEF Orphans
    <3>3. OrphanInd'
      BY <1>0, <1>2, <1>7, <1>8, <2>2, <3>2, SettingStays, OrphanSteps
    <3> QED
      BY <1>0, <1>2, <2>1, <3>3, SettingStays DEF TimelyInd, Timely
  <2>5. Goto(e, "undo") => exec'[e].at = "undo"
    BY <1>0, GotoMoves DEF PollPc
  <2> QED
    BY <1>10, <2>3, <2>4, <2>5 DEF Record, StorageFails, FaultKinds
<1>11. CASE /\ RecordSubmission(exec[e].id) /\ ~Recordable
            /\ Goto(e, "undo") /\ NoFault
  <2>1. exec'[e].at = "undo" /\ exec'[e].id = exec[e].id
    BY <1>0, <1>11, GotoMoves DEF PollPc
  <2>2. UNCHANGED <<row, quiet>> /\ row.status # "SUBMITTED"
    BY <1>11 DEF RecordSubmission, When, Recordable
  <2>3. Busy' = Busy
    BY <1>3, <1>4, <2>1 DEF Busy
  <2>4. ClaimInd'
    BY <1>0, <1>3, <1>4, <2>1, <2>2, <2>3 DEF ClaimInd
  <2>5. CountInd'
    <3>1. ~Claimable'
      BY <2>2 DEF Claimable
    <3> QED
      BY <1>0, <1>4, <1>6, <2>1, <2>2, <3>1 DEF CountInd
  <2>6. OrphanInd'
    <3>1. Orphans' \subseteq Orphans
      BY <1>0, <1>4, <1>6, <2>1, NoOrphanMade
    <3>2. Debt' <= Debt
      BY <2>2, <2>3 DEF Debt
    <3> QED
      BY <1>0, <1>2, <1>7, <1>8, <3>1, <3>2, SettingStays, OrphanSteps
  <2> QED
    BY <1>0, <1>2, <2>4, <2>5, <2>6, SettingStays DEF TimelyInd, Timely
<1>12. End(e, "book") \/ End(e, "nack") => exec'[e].at \notin SubmitPc
  BY <1>0, EndMoves, TicksAssumption DEF PollPc
<1> QED
  BY <1>10, <1>11, <1>12 DEF Record, StorageFails

\* What is left of a job that was not recorded: nothing, or a failure's orphan, or
\* the one orphan that a deleted credential was charged with.
LEMMA UndoTimely ==
  ASSUME TimelyInd, AnswerInd', Advances, NEW e \in Executors, Undo(e)
  PROVE  TimelyInd'
<1> USE DEF SubmitPc, At
<1>0. /\ AnswerInd /\ ClaimInd /\ CountInd /\ OrphanInd /\ TickStep(e)
      /\ DeviceTypeOK /\ RowTypeOK /\ exec \in [Executors -> ExecType]
  BY DEF TimelyInd, AnswerInd, TypeOK, TickStep, PollTypeOK
<1>1. UNCHANGED rowVars
  BY DEF Undo, KeepRow
<1>2. NoFault \/ \E kind \in FaultKinds : Fault(kind)
  BY DEF Undo, FaultKinds
<1>3. exec[e].at = "undo" /\ e \in Busy
  BY DEF Undo, Busy
<1>4. \A f \in Executors : f # e => exec'[f] = exec[f]
  BY <1>0, TickMovesAlone
<1>5. exec'[e].at \notin SubmitPc
  BY <1>0, EndMoves, TicksAssumption DEF Undo, PollPc
<1>6. RowSteps /\ KeysKept
  BY <1>1, <1>0, WritesStep DEF RowTypeOK
<1>7. Sent' = Sent /\ \A id \in DOMAIN device' : Live(id)' => Live(id)
  BY <1>0, NoneComesToLife DEF Undo, KeepDevice
<1>8. ClaimInd' /\ CountInd'
  BY <1>0, <1>4, <1>5, <1>6, <1>7, ClaimKept, CountKept DEF KeysKept
<1>9. \A f \in Executors : f # e => exec[f].at \notin {"send", "record", "undo"}
  BY <1>0, <1>3 DEF ClaimInd, Busy
<1>10. Busy' = {} /\ row'.status # "SUBMITTED" /\ Debt' = 0
  <2>1. Busy' = {}
    BY <1>4, <1>5, <1>9 DEF Busy
  <2>2. row'.status # "SUBMITTED"
    BY <1>0, <1>1, <1>3 DEF ClaimInd, rowVars
  <2> QED
    BY <2>1, <2>2 DEF Debt
<1>11. Orphans' \subseteq Orphans \union {exec[e].id}
  <2>1. SUFFICES ASSUME NEW id \in Orphans', id # exec[e].id PROVE id \in Orphans
    OBVIOUS
  <2>2. id \in DOMAIN device' /\ Live(id)' /\ id # row'.providerJobId
    BY DEF Orphans
  <2>3. Live(id) /\ id \in DOMAIN device /\ id # row.providerJobId
    BY <1>1, <1>7, <2>2 DEF Live, rowVars
  <2>4. \A f \in Executors : ~(exec[f].id = id /\ exec[f].at \in {"record", "undo"})
    BY <1>9, <2>1
  <2> QED
    BY <2>3, <2>4 DEF Orphans
<1>12. OrphanInd'
  <2>1. row'.status = "ABSENT" => row'.credential
    BY <1>0, <1>1 DEF OrphanInd, rowVars
  <2>2. TypeOK'
    BY DEF AnswerInd
  <2>3. Debt \in {0, 1}
    BY DEF Debt
  <2>4. CASE CancelAtProvider(exec[e].id) /\ NoFault
    <3>0. PICK id : id = exec[e].id
      OBVIOUS
    <3>1. ~Live(id)'
      BY <1>0, <2>4, <3>0 DEF CancelAtProvider, Live, DeviceTypeOK
    <3>2. Orphans' \subseteq Orphans
      BY <1>11, <3>0, <3>1 DEF Orphans
    <3> QED
      BY <1>0, <1>2, <1>10, <2>1, <2>2, <2>3, <3>2, SettingStays, OrphanSteps
  <2>5. CASE ~row.credential /\ NoFault
    <3>1. Debt = 1
      BY <1>3, <2>5 DEF Debt
    <3> QED
      BY <1>0, <1>2, <1>10, <1>11, <2>1, <2>2, <3>1, SettingStays, OrphanSteps
  <2>6. CASE \E kind \in FaultKinds : Fault(kind)
    <3>1. outside'.happened = outside.happened + 1
      BY <1>0, <2>6, FaultCounts
    <3> QED
      BY <1>0, <1>10, <1>11, <2>1, <2>2, <2>3, <3>1, OrphanSteps
  <2> QED
    BY <2>4, <2>5, <2>6 DEF Undo, FaultKinds
<1> QED
  BY <1>0, <1>2, <1>8, <1>12, SettingStays DEF TimelyInd, Timely

\* A worker that dies leaves at most the job of its submission behind.
LEMMA DeathTimely ==
  ASSUME TimelyInd, AnswerInd', Advances, NEW e \in Executors, WorkerDies(e)
  PROVE  TimelyInd'
<1> USE DEF SubmitPc, At
<1>0. /\ AnswerInd /\ ClaimInd /\ CountInd /\ OrphanInd
      /\ DeviceTypeOK /\ RowTypeOK /\ exec \in [Executors -> ExecType]
  BY DEF TimelyInd, AnswerInd, TypeOK, PollTypeOK
<1>1. UNCHANGED <<rowVars, device>> /\ Fault("worker")
  BY DEF WorkerDies, KeepRow, KeepDevice
<1>2. outside'.happened = outside.happened + 1 /\ outside'.timely = outside.timely
  BY <1>0, <1>1, FaultCounts
<1>3. \A f \in Executors : f # e => exec'[f] = exec[f]
  BY <1>0, TickMovesAlone
<1>4. exec'[e].at \notin SubmitPc
  BY <1>0 DEF WorkerDies, Idle
<1>5. RowSteps /\ KeysKept
  BY <1>0, <1>1, WritesStep DEF RowTypeOK
<1>6. Sent' = Sent /\ \A id \in DOMAIN device' : Live(id)' => Live(id)
  BY <1>0, <1>1, NoneComesToLife
<1>7. ClaimInd' /\ CountInd'
  BY <1>0, <1>3, <1>4, <1>5, <1>6, ClaimKept, CountKept DEF KeysKept
<1>8. OrphanInd'
  <2>1. Orphans' \subseteq Orphans \union {exec[e].id}
    <3>1. SUFFICES ASSUME NEW id \in Orphans', id # exec[e].id PROVE id \in Orphans
      OBVIOUS
    <3>2. id \in DOMAIN device /\ Live(id) /\ id # row.providerJobId
      BY <1>1, <1>6 DEF Orphans, rowVars
    <3>3. \A f \in Executors : ~(exec[f].id = id /\ exec[f].at \in {"record", "undo"})
      BY <1>3, <3>1 DEF Orphans
    <3> QED
      BY <3>2, <3>3 DEF Orphans
  <2>2. Busy' \subseteq Busy
    BY <1>3, <1>4 DEF Busy
  <2>3. Debt' <= Debt
    BY <1>1, <2>2 DEF Debt, rowVars
  <2>4. row'.status = "ABSENT" => row'.credential
    BY <1>0, <1>1 DEF OrphanInd, rowVars
  <2>5. TypeOK'
    BY DEF AnswerInd
  <2> QED
    BY <1>0, <1>2, <2>1, <2>3, <2>4, <2>5, OrphanSteps
<1> QED
  BY <1>0, <1>2, <1>7, <1>8 DEF TimelyInd, Timely

\* Every step of a worker.
LEMMA WorkerActsTimely ==
  ASSUME TimelyInd, AnswerInd', Advances, WorkerActs
  PROVE  TimelyInd'
<1>1. ASSUME NEW e \in Executors, TickStep(e) PROVE TimelyInd'
  BY <1>1, FarTicksTimely, FindTimely, ClientTimely, ClaimTimely, SendTimely,
     RecordTimely, UndoTimely
     DEF TickStep
<1>2. CASE \/ \E t \in Ticks : Starves(t) \/ QueueMoves(t)
           \/ SweepRead \/ SweepBook
  <2>0. row \in RowType /\ quiet \in Quiet
    BY DEF TimelyInd, AnswerInd, TypeOK, RowTypeOK
  <2>1. UNCHANGED <<rowVars, exec, device>>
    BY <1>2 DEF Starves, QueueMoves, SweepRead, SweepBook, KeepRow, KeepDevice
  <2>2. NoFault \/ \E kind \in FaultKinds : Fault(kind)
    BY <1>2 DEF Starves, QueueMoves, SweepRead, SweepBook, FaultKinds
  <2>3. RowSteps /\ KeysKept
    BY <2>0, <2>1, WritesStep
  <2> QED
    BY <2>1, <2>2, <2>3, OthersAreFar
<1> QED
  BY <1>1, <1>2, DeathTimely DEF WorkerActs, PollNext

\* Every step keeps the invariant.
LEMMA TimelyNext ==
  ASSUME TimelyInd, [Next]_vars
  PROVE  TimelyInd'
<1>1. AnswerInd' /\ Advances
  BY NextKeeps DEF TimelyInd
<1>2. CASE RouteActs
  BY <1>1, <1>2, RouteActsTimely
<1>3. CASE WorkerActs
  BY <1>1, <1>3, WorkerActsTimely
<1>4. CASE \/ ProviderActs
           \/ ClaimWindowPasses \/ BecomesIdle \/ TwoDaysPass
           \/ ReapStaleHardwareJobs \/ OwnerDeletesCredential
  BY <1>1, <1>4, WorldTimely
<1>5. CASE UNCHANGED vars
  <2>1. UNCHANGED <<rowVars, exec, device, outside>>
    BY <1>5 DEF vars, pollVars
  <2>2. RowSteps /\ KeysKept
    BY <2>1, WritesStep DEF TimelyInd, AnswerInd, TypeOK, RowTypeOK
  <2> QED
    BY <1>1, <2>1, <2>2, OthersAreFar DEF NoFault
<1> QED
  BY <1>2, <1>3, <1>4, <1>5 DEF Next

\* The timing the second half rests on: every setting of the behaviours has its
\* calls over within SUBMIT_CLAIM_MS, as a transport that gives up after ten
\* seconds makes them.
CallsAreTimely == \A o \in Settings : "calls" \in o.timely

\* The invariant holds in the first state, where nobody does anything.
LEMMA TimelyInit ==
  ASSUME CallsAreTimely, Init
  PROVE  TimelyInd
<1>1. AnswerInd
  BY InitAnswerInd
<1>2. PICK o \in Settings :
        outside = [kinds |-> o.kinds, max |-> o.max, timely |-> o.timely, happened |-> 0]
  BY DEF Init, RowInit
<1>3. Timely("calls") /\ outside.happened = 0
  BY <1>2 DEF Timely, CallsAreTimely
<1>4. \A e \in Executors : exec[e].at = "idle"
  BY DEF Init, PollInit, Idle
<1>5. device = <<>> /\ row.status = "ABSENT" /\ row.pollCount = 0 /\ row.credential
  BY DEF Init, DeviceInit, RowInit
<1>6. Busy = {}
  BY <1>4 DEF Busy
<1>7. ClaimInd
  BY <1>4, <1>6 DEF ClaimInd, SubmitPc, At
<1>8. CountInd
  BY <1>4, <1>5, PollAssumption DEF CountInd, Sent, At, PollAssumption
<1>9. OrphanInd
  <2>1. Orphans = {}
    BY <1>5 DEF Orphans
  <2>2. Cardinality(Orphans) = 0
    BY <2>1, FS_EmptySet
  <2> QED
    BY <1>3, <1>5, <2>2 DEF OrphanInd, Debt
<1> QED
  BY <1>1, <1>3, <1>7, <1>8, <1>9 DEF TimelyInd

\* So it holds throughout.
LEMMA TimelyInvariant ==
  ASSUME CallsAreTimely
  PROVE  Spec => []TimelyInd
<1>1. Init => TimelyInd
  BY TimelyInit
<1>2. TimelyInd /\ [Next]_vars => TimelyInd'
  BY TimelyNext
<1> QED
  BY <1>1, <1>2, PTL DEF Spec

\* Where calls are timely, the claim is exclusive: with the rest of what every
\* tick, request and sweep may find, for any number of them.
THEOREM HardwareIsInvariant ==
  ASSUME CallsAreTimely
  PROVE  Spec => []HardwareInvariant
<1>1. TimelyInd => HardwareInvariant
  <2> SUFFICES ASSUME TimelyInd PROVE HardwareInvariant
    OBVIOUS
  <2>1. OneSubmissionAtATime
    <3>1. \A e, f \in Submitting : e = f
      BY DEF TimelyInd, ClaimInd, Submitting, Busy
    <3>2. Submitting = {} \/ \E e \in Submitting : Submitting = {e}
      BY <3>1
    <3>3. CASE Submitting = {}
      BY <3>3, FS_EmptySet DEF OneSubmissionAtATime
    <3>4. CASE \E e \in Submitting : Submitting = {e}
      <4>1. PICK e : Submitting = {e}
        BY <3>4
      <4>2. Cardinality(Submitting) = 1
        BY <4>1, FS_Singleton
      <4> QED
        BY <4>2 DEF OneSubmissionAtATime
    <3> QED
      BY <3>2, <3>3, <3>4
  <2> QED
    BY <2>1 DEF TimelyInd, AnswerInd, FrameInd, FinalFrameIsTrue, HardwareInvariant
<1> QED
  BY <1>1, TimelyInvariant, PTL

\* Where calls are timely, one job is sent at most MAX_SUBMIT_ATTEMPTS times,
\* however many ticks, sweeps, redeliveries and lost answers there are.
THEOREM TheAllowanceIsBounded ==
  ASSUME CallsAreTimely
  PROVE  Spec => []SubmissionsAreBounded
<1>1. TimelyInd => SubmissionsAreBounded
  BY DEF TimelyInd, CountInd, SubmissionsAreBounded
<1> QED
  BY <1>1, TimelyInvariant, PTL

\* Where calls are timely, a provider job that nobody knows of costs a failure.
THEOREM OrphansCostFailures ==
  ASSUME CallsAreTimely
  PROVE  Spec => []OrphansNeedFailures
<1>1. TimelyInd => OrphansNeedFailures
  <2> SUFFICES ASSUME TimelyInd PROVE OrphansNeedFailures
    OBVIOUS
  <2>1. Cardinality(Orphans) \in Nat
    <3>1. Orphans \in SUBSET DOMAIN device
      BY DEF Orphans
    <3> QED
      BY <3>1, SentAreFinite DEF TimelyInd, AnswerInd, TypeOK, DeviceTypeOK
  <2>2. Debt \in {0, 1} /\ outside.happened \in Nat
    BY DEF Debt, TimelyInd, AnswerInd, TypeOK, RowTypeOK
  <2> QED
    BY <2>1, <2>2 DEF TimelyInd, OrphanInd, OrphansNeedFailures
<1> QED
  BY <1>1, TimelyInvariant, PTL

\* Where calls are timely, nothing is sent for a row that has its provider id.
THEOREM OneProviderJobAtATime ==
  ASSUME CallsAreTimely
  PROVE  Spec => NothingIsSentTwice
<1>1. TimelyInd /\ [Next]_vars =>
        [row.providerJobId # NoId => Sent' = Sent]_vars
  <2> SUFFICES ASSUME TimelyInd, Next, row.providerJobId # NoId PROVE Sent' = Sent
    OBVIOUS
  <2>0. DeviceTypeOK
    BY DEF TimelyInd, AnswerInd, TypeOK
  <2>1. ASSUME NEW e \in Executors, Send(e) PROVE FALSE
    BY <2>1 DEF Send, TimelyInd, ClaimInd
  <2>2. \/ UNCHANGED device
        \/ \E id : CancelAtProvider(id) \/ DeviceMoves(id) \/ ResultsArrive(id)
    <3>1. CASE WorkerActs
      <4>1. ASSUME NEW e \in Executors, TickStep(e)
            PROVE  UNCHANGED device \/ \E id : CancelAtProvider(id)
        BY <2>1, <4>1 DEF TickStep, Deliver, Find, Client, Claim, Record, Undo, Ask, Collect,
               Complete, Observe, Fail, Book, Settle, KeepDevice
      <4> QED
        BY <3>1, <4>1 DEF WorkerActs, PollNext, WorkerDies, Starves, QueueMoves, SweepRead,
               SweepBook, KeepDevice
    <3>2. CASE RouteActs
      BY <3>2 DEF RouteActs, RoutesNext, PostStep, Create, Enqueue, Compensate, PostDies,
             DeleteRead, DeleteStep, DeleteCancels, DeleteTells, DeleteDies
    <3>3. CASE ~WorkerActs /\ ~RouteActs
      BY <3>3 DEF Next, ProviderActs, ProviderMoves, ClaimWindowPasses, BecomesIdle,
             TwoDaysPass, Elapse, ReapStaleHardwareJobs, OwnerDeletesCredential
    <3> QED
      BY <3>1, <3>2, <3>3
  <2> QED
    BY <2>0, <2>2, NoneComesToLife
<1> QED
  BY <1>1, TimelyInvariant, PTL DEF Spec, NothingIsSentTwice

==============================================================================
