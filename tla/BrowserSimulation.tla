------------------------- MODULE BrowserSimulation -------------------------
(***************************************************************************)
(* The simulation of the editor: useSimulation.ts ties a scheduler to a    *)
(* worker and to the server backend, a reader edits, scrubs, cancels and   *)
(* leaves, and a bounded number of things go wrong.                        *)
(***************************************************************************)
EXTENDS ServerBackend

CONSTANTS
    Contents,     \* what a column may hold
    Registers,    \* register sizes
    Positions,    \* where the scrubber may stand; Whole is the end
    MaxActs,      \* how often the reader does something
    MaxFaults     \* how often something goes wrong

ASSUME PositionsAssumption == Positions \subseteq -1 .. Columns

VARIABLES
    acts, faults,
    given         \* the reader gave the last question up

vars == <<sched, workerVars, backendVars, acts, faults, given>>

Modes == {"analytic", "trajectories"}

Start == [circuit |-> [qubits |-> 1, col |-> [c \in Column |-> 1]],
          run |-> [mode |-> "analytic", through |-> Whole]]

Init ==
    /\ WorkerInit /\ BackendInit
    /\ \E server \in Servers :
          sched = Schedule([Idle EXCEPT !.hasServer = server], Start)
    /\ acts = 0 /\ faults = 0 /\ given = FALSE

Quiet == UNCHANGED <<acts, faults, given>>
Fault == faults < MaxFaults /\ faults' = faults + 1 /\ UNCHANGED <<acts, given>>
Act == acts < MaxActs /\ acts' = acts + 1 /\ UNCHANGED faults

-----------------------------------------------------------------------------
\* One edit of the document, or one change of the way it is run.
Edits(question) ==
    {[question EXCEPT !.circuit.col[c] = v] : c \in Column, v \in Contents}
        \cup {[question EXCEPT !.circuit.qubits = q] : q \in Registers}
        \cup {[question EXCEPT !.run.mode = m] : m \in Modes}
        \cup {[question EXCEPT !.run.through = p] : p \in Positions}

Edit ==
    /\ Act
    /\ \E question \in Edits(sched.last) \ {sched.last} : Post(Schedule(sched, question))
    /\ given' = FALSE
    /\ UNCHANGED <<toMain, worker, ended>>

\* The Run button, and the debounce timer.
Flush ==
    /\ Act /\ sched.pending # NoQuestion
    /\ Post(Dispatch(sched))
    /\ UNCHANGED <<given, toMain, worker, ended>>

TimerFires ==
    /\ sched.timer
    /\ Post(Dispatch(sched))
    /\ UNCHANGED <<toMain, worker, ended>> /\ Quiet

ReaderCancels ==
    /\ Act /\ Status(sched) \in {"scheduled", "running"}
    /\ Post(Cancel(sched))
    /\ given' = TRUE
    /\ UNCHANGED <<toMain, worker, ended>>

\* Every effect is cleaned up and set up again: another worker, another
\* backend, and the document is asked for anew.
Remount ==
    /\ Act
    /\ sched' = Schedule(Reset(sched), sched.last)
    /\ worker' = FreshWorker /\ toWorker' = <<>> /\ toMain' = <<>>
    /\ live' = NoLive
    /\ given' = FALSE
    /\ UNCHANGED <<calls, ended>>

-----------------------------------------------------------------------------
AnswerArrives ==
    /\ toMain # <<>>
    /\ toMain' = Tail(toMain)
    /\ sched' = Receive(sched, Head(toMain))
    /\ UNCHANGED <<toWorker, worker, backendVars>> /\ Quiet

\* A reply that cannot be deserialised carries no id.
AnswerIsUnreadable ==
    /\ toMain # <<>>
    /\ Fault
    /\ toMain' = Tail(toMain)
    /\ Post(Fail(sched, "worker-failed"))
    /\ UNCHANGED <<worker, ended>>

WorkerErrors ==
    /\ Fault
    /\ Post(Fail(sched, "worker-failed"))
    /\ UNCHANGED <<toMain, worker, ended>>

\* A worker whose script does not load, or that the browser ends, reports an
\* error and never handles a message; nothing but a remount replaces it.
WorkerIsLost ==
    /\ Fault
    /\ worker' = [worker EXCEPT !.dead = TRUE]
    /\ Post(Fail(sched, "worker-failed"))
    /\ UNCHANGED <<toMain, ended>>

WorkerStep ==
    /\ OnMessage(Whole) \/ AfterYield(Whole)
    /\ UNCHANGED <<sched, backendVars>> /\ Quiet

\* A job the engine breaks off, at any column.
JobBreaks ==
    /\ Fault
    /\ \E c \in Column : OnMessage(c) \/ AfterYield(c)
    /\ worker'.job.kind = "error"
    /\ UNCHANGED <<sched, backendVars>>

-----------------------------------------------------------------------------
SubmissionAnswers ==
    /\ \E call \in calls, finished \in BOOLEAN : Submitted(call, finished)
    /\ UNCHANGED workerVars /\ Quiet

ReadAnswers == (\E call \in calls : Settled(call)) /\ UNCHANGED workerVars /\ Quiet
Poll == PollTick /\ UNCHANGED workerVars /\ Quiet
Feed == FeedSpeaks /\ UNCHANGED workerVars /\ Quiet
ServerEnds == RunEnds /\ UNCHANGED workerVars /\ Quiet

ServerFails ==
    /\ Fault
    /\ \/ \E call \in calls : SubmissionRefused(call)
       \/ \E call \in calls, gone \in BOOLEAN : ReadFails(call, gone)
       \/ FeedRefuses
    /\ UNCHANGED workerVars

-----------------------------------------------------------------------------
Next ==
    \/ Edit \/ Flush \/ TimerFires \/ ReaderCancels \/ Remount
    \/ AnswerArrives \/ AnswerIsUnreadable \/ WorkerErrors \/ WorkerIsLost \/ WorkerStep \/ JobBreaks
    \/ SubmissionAnswers \/ ReadAnswers \/ Poll \/ Feed \/ ServerEnds \/ ServerFails

Spec == Init /\ [][Next]_vars

\* Timers fire, the event loops of the page and of the worker run, requests
\* are answered and the API ends the runs it accepted.  The feed owes nothing.
FairSpec ==
    /\ Spec
    /\ WF_vars(TimerFires \/ AnswerArrives \/ WorkerStep)
    /\ WF_vars(SubmissionAnswers \/ ReadAnswers)
    /\ WF_vars(Poll) /\ WF_vars(ServerEnds)

-----------------------------------------------------------------------------
TypeOK ==
    /\ sched.inFlight \in 0 .. sched.lastId
    /\ sched.on \in {"none", "worker", "server"}
    /\ (sched.inFlight = 0) = (sched.on = "none")
    /\ sched.dirty \in 0 .. Clean /\ sched.sinceDispatch \in sched.dirty .. Clean
    /\ sched.timer = (sched.pending # NoQuestion)
    /\ DOMAIN worker.cache.entries \subseteq Column
    /\ Cardinality(DOMAIN worker.cache.entries) <= Limit
    /\ live.stage \in {"none", "submitting", "watching"}

\* An answer the worker computed by resuming from its cache is the state the
\* whole circuit of that request has at that column: no resumed run starts
\* from a checkpoint that an edit has contradicted, whatever was superseded,
\* dropped unrun, cancelled or broken off before.
OutcomeIsExact ==
    sched.outcome.kind \in Modes =>
        sched.outcome.state = StateAfter(sched.outcome.question.circuit,
                                         sched.outcome.question.run.through)

\* What makes it so: every checkpoint before the first dirty column is a state
\* of the circuit the editor last asked for.
CleanCheckpointsAreTrue ==
    worker.cache.qubits = sched.last.circuit.qubits =>
        \A c \in DOMAIN worker.cache.entries :
            c < sched.dirty => worker.cache.entries[c] = StateAfter(sched.last.circuit, c)

\* A panel that says "ready" shows the answer to the circuit on the canvas,
\* unless the reader stopped waiting for it.
ReadyIsCurrent ==
    Status(sched) = "ready" /\ ~given => sched.outcome.question = sched.last

\* A server run is driven, and described on screen, only while the scheduler
\* waits for it: nothing polls the API for an answer nobody will look at.
DrivenIsAwaited ==
    /\ live # NoLive => sched.on = "server" /\ sched.inFlight = live.id
    /\ sched.serverRun # "none" => sched.on = "server"

\* Together: what a message, a timer or an edit may find.
BrowserInvariant == TypeOK /\ DrivenIsAwaited

\* Once the reader stops, the panel stops waiting: whatever was superseded,
\* cancelled, broken off, lost on the way or answered twice, it ends with an
\* answer, with an error, or with nothing asked - unless its worker is lost.
EveryQuestionEnds == <>[](worker.dead \/ Status(sched) \in {"ready", "error", "idle"})

=============================================================================
