-------------------------- MODULE SimulationWorker --------------------------
(***************************************************************************)
(* The Web Worker of apps/web/src/features/simulation: the message loop of *)
(* simulation.worker.ts and the job of job.ts.  A worker runs one task at  *)
(* a time, and a job runs to its end inside one, so a step is a message or *)
(* the timer with which a finished job hands the event loop back.          *)
(*                                                                         *)
(* A question is the circuit and the run options of a request; an answer   *)
(* carries the question it was computed for, which no code reads.          *)
(***************************************************************************)
EXTENDS Checkpoints, Sequences

CONSTANT MaxClientQubits

VARIABLES
    toWorker,    \* messages posted to the worker
    toMain,      \* messages it posted
    worker       \* its state

workerVars == <<toWorker, toMain, worker>>

Whole == Columns    \* throughColumn: null

NoRequest == [kind |-> "none", id |-> 0]
NoJob == [kind |-> "none", id |-> 0]

FreshWorker == [cache |-> EmptyCache, inbox |-> NoRequest, cancelledThrough |-> 0, job |-> NoJob,
                dead |-> FALSE]

WorkerInit == worker = FreshWorker /\ toWorker = <<>> /\ toMain = <<>>

ErrorFor(request) ==
    [kind |-> "error", id |-> request.id, question |-> request.question, state |-> Ground.state]

ResultFor(request, state) ==
    [kind |-> request.question.run.mode, id |-> request.id, question |-> request.question,
     state |-> state]

\* A job that can be refused before any work is done.
RefusedAtOnce(question) ==
    \/ question.circuit.qubits > MaxClientQubits
    \/ question.run.mode = "analytic"
       /\ \E c \in Column : question.circuit.col[c] = Measured

\* runJob: the cache it leaves and the answer it has.  An analytic run drops
\* the checkpoints the request says are stale, then resumes from what is left;
\* one that breaks at a column keeps what it stored until then.  A sampled run
\* starts over and never touches the cache.
RunJob(cache, request, breaksAt) ==
    LET circuit == request.question.circuit
        through == request.question.run.through
        valid == InvalidateFrom(cache, request.fromColumn)
        ready == PrepareCache(valid, circuit.qubits)
        start == Resume(ready, IF through = Whole THEN request.fromColumn ELSE through + 1)
        last == IF breaksAt < through THEN breaksAt ELSE through
    IN  IF request.question.run.mode = "trajectories"
        THEN [cache |-> cache,
              answer |-> IF RefusedAtOnce(request.question) \/ breaksAt < Whole
                         THEN ErrorFor(request)
                         ELSE ResultFor(request, StateAfter(circuit, through))]
        ELSE IF RefusedAtOnce(request.question)
        THEN [cache |-> IF circuit.qubits > MaxClientQubits THEN cache ELSE valid,
              answer |-> ErrorFor(request)]
        ELSE [cache |-> Evolve(ready, circuit, start, last),
              answer |-> IF breaksAt < Whole THEN ErrorFor(request)
                         ELSE ResultFor(request, Applied(start, circuit, through))]

-----------------------------------------------------------------------------
\* drain, from the request it takes to the moment it yields: a cancelled one
\* is dropped unrun.
Take(w, request, breaksAt) ==
    IF request = NoRequest \/ request.id <= w.cancelledThrough
    THEN [w EXCEPT !.inbox = NoRequest, !.job = NoJob]
    ELSE LET done == RunJob(w.cache, request, breaksAt)
         IN  [w EXCEPT !.inbox = NoRequest, !.cache = done.cache, !.job = done.answer]

\* scope.onmessage.  The inbox is a list of which only the newest counts.
OnMessage(breaksAt) ==
    /\ toWorker # <<>> /\ ~worker.dead
    /\ LET message == Head(toWorker)
       IN  worker' = IF message.kind = "cancel"
                     THEN [worker EXCEPT !.cancelledThrough =
                              IF @ < message.id THEN message.id ELSE @]
                     ELSE IF worker.job = NoJob THEN Take(worker, message, breaksAt)
                     ELSE [worker EXCEPT !.inbox = message]
    /\ toWorker' = Tail(toWorker)
    /\ UNCHANGED toMain

\* Mutant: the request that waited is forgotten with the job it waited for.
AfterYieldForget(breaksAt) ==
    /\ worker.job # NoJob /\ ~worker.dead
    /\ toMain' = IF worker.job.id <= worker.cancelledThrough THEN toMain
                 ELSE Append(toMain, worker.job)
    /\ worker' = [worker EXCEPT !.inbox = NoRequest, !.job = NoJob]
    /\ UNCHANGED toWorker

\* The timer of yieldToInbox: the answer is posted unless it was cancelled in
\* the meantime, and the newest request that waited is taken.
AfterYield(breaksAt) ==
    /\ worker.job # NoJob /\ ~worker.dead
    /\ toMain' = IF worker.job.id <= worker.cancelledThrough THEN toMain
                 ELSE Append(toMain, worker.job)
    /\ worker' = Take(worker, worker.inbox, breaksAt)
    /\ UNCHANGED toWorker
=============================================================================
