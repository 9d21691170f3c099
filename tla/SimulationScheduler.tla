------------------------ MODULE SimulationScheduler ------------------------
(***************************************************************************)
(* When the editor simulates, what it invalidates and which answers it     *)
(* believes: apps/web/src/features/simulation/scheduler.ts.  The scheduler *)
(* is one record and its methods map a record to a record; what they send, *)
(* a request and, before it, the cancel of the one it replaces, is kept in *)
(* it until the step that called them posts it.                            *)
(*                                                                         *)
(* A column number equal to Columns stands for null: nothing is dirty.     *)
(***************************************************************************)
EXTENDS SimulationWorker

CONSTANTS
    SamplingBudget,    \* the work a sampled run may cost a tab
    Servers            \* whether there may be a server: a set of booleans

VARIABLE sched

Clean == Columns

NoQuestion == [circuit |-> [qubits |-> 0, col |-> [c \in Column |-> 0]],
               run |-> [mode |-> "none", through |-> Whole]]
NoMessage == [kind |-> "none", id |-> 0, to |-> "none"]
NoOutcome == [kind |-> "none", id |-> 0, question |-> NoQuestion, state |-> Ground.state]

Idle == [pending |-> NoQuestion, timer |-> FALSE, inFlight |-> 0, on |-> "none",
         lastId |-> 0, last |-> NoQuestion, dirty |-> Clean, sinceDispatch |-> Clean,
         outcome |-> NoOutcome, failure |-> "none", serverRun |-> "none",
         hasServer |-> FALSE, cancel |-> NoMessage, request |-> NoMessage]

Status(s) ==
    CASE s.pending # NoQuestion -> "scheduled"
      [] s.pending = NoQuestion /\ s.inFlight # 0 -> "running"
      [] s.pending = NoQuestion /\ s.inFlight = 0 /\ s.failure # "none" -> "error"
      [] s.pending = NoQuestion /\ s.inFlight = 0 /\ s.failure = "none" /\ s.outcome # NoOutcome -> "ready"
      [] OTHER -> "idle"

Lowest(a, b) == IF a < b THEN a ELSE b

\* earliestChangedColumn: the first column whose operations, or the value of
\* a parameter they read, differ; another register is another circuit.
EarliestChangedColumn(before, after) ==
    IF before.circuit.qubits # after.circuit.qubits THEN 0
    ELSE Min({Clean} \cup {c \in Column : before.circuit.col[c] # after.circuit.col[c]})

NeedsServer(question) == question.circuit.qubits > MaxClientQubits

TooMuchSampling(question) ==
    /\ question.run.mode = "trajectories"
    /\ question.circuit.qubits * Cardinality(Plan(question.circuit)) > SamplingBudget

OnlyScrubMoved(before, after) ==
    before.mode = after.mode /\ before.through # after.through

-----------------------------------------------------------------------------
\* The request in flight is given up, and whoever holds it is told.
Disown(s) ==
    IF s.inFlight = 0 THEN s
    ELSE [s EXCEPT !.cancel = [kind |-> "cancel", id |-> s.inFlight, to |-> s.on],
                   !.inFlight = 0, !.on = "none", !.serverRun = "none"]

Request(s, backend) ==
    [kind |-> "simulate", id |-> s.lastId + 1, question |-> s.pending,
     fromColumn |-> s.dirty, to |-> backend]

Dispatch(s) ==
    LET backend == IF NeedsServer(s.pending) THEN "server" ELSE "worker"
        free == Disown(s)
    IN  IF s.pending = NoQuestion THEN [s EXCEPT !.timer = FALSE]
        ELSE [free EXCEPT !.timer = FALSE, !.lastId = @ + 1, !.inFlight = s.lastId + 1,
                          !.on = backend, !.pending = NoQuestion, !.sinceDispatch = Clean,
                          !.serverRun = IF backend = "server" THEN "submitting" ELSE "none",
                          !.request = Request(s, backend)]

Refuse(s, code) ==
    [Disown([s EXCEPT !.timer = FALSE, !.pending = NoQuestion])
        EXCEPT !.outcome = NoOutcome, !.failure = code]

Schedule(s, question) ==
    LET first == s.last = NoQuestion
        changed == IF first THEN 0 ELSE EarliestChangedColumn(s.last, question)
        seen == [s EXCEPT !.last = question, !.dirty = Lowest(@, changed),
                          !.sinceDispatch = Lowest(@, changed)]
        asked == [seen EXCEPT !.pending = question, !.timer = TRUE]
    IN  IF changed = Clean /\ ~first /\ s.last.run = question.run THEN seen
        ELSE IF TooMuchSampling(question) THEN Refuse(seen, "sampling-too-large")
        ELSE IF NeedsServer(question) /\ ~s.hasServer THEN Refuse(seen, "too-many-qubits")
        ELSE IF changed = Clean /\ OnlyScrubMoved(s.last.run, question.run) THEN Dispatch(asked)
        ELSE asked

\* Mutant: any answer is believed to have brought the worker's cache up to date.
ReceiveAllClean(s, answer) ==
    LET free == [s EXCEPT !.inFlight = 0, !.on = "none", !.serverRun = "none",
                          !.dirty = s.sinceDispatch, !.sinceDispatch = Clean]
    IN  IF answer.id # s.inFlight THEN s
        ELSE IF answer.kind = "error"
        THEN [free EXCEPT !.failure = "run-failed", !.outcome = NoOutcome]
        ELSE [free EXCEPT !.outcome = answer, !.failure = "none"]

\* Mutant: an answer is believed whatever request it belongs to.
ReceiveAny(s, answer) ==
    LET free == [s EXCEPT !.inFlight = 0, !.on = "none", !.serverRun = "none"]
    IN  IF answer.kind = "error"
        THEN [free EXCEPT !.failure = "run-failed", !.outcome = NoOutcome]
        ELSE [free EXCEPT !.outcome = answer, !.failure = "none"]

\* The staleness guard, and what an answer proves about the worker's cache:
\* only an analytic result does.
Receive(s, answer) ==
    LET free == [s EXCEPT !.inFlight = 0, !.on = "none", !.serverRun = "none"]
        caughtUp == IF answer.kind = "analytic"
                    THEN [free EXCEPT !.dirty = free.sinceDispatch, !.sinceDispatch = Clean]
                    ELSE free
    IN  IF answer.id # s.inFlight THEN s
        ELSE IF answer.kind = "error"
        THEN [free EXCEPT !.failure = "run-failed", !.outcome = NoOutcome]
        ELSE [caughtUp EXCEPT !.outcome = answer, !.failure = "none"]

Report(s, id, stage) == IF id = s.inFlight THEN [s EXCEPT !.serverRun = stage] ELSE s

\* Mutant: the slot is cleared and the backend that held it is not told.
FailSilently(s, code) ==
    [s EXCEPT !.inFlight = 0, !.on = "none", !.serverRun = "none",
              !.failure = code, !.outcome = NoOutcome]

Fail(s, code) ==
    IF s.inFlight = 0 /\ s.failure = code THEN s
    ELSE [Disown(s) EXCEPT !.failure = code, !.outcome = NoOutcome]

Cancel(s) == Disown([s EXCEPT !.timer = FALSE, !.pending = NoQuestion])

Reset(s) ==
    [s EXCEPT !.timer = FALSE, !.pending = NoQuestion, !.inFlight = 0, !.on = "none",
              !.serverRun = "none", !.last = NoQuestion, !.dirty = Clean,
              !.sinceDispatch = Clean]
=============================================================================
