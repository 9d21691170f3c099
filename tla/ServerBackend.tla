--------------------------- MODULE ServerBackend ---------------------------
(***************************************************************************)
(* The second backend of the editor: serverRun.ts drives one run of the    *)
(* API from its submission to its answer, polling it and listening to the  *)
(* progress feed.  A call that was sent stays in `calls` until it answers, *)
(* also when its run has been released: that answer is then ignored.       *)
(***************************************************************************)
EXTENDS SimulationScheduler

VARIABLES
    live,     \* the run being driven
    calls,    \* requests to the API that have not answered
    ended     \* runs the API has finished

backendVars == <<live, calls, ended>>

NoLive == [id |-> 0, question |-> NoQuestion, stage |-> "none", polling |-> "no"]

BackendInit == live = NoLive /\ calls = {} /\ ended = {}

Call(kind, run) == [kind |-> kind, id |-> run.id, question |-> run.question]

\* dispatch: a cancel releases the run it names and no other; a request
\* releases whatever is driven and submits.
Dispatched(message) ==
    IF message.kind = "cancel"
    THEN /\ live' = IF live.id = message.id THEN NoLive ELSE live
         /\ calls' = calls
    ELSE LET run == [id |-> message.id, question |-> message.question,
                     stage |-> "submitting", polling |-> "no"]
         IN  live' = run /\ calls' = calls \cup {Call("submit", run)}

ServerResult(call) ==
    [kind |-> "server", id |-> call.id, question |-> call.question,
     state |-> StateAfter(call.question.circuit, Whole)]

\* A step of the scheduler: what it sends is posted to the worker, the cancel
\* first, or handled by the backend at once; a request to the backend gives up
\* the run the cancel names.
Posted(message) == IF message.to = "worker" THEN <<message>> ELSE <<>>

Post(s) ==
    /\ sched' = [s EXCEPT !.cancel = NoMessage, !.request = NoMessage]
    /\ toWorker' = toWorker \o Posted(s.cancel) \o Posted(s.request)
    /\ IF s.request.to = "server" THEN Dispatched(s.request)
       ELSE IF s.cancel.to = "server" THEN Dispatched(s.cancel)
       ELSE UNCHANGED <<live, calls>>

\* The driven run ends with an answer for the scheduler.
ReleaseWith(answer) ==
    live' = NoLive /\ sched' = Receive(sched, answer)

Nothing == UNCHANGED <<live, sched>>

-----------------------------------------------------------------------------
\* start, after the await of POST /simulate.
Submitted(call, finished) ==
    /\ call.kind = "submit"
    /\ calls' = calls \ {call}
    /\ ended' = IF finished THEN ended \cup {call.id} ELSE ended
    /\ IF live.id # call.id THEN Nothing
       ELSE IF finished THEN ReleaseWith(ServerResult(call))
       ELSE /\ live' = [live EXCEPT !.stage = "watching", !.polling = "armed"]
            /\ sched' = Report(sched, call.id, "watching")

SubmissionRefused(call) ==
    /\ call.kind = "submit"
    /\ calls' = calls \ {call}
    /\ IF live.id # call.id THEN Nothing ELSE ReleaseWith(ErrorFor(call))
    /\ UNCHANGED ended

PollTick ==
    /\ live.polling = "armed"
    /\ live' = [live EXCEPT !.polling = "reading"]
    /\ calls' = calls \cup {Call("poll", live)}
    /\ UNCHANGED <<sched, ended>>

\* The feed confirms the subscription or says the run is complete: both read
\* the run.
FeedSpeaks ==
    /\ live.stage = "watching"
    /\ Call("feed", live) \notin calls
    /\ calls' = calls \cup {Call("feed", live)}
    /\ UNCHANGED <<live, sched, ended>>

FeedRefuses ==
    /\ live.stage = "watching"
    /\ ReleaseWith(ErrorFor(live))
    /\ UNCHANGED <<calls, ended>>

\* settle, after the await of GET /simulate/:runId; the poll that asked is
\* armed again unless the run is over.
Rearmed(call) == live' = [live EXCEPT !.polling = IF call.kind = "poll" THEN "armed" ELSE @]

Settled(call) ==
    /\ call.kind \in {"poll", "feed"}
    /\ calls' = calls \ {call}
    /\ IF live.id # call.id THEN Nothing
       ELSE IF call.id \in ended THEN ReleaseWith(ServerResult(call))
       ELSE Rearmed(call) /\ sched' = Report(sched, call.id, "watching")
    /\ UNCHANGED ended

ReadFails(call, gone) ==
    /\ call.kind \in {"poll", "feed"}
    /\ calls' = calls \ {call}
    /\ IF live.id # call.id THEN Nothing
       ELSE IF gone THEN ReleaseWith(ErrorFor(call))
       ELSE Rearmed(call) /\ UNCHANGED sched
    /\ UNCHANGED ended

\* The API ends a run it has accepted.
RunEnds ==
    /\ live.stage = "watching" /\ live.id \notin ended
    /\ ended' = ended \cup {live.id}
    /\ UNCHANGED <<live, calls, sched>>
=============================================================================
