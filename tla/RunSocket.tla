----------------------------- MODULE RunSocket -----------------------------
(***************************************************************************)
(* The browser's end of /ws for runs: apps/web/src/features/simulation/    *)
(* runSocket.ts, with what the server run of serverRun.ts does when it is  *)
(* called back (the rest of serverRun.ts is module ServerBackend).  A tab  *)
(* is one record and its handlers map a record to a record; the frames     *)
(* they send are collected in `out`.                                       *)
(***************************************************************************)
EXTENDS Naturals, Sequences, SequencesExt

CONSTANTS
    Runs,          \* the runs there are
    Anonymous      \* the viewer of a socket that presented no token

\* wanted survives a connection, claimed belongs to one; told are the runs the
\* tab was made to read after they had ended, refused those it gave up.
Unwatched == [wanted |-> {}, claimed |-> {}, socket |-> "none", asking |-> FALSE,
              awaiting |-> FALSE, retry |-> FALSE, told |-> {}, refused |-> {}, out |-> <<>>]

Send(k, frame) == IF k.socket = "open" THEN [k EXCEPT !.out = Append(@, frame)] ELSE k

\* Everything that is wanted and not claimed yet, in the order of the table.
SubscribeAll(k) ==
    LET asked == SetToSeq(k.wanted \ k.claimed)
        frames == [i \in DOMAIN asked |-> [type |-> "subscribe", run |-> asked[i]]]
    IN  [k EXCEPT !.claimed = @ \cup k.wanted,
                  !.out = IF k.socket = "open" THEN @ \o frames ELSE @]

Connect(k) == [k EXCEPT !.retry = FALSE, !.socket = IF @ = "none" THEN "opening" ELSE @]
Retry(k) == [k EXCEPT !.retry = @ \/ k.wanted # {}]

\* Mutant: what was claimed on the last connection is not claimed again.
OfflineClaimed(k) == [k EXCEPT !.socket = "none", !.asking = FALSE, !.awaiting = FALSE]

\* What a connection had is forgotten with it.
Offline(k) == [k EXCEPT !.socket = "none", !.claimed = {}, !.asking = FALSE, !.awaiting = FALSE]

OnOpen(k) == [k EXCEPT !.socket = "open", !.asking = TRUE]

\* getToken: with one the subscriptions wait for the ready frame that answers it.
OnToken(k, viewer) ==
    LET s == [k EXCEPT !.asking = FALSE]
    IN  IF viewer = Anonymous THEN SubscribeAll(s)
        ELSE Send([s EXCEPT !.awaiting = TRUE], [type |-> "authenticate", viewer |-> viewer])

\* A close is retried, unless it says that this build breaks the protocol.
OnClose(k, code) == IF code = "PROTOCOL" THEN Offline(k) ELSE Retry(Offline(k))

\* The last watcher has gone.
Teardown(k) == Offline([Send(k, [type |-> "bye"]) EXCEPT !.retry = FALSE])

Watch(k, run) ==
    LET s == [k EXCEPT !.wanted = @ \cup {run}]
    IN  IF s.socket = "none" THEN Connect(s)
        ELSE IF s.socket = "open" /\ ~s.awaiting THEN SubscribeAll(s) ELSE s

Unwatch(k, run) ==
    LET s == Send([k EXCEPT !.wanted = @ \ {run}, !.claimed = @ \ {run}],
                  [type |-> "unsubscribe", run |-> run])
    IN  IF s.wanted = {} THEN Teardown(s) ELSE s

\* onResync and onComplete: the run is read.
Read(k, run, ended) == IF run \in k.wanted \cap ended THEN [k EXCEPT !.told = @ \cup {run}] ELSE k

\* onRefused: the run is given up.
Refused(k, run) ==
    IF run \in k.wanted THEN Unwatch([k EXCEPT !.refused = @ \cup {run}], run) ELSE k

Ready(k, viewer) ==
    IF k.awaiting /\ viewer = Anonymous THEN k ELSE SubscribeAll([k EXCEPT !.awaiting = FALSE])

Handle(k, frame, ended) ==
    CASE frame.type = "ready" -> Ready(k, frame.viewer)
      [] frame.type \in {"subscribed", "complete"} -> Read(k, frame.run, ended)
      [] frame.type = "unsubscribed" ->
            IF frame.reason = "unauthorised" THEN Refused(k, frame.run) ELSE k
      [] frame.type = "invalid" -> SubscribeAll([k EXCEPT !.awaiting = FALSE])
      [] frame.type = "error" -> Refused(k, frame.run)
      [] OTHER -> k
=============================================================================
