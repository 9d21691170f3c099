---------------------------- MODULE CollabClient ----------------------------
(***************************************************************************)
(* The browser's end of a shared session:                                  *)
(* apps/web/src/features/collab/collabSession.ts.  A session is one record *)
(* and its handlers map a record to a record; the frames they send are     *)
(* collected in `out`, which the step that called them puts on the wire.   *)
(*                                                                         *)
(* A document is the set of the edits it holds: the merge of two documents *)
(* is their union, and a state vector is the set itself.                   *)
(***************************************************************************)
EXTENDS Naturals, Sequences

CONSTANTS
    Anonymous,     \* the viewer of a socket that presented no token
    MaxRejoins     \* MAX_REJOIN_ATTEMPTS

ASSUME RejoinsAssumption == MaxRejoins \in Nat

Connecting == [status |-> "connecting", ended |-> "none", reconciled |-> TRUE,
               socket |-> "opening", ready |-> FALSE, asking |-> FALSE, awaiting |-> FALSE,
               joined |-> FALSE, joinRequested |-> FALSE, everJoined |-> FALSE,
               access |-> "none", finished |-> FALSE, retry |-> FALSE,
               rejoin |-> FALSE, rejoins |-> 0,
               doc |-> {}, bridged |-> FALSE, carried |-> FALSE,
               pending |-> {}, flush |-> FALSE, out |-> <<>>]

Coming(k) == IF k.everJoined THEN "reconnecting" ELSE "connecting"

Send(k, frame) == IF k.ready THEN [k EXCEPT !.out = Append(@, frame)] ELSE k

SendUpdate(k, edits) == Send(k, [type |-> "update", edits |-> edits])

\* What accumulated leaves as one update, or is left to the next join.
Flush(k) ==
    LET empty == [k EXCEPT !.flush = FALSE, !.pending = {}]
    IN  IF k.pending # {} /\ k.joined /\ k.access = "write"
        THEN SendUpdate(empty, k.pending) ELSE empty

\* An edit reaches the document; it travels at once, or within the window.
OnLocalUpdate(k, edit) ==
    LET made == [k EXCEPT !.doc = @ \cup {edit}]
        queued == [made EXCEPT !.pending = @ \cup {edit}]
    IN  IF k.finished \/ ~k.joined \/ k.access # "write" THEN {made}
        ELSE {Flush(queued), [queued EXCEPT !.flush = TRUE]}

Join(k) ==
    IF k.finished \/ ~k.ready \/ k.joined \/ k.joinRequested THEN k
    ELSE Send([k EXCEPT !.joinRequested = TRUE],
              [type |-> "join", since |-> IF k.bridged THEN k.doc ELSE {}])

-----------------------------------------------------------------------------
CloseSocket(k) ==
    LET closed == [k EXCEPT !.socket = "none", !.ready = FALSE, !.asking = FALSE,
                            !.retry = FALSE, !.rejoin = FALSE]
    IN  IF k.socket # "open" THEN closed
        ELSE [closed EXCEPT !.out = Append(@, [type |-> "bye"])]

LeaveChannel(k) ==
    [IF k.joined THEN Send(k, [type |-> "leave"]) ELSE k EXCEPT !.joined = FALSE]

Teardown(k) ==
    [CloseSocket(LeaveChannel(Flush([k EXCEPT !.finished = TRUE])))
        EXCEPT !.pending = {}, !.flush = FALSE, !.access = "none"]

End(k, reason) ==
    IF k.finished THEN k
    ELSE [Teardown(k) EXCEPT !.status = "ended", !.ended = reason]

\* An ending keeps the bridge, so a session that ended can still be stopped.
Stop(k) == IF k.finished THEN k ELSE [Teardown(k) EXCEPT !.status = "off"]

\* Mutant: a session that was dropped waits for somebody to ask again.
RejoinIdle(k, reason) ==
    IF k.finished \/ k.rejoin THEN k
    ELSE IF k.rejoins >= MaxRejoins THEN End(k, reason)
    ELSE [k EXCEPT !.rejoins = @ + 1, !.status = Coming(k)]

Rejoin(k, reason) ==
    IF k.finished \/ k.rejoin THEN k
    ELSE IF k.rejoins >= MaxRejoins THEN End(k, reason)
    ELSE [k EXCEPT !.rejoins = @ + 1, !.rejoin = TRUE, !.status = Coming(k)]

\* armJoin: a join nobody answered is sent again, and the next one armed.
RejoinFires(k) == Join([k EXCEPT !.joinRequested = FALSE])

-----------------------------------------------------------------------------
\* What the session lacks of this document.
Reconcile(k, vector) ==
    IF k.access = "write" /\ k.doc \ vector # {} THEN SendUpdate(k, k.doc \ vector) ELSE k

\* More offline work than one frame carries.
ReconcileTooLarge(k, vector) ==
    IF k.access = "write" /\ k.doc \ vector # {} THEN [k EXCEPT !.reconciled = FALSE] ELSE k

\* The served document is adopted, work made before the first join is carried
\* into it, and each side sends what the other lacks.
JoinedWith(k, frame, fits) ==
    LET carried == IF k.bridged THEN k.carried ELSE k.doc \ frame.update # {}
        open == [k EXCEPT !.doc = @ \cup frame.update, !.bridged = TRUE, !.carried = carried,
                          !.joined = TRUE, !.joinRequested = FALSE, !.everJoined = TRUE,
                          !.access = frame.access, !.rejoin = FALSE,
                          !.status = "open", !.ended = "none", !.reconciled = TRUE]
        sent == IF fits THEN Reconcile(open, frame.vector) ELSE ReconcileTooLarge(open, frame.vector)
    IN  IF carried /\ frame.access # "write" THEN [sent EXCEPT !.reconciled = FALSE] ELSE sent

LeftBy(k, reason) ==
    LET left == [k EXCEPT !.joined = FALSE, !.joinRequested = FALSE,
                          !.pending = {}, !.flush = FALSE]
    IN  IF reason = "unauthorised" THEN End(left, "unauthorised") ELSE Rejoin(left, reason)

Refused(k, code) ==
    CASE code = "FORBIDDEN" -> [k EXCEPT !.access = "read", !.pending = {}, !.flush = FALSE]
      [] code = "PAYLOAD_TOO_LARGE" -> [k EXCEPT !.reconciled = FALSE]
      [] code = "DATABASE_UNAVAILABLE" ->
            Rejoin([k EXCEPT !.joined = FALSE, !.joinRequested = FALSE], "unavailable")
      [] code \in {"NOT_FOUND", "CIRCUIT_TOO_LARGE"} -> End(k, "unavailable")

Ready(k, viewer) ==
    IF k.awaiting /\ viewer = Anonymous THEN k ELSE Join([k EXCEPT !.awaiting = FALSE])

\* Bytes reach a document only once there is one.
Handle(k, frame, fits) ==
    CASE frame.type = "ready" -> Ready(k, frame.viewer)
      [] frame.type = "joined" -> JoinedWith(k, frame, fits)
      [] frame.type = "update" ->
            IF k.bridged THEN [k EXCEPT !.doc = @ \cup frame.edits] ELSE k
      [] frame.type = "left" -> LeftBy(k, frame.reason)
      [] frame.type = "refused" -> Refused(k, frame.code)
      [] frame.type = "error" -> Join([k EXCEPT !.awaiting = FALSE])

-----------------------------------------------------------------------------
\* connect: another connection, and whatever the last one asked for is stale.
Connect(k) ==
    [k EXCEPT !.retry = FALSE, !.socket = "opening", !.asking = FALSE, !.status = Coming(k)]

OnOpen(k) == [k EXCEPT !.socket = "open", !.ready = TRUE, !.rejoins = 0, !.asking = TRUE]

\* getToken resolved; Anonymous stands for no token, and for none available.
OnToken(k, token) ==
    LET told == [k EXCEPT !.asking = FALSE]
    IN  IF token = Anonymous THEN Join(told)
        ELSE Send([told EXCEPT !.awaiting = TRUE], [type |-> "authenticate", viewer |-> token])

OnClose(k) ==
    LET closed == [k EXCEPT !.ready = FALSE, !.socket = "none", !.joined = FALSE,
                            !.joinRequested = FALSE, !.awaiting = FALSE,
                            !.pending = {}, !.flush = FALSE, !.rejoin = FALSE]
    IN  IF k.finished THEN closed
        ELSE [closed EXCEPT !.retry = TRUE, !.status = Coming(k)]
=============================================================================
