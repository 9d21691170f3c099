---------------------------- MODULE RelaySession ----------------------------
(***************************************************************************)
(* The relay's end of the sockets of one circuit's session:                *)
(* apps/api/src/ws/session.ts, the collaboration channel of it, and the    *)
(* queue of apps/api/src/routes/ws.ts, which hands a socket's frames to it *)
(* one at a time.  The document behind it is what apps/api/src/ws/         *)
(* documents.ts keeps (module DocumentRegistry), here the edits it holds.  *)
(*                                                                         *)
(* A client has one connection after another; connections[c] is all of     *)
(* them, and the last is the one it may still read from.  up and down are  *)
(* the frames on the wire.                                                 *)
(***************************************************************************)
EXTENDS CollabClient

CONSTANTS
    Clients,       \* the browsers
    MaxPending     \* MAX_COLLAB_PENDING_DELIVERIES

ASSUME PendingAssumption == MaxPending \in Nat \ {0}

VARIABLES
    connections,    \* per client: its connections, the oldest first
    document,       \* the edits the shared document holds
    grants          \* [owner, public]: who owns the circuit, and whether anybody may watch

relayVars == <<connections, document, grants>>

NotAttached == [access |-> "none", fresh |-> FALSE, peer |-> FALSE, queue |-> <<>>]

\* The first frame says that nobody has authenticated yet.
Accepted == [open |-> TRUE, viewer |-> Anonymous, expired |-> FALSE, busy |-> "idle",
             since |-> {}, found |-> "none", att |-> NotAttached,
             up |-> <<>>, down |-> <<[type |-> "ready", viewer |-> Anonymous]>>]

RelayInit == connections = [c \in Clients |-> <<>>] /\ document = {}

Ids == UNION {{<<c, n>> : n \in DOMAIN connections[c]} : c \in Clients}
At(id) == connections[id[1]][id[2]]

\* readCircuit: the owner writes, and whoever may see the circuit watches.
ReadCircuit(viewer) ==
    IF viewer = grants.owner THEN "write" ELSE IF grants.public THEN "read" ELSE "none"

Attached(s) == s.att # NotAttached

Say(s, frame) == IF s.open THEN [s EXCEPT !.down = Append(@, frame)] ELSE s
FailCircuit(s, code) == Say(s, [type |-> "refused", code |-> code])

EndAttachment(s, reason) ==
    IF Attached(s) THEN Say([s EXCEPT !.att = NotAttached], [type |-> "left", reason |-> reason])
    ELSE s

\* shut, and the close of the socket it leads to.
Shut(s) == [Say(s, [type |-> "close"]) EXCEPT !.open = FALSE, !.att = NotAttached, !.up = <<>>]

\* The socket is gone; what it was waiting for is still to come.
Close(s) == [s EXCEPT !.open = FALSE, !.att = NotAttached, !.up = <<>>, !.down = <<>>]

\* stillAttached: the decision is asked for again once it is older than the TTL,
\* here by what is on its way to a peer, which waits for the answer.
Rechecked(s) ==
    IF s.att.fresh THEN s
    ELSE [s EXCEPT !.att.access = ReadCircuit(s.viewer), !.att.fresh = TRUE]
StillAttached(s) == ~s.expired /\ Rechecked(s).att.access # "none"

\* The sessions after a step, and the document.
Become(after, edits) ==
    /\ connections' = [c \in Clients |-> [n \in DOMAIN connections[c] |-> after[<<c, n>>]]]
    /\ document' = edits
    /\ UNCHANGED grants

One(id, s) == Become([i \in Ids |-> IF i = id THEN s ELSE At(i)], document)

-----------------------------------------------------------------------------
\* Mutant: a peer that falls behind misses what there is no room for.
DeliverLossy(s, edits) ==
    IF ~s.att.peer \/ Len(s.att.queue) >= MaxPending THEN s
    ELSE [s EXCEPT !.att.queue = Append(@, edits)]

\* deliver: an update queues behind the check of the one before it.
Deliver(s, edits) ==
    IF ~s.att.peer THEN s
    ELSE IF Len(s.att.queue) >= MaxPending THEN EndAttachment(s, "overloaded")
    ELSE [s EXCEPT !.att.queue = Append(@, edits)]

DeliverUpdate(id) ==
    LET s == At(id)
        next == [s EXCEPT !.att.queue = Tail(@)]
    IN  /\ s.att.queue # <<>>
        /\ One(id, IF s.expired THEN Shut(s)
                   ELSE IF ~StillAttached(s) THEN EndAttachment(s, "unauthorised")
                   ELSE Say(Rechecked(next), [type |-> "update", edits |-> Head(s.att.queue)]))

\* A database that does not answer keeps what was decided before, which is as
\* old as it was.
DeliverUnchecked(id) ==
    LET s == At(id)
        next == [s EXCEPT !.att.queue = Tail(@)]
    IN  /\ s.att.queue # <<>> /\ ~s.expired /\ ~s.att.fresh
        /\ One(id, Say(next, [type |-> "update", edits |-> Head(s.att.queue)]))

\* sweep: a silent peer is asked about too, behind what is being delivered.
Sweep(id) ==
    LET s == At(id)
    IN  /\ s.open /\ s.att.queue = <<>>
        /\ s.expired \/ (Attached(s) /\ ~s.att.fresh)
        /\ One(id, IF s.expired THEN Shut(s)
                   ELSE IF StillAttached(s) THEN Rechecked(s)
                   ELSE EndAttachment(s, "unauthorised"))

-----------------------------------------------------------------------------
\* The next frame of a socket, which is handled when the last one is done.
Frame(id, type) ==
    /\ At(id).busy = "idle" /\ At(id).up # <<>>
    /\ Head(At(id).up).type = type
Taken(s) == [s EXCEPT !.up = Tail(@)]

\* Whatever an expired credential asks for, the socket is closed instead.
Alive(s, then) == IF s.expired THEN Shut(s) ELSE then

Authenticate(id) ==
    LET s == Taken(At(id))
        viewer == Head(At(id).up).viewer
    IN  /\ Frame(id, "authenticate")
        /\ One(id, Alive(s, Say([s EXCEPT !.viewer = viewer], [type |-> "ready", viewer |-> viewer])))

\* A token that does not verify; the socket stays anonymous.
AuthenticateFails(id) ==
    /\ Frame(id, "authenticate")
    /\ One(id, Alive(Taken(At(id)), Say(Taken(At(id)), [type |-> "error"])))

JoinFrame(id) ==
    LET s == Taken(At(id))
    IN  /\ Frame(id, "join")
        /\ One(id, Alive(s, [s EXCEPT !.busy = "reading", !.since = Head(At(id).up).since,
                                     !.found = ReadCircuit(s.viewer)]))

\* The end of what a socket waited for.
Done(s) == [s EXCEPT !.busy = "idle", !.found = "none"]

Joined(s) ==
    Say(s, [type |-> "joined", access |-> s.att.access,
            update |-> document \ s.since, vector |-> document])

\* Mutant: a socket that is attached is not told again.
JoinDecidedOnce(id) ==
    LET s == Done(At(id))
        access == At(id).found
    IN  /\ At(id).busy = "reading"
        /\ One(id, IF access = "none"
                   THEN EndAttachment(FailCircuit(s, "NOT_FOUND"), "unauthorised")
                   ELSE IF Attached(s) THEN s
                   ELSE [s EXCEPT !.busy = "building",
                                  !.att = [NotAttached EXCEPT !.access = access, !.fresh = TRUE]])

\* The decision arrives, as it was when it was asked for; a socket that is
\* attached is told again, and one that went away in the meantime goes on to
\* attach all the same.
JoinDecided(id) ==
    LET s == Done(At(id))
        access == At(id).found
    IN  /\ At(id).busy = "reading"
        /\ One(id, IF access = "none"
                   THEN EndAttachment(FailCircuit(s, "NOT_FOUND"), "unauthorised")
                   ELSE IF Attached(s)
                   THEN Joined([s EXCEPT !.att.access = access, !.att.fresh = TRUE])
                   ELSE [s EXCEPT !.busy = "building",
                                  !.att = [NotAttached EXCEPT !.access = access, !.fresh = TRUE]])

JoinUnreadable(id) ==
    /\ At(id).busy = "reading"
    /\ One(id, FailCircuit(Done(At(id)), "DATABASE_UNAVAILABLE"))

\* Mutant: an attachment is kept for whoever went away while it was built.
JoinAttachesAnyway(id) ==
    LET s == [At(id) EXCEPT !.busy = "idle"]
    IN  /\ At(id).busy = "building"
        /\ One(id, Joined([s EXCEPT !.att.peer = TRUE]))

\* The document answers; if the attachment was ended or the socket closed in
\* the meantime, the peer is let go again.
JoinAttaches(id) ==
    LET s == [At(id) EXCEPT !.busy = "idle"]
    IN  /\ At(id).busy = "building"
        /\ One(id, IF Attached(s) /\ s.open THEN Joined([s EXCEPT !.att.peer = TRUE])
                   ELSE [s EXCEPT !.att = NotAttached])

JoinRefused(id, code) ==
    /\ At(id).busy = "building"
    /\ One(id, FailCircuit([At(id) EXCEPT !.busy = "idle", !.att = NotAttached], code))

-----------------------------------------------------------------------------
\* update asks again about a decision that is older than the TTL, and the frame
\* waits for the answer.
UpdateAsks(id) ==
    LET s == At(id)
    IN  /\ Frame(id, "update") /\ ~s.expired /\ Attached(s) /\ ~s.att.fresh
        /\ One(id, [s EXCEPT !.busy = "checking", !.found = ReadCircuit(s.viewer)])

\* A re-check the database does not answer keeps what was decided before, as
\* old as it was: the next use asks again.
RecheckFails(id) ==
    /\ At(id).busy = "checking" /\ At(id).found # "unknown"
    /\ One(id, [At(id) EXCEPT !.found = "unknown"])

\* Mutant: the re-check asks whether the circuit may be seen, and no more.
AnsweredReadable(s) ==
    IF s.busy # "checking" \/ s.found = "unknown" \/ ~Attached(s) THEN s
    ELSE IF s.found = "none" THEN EndAttachment(s, "unauthorised")
    ELSE [s EXCEPT !.att.fresh = TRUE]

\* What the answer makes of the attachment, if it is still there.
Answered(s) ==
    IF s.busy # "checking" \/ s.found = "unknown" \/ ~Attached(s) THEN s
    ELSE IF s.found = "none" THEN EndAttachment(s, "unauthorised")
    ELSE [s EXCEPT !.att.access = s.found, !.att.fresh = TRUE]

\* An update that has nothing to wait for, or no longer: after the answer only
\* the attachment and the socket are looked at, not the credential.
UpdateFrame(id) ==
    LET s == At(id)
    IN  \/ Frame(id, "update") /\ (s.expired \/ ~Attached(s) \/ s.att.fresh)
        \/ s.busy = "checking" /\ s.open

\* What update finds before it touches the document.
Writes(s) ==
    /\ s.busy = "checking" \/ ~s.expired
    /\ Attached(Answered(s)) /\ Answered(s).att.access = "write"

Handled(s) == Done(Taken(Answered(s)))

UpdateRefused(id) ==
    LET s == At(id)
        after == Handled(s)
    IN  /\ UpdateFrame(id) /\ ~Writes(s)
        /\ One(id, IF s.busy = "idle" /\ s.expired THEN Shut(Taken(s))
                   ELSE IF Attached(after) THEN FailCircuit(after, "FORBIDDEN") ELSE after)

\* An accepted update goes to every other peer.
UpdateApplied(id) ==
    LET edits == Head(At(id).up).edits
    IN  /\ UpdateFrame(id) /\ Writes(At(id))
        /\ Become([i \in Ids |-> IF i = id THEN Handled(At(i)) ELSE Deliver(At(i), edits)],
                  document \cup edits)

UpdateTooLarge(id) ==
    /\ UpdateFrame(id) /\ Writes(At(id))
    /\ One(id, FailCircuit(Handled(At(id)), "PAYLOAD_TOO_LARGE"))

\* The answer finds the socket closed.
CheckIsLate(id) ==
    /\ At(id).busy = "checking" /\ ~At(id).open
    /\ One(id, Done(At(id)))

\* A frame too many: the socket is closed behind it.
Overloaded(id) ==
    /\ At(id).open /\ At(id).busy = "idle" /\ At(id).up # <<>>
    /\ One(id, Shut(At(id)))

\* The document is let go: every peer is told, and the next build starts from
\* the row, or without it from the last version.
Gone(s) == IF s.att.peer THEN EndAttachment(s, "gone") ELSE s
DocumentGone(edits) == Become([i \in Ids |-> Gone(At(i))], edits)

\* The update that takes it past its ceiling, which is answered besides.
UpdateOvergrows(id) ==
    /\ UpdateFrame(id) /\ Writes(At(id))
    /\ Become([i \in Ids |-> IF i = id THEN FailCircuit(Gone(Handled(At(i))), "CIRCUIT_TOO_LARGE")
                             ELSE Gone(At(i))], {})

Leave(id) ==
    /\ Frame(id, "leave")
    /\ One(id, Alive(Taken(At(id)), [Taken(At(id)) EXCEPT !.att = NotAttached]))

\* The client closed the socket: what it sent before and is not handled yet
\* finds the session closed.
Bye(id) ==
    /\ At(id).up # <<>> /\ At(id).up[Len(At(id).up)].type = "bye"
    /\ One(id, Close(At(id)))

\* Time passes; a decision that would be the same again is as good as fresh.
Age(id) ==
    /\ Attached(At(id)) /\ At(id).att.fresh /\ At(id).att.access # ReadCircuit(At(id).viewer)
    /\ One(id, [At(id) EXCEPT !.att.fresh = FALSE])

Expires(id) ==
    /\ At(id).open /\ ~At(id).expired /\ At(id).viewer # Anonymous
    /\ One(id, [At(id) EXCEPT !.expired = TRUE])
=============================================================================
