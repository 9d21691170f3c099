--------------------------- MODULE CollabSession ---------------------------
(***************************************************************************)
(* Browsers in the shared session of one circuit, the sockets that drop    *)
(* and the relay that ends, refuses and forgets them.                      *)
(***************************************************************************)
EXTENDS RelaySession

CONSTANTS
    Owners,          \* the users the circuit may belong to
    Settings,        \* [people, owner, public, edits, incidents]: who is at each
                     \* browser, whose circuit it is, what may be edited, and a bound
                     \* on what goes wrong or changes
    MaxDown          \* bound: frames in flight when a rejoin timer fires again

ASSUME OwnersAssumption == Anonymous \notin Owners /\ \A s \in Settings : s.owner \in Owners

VARIABLES
    setting,    \* the setting of this behaviour
    sessions,   \* the session of each browser
    edited,     \* edits somebody made
    barred,     \* <<user, edit>>: made by a user who had lost the circuit
    spent       \* incidents so far

vars == <<relayVars, setting, sessions, edited, barred, spent>>

Init ==
    /\ RelayInit
    /\ setting \in Settings
    /\ grants = [owner |-> setting.owner, public |-> setting.public]
    /\ sessions = [c \in Clients |-> IF c \in DOMAIN setting.people THEN Connecting ELSE Stop(Connecting)]
    /\ edited = {} /\ barred = {} /\ spent = 0

Current(c) == <<c, Len(connections[c])>>

\* What a browser became, and the frames it put on its connection.
Client(c, k, connection) ==
    LET s == connection
        sent == IF s.open THEN [s EXCEPT !.up = @ \o k.out] ELSE s
    IN  /\ sessions' = [sessions EXCEPT ![c] = [k EXCEPT !.out = <<>>]]
        /\ IF connections[c] = <<>> THEN UNCHANGED relayVars
           ELSE One(Current(c), IF k.socket = "none" THEN [sent EXCEPT !.down = <<>>] ELSE sent)
        /\ UNCHANGED setting

Same == UNCHANGED <<edited, barred, spent>>
Relay == UNCHANGED <<setting, sessions, edited, barred>>
Incident == spent < setting.incidents /\ spent' = spent + 1

-----------------------------------------------------------------------------
\* The socket opens, and the relay accepts it.
SocketOpens ==
    \E c \in Clients :
        /\ sessions[c].socket = "opening"
        /\ sessions' = [sessions EXCEPT ![c] = OnOpen(@)]
        /\ connections' = [connections EXCEPT ![c] = Append(@, Accepted)]
        /\ UNCHANGED <<document, grants, setting>> /\ Same

TokenArrives ==
    \E c \in Clients :
        /\ sessions[c].asking
        /\ Client(c, OnToken(sessions[c], setting.people[c]), At(Current(c)))
        /\ Same

FrameArrives ==
    \E c \in Clients :
        LET s == At(Current(c))
            rest == [s EXCEPT !.down = Tail(@)]
        IN  /\ sessions[c].socket = "open" /\ s.down # <<>>
            /\ IF Head(s.down).type = "close" THEN Client(c, OnClose(sessions[c]), Close(s))
               ELSE Client(c, Handle(sessions[c], Head(s.down), TRUE), rest)
            /\ Same

FlushFires ==
    \E c \in Clients :
        sessions[c].flush /\ Client(c, Flush(sessions[c]), At(Current(c))) /\ Same

RetryFires ==
    \E c \in Clients :
        sessions[c].retry /\ Client(c, Connect(sessions[c]), At(Current(c))) /\ Same

\* The backoff grows, so few frames are in flight when it fires again.
RejoinTimer ==
    \E c \in Clients :
        /\ sessions[c].rejoin
        /\ At(Current(c)).up = <<>> /\ Len(At(Current(c)).down) < MaxDown
        /\ Client(c, RejoinFires(sessions[c]), At(Current(c)))
        /\ Same

\* A user has lost the circuit who does not own it, when no decision in their
\* favour is less than the TTL old or on its way from the database.
HasLost(user) ==
    /\ user # grants.owner
    /\ \A id \in Ids : At(id).viewer = user =>
          /\ ~(At(id).att.fresh /\ At(id).att.access = "write")
          /\ At(id).found # "write"

\* The reader of a circuit somebody else may write is shown no editor.
Edits ==
    \E c \in Clients, edit \in setting.edits \ edited :
        /\ sessions[c].access # "read" /\ sessions[c].status # "off"
        /\ \E k \in OnLocalUpdate(sessions[c], edit) : Client(c, k, At(Current(c)))
        /\ edited' = edited \cup {edit} /\ UNCHANGED spent
        /\ barred' = IF HasLost(setting.people[c]) THEN barred \cup {<<setting.people[c], edit>>} ELSE barred

-----------------------------------------------------------------------------
RelayReads ==
    \E id \in Ids : (Authenticate(id) \/ JoinFrame(id) \/ Leave(id) \/ Bye(id)) /\ Relay /\ UNCHANGED spent
RelayDecides == \E id \in Ids : (JoinDecided(id) \/ JoinAttaches(id)) /\ Relay /\ UNCHANGED spent
RelayWrites ==
    \E id \in Ids :
        (UpdateAsks(id) \/ UpdateRefused(id) \/ UpdateApplied(id) \/ CheckIsLate(id)) /\ Relay /\ UNCHANGED spent
RelayDelivers == \E id \in Ids : (DeliverUpdate(id) \/ DeliverUnchecked(id)) /\ Relay /\ UNCHANGED spent
RelaySweeps == \E id \in Ids : Sweep(id) /\ Relay /\ UNCHANGED spent

\* The database is not to be had, for as long as it takes: what is let in on a
\* decision of any age is let in.
RechecksFail ==
    /\ UNCHANGED <<setting, sessions, edited, spent>>
    /\ \E id \in Ids :
          /\ RecheckFails(id)
          /\ barred' = {w \in barred : At(id).open => w[2] \notin Head(At(id).up).edits}

Ages == \E id \in Ids : Age(id) /\ Relay /\ UNCHANGED spent

-----------------------------------------------------------------------------
\* The connection of a browser is lost, or is never made.
ConnectionDrops ==
    /\ Incident /\ UNCHANGED <<edited, barred>>
    /\ \E c \in Clients :
          \/ /\ sessions[c].socket = "open"
             /\ Client(c, OnClose(sessions[c]), Close(At(Current(c))))
          \/ /\ sessions[c].socket = "opening"
             /\ Client(c, OnClose(sessions[c]), At(Current(c)))

\* A reader leaves; the token of another is not to be had; what one wrote
\* offline is more than a frame carries.
ReaderStops ==
    /\ Incident /\ UNCHANGED <<edited, barred>>
    /\ \E c \in Clients :
          ~sessions[c].finished /\ Client(c, Stop(sessions[c]), At(Current(c)))

TokenFails ==
    /\ Incident /\ UNCHANGED <<edited, barred>>
    /\ \E c \in Clients :
          sessions[c].asking /\ Client(c, OnToken(sessions[c], Anonymous), At(Current(c)))

DeltaTooLarge ==
    /\ Incident /\ UNCHANGED <<edited, barred>>
    /\ \E c \in Clients :
          LET s == At(Current(c))
          IN  /\ sessions[c].socket = "open" /\ s.down # <<>> /\ Head(s.down).type = "joined"
              /\ Client(c, Handle(sessions[c], Head(s.down), FALSE), [s EXCEPT !.down = Tail(@)])

\* What the relay refuses, closes and cannot read.
RelayFails ==
    /\ Incident /\ Relay
    /\ \E id \in Ids :
          \/ AuthenticateFails(id) \/ JoinUnreadable(id)
          \/ \E code \in {"DATABASE_UNAVAILABLE", "CIRCUIT_TOO_LARGE"} : JoinRefused(id, code)
          \/ UpdateTooLarge(id) \/ UpdateOvergrows(id)
          \/ Overloaded(id) \/ Expires(id)

\* The document is let go, with its row or without.
DocumentDrops == Incident /\ Relay /\ \E edits \in {document, {}} : DocumentGone(edits)

\* The circuit is published, made private or given to somebody else.
GrantsChange ==
    /\ Incident /\ UNCHANGED <<setting, sessions, edited>>
    /\ \/ grants' = [grants EXCEPT !.public = ~@] /\ UNCHANGED barred
       \/ \E heir \in Owners \ {grants.owner} :
             /\ grants' = [grants EXCEPT !.owner = heir]
             /\ barred' = {w \in barred : w[1] # heir}
    /\ UNCHANGED <<connections, document>>

Next ==
    \/ SocketOpens \/ TokenArrives \/ FrameArrives \/ FlushFires \/ RetryFires \/ RejoinTimer \/ Edits
    \/ RelayReads \/ RelayDecides \/ RelayWrites \/ RelayDelivers \/ RelaySweeps \/ RechecksFail \/ Ages
    \/ ConnectionDrops \/ ReaderStops \/ TokenFails \/ DeltaTooLarge
    \/ RelayFails \/ DocumentDrops \/ GrantsChange

Spec == Init /\ [][Next]_vars

\* Sockets open, tokens and frames arrive, timers fire and the relay works.
Moves ==
    \/ SocketOpens \/ TokenArrives \/ FrameArrives \/ FlushFires \/ RetryFires \/ RejoinTimer
    \/ RelayReads \/ RelayDecides \/ RelayWrites \/ RelayDelivers
FairSpec == Spec /\ WF_vars(Moves)

-----------------------------------------------------------------------------
TypeOK ==
    /\ document \subseteq edited
    /\ \A c \in Clients :
          /\ sessions[c].status \in {"connecting", "open", "reconnecting", "ended", "off"}
          /\ sessions[c].pending \subseteq sessions[c].doc /\ sessions[c].doc \subseteq edited
          /\ sessions[c].rejoins \in 0 .. MaxRejoins
          /\ sessions[c].socket = "open" => connections[c] # <<>>
    /\ \A id \in Ids : Len(At(id).att.queue) <= MaxPending

\* Nothing is on its way between a browser and the relay.
Quiet(c) ==
    LET s == At(Current(c))
    IN  /\ sessions[c].socket = "open" /\ s.open
        /\ s.up = <<>> /\ s.down = <<>> /\ s.busy = "idle" /\ s.att.queue = <<>>
        /\ sessions[c].pending = {}

\* A browser that is joined, with nothing on its way, is attached, holds
\* everything the session holds, and has given everything it wrote to the
\* session or says that it has not.
JoinedIsTogether ==
    \A c \in Clients : sessions[c].joined /\ Quiet(c) =>
        /\ At(Current(c)).att.peer
        /\ document \subseteq sessions[c].doc
        /\ sessions[c].access = "write" /\ sessions[c].reconciled =>
              sessions[c].doc \subseteq document

\* "A status line that claims work is in progress when none is has to be
\* either true or gone": a browser that says it is connecting waits for a
\* timer, for a socket, for its token or for an answer that is on its way.
StatusIsTrue ==
    \A c \in Clients : sessions[c].status \in {"connecting", "reconnecting"} =>
        \/ sessions[c].retry \/ sessions[c].rejoin \/ sessions[c].asking
        \/ sessions[c].socket = "opening"
        \/ /\ sessions[c].socket = "open"
           /\ ~Quiet(c)

\* No attachment outlives its socket.
NobodyLingers == \A id \in Ids : At(id).att.peer => At(id).open

\* Together: what a frame, a timer or a reader may find.
SessionInvariant == TypeOK /\ NobodyLingers

\* "The decision is re-checked while the session runs": what somebody did after they had
\* lost the circuit stays out of the document, however long it waited, over
\* whatever connections it came and with whatever it is merged, until the
\* circuit is theirs again; only a re-check the database did not answer lets it in.
LostMeansReadOnly == \A w \in barred : w[2] \notin document

\* Whatever is lost, refused, dropped and revoked, every browser ends up in
\* the session or tells its reader that it is not.
EverySessionSettles ==
    <>[](\A c \in Clients : sessions[c].status \in {"open", "ended", "off"})

\* "Joining on the first would ask the relay to authorise the circuit against
\* an anonymous viewer, which for a PRIVATE circuit is a NOT_FOUND for
\* something the reader can plainly see": with nothing gone wrong, the owner
\* of a circuit is not told that it is not there.
OwnerIsAdmitted ==
    \A c \in DOMAIN setting.people :
        spent = 0 /\ setting.people[c] = grants.owner => sessions[c].status # "ended"
=============================================================================
