-------------------------- MODULE DocumentRegistry --------------------------
(***************************************************************************)
(* The shared documents of apps/api/src/ws/documents.ts, for one circuit,  *)
(* and what the relay keeps of it in Postgres.                             *)
(*                                                                         *)
(* A live document is an object: it may be in its process's map, or out of *)
(* it and still be held by a timer, a save, a subscription or a peer.      *)
(* `lives` numbers the objects in the order they were built; the functions *)
(* of the registry map the state of the relay to the next one, and a step  *)
(* is everything that runs before the next await.                          *)
(*                                                                         *)
(* Stored are the CircuitSession row and the head version.  A process of   *)
(* the API has one connection (`connection_limit=1`), so its statements    *)
(* are a queue: one is executed, its reply comes back, and only then the   *)
(* next one runs.  Other events of the process fall between the two.       *)
(*                                                                         *)
(* A document is the set of edits it has and the set of those a version    *)
(* took back; two documents merge by union, as two Y.Docs do.              *)
(***************************************************************************)
EXTENDS Naturals, Sequences, FiniteSets

CONSTANTS
    Replicas,     \* processes of the API
    Edits,        \* updates of the circuit that peers send
    NoRow,        \* there is no CircuitSession row
    Peers,        \* sockets that join the session
    MaxBuilds     \* bound: documents built

VARIABLES
    row,          \* the document stored for the circuit, or NoRow
    version,      \* what the head version holds
    db,           \* per process: its statements, the first one running
    relay,        \* lives, the maps, and the inboxes of the bus
    peers         \* where each socket stands

storeVars == <<row, version, db>>

Content(doc) == doc.has \ doc.gone
Merge(doc, other) == [has |-> doc.has \cup other.has, gone |-> doc.gone \cup other.gone]
DocumentOf(circuit) == [has |-> circuit, gone |-> {}]

\* What the next session would be seeded with.
Seed == IF row = NoRow THEN DocumentOf(version) ELSE row

LoadSession == [kind |-> "load", done |-> FALSE, got |-> NoRow]
LatestVersion == [kind |-> "latest", done |-> FALSE, got |-> {}]
SaveSession(live, doc, why) == [kind |-> "save", done |-> FALSE, live |-> live, doc |-> doc, why |-> why]
DropSession(reseed) == [kind |-> "drop", done |-> FALSE, reseed |-> reseed]
AppendVersion(circuit, restore) ==
    [kind |-> "append", done |-> FALSE, circuit |-> circuit, restore |-> restore]

StoreInit == row = NoRow /\ version = {} /\ db = [r \in Replicas |-> <<>>]

Running(r) == db[r] # <<>> /\ ~Head(db[r]).done
Answered(r) == db[r] # <<>> /\ Head(db[r]).done

Done(r, statement) == db' = [db EXCEPT ![r][1] = [statement EXCEPT !.done = TRUE]]

\* The first statement of a process takes effect.
Execute(r) ==
    /\ Running(r)
    /\ LET statement == Head(db[r])
       IN  \/ /\ statement.kind = "load"
              /\ Done(r, [statement EXCEPT !.got = row])
              /\ UNCHANGED <<row, version>>
           \/ /\ statement.kind = "latest"
              /\ Done(r, [statement EXCEPT !.got = version])
              /\ UNCHANGED <<row, version>>
           \/ /\ statement.kind = "save"
              /\ Done(r, statement)
              /\ row' = statement.doc /\ UNCHANGED version
           \/ /\ statement.kind = "drop"
              /\ Done(r, statement)
              /\ row' = NoRow /\ UNCHANGED version
           \/ \* appendVersion: the version and the deletion of the row are
              \* one transaction
              /\ statement.kind = "append"
              /\ Done(r, statement)
              /\ version' = statement.circuit /\ row' = NoRow

-----------------------------------------------------------------------------
(* The processes and their documents. *)

registryVars == <<relay, peers>>

LiveIds == 1 .. MaxBuilds
None == 0
Seeding == MaxBuilds + 1    \* a build that has no document yet

RegistryInit ==
    /\ relay = [lives |-> <<>>,
                documents |-> [r \in Replicas |-> None],
                building |-> [r \in Replicas |-> None],
                closed |-> [r \in Replicas |-> FALSE],
                channel |-> [r \in Replicas |-> "closed"],
                inbox |-> [r \in Replicas |-> <<>>],
                db |-> [r \in Replicas |-> <<>>],
                out |-> {}]
    /\ peers = [p \in Peers |-> [at |-> "nowhere", replica |-> CHOOSE r \in Replicas : TRUE, live |-> None]]

NewLive(r, doc) ==
    [replica |-> r, doc |-> doc, peers |-> {}, pending |-> FALSE, timer |-> FALSE,
     bus |-> "none", dropping |-> FALSE]

-----------------------------------------------------------------------------
\* A message reaches the processes whose channel is open when it is published.
Publish(s, r, message) ==
    [s EXCEPT !.inbox = [q \in Replicas |->
        IF q # r /\ s.channel[q] = "open" THEN Append(@[q], message) ELSE @[q]]]

Message(kind, doc) == [kind |-> kind, doc |-> doc]
Nothing == DocumentOf({})

Ask(s, r, statement) == [s EXCEPT !.db[r] = Append(@, statement)]

\* The documents of a process that are listeners of the channel.  The first
\* one opens it and waits for Redis; a later one is served at once.
Listeners(s, r) == {n \in DOMAIN s.lives : s.lives[n].replica = r /\ s.lives[n].bus # "none"}

Opened(s, n) ==
    Publish([s EXCEPT !.lives[n].bus = "open"], s.lives[n].replica, Message("sync-request", Nothing))

Listen(s, n) ==
    LET r == s.lives[n].replica
    IN  IF s.channel[r] # "closed" THEN Opened(s, n)
        ELSE [s EXCEPT !.channel[r] = "opening", !.lives[n].bus = "opening"]

\* live.release?.(): a subscription that is still being opened has no release
\* yet, and the last listener closes the channel.
ReleaseAll(s, r, given) ==
    LET open == {n \in given : s.lives[n].bus = "open"}
    IN  [s EXCEPT !.channel[r] = IF open # {} /\ Listeners(s, r) = open THEN "closed" ELSE @,
                  !.lives = [n \in DOMAIN @ |-> IF n \in open THEN [@[n] EXCEPT !.bus = "none"] ELSE @[n]]]

Release(s, n) == ReleaseAll(s, s.lives[n].replica, {n})

MarkDirty(s, n) == [s EXCEPT !.lives[n].pending = TRUE, !.lives[n].timer = TRUE]

\* drop: every peer is told to rejoin.
DropAll(s, r, given) ==
    [ReleaseAll(s, r, given) EXCEPT
        !.documents[r] = IF given = {} THEN @ ELSE None,
        !.lives = [n \in DOMAIN @ |->
            IF n \in given THEN [@[n] EXCEPT !.dropping = TRUE, !.timer = FALSE, !.peers = {}] ELSE @[n]],
        !.out = @ \cup UNION {s.lives[n].peers : n \in given}]

Drop(s, n, keepRow) ==
    LET r == s.lives[n].replica
        given == DropAll(s, r, {n})
    IN  IF s.lives[n].dropping THEN s
        ELSE IF keepRow THEN given ELSE Ask(given, r, DropSession(FALSE))

FlushedForgets(s, n, why) ==
    IF why = "close" THEN Drop(s, n, TRUE)
    ELSE IF why = "leave" THEN [s EXCEPT !.documents[s.lives[n].replica] = None]
    ELSE s

\* Once a flush has ended: the one of a teardown lets the document go unless
\* somebody rejoined, and the one of a shutdown drops it.
Flushed(s, n, why) ==
    IF why = "close" THEN Drop(s, n, TRUE)
    ELSE IF why = "leave" /\ s.lives[n].peers = {} /\ ~s.lives[n].dropping
    THEN [s EXCEPT !.documents[s.lives[n].replica] = None]
    ELSE s

FlushLeavesTimer(s, n, why) ==
    LET live == s.lives[n]
        written == [s EXCEPT !.lives[n].pending = FALSE]
    IN  IF live.pending THEN Ask(written, live.replica, SaveSession(n, live.doc, why))
        ELSE Flushed(s, n, why)

Flush(s, n, why) ==
    LET live == s.lives[n]
        written == [s EXCEPT !.lives[n].pending = FALSE, !.lives[n].timer = FALSE]
    IN  IF live.pending THEN Ask(written, live.replica, SaveSession(n, live.doc, why))
        ELSE Flushed(s, n, why)

\* settle: the other processes give up their copies, and the document here
\* becomes the version by an ordinary update.
Settle(s, r, circuit) ==
    LET told == Publish(s, r, Message("settled", Nothing))
        n == s.documents[r]
        reverted == [has |-> circuit, gone |-> Content(s.lives[n].doc) \ circuit]
        settled == MarkDirty([told EXCEPT !.lives[n].doc = Merge(@, reverted)], n)
    IN  IF n = None \/ Content(s.lives[n].doc) = circuit THEN told
        ELSE Publish(settled, r, Message("update", reverted))

-----------------------------------------------------------------------------
\* A step: statements go to the process's queue, and dropped peers are out.
Leave(who) == [p \in Peers |-> IF p \in who THEN [peers[p] EXCEPT !.at = "nowhere", !.live = None]
                               ELSE peers[p]]

Become(s) ==
    /\ relay' = [s EXCEPT !.db = [r \in Replicas |-> <<>>], !.out = {}]
    /\ db' = [r \in Replicas |-> db[r] \o s.db[r]]

\* The same, where the first statement of r has been answered.
Continue(r, s) ==
    /\ relay' = [s EXCEPT !.db = [q \in Replicas |-> <<>>], !.out = {}]
    /\ db' = [q \in Replicas |-> (IF q = r THEN Tail(db[q]) ELSE db[q]) \o s.db[q]]

\* attach, with a document in the map.
Attached(s, p, n) == [s EXCEPT !.lives[n].peers = @ \cup {p}]

Join(p, r) ==
    /\ peers[p].at = "nowhere" /\ ~relay.closed[r]
    /\ LET n == relay.documents[r]
       IN  IF n # None
           THEN /\ Become(Attached(relay, p, n))
                /\ peers' = [peers EXCEPT ![p] = [at |-> "in", replica |-> r, live |-> n]]
           ELSE /\ peers' = [peers EXCEPT ![p] = [at |-> "waiting", replica |-> r, live |-> None]]
                /\ IF relay.building[r] # None THEN UNCHANGED <<relay, db>>
                   ELSE /\ Len(relay.lives) + Cardinality({q \in Replicas : relay.building[q] = Seeding}) < MaxBuilds
                        /\ Become(Ask([relay EXCEPT !.building[r] = Seeding], r, LoadSession))
    /\ UNCHANGED <<row, version>>

Waiting(r) == {p \in Peers : peers[p].at = "waiting" /\ peers[p].replica = r}

\* build, once the document is seeded: it is in the map before the bus is
\* asked for its channel.
Built(s, r, doc) ==
    IF s.closed[r] THEN [s EXCEPT !.building[r] = None, !.out = Waiting(r)]
    ELSE LET n == Len(s.lives) + 1
         IN  Listen([s EXCEPT !.lives = Append(@, NewLive(r, doc)),
                              !.documents[r] = n, !.building[r] = n], n)

\* A save or a deletion is over, and it does not matter how it went.
Over(s, r, statement) ==
    IF statement.kind = "save" THEN Flushed(s, statement.live, statement.why)
    ELSE IF statement.reseed THEN Ask(s, r, LatestVersion) ELSE s

\* The reply to a statement, and what awaited it.
Reply(r) ==
    /\ Answered(r)
    /\ LET statement == Head(db[r])
           after == CASE statement.kind = "load" /\ statement.got # NoRow ->
                             Built(relay, r, statement.got)
                      [] statement.kind = "load" /\ statement.got = NoRow ->
                             Ask(relay, r, LatestVersion)
                      [] statement.kind = "latest" -> Built(relay, r, DocumentOf(statement.got))
                      [] statement.kind = "append" -> Settle(relay, r, statement.circuit)
                      [] OTHER -> Over(relay, r, statement)
       IN  Continue(r, after) /\ peers' = Leave(after.out)
    /\ UNCHANGED <<row, version>>

\* bus.subscribe resolves, for a document that may be gone by now, and the
\* build asks the others for what they have.
Subscribe(n) ==
    /\ relay.lives[n].bus = "opening"
    /\ Become(Opened([relay EXCEPT !.channel[relay.lives[n].replica] = "open"], n))
    /\ UNCHANGED <<row, version, peers>>

BuildEndsUnasked(r) ==
    /\ relay.building[r] \in DOMAIN relay.lives
    /\ LET n == relay.building[r]
           served == relay.documents[r] = n /\ ~relay.lives[n].dropping
       IN  /\ relay.lives[n].bus # "opening"
           /\ relay' = [relay EXCEPT !.building[r] = None,
                           !.lives[n].peers = IF served THEN @ \cup Waiting(r) ELSE @]
           /\ peers' = [p \in Peers |->
                  IF p \in Waiting(r) /\ served THEN [at |-> "in", replica |-> r, live |-> n]
                  ELSE peers[p]]
    /\ UNCHANGED storeVars

\* The build is over and the joins that waited for it look again.
BuildEnds(r) ==
    /\ relay.building[r] \in DOMAIN relay.lives
    /\ LET n == relay.building[r]
           served == relay.documents[r] = n /\ ~relay.lives[n].dropping
       IN  /\ relay.lives[n].bus # "opening"
           /\ relay' = [relay EXCEPT !.building[r] = None,
                           !.lives[n].peers = IF served THEN @ \cup Waiting(r) ELSE @]
           /\ peers' = [p \in Peers |->
                  IF p \notin Waiting(r) THEN peers[p]
                  ELSE IF served THEN [at |-> "in", replica |-> r, live |-> n]
                  ELSE [peers[p] EXCEPT !.at = "nowhere"]]
    /\ UNCHANGED storeVars

-----------------------------------------------------------------------------
\* apply: the update is integrated, the document is dirty, the peers and the
\* other processes get it.
Accepted(s, n, edit) ==
    Publish(MarkDirty([s EXCEPT !.lives[n].doc.has = @ \cup {edit}], n),
            s.lives[n].replica, Message("update", DocumentOf({edit})))

Apply(p, edit) ==
    /\ peers[p].at = "in"
    /\ Become(Accepted(relay, peers[p].live, edit))
    /\ UNCHANGED <<row, version, peers>>

\* apply, where the document has grown past MAX_COLLAB_STATE_BYTES.
Overgrow(p) ==
    /\ peers[p].at = "in"
    /\ LET after == Drop(relay, peers[p].live, FALSE)
       IN  Become(after) /\ peers' = Leave(after.out)
    /\ UNCHANGED <<row, version>>

DetachedUnsaved(s, p, n) ==
    LET left == [s EXCEPT !.lives[n].peers = @ \ {p}]
    IN  IF left.lives[n].peers # {} \/ left.lives[n].dropping THEN left
        ELSE [Release(left, n) EXCEPT !.documents[left.lives[n].replica] = None,
                 !.lives[n].timer = FALSE]

\* detach: the last one out releases the channel and flushes.
Detached(s, p, n) ==
    LET left == [s EXCEPT !.lives[n].peers = @ \ {p}]
    IN  IF left.lives[n].peers # {} \/ left.lives[n].dropping THEN left
        ELSE Flush(Release(left, n), n, "leave")

Detach(p) ==
    /\ peers[p].at = "in"
    /\ Become(Detached(relay, p, peers[p].live))
    /\ peers' = Leave({p})
    /\ UNCHANGED <<row, version>>

TimerFires(n) ==
    /\ relay.lives[n].timer
    /\ Become(Flush(relay, n, "timer"))
    /\ UNCHANGED <<row, version, peers>>

\* receiveRemote, by every document of the process that is subscribed.  What
\* another process sent is not this one's to persist: nothing is marked dirty.
Listening(r) ==
    IF relay.channel[r] # "open" THEN {}
    ELSE {n \in Listeners(relay, r) : ~relay.lives[n].dropping}

TakenByAudience(s, r, message) ==
    CASE message.kind \in {"update", "sync-state"} ->
            [s EXCEPT !.lives = [n \in DOMAIN @ |->
                IF n \in Listening(r) /\ @[n].peers # {} THEN [@[n] EXCEPT !.doc = Merge(s.lives[n].doc, message.doc)]
                ELSE @[n]]]
      [] message.kind = "sync-request" -> s
      [] message.kind = "settled" ->
            DropAll(s, r, Listening(r))

Taken(s, r, message) ==
    CASE message.kind \in {"update", "sync-state"} ->
            [s EXCEPT !.lives = [n \in DOMAIN @ |->
                IF n \in Listening(r) THEN [@[n] EXCEPT !.doc = Merge(s.lives[n].doc, message.doc)] ELSE @[n]]]
      [] message.kind = "sync-request" ->
            IF Listening(r) = {} THEN s
            ELSE Publish(s, r, Message("sync-state",
                    [has |-> UNION {s.lives[n].doc.has : n \in Listening(r)},
                     gone |-> UNION {s.lives[n].doc.gone : n \in Listening(r)}]))
      [] message.kind = "settled" ->
            DropAll(s, r, Listening(r))

Receive(r) ==
    /\ relay.inbox[r] # <<>>
    /\ LET after == Taken([relay EXCEPT !.inbox[r] = Tail(@)], r, Head(relay.inbox[r]))
       IN  Become(after) /\ peers' = Leave(after.out)
    /\ UNCHANGED <<row, version>>

\* POST /circuits/:id/versions, as far as the relay is concerned.
RequestVersion(r, circuit, restore) ==
    /\ Become(Ask(relay, r, AppendVersion(circuit, restore)))
    /\ UNCHANGED <<row, version, peers>>

-----------------------------------------------------------------------------
\* A save or a deletion that fails is logged; nothing tries again until the
\* next edit.
WriteFails(r) ==
    /\ Running(r) /\ Head(db[r]).kind \in {"save", "drop"}
    /\ LET after == Over(relay, r, Head(db[r]))
       IN  Continue(r, after) /\ peers' = Leave(after.out)
    /\ UNCHANGED <<row, version>>

\* seed: a row that does not project is deleted, and then the head version read.
RowDoesNotProject(r) ==
    /\ Answered(r) /\ Head(db[r]).kind = "load" /\ Head(db[r]).got # NoRow
    /\ Continue(r, Ask(relay, r, DropSession(TRUE)))
    /\ UNCHANGED <<row, version, peers>>

\* A document that cannot be read is not built.
LoadFails(r) ==
    /\ Running(r) /\ Head(db[r]).kind \in {"load", "latest"}
    /\ Continue(r, [relay EXCEPT !.building[r] = None])
    /\ peers' = Leave(Waiting(r))
    /\ UNCHANGED <<row, version>>

\* A document without a channel serves the peers of its own process.
SubscribeFails(n) ==
    /\ relay.lives[n].bus = "opening"
    /\ relay' = [relay EXCEPT !.channel[relay.lives[n].replica] = "closed",
                    !.lives = [m \in DOMAIN @ |->
                        IF m \in Listeners(relay, relay.lives[n].replica)
                        THEN [@[m] EXCEPT !.bus = "none"] ELSE @[m]]]
    /\ UNCHANGED <<peers, storeVars>>

\* Redis delivers at most once.
MessageIsLost(r) ==
    /\ relay.inbox[r] # <<>>
    /\ relay' = [relay EXCEPT !.inbox[r] = Tail(@)]
    /\ UNCHANGED <<peers, storeVars>>

-----------------------------------------------------------------------------
\* close: the map is emptied, and the document is flushed and then dropped.
Close(r) ==
    /\ ~relay.closed[r]
    /\ LET n == relay.documents[r]
           closing == [relay EXCEPT !.closed[r] = TRUE, !.documents[r] = None]
           after == IF n = None THEN closing ELSE Flush(closing, n, "close")
       IN  Become(after) /\ peers' = Leave(after.out)
    /\ UNCHANGED <<row, version>>

\* The process is gone, and another one starts with nothing.
Gone(r) ==
    /\ relay' = [relay EXCEPT !.closed[r] = FALSE, !.building[r] = None,
                    !.documents[r] = None, !.inbox[r] = <<>>, !.channel[r] = "closed",
                    !.lives = [n \in DOMAIN @ |->
                        IF @[n].replica # r THEN @[n]
                        ELSE [@[n] EXCEPT !.dropping = TRUE, !.timer = FALSE,
                                 !.peers = {}, !.bus = "none"]]]
    /\ peers' = Leave({p \in Peers : peers[p].replica = r})
    /\ UNCHANGED <<row, version>>

\* A shutdown ends when its last statement has: the pool is given back then.
CloseEnds(r) ==
    /\ relay.closed[r] /\ db[r] = <<>>
    /\ Gone(r) /\ UNCHANGED db

Crash(r) == Gone(r) /\ db' = [db EXCEPT ![r] = <<>>]
=============================================================================
