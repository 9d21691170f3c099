----------------------------- MODULE SocketFeed -----------------------------
(***************************************************************************)
(* One API process between the tabs and Redis: the run subscriptions of    *)
(* its sockets (apps/api/src/ws/session.ts, subscribe and deliver) and the *)
(* bus they share (apps/api/src/plugins/events.ts).                        *)
(*                                                                         *)
(* A tab has one connection after another; connections[b] is all of them,  *)
(* and the last is the one it may still read from.  A listener of the bus  *)
(* is the connection it speaks to.                                         *)
(***************************************************************************)
EXTENDS RunSocket

CONSTANT Browsers   \* the tabs

VARIABLES
    connections,    \* per tab: its connections, the oldest first
    bus,            \* [channels: listeners per run, redis: the runs Redis sends,
                    \* commands: on their way to it, in order]
    readers,        \* the viewers who may read the runs
    ended           \* the runs whose row is final

feedVars == <<connections, bus, readers, ended>>

NoSubscription == [at |-> "none", fresh |-> FALSE, early |-> FALSE, delivered |-> 0, queue |-> <<>>]
Subscribed == [NoSubscription EXCEPT !.at = "live", !.fresh = TRUE]

\* The event that waits for a re-check, and what the row answered when it was asked.
NoCheck == [waiting |-> <<>>, allowed |-> FALSE]
Checking(s, run) == s.checks[run].waiting # <<>>

\* The first frame says that nobody has authenticated yet.
Accepted == [open |-> TRUE, lost |-> FALSE, viewer |-> Anonymous, expired |-> FALSE, busy |-> "idle",
             asked |-> Anonymous, found |-> "nothing",
             subs |-> [r \in Runs |-> NoSubscription],
             checks |-> [r \in Runs |-> NoCheck],
             up |-> <<>>, down |-> <<[type |-> "ready", viewer |-> Anonymous]>>]

NoBus == [channels |-> [r \in Runs |-> {}], redis |-> {}, commands |-> <<>>]

FeedInit == connections = [b \in Browsers |-> <<>>] /\ bus = NoBus /\ ended = {}

Ids == UNION {{<<b, n>> : n \in DOMAIN connections[b]} : b \in Browsers}
At(id) == connections[id[1]][id[2]]

\* lost: the tab is gone and the process has not noticed.
Say(s, frame) == IF s.open /\ ~s.lost THEN [s EXCEPT !.down = Append(@, frame)] ELSE s

EndSubscription(s, run, reason) ==
    IF s.subs[run].at = "none" THEN s
    ELSE Say([s EXCEPT !.subs[run] = NoSubscription],
             [type |-> "unsubscribed", run |-> run, reason |-> reason])

\* close: the subscriptions end; what is waited for is still to come.
Close(s) == [Accepted EXCEPT !.open = FALSE, !.down = <<>>,
                             !.busy = s.busy, !.asked = s.asked, !.found = s.found,
                             !.checks = s.checks]

\* shut, and the close of the socket it leads to.
Shut(s, code) ==
    LET told == Say(s, [type |-> "close", code |-> code])
    IN  [Close(s) EXCEPT !.down = told.down]

\* Whatever an expired credential asks for, the socket is closed instead.
Alive(s, then) == IF s.expired THEN Shut(s, "EXPIRED") ELSE then

-----------------------------------------------------------------------------
\* Mutant: the first to go silences the others.
ReleaseAnybody(u, id, runs) ==
    LET left == {r \in runs : id \in u.channels[r]}
    IN  [u EXCEPT !.channels = [r \in Runs |-> @[r] \ (IF r \in left THEN {id} ELSE {})],
                  !.commands = @ \o SetToSeq({[op |-> "unsubscribe", run |-> r] : r \in left})]

\* release: the last listener of a channel takes the channel with it.
Release(u, id, runs) ==
    LET emptied == {r \in runs : u.channels[r] = {id}}
    IN  [u EXCEPT !.channels = [r \in Runs |-> @[r] \ (IF r \in runs THEN {id} ELSE {})],
                  !.commands = @ \o SetToSeq({[op |-> "unsubscribe", run |-> r] : r \in emptied})]

Replaced(id, s) == [connections EXCEPT ![id[1]][id[2]] = s]

\* A socket after a step: what it no longer listens to is released.
One(id, s) ==
    /\ connections' = Replaced(id, s)
    /\ bus' = Release(bus, id, {r \in Runs : At(id).subs[r].at = "live" /\ s.subs[r].at = "none"})
    /\ UNCHANGED <<readers, ended>>

-----------------------------------------------------------------------------
\* The next frame of a socket, which is handled when the last one is done.
Frame(id, type) ==
    /\ At(id).busy = "idle" /\ At(id).up # <<>>
    /\ Head(At(id).up).type = type
Taken(s) == [s EXCEPT !.up = Tail(@)]

\* And the end of its handling.
Done(s) == [s EXCEPT !.busy = "idle", !.asked = Anonymous, !.found = "nothing"]

Authenticate(id) ==
    LET s == Taken(At(id))
        viewer == Head(At(id).up).viewer
    IN  /\ Frame(id, "authenticate")
        /\ One(id, Alive(s, Say([s EXCEPT !.viewer = viewer], [type |-> "ready", viewer |-> viewer])))

\* A token that does not verify; the socket stays anonymous.
AuthenticateFails(id) ==
    /\ Frame(id, "authenticate")
    /\ One(id, Alive(Taken(At(id)), Say(Taken(At(id)), [type |-> "invalid"])))

\* readRun, as the row is when it is asked for.
Row(s, run) == IF s.viewer \notin readers THEN "nothing" ELSE IF run \in ended THEN "ended" ELSE "open"

SubscribeFrame(id) ==
    LET s == Taken(At(id))
        run == Head(At(id).up).run
    IN  /\ Frame(id, "subscribe")
        /\ One(id, Alive(s, [s EXCEPT !.busy = "reading", !.asked = run, !.found = Row(s, run)]))

\* The database does not answer: the frame was not handled, and the socket
\* goes with it.
ReadFails(id) ==
    /\ At(id).busy = "reading" /\ At(id).open
    /\ One(id, Done(Shut(At(id), "PROTOCOL")))

Pending(run) == \E i \in DOMAIN bus.commands : bus.commands[i].op = "subscribe" /\ bus.commands[i].run = run

\* The row arrives, and is refused or has ended: nobody need listen. (No tab
\* subscribes twice on one connection, so there is no subscription to renew.)
RowArrives(id) ==
    /\ At(id).busy = "reading"
    /\ \/ At(id).found = "nothing" /\ One(id, Say(Done(At(id)), [type |-> "error", run |-> At(id).asked]))
       \/ At(id).found = "ended" /\ One(id, Say(Done(At(id)), [type |-> "subscribed", run |-> At(id).asked]))

\* subscribe of the bus, for the first listener of a channel: it waits for Redis.
OpenChannel(id) ==
    LET run == At(id).asked
    IN  /\ At(id).busy = "reading" /\ At(id).found = "open"
        /\ bus.channels[run] = {}
        /\ connections' = Replaced(id, [At(id) EXCEPT !.busy = "opening", !.found = "nothing",
                                                     !.subs[run].at = "opening"])
        /\ bus' = [bus EXCEPT !.channels[run] = {id},
                              !.commands = Append(@, [op |-> "subscribe", run |-> run])]
        /\ UNCHANGED <<readers, ended>>

\* And for the next ones, which are served at once; a socket that has closed
\* is released again.
JoinChannel(id) ==
    LET run == At(id).asked
        s == Done(At(id))
    IN  /\ At(id).busy = "reading" /\ At(id).found = "open"
        /\ bus.channels[run] # {}
        /\ IF ~s.open THEN One(id, s)
           ELSE /\ connections' = Replaced(id, Say([s EXCEPT !.subs[run] = [Subscribed EXCEPT !.early = Pending(run)]],
                                                   [type |-> "subscribed", run |-> run]))
                /\ bus' = [bus EXCEPT !.channels[run] = @ \cup {id}]
                /\ UNCHANGED <<readers, ended>>

UnsubscribeFrame(id) ==
    LET s == Taken(At(id))
    IN  /\ Frame(id, "unsubscribe")
        /\ One(id, Alive(s, [s EXCEPT !.subs[Head(At(id).up).run] = NoSubscription]))

\* The client closed the socket: what it sent before and is not handled yet
\* finds the session closed.
Bye(id) ==
    /\ At(id).up # <<>> /\ Last(At(id).up).type = "bye"
    /\ One(id, Close(At(id)))

-----------------------------------------------------------------------------
\* Who waits for a subscription that is being opened.
Opener(run) == CHOOSE id \in Ids : At(id).busy = "opening" /\ At(id).asked = run

\* Redis takes the next command.
RedisUnsubscribes ==
    /\ bus.commands # <<>> /\ Head(bus.commands).op = "unsubscribe"
    /\ bus' = [bus EXCEPT !.redis = @ \ {Head(bus.commands).run}, !.commands = Tail(@)]
    /\ UNCHANGED <<connections, readers, ended>>

\* The subscription is there; a socket that closed in the meantime, or a
\* subscription that ended, is released again.
RedisSubscribes ==
    LET run == Head(bus.commands).run
        id == Opener(run)
        s == Done(At(id))
        taken == [bus EXCEPT !.redis = @ \cup {run}, !.commands = Tail(@)]
    IN  /\ bus.commands # <<>> /\ Head(bus.commands).op = "subscribe"
        /\ IF s.open /\ s.subs[run].at = "opening"
           THEN /\ connections' = Replaced(id, Say([s EXCEPT !.subs[run] = Subscribed],
                                                   [type |-> "subscribed", run |-> run]))
                /\ bus' = taken
           ELSE /\ connections' = Replaced(id, [s EXCEPT !.subs[run] = NoSubscription])
                /\ bus' = Release(taken, id, {run})
        /\ UNCHANGED <<readers, ended>>

\* Redis refuses: the channel goes, and with it whoever joined it meanwhile.
RedisRefuses ==
    LET run == Head(bus.commands).run
        id == Opener(run)
        s == [Done(At(id)) EXCEPT !.subs[run] = NoSubscription]
    IN  /\ bus.commands # <<>> /\ Head(bus.commands).op = "subscribe"
        /\ connections' = Replaced(id, Say(s, [type |-> "error", run |-> run]))
        /\ bus' = [bus EXCEPT !.channels[run] = {}, !.commands = Tail(@)]
        /\ UNCHANGED <<readers, ended>>

\* Nobody at the other end may be told: the token has expired, or the run is not
\* theirs to read and no decision that says so is less than the TTL old or on
\* its way from the database.
Unreachable(s, run) ==
    \/ s.expired
    \/ s.viewer \notin readers /\ ~s.subs[run].fresh /\ ~s.checks[run].allowed

\* late: whom it was published too late for.
For(s, run, event) ==
    [type |-> event.type, time |-> event.time,
     late |-> IF Unreachable(s, run) THEN {s.viewer} ELSE {}]

\* Mutant: the first listener that is called is the only one.
PublishedToOne(run, event) ==
    [b \in Browsers |-> [n \in DOMAIN connections[b] |->
        LET s == connections[b][n]
        IN  IF run \in bus.redis /\ bus.channels[run] # {} /\ <<b, n>> = (CHOOSE id \in bus.channels[run] : TRUE)
            THEN [s EXCEPT !.subs[run].queue = Append(@, For(s, run, event))] ELSE s]]

\* An event reaches every listener of its channel, and queues there.
Published(run, event) ==
    [b \in Browsers |-> [n \in DOMAIN connections[b] |->
        LET s == connections[b][n]
        IN  IF run \in bus.redis /\ <<b, n>> \in bus.channels[run] /\ s.subs[run].at = "live"
            THEN [s EXCEPT !.subs[run].queue = Append(@, For(s, run, event))] ELSE s]]

-----------------------------------------------------------------------------
\* A progress event with another behind it, and one older than what was sent.
Superseded(sub) ==
    \/ Head(sub.queue).type = "progress" /\ Tail(sub.queue) # <<>>
    \/ Head(sub.queue).time < sub.delivered

\* The frame of an event, after which nothing follows a completion.
Tell(s, run, event) ==
    LET told == Say([s EXCEPT !.subs[run].delivered = event.time],
                    [type |-> event.type, run |-> run, late |-> s.viewer \in event.late])
    IN  IF event.type = "complete" THEN EndSubscription(told, run, "finished") ELSE told

\* The next event of a subscription, one after the other.
HasNext(id, run) == At(id).subs[run].queue # <<>> /\ ~Checking(At(id), run)
Shift(s, run) == [s EXCEPT !.subs[run].queue = Tail(@)]

\* deliver: an event is dropped, or sent on a decision that is younger than the TTL.
DeliverEvent(id, run) ==
    LET s == At(id)
        event == Head(s.subs[run].queue)
    IN  /\ HasNext(id, run)
        /\ s.expired \/ Superseded(s.subs[run]) \/ s.subs[run].fresh
        /\ One(id, Alive(s, IF Superseded(s.subs[run]) THEN Shift(s, run)
                            ELSE Tell(Shift(s, run), run, event)))

\* stillAllowed: or the run is read again, and the event waits for the answer.
AskAgain(id, run) ==
    LET s == At(id)
    IN  /\ HasNext(id, run)
        /\ ~s.expired /\ ~Superseded(s.subs[run]) /\ ~s.subs[run].fresh
        /\ One(id, [Shift(s, run) EXCEPT !.checks[run] = [waiting |-> <<Head(s.subs[run].queue)>>,
                                                         allowed |-> s.viewer \in readers]])

\* Mutant: what was allowed once is allowed.
AnswerIgnored(id, run) ==
    LET s == [At(id) EXCEPT !.checks[run] = NoCheck]
    IN  /\ Checking(At(id), run)
        /\ One(id, IF s.subs[run].at # "live" THEN s
                   ELSE Tell([s EXCEPT !.subs[run].fresh = TRUE], run, Head(At(id).checks[run].waiting)))

\* The answer, after which only the subscription and the socket are looked at:
\* a token that has expired since does not keep the frame back.
AnswerArrives(id, run) ==
    LET s == [At(id) EXCEPT !.checks[run] = NoCheck]
        check == At(id).checks[run]
    IN  /\ Checking(At(id), run)
        /\ One(id, IF s.subs[run].at # "live" THEN s
                   ELSE IF ~check.allowed THEN EndSubscription(s, run, "unauthorised")
                   ELSE Tell([s EXCEPT !.subs[run].fresh = TRUE], run, Head(check.waiting)))

\* The database does not answer a re-check: nobody handles the rejection, and
\* the process ends, with all its sockets and its connection to Redis.
RecheckFails(id, run) ==
    /\ Checking(At(id), run)
    /\ connections' = [b \in Browsers |-> [n \in DOMAIN connections[b] |->
                          [Done(Shut(connections[b][n], "GONE")) EXCEPT !.checks = Accepted.checks]]]
    /\ bus' = NoBus
    /\ UNCHANGED <<readers, ended>>

\* The pings of a lost socket are not answered.
Ping(id) == At(id).open /\ At(id).lost /\ One(id, Close(At(id)))

Sweep(id) == At(id).open /\ At(id).expired /\ One(id, Shut(At(id), "EXPIRED"))

\* Time passes, and a decision is older than the TTL: one that is wrong, or that
\* the next event is to be sent on.
Age(id, run) ==
    /\ At(id).subs[run].at = "live" /\ At(id).subs[run].fresh
    /\ At(id).viewer \notin readers \/ At(id).subs[run].queue # <<>>
    /\ One(id, [At(id) EXCEPT !.subs[run].fresh = FALSE])

Expires(id) ==
    /\ At(id).open /\ ~At(id).expired /\ At(id).viewer # Anonymous
    /\ One(id, [At(id) EXCEPT !.expired = TRUE])
=============================================================================
