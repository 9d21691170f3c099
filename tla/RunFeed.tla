------------------------------ MODULE RunFeed ------------------------------
(***************************************************************************)
(* Tabs that watch runs over the sockets of one API process, the worker    *)
(* that publishes what becomes of the runs, and what is lost, refused and  *)
(* ended in between.  The tabs poll as well (module ServerBackend): what   *)
(* is asked here is what the feed alone brings them.                       *)
(***************************************************************************)
EXTENDS SocketFeed, FiniteSets

CONSTANTS
    Settings         \* [people, runs, readers, progress, incidents]: who is at each tab,
                     \* what there is to watch and who may, and bounds on the progress
                     \* events of a run and on what goes wrong or is given up

ASSUME SettingsAssumption ==
    /\ IsFiniteSet(Runs)
    /\ \A s \in Settings : DOMAIN s.people \subseteq Browsers /\ s.runs \subseteq Runs /\ s.progress \in Nat

VARIABLES
    setting,     \* the setting of this behaviour
    tabs,        \* the socket of each tab
    begun,       \* the runs each tab has watched
    reported,    \* per run: its progress events
    announced,   \* the runs whose completion was published, or should have been
    excused,     \* tabs the feed owes nothing any more
    spent        \* incidents so far

worldVars == <<setting, begun, reported, announced, excused, spent>>
vars == <<feedVars, tabs, worldVars>>

Init ==
    /\ FeedInit
    /\ setting \in Settings
    /\ readers = setting.readers
    /\ tabs = [b \in Browsers |-> Unwatched]
    /\ begun = [b \in Browsers |-> {}]
    /\ reported = [r \in Runs |-> 0]
    /\ announced = {} /\ excused = {} /\ spent = 0

Current(b) == <<b, Len(connections[b])>>

\* What a tab became, and the frames it put on its connection.
Tab(b, k, connection) ==
    LET sent == IF connection.open THEN [connection EXCEPT !.up = @ \o k.out] ELSE connection
    IN  /\ tabs' = [tabs EXCEPT ![b] = [k EXCEPT !.out = <<>>]]
        /\ IF connections[b] = <<>> THEN UNCHANGED connections
           ELSE connections' = Replaced(Current(b), IF k.socket = "open" THEN sent ELSE [sent EXCEPT !.down = <<>>])
        /\ UNCHANGED <<bus, readers, ended>>

Connection(b) == IF connections[b] = <<>> THEN Accepted ELSE At(Current(b))

World == UNCHANGED worldVars
Incident == spent < setting.incidents /\ spent' = spent + 1
Server == UNCHANGED <<tabs, worldVars>>
\* An incident of the server, and whom it leaves without what is published.
Fails(left) ==
    /\ Incident /\ excused' = excused \cup left
    /\ UNCHANGED <<tabs, setting, begun, reported, announced>>

-----------------------------------------------------------------------------
\* A run is sent to the server and watched; the read that follows what the tab
\* was told answers it.
WatchStarts ==
    \E b \in DOMAIN setting.people, r \in setting.runs :
        /\ tabs[b].wanted = {} /\ r \notin begun[b]
        /\ Tab(b, Watch(tabs[b], r), Connection(b))
        /\ begun' = [begun EXCEPT ![b] = @ \cup {r}]
        /\ UNCHANGED <<setting, reported, announced, excused, spent>>

WatchEnds ==
    \E b \in Browsers : \E r \in tabs[b].wanted \cap tabs[b].told :
        Tab(b, Unwatch(tabs[b], r), Connection(b)) /\ World

\* The poll answers first, or the reader cancels.
WatchIsLeft ==
    \E b \in Browsers : \E r \in tabs[b].wanted :
        /\ Incident /\ UNCHANGED <<setting, begun, reported, announced, excused>>
        /\ Tab(b, Unwatch(tabs[b], r), Connection(b))

SocketOpens ==
    \E b \in Browsers :
        /\ tabs[b].socket = "opening"
        /\ tabs' = [tabs EXCEPT ![b] = OnOpen(@)]
        /\ connections' = [connections EXCEPT ![b] = Append(@, Accepted)]
        /\ UNCHANGED <<bus, readers, ended>> /\ World

TokenArrives ==
    \E b \in Browsers :
        tabs[b].asking /\ Tab(b, OnToken(tabs[b], setting.people[b]), Connection(b)) /\ World

FrameArrives ==
    \E b \in Browsers :
        LET s == Connection(b)
            frame == Head(s.down)
        IN  /\ tabs[b].socket = "open" /\ s.down # <<>>
            /\ IF frame.type = "close" THEN Tab(b, OnClose(tabs[b], frame.code), s)
               ELSE Tab(b, Handle(tabs[b], frame, ended), [s EXCEPT !.down = Tail(@)])
            /\ World

RetryFires ==
    \E b \in Browsers : tabs[b].retry /\ Tab(b, Connect(tabs[b]), Connection(b)) /\ World

-----------------------------------------------------------------------------
SocketsRead == \E id \in Ids : (Authenticate(id) \/ SubscribeFrame(id) \/ UnsubscribeFrame(id) \/ Bye(id)) /\ Server
SocketsSubscribe == \E id \in Ids : (RowArrives(id) \/ OpenChannel(id)) /\ Server

\* Whoever is served before Redis has subscribed may miss what comes first.
SocketsJoin ==
    \E id \in Ids :
        /\ JoinChannel(id)
        /\ excused' = IF Pending(At(id).asked) THEN excused \cup {id[1]} ELSE excused
        /\ UNCHANGED <<tabs, setting, begun, reported, announced, spent>>

RedisActs == (RedisSubscribes \/ RedisUnsubscribes) /\ Server
SocketsDeliver ==
    \E id \in Ids, r \in Runs : (DeliverEvent(id, r) \/ AskAgain(id, r) \/ AnswerArrives(id, r)) /\ Server
SocketsEnd == \E id \in Ids : (Ping(id) \/ Sweep(id)) /\ Server
Ages == \E id \in Ids, r \in Runs : Age(id, r) /\ Server

-----------------------------------------------------------------------------
Publish(r, event) == connections' = Published(r, event) /\ UNCHANGED <<bus, readers, ended>>

WorkerReports ==
    \E r \in setting.runs :
        /\ r \notin ended /\ reported[r] < setting.progress
        /\ Publish(r, [type |-> "progress", time |-> reported[r] + 1])
        /\ reported' = [reported EXCEPT ![r] = @ + 1]
        /\ UNCHANGED <<tabs, setting, begun, announced, excused, spent>>

RowEnds ==
    \E r \in setting.runs \ ended :
        ended' = ended \cup {r} /\ UNCHANGED <<connections, bus, readers, tabs, worldVars>>

WorkerAnnounces ==
    \E r \in ended \ announced :
        /\ Publish(r, [type |-> "complete", time |-> setting.progress + 1])
        /\ announced' = announced \cup {r}
        /\ UNCHANGED <<tabs, setting, begun, reported, excused, spent>>

\* The worker dies before it publishes, Redis loses the message, or the clock
\* of who publishes it is behind.
AnnouncementIsLost ==
    \E r \in ended \ announced :
        /\ Incident /\ announced' = announced \cup {r}
        /\ excused' = Browsers
        /\ \/ UNCHANGED feedVars
           \/ Publish(r, [type |-> "complete", time |-> 0])
        /\ UNCHANGED <<tabs, setting, begun, reported>>

\* A connection is lost or never made, and one end of it notices first.
ConnectionDrops ==
    /\ Incident /\ UNCHANGED <<setting, begun, reported, announced, excused>>
    /\ \E b \in Browsers :
          \/ /\ tabs[b].socket = "open" /\ Connection(b).open
             /\ Tab(b, OnClose(tabs[b], "LOST"), [Connection(b) EXCEPT !.lost = TRUE, !.up = <<>>])
          \/ /\ tabs[b].socket = "open" /\ Connection(b).open
             /\ One(Current(b), Shut(Connection(b), "LOST")) /\ UNCHANGED tabs
          \/ /\ tabs[b].socket = "opening"
             /\ Tab(b, OnClose(tabs[b], "LOST"), Connection(b))

TokenFails ==
    /\ Incident /\ UNCHANGED <<setting, begun, reported, announced, excused>>
    /\ \E b \in Browsers : tabs[b].asking /\ Tab(b, OnToken(tabs[b], Anonymous), Connection(b))

\* Tokens that do not verify or expire, re-checks that fail; and a row that
\* cannot be read, whose socket is closed for good.
ServerFails ==
    \E id \in Ids :
        \/ (AuthenticateFails(id) \/ Expires(id) \/ \E r \in Runs : RecheckFails(id, r)) /\ Fails({})
        \/ ReadFails(id) /\ Fails({id[1]})

RedisFails == RedisRefuses /\ Fails({})

\* The circuit of the runs is made private, or goes to somebody else.
ReadersChange ==
    /\ Fails({})
    /\ readers' \in {{}, readers \ {Anonymous}} /\ readers' # readers
    /\ UNCHANGED <<connections, bus, ended>>

Next ==
    \/ WatchStarts \/ WatchEnds \/ WatchIsLeft \/ SocketOpens \/ TokenArrives \/ FrameArrives \/ RetryFires
    \/ SocketsRead \/ SocketsSubscribe \/ SocketsJoin \/ RedisActs \/ SocketsDeliver \/ SocketsEnd \/ Ages
    \/ WorkerReports \/ RowEnds \/ WorkerAnnounces
    \/ AnnouncementIsLost \/ ConnectionDrops \/ TokenFails \/ ServerFails \/ RedisFails \/ ReadersChange

Spec == Init /\ [][Next]_vars

\* Sockets open, tokens, frames and commands arrive, timers fire and the
\* process works.  No run need end, and no tab need stop.
Moves ==
    \/ SocketOpens \/ TokenArrives \/ FrameArrives \/ RetryFires
    \/ SocketsRead \/ SocketsSubscribe \/ SocketsJoin \/ RedisActs \/ SocketsDeliver \/ SocketsEnd
FairSpec == Spec /\ WF_vars(Moves)

-----------------------------------------------------------------------------
\* Every value is of its kind, and what is wanted is not given up.
TypeOK ==
    /\ ended \subseteq setting.runs /\ announced \subseteq ended
    /\ bus.redis \subseteq Runs
    /\ \A b \in Browsers :
          /\ tabs[b].claimed \subseteq tabs[b].wanted /\ Cardinality(tabs[b].wanted) <= 1
          /\ tabs[b].told \cup tabs[b].wanted \subseteq begun[b]
          /\ tabs[b].refused \cap tabs[b].wanted = {}
          /\ tabs[b].out = <<>> /\ tabs[b].socket \in {"none", "opening", "open"}
          /\ tabs[b].socket # "open" => ~tabs[b].asking /\ ~tabs[b].awaiting

\* What Redis sends once it has taken the commands that are on their way: the
\* last word on each run.
Orders(r) == {i \in DOMAIN bus.commands : bus.commands[i].run = r}
Sent == {r \in Runs :
            IF Orders(r) = {} THEN r \in bus.redis
            ELSE \E i \in Orders(r) : bus.commands[i].op = "subscribe" /\ \A j \in Orders(r) : j <= i}

\* "UNSUBSCRIBE is not scoped to a listener, so the first release would
\* silently deafen the second watcher": Redis sends what somebody listens to
\* and nothing else, every listener is a subscription of an open socket or is
\* being opened, and every subscription listens unless it was served early.
ListenersAreCounted ==
    /\ Sent = {r \in Runs : bus.channels[r] # {}}
    /\ \A r \in Runs : \A id \in bus.channels[r] :
          At(id).subs[r].at = "live" \/ (At(id).busy = "opening" /\ At(id).asked = r)
    /\ \A id \in Ids, r \in Runs :
          At(id).subs[r].at = "live" => At(id).open /\ (id \in bus.channels[r] \/ At(id).subs[r].early)

\* Nothing is on its way between a tab and the process.
Quiet(b) ==
    LET s == Connection(b)
    IN  tabs[b].socket = "open" /\ s.open /\ s.up = <<>> /\ s.down = <<>> /\ s.busy = "idle" /\ ~tabs[b].asking

\* A connected tab that hears nothing more is subscribed to what it wants, or
\* was told that it is over; and one that is not connected is to connect
\* again, unless it was closed for good.
WatchedIsSubscribed ==
    \A b \in Browsers \ excused : \A r \in tabs[b].wanted :
        /\ Quiet(b) => r \in tabs[b].told \/ Connection(b).subs[r].at = "live"
        /\ tabs[b].socket = "none" => tabs[b].retry

\* Together: on both sides of the sockets what should be listening listens.
FeedInvariant == TypeOK /\ ListenersAreCounted /\ WatchedIsSubscribed

\* "A token expires, a circuit is unpublished, an owner revokes access": what is
\* published after that, once the last decision in a viewer's favour is older
\* than the TTL, is never said to that viewer, whatever is queued before it,
\* read again or refused in the meantime.
RevokedHearsNothing ==
    \A id \in Ids : \A i \in DOMAIN At(id).down :
        At(id).down[i].type \in {"progress", "complete"} => ~At(id).down[i].late

\* Whatever is lost, closed, expired or revoked, and without one poll: a tab
\* that still watches a run whose completion was published comes to read it,
\* unless the feed owes it nothing any more.
EveryWatcherLearns ==
    <>[](\A b \in Browsers \ excused : tabs[b].wanted \cap announced \subseteq tabs[b].told)
=============================================================================
