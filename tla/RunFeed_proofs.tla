--------------------------- MODULE RunFeed_proofs ---------------------------
(***************************************************************************)
(* What RunFeed states of the feed of a run, proved for any number of      *)
(* tabs, runs, connections, events and incidents.                          *)
(*                                                                         *)
(* The invariant has three parts that hardly meet.  BusInd is about the    *)
(* process and Redis: who may be in a channel, and what the commands on    *)
(* their way leave behind.  PipeInd is about one tab and its connection:   *)
(* whatever the tab has claimed is at some stage between them, as a frame, *)
(* a read, a command, a subscription or an answer, unless the feed owes    *)
(* the tab nothing.  CleanInd is about what was published too late for who *)
(* is at the tab: wherever it waits, something keeps it back.              *)
(***************************************************************************)
EXTENDS RunFeed, FiniteSetTheorems, TLAPS

------------------------------------------------------------------------------
(* The kinds of everything. *)

Viewers == {Anonymous} \cup UNION {{s.people[b] : b \in DOMAIN s.people} : s \in Settings}
Codes == {"PROTOCOL", "EXPIRED", "GONE", "LOST"}

Reports == [type : {"progress", "complete"}, time : Nat]
Events == [type : {"progress", "complete"}, time : Nat, late : SUBSET Viewers]
Checks == [waiting : Seq(Events), allowed : BOOLEAN]
Subs == [at : {"none", "opening", "live"}, fresh : BOOLEAN, early : BOOLEAN, delivered : Nat, queue : Seq(Events)]

UpFrames ==
    [type : {"subscribe", "unsubscribe"}, run : Runs] \cup [type : {"bye"}]
        \cup [type : {"authenticate"}, viewer : Viewers \ {Anonymous}]
DownFrames ==
    [type : {"ready"}, viewer : Viewers] \cup [type : {"invalid"}] \cup [type : {"close"}, code : Codes]
        \cup [type : {"error", "subscribed"}, run : Runs]
        \cup [type : {"progress", "complete"}, run : Runs, late : BOOLEAN]
        \cup [type : {"unsubscribed"}, run : Runs, reason : {"unauthorised", "finished"}]

Conns == [open : BOOLEAN, lost : BOOLEAN, viewer : Viewers, expired : BOOLEAN,
          busy : {"idle", "reading", "opening"}, asked : Runs \cup {Anonymous},
          found : {"nothing", "ended", "open"}, subs : [Runs -> Subs], checks : [Runs -> Checks],
          up : Seq(UpFrames), down : Seq(DownFrames)]

Commands == [op : {"subscribe", "unsubscribe"}, run : Runs]
Buses == [channels : [Runs -> SUBSET (Browsers \X Nat)], redis : SUBSET Runs, commands : Seq(Commands)]

Tabs == [wanted : SUBSET Runs, claimed : SUBSET Runs, socket : {"none", "opening", "open"}, asking : BOOLEAN,
         awaiting : BOOLEAN, retry : BOOLEAN, told : SUBSET Runs, refused : SUBSET Runs, out : Seq(UpFrames)]

------------------------------------------------------------------------------
(* The process and Redis. *)

Typed == connections \in [Browsers -> Seq(Conns)]

\* A connection on its own.
Sound(s, done) ==
    /\ s.busy # "idle" => s.asked \in Runs
    /\ s.busy = "opening" => s.subs[s.asked].at # "live"
    /\ s.found = "ended" => s.asked \in done
    /\ \A r \in Runs : s.subs[r].at = "live" => s.open
    /\ \A r \in Runs : \A i \in DOMAIN s.subs[r].queue :
          s.subs[r].queue[i].type = "complete" => r \in done
    /\ \A r \in Runs : \A i \in DOMAIN s.checks[r].waiting :
          s.checks[r].waiting[i].type = "complete" => r \in done

SocketInd ==
    /\ Typed
    /\ \A id \in Ids : Sound(At(id), ended)

\* Who waits for Redis, and what is asked of Redis that nothing follows.
Opening(s, r) == s.busy = "opening" /\ s.asked = r
Subscribing(u, r) == \E i \in DOMAIN u.commands : u.commands[i].op = "subscribe" /\ u.commands[i].run = r
Settled(u, r) == \A i \in DOMAIN u.commands : u.commands[i].run # r

\* Nothing about the run of a subscribe follows it, and what is sent already
\* is stopped before it is asked for again.
Orderly(u) ==
    /\ \A i, j \in DOMAIN u.commands :
          u.commands[i].op = "subscribe" /\ u.commands[j].run = u.commands[i].run => j <= i
    /\ \A i \in DOMAIN u.commands :
          u.commands[i].op = "subscribe" /\ u.commands[i].run \in u.redis =>
              \E j \in DOMAIN u.commands : j < i /\ u.commands[j].run = u.commands[i].run

\* Redis sends it, or will.
Sending(u, r) == Subscribing(u, r) \/ (r \in u.redis /\ Settled(u, r))

\* Whoever is in a channel is subscribed or waits to be; whoever is subscribed
\* is in the channel, unless it was served early, before Redis has subscribed;
\* one at most waits, for what is on its way; and Redis sends, or will, what
\* somebody listens to.
ChannelInd(r) ==
    /\ \A id \in bus.channels[r] : id \in Ids /\ (At(id).subs[r].at = "live" \/ Opening(At(id), r))
    /\ \A id \in Ids : At(id).subs[r].at = "live" => id \in bus.channels[r] \/ At(id).subs[r].early
    /\ \A id \in Ids : Opening(At(id), r) => id \in bus.channels[r]
    /\ \A id, jd \in Ids : Opening(At(id), r) /\ Opening(At(jd), r) => id = jd
    /\ Subscribing(bus, r) => \A id \in Ids : At(id).subs[r].at = "live" => At(id).subs[r].early
    /\ Subscribing(bus, r) <=> \E id \in Ids : Opening(At(id), r)
    /\ bus.channels[r] # {} <=> Sending(bus, r)

BusInd ==
    /\ bus \in Buses
    /\ Orderly(bus)
    /\ \A r \in Runs : ChannelInd(r)

------------------------------------------------------------------------------
(* A tab and its connection. *)

TabSound(k, seen) ==
    /\ k.claimed \subseteq k.wanted
    /\ k.wanted = {} \/ \E r \in Runs : k.wanted = {r}
    /\ k.told \cup k.wanted \cup k.refused \subseteq seen
    /\ k.refused \cap k.wanted = {}
    /\ k.socket # "open" => k.claimed = {} /\ ~k.asking /\ ~k.awaiting
    /\ k.wanted = {} => k.socket = "none" /\ ~k.retry

TabInd ==
    /\ tabs \in [Browsers -> Tabs]
    /\ begun \in [Browsers -> SUBSET Runs]
    /\ \A b \in Browsers : TabSound(tabs[b], begun[b]) /\ tabs[b].out = <<>>
    /\ \A b \in Browsers : begun[b] # {} => b \in DOMAIN setting.people

Hears(s, frame) == \E i \in DOMAIN s.down : s.down[i] = frame
Asks(s, frame) == \E i \in DOMAIN s.up : s.up[i] = frame
Closing(s) == \E i \in DOMAIN s.down : s.down[i].type = "close"
Completes(s, r) == \E i \in DOMAIN s.down : s.down[i].type = "complete" /\ s.down[i].run = r

\* The tab speaks to this connection, and has not said that it is done with
\* what it wants.
Linked(k, s) ==
    /\ ~s.lost
    /\ s.open \/ Closing(s)
    /\ \A i \in DOMAIN s.up : s.up[i].type # "bye"
    /\ \A i \in DOMAIN s.up : s.up[i].type = "unsubscribe" => s.up[i].run \notin k.wanted

\* The stages of what a tab has claimed.
Stage(k, s, r, done) ==
    \/ Asks(s, [type |-> "subscribe", run |-> r])
    \/ s.busy = "reading" /\ s.asked = r
    \/ s.busy = "opening" /\ s.asked = r /\ s.subs[r].at = "opening"
    \/ s.subs[r].at = "live"
    \/ Hears(s, [type |-> "error", run |-> r])
    \/ Hears(s, [type |-> "unsubscribed", run |-> r, reason |-> "unauthorised"])
    \/ r \in done /\ (Hears(s, [type |-> "subscribed", run |-> r]) \/ Completes(s, r))
    \/ r \in k.told

Answering(s) ==
    \/ \E i \in DOMAIN s.up : s.up[i].type = "authenticate"
    \/ \E i \in DOMAIN s.down : s.down[i].type = "ready" /\ s.down[i].viewer # Anonymous
    \/ Hears(s, [type |-> "invalid"])

Served(k, s, done) ==
    /\ \A i \in DOMAIN s.down : s.down[i].type = "close" => s.down[i].code # "PROTOCOL"
    /\ s.open =>
          /\ k.wanted # {} => k.wanted \subseteq k.claimed \/ k.asking \/ k.awaiting
          /\ k.awaiting => Answering(s)
          /\ \A r \in k.claimed : Stage(k, s, r, done)

PipeInd ==
    \A b \in Browsers :
        /\ tabs[b].socket = "open" => connections[b] # <<>> /\ Linked(tabs[b], At(Current(b)))
        /\ b \notin excused =>
              /\ tabs[b].socket = "open" => Served(tabs[b], At(Current(b)), ended)
              /\ tabs[b].socket = "none" => tabs[b].retry \/ tabs[b].wanted = {}

------------------------------------------------------------------------------
(* Who may be told. *)

\* What was published too late for a viewer is kept from it: an event that
\* waits for its re-check by the answer, and an event that is queued because the
\* credential has expired, or because nobody who could let it pass is left and
\* no decision that did is in force.  What nobody had authenticated for is late
\* for nobody who authenticates afterwards.
Apt(s, e) == s.viewer = Anonymous => e.late \subseteq {Anonymous}
Timely(s, r, may) ==
    /\ \A i \in DOMAIN s.checks[r].waiting :
          /\ Apt(s, s.checks[r].waiting[i])
          /\ s.viewer \in s.checks[r].waiting[i].late => ~s.checks[r].allowed
    /\ \A i \in DOMAIN s.subs[r].queue :
          /\ Apt(s, s.subs[r].queue[i])
          /\ s.viewer \in s.subs[r].queue[i].late =>
                s.expired \/ (s.viewer \notin may /\ ~s.subs[r].fresh /\ ~s.checks[r].allowed)

\* The connections of a tab speak for who is at it, or for nobody.
Clean(s, who, may) ==
    /\ s.viewer \in {Anonymous, who}
    /\ \A i \in DOMAIN s.up : s.up[i].type = "authenticate" => s.up[i].viewer = who
    /\ \A i \in DOMAIN s.down : s.down[i].type \in {"progress", "complete"} => ~s.down[i].late
    /\ s.open => \A r \in Runs : Timely(s, r, may)

CleanInd == \A id \in Ids : Clean(At(id), setting.people[id[1]], readers)

WorldInd ==
    /\ setting \in Settings
    /\ ended \subseteq setting.runs /\ announced \subseteq ended
    /\ reported \in [Runs -> Nat]
    /\ excused \subseteq Browsers

Ind == WorldInd /\ SocketInd /\ BusInd /\ TabInd /\ PipeInd /\ CleanInd

------------------------------------------------------------------------------
(* The connections there are. *)

\* The name of a connection is a tab and a place among its connections.
LEMMA IdsAre ==
  ASSUME Typed
  PROVE  /\ \A b \in Browsers : \A n \in DOMAIN connections[b] : <<b, n>> \in Ids
         /\ \A id \in Ids : /\ id[1] \in Browsers /\ id[2] \in DOMAIN connections[id[1]]
                            /\ id = <<id[1], id[2]>> /\ id \in Browsers \X Nat
                            /\ At(id) \in Conns
<1>1. \A b \in Browsers : DOMAIN connections[b] \subseteq Nat
  BY DEF Typed
<1>2. \A b \in Browsers : \A n \in DOMAIN connections[b] : <<b, n>> \in Ids
  BY DEF Ids
<1>3. ASSUME NEW id \in Ids
      PROVE  /\ id[1] \in Browsers /\ id[2] \in DOMAIN connections[id[1]]
             /\ id = <<id[1], id[2]>> /\ id \in Browsers \X Nat
             /\ At(id) \in Conns
  <2>1. PICK b \in Browsers : id \in {<<b, n>> : n \in DOMAIN connections[b]}
    BY DEF Ids
  <2>2. PICK n \in DOMAIN connections[b] : id = <<b, n>>
    BY <2>1
  <2>3. id[1] = b /\ id[2] = n
    BY <2>2
  <2>4. connections[b][n] \in Conns
    BY DEF Typed
  <2> QED
    BY <1>1, <2>2, <2>3, <2>4 DEF At
<1> QED
  BY <1>2, <1>3

\* The last connection of a tab is one of them.
LEMMA CurrentIs ==
  ASSUME Typed, NEW b \in Browsers, connections[b] # <<>>
  PROVE  Current(b) \in Ids /\ Connection(b) = At(Current(b)) /\ At(Current(b)) \in Conns
<1>1. connections[b] \in Seq(Conns)
  BY DEF Typed
<1>2. Len(connections[b]) \in DOMAIN connections[b]
  BY <1>1
<1> QED
  BY <1>2, IdsAre DEF Current, Connection

\* What replacing one connection does to all of them.
LEMMA ReplacedMakes ==
  ASSUME Typed, NEW id \in Ids, NEW s \in Conns, connections' = Replaced(id, s)
  PROVE  /\ Typed' /\ Ids' = Ids
         /\ At(id)' = s
         /\ \A jd \in Ids : jd # id => At(jd)' = At(jd)
         /\ \A b \in Browsers : /\ Current(b)' = Current(b)
                                /\ (connections[b] = <<>>) <=> (connections'[b] = <<>>)
<1>1. /\ id[1] \in Browsers /\ id[2] \in DOMAIN connections[id[1]] /\ id = <<id[1], id[2]>>
  BY IdsAre
<1>2. PICK c, m : c = id[1] /\ m = id[2]
  OBVIOUS
<1>3. connections' = [connections EXCEPT ![c][m] = s]
  BY <1>2 DEF Replaced
<1>4. c \in Browsers /\ m \in DOMAIN connections[c] /\ id = <<c, m>>
  BY <1>1, <1>2
<1>5. connections[c] \in Seq(Conns)
  BY <1>4 DEF Typed
<1>6. PICK row : row = [connections[c] EXCEPT ![m] = s]
  OBVIOUS
<1>7. row \in Seq(Conns) /\ Len(row) = Len(connections[c]) /\ DOMAIN row = DOMAIN connections[c]
  BY <1>4, <1>5, <1>6
<1>8. connections' = [connections EXCEPT ![c] = row]
  BY <1>3, <1>6
<1>9. /\ DOMAIN connections' = Browsers
      /\ connections'[c] = row /\ \A b \in Browsers : b # c => connections'[b] = connections[b]
  BY <1>4, <1>8 DEF Typed
<1>10. Typed'
  BY <1>4, <1>7, <1>8 DEF Typed
<1>11. \A b \in Browsers : DOMAIN connections'[b] = DOMAIN connections[b] /\ Len(connections'[b]) = Len(connections[b])
  BY <1>7, <1>9
<1>12. Ids' = Ids
  BY <1>11 DEF Ids
<1>13. At(id)' = s
  BY <1>4, <1>5, <1>6, <1>9 DEF At
<1>14. ASSUME NEW jd \in Ids, jd # id PROVE At(jd)' = At(jd)
  <2>1. jd[1] \in Browsers /\ jd[2] \in DOMAIN connections[jd[1]] /\ jd = <<jd[1], jd[2]>>
    BY IdsAre
  <2>2. jd[1] # c \/ jd[2] # m
    BY <1>4, <1>14, <2>1
  <2>3. CASE jd[1] # c
    BY <1>9, <2>1, <2>3 DEF At
  <2>4. CASE jd[1] = c /\ jd[2] # m
    <3>1. row[jd[2]] = connections[c][jd[2]]
      BY <1>5, <1>6, <2>1, <2>4
    <3> QED
      BY <1>9, <2>4, <3>1 DEF At
  <2> QED
    BY <2>2, <2>3, <2>4
<1>15. \A b \in Browsers : connections[b] \in Seq(Conns) /\ connections'[b] \in Seq(Conns)
  BY <1>10 DEF Typed
<1>16. \A b \in Browsers : /\ Current(b)' = Current(b)
                           /\ (connections[b] = <<>>) <=> (connections'[b] = <<>>)
  BY <1>11, <1>15 DEF Current
<1> QED
  BY <1>10, <1>12, <1>13, <1>14, <1>16

------------------------------------------------------------------------------
(* What the helpers make of a connection. *)

\* But for the frames, nothing is different.
SameInside(s, n) ==
    /\ n.open = s.open /\ n.lost = s.lost /\ n.viewer = s.viewer /\ n.expired = s.expired
    /\ n.busy = s.busy /\ n.asked = s.asked /\ n.found = s.found /\ n.subs = s.subs /\ n.checks = s.checks

\* What the process has said stands, and f is said after it.
Adds(s, n, f) == n.down = IF s.open /\ ~s.lost THEN Append(s.down, f) ELSE s.down

\* A frame that is said is the last one of an open connection.
LEMMA SayMakes ==
  ASSUME NEW s \in Conns, NEW f \in DownFrames
  PROVE  /\ Say(s, f) \in Conns /\ SameInside(s, Say(s, f))
         /\ Say(s, f).up = s.up /\ Adds(s, Say(s, f), f)
<1>1. CASE s.open /\ ~s.lost
  <2>1. PICK d : d = Append(s.down, f)
    OBVIOUS
  <2>2. d \in Seq(DownFrames)
    BY <2>1 DEF Conns
  <2>3. Say(s, f) = [s EXCEPT !.down = d]
    BY <1>1, <2>1 DEF Say
  <2> QED
    BY <1>1, <2>1, <2>2, <2>3 DEF Conns, SameInside, Adds
<1>2. CASE ~(s.open /\ ~s.lost)
  BY <1>2 DEF Say, SameInside, Adds
<1> QED
  BY <1>1, <1>2

\* A frame that is taken is the first one, and the others are left.
LEMMA TakenMakes ==
  ASSUME NEW s \in Conns, s.up # <<>>
  PROVE  /\ Taken(s) \in Conns /\ SameInside(s, Taken(s))
         /\ Taken(s).up = Tail(s.up) /\ Taken(s).down = s.down
         /\ Head(s.up) \in UpFrames
<1>1. PICK u : u = Tail(s.up)
  OBVIOUS
<1>2. s.up \in Seq(UpFrames)
  BY DEF Conns
<1>3. u \in Seq(UpFrames) /\ Head(s.up) \in UpFrames
  BY <1>1, <1>2
<1>4. Taken(s) = [s EXCEPT !.up = u]
  BY <1>1 DEF Taken
<1> QED
  BY <1>1, <1>3, <1>4 DEF Conns, SameInside

\* A connection that is done is idle, and as it was.
LEMMA DoneMakes ==
  ASSUME NEW s \in Conns
  PROVE  /\ Done(s) \in Conns
         /\ Done(s).open = s.open /\ Done(s).lost = s.lost /\ Done(s).viewer = s.viewer
         /\ Done(s).expired = s.expired /\ Done(s).subs = s.subs /\ Done(s).checks = s.checks
         /\ Done(s).up = s.up /\ Done(s).down = s.down
         /\ Done(s).busy = "idle" /\ Done(s).asked = Anonymous /\ Done(s).found = "nothing"
  BY DEF Done, Conns

\* A subscription that is none.
LEMMA NoneIs ==
  /\ NoSubscription \in Subs /\ NoSubscription.at = "none" /\ NoSubscription.queue = <<>>
  /\ ~NoSubscription.early
<1>1. <<>> \in Seq(Events)
  OBVIOUS
<1> QED
  BY <1>1 DEF NoSubscription, Subs

\* A subscription that was just made.
LEMMA SubscribedIs ==
  Subscribed \in Subs /\ Subscribed.at = "live" /\ Subscribed.queue = <<>>
<1>1. PICK p : p = NoSubscription
  OBVIOUS
<1>2. p \in Subs /\ p.queue = <<>>
  BY <1>1, NoneIs
<1>3. Subscribed = [p EXCEPT !.at = "live", !.fresh = TRUE]
  BY <1>1 DEF Subscribed
<1> QED
  BY <1>2, <1>3 DEF Subs

\* One subscription is another one.
LEMMA SubMakes ==
  ASSUME NEW s \in Conns, NEW r \in Runs, NEW t \in Subs
  PROVE  LET n == [s EXCEPT !.subs[r] = t]
         IN  /\ n \in Conns /\ n.up = s.up /\ n.down = s.down
             /\ n.open = s.open /\ n.lost = s.lost /\ n.viewer = s.viewer /\ n.expired = s.expired
             /\ n.busy = s.busy /\ n.asked = s.asked /\ n.found = s.found /\ n.checks = s.checks
             /\ n.subs[r] = t /\ \A q \in Runs : q # r => n.subs[q] = s.subs[q]
<1>1. PICK m : m = [s.subs EXCEPT ![r] = t]
  OBVIOUS
<1>2. s.subs \in [Runs -> Subs]
  BY DEF Conns
<1>3. m \in [Runs -> Subs] /\ m[r] = t /\ \A q \in Runs : q # r => m[q] = s.subs[q]
  BY <1>1, <1>2
<1>4. [s EXCEPT !.subs[r] = t] = [s EXCEPT !.subs = m]
  BY <1>1
<1>5. PICK n : n = [s EXCEPT !.subs = m]
  OBVIOUS
<1>6. /\ n \in Conns /\ n.up = s.up /\ n.down = s.down
      /\ n.open = s.open /\ n.lost = s.lost /\ n.viewer = s.viewer /\ n.expired = s.expired
      /\ n.busy = s.busy /\ n.asked = s.asked /\ n.found = s.found /\ n.checks = s.checks /\ n.subs = m
  BY <1>3, <1>5 DEF Conns
<1> QED
  BY <1>3, <1>4, <1>5, <1>6

\* Nothing is read again.
LEMMA NoCheckIs ==
  /\ NoCheck \in Checks /\ NoCheck.waiting = <<>> /\ ~NoCheck.allowed
<1>1. <<>> \in Seq(Events)
  OBVIOUS
<1> QED
  BY <1>1 DEF NoCheck, Checks

\* A connection that was accepted.
LEMMA AcceptedIs ==
  /\ Accepted \in Conns /\ Accepted.open /\ ~Accepted.lost /\ Accepted.busy = "idle"
  /\ Accepted.found = "nothing" /\ Accepted.up = <<>> /\ Accepted.down = <<[type |-> "ready", viewer |-> Anonymous]>>
  /\ Accepted.viewer = Anonymous
  /\ \A r \in Runs : Accepted.subs[r] = NoSubscription
  /\ Accepted.checks \in [Runs -> Checks] /\ \A r \in Runs : Accepted.checks[r] = NoCheck
<1>1. PICK f : f = [type |-> "ready", viewer |-> Anonymous]
  OBVIOUS
<1>2. f \in DownFrames
  BY <1>1 DEF DownFrames, Viewers
<1>3. <<f>> \in Seq(DownFrames) /\ <<>> \in Seq(UpFrames)
  BY <1>2
<1>4. PICK m : m = [r \in Runs |-> NoSubscription]
  OBVIOUS
<1>5. m \in [Runs -> Subs]
  BY <1>4, NoneIs
<1>6. PICK c : c = [r \in Runs |-> NoCheck]
  OBVIOUS
<1>7. c \in [Runs -> Checks]
  BY <1>6, NoCheckIs
<1>8. Accepted = [open |-> TRUE, lost |-> FALSE, viewer |-> Anonymous, expired |-> FALSE, busy |-> "idle",
                  asked |-> Anonymous, found |-> "nothing", subs |-> m, checks |-> c, up |-> <<>>, down |-> <<f>>]
  BY <1>1, <1>4, <1>6 DEF Accepted
<1> QED
  BY <1>1, <1>3, <1>4, <1>5, <1>6, <1>7, <1>8 DEF Conns, Viewers

\* A connection that has closed has nothing but what is still waited for.
Closed(s, n) ==
    /\ ~n.open /\ ~n.lost /\ n.up = <<>>
    /\ n.busy = s.busy /\ n.asked = s.asked /\ n.found = s.found /\ n.checks = s.checks
    /\ n.viewer = Anonymous
    /\ \A r \in Runs : n.subs[r] = NoSubscription

\* Closing says nothing.
LEMMA CloseMakes ==
  ASSUME NEW s \in Conns
  PROVE  Close(s) \in Conns /\ Closed(s, Close(s)) /\ Close(s).down = <<>>
<1>1. PICK a : a = Accepted
  OBVIOUS
<1>2. a \in Conns /\ ~a.lost /\ a.up = <<>> /\ a.viewer = Anonymous /\ \A r \in Runs : a.subs[r] = NoSubscription
  BY <1>1, AcceptedIs
<1>3. <<>> \in Seq(DownFrames)
  OBVIOUS
<1>4. PICK c : c = [a EXCEPT !.open = FALSE, !.down = <<>>]
  OBVIOUS
<1>5. /\ c \in Conns /\ ~c.open /\ ~c.lost /\ c.up = <<>> /\ c.down = <<>> /\ c.viewer = Anonymous
      /\ \A r \in Runs : c.subs[r] = NoSubscription
  BY <1>2, <1>3, <1>4 DEF Conns
<1>6. s.busy \in {"idle", "reading", "opening"} /\ s.asked \in Runs \cup {Anonymous} /\ s.found \in {"nothing", "ended", "open"}
  BY DEF Conns
<1>7. PICK e : e = [c EXCEPT !.busy = s.busy, !.asked = s.asked]
  OBVIOUS
<1>8. /\ e \in Conns /\ ~e.open /\ ~e.lost /\ e.up = <<>> /\ e.down = <<>> /\ e.viewer = Anonymous
      /\ e.busy = s.busy /\ e.asked = s.asked
      /\ \A r \in Runs : e.subs[r] = NoSubscription
  BY <1>5, <1>6, <1>7 DEF Conns
<1>9. PICK g : g = [e EXCEPT !.found = s.found]
  OBVIOUS
<1>10. /\ g \in Conns /\ ~g.open /\ ~g.lost /\ g.up = <<>> /\ g.down = <<>> /\ g.viewer = Anonymous
       /\ g.busy = s.busy /\ g.asked = s.asked /\ g.found = s.found
       /\ \A r \in Runs : g.subs[r] = NoSubscription
  BY <1>6, <1>8, <1>9 DEF Conns
<1>11. Close(s) = [g EXCEPT !.checks = s.checks]
  BY <1>1, <1>2, <1>4, <1>7, <1>9 DEF Close, Conns
<1>12. s.checks \in [Runs -> Checks]
  BY DEF Conns
<1> QED
  BY <1>10, <1>11, <1>12 DEF Conns, Closed

\* Shutting says why.
LEMMA ShutMakes ==
  ASSUME NEW s \in Conns, NEW code \in Codes
  PROVE  /\ Shut(s, code) \in Conns /\ Closed(s, Shut(s, code))
         /\ Adds(s, Shut(s, code), [type |-> "close", code |-> code])
<1>1. [type |-> "close", code |-> code] \in DownFrames
  BY DEF DownFrames
<1>2. PICK t : t = Say(s, [type |-> "close", code |-> code])
  OBVIOUS
<1>3. t \in Conns /\ Adds(s, t, [type |-> "close", code |-> code])
  BY <1>1, <1>2, SayMakes
<1>4. PICK c : c = Close(s)
  OBVIOUS
<1>5. c \in Conns /\ Closed(s, c)
  BY <1>4, CloseMakes
<1>6. Shut(s, code) = [c EXCEPT !.down = t.down]
  BY <1>2, <1>4 DEF Shut
<1>7. t.down \in Seq(DownFrames)
  BY <1>3 DEF Conns
<1>8. PICK n : n = [c EXCEPT !.down = t.down]
  OBVIOUS
<1>9. n \in Conns /\ Closed(s, n) /\ n.down = t.down
  BY <1>5, <1>7, <1>8 DEF Conns, Closed
<1> QED
  BY <1>3, <1>6, <1>8, <1>9 DEF Adds

------------------------------------------------------------------------------
(* What is said. *)

\* What was said stands, and what is said after it.
Grows(s, n) == DOMAIN s.down \subseteq DOMAIN n.down /\ \A i \in DOMAIN s.down : n.down[i] = s.down[i]
Said(s, n) == {n.down[i] : i \in DOMAIN n.down \ DOMAIN s.down}

\* One frame more, at most.
LEMMA AddsGrows ==
  ASSUME NEW s \in Conns, NEW n, NEW f, Adds(s, n, f)
  PROVE  /\ Grows(s, n) /\ Said(s, n) \subseteq {f}
         /\ s.open /\ ~s.lost => Hears(n, f)
<1>1. s.down \in Seq(DownFrames)
  BY DEF Conns
<1>2. CASE s.open /\ ~s.lost
  <2>1. n.down = Append(s.down, f)
    BY <1>2 DEF Adds
  <2>2. DOMAIN n.down = 1 .. Len(s.down) + 1 /\ DOMAIN s.down = 1 .. Len(s.down) /\ Len(s.down) \in Nat
    BY <1>1, <2>1
  <2>3. n.down[Len(s.down) + 1] = f /\ \A i \in DOMAIN s.down : n.down[i] = s.down[i]
    BY <1>1, <2>1, <2>2
  <2>4. DOMAIN n.down \ DOMAIN s.down = {Len(s.down) + 1} /\ DOMAIN s.down \subseteq DOMAIN n.down
    BY <2>2
  <2>5. Len(s.down) + 1 \in DOMAIN n.down
    BY <2>4
  <2> QED
    BY <2>3, <2>4, <2>5 DEF Grows, Said, Hears
<1>3. CASE ~(s.open /\ ~s.lost)
  BY <1>3 DEF Adds, Grows, Said
<1> QED
  BY <1>2, <1>3

\* What is heard is still heard.
LEMMA GrowsHears ==
  ASSUME NEW s, NEW n, Grows(s, n)
  PROVE  /\ \A f : Hears(s, f) => Hears(n, f)
         /\ Closing(s) => Closing(n)
         /\ \A r : Completes(s, r) => Completes(n, r)
  BY DEF Grows, Hears, Closing, Completes

\* And what is said twice is said in order.
LEMMA GrowsTwice ==
  ASSUME NEW s, NEW m, NEW n, Grows(s, m), Grows(m, n)
  PROVE  Grows(s, n) /\ Said(s, n) \subseteq Said(s, m) \cup Said(m, n)
<1>1. Grows(s, n)
  BY DEF Grows
<1>2. ASSUME NEW i \in DOMAIN n.down \ DOMAIN s.down PROVE n.down[i] \in Said(s, m) \cup Said(m, n)
  <2>1. CASE i \in DOMAIN m.down
    <3>1. n.down[i] = m.down[i]
      BY <2>1 DEF Grows
    <3> QED
      BY <1>2, <2>1, <3>1 DEF Said
  <2>2. CASE i \notin DOMAIN m.down
    BY <1>2, <2>2 DEF Said
  <2> QED
    BY <2>1, <2>2
<1> QED
  BY <1>1, <1>2 DEF Said

\* The same frames are no growth and no loss.
LEMMA SameGrows ==
  ASSUME NEW s, NEW n, n.down = s.down
  PROVE  Grows(s, n) /\ Said(s, n) = {}
  BY DEF Grows, Said

------------------------------------------------------------------------------
(* What a delivery makes of a connection. *)

Reasons == {"unauthorised", "finished"}
Ending(r, why) == [type |-> "unsubscribed", run |-> r, reason |-> why]

\* Everything but one subscription, and what is said.
Around(s, n, r) ==
    /\ n.up = s.up /\ n.open = s.open /\ n.lost = s.lost /\ n.viewer = s.viewer /\ n.expired = s.expired
    /\ n.busy = s.busy /\ n.asked = s.asked /\ n.found = s.found
    /\ \A q \in Runs : q # r => n.subs[q] = s.subs[q] /\ n.checks[q] = s.checks[q]

\* A subscription that ends is told so, unless there was none.
LEMMA EndMakes ==
  ASSUME NEW s \in Conns, NEW r \in Runs, NEW why \in Reasons
  PROVE  LET n == EndSubscription(s, r, why)
         IN  /\ n \in Conns /\ Around(s, n, r) /\ n.checks = s.checks
             /\ \/ n = s /\ s.subs[r].at = "none"
                \/ n.subs[r] = NoSubscription /\ Adds(s, n, Ending(r, why))
<1>1. CASE s.subs[r].at = "none"
  BY <1>1 DEF EndSubscription, Around
<1>2. CASE s.subs[r].at # "none"
  <2>1. PICK m : m = [s EXCEPT !.subs[r] = NoSubscription]
    OBVIOUS
  <2>2. /\ m \in Conns /\ m.up = s.up /\ m.down = s.down
        /\ m.open = s.open /\ m.lost = s.lost /\ m.viewer = s.viewer /\ m.expired = s.expired
        /\ m.busy = s.busy /\ m.asked = s.asked /\ m.found = s.found /\ m.checks = s.checks
        /\ m.subs[r] = NoSubscription /\ \A q \in Runs : q # r => m.subs[q] = s.subs[q]
    BY <2>1, NoneIs, SubMakes
  <2>3. Ending(r, why) \in DownFrames
    BY DEF Ending, DownFrames, Reasons
  <2>4. PICK n : n = Say(m, Ending(r, why))
    OBVIOUS
  <2>5. n \in Conns /\ SameInside(m, n) /\ n.up = m.up /\ Adds(m, n, Ending(r, why))
    BY <2>2, <2>3, <2>4, SayMakes
  <2>6. EndSubscription(s, r, why) = n
    BY <1>2, <2>1, <2>4 DEF EndSubscription, Ending
  <2>7. Adds(s, n, Ending(r, why))
    BY <2>2, <2>5 DEF Adds
  <2>8. Around(s, n, r) /\ n.subs[r] = NoSubscription /\ n.checks = s.checks
    BY <2>2, <2>5 DEF SameInside, Around
  <2> QED
    BY <2>5, <2>6, <2>7, <2>8
<1> QED
  BY <1>1, <1>2

\* The events that are left.
Fewer(t, u) == \A i \in DOMAIN u.queue : \E j \in DOMAIN t.queue : u.queue[i] = t.queue[j]

\* The next event, and the events behind it.
LEMMA NextEvent ==
  ASSUME NEW t \in Subs, t.queue # <<>>
  PROVE  /\ Head(t.queue) \in Events /\ Tail(t.queue) \in Seq(Events)
         /\ Head(t.queue) = t.queue[1] /\ 1 \in DOMAIN t.queue
         /\ \A i \in DOMAIN Tail(t.queue) : \E j \in DOMAIN t.queue : Tail(t.queue)[i] = t.queue[j]
<1>1. PICK q : q = t.queue
  OBVIOUS
<1>2. q \in Seq(Events) /\ q # <<>>
  BY <1>1 DEF Subs
<1>3. Head(q) \in Events /\ Tail(q) \in Seq(Events) /\ Head(q) = q[1] /\ 1 \in DOMAIN q
  BY <1>2
<1>4. \A i \in DOMAIN Tail(q) : i + 1 \in DOMAIN q /\ Tail(q)[i] = q[i + 1]
  BY <1>2
<1> QED
  BY <1>1, <1>3, <1>4

\* What may come of a subscription to r when an event of it is handled.
Delivered(s, n, r) ==
    \/ n.subs[r].at = s.subs[r].at /\ n.subs[r].early = s.subs[r].early /\ Fewer(s.subs[r], n.subs[r])
    \/ /\ n.subs[r] = NoSubscription
       /\ s.open /\ ~s.lost => Hears(n, Ending(r, "unauthorised")) \/ (Completes(n, r) /\ r \in ended)

\* An event that is taken leaves the ones behind it.
LEMMA ShiftMakes ==
  ASSUME NEW s \in Conns, NEW r \in Runs, s.subs[r].queue # <<>>
  PROVE  LET n == Shift(s, r)
         IN  /\ n \in Conns /\ Around(s, n, r) /\ n.checks = s.checks /\ n.down = s.down
             /\ n.subs[r].at = s.subs[r].at /\ n.subs[r].early = s.subs[r].early
             /\ n.subs[r].fresh = s.subs[r].fresh /\ Fewer(s.subs[r], n.subs[r])
<1>1. PICK t : t = s.subs[r]
  OBVIOUS
<1>2. t \in Subs /\ t.queue # <<>>
  BY <1>1 DEF Conns
<1>3. Tail(t.queue) \in Seq(Events)
  BY <1>2, NextEvent
<1>4. PICK u : u = [t EXCEPT !.queue = Tail(t.queue)]
  OBVIOUS
<1>5. u \in Subs /\ u.at = t.at /\ u.early = t.early /\ u.fresh = t.fresh /\ u.queue = Tail(t.queue)
  BY <1>2, <1>3, <1>4 DEF Subs
<1>6. Fewer(t, u)
  BY <1>2, <1>5, NextEvent DEF Fewer
<1>7. PICK rest : rest = [s EXCEPT !.subs[r] = u]
  OBVIOUS
<1>8. /\ rest \in Conns /\ rest.up = s.up /\ rest.down = s.down
      /\ rest.open = s.open /\ rest.lost = s.lost /\ rest.viewer = s.viewer /\ rest.expired = s.expired
      /\ rest.busy = s.busy /\ rest.asked = s.asked /\ rest.found = s.found /\ rest.checks = s.checks
      /\ rest.subs[r] = u /\ \A q \in Runs : q # r => rest.subs[q] = s.subs[q]
  BY <1>5, <1>7, SubMakes
<1>9. rest = Shift(s, r)
  BY <1>1, <1>4, <1>7 DEF Conns, Shift
<1> QED
  BY <1>1, <1>5, <1>6, <1>8, <1>9 DEF Around

\* The frame of an event.
Frames(s, r, e) == [type |-> e.type, run |-> r, late |-> s.viewer \in e.late]

\* Telling an event touches one subscription, drops no frame and closes
\* nothing, and a completion that is told is the end of it.
LEMMA TellMakes ==
  ASSUME NEW s \in Conns, NEW r \in Runs, NEW e \in Events
  PROVE  LET n == Tell(s, r, e)
         IN  /\ n \in Conns /\ Around(s, n, r) /\ n.checks = s.checks /\ Grows(s, n)
             /\ Said(s, n) \subseteq {Frames(s, r, e), Ending(r, "finished")}
             /\ ~s.open => n.down = s.down
             /\ \/ /\ n.subs[r].at = s.subs[r].at /\ n.subs[r].early = s.subs[r].early
                   /\ n.subs[r].fresh = s.subs[r].fresh /\ n.subs[r].queue = s.subs[r].queue
                \/ /\ n.subs[r] = NoSubscription /\ e.type = "complete"
                   /\ s.open /\ ~s.lost => Completes(n, r)
<1>1. PICK t : t = s.subs[r]
  OBVIOUS
<1>2. t \in Subs /\ e.time \in Nat /\ e.type \in {"progress", "complete"} /\ s.checks \in [Runs -> Checks]
  BY <1>1 DEF Conns, Events
<1>3. PICK v : v = [t EXCEPT !.delivered = e.time]
  OBVIOUS
<1>4. v \in Subs /\ v.at = t.at /\ v.early = t.early /\ v.fresh = t.fresh /\ v.queue = t.queue
  BY <1>2, <1>3 DEF Subs
<1>5. PICK mark : mark = [s EXCEPT !.subs[r] = v]
  OBVIOUS
<1>6. /\ mark \in Conns /\ mark.up = s.up /\ mark.down = s.down
      /\ mark.open = s.open /\ mark.lost = s.lost /\ mark.viewer = s.viewer /\ mark.expired = s.expired
      /\ mark.busy = s.busy /\ mark.asked = s.asked /\ mark.found = s.found /\ mark.checks = s.checks
      /\ mark.subs[r] = v /\ \A q \in Runs : q # r => mark.subs[q] = s.subs[q]
  BY <1>4, <1>5, SubMakes
<1>7. mark = [s EXCEPT !.subs[r].delivered = e.time]
  BY <1>1, <1>3, <1>5 DEF Conns
<1>8. PICK f : f = Frames(s, r, e)
  OBVIOUS
<1>9. f \in DownFrames /\ f.run = r /\ f.type = e.type
  BY <1>2, <1>8 DEF DownFrames, Frames
<1>10. PICK sent : sent = Say(mark, f)
  OBVIOUS
<1>11. sent \in Conns /\ SameInside(mark, sent) /\ sent.up = mark.up /\ Adds(mark, sent, f)
  BY <1>6, <1>9, <1>10, SayMakes
<1>12. Adds(s, sent, f) /\ Around(s, sent, r) /\ sent.subs[r] = v /\ sent.checks = s.checks
  BY <1>6, <1>11 DEF Adds, SameInside, Around
<1>13. /\ Grows(s, sent) /\ Said(s, sent) \subseteq {f} /\ (s.open /\ ~s.lost => Hears(sent, f))
  BY <1>12, AddsGrows
<1>14. Tell(s, r, e) = IF e.type = "complete" THEN EndSubscription(sent, r, "finished") ELSE sent
  BY <1>7, <1>8, <1>10 DEF Tell, Frames
<1>17. ~s.open => sent.down = s.down
  BY <1>12 DEF Adds
<1>15. CASE e.type = "complete"
  <2>1. PICK n : n = EndSubscription(sent, r, "finished")
    OBVIOUS
  <2>2. Tell(s, r, e) = n
    BY <1>14, <1>15, <2>1
  <2>3. /\ n \in Conns /\ Around(sent, n, r) /\ n.checks = sent.checks
        /\ \/ n = sent /\ sent.subs[r].at = "none"
           \/ n.subs[r] = NoSubscription /\ Adds(sent, n, Ending(r, "finished"))
    BY <1>11, <2>1, EndMakes DEF Reasons
  <2>4. Around(s, n, r)
    BY <1>12, <2>3 DEF Around
  <2>5. CASE n = sent
    BY <1>1, <1>4, <1>8, <1>12, <1>13, <1>17, <2>2, <2>3, <2>4, <2>5
  <2>6. CASE n.subs[r] = NoSubscription /\ Adds(sent, n, Ending(r, "finished"))
    <3>1. Grows(sent, n) /\ Said(sent, n) \subseteq {Ending(r, "finished")}
      BY <1>11, <2>6, AddsGrows
    <3>2. Grows(s, n) /\ Said(s, n) \subseteq {f, Ending(r, "finished")}
      BY <1>13, <3>1, GrowsTwice
    <3>3. s.open /\ ~s.lost => Hears(n, f)
      BY <1>13, <3>1, GrowsHears
    <3>4. s.open /\ ~s.lost => Completes(n, r)
      BY <1>9, <1>15, <3>3 DEF Completes, Hears
    <3>5. ~s.open => n.down = s.down
      BY <1>12, <1>17, <2>6 DEF Adds, Around
    <3> QED
      BY <1>8, <1>12, <1>15, <2>2, <2>3, <2>4, <2>6, <3>2, <3>4, <3>5
  <2> QED
    BY <2>3, <2>5, <2>6
<1>16. CASE e.type # "complete"
  BY <1>1, <1>4, <1>8, <1>11, <1>12, <1>13, <1>14, <1>16, <1>17
<1> QED
  BY <1>15, <1>16

------------------------------------------------------------------------------
(* The commands of a release. *)

\* A finite set in some order: everything in it, and nothing twice.
LEMMA InOrder ==
  ASSUME NEW S, IsFiniteSet(S)
  PROVE  /\ SetToSeq(S) \in Seq(S)
         /\ \A x \in S : \E i \in DOMAIN SetToSeq(S) : SetToSeq(S)[i] = x
         /\ \A i, j \in DOMAIN SetToSeq(S) : SetToSeq(S)[i] = SetToSeq(S)[j] => i = j
<1>1. Cardinality(S) \in Nat /\ ExistsBijection(1 .. Cardinality(S), S)
  BY FS_CardinalityType
<1>2. PICK n \in Nat : n = Cardinality(S)
  BY <1>1
<1>3. \E f \in [1 .. n -> S] : IsInjective(f)
  BY <1>1, <1>2 DEF ExistsBijection, Bijection, Injection
<1>4. PICK f : f = SetToSeq(S)
  OBVIOUS
<1>5. f = CHOOSE g \in [1 .. n -> S] : IsInjective(g)
  BY <1>2, <1>4 DEF SetToSeq
<1>6. f \in [1 .. n -> S] /\ IsInjective(f)
  BY <1>3, <1>5
<1>7. f \in Seq(S) /\ DOMAIN f = 1 .. n
  BY <1>6
<1>8. f \in Injection(1 .. n, S)
  BY <1>6 DEF Injection
<1>9. IsFiniteSet(1 .. n) /\ Cardinality(1 .. n) = n
  <2>1. 1 \in Int /\ n \in Int
    BY <1>2
  <2> QED
    BY <1>2, FS_Interval, <2>1
<1>10. f \in Surjection(1 .. n, S)
  BY <1>2, <1>8, <1>9, FS_Injection
<1>11. \A x \in S : \E i \in DOMAIN f : f[i] = x
  BY <1>7, <1>10 DEF Surjection
<1>12. \A i, j \in DOMAIN f : f[i] = f[j] => i = j
  BY <1>6 DEF IsInjective
<1> QED
  BY <1>4, <1>7, <1>11, <1>12

\* The runs whose last listener goes.
Emptied(u, id, runs) == {r \in runs : u.channels[r] = {id}}
Silence(r) == [op |-> "unsubscribe", run |-> r]

\* One listener is out of its channels, and Redis is told of those that are
\* empty now.
Released(u, v, id, runs) ==
    /\ v \in Buses /\ v.redis = u.redis
    /\ \A r \in Runs : v.channels[r] = IF r \in runs THEN u.channels[r] \ {id} ELSE u.channels[r]
    /\ \E t \in Seq(Commands) :
          /\ v.commands = u.commands \o t
          /\ \A i \in DOMAIN t : \E r \in Emptied(u, id, runs) : t[i] = Silence(r)
          /\ \A r \in Emptied(u, id, runs) : \E i \in DOMAIN t : t[i] = Silence(r)

\* That is what a release does.
LEMMA ReleaseMakes ==
  ASSUME NEW u \in Buses, NEW id, NEW runs \in SUBSET Runs
  PROVE  Released(u, Release(u, id, runs), id, runs)
<1>1. PICK gone : gone = Emptied(u, id, runs)
  OBVIOUS
<1>2. gone \subseteq Runs /\ IsFiniteSet(gone)
  <2>1. gone \in SUBSET Runs
    BY <1>1 DEF Emptied
  <2> QED
    BY <2>1, SettingsAssumption, FS_Subset
<1>3. PICK orders : orders = {Silence(r) : r \in gone}
  OBVIOUS
<1>4. IsFiniteSet(orders)
  <2>1. PICK f : f = [r \in gone |-> Silence(r)]
    OBVIOUS
  <2>2. f \in Surjection(gone, orders)
    BY <1>3, <2>1 DEF Surjection
  <2> QED
    BY <1>2, <2>2, FS_Surjection
<1>5. PICK t : t = SetToSeq(orders)
  OBVIOUS
<1>6. t \in Seq(orders) /\ \A x \in orders : \E i \in DOMAIN t : t[i] = x
  BY <1>4, <1>5, InOrder
<1>7. orders \subseteq Commands
  BY <1>2, <1>3 DEF Silence, Commands
<1>8. t \in Seq(Commands)
  BY <1>6, <1>7
<1>9. /\ \A i \in DOMAIN t : \E r \in gone : t[i] = Silence(r)
      /\ \A r \in gone : \E i \in DOMAIN t : t[i] = Silence(r)
  <2>1. \A i \in DOMAIN t : t[i] \in orders
    BY <1>6
  <2> QED
    BY <1>3, <1>6, <2>1
<1>10. u.channels \in [Runs -> SUBSET (Browsers \X Nat)] /\ u.commands \in Seq(Commands) /\ u.redis \in SUBSET Runs
  BY DEF Buses
<1>11. PICK c : c = [r \in Runs |-> u.channels[r] \ (IF r \in runs THEN {id} ELSE {})]
  OBVIOUS
<1>12. /\ c \in [Runs -> SUBSET (Browsers \X Nat)]
       /\ \A r \in Runs : c[r] = IF r \in runs THEN u.channels[r] \ {id} ELSE u.channels[r]
  BY <1>10, <1>11
<1>13. PICK w : w = u.commands \o t
  OBVIOUS
<1>14. w \in Seq(Commands)
  BY <1>8, <1>10, <1>13
<1>15. orders = {[op |-> "unsubscribe", run |-> r] : r \in {q \in runs : u.channels[q] = {id}}}
  BY <1>1, <1>3 DEF Emptied, Silence
<1>16. Release(u, id, runs) = [u EXCEPT !.channels = c, !.commands = w]
  BY <1>5, <1>11, <1>13, <1>15 DEF Release, Buses
<1>17. PICK v : v = [u EXCEPT !.channels = c, !.commands = w]
  OBVIOUS
<1>18. v \in Buses /\ v.redis = u.redis /\ v.channels = c /\ v.commands = w
  BY <1>10, <1>12, <1>14, <1>17 DEF Buses
<1> QED
  BY <1>1, <1>8, <1>9, <1>12, <1>13, <1>16, <1>17, <1>18 DEF Released

------------------------------------------------------------------------------
(* The process and Redis. *)

\* In w the commands of t follow those of c.
Follow(c, t, w) ==
    /\ w \in Seq(Commands)
    /\ \A i \in DOMAIN c : i \in DOMAIN w /\ w[i] = c[i]
    /\ \A i \in DOMAIN w : i \notin DOMAIN c =>
          (\E k \in DOMAIN t : w[i] = t[k]) /\ \A j \in DOMAIN c : j <= i
    /\ \A k \in DOMAIN t : \E i \in DOMAIN w : i \notin DOMAIN c /\ w[i] = t[k]

\* So it is when they are put behind them.
LEMMA CommandsFollow ==
  ASSUME NEW c \in Seq(Commands), NEW t \in Seq(Commands)
  PROVE  Follow(c, t, c \o t)
<1>0. PICK w : w = c \o t
  OBVIOUS
<1>1. /\ w \in Seq(Commands) /\ DOMAIN c = 1 .. Len(c) /\ DOMAIN t = 1 .. Len(t)
      /\ Len(c) \in Nat /\ Len(t) \in Nat /\ DOMAIN w = 1 .. Len(c) + Len(t)
      /\ \A i \in DOMAIN w : w[i] = IF i <= Len(c) THEN c[i] ELSE t[i - Len(c)]
  BY <1>0
<1>2. \A i \in DOMAIN c : i \in DOMAIN w /\ w[i] = c[i]
  BY <1>1
<1>3. ASSUME NEW i \in DOMAIN w, i \notin DOMAIN c
      PROVE  (\E k \in DOMAIN t : w[i] = t[k]) /\ \A j \in DOMAIN c : j <= i
  <2>1. i - Len(c) \in DOMAIN t /\ w[i] = t[i - Len(c)]
    BY <1>1, <1>3
  <2>2. \A j \in DOMAIN c : j <= i
    BY <1>1, <1>3
  <2> QED
    BY <2>1, <2>2
<1>4. ASSUME NEW k \in DOMAIN t PROVE \E i \in DOMAIN w : i \notin DOMAIN c /\ w[i] = t[k]
  <2>1. Len(c) + k \in DOMAIN w /\ Len(c) + k \notin DOMAIN c /\ w[Len(c) + k] = t[k]
    BY <1>1
  <2> QED
    BY <2>1
<1> QED
  BY <1>0, <1>1, <1>2, <1>3, <1>4 DEF Follow

\* For r, all connections are as they were, and the new ones have nothing.
Unmoved(r) ==
    /\ \A id \in Ids : /\ At(id)'.subs[r].at = At(id).subs[r].at
                       /\ At(id)'.subs[r].early = At(id).subs[r].early
                       /\ Opening(At(id)', r) <=> Opening(At(id), r)
    /\ \A id \in Ids' : id \notin Ids => At(id)'.subs[r].at = "none" /\ ~Opening(At(id)', r)

\* A channel about which nothing changes.
LEMMA SameChannel ==
  ASSUME NEW r \in Runs, ChannelInd(r), Ids \subseteq Ids', Unmoved(r),
         bus'.channels[r] = bus.channels[r],
         Subscribing(bus', r) <=> Subscribing(bus, r), Sending(bus', r) <=> Sending(bus, r)
  PROVE  ChannelInd(r)'
<1>1. \A id \in bus'.channels[r] : id \in Ids' /\ (At(id)'.subs[r].at = "live" \/ Opening(At(id)', r))
  BY DEF ChannelInd, Unmoved
<1>2. \A id \in Ids' : At(id)'.subs[r].at = "live" => id \in bus'.channels[r] \/ At(id)'.subs[r].early
  BY DEF ChannelInd, Unmoved
<1>3. \A id \in Ids' : Opening(At(id)', r) => id \in Ids /\ Opening(At(id), r)
  BY DEF Unmoved
<1>4. \A id \in Ids' : Opening(At(id)', r) => id \in bus'.channels[r]
  BY <1>3 DEF ChannelInd
<1>5. \A id, jd \in Ids' : Opening(At(id)', r) /\ Opening(At(jd)', r) => id = jd
  BY <1>3 DEF ChannelInd
<1>6. Subscribing(bus', r) <=> \E id \in Ids' : Opening(At(id)', r)
  BY <1>3 DEF ChannelInd, Unmoved
<1>7. Subscribing(bus', r) => \A id \in Ids' : At(id)'.subs[r].at = "live" => At(id)'.subs[r].early
  BY DEF ChannelInd, Unmoved
<1> QED
  BY <1>1, <1>2, <1>4, <1>5, <1>6, <1>7 DEF ChannelInd

\* A run whose only listener is subscribed is sent, and nothing is on its way.
LEMMA LastListener ==
  ASSUME NEW r \in Runs, ChannelInd(r), NEW id \in Ids, bus.channels[r] = {id}, ~Opening(At(id), r)
  PROVE  ~Subscribing(bus, r)
  BY DEF ChannelInd

\* What a step of one connection may do without the bus: no subscription is
\* made, none is left half way, and who waits still waits.
Quieter(s, n) ==
    \A r \in Runs :
        /\ n.subs[r].at = "live" => s.subs[r].at = "live" /\ n.subs[r].early = s.subs[r].early
        /\ Opening(n, r) <=> Opening(s, r)
        /\ s.subs[r].at = "live" => n.subs[r].at \in {"live", "none"}

\* What the commands of a release change, run by run.
LEMMA ReleaseSends ==
  ASSUME NEW u \in Buses, NEW v, NEW id, NEW runs \in SUBSET Runs, Released(u, v, id, runs),
         Orderly(u), \A r \in Emptied(u, id, runs) : ~Subscribing(u, r)
  PROVE  /\ Orderly(v)
         /\ \A r \in Runs : Subscribing(v, r) <=> Subscribing(u, r)
         /\ \A r \in Runs : r \in Emptied(u, id, runs) => ~Sending(v, r)
         /\ \A r \in Runs : r \notin Emptied(u, id, runs) => (Sending(v, r) <=> Sending(u, r))
<1>1. PICK gone : gone = Emptied(u, id, runs)
  OBVIOUS
<1>2. PICK c : c = u.commands
  OBVIOUS
<1>3. PICK w : w = v.commands
  OBVIOUS
<1>4. PICK t \in Seq(Commands) :
         /\ w = c \o t
         /\ \A i \in DOMAIN t : \E r \in gone : t[i] = Silence(r)
         /\ \A r \in gone : \E i \in DOMAIN t : t[i] = Silence(r)
  BY <1>1, <1>2, <1>3 DEF Released
<1>5. c \in Seq(Commands)
  BY <1>2 DEF Buses
<1>6. Follow(c, t, w)
  BY <1>4, <1>5, CommandsFollow
<1>7. /\ \A i \in DOMAIN c : i \in DOMAIN w /\ w[i] = c[i]
      /\ \A i \in DOMAIN w : i \notin DOMAIN c =>
            (\E k \in DOMAIN t : w[i] = t[k]) /\ \A j \in DOMAIN c : j <= i
      /\ \A k \in DOMAIN t : \E i \in DOMAIN w : i \notin DOMAIN c /\ w[i] = t[k]
  BY <1>6 DEF Follow
<1>8. gone \subseteq Runs
  BY <1>1 DEF Emptied
<1>9. \A r \in Runs : Silence(r).op = "unsubscribe" /\ Silence(r).run = r
  BY DEF Silence
<1>10. ASSUME NEW i \in DOMAIN w, i \notin DOMAIN c
       PROVE  w[i].op = "unsubscribe" /\ w[i].run \in gone
  <2>1. PICK k \in DOMAIN t : w[i] = t[k]
    BY <1>7, <1>10
  <2>2. PICK r \in gone : t[k] = Silence(r)
    BY <1>4
  <2> QED
    BY <1>8, <1>9, <2>1, <2>2
<1>11. \A r \in Runs : Subscribing(v, r) <=> Subscribing(u, r)
  BY <1>2, <1>3, <1>7, <1>10 DEF Subscribing
<1>12. ASSUME NEW r \in gone PROVE ~Settled(v, r)
  <2>1. PICK k \in DOMAIN t : t[k] = Silence(r)
    BY <1>4
  <2>2. PICK i \in DOMAIN w : w[i] = t[k]
    BY <1>7
  <2>3. w[i].run = r
    BY <1>8, <1>9, <2>1, <2>2
  <2> QED
    BY <1>3, <2>3 DEF Settled
<1>13. \A r \in Runs : r \notin gone => (Settled(v, r) <=> Settled(u, r))
  BY <1>2, <1>3, <1>7, <1>10 DEF Settled
<1>14. v.redis = u.redis
  BY DEF Released
<1>15. ASSUME NEW i \in DOMAIN w, NEW j \in DOMAIN w, w[i].op = "subscribe", w[j].run = w[i].run
       PROVE  j <= i
  <2>1. i \in DOMAIN c /\ w[i] = c[i]
    BY <1>7, <1>10, <1>15
  <2>2. Subscribing(u, c[i].run)
    BY <1>2, <1>15, <2>1 DEF Subscribing
  <2>3. c[i].run \notin gone
    BY <1>1, <2>2
  <2>4. j \in DOMAIN c /\ w[j] = c[j]
    BY <1>7, <1>10, <1>15, <2>1, <2>3
  <2> QED
    BY <1>2, <1>15, <2>1, <2>4 DEF Orderly
<1>16. ASSUME NEW i \in DOMAIN w, w[i].op = "subscribe", w[i].run \in v.redis
       PROVE  \E j \in DOMAIN w : j < i /\ w[j].run = w[i].run
  <2>1. i \in DOMAIN c /\ w[i] = c[i]
    BY <1>7, <1>10, <1>16
  <2>2. PICK j \in DOMAIN c : j < i /\ c[j].run = c[i].run
    BY <1>2, <1>14, <1>16, <2>1 DEF Orderly
  <2> QED
    BY <1>7, <2>1, <2>2
<1>17. Orderly(v)
  BY <1>3, <1>15, <1>16 DEF Orderly
<1> QED
  BY <1>1, <1>11, <1>12, <1>13, <1>14, <1>17 DEF Sending

\* A step of one connection that only ends subscriptions keeps the channels
\* right: Redis is told of every run that nobody listens to any more.
LEMMA OneKeepsBus ==
  ASSUME SocketInd, BusInd, NEW id \in Ids, NEW s \in Conns, Quieter(At(id), s), One(id, s)
  PROVE  BusInd'
<1>1. Typed /\ Sound(At(id), ended) /\ At(id) \in Conns /\ bus \in Buses
  BY IdsAre DEF SocketInd, BusInd
<1>2. PICK o : o = At(id)
  OBVIOUS
<1>3. /\ connections' = Replaced(id, s)
      /\ bus' = Release(bus, id, {r \in Runs : o.subs[r].at = "live" /\ s.subs[r].at = "none"})
  BY <1>2 DEF One
<1>4. /\ Ids' = Ids /\ At(id)' = s /\ \A jd \in Ids : jd # id => At(jd)' = At(jd)
  BY <1>1, <1>3, ReplacedMakes
<1>5. PICK runs : runs = {r \in Runs : o.subs[r].at = "live" /\ s.subs[r].at = "none"}
  OBVIOUS
<1>6. runs \in SUBSET Runs
  BY <1>5
<1>7. PICK gone : gone = Emptied(bus, id, runs)
  OBVIOUS
<1>8. Released(bus, bus', id, runs)
  <2>1. bus' = Release(bus, id, runs)
    BY <1>3, <1>5
  <2> QED
    BY <1>1, <1>6, <2>1, ReleaseMakes
<1>9. \A r \in Runs : bus'.channels[r] = IF r \in runs THEN bus.channels[r] \ {id} ELSE bus.channels[r]
  BY <1>8 DEF Released
<1>10. gone \subseteq runs /\ \A r \in Runs : r \in gone <=> r \in runs /\ bus.channels[r] = {id}
  BY <1>6, <1>7 DEF Emptied
<1>11. \A r \in runs : r \in Runs /\ o.subs[r].at = "live" /\ s.subs[r].at = "none" /\ ~Opening(o, r)
  BY <1>1, <1>2, <1>5 DEF Sound, Opening
<1>12. \A r \in gone : ~Subscribing(bus, r)
  BY <1>2, <1>10, <1>11, LastListener DEF BusInd
<1>13. /\ Orderly(bus')
       /\ \A r \in Runs : Subscribing(bus', r) <=> Subscribing(bus, r)
       /\ \A r \in Runs : r \in gone => ~Sending(bus', r)
       /\ \A r \in Runs : r \notin gone => (Sending(bus', r) <=> Sending(bus, r))
  BY <1>1, <1>6, <1>7, <1>8, <1>12, ReleaseSends DEF BusInd
<1>14. ASSUME NEW r \in Runs PROVE ChannelInd(r)'
  <2>1. ChannelInd(r)
    BY DEF BusInd
  <2>2. \A jd \in Ids : Opening(At(jd)', r) <=> Opening(At(jd), r)
    <3>1. TAKE jd \in Ids
    <3>2. CASE jd = id
      BY <1>4, <3>2 DEF Quieter
    <3>3. CASE jd # id
      BY <1>4, <3>3
    <3> QED
      BY <3>2, <3>3
  <2>3. ASSUME NEW jd \in bus'.channels[r]
        PROVE  jd \in Ids /\ (At(jd)'.subs[r].at = "live" \/ Opening(At(jd)', r))
    <3>1. jd \in bus.channels[r] /\ (jd = id => r \notin runs)
      BY <1>9
    <3>2. jd \in Ids /\ (At(jd).subs[r].at = "live" \/ Opening(At(jd), r))
      BY <2>1, <3>1 DEF ChannelInd
    <3>3. CASE jd # id
      BY <1>4, <3>2, <3>3
    <3>4. CASE jd = id
      BY <1>2, <1>4, <1>5, <2>2, <3>1, <3>2, <3>4 DEF Quieter
    <3> QED
      BY <3>3, <3>4
  <2>4. ASSUME NEW jd \in Ids, At(jd)'.subs[r].at = "live"
        PROVE  jd \in bus'.channels[r] \/ At(jd)'.subs[r].early
    <3>1. CASE jd # id
      <4>1. jd \in bus.channels[r] \/ At(jd)'.subs[r].early
        BY <1>4, <2>1, <2>4, <3>1 DEF ChannelInd
      <4> QED
        BY <1>9, <3>1, <4>1
    <3>2. CASE jd = id
      <4>1. o.subs[r].at = "live" /\ s.subs[r].early = o.subs[r].early /\ s.subs[r].at = "live"
        BY <1>2, <1>4, <2>4, <3>2 DEF Quieter
      <4>2. jd \in bus.channels[r] \/ o.subs[r].early
        BY <1>2, <2>1, <3>2, <4>1 DEF ChannelInd
      <4>3. r \notin runs
        BY <1>5, <4>1
      <4> QED
        BY <1>4, <1>9, <3>2, <4>1, <4>2, <4>3
    <3> QED
      BY <3>1, <3>2
  <2>5. ASSUME NEW jd \in Ids, Opening(At(jd), r) PROVE jd \in bus'.channels[r]
    <3>1. jd \in bus.channels[r]
      BY <2>1, <2>5 DEF ChannelInd
    <3>2. jd = id => r \notin runs
      BY <1>2, <1>11, <2>5
    <3> QED
      BY <1>9, <3>1, <3>2
  <2>6. \A jd, kd \in Ids : Opening(At(jd), r) /\ Opening(At(kd), r) => jd = kd
    BY <2>1 DEF ChannelInd
  <2>7. Subscribing(bus', r) <=> \E jd \in Ids : Opening(At(jd), r)
    BY <1>13, <2>1 DEF ChannelInd
  <2>8. bus'.channels[r] # {} <=> Sending(bus', r)
    <3>1. bus.channels[r] # {} <=> Sending(bus, r)
      BY <2>1 DEF ChannelInd
    <3>2. CASE r \in gone
      <4>1. bus'.channels[r] = {}
        BY <1>9, <1>10, <3>2
      <4> QED
        BY <1>13, <3>2, <4>1
    <3>3. CASE r \notin gone
      <4>1. bus'.channels[r] # {} <=> bus.channels[r] # {}
        <5>1. PICK c : c = bus.channels[r]
          OBVIOUS
        <5>2. CASE r \in runs
          <6>1. bus'.channels[r] = c \ {id} /\ c # {id}
            BY <1>9, <1>10, <3>3, <5>1, <5>2
          <6>2. c # {} => \E jd \in c : jd # id
            BY <6>1
          <6> QED
            BY <5>1, <6>1, <6>2
        <5>3. CASE r \notin runs
          BY <1>9, <5>3
        <5> QED
          BY <5>2, <5>3
      <4> QED
        BY <1>13, <3>1, <3>3, <4>1
    <3> QED
      BY <3>2, <3>3
  <2>9. Subscribing(bus, r) => \A jd \in Ids : At(jd)'.subs[r].at = "live" => At(jd)'.subs[r].early
    BY <1>4, <2>1 DEF ChannelInd, Quieter
  <2> QED
    BY <1>4, <1>13, <2>2, <2>3, <2>4, <2>5, <2>6, <2>7, <2>8, <2>9 DEF ChannelInd
<1>15. bus' \in Buses
  BY <1>8 DEF Released
<1> QED
  BY <1>13, <1>14, <1>15 DEF BusInd

\* A step that no subscription takes part in keeps the channels.
LEMMA ViewKeepsBus ==
  ASSUME BusInd, Ids \subseteq Ids', \A r \in Runs : Unmoved(r), bus' = bus
  PROVE  BusInd'
<1>1. \A r \in Runs : ChannelInd(r)'
  BY SameChannel DEF BusInd
<1> QED
  BY <1>1 DEF BusInd

\* A run that one connection does not change its mind about.
LEMMA OneUnmoved ==
  ASSUME Typed, NEW id \in Ids, NEW s \in Conns, connections' = Replaced(id, s), NEW r \in Runs,
         s.subs[r].at = At(id).subs[r].at, s.subs[r].early = At(id).subs[r].early,
         Opening(s, r) <=> Opening(At(id), r)
  PROVE  Unmoved(r)
<1>1. /\ Ids' = Ids /\ At(id)' = s /\ \A jd \in Ids : jd # id => At(jd)' = At(jd)
  BY ReplacedMakes
<1> QED
  BY <1>1 DEF Unmoved

\* Redis has taken its first command.
Taking(u, v) ==
    /\ u.commands # <<>> /\ v.commands = Tail(u.commands)
    /\ \A r \in Runs : r # Head(u.commands).run => (r \in v.redis <=> r \in u.redis)

\* A command that is taken concerns one run.
LEMMA HeadIsTaken ==
  ASSUME NEW u \in Buses, NEW v \in Buses, Taking(u, v), Orderly(u),
         NEW q, q = Head(u.commands).run, Head(u.commands).op = "unsubscribe" => q \notin v.redis
  PROVE  /\ q \in Runs /\ Orderly(v)
         /\ \A r \in Runs : r # q => /\ Subscribing(v, r) <=> Subscribing(u, r)
                                     /\ Sending(v, r) <=> Sending(u, r)
         /\ Head(u.commands).op = "unsubscribe" =>
               /\ Subscribing(v, q) <=> Subscribing(u, q)
               /\ Sending(v, q) <=> Sending(u, q)
         /\ Head(u.commands).op = "subscribe" =>
               /\ Subscribing(u, q) /\ ~Subscribing(v, q)
               /\ Sending(v, q) <=> q \in v.redis
               /\ q \notin u.redis
<1>1. PICK c : c = u.commands
  OBVIOUS
<1>2. PICK d : d = v.commands
  OBVIOUS
<1>3. c \in Seq(Commands) /\ c # <<>> /\ d = Tail(c)
  BY <1>1, <1>2 DEF Buses, Taking
<1>4. PICK h : h = Head(c)
  OBVIOUS
<1>5. /\ h = c[1] /\ 1 \in DOMAIN c /\ h \in Commands
      /\ \A i \in DOMAIN d : i \in Nat /\ i + 1 \in DOMAIN c /\ d[i] = c[i + 1]
      /\ \A i \in DOMAIN c : i \in Nat /\ (i = 1 \/ (i - 1 \in DOMAIN d /\ c[i] = d[i - 1]))
  BY <1>3, <1>4
<1>6. q = h.run /\ q \in Runs /\ h.op \in {"subscribe", "unsubscribe"}
  BY <1>1, <1>4, <1>5 DEF Commands
<1>7. \A i, j \in DOMAIN c : c[i].op = "subscribe" /\ c[j].run = c[i].run => j <= i
  BY <1>1 DEF Orderly
<1>8. \A i \in DOMAIN c : c[i].op = "subscribe" /\ c[i].run \in u.redis =>
            \E j \in DOMAIN c : j < i /\ c[j].run = c[i].run
  BY <1>1 DEF Orderly
<1>9. \A r \in Runs : r # q \/ h.op # "subscribe" => (Subscribing(v, r) <=> Subscribing(u, r))
  BY <1>1, <1>2, <1>5, <1>6 DEF Subscribing
<1>10. \A r \in Runs : r # q => (Settled(v, r) <=> Settled(u, r))
  BY <1>1, <1>2, <1>5, <1>6 DEF Settled
<1>11. ~Settled(u, q)
  BY <1>1, <1>5, <1>6 DEF Settled
<1>12. h.op = "subscribe" => \A i \in DOMAIN d : d[i].run # q
  <2> SUFFICES ASSUME h.op = "subscribe", NEW i \in DOMAIN d, d[i].run = q PROVE FALSE
    OBVIOUS
  <2>1. i + 1 \in DOMAIN c /\ c[i + 1].run = c[1].run /\ c[1].op = "subscribe" /\ i \in Nat
    BY <1>5, <1>6
  <2>2. i + 1 <= 1
    BY <1>5, <1>7, <2>1
  <2>3. i >= 1
    BY <1>3
  <2> QED
    BY <2>1, <2>2, <2>3
<1>13. h.op = "subscribe" => Settled(v, q) /\ ~Subscribing(v, q) /\ Subscribing(u, q)
  BY <1>1, <1>2, <1>5, <1>6, <1>12 DEF Settled, Subscribing
<1>14. h.op = "subscribe" => q \notin u.redis
  <2> SUFFICES ASSUME h.op = "subscribe", q \in u.redis PROVE FALSE
    OBVIOUS
  <2>1. PICK j \in DOMAIN c : j < 1
    BY <1>5, <1>6, <1>8
  <2> QED
    BY <1>3, <2>1
<1>15. \A r \in Runs : r # q => (r \in v.redis <=> r \in u.redis)
  BY <1>1, <1>4, <1>6 DEF Taking
<1>16. ASSUME NEW i \in DOMAIN d, NEW j \in DOMAIN d, d[i].op = "subscribe", d[j].run = d[i].run
       PROVE  j <= i
  <2>1. /\ i \in Nat /\ j \in Nat /\ i + 1 \in DOMAIN c /\ j + 1 \in DOMAIN c
        /\ c[i + 1].op = "subscribe" /\ c[j + 1].run = c[i + 1].run
    BY <1>5, <1>16
  <2>2. j + 1 <= i + 1
    BY <1>7, <2>1
  <2> QED
    BY <2>1, <2>2
<1>17. ASSUME NEW i \in DOMAIN d, d[i].op = "subscribe", d[i].run \in v.redis
       PROVE  \E j \in DOMAIN d : j < i /\ d[j].run = d[i].run
  <2>1. d[i].run # q
    <3>1. CASE h.op = "subscribe"
      BY <1>12, <3>1
    <3>2. CASE h.op = "unsubscribe"
      BY <1>1, <1>4, <1>17, <3>2
    <3> QED
      BY <1>6, <3>1, <3>2
  <2>2. d[i] \in Commands
    <3>1. d \in Seq(Commands)
      BY <1>3
    <3> QED
      BY <3>1
  <2>3. d[i].run \in u.redis
    BY <1>15, <1>17, <2>1, <2>2 DEF Commands
  <2>4. i \in Nat /\ i + 1 \in DOMAIN c /\ c[i + 1] = d[i]
    BY <1>5
  <2>5. PICK j \in DOMAIN c : j < i + 1 /\ c[j].run = d[i].run
    BY <1>8, <1>17, <2>3, <2>4
  <2>6. j # 1
    BY <1>5, <1>6, <2>1, <2>5
  <2>7. j \in Nat /\ j - 1 \in DOMAIN d /\ c[j] = d[j - 1] /\ j - 1 < i
    BY <1>5, <2>4, <2>5, <2>6
  <2> QED
    BY <2>5, <2>7
<1>18. Orderly(v)
  BY <1>2, <1>16, <1>17 DEF Orderly
<1>19. h = Head(u.commands)
  BY <1>1, <1>4
<1>20. \A r \in Runs : r # q => (Sending(v, r) <=> Sending(u, r))
  BY <1>9, <1>10, <1>15 DEF Sending
<1>21. h.op = "unsubscribe" => (Sending(v, q) <=> Sending(u, q))
  BY <1>6, <1>9, <1>11, <1>19 DEF Sending
<1>22. h.op = "subscribe" => (Sending(v, q) <=> q \in v.redis)
  BY <1>13 DEF Sending
<1> QED
  BY <1>6, <1>9, <1>13, <1>14, <1>18, <1>19, <1>20, <1>21, <1>22

\* Redis stops sending what nobody listens to.
LEMMA UnsubscribingKeepsBus ==
  ASSUME BusInd, RedisUnsubscribes
  PROVE  BusInd'
<1>1. bus \in Buses /\ bus.commands # <<>> /\ Head(bus.commands).op = "unsubscribe"
  BY DEF BusInd, RedisUnsubscribes
<1>2. PICK c : c = Tail(bus.commands)
  OBVIOUS
<1>3. PICK q : q = Head(bus.commands).run
  OBVIOUS
<1>4. bus' = [bus EXCEPT !.redis = bus.redis \ {q}, !.commands = c]
  BY <1>2, <1>3 DEF RedisUnsubscribes
<1>5. c \in Seq(Commands)
  BY <1>1, <1>2 DEF Buses
<1>6. bus' \in Buses /\ bus'.redis = bus.redis \ {q} /\ bus'.commands = c /\ bus'.channels = bus.channels
  BY <1>1, <1>4, <1>5 DEF Buses
<1>7. Taking(bus, bus')
  BY <1>1, <1>2, <1>3, <1>6 DEF Taking
<1>8. Orderly(bus)
  BY DEF BusInd
<1>9. q \notin bus'.redis
  BY <1>6
<1>10. /\ q \in Runs /\ Orderly(bus')
       /\ \A r \in Runs : r # q => /\ Subscribing(bus', r) <=> Subscribing(bus, r)
                                   /\ Sending(bus', r) <=> Sending(bus, r)
       /\ Subscribing(bus', q) <=> Subscribing(bus, q)
       /\ Sending(bus', q) <=> Sending(bus, q)
  BY <1>1, <1>3, <1>6, <1>7, <1>8, <1>9, HeadIsTaken
<1>11. connections' = connections
  BY DEF RedisUnsubscribes
<1>12. Ids' = Ids /\ \A id : At(id)' = At(id)
  BY <1>11 DEF Ids, At
<1>13. \A r \in Runs : Unmoved(r)
  BY <1>12 DEF Unmoved
<1>14. \A r \in Runs : ChannelInd(r)'
  BY <1>6, <1>10, <1>12, <1>13, SameChannel DEF BusInd
<1> QED
  BY <1>6, <1>10, <1>14 DEF BusInd

\* A connection that waits for Redis to subscribe to q.
Waits(o, s, q) ==
    /\ s.up = o.up /\ s.down = o.down /\ s.open = o.open /\ s.lost = o.lost
    /\ s.viewer = o.viewer /\ s.expired = o.expired
    /\ s.busy = "opening" /\ s.asked = q /\ s.found = "nothing" /\ s.checks = o.checks
    /\ s.subs[q].at = "opening" /\ s.subs[q].queue = o.subs[q].queue /\ s.subs[q].fresh = o.subs[q].fresh
    /\ \A r \in Runs : r # q => s.subs[r] = o.subs[r]

\* That is what opening a channel makes of one.
LEMMA OpenMakes ==
  ASSUME SocketInd, NEW id \in Ids, OpenChannel(id)
  PROVE  /\ At(id).busy = "reading" /\ At(id).asked \in Runs
         /\ bus.channels[At(id).asked] = {}
         /\ \E s \in Conns : connections' = Replaced(id, s) /\ Waits(At(id), s, At(id).asked)
<1>1. Typed /\ At(id) \in Conns /\ Sound(At(id), ended)
  BY IdsAre DEF SocketInd
<1>2. PICK o : o = At(id)
  OBVIOUS
<1>3. PICK q : q = o.asked
  OBVIOUS
<1>4. o \in Conns /\ o.busy = "reading" /\ q \in Runs /\ bus.channels[q] = {}
  BY <1>1, <1>2, <1>3 DEF OpenChannel, Sound
<1>5. PICK t : t = [o.subs[q] EXCEPT !.at = "opening"]
  OBVIOUS
<1>6. o.subs[q] \in Subs
  BY <1>4 DEF Conns
<1>7. t \in Subs /\ t.at = "opening" /\ t.queue = o.subs[q].queue /\ t.fresh = o.subs[q].fresh
  BY <1>5, <1>6 DEF Subs
<1>8. PICK m : m = [o EXCEPT !.busy = "opening", !.found = "nothing"]
  OBVIOUS
<1>9. /\ m \in Conns /\ m.busy = "opening" /\ m.asked = q /\ m.found = "nothing" /\ m.subs = o.subs
      /\ m.up = o.up /\ m.down = o.down /\ m.open = o.open /\ m.lost = o.lost
      /\ m.viewer = o.viewer /\ m.expired = o.expired /\ m.checks = o.checks
  BY <1>3, <1>4, <1>8 DEF Conns
<1>10. PICK s : s = [m EXCEPT !.subs[q] = t]
  OBVIOUS
<1>11. s \in Conns /\ Waits(o, s, q)
  BY <1>4, <1>7, <1>9, <1>10, SubMakes DEF Waits
<1>12. s = [o EXCEPT !.busy = "opening", !.found = "nothing", !.subs[q].at = "opening"]
  BY <1>4, <1>5, <1>8, <1>10 DEF Conns
<1>13. connections' = Replaced(id, s)
  BY <1>2, <1>3, <1>12 DEF OpenChannel
<1> QED
  BY <1>2, <1>3, <1>4, <1>11, <1>13

\* The first listener of a channel asks Redis for it.
LEMMA OpeningKeepsBus ==
  ASSUME SocketInd, BusInd, NEW id \in Ids, OpenChannel(id)
  PROVE  BusInd'
<1>1. Typed /\ At(id) \in Conns /\ bus \in Buses
  BY IdsAre DEF SocketInd, BusInd
<1>2. PICK o : o = At(id)
  OBVIOUS
<1>3. PICK q : q = o.asked
  OBVIOUS
<1>4. o.busy = "reading" /\ q \in Runs /\ bus.channels[q] = {}
  BY <1>2, <1>3, OpenMakes
<1>7. PICK s \in Conns : connections' = Replaced(id, s) /\ Waits(o, s, q)
  BY <1>2, <1>3, OpenMakes
<1>11. /\ s \in Conns /\ s.busy = "opening" /\ s.asked = q
       /\ s.subs[q].at = "opening" /\ \A r \in Runs : r # q => s.subs[r] = o.subs[r]
  BY <1>7 DEF Waits
<1>13. connections' = Replaced(id, s)
  BY <1>7
<1>14. /\ Ids' = Ids /\ At(id)' = s /\ \A jd \in Ids : jd # id => At(jd)' = At(jd)
  BY <1>1, <1>11, <1>13, ReplacedMakes
<1>15. PICK new : new = [op |-> "subscribe", run |-> q]
  OBVIOUS
<1>16. new \in Commands /\ new.op = "subscribe" /\ new.run = q
  BY <1>4, <1>15 DEF Commands
<1>17. PICK c : c = bus.commands
  OBVIOUS
<1>18. PICK w : w = Append(c, new)
  OBVIOUS
<1>19. c \in Seq(Commands)
  BY <1>1, <1>17 DEF Buses
<1>20. /\ w \in Seq(Commands) /\ DOMAIN w = 1 .. Len(c) + 1 /\ DOMAIN c = 1 .. Len(c) /\ Len(c) \in Nat
       /\ w[Len(c) + 1] = new /\ \A i \in DOMAIN c : w[i] = c[i]
  BY <1>16, <1>18, <1>19
<1>21. PICK channels : channels = [bus.channels EXCEPT ![q] = {id}]
  OBVIOUS
<1>22. bus.channels \in [Runs -> SUBSET (Browsers \X Nat)] /\ id \in Browsers \X Nat
  BY <1>1, IdsAre DEF Buses
<1>23. /\ channels \in [Runs -> SUBSET (Browsers \X Nat)]
       /\ channels[q] = {id} /\ \A r \in Runs : r # q => channels[r] = bus.channels[r]
  BY <1>4, <1>21, <1>22
<1>24. bus' = [bus EXCEPT !.channels = channels, !.commands = w]
  BY <1>2, <1>3, <1>15, <1>17, <1>18, <1>21 DEF OpenChannel
<1>25. bus' \in Buses /\ bus'.redis = bus.redis /\ bus'.commands = w /\ bus'.channels = channels
  BY <1>1, <1>20, <1>23, <1>24 DEF Buses
<1>26. ChannelInd(q) /\ Orderly(bus)
  BY <1>4 DEF BusInd
<1>27. ~Sending(bus, q) /\ ~Subscribing(bus, q)
  BY <1>4, <1>26 DEF ChannelInd, Sending
<1>28. \A r \in Runs : r # q => /\ Subscribing(bus', r) <=> Subscribing(bus, r)
                                /\ Settled(bus', r) <=> Settled(bus, r)
  <2>1. \A i \in DOMAIN w : i \in DOMAIN c \/ i = Len(c) + 1
    BY <1>20
  <2>2. \A i \in DOMAIN c : i \in DOMAIN w
    BY <1>20
  <2> QED
    BY <1>16, <1>17, <1>20, <1>25, <2>1, <2>2 DEF Subscribing, Settled
<1>29. \A r \in Runs : r # q => (Sending(bus', r) <=> Sending(bus, r))
  BY <1>25, <1>28 DEF Sending
<1>30. Subscribing(bus', q) /\ Sending(bus', q)
  <2>1. Len(c) + 1 \in DOMAIN w
    BY <1>20
  <2> QED
    BY <1>16, <1>20, <1>25, <2>1 DEF Subscribing, Sending
<1>31. ASSUME NEW i \in DOMAIN w, NEW j \in DOMAIN w, w[i].op = "subscribe", w[j].run = w[i].run
       PROVE  j <= i
  <2>1. CASE i = Len(c) + 1
    BY <1>20, <2>1
  <2>2. CASE i \in DOMAIN c
    <3>1. c[i].op = "subscribe" /\ c[i].run # q
      BY <1>17, <1>20, <1>27, <1>31, <2>2 DEF Subscribing
    <3>2. j # Len(c) + 1
      BY <1>16, <1>20, <1>31, <2>2, <3>1
    <3>3. j \in DOMAIN c
      BY <1>20, <3>2
    <3> QED
      BY <1>17, <1>20, <1>26, <1>31, <2>2, <3>1, <3>3 DEF Orderly
  <2> QED
    BY <1>20, <2>1, <2>2
<1>32. ASSUME NEW i \in DOMAIN w, w[i].op = "subscribe", w[i].run \in bus.redis
       PROVE  \E j \in DOMAIN w : j < i /\ w[j].run = w[i].run
  <2>1. CASE i = Len(c) + 1
    <3>1. ~Settled(bus, q)
      BY <1>16, <1>20, <1>27, <1>32, <2>1 DEF Sending
    <3>2. PICK j \in DOMAIN c : c[j].run = q
      BY <1>17, <3>1 DEF Settled
    <3>3. j \in DOMAIN w /\ j < i /\ w[j].run = w[i].run
      BY <1>16, <1>20, <2>1, <3>2
    <3> QED
      BY <3>3
  <2>2. CASE i \in DOMAIN c
    <3>1. PICK j \in DOMAIN c : j < i /\ c[j].run = c[i].run
      BY <1>17, <1>20, <1>26, <1>32, <2>2 DEF Orderly
    <3>2. j \in DOMAIN w /\ w[j].run = w[i].run
      BY <1>20, <2>2, <3>1
    <3> QED
      BY <3>1, <3>2
  <2> QED
    BY <1>20, <2>1, <2>2
<1>33. Orderly(bus')
  BY <1>25, <1>31, <1>32 DEF Orderly
<1>34. ~Opening(o, q) /\ \A r \in Runs : r # q => ~Opening(o, r) /\ ~Opening(s, r)
  BY <1>4, <1>11 DEF Opening
<1>35. ASSUME NEW r \in Runs, r # q PROVE ChannelInd(r)'
  <2>1. s.subs[r] = At(id).subs[r] /\ (Opening(s, r) <=> Opening(At(id), r))
    BY <1>2, <1>11, <1>34, <1>35
  <2>2. Unmoved(r)
    BY <1>1, <1>11, <1>13, <2>1, OneUnmoved
  <2> QED
    BY <1>14, <1>23, <1>25, <1>28, <1>29, <1>35, <2>2, SameChannel DEF BusInd
<1>36. ChannelInd(q)'
  <2>1. \A jd \in Ids : ~Opening(At(jd), q)
    BY <1>27, <1>26 DEF ChannelInd
  <2>2. Opening(s, q) /\ s.subs[q].at # "live"
    BY <1>11 DEF Opening
  <2>3. \A jd \in Ids : At(jd)'.subs[q].at = "live" => At(jd)'.subs[q].early
    BY <1>4, <1>14, <1>26, <2>2 DEF ChannelInd
  <2>4. \A jd \in Ids : Opening(At(jd)', q) <=> jd = id
    BY <1>14, <2>1, <2>2
  <2>5. bus'.channels[q] = {id}
    BY <1>23, <1>25
  <2> QED
    BY <1>14, <1>30, <2>3, <2>4, <2>5 DEF ChannelInd
<1>37. \A r \in Runs : ChannelInd(r)'
  BY <1>35, <1>36
<1> QED
  BY <1>11, <1>14, <1>25, <1>33, <1>37 DEF BusInd

\* A connection that has been subscribed to q, and was told so.
Joined(o, s, q) ==
    /\ s.up = o.up /\ s.open = o.open /\ s.lost = o.lost /\ s.viewer = o.viewer /\ s.expired = o.expired
    /\ s.busy = "idle" /\ s.asked = Anonymous /\ s.found = "nothing" /\ s.checks = o.checks
    /\ s.subs[q].at = "live" /\ s.subs[q].queue = <<>>
    /\ \A r \in Runs : r # q => s.subs[r] = o.subs[r]
    /\ Adds(o, s, [type |-> "subscribed", run |-> q])

\* Telling a connection that is done of its new subscription makes one.
LEMMA JoinMakes ==
  ASSUME NEW o \in Conns, NEW q \in Runs, NEW t \in Subs, t.at = "live", t.queue = <<>>
  PROVE  LET s == Say([Done(o) EXCEPT !.subs[q] = t], [type |-> "subscribed", run |-> q])
         IN  s \in Conns /\ Joined(o, s, q) /\ s.subs[q] = t
<1>1. PICK d : d = Done(o)
  OBVIOUS
<1>2. /\ d \in Conns /\ d.open = o.open /\ d.lost = o.lost /\ d.viewer = o.viewer /\ d.expired = o.expired
      /\ d.subs = o.subs /\ d.up = o.up /\ d.down = o.down
      /\ d.busy = "idle" /\ d.asked = Anonymous /\ d.found = "nothing" /\ d.checks = o.checks
  BY <1>1, DoneMakes
<1>3. PICK m : m = [d EXCEPT !.subs[q] = t]
  OBVIOUS
<1>4. /\ m \in Conns /\ m.up = d.up /\ m.down = d.down
      /\ m.open = d.open /\ m.lost = d.lost /\ m.viewer = d.viewer /\ m.expired = d.expired
      /\ m.busy = d.busy /\ m.asked = d.asked /\ m.found = d.found /\ m.checks = d.checks
      /\ m.subs[q] = t /\ \A r \in Runs : r # q => m.subs[r] = d.subs[r]
  BY <1>2, <1>3, SubMakes
<1>5. PICK f : f = [type |-> "subscribed", run |-> q]
  OBVIOUS
<1>6. f \in DownFrames
  BY <1>5 DEF DownFrames
<1>7. PICK s : s = Say(m, f)
  OBVIOUS
<1>8. s \in Conns /\ SameInside(m, s) /\ s.up = m.up /\ Adds(m, s, f)
  BY <1>4, <1>6, <1>7, SayMakes
<1>9. Adds(o, s, f) /\ s.subs[q] = t
  BY <1>2, <1>4, <1>8 DEF Adds, SameInside
<1>10. Joined(o, s, q)
  BY <1>2, <1>4, <1>5, <1>8, <1>9 DEF SameInside, Joined
<1> QED
  BY <1>1, <1>3, <1>5, <1>7, <1>8, <1>9, <1>10

\* A closed connection is done, and not in the channel.
LEMMA JoinShutMakes ==
  ASSUME SocketInd, NEW id \in Ids, JoinChannel(id), ~At(id).open
  PROVE  Done(At(id)) \in Conns /\ Quieter(At(id), Done(At(id))) /\ One(id, Done(At(id)))
<1>1. At(id) \in Conns
  BY IdsAre DEF SocketInd
<1>2. PICK o : o = At(id)
  OBVIOUS
<1>3. PICK d : d = Done(o)
  OBVIOUS
<1>4. /\ d \in Conns /\ d.subs = o.subs /\ d.busy = "idle" /\ d.open = o.open
  BY <1>1, <1>2, <1>3, DoneMakes
<1>5. o.busy = "reading"
  BY <1>2 DEF JoinChannel
<1>6. \A r \in Runs : o.subs[r].at # "live"
  BY <1>2 DEF SocketInd, Sound
<1>7. Quieter(o, d)
  BY <1>4, <1>5, <1>6 DEF Quieter, Opening
<1>8. ~d.open
  BY <1>2, <1>4
<1>9. One(id, d)
  BY <1>2, <1>3, <1>8 DEF JoinChannel
<1> QED
  BY <1>2, <1>3, <1>4, <1>7, <1>9

\* An open one is subscribed at once.
LEMMA JoinOpenMakes ==
  ASSUME SocketInd, NEW id \in Ids, JoinChannel(id), At(id).open
  PROVE  /\ At(id).busy = "reading" /\ At(id).asked \in Runs
         /\ bus.channels[At(id).asked] # {}
         /\ bus' = [bus EXCEPT !.channels[At(id).asked] = @ \cup {id}]
         /\ \E s \in Conns :
               /\ connections' = Replaced(id, s) /\ Joined(At(id), s, At(id).asked)
               /\ Subscribing(bus, At(id).asked) => s.subs[At(id).asked].early
<1>1. At(id) \in Conns /\ Sound(At(id), ended)
  BY IdsAre DEF SocketInd
<1>2. PICK o : o = At(id)
  OBVIOUS
<1>3. PICK q : q = o.asked
  OBVIOUS
<1>4. o \in Conns /\ o.busy = "reading" /\ q \in Runs /\ bus.channels[q] # {}
  BY <1>1, <1>2, <1>3 DEF JoinChannel, Sound
<1>5. PICK t : t = [Subscribed EXCEPT !.early = Pending(q)]
  OBVIOUS
<1>6. Pending(q) \in BOOLEAN
  BY DEF Pending
<1>7. t \in Subs /\ t.at = "live" /\ t.queue = <<>> /\ t.early = Pending(q)
  <2>1. PICK p : p = Subscribed
    OBVIOUS
  <2>2. p \in Subs /\ p.at = "live" /\ p.queue = <<>>
    BY <2>1, SubscribedIs
  <2>3. t = [p EXCEPT !.early = Pending(q)]
    BY <1>5, <2>1
  <2> QED
    BY <1>6, <2>2, <2>3 DEF Subs
<1>8. PICK s : s = Say([Done(o) EXCEPT !.subs[q] = t], [type |-> "subscribed", run |-> q])
  OBVIOUS
<1>9. s \in Conns /\ Joined(o, s, q) /\ s.subs[q].early = Pending(q)
  BY <1>4, <1>7, <1>8, JoinMakes
<1>12. Subscribing(bus, q) => s.subs[q].early
  BY <1>9 DEF Subscribing, Pending
<1>10. Done(o).open
  BY <1>2, <1>4, DoneMakes
<1>11. /\ connections' = Replaced(id, s)
       /\ bus' = [bus EXCEPT !.channels[q] = @ \cup {id}]
  BY <1>2, <1>3, <1>5, <1>8, <1>10 DEF JoinChannel
<1> QED
  BY <1>2, <1>3, <1>4, <1>9, <1>11, <1>12

\* Whoever joins a channel is one listener more.
LEMMA JoiningKeepsBus ==
  ASSUME SocketInd, BusInd, NEW id \in Ids, JoinChannel(id)
  PROVE  BusInd'
<1>1. Typed /\ At(id) \in Conns /\ bus \in Buses
  BY IdsAre DEF SocketInd, BusInd
<1>2. CASE ~At(id).open
  BY <1>2, JoinShutMakes, OneKeepsBus
<1>3. CASE At(id).open
  <2>1. PICK o : o = At(id)
    OBVIOUS
  <2>2. PICK q : q = o.asked
    OBVIOUS
  <2>3. /\ o.busy = "reading" /\ q \in Runs /\ bus.channels[q] # {}
        /\ bus' = [bus EXCEPT !.channels[q] = @ \cup {id}]
    BY <1>3, <2>1, <2>2, JoinOpenMakes
  <2>4. PICK s \in Conns :
           /\ connections' = Replaced(id, s) /\ Joined(o, s, q)
           /\ Subscribing(bus, q) => s.subs[q].early
    BY <1>3, <2>1, <2>2, JoinOpenMakes
  <2>5. /\ Ids' = Ids /\ At(id)' = s /\ \A jd \in Ids : jd # id => At(jd)' = At(jd)
    BY <1>1, <2>4, ReplacedMakes
  <2>6. bus.channels \in [Runs -> SUBSET (Browsers \X Nat)] /\ id \in Browsers \X Nat
    BY <1>1, IdsAre DEF Buses
  <2>7. PICK c : c = [bus.channels EXCEPT ![q] = @ \cup {id}]
    OBVIOUS
  <2>8. /\ c \in [Runs -> SUBSET (Browsers \X Nat)]
        /\ c[q] = bus.channels[q] \cup {id} /\ \A r \in Runs : r # q => c[r] = bus.channels[r]
    BY <2>3, <2>6, <2>7
  <2>9. bus' = [bus EXCEPT !.channels = c]
    BY <2>3, <2>7
  <2>10. bus' \in Buses /\ bus'.redis = bus.redis /\ bus'.commands = bus.commands /\ bus'.channels = c
    BY <1>1, <2>8, <2>9 DEF Buses
  <2>11. \A r : /\ Subscribing(bus', r) <=> Subscribing(bus, r)
                /\ Sending(bus', r) <=> Sending(bus, r)
    BY <2>10 DEF Subscribing, Settled, Sending
  <2>12. Orderly(bus')
    BY <2>10 DEF BusInd, Orderly
  <2>13. /\ s.subs[q].at = "live" /\ \A r \in Runs : r # q => s.subs[r] = o.subs[r]
         /\ \A r \in Runs : ~Opening(o, r) /\ ~Opening(s, r)
    BY <2>3, <2>4 DEF Joined, Opening
  <2>14. ASSUME NEW r \in Runs, r # q PROVE ChannelInd(r)'
    <3>1. s.subs[r] = At(id).subs[r] /\ (Opening(s, r) <=> Opening(At(id), r))
      BY <2>1, <2>13, <2>14
    <3>2. Unmoved(r)
      BY <1>1, <2>4, <3>1, OneUnmoved
    <3> QED
      BY <2>5, <2>8, <2>10, <2>11, <2>14, <3>2, SameChannel DEF BusInd
  <2>15. ChannelInd(q)'
    <3>1. ChannelInd(q)
      BY <2>3 DEF BusInd
    <3>2. \A jd \in Ids : Opening(At(jd)', q) <=> Opening(At(jd), q)
      BY <2>1, <2>3, <2>5, <2>13
    <3>3. bus'.channels[q] = bus.channels[q] \cup {id}
      BY <2>8, <2>10
    <3>4. \A jd \in bus'.channels[q] : jd \in Ids /\ (At(jd)'.subs[q].at = "live" \/ Opening(At(jd)', q))
      BY <2>5, <2>13, <3>1, <3>2, <3>3 DEF ChannelInd
    <3>5. \A jd \in Ids : At(jd)'.subs[q].at = "live" => jd \in bus'.channels[q] \/ At(jd)'.subs[q].early
      BY <2>5, <3>1, <3>3 DEF ChannelInd
    <3>6. bus'.channels[q] # {}
      BY <3>3
    <3>7. Sending(bus', q)
      BY <2>3, <2>11, <3>1 DEF ChannelInd
    <3>8. Subscribing(bus, q) => \A jd \in Ids : At(jd)'.subs[q].at = "live" => At(jd)'.subs[q].early
      BY <2>4, <2>5, <3>1 DEF ChannelInd
    <3> QED
      BY <2>5, <2>11, <3>1, <3>2, <3>3, <3>4, <3>5, <3>6, <3>7, <3>8 DEF ChannelInd
  <2>16. \A r \in Runs : ChannelInd(r)'
    BY <2>14, <2>15
  <2> QED
    BY <2>10, <2>12, <2>16 DEF BusInd
<1> QED
  BY <1>2, <1>3

\* A connection that is done, and is not subscribed to q.
Dropped(o, s, q) ==
    /\ s.up = o.up /\ s.open = o.open /\ s.lost = o.lost /\ s.viewer = o.viewer /\ s.expired = o.expired
    /\ s.busy = "idle" /\ s.asked = Anonymous /\ s.found = "nothing" /\ s.checks = o.checks
    /\ s.subs[q] = NoSubscription
    /\ \A r \in Runs : r # q => s.subs[r] = o.subs[r]

\* Ending the subscription of a connection that is done makes one.
LEMMA DropMakes ==
  ASSUME NEW o \in Conns, NEW q \in Runs
  PROVE  LET s == [Done(o) EXCEPT !.subs[q] = NoSubscription]
         IN  s \in Conns /\ Dropped(o, s, q) /\ s.down = o.down
<1>1. PICK d : d = Done(o)
  OBVIOUS
<1>2. /\ d \in Conns /\ d.open = o.open /\ d.lost = o.lost /\ d.viewer = o.viewer /\ d.expired = o.expired
      /\ d.subs = o.subs /\ d.up = o.up /\ d.down = o.down
      /\ d.busy = "idle" /\ d.asked = Anonymous /\ d.found = "nothing" /\ d.checks = o.checks
  BY <1>1, DoneMakes
<1>3. PICK m : m = [d EXCEPT !.subs[q] = NoSubscription]
  OBVIOUS
<1>4. /\ m \in Conns /\ m.up = d.up /\ m.down = d.down
      /\ m.open = d.open /\ m.lost = d.lost /\ m.viewer = d.viewer /\ m.expired = d.expired
      /\ m.busy = d.busy /\ m.asked = d.asked /\ m.found = d.found /\ m.checks = d.checks
      /\ m.subs[q] = NoSubscription /\ \A r \in Runs : r # q => m.subs[r] = d.subs[r]
  BY <1>2, <1>3, NoneIs, SubMakes
<1> QED
  BY <1>1, <1>2, <1>3, <1>4 DEF Dropped

\* Somebody waits for the subscribe that Redis takes.
LEMMA OpenerIs ==
  ASSUME SocketInd, BusInd, bus.commands # <<>>, Head(bus.commands).op = "subscribe"
  PROVE  LET q == Head(bus.commands).run
             id == Opener(q)
         IN  /\ q \in Runs /\ id \in Ids /\ Opening(At(id), q) /\ At(id) \in Conns
             /\ id \in bus.channels[q] /\ At(id).subs[q].at # "live"
             /\ \A jd \in Ids : Opening(At(jd), q) => jd = id
<1>1. PICK c : c = bus.commands
  OBVIOUS
<1>2. c \in Seq(Commands) /\ c # <<>>
  BY <1>1 DEF BusInd, Buses
<1>3. Head(c) = c[1] /\ 1 \in DOMAIN c /\ Head(c) \in Commands
  BY <1>2
<1>4. PICK q : q = Head(c).run
  OBVIOUS
<1>5. q \in Runs /\ Subscribing(bus, q)
  BY <1>1, <1>3, <1>4 DEF Commands, Subscribing
<1>6. ChannelInd(q)
  BY <1>5 DEF BusInd
<1>7. \E id \in Ids : Opening(At(id), q)
  BY <1>5, <1>6 DEF ChannelInd
<1>8. PICK id : id = Opener(q)
  OBVIOUS
<1>9. id \in Ids /\ At(id).busy = "opening" /\ At(id).asked = q
  BY <1>7, <1>8 DEF Opener, Opening
<1>10. Opening(At(id), q) /\ At(id) \in Conns /\ Sound(At(id), ended)
  BY <1>9, IdsAre DEF Opening, SocketInd
<1>11. At(id).subs[q].at # "live"
  BY <1>9, <1>10 DEF Sound
<1>12. id \in bus.channels[q] /\ \A jd \in Ids : Opening(At(jd), q) => jd = id
  BY <1>6, <1>9, <1>10 DEF ChannelInd
<1> QED
  BY <1>1, <1>4, <1>5, <1>8, <1>9, <1>10, <1>11, <1>12

\* What becomes of the others when the opener of q is done.
LEMMA OpenerUnmoved ==
  ASSUME Typed, NEW id \in Ids, NEW q \in Runs, Opening(At(id), q), NEW s \in Conns,
         connections' = Replaced(id, s), s.busy = "idle", \A r \in Runs : r # q => s.subs[r] = At(id).subs[r]
  PROVE  /\ Ids' = Ids /\ At(id)' = s /\ \A jd \in Ids : jd # id => At(jd)' = At(jd)
         /\ \A r \in Runs : r # q => Unmoved(r)
<1>1. /\ Ids' = Ids /\ At(id)' = s /\ \A jd \in Ids : jd # id => At(jd)' = At(jd)
  BY ReplacedMakes
<1>2. ASSUME NEW r \in Runs, r # q PROVE Unmoved(r)
  <2>1. ~Opening(s, r) /\ ~Opening(At(id), r) /\ s.subs[r] = At(id).subs[r]
    BY <1>2 DEF Opening
  <2> QED
    BY <2>1, OneUnmoved
<1> QED
  BY <1>1, <1>2

\* The bus when Redis has taken a subscribe, and sends the run or not.
LEMMA SubscribeTaken ==
  ASSUME BusInd, bus.commands # <<>>, Head(bus.commands).op = "subscribe",
         NEW v \in Buses, v.commands = Tail(bus.commands),
         v.redis \subseteq bus.redis \cup {Head(bus.commands).run}, bus.redis \subseteq v.redis
  PROVE  LET q == Head(bus.commands).run
         IN  /\ Orderly(v) /\ ~Subscribing(v, q) /\ (Sending(v, q) <=> q \in v.redis) /\ q \notin bus.redis
             /\ \A r \in Runs : r # q => /\ Subscribing(v, r) <=> Subscribing(bus, r)
                                         /\ Sending(v, r) <=> Sending(bus, r)
<1>1. bus \in Buses /\ Orderly(bus)
  BY DEF BusInd
<1>2. PICK q : q = Head(bus.commands).run
  OBVIOUS
<1>3. Taking(bus, v)
  BY DEF Taking
<1> QED
  BY <1>1, <1>2, <1>3, HeadIsTaken

\* What RedisSubscribes does, by what has become of who waited.
LEMMA SubscribedMakes ==
  ASSUME SocketInd, BusInd, RedisSubscribes
  PROVE  LET q == Head(bus.commands).run
             id == Opener(q)
             v == [bus EXCEPT !.redis = bus.redis \cup {q}, !.commands = Tail(bus.commands)]
         IN  \E s \in Conns :
                /\ connections' = Replaced(id, s)
                /\ \/ /\ At(id).open /\ At(id).subs[q].at = "opening"
                      /\ Joined(At(id), s, q) /\ bus' = v
                   \/ /\ ~(At(id).open /\ At(id).subs[q].at = "opening")
                      /\ Dropped(At(id), s, q) /\ s.down = At(id).down /\ bus' = Release(v, id, {q})
<1>0. bus.commands # <<>> /\ Head(bus.commands).op = "subscribe"
  BY DEF RedisSubscribes
<1>1. PICK q : q = Head(bus.commands).run
  OBVIOUS
<1>2. PICK id : id = Opener(q)
  OBVIOUS
<1>3. q \in Runs /\ id \in Ids /\ At(id) \in Conns
  BY <1>0, <1>1, <1>2, OpenerIs
<1>4. PICK o : o = At(id)
  OBVIOUS
<1>5. Done(o).open = o.open /\ Done(o).subs = o.subs
  BY <1>3, <1>4, DoneMakes
<1>6. PICK v : v = [bus EXCEPT !.redis = @ \cup {q}, !.commands = Tail(@)]
  OBVIOUS
<1>7. v = [bus EXCEPT !.redis = bus.redis \cup {q}, !.commands = Tail(bus.commands)]
  BY <1>6
<1>8. IF o.open /\ o.subs[q].at = "opening"
      THEN /\ connections' = Replaced(id, Say([Done(o) EXCEPT !.subs[q] = Subscribed], [type |-> "subscribed", run |-> q]))
           /\ bus' = v
      ELSE /\ connections' = Replaced(id, [Done(o) EXCEPT !.subs[q] = NoSubscription])
           /\ bus' = Release(v, id, {q})
  BY <1>1, <1>2, <1>4, <1>5, <1>6 DEF RedisSubscribes
<1>9. CASE o.open /\ o.subs[q].at = "opening"
  <2>1. PICK s : s = Say([Done(o) EXCEPT !.subs[q] = Subscribed], [type |-> "subscribed", run |-> q])
    OBVIOUS
  <2>2. s \in Conns /\ Joined(o, s, q)
    BY <1>3, <1>4, <2>1, SubscribedIs, JoinMakes
  <2>3. connections' = Replaced(id, s) /\ bus' = v
    BY <1>8, <1>9, <2>1
  <2> QED
    BY <1>1, <1>2, <1>4, <1>7, <1>9, <2>2, <2>3
<1>10. CASE ~(o.open /\ o.subs[q].at = "opening")
  <2>1. PICK s : s = [Done(o) EXCEPT !.subs[q] = NoSubscription]
    OBVIOUS
  <2>2. s \in Conns /\ Dropped(o, s, q) /\ s.down = o.down
    BY <1>3, <1>4, <2>1, DropMakes
  <2>3. connections' = Replaced(id, s) /\ bus' = Release(v, id, {q})
    BY <1>8, <1>10, <2>1
  <2> QED
    BY <1>1, <1>2, <1>4, <1>7, <1>10, <2>2, <2>3
<1> QED
  BY <1>9, <1>10

\* A subscription is there, or is given back at once.
LEMMA SubscribingKeepsBus ==
  ASSUME SocketInd, BusInd, RedisSubscribes
  PROVE  BusInd'
<1>0. Typed /\ bus \in Buses /\ bus.commands # <<>> /\ Head(bus.commands).op = "subscribe"
  BY DEF SocketInd, BusInd, RedisSubscribes
<1>1. PICK q : q = Head(bus.commands).run
  OBVIOUS
<1>2. PICK id : id = Opener(q)
  OBVIOUS
<1>3. /\ q \in Runs /\ id \in Ids /\ Opening(At(id), q) /\ At(id) \in Conns
      /\ id \in bus.channels[q] /\ At(id).subs[q].at # "live"
      /\ \A jd \in Ids : Opening(At(jd), q) => jd = id
  BY <1>0, <1>1, <1>2, OpenerIs
<1>4. PICK v : v = [bus EXCEPT !.redis = bus.redis \cup {q}, !.commands = Tail(bus.commands)]
  OBVIOUS
<1>5. v \in Buses /\ v.redis = bus.redis \cup {q} /\ v.commands = Tail(bus.commands) /\ v.channels = bus.channels
  <2>1. PICK c : c = Tail(bus.commands)
    OBVIOUS
  <2>2. c \in Seq(Commands)
    BY <1>0, <2>1 DEF Buses
  <2>3. v = [bus EXCEPT !.redis = bus.redis \cup {q}, !.commands = c]
    BY <1>4, <2>1
  <2> QED
    BY <1>0, <1>3, <2>1, <2>2, <2>3 DEF Buses
<1>6. /\ Orderly(v) /\ ~Subscribing(v, q) /\ Sending(v, q)
      /\ \A r \in Runs : r # q => /\ Subscribing(v, r) <=> Subscribing(bus, r)
                                  /\ Sending(v, r) <=> Sending(bus, r)
  BY <1>0, <1>1, <1>5, SubscribeTaken
<1>7. PICK s \in Conns :
         /\ connections' = Replaced(id, s)
         /\ \/ /\ At(id).open /\ At(id).subs[q].at = "opening"
               /\ Joined(At(id), s, q) /\ bus' = v
            \/ /\ ~(At(id).open /\ At(id).subs[q].at = "opening")
               /\ Dropped(At(id), s, q) /\ s.down = At(id).down /\ bus' = Release(v, id, {q})
  BY <1>1, <1>2, <1>4, SubscribedMakes
<1>8. s.busy = "idle" /\ \A r \in Runs : r # q => s.subs[r] = At(id).subs[r]
  BY <1>7 DEF Joined, Dropped
<1>9. /\ Ids' = Ids /\ At(id)' = s /\ \A jd \in Ids : jd # id => At(jd)' = At(jd)
      /\ \A r \in Runs : r # q => Unmoved(r)
  BY <1>0, <1>3, <1>7, <1>8, OpenerUnmoved
<1>10. ChannelInd(q)
  BY <1>3 DEF BusInd
<1>11. \A jd \in Ids : ~Opening(At(jd)', q)
  BY <1>3, <1>8, <1>9 DEF Opening
<1>12. \A jd \in Ids : jd # id => (At(jd)'.subs[q].at = "live" => jd \in bus.channels[q] \/ At(jd)'.subs[q].early)
  BY <1>9, <1>10 DEF ChannelInd
<1>13. \A jd \in bus.channels[q] : jd \in Ids /\ (jd # id => At(jd)'.subs[q].at = "live")
  BY <1>3, <1>9, <1>10 DEF ChannelInd
<1>14. CASE Joined(At(id), s, q) /\ bus' = v
  <2>1. \A r \in Runs : r # q => ChannelInd(r)'
    BY <1>5, <1>6, <1>9, <1>14, SameChannel DEF BusInd
  <2>2. s.subs[q].at = "live"
    BY <1>14 DEF Joined
  <2>3. \A jd \in bus'.channels[q] : jd \in Ids' /\ At(jd)'.subs[q].at = "live"
    BY <1>5, <1>9, <1>13, <1>14, <2>2
  <2>4. \A jd \in Ids : At(jd)'.subs[q].at = "live" => jd \in bus'.channels[q] \/ At(jd)'.subs[q].early
    BY <1>3, <1>5, <1>12, <1>14
  <2>5. bus'.channels[q] # {}
    BY <1>3, <1>5, <1>14
  <2>6. ChannelInd(q)'
    BY <1>6, <1>9, <1>11, <1>14, <2>3, <2>4, <2>5 DEF ChannelInd
  <2> QED
    BY <1>5, <1>6, <1>14, <2>1, <2>6 DEF BusInd
<1>15. CASE Dropped(At(id), s, q) /\ bus' = Release(v, id, {q})
  <2>1. Released(v, bus', id, {q})
    BY <1>3, <1>5, <1>15, ReleaseMakes
  <2>2. {q} \in SUBSET Runs
    BY <1>3
  <2>3. PICK gone : gone = Emptied(v, id, {q})
    OBVIOUS
  <2>4. gone \subseteq {q} /\ (q \in gone <=> bus.channels[q] = {id})
    BY <1>5, <2>3 DEF Emptied
  <2>5. \A r \in gone : ~Subscribing(v, r)
    BY <1>6, <2>4
  <2>6. /\ Orderly(bus')
        /\ \A r \in Runs : Subscribing(bus', r) <=> Subscribing(v, r)
        /\ \A r \in Runs : r \in gone => ~Sending(bus', r)
        /\ \A r \in Runs : r \notin gone => (Sending(bus', r) <=> Sending(v, r))
    BY <1>5, <1>6, <2>1, <2>2, <2>3, <2>5, ReleaseSends
  <2>7. bus' \in Buses /\ \A r \in Runs : bus'.channels[r] = IF r = q THEN bus.channels[r] \ {id} ELSE bus.channels[r]
    BY <1>5, <2>1 DEF Released
  <2>8. ASSUME NEW r \in Runs, r # q PROVE ChannelInd(r)'
    <3>1. r \notin gone
      BY <2>4, <2>8
    <3> QED
      BY <1>6, <1>9, <2>6, <2>7, <2>8, <3>1, SameChannel DEF BusInd
  <2>9. s.subs[q].at = "none"
    BY <1>15, NoneIs DEF Dropped
  <2>10. bus'.channels[q] = bus.channels[q] \ {id}
    BY <1>3, <2>7
  <2>11. \A jd \in bus'.channels[q] : jd \in Ids' /\ At(jd)'.subs[q].at = "live"
    BY <1>9, <1>13, <2>10
  <2>12. \A jd \in Ids : At(jd)'.subs[q].at = "live" => jd \in bus'.channels[q] \/ At(jd)'.subs[q].early
    BY <1>9, <1>12, <2>9, <2>10
  <2>13. bus'.channels[q] # {} <=> q \notin gone
    BY <1>3, <2>4, <2>10
  <2>14. bus'.channels[q] # {} <=> Sending(bus', q)
    BY <1>3, <1>6, <2>6, <2>13
  <2>15. ChannelInd(q)'
    BY <1>3, <1>6, <1>9, <1>11, <2>6, <2>11, <2>12, <2>14 DEF ChannelInd
  <2> QED
    BY <2>6, <2>7, <2>8, <2>15 DEF BusInd
<1> QED
  BY <1>7, <1>14, <1>15

\* What RedisRefuses does.
LEMMA RefusedMakes ==
  ASSUME SocketInd, BusInd, RedisRefuses
  PROVE  LET q == Head(bus.commands).run
             id == Opener(q)
         IN  /\ bus.commands # <<>> /\ Head(bus.commands).op = "subscribe"
             /\ bus' = [bus EXCEPT !.channels[q] = {}, !.commands = Tail(bus.commands)]
             /\ \E s \in Conns : /\ connections' = Replaced(id, s) /\ Dropped(At(id), s, q)
                                 /\ Adds(At(id), s, [type |-> "error", run |-> q])
<1>0. bus.commands # <<>> /\ Head(bus.commands).op = "subscribe"
  BY DEF RedisRefuses
<1>1. PICK q : q = Head(bus.commands).run
  OBVIOUS
<1>2. PICK id : id = Opener(q)
  OBVIOUS
<1>3. q \in Runs /\ id \in Ids /\ At(id) \in Conns
  BY <1>0, <1>1, <1>2, OpenerIs
<1>4. PICK o : o = At(id)
  OBVIOUS
<1>5. PICK m : m = [Done(o) EXCEPT !.subs[q] = NoSubscription]
  OBVIOUS
<1>6. m \in Conns /\ Dropped(o, m, q) /\ m.down = o.down
  BY <1>3, <1>4, <1>5, DropMakes
<1>7. PICK f : f = [type |-> "error", run |-> q]
  OBVIOUS
<1>8. f \in DownFrames
  BY <1>3, <1>7 DEF DownFrames
<1>9. PICK s : s = Say(m, f)
  OBVIOUS
<1>10. s \in Conns /\ SameInside(m, s) /\ s.up = m.up /\ Adds(m, s, f)
  BY <1>6, <1>8, <1>9, SayMakes
<1>11. Dropped(o, s, q)
  BY <1>6, <1>10 DEF Dropped, SameInside
<1>12. Adds(o, s, f)
  BY <1>6, <1>10 DEF Adds, Dropped
<1>13. /\ connections' = Replaced(id, s)
       /\ bus' = [bus EXCEPT !.channels[q] = {}, !.commands = Tail(bus.commands)]
  BY <1>1, <1>2, <1>4, <1>5, <1>7, <1>9 DEF RedisRefuses
<1> QED
  BY <1>0, <1>1, <1>2, <1>4, <1>7, <1>10, <1>11, <1>12, <1>13

\* When Redis refuses, the channel goes; whoever was in it already, but for
\* who waited, was served early.
LEMMA RefusingKeepsBus ==
  ASSUME SocketInd, BusInd, RedisRefuses
  PROVE  BusInd'
<1>0. Typed /\ bus \in Buses /\ bus.commands # <<>> /\ Head(bus.commands).op = "subscribe"
  BY DEF SocketInd, BusInd, RedisRefuses
<1>1. PICK q : q = Head(bus.commands).run
  OBVIOUS
<1>2. PICK id : id = Opener(q)
  OBVIOUS
<1>3. /\ q \in Runs /\ id \in Ids /\ Opening(At(id), q) /\ At(id) \in Conns
      /\ \A jd \in Ids : Opening(At(jd), q) => jd = id
  BY <1>0, <1>1, <1>2, OpenerIs
<1>4. bus' = [bus EXCEPT !.channels[q] = {}, !.commands = Tail(bus.commands)]
  BY <1>1, <1>2, RefusedMakes
<1>5. PICK s \in Conns : connections' = Replaced(id, s) /\ Dropped(At(id), s, q)
  BY <1>1, <1>2, RefusedMakes
<1>6. /\ bus' \in Buses /\ bus'.redis = bus.redis /\ bus'.commands = Tail(bus.commands)
      /\ bus'.channels[q] = {} /\ \A r \in Runs : r # q => bus'.channels[r] = bus.channels[r]
  <2>1. PICK c : c = Tail(bus.commands)
    OBVIOUS
  <2>2. c \in Seq(Commands) /\ bus.channels \in [Runs -> SUBSET (Browsers \X Nat)]
    BY <1>0, <2>1 DEF Buses
  <2>3. PICK d : d = [bus.channels EXCEPT ![q] = {}]
    OBVIOUS
  <2>4. /\ d \in [Runs -> SUBSET (Browsers \X Nat)]
        /\ d[q] = {} /\ \A r \in Runs : r # q => d[r] = bus.channels[r]
    BY <1>3, <2>2, <2>3
  <2>5. bus' = [bus EXCEPT !.channels = d, !.commands = c]
    BY <1>4, <2>1, <2>3
  <2>6. bus' \in Buses /\ bus'.redis = bus.redis /\ bus'.commands = c /\ bus'.channels = d
    BY <1>0, <2>2, <2>4, <2>5 DEF Buses
  <2> QED
    BY <2>1, <2>4, <2>6
<1>7. /\ Orderly(bus') /\ ~Subscribing(bus', q) /\ ~Sending(bus', q)
      /\ \A r \in Runs : r # q => /\ Subscribing(bus', r) <=> Subscribing(bus, r)
                                  /\ Sending(bus', r) <=> Sending(bus, r)
  BY <1>0, <1>1, <1>6, SubscribeTaken
<1>8. s.busy = "idle" /\ \A r \in Runs : r # q => s.subs[r] = At(id).subs[r]
  BY <1>5 DEF Dropped
<1>9. /\ Ids' = Ids /\ At(id)' = s /\ \A jd \in Ids : jd # id => At(jd)' = At(jd)
      /\ \A r \in Runs : r # q => Unmoved(r)
  BY <1>0, <1>3, <1>5, <1>8, OpenerUnmoved
<1>10. \A r \in Runs : r # q => ChannelInd(r)'
  BY <1>6, <1>7, <1>9, SameChannel DEF BusInd
<1>11. ChannelInd(q) /\ Subscribing(bus, q)
  <2>1. ChannelInd(q)
    BY <1>3 DEF BusInd
  <2> QED
    BY <1>3, <2>1 DEF ChannelInd
<1>12. \A jd \in Ids : ~Opening(At(jd)', q)
  BY <1>3, <1>8, <1>9 DEF Opening
<1>13. s.subs[q].at = "none"
  BY <1>5, NoneIs DEF Dropped
<1>14. \A jd \in Ids : At(jd)'.subs[q].at = "live" => At(jd)'.subs[q].early
  BY <1>9, <1>11, <1>13 DEF ChannelInd
<1>15. ChannelInd(q)'
  BY <1>6, <1>7, <1>9, <1>12, <1>14 DEF ChannelInd
<1> QED
  BY <1>6, <1>7, <1>10, <1>15 DEF BusInd

\* Connections that change where they are.
LEMMA MappedMakes ==
  ASSUME Typed, Typed', \A b \in Browsers : DOMAIN connections'[b] = DOMAIN connections[b]
  PROVE  /\ Ids' = Ids
         /\ \A b \in Browsers : /\ Current(b)' = Current(b)
                                /\ (connections[b] = <<>>) <=> (connections'[b] = <<>>)
<1>1. \A b \in Browsers : connections[b] \in Seq(Conns) /\ connections'[b] \in Seq(Conns)
  BY DEF Typed
<1>2. \A b \in Browsers : Len(connections'[b]) = Len(connections[b])
  <2>1. TAKE b \in Browsers
  <2>2. PICK c \in Seq(Conns) : c = connections[b]
    BY <1>1
  <2>3. PICK d \in Seq(Conns) : d = connections'[b]
    BY <1>1
  <2>4. 1 .. Len(c) = 1 .. Len(d) /\ Len(c) \in Nat /\ Len(d) \in Nat
    BY <2>2, <2>3
  <2>5. Len(c) = Len(d)
    <3>1. Len(c) <= Len(d)
      <4>1. CASE Len(c) = 0
        BY <2>4, <4>1
      <4>2. CASE Len(c) # 0
        <5>1. Len(c) \in 1 .. Len(c)
          BY <2>4, <4>2
        <5> QED
          BY <2>4, <5>1
      <4> QED
        BY <4>1, <4>2
    <3>2. Len(d) <= Len(c)
      <4>1. CASE Len(d) = 0
        BY <2>4, <4>1
      <4>2. CASE Len(d) # 0
        <5>1. Len(d) \in 1 .. Len(d)
          BY <2>4, <4>2
        <5> QED
          BY <2>4, <5>1
      <4> QED
        BY <4>1, <4>2
    <3> QED
      BY <2>4, <3>1, <3>2
  <2> QED
    BY <2>2, <2>3, <2>5
<1>3. Ids' = Ids
  BY DEF Ids
<1>4. \A b \in Browsers : /\ Current(b)' = Current(b)
                          /\ (connections[b] = <<>>) <=> (connections'[b] = <<>>)
  BY <1>1, <1>2 DEF Current
<1> QED
  BY <1>3, <1>4

\* Nobody listens and nothing is on its way.
Silent ==
    /\ bus = NoBus
    /\ \A id \in Ids, r \in Runs : At(id).subs[r].at # "live" /\ ~Opening(At(id), r)

\* Then the channels are right.
LEMMA NothingIsSent == Silent => BusInd
<1> SUFFICES ASSUME Silent PROVE BusInd
  OBVIOUS
<1>1. PICK c : c = [r \in Runs |-> {}]
  OBVIOUS
<1>2. c \in [Runs -> SUBSET (Browsers \X Nat)] /\ \A r \in Runs : c[r] = {}
  BY <1>1
<1>3. bus = [channels |-> c, redis |-> {}, commands |-> <<>>]
  BY <1>1 DEF NoBus, Silent
<1>4. <<>> \in Seq(Commands)
  OBVIOUS
<1>5. bus \in Buses /\ bus.channels = c /\ bus.redis = {} /\ bus.commands = <<>>
  BY <1>2, <1>3, <1>4 DEF Buses
<1>6. Orderly(bus) /\ \A r : ~Subscribing(bus, r) /\ ~Sending(bus, r)
  BY <1>5 DEF Orderly, Subscribing, Sending
<1>7. \A r \in Runs : ChannelInd(r)
  BY <1>2, <1>5, <1>6 DEF ChannelInd, Silent
<1> QED
  BY <1>5, <1>6, <1>7 DEF BusInd

\* And they are right when a step leads there.
LEMMA NothingIsSentNext == Silent' => BusInd'
  BY NothingIsSent, PTL

\* Every connection, when the process ends.
Ended(o, s) ==
    /\ ~s.open /\ ~s.lost /\ s.up = <<>>
    /\ s.busy = "idle" /\ s.asked = Anonymous /\ s.found = "nothing" /\ s.viewer = Anonymous
    /\ \A r \in Runs : s.subs[r] = NoSubscription /\ s.checks[r] = NoCheck
    /\ Adds(o, s, [type |-> "close", code |-> "GONE"])

\* What the process leaves of a connection when it ends.
Left(s) == [Done(Shut(s, "GONE")) EXCEPT !.checks = Accepted.checks]

\* When the process ends every connection ends.
LEMMA EndingMakes ==
  ASSUME SocketInd,
         connections' = [b \in Browsers |-> [n \in DOMAIN connections[b] |-> Left(connections[b][n])]]
  PROVE  /\ Typed' /\ Ids' = Ids
         /\ \A id \in Ids : Ended(At(id), At(id)') /\ At(id)' \in Conns
         /\ \A b \in Browsers : /\ Current(b)' = Current(b)
                                /\ (connections[b] = <<>>) <=> (connections'[b] = <<>>)
<1>1. Typed
  BY DEF SocketInd
<1>2. ASSUME NEW o \in Conns
      PROVE  Left(o) \in Conns /\ Ended(o, Left(o))
  <2>1. "GONE" \in Codes
    BY DEF Codes
  <2>2. PICK t : t = Shut(o, "GONE")
    OBVIOUS
  <2>3. t \in Conns /\ Closed(o, t) /\ Adds(o, t, [type |-> "close", code |-> "GONE"])
    BY <2>1, <2>2, ShutMakes
  <2>4. PICK d : d = Done(t)
    OBVIOUS
  <2>5. /\ d \in Conns /\ d.open = t.open /\ d.lost = t.lost /\ d.viewer = t.viewer
        /\ d.subs = t.subs /\ d.up = t.up /\ d.down = t.down
        /\ d.busy = "idle" /\ d.asked = Anonymous /\ d.found = "nothing"
    BY <2>3, <2>4, DoneMakes
  <2>6. PICK c : c = Accepted.checks
    OBVIOUS
  <2>7. c \in [Runs -> Checks] /\ \A r \in Runs : c[r] = NoCheck
    BY <2>6, AcceptedIs
  <2>8. PICK e : e = [d EXCEPT !.checks = c]
    OBVIOUS
  <2>9. /\ e \in Conns /\ e.open = d.open /\ e.lost = d.lost /\ e.viewer = d.viewer
        /\ e.subs = d.subs /\ e.up = d.up /\ e.down = d.down
        /\ e.busy = d.busy /\ e.asked = d.asked /\ e.found = d.found /\ e.checks = c
    BY <2>5, <2>7, <2>8 DEF Conns
  <2>10. Ended(o, e)
    BY <2>3, <2>5, <2>7, <2>9 DEF Ended, Closed, Adds
  <2>11. e = Left(o)
    BY <2>2, <2>4, <2>6, <2>8 DEF Left
  <2> QED
    BY <2>9, <2>10, <2>11
<1>3. ASSUME NEW b \in Browsers
      PROVE  /\ connections'[b] \in Seq(Conns) /\ DOMAIN connections'[b] = DOMAIN connections[b]
             /\ \A n \in DOMAIN connections[b] : /\ connections'[b][n] \in Conns
                                                 /\ Ended(connections[b][n], connections'[b][n])
  <2>1. PICK row \in Seq(Conns) : row = connections[b]
    BY <1>1 DEF Typed
  <2>2. PICK new : new = [n \in DOMAIN row |-> Left(row[n])]
    OBVIOUS
  <2>3. connections'[b] = new
    BY <2>1, <2>2
  <2>4. \A n \in DOMAIN row : row[n] \in Conns
    BY <2>1
  <2>5. DOMAIN new = DOMAIN row /\ \A n \in DOMAIN row : new[n] \in Conns /\ Ended(row[n], new[n])
    BY <1>2, <2>2, <2>4
  <2>6. DOMAIN row = 1 .. Len(row) /\ Len(row) \in Nat
    BY <2>1
  <2>7. new \in Seq(Conns)
    BY <2>2, <2>5, <2>6
  <2> QED
    BY <2>1, <2>3, <2>5, <2>7
<1>4. Typed'
  BY <1>3 DEF Typed
<1>5. /\ Ids' = Ids
      /\ \A b \in Browsers : /\ Current(b)' = Current(b)
                             /\ (connections[b] = <<>>) <=> (connections'[b] = <<>>)
  BY <1>1, <1>3, <1>4, MappedMakes
<1>6. \A id \in Ids : Ended(At(id), At(id)') /\ At(id)' \in Conns
  BY <1>1, <1>3, IdsAre DEF At
<1> QED
  BY <1>4, <1>5, <1>6

\* When the process ends nothing is left of the bus.
LEMMA RecheckKeepsBus ==
  ASSUME SocketInd, NEW id \in Ids, NEW r \in Runs, RecheckFails(id, r)
  PROVE  BusInd'
<1>1. /\ connections' = [b \in Browsers |-> [n \in DOMAIN connections[b] |-> Left(connections[b][n])]]
      /\ bus' = NoBus
  BY DEF RecheckFails, Left
<1>2. Ids' = Ids /\ \A jd \in Ids : Ended(At(jd), At(jd)')
  BY <1>1, EndingMakes
<1>3. \A jd \in Ids', q \in Runs : At(jd)'.subs[q].at # "live" /\ ~Opening(At(jd)', q)
  BY <1>2, NoneIs DEF Ended, Opening
<1>4. bus' = NoBus'
  BY <1>1 DEF NoBus
<1> QED
  BY <1>3, <1>4, NothingIsSentNext DEF Silent

------------------------------------------------------------------------------
(* What a step of the process is to a connection. *)

\* Nobody comes to be told what was published too late for him.
Proper(o, s, may) == \A who : Clean(o, who, may) => Clean(s, who, may)

\* Whoever speaks to the connection still does, and is still served.
Links(o, s) == \A k \in Tabs : k.claimed \subseteq k.wanted /\ Linked(k, o) => Linked(k, s)
Serves(o, s, done) ==
    \A k \in Tabs : k.claimed \subseteq k.wanted /\ Linked(k, o) /\ Served(k, o, done) => Served(k, s, done)

Good(o, s) ==
    Quieter(o, s) /\ Sound(s, ended) /\ Proper(o, s, readers) /\ Links(o, s) /\ Serves(o, s, ended)

\* A frame that is handled leaves the others to be handled.
Handles(o, s) == \A i \in DOMAIN s.up : \E j \in DOMAIN o.up : s.up[i] = o.up[j]

\* Nobody else has come, and what is queued has the same to pass.
Stays(o, s) ==
    /\ s.viewer \in {Anonymous, o.viewer}
    /\ s.open =>
          /\ o.open /\ s.viewer = o.viewer /\ (o.expired => s.expired)
          /\ \A r \in Runs :
                /\ s.checks[r] = o.checks[r]
                /\ \/ s.subs[r].queue = <<>>
                   \/ s.subs[r].queue = o.subs[r].queue /\ (s.subs[r].fresh => o.subs[r].fresh)

\* Then a frame that is not about what becomes of a run may be said to anybody.
LEMMA PlainIsProper ==
  ASSUME NEW o, NEW s, NEW may, Grows(o, s), \A f \in Said(o, s) : f.type \notin {"progress", "complete"},
         Handles(o, s), Stays(o, s)
  PROVE  Proper(o, s, may)
<1> SUFFICES ASSUME NEW who, Clean(o, who, may) PROVE Clean(s, who, may)
  BY DEF Proper
<1>1. s.viewer \in {Anonymous, who}
  BY DEF Clean, Stays
<1>2. \A i \in DOMAIN s.up : s.up[i].type = "authenticate" => s.up[i].viewer = who
  BY DEF Clean, Handles
<1>3. ASSUME NEW i \in DOMAIN s.down, s.down[i].type \in {"progress", "complete"} PROVE ~s.down[i].late
  <2>1. CASE i \in DOMAIN o.down
    <3>1. s.down[i] = o.down[i]
      BY <2>1 DEF Grows
    <3> QED
      BY <1>3, <2>1, <3>1 DEF Clean
  <2>2. CASE i \notin DOMAIN o.down
    <3>1. s.down[i] \in Said(o, s)
      BY <1>3, <2>2 DEF Said
    <3> QED
      BY <1>3, <3>1
  <2> QED
    BY <2>1, <2>2
<1>4. ASSUME s.open, NEW r \in Runs PROVE Timely(s, r, may)
  <2>1. Timely(o, r, may) /\ s.viewer = o.viewer /\ s.checks[r] = o.checks[r] /\ (o.expired => s.expired)
    BY <1>4 DEF Clean, Stays
  <2>2. CASE s.subs[r].queue = <<>>
    BY <2>1, <2>2 DEF Timely, Apt
  <2>3. CASE s.subs[r].queue = o.subs[r].queue /\ (s.subs[r].fresh => o.subs[r].fresh)
    BY <2>1, <2>3 DEF Timely, Apt
  <2> QED
    BY <1>4, <2>2, <2>3 DEF Stays
<1> QED
  BY <1>1, <1>2, <1>3, <1>4 DEF Clean

\* A connection that goes on.
GoesOn(o, s) ==
    /\ s.open = o.open /\ s.lost = o.lost /\ Grows(o, s) /\ Handles(o, s)
    /\ \A f \in Said(o, s) : f.type # "close"

\* It still is who the tab speaks to, and what is awaited or claimed need only
\* have moved on.
LEMMA GoingOnKeeps ==
  ASSUME NEW o \in Conns, NEW s \in Conns, NEW done, GoesOn(o, s),
         o.open /\ ~o.lost /\ Answering(o) => Answering(s),
         \A k \in Tabs, r \in Runs :
            o.open /\ Linked(k, o) /\ r \in k.wanted /\ Stage(k, o, r, done) => Stage(k, s, r, done)
  PROVE  Links(o, s) /\ Serves(o, s, done)
<1>1. ASSUME NEW k \in Tabs, Linked(k, o) PROVE Linked(k, s)
  <2>1. ~s.lost /\ (s.open \/ Closing(s))
    BY <1>1, GrowsHears DEF GoesOn, Linked
  <2>2. \A i \in DOMAIN s.up : s.up[i].type # "bye"
    BY <1>1 DEF GoesOn, Handles, Linked
  <2>3. \A i \in DOMAIN s.up : s.up[i].type = "unsubscribe" => s.up[i].run \notin k.wanted
    BY <1>1 DEF GoesOn, Handles, Linked
  <2> QED
    BY <2>1, <2>2, <2>3 DEF Linked
<1>2. ASSUME NEW k \in Tabs, k.claimed \subseteq k.wanted, Linked(k, o), Served(k, o, done) PROVE Served(k, s, done)
  <2>1. ASSUME NEW i \in DOMAIN s.down, s.down[i].type = "close" PROVE s.down[i].code # "PROTOCOL"
    <3>1. CASE i \in DOMAIN o.down
      BY <1>2, <2>1, <3>1 DEF GoesOn, Grows, Served
    <3>2. CASE i \notin DOMAIN o.down
      BY <2>1, <3>2 DEF GoesOn, Said
    <3> QED
      BY <3>1, <3>2
  <2>2. ~o.lost /\ s.open = o.open
    BY <1>2 DEF GoesOn, Linked
  <2>3. k.claimed \subseteq Runs
    BY DEF Tabs
  <2>4. s.open =>
           /\ k.wanted # {} => k.wanted \subseteq k.claimed \/ k.asking \/ k.awaiting
           /\ k.awaiting => Answering(s)
           /\ \A r \in k.claimed : Stage(k, s, r, done)
    BY <1>2, <2>2, <2>3 DEF Served
  <2> QED
    BY <2>1, <2>4 DEF Served
<1> QED
  BY <1>1, <1>2 DEF Links, Serves

\* What is heard is answered.
LEMMA AnswerStands ==
  ASSUME NEW o, NEW s, Grows(o, s), Answering(o)
  PROVE  Answering(s) \/ \E i \in DOMAIN o.up : o.up[i].type = "authenticate"
<1>1. ASSUME NEW i \in DOMAIN o.down, o.down[i].type = "ready", o.down[i].viewer # Anonymous PROVE Answering(s)
  <2>1. i \in DOMAIN s.down /\ s.down[i] = o.down[i]
    BY DEF Grows
  <2> QED
    BY <1>1, <2>1 DEF Answering
<1>2. Hears(o, [type |-> "invalid"]) => Answering(s)
  BY GrowsHears DEF Answering
<1> QED
  BY <1>1, <1>2 DEF Answering

\* Where nothing that is claimed has moved but in the connection itself.
LEMMA StageStands ==
  ASSUME NEW o, NEW s, NEW k, NEW r, NEW done, Grows(o, s), Stage(k, o, r, done),
         Asks(o, [type |-> "subscribe", run |-> r]) => Stage(k, s, r, done),
         o.busy = "reading" /\ o.asked = r => Stage(k, s, r, done),
         o.busy = "opening" /\ o.asked = r /\ o.subs[r].at = "opening" => Stage(k, s, r, done),
         o.subs[r].at = "live" => Stage(k, s, r, done)
  PROVE  Stage(k, s, r, done)
<1>1. (\A f : Hears(o, f) => Hears(s, f)) /\ (Completes(o, r) => Completes(s, r))
  BY GrowsHears
<1> QED
  BY <1>1 DEF Stage

\* All but the first are still to be handled.
Leaves(o, s) == \A i \in DOMAIN o.up : o.up[i] = Head(o.up) \/ \E j \in DOMAIN s.up : s.up[j] = o.up[i]

\* Of the frames of a tab the first is taken.
LEMMA TakenHandles ==
  ASSUME NEW o \in Conns, o.up # <<>>, NEW s, s.up = Tail(o.up)
  PROVE  /\ Handles(o, s)
         /\ Leaves(o, s)
<1>1. PICK u \in Seq(UpFrames) : u = o.up
  BY DEF Conns
<1>2. PICK t : t = Tail(u)
  OBVIOUS
<1>3. u # <<>> /\ s.up = t
  BY <1>1, <1>2
<1>4. /\ \A i \in DOMAIN t : i + 1 \in DOMAIN u /\ t[i] = u[i + 1]
      /\ \A i \in DOMAIN u : i = 1 \/ (i - 1 \in DOMAIN t /\ t[i - 1] = u[i])
      /\ Head(u) = u[1]
  BY <1>2, <1>3
<1> QED
  BY <1>1, <1>3, <1>4 DEF Handles, Leaves

\* The same frames are all still to be handled.
LEMMA SameHandles ==
  ASSUME NEW o, NEW s, s.up = o.up
  PROVE  Handles(o, s)
  BY DEF Handles

------------------------------------------------------------------------------
(* The steps of one connection. *)

\* A connection that has closed has said why, if there was somebody to hear it.
LEMMA ClosingServes ==
  ASSUME NEW o \in Conns, NEW s \in Conns, ~s.open, ~s.lost, s.up = <<>>, s.viewer = Anonymous,
         NEW code \in Codes \ {"PROTOCOL"}, Adds(o, s, [type |-> "close", code |-> code])
  PROVE  Proper(o, s, readers) /\ Links(o, s) /\ Serves(o, s, ended)
<1>1. PICK f : f = [type |-> "close", code |-> code]
  OBVIOUS
<1>2. /\ Grows(o, s) /\ Said(o, s) \subseteq {f}
      /\ o.open /\ ~o.lost => Hears(s, f)
  BY <1>1, AddsGrows
<1>3. f.type = "close" /\ f.code # "PROTOCOL"
  BY <1>1
<1>4. Proper(o, s, readers)
  <2>1. Handles(o, s) /\ Stays(o, s)
    BY DEF Handles, Stays
  <2> QED
    BY <1>2, <1>3, <2>1, PlainIsProper
<1>5. ASSUME NEW k \in Tabs, Linked(k, o) PROVE Linked(k, s) /\ (Served(k, o, ended) => Served(k, s, ended))
  <2>1. Closing(s)
    <3>1. CASE o.open
      <4>1. Hears(s, f)
        BY <1>2, <1>5, <3>1 DEF Linked
      <4> QED
        BY <1>3, <4>1 DEF Hears, Closing
    <3>2. CASE ~o.open
      BY <1>2, <1>5, <3>2, GrowsHears DEF Linked
    <3> QED
      BY <3>1, <3>2
  <2>2. Linked(k, s)
    BY <2>1 DEF Linked
  <2>3. ASSUME Served(k, o, ended), NEW i \in DOMAIN s.down, s.down[i].type = "close"
        PROVE  s.down[i].code # "PROTOCOL"
    <3>1. CASE i \in DOMAIN o.down
      BY <1>2, <2>3, <3>1 DEF Grows, Served
    <3>2. CASE i \notin DOMAIN o.down
      BY <1>2, <1>3, <2>3, <3>2 DEF Said
    <3> QED
      BY <3>1, <3>2
  <2> QED
    BY <2>2, <2>3 DEF Served
<1> QED
  BY <1>4, <1>5 DEF Links, Serves

\* A connection that is shut hears why.
LEMMA ShutIsGood ==
  ASSUME NEW o \in Conns, Sound(o, ended), NEW s \in Conns, Closed(o, s), NEW code \in Codes \ {"PROTOCOL"},
         Adds(o, s, [type |-> "close", code |-> code])
  PROVE  Good(o, s)
<1>1. \A r \in Runs : s.subs[r].at = "none" /\ s.subs[r].queue = <<>>
  BY NoneIs DEF Closed
<1>2. Quieter(o, s)
  BY <1>1 DEF Quieter, Closed, Opening
<1>3. Sound(s, ended)
  BY <1>1 DEF Sound, Closed
<1>4. Proper(o, s, readers) /\ Links(o, s) /\ Serves(o, s, ended)
  BY ClosingServes DEF Closed
<1> QED
  BY <1>2, <1>3, <1>4 DEF Good

\* An expired one is shut, whatever it has been asked.
LEMMA ExpiredIsGood ==
  ASSUME NEW o \in Conns, Sound(o, ended), NEW t \in Conns, SameInside(o, t), t.down = o.down,
         NEW s \in Conns, s = Shut(t, "EXPIRED")
  PROVE  Good(o, s)
<1>1. "EXPIRED" \in Codes \ {"PROTOCOL"}
  BY DEF Codes
<1>2. Closed(t, s) /\ Adds(t, s, [type |-> "close", code |-> "EXPIRED"])
  BY <1>1, ShutMakes
<1>3. Closed(o, s) /\ Adds(o, s, [type |-> "close", code |-> "EXPIRED"])
  BY <1>2 DEF SameInside, Closed, Adds
<1> QED
  BY <1>1, <1>3, ShutIsGood

\* What is said by the way changes nothing.
LEMMA RemarkIsGood ==
  ASSUME NEW o \in Conns, Sound(o, ended), NEW s \in Conns,
         s.open = o.open, s.lost = o.lost, s.subs = o.subs,
         s.busy = o.busy, s.asked = o.asked, s.found = o.found, s.checks = o.checks, Proper(o, s, readers),
         NEW f, Adds(o, s, f), f.type \notin {"close", "progress", "complete"},
         o.up # <<>>, s.up = Tail(o.up), Head(o.up).type \notin {"subscribe"},
         Head(o.up).type = "authenticate" /\ o.open /\ ~o.lost => Answering(s)
  PROVE  Good(o, s)
<1>1. Grows(o, s) /\ Said(o, s) \subseteq {f}
  BY AddsGrows
<1>2. Quieter(o, s) /\ Sound(s, ended)
  <2>1. \A r \in Runs : s.subs[r].at \in {"none", "opening", "live"}
    BY DEF Conns, Subs
  <2> QED
    BY <2>1 DEF Quieter, Opening, Sound
<1>4. Handles(o, s) /\ Leaves(o, s)
  BY TakenHandles
<1>5. GoesOn(o, s)
  BY <1>1, <1>4 DEF GoesOn
<1>6. o.open /\ ~o.lost /\ Answering(o) => Answering(s)
  <2> SUFFICES ASSUME o.open, ~o.lost, Answering(o), ~Answering(s) PROVE FALSE
    OBVIOUS
  <2>1. PICK i \in DOMAIN o.up : o.up[i].type = "authenticate"
    BY <1>1, AnswerStands
  <2>2. Head(o.up).type # "authenticate"
    OBVIOUS
  <2>3. PICK j \in DOMAIN s.up : s.up[j] = o.up[i]
    BY <1>4, <2>1, <2>2 DEF Leaves
  <2> QED
    BY <2>1, <2>3 DEF Answering
<1>7. ASSUME NEW k \in Tabs, NEW r \in Runs, Stage(k, o, r, ended) PROVE Stage(k, s, r, ended)
  <2>1. Asks(o, [type |-> "subscribe", run |-> r]) => Asks(s, [type |-> "subscribe", run |-> r])
    <3> SUFFICES ASSUME NEW i \in DOMAIN o.up, o.up[i] = [type |-> "subscribe", run |-> r]
                 PROVE  \E j \in DOMAIN s.up : s.up[j] = [type |-> "subscribe", run |-> r]
      BY DEF Asks
    <3>1. o.up[i] # Head(o.up)
      OBVIOUS
    <3> QED
      BY <1>4, <3>1 DEF Leaves
  <2> QED
    BY <1>1, <1>7, <2>1, StageStands DEF Stage
<1>8. Links(o, s) /\ Serves(o, s, ended)
  BY <1>5, <1>6, <1>7, GoingOnKeeps
<1> QED
  BY <1>2, <1>8 DEF Good

\* Who authenticates is who is at the tab, and nothing was too late for him
\* while nobody had.
LEMMA AuthenticatedIsProper ==
  ASSUME NEW o \in Conns, o.up # <<>>, Head(o.up).type = "authenticate", NEW s,
         s.viewer = Head(o.up).viewer, s.viewer # Anonymous, s.up = Tail(o.up), s.open = o.open,
         s.expired = o.expired, s.subs = o.subs, s.checks = o.checks,
         NEW f, Adds(o, s, f), f.type \notin {"progress", "complete"}
  PROVE  Proper(o, s, readers)
<1> SUFFICES ASSUME NEW who, Clean(o, who, readers) PROVE Clean(s, who, readers)
  BY DEF Proper
<1>1. 1 \in DOMAIN o.up /\ o.up[1] = Head(o.up)
  <2>1. PICK u \in Seq(UpFrames) : u = o.up
    BY DEF Conns
  <2>2. u # <<>>
    BY <2>1
  <2> QED
    BY <2>1, <2>2
<1>2. s.viewer = who
  BY <1>1 DEF Clean
<1>3. Handles(o, s)
  BY TakenHandles
<1>4. \A i \in DOMAIN s.up : s.up[i].type = "authenticate" => s.up[i].viewer = who
  BY <1>3 DEF Clean, Handles
<1>5. Grows(o, s) /\ Said(o, s) \subseteq {f}
  BY AddsGrows
<1>6. ASSUME NEW i \in DOMAIN s.down, s.down[i].type \in {"progress", "complete"} PROVE ~s.down[i].late
  <2>1. CASE i \in DOMAIN o.down
    <3>1. s.down[i] = o.down[i]
      BY <1>5, <2>1 DEF Grows
    <3> QED
      BY <1>6, <2>1, <3>1 DEF Clean
  <2>2. CASE i \notin DOMAIN o.down
    <3>1. s.down[i] \in Said(o, s)
      BY <1>6, <2>2 DEF Said
    <3> QED
      BY <1>5, <1>6, <3>1
  <2> QED
    BY <2>1, <2>2
<1>7. ASSUME s.open, NEW r \in Runs PROVE Timely(s, r, readers)
  <2>1. Timely(o, r, readers) /\ o.viewer \in {Anonymous, who}
    BY <1>7 DEF Clean
  <2>2. CASE o.viewer = who
    BY <1>2, <2>1, <2>2 DEF Timely, Apt
  <2>3. CASE o.viewer = Anonymous
    <3>1. \A i \in DOMAIN o.checks[r].waiting : who \notin o.checks[r].waiting[i].late
      BY <1>2, <2>1, <2>3 DEF Timely, Apt
    <3>2. \A i \in DOMAIN o.subs[r].queue : who \notin o.subs[r].queue[i].late
      BY <1>2, <2>1, <2>3 DEF Timely, Apt
    <3> QED
      BY <1>2, <3>1, <3>2 DEF Timely, Apt
  <2> QED
    BY <2>1, <2>2, <2>3
<1> QED
  BY <1>2, <1>4, <1>6, <1>7 DEF Clean

\* A connection has been through one step, and is good.
Turns(id) == \E s \in Conns : One(id, s) /\ Good(At(id), s)

\* What is there of a connection before its step.
LEMMA AsItIs ==
  ASSUME SocketInd, NEW id \in Ids
  PROVE  At(id) \in Conns /\ Sound(At(id), ended)
BY IdsAre DEF SocketInd

\* An expired connection is shut, and another one does what it was asked.
LEMMA AliveTurns ==
  ASSUME SocketInd, NEW id \in Ids, NEW t \in Conns, SameInside(At(id), t), t.down = At(id).down,
         NEW s \in Conns, ~At(id).expired => Good(At(id), s), One(id, Alive(t, s))
  PROVE  Turns(id)
<1>1. At(id) \in Conns /\ Sound(At(id), ended)
  BY AsItIs
<1>2. CASE t.expired
  <2>1. PICK x : x = Shut(t, "EXPIRED")
    OBVIOUS
  <2>2. x \in Conns
    BY <2>1, ShutMakes DEF Codes
  <2>3. Good(At(id), x)
    BY <1>1, <2>1, <2>2, ExpiredIsGood
  <2>4. One(id, x)
    BY <1>2, <2>1 DEF Alive
  <2> QED
    BY <2>2, <2>3, <2>4 DEF Turns
<1>3. CASE ~t.expired
  <2>1. One(id, s)
    BY <1>3 DEF Alive
  <2>2. Good(At(id), s)
    BY <1>3 DEF SameInside
  <2> QED
    BY <2>1, <2>2 DEF Turns
<1> QED
  BY <1>2, <1>3

\* Frames that come in: a token that verifies.
LEMMA AuthenticateTurns ==
  ASSUME SocketInd, NEW id \in Ids, Authenticate(id)
  PROVE  Turns(id)
<1>1. PICK o : o = At(id)
  OBVIOUS
<1>2. o \in Conns /\ Sound(o, ended)
  BY <1>1, AsItIs
<1>3. o.up # <<>> /\ Head(o.up).type = "authenticate"
  BY <1>1 DEF Authenticate, Frame
<1>4. PICK t : t = Taken(o)
  OBVIOUS
<1>5. t \in Conns /\ SameInside(o, t) /\ t.up = Tail(o.up) /\ t.down = o.down /\ Head(o.up) \in UpFrames
  BY <1>2, <1>3, <1>4, TakenMakes
<1>6. PICK w : w = Head(o.up).viewer
  OBVIOUS
<1>7. w \in Viewers /\ w # Anonymous
  BY <1>3, <1>5, <1>6 DEF UpFrames
<1>8. PICK f : f = [type |-> "ready", viewer |-> w]
  OBVIOUS
<1>9. f \in DownFrames
  BY <1>7, <1>8 DEF DownFrames
<1>10. PICK n : n = [t EXCEPT !.viewer = w]
  OBVIOUS
<1>11. /\ n \in Conns /\ n.open = o.open /\ n.lost = o.lost /\ n.subs = o.subs
       /\ n.busy = o.busy /\ n.asked = o.asked /\ n.found = o.found /\ n.up = Tail(o.up) /\ n.down = o.down
       /\ n.checks = o.checks /\ n.expired = o.expired /\ n.viewer = w
  BY <1>5, <1>7, <1>10 DEF Conns, SameInside
<1>12. PICK s : s = Say(n, f)
  OBVIOUS
<1>13. s \in Conns /\ SameInside(n, s) /\ s.up = n.up /\ Adds(n, s, f)
  BY <1>9, <1>11, <1>12, SayMakes
<1>14. Adds(o, s, f)
  BY <1>11, <1>13 DEF Adds
<1>15. o.open /\ ~o.lost => Answering(s)
  <2>1. o.open /\ ~o.lost => Hears(s, f)
    BY <1>2, <1>14, AddsGrows
  <2>2. Hears(s, f) => Answering(s)
    BY <1>7, <1>8 DEF Hears, Answering
  <2> QED
    BY <2>1, <2>2
<1>16. /\ s.open = o.open /\ s.lost = o.lost /\ s.subs = o.subs
       /\ s.busy = o.busy /\ s.asked = o.asked /\ s.found = o.found /\ s.up = Tail(o.up)
       /\ s.checks = o.checks /\ s.expired = o.expired /\ s.viewer = w
  BY <1>11, <1>13 DEF SameInside
<1>17. f.type \notin {"close", "progress", "complete"}
  BY <1>8
<1>20. Proper(o, s, readers)
  BY <1>2, <1>3, <1>6, <1>7, <1>14, <1>16, <1>17, AuthenticatedIsProper
<1>18. Good(o, s)
  BY <1>2, <1>3, <1>13, <1>14, <1>15, <1>16, <1>17, <1>20, RemarkIsGood
<1>19. One(id, Alive(t, s))
  BY <1>1, <1>4, <1>6, <1>8, <1>10, <1>12 DEF Authenticate
<1> QED
  BY <1>1, <1>5, <1>13, <1>18, <1>19, AliveTurns

\* A token that does not.
LEMMA AuthenticateFailsTurns ==
  ASSUME SocketInd, NEW id \in Ids, AuthenticateFails(id)
  PROVE  Turns(id)
<1>1. PICK o : o = At(id)
  OBVIOUS
<1>2. o \in Conns /\ Sound(o, ended)
  BY <1>1, AsItIs
<1>3. o.up # <<>> /\ Head(o.up).type = "authenticate"
  BY <1>1 DEF AuthenticateFails, Frame
<1>4. PICK t : t = Taken(o)
  OBVIOUS
<1>5. t \in Conns /\ SameInside(o, t) /\ t.up = Tail(o.up) /\ t.down = o.down
  BY <1>2, <1>3, <1>4, TakenMakes
<1>6. PICK f : f = [type |-> "invalid"]
  OBVIOUS
<1>7. f \in DownFrames /\ f.type \notin {"close", "progress", "complete"}
  BY <1>6 DEF DownFrames
<1>8. PICK s : s = Say(t, f)
  OBVIOUS
<1>9. s \in Conns /\ SameInside(t, s) /\ s.up = t.up /\ Adds(t, s, f)
  BY <1>5, <1>7, <1>8, SayMakes
<1>10. Adds(o, s, f)
  BY <1>5, <1>9 DEF Adds, SameInside
<1>11. o.open /\ ~o.lost => Answering(s)
  BY <1>2, <1>6, <1>10, AddsGrows DEF Answering
<1>12. /\ s.open = o.open /\ s.lost = o.lost /\ s.subs = o.subs
       /\ s.busy = o.busy /\ s.asked = o.asked /\ s.found = o.found /\ s.up = Tail(o.up)
       /\ s.checks = o.checks /\ s.expired = o.expired /\ s.viewer = o.viewer
  BY <1>5, <1>9 DEF SameInside
<1>15. Proper(o, s, readers)
  <2>1. Handles(o, s)
    BY <1>2, <1>3, <1>12, TakenHandles
  <2>2. Stays(o, s)
    BY <1>12 DEF Stays
  <2>3. Grows(o, s) /\ Said(o, s) \subseteq {f}
    BY <1>2, <1>10, AddsGrows
  <2> QED
    BY <1>7, <2>1, <2>2, <2>3, PlainIsProper
<1>13. Good(o, s)
  BY <1>2, <1>3, <1>7, <1>9, <1>10, <1>11, <1>12, <1>15, RemarkIsGood
<1>14. One(id, Alive(t, s))
  BY <1>1, <1>4, <1>6, <1>8 DEF AuthenticateFails
<1> QED
  BY <1>1, <1>5, <1>9, <1>13, <1>14, AliveTurns

\* A subscribe is read: what was asked for is being looked up.
LEMMA SubscribeIsGood ==
  ASSUME NEW o \in Conns, Sound(o, ended), o.busy = "idle", o.up # <<>>,
         NEW q \in Runs, Head(o.up) = [type |-> "subscribe", run |-> q],
         NEW s \in Conns, s.up = Tail(o.up), s.down = o.down, s.open = o.open, s.lost = o.lost, s.subs = o.subs,
         s.busy = "reading", s.asked = q, s.found = "ended" => q \in ended,
         s.checks = o.checks, s.viewer = o.viewer, s.expired = o.expired
  PROVE  Good(o, s)
<1>1. Grows(o, s) /\ Said(o, s) = {}
  BY SameGrows
<1>2. Quieter(o, s) /\ Sound(s, ended)
  <2>1. \A r \in Runs : s.subs[r].at \in {"none", "opening", "live"}
    BY DEF Conns, Subs
  <2> QED
    BY <2>1 DEF Quieter, Opening, Sound
<1>4. Handles(o, s) /\ Leaves(o, s)
  BY TakenHandles
<1>3. Proper(o, s, readers)
  BY <1>1, <1>4, PlainIsProper DEF Stays
<1>5. GoesOn(o, s)
  BY <1>1, <1>4 DEF GoesOn
<1>6. o.open /\ ~o.lost /\ Answering(o) => Answering(s)
  <2> SUFFICES ASSUME Answering(o), ~Answering(s) PROVE FALSE
    OBVIOUS
  <2>1. PICK i \in DOMAIN o.up : o.up[i].type = "authenticate"
    BY <1>1, AnswerStands
  <2>2. Head(o.up).type # "authenticate"
    OBVIOUS
  <2>3. PICK j \in DOMAIN s.up : s.up[j] = o.up[i]
    BY <1>4, <2>1, <2>2 DEF Leaves
  <2> QED
    BY <2>1, <2>3 DEF Answering
<1>7. ASSUME NEW k \in Tabs, NEW r \in Runs, Stage(k, o, r, ended) PROVE Stage(k, s, r, ended)
  <2>1. Asks(o, [type |-> "subscribe", run |-> r]) => Stage(k, s, r, ended)
    <3> SUFFICES ASSUME NEW i \in DOMAIN o.up, o.up[i] = [type |-> "subscribe", run |-> r]
                 PROVE  Stage(k, s, r, ended)
      BY DEF Asks
    <3>1. CASE r = q
      BY <3>1 DEF Stage
    <3>2. CASE r # q
      <4>1. [type |-> "subscribe", run |-> r].run # [type |-> "subscribe", run |-> q].run
        BY <3>2
      <4>2. o.up[i] # Head(o.up)
        BY <4>1
      <4> QED
        BY <1>4, <4>2 DEF Leaves, Asks, Stage
    <3> QED
      BY <3>1, <3>2
  <2>2. o.subs[r].at = "live" => Stage(k, s, r, ended)
    BY DEF Stage
  <2> QED
    BY <1>1, <1>7, <2>1, <2>2, StageStands
<1>8. Links(o, s) /\ Serves(o, s, ended)
  BY <1>5, <1>6, <1>7, GoingOnKeeps
<1> QED
  BY <1>2, <1>3, <1>8 DEF Good

\* A subscribe comes in.
LEMMA SubscribeTurns ==
  ASSUME SocketInd, NEW id \in Ids, SubscribeFrame(id)
  PROVE  Turns(id)
<1>1. PICK o : o = At(id)
  OBVIOUS
<1>2. o \in Conns /\ Sound(o, ended)
  BY <1>1, AsItIs
<1>3. o.busy = "idle" /\ o.up # <<>> /\ Head(o.up).type = "subscribe"
  BY <1>1 DEF SubscribeFrame, Frame
<1>4. PICK t : t = Taken(o)
  OBVIOUS
<1>5. t \in Conns /\ SameInside(o, t) /\ t.up = Tail(o.up) /\ t.down = o.down /\ Head(o.up) \in UpFrames
  BY <1>2, <1>3, <1>4, TakenMakes
<1>6. PICK q : q = Head(o.up).run
  OBVIOUS
<1>7. q \in Runs /\ Head(o.up) = [type |-> "subscribe", run |-> q]
  BY <1>3, <1>5, <1>6 DEF UpFrames
<1>8. PICK w : w = Row(t, q)
  OBVIOUS
<1>9. w \in {"nothing", "ended", "open"} /\ (w = "ended" => q \in ended)
  BY <1>8 DEF Row
<1>10. PICK s : s = [t EXCEPT !.busy = "reading", !.asked = q, !.found = w]
  OBVIOUS
<1>11. /\ s \in Conns /\ s.up = Tail(o.up) /\ s.down = o.down /\ s.open = o.open /\ s.lost = o.lost
       /\ s.subs = o.subs /\ s.busy = "reading" /\ s.asked = q /\ s.found = w
       /\ s.checks = o.checks /\ s.viewer = o.viewer /\ s.expired = o.expired
  BY <1>5, <1>7, <1>9, <1>10 DEF Conns, SameInside
<1>12. Good(o, s)
  BY <1>2, <1>3, <1>7, <1>9, <1>11, SubscribeIsGood
<1>13. One(id, Alive(t, s))
  BY <1>1, <1>4, <1>6, <1>8, <1>10 DEF SubscribeFrame
<1> QED
  BY <1>1, <1>5, <1>11, <1>12, <1>13, AliveTurns

\* An unsubscribe is obeyed: whoever sent it no longer wants the run.
LEMMA UnsubscribeIsGood ==
  ASSUME NEW o \in Conns, Sound(o, ended), o.busy = "idle", o.up # <<>>,
         NEW q \in Runs, Head(o.up) = [type |-> "unsubscribe", run |-> q],
         NEW s \in Conns, s.up = Tail(o.up), s.down = o.down, s.open = o.open, s.lost = o.lost,
         s.subs[q] = NoSubscription, \A r \in Runs : r # q => s.subs[r] = o.subs[r],
         s.busy = o.busy, s.asked = o.asked, s.found = o.found,
         s.checks = o.checks, s.viewer = o.viewer, s.expired = o.expired
  PROVE  Good(o, s)
<1>1. Grows(o, s) /\ Said(o, s) = {}
  BY SameGrows
<1>2. Quieter(o, s) /\ Sound(s, ended)
  <2>1. \A r \in Runs : s.subs[r].at \in {"none", "opening", "live"}
    BY DEF Conns, Subs
  <2>2. s.subs[q].at = "none" /\ s.subs[q].queue = <<>>
    BY NoneIs
  <2>3. Quieter(o, s)
    BY <2>1, <2>2 DEF Quieter, Opening
  <2>4. \A r \in Runs : s.subs[r].at = "live" => s.open
    BY <2>2 DEF Sound
  <2>5. \A r \in Runs : \A i \in DOMAIN s.subs[r].queue :
           s.subs[r].queue[i].type = "complete" => r \in ended
    BY <2>2 DEF Sound
  <2> QED
    BY <2>3, <2>4, <2>5 DEF Sound
<1>4. Handles(o, s) /\ Leaves(o, s)
  BY TakenHandles
<1>3. Proper(o, s, readers)
  <2>1. s.subs[q].queue = <<>>
    BY NoneIs
  <2>2. Stays(o, s)
    BY <2>1 DEF Stays
  <2> QED
    BY <1>1, <1>4, <2>2, PlainIsProper
<1>5. GoesOn(o, s)
  BY <1>1, <1>4 DEF GoesOn
<1>6. o.open /\ ~o.lost /\ Answering(o) => Answering(s)
  <2> SUFFICES ASSUME Answering(o), ~Answering(s) PROVE FALSE
    OBVIOUS
  <2>1. PICK i \in DOMAIN o.up : o.up[i].type = "authenticate"
    BY <1>1, AnswerStands
  <2>2. Head(o.up).type # "authenticate"
    OBVIOUS
  <2>3. PICK j \in DOMAIN s.up : s.up[j] = o.up[i]
    BY <1>4, <2>1, <2>2 DEF Leaves
  <2> QED
    BY <2>1, <2>3 DEF Answering
<1>7. ASSUME NEW k \in Tabs, NEW r \in Runs, Linked(k, o), r \in k.wanted, Stage(k, o, r, ended)
      PROVE  Stage(k, s, r, ended)
  <2>1. r # q
    <3>1. PICK u \in Seq(UpFrames) : u = o.up
      BY DEF Conns
    <3>2. 1 \in DOMAIN u /\ Head(u) = u[1]
      BY <3>1
    <3>3. o.up[1].type = "unsubscribe" /\ o.up[1].run = q /\ 1 \in DOMAIN o.up
      BY <3>1, <3>2
    <3> QED
      BY <1>7, <3>3 DEF Linked
  <2>2. Asks(o, [type |-> "subscribe", run |-> r]) => Asks(s, [type |-> "subscribe", run |-> r])
    <3> SUFFICES ASSUME NEW i \in DOMAIN o.up, o.up[i] = [type |-> "subscribe", run |-> r]
                 PROVE  \E j \in DOMAIN s.up : s.up[j] = [type |-> "subscribe", run |-> r]
      BY DEF Asks
    <3>1. o.up[i] # Head(o.up)
      OBVIOUS
    <3> QED
      BY <1>4, <3>1 DEF Leaves
  <2>3. o.subs[r].at = "live" => Stage(k, s, r, ended)
    BY <2>1 DEF Stage
  <2> QED
    BY <1>1, <1>7, <2>2, <2>3, StageStands DEF Stage
<1>8. Links(o, s) /\ Serves(o, s, ended)
  BY <1>5, <1>6, <1>7, GoingOnKeeps
<1> QED
  BY <1>2, <1>3, <1>8 DEF Good

\* An unsubscribe comes in.
LEMMA UnsubscribeTurns ==
  ASSUME SocketInd, NEW id \in Ids, UnsubscribeFrame(id)
  PROVE  Turns(id)
<1>1. PICK o : o = At(id)
  OBVIOUS
<1>2. o \in Conns /\ Sound(o, ended)
  BY <1>1, AsItIs
<1>3. o.busy = "idle" /\ o.up # <<>> /\ Head(o.up).type = "unsubscribe"
  BY <1>1 DEF UnsubscribeFrame, Frame
<1>4. PICK t : t = Taken(o)
  OBVIOUS
<1>5. t \in Conns /\ SameInside(o, t) /\ t.up = Tail(o.up) /\ t.down = o.down /\ Head(o.up) \in UpFrames
  BY <1>2, <1>3, <1>4, TakenMakes
<1>6. PICK q : q = Head(o.up).run
  OBVIOUS
<1>7. q \in Runs /\ Head(o.up) = [type |-> "unsubscribe", run |-> q]
  BY <1>3, <1>5, <1>6 DEF UpFrames
<1>8. NoSubscription \in Subs
  BY NoneIs
<1>9. PICK s : s = [t EXCEPT !.subs[q] = NoSubscription]
  OBVIOUS
<1>10. /\ s \in Conns /\ s.up = t.up /\ s.down = t.down /\ s.open = t.open /\ s.lost = t.lost
       /\ s.busy = t.busy /\ s.asked = t.asked /\ s.found = t.found
       /\ s.checks = t.checks /\ s.viewer = t.viewer /\ s.expired = t.expired
       /\ s.subs[q] = NoSubscription /\ \A r \in Runs : r # q => s.subs[r] = t.subs[r]
  BY <1>5, <1>7, <1>8, <1>9, SubMakes
<1>11. Good(o, s)
  BY <1>2, <1>3, <1>5, <1>7, <1>10, UnsubscribeIsGood DEF SameInside
<1>12. One(id, Alive(t, s))
  BY <1>1, <1>4, <1>6, <1>9 DEF UnsubscribeFrame
<1> QED
  BY <1>1, <1>5, <1>10, <1>11, <1>12, AliveTurns

\* A connection that nobody speaks to is closed.
LEMMA CloseIsGood ==
  ASSUME NEW o \in Conns, Sound(o, ended), \A k \in Tabs : ~Linked(k, o)
  PROVE  Close(o) \in Conns /\ Good(o, Close(o))
<1>1. PICK s : s = Close(o)
  OBVIOUS
<1>2. s \in Conns /\ Closed(o, s) /\ s.down = <<>>
  BY <1>1, CloseMakes
<1>3. \A r \in Runs : s.subs[r].at = "none" /\ s.subs[r].queue = <<>>
  BY <1>2, NoneIs DEF Closed
<1>4. Quieter(o, s)
  BY <1>2, <1>3 DEF Quieter, Closed, Opening
<1>5. Sound(s, ended)
  BY <1>2, <1>3 DEF Sound, Closed
<1>7. Proper(o, s, readers)
  BY <1>2 DEF Proper, Clean, Closed
<1> QED
  BY <1>1, <1>2, <1>4, <1>5, <1>7 DEF Good, Links, Serves

\* The tab has closed its connection.
LEMMA ByeTurns ==
  ASSUME SocketInd, NEW id \in Ids, Bye(id)
  PROVE  Turns(id)
<1>1. PICK o : o = At(id)
  OBVIOUS
<1>2. o \in Conns /\ Sound(o, ended)
  BY <1>1, AsItIs
<1>3. o.up # <<>> /\ Last(o.up).type = "bye" /\ One(id, Close(o))
  BY <1>1 DEF Bye
<1>4. PICK u \in Seq(UpFrames) : u = o.up
  BY <1>2 DEF Conns
<1>5. Len(u) \in DOMAIN u /\ Last(u) = u[Len(u)]
  BY <1>3, <1>4 DEF Last
<1>6. \A k \in Tabs : ~Linked(k, o)
  BY <1>3, <1>4, <1>5 DEF Linked
<1> QED
  BY <1>1, <1>2, <1>3, <1>6, CloseIsGood DEF Turns

\* Nor does anybody answer the pings of a lost one.
LEMMA PingTurns ==
  ASSUME SocketInd, NEW id \in Ids, Ping(id)
  PROVE  Turns(id)
<1>1. At(id) \in Conns /\ Sound(At(id), ended)
  BY AsItIs
<1>2. \A k \in Tabs : ~Linked(k, At(id))
  BY DEF Ping, Linked
<1> QED
  BY <1>1, <1>2, CloseIsGood DEF Ping, Turns

\* A socket whose token has expired, or whose connection is lost.
LEMMA ShutTurns ==
  ASSUME SocketInd, NEW id \in Ids, NEW code \in Codes \ {"PROTOCOL"}, One(id, Shut(At(id), code))
  PROVE  Turns(id)
<1>1. At(id) \in Conns /\ Sound(At(id), ended)
  BY AsItIs
<1>2. PICK s : s = Shut(At(id), code)
  OBVIOUS
<1>3. s \in Conns /\ Closed(At(id), s) /\ Adds(At(id), s, [type |-> "close", code |-> code])
  BY <1>1, <1>2, ShutMakes
<1>4. Good(At(id), s)
  BY <1>1, <1>3, ShutIsGood
<1> QED
  BY <1>2, <1>3, <1>4 DEF Turns

\* What is refused or over is answered.
LEMMA RowTurns ==
  ASSUME SocketInd, NEW id \in Ids, RowArrives(id)
  PROVE  Turns(id)
<1>1. PICK o : o = At(id)
  OBVIOUS
<1>2. o \in Conns /\ Sound(o, ended)
  BY <1>1, AsItIs
<1>3. o.busy = "reading"
  BY <1>1 DEF RowArrives
<1>4. PICK q : q = o.asked
  OBVIOUS
<1>5. q \in Runs
  BY <1>2, <1>3, <1>4 DEF Sound
<1>6. PICK t : t = Done(o)
  OBVIOUS
<1>7. /\ t \in Conns /\ t.open = o.open /\ t.lost = o.lost /\ t.subs = o.subs
      /\ t.up = o.up /\ t.down = o.down /\ t.busy = "idle" /\ t.found = "nothing"
      /\ t.checks = o.checks /\ t.viewer = o.viewer /\ t.expired = o.expired
  BY <1>2, <1>6, DoneMakes
<1>8. ASSUME NEW f \in DownFrames, f.type \in {"error", "subscribed"}, One(id, Say(t, f)),
             Hears(Say(t, f), f) => \A k : Stage(k, Say(t, f), q, ended)
      PROVE  Turns(id)
  <2>1. PICK s : s = Say(t, f)
    OBVIOUS
  <2>2. s \in Conns /\ SameInside(t, s) /\ s.up = t.up /\ Adds(t, s, f)
    BY <1>7, <2>1, SayMakes
  <2>3. Adds(o, s, f)
    BY <1>7, <2>2 DEF Adds
  <2>4. /\ s.open = o.open /\ s.lost = o.lost /\ s.subs = o.subs
        /\ s.up = o.up /\ s.busy = "idle" /\ s.found = "nothing"
        /\ s.checks = o.checks /\ s.viewer = o.viewer /\ s.expired = o.expired
    BY <1>7, <2>2 DEF SameInside
  <2>5. Grows(o, s) /\ Said(o, s) \subseteq {f} /\ (o.open /\ ~o.lost => Hears(s, f))
    BY <1>2, <2>3, AddsGrows
  <2>6. Quieter(o, s)
    <3>1. \A r \in Runs : s.subs[r].at \in {"none", "opening", "live"}
      BY <2>2 DEF Conns, Subs
    <3> QED
      BY <1>3, <2>4, <3>1 DEF Quieter, Opening
  <2>7. Sound(s, ended)
    BY <1>2, <2>4 DEF Sound
  <2>8. Proper(o, s, readers)
    BY <1>8, <2>4, <2>5, SameHandles, PlainIsProper DEF Stays
  <2>9. GoesOn(o, s)
    BY <1>8, <2>4, <2>5, SameHandles DEF GoesOn
  <2>10. Answering(o) => Answering(s)
    BY <2>4, <2>5, AnswerStands DEF Answering
  <2>11. ASSUME NEW k \in Tabs, NEW r \in Runs, o.open, Linked(k, o), Stage(k, o, r, ended) PROVE Stage(k, s, r, ended)
    <3>1. o.busy = "reading" /\ o.asked = r => Stage(k, s, r, ended)
      BY <1>4, <1>8, <2>1, <2>5, <2>11 DEF Linked
    <3>2. Asks(o, [type |-> "subscribe", run |-> r]) => Stage(k, s, r, ended)
      BY <2>4 DEF Asks, Stage
    <3>3. o.subs[r].at = "live" => Stage(k, s, r, ended)
      BY <2>4 DEF Stage
    <3> QED
      BY <1>3, <2>5, <2>11, <3>1, <3>2, <3>3, StageStands
  <2>12. Links(o, s) /\ Serves(o, s, ended)
    BY <1>2, <2>2, <2>9, <2>10, <2>11, GoingOnKeeps
  <2> QED
    BY <1>1, <1>8, <2>1, <2>2, <2>6, <2>7, <2>8, <2>12 DEF Good, Turns
<1>9. CASE o.found = "nothing" /\ One(id, Say(t, [type |-> "error", run |-> q]))
  <2>1. PICK f : f = [type |-> "error", run |-> q]
    OBVIOUS
  <2>2. f \in DownFrames /\ f.type = "error"
    BY <1>5, <2>1 DEF DownFrames
  <2>3. Hears(Say(t, f), f) => \A k : Stage(k, Say(t, f), q, ended)
    BY <2>1 DEF Stage
  <2> QED
    BY <1>8, <1>9, <2>1, <2>2, <2>3
<1>10. CASE o.found = "ended" /\ One(id, Say(t, [type |-> "subscribed", run |-> q]))
  <2>1. PICK f : f = [type |-> "subscribed", run |-> q]
    OBVIOUS
  <2>2. f \in DownFrames /\ f.type = "subscribed"
    BY <1>5, <2>1 DEF DownFrames
  <2>3. q \in ended
    BY <1>2, <1>4, <1>10 DEF Sound
  <2>4. Hears(Say(t, f), f) => \A k : Stage(k, Say(t, f), q, ended)
    BY <2>1, <2>3 DEF Stage
  <2> QED
    BY <1>8, <1>10, <2>1, <2>2, <2>4
<1> QED
  BY <1>1, <1>4, <1>6, <1>9, <1>10 DEF RowArrives

\* A closed connection that joins a channel does not.
LEMMA JoinShutTurns ==
  ASSUME SocketInd, NEW id \in Ids, JoinChannel(id), ~At(id).open
  PROVE  Turns(id)
<1>1. PICK o : o = At(id)
  OBVIOUS
<1>2. o \in Conns /\ Sound(o, ended)
  BY <1>1, AsItIs
<1>3. PICK s : s = Done(o)
  OBVIOUS
<1>4. /\ s \in Conns /\ s.open = o.open /\ s.lost = o.lost /\ s.subs = o.subs
      /\ s.up = o.up /\ s.down = o.down /\ s.busy = "idle" /\ s.found = "nothing"
      /\ s.checks = o.checks /\ s.viewer = o.viewer
  BY <1>2, <1>3, DoneMakes
<1>5. Quieter(o, s) /\ One(id, s)
  BY <1>1, <1>3, JoinShutMakes
<1>6. Sound(s, ended)
  BY <1>2, <1>4 DEF Sound
<1>7. Grows(o, s) /\ Said(o, s) = {}
  BY <1>4, SameGrows
<1>8. Proper(o, s, readers)
  BY <1>1, <1>4, <1>7, SameHandles, PlainIsProper DEF Stays
<1>9. GoesOn(o, s)
  BY <1>4, <1>7, SameHandles DEF GoesOn
<1>10. Links(o, s) /\ Serves(o, s, ended)
  BY <1>1, <1>2, <1>4, <1>9, GoingOnKeeps
<1> QED
  BY <1>1, <1>4, <1>5, <1>6, <1>8, <1>10 DEF Good, Turns

\* What is older or expires is what it was.
LEMMA StillIsGood ==
  ASSUME NEW o \in Conns, Sound(o, ended), NEW s \in Conns, s.up = o.up, s.down = o.down,
         s.open = o.open, s.lost = o.lost, s.busy = o.busy, s.asked = o.asked, s.found = o.found,
         \A r \in Runs : /\ s.subs[r].at = o.subs[r].at /\ s.subs[r].early = o.subs[r].early
                         /\ s.subs[r].queue = o.subs[r].queue /\ (s.subs[r].fresh => o.subs[r].fresh),
         s.checks = o.checks, s.viewer = o.viewer, o.expired => s.expired
  PROVE  Good(o, s)
<1>1. Grows(o, s) /\ Said(o, s) = {}
  BY SameGrows
<1>2. Quieter(o, s)
  BY DEF Quieter, Opening
<1>3. Sound(s, ended)
  <2>1. s.busy = "opening" => s.subs[s.asked].at # "live"
    BY DEF Sound
  <2>2. \A r \in Runs : s.subs[r].at = "live" => s.open
    BY DEF Sound
  <2>3. \A r \in Runs : \A i \in DOMAIN s.subs[r].queue :
           s.subs[r].queue[i].type = "complete" => r \in ended
    BY DEF Sound
  <2> QED
    BY <2>1, <2>2, <2>3 DEF Sound
<1>4. Proper(o, s, readers)
  BY <1>1, SameHandles, PlainIsProper DEF Stays
<1>5. GoesOn(o, s)
  BY <1>1, SameHandles DEF GoesOn
<1>6. Answering(o) => Answering(s)
  BY DEF Answering, Hears
<1>7. ASSUME NEW k \in Tabs, NEW r \in Runs, Stage(k, o, r, ended) PROVE Stage(k, s, r, ended)
  BY <1>7 DEF Stage, Asks, Hears, Completes
<1>8. Links(o, s) /\ Serves(o, s, ended)
  BY <1>5, <1>6, <1>7, GoingOnKeeps
<1> QED
  BY <1>2, <1>3, <1>4, <1>8 DEF Good

\* A decision gets old.
LEMMA AgeTurns ==
  ASSUME SocketInd, NEW id \in Ids, NEW r \in Runs, Age(id, r)
  PROVE  Turns(id)
<1>1. PICK o : o = At(id)
  OBVIOUS
<1>2. o \in Conns /\ Sound(o, ended)
  BY <1>1, AsItIs
<1>3. PICK t : t = [o.subs[r] EXCEPT !.fresh = FALSE]
  OBVIOUS
<1>4. o.subs[r] \in Subs
  BY <1>2 DEF Conns
<1>5. t \in Subs /\ ~t.fresh /\ t.at = o.subs[r].at /\ t.early = o.subs[r].early /\ t.queue = o.subs[r].queue
  BY <1>3, <1>4 DEF Subs
<1>6. PICK s : s = [o EXCEPT !.subs[r] = t]
  OBVIOUS
<1>7. /\ s \in Conns /\ s.up = o.up /\ s.down = o.down /\ s.open = o.open /\ s.lost = o.lost
      /\ s.busy = o.busy /\ s.asked = o.asked /\ s.found = o.found
      /\ s.checks = o.checks /\ s.viewer = o.viewer /\ s.expired = o.expired
      /\ s.subs[r] = t /\ \A q \in Runs : q # r => s.subs[q] = o.subs[q]
  BY <1>2, <1>5, <1>6, SubMakes
<1>8. \A q \in Runs : /\ s.subs[q].at = o.subs[q].at /\ s.subs[q].early = o.subs[q].early
                      /\ s.subs[q].queue = o.subs[q].queue /\ (s.subs[q].fresh => o.subs[q].fresh)
  BY <1>5, <1>7
<1>9. Good(o, s)
  BY <1>2, <1>7, <1>8, StillIsGood
<1>10. [o EXCEPT !.subs[r].fresh = FALSE] = s
  BY <1>3, <1>6
<1>11. One(id, s)
  BY <1>1, <1>10 DEF Age
<1> QED
  BY <1>1, <1>7, <1>9, <1>11 DEF Turns

\* A token expires.
LEMMA ExpiresTurns ==
  ASSUME SocketInd, NEW id \in Ids, Expires(id)
  PROVE  Turns(id)
<1>1. PICK o : o = At(id)
  OBVIOUS
<1>2. o \in Conns /\ Sound(o, ended)
  BY <1>1, AsItIs
<1>3. PICK s : s = [o EXCEPT !.expired = TRUE]
  OBVIOUS
<1>4. /\ s \in Conns /\ s.up = o.up /\ s.down = o.down /\ s.open = o.open /\ s.lost = o.lost
      /\ s.busy = o.busy /\ s.asked = o.asked /\ s.found = o.found /\ s.subs = o.subs
      /\ s.checks = o.checks /\ s.viewer = o.viewer /\ s.expired
  BY <1>2, <1>3 DEF Conns
<1>5. Good(o, s)
  BY <1>2, <1>4, StillIsGood
<1>6. One(id, s)
  BY <1>1, <1>3 DEF Expires
<1> QED
  BY <1>1, <1>4, <1>5, <1>6 DEF Turns

\* The next event of a subscription is handled.
LEMMA DeliveryIsGood ==
  ASSUME NEW o \in Conns, Sound(o, ended), NEW r \in Runs, NEW s \in Conns,
         Around(o, s, r), Grows(o, s), Delivered(o, s, r), \A f \in Said(o, s) : f.type # "close",
         \A i \in DOMAIN s.checks[r].waiting : s.checks[r].waiting[i].type = "complete" => r \in ended,
         Proper(o, s, readers)
  PROVE  Good(o, s)
<1>2. /\ s \in Conns /\ Around(o, s, r) /\ Grows(o, s) /\ Delivered(o, s, r)
      /\ \A f \in Said(o, s) : f.type # "close"
  OBVIOUS
<1>3. NoSubscription.at = "none" /\ NoSubscription.queue = <<>>
  BY NoneIs
<1>4. Quieter(o, s)
  <2>1. ASSUME NEW q \in Runs
        PROVE  /\ s.subs[q].at = "live" => o.subs[q].at = "live" /\ s.subs[q].early = o.subs[q].early
               /\ o.subs[q].at = "live" => s.subs[q].at \in {"live", "none"}
    <3>1. CASE q = r
      BY <1>2, <1>3, <3>1 DEF Delivered
    <3>2. CASE q # r
      BY <1>2, <3>2 DEF Around
    <3> QED
      BY <3>1, <3>2
  <2>2. \A q \in Runs : Opening(s, q) <=> Opening(o, q)
    BY <1>2 DEF Around, Opening
  <2> QED
    BY <2>1, <2>2 DEF Quieter
<1>5. Sound(s, ended)
  <2>1. \A q \in Runs : s.subs[q].at = "live" => s.open
    BY <1>2, <1>4 DEF Quieter, Around, Sound
  <2>2. s.busy = "opening" => s.subs[s.asked].at # "live"
    BY <1>2, <1>4 DEF Quieter, Around, Sound
  <2>3. ASSUME NEW q \in Runs, NEW i \in DOMAIN s.subs[q].queue, s.subs[q].queue[i].type = "complete" PROVE q \in ended
    <3>1. CASE q # r
      BY <1>2, <2>3, <3>1 DEF Around, Sound
    <3>2. CASE q = r /\ Fewer(o.subs[r], s.subs[r])
      <4>1. PICK j \in DOMAIN o.subs[r].queue : s.subs[r].queue[i] = o.subs[r].queue[j]
        BY <2>3, <3>2 DEF Fewer
      <4> QED
        BY <2>3, <3>2, <4>1 DEF Sound
    <3>3. CASE q = r /\ s.subs[r] = NoSubscription
      BY <1>3, <2>3, <3>3
    <3> QED
      BY <1>2, <3>1, <3>2, <3>3 DEF Delivered
  <2> QED
    BY <1>2, <2>1, <2>2, <2>3 DEF Around, Sound
<1>7. GoesOn(o, s)
  BY <1>2, SameHandles DEF Around, GoesOn
<1>8. Answering(o) => Answering(s)
  BY <1>2, AnswerStands DEF Around, Answering
<1>9. ASSUME NEW k \in Tabs, NEW q \in Runs, o.open, Linked(k, o), Stage(k, o, q, ended) PROVE Stage(k, s, q, ended)
  <2>1. Asks(o, [type |-> "subscribe", run |-> q]) => Stage(k, s, q, ended)
    BY <1>2 DEF Around, Asks, Stage
  <2>2. o.busy = "reading" /\ o.asked = q => Stage(k, s, q, ended)
    BY <1>2 DEF Around, Stage
  <2>3. q # r => Stage(k, s, q, ended) \/ (o.subs[q].at # "live" /\ ~(o.busy = "opening" /\ o.asked = q /\ o.subs[q].at = "opening"))
    BY <1>2 DEF Around, Stage
  <2>4. s.subs[r].at = o.subs[r].at /\ q = r =>
           Stage(k, s, q, ended) \/ (o.subs[q].at # "live" /\ ~(o.busy = "opening" /\ o.asked = q /\ o.subs[q].at = "opening"))
    BY <1>2 DEF Around, Stage
  <2>5. s.subs[r] = NoSubscription /\ q = r /\ Hears(s, Ending(r, "unauthorised")) => Stage(k, s, q, ended)
    BY DEF Ending, Stage
  <2>6. s.subs[r] = NoSubscription /\ q = r /\ Completes(s, r) /\ r \in ended => Stage(k, s, q, ended)
    BY DEF Stage
  <2>7. q = r => Stage(k, s, q, ended) \/ (o.subs[q].at # "live" /\ ~(o.busy = "opening" /\ o.asked = q /\ o.subs[q].at = "opening"))
    BY <1>2, <1>9, <2>4, <2>5, <2>6 DEF Delivered, Linked
  <2> QED
    BY <1>2, <1>9, <2>1, <2>2, <2>3, <2>7, StageStands
<1>10. Links(o, s) /\ Serves(o, s, ended)
  BY <1>2, <1>7, <1>8, <1>9, GoingOnKeeps
<1> QED
  BY <1>4, <1>5, <1>10 DEF Good

\* Only the subscription that is served may come to hold what is late.
LEMMA HandledIsProper ==
  ASSUME NEW o, NEW s, NEW r \in Runs, Around(o, s, r), Grows(o, s), ~o.open => s.down = o.down,
         o.open /\ Timely(o, r, readers) =>
            /\ Timely(s, r, readers)
            /\ \A f \in Said(o, s) : f.type \in {"progress", "complete"} => ~f.late
  PROVE  Proper(o, s, readers)
<1> SUFFICES ASSUME NEW who, Clean(o, who, readers) PROVE Clean(s, who, readers)
  BY DEF Proper
<1>1. s.viewer \in {Anonymous, who}
  BY DEF Clean, Around
<1>2. \A i \in DOMAIN s.up : s.up[i].type = "authenticate" => s.up[i].viewer = who
  BY DEF Clean, Around
<1>3. ASSUME NEW i \in DOMAIN s.down, s.down[i].type \in {"progress", "complete"} PROVE ~s.down[i].late
  <2>1. CASE i \in DOMAIN o.down
    <3>1. s.down[i] = o.down[i]
      BY <2>1 DEF Grows
    <3> QED
      BY <1>3, <2>1, <3>1 DEF Clean
  <2>2. CASE i \notin DOMAIN o.down
    <3>1. s.down[i] \in Said(o, s)
      BY <1>3, <2>2 DEF Said
    <3>2. o.open
      BY <1>3, <2>2
    <3>3. Timely(o, r, readers)
      BY <3>2 DEF Clean
    <3> QED
      BY <1>3, <3>1, <3>2, <3>3
  <2> QED
    BY <2>1, <2>2
<1>4. ASSUME s.open, NEW q \in Runs PROVE Timely(s, q, readers)
  <2>1. o.open /\ Timely(o, q, readers)
    BY <1>4 DEF Around, Clean
  <2>2. CASE q = r
    BY <2>1, <2>2
  <2>3. CASE q # r
    BY <2>1, <2>3 DEF Around, Timely, Apt
  <2> QED
    BY <2>2, <2>3
<1> QED
  BY <1>1, <1>2, <1>3, <1>4 DEF Clean

\* Fewer events are no worse.
LEMMA FewerIsTimely ==
  ASSUME NEW o, NEW s, NEW r, NEW may, Timely(o, r, may),
         s.viewer = o.viewer, s.expired = o.expired, s.checks[r] = o.checks[r],
         s.subs[r].fresh = o.subs[r].fresh, Fewer(o.subs[r], s.subs[r])
  PROVE  Timely(s, r, may)
<1>1. ASSUME NEW i \in DOMAIN s.subs[r].queue
      PROVE  /\ Apt(s, s.subs[r].queue[i])
             /\ s.viewer \in s.subs[r].queue[i].late =>
                   s.expired \/ (s.viewer \notin may /\ ~s.subs[r].fresh /\ ~s.checks[r].allowed)
  <2>1. PICK j \in DOMAIN o.subs[r].queue : s.subs[r].queue[i] = o.subs[r].queue[j]
    BY DEF Fewer
  <2> QED
    BY <2>1 DEF Timely, Apt
<1> QED
  BY <1>1 DEF Timely, Apt

\* The next event is dropped or sent, or the socket is closed instead.
LEMMA DeliverTurns ==
  ASSUME SocketInd, NEW id \in Ids, NEW r \in Runs, DeliverEvent(id, r)
  PROVE  Turns(id)
<1>1. PICK o : o = At(id)
  OBVIOUS
<1>2. o \in Conns /\ Sound(o, ended)
  BY <1>1, AsItIs
<1>3. PICK e : e = Head(o.subs[r].queue)
  OBVIOUS
<1>4. PICK t : t = Shift(o, r)
  OBVIOUS
<1>5. /\ o.subs[r].queue # <<>>
      /\ o.expired \/ Superseded(o.subs[r]) \/ o.subs[r].fresh
      /\ One(id, Alive(o, IF Superseded(o.subs[r]) THEN t ELSE Tell(t, r, e)))
  BY <1>1, <1>3, <1>4 DEF DeliverEvent, HasNext
<1>6. o.subs[r] \in Subs
  BY <1>2 DEF Conns
<1>7. e \in Events /\ e = o.subs[r].queue[1] /\ 1 \in DOMAIN o.subs[r].queue
  BY <1>3, <1>5, <1>6, NextEvent
<1>8. /\ t \in Conns /\ Around(o, t, r) /\ t.checks = o.checks /\ t.down = o.down
      /\ t.subs[r].at = o.subs[r].at /\ t.subs[r].early = o.subs[r].early
      /\ t.subs[r].fresh = o.subs[r].fresh /\ Fewer(o.subs[r], t.subs[r])
  BY <1>2, <1>4, <1>5, ShiftMakes
<1>9. SameInside(o, o)
  BY DEF SameInside
<1>10. \A i \in DOMAIN o.checks[r].waiting : o.checks[r].waiting[i].type = "complete" => r \in ended
  BY <1>2 DEF Sound
<1>11. ASSUME Timely(o, r, readers) PROVE Timely(t, r, readers)
  BY <1>8, <1>11, FewerIsTimely DEF Around
<1>12. CASE Superseded(o.subs[r])
  <2>1. Grows(o, t) /\ Said(o, t) = {}
    BY <1>8, SameGrows
  <2>2. Delivered(o, t, r)
    BY <1>8 DEF Delivered
  <2>3. Proper(o, t, readers)
    BY <1>8, <1>11, <2>1, HandledIsProper
  <2>4. Good(o, t)
    BY <1>2, <1>8, <1>10, <2>1, <2>2, <2>3, DeliveryIsGood
  <2>5. One(id, Alive(o, t))
    BY <1>5, <1>12
  <2> QED
    BY <1>1, <1>2, <1>8, <1>9, <2>4, <2>5, AliveTurns
<1>13. CASE ~Superseded(o.subs[r])
  <2>1. PICK s : s = Tell(t, r, e)
    OBVIOUS
  <2>2. /\ s \in Conns /\ Around(t, s, r) /\ s.checks = t.checks /\ Grows(t, s)
        /\ Said(t, s) \subseteq {Frames(t, r, e), Ending(r, "finished")}
        /\ ~t.open => s.down = t.down
        /\ \/ /\ s.subs[r].at = t.subs[r].at /\ s.subs[r].early = t.subs[r].early
              /\ s.subs[r].fresh = t.subs[r].fresh /\ s.subs[r].queue = t.subs[r].queue
           \/ /\ s.subs[r] = NoSubscription /\ e.type = "complete"
              /\ t.open /\ ~t.lost => Completes(s, r)
    BY <1>7, <1>8, <2>1, TellMakes
  <2>3. Around(o, s, r) /\ s.checks = o.checks
    BY <1>8, <2>2 DEF Around
  <2>4. Grows(o, s) /\ Said(o, s) \subseteq {Frames(t, r, e), Ending(r, "finished")}
    BY <1>8, <2>2 DEF Grows, Said
  <2>5. Frames(t, r, e).type \in {"progress", "complete"} /\ Ending(r, "finished").type = "unsubscribed"
    BY <1>7 DEF Frames, Ending, Events
  <2>6. \A f \in Said(o, s) : f.type # "close"
    BY <2>4, <2>5
  <2>7. Delivered(o, s, r)
    <3>1. e.type = "complete" => r \in ended
      BY <1>2, <1>7 DEF Sound
    <3> QED
      BY <1>8, <2>2, <3>1 DEF Delivered, Fewer, Around
  <2>8. ASSUME ~o.expired PROVE Good(o, s)
    <3>1. o.subs[r].fresh
      BY <1>5, <1>13, <2>8
    <3>2. ASSUME o.open, Timely(o, r, readers)
          PROVE  /\ Timely(s, r, readers)
                 /\ \A f \in Said(o, s) : f.type \in {"progress", "complete"} => ~f.late
      <4>1. o.viewer \notin e.late
        BY <1>7, <2>8, <3>1, <3>2 DEF Timely
      <4>2. ~Frames(t, r, e).late
        BY <1>8, <4>1 DEF Around, Frames
      <4>3. Timely(s, r, readers)
        <5>1. CASE s.subs[r] = NoSubscription
          BY <2>3, <3>2, <5>1, NoneIs DEF Around, Timely, Apt
        <5>2. CASE s.subs[r] # NoSubscription
          BY <1>8, <2>2, <2>3, <3>2, <5>2, FewerIsTimely DEF Around, Fewer
        <5> QED
          BY <5>1, <5>2
      <4> QED
        BY <2>4, <2>5, <4>2, <4>3
    <3>3. ~o.open => s.down = o.down
      BY <1>8, <2>2 DEF Around
    <3>4. Proper(o, s, readers)
      BY <2>3, <2>4, <3>2, <3>3, HandledIsProper
    <3> QED
      BY <1>2, <1>10, <2>2, <2>3, <2>4, <2>6, <2>7, <3>4, DeliveryIsGood
  <2>9. One(id, Alive(o, s))
    BY <1>5, <1>13, <2>1
  <2> QED
    BY <1>1, <1>2, <1>9, <2>2, <2>8, <2>9, AliveTurns
<1> QED
  BY <1>12, <1>13

\* One check is another one.
LEMMA CheckMakes ==
  ASSUME NEW s \in Conns, NEW r \in Runs, NEW c \in Checks
  PROVE  LET n == [s EXCEPT !.checks[r] = c]
         IN  /\ n \in Conns /\ Around(s, n, r) /\ n.down = s.down /\ n.subs = s.subs /\ n.checks[r] = c
<1>1. PICK m : m = [s.checks EXCEPT ![r] = c]
  OBVIOUS
<1>2. s.checks \in [Runs -> Checks]
  BY DEF Conns
<1>3. m \in [Runs -> Checks] /\ m[r] = c /\ \A q \in Runs : q # r => m[q] = s.checks[q]
  BY <1>1, <1>2
<1>4. [s EXCEPT !.checks[r] = c] = [s EXCEPT !.checks = m]
  BY <1>1
<1>5. PICK n : n = [s EXCEPT !.checks = m]
  OBVIOUS
<1>6. /\ n \in Conns /\ n.up = s.up /\ n.down = s.down
      /\ n.open = s.open /\ n.lost = s.lost /\ n.viewer = s.viewer /\ n.expired = s.expired
      /\ n.busy = s.busy /\ n.asked = s.asked /\ n.found = s.found /\ n.subs = s.subs /\ n.checks = m
  BY <1>3, <1>5 DEF Conns
<1> QED
  BY <1>3, <1>4, <1>5, <1>6 DEF Around

\* The run is read again while the event waits: what is late for the viewer
\* waits for an answer that refuses it.
LEMMA AskTurns ==
  ASSUME SocketInd, NEW id \in Ids, NEW r \in Runs, AskAgain(id, r)
  PROVE  Turns(id)
<1>1. PICK o : o = At(id)
  OBVIOUS
<1>2. o \in Conns /\ Sound(o, ended)
  BY <1>1, AsItIs
<1>3. PICK e : e = Head(o.subs[r].queue)
  OBVIOUS
<1>4. PICK t : t = Shift(o, r)
  OBVIOUS
<1>5. PICK c : c = [waiting |-> <<e>>, allowed |-> o.viewer \in readers]
  OBVIOUS
<1>6. PICK s : s = [t EXCEPT !.checks[r] = c]
  OBVIOUS
<1>7. /\ o.subs[r].queue # <<>> /\ ~o.expired
      /\ One(id, s)
  BY <1>1, <1>3, <1>4, <1>5, <1>6 DEF AskAgain, HasNext
<1>8. o.subs[r] \in Subs
  BY <1>2 DEF Conns
<1>9. e \in Events /\ e = o.subs[r].queue[1] /\ 1 \in DOMAIN o.subs[r].queue
  BY <1>3, <1>7, <1>8, NextEvent
<1>10. PICK w : w = <<e>>
  OBVIOUS
<1>11. w \in Seq(Events) /\ \A i \in DOMAIN w : w[i] = e
  BY <1>9, <1>10
<1>12. c \in Checks /\ c.waiting = w /\ (c.allowed <=> o.viewer \in readers)
  <2>1. (o.viewer \in readers) \in BOOLEAN
    OBVIOUS
  <2> QED
    BY <1>5, <1>10, <1>11, <2>1 DEF Checks
<1>13. /\ t \in Conns /\ Around(o, t, r) /\ t.checks = o.checks /\ t.down = o.down
       /\ t.subs[r].at = o.subs[r].at /\ t.subs[r].early = o.subs[r].early
       /\ t.subs[r].fresh = o.subs[r].fresh /\ Fewer(o.subs[r], t.subs[r])
  BY <1>2, <1>4, <1>7, ShiftMakes
<1>14. s \in Conns /\ Around(t, s, r) /\ s.down = t.down /\ s.subs = t.subs /\ s.checks[r] = c
  BY <1>6, <1>12, <1>13, CheckMakes
<1>15. Around(o, s, r) /\ Grows(o, s) /\ Said(o, s) = {} /\ s.down = o.down
  <2>1. s.down = o.down
    BY <1>13, <1>14
  <2> QED
    BY <1>13, <1>14, <2>1, SameGrows DEF Around
<1>16. Delivered(o, s, r)
  BY <1>13, <1>14 DEF Delivered
<1>17. \A i \in DOMAIN s.checks[r].waiting : s.checks[r].waiting[i].type = "complete" => r \in ended
  <2>1. e.type = "complete" => r \in ended
    BY <1>2, <1>9 DEF Sound
  <2> QED
    BY <1>11, <1>12, <1>14, <2>1
<1>18. ASSUME Timely(o, r, readers) PROVE Timely(s, r, readers)
  <2>1. /\ Apt(o, e)
        /\ o.viewer \in e.late => o.viewer \notin readers
    BY <1>7, <1>9, <1>18 DEF Timely
  <2>2. s.viewer = o.viewer /\ s.expired = o.expired /\ s.subs[r].fresh = o.subs[r].fresh
    BY <1>13, <1>14, <1>15 DEF Around
  <2>3. \A i \in DOMAIN s.checks[r].waiting :
           /\ Apt(s, s.checks[r].waiting[i])
           /\ s.viewer \in s.checks[r].waiting[i].late => ~s.checks[r].allowed
    BY <1>11, <1>12, <1>14, <2>1, <2>2 DEF Apt
  <2>4. ASSUME NEW i \in DOMAIN s.subs[r].queue
        PROVE  /\ Apt(s, s.subs[r].queue[i])
               /\ s.viewer \in s.subs[r].queue[i].late =>
                     s.expired \/ (s.viewer \notin readers /\ ~s.subs[r].fresh /\ ~s.checks[r].allowed)
    <3>1. PICK j \in DOMAIN o.subs[r].queue : s.subs[r].queue[i] = o.subs[r].queue[j]
      BY <1>13, <1>14 DEF Fewer
    <3> QED
      BY <1>12, <1>14, <1>18, <2>2, <3>1 DEF Timely, Apt
  <2> QED
    BY <2>3, <2>4 DEF Timely
<1>19. Proper(o, s, readers)
  BY <1>15, <1>18, HandledIsProper
<1>20. Good(o, s)
  BY <1>2, <1>14, <1>15, <1>16, <1>17, <1>19, DeliveryIsGood
<1> QED
  BY <1>1, <1>7, <1>14, <1>20 DEF Turns

\* The answer sends the event, or ends the subscription.
LEMMA AnswerTurns ==
  ASSUME SocketInd, NEW id \in Ids, NEW r \in Runs, AnswerArrives(id, r)
  PROVE  Turns(id)
<1>1. PICK o : o = At(id)
  OBVIOUS
<1>2. o \in Conns /\ Sound(o, ended)
  BY <1>1, AsItIs
<1>3. PICK c : c = o.checks[r]
  OBVIOUS
<1>4. PICK e : e = Head(c.waiting)
  OBVIOUS
<1>5. PICK t : t = [o EXCEPT !.checks[r] = NoCheck]
  OBVIOUS
<1>6. c \in Checks /\ c.waiting # <<>>
  BY <1>1, <1>2, <1>3 DEF AnswerArrives, Checking, Conns
<1>7. e \in Events /\ e = c.waiting[1] /\ 1 \in DOMAIN c.waiting
  <2>1. PICK w \in Seq(Events) : w = c.waiting
    BY <1>6 DEF Checks
  <2>2. w # <<>> /\ e = Head(w)
    BY <1>4, <1>6, <2>1
  <2>3. e \in Events /\ e = w[1] /\ 1 \in DOMAIN w
    BY <2>2
  <2> QED
    BY <2>1, <2>3
<1>8. t \in Conns /\ Around(o, t, r) /\ t.down = o.down /\ t.subs = o.subs /\ t.checks[r] = NoCheck
  BY <1>2, <1>5, NoCheckIs, CheckMakes
<1>9. NoCheck.waiting = <<>> /\ ~NoCheck.allowed
  BY NoCheckIs
<1>10. PICK n : n = [t EXCEPT !.subs[r].fresh = TRUE]
  OBVIOUS
<1>11. One(id, IF t.subs[r].at # "live" THEN t
               ELSE IF ~c.allowed THEN EndSubscription(t, r, "unauthorised")
               ELSE Tell(n, r, e))
  BY <1>1, <1>3, <1>4, <1>5, <1>10 DEF AnswerArrives
<1>12. ASSUME NEW s \in Conns, s.checks[r] = NoCheck, Around(o, s, r), Grows(o, s), Delivered(o, s, r),
              \A f \in Said(o, s) : f.type # "close", ~o.open => s.down = o.down,
              o.open /\ Timely(o, r, readers) =>
                 /\ Timely(s, r, readers)
                 /\ \A f \in Said(o, s) : f.type \in {"progress", "complete"} => ~f.late
       PROVE  Good(o, s)
  <2>1. Proper(o, s, readers)
    BY <1>12, HandledIsProper
  <2>2. \A i \in DOMAIN s.checks[r].waiting : s.checks[r].waiting[i].type = "complete" => r \in ended
    BY <1>9, <1>12
  <2> QED
    BY <1>2, <1>12, <2>1, <2>2, DeliveryIsGood
<1>13. CASE t.subs[r].at # "live"
  <2>1. Grows(o, t) /\ Said(o, t) = {}
    BY <1>8, SameGrows
  <2>2. Delivered(o, t, r)
    BY <1>8 DEF Delivered, Fewer
  <2>3. Timely(o, r, readers) => Timely(t, r, readers)
    BY <1>8, <1>9 DEF Timely, Apt, Around
  <2>4. Good(o, t)
    BY <1>8, <1>12, <2>1, <2>2, <2>3
  <2> QED
    BY <1>1, <1>8, <1>11, <1>13, <2>4 DEF Turns
<1>14. CASE t.subs[r].at = "live" /\ ~c.allowed
  <2>1. PICK s : s = EndSubscription(t, r, "unauthorised")
    OBVIOUS
  <2>2. /\ s \in Conns /\ Around(t, s, r) /\ s.checks = t.checks
        /\ s.subs[r] = NoSubscription /\ Adds(t, s, Ending(r, "unauthorised"))
    BY <1>8, <1>14, <2>1, EndMakes DEF Reasons
  <2>3. Adds(o, s, Ending(r, "unauthorised")) /\ Around(o, s, r)
    BY <1>8, <2>2 DEF Adds, Around
  <2>4. /\ Grows(o, s) /\ Said(o, s) \subseteq {Ending(r, "unauthorised")}
        /\ o.open /\ ~o.lost => Hears(s, Ending(r, "unauthorised"))
    BY <1>2, <2>3, AddsGrows
  <2>5. Ending(r, "unauthorised").type = "unsubscribed"
    BY DEF Ending
  <2>6. Delivered(o, s, r)
    BY <2>2, <2>4 DEF Delivered
  <2>7. Timely(s, r, readers)
    BY <1>8, <1>9, <2>2, NoneIs DEF Timely
  <2>8. ~o.open => s.down = o.down
    BY <2>3 DEF Adds
  <2>9. Good(o, s)
    BY <1>8, <1>12, <2>2, <2>3, <2>4, <2>5, <2>6, <2>7, <2>8
  <2> QED
    BY <1>1, <1>11, <1>14, <2>1, <2>2, <2>9 DEF Turns
<1>15. CASE t.subs[r].at = "live" /\ c.allowed
  <2>1. PICK v : v = [o.subs[r] EXCEPT !.fresh = TRUE]
    OBVIOUS
  <2>2. v \in Subs /\ v.at = o.subs[r].at /\ v.early = o.subs[r].early /\ v.queue = o.subs[r].queue
    BY <1>2, <2>1 DEF Conns, Subs
  <2>3. n = [t EXCEPT !.subs[r] = v]
    BY <1>8, <1>10, <2>1 DEF Conns
  <2>4. /\ n \in Conns /\ n.down = t.down /\ n.checks = t.checks /\ n.subs[r] = v /\ Around(t, n, r)
    BY <1>8, <2>2, <2>3, SubMakes DEF Around
  <2>5. Around(o, n, r) /\ n.down = o.down /\ n.checks[r] = NoCheck
    BY <1>8, <2>4 DEF Around
  <2>6. PICK s : s = Tell(n, r, e)
    OBVIOUS
  <2>7. /\ s \in Conns /\ Around(n, s, r) /\ s.checks = n.checks /\ Grows(n, s)
        /\ Said(n, s) \subseteq {Frames(n, r, e), Ending(r, "finished")}
        /\ ~n.open => s.down = n.down
        /\ \/ /\ s.subs[r].at = n.subs[r].at /\ s.subs[r].early = n.subs[r].early
              /\ s.subs[r].fresh = n.subs[r].fresh /\ s.subs[r].queue = n.subs[r].queue
           \/ /\ s.subs[r] = NoSubscription /\ e.type = "complete"
              /\ n.open /\ ~n.lost => Completes(s, r)
    BY <1>7, <2>4, <2>6, TellMakes
  <2>8. Around(o, s, r) /\ s.checks[r] = NoCheck
    BY <2>5, <2>7 DEF Around
  <2>9. Grows(o, s) /\ Said(o, s) \subseteq {Frames(n, r, e), Ending(r, "finished")}
    BY <2>5, <2>7 DEF Grows, Said
  <2>10. Frames(n, r, e).type \in {"progress", "complete"} /\ Ending(r, "finished").type = "unsubscribed"
    BY <1>7 DEF Frames, Ending, Events
  <2>11. \A f \in Said(o, s) : f.type # "close"
    BY <2>9, <2>10
  <2>12. Delivered(o, s, r)
    <3>1. e.type = "complete" => r \in ended
      BY <1>2, <1>3, <1>7 DEF Sound
    <3> QED
      BY <2>2, <2>4, <2>5, <2>7, <3>1 DEF Delivered, Fewer, Around
  <2>13. ASSUME o.open, Timely(o, r, readers)
         PROVE  /\ Timely(s, r, readers)
                /\ \A f \in Said(o, s) : f.type \in {"progress", "complete"} => ~f.late
    <3>1. o.viewer \notin e.late
      BY <1>3, <1>7, <1>15, <2>13 DEF Timely
    <3>2. ~Frames(n, r, e).late
      BY <2>5, <3>1 DEF Around, Frames
    <3>3. Timely(s, r, readers)
      <4>1. CASE s.subs[r] = NoSubscription
        BY <1>9, <2>8, <4>1, NoneIs DEF Timely
      <4>2. CASE s.subs[r] # NoSubscription
        <5>1. s.subs[r].queue = o.subs[r].queue /\ s.viewer = o.viewer /\ s.expired = o.expired
          BY <2>2, <2>4, <2>7, <2>8, <4>2 DEF Around
        <5>2. \A i \in DOMAIN o.subs[r].queue : /\ Apt(o, o.subs[r].queue[i])
                                                /\ o.viewer \in o.subs[r].queue[i].late => o.expired
          BY <1>3, <1>15, <2>13 DEF Timely
        <5> QED
          BY <1>9, <2>8, <5>1, <5>2 DEF Timely, Apt
      <4> QED
        BY <4>1, <4>2
    <3> QED
      BY <2>9, <2>10, <3>2, <3>3
  <2>14. ~o.open => s.down = o.down
    BY <2>5, <2>7 DEF Around
  <2>15. Good(o, s)
    BY <1>12, <2>7, <2>8, <2>9, <2>11, <2>12, <2>13, <2>14
  <2> QED
    BY <1>1, <1>11, <1>15, <2>6, <2>7, <2>15 DEF Turns
<1> QED
  BY <1>13, <1>14, <1>15

------------------------------------------------------------------------------
(* The steps of the process, to all connections. *)

\* What a step may be to the connections there are, the tabs in left apart.
Kept(left) ==
    /\ Typed' /\ Ids' = Ids
    /\ \A b \in Browsers : Current(b)' = Current(b) /\ ((connections[b] = <<>>) <=> (connections'[b] = <<>>))
    /\ \A id \in Ids : /\ Sound(At(id)', ended) /\ Proper(At(id), At(id)', readers) /\ Links(At(id), At(id)')
                       /\ id[1] \notin left => Serves(At(id), At(id)', ended)

\* A connection that nothing happens to.
LEMMA SameIsKept ==
  ASSUME NEW o
  PROVE  Proper(o, o, readers) /\ Links(o, o) /\ Serves(o, o, ended)
<1> QED
  BY DEF Proper, Links, Serves

\* It is enough to know what happens to one, if nothing happens to the others.
LEMMA OneIsKept ==
  ASSUME SocketInd, NEW id \in Ids, NEW s \in Conns, connections' = Replaced(id, s),
         Sound(s, ended), Proper(At(id), s, readers), Links(At(id), s), NEW left,
         id[1] \notin left => Serves(At(id), s, ended)
  PROVE  Kept(left)
<1>1. Typed
  BY DEF SocketInd
<1>2. /\ Typed' /\ Ids' = Ids /\ At(id)' = s
      /\ \A jd \in Ids : jd # id => At(jd)' = At(jd)
      /\ \A b \in Browsers : Current(b)' = Current(b) /\ ((connections[b] = <<>>) <=> (connections'[b] = <<>>))
  BY <1>1, ReplacedMakes
<1>3. ASSUME NEW jd \in Ids
      PROVE  /\ Sound(At(jd)', ended) /\ Proper(At(jd), At(jd)', readers) /\ Links(At(jd), At(jd)')
             /\ jd[1] \notin left => Serves(At(jd), At(jd)', ended)
  <2>1. CASE jd = id
    BY <1>2, <2>1
  <2>2. CASE jd # id
    <3>1. At(jd)' = At(jd)
      BY <1>2, <2>2
    <3>2. Sound(At(jd), ended)
      BY DEF SocketInd
    <3> QED
      BY <3>1, <3>2, SameIsKept
  <2> QED
    BY <2>1, <2>2
<1> QED
  BY <1>2, <1>3 DEF Kept

\* A step of one connection that is good.
LEMMA TurnIsKept ==
  ASSUME SocketInd, BusInd, NEW id \in Ids, Turns(id)
  PROVE  Kept({}) /\ BusInd'
<1>1. PICK s \in Conns : One(id, s) /\ Good(At(id), s)
  BY DEF Turns
<1>2. BusInd'
  BY <1>1, OneKeepsBus DEF Good
<1>3. connections' = Replaced(id, s)
  BY <1>1 DEF One
<1>4. Kept({})
  BY <1>1, <1>3, OneIsKept DEF Good
<1> QED
  BY <1>2, <1>4

\* A row that cannot be read: the socket is closed for good.
LEMMA ReadFailsIsKept ==
  ASSUME SocketInd, BusInd, NEW id \in Ids, ReadFails(id)
  PROVE  Kept({id[1]}) /\ BusInd'
<1>1. PICK o : o = At(id)
  OBVIOUS
<1>2. o \in Conns /\ Sound(o, ended) /\ o.busy = "reading" /\ o.open
  BY <1>1, AsItIs DEF ReadFails
<1>3. PICK n : n = Shut(o, "PROTOCOL")
  OBVIOUS
<1>4. n \in Conns /\ Closed(o, n) /\ Adds(o, n, [type |-> "close", code |-> "PROTOCOL"])
  BY <1>2, <1>3, ShutMakes DEF Codes
<1>5. PICK s : s = Done(n)
  OBVIOUS
<1>6. /\ s \in Conns /\ ~s.open /\ ~s.lost /\ s.up = <<>> /\ s.down = n.down /\ s.busy = "idle" /\ s.found = "nothing"
      /\ s.viewer = Anonymous /\ s.checks = o.checks
      /\ \A r \in Runs : s.subs[r] = NoSubscription
  BY <1>4, <1>5, DoneMakes DEF Closed
<1>7. PICK f : f = [type |-> "close", code |-> "PROTOCOL"]
  OBVIOUS
<1>8. Adds(o, s, f) /\ f.type = "close"
  BY <1>4, <1>6, <1>7 DEF Adds
<1>9. Grows(o, s) /\ Said(o, s) \subseteq {f} /\ (o.open /\ ~o.lost => Hears(s, f))
  BY <1>2, <1>8, AddsGrows
<1>10. \A r \in Runs : s.subs[r].at = "none" /\ s.subs[r].queue = <<>>
  BY <1>6, NoneIs
<1>11. Quieter(o, s)
  BY <1>2, <1>6, <1>10 DEF Quieter, Opening
<1>12. Sound(s, ended)
  BY <1>2, <1>6, <1>10 DEF Sound
<1>13. Proper(o, s, readers)
  <2>1. Handles(o, s) /\ Stays(o, s)
    BY <1>6 DEF Handles, Stays
  <2> QED
    BY <1>8, <1>9, <2>1, PlainIsProper
<1>14. ASSUME NEW k \in Tabs, Linked(k, o) PROVE Linked(k, s)
  <2>1. Hears(s, f)
    BY <1>2, <1>9, <1>14 DEF Linked
  <2>2. Closing(s)
    BY <1>8, <2>1 DEF Hears, Closing
  <2> QED
    BY <1>6, <2>2 DEF Linked
<1>15. Links(o, s)
  BY <1>14 DEF Links
<1>16. One(id, s)
  BY <1>1, <1>3, <1>5 DEF ReadFails
<1>17. BusInd'
  BY <1>1, <1>6, <1>11, <1>16, OneKeepsBus
<1>18. connections' = Replaced(id, s)
  BY <1>16 DEF One
<1>19. id[1] \in {id[1]}
  OBVIOUS
<1>20. Kept({id[1]})
  BY <1>1, <1>6, <1>12, <1>13, <1>15, <1>18, <1>19, OneIsKept
<1> QED
  BY <1>17, <1>20

\* A connection that goes on with the run it has asked for.
Advances(o, s, q) ==
    /\ o.busy # "idle" /\ o.asked = q
    /\ s.up = o.up /\ s.open = o.open /\ s.lost = o.lost
    /\ s.viewer = o.viewer /\ s.expired = o.expired /\ s.checks = o.checks
    /\ \A r \in Runs : r # q => s.subs[r] = o.subs[r]
    /\ s.subs[q].queue = <<>> \/ (s.subs[q].queue = o.subs[q].queue /\ (s.subs[q].fresh => o.subs[q].fresh))
    /\ Grows(o, s) /\ \A f \in Said(o, s) : f.type \notin {"close", "progress", "complete"}
    /\ \A k \in Tabs : o.open /\ ~o.lost /\ Stage(k, o, q, ended) => Stage(k, s, q, ended)

\* It is kept, as far as q is.
LEMMA AdvancingIsKept ==
  ASSUME SocketInd, NEW id \in Ids, NEW s \in Conns, NEW q \in Runs, Advances(At(id), s, q),
         Sound(s, ended), connections' = Replaced(id, s)
  PROVE  Kept({})
<1>1. PICK o : o = At(id)
  OBVIOUS
<1>2. o \in Conns /\ Advances(o, s, q)
  BY <1>1, AsItIs
<1>3. GoesOn(o, s)
  BY <1>2, SameHandles DEF Advances, GoesOn
<1>4. Answering(o) => Answering(s)
  BY <1>2, AnswerStands DEF Advances, Answering
<1>5. ASSUME NEW k \in Tabs, NEW r \in Runs, o.open, Linked(k, o), Stage(k, o, r, ended) PROVE Stage(k, s, r, ended)
  <2>1. CASE r = q
    BY <1>2, <1>5, <2>1 DEF Advances, Linked
  <2>2. CASE r # q
    <3>1. Asks(o, [type |-> "subscribe", run |-> r]) => Stage(k, s, r, ended)
      BY <1>2 DEF Advances, Asks, Stage
    <3>2. o.subs[r].at = "live" => Stage(k, s, r, ended)
      BY <1>2, <2>2 DEF Advances, Stage
    <3>3. o.asked # r /\ Grows(o, s)
      BY <1>2, <2>2 DEF Advances
    <3> QED
      BY <1>5, <3>1, <3>2, <3>3, StageStands
  <2> QED
    BY <2>1, <2>2
<1>6. Links(o, s) /\ Serves(o, s, ended)
  BY <1>2, <1>3, <1>4, <1>5, GoingOnKeeps
<1>7. Proper(o, s, readers)
  <2>1. Handles(o, s)
    BY <1>2, SameHandles DEF Advances
  <2>2. Stays(o, s)
    BY <1>2 DEF Advances, Stays
  <2> QED
    BY <1>2, <2>1, <2>2, PlainIsProper DEF Advances
<1> QED
  BY <1>1, <1>6, <1>7, OneIsKept

\* To open a channel is to go on.
LEMMA OpenIsKept ==
  ASSUME SocketInd, BusInd, NEW id \in Ids, OpenChannel(id)
  PROVE  Kept({}) /\ BusInd'
<1>1. PICK o : o = At(id)
  OBVIOUS
<1>2. o \in Conns /\ Sound(o, ended)
  BY <1>1, AsItIs
<1>3. PICK q : q = o.asked
  OBVIOUS
<1>4. o.busy = "reading" /\ q \in Runs
  BY <1>1, <1>3, OpenMakes
<1>5. PICK s \in Conns : connections' = Replaced(id, s) /\ Waits(o, s, q)
  BY <1>1, <1>3, OpenMakes
<1>6. Grows(o, s) /\ Said(o, s) = {}
  BY <1>5, SameGrows DEF Waits
<1>7. \A k \in Tabs : Stage(k, s, q, ended)
  BY <1>5 DEF Waits, Stage
<1>8. Advances(o, s, q)
  BY <1>3, <1>4, <1>5, <1>6, <1>7 DEF Advances, Waits
<1>9. Sound(s, ended)
  <2>1. \A r \in Runs : s.subs[r].queue = o.subs[r].queue
    BY <1>5 DEF Waits
  <2>2. \A r \in Runs : s.subs[r].at = "live" => s.open
    BY <1>2, <1>5 DEF Waits, Sound
  <2>3. \A r \in Runs : \A i \in DOMAIN s.subs[r].queue :
           s.subs[r].queue[i].type = "complete" => r \in ended
    BY <1>2, <2>1 DEF Sound
  <2> QED
    BY <1>2, <1>4, <1>5, <2>2, <2>3 DEF Waits, Sound
<1>10. Kept({})
  BY <1>1, <1>4, <1>5, <1>8, <1>9, AdvancingIsKept
<1> QED
  BY <1>10, OpeningKeepsBus

\* To be subscribed is to go on.
LEMMA JoinedAdvances ==
  ASSUME NEW o \in Conns, Sound(o, ended), NEW s \in Conns, NEW q \in Runs,
         o.busy # "idle", o.asked = q, o.open, Joined(o, s, q)
  PROVE  Advances(o, s, q) /\ Sound(s, ended)
<1>1. PICK f : f = [type |-> "subscribed", run |-> q]
  OBVIOUS
<1>2. Adds(o, s, f) /\ f.type = "subscribed"
  BY <1>1 DEF Joined
<1>3. Grows(o, s) /\ Said(o, s) \subseteq {f}
  BY <1>2, AddsGrows
<1>4. \A k \in Tabs : Stage(k, s, q, ended)
  BY DEF Joined, Stage
<1>5. Advances(o, s, q)
  BY <1>2, <1>3, <1>4 DEF Advances, Joined
<1>6. \A r \in Runs : s.subs[r].at = "live" => s.open
  BY DEF Joined
<1>7. ASSUME NEW r \in Runs, NEW i \in DOMAIN s.subs[r].queue, s.subs[r].queue[i].type = "complete" PROVE r \in ended
  <2>1. CASE r = q
    BY <1>7, <2>1 DEF Joined
  <2>2. CASE r # q
    BY <1>7, <2>2 DEF Joined, Sound
  <2> QED
    BY <2>1, <2>2
<1> QED
  BY <1>5, <1>6, <1>7 DEF Sound, Joined

\* To join a channel is to go on, or to have been closed.
LEMMA JoinIsKept ==
  ASSUME SocketInd, BusInd, NEW id \in Ids, JoinChannel(id)
  PROVE  Kept({}) /\ BusInd'
<1>1. BusInd'
  BY JoiningKeepsBus
<1>2. CASE ~At(id).open
  BY <1>2, JoinShutTurns, TurnIsKept
<1>3. CASE At(id).open
  <2>1. PICK o : o = At(id)
    OBVIOUS
  <2>2. o \in Conns /\ Sound(o, ended)
    BY <2>1, AsItIs
  <2>3. PICK q : q = o.asked
    OBVIOUS
  <2>4. o.busy = "reading" /\ q \in Runs
    BY <1>3, <2>1, <2>3, JoinOpenMakes
  <2>5. PICK s \in Conns : connections' = Replaced(id, s) /\ Joined(o, s, q)
    BY <1>3, <2>1, <2>3, JoinOpenMakes
  <2>6. Advances(o, s, q) /\ Sound(s, ended)
    BY <1>3, <2>1, <2>2, <2>3, <2>4, <2>5, JoinedAdvances
  <2>7. Kept({})
    BY <2>1, <2>4, <2>5, <2>6, AdvancingIsKept
  <2> QED
    BY <1>1, <2>7
<1> QED
  BY <1>2, <1>3

\* A connection that is done with nothing is sound.
LEMMA DroppedIsSound ==
  ASSUME NEW o \in Conns, Sound(o, ended), NEW s \in Conns, NEW q \in Runs, Dropped(o, s, q)
  PROVE  Sound(s, ended)
<1>1. \A r \in Runs : r # q => s.subs[r] = o.subs[r]
  BY DEF Dropped
<1>2. s.subs[q].at = "none" /\ s.subs[q].queue = <<>>
  BY NoneIs DEF Dropped
<1>3. \A r \in Runs : s.subs[r].at = "live" => s.open
  BY <1>1, <1>2 DEF Dropped, Sound
<1>4. \A r \in Runs : \A i \in DOMAIN s.subs[r].queue :
         s.subs[r].queue[i].type = "complete" => r \in ended
  BY <1>1, <1>2 DEF Sound
<1> QED
  BY <1>3, <1>4 DEF Dropped, Sound

\* When Redis has subscribed, who waited goes on, or has been closed.
LEMMA RedisSubscribesIsKept ==
  ASSUME SocketInd, BusInd, RedisSubscribes
  PROVE  Kept({}) /\ BusInd'
<1>1. PICK q, id : q = Head(bus.commands).run /\ id = Opener(q)
  OBVIOUS
<1>2. bus.commands # <<>> /\ Head(bus.commands).op = "subscribe"
  BY DEF RedisSubscribes
<1>3. q \in Runs /\ id \in Ids /\ Opening(At(id), q) /\ At(id).subs[q].at # "live"
  BY <1>1, <1>2, OpenerIs
<1>4. PICK o : o = At(id)
  OBVIOUS
<1>5. o \in Conns /\ Sound(o, ended)
  BY <1>3, <1>4, AsItIs
<1>6. o.busy = "opening" /\ o.asked = q
  BY <1>3, <1>4 DEF Opening
<1>7. PICK s \in Conns :
         /\ connections' = Replaced(id, s)
         /\ \/ o.open /\ Joined(o, s, q)
            \/ ~(o.open /\ o.subs[q].at = "opening") /\ Dropped(o, s, q) /\ s.down = o.down
  BY <1>1, <1>4, SubscribedMakes
<1>8. CASE o.open /\ Joined(o, s, q)
  <2>1. Advances(o, s, q) /\ Sound(s, ended)
    BY <1>3, <1>5, <1>6, <1>8, JoinedAdvances
  <2> QED
    BY <1>3, <1>4, <1>7, <2>1, AdvancingIsKept, SubscribingKeepsBus
<1>9. CASE ~(o.open /\ o.subs[q].at = "opening") /\ Dropped(o, s, q) /\ s.down = o.down
  <2>1. Grows(o, s) /\ Said(o, s) = {}
    BY <1>9, SameGrows
  <2>2. ASSUME NEW k \in Tabs, o.open, Stage(k, o, q, ended) PROVE Stage(k, s, q, ended)
    <3>1. Asks(o, [type |-> "subscribe", run |-> q]) => Stage(k, s, q, ended)
      BY <1>9 DEF Dropped, Asks, Stage
    <3>2. o.subs[q].at # "opening" /\ o.subs[q].at # "live" /\ o.busy # "reading"
      BY <1>3, <1>4, <1>6, <1>9, <2>2
    <3> QED
      BY <2>1, <2>2, <3>1, <3>2, StageStands
  <2>3. Advances(o, s, q)
    BY <1>6, <1>9, <2>1, <2>2, NoneIs DEF Advances, Dropped
  <2>4. Sound(s, ended)
    BY <1>3, <1>5, <1>9, DroppedIsSound
  <2> QED
    BY <1>3, <1>4, <1>7, <2>3, <2>4, AdvancingIsKept, SubscribingKeepsBus
<1> QED
  BY <1>7, <1>8, <1>9

\* When it refuses, who waited is told.
LEMMA RedisRefusesIsKept ==
  ASSUME SocketInd, BusInd, RedisRefuses
  PROVE  Kept({}) /\ BusInd'
<1>1. PICK q, id : q = Head(bus.commands).run /\ id = Opener(q)
  OBVIOUS
<1>2. bus.commands # <<>> /\ Head(bus.commands).op = "subscribe"
  BY DEF RedisRefuses
<1>3. q \in Runs /\ id \in Ids /\ Opening(At(id), q)
  BY <1>1, <1>2, OpenerIs
<1>4. PICK o : o = At(id)
  OBVIOUS
<1>5. o \in Conns /\ Sound(o, ended)
  BY <1>3, <1>4, AsItIs
<1>6. o.busy = "opening" /\ o.asked = q
  BY <1>3, <1>4 DEF Opening
<1>7. PICK f : f = [type |-> "error", run |-> q]
  OBVIOUS
<1>8. PICK s \in Conns : connections' = Replaced(id, s) /\ Dropped(o, s, q) /\ Adds(o, s, f)
  BY <1>1, <1>4, <1>7, RefusedMakes
<1>9. Grows(o, s) /\ Said(o, s) \subseteq {f} /\ (o.open /\ ~o.lost => Hears(s, f))
  BY <1>5, <1>8, AddsGrows
<1>10. \A k \in Tabs : o.open /\ ~o.lost => Stage(k, s, q, ended)
  BY <1>7, <1>9 DEF Stage
<1>11. f.type = "error"
  BY <1>7
<1>12. Advances(o, s, q)
  BY <1>6, <1>8, <1>9, <1>10, <1>11, NoneIs DEF Advances, Dropped
<1>13. Sound(s, ended)
  BY <1>3, <1>5, <1>8, DroppedIsSound
<1> QED
  BY <1>3, <1>4, <1>8, <1>12, <1>13, AdvancingIsKept, RefusingKeepsBus

\* When the process ends every connection hears it, or is lost.
LEMMA RecheckIsKept ==
  ASSUME SocketInd, NEW id \in Ids, NEW r \in Runs, RecheckFails(id, r)
  PROVE  Kept({}) /\ BusInd'
<1>1. connections' = [b \in Browsers |-> [n \in DOMAIN connections[b] |-> Left(connections[b][n])]]
  BY DEF RecheckFails, Left
<1>2. /\ Typed' /\ Ids' = Ids
      /\ \A jd \in Ids : Ended(At(jd), At(jd)') /\ At(jd)' \in Conns
      /\ \A b \in Browsers : Current(b)' = Current(b) /\ ((connections[b] = <<>>) <=> (connections'[b] = <<>>))
  BY <1>1, EndingMakes
<1>3. ASSUME NEW jd \in Ids
      PROVE  /\ Sound(At(jd)', ended) /\ Proper(At(jd), At(jd)', readers) /\ Links(At(jd), At(jd)')
             /\ Serves(At(jd), At(jd)', ended)
  <2>1. PICK o, s : o = At(jd) /\ s = At(jd)'
    OBVIOUS
  <2>2. o \in Conns /\ s \in Conns /\ Ended(o, s)
    BY <1>2, <2>1, AsItIs
  <2>3. \A q \in Runs : s.subs[q].at = "none" /\ s.subs[q].queue = <<>>
    BY <2>2, NoneIs DEF Ended
  <2>4. Sound(s, ended)
    BY <2>2, <2>3, NoCheckIs DEF Ended, Sound
  <2>5. "GONE" \in Codes \ {"PROTOCOL"}
    BY DEF Codes
  <2>6. Proper(o, s, readers) /\ Links(o, s) /\ Serves(o, s, ended)
    BY <2>2, <2>5, ClosingServes DEF Ended
  <2> QED
    BY <2>1, <2>4, <2>6
<1> QED
  BY <1>2, <1>3, RecheckKeepsBus DEF Kept

\* No connection takes part.
LEMMA ConnectionsStand ==
  ASSUME SocketInd, connections' = connections
  PROVE  Kept({})
<1>1. Typed' /\ Ids' = Ids /\ \A id \in Ids : At(id)' = At(id)
  BY DEF SocketInd, Typed, Ids, At
<1>2. \A b \in Browsers : Current(b)' = Current(b) /\ ((connections[b] = <<>>) <=> (connections'[b] = <<>>))
  BY DEF Current
<1>3. \A id \in Ids : Sound(At(id), ended)
  BY DEF SocketInd
<1> QED
  BY <1>1, <1>2, <1>3, SameIsKept DEF Kept

\* Nor does the bus.
LEMMA BusStands ==
  ASSUME SocketInd, BusInd, connections' = connections, bus' = bus
  PROVE  BusInd'
<1>1. Ids' = Ids /\ \A id \in Ids : At(id)' = At(id)
  BY DEF Ids, At
<1>2. \A r \in Runs : Unmoved(r)
  BY <1>1 DEF Unmoved
<1> QED
  BY <1>1, <1>2, ViewKeepsBus

\* Redis stops sending.
LEMMA RedisUnsubscribesIsKept ==
  ASSUME SocketInd, BusInd, RedisUnsubscribes
  PROVE  Kept({}) /\ BusInd'
<1>1. connections' = connections
  BY DEF RedisUnsubscribes
<1> QED
  BY <1>1, ConnectionsStand, UnsubscribingKeepsBus

\* An event is late for the viewer it cannot reach, and for nobody else.
LEMMA ForIs ==
  ASSUME NEW o \in Conns, NEW r \in Runs, NEW e \in Reports
  PROVE  /\ For(o, r, e) \in Events /\ For(o, r, e).type = e.type
         /\ For(o, r, e).late = IF Unreachable(o, r) THEN {o.viewer} ELSE {}
<1>1. PICK l : l = IF Unreachable(o, r) THEN {o.viewer} ELSE {}
  OBVIOUS
<1>2. o.viewer \in Viewers
  BY DEF Conns
<1>3. l \in SUBSET Viewers
  BY <1>1, <1>2
<1>4. For(o, r, e) = [type |-> e.type, time |-> e.time, late |-> l]
  BY <1>1 DEF For
<1>5. e.type \in {"progress", "complete"} /\ e.time \in Nat
  BY DEF Reports
<1> QED
  BY <1>1, <1>3, <1>4, <1>5 DEF Events

\* A connection that an event of r may be waiting for.
Queued(o, s, r, e) ==
    /\ s.up = o.up /\ s.down = o.down /\ s.open = o.open /\ s.lost = o.lost
    /\ s.viewer = o.viewer /\ s.expired = o.expired /\ s.checks = o.checks
    /\ s.busy = o.busy /\ s.asked = o.asked /\ s.found = o.found
    /\ \A q \in Runs : /\ s.subs[q].at = o.subs[q].at /\ s.subs[q].early = o.subs[q].early
                       /\ s.subs[q].fresh = o.subs[q].fresh
    /\ \A q \in Runs : q # r => s.subs[q].queue = o.subs[q].queue
    /\ s.subs[r].queue = o.subs[r].queue \/ s.subs[r].queue = Append(o.subs[r].queue, For(o, r, e))

\* The event is put behind what waits already.
LEMMA QueueMakes ==
  ASSUME NEW o \in Conns, NEW r \in Runs, NEW e \in Reports
  PROVE  LET s == [o EXCEPT !.subs[r].queue = Append(@, For(o, r, e))]
         IN  s \in Conns /\ Queued(o, s, r, e)
<1> DEFINE g == For(o, r, e)
<1>0. g \in Events
  BY ForIs
<1> HIDE DEF g
<1>1. PICK u : u = o.subs[r]
  OBVIOUS
<1>2. u \in Subs
  BY <1>1 DEF Conns
<1>3. PICK w : w = Append(u.queue, g)
  OBVIOUS
<1>4. w \in Seq(Events)
  BY <1>0, <1>2, <1>3 DEF Subs
<1>5. PICK t : t = [u EXCEPT !.queue = w]
  OBVIOUS
<1>6. t \in Subs /\ t.at = u.at /\ t.early = u.early /\ t.fresh = u.fresh /\ t.queue = w
  BY <1>2, <1>4, <1>5 DEF Subs
<1>7. PICK s : s = [o EXCEPT !.subs[r] = t]
  OBVIOUS
<1>8. /\ s \in Conns /\ s.up = o.up /\ s.down = o.down
      /\ s.open = o.open /\ s.lost = o.lost
      /\ s.viewer = o.viewer /\ s.expired = o.expired /\ s.checks = o.checks
      /\ s.busy = o.busy /\ s.asked = o.asked /\ s.found = o.found
      /\ s.subs[r] = t /\ \A q \in Runs : q # r => s.subs[q] = o.subs[q]
  BY <1>6, <1>7, SubMakes
<1>9. Queued(o, s, r, e)
  BY <1>1, <1>3, <1>6, <1>8 DEF Queued, g
<1>10. [o EXCEPT !.subs[r].queue = Append(@, g)] = s
  BY <1>1, <1>3, <1>5, <1>7
<1> QED
  BY <1>8, <1>9, <1>10 DEF g

\* What is published reaches some, and the others stay as they are.
LEMMA PublishMakes ==
  ASSUME SocketInd, NEW r \in Runs, NEW e \in Reports, connections' = Published(r, e)
  PROVE  /\ Typed' /\ Ids' = Ids
         /\ \A id \in Ids : Queued(At(id), At(id)', r, e)
         /\ \A b \in Browsers : /\ Current(b)' = Current(b)
                                /\ (connections[b] = <<>>) <=> (connections'[b] = <<>>)
<1>1. Typed
  BY DEF SocketInd
<1>2. \A o \in Conns : Queued(o, o, r, e)
  BY DEF Queued
<1>3. ASSUME NEW b \in Browsers
      PROVE  /\ connections'[b] \in Seq(Conns) /\ DOMAIN connections'[b] = DOMAIN connections[b]
             /\ \A n \in DOMAIN connections[b] : Queued(connections[b][n], connections'[b][n], r, e)
  <2>1. PICK row \in Seq(Conns) : row = connections[b]
    BY <1>1 DEF Typed
  <2>2. PICK new : new = [n \in DOMAIN row |->
                             IF r \in bus.redis /\ <<b, n>> \in bus.channels[r] /\ row[n].subs[r].at = "live"
                             THEN [row[n] EXCEPT !.subs[r].queue = Append(@, For(row[n], r, e))] ELSE row[n]]
    OBVIOUS
  <2>3. connections'[b] = new
    BY <2>1, <2>2 DEF Published
  <2>4. \A n \in DOMAIN row : row[n] \in Conns
    BY <2>1
  <2>5. ASSUME NEW n \in DOMAIN row PROVE new[n] \in Conns /\ Queued(row[n], new[n], r, e)
    <3>1. CASE r \in bus.redis /\ <<b, n>> \in bus.channels[r] /\ row[n].subs[r].at = "live"
      <4>1. PICK o \in Conns : o = row[n]
        BY <2>4
      <4>2. PICK s : s = [o EXCEPT !.subs[r].queue = Append(@, For(o, r, e))]
        OBVIOUS
      <4>3. s \in Conns /\ Queued(o, s, r, e)
        BY <4>2, QueueMakes
      <4>4. new[n] = s
        BY <2>2, <3>1, <4>1, <4>2
      <4> QED
        BY <4>1, <4>3, <4>4
    <3>2. CASE ~(r \in bus.redis /\ <<b, n>> \in bus.channels[r] /\ row[n].subs[r].at = "live")
      <4>1. new[n] = row[n]
        BY <2>2, <3>2
      <4> QED
        BY <1>2, <2>4, <4>1
    <3> QED
      BY <3>1, <3>2
  <2>6. DOMAIN new = DOMAIN row /\ DOMAIN row = 1 .. Len(row) /\ Len(row) \in Nat
    BY <2>1, <2>2
  <2>7. new \in Seq(Conns)
    <3>1. \A n \in 1 .. Len(row) : new[n] \in Conns
      BY <2>5, <2>6
    <3>2. new = [n \in 1 .. Len(row) |-> new[n]]
      BY <2>2, <2>6
    <3> QED
      BY <2>6, <3>1, <3>2
  <2> QED
    BY <2>1, <2>3, <2>5, <2>6, <2>7
<1>4. Typed'
  <2>1. connections' = [b \in Browsers |-> connections'[b]]
    BY DEF Published
  <2> QED
    BY <1>3, <2>1 DEF Typed
<1>5. /\ Ids' = Ids
      /\ \A b \in Browsers : /\ Current(b)' = Current(b)
                             /\ (connections[b] = <<>>) <=> (connections'[b] = <<>>)
  BY <1>1, <1>3, <1>4, MappedMakes
<1>6. \A id \in Ids : Queued(At(id), At(id)', r, e)
  BY <1>1, <1>3, IdsAre DEF At
<1> QED
  BY <1>4, <1>5, <1>6

\* Who is published to when it is too late is not told.
LEMMA QueuedIsProper ==
  ASSUME NEW o \in Conns, NEW s, NEW r \in Runs, NEW e \in Reports, Queued(o, s, r, e)
  PROVE  Proper(o, s, readers)
<1> SUFFICES ASSUME NEW who, Clean(o, who, readers) PROVE Clean(s, who, readers)
  BY DEF Proper
<1>1. ASSUME s.open, NEW q \in Runs PROVE Timely(s, q, readers)
  <2>1. /\ Timely(o, q, readers) /\ s.viewer = o.viewer /\ s.expired = o.expired /\ s.checks = o.checks
        /\ s.subs[q].fresh = o.subs[q].fresh
    BY <1>1 DEF Clean, Queued
  <2>2. CASE s.subs[q].queue = o.subs[q].queue
    BY <2>1, <2>2 DEF Timely, Apt
  <2>3. CASE q = r /\ s.subs[r].queue = Append(o.subs[r].queue, For(o, r, e))
    <3>1. PICK w \in Seq(Events) : w = o.subs[r].queue
      BY DEF Conns, Subs
    <3>2. PICK g \in Events : g = For(o, r, e) /\ g.late = IF Unreachable(o, r) THEN {o.viewer} ELSE {}
      BY ForIs
    <3>3. ASSUME NEW i \in DOMAIN s.subs[r].queue
          PROVE  (i \in DOMAIN w /\ s.subs[r].queue[i] = w[i]) \/ s.subs[r].queue[i] = g
      BY <2>3, <3>1, <3>2
    <3>4. /\ Apt(s, g)
          /\ s.viewer \in g.late => s.expired \/ (s.viewer \notin readers /\ ~s.subs[r].fresh /\ ~s.checks[r].allowed)
      BY <2>1, <2>3, <3>2 DEF Apt, Unreachable
    <3>5. \A i \in DOMAIN w :
             /\ Apt(s, w[i])
             /\ s.viewer \in w[i].late => s.expired \/ (s.viewer \notin readers /\ ~s.subs[r].fresh /\ ~s.checks[r].allowed)
      BY <2>1, <2>3, <3>1 DEF Timely, Apt
    <3>6. \A i \in DOMAIN s.subs[r].queue :
             /\ Apt(s, s.subs[r].queue[i])
             /\ s.viewer \in s.subs[r].queue[i].late =>
                   s.expired \/ (s.viewer \notin readers /\ ~s.subs[r].fresh /\ ~s.checks[r].allowed)
      BY <3>3, <3>4, <3>5
    <3> QED
      BY <2>1, <2>3, <3>6 DEF Timely, Apt
  <2> QED
    BY <2>2, <2>3 DEF Queued
<1> QED
  BY <1>1 DEF Clean, Queued

\* An event that waits makes no difference yet.
LEMMA PublishIsKept ==
  ASSUME SocketInd, BusInd, NEW r \in Runs, NEW e \in Reports, e.type = "complete" => r \in ended,
         connections' = Published(r, e), bus' = bus
  PROVE  Kept({}) /\ BusInd'
<1>1. /\ Typed' /\ Ids' = Ids /\ \A id \in Ids : Queued(At(id), At(id)', r, e)
      /\ \A b \in Browsers : Current(b)' = Current(b) /\ ((connections[b] = <<>>) <=> (connections'[b] = <<>>))
  BY PublishMakes
<1>2. \A q \in Runs : Unmoved(q)
  BY <1>1 DEF Unmoved, Queued, Opening
<1>3. BusInd'
  BY <1>1, <1>2, ViewKeepsBus
<1>4. ASSUME NEW id \in Ids
      PROVE  /\ Sound(At(id)', ended) /\ Proper(At(id), At(id)', readers) /\ Links(At(id), At(id)')
             /\ Serves(At(id), At(id)', ended)
  <2>1. PICK o, s : o = At(id) /\ s = At(id)'
    OBVIOUS
  <2>2. o \in Conns /\ Sound(o, ended)
    BY <2>1, AsItIs
  <2>3. Queued(o, s, r, e)
    BY <1>1, <2>1
  <2>4. s \in Conns
    <3>1. Typed' => \A b \in Browsers : \A n \in DOMAIN connections'[b] : connections'[b][n] \in Conns
      BY DEF Typed
    <3>2. id[1] \in Browsers /\ id[2] \in DOMAIN connections'[id[1]]
      <4>1. id \in Ids'
        BY <1>1
      <4>2. PICK b \in Browsers : id \in {<<b, n>> : n \in DOMAIN connections'[b]}
        BY <4>1 DEF Ids
      <4>3. PICK n \in DOMAIN connections'[b] : id = <<b, n>>
        BY <4>2
      <4> QED
        BY <4>3
    <3> QED
      BY <1>1, <2>1, <3>1, <3>2 DEF At
  <2>5. Sound(s, ended)
    <3>1. s.busy = "opening" => s.subs[s.asked].at # "live"
      BY <2>2, <2>3 DEF Queued, Sound
    <3>2. \A q \in Runs : s.subs[q].at = "live" => s.open
      BY <2>2, <2>3 DEF Queued, Sound
    <3>3. ASSUME NEW q \in Runs, NEW i \in DOMAIN s.subs[q].queue, s.subs[q].queue[i].type = "complete" PROVE q \in ended
      <4>1. CASE s.subs[q].queue = o.subs[q].queue
        BY <2>2, <3>3, <4>1 DEF Sound
      <4>2. CASE q = r /\ s.subs[r].queue = Append(o.subs[r].queue, For(o, r, e))
        <5>1. PICK w \in Seq(Events) : w = o.subs[r].queue
          BY <2>2 DEF Conns, Subs
        <5> DEFINE g == For(o, r, e)
        <5>2. g.type = e.type
          BY <2>2, ForIs
        <5> HIDE DEF g
        <5>3. (i \in DOMAIN w /\ s.subs[q].queue[i] = w[i]) \/ s.subs[q].queue[i] = g
          BY <3>3, <4>2, <5>1 DEF g
        <5>4. \A j \in DOMAIN w : w[j].type = "complete" => r \in ended
          BY <2>2, <5>1 DEF Sound
        <5>5. g.type = "complete" => r \in ended
          BY <5>2
        <5> QED
          BY <3>3, <4>2, <5>3, <5>4, <5>5
      <4> QED
        BY <2>3, <4>1, <4>2 DEF Queued
    <3> QED
      BY <2>2, <2>3, <3>1, <3>2, <3>3 DEF Queued, Sound
  <2>6. Grows(o, s) /\ Said(o, s) = {}
    BY <2>3, SameGrows DEF Queued
  <2>7. Proper(o, s, readers)
    BY <2>2, <2>3, QueuedIsProper
  <2>8. GoesOn(o, s)
    BY <2>3, <2>6, SameHandles DEF Queued, GoesOn
  <2>9. Answering(o) => Answering(s)
    BY <2>3 DEF Queued, Answering, Hears
  <2>10. ASSUME NEW k \in Tabs, NEW q \in Runs, Stage(k, o, q, ended) PROVE Stage(k, s, q, ended)
    BY <2>3, <2>10 DEF Queued, Stage, Asks, Hears, Completes
  <2>11. Links(o, s) /\ Serves(o, s, ended)
    BY <2>2, <2>4, <2>8, <2>9, <2>10, GoingOnKeeps
  <2> QED
    BY <2>1, <2>5, <2>7, <2>11
<1> QED
  BY <1>1, <1>3, <1>4 DEF Kept

------------------------------------------------------------------------------
(* What a step does to the tabs and the world. *)

\* What is too late for a viewer still is when fewer may read.
LEMMA FewerReaders ==
  ASSUME NEW s, NEW who, NEW may, NEW left, left \subseteq may, Clean(s, who, may)
  PROVE  Clean(s, who, left)
<1>1. \A r : Timely(s, r, may) => Timely(s, r, left)
  BY DEF Timely
<1> QED
  BY <1>1 DEF Clean

\* The tabs stand, and the feed owes less at most.
Onlooking ==
    /\ tabs' = tabs /\ setting' = setting /\ begun' = begun
    /\ excused \subseteq excused' /\ WorldInd'

\* A step that the tabs take no part in, and to which nothing ends.
LEMMA KeptKeeps ==
  ASSUME Ind, NEW left, Kept(left), BusInd', Onlooking, ended' = ended, left \subseteq excused',
         readers' \subseteq readers
  PROVE  Ind'
<1>1. /\ Typed' /\ Ids' = Ids
      /\ \A b \in Browsers : Current(b)' = Current(b) /\ ((connections[b] = <<>>) <=> (connections'[b] = <<>>))
      /\ \A id \in Ids : /\ Sound(At(id)', ended) /\ Proper(At(id), At(id)', readers) /\ Links(At(id), At(id)')
                         /\ id[1] \notin left => Serves(At(id), At(id)', ended)
  BY DEF Kept
<1>2. SocketInd'
  BY <1>1 DEF SocketInd
<1>3. TabInd'
  BY DEF Ind, TabInd, Onlooking
<1>4. ASSUME NEW b \in Browsers
      PROVE  /\ tabs[b].socket = "open" => connections'[b] # <<>> /\ Linked(tabs[b], At(Current(b))')
             /\ b \notin excused' =>
                   /\ tabs[b].socket = "open" => Served(tabs[b], At(Current(b))', ended)
                   /\ tabs[b].socket = "none" => tabs[b].retry \/ tabs[b].wanted = {}
  <2>1. PICK k : k = tabs[b]
    OBVIOUS
  <2>2. k \in Tabs /\ k.claimed \subseteq k.wanted
    BY <2>1 DEF Ind, TabInd, TabSound
  <2>3. /\ k.socket = "open" => connections[b] # <<>> /\ Linked(k, At(Current(b)))
        /\ b \notin excused' =>
              /\ k.socket = "open" => Served(k, At(Current(b)), ended)
              /\ k.socket = "none" => k.retry \/ k.wanted = {}
    BY <2>1 DEF Ind, PipeInd, Onlooking
  <2>4. ASSUME k.socket = "open"
        PROVE  /\ connections'[b] # <<>> /\ Linked(k, At(Current(b))')
               /\ b \notin excused' => Served(k, At(Current(b))', ended)
    <3>1. PICK id \in Ids : id = Current(b)
      BY <2>3, <2>4, CurrentIs DEF Ind, SocketInd
    <3>2. id[1] = b
      BY <3>1 DEF Current
    <3>3. At(Current(b))' = At(id)'
      BY <1>1, <3>1 DEF At
    <3>4. Linked(k, At(id)')
      BY <1>1, <2>2, <2>3, <2>4, <3>1 DEF Links
    <3>5. b \notin excused' => Serves(At(id), At(id)', ended)
      BY <1>1, <3>2
    <3>6. b \notin excused' => Served(k, At(id)', ended)
      BY <2>2, <2>3, <2>4, <3>1, <3>5 DEF Serves
    <3> QED
      BY <1>1, <2>3, <2>4, <3>3, <3>4, <3>6
  <2> QED
    BY <2>1, <2>3, <2>4
<1>5. PipeInd'
  BY <1>4 DEF PipeInd, Onlooking
<1>6. CleanInd'
  <2>1. \A id \in Ids : Clean(At(id), setting.people[id[1]], readers)
    BY DEF Ind, CleanInd
  <2>2. \A id \in Ids : Clean(At(id)', setting.people[id[1]], readers)
    BY <1>1, <2>1 DEF Proper
  <2>3. \A id \in Ids : Clean(At(id)', setting.people[id[1]], readers')
    BY <2>2, FewerReaders
  <2> QED
    BY <1>1, <2>3 DEF CleanInd, Onlooking
<1> QED
  BY <1>2, <1>3, <1>5, <1>6 DEF Ind, Onlooking

\* What is sound, at some stage or served is so when more has ended.
LEMMA EndingSpoils ==
  ASSUME NEW done, NEW more, done \subseteq more
  PROVE  /\ \A s : Sound(s, done) => Sound(s, more)
         /\ \A k, s, r : Stage(k, s, r, done) => Stage(k, s, r, more)
         /\ \A k, s : Served(k, s, done) => Served(k, s, more)
<1>1. \A s : Sound(s, done) => Sound(s, more)
  BY DEF Sound
<1>2. \A k, s, r : Stage(k, s, r, done) => Stage(k, s, r, more)
  BY DEF Stage
<1>3. \A k, s : Served(k, s, done) => Served(k, s, more)
  BY <1>2 DEF Served
<1> QED
  BY <1>1, <1>2, <1>3

\* A row ends.
LEMMA RowEndsKeeps ==
  ASSUME Ind, RowEnds
  PROVE  Ind'
<1>1. /\ ended \subseteq ended' /\ ended' \subseteq setting.runs
      /\ UNCHANGED <<connections, bus, readers, tabs, worldVars>>
  BY DEF RowEnds, Ind, WorldInd
<1>2. SocketInd /\ BusInd /\ TabInd /\ PipeInd /\ WorldInd
  BY DEF Ind
<1>3. WorldInd'
  BY <1>1, <1>2 DEF WorldInd, worldVars
<1>4. Kept({}) /\ BusInd'
  BY <1>1, <1>2, ConnectionsStand, BusStands
<1>5. Typed' /\ Ids' = Ids /\ \A id \in Ids : At(id)' = At(id)
  BY <1>1, <1>4 DEF Kept, At
<1>6. SocketInd'
  BY <1>1, <1>2, <1>5, EndingSpoils DEF SocketInd
<1>7. TabInd'
  BY <1>1, <1>2 DEF TabInd, worldVars
<1>8. ASSUME NEW b \in Browsers
      PROVE  /\ tabs[b].socket = "open" => connections[b] # <<>> /\ Linked(tabs[b], At(Current(b)))
             /\ b \notin excused =>
                   /\ tabs[b].socket = "open" => Served(tabs[b], At(Current(b)), ended')
                   /\ tabs[b].socket = "none" => tabs[b].retry \/ tabs[b].wanted = {}
  BY <1>1, <1>2, EndingSpoils DEF PipeInd
<1>9. \A b \in Browsers : At(Current(b))' = At(Current(b))
  BY <1>1 DEF At, Current
<1>10. PipeInd'
  BY <1>1, <1>8, <1>9 DEF PipeInd, worldVars
<1>11. CleanInd'
  BY <1>1, <1>5 DEF Ind, CleanInd, worldVars
<1> QED
  BY <1>3, <1>4, <1>6, <1>7, <1>10, <1>11 DEF Ind

\* A run of the setting is a run, and the times of its events are numbers.
LEMMA SettingIs ==
  ASSUME WorldInd
  PROVE  /\ setting.runs \subseteq Runs /\ ended \subseteq Runs /\ DOMAIN setting.people \subseteq Browsers
         /\ setting.progress \in Nat
BY SettingsAssumption DEF WorldInd

\* An event that is published, and what happens beside it.
LEMMA PublishKeeps ==
  ASSUME Ind, NEW r \in Runs, NEW e \in Reports, e.type = "complete" => r \in ended, Publish(r, e), Onlooking
  PROVE  Ind'
<1>1. connections' = Published(r, e) /\ bus' = bus /\ ended' = ended /\ readers' = readers
  BY DEF Publish
<1>2. Kept({}) /\ BusInd'
  BY <1>1, PublishIsKept DEF Ind
<1> QED
  BY <1>1, <1>2, KeptKeeps

\* The worker tells how far a run is.
LEMMA WorkerReportsKeeps ==
  ASSUME Ind, WorkerReports
  PROVE  Ind'
<1>1. PICK r \in setting.runs :
         /\ Publish(r, [type |-> "progress", time |-> reported[r] + 1])
         /\ reported' = [reported EXCEPT ![r] = @ + 1]
         /\ UNCHANGED <<tabs, setting, begun, announced, excused>>
  BY DEF WorkerReports
<1>2. r \in Runs
  BY SettingIs DEF Ind
<1>3. PICK e : e = [type |-> "progress", time |-> reported[r] + 1]
  OBVIOUS
<1>4. e \in Reports /\ e.type # "complete"
  BY <1>2, <1>3 DEF Ind, WorldInd, Reports
<1>5. ended' = ended /\ readers' = readers
  BY <1>1 DEF Publish
<1>6. Onlooking
  BY <1>1, <1>2, <1>5 DEF Ind, WorldInd, Onlooking
<1> QED
  BY <1>1, <1>2, <1>3, <1>4, <1>6, PublishKeeps

\* That it has ended.
LEMMA WorkerAnnouncesKeeps ==
  ASSUME Ind, WorkerAnnounces
  PROVE  Ind'
<1>1. PICK r \in ended \ announced :
         /\ Publish(r, [type |-> "complete", time |-> setting.progress + 1])
         /\ announced' = announced \cup {r}
         /\ UNCHANGED <<tabs, setting, begun, reported, excused>>
  BY DEF WorkerAnnounces
<1>2. r \in Runs /\ setting.progress \in Nat
  BY SettingIs DEF Ind
<1>3. PICK e : e = [type |-> "complete", time |-> setting.progress + 1]
  OBVIOUS
<1>4. e \in Reports
  BY <1>2, <1>3 DEF Reports
<1>5. ended' = ended /\ readers' = readers
  BY <1>1 DEF Publish
<1>6. Onlooking
  BY <1>1, <1>5 DEF Ind, WorldInd, Onlooking
<1> QED
  BY <1>1, <1>2, <1>3, <1>4, <1>6, PublishKeeps

\* Or does not, or too early to be believed.
LEMMA AnnouncementIsLostKeeps ==
  ASSUME Ind, AnnouncementIsLost
  PROVE  Ind'
<1>1. PICK r \in ended \ announced :
         /\ announced' = announced \cup {r} /\ excused' = Browsers
         /\ UNCHANGED feedVars \/ Publish(r, [type |-> "complete", time |-> 0])
         /\ UNCHANGED <<tabs, setting, begun, reported>>
  BY DEF AnnouncementIsLost
<1>2. r \in Runs
  BY SettingIs DEF Ind
<1>3. ended' = ended /\ readers' = readers
  BY <1>1 DEF Publish, feedVars
<1>4. Onlooking
  BY <1>1, <1>3 DEF Ind, WorldInd, Onlooking
<1>5. CASE UNCHANGED feedVars
  <2>1. connections' = connections /\ bus' = bus
    BY <1>5 DEF feedVars
  <2>2. Kept({}) /\ BusInd'
    BY <2>1, ConnectionsStand, BusStands DEF Ind
  <2> QED
    BY <1>3, <1>4, <2>2, KeptKeeps
<1>6. CASE Publish(r, [type |-> "complete", time |-> 0])
  <2>1. PICK e : e = [type |-> "complete", time |-> 0]
    OBVIOUS
  <2>2. e \in Reports
    BY <2>1 DEF Reports
  <2> QED
    BY <1>1, <1>2, <1>4, <1>6, <2>1, <2>2, PublishKeeps
<1> QED
  BY <1>1, <1>5, <1>6

\* Fewer readers make no difference to what is there.
LEMMA ReadersChangeKeeps ==
  ASSUME Ind, ReadersChange
  PROVE  Ind'
<1>1. /\ UNCHANGED <<connections, bus, ended, tabs, setting, begun, reported, announced>>
      /\ excused' = excused /\ readers' \subseteq readers
  BY DEF ReadersChange, Fails
<1>2. Onlooking
  BY <1>1 DEF Ind, WorldInd, Onlooking
<1>3. Kept({}) /\ BusInd'
  BY <1>1, ConnectionsStand, BusStands DEF Ind
<1> QED
  BY <1>1, <1>2, <1>3, KeptKeeps

------------------------------------------------------------------------------
(* The steps of the process, once more. *)

\* A step of the process alone.
LEMMA ServerKeeps ==
  ASSUME Ind, Kept({}), BusInd', ended' = ended, readers' = readers, UNCHANGED <<tabs, setting, begun, reported, announced>>,
         excused \subseteq excused', excused' \subseteq Browsers
  PROVE  Ind'
<1>1. Onlooking
  BY DEF Ind, WorldInd, Onlooking
<1> QED
  BY <1>1, KeptKeeps

\* Sockets read what the tabs send.
LEMMA SocketsReadKeeps ==
  ASSUME Ind, SocketsRead
  PROVE  Ind'
<1>1. SocketInd /\ BusInd /\ excused \subseteq Browsers
  BY DEF Ind, WorldInd
<1>2. PICK id \in Ids : Authenticate(id) \/ SubscribeFrame(id) \/ UnsubscribeFrame(id) \/ Bye(id)
  BY DEF SocketsRead
<1>3. Turns(id)
  BY <1>1, <1>2, AuthenticateTurns, SubscribeTurns, UnsubscribeTurns, ByeTurns
<1>4. Kept({}) /\ BusInd'
  BY <1>1, <1>3, TurnIsKept
<1>5. ended' = ended /\ readers' = readers
  BY <1>3 DEF Turns, One
<1>6. UNCHANGED <<tabs, worldVars>>
  BY DEF SocketsRead, Server
<1> QED
  BY <1>1, <1>4, <1>5, <1>6, ServerKeeps DEF worldVars

\* Rows arrive, and channels are opened.
LEMMA SocketsSubscribeKeeps ==
  ASSUME Ind, SocketsSubscribe
  PROVE  Ind'
<1>1. SocketInd /\ BusInd /\ excused \subseteq Browsers
  BY DEF Ind, WorldInd
<1>2. PICK id \in Ids : RowArrives(id) \/ OpenChannel(id)
  BY DEF SocketsSubscribe
<1>3. Kept({}) /\ BusInd'
  BY <1>1, <1>2, RowTurns, TurnIsKept, OpenIsKept
<1>4. ended' = ended /\ readers' = readers
  BY <1>2 DEF RowArrives, One, OpenChannel
<1>5. UNCHANGED <<tabs, worldVars>>
  BY DEF SocketsSubscribe, Server
<1> QED
  BY <1>1, <1>3, <1>4, <1>5, ServerKeeps DEF worldVars

\* Or joined.
LEMMA SocketsJoinKeeps ==
  ASSUME Ind, SocketsJoin
  PROVE  Ind'
<1>1. SocketInd /\ BusInd /\ excused \subseteq Browsers /\ Typed
  BY DEF Ind, WorldInd, SocketInd
<1>2. PICK id \in Ids :
         /\ JoinChannel(id) /\ excused' \in {excused, excused \cup {id[1]}}
         /\ UNCHANGED <<tabs, setting, begun, reported, announced>>
  BY DEF SocketsJoin
<1>3. Kept({}) /\ BusInd'
  BY <1>1, <1>2, JoinIsKept
<1>4. ended' = ended /\ readers' = readers
  BY <1>2 DEF JoinChannel, One
<1>5. id[1] \in Browsers
  BY <1>1, IdsAre
<1> QED
  BY <1>1, <1>2, <1>3, <1>4, <1>5, ServerKeeps

\* Redis takes a command.
LEMMA RedisActsKeeps ==
  ASSUME Ind, RedisActs
  PROVE  Ind'
<1>1. SocketInd /\ BusInd /\ excused \subseteq Browsers
  BY DEF Ind, WorldInd
<1>2. Kept({}) /\ BusInd'
  BY <1>1, RedisSubscribesIsKept, RedisUnsubscribesIsKept DEF RedisActs
<1>3. ended' = ended /\ readers' = readers
  BY DEF RedisActs, RedisSubscribes, RedisUnsubscribes
<1>4. UNCHANGED <<tabs, worldVars>>
  BY DEF RedisActs, Server
<1> QED
  BY <1>1, <1>2, <1>3, <1>4, ServerKeeps DEF worldVars

\* Events are delivered.
LEMMA SocketsDeliverKeeps ==
  ASSUME Ind, SocketsDeliver
  PROVE  Ind'
<1>1. SocketInd /\ BusInd /\ excused \subseteq Browsers
  BY DEF Ind, WorldInd
<1>2. PICK id \in Ids, r \in Runs : DeliverEvent(id, r) \/ AskAgain(id, r) \/ AnswerArrives(id, r)
  BY DEF SocketsDeliver
<1>3. Turns(id)
  BY <1>1, <1>2, DeliverTurns, AskTurns, AnswerTurns
<1>4. Kept({}) /\ BusInd'
  BY <1>1, <1>3, TurnIsKept
<1>5. ended' = ended /\ readers' = readers
  BY <1>3 DEF Turns, One
<1>6. UNCHANGED <<tabs, worldVars>>
  BY DEF SocketsDeliver, Server
<1> QED
  BY <1>1, <1>4, <1>5, <1>6, ServerKeeps DEF worldVars

\* Sockets that are lost or expired end.
LEMMA SocketsEndKeeps ==
  ASSUME Ind, SocketsEnd
  PROVE  Ind'
<1>1. SocketInd /\ BusInd /\ excused \subseteq Browsers
  BY DEF Ind, WorldInd
<1>2. PICK id \in Ids : Ping(id) \/ Sweep(id)
  BY DEF SocketsEnd
<1>3. "EXPIRED" \in Codes \ {"PROTOCOL"}
  BY DEF Codes
<1>4. Sweep(id) => One(id, Shut(At(id), "EXPIRED"))
  BY DEF Sweep
<1>5. Turns(id)
  BY <1>1, <1>2, <1>3, <1>4, PingTurns, ShutTurns
<1>6. Kept({}) /\ BusInd'
  BY <1>1, <1>5, TurnIsKept
<1>7. ended' = ended /\ readers' = readers
  BY <1>5 DEF Turns, One
<1>8. UNCHANGED <<tabs, worldVars>>
  BY DEF SocketsEnd, Server
<1> QED
  BY <1>1, <1>6, <1>7, <1>8, ServerKeeps DEF worldVars

\* Decisions get old.
LEMMA AgesKeeps ==
  ASSUME Ind, Ages
  PROVE  Ind'
<1>1. SocketInd /\ BusInd /\ excused \subseteq Browsers
  BY DEF Ind, WorldInd
<1>2. PICK id \in Ids, r \in Runs : Age(id, r)
  BY DEF Ages
<1>3. Turns(id)
  BY <1>1, <1>2, AgeTurns
<1>4. Kept({}) /\ BusInd'
  BY <1>1, <1>3, TurnIsKept
<1>5. ended' = ended /\ readers' = readers
  BY <1>3 DEF Turns, One
<1>6. UNCHANGED <<tabs, worldVars>>
  BY DEF Ages, Server
<1> QED
  BY <1>1, <1>4, <1>5, <1>6, ServerKeeps DEF worldVars

\* The process fails in one of its ways.
LEMMA ServerFailsKeeps ==
  ASSUME Ind, ServerFails
  PROVE  Ind'
<1>1. SocketInd /\ BusInd /\ excused \subseteq Browsers /\ Typed
  BY DEF Ind, WorldInd, SocketInd
<1>2. PICK id \in Ids :
         \/ (AuthenticateFails(id) \/ Expires(id) \/ \E r \in Runs : RecheckFails(id, r)) /\ Fails({})
         \/ ReadFails(id) /\ Fails({id[1]})
  BY DEF ServerFails
<1>3. CASE (AuthenticateFails(id) \/ Expires(id)) /\ Fails({})
  <2>1. Turns(id)
    BY <1>1, <1>3, AuthenticateFailsTurns, ExpiresTurns
  <2>2. Kept({}) /\ BusInd'
    BY <1>1, <2>1, TurnIsKept
  <2>3. ended' = ended /\ readers' = readers
    BY <2>1 DEF Turns, One
  <2> QED
    BY <1>1, <1>3, <2>2, <2>3, ServerKeeps DEF Fails
<1>4. ASSUME NEW r \in Runs, RecheckFails(id, r), Fails({}) PROVE Ind'
  <2>1. Kept({}) /\ BusInd'
    BY <1>1, <1>4, RecheckIsKept
  <2>2. ended' = ended /\ readers' = readers
    BY <1>4 DEF RecheckFails
  <2> QED
    BY <1>1, <1>4, <2>1, <2>2, ServerKeeps DEF Fails
<1>5. CASE ReadFails(id) /\ Fails({id[1]})
  <2>1. Kept({id[1]}) /\ BusInd'
    BY <1>1, <1>5, ReadFailsIsKept
  <2>2. ended' = ended /\ readers' = readers
    BY <1>5 DEF ReadFails, One
  <2>3. id[1] \in Browsers
    BY <1>1, IdsAre
  <2>4. excused' = excused \cup {id[1]} /\ UNCHANGED <<tabs, setting, begun, reported, announced>>
    BY <1>5 DEF Fails
  <2>5. Onlooking
    BY <2>2, <2>3, <2>4 DEF Ind, WorldInd, Onlooking
  <2> QED
    BY <2>1, <2>2, <2>4, <2>5, KeptKeeps
<1> QED
  BY <1>2, <1>3, <1>4, <1>5

\* Redis refuses a subscribe.
LEMMA RedisFailsKeeps ==
  ASSUME Ind, RedisFails
  PROVE  Ind'
<1>1. SocketInd /\ BusInd /\ excused \subseteq Browsers
  BY DEF Ind, WorldInd
<1>2. Kept({}) /\ BusInd'
  BY <1>1, RedisRefusesIsKept DEF RedisFails
<1>3. ended' = ended /\ readers' = readers
  BY DEF RedisFails, RedisRefuses
<1> QED
  BY <1>1, <1>2, <1>3, ServerKeeps DEF RedisFails, Fails

------------------------------------------------------------------------------
(* What the handlers of a tab make of it. *)

\* A tab that has sent a frame, if it has a socket.
Sends(k, f, n) ==
    /\ n \in Tabs /\ n.wanted = k.wanted /\ n.claimed = k.claimed /\ n.socket = k.socket
    /\ n.asking = k.asking /\ n.awaiting = k.awaiting /\ n.retry = k.retry
    /\ n.told = k.told /\ n.refused = k.refused
    /\ n.out = IF k.socket = "open" THEN Append(k.out, f) ELSE k.out

\* That is what sending does.
LEMMA SendMakes ==
  ASSUME NEW k \in Tabs, NEW f \in UpFrames, NEW n, n = Send(k, f)
  PROVE  Sends(k, f, n)
<1>1. PICK w : w = Append(k.out, f)
  OBVIOUS
<1>2. w \in Seq(UpFrames)
  BY <1>1 DEF Tabs
<1>3. CASE k.socket = "open"
  <2>1. n = [k EXCEPT !.out = w]
    BY <1>1, <1>3 DEF Send
  <2> QED
    BY <1>1, <1>2, <1>3, <2>1 DEF Tabs, Sends
<1>4. CASE k.socket # "open"
  BY <1>4 DEF Send, Sends
<1> QED
  BY <1>3, <1>4

\* A tab whose socket is gone.
Off(k, n) ==
    /\ n \in Tabs /\ n.wanted = k.wanted /\ n.claimed = {} /\ n.socket = "none"
    /\ n.asking = FALSE /\ n.awaiting = FALSE
    /\ n.told = k.told /\ n.refused = k.refused /\ n.out = k.out

\* What a connection had is forgotten.
LEMMA OfflineMakes ==
  ASSUME NEW k \in Tabs, NEW n, n = Offline(k)
  PROVE  Off(k, n) /\ n.retry = k.retry
<1>1. PICK m : m = [k EXCEPT !.socket = "none", !.claimed = {}]
  OBVIOUS
<1>2. /\ m \in Tabs /\ m.wanted = k.wanted /\ m.claimed = {} /\ m.socket = "none" /\ m.retry = k.retry
      /\ m.told = k.told /\ m.refused = k.refused /\ m.out = k.out
  BY <1>1 DEF Tabs
<1>3. n = [m EXCEPT !.asking = FALSE, !.awaiting = FALSE]
  BY <1>1 DEF Offline
<1> QED
  BY <1>2, <1>3 DEF Tabs, Off

\* After a close there is a retry, if there is anything to retry for.
LEMMA OnCloseMakes ==
  ASSUME NEW k \in Tabs, NEW code, NEW n, n = OnClose(k, code)
  PROVE  Off(k, n) /\ (code # "PROTOCOL" /\ k.wanted # {} => n.retry) /\ (n.retry => k.retry \/ k.wanted # {})
<1>1. PICK m : m = Offline(k)
  OBVIOUS
<1>2. Off(k, m) /\ m.retry = k.retry
  BY <1>1, OfflineMakes
<1>3. CASE code = "PROTOCOL"
  BY <1>1, <1>2, <1>3 DEF OnClose
<1>4. CASE code # "PROTOCOL"
  <2>1. PICK w : w = (m.retry \/ m.wanted # {})
    OBVIOUS
  <2>2. w \in BOOLEAN
    BY <1>2, <2>1 DEF Off, Tabs
  <2>3. n = [m EXCEPT !.retry = w]
    BY <1>1, <1>4, <2>1 DEF OnClose, Retry
  <2>4. n \in Tabs /\ n.retry = w
    BY <1>2, <2>2, <2>3 DEF Off, Tabs
  <2>5. Off(k, n)
    BY <1>2, <2>3, <2>4 DEF Off, Tabs
  <2> QED
    BY <1>2, <2>1, <2>4, <2>5 DEF Off
<1> QED
  BY <1>3, <1>4

\* A tab that watches nothing any more.
Gone(k, n) ==
    /\ n \in Tabs /\ n.wanted = {} /\ n.claimed = {} /\ n.socket = "none"
    /\ n.asking = FALSE /\ n.awaiting = FALSE /\ n.retry = FALSE
    /\ n.told = k.told /\ n.refused = k.refused
    /\ k.out = <<>> => \A i \in DOMAIN n.out : n.out[i].type # "authenticate"

\* Who leaves the only run there is leaves the socket.
LEMMA UnwatchMakes ==
  ASSUME NEW k \in Tabs, NEW r \in Runs, k.wanted = {r}, k.claimed \subseteq k.wanted, NEW n, n = Unwatch(k, r)
  PROVE  Gone(k, n)
<1>1. PICK a : a = [k EXCEPT !.wanted = @ \ {r}, !.claimed = @ \ {r}]
  OBVIOUS
<1>2. /\ a \in Tabs /\ a.wanted = {} /\ a.told = k.told /\ a.refused = k.refused /\ a.out = k.out
  BY <1>1 DEF Tabs
<1>3. PICK f, g : f = [type |-> "unsubscribe", run |-> r] /\ g = [type |-> "bye"]
  OBVIOUS
<1>4. f \in UpFrames /\ g \in UpFrames
  BY <1>3 DEF UpFrames
<1>5. PICK s : s = Send(a, f)
  OBVIOUS
<1>6. /\ s \in Tabs /\ s.wanted = {} /\ s.told = k.told /\ s.refused = k.refused
      /\ s.out = IF a.socket = "open" THEN Append(k.out, f) ELSE k.out
  BY <1>2, <1>4, <1>5, SendMakes DEF Sends
<1>7. PICK t : t = Send(s, g)
  OBVIOUS
<1>8. /\ t \in Tabs /\ t.wanted = {} /\ t.told = k.told /\ t.refused = k.refused
      /\ t.out = IF s.socket = "open" THEN Append(s.out, g) ELSE s.out
  BY <1>4, <1>6, <1>7, SendMakes DEF Sends
<1>9. PICK u : u = [t EXCEPT !.retry = FALSE]
  OBVIOUS
<1>10. u \in Tabs /\ u.wanted = {} /\ u.told = k.told /\ u.refused = k.refused /\ u.retry = FALSE /\ u.out = t.out
  BY <1>8, <1>9 DEF Tabs
<1>11. n = Offline(u)
  BY <1>1, <1>3, <1>5, <1>6, <1>7, <1>9 DEF Unwatch, Teardown
<1>12. Off(u, n) /\ n.retry = u.retry
  BY <1>10, <1>11, OfflineMakes
<1>13. ASSUME k.out = <<>>, NEW i \in DOMAIN n.out PROVE n.out[i].type # "authenticate"
  <2>1. PICK v, w : v = s.out /\ w = t.out
    OBVIOUS
  <2>2. v \in Seq(UpFrames) /\ \A j \in DOMAIN v : v[j] = f
    BY <1>4, <1>6, <1>13, <2>1 DEF Tabs
  <2>3. w = v \/ w = Append(v, g)
    BY <1>8, <2>1
  <2>4. \A j \in DOMAIN w : w[j] = f \/ w[j] = g
    BY <1>4, <2>2, <2>3
  <2>5. n.out = w
    BY <1>10, <1>12, <2>1 DEF Off
  <2> QED
    BY <1>3, <1>13, <2>4, <2>5
<1> QED
  BY <1>10, <1>12, <1>13 DEF Off, Gone

\* A tab that claims everything it wants.
Claims(k, n) ==
    /\ n \in Tabs /\ n.wanted = k.wanted /\ n.claimed = k.wanted /\ n.socket = k.socket
    /\ n.asking = k.asking /\ n.awaiting = k.awaiting /\ n.retry = k.retry
    /\ n.told = k.told /\ n.refused = k.refused
    /\ \A i \in DOMAIN n.out : n.out[i].type = "subscribe"
    /\ \A r \in k.wanted \ k.claimed : \E i \in DOMAIN n.out : n.out[i] = [type |-> "subscribe", run |-> r]

\* That is what subscribing to all of it does.
LEMMA SubscribeAllMakes ==
  ASSUME NEW k \in Tabs, k.claimed \subseteq k.wanted, k.socket = "open", k.out = <<>>, NEW n, n = SubscribeAll(k)
  PROVE  Claims(k, n)
<1>1. PICK S : S = k.wanted \ k.claimed
  OBVIOUS
<1>2. S \subseteq Runs /\ IsFiniteSet(S)
  BY <1>1, SettingsAssumption, FS_Subset DEF Tabs
<1>3. PICK q : q = SetToSeq(S)
  OBVIOUS
<1>4. q \in Seq(S) /\ \A x \in S : \E i \in DOMAIN q : q[i] = x
  BY <1>2, <1>3, InOrder
<1>5. PICK w : w = [i \in DOMAIN q |-> [type |-> "subscribe", run |-> q[i]]]
  OBVIOUS
<1>6. DOMAIN q = 1 .. Len(q) /\ Len(q) \in Nat /\ \A i \in DOMAIN q : q[i] \in Runs
  BY <1>2, <1>4
<1>7. \A i \in 1 .. Len(q) : [type |-> "subscribe", run |-> q[i]] \in UpFrames
  BY <1>6 DEF UpFrames
<1>8. w \in Seq(UpFrames)
  BY <1>5, <1>6, <1>7
<1>9. \A i \in DOMAIN w : w[i].type = "subscribe"
  BY <1>5
<1>10. ASSUME NEW r \in S PROVE \E i \in DOMAIN w : w[i] = [type |-> "subscribe", run |-> r]
  <2>1. PICK i \in DOMAIN q : q[i] = r
    BY <1>4
  <2> QED
    BY <1>5, <2>1
<1>11. <<>> \o w = w
  BY <1>8
<1>12. n = [k EXCEPT !.claimed = k.claimed \cup k.wanted, !.out = w]
  BY <1>1, <1>3, <1>5, <1>11 DEF SubscribeAll
<1>13. k.claimed \cup k.wanted = k.wanted
  OBVIOUS
<1>14. n = [k EXCEPT !.claimed = k.wanted, !.out = w]
  BY <1>12, <1>13
<1>15. /\ n \in Tabs /\ n.wanted = k.wanted /\ n.claimed = k.wanted /\ n.socket = k.socket
       /\ n.asking = k.asking /\ n.awaiting = k.awaiting /\ n.retry = k.retry
       /\ n.told = k.told /\ n.refused = k.refused /\ n.out = w
  BY <1>8, <1>14 DEF Tabs
<1> QED
  BY <1>1, <1>9, <1>10, <1>15 DEF Claims

------------------------------------------------------------------------------
(* What a step of a tab does to its connection. *)

\* The process's part of a connection is the same, and nothing more was said.
Inside(o, c) ==
    /\ c.open = o.open /\ c.viewer = o.viewer /\ c.expired = o.expired
    /\ c.busy = o.busy /\ c.asked = o.asked /\ c.found = o.found /\ c.subs = o.subs /\ c.checks = o.checks
    /\ Handles(o, c) /\ \A i \in DOMAIN c.down : \E j \in DOMAIN o.down : c.down[i] = o.down[j]

\* The tab has put its frames on the connection, or has left it.
Spoken(n, c, s) ==
    /\ SameInside(c, s)
    /\ s.up = IF c.open THEN c.up \o n.out ELSE c.up
    /\ s.down = IF n.socket = "open" THEN c.down ELSE <<>>

\* Frames are put behind those that are there.
LEMMA SpeakMakes ==
  ASSUME NEW n \in Tabs, NEW c \in Conns, NEW sent, NEW s,
         sent = IF c.open THEN [c EXCEPT !.up = @ \o n.out] ELSE c,
         s = IF n.socket = "open" THEN sent ELSE [sent EXCEPT !.down = <<>>]
  PROVE  s \in Conns /\ Spoken(n, c, s)
<1>1. PICK w : w = IF c.open THEN c.up \o n.out ELSE c.up
  OBVIOUS
<1>2. c.up \in Seq(UpFrames) /\ n.out \in Seq(UpFrames)
  BY DEF Conns, Tabs
<1>3. w \in Seq(UpFrames)
  BY <1>1, <1>2
<1>4. sent \in Conns /\ SameInside(c, sent) /\ sent.up = w /\ sent.down = c.down
  <2>1. CASE c.open
    <3>1. sent = [c EXCEPT !.up = w]
      BY <1>1, <2>1
    <3> QED
      BY <1>3, <3>1 DEF Conns, SameInside
  <2>2. CASE ~c.open
    BY <1>1, <2>2 DEF SameInside
  <2> QED
    BY <2>1, <2>2
<1>5. PICK d : d = IF n.socket = "open" THEN c.down ELSE <<>>
  OBVIOUS
<1>6. c.down \in Seq(DownFrames) /\ <<>> \in Seq(DownFrames)
  BY DEF Conns
<1>7. d \in Seq(DownFrames)
  BY <1>5, <1>6
<1>8. s \in Conns /\ SameInside(sent, s) /\ s.up = w /\ s.down = d
  <2>1. CASE n.socket = "open"
    BY <1>4, <1>5, <2>1 DEF SameInside
  <2>2. CASE n.socket # "open"
    <3>1. s = [sent EXCEPT !.down = d]
      BY <1>5, <2>2
    <3> QED
      BY <1>4, <1>7, <3>1 DEF Conns, SameInside
  <2> QED
    BY <2>1, <2>2
<1>9. SameInside(c, s)
  BY <1>4, <1>8 DEF SameInside
<1> QED
  BY <1>1, <1>5, <1>8, <1>9 DEF Spoken

\* A tab that speaks for who is at it, if for anybody.
SpeaksFor(n, who) == \A i \in DOMAIN n.out : n.out[i].type = "authenticate" => n.out[i].viewer = who

\* Its frames let nobody else in.
LEMMA SpokenIsClean ==
  ASSUME NEW n \in Tabs, NEW o \in Conns, NEW c \in Conns, NEW s, NEW who, NEW may,
         Clean(o, who, may), Inside(o, c), Spoken(n, c, s), SpeaksFor(n, who)
  PROVE  Clean(s, who, may)
<1>1. /\ s.open = o.open /\ s.viewer = o.viewer /\ s.expired = o.expired /\ s.subs = o.subs /\ s.checks = o.checks
      /\ s.up = IF c.open THEN c.up \o n.out ELSE c.up
      /\ s.down = IF n.socket = "open" THEN c.down ELSE <<>>
  BY DEF Inside, Spoken, SameInside
<1>2. PICK p \in Seq(UpFrames), q \in Seq(UpFrames) : p = c.up /\ q = n.out
  BY DEF Conns, Tabs
<1>3. ASSUME NEW i \in DOMAIN s.up, s.up[i].type = "authenticate" PROVE s.up[i].viewer = who
  <2>1. (\E j \in DOMAIN p : s.up[i] = p[j]) \/ (\E j \in DOMAIN q : s.up[i] = q[j])
    <3>1. CASE c.open
      <4>1. s.up = p \o q
        BY <1>1, <1>2, <3>1
      <4>2. (i \in DOMAIN p /\ s.up[i] = p[i]) \/ (i - Len(p) \in DOMAIN q /\ s.up[i] = q[i - Len(p)])
        BY <1>3, <4>1
      <4> QED
        BY <4>2
    <3>2. CASE ~c.open
      BY <1>1, <1>2, <1>3, <3>2
    <3> QED
      BY <3>1, <3>2
  <2>2. \A j \in DOMAIN p : p[j].type = "authenticate" => p[j].viewer = who
    BY <1>2 DEF Inside, Handles, Clean
  <2>3. \A j \in DOMAIN q : q[j].type = "authenticate" => q[j].viewer = who
    BY <1>2 DEF SpeaksFor
  <2> QED
    BY <1>3, <2>1, <2>2, <2>3
<1>4. \A i \in DOMAIN s.down : s.down[i].type \in {"progress", "complete"} => ~s.down[i].late
  <2>1. CASE n.socket = "open"
    BY <1>1, <2>1 DEF Inside, Clean
  <2>2. CASE n.socket # "open"
    BY <1>1, <2>2
  <2> QED
    BY <2>1, <2>2
<1>5. \A r \in Runs : Timely(o, r, may) => Timely(s, r, may)
  BY <1>1 DEF Timely, Apt
<1> QED
  BY <1>1, <1>3, <1>4, <1>5 DEF Clean

\* What a tab's step leaves: the process and the other tabs as they were.
Spoke(b, n, c) ==
    /\ SocketInd' /\ BusInd' /\ CleanInd'
    /\ \A d \in Browsers : (connections[d] = <<>>) <=> (connections'[d] = <<>>)
    /\ \A d \in Browsers : d # b /\ connections[d] # <<>> => At(Current(d))' = At(Current(d))
    /\ connections[b] # <<>> => \E s \in Conns : At(Current(b))' = s /\ Spoken(n, c, s)

\* A tab speaks to its own connection.
LEMMA TabSpeaks ==
  ASSUME SocketInd, BusInd, CleanInd, NEW b \in Browsers, NEW n \in Tabs, NEW c \in Conns, Tab(b, n, c),
         connections[b] # <<>> => Inside(At(Current(b)), c), SpeaksFor(n, setting.people[b]), setting' = setting
  PROVE  Spoke(b, n, c)
<1>1. Typed
  BY DEF SocketInd
<1>2. bus' = bus /\ ended' = ended /\ readers' = readers
  BY DEF Tab
<1>3. CASE connections[b] = <<>>
  <2>1. connections' = connections
    BY <1>3 DEF Tab
  <2>2. Kept({}) /\ BusInd'
    BY <1>2, <2>1, ConnectionsStand, BusStands
  <2>3. SocketInd' /\ CleanInd'
    BY <1>2, <2>1, <2>2 DEF Kept, SocketInd, CleanInd, At
  <2>4. \A d \in Browsers : At(Current(d))' = At(Current(d))
    BY <2>1 DEF At, Current
  <2> QED
    BY <1>3, <2>1, <2>2, <2>3, <2>4 DEF Spoke
<1>4. CASE connections[b] # <<>>
  <2>1. PICK id \in Ids : id = Current(b)
    BY <1>1, <1>4, CurrentIs
  <2>2. PICK sent : sent = IF c.open THEN [c EXCEPT !.up = @ \o n.out] ELSE c
    OBVIOUS
  <2>3. PICK s : s = IF n.socket = "open" THEN sent ELSE [sent EXCEPT !.down = <<>>]
    OBVIOUS
  <2>4. s \in Conns /\ Spoken(n, c, s)
    BY <2>2, <2>3, SpeakMakes
  <2>5. connections' = Replaced(id, s)
    BY <1>4, <2>1, <2>2, <2>3 DEF Tab
  <2>6. /\ Typed' /\ Ids' = Ids /\ At(id)' = s
        /\ \A jd \in Ids : jd # id => At(jd)' = At(jd)
        /\ \A d \in Browsers : Current(d)' = Current(d) /\ ((connections[d] = <<>>) <=> (connections'[d] = <<>>))
    BY <1>1, <2>4, <2>5, ReplacedMakes
  <2>7. PICK o \in Conns : o = At(id) /\ Sound(o, ended) /\ Inside(o, c)
    BY <1>4, <2>1, AsItIs
  <2>8. /\ s.open = o.open /\ s.busy = o.busy /\ s.asked = o.asked /\ s.found = o.found /\ s.subs = o.subs
        /\ s.checks = o.checks
    BY <2>4, <2>7 DEF Spoken, SameInside, Inside
  <2>9. Sound(s, ended)
    BY <2>7, <2>8 DEF Sound
  <2>10. SocketInd'
    <3>1. \A jd \in Ids : Sound(At(jd)', ended)
      BY <2>6, <2>9 DEF SocketInd
    <3> QED
      BY <1>2, <2>6, <3>1 DEF SocketInd
  <2>11. ASSUME NEW r \in Runs PROVE Unmoved(r)
    <3>1. Opening(s, r) <=> Opening(At(id), r)
      BY <2>7, <2>8 DEF Opening
    <3> QED
      BY <1>1, <2>4, <2>5, <2>7, <2>8, <3>1, OneUnmoved
  <2>12. BusInd'
    BY <1>2, <2>6, <2>11, ViewKeepsBus
  <2>13. CleanInd'
    <3>1. id[1] = b
      BY <2>1 DEF Current
    <3>2. Clean(s, setting.people[id[1]], readers)
      BY <2>4, <2>7, <3>1, SpokenIsClean DEF CleanInd
    <3>3. \A jd \in Ids : Clean(At(jd)', setting.people[jd[1]], readers)
      BY <2>6, <3>2 DEF CleanInd
    <3> QED
      BY <1>2, <2>6, <3>3 DEF CleanInd
  <2>14. ASSUME NEW d \in Browsers, d # b, connections[d] # <<>> PROVE At(Current(d))' = At(Current(d))
    <3>1. PICK jd \in Ids : jd = Current(d)
      BY <1>1, <2>14, CurrentIs
    <3>2. jd # id
      BY <2>1, <2>14, <3>1 DEF Current
    <3>3. At(Current(d))' = At(jd)'
      BY <2>6, <3>1 DEF At
    <3> QED
      BY <2>6, <3>1, <3>2, <3>3
  <2>15. At(Current(b))' = s
    <3>1. At(Current(b))' = At(id)'
      BY <2>1, <2>6 DEF At
    <3> QED
      BY <2>6, <3>1
  <2> QED
    BY <2>4, <2>6, <2>10, <2>12, <2>13, <2>14, <2>15 DEF Spoke
<1> QED
  BY <1>3, <1>4

\* The world of a step of tab b.
Starts(b) ==
    /\ setting' = setting /\ begun' \in [Browsers -> SUBSET Runs]
    /\ b \in DOMAIN setting.people \/ begun' = begun
    /\ \A d \in Browsers : d # b => begun'[d] = begun[d]
    /\ reported' = reported /\ announced' = announced /\ excused' = excused

\* What becomes of a connection that a tab still speaks to.
Speaks(n, c, b) ==
    \A s \in Conns : Spoken(n, c, s) => Linked(n, s) /\ (b \notin excused => Served(n, s, ended))

\* The frames of a tab are on their way: the tab is what it is without them.
LEMMA SilenceIs ==
  ASSUME NEW n \in Tabs, NEW m, m = [n EXCEPT !.out = <<>>]
  PROVE  /\ m \in Tabs /\ m.out = <<>> /\ m.socket = n.socket /\ m.retry = n.retry /\ m.wanted = n.wanted
         /\ \A s : Linked(n, s) => Linked(m, s)
         /\ \A s, done : Served(n, s, done) => Served(m, s, done)
         /\ \A seen : TabSound(n, seen) => TabSound(m, seen)
<1>1. <<>> \in Seq(UpFrames)
  OBVIOUS
<1>2. /\ m \in Tabs /\ m.out = <<>> /\ m.wanted = n.wanted /\ m.claimed = n.claimed /\ m.socket = n.socket
      /\ m.asking = n.asking /\ m.awaiting = n.awaiting /\ m.retry = n.retry
      /\ m.told = n.told /\ m.refused = n.refused
  BY <1>1 DEF Tabs
<1>3. \A s : Linked(n, s) => Linked(m, s)
  BY <1>2 DEF Linked
<1>4. \A s, r, done : Stage(n, s, r, done) => Stage(m, s, r, done)
  BY <1>2 DEF Stage
<1>5. \A s, done : Served(n, s, done) => Served(m, s, done)
  BY <1>2, <1>4 DEF Served
<1>6. \A seen : TabSound(n, seen) => TabSound(m, seen)
  BY <1>2 DEF TabSound
<1> QED
  BY <1>2, <1>3, <1>5, <1>6

\* A step of a tab keeps everything, if it leaves the tab sound and, while the
\* tab has a socket, served.
LEMMA TabKeeps ==
  ASSUME Ind, NEW b \in Browsers, NEW n \in Tabs, NEW c \in Conns, Tab(b, n, c),
         connections[b] # <<>> => Inside(At(Current(b)), c),
         SpeaksFor(n, setting.people[b]), Starts(b), TabSound(n, begun'[b]),
         n.socket = "open" => connections[b] # <<>> /\ Speaks(n, c, b),
         n.socket = "none" /\ b \notin excused => n.retry \/ n.wanted = {}
  PROVE  Ind'
<1>1. SocketInd /\ BusInd /\ TabInd /\ PipeInd /\ WorldInd /\ CleanInd
  BY DEF Ind
<1>2. PICK m : m = [n EXCEPT !.out = <<>>]
  OBVIOUS
<1>3. /\ m \in Tabs /\ m.out = <<>> /\ m.socket = n.socket /\ m.retry = n.retry /\ m.wanted = n.wanted
      /\ \A s : Linked(n, s) => Linked(m, s)
      /\ \A s : Served(n, s, ended) => Served(m, s, ended)
      /\ TabSound(m, begun'[b])
  BY <1>2, SilenceIs
<1>4. tabs' = [tabs EXCEPT ![b] = m] /\ ended' = ended
  BY <1>2 DEF Tab
<1>5. tabs' \in [Browsers -> Tabs] /\ tabs'[b] = m /\ \A d \in Browsers : d # b => tabs'[d] = tabs[d]
  BY <1>1, <1>3, <1>4 DEF TabInd
<1>6. Spoke(b, n, c)
  BY <1>1, TabSpeaks DEF Starts
<1>7. WorldInd'
  BY <1>1, <1>4 DEF WorldInd, Starts
<1>8. TabInd'
  <2>1. ASSUME NEW d \in Browsers
        PROVE  /\ TabSound(tabs'[d], begun'[d]) /\ tabs'[d].out = <<>>
               /\ begun'[d] # {} => d \in DOMAIN setting.people
    <3>1. CASE d = b
      BY <1>1, <1>3, <1>5, <3>1 DEF TabInd, Starts
    <3>2. CASE d # b
      BY <1>1, <1>5, <3>2 DEF TabInd, Starts
    <3> QED
      BY <3>1, <3>2
  <2> QED
    BY <1>5, <2>1 DEF TabInd, Starts
<1>9. PipeInd'
  <2>1. ASSUME NEW d \in Browsers
        PROVE  /\ tabs'[d].socket = "open" => connections'[d] # <<>> /\ Linked(tabs'[d], At(Current(d))')
               /\ d \notin excused =>
                     /\ tabs'[d].socket = "open" => Served(tabs'[d], At(Current(d))', ended)
                     /\ tabs'[d].socket = "none" => tabs'[d].retry \/ tabs'[d].wanted = {}
    <3>1. CASE d = b
      <4>1. ASSUME n.socket = "open"
            PROVE  /\ connections'[b] # <<>> /\ Linked(m, At(Current(b))')
                   /\ b \notin excused => Served(m, At(Current(b))', ended)
        <5>1. connections'[b] # <<>>
          BY <1>6, <4>1 DEF Spoke
        <5>2. PICK s \in Conns : At(Current(b))' = s /\ Spoken(n, c, s)
          BY <1>6, <4>1 DEF Spoke
        <5>3. Linked(n, s) /\ (b \notin excused => Served(n, s, ended))
          BY <4>1, <5>2 DEF Speaks
        <5> QED
          BY <1>3, <5>1, <5>2, <5>3
      <4> QED
        BY <1>3, <1>5, <3>1, <4>1
    <3>2. CASE d # b
      <4>1. tabs[d].socket = "open" => connections[d] # <<>>
        BY <1>1 DEF PipeInd
      <4>2. tabs[d].socket = "open" => connections'[d] # <<>> /\ At(Current(d))' = At(Current(d))
        BY <1>6, <3>2, <4>1 DEF Spoke
      <4> QED
        BY <1>1, <1>5, <3>2, <4>2 DEF PipeInd
    <3> QED
      BY <3>1, <3>2
  <2> QED
    BY <1>4, <2>1 DEF PipeInd, Starts
<1> QED
  BY <1>6, <1>7, <1>8, <1>9 DEF Ind, Spoke

------------------------------------------------------------------------------
(* The steps of the tabs. *)

\* What there is of a tab before its step.
LEMMA TabIs ==
  ASSUME Ind, NEW b \in Browsers
  PROVE  /\ tabs[b] \in Tabs /\ TabSound(tabs[b], begun[b]) /\ tabs[b].out = <<>>
         /\ Connection(b) \in Conns
         /\ connections[b] # <<>> => Connection(b) = At(Current(b)) /\ Inside(At(Current(b)), Connection(b))
         /\ tabs[b].socket = "open" => connections[b] # <<>> /\ Linked(tabs[b], Connection(b))
         /\ tabs[b].socket = "open" /\ b \notin excused => Served(tabs[b], Connection(b), ended)
         /\ tabs[b].socket = "none" /\ b \notin excused => tabs[b].retry \/ tabs[b].wanted = {}
<1>1. SocketInd /\ TabInd /\ PipeInd /\ Typed
  BY DEF Ind, SocketInd
<1>2. connections[b] # <<>> => Connection(b) = At(Current(b)) /\ At(Current(b)) \in Conns
  BY <1>1, CurrentIs
<1>3. connections[b] = <<>> => Connection(b) \in Conns
  BY AcceptedIs DEF Connection
<1>4. \A o : Inside(o, o)
  BY DEF Inside, Handles
<1> QED
  BY <1>1, <1>2, <1>3, <1>4 DEF TabInd, PipeInd

\* A step after which the tab watches what it has watched.
LEMMA StandingStarts ==
  ASSUME Ind, NEW b \in Browsers, UNCHANGED <<setting, begun, reported, announced, excused>>
  PROVE  Starts(b) /\ begun'[b] = begun[b]
BY DEF Ind, TabInd, Starts

\* A watch is given up, and with it the socket.
LEMMA LeavingKeeps ==
  ASSUME Ind, NEW b \in Browsers, NEW r \in tabs[b].wanted, Tab(b, Unwatch(tabs[b], r), Connection(b)),
         UNCHANGED <<setting, begun, reported, announced, excused>>
  PROVE  Ind'
<1>1. PICK k \in Tabs : k = tabs[b] /\ TabSound(k, begun[b]) /\ k.out = <<>>
  BY TabIs
<1>2. r \in Runs /\ k.wanted = {r} /\ k.claimed \subseteq k.wanted
  BY <1>1 DEF TabSound, Tabs
<1>3. PICK n : n = Unwatch(k, r)
  OBVIOUS
<1>4. Gone(k, n)
  BY <1>2, <1>3, UnwatchMakes
<1>5. Starts(b) /\ begun'[b] = begun[b]
  BY StandingStarts
<1>6. TabSound(n, begun'[b])
  BY <1>1, <1>4, <1>5 DEF TabSound, Gone
<1>7. n \in Tabs /\ n.socket = "none" /\ n.wanted = {}
  BY <1>4 DEF Gone
<1>8. PICK c \in Conns : c = Connection(b)
  BY TabIs
<1>9. connections[b] # <<>> => Inside(At(Current(b)), c)
  BY <1>8, TabIs
<1>10. Tab(b, n, c)
  BY <1>1, <1>3, <1>8
<1>11. SpeaksFor(n, setting.people[b])
  BY <1>1, <1>4 DEF Gone, SpeaksFor
<1> QED
  BY <1>5, <1>6, <1>7, <1>9, <1>10, <1>11, TabKeeps

\* When the run was read.
LEMMA WatchEndsKeeps ==
  ASSUME Ind, WatchEnds
  PROVE  Ind'
<1>1. PICK b \in Browsers : \E r \in tabs[b].wanted : Tab(b, Unwatch(tabs[b], r), Connection(b)) /\ World
  BY DEF WatchEnds
<1>2. PICK r \in tabs[b].wanted : Tab(b, Unwatch(tabs[b], r), Connection(b)) /\ World
  BY <1>1
<1>3. UNCHANGED <<setting, begun, reported, announced, excused>>
  BY <1>2 DEF World, worldVars
<1> QED
  BY <1>2, <1>3, LeavingKeeps

\* And before.
LEMMA WatchIsLeftKeeps ==
  ASSUME Ind, WatchIsLeft
  PROVE  Ind'
<1>1. PICK b \in Browsers : \E r \in tabs[b].wanted :
         /\ UNCHANGED <<setting, begun, reported, announced, excused>>
         /\ Tab(b, Unwatch(tabs[b], r), Connection(b))
  BY DEF WatchIsLeft
<1>2. PICK r \in tabs[b].wanted :
         /\ UNCHANGED <<setting, begun, reported, announced, excused>>
         /\ Tab(b, Unwatch(tabs[b], r), Connection(b))
  BY <1>1
<1> QED
  BY <1>2, LeavingKeeps

\* A run is watched, and a socket is opened for it.
LEMMA WatchStartsKeeps ==
  ASSUME Ind, WatchStarts
  PROVE  Ind'
<1>1. PICK b \in DOMAIN setting.people, r \in setting.runs :
         /\ tabs[b].wanted = {} /\ r \notin begun[b]
         /\ Tab(b, Watch(tabs[b], r), Connection(b))
         /\ begun' = [begun EXCEPT ![b] = @ \cup {r}]
         /\ UNCHANGED <<setting, reported, announced, excused>>
  BY DEF WatchStarts
<1>2. b \in Browsers /\ r \in Runs
  BY SettingIs DEF Ind
<1>3. PICK k \in Tabs : k = tabs[b] /\ TabSound(k, begun[b]) /\ k.out = <<>>
  BY <1>2, TabIs
<1>4. k.wanted = {} /\ k.claimed = {} /\ k.socket = "none" /\ k.asking = FALSE /\ k.awaiting = FALSE
  BY <1>1, <1>3 DEF TabSound, Tabs
<1>5. PICK a : a = [k EXCEPT !.wanted = {r}]
  OBVIOUS
<1>6. /\ a \in Tabs /\ a.wanted = {r} /\ a.claimed = {} /\ a.socket = "none" /\ a.asking = FALSE /\ a.awaiting = FALSE
      /\ a.told = k.told /\ a.refused = k.refused /\ a.out = k.out
  BY <1>2, <1>4, <1>5 DEF Tabs
<1>7. PICK n : n = [a EXCEPT !.retry = FALSE, !.socket = "opening"]
  OBVIOUS
<1>8. /\ n \in Tabs /\ n.wanted = {r} /\ n.claimed = {} /\ n.socket = "opening" /\ n.asking = FALSE /\ n.awaiting = FALSE
      /\ n.told = k.told /\ n.refused = k.refused /\ n.out = k.out
  BY <1>6, <1>7 DEF Tabs
<1>9. Watch(k, r) = n
  <2>1. [k EXCEPT !.wanted = @ \cup {r}] = a
    BY <1>4, <1>5
  <2> QED
    BY <1>6, <1>7, <2>1 DEF Watch, Connect
<1>10. begun \in [Browsers -> SUBSET Runs]
  BY DEF Ind, TabInd
<1>11. /\ begun' \in [Browsers -> SUBSET Runs] /\ begun'[b] = begun[b] \cup {r}
       /\ \A d \in Browsers : d # b => begun'[d] = begun[d]
  BY <1>1, <1>2, <1>10
<1>12. Starts(b)
  BY <1>1, <1>11 DEF Starts
<1>13. TabSound(n, begun'[b])
  <2>1. k.told \subseteq begun[b] /\ k.refused \subseteq begun[b]
    BY <1>3 DEF TabSound
  <2> QED
    BY <1>1, <1>2, <1>8, <1>11, <2>1 DEF TabSound
<1>14. PICK c \in Conns : c = Connection(b)
  BY <1>2, TabIs
<1>15. connections[b] # <<>> => Inside(At(Current(b)), c)
  BY <1>2, <1>14, TabIs
<1>16. Tab(b, n, c)
  BY <1>1, <1>3, <1>9, <1>14
<1>17. SpeaksFor(n, setting.people[b])
  BY <1>3, <1>8 DEF SpeaksFor
<1> QED
  BY <1>2, <1>8, <1>12, <1>13, <1>15, <1>16, <1>17, TabKeeps

\* A tab whose socket has gone, and that tries again if the feed still owes it
\* what it wants.
LEMMA ClosingKeeps ==
  ASSUME Ind, NEW b \in Browsers, NEW c \in Conns, NEW code, Tab(b, OnClose(tabs[b], code), c),
         UNCHANGED <<setting, begun, reported, announced, excused>>,
         tabs[b].socket # "none", connections[b] # <<>> => Inside(At(Current(b)), c),
         b \notin excused => code # "PROTOCOL"
  PROVE  Ind'
<1>1. PICK k \in Tabs : k = tabs[b] /\ TabSound(k, begun[b]) /\ k.out = <<>>
  BY TabIs
<1>2. k.wanted # {}
  BY <1>1 DEF TabSound
<1>3. PICK n : n = OnClose(k, code)
  OBVIOUS
<1>4. Off(k, n) /\ (code # "PROTOCOL" => n.retry)
  BY <1>2, <1>3, OnCloseMakes
<1>5. Starts(b) /\ begun'[b] = begun[b]
  BY StandingStarts
<1>6. TabSound(n, begun'[b])
  BY <1>1, <1>2, <1>4, <1>5 DEF TabSound, Off
<1>7. n \in Tabs /\ n.socket = "none"
  BY <1>4 DEF Off
<1>8. Tab(b, n, c)
  BY <1>1, <1>3
<1>9. SpeaksFor(n, setting.people[b])
  BY <1>1, <1>4 DEF Off, SpeaksFor
<1> QED
  BY <1>4, <1>5, <1>6, <1>7, <1>8, <1>9, TabKeeps

\* A connection that a tab's step does not change.
LEMMA StillSpoken ==
  ASSUME NEW n \in Tabs, NEW c \in Conns, NEW s \in Conns, n.out = <<>>, n.socket = "open", Spoken(n, c, s)
  PROVE  /\ Linked(n, c) => Linked(n, s)
         /\ \A done : Served(n, c, done) => Served(n, s, done)
<1>1. c.up \in Seq(UpFrames)
  BY DEF Conns
<1>2. SameInside(c, s) /\ s.up = c.up /\ s.down = c.down
  BY <1>1 DEF Spoken
<1>3. Linked(n, c) => Linked(n, s)
  BY <1>2 DEF Linked, Closing, SameInside
<1>4. Answering(c) => Answering(s)
  BY <1>2 DEF Answering, Hears
<1>5. \A r, done : Stage(n, c, r, done) => Stage(n, s, r, done)
  BY <1>2 DEF Stage, Asks, Hears, Completes, SameInside
<1>6. \A done : Served(n, c, done) => Served(n, s, done)
  BY <1>2, <1>4, <1>5 DEF Served, SameInside
<1> QED
  BY <1>3, <1>6

\* The timer of a retry fires.
LEMMA RetryFiresKeeps ==
  ASSUME Ind, RetryFires
  PROVE  Ind'
<1>1. PICK b \in Browsers : tabs[b].retry /\ Tab(b, Connect(tabs[b]), Connection(b)) /\ World
  BY DEF RetryFires
<1>2. PICK k \in Tabs : k = tabs[b] /\ TabSound(k, begun[b]) /\ k.out = <<>>
  BY TabIs
<1>3. UNCHANGED <<setting, begun, reported, announced, excused>>
  BY <1>1 DEF World, worldVars
<1>4. Starts(b) /\ begun'[b] = begun[b]
  BY <1>3, StandingStarts
<1>5. PICK w : w = IF k.socket = "none" THEN "opening" ELSE k.socket
  OBVIOUS
<1>6. w \in {"opening", "open"}
  BY <1>5 DEF Tabs
<1>7. PICK n : n = [k EXCEPT !.retry = FALSE, !.socket = w]
  OBVIOUS
<1>8. /\ n \in Tabs /\ n.wanted = k.wanted /\ n.claimed = k.claimed /\ n.socket = w /\ n.asking = k.asking
      /\ n.awaiting = k.awaiting /\ n.told = k.told /\ n.refused = k.refused /\ n.out = k.out
  BY <1>6, <1>7 DEF Tabs
<1>9. Connect(k) = n
  BY <1>5, <1>7 DEF Connect
<1>10. k.wanted # {}
  BY <1>1, <1>2 DEF TabSound
<1>11. w = "open" <=> k.socket = "open"
  BY <1>5
<1>12. TabSound(n, begun'[b])
  BY <1>2, <1>4, <1>8, <1>10, <1>11 DEF TabSound
<1>13. PICK c \in Conns : c = Connection(b)
  BY TabIs
<1>14. connections[b] # <<>> => Inside(At(Current(b)), c)
  BY <1>13, TabIs
<1>15. Tab(b, n, c)
  BY <1>1, <1>2, <1>9, <1>13
<1>16. ASSUME n.socket = "open" PROVE connections[b] # <<>> /\ Speaks(n, c, b)
  <2>1. k.socket = "open"
    BY <1>8, <1>11, <1>16
  <2>2. connections[b] # <<>> /\ Linked(k, c) /\ (b \notin excused => Served(k, c, ended))
    BY <1>2, <1>13, <2>1, TabIs
  <2>3. Linked(n, c)
    BY <1>8, <2>2 DEF Linked
  <2>4. \A r : Stage(k, c, r, ended) => Stage(n, c, r, ended)
    BY <1>8 DEF Stage
  <2>5. b \notin excused => Served(n, c, ended)
    BY <1>8, <2>2, <2>4 DEF Served
  <2>6. Speaks(n, c, b)
    BY <1>2, <1>8, <1>16, <2>3, <2>5, StillSpoken DEF Speaks
  <2> QED
    BY <2>2, <2>6
<1>17. n.socket # "none"
  BY <1>6, <1>8
<1>18. SpeaksFor(n, setting.people[b])
  BY <1>2, <1>8 DEF SpeaksFor
<1> QED
  BY <1>4, <1>8, <1>12, <1>14, <1>15, <1>16, <1>17, <1>18, TabKeeps

\* A socket opens: a new connection, and nobody has authenticated yet.
LEMMA SocketOpensKeeps ==
  ASSUME Ind, SocketOpens
  PROVE  Ind'
<1>1. PICK b \in Browsers :
         /\ tabs[b].socket = "opening"
         /\ tabs' = [tabs EXCEPT ![b] = OnOpen(@)]
         /\ connections' = [connections EXCEPT ![b] = Append(@, Accepted)]
         /\ UNCHANGED <<bus, readers, ended>> /\ World
  BY DEF SocketOpens
<1>2. SocketInd /\ BusInd /\ TabInd /\ PipeInd /\ WorldInd /\ Typed
  BY DEF Ind, SocketInd
<1>3. UNCHANGED <<setting, begun, reported, announced, excused, ended, bus>>
  BY <1>1 DEF World, worldVars
<1>4. PICK row \in Seq(Conns) : row = connections[b]
  BY <1>2 DEF Typed
<1>5. PICK a \in Conns : a = Accepted
  BY AcceptedIs
<1>6. PICK new : new = Append(row, a)
  OBVIOUS
<1>7. /\ new \in Seq(Conns) /\ Len(new) = Len(row) + 1 /\ DOMAIN new = DOMAIN row \cup {Len(row) + 1}
      /\ new[Len(row) + 1] = a /\ \A n \in DOMAIN row : new[n] = row[n]
      /\ Len(row) + 1 \notin DOMAIN row
  BY <1>4, <1>6
<1>8. /\ connections' \in [Browsers -> Seq(Conns)] /\ connections'[b] = new
      /\ \A d \in Browsers : d # b => connections'[d] = connections[d]
  BY <1>1, <1>2, <1>4, <1>5, <1>6, <1>7 DEF Typed
<1>9. Typed'
  BY <1>8 DEF Typed
<1>10. /\ Ids \subseteq Ids'
       /\ \A id \in Ids : At(id)' = At(id)
  <2>1. ASSUME NEW id \in Ids PROVE id \in Ids' /\ At(id)' = At(id)
    <3>1. id[1] \in Browsers /\ id[2] \in DOMAIN connections[id[1]] /\ id = <<id[1], id[2]>>
      BY <1>2, IdsAre
    <3>2. id[2] \in DOMAIN connections'[id[1]] /\ connections'[id[1]][id[2]] = connections[id[1]][id[2]]
      BY <1>4, <1>7, <1>8, <3>1
    <3>3. id \in {<<id[1], n>> : n \in DOMAIN connections'[id[1]]}
      BY <3>1, <3>2
    <3> QED
      BY <3>1, <3>2, <3>3 DEF Ids, At
  <2> QED
    BY <2>1
<1>11. ASSUME NEW id \in Ids', id \notin Ids PROVE At(id)' = a
  <2>1. PICK d \in Browsers : id \in {<<d, n>> : n \in DOMAIN connections'[d]}
    BY DEF Ids
  <2>2. PICK n \in DOMAIN connections'[d] : id = <<d, n>>
    BY <2>1
  <2>3. n \notin DOMAIN connections[d]
    BY <1>2, <1>11, <2>2, IdsAre
  <2>4. d = b /\ n = Len(row) + 1
    BY <1>4, <1>7, <1>8, <2>2, <2>3
  <2> QED
    BY <1>7, <1>8, <2>2, <2>4 DEF At
<1>12. /\ a.open /\ ~a.lost /\ a.busy = "idle" /\ a.found = "nothing" /\ a.up = <<>> /\ a.viewer = Anonymous
       /\ a.down = <<[type |-> "ready", viewer |-> Anonymous]>>
       /\ \A r \in Runs : a.subs[r].at = "none" /\ a.subs[r].queue = <<>> /\ a.checks[r].waiting = <<>>
  BY <1>5, AcceptedIs, NoneIs, NoCheckIs
<1>13. SocketInd'
  <2>1. Sound(a, ended)
    BY <1>12 DEF Sound
  <2>2. ASSUME NEW id \in Ids' PROVE Sound(At(id)', ended)
    <3>1. CASE id \in Ids
      BY <1>2, <1>10, <3>1 DEF SocketInd
    <3>2. CASE id \notin Ids
      BY <1>11, <2>1, <3>2
    <3> QED
      BY <3>1, <3>2
  <2> QED
    BY <1>3, <1>9, <2>2 DEF SocketInd
<1>14. BusInd'
  <2>1. \A r \in Runs : Unmoved(r)
    BY <1>10, <1>11, <1>12 DEF Unmoved, Opening
  <2> QED
    BY <1>2, <1>3, <1>10, <2>1, ViewKeepsBus
<1>15. PICK k \in Tabs : k = tabs[b] /\ TabSound(k, begun[b]) /\ k.out = <<>>
  BY <1>2 DEF TabInd
<1>16. PICK n : n = [k EXCEPT !.socket = "open", !.asking = TRUE]
  OBVIOUS
<1>17. /\ n \in Tabs /\ n.wanted = k.wanted /\ n.claimed = k.claimed /\ n.socket = "open" /\ n.asking = TRUE
       /\ n.awaiting = k.awaiting /\ n.told = k.told /\ n.refused = k.refused /\ n.out = k.out
  BY <1>16 DEF Tabs
<1>18. k.socket = "opening" /\ k.claimed = {} /\ ~k.awaiting /\ k.wanted # {}
  BY <1>1, <1>15 DEF TabSound
<1>19. /\ tabs' \in [Browsers -> Tabs] /\ tabs'[b] = n
       /\ \A d \in Browsers : d # b => tabs'[d] = tabs[d]
  <2>1. tabs' = [tabs EXCEPT ![b] = n]
    BY <1>1, <1>15, <1>16 DEF OnOpen
  <2> QED
    BY <1>2, <1>17, <2>1 DEF TabInd
<1>20. TabInd'
  <2>1. TabSound(n, begun[b])
    BY <1>15, <1>17, <1>18 DEF TabSound
  <2>2. ASSUME NEW d \in Browsers PROVE TabSound(tabs'[d], begun[d]) /\ tabs'[d].out = <<>>
    BY <1>2, <1>15, <1>17, <1>19, <2>1 DEF TabInd
  <2> QED
    BY <1>2, <1>3, <1>19, <2>2 DEF TabInd
<1>21. Linked(n, a) /\ Served(n, a, ended)
  <2>1. Linked(n, a)
    BY <1>12 DEF Linked
  <2>2. \A i \in DOMAIN a.down : a.down[i].type # "close"
    BY <1>12
  <2> QED
    BY <1>17, <1>18, <2>1, <2>2 DEF Served
<1>22. connections'[b] # <<>> /\ At(Current(b))' = a
  <2>1. Current(b)' = <<b, Len(row) + 1>>
    BY <1>7, <1>8 DEF Current
  <2>2. At(Current(b))' = connections'[b][Len(row) + 1]
    BY <2>1 DEF At
  <2> QED
    BY <1>7, <1>8, <2>2
<1>23. \A d \in Browsers : d # b => At(Current(d))' = At(Current(d))
  BY <1>8 DEF At, Current
<1>24. PipeInd'
  <2>1. ASSUME NEW d \in Browsers
        PROVE  /\ tabs'[d].socket = "open" => connections'[d] # <<>> /\ Linked(tabs'[d], At(Current(d))')
               /\ d \notin excused =>
                     /\ tabs'[d].socket = "open" => Served(tabs'[d], At(Current(d))', ended)
                     /\ tabs'[d].socket = "none" => tabs'[d].retry \/ tabs'[d].wanted = {}
    <3>1. CASE d = b
      BY <1>17, <1>19, <1>21, <1>22, <3>1
    <3>2. CASE d # b
      BY <1>2, <1>8, <1>19, <1>23, <3>2 DEF PipeInd
    <3> QED
      BY <3>1, <3>2
  <2> QED
    BY <1>3, <2>1 DEF PipeInd
<1>25. WorldInd'
  BY <1>2, <1>3 DEF WorldInd
<1>26. CleanInd'
  <2>1. \A who : Clean(a, who, readers)
    BY <1>12 DEF Clean, Timely
  <2>2. ASSUME NEW id \in Ids' PROVE Clean(At(id)', setting.people[id[1]], readers)
    <3>1. CASE id \in Ids
      BY <1>10, <3>1 DEF Ind, CleanInd
    <3>2. CASE id \notin Ids
      BY <1>11, <2>1, <3>2
    <3> QED
      BY <3>1, <3>2
  <2> QED
    BY <1>1, <1>3, <2>2 DEF CleanInd
<1> QED
  BY <1>13, <1>14, <1>20, <1>24, <1>25, <1>26 DEF Ind

\* The frames of p and those of q.
Both(p, q, w) ==
    /\ \A i \in DOMAIN w : (\E j \in DOMAIN p : w[i] = p[j]) \/ (\E j \in DOMAIN q : w[i] = q[j])
    /\ \A j \in DOMAIN p : \E i \in DOMAIN w : w[i] = p[j]
    /\ \A j \in DOMAIN q : \E i \in DOMAIN w : w[i] = q[j]

\* Frames behind frames are all of them.
LEMMA BothAreThere ==
  ASSUME NEW p \in Seq(UpFrames), NEW q \in Seq(UpFrames), NEW w, w = p \o q
  PROVE  Both(p, q, w)
<1>1. /\ \A i \in DOMAIN w : (i \in DOMAIN p /\ w[i] = p[i]) \/ (i - Len(p) \in DOMAIN q /\ w[i] = q[i - Len(p)])
      /\ \A j \in DOMAIN p : j \in DOMAIN w /\ w[j] = p[j]
  OBVIOUS
<1>2. \A j \in DOMAIN q : Len(p) + j \in DOMAIN w /\ w[Len(p) + j] = q[j]
  OBVIOUS
<1> QED
  BY <1>1, <1>2 DEF Both

\* What is served of a tab that goes on to claim all it wants.
Half(k, c, done) ==
    /\ \A i \in DOMAIN c.down : c.down[i].type = "close" => c.down[i].code # "PROTOCOL"
    /\ c.open => /\ k.awaiting => Answering(c)
                 /\ \A r \in k.claimed : Stage(k, c, r, done)

\* What becomes of a connection when frames that end nothing are sent.
LEMMA SendingServes ==
  ASSUME NEW k \in Tabs, NEW c \in Conns, Linked(k, c), NEW n \in Tabs, n.socket = "open",
         n.wanted = k.wanted, n.told = k.told,
         \A i \in DOMAIN n.out : n.out[i].type \in {"subscribe", "authenticate"},
         NEW s \in Conns, Spoken(n, c, s)
  PROVE  /\ Linked(n, s) /\ s.open = c.open /\ s.down = c.down
         /\ Answering(c) => Answering(s)
         /\ \A r, done : Stage(k, c, r, done) => Stage(n, s, r, done)
         /\ s.open => \A i \in DOMAIN n.out : \E j \in DOMAIN s.up : s.up[j] = n.out[i]
<1>1. PICK p \in Seq(UpFrames), q \in Seq(UpFrames) : p = c.up /\ q = n.out
  BY DEF Conns, Tabs
<1>2. /\ SameInside(c, s) /\ s.down = c.down
      /\ c.open => s.up = p \o q
      /\ ~c.open => s.up = p
  BY <1>1 DEF Spoken
<1>3. CASE ~c.open
  <2>1. /\ s.open = c.open /\ s.lost = c.lost /\ s.busy = c.busy /\ s.asked = c.asked
        /\ s.subs = c.subs /\ s.up = c.up /\ s.down = c.down /\ ~s.open
    BY <1>1, <1>2, <1>3 DEF SameInside
  <2>2. Linked(n, s)
    BY <2>1 DEF Linked, Closing
  <2>3. Answering(c) => Answering(s)
    BY <2>1 DEF Answering, Hears
  <2>4. \A r, done : Stage(k, c, r, done) => Stage(n, s, r, done)
    BY <2>1 DEF Stage, Asks, Hears, Completes
  <2> QED
    BY <2>1, <2>2, <2>3, <2>4
<1>4. CASE c.open
  <2>1. PICK w : w = s.up
    OBVIOUS
  <2>2. Both(p, q, w)
    BY <1>2, <1>4, <2>1, BothAreThere
  <2>3. Linked(n, s)
    <3>1. ~s.lost /\ s.open
      BY <1>2, <1>4 DEF Linked, SameInside
    <3>2. ASSUME NEW i \in DOMAIN w
          PROVE  w[i].type # "bye" /\ (w[i].type = "unsubscribe" => w[i].run \notin n.wanted)
      <4>1. CASE \E j \in DOMAIN p : w[i] = p[j]
        BY <1>1, <4>1 DEF Linked
      <4>2. CASE \E j \in DOMAIN q : w[i] = q[j]
        BY <1>1, <4>2
      <4> QED
        BY <2>2, <3>2, <4>1, <4>2 DEF Both
    <3> QED
      BY <2>1, <3>1, <3>2 DEF Linked
  <2>4. \A f : Hears(c, f) => Hears(s, f)
    BY <1>2 DEF Hears
  <2>5. Answering(c) => Answering(s)
    <3>1. ASSUME NEW i \in DOMAIN p, p[i].type = "authenticate" PROVE Answering(s)
      <4>1. PICK j \in DOMAIN w : w[j] = p[i]
        BY <2>2 DEF Both
      <4> QED
        BY <2>1, <3>1, <4>1 DEF Answering
    <3>2. ASSUME NEW i \in DOMAIN c.down, c.down[i].type = "ready", c.down[i].viewer # Anonymous PROVE Answering(s)
      BY <1>2, <3>2 DEF Answering
    <3> QED
      BY <1>1, <2>4, <3>1, <3>2 DEF Answering
  <2>6. \A f : Asks(c, f) => Asks(s, f)
    BY <1>1, <2>1, <2>2 DEF Asks, Both
  <2>7. \A r, done : Stage(k, c, r, done) => Stage(n, s, r, done)
    BY <1>2, <2>4, <2>6 DEF Stage, SameInside, Completes
  <2>8. \A i \in DOMAIN n.out : \E j \in DOMAIN s.up : s.up[j] = n.out[i]
    BY <1>1, <2>1, <2>2 DEF Both
  <2> QED
    BY <1>2, <2>3, <2>5, <2>7, <2>8 DEF SameInside
<1> QED
  BY <1>3, <1>4

\* A tab claims all it wants.
LEMMA ClaimingKeeps ==
  ASSUME Ind, NEW b \in Browsers, connections[b] # <<>>, NEW k \in Tabs, NEW c \in Conns,
         k.socket = "open", k.out = <<>>, TabSound(k, begun[b]),
         Inside(At(Current(b)), c), Linked(k, c), b \notin excused => Half(k, c, ended),
         Tab(b, SubscribeAll(k), c),
         UNCHANGED <<setting, begun, reported, announced, excused>>
  PROVE  Ind'
<1>1. PICK n : n = SubscribeAll(k)
  OBVIOUS
<1>2. Claims(k, n)
  BY <1>1, SubscribeAllMakes DEF TabSound
<1>3. Starts(b) /\ begun'[b] = begun[b]
  BY StandingStarts
<1>4. TabSound(n, begun'[b])
  BY <1>2, <1>3 DEF TabSound, Claims
<1>5. n \in Tabs /\ n.socket = "open"
  BY <1>2 DEF Claims
<1>6. ASSUME NEW s \in Conns, Spoken(n, c, s)
      PROVE  Linked(n, s) /\ (b \notin excused => Served(n, s, ended))
  <2>1. /\ Linked(n, s) /\ s.open = c.open /\ s.down = c.down
        /\ Answering(c) => Answering(s)
        /\ \A r : Stage(k, c, r, ended) => Stage(n, s, r, ended)
        /\ s.open => \A i \in DOMAIN n.out : \E j \in DOMAIN s.up : s.up[j] = n.out[i]
    BY <1>2, <1>5, <1>6, SendingServes DEF Claims
  <2>2. ASSUME b \notin excused, s.open, NEW r \in n.claimed PROVE Stage(n, s, r, ended)
    <3>1. CASE r \in k.claimed
      BY <2>1, <2>2, <3>1 DEF Half
    <3>2. CASE r \notin k.claimed
      <4>1. PICK i \in DOMAIN n.out : n.out[i] = [type |-> "subscribe", run |-> r]
        BY <1>2, <2>2, <3>2 DEF Claims
      <4>2. Asks(s, [type |-> "subscribe", run |-> r])
        BY <2>1, <2>2, <4>1 DEF Asks
      <4> QED
        BY <4>2 DEF Stage
    <3> QED
      BY <3>1, <3>2
  <2>3. b \notin excused => Served(n, s, ended)
    BY <1>2, <2>1, <2>2 DEF Served, Half, Claims
  <2> QED
    BY <2>1, <2>3
<1>7. Speaks(n, c, b)
  BY <1>6 DEF Speaks
<1>8. Tab(b, n, c)
  BY <1>1
<1>9. SpeaksFor(n, setting.people[b])
  BY <1>2 DEF Claims, SpeaksFor
<1> QED
  BY <1>3, <1>4, <1>5, <1>7, <1>8, <1>9, TabKeeps

\* The token of a tab is there, or it has none.
LEMMA TokenKeeps ==
  ASSUME Ind, NEW b \in Browsers, tabs[b].asking, NEW viewer \in Viewers, viewer \in {Anonymous, setting.people[b]},
         Tab(b, OnToken(tabs[b], viewer), Connection(b)),
         UNCHANGED <<setting, begun, reported, announced, excused>>
  PROVE  Ind'
<1>1. PICK k \in Tabs : k = tabs[b] /\ TabSound(k, begun[b]) /\ k.out = <<>>
  BY TabIs
<1>2. PICK c \in Conns : c = Connection(b)
  BY TabIs
<1>3. k.socket = "open" /\ k.wanted # {}
  BY <1>1 DEF TabSound
<1>4. /\ connections[b] # <<>> /\ Inside(At(Current(b)), c) /\ Linked(k, c)
      /\ b \notin excused => Served(k, c, ended)
  BY <1>1, <1>2, <1>3, TabIs
<1>5. PICK a : a = [k EXCEPT !.asking = FALSE]
  OBVIOUS
<1>6. /\ a \in Tabs /\ a.wanted = k.wanted /\ a.claimed = k.claimed /\ a.socket = "open" /\ a.asking = FALSE
      /\ a.awaiting = k.awaiting /\ a.retry = k.retry /\ a.told = k.told /\ a.refused = k.refused /\ a.out = <<>>
  BY <1>1, <1>3, <1>5 DEF Tabs
<1>7. TabSound(a, begun[b])
  BY <1>1, <1>6 DEF TabSound
<1>8. Linked(a, c) /\ \A r : Stage(k, c, r, ended) => Stage(a, c, r, ended)
  BY <1>4, <1>6 DEF Linked, Stage
<1>9. CASE viewer = Anonymous
  <2>1. Tab(b, SubscribeAll(a), c)
    BY <1>1, <1>2, <1>5, <1>9 DEF OnToken
  <2>2. b \notin excused => Half(a, c, ended)
    BY <1>4, <1>6, <1>8 DEF Served, Half
  <2> QED
    BY <1>4, <1>6, <1>7, <1>8, <2>1, <2>2, ClaimingKeeps
<1>10. CASE viewer # Anonymous
  <2>1. PICK d : d = [a EXCEPT !.awaiting = TRUE]
    OBVIOUS
  <2>2. /\ d \in Tabs /\ d.wanted = k.wanted /\ d.claimed = k.claimed /\ d.socket = "open" /\ d.asking = FALSE
        /\ d.awaiting = TRUE /\ d.retry = k.retry /\ d.told = k.told /\ d.refused = k.refused /\ d.out = <<>>
    BY <1>6, <2>1 DEF Tabs
  <2>3. PICK f : f = [type |-> "authenticate", viewer |-> viewer]
    OBVIOUS
  <2>4. f \in UpFrames /\ f.type = "authenticate"
    BY <1>10, <2>3 DEF UpFrames
  <2>5. PICK n : n = Send(d, f)
    OBVIOUS
  <2>6. /\ n \in Tabs /\ n.wanted = k.wanted /\ n.claimed = k.claimed /\ n.socket = "open"
        /\ n.asking = FALSE /\ n.awaiting = TRUE /\ n.retry = k.retry
        /\ n.told = k.told /\ n.refused = k.refused
        /\ n.out = Append(<<>>, f)
    <3>1. Sends(d, f, n)
      BY <2>2, <2>4, <2>5, SendMakes
    <3> QED
      BY <2>2, <3>1 DEF Sends
  <2>7. \A i \in DOMAIN n.out : n.out[i] = f
    BY <2>6
  <2>8. 1 \in DOMAIN n.out
    BY <2>6
  <2>9. Tab(b, n, c)
    BY <1>1, <1>2, <1>5, <1>10, <2>1, <2>3, <2>5 DEF OnToken
  <2>10. Starts(b) /\ begun'[b] = begun[b]
    BY StandingStarts
  <2>11. TabSound(n, begun'[b])
    BY <1>1, <1>3, <2>6, <2>10 DEF TabSound
  <2>12. ASSUME NEW s \in Conns, Spoken(n, c, s)
         PROVE  Linked(n, s) /\ (b \notin excused => Served(n, s, ended))
    <3>1. /\ Linked(n, s) /\ s.open = c.open /\ s.down = c.down
          /\ \A r : Stage(k, c, r, ended) => Stage(n, s, r, ended)
          /\ s.open => \A i \in DOMAIN n.out : \E j \in DOMAIN s.up : s.up[j] = n.out[i]
      BY <1>4, <2>4, <2>6, <2>7, <2>12, SendingServes
    <3>2. s.open => Answering(s)
      BY <2>4, <2>7, <2>8, <3>1 DEF Answering
    <3>3. b \notin excused => Served(n, s, ended)
      BY <1>4, <2>6, <3>1, <3>2 DEF Served
    <3> QED
      BY <3>1, <3>3
  <2>13. Speaks(n, c, b)
    BY <2>12 DEF Speaks
  <2>14. SpeaksFor(n, setting.people[b])
    BY <1>10, <2>3, <2>7 DEF SpeaksFor
  <2> QED
    BY <1>4, <2>6, <2>9, <2>10, <2>11, <2>13, <2>14, TabKeeps
<1> QED
  BY <1>9, <1>10

\* Whoever is at a tab is a viewer.
LEMMA TokenArrivesKeeps ==
  ASSUME Ind, TokenArrives
  PROVE  Ind'
<1>1. PICK b \in Browsers : tabs[b].asking /\ Tab(b, OnToken(tabs[b], setting.people[b]), Connection(b)) /\ World
  BY DEF TokenArrives
<1>2. PICK viewer : viewer = setting.people[b]
  OBVIOUS
<1>3. b \in DOMAIN setting.people
  <2>1. TabSound(tabs[b], begun[b]) /\ tabs[b] \in Tabs
    BY TabIs
  <2>2. tabs[b].socket = "open" /\ tabs[b].wanted # {} /\ tabs[b].wanted \subseteq begun[b]
    BY <1>1, <2>1 DEF TabSound
  <2>3. begun[b] # {}
    BY <2>2
  <2> QED
    BY <2>3 DEF Ind, TabInd
<1>4. viewer \in Viewers
  <2>1. setting \in Settings
    BY DEF Ind, WorldInd
  <2>2. viewer \in {setting.people[d] : d \in DOMAIN setting.people}
    BY <1>2, <1>3
  <2> QED
    BY <2>1, <2>2 DEF Viewers
<1>5. UNCHANGED <<setting, begun, reported, announced, excused>>
  BY <1>1 DEF World, worldVars
<1> QED
  BY <1>1, <1>2, <1>4, <1>5, TokenKeeps

\* There is no token to be had.
LEMMA TokenFailsKeeps ==
  ASSUME Ind, TokenFails
  PROVE  Ind'
<1>1. /\ UNCHANGED <<setting, begun, reported, announced, excused>>
      /\ \E b \in Browsers : tabs[b].asking /\ Tab(b, OnToken(tabs[b], Anonymous), Connection(b))
  BY DEF TokenFails
<1>2. Anonymous \in Viewers
  BY DEF Viewers
<1> QED
  BY <1>1, <1>2, TokenKeeps

------------------------------------------------------------------------------
(* The frames that arrive at a tab. *)

\* The first frame f has been taken from what a connection says.
Hearkens(o, c, f) ==
    /\ SameInside(o, c) /\ c.up = o.up
    /\ \A i \in DOMAIN c.down : \E j \in DOMAIN o.down : c.down[i] = o.down[j]
    /\ \A j \in DOMAIN o.down : o.down[j] = f \/ \E i \in DOMAIN c.down : c.down[i] = o.down[j]

\* That is what is left when a frame arrives.
LEMMA HearMakes ==
  ASSUME NEW o \in Conns, o.down # <<>>, NEW f, f = Head(o.down), NEW c, c = [o EXCEPT !.down = Tail(@)]
  PROVE  /\ c \in Conns /\ Hearkens(o, c, f) /\ Inside(o, c)
         /\ f \in DownFrames /\ 1 \in DOMAIN o.down /\ o.down[1] = f
<1>1. PICK d \in Seq(DownFrames) : d = o.down
  BY DEF Conns
<1>2. PICK t : t = Tail(d)
  OBVIOUS
<1>3. /\ t \in Seq(DownFrames) /\ d # <<>>
      /\ \A i \in DOMAIN t : i + 1 \in DOMAIN d /\ t[i] = d[i + 1]
      /\ \A i \in DOMAIN d : i = 1 \/ (i - 1 \in DOMAIN t /\ t[i - 1] = d[i])
      /\ DOMAIN t \subseteq DOMAIN d /\ 1 \in DOMAIN d /\ Head(d) = d[1] /\ d[1] \in DownFrames
  BY <1>1, <1>2
<1>4. c = [o EXCEPT !.down = t]
  BY <1>1, <1>2
<1>5. c \in Conns /\ SameInside(o, c) /\ c.up = o.up /\ c.down = t
  BY <1>3, <1>4 DEF Conns, SameInside
<1>6. f = d[1] /\ f \in DownFrames /\ 1 \in DOMAIN o.down /\ o.down[1] = f
  BY <1>1, <1>3
<1>7. ASSUME NEW i \in DOMAIN t PROVE \E j \in DOMAIN d : t[i] = d[j]
  <2>1. i + 1 \in DOMAIN d /\ t[i] = d[i + 1]
    BY <1>3, <1>7
  <2> QED
    BY <2>1
<1>9. ASSUME NEW j \in DOMAIN d, d[j] # f PROVE \E i \in DOMAIN t : t[i] = d[j]
  <2>1. j - 1 \in DOMAIN t /\ t[j - 1] = d[j]
    BY <1>3, <1>6, <1>9
  <2> QED
    BY <2>1
<1>10. Hearkens(o, c, f)
  <2>1. \A i \in DOMAIN c.down : \E j \in DOMAIN o.down : c.down[i] = o.down[j]
    BY <1>1, <1>5, <1>7
  <2>2. \A j \in DOMAIN o.down : o.down[j] = f \/ \E i \in DOMAIN c.down : c.down[i] = o.down[j]
    BY <1>1, <1>5, <1>9
  <2> QED
    BY <1>5, <2>1, <2>2 DEF Hearkens
<1>8. Handles(o, c)
  BY <1>5, SameHandles
<1> QED
  BY <1>5, <1>6, <1>8, <1>10 DEF Inside, SameInside, Hearkens

\* The frames that tell a tab what has become of r.
Concerns(f, r, done) ==
    \/ f = [type |-> "error", run |-> r]
    \/ f = [type |-> "unsubscribed", run |-> r, reason |-> "unauthorised"]
    \/ r \in done /\ (f = [type |-> "subscribed", run |-> r] \/ (f.type = "complete" /\ f.run = r))

Answers(f) == f = [type |-> "invalid"] \/ (f.type = "ready" /\ f.viewer # Anonymous)

\* But for what that frame told, everything is as it was.
LEMMA HearkeningServes ==
  ASSUME NEW o, NEW c, NEW f, Hearkens(o, c, f), f.type # "close", NEW k, NEW done
  PROVE  /\ Linked(k, o) => Linked(k, c)
         /\ \A r : Stage(k, o, r, done) => Stage(k, c, r, done) \/ Concerns(f, r, done)
         /\ Answering(o) => Answering(c) \/ Answers(f)
         /\ c.open = o.open
         /\ Served(k, o, done) => \A i \in DOMAIN c.down : c.down[i].type = "close" => c.down[i].code # "PROTOCOL"
<1>1. \A g : Hears(o, g) => Hears(c, g) \/ f = g
  BY DEF Hearkens, Hears
<1>2. Linked(k, o) => Linked(k, c)
  <2>1. Closing(o) => Closing(c)
    <3> SUFFICES ASSUME NEW j \in DOMAIN o.down, o.down[j].type = "close" PROVE Closing(c)
      BY DEF Closing
    <3>1. o.down[j] # f
      OBVIOUS
    <3>2. PICK i \in DOMAIN c.down : c.down[i] = o.down[j]
      BY <3>1 DEF Hearkens
    <3> QED
      BY <3>2 DEF Closing
  <2> QED
    BY <2>1 DEF Linked, Hearkens, SameInside
<1>3. ASSUME NEW r, Stage(k, o, r, done), ~Concerns(f, r, done) PROVE Stage(k, c, r, done)
  <2>1. Asks(o, [type |-> "subscribe", run |-> r]) => Asks(c, [type |-> "subscribe", run |-> r])
    BY DEF Hearkens, Asks
  <2>2. Hears(o, [type |-> "error", run |-> r]) => Hears(c, [type |-> "error", run |-> r])
    BY <1>1, <1>3 DEF Concerns
  <2>3. Hears(o, [type |-> "unsubscribed", run |-> r, reason |-> "unauthorised"])
           => Hears(c, [type |-> "unsubscribed", run |-> r, reason |-> "unauthorised"])
    BY <1>1, <1>3 DEF Concerns
  <2>4. r \in done => (Hears(o, [type |-> "subscribed", run |-> r]) => Hears(c, [type |-> "subscribed", run |-> r]))
    BY <1>1, <1>3 DEF Concerns
  <2>5. ASSUME r \in done, Completes(o, r) PROVE Completes(c, r)
    <3>1. PICK j \in DOMAIN o.down : o.down[j].type = "complete" /\ o.down[j].run = r
      BY <2>5 DEF Completes
    <3>2. o.down[j] # f
      BY <1>3, <2>5, <3>1 DEF Concerns
    <3>3. PICK i \in DOMAIN c.down : c.down[i] = o.down[j]
      BY <3>2 DEF Hearkens
    <3> QED
      BY <3>1, <3>3 DEF Completes
  <2> QED
    BY <1>3, <2>1, <2>2, <2>3, <2>4, <2>5 DEF Stage, Hearkens, SameInside
<1>4. Answering(o) => Answering(c) \/ Answers(f)
  <2>1. (\E i \in DOMAIN o.up : o.up[i].type = "authenticate") => Answering(c)
    BY DEF Hearkens, Answering
  <2>2. ASSUME NEW j \in DOMAIN o.down, o.down[j].type = "ready", o.down[j].viewer # Anonymous PROVE Answering(c) \/ Answers(f)
    BY <2>2 DEF Hearkens, Answering, Answers
  <2>3. Hears(o, [type |-> "invalid"]) => Answering(c) \/ Answers(f)
    BY <1>1 DEF Answering, Answers
  <2> QED
    BY <2>1, <2>2, <2>3 DEF Answering
<1>5. c.open = o.open
  BY DEF Hearkens, SameInside
<1>6. Served(k, o, done) => \A i \in DOMAIN c.down : c.down[i].type = "close" => c.down[i].code # "PROTOCOL"
  BY DEF Served, Hearkens
<1> QED
  BY <1>2, <1>3, <1>4, <1>5, <1>6

\* A tab that only listens.
LEMMA ListeningKeeps ==
  ASSUME Ind, NEW b \in Browsers, connections[b] # <<>>, NEW n \in Tabs, NEW c \in Conns,
         n.socket = "open", n.out = <<>>, TabSound(n, begun[b]),
         Inside(At(Current(b)), c), Linked(n, c), b \notin excused => Served(n, c, ended),
         Tab(b, n, c), UNCHANGED <<setting, begun, reported, announced, excused>>
  PROVE  Ind'
<1>1. Starts(b) /\ begun'[b] = begun[b]
  BY StandingStarts
<1>2. Speaks(n, c, b)
  BY StillSpoken DEF Speaks
<1>3. SpeaksFor(n, setting.people[b])
  BY DEF SpeaksFor
<1> QED
  BY <1>1, <1>2, <1>3, TabKeeps

\* A frame that the tab need not act upon.
LEMMA IgnoringKeeps ==
  ASSUME Ind, NEW b \in Browsers, NEW o \in Conns, NEW c \in Conns, NEW f, o = Connection(b),
         tabs[b].socket = "open", Hearkens(o, c, f), Inside(o, c), f.type # "close",
         \A r \in tabs[b].claimed : ~Concerns(f, r, ended), tabs[b].awaiting => ~Answers(f),
         Tab(b, tabs[b], c), UNCHANGED <<setting, begun, reported, announced, excused>>
  PROVE  Ind'
<1>1. PICK k \in Tabs : k = tabs[b] /\ TabSound(k, begun[b]) /\ k.out = <<>>
  BY TabIs
<1>2. /\ connections[b] # <<>> /\ Inside(At(Current(b)), c) /\ Linked(k, o)
      /\ b \notin excused => Served(k, o, ended)
  BY <1>1, TabIs
<1>3. Linked(k, c)
  BY <1>2, HearkeningServes
<1>4. ASSUME b \notin excused PROVE Served(k, c, ended)
  <2>1. Served(k, o, ended)
    BY <1>2, <1>4
  <2>2. \A i \in DOMAIN c.down : c.down[i].type = "close" => c.down[i].code # "PROTOCOL"
    BY <2>1, HearkeningServes
  <2>3. c.open = o.open
    BY HearkeningServes
  <2>4. k.awaiting /\ Answering(o) => Answering(c)
    BY <1>1, HearkeningServes
  <2>5. \A r \in k.claimed : Stage(k, o, r, ended) => Stage(k, c, r, ended)
    BY <1>1, HearkeningServes
  <2> QED
    BY <2>1, <2>2, <2>3, <2>4, <2>5 DEF Served
<1> QED
  BY <1>1, <1>2, <1>3, <1>4, ListeningKeeps

\* A tab that may subscribe does.
LEMMA ReadyKeeps ==
  ASSUME Ind, NEW b \in Browsers, NEW o \in Conns, NEW c \in Conns, NEW f, o = Connection(b),
         tabs[b].socket = "open", Hearkens(o, c, f), Inside(o, c), f.type \in {"ready", "invalid"},
         Tab(b, SubscribeAll([tabs[b] EXCEPT !.awaiting = FALSE]), c),
         UNCHANGED <<setting, begun, reported, announced, excused>>
  PROVE  Ind'
<1>1. PICK k \in Tabs : k = tabs[b] /\ TabSound(k, begun[b]) /\ k.out = <<>>
  BY TabIs
<1>2. /\ connections[b] # <<>> /\ Inside(At(Current(b)), c) /\ Linked(k, o)
      /\ b \notin excused => Served(k, o, ended)
  BY <1>1, TabIs
<1>3. PICK a : a = [k EXCEPT !.awaiting = FALSE]
  OBVIOUS
<1>4. /\ a \in Tabs /\ a.wanted = k.wanted /\ a.claimed = k.claimed /\ a.socket = "open" /\ a.asking = k.asking
      /\ a.awaiting = FALSE /\ a.retry = k.retry /\ a.told = k.told /\ a.refused = k.refused /\ a.out = <<>>
  BY <1>1, <1>3 DEF Tabs
<1>5. TabSound(a, begun[b])
  BY <1>1, <1>4 DEF TabSound
<1>6. f.type # "close" /\ \A r : ~Concerns(f, r, ended)
  BY DEF Concerns
<1>7. Linked(k, c)
  BY <1>2, <1>6, HearkeningServes
<1>8. Linked(a, c)
  BY <1>4, <1>7 DEF Linked
<1>9. ASSUME b \notin excused PROVE Half(a, c, ended)
  <2>1. Served(k, o, ended)
    BY <1>2, <1>9
  <2>2. \A i \in DOMAIN c.down : c.down[i].type = "close" => c.down[i].code # "PROTOCOL"
    BY <1>6, <2>1, HearkeningServes
  <2>3. c.open = o.open
    BY <1>6, HearkeningServes
  <2>4. \A r : Stage(k, o, r, ended) => Stage(k, c, r, ended)
    BY <1>6, HearkeningServes
  <2>5. \A r : Stage(k, c, r, ended) => Stage(a, c, r, ended)
    BY <1>4 DEF Stage
  <2> QED
    BY <1>4, <2>1, <2>2, <2>3, <2>4, <2>5 DEF Served, Half
<1>10. Tab(b, SubscribeAll(a), c)
  BY <1>1, <1>3
<1> QED
  BY <1>2, <1>4, <1>5, <1>8, <1>9, <1>10, ClaimingKeeps

\* A tab that was told of a run reads it, if it wants it and it has ended.
LEMMA ReadKeeps ==
  ASSUME Ind, NEW b \in Browsers, NEW o \in Conns, NEW c \in Conns, NEW f \in DownFrames, o = Connection(b),
         tabs[b].socket = "open", Hearkens(o, c, f), Inside(o, c), f.type \in {"subscribed", "complete"},
         Tab(b, Read(tabs[b], f.run, ended), c),
         UNCHANGED <<setting, begun, reported, announced, excused>>
  PROVE  Ind'
<1>1. PICK k \in Tabs : k = tabs[b] /\ TabSound(k, begun[b]) /\ k.out = <<>>
  BY TabIs
<1>2. /\ connections[b] # <<>> /\ Inside(At(Current(b)), c) /\ Linked(k, o)
      /\ b \notin excused => Served(k, o, ended)
  BY <1>1, TabIs
<1>3. PICK q \in Runs : q = f.run
  BY DEF DownFrames
<1>4. f.type # "close" /\ ~Answers(f)
  BY DEF Answers
<1>5. \A r : Concerns(f, r, ended) => r = q /\ r \in ended
  <2>1. ASSUME NEW r, Concerns(f, r, ended) PROVE r = q /\ r \in ended
    <3>1. f # [type |-> "error", run |-> r] /\ f # [type |-> "unsubscribed", run |-> r, reason |-> "unauthorised"]
      OBVIOUS
    <3> QED
      BY <1>3, <2>1, <3>1 DEF Concerns
  <2> QED
    BY <2>1
<1>6. CASE q \notin k.wanted \cap ended
  <2>1. Tab(b, k, c)
    BY <1>1, <1>3, <1>6 DEF Read
  <2>2. \A r \in k.claimed : ~Concerns(f, r, ended)
    BY <1>1, <1>5, <1>6 DEF TabSound
  <2> QED
    BY <1>1, <1>4, <2>1, <2>2, IgnoringKeeps
<1>7. CASE q \in k.wanted \cap ended
  <2>1. PICK n : n = [k EXCEPT !.told = @ \cup {q}]
    OBVIOUS
  <2>2. /\ n \in Tabs /\ n.wanted = k.wanted /\ n.claimed = k.claimed /\ n.socket = "open" /\ n.asking = k.asking
        /\ n.awaiting = k.awaiting /\ n.retry = k.retry /\ n.told = k.told \cup {q} /\ n.refused = k.refused /\ n.out = <<>>
    BY <1>1, <2>1 DEF Tabs
  <2>3. TabSound(n, begun[b])
    BY <1>1, <1>7, <2>2 DEF TabSound
  <2>4. Tab(b, n, c)
    BY <1>1, <1>3, <1>7, <2>1 DEF Read
  <2>5. Linked(k, c)
    BY <1>2, <1>4, HearkeningServes
  <2>6. Linked(n, c)
    BY <2>2, <2>5 DEF Linked
  <2>7. ASSUME b \notin excused PROVE Served(n, c, ended)
    <3>1. Served(k, o, ended)
      BY <1>2, <2>7
    <3>2. \A i \in DOMAIN c.down : c.down[i].type = "close" => c.down[i].code # "PROTOCOL"
      BY <1>4, <3>1, HearkeningServes
    <3>3. c.open = o.open
      BY <1>4, HearkeningServes
    <3>4. Answering(o) => Answering(c)
      BY <1>4, HearkeningServes
    <3>5. ASSUME NEW r \in k.claimed, Stage(k, o, r, ended) PROVE Stage(n, c, r, ended)
      <4>1. Stage(k, c, r, ended) \/ r = q
        BY <1>4, <1>5, <3>5, HearkeningServes
      <4>2. Stage(k, c, r, ended) => Stage(n, c, r, ended)
        BY <2>2 DEF Stage
      <4>3. r = q => Stage(n, c, r, ended)
        BY <2>2 DEF Stage
      <4> QED
        BY <4>1, <4>2, <4>3
    <3> QED
      BY <2>2, <3>1, <3>2, <3>3, <3>4, <3>5 DEF Served
  <2> QED
    BY <1>2, <2>2, <2>3, <2>4, <2>6, <2>7, ListeningKeeps
<1> QED
  BY <1>6, <1>7

\* A tab that is refused a run gives it up.
LEMMA RefusedKeeps ==
  ASSUME Ind, NEW b \in Browsers, NEW o \in Conns, NEW c \in Conns, NEW f \in DownFrames, o = Connection(b),
         tabs[b].socket = "open", Hearkens(o, c, f), Inside(o, c),
         f.type = "error" \/ (f.type = "unsubscribed" /\ f.reason = "unauthorised"),
         Tab(b, Refused(tabs[b], f.run), c),
         UNCHANGED <<setting, begun, reported, announced, excused>>
  PROVE  Ind'
<1>1. PICK k \in Tabs : k = tabs[b] /\ TabSound(k, begun[b]) /\ k.out = <<>>
  BY TabIs
<1>2. connections[b] # <<>> /\ Inside(At(Current(b)), c)
  BY <1>1, TabIs
<1>3. PICK q \in Runs : q = f.run
  BY DEF DownFrames
<1>4. f.type # "close" /\ ~Answers(f)
  BY DEF Answers
<1>5. CASE q \notin k.wanted
  <2>1. Tab(b, k, c)
    BY <1>1, <1>3, <1>5 DEF Refused
  <2>2. \A r : Concerns(f, r, ended) => r = q
    <3>1. ASSUME NEW r, Concerns(f, r, ended) PROVE r = q
      <4>1. f # [type |-> "subscribed", run |-> r] /\ f.type # "complete"
        OBVIOUS
      <4> QED
        BY <1>3, <3>1, <4>1 DEF Concerns
    <3> QED
      BY <3>1
  <2>3. \A r \in k.claimed : ~Concerns(f, r, ended)
    BY <1>1, <1>5, <2>2 DEF TabSound
  <2> QED
    BY <1>1, <1>4, <2>1, <2>3, IgnoringKeeps
<1>6. CASE q \in k.wanted
  <2>1. k.wanted = {q} /\ k.claimed \subseteq k.wanted
    BY <1>1, <1>6 DEF TabSound
  <2>2. PICK a : a = [k EXCEPT !.refused = @ \cup {q}]
    OBVIOUS
  <2>3. /\ a \in Tabs /\ a.wanted = k.wanted /\ a.claimed = k.claimed /\ a.told = k.told /\ a.refused = k.refused \cup {q}
        /\ a.out = <<>>
    BY <1>1, <2>2 DEF Tabs
  <2>4. PICK n : n = Unwatch(a, q)
    OBVIOUS
  <2>5. Gone(a, n)
    BY <2>1, <2>3, <2>4, UnwatchMakes
  <2>6. Starts(b) /\ begun'[b] = begun[b]
    BY StandingStarts
  <2>7. TabSound(n, begun'[b])
    BY <1>1, <1>6, <2>3, <2>5, <2>6 DEF TabSound, Gone
  <2>8. n \in Tabs /\ n.socket = "none" /\ n.wanted = {}
    BY <2>5 DEF Gone
  <2>9. Tab(b, n, c)
    BY <1>1, <1>3, <1>6, <2>2, <2>4 DEF Refused
  <2>10. SpeaksFor(n, setting.people[b])
    BY <2>3, <2>5 DEF Gone, SpeaksFor
  <2> QED
    BY <1>2, <2>6, <2>7, <2>8, <2>9, <2>10, TabKeeps
<1> QED
  BY <1>5, <1>6

\* A frame arrives.
LEMMA FrameArrivesKeeps ==
  ASSUME Ind, FrameArrives
  PROVE  Ind'
<1>1. PICK b \in Browsers :
         LET s == Connection(b)
             frame == Head(s.down)
         IN  /\ tabs[b].socket = "open" /\ s.down # <<>>
             /\ IF frame.type = "close" THEN Tab(b, OnClose(tabs[b], frame.code), s)
                ELSE Tab(b, Handle(tabs[b], frame, ended), [s EXCEPT !.down = Tail(@)])
             /\ World
  BY DEF FrameArrives
<1>2. PICK o \in Conns : o = Connection(b)
  BY TabIs
<1>3. PICK f : f = Head(o.down)
  OBVIOUS
<1>4. PICK c : c = [o EXCEPT !.down = Tail(@)]
  OBVIOUS
<1>5. PICK k \in Tabs : k = tabs[b] /\ k.socket = "open"
  BY <1>1, TabIs
<1>6. /\ o.down # <<>>
      /\ f.type = "close" => Tab(b, OnClose(k, f.code), o)
      /\ f.type # "close" => Tab(b, Handle(k, f, ended), c)
  BY <1>1, <1>2, <1>3, <1>4, <1>5
<1>7. /\ c \in Conns /\ Hearkens(o, c, f) /\ Inside(o, c)
      /\ f \in DownFrames /\ 1 \in DOMAIN o.down /\ o.down[1] = f
  BY <1>3, <1>4, <1>6, HearMakes
<1>8. UNCHANGED <<setting, begun, reported, announced, excused>>
  BY <1>1 DEF World, worldVars
<1>9. CASE f.type = "close"
  <2>1. b \notin excused => f.code # "PROTOCOL"
    <3>1. b \notin excused => Served(k, o, ended)
      BY <1>2, <1>5, TabIs
    <3> QED
      BY <1>7, <1>9, <3>1 DEF Served
  <2>2. connections[b] # <<>> => Inside(At(Current(b)), o)
    BY <1>2, TabIs
  <2>3. PICK code : code = f.code
    OBVIOUS
  <2>4. Tab(b, OnClose(tabs[b], code), o)
    BY <1>5, <1>6, <1>9, <2>3
  <2> QED
    BY <1>5, <1>8, <2>1, <2>2, <2>3, <2>4, ClosingKeeps
<1>10. CASE f.type = "ready"
  <2>1. Tab(b, Ready(k, f.viewer), c)
    BY <1>6, <1>10 DEF Handle
  <2>2. CASE k.awaiting /\ f.viewer = Anonymous
    <3>1. Tab(b, k, c)
      BY <2>1, <2>2 DEF Ready
    <3>2. ~Answers(f) /\ \A r : ~Concerns(f, r, ended)
      BY <1>10, <2>2 DEF Answers, Concerns
    <3> QED
      BY <1>2, <1>5, <1>7, <1>8, <1>10, <3>1, <3>2, IgnoringKeeps
  <2>3. CASE ~(k.awaiting /\ f.viewer = Anonymous)
    <3>1. Tab(b, SubscribeAll([tabs[b] EXCEPT !.awaiting = FALSE]), c)
      BY <1>5, <2>1, <2>3 DEF Ready
    <3> QED
      BY <1>2, <1>5, <1>7, <1>8, <1>10, <3>1, ReadyKeeps
  <2> QED
    BY <2>2, <2>3
<1>11. CASE f.type = "invalid"
  <2>1. Tab(b, SubscribeAll([tabs[b] EXCEPT !.awaiting = FALSE]), c)
    BY <1>5, <1>6, <1>11 DEF Handle
  <2> QED
    BY <1>2, <1>5, <1>7, <1>8, <1>11, <2>1, ReadyKeeps
<1>12. CASE f.type \in {"subscribed", "complete"}
  <2>1. Tab(b, Read(tabs[b], f.run, ended), c)
    BY <1>5, <1>6, <1>12 DEF Handle
  <2> QED
    BY <1>2, <1>5, <1>7, <1>8, <1>12, <2>1, ReadKeeps
<1>13. CASE f.type = "error" \/ (f.type = "unsubscribed" /\ f.reason = "unauthorised")
  <2>1. Tab(b, Refused(tabs[b], f.run), c)
    BY <1>5, <1>6, <1>13 DEF Handle
  <2> QED
    BY <1>2, <1>5, <1>7, <1>8, <1>13, <2>1, RefusedKeeps
<1>14. CASE f.type = "progress" \/ (f.type = "unsubscribed" /\ f.reason # "unauthorised")
  <2>1. Tab(b, tabs[b], c)
    BY <1>5, <1>6, <1>14 DEF Handle
  <2>2. ~Answers(f) /\ f.type # "close"
    BY <1>14 DEF Answers
  <2>3. ASSUME NEW r PROVE ~Concerns(f, r, ended)
    <3>1. f # [type |-> "unsubscribed", run |-> r, reason |-> "unauthorised"]
      BY <1>14
    <3> QED
      BY <1>14, <3>1 DEF Concerns
  <2> QED
    BY <1>2, <1>5, <1>7, <1>8, <2>1, <2>2, <2>3, IgnoringKeeps
<1>15. f.type \in {"ready", "invalid", "close", "error", "subscribed", "progress", "complete", "unsubscribed"}
  BY <1>7 DEF DownFrames
<1> QED
  BY <1>9, <1>10, <1>11, <1>12, <1>13, <1>14, <1>15

\* A connection is lost, and one of its ends knows.
LEMMA ConnectionDropsKeeps ==
  ASSUME Ind, ConnectionDrops
  PROVE  Ind'
<1>1. UNCHANGED <<setting, begun, reported, announced, excused>>
  BY DEF ConnectionDrops
<1>2. PICK b \in Browsers :
         \/ /\ tabs[b].socket = "open" /\ Connection(b).open
            /\ Tab(b, OnClose(tabs[b], "LOST"), [Connection(b) EXCEPT !.lost = TRUE, !.up = <<>>])
         \/ /\ tabs[b].socket = "open" /\ Connection(b).open
            /\ One(Current(b), Shut(Connection(b), "LOST")) /\ UNCHANGED tabs
         \/ /\ tabs[b].socket = "opening"
            /\ Tab(b, OnClose(tabs[b], "LOST"), Connection(b))
  BY DEF ConnectionDrops
<1>3. PICK o \in Conns : o = Connection(b)
  BY TabIs
<1>4. connections[b] # <<>> => o = At(Current(b)) /\ Inside(At(Current(b)), o)
  BY <1>3, TabIs
<1>5. PICK code : code = "LOST"
  OBVIOUS
<1>6. code # "PROTOCOL"
  BY <1>5
<1>7. CASE tabs[b].socket = "open" /\ Tab(b, OnClose(tabs[b], code), [o EXCEPT !.lost = TRUE, !.up = <<>>])
  <2>1. PICK c : c = [o EXCEPT !.lost = TRUE, !.up = <<>>]
    OBVIOUS
  <2>2. <<>> \in Seq(UpFrames)
    OBVIOUS
  <2>3. c \in Conns /\ Inside(o, c)
    <3>1. c \in Conns /\ c.up = <<>>
      BY <2>1, <2>2 DEF Conns
    <3>2. Handles(o, c)
      BY <3>1 DEF Handles
    <3> QED
      BY <2>1, <3>1, <3>2 DEF Conns, Inside
  <2>4. connections[b] # <<>> => Inside(At(Current(b)), c)
    BY <1>4, <2>3
  <2>5. Tab(b, OnClose(tabs[b], code), c)
    BY <1>7, <2>1
  <2> QED
    BY <1>1, <1>6, <1>7, <2>3, <2>4, <2>5, ClosingKeeps
<1>8. CASE tabs[b].socket = "open" /\ One(Current(b), Shut(o, code)) /\ UNCHANGED tabs
  <2>1. connections[b] # <<>>
    BY <1>8, TabIs
  <2>2. SocketInd /\ BusInd /\ Typed /\ excused \subseteq Browsers
    BY DEF Ind, SocketInd, WorldInd
  <2>3. PICK id \in Ids : id = Current(b)
    BY <2>1, <2>2, CurrentIs
  <2>4. code \in Codes \ {"PROTOCOL"}
    BY <1>5 DEF Codes
  <2>5. One(id, Shut(At(id), code))
    BY <1>4, <1>8, <2>1, <2>3
  <2>6. Turns(id)
    BY <2>2, <2>4, <2>5, ShutTurns
  <2>7. Kept({}) /\ BusInd'
    BY <2>2, <2>6, TurnIsKept
  <2>8. ended' = ended /\ readers' = readers
    BY <2>6 DEF Turns, One
  <2> QED
    BY <1>1, <1>8, <2>2, <2>7, <2>8, ServerKeeps
<1>9. CASE tabs[b].socket = "opening" /\ Tab(b, OnClose(tabs[b], code), o)
  BY <1>1, <1>4, <1>6, <1>9, ClosingKeeps
<1> QED
  BY <1>2, <1>3, <1>5, <1>7, <1>8, <1>9

------------------------------------------------------------------------------
(* The invariant, and what follows from it. *)

\* Before anything happens nothing is wrong.
LEMMA InitInd == Init => Ind
<1> SUFFICES ASSUME Init PROVE Ind
  OBVIOUS
<1>1. /\ connections = [b \in Browsers |-> <<>>] /\ bus = NoBus /\ ended = {}
      /\ setting \in Settings /\ tabs = [b \in Browsers |-> Unwatched]
      /\ begun = [b \in Browsers |-> {}] /\ reported = [r \in Runs |-> 0]
      /\ announced = {} /\ excused = {}
  BY DEF Init, FeedInit
<1>2. <<>> \in Seq(Conns) /\ <<>> \in Seq(UpFrames)
  OBVIOUS
<1>3. Typed
  BY <1>1, <1>2 DEF Typed
<1>4. Ids = {}
  <2>1. \A b \in Browsers : DOMAIN connections[b] = {}
    BY <1>1
  <2> QED
    BY <2>1 DEF Ids
<1>5. SocketInd
  BY <1>3, <1>4 DEF SocketInd
<1>6. BusInd
  BY <1>1, <1>4, NothingIsSent DEF Silent
<1>7. /\ Unwatched \in Tabs /\ Unwatched.socket = "none" /\ Unwatched.wanted = {} /\ Unwatched.out = <<>>
      /\ TabSound(Unwatched, {})
  BY <1>2 DEF Unwatched, Tabs, TabSound
<1>8. \A b \in Browsers : tabs[b] = Unwatched /\ begun[b] = {}
  BY <1>1
<1>9. TabInd
  BY <1>1, <1>7, <1>8 DEF TabInd
<1>10. PipeInd
  BY <1>7, <1>8 DEF PipeInd
<1>11. WorldInd
  BY <1>1 DEF WorldInd
<1>12. CleanInd
  BY <1>4 DEF CleanInd
<1> QED
  BY <1>5, <1>6, <1>9, <1>10, <1>11, <1>12 DEF Ind

\* Nothing happens.
LEMMA StutterKeeps ==
  ASSUME Ind, UNCHANGED vars
  PROVE  Ind'
<1>1. /\ connections' = connections /\ bus' = bus /\ ended' = ended /\ readers' = readers
      /\ UNCHANGED <<tabs, setting, begun, reported, announced, excused>>
  BY DEF vars, feedVars, worldVars
<1>2. SocketInd /\ BusInd /\ WorldInd
  BY DEF Ind
<1>3. Kept({}) /\ BusInd'
  BY <1>1, <1>2, ConnectionsStand, BusStands
<1>4. Onlooking
  BY <1>1, <1>2 DEF Onlooking, WorldInd
<1> QED
  BY <1>1, <1>3, <1>4, KeptKeeps

\* Whatever happens the invariant is kept.
LEMMA StepKeeps == Ind /\ [Next]_vars => Ind'
<1> SUFFICES ASSUME Ind, [Next]_vars PROVE Ind'
  OBVIOUS
<1>1. CASE WatchStarts      BY <1>1, WatchStartsKeeps
<1>2. CASE WatchEnds        BY <1>2, WatchEndsKeeps
<1>3. CASE WatchIsLeft      BY <1>3, WatchIsLeftKeeps
<1>4. CASE SocketOpens      BY <1>4, SocketOpensKeeps
<1>5. CASE TokenArrives     BY <1>5, TokenArrivesKeeps
<1>6. CASE FrameArrives     BY <1>6, FrameArrivesKeeps
<1>7. CASE RetryFires       BY <1>7, RetryFiresKeeps
<1>8. CASE SocketsRead      BY <1>8, SocketsReadKeeps
<1>9. CASE SocketsSubscribe BY <1>9, SocketsSubscribeKeeps
<1>10. CASE SocketsJoin     BY <1>10, SocketsJoinKeeps
<1>11. CASE RedisActs       BY <1>11, RedisActsKeeps
<1>12. CASE SocketsDeliver  BY <1>12, SocketsDeliverKeeps
<1>13. CASE SocketsEnd      BY <1>13, SocketsEndKeeps
<1>14. CASE Ages            BY <1>14, AgesKeeps
<1>15. CASE WorkerReports   BY <1>15, WorkerReportsKeeps
<1>16. CASE RowEnds         BY <1>16, RowEndsKeeps
<1>17. CASE WorkerAnnounces BY <1>17, WorkerAnnouncesKeeps
<1>18. CASE AnnouncementIsLost BY <1>18, AnnouncementIsLostKeeps
<1>19. CASE ConnectionDrops BY <1>19, ConnectionDropsKeeps
<1>20. CASE TokenFails      BY <1>20, TokenFailsKeeps
<1>21. CASE ServerFails     BY <1>21, ServerFailsKeeps
<1>22. CASE RedisFails      BY <1>22, RedisFailsKeeps
<1>23. CASE ReadersChange   BY <1>23, ReadersChangeKeeps
<1>24. CASE UNCHANGED vars  BY <1>24, StutterKeeps
<1> QED
  BY <1>1, <1>2, <1>3, <1>4, <1>5, <1>6, <1>7, <1>8, <1>9, <1>10, <1>11, <1>12, <1>13, <1>14, <1>15,
     <1>16, <1>17, <1>18, <1>19, <1>20, <1>21, <1>22, <1>23, <1>24 DEF Next

\* Nothing is given up that is wanted, and one run at a time is.
LEMMA IndIsTyped ==
  ASSUME Ind
  PROVE  TypeOK
<1>1. bus.redis \subseteq Runs
  BY DEF Ind, BusInd, Buses
<1>2. ASSUME NEW b \in Browsers
      PROVE  /\ tabs[b].claimed \subseteq tabs[b].wanted /\ Cardinality(tabs[b].wanted) <= 1
             /\ tabs[b].told \cup tabs[b].wanted \subseteq begun[b]
             /\ tabs[b].refused \cap tabs[b].wanted = {}
             /\ tabs[b].out = <<>> /\ tabs[b].socket \in {"none", "opening", "open"}
             /\ tabs[b].socket # "open" => ~tabs[b].asking /\ ~tabs[b].awaiting
  <2>1. tabs[b] \in Tabs /\ TabSound(tabs[b], begun[b]) /\ tabs[b].out = <<>>
    BY TabIs
  <2>2. tabs[b].wanted = {} \/ \E r \in Runs : tabs[b].wanted = {r}
    BY <2>1 DEF TabSound
  <2>3. Cardinality(tabs[b].wanted) = 0 \/ Cardinality(tabs[b].wanted) = 1
    BY <2>2, FS_EmptySet, FS_Singleton
  <2> QED
    BY <2>1, <2>3 DEF TabSound, Tabs
<1> QED
  BY <1>1, <1>2 DEF TypeOK, Ind, WorldInd

\* The last word on a run is to send it, if it is the last one.
LEMMA SentIs ==
  ASSUME BusInd, NEW r \in Runs
  PROVE  r \in Sent <=> Sending(bus, r)
<1>1. Orders(r) = {} <=> Settled(bus, r)
  BY DEF Orders, Settled
<1>2. CASE Orders(r) = {}
  <2>1. ~Subscribing(bus, r)
    BY <1>2 DEF Orders, Subscribing
  <2> QED
    BY <1>1, <1>2, <2>1 DEF Sent, Sending
<1>3. CASE Orders(r) # {}
  <2>1. r \in Sent <=> \E i \in Orders(r) : bus.commands[i].op = "subscribe" /\ \A j \in Orders(r) : j <= i
    BY <1>3 DEF Sent
  <2>2. r \in Sent => Subscribing(bus, r)
    BY <2>1 DEF Orders, Subscribing
  <2>3. ASSUME Subscribing(bus, r) PROVE r \in Sent
    <3>1. PICK i \in DOMAIN bus.commands : bus.commands[i].op = "subscribe" /\ bus.commands[i].run = r
      BY <2>3 DEF Subscribing
    <3>2. \A j \in Orders(r) : j <= i
      BY <3>1 DEF BusInd, Orderly, Orders
    <3>3. i \in Orders(r)
      BY <3>1 DEF Orders
    <3> QED
      BY <2>1, <3>1, <3>2, <3>3
  <2> QED
    BY <1>1, <1>3, <2>2, <2>3 DEF Sending
<1> QED
  BY <1>2, <1>3

\* Redis sends what somebody listens to.
LEMMA IndCounts ==
  ASSUME Ind
  PROVE  ListenersAreCounted
<1>1. BusInd /\ SocketInd /\ \A r \in Runs : ChannelInd(r)
  BY DEF Ind, BusInd
<1>2. Sent \subseteq Runs
  BY DEF Sent
<1>3. Sent = {r \in Runs : bus.channels[r] # {}}
  BY <1>1, <1>2, SentIs DEF ChannelInd
<1>4. \A r \in Runs : \A id \in bus.channels[r] :
         At(id).subs[r].at = "live" \/ (At(id).busy = "opening" /\ At(id).asked = r)
  BY <1>1 DEF ChannelInd, Opening
<1>5. \A id \in Ids, r \in Runs :
         At(id).subs[r].at = "live" => At(id).open /\ (id \in bus.channels[r] \/ At(id).subs[r].early)
  BY <1>1 DEF ChannelInd, SocketInd, Sound
<1> QED
  BY <1>3, <1>4, <1>5 DEF ListenersAreCounted

\* With nothing on its way, what a tab wants is at the last of its stages.
LEMMA IndSubscribes ==
  ASSUME Ind
  PROVE  WatchedIsSubscribed
<1> SUFFICES ASSUME NEW b \in Browsers \ excused, NEW r \in tabs[b].wanted
             PROVE  /\ Quiet(b) => r \in tabs[b].told \/ Connection(b).subs[r].at = "live"
                    /\ tabs[b].socket = "none" => tabs[b].retry
  BY DEF WatchedIsSubscribed
<1>1. tabs[b].socket = "none" => tabs[b].retry
  BY TabIs
<1>2. ASSUME Quiet(b) PROVE r \in tabs[b].told \/ Connection(b).subs[r].at = "live"
  <2>1. PICK k, s : k = tabs[b] /\ s = Connection(b)
    OBVIOUS
  <2>2. /\ k.socket = "open" /\ s.open /\ s.up = <<>> /\ s.down = <<>> /\ s.busy = "idle" /\ ~k.asking
    BY <1>2, <2>1 DEF Quiet
  <2>3. Served(k, s, ended)
    BY <2>1, <2>2, TabIs
  <2>4. ~Answering(s)
    BY <2>2 DEF Answering, Hears
  <2>5. r \in k.claimed
    BY <2>1, <2>2, <2>3, <2>4 DEF Served
  <2>6. Stage(k, s, r, ended)
    BY <2>2, <2>3, <2>5 DEF Served
  <2> QED
    BY <2>1, <2>2, <2>6 DEF Stage, Asks, Hears, Completes
<1> QED
  BY <1>1, <1>2

LEMMA IndIsSound == Ind => FeedInvariant
  BY IndIsTyped, IndCounts, IndSubscribes DEF FeedInvariant

\* Of what has been said nothing was too late.
LEMMA IndIsTold == Ind => RevokedHearsNothing
  BY DEF Ind, CleanInd, Clean, RevokedHearsNothing

------------------------------------------------------------------------------
(* The theorems. *)

\* At every moment, for any number of tabs, runs and connections: what a tab
\* has claimed is at some stage between it and the process, and the channels
\* of the process agree with its subscriptions and with Redis.
THEOREM FeedIsInductive == Spec => []Ind
<1>1. Ind /\ [Next]_vars => Ind'
  BY StepKeeps
<1> QED
  BY <1>1, InitInd, PTL DEF Spec

\* Whatever opens, closes, is refused, lost, revoked or fails in between: Redis
\* sends what somebody listens to and nothing else, whoever is subscribed
\* listens, and a tab that hears nothing more of what it wants is subscribed
\* to it, was told, or will connect again.
THEOREM FeedIsSound == Spec => []FeedInvariant
  BY FeedIsInductive, IndIsSound, PTL

\* What is published of a run after a viewer's token has expired, or after the
\* last decision in favour of a viewer who may no longer read it has run out and
\* none is on its way, is never said to that viewer.
THEOREM RevokedIsToldNothing == Spec => []RevokedHearsNothing
  BY FeedIsInductive, IndIsTold, PTL

=============================================================================
