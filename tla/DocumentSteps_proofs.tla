------------------------- MODULE DocumentSteps_proofs -------------------------
(***************************************************************************)
(* The relay's documents, step by step: the parts of the invariant of      *)
(* DocumentSystem, what the functions of the registry make of its state,   *)
(* that every action is one of a few steps of one process, and what those  *)
(* leave of the maps, the queues, the types and the inboxes.               *)
(***************************************************************************)
EXTENDS DocumentSystem, FiniteSetTheorems, TLAPS

------------------------------------------------------------------------------
(* The kinds of everything. *)

Documents == [has : SUBSET Edits, gone : SUBSET Edits]
Lives == [replica : Replicas, doc : Documents, peers : SUBSET Peers, pending : BOOLEAN, timer : BOOLEAN,
          bus : {"none", "opening", "open"}, dropping : BOOLEAN]
\* A message that carries no update carries nothing.
Messages ==
    {m \in [kind : {"update", "sync-state", "sync-request", "settled"}, doc : Documents] :
        m.kind \in {"sync-request", "settled"} => m.doc.has = {}}
Statements ==
    [kind : {"load"}, done : BOOLEAN, got : Documents \cup {NoRow}]
        \cup [kind : {"latest"}, done : BOOLEAN, got : SUBSET Edits]
        \cup [kind : {"save"}, done : BOOLEAN, live : Nat, doc : Documents, why : {"timer", "leave", "close"}]
        \cup [kind : {"drop"}, done : BOOLEAN, reseed : BOOLEAN]
        \cup [kind : {"append"}, done : BOOLEAN, circuit : SUBSET Edits, restore : BOOLEAN]
Relays == [lives : Seq(Lives), documents : [Replicas -> Nat], building : [Replicas -> Nat],
           closed : [Replicas -> BOOLEAN], channel : [Replicas -> {"closed", "opening", "open"}],
           inbox : [Replicas -> Seq(Messages)], db : [Replicas -> Seq(Statements)], out : SUBSET Peers]
Places == [at : {"nowhere", "waiting", "in"}, replica : Replicas, live : Nat]

Queues == [Replicas -> Seq(Statements)]

TypeInd ==
    /\ relay \in Relays /\ relay.out = {} /\ relay.db = [r \in Replicas |-> <<>>]
    /\ peers \in [Peers -> Places]
    /\ db \in Queues
    /\ row \in Documents \cup {NoRow} /\ version \in SUBSET Edits
    /\ deployed \in Deployments
    /\ accepted \in SUBSET Edits /\ kept \subseteq accepted /\ late \in BOOLEAN
    /\ owed \in [LiveIds -> SUBSET Edits]
    /\ spent \in [faults : Nat, versions : Nat, incidents : Nat]

------------------------------------------------------------------------------
(* Nothing is held that was not accepted. *)

From(doc, given) == doc.has \subseteq given /\ doc.gone \subseteq given
StatementFrom(st, given) ==
    /\ st.kind = "load" /\ st.got # NoRow => From(st.got, given)
    /\ st.kind = "latest" => st.got \subseteq given
    /\ st.kind = "save" => From(st.doc, given)
    /\ st.kind = "append" => st.circuit \subseteq given

AcceptedInd ==
    /\ \A n \in DOMAIN relay.lives : From(relay.lives[n].doc, accepted)
    /\ \A r \in Replicas : \A i \in DOMAIN relay.inbox[r] : From(relay.inbox[r][i].doc, accepted)
    /\ \A r \in Replicas : \A i \in DOMAIN db[r] : StatementFrom(db[r][i], accepted)
    /\ row # NoRow => From(row, accepted)
    /\ version \subseteq accepted

------------------------------------------------------------------------------
(* The documents of a process. *)

Of(r) == {n \in DOMAIN relay.lives : relay.lives[n].replica = r}

\* A live document on its own.
LiveInd(n) ==
    LET live == relay.lives[n]
    IN  /\ live.replica \in running
        /\ ~live.dropping => (live.pending <=> live.timer)
        /\ live.timer => live.pending
        /\ live.dropping => live.peers = {} /\ ~live.timer
        /\ \A p \in Peers : p \in live.peers <=> peers[p].at = "in" /\ peers[p].live = n

PlaceInd(p) ==
    /\ peers[p].at # "nowhere" => peers[p].replica \in running
    /\ peers[p].at = "in" => peers[p].live \in Of(peers[p].replica)

MapInd(r) ==
    /\ relay.documents[r] # None => relay.documents[r] \in Of(r) /\ ~relay.lives[relay.documents[r]].dropping
    /\ relay.building[r] \in {None, Seeding} \cup Of(r)
    /\ relay.building[r] = Seeding => relay.documents[r] = None
    /\ relay.closed[r] => relay.documents[r] = None
    /\ r \notin running => db[r] = <<>> /\ relay.building[r] = None

Seeders == {r \in Replicas : relay.building[r] = Seeding}
RoomInd == Len(relay.lives) + Cardinality(Seeders) <= MaxBuilds

MapsInd ==
    /\ \A n \in DOMAIN relay.lives : LiveInd(n)
    /\ \A p \in Peers : PlaceInd(p)
    /\ \A r \in Replicas : MapInd(r)
    /\ RoomInd

------------------------------------------------------------------------------
(* The channels. *)

\* What the messages that wait at r bring.
Brought(r) == UNION {relay.inbox[r][i].doc.has : i \in DOMAIN relay.inbox[r]}
Subscribed(n) == relay.lives[n].bus # "none" /\ ~relay.lives[n].dropping

ChannelInd(r) ==
    /\ relay.channel[r] = "closed" => \A n \in Of(r) : relay.lives[n].bus = "none"
    /\ relay.channel[r] = "open" => \A n \in Of(r) : relay.lives[n].bus # "opening"
    /\ \A m, n \in Of(r) : relay.lives[m].bus = "opening" /\ relay.lives[n].bus = "opening" => m = n
    /\ relay.channel[r] # "closed" => r \in running
    /\ \A n \in Of(r) : Subscribed(n) =>
          owed[n] \subseteq IF relay.channel[r] = "open" THEN relay.lives[n].doc.has \cup Brought(r) ELSE {}

BusInd ==
    /\ \A r \in Replicas : ChannelInd(r)
    /\ \A n \in LiveIds \ DOMAIN relay.lives : owed[n] = {}

------------------------------------------------------------------------------
(* The queue of a process, and who is where. *)

Lookup(st) == st.kind \in {"load", "latest"} \/ (st.kind = "drop" /\ st.reseed)
Leaving(st) == st.kind = "save" /\ st.why \in {"leave", "close"}

\* One lookup at most is under way.
QueueInd(r) ==
    LET q == db[r]
    IN  /\ \A i \in DOMAIN q : i # 1 => ~q[i].done
        /\ relay.building[r] = Seeding <=> \E i \in DOMAIN q : Lookup(q[i])
        /\ \A i, j \in DOMAIN q : Lookup(q[i]) /\ Lookup(q[j]) => i = j
        /\ \A i \in DOMAIN q : q[i].kind = "save" =>
              q[i].live \in Of(r) /\ (q[i].why = "close" => relay.closed[r])

\* Where no process was told of a version that another one wrote.
Untold == Cardinality(running) = 1 \/ spent.versions = 0

\* Whoever is in a document is in the one the process hands out, and a save
\* that lets a document go does not let go of another one.
TogetherInd(r) ==
    LET q == db[r]
    IN  /\ ~relay.closed[r] => \A n \in Of(r) : relay.lives[n].peers # {} => relay.documents[r] = n
        /\ relay.building[r] = Seeding => \A n \in Of(r) : relay.lives[n].peers = {}
        /\ \A i, j \in DOMAIN q : Lookup(q[i]) /\ i < j => ~Leaving(q[j])
        /\ \A i \in DOMAIN q : Leaving(q[i]) =>
              relay.documents[r] \in {None, q[i].live} \/ relay.lives[q[i].live].dropping

UntoldInd ==
    /\ Cardinality(running) = 1 => \A r \in Replicas : relay.inbox[r] = <<>>
    /\ spent.versions = 0 =>
          \A r \in Replicas :
              /\ \A i \in DOMAIN relay.inbox[r] : relay.inbox[r][i].kind # "settled"
              /\ \A i \in DOMAIN db[r] : db[r][i].kind # "append"
    /\ Untold => \A r \in Replicas : TogetherInd(r)

------------------------------------------------------------------------------
(* Where an edit is that the relay answers for. *)

Writes(st) == ~st.done /\ st.kind \in {"save", "drop", "append"}
Appends(st) == ~st.done /\ st.kind = "append"

\* No version on its way takes it back.
Safe(q, e) == \A i \in DOMAIN q : q[i].kind = "append" => e \in q[i].circuit

\* What the next session would be seeded with, from the row w and the version v.
SeedOf(w, v) == IF w = NoRow THEN DocumentOf(v) ELSE w

\* The head version has it, or will before the i-th statement.
Versioned(v, q, i, e) == e \in v \/ \E j \in DOMAIN q : j < i /\ Appends(q[j])

\* The i-th statement leaves it to the next session.
Bequeaths(v, q, i, e) ==
    /\ q[i].kind = "save" => e \in Content(q[i].doc)
    /\ q[i].kind = "drop" => Versioned(v, q, i, e)

\* What is stored before the i-th statement runs has it.
Lasting(w, v, q, i, e) ==
    /\ (\A j \in DOMAIN q : j < i => ~Writes(q[j])) => e \in Content(SeedOf(w, v))
    /\ \A j \in DOMAIN q :
          j < i /\ Writes(q[j]) /\ (\A k \in DOMAIN q : j < k /\ k < i => ~Writes(q[k])) => Bequeaths(v, q, j, e)

\* Documents that may still be saved.
MaySave(r, n) == relay.lives[n].timer \/ relay.lives[n].peers # {} \/ relay.documents[r] = n

Armed(r) == ~relay.closed[r] /\ relay.documents[r] # None /\ relay.lives[relay.documents[r]].timer

TimerInd(r) ==
    LET q == db[r]
    IN  /\ ~relay.closed[r] => \A n \in Of(r) : relay.lives[n].timer => relay.documents[r] = n
        /\ relay.building[r] = Seeding => \A n \in Of(r) : ~relay.lives[n].timer
        /\ \A i, j \in DOMAIN q : Lookup(q[i]) /\ i < j => q[j].kind = "append"
        /\ \A i \in DOMAIN q : q[i].kind = "save" /\ q[i].why = "leave" /\ relay.documents[r] = q[i].live
                               /\ relay.lives[q[i].live].timer => relay.lives[q[i].live].peers # {}

AnswerInd(r) ==
    db[r] # <<>> /\ Head(db[r]).done =>
        /\ Head(db[r]).kind = "load" => Head(db[r]).got = row
        /\ Head(db[r]).kind = "latest" => Head(db[r]).got = version

\* An edit is in every document that may be saved, and what is stored has it
\* in the end or a timer will save it; what a lookup finds has it.
Has(r, e) ==
    LET q == db[r]
    IN  /\ \A n \in Of(r) : MaySave(r, n) => e \in Content(relay.lives[n].doc)
        /\ Lasting(row, version, q, Len(q) + 1, e) \/ Armed(r)
        /\ \A i \in DOMAIN q : Lookup(q[i]) =>
              Lasting(row, version, q, i, e) /\ (q[i].kind # "load" => Versioned(version, q, i, e))
KeptInd(r) == \A e \in kept : Safe(db[r], e) => Has(r, e)

SoloInd ==
    \A r \in Replicas : running = {r} =>
        /\ AnswerInd(r)
        /\ ~late => TimerInd(r) /\ KeptInd(r)

------------------------------------------------------------------------------
(* Sequences of statements and of messages. *)

\* What is left of a queue once c statements were answered (one at most) and
\* others were asked (one at most).
Turned(q, c, asked) == (IF c = 1 THEN Tail(q) ELSE q) \o asked

\* A queue is turned by shifting what it had and adding to its end.
TurnedTo(q, c, asked, t) ==
    /\ t \in Seq(Statements) /\ Len(t) = (Len(q) - c) + Len(asked)
    /\ \A i \in 1 .. Len(q) - c : i \in DOMAIN t /\ i + c \in DOMAIN q /\ t[i] = q[i + c]
    /\ \A i \in DOMAIN t : i \in 1 .. Len(q) - c \/ (i = Len(t) /\ Len(asked) = 1 /\ t[i] = asked[1])
    /\ Len(asked) = 1 => Len(t) \in DOMAIN t /\ t[Len(t)] = asked[1]

LEMMA TurnedIsTurned ==
    ASSUME NEW q \in Seq(Statements), NEW c \in {0, 1}, c = 1 => q # <<>>,
           NEW asked \in Seq(Statements), Len(asked) \in {0, 1}
    PROVE  TurnedTo(q, c, asked, Turned(q, c, asked))
<1> DEFINE t == Turned(q, c, asked)
           b == IF c = 1 THEN Tail(q) ELSE q
<1>1. b \in Seq(Statements) /\ Len(b) = Len(q) - c /\ \A i \in 1 .. Len(b) : b[i] = q[i + c]
  BY DEF b
<1>2. Len(b) \in Nat /\ Len(q) \in Nat /\ Len(asked) \in Nat
  BY <1>1
<1> HIDE DEF b
<1>3. t = b \o asked
  BY DEF b, Turned
<1>4. t \in Seq(Statements) /\ Len(t) = Len(b) + Len(asked)
  BY <1>1, <1>2, <1>3
<1>8. DOMAIN t = 1 .. Len(t) /\ DOMAIN q = 1 .. Len(q)
  BY <1>4
<1> HIDE DEF t
<1>9. \A i \in 1 .. Len(b) : i \in DOMAIN t /\ i + c \in DOMAIN q
  BY <1>1, <1>2, <1>4, <1>8
<1>10. \A i \in 1 .. Len(b) : t[i] = b[i]
  BY <1>1, <1>2, <1>3
<1>5. \A i \in 1 .. Len(b) : i \in DOMAIN t /\ i + c \in DOMAIN q /\ t[i] = q[i + c]
  BY <1>1, <1>9, <1>10
<1>6. \A i \in DOMAIN t : i \in 1 .. Len(b) \/ (i = Len(t) /\ Len(asked) = 1 /\ t[i] = asked[1])
  BY <1>1, <1>2, <1>3, <1>4
<1>7. Len(asked) = 1 => Len(t) \in DOMAIN t /\ t[Len(t)] = asked[1]
  BY <1>1, <1>2, <1>3, <1>4
<1> HIDE DEF t
<1> QED BY <1>1, <1>4, <1>5, <1>6, <1>7 DEF TurnedTo, t

LEMMA OneStatement ==
    ASSUME NEW st \in Statements
    PROVE  <<st>> \in Seq(Statements) /\ Len(<<st>>) = 1 /\ <<st>>[1] = st
OBVIOUS

LEMMA NoStatement ==
    <<>> \in Seq(Statements) /\ Len(<<>>) = 0
OBVIOUS

------------------------------------------------------------------------------
(* What the functions of the registry make. *)

\* The functions make states of the relay from states of the relay.
Box(s, r, m) == [q \in Replicas |-> IF q # r /\ s.channel[q] = "open" THEN Append(s.inbox[q], m) ELSE s.inbox[q]]

SameObjects(s, t) == t.lives = s.lives
SameMaps(s, t) == t.documents = s.documents /\ t.building = s.building /\ t.closed = s.closed
SameWires(s, t) == t.channel = s.channel /\ t.inbox = s.inbox
SameAsks(s, t) == t.db = s.db
SameOut(s, t) == t.out = s.out

Published(s, r, m, t) ==
    /\ t \in Relays /\ SameObjects(s, t) /\ SameMaps(s, t) /\ SameAsks(s, t) /\ SameOut(s, t)
    /\ t.channel = s.channel /\ t.inbox = Box(s, r, m)

LEMMA BoxIsTyped ==
    ASSUME NEW s \in Relays, NEW r \in Replicas, NEW m \in Messages
    PROVE  Box(s, r, m) \in [Replicas -> Seq(Messages)]
<1>1. s.inbox \in [Replicas -> Seq(Messages)]
  BY DEF Relays
<1>2. \A q \in Replicas : Append(s.inbox[q], m) \in Seq(Messages)
  BY <1>1
<1> QED BY <1>1, <1>2 DEF Box

LEMMA PublishMakes ==
    ASSUME NEW s \in Relays, NEW r \in Replicas, NEW m \in Messages
    PROVE  Published(s, r, m, Publish(s, r, m))
<1>1. Publish(s, r, m) = [s EXCEPT !.inbox = Box(s, r, m)]
  BY DEF Publish, Box, Relays
<1>2. Box(s, r, m) \in [Replicas -> Seq(Messages)]
  BY BoxIsTyped
<1> QED BY <1>1, <1>2 DEF Published, Relays, SameObjects, SameMaps, SameAsks, SameOut

Asked(s, r, st, t) ==
    /\ t \in Relays /\ SameObjects(s, t) /\ SameMaps(s, t) /\ SameWires(s, t) /\ SameOut(s, t)
    /\ t.db = [s.db EXCEPT ![r] = Append(s.db[r], st)]

LEMMA AskMakes ==
    ASSUME NEW s \in Relays, NEW r \in Replicas, NEW st \in Statements
    PROVE  Asked(s, r, st, Ask(s, r, st))
<1>1. Ask(s, r, st) = [s EXCEPT !.db = [s.db EXCEPT ![r] = Append(s.db[r], st)]]
  BY DEF Ask, Relays
<1>2. s.db \in [Replicas -> Seq(Statements)] /\ Append(s.db[r], st) \in Seq(Statements)
  BY DEF Relays
<1>3. [s.db EXCEPT ![r] = Append(s.db[r], st)] \in [Replicas -> Seq(Statements)]
  BY <1>2
<1> QED BY <1>1, <1>3 DEF Asked, Relays, SameObjects, SameMaps, SameWires, SameOut

\* One document becomes v.
Rewritten(s, n, v, t) ==
    /\ t \in Relays /\ SameMaps(s, t) /\ SameWires(s, t) /\ SameAsks(s, t) /\ SameOut(s, t)
    /\ t.lives = [s.lives EXCEPT ![n] = v]

LEMMA RewriteMakes ==
    ASSUME NEW s \in Relays, NEW n \in DOMAIN s.lives, NEW v \in Lives
    PROVE  Rewritten(s, n, v, [s EXCEPT !.lives = [s.lives EXCEPT ![n] = v]])
<1>1. s.lives \in Seq(Lives)
  BY DEF Relays
<1>2. [s.lives EXCEPT ![n] = v] \in Seq(Lives)
  BY <1>1
<1> QED BY <1>2 DEF Rewritten, Relays, SameMaps, SameWires, SameAsks, SameOut

\* The fields of the relay's state.
LEMMA RelayFields ==
    ASSUME NEW s \in Relays
    PROVE  /\ s.lives \in Seq(Lives) /\ DOMAIN s.lives = 1 .. Len(s.lives) /\ Len(s.lives) \in Nat
           /\ \A n \in DOMAIN s.lives : s.lives[n] \in Lives
           /\ s.documents \in [Replicas -> Nat] /\ s.building \in [Replicas -> Nat]
           /\ s.closed \in [Replicas -> BOOLEAN]
           /\ s.channel \in [Replicas -> {"closed", "opening", "open"}]
           /\ s.inbox \in [Replicas -> Seq(Messages)] /\ s.db \in [Replicas -> Seq(Statements)]
           /\ s.out \in SUBSET Peers
<1>1. s.lives \in Seq(Lives)
  BY DEF Relays
<1> QED BY <1>1 DEF Relays

LEMMA RewriteIs ==
    ASSUME NEW s \in Relays, NEW n \in DOMAIN s.lives, NEW v \in Lives, NEW t,
           Rewritten(s, n, v, t)
    PROVE  /\ DOMAIN t.lives = DOMAIN s.lives /\ t.lives[n] = v
           /\ \A m \in DOMAIN s.lives : m # n => t.lives[m] = s.lives[m]
<1>1. s.lives \in Seq(Lives)
  BY RelayFields
<1> QED BY <1>1 DEF Rewritten

LEMMA ObjectsAreTyped ==
    ASSUME NEW s \in Relays, NEW f, f = [n \in DOMAIN s.lives |-> f[n]],
           \A n \in DOMAIN s.lives : f[n] \in Lives
    PROVE  f \in Seq(Lives)
<1>1. s.lives \in Seq(Lives)
  BY DEF Relays
<1>2. PICK k \in Nat : DOMAIN s.lives = 1 .. k
  BY <1>1
<1>3. f \in [1 .. k -> Lives]
  BY <1>2
<1> QED BY <1>3

\* A document with other fields is a document.
LEMMA LiveFields ==
    ASSUME NEW l \in Lives
    PROVE  /\ l.replica \in Replicas /\ l.doc \in Documents /\ l.peers \in SUBSET Peers
           /\ l.pending \in BOOLEAN /\ l.timer \in BOOLEAN /\ l.bus \in {"none", "opening", "open"}
           /\ l.dropping \in BOOLEAN
BY DEF Lives

------------------------------------------------------------------------------
(* The bus. *)

OpenLive(l) == [l EXCEPT !.bus = "open"]
Greeting == Message("sync-request", Nothing)

OpenedTo(s, n, t) ==
    /\ t \in Relays /\ SameMaps(s, t) /\ SameAsks(s, t) /\ SameOut(s, t)
    /\ t.channel = s.channel /\ t.inbox = Box(s, s.lives[n].replica, Greeting)
    /\ t.lives = [s.lives EXCEPT ![n] = OpenLive(s.lives[n])]

LEMMA GreetingIsMessage ==
    Greeting \in Messages /\ Greeting.kind = "sync-request" /\ Greeting.doc.has = {} /\ Greeting.doc.gone = {}
BY DEF Greeting, Message, Nothing, DocumentOf, Messages, Documents

LEMMA OpenedMakes ==
    ASSUME NEW s \in Relays, NEW n \in DOMAIN s.lives
    PROVE  OpenedTo(s, n, Opened(s, n))
<1> DEFINE r == s.lives[n].replica
           u == [s EXCEPT !.lives = [s.lives EXCEPT ![n] = OpenLive(s.lives[n])]]
<1>1. s.lives \in Seq(Lives) /\ s.lives[n] \in Lives /\ r \in Replicas
  BY RelayFields, LiveFields
<1>2. OpenLive(s.lives[n]) \in Lives
  BY <1>1 DEF OpenLive, Lives
<1>3. Rewritten(s, n, OpenLive(s.lives[n]), u)
  BY <1>2, RewriteMakes
<1>4. [s EXCEPT !.lives[n].bus = "open"] = u
  BY <1>1 DEF OpenLive, Relays
<1>5. Opened(s, n) = Publish(u, r, Greeting)
  BY <1>4 DEF Opened, Greeting
<1> HIDE DEF u, r
<1>6. u \in Relays
  BY <1>3 DEF Rewritten
<1>7. Published(u, r, Greeting, Publish(u, r, Greeting))
  BY <1>1, <1>6, GreetingIsMessage, PublishMakes
<1>8. Box(u, r, Greeting) = Box(s, r, Greeting)
  BY <1>3 DEF Rewritten, SameWires, Box
<1> QED BY <1>3, <1>5, <1>7, <1>8 DEF OpenedTo, Published, Rewritten, SameMaps, SameAsks, SameOut, SameWires, SameObjects, r

\* The first listener opens the channel; a later one is served at once.
Opening(s, n, t) ==
    /\ t \in Relays /\ SameMaps(s, t) /\ SameAsks(s, t) /\ SameOut(s, t)
    /\ t.channel = [s.channel EXCEPT ![s.lives[n].replica] = "opening"] /\ t.inbox = s.inbox
    /\ t.lives = [s.lives EXCEPT ![n] = [s.lives[n] EXCEPT !.bus = "opening"]]

LEMMA ListenMakes ==
    ASSUME NEW s \in Relays, NEW n \in DOMAIN s.lives
    PROVE  /\ s.channel[s.lives[n].replica] # "closed" => OpenedTo(s, n, Listen(s, n))
           /\ s.channel[s.lives[n].replica] = "closed" => Opening(s, n, Listen(s, n))
<1> DEFINE r == s.lives[n].replica
           v == [s.lives[n] EXCEPT !.bus = "opening"]
           u == [s EXCEPT !.lives = [s.lives EXCEPT ![n] = v]]
           w == [u EXCEPT !.channel = [s.channel EXCEPT ![r] = "opening"]]
<1>1. s.lives \in Seq(Lives) /\ s.lives[n] \in Lives /\ r \in Replicas
  BY RelayFields, LiveFields
<1>2. v \in Lives
  BY <1>1 DEF Lives
<1>3. Rewritten(s, n, v, u)
  BY <1>2, RewriteMakes
<1>4. CASE s.channel[r] # "closed"
  <2>1. Listen(s, n) = Opened(s, n)
    BY <1>4 DEF Listen
  <2> QED BY <1>4, <2>1, OpenedMakes
<1>5. CASE s.channel[r] = "closed"
  <2>1. Listen(s, n) = [s EXCEPT !.channel[r] = "opening", !.lives[n].bus = "opening"]
    BY <1>5 DEF Listen
  <2>2. Listen(s, n) = w
    BY <2>1, <1>1 DEF Relays
  <2>3. s.channel \in [Replicas -> {"closed", "opening", "open"}]
    BY DEF Relays
  <2>4. [s.channel EXCEPT ![r] = "opening"] \in [Replicas -> {"closed", "opening", "open"}]
    BY <2>3
  <2>5. u \in Relays
    BY <1>3 DEF Rewritten
  <2> HIDE DEF u, v
  <2>6. /\ w \in Relays /\ w.channel = [s.channel EXCEPT ![r] = "opening"]
        /\ w.lives = u.lives /\ w.documents = u.documents /\ w.building = u.building /\ w.closed = u.closed
        /\ w.inbox = u.inbox /\ w.db = u.db /\ w.out = u.out
    BY <2>4, <2>5 DEF Relays
  <2> HIDE DEF w, r
  <2>7. Opening(s, n, w)
    BY <2>6, <1>3 DEF Opening, Rewritten, SameMaps, SameAsks, SameOut, SameWires, r, v
  <2> QED BY <1>5, <2>2, <2>7 DEF r
<1> QED BY <1>4, <1>5

\* What becomes of the channel of r when these documents release theirs.
Shut(s, r, given) ==
    LET open == {n \in given : s.lives[n].bus = "open"}
    IN  IF open # {} /\ Listeners(s, r) = open THEN "closed" ELSE s.channel[r]
FreeLive(l) == [l EXCEPT !.bus = IF @ = "open" THEN "none" ELSE @]

Freed(s, r, given, t) ==
    /\ t \in Relays /\ SameMaps(s, t) /\ SameAsks(s, t) /\ SameOut(s, t)
    /\ t.channel = [s.channel EXCEPT ![r] = Shut(s, r, given)] /\ t.inbox = s.inbox
    /\ t.lives = [n \in DOMAIN s.lives |-> IF n \in given THEN FreeLive(s.lives[n]) ELSE s.lives[n]]

LEMMA ReleaseMakes ==
    ASSUME NEW s \in Relays, NEW r \in Replicas, NEW given \in SUBSET DOMAIN s.lives
    PROVE  Freed(s, r, given, ReleaseAll(s, r, given))
<1> DEFINE open == {n \in given : s.lives[n].bus = "open"}
           f == [n \in DOMAIN s.lives |-> IF n \in given THEN FreeLive(s.lives[n]) ELSE s.lives[n]]
           c == [s.channel EXCEPT ![r] = Shut(s, r, given)]
<1>1. s.lives \in Seq(Lives) /\ \A n \in DOMAIN s.lives : s.lives[n] \in Lives
  BY DEF Relays
<1>2. \A n \in DOMAIN s.lives : FreeLive(s.lives[n]) \in Lives
  BY <1>1 DEF FreeLive, Lives
<1>3. f \in Seq(Lives)
  BY <1>1, <1>2, ObjectsAreTyped
<1>4. f = [n \in DOMAIN s.lives |-> IF n \in open THEN [s.lives[n] EXCEPT !.bus = "none"] ELSE s.lives[n]]
  <2>1. \A n \in DOMAIN s.lives : s.lives[n].bus = "open" => FreeLive(s.lives[n]) = [s.lives[n] EXCEPT !.bus = "none"]
    BY <1>1 DEF FreeLive
  <2>2. \A n \in DOMAIN s.lives : s.lives[n].bus # "open" => FreeLive(s.lives[n]) = s.lives[n]
    BY <1>1 DEF FreeLive, Lives
  <2> QED BY <2>1, <2>2
<1>5. s.channel \in [Replicas -> {"closed", "opening", "open"}]
  BY DEF Relays
<1>6. c \in [Replicas -> {"closed", "opening", "open"}]
  BY <1>5 DEF Shut
<1>7. ReleaseAll(s, r, given) = [s EXCEPT !.channel = c, !.lives = f]
  BY <1>4, <1>5 DEF ReleaseAll, Shut, Relays
<1> HIDE DEF f, c, open
<1>8. [s EXCEPT !.channel = c, !.lives = f] \in Relays
  BY <1>3, <1>6 DEF Relays
<1> QED BY <1>7, <1>8 DEF Freed, Relays, SameMaps, SameAsks, SameOut, f, c

------------------------------------------------------------------------------
(* Documents that are dropped. *)

DropLive(l) == [l EXCEPT !.dropping = TRUE, !.timer = FALSE, !.peers = {},
                         !.bus = IF @ = "open" THEN "none" ELSE @]

\* These documents of r are dropped, whatever is asked of the store.
DroppedBut(s, r, given, t) ==
    /\ t \in Relays
    /\ t.documents = [s.documents EXCEPT ![r] = IF given = {} THEN @ ELSE None]
    /\ t.building = s.building /\ t.closed = s.closed
    /\ t.channel = [s.channel EXCEPT ![r] = Shut(s, r, given)] /\ t.inbox = s.inbox
    /\ t.lives = [n \in DOMAIN s.lives |-> IF n \in given THEN DropLive(s.lives[n]) ELSE s.lives[n]]
    /\ t.out = s.out \cup UNION {s.lives[n].peers : n \in given}
Dropped(s, r, given, t) == DroppedBut(s, r, given, t) /\ SameAsks(s, t)

LEMMA DropAllMakes ==
    ASSUME NEW s \in Relays, NEW r \in Replicas, NEW given \in SUBSET DOMAIN s.lives
    PROVE  Dropped(s, r, given, DropAll(s, r, given))
<1> DEFINE u == ReleaseAll(s, r, given)
           f == [n \in DOMAIN s.lives |-> IF n \in given THEN DropLive(s.lives[n]) ELSE s.lives[n]]
           d == [s.documents EXCEPT ![r] = IF given = {} THEN @ ELSE None]
           o == s.out \cup UNION {s.lives[n].peers : n \in given}
<1>1. s.lives \in Seq(Lives) /\ \A n \in DOMAIN s.lives : s.lives[n] \in Lives
  BY DEF Relays
<1>2. \A n \in DOMAIN s.lives : DropLive(s.lives[n]) \in Lives
  BY <1>1 DEF DropLive, Lives
<1>3. f \in Seq(Lives)
  BY <1>1, <1>2, ObjectsAreTyped
<1>4. Freed(s, r, given, u)
  BY ReleaseMakes
<1>5. u \in Relays /\ DOMAIN u.lives = DOMAIN s.lives
  BY <1>4 DEF Freed
<1>6. [n \in DOMAIN u.lives |-> IF n \in given
          THEN [u.lives[n] EXCEPT !.dropping = TRUE, !.timer = FALSE, !.peers = {}] ELSE u.lives[n]] = f
  <2>1. \A n \in DOMAIN s.lives : [FreeLive(s.lives[n]) EXCEPT !.dropping = TRUE, !.timer = FALSE, !.peers = {}] = DropLive(s.lives[n])
    BY <1>1 DEF FreeLive, DropLive, Lives
  <2> QED BY <2>1, <1>4 DEF Freed
<1>7. s.documents \in [Replicas -> Nat] /\ s.out \in SUBSET Peers
  BY DEF Relays
<1>8. d \in [Replicas -> Nat]
  BY <1>7 DEF None
<1>9. o \in SUBSET Peers
  BY <1>1, <1>7, LiveFields
<1>10. u.documents = s.documents /\ u.out = s.out
  BY <1>4 DEF Freed, SameMaps, SameOut
<1>11. DropAll(s, r, given) = [u EXCEPT !.documents = d, !.lives = f, !.out = o]
  BY <1>5, <1>6, <1>10 DEF DropAll, Relays
<1> HIDE DEF f, d, o, u
<1>12. [u EXCEPT !.documents = d, !.lives = f, !.out = o] \in Relays
  BY <1>3, <1>5, <1>8, <1>9 DEF Relays
<1>13. LET t == DropAll(s, r, given)
       IN  /\ t.documents = d /\ t.lives = f /\ t.out = o /\ t.building = u.building /\ t.closed = u.closed
           /\ t.channel = u.channel /\ t.inbox = u.inbox /\ t.db = u.db
  BY <1>5, <1>11 DEF Relays
<1> QED BY <1>4, <1>11, <1>12, <1>13 DEF Dropped, DroppedBut, Freed, SameMaps, SameAsks, SameOut, f, d, o

LEMMA DropMakes ==
    ASSUME NEW s \in Relays, NEW n \in DOMAIN s.lives
    PROVE  LET r == s.lives[n].replica
               t == Drop(s, n, TRUE)
               u == Drop(s, n, FALSE)
           IN  /\ s.lives[n].dropping => t = s /\ u = s
               /\ ~s.lives[n].dropping => Dropped(s, r, {n}, t) /\ DroppedBut(s, r, {n}, u)
               /\ ~s.lives[n].dropping => u.db = [s.db EXCEPT ![r] = Append(s.db[r], DropSession(FALSE))]
<1> DEFINE r == s.lives[n].replica
           g == DropAll(s, r, {n})
           t == Drop(s, n, TRUE)
           u == Drop(s, n, FALSE)
<1>1. s.lives[n] \in Lives
  BY RelayFields
<1>2. r \in Replicas /\ s.lives[n].dropping \in BOOLEAN
  BY <1>1, LiveFields
<1>3. Dropped(s, r, {n}, g)
  BY <1>2, DropAllMakes
<1>4. DropSession(FALSE) \in Statements
  BY DEF DropSession, Statements
<1>5. g \in Relays /\ DroppedBut(s, r, {n}, g) /\ g.db = s.db
  BY <1>3 DEF Dropped, DroppedBut, SameAsks
<1>6. Asked(g, r, DropSession(FALSE), Ask(g, r, DropSession(FALSE)))
  BY <1>2, <1>4, <1>5, AskMakes
<1>7. s.lives[n].dropping => t = s /\ u = s
  BY DEF Drop
<1>8. ~s.lives[n].dropping => t = g
  BY DEF Drop
<1>9. ~s.lives[n].dropping => u = Ask(g, r, DropSession(FALSE))
  BY DEF Drop
<1> HIDE DEF g, t, u, r
<1>10. ~s.lives[n].dropping => DroppedBut(s, r, {n}, u)
  BY <1>5, <1>6, <1>9 DEF Asked, DroppedBut, SameObjects, SameMaps, SameWires, SameOut
<1>11. ~s.lives[n].dropping => u.db = [s.db EXCEPT ![r] = Append(s.db[r], DropSession(FALSE))]
  BY <1>5, <1>6, <1>9 DEF Asked
<1> QED BY <1>3, <1>7, <1>8, <1>10, <1>11 DEF r, t, u

------------------------------------------------------------------------------
(* Saves. *)

RestLive(l) == [l EXCEPT !.pending = FALSE, !.timer = FALSE]

FlushedTo(s, n, why, t) ==
    /\ t \in Relays /\ SameMaps(s, t) /\ SameWires(s, t) /\ SameOut(s, t)
    /\ t.lives = [s.lives EXCEPT ![n] = RestLive(s.lives[n])]
    /\ LET r == s.lives[n].replica
       IN  t.db = [s.db EXCEPT ![r] = Append(s.db[r], SaveSession(n, s.lives[n].doc, why))]

LEMMA SaveIsStatement ==
    ASSUME NEW n \in Nat, NEW doc \in Documents, NEW why \in {"timer", "leave", "close"}
    PROVE  SaveSession(n, doc, why) \in Statements
BY DEF SaveSession, Statements

LEMMA FlushMakes ==
    ASSUME NEW s \in Relays, NEW n \in DOMAIN s.lives, NEW why \in {"timer", "leave", "close"}
    PROVE  /\ s.lives[n].pending => FlushedTo(s, n, why, Flush(s, n, why))
           /\ ~s.lives[n].pending => Flush(s, n, why) = Flushed(s, n, why)
<1> DEFINE r == s.lives[n].replica
           v == RestLive(s.lives[n])
           st == SaveSession(n, s.lives[n].doc, why)
           u == [s EXCEPT !.lives = [s.lives EXCEPT ![n] = v]]
<1>1. s.lives \in Seq(Lives) /\ s.lives[n] \in Lives /\ n \in Nat
  BY RelayFields
<1>2. r \in Replicas /\ s.lives[n].doc \in Documents /\ s.lives[n].pending \in BOOLEAN
  BY <1>1, LiveFields
<1>3. v \in Lives
  BY <1>1 DEF RestLive, Lives
<1>4. Rewritten(s, n, v, u)
  BY <1>3, RewriteMakes
<1>5. u \in Relays
  BY <1>4 DEF Rewritten
<1>6. st \in Statements
  BY <1>1, <1>2, SaveIsStatement
<1>7. [s EXCEPT !.lives[n].pending = FALSE, !.lives[n].timer = FALSE] = u
  BY <1>1 DEF RestLive, Relays
<1>8. CASE s.lives[n].pending
  <2>1. Flush(s, n, why) = Ask(u, r, st)
    BY <1>7, <1>8 DEF Flush
  <2> HIDE DEF u, v, st, r
  <2>2. Asked(u, r, st, Ask(u, r, st))
    BY <1>2, <1>5, <1>6, AskMakes
  <2>3. FlushedTo(s, n, why, Ask(u, r, st))
    BY <2>2, <1>4 DEF Asked, Rewritten, FlushedTo, SameMaps, SameWires, SameOut, SameAsks, SameObjects, v, st, r
  <2> QED BY <2>1, <2>3, <1>8
<1>9. CASE ~s.lives[n].pending
  <2>1. Flush(s, n, why) = Flushed(s, n, why)
    BY <1>9 DEF Flush
  <2> QED BY <2>1, <1>9
<1> QED BY <1>2, <1>8, <1>9

\* The map of r lets its document go.
Forgot(s, r, t) ==
    /\ t \in Relays /\ SameObjects(s, t) /\ SameWires(s, t) /\ SameAsks(s, t) /\ SameOut(s, t)
    /\ t.building = s.building /\ t.closed = s.closed
    /\ t.documents = [s.documents EXCEPT ![r] = None]

LEMMA FlushedMakes ==
    ASSUME NEW s \in Relays, NEW n \in DOMAIN s.lives, NEW why \in {"timer", "leave", "close"}
    PROVE  LET t == Flushed(s, n, why)
               gone == s.lives[n].peers = {} /\ ~s.lives[n].dropping
           IN  /\ why = "timer" => t = s
               /\ why = "leave" /\ gone => Forgot(s, s.lives[n].replica, t)
               /\ why = "leave" /\ ~gone => t = s
               /\ why = "close" => t = Drop(s, n, TRUE)
<1> DEFINE r == s.lives[n].replica
           u == [s EXCEPT !.documents = [s.documents EXCEPT ![r] = None]]
<1>1. s.lives[n] \in Lives
  BY RelayFields
<1>2. r \in Replicas /\ s.documents \in [Replicas -> Nat]
  BY <1>1, LiveFields, RelayFields
<1>3. [s.documents EXCEPT ![r] = None] \in [Replicas -> Nat]
  BY <1>2 DEF None
<1>4. Forgot(s, r, u)
  BY <1>3 DEF Forgot, Relays, SameObjects, SameWires, SameAsks, SameOut
<1>5. [s EXCEPT !.documents[r] = None] = u
  BY DEF Relays
<1>6. why = "close" => Flushed(s, n, why) = Drop(s, n, TRUE)
  BY DEF Flushed
<1>7. why = "leave" /\ s.lives[n].peers = {} /\ ~s.lives[n].dropping => Flushed(s, n, why) = u
  BY <1>5 DEF Flushed
<1>8. why = "timer" \/ (why = "leave" /\ ~(s.lives[n].peers = {} /\ ~s.lives[n].dropping)) => Flushed(s, n, why) = s
  BY DEF Flushed
<1> HIDE DEF u, r
<1> QED BY <1>4, <1>6, <1>7, <1>8 DEF r

------------------------------------------------------------------------------
(* Edits and versions. *)

DirtyLive(l, doc) == [l EXCEPT !.doc = doc, !.pending = TRUE, !.timer = TRUE]
With(doc, edit) == [doc EXCEPT !.has = @ \cup {edit}]
Update(doc) == Message("update", doc)

LEMMA UpdateIsMessage ==
    ASSUME NEW doc \in Documents
    PROVE  Update(doc) \in Messages /\ Update(doc).kind = "update" /\ Update(doc).doc = doc
BY DEF Update, Message, Messages

LEMMA DirtyIsLive ==
    ASSUME NEW l \in Lives, NEW doc \in Documents
    PROVE  DirtyLive(l, doc) \in Lives
BY DEF DirtyLive, Lives

LEMMA MarkMakes ==
    ASSUME NEW s \in Relays, NEW n \in DOMAIN s.lives
    PROVE  MarkDirty(s, n) = [s EXCEPT !.lives = [s.lives EXCEPT ![n] = [s.lives[n] EXCEPT !.pending = TRUE, !.timer = TRUE]]]
<1>1. s.lives[n] \in Lives
  BY RelayFields
<1> QED BY <1>1 DEF MarkDirty, Relays

\* A document that becomes doc and dirty, in two assignments.
LEMMA TouchMakes ==
    ASSUME NEW s \in Relays, NEW n \in DOMAIN s.lives, NEW doc \in Documents
    PROVE  LET w == [s EXCEPT !.lives = [s.lives EXCEPT ![n] = [s.lives[n] EXCEPT !.doc = doc]]]
               v == DirtyLive(s.lives[n], doc)
           IN  /\ MarkDirty(w, n) = [s EXCEPT !.lives = [s.lives EXCEPT ![n] = v]]
               /\ Rewritten(s, n, v, MarkDirty(w, n))
<1> DEFINE a == [s.lives[n] EXCEPT !.doc = doc]
           w == [s EXCEPT !.lives = [s.lives EXCEPT ![n] = a]]
           v == DirtyLive(s.lives[n], doc)
           u == [s EXCEPT !.lives = [s.lives EXCEPT ![n] = v]]
<1>1. s.lives \in Seq(Lives) /\ s.lives[n] \in Lives
  BY RelayFields
<1>2. a \in Lives
  BY <1>1 DEF Lives
<1>3. Rewritten(s, n, a, w)
  BY <1>2, RewriteMakes
<1>4. w \in Relays /\ DOMAIN w.lives = DOMAIN s.lives /\ w.lives[n] = a
  BY <1>1, <1>3 DEF Rewritten
<1>5. MarkDirty(w, n) = [w EXCEPT !.lives = [w.lives EXCEPT ![n] = [w.lives[n] EXCEPT !.pending = TRUE, !.timer = TRUE]]]
  BY <1>4, MarkMakes
<1>6. [a EXCEPT !.pending = TRUE, !.timer = TRUE] = v
  BY <1>1 DEF DirtyLive, Lives
<1>7. v \in Lives
  BY <1>1, DirtyIsLive
<1>8. Rewritten(s, n, v, u)
  BY <1>7, RewriteMakes
<1>9. w.lives = [s.lives EXCEPT ![n] = a]
  BY <1>3 DEF Rewritten
<1> HIDE DEF a, v
<1>10. MarkDirty(w, n) = [w EXCEPT !.lives = [w.lives EXCEPT ![n] = v]]
  BY <1>4, <1>5, <1>6
<1>11. [w.lives EXCEPT ![n] = v] = [s.lives EXCEPT ![n] = v]
  BY <1>1, <1>9
<1>12. MarkDirty(w, n) = u
  BY <1>10, <1>11 DEF Relays
<1> QED BY <1>8, <1>12 DEF v, a

EditedTo(s, n, edit, t) ==
    /\ t \in Relays /\ SameMaps(s, t) /\ SameAsks(s, t) /\ SameOut(s, t)
    /\ t.channel = s.channel /\ t.inbox = Box(s, s.lives[n].replica, Update(DocumentOf({edit})))
    /\ t.lives = [s.lives EXCEPT ![n] = DirtyLive(s.lives[n], With(s.lives[n].doc, edit))]

LEMMA AcceptedMakes ==
    ASSUME NEW s \in Relays, NEW n \in DOMAIN s.lives, NEW edit \in Edits
    PROVE  EditedTo(s, n, edit, Accepted(s, n, edit))
<1> DEFINE r == s.lives[n].replica
           m == Update(DocumentOf({edit}))
           v == DirtyLive(s.lives[n], With(s.lives[n].doc, edit))
           u == [s EXCEPT !.lives = [s.lives EXCEPT ![n] = v]]
           w == [s EXCEPT !.lives[n].doc.has = @ \cup {edit}]
<1>1. s.lives \in Seq(Lives) /\ s.lives[n] \in Lives
  BY RelayFields
<1>2. r \in Replicas /\ s.lives[n].doc \in Documents
  BY <1>1, LiveFields
<1>3. With(s.lives[n].doc, edit) \in Documents
  BY <1>2 DEF With, Documents
<1>4. v \in Lives
  BY <1>1, <1>3, DirtyIsLive
<1>5. Rewritten(s, n, v, u)
  BY <1>4, RewriteMakes
<1>6. DocumentOf({edit}) \in Documents
  BY DEF DocumentOf, Documents
<1>7. m \in Messages
  BY <1>6, UpdateIsMessage
<1>8. w = [s EXCEPT !.lives = [s.lives EXCEPT ![n] = [s.lives[n] EXCEPT !.doc = With(s.lives[n].doc, edit)]]]
  BY <1>1 DEF With, Relays
<1>9. MarkDirty(w, n) = u
  BY <1>3, <1>8, TouchMakes
<1>10. w.lives[n].replica = r
  BY <1>1, <1>8 DEF Lives, Relays
<1>11. Accepted(s, n, edit) = Publish(u, s.lives[n].replica, m)
  BY <1>9 DEF Accepted, Update
<1> HIDE DEF u, v, w, m
<1>12. u \in Relays
  BY <1>5 DEF Rewritten
<1>13. Published(u, r, m, Publish(u, r, m))
  BY <1>2, <1>7, <1>12, PublishMakes
<1>14. Box(u, r, m) = Box(s, r, m)
  BY <1>5 DEF Rewritten, SameWires, Box
<1> HIDE DEF r
<1> QED BY <1>5, <1>11, <1>13, <1>14 DEF EditedTo, Published, Rewritten, SameMaps, SameAsks, SameOut, SameWires, SameObjects, r, m, v

\* Two messages that are published together.
Box2(s, r, m, o) ==
    [q \in Replicas |-> IF q # r /\ s.channel[q] = "open" THEN Append(Append(s.inbox[q], m), o) ELSE s.inbox[q]]

Told == Message("settled", Nothing)

LEMMA ToldIsMessage ==
    Told \in Messages /\ Told.kind = "settled" /\ Told.doc.has = {} /\ Told.doc.gone = {}
BY DEF Told, Message, Nothing, DocumentOf, Messages, Documents

Reverted(doc, circuit) == [has |-> circuit, gone |-> Content(doc) \ circuit]

SettledTo(s, n, r, circuit, t) ==
    LET back == Reverted(s.lives[n].doc, circuit)
    IN  /\ t \in Relays /\ SameMaps(s, t) /\ SameAsks(s, t) /\ SameOut(s, t)
        /\ t.channel = s.channel /\ t.inbox = Box2(s, r, Told, Update(back))
        /\ t.lives = [s.lives EXCEPT ![n] = DirtyLive(s.lives[n], Merge(s.lives[n].doc, back))]

LEMMA RevertedIsDocument ==
    ASSUME NEW doc \in Documents, NEW circuit \in SUBSET Edits
    PROVE  /\ Reverted(doc, circuit) \in Documents
           /\ Merge(doc, Reverted(doc, circuit)) \in Documents
BY DEF Reverted, Merge, Documents, Content

LEMMA SettleMakes ==
    ASSUME NEW s \in Relays, NEW r \in Replicas, NEW circuit \in SUBSET Edits,
           s.documents[r] # None => s.documents[r] \in DOMAIN s.lives
    PROVE  LET n == s.documents[r]
               t == Settle(s, r, circuit)
           IN  /\ n = None => Published(s, r, Told, t)
               /\ n # None => (Content(s.lives[n].doc) = circuit => Published(s, r, Told, t))
               /\ n # None => (Content(s.lives[n].doc) # circuit => SettledTo(s, n, r, circuit, t))
<1> DEFINE n == s.documents[r]
           t == Settle(s, r, circuit)
           told == Publish(s, r, Told)
<1>1. Published(s, r, Told, told)
  BY PublishMakes, ToldIsMessage
<1>2. told \in Relays
  BY <1>1 DEF Published
<1>3. CASE n = None \/ Content(s.lives[n].doc) = circuit
  <2>1. t = told
    BY <1>3 DEF Settle, Told
  <2> HIDE DEF t, told
  <2> QED BY <1>1, <1>3, <2>1 DEF t
<1>4. CASE n # None /\ Content(s.lives[n].doc) # circuit
  <2> DEFINE back == Reverted(s.lives[n].doc, circuit)
             doc == Merge(s.lives[n].doc, back)
             w == [told EXCEPT !.lives = [told.lives EXCEPT ![n] = [told.lives[n] EXCEPT !.doc = doc]]]
             u == MarkDirty(w, n)
  <2>1. n \in DOMAIN s.lives /\ s.lives[n] \in Lives /\ told.lives = s.lives
    BY <1>1, <1>4, RelayFields DEF Published, SameObjects
  <2>2. s.lives[n].doc \in Documents
    BY <2>1, LiveFields
  <2>3. back \in Documents /\ doc \in Documents
    BY <2>2, RevertedIsDocument
  <2>4. Rewritten(told, n, DirtyLive(told.lives[n], doc), u)
    BY <1>2, <2>1, <2>3, TouchMakes
  <2>5. u \in Relays
    BY <2>4 DEF Rewritten
  <2>6. [told EXCEPT !.lives[n].doc = Merge(@, back)] = w
    BY <1>2, <2>1 DEF Relays
  <2>7. t = Publish(u, r, Update(back))
    BY <1>4, <2>6 DEF Settle, Told, Reverted, Update
  <2>8. Update(back) \in Messages
    BY <2>3, UpdateIsMessage
  <2> HIDE DEF w, u, doc, back, told, t, n
  <2>9. Published(u, r, Update(back), t)
    BY <2>5, <2>7, <2>8, PublishMakes
  <2>10. u.channel = s.channel /\ u.inbox = Box(s, r, Told)
    BY <2>4, <1>1 DEF Rewritten, SameWires, Published
  <2>11. Box(u, r, Update(back)) = Box2(s, r, Told, Update(back))
    BY <2>10 DEF Box, Box2
  <2>12. SettledTo(s, n, r, circuit, t)
    BY <1>1, <2>1, <2>4, <2>9, <2>10, <2>11
       DEF SettledTo, Published, Rewritten, SameObjects, SameMaps, SameAsks, SameOut, back, doc
  <2> QED BY <1>4, <2>12 DEF n, t
<1> QED BY <1>3, <1>4

------------------------------------------------------------------------------
(* A document that is built. *)

BuiltTo(s, r, doc, t) ==
    LET n == Len(s.lives) + 1
        open == s.channel[r] # "closed"
    IN  /\ t \in Relays /\ SameAsks(s, t) /\ SameOut(s, t)
        /\ t.documents = [s.documents EXCEPT ![r] = n]
        /\ t.building = [s.building EXCEPT ![r] = n] /\ t.closed = s.closed
        /\ t.channel = IF open THEN s.channel ELSE [s.channel EXCEPT ![r] = "opening"]
        /\ t.inbox = IF open THEN Box(s, r, Greeting) ELSE s.inbox
        /\ t.lives = Append(s.lives, [NewLive(r, doc) EXCEPT !.bus = IF open THEN "open" ELSE "opening"])

\* A build that a shutdown overtook.
BuildRefused(s, r, t) ==
    /\ t \in Relays /\ SameObjects(s, t) /\ SameWires(s, t) /\ SameAsks(s, t)
    /\ t.documents = s.documents /\ t.closed = s.closed
    /\ t.building = [s.building EXCEPT ![r] = None] /\ t.out = Waiting(r)

LEMMA NewLiveIsLive ==
    ASSUME NEW r \in Replicas, NEW doc \in Documents
    PROVE  NewLive(r, doc) \in Lives
BY DEF NewLive, Lives

LastReplaced(q, v, x) == [Append(q, v) EXCEPT ![Len(q) + 1] = x] = Append(q, x)

LEMMA LastOfAppend ==
    ASSUME NEW q \in Seq(Lives), NEW v \in Lives, NEW x \in Lives
    PROVE  LastReplaced(q, v, x)
<1> DEFINE a == Append(q, v)
           b == Append(q, x)
<1>1. a \in Seq(Lives) /\ b \in Seq(Lives) /\ DOMAIN a = 1 .. Len(q) + 1 /\ DOMAIN b = 1 .. Len(q) + 1
  OBVIOUS
<1>2. \A i \in 1 .. Len(q) + 1 : b[i] = IF i = Len(q) + 1 THEN x ELSE a[i]
  OBVIOUS
<1> HIDE DEF a, b
<1>6. PICK k \in Nat : b \in [1 .. k -> Lives]
  BY <1>1
<1>3. b = [i \in 1 .. Len(q) + 1 |-> b[i]]
  <2>1. b = [i \in DOMAIN b |-> b[i]]
    BY <1>6
  <2> QED BY <2>1, <1>1
<1>4. [a EXCEPT ![Len(q) + 1] = x] = [i \in 1 .. Len(q) + 1 |-> IF i = Len(q) + 1 THEN x ELSE a[i]]
  BY <1>1
<1>5. [a EXCEPT ![Len(q) + 1] = x] = b
  BY <1>2, <1>3, <1>4
<1> QED BY <1>5 DEF a, b, LastReplaced

LEMMA BuiltMakes ==
    ASSUME NEW s \in Relays, NEW r \in Replicas, NEW doc \in Documents
    PROVE  /\ s.closed[r] => BuildRefused(s, r, Built(s, r, doc))
           /\ ~s.closed[r] => BuiltTo(s, r, doc, Built(s, r, doc))
<1> DEFINE n == Len(s.lives) + 1
           v == NewLive(r, doc)
           u == [s EXCEPT !.lives = Append(s.lives, v), !.documents = [s.documents EXCEPT ![r] = n],
                          !.building = [s.building EXCEPT ![r] = n]]
<1>1. s.lives \in Seq(Lives) /\ s.documents \in [Replicas -> Nat] /\ s.building \in [Replicas -> Nat]
  BY RelayFields
<1>2. CASE s.closed[r]
  <2> DEFINE b == [s.building EXCEPT ![r] = None]
             a == [s EXCEPT !.building = b, !.out = Waiting(r)]
  <2>1. Built(s, r, doc) = a
    BY <1>2 DEF Built, Relays
  <2>2. b \in [Replicas -> Nat] /\ Waiting(r) \in SUBSET Peers
    BY <1>1 DEF None, Waiting
  <2> HIDE DEF b
  <2>3. BuildRefused(s, r, a)
    BY <2>2 DEF BuildRefused, Relays, SameObjects, SameWires, SameAsks, b
  <2> QED BY <1>2, <2>1, <2>3
<1>3. CASE ~s.closed[r]
  <2>1. v \in Lives /\ n \in Nat
    BY <1>1, NewLiveIsLive
  <2> HIDE DEF v
  <2>2. Append(s.lives, v) \in Seq(Lives) /\ n \in DOMAIN Append(s.lives, v) /\ Append(s.lives, v)[n] = v
    BY <1>1, <2>1
  <2>3. /\ [s.documents EXCEPT ![r] = n] \in [Replicas -> Nat]
        /\ [s.building EXCEPT ![r] = n] \in [Replicas -> Nat]
    BY <1>1, <2>1
  <2>4. u \in Relays
    BY <2>2, <2>3 DEF Relays
  <2>5. /\ u.lives = Append(s.lives, v) /\ u.documents = [s.documents EXCEPT ![r] = n]
        /\ u.building = [s.building EXCEPT ![r] = n]
        /\ u.closed = s.closed /\ u.channel = s.channel /\ u.inbox = s.inbox /\ u.db = s.db /\ u.out = s.out
    BY DEF Relays
  <2>6. Built(s, r, doc) = Listen(u, n)
    <3>1. Built(s, r, doc) = Listen([s EXCEPT !.lives = Append(@, v), !.documents[r] = n, !.building[r] = n], n)
      BY <1>3 DEF Built, v
    <3>2. [s EXCEPT !.lives = Append(@, v), !.documents[r] = n, !.building[r] = n] = u
      BY DEF Relays
    <3> QED BY <3>1, <3>2
  <2>7. v.replica = r
    BY DEF v, NewLive
  <2> DEFINE t == Built(s, r, doc)
             g(b) == Append(s.lives, [v EXCEPT !.bus = b])
  <2> HIDE DEF u, t
  <2>8. u.lives[n].replica = r /\ u.lives[n] = v /\ n \in DOMAIN u.lives
    BY <2>2, <2>5, <2>7
  <2>9. ASSUME NEW b \in {"none", "opening", "open"}
        PROVE  [u.lives EXCEPT ![n] = [u.lives[n] EXCEPT !.bus = b]] = Append(s.lives, [v EXCEPT !.bus = b])
    <3> DEFINE x == [v EXCEPT !.bus = b]
    <3>1. x \in Lives
      BY <2>1 DEF Lives
    <3> HIDE DEF x
    <3>2. LastReplaced(s.lives, v, x)
      BY <1>1, <2>1, <3>1, LastOfAppend
    <3>3. [u.lives[n] EXCEPT !.bus = b] = x
      BY <2>8 DEF x
    <3>4. [u.lives EXCEPT ![n] = x] = Append(s.lives, x)
      BY <2>5, <3>2 DEF LastReplaced
    <3> QED BY <3>3, <3>4 DEF x
  <2>10. CASE s.channel[r] # "closed"
    <3>1. OpenedTo(u, n, t)
      BY <2>4, <2>5, <2>6, <2>8, <2>10, ListenMakes DEF t
    <3>2. Box(u, r, Greeting) = Box(s, r, Greeting)
      BY <2>5 DEF Box
    <3>3. t.lives = Append(s.lives, [v EXCEPT !.bus = "open"])
      BY <2>9, <3>1 DEF OpenedTo, OpenLive
    <3>4. BuiltTo(s, r, doc, t)
      BY <2>5, <2>8, <2>10, <3>1, <3>2, <3>3 DEF BuiltTo, OpenedTo, SameMaps, SameAsks, SameOut, v
    <3> QED BY <1>3, <3>4 DEF t
  <2>11. CASE s.channel[r] = "closed"
    <3>1. Opening(u, n, t)
      BY <2>4, <2>5, <2>6, <2>8, <2>11, ListenMakes DEF t
    <3>3. t.lives = Append(s.lives, [v EXCEPT !.bus = "opening"])
      BY <2>9, <3>1 DEF Opening
    <3>4. BuiltTo(s, r, doc, t)
      BY <2>5, <2>8, <2>11, <3>1, <3>3 DEF BuiltTo, Opening, SameMaps, SameAsks, SameOut, v
    <3> QED BY <1>3, <3>4 DEF t
  <2> QED BY <2>10, <2>11
<1> QED BY <1>2, <1>3, RelayFields

------------------------------------------------------------------------------
(* A peer that leaves. *)

LeftLive(l, p) == [l EXCEPT !.peers = @ \ {p}]

\* The last one out releases the channel, and saves or lets the document go.
LeftSaving(s, n, p, t) ==
    LET r == s.lives[n].replica
    IN  /\ t \in Relays /\ SameMaps(s, t) /\ SameOut(s, t)
        /\ t.channel = [s.channel EXCEPT ![r] = Shut(s, r, {n})] /\ t.inbox = s.inbox
        /\ t.lives = [s.lives EXCEPT ![n] = RestLive(FreeLive(LeftLive(s.lives[n], p)))]
        /\ t.db = [s.db EXCEPT ![r] = Append(s.db[r], SaveSession(n, s.lives[n].doc, "leave"))]
LeftAtOnce(s, n, p, t) ==
    LET r == s.lives[n].replica
    IN  /\ t \in Relays /\ SameAsks(s, t) /\ SameOut(s, t)
        /\ t.documents = [s.documents EXCEPT ![r] = None] /\ t.building = s.building /\ t.closed = s.closed
        /\ t.channel = [s.channel EXCEPT ![r] = Shut(s, r, {n})] /\ t.inbox = s.inbox
        /\ t.lives = [s.lives EXCEPT ![n] = FreeLive(LeftLive(s.lives[n], p))]

LEMMA ShutDepends ==
    ASSUME NEW s \in Relays, NEW t \in Relays, NEW r \in Replicas, NEW given \in SUBSET DOMAIN s.lives,
           DOMAIN t.lives = DOMAIN s.lives, t.channel = s.channel,
           \A m \in DOMAIN s.lives : t.lives[m].replica = s.lives[m].replica /\ t.lives[m].bus = s.lives[m].bus
    PROVE  Shut(t, r, given) = Shut(s, r, given)
<1>1. Listeners(t, r) = Listeners(s, r)
  BY DEF Listeners
<1>2. {m \in given : t.lives[m].bus = "open"} = {m \in given : s.lives[m].bus = "open"}
  OBVIOUS
<1> QED BY <1>1, <1>2 DEF Shut

LEMMA DetachedMakes ==
    ASSUME NEW s \in Relays, NEW n \in DOMAIN s.lives, NEW p \in Peers
    PROVE  LET l == s.lives[n]
               t == Detached(s, p, n)
               last == l.peers \ {p} = {} /\ ~l.dropping
           IN  /\ ~last => Rewritten(s, n, LeftLive(l, p), t)
               /\ last /\ l.pending => LeftSaving(s, n, p, t)
               /\ last /\ ~l.pending => LeftAtOnce(s, n, p, t)
<1> DEFINE l == s.lives[n]
           r == l.replica
           a == LeftLive(l, p)
           u == [s EXCEPT !.lives = [s.lives EXCEPT ![n] = a]]
           w == Release(u, n)
           t == Detached(s, p, n)
<1>1. s.lives \in Seq(Lives) /\ l \in Lives
  BY RelayFields
<1>2. r \in Replicas /\ l.doc \in Documents /\ l.peers \in SUBSET Peers
  BY <1>1, LiveFields
<1>3. a \in Lives
  BY <1>1, <1>2 DEF LeftLive, Lives
<1>4. Rewritten(s, n, a, u)
  BY <1>3, RewriteMakes
<1>5. [s EXCEPT !.lives[n].peers = @ \ {p}] = u
  BY <1>1 DEF LeftLive, Relays
<1>6. u \in Relays /\ DOMAIN u.lives = DOMAIN s.lives /\ u.lives[n] = a
  BY <1>1, <1>4 DEF Rewritten
<1>7. \A m \in DOMAIN s.lives : u.lives[m].replica = s.lives[m].replica /\ u.lives[m].bus = s.lives[m].bus
  <2>1. a.replica = l.replica /\ a.bus = l.bus
    BY <1>1 DEF LeftLive, Lives
  <2>2. \A m \in DOMAIN s.lives : m # n => u.lives[m] = s.lives[m]
    BY <1>3, <1>4, RewriteIs
  <2> QED BY <1>6, <2>1, <2>2
<1>8. Freed(u, r, {n}, w)
  <2>1. u.lives[n].replica = r
    BY <1>7
  <2> QED BY <1>2, <1>6, <2>1, ReleaseMakes DEF Release
<1>9. Shut(u, r, {n}) = Shut(s, r, {n})
  <2>1. u.channel = s.channel
    BY <1>4 DEF Rewritten, SameWires
  <2>2. {n} \in SUBSET DOMAIN s.lives
    OBVIOUS
  <2> HIDE DEF u, r
  <2> QED BY <1>2, <1>6, <1>7, <2>1, <2>2, ShutDepends
<1>10. a.peers = l.peers \ {p} /\ a.dropping = l.dropping /\ a.pending = l.pending /\ a.doc = l.doc /\ a.replica = r
  BY <1>1 DEF LeftLive, Lives
<1>11. t = IF a.peers # {} \/ a.dropping THEN u ELSE Flush(w, n, "leave")
  BY <1>5, <1>6 DEF Detached
<1>12. FreeLive(a) \in Lives /\ FreeLive(a).peers = a.peers /\ FreeLive(a).dropping = a.dropping
       /\ FreeLive(a).pending = a.pending /\ FreeLive(a).doc = a.doc /\ FreeLive(a).replica = r
  BY <1>3, <1>10 DEF FreeLive, Lives
<1>13. w.lives = [s.lives EXCEPT ![n] = FreeLive(a)]
  <2>1. w.lives = [m \in DOMAIN u.lives |-> IF m \in {n} THEN FreeLive(u.lives[m]) ELSE u.lives[m]]
    BY <1>8 DEF Freed
  <2>2. u.lives = [s.lives EXCEPT ![n] = a]
    BY <1>4 DEF Rewritten
  <2> HIDE DEF u, a, l, w
  <2> QED BY <2>1, <2>2, <1>1, <1>6
<1> HIDE DEF a, u, w, t
<1>14. w \in Relays /\ n \in DOMAIN w.lives /\ w.lives[n] = FreeLive(a)
  BY <1>1, <1>8, <1>13 DEF Freed
<1>15. /\ w.documents = s.documents /\ w.building = s.building /\ w.closed = s.closed /\ w.inbox = s.inbox
       /\ w.db = s.db /\ w.out = s.out /\ w.channel = [s.channel EXCEPT ![r] = Shut(s, r, {n})]
  BY <1>4, <1>8, <1>9 DEF Rewritten, Freed, SameMaps, SameWires, SameAsks, SameOut
<1>16. CASE ~(l.peers \ {p} = {} /\ ~l.dropping)
  BY <1>4, <1>10, <1>11, <1>16 DEF a, t
<1>17. CASE l.peers \ {p} = {} /\ ~l.dropping /\ l.pending
  <2>1. t = Flush(w, n, "leave") /\ w.lives[n].pending
    BY <1>10, <1>11, <1>12, <1>14, <1>17
  <2>2. FlushedTo(w, n, "leave", t)
    BY <1>14, <2>1, FlushMakes
  <2>3. w.lives[n].doc = l.doc /\ w.lives[n].replica = r
    BY <1>10, <1>12, <1>14
  <2>4. [w.lives EXCEPT ![n] = RestLive(w.lives[n])] = [s.lives EXCEPT ![n] = RestLive(FreeLive(a))]
    BY <1>1, <1>13, <1>14
  <2>5. LeftSaving(s, n, p, t)
    BY <1>15, <2>2, <2>3, <2>4 DEF LeftSaving, FlushedTo, SameMaps, SameWires, SameOut, a
  <2> QED BY <1>17, <2>5 DEF t
<1>18. CASE l.peers \ {p} = {} /\ ~l.dropping /\ ~l.pending
  <2>1. t = Flush(w, n, "leave") /\ ~w.lives[n].pending
    BY <1>10, <1>11, <1>12, <1>14, <1>18
  <2>2. t = Flushed(w, n, "leave")
    BY <1>14, <2>1, FlushMakes
  <2>3. w.lives[n].peers = {} /\ ~w.lives[n].dropping /\ w.lives[n].replica = r
    BY <1>10, <1>12, <1>14, <1>18
  <2>4. Forgot(w, r, t)
    BY <1>14, <2>2, <2>3, FlushedMakes
  <2>5. LeftAtOnce(s, n, p, t)
    BY <1>13, <1>15, <2>4 DEF LeftAtOnce, Forgot, SameObjects, SameWires, SameAsks, SameOut, a
  <2> QED BY <1>18, <2>5 DEF t
<1> QED BY <1>16, <1>17, <1>18

------------------------------------------------------------------------------
(* A message that is taken. *)

MergedTo(s, r, doc, t) ==
    /\ t \in Relays /\ SameMaps(s, t) /\ SameWires(s, t) /\ SameAsks(s, t) /\ SameOut(s, t)
    /\ t.lives = [n \in DOMAIN s.lives |->
          IF n \in Listening(r) THEN [s.lives[n] EXCEPT !.doc = Merge(s.lives[n].doc, doc)] ELSE s.lives[n]]

Shown(s, r) ==
    [has |-> UNION {s.lives[n].doc.has : n \in Listening(r)},
     gone |-> UNION {s.lives[n].doc.gone : n \in Listening(r)}]
Answer(s, r) == Message("sync-state", Shown(s, r))

LEMMA AnswerIsMessage ==
    ASSUME NEW s \in Relays, NEW r \in Replicas, Listening(r) \subseteq DOMAIN s.lives
    PROVE  /\ Answer(s, r) \in Messages /\ Answer(s, r).kind = "sync-state" /\ Answer(s, r).doc = Shown(s, r)
<1>1. \A n \in Listening(r) : s.lives[n].doc.has \in SUBSET Edits /\ s.lives[n].doc.gone \in SUBSET Edits
  BY RelayFields, LiveFields DEF Documents
<1>2. Shown(s, r) \in Documents
  BY <1>1 DEF Shown, Documents
<1> QED BY <1>2 DEF Answer, Message, Messages

LEMMA TakenMakes ==
    ASSUME NEW s \in Relays, NEW r \in Replicas, NEW m \in Messages, Listening(r) \subseteq DOMAIN s.lives
    PROVE  LET t == Taken(s, r, m)
           IN  /\ m.kind \in {"update", "sync-state"} => MergedTo(s, r, m.doc, t)
               /\ m.kind = "sync-request" /\ Listening(r) = {} => t = s
               /\ m.kind = "sync-request" /\ Listening(r) # {} => Published(s, r, Answer(s, r), t)
               /\ m.kind = "settled" => Dropped(s, r, Listening(r), t)
<1> DEFINE t == Taken(s, r, m)
           f == [n \in DOMAIN s.lives |->
                   IF n \in Listening(r) THEN [s.lives[n] EXCEPT !.doc = Merge(s.lives[n].doc, m.doc)] ELSE s.lives[n]]
<1>1. s.lives \in Seq(Lives) /\ \A n \in DOMAIN s.lives : s.lives[n] \in Lives
  BY RelayFields
<1>2. m.doc \in Documents
  BY DEF Messages
<1>3. \A n \in DOMAIN s.lives : Merge(s.lives[n].doc, m.doc) \in Documents
  BY <1>1, <1>2, LiveFields DEF Merge, Documents
<1>4. \A n \in DOMAIN s.lives : [s.lives[n] EXCEPT !.doc = Merge(s.lives[n].doc, m.doc)] \in Lives
  BY <1>1, <1>3 DEF Lives
<1>5. f \in Seq(Lives)
  BY <1>1, <1>4, ObjectsAreTyped
<1>6. CASE m.kind \in {"update", "sync-state"}
  <2>1. t = [s EXCEPT !.lives = f]
    BY <1>6 DEF Taken
  <2> HIDE DEF f
  <2>2. MergedTo(s, r, m.doc, [s EXCEPT !.lives = f])
    BY <1>5 DEF MergedTo, Relays, SameMaps, SameWires, SameAsks, SameOut, f
  <2> QED BY <1>6, <2>1, <2>2
<1>7. CASE m.kind = "sync-request"
  <2>1. t = IF Listening(r) = {} THEN s ELSE Publish(s, r, Answer(s, r))
    BY <1>7 DEF Taken, Answer, Shown
  <2>2. Published(s, r, Answer(s, r), Publish(s, r, Answer(s, r)))
    BY AnswerIsMessage, PublishMakes
  <2> QED BY <1>7, <2>1, <2>2
<1>8. CASE m.kind = "settled"
  <2>1. t = DropAll(s, r, Listening(r))
    BY <1>8 DEF Taken
  <2> QED BY <1>8, <2>1, DropAllMakes
<1>9. m.kind \in {"update", "sync-state", "sync-request", "settled"}
  BY DEF Messages
<1> QED BY <1>6, <1>7, <1>8, <1>9

------------------------------------------------------------------------------
(* Steps. *)

\* The relay becomes t, and what t asked for is in the queues.
Took(t) ==
    /\ relay' \in Relays /\ relay'.out = {} /\ relay'.db = [q \in Replicas |-> <<>>]
    /\ relay'.lives = t.lives /\ relay'.documents = t.documents /\ relay'.building = t.building
    /\ relay'.closed = t.closed /\ relay'.channel = t.channel /\ relay'.inbox = t.inbox
Queued(r, c, asked) == db' = [db EXCEPT ![r] = Turned(db[r], c, asked)]

LEMMA TookIt ==
    ASSUME NEW t \in Relays, relay' = [t EXCEPT !.db = [r \in Replicas |-> <<>>], !.out = {}]
    PROVE  Took(t)
<1>1. [r \in Replicas |-> <<>>] \in [Replicas -> Seq(Statements)]
  <2>1. <<>> \in Seq(Statements)
    BY NoStatement
  <2> QED BY <2>1
<1> QED BY <1>1 DEF Took, Relays

QueuesInd == relay.db = [r \in Replicas |-> <<>>] /\ db \in Queues

LEMMA BecomeMakes ==
    ASSUME NEW t \in Relays, Become(t), QueuesInd, NEW r \in Replicas
    PROVE  /\ Took(t)
           /\ t.db = relay.db => Queued(r, 0, <<>>)
           /\ \A st \in Statements : t.db = [relay.db EXCEPT ![r] = Append(relay.db[r], st)] => Queued(r, 0, <<st>>)
<1>1. Took(t)
  BY TookIt DEF Become
<1>2. db' = [q \in Replicas |-> db[q] \o t.db[q]]
  BY DEF Become
<1>3. db \in [Replicas -> Seq(Statements)] /\ \A q \in Replicas : relay.db[q] = <<>>
  BY DEF QueuesInd, Queues
<1>4. ASSUME t.db = relay.db PROVE Queued(r, 0, <<>>)
  <2>1. db' = [q \in Replicas |-> db[q] \o <<>>]
    BY <1>2, <1>3, <1>4
  <2>2. \A q \in Replicas : db[q] \o <<>> = db[q]
    BY <1>3
  <2>3. db' = [q \in Replicas |-> db[q]]
    BY <2>1, <2>2
  <2>4. Turned(db[r], 0, <<>>) = db[r] \o <<>>
    BY DEF Turned
  <2>5. Turned(db[r], 0, <<>>) = db[r]
    BY <2>2, <2>4
  <2> QED BY <1>3, <2>3, <2>5 DEF Queued
<1>5. ASSUME NEW st \in Statements, t.db = [relay.db EXCEPT ![r] = Append(relay.db[r], st)]
      PROVE  Queued(r, 0, <<st>>)
  <2>1. \A q \in Replicas : t.db[q] = IF q = r THEN <<st>> ELSE <<>>
    <3>1. Append(<<>>, st) = <<st>>
      OBVIOUS
    <3>2. relay.db \in [Replicas -> {<<>>}]
      BY DEF QueuesInd
    <3> QED BY <1>3, <1>5, <3>1, <3>2
  <2>2. \A q \in Replicas : db[q] \o <<>> = db[q]
    BY <1>3
  <2>3. db' = [q \in Replicas |-> IF q = r THEN db[r] \o <<st>> ELSE db[q]]
    BY <1>2, <2>1, <2>2
  <2>4. Turned(db[r], 0, <<st>>) = db[r] \o <<st>>
    BY DEF Turned
  <2> QED BY <1>3, <2>3, <2>4 DEF Queued
<1> QED BY <1>1, <1>4, <1>5

LEMMA ContinueMakes ==
    ASSUME NEW t \in Relays, NEW r \in Replicas, Continue(r, t), QueuesInd
    PROVE  /\ Took(t)
           /\ t.db = relay.db => Queued(r, 1, <<>>)
           /\ \A st \in Statements : t.db = [relay.db EXCEPT ![r] = Append(relay.db[r], st)] => Queued(r, 1, <<st>>)
<1>1. Took(t)
  BY TookIt DEF Continue
<1>2. db' = [q \in Replicas |-> (IF q = r THEN Tail(db[q]) ELSE db[q]) \o t.db[q]]
  BY DEF Continue
<1>3. db \in [Replicas -> Seq(Statements)] /\ \A q \in Replicas : relay.db[q] = <<>>
  BY DEF QueuesInd, Queues
<1>6. \A q \in Replicas : db[q] \o <<>> = db[q]
  BY <1>3
<1>4. ASSUME t.db = relay.db PROVE Queued(r, 1, <<>>)
  <2>1. db' = [q \in Replicas |-> IF q = r THEN Tail(db[r]) \o <<>> ELSE db[q]]
    BY <1>2, <1>3, <1>4, <1>6
  <2> QED BY <1>3, <2>1 DEF Queued, Turned
<1>5. ASSUME NEW st \in Statements, t.db = [relay.db EXCEPT ![r] = Append(relay.db[r], st)]
      PROVE  Queued(r, 1, <<st>>)
  <2>1. \A q \in Replicas : t.db[q] = IF q = r THEN <<st>> ELSE <<>>
    <3>1. Append(<<>>, st) = <<st>>
      OBVIOUS
    <3>2. relay.db \in [Replicas -> {<<>>}]
      BY DEF QueuesInd
    <3> QED BY <1>3, <1>5, <3>1, <3>2
  <2>3. db' = [q \in Replicas |-> IF q = r THEN Tail(db[r]) \o <<st>> ELSE db[q]]
    BY <1>2, <2>1, <1>6
  <2> QED BY <1>3, <2>3 DEF Queued, Turned
<1> QED BY <1>1, <1>4, <1>5

\* What a queue is after it was turned, and the others.
LEMMA QueuedIs ==
    ASSUME db \in Queues, NEW r \in Replicas, NEW c \in {0, 1}, c = 1 => db[r] # <<>>,
           NEW asked \in Seq(Statements), Len(asked) \in {0, 1}, Queued(r, c, asked)
    PROVE  /\ db' \in Queues
           /\ TurnedTo(db[r], c, asked, db'[r])
           /\ \A q \in Replicas : q # r => db'[q] = db[q]
<1>1. db[r] \in Seq(Statements) /\ DOMAIN db = Replicas
  BY DEF Queues
<1>2. TurnedTo(db[r], c, asked, Turned(db[r], c, asked))
  BY <1>1, TurnedIsTurned
<1>3. db'[r] = Turned(db[r], c, asked)
  BY <1>1 DEF Queued
<1>4. \A q \in Replicas : q # r => db'[q] = db[q]
  BY <1>1 DEF Queued
<1>5. Turned(db[r], c, asked) \in Seq(Statements)
  BY <1>2 DEF TurnedTo
<1>6. db' \in Queues
  BY <1>5 DEF Queues, Queued
<1> QED BY <1>2, <1>3, <1>4, <1>6

\* A step of r changes nothing of another process but its inbox.
Elsewhere(r) ==
    /\ \A q \in Replicas : q # r =>
          /\ relay'.documents[q] = relay.documents[q] /\ relay'.building[q] = relay.building[q]
          /\ relay'.closed[q] = relay.closed[q] /\ relay'.channel[q] = relay.channel[q]
          /\ db'[q] = db[q]
    /\ \A m \in DOMAIN relay.lives :
          m \in DOMAIN relay'.lives /\ relay'.lives[m].replica = relay.lives[m].replica
    /\ \A m \in DOMAIN relay'.lives : relay'.lives[m].replica # r =>
          m \in DOMAIN relay.lives /\ relay'.lives[m] = relay.lives[m]
    /\ \A p \in Peers : peers'[p] # peers[p] =>
          /\ peers[p].at = "nowhere" \/ peers[p].replica = r
          /\ peers'[p].at = "nowhere" \/ peers'[p].replica = r

LEMMA OfElsewhere ==
    ASSUME NEW r \in Replicas, Elsewhere(r), NEW q \in Replicas, q # r
    PROVE  /\ Of(q)' = Of(q)
           /\ \A n \in Of(q) : n \in DOMAIN relay.lives /\ n \in DOMAIN relay'.lives /\ relay'.lives[n] = relay.lives[n]
BY DEF Of, Elsewhere

LEMMA MapsElsewhere ==
    ASSUME MapsInd, NEW r \in Replicas, Elsewhere(r), running' = running,
           \A p \in Peers : PlaceInd(p)', \A n \in Of(r)' : LiveInd(n)', MapInd(r)', RoomInd'
    PROVE  MapsInd'
<1>1. ASSUME NEW n \in DOMAIN relay'.lives PROVE LiveInd(n)'
  <2>1. CASE relay'.lives[n].replica = r
    BY <2>1 DEF Of
  <2>2. CASE relay'.lives[n].replica # r
    <3>1. n \in DOMAIN relay.lives /\ relay'.lives[n] = relay.lives[n] /\ relay.lives[n].replica # r
      BY <2>2 DEF Elsewhere
    <3>2. LiveInd(n)
      BY <3>1 DEF MapsInd
    <3>3. ASSUME NEW p \in Peers
          PROVE  peers[p].at = "in" /\ peers[p].live = n <=> peers'[p].at = "in" /\ peers'[p].live = n
      <4>1. CASE peers'[p] = peers[p]
        BY <4>1
      <4>2. CASE peers'[p] # peers[p]
        <5>1. peers[p].at = "nowhere" \/ peers[p].replica = r
          BY <4>2 DEF Elsewhere
        <5>2. peers'[p].at = "nowhere" \/ peers'[p].replica = r
          BY <4>2 DEF Elsewhere
        <5>3. PlaceInd(p) /\ PlaceInd(p)'
          BY DEF MapsInd
        <5>4. ~(peers[p].at = "in" /\ peers[p].live = n)
          BY <3>1, <5>1, <5>3 DEF PlaceInd, Of
        <5>5. ~(peers'[p].at = "in" /\ peers'[p].live = n)
          BY <3>1, <5>2, <5>3 DEF PlaceInd, Of
        <5> QED BY <5>4, <5>5
      <4> QED BY <4>1, <4>2
    <3> QED BY <3>1, <3>2, <3>3 DEF LiveInd
  <2> QED BY <2>1, <2>2
<1>2. ASSUME NEW q \in Replicas PROVE MapInd(q)'
  <2>1. CASE q = r
    BY <2>1
  <2>2. CASE q # r
    <3>1. MapInd(q) /\ Of(q)' = Of(q)
      BY <2>2, OfElsewhere DEF MapsInd
    <3>2. \A n \in Of(q) : relay'.lives[n] = relay.lives[n]
      BY <2>2, OfElsewhere
    <3>3. /\ relay'.documents[q] = relay.documents[q] /\ relay'.building[q] = relay.building[q]
          /\ relay'.closed[q] = relay.closed[q] /\ db'[q] = db[q]
      BY <2>2 DEF Elsewhere
    <3> QED BY <3>1, <3>2, <3>3 DEF MapInd
  <2> QED BY <2>1, <2>2
<1> QED BY <1>1, <1>2 DEF MapsInd

LEMMA QueuesElsewhere ==
    ASSUME \A q \in Replicas : QueueInd(q), NEW r \in Replicas, Elsewhere(r), QueueInd(r)'
    PROVE  \A q \in Replicas : QueueInd(q)'
<1> SUFFICES ASSUME NEW q \in Replicas, q # r PROVE QueueInd(q)'
  OBVIOUS
<1>1. QueueInd(q) /\ Of(q)' = Of(q)
  BY OfElsewhere
<1>2. relay'.building[q] = relay.building[q] /\ relay'.closed[q] = relay.closed[q] /\ db'[q] = db[q]
  BY DEF Elsewhere
<1> QED BY <1>1, <1>2 DEF QueueInd

LEMMA TogetherElsewhere ==
    ASSUME \A q \in Replicas : TogetherInd(q), \A q \in Replicas : QueueInd(q),
           NEW r \in Replicas, Elsewhere(r), TogetherInd(r)'
    PROVE  \A q \in Replicas : TogetherInd(q)'
<1> SUFFICES ASSUME NEW q \in Replicas, q # r PROVE TogetherInd(q)'
  OBVIOUS
<1>1. TogetherInd(q) /\ Of(q)' = Of(q)
  BY OfElsewhere
<1>2. /\ relay'.documents[q] = relay.documents[q] /\ relay'.building[q] = relay.building[q]
      /\ relay'.closed[q] = relay.closed[q] /\ db'[q] = db[q]
  BY DEF Elsewhere
<1>3. \A n \in Of(q) : relay'.lives[n] = relay.lives[n]
  BY OfElsewhere
<1>4. \A i \in DOMAIN db[q] : Leaving(db[q][i]) => db[q][i].live \in Of(q)
  BY DEF QueueInd, Leaving
<1> QED BY <1>1, <1>2, <1>3, <1>4 DEF TogetherInd

LEMMA ChannelElsewhere ==
    ASSUME NEW r \in Replicas, Elsewhere(r), NEW q \in Replicas, q # r, ChannelInd(q), running' = running,
           \A n \in Of(q) : Subscribed(n) => owed'[n] \subseteq
               owed[n] \cup (IF relay.channel[q] = "open" THEN Brought(q)' ELSE {}),
           Brought(q) \subseteq Brought(q)'
    PROVE  ChannelInd(q)'
<1>1. Of(q)' = Of(q) /\ relay'.channel[q] = relay.channel[q]
  BY OfElsewhere DEF Elsewhere
<1>2. \A n \in Of(q) : relay'.lives[n] = relay.lives[n]
  BY OfElsewhere
<1>3. ASSUME NEW n \in Of(q), Subscribed(n)'
      PROVE  owed'[n] \subseteq IF relay.channel[q] = "open" THEN relay.lives[n].doc.has \cup Brought(q)' ELSE {}
  <2>1. Subscribed(n)
    BY <1>2, <1>3 DEF Subscribed
  <2>2. owed[n] \subseteq IF relay.channel[q] = "open" THEN relay.lives[n].doc.has \cup Brought(q) ELSE {}
    BY <2>1 DEF ChannelInd
  <2>3. owed'[n] \subseteq owed[n] \cup (IF relay.channel[q] = "open" THEN Brought(q)' ELSE {})
    BY <2>1
  <2> QED BY <2>2, <2>3
<1> QED BY <1>1, <1>2, <1>3 DEF ChannelInd

------------------------------------------------------------------------------
(* The steps of one process r, as what they make of the relay's state. *)

\* The process goes from relay to t: c of its statements were answered, and
\* these are asked.
Runs(r, c, asked, t) ==
    /\ r \in Replicas /\ r \in running /\ Took(t) /\ Queued(r, c, asked)
    /\ c \in {0, 1} /\ (c = 1 => db[r] # <<>>)
    /\ asked \in Seq(Statements) /\ Len(asked) \in {0, 1}

Enters(p, r, n) == peers' = [peers EXCEPT ![p] = [at |-> "in", replica |-> r, live |-> n]]
WaitsAt(p, r) == peers' = [peers EXCEPT ![p] = [at |-> "waiting", replica |-> r, live |-> None]]

Attaches(p, r, n, t) ==
    /\ p \in Peers /\ peers[p].at = "nowhere" /\ ~relay.closed[r]
    /\ n = relay.documents[r] /\ n # None
    /\ Rewritten(relay, n, [relay.lives[n] EXCEPT !.peers = @ \cup {p}], t)
    /\ Runs(r, 0, <<>>, t) /\ Enters(p, r, n)

Awaits(p, r) ==
    /\ p \in Peers /\ peers[p].at = "nowhere" /\ ~relay.closed[r]
    /\ Runs(r, 0, <<>>, relay) /\ WaitsAt(p, r)

Seeds(p, r, t) ==
    /\ p \in Peers /\ peers[p].at = "nowhere" /\ ~relay.closed[r]
    /\ relay.documents[r] = None /\ relay.building[r] = None
    /\ Len(relay.lives) + Cardinality(Seeders) < MaxBuilds
    /\ SameObjects(relay, t) /\ SameWires(relay, t)
    /\ t.documents = relay.documents /\ t.closed = relay.closed
    /\ t.building = [relay.building EXCEPT ![r] = Seeding]
    /\ Runs(r, 0, <<LoadSession>>, t) /\ WaitsAt(p, r)

Exits(p, r, n) ==
    /\ p \in Peers /\ peers[p].at = "in" /\ r = peers[p].replica /\ n = peers[p].live
    /\ peers' = Leave({p})
LeavesOthers(p, r, n, t) ==
    /\ Exits(p, r, n) /\ relay.lives[n].peers \ {p} # {}
    /\ Rewritten(relay, n, LeftLive(relay.lives[n], p), t)
    /\ Runs(r, 0, <<>>, t)
LeavesSaving(p, r, n, t) ==
    /\ Exits(p, r, n) /\ relay.lives[n].peers \ {p} = {} /\ relay.lives[n].pending
    /\ LeftSaving(relay, n, p, t)
    /\ Runs(r, 0, <<SaveSession(n, relay.lives[n].doc, "leave")>>, t)
LeavesAtOnce(p, r, n, t) ==
    /\ Exits(p, r, n) /\ relay.lives[n].peers \ {p} = {} /\ ~relay.lives[n].pending
    /\ LeftAtOnce(relay, n, p, t)
    /\ Runs(r, 0, <<>>, t)

Fires(n, r, t) ==
    /\ n \in DOMAIN relay.lives /\ r = relay.lives[n].replica /\ relay.lives[n].timer
    /\ FlushedTo(relay, n, "timer", t)
    /\ Runs(r, 0, <<SaveSession(n, relay.lives[n].doc, "timer")>>, t) /\ peers' = peers

Opens(n, r, t) ==
    /\ n \in DOMAIN relay.lives /\ r = relay.lives[n].replica /\ relay.lives[n].bus = "opening"
    /\ SameMaps(relay, t) /\ t.channel = [relay.channel EXCEPT ![r] = "open"] /\ t.inbox = Box(relay, r, Greeting)
    /\ t.lives = [relay.lives EXCEPT ![n] = OpenLive(relay.lives[n])]
    /\ Runs(r, 0, <<>>, t) /\ peers' = peers

EndsBuild(r, n, t) ==
    LET served == relay.documents[r] = n /\ ~relay.lives[n].dropping
    IN  /\ n = relay.building[r] /\ n \in DOMAIN relay.lives /\ relay.lives[n].bus # "opening"
        /\ SameWires(relay, t) /\ t.documents = relay.documents /\ t.closed = relay.closed
        /\ t.building = [relay.building EXCEPT ![r] = None]
        /\ t.lives = [relay.lives EXCEPT ![n] =
              [relay.lives[n] EXCEPT !.peers = IF served THEN @ \cup Waiting(r) ELSE @]]
        /\ Runs(r, 0, <<>>, t)
        /\ peers' = [p \in Peers |->
              IF p \notin Waiting(r) THEN peers[p]
              ELSE IF served THEN [at |-> "in", replica |-> r, live |-> n]
              ELSE [peers[p] EXCEPT !.at = "nowhere"]]

\* A message of r's inbox is taken.
Popped(r, s) ==
    /\ s \in Relays /\ SameObjects(relay, s) /\ SameMaps(relay, s) /\ SameAsks(relay, s) /\ SameOut(relay, s)
    /\ s.channel = relay.channel /\ s.inbox = [relay.inbox EXCEPT ![r] = Tail(@)]
Pops(r, m, s) == relay.inbox[r] # <<>> /\ m = Head(relay.inbox[r]) /\ Popped(r, s)
Merges(r, m, s, t) ==
    /\ Pops(r, m, s) /\ m.kind \in {"update", "sync-state"}
    /\ MergedTo(s, r, m.doc, t) /\ Runs(r, 0, <<>>, t) /\ peers' = peers
Answers(r, m, s, t) ==
    /\ Pops(r, m, s) /\ m.kind = "sync-request" /\ Listening(r) # {}
    /\ Published(s, r, Answer(s, r), t) /\ Runs(r, 0, <<>>, t) /\ peers' = peers
\* A message that makes nothing, or is lost.
Ignores(r, m, s) ==
    /\ Pops(r, m, s) /\ Runs(r, 0, <<>>, s) /\ peers' = peers
IsTold(r, m, s, t) ==
    /\ Pops(r, m, s) /\ m.kind = "settled"
    /\ Dropped(s, r, Listening(r), t) /\ Runs(r, 0, <<>>, t)
    /\ peers' = Leave(UNION {relay.lives[n].peers : n \in Listening(r)})

Integrates(p, r, n, edit, t) ==
    /\ p \in Peers /\ peers[p].at = "in" /\ r = peers[p].replica /\ n = peers[p].live /\ edit \in Edits
    /\ EditedTo(relay, n, edit, t) /\ Runs(r, 0, <<>>, t) /\ peers' = peers

\* A lookup found the document, or an empty place.
SetsUp(r, doc, t) ==
    /\ doc \in Documents /\ ~relay.closed[r] /\ Lookup(Head(db[r]))
    /\ BuiltTo(relay, r, doc, t) /\ Runs(r, 1, <<>>, t) /\ peers' = peers
Refuses(r, t) ==
    /\ relay.closed[r] /\ Lookup(Head(db[r]))
    /\ BuildRefused(relay, r, t) /\ Runs(r, 1, <<>>, t) /\ peers' = Leave(Waiting(r))
LooksOn(r) ==
    /\ Lookup(Head(db[r])) /\ Runs(r, 1, <<LatestVersion>>, relay) /\ peers' = peers
Stops(r, t) ==
    /\ Lookup(Head(db[r]))
    /\ SameObjects(relay, t) /\ SameWires(relay, t)
    /\ t.documents = relay.documents /\ t.closed = relay.closed
    /\ t.building = [relay.building EXCEPT ![r] = None]
    /\ Runs(r, 1, <<>>, t) /\ peers' = Leave(Waiting(r))
Discards(r) ==
    /\ Lookup(Head(db[r])) /\ Runs(r, 1, <<DropSession(TRUE)>>, relay) /\ peers' = peers

\* A statement is over, and nothing waited for it.
IsOver(r) ==
    /\ ~Lookup(Head(db[r])) /\ Runs(r, 1, <<>>, relay) /\ peers' = peers
LetsGo(r, n, t) ==
    /\ Head(db[r]).kind = "save" /\ Head(db[r]).why = "leave" /\ n = Head(db[r]).live
    /\ relay.lives[n].peers = {} /\ ~relay.lives[n].dropping
    /\ Forgot(relay, r, t) /\ Runs(r, 1, <<>>, t) /\ peers' = peers
Finishes(r, n, t) ==
    /\ Head(db[r]).kind = "save" /\ Head(db[r]).why = "close" /\ n = Head(db[r]).live
    /\ ~relay.lives[n].dropping
    /\ DroppedBut(relay, r, {n}, t)
    /\ Runs(r, 1, <<>>, t) /\ peers' = Leave(relay.lives[n].peers)

\* A version is written, and settled into the document that is handed out.
Tells(r, circuit, t) ==
    /\ Head(db[r]).kind = "append" /\ circuit = Head(db[r]).circuit
    /\ relay.documents[r] = None \/ Content(relay.lives[relay.documents[r]].doc) = circuit
    /\ Published(relay, r, Told, t) /\ Runs(r, 1, <<>>, t) /\ peers' = peers
Settles(r, n, circuit, t) ==
    /\ Head(db[r]).kind = "append" /\ circuit = Head(db[r]).circuit
    /\ n = relay.documents[r] /\ n # None
    /\ SettledTo(relay, n, r, circuit, t) /\ Runs(r, 1, <<>>, t) /\ peers' = peers

AsksVersion(r, circuit, restore) ==
    /\ circuit \in SUBSET Edits /\ restore \in BOOLEAN
    /\ Runs(r, 0, <<AppendVersion(circuit, restore)>>, relay) /\ peers' = peers

\* A shutdown begins: with no document, with one to save, with one that is saved.
Closing(r, s) ==
    /\ ~relay.closed[r]
    /\ s \in Relays /\ SameObjects(relay, s) /\ SameWires(relay, s) /\ SameAsks(relay, s) /\ SameOut(relay, s)
    /\ s.documents = [relay.documents EXCEPT ![r] = None] /\ s.building = relay.building
    /\ s.closed = [relay.closed EXCEPT ![r] = TRUE]
ClosesNone(r, s) ==
    /\ Closing(r, s) /\ relay.documents[r] = None /\ Runs(r, 0, <<>>, s) /\ peers' = peers
ClosesSaving(r, n, s, t) ==
    /\ Closing(r, s) /\ n = relay.documents[r] /\ n # None /\ relay.lives[n].pending
    /\ FlushedTo(s, n, "close", t)
    /\ Runs(r, 0, <<SaveSession(n, relay.lives[n].doc, "close")>>, t) /\ peers' = peers
ClosesSaved(r, n, s, t) ==
    /\ Closing(r, s) /\ n = relay.documents[r] /\ n # None /\ ~relay.lives[n].pending
    /\ DroppedBut(s, r, {n}, t)
    /\ Runs(r, 0, <<>>, t) /\ peers' = Leave(relay.lives[n].peers)

Overgrows(p, r, n, t) ==
    /\ p \in Peers /\ peers[p].at = "in" /\ r = peers[p].replica /\ n = peers[p].live
    /\ DroppedBut(relay, r, {n}, t)
    /\ Runs(r, 0, <<DropSession(FALSE)>>, t) /\ peers' = Leave(relay.lives[n].peers)

\* The process is gone.
GoneLive(l) == [l EXCEPT !.dropping = TRUE, !.timer = FALSE, !.peers = {}, !.bus = "none"]
Dies(r) ==
    /\ r \in Replicas /\ r \in running /\ relay' \in Relays /\ SameOut(relay, relay') /\ SameAsks(relay, relay')
    /\ relay'.closed = [relay.closed EXCEPT ![r] = FALSE] /\ relay'.building = [relay.building EXCEPT ![r] = None]
    /\ relay'.documents = [relay.documents EXCEPT ![r] = None] /\ relay'.inbox = [relay.inbox EXCEPT ![r] = <<>>]
    /\ relay'.channel = [relay.channel EXCEPT ![r] = "closed"]
    /\ relay'.lives = [n \in DOMAIN relay.lives |->
          IF relay.lives[n].replica = r THEN GoneLive(relay.lives[n]) ELSE relay.lives[n]]
    /\ db' = [db EXCEPT ![r] = <<>>]
    /\ peers' = Leave({p \in Peers : peers[p].replica = r})

\* Nobody answers for the channel: every listener of it goes without.
GoesWithout(n, r, t) ==
    /\ n \in DOMAIN relay.lives /\ r = relay.lives[n].replica /\ relay.lives[n].bus = "opening"
    /\ SameMaps(relay, t) /\ t.inbox = relay.inbox /\ t.channel = [relay.channel EXCEPT ![r] = "closed"]
    /\ t.lives = [m \in DOMAIN relay.lives |->
          IF m \in Listeners(relay, r) THEN [relay.lives[m] EXCEPT !.bus = "none"] ELSE relay.lives[m]]
    /\ Runs(r, 0, <<>>, t) /\ peers' = peers

------------------------------------------------------------------------------
(* Every action is one of these steps. *)

LEMMA RelayIs ==
    ASSUME TypeInd
    PROVE  relay \in Relays /\ QueuesInd /\ db \in Queues /\ running \subseteq Replicas
           /\ peers \in [Peers -> Places]
BY DeploymentsAssumption DEF TypeInd, QueuesInd, running

LEMMA PlaceOf ==
    ASSUME TypeInd, MapsInd, NEW p \in Peers, peers[p].at = "in"
    PROVE  LET r == peers[p].replica
               n == peers[p].live
           IN  /\ r \in Replicas /\ r \in running /\ n \in Of(r) /\ n \in DOMAIN relay.lives /\ n \in Nat
               /\ relay.lives[n] \in Lives /\ relay.lives[n].replica = r
               /\ p \in relay.lives[n].peers /\ ~relay.lives[n].dropping
<1> DEFINE r == peers[p].replica
           n == peers[p].live
<1>1. r \in running /\ n \in Of(r)
  BY DEF MapsInd, PlaceInd
<1>2. n \in DOMAIN relay.lives /\ relay.lives[n].replica = r
  BY <1>1 DEF Of
<1>3. LiveInd(n)
  BY <1>2 DEF MapsInd
<1>4. p \in relay.lives[n].peers
  BY <1>3 DEF LiveInd
<1>5. ~relay.lives[n].dropping
  BY <1>3, <1>4 DEF LiveInd
<1>6. relay \in Relays
  BY RelayIs
<1> QED BY <1>1, <1>2, <1>4, <1>5, <1>6, RelayIs, RelayFields

LEMMA RunsIs ==
    ASSUME TypeInd, NEW r \in running, NEW t \in Relays, Become(t)
    PROVE  /\ t.db = relay.db => Runs(r, 0, <<>>, t)
           /\ \A st \in Statements : t.db = [relay.db EXCEPT ![r] = Append(relay.db[r], st)] => Runs(r, 0, <<st>>, t)
<1>1. r \in Replicas /\ QueuesInd
  BY RelayIs
<1>2. <<>> \in Seq(Statements) /\ Len(<<>>) \in {0, 1}
  BY NoStatement
<1>3. \A st \in Statements : <<st>> \in Seq(Statements) /\ Len(<<st>>) \in {0, 1}
  BY OneStatement
<1>4. /\ Took(t)
      /\ t.db = relay.db => Queued(r, 0, <<>>)
      /\ \A st \in Statements : t.db = [relay.db EXCEPT ![r] = Append(relay.db[r], st)] => Queued(r, 0, <<st>>)
  BY <1>1, BecomeMakes
<1> QED BY <1>1, <1>2, <1>3, <1>4 DEF Runs

LEMMA RunsOnIs ==
    ASSUME TypeInd, NEW r \in running, NEW t \in Relays, Continue(r, t), db[r] # <<>>
    PROVE  /\ t.db = relay.db => Runs(r, 1, <<>>, t)
           /\ \A st \in Statements : t.db = [relay.db EXCEPT ![r] = Append(relay.db[r], st)] => Runs(r, 1, <<st>>, t)
<1>1. r \in Replicas /\ QueuesInd
  BY RelayIs
<1>2. <<>> \in Seq(Statements) /\ Len(<<>>) \in {0, 1}
  BY NoStatement
<1>3. \A st \in Statements : <<st>> \in Seq(Statements) /\ Len(<<st>>) \in {0, 1}
  BY OneStatement
<1>4. /\ Took(t)
      /\ t.db = relay.db => Queued(r, 1, <<>>)
      /\ \A st \in Statements : t.db = [relay.db EXCEPT ![r] = Append(relay.db[r], st)] => Queued(r, 1, <<st>>)
  BY <1>1, ContinueMakes
<1> QED BY <1>1, <1>2, <1>3, <1>4 DEF Runs

LEMMA AskedIsStatement ==
    /\ LoadSession \in Statements /\ LatestVersion \in Statements
    /\ \A b \in BOOLEAN : DropSession(b) \in Statements
    /\ \A c \in SUBSET Edits, b \in BOOLEAN : AppendVersion(c, b) \in Statements
<1>1. LoadSession \in Statements /\ LatestVersion \in Statements
  BY DEF LoadSession, LatestVersion, Statements
<1>2. \A b \in BOOLEAN : DropSession(b) \in Statements
  BY DEF DropSession, Statements
<1>3. \A c \in SUBSET Edits, b \in BOOLEAN : AppendVersion(c, b) \in Statements
  BY DEF AppendVersion, Statements
<1> QED BY <1>1, <1>2, <1>3

SeedsTo(r) == Ask([relay EXCEPT !.building[r] = Seeding], r, LoadSession)

LEMMA JoinSteps ==
    ASSUME TypeInd, MapsInd, NEW r \in running, NEW p \in deployed.serves[r], Join(p, r)
    PROVE  \/ Attaches(p, r, relay.documents[r], Attached(relay, p, relay.documents[r]))
           \/ Awaits(p, r)
           \/ Seeds(p, r, SeedsTo(r))
<1>1. relay \in Relays /\ r \in Replicas
  BY RelayIs
<1>2. p \in Peers
  BY DeploymentsAssumption DEF TypeInd, running
<1>3. peers[p].at = "nowhere" /\ ~relay.closed[r]
  BY DEF Join
<1> DEFINE n == relay.documents[r]
<1>4. CASE n # None
  <2> DEFINE v == [relay.lives[n] EXCEPT !.peers = @ \cup {p}]
             t == Attached(relay, p, n)
  <2>1. n \in DOMAIN relay.lives
    BY <1>1, <1>4 DEF MapsInd, MapInd, Of
  <2>2. relay.lives[n] \in Lives
    BY <1>1, <2>1, RelayFields
  <2>3. v \in Lives
    BY <1>2, <2>2 DEF Lives
  <2>4. t = [relay EXCEPT !.lives = [relay.lives EXCEPT ![n] = v]]
    BY <1>1, <2>1, <2>2 DEF Attached, Relays
  <2>5. Rewritten(relay, n, v, t)
    BY <1>1, <2>1, <2>3, <2>4, RewriteMakes
  <2>6. Become(t) /\ Enters(p, r, n)
    BY <1>4 DEF Join, Enters
  <2>7. t \in Relays /\ t.db = relay.db
    BY <2>5 DEF Rewritten, SameAsks
  <2>8. Runs(r, 0, <<>>, t)
    BY <2>6, <2>7, RunsIs
  <2> HIDE DEF t
  <2>9. Attaches(p, r, n, t)
    BY <1>2, <1>3, <1>4, <2>5, <2>6, <2>8 DEF Attaches
  <2> QED BY <2>9 DEF t
<1>5. CASE n = None /\ relay.building[r] # None
  <2>1. relay' = relay /\ db' = db /\ WaitsAt(p, r)
    BY <1>5 DEF Join, WaitsAt
  <2>2. Took(relay) /\ db[r] \in Seq(Statements) /\ DOMAIN db = Replicas
    BY <1>1, <2>1, RelayIs DEF Took, TypeInd, Queues
  <2>3. Queued(r, 0, <<>>)
    <3>1. Turned(db[r], 0, <<>>) = db[r] \o <<>>
      BY DEF Turned
    <3>2. db[r] \o <<>> = db[r]
      BY <2>2
    <3>3. [db EXCEPT ![r] = db[r]] = db
      BY RelayIs DEF Queues
    <3> QED BY <2>1, <3>1, <3>2, <3>3 DEF Queued
  <2>4. <<>> \in Seq(Statements) /\ Len(<<>>) \in {0, 1}
    BY NoStatement
  <2>5. Awaits(p, r)
    BY <1>1, <1>2, <1>3, <2>1, <2>2, <2>3, <2>4 DEF Awaits, Runs
  <2> QED BY <2>5
<1>6. CASE n = None /\ relay.building[r] = None
  <2> DEFINE b == [relay.building EXCEPT ![r] = Seeding]
             u == [relay EXCEPT !.building = b]
             t == SeedsTo(r)
  <2>1. relay.building \in [Replicas -> Nat] /\ Seeding \in Nat
    BY <1>1, RelayFields, DeploymentsAssumption DEF Seeding
  <2>2. b \in [Replicas -> Nat]
    BY <2>1
  <2> HIDE DEF b
  <2>3. /\ u \in Relays /\ SameObjects(relay, u) /\ SameWires(relay, u) /\ SameAsks(relay, u)
        /\ u.documents = relay.documents /\ u.closed = relay.closed /\ u.building = b
    BY <1>1, <2>2 DEF Relays, SameObjects, SameWires, SameAsks
  <2>4. t = Ask(u, r, LoadSession)
    BY <1>1 DEF SeedsTo, Relays, b
  <2> HIDE DEF u, t
  <2>5. Asked(u, r, LoadSession, t)
    BY <1>1, <2>3, <2>4, AskMakes, AskedIsStatement
  <2>6. Become(t) /\ WaitsAt(p, r) /\ Len(relay.lives) + Cardinality(Seeders) < MaxBuilds
    BY <1>6 DEF Join, WaitsAt, Seeders, t, SeedsTo
  <2>7. t \in Relays /\ t.db = [relay.db EXCEPT ![r] = Append(relay.db[r], LoadSession)]
    BY <2>3, <2>5 DEF Asked, SameAsks
  <2>8. Runs(r, 0, <<LoadSession>>, t)
    BY <2>6, <2>7, RunsIs, AskedIsStatement
  <2>9. Seeds(p, r, t)
    BY <1>2, <1>3, <1>6, <2>3, <2>5, <2>6, <2>8 DEF Seeds, Asked, SameObjects, SameMaps, SameWires, b
  <2> QED BY <2>9 DEF t
<1> QED BY <1>4, <1>5, <1>6

LEMMA DetachSteps ==
    ASSUME TypeInd, MapsInd, NEW p \in Peers, Detach(p)
    PROVE  LET r == peers[p].replica
               n == peers[p].live
               t == Detached(relay, p, n)
           IN  LeavesOthers(p, r, n, t) \/ LeavesSaving(p, r, n, t) \/ LeavesAtOnce(p, r, n, t)
<1> DEFINE r == peers[p].replica
           n == peers[p].live
           t == Detached(relay, p, n)
           l == relay.lives[n]
<1>1. peers[p].at = "in" /\ Become(t) /\ Exits(p, r, n)
  BY DEF Detach, Exits
<1>2. r \in running /\ n \in DOMAIN relay.lives /\ l \in Lives /\ l.replica = r /\ ~l.dropping /\ n \in Nat
  BY <1>1, PlaceOf
<1>3. relay \in Relays
  BY RelayIs
<1>4. l.doc \in Documents /\ l.pending \in BOOLEAN
  BY <1>2, LiveFields
<1> HIDE DEF t
<1>5. CASE l.peers \ {p} # {}
  <2>1. Rewritten(relay, n, LeftLive(l, p), t)
    BY <1>2, <1>3, <1>5, DetachedMakes DEF t
  <2>2. t \in Relays /\ t.db = relay.db
    BY <2>1 DEF Rewritten, SameAsks
  <2>3. Runs(r, 0, <<>>, t)
    BY <1>1, <1>2, <2>2, RunsIs
  <2>4. LeavesOthers(p, r, n, t)
    BY <1>1, <1>5, <2>1, <2>3 DEF LeavesOthers
  <2> QED BY <2>4 DEF t
<1>6. CASE l.peers \ {p} = {} /\ l.pending
  <2>1. LeftSaving(relay, n, p, t)
    BY <1>2, <1>3, <1>6, DetachedMakes DEF t
  <2> DEFINE st == SaveSession(n, l.doc, "leave")
  <2>2. t \in Relays /\ t.db = [relay.db EXCEPT ![r] = Append(relay.db[r], st)]
    BY <1>2, <2>1 DEF LeftSaving
  <2>3. st \in Statements
    BY <1>2, <1>4, SaveIsStatement
  <2> HIDE DEF st
  <2>4. Runs(r, 0, <<st>>, t)
    BY <1>1, <1>2, <2>2, <2>3, RunsIs
  <2>5. LeavesSaving(p, r, n, t)
    BY <1>1, <1>6, <2>1, <2>4 DEF LeavesSaving, st
  <2> QED BY <2>5 DEF t
<1>7. CASE l.peers \ {p} = {} /\ ~l.pending
  <2>1. LeftAtOnce(relay, n, p, t)
    BY <1>2, <1>3, <1>7, DetachedMakes DEF t
  <2>2. t \in Relays /\ t.db = relay.db
    BY <2>1 DEF LeftAtOnce, SameAsks
  <2>3. Runs(r, 0, <<>>, t)
    BY <1>1, <1>2, <2>2, RunsIs
  <2>4. LeavesAtOnce(p, r, n, t)
    BY <1>1, <1>7, <2>1, <2>3 DEF LeavesAtOnce
  <2> QED BY <2>4 DEF t
<1> QED BY <1>5, <1>6, <1>7

LEMMA TimerSteps ==
    ASSUME TypeInd, MapsInd, NEW n \in DOMAIN relay.lives, TimerFires(n)
    PROVE  Fires(n, relay.lives[n].replica, Flush(relay, n, "timer"))
<1> DEFINE l == relay.lives[n]
           t == Flush(relay, n, "timer")
           st == SaveSession(n, l.doc, "timer")
<1>1. l.timer /\ Become(t) /\ peers' = peers
  BY DEF TimerFires
<1>2. relay \in Relays /\ l \in Lives /\ n \in Nat
  BY RelayIs, RelayFields
<1>3. LiveInd(n)
  BY DEF MapsInd
<1>4. l.pending /\ l.replica \in running /\ l.doc \in Documents
  BY <1>1, <1>2, <1>3, LiveFields DEF LiveInd
<1>5. FlushedTo(relay, n, "timer", t)
  BY <1>2, <1>4, FlushMakes
<1>6. st \in Statements
  BY <1>2, <1>4, SaveIsStatement
<1>7. t \in Relays /\ t.db = [relay.db EXCEPT ![l.replica] = Append(relay.db[l.replica], st)]
  BY <1>5 DEF FlushedTo
<1> HIDE DEF t, st
<1>8. Runs(l.replica, 0, <<st>>, t)
  BY <1>1, <1>4, <1>6, <1>7, RunsIs
<1> QED BY <1>1, <1>5, <1>8 DEF Fires, t, st

OpensTo(n) == Opened([relay EXCEPT !.channel[relay.lives[n].replica] = "open"], n)

LEMMA SubscribeSteps ==
    ASSUME TypeInd, MapsInd, NEW n \in DOMAIN relay.lives, Subscribe(n)
    PROVE  Opens(n, relay.lives[n].replica, OpensTo(n))
<1> DEFINE l == relay.lives[n]
           r == l.replica
           c == [relay.channel EXCEPT ![r] = "open"]
           u == [relay EXCEPT !.channel = c]
           t == OpensTo(n)
<1>1. l.bus = "opening" /\ Become(t) /\ peers' = peers
  BY DEF Subscribe, OpensTo
<1>2. relay \in Relays /\ r \in Replicas /\ r \in running
  <2>1. relay \in Relays /\ l \in Lives
    BY RelayIs, RelayFields
  <2>2. LiveInd(n)
    BY DEF MapsInd
  <2> QED BY <2>1, <2>2, LiveFields DEF LiveInd
<1>3. c \in [Replicas -> {"closed", "opening", "open"}]
  BY <1>2, RelayFields
<1>4. t = Opened(u, n)
  BY <1>2 DEF OpensTo, Relays
<1> HIDE DEF c
<1>5. /\ u \in Relays /\ SameObjects(relay, u) /\ SameMaps(relay, u) /\ SameAsks(relay, u) /\ SameOut(relay, u)
      /\ u.channel = c /\ u.inbox = relay.inbox
  BY <1>2, <1>3 DEF Relays, SameObjects, SameMaps, SameAsks, SameOut
<1> HIDE DEF u, t
<1>6. OpenedTo(u, n, t)
  BY <1>4, <1>5, OpenedMakes DEF SameObjects
<1>7. u.lives = relay.lives
  BY <1>5 DEF SameObjects
<1>8. Box(u, r, Greeting) = Box(relay, r, Greeting)
  <2>1. \A q \in Replicas : q # r => c[q] = relay.channel[q]
    BY <1>2, RelayFields DEF c
  <2> QED BY <1>5, <2>1 DEF Box
<1>9. t \in Relays /\ t.db = relay.db
  BY <1>5, <1>6 DEF OpenedTo, SameAsks
<1>10. Runs(r, 0, <<>>, t)
  BY <1>1, <1>2, <1>9, RunsIs
<1>11. Opens(n, r, t)
  BY <1>1, <1>5, <1>6, <1>7, <1>8, <1>10 DEF Opens, OpenedTo, SameMaps, c
<1> QED BY <1>11 DEF t

\* A step that asks for nothing and sends nobody away.
LEMMA SilentRuns ==
    ASSUME TypeInd, NEW r \in running, relay' \in Relays, relay'.out = {}, relay'.db = relay.db, db' = db
    PROVE  Runs(r, 0, <<>>, relay')
<1>1. r \in Replicas /\ relay.db = [q \in Replicas |-> <<>>] /\ db \in Queues
  BY RelayIs DEF QueuesInd
<1>2. Took(relay')
  BY <1>1 DEF Took
<1>3. Queued(r, 0, <<>>)
  <2>1. Turned(db[r], 0, <<>>) = db[r] \o <<>>
    BY DEF Turned
  <2>2. db[r] \o <<>> = db[r]
    BY <1>1 DEF Queues
  <2>3. [db EXCEPT ![r] = db[r]] = db
    BY <1>1 DEF Queues
  <2> QED BY <2>1, <2>2, <2>3 DEF Queued
<1> QED BY <1>1, <1>2, <1>3, NoStatement DEF Runs

LEMMA BuildEndsSteps ==
    ASSUME TypeInd, MapsInd, NEW r \in running, BuildEnds(r)
    PROVE  EndsBuild(r, relay.building[r], relay')
<1> DEFINE n == relay.building[r]
           l == relay.lives[n]
           served == relay.documents[r] = n /\ ~l.dropping
           b == [relay.building EXCEPT ![r] = None]
           v == [l EXCEPT !.peers = IF served THEN @ \cup Waiting(r) ELSE @]
           f == [relay.lives EXCEPT ![n] = v]
<1>1. n \in DOMAIN relay.lives /\ l.bus # "opening" /\ db' = db
  BY DEF BuildEnds, storeVars
<1>2. relay \in Relays /\ r \in Replicas /\ l \in Lives /\ relay.lives \in Seq(Lives) /\ relay.building \in [Replicas -> Nat]
  BY <1>1, RelayIs, RelayFields
<1>3. v \in Lives
  <2>1. Waiting(r) \in SUBSET Peers /\ l.peers \in SUBSET Peers
    BY <1>2, LiveFields DEF Waiting
  <2> QED BY <1>2, <2>1 DEF Lives
<1>4. f \in Seq(Lives)
  BY <1>1, <1>2, <1>3
<1>5. b \in [Replicas -> Nat]
  BY <1>2 DEF None
<1>6. relay' = [relay EXCEPT !.building = b, !.lives = f]
  BY <1>1, <1>2 DEF BuildEnds, Relays
<1> HIDE DEF b, f
<1>7. /\ relay' \in Relays /\ SameWires(relay, relay') /\ relay'.documents = relay.documents /\ relay'.closed = relay.closed
      /\ relay'.building = b /\ relay'.lives = f /\ relay'.out = relay.out /\ relay'.db = relay.db
  BY <1>2, <1>4, <1>5, <1>6 DEF Relays, SameWires
<1>8. relay.out = {}
  BY DEF TypeInd
<1>9. Runs(r, 0, <<>>, relay')
  BY <1>1, <1>7, <1>8, SilentRuns
<1>10. peers' = [p \in Peers |->
              IF p \notin Waiting(r) THEN peers[p]
              ELSE IF served THEN [at |-> "in", replica |-> r, live |-> n]
              ELSE [peers[p] EXCEPT !.at = "nowhere"]]
  BY DEF BuildEnds
<1> QED BY <1>1, <1>7, <1>9, <1>10 DEF EndsBuild, b, f

PoppedTo(r) == [relay EXCEPT !.inbox[r] = Tail(@)]

LEMMA PopMakes ==
    ASSUME TypeInd, NEW r \in Replicas, relay.inbox[r] # <<>>
    PROVE  Pops(r, Head(relay.inbox[r]), PoppedTo(r)) /\ Head(relay.inbox[r]) \in Messages
<1> DEFINE b == [relay.inbox EXCEPT ![r] = Tail(@)]
<1>1. relay \in Relays /\ relay.inbox \in [Replicas -> Seq(Messages)] /\ relay.inbox[r] \in Seq(Messages)
  BY RelayIs, RelayFields
<1>2. Tail(relay.inbox[r]) \in Seq(Messages) /\ Head(relay.inbox[r]) \in Messages
  BY <1>1
<1>3. b \in [Replicas -> Seq(Messages)]
  BY <1>1, <1>2
<1>4. PoppedTo(r) = [relay EXCEPT !.inbox = b]
  BY <1>1 DEF PoppedTo, Relays
<1> HIDE DEF b
<1>5. Popped(r, [relay EXCEPT !.inbox = b])
  BY <1>1, <1>3 DEF Popped, Relays, SameObjects, SameMaps, SameAsks, SameOut, b
<1> QED BY <1>2, <1>4, <1>5 DEF Pops

LEMMA ListeningIs ==
    ASSUME NEW r
    PROVE  Listening(r) \subseteq DOMAIN relay.lives
BY DEF Listening, Listeners

LEMMA NobodyLeaves ==
    ASSUME TypeInd
    PROVE  Leave({}) = peers
<1>1. peers \in [Peers -> Places]
  BY RelayIs
<1> QED BY <1>1 DEF Leave

LEMMA ReceiveSteps ==
    ASSUME TypeInd, MapsInd, NEW r \in running, Receive(r)
    PROVE  LET m == Head(relay.inbox[r])
               s == PoppedTo(r)
               t == Taken(s, r, m)
           IN  \/ Merges(r, m, s, t) \/ Answers(r, m, s, t) \/ IsTold(r, m, s, t)
               \/ Ignores(r, m, s) /\ m.kind = "sync-request"
<1> DEFINE m == Head(relay.inbox[r])
           s == PoppedTo(r)
           t == Taken(s, r, m)
<1>1. relay.inbox[r] # <<>> /\ Become(t) /\ peers' = Leave(t.out)
  BY DEF Receive, PoppedTo
<1>2. r \in Replicas
  BY RelayIs
<1>3. Pops(r, m, s) /\ m \in Messages
  BY <1>1, <1>2, PopMakes
<1> HIDE DEF s, m
<1>4. /\ s \in Relays /\ s.lives = relay.lives /\ s.db = relay.db /\ s.out = {}
  BY <1>3 DEF Pops, Popped, SameObjects, SameAsks, SameOut, TypeInd
<1>5. Listening(r) \subseteq DOMAIN s.lives
  BY <1>4, ListeningIs
<1> HIDE DEF t
<1>6. CASE m.kind \in {"update", "sync-state"}
  <2>1. MergedTo(s, r, m.doc, t)
    BY <1>2, <1>3, <1>4, <1>5, <1>6, TakenMakes DEF t
  <2>2. t \in Relays /\ t.db = relay.db /\ t.out = {}
    BY <1>4, <2>1 DEF MergedTo, SameAsks, SameOut
  <2>3. Runs(r, 0, <<>>, t) /\ peers' = peers
    BY <1>1, <2>2, RunsIs, NobodyLeaves
  <2>4. Merges(r, m, s, t)
    BY <1>3, <1>6, <2>1, <2>3 DEF Merges
  <2> QED BY <2>4 DEF t, s, m
<1>7. CASE m.kind = "sync-request" /\ Listening(r) # {}
  <2>1. Published(s, r, Answer(s, r), t)
    BY <1>2, <1>3, <1>4, <1>5, <1>7, TakenMakes DEF t
  <2>2. t \in Relays /\ t.db = relay.db /\ t.out = {}
    BY <1>4, <2>1 DEF Published, SameAsks, SameOut
  <2>3. Runs(r, 0, <<>>, t) /\ peers' = peers
    BY <1>1, <2>2, RunsIs, NobodyLeaves
  <2>4. Answers(r, m, s, t)
    BY <1>3, <1>7, <2>1, <2>3 DEF Answers
  <2> QED BY <2>4 DEF t, s, m
<1>8. CASE m.kind = "sync-request" /\ Listening(r) = {}
  <2>1. t = s
    BY <1>2, <1>3, <1>4, <1>5, <1>8, TakenMakes DEF t
  <2>3. Runs(r, 0, <<>>, s) /\ peers' = peers
    BY <1>1, <1>4, <2>1, RunsIs, NobodyLeaves
  <2>4. Ignores(r, m, s) /\ m.kind = "sync-request"
    BY <1>3, <1>8, <2>3 DEF Ignores
  <2> QED BY <2>4 DEF s, m
<1>9. CASE m.kind = "settled"
  <2>1. Dropped(s, r, Listening(r), t)
    BY <1>2, <1>3, <1>4, <1>5, <1>9, TakenMakes DEF t
  <2>2. t \in Relays /\ t.db = relay.db /\ t.out = UNION {relay.lives[n].peers : n \in Listening(r)}
    BY <1>4, <2>1 DEF Dropped, DroppedBut, SameAsks
  <2>3. Runs(r, 0, <<>>, t)
    BY <1>1, <2>2, RunsIs
  <2>4. IsTold(r, m, s, t)
    BY <1>1, <1>3, <1>9, <2>1, <2>2, <2>3 DEF IsTold
  <2> QED BY <2>4 DEF t, s, m
<1>10. m.kind \in {"update", "sync-state", "sync-request", "settled"}
  BY <1>3 DEF Messages
<1> QED BY <1>6, <1>7, <1>8, <1>9, <1>10

LEMMA LostSteps ==
    ASSUME TypeInd, NEW r \in running, MessageIsLost(r)
    PROVE  Ignores(r, Head(relay.inbox[r]), PoppedTo(r))
<1>1. relay.inbox[r] # <<>> /\ relay' = PoppedTo(r) /\ peers' = peers /\ db' = db
  BY DEF MessageIsLost, PoppedTo, storeVars
<1>2. r \in Replicas
  BY RelayIs
<1>3. Pops(r, Head(relay.inbox[r]), PoppedTo(r))
  BY <1>1, <1>2, PopMakes
<1>4. relay' \in Relays /\ relay'.out = {} /\ relay'.db = relay.db
  BY <1>1, <1>3 DEF Pops, Popped, SameAsks, SameOut, TypeInd
<1>5. Runs(r, 0, <<>>, relay')
  BY <1>1, <1>4, SilentRuns
<1> QED BY <1>1, <1>3, <1>5 DEF Ignores

LEMMA ApplySteps ==
    ASSUME TypeInd, MapsInd, NEW p \in Peers, NEW edit \in Edits, Apply(p, edit)
    PROVE  Integrates(p, peers[p].replica, peers[p].live, edit, Accepted(relay, peers[p].live, edit))
<1> DEFINE r == peers[p].replica
           n == peers[p].live
           t == Accepted(relay, n, edit)
<1>1. peers[p].at = "in" /\ Become(t) /\ peers' = peers
  BY DEF Apply
<1>2. r \in running /\ n \in DOMAIN relay.lives /\ relay \in Relays
  BY <1>1, PlaceOf, RelayIs
<1>3. EditedTo(relay, n, edit, t)
  BY <1>2, AcceptedMakes
<1>4. t \in Relays /\ t.db = relay.db
  BY <1>3 DEF EditedTo, SameAsks
<1> HIDE DEF t
<1>5. Runs(r, 0, <<>>, t)
  BY <1>1, <1>2, <1>4, RunsIs
<1>6. Integrates(p, r, n, edit, t)
  BY <1>1, <1>3, <1>5 DEF Integrates
<1> QED BY <1>6 DEF t

LEMMA OvergrowSteps ==
    ASSUME TypeInd, MapsInd, NEW p \in Peers, Overgrow(p)
    PROVE  Overgrows(p, peers[p].replica, peers[p].live, Drop(relay, peers[p].live, FALSE))
<1> DEFINE r == peers[p].replica
           n == peers[p].live
           t == Drop(relay, n, FALSE)
<1>1. peers[p].at = "in" /\ Become(t) /\ peers' = Leave(t.out)
  BY DEF Overgrow
<1>2. r \in running /\ n \in DOMAIN relay.lives /\ relay \in Relays /\ ~relay.lives[n].dropping /\ relay.lives[n].replica = r
  BY <1>1, PlaceOf, RelayIs
<1> HIDE DEF t
<1>3. DroppedBut(relay, r, {n}, t) /\ t.db = [relay.db EXCEPT ![r] = Append(relay.db[r], DropSession(FALSE))]
  BY <1>2, DropMakes DEF t
<1>4. t \in Relays /\ t.out = relay.lives[n].peers
  BY <1>3 DEF DroppedBut, TypeInd
<1>5. Runs(r, 0, <<DropSession(FALSE)>>, t)
  BY <1>1, <1>2, <1>3, <1>4, RunsIs, AskedIsStatement
<1>6. Overgrows(p, r, n, t)
  BY <1>1, <1>3, <1>4, <1>5 DEF Overgrows
<1> QED BY <1>6 DEF t

LEMMA StatementIs ==
    ASSUME NEW st \in Statements
    PROVE  /\ st.kind \in {"load", "latest", "save", "drop", "append"} /\ st.done \in BOOLEAN
           /\ st.kind = "load" => st.got \in Documents \cup {NoRow}
           /\ st.kind = "latest" => st.got \in SUBSET Edits
           /\ st.kind = "save" => st.live \in Nat /\ st.doc \in Documents /\ st.why \in {"timer", "leave", "close"}
           /\ st.kind = "drop" => st.reseed \in BOOLEAN
           /\ st.kind = "append" => st.circuit \in SUBSET Edits /\ st.restore \in BOOLEAN
BY DEF Statements

LEMMA HeadIs ==
    ASSUME TypeInd, NEW r \in Replicas, db[r] # <<>>
    PROVE  /\ db[r] \in Seq(Statements) /\ 1 \in DOMAIN db[r] /\ Head(db[r]) = db[r][1] /\ Head(db[r]) \in Statements
           /\ DOMAIN db[r] = 1 .. Len(db[r]) /\ Len(db[r]) \in Nat
<1>1. db[r] \in Seq(Statements)
  BY RelayIs DEF Queues
<1> QED BY <1>1

\* The steps that follow a save or a deletion, however it went.
LEMMA OverSteps ==
    ASSUME TypeInd, MapsInd, NEW r \in running, QueueInd(r), db[r] # <<>>, Head(db[r]).kind \in {"save", "drop"},
           NEW t, t = Over(relay, r, Head(db[r])), Continue(r, t), peers' = Leave(t.out)
    PROVE  LooksOn(r) \/ IsOver(r) \/ LetsGo(r, Head(db[r]).live, t) \/ Finishes(r, Head(db[r]).live, t)
<1> DEFINE st == Head(db[r])
           n == st.live
<1>1. relay \in Relays /\ r \in Replicas /\ relay.out = {}
  BY RelayIs DEF TypeInd
<1>2. st \in Statements /\ st = db[r][1] /\ 1 \in DOMAIN db[r]
  BY <1>1, HeadIs
<1>3. ASSUME t = relay, ~Lookup(st) PROVE IsOver(r)
  <2>1. Runs(r, 1, <<>>, relay) /\ peers' = peers
    BY <1>1, <1>3, RunsOnIs, NobodyLeaves
  <2> QED BY <1>3, <2>1 DEF IsOver
<1>4. CASE st.kind = "save"
  <2>1. n \in Of(r) /\ n \in DOMAIN relay.lives /\ relay.lives[n].replica = r
    BY <1>2, <1>4 DEF QueueInd, Of
  <2>2. st.why \in {"timer", "leave", "close"}
    BY <1>2, <1>4, StatementIs
  <2>3. t = Flushed(relay, n, st.why)
    BY <1>4 DEF Over
  <2>4. ~Lookup(st)
    BY <1>4 DEF Lookup
  <2>5. CASE st.why = "timer"
    BY <1>1, <1>3, <2>1, <2>2, <2>3, <2>4, <2>5, FlushedMakes
  <2>6. CASE st.why = "leave"
    <3>1. CASE relay.lives[n].peers = {} /\ ~relay.lives[n].dropping
      <4>1. Forgot(relay, r, t)
        BY <1>1, <2>1, <2>2, <2>3, <2>6, <3>1, FlushedMakes
      <4>2. t \in Relays /\ t.db = relay.db /\ t.out = {}
        BY <1>1, <4>1 DEF Forgot, SameAsks, SameOut
      <4>3. Runs(r, 1, <<>>, t) /\ peers' = peers
        BY <4>2, RunsOnIs, NobodyLeaves
      <4>4. LetsGo(r, n, t)
        BY <1>4, <2>6, <3>1, <4>1, <4>3 DEF LetsGo
      <4> QED BY <4>4
    <3>2. CASE ~(relay.lives[n].peers = {} /\ ~relay.lives[n].dropping)
      <4>1. t = relay
        BY <1>1, <2>1, <2>2, <2>3, <2>6, <3>2, FlushedMakes
      <4> QED BY <1>3, <2>4, <4>1
    <3> QED BY <3>1, <3>2
  <2>7. CASE st.why = "close"
    <3>1. t = Drop(relay, n, TRUE)
      BY <1>1, <2>1, <2>2, <2>3, <2>7, FlushedMakes
    <3>2. CASE relay.lives[n].dropping
      BY <1>1, <1>3, <2>1, <2>4, <3>1, <3>2, DropMakes
    <3>3. CASE ~relay.lives[n].dropping
      <4>1. Dropped(relay, r, {n}, t)
        BY <1>1, <2>1, <3>1, <3>3, DropMakes
      <4>5. DroppedBut(relay, r, {n}, t) /\ t.db = relay.db
        BY <4>1 DEF Dropped, SameAsks
      <4>6. t \in Relays /\ t.out = relay.out \cup UNION {relay.lives[m].peers : m \in {n}}
        BY <4>5 DEF DroppedBut
      <4>2. t \in Relays /\ t.db = relay.db /\ t.out = relay.lives[n].peers /\ DroppedBut(relay, r, {n}, t)
        BY <1>1, <4>5, <4>6
      <4>3. Runs(r, 1, <<>>, t)
        BY <4>2, RunsOnIs
      <4>4. Finishes(r, n, t)
        BY <1>4, <2>7, <3>3, <4>2, <4>3 DEF Finishes
      <4> QED BY <4>4
    <3> QED BY <3>2, <3>3
  <2> QED BY <2>2, <2>5, <2>6, <2>7
<1>5. CASE st.kind = "drop" /\ st.reseed
  <2>1. t = Ask(relay, r, LatestVersion)
    BY <1>5 DEF Over
  <2>2. Asked(relay, r, LatestVersion, t)
    BY <1>1, <2>1, AskMakes, AskedIsStatement
  <2>3. t \in Relays /\ t.out = {} /\ t.db = [relay.db EXCEPT ![r] = Append(relay.db[r], LatestVersion)]
    BY <1>1, <2>2 DEF Asked, SameOut
  <2>4. Runs(r, 1, <<LatestVersion>>, t) /\ peers' = peers
    BY <2>3, RunsOnIs, AskedIsStatement, NobodyLeaves
  <2>5. Runs(r, 1, <<LatestVersion>>, relay)
    BY <2>2, <2>4 DEF Runs, Took, Asked, SameObjects, SameMaps, SameWires
  <2>6. LooksOn(r)
    BY <1>5, <2>4, <2>5 DEF LooksOn, Lookup
  <2> QED BY <2>6
<1>6. CASE st.kind = "drop" /\ ~st.reseed
  <2>1. t = relay /\ ~Lookup(st)
    BY <1>6 DEF Over, Lookup
  <2> QED BY <1>3, <2>1
<1> QED BY <1>4, <1>5, <1>6

\* A build that has its document.
LEMMA BuiltSteps ==
    ASSUME TypeInd, NEW r \in running, db[r] # <<>>, Lookup(Head(db[r])), NEW doc \in Documents,
           NEW t, t = Built(relay, r, doc), Continue(r, t), peers' = Leave(t.out)
    PROVE  SetsUp(r, doc, t) \/ Refuses(r, t)
<1>1. relay \in Relays /\ r \in Replicas /\ relay.out = {}
  BY RelayIs DEF TypeInd
<1>2. CASE relay.closed[r]
  <2>1. BuildRefused(relay, r, t)
    BY <1>1, <1>2, BuiltMakes
  <2>2. t \in Relays /\ t.db = relay.db /\ t.out = Waiting(r)
    BY <2>1 DEF BuildRefused, SameAsks
  <2>3. Runs(r, 1, <<>>, t)
    BY <2>2, RunsOnIs
  <2>4. Refuses(r, t)
    BY <1>2, <2>1, <2>2, <2>3 DEF Refuses
  <2> QED BY <2>4
<1>3. CASE ~relay.closed[r]
  <2>1. BuiltTo(relay, r, doc, t)
    BY <1>1, <1>3, BuiltMakes
  <2>2. t \in Relays /\ t.db = relay.db /\ t.out = {}
    BY <1>1, <2>1 DEF BuiltTo, SameAsks, SameOut
  <2>3. Runs(r, 1, <<>>, t) /\ peers' = peers
    BY <2>2, RunsOnIs, NobodyLeaves
  <2>4. SetsUp(r, doc, t)
    BY <1>3, <2>1, <2>3 DEF SetsUp
  <2> QED BY <2>4
<1> QED BY <1>2, <1>3

\* The steps that follow a question to the store.
AsksTo(r, st) == Ask(relay, r, st)

LEMMA AskOnSteps ==
    ASSUME TypeInd, NEW r \in running, db[r] # <<>>, NEW st \in Statements, Continue(r, AsksTo(r, st))
    PROVE  Runs(r, 1, <<st>>, relay) /\ AsksTo(r, st).out = {}
<1> DEFINE t == AsksTo(r, st)
<1>1. relay \in Relays /\ r \in Replicas /\ relay.out = {}
  BY RelayIs DEF TypeInd
<1>2. Asked(relay, r, st, t)
  BY <1>1, AskMakes DEF AsksTo
<1>3. t \in Relays /\ t.out = {} /\ t.db = [relay.db EXCEPT ![r] = Append(relay.db[r], st)]
  BY <1>1, <1>2 DEF Asked, SameOut
<1> HIDE DEF t
<1>4. Continue(r, t)
  BY DEF t
<1>5. Runs(r, 1, <<st>>, t)
  BY <1>3, <1>4, RunsOnIs
<1>6. Runs(r, 1, <<st>>, relay)
  BY <1>2, <1>5 DEF Runs, Took, Asked, SameObjects, SameMaps, SameWires
<1> QED BY <1>3, <1>6 DEF t

FoundTo(r) == Built(relay, r, Head(db[r]).got)
LatestTo(r) == Built(relay, r, DocumentOf(Head(db[r]).got))
SettleTo(r) == Settle(relay, r, Head(db[r]).circuit)
OverTo(r) == Over(relay, r, Head(db[r]))

LEMMA ReplySteps ==
    ASSUME TypeInd, MapsInd, NEW r \in running, QueueInd(r), Reply(r)
    PROVE  LET st == Head(db[r])
           IN  \/ st.kind = "load" /\ st.got # NoRow /\ (SetsUp(r, st.got, FoundTo(r)) \/ Refuses(r, FoundTo(r)))
               \/ st.kind = "load" /\ st.got = NoRow /\ LooksOn(r)
               \/ st.kind = "latest" /\ (SetsUp(r, DocumentOf(st.got), LatestTo(r)) \/ Refuses(r, LatestTo(r)))
               \/ st.kind = "append" /\ (Tells(r, st.circuit, SettleTo(r)) \/ Settles(r, relay.documents[r], st.circuit, SettleTo(r)))
               \/ st.kind \in {"save", "drop"} /\ (LooksOn(r) \/ IsOver(r) \/ LetsGo(r, st.live, OverTo(r)) \/ Finishes(r, st.live, OverTo(r)))
<1> DEFINE st == Head(db[r])
<1>1. relay \in Relays /\ r \in Replicas /\ relay.out = {} /\ db[r] # <<>>
  BY RelayIs DEF TypeInd, Reply, Answered
<1>2. st \in Statements
  BY <1>1, HeadIs
<1>3. CASE st.kind = "load" /\ st.got # NoRow
  <2>1. Continue(r, FoundTo(r)) /\ peers' = Leave(FoundTo(r).out)
    BY <1>3 DEF Reply, FoundTo
  <2>2. st.got \in Documents /\ Lookup(st)
    BY <1>2, <1>3, StatementIs DEF Lookup
  <2>3. SetsUp(r, st.got, FoundTo(r)) \/ Refuses(r, FoundTo(r))
    BY <1>1, <2>1, <2>2, BuiltSteps DEF FoundTo
  <2> QED BY <1>3, <2>3
<1>4. CASE st.kind = "load" /\ st.got = NoRow
  <2>1. Continue(r, AsksTo(r, LatestVersion)) /\ peers' = Leave(AsksTo(r, LatestVersion).out)
    BY <1>4 DEF Reply, AsksTo
  <2>2. Runs(r, 1, <<LatestVersion>>, relay) /\ peers' = peers
    BY <1>1, <2>1, AskOnSteps, AskedIsStatement, NobodyLeaves
  <2>3. LooksOn(r)
    BY <1>4, <2>2 DEF LooksOn, Lookup
  <2> QED BY <1>4, <2>3
<1>5. CASE st.kind = "latest"
  <2>1. Continue(r, LatestTo(r)) /\ peers' = Leave(LatestTo(r).out)
    BY <1>5 DEF Reply, LatestTo
  <2>2. DocumentOf(st.got) \in Documents /\ Lookup(st)
    BY <1>2, <1>5, StatementIs DEF Lookup, DocumentOf, Documents
  <2>3. SetsUp(r, DocumentOf(st.got), LatestTo(r)) \/ Refuses(r, LatestTo(r))
    BY <1>1, <2>1, <2>2, BuiltSteps DEF LatestTo
  <2> QED BY <1>5, <2>3
<1>6. CASE st.kind = "append"
  <2> DEFINE n == relay.documents[r]
             t == SettleTo(r)
  <2>1. Continue(r, t) /\ peers' = Leave(t.out)
    BY <1>6 DEF Reply, SettleTo
  <2>2. st.circuit \in SUBSET Edits
    BY <1>2, <1>6, StatementIs
  <2>3. n # None => n \in DOMAIN relay.lives
    BY <1>1 DEF MapsInd, MapInd, Of
  <2> HIDE DEF t
  <2>4. CASE n = None \/ Content(relay.lives[n].doc) = st.circuit
    <3>1. Published(relay, r, Told, t)
      BY <1>1, <2>2, <2>3, <2>4, SettleMakes DEF t, SettleTo
    <3>2. t \in Relays /\ t.db = relay.db /\ t.out = {}
      BY <1>1, <3>1 DEF Published, SameAsks, SameOut
    <3>3. Runs(r, 1, <<>>, t) /\ peers' = peers
      BY <1>1, <2>1, <3>2, RunsOnIs, NobodyLeaves
    <3>4. Tells(r, st.circuit, t)
      BY <1>6, <2>4, <3>1, <3>3 DEF Tells
    <3> QED BY <1>6, <3>4 DEF t
  <2>5. CASE n # None /\ Content(relay.lives[n].doc) # st.circuit
    <3>1. SettledTo(relay, n, r, st.circuit, t)
      BY <1>1, <2>2, <2>3, <2>5, SettleMakes DEF t, SettleTo
    <3>2. t \in Relays /\ t.db = relay.db /\ t.out = {}
      BY <1>1, <3>1 DEF SettledTo, SameAsks, SameOut
    <3>3. Runs(r, 1, <<>>, t) /\ peers' = peers
      BY <1>1, <2>1, <3>2, RunsOnIs, NobodyLeaves
    <3>4. Settles(r, n, st.circuit, t)
      BY <1>6, <2>5, <3>1, <3>3 DEF Settles
    <3> QED BY <1>6, <3>4 DEF t
  <2> QED BY <2>4, <2>5
<1>7. CASE st.kind \in {"save", "drop"}
  <2>1. Continue(r, OverTo(r)) /\ peers' = Leave(OverTo(r).out)
    BY <1>7 DEF Reply, OverTo
  <2>2. LooksOn(r) \/ IsOver(r) \/ LetsGo(r, st.live, OverTo(r)) \/ Finishes(r, st.live, OverTo(r))
    BY <1>1, <1>7, <2>1, OverSteps DEF OverTo
  <2> QED BY <1>7, <2>2
<1>8. st.kind \in {"load", "latest", "save", "drop", "append"}
  BY <1>2, StatementIs
<1> QED BY <1>3, <1>4, <1>5, <1>6, <1>7, <1>8

LEMMA WriteFailsSteps ==
    ASSUME TypeInd, MapsInd, NEW r \in running, QueueInd(r), WriteFails(r)
    PROVE  /\ db[r] # <<>> /\ Head(db[r]).kind \in {"save", "drop"}
           /\ LooksOn(r) \/ IsOver(r) \/ LetsGo(r, Head(db[r]).live, OverTo(r)) \/ Finishes(r, Head(db[r]).live, OverTo(r))
<1>1. db[r] # <<>> /\ Head(db[r]).kind \in {"save", "drop"}
  BY DEF WriteFails, Running
<1>2. Continue(r, OverTo(r)) /\ peers' = Leave(OverTo(r).out)
  BY DEF WriteFails, OverTo
<1>3. LooksOn(r) \/ IsOver(r) \/ LetsGo(r, Head(db[r]).live, OverTo(r)) \/ Finishes(r, Head(db[r]).live, OverTo(r))
  BY <1>1, <1>2, OverSteps DEF OverTo
<1> QED BY <1>1, <1>3

LEMMA RowDoesNotProjectSteps ==
    ASSUME TypeInd, NEW r \in running, RowDoesNotProject(r)
    PROVE  Discards(r) /\ Head(db[r]).kind = "load"
<1>1. db[r] # <<>> /\ Head(db[r]).kind = "load" /\ Continue(r, AsksTo(r, DropSession(TRUE))) /\ peers' = peers
  BY DEF RowDoesNotProject, Answered, AsksTo
<1>2. Runs(r, 1, <<DropSession(TRUE)>>, relay)
  BY <1>1, AskOnSteps, AskedIsStatement
<1> QED BY <1>1, <1>2 DEF Discards, Lookup

StopsTo(r) == [relay EXCEPT !.building[r] = None]

LEMMA LoadFailsSteps ==
    ASSUME TypeInd, NEW r \in running, LoadFails(r)
    PROVE  Stops(r, StopsTo(r))
<1> DEFINE b == [relay.building EXCEPT ![r] = None]
           t == StopsTo(r)
<1>1. relay \in Relays /\ r \in Replicas /\ relay.building \in [Replicas -> Nat]
  BY RelayIs, RelayFields
<1>2. b \in [Replicas -> Nat]
  BY <1>1 DEF None
<1>3. t = [relay EXCEPT !.building = b]
  BY <1>1 DEF StopsTo, Relays
<1> HIDE DEF b, t
<1>4. /\ t \in Relays /\ SameObjects(relay, t) /\ SameWires(relay, t) /\ t.documents = relay.documents
      /\ t.closed = relay.closed /\ t.building = b /\ t.db = relay.db
  BY <1>1, <1>2, <1>3 DEF Relays, SameObjects, SameWires
<1>5. /\ db[r] # <<>> /\ Head(db[r]).kind \in {"load", "latest"} /\ Continue(r, t)
      /\ peers' = Leave(Waiting(r))
  BY DEF LoadFails, Running, StopsTo, t
<1>6. Runs(r, 1, <<>>, t)
  BY <1>4, <1>5, RunsOnIs
<1>7. Stops(r, t)
  BY <1>4, <1>5, <1>6 DEF Stops, Lookup, b
<1> QED BY <1>7 DEF t

LEMMA VersionSteps ==
    ASSUME TypeInd, NEW r \in running, NEW circuit \in SUBSET Edits, NEW restore \in BOOLEAN,
           RequestVersion(r, circuit, restore)
    PROVE  AsksVersion(r, circuit, restore)
<1> DEFINE st == AppendVersion(circuit, restore)
           t == Ask(relay, r, st)
<1>1. relay \in Relays /\ r \in Replicas
  BY RelayIs
<1>2. st \in Statements
  BY AskedIsStatement
<1>3. Become(t) /\ peers' = peers
  BY DEF RequestVersion
<1> HIDE DEF st
<1>4. Asked(relay, r, st, t)
  BY <1>1, <1>2, AskMakes
<1> HIDE DEF t
<1>5. t \in Relays /\ t.db = [relay.db EXCEPT ![r] = Append(relay.db[r], st)]
  BY <1>4 DEF Asked
<1>6. Runs(r, 0, <<st>>, t)
  BY <1>2, <1>3, <1>5, RunsIs
<1>7. Runs(r, 0, <<st>>, relay)
  BY <1>4, <1>6 DEF Runs, Took, Asked, SameObjects, SameMaps, SameWires
<1> QED BY <1>3, <1>7 DEF AsksVersion, st

ClosingTo(r) == [relay EXCEPT !.closed[r] = TRUE, !.documents[r] = None]
ClosesTo(r) == Flush(ClosingTo(r), relay.documents[r], "close")

LEMMA CloseSteps ==
    ASSUME TypeInd, MapsInd, NEW r \in running, Close(r)
    PROVE  LET n == relay.documents[r]
               s == ClosingTo(r)
               t == ClosesTo(r)
           IN  ClosesNone(r, s) \/ ClosesSaving(r, n, s, t) \/ ClosesSaved(r, n, s, t)
<1> DEFINE n == relay.documents[r]
           s == ClosingTo(r)
           t == ClosesTo(r)
           c == [relay.closed EXCEPT ![r] = TRUE]
           d == [relay.documents EXCEPT ![r] = None]
<1>1. relay \in Relays /\ r \in Replicas /\ relay.out = {}
  BY RelayIs DEF TypeInd
<1>2. c \in [Replicas -> BOOLEAN] /\ d \in [Replicas -> Nat]
  BY <1>1, RelayFields DEF None
<1>3. s = [relay EXCEPT !.closed = c, !.documents = d]
  BY <1>1 DEF ClosingTo, Relays
<1> HIDE DEF c, d, s, t
<1>4. /\ s \in Relays /\ SameObjects(relay, s) /\ SameWires(relay, s) /\ SameAsks(relay, s) /\ SameOut(relay, s)
      /\ s.documents = d /\ s.building = relay.building /\ s.closed = c
  BY <1>1, <1>2, <1>3 DEF Relays, SameObjects, SameWires, SameAsks, SameOut
<1>5. ~relay.closed[r]
  BY DEF Close
<1>6. Closing(r, s)
  BY <1>4, <1>5 DEF Closing, c, d
<1>7. s.lives = relay.lives /\ s.db = relay.db /\ s.out = {}
  BY <1>1, <1>4 DEF SameObjects, SameAsks, SameOut
<1>8. CASE n = None
  <2>1. Become(s) /\ peers' = Leave(s.out)
    BY <1>8 DEF Close, s, ClosingTo
  <2>2. Runs(r, 0, <<>>, s) /\ peers' = peers
    BY <1>4, <1>7, <2>1, RunsIs, NobodyLeaves
  <2>3. ClosesNone(r, s)
    BY <1>6, <1>8, <2>2 DEF ClosesNone
  <2> QED BY <2>3 DEF s
<1>9. CASE n # None
  <2>1. Become(t) /\ peers' = Leave(t.out)
    BY <1>9 DEF Close, s, ClosingTo, t, ClosesTo
  <2>2. n \in DOMAIN relay.lives /\ relay.lives[n].replica = r /\ ~relay.lives[n].dropping
    BY <1>1, <1>9 DEF MapsInd, MapInd, Of
  <2>3. n \in DOMAIN s.lives /\ n \in Nat /\ relay.lives[n] \in Lives
    BY <1>1, <1>7, <2>2, RelayFields
  <2>4. relay.lives[n].doc \in Documents
    BY <2>3, LiveFields
  <2>5. t = Flush(s, n, "close")
    BY DEF t, ClosesTo, s
  <2>6. CASE relay.lives[n].pending
    <3> DEFINE st == SaveSession(n, relay.lives[n].doc, "close")
    <3>1. FlushedTo(s, n, "close", t)
      BY <1>4, <1>7, <2>3, <2>5, <2>6, FlushMakes
    <3>2. t \in Relays /\ t.db = [relay.db EXCEPT ![r] = Append(relay.db[r], st)] /\ t.out = {}
      BY <1>7, <2>2, <3>1 DEF FlushedTo, SameOut
    <3>3. st \in Statements
      BY <2>3, <2>4, SaveIsStatement
    <3> HIDE DEF st
    <3>4. Runs(r, 0, <<st>>, t) /\ peers' = peers
      BY <2>1, <3>2, <3>3, RunsIs, NobodyLeaves
    <3>5. ClosesSaving(r, n, s, t)
      BY <1>6, <1>9, <2>6, <3>1, <3>4 DEF ClosesSaving, st
    <3> QED BY <3>5 DEF t, s
  <2>7. CASE ~relay.lives[n].pending
    <3>1. t = Flushed(s, n, "close")
      BY <1>4, <1>7, <2>3, <2>5, <2>7, FlushMakes
    <3>2. t = Drop(s, n, TRUE)
      BY <1>4, <2>3, <3>1, FlushedMakes
    <3>9. s.lives[n].replica = r /\ ~s.lives[n].dropping /\ s \in Relays
      BY <1>4, <1>7, <2>2
    <3>3. Dropped(s, r, {n}, t)
      BY <2>3, <3>2, <3>9, DropMakes
    <3>4. DroppedBut(s, r, {n}, t) /\ t.db = relay.db
      BY <1>7, <3>3 DEF Dropped, SameAsks
    <3>5. t \in Relays /\ t.out = s.out \cup UNION {s.lives[m].peers : m \in {n}}
      BY <3>4 DEF DroppedBut
    <3>6. t.out = relay.lives[n].peers
      BY <1>7, <3>5
    <3>7. Runs(r, 0, <<>>, t)
      BY <2>1, <3>4, <3>5, RunsIs
    <3>8. ClosesSaved(r, n, s, t)
      BY <1>6, <1>9, <2>1, <2>7, <3>4, <3>6, <3>7 DEF ClosesSaved
    <3> QED BY <3>8 DEF t, s
  <2> QED BY <2>3, <2>6, <2>7, LiveFields
<1> QED BY <1>8, <1>9

LEMMA GoneSteps ==
    ASSUME TypeInd, NEW r \in running, Gone(r), db' = [db EXCEPT ![r] = <<>>]
    PROVE  Dies(r)
<1> DEFINE f == [n \in DOMAIN relay.lives |->
                   IF relay.lives[n].replica = r THEN GoneLive(relay.lives[n]) ELSE relay.lives[n]]
           a == [relay.closed EXCEPT ![r] = FALSE]
           b == [relay.building EXCEPT ![r] = None]
           d == [relay.documents EXCEPT ![r] = None]
           i == [relay.inbox EXCEPT ![r] = <<>>]
           c == [relay.channel EXCEPT ![r] = "closed"]
<1>1. relay \in Relays /\ r \in Replicas
  BY RelayIs
<1>2. \A n \in DOMAIN relay.lives : relay.lives[n] \in Lives
  BY <1>1, RelayFields
<1>3. \A n \in DOMAIN relay.lives : GoneLive(relay.lives[n]) \in Lives
  BY <1>2 DEF GoneLive, Lives
<1>4. f \in Seq(Lives)
  BY <1>1, <1>2, <1>3, ObjectsAreTyped
<1>5. a \in [Replicas -> BOOLEAN] /\ b \in [Replicas -> Nat] /\ d \in [Replicas -> Nat]
  BY <1>1, RelayFields DEF None
<1>6. <<>> \in Seq(Messages)
  OBVIOUS
<1>7. i \in [Replicas -> Seq(Messages)] /\ c \in [Replicas -> {"closed", "opening", "open"}]
  BY <1>1, <1>6, RelayFields
<1>8. relay' = [relay EXCEPT !.closed = a, !.building = b, !.documents = d, !.inbox = i, !.channel = c, !.lives = f]
  BY <1>1 DEF Gone, Relays, GoneLive
<1> HIDE DEF f, a, b, d, i, c
<1>9. /\ relay' \in Relays /\ relay'.closed = a /\ relay'.building = b /\ relay'.documents = d
      /\ relay'.inbox = i /\ relay'.channel = c /\ relay'.lives = f /\ relay'.out = relay.out /\ relay'.db = relay.db
  BY <1>1, <1>4, <1>5, <1>7, <1>8 DEF Relays
<1>10. peers' = Leave({p \in Peers : peers[p].replica = r})
  BY DEF Gone
<1> QED BY <1>1, <1>9, <1>10 DEF Dies, SameOut, SameAsks, f, a, b, d, i, c

LEMMA CloseEndsSteps ==
    ASSUME TypeInd, NEW r \in running, CloseEnds(r)
    PROVE  Dies(r)
<1>1. Gone(r) /\ db' = db /\ db[r] = <<>>
  BY DEF CloseEnds
<1>2. [db EXCEPT ![r] = <<>>] = db
  BY <1>1, RelayIs DEF Queues
<1> QED BY <1>1, <1>2, GoneSteps

LEMMA CrashSteps ==
    ASSUME TypeInd, NEW r \in running, Crash(r)
    PROVE  Dies(r)
BY GoneSteps DEF Crash

LEMMA SubscribeFailsSteps ==
    ASSUME TypeInd, MapsInd, NEW n \in DOMAIN relay.lives, SubscribeFails(n)
    PROVE  GoesWithout(n, relay.lives[n].replica, relay')
<1> DEFINE r == relay.lives[n].replica
           c == [relay.channel EXCEPT ![r] = "closed"]
           f == [m \in DOMAIN relay.lives |->
                   IF m \in Listeners(relay, r) THEN [relay.lives[m] EXCEPT !.bus = "none"] ELSE relay.lives[m]]
<1>1. relay.lives[n].bus = "opening" /\ peers' = peers /\ db' = db
  BY DEF SubscribeFails, storeVars
<1>2. relay \in Relays /\ relay.out = {}
  BY RelayIs DEF TypeInd
<1>3. r \in Replicas /\ r \in running
  <2>1. LiveInd(n)
    BY DEF MapsInd
  <2> QED BY <1>2, <2>1, RelayFields, LiveFields DEF LiveInd
<1>4. \A m \in DOMAIN relay.lives : relay.lives[m] \in Lives
  BY <1>2, RelayFields
<1>5. \A m \in DOMAIN relay.lives : [relay.lives[m] EXCEPT !.bus = "none"] \in Lives
  BY <1>4 DEF Lives
<1>6. f \in Seq(Lives)
  BY <1>2, <1>4, <1>5, ObjectsAreTyped
<1>7. c \in [Replicas -> {"closed", "opening", "open"}]
  BY <1>2, RelayFields
<1>8. relay' = [relay EXCEPT !.channel = c, !.lives = f]
  BY <1>2 DEF SubscribeFails, Relays
<1> HIDE DEF c, f
<1>9. /\ relay' \in Relays /\ SameMaps(relay, relay') /\ relay'.inbox = relay.inbox /\ relay'.channel = c
      /\ relay'.lives = f /\ relay'.out = relay.out /\ relay'.db = relay.db
  BY <1>2, <1>6, <1>7, <1>8 DEF Relays, SameMaps
<1>10. Runs(r, 0, <<>>, relay')
  BY <1>1, <1>2, <1>3, <1>9, SilentRuns
<1> QED BY <1>1, <1>9, <1>10 DEF GoesWithout, c, f

------------------------------------------------------------------------------
(* What the steps change, seen from the process. *)

SameRoom ==
    /\ DOMAIN relay'.lives = DOMAIN relay.lives
    /\ \A m \in DOMAIN relay.lives : relay'.lives[m].replica = relay.lives[m].replica

\* The maps of r are these, its own documents alone changed, and no other map did.
View(r, d, b, c) ==
    /\ r \in Replicas /\ r \in running /\ relay' \in Relays
    /\ relay'.documents[r] = d /\ relay'.building[r] = b /\ relay'.closed[r] = c
    /\ \A q \in Replicas : q # r =>
          /\ relay'.documents[q] = relay.documents[q] /\ relay'.building[q] = relay.building[q]
          /\ relay'.closed[q] = relay.closed[q] /\ relay'.channel[q] = relay.channel[q]
          /\ db'[q] = db[q]

\* One document, or some, became others.
OneLive(n, v) ==
    /\ SameRoom /\ n \in DOMAIN relay.lives /\ v \in Lives
    /\ v.replica = relay.lives[n].replica /\ relay'.lives[n] = v
    /\ \A m \in DOMAIN relay.lives : m # n => relay'.lives[m] = relay.lives[m]

JoinLive(l, who) == [l EXCEPT !.peers = @ \cup who]

LEMMA LeftFields ==
    ASSUME NEW l \in Lives, NEW p
    PROVE  LET v == LeftLive(l, p)
           IN  /\ v \in Lives /\ v.replica = l.replica /\ v.doc = l.doc /\ v.peers = l.peers \ {p}
               /\ v.pending = l.pending /\ v.timer = l.timer /\ v.bus = l.bus /\ v.dropping = l.dropping
BY DEF LeftLive, Lives

LEMMA JoinFields ==
    ASSUME NEW l \in Lives, NEW who \in SUBSET Peers
    PROVE  LET v == JoinLive(l, who)
           IN  /\ v \in Lives /\ v.replica = l.replica /\ v.doc = l.doc /\ v.peers = l.peers \cup who
               /\ v.pending = l.pending /\ v.timer = l.timer /\ v.bus = l.bus /\ v.dropping = l.dropping
BY DEF JoinLive, Lives

LEMMA FreeFields ==
    ASSUME NEW l \in Lives
    PROVE  LET v == FreeLive(l)
           IN  /\ v \in Lives /\ v.replica = l.replica /\ v.doc = l.doc /\ v.peers = l.peers
               /\ v.pending = l.pending /\ v.timer = l.timer /\ v.dropping = l.dropping
               /\ v.bus = IF l.bus = "open" THEN "none" ELSE l.bus
BY DEF FreeLive, Lives

LEMMA RestFields ==
    ASSUME NEW l \in Lives
    PROVE  LET v == RestLive(l)
           IN  /\ v \in Lives /\ v.replica = l.replica /\ v.doc = l.doc /\ v.peers = l.peers
               /\ v.pending = FALSE /\ v.timer = FALSE /\ v.bus = l.bus /\ v.dropping = l.dropping
BY DEF RestLive, Lives

LEMMA DropFields ==
    ASSUME NEW l \in Lives
    PROVE  LET v == DropLive(l)
           IN  /\ v \in Lives /\ v.replica = l.replica /\ v.doc = l.doc /\ v.peers = {}
               /\ v.pending = l.pending /\ v.timer = FALSE /\ v.dropping = TRUE
               /\ v.bus = IF l.bus = "open" THEN "none" ELSE l.bus
BY DEF DropLive, Lives

LEMMA GoneFields ==
    ASSUME NEW l \in Lives
    PROVE  LET v == GoneLive(l)
           IN  /\ v \in Lives /\ v.replica = l.replica /\ v.doc = l.doc /\ v.peers = {}
               /\ v.pending = l.pending /\ v.timer = FALSE /\ v.dropping = TRUE /\ v.bus = "none"
BY DEF GoneLive, Lives

LEMMA DirtyFields ==
    ASSUME NEW l \in Lives, NEW doc \in Documents
    PROVE  LET v == DirtyLive(l, doc)
           IN  /\ v \in Lives /\ v.replica = l.replica /\ v.doc = doc /\ v.peers = l.peers
               /\ v.pending = TRUE /\ v.timer = TRUE /\ v.bus = l.bus /\ v.dropping = l.dropping
BY DEF DirtyLive, Lives

LEMMA OpenFields ==
    ASSUME NEW l \in Lives
    PROVE  LET v == OpenLive(l)
           IN  /\ v \in Lives /\ v.replica = l.replica /\ v.doc = l.doc /\ v.peers = l.peers
               /\ v.pending = l.pending /\ v.timer = l.timer /\ v.bus = "open" /\ v.dropping = l.dropping
BY DEF OpenLive, Lives

LEMMA OneLiveIs ==
    ASSUME TypeInd, NEW n \in DOMAIN relay.lives, NEW v \in Lives,
           relay'.lives = [relay.lives EXCEPT ![n] = v], v.replica = relay.lives[n].replica
    PROVE  OneLive(n, v)
<1>1. relay.lives \in Seq(Lives)
  BY RelayIs, RelayFields
<1> QED BY <1>1 DEF OneLive, SameRoom

LEMMA ViewElsewhere ==
    ASSUME NEW r, NEW d, NEW b, NEW c, View(r, d, b, c), SameRoom,
           \A m \in DOMAIN relay.lives : relay.lives[m].replica # r => relay'.lives[m] = relay.lives[m],
           \A p \in Peers : peers'[p] # peers[p] =>
               /\ peers[p].at = "nowhere" \/ peers[p].replica = r
               /\ peers'[p].at = "nowhere" \/ peers'[p].replica = r
    PROVE  Elsewhere(r)
BY DEF Elsewhere, View, SameRoom

LEMMA RunsQueue ==
    ASSUME TypeInd, NEW r, NEW c, NEW asked, NEW t, Runs(r, c, asked, t)
    PROVE  /\ db' \in Queues /\ TurnedTo(db[r], c, asked, db'[r])
           /\ \A q \in Replicas : q # r => db'[q] = db[q]
           /\ r \in Replicas /\ r \in running /\ relay' \in Relays
<1>1. db \in Queues
  BY RelayIs
<1> QED BY <1>1, QueuedIs DEF Runs, Took

LEMMA RoomKept ==
    ASSUME TypeInd, MapsInd, relay' \in Relays, SameRoom, Seeders' \subseteq Seeders
    PROVE  RoomInd'
<1>1. IsFiniteSet(Seeders)
  BY FS_Subset, DeploymentsAssumption DEF Seeders
<1>2. Cardinality(Seeders') <= Cardinality(Seeders) /\ IsFiniteSet(Seeders')
  BY <1>1, FS_Subset
<1>3. Cardinality(Seeders') \in Nat /\ Cardinality(Seeders) \in Nat
  BY <1>1, <1>2, FS_CardinalityType
<1>4. Len(relay'.lives) = Len(relay.lives) /\ Len(relay.lives) \in Nat
  <2>1. DOMAIN relay.lives = 1 .. Len(relay.lives) /\ DOMAIN relay'.lives = 1 .. Len(relay'.lives)
        /\ Len(relay.lives) \in Nat /\ Len(relay'.lives) \in Nat
    BY RelayIs, RelayFields
  <2> QED BY <2>1 DEF SameRoom
<1>5. Len(relay.lives) + Cardinality(Seeders) <= MaxBuilds
  BY DEF MapsInd, RoomInd
<1> QED BY <1>2, <1>3, <1>4, <1>5, DeploymentsAssumption DEF RoomInd

LEMMA PlacesKept ==
    ASSUME MapsInd, NEW r \in Replicas, Elsewhere(r), running' = running,
           \A p \in Peers : peers'[p] # peers[p] => PlaceInd(p)'
    PROVE  \A p \in Peers : PlaceInd(p)'
<1> SUFFICES ASSUME NEW p \in Peers, peers'[p] = peers[p] PROVE PlaceInd(p)'
  OBVIOUS
<1>1. PlaceInd(p)
  BY DEF MapsInd
<1>2. Of(peers[p].replica) \subseteq Of(peers[p].replica)'
  BY DEF Of, Elsewhere
<1> QED BY <1>1, <1>2 DEF PlaceInd

\* Who is in document m.
InIt(p, m) == peers[p].at = "in" /\ peers[p].live = m
SameGuests(m) == \A p \in Peers : InIt(p, m) <=> InIt(p, m)'
AsItWas(m) ==
    /\ relay'.lives[m].peers = relay.lives[m].peers /\ relay'.lives[m].pending = relay.lives[m].pending
    /\ relay'.lives[m].timer = relay.lives[m].timer /\ relay'.lives[m].dropping = relay.lives[m].dropping

LEMMA LiveKept ==
    ASSUME MapsInd, running' = running, SameRoom, NEW m \in DOMAIN relay.lives, AsItWas(m), SameGuests(m)
    PROVE  LiveInd(m)'
<1>1. LiveInd(m)
  BY DEF MapsInd
<1>2. relay'.lives[m].replica = relay.lives[m].replica
  BY DEF SameRoom
<1> QED BY <1>1, <1>2 DEF LiveInd, AsItWas, SameGuests, InIt

\* The maps hold after a step that makes no document.
LEMMA MapsKept ==
    ASSUME TypeInd, MapsInd, running' = running,
           NEW r, NEW d, NEW b, NEW c, View(r, d, b, c), SameRoom,
           \A m \in DOMAIN relay.lives : relay.lives[m].replica # r => relay'.lives[m] = relay.lives[m],
           \A p \in Peers : peers'[p] # peers[p] =>
               /\ peers[p].at = "nowhere" \/ peers[p].replica = r
               /\ peers'[p].at = "nowhere" \/ peers'[p].replica = r
               /\ PlaceInd(p)',
           \A m \in Of(r) : LiveInd(m)', MapInd(r)',
           b = Seeding => relay.building[r] = Seeding
    PROVE  MapsInd' /\ Elsewhere(r)
<1>1. Elsewhere(r)
  BY ViewElsewhere
<1>2. r \in Replicas /\ relay' \in Relays
  BY DEF View
<1>3. \A p \in Peers : PlaceInd(p)'
  BY <1>1, <1>2, PlacesKept
<1>4. Of(r)' = Of(r)
  BY DEF Of, SameRoom
<1>5. Seeders' \subseteq Seeders
  BY DEF Seeders, View
<1>6. RoomInd'
  BY <1>2, <1>5, RoomKept
<1> QED BY <1>1, <1>2, <1>3, <1>4, <1>6, MapsElsewhere

------------------------------------------------------------------------------
(* The maps after each step. *)

\* A step that keeps the maps of r, as far as the processes see it.
LEMMA MapsSame ==
    ASSUME TypeInd, NEW r, NEW c, NEW asked, NEW t, Runs(r, c, asked, t), SameMaps(relay, t),
           \A q \in Replicas : q # r => t.channel[q] = relay.channel[q]
    PROVE  View(r, relay.documents[r], relay.building[r], relay.closed[r])
<1>1. /\ db' \in Queues /\ \A q \in Replicas : q # r => db'[q] = db[q]
      /\ r \in Replicas /\ r \in running /\ relay' \in Relays
  BY RunsQueue
<1> QED BY <1>1 DEF View, Runs, Took, SameMaps

LEMMA SameOthers ==
    ASSUME TypeInd, NEW r \in Replicas, NEW x, NEW t, t.channel = [relay.channel EXCEPT ![r] = x]
    PROVE  \A q \in Replicas : q # r => t.channel[q] = relay.channel[q]
BY RelayIs, RelayFields

LEMMA MapOf ==
    ASSUME TypeInd, MapsInd, NEW r \in Replicas, relay.documents[r] # None
    PROVE  LET n == relay.documents[r]
           IN  /\ n \in Of(r) /\ n \in DOMAIN relay.lives /\ n \in Nat /\ relay.lives[n].replica = r
               /\ relay.lives[n] \in Lives /\ ~relay.lives[n].dropping
               /\ relay.building[r] # Seeding /\ ~relay.closed[r]
<1>1. MapInd(r)
  BY DEF MapsInd
<1> QED BY <1>1, RelayIs, RelayFields DEF MapInd, Of

LEMMA AttachIs ==
    ASSUME TypeInd, MapsInd, NEW p, NEW r, NEW n, NEW t, Attaches(p, r, n, t)
    PROVE  /\ View(r, n, relay.building[r], FALSE) /\ n \in Of(r)
           /\ n = relay.documents[r] /\ n # None /\ ~relay.closed[r]
           /\ OneLive(n, JoinLive(relay.lives[n], {p})) /\ p \in Peers /\ peers[p].at = "nowhere"
           /\ peers' = [peers EXCEPT ![p] = [at |-> "in", replica |-> r, live |-> n]]
<1>1. Runs(r, 0, <<>>, t) /\ Rewritten(relay, n, JoinLive(relay.lives[n], {p}), t)
  BY DEF Attaches, JoinLive
<1>2. r \in Replicas /\ n # None /\ n = relay.documents[r] /\ ~relay.closed[r] /\ p \in Peers
  BY DEF Attaches, Runs
<1>3. n \in Of(r) /\ n \in DOMAIN relay.lives /\ relay.lives[n] \in Lives
  BY <1>2, MapOf
<1>4. View(r, relay.documents[r], relay.building[r], relay.closed[r])
  BY <1>1, MapsSame DEF Rewritten, SameWires
<1>5. OneLive(n, JoinLive(relay.lives[n], {p}))
  <2>1. relay'.lives = [relay.lives EXCEPT ![n] = JoinLive(relay.lives[n], {p})]
    BY <1>1 DEF Runs, Took, Rewritten
  <2>2. JoinLive(relay.lives[n], {p}) \in Lives /\ JoinLive(relay.lives[n], {p}).replica = relay.lives[n].replica
    BY <1>2, <1>3, JoinFields
  <2> QED BY <1>3, <2>1, <2>2, OneLiveIs
<1>6. relay.closed[r] = FALSE
  BY <1>2, RelayIs, RelayFields
<1> QED BY <1>2, <1>3, <1>4, <1>5, <1>6 DEF Attaches, Enters

LEMMA AttachMaps ==
    ASSUME TypeInd, MapsInd, running' = running, NEW p, NEW r, NEW n, NEW t, Attaches(p, r, n, t)
    PROVE  MapsInd' /\ Elsewhere(r)
<1> DEFINE l == relay.lives[n]
           v == JoinLive(l, {p})
<1>1. /\ View(r, n, relay.building[r], FALSE) /\ n \in Of(r)
      /\ n = relay.documents[r] /\ n # None
      /\ OneLive(n, v) /\ p \in Peers /\ peers[p].at = "nowhere"
      /\ peers' = [peers EXCEPT ![p] = [at |-> "in", replica |-> r, live |-> n]]
  BY AttachIs
<1>2. r \in Replicas /\ r \in running
  BY <1>1 DEF View
<1>3. n \in DOMAIN relay.lives /\ l.replica = r /\ l \in Lives /\ ~l.dropping
  BY <1>1, <1>2, MapOf
<1>4. /\ v.replica = l.replica /\ v.peers = l.peers \cup {p}
      /\ v.pending = l.pending /\ v.timer = l.timer /\ v.dropping = l.dropping
  BY <1>1, <1>3, JoinFields
<1>5. SameRoom /\ relay'.lives[n] = v /\ \A m \in DOMAIN relay.lives : m # n => relay'.lives[m] = relay.lives[m]
  BY <1>1 DEF OneLive
<1>6. peers \in [Peers -> Places]
  BY RelayIs
<1>7. peers'[p] = [at |-> "in", replica |-> r, live |-> n] /\ \A q \in Peers : q # p => peers'[q] = peers[q]
  BY <1>1, <1>6
<1>8. Of(r)' = Of(r)
  BY <1>5 DEF Of, SameRoom
<1>9. \A q \in Peers : peers'[q] # peers[q] =>
               /\ peers[q].at = "nowhere" \/ peers[q].replica = r
               /\ peers'[q].at = "nowhere" \/ peers'[q].replica = r
               /\ PlaceInd(q)'
  <2>1. PlaceInd(p)'
    BY <1>1, <1>2, <1>7, <1>8 DEF PlaceInd
  <2> QED BY <1>1, <1>7, <2>1
<1>10. LiveInd(n)'
  <2>1. LiveInd(n)
    BY <1>3 DEF MapsInd
  <2>2. \A q \in Peers : q \in v.peers <=> peers'[q].at = "in" /\ peers'[q].live = n
    BY <1>4, <1>7, <2>1 DEF LiveInd
  <2> QED BY <1>2, <1>3, <1>4, <1>5, <2>1, <2>2 DEF LiveInd
<1>11. ASSUME NEW m \in Of(r), m # n PROVE LiveInd(m)'
  <2>1. m \in DOMAIN relay.lives
    BY DEF Of
  <2>2. AsItWas(m)
    BY <1>5, <1>11, <2>1 DEF AsItWas
  <2>3. SameGuests(m)
    BY <1>1, <1>7, <1>11 DEF SameGuests, InIt
  <2> QED BY <1>5, <2>1, <2>2, <2>3, LiveKept
<1>12. MapInd(r)'
  <2>1. MapInd(r)
    BY <1>2 DEF MapsInd
  <2> QED BY <1>1, <1>2, <1>3, <1>4, <1>5, <1>8, <2>1 DEF MapInd, View
<1>13. \A m \in DOMAIN relay.lives : relay.lives[m].replica # r => relay'.lives[m] = relay.lives[m]
  BY <1>3, <1>5
<1>14. \A m \in Of(r) : LiveInd(m)'
  BY <1>10, <1>11
<1> HIDE DEF v
<1> QED BY <1>1, <1>5, <1>9, <1>12, <1>13, <1>14, MapsKept

------------------------------------------------------------------------------
(* Steps that change no document's peers, timer or standing. *)

\* Such a step, with the peers it moves.
Idles(r, d, b, c) ==
    /\ View(r, d, b, c) /\ SameRoom /\ \A m \in DOMAIN relay.lives : AsItWas(m)
    /\ \A m \in DOMAIN relay.lives : relay.lives[m].replica # r => relay'.lives[m] = relay.lives[m]
    /\ \A p \in Peers : peers'[p] # peers[p] =>
          /\ peers[p].at = "nowhere" \/ (peers[p].replica = r /\ peers[p].at = "waiting")
          /\ peers'[p].at \in {"nowhere", "waiting"} /\ (peers'[p].at = "waiting" => peers'[p].replica = r)

LEMMA IdleLives ==
    ASSUME TypeInd, MapsInd, running' = running, NEW r, NEW d, NEW b, NEW c, Idles(r, d, b, c)
    PROVE  /\ \A p \in Peers : peers'[p] # peers[p] =>
               /\ peers[p].at = "nowhere" \/ peers[p].replica = r
               /\ peers'[p].at = "nowhere" \/ peers'[p].replica = r
               /\ PlaceInd(p)'
           /\ \A m \in Of(r) : LiveInd(m)'
<1>1. \A p \in Peers : peers'[p] # peers[p] =>
               /\ peers[p].at = "nowhere" \/ peers[p].replica = r
               /\ peers'[p].at = "nowhere" \/ peers'[p].replica = r
               /\ PlaceInd(p)'
  BY DEF Idles, PlaceInd, View
<1>2. ASSUME NEW m \in Of(r) PROVE LiveInd(m)'
  <2>1. m \in DOMAIN relay.lives
    BY DEF Of
  <2>2. AsItWas(m) /\ SameRoom
    BY <2>1 DEF Idles
  <2>3. SameGuests(m)
    BY DEF Idles, SameGuests, InIt
  <2> QED BY <2>1, <2>2, <2>3, LiveKept
<1> QED BY <1>1, <1>2

LEMMA IdleMaps ==
    ASSUME TypeInd, MapsInd, running' = running, NEW r, NEW d, NEW b, NEW c, Idles(r, d, b, c),
           d \in {None, relay.documents[r]}, b \in {None, relay.building[r]}, c \in BOOLEAN, c => d = None
    PROVE  MapsInd' /\ Elsewhere(r)
<1>1. /\ \A p \in Peers : peers'[p] # peers[p] =>
               /\ peers[p].at = "nowhere" \/ peers[p].replica = r
               /\ peers'[p].at = "nowhere" \/ peers'[p].replica = r
               /\ PlaceInd(p)'
      /\ \A m \in Of(r) : LiveInd(m)'
  BY IdleLives
<1>2. View(r, d, b, c) /\ SameRoom /\ r \in Replicas /\ r \in running
  BY DEF Idles, View
<1>3. \A m \in DOMAIN relay.lives : relay.lives[m].replica # r => relay'.lives[m] = relay.lives[m]
  BY DEF Idles
<1>4. Of(r)' = Of(r) /\ Of(r) \subseteq DOMAIN relay.lives
  BY <1>2 DEF Of, SameRoom
<1>5. MapInd(r)'
  <2>1. MapInd(r)
    BY <1>2 DEF MapsInd
  <2>2. relay'.documents[r] = d /\ relay'.building[r] = b /\ relay'.closed[r] = c
    BY <1>2 DEF View
  <2>3. \A m \in Of(r) : relay'.lives[m].dropping = relay.lives[m].dropping
    BY <1>4 DEF Idles, AsItWas
  <2>4. None # Seeding
    BY DeploymentsAssumption DEF None, Seeding
  <2> QED BY <1>2, <1>4, <2>1, <2>2, <2>3, <2>4 DEF MapInd
<1>6. b = Seeding => relay.building[r] = Seeding
  BY DeploymentsAssumption DEF None, Seeding
<1> QED BY <1>1, <1>2, <1>3, <1>5, <1>6, MapsKept

\* Where the relay and the peers stay as they are, or some that wait give up.
Quiet(r, d, b, k, t) ==
    /\ SameObjects(relay, t) /\ t.channel = relay.channel
    /\ t.documents[r] = d /\ t.building[r] = b /\ t.closed[r] = k
    /\ \A q \in Replicas : q # r =>
          /\ t.documents[q] = relay.documents[q] /\ t.building[q] = relay.building[q]
          /\ t.closed[q] = relay.closed[q]
    /\ peers' \in {peers, Leave(Waiting(r))}

LEMMA IdleIs ==
    ASSUME TypeInd, NEW r, NEW c, NEW asked, NEW t, Runs(r, c, asked, t),
           NEW d, NEW b, NEW k, Quiet(r, d, b, k, t)
    PROVE  Idles(r, d, b, k)
<1>1. /\ db' \in Queues /\ \A q \in Replicas : q # r => db'[q] = db[q]
      /\ r \in Replicas /\ r \in running /\ relay' \in Relays
  BY RunsQueue
<1>2. /\ relay'.lives = relay.lives /\ relay'.documents = t.documents /\ relay'.building = t.building
      /\ relay'.closed = t.closed /\ relay'.channel = relay.channel
  BY DEF Runs, Took, SameObjects, Quiet
<1>3. View(r, d, b, k)
  BY <1>1, <1>2 DEF View, Quiet
<1>4. SameRoom /\ \A m \in DOMAIN relay.lives : AsItWas(m) /\ relay'.lives[m] = relay.lives[m]
  BY <1>2 DEF SameRoom, AsItWas
<1>5. \A p \in Peers : peers'[p] # peers[p] =>
          /\ peers[p].at = "nowhere" \/ (peers[p].replica = r /\ peers[p].at = "waiting")
          /\ peers'[p].at \in {"nowhere", "waiting"} /\ (peers'[p].at = "waiting" => peers'[p].replica = r)
  <2>1. peers \in [Peers -> Places]
    BY RelayIs
  <2>2. CASE peers' = Leave(Waiting(r))
    <3>1. \A p \in Peers : p \in Waiting(r) => peers'[p].at = "nowhere"
      BY <2>1, <2>2 DEF Leave, Places
    <3>2. \A p \in Peers : p \notin Waiting(r) => peers'[p] = peers[p]
      BY <2>2 DEF Leave
    <3> QED BY <3>1, <3>2 DEF Waiting
  <2> QED BY <2>2 DEF Quiet
<1> QED BY <1>3, <1>4, <1>5 DEF Idles

LEMMA AwaitIdles ==
    ASSUME TypeInd, NEW p, NEW r, Awaits(p, r)
    PROVE  Idles(r, relay.documents[r], relay.building[r], FALSE) /\ relay.closed[r] = FALSE
<1>1. /\ p \in Peers /\ peers[p].at = "nowhere" /\ ~relay.closed[r]
      /\ Runs(r, 0, <<>>, relay) /\ peers' = [peers EXCEPT ![p] = [at |-> "waiting", replica |-> r, live |-> None]]
  BY DEF Awaits, WaitsAt
<1>2. relay' \in Relays /\ relay'.lives = relay.lives /\ r \in Replicas
  BY <1>1 DEF Runs, Took
<1>3. View(r, relay.documents[r], relay.building[r], relay.closed[r])
  BY <1>1, MapsSame DEF SameMaps
<1>4. relay.closed[r] = FALSE
  BY <1>1, <1>2, RelayIs, RelayFields
<1>5. peers'[p] = [at |-> "waiting", replica |-> r, live |-> None] /\ \A q \in Peers : q # p => peers'[q] = peers[q]
  BY <1>1, RelayIs
<1>6. SameRoom /\ \A m \in DOMAIN relay.lives : AsItWas(m) /\ relay'.lives[m] = relay.lives[m]
  BY <1>2 DEF SameRoom, AsItWas
<1>7. \A q \in Peers : peers'[q] # peers[q] =>
          /\ peers[q].at = "nowhere" \/ (peers[q].replica = r /\ peers[q].at = "waiting")
          /\ peers'[q].at \in {"nowhere", "waiting"} /\ (peers'[q].at = "waiting" => peers'[q].replica = r)
  BY <1>1, <1>5
<1> QED BY <1>3, <1>4, <1>6, <1>7 DEF Idles

\* The relay is as it was.
LEMMA StillIdles ==
    ASSUME TypeInd, NEW r, NEW c, NEW asked, Runs(r, c, asked, relay), peers' = peers
    PROVE  Idles(r, relay.documents[r], relay.building[r], relay.closed[r])
<1>1. Quiet(r, relay.documents[r], relay.building[r], relay.closed[r], relay)
  BY DEF Quiet, SameObjects
<1> QED BY <1>1, IdleIs

LEMMA RefusesIdles ==
    ASSUME TypeInd, NEW r, NEW t, Refuses(r, t)
    PROVE  Idles(r, relay.documents[r], None, relay.closed[r]) /\ relay.closed[r]
<1>1. BuildRefused(relay, r, t) /\ Runs(r, 1, <<>>, t) /\ peers' = Leave(Waiting(r)) /\ r \in Replicas /\ relay.closed[r]
  BY DEF Refuses, Runs
<1>2. t.building[r] = None
  BY <1>1, RelayIs, RelayFields DEF BuildRefused
<1>3. Quiet(r, relay.documents[r], None, relay.closed[r], t)
  BY <1>1, <1>2, RelayIs, RelayFields DEF Quiet, BuildRefused, SameWires
<1> QED BY <1>1, <1>3, IdleIs

LEMMA StopsIdles ==
    ASSUME TypeInd, NEW r, NEW t, Stops(r, t)
    PROVE  Idles(r, relay.documents[r], None, relay.closed[r])
<1>1. Runs(r, 1, <<>>, t) /\ peers' = Leave(Waiting(r)) /\ r \in Replicas
  BY DEF Stops, Runs
<1>2. t.building[r] = None
  BY <1>1, RelayIs, RelayFields DEF Stops
<1>3. Quiet(r, relay.documents[r], None, relay.closed[r], t)
  BY <1>1, <1>2, RelayIs, RelayFields DEF Quiet, Stops, SameWires
<1> QED BY <1>1, <1>3, IdleIs

LEMMA LetsGoIdles ==
    ASSUME TypeInd, NEW r, NEW n, NEW t, LetsGo(r, n, t)
    PROVE  Idles(r, None, relay.building[r], relay.closed[r])
<1>1. Runs(r, 1, <<>>, t) /\ peers' = peers /\ r \in Replicas /\ Forgot(relay, r, t)
  BY DEF LetsGo, Runs
<1>2. t.documents[r] = None
  BY <1>1, RelayIs, RelayFields DEF Forgot
<1>3. Quiet(r, None, relay.building[r], relay.closed[r], t)
  BY <1>1, <1>2, RelayIs, RelayFields DEF Quiet, Forgot, SameWires
<1> QED BY <1>1, <1>3, IdleIs

LEMMA TellsIdles ==
    ASSUME TypeInd, NEW r, NEW circuit, NEW t, Tells(r, circuit, t)
    PROVE  Idles(r, relay.documents[r], relay.building[r], relay.closed[r])
<1>1. Runs(r, 1, <<>>, t) /\ peers' = peers
  BY DEF Tells
<1>3. Quiet(r, relay.documents[r], relay.building[r], relay.closed[r], t)
  BY <1>1, RelayIs, RelayFields DEF Quiet, Tells, Published, SameMaps
<1> QED BY <1>1, <1>3, IdleIs

LEMMA ClosesNoneIdles ==
    ASSUME TypeInd, NEW r, NEW s, ClosesNone(r, s)
    PROVE  Idles(r, None, relay.building[r], TRUE)
<1>1. Runs(r, 0, <<>>, s) /\ peers' = peers /\ r \in Replicas /\ Closing(r, s)
  BY DEF ClosesNone, Runs
<1>2. s.documents[r] = None /\ s.closed[r] = TRUE
  BY <1>1, RelayIs, RelayFields DEF Closing
<1>3. Quiet(r, None, relay.building[r], TRUE, s)
  BY <1>1, <1>2, RelayIs, RelayFields DEF Quiet, Closing, SameWires
<1> QED BY <1>1, <1>3, IdleIs

LEMMA PoppedIdles ==
    ASSUME TypeInd, NEW r, NEW m, NEW s, Ignores(r, m, s)
    PROVE  Idles(r, relay.documents[r], relay.building[r], relay.closed[r])
<1>1. Runs(r, 0, <<>>, s) /\ peers' = peers
  BY DEF Ignores
<1>3. Quiet(r, relay.documents[r], relay.building[r], relay.closed[r], s)
  BY <1>1, RelayIs, RelayFields DEF Quiet, Ignores, Pops, Popped, SameMaps
<1> QED BY <1>1, <1>3, IdleIs

LEMMA AnswersIdles ==
    ASSUME TypeInd, NEW r, NEW m, NEW s, NEW t, Answers(r, m, s, t)
    PROVE  Idles(r, relay.documents[r], relay.building[r], relay.closed[r])
<1>1. Runs(r, 0, <<>>, t) /\ peers' = peers /\ Popped(r, s) /\ Published(s, r, Answer(s, r), t)
  BY DEF Answers, Pops
<1>2. SameObjects(relay, t) /\ SameMaps(relay, t) /\ t.channel = relay.channel
  BY <1>1 DEF Popped, Published, SameObjects, SameMaps
<1>3. Quiet(r, relay.documents[r], relay.building[r], relay.closed[r], t)
  BY <1>1, <1>2, RelayIs, RelayFields DEF Quiet, SameMaps
<1> QED BY <1>1, <1>3, IdleIs

\* Documents of r whose text or subscription alone changed.
Retexts(r, t, given, f) ==
    /\ SameMaps(relay, t) /\ \A q \in Replicas : q # r => t.channel[q] = relay.channel[q]
    /\ given \subseteq Of(r)
    /\ t.lives = [m \in DOMAIN relay.lives |-> IF m \in given THEN f[m] ELSE relay.lives[m]]
    /\ \A m \in given :
          /\ f[m].replica = relay.lives[m].replica /\ f[m].peers = relay.lives[m].peers
          /\ f[m].pending = relay.lives[m].pending /\ f[m].timer = relay.lives[m].timer
          /\ f[m].dropping = relay.lives[m].dropping

LEMMA BusIdles ==
    ASSUME TypeInd, NEW r, NEW t, Runs(r, 0, <<>>, t), peers' = peers,
           NEW given, NEW f, Retexts(r, t, given, f)
    PROVE  Idles(r, relay.documents[r], relay.building[r], relay.closed[r])
<1>1. View(r, relay.documents[r], relay.building[r], relay.closed[r])
  <2>1. SameMaps(relay, t) /\ \A q \in Replicas : q # r => t.channel[q] = relay.channel[q]
    BY DEF Retexts
  <2> QED BY <2>1, MapsSame
<1>2. relay'.lives = [m \in DOMAIN relay.lives |-> IF m \in given THEN f[m] ELSE relay.lives[m]]
  BY DEF Runs, Took, Retexts
<1>3. SameRoom /\ \A m \in DOMAIN relay.lives : AsItWas(m)
  BY <1>2 DEF SameRoom, AsItWas, Retexts
<1>4. \A m \in DOMAIN relay.lives : relay.lives[m].replica # r => relay'.lives[m] = relay.lives[m]
  BY <1>2 DEF Of, Retexts
<1> QED BY <1>1, <1>3, <1>4 DEF Idles

LEMMA OpensIdles ==
    ASSUME TypeInd, NEW n, NEW r, NEW t, Opens(n, r, t)
    PROVE  Idles(r, relay.documents[r], relay.building[r], relay.closed[r])
<1> DEFINE f == [m \in {n} |-> OpenLive(relay.lives[m])]
<1>1. Runs(r, 0, <<>>, t) /\ SameMaps(relay, t) /\ peers' = peers /\ n \in Of(r) /\ r \in Replicas /\ n \in DOMAIN relay.lives
  BY DEF Opens, Of, Runs
<1>2. relay.lives[n] \in Lives /\ relay.lives \in Seq(Lives)
  BY <1>1, RelayIs, RelayFields
<1>3. \A q \in Replicas : q # r => t.channel[q] = relay.channel[q]
  BY <1>1, SameOthers DEF Opens
<1>4. t.lives = [m \in DOMAIN relay.lives |-> IF m \in {n} THEN f[m] ELSE relay.lives[m]]
  BY <1>1, <1>2 DEF Opens
<1>5. \A m \in {n} : /\ f[m].replica = relay.lives[m].replica /\ f[m].peers = relay.lives[m].peers
                            /\ f[m].pending = relay.lives[m].pending /\ f[m].timer = relay.lives[m].timer
                            /\ f[m].dropping = relay.lives[m].dropping
  BY <1>2, OpenFields
<1> HIDE DEF f
<1>7. Retexts(r, t, {n}, f)
  BY <1>1, <1>3, <1>4, <1>5 DEF Retexts
<1> QED BY <1>1, <1>7, BusIdles

LEMMA GoesWithoutIdles ==
    ASSUME TypeInd, NEW n, NEW r, NEW t, GoesWithout(n, r, t)
    PROVE  Idles(r, relay.documents[r], relay.building[r], relay.closed[r])
<1> DEFINE given == Listeners(relay, r)
           f == [m \in given |-> [relay.lives[m] EXCEPT !.bus = "none"]]
<1>1. Runs(r, 0, <<>>, t) /\ SameMaps(relay, t) /\ peers' = peers /\ r \in Replicas
  BY DEF GoesWithout, Runs
<1>2. \A m \in given : m \in DOMAIN relay.lives /\ relay.lives[m] \in Lives /\ m \in Of(r)
  BY RelayIs, RelayFields DEF Listeners, Of
<1>3. \A q \in Replicas : q # r => t.channel[q] = relay.channel[q]
  BY <1>1, SameOthers DEF GoesWithout
<1>4. t.lives = [m \in DOMAIN relay.lives |-> IF m \in given THEN f[m] ELSE relay.lives[m]]
  BY <1>2 DEF GoesWithout
<1>5. \A m \in given : /\ f[m].replica = relay.lives[m].replica /\ f[m].peers = relay.lives[m].peers
                            /\ f[m].pending = relay.lives[m].pending /\ f[m].timer = relay.lives[m].timer
                            /\ f[m].dropping = relay.lives[m].dropping
  BY <1>2 DEF Lives
<1> HIDE DEF f, given
<1>6. given \subseteq Of(r)
  BY <1>2
<1>7. Retexts(r, t, given, f)
  BY <1>1, <1>3, <1>4, <1>5, <1>6 DEF Retexts
<1> QED BY <1>1, <1>7, BusIdles

LEMMA MergesIdles ==
    ASSUME TypeInd, NEW r, NEW m, NEW s, NEW t, Merges(r, m, s, t)
    PROVE  Idles(r, relay.documents[r], relay.building[r], relay.closed[r])
<1> DEFINE given == Listening(r)
           f == [n \in given |-> [relay.lives[n] EXCEPT !.doc = Merge(relay.lives[n].doc, m.doc)]]
<1>1. Runs(r, 0, <<>>, t) /\ peers' = peers /\ r \in Replicas /\ Popped(r, s) /\ MergedTo(s, r, m.doc, t)
  BY DEF Merges, Pops, Runs
<1>2. \A n \in given : n \in DOMAIN relay.lives /\ relay.lives[n] \in Lives /\ n \in Of(r)
  BY RelayIs, RelayFields DEF Listeners, Of, Listening
<1>3. t.channel = relay.channel /\ SameMaps(relay, t) /\ s.lives = relay.lives
  BY <1>1 DEF Popped, MergedTo, SameMaps, SameWires, SameObjects
<1>4. t.lives = [n \in DOMAIN relay.lives |-> IF n \in given THEN f[n] ELSE relay.lives[n]]
  BY <1>1, <1>2, <1>3 DEF MergedTo
<1>5. \A n \in given : /\ f[n].replica = relay.lives[n].replica /\ f[n].peers = relay.lives[n].peers
                            /\ f[n].pending = relay.lives[n].pending /\ f[n].timer = relay.lives[n].timer
                            /\ f[n].dropping = relay.lives[n].dropping
  BY <1>2 DEF Lives
<1> HIDE DEF f, given
<1>6. given \subseteq Of(r)
  BY <1>2
<1>7. Retexts(r, t, given, f)
  BY <1>1, <1>3, <1>4, <1>5, <1>6 DEF Retexts
<1> QED BY <1>1, <1>7, BusIdles

------------------------------------------------------------------------------
(* Steps that change some documents of r. *)

\* Only those who were in one of these, or are now, have moved.
Moves(r, G) ==
    \A p \in Peers : peers'[p] # peers[p] =>
        /\ peers[p].at = "nowhere" \/ peers[p].replica = r
        /\ peers'[p].at = "nowhere" \/ peers'[p].replica = r
        /\ peers[p].at = "in" => peers[p].live \in G
        /\ peers'[p].at = "in" => peers'[p].live \in G
Guests(n) == \A p \in Peers : p \in relay'.lives[n].peers <=> InIt(p, n)'

Changes(r, G, d, b, c) ==
    /\ View(r, d, b, c) /\ SameRoom /\ G \subseteq Of(r) /\ Moves(r, G)
    /\ \A m \in DOMAIN relay.lives : m \notin G => AsItWas(m)
    /\ \A m \in DOMAIN relay.lives : relay.lives[m].replica # r => relay'.lives[m] = relay.lives[m]

\* A map that lets go, or keeps what it had.
Fits(r, d, b, c) ==
    /\ d \in {None, relay.documents[r]} /\ (d # None => ~relay'.lives[d].dropping)
    /\ b \in {None, relay.building[r]} /\ c \in BOOLEAN /\ (c => d = None)

LEMMA ChangeMaps ==
    ASSUME TypeInd, MapsInd, running' = running, NEW r, NEW G, NEW d, NEW b, NEW c, Changes(r, G, d, b, c),
           \A m \in G : LiveInd(m)', Fits(r, d, b, c)
    PROVE  MapsInd' /\ Elsewhere(r)
<1>1. View(r, d, b, c) /\ SameRoom /\ r \in Replicas /\ r \in running /\ G \subseteq Of(r) /\ Moves(r, G)
  BY DEF Changes, View
<1>2. Of(r)' = Of(r) /\ Of(r) \subseteq DOMAIN relay.lives
  BY <1>1 DEF Of, SameRoom
<1>3. \A p \in Peers : peers'[p] # peers[p] =>
               /\ peers[p].at = "nowhere" \/ peers[p].replica = r
               /\ peers'[p].at = "nowhere" \/ peers'[p].replica = r
               /\ PlaceInd(p)'
  <2>1. G \subseteq Of(r)'
    BY <1>1, <1>2
  <2> QED BY <1>1, <2>1 DEF Moves, PlaceInd
<1>4. ASSUME NEW m \in Of(r), m \notin G PROVE LiveInd(m)'
  <2>1. m \in DOMAIN relay.lives
    BY <1>2
  <2>2. AsItWas(m)
    BY <1>4, <2>1 DEF Changes
  <2>3. SameGuests(m)
    BY <1>1, <1>4 DEF SameGuests, InIt, Moves
  <2> QED BY <1>1, <2>1, <2>2, <2>3, LiveKept
<1>5. \A m \in Of(r) : LiveInd(m)'
  BY <1>4
<1>6. \A m \in DOMAIN relay.lives : relay.lives[m].replica # r => relay'.lives[m] = relay.lives[m]
  BY DEF Changes
<1>7. MapInd(r)'
  <2>1. MapInd(r)
    BY <1>1 DEF MapsInd
  <2>2. relay'.documents[r] = d /\ relay'.building[r] = b /\ relay'.closed[r] = c
    BY <1>1 DEF View
  <2>4. None # Seeding
    BY DeploymentsAssumption DEF None, Seeding
  <2> QED BY <1>1, <1>2, <2>1, <2>2, <2>4 DEF MapInd, Fits
<1>8. b = Seeding => relay.building[r] = Seeding
  BY DeploymentsAssumption DEF None, Seeding, Fits
<1> QED BY <1>1, <1>3, <1>5, <1>6, <1>7, <1>8, MapsKept

\* One document changes.
LEMMA OneChange ==
    ASSUME NEW r, NEW d, NEW b, NEW c, View(r, d, b, c), NEW n \in Of(r), NEW v, OneLive(n, v), Moves(r, {n})
    PROVE  Changes(r, {n}, d, b, c)
<1>1. relay.lives[n].replica = r
  BY DEF Of
<1> QED BY <1>1 DEF Changes, OneLive, AsItWas

LEMMA StayMoves ==
    ASSUME NEW r, NEW G, peers' = peers
    PROVE  Moves(r, G)
BY DEF Moves

LEMMA GuestsStay ==
    ASSUME MapsInd, NEW n \in DOMAIN relay.lives, peers' = peers, relay'.lives[n].peers = relay.lives[n].peers
    PROVE  Guests(n)
<1>1. LiveInd(n)
  BY DEF MapsInd
<1> QED BY <1>1 DEF LiveInd, Guests, InIt

\* Some who were in one of these documents leave.
LEMMA LeaveIs ==
    ASSUME TypeInd, NEW who, peers' = Leave(who)
    PROVE  /\ \A p \in Peers : p \in who => peers'[p].at = "nowhere"
           /\ \A p \in Peers : p \notin who => peers'[p] = peers[p]
<1>1. peers \in [Peers -> Places]
  BY RelayIs
<1>2. \A p \in Peers : p \in who => peers'[p] = [peers[p] EXCEPT !.at = "nowhere", !.live = None]
  BY DEF Leave
<1>3. \A p \in Peers : [peers[p] EXCEPT !.at = "nowhere", !.live = None].at = "nowhere"
  BY <1>1 DEF Places
<1>4. \A p \in Peers : p \notin who => peers'[p] = peers[p]
  BY DEF Leave
<1> QED BY <1>2, <1>3, <1>4

LEMMA GuestsAre ==
    ASSUME TypeInd, MapsInd, NEW r, NEW n \in Of(r), NEW p \in relay.lives[n].peers
    PROVE  p \in Peers /\ InIt(p, n) /\ peers[p].at = "in" /\ peers[p].live = n /\ peers[p].replica = r
<1>1. n \in DOMAIN relay.lives /\ relay.lives[n].replica = r
  BY DEF Of
<1>2. LiveInd(n) /\ relay.lives[n] \in Lives
  BY <1>1, RelayIs, RelayFields DEF MapsInd
<1>3. p \in Peers
  BY <1>2, LiveFields
<1>4. peers[p].at = "in" /\ peers[p].live = n
  BY <1>2, <1>3 DEF LiveInd
<1>5. n \in Of(peers[p].replica)
  BY <1>3, <1>4 DEF MapsInd, PlaceInd
<1> QED BY <1>1, <1>3, <1>4, <1>5 DEF Of, InIt

LEMMA LeaveMoves ==
    ASSUME TypeInd, MapsInd, NEW r, NEW n \in Of(r), NEW who, peers' = Leave(who), who \subseteq relay.lives[n].peers
    PROVE  Moves(r, {n})
<1>1. /\ \A p \in Peers : p \in who => peers'[p].at = "nowhere"
      /\ \A p \in Peers : p \notin who => peers'[p] = peers[p]
  BY LeaveIs
<1>2. \A p \in who : peers[p].at = "in" /\ peers[p].live = n /\ peers[p].replica = r
  BY GuestsAre
<1> QED BY <1>1, <1>2 DEF Moves

LEMMA GuestsLeave ==
    ASSUME TypeInd, MapsInd, NEW n \in DOMAIN relay.lives, NEW who, peers' = Leave(who),
           relay'.lives[n].peers = relay.lives[n].peers \ who
    PROVE  Guests(n)
<1>1. /\ \A p \in Peers : p \in who => peers'[p].at = "nowhere"
      /\ \A p \in Peers : p \notin who => peers'[p] = peers[p]
  BY LeaveIs
<1>2. LiveInd(n)
  BY DEF MapsInd
<1> QED BY <1>1, <1>2 DEF LiveInd, Guests, InIt

\* A document of r that is well made.
LEMMA LiveMade ==
    ASSUME running' = running, NEW r \in running, NEW n \in Of(r), NEW v, OneLive(n, v), Guests(n),
           ~v.dropping => (v.pending <=> v.timer), v.timer => v.pending,
           v.dropping => v.peers = {} /\ ~v.timer
    PROVE  LiveInd(n)'
<1>1. relay'.lives[n] = v /\ v.replica = r
  BY DEF OneLive, Of
<1> QED BY <1>1 DEF LiveInd, Guests, InIt

LEMMA RunsOne ==
    ASSUME TypeInd, NEW r, NEW c, NEW asked, NEW t, Runs(r, c, asked, t), NEW n \in Of(r), NEW v \in Lives,
           v.replica = relay.lives[n].replica, t.lives = [relay.lives EXCEPT ![n] = v]
    PROVE  OneLive(n, v)
<1>1. n \in DOMAIN relay.lives
  BY DEF Of
<1>2. relay'.lives = [relay.lives EXCEPT ![n] = v]
  BY DEF Runs, Took
<1> QED BY <1>1, <1>2, OneLiveIs

\* The maps that a step makes.
Mapped(r, d, b, k, t) ==
    /\ t.documents[r] = d /\ t.building[r] = b /\ t.closed[r] = k
    /\ \A q \in Replicas : q # r =>
          /\ t.documents[q] = relay.documents[q] /\ t.building[q] = relay.building[q]
          /\ t.closed[q] = relay.closed[q] /\ t.channel[q] = relay.channel[q]

LEMMA RunsView ==
    ASSUME TypeInd, NEW r, NEW c, NEW asked, NEW t, Runs(r, c, asked, t), NEW d, NEW b, NEW k, Mapped(r, d, b, k, t)
    PROVE  View(r, d, b, k) /\ r \in Replicas /\ r \in running
<1>1. /\ db' \in Queues /\ \A q \in Replicas : q # r => db'[q] = db[q]
      /\ r \in Replicas /\ r \in running /\ relay' \in Relays
  BY RunsQueue
<1> QED BY <1>1 DEF View, Runs, Took, Mapped

LEMMA LeavesOthersIs ==
    ASSUME TypeInd, MapsInd, NEW p, NEW r, NEW n, NEW t, LeavesOthers(p, r, n, t)
    PROVE  /\ View(r, relay.documents[r], relay.building[r], relay.closed[r]) /\ n \in Of(r)
           /\ OneLive(n, LeftLive(relay.lives[n], p))
<1>1. Exits(p, r, n) /\ Runs(r, 0, <<>>, t) /\ Rewritten(relay, n, LeftLive(relay.lives[n], p), t)
  BY DEF LeavesOthers
<1>2. n \in Of(r) /\ relay.lives[n] \in Lives
  BY <1>1, PlaceOf DEF Exits
<1>3. View(r, relay.documents[r], relay.building[r], relay.closed[r])
  BY <1>1, MapsSame DEF Rewritten, SameWires
<1>4. OneLive(n, LeftLive(relay.lives[n], p))
  <2>1. LeftLive(relay.lives[n], p) \in Lives /\ LeftLive(relay.lives[n], p).replica = relay.lives[n].replica
    BY <1>2, LeftFields
  <2> QED BY <1>1, <1>2, <2>1, RunsOne DEF Rewritten
<1> QED BY <1>2, <1>3, <1>4

\* The live document that the last one left.
LeftAlone(l, p) == FreeLive(LeftLive(l, p))
LeftAtRest(l, p) == RestLive(FreeLive(LeftLive(l, p)))

LEMMA LeftAloneFields ==
    ASSUME NEW l \in Lives, NEW p
    PROVE  /\ LET v == LeftAlone(l, p)
              IN  /\ v \in Lives /\ v.replica = l.replica /\ v.doc = l.doc /\ v.peers = l.peers \ {p}
                  /\ v.pending = l.pending /\ v.timer = l.timer /\ v.dropping = l.dropping
                  /\ v.bus = IF l.bus = "open" THEN "none" ELSE l.bus
           /\ LET v == LeftAtRest(l, p)
              IN  /\ v \in Lives /\ v.replica = l.replica /\ v.doc = l.doc /\ v.peers = l.peers \ {p}
                  /\ v.pending = FALSE /\ v.timer = FALSE /\ v.dropping = l.dropping
                  /\ v.bus = IF l.bus = "open" THEN "none" ELSE l.bus
<1> DEFINE u == LeftLive(l, p)
           w == FreeLive(u)
<1>1. u \in Lives /\ u.replica = l.replica /\ u.doc = l.doc /\ u.peers = l.peers \ {p}
               /\ u.pending = l.pending /\ u.timer = l.timer /\ u.bus = l.bus /\ u.dropping = l.dropping
  BY LeftFields
<1> HIDE DEF u
<1>2. w \in Lives /\ w.replica = u.replica /\ w.doc = u.doc /\ w.peers = u.peers
               /\ w.pending = u.pending /\ w.timer = u.timer /\ w.dropping = u.dropping
               /\ w.bus = IF u.bus = "open" THEN "none" ELSE u.bus
  BY <1>1, FreeFields
<1> HIDE DEF w
<1>3. LET v == RestLive(w)
           IN  /\ v \in Lives /\ v.replica = w.replica /\ v.doc = w.doc /\ v.peers = w.peers
               /\ v.pending = FALSE /\ v.timer = FALSE /\ v.bus = w.bus /\ v.dropping = w.dropping
  BY <1>2, RestFields
<1>4. LeftAlone(l, p) = w /\ LeftAtRest(l, p) = RestLive(w)
  BY DEF LeftAlone, LeftAtRest, w, u
<1> QED BY <1>1, <1>2, <1>3, <1>4

LEMMA LeavesSavingIs ==
    ASSUME TypeInd, MapsInd, NEW p, NEW r, NEW n, NEW t, LeavesSaving(p, r, n, t)
    PROVE  /\ View(r, relay.documents[r], relay.building[r], relay.closed[r]) /\ n \in Of(r)
           /\ OneLive(n, LeftAtRest(relay.lives[n], p))
<1>1. Exits(p, r, n) /\ Runs(r, 0, <<SaveSession(n, relay.lives[n].doc, "leave")>>, t) /\ LeftSaving(relay, n, p, t)
  BY DEF LeavesSaving
<1>2. n \in Of(r) /\ relay.lives[n] \in Lives /\ relay.lives[n].replica = r /\ r \in Replicas
  BY <1>1, PlaceOf DEF Exits
<1>3. View(r, relay.documents[r], relay.building[r], relay.closed[r])
  <2>1. SameMaps(relay, t) /\ t.channel = [relay.channel EXCEPT ![r] = Shut(relay, r, {n})]
    BY <1>1, <1>2 DEF LeftSaving
  <2> QED BY <1>1, <1>2, <2>1, MapsSame, SameOthers
<1>4. OneLive(n, LeftAtRest(relay.lives[n], p))
  <2>1. LeftAtRest(relay.lives[n], p) \in Lives /\ LeftAtRest(relay.lives[n], p).replica = relay.lives[n].replica
    BY <1>2, LeftAloneFields
  <2>2. t.lives = [relay.lives EXCEPT ![n] = LeftAtRest(relay.lives[n], p)]
    BY <1>1 DEF LeftSaving, LeftAtRest
  <2> QED BY <1>1, <1>2, <2>1, <2>2, RunsOne
<1> QED BY <1>2, <1>3, <1>4

LEMMA LeavesAtOnceIs ==
    ASSUME TypeInd, MapsInd, NEW p, NEW r, NEW n, NEW t, LeavesAtOnce(p, r, n, t)
    PROVE  /\ View(r, None, relay.building[r], relay.closed[r]) /\ n \in Of(r)
           /\ OneLive(n, LeftAlone(relay.lives[n], p))
<1>1. Exits(p, r, n) /\ Runs(r, 0, <<>>, t) /\ LeftAtOnce(relay, n, p, t)
  BY DEF LeavesAtOnce
<1>2. n \in Of(r) /\ relay.lives[n] \in Lives /\ relay.lives[n].replica = r /\ r \in Replicas
  BY <1>1, PlaceOf DEF Exits
<1>3. View(r, None, relay.building[r], relay.closed[r])
  <2>1. /\ t.channel = [relay.channel EXCEPT ![r] = Shut(relay, r, {n})] /\ t.building = relay.building
        /\ t.closed = relay.closed /\ t.documents = [relay.documents EXCEPT ![r] = None]
    BY <1>1, <1>2 DEF LeftAtOnce
  <2>2. Mapped(r, None, relay.building[r], relay.closed[r], t)
    BY <1>2, <2>1, RelayIs, RelayFields DEF Mapped
  <2> QED BY <1>1, <2>2, RunsView
<1>4. OneLive(n, LeftAlone(relay.lives[n], p))
  <2>1. LeftAlone(relay.lives[n], p) \in Lives /\ LeftAlone(relay.lives[n], p).replica = relay.lives[n].replica
    BY <1>2, LeftAloneFields
  <2>2. t.lives = [relay.lives EXCEPT ![n] = LeftAlone(relay.lives[n], p)]
    BY <1>1 DEF LeftAtOnce, LeftAlone
  <2> QED BY <1>1, <1>2, <2>1, <2>2, RunsOne
<1> QED BY <1>2, <1>3, <1>4

\* Leaving keeps the maps.
LEMMA LeavesMaps ==
    ASSUME TypeInd, MapsInd, running' = running, NEW p, NEW r, NEW n, Exits(p, r, n), NEW d,
           View(r, d, relay.building[r], relay.closed[r]), n \in Of(r), d \in {None, relay.documents[r]},
           NEW v, OneLive(n, v), v.peers = relay.lives[n].peers \ {p}, v.dropping = relay.lives[n].dropping,
           (v.pending = relay.lives[n].pending /\ v.timer = relay.lives[n].timer) \/ (~v.pending /\ ~v.timer)
    PROVE  MapsInd' /\ Elsewhere(r)
<1>1. p \in Peers /\ peers[p].at = "in" /\ r = peers[p].replica /\ n = peers[p].live /\ peers' = Leave({p})
  BY DEF Exits
<1>2. /\ r \in Replicas /\ r \in running /\ n \in DOMAIN relay.lives
      /\ p \in relay.lives[n].peers /\ ~relay.lives[n].dropping
  BY <1>1, PlaceOf
<1>3. Moves(r, {n})
  BY <1>1, <1>2, LeaveMoves
<1>4. Changes(r, {n}, d, relay.building[r], relay.closed[r])
  BY <1>3, OneChange
<1>5. relay'.lives[n] = v
  BY DEF OneLive
<1>6. Guests(n)
  BY <1>1, <1>2, <1>5, GuestsLeave
<1>7. LiveInd(n)
  BY <1>2 DEF MapsInd
<1>8. LiveInd(n)'
  BY <1>2, <1>6, <1>7, LiveMade DEF LiveInd
<1>9. Fits(r, d, relay.building[r], relay.closed[r])
  <2>1. MapInd(r)
    BY <1>2 DEF MapsInd
  <2>2. relay.closed[r] \in BOOLEAN
    BY <1>2, RelayIs, RelayFields
  <2>3. d # None => ~relay'.lives[d].dropping
    BY <2>1, <1>2, <1>5 DEF MapInd, OneLive, Of
  <2> QED BY <2>1, <2>2, <2>3 DEF MapInd, Fits
<1> QED BY <1>4, <1>8, <1>9, ChangeMaps

LEMMA LeaveMaps ==
    ASSUME TypeInd, MapsInd, running' = running, NEW p, NEW r, NEW n, NEW t,
           LeavesOthers(p, r, n, t) \/ LeavesSaving(p, r, n, t) \/ LeavesAtOnce(p, r, n, t)
    PROVE  MapsInd' /\ Elsewhere(r)
<1> DEFINE l == relay.lives[n]
<1>1. Exits(p, r, n)
  BY DEF LeavesOthers, LeavesSaving, LeavesAtOnce
<1>2. l \in Lives
  BY <1>1, PlaceOf DEF Exits
<1>3. CASE LeavesOthers(p, r, n, t)
  <2> DEFINE v == LeftLive(l, p)
  <2>1. View(r, relay.documents[r], relay.building[r], relay.closed[r]) /\ n \in Of(r) /\ OneLive(n, v)
    BY <1>3, LeavesOthersIs
  <2>2. v.peers = l.peers \ {p} /\ v.dropping = l.dropping /\ v.pending = l.pending /\ v.timer = l.timer
    BY <1>2, LeftFields
  <2> HIDE DEF v
  <2> QED BY <1>1, <2>1, <2>2, LeavesMaps
<1>4. CASE LeavesSaving(p, r, n, t)
  <2> DEFINE v == LeftAtRest(l, p)
  <2>1. View(r, relay.documents[r], relay.building[r], relay.closed[r]) /\ n \in Of(r) /\ OneLive(n, v)
    BY <1>4, LeavesSavingIs
  <2>2. v.peers = l.peers \ {p} /\ v.dropping = l.dropping /\ ~v.pending /\ ~v.timer
    BY <1>2, LeftAloneFields
  <2> HIDE DEF v
  <2> QED BY <1>1, <2>1, <2>2, LeavesMaps
<1>5. CASE LeavesAtOnce(p, r, n, t)
  <2> DEFINE v == LeftAlone(l, p)
  <2>1. View(r, None, relay.building[r], relay.closed[r]) /\ n \in Of(r) /\ OneLive(n, v)
    BY <1>5, LeavesAtOnceIs
  <2>2. v.peers = l.peers \ {p} /\ v.dropping = l.dropping /\ v.pending = l.pending /\ v.timer = l.timer
    BY <1>2, LeftAloneFields
  <2> HIDE DEF v
  <2> QED BY <1>1, <2>1, <2>2, LeavesMaps
<1> QED BY <1>3, <1>4, <1>5

LEMMA FiresIs ==
    ASSUME TypeInd, MapsInd, NEW n, NEW r, NEW t, Fires(n, r, t)
    PROVE  /\ View(r, relay.documents[r], relay.building[r], relay.closed[r]) /\ n \in Of(r)
           /\ OneLive(n, RestLive(relay.lives[n]))
<1>1. /\ Runs(r, 0, <<SaveSession(n, relay.lives[n].doc, "timer")>>, t) /\ FlushedTo(relay, n, "timer", t)
      /\ n \in Of(r) /\ n \in DOMAIN relay.lives
  BY DEF Fires, Of
<1>2. relay.lives[n] \in Lives
  BY <1>1, RelayIs, RelayFields
<1>3. View(r, relay.documents[r], relay.building[r], relay.closed[r])
  BY <1>1, MapsSame DEF FlushedTo, SameWires
<1>4. OneLive(n, RestLive(relay.lives[n]))
  <2>1. RestLive(relay.lives[n]) \in Lives /\ RestLive(relay.lives[n]).replica = relay.lives[n].replica
    BY <1>2, RestFields
  <2>2. t.lives = [relay.lives EXCEPT ![n] = RestLive(relay.lives[n])]
    BY <1>1 DEF FlushedTo
  <2> QED BY <1>1, <2>1, <2>2, RunsOne
<1> QED BY <1>1, <1>3, <1>4

\* The document that took an edit, or a version.
Edited(l, edit) == DirtyLive(l, With(l.doc, edit))
Settled(l, circuit) == DirtyLive(l, Merge(l.doc, Reverted(l.doc, circuit)))

LEMMA EditedFields ==
    ASSUME NEW l \in Lives, NEW edit \in Edits
    PROVE  LET v == Edited(l, edit)
           IN  /\ v \in Lives /\ v.replica = l.replica /\ v.peers = l.peers
               /\ v.doc.has = l.doc.has \cup {edit} /\ v.doc.gone = l.doc.gone
               /\ v.pending = TRUE /\ v.timer = TRUE /\ v.bus = l.bus /\ v.dropping = l.dropping
<1>1. l.doc \in Documents
  BY LiveFields
<1>2. With(l.doc, edit) \in Documents /\ With(l.doc, edit).has = l.doc.has \cup {edit} /\ With(l.doc, edit).gone = l.doc.gone
  BY <1>1 DEF With, Documents
<1> QED BY <1>2, DirtyFields DEF Edited

LEMMA SettledFields ==
    ASSUME NEW l \in Lives, NEW circuit \in SUBSET Edits
    PROVE  LET v == Settled(l, circuit)
           IN  /\ v \in Lives /\ v.replica = l.replica /\ v.peers = l.peers
               /\ v.doc = Merge(l.doc, Reverted(l.doc, circuit))
               /\ v.pending = TRUE /\ v.timer = TRUE /\ v.bus = l.bus /\ v.dropping = l.dropping
<1>1. l.doc \in Documents
  BY LiveFields
<1> QED BY <1>1, RevertedIsDocument, DirtyFields DEF Settled

LEMMA IntegratesIs ==
    ASSUME TypeInd, MapsInd, NEW p, NEW r, NEW n, NEW edit, NEW t, Integrates(p, r, n, edit, t)
    PROVE  /\ View(r, relay.documents[r], relay.building[r], relay.closed[r]) /\ n \in Of(r)
           /\ OneLive(n, Edited(relay.lives[n], edit)) /\ ~relay.lives[n].dropping
           /\ edit \in Edits /\ p \in relay.lives[n].peers
<1>1. /\ Runs(r, 0, <<>>, t) /\ EditedTo(relay, n, edit, t) /\ edit \in Edits
      /\ p \in Peers /\ peers[p].at = "in" /\ r = peers[p].replica /\ n = peers[p].live
  BY DEF Integrates
<1>2. n \in Of(r) /\ relay.lives[n] \in Lives /\ ~relay.lives[n].dropping /\ p \in relay.lives[n].peers
  BY <1>1, PlaceOf
<1>3. View(r, relay.documents[r], relay.building[r], relay.closed[r])
  BY <1>1, MapsSame DEF EditedTo
<1>4. OneLive(n, Edited(relay.lives[n], edit))
  <2>1. Edited(relay.lives[n], edit) \in Lives /\ Edited(relay.lives[n], edit).replica = relay.lives[n].replica
    BY <1>1, <1>2, EditedFields
  <2>2. t.lives = [relay.lives EXCEPT ![n] = Edited(relay.lives[n], edit)]
    BY <1>1 DEF EditedTo, Edited
  <2> QED BY <1>1, <1>2, <2>1, <2>2, RunsOne
<1> QED BY <1>1, <1>2, <1>3, <1>4

LEMMA StatementOf ==
    ASSUME TypeInd, NEW r, NEW c, NEW asked, NEW t, Runs(r, c, asked, t), NEW i \in DOMAIN db[r]
    PROVE  db[r][i] \in Statements /\ (c = 1 => Head(db[r]) = db[r][1] /\ 1 \in DOMAIN db[r])
<1>1. db[r] \in Seq(Statements)
  BY RelayIs DEF Runs, Queues
<1> QED BY <1>1 DEF Runs

LEMMA HeadOf ==
    ASSUME TypeInd, NEW r, NEW asked, NEW t, Runs(r, 1, asked, t)
    PROVE  Head(db[r]) = db[r][1] /\ 1 \in DOMAIN db[r] /\ Head(db[r]) \in Statements
<1>1. db[r] \in Seq(Statements) /\ db[r] # <<>>
  BY RelayIs DEF Runs, Queues
<1> QED BY <1>1

LEMMA SettlesIs ==
    ASSUME TypeInd, MapsInd, NEW r, NEW n, NEW circuit, NEW t, Settles(r, n, circuit, t)
    PROVE  /\ View(r, relay.documents[r], relay.building[r], relay.closed[r]) /\ n \in Of(r)
           /\ OneLive(n, Settled(relay.lives[n], circuit)) /\ n = relay.documents[r]
           /\ ~relay.lives[n].dropping /\ circuit \in SUBSET Edits
<1>1. /\ Runs(r, 1, <<>>, t) /\ SettledTo(relay, n, r, circuit, t) /\ r \in Replicas
      /\ n = relay.documents[r] /\ n # None /\ Head(db[r]).kind = "append" /\ circuit = Head(db[r]).circuit
  BY DEF Settles, Runs
<1>2. n \in Of(r) /\ relay.lives[n] \in Lives /\ ~relay.lives[n].dropping
  BY <1>1, MapOf
<1>3. circuit \in SUBSET Edits
  <2>1. Head(db[r]) \in Statements
    BY <1>1, HeadOf
  <2> QED BY <1>1, <2>1 DEF Statements
<1>4. View(r, relay.documents[r], relay.building[r], relay.closed[r])
  BY <1>1, MapsSame DEF SettledTo
<1>5. OneLive(n, Settled(relay.lives[n], circuit))
  <2>1. Settled(relay.lives[n], circuit) \in Lives /\ Settled(relay.lives[n], circuit).replica = relay.lives[n].replica
    BY <1>2, <1>3, SettledFields
  <2>2. t.lives = [relay.lives EXCEPT ![n] = Settled(relay.lives[n], circuit)]
    BY <1>1 DEF SettledTo, Settled
  <2> QED BY <1>1, <1>2, <2>1, <2>2, RunsOne
<1> QED BY <1>1, <1>2, <1>3, <1>4, <1>5

LEMMA ClosesSavingIs ==
    ASSUME TypeInd, MapsInd, NEW r, NEW n, NEW s, NEW t, ClosesSaving(r, n, s, t)
    PROVE  /\ View(r, None, relay.building[r], TRUE) /\ n \in Of(r) /\ n = relay.documents[r]
           /\ ~relay.lives[n].dropping /\ relay.lives[n].pending
           /\ OneLive(n, RestLive(relay.lives[n])) /\ relay.closed[r] = FALSE
<1>1. /\ Runs(r, 0, <<SaveSession(n, relay.lives[n].doc, "close")>>, t) /\ FlushedTo(s, n, "close", t)
      /\ r \in Replicas /\ n = relay.documents[r] /\ n # None /\ Closing(r, s) /\ relay.lives[n].pending
  BY DEF ClosesSaving, Runs
<1>2. n \in Of(r) /\ relay.lives[n] \in Lives /\ ~relay.lives[n].dropping
  BY <1>1, MapOf
<1>3. View(r, None, relay.building[r], TRUE)
  <2>1. /\ t.documents = [relay.documents EXCEPT ![r] = None] /\ t.closed = [relay.closed EXCEPT ![r] = TRUE]
        /\ t.building = relay.building /\ t.channel = relay.channel
    BY <1>1 DEF FlushedTo, Closing, SameMaps, SameWires
  <2>2. Mapped(r, None, relay.building[r], TRUE, t)
    BY <1>1, <2>1, RelayIs, RelayFields DEF Mapped
  <2> QED BY <1>1, <2>2, RunsView
<1>4. OneLive(n, RestLive(relay.lives[n]))
  <2>1. RestLive(relay.lives[n]) \in Lives /\ RestLive(relay.lives[n]).replica = relay.lives[n].replica
    BY <1>2, RestFields
  <2>2. t.lives = [relay.lives EXCEPT ![n] = RestLive(relay.lives[n])]
    BY <1>1 DEF FlushedTo, Closing, SameObjects
  <2> QED BY <1>1, <1>2, <2>1, <2>2, RunsOne
<1>5. relay.closed[r] = FALSE
  BY <1>1, RelayIs, RelayFields DEF Closing
<1> QED BY <1>1, <1>2, <1>3, <1>4, <1>5

\* A document that changes while nobody moves.
LEMMA StaysMaps ==
    ASSUME TypeInd, MapsInd, running' = running, peers' = peers, NEW r, NEW n \in Of(r), NEW d, NEW k \in BOOLEAN,
           View(r, d, relay.building[r], k), d \in {None, relay.documents[r]}, k => d = None,
           NEW v, OneLive(n, v), v.peers = relay.lives[n].peers, v.dropping = relay.lives[n].dropping,
           v.pending = v.timer, v.timer => ~v.dropping
    PROVE  MapsInd' /\ Elsewhere(r)
<1>2. r \in Replicas /\ r \in running /\ n \in DOMAIN relay.lives
  BY DEF View, Of
<1>3. Moves(r, {n})
  BY StayMoves
<1>4. Changes(r, {n}, d, relay.building[r], k)
  BY <1>3, OneChange
<1>5. relay'.lives[n] = v
  BY DEF OneLive
<1>6. Guests(n)
  BY <1>2, <1>5, GuestsStay
<1>7. LiveInd(n)
  BY <1>2 DEF MapsInd
<1>8. LiveInd(n)'
  BY <1>2, <1>6, <1>7, LiveMade DEF LiveInd
<1>9. Fits(r, d, relay.building[r], k)
  <2>1. MapInd(r)
    BY <1>2 DEF MapsInd
  <2>3. d # None => ~relay'.lives[d].dropping
    BY <2>1, <1>2, <1>5 DEF MapInd, OneLive, Of
  <2> QED BY <2>1, <2>3 DEF MapInd, Fits
<1> QED BY <1>4, <1>8, <1>9, ChangeMaps

LEMMA StayMaps ==
    ASSUME TypeInd, MapsInd, running' = running, NEW r, NEW n, NEW t,
           \/ Fires(n, r, t)
           \/ \E p, edit : Integrates(p, r, n, edit, t)
           \/ \E circuit : Settles(r, n, circuit, t)
           \/ \E s : ClosesSaving(r, n, s, t)
    PROVE  MapsInd' /\ Elsewhere(r)
<1> DEFINE l == relay.lives[n]
<1>1. r \in Replicas /\ r \in running /\ peers' = peers
  BY DEF Fires, Integrates, Settles, ClosesSaving, Runs
<1>2. relay.closed[r] \in BOOLEAN
  BY <1>1, RelayIs, RelayFields
<1>3. MapInd(r)
  BY <1>1 DEF MapsInd
<1>4. n \in Of(r) => l \in Lives
  BY RelayIs, RelayFields DEF Of
<1>5. CASE Fires(n, r, t)
  <2> DEFINE v == RestLive(l)
  <2>1. View(r, relay.documents[r], relay.building[r], relay.closed[r]) /\ n \in Of(r) /\ OneLive(n, v)
    BY <1>5, FiresIs
  <2>2. v.peers = l.peers /\ v.dropping = l.dropping /\ v.pending = FALSE /\ v.timer = FALSE
    BY <1>4, <2>1, RestFields
  <2> HIDE DEF v
  <2> QED BY <1>1, <1>2, <1>3, <2>1, <2>2, StaysMaps DEF MapInd
<1>6. ASSUME NEW p, NEW edit, Integrates(p, r, n, edit, t) PROVE MapsInd' /\ Elsewhere(r)
  <2> DEFINE v == Edited(l, edit)
  <2>1. /\ View(r, relay.documents[r], relay.building[r], relay.closed[r]) /\ n \in Of(r)
        /\ OneLive(n, v) /\ ~l.dropping /\ edit \in Edits
    BY <1>6, IntegratesIs
  <2>2. v.peers = l.peers /\ v.dropping = l.dropping /\ v.pending = TRUE /\ v.timer = TRUE
    BY <1>4, <2>1, EditedFields
  <2> HIDE DEF v
  <2> QED BY <1>1, <1>2, <1>3, <2>1, <2>2, StaysMaps DEF MapInd
<1>7. ASSUME NEW circuit, Settles(r, n, circuit, t) PROVE MapsInd' /\ Elsewhere(r)
  <2> DEFINE v == Settled(l, circuit)
  <2>1. /\ View(r, relay.documents[r], relay.building[r], relay.closed[r]) /\ n \in Of(r)
        /\ OneLive(n, v) /\ ~l.dropping /\ circuit \in SUBSET Edits
    BY <1>7, SettlesIs
  <2>2. v.peers = l.peers /\ v.dropping = l.dropping /\ v.pending = TRUE /\ v.timer = TRUE
    BY <1>4, <2>1, SettledFields
  <2> HIDE DEF v
  <2> QED BY <1>1, <1>2, <1>3, <2>1, <2>2, StaysMaps DEF MapInd
<1>8. ASSUME NEW s, ClosesSaving(r, n, s, t) PROVE MapsInd' /\ Elsewhere(r)
  <2> DEFINE v == RestLive(l)
  <2>1. View(r, None, relay.building[r], TRUE) /\ n \in Of(r) /\ OneLive(n, v)
    BY <1>8, ClosesSavingIs
  <2>2. v.peers = l.peers /\ v.dropping = l.dropping /\ v.pending = FALSE /\ v.timer = FALSE
    BY <1>4, <2>1, RestFields
  <2> HIDE DEF v
  <2> QED BY <1>1, <2>1, <2>2, StaysMaps
<1> QED BY <1>5, <1>6, <1>7, <1>8

\* The build is over, and those who waited for it are in, or look again.
LEMMA EndsBuildIs ==
    ASSUME TypeInd, MapsInd, NEW r, NEW n, NEW t, EndsBuild(r, n, t)
    PROVE  LET served == relay.documents[r] = n /\ ~relay.lives[n].dropping
           IN  /\ View(r, relay.documents[r], None, relay.closed[r]) /\ n \in Of(r)
               /\ OneLive(n, JoinLive(relay.lives[n], IF served THEN Waiting(r) ELSE {}))
<1> DEFINE served == relay.documents[r] = n /\ ~relay.lives[n].dropping
           who == IF served THEN Waiting(r) ELSE {}
           v == JoinLive(relay.lives[n], who)
<1>1. /\ n = relay.building[r] /\ n \in DOMAIN relay.lives /\ SameWires(relay, t)
      /\ t.documents = relay.documents /\ t.closed = relay.closed
      /\ t.building = [relay.building EXCEPT ![r] = None] /\ Runs(r, 0, <<>>, t) /\ r \in Replicas
  BY DEF EndsBuild, Runs
<1>2. n \in Of(r)
  <2>1. MapInd(r)
    BY <1>1 DEF MapsInd
  <2>2. DOMAIN relay.lives = 1 .. Len(relay.lives) /\ Len(relay.lives) \in Nat
    BY RelayIs, RelayFields
  <2>3. Len(relay.lives) <= MaxBuilds
    <3>1. Len(relay.lives) + Cardinality(Seeders) <= MaxBuilds
      BY DEF MapsInd, RoomInd
    <3>2. Cardinality(Seeders) \in Nat
      BY FS_Subset, FS_CardinalityType, DeploymentsAssumption DEF Seeders
    <3> QED BY <2>2, <3>1, <3>2, DeploymentsAssumption
  <2> QED BY <1>1, <2>1, <2>2, <2>3, DeploymentsAssumption DEF MapInd, None, Seeding
<1>3. relay.lives[n] \in Lives
  BY <1>1, RelayIs, RelayFields
<1>4. who \in SUBSET Peers
  BY DEF Waiting
<1> HIDE DEF who
<1>5. v \in Lives /\ v.replica = relay.lives[n].replica
  BY <1>3, <1>4, JoinFields
<1>6. v = [relay.lives[n] EXCEPT !.peers = IF served THEN @ \cup Waiting(r) ELSE @]
  BY <1>3 DEF JoinLive, who, Lives
<1>7. t.lives = [relay.lives EXCEPT ![n] = v]
  BY <1>6 DEF EndsBuild
<1>8. OneLive(n, v)
  BY <1>1, <1>2, <1>5, <1>7, RunsOne
<1>9. View(r, relay.documents[r], None, relay.closed[r])
  <2>1. Mapped(r, relay.documents[r], None, relay.closed[r], t)
    BY <1>1, RelayIs, RelayFields DEF Mapped, SameWires
  <2> QED BY <1>1, <2>1, RunsView
<1> QED BY <1>2, <1>8, <1>9 DEF who

LEMMA EndsBuildMaps ==
    ASSUME TypeInd, MapsInd, running' = running, NEW r, NEW n, NEW t, EndsBuild(r, n, t)
    PROVE  MapsInd' /\ Elsewhere(r)
<1> DEFINE l == relay.lives[n]
           served == relay.documents[r] = n /\ ~l.dropping
           who == IF served THEN Waiting(r) ELSE {}
           v == JoinLive(l, who)
<1>1. View(r, relay.documents[r], None, relay.closed[r]) /\ n \in Of(r) /\ OneLive(n, v)
  BY EndsBuildIs
<1>2. r \in Replicas /\ r \in running /\ n \in DOMAIN relay.lives /\ l.replica = r
  BY <1>1 DEF View, Of
<1>3. l \in Lives /\ peers \in [Peers -> Places]
  BY <1>2, RelayIs, RelayFields
<1>4. who \in SUBSET Peers
  BY DEF Waiting
<1>5. v.peers = l.peers \cup who /\ v.pending = l.pending /\ v.timer = l.timer /\ v.dropping = l.dropping
  <2> HIDE DEF who
  <2> QED BY <1>3, <1>4, JoinFields
<1>6. /\ \A p \in Peers : p \notin Waiting(r) => peers'[p] = peers[p]
      /\ \A p \in Waiting(r) : served => peers'[p] = [at |-> "in", replica |-> r, live |-> n]
      /\ \A p \in Waiting(r) : ~served => peers'[p] = [peers[p] EXCEPT !.at = "nowhere"]
  BY DEF EndsBuild, Waiting
<1>7. \A p \in Waiting(r) : [peers[p] EXCEPT !.at = "nowhere"].at = "nowhere"
  BY <1>3 DEF Waiting, Places
<1>8. \A p \in Waiting(r) : p \in Peers /\ peers[p].at = "waiting" /\ peers[p].replica = r
  BY DEF Waiting
<1>9. relay'.lives[n] = v
  BY <1>1 DEF OneLive
<1>10. LiveInd(n)
  BY <1>2 DEF MapsInd
<1>11. MapInd(r)
  BY <1>2 DEF MapsInd
<1> HIDE DEF v
<1>12. Moves(r, {n})
  <2> HIDE DEF served
  <2> SUFFICES ASSUME NEW p \in Peers, peers'[p] # peers[p]
               PROVE  /\ peers[p].replica = r /\ peers[p].at = "waiting"
                      /\ peers'[p].at = "nowhere" \/ (peers'[p].replica = r /\ peers'[p].live = n)
    BY DEF Moves
  <2>1. p \in Waiting(r)
    BY <1>6
  <2>2. CASE served
    BY <1>6, <1>8, <2>1, <2>2
  <2>3. CASE ~served
    BY <1>6, <1>7, <1>8, <2>1, <2>3
  <2> QED BY <2>2, <2>3
<1>13. Guests(n)
  <2> SUFFICES ASSUME NEW p \in Peers PROVE p \in v.peers <=> InIt(p, n)'
    BY <1>9 DEF Guests
  <2>1. CASE p \in Waiting(r) /\ served
    BY <1>5, <1>6, <2>1 DEF InIt
  <2>2. CASE p \in Waiting(r) /\ ~served
    BY <1>5, <1>6, <1>7, <1>8, <1>10, <2>2 DEF InIt, LiveInd
  <2>3. CASE p \notin Waiting(r)
    BY <1>5, <1>6, <1>10, <2>3 DEF InIt, LiveInd
  <2> QED BY <2>1, <2>2, <2>3
<1>14. ~v.dropping => (v.pending <=> v.timer)
  BY <1>5, <1>10 DEF LiveInd
<1>15. v.timer => v.pending
  BY <1>5, <1>10 DEF LiveInd
<1>16. v.dropping => v.peers = {} /\ ~v.timer
  BY <1>5, <1>10 DEF LiveInd
<1>17. LiveInd(n)'
  BY <1>1, <1>2, <1>13, <1>14, <1>15, <1>16, LiveMade
<1>18. Changes(r, {n}, relay.documents[r], None, relay.closed[r])
  BY <1>1, <1>12, OneChange
<1>19. Fits(r, relay.documents[r], None, relay.closed[r])
  <2>1. relay.closed[r] \in BOOLEAN
    BY <1>2, RelayIs, RelayFields
  <2>2. relay.documents[r] # None => ~relay'.lives[relay.documents[r]].dropping
    BY <1>1, <1>2, <1>5, <1>9, <1>11 DEF MapInd, OneLive, Of
  <2> QED BY <1>11, <2>1, <2>2 DEF MapInd, Fits
<1> QED BY <1>17, <1>18, <1>19, ChangeMaps

\* Some documents of r are emptied.
Empties(r, G) ==
    /\ SameRoom /\ G \subseteq Of(r)
    /\ \A m \in DOMAIN relay.lives : m \notin G => relay'.lives[m] = relay.lives[m]
    /\ \A m \in G :
          /\ relay'.lives[m].doc = relay.lives[m].doc /\ relay'.lives[m].pending = relay.lives[m].pending
          /\ relay'.lives[m].peers = {} /\ ~relay'.lives[m].timer /\ relay'.lives[m].dropping
          /\ relay'.lives[m].bus = IF relay.lives[m].bus = "open" THEN "none" ELSE relay.lives[m].bus
Evicts(r, G) ==
    \E who :
        /\ peers' = Leave(who)
        /\ \A p \in who : p \in Peers => peers[p].replica = r /\ (peers[p].at = "in" => peers[p].live \in G)
        /\ \A p \in Peers : peers[p].at = "in" /\ peers[p].live \in G => p \in who

LEMMA EmptyMaps ==
    ASSUME TypeInd, MapsInd, running' = running, NEW r, NEW G, SameRoom, G \subseteq Of(r),
           \A m \in DOMAIN relay.lives : m \notin G => relay'.lives[m] = relay.lives[m],
           \A m \in G : relay'.lives[m].peers = {} /\ ~relay'.lives[m].timer /\ relay'.lives[m].dropping,
           Evicts(r, G), NEW d, NEW b, NEW k, View(r, d, b, k), Fits(r, d, b, k)
    PROVE  MapsInd' /\ Elsewhere(r)
<1>1. PICK who : /\ peers' = Leave(who)
                 /\ \A p \in who : p \in Peers => peers[p].replica = r /\ (peers[p].at = "in" => peers[p].live \in G)
                 /\ \A p \in Peers : peers[p].at = "in" /\ peers[p].live \in G => p \in who
  BY DEF Evicts
<1>2. /\ \A p \in Peers : p \in who => peers'[p].at = "nowhere"
      /\ \A p \in Peers : p \notin who => peers'[p] = peers[p]
  BY <1>1, LeaveIs
<1>3. Moves(r, G)
  BY <1>1, <1>2 DEF Moves
<1>4. Changes(r, G, d, b, k)
  BY <1>3 DEF Changes, AsItWas, Of
<1>5. \A m \in G : LiveInd(m)'
  <2> SUFFICES ASSUME NEW m \in G PROVE LiveInd(m)'
    OBVIOUS
  <2>1. relay'.lives[m].replica = relay.lives[m].replica /\ relay.lives[m].replica \in running
    BY DEF SameRoom, Of, MapsInd, LiveInd
  <2>2. \A p \in Peers : ~(peers'[p].at = "in" /\ peers'[p].live = m)
    BY <1>1, <1>2
  <2> QED BY <2>1, <2>2 DEF LiveInd
<1> QED BY <1>4, <1>5, ChangeMaps

LEMMA DropEmpties ==
    ASSUME TypeInd, MapsInd, NEW r, NEW c, NEW asked, NEW t, Runs(r, c, asked, t), NEW s, s.lives = relay.lives,
           NEW G, G \subseteq Of(r), DroppedBut(s, r, G, t)
    PROVE  Empties(r, G)
<1>1. relay'.lives = [n \in DOMAIN relay.lives |-> IF n \in G THEN DropLive(relay.lives[n]) ELSE relay.lives[n]]
  BY DEF Runs, Took, DroppedBut
<1>2. \A n \in G : n \in DOMAIN relay.lives /\ relay.lives[n] \in Lives
  BY RelayIs, RelayFields DEF Of
<1>3. \A n \in G : LET v == DropLive(relay.lives[n])
           IN  /\ v.replica = relay.lives[n].replica /\ v.doc = relay.lives[n].doc /\ v.peers = {}
               /\ v.pending = relay.lives[n].pending /\ ~v.timer /\ v.dropping
               /\ v.bus = IF relay.lives[n].bus = "open" THEN "none" ELSE relay.lives[n].bus
  BY <1>2, DropFields
<1>4. \A n \in G : relay'.lives[n] = DropLive(relay.lives[n])
  BY <1>1, <1>2
<1>5. \A n \in DOMAIN relay.lives : n \notin G => relay'.lives[n] = relay.lives[n]
  BY <1>1
<1>6. SameRoom
  <2>1. DOMAIN relay'.lives = DOMAIN relay.lives
    BY <1>1
  <2>2. \A m \in DOMAIN relay.lives : relay'.lives[m].replica = relay.lives[m].replica
    BY <1>3, <1>4, <1>5
  <2> QED BY <2>1, <2>2 DEF SameRoom
<1> QED BY <1>3, <1>4, <1>5, <1>6 DEF Empties

LEMMA EvictsIs ==
    ASSUME TypeInd, MapsInd, NEW r, NEW G, G \subseteq Of(r), peers' = Leave(UNION {relay.lives[n].peers : n \in G})
    PROVE  Evicts(r, G)
<1> DEFINE who == UNION {relay.lives[n].peers : n \in G}
<1>1. \A p \in who : p \in Peers => peers[p].replica = r /\ (peers[p].at = "in" => peers[p].live \in G)
  BY GuestsAre
<1>2. \A p \in Peers : peers[p].at = "in" /\ peers[p].live \in G => p \in who
  <2> SUFFICES ASSUME NEW p \in Peers, peers[p].at = "in", peers[p].live \in G PROVE p \in who
    OBVIOUS
  <2>1. p \in relay.lives[peers[p].live].peers
    BY PlaceOf
  <2> QED BY <2>1
<1> HIDE DEF who
<1>3. peers' = Leave(who)
  BY DEF who
<1> QED BY <1>1, <1>2, <1>3 DEF Evicts

LEMMA EvictsOne ==
    ASSUME TypeInd, MapsInd, NEW r, NEW n \in Of(r), peers' = Leave(relay.lives[n].peers)
    PROVE  Evicts(r, {n})
<1>1. UNION {relay.lives[m].peers : m \in {n}} = relay.lives[n].peers
  OBVIOUS
<1> QED BY <1>1, EvictsIs

LEMMA ListeningOf ==
    ASSUME NEW r
    PROVE  Listening(r) \subseteq Of(r) /\ \A n \in Listening(r) : relay.channel[r] = "open" /\ Subscribed(n)
BY DEF Listening, Listeners, Of, Subscribed

LEMMA IsToldIs ==
    ASSUME TypeInd, MapsInd, NEW r, NEW m, NEW s, NEW t, IsTold(r, m, s, t)
    PROVE  /\ View(r, IF Listening(r) = {} THEN relay.documents[r] ELSE None, relay.building[r], relay.closed[r])
           /\ Empties(r, Listening(r)) /\ Evicts(r, Listening(r))
<1>1. /\ Runs(r, 0, <<>>, t) /\ Popped(r, s) /\ Dropped(s, r, Listening(r), t) /\ r \in Replicas
      /\ peers' = Leave(UNION {relay.lives[n].peers : n \in Listening(r)})
  BY DEF IsTold, Pops, Runs
<1>2. Listening(r) \subseteq Of(r)
  BY ListeningOf
<1>3. s.lives = relay.lives
  BY <1>1 DEF Popped, SameObjects
<1>4. Empties(r, Listening(r))
  BY <1>1, <1>2, <1>3, DropEmpties DEF Dropped
<1>5. Evicts(r, Listening(r))
  BY <1>1, <1>2, EvictsIs
<1>6. View(r, IF Listening(r) = {} THEN relay.documents[r] ELSE None, relay.building[r], relay.closed[r])
  <2>1. /\ t.documents = [relay.documents EXCEPT ![r] = IF Listening(r) = {} THEN @ ELSE None]
        /\ t.building = relay.building /\ t.closed = relay.closed
        /\ t.channel = [relay.channel EXCEPT ![r] = Shut(s, r, Listening(r))]
    BY <1>1 DEF Dropped, DroppedBut, Popped, SameMaps
  <2>2. Mapped(r, IF Listening(r) = {} THEN relay.documents[r] ELSE None, relay.building[r], relay.closed[r], t)
    BY <1>1, <2>1, RelayIs, RelayFields DEF Mapped
  <2> QED BY <1>1, <2>2, RunsView
<1> QED BY <1>4, <1>5, <1>6

LEMMA SavedIs ==
    ASSUME TypeInd, NEW r \in Replicas, QueueInd(r), NEW asked, NEW t, Runs(r, 1, asked, t), Head(db[r]).kind = "save"
    PROVE  /\ Head(db[r]).live \in Of(r) /\ Head(db[r]).live \in DOMAIN relay.lives
           /\ (Head(db[r]).why = "close" => relay.closed[r])
<1>1. Head(db[r]) = db[r][1] /\ 1 \in DOMAIN db[r]
  BY HeadOf
<1> QED BY <1>1 DEF QueueInd, Of

LEMMA FinishesIs ==
    ASSUME TypeInd, MapsInd, NEW r \in Replicas, QueueInd(r), NEW n, NEW t, Finishes(r, n, t)
    PROVE  View(r, None, relay.building[r], relay.closed[r]) /\ n \in Of(r) /\ Empties(r, {n}) /\ Evicts(r, {n})
<1>1. /\ Runs(r, 1, <<>>, t) /\ DroppedBut(relay, r, {n}, t) /\ peers' = Leave(relay.lives[n].peers)
      /\ Head(db[r]).kind = "save" /\ n = Head(db[r]).live
  BY DEF Finishes
<1>2. n \in Of(r)
  BY <1>1, SavedIs
<1>3. Empties(r, {n}) /\ Evicts(r, {n})
  BY <1>1, <1>2, DropEmpties, EvictsOne
<1>4. View(r, None, relay.building[r], relay.closed[r])
  <2>1. /\ t.documents = [relay.documents EXCEPT ![r] = None]
        /\ t.building = relay.building /\ t.closed = relay.closed
        /\ t.channel = [relay.channel EXCEPT ![r] = Shut(relay, r, {n})]
    BY <1>1 DEF DroppedBut
  <2>2. Mapped(r, None, relay.building[r], relay.closed[r], t)
    BY <1>1, <2>1, RelayIs, RelayFields DEF Mapped
  <2> QED BY <1>1, <2>2, RunsView
<1> QED BY <1>2, <1>3, <1>4

LEMMA OvergrowsIs ==
    ASSUME TypeInd, MapsInd, NEW p, NEW r, NEW n, NEW t, Overgrows(p, r, n, t)
    PROVE  View(r, None, relay.building[r], relay.closed[r]) /\ n \in Of(r) /\ Empties(r, {n}) /\ Evicts(r, {n})
<1>1. /\ Runs(r, 0, <<DropSession(FALSE)>>, t) /\ DroppedBut(relay, r, {n}, t) /\ peers' = Leave(relay.lives[n].peers)
      /\ p \in Peers /\ peers[p].at = "in" /\ r = peers[p].replica /\ n = peers[p].live
  BY DEF Overgrows
<1>2. n \in Of(r) /\ r \in Replicas
  BY <1>1, PlaceOf
<1>3. Empties(r, {n}) /\ Evicts(r, {n})
  BY <1>1, <1>2, DropEmpties, EvictsOne
<1>4. View(r, None, relay.building[r], relay.closed[r])
  <2>1. /\ t.documents = [relay.documents EXCEPT ![r] = None]
        /\ t.building = relay.building /\ t.closed = relay.closed
        /\ t.channel = [relay.channel EXCEPT ![r] = Shut(relay, r, {n})]
    BY <1>1 DEF DroppedBut
  <2>2. Mapped(r, None, relay.building[r], relay.closed[r], t)
    BY <1>2, <2>1, RelayIs, RelayFields DEF Mapped
  <2> QED BY <1>1, <2>2, RunsView
<1> QED BY <1>2, <1>3, <1>4

LEMMA ClosesSavedIs ==
    ASSUME TypeInd, MapsInd, NEW r, NEW n, NEW s, NEW t, ClosesSaved(r, n, s, t)
    PROVE  /\ View(r, None, relay.building[r], TRUE) /\ n \in Of(r) /\ Empties(r, {n}) /\ Evicts(r, {n})
           /\ n = relay.documents[r] /\ relay.closed[r] = FALSE
<1>1. /\ Runs(r, 0, <<>>, t) /\ DroppedBut(s, r, {n}, t) /\ peers' = Leave(relay.lives[n].peers) /\ r \in Replicas
      /\ Closing(r, s) /\ n = relay.documents[r] /\ n # None
  BY DEF ClosesSaved, Runs
<1>2. n \in Of(r)
  BY <1>1, MapOf
<1>3. Empties(r, {n}) /\ Evicts(r, {n})
  BY <1>1, <1>2, DropEmpties, EvictsOne DEF Closing, SameObjects
<1>4. View(r, None, relay.building[r], TRUE)
  <2>1. /\ t.documents = [s.documents EXCEPT ![r] = None] /\ s.documents = [relay.documents EXCEPT ![r] = None]
        /\ t.building = relay.building /\ t.closed = [relay.closed EXCEPT ![r] = TRUE]
        /\ t.channel = [relay.channel EXCEPT ![r] = Shut(s, r, {n})]
    BY <1>1 DEF DroppedBut, Closing, SameWires
  <2>2. Mapped(r, None, relay.building[r], TRUE, t)
    BY <1>1, <2>1, RelayIs, RelayFields DEF Mapped
  <2> QED BY <1>1, <2>2, RunsView
<1>5. relay.closed[r] = FALSE
  BY <1>1, RelayIs, RelayFields DEF Closing
<1> QED BY <1>1, <1>2, <1>3, <1>4, <1>5

LEMMA EmptiesMaps ==
    ASSUME TypeInd, MapsInd, running' = running, NEW r, NEW G, Empties(r, G), Evicts(r, G),
           NEW d, NEW b, NEW k, View(r, d, b, k), Fits(r, d, b, k)
    PROVE  MapsInd' /\ Elsewhere(r)
<1>1. /\ SameRoom /\ G \subseteq Of(r)
      /\ \A m \in DOMAIN relay.lives : m \notin G => relay'.lives[m] = relay.lives[m]
      /\ \A m \in G : relay'.lives[m].peers = {} /\ ~relay'.lives[m].timer /\ relay'.lives[m].dropping
  BY DEF Empties
<1> QED BY <1>1, EmptyMaps

LEMMA DropsMaps ==
    ASSUME TypeInd, MapsInd, running' = running, NEW r \in Replicas, QueueInd(r), NEW t,
           \/ \E m, s : IsTold(r, m, s, t)
           \/ \E n : Finishes(r, n, t)
           \/ \E p, n : Overgrows(p, r, n, t)
           \/ \E n, s : ClosesSaved(r, n, s, t)
    PROVE  MapsInd' /\ Elsewhere(r)
<1>1. MapInd(r) /\ relay.closed[r] \in BOOLEAN
  BY RelayIs, RelayFields DEF MapsInd
<1>2. Fits(r, None, relay.building[r], relay.closed[r])
  BY <1>1 DEF Fits
<1>3. Fits(r, None, relay.building[r], TRUE)
  BY <1>1 DEF Fits
<1>4. ASSUME NEW m, NEW s, IsTold(r, m, s, t) PROVE MapsInd' /\ Elsewhere(r)
  <2>1. /\ View(r, IF Listening(r) = {} THEN relay.documents[r] ELSE None, relay.building[r], relay.closed[r])
        /\ Empties(r, Listening(r)) /\ Evicts(r, Listening(r))
    BY <1>4, IsToldIs
  <2>2. CASE Listening(r) = {}
    <3>1. Fits(r, relay.documents[r], relay.building[r], relay.closed[r])
      BY <1>1, <2>1, <2>2 DEF Fits, MapInd, Empties, Of
    <3>2. View(r, relay.documents[r], relay.building[r], relay.closed[r])
      BY <2>1, <2>2
    <3> QED BY <2>1, <3>1, <3>2, EmptiesMaps
  <2>3. CASE Listening(r) # {}
    <3>1. View(r, None, relay.building[r], relay.closed[r])
      BY <2>1, <2>3
    <3> QED BY <1>2, <2>1, <3>1, EmptiesMaps
  <2> QED BY <2>2, <2>3
<1>5. ASSUME NEW n, Finishes(r, n, t) PROVE MapsInd' /\ Elsewhere(r)
  <2>1. View(r, None, relay.building[r], relay.closed[r]) /\ Empties(r, {n}) /\ Evicts(r, {n})
    BY <1>5, FinishesIs
  <2> QED BY <1>2, <2>1, EmptiesMaps
<1>6. ASSUME NEW p, NEW n, Overgrows(p, r, n, t) PROVE MapsInd' /\ Elsewhere(r)
  <2>1. View(r, None, relay.building[r], relay.closed[r]) /\ Empties(r, {n}) /\ Evicts(r, {n})
    BY <1>6, OvergrowsIs
  <2> QED BY <1>2, <2>1, EmptiesMaps
<1>7. ASSUME NEW n, NEW s, ClosesSaved(r, n, s, t) PROVE MapsInd' /\ Elsewhere(r)
  <2>1. View(r, None, relay.building[r], TRUE) /\ Empties(r, {n}) /\ Evicts(r, {n})
    BY <1>7, ClosesSavedIs
  <2> QED BY <1>3, <2>1, EmptiesMaps
<1> QED BY <1>4, <1>5, <1>6, <1>7

\* The process is gone, and its documents with it.
LEMMA DiesIs ==
    ASSUME TypeInd, MapsInd, NEW r, Dies(r)
    PROVE  /\ View(r, None, None, FALSE) /\ SameRoom /\ Evicts(r, Of(r)) /\ db'[r] = <<>> /\ db' \in Queues
           /\ relay'.inbox[r] = <<>> /\ relay'.channel[r] = "closed"
           /\ \A m \in DOMAIN relay.lives : m \notin Of(r) => relay'.lives[m] = relay.lives[m]
           /\ \A m \in Of(r) :
                 /\ relay'.lives[m].doc = relay.lives[m].doc /\ relay'.lives[m].peers = {}
                 /\ ~relay'.lives[m].timer /\ relay'.lives[m].dropping /\ relay'.lives[m].bus = "none"
<1>1. /\ r \in Replicas /\ r \in running /\ relay' \in Relays
      /\ relay'.closed = [relay.closed EXCEPT ![r] = FALSE] /\ relay'.building = [relay.building EXCEPT ![r] = None]
      /\ relay'.documents = [relay.documents EXCEPT ![r] = None] /\ relay'.inbox = [relay.inbox EXCEPT ![r] = <<>>]
      /\ relay'.channel = [relay.channel EXCEPT ![r] = "closed"] /\ db' = [db EXCEPT ![r] = <<>>]
  BY DEF Dies
<1>2. relay \in Relays /\ db \in Queues
  BY RelayIs
<1>3. db' \in Queues /\ db'[r] = <<>> /\ \A q \in Replicas : q # r => db'[q] = db[q]
  BY <1>1, <1>2, NoStatement DEF Queues
<1>4. View(r, None, None, FALSE) /\ relay'.inbox[r] = <<>> /\ relay'.channel[r] = "closed"
  BY <1>1, <1>2, <1>3, RelayFields DEF View
<1>5. relay'.lives = [n \in DOMAIN relay.lives |->
          IF relay.lives[n].replica = r THEN GoneLive(relay.lives[n]) ELSE relay.lives[n]]
  BY DEF Dies
<1>6. \A m \in DOMAIN relay.lives : m \notin Of(r) => relay'.lives[m] = relay.lives[m]
  BY <1>5 DEF Of
<1>7. \A m \in Of(r) : m \in DOMAIN relay.lives /\ relay.lives[m] \in Lives /\ relay'.lives[m] = GoneLive(relay.lives[m])
  BY <1>2, <1>5, RelayFields DEF Of
<1>8. \A m \in Of(r) : LET v == GoneLive(relay.lives[m])
           IN  /\ v.replica = relay.lives[m].replica /\ v.doc = relay.lives[m].doc /\ v.peers = {}
               /\ ~v.timer /\ v.dropping /\ v.bus = "none"
  BY <1>7, GoneFields
<1>9. SameRoom
  <2>1. DOMAIN relay'.lives = DOMAIN relay.lives
    BY <1>5
  <2>2. \A m \in DOMAIN relay.lives : relay'.lives[m].replica = relay.lives[m].replica
    BY <1>6, <1>7, <1>8
  <2> QED BY <2>1, <2>2 DEF SameRoom
<1>10. Evicts(r, Of(r))
  <2> DEFINE who == {p \in Peers : peers[p].replica = r}
  <2>1. peers' = Leave(who)
    BY DEF Dies
  <2>2. \A p \in Peers : peers[p].at = "in" => peers[p].live \in Of(peers[p].replica)
    BY DEF MapsInd, PlaceInd
  <2>3. \A p \in who : p \in Peers => peers[p].replica = r /\ (peers[p].at = "in" => peers[p].live \in Of(r))
    BY <2>2
  <2>4. \A p \in Peers : peers[p].at = "in" /\ peers[p].live \in Of(r) => p \in who
    BY <2>2 DEF Of
  <2> HIDE DEF who
  <2> QED BY <2>1, <2>3, <2>4 DEF Evicts
<1> QED BY <1>3, <1>4, <1>6, <1>7, <1>8, <1>9, <1>10

LEMMA DiesMaps ==
    ASSUME TypeInd, MapsInd, running' = running, NEW r, Dies(r)
    PROVE  MapsInd' /\ Elsewhere(r)
<1>1. /\ View(r, None, None, FALSE) /\ SameRoom /\ Evicts(r, Of(r))
      /\ \A m \in DOMAIN relay.lives : m \notin Of(r) => relay'.lives[m] = relay.lives[m]
      /\ \A m \in Of(r) : relay'.lives[m].peers = {} /\ ~relay'.lives[m].timer /\ relay'.lives[m].dropping
  BY DiesIs
<1>2. Fits(r, None, None, FALSE)
  BY DEF Fits
<1> QED BY <1>1, <1>2, EmptyMaps

\* A build begins.
LEMMA SeedsIs ==
    ASSUME TypeInd, MapsInd, NEW p, NEW r, NEW t, Seeds(p, r, t)
    PROVE  /\ Idles(r, None, Seeding, FALSE) /\ relay.documents[r] = None /\ relay.building[r] = None
           /\ relay.closed[r] = FALSE /\ relay'.lives = relay.lives
<1>1. /\ p \in Peers /\ peers[p].at = "nowhere" /\ ~relay.closed[r] /\ relay.building[r] = None
      /\ relay.documents[r] = None /\ SameObjects(relay, t) /\ SameWires(relay, t)
      /\ t.documents = relay.documents /\ t.closed = relay.closed
      /\ t.building = [relay.building EXCEPT ![r] = Seeding]
      /\ Runs(r, 0, <<LoadSession>>, t) /\ r \in Replicas
      /\ peers' = [peers EXCEPT ![p] = [at |-> "waiting", replica |-> r, live |-> None]]
  BY DEF Seeds, WaitsAt, Runs
<1>2. relay.closed[r] = FALSE
  BY <1>1, RelayIs, RelayFields
<1>3. View(r, None, Seeding, FALSE)
  <2>1. Mapped(r, None, Seeding, FALSE, t)
    BY <1>1, <1>2, RelayIs, RelayFields DEF Mapped, SameWires
  <2> QED BY <1>1, <2>1, RunsView
<1>4. relay'.lives = relay.lives
  BY <1>1 DEF Runs, Took, SameObjects
<1>5. peers'[p] = [at |-> "waiting", replica |-> r, live |-> None] /\ \A q \in Peers : q # p => peers'[q] = peers[q]
  BY <1>1, RelayIs
<1>6. SameRoom /\ \A m \in DOMAIN relay.lives : AsItWas(m) /\ relay'.lives[m] = relay.lives[m]
  BY <1>4 DEF SameRoom, AsItWas
<1>7. \A q \in Peers : peers'[q] # peers[q] =>
          /\ peers[q].at = "nowhere" \/ (peers[q].replica = r /\ peers[q].at = "waiting")
          /\ peers'[q].at \in {"nowhere", "waiting"} /\ (peers'[q].at = "waiting" => peers'[q].replica = r)
  BY <1>1, <1>5
<1>8. Idles(r, None, Seeding, FALSE)
  BY <1>3, <1>6, <1>7 DEF Idles
<1> QED BY <1>1, <1>2, <1>4, <1>8

LEMMA SeedersAre ==
    IsFiniteSet(Seeders) /\ Cardinality(Seeders) \in Nat
BY FS_Subset, FS_CardinalityType, DeploymentsAssumption DEF Seeders

LEMMA SeedsMaps ==
    ASSUME TypeInd, MapsInd, running' = running, NEW p, NEW r, NEW t, Seeds(p, r, t)
    PROVE  MapsInd' /\ Elsewhere(r)
<1>1. /\ Idles(r, None, Seeding, FALSE) /\ relay.documents[r] = None /\ relay.building[r] = None
      /\ relay'.lives = relay.lives
  BY SeedsIs
<1>2. View(r, None, Seeding, FALSE) /\ SameRoom /\ r \in Replicas /\ r \in running
  BY <1>1 DEF Idles, View
<1>3. /\ \A q \in Peers : peers'[q] # peers[q] =>
               /\ peers[q].at = "nowhere" \/ peers[q].replica = r
               /\ peers'[q].at = "nowhere" \/ peers'[q].replica = r
               /\ PlaceInd(q)'
      /\ \A m \in Of(r) : LiveInd(m)'
  BY <1>1, IdleLives
<1>4. Elsewhere(r)
  BY <1>1, <1>2, <1>3, ViewElsewhere
<1>5. \A q \in Peers : PlaceInd(q)'
  BY <1>2, <1>3, <1>4, PlacesKept
<1>6. Of(r)' = Of(r)
  BY <1>2 DEF Of, SameRoom
<1>7. MapInd(r)'
  BY <1>2 DEF MapInd, View
<1>8. RoomInd'
  <2>1. Seeders' = Seeders \cup {r}
    BY <1>2 DEF Seeders, View
  <2>2. r \notin Seeders
    BY <1>1, DeploymentsAssumption DEF Seeders, None, Seeding
  <2>3. Cardinality(Seeders') = Cardinality(Seeders) + 1
    BY <2>1, <2>2, SeedersAre, FS_AddElement
  <2>4. Len(relay.lives) + Cardinality(Seeders) < MaxBuilds
    BY DEF Seeds
  <2>5. Len(relay.lives) \in Nat
    BY RelayIs, RelayFields
  <2> QED BY <1>1, <2>3, <2>4, <2>5, SeedersAre, DeploymentsAssumption DEF RoomInd
<1> QED BY <1>2, <1>3, <1>4, <1>5, <1>6, <1>7, <1>8, MapsElsewhere

BuiltLive(r, doc, x) == [NewLive(r, doc) EXCEPT !.bus = x]

IsNew(v, r, doc, x) ==
    /\ v \in Lives /\ v.replica = r /\ v.doc = doc /\ v.peers = {} /\ v.pending = FALSE
    /\ v.timer = FALSE /\ v.bus = x /\ v.dropping = FALSE

LEMMA NewLiveOn ==
    ASSUME NEW r \in Replicas, NEW doc \in Documents, NEW x \in {"open", "opening"}
    PROVE  IsNew(BuiltLive(r, doc, x), r, doc, x)
<1>1. PICK l \in Lives : l = NewLive(r, doc)
  BY NewLiveIsLive
<1>2. /\ l.replica = r /\ l.doc = doc /\ l.peers = {} /\ l.pending = FALSE
      /\ l.timer = FALSE /\ l.dropping = FALSE
  BY <1>1 DEF NewLive
<1>3. LET v == [l EXCEPT !.bus = x]
      IN  /\ v \in Lives /\ v.replica = l.replica /\ v.doc = l.doc /\ v.peers = l.peers /\ v.pending = l.pending
          /\ v.timer = l.timer /\ v.bus = x /\ v.dropping = l.dropping
  BY DEF Lives
<1>4. BuiltLive(r, doc, x) = [l EXCEPT !.bus = x]
  BY <1>1 DEF BuiltLive
<1> QED BY <1>2, <1>3, <1>4 DEF IsNew

\* The document is made.
LEMMA SetsUpIs ==
    ASSUME TypeInd, MapsInd, NEW r, NEW doc, NEW t, SetsUp(r, doc, t)
    PROVE  LET n == Len(relay.lives) + 1
               open == relay.channel[r] # "closed"
           IN  /\ View(r, n, n, FALSE) /\ peers' = peers /\ n \in Nat /\ n # None /\ doc \in Documents
               /\ Len(relay'.lives) = n /\ n \notin DOMAIN relay.lives
               /\ DOMAIN relay'.lives = DOMAIN relay.lives \cup {n} /\ Lookup(Head(db[r]))
               /\ \A m \in DOMAIN relay.lives : relay'.lives[m] = relay.lives[m]
               /\ relay'.lives[n].replica = r /\ relay'.lives[n].doc = doc /\ relay'.lives[n].peers = {}
               /\ relay'.lives[n].pending = FALSE /\ relay'.lives[n].timer = FALSE
               /\ relay'.lives[n].bus = (IF open THEN "open" ELSE "opening") /\ relay'.lives[n].dropping = FALSE
               /\ relay'.channel[r] = IF open THEN relay.channel[r] ELSE "opening"
<1> DEFINE n == Len(relay.lives) + 1
           open == relay.channel[r] # "closed"
           v == BuiltLive(r, doc, IF open THEN "open" ELSE "opening")
<1>1. /\ BuiltTo(relay, r, doc, t) /\ Runs(r, 1, <<>>, t) /\ r \in Replicas /\ ~relay.closed[r] /\ peers' = peers
      /\ doc \in Documents /\ Lookup(Head(db[r]))
  BY DEF SetsUp, Runs
<1>2. /\ t.documents = [relay.documents EXCEPT ![r] = n] /\ t.building = [relay.building EXCEPT ![r] = n]
      /\ t.closed = relay.closed /\ t.lives = Append(relay.lives, v)
      /\ t.channel = IF open THEN relay.channel ELSE [relay.channel EXCEPT ![r] = "opening"]
  BY <1>1 DEF BuiltTo, BuiltLive
<1>3. relay.lives \in Seq(Lives) /\ Len(relay.lives) \in Nat /\ DOMAIN relay.lives = 1 .. Len(relay.lives)
  BY RelayIs, RelayFields
<1>4. /\ v \in Lives /\ v.replica = r /\ v.doc = doc /\ v.peers = {} /\ v.pending = FALSE
      /\ v.timer = FALSE /\ v.bus = (IF open THEN "open" ELSE "opening") /\ v.dropping = FALSE
  <2>1. PICK x \in {"open", "opening"} : x = IF open THEN "open" ELSE "opening"
    OBVIOUS
  <2>2. v = BuiltLive(r, doc, x)
    BY <2>1
  <2> HIDE DEF v
  <2>3. r \in Replicas /\ doc \in Documents
    BY <1>1
  <2>4. IsNew(v, r, doc, x)
    BY <2>1, <2>2, <2>3, NewLiveOn
  <2> QED BY <2>1, <2>4 DEF IsNew
<1>5. relay'.lives = Append(relay.lives, v) /\ relay'.channel = t.channel
  BY <1>1, <1>2 DEF Runs, Took
<1>6. relay.closed[r] = FALSE
  BY <1>1, RelayIs, RelayFields
<1>7. View(r, n, n, FALSE)
  <2>1. Mapped(r, n, n, FALSE, t)
    BY <1>1, <1>2, <1>6, RelayIs, RelayFields DEF Mapped
  <2> QED BY <1>1, <2>1, RunsView
<1> HIDE DEF v
<1>8. /\ Len(relay'.lives) = n /\ relay'.lives[n] = v /\ \A m \in DOMAIN relay.lives : relay'.lives[m] = relay.lives[m]
      /\ DOMAIN relay'.lives = 1 .. n
  BY <1>3, <1>5
<1>9. DOMAIN relay'.lives = DOMAIN relay.lives \cup {n} /\ n \notin DOMAIN relay.lives /\ n \in Nat /\ n # None
  BY <1>3, <1>8 DEF None
<1>10. relay'.channel[r] = IF open THEN relay.channel[r] ELSE "opening"
  BY <1>1, <1>2, <1>5, RelayIs, RelayFields
<1> QED BY <1>1, <1>4, <1>7, <1>8, <1>9, <1>10

LEMMA SetsUpMaps ==
    ASSUME TypeInd, MapsInd, running' = running, NEW r \in Replicas, QueueInd(r), NEW doc, NEW t, SetsUp(r, doc, t)
    PROVE  MapsInd' /\ Elsewhere(r)
<1>0. PICK n : n = Len(relay.lives) + 1
  OBVIOUS
<1>1. /\ View(r, n, n, FALSE) /\ peers' = peers /\ n \in Nat /\ n # None
      /\ Len(relay'.lives) = n /\ n \notin DOMAIN relay.lives
      /\ DOMAIN relay'.lives = DOMAIN relay.lives \cup {n} /\ Lookup(Head(db[r]))
      /\ \A m \in DOMAIN relay.lives : relay'.lives[m] = relay.lives[m]
  BY <1>0, SetsUpIs
<1>2. /\ relay'.lives[n].replica = r /\ relay'.lives[n].peers = {} /\ relay'.lives[n].pending = FALSE
      /\ relay'.lives[n].timer = FALSE /\ relay'.lives[n].dropping = FALSE
  BY <1>0, SetsUpIs
<1>3. r \in Replicas /\ r \in running
  BY <1>1 DEF View
<1>4. relay.building[r] = Seeding
  <2>1. Head(db[r]) = db[r][1] /\ 1 \in DOMAIN db[r]
    BY HeadOf DEF SetsUp
  <2> QED BY <1>1, <2>1 DEF QueueInd
<1>5. Elsewhere(r)
  BY <1>1, <1>2 DEF Elsewhere, View
<1>6. \A p \in Peers : PlaceInd(p)'
  BY <1>1, <1>3, <1>5, PlacesKept
<1>7. Of(r)' = Of(r) \cup {n}
  BY <1>1, <1>2 DEF Of
<1>8. ASSUME NEW m \in Of(r) PROVE LiveInd(m)'
  <2>1. m \in DOMAIN relay.lives /\ LiveInd(m)
    BY DEF Of, MapsInd
  <2>2. relay'.lives[m] = relay.lives[m] /\ peers' = peers
    BY <1>1, <2>1
  <2> QED BY <2>1, <2>2 DEF LiveInd
<1>9. LiveInd(n)'
  <2>1. \A p \in Peers : ~(peers[p].at = "in" /\ peers[p].live = n)
    BY <1>1 DEF MapsInd, PlaceInd, Of
  <2> QED BY <1>1, <1>2, <1>3, <2>1 DEF LiveInd
<1>10. MapInd(r)'
  <2>1. relay'.documents[r] = n /\ relay'.building[r] = n /\ relay'.closed[r] = FALSE
    BY <1>1 DEF View
  <2>3. Len(relay.lives) + Cardinality(Seeders) <= MaxBuilds /\ Cardinality(Seeders) # 0
    <3>1. Seeders # {}
      BY <1>3, <1>4 DEF Seeders
    <3> QED BY <3>1, SeedersAre, FS_EmptySet DEF MapsInd, RoomInd
  <2>4. n # Seeding
    <3>1. Len(relay.lives) \in Nat
      BY RelayIs, RelayFields
    <3> QED BY <3>1, <2>3, <1>0, SeedersAre, DeploymentsAssumption DEF Seeding
  <2> QED BY <1>2, <1>3, <1>7, <2>1, <2>4 DEF MapInd
<1>11. RoomInd'
  <2>1. Seeders' = Seeders \ {r} /\ r \in Seeders
    <3>1. n # Seeding
      <4>1. Len(relay.lives) \in Nat
        BY RelayIs, RelayFields
      <4>2. Seeders # {}
        BY <1>3, <1>4 DEF Seeders
      <4>3. Len(relay.lives) + Cardinality(Seeders) <= MaxBuilds /\ Cardinality(Seeders) # 0
        BY <4>2, SeedersAre, FS_EmptySet DEF MapsInd, RoomInd
      <4> QED BY <4>1, <4>3, <1>0, SeedersAre, DeploymentsAssumption DEF Seeding
    <3> QED BY <1>1, <1>3, <1>4, <3>1 DEF Seeders, View
  <2>2. Cardinality(Seeders') = Cardinality(Seeders) - 1
    BY <2>1, SeedersAre, FS_RemoveElement
  <2>3. Len(relay.lives) + Cardinality(Seeders) <= MaxBuilds
    BY DEF MapsInd, RoomInd
  <2>4. Len(relay.lives) \in Nat /\ Len(relay'.lives) = Len(relay.lives) + 1
    BY <1>0, <1>1, RelayIs, RelayFields
  <2> QED BY <2>2, <2>3, <2>4, SeedersAre, DeploymentsAssumption DEF RoomInd
<1>12. \A m \in Of(r)' : LiveInd(m)'
  BY <1>7, <1>8, <1>9
<1> QED BY <1>3, <1>5, <1>6, <1>10, <1>11, <1>12, MapsElsewhere

------------------------------------------------------------------------------
(* The maps after every step. *)

\* The steps that leave every document as it stands.
Rests(r) ==
    \/ \E p : Awaits(p, r)
    \/ \E n, t : Opens(n, r, t) \/ GoesWithout(n, r, t) \/ LetsGo(r, n, t)
    \/ \E m, s : Ignores(r, m, s) \/ \E t : Merges(r, m, s, t) \/ Answers(r, m, s, t)
    \/ \E t : Refuses(r, t) \/ Stops(r, t) \/ \E circuit : Tells(r, circuit, t)
    \/ LooksOn(r) \/ Discards(r) \/ IsOver(r)
    \/ \E circuit, restore : AsksVersion(r, circuit, restore)
    \/ \E s : ClosesNone(r, s)

LEMMA RestsMaps ==
    ASSUME TypeInd, MapsInd, running' = running, NEW r \in Replicas, Rests(r)
    PROVE  MapsInd' /\ Elsewhere(r)
<1> DEFINE d == relay.documents[r]
           b == relay.building[r]
           k == relay.closed[r]
<1>1. k \in BOOLEAN /\ (k => d = None)
  BY RelayIs, RelayFields DEF MapsInd, MapInd
<1> HIDE DEF d, b, k
<1>2. ASSUME Idles(r, d, b, k) PROVE MapsInd' /\ Elsewhere(r)
  BY <1>1, <1>2, IdleMaps DEF d, b
<1>3. ASSUME Idles(r, d, None, k) PROVE MapsInd' /\ Elsewhere(r)
  BY <1>1, <1>3, IdleMaps DEF d, b
<1>4. ASSUME Idles(r, None, b, k) PROVE MapsInd' /\ Elsewhere(r)
  BY <1>1, <1>4, IdleMaps DEF d, b
<1>5. ASSUME NEW p, Awaits(p, r) PROVE MapsInd' /\ Elsewhere(r)
  BY <1>2, <1>5, AwaitIdles DEF d, b, k
<1>6. ASSUME NEW n, NEW t, Opens(n, r, t) \/ GoesWithout(n, r, t) \/ LetsGo(r, n, t) PROVE MapsInd' /\ Elsewhere(r)
  BY <1>2, <1>4, <1>6, OpensIdles, GoesWithoutIdles, LetsGoIdles DEF d, b, k
<1>7. ASSUME NEW m, NEW s, Ignores(r, m, s) \/ \E t : Merges(r, m, s, t) \/ Answers(r, m, s, t)
      PROVE  MapsInd' /\ Elsewhere(r)
  BY <1>2, <1>7, PoppedIdles, MergesIdles, AnswersIdles DEF d, b, k
<1>8. ASSUME NEW t, Refuses(r, t) \/ Stops(r, t) \/ \E circuit : Tells(r, circuit, t) PROVE MapsInd' /\ Elsewhere(r)
  BY <1>2, <1>3, <1>8, RefusesIdles, StopsIdles, TellsIdles DEF d, b, k
<1>9. ASSUME LooksOn(r) \/ Discards(r) \/ IsOver(r) PROVE MapsInd' /\ Elsewhere(r)
  <2>1. Idles(r, d, b, k)
    BY <1>9, StillIdles DEF LooksOn, Discards, IsOver, d, b, k
  <2> QED BY <1>2, <2>1
<1>10. ASSUME NEW circuit, NEW restore, AsksVersion(r, circuit, restore) PROVE MapsInd' /\ Elsewhere(r)
  <2>1. Idles(r, d, b, k)
    BY <1>10, StillIdles DEF AsksVersion, d, b, k
  <2> QED BY <1>2, <2>1
<1>11. ASSUME NEW s, ClosesNone(r, s) PROVE MapsInd' /\ Elsewhere(r)
  <2>1. Idles(r, None, b, TRUE)
    BY <1>11, ClosesNoneIdles DEF b
  <2> QED BY <2>1, IdleMaps DEF b
<1> QED BY <1>5, <1>6, <1>7, <1>8, <1>9, <1>10, <1>11 DEF Rests

\* Every step of process r but the execution of a statement.
Local(r) ==
    \/ Rests(r)
    \/ \E p, n, t : Attaches(p, r, n, t)
    \/ \E p, t : Seeds(p, r, t)
    \/ \E p, n, t : LeavesOthers(p, r, n, t) \/ LeavesSaving(p, r, n, t) \/ LeavesAtOnce(p, r, n, t)
    \/ \E n, t : Fires(n, r, t)
    \/ \E n, t, p, edit : Integrates(p, r, n, edit, t)
    \/ \E n, t, circuit : Settles(r, n, circuit, t)
    \/ \E n, t, s : ClosesSaving(r, n, s, t)
    \/ \E n, t : EndsBuild(r, n, t)
    \/ \E t, m, s : IsTold(r, m, s, t)
    \/ \E t, n : Finishes(r, n, t)
    \/ \E t, p, n : Overgrows(p, r, n, t)
    \/ \E t, n, s : ClosesSaved(r, n, s, t)
    \/ \E doc, t : SetsUp(r, doc, t)
    \/ Dies(r)

LEMMA LocalMaps ==
    ASSUME TypeInd, MapsInd, running' = running, NEW r \in Replicas, QueueInd(r), Local(r)
    PROVE  MapsInd' /\ Elsewhere(r)
<1>1. CASE Rests(r)
  BY <1>1, RestsMaps
<1>2. CASE \E p, n, t : Attaches(p, r, n, t)
  BY <1>2, AttachMaps
<1>3. CASE \E p, t : Seeds(p, r, t)
  BY <1>3, SeedsMaps
<1>4. CASE \E p, n, t : LeavesOthers(p, r, n, t) \/ LeavesSaving(p, r, n, t) \/ LeavesAtOnce(p, r, n, t)
  BY <1>4, LeaveMaps
<1>5. CASE \E n, t : Fires(n, r, t)
  BY <1>5, StayMaps
<1>6. CASE \E n, t, p, edit : Integrates(p, r, n, edit, t)
  <2>1. PICK n, t, p, edit : Integrates(p, r, n, edit, t)
    BY <1>6
  <2> QED BY <2>1, StayMaps
<1>7. CASE \E n, t, circuit : Settles(r, n, circuit, t)
  <2>1. PICK n, t, circuit : Settles(r, n, circuit, t)
    BY <1>7
  <2> QED BY <2>1, StayMaps
<1>8. CASE \E n, t, s : ClosesSaving(r, n, s, t)
  <2>1. PICK n, t, s : ClosesSaving(r, n, s, t)
    BY <1>8
  <2> QED BY <2>1, StayMaps
<1>9. CASE \E n, t : EndsBuild(r, n, t)
  BY <1>9, EndsBuildMaps
<1>10. CASE \E t, m, s : IsTold(r, m, s, t)
  <2>1. PICK t, m, s : IsTold(r, m, s, t)
    BY <1>10
  <2> QED BY <2>1, DropsMaps
<1>11. CASE \E t, n : Finishes(r, n, t)
  <2>1. PICK t, n : Finishes(r, n, t)
    BY <1>11
  <2> QED BY <2>1, DropsMaps
<1>12. CASE \E t, p, n : Overgrows(p, r, n, t)
  <2>1. PICK t, p, n : Overgrows(p, r, n, t)
    BY <1>12
  <2> QED BY <2>1, DropsMaps
<1>13. CASE \E t, n, s : ClosesSaved(r, n, s, t)
  <2>1. PICK t, n, s : ClosesSaved(r, n, s, t)
    BY <1>13
  <2> QED BY <2>1, DropsMaps
<1>14. CASE \E doc, t : SetsUp(r, doc, t)
  BY <1>14, SetsUpMaps
<1>15. CASE Dies(r)
  BY <1>15, DiesMaps
<1> QED BY <1>1, <1>2, <1>3, <1>4, <1>5, <1>6, <1>7, <1>8, <1>9, <1>10, <1>11, <1>12, <1>13, <1>14, <1>15 DEF Local

------------------------------------------------------------------------------
(* The queue after each step. *)

\* What is asked is new, and is about a document of the process.
Fresh(r, asked) ==
    Len(asked) = 1 =>
        /\ ~asked[1].done
        /\ asked[1].kind = "save" => asked[1].live \in Of(r)' /\ (asked[1].why = "close" => relay'.closed[r])

\* The first statement is a lookup and is over; another one is asked for.
Found(r, c) == c = 1 /\ Lookup(db[r][1])
Looks(asked) == Len(asked) = 1 /\ Lookup(asked[1])
Searches(r, c, asked) ==
    /\ Looks(asked) => relay.building[r] # Seeding \/ Found(r, c)
    /\ relay'.building[r] = Seeding <=> (relay.building[r] = Seeding /\ ~Found(r, c)) \/ Looks(asked)

LEMMA TurnedIs ==
    ASSUME TypeInd, NEW r, NEW c, NEW asked, NEW t, Runs(r, c, asked, t)
    PROVE  LET q == db[r]
               z == db'[r]
           IN  /\ q \in Seq(Statements) /\ z \in Seq(Statements) /\ c \in {0, 1} /\ (c = 1 => Len(q) > 0)
               /\ DOMAIN q = 1 .. Len(q) /\ Len(q) \in Nat /\ DOMAIN z = 1 .. Len(z) /\ Len(z) \in Nat
               /\ Len(asked) \in {0, 1} /\ Len(z) = (Len(q) - c) + Len(asked)
               /\ \A i \in 1 .. Len(q) - c : i \in DOMAIN z /\ i + c \in DOMAIN q /\ z[i] = q[i + c]
               /\ \A i \in DOMAIN z : i \in 1 .. Len(q) - c \/ (i = Len(z) /\ Len(asked) = 1 /\ z[i] = asked[1])
               /\ Len(asked) = 1 => Len(z) \in DOMAIN z /\ z[Len(z)] = asked[1]
<1>1. TurnedTo(db[r], c, asked, db'[r])
  BY RunsQueue
<1>2. db[r] \in Seq(Statements) /\ Len(asked) \in {0, 1} /\ c \in {0, 1} /\ (c = 1 => db[r] # <<>>)
  BY RelayIs DEF Runs, Queues
<1> QED BY <1>1, <1>2 DEF TurnedTo

LEMMA QueueTurns ==
    ASSUME TypeInd, NEW r \in Replicas, QueueInd(r), NEW c, NEW asked, NEW t, Runs(r, c, asked, t),
           Of(r) \subseteq Of(r)', relay.closed[r] => relay'.closed[r], Fresh(r, asked), Searches(r, c, asked)
    PROVE  QueueInd(r)'
<1>0. PICK q : q = db[r]
  OBVIOUS
<1>00. PICK z : z = db'[r]
  OBVIOUS
<1>1. /\ q \in Seq(Statements) /\ z \in Seq(Statements) /\ c \in {0, 1} /\ (c = 1 => Len(q) > 0)
      /\ DOMAIN q = 1 .. Len(q) /\ Len(q) \in Nat /\ DOMAIN z = 1 .. Len(z) /\ Len(z) \in Nat
      /\ Len(asked) \in {0, 1} /\ Len(z) = (Len(q) - c) + Len(asked)
      /\ \A i \in 1 .. Len(q) - c : i \in DOMAIN z /\ i + c \in DOMAIN q /\ z[i] = q[i + c]
      /\ \A i \in DOMAIN z : i \in 1 .. Len(q) - c \/ (i = Len(z) /\ Len(asked) = 1 /\ z[i] = asked[1])
      /\ Len(asked) = 1 => Len(z) \in DOMAIN z /\ z[Len(z)] = asked[1]
  BY <1>0, <1>00, TurnedIs
<1>2. /\ \A i \in DOMAIN q : i # 1 => ~q[i].done
      /\ relay.building[r] = Seeding <=> \E i \in DOMAIN q : Lookup(q[i])
      /\ \A i, j \in DOMAIN q : Lookup(q[i]) /\ Lookup(q[j]) => i = j
      /\ \A i \in DOMAIN q : q[i].kind = "save" =>
            q[i].live \in Of(r) /\ (q[i].why = "close" => relay.closed[r])
  BY <1>0 DEF QueueInd
<1>3. \A i \in DOMAIN z : i # 1 => ~z[i].done
  <2> SUFFICES ASSUME NEW i \in DOMAIN z, i # 1 PROVE ~z[i].done
    OBVIOUS
  <2>1. CASE i \in 1 .. Len(q) - c
    <3>1. z[i] = q[i + c] /\ i + c \in DOMAIN q
      BY <1>1, <2>1
    <3>2. i + c # 1
      <4>1. i \in Nat /\ i > 1 /\ c \in Nat
        BY <1>1, <2>1
      <4> QED BY <4>1
    <3> QED BY <1>2, <3>1, <3>2
  <2>2. CASE Len(asked) = 1 /\ z[i] = asked[1]
    BY <2>2 DEF Fresh
  <2> QED BY <1>1, <2>1, <2>2
<1>4. \A i \in DOMAIN z : z[i].kind = "save" =>
            z[i].live \in Of(r)' /\ (z[i].why = "close" => relay'.closed[r])
  <2> SUFFICES ASSUME NEW i \in DOMAIN z, z[i].kind = "save"
               PROVE  z[i].live \in Of(r)' /\ (z[i].why = "close" => relay'.closed[r])
    OBVIOUS
  <2>1. CASE i \in 1 .. Len(q) - c
    <3>1. z[i] = q[i + c] /\ i + c \in DOMAIN q
      BY <1>1, <2>1
    <3> QED BY <1>2, <3>1
  <2>2. CASE Len(asked) = 1 /\ z[i] = asked[1]
    BY <2>2 DEF Fresh
  <2> QED BY <1>1, <2>1, <2>2
<1>5. Found(r, c) <=> c = 1 /\ Lookup(q[1])
  BY <1>0 DEF Found
<1>6. ASSUME NEW i \in 1 .. Len(q) - c, Lookup(z[i])
      PROVE  relay.building[r] = Seeding /\ ~Found(r, c) /\ ~Looks(asked) /\ i + c \in DOMAIN q /\ Lookup(q[i + c])
  <2>1. z[i] = q[i + c] /\ i + c \in DOMAIN q /\ (c = 1 => i + c # 1 /\ 1 \in DOMAIN q)
    BY <1>1
  <2>2. relay.building[r] = Seeding
    BY <1>2, <1>6, <2>1
  <2>3. ~Found(r, c)
    BY <1>2, <1>5, <1>6, <2>1
  <2> QED BY <1>6, <2>1, <2>2, <2>3 DEF Searches
<1>7. ASSUME NEW i \in DOMAIN z, Lookup(z[i]), i \notin 1 .. Len(q) - c
      PROVE  i = Len(z) /\ Looks(asked)
  BY <1>1, <1>7 DEF Looks
<1>8. relay'.building[r] = Seeding <=> \E i \in DOMAIN z : Lookup(z[i])
  <2>1. ASSUME NEW i \in DOMAIN z, Lookup(z[i]) PROVE relay'.building[r] = Seeding
    BY <1>6, <1>7, <2>1 DEF Searches
  <2>2. ASSUME Looks(asked) PROVE \E i \in DOMAIN z : Lookup(z[i])
    BY <1>1, <2>2 DEF Looks
  <2>3. ASSUME relay.building[r] = Seeding, ~Found(r, c) PROVE \E i \in DOMAIN z : Lookup(z[i])
    <3>1. PICK j \in DOMAIN q : Lookup(q[j])
      BY <1>2, <2>3
    <3>2. j - c \in 1 .. Len(q) - c
      <4>1. c = 1 => j # 1
        BY <1>5, <2>3, <3>1
      <4> QED BY <1>1, <4>1
    <3>3. j - c \in DOMAIN z /\ z[j - c] = q[(j - c) + c]
      BY <1>1, <3>2
    <3>4. (j - c) + c = j
      BY <1>1
    <3> QED BY <3>1, <3>3, <3>4
  <2> QED BY <2>1, <2>2, <2>3 DEF Searches
<1>9. \A i, j \in DOMAIN z : Lookup(z[i]) /\ Lookup(z[j]) => i = j
  <2> SUFFICES ASSUME NEW i \in DOMAIN z, NEW j \in DOMAIN z, Lookup(z[i]), Lookup(z[j]) PROVE i = j
    OBVIOUS
  <2>1. CASE i \in 1 .. Len(q) - c /\ j \in 1 .. Len(q) - c
    <3>1. i + c = j + c
      BY <1>2, <1>6, <2>1
    <3> QED BY <1>1, <3>1
  <2>2. CASE i \in 1 .. Len(q) - c /\ j \notin 1 .. Len(q) - c
    BY <1>6, <1>7, <2>2
  <2>3. CASE i \notin 1 .. Len(q) - c /\ j \in 1 .. Len(q) - c
    BY <1>6, <1>7, <2>3
  <2>4. CASE i \notin 1 .. Len(q) - c /\ j \notin 1 .. Len(q) - c
    BY <1>7, <2>4
  <2> QED BY <2>1, <2>2, <2>3, <2>4
<1> QED BY <1>00, <1>3, <1>4, <1>8, <1>9 DEF QueueInd

LEMMA SeedingIsNone ==
    ASSUME TypeInd, MapsInd
    PROVE  Seeding \notin DOMAIN relay.lives /\ None # Seeding /\ None \notin DOMAIN relay.lives
<1>1. DOMAIN relay.lives = 1 .. Len(relay.lives) /\ Len(relay.lives) \in Nat
  BY RelayIs, RelayFields
<1>2. Len(relay.lives) <= MaxBuilds
  BY <1>1, SeedersAre, DeploymentsAssumption DEF MapsInd, RoomInd
<1> QED BY <1>1, <1>2, DeploymentsAssumption DEF None, Seeding

\* A step of r that keeps what it keeps.
Grows(r) == Of(r) \subseteq Of(r)' /\ (relay.closed[r] => relay'.closed[r])

LEMMA ElsewhereGrows ==
    ASSUME NEW r, Elsewhere(r), relay.closed[r] => relay'.closed[r]
    PROVE  Grows(r)
BY DEF Elsewhere, Grows, Of

LEMMA QueueNothing ==
    ASSUME TypeInd, NEW r \in Replicas, QueueInd(r), NEW t, Runs(r, 0, <<>>, t), Grows(r),
           relay'.building[r] = Seeding <=> relay.building[r] = Seeding
    PROVE  QueueInd(r)'
<1>1. Len(<<>>) = 0
  BY NoStatement
<1>2. Fresh(r, <<>>) /\ Searches(r, 0, <<>>)
  BY <1>1 DEF Fresh, Searches, Looks, Found
<1> QED BY <1>2, QueueTurns DEF Grows

LEMMA QueueAnswered ==
    ASSUME TypeInd, NEW r \in Replicas, QueueInd(r), NEW t, Runs(r, 1, <<>>, t), Grows(r),
           relay'.building[r] = Seeding <=> (relay.building[r] = Seeding /\ ~Lookup(Head(db[r])))
    PROVE  QueueInd(r)'
<1>1. Len(<<>>) = 0
  BY NoStatement
<1>2. Head(db[r]) = db[r][1]
  BY HeadOf
<1>3. Fresh(r, <<>>) /\ Searches(r, 1, <<>>)
  BY <1>1, <1>2 DEF Fresh, Searches, Looks, Found
<1> QED BY <1>3, QueueTurns DEF Grows

LEMMA QueueAsked ==
    ASSUME TypeInd, NEW r \in Replicas, QueueInd(r), NEW st \in Statements, NEW t, Runs(r, 0, <<st>>, t), Grows(r),
           ~st.done, ~Lookup(st), st.kind = "save" => st.live \in Of(r)' /\ (st.why = "close" => relay'.closed[r]),
           relay'.building[r] = Seeding <=> relay.building[r] = Seeding
    PROVE  QueueInd(r)'
<1>1. Len(<<st>>) = 1 /\ <<st>>[1] = st
  BY OneStatement
<1>2. Fresh(r, <<st>>) /\ Searches(r, 0, <<st>>)
  BY <1>1 DEF Fresh, Searches, Looks, Found
<1> QED BY <1>2, QueueTurns DEF Grows

LEMMA QueueLooked ==
    ASSUME TypeInd, NEW r \in Replicas, QueueInd(r), NEW c \in {0, 1}, NEW st \in Statements, NEW t,
           Runs(r, c, <<st>>, t), Grows(r), ~st.done, Lookup(st), st.kind # "save",
           relay.building[r] # Seeding \/ Found(r, c), relay'.building[r] = Seeding
    PROVE  QueueInd(r)'
<1>1. Len(<<st>>) = 1 /\ <<st>>[1] = st
  BY OneStatement
<1>2. Fresh(r, <<st>>) /\ Searches(r, c, <<st>>)
  BY <1>1 DEF Fresh, Searches, Looks
<1> QED BY <1>2, QueueTurns DEF Grows

\* What the statements that are asked are.
LEMMA AskedIs ==
    /\ LoadSession.kind = "load" /\ ~LoadSession.done /\ Lookup(LoadSession)
    /\ LatestVersion.kind = "latest" /\ ~LatestVersion.done /\ Lookup(LatestVersion)
    /\ \A b \in BOOLEAN : /\ DropSession(b).kind = "drop" /\ ~DropSession(b).done /\ DropSession(b).reseed = b
                          /\ Lookup(DropSession(b)) = b
    /\ \A c, b : /\ AppendVersion(c, b).kind = "append" /\ ~AppendVersion(c, b).done /\ AppendVersion(c, b).circuit = c
                 /\ ~Lookup(AppendVersion(c, b))
    /\ \A n, doc, why : /\ SaveSession(n, doc, why).kind = "save" /\ ~SaveSession(n, doc, why).done
                        /\ SaveSession(n, doc, why).live = n /\ SaveSession(n, doc, why).doc = doc
                        /\ SaveSession(n, doc, why).why = why /\ ~Lookup(SaveSession(n, doc, why))
BY DEF LoadSession, LatestVersion, DropSession, AppendVersion, SaveSession, Lookup

\* A document of r saves.
LEMMA QueueSaves ==
    ASSUME TypeInd, NEW r \in Replicas, QueueInd(r), NEW n \in Of(r), NEW why \in {"timer", "leave", "close"},
           NEW t, Runs(r, 0, <<SaveSession(n, relay.lives[n].doc, why)>>, t), Grows(r),
           why = "close" => relay'.closed[r], relay'.building[r] = Seeding <=> relay.building[r] = Seeding
    PROVE  QueueInd(r)'
<1>1. n \in Nat /\ n \in DOMAIN relay.lives /\ relay.lives[n] \in Lives /\ n \in Of(r)'
  BY RelayIs, RelayFields DEF Of, Grows
<1>2. SaveSession(n, relay.lives[n].doc, why) \in Statements
  BY <1>1, LiveFields, SaveIsStatement
<1>3. PICK st : st = SaveSession(n, relay.lives[n].doc, why)
  OBVIOUS
<1>4. st.kind = "save" /\ ~st.done /\ st.live = n /\ st.why = why /\ ~Lookup(st) /\ st \in Statements
  BY <1>2, <1>3, AskedIs
<1>5. Runs(r, 0, <<st>>, t)
  BY <1>3
<1> QED BY <1>1, <1>4, <1>5, QueueAsked

LEMMA FoundHead ==
    ASSUME TypeInd, NEW r, NEW asked, NEW t, Runs(r, 1, asked, t), QueueInd(r), Lookup(Head(db[r]))
    PROVE  Found(r, 1) /\ relay.building[r] = Seeding
<1>1. Head(db[r]) = db[r][1] /\ 1 \in DOMAIN db[r]
  BY HeadOf
<1> QED BY <1>1 DEF Found, QueueInd

\* Idle steps keep the queue.
LEMMA RestsQueue ==
    ASSUME TypeInd, MapsInd, NEW r \in Replicas, QueueInd(r), Rests(r), Elsewhere(r)
    PROVE  QueueInd(r)'
<1> DEFINE d == relay.documents[r]
           b == relay.building[r]
           k == relay.closed[r]
<1>1. None # Seeding
  BY SeedingIsNone
<1>2. ASSUME NEW x, NEW y, NEW z, Idles(r, x, y, z)
      PROVE  relay'.building[r] = y /\ relay'.closed[r] = z
  BY <1>2 DEF Idles, View
<1>3. ASSUME NEW p, Awaits(p, r) PROVE QueueInd(r)'
  <2>1. Idles(r, d, b, FALSE) /\ relay.closed[r] = FALSE /\ Runs(r, 0, <<>>, relay)
    BY <1>3, AwaitIdles DEF Awaits
  <2>2. Grows(r)
    BY <1>2, <2>1, ElsewhereGrows
  <2> QED BY <1>2, <2>1, <2>2, QueueNothing
<1>4. ASSUME NEW n, NEW t, Opens(n, r, t) \/ GoesWithout(n, r, t) PROVE QueueInd(r)'
  <2>1. Idles(r, d, b, k) /\ Runs(r, 0, <<>>, t)
    BY <1>4, OpensIdles, GoesWithoutIdles DEF Opens, GoesWithout
  <2>2. Grows(r)
    BY <1>2, <2>1, ElsewhereGrows
  <2> QED BY <1>2, <2>1, <2>2, QueueNothing
<1>5. ASSUME NEW n, NEW t, LetsGo(r, n, t) PROVE QueueInd(r)'
  <2>1. Idles(r, None, b, k) /\ Runs(r, 1, <<>>, t) /\ Head(db[r]).kind = "save"
    BY <1>5, LetsGoIdles DEF LetsGo
  <2>2. Grows(r)
    BY <1>2, <2>1, ElsewhereGrows
  <2>3. ~Lookup(Head(db[r]))
    BY <2>1 DEF Lookup
  <2> QED BY <1>2, <2>1, <2>2, <2>3, QueueAnswered
<1>6. ASSUME NEW m, NEW s, Ignores(r, m, s) \/ \E t : Merges(r, m, s, t) \/ Answers(r, m, s, t)
      PROVE  QueueInd(r)'
  <2>1. Idles(r, d, b, k) /\ \E t : Runs(r, 0, <<>>, t)
    BY <1>6, PoppedIdles, MergesIdles, AnswersIdles DEF Ignores, Merges, Answers
  <2>2. Grows(r)
    BY <1>2, <2>1, ElsewhereGrows
  <2> QED BY <1>2, <2>1, <2>2, QueueNothing
<1>7. ASSUME NEW t, Refuses(r, t) \/ Stops(r, t) PROVE QueueInd(r)'
  <2>1. Idles(r, d, None, k) /\ Runs(r, 1, <<>>, t) /\ Lookup(Head(db[r]))
    BY <1>7, RefusesIdles, StopsIdles DEF Refuses, Stops
  <2>2. Grows(r)
    BY <1>2, <2>1, ElsewhereGrows
  <2> QED BY <1>1, <1>2, <2>1, <2>2, QueueAnswered
<1>8. ASSUME NEW t, NEW circuit, Tells(r, circuit, t) PROVE QueueInd(r)'
  <2>1. Idles(r, d, b, k) /\ Runs(r, 1, <<>>, t) /\ ~Lookup(Head(db[r]))
    BY <1>8, TellsIdles DEF Tells, Lookup
  <2>2. Grows(r)
    BY <1>2, <2>1, ElsewhereGrows
  <2> QED BY <1>2, <2>1, <2>2, QueueAnswered
<1>9. ASSUME LooksOn(r) \/ Discards(r) PROVE QueueInd(r)'
  <2>1. PICK st \in Statements : /\ Runs(r, 1, <<st>>, relay) /\ ~st.done /\ Lookup(st) /\ st.kind # "save"
                                 /\ Lookup(Head(db[r])) /\ peers' = peers
    BY <1>9, AskedIs, AskedIsStatement DEF LooksOn, Discards
  <2>2. Idles(r, d, b, k)
    BY <2>1, StillIdles
  <2>3. Grows(r)
    BY <1>2, <2>2, ElsewhereGrows
  <2>4. Found(r, 1) /\ relay.building[r] = Seeding
    BY <2>1, FoundHead
  <2> QED BY <1>2, <2>1, <2>2, <2>3, <2>4, QueueLooked
<1>10. ASSUME IsOver(r) PROVE QueueInd(r)'
  <2>1. Idles(r, d, b, k) /\ Runs(r, 1, <<>>, relay) /\ ~Lookup(Head(db[r]))
    BY <1>10, StillIdles DEF IsOver
  <2>2. Grows(r)
    BY <1>2, <2>1, ElsewhereGrows
  <2> QED BY <1>2, <2>1, <2>2, QueueAnswered
<1>11. ASSUME NEW circuit, NEW restore, AsksVersion(r, circuit, restore) PROVE QueueInd(r)'
  <2>1. PICK st \in Statements : /\ Runs(r, 0, <<st>>, relay) /\ ~st.done /\ ~Lookup(st) /\ st.kind # "save"
                                 /\ peers' = peers
    BY <1>11, AskedIs, AskedIsStatement DEF AsksVersion
  <2>2. Idles(r, d, b, k)
    BY <2>1, StillIdles
  <2>3. Grows(r)
    BY <1>2, <2>2, ElsewhereGrows
  <2> QED BY <1>2, <2>1, <2>2, <2>3, QueueAsked
<1>12. ASSUME NEW s, ClosesNone(r, s) PROVE QueueInd(r)'
  <2>1. Idles(r, None, b, TRUE) /\ Runs(r, 0, <<>>, s)
    BY <1>12, ClosesNoneIdles DEF ClosesNone
  <2>2. Grows(r)
    BY <1>2, <2>1, ElsewhereGrows
  <2> QED BY <1>2, <2>1, <2>2, QueueNothing
<1> QED BY <1>3, <1>4, <1>5, <1>6, <1>7, <1>8, <1>9, <1>10, <1>11, <1>12 DEF Rests

LEMMA LocalQueue ==
    ASSUME TypeInd, MapsInd, NEW r \in Replicas, QueueInd(r), Local(r), Elsewhere(r)
    PROVE  QueueInd(r)'
<1> DEFINE d == relay.documents[r]
           b == relay.building[r]
           k == relay.closed[r]
<1>1. None # Seeding
  BY SeedingIsNone
<1>2. ASSUME NEW x, NEW y, NEW z, View(r, x, y, z), z = k \/ k = FALSE
      PROVE  relay'.building[r] = y /\ relay'.closed[r] = z /\ Grows(r)
  <2>1. relay'.building[r] = y /\ relay'.closed[r] = z
    BY <1>2 DEF View
  <2>2. k \in BOOLEAN
    BY RelayIs, RelayFields
  <2> QED BY <1>2, <2>1, <2>2, ElsewhereGrows
<1>3. CASE Rests(r)
  BY <1>3, RestsQueue
<1>4. ASSUME NEW p, NEW n, NEW t, Attaches(p, r, n, t) PROVE QueueInd(r)'
  <2>1. View(r, n, b, FALSE) /\ ~relay.closed[r] /\ Runs(r, 0, <<>>, t)
    BY <1>4, AttachIs DEF Attaches
  <2>2. relay.closed[r] = FALSE
    BY <2>1, RelayIs, RelayFields
  <2> QED BY <1>2, <2>1, <2>2, QueueNothing
<1>5. ASSUME NEW p, NEW t, Seeds(p, r, t) PROVE QueueInd(r)'
  <2>1. /\ Idles(r, None, Seeding, FALSE) /\ relay.building[r] = None /\ relay.closed[r] = FALSE
        /\ Runs(r, 0, <<LoadSession>>, t)
    BY <1>5, SeedsIs DEF Seeds
  <2>2. View(r, None, Seeding, FALSE)
    BY <2>1 DEF Idles
  <2>3. PICK st \in Statements : Runs(r, 0, <<st>>, t) /\ ~st.done /\ Lookup(st) /\ st.kind # "save"
    BY <2>1, AskedIs, AskedIsStatement
  <2> QED BY <1>1, <1>2, <2>1, <2>2, <2>3, QueueLooked
<1>6. ASSUME NEW p, NEW n, NEW t, LeavesOthers(p, r, n, t) PROVE QueueInd(r)'
  <2>1. View(r, d, b, k) /\ Runs(r, 0, <<>>, t)
    BY <1>6, LeavesOthersIs DEF LeavesOthers
  <2> QED BY <1>2, <2>1, QueueNothing
<1>7. ASSUME NEW p, NEW n, NEW t, LeavesSaving(p, r, n, t) PROVE QueueInd(r)'
  <2>1. View(r, d, b, k) /\ n \in Of(r) /\ Runs(r, 0, <<SaveSession(n, relay.lives[n].doc, "leave")>>, t)
    BY <1>7, LeavesSavingIs DEF LeavesSaving
  <2> QED BY <1>2, <2>1, QueueSaves
<1>8. ASSUME NEW p, NEW n, NEW t, LeavesAtOnce(p, r, n, t) PROVE QueueInd(r)'
  <2>1. View(r, None, b, k) /\ Runs(r, 0, <<>>, t)
    BY <1>8, LeavesAtOnceIs DEF LeavesAtOnce
  <2> QED BY <1>2, <2>1, QueueNothing
<1>9. ASSUME NEW n, NEW t, Fires(n, r, t) PROVE QueueInd(r)'
  <2>1. View(r, d, b, k) /\ n \in Of(r) /\ Runs(r, 0, <<SaveSession(n, relay.lives[n].doc, "timer")>>, t)
    BY <1>9, FiresIs DEF Fires
  <2> QED BY <1>2, <2>1, QueueSaves
<1>10. ASSUME NEW n, NEW t, NEW p, NEW edit, Integrates(p, r, n, edit, t) PROVE QueueInd(r)'
  <2>1. View(r, d, b, k) /\ Runs(r, 0, <<>>, t)
    BY <1>10, IntegratesIs DEF Integrates
  <2> QED BY <1>2, <2>1, QueueNothing
<1>11. ASSUME NEW n, NEW t, NEW circuit, Settles(r, n, circuit, t) PROVE QueueInd(r)'
  <2>1. View(r, d, b, k) /\ Runs(r, 1, <<>>, t) /\ ~Lookup(Head(db[r]))
    BY <1>11, SettlesIs DEF Settles, Lookup
  <2> QED BY <1>2, <2>1, QueueAnswered
<1>12. ASSUME NEW n, NEW t, NEW s, ClosesSaving(r, n, s, t) PROVE QueueInd(r)'
  <2>1. /\ View(r, None, b, TRUE) /\ n \in Of(r) /\ Runs(r, 0, <<SaveSession(n, relay.lives[n].doc, "close")>>, t)
        /\ relay.closed[r] = FALSE
    BY <1>12, ClosesSavingIs DEF ClosesSaving
  <2> QED BY <1>2, <2>1, QueueSaves
<1>13. ASSUME NEW n, NEW t, EndsBuild(r, n, t) PROVE QueueInd(r)'
  <2>1. View(r, d, None, k) /\ n \in Of(r) /\ Runs(r, 0, <<>>, t) /\ n = relay.building[r] /\ n \in DOMAIN relay.lives
    BY <1>13, EndsBuildIs DEF EndsBuild
  <2>2. relay.building[r] # Seeding
    BY <2>1, SeedingIsNone
  <2> QED BY <1>1, <1>2, <2>1, <2>2, QueueNothing
<1>14. ASSUME NEW t, NEW m, NEW s, IsTold(r, m, s, t) PROVE QueueInd(r)'
  <2>1. Runs(r, 0, <<>>, t) /\ \E x : View(r, x, b, k)
    BY <1>14, IsToldIs DEF IsTold
  <2> QED BY <1>2, <2>1, QueueNothing
<1>15. ASSUME NEW t, NEW n, Finishes(r, n, t) PROVE QueueInd(r)'
  <2>1. View(r, None, b, k) /\ Runs(r, 1, <<>>, t) /\ ~Lookup(Head(db[r]))
    BY <1>15, FinishesIs DEF Finishes, Lookup
  <2> QED BY <1>2, <2>1, QueueAnswered
<1>16. ASSUME NEW t, NEW p, NEW n, Overgrows(p, r, n, t) PROVE QueueInd(r)'
  <2>1. View(r, None, b, k) /\ Runs(r, 0, <<DropSession(FALSE)>>, t)
    BY <1>16, OvergrowsIs DEF Overgrows
  <2>2. PICK st \in Statements : Runs(r, 0, <<st>>, t) /\ ~st.done /\ ~Lookup(st) /\ st.kind # "save"
    BY <2>1, AskedIs, AskedIsStatement
  <2> QED BY <1>2, <2>1, <2>2, QueueAsked
<1>17. ASSUME NEW t, NEW n, NEW s, ClosesSaved(r, n, s, t) PROVE QueueInd(r)'
  <2>1. View(r, None, b, TRUE) /\ Runs(r, 0, <<>>, t) /\ relay.closed[r] = FALSE
    BY <1>17, ClosesSavedIs DEF ClosesSaved
  <2> QED BY <1>2, <2>1, QueueNothing
<1>18. ASSUME NEW doc, NEW t, SetsUp(r, doc, t) PROVE QueueInd(r)'
  <2>1. PICK n : n = Len(relay.lives) + 1
    OBVIOUS
  <2>2. View(r, n, n, FALSE) /\ n \in DOMAIN relay'.lives
    BY <1>18, <2>1, SetsUpIs
  <2>3. Runs(r, 1, <<>>, t) /\ Lookup(Head(db[r])) /\ ~relay.closed[r]
    BY <1>18 DEF SetsUp
  <2>4. relay.closed[r] = FALSE
    BY <2>3, RelayIs, RelayFields
  <2>5. n # Seeding
    <3>1. Found(r, 1) /\ relay.building[r] = Seeding
      BY <2>3, FoundHead
    <3>2. Seeders # {}
      BY <3>1 DEF Seeders
    <3>3. Len(relay.lives) + Cardinality(Seeders) <= MaxBuilds /\ Cardinality(Seeders) # 0
      BY <3>2, SeedersAre, FS_EmptySet DEF MapsInd, RoomInd
    <3>4. Len(relay.lives) \in Nat
      BY RelayIs, RelayFields
    <3> QED BY <2>1, <3>3, <3>4, SeedersAre, DeploymentsAssumption DEF Seeding
  <2> QED BY <1>2, <2>2, <2>3, <2>4, <2>5, QueueAnswered
<1>19. ASSUME Dies(r) PROVE QueueInd(r)'
  <2>1. View(r, None, None, FALSE) /\ db'[r] = <<>>
    BY <1>19, DiesIs
  <2>2. DOMAIN db'[r] = {}
    BY <2>1
  <2> QED BY <1>1, <2>1, <2>2 DEF QueueInd, View
<1> QED BY <1>3, <1>4, <1>5, <1>6, <1>7, <1>8, <1>9, <1>10, <1>11, <1>12, <1>13, <1>14, <1>15, <1>16, <1>17, <1>18,
           <1>19 DEF Local

------------------------------------------------------------------------------
(* The types after each step. *)

LEMMA LocalRuns ==
    ASSUME NEW r, Local(r)
    PROVE  Dies(r) \/ \E c, asked, t : Runs(r, c, asked, t)
<1>1. Rests(r) => \E c, asked, t : Runs(r, c, asked, t)
  BY DEF Rests, Awaits, Opens, GoesWithout, LetsGo, Ignores, Merges, Answers, Refuses, Stops, Tells, LooksOn,
         Discards, IsOver, AsksVersion, ClosesNone
<1> QED BY <1>1 DEF Local, Attaches, Seeds, LeavesOthers, LeavesSaving, LeavesAtOnce, Fires, Integrates, Settles,
                    ClosesSaving, EndsBuild, IsTold, Finishes, Overgrows, ClosesSaved, SetsUp

\* Where the sockets are.
LEMMA PlacesTyped ==
    ASSUME TypeInd, NEW r \in Replicas,
           \/ peers' = peers
           \/ \E who : peers' = Leave(who)
           \/ \E p \in Peers, x \in Places : peers' = [peers EXCEPT ![p] = x]
    PROVE  peers' \in [Peers -> Places]
<1>1. peers \in [Peers -> Places]
  BY RelayIs
<1>2. ASSUME NEW who, peers' = Leave(who) PROVE peers' \in [Peers -> Places]
  <2>1. \A p \in Peers : [peers[p] EXCEPT !.at = "nowhere", !.live = None] \in Places
    BY <1>1 DEF Places, None
  <2> QED BY <1>1, <1>2, <2>1 DEF Leave
<1> QED BY <1>1, <1>2

LEMMA PlaceIs ==
    ASSUME NEW r \in Replicas, NEW n \in Nat
    PROVE  /\ [at |-> "in", replica |-> r, live |-> n] \in Places
           /\ [at |-> "waiting", replica |-> r, live |-> None] \in Places
BY DEF Places, None

LEMMA RestsPlaces ==
    ASSUME TypeInd, NEW r \in Replicas, Rests(r)
    PROVE  peers' \in [Peers -> Places]
<1>1. ASSUME NEW p, Awaits(p, r) PROVE peers' \in [Peers -> Places]
  <2>1. p \in Peers /\ peers' = [peers EXCEPT ![p] = [at |-> "waiting", replica |-> r, live |-> None]]
    BY <1>1 DEF Awaits, WaitsAt
  <2> QED BY <2>1, PlaceIs, PlacesTyped DEF None
<1>2. ASSUME NEW n, NEW t, Opens(n, r, t) \/ GoesWithout(n, r, t) \/ LetsGo(r, n, t) PROVE peers' \in [Peers -> Places]
  BY <1>2, PlacesTyped DEF Opens, GoesWithout, LetsGo
<1>3. ASSUME NEW m, NEW s, Ignores(r, m, s) \/ \E t : Merges(r, m, s, t) \/ Answers(r, m, s, t)
      PROVE  peers' \in [Peers -> Places]
  BY <1>3, PlacesTyped DEF Ignores, Merges, Answers
<1>4. ASSUME NEW t, Refuses(r, t) \/ Stops(r, t) \/ \E circuit : Tells(r, circuit, t) PROVE peers' \in [Peers -> Places]
  BY <1>4, PlacesTyped DEF Refuses, Stops, Tells
<1>5. ASSUME LooksOn(r) \/ Discards(r) \/ IsOver(r) \/ \E circuit, restore : AsksVersion(r, circuit, restore)
      PROVE  peers' \in [Peers -> Places]
  BY <1>5, PlacesTyped DEF LooksOn, Discards, IsOver, AsksVersion
<1>6. ASSUME NEW s, ClosesNone(r, s) PROVE peers' \in [Peers -> Places]
  BY <1>6, PlacesTyped DEF ClosesNone
<1> QED BY <1>1, <1>2, <1>3, <1>4, <1>5, <1>6 DEF Rests

LEMMA LocalPlaces ==
    ASSUME TypeInd, MapsInd, NEW r \in Replicas, Local(r)
    PROVE  peers' \in [Peers -> Places]
<1>1. CASE Rests(r)
  BY <1>1, RestsPlaces
<1>2. ASSUME NEW p, NEW n, NEW t, Attaches(p, r, n, t) PROVE peers' \in [Peers -> Places]
  <2>1. p \in Peers /\ peers' = [peers EXCEPT ![p] = [at |-> "in", replica |-> r, live |-> n]] /\ n \in Nat
    BY <1>2, RelayIs, RelayFields DEF Attaches, Enters
  <2> QED BY <2>1, PlaceIs, PlacesTyped
<1>3. ASSUME NEW p, NEW t, Seeds(p, r, t) PROVE peers' \in [Peers -> Places]
  <2>1. p \in Peers /\ peers' = [peers EXCEPT ![p] = [at |-> "waiting", replica |-> r, live |-> None]]
    BY <1>3 DEF Seeds, WaitsAt
  <2> QED BY <2>1, PlaceIs, PlacesTyped DEF None
<1>4. ASSUME NEW p, NEW n, NEW t, LeavesOthers(p, r, n, t) \/ LeavesSaving(p, r, n, t) \/ LeavesAtOnce(p, r, n, t)
      PROVE  peers' \in [Peers -> Places]
  BY <1>4, PlacesTyped DEF LeavesOthers, LeavesSaving, LeavesAtOnce, Exits
<1>5. ASSUME NEW n, NEW t, \/ Fires(n, r, t) \/ (\E p, edit : Integrates(p, r, n, edit, t))
                           \/ (\E circuit : Settles(r, n, circuit, t)) \/ (\E s : ClosesSaving(r, n, s, t))
      PROVE  peers' \in [Peers -> Places]
  BY <1>5, PlacesTyped DEF Fires, Integrates, Settles, ClosesSaving
<1>6. ASSUME NEW n, NEW t, EndsBuild(r, n, t) PROVE peers' \in [Peers -> Places]
  <2> DEFINE served == relay.documents[r] = n /\ ~relay.lives[n].dropping
  <2>1. n \in Nat /\ peers \in [Peers -> Places]
    BY <1>6, RelayIs, RelayFields DEF EndsBuild
  <2>2. peers' = [p \in Peers |->
              IF p \notin Waiting(r) THEN peers[p]
              ELSE IF served THEN [at |-> "in", replica |-> r, live |-> n]
              ELSE [peers[p] EXCEPT !.at = "nowhere"]]
    BY <1>6 DEF EndsBuild
  <2>3. [at |-> "in", replica |-> r, live |-> n] \in Places
    BY <2>1, PlaceIs
  <2>4. \A p \in Peers : [peers[p] EXCEPT !.at = "nowhere"] \in Places
    BY <2>1 DEF Places
  <2> HIDE DEF served
  <2> QED BY <2>1, <2>2, <2>3, <2>4
<1>7. ASSUME NEW t, \/ (\E m, s : IsTold(r, m, s, t)) \/ (\E n : Finishes(r, n, t)) \/ (\E p, n : Overgrows(p, r, n, t))
                    \/ (\E n, s : ClosesSaved(r, n, s, t))
      PROVE  peers' \in [Peers -> Places]
  BY <1>7, PlacesTyped DEF IsTold, Finishes, Overgrows, ClosesSaved
<1>8. ASSUME NEW doc, NEW t, SetsUp(r, doc, t) PROVE peers' \in [Peers -> Places]
  BY <1>8, PlacesTyped DEF SetsUp
<1>9. ASSUME Dies(r) PROVE peers' \in [Peers -> Places]
  BY <1>9, PlacesTyped DEF Dies
<1> QED BY <1>1, <1>2, <1>3, <1>4, <1>5, <1>6, <1>7, <1>8, <1>9 DEF Local

LEMMA LocalTypes ==
    ASSUME TypeInd, MapsInd, NEW r \in Replicas, Local(r)
    PROVE  /\ relay' \in Relays /\ relay'.out = {} /\ relay'.db = [q \in Replicas |-> <<>>]
           /\ peers' \in [Peers -> Places] /\ db' \in Queues
<1>1. peers' \in [Peers -> Places]
  BY LocalPlaces
<1>2. ASSUME Dies(r) PROVE relay' \in Relays /\ relay'.out = {} /\ relay'.db = [q \in Replicas |-> <<>>] /\ db' \in Queues
  <2>1. db' \in Queues
    BY <1>2, DiesIs
  <2> QED BY <1>2, <2>1 DEF Dies, SameOut, SameAsks, TypeInd
<1>3. ASSUME NEW c, NEW asked, NEW t, Runs(r, c, asked, t)
      PROVE  relay' \in Relays /\ relay'.out = {} /\ relay'.db = [q \in Replicas |-> <<>>] /\ db' \in Queues
  BY <1>3, RunsQueue DEF Runs, Took
<1> QED BY <1>1, <1>2, <1>3, LocalRuns

------------------------------------------------------------------------------
(* What a step leaves in the inboxes: the process takes of its own, and the  *)
(* others get what it publishes.                                             *)

Carried(r, given) ==
    /\ \A i \in DOMAIN relay'.inbox[r] : \E j \in DOMAIN relay.inbox[r] : relay'.inbox[r][i] = relay.inbox[r][j]
    /\ \A q \in Replicas : q # r =>
          /\ \A i \in DOMAIN relay.inbox[q] : i \in DOMAIN relay'.inbox[q] /\ relay'.inbox[q][i] = relay.inbox[q][i]
          /\ \A i \in DOMAIN relay'.inbox[q] :
                relay'.inbox[q][i] \in given \/ (i \in DOMAIN relay.inbox[q] /\ relay'.inbox[q][i] = relay.inbox[q][i])
          /\ relay.channel[q] # "open" => relay'.inbox[q] = relay.inbox[q]
          /\ relay.channel[q] = "open" => \A m \in given : \E i \in DOMAIN relay'.inbox[q] : relay'.inbox[q][i] = m

\* An inbox of r that was not written to.
TakenFrom(r, box) ==
    box = relay.inbox[r] \/ (relay.inbox[r] # <<>> /\ box = Tail(relay.inbox[r])) \/ box = <<>>

LEMMA TakenHolds ==
    ASSUME TypeInd, NEW r \in Replicas, NEW box, TakenFrom(r, box)
    PROVE  \A i \in DOMAIN box : \E j \in DOMAIN relay.inbox[r] : box[i] = relay.inbox[r][j]
<1> DEFINE q == relay.inbox[r]
<1>1. q \in Seq(Messages)
  BY DEF TypeInd, Relays
<1>2. CASE box = q
  BY <1>2
<1>3. CASE q # <<>> /\ box = Tail(q)
  <2>1. q # <<>>
    BY <1>3
  <2> HIDE DEF q
  <2>2. \A i \in DOMAIN Tail(q) : i + 1 \in DOMAIN q /\ Tail(q)[i] = q[i + 1]
    BY <1>1, <2>1
  <2> QED BY <1>3, <2>2 DEF q
<1>4. CASE box = <<>>
  BY <1>4
<1> QED BY <1>2, <1>3, <1>4 DEF TakenFrom

LEMMA CarriedNone ==
    ASSUME TypeInd, NEW r \in Replicas, TakenFrom(r, relay'.inbox[r]),
           \A q \in Replicas : q # r => relay'.inbox[q] = relay.inbox[q]
    PROVE  Carried(r, {})
<1>2. PICK box : box = relay'.inbox[r]
  OBVIOUS
<1>3. TakenFrom(r, box)
  BY <1>2
<1>4. \A i \in DOMAIN box : \E j \in DOMAIN relay.inbox[r] : box[i] = relay.inbox[r][j]
  BY <1>3, TakenHolds
<1>1. \A i \in DOMAIN relay'.inbox[r] : \E j \in DOMAIN relay.inbox[r] : relay'.inbox[r][i] = relay.inbox[r][j]
  BY <1>2, <1>4
<1> QED BY <1>1 DEF Carried

LEMMA AppendHolds ==
    ASSUME NEW q \in Seq(Messages), NEW m \in Messages
    PROVE  /\ Append(q, m) \in Seq(Messages)
           /\ \A i \in DOMAIN q : i \in DOMAIN Append(q, m) /\ Append(q, m)[i] = q[i]
           /\ \A i \in DOMAIN Append(q, m) : Append(q, m)[i] = m \/ (i \in DOMAIN q /\ Append(q, m)[i] = q[i])
           /\ \E i \in DOMAIN Append(q, m) : Append(q, m)[i] = m
<1>1. Len(q) + 1 \in DOMAIN Append(q, m) /\ Append(q, m)[Len(q) + 1] = m
  OBVIOUS
<1> QED BY <1>1

\* What r publishes from s, where it is as it was to the others.
Outside(r, s) ==
    /\ TakenFrom(r, s.inbox[r])
    /\ \A q \in Replicas : q # r => s.inbox[q] = relay.inbox[q] /\ s.channel[q] = relay.channel[q]

LEMMA CarriedOne ==
    ASSUME TypeInd, NEW r \in Replicas, NEW s, Outside(r, s), NEW m \in Messages, relay'.inbox = Box(s, r, m)
    PROVE  Carried(r, {m})
<1>1. relay'.inbox[r] = s.inbox[r]
  BY DEF Box
<1>4. PICK box : box = s.inbox[r]
  OBVIOUS
<1>5. TakenFrom(r, box)
  BY <1>4 DEF Outside
<1>6. \A i \in DOMAIN box : \E j \in DOMAIN relay.inbox[r] : box[i] = relay.inbox[r][j]
  BY <1>5, TakenHolds
<1>2. \A i \in DOMAIN relay'.inbox[r] : \E j \in DOMAIN relay.inbox[r] : relay'.inbox[r][i] = relay.inbox[r][j]
  BY <1>1, <1>4, <1>6
<1>3. ASSUME NEW q \in Replicas, q # r
      PROVE  /\ \A i \in DOMAIN relay.inbox[q] : i \in DOMAIN relay'.inbox[q] /\ relay'.inbox[q][i] = relay.inbox[q][i]
             /\ \A i \in DOMAIN relay'.inbox[q] :
                   relay'.inbox[q][i] \in {m} \/ (i \in DOMAIN relay.inbox[q] /\ relay'.inbox[q][i] = relay.inbox[q][i])
             /\ relay.channel[q] # "open" => relay'.inbox[q] = relay.inbox[q]
             /\ relay.channel[q] = "open" => \E i \in DOMAIN relay'.inbox[q] : relay'.inbox[q][i] = m
  <2>1. relay'.inbox[q] = IF relay.channel[q] = "open" THEN Append(relay.inbox[q], m) ELSE relay.inbox[q]
    BY <1>3 DEF Box, Outside
  <2>2. relay.inbox[q] \in Seq(Messages)
    BY DEF TypeInd, Relays
  <2> QED BY <2>1, <2>2, AppendHolds
<1> QED BY <1>2, <1>3 DEF Carried

LEMMA CarriedTwo ==
    ASSUME TypeInd, NEW r \in Replicas, NEW m \in Messages, NEW o \in Messages, relay'.inbox = Box2(relay, r, m, o)
    PROVE  Carried(r, {m, o})
<1>1. relay'.inbox[r] = relay.inbox[r]
  BY DEF Box2
<1>3. ASSUME NEW q \in Replicas, q # r
      PROVE  /\ \A i \in DOMAIN relay.inbox[q] : i \in DOMAIN relay'.inbox[q] /\ relay'.inbox[q][i] = relay.inbox[q][i]
             /\ \A i \in DOMAIN relay'.inbox[q] :
                   relay'.inbox[q][i] \in {m, o} \/ (i \in DOMAIN relay.inbox[q] /\ relay'.inbox[q][i] = relay.inbox[q][i])
             /\ relay.channel[q] # "open" => relay'.inbox[q] = relay.inbox[q]
             /\ relay.channel[q] = "open" =>
                   /\ \E i \in DOMAIN relay'.inbox[q] : relay'.inbox[q][i] = m
                   /\ \E i \in DOMAIN relay'.inbox[q] : relay'.inbox[q][i] = o
  <2>1. relay'.inbox[q] = IF relay.channel[q] = "open" THEN Append(Append(relay.inbox[q], m), o) ELSE relay.inbox[q]
    BY <1>3 DEF Box2
  <2>2. relay.inbox[q] \in Seq(Messages)
    BY DEF TypeInd, Relays
  <2>31. PICK b : b = Append(relay.inbox[q], m)
    OBVIOUS
  <2>3. b \in Seq(Messages) /\ b = Append(relay.inbox[q], m)
    BY <2>2, <2>31, AppendHolds
  <2>4. relay'.inbox[q] = IF relay.channel[q] = "open" THEN Append(b, o) ELSE relay.inbox[q]
    BY <2>1, <2>3
  <2>5. /\ \A i \in DOMAIN relay.inbox[q] : i \in DOMAIN b /\ b[i] = relay.inbox[q][i]
        /\ \A i \in DOMAIN b : b[i] = m \/ (i \in DOMAIN relay.inbox[q] /\ b[i] = relay.inbox[q][i])
        /\ \E i \in DOMAIN b : b[i] = m
    BY <2>2, <2>3, AppendHolds
  <2>6. /\ \A i \in DOMAIN b : i \in DOMAIN Append(b, o) /\ Append(b, o)[i] = b[i]
        /\ \A i \in DOMAIN Append(b, o) : Append(b, o)[i] = o \/ (i \in DOMAIN b /\ Append(b, o)[i] = b[i])
        /\ \E i \in DOMAIN Append(b, o) : Append(b, o)[i] = o
    BY <2>3, AppendHolds
  <2>7. PICK z : z = Append(b, o)
    OBVIOUS
  <2>8. /\ \A i \in DOMAIN b : i \in DOMAIN z /\ z[i] = b[i]
        /\ \A i \in DOMAIN z : z[i] = o \/ (i \in DOMAIN b /\ z[i] = b[i])
        /\ \E i \in DOMAIN z : z[i] = o
    BY <2>6, <2>7
  <2>9. relay'.inbox[q] = IF relay.channel[q] = "open" THEN z ELSE relay.inbox[q]
    BY <2>4, <2>7
  <2>10. relay.channel[q] # "open" => relay'.inbox[q] = relay.inbox[q]
    BY <2>9
  <2>11. CASE relay.channel[q] = "open"
    <3>1. relay'.inbox[q] = z
      BY <2>9, <2>11
    <3>2. \A i \in DOMAIN relay.inbox[q] : i \in DOMAIN z /\ z[i] = relay.inbox[q][i]
      BY <2>5, <2>8
    <3>3. \A i \in DOMAIN z : z[i] \in {m, o} \/ (i \in DOMAIN relay.inbox[q] /\ z[i] = relay.inbox[q][i])
      BY <2>5, <2>8
    <3>4. \E i \in DOMAIN z : z[i] = m
      BY <2>5, <2>8
    <3>5. \E i \in DOMAIN z : z[i] = o
      BY <2>8
    <3> QED BY <3>1, <3>2, <3>3, <3>4, <3>5, <2>11
  <2> QED BY <2>10, <2>11
<1>2. \A i \in DOMAIN relay'.inbox[r] : \E j \in DOMAIN relay.inbox[r] : relay'.inbox[r][i] = relay.inbox[r][j]
  BY <1>1
<1> QED BY <1>2, <1>3 DEF Carried

\* Every step of a process but an edit and a message that makes nothing, with
\* where what it brings comes from.
Hushed(r) ==
    \/ \E p : Awaits(p, r)
    \/ \E n, t : GoesWithout(n, r, t) \/ LetsGo(r, n, t)
    \/ \E t : Refuses(r, t) \/ Stops(r, t)
    \/ LooksOn(r) \/ Discards(r) \/ IsOver(r)
    \/ \E circuit, restore : AsksVersion(r, circuit, restore) /\ circuit \subseteq accepted /\ spent'.versions # 0
    \/ \E s : ClosesNone(r, s)
    \/ \E m, s, t : Merges(r, m, s, t) \/ IsTold(r, m, s, t)
    \/ \E p, n, t : Attaches(p, r, n, t)
    \/ \E p, t : Seeds(p, r, t)
    \/ \E p, n, t : LeavesOthers(p, r, n, t) \/ LeavesSaving(p, r, n, t) \/ LeavesAtOnce(p, r, n, t)
    \/ \E n, t : Fires(n, r, t)
    \/ \E n, t, s : ClosesSaving(r, n, s, t) \/ ClosesSaved(r, n, s, t)
    \/ \E n, t : EndsBuild(r, n, t)
    \/ \E t, n : Finishes(r, n, t)
    \/ \E t, p, n : Overgrows(p, r, n, t)
    \/ Dies(r)

Inner(r) ==
    \/ Hushed(r)
    \/ \E n, t : Opens(n, r, t)
    \/ \E m, s, t : Answers(r, m, s, t)
    \/ \E t, circuit : Tells(r, circuit, t)
    \/ \E n, t, circuit : Settles(r, n, circuit, t)
    \/ \E doc, t : SetsUp(r, doc, t) /\ From(doc, accepted)

LEMMA InnerIsLocal ==
    ASSUME NEW r, Inner(r) \/ (\E p, n, edit, t : Integrates(p, r, n, edit, t)) \/ (\E m, s : Ignores(r, m, s))
    PROVE  Local(r)
<1>1. CASE Hushed(r)
  BY <1>1 DEF Hushed, Local, Rests
<1>2. CASE ~Hushed(r)
  BY <1>2 DEF Inner, Local, Rests
<1> QED BY <1>1, <1>2

\* What r publishes in a step was accepted, and it tells of a version only
\* once one was written.
Sends(r, given) ==
    /\ Carried(r, given) /\ given \subseteq Messages
    /\ \A m \in given : From(m.doc, accepted')
    /\ \A m \in given : m.kind = "settled" => db[r] # <<>> /\ Head(db[r]).kind = "append"

LEMMA NothingSent ==
    ASSUME NEW r, Carried(r, {})
    PROVE  Sends(r, {})
BY DEF Sends

LEMMA RunsSilent ==
    ASSUME TypeInd, NEW r, NEW c, NEW asked, NEW t, Runs(r, c, asked, t),
           t.inbox = relay.inbox \/ \E m, s : Pops(r, m, s) /\ t.inbox = s.inbox
    PROVE  Sends(r, {})
<1>1. r \in Replicas /\ relay'.inbox = t.inbox
  BY DEF Runs, Took
<1>2. CASE t.inbox = relay.inbox
  <2>1. TakenFrom(r, relay'.inbox[r])
    BY <1>1, <1>2 DEF TakenFrom
  <2> QED BY <1>1, <1>2, <2>1, CarriedNone, NothingSent
<1>3. CASE \E m, s : Pops(r, m, s) /\ t.inbox = s.inbox
  <2>1. relay.inbox[r] # <<>> /\ t.inbox = [relay.inbox EXCEPT ![r] = Tail(relay.inbox[r])]
    BY <1>3 DEF Pops, Popped
  <2>2. relay'.inbox[r] = Tail(relay.inbox[r]) /\ \A q \in Replicas : q # r => relay'.inbox[q] = relay.inbox[q]
    BY <1>1, <2>1 DEF TypeInd, Relays
  <2>3. TakenFrom(r, relay'.inbox[r])
    BY <2>1, <2>2 DEF TakenFrom
  <2> QED BY <1>1, <2>1, <2>2, <2>3, CarriedNone, NothingSent
<1> QED BY <1>2, <1>3

LEMMA HushedSends ==
    ASSUME TypeInd, NEW r, Hushed(r)
    PROVE  Sends(r, {})
<1>1. CASE \E p : Awaits(p, r)
  BY <1>1, RunsSilent DEF Awaits
<1>2. CASE \E n, t : GoesWithout(n, r, t) \/ LetsGo(r, n, t)
  BY <1>2, RunsSilent DEF GoesWithout, LetsGo, Forgot, SameWires
<1>3. CASE \E t : Refuses(r, t) \/ Stops(r, t)
  BY <1>3, RunsSilent DEF Refuses, BuildRefused, Stops, SameWires
<1>4. CASE LooksOn(r) \/ Discards(r) \/ IsOver(r)
  BY <1>4, RunsSilent DEF LooksOn, Discards, IsOver
<1>5. CASE \E circuit, restore : AsksVersion(r, circuit, restore) /\ circuit \subseteq accepted /\ spent'.versions # 0
  BY <1>5, RunsSilent DEF AsksVersion
<1>6. CASE \E s : ClosesNone(r, s)
  BY <1>6, RunsSilent DEF ClosesNone, Closing, SameWires
<1>7. CASE \E m, s, t : Merges(r, m, s, t) \/ IsTold(r, m, s, t)
  <2>1. PICK m, s, t : Merges(r, m, s, t) \/ IsTold(r, m, s, t)
    BY <1>7
  <2>2. Pops(r, m, s) /\ Runs(r, 0, <<>>, t) /\ t.inbox = s.inbox
    BY <2>1 DEF Merges, MergedTo, SameWires, IsTold, Dropped, DroppedBut
  <2> QED BY <2>2, RunsSilent
<1>8. CASE \E p, n, t : Attaches(p, r, n, t)
  BY <1>8, RunsSilent DEF Attaches, Rewritten, SameWires
<1>9. CASE \E p, t : Seeds(p, r, t)
  BY <1>9, RunsSilent DEF Seeds, SameWires
<1>10. CASE \E p, n, t : LeavesOthers(p, r, n, t) \/ LeavesSaving(p, r, n, t) \/ LeavesAtOnce(p, r, n, t)
  BY <1>10, RunsSilent DEF LeavesOthers, LeavesSaving, LeavesAtOnce, LeftSaving, LeftAtOnce, Rewritten, SameWires
<1>11. CASE \E n, t : Fires(n, r, t)
  BY <1>11, RunsSilent DEF Fires, FlushedTo, SameWires
<1>12. CASE \E n, t, s : ClosesSaving(r, n, s, t) \/ ClosesSaved(r, n, s, t)
  <2>1. PICK n, t, s : ClosesSaving(r, n, s, t) \/ ClosesSaved(r, n, s, t)
    BY <1>12
  <2>2. t.inbox = s.inbox /\ s.inbox = relay.inbox
    BY <2>1 DEF ClosesSaving, ClosesSaved, FlushedTo, DroppedBut, SameWires, Closing
  <2>3. \E c, asked : Runs(r, c, asked, t)
    BY <2>1 DEF ClosesSaving, ClosesSaved
  <2> QED BY <2>2, <2>3, RunsSilent
<1>13. CASE \E n, t : EndsBuild(r, n, t)
  BY <1>13, RunsSilent DEF EndsBuild, SameWires
<1>14. CASE \E t, n : Finishes(r, n, t)
  BY <1>14, RunsSilent DEF Finishes, DroppedBut
<1>15. CASE \E t, p, n : Overgrows(p, r, n, t)
  BY <1>15, RunsSilent DEF Overgrows, DroppedBut
<1>16. CASE Dies(r)
  <2>1. r \in Replicas /\ relay'.inbox = [relay.inbox EXCEPT ![r] = <<>>]
    BY <1>16 DEF Dies
  <2>2. relay'.inbox[r] = <<>> /\ \A q \in Replicas : q # r => relay'.inbox[q] = relay.inbox[q]
    BY <2>1 DEF TypeInd, Relays
  <2>3. TakenFrom(r, relay'.inbox[r])
    BY <2>2 DEF TakenFrom
  <2> QED BY <2>1, <2>2, <2>3, CarriedNone, NothingSent
<1> QED BY <1>1, <1>2, <1>3, <1>4, <1>5, <1>6, <1>7, <1>8, <1>9, <1>10, <1>11, <1>12, <1>13, <1>14, <1>15, <1>16 DEF Hushed

LEMMA SentOne ==
    ASSUME TypeInd, NEW r \in Replicas, NEW s, Outside(r, s), NEW m \in Messages, relay'.inbox = Box(s, r, m),
           From(m.doc, accepted'), m.kind = "settled" => db[r] # <<>> /\ Head(db[r]).kind = "append"
    PROVE  Sends(r, {m})
<1>1. Carried(r, {m})
  BY CarriedOne
<1> QED BY <1>1 DEF Sends

LEMMA OutsideIs ==
    ASSUME NEW r
    PROVE  /\ Outside(r, relay)
           /\ \A m, s : Pops(r, m, s) /\ relay.inbox \in [Replicas -> Seq(Messages)] /\ r \in Replicas => Outside(r, s)
<1>1. Outside(r, relay)
  BY DEF Outside, TakenFrom
<1>2. ASSUME NEW m, NEW s, Pops(r, m, s), relay.inbox \in [Replicas -> Seq(Messages)], r \in Replicas
      PROVE  Outside(r, s)
  <2>1. /\ relay.inbox[r] # <<>> /\ s.channel = relay.channel
        /\ s.inbox = [relay.inbox EXCEPT ![r] = Tail(relay.inbox[r])]
    BY <1>2 DEF Pops, Popped
  <2>2. s.inbox[r] = Tail(relay.inbox[r]) /\ \A q \in Replicas : q # r => s.inbox[q] = relay.inbox[q]
    BY <1>2, <2>1
  <2> QED BY <2>1, <2>2 DEF Outside, TakenFrom
<1> QED BY <1>1, <1>2

LEMMA NothingIsFrom ==
    \A given : From(Greeting.doc, given) /\ From(Told.doc, given)
BY GreetingIsMessage, ToldIsMessage DEF From

LEMMA FromGrows ==
    ASSUME NEW doc, NEW given, NEW more, From(doc, given), given \subseteq more
    PROVE  From(doc, more)
BY DEF From

LEMMA ShownIsFrom ==
    ASSUME TypeInd, AcceptedInd, NEW r, NEW s, s.lives = relay.lives
    PROVE  From(Shown(s, r), accepted)
<1>1. \A n \in Listening(r) : From(relay.lives[n].doc, accepted)
  BY ListeningIs DEF AcceptedInd
<1> QED BY <1>1 DEF From, Shown

LEMMA OpensSends ==
    ASSUME TypeInd, NEW n, NEW r, NEW t, Opens(n, r, t)
    PROVE  Sends(r, {Greeting})
<1>1. r \in Replicas /\ relay'.inbox = Box(relay, r, Greeting)
  BY DEF Opens, Runs, Took
<1> QED BY <1>1, SentOne, OutsideIs, GreetingIsMessage, NothingIsFrom

LEMMA AnswersSends ==
    ASSUME TypeInd, AcceptedInd, accepted \subseteq accepted', NEW r, NEW m, NEW s, NEW t, Answers(r, m, s, t)
    PROVE  Sends(r, {Answer(s, r)})
<1>1. r \in Replicas /\ relay'.inbox = Box(s, r, Answer(s, r)) /\ Pops(r, m, s)
  BY DEF Answers, Published, Runs, Took
<1>2. Outside(r, s)
  BY <1>1, OutsideIs DEF TypeInd, Relays
<1>3. s \in Relays /\ s.lives = relay.lives
  BY <1>1 DEF Pops, Popped, SameObjects
<1>4. Listening(r) \subseteq DOMAIN s.lives
  BY <1>3, ListeningIs
<1>5. Answer(s, r) \in Messages /\ Answer(s, r).kind = "sync-state" /\ Answer(s, r).doc = Shown(s, r)
  BY <1>1, <1>3, <1>4, AnswerIsMessage
<1>6. From(Answer(s, r).doc, accepted')
  BY <1>3, <1>5, ShownIsFrom, FromGrows
<1> QED BY <1>1, <1>2, <1>5, <1>6, SentOne

LEMMA HeadFrom ==
    ASSUME TypeInd, AcceptedInd, NEW r, NEW asked, NEW t, Runs(r, 1, asked, t)
    PROVE  StatementFrom(Head(db[r]), accepted) /\ db[r] # <<>>
<1>1. Head(db[r]) = db[r][1] /\ 1 \in DOMAIN db[r] /\ r \in Replicas
  BY HeadOf DEF Runs
<1> QED BY <1>1 DEF AcceptedInd, Runs

LEMMA TellsSends ==
    ASSUME TypeInd, NEW r, NEW circuit, NEW t, Tells(r, circuit, t)
    PROVE  Sends(r, {Told})
<1>1. r \in Replicas /\ relay'.inbox = Box(relay, r, Told) /\ db[r] # <<>> /\ Head(db[r]).kind = "append"
  BY DEF Tells, Published, Runs, Took
<1> QED BY <1>1, SentOne, OutsideIs, ToldIsMessage, NothingIsFrom

LEMMA RevertedIsFrom ==
    ASSUME NEW doc, From(doc, accepted), NEW circuit, circuit \subseteq accepted
    PROVE  /\ From(Reverted(doc, circuit), accepted)
           /\ From(Merge(doc, Reverted(doc, circuit)), accepted)
BY DEF Reverted, From, Content, Merge

LEMMA SettlesSends ==
    ASSUME TypeInd, MapsInd, AcceptedInd, accepted \subseteq accepted', NEW r, NEW n, NEW circuit, NEW t,
           Settles(r, n, circuit, t)
    PROVE  Sends(r, {Told, Update(Reverted(relay.lives[n].doc, circuit))})
<1> DEFINE back == Reverted(relay.lives[n].doc, circuit)
<1>1. /\ r \in Replicas /\ relay'.inbox = Box2(relay, r, Told, Update(back))
      /\ db[r] # <<>> /\ Head(db[r]).kind = "append" /\ circuit = Head(db[r]).circuit
  BY DEF Settles, SettledTo, Runs, Took
<1>2. n \in Of(r) /\ circuit \in SUBSET Edits
  BY SettlesIs
<1>3. n \in DOMAIN relay.lives /\ relay.lives[n] \in Lives /\ relay.lives[n].doc \in Documents
  BY <1>2, RelayIs, RelayFields, LiveFields DEF Of
<1>4. back \in Documents /\ Update(back) \in Messages /\ Update(back).kind = "update" /\ Update(back).doc = back
  BY <1>2, <1>3, RevertedIsDocument, UpdateIsMessage
<1>5. circuit \subseteq accepted
  <2>1. Runs(r, 1, <<>>, t)
    BY DEF Settles
  <2> QED BY <2>1, <1>1, HeadFrom DEF StatementFrom
<1>6. From(back, accepted)
  BY <1>3, <1>5, RevertedIsFrom DEF AcceptedInd
<1>7. From(Update(back).doc, accepted')
  BY <1>4, <1>6, FromGrows
<1> HIDE DEF back
<1>8. Carried(r, {Told, Update(back)})
  BY <1>1, <1>4, CarriedTwo, ToldIsMessage
<1>9. Sends(r, {Told, Update(back)})
  BY <1>1, <1>4, <1>7, <1>8, ToldIsMessage, NothingIsFrom DEF Sends
<1> QED BY <1>9 DEF back

LEMMA IntegratesSends ==
    ASSUME TypeInd, NEW p, NEW r, NEW n, NEW edit, NEW t, Integrates(p, r, n, edit, t), edit \in accepted',
           r = relay.lives[n].replica
    PROVE  Sends(r, {Update(DocumentOf({edit}))})
<1>1. r \in Replicas /\ relay'.inbox = Box(relay, r, Update(DocumentOf({edit}))) /\ edit \in Edits
  BY DEF Integrates, EditedTo, Runs, Took
<1>2. DocumentOf({edit}) \in Documents /\ From(DocumentOf({edit}), accepted')
  BY <1>1 DEF DocumentOf, Documents, From
<1>3. /\ Update(DocumentOf({edit})) \in Messages /\ Update(DocumentOf({edit})).kind = "update"
      /\ Update(DocumentOf({edit})).doc = DocumentOf({edit})
  BY <1>2, UpdateIsMessage
<1> QED BY <1>1, <1>2, <1>3, SentOne, OutsideIs

LEMMA SetsUpSends ==
    ASSUME TypeInd, NEW r, NEW doc, NEW t, SetsUp(r, doc, t)
    PROVE  \E given : Sends(r, given)
<1>1. r \in Replicas /\ Runs(r, 1, <<>>, t) /\ relay'.inbox = t.inbox
  BY DEF SetsUp, Runs, Took
<1>2. t.inbox = IF relay.channel[r] # "closed" THEN Box(relay, r, Greeting) ELSE relay.inbox
  BY DEF SetsUp, BuiltTo
<1>3. CASE relay.channel[r] # "closed"
  <2>1. Sends(r, {Greeting})
    BY <1>1, <1>2, <1>3, SentOne, OutsideIs, GreetingIsMessage, NothingIsFrom
  <2> QED BY <2>1
<1>4. CASE relay.channel[r] = "closed"
  BY <1>1, <1>2, <1>4, RunsSilent
<1> QED BY <1>3, <1>4

LEMMA InnerSends ==
    ASSUME TypeInd, MapsInd, AcceptedInd, accepted \subseteq accepted', NEW r, Inner(r)
    PROVE  \E given : Sends(r, given)
<1>1. CASE Hushed(r)
  BY <1>1, HushedSends
<1>2. CASE \E n, t : Opens(n, r, t)
  BY <1>2, OpensSends
<1>3. CASE \E m, s, t : Answers(r, m, s, t)
  <2>1. PICK m, s, t : Answers(r, m, s, t)
    BY <1>3
  <2>2. Sends(r, {Answer(s, r)})
    BY <2>1, AnswersSends
  <2> QED BY <2>2
<1>4. CASE \E t, circuit : Tells(r, circuit, t)
  BY <1>4, TellsSends
<1>5. CASE \E n, t, circuit : Settles(r, n, circuit, t)
  <2>1. PICK n, t, circuit : Settles(r, n, circuit, t)
    BY <1>5
  <2>2. Sends(r, {Told, Update(Reverted(relay.lives[n].doc, circuit))})
    BY <2>1, SettlesSends
  <2> QED BY <2>2
<1>6. CASE \E doc, t : SetsUp(r, doc, t) /\ From(doc, accepted)
  BY <1>6, SetsUpSends
<1> QED BY <1>1, <1>2, <1>3, <1>4, <1>5, <1>6 DEF Inner

===============================================================================
