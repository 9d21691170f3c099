------------------------- MODULE DocumentSystem_proofs -------------------------
(***************************************************************************)
(* What DocumentSystem states of the relay's documents, proved for any     *)
(* number of processes, peers, edits, documents, versions and failures:    *)
(* DocumentInvariant and SubscribersHaveEverything from Core, and          *)
(* EditsOutliveTheSession from Core and SoloInd, the parts of the          *)
(* invariant that DocumentSteps_proofs names.                              *)
(***************************************************************************)
EXTENDS DocumentSteps_proofs

------------------------------------------------------------------------------
(* The channels of a step. *)

\* A step that opens nothing at r, and loses nothing its documents wait for.
Calms(r) ==
    /\ Of(r)' = Of(r)
    /\ relay'.channel[r] \in {relay.channel[r], "closed"}
    /\ relay'.channel[r] = "closed" => \A n \in Of(r) : relay'.lives[n].bus = "none"
    /\ \A n \in Of(r) : relay'.lives[n].bus \in {relay.lives[n].bus, "none"}
    /\ \A n \in Of(r) : Subscribed(n)' => Subscribed(n)
    /\ relay.channel[r] = "open" => \A n \in Of(r) : Subscribed(n)' =>
          relay.lives[n].doc.has \cup Brought(r) \subseteq relay'.lives[n].doc.has \cup Brought(r)'

LEMMA CalmChannel ==
    ASSUME NEW r \in Replicas, r \in running, running' = running, ChannelInd(r), Calms(r),
           \A n \in Of(r) : owed'[n] \subseteq owed[n]
    PROVE  ChannelInd(r)'
<1>1. Of(r)' = Of(r)
  BY DEF Calms
<1>2. relay'.channel[r] = "closed" => \A n \in Of(r) : relay'.lives[n].bus = "none"
  BY DEF Calms
<1>3. relay'.channel[r] = "open" => \A n \in Of(r) : relay'.lives[n].bus # "opening"
  BY DEF Calms, ChannelInd
<1>4. \A m, n \in Of(r) : relay'.lives[m].bus = "opening" /\ relay'.lives[n].bus = "opening" => m = n
  BY DEF Calms, ChannelInd
<1>5. ASSUME NEW n \in Of(r), Subscribed(n)'
      PROVE  owed'[n] \subseteq IF relay'.channel[r] = "open" THEN relay'.lives[n].doc.has \cup Brought(r)' ELSE {}
  <2>1. Subscribed(n) /\ relay'.lives[n].bus # "none"
    BY <1>5 DEF Calms, Subscribed
  <2>2. relay'.channel[r] = relay.channel[r]
    BY <2>1 DEF Calms
  <2>3. owed[n] \subseteq IF relay.channel[r] = "open" THEN relay.lives[n].doc.has \cup Brought(r) ELSE {}
    BY <2>1 DEF ChannelInd
  <2>4. relay.channel[r] = "open" =>
          relay.lives[n].doc.has \cup Brought(r) \subseteq relay'.lives[n].doc.has \cup Brought(r)'
    BY <1>5 DEF Calms
  <2>5. owed'[n] \subseteq owed[n]
    OBVIOUS
  <2> QED BY <2>2, <2>3, <2>4, <2>5
<1> QED BY <1>1, <1>2, <1>3, <1>4, <1>5 DEF ChannelInd

\* A document that is as subscribed as it was, and holds as much.
Holds(m) ==
    /\ relay'.lives[m].bus = relay.lives[m].bus /\ (relay.lives[m].dropping => relay'.lives[m].dropping)
    /\ relay.lives[m].doc.has \subseteq relay'.lives[m].doc.has

LEMMA RoomOf ==
    ASSUME SameRoom, NEW r
    PROVE  Of(r)' = Of(r)
BY DEF SameRoom, Of

LEMMA CalmsHeld ==
    ASSUME NEW r, ChannelInd(r), SameRoom, \A m \in Of(r) : Holds(m),
           relay'.channel[r] = relay.channel[r], Brought(r) \subseteq Brought(r)'
    PROVE  Calms(r)
<1>1. Of(r)' = Of(r)
  BY RoomOf
<1>2. \A m \in Of(r) : relay'.lives[m].bus = relay.lives[m].bus
  BY DEF Holds
<1>3. \A m \in Of(r) : Subscribed(m)' => Subscribed(m)
  BY DEF Holds, Subscribed
<1>4. \A m \in Of(r) : relay.lives[m].doc.has \cup Brought(r) \subseteq relay'.lives[m].doc.has \cup Brought(r)'
  BY DEF Holds
<1>5. relay'.channel[r] = "closed" => \A n \in Of(r) : relay'.lives[n].bus = "none"
  BY <1>2 DEF ChannelInd
<1> QED BY <1>1, <1>2, <1>3, <1>4, <1>5 DEF Calms

\* What waits at r is what waited.
LEMMA BroughtSame ==
    ASSUME NEW r, relay'.inbox[r] = relay.inbox[r]
    PROVE  Brought(r)' = Brought(r)
BY DEF Brought

LEMMA BroughtPopped ==
    ASSUME TypeInd, NEW r \in Replicas, NEW m, NEW s, Pops(r, m, s), relay'.inbox[r] = s.inbox[r]
    PROVE  Brought(r) \subseteq Brought(r)' \cup m.doc.has
<1> DEFINE q == relay.inbox[r]
<1>1. q \in Seq(Messages) /\ q # <<>> /\ m = Head(q) /\ relay'.inbox[r] = Tail(q)
  BY DEF TypeInd, Relays, Pops, Popped
<1>2. Brought(r) = UNION {q[i].doc.has : i \in DOMAIN q}
  BY DEF Brought
<1>3. Brought(r)' = UNION {Tail(q)[i].doc.has : i \in DOMAIN Tail(q)}
  BY <1>1 DEF Brought
<1> HIDE DEF q
<1>4. \A i \in DOMAIN q : i = 1 \/ (i - 1 \in DOMAIN Tail(q) /\ Tail(q)[i - 1] = q[i])
  BY <1>1
<1>5. \A i \in DOMAIN q : q[i].doc.has \subseteq Brought(r)' \cup m.doc.has
  <2> TAKE i \in DOMAIN q
  <2>1. CASE i = 1
    BY <1>1, <2>1
  <2>2. CASE i # 1
    BY <1>3, <1>4, <2>2
  <2> QED BY <2>1, <2>2
<1> QED BY <1>2, <1>5

LEMMA CalmsSame ==
    ASSUME NEW r, ChannelInd(r), NEW c, NEW asked, NEW t, Runs(r, c, asked, t),
           t.lives = relay.lives, t.channel = relay.channel, t.inbox[r] = relay.inbox[r]
    PROVE  Calms(r)
<1>1. relay'.lives = relay.lives /\ relay'.channel[r] = relay.channel[r] /\ relay'.inbox[r] = relay.inbox[r]
  BY DEF Runs, Took
<1>2. SameRoom /\ \A m \in Of(r) : Holds(m)
  BY <1>1 DEF SameRoom, Holds
<1> QED BY <1>1, <1>2, BroughtSame, CalmsHeld

LEMMA CalmsOne ==
    ASSUME NEW r, ChannelInd(r), NEW c, NEW asked, NEW t, Runs(r, c, asked, t),
           t.channel[r] = relay.channel[r], t.inbox[r] = relay.inbox[r],
           NEW n \in Of(r), NEW v, OneLive(n, v), v.bus = relay.lives[n].bus,
           v.dropping = relay.lives[n].dropping, relay.lives[n].doc.has \subseteq v.doc.has
    PROVE  Calms(r)
<1>1. relay'.channel[r] = relay.channel[r] /\ relay'.inbox[r] = relay.inbox[r]
  BY DEF Runs, Took
<1>2. SameRoom /\ \A m \in Of(r) : Holds(m)
  BY DEF OneLive, Holds, Of
<1> QED BY <1>1, <1>2, BroughtSame, CalmsHeld

LEMMA CalmsFree ==
    ASSUME NEW r, ChannelInd(r), SameRoom, NEW G, G \subseteq Of(r), relay'.channel[r] = Shut(relay, r, G),
           \A m \in Of(r) :
               /\ relay'.lives[m].bus = IF m \in G /\ relay.lives[m].bus = "open" THEN "none" ELSE relay.lives[m].bus
               /\ relay.lives[m].dropping => relay'.lives[m].dropping
               /\ relay'.lives[m].doc = relay.lives[m].doc,
           Brought(r) \subseteq Brought(r)'
    PROVE  Calms(r)
<1>1. Of(r)' = Of(r)
  BY RoomOf
<1>2. relay'.channel[r] \in {relay.channel[r], "closed"}
  BY DEF Shut
<1>3. \A m \in Of(r) : relay'.lives[m].bus \in {relay.lives[m].bus, "none"}
  OBVIOUS
<1>4. relay'.channel[r] = "closed" => \A m \in Of(r) : relay'.lives[m].bus = "none"
  <2>1. CASE relay.channel[r] = "closed"
    BY <2>1, <1>3 DEF ChannelInd
  <2>2. CASE {m \in G : relay.lives[m].bus = "open"} = Listeners(relay, r)
    <3>1. \A m \in Of(r) : relay.lives[m].bus = "none" \/ (m \in G /\ relay.lives[m].bus = "open")
      BY <2>2 DEF Listeners, Of
    <3> QED BY <3>1
  <2> QED BY <2>1, <2>2 DEF Shut
<1>5. \A m \in Of(r) : Subscribed(m)' => Subscribed(m)
  BY DEF Subscribed
<1>6. \A m \in Of(r) : relay.lives[m].doc.has \cup Brought(r) \subseteq relay'.lives[m].doc.has \cup Brought(r)'
  OBVIOUS
<1> QED BY <1>1, <1>2, <1>3, <1>4, <1>5, <1>6 DEF Calms

LEMMA CalmsEmpty ==
    ASSUME NEW r, ChannelInd(r), NEW G, Empties(r, G), relay'.channel[r] = Shut(relay, r, G),
           Brought(r) \subseteq Brought(r)'
    PROVE  Calms(r)
<1>1. /\ SameRoom /\ G \subseteq Of(r)
      /\ \A m \in DOMAIN relay.lives : m \notin G => relay'.lives[m] = relay.lives[m]
      /\ \A m \in G :
          /\ relay'.lives[m].doc = relay.lives[m].doc /\ relay'.lives[m].dropping
          /\ relay'.lives[m].bus = IF relay.lives[m].bus = "open" THEN "none" ELSE relay.lives[m].bus
  BY DEF Empties
<1>2. \A m \in Of(r) :
               /\ relay'.lives[m].bus = IF m \in G /\ relay.lives[m].bus = "open" THEN "none" ELSE relay.lives[m].bus
               /\ relay.lives[m].dropping => relay'.lives[m].dropping
               /\ relay'.lives[m].doc = relay.lives[m].doc
  BY <1>1 DEF Of
<1> QED BY <1>1, <1>2, CalmsFree

LEMMA LeavesCalms ==
    ASSUME TypeInd, MapsInd, NEW r, ChannelInd(r), NEW p, NEW n, NEW t,
           LeavesOthers(p, r, n, t) \/ LeavesSaving(p, r, n, t) \/ LeavesAtOnce(p, r, n, t)
    PROVE  Calms(r)
<1>1. CASE LeavesOthers(p, r, n, t)
  <2>1. n \in Of(r) /\ OneLive(n, LeftLive(relay.lives[n], p)) /\ relay.lives[n] \in Lives
    BY <1>1, LeavesOthersIs, RelayIs, RelayFields DEF Of
  <2>2. PICK v : v = LeftLive(relay.lives[n], p)
    OBVIOUS
  <2>3. v.bus = relay.lives[n].bus /\ v.dropping = relay.lives[n].dropping /\ v.doc = relay.lives[n].doc
    BY <2>1, <2>2, LeftFields
  <2>4. Runs(r, 0, <<>>, t) /\ t.channel = relay.channel /\ t.inbox = relay.inbox
    BY <1>1 DEF LeavesOthers, Rewritten, SameWires
  <2> QED BY <2>1, <2>2, <2>3, <2>4, CalmsOne
<1>2. ASSUME NEW l, l = relay.lives[n], NEW v, v = LeftAtRest(l, p) \/ v = LeftAlone(l, p), OneLive(n, v), n \in Of(r),
             NEW asked, Runs(r, 0, asked, t), t.channel = [relay.channel EXCEPT ![r] = Shut(relay, r, {n})],
             t.inbox = relay.inbox
      PROVE  Calms(r)
  <2>1. l \in Lives /\ r \in Replicas
    BY <1>2, RelayIs, RelayFields DEF Of, Runs
  <2>2. v.doc = l.doc /\ v.dropping = l.dropping /\ v.bus = IF l.bus = "open" THEN "none" ELSE l.bus
    <3>1. /\ LeftAtRest(l, p).doc = l.doc /\ LeftAtRest(l, p).dropping = l.dropping
          /\ LeftAtRest(l, p).bus = IF l.bus = "open" THEN "none" ELSE l.bus
      BY <2>1, LeftAloneFields
    <3>2. /\ LeftAlone(l, p).doc = l.doc /\ LeftAlone(l, p).dropping = l.dropping
          /\ LeftAlone(l, p).bus = IF l.bus = "open" THEN "none" ELSE l.bus
      BY <2>1, LeftAloneFields
    <3>3. v = LeftAtRest(l, p) \/ v = LeftAlone(l, p)
      BY <1>2
    <3>4. CASE v = LeftAtRest(l, p)
      BY <3>1, <3>4
    <3>5. CASE v = LeftAlone(l, p)
      BY <3>2, <3>5
    <3> QED BY <3>3, <3>4, <3>5
  <2>3. relay'.channel[r] = Shut(relay, r, {n}) /\ relay'.inbox[r] = relay.inbox[r]
    BY <1>2, <2>1 DEF Runs, Took, TypeInd, Relays
  <2>4. /\ SameRoom /\ relay'.lives[n] = v
        /\ \A m \in DOMAIN relay.lives : m # n => relay'.lives[m] = relay.lives[m]
    BY <1>2 DEF OneLive
  <2>5. \A m \in Of(r) :
               /\ relay'.lives[m].bus = IF m \in {n} /\ relay.lives[m].bus = "open" THEN "none" ELSE relay.lives[m].bus
               /\ relay.lives[m].dropping => relay'.lives[m].dropping
               /\ relay'.lives[m].doc = relay.lives[m].doc
    <3> TAKE m \in Of(r)
    <3>1. CASE m = n
      BY <3>1, <1>2, <2>2, <2>4
    <3>2. CASE m # n
      BY <3>2, <2>4 DEF Of
    <3> QED BY <3>1, <3>2
  <2>6. {n} \subseteq Of(r) /\ Brought(r) \subseteq Brought(r)'
    BY <1>2, <2>3, BroughtSame
  <2> QED BY <2>3, <2>4, <2>5, <2>6, CalmsFree
<1>3. CASE LeavesSaving(p, r, n, t)
  <2>1. n \in Of(r) /\ OneLive(n, LeftAtRest(relay.lives[n], p))
    BY <1>3, LeavesSavingIs
  <2>2. relay.lives[n].replica = r
    BY <2>1 DEF Of
  <2>3. /\ Runs(r, 0, <<SaveSession(n, relay.lives[n].doc, "leave")>>, t) /\ t.inbox = relay.inbox
        /\ t.channel = [relay.channel EXCEPT ![r] = Shut(relay, r, {n})]
    BY <1>3, <2>2 DEF LeavesSaving, LeftSaving
  <2> QED BY <2>1, <2>3, <1>2
<1>4. CASE LeavesAtOnce(p, r, n, t)
  <2>1. n \in Of(r) /\ OneLive(n, LeftAlone(relay.lives[n], p))
    BY <1>4, LeavesAtOnceIs
  <2>2. relay.lives[n].replica = r
    BY <2>1 DEF Of
  <2>3. /\ Runs(r, 0, <<>>, t) /\ t.inbox = relay.inbox
        /\ t.channel = [relay.channel EXCEPT ![r] = Shut(relay, r, {n})]
    BY <1>4, <2>2 DEF LeavesAtOnce, LeftAtOnce
  <2> QED BY <2>1, <2>3, <1>2
<1> QED BY <1>1, <1>3, <1>4

LEMMA DropsCalms ==
    ASSUME TypeInd, MapsInd, NEW r \in Replicas, QueueInd(r), ChannelInd(r), NEW t,
           \/ \E m, s : IsTold(r, m, s, t)
           \/ \E n : Finishes(r, n, t)
           \/ \E p, n : Overgrows(p, r, n, t)
           \/ \E n, s : ClosesSaved(r, n, s, t)
    PROVE  Calms(r)
<1>0. ASSUME NEW s \in Relays, NEW G, s.lives = relay.lives, s.channel = relay.channel, DroppedBut(s, r, G, t),
             NEW c, NEW asked, Runs(r, c, asked, t)
      PROVE  relay'.channel[r] = Shut(relay, r, G) /\ relay'.inbox = s.inbox
  <2>1. t.channel = [relay.channel EXCEPT ![r] = Shut(s, r, G)] /\ relay'.channel = t.channel /\ relay'.inbox = s.inbox
    BY <1>0 DEF DroppedBut, Runs, Took
  <2>2. Shut(s, r, G) = Shut(relay, r, G)
    BY <1>0 DEF Shut, Listeners
  <2> QED BY <2>1, <2>2 DEF TypeInd, Relays
<1>1. CASE \E m, s : IsTold(r, m, s, t)
  <2>1. PICK m, s : IsTold(r, m, s, t)
    BY <1>1
  <2>2. Empties(r, Listening(r))
    BY <2>1, IsToldIs
  <2>3. /\ s \in Relays /\ s.lives = relay.lives /\ s.channel = relay.channel /\ DroppedBut(s, r, Listening(r), t)
        /\ Runs(r, 0, <<>>, t) /\ Pops(r, m, s) /\ m.kind = "settled" /\ relay.inbox[r] # <<>> /\ m = Head(relay.inbox[r])
    BY <2>1 DEF IsTold, Pops, Popped, SameObjects, Dropped
  <2>4. relay'.channel[r] = Shut(relay, r, Listening(r)) /\ relay'.inbox = s.inbox
    BY <2>3, <1>0
  <2>5. m \in Messages
    BY <2>3, PopMakes
  <2>6. m.doc.has = {}
    BY <2>3, <2>5 DEF Messages
  <2>7. Brought(r) \subseteq Brought(r)'
    BY <2>3, <2>4, <2>6, BroughtPopped
  <2> QED BY <2>2, <2>4, <2>7, CalmsEmpty
<1>2. ASSUME NEW n, NEW s, s \in Relays, s.lives = relay.lives, s.channel = relay.channel, s.inbox = relay.inbox,
             DroppedBut(s, r, {n}, t), Empties(r, {n}), NEW c, NEW asked, Runs(r, c, asked, t)
      PROVE  Calms(r)
  <2>1. relay'.channel[r] = Shut(relay, r, {n}) /\ relay'.inbox = s.inbox
    BY <1>2, <1>0
  <2> QED BY <1>2, <2>1, BroughtSame, CalmsEmpty
<1>3. CASE \E n : Finishes(r, n, t)
  <2>1. PICK n : Finishes(r, n, t)
    BY <1>3
  <2>2. Empties(r, {n})
    BY <2>1, FinishesIs
  <2>3. DroppedBut(relay, r, {n}, t) /\ Runs(r, 1, <<>>, t) /\ relay \in Relays
    BY <2>1, RelayIs DEF Finishes
  <2> QED BY <2>2, <2>3, <1>2
<1>4. CASE \E p, n : Overgrows(p, r, n, t)
  <2>1. PICK p, n : Overgrows(p, r, n, t)
    BY <1>4
  <2>2. Empties(r, {n})
    BY <2>1, OvergrowsIs
  <2>3. DroppedBut(relay, r, {n}, t) /\ Runs(r, 0, <<DropSession(FALSE)>>, t) /\ relay \in Relays
    BY <2>1, RelayIs DEF Overgrows
  <2> QED BY <2>2, <2>3, <1>2
<1>5. CASE \E n, s : ClosesSaved(r, n, s, t)
  <2>1. PICK n, s : ClosesSaved(r, n, s, t)
    BY <1>5
  <2>2. Empties(r, {n})
    BY <2>1, ClosesSavedIs
  <2>3. /\ DroppedBut(s, r, {n}, t) /\ Runs(r, 0, <<>>, t) /\ s \in Relays
        /\ s.lives = relay.lives /\ s.channel = relay.channel /\ s.inbox = relay.inbox
    BY <2>1 DEF ClosesSaved, Closing, SameObjects, SameWires
  <2> QED BY <2>2, <2>3, <1>2
<1> QED BY <1>1, <1>3, <1>4, <1>5

LEMMA MergesCalms ==
    ASSUME TypeInd, NEW r, ChannelInd(r), NEW m, NEW s, NEW t, Merges(r, m, s, t)
    PROVE  Calms(r)
<1>1. /\ Pops(r, m, s) /\ s.lives = relay.lives /\ s.channel = relay.channel /\ Runs(r, 0, <<>>, t) /\ r \in Replicas
      /\ t.channel = s.channel /\ t.inbox = s.inbox
      /\ t.lives = [n \in DOMAIN s.lives |->
            IF n \in Listening(r) THEN [s.lives[n] EXCEPT !.doc = Merge(s.lives[n].doc, m.doc)] ELSE s.lives[n]]
  BY DEF Merges, MergedTo, SameWires, Pops, Popped, SameObjects, Runs
<1>2. relay'.lives = t.lives /\ relay'.channel[r] = relay.channel[r] /\ relay'.inbox[r] = s.inbox[r]
  BY <1>1 DEF Runs, Took
<1>3. ASSUME NEW n \in DOMAIN relay.lives
      PROVE  /\ relay'.lives[n].replica = relay.lives[n].replica
             /\ relay'.lives[n].bus = relay.lives[n].bus /\ relay'.lives[n].dropping = relay.lives[n].dropping
             /\ relay.lives[n].doc.has \subseteq relay'.lives[n].doc.has
             /\ n \in Listening(r) => m.doc.has \subseteq relay'.lives[n].doc.has
  <2>1. relay.lives[n] \in Lives
    BY RelayIs, RelayFields
  <2>2. PICK l \in Lives : l = relay.lives[n]
    BY <2>1
  <2>3. CASE n \in Listening(r)
    <3>1. relay'.lives[n] = [l EXCEPT !.doc = Merge(l.doc, m.doc)]
      BY <1>1, <1>2, <2>2, <2>3
    <3>2. PICK d : d = Merge(l.doc, m.doc)
      OBVIOUS
    <3>3. l.doc.has \subseteq d.has /\ m.doc.has \subseteq d.has
      BY <3>2 DEF Merge
    <3>4. relay'.lives[n] = [l EXCEPT !.doc = d]
      BY <3>1, <3>2
    <3> QED BY <2>2, <3>3, <3>4 DEF Lives
  <2>4. CASE n \notin Listening(r)
    BY <1>1, <1>2, <2>4
  <2> QED BY <2>3, <2>4
<1>4. DOMAIN relay'.lives = DOMAIN relay.lives
  BY <1>1, <1>2
<1>5. SameRoom
  BY <1>3, <1>4 DEF SameRoom
<1>6. Brought(r) \subseteq Brought(r)' \cup m.doc.has
  BY <1>1, <1>2, BroughtPopped
<1>7. Of(r)' = Of(r) /\ Of(r) \subseteq DOMAIN relay.lives
  BY <1>5, RoomOf DEF Of
<1>8. \A n \in Of(r) : Subscribed(n)' => Subscribed(n)
  BY <1>3, <1>7 DEF Subscribed
<1>9. relay.channel[r] = "open" => \A n \in Of(r) : Subscribed(n) => n \in Listening(r)
  BY DEF Listening, Listeners, Subscribed, Of
<1>10. relay.channel[r] = "open" => \A n \in Of(r) : Subscribed(n)' =>
          relay.lives[n].doc.has \cup Brought(r) \subseteq relay'.lives[n].doc.has \cup Brought(r)'
  BY <1>3, <1>6, <1>7, <1>8, <1>9
<1>11. relay'.channel[r] = "closed" => \A n \in Of(r) : relay'.lives[n].bus = "none"
  BY <1>2, <1>3, <1>7 DEF ChannelInd
<1> QED BY <1>2, <1>3, <1>7, <1>8, <1>10, <1>11 DEF Calms

LEMMA WithoutCalms ==
    ASSUME TypeInd, MapsInd, NEW r, ChannelInd(r), NEW n, NEW t, GoesWithout(n, r, t)
    PROVE  Calms(r)
<1>1. /\ r \in Replicas /\ Runs(r, 0, <<>>, t) /\ t.channel = [relay.channel EXCEPT ![r] = "closed"]
      /\ t.inbox = relay.inbox
      /\ t.lives = [m \in DOMAIN relay.lives |->
            IF m \in Listeners(relay, r) THEN [relay.lives[m] EXCEPT !.bus = "none"] ELSE relay.lives[m]]
  BY DEF GoesWithout, Runs
<1>2. relay'.lives = t.lives /\ relay'.channel[r] = "closed"
  BY <1>1 DEF Runs, Took, TypeInd, Relays
<1>3. ASSUME NEW m \in DOMAIN relay.lives
      PROVE  /\ relay'.lives[m].replica = relay.lives[m].replica
             /\ relay.lives[m].replica = r => relay'.lives[m].bus = "none"
  <2>1. PICK l \in Lives : l = relay.lives[m]
    BY RelayIs, RelayFields
  <2>2. relay'.lives[m] = IF m \in Listeners(relay, r) THEN [l EXCEPT !.bus = "none"] ELSE l
    BY <1>1, <1>2, <2>1
  <2>3. [l EXCEPT !.bus = "none"].replica = l.replica /\ [l EXCEPT !.bus = "none"].bus = "none"
    BY <2>1 DEF Lives
  <2> QED BY <2>1, <2>2, <2>3 DEF Listeners
<1>4. DOMAIN relay'.lives = DOMAIN relay.lives
  BY <1>1, <1>2
<1>5. SameRoom
  BY <1>3, <1>4 DEF SameRoom
<1>6. \A m \in Of(r) : relay'.lives[m].bus = "none"
  BY <1>3 DEF Of
<1> QED BY <1>2, <1>5, <1>6, RoomOf DEF Calms, Subscribed

LEMMA DiesCalms ==
    ASSUME TypeInd, MapsInd, NEW r, Dies(r)
    PROVE  Calms(r)
<1>1. SameRoom /\ relay'.channel[r] = "closed" /\ \A m \in Of(r) : relay'.lives[m].bus = "none"
  BY DiesIs
<1> QED BY <1>1, RoomOf DEF Calms, Subscribed

\* One document is rewritten, its subscription as it was.
LEMMA StaysCalms ==
    ASSUME TypeInd, MapsInd, NEW r, ChannelInd(r), NEW n, NEW t,
           \/ \E p : Attaches(p, r, n, t)
           \/ Fires(n, r, t)
           \/ \E s : ClosesSaving(r, n, s, t)
           \/ EndsBuild(r, n, t)
           \/ \E p, edit : Integrates(p, r, n, edit, t)
    PROVE  Calms(r)
<1>1. ASSUME NEW v, OneLive(n, v), n \in Of(r), NEW l \in Lives, l = relay.lives[n], v.bus = l.bus,
             v.dropping = l.dropping, l.doc.has \subseteq v.doc.has, NEW c, NEW asked, Runs(r, c, asked, t),
             t.channel = relay.channel, t.inbox[r] = relay.inbox[r]
      PROVE  Calms(r)
  BY <1>1, CalmsOne
<1>2. \A m \in Of(r) : relay.lives[m] \in Lives
  BY RelayIs, RelayFields DEF Of
<1>3. CASE \E p : Attaches(p, r, n, t)
  <2>1. PICK p : Attaches(p, r, n, t)
    BY <1>3
  <2>2. n \in Of(r) /\ OneLive(n, JoinLive(relay.lives[n], {p})) /\ p \in Peers
    BY <2>1, AttachIs
  <2>3. PICK l \in Lives : l = relay.lives[n]
    BY <2>2, <1>2
  <2>4. PICK v : v = JoinLive(l, {p})
    OBVIOUS
  <2>5. v.bus = l.bus /\ v.dropping = l.dropping /\ v.doc = l.doc
    BY <2>2, <2>3, <2>4, JoinFields
  <2>6. Runs(r, 0, <<>>, t) /\ t.channel = relay.channel /\ t.inbox = relay.inbox
    BY <2>1 DEF Attaches, Rewritten, SameWires
  <2> QED BY <2>2, <2>3, <2>4, <2>5, <2>6, <1>1
<1>4. CASE Fires(n, r, t)
  <2>2. n \in Of(r) /\ OneLive(n, RestLive(relay.lives[n]))
    BY <1>4, FiresIs
  <2>3. PICK l \in Lives : l = relay.lives[n]
    BY <2>2, <1>2
  <2>4. PICK v : v = RestLive(l)
    OBVIOUS
  <2>5. v.bus = l.bus /\ v.dropping = l.dropping /\ v.doc = l.doc
    BY <2>3, <2>4, RestFields
  <2>6. /\ Runs(r, 0, <<SaveSession(n, relay.lives[n].doc, "timer")>>, t)
        /\ t.channel = relay.channel /\ t.inbox = relay.inbox
    BY <1>4 DEF Fires, FlushedTo, SameWires
  <2> QED BY <2>2, <2>3, <2>4, <2>5, <2>6, <1>1
<1>5. CASE \E s : ClosesSaving(r, n, s, t)
  <2>1. PICK s : ClosesSaving(r, n, s, t)
    BY <1>5
  <2>2. n \in Of(r) /\ OneLive(n, RestLive(relay.lives[n]))
    BY <2>1, ClosesSavingIs
  <2>3. PICK l \in Lives : l = relay.lives[n]
    BY <2>2, <1>2
  <2>4. PICK v : v = RestLive(l)
    OBVIOUS
  <2>5. v.bus = l.bus /\ v.dropping = l.dropping /\ v.doc = l.doc
    BY <2>3, <2>4, RestFields
  <2>6. /\ Runs(r, 0, <<SaveSession(n, relay.lives[n].doc, "close")>>, t)
        /\ t.channel = relay.channel /\ t.inbox = relay.inbox
    BY <2>1 DEF ClosesSaving, Closing, FlushedTo, SameWires
  <2> QED BY <2>2, <2>3, <2>4, <2>5, <2>6, <1>1
<1>6. CASE EndsBuild(r, n, t)
  <2>1. PICK who : who = IF relay.documents[r] = n /\ ~relay.lives[n].dropping THEN Waiting(r) ELSE {}
    OBVIOUS
  <2>2. n \in Of(r) /\ OneLive(n, JoinLive(relay.lives[n], who))
    BY <1>6, <2>1, EndsBuildIs
  <2>3. PICK l \in Lives : l = relay.lives[n]
    BY <2>2, <1>2
  <2>4. PICK v : v = JoinLive(l, who)
    OBVIOUS
  <2>7. who \in SUBSET Peers
    BY <2>1 DEF Waiting
  <2>5. v.bus = l.bus /\ v.dropping = l.dropping /\ v.doc = l.doc
    BY <2>3, <2>4, <2>7, JoinFields
  <2>6. Runs(r, 0, <<>>, t) /\ t.channel = relay.channel /\ t.inbox = relay.inbox
    BY <1>6 DEF EndsBuild, SameWires
  <2> QED BY <2>2, <2>3, <2>4, <2>5, <2>6, <1>1
<1>7. CASE \E p, edit : Integrates(p, r, n, edit, t)
  <2>1. PICK p, edit : Integrates(p, r, n, edit, t)
    BY <1>7
  <2>2. n \in Of(r) /\ OneLive(n, Edited(relay.lives[n], edit)) /\ edit \in Edits
    BY <2>1, IntegratesIs
  <2>3. PICK l \in Lives : l = relay.lives[n]
    BY <2>2, <1>2
  <2>4. PICK v : v = Edited(l, edit)
    OBVIOUS
  <2>5. v.bus = l.bus /\ v.dropping = l.dropping /\ v.doc.has = l.doc.has \cup {edit}
    BY <2>2, <2>3, <2>4, EditedFields
  <2>8. r = relay.lives[n].replica
    BY <2>2 DEF Of
  <2>6. Runs(r, 0, <<>>, t) /\ t.channel = relay.channel /\ t.inbox[r] = relay.inbox[r]
    BY <2>1, <2>8 DEF Integrates, EditedTo, Box, Runs
  <2> QED BY <2>2, <2>3, <2>4, <2>5, <2>6, <1>1
<1> QED BY <1>3, <1>4, <1>5, <1>6, <1>7

LEMMA SettlesCalms ==
    ASSUME TypeInd, MapsInd, NEW r, ChannelInd(r), NEW n, NEW circuit, NEW t, Settles(r, n, circuit, t)
    PROVE  Calms(r)
<1>1. n \in Of(r) /\ OneLive(n, Settled(relay.lives[n], circuit)) /\ circuit \in SUBSET Edits
  BY SettlesIs
<1>2. PICK l \in Lives : l = relay.lives[n]
  BY <1>1, RelayIs, RelayFields DEF Of
<1>3. PICK v : v = Settled(l, circuit)
  OBVIOUS
<1>4. v.bus = l.bus /\ v.dropping = l.dropping /\ v.doc = Merge(l.doc, Reverted(l.doc, circuit))
  BY <1>1, <1>2, <1>3, SettledFields
<1>5. l.doc.has \subseteq v.doc.has
  BY <1>4 DEF Merge
<1>6. Runs(r, 1, <<>>, t) /\ t.channel = relay.channel /\ t.inbox[r] = relay.inbox[r]
  BY DEF Settles, SettledTo, Box2, Runs
<1> QED BY <1>1, <1>2, <1>3, <1>4, <1>5, <1>6, CalmsOne

\* A message that brings nothing is taken.
LEMMA AnswersCalms ==
    ASSUME TypeInd, NEW r, ChannelInd(r), NEW m, NEW s, m.kind = "sync-request",
           Ignores(r, m, s) \/ \E t : Answers(r, m, s, t)
    PROVE  Calms(r)
<1>1. PICK t : /\ Runs(r, 0, <<>>, t) /\ t.lives = relay.lives /\ t.channel = relay.channel /\ t.inbox[r] = s.inbox[r]
               /\ Pops(r, m, s) /\ r \in Replicas
  <2>1. CASE Ignores(r, m, s)
    BY <2>1 DEF Ignores, Pops, Popped, SameObjects, Runs
  <2>2. CASE \E t : Answers(r, m, s, t)
    BY <2>2 DEF Answers, Published, Pops, Popped, SameObjects, Runs, Box
  <2> QED BY <2>1, <2>2
<1>2. relay'.lives = relay.lives /\ relay'.channel[r] = relay.channel[r] /\ relay'.inbox[r] = s.inbox[r]
  BY <1>1 DEF Runs, Took
<1>3. relay.inbox[r] # <<>> /\ m = Head(relay.inbox[r])
  BY <1>1 DEF Pops
<1>4. m \in Messages
  BY <1>1, <1>3, PopMakes
<1>5. m.doc.has = {}
  BY <1>4 DEF Messages
<1>6. Brought(r) \subseteq Brought(r)'
  BY <1>1, <1>2, <1>5, BroughtPopped
<1>7. SameRoom /\ \A n \in Of(r) : Holds(n)
  BY <1>2 DEF SameRoom, Holds
<1> QED BY <1>2, <1>6, <1>7, CalmsHeld

LEMMA TellsCalms ==
    ASSUME TypeInd, NEW r, ChannelInd(r), NEW circuit, NEW t, Tells(r, circuit, t)
    PROVE  Calms(r)
<1>1. Runs(r, 1, <<>>, t) /\ t.lives = relay.lives /\ t.channel = relay.channel /\ t.inbox[r] = relay.inbox[r]
  BY DEF Tells, Published, SameObjects, Box, Runs
<1> QED BY <1>1, CalmsSame

LEMMA HushedCalms ==
    ASSUME TypeInd, MapsInd, NEW r \in Replicas, QueueInd(r), ChannelInd(r), Hushed(r)
    PROVE  Calms(r)
<1>1. CASE \E p : Awaits(p, r)
  BY <1>1, CalmsSame DEF Awaits
<1>2. CASE \E n, t : GoesWithout(n, r, t)
  BY <1>2, WithoutCalms
<1>3. CASE \E n, t : LetsGo(r, n, t)
  BY <1>3, CalmsSame DEF LetsGo, Forgot, SameObjects, SameWires
<1>4. CASE \E t : Refuses(r, t) \/ Stops(r, t)
  BY <1>4, CalmsSame DEF Refuses, BuildRefused, Stops, SameObjects, SameWires
<1>5. CASE LooksOn(r) \/ Discards(r) \/ IsOver(r)
  BY <1>5, CalmsSame DEF LooksOn, Discards, IsOver
<1>6. CASE \E circuit, restore : AsksVersion(r, circuit, restore) /\ circuit \subseteq accepted /\ spent'.versions # 0
  BY <1>6, CalmsSame DEF AsksVersion
<1>7. CASE \E s : ClosesNone(r, s)
  BY <1>7, CalmsSame DEF ClosesNone, Closing, SameObjects, SameWires
<1>8. CASE \E m, s, t : Merges(r, m, s, t)
  BY <1>8, MergesCalms
<1>9. CASE \E m, s, t : IsTold(r, m, s, t)
  BY <1>9, DropsCalms
<1>10. CASE \E p, n, t : Attaches(p, r, n, t)
  BY <1>10, StaysCalms
<1>11. CASE \E p, t : Seeds(p, r, t)
  BY <1>11, CalmsSame DEF Seeds, SameObjects, SameWires
<1>12. CASE \E p, n, t : LeavesOthers(p, r, n, t) \/ LeavesSaving(p, r, n, t) \/ LeavesAtOnce(p, r, n, t)
  BY <1>12, LeavesCalms
<1>13. CASE \E n, t : Fires(n, r, t)
  BY <1>13, StaysCalms
<1>14. CASE \E n, t, s : ClosesSaving(r, n, s, t)
  BY <1>14, StaysCalms
<1>15. CASE \E n, t, s : ClosesSaved(r, n, s, t)
  BY <1>15, DropsCalms
<1>16. CASE \E n, t : EndsBuild(r, n, t)
  BY <1>16, StaysCalms
<1>17. CASE \E t, n : Finishes(r, n, t)
  BY <1>17, DropsCalms
<1>18. CASE \E t, p, n : Overgrows(p, r, n, t)
  BY <1>18, DropsCalms
<1>19. CASE Dies(r)
  BY <1>19, DiesCalms
<1> QED BY <1>1, <1>2, <1>3, <1>4, <1>5, <1>6, <1>7, <1>8, <1>9, <1>10, <1>11, <1>12, <1>13, <1>14, <1>15, <1>16, <1>17, <1>18, <1>19 DEF Hushed

LEMMA OpensChannel ==
    ASSUME TypeInd, MapsInd, running' = running, NEW r, ChannelInd(r), NEW n, NEW t, Opens(n, r, t),
           \A m \in Of(r) : owed'[m] \subseteq owed[m]
    PROVE  ChannelInd(r)'
<1>1. /\ n \in Of(r) /\ r \in Replicas /\ r \in running /\ relay.lives[n].bus = "opening"
      /\ relay'.lives = [relay.lives EXCEPT ![n] = OpenLive(relay.lives[n])]
      /\ relay'.channel = [relay.channel EXCEPT ![r] = "open"]
  BY DEF Opens, Runs, Took, Of
<1>2. PICK l \in Lives : l = relay.lives[n]
  BY <1>1, RelayIs, RelayFields DEF Of
<1>3. PICK v : v = OpenLive(l)
  OBVIOUS
<1>4. v.replica = l.replica /\ v.bus = "open" /\ v.dropping = l.dropping
  BY <1>2, <1>3, OpenFields
<1>5. relay'.lives[n] = v /\ DOMAIN relay'.lives = DOMAIN relay.lives
      /\ \A m \in DOMAIN relay.lives : m # n => relay'.lives[m] = relay.lives[m]
  BY <1>1, <1>2, <1>3 DEF Of
<1>6. SameRoom
  BY <1>2, <1>4, <1>5 DEF SameRoom
<1>7. Of(r)' = Of(r) /\ relay'.channel[r] = "open"
  BY <1>1, <1>6, RoomOf DEF TypeInd, Relays
<1>8. relay.channel[r] # "open"
  BY <1>1 DEF ChannelInd
<1>9. \A m \in Of(r) : m # n => relay.lives[m].bus # "opening"
  BY <1>1 DEF ChannelInd
<1>10. \A m \in Of(r) : relay'.lives[m].bus # "opening"
  <2> TAKE m \in Of(r)
  <2>1. CASE m = n
    BY <2>1, <1>4, <1>5
  <2>2. CASE m # n
    BY <2>2, <1>5, <1>9 DEF Of
  <2> QED BY <2>1, <2>2
<1>11. \A m \in Of(r) : Subscribed(m)' => Subscribed(m)
  <2> TAKE m \in Of(r)
  <2>1. CASE m = n
    BY <2>1, <1>1, <1>2, <1>4, <1>5 DEF Subscribed
  <2>2. CASE m # n
    BY <2>2, <1>5 DEF Of, Subscribed
  <2> QED BY <2>1, <2>2
<1>12. \A m \in Of(r) : Subscribed(m)' => owed'[m] = {}
  BY <1>8, <1>11 DEF ChannelInd
<1> QED BY <1>1, <1>7, <1>10, <1>12 DEF ChannelInd

LEMMA SetsUpChannel ==
    ASSUME TypeInd, MapsInd, MapsInd', running' = running, NEW r, ChannelInd(r), NEW doc, NEW t, SetsUp(r, doc, t),
           owed' = owed, \A m \in LiveIds \ DOMAIN relay.lives : owed[m] = {}
    PROVE  ChannelInd(r)'
<1>1. PICK n : n = Len(relay.lives) + 1
  OBVIOUS
<1>2. /\ n \in Nat /\ n # None /\ Len(relay'.lives) = n /\ n \notin DOMAIN relay.lives
      /\ DOMAIN relay'.lives = DOMAIN relay.lives \cup {n} /\ r \in Replicas /\ r \in running
      /\ \A m \in DOMAIN relay.lives : relay'.lives[m] = relay.lives[m]
      /\ relay'.lives[n].replica = r /\ relay'.lives[n].dropping = FALSE
      /\ relay'.lives[n].bus = (IF relay.channel[r] # "closed" THEN "open" ELSE "opening")
      /\ relay'.channel[r] = (IF relay.channel[r] # "closed" THEN relay.channel[r] ELSE "opening")
  BY <1>1, SetsUpIs DEF View
<1>3. n \in LiveIds
  <2>1. Len(relay'.lives) + Cardinality(Seeders') <= MaxBuilds
    BY DEF MapsInd, RoomInd
  <2>2. Cardinality(Seeders') \in Nat
    <3>1. Seeders' \subseteq Replicas
      BY DEF Seeders
    <3> QED BY <3>1, FS_Subset, FS_CardinalityType, DeploymentsAssumption
  <2>3. MaxBuilds \in Nat
    BY DeploymentsAssumption
  <2>4. n <= MaxBuilds /\ n >= 1
    BY <1>2, <2>1, <2>2, <2>3 DEF None
  <2> QED BY <1>2, <2>3, <2>4 DEF LiveIds
<1>4. owed'[n] = {}
  BY <1>2, <1>3
<1>5. Of(r)' = Of(r) \cup {n}
  BY <1>2 DEF Of
<1>6. \A m \in Of(r) : relay'.lives[m] = relay.lives[m] /\ m # n
  BY <1>2 DEF Of
<1>7. relay'.inbox[r] = relay.inbox[r]
  BY DEF SetsUp, BuiltTo, Box, Runs, Took
<1>8. Brought(r)' = Brought(r)
  BY <1>7, BroughtSame
<1>9. \A m \in Of(r) : Subscribed(m)' <=> Subscribed(m)
  BY <1>6 DEF Subscribed
<1>10. CASE relay.channel[r] = "closed"
  <2>1. relay'.channel[r] = "opening" /\ \A m \in Of(r) : relay'.lives[m].bus = "none"
    BY <1>2, <1>6, <1>10 DEF ChannelInd
  <2>2. \A m \in Of(r) : ~Subscribed(m)'
    BY <2>1 DEF Subscribed
  <2> QED BY <1>2, <1>4, <1>5, <2>1, <2>2 DEF ChannelInd
<1>11. CASE relay.channel[r] # "closed"
  <2>1. relay'.channel[r] = relay.channel[r] /\ relay'.lives[n].bus = "open"
    BY <1>2, <1>11
  <2>2. relay'.channel[r] = "open" => \A m \in Of(r)' : relay'.lives[m].bus # "opening"
    BY <1>5, <1>6, <2>1 DEF ChannelInd
  <2>3. \A m, k \in Of(r)' : relay'.lives[m].bus = "opening" /\ relay'.lives[k].bus = "opening" => m = k
    BY <1>5, <1>6, <2>1 DEF ChannelInd
  <2>4. \A m \in Of(r) : Subscribed(m)' =>
          owed'[m] \subseteq IF relay'.channel[r] = "open" THEN relay'.lives[m].doc.has \cup Brought(r)' ELSE {}
    BY <1>6, <1>8, <1>9, <2>1 DEF ChannelInd
  <2>5. \A m \in Of(r)' : Subscribed(m)' =>
          owed'[m] \subseteq IF relay'.channel[r] = "open" THEN relay'.lives[m].doc.has \cup Brought(r)' ELSE {}
    BY <1>4, <1>5, <2>4
  <2> QED BY <1>2, <1>11, <2>1, <2>2, <2>3, <2>5 DEF ChannelInd
<1> QED BY <1>10, <1>11

\* What a step of r leaves to the others.
LEMMA CarriedBrought ==
    ASSUME NEW r, NEW given, Carried(r, given), NEW q \in Replicas, q # r
    PROVE  /\ Brought(q) \subseteq Brought(q)'
           /\ relay.channel[q] = "open" => \A m \in given : m.doc.has \subseteq Brought(q)'
<1>1. /\ \A i \in DOMAIN relay.inbox[q] : i \in DOMAIN relay'.inbox[q] /\ relay'.inbox[q][i] = relay.inbox[q][i]
      /\ relay.channel[q] = "open" => \A m \in given : \E i \in DOMAIN relay'.inbox[q] : relay'.inbox[q][i] = m
  BY DEF Carried
<1>2. \A i \in DOMAIN relay'.inbox[q] : relay'.inbox[q][i].doc.has \subseteq Brought(q)'
  BY DEF Brought
<1>3. \A i \in DOMAIN relay.inbox[q] : relay.inbox[q][i].doc.has \subseteq Brought(q)'
  BY <1>1, <1>2
<1> QED BY <1>1, <1>2, <1>3 DEF Brought

LEMMA BusMade ==
    ASSUME BusInd, running' = running, NEW r \in Replicas, Elsewhere(r), NEW given, Carried(r, given),
           ChannelInd(r)', \A n \in LiveIds : owed'[n] \subseteq owed[n],
           \A q \in Replicas : Of(q) \subseteq LiveIds
    PROVE  BusInd'
<1>1. ASSUME NEW q \in Replicas, q # r
      PROVE  ChannelInd(q)'
  <2>1. ChannelInd(q) /\ Brought(q) \subseteq Brought(q)'
    BY <1>1, CarriedBrought DEF BusInd
  <2>2. \A n \in Of(q) : owed'[n] \subseteq owed[n]
    OBVIOUS
  <2>3. \A n \in Of(q) : Subscribed(n) => owed'[n] \subseteq
          owed[n] \cup (IF relay.channel[q] = "open" THEN Brought(q)' ELSE {})
    BY <2>2
  <2> QED BY <1>1, <2>1, <2>3, ChannelElsewhere
<1>2. \A n \in LiveIds \ DOMAIN relay'.lives : owed'[n] = {}
  BY DEF Elsewhere, BusInd
<1> QED BY <1>1, <1>2 DEF BusInd

LEMMA IdsAre ==
    ASSUME TypeInd, MapsInd
    PROVE  DOMAIN relay.lives \subseteq LiveIds /\ \A q \in Replicas : Of(q) \subseteq LiveIds
<1>1. Len(relay.lives) + Cardinality(Seeders) <= MaxBuilds
  BY DEF MapsInd, RoomInd
<1>2. Cardinality(Seeders) \in Nat /\ MaxBuilds \in Nat
  BY SeedersAre, DeploymentsAssumption
<1>3. Len(relay.lives) \in Nat /\ DOMAIN relay.lives = 1 .. Len(relay.lives)
  BY RelayIs, RelayFields
<1>4. Len(relay.lives) <= MaxBuilds
  BY <1>1, <1>2, <1>3
<1>5. DOMAIN relay.lives \subseteq LiveIds
  BY <1>2, <1>3, <1>4 DEF LiveIds
<1> QED BY <1>5 DEF Of

LEMMA InnerBus ==
    ASSUME TypeInd, MapsInd, MapsInd', BusInd, running' = running, NEW r \in Replicas, r \in running, QueueInd(r),
           Inner(r), Elsewhere(r), NEW given, Sends(r, given), owed' = owed
    PROVE  BusInd'
<1>1. ChannelInd(r) /\ Carried(r, given) /\ \A n \in Of(r) : owed'[n] \subseteq owed[n]
  BY DEF BusInd, Sends
<1>2. ChannelInd(r)'
  <2>1. CASE Calms(r)
    BY <2>1, <1>1, CalmChannel
  <2>2. CASE \E n, t : Opens(n, r, t)
    BY <2>2, <1>1, OpensChannel
  <2>3. CASE \E doc, t : SetsUp(r, doc, t)
    BY <2>3, <1>1, SetsUpChannel DEF BusInd
  <2>4. CASE Hushed(r)
    BY <2>1, <2>4, <1>1, HushedCalms
  <2>5. CASE \E m, s, t : Answers(r, m, s, t)
    <3>1. PICK m, s, t : Answers(r, m, s, t)
      BY <2>5
    <3>2. m.kind = "sync-request"
      BY <3>1 DEF Answers
    <3> QED BY <3>1, <3>2, <2>1, <1>1, AnswersCalms
  <2>6. CASE \E t, circuit : Tells(r, circuit, t)
    BY <2>6, <2>1, <1>1, TellsCalms
  <2>7. CASE \E n, t, circuit : Settles(r, n, circuit, t)
    BY <2>7, <2>1, <1>1, SettlesCalms
  <2> QED BY <2>2, <2>3, <2>4, <2>5, <2>6, <2>7 DEF Inner
<1>3. \A n \in LiveIds : owed'[n] \subseteq owed[n]
  OBVIOUS
<1> QED BY <1>1, <1>2, <1>3, IdsAre, BusMade

\* An edit is owed to the documents that listen on other processes.
OwesEdit(r, edit) ==
    owed' = [n \in LiveIds |->
        IF n \in UNION {Listening(q) : q \in running \ {r}} THEN owed[n] \cup {edit} ELSE owed[n]]

LEMMA IntegratesBus ==
    ASSUME TypeInd, MapsInd, BusInd, running' = running, NEW r \in Replicas, r \in running, Elsewhere(r),
           NEW p, NEW n, NEW edit, NEW t, Integrates(p, r, n, edit, t), Sends(r, {Update(DocumentOf({edit}))}),
           OwesEdit(r, edit)
    PROVE  BusInd'
<1> DEFINE m == Update(DocumentOf({edit}))
<1>1. /\ \A q \in Replicas : ChannelInd(q) /\ Of(q) \subseteq LiveIds
      /\ Carried(r, {m}) /\ running \subseteq Replicas
  BY IdsAre, RelayIs DEF BusInd, Sends
<1>2. edit \in Edits /\ m.doc.has = {edit}
  <2>1. edit \in Edits
    BY DEF Integrates
  <2>2. DocumentOf({edit}) \in Documents /\ DocumentOf({edit}).has = {edit}
    BY <2>1 DEF DocumentOf, Documents
  <2> QED BY <2>1, <2>2, UpdateIsMessage
<1> HIDE DEF m
<1>3. ASSUME NEW q \in Replicas, NEW n1 \in Of(q), NEW q1 \in Replicas, n1 \in Listening(q1)
      PROVE  q = q1
  BY <1>3, ListeningOf DEF Of
<1>4. ASSUME NEW q \in Replicas, NEW n1 \in Of(q)
      PROVE  owed'[n1] = IF q # r /\ n1 \in Listening(q) /\ q \in running THEN owed[n1] \cup {edit} ELSE owed[n1]
  <2>1. n1 \in LiveIds
    BY <1>1
  <2>2. owed'[n1] = IF n1 \in UNION {Listening(q1) : q1 \in running \ {r}} THEN owed[n1] \cup {edit} ELSE owed[n1]
    BY <2>1 DEF OwesEdit
  <2>3. n1 \in UNION {Listening(q1) : q1 \in running \ {r}} <=> q # r /\ n1 \in Listening(q) /\ q \in running
    BY <1>1, <1>3
  <2> QED BY <2>2, <2>3
<1>5. ChannelInd(r)'
  <2>1. Calms(r)
    BY <1>1, StaysCalms
  <2>2. \A n1 \in Of(r) : owed'[n1] = owed[n1]
    BY <1>4
  <2> QED BY <1>1, <2>1, <2>2, CalmChannel
<1>6. ASSUME NEW q \in Replicas, q # r
      PROVE  ChannelInd(q)'
  <2>1. ChannelInd(q) /\ Brought(q) \subseteq Brought(q)'
    BY <1>1, <1>6, CarriedBrought
  <2>2. relay.channel[q] = "open" => {edit} \subseteq Brought(q)'
    BY <1>1, <1>2, <1>6, CarriedBrought
  <2>3. ASSUME NEW n1 \in Of(q)
        PROVE  owed'[n1] \subseteq owed[n1] \cup (IF relay.channel[q] = "open" THEN Brought(q)' ELSE {})
    <3>1. CASE n1 \in Listening(q)
      BY <3>1, <1>4, <2>2, ListeningOf
    <3>2. CASE n1 \notin Listening(q)
      BY <3>2, <1>4
    <3> QED BY <3>1, <3>2
  <2> QED BY <1>6, <2>1, <2>3, ChannelElsewhere
<1>7. \A n1 \in LiveIds \ DOMAIN relay'.lives : owed'[n1] = {}
  <2> TAKE n1 \in LiveIds \ DOMAIN relay'.lives
  <2>1. n1 \notin DOMAIN relay.lives
    BY DEF Elsewhere
  <2>2. n1 \notin UNION {Listening(q1) : q1 \in running \ {r}}
    BY <2>1, ListeningIs
  <2> QED BY <2>1, <2>2 DEF OwesEdit, BusInd
<1> QED BY <1>5, <1>6, <1>7 DEF BusInd

LEMMA IgnoresBus ==
    ASSUME TypeInd, MapsInd, BusInd, running' = running, NEW r \in Replicas, r \in running, Elsewhere(r),
           NEW m, NEW s, Ignores(r, m, s),
           \/ m.kind = "sync-request" /\ owed' = owed
           \/ \A n \in LiveIds : owed'[n] = {}
    PROVE  BusInd'
<1>1. ChannelInd(r) /\ (\A q \in Replicas : Of(q) \subseteq LiveIds)
  BY IdsAre DEF BusInd
<1>2. Sends(r, {})
  BY RunsSilent DEF Ignores
<1>3. \A n \in LiveIds : owed'[n] \subseteq owed[n]
  OBVIOUS
<1>4. ChannelInd(r)'
  <2>1. CASE m.kind = "sync-request" /\ owed' = owed
    <3>1. Calms(r)
      BY <2>1, <1>1, AnswersCalms
    <3> QED BY <1>1, <1>3, <3>1, CalmChannel
  <2>2. CASE \A n \in LiveIds : owed'[n] = {}
    <3>1. relay'.lives = relay.lives /\ relay'.channel[r] = relay.channel[r]
      BY DEF Ignores, Pops, Popped, SameObjects, Runs, Took
    <3>2. Of(r)' = Of(r)
      BY <3>1 DEF Of
    <3>3. \A n \in Of(r) : owed'[n] = {}
      BY <1>1, <2>2
    <3> QED BY <3>1, <3>2, <3>3, <1>1 DEF ChannelInd
  <2> QED BY <2>1, <2>2
<1>5. Carried(r, {})
  BY <1>2 DEF Sends
<1> QED BY <1>1, <1>3, <1>4, <1>5, BusMade

------------------------------------------------------------------------------
(* A step holds and asks for what was accepted. *)

SameDocs == SameRoom /\ \A m \in DOMAIN relay.lives : relay'.lives[m].doc = relay.lives[m].doc

LEMMA OneDoc ==
    ASSUME NEW n, NEW v, OneLive(n, v), v.doc = relay.lives[n].doc
    PROVE  SameDocs
BY DEF OneLive, SameDocs

LEMMA LivesDocs ==
    ASSUME relay'.lives = relay.lives
    PROVE  SameDocs
BY DEF SameDocs, SameRoom

LEMMA EmptyDocs ==
    ASSUME NEW r, NEW G, Empties(r, G)
    PROVE  SameDocs
<1>1. /\ SameRoom
      /\ \A m \in DOMAIN relay.lives : m \notin G => relay'.lives[m] = relay.lives[m]
      /\ \A m \in G : relay'.lives[m].doc = relay.lives[m].doc
  BY DEF Empties
<1> QED BY <1>1 DEF SameDocs

LEMMA SameDocsHushed ==
    ASSUME TypeInd, MapsInd, NEW r \in Replicas, QueueInd(r), Hushed(r), \A m, s, t : ~Merges(r, m, s, t)
    PROVE  SameDocs
<1>0. \A m \in Of(r) : relay.lives[m] \in Lives
  BY RelayIs, RelayFields DEF Of
<1>1. CASE \/ \E p : Awaits(p, r)
           \/ \E n, t : LetsGo(r, n, t)
           \/ \E t : Refuses(r, t) \/ Stops(r, t)
           \/ LooksOn(r) \/ Discards(r) \/ IsOver(r)
           \/ \E circuit, restore : AsksVersion(r, circuit, restore)
           \/ \E s : ClosesNone(r, s)
           \/ \E p, t : Seeds(p, r, t)
  <2>1. CASE \E p : Awaits(p, r)
    BY <2>1, LivesDocs DEF Awaits, Runs, Took
  <2>2. CASE \E n, t : LetsGo(r, n, t)
    BY <2>2, LivesDocs DEF LetsGo, Forgot, SameObjects, Runs, Took
  <2>3. CASE \E t : Refuses(r, t) \/ Stops(r, t)
    BY <2>3, LivesDocs DEF Refuses, BuildRefused, Stops, SameObjects, Runs, Took
  <2>4. CASE LooksOn(r) \/ Discards(r) \/ IsOver(r)
    BY <2>4, LivesDocs DEF LooksOn, Discards, IsOver, Runs, Took
  <2>5. CASE \E circuit, restore : AsksVersion(r, circuit, restore)
    BY <2>5, LivesDocs DEF AsksVersion, Runs, Took
  <2>6. CASE \E s : ClosesNone(r, s)
    BY <2>6, LivesDocs DEF ClosesNone, Closing, SameObjects, Runs, Took
  <2>7. CASE \E p, t : Seeds(p, r, t)
    BY <2>7, LivesDocs DEF Seeds, SameObjects, Runs, Took
  <2> QED BY <1>1, <2>1, <2>2, <2>3, <2>4, <2>5, <2>6, <2>7
<1>2. CASE \E n, t : GoesWithout(n, r, t)
  <2>1. PICK n, t : GoesWithout(n, r, t)
    BY <1>2
  <2>2. /\ relay'.lives = [m \in DOMAIN relay.lives |->
              IF m \in Listeners(relay, r) THEN [relay.lives[m] EXCEPT !.bus = "none"] ELSE relay.lives[m]]
    BY <2>1 DEF GoesWithout, Runs, Took
  <2>3. ASSUME NEW m \in DOMAIN relay.lives
        PROVE  relay'.lives[m].replica = relay.lives[m].replica /\ relay'.lives[m].doc = relay.lives[m].doc
    <3>1. PICK l \in Lives : l = relay.lives[m]
      BY RelayIs, RelayFields
    <3>2. relay'.lives[m] = IF m \in Listeners(relay, r) THEN [l EXCEPT !.bus = "none"] ELSE l
      BY <2>2, <3>1
    <3> QED BY <3>1, <3>2 DEF Lives
  <2>4. DOMAIN relay'.lives = DOMAIN relay.lives
    BY <2>2
  <2> QED BY <2>3, <2>4 DEF SameDocs, SameRoom
<1>3. CASE \E m, s, t : IsTold(r, m, s, t)
  <2>1. Empties(r, Listening(r))
    BY <1>3, IsToldIs
  <2> QED BY <2>1, EmptyDocs
<1>4. CASE \E p, n, t : Attaches(p, r, n, t)
  <2>1. PICK p, n, t : Attaches(p, r, n, t)
    BY <1>4
  <2>2. n \in Of(r) /\ OneLive(n, JoinLive(relay.lives[n], {p})) /\ p \in Peers
    BY <2>1, AttachIs
  <2>3. JoinLive(relay.lives[n], {p}).doc = relay.lives[n].doc
    BY <2>2, <1>0, JoinFields
  <2> QED BY <2>2, <2>3, OneDoc
<1>5. CASE \E p, n, t : LeavesOthers(p, r, n, t) \/ LeavesSaving(p, r, n, t) \/ LeavesAtOnce(p, r, n, t)
  <2>1. PICK p, n, t : LeavesOthers(p, r, n, t) \/ LeavesSaving(p, r, n, t) \/ LeavesAtOnce(p, r, n, t)
    BY <1>5
  <2>2. CASE LeavesOthers(p, r, n, t)
    <3>1. n \in Of(r) /\ OneLive(n, LeftLive(relay.lives[n], p))
      BY <2>2, LeavesOthersIs
    <3>2. LeftLive(relay.lives[n], p).doc = relay.lives[n].doc
      BY <3>1, <1>0, LeftFields
    <3> QED BY <3>1, <3>2, OneDoc
  <2>3. CASE LeavesSaving(p, r, n, t)
    <3>1. n \in Of(r) /\ OneLive(n, LeftAtRest(relay.lives[n], p))
      BY <2>3, LeavesSavingIs
    <3>2. LeftAtRest(relay.lives[n], p).doc = relay.lives[n].doc
      BY <3>1, <1>0, LeftAloneFields
    <3> QED BY <3>1, <3>2, OneDoc
  <2>4. CASE LeavesAtOnce(p, r, n, t)
    <3>1. n \in Of(r) /\ OneLive(n, LeftAlone(relay.lives[n], p))
      BY <2>4, LeavesAtOnceIs
    <3>2. LeftAlone(relay.lives[n], p).doc = relay.lives[n].doc
      BY <3>1, <1>0, LeftAloneFields
    <3> QED BY <3>1, <3>2, OneDoc
  <2> QED BY <2>1, <2>2, <2>3, <2>4
<1>6. CASE \E n, t : Fires(n, r, t) \/ \E s : ClosesSaving(r, n, s, t)
  <2>1. PICK n, t : Fires(n, r, t) \/ \E s : ClosesSaving(r, n, s, t)
    BY <1>6
  <2>2. n \in Of(r) /\ OneLive(n, RestLive(relay.lives[n]))
    BY <2>1, FiresIs, ClosesSavingIs
  <2>3. RestLive(relay.lives[n]).doc = relay.lives[n].doc
    BY <2>2, <1>0, RestFields
  <2> QED BY <2>2, <2>3, OneDoc
<1>7. CASE \E n, t, s : ClosesSaved(r, n, s, t)
  BY <1>7, ClosesSavedIs, EmptyDocs
<1>8. CASE \E n, t : EndsBuild(r, n, t)
  <2>1. PICK n, t : EndsBuild(r, n, t)
    BY <1>8
  <2>2. PICK who : who = IF relay.documents[r] = n /\ ~relay.lives[n].dropping THEN Waiting(r) ELSE {}
    OBVIOUS
  <2>3. n \in Of(r) /\ OneLive(n, JoinLive(relay.lives[n], who))
    BY <2>1, <2>2, EndsBuildIs
  <2>4. who \in SUBSET Peers
    BY <2>2 DEF Waiting
  <2>5. JoinLive(relay.lives[n], who).doc = relay.lives[n].doc
    BY <2>3, <2>4, <1>0, JoinFields
  <2> QED BY <2>3, <2>5, OneDoc
<1>9. CASE \E t, n : Finishes(r, n, t)
  BY <1>9, FinishesIs, EmptyDocs
<1>10. CASE \E t, p, n : Overgrows(p, r, n, t)
  BY <1>10, OvergrowsIs, EmptyDocs
<1>11. CASE Dies(r)
  <2>1. /\ SameRoom
        /\ \A m \in DOMAIN relay.lives : m \notin Of(r) => relay'.lives[m] = relay.lives[m]
        /\ \A m \in Of(r) : relay'.lives[m].doc = relay.lives[m].doc
    BY <1>11, DiesIs
  <2> QED BY <2>1 DEF SameDocs
<1> QED BY <1>1, <1>2, <1>3, <1>4, <1>5, <1>6, <1>7, <1>8, <1>9, <1>10, <1>11 DEF Hushed

LEMMA SameDocsFrom ==
    ASSUME AcceptedInd, SameDocs, accepted \subseteq accepted'
    PROVE  \A n \in DOMAIN relay'.lives : From(relay'.lives[n].doc, accepted')
BY FromGrows DEF SameDocs, SameRoom, AcceptedInd

LEMMA OneDocFrom ==
    ASSUME AcceptedInd, accepted \subseteq accepted', NEW n, NEW v, OneLive(n, v), From(v.doc, accepted')
    PROVE  \A m \in DOMAIN relay'.lives : From(relay'.lives[m].doc, accepted')
<1>1. \A m \in DOMAIN relay.lives : From(relay.lives[m].doc, accepted')
  BY FromGrows DEF AcceptedInd
<1> QED BY <1>1 DEF OneLive, SameRoom

LEMMA MergesFrom ==
    ASSUME TypeInd, AcceptedInd, accepted \subseteq accepted', NEW r, NEW m, NEW s, NEW t, Merges(r, m, s, t)
    PROVE  \A n \in DOMAIN relay'.lives : From(relay'.lives[n].doc, accepted')
<1>1. /\ s.lives = relay.lives /\ r \in Replicas /\ relay.inbox[r] # <<>> /\ m = Head(relay.inbox[r])
      /\ relay'.lives = [n \in DOMAIN relay.lives |->
            IF n \in Listening(r) THEN [relay.lives[n] EXCEPT !.doc = Merge(relay.lives[n].doc, m.doc)] ELSE relay.lives[n]]
  BY DEF Merges, MergedTo, Pops, Popped, SameObjects, Runs, Took
<1>2. relay.inbox[r] \in Seq(Messages)
  BY <1>1 DEF TypeInd, Relays
<1>3. 1 \in DOMAIN relay.inbox[r] /\ m = relay.inbox[r][1]
  BY <1>1, <1>2
<1>4. From(m.doc, accepted)
  BY <1>1, <1>3 DEF AcceptedInd
<1>5. ASSUME NEW n \in DOMAIN relay.lives
      PROVE  From(relay'.lives[n].doc, accepted')
  <2>1. PICK l \in Lives : l = relay.lives[n]
    BY RelayIs, RelayFields
  <2>2. From(l.doc, accepted)
    BY <2>1 DEF AcceptedInd
  <2>3. PICK d : d = Merge(l.doc, m.doc)
    OBVIOUS
  <2>4. From(d, accepted)
    BY <1>4, <2>2, <2>3 DEF From, Merge
  <2>5. relay'.lives[n] = IF n \in Listening(r) THEN [l EXCEPT !.doc = d] ELSE l
    BY <1>1, <2>1, <2>3
  <2>6. [l EXCEPT !.doc = d].doc = d
    BY <2>1 DEF Lives
  <2>7. relay'.lives[n].doc = d \/ relay'.lives[n].doc = l.doc
    BY <2>5, <2>6
  <2> QED BY <2>2, <2>4, <2>7, FromGrows
<1> QED BY <1>1, <1>5

LEMMA InnerDocs ==
    ASSUME TypeInd, MapsInd, AcceptedInd, accepted \subseteq accepted', NEW r \in Replicas, QueueInd(r), Inner(r)
    PROVE  \A n \in DOMAIN relay'.lives : From(relay'.lives[n].doc, accepted')
<1>1. CASE \E m, s, t : Merges(r, m, s, t)
  BY <1>1, MergesFrom
<1>2. CASE Hushed(r) /\ \A m, s, t : ~Merges(r, m, s, t)
  BY <1>2, SameDocsHushed, SameDocsFrom
<1>3. CASE \E n, t : Opens(n, r, t)
  <2>1. PICK n, t : Opens(n, r, t)
    BY <1>3
  <2>2. PICK l \in Lives : l = relay.lives[n] /\ n \in DOMAIN relay.lives
    BY <2>1, RelayIs, RelayFields DEF Opens
  <2>3. PICK v : v = OpenLive(l)
    OBVIOUS
  <2>4. relay'.lives = [relay.lives EXCEPT ![n] = v]
    BY <2>1, <2>2, <2>3 DEF Opens, Runs, Took
  <2>5. v.doc = l.doc
    BY <2>3, <2>2, OpenFields
  <2>6. \A m \in DOMAIN relay'.lives : m \in DOMAIN relay.lives /\ relay'.lives[m].doc = relay.lives[m].doc
    BY <2>2, <2>4, <2>5
  <2> QED BY <2>6, FromGrows DEF AcceptedInd
<1>4. CASE (\E m, s, t : Answers(r, m, s, t)) \/ (\E t, circuit : Tells(r, circuit, t))
  <2>1. relay'.lives = relay.lives
    BY <1>4 DEF Answers, Pops, Popped, Tells, Published, SameObjects, Runs, Took
  <2> QED BY <2>1, LivesDocs, SameDocsFrom
<1>5. CASE \E n, t, circuit : Settles(r, n, circuit, t)
  <2>1. PICK n, t, circuit : Settles(r, n, circuit, t)
    BY <1>5
  <2>2. n \in Of(r) /\ OneLive(n, Settled(relay.lives[n], circuit)) /\ circuit \in SUBSET Edits
    BY <2>1, SettlesIs
  <2>3. PICK l \in Lives : l = relay.lives[n] /\ n \in DOMAIN relay.lives
    BY <2>2, RelayIs, RelayFields DEF Of
  <2>4. PICK v : v = Settled(l, circuit)
    OBVIOUS
  <2>5. v.doc = Merge(l.doc, Reverted(l.doc, circuit))
    BY <2>2, <2>3, <2>4, SettledFields
  <2>6. circuit \subseteq accepted
    <3>1. Runs(r, 1, <<>>, t) /\ Head(db[r]).kind = "append" /\ circuit = Head(db[r]).circuit
      BY <2>1 DEF Settles
    <3> QED BY <3>1, HeadFrom DEF StatementFrom
  <2>7. From(l.doc, accepted)
    BY <2>3 DEF AcceptedInd
  <2>8. From(v.doc, accepted')
    BY <2>5, <2>6, <2>7, RevertedIsFrom, FromGrows
  <2>9. OneLive(n, v)
    BY <2>2, <2>3, <2>4
  <2> QED BY <2>8, <2>9, OneDocFrom
<1>6. CASE \E doc, t : SetsUp(r, doc, t) /\ From(doc, accepted)
  <2>1. PICK doc, t : SetsUp(r, doc, t) /\ From(doc, accepted)
    BY <1>6
  <2>2. PICK n : n = Len(relay.lives) + 1
    OBVIOUS
  <2>3. /\ DOMAIN relay'.lives = DOMAIN relay.lives \cup {n} /\ relay'.lives[n].doc = doc
        /\ \A m \in DOMAIN relay.lives : relay'.lives[m] = relay.lives[m]
    BY <2>1, <2>2, SetsUpIs
  <2> QED BY <2>1, <2>3, FromGrows DEF AcceptedInd
<1> QED BY <1>1, <1>2, <1>3, <1>4, <1>5, <1>6 DEF Inner

LEMMA IntegratesFrom ==
    ASSUME TypeInd, MapsInd, AcceptedInd, accepted \subseteq accepted', NEW p, NEW r, NEW n, NEW edit, NEW t,
           Integrates(p, r, n, edit, t), edit \in accepted'
    PROVE  \A m \in DOMAIN relay'.lives : From(relay'.lives[m].doc, accepted')
<1>1. n \in Of(r) /\ OneLive(n, Edited(relay.lives[n], edit)) /\ edit \in Edits
  BY IntegratesIs
<1>2. PICK l \in Lives : l = relay.lives[n] /\ n \in DOMAIN relay.lives
  BY <1>1, RelayIs, RelayFields DEF Of
<1>3. PICK v : v = Edited(l, edit)
  OBVIOUS
<1>4. v.doc.has = l.doc.has \cup {edit} /\ v.doc.gone = l.doc.gone
  BY <1>1, <1>2, <1>3, EditedFields
<1>5. From(l.doc, accepted)
  BY <1>2 DEF AcceptedInd
<1>6. From(v.doc, accepted')
  BY <1>4, <1>5 DEF From
<1>7. OneLive(n, v)
  BY <1>1, <1>2, <1>3
<1> QED BY <1>6, <1>7, OneDocFrom

------------------------------------------------------------------------------
(* What it asks for. *)

AskedFrom(asked) == Len(asked) = 1 => StatementFrom(asked[1], accepted)

LEMMA StatementGrows ==
    ASSUME NEW st, NEW given, NEW more, StatementFrom(st, given), given \subseteq more
    PROVE  StatementFrom(st, more)
BY DEF StatementFrom, From

LEMMA QueueFrom ==
    ASSUME TypeInd, AcceptedInd, accepted \subseteq accepted', NEW r, NEW c, NEW asked, NEW t, Runs(r, c, asked, t),
           AskedFrom(asked)
    PROVE  \A q \in Replicas : \A i \in DOMAIN db'[q] : StatementFrom(db'[q][i], accepted')
<1>1. r \in Replicas /\ \A q \in Replicas : q # r => db'[q] = db[q]
  BY RunsQueue
<1>2. \A q \in Replicas : \A i \in DOMAIN db[q] : StatementFrom(db[q][i], accepted')
  BY StatementGrows DEF AcceptedInd
<1>3. ASSUME NEW i \in DOMAIN db'[r]
      PROVE  StatementFrom(db'[r][i], accepted')
  <2>1. \/ \E j \in DOMAIN db[r] : db'[r][i] = db[r][j]
        \/ Len(asked) = 1 /\ db'[r][i] = asked[1]
    BY TurnedIs
  <2>2. CASE \E j \in DOMAIN db[r] : db'[r][i] = db[r][j]
    BY <1>1, <1>2, <2>2
  <2>3. CASE Len(asked) = 1 /\ db'[r][i] = asked[1]
    <3>1. StatementFrom(asked[1], accepted)
      BY <2>3 DEF AskedFrom
    <3> QED BY <2>3, <3>1, StatementGrows
  <2> QED BY <2>1, <2>2, <2>3
<1> QED BY <1>1, <1>2, <1>3

LEMMA AsksFrom ==
    ASSUME AcceptedInd
    PROVE  /\ AskedFrom(<<>>) /\ AskedFrom(<<LoadSession>>) /\ AskedFrom(<<LatestVersion>>)
           /\ \A b \in BOOLEAN : AskedFrom(<<DropSession(b)>>)
           /\ \A circuit, restore : circuit \subseteq accepted => AskedFrom(<<AppendVersion(circuit, restore)>>)
           /\ \A n \in DOMAIN relay.lives : \A why : AskedFrom(<<SaveSession(n, relay.lives[n].doc, why)>>)
<1>1. AskedFrom(<<>>)
  BY DEF AskedFrom
<1>2. \A st : StatementFrom(st, accepted) => AskedFrom(<<st>>)
  BY DEF AskedFrom
<1>3. StatementFrom(LoadSession, accepted)
  BY AskedIs DEF StatementFrom, LoadSession
<1>4. StatementFrom(LatestVersion, accepted)
  BY AskedIs DEF StatementFrom, LatestVersion
<1>5. \A b \in BOOLEAN : StatementFrom(DropSession(b), accepted)
  BY AskedIs DEF StatementFrom
<1>6. \A circuit, restore : circuit \subseteq accepted => StatementFrom(AppendVersion(circuit, restore), accepted)
  BY AskedIs DEF StatementFrom
<1>7. \A n \in DOMAIN relay.lives : \A why : StatementFrom(SaveSession(n, relay.lives[n].doc, why), accepted)
  BY AskedIs DEF StatementFrom, AcceptedInd
<1> QED BY <1>1, <1>2, <1>3, <1>4, <1>5, <1>6, <1>7

LEMMA InnerAsks ==
    ASSUME TypeInd, MapsInd, AcceptedInd, NEW r \in Replicas, QueueInd(r), Inner(r)
    PROVE  Dies(r) \/ \E c, asked, t : Runs(r, c, asked, t) /\ AskedFrom(asked)
<1> DEFINE Asks == \E c, asked, t : Runs(r, c, asked, t) /\ AskedFrom(asked)
<1>0. /\ AskedFrom(<<>>) /\ AskedFrom(<<LoadSession>>) /\ AskedFrom(<<LatestVersion>>)
      /\ AskedFrom(<<DropSession(TRUE)>>) /\ AskedFrom(<<DropSession(FALSE)>>)
  BY AsksFrom
<1>1. CASE (\E p : Awaits(p, r)) \/ \E s : ClosesNone(r, s)
  BY <1>0, <1>1 DEF Awaits, ClosesNone
<1>2. CASE \E n, t : GoesWithout(n, r, t) \/ LetsGo(r, n, t) \/ Opens(n, r, t)
  BY <1>0, <1>2 DEF GoesWithout, LetsGo, Opens
<1>3. CASE \E t : Refuses(r, t) \/ Stops(r, t)
  BY <1>0, <1>3 DEF Refuses, Stops
<1>4. CASE LooksOn(r) \/ Discards(r) \/ IsOver(r)
  BY <1>0, <1>4 DEF LooksOn, Discards, IsOver
<1>5. CASE \E circuit, restore : AsksVersion(r, circuit, restore) /\ circuit \subseteq accepted
  <2>1. PICK circuit, restore : AsksVersion(r, circuit, restore) /\ circuit \subseteq accepted
    BY <1>5
  <2>2. AskedFrom(<<AppendVersion(circuit, restore)>>)
    BY <2>1, AsksFrom
  <2>3. Runs(r, 0, <<AppendVersion(circuit, restore)>>, relay)
    BY <2>1 DEF AsksVersion
  <2> QED BY <2>2, <2>3
<1>6. CASE \E m, s, t : Merges(r, m, s, t) \/ IsTold(r, m, s, t) \/ Answers(r, m, s, t)
  BY <1>0, <1>6 DEF Merges, IsTold, Answers
<1>7. CASE (\E p, n, t : Attaches(p, r, n, t)) \/ \E p, t : Seeds(p, r, t)
  BY <1>0, <1>7 DEF Attaches, Seeds
<1>8. CASE \E p, n, t : LeavesOthers(p, r, n, t) \/ LeavesSaving(p, r, n, t) \/ LeavesAtOnce(p, r, n, t)
  <2>1. PICK p, n, t : LeavesOthers(p, r, n, t) \/ LeavesSaving(p, r, n, t) \/ LeavesAtOnce(p, r, n, t)
    BY <1>8
  <2>2. CASE LeavesOthers(p, r, n, t) \/ LeavesAtOnce(p, r, n, t)
    BY <1>0, <2>2 DEF LeavesOthers, LeavesAtOnce
  <2>3. CASE LeavesSaving(p, r, n, t)
    <3>1. n \in DOMAIN relay.lives
      BY <2>3, LeavesSavingIs DEF Of
    <3>2. AskedFrom(<<SaveSession(n, relay.lives[n].doc, "leave")>>)
      BY <3>1, AsksFrom
    <3> QED BY <2>3, <3>2 DEF LeavesSaving
  <2> QED BY <2>1, <2>2, <2>3
<1>9. CASE \E n, t : Fires(n, r, t)
  <2>1. PICK n, t : Fires(n, r, t)
    BY <1>9
  <2>2. AskedFrom(<<SaveSession(n, relay.lives[n].doc, "timer")>>)
    BY <2>1, AsksFrom DEF Fires
  <2> QED BY <2>1, <2>2 DEF Fires
<1>10. CASE \E n, t, s : ClosesSaving(r, n, s, t)
  <2>1. PICK n, t, s : ClosesSaving(r, n, s, t)
    BY <1>10
  <2>2. n \in DOMAIN relay.lives
    BY <2>1, ClosesSavingIs DEF Of
  <2>3. AskedFrom(<<SaveSession(n, relay.lives[n].doc, "close")>>)
    BY <2>2, AsksFrom
  <2> QED BY <2>1, <2>3 DEF ClosesSaving
<1>11. CASE (\E n, t, s : ClosesSaved(r, n, s, t)) \/ \E t, n : Finishes(r, n, t)
  BY <1>0, <1>11 DEF ClosesSaved, Finishes
<1>12. CASE \E n, t : EndsBuild(r, n, t)
  BY <1>0, <1>12 DEF EndsBuild
<1>13. CASE \E t, p, n : Overgrows(p, r, n, t)
  BY <1>0, <1>13 DEF Overgrows
<1>14. CASE (\E t, circuit : Tells(r, circuit, t)) \/ \E n, t, circuit : Settles(r, n, circuit, t)
  BY <1>0, <1>14 DEF Tells, Settles
<1>15. CASE \E doc, t : SetsUp(r, doc, t)
  BY <1>0, <1>15 DEF SetsUp
<1>16. CASE Hushed(r)
  BY <1>16, <1>1, <1>2, <1>3, <1>4, <1>5, <1>6, <1>7, <1>8, <1>9, <1>10, <1>11, <1>12, <1>13 DEF Hushed
<1> QED BY <1>16, <1>2, <1>6, <1>14, <1>15 DEF Inner

LEMMA InboxesFrom ==
    ASSUME AcceptedInd, accepted \subseteq accepted', NEW r \in Replicas, NEW given, Sends(r, given)
    PROVE  \A q \in Replicas : \A i \in DOMAIN relay'.inbox[q] : From(relay'.inbox[q][i].doc, accepted')
<1>1. \A q \in Replicas : \A i \in DOMAIN relay.inbox[q] : From(relay.inbox[q][i].doc, accepted')
  BY FromGrows DEF AcceptedInd
<1>2. \A i \in DOMAIN relay'.inbox[r] : \E j \in DOMAIN relay.inbox[r] : relay'.inbox[r][i] = relay.inbox[r][j]
  BY DEF Sends, Carried
<1>3. \A q \in Replicas : q # r => \A i \in DOMAIN relay'.inbox[q] :
          relay'.inbox[q][i] \in given \/ (i \in DOMAIN relay.inbox[q] /\ relay'.inbox[q][i] = relay.inbox[q][i])
  BY DEF Sends, Carried
<1>4. \A m \in given : From(m.doc, accepted')
  BY DEF Sends
<1> QED BY <1>1, <1>2, <1>3, <1>4

LEMMA AcceptedMade ==
    ASSUME AcceptedInd, accepted \subseteq accepted', row' = row, version' = version,
           \A n \in DOMAIN relay'.lives : From(relay'.lives[n].doc, accepted'),
           \A q \in Replicas : \A i \in DOMAIN relay'.inbox[q] : From(relay'.inbox[q][i].doc, accepted'),
           \A q \in Replicas : \A i \in DOMAIN db'[q] : StatementFrom(db'[q][i], accepted')
    PROVE  AcceptedInd'
<1>1. (row' # NoRow => From(row', accepted')) /\ version' \subseteq accepted'
  BY FromGrows DEF AcceptedInd
<1> QED BY <1>1 DEF AcceptedInd, From, StatementFrom

LEMMA InnerAccepted ==
    ASSUME TypeInd, MapsInd, AcceptedInd, accepted \subseteq accepted', row' = row, version' = version,
           NEW r \in Replicas, QueueInd(r), Inner(r), NEW given, Sends(r, given)
    PROVE  AcceptedInd'
<1>1. \A n \in DOMAIN relay'.lives : From(relay'.lives[n].doc, accepted')
  BY InnerDocs
<1>2. \A q \in Replicas : \A i \in DOMAIN relay'.inbox[q] : From(relay'.inbox[q][i].doc, accepted')
  BY InboxesFrom
<1>3. \A q \in Replicas : \A i \in DOMAIN db'[q] : StatementFrom(db'[q][i], accepted')
  <2>1. CASE Dies(r)
    <3>1. db' = [db EXCEPT ![r] = <<>>]
      BY <2>1 DEF Dies
    <3>2. db'[r] = <<>> /\ \A q \in Replicas : q # r => db'[q] = db[q]
      BY <3>1 DEF TypeInd, Queues
    <3>3. \A q \in Replicas : \A i \in DOMAIN db[q] : StatementFrom(db[q][i], accepted')
      BY StatementGrows DEF AcceptedInd
    <3> QED BY <3>2, <3>3
  <2>2. CASE \E c, asked, t : Runs(r, c, asked, t) /\ AskedFrom(asked)
    BY <2>2, QueueFrom
  <2> QED BY <2>1, <2>2, InnerAsks
<1> QED BY <1>1, <1>2, <1>3, AcceptedMade

LEMMA IntegratesAccepted ==
    ASSUME TypeInd, MapsInd, AcceptedInd, accepted \subseteq accepted', row' = row, version' = version,
           NEW p, NEW r \in Replicas, NEW n, NEW edit, NEW t, Integrates(p, r, n, edit, t), edit \in accepted',
           NEW given, Sends(r, given)
    PROVE  AcceptedInd'
<1>1. \A m \in DOMAIN relay'.lives : From(relay'.lives[m].doc, accepted')
  BY IntegratesFrom
<1>2. \A q \in Replicas : \A i \in DOMAIN relay'.inbox[q] : From(relay'.inbox[q][i].doc, accepted')
  BY InboxesFrom
<1>3. Runs(r, 0, <<>>, t) /\ AskedFrom(<<>>)
  BY AsksFrom DEF Integrates
<1>4. \A q \in Replicas : \A i \in DOMAIN db'[q] : StatementFrom(db'[q][i], accepted')
  BY <1>3, QueueFrom
<1> QED BY <1>1, <1>2, <1>4, AcceptedMade

LEMMA IgnoresAccepted ==
    ASSUME TypeInd, AcceptedInd, accepted \subseteq accepted', row' = row, version' = version,
           NEW r \in Replicas, NEW m, NEW s, Ignores(r, m, s)
    PROVE  AcceptedInd'
<1>1. Runs(r, 0, <<>>, s) /\ relay'.lives = relay.lives
  BY DEF Ignores, Pops, Popped, SameObjects, Runs, Took
<1>2. Sends(r, {})
  BY RunsSilent DEF Ignores
<1>3. \A n \in DOMAIN relay'.lives : From(relay'.lives[n].doc, accepted')
  BY <1>1, LivesDocs, SameDocsFrom
<1>4. \A q \in Replicas : \A i \in DOMAIN relay'.inbox[q] : From(relay'.inbox[q][i].doc, accepted')
  BY <1>2, InboxesFrom
<1>5. \A q \in Replicas : \A i \in DOMAIN db'[q] : StatementFrom(db'[q][i], accepted')
  BY <1>1, QueueFrom, AsksFrom
<1> QED BY <1>3, <1>4, <1>5, AcceptedMade

------------------------------------------------------------------------------
(* Whoever is in a document is in the one that is handed out. *)

Gathered(r) ==
    /\ ~relay.closed[r] => \A n \in Of(r) : relay.lives[n].peers # {} => relay.documents[r] = n
    /\ relay.building[r] = Seeding => \A n \in Of(r) : relay.lives[n].peers = {}

Parts(r, c, asked) ==
    /\ relay'.documents[r] \in {None, relay.documents[r]} \/ (c = 1 /\ Lookup(db[r][1]))
    /\ \A n \in Of(r) : relay.lives[n].dropping => relay'.lives[n].dropping
    /\ Len(asked) = 1 /\ Leaving(asked[1]) =>
          relay'.building[r] # Seeding /\ relay'.documents[r] \in {None, asked[1].live}

LEMMA TogetherMade ==
    ASSUME TypeInd, NEW r, QueueInd(r), QueueInd(r)', TogetherInd(r), NEW c, NEW asked, NEW t, Runs(r, c, asked, t),
           Gathered(r)', Parts(r, c, asked)
    PROVE  TogetherInd(r)'
<1> DEFINE q == db[r]
           z == db'[r]
<1>1. /\ c \in {0, 1} /\ (c = 1 => Len(q) > 0) /\ Len(q) \in Nat /\ Len(z) \in Nat
      /\ DOMAIN q = 1 .. Len(q) /\ DOMAIN z = 1 .. Len(z) /\ Len(asked) \in {0, 1}
      /\ Len(z) = (Len(q) - c) + Len(asked)
      /\ \A i \in 1 .. Len(q) - c : i \in DOMAIN z /\ i + c \in DOMAIN q /\ z[i] = q[i + c]
      /\ \A i \in DOMAIN z : i \in 1 .. Len(q) - c \/ (i = Len(z) /\ Len(asked) = 1 /\ z[i] = asked[1])
  BY TurnedIs
<1>2. \A i \in DOMAIN z : Lookup(z[i]) => relay'.building[r] = Seeding
  BY DEF QueueInd
<1>3. \A i, j \in DOMAIN q : Lookup(q[i]) /\ i < j => ~Leaving(q[j])
  BY DEF TogetherInd
<1>4. \A i \in DOMAIN q : Leaving(q[i]) =>
          relay.documents[r] \in {None, q[i].live} \/ relay.lives[q[i].live].dropping
  BY DEF TogetherInd
<1>5. \A i \in DOMAIN q : Leaving(q[i]) => q[i].live \in Of(r)
  BY DEF QueueInd, Leaving
<1> HIDE DEF q, z
<1>6. ASSUME NEW i \in DOMAIN z, NEW j \in DOMAIN z, Lookup(z[i]), i < j, Leaving(z[j])
      PROVE  FALSE
  <2>1. CASE j \in 1 .. Len(q) - c
    <3>1. i \in 1 .. Len(q) - c
      BY <1>1, <1>6, <2>1
    <3>2. z[i] = q[i + c] /\ z[j] = q[j + c] /\ i + c \in DOMAIN q /\ j + c \in DOMAIN q
      BY <1>1, <2>1, <3>1
    <3>3. i + c < j + c
      BY <1>1, <1>6
    <3> QED BY <1>3, <1>6, <3>2, <3>3
  <2>2. CASE Len(asked) = 1 /\ z[j] = asked[1]
    BY <1>2, <1>6, <2>2 DEF Parts
  <2> QED BY <1>1, <2>1, <2>2
<1>7. ASSUME NEW i \in DOMAIN z, Leaving(z[i])
      PROVE  relay'.documents[r] \in {None, z[i].live} \/ relay'.lives[z[i].live].dropping
  <2>1. CASE i \in 1 .. Len(q) - c
    <3>1. z[i] = q[i + c] /\ i + c \in DOMAIN q
      BY <1>1, <2>1
    <3>2. CASE c = 1 /\ Lookup(q[1])
      <4>1. 1 \in DOMAIN q /\ 1 < i + c
        BY <1>1, <2>1, <3>2
      <4> QED BY <1>3, <1>7, <3>1, <3>2, <4>1
    <3>3. CASE relay'.documents[r] \in {None, relay.documents[r]}
      <4>1. relay.documents[r] \in {None, z[i].live} \/ relay.lives[z[i].live].dropping
        BY <1>4, <1>7, <3>1
      <4>2. z[i].live \in Of(r)
        BY <1>5, <1>7, <3>1
      <4> QED BY <3>3, <4>1, <4>2 DEF Parts
    <3> QED BY <3>2, <3>3 DEF Parts, q
  <2>2. CASE Len(asked) = 1 /\ z[i] = asked[1]
    BY <1>7, <2>2 DEF Parts
  <2> QED BY <1>1, <2>1, <2>2
<1>8. Gathered(r)'
  OBVIOUS
<1>9. /\ ~relay'.closed[r] => \A n \in Of(r)' : relay'.lives[n].peers # {} => relay'.documents[r] = n
      /\ relay'.building[r] = Seeding => \A n \in Of(r)' : relay'.lives[n].peers = {}
  BY <1>8 DEF Gathered
<1> QED BY <1>6, <1>7, <1>9 DEF TogetherInd, z

LEMMA GatheredIs ==
    ASSUME NEW r, TogetherInd(r)
    PROVE  Gathered(r)
BY DEF TogetherInd, Gathered

\* Nobody goes into a document.
LEMMA GatheredIdle ==
    ASSUME TypeInd, MapsInd, NEW r, Gathered(r), NEW d, NEW b, NEW k \in BOOLEAN, View(r, d, b, k), SameRoom,
           \A m \in Of(r) : relay'.lives[m].peers \subseteq relay.lives[m].peers,
           ~k => ~relay.closed[r] /\ (d = relay.documents[r] \/ \A m \in Of(r) : relay'.lives[m].peers = {}),
           b = Seeding => relay.building[r] = Seeding \/ \A m \in Of(r) : relay'.lives[m].peers = {}
    PROVE  Gathered(r)'
<1>1. Of(r)' = Of(r) /\ relay'.documents[r] = d /\ relay'.building[r] = b /\ relay'.closed[r] = k
  BY RoomOf DEF View
<1>2. \A m \in Of(r) : relay.lives[m].peers = {} => relay'.lives[m].peers = {}
  OBVIOUS
<1>3. ASSUME ~k, NEW n \in Of(r), relay'.lives[n].peers # {}
      PROVE  d = n
  <2>1. relay.lives[n].peers # {}
    BY <1>2, <1>3
  <2>2. relay.documents[r] = n
    BY <1>3, <2>1 DEF Gathered
  <2> QED BY <1>3, <2>2
<1>4. b = Seeding => \A n \in Of(r) : relay'.lives[n].peers = {}
  BY <1>2 DEF Gathered
<1> QED BY <1>1, <1>3, <1>4 DEF Gathered

LEMMA ClosedIs ==
    ASSUME TypeInd, NEW r \in Replicas
    PROVE  relay.closed[r] \in BOOLEAN
BY RelayIs, RelayFields

LEMMA TogetherIdles ==
    ASSUME TypeInd, MapsInd, NEW r, QueueInd(r), QueueInd(r)', TogetherInd(r), NEW c, NEW asked, NEW t, Runs(r, c, asked, t),
           NEW d, NEW b, NEW k \in BOOLEAN, Idles(r, d, b, k), d \in {None, relay.documents[r]},
           ~k => ~relay.closed[r] /\ (d = relay.documents[r] \/ \A m \in Of(r) : relay.lives[m].peers = {}),
           b = Seeding => relay.building[r] = Seeding \/ \A m \in Of(r) : relay.lives[m].peers = {},
           Len(asked) = 1 => ~Leaving(asked[1])
    PROVE  TogetherInd(r)'
<1>1. View(r, d, b, k) /\ SameRoom /\ \A m \in Of(r) : AsItWas(m)
  BY DEF Idles, Of
<1>2. \A m \in Of(r) : relay'.lives[m].peers = relay.lives[m].peers /\ relay'.lives[m].dropping = relay.lives[m].dropping
  BY <1>1 DEF AsItWas
<1>3. Gathered(r)'
  BY <1>1, <1>2, GatheredIs, GatheredIdle
<1>4. Parts(r, c, asked)
  BY <1>1, <1>2 DEF Parts, View
<1> QED BY <1>3, <1>4, TogetherMade

LEMMA TogetherOne ==
    ASSUME TypeInd, MapsInd, NEW r, QueueInd(r), QueueInd(r)', TogetherInd(r), NEW c, NEW asked, NEW t, Runs(r, c, asked, t),
           NEW d, NEW b, NEW k \in BOOLEAN, View(r, d, b, k), NEW n \in Of(r), NEW v, OneLive(n, v), v.dropping = relay.lives[n].dropping,
           v.peers \subseteq relay.lives[n].peers \/ (n = relay.documents[r] /\ b # Seeding),
           d = relay.documents[r] \/ (d = None /\ (~k => relay.documents[r] = n /\ v.peers = {})),
           relay.closed[r] => k, b = Seeding => relay.building[r] = Seeding,
           Len(asked) = 1 /\ Leaving(asked[1]) => b # Seeding /\ d \in {None, asked[1].live}
    PROVE  TogetherInd(r)'
<1>a. SameRoom
  BY DEF OneLive
<1>b. Of(r)' = Of(r)
  BY <1>a, RoomOf
<1>c. relay'.documents[r] = d /\ relay'.building[r] = b /\ relay'.closed[r] = k
  BY DEF View
<1>d. relay'.lives[n] = v /\ \A m \in Of(r) : m # n => relay'.lives[m] = relay.lives[m]
  BY DEF OneLive, Of
<1>1. /\ Of(r)' = Of(r) /\ relay'.documents[r] = d /\ relay'.building[r] = b /\ relay'.closed[r] = k
      /\ relay'.lives[n] = v /\ \A m \in Of(r) : m # n => relay'.lives[m] = relay.lives[m]
  BY <1>b, <1>c, <1>d
<1>2. Gathered(r)
  BY GatheredIs
<1>3. ASSUME ~k, NEW m \in Of(r), relay'.lives[m].peers # {}
      PROVE  d = m
  <2>1. ~relay.closed[r]
    BY <1>3
  <2>2. CASE m # n
    <3>1. relay.documents[r] = m
      BY <1>1, <1>2, <1>3, <2>1, <2>2 DEF Gathered
    <3> QED BY <1>3, <2>2, <3>1
  <2>3. CASE m = n
    <3>1. v.peers # {} /\ d = relay.documents[r]
      BY <1>1, <1>3, <2>3
    <3>2. relay.lives[n].peers # {} \/ n = relay.documents[r]
      BY <3>1
    <3>3. relay.lives[n].peers # {} => relay.documents[r] = n
      BY <1>2, <2>1 DEF Gathered
    <3> QED BY <2>3, <3>1, <3>2, <3>3
  <2> QED BY <2>2, <2>3
<1>4. ASSUME b = Seeding, NEW m \in Of(r)
      PROVE  relay'.lives[m].peers = {}
  <2>1. relay.lives[m].peers = {}
    BY <1>2, <1>4 DEF Gathered
  <2> QED BY <1>1, <1>4, <2>1
<1>5. Gathered(r)'
  BY <1>1, <1>3, <1>4 DEF Gathered
<1>6. Parts(r, c, asked)
  BY <1>1 DEF Parts
<1> QED BY <1>5, <1>6, TogetherMade

\* Some documents of r are emptied.
LEMMA TogetherEmpties ==
    ASSUME TypeInd, MapsInd, NEW r, QueueInd(r), QueueInd(r)', TogetherInd(r), NEW c, NEW asked, NEW t, Runs(r, c, asked, t),
           NEW n \in Of(r), Empties(r, {n}), NEW k \in BOOLEAN, View(r, None, relay.building[r], k), relay.closed[r] => k,
           ~k => relay.documents[r] = n, Len(asked) = 1 => ~Leaving(asked[1])
    PROVE  TogetherInd(r)'
<1>a. SameRoom /\ {n} \subseteq Of(r)
  BY DEF Empties
<1>b. Of(r)' = Of(r)
  BY <1>a, RoomOf
<1>c. relay'.documents[r] = None /\ relay'.building[r] = relay.building[r] /\ relay'.closed[r] = k
  BY DEF View
<1>d. \A m \in Of(r) : m # n => relay'.lives[m] = relay.lives[m]
  BY DEF Empties, Of
<1>e. relay'.lives[n].peers = {} /\ relay'.lives[n].dropping
  BY DEF Empties
<1>1. Gathered(r)
  BY GatheredIs
<1>2. \A m \in Of(r) : relay.lives[m].peers = {} => relay'.lives[m].peers = {}
  BY <1>d, <1>e
<1>3. ASSUME ~k, NEW m \in Of(r), relay'.lives[m].peers # {}
      PROVE  FALSE
  <2>1. m # n /\ relay.lives[m].peers # {} /\ ~relay.closed[r]
    BY <1>2, <1>3, <1>e
  <2>2. relay.documents[r] = m
    BY <1>1, <2>1 DEF Gathered
  <2> QED BY <1>3, <2>1, <2>2
<1>4. Gathered(r)'
  BY <1>1, <1>2, <1>3, <1>b, <1>c DEF Gathered
<1>5. \A m \in Of(r) : relay.lives[m].dropping => relay'.lives[m].dropping
  BY <1>d, <1>e
<1>6. Parts(r, c, asked)
  BY <1>5, <1>c DEF Parts
<1> QED BY <1>4, <1>6, TogetherMade

\* Where the documents are, once nobody is in another one.
LEMMA TogetherHere ==
    ASSUME TypeInd, MapsInd, NEW r \in Replicas, TogetherInd(r), NEW n \in Of(r), relay.lives[n].peers # {}
    PROVE  /\ relay.building[r] # Seeding /\ relay.documents[r] \in {None, n}
           /\ relay.closed[r] => relay.documents[r] = None
           /\ ~relay.closed[r] => relay.documents[r] = n
<1>1. Gathered(r)
  BY GatheredIs
<1>2. relay.closed[r] => relay.documents[r] = None
  BY DEF MapsInd, MapInd
<1> QED BY <1>1, <1>2 DEF Gathered

LEMMA NobodyHere ==
    ASSUME TypeInd, MapsInd, NEW r \in Replicas, TogetherInd(r), ~relay.closed[r], relay.documents[r] = None
    PROVE  \A n \in Of(r) : relay.lives[n].peers = {}
<1>1. Gathered(r)
  BY GatheredIs
<1>2. None \notin DOMAIN relay.lives
  BY SeedingIsNone
<1> QED BY <1>1, <1>2 DEF Gathered, Of

LEMMA AskedLeaves ==
    /\ ~Leaving(LoadSession) /\ ~Leaving(LatestVersion)
    /\ \A b \in BOOLEAN : ~Leaving(DropSession(b))
    /\ \A c, b : ~Leaving(AppendVersion(c, b))
    /\ \A n, doc : ~Leaving(SaveSession(n, doc, "timer"))
BY DEF Leaving, LoadSession, LatestVersion, DropSession, AppendVersion, SaveSession

LEMMA AskedOne ==
    \A st : Len(<<st>>) = 1 /\ <<st>>[1] = st
OBVIOUS

LEMMA TogetherNone ==
    ASSUME TypeInd, MapsInd, NEW r \in Replicas, QueueInd(r), QueueInd(r)', TogetherInd(r), NEW c, NEW asked, NEW t,
           Runs(r, c, asked, t), NEW d, NEW b, NEW k, Idles(r, d, b, k), d = relay.documents[r], b \in {None, relay.building[r]},
           k = relay.closed[r], Len(asked) = 1 => ~Leaving(asked[1])
    PROVE  TogetherInd(r)'
<1>1. b = Seeding => relay.building[r] = Seeding
  BY SeedingIsNone
<1> QED BY <1>1, ClosedIs, TogetherIdles

LEMMA LetsGoTogether ==
    ASSUME TypeInd, MapsInd, NEW r \in Replicas, QueueInd(r), QueueInd(r)', TogetherInd(r), NEW n, NEW t, LetsGo(r, n, t)
    PROVE  TogetherInd(r)'
<1>1. Runs(r, 1, <<>>, t) /\ Head(db[r]).kind = "save" /\ Head(db[r]).why = "leave" /\ n = Head(db[r]).live
      /\ relay.lives[n].peers = {} /\ ~relay.lives[n].dropping
  BY DEF LetsGo
<1>2. Idles(r, None, relay.building[r], relay.closed[r])
  BY LetsGoIdles
<1>3. Head(db[r]) = db[r][1] /\ 1 \in DOMAIN db[r]
  BY <1>1, HeadOf
<1>4. Leaving(db[r][1]) /\ db[r][1].live = n
  BY <1>1, <1>3 DEF Leaving
<1>5. relay.documents[r] \in {None, n}
  BY <1>1, <1>3, <1>4 DEF TogetherInd
<1>6. ASSUME ~relay.closed[r], relay.documents[r] = n, NEW m \in Of(r)
      PROVE  relay.lives[m].peers = {}
  BY <1>1, <1>6, TogetherHere
<1>7. ~relay.closed[r] =>
          ~relay.closed[r] /\ (None = relay.documents[r] \/ \A m \in Of(r) : relay.lives[m].peers = {})
  BY <1>5, <1>6
<1> QED BY <1>1, <1>2, <1>7, NoStatement, ClosedIs, TogetherIdles

LEMMA SeedsTogether ==
    ASSUME TypeInd, MapsInd, NEW r \in Replicas, QueueInd(r), QueueInd(r)', TogetherInd(r), NEW p, NEW t, Seeds(p, r, t)
    PROVE  TogetherInd(r)'
<1>1. Runs(r, 0, <<LoadSession>>, t)
  BY DEF Seeds
<1>2. Idles(r, None, Seeding, FALSE) /\ relay.documents[r] = None /\ relay.closed[r] = FALSE
  BY SeedsIs
<1>3. \A n \in Of(r) : relay.lives[n].peers = {}
  BY <1>2, NobodyHere
<1>4. Len(<<LoadSession>>) = 1 => ~Leaving(<<LoadSession>>[1])
  BY AskedOne, AskedLeaves
<1> QED BY <1>1, <1>2, <1>3, <1>4, TogetherIdles

LEMMA SetsUpTogether ==
    ASSUME TypeInd, MapsInd, NEW r \in Replicas, QueueInd(r), QueueInd(r)', TogetherInd(r), NEW doc, NEW t, SetsUp(r, doc, t)
    PROVE  TogetherInd(r)'
<1>1. Runs(r, 1, <<>>, t) /\ Lookup(Head(db[r]))
  BY DEF SetsUp
<1>2. Found(r, 1) /\ relay.building[r] = Seeding
  BY <1>1, FoundHead
<1>3. \A n \in Of(r) : relay.lives[n].peers = {}
  BY <1>2, GatheredIs DEF Gathered
<1> DEFINE n == Len(relay.lives) + 1
<1>4. /\ View(r, n, n, FALSE) /\ DOMAIN relay'.lives = DOMAIN relay.lives \cup {n}
      /\ \A m \in DOMAIN relay.lives : relay'.lives[m] = relay.lives[m]
      /\ relay'.lives[n].peers = {}
  BY SetsUpIs
<1> HIDE DEF n
<1>5. \A m \in Of(r)' : relay'.lives[m].peers = {}
  BY <1>3, <1>4 DEF Of
<1>6. Gathered(r)'
  BY <1>5 DEF Gathered
<1>7. \A m \in Of(r) : relay.lives[m].dropping => relay'.lives[m].dropping
  BY <1>4 DEF Of
<1>8. Parts(r, 1, <<>>)
  BY <1>2, <1>7, NoStatement DEF Parts, Found
<1> QED BY <1>1, <1>6, <1>8, TogetherMade

LEMMA DiesTogether ==
    ASSUME TypeInd, MapsInd, NEW r, Dies(r)
    PROVE  TogetherInd(r)'
<1>1. /\ SameRoom /\ db'[r] = <<>> /\ \A m \in Of(r) : relay'.lives[m].peers = {}
  BY DiesIs
<1>2. Of(r)' = Of(r)
  BY <1>1, RoomOf
<1>3. \A i \in DOMAIN db'[r] : FALSE
  BY <1>1
<1> QED BY <1>1, <1>2, <1>3 DEF TogetherInd

LEMMA LeavesTogether ==
    ASSUME TypeInd, MapsInd, NEW r \in Replicas, QueueInd(r), QueueInd(r)', TogetherInd(r), NEW p, NEW n, NEW t,
           LeavesOthers(p, r, n, t) \/ LeavesSaving(p, r, n, t) \/ LeavesAtOnce(p, r, n, t)
    PROVE  TogetherInd(r)'
<1>1. Exits(p, r, n)
  BY DEF LeavesOthers, LeavesSaving, LeavesAtOnce
<1>2. n \in Of(r) /\ p \in relay.lives[n].peers /\ relay.lives[n] \in Lives
  BY <1>1, PlaceOf DEF Exits
<1>3. relay.building[r] # Seeding /\ relay.documents[r] \in {None, n} /\ (~relay.closed[r] => relay.documents[r] = n)
  BY <1>2, TogetherHere
<1>4. CASE LeavesOthers(p, r, n, t)
  <2>1. Runs(r, 0, <<>>, t)
    BY <1>4 DEF LeavesOthers
  <2>2. /\ View(r, relay.documents[r], relay.building[r], relay.closed[r])
        /\ OneLive(n, LeftLive(relay.lives[n], p))
    BY <1>4, LeavesOthersIs
  <2>3. LeftLive(relay.lives[n], p).peers \subseteq relay.lives[n].peers
        /\ LeftLive(relay.lives[n], p).dropping = relay.lives[n].dropping
    BY <1>2, LeftFields
  <2> QED BY <1>2, <2>1, <2>2, <2>3, NoStatement, ClosedIs, TogetherOne
<1>5. CASE LeavesSaving(p, r, n, t)
  <2> PICK st : st = SaveSession(n, relay.lives[n].doc, "leave")
    OBVIOUS
  <2>1. Runs(r, 0, <<st>>, t)
    BY <1>5 DEF LeavesSaving
  <2>2. /\ View(r, relay.documents[r], relay.building[r], relay.closed[r])
        /\ OneLive(n, LeftAtRest(relay.lives[n], p))
    BY <1>5, LeavesSavingIs
  <2>3. LeftAtRest(relay.lives[n], p).peers \subseteq relay.lives[n].peers
        /\ LeftAtRest(relay.lives[n], p).dropping = relay.lives[n].dropping
    BY <1>2, LeftAloneFields
  <2>4. <<st>>[1].live = n
    BY DEF SaveSession
  <2> QED BY <1>2, <1>3, <2>1, <2>2, <2>3, <2>4, ClosedIs, TogetherOne
<1>6. CASE LeavesAtOnce(p, r, n, t)
  <2>1. Runs(r, 0, <<>>, t) /\ relay.lives[n].peers \ {p} = {}
    BY <1>6 DEF LeavesAtOnce
  <2>2. /\ View(r, None, relay.building[r], relay.closed[r])
        /\ OneLive(n, LeftAlone(relay.lives[n], p))
    BY <1>6, LeavesAtOnceIs
  <2>3. LeftAlone(relay.lives[n], p).peers = relay.lives[n].peers \ {p}
        /\ LeftAlone(relay.lives[n], p).dropping = relay.lives[n].dropping
    BY <1>2, LeftAloneFields
  <2> QED BY <1>2, <1>3, <2>1, <2>2, <2>3, NoStatement, ClosedIs, TogetherOne
<1> QED BY <1>4, <1>5, <1>6

\* One document is rewritten, and nobody leaves it.
LEMMA StaysTogether ==
    ASSUME TypeInd, MapsInd, NEW r \in Replicas, QueueInd(r), QueueInd(r)', TogetherInd(r), NEW n, NEW t,
           \/ \E p : Attaches(p, r, n, t)
           \/ Fires(n, r, t)
           \/ \E p, edit : Integrates(p, r, n, edit, t)
           \/ \E circuit : Settles(r, n, circuit, t)
           \/ EndsBuild(r, n, t)
    PROVE  TogetherInd(r)'
<1>1. CASE \E p : Attaches(p, r, n, t)
  <2> PICK p : Attaches(p, r, n, t)
    BY <1>1
  <2>1. Runs(r, 0, <<>>, t)
    BY DEF Attaches
  <2>2. /\ View(r, n, relay.building[r], FALSE) /\ n \in Of(r) /\ n = relay.documents[r] /\ n # None /\ ~relay.closed[r]
        /\ OneLive(n, JoinLive(relay.lives[n], {p})) /\ p \in Peers
    BY AttachIs
  <2>3. relay.building[r] # Seeding /\ relay.lives[n] \in Lives
    BY <2>2, MapOf
  <2>4. JoinLive(relay.lives[n], {p}).dropping = relay.lives[n].dropping
    BY <2>2, <2>3, JoinFields
  <2>5. relay.closed[r] = FALSE
    BY <2>2, RelayIs, RelayFields
  <2>6. View(r, relay.documents[r], relay.building[r], relay.closed[r])
    BY <2>2, <2>5
  <2> QED BY <2>1, <2>2, <2>3, <2>4, <2>6, NoStatement, ClosedIs, TogetherOne
<1>2. CASE Fires(n, r, t)
  <2> PICK st : st = SaveSession(n, relay.lives[n].doc, "timer")
    OBVIOUS
  <2>1. Runs(r, 0, <<st>>, t) /\ n \in DOMAIN relay.lives
    BY <1>2 DEF Fires
  <2>2. View(r, relay.documents[r], relay.building[r], relay.closed[r]) /\ n \in Of(r)
        /\ OneLive(n, RestLive(relay.lives[n]))
    BY <1>2, FiresIs
  <2>3. relay.lives[n] \in Lives
    BY <2>1, RelayIs, RelayFields
  <2>4. RestLive(relay.lives[n]).peers = relay.lives[n].peers /\ RestLive(relay.lives[n]).dropping = relay.lives[n].dropping
    BY <2>3, RestFields
  <2>5. ~Leaving(<<st>>[1])
    BY AskedOne, AskedLeaves
  <2> QED BY <2>1, <2>2, <2>4, <2>5, ClosedIs, TogetherOne
<1>3. CASE \E p, edit : Integrates(p, r, n, edit, t)
  <2> PICK p, edit : Integrates(p, r, n, edit, t)
    BY <1>3
  <2>1. Runs(r, 0, <<>>, t)
    BY DEF Integrates
  <2>2. /\ View(r, relay.documents[r], relay.building[r], relay.closed[r]) /\ n \in Of(r)
        /\ OneLive(n, Edited(relay.lives[n], edit)) /\ edit \in Edits
    BY IntegratesIs
  <2>3. relay.lives[n] \in Lives
    BY <2>2, RelayIs, RelayFields DEF Of
  <2>4. Edited(relay.lives[n], edit).peers = relay.lives[n].peers
        /\ Edited(relay.lives[n], edit).dropping = relay.lives[n].dropping
    BY <2>2, <2>3, EditedFields
  <2> QED BY <2>1, <2>2, <2>4, NoStatement, ClosedIs, TogetherOne
<1>4. CASE \E circuit : Settles(r, n, circuit, t)
  <2> PICK circuit : Settles(r, n, circuit, t)
    BY <1>4
  <2>1. Runs(r, 1, <<>>, t)
    BY DEF Settles
  <2>2. /\ View(r, relay.documents[r], relay.building[r], relay.closed[r]) /\ n \in Of(r)
        /\ OneLive(n, Settled(relay.lives[n], circuit)) /\ circuit \in SUBSET Edits
    BY SettlesIs
  <2>3. relay.lives[n] \in Lives
    BY <2>2, RelayIs, RelayFields DEF Of
  <2>4. Settled(relay.lives[n], circuit).peers = relay.lives[n].peers
        /\ Settled(relay.lives[n], circuit).dropping = relay.lives[n].dropping
    BY <2>2, <2>3, SettledFields
  <2> QED BY <2>1, <2>2, <2>4, NoStatement, ClosedIs, TogetherOne
<1>5. CASE EndsBuild(r, n, t)
  <2>1. Runs(r, 0, <<>>, t)
    BY <1>5 DEF EndsBuild
  <2> PICK who : who = IF relay.documents[r] = n /\ ~relay.lives[n].dropping THEN Waiting(r) ELSE {}
    OBVIOUS
  <2>2. View(r, relay.documents[r], None, relay.closed[r]) /\ n \in Of(r) /\ OneLive(n, JoinLive(relay.lives[n], who))
    BY <1>5, EndsBuildIs
  <2>3. relay.lives[n] \in Lives /\ who \in SUBSET Peers
    BY <2>2, RelayIs, RelayFields DEF Of, Waiting
  <2>4. JoinLive(relay.lives[n], who).peers = relay.lives[n].peers \cup who
        /\ JoinLive(relay.lives[n], who).dropping = relay.lives[n].dropping
    BY <2>3, JoinFields
  <2>5. None # Seeding
    BY SeedingIsNone
  <2>6. JoinLive(relay.lives[n], who).peers \subseteq relay.lives[n].peers \/ (n = relay.documents[r] /\ None # Seeding)
    BY <2>4, <2>5
  <2> QED BY <2>1, <2>2, <2>4, <2>5, <2>6, NoStatement, ClosedIs, TogetherOne
<1> QED BY <1>1, <1>2, <1>3, <1>4, <1>5

\* Where a process shuts down.
LEMMA ClosesTogether ==
    ASSUME TypeInd, MapsInd, NEW r \in Replicas, QueueInd(r), QueueInd(r)', TogetherInd(r), NEW n, NEW s, NEW t,
           ClosesSaving(r, n, s, t)
    PROVE  TogetherInd(r)'
<1> PICK st : st = SaveSession(n, relay.lives[n].doc, "close")
  OBVIOUS
<1>1. Runs(r, 0, <<st>>, t) /\ n = relay.documents[r] /\ n # None
  BY DEF ClosesSaving
<1>2. View(r, None, relay.building[r], TRUE) /\ n \in Of(r) /\ OneLive(n, RestLive(relay.lives[n]))
  BY ClosesSavingIs
<1>3. relay.building[r] # Seeding /\ relay.lives[n] \in Lives
  BY <1>1, MapOf
<1>4. RestLive(relay.lives[n]).peers = relay.lives[n].peers /\ RestLive(relay.lives[n]).dropping = relay.lives[n].dropping
  BY <1>3, RestFields
<1> PICK k \in BOOLEAN : k = TRUE
  OBVIOUS
<1>5. View(r, None, relay.building[r], k) /\ k
  BY <1>2
<1> PICK asked, v, d, b : /\ asked = <<st>> /\ v = RestLive(relay.lives[n]) /\ d = None
                              /\ b = relay.building[r]
    OBVIOUS
<1>7. Runs(r, 0, asked, t) /\ View(r, d, b, k) /\ OneLive(n, v) /\ v.dropping = relay.lives[n].dropping
    BY <1>1, <1>2, <1>4, <1>5
<1>8. v.peers \subseteq relay.lives[n].peers \/ (n = relay.documents[r] /\ b # Seeding)
    BY <1>4
<1>9. d = relay.documents[r] \/ (d = None /\ (~k => relay.documents[r] = n /\ v.peers = {}))
    BY <1>5
<1>10. (relay.closed[r] => k) /\ (b = Seeding => relay.building[r] = Seeding)
    BY <1>5
<1>11. Len(asked) = 1 /\ Leaving(asked[1]) => b # Seeding /\ d \in {None, asked[1].live}
    BY <1>3
<1>12. n \in Of(r)
    BY <1>2
<1> QED BY <1>7, <1>8, <1>9, <1>10, <1>11, <1>12, TogetherOne


\* A document is dropped.
LEMMA DropsTogether ==
    ASSUME TypeInd, MapsInd, NEW r \in Replicas, QueueInd(r), QueueInd(r)', TogetherInd(r), NEW n, NEW t,
           Finishes(r, n, t) \/ (\E p : Overgrows(p, r, n, t)) \/ (\E s : ClosesSaved(r, n, s, t))
    PROVE  TogetherInd(r)'
<1>1. CASE Finishes(r, n, t)
  <2>1. Runs(r, 1, <<>>, t) /\ Head(db[r]).kind = "save" /\ Head(db[r]).why = "close"
    BY <1>1 DEF Finishes
  <2>2. View(r, None, relay.building[r], relay.closed[r]) /\ n \in Of(r) /\ Empties(r, {n})
    BY <1>1, FinishesIs
  <2>3. relay.closed[r] /\ relay.closed[r] \in BOOLEAN
    BY <2>1, SavedIs, ClosedIs
  <2> PICK k \in BOOLEAN : k = relay.closed[r]
    BY <2>3
  <2>4. View(r, None, relay.building[r], k) /\ (relay.closed[r] => k) /\ (~k => relay.documents[r] = n)
    BY <2>2, <2>3
  <2> QED BY <2>1, <2>2, <2>4, NoStatement, TogetherEmpties
<1>2. CASE \E p : Overgrows(p, r, n, t)
  <2> PICK p : Overgrows(p, r, n, t)
    BY <1>2
  <2>1. Runs(r, 0, <<DropSession(FALSE)>>, t) /\ p \in Peers /\ peers[p].at = "in" /\ r = peers[p].replica /\ n = peers[p].live
    BY DEF Overgrows
  <2>2. View(r, None, relay.building[r], relay.closed[r]) /\ n \in Of(r) /\ Empties(r, {n})
    BY OvergrowsIs
  <2>3. p \in relay.lives[n].peers
    BY <2>1, PlaceOf
  <2>4. (~relay.closed[r] => relay.documents[r] = n) /\ relay.closed[r] \in BOOLEAN
    BY <2>2, <2>3, TogetherHere, ClosedIs
  <2>5. ~Leaving(<<DropSession(FALSE)>>[1])
    BY AskedOne, AskedLeaves
  <2> QED BY <2>1, <2>2, <2>4, <2>5, TogetherEmpties
<1>3. CASE \E s : ClosesSaved(r, n, s, t)
  <2> PICK s : ClosesSaved(r, n, s, t)
    BY <1>3
  <2>1. Runs(r, 0, <<>>, t)
    BY DEF ClosesSaved
  <2> PICK k \in BOOLEAN : k = TRUE
    OBVIOUS
  <2>2. View(r, None, relay.building[r], k) /\ n \in Of(r) /\ Empties(r, {n}) /\ k
    BY ClosesSavedIs
  <2>3. (relay.closed[r] => k) /\ (~k => relay.documents[r] = n) /\ (Len(<<>>) = 1 => ~Leaving(<<>>[1]))
    BY <2>2, NoStatement
  <2> PICK z : z = <<>>
    OBVIOUS
  <2>4. Runs(r, 0, z, t) /\ (Len(z) = 1 => ~Leaving(z[1]))
    BY <2>1, <2>3
  <2> QED BY <2>2, <2>3, <2>4, TogetherEmpties
<1> QED BY <1>1, <1>2, <1>3

\* Nothing but the store is asked, or nothing at all.
LEMMA StillTogether ==
    ASSUME TypeInd, MapsInd, NEW r \in Replicas, QueueInd(r), QueueInd(r)', TogetherInd(r),
           LooksOn(r) \/ Discards(r) \/ IsOver(r) \/ \E circuit, restore : AsksVersion(r, circuit, restore)
    PROVE  TogetherInd(r)'
<1>1. ASSUME NEW c, NEW asked, Runs(r, c, asked, relay), peers' = peers, Len(asked) = 1 => ~Leaving(asked[1])
      PROVE  TogetherInd(r)'
  <2>1. Idles(r, relay.documents[r], relay.building[r], relay.closed[r])
    BY <1>1, StillIdles
  <2> QED BY <1>1, <2>1, TogetherNone
<1>2. CASE LooksOn(r)
  <2>1. Runs(r, 1, <<LatestVersion>>, relay) /\ peers' = peers /\ ~Leaving(<<LatestVersion>>[1])
    BY <1>2, AskedLeaves, AskedOne DEF LooksOn
  <2> QED BY <1>1, <2>1
<1>3. CASE Discards(r)
  <2>1. Runs(r, 1, <<DropSession(TRUE)>>, relay) /\ peers' = peers /\ ~Leaving(<<DropSession(TRUE)>>[1])
    BY <1>3, AskedLeaves, AskedOne DEF Discards
  <2> QED BY <1>1, <2>1
<1>4. CASE IsOver(r)
  BY <1>1, <1>4, NoStatement DEF IsOver
<1>5. CASE \E circuit, restore : AsksVersion(r, circuit, restore)
  <2> PICK circuit, restore : AsksVersion(r, circuit, restore)
    BY <1>5
  <2>1. Runs(r, 0, <<AppendVersion(circuit, restore)>>, relay) /\ peers' = peers
        /\ ~Leaving(<<AppendVersion(circuit, restore)>>[1])
    BY AskedLeaves, AskedOne DEF AsksVersion
  <2> QED BY <1>1, <2>1
<1> QED BY <1>2, <1>3, <1>4, <1>5

\* Where nothing is asked and no document's peers change.
LEMMA QuietTogether ==
    ASSUME TypeInd, MapsInd, NEW r \in Replicas, QueueInd(r), QueueInd(r)', TogetherInd(r),
           \/ \E p : Awaits(p, r)
           \/ \E n, t : GoesWithout(n, r, t) \/ Opens(n, r, t)
           \/ \E t : Refuses(r, t) \/ Stops(r, t)
           \/ \E t, circuit : Tells(r, circuit, t)
           \/ \E s : ClosesNone(r, s)
           \/ \E m, s : Ignores(r, m, s)
           \/ \E m, s, t : Merges(r, m, s, t) \/ Answers(r, m, s, t)
    PROVE  TogetherInd(r)'
<1>1. ASSUME NEW c, NEW t, Runs(r, c, <<>>, t), NEW b \in {None, relay.building[r]},
             Idles(r, relay.documents[r], b, relay.closed[r])
      PROVE  TogetherInd(r)'
  <2>1. Len(<<>>) = 1 => ~Leaving(<<>>[1])
    BY NoStatement
  <2> PICK d, k, z : d = relay.documents[r] /\ k = relay.closed[r] /\ z = <<>>
    OBVIOUS
  <2>2. Runs(r, c, z, t) /\ Idles(r, d, b, k) /\ (Len(z) = 1 => ~Leaving(z[1]))
    BY <1>1, <2>1
  <2> QED BY <1>1, <2>2, TogetherNone
<1>2. ASSUME NEW p, Awaits(p, r)
      PROVE  TogetherInd(r)'
  <2>1. Runs(r, 0, <<>>, relay)
    BY <1>2 DEF Awaits
  <2>2. Idles(r, relay.documents[r], relay.building[r], FALSE) /\ relay.closed[r] = FALSE
    BY <1>2, AwaitIdles
  <2>3. Idles(r, relay.documents[r], relay.building[r], relay.closed[r])
    BY <2>2
  <2> QED BY <1>1, <2>1, <2>3
<1>3. ASSUME NEW n, NEW t, GoesWithout(n, r, t) \/ Opens(n, r, t)
      PROVE  TogetherInd(r)'
  <2>1. Runs(r, 0, <<>>, t)
    BY <1>3 DEF GoesWithout, Opens
  <2>2. Idles(r, relay.documents[r], relay.building[r], relay.closed[r])
    BY <1>3, GoesWithoutIdles, OpensIdles
  <2> QED BY <1>1, <2>1, <2>2
<1>4. ASSUME NEW t, Refuses(r, t) \/ Stops(r, t)
      PROVE  TogetherInd(r)'
  <2>1. Runs(r, 1, <<>>, t)
    BY <1>4 DEF Refuses, Stops
  <2>2. Idles(r, relay.documents[r], None, relay.closed[r])
    BY <1>4, RefusesIdles, StopsIdles
  <2> QED BY <1>1, <2>1, <2>2
<1>5. ASSUME NEW t, NEW circuit, Tells(r, circuit, t)
      PROVE  TogetherInd(r)'
  <2>1. Runs(r, 1, <<>>, t)
    BY <1>5 DEF Tells
  <2>2. Idles(r, relay.documents[r], relay.building[r], relay.closed[r])
    BY <1>5, TellsIdles
  <2> QED BY <1>1, <2>1, <2>2
<1>6. ASSUME NEW s, ClosesNone(r, s)
      PROVE  TogetherInd(r)'
  <2>1. Runs(r, 0, <<>>, s) /\ relay.documents[r] = None
    BY <1>6 DEF ClosesNone
  <2> PICK k \in BOOLEAN : k = TRUE
    OBVIOUS
  <2>2. Idles(r, None, relay.building[r], k) /\ k
    BY <1>6, ClosesNoneIdles
  <2> PICK z, d, b : z = <<>> /\ d = None /\ b = relay.building[r]
    OBVIOUS
  <2>3. ~k => ~relay.closed[r] /\ (d = relay.documents[r] \/ \A m \in Of(r) : relay.lives[m].peers = {})
    BY <2>2
  <2>4. Runs(r, 0, z, s) /\ Idles(r, d, b, k) /\ (Len(z) = 1 => ~Leaving(z[1])) /\ d \in {None, relay.documents[r]}
    BY <2>1, <2>2, NoStatement
  <2>5. b = Seeding => relay.building[r] = Seeding \/ \A m \in Of(r) : relay.lives[m].peers = {}
    OBVIOUS
  <2> QED BY <2>3, <2>4, <2>5, TogetherIdles
<1>7. ASSUME NEW m, NEW s, Ignores(r, m, s)
      PROVE  TogetherInd(r)'
  <2>1. Runs(r, 0, <<>>, s)
    BY <1>7 DEF Ignores
  <2>2. Idles(r, relay.documents[r], relay.building[r], relay.closed[r])
    BY <1>7, PoppedIdles
  <2> QED BY <1>1, <2>1, <2>2
<1>8. ASSUME NEW m, NEW s, NEW t, Merges(r, m, s, t) \/ Answers(r, m, s, t)
      PROVE  TogetherInd(r)'
  <2>1. Runs(r, 0, <<>>, t)
    BY <1>8 DEF Merges, Answers
  <2>2. Idles(r, relay.documents[r], relay.building[r], relay.closed[r])
    BY <1>8, MergesIdles, AnswersIdles
  <2> QED BY <1>1, <2>1, <2>2
<1> QED BY <1>2, <1>3, <1>4, <1>5, <1>6, <1>7, <1>8

LEMMA InnerTogether ==
    ASSUME TypeInd, MapsInd, NEW r \in Replicas, QueueInd(r), QueueInd(r)', TogetherInd(r), Inner(r),
           \A m, s, t : ~IsTold(r, m, s, t)
    PROVE  TogetherInd(r)'
<1>1. CASE Hushed(r)
  BY <1>1, StillTogether, QuietTogether, DropsTogether, ClosesTogether, StaysTogether, LeavesTogether, DiesTogether,
     SeedsTogether, LetsGoTogether DEF Hushed
<1>2. CASE ~Hushed(r)
  BY <1>2, QuietTogether, StaysTogether, SetsUpTogether DEF Inner
<1> QED BY <1>1, <1>2

------------------------------------------------------------------------------
(* Nothing tells of a version before one was asked for.                       *)

NoVersion(asked) == Len(asked) = 1 => asked[1].kind # "append"
AsksNone(r) == Dies(r) \/ spent'.versions # 0 \/ \E c, asked, t : Runs(r, c, asked, t) /\ NoVersion(asked)

LEMMA NoVersionIs ==
    /\ NoVersion(<<>>) /\ NoVersion(<<LoadSession>>) /\ NoVersion(<<LatestVersion>>)
    /\ \A b \in BOOLEAN : NoVersion(<<DropSession(b)>>)
    /\ \A n, doc, why : NoVersion(<<SaveSession(n, doc, why)>>)
BY DEF NoVersion, LoadSession, LatestVersion, DropSession, SaveSession

LEMMA InnerAsksNone ==
    ASSUME NEW r, Inner(r) \/ (\E p, n, edit, t : Integrates(p, r, n, edit, t)) \/ (\E m, s : Ignores(r, m, s))
    PROVE  AsksNone(r)
<1> DEFINE Asks == \E c, asked, t : Runs(r, c, asked, t) /\ NoVersion(asked)
<1>0. /\ NoVersion(<<>>) /\ NoVersion(<<LoadSession>>) /\ NoVersion(<<LatestVersion>>)
      /\ NoVersion(<<DropSession(TRUE)>>) /\ NoVersion(<<DropSession(FALSE)>>)
      /\ \A n, doc, why : NoVersion(<<SaveSession(n, doc, why)>>)
  BY NoVersionIs
<1>1. ASSUME (\E p : Awaits(p, r)) \/ (\E s : ClosesNone(r, s)) \/ \E m, s : Ignores(r, m, s) PROVE Asks
  BY <1>0, <1>1 DEF Awaits, ClosesNone, Ignores
<1>2. ASSUME \E n, t : GoesWithout(n, r, t) \/ LetsGo(r, n, t) \/ Opens(n, r, t) PROVE Asks
  BY <1>0, <1>2 DEF GoesWithout, LetsGo, Opens
<1>3. ASSUME (\E t : Refuses(r, t) \/ Stops(r, t)) \/ \E p, n, edit, t : Integrates(p, r, n, edit, t) PROVE Asks
  BY <1>0, <1>3 DEF Refuses, Stops, Integrates
<1>4. ASSUME LooksOn(r) \/ Discards(r) \/ IsOver(r) PROVE Asks
  BY <1>0, <1>4 DEF LooksOn, Discards, IsOver
<1>5. ASSUME \E m, s, t : Merges(r, m, s, t) \/ IsTold(r, m, s, t) \/ Answers(r, m, s, t) PROVE Asks
  BY <1>0, <1>5 DEF Merges, IsTold, Answers
<1>6. ASSUME (\E p, n, t : Attaches(p, r, n, t)) \/ \E p, t : Seeds(p, r, t) PROVE Asks
  BY <1>0, <1>6 DEF Attaches, Seeds
<1>7. ASSUME \E p, n, t : LeavesOthers(p, r, n, t) \/ LeavesSaving(p, r, n, t) \/ LeavesAtOnce(p, r, n, t) PROVE Asks
  <2>1. PICK p, n, t : LeavesOthers(p, r, n, t) \/ LeavesSaving(p, r, n, t) \/ LeavesAtOnce(p, r, n, t)
    BY <1>7
  <2>2. CASE LeavesOthers(p, r, n, t) \/ LeavesAtOnce(p, r, n, t)
    BY <1>0, <2>2 DEF LeavesOthers, LeavesAtOnce
  <2>3. CASE LeavesSaving(p, r, n, t)
    BY <1>0, <2>3 DEF LeavesSaving
  <2> QED BY <2>1, <2>2, <2>3
<1>8. ASSUME \E n, t : Fires(n, r, t) PROVE Asks
  BY <1>0, <1>8 DEF Fires
<1>9. ASSUME \E n, t, s : ClosesSaving(r, n, s, t) PROVE Asks
  BY <1>0, <1>9 DEF ClosesSaving
<1>10. ASSUME (\E n, t, s : ClosesSaved(r, n, s, t)) \/ \E t, n : Finishes(r, n, t) PROVE Asks
  BY <1>0, <1>10 DEF ClosesSaved, Finishes
<1>11. ASSUME (\E n, t : EndsBuild(r, n, t)) \/ \E t, p, n : Overgrows(p, r, n, t) PROVE Asks
  BY <1>0, <1>11 DEF EndsBuild, Overgrows
<1>12. ASSUME (\E t, circuit : Tells(r, circuit, t)) \/ \E n, t, circuit : Settles(r, n, circuit, t) PROVE Asks
  BY <1>0, <1>12 DEF Tells, Settles
<1>13. ASSUME \E doc, t : SetsUp(r, doc, t) PROVE Asks
  BY <1>0, <1>13 DEF SetsUp
<1>w. Asks => AsksNone(r)
  BY DEF AsksNone
<1> HIDE DEF Asks
<1>14. CASE Hushed(r)
  BY <1>14, <1>1, <1>2, <1>3, <1>4, <1>5, <1>6, <1>7, <1>8, <1>9, <1>10, <1>11, <1>w DEF Hushed, AsksNone
<1>15. CASE Inner(r) /\ ~Hushed(r)
  BY <1>15, <1>2, <1>5, <1>12, <1>13, <1>w DEF Inner
<1> QED BY <1>14, <1>15, <1>1, <1>3, <1>w

LEMMA NoVersionAsked ==
    ASSUME TypeInd, MapsInd, NEW r \in Replicas, AsksNone(r), spent'.versions = 0,
           \A i \in DOMAIN db[r] : db[r][i].kind # "append"
    PROVE  \A i \in DOMAIN db'[r] : db'[r][i].kind # "append"
<1>1. CASE Dies(r)
  <2>1. db'[r] = <<>>
    BY <1>1, DiesIs
  <2>2. DOMAIN db'[r] = {}
    BY <2>1
  <2> QED BY <2>2
<1>2. CASE \E c, asked, t : Runs(r, c, asked, t) /\ NoVersion(asked)
  <2> PICK c, asked, t : Runs(r, c, asked, t) /\ NoVersion(asked)
    BY <1>2
  <2> PICK q, z : q = db[r] /\ z = db'[r]
    OBVIOUS
  <2>1. /\ \A i \in 1 .. Len(q) - c : i + c \in DOMAIN q /\ z[i] = q[i + c]
        /\ \A i \in DOMAIN z : i \in 1 .. Len(q) - c \/ (Len(asked) = 1 /\ z[i] = asked[1])
    BY TurnedIs
  <2>2. \A i \in DOMAIN z : z[i].kind # "append"
    BY <2>1 DEF NoVersion
  <2> QED BY <2>2
<1> QED BY <1>1, <1>2 DEF AsksNone

LEMMA OnlyOne ==
    ASSUME TypeInd, NEW r \in running, Cardinality(running) = 1
    PROVE  running = {r}
<1>1. IsFiniteSet(Replicas) /\ running \subseteq Replicas
  BY DeploymentsAssumption, RelayIs
<1>2. IsFiniteSet(running)
  BY <1>1, FS_Subset
<1> QED BY <1>2, FS_Singleton

LEMMA UntoldMade ==
    ASSUME TypeInd, MapsInd, BusInd, UntoldInd, running' = running, NEW r \in Replicas, r \in running, Elsewhere(r),
           \A q \in Replicas : QueueInd(q), relay' \in Relays, NEW given, Sends(r, given), AsksNone(r),
           spent'.versions = 0 => spent.versions = 0, Untold => TogetherInd(r)'
    PROVE  UntoldInd'
<1>1. ASSUME Cardinality(running) = 1, NEW q \in Replicas
      PROVE  relay'.inbox[q] = <<>>
  <2>1. relay.inbox[q] = <<>> /\ relay.inbox[r] = <<>>
    BY <1>1 DEF UntoldInd
  <2>2. running = {r}
    BY <1>1, OnlyOne
  <2>3. CASE q # r
    <3>1. q \notin running
      BY <2>2, <2>3
    <3>2. relay.channel[q] # "open"
      BY <3>1 DEF BusInd, ChannelInd
    <3> QED BY <2>1, <2>3, <3>2 DEF Sends, Carried
  <2>4. CASE q = r
    <3>1. DOMAIN relay'.inbox[r] = {}
      BY <2>1 DEF Sends, Carried
    <3> PICK box : box = relay'.inbox[r]
      OBVIOUS
    <3>2. box \in Seq(Messages) /\ DOMAIN box = {}
      BY <3>1, RelayFields
    <3>4. Len(box) \in Nat /\ DOMAIN box = 1 .. Len(box)
      BY <3>2
    <3>6. Len(box) # 0 => 1 \in 1 .. Len(box)
      BY <3>4
    <3>5. Len(box) = 0
      BY <3>2, <3>4, <3>6
    <3>3. box = <<>>
      BY <3>2, <3>5
    <3> QED BY <2>4, <3>3
  <2> QED BY <2>3, <2>4
<1>2. ASSUME spent'.versions = 0
      PROVE  \A q \in Replicas :
              /\ \A i \in DOMAIN relay'.inbox[q] : relay'.inbox[q][i].kind # "settled"
              /\ \A i \in DOMAIN db'[q] : db'[q][i].kind # "append"
  <2>1. \A q \in Replicas :
            /\ \A i \in DOMAIN relay.inbox[q] : relay.inbox[q][i].kind # "settled"
            /\ \A i \in DOMAIN db[q] : db[q][i].kind # "append"
    BY <1>2 DEF UntoldInd
  <2>2. \A i \in DOMAIN db'[r] : db'[r][i].kind # "append"
    BY <1>2, <2>1, NoVersionAsked
  <2>3. \A m \in given : m.kind # "settled"
    <3>1. db[r] # <<>> => Head(db[r]) = db[r][1] /\ 1 \in DOMAIN db[r]
      BY HeadIs
    <3> QED BY <2>1, <3>1 DEF Sends
  <2>4. \A q \in Replicas : q # r => db'[q] = db[q]
    BY DEF Elsewhere
  <2>5. ASSUME NEW q \in Replicas, NEW i \in DOMAIN relay'.inbox[q]
        PROVE  relay'.inbox[q][i].kind # "settled"
    <3>1. CASE q = r
      <4>1. PICK j \in DOMAIN relay.inbox[r] : relay'.inbox[r][i] = relay.inbox[r][j]
        BY <2>5, <3>1 DEF Sends, Carried
      <4> QED BY <2>1, <3>1, <4>1
    <3>2. CASE q # r
      <4>1. relay'.inbox[q][i] \in given \/ (i \in DOMAIN relay.inbox[q] /\ relay'.inbox[q][i] = relay.inbox[q][i])
        BY <2>5, <3>2 DEF Sends, Carried
      <4> QED BY <2>1, <2>3, <4>1
    <3> QED BY <3>1, <3>2
  <2> QED BY <2>1, <2>2, <2>4, <2>5
<1>3. ASSUME Untold'
      PROVE  \A q \in Replicas : TogetherInd(q)'
  <2>1. Untold
    BY <1>3 DEF Untold
  <2>2. \A q \in Replicas : TogetherInd(q)
    BY <2>1 DEF UntoldInd
  <2>3. TogetherInd(r)'
    BY <2>1
  <2> QED BY <2>2, <2>3, TogetherElsewhere
<1>4. Cardinality(running') = 1 => \A q \in Replicas : relay'.inbox[q] = <<>>
  BY <1>1
<1> QED BY <1>2, <1>3, <1>4 DEF UntoldInd

\* Nobody is told where there is nobody to tell.
LEMMA NotTold ==
    ASSUME TypeInd, UntoldInd, Untold, NEW r \in Replicas, NEW m, NEW s, NEW t, IsTold(r, m, s, t)
    PROVE  FALSE
<1>1. relay.inbox[r] # <<>> /\ m = Head(relay.inbox[r]) /\ m.kind = "settled"
  BY DEF IsTold, Pops
<1>2. relay.inbox[r] \in Seq(Messages)
  BY RelayIs, RelayFields
<1>3. 1 \in DOMAIN relay.inbox[r] /\ m = relay.inbox[r][1]
  BY <1>1, <1>2
<1> QED BY <1>1, <1>3 DEF Untold, UntoldInd

LEMMA InnerUntold ==
    ASSUME TypeInd, MapsInd, BusInd, UntoldInd, running' = running, NEW r \in Replicas, r \in running, Elsewhere(r),
           \A q \in Replicas : QueueInd(q), QueueInd(r)', Inner(r), NEW given, Sends(r, given),
           spent'.versions = 0 => spent.versions = 0
    PROVE  UntoldInd'
<1>1. AsksNone(r)
  BY InnerAsksNone
<1>2. relay' \in Relays
  BY InnerIsLocal, LocalTypes
<1>3. ASSUME Untold
      PROVE  TogetherInd(r)'
  <2>1. TogetherInd(r)
    BY <1>3 DEF UntoldInd
  <2>2. \A m, s, t : ~IsTold(r, m, s, t)
    BY <1>3, NotTold
  <2> QED BY <2>1, <2>2, InnerTogether
<1> QED BY <1>1, <1>2, <1>3, UntoldMade

LEMMA OtherUntold ==
    ASSUME TypeInd, MapsInd, BusInd, UntoldInd, running' = running, NEW r \in Replicas, r \in running, Elsewhere(r),
           \A q \in Replicas : QueueInd(q), QueueInd(r)', NEW given, Sends(r, given), spent'.versions = spent.versions,
           (\E p, n, edit, t : Integrates(p, r, n, edit, t)) \/ (\E m, s : Ignores(r, m, s))
    PROVE  UntoldInd'
<1>1. AsksNone(r)
  BY InnerAsksNone
<1>2. relay' \in Relays
  BY InnerIsLocal, LocalTypes
<1>3. ASSUME Untold
      PROVE  TogetherInd(r)'
  <2>1. TogetherInd(r)
    BY <1>3 DEF UntoldInd
  <2> QED BY <2>1, QuietTogether, StaysTogether
<1> QED BY <1>1, <1>2, <1>3, UntoldMade

------------------------------------------------------------------------------
(* A statement takes effect. *)

\* The statement once it is done.
Ended(h, v) ==
    /\ h \in Statements /\ v \in Statements /\ ~h.done /\ v.done /\ v.kind = h.kind
    /\ Lookup(v) = Lookup(h) /\ Leaving(v) = Leaving(h)
    /\ h.kind = "save" => v.live = h.live /\ v.why = h.why /\ v.doc = h.doc
    /\ h.kind = "append" => v.circuit = h.circuit
\* What it does to what is stored.
Stores(h, v) ==
    /\ h.kind \in {"load", "latest"} => row' = row /\ version' = version
    /\ h.kind = "load" => v.got = row
    /\ h.kind = "latest" => v.got = version
    /\ h.kind = "save" => row' = h.doc /\ version' = version
    /\ h.kind = "drop" => row' = NoRow /\ version' = version
    /\ h.kind = "append" => row' = NoRow /\ version' = h.circuit
Performs(r) ==
    LET q == db[r]
        z == db'[r]
    IN  /\ r \in Replicas /\ r \in running /\ UNCHANGED registryVars
        /\ db' \in Queues /\ \A s \in Replicas : s # r => db'[s] = db[s]
        /\ 1 \in DOMAIN q /\ DOMAIN z = DOMAIN q /\ \A i \in DOMAIN q : i # 1 => z[i] = q[i]
        /\ Ended(q[1], z[1]) /\ Stores(q[1], z[1])

LEMMA EndedIs ==
    ASSUME NEW h \in Statements, ~h.done
    PROVE  /\ h.kind = "load" => \A got \in Documents \cup {NoRow} : Ended(h, [h EXCEPT !.got = got, !.done = TRUE])
           /\ h.kind = "latest" => \A got \in SUBSET Edits : Ended(h, [h EXCEPT !.got = got, !.done = TRUE])
           /\ h.kind \in {"save", "drop", "append"} => Ended(h, [h EXCEPT !.done = TRUE])
<1>1. CASE h \in [kind : {"load"}, done : BOOLEAN, got : Documents \cup {NoRow}]
  <2>1. ASSUME NEW got \in Documents \cup {NoRow}
        PROVE  Ended(h, [h EXCEPT !.got = got, !.done = TRUE])
    <3> PICK v : v = [h EXCEPT !.got = got, !.done = TRUE]
      OBVIOUS
    <3>1. v \in [kind : {"load"}, done : BOOLEAN, got : Documents \cup {NoRow}] /\ v.done /\ v.kind = "load" /\ h.kind = "load"
      BY <1>1, <2>1
    <3>2. v \in Statements
      BY <3>1 DEF Statements
    <3>3. Ended(h, v)
      BY <3>1, <3>2 DEF Ended, Lookup, Leaving
    <3> QED BY <3>3
  <2>2. h.kind = "load"
    BY <1>1
  <2> QED BY <2>1, <2>2
<1>2. CASE h \in [kind : {"latest"}, done : BOOLEAN, got : SUBSET Edits]
  <2>1. ASSUME NEW got \in SUBSET Edits
        PROVE  Ended(h, [h EXCEPT !.got = got, !.done = TRUE])
    <3> PICK v : v = [h EXCEPT !.got = got, !.done = TRUE]
      OBVIOUS
    <3>1. v \in [kind : {"latest"}, done : BOOLEAN, got : SUBSET Edits] /\ v.done /\ v.kind = "latest" /\ h.kind = "latest"
      BY <1>2, <2>1
    <3>2. v \in Statements
      BY <3>1 DEF Statements
    <3>3. Ended(h, v)
      BY <3>1, <3>2 DEF Ended, Lookup, Leaving
    <3> QED BY <3>3
  <2>2. h.kind = "latest"
    BY <1>2
  <2> QED BY <2>1, <2>2
<1> PICK v : v = [h EXCEPT !.done = TRUE]
  OBVIOUS
<1>3. CASE h \in [kind : {"save"}, done : BOOLEAN, live : Nat, doc : Documents, why : {"timer", "leave", "close"}]
  <2>1. /\ v \in [kind : {"save"}, done : BOOLEAN, live : Nat, doc : Documents, why : {"timer", "leave", "close"}]
        /\ v.done /\ v.kind = "save" /\ h.kind = "save" /\ v.live = h.live /\ v.why = h.why /\ v.doc = h.doc
    BY <1>3
  <2>2. v \in Statements
    BY <2>1 DEF Statements
  <2>3. Ended(h, v)
    BY <2>1, <2>2 DEF Ended, Lookup, Leaving
  <2> QED BY <2>1, <2>3
<1>4. CASE h \in [kind : {"drop"}, done : BOOLEAN, reseed : BOOLEAN]
  <2>1. /\ v \in [kind : {"drop"}, done : BOOLEAN, reseed : BOOLEAN]
        /\ v.done /\ v.kind = "drop" /\ h.kind = "drop" /\ v.reseed = h.reseed
    BY <1>4
  <2>2. v \in Statements
    BY <2>1 DEF Statements
  <2>3. Ended(h, v)
    BY <2>1, <2>2 DEF Ended, Lookup, Leaving
  <2> QED BY <2>1, <2>3
<1>5. CASE h \in [kind : {"append"}, done : BOOLEAN, circuit : SUBSET Edits, restore : BOOLEAN]
  <2>1. /\ v \in [kind : {"append"}, done : BOOLEAN, circuit : SUBSET Edits, restore : BOOLEAN]
        /\ v.done /\ v.kind = "append" /\ h.kind = "append" /\ v.circuit = h.circuit
    BY <1>5
  <2>2. v \in Statements
    BY <2>1 DEF Statements
  <2>3. Ended(h, v)
    BY <2>1, <2>2 DEF Ended, Lookup, Leaving
  <2> QED BY <2>1, <2>3
<1> QED BY <1>1, <1>2, <1>3, <1>4, <1>5 DEF Statements

LEMMA DoneIs ==
    ASSUME TypeInd, NEW r \in Replicas, db[r] # <<>>, NEW h, NEW v, v = [h EXCEPT !.done = TRUE], v \in Statements, Done(r, h)
    PROVE  /\ db' \in Queues /\ \A s \in Replicas : s # r => db'[s] = db[s]
           /\ DOMAIN db'[r] = DOMAIN db[r] /\ \A i \in DOMAIN db[r] : i # 1 => db'[r][i] = db[r][i]
           /\ db'[r][1] = v
<1>1. db \in Queues /\ db[r] \in Seq(Statements) /\ 1 \in DOMAIN db[r]
  BY HeadIs, RelayIs
<1> PICK q : q = db[r]
  OBVIOUS
<1> PICK z : z = [q EXCEPT ![1] = v]
  OBVIOUS
<1>2. z \in Seq(Statements) /\ DOMAIN z = DOMAIN q /\ z[1] = v /\ \A i \in DOMAIN q : i # 1 => z[i] = q[i]
  BY <1>1
<1>3. db' = [db EXCEPT ![r] = z]
  BY DEF Done
<1> QED BY <1>1, <1>2, <1>3 DEF Queues

LEMMA ExecuteSteps ==
    ASSUME TypeInd, NEW r \in running, Execute(r), UNCHANGED registryVars
    PROVE  Performs(r)
<1>0. r \in Replicas
  BY RelayIs
<1> PICK h : h = Head(db[r])
  OBVIOUS
<1>1. db[r] # <<>> /\ ~h.done /\ h = db[r][1] /\ 1 \in DOMAIN db[r] /\ h \in Statements
  BY <1>0, HeadIs DEF Execute, Running
<1>2. row \in Documents \cup {NoRow} /\ version \in SUBSET Edits
  BY DEF TypeInd
<1>3. ASSUME NEW g, NEW v, v = [g EXCEPT !.done = TRUE], Done(r, g), Ended(h, v), Stores(h, v)
      PROVE  Performs(r)
  <2>1. v \in Statements
    BY <1>3 DEF Ended
  <2>2. /\ db' \in Queues /\ \A s \in Replicas : s # r => db'[s] = db[s]
        /\ DOMAIN db'[r] = DOMAIN db[r] /\ \A i \in DOMAIN db[r] : i # 1 => db'[r][i] = db[r][i]
        /\ db'[r][1] = v
    BY <1>0, <1>1, <1>3, <2>1, DoneIs
  <2> QED BY <1>0, <1>1, <1>3, <2>2 DEF Performs
<1>4. CASE h.kind = "load" /\ Done(r, [h EXCEPT !.got = row]) /\ UNCHANGED <<row, version>>
  <2> PICK g, v, w : g = [h EXCEPT !.got = row] /\ v = [g EXCEPT !.done = TRUE] /\ w = [h EXCEPT !.got = row, !.done = TRUE]
    OBVIOUS
  <2>1. Ended(h, w)
    BY <1>1, <1>2, <1>4, EndedIs
  <2>2. v = w
    OBVIOUS
  <2>3. v.got = row
    BY <1>1, <1>4 DEF Statements
  <2>4. Stores(h, v)
    BY <1>4, <2>3 DEF Stores
  <2> QED BY <1>3, <1>4, <2>1, <2>2, <2>4
<1>5. CASE h.kind = "latest" /\ Done(r, [h EXCEPT !.got = version]) /\ UNCHANGED <<row, version>>
  <2> PICK g, v, w : g = [h EXCEPT !.got = version] /\ v = [g EXCEPT !.done = TRUE] /\ w = [h EXCEPT !.got = version, !.done = TRUE]
    OBVIOUS
  <2>1. Ended(h, w)
    BY <1>1, <1>2, <1>5, EndedIs
  <2>2. v = w
    OBVIOUS
  <2>3. v.got = version
    BY <1>1, <1>5 DEF Statements
  <2>4. Stores(h, v)
    BY <1>5, <2>3 DEF Stores
  <2> QED BY <1>3, <1>5, <2>1, <2>2, <2>4
<1> PICK v : v = [h EXCEPT !.done = TRUE]
  OBVIOUS
<1>6. CASE h.kind \in {"save", "drop", "append"} /\ Done(r, h) /\ Stores(h, v)
  <2>1. Ended(h, v)
    BY <1>1, <1>6, EndedIs
  <2> QED BY <1>3, <1>6, <2>1
<1>7. CASE h.kind = "save" /\ Done(r, h) /\ row' = h.doc /\ UNCHANGED version
  BY <1>6, <1>7 DEF Stores
<1>8. CASE h.kind = "drop" /\ Done(r, h) /\ row' = NoRow /\ UNCHANGED version
  BY <1>6, <1>8 DEF Stores
<1>9. CASE h.kind = "append" /\ Done(r, h) /\ version' = h.circuit /\ row' = NoRow
  BY <1>6, <1>9 DEF Stores
<1> QED BY <1>4, <1>5, <1>7, <1>8, <1>9 DEF Execute

\* What the other parts of the invariant see of it.
LEMMA PerformedIs ==
    ASSUME TypeInd, NEW r, Performs(r)
    PROVE  /\ r \in Replicas /\ r \in running /\ relay' = relay /\ peers' = peers /\ db' \in Queues
           /\ Of(r)' = Of(r) /\ \A s \in Replicas : s # r => db'[s] = db[s] /\ Of(s)' = Of(s)
           /\ row' \in Documents \cup {NoRow} /\ version' \in SUBSET Edits
<1>1. /\ r \in Replicas /\ r \in running /\ relay' = relay /\ peers' = peers /\ db' \in Queues
      /\ \A s \in Replicas : s # r => db'[s] = db[s]
  BY DEF Performs, registryVars
<1>2. \A s \in Replicas : Of(s)' = Of(s)
  BY <1>1 DEF Of
<1>3. row \in Documents \cup {NoRow} /\ version \in SUBSET Edits
  BY DEF TypeInd
<1> PICK h, v : h = db[r][1] /\ v = db'[r][1]
  OBVIOUS
<1>4. h \in Statements /\ Stores(h, v)
  BY DEF Performs, Ended
<1>5. /\ h.kind \in {"load", "latest", "save", "drop", "append"}
      /\ h.kind = "save" => h.doc \in Documents
      /\ h.kind = "append" => h.circuit \in SUBSET Edits
  BY <1>4, StatementIs
<1>6. row' \in Documents \cup {NoRow} /\ version' \in SUBSET Edits
  BY <1>3, <1>4, <1>5 DEF Stores
<1> QED BY <1>1, <1>2, <1>6

\* The queue as it stands, statement by statement.
LEMMA PerformedQueue ==
    ASSUME NEW r, Performs(r)
    PROVE  /\ DOMAIN db'[r] = DOMAIN db[r] /\ 1 \in DOMAIN db[r]
           /\ \A i \in DOMAIN db[r] :
                 /\ Lookup(db'[r][i]) = Lookup(db[r][i]) /\ Leaving(db'[r][i]) = Leaving(db[r][i])
                 /\ db'[r][i].kind = db[r][i].kind /\ (i # 1 => db'[r][i] = db[r][i])
                 /\ db[r][i].kind = "save" => /\ db'[r][i].live = db[r][i].live /\ db'[r][i].why = db[r][i].why
                                              /\ db'[r][i].doc = db[r][i].doc
                 /\ db[r][i].kind = "append" => db'[r][i].circuit = db[r][i].circuit
<1> PICK q, z : q = db[r] /\ z = db'[r]
  OBVIOUS
<1>1. 1 \in DOMAIN q /\ DOMAIN z = DOMAIN q /\ Ended(q[1], z[1]) /\ \A i \in DOMAIN q : i # 1 => z[i] = q[i]
  BY DEF Performs
<1>2. /\ z[1].kind = q[1].kind /\ Lookup(z[1]) = Lookup(q[1]) /\ Leaving(z[1]) = Leaving(q[1])
      /\ q[1].kind = "save" => z[1].live = q[1].live /\ z[1].why = q[1].why /\ z[1].doc = q[1].doc
      /\ q[1].kind = "append" => z[1].circuit = q[1].circuit
  BY <1>1 DEF Ended
<1>3. \A i \in DOMAIN q :
          /\ Lookup(z[i]) = Lookup(q[i]) /\ Leaving(z[i]) = Leaving(q[i])
          /\ z[i].kind = q[i].kind /\ (i # 1 => z[i] = q[i])
          /\ q[i].kind = "save" => /\ z[i].live = q[i].live /\ z[i].why = q[i].why /\ z[i].doc = q[i].doc
          /\ q[i].kind = "append" => z[i].circuit = q[i].circuit
  BY <1>1, <1>2
<1> QED BY <1>1, <1>3

LEMMA PerformsMaps ==
    ASSUME TypeInd, MapsInd, running' = running, NEW r, Performs(r)
    PROVE  MapsInd'
<1>1. relay' = relay /\ peers' = peers /\ r \in running /\ \A s \in Replicas : s # r => db'[s] = db[s]
  BY PerformedIs
<1>2. \A n \in DOMAIN relay.lives : LiveInd(n)'
  BY <1>1 DEF MapsInd, LiveInd
<1>3. \A p \in Peers : PlaceInd(p)'
  BY <1>1 DEF MapsInd, PlaceInd, Of
<1>4. \A s \in Replicas : MapInd(s)'
  BY <1>1 DEF MapsInd, MapInd, Of
<1>5. RoomInd'
  <2>1. Seeders' = Seeders
    BY <1>1 DEF Seeders
  <2> QED BY <1>1, <2>1 DEF MapsInd, RoomInd
<1> QED BY <1>1, <1>2, <1>3, <1>4, <1>5 DEF MapsInd

LEMMA PerformsBus ==
    ASSUME TypeInd, BusInd, running' = running, owed' = owed, NEW r, Performs(r)
    PROVE  BusInd'
<1>1. relay' = relay
  BY PerformedIs
<1>2. \A s \in Replicas : ChannelInd(s)'
  BY <1>1 DEF BusInd, ChannelInd, Of, Subscribed, Brought
<1> QED BY <1>1, <1>2 DEF BusInd

LEMMA PerformsQueue ==
    ASSUME TypeInd, NEW r, Performs(r), NEW s \in Replicas, QueueInd(s)
    PROVE  QueueInd(s)'
<1>1. relay' = relay /\ r \in Replicas /\ Of(s)' = Of(s) /\ (s # r => db'[s] = db[s])
  BY PerformedIs
<1>2. CASE s # r
  BY <1>1, <1>2 DEF QueueInd
<1>3. CASE s = r
  <2> PICK q, z : q = db[s] /\ z = db'[s]
    OBVIOUS
  <2>1. /\ DOMAIN z = DOMAIN q /\ 1 \in DOMAIN q
        /\ \A i \in DOMAIN q :
              /\ Lookup(z[i]) = Lookup(q[i]) /\ z[i].kind = q[i].kind /\ (i # 1 => z[i] = q[i])
              /\ q[i].kind = "save" => /\ z[i].live = q[i].live /\ z[i].why = q[i].why
    BY <1>3, PerformedQueue
  <2>2. /\ \A i \in DOMAIN q : i # 1 => ~q[i].done
        /\ relay.building[s] = Seeding <=> \E i \in DOMAIN q : Lookup(q[i])
        /\ \A i, j \in DOMAIN q : Lookup(q[i]) /\ Lookup(q[j]) => i = j
        /\ \A i \in DOMAIN q : q[i].kind = "save" =>
              q[i].live \in Of(s) /\ (q[i].why = "close" => relay.closed[s])
    BY DEF QueueInd
  <2>3. /\ \A i \in DOMAIN z : i # 1 => ~z[i].done
        /\ relay'.building[s] = Seeding <=> \E i \in DOMAIN z : Lookup(z[i])
        /\ \A i, j \in DOMAIN z : Lookup(z[i]) /\ Lookup(z[j]) => i = j
        /\ \A i \in DOMAIN z : z[i].kind = "save" =>
              z[i].live \in Of(s)' /\ (z[i].why = "close" => relay'.closed[s])
    BY <1>1, <2>1, <2>2
  <2> QED BY <2>3 DEF QueueInd
<1> QED BY <1>2, <1>3

LEMMA PerformsTogether ==
    ASSUME TypeInd, NEW r, Performs(r), NEW s \in Replicas, TogetherInd(s)
    PROVE  TogetherInd(s)'
<1>1. relay' = relay /\ r \in Replicas /\ Of(s)' = Of(s) /\ (s # r => db'[s] = db[s])
  BY PerformedIs
<1>2. CASE s # r
  BY <1>1, <1>2 DEF TogetherInd
<1>3. CASE s = r
  <2> PICK q, z : q = db[s] /\ z = db'[s]
    OBVIOUS
  <2>1. /\ DOMAIN z = DOMAIN q
        /\ \A i \in DOMAIN q : Lookup(z[i]) = Lookup(q[i]) /\ Leaving(z[i]) = Leaving(q[i])
        /\ \A i \in DOMAIN q : Leaving(q[i]) => z[i].live = q[i].live
    BY <1>3, PerformedQueue DEF Leaving
  <2>2. /\ \A i, j \in DOMAIN q : Lookup(q[i]) /\ i < j => ~Leaving(q[j])
        /\ \A i \in DOMAIN q : Leaving(q[i]) =>
              relay.documents[s] \in {None, q[i].live} \/ relay.lives[q[i].live].dropping
    BY DEF TogetherInd
  <2>3. /\ \A i, j \in DOMAIN z : Lookup(z[i]) /\ i < j => ~Leaving(z[j])
        /\ \A i \in DOMAIN z : Leaving(z[i]) =>
              relay'.documents[s] \in {None, z[i].live} \/ relay'.lives[z[i].live].dropping
    BY <1>1, <2>1, <2>2
  <2>4. Gathered(s)'
    BY <1>1, GatheredIs DEF Gathered
  <2>5. /\ ~relay'.closed[s] => \A n \in Of(s)' : relay'.lives[n].peers # {} => relay'.documents[s] = n
        /\ relay'.building[s] = Seeding => \A n \in Of(s)' : relay'.lives[n].peers = {}
    BY <2>4 DEF Gathered
  <2> QED BY <2>3, <2>5 DEF TogetherInd
<1> QED BY <1>2, <1>3

LEMMA PerformsUntold ==
    ASSUME TypeInd, UntoldInd, running' = running, spent' = spent, NEW r, Performs(r)
    PROVE  UntoldInd'
<1>1. relay' = relay /\ r \in Replicas /\ \A s \in Replicas : s # r => db'[s] = db[s]
  BY PerformedIs
<1>2. Cardinality(running') = 1 => \A s \in Replicas : relay'.inbox[s] = <<>>
  BY <1>1 DEF UntoldInd
<1>3. ASSUME spent'.versions = 0, NEW s \in Replicas
      PROVE  /\ \A i \in DOMAIN relay'.inbox[s] : relay'.inbox[s][i].kind # "settled"
             /\ \A i \in DOMAIN db'[s] : db'[s][i].kind # "append"
  <2>1. /\ \A i \in DOMAIN relay.inbox[s] : relay.inbox[s][i].kind # "settled"
        /\ \A i \in DOMAIN db[s] : db[s][i].kind # "append"
    BY <1>3 DEF UntoldInd
  <2>2. s = r => \A i \in DOMAIN db'[r] : db'[r][i].kind # "append"
    BY <2>1, PerformedQueue
  <2> QED BY <1>1, <2>1, <2>2
<1>4. ASSUME Untold', NEW s \in Replicas
      PROVE  TogetherInd(s)'
  <2>1. TogetherInd(s)
    BY <1>4 DEF Untold, UntoldInd
  <2> QED BY <2>1, PerformsTogether
<1> QED BY <1>2, <1>3, <1>4 DEF UntoldInd

LEMMA PerformsAccepted ==
    ASSUME TypeInd, AcceptedInd, accepted' = accepted, NEW r, Performs(r)
    PROVE  AcceptedInd'
<1>1. relay' = relay /\ r \in Replicas /\ \A s \in Replicas : s # r => db'[s] = db[s]
  BY PerformedIs
<1> PICK h, v : h = db[r][1] /\ v = db'[r][1]
  OBVIOUS
<1>2. Ended(h, v) /\ Stores(h, v) /\ 1 \in DOMAIN db[r]
  BY DEF Performs
<1>3. StatementFrom(h, accepted) /\ (row # NoRow => From(row, accepted)) /\ version \subseteq accepted
  BY <1>1, <1>2 DEF AcceptedInd
<1>4. h.kind \in {"load", "latest", "save", "drop", "append"}
  BY <1>2, StatementIs DEF Ended
<1>5. (row' # NoRow => From(row', accepted)) /\ version' \subseteq accepted
  BY <1>2, <1>3, <1>4 DEF Stores, StatementFrom
<1>6. StatementFrom(v, accepted)
  <2>1. v.kind = h.kind /\ (h.kind = "save" => v.doc = h.doc) /\ (h.kind = "append" => v.circuit = h.circuit)
    BY <1>2 DEF Ended
  <2>2. (h.kind = "load" => v.got = row) /\ (h.kind = "latest" => v.got = version)
    BY <1>2 DEF Stores
  <2> QED BY <1>3, <2>1, <2>2 DEF StatementFrom
<1>7. ASSUME NEW s \in Replicas, NEW i \in DOMAIN db'[s]
      PROVE  StatementFrom(db'[s][i], accepted')
  <2>1. CASE s # r
    BY <1>1, <1>7, <2>1 DEF AcceptedInd
  <2>2. CASE s = r /\ i # 1
    <3>1. i \in DOMAIN db[r] /\ db'[r][i] = db[r][i]
      BY <1>7, <2>2, PerformedQueue
    <3>2. StatementFrom(db[r][i], accepted)
      BY <1>1, <3>1 DEF AcceptedInd
    <3>3. StatementFrom(db'[r][i], accepted)
      BY <3>1, <3>2
    <3> QED BY <2>2, <3>3
  <2>3. CASE s = r /\ i = 1
    BY <1>6, <2>3
  <2> QED BY <2>1, <2>2, <2>3
<1>8. /\ \A n \in DOMAIN relay'.lives : From(relay'.lives[n].doc, accepted')
      /\ \A s \in Replicas : \A i \in DOMAIN relay'.inbox[s] : From(relay'.inbox[s][i].doc, accepted')
  BY <1>1 DEF AcceptedInd
<1>9. (row' # NoRow => From(row', accepted')) /\ version' \subseteq accepted'
  BY <1>5
<1> QED BY <1>7, <1>8, <1>9 DEF AcceptedInd

------------------------------------------------------------------------------
(* Every action is a step of a process, and this is what else it changes. *)

\* The store and the deployment stay, and what is counted is counted on.
Keeping ==
    /\ deployed' = deployed /\ row' = row /\ version' = version
    /\ kept' \subseteq accepted' /\ late' \in BOOLEAN
    /\ spent' \in [faults : Nat, versions : Nat, incidents : Nat]
    /\ spent'.versions = 0 => spent.versions = 0
Frames == Keeping /\ accepted' = accepted /\ owed' = owed

LEMMA SameFrames ==
    ASSUME TypeInd, Same, row' = row, version' = version
    PROVE  Frames
BY DEF TypeInd, Same, ghosts, Frames, Keeping

LEMMA JoinsInner ==
    ASSUME TypeInd, MapsInd, Joins
    PROVE  Frames /\ \E r \in running : Inner(r)
<1> PICK r \in running : (\E p \in deployed.serves[r] : Join(p, r)) /\ Same
  BY DEF Joins
<1> PICK p \in deployed.serves[r] : Join(p, r)
  OBVIOUS
<1>1. Hushed(r)
  BY JoinSteps DEF Hushed
<1>2. row' = row /\ version' = version
  BY DEF Join
<1> QED BY <1>1, <1>2, SameFrames DEF Inner

LEMMA LeavesInner ==
    ASSUME TypeInd, MapsInd, Leaves
    PROVE  Frames /\ \E r \in running : Inner(r)
<1> PICK p \in Peers : Detach(p) /\ Same
  BY DEF Leaves
<1> PICK r, n, t : r = peers[p].replica /\ n = peers[p].live /\ t = Detached(relay, p, n)
  OBVIOUS
<1>1. LeavesOthers(p, r, n, t) \/ LeavesSaving(p, r, n, t) \/ LeavesAtOnce(p, r, n, t)
  BY DetachSteps
<1>2. r \in running
  BY PlaceOf DEF Detach
<1>3. Hushed(r)
  BY <1>1 DEF Hushed
<1>4. row' = row /\ version' = version
  BY DEF Detach
<1> QED BY <1>2, <1>3, <1>4, SameFrames DEF Inner

LEMMA OwnerRuns ==
    ASSUME TypeInd, MapsInd, NEW n \in DOMAIN relay.lives
    PROVE  relay.lives[n].replica \in running
BY DEF MapsInd, LiveInd

LEMMA TimerInner ==
    ASSUME TypeInd, MapsInd, Timer
    PROVE  Frames /\ \E r \in running : Inner(r)
<1> PICK n \in DOMAIN relay.lives : TimerFires(n) /\ Same
  BY DEF Timer
<1> PICK r : r = relay.lives[n].replica
  OBVIOUS
<1>1. Fires(n, r, Flush(relay, n, "timer")) /\ r \in running
  BY TimerSteps, OwnerRuns
<1>2. Hushed(r)
  BY <1>1 DEF Hushed
<1>3. row' = row /\ version' = version
  BY DEF TimerFires
<1> QED BY <1>1, <1>2, <1>3, SameFrames DEF Inner

LEMMA BusInner ==
    ASSUME TypeInd, MapsInd, Bus
    PROVE  Frames /\ \E r \in running : Inner(r)
<1> PICK n \in DOMAIN relay.lives : Subscribe(n) /\ Same
  BY DEF Bus
<1> PICK r : r = relay.lives[n].replica
  OBVIOUS
<1>1. Opens(n, r, OpensTo(n)) /\ r \in running
  BY SubscribeSteps, OwnerRuns
<1>2. row' = row /\ version' = version
  BY DEF Subscribe
<1> QED BY <1>1, <1>2, SameFrames DEF Inner

LEMMA BuildsInner ==
    ASSUME TypeInd, MapsInd, Builds
    PROVE  Frames /\ \E r \in running : Inner(r)
<1> PICK r \in running : BuildEnds(r) /\ Same
  BY DEF Builds
<1>1. EndsBuild(r, relay.building[r], relay')
  BY BuildEndsSteps
<1>2. Hushed(r)
  BY <1>1 DEF Hushed
<1>3. row' = row /\ version' = version
  BY DEF BuildEnds, storeVars
<1> QED BY <1>2, <1>3, SameFrames DEF Inner

LEMMA ReceivesInner ==
    ASSUME TypeInd, MapsInd, Receives
    PROVE  Frames /\ \E r \in running : Inner(r) \/ \E m, s : Ignores(r, m, s) /\ m.kind = "sync-request"
<1> PICK r \in running : Receive(r) /\ Same
  BY DEF Receives
<1> PICK m, s, t : m = Head(relay.inbox[r]) /\ s = PoppedTo(r) /\ t = Taken(s, r, m)
  OBVIOUS
<1>1. \/ Merges(r, m, s, t) \/ Answers(r, m, s, t) \/ IsTold(r, m, s, t)
      \/ Ignores(r, m, s) /\ m.kind = "sync-request"
  BY ReceiveSteps
<1>2. Merges(r, m, s, t) \/ IsTold(r, m, s, t) => Hushed(r)
  BY DEF Hushed
<1>3. row' = row /\ version' = version
  BY DEF Receive
<1> QED BY <1>1, <1>2, <1>3, SameFrames DEF Inner

LEMMA RepliesInner ==
    ASSUME TypeInd, MapsInd, AcceptedInd, \A q \in Replicas : QueueInd(q), Replies
    PROVE  Frames /\ \E r \in running : Inner(r)
<1> PICK r \in running :
        /\ Reply(r)
        /\ UNCHANGED <<deployed, accepted, owed, spent>>
        /\ (kept' = kept /\ late' = late) \/ (kept' = kept \cap Head(db[r]).circuit /\ late' \in BOOLEAN)
  BY DEF Replies, TypeInd
<1>0. r \in Replicas /\ db[r] # <<>> /\ row' = row /\ version' = version
  BY RelayIs DEF Reply, Answered
<1>1. Frames
  BY <1>0 DEF Frames, Keeping, TypeInd
<1> PICK st : st = Head(db[r])
  OBVIOUS
<1>2. \/ st.kind = "load" /\ st.got # NoRow /\ (SetsUp(r, st.got, FoundTo(r)) \/ Refuses(r, FoundTo(r)))
      \/ st.kind = "load" /\ st.got = NoRow /\ LooksOn(r)
      \/ st.kind = "latest" /\ (SetsUp(r, DocumentOf(st.got), LatestTo(r)) \/ Refuses(r, LatestTo(r)))
      \/ st.kind = "append" /\ (Tells(r, st.circuit, SettleTo(r)) \/ Settles(r, relay.documents[r], st.circuit, SettleTo(r)))
      \/ st.kind \in {"save", "drop"} /\ (LooksOn(r) \/ IsOver(r) \/ LetsGo(r, st.live, OverTo(r)) \/ Finishes(r, st.live, OverTo(r)))
  BY <1>0, ReplySteps
<1>3. StatementFrom(st, accepted)
  BY <1>0, HeadIs DEF AcceptedInd
<1>4. st.kind = "latest" => From(DocumentOf(st.got), accepted)
  BY <1>3 DEF StatementFrom, DocumentOf, From
<1>5. Refuses(r, FoundTo(r)) \/ Refuses(r, LatestTo(r)) \/ LooksOn(r) \/ IsOver(r)
         \/ LetsGo(r, st.live, OverTo(r)) \/ Finishes(r, st.live, OverTo(r)) => Hushed(r)
  BY DEF Hushed
<1>6. Inner(r)
  BY <1>2, <1>3, <1>4, <1>5 DEF Inner, StatementFrom
<1> QED BY <1>1, <1>6

LEMMA EndsInner ==
    ASSUME TypeInd, MapsInd, Ends
    PROVE  Frames /\ \E r \in running : Inner(r)
<1> PICK r \in running : CloseEnds(r) /\ Same
  BY DEF Ends
<1>1. Dies(r)
  BY CloseEndsSteps
<1>2. Hushed(r)
  BY <1>1 DEF Hushed
<1>3. row' = row /\ version' = version
  BY DEF CloseEnds, Gone
<1> QED BY <1>2, <1>3, SameFrames DEF Inner

\* What the bounds count is counted on.
LEMMA SpendIs ==
    ASSUME TypeInd
    PROVE  /\ Spend(spent) => /\ spent' \in [faults : Nat, versions : Nat, incidents : Nat]
                              /\ spent'.versions = spent.versions
           /\ Spend([spent EXCEPT !.versions = @ + 1]) =>
                 /\ spent' \in [faults : Nat, versions : Nat, incidents : Nat] /\ spent'.versions = spent.versions + 1
           /\ Spend([spent EXCEPT !.faults = @ + 1]) =>
                 /\ spent' \in [faults : Nat, versions : Nat, incidents : Nat] /\ spent'.versions = spent.versions
           /\ spent.versions \in Nat
<1> DEFINE Counts == [faults : Nat, versions : Nat, incidents : Nat]
<1>1. spent \in Counts
  BY DEF TypeInd
<1>2. \A w \in Counts : Spend(w) => spent' \in Counts /\ spent'.versions = w.versions
  BY DEF Spend
<1>3. /\ [spent EXCEPT !.versions = @ + 1] \in Counts /\ [spent EXCEPT !.versions = @ + 1].versions = spent.versions + 1
      /\ [spent EXCEPT !.faults = @ + 1] \in Counts /\ [spent EXCEPT !.faults = @ + 1].versions = spent.versions
      /\ spent.versions \in Nat
  BY <1>1
<1> QED BY <1>1, <1>2, <1>3

LEMMA ShutdownInner ==
    ASSUME TypeInd, MapsInd, Shutdown
    PROVE  Frames /\ spent'.versions = spent.versions /\ \E r \in running : Inner(r)
<1> PICK r \in running : Close(r)
  BY DEF Shutdown
<1>0. Spend(spent) /\ UNCHANGED <<deployed, accepted, kept, owed, late>>
  BY DEF Shutdown
<1> PICK n, s, t : n = relay.documents[r] /\ s = ClosingTo(r) /\ t = ClosesTo(r)
  OBVIOUS
<1>1. ClosesNone(r, s) \/ ClosesSaving(r, n, s, t) \/ ClosesSaved(r, n, s, t)
  BY CloseSteps
<1>2. Hushed(r)
  BY <1>1 DEF Hushed
<1>3. row' = row /\ version' = version
  BY DEF Close
<1>4. Frames /\ spent'.versions = spent.versions
  BY <1>0, <1>3, SpendIs DEF Frames, Keeping, TypeInd
<1> QED BY <1>2, <1>4 DEF Inner

\* What is stored was accepted, and what the session shows.
LEMMA ShownIs ==
    ASSUME TypeInd, MapsInd, AcceptedInd, NEW r \in Replicas
    PROVE  /\ Content(Seed) \subseteq accepted
           /\ relay.documents[r] # None => Content(relay.lives[relay.documents[r]].doc) \subseteq accepted
           /\ accepted \subseteq Edits
<1>1. Content(Seed) \subseteq accepted
  BY DEF Content, Seed, DocumentOf, AcceptedInd, From
<1>2. ASSUME relay.documents[r] # None
      PROVE  Content(relay.lives[relay.documents[r]].doc) \subseteq accepted
  <2>1. relay.documents[r] \in DOMAIN relay.lives
    BY <1>2, MapOf
  <2> QED BY <2>1 DEF Content, AcceptedInd, From
<1>3. accepted \subseteq Edits
  BY DEF TypeInd
<1> QED BY <1>1, <1>2, <1>3

LEMMA WriteVersionInner ==
    ASSUME TypeInd, MapsInd, AcceptedInd, WriteVersion
    PROVE  /\ Frames /\ UNCHANGED <<kept, late>>
           /\ \E r \in running : Inner(r) /\ \E circuit, restore : AsksVersion(r, circuit, restore)
<1>0. Spend([spent EXCEPT !.versions = @ + 1]) /\ UNCHANGED <<deployed, accepted, kept, owed, late>>
  BY DEF WriteVersion
<1> DEFINE shown(r) == IF relay.documents[r] = None THEN Content(Seed) ELSE Content(relay.lives[relay.documents[r]].doc)
<1> PICK r \in running : RequestVersion(r, shown(r), FALSE) \/ RequestVersion(r, {}, TRUE)
  BY DEF WriteVersion
<1>1. r \in Replicas
  BY RelayIs
<1>2. shown(r) \subseteq accepted /\ accepted \subseteq Edits
  BY <1>1, ShownIs
<1> HIDE DEF shown
<1>10. \E circuit, restore : /\ RequestVersion(r, circuit, restore) /\ circuit \subseteq accepted /\ restore \in BOOLEAN
  <2>1. CASE RequestVersion(r, shown(r), FALSE)
    <3> PICK circuit, restore : circuit = shown(r) /\ restore = FALSE
      OBVIOUS
    <3>1. RequestVersion(r, circuit, restore) /\ circuit \subseteq accepted /\ restore \in BOOLEAN
      BY <1>2, <2>1
    <3> QED BY <3>1
  <2>2. CASE RequestVersion(r, {}, TRUE)
    <3> PICK circuit, restore : circuit = {} /\ restore = TRUE
      OBVIOUS
    <3>1. RequestVersion(r, circuit, restore) /\ circuit \subseteq accepted /\ restore \in BOOLEAN
      BY <2>2
    <3> QED BY <3>1
  <2> QED BY <2>1, <2>2
<1> PICK circuit, restore : /\ RequestVersion(r, circuit, restore) /\ circuit \subseteq accepted /\ restore \in BOOLEAN
  BY <1>10
<1>3. circuit \in SUBSET Edits
  BY <1>2
<1>4. AsksVersion(r, circuit, restore)
  BY <1>3, VersionSteps
<1>5. row' = row /\ version' = version
  BY DEF RequestVersion
<1>6. spent' \in [faults : Nat, versions : Nat, incidents : Nat] /\ spent'.versions = spent.versions + 1 /\ spent.versions \in Nat
  BY <1>0, SpendIs
<1>7. spent'.versions # 0
  BY <1>6
<1>8. Frames /\ UNCHANGED <<kept, late>>
  BY <1>0, <1>5, <1>6, <1>7 DEF Frames, Keeping, TypeInd
<1>9. Hushed(r)
  BY <1>4, <1>7 DEF Hushed
<1> QED BY <1>4, <1>8, <1>9 DEF Inner

\* Every fault but a message that is lost.
LEMMA FaultsInner ==
    ASSUME TypeInd, MapsInd, \A q \in Replicas : QueueInd(q), Faults
    PROVE  /\ Keeping /\ accepted' = accepted /\ spent'.versions = spent.versions
           /\ \E r \in running :
                 \/ Inner(r) /\ owed' = owed
                 \/ (\E m, s : Ignores(r, m, s)) /\ owed' = [n \in LiveIds |-> {}]
<1>0. Spend([spent EXCEPT !.faults = @ + 1]) /\ UNCHANGED <<deployed, accepted, late>>
  BY DEF Faults
<1>1. spent' \in [faults : Nat, versions : Nat, incidents : Nat] /\ spent'.versions = spent.versions
  BY <1>0, SpendIs
<1> DEFINE Goal == row' = row /\ version' = version /\ kept' \subseteq kept /\
           \E r \in running :
                 \/ Inner(r) /\ owed' = owed
                 \/ (\E m, s : Ignores(r, m, s)) /\ owed' = [n \in LiveIds |-> {}]
<1>2. SUFFICES Goal
  BY <1>0, <1>1 DEF Keeping, TypeInd
<1> HIDE DEF Goal
<1>3. \A r \in running : r \in Replicas
  BY RelayIs
<1>4. CASE \E p \in Peers : Overgrow(p) /\ kept' = kept \cap version /\ UNCHANGED owed
  <2> PICK p \in Peers : Overgrow(p) /\ kept' = kept \cap version /\ UNCHANGED owed
    BY <1>4
  <2> PICK r, n, t : r = peers[p].replica /\ n = peers[p].live /\ t = Drop(relay, n, FALSE)
    OBVIOUS
  <2>1. Overgrows(p, r, n, t)
    BY OvergrowSteps
  <2>2. r \in running
    BY PlaceOf DEF Overgrow
  <2>3. row' = row /\ version' = version
    BY DEF Overgrow
  <2>4. Inner(r)
    BY <2>1 DEF Inner, Hushed
  <2> QED BY <2>2, <2>3, <2>4 DEF Goal
<1>5. CASE \E r \in running : (WriteFails(r) \/ Crash(r)) /\ Forgiven /\ UNCHANGED owed
  <2> PICK r \in running : (WriteFails(r) \/ Crash(r)) /\ Forgiven /\ UNCHANGED owed
    BY <1>5
  <2>1. row' = row /\ version' = version /\ kept' \subseteq kept
    BY DEF WriteFails, Crash, Gone, Forgiven
  <2>2. CASE WriteFails(r)
    <3> PICK n, t : n = Head(db[r]).live /\ t = OverTo(r)
      OBVIOUS
    <3>1. LooksOn(r) \/ IsOver(r) \/ LetsGo(r, n, t) \/ Finishes(r, n, t)
      BY <1>3, <2>2, WriteFailsSteps
    <3>2. Inner(r)
      BY <3>1 DEF Inner, Hushed
    <3> QED BY <2>1, <3>2 DEF Goal
  <2>3. CASE Crash(r)
    <3>1. Inner(r)
      BY <2>3, CrashSteps DEF Inner, Hushed
    <3> QED BY <2>1, <3>1 DEF Goal
  <2> QED BY <2>2, <2>3
<1>6. CASE \E r \in running : RowDoesNotProject(r) /\ kept' = kept \cap version /\ UNCHANGED owed
  <2> PICK r \in running : RowDoesNotProject(r) /\ kept' = kept \cap version /\ UNCHANGED owed
    BY <1>6
  <2>1. Discards(r)
    BY RowDoesNotProjectSteps
  <2>2. row' = row /\ version' = version
    BY DEF RowDoesNotProject
  <2>3. Inner(r)
    BY <2>1 DEF Inner, Hushed
  <2> QED BY <2>2, <2>3 DEF Goal
<1>7. CASE \E r \in running : LoadFails(r) /\ UNCHANGED <<kept, owed>>
  <2> PICK r \in running : LoadFails(r) /\ UNCHANGED <<kept, owed>>
    BY <1>7
  <2> PICK t : t = StopsTo(r)
    OBVIOUS
  <2>1. Stops(r, t)
    BY LoadFailsSteps
  <2>2. row' = row /\ version' = version
    BY DEF LoadFails
  <2>3. Inner(r)
    BY <2>1 DEF Inner, Hushed
  <2> QED BY <2>2, <2>3 DEF Goal
<1>8. CASE \E n \in DOMAIN relay.lives : SubscribeFails(n) /\ UNCHANGED <<kept, owed>>
  <2> PICK n \in DOMAIN relay.lives : SubscribeFails(n) /\ UNCHANGED <<kept, owed>>
    BY <1>8
  <2> PICK r, t : r = relay.lives[n].replica /\ t = relay'
    OBVIOUS
  <2>1. GoesWithout(n, r, t) /\ r \in running
    BY SubscribeFailsSteps, OwnerRuns
  <2>2. row' = row /\ version' = version
    BY DEF SubscribeFails, storeVars
  <2>3. Inner(r)
    BY <2>1 DEF Inner, Hushed
  <2> QED BY <2>1, <2>2, <2>3 DEF Goal
<1>9. CASE \E r \in running : MessageIsLost(r) /\ owed' = [n \in LiveIds |-> {}] /\ UNCHANGED kept
  <2> PICK r \in running : MessageIsLost(r) /\ owed' = [n \in LiveIds |-> {}] /\ UNCHANGED kept
    BY <1>9
  <2> PICK m, s : m = Head(relay.inbox[r]) /\ s = PoppedTo(r)
    OBVIOUS
  <2>1. Ignores(r, m, s)
    BY LostSteps
  <2>2. row' = row /\ version' = version
    BY DEF MessageIsLost, storeVars
  <2> QED BY <2>1, <2>2 DEF Goal
<1> QED BY <1>4, <1>5, <1>6, <1>7, <1>8, <1>9 DEF Faults

\* An edit that is accepted is owed to those who listen.
LEMMA EditIntegrates ==
    ASSUME TypeInd, MapsInd, Edit
    PROVE  /\ Keeping /\ spent' = spent /\ late' = late
           /\ \E p \in Peers, n \in DOMAIN relay.lives, r \in running, edit \in Edits \ accepted :
                 /\ (\E t : Integrates(p, r, n, edit, t)) /\ OwesEdit(r, edit) /\ relay.lives[n].replica = r
                 /\ accepted' = accepted \cup {edit}
                 /\ kept' = IF relay.closed[r] THEN kept ELSE kept \cup {edit}
<1> PICK p \in Peers, edit \in deployed.edits \ accepted :
        /\ Apply(p, edit)
        /\ accepted' = accepted \cup {edit}
        /\ kept' = IF relay.closed[peers[p].replica] THEN kept ELSE kept \cup {edit}
        /\ owed' = [n \in LiveIds |->
                  IF n \in UNION {Listening(q) : q \in running \ {peers[p].replica}} THEN owed[n] \cup {edit}
                  ELSE owed[n]]
        /\ UNCHANGED <<deployed, late, spent>>
  BY DEF Edit
<1> PICK r, n, t : r = peers[p].replica /\ n = peers[p].live /\ t = Accepted(relay, n, edit)
  OBVIOUS
<1>1. edit \in Edits \ accepted
  BY DeploymentsAssumption DEF TypeInd
<1>2. Integrates(p, r, n, edit, t)
  BY <1>1, ApplySteps
<1>3. peers[p].at = "in"
  BY DEF Apply
<1>4. r \in running /\ n \in DOMAIN relay.lives /\ relay.lives[n].replica = r
  BY <1>3, PlaceOf
<1>5. OwesEdit(r, edit)
  BY DEF OwesEdit
<1>6. row' = row /\ version' = version
  BY DEF Apply
<1>7. Keeping /\ spent' = spent /\ late' = late
  BY <1>6 DEF Keeping, TypeInd
<1> QED BY <1>1, <1>2, <1>4, <1>5, <1>7

LEMMA ExecutesPerforms ==
    ASSUME TypeInd, Executes
    PROVE  Same /\ \E r \in running : Performs(r)
BY ExecuteSteps DEF Executes

------------------------------------------------------------------------------
(* The invariant of any number of processes.                                  *)

Core == TypeInd /\ AcceptedInd /\ MapsInd /\ BusInd /\ (\A r \in Replicas : QueueInd(r)) /\ UntoldInd

LEMMA KeepsRunning ==
    ASSUME deployed' = deployed
    PROVE  running' = running
BY DEF running

\* Where nothing is accepted or owed anew.
LEMMA InnerCore ==
    ASSUME Core, Keeping, accepted' = accepted, owed' = owed, NEW r \in running, Inner(r)
    PROVE  Core' /\ Elsewhere(r)
<1>0. /\ TypeInd /\ AcceptedInd /\ MapsInd /\ BusInd /\ (\A q \in Replicas : QueueInd(q)) /\ UntoldInd
      /\ r \in Replicas /\ running' = running /\ accepted \subseteq accepted'
  BY RelayIs, KeepsRunning DEF Core, Keeping
<1>1. Local(r) /\ QueueInd(r)
  BY <1>0, InnerIsLocal
<1>2. MapsInd' /\ Elsewhere(r)
  BY <1>0, <1>1, LocalMaps
<1>3. QueueInd(r)'
  BY <1>0, <1>1, <1>2, LocalQueue
<1>4. (\A q \in Replicas : QueueInd(q))'
  <2>1. \A q \in Replicas : QueueInd(q)'
    BY <1>0, <1>2, <1>3, QueuesElsewhere
  <2> QED BY <2>1
<1>5. TypeInd'
  BY <1>0, <1>1, LocalTypes DEF TypeInd, Keeping
<1> PICK given : Sends(r, given)
  BY <1>0, InnerSends
<1>6. AcceptedInd'
  BY <1>0, <1>1, InnerAccepted DEF Keeping
<1>7. BusInd'
  BY <1>0, <1>1, <1>2, InnerBus
<1>8. UntoldInd'
  BY <1>0, <1>2, <1>3, InnerUntold DEF Keeping
<1> QED BY <1>2, <1>4, <1>5, <1>6, <1>7, <1>8 DEF Core

LEMMA IgnoresCore ==
    ASSUME Core, Keeping, accepted' = accepted, spent'.versions = spent.versions, NEW r \in running, NEW m, NEW s, Ignores(r, m, s),
           \/ m.kind = "sync-request" /\ owed' = owed
           \/ owed' = [n \in LiveIds |-> {}]
    PROVE  Core' /\ Elsewhere(r)
<1>0. /\ TypeInd /\ AcceptedInd /\ MapsInd /\ BusInd /\ (\A q \in Replicas : QueueInd(q)) /\ UntoldInd
      /\ r \in Replicas /\ running' = running /\ accepted \subseteq accepted'
  BY RelayIs, KeepsRunning DEF Core, Keeping
<1>1. Local(r) /\ QueueInd(r)
  BY <1>0, InnerIsLocal
<1>2. MapsInd' /\ Elsewhere(r)
  BY <1>0, <1>1, LocalMaps
<1>3. QueueInd(r)'
  BY <1>0, <1>1, <1>2, LocalQueue
<1>4. (\A q \in Replicas : QueueInd(q))'
  <2>1. \A q \in Replicas : QueueInd(q)'
    BY <1>0, <1>2, <1>3, QueuesElsewhere
  <2> QED BY <2>1
<1>5. TypeInd'
  <2>1. owed' \in [LiveIds -> SUBSET Edits]
    BY <1>0 DEF TypeInd
  <2> QED BY <1>0, <1>1, <2>1, LocalTypes DEF TypeInd, Keeping
<1>6. AcceptedInd'
  BY <1>0, IgnoresAccepted DEF Keeping
<1>7. BusInd'
  <2>1. \/ m.kind = "sync-request" /\ owed' = owed
        \/ \A n \in LiveIds : owed'[n] = {}
    OBVIOUS
  <2> QED BY <1>0, <1>2, <2>1, IgnoresBus
<1>9. Sends(r, {})
  <2>1. Runs(r, 0, <<>>, s) /\ Pops(r, m, s)
    BY DEF Ignores
  <2> PICK c, asked : c = 0 /\ asked = <<>>
    OBVIOUS
  <2>2. s.inbox = relay.inbox \/ \E mm, ss : Pops(r, mm, ss) /\ s.inbox = ss.inbox
    BY <2>1
  <2>3. Runs(r, c, asked, s)
    BY <2>1
  <2> QED BY <1>0, <2>2, <2>3, RunsSilent
<1>8. UntoldInd'
  <2> PICK given : given = {}
    OBVIOUS
  <2>1. Sends(r, given)
    BY <1>9
  <2>2. (\E p, n, edit, t : Integrates(p, r, n, edit, t)) \/ (\E mm, ss : Ignores(r, mm, ss))
    OBVIOUS
  <2> QED BY <1>0, <1>2, <1>3, <2>1, <2>2, OtherUntold
<1> QED BY <1>2, <1>4, <1>5, <1>6, <1>7, <1>8 DEF Core

LEMMA IntegratesCore ==
    ASSUME Core, Keeping, spent' = spent, NEW p \in Peers, NEW n \in DOMAIN relay.lives, NEW r \in running,
           NEW edit \in Edits, NEW t, Integrates(p, r, n, edit, t), OwesEdit(r, edit), relay.lives[n].replica = r,
           accepted' = accepted \cup {edit}
    PROVE  Core' /\ Elsewhere(r)
<1>0. /\ TypeInd /\ AcceptedInd /\ MapsInd /\ BusInd /\ (\A q \in Replicas : QueueInd(q)) /\ UntoldInd
      /\ r \in Replicas /\ running' = running /\ accepted \subseteq accepted' /\ edit \in accepted'
  BY RelayIs, KeepsRunning DEF Core, Keeping
<1>1. Local(r) /\ QueueInd(r)
  BY <1>0, InnerIsLocal
<1>2. MapsInd' /\ Elsewhere(r)
  BY <1>0, <1>1, LocalMaps
<1>3. QueueInd(r)'
  BY <1>0, <1>1, <1>2, LocalQueue
<1>4. (\A q \in Replicas : QueueInd(q))'
  <2>1. \A q \in Replicas : QueueInd(q)'
    BY <1>0, <1>2, <1>3, QueuesElsewhere
  <2> QED BY <2>1
<1>5. TypeInd'
  <2>1. owed' \in [LiveIds -> SUBSET Edits]
    BY <1>0 DEF TypeInd, OwesEdit
  <2>2. accepted' \in SUBSET Edits
    BY <1>0 DEF TypeInd
  <2> QED BY <1>0, <1>1, <2>1, <2>2, LocalTypes DEF TypeInd, Keeping
<1>9. Sends(r, {Update(DocumentOf({edit}))})
  BY <1>0, IntegratesSends
<1> PICK given : given = {Update(DocumentOf({edit}))}
  OBVIOUS
<1>10. Sends(r, given)
  BY <1>9
<1>6. AcceptedInd'
  BY <1>0, <1>10, IntegratesAccepted DEF Keeping
<1>7. BusInd'
  BY <1>0, <1>2, <1>9, IntegratesBus
<1>8. UntoldInd'
  <2>1. (\E pp, nn, ee, tt : Integrates(pp, r, nn, ee, tt)) \/ (\E mm, ss : Ignores(r, mm, ss))
    OBVIOUS
  <2> QED BY <1>0, <1>2, <1>3, <1>10, <2>1, OtherUntold
<1> QED BY <1>2, <1>4, <1>5, <1>6, <1>7, <1>8 DEF Core

LEMMA PerformsCore ==
    ASSUME Core, Same, NEW r \in running, Performs(r)
    PROVE  Core'
<1>0. /\ TypeInd /\ AcceptedInd /\ MapsInd /\ BusInd /\ (\A q \in Replicas : QueueInd(q)) /\ UntoldInd
      /\ r \in Replicas /\ running' = running /\ accepted' = accepted /\ owed' = owed /\ spent' = spent
  BY RelayIs, KeepsRunning DEF Core, Same, ghosts
<1>1. MapsInd'
  BY <1>0, PerformsMaps
<1>2. BusInd'
  BY <1>0, PerformsBus
<1>3. (\A q \in Replicas : QueueInd(q))'
  <2>1. \A q \in Replicas : QueueInd(q)'
    BY <1>0, PerformsQueue
  <2> QED BY <2>1
<1>4. UntoldInd'
  BY <1>0, PerformsUntold
<1>5. AcceptedInd'
  BY <1>0, PerformsAccepted
<1>6. TypeInd'
  BY <1>0, PerformedIs DEF TypeInd, Same, ghosts
<1> QED BY <1>1, <1>2, <1>3, <1>4, <1>5, <1>6 DEF Core

LEMMA StayCore ==
    ASSUME Core, UNCHANGED vars
    PROVE  Core'
<1>1. /\ row' = row /\ version' = version /\ db' = db /\ relay' = relay /\ peers' = peers
      /\ deployed' = deployed /\ accepted' = accepted /\ kept' = kept /\ owed' = owed /\ late' = late /\ spent' = spent
  BY DEF vars, storeVars, registryVars, ghosts
<1>2. TypeInd' <=> TypeInd
  BY <1>1 DEF TypeInd
<1>3. AcceptedInd' <=> AcceptedInd
  BY <1>1 DEF AcceptedInd, From, StatementFrom
<1>4. MapsInd' <=> MapsInd
  BY <1>1 DEF MapsInd, LiveInd, PlaceInd, MapInd, RoomInd, Seeders, Of, running
<1>5. BusInd' <=> BusInd
  BY <1>1 DEF BusInd, ChannelInd, Of, Subscribed, Brought, running
<1>6. (\A r \in Replicas : QueueInd(r))' <=> (\A r \in Replicas : QueueInd(r))
  BY <1>1 DEF QueueInd, Of
<1>7. UntoldInd' <=> UntoldInd
  BY <1>1 DEF UntoldInd, Untold, TogetherInd, Of, running
<1> QED BY <1>2, <1>3, <1>4, <1>5, <1>6, <1>7 DEF Core

LEMMA CoreStep ==
    ASSUME Core, [Next]_vars
    PROVE  Core'
<1>0. TypeInd /\ AcceptedInd /\ MapsInd /\ (\A q \in Replicas : QueueInd(q))
  BY DEF Core
<1>1. ASSUME Joins \/ Leaves \/ Timer \/ Bus \/ Builds \/ Replies \/ WriteVersion \/ Shutdown \/ Ends
      PROVE  Core'
  <2>1. Frames /\ \E r \in running : Inner(r)
    BY <1>0, <1>1, JoinsInner, LeavesInner, TimerInner, BusInner, BuildsInner, RepliesInner, WriteVersionInner,
       ShutdownInner, EndsInner
  <2> QED BY <2>1, InnerCore DEF Frames
<1>2. CASE Receives
  <2>1. Frames /\ \E r \in running : Inner(r) \/ \E m, s : Ignores(r, m, s) /\ m.kind = "sync-request"
    BY <1>0, <1>2, ReceivesInner
  <2>2. spent'.versions = spent.versions
    BY <1>2 DEF Receives, Same, ghosts
  <2> PICK r \in running : Inner(r) \/ \E m, s : Ignores(r, m, s) /\ m.kind = "sync-request"
    BY <2>1
  <2>3. CASE Inner(r)
    BY <2>1, <2>3, InnerCore DEF Frames
  <2>4. CASE \E m, s : Ignores(r, m, s) /\ m.kind = "sync-request"
    BY <2>1, <2>2, <2>4, IgnoresCore DEF Frames
  <2> QED BY <2>3, <2>4
<1>3. CASE Faults
  <2>1. Keeping /\ accepted' = accepted /\ spent'.versions = spent.versions
    BY <1>0, <1>3, FaultsInner
  <2> PICK r \in running :
                 \/ Inner(r) /\ owed' = owed
                 \/ (\E m, s : Ignores(r, m, s)) /\ owed' = [n \in LiveIds |-> {}]
    BY <1>0, <1>3, FaultsInner
  <2>2. CASE Inner(r) /\ owed' = owed
    BY <2>1, <2>2, InnerCore
  <2>3. CASE (\E m, s : Ignores(r, m, s)) /\ owed' = [n \in LiveIds |-> {}]
    BY <2>1, <2>3, IgnoresCore
  <2> QED BY <2>2, <2>3
<1>4. CASE Edit
  <2>1. Keeping /\ spent' = spent
    BY <1>0, <1>4, EditIntegrates
  <2> PICK p \in Peers, n \in DOMAIN relay.lives, r \in running, edit \in Edits \ accepted :
                 /\ (\E t : Integrates(p, r, n, edit, t)) /\ OwesEdit(r, edit) /\ relay.lives[n].replica = r
                 /\ accepted' = accepted \cup {edit}
    BY <1>0, <1>4, EditIntegrates
  <2> QED BY <2>1, IntegratesCore
<1>5. CASE Executes
  BY <1>0, <1>5, ExecutesPerforms, PerformsCore
<1>6. CASE UNCHANGED vars
  BY <1>6, StayCore
<1> QED BY <1>1, <1>2, <1>3, <1>4, <1>5, <1>6 DEF Next

LEMMA CoreInit ==
    ASSUME Init
    PROVE  Core
<1>0. /\ row = NoRow /\ version = {} /\ db = [r \in Replicas |-> <<>>]
      /\ relay = [lives |-> <<>>,
                documents |-> [r \in Replicas |-> None],
                building |-> [r \in Replicas |-> None],
                closed |-> [r \in Replicas |-> FALSE],
                channel |-> [r \in Replicas |-> "closed"],
                inbox |-> [r \in Replicas |-> <<>>],
                db |-> [r \in Replicas |-> <<>>],
                out |-> {}]
      /\ peers = [p \in Peers |-> [at |-> "nowhere", replica |-> CHOOSE r \in Replicas : TRUE, live |-> None]]
      /\ deployed \in Deployments /\ accepted = {} /\ kept = {} /\ late = FALSE
      /\ owed = [n \in LiveIds |-> {}] /\ spent = [faults |-> 0, versions |-> 0, incidents |-> 0]
  BY DEF Init, StoreInit, RegistryInit
<1>1. None \in Nat /\ None # Seeding /\ MaxBuilds \in Nat
  BY DeploymentsAssumption DEF None, Seeding
<1>2. relay.lives = <<>> /\ DOMAIN relay.lives = {} /\ Len(relay.lives) = 0
  BY <1>0
<1>3. TypeInd
  <2>1. (CHOOSE r \in Replicas : TRUE) \in Replicas
    BY DeploymentsAssumption
  <2>2. relay \in Relays /\ relay.out = {} /\ relay.db = [r \in Replicas |-> <<>>]
    BY <1>0, <1>1 DEF Relays
  <2>3. peers \in [Peers -> Places]
    BY <1>0, <1>1, <2>1 DEF Places
  <2>4. db \in Queues
    BY <1>0 DEF Queues
  <2>5. owed \in [LiveIds -> SUBSET Edits]
    BY <1>0
  <2>6. spent \in [faults : Nat, versions : Nat, incidents : Nat]
    BY <1>0
  <2> QED BY <1>0, <2>2, <2>3, <2>4, <2>5, <2>6 DEF TypeInd
<1>4. AcceptedInd
  BY <1>0, <1>2 DEF AcceptedInd
<1>5. \A r \in Replicas : /\ relay.documents[r] = None /\ relay.building[r] = None /\ relay.closed[r] = FALSE
                          /\ relay.channel[r] = "closed" /\ relay.inbox[r] = <<>> /\ db[r] = <<>> /\ Of(r) = {}
  BY <1>0 DEF Of
<1>6. MapsInd
  <2>1. Seeders = {}
    BY <1>1, <1>5 DEF Seeders
  <2>2. RoomInd
    BY <1>1, <1>2, <2>1, FS_EmptySet DEF RoomInd
  <2>3. \A p \in Peers : PlaceInd(p)
    BY <1>0 DEF PlaceInd
  <2>4. \A r \in Replicas : MapInd(r)
    BY <1>1, <1>5 DEF MapInd
  <2> QED BY <1>2, <2>2, <2>3, <2>4 DEF MapsInd
<1>7. BusInd
  BY <1>0, <1>5 DEF BusInd, ChannelInd
<1>8. \A r \in Replicas : QueueInd(r)
  BY <1>1, <1>5 DEF QueueInd
<1>9. UntoldInd
  BY <1>1, <1>5 DEF UntoldInd, TogetherInd
<1> QED BY <1>3, <1>4, <1>6, <1>7, <1>8, <1>9 DEF Core

\* Nothing is held that was not accepted, the maps and the documents and the
\* sockets agree, what is subscribed has what it is owed, and the statements of
\* a process are in order, whatever the peers, the timers, the bus, the
\* shutdowns and the failures do.
THEOREM CoreHolds == Spec => []Core
<1>1. Init => Core
  BY CoreInit
<1>2. Core /\ [Next]_vars => Core'
  BY CoreStep
<1> QED BY <1>1, <1>2, PTL DEF Spec

LEMMA CoreDocuments ==
    ASSUME Core
    PROVE  DocumentInvariant
<1>0. TypeInd /\ AcceptedInd /\ MapsInd /\ UntoldInd
  BY DEF Core
<1>1. TypeOK
  <2>1. \A r \in Replicas : relay.documents[r] \in {None} \cup DOMAIN relay.lives
    BY <1>0 DEF MapsInd, MapInd, Of
  <2>2. \A r \in Replicas : relay.building[r] \in {None, Seeding} \cup DOMAIN relay.lives
    BY <1>0 DEF MapsInd, MapInd, Of
  <2>3. ASSUME NEW n \in DOMAIN relay.lives
        PROVE  /\ relay.lives[n].bus \in {"opening", "open", "none"}
               /\ relay.lives[n].timer => relay.lives[n].pending
               /\ Content(relay.lives[n].doc) \subseteq accepted
    <3>1. relay.lives[n] \in Lives
      BY <1>0, RelayIs, RelayFields
    <3>2. relay.lives[n].bus \in {"opening", "open", "none"}
      BY <3>1, LiveFields
    <3>3. relay.lives[n].timer => relay.lives[n].pending
      BY <1>0 DEF MapsInd, LiveInd
    <3>4. Content(relay.lives[n].doc) \subseteq accepted
      BY <1>0 DEF AcceptedInd, From, Content
    <3> QED BY <3>2, <3>3, <3>4
  <2>4. kept \subseteq accepted
    BY <1>0 DEF TypeInd
  <2>5. row # NoRow => Content(row) \subseteq accepted
    BY <1>0 DEF AcceptedInd, From, Content
  <2> QED BY <2>1, <2>2, <2>3, <2>4, <2>5 DEF TypeOK
<1>2. NobodyIsLeftBehind
  <2> SUFFICES ASSUME Untold, NEW p \in Peers, peers[p].at = "in", ~relay.closed[peers[p].replica]
               PROVE  /\ relay.documents[peers[p].replica] = peers[p].live
                      /\ p \in relay.lives[peers[p].live].peers
    BY DEF NobodyIsLeftBehind, Untold
  <2> PICK r, n : r = peers[p].replica /\ n = peers[p].live
    OBVIOUS
  <2>1. r \in Replicas /\ n \in Of(r) /\ p \in relay.lives[n].peers
    BY <1>0, PlaceOf
  <2>2. TogetherInd(r)
    BY <1>0, <2>1 DEF UntoldInd
  <2>3. relay.documents[r] = n
    BY <1>0, <2>1, <2>2, TogetherHere
  <2> QED BY <2>1, <2>3
<1> QED BY <1>1, <1>2 DEF DocumentInvariant

LEMMA CoreSubscribers ==
    ASSUME Core
    PROVE  SubscribersHaveEverything
<1> SUFFICES ASSUME NEW r \in running, relay.inbox[r] = <<>>, NEW n \in Listening(r)
             PROVE  owed[n] \subseteq relay.lives[n].doc.has
  BY DEF SubscribersHaveEverything
<1>0. TypeInd /\ BusInd
  BY DEF Core
<1>1. r \in Replicas
  BY <1>0, RelayIs
<1>2. ChannelInd(r)
  BY <1>0, <1>1 DEF BusInd
<1>3. relay.channel[r] = "open" /\ n \in Of(r) /\ Subscribed(n)
  BY DEF Listening, Listeners, Of, Subscribed
<1>4. owed[n] \subseteq relay.lives[n].doc.has \cup Brought(r)
  BY <1>2, <1>3 DEF ChannelInd
<1>5. Brought(r) = {}
  BY DEF Brought
<1> QED BY <1>4, <1>5

\* A socket in a session is attached to the document its process hands out,
\* and no timer runs for a document that has nothing to save: getOrCreate,
\* attach, detach, flush, drop and close of documents.ts, whatever overlapped.
THEOREM DocumentsHold == Spec => []DocumentInvariant
<1>1. Core => DocumentInvariant
  BY CoreDocuments
<1> QED BY <1>1, CoreHolds, PTL

\* What was published while a document was subscribed is in it once its process
\* has read its inbox: receiveRemote and the exchange that a build starts.
THEOREM SubscribersHold == Spec => []SubscribersHaveEverything
<1>1. Core => SubscribersHaveEverything
  BY CoreSubscribers
<1> QED BY <1>1, CoreHolds, PTL

------------------------------------------------------------------------------
(* One process: queues, and what they leave to the next session.              *)

LEMMA VersionedShift ==
    ASSUME NEW q \in Seq(Statements), NEW c \in {0, 1}, NEW asked \in Seq(Statements), Len(asked) \in {0, 1},
           c = 1 => Len(q) > 0, NEW z, TurnedTo(q, c, asked, z), NEW v, NEW e, c = 1 => ~Appends(q[1]),
           NEW i \in Nat, i <= (Len(q) - c) + 1, Versioned(v, q, i + c, e)
    PROVE  Versioned(v, z, i, e)
<1>1. CASE e \in v
  BY <1>1 DEF Versioned
<1>2. CASE \E j \in DOMAIN q : j < i + c /\ Appends(q[j])
  <2> PICK j \in DOMAIN q : j < i + c /\ Appends(q[j])
    BY <1>2
  <2>0. Len(q) \in Nat /\ DOMAIN q = 1 .. Len(q)
    OBVIOUS
  <2>1. j \in 1 .. Len(q) /\ ~(c = 1 /\ j = 1)
    BY <2>0
  <2> PICK k : k = j - c
    OBVIOUS
  <2>2. k \in 1 .. Len(q) - c /\ k + c = j /\ k < i
    BY <2>0, <2>1
  <2>3. k \in DOMAIN z /\ z[k] = q[k + c]
    BY <2>2 DEF TurnedTo
  <2> QED BY <2>2, <2>3 DEF Versioned
<1> QED BY <1>1, <1>2 DEF Versioned

\* What was sure before the i-th statement is sure before it in the new queue.
LEMMA LastingShift ==
    ASSUME NEW q \in Seq(Statements), NEW c \in {0, 1}, NEW asked \in Seq(Statements), Len(asked) \in {0, 1},
           c = 1 => Len(q) > 0, NEW z, TurnedTo(q, c, asked, z), NEW w, NEW v, NEW e,
           c = 1 => ~Appends(q[1]) /\ (Writes(q[1]) => e \in Content(SeedOf(w, v))),
           NEW i \in Nat, i <= (Len(q) - c) + 1, Lasting(w, v, q, i + c, e)
    PROVE  Lasting(w, v, z, i, e)
<1>0. Len(q) \in Nat /\ DOMAIN q = 1 .. Len(q) /\ DOMAIN z = 1 .. Len(z) /\ Len(z) \in Nat
  BY DEF TurnedTo
<1>1. \A j \in 1 .. Len(q) - c : j \in DOMAIN z /\ j + c \in DOMAIN q /\ z[j] = q[j + c]
  BY DEF TurnedTo
<1>2. ASSUME NEW j \in DOMAIN z, j < i
      PROVE  j \in 1 .. Len(q) - c /\ j \in Nat /\ j + c \in DOMAIN q /\ z[j] = q[j + c] /\ j + c < i + c
  <2>1. j \in 1 .. Len(q) - c /\ j \in Nat /\ j + c < i + c
    BY <1>0, <1>2
  <2> QED BY <1>1, <2>1
<1>3. ASSUME NEW k \in DOMAIN q, k < i + c, ~(c = 1 /\ k = 1)
      PROVE  k - c \in DOMAIN z /\ z[k - c] = q[k] /\ k - c < i /\ k \in Nat /\ k - c \in Nat
  <2>1. k - c \in 1 .. Len(q) - c /\ (k - c) + c = k /\ k - c < i /\ k \in Nat /\ k - c \in Nat
    BY <1>0, <1>3
  <2> QED BY <1>1, <2>1
<1>4. ASSUME \A j \in DOMAIN z : j < i => ~Writes(z[j])
      PROVE  e \in Content(SeedOf(w, v))
  <2>1. CASE c = 1 /\ Writes(q[1])
    BY <2>1
  <2>2. CASE ~(c = 1 /\ Writes(q[1]))
    <3>1. ASSUME NEW k \in DOMAIN q, k < i + c
          PROVE  ~Writes(q[k])
      <4>1. CASE c = 1 /\ k = 1
        BY <2>2, <4>1
      <4>2. CASE ~(c = 1 /\ k = 1)
        BY <1>3, <1>4, <3>1, <4>2
      <4> QED BY <4>1, <4>2
    <3> QED BY <3>1 DEF Lasting
  <2> QED BY <2>1, <2>2
<1>5. ASSUME NEW j \in DOMAIN z, j < i, Writes(z[j]), \A k \in DOMAIN z : j < k /\ k < i => ~Writes(z[k])
      PROVE  Bequeaths(v, z, j, e)
  <2> PICK m : m = j + c
    OBVIOUS
  <2>1. m \in DOMAIN q /\ z[j] = q[m] /\ m < i + c /\ j \in Nat /\ j \in 1 .. Len(q) - c
    BY <1>2, <1>5
  <2>2. ASSUME NEW k \in DOMAIN q, m < k, k < i + c
        PROVE  ~Writes(q[k])
    <3>1. k \in Nat /\ m \in Nat /\ ~(c = 1 /\ k = 1)
      BY <1>0, <2>1, <2>2
    <3>2. k - c \in DOMAIN z /\ z[k - c] = q[k] /\ k - c < i /\ k - c \in Nat
      BY <1>3, <2>2, <3>1
    <3>3. j < k - c
      BY <2>1, <2>2, <3>1, <3>2
    <3> QED BY <1>5, <3>2, <3>3
  <2>3. Bequeaths(v, q, m, e)
    BY <1>5, <2>1, <2>2 DEF Lasting
  <2>4. ASSUME Versioned(v, q, m, e)
        PROVE  Versioned(v, z, j, e)
    <3>1. j <= (Len(q) - c) + 1 /\ Versioned(v, q, j + c, e)
      BY <1>0, <2>1, <2>4
    <3> QED BY <2>1, <3>1, VersionedShift
  <2> QED BY <2>1, <2>3, <2>4 DEF Bequeaths
<1> QED BY <1>4, <1>5 DEF Lasting

\* A statement that writes nothing, or what an edit survives, may follow.
LEMMA LastingOn ==
    ASSUME NEW z \in Seq(Statements), Len(z) # 0, NEW w, NEW v, NEW e, Lasting(w, v, z, Len(z), e),
           Writes(z[Len(z)]) => Bequeaths(v, z, Len(z), e)
    PROVE  Lasting(w, v, z, Len(z) + 1, e)
<1>0. Len(z) \in Nat /\ DOMAIN z = 1 .. Len(z) /\ Len(z) \in DOMAIN z
  OBVIOUS
<1>1. ASSUME \A j \in DOMAIN z : j < Len(z) + 1 => ~Writes(z[j])
      PROVE  e \in Content(SeedOf(w, v))
  <2>1. \A j \in DOMAIN z : j < Len(z) => ~Writes(z[j])
    BY <1>0, <1>1
  <2> QED BY <2>1 DEF Lasting
<1>2. ASSUME NEW j \in DOMAIN z, Writes(z[j]), \A k \in DOMAIN z : j < k /\ k < Len(z) + 1 => ~Writes(z[k])
      PROVE  Bequeaths(v, z, j, e)
  <2>1. CASE j = Len(z)
    BY <1>2, <2>1
  <2>2. CASE j # Len(z)
    <3>1. j < Len(z) /\ \A k \in DOMAIN z : j < k /\ k < Len(z) => ~Writes(z[k])
      BY <1>0, <1>2, <2>2
    <3> QED BY <1>2, <3>1 DEF Lasting
  <2> QED BY <2>1, <2>2
<1> QED BY <1>1, <1>2 DEF Lasting

\* Behind a statement that writes and leaves an edit, the edit is sure.
LEMMA LastingBehind ==
    ASSUME NEW z \in Seq(Statements), Len(z) # 0, NEW w, NEW v, NEW e,
           Writes(z[Len(z)]), Bequeaths(v, z, Len(z), e)
    PROVE  Lasting(w, v, z, Len(z) + 1, e)
<1>0. Len(z) \in Nat /\ DOMAIN z = 1 .. Len(z) /\ Len(z) \in DOMAIN z /\ Len(z) < Len(z) + 1
  OBVIOUS
<1>1. ASSUME NEW j \in DOMAIN z, Writes(z[j]), \A k \in DOMAIN z : j < k /\ k < Len(z) + 1 => ~Writes(z[k])
      PROVE  Bequeaths(v, z, j, e)
  <2>1. ~(j < Len(z))
    BY <1>0, <1>1
  <2>2. j = Len(z)
    BY <1>0, <2>1
  <2> QED BY <2>2
<1>2. ~ \A j \in DOMAIN z : j < Len(z) + 1 => ~Writes(z[j])
  BY <1>0
<1> QED BY <1>1, <1>2 DEF Lasting

LEMMA LastingFirst ==
    ASSUME NEW w, NEW v, NEW q \in Seq(Statements), NEW e
    PROVE  Lasting(w, v, q, 1, e) <=> e \in Content(SeedOf(w, v))
<1>1. \A j \in DOMAIN q : ~(j < 1)
  OBVIOUS
<1> QED BY <1>1 DEF Lasting

LEMMA VersionedFirst ==
    ASSUME NEW v, NEW q \in Seq(Statements), NEW e
    PROVE  Versioned(v, q, 1, e) <=> e \in v
<1>1. \A j \in DOMAIN q : ~(j < 1)
  OBVIOUS
<1> QED BY <1>1 DEF Versioned

------------------------------------------------------------------------------
(* What a step of the process leaves of an edit.                              *)

LEMMA SafeBack ==
    ASSUME TypeInd, NEW r, NEW c, NEW asked, NEW t, Runs(r, c, asked, t), NEW e,
           c = 1 /\ db[r][1].kind = "append" => e \in db[r][1].circuit, Safe(db'[r], e)
    PROVE  Safe(db[r], e)
<1> DEFINE q == db[r]
           z == db'[r]
<1>0. /\ DOMAIN q = 1 .. Len(q) /\ Len(q) \in Nat /\ c \in {0, 1}
      /\ \A i \in 1 .. Len(q) - c : i \in DOMAIN z /\ i + c \in DOMAIN q /\ z[i] = q[i + c]
  BY TurnedIs
<1>1. (c = 1 /\ q[1].kind = "append" => e \in q[1].circuit) /\ Safe(z, e)
  OBVIOUS
<1> HIDE DEF q, z
<1>2. ASSUME NEW i \in DOMAIN q, q[i].kind = "append"
      PROVE  e \in q[i].circuit
  <2>1. CASE c = 1 /\ i = 1
    BY <1>1, <1>2, <2>1
  <2>2. CASE ~(c = 1 /\ i = 1)
    <3>1. i - c \in 1 .. Len(q) - c /\ (i - c) + c = i
      BY <1>0, <2>2
    <3>2. i - c \in DOMAIN z /\ z[i - c] = q[i]
      BY <1>0, <3>1
    <3> QED BY <1>1, <1>2, <3>2 DEF Safe
  <2> QED BY <2>1, <2>2
<1> QED BY <1>2 DEF Safe, q

\* The statement that is over wrote nothing, or what is stored has the edit.
Passes(r, c, e) == c = 1 => ~Appends(db[r][1]) /\ (Writes(db[r][1]) => e \in Content(SeedOf(row, version)))
Shows(r, e) == \A n \in Of(r) : MaySave(r, n) => e \in Content(relay.lives[n].doc)
\* What is asked keeps the edit.
Bears(r, asked, e) ==
    Len(asked) = 1 =>
        /\ asked[1].kind = "save" => e \in Content(asked[1].doc)
        /\ asked[1].kind \in {"drop", "latest"} => e \in version
        /\ Lookup(asked[1]) => ~Armed(r)
Rearms(r, asked) == Armed(r) => Armed(r)' \/ (Len(asked) = 1 /\ Writes(asked[1]))

LEMMA HasMade ==
    ASSUME TypeInd, NEW r, NEW c, NEW asked, NEW t, Runs(r, c, asked, t), row' = row, version' = version,
           NEW e, Has(r, e), Passes(r, c, e), Shows(r, e)', Bears(r, asked, e), Rearms(r, asked)
    PROVE  Has(r, e)'
<1> DEFINE q == db[r]
           z == db'[r]
           last == (Len(q) - c) + 1
<1>0. /\ q \in Seq(Statements) /\ z \in Seq(Statements) /\ c \in {0, 1} /\ (c = 1 => Len(q) > 0)
      /\ DOMAIN q = 1 .. Len(q) /\ Len(q) \in Nat /\ DOMAIN z = 1 .. Len(z) /\ Len(z) \in Nat
      /\ Len(asked) \in {0, 1} /\ Len(z) = (Len(q) - c) + Len(asked)
      /\ \A i \in 1 .. Len(q) - c : i \in DOMAIN z /\ i + c \in DOMAIN q /\ z[i] = q[i + c]
      /\ \A i \in DOMAIN z : i \in 1 .. Len(q) - c \/ (i = Len(z) /\ Len(asked) = 1 /\ z[i] = asked[1])
      /\ Len(asked) = 1 => Len(z) \in DOMAIN z /\ z[Len(z)] = asked[1]
  BY TurnedIs
<1>1. TurnedTo(q, c, asked, z) /\ asked \in Seq(Statements)
  BY RunsQueue DEF Runs
<1>2. /\ \A i \in DOMAIN q : Lookup(q[i]) =>
              Lasting(row, version, q, i, e) /\ (q[i].kind # "load" => Versioned(version, q, i, e))
      /\ Lasting(row, version, q, Len(q) + 1, e) \/ Armed(r)
  BY DEF Has
<1>3. c = 1 => ~Appends(q[1]) /\ (Writes(q[1]) => e \in Content(SeedOf(row, version)))
  BY DEF Passes
<1> HIDE DEF q, z
<1>4. last \in Nat /\ last <= (Len(q) - c) + 1 /\ last + c = Len(q) + 1
  BY <1>0
<1>5. Lasting(row, version, q, Len(q) + 1, e) => Lasting(row, version, z, last, e)
  <2>1. Lasting(row, version, q, Len(q) + 1, e) => Lasting(row, version, q, last + c, e)
    BY <1>4
  <2> HIDE DEF last
  <2> QED BY <1>0, <1>1, <1>3, <1>4, <2>1, LastingShift
<1>6. Lasting(row, version, z, Len(z) + 1, e) \/ Armed(r)'
  <2>1. CASE Len(asked) = 1 /\ Writes(asked[1])
    <3>1. Len(z) # 0 /\ Len(z) \in DOMAIN z /\ z[Len(z)] = asked[1]
      BY <1>0, <2>1
    <3>2. Bequeaths(version, z, Len(z), e)
      BY <2>1, <3>1 DEF Bequeaths, Bears, Versioned
    <3> QED BY <1>0, <2>1, <3>1, <3>2, LastingBehind
  <2>2. CASE ~(Len(asked) = 1 /\ Writes(asked[1])) /\ ~Armed(r)'
    <3>1. ~Armed(r)
      BY <2>2 DEF Rearms
    <3>2. Lasting(row, version, z, last, e)
      BY <1>2, <1>5, <3>1
    <3>3. CASE Len(asked) = 0
      BY <1>0, <3>2, <3>3
    <3>4. CASE Len(asked) = 1
      <4>1. Len(z) # 0 /\ z[Len(z)] = asked[1] /\ last = Len(z)
        BY <1>0, <3>4
      <4>2. Lasting(row, version, z, Len(z), e) /\ ~Writes(z[Len(z)])
        BY <2>2, <3>2, <3>4, <4>1
      <4> QED BY <1>0, <4>1, <4>2, LastingOn
    <3> QED BY <1>0, <3>3, <3>4
  <2> QED BY <2>1, <2>2
<1>7. ASSUME NEW i \in DOMAIN z, Lookup(z[i])
      PROVE  Lasting(row, version, z, i, e) /\ (z[i].kind # "load" => Versioned(version, z, i, e))
  <2>1. CASE i \in 1 .. Len(q) - c
    <3> PICK m : m = i + c
      OBVIOUS
    <3>1. i \in Nat /\ i <= (Len(q) - c) + 1 /\ m \in DOMAIN q /\ z[i] = q[m]
      BY <1>0, <2>1
    <3>2. Lasting(row, version, q, i + c, e) /\ (z[i].kind # "load" => Versioned(version, q, i + c, e))
      BY <1>2, <1>7, <3>1
    <3>3. Lasting(row, version, z, i, e)
      BY <1>0, <1>1, <1>3, <3>1, <3>2, LastingShift
    <3>4. z[i].kind # "load" => Versioned(version, z, i, e)
      BY <1>0, <1>1, <1>3, <3>1, <3>2, VersionedShift
    <3> QED BY <3>3, <3>4
  <2>2. CASE i = Len(z) /\ Len(asked) = 1 /\ z[i] = asked[1]
    <3>1. last = i
      BY <1>0, <2>2
    <3>2. ~Armed(r) /\ (z[i].kind \in {"drop", "latest"} => e \in version)
      BY <1>7, <2>2 DEF Bears
    <3>3. Lasting(row, version, z, i, e)
      BY <1>2, <1>5, <3>1, <3>2
    <3>4. z[i].kind # "load" => z[i].kind \in {"drop", "latest"}
      BY <1>7 DEF Lookup
    <3> QED BY <3>2, <3>3, <3>4 DEF Versioned
  <2> QED BY <1>0, <2>1, <2>2
<1> QED BY <1>6, <1>7 DEF Has, Shows, z

\* No document holds less, and none more may be saved.
Narrows(r) ==
    /\ Of(r)' = Of(r)
    /\ \A n \in Of(r) : (MaySave(r, n)' => MaySave(r, n)) /\ relay'.lives[n].doc = relay.lives[n].doc

LEMMA NarrowsShows ==
    ASSUME NEW r, NEW e, Has(r, e), Narrows(r)
    PROVE  Shows(r, e)'
<1>1. \A n \in Of(r) : MaySave(r, n) => e \in Content(relay.lives[n].doc)
  BY DEF Has
<1> QED BY <1>1 DEF Narrows, Shows

\* Which edits are answered for after a step.
Chosen(r, c) ==
    \A e \in kept' : e \in kept /\ Passes(r, c, e) /\ (c = 1 /\ db[r][1].kind = "append" => e \in db[r][1].circuit)

LEMMA KeptMade ==
    ASSUME TypeInd, NEW r, NEW c, NEW asked, NEW t, Runs(r, c, asked, t), row' = row, version' = version,
           KeptInd(r), Chosen(r, c), Rearms(r, asked),
           \A e \in kept' : Has(r, e) => Shows(r, e)' /\ Bears(r, asked, e)
    PROVE  KeptInd(r)'
<1>1. ASSUME NEW e \in kept', Safe(db'[r], e)
      PROVE  Has(r, e)'
  <2>1. e \in kept /\ Passes(r, c, e) /\ (c = 1 /\ db[r][1].kind = "append" => e \in db[r][1].circuit)
    BY DEF Chosen
  <2>2. Safe(db[r], e)
    BY <1>1, <2>1, SafeBack
  <2>3. Has(r, e)
    BY <2>1, <2>2 DEF KeptInd
  <2>4. Shows(r, e)' /\ Bears(r, asked, e)
    BY <2>3
  <2> QED BY <2>1, <2>3, <2>4, HasMade
<1> QED BY <1>1 DEF KeptInd

------------------------------------------------------------------------------
(* What a step leaves of the answers and of the timers.                       *)

Unanswered(asked) == Len(asked) = 1 => ~asked[1].done

LEMMA AnswerMade ==
    ASSUME TypeInd, NEW r, QueueInd(r), NEW c, NEW asked, NEW t, Runs(r, c, asked, t),
           row' = row, version' = version, AnswerInd(r), Unanswered(asked)
    PROVE  AnswerInd(r)'
<1> DEFINE q == db[r]
           z == db'[r]
<1>0. /\ q \in Seq(Statements) /\ z \in Seq(Statements) /\ c \in {0, 1} /\ (c = 1 => Len(q) > 0)
      /\ DOMAIN q = 1 .. Len(q) /\ Len(q) \in Nat /\ DOMAIN z = 1 .. Len(z) /\ Len(z) \in Nat
      /\ Len(asked) \in {0, 1} /\ Len(z) = (Len(q) - c) + Len(asked)
      /\ \A i \in 1 .. Len(q) - c : i \in DOMAIN z /\ i + c \in DOMAIN q /\ z[i] = q[i + c]
      /\ \A i \in DOMAIN z : i \in 1 .. Len(q) - c \/ (i = Len(z) /\ Len(asked) = 1 /\ z[i] = asked[1])
  BY TurnedIs
<1>1. /\ \A i \in DOMAIN q : i # 1 => ~q[i].done
      /\ q # <<>> /\ Head(q).done => /\ Head(q).kind = "load" => Head(q).got = row
                                     /\ Head(q).kind = "latest" => Head(q).got = version
  BY DEF QueueInd, AnswerInd
<1> HIDE DEF q, z
<1>2. ASSUME z # <<>>, Head(z).done
      PROVE  /\ Head(z).kind = "load" => Head(z).got = row
             /\ Head(z).kind = "latest" => Head(z).got = version
  <2>1. 1 \in DOMAIN z /\ Head(z) = z[1]
    BY <1>0, <1>2
  <2>2. ~(Len(asked) = 1 /\ z[1] = asked[1])
    BY <1>2, <2>1 DEF Unanswered
  <2>3. 1 \in 1 .. Len(q) - c
    BY <1>0, <2>1, <2>2
  <2>4. 1 + c \in DOMAIN q /\ z[1] = q[1 + c]
    BY <1>0, <2>3
  <2>5. c = 0
    BY <1>0, <1>1, <1>2, <2>1, <2>4
  <2>6. q # <<>> /\ Head(q) = q[1] /\ z[1] = q[1]
    BY <1>0, <2>4, <2>5
  <2> QED BY <1>1, <1>2, <2>1, <2>6
<1> QED BY <1>2 DEF AnswerInd, z

\* The timers of r, and the statements that would let a document go.
Clocked(r) ==
    /\ ~relay.closed[r] => \A n \in Of(r) : relay.lives[n].timer => relay.documents[r] = n
    /\ relay.building[r] = Seeding => \A n \in Of(r) : ~relay.lives[n].timer
\* A document that is handed out, that nobody is in and that has a timer.
Ticking(r, n) == relay.documents[r] = n /\ relay.lives[n].timer /\ relay.lives[n].peers = {}
Winds(r, asked) ==
    /\ \A n \in Of(r) : Ticking(r, n)' =>
          Ticking(r, n) \/ \A i \in DOMAIN db[r] : db[r][i].kind = "save" => db[r][i].live # n
    /\ Len(asked) = 1 /\ asked[1].kind = "save" => ~relay'.lives[asked[1].live].timer
    /\ Len(asked) = 1 => relay'.building[r] # Seeding \/ asked[1].kind = "append" \/ Lookup(asked[1])

LEMMA TimerMade ==
    ASSUME TypeInd, NEW r, QueueInd(r), QueueInd(r)', TimerInd(r), NEW c, NEW asked, NEW t, Runs(r, c, asked, t),
           Clocked(r)', Winds(r, asked)
    PROVE  TimerInd(r)'
<1> DEFINE q == db[r]
           z == db'[r]
<1>0. /\ q \in Seq(Statements) /\ z \in Seq(Statements) /\ c \in {0, 1} /\ (c = 1 => Len(q) > 0)
      /\ DOMAIN q = 1 .. Len(q) /\ Len(q) \in Nat /\ DOMAIN z = 1 .. Len(z) /\ Len(z) \in Nat
      /\ Len(asked) \in {0, 1} /\ Len(z) = (Len(q) - c) + Len(asked)
      /\ \A i \in 1 .. Len(q) - c : i \in DOMAIN z /\ i + c \in DOMAIN q /\ z[i] = q[i + c]
      /\ \A i \in DOMAIN z : i \in 1 .. Len(q) - c \/ (i = Len(z) /\ Len(asked) = 1 /\ z[i] = asked[1])
  BY TurnedIs
<1>1. /\ \A i, j \in DOMAIN q : Lookup(q[i]) /\ i < j => q[j].kind = "append"
      /\ \A i \in DOMAIN q : q[i].kind = "save" /\ q[i].why = "leave" /\ relay.documents[r] = q[i].live
                               /\ relay.lives[q[i].live].timer => relay.lives[q[i].live].peers # {}
  BY DEF TimerInd
<1>2. /\ \A i \in DOMAIN q : q[i].kind = "save" => q[i].live \in Of(r)
      /\ (\E i \in DOMAIN z : Lookup(z[i])) => relay'.building[r] = Seeding
      /\ \A i, j \in DOMAIN z : Lookup(z[i]) /\ Lookup(z[j]) => i = j
  BY DEF QueueInd
<1>3. /\ \A n \in Of(r) : relay'.documents[r] = n /\ relay'.lives[n].timer /\ relay'.lives[n].peers = {} =>
          (relay.documents[r] = n /\ relay.lives[n].timer /\ relay.lives[n].peers = {})
             \/ \A i \in DOMAIN q : q[i].kind = "save" => q[i].live # n
      /\ Len(asked) = 1 /\ asked[1].kind = "save" => ~relay'.lives[asked[1].live].timer
      /\ Len(asked) = 1 => relay'.building[r] # Seeding \/ asked[1].kind = "append" \/ Lookup(asked[1])
  BY DEF Winds, Ticking
<1> HIDE DEF q, z
<1>4. ASSUME NEW i \in DOMAIN z, NEW j \in DOMAIN z, Lookup(z[i]), i < j
      PROVE  z[j].kind = "append"
  <2>1. i \in 1 .. Len(q) - c
    BY <1>0, <1>4
  <2>2. i + c \in DOMAIN q /\ z[i] = q[i + c]
    BY <1>0, <2>1
  <2>3. CASE j \in 1 .. Len(q) - c
    <3>1. j + c \in DOMAIN q /\ z[j] = q[j + c]
      BY <1>0, <2>3
    <3>2. i + c < j + c
      BY <1>0, <1>4
    <3> QED BY <1>1, <1>4, <2>2, <3>1, <3>2
  <2>4. CASE Len(asked) = 1 /\ z[j] = asked[1]
    <3>1. relay'.building[r] = Seeding
      BY <1>2, <1>4
    <3>2. ~Lookup(z[j])
      BY <1>0, <1>2, <1>4
    <3> QED BY <1>3, <2>4, <3>1, <3>2
  <2> QED BY <1>0, <2>3, <2>4
<1>5. ASSUME NEW i \in DOMAIN z, z[i].kind = "save", z[i].why = "leave", relay'.documents[r] = z[i].live,
             relay'.lives[z[i].live].timer
      PROVE  relay'.lives[z[i].live].peers # {}
  <2>1. CASE i \in 1 .. Len(q) - c
    <3> PICK m, n : m = i + c /\ n = z[i].live
      OBVIOUS
    <3>1. m \in DOMAIN q /\ z[i] = q[m]
      BY <1>0, <2>1
    <3>2. n \in Of(r)
      BY <1>2, <1>5, <3>1
    <3> QED BY <1>1, <1>3, <1>5, <3>1, <3>2
  <2>2. CASE Len(asked) = 1 /\ z[i] = asked[1]
    BY <1>3, <1>5, <2>2
  <2> QED BY <1>0, <2>1, <2>2
<1> QED BY <1>4, <1>5 DEF TimerInd, Clocked, z

------------------------------------------------------------------------------
(* Steps that start no timer and put nobody in another document.              *)

Slows(r, d) ==
    /\ Of(r)' = Of(r) /\ d \in {None, relay.documents[r]}
    /\ \A m \in Of(r) :
          /\ relay'.lives[m].timer => relay.lives[m].timer
          /\ relay'.lives[m].peers # {} => relay.lives[m].peers # {} \/ relay.documents[r] = m
          /\ relay'.lives[m].timer /\ relay'.lives[m].peers = {} => relay.lives[m].peers = {}
Steadies(r, d, b, k) ==
    /\ k = FALSE => ~relay.closed[r] /\ (d = relay.documents[r] \/ \A m \in Of(r) : ~relay'.lives[m].timer)
    /\ b = Seeding => relay.building[r] = Seeding \/ \A m \in Of(r) : ~relay'.lives[m].timer
AsksWell(r, b, asked) ==
    Len(asked) = 1 =>
        /\ ~asked[1].done
        /\ asked[1].kind = "save" => ~relay'.lives[asked[1].live].timer
        /\ b # Seeding \/ asked[1].kind = "append" \/ Lookup(asked[1])

LEMMA SlowsTimers ==
    ASSUME TypeInd, MapsInd, NEW r, QueueInd(r), QueueInd(r)', TimerInd(r), NEW c, NEW asked, NEW t, Runs(r, c, asked, t),
           NEW d, NEW b, NEW k, View(r, d, b, k), Slows(r, d), Steadies(r, d, b, k), AsksWell(r, b, asked)
    PROVE  TimerInd(r)'
<1>1. relay'.documents[r] = d /\ relay'.building[r] = b /\ relay'.closed[r] = k /\ r \in Replicas /\ relay' \in Relays
  BY DEF View
<1>2. k \in BOOLEAN
  <2>1. relay'.closed \in [Replicas -> BOOLEAN]
    BY <1>1 DEF Relays
  <2> QED BY <1>1, <2>1
<1>3. /\ ~relay.closed[r] => \A n \in Of(r) : relay.lives[n].timer => relay.documents[r] = n
      /\ relay.building[r] = Seeding => \A n \in Of(r) : ~relay.lives[n].timer
  BY DEF TimerInd
<1>4. Clocked(r)'
  <2>1. ASSUME ~relay'.closed[r], NEW n \in Of(r), relay'.lives[n].timer
        PROVE  relay'.documents[r] = n
    <3>1. k = FALSE
      BY <1>1, <1>2, <2>1
    <3>2. d = relay.documents[r] /\ ~relay.closed[r]
      BY <2>1, <3>1 DEF Steadies
    <3> QED BY <1>1, <1>3, <2>1, <3>2 DEF Slows
  <2>2. ASSUME relay'.building[r] = Seeding, NEW n \in Of(r)
        PROVE  ~relay'.lives[n].timer
    BY <1>1, <1>3, <2>2 DEF Slows, Steadies
  <2>3. Of(r)' = Of(r)
    BY DEF Slows
  <2> QED BY <2>1, <2>2, <2>3 DEF Clocked
<1>5. Winds(r, asked)
  <2>1. ASSUME NEW n \in Of(r), relay'.documents[r] = n, relay'.lives[n].timer, relay'.lives[n].peers = {}
        PROVE  relay.documents[r] = n /\ relay.lives[n].timer /\ relay.lives[n].peers = {}
    <3>1. n # None
      BY SeedingIsNone DEF Of
    <3> QED BY <1>1, <2>1, <3>1 DEF Slows
  <2> QED BY <1>1, <2>1 DEF Winds, Ticking, AsksWell
<1> QED BY <1>4, <1>5, TimerMade

LEMMA SlowsKept ==
    ASSUME TypeInd, MapsInd, NEW r, KeptInd(r), NEW c, NEW asked, NEW t, Runs(r, c, asked, t),
           row' = row, version' = version, NEW d, NEW b, NEW k, View(r, d, b, k), Slows(r, d), SameDocs,
           Chosen(r, c), Rearms(r, asked), \A e \in kept' : Has(r, e) => Bears(r, asked, e)
    PROVE  KeptInd(r)'
<1>1. Narrows(r)
  <2>1. Of(r)' = Of(r)
    BY DEF Slows
  <2>2. ASSUME NEW n \in Of(r), MaySave(r, n)'
        PROVE  MaySave(r, n)
    <3>1. n # None
      BY SeedingIsNone DEF Of
    <3>2. relay'.lives[n].timer \/ relay'.lives[n].peers # {} \/ d = n
      BY <2>2 DEF MaySave, View
    <3> QED BY <3>1, <3>2 DEF MaySave, Slows
  <2>3. \A n \in Of(r) : relay'.lives[n].doc = relay.lives[n].doc
    BY DEF SameDocs, Of
  <2> QED BY <2>1, <2>2, <2>3 DEF Narrows
<1>2. \A e \in kept' : Has(r, e) => Shows(r, e)' /\ Bears(r, asked, e)
  BY <1>1, NarrowsShows
<1> QED BY <1>2, KeptMade

\* Of a step that leaves every document's peers and timer.
LEMMA IdlesSlows ==
    ASSUME NEW r, NEW d, NEW b, NEW k, Idles(r, d, b, k), d \in {None, relay.documents[r]}
    PROVE  View(r, d, b, k) /\ Slows(r, d) /\ \A m \in Of(r) : relay'.lives[m].timer = relay.lives[m].timer
<1>1. View(r, d, b, k) /\ SameRoom /\ \A m \in DOMAIN relay.lives : AsItWas(m)
  BY DEF Idles
<1>2. Of(r)' = Of(r)
  BY <1>1, RoomOf
<1> QED BY <1>1, <1>2 DEF Slows, AsItWas, Of

\* Of a step that rewrites one.
LEMMA OneSlows ==
    ASSUME NEW r, NEW d, NEW n, NEW v, OneLive(n, v), d \in {None, relay.documents[r]},
           v.timer => relay.lives[n].timer, v.peers # {} => relay.lives[n].peers # {} \/ relay.documents[r] = n,
           v.timer /\ v.peers = {} => relay.lives[n].peers = {}
    PROVE  Slows(r, d)
<1>1. SameRoom /\ relay'.lives[n] = v /\ \A m \in DOMAIN relay.lives : m # n => relay'.lives[m] = relay.lives[m]
  BY DEF OneLive
<1>2. Of(r)' = Of(r)
  BY <1>1, RoomOf
<1> QED BY <1>1, <1>2 DEF Slows, Of

\* Of a step that empties some.
LEMMA EmptiesSlows ==
    ASSUME NEW r, NEW G, Empties(r, G)
    PROVE  Slows(r, None)
<1>1. /\ SameRoom /\ \A m \in DOMAIN relay.lives : m \notin G => relay'.lives[m] = relay.lives[m]
      /\ \A m \in G : relay'.lives[m].peers = {} /\ ~relay'.lives[m].timer
  BY DEF Empties
<1>2. Of(r)' = Of(r)
  BY <1>1, RoomOf
<1> QED BY <1>1, <1>2 DEF Slows, Of

\* The process stays armed where it hands out the same document.
LEMMA StaysArmed ==
    ASSUME NEW r, NEW d, NEW b, NEW k, View(r, d, b, k), NEW asked,
           Armed(r) => d = relay.documents[r] /\ k = relay.closed[r] /\ relay'.lives[d].timer = relay.lives[d].timer
    PROVE  Rearms(r, asked)
BY DEF Rearms, Armed, View

LEMMA ArmedIs ==
    ASSUME TypeInd, MapsInd, NEW r \in Replicas, Armed(r)
    PROVE  LET n == relay.documents[r]
           IN  /\ ~relay.closed[r] /\ n # None /\ n \in Of(r) /\ relay.lives[n].timer /\ relay.lives[n].pending
               /\ relay.building[r] # Seeding
<1>1. ~relay.closed[r] /\ relay.documents[r] # None /\ relay.lives[relay.documents[r]].timer
  BY DEF Armed
<1>2. relay.documents[r] \in Of(r) /\ relay.documents[r] \in DOMAIN relay.lives /\ relay.building[r] # Seeding
  BY <1>1, MapOf
<1>3. relay.lives[relay.documents[r]].pending
  BY <1>1, <1>2 DEF MapsInd, LiveInd
<1> QED BY <1>1, <1>2, <1>3

------------------------------------------------------------------------------
(* The steps of a process that is alone.                                      *)

Alone(r) ==
    /\ TypeInd /\ MapsInd /\ r \in Replicas /\ QueueInd(r) /\ QueueInd(r)' /\ TogetherInd(r)
    /\ TimerInd(r) /\ KeptInd(r) /\ AnswerInd(r) /\ row' = row /\ version' = version
Fine(r) == TimerInd(r) /\ KeptInd(r)

LEMMA NothingAsked ==
    /\ Len(<<>>) = 0
    /\ \A r, e : Bears(r, <<>>, e)
    /\ \A r, b : AsksWell(r, b, <<>>)
    /\ \A r, e : Passes(r, 0, e)
    /\ \A r : kept' \subseteq kept => Chosen(r, 0)
<1>1. Len(<<>>) = 0
  OBVIOUS
<1>2. Len(<<>>) # 1
  BY <1>1
<1>3. \A r, e : Bears(r, <<>>, e)
  BY <1>2 DEF Bears
<1>4. \A r, b : AsksWell(r, b, <<>>)
  BY <1>2 DEF AsksWell
<1>5. \A r, e : Passes(r, 0, e)
  BY DEF Passes
<1>6. \A r : kept' \subseteq kept => Chosen(r, 0)
  BY <1>5 DEF Chosen
<1> QED BY <1>1, <1>3, <1>4, <1>5, <1>6

LEMMA IdleAlone ==
    ASSUME NEW r, Alone(r), NEW c, NEW asked, NEW t, Runs(r, c, asked, t), NEW d, NEW b, NEW k, Idles(r, d, b, k),
           d \in {None, relay.documents[r]}, Steadies(r, d, b, k), AsksWell(r, b, asked), SameDocs, Chosen(r, c),
           Armed(r) => d = relay.documents[r] /\ k = relay.closed[r], \A e \in kept' : Has(r, e) => Bears(r, asked, e)
    PROVE  Fine(r)'
<1>0. /\ TypeInd /\ MapsInd /\ r \in Replicas /\ QueueInd(r) /\ QueueInd(r)' /\ TogetherInd(r)
      /\ TimerInd(r) /\ KeptInd(r) /\ AnswerInd(r) /\ row' = row /\ version' = version
  BY DEF Alone
<1>1. View(r, d, b, k) /\ Slows(r, d) /\ \A m \in Of(r) : relay'.lives[m].timer = relay.lives[m].timer
  BY IdlesSlows
<1>2. TimerInd(r)'
  BY <1>0, <1>1, SlowsTimers
<1>3. Rearms(r, asked)
  <2>1. Armed(r) => d = relay.documents[r] /\ k = relay.closed[r] /\ relay'.lives[d].timer = relay.lives[d].timer
    BY <1>0, <1>1, ArmedIs
  <2> QED BY <1>1, <2>1, StaysArmed
<1>4. KeptInd(r)'
  BY <1>0, <1>1, <1>3, SlowsKept
<1> QED BY <1>2, <1>4 DEF Fine

\* The process goes on as it was.
LEMMA SameSteadies ==
    ASSUME NEW r, NEW d, NEW b, NEW k, d = relay.documents[r], b \in {None, relay.building[r]}, k = relay.closed[r], r \in Replicas
    PROVE  Steadies(r, d, b, k)
<1>1. None # Seeding
  BY DeploymentsAssumption DEF None, Seeding
<1> QED BY <1>1 DEF Steadies

LEMMA IdleSame ==
    ASSUME NEW r, Alone(r), NEW c, NEW asked, NEW t, Runs(r, c, asked, t), NEW d, NEW b, NEW k, Idles(r, d, b, k),
           d = relay.documents[r], b \in {None, relay.building[r]}, k = relay.closed[r],
           AsksWell(r, b, asked), SameDocs, Chosen(r, c), \A e \in kept' : Has(r, e) => Bears(r, asked, e)
    PROVE  Fine(r)'
<1>1. Steadies(r, d, b, k)
  BY SameSteadies DEF Alone
<1>2. d \in {None, relay.documents[r]} /\ (Armed(r) => d = relay.documents[r] /\ k = relay.closed[r])
  OBVIOUS
<1> QED BY <1>1, <1>2, IdleAlone

\* Nothing is answered and nothing asked.
LEMMA QuietAlone ==
    ASSUME NEW r, Alone(r), kept' \subseteq kept, SameDocs,
           (\E p : Awaits(p, r)) \/ (\E n, t : Opens(n, r, t) \/ GoesWithout(n, r, t))
    PROVE  Fine(r)'
<1>0. TypeInd /\ Chosen(r, 0)
  BY NothingAsked DEF Alone
<1> PICK asked, c : asked = <<>> /\ c = 0
  OBVIOUS
<1> PICK d, b, k : d = relay.documents[r] /\ b = relay.building[r] /\ k = relay.closed[r]
  OBVIOUS
<1>1. Idles(r, d, b, k) /\ \E t : Runs(r, c, asked, t)
  <2>1. CASE \E p : Awaits(p, r)
    <3> PICK p : Awaits(p, r)
      BY <2>1
    <3>1. Idles(r, d, b, k)
      BY <1>0, AwaitIdles
    <3> QED BY <3>1 DEF Awaits
  <2>2. CASE \E n, t : Opens(n, r, t) \/ GoesWithout(n, r, t)
    <3> PICK n, t : Opens(n, r, t) \/ GoesWithout(n, r, t)
      BY <2>2
    <3>1. Idles(r, d, b, k)
      BY <1>0, OpensIdles, GoesWithoutIdles
    <3>2. Runs(r, c, asked, t)
      BY DEF Opens, GoesWithout
    <3> QED BY <3>1, <3>2
  <2> QED BY <2>1, <2>2
<1>2. AsksWell(r, b, asked) /\ \A e : Bears(r, asked, e)
  BY NothingAsked
<1>3. Chosen(r, c)
  BY <1>0
<1> QED BY <1>1, <1>2, <1>3, IdleSame

\* What is asked: the store's lookups, a version.
LEMMA AsksWellIs ==
    /\ \A r, b : AsksWell(r, b, <<LoadSession>>) /\ AsksWell(r, b, <<LatestVersion>>) /\ AsksWell(r, b, <<DropSession(TRUE)>>)
    /\ \A r, b, circuit, restore : AsksWell(r, b, <<AppendVersion(circuit, restore)>>)
    /\ \A r, b, n, doc, why : b # Seeding /\ ~relay'.lives[n].timer => AsksWell(r, b, <<SaveSession(n, doc, why)>>)
    /\ \A r, b : b # Seeding => AsksWell(r, b, <<DropSession(FALSE)>>)
<1>1. \A x : Len(<<x>>) = 1 /\ <<x>>[1] = x
  BY AskedOne
<1>2. \A r, b, x : ~x.done /\ Lookup(x) /\ x.kind # "save" => AsksWell(r, b, <<x>>)
  BY <1>1 DEF AsksWell
<1>3. \A r, b, x : ~x.done /\ x.kind = "append" => AsksWell(r, b, <<x>>)
  BY <1>1 DEF AsksWell
<1>4. \A r, b, x : ~x.done /\ b # Seeding /\ (x.kind = "save" => ~relay'.lives[x.live].timer) => AsksWell(r, b, <<x>>)
  BY <1>1 DEF AsksWell
<1>5. TRUE \in BOOLEAN /\ FALSE \in BOOLEAN
  OBVIOUS
<1>6. \A r, b : AsksWell(r, b, <<LoadSession>>) /\ AsksWell(r, b, <<LatestVersion>>) /\ AsksWell(r, b, <<DropSession(TRUE)>>)
  BY <1>2, <1>5, AskedIs
<1>7. \A r, b, circuit, restore : AsksWell(r, b, <<AppendVersion(circuit, restore)>>)
  BY <1>3, AskedIs
<1>8. \A r, b, n, doc, why : b # Seeding /\ ~relay'.lives[n].timer => AsksWell(r, b, <<SaveSession(n, doc, why)>>)
  BY <1>4, AskedIs
<1>9. \A r, b : b # Seeding => AsksWell(r, b, <<DropSession(FALSE)>>)
  BY <1>4, <1>5, AskedIs
<1> QED BY <1>6, <1>7, <1>8, <1>9

LEMMA BearsIs ==
    /\ \A r, e : ~Armed(r) => Bears(r, <<LoadSession>>, e)
    /\ \A r, e : ~Armed(r) /\ e \in version => Bears(r, <<LatestVersion>>, e) /\ Bears(r, <<DropSession(TRUE)>>, e)
    /\ \A r, e, circuit, restore : Bears(r, <<AppendVersion(circuit, restore)>>, e)
    /\ \A r, e, n, doc, why : e \in Content(doc) => Bears(r, <<SaveSession(n, doc, why)>>, e)
    /\ \A r, e : e \in version => Bears(r, <<DropSession(FALSE)>>, e)
<1>1. \A x : Len(<<x>>) = 1 /\ <<x>>[1] = x
  BY AskedOne
<1>2. ASSUME NEW r, NEW e, NEW x, x.kind = "save" => e \in Content(x.doc), x.kind \in {"drop", "latest"} => e \in version,
             Lookup(x) => ~Armed(r)
      PROVE  Bears(r, <<x>>, e)
  <2> PICK y : y = <<x>>
    OBVIOUS
  <2>1. y[1] = x
    BY <1>1
  <2>2. Bears(r, y, e)
    BY <1>2, <2>1 DEF Bears
  <2> QED BY <2>2
<1>5. TRUE \in BOOLEAN /\ FALSE \in BOOLEAN
  OBVIOUS
<1>6. \A r, e : ~Armed(r) => Bears(r, <<LoadSession>>, e)
  BY <1>2, AskedIs
<1>7. \A r, e : ~Armed(r) /\ e \in version => Bears(r, <<LatestVersion>>, e) /\ Bears(r, <<DropSession(TRUE)>>, e)
  BY <1>2, <1>5, AskedIs
<1>8. \A r, e, circuit, restore : Bears(r, <<AppendVersion(circuit, restore)>>, e)
  BY <1>2, AskedIs
<1>9. \A r, e, n, doc, why : e \in Content(doc) => Bears(r, <<SaveSession(n, doc, why)>>, e)
  BY <1>2, AskedIs
<1>10. \A r, e : e \in version => Bears(r, <<DropSession(FALSE)>>, e)
  BY <1>2, <1>5, AskedIs
<1> QED BY <1>6, <1>7, <1>8, <1>9, <1>10

\* A lookup is over, and the process was not armed: nothing is handed out.
LEMMA LookupAlone ==
    ASSUME NEW r, Alone(r), NEW asked, NEW t, Runs(r, 1, asked, t), Lookup(Head(db[r]))
    PROVE  ~Armed(r) /\ relay.building[r] = Seeding /\ relay.documents[r] = None
<1>0. TypeInd /\ MapsInd /\ r \in Replicas /\ QueueInd(r)
  BY DEF Alone
<1>1. relay.building[r] = Seeding
  BY <1>0, FoundHead
<1>2. ~Armed(r)
  BY <1>0, <1>1, ArmedIs
<1>3. relay.documents[r] = None
  BY <1>0, <1>1, MapOf
<1> QED BY <1>1, <1>2, <1>3

LEMMA AnsweredAlone ==
    ASSUME NEW r, Alone(r), Chosen(r, 1), SameDocs,
           \/ IsOver(r)
           \/ (LooksOn(r) \/ Discards(r)) /\ \A e \in kept' : Has(r, e) => e \in version
           \/ \E t : Refuses(r, t) \/ Stops(r, t)
           \/ \E circuit, t : Tells(r, circuit, t)
    PROVE  Fine(r)'
<1>0. TypeInd /\ MapsInd /\ r \in Replicas
  BY DEF Alone
<1> PICK c : c = 1
  OBVIOUS
<1> PICK d, k : d = relay.documents[r] /\ k = relay.closed[r]
  OBVIOUS
<1> DEFINE Step(asked, b) ==
        /\ \E t : Runs(r, c, asked, t)
        /\ Idles(r, d, b, k) /\ b \in {None, relay.building[r]}
        /\ AsksWell(r, b, asked) /\ \A e \in kept' : Has(r, e) => Bears(r, asked, e)
<1>1. ASSUME NEW asked, NEW b, Step(asked, b)
      PROVE  Fine(r)'
  <2>1. Chosen(r, c)
    OBVIOUS
  <2> QED BY <1>1, <2>1, IdleSame
<1> HIDE DEF Step
<1> PICK b : b = relay.building[r]
  OBVIOUS
<1> PICK quiet : quiet = <<>>
  OBVIOUS
<1>2. (\A bb : AsksWell(r, bb, quiet)) /\ \A e : Bears(r, quiet, e)
  BY NothingAsked
<1>3. CASE IsOver(r)
  <2>1. Runs(r, c, quiet, relay) /\ peers' = peers
    BY <1>3 DEF IsOver
  <2>2. Idles(r, d, b, k)
    BY <1>0, <2>1, StillIdles
  <2> QED BY <1>1, <1>2, <2>1, <2>2 DEF Step
<1>4. CASE LooksOn(r) /\ \A e \in kept' : Has(r, e) => e \in version
  <2> PICK asked : asked = <<LatestVersion>>
    OBVIOUS
  <2>1. Runs(r, c, asked, relay) /\ peers' = peers /\ Lookup(Head(db[r]))
    BY <1>4 DEF LooksOn
  <2>2. Idles(r, d, b, k)
    BY <1>0, <2>1, StillIdles
  <2>3. ~Armed(r)
    BY <2>1, LookupAlone
  <2>4. AsksWell(r, b, asked) /\ \A e \in kept' : Has(r, e) => Bears(r, asked, e)
    BY <1>4, <2>3, AsksWellIs, BearsIs
  <2> QED BY <1>1, <2>1, <2>2, <2>4 DEF Step
<1>5. CASE Discards(r) /\ \A e \in kept' : Has(r, e) => e \in version
  <2> PICK asked : asked = <<DropSession(TRUE)>>
    OBVIOUS
  <2>1. Runs(r, c, asked, relay) /\ peers' = peers /\ Lookup(Head(db[r]))
    BY <1>5 DEF Discards
  <2>2. Idles(r, d, b, k)
    BY <1>0, <2>1, StillIdles
  <2>3. ~Armed(r)
    BY <2>1, LookupAlone
  <2>4. AsksWell(r, b, asked) /\ \A e \in kept' : Has(r, e) => Bears(r, asked, e)
    BY <1>5, <2>3, AsksWellIs, BearsIs
  <2> QED BY <1>1, <2>1, <2>2, <2>4 DEF Step
<1>6. CASE \E t : Refuses(r, t) \/ Stops(r, t)
  <2> PICK t : Refuses(r, t) \/ Stops(r, t)
    BY <1>6
  <2> PICK bb : bb = None
    OBVIOUS
  <2>1. Runs(r, c, quiet, t)
    BY DEF Refuses, Stops
  <2>2. Idles(r, d, bb, k)
    BY <1>0, RefusesIdles, StopsIdles
  <2> QED BY <1>1, <1>2, <2>1, <2>2 DEF Step
<1>7. CASE \E circuit, t : Tells(r, circuit, t)
  <2> PICK circuit, t : Tells(r, circuit, t)
    BY <1>7
  <2>1. Runs(r, c, quiet, t)
    BY DEF Tells
  <2>2. Idles(r, d, b, k)
    BY <1>0, TellsIdles
  <2> QED BY <1>1, <1>2, <2>1, <2>2 DEF Step
<1> QED BY <1>3, <1>4, <1>5, <1>6, <1>7

LEMMA VersionAlone ==
    ASSUME NEW r, Alone(r), kept' \subseteq kept, SameDocs, NEW circuit, NEW restore, AsksVersion(r, circuit, restore)
    PROVE  Fine(r)'
<1>0. TypeInd /\ MapsInd /\ r \in Replicas
  BY DEF Alone
<1> PICK asked, c : asked = <<AppendVersion(circuit, restore)>> /\ c = 0
  OBVIOUS
<1> PICK d, b, k : d = relay.documents[r] /\ b = relay.building[r] /\ k = relay.closed[r]
  OBVIOUS
<1>1. Runs(r, c, asked, relay) /\ peers' = peers
  BY DEF AsksVersion
<1>2. Idles(r, d, b, k)
  BY <1>0, <1>1, StillIdles
<1>3. AsksWell(r, b, asked) /\ \A e : Bears(r, asked, e)
  BY AsksWellIs, BearsIs
<1>4. Chosen(r, c)
  BY NothingAsked
<1> QED BY <1>1, <1>2, <1>3, <1>4, IdleSame

\* Where nothing is handed out and the process is not shutting down, no timer runs.
LEMMA NoTimers ==
    ASSUME NEW r, Alone(r), ~relay.closed[r], relay.documents[r] = None
    PROVE  \A m \in Of(r) : ~relay.lives[m].timer
<1>1. \A m \in Of(r) : relay.lives[m].timer => relay.documents[r] = m
  BY DEF Alone, TimerInd
<1>2. \A m \in Of(r) : m # None
  BY SeedingIsNone DEF Alone, Of
<1> QED BY <1>1, <1>2

LEMMA ClosesNoneAlone ==
    ASSUME NEW r, Alone(r), kept' \subseteq kept, SameDocs, NEW s, ClosesNone(r, s)
    PROVE  Fine(r)'
<1>0. TypeInd /\ MapsInd /\ r \in Replicas
  BY DEF Alone
<1> PICK asked, c : asked = <<>> /\ c = 0
  OBVIOUS
<1> PICK d, b, k : d = None /\ b = relay.building[r] /\ k = TRUE
  OBVIOUS
<1>1. Runs(r, c, asked, s) /\ relay.documents[r] = None
  BY DEF ClosesNone
<1>2. Idles(r, d, b, k)
  BY <1>0, ClosesNoneIdles
<1>3. AsksWell(r, b, asked) /\ \A e : Bears(r, asked, e)
  BY NothingAsked
<1>4. Chosen(r, c)
  BY NothingAsked
<1>5. Steadies(r, d, b, k)
  BY DEF Steadies
<1>6. Armed(r) => d = relay.documents[r] /\ k = relay.closed[r]
  BY <1>1 DEF Armed
<1> QED BY <1>1, <1>2, <1>3, <1>4, <1>5, <1>6, IdleAlone

LEMMA SeedsAlone ==
    ASSUME NEW r, Alone(r), kept' \subseteq kept, SameDocs, NEW p, NEW t, Seeds(p, r, t)
    PROVE  Fine(r)'
<1>0. TypeInd /\ MapsInd /\ r \in Replicas
  BY DEF Alone
<1> PICK asked, c : asked = <<LoadSession>> /\ c = 0
  OBVIOUS
<1> PICK d, b, k : d = None /\ b = Seeding /\ k = FALSE
  OBVIOUS
<1>1. Runs(r, c, asked, t) /\ relay.documents[r] = None
  BY DEF Seeds
<1>2. Idles(r, d, b, k) /\ relay.closed[r] = FALSE /\ relay'.lives = relay.lives
  BY <1>0, SeedsIs
<1>3. ~Armed(r)
  BY <1>1 DEF Armed
<1>4. AsksWell(r, b, asked) /\ \A e : Bears(r, asked, e)
  BY <1>3, AsksWellIs, BearsIs
<1>5. Chosen(r, c)
  BY NothingAsked
<1>6. Steadies(r, d, b, k)
  <2>1. \A m \in Of(r) : ~relay'.lives[m].timer
    BY <1>1, <1>2, NoTimers
  <2> QED BY <1>1, <1>2, <2>1 DEF Steadies
<1> QED BY <1>1, <1>2, <1>3, <1>4, <1>5, <1>6, IdleAlone

\* The document that a save lets go has no timer, and no other one is handed out.
LEMMA LetsGoAlone ==
    ASSUME NEW r, Alone(r), Chosen(r, 1), SameDocs, NEW n, NEW t, LetsGo(r, n, t)
    PROVE  Fine(r)'
<1>0. TypeInd /\ MapsInd /\ r \in Replicas /\ QueueInd(r) /\ TogetherInd(r) /\ TimerInd(r)
  BY DEF Alone
<1> PICK asked, c : asked = <<>> /\ c = 1
  OBVIOUS
<1> PICK d, b, k : d = None /\ b = relay.building[r] /\ k = relay.closed[r]
  OBVIOUS
<1>1. /\ Runs(r, c, asked, t) /\ Head(db[r]).kind = "save" /\ Head(db[r]).why = "leave" /\ n = Head(db[r]).live
      /\ relay.lives[n].peers = {} /\ ~relay.lives[n].dropping
  BY DEF LetsGo
<1>2. Idles(r, d, b, k)
  BY <1>0, LetsGoIdles
<1>3. Head(db[r]) = db[r][1] /\ 1 \in DOMAIN db[r]
  BY <1>0, <1>1, HeadOf
<1>4. relay.documents[r] \in {None, n}
  BY <1>0, <1>1, <1>3 DEF TogetherInd, Leaving
<1>5. relay.documents[r] = n => ~relay.lives[n].timer
  BY <1>0, <1>1, <1>3 DEF TimerInd
<1>6. ~Armed(r)
  BY <1>4, <1>5 DEF Armed
<1>7. ASSUME ~relay.closed[r], NEW m \in Of(r)
      PROVE  ~relay.lives[m].timer
  <2>1. relay.lives[m].timer => relay.documents[r] = m
    BY <1>0, <1>7 DEF TimerInd
  <2>2. m # None
    BY <1>0, SeedingIsNone DEF Of
  <2> QED BY <1>4, <1>5, <2>1, <2>2
<1>8. Steadies(r, d, b, k)
  <2>1. \A m \in Of(r) : relay'.lives[m].timer = relay.lives[m].timer
    BY <1>2, IdlesSlows
  <2> QED BY <1>7, <2>1 DEF Steadies
<1>9. AsksWell(r, b, asked) /\ \A e : Bears(r, asked, e)
  BY NothingAsked
<1>10. Chosen(r, c)
  OBVIOUS
<1> QED BY <1>1, <1>2, <1>6, <1>8, <1>9, <1>10, IdleAlone

\* One document is rewritten, its text as it was.
LEMMA OneAlone ==
    ASSUME NEW r, Alone(r), kept' \subseteq kept, NEW asked, NEW t, Runs(r, 0, asked, t), NEW d, NEW b, NEW k, View(r, d, b, k),
           NEW n \in Of(r), NEW v, OneLive(n, v), v.doc = relay.lives[n].doc, d \in {None, relay.documents[r]},
           v.timer => relay.lives[n].timer, v.peers # {} => relay.lives[n].peers # {} \/ relay.documents[r] = n,
           v.timer /\ v.peers = {} => relay.lives[n].peers = {},
           Steadies(r, d, b, k), AsksWell(r, b, asked), Rearms(r, asked), \A e \in kept' : Has(r, e) => Bears(r, asked, e)
    PROVE  Fine(r)'
<1>0. TypeInd /\ MapsInd /\ r \in Replicas /\ QueueInd(r) /\ QueueInd(r)' /\ TimerInd(r) /\ KeptInd(r) /\ row' = row /\ version' = version
  BY DEF Alone
<1> PICK c : c = 0
  OBVIOUS
<1>1. Chosen(r, c) /\ Runs(r, c, asked, t)
  BY NothingAsked
<1>2. SameDocs
  BY OneDoc
<1>3. Slows(r, d)
  BY OneSlows
<1>4. TimerInd(r)'
  BY <1>0, <1>1, <1>3, SlowsTimers
<1>5. KeptInd(r)'
  BY <1>0, <1>1, <1>2, <1>3, SlowsKept
<1> QED BY <1>4, <1>5 DEF Fine

\* Every timer of r that runs was running, and that of what is handed out runs on.
LEMMA RearmsOn ==
    ASSUME NEW r, Alone(r), NEW b, NEW k, View(r, relay.documents[r], b, k), k = relay.closed[r], NEW asked,
           NEW n, NEW v, OneLive(n, v), v.timer = relay.lives[n].timer
    PROVE  Rearms(r, asked)
<1> PICK d : d = relay.documents[r]
  OBVIOUS
<1>0. TypeInd /\ MapsInd /\ r \in Replicas
  BY DEF Alone
<1>1. Armed(r) => d \in DOMAIN relay.lives
  BY <1>0, ArmedIs DEF Of
<1>2. Armed(r) => relay'.lives[d].timer = relay.lives[d].timer
  BY <1>1 DEF OneLive
<1> QED BY <1>2, StaysArmed

LEMMA AttachAlone ==
    ASSUME NEW r, Alone(r), kept' \subseteq kept, NEW p, NEW n, NEW t, Attaches(p, r, n, t)
    PROVE  Fine(r)'
<1>0. TypeInd /\ MapsInd /\ r \in Replicas
  BY DEF Alone
<1> PICK asked : asked = <<>>
  OBVIOUS
<1> PICK d, b, k, v : d = relay.documents[r] /\ b = relay.building[r] /\ k = relay.closed[r] /\ v = JoinLive(relay.lives[n], {p})
  OBVIOUS
<1>1. Runs(r, 0, asked, t)
  BY DEF Attaches
<1>2. /\ View(r, n, relay.building[r], FALSE) /\ n \in Of(r) /\ n = relay.documents[r] /\ ~relay.closed[r]
      /\ OneLive(n, v) /\ p \in Peers
  BY <1>0, AttachIs
<1>3. relay.closed[r] = FALSE
  BY <1>0, <1>2, ClosedIs
<1>4. View(r, d, b, k)
  BY <1>2, <1>3
<1>5. relay.lives[n] \in Lives
  BY <1>0, <1>2, RelayIs, RelayFields DEF Of
<1>6. v.doc = relay.lives[n].doc /\ v.peers = relay.lives[n].peers \cup {p} /\ v.timer = relay.lives[n].timer
  BY <1>2, <1>5, JoinFields
<1>7. Steadies(r, d, b, k)
  BY <1>0, SameSteadies
<1>8. AsksWell(r, b, asked) /\ \A e : Bears(r, asked, e)
  BY NothingAsked
<1>9. Rearms(r, asked)
  BY <1>2, <1>4, <1>6, RearmsOn
<1>10. v.peers # {}
  BY <1>6
<1> QED BY <1>1, <1>2, <1>4, <1>6, <1>7, <1>8, <1>9, <1>10, OneAlone

LEMMA LeavesOthersAlone ==
    ASSUME NEW r, Alone(r), kept' \subseteq kept, NEW p, NEW n, NEW t, LeavesOthers(p, r, n, t)
    PROVE  Fine(r)'
<1>0. TypeInd /\ MapsInd /\ r \in Replicas
  BY DEF Alone
<1> PICK asked : asked = <<>>
  OBVIOUS
<1> PICK d, b, k, v : d = relay.documents[r] /\ b = relay.building[r] /\ k = relay.closed[r] /\ v = LeftLive(relay.lives[n], p)
  OBVIOUS
<1>1. Runs(r, 0, asked, t) /\ relay.lives[n].peers \ {p} # {}
  BY DEF LeavesOthers
<1>2. View(r, d, b, k) /\ n \in Of(r) /\ OneLive(n, v)
  BY <1>0, LeavesOthersIs
<1>5. relay.lives[n] \in Lives
  BY <1>0, <1>2, RelayIs, RelayFields DEF Of
<1>6. v.doc = relay.lives[n].doc /\ v.peers = relay.lives[n].peers \ {p} /\ v.timer = relay.lives[n].timer
  BY <1>2, <1>5, LeftFields
<1>7. Steadies(r, d, b, k)
  BY <1>0, SameSteadies
<1>8. AsksWell(r, b, asked) /\ \A e : Bears(r, asked, e)
  BY NothingAsked
<1>9. Rearms(r, asked)
  BY <1>2, <1>6, RearmsOn
<1>10. v.peers # {} /\ relay.lives[n].peers # {}
  BY <1>1, <1>6
<1> QED BY <1>1, <1>2, <1>6, <1>7, <1>8, <1>9, <1>10, OneAlone

\* A save is asked for of a document that rests now.
LEMMA SavesAlone ==
    ASSUME NEW r, Alone(r), kept' \subseteq kept, NEW n \in Of(r), NEW why, NEW t,
           Runs(r, 0, <<SaveSession(n, relay.lives[n].doc, why)>>, t), MaySave(r, n),
           NEW d, NEW b, NEW k, View(r, d, b, k), d \in {None, relay.documents[r]}, Steadies(r, d, b, k), b # Seeding,
           NEW v, OneLive(n, v), v.doc = relay.lives[n].doc, v.timer = FALSE, v.peers \subseteq relay.lives[n].peers
    PROVE  Fine(r)'
<1> PICK st : st = SaveSession(n, relay.lives[n].doc, why)
  OBVIOUS
<1> PICK asked : asked = <<st>> /\ asked[1] = st /\ Len(asked) = 1
  BY AskedOne
<1>1. Runs(r, 0, asked, t)
  OBVIOUS
<1>2. ~relay'.lives[n].timer
  BY DEF OneLive
<1>3. AsksWell(r, b, asked)
  BY <1>2, AsksWellIs
<1>4. \A e \in kept' : Has(r, e) => Bears(r, asked, e)
  <2> SUFFICES ASSUME NEW e \in kept', Has(r, e)
               PROVE  Bears(r, asked, e)
    OBVIOUS
  <2>1. e \in Content(relay.lives[n].doc)
    BY DEF Has
  <2> QED BY <2>1, BearsIs
<1>5. Rearms(r, asked)
  <2>1. Writes(st)
    BY AskedIs DEF Writes
  <2> QED BY <2>1 DEF Rearms
<1>6. v.peers # {} => relay.lives[n].peers # {}
  OBVIOUS
<1> QED BY <1>1, <1>3, <1>4, <1>5, <1>6, OneAlone

LEMMA LeavesSavingAlone ==
    ASSUME NEW r, Alone(r), kept' \subseteq kept, NEW p, NEW n, NEW t, LeavesSaving(p, r, n, t)
    PROVE  Fine(r)'
<1>0. TypeInd /\ MapsInd /\ r \in Replicas /\ TogetherInd(r)
  BY DEF Alone
<1> PICK why : why = "leave"
  OBVIOUS
<1> PICK d, b, k, v : d = relay.documents[r] /\ b = relay.building[r] /\ k = relay.closed[r] /\ v = LeftAtRest(relay.lives[n], p)
  OBVIOUS
<1>1. Runs(r, 0, <<SaveSession(n, relay.lives[n].doc, why)>>, t) /\ Exits(p, r, n)
  BY DEF LeavesSaving
<1>2. View(r, d, b, k) /\ n \in Of(r) /\ OneLive(n, v)
  BY <1>0, LeavesSavingIs
<1>3. p \in relay.lives[n].peers /\ relay.lives[n] \in Lives
  BY <1>0, <1>1, PlaceOf DEF Exits
<1>4. v.doc = relay.lives[n].doc /\ v.peers = relay.lives[n].peers \ {p} /\ v.timer = FALSE
  BY <1>3, LeftAloneFields
<1>5. b # Seeding
  BY <1>0, <1>2, <1>3, TogetherHere
<1>6. Steadies(r, d, b, k)
  BY <1>0, SameSteadies
<1>7. MaySave(r, n)
  BY <1>3 DEF MaySave
<1>8. v.peers \subseteq relay.lives[n].peers
  BY <1>4
<1> QED BY <1>1, <1>2, <1>4, <1>5, <1>6, <1>7, <1>8, SavesAlone

LEMMA FiresAlone ==
    ASSUME NEW r, Alone(r), kept' \subseteq kept, NEW n, NEW t, Fires(n, r, t)
    PROVE  Fine(r)'
<1>0. TypeInd /\ MapsInd /\ r \in Replicas /\ TimerInd(r)
  BY DEF Alone
<1> PICK why : why = "timer"
  OBVIOUS
<1> PICK d, b, k, v : d = relay.documents[r] /\ b = relay.building[r] /\ k = relay.closed[r] /\ v = RestLive(relay.lives[n])
  OBVIOUS
<1>1. Runs(r, 0, <<SaveSession(n, relay.lives[n].doc, why)>>, t) /\ relay.lives[n].timer
  BY DEF Fires
<1>2. View(r, d, b, k) /\ n \in Of(r) /\ OneLive(n, v)
  BY <1>0, FiresIs
<1>3. relay.lives[n] \in Lives
  BY <1>0, <1>2, RelayIs, RelayFields DEF Of
<1>4. v.doc = relay.lives[n].doc /\ v.peers = relay.lives[n].peers /\ v.timer = FALSE
  BY <1>3, RestFields
<1>5. b # Seeding
  BY <1>0, <1>1, <1>2 DEF TimerInd
<1>6. Steadies(r, d, b, k)
  BY <1>0, SameSteadies
<1>7. MaySave(r, n)
  BY <1>1 DEF MaySave
<1>8. v.peers \subseteq relay.lives[n].peers
  BY <1>4
<1> QED BY <1>1, <1>2, <1>4, <1>5, <1>6, <1>7, <1>8, SavesAlone

LEMMA ClosesSavingAlone ==
    ASSUME NEW r, Alone(r), kept' \subseteq kept, NEW n, NEW s, NEW t, ClosesSaving(r, n, s, t)
    PROVE  Fine(r)'
<1>0. TypeInd /\ MapsInd /\ r \in Replicas
  BY DEF Alone
<1> PICK why : why = "close"
  OBVIOUS
<1> PICK d, b, k, v : d = None /\ b = relay.building[r] /\ k = TRUE /\ v = RestLive(relay.lives[n])
  OBVIOUS
<1>1. Runs(r, 0, <<SaveSession(n, relay.lives[n].doc, why)>>, t) /\ relay.documents[r] # None
  BY DEF ClosesSaving
<1>2. View(r, d, b, k) /\ n \in Of(r) /\ OneLive(n, v) /\ n = relay.documents[r]
  BY <1>0, ClosesSavingIs
<1>3. relay.lives[n] \in Lives
  BY <1>0, <1>2, RelayIs, RelayFields DEF Of
<1>4. v.doc = relay.lives[n].doc /\ v.peers = relay.lives[n].peers /\ v.timer = FALSE
  BY <1>3, RestFields
<1>5. b # Seeding
  BY <1>0, <1>1, MapOf
<1>6. Steadies(r, d, b, k)
  BY DEF Steadies
<1>7. MaySave(r, n)
  BY <1>2 DEF MaySave
<1>8. v.peers \subseteq relay.lives[n].peers
  BY <1>4
<1> QED BY <1>1, <1>2, <1>4, <1>5, <1>6, <1>7, <1>8, SavesAlone

\* The last one leaves a document that is saved.
LEMMA LeavesAtOnceAlone ==
    ASSUME NEW r, Alone(r), kept' \subseteq kept, NEW p, NEW n, NEW t, LeavesAtOnce(p, r, n, t)
    PROVE  Fine(r)'
<1>0. TypeInd /\ MapsInd /\ r \in Replicas /\ TogetherInd(r) /\ TimerInd(r)
  BY DEF Alone
<1> PICK asked : asked = <<>>
  OBVIOUS
<1> PICK d, b, k, v : d = None /\ b = relay.building[r] /\ k = relay.closed[r] /\ v = LeftAlone(relay.lives[n], p)
  OBVIOUS
<1>1. Runs(r, 0, asked, t) /\ Exits(p, r, n) /\ ~relay.lives[n].pending
  BY DEF LeavesAtOnce
<1>2. View(r, d, b, k) /\ n \in Of(r) /\ OneLive(n, v)
  BY <1>0, LeavesAtOnceIs
<1>3. p \in relay.lives[n].peers /\ relay.lives[n] \in Lives /\ n \in DOMAIN relay.lives
  BY <1>0, <1>1, PlaceOf DEF Exits
<1>4. v.doc = relay.lives[n].doc /\ v.peers = relay.lives[n].peers \ {p} /\ v.timer = relay.lives[n].timer
  BY <1>3, LeftAloneFields
<1>5. ~relay.lives[n].timer
  BY <1>0, <1>1, <1>3 DEF MapsInd, LiveInd
<1>6. relay.documents[r] \in {None, n} /\ (~relay.closed[r] => relay.documents[r] = n)
  BY <1>0, <1>2, <1>3, TogetherHere
<1>7. Steadies(r, d, b, k)
  <2>1. ASSUME ~relay.closed[r], NEW m \in Of(r)
        PROVE  ~relay'.lives[m].timer
    <3>1. relay.lives[m].timer => m = n
      BY <1>0, <1>6, <2>1 DEF TimerInd
    <3>2. m # n => relay'.lives[m] = relay.lives[m]
      BY <1>2 DEF OneLive, Of
    <3>3. relay'.lives[n] = v
      BY <1>2 DEF OneLive
    <3> QED BY <1>4, <1>5, <3>1, <3>2, <3>3
  <2>2. k = FALSE => ~relay.closed[r]
    OBVIOUS
  <2> QED BY <2>1, <2>2 DEF Steadies
<1>8. AsksWell(r, b, asked) /\ \A e : Bears(r, asked, e)
  BY NothingAsked
<1>9. Rearms(r, asked)
  BY <1>5, <1>6 DEF Rearms, Armed
<1>10. ~v.timer /\ (v.peers # {} => relay.lives[n].peers # {})
  BY <1>4, <1>5
<1> QED BY <1>1, <1>2, <1>4, <1>7, <1>8, <1>9, <1>10, OneAlone

LEMMA EndsBuildAlone ==
    ASSUME NEW r, Alone(r), kept' \subseteq kept, NEW n, NEW t, EndsBuild(r, n, t)
    PROVE  Fine(r)'
<1>0. TypeInd /\ MapsInd /\ r \in Replicas
  BY DEF Alone
<1> PICK asked, served : asked = <<>> /\ served = (relay.documents[r] = n /\ ~relay.lives[n].dropping)
  OBVIOUS
<1> PICK who : who = IF served THEN Waiting(r) ELSE {}
  OBVIOUS
<1> PICK d, b, k, v : d = relay.documents[r] /\ b = None /\ k = relay.closed[r] /\ v = JoinLive(relay.lives[n], who)
  OBVIOUS
<1>1. Runs(r, 0, asked, t)
  BY DEF EndsBuild
<1>2. View(r, d, b, k) /\ n \in Of(r) /\ OneLive(n, v)
  BY <1>0, EndsBuildIs
<1>3. relay.lives[n] \in Lives
  BY <1>0, <1>2, RelayIs, RelayFields DEF Of
<1>4. who \in SUBSET Peers
  BY DEF Waiting
<1>5. v.doc = relay.lives[n].doc /\ v.peers = relay.lives[n].peers \cup who /\ v.timer = relay.lives[n].timer
  BY <1>3, <1>4, JoinFields
<1>6. who # {} => relay.documents[r] = n
  OBVIOUS
<1>7. Steadies(r, d, b, k)
  BY <1>0, SameSteadies
<1>8. AsksWell(r, b, asked) /\ \A e : Bears(r, asked, e)
  BY NothingAsked
<1>9. Rearms(r, asked)
  BY <1>2, <1>5, RearmsOn
<1>10. /\ v.peers # {} => relay.lives[n].peers # {} \/ relay.documents[r] = n
       /\ v.timer /\ v.peers = {} => relay.lives[n].peers = {}
  BY <1>5, <1>6
<1> QED BY <1>1, <1>2, <1>5, <1>7, <1>8, <1>9, <1>10, OneAlone

\* Some documents are emptied, and nothing is handed out.
LEMMA EmptyAlone ==
    ASSUME NEW r, Alone(r), NEW c, NEW asked, NEW t, Runs(r, c, asked, t), Chosen(r, c), NEW b, NEW k, View(r, None, b, k),
           NEW G, Empties(r, G), Steadies(r, None, b, k), AsksWell(r, b, asked), Rearms(r, asked),
           \A e \in kept' : Has(r, e) => Bears(r, asked, e)
    PROVE  Fine(r)'
<1>0. TypeInd /\ MapsInd /\ r \in Replicas /\ QueueInd(r) /\ QueueInd(r)' /\ TimerInd(r) /\ KeptInd(r) /\ row' = row /\ version' = version
  BY DEF Alone
<1> PICK d : d = None
  OBVIOUS
<1>2. SameDocs
  BY EmptyDocs
<1>3. Slows(r, d)
  BY EmptiesSlows
<1>4. TimerInd(r)'
  BY <1>0, <1>3, SlowsTimers
<1>5. KeptInd(r)'
  BY <1>0, <1>2, <1>3, SlowsKept
<1> QED BY <1>4, <1>5 DEF Fine

\* An edit that was in the version alone is given up, and with it the tail of the session.
LEMMA OvergrowsAlone ==
    ASSUME NEW r, Alone(r), kept' \subseteq kept \cap version, NEW p, NEW n, NEW t, Overgrows(p, r, n, t)
    PROVE  Fine(r)'
<1>0. TypeInd /\ MapsInd /\ r \in Replicas /\ TogetherInd(r) /\ TimerInd(r)
  BY DEF Alone
<1> PICK asked, st : st = DropSession(FALSE) /\ asked = <<st>>
  OBVIOUS
<1>1a. asked[1] = st /\ Len(asked) = 1
  BY AskedOne
<1> PICK c, b, k, G : c = 0 /\ b = relay.building[r] /\ k = relay.closed[r] /\ G = {n}
  OBVIOUS
<1>1. Runs(r, c, asked, t) /\ p \in Peers /\ peers[p].at = "in" /\ r = peers[p].replica /\ n = peers[p].live
  BY DEF Overgrows
<1>2. View(r, None, b, k) /\ n \in Of(r) /\ Empties(r, G)
  BY <1>0, OvergrowsIs
<1>3. p \in relay.lives[n].peers
  BY <1>0, <1>1, PlaceOf
<1>4. b # Seeding /\ (~relay.closed[r] => relay.documents[r] = n)
  BY <1>0, <1>2, <1>3, TogetherHere
<1>5. Steadies(r, None, b, k)
  <2>1. ASSUME ~relay.closed[r], NEW m \in Of(r)
        PROVE  ~relay'.lives[m].timer
    <3>1. relay.lives[m].timer => m = n
      BY <1>0, <1>4, <2>1 DEF TimerInd
    <3>2. m # n => relay'.lives[m] = relay.lives[m]
      BY <1>2 DEF Empties, Of
    <3>3. ~relay'.lives[n].timer
      BY <1>2 DEF Empties
    <3> QED BY <3>1, <3>2, <3>3
  <2> QED BY <2>1 DEF Steadies
<1>6. AsksWell(r, b, asked)
  BY <1>4, AsksWellIs
<1>7. Rearms(r, asked)
  <2>1. Writes(st)
    BY AskedIs DEF Writes
  <2> QED BY <1>1a, <2>1 DEF Rearms
<1>8. \A e \in kept' : Bears(r, asked, e)
  BY BearsIs
<1>9. Chosen(r, c)
  BY NothingAsked
<1> QED BY <1>1, <1>2, <1>5, <1>6, <1>7, <1>8, <1>9, EmptyAlone

LEMMA FinishesAlone ==
    ASSUME NEW r, Alone(r), Chosen(r, 1), NEW n, NEW t, Finishes(r, n, t)
    PROVE  Fine(r)'
<1>0. TypeInd /\ MapsInd /\ r \in Replicas /\ QueueInd(r)
  BY DEF Alone
<1> PICK asked, c, b, k, G : asked = <<>> /\ c = 1 /\ b = relay.building[r] /\ k = relay.closed[r] /\ G = {n}
  OBVIOUS
<1>1. Runs(r, c, asked, t) /\ Head(db[r]).kind = "save" /\ Head(db[r]).why = "close"
  BY DEF Finishes
<1>2. View(r, None, b, k) /\ Empties(r, G)
  BY <1>0, FinishesIs
<1>3. relay.closed[r]
  BY <1>0, <1>1, SavedIs
<1>4. Steadies(r, None, b, k)
  BY <1>3 DEF Steadies
<1>5. AsksWell(r, b, asked) /\ \A e : Bears(r, asked, e)
  BY NothingAsked
<1>6. Rearms(r, asked)
  BY <1>3 DEF Rearms, Armed
<1>7. Chosen(r, c)
  OBVIOUS
<1> QED BY <1>1, <1>2, <1>4, <1>5, <1>6, <1>7, EmptyAlone

LEMMA ClosesSavedAlone ==
    ASSUME NEW r, Alone(r), kept' \subseteq kept, NEW n, NEW s, NEW t, ClosesSaved(r, n, s, t)
    PROVE  Fine(r)'
<1>0. TypeInd /\ MapsInd /\ r \in Replicas
  BY DEF Alone
<1> PICK asked, c, b, k, G : asked = <<>> /\ c = 0 /\ b = relay.building[r] /\ k = TRUE /\ G = {n}
  OBVIOUS
<1>1. Runs(r, c, asked, t) /\ ~relay.lives[n].pending
  BY DEF ClosesSaved
<1>2. View(r, None, b, k) /\ Empties(r, G) /\ n = relay.documents[r]
  BY <1>0, ClosesSavedIs
<1>3. ~Armed(r)
  BY <1>0, <1>1, <1>2, ArmedIs
<1>4. Steadies(r, None, b, k)
  BY DEF Steadies
<1>5. AsksWell(r, b, asked) /\ \A e : Bears(r, asked, e)
  BY NothingAsked
<1>6. Rearms(r, asked)
  BY <1>3 DEF Rearms
<1>7. Chosen(r, c)
  BY NothingAsked
<1> QED BY <1>1, <1>2, <1>4, <1>5, <1>6, <1>7, EmptyAlone

------------------------------------------------------------------------------
(* An edit, a version, a document that is built, and a process that is gone.  *)

LEMMA OneShows ==
    ASSUME NEW r, NEW n \in Of(r), NEW v, OneLive(n, v), NEW d, NEW b, NEW k, View(r, d, b, k), d = relay.documents[r],
           v.peers = relay.lives[n].peers, NEW e, Has(r, e),
           MaySave(r, n)' => e \in Content(v.doc)
    PROVE  Shows(r, e)'
<1> SUFFICES ASSUME NEW m \in Of(r)', MaySave(r, m)'
             PROVE  e \in Content(relay'.lives[m].doc)
  BY DEF Shows
<1>1. SameRoom /\ relay'.lives[n] = v /\ \A x \in DOMAIN relay.lives : x # n => relay'.lives[x] = relay.lives[x]
  BY DEF OneLive
<1>2. m \in Of(r) /\ m \in DOMAIN relay.lives
  BY <1>1, RoomOf DEF Of
<1>3. CASE m = n
  BY <1>1, <1>3
<1>4. CASE m # n
  <2>1. relay'.lives[m] = relay.lives[m]
    BY <1>1, <1>2, <1>4
  <2>2. relay'.documents[r] = relay.documents[r]
    BY DEF View
  <2>3. MaySave(r, m)
    BY <2>1, <2>2 DEF MaySave
  <2> QED BY <1>2, <2>1, <2>3 DEF Has
<1> QED BY <1>3, <1>4

\* A document starts its timer, and it is the one that is handed out, unless
\* the process is shutting down.
LEMMA DirtyTimers ==
    ASSUME NEW r, Alone(r), NEW c, NEW t, Runs(r, c, <<>>, t),
           NEW n \in Of(r), NEW v, OneLive(n, v), NEW d, NEW b, NEW k, View(r, d, b, k), d = relay.documents[r], k = relay.closed[r],
           b = relay.building[r], b # Seeding, v.peers = relay.lives[n].peers, ~relay.closed[r] => relay.documents[r] = n,
           relay.lives[n].peers # {} \/ \A i \in DOMAIN db[r] : db[r][i].kind = "save" => db[r][i].live # n
    PROVE  TimerInd(r)'
<1>0. TypeInd /\ MapsInd /\ r \in Replicas /\ QueueInd(r) /\ QueueInd(r)' /\ TimerInd(r)
  BY DEF Alone
<1> PICK asked : asked = <<>>
  OBVIOUS
<1>1. SameRoom /\ relay'.lives[n] = v /\ \A x \in DOMAIN relay.lives : x # n => relay'.lives[x] = relay.lives[x]
  BY DEF OneLive
<1>2. relay'.documents[r] = relay.documents[r] /\ relay'.building[r] = b /\ relay'.closed[r] = relay.closed[r]
  BY DEF View
<1>3. Of(r)' = Of(r)
  BY <1>1, RoomOf
<1>4. Clocked(r)'
  <2>1. ASSUME ~relay.closed[r], NEW m \in Of(r), relay'.lives[m].timer
        PROVE  relay.documents[r] = m
    <3>1. CASE m = n
      BY <2>1, <3>1
    <3>2. CASE m # n
      <4>1. relay'.lives[m] = relay.lives[m]
        BY <1>1, <3>2 DEF Of
      <4> QED BY <1>0, <2>1, <4>1 DEF TimerInd
    <3> QED BY <3>1, <3>2
  <2> QED BY <1>2, <1>3, <2>1 DEF Clocked
<1>5. Winds(r, asked)
  <2>1. ASSUME NEW m \in Of(r), Ticking(r, m)'
        PROVE  Ticking(r, m) \/ \A i \in DOMAIN db[r] : db[r][i].kind = "save" => db[r][i].live # m
    <3>1. CASE m = n
      <4>1. relay.lives[n].peers = {}
        BY <1>1, <2>1, <3>1 DEF Ticking
      <4> QED BY <3>1, <4>1
    <3>2. CASE m # n
      <4>1. relay'.lives[m] = relay.lives[m]
        BY <1>1, <3>2 DEF Of
      <4> QED BY <1>2, <2>1, <4>1 DEF Ticking
    <3> QED BY <3>1, <3>2
  <2>2. Len(asked) # 1
    BY NothingAsked
  <2> QED BY <2>1, <2>2 DEF Winds
<1>6. Runs(r, c, asked, t)
  OBVIOUS
<1> QED BY <1>0, <1>4, <1>5, <1>6, TimerMade

\* What has a timer and is handed out is armed.
LEMMA DirtyArms ==
    ASSUME NEW r, Alone(r), NEW n \in Of(r), NEW v, OneLive(n, v), NEW d, NEW b, NEW k, View(r, d, b, k), d = relay.documents[r],
           k = relay.closed[r], v.timer = TRUE
    PROVE  /\ \A asked : Rearms(r, asked)
           /\ ~relay.closed[r] /\ relay.documents[r] = n => Armed(r)'
<1>0. TypeInd /\ MapsInd /\ r \in Replicas
  BY DEF Alone
<1>1. relay'.lives[n] = v /\ \A x \in DOMAIN relay.lives : x # n => relay'.lives[x] = relay.lives[x]
  BY DEF OneLive
<1>2. relay'.documents[r] = relay.documents[r] /\ relay'.closed[r] = relay.closed[r]
  BY DEF View
<1>3. n # None
  BY <1>0, SeedingIsNone DEF Of
<1>4. ~relay.closed[r] /\ relay.documents[r] = n => Armed(r)'
  BY <1>1, <1>2, <1>3 DEF Armed
<1>5. ASSUME Armed(r)
      PROVE  Armed(r)'
  <2>1. relay.documents[r] \in DOMAIN relay.lives
    BY <1>0, <1>5, ArmedIs DEF Of
  <2>2. relay'.lives[relay.documents[r]].timer
    BY <1>1, <1>5, <2>1 DEF Armed
  <2> QED BY <1>2, <1>5, <2>2 DEF Armed
<1> QED BY <1>4, <1>5 DEF Rearms

\* An edit is in the document that is handed out, whose timer runs.
LEMMA IntegratesAlone ==
    ASSUME NEW r, Alone(r), AcceptedInd, NEW p, NEW n, NEW edit, NEW t, Integrates(p, r, n, edit, t), edit \notin accepted,
           kept' = IF relay.closed[r] THEN kept ELSE kept \cup {edit}
    PROVE  Fine(r)'
<1>0. /\ TypeInd /\ MapsInd /\ r \in Replicas /\ QueueInd(r)' /\ TogetherInd(r) /\ TimerInd(r) /\ KeptInd(r)
      /\ row' = row /\ version' = version
  BY DEF Alone
<1> PICK c, asked : c = 0 /\ asked = <<>>
  OBVIOUS
<1> PICK d, b, k, v : d = relay.documents[r] /\ b = relay.building[r] /\ k = relay.closed[r] /\ v = Edited(relay.lives[n], edit)
  OBVIOUS
<1>1. Runs(r, c, asked, t) /\ Runs(r, c, <<>>, t)
  BY DEF Integrates
<1>2. View(r, d, b, k) /\ n \in Of(r) /\ OneLive(n, v) /\ edit \in Edits /\ p \in relay.lives[n].peers
  BY <1>0, IntegratesIs
<1>3. relay.lives[n] \in Lives /\ n \in DOMAIN relay.lives
  BY <1>0, <1>2, RelayIs, RelayFields DEF Of
<1>4. /\ v.peers = relay.lives[n].peers /\ v.timer = TRUE
      /\ v.doc.has = relay.lives[n].doc.has \cup {edit} /\ v.doc.gone = relay.lives[n].doc.gone
  BY <1>2, <1>3, EditedFields
<1>5. b # Seeding /\ (~relay.closed[r] => relay.documents[r] = n) /\ relay.lives[n].peers # {}
  BY <1>0, <1>2, TogetherHere
<1>6. TimerInd(r)'
  BY <1>1, <1>2, <1>4, <1>5, DirtyTimers
<1>7. Rearms(r, asked) /\ (~relay.closed[r] => Armed(r)')
  BY <1>2, <1>4, <1>5, DirtyArms
<1>8. ASSUME NEW e \in kept, Safe(db'[r], e)
      PROVE  Has(r, e)'
  <2>1. Safe(db[r], e)
    BY <1>0, <1>1, <1>8, SafeBack
  <2>2. Has(r, e)
    BY <1>0, <1>8, <2>1 DEF KeptInd
  <2>3. e \in Content(relay.lives[n].doc)
    BY <1>2, <1>5, <2>2 DEF Has, MaySave
  <2>4. e \in Content(v.doc)
    BY <1>4, <2>3 DEF Content
  <2>5. Shows(r, e)'
    BY <1>2, <1>4, <2>2, <2>4, OneShows
  <2>6. Passes(r, c, e) /\ Bears(r, asked, e)
    BY NothingAsked
  <2> QED BY <1>0, <1>1, <1>7, <2>2, <2>5, <2>6, HasMade
<1>9. ASSUME ~relay.closed[r]
      PROVE  Has(r, edit)'
  <2>1. relay'.building[r] # Seeding /\ relay'.documents[r] = n
    BY <1>2, <1>5, <1>9 DEF View
  <2>2. \A i \in DOMAIN db'[r] : ~Lookup(db'[r][i])
    BY <1>0, <2>1 DEF QueueInd
  <2>3. Armed(r)'
    BY <1>7, <1>9
  <2>4. edit \in Content(v.doc)
    <3>1. edit \notin relay.lives[n].doc.gone
      BY <1>3 DEF AcceptedInd, From
    <3> QED BY <1>4, <3>1 DEF Content
  <2>5. ASSUME NEW m \in Of(r)', MaySave(r, m)'
        PROVE  edit \in Content(relay'.lives[m].doc)
    <3>1. SameRoom /\ relay'.lives[n] = v /\ \A x \in DOMAIN relay.lives : x # n => relay'.lives[x] = relay.lives[x]
      BY <1>2 DEF OneLive
    <3>2. m \in Of(r) /\ m \in DOMAIN relay.lives
      BY <3>1, RoomOf DEF Of
    <3>3. CASE m = n
      BY <2>4, <3>1, <3>3
    <3>4. CASE m # n
      <4>1. relay'.lives[m] = relay.lives[m]
        BY <3>1, <3>2, <3>4
      <4>2. ~relay.lives[m].timer
        BY <1>0, <1>5, <1>9, <3>2, <3>4 DEF TimerInd
      <4>3. relay.lives[m].peers = {}
        BY <1>0, <1>5, <1>9, <3>2, <3>4, TogetherHere
      <4> QED BY <2>1, <2>5, <3>4, <4>1, <4>2, <4>3 DEF MaySave
    <3> QED BY <3>3, <3>4
  <2> QED BY <2>2, <2>3, <2>5 DEF Has
<1>10. KeptInd(r)'
  <2>1. ASSUME NEW e \in kept', Safe(db'[r], e)
        PROVE  Has(r, e)'
    <3>1. CASE e \in kept
      BY <1>8, <2>1, <3>1
    <3>2. CASE e \notin kept
      BY <1>9, <2>1, <3>2
    <3> QED BY <3>1, <3>2
  <2> QED BY <2>1 DEF KeptInd
<1> QED BY <1>6, <1>10 DEF Fine

\* A version is settled into the document that is handed out.
LEMMA SettlesAlone ==
    ASSUME NEW r, Alone(r), Chosen(r, 1), NEW n, NEW circuit, NEW t, Settles(r, n, circuit, t), kept' \subseteq circuit,
           relay.lives[n].peers # {} \/ \A i \in DOMAIN db[r] : db[r][i].kind = "save" => db[r][i].live # n
    PROVE  Fine(r)'
<1>0. TypeInd /\ MapsInd /\ r \in Replicas /\ KeptInd(r) /\ row' = row /\ version' = version
  BY DEF Alone
<1> PICK c, asked : c = 1 /\ asked = <<>>
  OBVIOUS
<1> PICK d, b, k, v : d = relay.documents[r] /\ b = relay.building[r] /\ k = relay.closed[r] /\ v = Settled(relay.lives[n], circuit)
  OBVIOUS
<1>1. Runs(r, c, asked, t) /\ Runs(r, c, <<>>, t) /\ n # None
  BY DEF Settles
<1>2. View(r, d, b, k) /\ n \in Of(r) /\ OneLive(n, v) /\ n = relay.documents[r] /\ circuit \in SUBSET Edits
  BY <1>0, SettlesIs
<1>3. relay.lives[n] \in Lives /\ n \in DOMAIN relay.lives /\ b # Seeding /\ ~relay.closed[r]
  BY <1>0, <1>1, <1>2, MapOf
<1>4. /\ v.peers = relay.lives[n].peers /\ v.timer = TRUE
      /\ v.doc = Merge(relay.lives[n].doc, Reverted(relay.lives[n].doc, circuit))
  BY <1>2, <1>3, SettledFields
<1>5. TimerInd(r)'
  BY <1>1, <1>2, <1>3, <1>4, DirtyTimers
<1>6. Rearms(r, asked)
  BY <1>2, <1>4, DirtyArms
<1>7. ASSUME NEW e \in kept', Has(r, e)
      PROVE  Shows(r, e)'
  <2>1. e \in Content(relay.lives[n].doc)
    BY <1>2, <1>7 DEF Has, MaySave
  <2>2. e \in circuit
    BY <1>7
  <2>3. e \in Content(v.doc)
    BY <1>4, <2>1, <2>2 DEF Content, Merge, Reverted
  <2> QED BY <1>2, <1>4, <1>7, <2>3, OneShows
<1>8. \A e : Bears(r, asked, e)
  BY NothingAsked
<1>9. Chosen(r, c)
  OBVIOUS
<1>10. \A e \in kept' : Has(r, e) => Shows(r, e)' /\ Bears(r, asked, e)
  BY <1>7, <1>8
<1>11. KeptInd(r)'
  BY <1>0, <1>1, <1>6, <1>9, <1>10, KeptMade
<1> QED BY <1>5, <1>11 DEF Fine

\* A document is built of what a lookup found.
LEMMA SetsUpAlone ==
    ASSUME NEW r, Alone(r), Chosen(r, 1), NEW doc, NEW t, SetsUp(r, doc, t), \A e \in kept' : Has(r, e) => e \in Content(doc)
    PROVE  Fine(r)'
<1>0. /\ TypeInd /\ MapsInd /\ r \in Replicas /\ QueueInd(r) /\ QueueInd(r)' /\ TimerInd(r) /\ KeptInd(r)
      /\ TogetherInd(r) /\ row' = row /\ version' = version
  BY DEF Alone
<1> PICK c, asked, n : c = 1 /\ asked = <<>> /\ n = Len(relay.lives) + 1
  OBVIOUS
<1>1. Runs(r, c, asked, t) /\ Lookup(Head(db[r])) /\ ~relay.closed[r]
  BY DEF SetsUp
<1>2. /\ View(r, n, n, FALSE) /\ n \notin DOMAIN relay.lives /\ DOMAIN relay'.lives = DOMAIN relay.lives \cup {n}
      /\ \A m \in DOMAIN relay.lives : relay'.lives[m] = relay.lives[m]
      /\ relay'.lives[n].doc = doc /\ relay'.lives[n].timer = FALSE
  BY <1>0, SetsUpIs
<1>3. ~Armed(r) /\ relay.building[r] = Seeding /\ relay.documents[r] = None
  BY <1>1, LookupAlone
<1>4. \A m \in Of(r) : ~relay.lives[m].timer /\ relay.lives[m].peers = {}
  <2>1. \A m \in Of(r) : ~relay.lives[m].timer
    BY <1>1, <1>3, NoTimers
  <2>2. \A m \in Of(r) : relay.lives[m].peers = {}
    BY <1>0, <1>3 DEF TogetherInd
  <2> QED BY <2>1, <2>2
<1>5. \A m \in Of(r)' : m = n \/ (m \in Of(r) /\ m # n /\ relay'.lives[m] = relay.lives[m])
  BY <1>2 DEF Of
<1>6. \A m \in Of(r)' : ~relay'.lives[m].timer
  BY <1>2, <1>4, <1>5
<1>7. TimerInd(r)'
  <2>1. Clocked(r)'
    BY <1>6 DEF Clocked
  <2>2. Winds(r, asked)
    <3>1. \A m \in Of(r) : ~Ticking(r, m)'
      BY <1>2, <1>4 DEF Ticking, Of
    <3>2. Len(asked) # 1
      BY NothingAsked
    <3> QED BY <3>1, <3>2 DEF Winds
  <2> QED BY <1>0, <1>1, <2>1, <2>2, TimerMade
<1>8. ASSUME NEW e \in kept', Has(r, e)
      PROVE  Shows(r, e)'
  <2>1. ASSUME NEW m \in Of(r)', MaySave(r, m)'
        PROVE  e \in Content(relay'.lives[m].doc)
    <3>1. CASE m = n
      BY <1>2, <1>8, <3>1
    <3>2. CASE m # n
      <4>1. relay'.documents[r] # m
        BY <1>2, <3>2 DEF View
      <4>2. ~relay'.lives[m].timer /\ relay'.lives[m].peers = {}
        BY <1>4, <1>5, <3>2
      <4> QED BY <2>1, <4>1, <4>2 DEF MaySave
    <3> QED BY <3>1, <3>2
  <2> QED BY <2>1 DEF Shows
<1>9. \A e : Bears(r, asked, e)
  BY NothingAsked
<1>10. Chosen(r, c) /\ Rearms(r, asked)
  BY <1>3 DEF Rearms
<1>11. \A e \in kept' : Has(r, e) => Shows(r, e)' /\ Bears(r, asked, e)
  BY <1>8, <1>9
<1>12. KeptInd(r)'
  BY <1>0, <1>1, <1>10, <1>11, KeptMade
<1> QED BY <1>7, <1>12 DEF Fine

\* What the relay answers for is stored when the process is gone.
LEMMA DiesAlone ==
    ASSUME NEW r, Alone(r), Dies(r), \A e \in kept' : e \in Content(SeedOf(row, version))
    PROVE  Fine(r)'
<1>0. TypeInd /\ MapsInd /\ r \in Replicas /\ row' = row /\ version' = version
  BY DEF Alone
<1>1. /\ View(r, None, None, FALSE) /\ SameRoom /\ db'[r] = <<>>
      /\ \A m \in Of(r) : relay'.lives[m].peers = {} /\ ~relay'.lives[m].timer
  BY <1>0, DiesIs
<1>2. relay'.documents[r] = None /\ relay'.building[r] = None
  BY <1>1 DEF View
<1>3. Of(r)' = Of(r) /\ \A m \in Of(r) : m # None
  BY <1>0, <1>1, RoomOf, SeedingIsNone DEF Of
<1>4. \A m \in Of(r)' : ~relay'.lives[m].timer /\ relay'.lives[m].peers = {} /\ relay'.documents[r] # m
  BY <1>1, <1>2, <1>3
<1>5. DOMAIN db'[r] = {} /\ Len(db'[r]) + 1 = 1 /\ db'[r] \in Seq(Statements)
  BY <1>1, NoStatement
<1>6. TimerInd(r)'
  <2>1. None # Seeding
    BY <1>0, SeedingIsNone
  <2> QED BY <1>2, <1>4, <1>5, <2>1 DEF TimerInd
<1>7. ASSUME NEW e \in kept'
      PROVE  Has(r, e)'
  <2>1. \A m \in Of(r)' : ~MaySave(r, m)'
    BY <1>4 DEF MaySave
  <2>2. Lasting(row, version, db'[r], 1, e)
    BY <1>5, <1>7, LastingFirst
  <2> PICK z : z = db'[r]
    OBVIOUS
  <2>3. Lasting(row', version', z, Len(z) + 1, e) /\ DOMAIN z = {}
    BY <1>0, <1>5, <2>2
  <2> QED BY <2>1, <2>3 DEF Has
<1>8. KeptInd(r)'
  BY <1>7 DEF KeptInd
<1> QED BY <1>6, <1>8 DEF Fine

------------------------------------------------------------------------------
(* The answers after every step.                                              *)

AsksAnew(r) == Dies(r) \/ \E c, asked, t : Runs(r, c, asked, t) /\ Unanswered(asked)

LEMMA UnansweredIs ==
    /\ Unanswered(<<>>) /\ Unanswered(<<LoadSession>>) /\ Unanswered(<<LatestVersion>>)
    /\ \A b \in BOOLEAN : Unanswered(<<DropSession(b)>>)
    /\ \A n, doc, why : Unanswered(<<SaveSession(n, doc, why)>>)
    /\ \A circuit, restore : Unanswered(<<AppendVersion(circuit, restore)>>)
BY DEF Unanswered, LoadSession, LatestVersion, DropSession, SaveSession, AppendVersion

LEMMA InnerAsksAnew ==
    ASSUME NEW r, Inner(r) \/ (\E p, n, edit, t : Integrates(p, r, n, edit, t)) \/ (\E m, s : Ignores(r, m, s))
    PROVE  AsksAnew(r)
<1> DEFINE Asks == \E c, asked, t : Runs(r, c, asked, t) /\ Unanswered(asked)
<1>0. /\ Unanswered(<<>>) /\ Unanswered(<<LoadSession>>) /\ Unanswered(<<LatestVersion>>)
      /\ Unanswered(<<DropSession(TRUE)>>) /\ Unanswered(<<DropSession(FALSE)>>)
      /\ \A n, doc, why : Unanswered(<<SaveSession(n, doc, why)>>)
      /\ \A circuit, restore : Unanswered(<<AppendVersion(circuit, restore)>>)
  BY UnansweredIs
<1>1. ASSUME (\E p : Awaits(p, r)) \/ (\E s : ClosesNone(r, s)) \/ \E m, s : Ignores(r, m, s) PROVE Asks
  BY <1>0, <1>1 DEF Awaits, ClosesNone, Ignores
<1>2. ASSUME \E n, t : GoesWithout(n, r, t) \/ LetsGo(r, n, t) \/ Opens(n, r, t) PROVE Asks
  BY <1>0, <1>2 DEF GoesWithout, LetsGo, Opens
<1>3. ASSUME (\E t : Refuses(r, t) \/ Stops(r, t)) \/ \E p, n, edit, t : Integrates(p, r, n, edit, t) PROVE Asks
  BY <1>0, <1>3 DEF Refuses, Stops, Integrates
<1>4. ASSUME LooksOn(r) \/ Discards(r) \/ IsOver(r) PROVE Asks
  BY <1>0, <1>4 DEF LooksOn, Discards, IsOver
<1>5. ASSUME \E m, s, t : Merges(r, m, s, t) \/ IsTold(r, m, s, t) \/ Answers(r, m, s, t) PROVE Asks
  BY <1>0, <1>5 DEF Merges, IsTold, Answers
<1>6. ASSUME (\E p, n, t : Attaches(p, r, n, t)) \/ \E p, t : Seeds(p, r, t) PROVE Asks
  BY <1>0, <1>6 DEF Attaches, Seeds
<1>7. ASSUME \E p, n, t : LeavesOthers(p, r, n, t) \/ LeavesSaving(p, r, n, t) \/ LeavesAtOnce(p, r, n, t) PROVE Asks
  <2>1. PICK p, n, t : LeavesOthers(p, r, n, t) \/ LeavesSaving(p, r, n, t) \/ LeavesAtOnce(p, r, n, t)
    BY <1>7
  <2>2. CASE LeavesOthers(p, r, n, t) \/ LeavesAtOnce(p, r, n, t)
    BY <1>0, <2>2 DEF LeavesOthers, LeavesAtOnce
  <2>3. CASE LeavesSaving(p, r, n, t)
    BY <1>0, <2>3 DEF LeavesSaving
  <2> QED BY <2>1, <2>2, <2>3
<1>8. ASSUME \E n, t : Fires(n, r, t) PROVE Asks
  BY <1>0, <1>8 DEF Fires
<1>9. ASSUME \E n, t, s : ClosesSaving(r, n, s, t) PROVE Asks
  BY <1>0, <1>9 DEF ClosesSaving
<1>10. ASSUME (\E n, t, s : ClosesSaved(r, n, s, t)) \/ \E t, n : Finishes(r, n, t) PROVE Asks
  BY <1>0, <1>10 DEF ClosesSaved, Finishes
<1>11. ASSUME (\E n, t : EndsBuild(r, n, t)) \/ \E t, p, n : Overgrows(p, r, n, t) PROVE Asks
  BY <1>0, <1>11 DEF EndsBuild, Overgrows
<1>12. ASSUME (\E t, circuit : Tells(r, circuit, t)) \/ \E n, t, circuit : Settles(r, n, circuit, t) PROVE Asks
  BY <1>0, <1>12 DEF Tells, Settles
<1>13. ASSUME \E doc, t : SetsUp(r, doc, t) PROVE Asks
  BY <1>0, <1>13 DEF SetsUp
<1>17. ASSUME \E circuit, restore : AsksVersion(r, circuit, restore) PROVE Asks
  BY <1>0, <1>17 DEF AsksVersion
<1>w. Asks => AsksAnew(r)
  BY DEF AsksAnew
<1> HIDE DEF Asks
<1>14. CASE Hushed(r)
  BY <1>14, <1>1, <1>2, <1>3, <1>4, <1>5, <1>6, <1>7, <1>8, <1>9, <1>10, <1>11, <1>17, <1>w DEF Hushed, AsksAnew
<1>15. CASE Inner(r) /\ ~Hushed(r)
  BY <1>15, <1>2, <1>5, <1>12, <1>13, <1>w DEF Inner
<1> QED BY <1>14, <1>15, <1>1, <1>3, <1>w

LEMMA AnswersKept ==
    ASSUME TypeInd, MapsInd, NEW r \in Replicas, QueueInd(r), AnswerInd(r), row' = row, version' = version,
           Inner(r) \/ (\E p, n, edit, t : Integrates(p, r, n, edit, t)) \/ (\E m, s : Ignores(r, m, s))
    PROVE  AnswerInd(r)'
<1>1. AsksAnew(r)
  BY InnerAsksAnew
<1>2. CASE Dies(r)
  <2>1. db'[r] = <<>>
    BY <1>2, DiesIs
  <2> QED BY <2>1 DEF AnswerInd
<1>3. CASE \E c, asked, t : Runs(r, c, asked, t) /\ Unanswered(asked)
  BY <1>3, AnswerMade
<1> QED BY <1>1, <1>2, <1>3 DEF AsksAnew

------------------------------------------------------------------------------
(* A statement takes effect in the process that is alone.                     *)

\* What is stored goes from row w and version v to ww and vv.
Stored(h, w, v, ww, vv) ==
    /\ h.kind \in {"load", "latest"} => ww = w /\ vv = v
    /\ h.kind = "save" => ww = h.doc /\ vv = v
    /\ h.kind = "drop" => ww = NoRow /\ vv = v
    /\ h.kind = "append" => ww = NoRow /\ vv = h.circuit
Executed(q, z) ==
    /\ q \in Seq(Statements) /\ 1 \in DOMAIN q /\ DOMAIN z = DOMAIN q /\ \A i \in DOMAIN q : i # 1 => z[i] = q[i]
    /\ Ended(q[1], z[1])

LEMMA SeedIsOf ==
    /\ \A v : Content(SeedOf(NoRow, v)) = v
    /\ \A w \in Documents : \A v : SeedOf(w, v) = w
BY DeploymentsAssumption DEF Content, SeedOf, DocumentOf, Documents

LEMMA VersionedDone ==
    ASSUME NEW q, NEW z, Executed(q, z), NEW w, NEW v, NEW ww, NEW vv, Stored(q[1], w, v, ww, vv), NEW e, Safe(q, e),
           NEW i \in Nat, Versioned(v, q, i, e)
    PROVE  Versioned(vv, z, i, e)
<1>1. q[1].kind \in {"load", "latest", "save", "drop", "append"} /\ 1 \in DOMAIN q
  BY StatementIs DEF Executed, Ended
<1>2. CASE e \in v
  <2>1. q[1].kind = "append" => e \in q[1].circuit
    BY <1>1 DEF Safe
  <2>2. e \in vv
    BY <1>1, <1>2, <2>1 DEF Stored
  <2> QED BY <2>2 DEF Versioned
<1>3. CASE e \notin v
  <2> PICK j \in DOMAIN q : j < i /\ Appends(q[j])
    BY <1>3 DEF Versioned
  <2>1. CASE j = 1
    <3>1. q[1].kind = "append"
      BY <2>1 DEF Appends
    <3>2. e \in vv
      BY <1>1, <3>1 DEF Safe, Stored
    <3> QED BY <3>2 DEF Versioned
  <2>2. CASE j # 1
    <3>1. j \in DOMAIN z /\ z[j] = q[j]
      BY <2>2 DEF Executed
    <3> QED BY <3>1 DEF Versioned
  <2> QED BY <2>1, <2>2
<1> QED BY <1>2, <1>3

LEMMA LastingDone ==
    ASSUME NEW q, NEW z, Executed(q, z), NEW w, NEW v, NEW ww, NEW vv, Stored(q[1], w, v, ww, vv), NEW e, Safe(q, e),
           NEW i \in Nat, i > 1, Lasting(w, v, q, i, e)
    PROVE  Lasting(ww, vv, z, i, e)
<1>1. /\ q[1].kind \in {"load", "latest", "save", "drop", "append"} /\ 1 \in DOMAIN q /\ ~q[1].done /\ z[1].done
      /\ q[1].kind = "save" => q[1].doc \in Documents
      /\ q \in Seq(Statements) /\ DOMAIN z = DOMAIN q /\ DOMAIN q \subseteq Nat /\ \A j \in DOMAIN q : j # 1 => z[j] = q[j]
  BY StatementIs DEF Executed, Ended
<1>2. ~Writes(z[1])
  BY <1>1 DEF Writes
<1>3. ASSUME \A j \in DOMAIN z : j < i => ~Writes(z[j])
      PROVE  e \in Content(SeedOf(ww, vv))
  <2>1. \A j \in DOMAIN q : j < i /\ j # 1 => ~Writes(q[j])
    BY <1>1, <1>3
  <2>2. CASE q[1].kind \in {"load", "latest"}
    <3>1. ~Writes(q[1])
      BY <2>2 DEF Writes
    <3>2. \A j \in DOMAIN q : j < i => ~Writes(q[j])
      BY <2>1, <3>1
    <3>3. e \in Content(SeedOf(w, v))
      BY <3>2 DEF Lasting
    <3> QED BY <2>2, <3>3 DEF Stored
  <2>3. CASE q[1].kind \in {"save", "drop", "append"}
    <3>1. Writes(q[1])
      BY <1>1, <2>3 DEF Writes
    <3>2. \A k \in DOMAIN q : 1 < k /\ k < i => ~Writes(q[k])
      BY <1>1, <2>1
    <3>3. Bequeaths(v, q, 1, e)
      BY <1>1, <3>1, <3>2 DEF Lasting
    <3>4. CASE q[1].kind = "save"
      <4>1. e \in Content(q[1].doc)
        BY <3>3, <3>4 DEF Bequeaths
      <4> QED BY <1>1, <3>4, <4>1, SeedIsOf DEF Stored
    <3>5. CASE q[1].kind = "drop"
      <4>1. e \in v
        BY <1>1, <3>3, <3>5, VersionedFirst DEF Bequeaths
      <4> QED BY <3>5, <4>1, SeedIsOf DEF Stored
    <3>6. CASE q[1].kind = "append"
      <4>1. e \in q[1].circuit
        BY <1>1, <3>6 DEF Safe
      <4> QED BY <3>6, <4>1, SeedIsOf DEF Stored
    <3> QED BY <2>3, <3>4, <3>5, <3>6
  <2> QED BY <1>1, <2>2, <2>3
<1>4. ASSUME NEW j \in DOMAIN z, j < i, Writes(z[j]), \A k \in DOMAIN z : j < k /\ k < i => ~Writes(z[k])
      PROVE  Bequeaths(vv, z, j, e)
  <2>1. j # 1 /\ j \in DOMAIN q /\ z[j] = q[j] /\ j \in Nat /\ j > 1
    <3>1. j # 1
      BY <1>2, <1>4
    <3>2. j \in 1 .. Len(q)
      BY <1>1
    <3> QED BY <1>1, <3>1, <3>2
  <2>2. \A k \in DOMAIN q : j < k => k # 1
    BY <1>1, <2>1
  <2>3. \A k \in DOMAIN q : j < k /\ k < i => ~Writes(q[k])
    BY <1>1, <1>4, <2>2
  <2>4. Bequeaths(v, q, j, e)
    BY <1>4, <2>1, <2>3 DEF Lasting
  <2>5. q[j].kind = "drop" => Versioned(vv, z, j, e)
    BY <2>1, <2>4, VersionedDone DEF Bequeaths
  <2> QED BY <2>1, <2>4, <2>5 DEF Bequeaths
<1> QED BY <1>3, <1>4 DEF Lasting

LEMMA PerformsExecuted ==
    ASSUME TypeInd, NEW r, Performs(r)
    PROVE  Executed(db[r], db'[r]) /\ Stored(db[r][1], row, version, row', version')
<1>1. r \in Replicas /\ db[r] \in Seq(Statements)
  BY DEF Performs, TypeInd, Queues
<1>2. Executed(db[r], db'[r])
  BY <1>1 DEF Performs, Executed
<1>3. Stored(db[r][1], row, version, row', version')
  BY DEF Performs, Stores, Stored
<1> QED BY <1>2, <1>3

LEMMA PerformsAnswer ==
    ASSUME TypeInd, NEW r, Performs(r)
    PROVE  AnswerInd(r)'
<1>1. /\ 1 \in DOMAIN db[r] /\ DOMAIN db'[r] = DOMAIN db[r] /\ Ended(db[r][1], db'[r][1]) /\ Stores(db[r][1], db'[r][1])
      /\ r \in Replicas /\ db' \in Queues
  BY DEF Performs
<1>2. db'[r] \in Seq(Statements) /\ db'[r] # <<>> /\ Head(db'[r]) = db'[r][1]
  <2>1. db'[r] \in Seq(Statements)
    BY <1>1 DEF Queues
  <2>2. db'[r] # <<>>
    BY <1>1
  <2> QED BY <2>1, <2>2
<1>3. db'[r][1].kind = "load" => db'[r][1].got = row'
  BY <1>1 DEF Ended, Stores
<1>4. db'[r][1].kind = "latest" => db'[r][1].got = version'
  BY <1>1 DEF Ended, Stores
<1> QED BY <1>2, <1>3, <1>4 DEF AnswerInd

LEMMA PerformsTimer ==
    ASSUME TypeInd, NEW r, Performs(r), TimerInd(r)
    PROVE  TimerInd(r)'
<1>1. relay' = relay /\ Of(r)' = Of(r)
  BY PerformedIs
<1>2. /\ DOMAIN db'[r] = DOMAIN db[r]
      /\ \A i \in DOMAIN db[r] :
                 /\ Lookup(db'[r][i]) = Lookup(db[r][i]) /\ db'[r][i].kind = db[r][i].kind
                 /\ db[r][i].kind = "save" => db'[r][i].live = db[r][i].live /\ db'[r][i].why = db[r][i].why
  BY PerformedQueue
<1> PICK q, z : q = db[r] /\ z = db'[r]
  OBVIOUS
<1>3. \A i, j \in DOMAIN z : Lookup(z[i]) /\ i < j => z[j].kind = "append"
  BY <1>2 DEF TimerInd
<1>4. \A i \in DOMAIN z : z[i].kind = "save" /\ z[i].why = "leave" /\ relay.documents[r] = z[i].live
                               /\ relay.lives[z[i].live].timer => relay.lives[z[i].live].peers # {}
  BY <1>2 DEF TimerInd
<1> QED BY <1>1, <1>3, <1>4 DEF TimerInd

LEMMA PerformsKept ==
    ASSUME TypeInd, NEW r, Performs(r), KeptInd(r), kept' = kept
    PROVE  KeptInd(r)'
<1> PICK q, z, w, v, ww, vv : q = db[r] /\ z = db'[r] /\ w = row /\ v = version /\ ww = row' /\ vv = version'
  OBVIOUS
<1>1. relay' = relay /\ Of(r)' = Of(r) /\ r \in Replicas
  BY PerformedIs
<1>2. /\ DOMAIN z = DOMAIN q /\ 1 \in DOMAIN q
      /\ \A i \in DOMAIN q :
                 /\ Lookup(z[i]) = Lookup(q[i]) /\ z[i].kind = q[i].kind
                 /\ q[i].kind = "append" => z[i].circuit = q[i].circuit
  BY PerformedQueue
<1>3. Executed(q, z) /\ Stored(q[1], w, v, ww, vv)
  BY PerformsExecuted
<1>4. q \in Seq(Statements) /\ z \in Seq(Statements) /\ Len(z) = Len(q) /\ Len(q) \in Nat /\ Len(q) >= 1 /\ DOMAIN q = 1 .. Len(q)
  <2>1. q \in Seq(Statements) /\ z \in Seq(Statements)
    BY <1>1, PerformedIs DEF TypeInd, Queues
  <2> QED BY <1>2, <2>1
<1> SUFFICES ASSUME NEW e \in kept, Safe(z, e)
             PROVE  Has(r, e)'
  BY DEF KeptInd
<1>5. Safe(q, e)
  BY <1>2 DEF Safe
<1>6. Has(r, e)
  BY <1>5 DEF KeptInd
<1>7. /\ \A n \in Of(r) : MaySave(r, n) => e \in Content(relay.lives[n].doc)
      /\ Lasting(w, v, q, Len(q) + 1, e) \/ Armed(r)
      /\ \A i \in DOMAIN q : Lookup(q[i]) => Lasting(w, v, q, i, e) /\ (q[i].kind # "load" => Versioned(v, q, i, e))
  BY <1>6 DEF Has
<1>8. \A i \in Nat : i > 1 /\ Lasting(w, v, q, i, e) => Lasting(ww, vv, z, i, e)
  BY <1>3, <1>5, LastingDone
<1>9. \A i \in Nat : Versioned(v, q, i, e) => Versioned(vv, z, i, e)
  BY <1>3, <1>5, VersionedDone
<1>10. Lasting(ww, vv, z, Len(z) + 1, e) \/ Armed(r)
  BY <1>4, <1>7, <1>8
<1>11. ASSUME NEW i \in DOMAIN z, Lookup(z[i])
       PROVE  Lasting(ww, vv, z, i, e) /\ (z[i].kind # "load" => Versioned(vv, z, i, e))
  <2>1. i \in DOMAIN q /\ i \in Nat /\ Lookup(q[i]) /\ z[i].kind = q[i].kind
    BY <1>2, <1>4, <1>11
  <2>2. Lasting(w, v, q, i, e) /\ (q[i].kind # "load" => Versioned(v, q, i, e))
    BY <1>7, <2>1
  <2>3. z[i].kind # "load" => Versioned(vv, z, i, e)
    BY <1>9, <2>1, <2>2
  <2>4. CASE i = 1
    <3>1. e \in Content(SeedOf(w, v))
      BY <1>4, <2>2, <2>4, LastingFirst
    <3>2. CASE q[1].kind \in {"load", "latest"}
      <4>1. e \in Content(SeedOf(ww, vv))
        BY <1>3, <3>1, <3>2 DEF Stored
      <4> QED BY <1>4, <2>3, <2>4, <4>1, LastingFirst
    <3>3. CASE q[1].kind = "drop"
      <4>1. e \in v
        BY <1>4, <2>2, <2>4, <3>3, VersionedFirst
      <4>2. e \in Content(SeedOf(ww, vv))
        BY <1>3, <3>3, <4>1, SeedIsOf DEF Stored
      <4> QED BY <1>4, <2>3, <2>4, <4>2, LastingFirst
    <3>4. q[1].kind \in {"load", "latest", "drop"}
      BY <2>1, <2>4 DEF Lookup
    <3> QED BY <3>2, <3>3, <3>4
  <2>5. CASE i # 1
    <3>1. i > 1
      BY <1>4, <2>1, <2>5
    <3> QED BY <1>8, <2>1, <2>2, <2>3, <3>1
  <2> QED BY <2>4, <2>5
<1>12. /\ \A n \in Of(r)' : MaySave(r, n)' => e \in Content(relay'.lives[n].doc)
       /\ Armed(r)' = Armed(r)
  BY <1>1, <1>7 DEF MaySave, Armed
<1>13. Lasting(row', version', z, Len(z) + 1, e) \/ Armed(r)'
  BY <1>10, <1>12
<1>14. \A i \in DOMAIN z : Lookup(z[i]) =>
           Lasting(row', version', z, i, e) /\ (z[i].kind # "load" => Versioned(version', z, i, e))
  BY <1>11
<1> QED BY <1>12, <1>13, <1>14 DEF Has

------------------------------------------------------------------------------
(* The steps of the system where one process runs.                            *)

Solo(r) == Core /\ Core' /\ r \in running /\ running = {r} /\ AnswerInd(r) /\ TimerInd(r) /\ KeptInd(r)

LEMMA SoloIs ==
    ASSUME NEW r, Solo(r), row' = row, version' = version
    PROVE  Alone(r) /\ relay.inbox[r] = <<>> /\ AcceptedInd
<1>1. TypeInd /\ MapsInd /\ AcceptedInd /\ UntoldInd /\ (\A q \in Replicas : QueueInd(q)) /\ (\A q \in Replicas : QueueInd(q)')
  BY DEF Solo, Core
<1>2. r \in Replicas
  BY <1>1, RelayIs DEF Solo
<1>3. Cardinality(running) = 1
  BY FS_Singleton DEF Solo
<1>4. TogetherInd(r) /\ relay.inbox[r] = <<>>
  BY <1>1, <1>2, <1>3 DEF UntoldInd, Untold
<1> QED BY <1>1, <1>2, <1>4 DEF Alone, Solo

\* What a lookup that is answered found.
LEMMA HasHead ==
    ASSUME TypeInd, NEW r \in Replicas, db[r] # <<>>, Lookup(Head(db[r])), NEW e, Has(r, e)
    PROVE  e \in Content(SeedOf(row, version)) /\ (Head(db[r]).kind # "load" => e \in version)
<1> PICK q : q = db[r]
  OBVIOUS
<1>1. 1 \in DOMAIN q /\ Head(q) = q[1] /\ q \in Seq(Statements)
  BY HeadIs
<1>2. Lasting(row, version, q, 1, e) /\ (q[1].kind # "load" => Versioned(version, q, 1, e))
  BY <1>1 DEF Has
<1> QED BY <1>1, <1>2, LastingFirst, VersionedFirst

\* Steps that give up no edit but one a version took back.
Plain(r) ==
    \/ \E p : Awaits(p, r)
    \/ \E p, t : Seeds(p, r, t)
    \/ \E p, n, t : Attaches(p, r, n, t)
    \/ \E p, n, t : LeavesOthers(p, r, n, t) \/ LeavesSaving(p, r, n, t) \/ LeavesAtOnce(p, r, n, t)
    \/ \E n, t : Fires(n, r, t) \/ Opens(n, r, t) \/ GoesWithout(n, r, t)
    \/ \E n, t : EndsBuild(r, n, t)
    \/ \E s : ClosesNone(r, s)
    \/ \E n, s, t : ClosesSaving(r, n, s, t) \/ ClosesSaved(r, n, s, t)
    \/ \E circuit, restore : AsksVersion(r, circuit, restore)

LEMMA StaySilent ==
    ASSUME NEW r, relay.inbox[r] = <<>>
    PROVE  \A m, s, t : ~Merges(r, m, s, t)
BY DEF Merges, Pops

LEMMA PlainAlone ==
    ASSUME NEW r, Alone(r), relay.inbox[r] = <<>>, Plain(r), kept' \subseteq kept
    PROVE  Fine(r)'
<1>0. TypeInd /\ MapsInd /\ r \in Replicas /\ QueueInd(r)
  BY DEF Alone
<1>1. Hushed(r) => SameDocs
  BY <1>0, StaySilent, SameDocsHushed
<1>2. CASE \E p : Awaits(p, r)
  BY <1>1, <1>2, QuietAlone DEF Hushed
<1>3. CASE \E p, t : Seeds(p, r, t)
  BY <1>1, <1>3, SeedsAlone DEF Hushed
<1>4. CASE \E p, n, t : Attaches(p, r, n, t)
  BY <1>4, AttachAlone
<1>5. CASE \E p, n, t : LeavesOthers(p, r, n, t) \/ LeavesSaving(p, r, n, t) \/ LeavesAtOnce(p, r, n, t)
  BY <1>5, LeavesOthersAlone, LeavesSavingAlone, LeavesAtOnceAlone
<1>6. CASE \E n, t : Fires(n, r, t)
  BY <1>6, FiresAlone
<1>7. CASE \E n, t : Opens(n, r, t)
  <2> PICK n, t : Opens(n, r, t)
    BY <1>7
  <2> PICK v : v = OpenLive(relay.lives[n])
    OBVIOUS
  <2>1. n \in DOMAIN relay.lives /\ relay.lives[n] \in Lives /\ relay'.lives = [relay.lives EXCEPT ![n] = v]
    BY <1>0, RelayIs, RelayFields DEF Opens, Runs, Took
  <2>2. v \in Lives /\ v.doc = relay.lives[n].doc /\ v.replica = relay.lives[n].replica
    BY <2>1, OpenFields
  <2>3. OneLive(n, v)
    BY <1>0, <2>1, <2>2, OneLiveIs
  <2>4. SameDocs
    BY <2>2, <2>3, OneDoc
  <2> QED BY <2>4, QuietAlone
<1>8. CASE \E n, t : GoesWithout(n, r, t)
  BY <1>1, <1>8, QuietAlone DEF Hushed
<1>9. CASE \E n, t : EndsBuild(r, n, t)
  BY <1>9, EndsBuildAlone
<1>10. CASE \E s : ClosesNone(r, s)
  BY <1>1, <1>10, ClosesNoneAlone DEF Hushed
<1>11. CASE \E n, s, t : ClosesSaving(r, n, s, t) \/ ClosesSaved(r, n, s, t)
  BY <1>11, ClosesSavingAlone, ClosesSavedAlone
<1>12. CASE \E circuit, restore : AsksVersion(r, circuit, restore)
  <2> PICK circuit, restore : AsksVersion(r, circuit, restore)
    BY <1>12
  <2>1. relay'.lives = relay.lives
    BY DEF AsksVersion, Runs, Took
  <2>2. SameDocs
    BY <2>1, LivesDocs
  <2> QED BY <2>2, VersionAlone
<1> QED BY <1>2, <1>3, <1>4, <1>5, <1>6, <1>7, <1>8, <1>9, <1>10, <1>11, <1>12 DEF Plain

Plainly(r) == Plain(r) /\ kept' = kept /\ row' = row /\ version' = version

LEMMA PlainSteps ==
    ASSUME TypeInd, MapsInd, AcceptedInd, NEW r, running = {r},
           Joins \/ Leaves \/ Timer \/ Bus \/ Builds \/ WriteVersion \/ Shutdown
    PROVE  Plainly(r)
<1>0. Same => kept' = kept
  BY DEF Same, ghosts
<1>1. CASE Joins
  <2> PICK p \in deployed.serves[r] : Join(p, r) /\ Same
    BY <1>1 DEF Joins
  <2>1. Plain(r)
    BY JoinSteps DEF Plain
  <2> QED BY <1>0, <2>1 DEF Join, Plainly
<1>2. CASE Leaves
  <2> PICK p \in Peers : Detach(p) /\ Same
    BY <1>2 DEF Leaves
  <2> PICK q, n, t : q = peers[p].replica /\ n = peers[p].live /\ t = Detached(relay, p, n)
    OBVIOUS
  <2>1. LeavesOthers(p, q, n, t) \/ LeavesSaving(p, q, n, t) \/ LeavesAtOnce(p, q, n, t)
    BY DetachSteps
  <2>2. q = r
    BY PlaceOf DEF Detach
  <2>3. Plain(r)
    BY <2>1, <2>2 DEF Plain
  <2> QED BY <1>0, <2>3 DEF Detach, Plainly
<1>3. CASE Timer
  <2> PICK n \in DOMAIN relay.lives : TimerFires(n) /\ Same
    BY <1>3 DEF Timer
  <2> PICK q : q = relay.lives[n].replica
    OBVIOUS
  <2>1. Fires(n, q, Flush(relay, n, "timer")) /\ q = r
    BY TimerSteps, OwnerRuns
  <2>2. Plain(r)
    BY <2>1 DEF Plain
  <2> QED BY <1>0, <2>2 DEF TimerFires, Plainly
<1>4. CASE Bus
  <2> PICK n \in DOMAIN relay.lives : Subscribe(n) /\ Same
    BY <1>4 DEF Bus
  <2> PICK q : q = relay.lives[n].replica
    OBVIOUS
  <2>1. Opens(n, q, OpensTo(n)) /\ q = r
    BY SubscribeSteps, OwnerRuns
  <2>2. Plain(r)
    BY <2>1 DEF Plain
  <2> QED BY <1>0, <2>2 DEF Subscribe, Plainly
<1>5. CASE Builds
  <2>1. BuildEnds(r) /\ Same
    BY <1>5 DEF Builds
  <2>2. EndsBuild(r, relay.building[r], relay')
    BY <2>1, BuildEndsSteps
  <2>3. Plain(r)
    BY <2>2 DEF Plain
  <2> QED BY <1>0, <2>1, <2>3 DEF BuildEnds, storeVars, Plainly
<1>6. CASE WriteVersion
  <2>1. Frames /\ kept' = kept /\ \E q \in running : \E circuit, restore : AsksVersion(q, circuit, restore)
    BY <1>6, WriteVersionInner
  <2>2. Plain(r)
    BY <2>1 DEF Plain
  <2> QED BY <2>1, <2>2 DEF Frames, Keeping, Plainly
<1>7. CASE Shutdown
  <2>1. Close(r) /\ kept' = kept
    BY <1>7 DEF Shutdown
  <2>2. Plain(r)
    BY <2>1, CloseSteps DEF Plain
  <2> QED BY <2>1, <2>2 DEF Close, Plainly
<1> QED BY <1>1, <1>2, <1>3, <1>4, <1>5, <1>6, <1>7

\* A statement that was answered.
LEMMA AnsweredPasses ==
    ASSUME TypeInd, NEW r \in Replicas, Answered(r), NEW e
    PROVE  Passes(r, 1, e)
<1>1. Head(db[r]) = db[r][1] /\ db[r][1].done
  BY HeadIs DEF Answered
<1> QED BY <1>1 DEF Passes, Appends, Writes

\* A statement that fails, whose edits are what is stored.
LEMMA FailedPasses ==
    ASSUME TypeInd, NEW r \in Replicas, db[r] # <<>>, Head(db[r]).kind # "append", NEW e,
           Writes(Head(db[r])) => e \in Content(SeedOf(row, version))
    PROVE  Passes(r, 1, e)
<1>1. Head(db[r]) = db[r][1]
  BY HeadIs
<1> QED BY <1>1 DEF Passes, Appends

\* The relay stays as it is when it goes on.
LEMMA HushedStays ==
    ASSUME NEW r, Alone(r), relay.inbox[r] = <<>>, Hushed(r)
    PROVE  SameDocs
<1>1. TypeInd /\ MapsInd /\ r \in Replicas /\ QueueInd(r)
  BY DEF Alone
<1> QED BY <1>1, StaySilent, SameDocsHushed

\* What follows a save or a deletion, however it went.
LEMMA OverAlone ==
    ASSUME NEW r, Alone(r), relay.inbox[r] = <<>>, Chosen(r, 1), db[r] # <<>>, Head(db[r]).kind \in {"save", "drop"},
           NEW n, NEW t, LooksOn(r) \/ IsOver(r) \/ LetsGo(r, n, t) \/ Finishes(r, n, t)
    PROVE  Fine(r)'
<1>0. TypeInd /\ r \in Replicas
  BY DEF Alone
<1>1. LooksOn(r) \/ IsOver(r) \/ LetsGo(r, n, t) => SameDocs
  BY HushedStays DEF Hushed
<1>2. CASE LooksOn(r)
  <2>1. Lookup(Head(db[r]))
    BY <1>2 DEF LooksOn
  <2>2. \A e \in kept' : Has(r, e) => e \in version
    BY <1>0, <2>1, HasHead
  <2> QED BY <1>1, <1>2, <2>2, AnsweredAlone
<1>3. CASE IsOver(r)
  BY <1>1, <1>3, AnsweredAlone
<1>4. CASE LetsGo(r, n, t)
  BY <1>1, <1>4, LetsGoAlone
<1>5. CASE Finishes(r, n, t)
  BY <1>5, FinishesAlone
<1> QED BY <1>2, <1>3, <1>4, <1>5

\* Whether a version was settled into a document that is left and being saved.
LeftSaved(r) ==
    LET n == relay.documents[r]
    IN  n # None /\ relay.lives[n].peers = {} /\ \E i \in DOMAIN db[r] : db[r][i].kind = "save" /\ db[r][i].live = n

LEMMA ReplyAlone ==
    ASSUME NEW r, Solo(r), Reply(r),
           LET st == Head(db[r]) IN
               IF st.kind # "append" THEN kept' = kept ELSE kept' = kept \cap st.circuit /\ ~LeftSaved(r)
    PROVE  Fine(r)'
<1>0. Answered(r) /\ db[r] # <<>> /\ row' = row /\ version' = version
  BY DEF Reply, Answered
<1>1. Alone(r) /\ relay.inbox[r] = <<>> /\ TypeInd /\ MapsInd /\ r \in Replicas /\ r \in running /\ QueueInd(r) /\ AnswerInd(r)
  BY <1>0, SoloIs DEF Alone, Solo
<1> PICK st : st = Head(db[r])
  OBVIOUS
<1>2. \/ st.kind = "load" /\ st.got # NoRow /\ (SetsUp(r, st.got, FoundTo(r)) \/ Refuses(r, FoundTo(r)))
      \/ st.kind = "load" /\ st.got = NoRow /\ LooksOn(r)
      \/ st.kind = "latest" /\ (SetsUp(r, DocumentOf(st.got), LatestTo(r)) \/ Refuses(r, LatestTo(r)))
      \/ st.kind = "append" /\ (Tells(r, st.circuit, SettleTo(r)) \/ Settles(r, relay.documents[r], st.circuit, SettleTo(r)))
      \/ st.kind \in {"save", "drop"} /\ (LooksOn(r) \/ IsOver(r) \/ LetsGo(r, st.live, OverTo(r)) \/ Finishes(r, st.live, OverTo(r)))
  BY <1>1, ReplySteps
<1>3. st = db[r][1] /\ st.done /\ (st.kind = "load" => st.got = row) /\ (st.kind = "latest" => st.got = version)
  BY <1>0, <1>1, HeadIs DEF AnswerInd, Answered
<1>4. Chosen(r, 1)
  BY <1>0, <1>1, <1>3, AnsweredPasses DEF Chosen
<1>5. (st.kind = "append" => kept' \subseteq st.circuit /\ ~LeftSaved(r)) /\ kept' \subseteq kept
  OBVIOUS
<1>6. \A e : Has(r, e) /\ Lookup(st) => e \in Content(SeedOf(row, version)) /\ (st.kind # "load" => e \in version)
  BY <1>0, <1>1, HasHead
<1>7. st.kind \in {"load", "latest"} => Lookup(st)
  BY DEF Lookup
<1>8. \A t : Refuses(r, t) => Fine(r)'
  <2> SUFFICES ASSUME NEW t, Refuses(r, t)
               PROVE  Fine(r)'
    OBVIOUS
  <2>1. SameDocs
    BY <1>1, HushedStays DEF Hushed
  <2> QED BY <1>1, <1>4, <2>1, AnsweredAlone
<1>9. CASE st.kind = "load" /\ st.got # NoRow /\ SetsUp(r, st.got, FoundTo(r))
  <2>1. SeedOf(row, version) = st.got
    BY <1>3, <1>9 DEF SeedOf
  <2>2. \A e \in kept' : Has(r, e) => e \in Content(st.got)
    BY <1>6, <1>7, <1>9, <2>1
  <2> PICK doc : doc = st.got
    OBVIOUS
  <2> QED BY <1>1, <1>4, <1>9, <2>2, SetsUpAlone
<1>10. CASE st.kind = "load" /\ st.got = NoRow /\ LooksOn(r)
  <2>1. SameDocs
    BY <1>1, <1>10, HushedStays DEF Hushed
  <2>2. \A e \in kept' : Has(r, e) => e \in version
    BY <1>3, <1>6, <1>7, <1>10, SeedIsOf
  <2> QED BY <1>1, <1>4, <1>10, <2>1, <2>2, AnsweredAlone
<1>11. CASE st.kind = "latest" /\ SetsUp(r, DocumentOf(st.got), LatestTo(r))
  <2> PICK doc : doc = DocumentOf(st.got)
    OBVIOUS
  <2>1. Content(doc) = version
    BY <1>3, <1>11 DEF Content, DocumentOf
  <2>2. \A e \in kept' : Has(r, e) => e \in Content(doc)
    BY <1>6, <1>7, <1>11, <2>1
  <2> QED BY <1>1, <1>4, <1>11, <2>2, SetsUpAlone
<1>12. CASE st.kind = "append" /\ Tells(r, st.circuit, SettleTo(r))
  <2> PICK circuit, t : circuit = st.circuit /\ t = SettleTo(r)
    OBVIOUS
  <2>1. relay'.lives = relay.lives
    BY <1>12 DEF Tells, Published, SameObjects, Runs, Took
  <2>2. SameDocs
    BY <2>1, LivesDocs
  <2> QED BY <1>1, <1>4, <1>12, <2>2, AnsweredAlone
<1>13. CASE st.kind = "append" /\ Settles(r, relay.documents[r], st.circuit, SettleTo(r))
  <2> PICK n, circuit, t : n = relay.documents[r] /\ circuit = st.circuit /\ t = SettleTo(r)
    OBVIOUS
  <2>1. Settles(r, n, circuit, t) /\ n # None
    BY <1>13 DEF Settles
  <2>2. relay.lives[n].peers # {} \/ \A i \in DOMAIN db[r] : db[r][i].kind = "save" => db[r][i].live # n
    BY <1>5, <1>13, <2>1 DEF LeftSaved
  <2>3. kept' \subseteq circuit
    BY <1>5, <1>13
  <2> QED BY <1>1, <1>4, <2>1, <2>2, <2>3, SettlesAlone
<1>14. CASE st.kind \in {"save", "drop"} /\ (LooksOn(r) \/ IsOver(r) \/ LetsGo(r, st.live, OverTo(r)) \/ Finishes(r, st.live, OverTo(r)))
  <2> PICK n, t : n = st.live /\ t = OverTo(r)
    OBVIOUS
  <2> QED BY <1>0, <1>1, <1>4, <1>14, OverAlone
<1> QED BY <1>2, <1>8, <1>9, <1>10, <1>11, <1>12, <1>13, <1>14

\* A shutdown ends once everything is stored.
LEMMA EndsAlone ==
    ASSUME NEW r, Solo(r), CloseEnds(r), kept' = kept
    PROVE  Fine(r)'
<1>0. row' = row /\ version' = version /\ relay.closed[r] /\ db[r] = <<>>
  BY DEF CloseEnds, Gone
<1>1. Alone(r) /\ TypeInd /\ r \in running /\ KeptInd(r)
  BY <1>0, SoloIs DEF Alone, Solo
<1>2. Dies(r)
  BY <1>1, CloseEndsSteps
<1>3. ASSUME NEW e \in kept'
      PROVE  e \in Content(SeedOf(row, version))
  <2>1. DOMAIN db[r] = {} /\ Len(db[r]) + 1 = 1 /\ db[r] \in Seq(Statements)
    BY <1>0, NoStatement
  <2>2. Safe(db[r], e)
    BY <2>1 DEF Safe
  <2>3. Has(r, e)
    BY <1>1, <1>3, <2>2 DEF KeptInd
  <2>4. ~Armed(r)
    BY <1>0 DEF Armed
  <2>5. Lasting(row, version, db[r], 1, e)
    BY <2>1, <2>3, <2>4 DEF Has
  <2> QED BY <2>1, <2>5, LastingFirst
<1> QED BY <1>1, <1>2, <1>3, DiesAlone

\* What the relay still answers for once something was given up is stored.
LEMMA ForgivenIs ==
    ASSUME TypeInd, Forgiven, row' = row, version' = version
    PROVE  kept' \subseteq kept /\ \A e \in kept' : e \in Content(SeedOf(row, version))
<1>1. CASE row = NoRow
  <2>1. kept' = kept \cap version
    BY <1>1 DEF Forgiven
  <2>2. Content(SeedOf(row, version)) = version
    BY <1>1, SeedIsOf
  <2> QED BY <2>1, <2>2
<1>2. CASE row # NoRow
  BY <1>2 DEF Forgiven, SeedOf
<1> QED BY <1>1, <1>2

LEMMA WriteFailsAlone ==
    ASSUME NEW r, Solo(r), WriteFails(r), Forgiven
    PROVE  Fine(r)'
<1>0. row' = row /\ version' = version /\ db[r] # <<>> /\ Head(db[r]).kind \in {"save", "drop"}
  BY DEF WriteFails, Running
<1>1. Alone(r) /\ relay.inbox[r] = <<>> /\ TypeInd /\ MapsInd /\ r \in Replicas /\ r \in running /\ QueueInd(r)
  BY <1>0, SoloIs DEF Alone, Solo
<1>2. kept' \subseteq kept /\ \A e \in kept' : e \in Content(SeedOf(row, version))
  BY <1>0, <1>1, ForgivenIs
<1>3. Head(db[r]) = db[r][1] /\ Head(db[r]).kind # "append"
  BY <1>0, <1>1, HeadIs
<1>4. \A e \in kept' : Passes(r, 1, e)
  BY <1>0, <1>1, <1>2, <1>3, FailedPasses
<1>5. Chosen(r, 1)
  BY <1>2, <1>3, <1>4 DEF Chosen
<1> PICK n, t : n = Head(db[r]).live /\ t = OverTo(r)
  OBVIOUS
<1>6. LooksOn(r) \/ IsOver(r) \/ LetsGo(r, n, t) \/ Finishes(r, n, t)
  BY <1>1, WriteFailsSteps
<1> QED BY <1>0, <1>1, <1>5, <1>6, OverAlone

LEMMA CrashAlone ==
    ASSUME NEW r, Solo(r), Crash(r), Forgiven
    PROVE  Fine(r)'
<1>0. row' = row /\ version' = version
  BY DEF Crash, Gone
<1>1. Alone(r) /\ TypeInd /\ r \in running
  BY <1>0, SoloIs DEF Alone, Solo
<1>2. Dies(r)
  BY <1>1, CrashSteps
<1>3. \A e \in kept' : e \in Content(SeedOf(row, version))
  BY <1>0, <1>1, ForgivenIs
<1> QED BY <1>1, <1>2, <1>3, DiesAlone

LEMMA RowDoesNotProjectAlone ==
    ASSUME NEW r, Solo(r), RowDoesNotProject(r), kept' = kept \cap version
    PROVE  Fine(r)'
<1>0. row' = row /\ version' = version /\ Answered(r) /\ db[r] # <<>> /\ Head(db[r]).kind = "load"
  BY DEF RowDoesNotProject, Answered
<1>1. Alone(r) /\ relay.inbox[r] = <<>> /\ TypeInd /\ r \in Replicas /\ r \in running
  BY <1>0, SoloIs DEF Alone, Solo
<1>2. Discards(r)
  BY <1>1, RowDoesNotProjectSteps
<1>3. SameDocs
  BY <1>1, <1>2, HushedStays DEF Hushed
<1>4. Head(db[r]) = db[r][1]
  BY <1>0, <1>1, HeadIs
<1>5. Chosen(r, 1)
  BY <1>0, <1>1, <1>4, AnsweredPasses DEF Chosen
<1>6. \A e \in kept' : Has(r, e) => e \in version
  OBVIOUS
<1> QED BY <1>1, <1>2, <1>3, <1>5, <1>6, AnsweredAlone

LEMMA LoadFailsAlone ==
    ASSUME NEW r, Solo(r), LoadFails(r), kept' = kept
    PROVE  Fine(r)'
<1>0. row' = row /\ version' = version /\ db[r] # <<>> /\ Head(db[r]).kind \in {"load", "latest"}
  BY DEF LoadFails, Running
<1>1. Alone(r) /\ relay.inbox[r] = <<>> /\ TypeInd /\ r \in Replicas /\ r \in running
  BY <1>0, SoloIs DEF Alone, Solo
<1> PICK t : t = StopsTo(r)
  OBVIOUS
<1>2. Stops(r, t)
  BY <1>1, LoadFailsSteps
<1>3. SameDocs
  BY <1>1, <1>2, HushedStays DEF Hushed
<1>4. Head(db[r]) = db[r][1] /\ Head(db[r]).kind # "append" /\ ~Writes(Head(db[r]))
  BY <1>0, <1>1, HeadIs DEF Writes
<1>5. \A e \in kept' : Passes(r, 1, e)
  BY <1>0, <1>1, <1>4, FailedPasses
<1>6. Chosen(r, 1)
  BY <1>4, <1>5 DEF Chosen
<1> QED BY <1>1, <1>2, <1>3, <1>6, AnsweredAlone

LEMMA OvergrowAlone ==
    ASSUME NEW r, Solo(r), NEW p \in Peers, Overgrow(p), kept' = kept \cap version
    PROVE  Fine(r)'
<1>0. row' = row /\ version' = version /\ peers[p].at = "in"
  BY DEF Overgrow
<1>1. Alone(r) /\ TypeInd /\ MapsInd /\ running = {r}
  BY <1>0, SoloIs DEF Alone, Solo
<1> PICK q, n, t : q = peers[p].replica /\ n = peers[p].live /\ t = Drop(relay, n, FALSE)
  OBVIOUS
<1>2. Overgrows(p, q, n, t)
  BY <1>1, OvergrowSteps
<1>3. q = r
  BY <1>0, <1>1, PlaceOf
<1>4. Overgrows(p, r, n, t)
  BY <1>2, <1>3
<1> QED BY <1>1, <1>4, OvergrowsAlone

LEMMA SubscribeFailsAlone ==
    ASSUME NEW r, Solo(r), NEW n \in DOMAIN relay.lives, SubscribeFails(n), kept' = kept
    PROVE  Fine(r)'
<1>0. row' = row /\ version' = version
  BY DEF SubscribeFails, storeVars
<1>1. Alone(r) /\ relay.inbox[r] = <<>> /\ TypeInd /\ MapsInd /\ running = {r}
  BY <1>0, SoloIs DEF Alone, Solo
<1> PICK q : q = relay.lives[n].replica
  OBVIOUS
<1>2. GoesWithout(n, q, relay') /\ q = r
  BY <1>1, SubscribeFailsSteps, OwnerRuns
<1>3. Plain(r)
  BY <1>2 DEF Plain
<1> QED BY <1>1, <1>3, PlainAlone

\* Whatever goes wrong.
LEMMA FaultsAlone ==
    ASSUME NEW r, Solo(r), Faults
    PROVE  Fine(r)'
<1>0. running = {r} /\ TypeInd /\ MapsInd
  BY DEF Solo, Core
<1>1. CASE \E p \in Peers : Overgrow(p) /\ kept' = kept \cap version /\ UNCHANGED owed
  BY <1>1, OvergrowAlone
<1>2. CASE \E q \in running : (WriteFails(q) \/ Crash(q)) /\ Forgiven /\ UNCHANGED owed
  BY <1>0, <1>2, WriteFailsAlone, CrashAlone
<1>3. CASE \E q \in running : RowDoesNotProject(q) /\ kept' = kept \cap version /\ UNCHANGED owed
  BY <1>0, <1>3, RowDoesNotProjectAlone
<1>4. CASE \E q \in running : LoadFails(q) /\ UNCHANGED <<kept, owed>>
  BY <1>0, <1>4, LoadFailsAlone
<1>5. CASE \E n \in DOMAIN relay.lives : SubscribeFails(n) /\ UNCHANGED <<kept, owed>>
  BY <1>5, SubscribeFailsAlone
<1>6. CASE \E q \in running : MessageIsLost(q) /\ owed' = [n \in LiveIds |-> {}] /\ UNCHANGED kept
  <2>1. row' = row /\ version' = version /\ relay.inbox[r] # <<>>
    BY <1>0, <1>6 DEF MessageIsLost, storeVars
  <2> QED BY <2>1, SoloIs
<1> QED BY <1>1, <1>2, <1>3, <1>4, <1>5, <1>6 DEF Faults

\* An edit that is accepted.
LEMMA EditAlone ==
    ASSUME NEW r, Solo(r), Edit
    PROVE  Fine(r)'
<1>0. TypeInd /\ MapsInd /\ running = {r}
  BY DEF Solo, Core
<1>1. row' = row /\ version' = version
  BY <1>0, EditIntegrates DEF Keeping
<1>2. Alone(r) /\ AcceptedInd
  BY <1>1, SoloIs
<1> PICK p \in Peers, n \in DOMAIN relay.lives, q \in running, edit \in Edits \ accepted :
                 /\ (\E t : Integrates(p, q, n, edit, t)) /\ OwesEdit(q, edit) /\ relay.lives[n].replica = q
                 /\ accepted' = accepted \cup {edit}
                 /\ kept' = IF relay.closed[q] THEN kept ELSE kept \cup {edit}
  BY <1>0, EditIntegrates
<1> PICK t : Integrates(p, q, n, edit, t)
  OBVIOUS
<1>3. q = r /\ edit \notin accepted
  BY <1>0
<1>4. Integrates(p, r, n, edit, t) /\ kept' = IF relay.closed[r] THEN kept ELSE kept \cup {edit}
  BY <1>3
<1> QED BY <1>2, <1>3, <1>4, IntegratesAlone

\* What a step answers is what is stored, in the process that is alone.
LEMMA AnswersStep ==
    ASSUME Core, NEW r, running = {r}, AnswerInd(r), Next
    PROVE  AnswerInd(r)'
<1>0. TypeInd /\ AcceptedInd /\ MapsInd /\ (\A q \in Replicas : QueueInd(q)) /\ r \in running
  BY DEF Core
<1>1. r \in Replicas /\ QueueInd(r)
  BY <1>0, RelayIs
<1> DEFINE Moved == Inner(r) \/ (\E p, n, edit, t : Integrates(p, r, n, edit, t)) \/ (\E m, s : Ignores(r, m, s))
<1>2. ASSUME Joins \/ Leaves \/ Timer \/ Bus \/ Builds \/ Replies \/ WriteVersion \/ Shutdown \/ Ends
      PROVE  Keeping /\ Moved
  <2>1. Frames /\ \E q \in running : Inner(q)
    BY <1>0, <1>2, JoinsInner, LeavesInner, TimerInner, BusInner, BuildsInner, RepliesInner, WriteVersionInner,
       ShutdownInner, EndsInner
  <2> QED BY <2>1 DEF Frames
<1>3. ASSUME Receives
      PROVE  Keeping /\ Moved
  <2>1. Frames /\ \E q \in running : Inner(q) \/ \E m, s : Ignores(q, m, s) /\ m.kind = "sync-request"
    BY <1>0, <1>3, ReceivesInner
  <2> QED BY <2>1 DEF Frames
<1>4. ASSUME Faults
      PROVE  Keeping /\ Moved
  <2>1. Keeping
    BY <1>0, <1>4, FaultsInner
  <2> PICK q \in running :
                 \/ Inner(q) /\ owed' = owed
                 \/ (\E m, s : Ignores(q, m, s)) /\ owed' = [n \in LiveIds |-> {}]
    BY <1>0, <1>4, FaultsInner
  <2> QED BY <2>1
<1>5. ASSUME Edit
      PROVE  Keeping /\ Moved
  <2>1. Keeping
    BY <1>0, <1>5, EditIntegrates
  <2> PICK p \in Peers, n \in DOMAIN relay.lives, q \in running, edit \in Edits \ accepted : \E t : Integrates(p, q, n, edit, t)
    BY <1>0, <1>5, EditIntegrates
  <2> QED BY <2>1
<1>6. CASE Executes
  BY <1>0, <1>6, ExecutesPerforms, PerformsAnswer
<1>7. ASSUME Keeping, Moved
      PROVE  AnswerInd(r)'
  <2>1. row' = row /\ version' = version
    BY <1>7 DEF Keeping
  <2> QED BY <1>0, <1>1, <1>7, <2>1, AnswersKept
<1> HIDE DEF Moved
<1> QED BY <1>2, <1>3, <1>4, <1>5, <1>6, <1>7 DEF Next

\* The edits the relay answers for, and the timers that will save them.
LEMMA FineStep ==
    ASSUME NEW r, Solo(r), Next, ~late'
    PROVE  Fine(r)'
<1>0. Core /\ running = {r} /\ r \in running /\ TypeInd /\ MapsInd /\ AcceptedInd
  BY DEF Solo, Core
<1>1. CASE Joins \/ Leaves \/ Timer \/ Bus \/ Builds \/ WriteVersion \/ Shutdown
  <2>1. Plain(r) /\ kept' = kept /\ row' = row /\ version' = version
    BY <1>0, <1>1, PlainSteps DEF Plainly
  <2>2. Alone(r) /\ relay.inbox[r] = <<>>
    BY <2>1, SoloIs
  <2> QED BY <2>1, <2>2, PlainAlone
<1>2. CASE Receives
  <2>1. Receive(r) /\ row' = row /\ version' = version /\ relay.inbox[r] # <<>>
    BY <1>0, <1>2 DEF Receives, Receive
  <2> QED BY <2>1, SoloIs
<1>3. CASE Executes
  <2>1. Performs(r) /\ kept' = kept
    BY <1>0, <1>3, ExecutesPerforms DEF Same, ghosts
  <2>2. TimerInd(r) /\ KeptInd(r)
    BY DEF Solo
  <2>3. TimerInd(r)'
    BY <1>0, <2>1, <2>2, PerformsTimer
  <2>4. KeptInd(r)'
    BY <1>0, <2>1, <2>2, PerformsKept
  <2> QED BY <2>3, <2>4 DEF Fine
<1>4. CASE Edit
  BY <1>4, EditAlone
<1>5. CASE Replies
  <2> PICK st, n : st = Head(db[r]) /\ n = relay.documents[r]
    OBVIOUS
  <2>1. /\ Reply(r)
        /\ IF st.kind # "append" THEN UNCHANGED <<kept, late>>
               ELSE /\ kept' = kept \cap st.circuit
                    /\ late' = (late \/ /\ n # None
                                        /\ relay.lives[n].peers = {}
                                        /\ \E i \in DOMAIN db[r] :
                                              db[r][i].kind = "save" /\ db[r][i].live = n)
    BY <1>0, <1>5 DEF Replies
  <2>2. st.kind = "append" => kept' = kept \cap st.circuit /\ ~LeftSaved(r)
    BY <2>1 DEF LeftSaved
  <2>3. st.kind # "append" => kept' = kept
    BY <2>1
  <2> QED BY <2>1, <2>2, <2>3, ReplyAlone
<1>6. CASE Ends
  <2>1. CloseEnds(r) /\ kept' = kept
    BY <1>0, <1>6 DEF Ends, Same, ghosts
  <2> QED BY <2>1, EndsAlone
<1>7. CASE Faults
  BY <1>7, FaultsAlone
<1> QED BY <1>1, <1>2, <1>3, <1>4, <1>5, <1>6, <1>7 DEF Next

\* A version that was settled too late stays so.
LEMMA LateStays ==
    ASSUME TypeInd, Next, ~late'
    PROVE  ~late
<1>1. Same => late' = late
  BY DEF Same, ghosts
<1> QED BY <1>1 DEF TypeInd, Next, Joins, Leaves, Timer, Bus, Builds, Executes, Receives, Edit, Replies, WriteVersion,
       Shutdown, Ends, Faults

LEMMA SoloStep ==
    ASSUME Core, SoloInd, [Next]_vars
    PROVE  SoloInd'
<1>0. TypeInd /\ Core'
  BY CoreStep DEF Core
<1>1. CASE UNCHANGED vars
  <2>1. /\ row' = row /\ version' = version /\ db' = db /\ relay' = relay /\ kept' = kept /\ late' = late
        /\ deployed' = deployed
    BY <1>1 DEF vars, storeVars, registryVars, ghosts
  <2> QED BY <2>1 DEF SoloInd, AnswerInd, TimerInd, KeptInd, Has, MaySave, Armed, Of, running
<1>2. CASE Next
  <2>1. deployed' = deployed
    BY <1>2 DEF Next, Joins, Leaves, Timer, Bus, Builds, Executes, Receives, Edit, Replies, WriteVersion,
       Shutdown, Ends, Faults, Same, ghosts
  <2>2. running' = running
    BY <2>1, KeepsRunning
  <2>3. ASSUME NEW r \in Replicas, running = {r}
        PROVE  AnswerInd(r)' /\ (~late' => TimerInd(r)' /\ KeptInd(r)')
    <3>1. AnswerInd(r) /\ (~late => TimerInd(r) /\ KeptInd(r))
      BY <2>3 DEF SoloInd
    <3>2. AnswerInd(r)'
      BY <1>2, <2>3, <3>1, AnswersStep
    <3>3. ASSUME ~late'
          PROVE  Fine(r)'
      <4>1. ~late
        BY <1>0, <1>2, <3>3, LateStays
      <4>2. Solo(r)
        BY <1>0, <2>3, <3>1, <4>1 DEF Solo
      <4> QED BY <1>2, <3>3, <4>2, FineStep
    <3> QED BY <3>2, <3>3 DEF Fine
  <2> QED BY <2>2, <2>3 DEF SoloInd
<1> QED BY <1>1, <1>2

LEMMA SoloInit ==
    ASSUME Init
    PROVE  SoloInd
<1>1. kept = {} /\ \A r \in Replicas : db[r] = <<>>
  BY DEF Init, StoreInit
<1>2. /\ relay.lives = <<>> /\ \A r \in Replicas : relay.building[r] = None
  BY DEF Init, RegistryInit
<1>3. \A r \in Replicas : Of(r) = {} /\ DOMAIN db[r] = {}
  BY <1>1, <1>2 DEF Of
<1> QED BY <1>1, <1>3 DEF SoloInd, AnswerInd, TimerInd, KeptInd

------------------------------------------------------------------------------
(* An edit outlives everybody leaving.                                        *)

SystemInd == Core /\ SoloInd

\* Where nothing is on its way and nobody is there, what the relay answers for
\* is what is stored.
LEMMA SystemEdits ==
    ASSUME SystemInd
    PROVE  EditsOutliveTheSession
<1> SUFFICES ASSUME Asleep, Cardinality(running) = 1, ~late, NEW e \in kept
             PROVE  e \in Content(Seed)
  BY DEF EditsOutliveTheSession
<1>0. TypeInd /\ SoloInd
  BY DEF SystemInd, Core
<1>1. running # {}
  BY FS_EmptySet
<1> PICK r \in running : TRUE
  BY <1>1
<1>2. running = {r} /\ r \in Replicas
  BY <1>0, OnlyOne, RelayIs
<1>3. db[r] = <<>> /\ relay.documents[r] = None /\ KeptInd(r)
  BY <1>0, <1>2 DEF Asleep, SoloInd
<1>4. DOMAIN db[r] = {} /\ Len(db[r]) + 1 = 1 /\ db[r] \in Seq(Statements)
  BY <1>3, NoStatement
<1>5. Safe(db[r], e) /\ ~Armed(r)
  BY <1>3, <1>4 DEF Safe, Armed
<1>6. Has(r, e)
  BY <1>3, <1>5 DEF KeptInd
<1>7. Lasting(row, version, db[r], 1, e)
  BY <1>4, <1>5, <1>6 DEF Has
<1>8. e \in Content(SeedOf(row, version))
  BY <1>4, <1>7, LastingFirst
<1> QED BY <1>8 DEF SeedOf, Seed

\* What a lookup found is what is stored, and an edit the relay answers for is
\* in every document that may be saved and, before each lookup and at the end of
\* the queue, in what will be stored or in a document whose timer runs:
\* the order in which flush, detach, seed and appendVersion ask the store.
THEOREM SystemHolds == Spec => []SystemInd
<1>1. Init => SystemInd
  BY CoreInit, SoloInit DEF SystemInd
<1>2. SystemInd /\ [Next]_vars => SystemInd'
  BY CoreStep, SoloStep DEF SystemInd
<1> QED BY <1>1, <1>2, PTL DEF Spec

\* With one process, whatever saves, joins, versions, shutdowns and restarts
\* overlapped, the next session is seeded with every edit that was accepted and
\* that no version took back: flush, detach, teardown and seed of documents.ts.
THEOREM EditsHold == Spec => []EditsOutliveTheSession
<1>1. SystemInd => EditsOutliveTheSession
  BY SystemEdits
<1> QED BY <1>1, SystemHolds, PTL

==============================================================================
