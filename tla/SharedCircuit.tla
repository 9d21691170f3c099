---------------------------- MODULE SharedCircuit ----------------------------
(***************************************************************************)
(* Several tabs that edit one saved circuit through the relay's document:  *)
(* each edits alone until it joins, carries in what the session has never  *)
(* seen, and from then on exchanges updates with the relay in any order    *)
(* and with any delay. A tab may be reloaded, and comes back with the      *)
(* draft its address holds and a client nobody has seen.                   *)
(*                                                                         *)
(* The relay is its replica: how it opens, saves and reopens it is         *)
(* DocumentSystem, and how a tab comes to be joined is CollabSession. An   *)
(* update is cumulative, so what a tab and the relay owe each other is     *)
(* the difference of their replicas and travels at any moment.             *)
(*                                                                         *)
(* `works`, `removed` and `seen` are history: the id each piece of work    *)
(* was placed under, the slots somebody deleted, and for every slot what   *)
(* its writer had received when it was written.                            *)
(***************************************************************************)
EXTENDS CircuitBridge, TLC

CONSTANTS
  Tabs,
  Relay,         \* the client of the relay's replica
  ClientsOf,     \* tab -> the clients it writes as, one per load
  Saved,         \* the version everybody opened
  Shapes,        \* the sets of wires a gate may be placed on or moved to
  Columns,
  MaxEdits       \* bound: how many edits there are in one behaviour

ASSUME SharedCircuitAssumption ==
  /\ Legal(Saved)
  /\ \A a, b \in Tabs : \A i \in DOMAIN ClientsOf[a], j \in DOMAIN ClientsOf[b] :
       ClientsOf[a][i] = ClientsOf[b][j] => a = b /\ i = j
  /\ MaxEdits \in Nat

VARIABLES session, tabs, loads, edits, works, removed, seen

vars == <<session, tabs, loads, edits, works, removed, seen>>

SavedWork == {op.work : op \in OpsOf(Saved)}

Init ==
  /\ session = DocumentOf(Saved, Relay)
  /\ tabs = [t \in Tabs |-> Opened(ClientsOf[t][1], Saved)]
  /\ loads = [t \in Tabs |-> 1]
  /\ edits = 0
  /\ works = <<>>
  /\ removed = {}
  /\ seen = <<>>

\* What tab t wrote, having received `doc`.
Witness(t, doc) ==
  LET new == DOMAIN tabs'[t].doc.slots \ DOMAIN doc.slots
  IN seen' = [s \in new |-> DOMAIN doc.slots] @@ seen

------------------------------------------------------------------------------
(* A user edits what the tab shows. *)

Edit(t, circuit, next) ==
  /\ edits < MaxEdits
  /\ Legal(circuit)
  /\ edits' = edits + 1
  /\ tabs' = [tabs EXCEPT ![t] = Commit(@, circuit, next)]
  /\ Witness(t, tabs[t].doc)
  /\ UNCHANGED <<session, loads>>

\* The slots a user takes away with these operations of a joined tab.
SlotsOf(t, ids) ==
  LET slots == Projection(tabs[t].doc).slots
  IN IF tabs[t].joined THEN {slots[id] : id \in ids} ELSE {}

Place(t, wires, column) ==
  /\ Edit(t, PlaceGate(tabs[t], Len(works) + 1, wires, column), TakenId(tabs[t]) + 1)
  /\ works' = Append(works, PlainId(TakenId(tabs[t])))
  /\ UNCHANGED removed

Move(t, op, wires, column) ==
  /\ <<wires, column>> # <<op.wires, op.column>>
  /\ Edit(t, MoveOperation(tabs[t].shown, op.id, wires, column), tabs[t].next)
  /\ UNCHANGED <<works, removed>>

Delete(t, op) ==
  /\ Edit(t, RemoveOperation(tabs[t].shown, op.id), tabs[t].next)
  /\ removed' = removed \union SlotsOf(t, {op.id})
  /\ UNCHANGED works

AddWire(t, at) ==
  /\ Edit(t, AddQubit(tabs[t].shown, at), tabs[t].next)
  /\ UNCHANGED <<works, removed>>

RemoveWire(t, at) ==
  /\ Edit(t, RemoveQubit(tabs[t].shown, at), tabs[t].next)
  /\ removed' = removed \union
       SlotsOf(t, {op.id : op \in {o \in OpsOf(tabs[t].shown) : at \in o.wires}})
  /\ UNCHANGED works

Edits(t) ==
  \/ \E wires \in Shapes, column \in Columns : Place(t, wires, column)
  \/ \E op \in OpsOf(tabs[t].shown), wires \in Shapes, column \in Columns :
       Move(t, op, wires, column)
  \/ \E op \in OpsOf(tabs[t].shown) : Delete(t, op)
  \/ \E at \in 0 .. tabs[t].shown.qubits : AddWire(t, at)
  \/ \E at \in 0 .. tabs[t].shown.qubits - 1 : RemoveWire(t, at)

------------------------------------------------------------------------------
(* The session. *)

\* joinedWith, the first time: the state the relay served, then the bridge.
Join(t) ==
  /\ ~tabs[t].joined
  /\ tabs' = [tabs EXCEPT ![t] = Attach(@, session, Saved)]
  /\ Witness(t, session)
  /\ UNCHANGED <<session, loads, edits, works, removed>>

\* What this tab made reaches the relay: sendUpdate, or reconcile on a join.
Send(t) ==
  /\ tabs[t].joined
  /\ Merge(session, tabs[t].doc) # session
  /\ session' = Merge(session, tabs[t].doc)
  /\ UNCHANGED <<tabs, loads, edits, works, removed, seen>>

\* What the others made reaches this tab: receive, and the bridge's onUpdate.
Receive(t) ==
  /\ tabs[t].joined
  /\ Merge(tabs[t].doc, session) # tabs[t].doc
  /\ tabs' = [tabs EXCEPT ![t] = Adopt(@, Merge(@.doc, session))]
  /\ UNCHANGED <<session, loads, edits, works, removed, seen>>

\* The tab is closed and its address opened again.
Reopen(t) ==
  /\ tabs[t].joined
  /\ loads[t] < Len(ClientsOf[t])
  /\ loads' = [loads EXCEPT ![t] = @ + 1]
  /\ tabs' = [tabs EXCEPT ![t] = Reload(@, ClientsOf[t][loads[t] + 1], Saved)]
  /\ UNCHANGED <<session, edits, works, removed, seen>>

Exchange == \E t \in Tabs : Join(t) \/ Send(t) \/ Receive(t)

Next == Exchange \/ \E t \in Tabs : Edits(t) \/ Reopen(t)

Spec == Init /\ [][Next]_vars

\* Somebody has not been answered or has something to hear: ENABLED Exchange.
Owed(t) ==
  \/ ~tabs[t].joined
  \/ Merge(session, tabs[t].doc) # session
  \/ Merge(tabs[t].doc, session) # tabs[t].doc

\* The relay answers a join and forwards updates, and a tab sends what it has:
\* WF_vars(Exchange), spelled out because TLC evaluates ENABLED by the steps.
FairSpec ==
  /\ Spec
  /\ ([]<>(\A t \in Tabs : ~Owed(t)) \/ []<><<Exchange>>_vars)

------------------------------------------------------------------------------
Replicas == {session} \union {tabs[t].doc : t \in {u \in Tabs : tabs[u].joined}}

WorkIn(doc) == {doc.slots[s].work : s \in DOMAIN doc.slots}

\* The id a piece of work entered the editor under.
IdOf(work) ==
  IF work \in DOMAIN works THEN works[work]
  ELSE (CHOOSE op \in OpsOf(Saved) : op.work = work).id

\* Somebody else's work went by the same id.
HasNamesake(work) ==
  \E other \in (DOMAIN works \union SavedWork) \ {work} : IdOf(other) = IdOf(work)

TypeOK ==
  /\ edits \in 0 .. MaxEdits
  /\ works \in Seq({PlainId(n) : n \in 1 .. MaxEdits + 2})
  /\ \A t \in Tabs : loads[t] \in DOMAIN ClientsOf[t]
  /\ \A doc \in Replicas : /\ doc.qubits.value \in 1 .. MaxQubits
                           /\ DOMAIN doc.slots \cap doc.gone = {}

\* Whatever was merged, what a replica says and a tab shows is a circuit the
\* contract accepts, and a joined tab shows what its replica says
\* (projectCircuit "returns a circuit the contract accepts, or it does not
\* return"; the two directions of the bridge).
ScreensAreTrue ==
  /\ \A doc \in Replicas : Legal(Projection(doc).circuit)
  /\ \A t \in Tabs :
       /\ Legal(tabs[t].shown)
       /\ tabs[t].next >= FirstFreeId(tabs[t].shown)
       /\ tabs[t].joined => tabs[t].shown = Projection(tabs[t].doc).circuit

\* No merge, carry or write out of a stale view takes away an operation: what
\* is gone from a replica is what somebody deleted looking at it. What is
\* saved and was deleted stays deleted, whoever comes back with an old draft,
\* unless its id was given twice.
OnlyUsersRemove ==
  \A doc \in Replicas :
    /\ doc.gone \subseteq removed
    /\ \A i \in DOMAIN Saved.ops :
         <<Relay, i - 1>> \in doc.gone /\ Saved.ops[i].work \in WorkIn(doc)
           => HasNamesake(Saved.ops[i].work)

\* A piece of work is in a document once, however often its tab came back
\* with it, unless its id was given twice.
NothingIsDoubled ==
  \A doc \in Replicas : \A s, other \in DOMAIN doc.slots :
    doc.slots[s].work = doc.slots[other].work /\ s # other => HasNamesake(doc.slots[s].work)

SharedCircuitInvariant ==
  TypeOK /\ ScreensAreTrue /\ OnlyUsersRemove /\ NothingIsDoubled

\* Attaching does not delete work the session has never seen: what a tab shows
\* when it joins is in its replica afterwards, unless the saved version had it
\* (somebody deleted it), another operation goes by its id, or some gate of
\* this tab wants a cell the session has given away (circuitDocument.ts,
\* withLocalWork).
Contested(t) ==
  LET held == Projection(session)
      local == LocalWork(held, tabs[t].shown, Saved)
  IN \E i \in DOMAIN local : \E op \in OpsOf(held.circuit) : Overlap(local[i], op)

WorkIsCarried ==
  [][\A t \in Tabs : ~tabs[t].joined /\ tabs'[t].joined =>
       \A op \in OpsOf(tabs[t].shown) :
         \/ op.work \in WorkIn(tabs'[t].doc)
         \/ op.work \in SavedWork
         \/ HasNamesake(op.work)
         \/ Contested(t)]_vars

\* What arrives late is what gets flagged: an operation that is held back on
\* some screen is held back by one whose writer had not seen it, and never
\* only by what was written over it (document.ts on seq: what was already in
\* the document "is never displaced by yours").
HadSeen(slot, other) == slot \in DOMAIN seen /\ other \in seen[slot]

OlderClaimsStand ==
  \A doc \in Replicas :
    LET read == Projection(doc) IN
    \A held \in read.deferred : Fits(held.op, read.circuit.qubits) =>
      \E op \in OpsOf(read.circuit) :
        Overlap(op, held.op) /\ ~HadSeen(read.slots[op.id], held.slot)

\* When the editing stops, every tab comes to show the circuit the session
\* holds.
StoresConverge ==
  <>[](\A t \in Tabs : tabs[t].joined /\ tabs[t].shown = Projection(session).circuit)

=============================================================================
