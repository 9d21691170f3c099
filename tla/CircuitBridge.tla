---------------------------- MODULE CircuitBridge ----------------------------
(***************************************************************************)
(* One tab of a shared circuit: the editor's store above, its replica of   *)
(* the document beneath, and the bridge between the two                    *)
(* (apps/web/src/features/collab/circuitDocument.ts, with the edits and    *)
(* the ids of features/circuit-editor/useCircuitStore.ts).                 *)
(*                                                                         *)
(* A tab is a record: the circuit it shows, the store's nextId, the        *)
(* replica and the client it writes as, and whether it has joined. Undo,   *)
(* definition detours and another circuit opened in the same tab are left  *)
(* out, and so is the branch that seeds an empty document: the relay       *)
(* never serves one.                                                       *)
(***************************************************************************)
EXTENDS CircuitDocument

\* firstFreeId: past every op_N there is; a renamed id is not one of them.
FirstFreeId(circuit) ==
  Max({0} \union {id[1] : id \in {i \in IdsOf(circuit) : Len(i) = 1}}) + 1

\* A tab that opened the saved circuit and has not joined yet.
Opened(client, circuit) ==
  [joined |-> FALSE, client |-> client, doc |-> Blank(Entry(client, circuit.qubits)),
   shown |-> circuit, next |-> FirstFreeId(circuit)]

------------------------------------------------------------------------------
(* The edits: the circuit each asks the store to commit. *)

\* idAllocator: the counter, past the ids that are taken.
TakenId(tab) ==
  Min({n \in tab.next .. tab.next + Len(tab.shown.ops) :
         PlainId(n) \notin IdsOf(tab.shown)})

WithOps(circuit, ops) == [circuit EXCEPT !.ops = ops]

\* placeGate
PlaceGate(tab, work, wires, column) ==
  WithOps(tab.shown,
          Append(tab.shown.ops, [id |-> PlainId(TakenId(tab)), work |-> work,
                                 wires |-> wires, column |-> column]))

\* moveOperation
MoveOperation(circuit, id, wires, column) ==
  LET Moved(op) == IF op.id # id THEN op
                   ELSE [op EXCEPT !.wires = wires, !.column = column]
  IN WithOps(circuit, [i \in DOMAIN circuit.ops |-> Moved(circuit.ops[i])])

\* removeOperations
RemoveOperation(circuit, id) ==
  WithOps(circuit, SelectSeq(circuit.ops, LAMBDA op : op.id # id))

Remapped(ops, map) ==
  [i \in DOMAIN ops |-> [ops[i] EXCEPT !.wires = {map[q] : q \in @}]]

\* addQubit: what stands below moves down one.
AddQubit(circuit, at) ==
  [qubits |-> circuit.qubits + 1,
   ops    |-> Remapped(circuit.ops, [q \in 0 .. circuit.qubits - 1 |-> IF q >= at THEN q + 1 ELSE q])]

\* removeQubit: what stood on the wire goes with it.
RemoveQubit(circuit, at) ==
  [qubits |-> circuit.qubits - 1,
   ops    |-> Remapped(SelectSeq(circuit.ops, LAMBDA op : at \notin op.wires),
                       [q \in 0 .. circuit.qubits - 1 |-> IF q > at THEN q - 1 ELSE q])]

------------------------------------------------------------------------------
(* The two directions. *)

\* adopt: the store takes what the document says, and nextId never falls.
Adopt(tab, doc) ==
  LET circuit == Projection(doc).circuit
  IN [tab EXCEPT !.doc = doc, !.shown = circuit,
                 !.next = Max({@, FirstFreeId(circuit)})]

\* Mutant: what the store committed is taken to be what the document says.
PublishOnly(tab, circuit) ==
  [tab EXCEPT !.doc = WriteCircuit(@, tab.client, circuit, Projection(@))]

\* publish: the projection the bridge holds is always the one of its replica.
Publish(tab, circuit) ==
  Adopt(tab, WriteCircuit(tab.doc, tab.client, circuit, Projection(tab.doc)))

\* commit, and the subscription of the bridge when there is one.
Commit(tab, circuit, next) ==
  LET committed == [tab EXCEPT !.shown = circuit, !.next = next]
  IN IF tab.joined THEN Publish(committed, circuit) ELSE committed

------------------------------------------------------------------------------
(* Attaching. *)

\* What the document holds, on the canvas or held back.
KnownIds(projection) ==
  DOMAIN projection.slots \union {held.op.id : held \in projection.deferred}

\* Of what the store shows: neither in the document nor in the saved version.
LocalWork(projection, shown, saved) ==
  SelectSeq(shown.ops,
            LAMBDA op : op.id \notin KnownIds(projection) \union IdsOf(saved))

\* withLocalWork before the contract is asked.
MergedWork(projection, shown, saved) ==
  LET local  == LocalWork(projection, shown, saved)
      needed == {q + 1 : q \in UNION {local[i].wires : i \in DOMAIN local}}
      added  == IF shown.qubits > saved.qubits THEN {shown.qubits} ELSE {}
      held   == projection.circuit
  IN [qubits |-> Max({held.qubits} \union needed \union added),
      ops    |-> held.ops \o local]

\* Mutant: the document wins outright, as in the first version.
AttachAdopting(tab, doc, saved) == Adopt([tab EXCEPT !.joined = TRUE], doc)

\* bridgeCircuitDocument over the document that arrived: carry, then adopt.
Attach(tab, doc, saved) ==
  LET merged == MergedWork(Projection(doc), tab.shown, saved)
      attached == [tab EXCEPT !.joined = TRUE]
  IN IF merged # Projection(doc).circuit /\ Legal(merged)
     THEN Adopt(attached, WriteCircuit(doc, tab.client, merged, Projection(doc)))
     ELSE Adopt(attached, doc)

\* A reload of the address the tab was left with: the draft is the URL, and an
\* empty circuit leaves none.
Reload(tab, client, saved) ==
  Opened(client, IF tab.shown.ops = <<>> THEN saved ELSE tab.shown)

==============================================================================
