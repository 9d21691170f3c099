--------------------------- MODULE CircuitDocument ---------------------------
(***************************************************************************)
(* A circuit inside a shared document (packages/collab/src/document.ts):   *)
(* a map of slots, each with the fields of one operation and the Lamport   *)
(* stamp it entered with, and the width of the register. Reading it as a   *)
(* circuit (project.ts) and writing a circuit into it as a difference      *)
(* (write.ts).                                                             *)
(*                                                                         *)
(* An operation is its id, the wires it occupies, its column, and `work`,  *)
(* which stands for the gate and its parameters: who made it. Labels,      *)
(* parameters, definitions and the classical register are left out, and    *)
(* with them what only the contract can refuse (settle). A classical bit   *)
(* is one more thing to occupy in a column.                                *)
(***************************************************************************)
EXTENDS Integers, Sequences, FiniteSets, SequencesExt

CONSTANTS
  SlotRank,      \* client -> its place in the order of the slot keys
  MaxQubits      \* MAX_QUBITS

------------------------------------------------------------------------------
(* What the shared document needs of a Y.Map (the library yjs, external).    *)
(* Every write of a key is put to the right of the write its author saw, and *)
(* concurrent writes of one key are put in the order of their clients; the   *)
(* rightmost is the value. So a write is known by the path of clients that   *)
(* leads to it, and the value of a key is the write whose path is last: a    *)
(* longer path extends what its author saw, and where two paths part the     *)
(* larger client wins. A deleted key stays deleted, and what was written     *)
(* into the map it held is gone with it.                                     *)

\* A key with a value: the path of its last write, and what was written.
Entry(client, value) == [path |-> <<client>>, value |-> value]

\* Y.Map.set, by somebody who sees `entry`.
Overwrite(entry, client, value) ==
  [path |-> Append(entry.path, client), value |-> value]

\* write.ts, setIfChanged: what is not a change is not written.
SetIfChanged(entry, client, value) ==
  IF entry.value = value THEN entry ELSE Overwrite(entry, client, value)

\* The path p is to the left of q.
Precedes(p, q) ==
  \/ IsStrictPrefix(p, q)
  \/ \E i \in DOMAIN p \cap DOMAIN q :
       /\ p[i] < q[i]
       /\ \A j \in 1 .. i - 1 : p[j] = q[j]

\* What two replicas of one key agree on.
Rightmost(one, other) ==
  IF Precedes(one.path, other.path) THEN other ELSE one

------------------------------------------------------------------------------
(* The document. *)

\* An id is a number, the op_N of the editor, and the slots a merge has put
\* behind it: <<4>> is op_4, and <<4, s>> is op_4#s.
PlainId(n) == <<n>>

\* A slot is <<client, k>>, the k-th of that client.
SlotPrecedes(s, t) ==
  \/ SlotRank[s[1]] < SlotRank[t[1]]
  \/ s[1] = t[1] /\ s[2] < t[2]

\* The replica of somebody who has received nothing.
Blank(qubits) == [qubits |-> qubits, slots |-> <<>>, gone |-> {}]

\* Y.applyUpdate with everything the other replica holds.
Merge(doc, other) ==
  LET gone == doc.gone \union other.gone
      live == (DOMAIN doc.slots \union DOMAIN other.slots) \ gone
      Both(f, g) ==
        [f EXCEPT !.id     = Rightmost(f.id, g.id),
                  !.wires  = Rightmost(f.wires, g.wires),
                  !.column = Rightmost(f.column, g.column)]
  IN [qubits |-> Rightmost(doc.qubits, other.qubits),
      gone   |-> gone,
      slots  |-> [s \in live |->
                    IF s \notin DOMAIN other.slots THEN doc.slots[s]
                    ELSE IF s \notin DOMAIN doc.slots THEN other.slots[s]
                    ELSE Both(doc.slots[s], other.slots[s])]]

\* slotMinter. The clock never goes back, so a key is never used again.
FreshSlot(doc, client) ==
  <<client, Cardinality({s \in DOMAIN doc.slots \union doc.gone : s[1] = client})>>

\* nextSeq: the highest stamp of a slot that is there, and one.
NextSeq(doc) == Max({0} \union {doc.slots[s].seq : s \in DOMAIN doc.slots}) + 1

------------------------------------------------------------------------------
(* Reading: projectCircuit. *)

\* readCandidates: every slot as an operation, in (seq, slot) order.
Candidates(doc) ==
  LET Earlier(s, t) ==
        \/ doc.slots[s].seq < doc.slots[t].seq
        \/ doc.slots[s].seq = doc.slots[t].seq /\ SlotPrecedes(s, t)
      Operation(s) == [id     |-> doc.slots[s].id.value,
                       work   |-> doc.slots[s].work,
                       wires  |-> doc.slots[s].wires.value,
                       column |-> doc.slots[s].column.value]
      order == SetToSortSeq(DOMAIN doc.slots, Earlier)
  IN [i \in DOMAIN order |-> [slot |-> order[i], op |-> Operation(order[i])]]

\* uniqueId: the slot behind the id, and a count behind that while it is taken.
UniqueId(id, slot, taken) ==
  LET Try(n) == IF n = 0 THEN Append(id, slot) ELSE Append(Append(id, slot), n)
      free == {n \in 0 .. Cardinality(taken) : Try(n) \notin taken}
  IN Try(Min(free))

\* renameDuplicateIds: every holder of a shared id is renamed.
RenameDuplicateIds(candidates) ==
  LET Holders(id) == {i \in DOMAIN candidates : candidates[i].op.id = id}
      Rename(seen, c) ==
        LET id == IF Cardinality(Holders(c.op.id)) = 1 /\ c.op.id \notin seen.taken
                  THEN c.op.id
                  ELSE UniqueId(c.op.id, c.slot, seen.taken)
        IN [taken |-> seen.taken \union {id},
            named |-> Append(seen.named, [c EXCEPT !.op.id = id])]
  IN FoldLeft(Rename, [taken |-> {}, named |-> <<>>], candidates).named

Overlap(a, b) == a.column = b.column /\ a.wires \cap b.wires # {}

Fits(op, qubits) == op.wires \subseteq 0 .. qubits - 1

\* placeCandidates: in order, what fits is placed and the rest is deferred.
PlaceCandidates(candidates, qubits) ==
  LET Blocked(placed, op) == \E i \in DOMAIN placed : Overlap(placed[i].op, op)
      Put(so, c) ==
        IF Fits(c.op, qubits) /\ ~Blocked(so.placed, c.op)
        THEN [so EXCEPT !.placed = Append(@, c)]
        ELSE [so EXCEPT !.deferred = @ \union {c}]
  IN FoldLeft(Put, [placed |-> <<>>, deferred |-> {}], candidates)

Projection(doc) ==
  LET qubits == doc.qubits.value
      read   == PlaceCandidates(RenameDuplicateIds(Candidates(doc)), qubits)
      placed == read.placed
      SlotOf(id) == CHOOSE s \in DOMAIN doc.slots :
                      \E i \in DOMAIN placed : placed[i].slot = s /\ placed[i].op.id = id
  IN [circuit  |-> [qubits |-> qubits,
                    ops    |-> [i \in DOMAIN placed |-> placed[i].op]],
      deferred |-> read.deferred,
      slots    |-> [id \in {placed[i].op.id : i \in DOMAIN placed} |-> SlotOf(id)]]

------------------------------------------------------------------------------
(* Circuits. *)

OpsOf(circuit) == {circuit.ops[i] : i \in DOMAIN circuit.ops}
IdsOf(circuit) == {op.id : op \in OpsOf(circuit)}

\* What the contract accepts (packages/schema/src/validate.ts): the register,
\* one operation per wire of a column, ids that are unique.
Legal(circuit) ==
  /\ circuit.qubits \in 1 .. MaxQubits
  /\ \A op \in OpsOf(circuit) : Fits(op, circuit.qubits)
  /\ \A i, j \in DOMAIN circuit.ops :
       i # j => /\ circuit.ops[i].id # circuit.ops[j].id
                /\ ~Overlap(circuit.ops[i], circuit.ops[j])

------------------------------------------------------------------------------
(* Writing: writeCircuit, the difference of a circuit and a projection. *)

Created(op, client, seq) ==
  [seq |-> seq, work |-> op.work, id |-> Entry(client, op.id),
   wires |-> Entry(client, op.wires), column |-> Entry(client, op.column)]

\* Mutant: an edit refreshes the stamp.
Restamped(fields, op, client) ==
  [fields EXCEPT !.seq    = @ + 1,
                 !.id     = SetIfChanged(@, client, op.id),
                 !.wires  = SetIfChanged(@, client, op.wires),
                 !.column = SetIfChanged(@, client, op.column)]

\* The stamp stays what it was when the operation entered.
Updated(fields, op, client) ==
  [fields EXCEPT !.id     = SetIfChanged(@, client, op.id),
                 !.wires  = SetIfChanged(@, client, op.wires),
                 !.column = SetIfChanged(@, client, op.column)]

\* The first loop of writeOperations. A slot the baseline does not know, or
\* that is gone, is made anew.
PutOperations(doc, client, circuit, baseline) ==
  LET Put(so, op) ==
        LET slot == IF op.id \in DOMAIN baseline.slots
                         /\ baseline.slots[op.id] \in DOMAIN so.doc.slots
                    THEN baseline.slots[op.id]
                    ELSE FreshSlot(so.doc, client)
        IN IF slot \in DOMAIN so.doc.slots
           THEN [so EXCEPT !.doc.slots[slot] = Updated(@, op, client)]
           ELSE [doc |-> [so.doc EXCEPT !.slots =
                            [s \in DOMAIN @ \union {slot} |->
                               IF s = slot THEN Created(op, client, so.seq) ELSE @[s]]],
                 seq |-> so.seq + 1]
  IN FoldLeft(Put, [doc |-> doc, seq |-> NextSeq(doc)], circuit.ops).doc

\* Mutant: everything the circuit lacks goes, what is held back included.
DoomedUnshown(circuit, baseline) ==
  {baseline.slots[id] : id \in DOMAIN baseline.slots \ IdsOf(circuit)}
    \union {held.slot : held \in baseline.deferred}

\* The second: only what the baseline placed and the circuit lacks.
Doomed(circuit, baseline) ==
  {baseline.slots[id] : id \in DOMAIN baseline.slots \ IdsOf(circuit)}

DeleteSlots(doc, slots) ==
  [doc EXCEPT !.gone  = @ \union slots,
              !.slots = [s \in DOMAIN @ \ slots |-> @[s]]]

WriteCircuit(doc, client, circuit, baseline) ==
  LET written == PutOperations(doc, client, circuit, baseline)
  IN DeleteSlots([written EXCEPT !.qubits = SetIfChanged(@, client, circuit.qubits)],
                 Doomed(circuit, baseline))

\* documentOf: a fresh document with this circuit in it.
DocumentOf(circuit, client) ==
  LET blank == Blank(Entry(client, circuit.qubits))
  IN WriteCircuit(blank, client, circuit, Projection(blank))

==============================================================================
