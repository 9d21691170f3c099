--------------------------- MODULE MCSharedCircuit ---------------------------
(***************************************************************************)
(* SharedCircuit for TLC: two tabs over a saved circuit of one gate.       *)
(***************************************************************************)
EXTENDS SharedCircuit

CONSTANTS ana, beto

\* Clients on both sides of each other, and slot keys in the other order: a
\* client is a number, and its key is ordered as text.
MCClientsOf == ana :> <<2, 4>> @@ beto :> <<3>>
MCSlotRank == [c \in 0 .. 4 |-> 4 - c]

MCSaved ==
  [qubits |-> 2,
   ops |-> <<[id |-> PlainId(1), work |-> 0, wires |-> {0}, column |-> 0]>>]

MCShapes == {{1}, {0, 1}}

==============================================================================
