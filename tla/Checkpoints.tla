---------------------------- MODULE Checkpoints ----------------------------
(***************************************************************************)
(* The incremental engine of packages/qsim/src/runner.ts: a cache of       *)
(* statevectors, each kept with the last column it has applied, and a run  *)
(* that resumes from the latest one still valid.                           *)
(*                                                                         *)
(* A column holds one number: 0 when it is empty, Measured when it holds a *)
(* measurement, and otherwise a value that tells its operations apart.  A  *)
(* statevector is known by the operations it went through, so two of them  *)
(* are equal exactly when the same columns were applied with the same      *)
(* operations.  The columns are those of the expanded circuit.             *)
(***************************************************************************)
EXTENDS Integers, FiniteSets, FiniteSetsExt, Functions

CONSTANTS
    Columns,    \* how many columns a circuit may have (MAX_COLUMNS)
    Interval,   \* columns between checkpoints
    Limit       \* checkpoints a cache keeps

ASSUME CheckpointsAssumption ==
    /\ Columns \in Nat \ {0}
    /\ Interval \in Nat \ {0}
    /\ Limit \in Nat \ {0}

Measured == -1
Column == 0 .. Columns - 1

\* planColumns: the columns a run visits, in ascending order.
Plan(circuit) == {c \in Column : circuit.col[c] # 0}
Index(plan, column) == Cardinality({c \in plan : c < column})

\* The state of a run that started from a state valid through column `start`
\* and has applied every column up to and including `through`.
Applied(start, circuit, through) ==
    [qubits |-> circuit.qubits,
     gates |-> start.state.gates \cup
        {<<c, circuit.col[c]>> : c \in {d \in Plan(circuit) : start.column < d /\ d <= through}}]

Ground == [column |-> -1, state |-> [qubits |-> 0, gates |-> {}]]

\* What a circuit holds after a column: what every resumed run has to equal.
StateAfter(circuit, column) == Applied(Ground, circuit, column)

-----------------------------------------------------------------------------
\* A cache maps the columns it holds to their states, for one register size.
EmptyCache == [qubits |-> 0, entries |-> [c \in {} |-> Ground.state]]

InvalidateFrom(cache, column) ==
    [cache EXCEPT !.entries = Restrict(@, {c \in DOMAIN @ : c < column})]

PrepareCache(cache, qubits) ==
    IF cache.qubits = qubits THEN cache ELSE [EmptyCache EXCEPT !.qubits = qubits]

\* Mutant: the checkpoint at the boundary is used too.
ResumeAtBoundary(cache, boundary) ==
    LET usable == {c \in DOMAIN cache.entries : c <= boundary}
    IN  IF usable = {} THEN Ground
        ELSE [column |-> Max(usable), state |-> cache.entries[Max(usable)]]

\* The latest checkpoint a run may use: it lies before the boundary.
Resume(cache, boundary) ==
    LET usable == {c \in DOMAIN cache.entries : c < boundary}
    IN  IF usable = {} THEN Ground
        ELSE [column |-> Max(usable), state |-> cache.entries[Max(usable)]]

\* An overfull cache keeps every second checkpoint and the last one, and of
\* those the last Limit.
Thin(columns) ==
    LET halved == {c \in columns : Index(columns, c) % 2 = 0 \/ c = Max(columns)}
    IN  IF Cardinality(columns) <= Limit THEN columns
        ELSE {c \in halved : Cardinality({d \in halved : d > c}) < Limit}

\* Where a run leaves a copy: every Interval columns, and before the last one.
Recorded(circuit, start, through) ==
    LET plan == Plan(circuit)
    IN  {c \in plan :
            /\ start < c /\ c <= through
            /\ \/ (Index(plan, c) + 1) % Interval = 0
               \/ Index(plan, c) = Cardinality(plan) - 2}

\* recordCheckpoint, column after column: a copy is stored and the cache is
\* thinned at once.  kept[n] is what is left of them after the first n columns.
Survivors(stored, recorded) ==
    LET kept[n \in 0 .. Columns] ==
            IF n = 0 THEN stored
            ELSE IF n - 1 \in recorded THEN Thin(kept[n - 1] \cup {n - 1})
            ELSE kept[n - 1]
    IN  kept[Columns]

\* evolve, as far as a column.
Evolve(cache, circuit, start, through) ==
    LET recorded == Recorded(circuit, start.column, through)
        stored == DOMAIN cache.entries
    IN  [cache EXCEPT !.entries =
            [c \in (stored \cup recorded) \cap Survivors(stored, recorded) |->
                IF c \in recorded THEN Applied(start, circuit, c) ELSE @[c]]]
=============================================================================
