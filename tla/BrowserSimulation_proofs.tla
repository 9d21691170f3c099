---------------------- MODULE BrowserSimulation_proofs ----------------------
(***************************************************************************)
(* What BrowserSimulation states, proved for circuits of any size, caches  *)
(* of any interval and limit, and any number of edits and failures.        *)
(*                                                                         *)
(* The invariant speaks of everything that is on its way between the page, *)
(* its worker and the server: the requests still to be run, and what has   *)
(* been computed and not yet read.  Its heart is WarmInd: no request that  *)
(* may still run, whichever of the others are dropped, finds a checkpoint  *)
(* before the column it names that is not a state of its circuit.          *)
(***************************************************************************)
EXTENDS BrowserSimulation, FiniteSetTheorems, WellFoundedInduction, TLAPS

------------------------------------------------------------------------------
(* The kinds of everything. *)

Circuits == [qubits : Registers \cup {1}, col : [Column -> Contents \cup {1}]]
Questions == [circuit : Circuits, run : [mode : Modes, through : -1 .. Columns]]
States == [qubits : Registers \cup {0, 1}, gates : SUBSET (Column \X (Contents \cup {1}))]
Id == Nat \ {0}
Backends == {"worker", "server"}

Answers == [kind : Modes \cup {"error", "server"}, id : Id, question : Questions, state : States]
Requests == [kind : {"simulate"}, id : Id, question : Questions, fromColumn : 0 .. Columns, to : Backends]
Cancels == [kind : {"cancel"}, id : Id, to : Backends]

Messages == Requests \cup Cancels

Entries == UNION {[S -> States] : S \in SUBSET Column}
Caches == [qubits : Registers \cup {0, 1}, entries : Entries]
Workers == [cache : Caches, inbox : Requests \cup {NoRequest}, cancelledThrough : Nat,
            job : Answers \cup {NoJob}, dead : BOOLEAN]

Lives == [id : Id, question : Questions, stage : {"submitting", "watching"},
          polling : {"no", "armed", "reading"}]
Calls == [kind : {"submit", "poll", "feed"}, id : Id, question : Questions]

Scheds ==
  [pending : Questions \cup {NoQuestion}, timer : BOOLEAN, inFlight : Nat, on : Backends \cup {"none"},
   lastId : Nat, last : Questions \cup {NoQuestion}, dirty : 0 .. Columns, sinceDispatch : 0 .. Columns,
   outcome : Answers \cup {NoOutcome},
   failure : {"none", "worker-failed", "run-failed", "sampling-too-large", "too-many-qubits"},
   serverRun : {"none", "submitting", "watching"}, hasServer : Servers,
   cancel : Cancels \cup {NoMessage}, request : Requests \cup {NoMessage}]

------------------------------------------------------------------------------
(* What is on its way. *)

\* The requests that may still run, and what has been computed.
Asked(q) == {q[n] : n \in {m \in DOMAIN q : q[m].kind = "simulate"}}
Ordered(q) ==
  \A m, n \in DOMAIN q : m < n /\ q[m].kind = "simulate" /\ q[n].kind = "simulate" => q[m].id < q[n].id
Wanted(s, w, q) ==
  Asked(q) \cup ({w.inbox} \ {NoRequest}) \cup (IF s.request.to = "worker" THEN {s.request} ELSE {})
Done(w, o) == Range(o) \cup ({w.job} \ {NoJob})

\* Two circuits are one before a column, and a cache holds their states there.
Agree(a, b, k) == k > 0 => a.qubits = b.qubits /\ \A c \in Column : c < k => a.col[c] = b.col[c]
TrueOf(cache, circuit, k) ==
  cache.qubits = circuit.qubits =>
    \A c \in DOMAIN cache.entries : c < k => cache.entries[c] = StateAfter(circuit, c)

ExactAnswer(a) ==
  a.kind \in Modes => a.state = StateAfter(a.question.circuit, a.question.run.through)

------------------------------------------------------------------------------
(* The inductive invariant. *)

\* What the scheduler is by itself.
SchedInd(s) ==
  /\ s \in Scheds /\ s.last # NoQuestion
  /\ s.inFlight \in {0, s.lastId}
  /\ s.inFlight = 0 <=> s.on = "none"
  /\ s.pending \in {NoQuestion, s.last}
  /\ s.timer <=> s.pending # NoQuestion
  /\ s.dirty <= s.sinceDispatch
  /\ s.serverRun # "none" => s.on = "server"
  /\ s.request # NoMessage =>
       s.request.id = s.lastId /\ s.inFlight = s.lastId /\ s.on = s.request.to

\* What the worker holds is of its kind, older than what it is still to run,
\* and what it is still to run comes in the order it was asked for.
WorkerInd(s, w, q, o) ==
  /\ w \in Workers /\ q \in Seq(Messages) /\ o \in Seq(Answers)
  /\ Cardinality(DOMAIN w.cache.entries) <= Limit
  /\ Ordered(q)
  /\ \A r \in Wanted(s, w, q) : r.id <= s.lastId
  /\ \A a \in Done(w, o) : a.id <= s.lastId /\ a.kind # "server"
  /\ \A a \in Done(w, o), r \in Wanted(s, w, q) : a.id < r.id
  /\ \A r \in Asked(q) : w.inbox.id < r.id
  /\ \A r \in Asked(q) \cup {w.inbox} : s.request.to = "worker" => r.id < s.request.id

\* Whatever belongs to the request in flight is on the worker's side if that
\* runs it, is about a circuit that changed only since it was sent, and about
\* the one on the canvas if no other is scheduled.
FlightInd(s, w, q, o) ==
  \A x \in Wanted(s, w, q) \cup Done(w, o) : x.id = s.inFlight =>
    /\ s.on = "worker"
    /\ s.pending = NoQuestion => x.question = s.last
    /\ Agree(x.question.circuit, s.last.circuit, s.sinceDispatch)

\* No request finds a checkpoint that contradicts it, whichever run before it.
WarmInd(s, w, q) ==
  /\ TrueOf(w.cache, s.last.circuit, s.dirty)
  /\ \A r \in Wanted(s, w, q) :
       /\ TrueOf(w.cache, r.question.circuit, r.fromColumn)
       /\ Agree(r.question.circuit, s.last.circuit, s.dirty)
  /\ \A r1, r2 \in Wanted(s, w, q) :
       r1.id < r2.id => Agree(r1.question.circuit, r2.question.circuit, r2.fromColumn)

\* What was computed is exact, and the answer in flight left its cache behind.
ExactInd(s, w, o) ==
  \A a \in Done(w, o) :
    /\ ExactAnswer(a)
    /\ a.kind = "analytic" /\ a.id = s.inFlight => TrueOf(w.cache, a.question.circuit, Columns)

\* The run the server drives is the one in flight, or its cancel is out.
ServerInd(s, l, c) ==
  /\ l \in Lives \cup {NoLive} /\ c \in SUBSET Calls
  /\ l.id <= s.lastId /\ \A call \in c : call.id <= s.lastId
  /\ l # NoLive => \/ s.on = "server" /\ s.inFlight = l.id
                   \/ s.cancel.to = "server" /\ s.cancel.id = l.id
  /\ s.request.to = "server" => l.id < s.request.id /\ \A call \in c : call.id < s.request.id
  /\ \A x \in c \cup ({l} \ {NoLive}) \cup (IF s.request.to = "server" THEN {s.request} ELSE {}) :
       x.id = s.inFlight => s.on = "server" /\ (s.pending = NoQuestion => x.question = s.last)

\* What the panel shows is exact and, if it shows it as ready, is asked for.
PanelInd(s, g) ==
  /\ ExactAnswer(s.outcome)
  /\ g => s.pending = NoQuestion /\ s.inFlight = 0
  /\ ~g /\ s.pending = NoQuestion /\ s.inFlight = 0 /\ s.failure = "none" /\ s.outcome # NoOutcome =>
       s.outcome.question = s.last

Page(s, w, q, o) == WorkerInd(s, w, q, o) /\ FlightInd(s, w, q, o) /\ WarmInd(s, w, q) /\ ExactInd(s, w, o)
Sent(s, l, c, w, q, o) == SchedInd(s) /\ Page(s, w, q, o) /\ ServerInd(s, l, c)

IInv ==
  /\ sched.cancel = NoMessage /\ sched.request = NoMessage
  /\ Sent(sched, live, calls, worker, toWorker, toMain)
  /\ PanelInd(sched, given)
------------------------------------------------------------------------------
(* Columns. *)

\* A set of numbers has a least one.
LEMMA LeastIsThere ==
  ASSUME NEW S, S \subseteq Nat, S # {}
  PROVE  \E x \in S : \A y \in S : x <= y
<1>1. PICK x \in S : \A y \in S : ~ (<<y, x>> \in OpToRel(<, Nat))
  BY NatLessThanWellFounded, WFMin
<1>2. OpToRel(<, Nat) = {ss \in Nat \X Nat : ss[1] < ss[2]}
  BY DEF OpToRel
<1>3. \A y \in S : y < x => <<y, x>> \in OpToRel(<, Nat)
  BY <1>2
<1>4. \A y \in S : x <= y
  <2>1. \A y \in S : ~(y < x)
    BY <1>1, <1>3
  <2>2. x \in Nat /\ \A y \in S : y \in Nat
    OBVIOUS
  <2> QED BY <2>1, <2>2
<1> QED BY <1>4

\* Some columns have a last one.
LEMMA MaxFacts ==
  ASSUME NEW S, S \subseteq Column, S # {}
  PROVE  Max(S) \in S /\ \A y \in S : y <= Max(S)
<1>1. Columns \in Nat \ {0}
  BY CheckpointsAssumption
<1>2. PICK T : T = {Columns - 1 - c : c \in S}
  OBVIOUS
<1>3. T \subseteq Nat /\ T # {}
  <2>1. \A c \in S : c \in 0 .. Columns - 1
    BY DEF Column
  <2>2. \A c \in S : Columns - 1 - c \in Nat
    BY <1>1, <2>1
  <2> QED BY <1>2, <2>2
<1>4. PICK x \in T : \A y \in T : x <= y
  BY <1>3, LeastIsThere
<1>5. PICK m \in S : x = Columns - 1 - m
  BY <1>2
<1>6. ASSUME NEW y \in S PROVE m >= y
  <2>1. Columns - 1 - y \in T
    BY <1>2
  <2> QED BY <1>1, <1>4, <1>5, <2>1 DEF Column
<1>7. Max(S) \in S /\ \A y \in S : Max(S) >= y
  BY <1>6 DEF Max
<1> QED BY <1>1, <1>7 DEF Column

\* The first column that changed is a column, or none; before it nothing did.
LEMMA MinFacts ==
  ASSUME NEW S, S \subseteq 0 .. Columns, S # {}
  PROVE  Min(S) \in S /\ \A y \in S : Min(S) <= y
<1>1. Columns \in Nat \ {0}
  BY CheckpointsAssumption
<1>2. S \subseteq Nat
  BY <1>1
<1>3. PICK m \in S : \A y \in S : m <= y
  BY <1>2, LeastIsThere
<1> QED BY <1>3 DEF Min

\* Columns are finitely many.
LEMMA ColumnsAreFinite ==
  ASSUME NEW S, S \subseteq Column
  PROVE  IsFiniteSet(S) /\ Cardinality(S) \in Nat
<1>1. IsFiniteSet(Column)
  BY CheckpointsAssumption, FS_Interval DEF Column
<1> QED BY <1>1, FS_Subset, FS_CardinalityType

\* Thinning keeps some of the columns, and no more than the cache may hold.
LEMMA ThinFacts ==
  ASSUME NEW S, S \subseteq Column
  PROVE  Thin(S) \subseteq S /\ Cardinality(Thin(S)) <= Limit
<1>0. Columns \in Nat \ {0} /\ Limit \in Nat \ {0}
  BY CheckpointsAssumption
<1>1. PICK halved : halved = {c \in S : Index(S, c) % 2 = 0 \/ c = Max(S)}
  OBVIOUS
<1>2. halved \subseteq S
  BY <1>1
<1>3. PICK last : last = {c \in halved : Cardinality({d \in halved : d > c}) < Limit}
  OBVIOUS
<1>4. Thin(S) = IF Cardinality(S) <= Limit THEN S ELSE last
  BY <1>1, <1>3 DEF Thin
<1>5. Cardinality(last) <= Limit
  <2>1. CASE last = {}
    BY <1>0, <2>1, FS_EmptySet
  <2>2. CASE last # {}
    <3>1. last \subseteq Nat
      <4>1. Column \subseteq Nat
        BY <1>0 DEF Column
      <4> QED BY <1>2, <1>3, <4>1
    <3>2. PICK m \in last : \A y \in last : m <= y
      BY <2>2, <3>1, LeastIsThere
    <3>3. PICK above : above = {d \in halved : d > m}
      OBVIOUS
    <3>4. Cardinality(above) < Limit /\ above \subseteq Column
      BY <1>2, <1>3, <3>2, <3>3
    <3>5. last \subseteq above \cup {m}
      <4>1. ASSUME NEW y \in last, y # m PROVE y \in above
        <5>1. y \in halved /\ y \in Nat /\ m \in Nat /\ m <= y
          BY <1>3, <3>1, <3>2
        <5> QED BY <3>3, <4>1, <5>1
      <4> QED BY <4>1
    <3>6. IsFiniteSet(above) /\ Cardinality(above) \in Nat
      BY <3>4, ColumnsAreFinite
    <3>7. /\ IsFiniteSet(above \cup {m}) /\ Cardinality(above \cup {m}) \in Nat
          /\ Cardinality(above \cup {m}) <= Cardinality(above) + 1
      <4>1. /\ IsFiniteSet(above \cup {m})
            /\ Cardinality(above \cup {m}) = IF m \in above THEN Cardinality(above) ELSE Cardinality(above) + 1
        BY <3>6, FS_AddElement
      <4> QED BY <3>6, <4>1
    <3>8. Cardinality(last) <= Cardinality(above \cup {m}) /\ Cardinality(last) \in Nat
      BY <3>5, <3>7, FS_Subset, FS_CardinalityType
    <3> QED BY <1>0, <3>4, <3>6, <3>7, <3>8
  <2> QED BY <2>1, <2>2
<1>6. last \subseteq S
  BY <1>2, <1>3
<1> QED BY <1>4, <1>5, <1>6

\* What is left after some more columns, and the table of it.
Left(f, n, stored, recorded) ==
  IF n = 0 THEN stored
  ELSE IF n - 1 \in recorded THEN Thin(f[n - 1] \cup {n - 1})
  ELSE f[n - 1]
Tabled(f, k, stored, recorded) == f = [n \in 0 .. k |-> Left(f, n, stored, recorded)]

\* There is such a table, of every length.
LEMMA TableIsThere ==
  ASSUME NEW stored, NEW recorded, NEW k \in Nat
  PROVE  \E f : Tabled(f, k, stored, recorded)
<1>1. PICK Bad : Bad = {n \in Nat : ~ \E f : Tabled(f, n, stored, recorded)}
  OBVIOUS
<1>2. SUFFICES ASSUME Bad # {} PROVE FALSE
  BY <1>1
<1>3. PICK b \in Bad : \A y \in Bad : b <= y
  BY <1>1, <1>2, LeastIsThere
<1>4. b \in Nat /\ ~ \E f : Tabled(f, b, stored, recorded)
  BY <1>1, <1>3
<1>5. CASE b = 0
  <2>1. PICK f : f = [n \in 0 .. 0 |-> stored]
    OBVIOUS
  <2>2. f = [n \in 0 .. 0 |-> Left(f, n, stored, recorded)]
    BY <2>1 DEF Left
  <2> QED BY <1>4, <1>5, <2>2 DEF Tabled
<1>6. CASE b # 0
  <2>1. b - 1 \in Nat /\ b - 1 \notin Bad
    BY <1>3, <1>4, <1>6
  <2>2. PICK f : Tabled(f, b - 1, stored, recorded)
    BY <1>1, <2>1
  <2>3. PICK g : g = [n \in 0 .. b |-> IF n < b THEN f[n] ELSE Left(f, b, stored, recorded)]
    OBVIOUS
  <2>4. ASSUME NEW n \in 0 .. b PROVE g[n] = Left(g, n, stored, recorded)
    <3>1. n # 0 => g[n - 1] = f[n - 1]
      BY <1>4, <2>3, <2>4
    <3>2. Left(g, n, stored, recorded) = Left(f, n, stored, recorded)
      BY <3>1 DEF Left
    <3>3. CASE n < b
      <4>1. n \in 0 .. b - 1
        BY <1>4, <3>3
      <4>2. f[n] = Left(f, n, stored, recorded)
        BY <2>2, <4>1 DEF Tabled
      <4> QED BY <2>3, <3>2, <3>3, <4>2
    <3>4. CASE ~(n < b)
      <4>1. n = b
        BY <1>4, <3>4
      <4> QED BY <2>3, <3>2, <4>1, <3>4
    <3> QED BY <3>3, <3>4
  <2>5. g = [n \in 0 .. b |-> Left(g, n, stored, recorded)]
    BY <2>3, <2>4
  <2> QED BY <1>4, <2>5 DEF Tabled
<1> QED BY <1>5, <1>6

\* A cache that is thinned after every copy never holds too many.
LEMMA SurvivorsFacts ==
  ASSUME NEW stored, stored \subseteq Column, Cardinality(stored) <= Limit, NEW recorded
  PROVE  Survivors(stored, recorded) \subseteq Column /\ Cardinality(Survivors(stored, recorded)) <= Limit
<1>0. Columns \in Nat \ {0}
  BY CheckpointsAssumption
<1>1. PICK f : f = CHOOSE g : Tabled(g, Columns, stored, recorded)
  OBVIOUS
<1>2. Survivors(stored, recorded) = f[Columns]
  BY <1>1 DEF Survivors, Tabled, Left
<1>3. Tabled(f, Columns, stored, recorded)
  BY <1>0, <1>1, TableIsThere
<1>4. PICK Bad : Bad = {n \in 0 .. Columns : ~(f[n] \subseteq Column /\ Cardinality(f[n]) <= Limit)}
  OBVIOUS
<1>5. ASSUME Bad # {} PROVE FALSE
  <2>1. PICK b \in Bad : \A y \in Bad : b <= y
    BY <1>0, <1>4, <1>5, LeastIsThere
  <2>2. b \in 0 .. Columns /\ f[b] = Left(f, b, stored, recorded)
    BY <1>3, <1>4, <2>1 DEF Tabled
  <2>3. b # 0
    BY <1>4, <2>1, <2>2 DEF Left
  <2>4. b - 1 \in 0 .. Columns /\ b - 1 \notin Bad
    BY <1>0, <2>1, <2>2, <2>3
  <2>5. f[b - 1] \subseteq Column /\ Cardinality(f[b - 1]) <= Limit
    BY <1>4, <2>4
  <2>6. CASE b - 1 \in recorded
    <3>1. b - 1 \in Column
      BY <1>0, <2>2, <2>3 DEF Column
    <3>2. f[b] = Thin(f[b - 1] \cup {b - 1})
      BY <2>2, <2>3, <2>6 DEF Left
    <3>3. f[b] \subseteq Column /\ Cardinality(f[b]) <= Limit
      BY <2>5, <3>1, <3>2, ThinFacts
    <3> QED BY <1>4, <2>1, <3>3
  <2>7. CASE b - 1 \notin recorded
    <3>1. f[b] = f[b - 1]
      BY <2>2, <2>3, <2>7 DEF Left
    <3> QED BY <1>4, <2>1, <2>5, <3>1
  <2> QED BY <2>6, <2>7
<1>6. Columns \in 0 .. Columns /\ Columns \notin Bad
  BY <1>0, <1>5
<1> QED BY <1>2, <1>4, <1>6

------------------------------------------------------------------------------
(* Circuits, and the states they go through. *)

\* Circuits that agree with a third one agree.
LEMMA AgreeFacts ==
  ASSUME NEW a, NEW b, NEW k \in 0 .. Columns, NEW j \in 0 .. Columns
  PROVE  /\ Agree(a, a, k)
         /\ Agree(a, b, k) /\ j <= k => Agree(a, b, j)
         /\ \A c : Agree(a, b, k) /\ Agree(b, c, j) => Agree(a, c, Lowest(k, j))
<1>0. Columns \in Nat
  BY CheckpointsAssumption
<1>1. Agree(a, a, k)
  BY DEF Agree
<1>2. ASSUME Agree(a, b, k), j <= k PROVE Agree(a, b, j)
  BY <1>0, <1>2 DEF Agree, Column
<1>3. ASSUME NEW c, Agree(a, b, k), Agree(b, c, j) PROVE Agree(a, c, Lowest(k, j))
  <2>1. PICK m \in 0 .. Columns : m = Lowest(k, j) /\ m <= k /\ m <= j
    BY <1>0 DEF Lowest
  <2>2. CASE m = 0
    BY <2>1, <2>2 DEF Agree
  <2>3. CASE m # 0
    <3>1. k > 0 /\ j > 0 /\ m > 0
      BY <1>0, <2>1, <2>3
    <3>2. a.qubits = b.qubits /\ b.qubits = c.qubits
      BY <1>3, <3>1 DEF Agree
    <3>3. ASSUME NEW x \in Column, x < m PROVE a.col[x] = c.col[x]
      <4>1. x < k /\ x < j
        BY <1>0, <2>1, <3>3 DEF Column
      <4> QED BY <1>3, <3>1, <4>1 DEF Agree
    <3> QED BY <2>1, <3>2, <3>3 DEF Agree
  <2> QED BY <2>2, <2>3
<1> QED BY <1>1, <1>2, <1>3

\* Before the first column in which two circuits differ their states are one.
LEMMA SameStates ==
  ASSUME NEW a, NEW b, NEW k \in 0 .. Columns, Agree(a, b, k), NEW c \in Column, c < k
  PROVE  StateAfter(a, c) = StateAfter(b, c)
<1>0. Columns \in Nat
  BY CheckpointsAssumption
<1>1. k > 0
  BY <1>0 DEF Column
<1>2. a.qubits = b.qubits /\ \A d \in Column : d < k => a.col[d] = b.col[d]
  BY <1>1 DEF Agree
<1>3. \A d \in Column : d <= c => a.col[d] = b.col[d]
  BY <1>0, <1>2 DEF Column
<1>4. {d \in Plan(a) : -1 < d /\ d <= c} = {d \in Plan(b) : -1 < d /\ d <= c}
  BY <1>3 DEF Plan
<1>5. PICK S : S = {d \in Plan(a) : -1 < d /\ d <= c}
  OBVIOUS
<1>6. \A d \in S : d \in Column /\ d <= c
  BY <1>5 DEF Plan
<1>7. {<<d, a.col[d]>> : d \in S} = {<<d, b.col[d]>> : d \in S}
  BY <1>3, <1>6
<1> QED BY <1>2, <1>4, <1>5, <1>7 DEF StateAfter, Applied, Ground

\* A checkpoint that is true of one is true of the other.
LEMMA TrueMoves ==
  ASSUME NEW cache \in Caches, NEW a, NEW b, NEW k \in 0 .. Columns, Agree(a, b, k), TrueOf(cache, a, k)
  PROVE  TrueOf(cache, b, k)
<1>0. Columns \in Nat
  BY CheckpointsAssumption
<1>1. SUFFICES ASSUME cache.qubits = b.qubits, NEW c \in DOMAIN cache.entries, c < k
               PROVE  cache.entries[c] = StateAfter(b, c)
  BY DEF TrueOf
<1>2. c \in Column
  BY DEF Caches, Entries
<1>3. k > 0
  BY <1>0, <1>1, <1>2 DEF Column
<1>4. cache.qubits = a.qubits
  BY <1>1, <1>3 DEF Agree
<1>5. cache.entries[c] = StateAfter(a, c)
  BY <1>1, <1>4 DEF TrueOf
<1> QED BY <1>1, <1>2, <1>5, SameStates

\* Nothing changed before the first column that did.
LEMMA ChangedFacts ==
  ASSUME NEW p \in Questions, NEW q \in Questions, NEW k, k = EarliestChangedColumn(p, q)
  PROVE  /\ k \in 0 .. Columns /\ Agree(p.circuit, q.circuit, k)
         /\ k = Clean => p.circuit = q.circuit
<1>0. Columns \in Nat \ {0}
  BY CheckpointsAssumption
<1>1. PICK a \in Circuits : a = p.circuit
  BY DEF Questions
<1>2. PICK b \in Circuits : b = q.circuit
  BY DEF Questions
<1>3. CASE a.qubits # b.qubits
  <2>1. k = 0
    BY <1>1, <1>2, <1>3 DEF EarliestChangedColumn
  <2> QED BY <1>0, <2>1 DEF Agree, Clean
<1>4. CASE a.qubits = b.qubits
  <2>1. PICK S : S = {Clean} \cup {c \in Column : a.col[c] # b.col[c]}
    OBVIOUS
  <2>2. S \subseteq 0 .. Columns /\ S # {}
    BY <1>0, <2>1 DEF Clean, Column
  <2>3. k = Min(S)
    BY <1>1, <1>2, <1>4, <2>1 DEF EarliestChangedColumn
  <2>4. k \in S /\ \A y \in S : k <= y
    BY <2>2, <2>3, MinFacts
  <2>5. \A c \in Column : c < k => a.col[c] = b.col[c]
    BY <1>0, <2>1, <2>2, <2>4 DEF Column
  <2>6. k = Clean => \A c \in Column : a.col[c] = b.col[c]
    BY <1>0, <2>5 DEF Clean, Column
  <2>7. k = Clean => a.col = b.col
    BY <2>6 DEF Circuits
  <2>8. k = Clean => a = b
    BY <1>4, <2>7 DEF Circuits
  <2> QED BY <1>1, <1>2, <1>4, <2>2, <2>4, <2>5, <2>8 DEF Agree
<1> QED BY <1>3, <1>4

\* The state after a column is a state.
LEMMA StateKind ==
  ASSUME NEW circuit \in Circuits, NEW through, NEW start, start.state.gates \in SUBSET (Column \X (Contents \cup {1}))
  PROVE  Applied(start, circuit, through) \in States
<1>1. PICK S : S = {d \in Plan(circuit) : start.column < d /\ d <= through}
  OBVIOUS
<1>2. \A c \in S : <<c, circuit.col[c]>> \in Column \X (Contents \cup {1})
  BY <1>1 DEF Plan, Circuits
<1>3. PICK G : G = start.state.gates \cup {<<c, circuit.col[c]>> : c \in S}
  OBVIOUS
<1>4. G \in SUBSET (Column \X (Contents \cup {1}))
  BY <1>2, <1>3
<1>5. Applied(start, circuit, through) = [qubits |-> circuit.qubits, gates |-> G]
  BY <1>1, <1>3 DEF Applied
<1>6. circuit.qubits \in Registers \cup {0, 1}
  BY DEF Circuits
<1> QED BY <1>4, <1>5, <1>6 DEF States

\* And so is the one of a circuit as a whole.
LEMMA AfterKind ==
  ASSUME NEW circuit \in Circuits, NEW through
  PROVE  StateAfter(circuit, through) \in States
<1>1. Ground.state.gates \in SUBSET (Column \X (Contents \cup {1}))
  BY DEF Ground
<1> QED BY <1>1, StateKind DEF StateAfter

\* What a run may start from: nothing, or a state of its circuit.
Start0(start, circuit) ==
  start = Ground \/ (start.column \in Column /\ start.state = StateAfter(circuit, start.column))

\* Going on from there is going through the whole circuit.
LEMMA AppliedFacts ==
  ASSUME NEW circuit \in Circuits, NEW start, Start0(start, circuit), NEW through \in Int, start.column <= through
  PROVE  Applied(start, circuit, through) = StateAfter(circuit, through)
<1>1. CASE start = Ground
  BY <1>1 DEF StateAfter
<1>2. CASE start.column \in Column /\ start.state = StateAfter(circuit, start.column)
  <2>1. PICK k \in Column : k = start.column
    BY <1>2
  <2>2. k \in Int /\ -1 < k
    BY CheckpointsAssumption DEF Column
  <2>3. PICK A : A = {d \in Plan(circuit) : -1 < d /\ d <= k}
    OBVIOUS
  <2>4. PICK B : B = {d \in Plan(circuit) : k < d /\ d <= through}
    OBVIOUS
  <2>5. PICK C : C = {d \in Plan(circuit) : -1 < d /\ d <= through}
    OBVIOUS
  <2>6. Plan(circuit) \subseteq Int
    BY CheckpointsAssumption DEF Plan, Column
  <2>7. C = A \cup B
    BY <2>1, <2>2, <2>3, <2>4, <2>5, <2>6
  <2>8. start.state.gates = {<<c, circuit.col[c]>> : c \in A}
    BY <1>2, <2>1, <2>3 DEF StateAfter, Applied, Ground
  <2>9. {<<c, circuit.col[c]>> : c \in A} \cup {<<c, circuit.col[c]>> : c \in B} = {<<c, circuit.col[c]>> : c \in C}
    BY <2>7
  <2>10. Applied(start, circuit, through) = [qubits |-> circuit.qubits, gates |-> {<<c, circuit.col[c]>> : c \in C}]
    BY <2>1, <2>4, <2>8, <2>9 DEF Applied
  <2>11. StateAfter(circuit, through) = [qubits |-> circuit.qubits, gates |-> {<<c, circuit.col[c]>> : c \in C}]
    BY <2>5 DEF StateAfter, Applied, Ground
  <2> QED BY <2>10, <2>11
<1> QED BY <1>1, <1>2 DEF Start0

------------------------------------------------------------------------------
(* What a job leaves in the cache. *)

\* The checkpoint a run resumes from is a state of its circuit, and lies
\* before the boundary.
LEMMA ResumeFacts ==
  ASSUME NEW cache \in Caches, NEW circuit, cache.qubits = circuit.qubits, NEW k \in 0 .. Columns,
         TrueOf(cache, circuit, k), NEW start, start = Resume(cache, k)
  PROVE  Start0(start, circuit) /\ start.column < k
<1>0. Columns \in Nat /\ k \in Nat
  BY CheckpointsAssumption
<1>1. PICK usable : usable = {c \in DOMAIN cache.entries : c < k}
  OBVIOUS
<1>2. usable \subseteq Column
  BY <1>1 DEF Caches, Entries
<1>3. CASE usable = {}
  <2>1. start = Ground
    BY <1>1, <1>3 DEF Resume
  <2> QED BY <1>0, <2>1 DEF Start0, Ground
<1>4. CASE usable # {}
  <2>1. PICK c \in usable : c = Max(usable)
    BY <1>2, <1>4, MaxFacts
  <2>2. start = [column |-> c, state |-> cache.entries[c]]
    BY <1>1, <1>4, <2>1 DEF Resume
  <2>3. c \in Column /\ c \in DOMAIN cache.entries /\ c < k
    BY <1>1, <1>2
  <2>4. cache.entries[c] = StateAfter(circuit, c)
    BY <2>3 DEF TrueOf
  <2> QED BY <2>2, <2>3, <2>4 DEF Start0
<1> QED BY <1>3, <1>4

\* What dropping the stale checkpoints, and then those of another register,
\* makes of a cache.
Readied(cache, valid, ready, circuit) ==
  /\ valid \in Caches /\ Cardinality(DOMAIN valid.entries) <= Limit
  /\ ready \in Caches /\ Cardinality(DOMAIN ready.entries) <= Limit
  /\ ready.qubits = circuit.qubits /\ \A j : TrueOf(ready, circuit, j)
  /\ \A other, j : TrueOf(cache, other, j) => TrueOf(valid, other, j)

\* A cache that a request makes ready holds nothing but states of its circuit.
LEMMA ReadyFacts ==
  ASSUME NEW cache \in Caches, Cardinality(DOMAIN cache.entries) <= Limit, NEW circuit \in Circuits,
         NEW k \in 0 .. Columns, TrueOf(cache, circuit, k),
         NEW valid, valid = InvalidateFrom(cache, k), NEW ready, ready = PrepareCache(valid, circuit.qubits)
  PROVE  Readied(cache, valid, ready, circuit)
<1>0. Limit \in Nat
  BY CheckpointsAssumption
<1>1. PICK D \in SUBSET Column : D = DOMAIN cache.entries /\ cache.entries \in [D -> States]
  BY DEF Caches, Entries
<1>2. PICK S \in SUBSET D : S = {c \in D : c < k}
  OBVIOUS
<1>3. PICK e \in [S -> States] : e = [c \in S |-> cache.entries[c]]
  BY <1>1
<1>4. valid = [cache EXCEPT !.entries = e]
  BY <1>1, <1>2, <1>3 DEF InvalidateFrom, Restrict
<1>5. e \in Entries
  BY <1>3 DEF Entries
<1>6. valid \in Caches /\ valid.qubits = cache.qubits /\ valid.entries = e
  BY <1>4, <1>5 DEF Caches
<1>7. Cardinality(S) <= Limit
  <2>1. IsFiniteSet(D) /\ Cardinality(D) \in Nat /\ Cardinality(S) \in Nat
    BY ColumnsAreFinite
  <2>2. Cardinality(S) <= Cardinality(D)
    BY <2>1, FS_Subset
  <2> QED BY <1>0, <1>1, <2>1, <2>2
<1>8. ASSUME NEW other, NEW j, TrueOf(cache, other, j) PROVE TrueOf(valid, other, j)
  BY <1>1, <1>2, <1>3, <1>6, <1>8 DEF TrueOf
<1>9. \A j : valid.qubits = circuit.qubits => TrueOf(valid, circuit, j)
  BY <1>1, <1>2, <1>3, <1>6 DEF TrueOf
<1>10. CASE valid.qubits = circuit.qubits
  <2>1. ready = valid
    BY <1>10 DEF PrepareCache
  <2> QED BY <1>3, <1>6, <1>7, <1>8, <1>9, <1>10, <2>1 DEF Readied
<1>11. CASE valid.qubits # circuit.qubits
  <2>1. PICK none \in [{} -> States] : none = [c \in {} |-> Ground.state]
    OBVIOUS
  <2>2. ready = [qubits |-> circuit.qubits, entries |-> none]
    BY <1>11, <2>1 DEF PrepareCache, EmptyCache
  <2>3. none \in Entries
    BY <2>1 DEF Entries
  <2>4. ready \in Caches
    BY <2>2, <2>3 DEF Caches, Circuits
  <2>5. Cardinality(DOMAIN ready.entries) <= Limit
    BY <1>0, <2>1, <2>2, FS_EmptySet
  <2>6. \A j : TrueOf(ready, circuit, j)
    BY <2>1, <2>2 DEF TrueOf
  <2> QED BY <1>3, <1>6, <1>7, <1>8, <2>2, <2>4, <2>5, <2>6 DEF Readied
<1> QED BY <1>10, <1>11

\* And neither does the one a run leaves, however far it comes.
LEMMA EvolveFacts ==
  ASSUME NEW cache \in Caches, Cardinality(DOMAIN cache.entries) <= Limit, NEW circuit \in Circuits,
         cache.qubits = circuit.qubits, TrueOf(cache, circuit, Columns),
         NEW start, Start0(start, circuit), NEW through \in -1 .. Columns,
         NEW r, r = Evolve(cache, circuit, start, through)
  PROVE  r \in Caches /\ Cardinality(DOMAIN r.entries) <= Limit /\ TrueOf(r, circuit, Columns)
<1>0. Columns \in Nat /\ Limit \in Nat
  BY CheckpointsAssumption
<1>1. PICK D \in SUBSET Column : D = DOMAIN cache.entries /\ cache.entries \in [D -> States]
  BY DEF Caches, Entries
<1>2. PICK recorded : recorded = Recorded(circuit, start.column, through)
  OBVIOUS
<1>3. \A c \in recorded : c \in Column /\ start.column < c
  BY <1>2 DEF Recorded, Plan
<1>4. PICK left : left = Survivors(D, recorded)
  OBVIOUS
<1>5. left \subseteq Column /\ Cardinality(left) <= Limit
  BY <1>1, <1>4, SurvivorsFacts
<1>6. PICK S : S = (D \cup recorded) \cap left
  OBVIOUS
<1>7. S \in SUBSET left /\ S \in SUBSET Column
  BY <1>5, <1>6
<1>8. PICK e : e = [c \in S |-> IF c \in recorded THEN Applied(start, circuit, c) ELSE cache.entries[c]]
  OBVIOUS
<1>9. r = [cache EXCEPT !.entries = e]
  BY <1>1, <1>2, <1>4, <1>6, <1>8 DEF Evolve
<1>10. ASSUME NEW c \in S PROVE e[c] = StateAfter(circuit, c)
  <2>1. CASE c \in recorded
    <3>1. start.column <= c
      <4>1. start.column \in Int /\ c \in Int /\ start.column < c
        BY <1>0, <1>3, <2>1 DEF Start0, Ground, Column
      <4> QED BY <4>1
    <3>2. c \in Int
      BY <1>0, <1>3, <2>1 DEF Column
    <3>3. Applied(start, circuit, c) = StateAfter(circuit, c)
      BY <3>1, <3>2, AppliedFacts
    <3> QED BY <1>8, <1>10, <2>1, <3>3
  <2>2. CASE c \notin recorded
    <3>1. c \in D /\ c < Columns
      BY <1>0, <1>1, <1>6, <2>2 DEF Column
    <3>2. cache.entries[c] = StateAfter(circuit, c)
      BY <1>1, <3>1 DEF TrueOf
    <3> QED BY <1>8, <1>10, <2>2, <3>2
  <2> QED BY <2>1, <2>2
<1>11. e \in [S -> States]
  BY <1>8, <1>10, AfterKind
<1>12. e \in Entries
  BY <1>7, <1>11 DEF Entries
<1>13. r \in Caches /\ r.entries = e
  BY <1>9, <1>12 DEF Caches
<1>14. Cardinality(S) <= Limit
  <2>1. IsFiniteSet(left) /\ Cardinality(left) \in Nat /\ Cardinality(S) \in Nat
    BY <1>5, <1>7, ColumnsAreFinite
  <2>2. Cardinality(S) <= Cardinality(left)
    BY <1>7, <2>1, FS_Subset
  <2> QED BY <1>0, <1>5, <2>1, <2>2
<1> QED BY <1>8, <1>10, <1>13, <1>14 DEF TrueOf

\* What a job makes of a cache c that becomes d.
Cached(c, d, circuit, answer) ==
  /\ d \in Caches /\ Cardinality(DOMAIN d.entries) <= Limit
  /\ answer.kind = "analytic" => TrueOf(d, circuit, Columns)
  /\ \A other : \A k \in 0 .. Columns : TrueOf(c, other, k) /\ Agree(circuit, other, k) => TrueOf(d, other, k)

\* The answer of a job.
Answers0(answer, request) ==
  /\ answer \in Answers /\ answer.id = request.id /\ answer.question = request.question
  /\ answer.kind # "server" /\ ExactAnswer(answer)

\* A job that finds no checkpoint that contradicts it answers exactly, and
\* leaves none that contradicts whoever agrees with it.
LEMMA RunJobFacts ==
  ASSUME NEW cache \in Caches, Cardinality(DOMAIN cache.entries) <= Limit, NEW request \in Requests,
         TrueOf(cache, request.question.circuit, request.fromColumn), NEW breaksAt \in 0 .. Columns,
         NEW d, d = RunJob(cache, request, breaksAt)
  PROVE  Cached(cache, d.cache, request.question.circuit, d.answer) /\ Answers0(d.answer, request)
<1>0. Columns \in Nat
  BY CheckpointsAssumption
<1>1. PICK circuit \in Circuits : circuit = request.question.circuit
  BY DEF Requests, Questions
<1>2. PICK through \in -1 .. Columns : through = request.question.run.through
  BY DEF Requests, Questions
<1>3. PICK k \in 0 .. Columns : k = request.fromColumn
  BY DEF Requests
<1>4. PICK valid : valid = InvalidateFrom(cache, k)
  OBVIOUS
<1>5. PICK ready : ready = PrepareCache(valid, circuit.qubits)
  OBVIOUS
<1>6. /\ valid \in Caches /\ Cardinality(DOMAIN valid.entries) <= Limit
      /\ ready \in Caches /\ Cardinality(DOMAIN ready.entries) <= Limit
      /\ ready.qubits = circuit.qubits /\ \A j : TrueOf(ready, circuit, j)
      /\ \A other, j : TrueOf(cache, other, j) => TrueOf(valid, other, j)
  <2>1. TrueOf(cache, circuit, k)
    BY <1>1, <1>3
  <2>2. Readied(cache, valid, ready, circuit)
    BY <1>4, <1>5, <2>1, ReadyFacts
  <2> QED BY <2>2 DEF Readied
<1>7. ErrorFor(request) \in Answers /\ ErrorFor(request).kind = "error"
      /\ ErrorFor(request).id = request.id /\ ErrorFor(request).question = request.question
  BY DEF ErrorFor, Answers, Requests, Ground, States
<1>8. Answers0(ErrorFor(request), request)
  BY <1>7 DEF Answers0, ExactAnswer, Modes
<1>9. CASE request.question.run.mode = "trajectories"
  <2>1. /\ d.cache = cache
        /\ d.answer \in {ErrorFor(request), ResultFor(request, StateAfter(circuit, through))}
    BY <1>1, <1>2, <1>9 DEF RunJob
  <2>2. PICK state \in States : state = StateAfter(circuit, through)
    BY AfterKind
  <2>3. PICK a : a = ResultFor(request, state)
    OBVIOUS
  <2>4. /\ a.kind = "trajectories" /\ a.id = request.id /\ a.question = request.question /\ a.state = state
        /\ a \in Answers
    BY <1>9, <2>3 DEF ResultFor, Answers, Requests, Modes
  <2>5. Answers0(a, request)
    BY <1>1, <1>2, <2>2, <2>4 DEF Answers0, ExactAnswer
  <2>6. Answers0(d.answer, request) /\ d.answer.kind # "analytic"
    BY <1>7, <1>8, <2>1, <2>2, <2>3, <2>4, <2>5
  <2> QED BY <1>1, <2>1, <2>6 DEF Cached
<1>10. CASE request.question.run.mode # "trajectories" /\ RefusedAtOnce(request.question)
  <2>1. d.answer = ErrorFor(request) /\ d.cache \in {cache, valid}
    BY <1>1, <1>3, <1>4, <1>10 DEF RunJob
  <2> QED BY <1>6, <1>7, <1>8, <2>1 DEF Cached
<1>11. CASE request.question.run.mode # "trajectories" /\ ~RefusedAtOnce(request.question)
  <2>1. request.question.run.mode = "analytic"
    BY <1>11 DEF Requests, Questions, Modes
  <2>2. PICK b : b = IF through = Whole THEN k ELSE through + 1
    OBVIOUS
  <2>3. b \in 0 .. Columns /\ b <= through + 1 /\ (through = Whole => b <= through)
    BY <1>0, <2>2 DEF Whole
  <2>4. PICK start : start = Resume(ready, b)
    OBVIOUS
  <2>5. Start0(start, circuit) /\ start.column < b
    BY <1>6, <2>3, <2>4, ResumeFacts
  <2>6. PICK last : last = IF breaksAt < through THEN breaksAt ELSE through
    OBVIOUS
  <2>7. last \in -1 .. Columns
    BY <1>0, <2>6
  <2>8. PICK e : e = Evolve(ready, circuit, start, last)
    OBVIOUS
  <2>9. e \in Caches /\ Cardinality(DOMAIN e.entries) <= Limit /\ TrueOf(e, circuit, Columns)
    BY <1>6, <2>5, <2>7, <2>8, EvolveFacts
  <2>10. d.cache = e
    BY <1>1, <1>2, <1>3, <1>4, <1>5, <1>11, <2>2, <2>4, <2>6, <2>8 DEF RunJob
  <2>11. PICK state : state = Applied(start, circuit, through)
    OBVIOUS
  <2>12. d.answer \in {ErrorFor(request), ResultFor(request, state)}
    BY <1>1, <1>2, <1>3, <1>4, <1>5, <1>11, <2>2, <2>4, <2>11 DEF RunJob
  <2>13. state = StateAfter(circuit, through) /\ state \in States
    <3>1. start.column <= through
      <4>1. start.column \in Int
        BY <1>0, <2>5 DEF Start0, Ground, Column
      <4> QED BY <1>0, <2>3, <2>5, <4>1
    <3>2. through \in Int
      BY <1>0
    <3>3. state = StateAfter(circuit, through)
      BY <2>5, <2>11, <3>1, <3>2, AppliedFacts
    <3> QED BY <3>3, AfterKind
  <2>14. PICK a : a = ResultFor(request, state)
    OBVIOUS
  <2>15. /\ a.kind = "analytic" /\ a.id = request.id /\ a.question = request.question /\ a.state = state
         /\ a \in Answers
    BY <2>1, <2>13, <2>14 DEF ResultFor, Answers, Requests, Modes
  <2>16. Answers0(a, request)
    BY <1>1, <1>2, <2>13, <2>15 DEF Answers0, ExactAnswer
  <2>17. Answers0(d.answer, request)
    BY <1>8, <2>12, <2>14, <2>16
  <2>18. ASSUME NEW other, NEW j \in 0 .. Columns, Agree(circuit, other, j) PROVE TrueOf(e, other, j)
    <3>1. TrueOf(e, circuit, j)
      <4>1. DOMAIN e.entries \subseteq Column
        BY <2>9 DEF Caches, Entries
      <4>2. \A c \in DOMAIN e.entries : c < Columns
        BY <1>0, <4>1 DEF Column
      <4> QED BY <2>9, <4>2 DEF TrueOf
    <3> QED BY <2>9, <2>18, <3>1, TrueMoves
  <2> QED BY <1>1, <2>9, <2>10, <2>17, <2>18 DEF Cached
<1> QED BY <1>9, <1>10, <1>11

------------------------------------------------------------------------------
(* What is on its way, and comes. *)

\* The values of a sequence with one more, and of its tail.
LEMMA RangeFacts ==
  ASSUME NEW T, NEW u \in Seq(T)
  PROVE  /\ \A n \in DOMAIN u : u[n] \in T
         /\ \A a \in T : Append(u, a) \in Seq(T) /\ Range(Append(u, a)) = Range(u) \cup {a}
         /\ u # <<>> => /\ Tail(u) \in Seq(T) /\ Range(Tail(u)) \subseteq Range(u)
                        /\ Head(u) \in Range(u) /\ Head(u) \in T
<1>1. \A n \in DOMAIN u : u[n] \in T
  OBVIOUS
<1>2. ASSUME NEW a \in T PROVE Append(u, a) \in Seq(T) /\ Range(Append(u, a)) = Range(u) \cup {a}
  <2>0. PICK v : v = Append(u, a)
    OBVIOUS
  <2>1. v \in Seq(T) /\ v = Append(u, a)
    BY <2>0
  <2>2. /\ DOMAIN v = 1 .. Len(u) + 1 /\ DOMAIN u = 1 .. Len(u) /\ Len(u) \in Nat
        /\ v[Len(u) + 1] = a /\ \A n \in DOMAIN u : v[n] = u[n]
    BY <2>1
  <2>3. DOMAIN v = DOMAIN u \cup {Len(u) + 1}
    BY <2>2
  <2> QED BY <2>1, <2>2, <2>3 DEF Range
<1>3. ASSUME u # <<>>
      PROVE  /\ Tail(u) \in Seq(T) /\ Range(Tail(u)) \subseteq Range(u)
             /\ Head(u) \in Range(u) /\ Head(u) \in T
  <2>0. PICK v : v = Tail(u)
    OBVIOUS
  <2>1. v \in Seq(T) /\ v = Tail(u)
    BY <1>3, <2>0
  <2>2. Len(u) \in Nat /\ Len(u) # 0 /\ DOMAIN u = 1 .. Len(u) /\ Len(v) = Len(u) - 1 /\ DOMAIN v = 1 .. Len(v)
    BY <1>3, <2>1
  <2>3. \A n \in DOMAIN v : n + 1 \in DOMAIN u /\ v[n] = u[n + 1]
    BY <1>3, <2>1, <2>2
  <2>4. 1 \in DOMAIN u /\ Head(u) = u[1]
    BY <1>3, <2>2
  <2> QED BY <1>1, <2>1, <2>3, <2>4 DEF Range
<1> QED BY <1>1, <1>2, <1>3

\* The requests left when the first message is taken were asked for after it.
LEMMA AskedTail ==
  ASSUME NEW q \in Seq(Messages), q # <<>>, Ordered(q), NEW p, p = Tail(q)
  PROVE  /\ p \in Seq(Messages) /\ Ordered(p) /\ Asked(p) \subseteq Asked(q) /\ Head(q) \in Messages
         /\ Head(q).kind = "simulate" => Head(q) \in Asked(q) /\ \A r \in Asked(p) : Head(q).id < r.id
<1>1. p \in Seq(Messages) /\ Head(q) \in Messages
  BY RangeFacts
<1>2. Len(q) \in Nat /\ Len(q) # 0 /\ DOMAIN q = 1 .. Len(q) /\ Len(p) = Len(q) - 1 /\ DOMAIN p = 1 .. Len(p)
  BY <1>1
<1>3. \A n \in DOMAIN p : n + 1 \in DOMAIN q /\ p[n] = q[n + 1] /\ n \in Nat /\ 1 < n + 1
  BY <1>2
<1>4. 1 \in DOMAIN q /\ Head(q) = q[1]
  BY <1>2
<1>5. Asked(p) \subseteq Asked(q)
  BY <1>3 DEF Asked
<1>6. Ordered(p)
  <2>1. ASSUME NEW m \in DOMAIN p, NEW n \in DOMAIN p, m < n, p[m].kind = "simulate", p[n].kind = "simulate"
        PROVE  p[m].id < p[n].id
    <3>1. m + 1 < n + 1 /\ m + 1 \in DOMAIN q /\ n + 1 \in DOMAIN q
      BY <1>3, <2>1
    <3> QED BY <1>3, <2>1, <3>1 DEF Ordered
  <2> QED BY <2>1 DEF Ordered
<1>7. ASSUME Head(q).kind = "simulate" PROVE Head(q) \in Asked(q) /\ \A r \in Asked(p) : Head(q).id < r.id
  <2>1. Head(q) \in Asked(q)
    BY <1>4, <1>7 DEF Asked
  <2>2. ASSUME NEW r \in Asked(p) PROVE Head(q).id < r.id
    <3>1. PICK n \in DOMAIN p : r = p[n] /\ p[n].kind = "simulate"
      BY DEF Asked
    <3>2. n + 1 \in DOMAIN q /\ q[n + 1] = r /\ 1 < n + 1
      BY <1>3, <3>1
    <3> QED BY <1>4, <1>7, <3>1, <3>2 DEF Ordered
  <2> QED BY <2>1, <2>2
<1> QED BY <1>1, <1>5, <1>6, <1>7

\* What is posted comes after what was.
LEMMA PostedFacts ==
  ASSUME NEW q \in Seq(Messages), Ordered(q), NEW m \in Messages \cup {NoMessage},
         NEW A, A = IF m.to = "worker" /\ m.kind = "simulate" THEN {m} ELSE {},
         \A r \in Asked(q), x \in A : r.id < x.id, NEW p, p = q \o Posted(m)
  PROVE  p \in Seq(Messages) /\ Ordered(p) /\ Asked(p) = Asked(q) \cup A
<1>1. CASE m.to # "worker"
  <2>1. p = q /\ A = {}
    BY <1>1 DEF Posted
  <2> QED BY <2>1
<1>2. CASE m.to = "worker"
  <2>1. m \in Messages
    BY <1>2 DEF NoMessage
  <2>2. p = q \o <<m>>
    BY <1>2 DEF Posted
  <2>3. p \in Seq(Messages)
    BY <2>1, <2>2
  <2>4. Len(q) \in Nat /\ DOMAIN q = 1 .. Len(q) /\ DOMAIN p = 1 .. Len(q) + 1
    BY <2>1, <2>2
  <2>5. p[Len(q) + 1] = m /\ \A n \in DOMAIN q : p[n] = q[n]
    BY <2>1, <2>2, <2>4
  <2>6. DOMAIN p = DOMAIN q \cup {Len(q) + 1} /\ \A n \in DOMAIN q : n < Len(q) + 1
    BY <2>4
  <2>7. Asked(p) = Asked(q) \cup A
    BY <1>2, <2>5, <2>6 DEF Asked
  <2>8. ASSUME NEW k \in DOMAIN p, NEW n \in DOMAIN p, k < n, p[k].kind = "simulate", p[n].kind = "simulate"
        PROVE  p[k].id < p[n].id
    <3>1. k \in DOMAIN q
      BY <2>4, <2>8
    <3>2. CASE n \in DOMAIN q
      BY <2>5, <2>8, <3>1, <3>2 DEF Ordered
    <3>3. CASE n \notin DOMAIN q
      <4>1. p[n] = m /\ p[k] = q[k]
        BY <2>5, <2>6, <3>1, <3>3
      <4>2. p[k] \in Asked(q) /\ m \in A
        BY <1>2, <2>8, <3>1, <4>1 DEF Asked
      <4> QED BY <4>1, <4>2
    <3> QED BY <3>2, <3>3
  <2> QED BY <2>3, <2>7, <2>8 DEF Ordered
<1> QED BY <1>1, <1>2

------------------------------------------------------------------------------
(* The worker. *)

\* A request that is asked for is one.
LEMMA WantedFacts ==
  ASSUME NEW s \in Scheds, NEW w \in Workers, NEW q \in Seq(Messages)
  PROVE  Wanted(s, w, q) \subseteq Requests /\ Asked(q) \subseteq Requests
<1>1. Asked(q) \subseteq Requests
  BY RangeFacts DEF Asked, Messages, Cancels
<1>2. s.request.to = "worker" => s.request \in Requests
  BY DEF Scheds, NoMessage
<1>3. {w.inbox} \ {NoRequest} \subseteq Requests
  BY DEF Workers
<1> QED BY <1>1, <1>2, <1>3 DEF Wanted

\* What has been computed is an answer.
LEMMA DoneFacts ==
  ASSUME NEW w \in Workers, NEW o \in Seq(Answers)
  PROVE  Done(w, o) \subseteq Answers
<1>1. Range(o) \subseteq Answers
  BY RangeFacts DEF Range
<1>2. {w.job} \ {NoJob} \subseteq Answers
  BY DEF Workers
<1> QED BY <1>1, <1>2 DEF Done

\* A worker that runs nothing: the cache is as it was, and less is on its way.
Rests(s, w, q, o, v, p, u) ==
  /\ v \in Workers /\ p \in Seq(Messages) /\ u \in Seq(Answers)
  /\ v.cache = w.cache
  /\ Wanted(s, v, p) \subseteq Wanted(s, w, q) /\ Done(v, u) \subseteq Done(w, o)
  /\ Ordered(p) /\ \A r \in Asked(p) : v.inbox.id < r.id

\* Nothing else depends on it.
LEMMA RestKeeps ==
  ASSUME NEW s, NEW w, NEW q, NEW o, Page(s, w, q, o), s.request = NoMessage,
         NEW v, NEW p, NEW u, Rests(s, w, q, o, v, p, u)
  PROVE  Page(s, v, p, u)
<1>0. s.request.to # "worker"
  BY DEF NoMessage
<1>1. WorkerInd(s, v, p, u)
  BY <1>0 DEF Page, WorkerInd, Rests
<1>2. FlightInd(s, v, p, u)
  BY DEF Page, FlightInd, Rests
<1>3. WarmInd(s, v, p)
  BY DEF Page, WarmInd, Rests
<1>4. ExactInd(s, v, u)
  BY DEF Page, ExactInd, Rests
<1> QED BY <1>1, <1>2, <1>3, <1>4 DEF Page

\* A worker that runs m: what is still asked for was asked for later.
Runs(s, w, q, o, m, v, p, u) ==
  /\ v \in Workers /\ p \in Seq(Messages) /\ u \in Seq(Answers)
  /\ v.inbox = NoRequest
  /\ Cached(w.cache, v.cache, m.question.circuit, v.job) /\ Answers0(v.job, m)
  /\ m \in Wanted(s, w, q) /\ Asked(p) \subseteq Wanted(s, w, q) /\ Range(u) \subseteq Done(w, o)
  /\ Ordered(p) /\ \A r \in Asked(p) : m.id < r.id

\* No request it may still run finds a checkpoint that contradicts it.
LEMMA RunKeeps ==
  ASSUME NEW s \in Scheds, s.inFlight \in {0, s.lastId}, NEW w, NEW q, NEW o, Page(s, w, q, o),
         s.request = NoMessage, NEW m, NEW v, NEW p, NEW u, Runs(s, w, q, o, m, v, p, u)
  PROVE  Page(s, v, p, u)
<1>0. s.request.to # "worker" /\ w \in Workers /\ q \in Seq(Messages) /\ o \in Seq(Answers)
  BY DEF NoMessage, Page, WorkerInd
<1>1. Wanted(s, v, p) = Asked(p) /\ Asked(p) \subseteq Wanted(s, w, q) /\ m \in Wanted(s, w, q)
  BY <1>0 DEF Runs, Wanted
<1>2. Wanted(s, w, q) \subseteq Requests /\ Done(w, o) \subseteq Answers
  BY <1>0, WantedFacts, DoneFacts
<1>3. Done(v, u) \subseteq Range(u) \cup {v.job} /\ Range(u) \subseteq Done(w, o)
  BY DEF Done, Runs
<1>4. /\ v.job.id = m.id /\ v.job.question = m.question /\ v.job.kind # "server" /\ ExactAnswer(v.job)
      /\ v.job.kind = "analytic" => TrueOf(v.cache, m.question.circuit, Columns)
  BY DEF Runs, Answers0, Cached
<1>5. /\ \A r \in Wanted(s, w, q) : r.id <= s.lastId
      /\ \A a \in Done(w, o) : a.id <= s.lastId /\ a.kind # "server" /\ a.id < m.id
      /\ \A a \in Done(w, o), r \in Wanted(s, w, q) : a.id < r.id
  BY <1>1 DEF Page, WorkerInd
<1>6. WorkerInd(s, v, p, u)
  <2>1. \A r \in Asked(p) : v.inbox.id < r.id
    <3>1. \A r \in Asked(p) : r.id \in Nat \ {0}
      BY <1>1, <1>2 DEF Requests, Id
    <3>2. v.inbox.id = 0
      BY DEF Runs, NoRequest
    <3> QED BY <3>1, <3>2
  <2>2. \A r \in Asked(p) : m.id < r.id
    BY DEF Runs
  <2>3. \A a \in Done(v, u) : a.id <= s.lastId /\ a.kind # "server"
    BY <1>1, <1>3, <1>4, <1>5
  <2>4. \A a \in Done(v, u), r \in Asked(p) : a.id < r.id
    BY <1>1, <1>3, <1>4, <1>5, <2>2
  <2>5. Cardinality(DOMAIN v.cache.entries) <= Limit /\ Ordered(p)
        /\ v \in Workers /\ p \in Seq(Messages) /\ u \in Seq(Answers)
    BY DEF Runs, Cached
  <2>6. \A r \in Wanted(s, v, p) : r.id <= s.lastId
    BY <1>1, <1>5
  <2> QED BY <1>0, <1>1, <2>1, <2>3, <2>4, <2>5, <2>6 DEF WorkerInd
<1>7. FlightInd(s, v, p, u)
  <2>1. SUFFICES ASSUME NEW x \in Wanted(s, v, p) \cup Done(v, u), x.id = s.inFlight
                 PROVE  /\ s.on = "worker"
                        /\ s.pending = NoQuestion => x.question = s.last
                        /\ Agree(x.question.circuit, s.last.circuit, s.sinceDispatch)
    BY DEF FlightInd
  <2>2. PICK y \in Wanted(s, w, q) \cup Done(w, o) : y.id = x.id /\ y.question = x.question
    <3>1. CASE x = v.job
      BY <1>1, <1>4, <3>1
    <3>2. CASE x # v.job
      BY <1>1, <1>3, <3>2
    <3> QED BY <3>1, <3>2
  <2> QED BY <2>1, <2>2 DEF Page, FlightInd
<1>8. WarmInd(s, v, p)
  <2>1. PICK circuit : circuit = m.question.circuit
    OBVIOUS
  <2>2. \A other : \A k \in 0 .. Columns : TrueOf(w.cache, other, k) /\ Agree(circuit, other, k) => TrueOf(v.cache, other, k)
    BY <2>1 DEF Runs, Cached
  <2>3. TrueOf(v.cache, s.last.circuit, s.dirty)
    <3>1. s.dirty \in 0 .. Columns
      BY DEF Scheds
    <3>2. TrueOf(w.cache, s.last.circuit, s.dirty) /\ Agree(circuit, s.last.circuit, s.dirty)
      BY <1>1, <2>1 DEF Page, WarmInd
    <3> QED BY <2>2, <3>1, <3>2
  <2>4. ASSUME NEW r \in Asked(p) PROVE TrueOf(v.cache, r.question.circuit, r.fromColumn)
    <3>1. r.fromColumn \in 0 .. Columns
      BY <1>1, <1>2, <2>4 DEF Requests
    <3>2. TrueOf(w.cache, r.question.circuit, r.fromColumn)
      BY <1>1, <2>4 DEF Page, WarmInd
    <3>3. Agree(circuit, r.question.circuit, r.fromColumn)
      BY <1>1, <2>1, <2>4 DEF Page, WarmInd, Runs
    <3> QED BY <2>2, <3>1, <3>2, <3>3
  <2>5. /\ \A r \in Asked(p) : Agree(r.question.circuit, s.last.circuit, s.dirty)
        /\ \A r1, r2 \in Asked(p) : r1.id < r2.id => Agree(r1.question.circuit, r2.question.circuit, r2.fromColumn)
    BY <1>1 DEF Page, WarmInd
  <2> QED BY <1>1, <2>3, <2>4, <2>5 DEF WarmInd
<1>9. ExactInd(s, v, u)
  <2>1. ASSUME NEW a \in Range(u) PROVE ExactAnswer(a) /\ a.id # s.inFlight
    <3>1. a \in Done(w, o) /\ ExactAnswer(a)
      BY <1>3, <2>1 DEF Page, ExactInd
    <3>2. a.id \in Nat \ {0} /\ a.id < m.id /\ m.id <= s.lastId /\ m.id \in Nat /\ s.lastId \in Nat
      BY <1>1, <1>2, <1>5, <3>1 DEF Answers, Requests, Scheds, Id
    <3> QED BY <3>1, <3>2
  <2> QED BY <1>3, <1>4, <2>1 DEF ExactInd
<1> QED BY <1>6, <1>7, <1>8, <1>9 DEF Page

\* What a worker becomes that takes a request, or none.
Took(w, m, breaksAt, v) ==
  \/ v = [w EXCEPT !.inbox = NoRequest, !.job = NoJob]
  \/ /\ m \in Requests
     /\ \E d : d = RunJob(w.cache, m, breaksAt) /\ v = [w EXCEPT !.inbox = NoRequest, !.cache = d.cache, !.job = d.answer]

\* It takes nothing that was cancelled.
LEMMA TakeFacts ==
  ASSUME NEW w, NEW m \in Requests \cup {NoRequest}, NEW breaksAt, NEW v, v = Take(w, m, breaksAt)
  PROVE  Took(w, m, breaksAt, v)
<1>1. CASE m = NoRequest \/ m.id <= w.cancelledThrough
  BY <1>1 DEF Take, Took
<1>2. CASE ~(m = NoRequest \/ m.id <= w.cancelledThrough)
  BY <1>2 DEF Take, Took
<1> QED BY <1>1, <1>2

\* A worker that takes the next request, with what it computed before posted,
\* dropped or none.
LEMMA TakeKeeps ==
  ASSUME NEW s \in Scheds, s.inFlight \in {0, s.lastId}, s.request = NoMessage,
         NEW w, NEW q, NEW o, Page(s, w, q, o),
         NEW m \in Requests \cup {NoRequest}, m # NoRequest => m \in Wanted(s, w, q),
         NEW breaksAt \in 0 .. Columns, NEW v, Took(w, m, breaksAt, v),
         NEW p \in Seq(Messages), Ordered(p), Asked(p) \subseteq Wanted(s, w, q), \A r \in Asked(p) : m.id < r.id,
         NEW u \in Seq(Answers), Range(u) \subseteq Done(w, o)
  PROVE  Page(s, v, p, u)
<1>0. w \in Workers /\ q \in Seq(Messages) /\ s.request.to # "worker"
  BY DEF Page, WorkerInd, NoMessage
<1>1. CASE v = [w EXCEPT !.inbox = NoRequest, !.job = NoJob]
  <2>1. v \in Workers /\ v.inbox = NoRequest /\ v.job = NoJob /\ v.cache = w.cache
    BY <1>0, <1>1 DEF Workers
  <2>2. Wanted(s, v, p) = Asked(p) /\ Done(v, u) = Range(u)
    BY <1>0, <2>1 DEF Wanted, Done
  <2>3. \A r \in Asked(p) : v.inbox.id < r.id
    <3>1. \A r \in Asked(p) : r.id \in Nat \ {0}
      BY <1>0, WantedFacts DEF Requests, Id
    <3> QED BY <2>1, <3>1 DEF NoRequest
  <2>4. Rests(s, w, q, o, v, p, u)
    BY <2>1, <2>2, <2>3 DEF Rests
  <2> QED BY <2>4, RestKeeps
<1>2. CASE m \in Requests /\ \E d : d = RunJob(w.cache, m, breaksAt) /\ v = [w EXCEPT !.inbox = NoRequest, !.cache = d.cache, !.job = d.answer]
  <2>1. PICK d : d = RunJob(w.cache, m, breaksAt) /\ v = [w EXCEPT !.inbox = NoRequest, !.cache = d.cache, !.job = d.answer]
    BY <1>2
  <2>2. m \in Wanted(s, w, q)
    BY <1>2 DEF Requests, NoRequest
  <2>3. PICK cache \in Caches : cache = w.cache
    BY <1>0 DEF Workers
  <2>4. Cardinality(DOMAIN cache.entries) <= Limit
    BY <2>3 DEF Page, WorkerInd
  <2>5. TrueOf(cache, m.question.circuit, m.fromColumn)
    BY <2>2, <2>3 DEF Page, WarmInd
  <2>6. Cached(cache, d.cache, m.question.circuit, d.answer) /\ Answers0(d.answer, m)
    BY <1>2, <2>1, <2>3, <2>4, <2>5, RunJobFacts
  <2>7. d.cache \in Caches /\ d.answer \in Answers
    BY <2>6 DEF Cached, Answers0
  <2>8. v \in Workers /\ v.inbox = NoRequest /\ v.cache = d.cache /\ v.job = d.answer
    BY <1>0, <2>1, <2>7 DEF Workers
  <2>9. Runs(s, w, q, o, m, v, p, u)
    BY <2>2, <2>3, <2>6, <2>8 DEF Runs
  <2> QED BY <2>9, RunKeeps
<1> QED BY <1>1, <1>2 DEF Took

\* The worker handles a message.
LEMMA OnMessageKeeps ==
  ASSUME NEW s \in Scheds, s.inFlight \in {0, s.lastId}, s.request = NoMessage,
         Page(s, worker, toWorker, toMain), NEW breaksAt \in 0 .. Columns, OnMessage(breaksAt)
  PROVE  Page(s, worker', toWorker', toMain')
<1>1. PICK w \in Workers : w = worker
  BY DEF Page, WorkerInd
<1>2. PICK q \in Seq(Messages) : q = toWorker
  BY DEF Page, WorkerInd
<1>3. PICK o \in Seq(Answers) : o = toMain
  BY DEF Page, WorkerInd
<1>4. PICK p : p = Tail(q)
  OBVIOUS
<1>5. Ordered(q) /\ q # <<>> /\ Page(s, w, q, o)
  BY <1>1, <1>2, <1>3 DEF Page, WorkerInd, OnMessage
<1>6. /\ p \in Seq(Messages) /\ Ordered(p) /\ Asked(p) \subseteq Asked(q) /\ Head(q) \in Messages
      /\ Head(q).kind = "simulate" => Head(q) \in Asked(q) /\ \A r \in Asked(p) : Head(q).id < r.id
  BY <1>4, <1>5, AskedTail
<1>7. PICK m \in Messages : m = Head(q)
  BY <1>6
<1>8. toWorker' = p /\ toMain' = o
  BY <1>2, <1>3, <1>4 DEF OnMessage
<1>9. PICK v : v = worker'
  OBVIOUS
<1>10. Asked(q) \subseteq Wanted(s, w, q) /\ Range(o) \subseteq Done(w, o)
  BY DEF Wanted, Done
<1>11. CASE m.kind = "cancel"
  <2>1. v = [w EXCEPT !.cancelledThrough = IF @ < m.id THEN m.id ELSE @]
    BY <1>1, <1>2, <1>7, <1>9, <1>11 DEF OnMessage
  <2>2. m.id \in Nat
    BY <1>7 DEF Messages, Requests, Cancels, Id
  <2>3. v \in Workers /\ v.cache = w.cache /\ v.inbox = w.inbox /\ v.job = w.job
    BY <1>1, <2>1, <2>2 DEF Workers
  <2>4. Wanted(s, v, p) \subseteq Wanted(s, w, q) /\ Done(v, o) = Done(w, o)
    BY <1>6, <2>3 DEF Wanted, Done
  <2>5. \A r \in Asked(p) : v.inbox.id < r.id
    BY <1>5, <1>6, <2>3 DEF Page, WorkerInd
  <2>6. Rests(s, w, q, o, v, p, o)
    BY <1>3, <1>6, <2>3, <2>4, <2>5 DEF Rests
  <2> QED BY <1>5, <1>8, <1>9, <2>6, RestKeeps
<1>12. CASE m.kind # "cancel" /\ w.job = NoJob
  <2>1. m \in Requests /\ m \in Asked(q) /\ \A r \in Asked(p) : m.id < r.id
    BY <1>6, <1>7, <1>12 DEF Messages, Cancels, Requests
  <2>2. v = Take(w, m, breaksAt)
    BY <1>1, <1>2, <1>7, <1>9, <1>12 DEF OnMessage
  <2>3. Took(w, m, breaksAt, v)
    BY <2>1, <2>2, TakeFacts
  <2>4. m \in Wanted(s, w, q) /\ Asked(p) \subseteq Wanted(s, w, q)
    BY <1>6, <1>10, <2>1
  <2>5. Page(s, v, p, o)
    BY <1>3, <1>5, <1>6, <1>10, <2>1, <2>3, <2>4, TakeKeeps
  <2> QED BY <1>8, <1>9, <2>5
<1>13. CASE m.kind # "cancel" /\ w.job # NoJob
  <2>1. m \in Requests /\ m \in Asked(q) /\ \A r \in Asked(p) : m.id < r.id
    BY <1>6, <1>7, <1>13 DEF Messages, Cancels, Requests
  <2>2. v = [w EXCEPT !.inbox = m]
    BY <1>1, <1>2, <1>7, <1>9, <1>13 DEF OnMessage
  <2>3. v \in Workers /\ v.cache = w.cache /\ v.inbox = m /\ v.job = w.job
    BY <1>1, <2>1, <2>2 DEF Workers
  <2>4. Wanted(s, v, p) \subseteq Wanted(s, w, q) /\ Done(v, o) = Done(w, o)
    BY <1>6, <2>1, <2>3 DEF Wanted, Done
  <2>5. Rests(s, w, q, o, v, p, o)
    BY <1>3, <1>6, <2>1, <2>3, <2>4 DEF Rests
  <2> QED BY <1>5, <1>8, <1>9, <2>5, RestKeeps
<1> QED BY <1>11, <1>12, <1>13

\* The worker is done with a job, and takes what waited for it.
LEMMA AfterYieldKeeps ==
  ASSUME NEW s \in Scheds, s.inFlight \in {0, s.lastId}, s.request = NoMessage,
         Page(s, worker, toWorker, toMain), NEW breaksAt \in 0 .. Columns, AfterYield(breaksAt)
  PROVE  Page(s, worker', toWorker', toMain')
<1>1. PICK w \in Workers : w = worker
  BY DEF Page, WorkerInd
<1>2. PICK q \in Seq(Messages) : q = toWorker
  BY DEF Page, WorkerInd
<1>3. PICK o \in Seq(Answers) : o = toMain
  BY DEF Page, WorkerInd
<1>4. Page(s, w, q, o) /\ w.job # NoJob
  BY <1>1, <1>2, <1>3 DEF AfterYield
<1>5. PICK v : v = worker'
  OBVIOUS
<1>6. PICK u : u = toMain'
  OBVIOUS
<1>7. u \in {o, Append(o, w.job)} /\ v = Take(w, w.inbox, breaksAt) /\ toWorker' = q
  BY <1>1, <1>2, <1>3, <1>5, <1>6 DEF AfterYield
<1>8. PICK m \in Requests \cup {NoRequest} : m = w.inbox
  BY DEF Workers
<1>9. Took(w, m, breaksAt, v)
  BY <1>7, <1>8, TakeFacts
<1>10. w.job \in Answers
  BY <1>4 DEF Workers
<1>11. u \in Seq(Answers) /\ Range(u) \subseteq Range(o) \cup {w.job}
  <2>1. PICK a \in Answers : a = w.job
    BY <1>10
  <2>2. Append(o, a) \in Seq(Answers) /\ Range(Append(o, a)) = Range(o) \cup {a}
    BY RangeFacts
  <2> QED BY <1>7, <2>1, <2>2
<1>12. Range(u) \subseteq Done(w, o)
  BY <1>4, <1>11 DEF Done
<1>13. /\ m # NoRequest => m \in Wanted(s, w, q)
       /\ Asked(q) \subseteq Wanted(s, w, q)
  BY <1>8 DEF Wanted
<1>14. Ordered(q) /\ \A r \in Asked(q) : m.id < r.id
  BY <1>4, <1>8 DEF Page, WorkerInd
<1>15. Page(s, v, q, u)
  BY <1>2, <1>4, <1>9, <1>11, <1>12, <1>13, <1>14, TakeKeeps
<1> QED BY <1>5, <1>6, <1>7, <1>15

------------------------------------------------------------------------------
(* The scheduler. *)

\* Fewer columns are asked of.
LEMMA TrueLess ==
  ASSUME NEW cache \in Caches, NEW circuit, NEW k \in 0 .. Columns, NEW j \in 0 .. Columns,
         TrueOf(cache, circuit, k), j <= k
  PROVE  TrueOf(cache, circuit, j)
<1>1. \A c \in DOMAIN cache.entries : c \in Column
  BY DEF Caches, Entries
<1>2. \A c \in DOMAIN cache.entries : c < j => c < k
  BY <1>1, CheckpointsAssumption DEF Column
<1> QED BY <1>2 DEF TrueOf

\* What no method but Schedule and Dispatch touches.
Known(s, t) ==
  /\ t \in Scheds
  /\ t.lastId = s.lastId /\ t.last = s.last /\ t.hasServer = s.hasServer /\ t.request = s.request

\* The request in flight is given up, and nothing is in flight.
Idles(s, t) ==
  /\ Known(s, t) /\ t.dirty = s.dirty /\ t.sinceDispatch = s.sinceDispatch
  /\ t.inFlight = 0 /\ t.on = "none" /\ t.serverRun = "none"
  /\ t.pending \in {s.pending, NoQuestion} /\ (t.timer <=> t.pending # NoQuestion)
  /\ ExactAnswer(s.outcome) => ExactAnswer(t.outcome)

\* And the one that holds it is told.
Tells(s, t) ==
  t.cancel = IF s.inFlight = 0 THEN NoMessage ELSE [kind |-> "cancel", id |-> s.inFlight, to |-> s.on]

\* No outcome claims a state.
LEMMA NoOutcomeFacts == ExactAnswer(NoOutcome)
  BY DEF ExactAnswer, NoOutcome, Modes

\* disown gives up what is in flight, and tells.
LEMMA DisownFacts ==
  ASSUME NEW s, SchedInd(s), s.cancel = NoMessage, NEW t, t = Disown(s)
  PROVE  Idles(s, t) /\ Tells(s, t) /\ t.pending = s.pending /\ t.outcome = s.outcome /\ t.failure = s.failure
<1>1. s \in Scheds /\ (s.inFlight = 0 <=> s.on = "none") /\ (s.serverRun # "none" => s.on = "server")
      /\ (s.timer <=> s.pending # NoQuestion)
  BY DEF SchedInd
<1>2. CASE s.inFlight = 0
  <2>1. t = s
    BY <1>2 DEF Disown
  <2>2. t.on = "none" /\ t.serverRun = "none"
    BY <1>1, <1>2, <2>1
  <2> QED BY <1>1, <1>2, <2>1, <2>2 DEF Idles, Tells, Known
<1>3. CASE s.inFlight # 0
  <2>1. PICK m : m = [kind |-> "cancel", id |-> s.inFlight, to |-> s.on]
    OBVIOUS
  <2>2. m \in Cancels
    BY <1>1, <1>3, <2>1 DEF Cancels, Scheds, Id
  <2>3. PICK u : u = [s EXCEPT !.cancel = m, !.inFlight = 0]
    OBVIOUS
  <2>4. /\ u \in Scheds /\ u.cancel = m /\ u.inFlight = 0
        /\ u.pending = s.pending /\ u.timer = s.timer /\ u.lastId = s.lastId /\ u.last = s.last
        /\ u.dirty = s.dirty /\ u.sinceDispatch = s.sinceDispatch /\ u.outcome = s.outcome
        /\ u.failure = s.failure /\ u.hasServer = s.hasServer /\ u.request = s.request
    BY <1>1, <2>2, <2>3 DEF Scheds
  <2>5. t = [u EXCEPT !.on = "none", !.serverRun = "none"]
    BY <1>3, <2>1, <2>3 DEF Disown
  <2>6. /\ t \in Scheds /\ t.on = "none" /\ t.serverRun = "none"
        /\ t.cancel = m /\ t.inFlight = 0
        /\ t.pending = s.pending /\ t.timer = s.timer /\ t.lastId = s.lastId /\ t.last = s.last
        /\ t.dirty = s.dirty /\ t.sinceDispatch = s.sinceDispatch /\ t.outcome = s.outcome
        /\ t.failure = s.failure /\ t.hasServer = s.hasServer /\ t.request = s.request
    BY <2>4, <2>5 DEF Scheds
  <2> QED BY <1>1, <1>3, <2>1, <2>6 DEF Idles, Tells, Known
<1> QED BY <1>2, <1>3

\* A scheduler that gave up is one, and the worker's side is none the worse.
LEMMA IdlesKeeps ==
  ASSUME NEW s, SchedInd(s), s.request = NoMessage, NEW w, NEW q, NEW o, Page(s, w, q, o), NEW t, Idles(s, t)
  PROVE  SchedInd(t) /\ Page(t, w, q, o)
<1>0. s \in Scheds /\ t \in Scheds /\ w \in Workers /\ q \in Seq(Messages) /\ o \in Seq(Answers)
  BY DEF SchedInd, Page, WorkerInd, Idles, Known
<1>1. SchedInd(t)
  BY <1>0 DEF SchedInd, Idles, Known
<1>2. Wanted(t, w, q) = Wanted(s, w, q) /\ t.request = NoMessage /\ NoMessage.to = "none"
  BY DEF Wanted, Idles, Known, NoMessage
<1>3. Wanted(s, w, q) \subseteq Requests /\ Done(w, o) \subseteq Answers
  BY <1>0, WantedFacts, DoneFacts
<1>4. \A x \in Wanted(s, w, q) \cup Done(w, o) : x.id # t.inFlight
  BY <1>3 DEF Requests, Answers, Id, Idles
<1>5. WorkerInd(t, w, q, o)
  BY <1>2 DEF Page, WorkerInd, Idles, Known
<1>6. FlightInd(t, w, q, o)
  BY <1>2, <1>4 DEF FlightInd
<1>7. WarmInd(t, w, q)
  BY <1>2 DEF Page, WarmInd, Idles, Known
<1>8. ExactInd(t, w, o)
  BY <1>4 DEF Page, ExactInd
<1> QED BY <1>1, <1>5, <1>6, <1>7, <1>8 DEF Page

\* Nor is the server's side, if it is told or drives nothing any more.
LEMMA IdlesServes ==
  ASSUME NEW s, SchedInd(s), s.request = NoMessage, s.cancel = NoMessage,
         NEW l, NEW c, ServerInd(s, l, c), NEW t, Idles(s, t)
  PROVE  /\ Tells(s, t) => ServerInd(t, l, c)
         /\ ServerInd(t, NoLive, c)
<1>0. /\ s \in Scheds /\ t \in Scheds /\ l \in Lives \cup {NoLive} /\ c \in SUBSET Calls
      /\ t.request = NoMessage /\ t.lastId = s.lastId /\ t.inFlight = 0
  BY DEF SchedInd, ServerInd, Idles, Known
<1>1. \A call \in c : call.id # 0 /\ call.id <= s.lastId
  BY <1>0 DEF ServerInd, Calls, Id
<1>2. l # NoLive => l.id # 0 /\ s.on = "server" /\ s.inFlight = l.id
  BY <1>0 DEF ServerInd, Lives, Id, NoMessage
<1>3. NoMessage.to # "server" /\ NoLive.id = 0 /\ s.lastId \in Nat
  BY <1>0 DEF NoMessage, NoLive, Scheds
<1>4. ASSUME Tells(s, t) PROVE ServerInd(t, l, c)
  <2>1. l # NoLive => t.cancel.to = "server" /\ t.cancel.id = l.id
    BY <1>2, <1>4 DEF Tells
  <2>2. l.id <= t.lastId
    BY <1>0 DEF ServerInd
  <2>3. \A x \in c \cup ({l} \ {NoLive}) : x.id # t.inFlight
    BY <1>0, <1>1, <1>2
  <2> QED BY <1>0, <1>1, <1>3, <2>1, <2>2, <2>3 DEF ServerInd
<1>5. ServerInd(t, NoLive, c)
  BY <1>0, <1>1, <1>3 DEF ServerInd
<1> QED BY <1>4, <1>5


\* Nothing is scheduled any more.
LEMMA DropFacts ==
  ASSUME NEW s, SchedInd(s), NEW u, u = [s EXCEPT !.timer = FALSE, !.pending = NoQuestion]
  PROVE  /\ SchedInd(u) /\ Known(s, u) /\ u.pending = NoQuestion
         /\ u.dirty = s.dirty /\ u.sinceDispatch = s.sinceDispatch /\ u.inFlight = s.inFlight /\ u.on = s.on
         /\ u.outcome = s.outcome /\ u.failure = s.failure /\ u.cancel = s.cancel
<1>1. s \in Scheds
  BY DEF SchedInd
<1>2. /\ u \in Scheds /\ u.pending = NoQuestion /\ u.timer = FALSE
      /\ u.dirty = s.dirty /\ u.sinceDispatch = s.sinceDispatch /\ u.inFlight = s.inFlight /\ u.on = s.on
      /\ u.outcome = s.outcome /\ u.failure = s.failure /\ u.cancel = s.cancel
      /\ u.lastId = s.lastId /\ u.last = s.last /\ u.hasServer = s.hasServer /\ u.request = s.request
      /\ u.serverRun = s.serverRun
  BY <1>1 DEF Scheds
<1>3. SchedInd(u)
  BY <1>2 DEF SchedInd
<1> QED BY <1>2, <1>3 DEF Known

Failures == {"worker-failed", "run-failed", "sampling-too-large", "too-many-qubits"}

\* What was asked is refused: nothing is scheduled, in flight or shown.
LEMMA RefuseFacts ==
  ASSUME NEW s, SchedInd(s), s.cancel = NoMessage, NEW code \in Failures, NEW t, t = Refuse(s, code)
  PROVE  Idles(s, t) /\ Tells(s, t) /\ t.failure = code
<1>1. PICK u : u = [s EXCEPT !.timer = FALSE, !.pending = NoQuestion]
  OBVIOUS
<1>2. /\ SchedInd(u) /\ Known(s, u) /\ u.pending = NoQuestion
      /\ u.dirty = s.dirty /\ u.sinceDispatch = s.sinceDispatch /\ u.inFlight = s.inFlight /\ u.on = s.on
      /\ u.cancel = NoMessage
  BY <1>1, DropFacts
<1>3. PICK v : v = Disown(u)
  OBVIOUS
<1>4. Idles(u, v) /\ Tells(u, v) /\ v.pending = NoQuestion
  BY <1>2, <1>3, DisownFacts
<1>5. v \in Scheds /\ t = [v EXCEPT !.outcome = NoOutcome, !.failure = code]
  BY <1>1, <1>3, <1>4 DEF Idles, Known, Refuse
<1>6. /\ t \in Scheds /\ t.outcome = NoOutcome /\ t.failure = code
      /\ t.pending = v.pending /\ t.timer = v.timer /\ t.inFlight = v.inFlight /\ t.on = v.on
      /\ t.lastId = v.lastId /\ t.last = v.last /\ t.dirty = v.dirty /\ t.sinceDispatch = v.sinceDispatch
      /\ t.serverRun = v.serverRun /\ t.hasServer = v.hasServer /\ t.cancel = v.cancel /\ t.request = v.request
  BY <1>5 DEF Scheds, Failures
<1>7. Idles(s, t)
  BY <1>2, <1>4, <1>6, NoOutcomeFacts DEF Idles, Known
<1> QED BY <1>2, <1>4, <1>6, <1>7 DEF Tells

\* What runs has failed, unless that is what the panel says already.
LEMMA FailFacts ==
  ASSUME NEW s, SchedInd(s), s.cancel = NoMessage, NEW code \in Failures, NEW t, t = Fail(s, code)
  PROVE  \/ t = s
         \/ Idles(s, t) /\ Tells(s, t) /\ t.pending = s.pending /\ t.failure = code
<1>1. CASE s.inFlight = 0 /\ s.failure = code
  BY <1>1 DEF Fail
<1>2. CASE ~(s.inFlight = 0 /\ s.failure = code)
  <2>1. PICK v : v = Disown(s)
    OBVIOUS
  <2>2. Idles(s, v) /\ Tells(s, v) /\ v.pending = s.pending
    BY <2>1, DisownFacts
  <2>3. v \in Scheds /\ t = [v EXCEPT !.failure = code, !.outcome = NoOutcome]
    BY <1>2, <2>1, <2>2 DEF Idles, Known, Fail
  <2>4. /\ t \in Scheds /\ t.outcome = NoOutcome /\ t.failure = code
        /\ t.pending = v.pending /\ t.timer = v.timer /\ t.inFlight = v.inFlight /\ t.on = v.on
        /\ t.lastId = v.lastId /\ t.last = v.last /\ t.dirty = v.dirty /\ t.sinceDispatch = v.sinceDispatch
        /\ t.serverRun = v.serverRun /\ t.hasServer = v.hasServer /\ t.cancel = v.cancel /\ t.request = v.request
    BY <2>3 DEF Scheds, Failures
  <2>5. Idles(s, t)
    BY <2>2, <2>4, NoOutcomeFacts DEF Idles, Known
  <2> QED BY <2>2, <2>4, <2>5 DEF Tells
<1> QED BY <1>1, <1>2

\* The reader gave up: nothing is scheduled or in flight.
LEMMA CancelFacts ==
  ASSUME NEW s, SchedInd(s), s.cancel = NoMessage, NEW t, t = Cancel(s)
  PROVE  Idles(s, t) /\ Tells(s, t) /\ t.pending = NoQuestion
<1>1. PICK u : u = [s EXCEPT !.timer = FALSE, !.pending = NoQuestion]
  OBVIOUS
<1>2. /\ SchedInd(u) /\ Known(s, u) /\ u.pending = NoQuestion
      /\ u.dirty = s.dirty /\ u.sinceDispatch = s.sinceDispatch /\ u.inFlight = s.inFlight /\ u.on = s.on
      /\ u.cancel = NoMessage /\ u.outcome = s.outcome
  BY <1>1, DropFacts
<1>3. t = Disown(u)
  BY <1>1 DEF Cancel
<1>4. Idles(u, t) /\ Tells(u, t) /\ t.pending = NoQuestion
  BY <1>2, <1>3, DisownFacts
<1>5. Idles(s, t)
  BY <1>2, <1>4 DEF Idles, Known
<1> QED BY <1>2, <1>4, <1>5 DEF Tells

\* What a dispatch makes of the scheduler: r is sent and in flight.
Sends(s, t, r) ==
  /\ t \in Scheds /\ r \in Requests /\ t.request = r
  /\ r.id = s.lastId + 1 /\ r.question = s.pending /\ r.fromColumn = s.dirty
  /\ t.lastId = s.lastId + 1 /\ t.inFlight = s.lastId + 1 /\ t.on = r.to
  /\ t.pending = NoQuestion /\ ~t.timer /\ t.sinceDispatch = Columns
  /\ t.dirty = s.dirty /\ t.last = s.last /\ t.outcome = s.outcome /\ t.hasServer = s.hasServer
  /\ t.serverRun # "none" => t.on = "server"

\* A scheduled question is dispatched.
LEMMA DispatchFacts ==
  ASSUME NEW s, SchedInd(s), s.cancel = NoMessage, s.pending # NoQuestion, NEW t, t = Dispatch(s)
  PROVE  Tells(s, t) /\ \E r : Sends(s, t, r)
<1>0. s \in Scheds /\ s.lastId \in Nat /\ Columns \in Nat /\ s.pending \in Questions
  BY CheckpointsAssumption DEF SchedInd, Scheds
<1>1. PICK backend \in Backends : backend = IF NeedsServer(s.pending) THEN "server" ELSE "worker"
  BY DEF Backends
<1>2. PICK f : f = Disown(s)
  OBVIOUS
<1>3. Idles(s, f) /\ Tells(s, f) /\ f.outcome = s.outcome
  BY <1>2, DisownFacts
<1>4. PICK r : r = Request(s, backend)
  OBVIOUS
<1>5. /\ r \in Requests /\ r.id = s.lastId + 1 /\ r.question = s.pending /\ r.fromColumn = s.dirty /\ r.to = backend
  BY <1>0, <1>1, <1>4 DEF Request, Requests, Id, Scheds
<1>6. PICK run \in {"none", "submitting"} : run = IF backend = "server" THEN "submitting" ELSE "none"
  OBVIOUS
<1>7. PICK next \in Nat : next = s.lastId + 1
  BY <1>0
<1>8. PICK all \in 0 .. Columns : all = Columns
  BY <1>0
<1>9. f \in Scheds /\ f.lastId = s.lastId /\ f.last = s.last /\ f.dirty = s.dirty /\ f.hasServer = s.hasServer
  BY <1>3 DEF Idles, Known
<1>10. PICK g : g = [f EXCEPT !.timer = FALSE, !.lastId = next]
  OBVIOUS
<1>11. /\ g \in Scheds /\ g.timer = FALSE /\ g.lastId = next
      /\ g.last = f.last /\ g.dirty = f.dirty /\ g.outcome = f.outcome /\ g.hasServer = f.hasServer
      /\ g.cancel = f.cancel
  BY <1>9, <1>10 DEF Scheds
<1>12. PICK h : h = [g EXCEPT !.inFlight = next, !.on = backend]
  OBVIOUS
<1>13. /\ h \in Scheds /\ h.timer = FALSE /\ h.lastId = next /\ h.inFlight = next /\ h.on = backend
       /\ h.last = f.last /\ h.dirty = f.dirty /\ h.outcome = f.outcome /\ h.hasServer = f.hasServer
       /\ h.cancel = f.cancel
  BY <1>11, <1>12 DEF Scheds
<1>14. PICK i : i = [h EXCEPT !.pending = NoQuestion, !.sinceDispatch = all]
  OBVIOUS
<1>15. /\ i \in Scheds /\ i.timer = FALSE /\ i.lastId = next /\ i.inFlight = next /\ i.on = backend
       /\ i.pending = NoQuestion /\ i.sinceDispatch = all
       /\ i.last = f.last /\ i.dirty = f.dirty /\ i.outcome = f.outcome /\ i.hasServer = f.hasServer
       /\ i.cancel = f.cancel
  BY <1>13, <1>14 DEF Scheds
<1>16. t = [i EXCEPT !.serverRun = run, !.request = r]
  BY <1>1, <1>2, <1>4, <1>6, <1>9, <1>10, <1>12, <1>14, <1>7, <1>8 DEF Dispatch, Clean
<1>17. /\ t \in Scheds /\ t.timer = FALSE /\ t.lastId = next /\ t.inFlight = next /\ t.on = backend
       /\ t.pending = NoQuestion /\ t.sinceDispatch = all /\ t.serverRun = run /\ t.request = r
       /\ t.last = f.last /\ t.dirty = f.dirty /\ t.outcome = f.outcome /\ t.hasServer = f.hasServer
       /\ t.cancel = f.cancel
  BY <1>5, <1>15, <1>16 DEF Scheds
<1>18. Sends(s, t, r)
  BY <1>3, <1>5, <1>6, <1>9, <1>17, <1>7, <1>8 DEF Sends
<1> QED BY <1>3, <1>17, <1>18 DEF Tells


\* A request that is sent finds its checkpoints as the editor left them.
LEMMA SendsKeeps ==
  ASSUME NEW s, SchedInd(s), s.request = NoMessage, s.pending # NoQuestion,
         NEW w, NEW q, NEW o, Page(s, w, q, o), NEW t, NEW r, Sends(s, t, r)
  PROVE  SchedInd(t) /\ Page(t, w, q, o)
<1>0. /\ s \in Scheds /\ t \in Scheds /\ w \in Workers /\ q \in Seq(Messages) /\ o \in Seq(Answers)
      /\ s.lastId \in Nat /\ Columns \in Nat /\ r \in Requests /\ s.dirty \in 0 .. Columns
  BY CheckpointsAssumption DEF SchedInd, Page, WorkerInd, Sends, Scheds
<1>1. s.last \in Questions /\ s.pending = s.last /\ r.question = s.last /\ t.last = s.last /\ t.dirty = s.dirty
  BY <1>0 DEF SchedInd, Sends, Scheds
<1>2. PICK next \in Nat : next = s.lastId + 1 /\ s.lastId < next /\ next # 0
  BY <1>0
<1>3. t.lastId = next /\ t.inFlight = next /\ r.id = next /\ t.on = r.to /\ t.request = r
  BY <1>2 DEF Sends
<1>4. SchedInd(t)
  <2>1. t.dirty <= t.sinceDispatch
    BY <1>0, <1>1 DEF Sends
  <2>2. t.on # "none"
    BY <1>0, <1>3 DEF Requests, Backends
  <2>3. t.last # NoQuestion /\ t.pending = NoQuestion /\ ~t.timer /\ (t.serverRun # "none" => t.on = "server")
    BY <1>1 DEF SchedInd, Sends
  <2> QED BY <1>0, <1>2, <1>3, <2>1, <2>2, <2>3 DEF SchedInd
<1>5. PICK Old : Old = Wanted(s, w, q)
  OBVIOUS
<1>6. Old \subseteq Requests /\ Asked(q) \subseteq Old /\ Done(w, o) \subseteq Answers
      /\ (w.inbox \in Old \/ w.inbox = NoRequest)
  BY <1>0, <1>5, WantedFacts, DoneFacts DEF Wanted
<1>7. Wanted(t, w, q) \subseteq Old \cup {r} /\ (t.request.to # "worker" => Wanted(t, w, q) \subseteq Old)
  BY <1>3, <1>5 DEF Wanted
<1>8. \A x \in Old \cup Done(w, o) : x.id \in Nat /\ x.id <= s.lastId
  BY <1>5, <1>6 DEF Page, WorkerInd, Requests, Answers, Id
<1>9. \A x \in Old \cup Done(w, o) : x.id < next /\ x.id <= next /\ x.id # next
  BY <1>0, <1>2, <1>8
<1>10. WorkerInd(t, w, q, o)
  <2>1. \A x \in Wanted(t, w, q) : x.id <= t.lastId
    BY <1>2, <1>3, <1>7, <1>9
  <2>2. \A a \in Done(w, o) : a.id <= t.lastId /\ a.kind # "server"
    BY <1>3, <1>9 DEF Page, WorkerInd
  <2>3. \A a \in Done(w, o), x \in Wanted(t, w, q) : a.id < x.id
    BY <1>3, <1>5, <1>7, <1>9 DEF Page, WorkerInd
  <2>4. \A x \in Asked(q) \cup {w.inbox} : x.id < t.request.id
    BY <1>2, <1>3, <1>6, <1>9 DEF NoRequest
  <2>5. /\ w \in Workers /\ q \in Seq(Messages) /\ o \in Seq(Answers)
        /\ Cardinality(DOMAIN w.cache.entries) <= Limit /\ Ordered(q)
        /\ \A x \in Asked(q) : w.inbox.id < x.id
    BY DEF Page, WorkerInd
  <2> QED BY <2>1, <2>2, <2>3, <2>4, <2>5 DEF WorkerInd
<1>11. FlightInd(t, w, q, o)
  <2>1. SUFFICES ASSUME NEW x \in Wanted(t, w, q) \cup Done(w, o), x.id = t.inFlight
                 PROVE  /\ t.on = "worker"
                        /\ t.pending = NoQuestion => x.question = t.last
                        /\ Agree(x.question.circuit, t.last.circuit, t.sinceDispatch)
    BY DEF FlightInd
  <2>2. x = r /\ t.request.to = "worker"
    BY <1>3, <1>7, <1>9, <2>1
  <2>3. t.sinceDispatch \in 0 .. Columns
    BY <1>0 DEF Scheds
  <2>4. Agree(t.last.circuit, t.last.circuit, t.sinceDispatch)
    BY <2>3 DEF Agree
  <2> QED BY <1>1, <1>3, <2>2, <2>4
<1>12. WarmInd(t, w, q)
  <2>1. TrueOf(w.cache, t.last.circuit, t.dirty)
    BY <1>1 DEF Page, WarmInd
  <2>2. r.fromColumn = t.dirty /\ r.question.circuit = t.last.circuit
    BY <1>1 DEF Sends
  <2>3. Agree(t.last.circuit, t.last.circuit, t.dirty)
    BY DEF Agree
  <2>4. \A x \in Old : /\ TrueOf(w.cache, x.question.circuit, x.fromColumn)
                       /\ Agree(x.question.circuit, t.last.circuit, t.dirty)
    BY <1>1, <1>5 DEF Page, WarmInd
  <2>5. \A r1, r2 \in Old : r1.id < r2.id => Agree(r1.question.circuit, r2.question.circuit, r2.fromColumn)
    BY <1>5 DEF Page, WarmInd
  <2>6. ASSUME NEW r1 \in Old \cup {r}, NEW r2 \in Old \cup {r}, r1.id < r2.id
        PROVE  Agree(r1.question.circuit, r2.question.circuit, r2.fromColumn)
    <3>1. r1 \in Old
      <4>1. r2.id \in Nat /\ r2.id <= next
        BY <1>2, <1>3, <1>8, <1>9
      <4> QED BY <1>2, <1>3, <2>6, <4>1
    <3>2. CASE r2 = r
      BY <2>2, <2>4, <3>1, <3>2
    <3>3. CASE r2 \in Old
      BY <2>5, <2>6, <3>1, <3>3
    <3> QED BY <3>2, <3>3
  <2> QED BY <1>7, <2>1, <2>2, <2>3, <2>4, <2>6 DEF WarmInd
<1>13. ExactInd(t, w, o)
  BY <1>3, <1>9 DEF Page, ExactInd
<1> QED BY <1>4, <1>10, <1>11, <1>12, <1>13 DEF Page

\* The server hears of it after everything else.
LEMMA SendsServes ==
  ASSUME NEW s, SchedInd(s), s.request = NoMessage, s.cancel = NoMessage, s.pending # NoQuestion,
         NEW l, NEW c, ServerInd(s, l, c), NEW t, NEW r, Sends(s, t, r), Tells(s, t)
  PROVE  ServerInd(t, l, c)
<1>0. /\ s \in Scheds /\ t \in Scheds /\ l \in Lives \cup {NoLive} /\ c \in SUBSET Calls /\ s.lastId \in Nat
      /\ s.pending = s.last /\ r.question = s.last /\ t.last = s.last
  BY DEF SchedInd, ServerInd, Sends, Scheds
<1>1. PICK next \in Nat : next = s.lastId + 1 /\ s.lastId < next /\ next # 0
  BY <1>0
<1>2. t.lastId = next /\ t.inFlight = next /\ r.id = next /\ t.on = r.to /\ t.request = r
  BY <1>1 DEF Sends
<1>3. \A call \in c : call.id \in Nat /\ call.id <= s.lastId
  BY <1>0 DEF ServerInd, Calls, Id
<1>4. l.id \in Nat /\ l.id <= s.lastId
  BY <1>0 DEF ServerInd, Lives, Id, NoLive
<1>5. l # NoLive => l.id # 0 /\ s.on = "server" /\ s.inFlight = l.id
  BY <1>0 DEF ServerInd, Lives, Id, NoMessage
<1>6. l # NoLive => t.cancel.to = "server" /\ t.cancel.id = l.id
  BY <1>5 DEF Tells
<1>7. l.id < next /\ l.id <= next /\ l.id # next
  BY <1>0, <1>1, <1>4
<1>8. \A call \in c : call.id < next /\ call.id <= next /\ call.id # next
  BY <1>0, <1>1, <1>3
<1>9. ASSUME NEW x \in c \cup ({l} \ {NoLive}) \cup (IF t.request.to = "server" THEN {t.request} ELSE {}),
             x.id = t.inFlight
      PROVE  t.on = "server" /\ (t.pending = NoQuestion => x.question = t.last)
  BY <1>0, <1>2, <1>7, <1>8, <1>9
<1> QED BY <1>0, <1>2, <1>6, <1>7, <1>8, <1>9 DEF ServerInd


\* What a question makes of the scheduler before anything is sent or refused.
AsksFor(s, question, k, t) ==
  /\ t \in Scheds /\ t.pending = question /\ t.timer /\ t.last = question
  /\ t.dirty = Lowest(s.dirty, k) /\ t.sinceDispatch = Lowest(s.sinceDispatch, k)
  /\ t.inFlight = s.inFlight /\ t.on = s.on /\ t.lastId = s.lastId /\ t.serverRun = s.serverRun
  /\ t.outcome = s.outcome /\ t.cancel = s.cancel /\ t.request = s.request

\* And what becomes of it.
BecomesOf(asked, k, t) ==
  \/ t \in {asked, Refuse(asked, "sampling-too-large"), Refuse(asked, "too-many-qubits")}
  \/ k = Clean /\ t = Dispatch(asked)

\* The column from which a question differs from the last one.
Changed(s, question) == IF s.last = NoQuestion THEN 0 ELSE EarliestChangedColumn(s.last, question)

\* A new question is asked for, and dispatched at once, refused or left to the
\* timer.
LEMMA ScheduleFacts ==
  ASSUME NEW s \in Scheds, NEW question \in Questions, question # s.last,
         NEW k, k = Changed(s, question), NEW t, t = Schedule(s, question)
  PROVE  /\ k \in 0 .. Columns /\ (s.last # NoQuestion => Agree(s.last.circuit, question.circuit, k))
         /\ \E asked : AsksFor(s, question, k, asked) /\ BecomesOf(asked, k, t)
<1>0. Columns \in Nat \ {0}
  BY CheckpointsAssumption
<1>1. /\ k \in 0 .. Columns
      /\ s.last # NoQuestion => Agree(s.last.circuit, question.circuit, k) /\ (k = Clean => s.last.circuit = question.circuit)
  <2>1. CASE s.last = NoQuestion
    BY <1>0, <2>1 DEF Changed
  <2>2. CASE s.last # NoQuestion
    <3>1. PICK p \in Questions : p = s.last
      BY <2>2 DEF Scheds
    <3>2. k = EarliestChangedColumn(p, question)
      BY <2>2, <3>1 DEF Changed
    <3> QED BY <2>2, <3>1, <3>2, ChangedFacts
  <2> QED BY <2>1, <2>2
<1>2. PICK dirty \in 0 .. Columns : dirty = Lowest(s.dirty, k)
  BY <1>0, <1>1 DEF Lowest, Scheds
<1>3. PICK since \in 0 .. Columns : since = Lowest(s.sinceDispatch, k)
  BY <1>0, <1>1 DEF Lowest, Scheds
<1>4. PICK seen : seen = [s EXCEPT !.last = question, !.dirty = dirty, !.sinceDispatch = since]
  OBVIOUS
<1>5. /\ seen \in Scheds /\ seen.last = question /\ seen.dirty = dirty /\ seen.sinceDispatch = since
      /\ seen.inFlight = s.inFlight /\ seen.on = s.on /\ seen.lastId = s.lastId /\ seen.serverRun = s.serverRun
      /\ seen.outcome = s.outcome /\ seen.cancel = s.cancel /\ seen.request = s.request
  BY <1>4 DEF Scheds
<1>6. PICK asked : asked = [seen EXCEPT !.pending = question, !.timer = TRUE]
  OBVIOUS
<1>7. /\ asked \in Scheds /\ asked.pending = question /\ asked.timer = TRUE
      /\ asked.last = question /\ asked.dirty = dirty /\ asked.sinceDispatch = since
      /\ asked.inFlight = s.inFlight /\ asked.on = s.on /\ asked.lastId = s.lastId /\ asked.serverRun = s.serverRun
      /\ asked.outcome = s.outcome /\ asked.cancel = s.cancel /\ asked.request = s.request
  BY <1>5, <1>6 DEF Scheds
<1>8. AsksFor(s, question, k, asked)
  BY <1>2, <1>3, <1>7 DEF AsksFor
<1>9. [seen EXCEPT !.timer = FALSE, !.pending = NoQuestion] = [asked EXCEPT !.timer = FALSE, !.pending = NoQuestion]
  BY <1>5, <1>6 DEF Scheds
<1>10. \A code : Refuse(seen, code) = Refuse(asked, code)
  BY <1>9 DEF Refuse
<1>11. ~(k = Clean /\ s.last # NoQuestion /\ s.last.run = question.run)
  <2>1. SUFFICES ASSUME k = Clean, s.last # NoQuestion, s.last.run = question.run PROVE FALSE
    OBVIOUS
  <2>2. s.last \in Questions /\ s.last.circuit = question.circuit
    BY <1>1, <2>1 DEF Scheds
  <2>3. s.last = question
    BY <2>1, <2>2 DEF Questions
  <2> QED BY <2>3
<1>12. \/ t \in {Refuse(seen, "sampling-too-large"), Refuse(seen, "too-many-qubits"), asked}
       \/ k = Clean /\ t = Dispatch(asked)
  BY <1>2, <1>3, <1>4, <1>6, <1>11 DEF Schedule, Changed
<1>13. BecomesOf(asked, k, t)
  BY <1>10, <1>12 DEF BecomesOf
<1> QED BY <1>1, <1>8, <1>13

\* A question that is asked for makes as much stale as it changed.
LEMMA AsksKeeps ==
  ASSUME NEW s, SchedInd(s), s.request = NoMessage, s.cancel = NoMessage,
         NEW w, NEW q, NEW o, Page(s, w, q, o), NEW l, NEW c, ServerInd(s, l, c),
         NEW question \in Questions, NEW k \in 0 .. Columns, Agree(s.last.circuit, question.circuit, k),
         NEW t, AsksFor(s, question, k, t)
  PROVE  SchedInd(t) /\ Page(t, w, q, o) /\ ServerInd(t, l, c)
<1>0. /\ s \in Scheds /\ t \in Scheds /\ w \in Workers /\ Columns \in Nat /\ question # NoQuestion
      /\ s.dirty \in 0 .. Columns /\ s.sinceDispatch \in 0 .. Columns /\ s.dirty <= s.sinceDispatch
  BY CheckpointsAssumption DEF SchedInd, Page, WorkerInd, AsksFor, Scheds, Questions, NoQuestion, Modes
<1>1. /\ t.pending = question /\ t.last = question /\ t.inFlight = s.inFlight /\ t.on = s.on /\ t.lastId = s.lastId
      /\ t.serverRun = s.serverRun /\ t.cancel = NoMessage /\ t.request = NoMessage /\ s.request = NoMessage /\ t.timer
  BY DEF AsksFor
<1>2. PICK d \in 0 .. Columns : d = t.dirty /\ d = Lowest(s.dirty, k) /\ d <= k /\ d <= s.dirty
  BY <1>0 DEF AsksFor, Lowest
<1>3. PICK e \in 0 .. Columns : e = t.sinceDispatch /\ e = Lowest(s.sinceDispatch, k) /\ e <= k /\ d <= e
  BY <1>0, <1>2 DEF AsksFor, Lowest
<1>4. SchedInd(t)
  BY <1>0, <1>1, <1>2, <1>3 DEF SchedInd
<1>5. Wanted(t, w, q) = Wanted(s, w, q)
  BY <1>1 DEF Wanted
<1>6. WorkerInd(t, w, q, o)
  BY <1>1, <1>5 DEF Page, WorkerInd
<1>7. FlightInd(t, w, q, o)
  <2>1. SUFFICES ASSUME NEW x \in Wanted(s, w, q) \cup Done(w, o), x.id = s.inFlight
                 PROVE  s.on = "worker" /\ Agree(x.question.circuit, question.circuit, e)
    BY <1>0, <1>1, <1>3, <1>5 DEF FlightInd
  <2>2. s.on = "worker" /\ Agree(x.question.circuit, s.last.circuit, s.sinceDispatch)
    BY <2>1 DEF Page, FlightInd
  <2> QED BY <1>0, <1>3, <2>2, AgreeFacts
<1>8. WarmInd(t, w, q)
  <2>1. TrueOf(w.cache, question.circuit, d)
    <3>1. w.cache \in Caches /\ TrueOf(w.cache, s.last.circuit, s.dirty)
      BY <1>0 DEF Page, WarmInd, Workers
    <3>2. TrueOf(w.cache, s.last.circuit, d)
      BY <1>0, <1>2, <3>1, TrueLess
    <3>3. Agree(s.last.circuit, question.circuit, d)
      BY <1>0, <1>2, AgreeFacts
    <3> QED BY <3>1, <3>2, <3>3, TrueMoves
  <2>2. ASSUME NEW r \in Wanted(s, w, q) PROVE Agree(r.question.circuit, question.circuit, d)
    <3>1. Agree(r.question.circuit, s.last.circuit, s.dirty)
      BY DEF Page, WarmInd
    <3> QED BY <1>0, <1>2, <3>1, AgreeFacts
  <2> QED BY <1>1, <1>2, <1>5, <2>1, <2>2 DEF Page, WarmInd
<1>9. ExactInd(t, w, o)
  BY <1>1 DEF Page, ExactInd
<1>10. ServerInd(t, l, c)
  BY <1>0, <1>1 DEF ServerInd, NoMessage
<1> QED BY <1>4, <1>6, <1>7, <1>8, <1>9, <1>10 DEF Page

\* What becomes of it is sound.
LEMMA BecomesKeeps ==
  ASSUME NEW s, NEW l, NEW c, NEW w, NEW q, NEW o, Sent(s, l, c, w, q, o),
         s.request = NoMessage, s.cancel = NoMessage, s.pending # NoQuestion, ExactAnswer(s.outcome),
         NEW k, NEW t, BecomesOf(s, k, t)
  PROVE  Sent(t, l, c, w, q, o) /\ PanelInd(t, FALSE)
<1>0. SchedInd(s) /\ Page(s, w, q, o) /\ ServerInd(s, l, c)
  BY DEF Sent
<1>1. CASE t = s
  BY <1>1 DEF PanelInd
<1>2. ASSUME NEW code \in Failures, t = Refuse(s, code) PROVE Sent(t, l, c, w, q, o) /\ PanelInd(t, FALSE)
  <2>1. Idles(s, t) /\ Tells(s, t) /\ t.failure = code
    BY <1>0, <1>2, RefuseFacts
  <2>2. SchedInd(t) /\ Page(t, w, q, o) /\ ServerInd(t, l, c)
    BY <1>0, <2>1, IdlesKeeps, IdlesServes
  <2>3. code # "none"
    BY DEF Failures
  <2>4. PanelInd(t, FALSE)
    BY <2>1, <2>3 DEF PanelInd, Idles
  <2> QED BY <2>2, <2>4 DEF Sent
<1>3. CASE t = Dispatch(s)
  <2>1. PICK r : Sends(s, t, r) /\ Tells(s, t)
    BY <1>0, <1>3, DispatchFacts
  <2>2. SchedInd(t) /\ Page(t, w, q, o) /\ ServerInd(t, l, c)
    BY <1>0, <2>1, SendsKeeps, SendsServes
  <2>3. t.inFlight # 0
    <3>1. s.lastId \in Nat
      BY <1>0 DEF SchedInd, Scheds
    <3> QED BY <2>1, <3>1 DEF Sends
  <2>4. PanelInd(t, FALSE)
    BY <2>1, <2>3 DEF PanelInd, Sends
  <2> QED BY <2>2, <2>4 DEF Sent
<1> QED BY <1>1, <1>2, <1>3 DEF BecomesOf, Failures


------------------------------------------------------------------------------
(* What the scheduler sends is posted. *)

\* The scheduler with its messages posted.
Cleared(t, u) ==
  /\ u \in Scheds /\ u.cancel = NoMessage /\ u.request = NoMessage
  /\ u.pending = t.pending /\ u.timer = t.timer /\ u.inFlight = t.inFlight /\ u.on = t.on
  /\ u.lastId = t.lastId /\ u.last = t.last /\ u.dirty = t.dirty /\ u.sinceDispatch = t.sinceDispatch
  /\ u.outcome = t.outcome /\ u.failure = t.failure /\ u.serverRun = t.serverRun /\ u.hasServer = t.hasServer

\* The worker will find what was in the scheduler's hands.
LEMMA PostedKeeps ==
  ASSUME NEW t, SchedInd(t), NEW w, NEW q, NEW o, Page(t, w, q, o), NEW u, Cleared(t, u),
         NEW p, p = q \o Posted(t.cancel) \o Posted(t.request)
  PROVE  SchedInd(u) /\ Page(u, w, p, o)
<1>0. /\ t \in Scheds /\ u \in Scheds /\ w \in Workers /\ q \in Seq(Messages) /\ o \in Seq(Answers) /\ Ordered(q)
      /\ u.cancel = NoMessage /\ u.request = NoMessage /\ NoMessage.to = "none"
  BY DEF SchedInd, Page, WorkerInd, Cleared, NoMessage
<1>1. PICK m \in Cancels \cup {NoMessage} : m = t.cancel
  BY <1>0 DEF Scheds
<1>2. PICK r \in Requests \cup {NoMessage} : r = t.request
  BY <1>0 DEF Scheds
<1>3. PICK p1 : p1 = q \o Posted(m)
  OBVIOUS
<1>4. p1 \in Seq(Messages) /\ Ordered(p1) /\ Asked(p1) = Asked(q)
  <2>1. m \in Messages \cup {NoMessage} /\ m.kind # "simulate"
    BY DEF Messages, Cancels, NoMessage
  <2>2. PICK A : A = IF m.to = "worker" /\ m.kind = "simulate" THEN {m} ELSE {}
    OBVIOUS
  <2>3. A = {}
    BY <2>1, <2>2
  <2>4. \A x \in Asked(q), y \in A : x.id < y.id
    BY <2>3
  <2>5. p1 \in Seq(Messages) /\ Ordered(p1) /\ Asked(p1) = Asked(q) \cup A
    BY <1>0, <1>3, <2>1, <2>2, <2>4, PostedFacts
  <2> QED BY <2>3, <2>5
<1>5. PICK A : A = IF r.to = "worker" /\ r.kind = "simulate" THEN {r} ELSE {}
  OBVIOUS
<1>6. A = IF r.to = "worker" THEN {r} ELSE {}
  BY <1>5 DEF Requests, NoMessage
<1>7. \A x \in Asked(q) \cup {w.inbox}, y \in A : x.id < y.id
  BY <1>2, <1>6 DEF Page, WorkerInd
<1>8. p \in Seq(Messages) /\ Ordered(p) /\ Asked(p) = Asked(q) \cup A
  <2>1. p = p1 \o Posted(r) /\ r \in Messages \cup {NoMessage}
    BY <1>1, <1>2, <1>3 DEF Messages
  <2>2. \A x \in Asked(p1), y \in A : x.id < y.id
    BY <1>4, <1>7
  <2>3. p \in Seq(Messages) /\ Ordered(p) /\ Asked(p) = Asked(p1) \cup A
    <3>1. PICK m1 \in Messages \cup {NoMessage} : m1 = r
      BY <2>1
    <3>2. A = (IF m1.to = "worker" /\ m1.kind = "simulate" THEN {m1} ELSE {}) /\ p = p1 \o Posted(m1)
      BY <1>5, <2>1, <3>1
    <3>3. p1 \in Seq(Messages) /\ Ordered(p1)
      BY <1>4
    <3> QED BY <2>2, <3>2, <3>3, PostedFacts
  <2> QED BY <1>4, <2>3
<1>9. Wanted(u, w, p) = Wanted(t, w, q)
  BY <1>0, <1>2, <1>6, <1>8 DEF Wanted
<1>10. SchedInd(u)
  BY <1>0 DEF SchedInd, Cleared
<1>11. WorkerInd(u, w, p, o)
  <2>1. \A x \in Asked(p) : w.inbox.id < x.id
    BY <1>7, <1>8 DEF Page, WorkerInd
  <2>2. u.lastId = t.lastId
    BY DEF Cleared
  <2> QED BY <1>0, <1>8, <1>9, <2>1, <2>2 DEF Page, WorkerInd
<1>12. FlightInd(u, w, p, o)
  BY <1>9 DEF Page, FlightInd, Cleared
<1>13. WarmInd(u, w, p)
  BY <1>9 DEF Page, WarmInd, Cleared
<1>14. ExactInd(u, w, o)
  BY DEF Page, ExactInd, Cleared
<1> QED BY <1>10, <1>11, <1>12, <1>13, <1>14 DEF Page

\* What the server backend does with them.
Handled(t, l, c, l1, c1) ==
  IF t.request.to = "server"
  THEN l1 = [id |-> t.request.id, question |-> t.request.question, stage |-> "submitting", polling |-> "no"]
       /\ c1 = c \cup {Call("submit", l1)}
  ELSE IF t.cancel.to = "server" THEN l1 = (IF l.id = t.cancel.id THEN NoLive ELSE l) /\ c1 = c
  ELSE l1 = l /\ c1 = c

\* The server drives the run in flight and no other.
LEMMA HandledServes ==
  ASSUME NEW t, SchedInd(t), NEW l, NEW c, ServerInd(t, l, c), NEW u, Cleared(t, u),
         NEW l1, NEW c1, Handled(t, l, c, l1, c1)
  PROVE  ServerInd(u, l1, c1)
<1>0. /\ t \in Scheds /\ u \in Scheds /\ l \in Lives \cup {NoLive} /\ c \in SUBSET Calls
      /\ u.request = NoMessage /\ NoMessage.to = "none"
      /\ u.lastId = t.lastId /\ u.inFlight = t.inFlight /\ u.on = t.on /\ u.pending = t.pending /\ u.last = t.last
  BY DEF SchedInd, ServerInd, Cleared, NoMessage
<1>1. CASE t.request.to = "server"
  <2>1. PICK r \in Requests : r = t.request
    BY <1>0, <1>1 DEF Scheds
  <2>2. l1 = [id |-> r.id, question |-> r.question, stage |-> "submitting", polling |-> "no"]
        /\ c1 = c \cup {Call("submit", l1)}
    BY <1>1, <2>1 DEF Handled
  <2>3. l1 \in Lives /\ l1.id = r.id /\ l1.question = r.question
    BY <2>2 DEF Lives, Requests
  <2>4. PICK x : x = Call("submit", l1)
    OBVIOUS
  <2>5. x \in Calls /\ x.id = r.id /\ x.question = r.question
    BY <2>3, <2>4 DEF Call, Calls, Lives
  <2>6. r # NoMessage
    BY DEF Requests, NoMessage
  <2>7. t.lastId \in Nat /\ r.id = t.lastId /\ t.inFlight = t.lastId /\ t.on = "server"
    BY <1>0, <1>1, <2>1, <2>6 DEF SchedInd, Scheds
  <2>8. \A call \in c1 : call.id <= t.lastId
    BY <2>2, <2>4, <2>5, <2>7 DEF ServerInd
  <2>9. ASSUME NEW y \in c1 \cup {l1}, y.id = t.inFlight PROVE t.pending = NoQuestion => y.question = t.last
    <3>1. r \in c \cup ({l} \ {NoLive}) \cup (IF t.request.to = "server" THEN {t.request} ELSE {})
      BY <1>1, <2>1
    <3>2. t.pending = NoQuestion => r.question = t.last
      BY <2>7, <3>1 DEF ServerInd
    <3>3. y \in c => (t.pending = NoQuestion => y.question = t.last)
      BY <2>9 DEF ServerInd
    <3> QED BY <2>2, <2>3, <2>4, <2>5, <3>2, <3>3
  <2>10. c1 \in SUBSET Calls
    BY <1>0, <2>2, <2>4, <2>5
  <2> QED BY <1>0, <2>3, <2>7, <2>8, <2>9, <2>10 DEF ServerInd
<1>2. CASE t.request.to # "server" /\ t.cancel.to = "server"
  <2>1. l1 = (IF l.id = t.cancel.id THEN NoLive ELSE l) /\ c1 = c
    BY <1>2 DEF Handled
  <2>2. l1 # NoLive => l1 = l /\ t.on = "server" /\ t.inFlight = l.id
    BY <2>1 DEF ServerInd
  <2>3. l1.id <= t.lastId
    <3>1. t.lastId \in Nat /\ NoLive.id = 0
      BY <1>0 DEF Scheds, NoLive
    <3>2. NoLive.id <= t.lastId /\ l.id <= t.lastId
      BY <3>1 DEF ServerInd
    <3> QED BY <2>1, <3>2
  <2>4. \A x \in c1 \cup ({l1} \ {NoLive}) : x \in c \cup ({l} \ {NoLive})
    BY <2>1
  <2> QED BY <1>0, <2>1, <2>2, <2>3, <2>4 DEF ServerInd
<1>3. CASE t.request.to # "server" /\ t.cancel.to # "server"
  <2>1. l1 = l /\ c1 = c
    BY <1>3 DEF Handled
  <2>2. l # NoLive => t.on = "server" /\ t.inFlight = l.id
    BY <1>3 DEF ServerInd
  <2> QED BY <1>0, <2>1, <2>2 DEF ServerInd
<1> QED BY <1>1, <1>2, <1>3

\* A step of the scheduler that is posted is sound if it was before.
LEMMA PostKeeps ==
  ASSUME NEW t, NEW w, NEW o, NEW g, Sent(t, live, calls, w, toWorker, o), PanelInd(t, g), Post(t)
  PROVE  /\ Sent(sched', live', calls', w, toWorker', o) /\ PanelInd(sched', g)
         /\ sched'.cancel = NoMessage /\ sched'.request = NoMessage
<1>0. SchedInd(t) /\ Page(t, w, toWorker, o) /\ ServerInd(t, live, calls) /\ t \in Scheds
  BY DEF Sent, SchedInd
<1>1. PICK u : u = sched'
  OBVIOUS
<1>2. Cleared(t, u)
  <2>1. u = [t EXCEPT !.cancel = NoMessage, !.request = NoMessage]
    BY <1>1 DEF Post
  <2> QED BY <1>0, <2>1 DEF Cleared, Scheds
<1>3. PICK p : p = toWorker'
  OBVIOUS
<1>4. p = toWorker \o Posted(t.cancel) \o Posted(t.request)
  BY <1>3 DEF Post
<1>5. SchedInd(u) /\ Page(u, w, p, o)
  BY <1>0, <1>2, <1>4, PostedKeeps
<1>6. PICK l1 : l1 = live'
  OBVIOUS
<1>7. PICK c1 : c1 = calls'
  OBVIOUS
<1>8. Handled(t, live, calls, l1, c1)
  <2>1. t.request.to = "server" => t.request.kind # "cancel"
    BY <1>0 DEF Scheds, Requests, NoMessage
  <2>2. t.cancel.to = "server" => t.cancel.kind = "cancel"
    BY <1>0 DEF Scheds, Cancels, NoMessage
  <2> QED BY <1>6, <1>7, <2>1, <2>2 DEF Post, Dispatched, Handled
<1>9. ServerInd(u, l1, c1)
  BY <1>0, <1>2, <1>8, HandledServes
<1>10. PanelInd(u, g)
  BY <1>2 DEF PanelInd, Cleared
<1> QED BY <1>1, <1>2, <1>3, <1>5, <1>6, <1>7, <1>9, <1>10 DEF Sent, Cleared


------------------------------------------------------------------------------
(* Answers, and what the scheduler makes of them. *)

\* What an answer that is believed leaves to be shown.
Shows(u, a) == u.failure = "run-failed" \/ u.outcome = a

\* What an analytic one says of the cache.
CatchesUp(u, t) ==
  /\ Known(u, t) /\ t.dirty = u.sinceDispatch /\ t.sinceDispatch = Columns
  /\ t.inFlight = u.inFlight /\ t.on = u.on /\ t.serverRun = u.serverRun
  /\ t.pending = u.pending /\ t.timer = u.timer
  /\ t.outcome = u.outcome /\ t.failure = u.failure /\ t.cancel = u.cancel

\* The answer a frees the scheduler, by way of u.
Frees(s, a, u, t) ==
  /\ Idles(s, u) /\ u.pending = s.pending /\ u.cancel = s.cancel /\ Shows(u, a)
  /\ t = u \/ (a.kind = "analytic" /\ CatchesUp(u, t))

\* An answer to anything but the request in flight is dropped.
LEMMA ReceiveFacts ==
  ASSUME NEW s, SchedInd(s), NEW a \in Answers, ExactAnswer(a), NEW t, t = Receive(s, a)
  PROVE  \/ t = s /\ a.id # s.inFlight
         \/ a.id = s.inFlight /\ \E u : Frees(s, a, u, t)
<1>0. s \in Scheds /\ (s.timer <=> s.pending # NoQuestion)
  BY DEF SchedInd
<1>1. CASE a.id # s.inFlight
  BY <1>1 DEF Receive
<1>2. CASE a.id = s.inFlight
  <2>1. PICK free : free = [s EXCEPT !.inFlight = 0, !.on = "none", !.serverRun = "none"]
    OBVIOUS
  <2>2. /\ free \in Scheds /\ free.inFlight = 0 /\ free.on = "none" /\ free.serverRun = "none"
        /\ free.pending = s.pending /\ free.timer = s.timer /\ free.lastId = s.lastId /\ free.last = s.last
        /\ free.dirty = s.dirty /\ free.sinceDispatch = s.sinceDispatch /\ free.hasServer = s.hasServer
        /\ free.cancel = s.cancel /\ free.request = s.request
    BY <1>0, <2>1 DEF Scheds
  <2>3. PICK out \in Answers \cup {NoOutcome} : out = IF a.kind = "error" THEN NoOutcome ELSE a
    OBVIOUS
  <2>4. PICK code \in {"run-failed", "none"} : code = IF a.kind = "error" THEN "run-failed" ELSE "none"
    OBVIOUS
  <2>5. PICK u : u = [free EXCEPT !.outcome = out, !.failure = code]
    OBVIOUS
  <2>6. /\ u \in Scheds /\ u.inFlight = 0 /\ u.on = "none" /\ u.serverRun = "none"
        /\ u.pending = s.pending /\ u.timer = s.timer /\ u.lastId = s.lastId /\ u.last = s.last
        /\ u.dirty = s.dirty /\ u.sinceDispatch = s.sinceDispatch /\ u.hasServer = s.hasServer
        /\ u.cancel = s.cancel /\ u.request = s.request /\ u.outcome = out /\ u.failure = code
    BY <2>2, <2>5 DEF Scheds
  <2>7. Idles(s, u)
    <3>1. ExactAnswer(out)
      BY <2>3, NoOutcomeFacts
    <3> QED BY <1>0, <2>6, <3>1 DEF Idles, Known
  <2>8. Shows(u, a)
    BY <2>3, <2>4, <2>6 DEF Shows
  <2>9. CASE a.kind = "analytic"
    <3>1. PICK all \in 0 .. Columns : all = Columns
      BY CheckpointsAssumption
    <3>2. PICK since \in 0 .. Columns : since = s.sinceDispatch
      BY <1>0 DEF Scheds
    <3>3. PICK v : v = [u EXCEPT !.dirty = since, !.sinceDispatch = all]
      OBVIOUS
    <3>4. t = v
      <4>1. t = [[free EXCEPT !.dirty = since, !.sinceDispatch = all] EXCEPT !.outcome = out, !.failure = code]
        BY <1>2, <2>1, <2>2, <2>3, <2>4, <2>9, <3>1, <3>2 DEF Receive, Clean
      <4> QED BY <2>2, <2>5, <3>3, <4>1 DEF Scheds
    <3>5. CatchesUp(u, v)
      BY <2>6, <3>1, <3>2, <3>3 DEF CatchesUp, Known, Scheds
    <3>6. Frees(s, a, u, t)
      BY <2>6, <2>7, <2>8, <2>9, <3>4, <3>5 DEF Frees
    <3> QED BY <1>2, <3>6
  <2>10. CASE a.kind # "analytic"
    <3>1. t = u
      BY <1>2, <2>1, <2>3, <2>4, <2>5, <2>10 DEF Receive
    <3>2. Frees(s, a, u, t)
      BY <2>6, <2>7, <2>8, <3>1 DEF Frees
    <3> QED BY <1>2, <3>2
  <2> QED BY <2>9, <2>10
<1> QED BY <1>1, <1>2

\* Nothing that is on its way contradicts what the scheduler now believes.
LEMMA CatchesUpKeeps ==
  ASSUME NEW u, SchedInd(u), NEW w, NEW q, NEW o, Page(u, w, q, o), u.inFlight = 0, u.request = NoMessage,
         Wanted(u, w, q) = {}, TrueOf(w.cache, u.last.circuit, u.sinceDispatch),
         NEW l, NEW c, ServerInd(u, l, c), NEW t, CatchesUp(u, t)
  PROVE  SchedInd(t) /\ Page(t, w, q, o) /\ ServerInd(t, l, c)
<1>0. /\ u \in Scheds /\ t \in Scheds /\ Columns \in Nat /\ u.sinceDispatch \in 0 .. Columns
      /\ w \in Workers /\ o \in Seq(Answers)
  BY CheckpointsAssumption DEF SchedInd, CatchesUp, Known, Page, WorkerInd, Scheds
<1>1. SchedInd(t)
  <2>1. t.dirty <= t.sinceDispatch
    BY <1>0 DEF CatchesUp
  <2> QED BY <1>0, <2>1 DEF SchedInd, CatchesUp, Known
<1>2. Wanted(t, w, q) = {} /\ t.request = NoMessage
  BY DEF Wanted, CatchesUp, Known
<1>3. \A x \in Done(w, o) : x.id # t.inFlight
  BY <1>0, DoneFacts DEF Answers, Id, CatchesUp
<1>4. WorkerInd(t, w, q, o)
  BY <1>2 DEF Page, WorkerInd, CatchesUp, Known
<1>5. FlightInd(t, w, q, o)
  BY <1>2, <1>3 DEF FlightInd
<1>6. WarmInd(t, w, q)
  BY <1>2 DEF WarmInd, CatchesUp, Known
<1>7. ExactInd(t, w, o)
  BY <1>3 DEF Page, ExactInd
<1>8. ServerInd(t, l, c)
  BY DEF ServerInd, CatchesUp, Known
<1> QED BY <1>1, <1>4, <1>5, <1>6, <1>7, <1>8 DEF Page

\* An answer of the worker to the request in flight is an answer to the last
\* question, and leaves nothing else to run.
LEMMA AnswerKeeps ==
  ASSUME NEW s, NEW l, NEW c, NEW w, NEW q, NEW o, Sent(s, l, c, w, q, o), s.request = NoMessage, s.cancel = NoMessage,
         NEW g, PanelInd(s, g), NEW a \in Done(w, o), NEW t, t = Receive(s, a)
  PROVE  Sent(t, l, c, w, q, o) /\ PanelInd(t, g) /\ t.cancel = NoMessage /\ t.request = NoMessage
<1>0. /\ SchedInd(s) /\ Page(s, w, q, o) /\ ServerInd(s, l, c) /\ s \in Scheds /\ w \in Workers
      /\ q \in Seq(Messages) /\ o \in Seq(Answers) /\ l \in Lives \cup {NoLive} /\ Columns \in Nat
  BY CheckpointsAssumption DEF Sent, SchedInd, Page, WorkerInd, ServerInd
<1>1. a \in Answers /\ ExactAnswer(a) /\ a.id # 0
  BY <1>0, DoneFacts DEF Page, ExactInd, Answers, Id
<1>3. ASSUME a.id = s.inFlight, NEW u, Frees(s, a, u, t)
      PROVE  Sent(t, l, c, w, q, o) /\ PanelInd(t, g) /\ t.cancel = NoMessage /\ t.request = NoMessage
  <2>1. Idles(s, u) /\ u.pending = s.pending /\ u.cancel = NoMessage /\ u.request = NoMessage /\ u.last = s.last
        /\ u.sinceDispatch = s.sinceDispatch /\ u.inFlight = 0 /\ u \in Scheds
    BY <1>3 DEF Frees, Idles, Known
  <2>2. /\ s.on = "worker" /\ (s.pending = NoQuestion => a.question = s.last)
        /\ Agree(a.question.circuit, s.last.circuit, s.sinceDispatch)
    BY <1>0, <1>3 DEF Page, FlightInd
  <2>3. l = NoLive
    BY <1>0, <2>2 DEF ServerInd, NoMessage
  <2>4. SchedInd(u) /\ Page(u, w, q, o) /\ ServerInd(u, l, c)
    BY <1>0, <2>1, <2>3, IdlesKeeps, IdlesServes
  <2>5. ~g
    BY <1>1, <1>3 DEF PanelInd
  <2>6. PanelInd(u, g)
    <3>1. ExactAnswer(u.outcome)
      BY <2>1 DEF PanelInd, Idles
    <3>2. u.failure = "run-failed" \/ u.outcome = a
      BY <1>3 DEF Frees, Shows
    <3>3. u.failure # "none" \/ (u.pending = NoQuestion => u.outcome.question = u.last)
      BY <2>1, <2>2, <3>2
    <3> QED BY <2>5, <3>1, <3>3 DEF PanelInd
  <2>7. CASE t = u
    BY <2>1, <2>4, <2>6, <2>7 DEF Sent
  <2>8. CASE a.kind = "analytic" /\ CatchesUp(u, t)
    <3>1. Wanted(s, w, q) = {}
      <4>1. SUFFICES ASSUME NEW r \in Wanted(s, w, q) PROVE FALSE
        OBVIOUS
      <4>2. a.id < r.id /\ r.id <= s.lastId
        BY <1>0 DEF Page, WorkerInd
      <4>3. a.id = s.lastId
        BY <1>0, <1>1, <1>3 DEF SchedInd
      <4>4. a.id \in Nat /\ r.id \in Nat
        BY <1>0, <1>1, WantedFacts DEF Answers, Requests, Id
      <4> QED BY <4>2, <4>3, <4>4
    <3>2. Wanted(u, w, q) = {}
      BY <2>1, <3>1 DEF Wanted
    <3>3. TrueOf(w.cache, u.last.circuit, u.sinceDispatch)
      <4>1. w.cache \in Caches /\ s.sinceDispatch \in 0 .. Columns /\ s.sinceDispatch <= Columns /\ Columns \in 0 .. Columns
        BY <1>0 DEF Workers, Scheds
      <4>2. TrueOf(w.cache, a.question.circuit, Columns)
        BY <1>0, <1>3, <2>8 DEF Page, ExactInd
      <4>3. TrueOf(w.cache, a.question.circuit, s.sinceDispatch)
        BY <4>1, <4>2, TrueLess
      <4>4. TrueOf(w.cache, s.last.circuit, s.sinceDispatch)
        BY <2>2, <4>1, <4>3, TrueMoves
      <4> QED BY <2>1, <4>4
    <3>4. SchedInd(t) /\ Page(t, w, q, o) /\ ServerInd(t, l, c)
      BY <2>1, <2>4, <2>8, <3>2, <3>3, CatchesUpKeeps
    <3>5. PanelInd(t, g) /\ t.cancel = NoMessage /\ t.request = NoMessage
      BY <2>1, <2>6, <2>8 DEF PanelInd, CatchesUp, Known
    <3> QED BY <3>4, <3>5 DEF Sent
  <2> QED BY <1>3, <2>7, <2>8 DEF Frees
<1>4. \/ t = s /\ a.id # s.inFlight
      \/ a.id = s.inFlight /\ \E u : Frees(s, a, u, t)
  BY <1>0, <1>1, ReceiveFacts
<1>5. t = s => Sent(t, l, c, w, q, o) /\ PanelInd(t, g) /\ t.cancel = NoMessage /\ t.request = NoMessage
  OBVIOUS
<1> QED BY <1>3, <1>4, <1>5


------------------------------------------------------------------------------
(* The server. *)

\* The run that is driven goes on, and the calls are those there were or its own.
GoesOn(l, c, l1, c1) ==
  /\ l1 = l \/ (l \in Lives /\ l1 \in Lives /\ l1.id = l.id /\ l1.question = l.question)
  /\ c1 \in SUBSET Calls
  /\ \A x \in c1 : x \in c \/ (l \in Lives /\ x.id = l.id /\ x.question = l.question)

\* That run is still the one in flight.
LEMMA GoesOnServes ==
  ASSUME NEW s, s.request = NoMessage, NEW l, NEW c, ServerInd(s, l, c), NEW l1, NEW c1, GoesOn(l, c, l1, c1)
  PROVE  ServerInd(s, l1, c1)
<1>1. \A x \in Lives : x # NoLive
  BY DEF Lives, NoLive
<1>2. NoMessage.to # "server"
  BY DEF NoMessage
<1>3. l1 \in Lives \cup {NoLive} /\ l1.id = l.id /\ (l1 # NoLive => l # NoLive /\ l1.question = l.question)
  BY <1>1 DEF ServerInd, GoesOn
<1>4. \A x \in c1 : x \in c \/ (l # NoLive /\ x.id = l.id /\ x.question = l.question)
  BY <1>1 DEF GoesOn
<1>5. c1 \in SUBSET Calls
  BY DEF GoesOn
<1>6. l.id <= s.lastId /\ \A x \in c1 : x.id <= s.lastId
  BY <1>4 DEF ServerInd
<1>7. ASSUME NEW x \in c1 \cup ({l1} \ {NoLive}), x.id = s.inFlight
      PROVE  s.on = "server" /\ (s.pending = NoQuestion => x.question = s.last)
  <2>1. PICK y \in c \cup ({l} \ {NoLive}) : y.id = x.id /\ y.question = x.question
    BY <1>3, <1>4
  <2> QED BY <1>7, <2>1 DEF ServerInd
<1> QED BY <1>2, <1>3, <1>5, <1>6, <1>7 DEF ServerInd

\* An answer of the server to the run it drives frees the scheduler, and the
\* worker with it holds nothing that is in flight.
LEMMA ServerAnswerKeeps ==
  ASSUME NEW s, NEW l \in Lives, NEW c, NEW w, NEW q, NEW o, Sent(s, l, c, w, q, o), s.request = NoMessage, s.cancel = NoMessage,
         NEW g, PanelInd(s, g), NEW a \in Answers, a.kind \in {"server", "error"}, a.id = l.id,
         a.id = s.inFlight /\ s.pending = NoQuestion => a.question = s.last, NEW t, t = Receive(s, a)
  PROVE  Sent(t, NoLive, c, w, q, o) /\ PanelInd(t, g) /\ t.cancel = NoMessage /\ t.request = NoMessage
<1>0. SchedInd(s) /\ Page(s, w, q, o) /\ ServerInd(s, l, c)
  BY DEF Sent
<1>1. ExactAnswer(a) /\ a.kind # "analytic" /\ a.id # 0
  BY DEF ExactAnswer, Modes, Answers, Id
<1>2. a.id = s.inFlight
  BY <1>0 DEF ServerInd, NoMessage, Lives, NoLive
<1>3. PICK u : Frees(s, a, u, t)
  BY <1>0, <1>1, <1>2, ReceiveFacts
<1>4. Idles(s, t) /\ t.pending = s.pending /\ t.cancel = NoMessage /\ t.request = NoMessage /\ t.last = s.last
      /\ (t.failure = "run-failed" \/ t.outcome = a)
  BY <1>1, <1>3 DEF Frees, Shows, Idles, Known
<1>5. SchedInd(t) /\ Page(t, w, q, o) /\ ServerInd(t, NoLive, c)
  BY <1>0, <1>4, IdlesKeeps, IdlesServes
<1>6. PanelInd(t, g)
  <2>1. ~g /\ ExactAnswer(t.outcome)
    BY <1>1, <1>2, <1>4 DEF PanelInd, Idles
  <2>2. t.failure # "none" \/ (t.pending = NoQuestion => t.outcome.question = t.last)
    BY <1>2, <1>4
  <2> QED BY <2>1, <2>2 DEF PanelInd
<1> QED BY <1>4, <1>5, <1>6 DEF Sent

\* A report describes the run in flight.
LEMMA ReportKeeps ==
  ASSUME NEW s, NEW l \in Lives, NEW c, NEW w, NEW q, NEW o, Sent(s, l, c, w, q, o), s.request = NoMessage, s.cancel = NoMessage,
         NEW g, PanelInd(s, g), NEW t, t = Report(s, l.id, "watching")
  PROVE  Sent(t, l, c, w, q, o) /\ PanelInd(t, g) /\ t.cancel = NoMessage /\ t.request = NoMessage
<1>0. SchedInd(s) /\ Page(s, w, q, o) /\ ServerInd(s, l, c) /\ s \in Scheds
  BY DEF Sent, SchedInd
<1>1. l # NoLive /\ s.on = "server" /\ l.id = s.inFlight
  BY <1>0 DEF ServerInd, NoMessage, Lives, NoLive
<1>2. t = [s EXCEPT !.serverRun = "watching"]
  BY <1>1 DEF Report
<1>3. /\ t \in Scheds /\ t.on = s.on /\ t.inFlight = s.inFlight /\ t.pending = s.pending /\ t.timer = s.timer
      /\ t.lastId = s.lastId /\ t.last = s.last /\ t.dirty = s.dirty /\ t.sinceDispatch = s.sinceDispatch
      /\ t.outcome = s.outcome /\ t.failure = s.failure /\ t.cancel = s.cancel /\ t.request = s.request
  BY <1>0, <1>2 DEF Scheds
<1>4. SchedInd(t)
  BY <1>0, <1>1, <1>3 DEF SchedInd
<1>5. Wanted(t, w, q) = Wanted(s, w, q)
  BY <1>3 DEF Wanted
<1>6. WorkerInd(t, w, q, o)
  BY <1>0, <1>3, <1>5 DEF Page, WorkerInd
<1>7. FlightInd(t, w, q, o) /\ WarmInd(t, w, q) /\ ExactInd(t, w, o)
  BY <1>0, <1>3, <1>5 DEF Page, FlightInd, WarmInd, ExactInd
<1>8. ServerInd(t, l, c) /\ PanelInd(t, g)
  BY <1>0, <1>3 DEF ServerInd, PanelInd
<1> QED BY <1>3, <1>4, <1>6, <1>7, <1>8 DEF Sent, Page

\* With the worker as it is, and the server going on.
LEMMA SentGoesOn ==
  ASSUME NEW s, NEW l, NEW c, NEW w, NEW q, NEW o, Sent(s, l, c, w, q, o), s.request = NoMessage,
         NEW l1, NEW c1, GoesOn(l, c, l1, c1)
  PROVE  Sent(s, l1, c1, w, q, o)
BY GoesOnServes DEF Sent

------------------------------------------------------------------------------
(* A question to a scheduler that has none. *)

\* Nothing was ever asked of it, or nothing counts any more.
Blank(s) ==
  /\ s \in Scheds /\ s.last = NoQuestion /\ s.inFlight = 0 /\ s.on = "none" /\ s.serverRun = "none"
  /\ s.cancel = NoMessage /\ s.request = NoMessage /\ ExactAnswer(s.outcome)

\* A first question waits for its timer or is refused, and a fresh worker has
\* nothing to do.
LEMMA BlankKeeps ==
  ASSUME NEW s, Blank(s), NEW question \in Questions, NEW c \in SUBSET Calls, \A x \in c : x.id <= s.lastId,
         NEW t, t = Schedule(s, question)
  PROVE  /\ Sent(t, NoLive, c, FreshWorker, <<>>, <<>>) /\ PanelInd(t, FALSE)
         /\ t.cancel = NoMessage /\ t.request = NoMessage
<1>0. /\ s \in Scheds /\ s.last = NoQuestion /\ Columns \in Nat \ {0} /\ Limit \in Nat \ {0} /\ question # NoQuestion
      /\ s.lastId \in Nat /\ NoMessage.to = "none" /\ s.dirty \in 0 .. Columns /\ s.sinceDispatch \in 0 .. Columns
  BY CheckpointsAssumption DEF Blank, Questions, NoQuestion, Modes, Scheds, NoMessage
<1>1. PICK k : k = Changed(s, question)
  OBVIOUS
<1>2. k = 0
  BY <1>0, <1>1 DEF Changed
<1>3. PICK asked : AsksFor(s, question, k, asked) /\ BecomesOf(asked, k, t)
  BY <1>0, <1>1, ScheduleFacts
<1>4. /\ asked \in Scheds /\ asked.pending = question /\ asked.timer /\ asked.last = question
      /\ asked.inFlight = 0 /\ asked.on = "none" /\ asked.serverRun = "none" /\ asked.lastId = s.lastId
      /\ asked.cancel = NoMessage /\ asked.request = NoMessage /\ ExactAnswer(asked.outcome)
  BY <1>3 DEF AsksFor, Blank
<1>5. asked.dirty <= asked.sinceDispatch
  BY <1>0, <1>2, <1>3 DEF AsksFor, Lowest
<1>6. SchedInd(asked)
  BY <1>0, <1>4, <1>5 DEF SchedInd
<1>7. PICK none \in [{} -> States] : none = [x \in {} |-> Ground.state]
  OBVIOUS
<1>8. PICK w : w = FreshWorker
  OBVIOUS
<1>9. EmptyCache = [qubits |-> 0, entries |-> none] /\ none \in Entries
  BY <1>7 DEF EmptyCache, Entries
<1>10. EmptyCache \in Caches /\ DOMAIN EmptyCache.entries = {}
  BY <1>7, <1>9 DEF Caches
<1>11. w \in Workers /\ w.cache = EmptyCache /\ w.inbox = NoRequest /\ w.job = NoJob
  BY <1>8, <1>10 DEF FreshWorker, Workers
<1>12. PICK q \in Seq(Messages) : q = <<>> /\ DOMAIN q = {}
  <2>0. <<>> \in Seq(Messages)
    OBVIOUS
  <2>1. PICK q \in Seq(Messages) : q = <<>>
    BY <2>0, Zenon
  <2>2. Len(q) = 0 /\ DOMAIN q = 1 .. Len(q)
    BY <2>1
  <2>3. DOMAIN q = {}
    BY <2>2
  <2> QED BY <2>1, <2>3
<1>13. PICK o \in Seq(Answers) : o = <<>> /\ DOMAIN o = {}
  <2>0. <<>> \in Seq(Answers)
    OBVIOUS
  <2>1. PICK o \in Seq(Answers) : o = <<>>
    BY <2>0, Zenon
  <2>2. Len(o) = 0 /\ DOMAIN o = 1 .. Len(o)
    BY <2>1
  <2>3. DOMAIN o = {}
    BY <2>2
  <2> QED BY <2>1, <2>3
<1>14. Asked(q) = {} /\ Ordered(q) /\ Wanted(asked, w, q) = {} /\ Done(w, o) = {}
  BY <1>0, <1>4, <1>11, <1>12, <1>13 DEF Asked, Ordered, Wanted, Done, Range
<1>15. Cardinality(DOMAIN w.cache.entries) <= Limit
  <2>1. DOMAIN w.cache.entries = {}
    BY <1>10, <1>11
  <2>2. Cardinality({}) = 0 /\ 0 <= Limit
    BY <1>0, FS_EmptySet
  <2> QED BY <2>1, <2>2
<1>16. WorkerInd(asked, w, q, o)
  BY <1>0, <1>4, <1>11, <1>14, <1>15 DEF WorkerInd
<1>17. FlightInd(asked, w, q, o) /\ ExactInd(asked, w, o)
  BY <1>14 DEF FlightInd, ExactInd
<1>18. WarmInd(asked, w, q)
  BY <1>10, <1>11, <1>14 DEF WarmInd, TrueOf
<1>19. ServerInd(asked, NoLive, c)
  <2>1. NoLive.id = 0 /\ 0 <= s.lastId
    BY <1>0 DEF NoLive
  <2>2. \A x \in c : x.id # 0
    BY DEF Calls, Id
  <2> QED BY <1>0, <1>4, <2>1, <2>2 DEF ServerInd
<1>20. Sent(asked, NoLive, c, w, q, o)
  BY <1>6, <1>16, <1>17, <1>18, <1>19 DEF Sent, Page
<1>21. Sent(t, NoLive, c, w, q, o) /\ PanelInd(t, FALSE)
  <2>1. asked.pending # NoQuestion
    BY <1>0, <1>4
  <2> QED BY <1>3, <1>4, <1>20, <2>1, BecomesKeeps
<1>22. t.cancel = NoMessage /\ t.request = NoMessage
  <2>1. k # Clean
    BY <1>0, <1>2 DEF Clean
  <2>2. ASSUME NEW code \in Failures, t = Refuse(asked, code) PROVE t.cancel = NoMessage /\ t.request = NoMessage
    <3>1. Idles(asked, t) /\ Tells(asked, t)
      BY <1>4, <1>6, <2>2, RefuseFacts
    <3> QED BY <1>4, <3>1 DEF Idles, Known, Tells
  <2> QED BY <1>3, <1>4, <2>1, <2>2 DEF BecomesOf, Failures
<1> QED BY <1>8, <1>12, <1>13, <1>21, <1>22


------------------------------------------------------------------------------
(* The actions of the page. *)

\* One edit of a question is a question.
LEMMA EditsAreQuestions ==
  ASSUME NEW p \in Questions
  PROVE  Edits(p) \subseteq Questions
<1>1. PICK a \in Circuits : a = p.circuit
  BY DEF Questions
<1>2. PICK r \in [mode : Modes, through : -1 .. Columns] : r = p.run
  BY DEF Questions
<1>3. ASSUME NEW x \in Column, NEW v \in Contents PROVE [p EXCEPT !.circuit.col[x] = v] \in Questions
  <2>1. [a.col EXCEPT ![x] = v] \in [Column -> Contents \cup {1}]
    BY DEF Circuits
  <2>2. PICK f \in [Column -> Contents \cup {1}] : f = [a.col EXCEPT ![x] = v]
    BY <2>1
  <2>3. PICK b \in Circuits : b = [a EXCEPT !.col = f]
    BY DEF Circuits
  <2>4. [p EXCEPT !.circuit.col[x] = v] = [p EXCEPT !.circuit = b]
    BY <1>1, <2>2, <2>3
  <2>5. [p EXCEPT !.circuit = b] \in Questions
    BY DEF Questions
  <2> QED BY <2>4, <2>5
<1>4. ASSUME NEW n \in Registers PROVE [p EXCEPT !.circuit.qubits = n] \in Questions
  <2>1. PICK b \in Circuits : b = [a EXCEPT !.qubits = n]
    BY DEF Circuits
  <2>2. [p EXCEPT !.circuit.qubits = n] = [p EXCEPT !.circuit = b]
    BY <1>1, <2>1
  <2>3. [p EXCEPT !.circuit = b] \in Questions
    BY DEF Questions
  <2> QED BY <2>2, <2>3
<1>5. ASSUME NEW m \in Modes PROVE [p EXCEPT !.run.mode = m] \in Questions
  BY DEF Questions
<1>6. ASSUME NEW x \in Positions PROVE [p EXCEPT !.run.through = x] \in Questions
  <2>1. x \in -1 .. Columns
    BY PositionsAssumption
  <2>2. PICK b \in [mode : Modes, through : -1 .. Columns] : b = [r EXCEPT !.through = x]
    BY <2>1
  <2>3. [p EXCEPT !.run.through = x] = [p EXCEPT !.run = b]
    BY <1>2, <2>2
  <2>4. [p EXCEPT !.run = b] \in Questions
    BY DEF Questions
  <2> QED BY <2>3, <2>4
<1> QED BY <1>3, <1>4, <1>5, <1>6 DEF Edits

\* An edit makes the columns it changed stale.
LEMMA EditKeeps ==
  ASSUME IInv, Edit
  PROVE  IInv'
<1>0. /\ Sent(sched, live, calls, worker, toWorker, toMain) /\ PanelInd(sched, given)
      /\ sched.cancel = NoMessage /\ sched.request = NoMessage
  BY DEF IInv
<1>1. SchedInd(sched) /\ Page(sched, worker, toWorker, toMain) /\ ServerInd(sched, live, calls)
      /\ sched \in Scheds /\ sched.last # NoQuestion
  BY <1>0 DEF Sent, SchedInd
<1>2. PICK question \in Edits(sched.last) \ {sched.last} : Post(Schedule(sched, question))
  BY DEF Edit
<1>3. question \in Questions
  <2>1. sched.last \in Questions
    BY <1>1 DEF Scheds
  <2> QED BY <2>1, EditsAreQuestions
<1>4. PICK k : k = Changed(sched, question)
  OBVIOUS
<1>5. PICK t : t = Schedule(sched, question)
  OBVIOUS
<1>6. question # sched.last
  BY <1>2
<1>7. k \in 0 .. Columns /\ Agree(sched.last.circuit, question.circuit, k)
  BY <1>1, <1>3, <1>4, <1>5, <1>6, ScheduleFacts
<1>8. PICK asked : AsksFor(sched, question, k, asked) /\ BecomesOf(asked, k, t)
  BY <1>1, <1>3, <1>4, <1>5, <1>6, ScheduleFacts
<1>9. SchedInd(asked) /\ Page(asked, worker, toWorker, toMain) /\ ServerInd(asked, live, calls)
  BY <1>0, <1>1, <1>3, <1>7, <1>8, AsksKeeps
<1>10. Sent(asked, live, calls, worker, toWorker, toMain)
  BY <1>9 DEF Sent
<1>11. asked.request = NoMessage /\ asked.cancel = NoMessage /\ asked.pending # NoQuestion /\ ExactAnswer(asked.outcome)
  <2>1. question # NoQuestion
    BY <1>3 DEF Questions, NoQuestion, Modes
  <2> QED BY <1>0, <1>8, <2>1 DEF AsksFor, PanelInd
<1>12. Sent(t, live, calls, worker, toWorker, toMain) /\ PanelInd(t, FALSE)
  BY <1>8, <1>10, <1>11, BecomesKeeps
<1>13. Post(t)
  BY <1>2, <1>5
<1>14. /\ Sent(sched', live', calls', worker, toWorker', toMain) /\ PanelInd(sched', FALSE)
       /\ sched'.cancel = NoMessage /\ sched'.request = NoMessage
  BY <1>12, <1>13, PostKeeps
<1>15. worker' = worker /\ toMain' = toMain /\ given' = FALSE
  BY DEF Edit
<1> QED BY <1>14, <1>15 DEF IInv

\* A dispatch of what is scheduled.
LEMMA DispatchKeeps ==
  ASSUME IInv, sched.pending # NoQuestion, Post(Dispatch(sched)), UNCHANGED <<given, toMain, worker>>
  PROVE  IInv'
<1>0. /\ Sent(sched, live, calls, worker, toWorker, toMain) /\ PanelInd(sched, given)
      /\ sched.cancel = NoMessage /\ sched.request = NoMessage
  BY DEF IInv
<1>1. PICK t : t = Dispatch(sched)
  OBVIOUS
<1>2. BecomesOf(sched, Clean, t) /\ ExactAnswer(sched.outcome)
  BY <1>0, <1>1 DEF BecomesOf, PanelInd
<1>3. Sent(t, live, calls, worker, toWorker, toMain) /\ PanelInd(t, FALSE)
  BY <1>0, <1>2, BecomesKeeps
<1>4. /\ Sent(sched', live', calls', worker, toWorker', toMain) /\ PanelInd(sched', FALSE)
      /\ sched'.cancel = NoMessage /\ sched'.request = NoMessage
  BY <1>1, <1>3, PostKeeps
<1>5. ~given
  BY <1>0 DEF PanelInd
<1>6. PanelInd(sched', given')
  BY <1>4, <1>5 DEF PanelInd
<1> QED BY <1>4, <1>6 DEF IInv

\* The Run button.
LEMMA FlushKeeps ==
  ASSUME IInv, Flush
  PROVE  IInv'
BY DispatchKeeps DEF Flush

\* The timer.
LEMMA TimerKeeps ==
  ASSUME IInv, TimerFires
  PROVE  IInv'
<1>1. sched.pending # NoQuestion
  BY DEF IInv, Sent, SchedInd, TimerFires
<1> QED BY <1>1, DispatchKeeps DEF TimerFires, Quiet

\* What gives up the request in flight, with the worker's side given.
LEMMA GivesUpKeeps ==
  ASSUME IInv, NEW t, Idles(sched, t), Tells(sched, t), Post(t), NEW w, NEW o, NEW g,
         Page(sched, w, toWorker, o), PanelInd(t, g), worker' = w, toMain' = o, given' = g
  PROVE  IInv'
<1>0. /\ Sent(sched, live, calls, worker, toWorker, toMain)
      /\ sched.cancel = NoMessage /\ sched.request = NoMessage
  BY DEF IInv
<1>1. SchedInd(sched) /\ ServerInd(sched, live, calls)
  BY <1>0 DEF Sent
<1>2. SchedInd(t) /\ Page(t, w, toWorker, o) /\ ServerInd(t, live, calls)
  BY <1>0, <1>1, IdlesKeeps, IdlesServes
<1>3. Sent(t, live, calls, w, toWorker, o)
  BY <1>2 DEF Sent
<1>4. /\ Sent(sched', live', calls', w, toWorker', o) /\ PanelInd(sched', g)
      /\ sched'.cancel = NoMessage /\ sched'.request = NoMessage
  BY <1>3, PostKeeps
<1> QED BY <1>4 DEF IInv

\* The reader gives up.
LEMMA ReaderCancelsKeeps ==
  ASSUME IInv, ReaderCancels
  PROVE  IInv'
<1>0. SchedInd(sched) /\ sched.cancel = NoMessage /\ Page(sched, worker, toWorker, toMain) /\ ExactAnswer(sched.outcome)
  BY DEF IInv, Sent, PanelInd
<1>1. PICK t : t = Cancel(sched)
  OBVIOUS
<1>2. Idles(sched, t) /\ Tells(sched, t) /\ t.pending = NoQuestion
  BY <1>0, <1>1, CancelFacts
<1>3. PanelInd(t, TRUE)
  BY <1>0, <1>2 DEF PanelInd, Idles
<1>4. Post(t) /\ worker' = worker /\ toMain' = toMain /\ given' = TRUE
  BY <1>1 DEF ReaderCancels
<1> QED BY <1>0, <1>2, <1>3, <1>4, GivesUpKeeps

\* What runs has failed, with the worker's side given.
LEMMA FailKeeps ==
  ASSUME IInv, NEW code \in Failures, Post(Fail(sched, code)), NEW w, NEW o,
         Page(sched, w, toWorker, o), worker' = w, toMain' = o, given' = given
  PROVE  IInv'
<1>0. /\ Sent(sched, live, calls, worker, toWorker, toMain) /\ PanelInd(sched, given)
      /\ sched.cancel = NoMessage /\ sched.request = NoMessage /\ SchedInd(sched) /\ ServerInd(sched, live, calls)
  BY DEF IInv, Sent
<1>1. PICK t : t = Fail(sched, code)
  OBVIOUS
<1>2. CASE t = sched
  <2>1. Sent(t, live, calls, w, toWorker, o) /\ PanelInd(t, given)
    BY <1>0, <1>2 DEF Sent
  <2>2. /\ Sent(sched', live', calls', w, toWorker', o) /\ PanelInd(sched', given)
        /\ sched'.cancel = NoMessage /\ sched'.request = NoMessage
    BY <1>1, <2>1, PostKeeps
  <2> QED BY <2>2 DEF IInv
<1>3. CASE Idles(sched, t) /\ Tells(sched, t) /\ t.pending = sched.pending /\ t.failure = code
  <2>1. code # "none"
    BY DEF Failures
  <2>2. PanelInd(t, given)
    BY <1>0, <1>3, <2>1 DEF PanelInd, Idles
  <2>3. Post(t)
    BY <1>1
  <2> QED BY <1>3, <2>2, <2>3, GivesUpKeeps
<1> QED BY <1>0, <1>1, <1>2, <1>3, FailFacts

\* A reply is taken from the line, whatever it says.
LEMMA TailRests ==
  ASSUME NEW s, NEW w, NEW q, NEW o, Page(s, w, q, o), s.request = NoMessage, o # <<>>
  PROVE  Page(s, w, q, Tail(o)) /\ Head(o) \in Done(w, o)
<1>0. w \in Workers /\ q \in Seq(Messages) /\ o \in Seq(Answers)
  BY DEF Page, WorkerInd
<1>1. PICK u : u = Tail(o)
  OBVIOUS
<1>2. u \in Seq(Answers) /\ Range(u) \subseteq Range(o) /\ Head(o) \in Range(o)
  BY <1>0, <1>1, RangeFacts
<1>3. Rests(s, w, q, o, w, q, u)
  BY <1>0, <1>2 DEF Rests, Done, Page, WorkerInd
<1> QED BY <1>1, <1>2, <1>3, RestKeeps DEF Done

\* An answer arrives.
LEMMA AnswerArrivesKeeps ==
  ASSUME IInv, AnswerArrives
  PROVE  IInv'
<1>0. /\ Sent(sched, live, calls, worker, toWorker, toMain) /\ PanelInd(sched, given)
      /\ sched.cancel = NoMessage /\ sched.request = NoMessage /\ Page(sched, worker, toWorker, toMain)
  BY DEF IInv, Sent
<1>1. toMain # <<>> /\ toMain' = Tail(toMain) /\ sched' = Receive(sched, Head(toMain))
      /\ worker' = worker /\ toWorker' = toWorker /\ live' = live /\ calls' = calls /\ given' = given
  BY DEF AnswerArrives, backendVars, Quiet
<1>2. PICK a : a = Head(toMain)
  OBVIOUS
<1>3. a \in Done(worker, toMain)
  BY <1>0, <1>1, <1>2, TailRests
<1>4. PICK t : t = sched'
  OBVIOUS
<1>5. Sent(t, live, calls, worker, toWorker, toMain) /\ PanelInd(t, given) /\ t.cancel = NoMessage /\ t.request = NoMessage
  BY <1>0, <1>1, <1>2, <1>3, <1>4, AnswerKeeps
<1>6. Page(t, worker, toWorker, Tail(toMain))
  BY <1>1, <1>5, TailRests DEF Sent
<1>7. Sent(t, live, calls, worker, toWorker, Tail(toMain))
  BY <1>5, <1>6 DEF Sent
<1> QED BY <1>1, <1>4, <1>5, <1>7 DEF IInv


\* A reply that cannot be read.
LEMMA AnswerIsUnreadableKeeps ==
  ASSUME IInv, AnswerIsUnreadable
  PROVE  IInv'
<1>1. Page(sched, worker, toWorker, toMain) /\ sched.request = NoMessage
  BY DEF IInv, Sent
<1>2. toMain # <<>> /\ Post(Fail(sched, "worker-failed")) /\ worker' = worker /\ toMain' = Tail(toMain) /\ given' = given
  BY DEF AnswerIsUnreadable, Fault
<1>3. Page(sched, worker, toWorker, Tail(toMain))
  BY <1>1, <1>2, TailRests
<1>4. "worker-failed" \in Failures
  BY DEF Failures
<1> QED BY <1>2, <1>3, <1>4, FailKeeps

\* An error of the worker.
LEMMA WorkerErrorsKeeps ==
  ASSUME IInv, WorkerErrors
  PROVE  IInv'
<1>1. Page(sched, worker, toWorker, toMain)
  BY DEF IInv, Sent
<1>2. Post(Fail(sched, "worker-failed")) /\ worker' = worker /\ toMain' = toMain /\ given' = given
  BY DEF WorkerErrors, Fault
<1>3. "worker-failed" \in Failures
  BY DEF Failures
<1> QED BY <1>1, <1>2, <1>3, FailKeeps

\* A worker that is lost keeps what it holds.
LEMMA WorkerIsLostKeeps ==
  ASSUME IInv, WorkerIsLost
  PROVE  IInv'
<1>1. Page(sched, worker, toWorker, toMain) /\ sched.request = NoMessage
  BY DEF IInv, Sent
<1>2. Post(Fail(sched, "worker-failed")) /\ worker' = [worker EXCEPT !.dead = TRUE] /\ toMain' = toMain /\ given' = given
  BY DEF WorkerIsLost, Fault
<1>3. PICK w \in Workers : w = worker
  BY <1>1 DEF Page, WorkerInd
<1>4. PICK v : v = [w EXCEPT !.dead = TRUE]
  OBVIOUS
<1>5. v \in Workers /\ v.cache = w.cache /\ v.inbox = w.inbox /\ v.job = w.job
  BY <1>4 DEF Workers
<1>6. Wanted(sched, v, toWorker) = Wanted(sched, w, toWorker) /\ Done(v, toMain) = Done(w, toMain)
  BY <1>5 DEF Wanted, Done
<1>7. Rests(sched, w, toWorker, toMain, v, toWorker, toMain)
  BY <1>1, <1>3, <1>5, <1>6 DEF Rests, Page, WorkerInd
<1>8. Page(sched, v, toWorker, toMain)
  BY <1>1, <1>3, <1>7, RestKeeps
<1>9. "worker-failed" \in Failures
  BY DEF Failures
<1> QED BY <1>2, <1>3, <1>4, <1>8, <1>9, FailKeeps

\* The page is left and opened again.
LEMMA RemountKeeps ==
  ASSUME IInv, Remount
  PROVE  IInv'
<1>0. /\ SchedInd(sched) /\ ServerInd(sched, live, calls) /\ ExactAnswer(sched.outcome)
      /\ sched.cancel = NoMessage /\ sched.request = NoMessage /\ sched \in Scheds
  BY DEF IInv, Sent, PanelInd, SchedInd
<1>1. PICK question \in Questions : question = sched.last
  BY <1>0 DEF SchedInd, Scheds
<1>2. PICK s : s = Reset(sched)
  OBVIOUS
<1>3. /\ s \in Scheds /\ s.last = NoQuestion /\ s.inFlight = 0 /\ s.on = "none" /\ s.serverRun = "none"
      /\ s.cancel = NoMessage /\ s.request = NoMessage /\ s.outcome = sched.outcome /\ s.lastId = sched.lastId
  <2>1. PICK all \in 0 .. Columns : all = Columns
    BY CheckpointsAssumption
  <2>2. PICK u : u = [sched EXCEPT !.timer = FALSE, !.pending = NoQuestion]
    OBVIOUS
  <2>3. /\ u \in Scheds /\ u.cancel = NoMessage /\ u.request = NoMessage /\ u.outcome = sched.outcome
        /\ u.lastId = sched.lastId
    BY <1>0, <2>2 DEF Scheds
  <2>4. PICK v : v = [u EXCEPT !.inFlight = 0, !.on = "none", !.serverRun = "none"]
    OBVIOUS
  <2>5. /\ v \in Scheds /\ v.cancel = NoMessage /\ v.request = NoMessage /\ v.outcome = sched.outcome
        /\ v.lastId = sched.lastId /\ v.inFlight = 0 /\ v.on = "none" /\ v.serverRun = "none"
    BY <2>3, <2>4 DEF Scheds
  <2>6. s = [v EXCEPT !.last = NoQuestion, !.dirty = all, !.sinceDispatch = all]
    BY <1>2, <2>1, <2>2, <2>4 DEF Reset, Clean
  <2> QED BY <2>5, <2>6 DEF Scheds
<1>4. Blank(s)
  BY <1>0, <1>3 DEF Blank
<1>5. calls \in SUBSET Calls /\ \A x \in calls : x.id <= s.lastId
  BY <1>0, <1>3 DEF ServerInd
<1>6. PICK t : t = Schedule(s, question)
  OBVIOUS
<1>7. /\ Sent(t, NoLive, calls, FreshWorker, <<>>, <<>>) /\ PanelInd(t, FALSE)
      /\ t.cancel = NoMessage /\ t.request = NoMessage
  BY <1>4, <1>5, <1>6, BlankKeeps
<1>8. /\ sched' = t /\ worker' = FreshWorker /\ toWorker' = <<>> /\ toMain' = <<>> /\ live' = NoLive
      /\ given' = FALSE /\ calls' = calls
  BY <1>1, <1>2, <1>6 DEF Remount
<1> QED BY <1>7, <1>8 DEF IInv

\* And when it is opened first.
LEMMA InitIsSound == Init => IInv
<1>1. SUFFICES ASSUME Init PROVE IInv
  OBVIOUS
<1>2. PICK server \in Servers : sched = Schedule([Idle EXCEPT !.hasServer = server], Start)
  BY <1>1 DEF Init
<1>3. PICK s : s = [Idle EXCEPT !.hasServer = server]
  OBVIOUS
<1>4. PICK all \in 0 .. Columns : all = Clean
  BY CheckpointsAssumption DEF Clean
<1>5. /\ s \in Scheds /\ s.last = NoQuestion /\ s.inFlight = 0 /\ s.on = "none" /\ s.serverRun = "none"
      /\ s.cancel = NoMessage /\ s.request = NoMessage /\ s.outcome = NoOutcome
  BY <1>3, <1>4 DEF Idle, Scheds
<1>6. Blank(s)
  BY <1>5, NoOutcomeFacts DEF Blank
<1>7. Start \in Questions
  <2>1. [c \in Column |-> 1] \in [Column -> Contents \cup {1}]
    OBVIOUS
  <2>2. Whole \in -1 .. Columns /\ "analytic" \in Modes
    BY CheckpointsAssumption DEF Whole, Modes
  <2> QED BY <2>1, <2>2 DEF Start, Questions, Circuits
<1>8. PICK question \in Questions : question = Start
  BY <1>7
<1>9. PICK none \in SUBSET Calls : none = {}
  OBVIOUS
<1>10. PICK t : t = Schedule(s, question)
  OBVIOUS
<1>11. /\ Sent(t, NoLive, none, FreshWorker, <<>>, <<>>) /\ PanelInd(t, FALSE)
       /\ t.cancel = NoMessage /\ t.request = NoMessage
  BY <1>6, <1>9, <1>10, BlankKeeps
<1>12. /\ sched = t /\ worker = FreshWorker /\ toWorker = <<>> /\ toMain = <<>> /\ live = NoLive
       /\ given = FALSE /\ calls = {}
  BY <1>1, <1>2, <1>3, <1>8, <1>10 DEF Init, WorkerInit, BackendInit
<1> QED BY <1>9, <1>11, <1>12 DEF IInv

------------------------------------------------------------------------------
(* The actions of the worker. *)

\* A message is handled, or a job yields.
LEMMA WorkerSideKeeps ==
  ASSUME IInv, NEW breaksAt \in 0 .. Columns, OnMessage(breaksAt) \/ AfterYield(breaksAt),
         UNCHANGED <<sched, live, calls, given>>
  PROVE  IInv'
<1>1. /\ sched \in Scheds /\ sched.inFlight \in {0, sched.lastId} /\ sched.request = NoMessage
      /\ Page(sched, worker, toWorker, toMain)
  BY DEF IInv, Sent, SchedInd
<1>2. Page(sched, worker', toWorker', toMain')
  BY <1>1, OnMessageKeeps, AfterYieldKeeps
<1> QED BY <1>2 DEF IInv, Sent

\* A job comes to its end.
LEMMA WorkerStepKeeps ==
  ASSUME IInv, WorkerStep
  PROVE  IInv'
<1>1. Whole \in 0 .. Columns
  BY CheckpointsAssumption DEF Whole
<1> QED BY <1>1, WorkerSideKeeps DEF WorkerStep, backendVars, Quiet

\* Or it breaks.
LEMMA JobBreaksKeeps ==
  ASSUME IInv, JobBreaks
  PROVE  IInv'
<1>1. PICK c \in Column : OnMessage(c) \/ AfterYield(c)
  BY DEF JobBreaks
<1>2. c \in 0 .. Columns
  BY CheckpointsAssumption DEF Column
<1> QED BY <1>1, <1>2, WorkerSideKeeps DEF JobBreaks, backendVars, Fault

------------------------------------------------------------------------------
(* The actions of the server. *)

\* The scheduler hears nothing, and the run goes on.
LEMMA NothingKeeps ==
  ASSUME IInv, GoesOn(live, calls, live', calls'), UNCHANGED <<sched, workerVars, given>>
  PROVE  IInv'
<1>1. Sent(sched, live', calls', worker, toWorker, toMain)
  BY SentGoesOn DEF IInv
<1> QED BY <1>1 DEF IInv, workerVars

\* The run goes on, and the scheduler hears of it.
LEMMA WatchingKeeps ==
  ASSUME IInv, live \in Lives, sched' = Report(sched, live.id, "watching"),
         GoesOn(live, calls, live', calls'), UNCHANGED <<workerVars, given>>
  PROVE  IInv'
<1>1. PICK t : t = Report(sched, live.id, "watching")
  OBVIOUS
<1>2. /\ Sent(t, live, calls, worker, toWorker, toMain) /\ PanelInd(t, given)
      /\ t.cancel = NoMessage /\ t.request = NoMessage
  BY <1>1, ReportKeeps DEF IInv
<1>3. Sent(t, live', calls', worker, toWorker, toMain)
  BY <1>2, SentGoesOn
<1> QED BY <1>1, <1>2, <1>3 DEF IInv, workerVars

\* The run is over.
LEMMA ReleaseKeeps ==
  ASSUME IInv, live \in Lives, NEW a \in Answers, a.kind \in {"server", "error"}, a.id = live.id,
         \E x \in calls \cup {live} : x.id = a.id /\ x.question = a.question,
         ReleaseWith(a), calls' \in SUBSET calls, UNCHANGED <<workerVars, given>>
  PROVE  IInv'
<1>0. /\ Sent(sched, live, calls, worker, toWorker, toMain) /\ PanelInd(sched, given)
      /\ sched.cancel = NoMessage /\ sched.request = NoMessage /\ ServerInd(sched, live, calls)
  BY DEF IInv, Sent
<1>1. PICK t : t = Receive(sched, a)
  OBVIOUS
<1>2. a.id = sched.inFlight /\ sched.pending = NoQuestion => a.question = sched.last
  <2>1. live # NoLive
    BY DEF Lives, NoLive
  <2> QED BY <1>0, <2>1 DEF ServerInd
<1>3. /\ Sent(t, NoLive, calls, worker, toWorker, toMain) /\ PanelInd(t, given)
      /\ t.cancel = NoMessage /\ t.request = NoMessage
  BY <1>0, <1>1, <1>2, ServerAnswerKeeps
<1>4. GoesOn(NoLive, calls, NoLive, calls')
  BY <1>0 DEF GoesOn, ServerInd
<1>5. Sent(t, NoLive, calls', worker, toWorker, toMain)
  BY <1>3, <1>4, SentGoesOn
<1>6. sched' = t /\ live' = NoLive
  BY <1>1 DEF ReleaseWith
<1> QED BY <1>3, <1>5, <1>6 DEF IInv, workerVars

\* What the server says to a call, or to the run itself, is an answer.
LEMMA AnswersToFacts ==
  ASSUME NEW x \in Calls \cup Lives
  PROVE  /\ ErrorFor(x) \in Answers /\ ErrorFor(x).kind = "error"
         /\ ErrorFor(x).id = x.id /\ ErrorFor(x).question = x.question
         /\ ServerResult(x) \in Answers /\ ServerResult(x).kind = "server"
         /\ ServerResult(x).id = x.id /\ ServerResult(x).question = x.question
<1>1. x.id \in Id /\ x.question \in Questions
  BY DEF Calls, Lives
<1>2. x.question.circuit \in Circuits
  BY <1>1 DEF Questions
<1>3. PICK state \in States : state = StateAfter(x.question.circuit, Whole)
  BY <1>2, AfterKind
<1>4. Ground.state \in States
  BY DEF Ground, States
<1> QED BY <1>1, <1>3, <1>4 DEF ErrorFor, ServerResult, Answers

\* A call the run that is driven waits for is that run's.
LEMMA CallFacts ==
  ASSUME IInv, NEW call \in calls
  PROVE  /\ call \in Calls /\ calls \in SUBSET Calls /\ live \in Lives \cup {NoLive}
         /\ live.id = call.id => live \in Lives
<1>1. ServerInd(sched, live, calls)
  BY DEF IInv, Sent
<1>2. call \in Calls /\ calls \in SUBSET Calls /\ live \in Lives \cup {NoLive}
  BY <1>1 DEF ServerInd
<1>3. call.id # 0 /\ NoLive.id = 0
  BY <1>2 DEF Calls, Id, NoLive
<1> QED BY <1>2, <1>3

\* A call is answered and changes nothing.
LEMMA IgnoredKeeps ==
  ASSUME IInv, NEW call \in calls, Nothing, calls' = calls \ {call}, UNCHANGED <<workerVars, given>>
  PROVE  IInv'
<1>1. GoesOn(live, calls, live', calls')
  BY CallFacts DEF GoesOn, Nothing
<1> QED BY <1>1, NothingKeeps DEF Nothing

\* A call is answered with the end of the run.
LEMMA EndedKeeps ==
  ASSUME IInv, NEW call \in calls, live.id = call.id, ReleaseWith(ServerResult(call)) \/ ReleaseWith(ErrorFor(call)),
         calls' = calls \ {call}, UNCHANGED <<workerVars, given>>
  PROVE  IInv'
<1>1. call \in Calls /\ live \in Lives
  BY CallFacts
<1>2. PICK a \in Answers : a \in {ServerResult(call), ErrorFor(call)} /\ ReleaseWith(a)
  BY <1>1, AnswersToFacts
<1>3. a.kind \in {"server", "error"} /\ a.id = live.id /\ call.id = a.id /\ call.question = a.question
  BY <1>1, <1>2, AnswersToFacts
<1> QED BY <1>1, <1>2, <1>3, ReleaseKeeps


\* The run that is driven becomes another of its states.
LEMMA LiveGoesOn ==
  ASSUME IInv, live \in Lives, NEW l1 \in Lives, l1.id = live.id, l1.question = live.question,
         live' = l1, calls' \in SUBSET calls
  PROVE  GoesOn(live, calls, live', calls')
<1>1. calls \in SUBSET Calls
  BY DEF IInv, Sent, ServerInd
<1> QED BY <1>1 DEF GoesOn

\* A submission is answered.
LEMMA SubmissionKeeps ==
  ASSUME IInv, NEW call \in calls, NEW finished \in BOOLEAN, Submitted(call, finished), UNCHANGED <<workerVars, given>>
  PROVE  IInv'
<1>1. calls' = calls \ {call}
  BY DEF Submitted
<1>2. CASE live.id # call.id
  <2>1. Nothing
    BY <1>2 DEF Submitted
  <2> QED BY <1>1, <2>1, IgnoredKeeps
<1>3. CASE live.id = call.id /\ finished
  <2>1. ReleaseWith(ServerResult(call))
    BY <1>3 DEF Submitted
  <2> QED BY <1>1, <1>3, <2>1, EndedKeeps
<1>4. CASE live.id = call.id /\ ~finished
  <2>1. live \in Lives
    BY <1>4, CallFacts
  <2>2. live' = [live EXCEPT !.stage = "watching", !.polling = "armed"] /\ sched' = Report(sched, live.id, "watching")
    BY <1>4 DEF Submitted
  <2>3. PICK l1 : l1 = [live EXCEPT !.stage = "watching", !.polling = "armed"]
    OBVIOUS
  <2>4. l1 \in Lives /\ l1.id = live.id /\ l1.question = live.question
    BY <2>1, <2>3 DEF Lives
  <2>5. calls' \in SUBSET calls /\ live' = l1
    BY <1>1, <2>2, <2>3
  <2>6. GoesOn(live, calls, live', calls')
    BY <2>1, <2>4, <2>5, LiveGoesOn
  <2> QED BY <2>1, <2>2, <2>6, WatchingKeeps
<1> QED BY <1>2, <1>3, <1>4

\* The poll that asked is armed again.
LEMMA RearmedGoesOn ==
  ASSUME IInv, NEW call \in calls, live.id = call.id, Rearmed(call), calls' = calls \ {call}
  PROVE  live \in Lives /\ GoesOn(live, calls, live', calls')
<1>1. live \in Lives
  BY CallFacts
<1>2. PICK p \in {"no", "armed", "reading"} : p = IF call.kind = "poll" THEN "armed" ELSE live.polling
  BY <1>1 DEF Lives
<1>3. PICK l1 : l1 = [live EXCEPT !.polling = p]
  OBVIOUS
<1>4. l1 \in Lives /\ l1.id = live.id /\ l1.question = live.question
  BY <1>1, <1>3 DEF Lives
<1>5. live' = l1 /\ calls' \in SUBSET calls
  BY <1>2, <1>3 DEF Rearmed
<1> QED BY <1>1, <1>4, <1>5, LiveGoesOn

\* A read is answered.
LEMMA SettledKeeps ==
  ASSUME IInv, NEW call \in calls, Settled(call), UNCHANGED <<workerVars, given>>
  PROVE  IInv'
<1>1. calls' = calls \ {call}
  BY DEF Settled
<1>2. CASE live.id # call.id
  <2>1. Nothing
    BY <1>2 DEF Settled
  <2> QED BY <1>1, <2>1, IgnoredKeeps
<1>3. CASE live.id = call.id /\ call.id \in ended
  <2>1. ReleaseWith(ServerResult(call))
    BY <1>3 DEF Settled
  <2> QED BY <1>1, <1>3, <2>1, EndedKeeps
<1>4. CASE live.id = call.id /\ call.id \notin ended
  <2>1. Rearmed(call) /\ sched' = Report(sched, live.id, "watching")
    BY <1>4 DEF Settled
  <2>2. live \in Lives /\ GoesOn(live, calls, live', calls')
    BY <1>1, <1>4, <2>1, RearmedGoesOn
  <2> QED BY <2>1, <2>2, WatchingKeeps
<1> QED BY <1>2, <1>3, <1>4

\* Or fails.
LEMMA ReadFailsKeeps ==
  ASSUME IInv, NEW call \in calls, NEW gone \in BOOLEAN, ReadFails(call, gone), UNCHANGED <<workerVars, given>>
  PROVE  IInv'
<1>1. calls' = calls \ {call}
  BY DEF ReadFails
<1>2. CASE live.id # call.id
  <2>1. Nothing
    BY <1>2 DEF ReadFails
  <2> QED BY <1>1, <2>1, IgnoredKeeps
<1>3. CASE live.id = call.id /\ gone
  <2>1. ReleaseWith(ErrorFor(call))
    BY <1>3 DEF ReadFails
  <2> QED BY <1>1, <1>3, <2>1, EndedKeeps
<1>4. CASE live.id = call.id /\ ~gone
  <2>1. Rearmed(call) /\ sched' = sched
    BY <1>4 DEF ReadFails
  <2>2. GoesOn(live, calls, live', calls')
    BY <1>1, <1>4, <2>1, RearmedGoesOn
  <2> QED BY <2>1, <2>2, NothingKeeps
<1> QED BY <1>2, <1>3, <1>4

\* A submission is refused.
LEMMA RefusedKeeps ==
  ASSUME IInv, NEW call \in calls, SubmissionRefused(call), UNCHANGED <<workerVars, given>>
  PROVE  IInv'
<1>1. calls' = calls \ {call}
  BY DEF SubmissionRefused
<1>2. CASE live.id # call.id
  <2>1. Nothing
    BY <1>2 DEF SubmissionRefused
  <2> QED BY <1>1, <2>1, IgnoredKeeps
<1>3. CASE live.id = call.id
  <2>1. ReleaseWith(ErrorFor(call))
    BY <1>3 DEF SubmissionRefused
  <2> QED BY <1>1, <1>3, <2>1, EndedKeeps
<1> QED BY <1>2, <1>3

\* The feed is refused.
LEMMA FeedRefusesKeeps ==
  ASSUME IInv, FeedRefuses, UNCHANGED <<workerVars, given>>
  PROVE  IInv'
<1>1. live \in Lives
  BY DEF IInv, Sent, ServerInd, FeedRefuses, NoLive
<1>2. PICK a : a = ErrorFor(live)
  OBVIOUS
<1>3. a \in Answers /\ a.kind = "error" /\ a.id = live.id /\ a.question = live.question
  BY <1>1, <1>2, AnswersToFacts
<1>4. ReleaseWith(a) /\ calls' \in SUBSET calls
  BY <1>2 DEF FeedRefuses
<1> QED BY <1>1, <1>3, <1>4, ReleaseKeeps

\* A read of the run that is driven is sent.
LEMMA ReadIsSentKeeps ==
  ASSUME IInv, live \in Lives, NEW l1 \in Lives, l1.id = live.id, l1.question = live.question, live' = l1,
         NEW kind \in {"poll", "feed"}, calls' = calls \cup {Call(kind, live)}, UNCHANGED <<sched, workerVars, given>>
  PROVE  IInv'
<1>1. calls \in SUBSET Calls
  BY DEF IInv, Sent, ServerInd
<1>2. PICK x : x = Call(kind, live)
  OBVIOUS
<1>3. x \in Calls /\ x.id = live.id /\ x.question = live.question
  BY <1>2 DEF Call, Calls, Lives
<1>4. GoesOn(live, calls, live', calls')
  BY <1>1, <1>2, <1>3 DEF GoesOn
<1> QED BY <1>4, NothingKeeps

\* The poll timer.
LEMMA PollKeeps ==
  ASSUME IInv, Poll
  PROVE  IInv'
<1>1. live \in Lives
  BY DEF IInv, Sent, ServerInd, Poll, PollTick, NoLive
<1>2. PICK l1 : l1 = [live EXCEPT !.polling = "reading"]
  OBVIOUS
<1>3. l1 \in Lives /\ l1.id = live.id /\ l1.question = live.question
  BY <1>1, <1>2 DEF Lives
<1>4. live' = l1 /\ calls' = calls \cup {Call("poll", live)} /\ UNCHANGED <<sched, workerVars, given>>
  BY <1>2 DEF Poll, PollTick, Quiet
<1> QED BY <1>1, <1>3, <1>4, ReadIsSentKeeps

\* The feed.
LEMMA FeedKeeps ==
  ASSUME IInv, Feed
  PROVE  IInv'
<1>1. live \in Lives
  BY DEF IInv, Sent, ServerInd, Feed, FeedSpeaks, NoLive
<1>2. live' = live /\ calls' = calls \cup {Call("feed", live)} /\ UNCHANGED <<sched, workerVars, given>>
  BY DEF Feed, FeedSpeaks, Quiet
<1> QED BY <1>1, <1>2, ReadIsSentKeeps

\* The API ends a run, which nobody hears at once.
LEMMA ServerEndsKeeps ==
  ASSUME IInv, ServerEnds
  PROVE  IInv'
<1>1. UNCHANGED <<sched, live, calls, workerVars, given>>
  BY DEF ServerEnds, RunEnds, Quiet
<1> QED BY <1>1 DEF IInv, workerVars

------------------------------------------------------------------------------
(* The theorems. *)

\* No step leaves the invariant.
LEMMA StepIsSound ==
  ASSUME IInv, [Next]_vars
  PROVE  IInv'
<1>1. CASE Edit
  BY <1>1, EditKeeps
<1>2. CASE Flush
  BY <1>2, FlushKeeps
<1>3. CASE TimerFires
  BY <1>3, TimerKeeps
<1>4. CASE ReaderCancels
  BY <1>4, ReaderCancelsKeeps
<1>5. CASE Remount
  BY <1>5, RemountKeeps
<1>6. CASE AnswerArrives
  BY <1>6, AnswerArrivesKeeps
<1>7. CASE AnswerIsUnreadable
  BY <1>7, AnswerIsUnreadableKeeps
<1>8. CASE WorkerErrors
  BY <1>8, WorkerErrorsKeeps
<1>9. CASE WorkerIsLost
  BY <1>9, WorkerIsLostKeeps
<1>10. CASE WorkerStep
  BY <1>10, WorkerStepKeeps
<1>11. CASE JobBreaks
  BY <1>11, JobBreaksKeeps
<1>12. CASE SubmissionAnswers
  BY <1>12, SubmissionKeeps DEF SubmissionAnswers, Quiet
<1>13. CASE ReadAnswers
  BY <1>13, SettledKeeps DEF ReadAnswers, Quiet
<1>14. CASE Poll
  BY <1>14, PollKeeps
<1>15. CASE Feed
  BY <1>15, FeedKeeps
<1>16. CASE ServerEnds
  BY <1>16, ServerEndsKeeps
<1>17. CASE ServerFails
  BY <1>17, RefusedKeeps, ReadFailsKeeps, FeedRefusesKeeps DEF ServerFails, Fault
<1>18. CASE UNCHANGED vars
  BY <1>18 DEF vars, workerVars, backendVars, IInv
<1> QED BY <1>1, <1>2, <1>3, <1>4, <1>5, <1>6, <1>7, <1>8, <1>9, <1>10, <1>11, <1>12, <1>13, <1>14, <1>15,
           <1>16, <1>17, <1>18 DEF Next

\* The editor, its worker and the server always hold what the invariant says.
THEOREM BrowserIsInductive == Spec => []IInv
<1>1. Init => IInv
  BY InitIsSound
<1>2. IInv /\ [Next]_vars => IInv'
  BY StepIsSound
<1> QED BY <1>1, <1>2, PTL DEF Spec

\* The scheduler's counters and columns stay in their ranges, its timer runs
\* exactly while a question waits, the cache never exceeds its limit, and a
\* server run is driven only while the scheduler waits for that very run.
THEOREM BrowserIsSound == Spec => []BrowserInvariant
<1>1. IInv => BrowserInvariant
  <2>1. SUFFICES ASSUME IInv PROVE BrowserInvariant
    OBVIOUS
  <2>2. /\ SchedInd(sched) /\ WorkerInd(sched, worker, toWorker, toMain) /\ ServerInd(sched, live, calls)
        /\ sched \in Scheds /\ worker \in Workers /\ live \in Lives \cup {NoLive} /\ sched.cancel = NoMessage
    BY <2>1 DEF IInv, Sent, Page, SchedInd, WorkerInd, ServerInd
  <2>3. sched.inFlight \in 0 .. sched.lastId
    BY <2>2 DEF SchedInd, Scheds
  <2>4. sched.dirty \in 0 .. Clean /\ sched.sinceDispatch \in sched.dirty .. Clean
    BY <2>2, CheckpointsAssumption DEF SchedInd, Scheds, Clean
  <2>5. sched.on \in {"none", "worker", "server"} /\ ((sched.inFlight = 0) = (sched.on = "none"))
    BY <2>2 DEF SchedInd, Scheds, Backends
  <2>6. sched.timer = (sched.pending # NoQuestion)
    <3>1. sched.timer \in BOOLEAN /\ (sched.timer <=> sched.pending # NoQuestion)
      BY <2>2 DEF SchedInd, Scheds
    <3> QED BY <3>1
  <2>7. DOMAIN worker.cache.entries \subseteq Column /\ Cardinality(DOMAIN worker.cache.entries) <= Limit
    BY <2>2 DEF WorkerInd, Workers, Caches, Entries
  <2>8. live.stage \in {"none", "submitting", "watching"}
    BY <2>2 DEF Lives, NoLive
  <2>9. TypeOK
    BY <2>3, <2>4, <2>5, <2>6, <2>7, <2>8 DEF TypeOK
  <2>10. DrivenIsAwaited
    BY <2>2 DEF DrivenIsAwaited, SchedInd, ServerInd, NoMessage
  <2> QED BY <2>9, <2>10 DEF BrowserInvariant
<1> QED BY <1>1, BrowserIsInductive, PTL

\* Whatever the worker resumed from, superseded, dropped or broke off, the
\* answer on the panel is what the whole circuit of that request computes.
THEOREM AnswersAreExact == Spec => []OutcomeIsExact
<1>1. IInv => OutcomeIsExact
  BY DEF IInv, PanelInd, ExactAnswer, OutcomeIsExact
<1> QED BY <1>1, BrowserIsInductive, PTL

\* Every checkpoint before the first column the editor holds stale is a state
\* of the circuit on the canvas.
THEOREM CheckpointsAreTrue == Spec => []CleanCheckpointsAreTrue
<1>1. IInv => CleanCheckpointsAreTrue
  BY DEF IInv, Sent, Page, WarmInd, TrueOf, CleanCheckpointsAreTrue
<1> QED BY <1>1, BrowserIsInductive, PTL

\* A panel that says "ready" shows the answer to the last question, unless the
\* reader gave that one up.
THEOREM ReadyMeansCurrent == Spec => []ReadyIsCurrent
<1>1. IInv => ReadyIsCurrent
  <2>1. SUFFICES ASSUME IInv, Status(sched) = "ready", ~given PROVE sched.outcome.question = sched.last
    BY DEF ReadyIsCurrent
  <2>2. /\ sched.pending = NoQuestion /\ sched.inFlight = 0 /\ sched.failure = "none" /\ sched.outcome # NoOutcome
    BY <2>1 DEF Status
  <2> QED BY <2>1, <2>2 DEF IInv, PanelInd
<1> QED BY <1>1, BrowserIsInductive, PTL

=============================================================================
