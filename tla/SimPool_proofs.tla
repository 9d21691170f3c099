--------------------------- MODULE SimPool_proofs ---------------------------
(***************************************************************************)
(* The pool keeps its size, its line and its slots, whatever calls, child  *)
(* events and forks interleave: for any number of calls and children, any  *)
(* Size, MaxJobs and Concurrency.                                          *)
(*                                                                         *)
(* A step of the pool is a function of its record, so the lemmas speak of  *)
(* records: what a function makes of one, and what that keeps.             *)
(***************************************************************************)
EXTENDS SimPool, FiniteSetTheorems, WellFoundedInduction, TLAPS

(* The reasons. *)

\* Who is in the slots is there once and has answered "ready"; who answered is
\* alive or waits for its 'exit'; only such a child can be busy.
SlotInd(q) ==
  /\ \A i, k \in DOMAIN q.slots : q.slots[i] = q.slots[k] => i = k
  /\ Slots(q) \subseteq q.said
  /\ \A c \in q.said : q.proc[c] \in {"up", "gone"} /\ c \notin q.spawning
  /\ q.busy \subseteq q.said

\* A live child is awaited or in the slots, and a killed one is dead. A child
\* that may be released has a job left.
ChildInd(q) ==
  /\ IsFiniteSet(q.spawning)
  /\ \A c \in Children :
       /\ q.proc[c] = "starting" => c \in q.spawning
       /\ q.proc[c] = "up" => c \in Slots(q)
       /\ c \in q.killed => q.proc[c] = "gone"
       /\ c \notin q.killed => q.jobsRun[c] < MaxJobs

\* A running call has a child of its own, in the slots and busy.
CallInd(q) ==
  /\ \A j \in Calls : q.call[j] = "running" => q.on[j] \in Slots(q) \intersect q.busy
  /\ \A j, k \in Calls : /\ q.call[j] = "running" /\ q.call[k] = "running"
                         /\ q.on[j] = q.on[k]
                         => j = k

\* The line is the waiting calls, and a closed pool has none.
LineInd(q) ==
  /\ \A j \in Calls : q.call[j] = "waiting" <=> \E i \in DOMAIN q.waiting : q.waiting[i] = j
  /\ \A i, k \in DOMAIN q.waiting : q.waiting[i] = q.waiting[k] => i = k
  /\ q.closed => q.waiting = <<>>

Living(q) == {c \in Children : q.proc[c] \in {"starting", "up"}}

SizeInd(q) == Cardinality(Living(q)) <= Size

Sound(q) ==
  /\ q \in PoolState
  /\ SlotInd(q) /\ ChildInd(q) /\ CallInd(q) /\ LineInd(q) /\ SizeInd(q)

\* NoIdleChildWhileWaiting of a record, and what is left of it before a pump.
Balanced(q) ==
  q.waiting # <<>> => Cardinality(Idle(q)) <= Cardinality(Dead(q))

Owing(q) ==
  Len(q.waiting) > 1 => Cardinality(Idle(q)) <= Cardinality(Dead(q)) + 1

------------------------------------------------------------------------------
(* The helpers. *)

\* The first of some positions is one of them, and none is before it.
LEMMA FirstIsFirst ==
  ASSUME NEW is, is \subseteq Nat, is # {}
  PROVE  First(is) \in is /\ \A k \in is : First(is) <= k
<1>1. \E i \in is : \A k \in is : ~ (<<k, i>> \in OpToRel(<, Nat))
  BY NatLessThanWellFounded, WFMin
<1>2. PICK i \in is : \A k \in is : ~ (<<k, i>> \in OpToRel(<, Nat))
  BY <1>1
<1>3. \A k \in is : i <= k
  <2>1. OpToRel(<, Nat) = {ss \in Nat \X Nat : ss[1] < ss[2]}
    BY DEF OpToRel
  <2>2. \A k \in is : k < i => <<k, i>> \in OpToRel(<, Nat)
    BY <2>1
  <2>3. \A k \in is : ~ (k < i)
    BY <1>2, <2>2
  <2> QED
    BY <2>3
<1> QED
  BY <1>3 DEF First

Held(s) == {s[i] : i \in DOMAIN s}

\* Taking a child out of a list that holds it once leaves the others, once.
LEMMA WithoutTakesOut ==
  ASSUME NEW s \in Seq(Children), NEW c \in Children,
         \A i, k \in DOMAIN s : s[i] = s[k] => i = k
  PROVE  /\ Without(s, c) \in Seq(Children)
         /\ Held(Without(s, c)) = Held(s) \ {c}
         /\ \A i, k \in DOMAIN Without(s, c) : Without(s, c)[i] = Without(s, c)[k] => i = k
<1> DEFINE at == {i \in DOMAIN s : s[i] = c}
<1>1. CASE at = {}
  BY <1>1 DEF Without, Held
<1>2. CASE at # {}
  <2>1. PICK n : n = First(at)
    OBVIOUS
  <2>2. n \in DOMAIN s /\ s[n] = c
    <3>1. at \subseteq Nat
      OBVIOUS
    <3> QED
      BY <3>1, <1>2, <2>1, FirstIsFirst
  <2>3. PICK w : w = [k \in 1 .. Len(s) - 1 |-> s[IF k < n THEN k ELSE k + 1]]
    OBVIOUS
  <2>4. Without(s, c) = w
    BY <1>2, <2>1, <2>3 DEF Without
  <2>5. DOMAIN s = 1 .. Len(s) /\ Len(s) \in Nat
    OBVIOUS
  <2>6. w \in Seq(Children)
    <3>1. \A k \in 1 .. Len(s) - 1 : s[IF k < n THEN k ELSE k + 1] \in Children
      BY <2>5, <2>2
    <3>2. Len(s) - 1 \in Nat
      BY <2>2, <2>5
    <3> QED
      BY <3>1, <3>2, <2>3
  <2>7. DOMAIN w = 1 .. Len(s) - 1
    BY <2>3
  <2>8. \A i \in DOMAIN w : \E k \in DOMAIN s : k # n /\ w[i] = s[k]
    <3> SUFFICES ASSUME NEW i \in DOMAIN w
                 PROVE  \E k \in DOMAIN s : k # n /\ w[i] = s[k]
      OBVIOUS
    <3>1. CASE i < n
      BY <3>1, <2>3, <2>5, <2>2, <2>7
    <3>2. CASE ~ (i < n)
      <4>1. i + 1 \in DOMAIN s /\ i + 1 # n
        BY <3>2, <2>5, <2>2, <2>7
      <4> QED
        BY <4>1, <3>2, <2>3, <2>7
    <3> QED
      BY <3>1, <3>2
  <2>9. \A k \in DOMAIN s : k # n => \E i \in DOMAIN w : w[i] = s[k]
    <3> SUFFICES ASSUME NEW k \in DOMAIN s, k # n PROVE \E i \in DOMAIN w : w[i] = s[k]
      OBVIOUS
    <3>1. CASE k < n
      BY <3>1, <2>3, <2>5, <2>2, <2>7
    <3>2. CASE k > n
      <4>1. k - 1 \in DOMAIN w /\ ~ (k - 1 < n) /\ (k - 1) + 1 = k
        BY <3>2, <2>5, <2>2, <2>7
      <4> QED
        BY <4>1, <2>3
    <3> QED
      BY <3>1, <3>2, <2>2, <2>5
  <2>10. \A i, k \in DOMAIN w : w[i] = w[k] => i = k
    <3> SUFFICES ASSUME NEW i \in DOMAIN w, NEW k \in DOMAIN w, w[i] = w[k] PROVE i = k
      OBVIOUS
    <3> DEFINE at2(x) == IF x < n THEN x ELSE x + 1
    <3>1. w[i] = s[at2(i)] /\ w[k] = s[at2(k)] /\ at2(i) \in DOMAIN s /\ at2(k) \in DOMAIN s
      BY <2>3, <2>5, <2>2, <2>7
    <3>2. at2(i) = at2(k)
      BY <3>1
    <3> QED
      BY <3>2, <2>5, <2>2, <2>7
  <2>11. Held(w) = Held(s) \ {c}
    BY <2>2, <2>8, <2>9 DEF Held
  <2> QED
    BY <2>4, <2>6, <2>10, <2>11
<1> QED
  BY <1>1, <1>2

\* The slots are finitely many, at most as many as the list is long.
LEMMA SlotsAreCounted ==
  ASSUME NEW q \in PoolState
  PROVE  /\ IsFiniteSet(Slots(q))
         /\ Cardinality(Slots(q)) <= Len(q.slots)
         /\ Slots(q) \subseteq Children
<1>1. q.slots \in Seq(Children)
  BY DEF PoolState
<1>2. IsFiniteSet(DOMAIN q.slots) /\ Cardinality(DOMAIN q.slots) = Len(q.slots)
  <2>1. DOMAIN q.slots = 1 .. Len(q.slots) /\ Len(q.slots) \in Nat
    BY <1>1
  <2> QED
    BY <2>1, FS_Interval
<1>3. q.slots \in Surjection(DOMAIN q.slots, Slots(q))
  <2>1. q.slots \in [DOMAIN q.slots -> Slots(q)]
    BY <1>1 DEF Slots
  <2> QED
    BY <2>1 DEF Surjection, Slots
<1>4. IsFiniteSet(Slots(q)) /\ Cardinality(Slots(q)) <= Cardinality(DOMAIN q.slots)
  BY <1>2, <1>3, FS_Surjection
<1> QED
  BY <1>1, <1>2, <1>4 DEF Slots

------------------------------------------------------------------------------
(* What a function of the pool makes of its record. *)

SameCalls(q, r) ==
  r.call = q.call /\ r.on = q.on /\ r.waiting = q.waiting /\ r.closed = q.closed

SameChildren(q, r) ==
  /\ r.slots = q.slots /\ r.spawning = q.spawning /\ r.proc = q.proc
  /\ r.killed = q.killed /\ r.said = q.said /\ r.jobsRun = q.jobsRun

\* A kill marks the child and nothing else; one whose 'exit' was read is past it.
LEMMA KillMakes ==
  ASSUME NEW q \in PoolState, NEW c \in Children
  PROVE  LET r == Kill(q, c) IN
         /\ r \in PoolState
         /\ SameCalls(q, r)
         /\ r.slots = q.slots /\ r.busy = q.busy /\ r.spawning = q.spawning
         /\ r.said = q.said /\ r.jobsRun = q.jobsRun
         /\ q.proc[c] # "none" => /\ r.proc = [q.proc EXCEPT ![c] = "gone"]
                                  /\ r.killed = q.killed \union {c}
         /\ q.proc[c] = "none" => r.proc = q.proc /\ r.killed = q.killed
BY DEF Kill, PoolState, SameCalls

\* Settling some calls ends them and frees nobody.
LEMMA SettleMakes ==
  ASSUME NEW q \in PoolState, NEW js, NEW how \in CallStates,
         NEW r, r = Settle(q, js, how)
  PROVE  /\ r \in PoolState
         /\ r.call = [j \in Calls |-> IF j \in js THEN how ELSE q.call[j]]
         /\ r.on = [j \in Calls |-> IF j \in js THEN NoChild ELSE q.on[j]]
         /\ r.waiting = q.waiting /\ r.closed = q.closed
         /\ SameChildren(q, r) /\ r.busy = q.busy
BY DEF Settle, PoolState, SameChildren

\* The head of a line that is not empty gets the child.
LEMMA GiveMakes ==
  ASSUME NEW q \in PoolState, NEW c \in Children, q.waiting # <<>>
  PROVE  LET r == Give(q, c)
             h == Head(q.waiting)
         IN
         /\ r \in PoolState
         /\ h \in Calls
         /\ r.call = [q.call EXCEPT ![h] = "running"]
         /\ r.on = [q.on EXCEPT ![h] = c]
         /\ r.waiting = Tail(q.waiting) /\ r.closed = q.closed
         /\ r.busy = q.busy \union {c}
         /\ SameChildren(q, r)
<1>1. Head(q.waiting) \in Calls /\ Tail(q.waiting) \in Seq(Calls)
  BY DEF PoolState
<1> QED
  BY <1>1 DEF Give, PoolState, SameChildren, CallStates

\* With nobody in the line nothing is given.
LEMMA NothingToGive ==
  ASSUME NEW q, NEW c, q.waiting = <<>>
  PROVE  Give(q, c) = q /\ GiveNothing(q) = q
BY DEF Give, GiveNothing

\* The head of a line that is not empty gets the news that there is no child.
LEMMA GiveNothingMakes ==
  ASSUME NEW q \in PoolState, q.waiting # <<>>
  PROVE  LET r == GiveNothing(q)
             h == Head(q.waiting)
         IN
         /\ r \in PoolState
         /\ h \in Calls
         /\ r.call = [q.call EXCEPT ![h] = "crashed"]
         /\ r.on = q.on
         /\ r.waiting = Tail(q.waiting) /\ r.closed = q.closed
         /\ r.busy = q.busy
         /\ SameChildren(q, r)
<1>1. Head(q.waiting) \in Calls /\ Tail(q.waiting) \in Seq(Calls)
  BY DEF PoolState
<1> QED
  BY <1>1 DEF GiveNothing, PoolState, SameChildren, CallStates

\* A fork adds one child that nothing else knows of.
LEMMA ForkMakes ==
  ASSUME NEW q \in PoolState, Unused(q) # {}
  PROVE  LET r == Fork(q) IN
         \E c \in Unused(q) :
           /\ r \in PoolState
           /\ SameCalls(q, r)
           /\ r.slots = q.slots /\ r.busy = q.busy /\ r.killed = q.killed
           /\ r.said = q.said /\ r.jobsRun = q.jobsRun
           /\ r.spawning = q.spawning \union {c}
           /\ r.proc = [q.proc EXCEPT ![c] = "starting"]
<1>1. PICK c : c = CHOOSE d \in Unused(q) : TRUE
  OBVIOUS
<1>2. c \in Unused(q) /\ c \in Children
  BY <1>1 DEF Unused
<1>3. Fork(q) = [q EXCEPT !.spawning = @ \union {c}, !.proc[c] = "starting"]
  BY <1>1 DEF Fork
<1>4. PICK r : r = [q EXCEPT !.spawning = @ \union {c}, !.proc[c] = "starting"]
  OBVIOUS
<1>5. /\ r \in PoolState
      /\ SameCalls(q, r)
      /\ r.slots = q.slots /\ r.busy = q.busy /\ r.killed = q.killed
      /\ r.said = q.said /\ r.jobsRun = q.jobsRun
      /\ r.spawning = q.spawning \union {c}
      /\ r.proc = [q.proc EXCEPT ![c] = "starting"]
  BY <1>2, <1>4 DEF PoolState, SameCalls
<1> QED
  BY <1>2, <1>3, <1>4, <1>5

------------------------------------------------------------------------------
(* A pump keeps the pool sound, and pays what is owed to the line. *)

InLine(s, j) == \E i \in DOMAIN s : s[i] = j

\* The tail of a line is its calls but the head.
LEMMA TailOfLine ==
  ASSUME NEW s \in Seq(Calls), s # <<>>, NEW t, t = Tail(s),
         \A i, k \in DOMAIN s : s[i] = s[k] => i = k
  PROVE  /\ \A j \in Calls : InLine(t, j) <=> j # Head(s) /\ InLine(s, j)
         /\ \A i, k \in DOMAIN t : t[i] = t[k] => i = k
<1>2. /\ Len(s) \in Nat /\ Len(s) > 0 /\ DOMAIN s = 1 .. Len(s)
      /\ DOMAIN t = 1 .. Len(s) - 1
      /\ \A i \in DOMAIN t : i + 1 \in DOMAIN s /\ t[i] = s[i + 1]
      /\ Head(s) = s[1] /\ 1 \in DOMAIN s
  OBVIOUS
<1>3. \A i, k \in DOMAIN t : t[i] = t[k] => i = k
  <2> SUFFICES ASSUME NEW i \in DOMAIN t, NEW k \in DOMAIN t, t[i] = t[k] PROVE i = k
    OBVIOUS
  <2>1. i + 1 = k + 1
    BY <1>2
  <2> QED
    BY <2>1, <1>2
<1>4. ASSUME NEW i \in DOMAIN t
      PROVE  t[i] # Head(s) /\ \E k \in DOMAIN s : s[k] = t[i]
  <2>1. i + 1 # 1 /\ i + 1 \in DOMAIN s /\ t[i] = s[i + 1]
    BY <1>2
  <2> QED
    BY <2>1, <1>2
<1>5. ASSUME NEW i \in DOMAIN s, s[i] # Head(s)
      PROVE  \E k \in DOMAIN t : t[k] = s[i]
  <2>1. i - 1 \in DOMAIN t /\ (i - 1) + 1 = i
    BY <1>2, <1>5
  <2> QED
    BY <2>1, <1>2
<1>6. ASSUME NEW j \in Calls
      PROVE  InLine(t, j) <=> j # Head(s) /\ InLine(s, j)
  <2>1. ASSUME NEW i \in DOMAIN t, t[i] = j
        PROVE  j # Head(s) /\ InLine(s, j)
    BY <2>1, <1>4 DEF InLine
  <2>2. ASSUME j # Head(s), NEW i \in DOMAIN s, s[i] = j
        PROVE  InLine(t, j)
    BY <2>2, <1>5 DEF InLine
  <2> QED
    BY <2>1, <2>2 DEF InLine
<1> QED
  BY <1>3, <1>6

\* When the head of the line leaves it for good, the line is the others.
LEMMA LineMovesUp ==
  ASSUME NEW q \in PoolState, LineInd(q), q.waiting # <<>>,
         NEW how \in CallStates \ {"waiting"}, NEW r,
         r.call = [q.call EXCEPT ![Head(q.waiting)] = how],
         r.waiting = Tail(q.waiting), r.closed = q.closed
  PROVE  LineInd(r)
<1>1. q.waiting \in Seq(Calls) /\ q.call \in [Calls -> CallStates]
  BY DEF PoolState
<1>2. PICK h \in Calls : h = Head(q.waiting)
  BY <1>1
<1>3. \A i, k \in DOMAIN q.waiting : q.waiting[i] = q.waiting[k] => i = k
  BY DEF LineInd
<1>4. /\ \A j \in Calls : InLine(r.waiting, j) <=> j # h /\ InLine(q.waiting, j)
      /\ \A i, k \in DOMAIN r.waiting : r.waiting[i] = r.waiting[k] => i = k
  BY <1>1, <1>2, <1>3, TailOfLine
<1>5. \A j \in Calls : r.call[j] = "waiting" <=> j # h /\ q.call[j] = "waiting"
  BY <1>1, <1>2
<1>6. ~ r.closed
  BY DEF LineInd
<1>7. \A j \in Calls : q.call[j] = "waiting" <=> InLine(q.waiting, j)
  BY DEF LineInd, InLine
<1>8. \A j \in Calls : r.call[j] = "waiting" <=> InLine(r.waiting, j)
  BY <1>4, <1>5, <1>7
<1> QED
  BY <1>4, <1>6, <1>8 DEF LineInd, InLine

\* What the slots and the awaited children say depends on them alone.
LEMMA SameChildrenKeep ==
  ASSUME NEW q, NEW r, SameChildren(q, r)
  PROVE  /\ Slots(r) = Slots(q) /\ Living(r) = Living(q)
         /\ ChildInd(q) => ChildInd(r)
         /\ SizeInd(q) => SizeInd(r)
         /\ SlotInd(q) /\ r.busy \subseteq q.said => SlotInd(r)
<1>1. Slots(r) = Slots(q) /\ Living(r) = Living(q)
  BY DEF SameChildren, Slots, Living
<1> QED
  BY <1>1 DEF SameChildren, ChildInd, SizeInd, SlotInd

\* The head of the line gets a free child of the slots.
LEMMA GiveIsSound ==
  ASSUME NEW q, Sound(q), q.waiting # <<>>, NEW c \in Slots(q), c \notin q.busy
  PROVE  LET r == Give(q, c) IN
         /\ Sound(r)
         /\ r.waiting = Tail(q.waiting)
         /\ Idle(r) = Idle(q) \ {c}
         /\ Dead(r) = IF q.proc[c] = "gone" THEN Dead(q) \union {c} ELSE Dead(q)
<1>1. q \in PoolState /\ SlotInd(q) /\ ChildInd(q) /\ CallInd(q) /\ LineInd(q) /\ SizeInd(q)
  BY DEF Sound
<1>2. c \in Children
  BY <1>1, SlotsAreCounted
<1>3. PICK h : h = Head(q.waiting)
  OBVIOUS
<1>4. PICK r : r = Give(q, c)
  OBVIOUS
<1>5. /\ r \in PoolState
      /\ h \in Calls
      /\ r.call = [q.call EXCEPT ![h] = "running"]
      /\ r.on = [q.on EXCEPT ![h] = c]
      /\ r.waiting = Tail(q.waiting) /\ r.closed = q.closed
      /\ r.busy = q.busy \union {c}
      /\ SameChildren(q, r)
  BY <1>1, <1>2, <1>3, <1>4, GiveMakes
<1>6. Slots(r) = Slots(q) /\ ChildInd(r) /\ SizeInd(r) /\ SlotInd(r)
  <2>1. r.busy \subseteq q.said
    BY <1>1, <1>5 DEF SlotInd
  <2> QED
    BY <2>1, <1>1, <1>5, SameChildrenKeep
<1>7. CallInd(r)
  <2>1. q.call \in [Calls -> CallStates] /\ q.on \in [Calls -> Children \union {NoChild}]
    BY <1>1 DEF PoolState
  <2>2. \A j \in Calls : /\ r.call[j] = IF j = h THEN "running" ELSE q.call[j]
                         /\ r.on[j] = IF j = h THEN c ELSE q.on[j]
    BY <2>1, <1>5
  <2> QED
    BY <2>2, <1>1, <1>5, <1>6 DEF CallInd
<1>8. LineInd(r)
  BY <1>1, <1>3, <1>5, LineMovesUp DEF CallStates
<1>9. Idle(r) = Idle(q) \ {c}
  BY <1>5, <1>6 DEF Idle, SameChildren
<1>10. Dead(r) = IF q.proc[c] = "gone" THEN Dead(q) \union {c} ELSE Dead(q)
  BY <1>5, <1>6 DEF Dead, SameChildren
<1> QED
  BY <1>4, <1>5, <1>6, <1>7, <1>8, <1>9, <1>10 DEF Sound

\* The live children are finitely many.
LEMMA LivingAreCounted ==
  ASSUME NEW q \in PoolState, ChildInd(q)
  PROVE  /\ IsFiniteSet(Living(q)) /\ IsFiniteSet(Slots(q) \union q.spawning)
         /\ Cardinality(Living(q)) <= Cardinality(Slots(q) \union q.spawning)
<1>1. IsFiniteSet(Slots(q) \union q.spawning)
  BY SlotsAreCounted, FS_Union DEF ChildInd
<1>2. Living(q) \in SUBSET (Slots(q) \union q.spawning)
  BY DEF Living, ChildInd
<1> QED
  BY <1>1, <1>2, FS_Subset

\* A fork where the pool has room keeps its size.
LEMMA ForkIsSound ==
  ASSUME NEW q, Sound(q), Unused(q) # {}, Len(q.slots) + Cardinality(q.spawning) < Size
  PROVE  LET r == Fork(q) IN
         /\ Sound(r)
         /\ r.waiting = q.waiting /\ Idle(r) = Idle(q) /\ Dead(r) = Dead(q)
<1>1. q \in PoolState /\ SlotInd(q) /\ ChildInd(q) /\ CallInd(q) /\ LineInd(q) /\ SizeInd(q)
  BY DEF Sound
<1>2. PICK r : r = Fork(q)
  OBVIOUS
<1>3. PICK c \in Unused(q) :
      /\ r \in PoolState
      /\ SameCalls(q, r)
      /\ r.slots = q.slots /\ r.busy = q.busy /\ r.killed = q.killed
      /\ r.said = q.said /\ r.jobsRun = q.jobsRun
      /\ r.spawning = q.spawning \union {c}
      /\ r.proc = [q.proc EXCEPT ![c] = "starting"]
  BY <1>1, <1>2, ForkMakes
<1>4. /\ c \in Children /\ q.proc[c] = "none" /\ c \notin Slots(q)
      /\ q.proc \in [Children -> {"none", "starting", "up", "gone"}]
      /\ q.said \subseteq Children
  BY <1>1 DEF Unused, PoolState
<1>5. \A d \in Children : r.proc[d] = IF d = c THEN "starting" ELSE q.proc[d]
  BY <1>3, <1>4
<1>6. c \notin q.said /\ c \notin q.killed
  BY <1>1, <1>4 DEF SlotInd, ChildInd
<1>7. Slots(r) = Slots(q)
  BY <1>3 DEF Slots
<1>8. SlotInd(r)
  BY <1>1, <1>3, <1>4, <1>5, <1>6, <1>7 DEF SlotInd
<1>9. ChildInd(r)
  <2>1. IsFiniteSet(r.spawning)
    BY <1>1, <1>3, FS_AddElement DEF ChildInd
  <2> QED
    BY <2>1, <1>1, <1>3, <1>5, <1>6, <1>7 DEF ChildInd
<1>10. CallInd(r)
  BY <1>1, <1>3, <1>7 DEF CallInd, SameCalls
<1>11. LineInd(r)
  BY <1>1, <1>3 DEF LineInd, SameCalls
<1>12. SizeInd(r)
  <2>1. IsFiniteSet(Slots(q)) /\ Cardinality(Slots(q)) <= Len(q.slots)
    BY <1>1, SlotsAreCounted
  <2>2. IsFiniteSet(q.spawning)
    BY <1>1 DEF ChildInd
  <2>3. /\ IsFiniteSet(Slots(q) \union q.spawning)
        /\ Cardinality(Slots(q) \union q.spawning)
             <= Cardinality(Slots(q)) + Cardinality(q.spawning)
    <3>1. Slots(q) \intersect q.spawning \in SUBSET Slots(q)
      OBVIOUS
    <3>2. Cardinality(Slots(q) \intersect q.spawning) \in Nat
      BY <3>1, <2>1, FS_Subset, FS_CardinalityType
    <3>3. Cardinality(Slots(q)) \in Nat /\ Cardinality(q.spawning) \in Nat
      BY <2>1, <2>2, FS_CardinalityType
    <3>4. /\ IsFiniteSet(Slots(q) \union q.spawning)
          /\ Cardinality(Slots(q) \union q.spawning)
               = Cardinality(Slots(q)) + Cardinality(q.spawning)
                 - Cardinality(Slots(q) \intersect q.spawning)
      BY <2>1, <2>2, FS_Union
    <3> QED
      BY <3>2, <3>3, <3>4
  <2>5. IsFiniteSet(Living(q)) /\ Cardinality(Living(q)) <= Cardinality(Slots(q) \union q.spawning)
    BY <1>1, LivingAreCounted
  <2>6. Living(r) = Living(q) \union {c}
    BY <1>4, <1>5 DEF Living
  <2>7. Cardinality(Living(r)) <= Cardinality(Living(q)) + 1
    <3>1. c \notin Living(q)
      BY <1>4 DEF Living
    <3>2. Cardinality(Living(r)) = Cardinality(Living(q)) + 1
      BY <2>5, <2>6, <3>1, FS_AddElement
    <3>3. Cardinality(Living(q)) \in Nat
      BY <2>5, FS_CardinalityType
    <3> QED
      BY <3>2, <3>3
  <2>8. /\ Cardinality(Living(q)) \in Nat /\ Cardinality(Slots(q)) \in Nat
        /\ Cardinality(q.spawning) \in Nat /\ Len(q.slots) \in Nat /\ Size \in Nat
        /\ Cardinality(Slots(q) \union q.spawning) \in Nat
        /\ Cardinality(Living(r)) \in Nat
    <3>1. IsFiniteSet(Living(r))
      BY <2>5, <2>6, FS_AddElement
    <3>2. Len(q.slots) \in Nat
      BY <1>1 DEF PoolState
    <3> QED
      BY <3>1, <3>2, <2>1, <2>2, <2>3, <2>5, FS_CardinalityType, PoolAssumption
  <2> QED
    BY <2>1, <2>3, <2>5, <2>7, <2>8 DEF SizeInd
<1>13. r.waiting = q.waiting /\ Idle(r) = Idle(q) /\ Dead(r) = Dead(q)
  <2>1. \A d \in Slots(q) : r.proc[d] = q.proc[d]
    BY <1>1, <1>4, <1>5, SlotsAreCounted
  <2> QED
    BY <2>1, <1>3, <1>7 DEF Idle, Dead, SameCalls
<1> QED
  BY <1>2, <1>3, <1>8, <1>9, <1>10, <1>11, <1>12, <1>13 DEF Sound

\* The children a balance counts are among the slots, so they can be counted.
LEMMA BothAreCounted ==
  ASSUME NEW q \in PoolState
  PROVE  /\ IsFiniteSet(Idle(q)) /\ Cardinality(Idle(q)) \in Nat
         /\ IsFiniteSet(Dead(q)) /\ Cardinality(Dead(q)) \in Nat
<1>1. Idle(q) \in SUBSET Slots(q) /\ Dead(q) \in SUBSET Slots(q)
  BY DEF Idle, Dead
<1>2. IsFiniteSet(Idle(q)) /\ IsFiniteSet(Dead(q))
  BY <1>1, SlotsAreCounted, FS_Subset
<1> QED
  BY <1>2, FS_CardinalityType

\* A smaller set counts less.
LEMMA FewerCountLess ==
  ASSUME NEW S, NEW T, IsFiniteSet(T), S \subseteq T
  PROVE  Cardinality(S) <= Cardinality(T) /\ IsFiniteSet(S)
BY FS_Subset

\* Fewer idle and more dead children keep the balance.
LEMMA BalanceKept ==
  ASSUME NEW q \in PoolState, NEW r \in PoolState, Balanced(q),
         r.waiting # <<>> => q.waiting # <<>>,
         Idle(r) \subseteq Idle(q), Dead(q) \subseteq Dead(r)
  PROVE  Balanced(r)
<1>1. Cardinality(Idle(r)) <= Cardinality(Idle(q))
  BY BothAreCounted, FewerCountLess
<1>2. Cardinality(Dead(q)) <= Cardinality(Dead(r))
  BY BothAreCounted, FewerCountLess
<1>3. /\ Cardinality(Idle(q)) \in Nat /\ Cardinality(Dead(q)) \in Nat
      /\ Cardinality(Idle(r)) \in Nat /\ Cardinality(Dead(r)) \in Nat
  BY BothAreCounted
<1> QED
  BY <1>1, <1>2, <1>3 DEF Balanced

\* A child that becomes idle, or is no longer dead, costs one.
LEMMA OneIsOwed ==
  ASSUME NEW q \in PoolState, NEW r \in PoolState, Balanced(q),
         r.waiting = q.waiting, NEW c,
         \/ Idle(r) \subseteq Idle(q) \union {c} /\ Dead(q) \subseteq Dead(r)
         \/ Idle(r) \subseteq Idle(q) /\ Dead(q) \subseteq Dead(r) \union {c}
  PROVE  Owing(r)
<1>1. /\ Cardinality(Idle(q)) \in Nat /\ Cardinality(Dead(q)) \in Nat
      /\ Cardinality(Idle(r)) \in Nat /\ Cardinality(Dead(r)) \in Nat
  BY BothAreCounted
<1>2. q.waiting \in Seq(Calls)
  BY DEF PoolState
<1>3. CASE Idle(r) \subseteq Idle(q) \union {c} /\ Dead(q) \subseteq Dead(r)
  <2>1. /\ IsFiniteSet(Idle(q) \union {c})
        /\ Cardinality(Idle(q) \union {c}) =
             IF c \in Idle(q) THEN Cardinality(Idle(q)) ELSE Cardinality(Idle(q)) + 1
    BY BothAreCounted, FS_AddElement
  <2>2. Cardinality(Idle(r)) <= Cardinality(Idle(q) \union {c})
    BY <1>3, <2>1, FewerCountLess
  <2>3. Cardinality(Dead(q)) <= Cardinality(Dead(r))
    BY <1>3, BothAreCounted, FewerCountLess
  <2>4. Cardinality(Idle(r)) <= Cardinality(Idle(q)) + 1
    BY <1>1, <2>1, <2>2
  <2> QED
    BY <1>1, <1>2, <2>3, <2>4 DEF Balanced, Owing
<1>4. CASE Idle(r) \subseteq Idle(q) /\ Dead(q) \subseteq Dead(r) \union {c}
  <2>1. /\ IsFiniteSet(Dead(r) \union {c})
        /\ Cardinality(Dead(r) \union {c}) =
             IF c \in Dead(r) THEN Cardinality(Dead(r)) ELSE Cardinality(Dead(r)) + 1
    BY BothAreCounted, FS_AddElement
  <2>2. Cardinality(Dead(q)) <= Cardinality(Dead(r) \union {c})
    BY <1>4, <2>1, FewerCountLess
  <2>3. Cardinality(Idle(r)) <= Cardinality(Idle(q))
    BY <1>4, BothAreCounted, FewerCountLess
  <2>4. Cardinality(Dead(q)) <= Cardinality(Dead(r)) + 1
    BY <1>1, <2>1, <2>2
  <2> QED
    BY <1>1, <1>2, <2>3, <2>4 DEF Balanced, Owing
<1> QED
  BY <1>3, <1>4

\* A pool that owes nothing owes at most one.
LEMMA BalancedOwes ==
  ASSUME NEW q \in PoolState, Balanced(q)
  PROVE  Owing(q)
<1>1. Idle(q) \subseteq Idle(q) /\ Dead(q) \subseteq Dead(q) \union {0}
  OBVIOUS
<1> QED
  BY <1>1, OneIsOwed

\* A pump keeps the pool sound and leaves nothing owed.
LEMMA PumpPays ==
  ASSUME NEW q, Sound(q), Owing(q)
  PROVE  Sound(Pump(q)) /\ Balanced(Pump(q))
<1>1. q \in PoolState /\ SlotInd(q) /\ LineInd(q)
  BY DEF Sound
<1>2. q.waiting \in Seq(Calls) /\ q.slots \in Seq(Children)
  BY <1>1 DEF PoolState
<1>3. CASE q.closed \/ q.waiting = <<>>
  BY <1>1, <1>3 DEF Pump, LineInd, Balanced
<1>4. CASE ~ (q.closed \/ q.waiting = <<>>) /\ Free(q) # {}
  <2>1. PICK i \in Free(q) : i = First(Free(q))
    <3>1. Free(q) \subseteq Nat
      BY <1>2 DEF Free
    <3> QED
      BY <3>1, <1>4, FirstIsFirst
  <2>2. PICK c : c = q.slots[i]
    OBVIOUS
  <2>3. c \in Slots(q) /\ c \notin q.busy /\ q.proc[c] \in {"up", "gone"}
    BY <1>1, <2>1, <2>2 DEF Free, Slots, SlotInd
  <2>4. PICK r : r = Give(q, c)
    OBVIOUS
  <2>5. Pump(q) = r
    BY <1>4, <2>1, <2>2, <2>4 DEF Pump
  <2>6. /\ Sound(r)
        /\ r.waiting = Tail(q.waiting)
        /\ Idle(r) = Idle(q) \ {c}
        /\ Dead(r) = IF q.proc[c] = "gone" THEN Dead(q) \union {c} ELSE Dead(q)
    BY <1>4, <2>3, <2>4, GiveIsSound
  <2>7. Balanced(r)
    <3> SUFFICES ASSUME r.waiting # <<>>
                 PROVE  Cardinality(Idle(r)) <= Cardinality(Dead(r))
      BY DEF Balanced
    <3>1. Len(q.waiting) > 1
      <4>1. Len(q.waiting) \in Nat /\ Len(q.waiting) # 0
        BY <1>2, <1>4
      <4>2. Len(r.waiting) = Len(q.waiting) - 1 /\ Len(r.waiting) # 0
        <5>1. PICK w \in Seq(Calls) : w = q.waiting
          BY <1>2
        <5>2. w # <<>> /\ r.waiting = Tail(w)
          BY <5>1, <1>4, <2>6
        <5>3. PICK t : t = Tail(w)
          OBVIOUS
        <5>4. t \in Seq(Calls) /\ Len(t) = Len(w) - 1
          BY <5>1, <5>2, <5>3
        <5>5. t # <<>>
          BY <5>2, <5>3
        <5>6. Len(t) # 0
          BY <5>4, <5>5
        <5> QED
          BY <5>1, <5>2, <5>3, <5>4, <5>6
      <4> QED
        BY <4>1, <4>2
    <3>2. Cardinality(Idle(q)) <= Cardinality(Dead(q)) + 1
      BY <3>1 DEF Owing
    <3>3. Cardinality(Idle(q)) \in Nat /\ Cardinality(Dead(q)) \in Nat
      BY <1>1, BothAreCounted
    <3>4. CASE q.proc[c] = "up"
      <4>1. c \in Idle(q)
        BY <2>3, <3>4 DEF Idle
      <4>2. Cardinality(Idle(r)) = Cardinality(Idle(q)) - 1
        BY <1>1, <2>6, <4>1, BothAreCounted, FS_RemoveElement
      <4>3. Dead(r) = Dead(q)
        BY <2>6, <3>4
      <4> QED
        BY <3>2, <3>3, <4>2, <4>3
    <3>5. CASE q.proc[c] = "gone"
      <4>1. c \notin Dead(q)
        BY <2>3 DEF Dead
      <4>2. Cardinality(Dead(r)) = Cardinality(Dead(q)) + 1
        BY <1>1, <2>6, <3>5, <4>1, BothAreCounted, FS_AddElement
      <4>3. Idle(r) = Idle(q)
        BY <2>6, <3>5 DEF Idle
      <4> QED
        BY <3>2, <3>3, <4>2, <4>3
    <3> QED
      BY <2>3, <3>4, <3>5
  <2> QED
    BY <2>5, <2>6, <2>7
<1>5. CASE ~ (q.closed \/ q.waiting = <<>>) /\ Free(q) = {}
  <2>1. Idle(q) = {}
    BY <1>5 DEF Idle, Free, Slots
  <2>2. Cardinality(Idle(q)) = 0
    BY <2>1, FS_EmptySet
  <2>3. Cardinality(Dead(q)) \in Nat
    BY <1>1, BothAreCounted
  <2>4. Balanced(q)
    BY <2>2, <2>3 DEF Balanced
  <2>5. CASE Pump(q) = q
    BY <2>4, <2>5
  <2>6. CASE Pump(q) # q
    <3>1. /\ Len(q.slots) + Cardinality(q.spawning) >= Size => Pump(q) = q
          /\ ~ (Len(q.slots) + Cardinality(q.spawning) >= Size) => Pump(q) = Fork(q)
      BY <1>5 DEF Pump
    <3>2. Unused(q) # {} /\ Pump(q) = Fork(q) /\ ~ (Len(q.slots) + Cardinality(q.spawning) >= Size)
      BY <2>6, <3>1 DEF Fork
    <3>3. Len(q.slots) + Cardinality(q.spawning) < Size
      <4>1. Cardinality(q.spawning) \in Nat /\ Len(q.slots) \in Nat /\ Size \in Nat
        BY <1>2, FS_CardinalityType, PoolAssumption DEF Sound, ChildInd
      <4> QED
        BY <4>1, <3>2
    <3>4. PICK r : r = Fork(q)
      OBVIOUS
    <3>5. Sound(r) /\ r.waiting = q.waiting /\ Idle(r) = Idle(q) /\ Dead(r) = Dead(q)
      BY <3>2, <3>3, <3>4, ForkIsSound
    <3> QED
      BY <2>4, <3>2, <3>4, <3>5 DEF Balanced
  <2> QED
    BY <2>5, <2>6
<1> QED
  BY <1>3, <1>4, <1>5

------------------------------------------------------------------------------
(* A child that is released, or leaves the slots. *)

\* Settling calls that run, for good, frees no child and moves no line.
LEMMA SettleIsSound ==
  ASSUME NEW q, Sound(q), NEW js, NEW how \in CallStates \ {"waiting", "running"},
         \A j \in js : j \in Calls /\ q.call[j] = "running",
         NEW r, r = Settle(q, js, how)
  PROVE  /\ Sound(r)
         /\ \A j \in Calls : r.call[j] = "running" <=> q.call[j] = "running" /\ j \notin js
         /\ \A j \in Calls : r.call[j] = "running" => r.on[j] = q.on[j]
         /\ r.waiting = q.waiting /\ r.closed = q.closed
         /\ SameChildren(q, r) /\ r.busy = q.busy
         /\ Slots(r) = Slots(q) /\ Idle(r) = Idle(q) /\ Dead(r) = Dead(q)
<1>1. q \in PoolState /\ SlotInd(q) /\ ChildInd(q) /\ CallInd(q) /\ LineInd(q) /\ SizeInd(q)
  BY DEF Sound
<1>3. /\ r \in PoolState
      /\ r.call = [j \in Calls |-> IF j \in js THEN how ELSE q.call[j]]
      /\ r.on = [j \in Calls |-> IF j \in js THEN NoChild ELSE q.on[j]]
      /\ r.waiting = q.waiting /\ r.closed = q.closed
      /\ SameChildren(q, r) /\ r.busy = q.busy
  BY <1>1, SettleMakes
<1>4. \A j \in Calls : /\ r.call[j] = IF j \in js THEN how ELSE q.call[j]
                       /\ r.on[j] = IF j \in js THEN NoChild ELSE q.on[j]
  BY <1>3
<1>5. /\ \A j \in Calls : r.call[j] = "running" <=> q.call[j] = "running" /\ j \notin js
      /\ \A j \in Calls : r.call[j] = "running" => r.on[j] = q.on[j]
      /\ \A j \in Calls : r.call[j] = "waiting" <=> q.call[j] = "waiting"
  BY <1>4
<1>6. Slots(r) = Slots(q) /\ ChildInd(r) /\ SizeInd(r) /\ SlotInd(r)
  <2>1. r.busy \subseteq q.said
    BY <1>1, <1>3 DEF SlotInd
  <2> QED
    BY <2>1, <1>1, <1>3, SameChildrenKeep
<1>7. CallInd(r)
  BY <1>1, <1>3, <1>5, <1>6 DEF CallInd
<1>8. LineInd(r)
  BY <1>1, <1>3, <1>5 DEF LineInd
<1>9. Idle(r) = Idle(q) /\ Dead(r) = Dead(q)
  BY <1>3, <1>6 DEF Idle, Dead, SameChildren
<1> QED
  BY <1>3, <1>5, <1>6, <1>7, <1>8, <1>9 DEF Sound

\* A child without a job leaves the slots, killed or gone for good: one is owed.
LEMMA LeavingIsSound ==
  ASSUME NEW q, Sound(q), Balanced(q), NEW c \in Children, JobsOn(q, c) = {},
         NEW r \in PoolState, SameCalls(q, r),
         r.slots = Without(q.slots, c), r.busy = q.busy \ {c}, r.spawning = q.spawning,
         \A d \in Children \ {c} :
           /\ r.proc[d] = q.proc[d] /\ r.jobsRun[d] = q.jobsRun[d]
           /\ d \in r.killed <=> d \in q.killed
           /\ d \in r.said <=> d \in q.said,
         \/ r.proc[c] = "gone" /\ c \in r.killed /\ (c \in r.said => c \in q.said)
         \/ r.proc[c] = "none" /\ c \notin r.killed /\ c \notin r.said /\ r.jobsRun[c] = 0
  PROVE  Sound(r) /\ Owing(r)
<1>1. q \in PoolState /\ SlotInd(q) /\ ChildInd(q) /\ CallInd(q) /\ LineInd(q) /\ SizeInd(q)
  BY DEF Sound
<1>2. /\ r.said \subseteq Children /\ q.said \subseteq Children /\ q.busy \subseteq Children
      /\ q.slots \in Seq(Children)
  BY <1>1 DEF PoolState
<1>3. /\ Slots(r) = Slots(q) \ {c}
      /\ \A i, k \in DOMAIN r.slots : r.slots[i] = r.slots[k] => i = k
  <2>1. \A i, k \in DOMAIN q.slots : q.slots[i] = q.slots[k] => i = k
    BY <1>1 DEF SlotInd
  <2>2. PICK w : w = Without(q.slots, c)
    OBVIOUS
  <2>3. /\ Held(w) = Held(q.slots) \ {c}
        /\ \A i, k \in DOMAIN w : w[i] = w[k] => i = k
    BY <1>2, <2>1, <2>2, WithoutTakesOut
  <2>4. r.slots = w
    BY <2>2
  <2> QED
    BY <2>3, <2>4 DEF Slots, Held
<1>4. Slots(q) \subseteq Children
  BY <1>1, SlotsAreCounted
<1>5. SlotInd(r)
  <2>1. Slots(r) \subseteq r.said /\ r.busy \subseteq r.said
    BY <1>1, <1>2, <1>3, <1>4 DEF SlotInd
  <2>2. \A d \in r.said : r.proc[d] \in {"up", "gone"} /\ d \notin r.spawning
    BY <1>1, <1>2 DEF SlotInd
  <2> QED
    BY <1>3, <2>1, <2>2 DEF SlotInd
<1>6. ChildInd(r)
  <2>1. /\ r.proc[c] \notin {"starting", "up"}
        /\ c \in r.killed => r.proc[c] = "gone"
        /\ c \notin r.killed => r.jobsRun[c] < MaxJobs
    BY PoolAssumption
  <2>2. \A d \in Children \ {c} :
          /\ r.proc[d] = "starting" => d \in r.spawning
          /\ r.proc[d] = "up" => d \in Slots(r)
          /\ d \in r.killed => r.proc[d] = "gone"
          /\ d \notin r.killed => r.jobsRun[d] < MaxJobs
    BY <1>1, <1>3 DEF ChildInd
  <2>3. IsFiniteSet(r.spawning)
    BY <1>1 DEF ChildInd
  <2> QED
    BY <2>1, <2>2, <2>3 DEF ChildInd
<1>7. CallInd(r)
  <2>1. \A j \in Calls : q.call[j] = "running" => q.on[j] # c
    BY DEF JobsOn
  <2> QED
    BY <1>1, <1>3, <2>1 DEF CallInd, SameCalls
<1>8. LineInd(r)
  BY <1>1 DEF LineInd, SameCalls
<1>9. SizeInd(r)
  <2>1. Living(r) \subseteq Living(q)
    BY DEF Living
  <2>2. IsFiniteSet(Living(q))
    BY <1>1, LivingAreCounted
  <2>3. Cardinality(Living(r)) <= Cardinality(Living(q)) /\ IsFiniteSet(Living(r))
    BY <2>1, <2>2, FewerCountLess
  <2>4. Cardinality(Living(r)) \in Nat /\ Cardinality(Living(q)) \in Nat /\ Size \in Nat
    BY <2>2, <2>3, FS_CardinalityType, PoolAssumption
  <2> QED
    BY <1>1, <2>3, <2>4 DEF SizeInd
<1>10. Owing(r)
  <2>1. Idle(r) \subseteq Idle(q)
    BY <1>3, <1>4 DEF Idle
  <2>2. Dead(q) \subseteq Dead(r) \union {c}
    BY <1>3, <1>4 DEF Dead
  <2>3. r.waiting = q.waiting
    BY DEF SameCalls
  <2> QED
    BY <1>1, <2>1, <2>2, <2>3, OneIsOwed
<1> QED
  BY <1>5, <1>6, <1>7, <1>8, <1>9, <1>10 DEF Sound

\* A child of the slots without a job goes back to them, or is retired.
LEMMA ReleaseIsSound ==
  ASSUME NEW q, Sound(q), Balanced(q),
         NEW c \in Slots(q), JobsOn(q, c) = {}, c \notin q.killed
  PROVE  Sound(Release(q, c)) /\ Balanced(Release(q, c))
<1>1. q \in PoolState /\ SlotInd(q) /\ ChildInd(q) /\ CallInd(q) /\ LineInd(q) /\ SizeInd(q)
  BY DEF Sound
<1>2. c \in Children /\ q.proc[c] \in {"up", "gone"}
  BY <1>1, SlotsAreCounted DEF SlotInd
<1>3. q.jobsRun[c] \in Nat /\ q.jobsRun[c] < MaxJobs /\ MaxJobs \in Nat
  BY <1>1, <1>2, PoolAssumption DEF ChildInd, PoolState
<1>4. PICK s : s = [q EXCEPT !.busy = @ \ {c}, !.jobsRun[c] = @ + 1]
  OBVIOUS
<1>5. /\ s \in PoolState
      /\ SameCalls(q, s)
      /\ s.slots = q.slots /\ s.spawning = q.spawning /\ s.proc = q.proc
      /\ s.killed = q.killed /\ s.said = q.said
      /\ s.busy = q.busy \ {c}
      /\ s.jobsRun = [q.jobsRun EXCEPT ![c] = @ + 1]
  <2>1. q.jobsRun[c] + 1 \in 0 .. MaxJobs
    BY <1>3
  <2> QED
    BY <1>1, <1>2, <1>4, <2>1 DEF PoolState, SameCalls
<1>6. \A d \in Children : s.jobsRun[d] = IF d = c THEN q.jobsRun[c] + 1 ELSE q.jobsRun[d]
  BY <1>1, <1>2, <1>5 DEF PoolState
<1>7. CASE s.jobsRun[c] >= MaxJobs
  <2>1. PICK t : t = [s EXCEPT !.slots = Without(@, c), !.busy = @ \ {c}]
    OBVIOUS
  <2>2. Without(q.slots, c) \in Seq(Children)
    <3>1. q.slots \in Seq(Children) /\ \A i, k \in DOMAIN q.slots : q.slots[i] = q.slots[k] => i = k
      BY <1>1 DEF PoolState, SlotInd
    <3> QED
      BY <3>1, <1>2, WithoutTakesOut
  <2>3. /\ t \in PoolState
        /\ SameCalls(q, t)
        /\ t.slots = Without(q.slots, c) /\ t.spawning = q.spawning /\ t.proc = q.proc
        /\ t.killed = q.killed /\ t.said = q.said
        /\ t.busy = q.busy \ {c}
        /\ t.jobsRun = s.jobsRun
    BY <1>5, <2>1, <2>2 DEF PoolState, SameCalls
  <2>4. PICK r : r = Kill(t, c)
    OBVIOUS
  <2>5. /\ r \in PoolState
        /\ SameCalls(t, r)
        /\ r.slots = t.slots /\ r.busy = t.busy /\ r.spawning = t.spawning
        /\ r.said = t.said /\ r.jobsRun = t.jobsRun
        /\ r.proc = [t.proc EXCEPT ![c] = "gone"]
        /\ r.killed = t.killed \union {c}
    BY <1>2, <2>3, <2>4, KillMakes
  <2>6. SameCalls(q, r)
    BY <2>3, <2>5 DEF SameCalls
  <2>7. \A d \in Children : r.proc[d] = IF d = c THEN "gone" ELSE q.proc[d]
    BY <1>1, <2>3, <2>5 DEF PoolState
  <2>8. Sound(r) /\ Owing(r)
    <3>1. /\ r \in PoolState
          /\ r.slots = Without(q.slots, c) /\ r.busy = q.busy \ {c} /\ r.spawning = q.spawning
      BY <2>3, <2>5
    <3>2. \A d \in Children \ {c} :
            /\ r.proc[d] = q.proc[d] /\ r.jobsRun[d] = q.jobsRun[d]
            /\ d \in r.killed <=> d \in q.killed
            /\ d \in r.said <=> d \in q.said
      BY <1>6, <2>3, <2>5, <2>7
    <3>3. r.proc[c] = "gone" /\ c \in r.killed /\ (c \in r.said => c \in q.said)
      BY <1>2, <2>3, <2>5, <2>7
    <3> QED
      BY <1>2, <2>6, <3>1, <3>2, <3>3, LeavingIsSound
  <2>9. Release(q, c) = Pump(r)
    BY <1>4, <1>7, <2>1, <2>4 DEF Release, Retire
  <2> QED
    BY <2>8, <2>9, PumpPays
<1>8. CASE ~ (s.jobsRun[c] >= MaxJobs)
  <2>1. Release(q, c) = Pump(s)
    BY <1>4, <1>8 DEF Release
  <2>2. Slots(s) = Slots(q) /\ Living(s) = Living(q)
    BY <1>5 DEF Slots, Living
  <2>3. SlotInd(s)
    BY <1>1, <1>5, <2>2 DEF SlotInd
  <2>4. ChildInd(s)
    <3>1. s.jobsRun[c] < MaxJobs
      BY <1>2, <1>3, <1>6, <1>8
    <3> QED
      BY <1>1, <1>5, <1>6, <2>2, <3>1 DEF ChildInd
  <2>5. CallInd(s)
    <3>1. \A j \in Calls : q.call[j] = "running" => q.on[j] # c
      BY DEF JobsOn
    <3> QED
      BY <1>1, <1>5, <2>2, <3>1 DEF CallInd, SameCalls
  <2>6. LineInd(s) /\ SizeInd(s)
    BY <1>1, <1>5, <2>2 DEF LineInd, SizeInd, SameCalls
  <2>7. Owing(s)
    <3>1. s.waiting = q.waiting
      BY <1>5 DEF SameCalls
    <3>2. CASE q.proc[c] = "up"
      <4>1. Idle(s) \subseteq Idle(q) \union {c} /\ Dead(q) \subseteq Dead(s)
        BY <1>5, <2>2, <3>2 DEF Idle, Dead
      <4> QED
        BY <1>1, <1>5, <3>1, <4>1, OneIsOwed
    <3>3. CASE q.proc[c] = "gone"
      <4>1. Idle(s) \subseteq Idle(q) /\ Dead(q) \subseteq Dead(s) \union {c}
        BY <1>5, <2>2, <3>3 DEF Idle, Dead
      <4> QED
        BY <1>1, <1>5, <3>1, <4>1, OneIsOwed
    <3> QED
      BY <1>2, <3>2, <3>3
  <2>8. Sound(s)
    BY <1>5, <2>3, <2>4, <2>5, <2>6 DEF Sound
  <2> QED
    BY <2>1, <2>7, <2>8, PumpPays
<1> QED
  BY <1>7, <1>8

\* The job on a child ends, and run's finally releases the child unless it was
\* killed.
LEMMA FinishIsSound ==
  ASSUME NEW q, Sound(q), Balanced(q), NEW c \in Children, JobsOn(q, c) # {},
         NEW how \in CallStates \ {"waiting", "running"}
  PROVE  Sound(Finish(q, c, how)) /\ Balanced(Finish(q, c, how))
<1>1. PICK r : r = Settle(q, JobsOn(q, c), how)
  OBVIOUS
<1>2. \A j \in JobsOn(q, c) : j \in Calls /\ q.call[j] = "running"
  BY DEF JobsOn
<1>3. /\ Sound(r)
      /\ \A j \in Calls : r.call[j] = "running" <=> q.call[j] = "running" /\ j \notin JobsOn(q, c)
      /\ \A j \in Calls : r.call[j] = "running" => r.on[j] = q.on[j]
      /\ r.waiting = q.waiting
      /\ SameChildren(q, r)
      /\ Slots(r) = Slots(q) /\ Idle(r) = Idle(q) /\ Dead(r) = Dead(q)
  BY <1>1, <1>2, SettleIsSound
<1>4. Balanced(r)
  BY <1>3 DEF Balanced
<1>5. JobsOn(r, c) = {}
  BY <1>3 DEF JobsOn
<1>6. c \in Slots(r)
  BY <1>3 DEF Sound, CallInd, JobsOn
<1>7. r.killed = q.killed
  BY <1>3 DEF SameChildren
<1>8. CASE c \in q.killed
  BY <1>1, <1>3, <1>4, <1>8 DEF Finish
<1>9. CASE c \notin q.killed
  <2>1. Finish(q, c, how) = Release(r, c)
    BY <1>1, <1>9 DEF Finish
  <2> QED
    BY <2>1, <1>3, <1>4, <1>5, <1>6, <1>7, <1>9, ReleaseIsSound
<1> QED
  BY <1>8, <1>9

------------------------------------------------------------------------------
(* A child that dies, or starts. *)

\* A child that is dead, or was never started, is alive no more.
LEMMA EndingIsSound ==
  ASSUME NEW q, Sound(q), Balanced(q), NEW c \in Children,
         NEW r \in PoolState, SameCalls(q, r),
         r.slots = q.slots, r.busy = q.busy, r.said = q.said, r.jobsRun = q.jobsRun,
         r.spawning = q.spawning \/ r.spawning = q.spawning \ {c},
         \A d \in Children \ {c} :
           r.proc[d] = q.proc[d] /\ (d \in r.killed <=> d \in q.killed),
         c \in q.killed => c \in r.killed,
         \/ r.proc[c] = "gone"
         \/ r.proc[c] = "none" /\ c \notin r.killed /\ c \notin q.said
  PROVE  Sound(r) /\ Balanced(r)
<1>1. q \in PoolState /\ SlotInd(q) /\ ChildInd(q) /\ CallInd(q) /\ LineInd(q) /\ SizeInd(q)
  BY DEF Sound
<1>2. Slots(r) = Slots(q) /\ Slots(q) \subseteq Children /\ q.said \subseteq Children
  BY <1>1, SlotsAreCounted DEF Slots, PoolState
<1>3. SlotInd(r)
  <2>1. \A d \in r.said : r.proc[d] \in {"up", "gone"} /\ d \notin r.spawning
    BY <1>1, <1>2 DEF SlotInd
  <2> QED
    BY <1>1, <1>2, <2>1 DEF SlotInd
<1>4. ChildInd(r)
  <2>1. IsFiniteSet(r.spawning)
    BY <1>1, FS_RemoveElement DEF ChildInd
  <2>2. \A d \in Children \ {c} :
          /\ r.proc[d] = "starting" => d \in r.spawning
          /\ r.proc[d] = "up" => d \in Slots(r)
          /\ d \in r.killed => r.proc[d] = "gone"
          /\ d \notin r.killed => r.jobsRun[d] < MaxJobs
    BY <1>1, <1>2 DEF ChildInd
  <2>3. /\ r.proc[c] \notin {"starting", "up"}
        /\ c \in r.killed => r.proc[c] = "gone"
        /\ c \notin r.killed => r.jobsRun[c] < MaxJobs
    BY <1>1 DEF ChildInd
  <2> QED
    BY <2>1, <2>2, <2>3 DEF ChildInd
<1>5. CallInd(r) /\ LineInd(r)
  BY <1>1, <1>2 DEF CallInd, LineInd, SameCalls
<1>6. SizeInd(r)
  <2>1. Living(r) \subseteq Living(q)
    BY DEF Living
  <2>2. IsFiniteSet(Living(q))
    BY <1>1, LivingAreCounted
  <2>3. Cardinality(Living(r)) <= Cardinality(Living(q)) /\ IsFiniteSet(Living(r))
    BY <2>1, <2>2, FewerCountLess
  <2>4. Cardinality(Living(r)) \in Nat /\ Cardinality(Living(q)) \in Nat /\ Size \in Nat
    BY <2>2, <2>3, FS_CardinalityType, PoolAssumption
  <2> QED
    BY <1>1, <2>3, <2>4 DEF SizeInd
<1>7. Balanced(r)
  <2>1. Idle(r) \subseteq Idle(q)
    BY <1>2 DEF Idle
  <2>2. Dead(q) \subseteq Dead(r)
    BY <1>1, <1>2 DEF Dead, SlotInd
  <2>3. r.waiting = q.waiting
    BY DEF SameCalls
  <2> QED
    BY <1>1, <2>1, <2>2, <2>3, BalanceKept
<1> QED
  BY <1>3, <1>4, <1>5, <1>6, <1>7 DEF Sound

\* A kill keeps the pool sound.
LEMMA KillIsSound ==
  ASSUME NEW q, Sound(q), Balanced(q), NEW c \in Children
  PROVE  Sound(Kill(q, c)) /\ Balanced(Kill(q, c))
<1>1. PICK r : r = Kill(q, c)
  OBVIOUS
<1>2. q \in PoolState
  BY DEF Sound
<1>3. /\ r \in PoolState
      /\ SameCalls(q, r)
      /\ r.slots = q.slots /\ r.busy = q.busy /\ r.spawning = q.spawning
      /\ r.said = q.said /\ r.jobsRun = q.jobsRun
      /\ q.proc[c] # "none" => /\ r.proc = [q.proc EXCEPT ![c] = "gone"]
                               /\ r.killed = q.killed \union {c}
      /\ q.proc[c] = "none" => r.proc = q.proc /\ r.killed = q.killed
  BY <1>1, <1>2, KillMakes
<1>4. CASE q.proc[c] = "none"
  <2>1. c \notin q.said /\ c \notin q.killed
    BY <1>4 DEF Sound, SlotInd, ChildInd
  <2> QED
    BY <1>1, <1>3, <1>4, <2>1, EndingIsSound
<1>5. CASE q.proc[c] # "none"
  <2>1. \A d \in Children : r.proc[d] = IF d = c THEN "gone" ELSE q.proc[d]
    BY <1>2, <1>3, <1>5 DEF PoolState
  <2>2. \A d \in Children \ {c} : r.proc[d] = q.proc[d] /\ (d \in r.killed <=> d \in q.killed)
    BY <1>3, <1>5, <2>1
  <2>3. r.proc[c] = "gone" /\ c \in r.killed
    BY <1>3, <1>5, <2>1
  <2> QED
    BY <1>1, <1>3, <2>2, <2>3, EndingIsSound
<1> QED
  BY <1>4, <1>5

\* Who stood behind one that got no child moves up.
LEMMA GivingNothingIsSound ==
  ASSUME NEW q, Sound(q), Balanced(q)
  PROVE  Sound(GiveNothing(q)) /\ Balanced(GiveNothing(q))
<1>1. q \in PoolState /\ SlotInd(q) /\ ChildInd(q) /\ CallInd(q) /\ LineInd(q) /\ SizeInd(q)
  BY DEF Sound
<1>2. CASE q.waiting = <<>>
  BY <1>2, NothingToGive
<1>3. CASE q.waiting # <<>>
  <2>1. PICK r : r = GiveNothing(q)
    OBVIOUS
  <2>2. PICK h : h = Head(q.waiting)
    OBVIOUS
  <2>3. /\ r \in PoolState
        /\ h \in Calls
        /\ r.call = [q.call EXCEPT ![h] = "crashed"]
        /\ r.on = q.on
        /\ r.waiting = Tail(q.waiting) /\ r.closed = q.closed
        /\ r.busy = q.busy
        /\ SameChildren(q, r)
    BY <1>1, <1>3, <2>1, <2>2, GiveNothingMakes
  <2>4. Slots(r) = Slots(q) /\ ChildInd(r) /\ SizeInd(r) /\ SlotInd(r)
    <3>1. r.busy \subseteq q.said
      BY <1>1, <2>3 DEF SlotInd
    <3> QED
      BY <3>1, <1>1, <2>3, SameChildrenKeep
  <2>5. LineInd(r)
    BY <1>1, <1>3, <2>2, <2>3, LineMovesUp DEF CallStates
  <2>6. CallInd(r)
    <3>1. \A j \in Calls : r.call[j] = "running" => q.call[j] = "running"
      BY <1>1, <2>3 DEF PoolState
    <3> QED
      BY <3>1, <1>1, <2>3, <2>4 DEF CallInd
  <2>7. Idle(r) = Idle(q) /\ Dead(r) = Dead(q)
    BY <2>3, <2>4 DEF Idle, Dead, SameChildren
  <2>8. Balanced(r)
    BY <1>3, <2>7 DEF Balanced
  <2> QED
    BY <2>1, <2>3, <2>4, <2>5, <2>6, <2>8 DEF Sound
<1> QED
  BY <1>2, <1>3

\* What is appended is held, and held once if it was not there.
LEMMA AppendHolds ==
  ASSUME NEW S, NEW s \in Seq(S), NEW e \in S
  PROVE  /\ Append(s, e) \in Seq(S) /\ Append(s, e) # <<>>
         /\ Held(Append(s, e)) = Held(s) \union {e}
         /\ /\ \A i, k \in DOMAIN s : s[i] = s[k] => i = k
            /\ e \notin Held(s)
            => \A i, k \in DOMAIN Append(s, e) : Append(s, e)[i] = Append(s, e)[k] => i = k
<1>1. PICK t : t = Append(s, e)
  OBVIOUS
<1>2. /\ t \in Seq(S) /\ Len(s) \in Nat /\ DOMAIN s = 1 .. Len(s)
      /\ DOMAIN t = 1 .. Len(s) + 1
      /\ \A i \in DOMAIN s : t[i] = s[i]
      /\ t[Len(s) + 1] = e
      /\ Len(t) = Len(s) + 1
  BY <1>1
<1>3. t # <<>>
  <2>1. Len(t) # 0
    BY <1>2
  <2> QED
    BY <2>1
<1>4. \A i \in DOMAIN t : i \in DOMAIN s \/ i = Len(s) + 1
  BY <1>2
<1>5. Held(t) = Held(s) \union {e}
  <2>1. \A i \in DOMAIN s : i \in DOMAIN t
    BY <1>2
  <2>2. Len(s) + 1 \in DOMAIN t
    BY <1>2
  <2> QED
    BY <1>2, <1>4, <2>1, <2>2 DEF Held
<1>6. ASSUME \A i, k \in DOMAIN s : s[i] = s[k] => i = k, e \notin Held(s)
      PROVE  \A i, k \in DOMAIN t : t[i] = t[k] => i = k
  BY <1>2, <1>4, <1>6 DEF Held
<1> QED
  BY <1>1, <1>2, <1>3, <1>5, <1>6

\* A child that says "ready" joins the slots, alive or dead.
LEMMA JoiningIsSound ==
  ASSUME NEW q, Sound(q), NEW c \in Children, c \notin q.said,
         q.proc[c] \in {"starting", "gone"},
         NEW r \in PoolState, SameCalls(q, r),
         r.slots = Append(q.slots, c), r.busy = q.busy, r.said = q.said \union {c},
         r.jobsRun = q.jobsRun, r.killed = q.killed, r.spawning = q.spawning \ {c},
         r.proc = [q.proc EXCEPT ![c] = IF @ = "starting" THEN "up" ELSE @]
  PROVE  /\ Sound(r)
         /\ c \in Slots(r) /\ c \notin r.busy
         /\ Idle(r) \ {c} \subseteq Idle(q) /\ Dead(q) \subseteq Dead(r)
         /\ q.proc[c] = "gone" => Idle(r) \subseteq Idle(q)
<1>1. q \in PoolState /\ SlotInd(q) /\ ChildInd(q) /\ CallInd(q) /\ LineInd(q) /\ SizeInd(q)
  BY DEF Sound
<1>2. /\ q.slots \in Seq(Children) /\ Slots(q) \subseteq Children /\ q.said \subseteq Children
      /\ q.busy \subseteq Children
      /\ q.proc \in [Children -> {"none", "starting", "up", "gone"}]
  BY <1>1, SlotsAreCounted DEF PoolState
<1>3. /\ Slots(r) = Slots(q) \union {c}
      /\ \A i, k \in DOMAIN r.slots : r.slots[i] = r.slots[k] => i = k
  <2>1. Slots(q) = Held(q.slots) /\ Slots(r) = Held(r.slots)
    BY DEF Slots, Held
  <2>2. c \notin Held(q.slots) /\ \A i, k \in DOMAIN q.slots : q.slots[i] = q.slots[k] => i = k
    BY <1>1, <2>1 DEF SlotInd
  <2>3. PICK t : t = Append(q.slots, c)
    OBVIOUS
  <2>4. Held(t) = Held(q.slots) \union {c} /\ \A i, k \in DOMAIN t : t[i] = t[k] => i = k
    BY <1>2, <2>2, <2>3, AppendHolds
  <2> QED
    BY <2>1, <2>3, <2>4
<1>4. \A d \in Children :
        r.proc[d] = IF d = c THEN IF q.proc[c] = "starting" THEN "up" ELSE "gone"
                    ELSE q.proc[d]
  BY <1>2
<1>5. c \notin Slots(q) /\ c \notin q.busy
  BY <1>1 DEF SlotInd
<1>6. SlotInd(r)
  BY <1>1, <1>2, <1>3, <1>4 DEF SlotInd
<1>7. ChildInd(r)
  <2>1. IsFiniteSet(r.spawning)
    BY <1>1, FS_RemoveElement DEF ChildInd
  <2> QED
    BY <2>1, <1>1, <1>3, <1>4 DEF ChildInd
<1>8. CallInd(r) /\ LineInd(r)
  BY <1>1, <1>3 DEF CallInd, LineInd, SameCalls
<1>9. SizeInd(r)
  <2>1. Living(r) = Living(q)
    BY <1>4 DEF Living
  <2> QED
    BY <1>1, <2>1 DEF SizeInd
<1>10. /\ Idle(r) \ {c} \subseteq Idle(q) /\ Dead(q) \subseteq Dead(r)
       /\ q.proc[c] = "gone" => Idle(r) \subseteq Idle(q)
  BY <1>2, <1>3, <1>4, <1>5 DEF Idle, Dead
<1> QED
  BY <1>3, <1>5, <1>6, <1>7, <1>8, <1>9, <1>10 DEF Sound

------------------------------------------------------------------------------
(* The steps. *)

Kept(q) == Sound(q) /\ Balanced(q)

\* A call joins the line, or is refused by a closed pool.
LEMMA RunKeeps ==
  ASSUME Kept(p), NEW j \in Calls, Run(j)
  PROVE  Kept(p')
<1>1. p \in PoolState /\ SlotInd(p) /\ ChildInd(p) /\ CallInd(p) /\ LineInd(p) /\ SizeInd(p)
  BY DEF Kept, Sound
<1>2. PICK q : q = p
  OBVIOUS
<1>3. q \in PoolState /\ Sound(q) /\ Balanced(q) /\ q.call[j] = "uncalled"
  BY <1>1, <1>2 DEF Kept, Run
<1>4. q.waiting \in Seq(Calls) /\ q.call \in [Calls -> CallStates]
  BY <1>3 DEF PoolState
<1>5. CASE q.closed
  <2>1. PICK r : r = [q EXCEPT !.call[j] = "crashed"]
    OBVIOUS
  <2>2. /\ r \in PoolState
        /\ r.call = [q.call EXCEPT ![j] = "crashed"] /\ r.on = q.on
        /\ r.waiting = q.waiting /\ r.closed = q.closed /\ r.busy = q.busy
        /\ SameChildren(q, r)
    BY <1>3, <1>4, <2>1 DEF PoolState, SameChildren, CallStates
  <2>3. \A k \in Calls : r.call[k] = IF k = j THEN "crashed" ELSE q.call[k]
    BY <1>4, <2>2
  <2>4. Slots(r) = Slots(q) /\ ChildInd(r) /\ SizeInd(r) /\ SlotInd(r)
    <3>1. r.busy \subseteq q.said
      BY <1>3, <2>2 DEF Sound, SlotInd
    <3> QED
      BY <3>1, <1>3, <2>2, SameChildrenKeep DEF Sound
  <2>5. CallInd(r)
    BY <1>3, <2>2, <2>3, <2>4 DEF CallInd, Sound
  <2>6. LineInd(r)
    BY <1>3, <2>2, <2>3 DEF LineInd, Sound
  <2>7. Balanced(r)
    BY <1>3, <1>5, <2>2 DEF LineInd, Sound, Balanced
  <2>8. p' = r
    BY <1>2, <1>5, <2>1 DEF Run
  <2> QED
    BY <2>2, <2>4, <2>5, <2>6, <2>7, <2>8 DEF Kept, Sound
<1>6. CASE ~ q.closed
  <2>1. PICK r : r = [q EXCEPT !.call[j] = "waiting", !.waiting = Append(@, j)]
    OBVIOUS
  <2>2. PICK w : w = Append(q.waiting, j)
    OBVIOUS
  <2>3. w \in Seq(Calls)
    BY <1>4, <2>2
  <2>4. /\ r \in PoolState
        /\ r.call = [q.call EXCEPT ![j] = "waiting"] /\ r.on = q.on
        /\ r.waiting = w /\ r.closed = q.closed /\ r.busy = q.busy
        /\ SameChildren(q, r)
    BY <1>3, <1>4, <2>1, <2>2, <2>3 DEF PoolState, SameChildren, CallStates
  <2>5. \A k \in Calls : r.call[k] = IF k = j THEN "waiting" ELSE q.call[k]
    BY <1>4, <2>4
  <2>6. Slots(r) = Slots(q) /\ ChildInd(r) /\ SizeInd(r) /\ SlotInd(r)
    <3>1. r.busy \subseteq q.said
      BY <1>3, <2>4 DEF Sound, SlotInd
    <3> QED
      BY <3>1, <1>3, <2>4, SameChildrenKeep DEF Sound
  <2>7. CallInd(r)
    BY <1>3, <2>4, <2>5, <2>6 DEF CallInd, Sound
  <2>8. LineInd(r)
    <3>1. \A k \in Calls : q.call[k] = "waiting" <=> k \in Held(q.waiting)
      BY <1>3 DEF Sound, LineInd, Held
    <3>2. \A i, k \in DOMAIN q.waiting : q.waiting[i] = q.waiting[k] => i = k
      BY <1>3 DEF Sound, LineInd
    <3>3. j \notin Held(q.waiting)
      BY <1>3, <3>1
    <3>4. Held(w) = Held(q.waiting) \union {j} /\ \A i, k \in DOMAIN w : w[i] = w[k] => i = k
      BY <1>4, <2>2, <3>2, <3>3, AppendHolds
    <3>5. \A k \in Calls : r.call[k] = "waiting" <=> k \in Held(r.waiting)
      BY <2>4, <2>5, <3>1, <3>4
    <3> QED
      BY <1>6, <2>4, <3>4, <3>5 DEF LineInd, Held
  <2>9. Owing(r)
    <3>1. Idle(r) = Idle(q) /\ Dead(r) = Dead(q)
      BY <2>4, <2>6 DEF Idle, Dead, SameChildren
    <3>2. Len(w) > 1 => q.waiting # <<>>
      BY <1>4, <2>2
    <3>3. Cardinality(Idle(q)) \in Nat /\ Cardinality(Dead(q)) \in Nat
      BY <1>3, BothAreCounted
    <3> QED
      BY <1>3, <2>4, <3>1, <3>2, <3>3 DEF Owing, Balanced
  <2>10. p' = Pump(r)
    BY <1>2, <1>6, <2>1 DEF Run
  <2> QED
    BY <2>4, <2>6, <2>7, <2>8, <2>9, <2>10, PumpPays DEF Kept, Sound
<1> QED
  BY <1>5, <1>6

\* A child answers "ready": it takes the head of the line, and none is owed.
LEMMA ReadyKeeps ==
  ASSUME Kept(p), NEW c \in Children, Ready(c)
  PROVE  Kept(p')
<1>1. PICK q : q = p
  OBVIOUS
<1>2. /\ q \in PoolState /\ Sound(q) /\ Balanced(q)
      /\ c \notin q.said /\ q.proc[c] \in {"starting", "gone"}
  BY <1>1 DEF Kept, Ready, Sound
<1>3. PICK r : r = [q EXCEPT !.said = @ \union {c}, !.slots = Append(@, c),
                             !.spawning = @ \ {c},
                             !.proc[c] = IF @ = "starting" THEN "up" ELSE @]
  OBVIOUS
<1>4. p' = IF r.closed THEN Kill(r, c) ELSE Give(r, c)
  BY <1>1, <1>3 DEF Ready
<1>5. /\ r \in PoolState /\ SameCalls(q, r)
      /\ r.slots = Append(q.slots, c) /\ r.busy = q.busy /\ r.said = q.said \union {c}
      /\ r.jobsRun = q.jobsRun /\ r.killed = q.killed /\ r.spawning = q.spawning \ {c}
      /\ r.proc = [q.proc EXCEPT ![c] = IF @ = "starting" THEN "up" ELSE @]
  <2>1. PICK w : w = Append(q.slots, c)
    OBVIOUS
  <2>2. PICK f : f = [q.proc EXCEPT ![c] = IF @ = "starting" THEN "up" ELSE @]
    OBVIOUS
  <2>3. w \in Seq(Children) /\ f \in [Children -> {"none", "starting", "up", "gone"}]
    BY <1>2, <2>1, <2>2 DEF PoolState
  <2>4. r = [q EXCEPT !.said = @ \union {c}, !.slots = w, !.spawning = @ \ {c}, !.proc = f]
    BY <1>2, <1>3, <2>1, <2>2 DEF PoolState
  <2> QED
    BY <1>2, <2>1, <2>2, <2>3, <2>4 DEF PoolState, SameCalls
<1>6. /\ Sound(r)
      /\ c \in Slots(r) /\ c \notin r.busy
      /\ Idle(r) \ {c} \subseteq Idle(q) /\ Dead(q) \subseteq Dead(r)
  BY <1>2, <1>5, JoiningIsSound
<1>7. r.waiting = q.waiting
  BY <1>5 DEF SameCalls
<1>8. CASE r.waiting = <<>> /\ ~ r.closed
  <2>1. p' = r
    BY <1>4, <1>8, NothingToGive
  <2> QED
    BY <1>6, <1>8, <2>1 DEF Kept, Balanced
<1>9. CASE r.waiting # <<>> /\ ~ r.closed
  <2>1. PICK s : s = Give(r, c)
    OBVIOUS
  <2>2. /\ Sound(s)
        /\ Idle(s) = Idle(r) \ {c}
        /\ Dead(s) = IF r.proc[c] = "gone" THEN Dead(r) \union {c} ELSE Dead(r)
    BY <1>6, <1>9, <2>1, GiveIsSound
  <2>3. Idle(s) \subseteq Idle(q) /\ Dead(q) \subseteq Dead(s)
    BY <1>6, <2>2
  <2>4. Balanced(s)
    BY <1>2, <1>7, <1>9, <2>2, <2>3, BalanceKept DEF Sound
  <2> QED
    BY <1>4, <1>9, <2>1, <2>2, <2>4 DEF Kept
<1>10. CASE r.closed
  <2>1. PICK s : s = Kill(r, c)
    OBVIOUS
  <2>2. r.waiting = <<>> /\ Balanced(r)
    BY <1>6, <1>10 DEF Sound, LineInd, Balanced
  <2>3. Sound(s) /\ Balanced(s)
    BY <1>6, <2>1, <2>2, KillIsSound
  <2> QED
    BY <1>4, <1>10, <2>1, <2>3 DEF Kept
<1> QED
  BY <1>8, <1>9, <1>10

\* One that was written off before joins dead: nobody is given to it yet.
LEMMA LateReadyKeeps ==
  ASSUME Kept(p), NEW c \in Children, LateReady(c)
  PROVE  Kept(p')
<1>1. PICK q : q = p
  OBVIOUS
<1>2. /\ q \in PoolState /\ Sound(q) /\ Balanced(q)
      /\ c \notin q.said /\ c \notin q.spawning /\ q.proc[c] = "gone"
  BY <1>1 DEF Kept, LateReady, Sound
<1>3. PICK w : w = Append(q.slots, c)
  OBVIOUS
<1>4. PICK r : r = [q EXCEPT !.said = @ \union {c}, !.slots = w]
  OBVIOUS
<1>5. p' = r
  BY <1>1, <1>3, <1>4 DEF LateReady
<1>6. w \in Seq(Children)
  BY <1>2, <1>3 DEF PoolState
<1>7. /\ r \in PoolState /\ SameCalls(q, r)
      /\ r.slots = w /\ r.busy = q.busy /\ r.said = q.said \union {c}
      /\ r.jobsRun = q.jobsRun /\ r.killed = q.killed /\ r.spawning = q.spawning
      /\ r.proc = q.proc
  BY <1>2, <1>4, <1>6 DEF PoolState, SameCalls
<1>8. r.spawning = q.spawning \ {c}
  BY <1>2, <1>7
<1>9. r.proc = [q.proc EXCEPT ![c] = IF @ = "starting" THEN "up" ELSE @]
  BY <1>2, <1>7 DEF PoolState
<1>10. /\ Sound(r)
       /\ Idle(r) \subseteq Idle(q) /\ Dead(q) \subseteq Dead(r)
  BY <1>2, <1>3, <1>7, <1>8, <1>9, JoiningIsSound
<1>11. Balanced(r)
  BY <1>2, <1>7, <1>10, BalanceKept DEF SameCalls
<1> QED
  BY <1>5, <1>10, <1>11 DEF Kept

\* A child that did not start in time is killed, and one waiter told.
LEMMA StartupTimeoutKeeps ==
  ASSUME Kept(p), NEW c \in Children, StartupTimeout(c)
  PROVE  Kept(p')
<1>1. PICK q : q = p
  OBVIOUS
<1>2. /\ q \in PoolState /\ Sound(q) /\ Balanced(q) /\ c \in q.spawning
  BY <1>1 DEF Kept, StartupTimeout, Sound
<1>3. PICK s : s = [q EXCEPT !.spawning = @ \ {c}]
  OBVIOUS
<1>4. PICK r : r = Kill(s, c)
  OBVIOUS
<1>5. p' = GiveNothing(r)
  BY <1>1, <1>3, <1>4 DEF StartupTimeout
<1>6. /\ s \in PoolState /\ SameCalls(q, s)
      /\ s.slots = q.slots /\ s.busy = q.busy /\ s.said = q.said
      /\ s.jobsRun = q.jobsRun /\ s.killed = q.killed /\ s.spawning = q.spawning \ {c}
      /\ s.proc = q.proc
  BY <1>2, <1>3 DEF PoolState, SameCalls
<1>7. /\ r \in PoolState
      /\ SameCalls(s, r)
      /\ r.slots = s.slots /\ r.busy = s.busy /\ r.spawning = s.spawning
      /\ r.said = s.said /\ r.jobsRun = s.jobsRun
      /\ s.proc[c] # "none" => /\ r.proc = [s.proc EXCEPT ![c] = "gone"]
                               /\ r.killed = s.killed \union {c}
      /\ s.proc[c] = "none" => r.proc = s.proc /\ r.killed = s.killed
  BY <1>4, <1>6, KillMakes
<1>8. c \notin q.said
  BY <1>2 DEF Sound, SlotInd
<1>9. c \in q.killed => q.proc[c] = "gone"
  BY <1>2 DEF Sound, ChildInd
<1>10. \A d \in Children \ {c} : r.proc[d] = q.proc[d] /\ (d \in r.killed <=> d \in q.killed)
  BY <1>2, <1>6, <1>7 DEF PoolState
<1>11. /\ c \in q.killed => c \in r.killed
       /\ r.proc[c] = "gone" \/ (r.proc[c] = "none" /\ c \notin r.killed /\ c \notin q.said)
  BY <1>2, <1>6, <1>7, <1>8, <1>9 DEF PoolState
<1>12. SameCalls(q, r)
  BY <1>6, <1>7 DEF SameCalls
<1>13. Sound(r) /\ Balanced(r)
  BY <1>2, <1>6, <1>7, <1>10, <1>11, <1>12, EndingIsSound
<1> QED
  BY <1>5, <1>13, GivingNothingIsSound DEF Kept

\* A child that could not be started is none, and one waiter told.
LEMMA ForkFailsKeeps ==
  ASSUME Kept(p), NEW c \in Children, ForkFails(c)
  PROVE  Kept(p')
<1>1. PICK q : q = p
  OBVIOUS
<1>2. /\ q \in PoolState /\ Sound(q) /\ Balanced(q)
      /\ c \in q.spawning /\ q.proc[c] = "starting"
  BY <1>1 DEF Kept, ForkFails, Sound
<1>3. PICK r : r = [q EXCEPT !.spawning = @ \ {c}, !.proc[c] = "none"]
  OBVIOUS
<1>4. p' = GiveNothing(r)
  BY <1>1, <1>3 DEF ForkFails
<1>5. /\ r \in PoolState /\ SameCalls(q, r)
      /\ r.slots = q.slots /\ r.busy = q.busy /\ r.said = q.said
      /\ r.jobsRun = q.jobsRun /\ r.killed = q.killed /\ r.spawning = q.spawning \ {c}
      /\ r.proc = [q.proc EXCEPT ![c] = "none"]
  BY <1>2, <1>3 DEF PoolState, SameCalls
<1>6. c \notin q.said /\ c \notin q.killed
  BY <1>2 DEF Sound, SlotInd, ChildInd
<1>7. \A d \in Children : r.proc[d] = IF d = c THEN "none" ELSE q.proc[d]
  BY <1>2, <1>5 DEF PoolState
<1>8. Sound(r) /\ Balanced(r)
  BY <1>2, <1>5, <1>6, <1>7, EndingIsSound
<1> QED
  BY <1>4, <1>8, GivingNothingIsSound DEF Kept

\* A child dies.
LEMMA DiesKeeps ==
  ASSUME Kept(p), NEW c \in Children, Dies(c)
  PROVE  Kept(p')
<1>1. PICK q : q = p
  OBVIOUS
<1>2. q \in PoolState /\ Sound(q) /\ Balanced(q)
  BY <1>1 DEF Kept, Sound
<1>3. PICK r : r = [q EXCEPT !.proc[c] = "gone"]
  OBVIOUS
<1>4. p' = r
  BY <1>1, <1>3 DEF Dies
<1>5. /\ r \in PoolState /\ SameCalls(q, r)
      /\ r.slots = q.slots /\ r.busy = q.busy /\ r.said = q.said
      /\ r.jobsRun = q.jobsRun /\ r.killed = q.killed /\ r.spawning = q.spawning
      /\ r.proc = [q.proc EXCEPT ![c] = "gone"]
  BY <1>2, <1>3 DEF PoolState, SameCalls
<1>6. \A d \in Children : r.proc[d] = IF d = c THEN "gone" ELSE q.proc[d]
  BY <1>2, <1>5 DEF PoolState
<1>7. Sound(r) /\ Balanced(r)
  BY <1>2, <1>5, <1>6, EndingIsSound
<1> QED
  BY <1>4, <1>7 DEF Kept

\* The 'exit' event settles the job, retires the slot and pumps, once or twice.
LEMMA ExitKeeps ==
  ASSUME Kept(p), NEW c \in Children, Exit(c)
  PROVE  Kept(p')
<1>1. PICK q : q = p
  OBVIOUS
<1>2. q \in PoolState /\ Sound(q) /\ Balanced(q) /\ q.proc[c] = "gone"
  BY <1>1 DEF Kept, Sound, Exit
<1>3. PICK js : js = JobsOn(q, c)
  OBVIOUS
<1>4. \A j \in js : j \in Calls /\ q.call[j] = "running"
  BY <1>3 DEF JobsOn
<1>5. PICK s : s = Settle(q, js, "crashed")
  OBVIOUS
<1>6. /\ Sound(s) /\ s \in PoolState
      /\ s.call = [j \in Calls |-> IF j \in js THEN "crashed" ELSE q.call[j]]
      /\ s.on = [j \in Calls |-> IF j \in js THEN NoChild ELSE q.on[j]]
      /\ s.waiting = q.waiting /\ s.closed = q.closed
      /\ SameChildren(q, s) /\ s.busy = q.busy
      /\ Idle(s) = Idle(q) /\ Dead(s) = Dead(q)
      /\ \A j \in Calls : s.call[j] = "running" <=> q.call[j] = "running" /\ j \notin js
      /\ \A j \in Calls : s.call[j] = "running" => s.on[j] = q.on[j]
  <2>1. "crashed" \in CallStates \ {"waiting", "running"}
    BY DEF CallStates
  <2>2. /\ Sound(s)
        /\ s.waiting = q.waiting /\ s.closed = q.closed
        /\ SameChildren(q, s) /\ s.busy = q.busy
        /\ Idle(s) = Idle(q) /\ Dead(s) = Dead(q)
        /\ \A j \in Calls : s.call[j] = "running" <=> q.call[j] = "running" /\ j \notin js
        /\ \A j \in Calls : s.call[j] = "running" => s.on[j] = q.on[j]
    BY <1>2, <1>4, <1>5, <2>1, SettleIsSound
  <2>3. /\ s \in PoolState
        /\ s.call = [j \in Calls |-> IF j \in js THEN "crashed" ELSE q.call[j]]
        /\ s.on = [j \in Calls |-> IF j \in js THEN NoChild ELSE q.on[j]]
    BY <1>2, <1>5, <2>1, SettleMakes
  <2> QED
    BY <2>2, <2>3
<1>7. Balanced(s)
  BY <1>2, <1>6 DEF Balanced
<1>8. JobsOn(s, c) = {}
  BY <1>3, <1>6 DEF JobsOn
<1>9. PICK a : a = [q EXCEPT !.proc[c] = "none", !.killed = @ \ {c},
                            !.said = @ \ {c}, !.jobsRun[c] = 0]
  OBVIOUS
<1>10. /\ a \in PoolState /\ SameCalls(q, a)
       /\ a.slots = q.slots /\ a.busy = q.busy /\ a.spawning = q.spawning
       /\ a.said = q.said \ {c} /\ a.killed = q.killed \ {c}
       /\ a.proc = [q.proc EXCEPT ![c] = "none"]
       /\ a.jobsRun = [q.jobsRun EXCEPT ![c] = 0]
  <2>1. PICK f : f = [q.proc EXCEPT ![c] = "none"]
    OBVIOUS
  <2>2. PICK n : n = [q.jobsRun EXCEPT ![c] = 0]
    OBVIOUS
  <2>3. 0 \in 0 .. MaxJobs
    BY PoolAssumption
  <2>4. /\ f \in [Children -> {"none", "starting", "up", "gone"}]
        /\ n \in [Children -> 0 .. MaxJobs]
    BY <1>2, <2>1, <2>2, <2>3 DEF PoolState
  <2>5. a = [q EXCEPT !.proc = f, !.killed = @ \ {c}, !.said = @ \ {c}, !.jobsRun = n]
    BY <1>2, <1>9, <2>1, <2>2 DEF PoolState
  <2>6. a \in PoolState
    BY <1>2, <2>4, <2>5 DEF PoolState
  <2>7. /\ SameCalls(q, a)
        /\ a.slots = q.slots /\ a.busy = q.busy /\ a.spawning = q.spawning
        /\ a.said = q.said \ {c} /\ a.killed = q.killed \ {c}
        /\ a.proc = f /\ a.jobsRun = n
    BY <1>2, <2>5 DEF PoolState, SameCalls
  <2> QED
    BY <2>1, <2>2, <2>6, <2>7
<1>11. JobsOn(a, c) = js
  BY <1>3, <1>10 DEF JobsOn, SameCalls
<1>12. PICK b : b = Settle(a, js, "crashed")
  OBVIOUS
<1>13. /\ b \in PoolState
       /\ b.call = [j \in Calls |-> IF j \in js THEN "crashed" ELSE a.call[j]]
       /\ b.on = [j \in Calls |-> IF j \in js THEN NoChild ELSE a.on[j]]
       /\ b.waiting = a.waiting /\ b.closed = a.closed
       /\ SameChildren(a, b) /\ b.busy = a.busy
  <2>1. "crashed" \in CallStates /\ a \in PoolState
    BY <1>10 DEF CallStates
  <2> QED
    BY <1>12, <2>1, SettleMakes
<1>14. SameCalls(s, b)
  BY <1>6, <1>10, <1>13 DEF SameCalls
<1>15. PICK r : r = [b EXCEPT !.slots = Without(@, c), !.busy = @ \ {c}]
  OBVIOUS
<1>16. Without(b.slots, c) \in Seq(Children)
  <2>1. q.slots \in Seq(Children) /\ \A i, k \in DOMAIN q.slots : q.slots[i] = q.slots[k] => i = k
    BY <1>2 DEF PoolState, Sound, SlotInd
  <2>2. b.slots = q.slots
    BY <1>10, <1>13 DEF SameChildren
  <2> QED
    BY <2>1, <2>2, WithoutTakesOut
<1>17. /\ r \in PoolState /\ SameCalls(b, r)
       /\ r.slots = Without(b.slots, c) /\ r.busy = b.busy \ {c} /\ r.spawning = b.spawning
       /\ r.said = b.said /\ r.killed = b.killed /\ r.proc = b.proc /\ r.jobsRun = b.jobsRun
  BY <1>13, <1>15, <1>16 DEF PoolState, SameCalls
<1>18. /\ r.proc = [q.proc EXCEPT ![c] = "none"] /\ r.jobsRun = [q.jobsRun EXCEPT ![c] = 0]
       /\ r.said = q.said \ {c} /\ r.killed = q.killed \ {c}
       /\ r.slots = Without(s.slots, c) /\ r.busy = s.busy \ {c} /\ r.spawning = s.spawning
       /\ s.proc = q.proc /\ s.jobsRun = q.jobsRun /\ s.said = q.said /\ s.killed = q.killed
  BY <1>6, <1>10, <1>13, <1>17 DEF SameChildren
<1>19. /\ r.proc[c] = "none" /\ r.jobsRun[c] = 0
       /\ \A d \in Children \ {c} :
            /\ r.proc[d] = s.proc[d] /\ r.jobsRun[d] = s.jobsRun[d]
            /\ d \in r.killed <=> d \in s.killed
            /\ d \in r.said <=> d \in s.said
  BY <1>2, <1>18 DEF PoolState
<1>20. Sound(r) /\ Owing(r)
  <2>1. SameCalls(s, r)
    BY <1>14, <1>17 DEF SameCalls
  <2>2. c \notin r.killed /\ c \notin r.said
    BY <1>18
  <2> QED
    BY <1>6, <1>7, <1>8, <1>17, <1>18, <1>19, <2>1, <2>2, LeavingIsSound
<1>21. Retire(b, c) = Pump(r)
  <2>1. Kill(r, c) = r
    BY <1>19 DEF Kill
  <2> QED
    BY <1>15, <2>1 DEF Retire
<1>22. p' = Pump(r) \/ p' = Pump(Pump(r))
  BY <1>1, <1>9, <1>11, <1>12, <1>21 DEF Exit
<1>23. Kept(Pump(r))
  BY <1>20, PumpPays DEF Kept
<1>24. Kept(Pump(Pump(r)))
  BY <1>23, PumpPays, BalancedOwes DEF Kept, Sound
<1> QED
  BY <1>22, <1>23, <1>24

\* The three ways a job ends while its child's 'exit' is not read.
LEMMA JobEndsKeep ==
  ASSUME Kept(p), NEW c \in Children, Answer(c) \/ SendFails(c) \/ TimesOut(c)
  PROVE  Kept(p')
<1>1. PICK q : q = p
  OBVIOUS
<1>2. Sound(q) /\ Balanced(q) /\ JobsOn(q, c) # {}
  BY <1>1 DEF Kept, Answer, SendFails, TimesOut
<1>3. CASE Answer(c)
  <2>1. p' = Finish(q, c, "answered")
    BY <1>1, <1>3 DEF Answer
  <2> QED
    BY <1>2, <2>1, FinishIsSound DEF Kept, CallStates
<1>4. CASE SendFails(c)
  <2>1. p' = Finish(q, c, "crashed")
    BY <1>1, <1>4 DEF SendFails
  <2> QED
    BY <1>2, <2>1, FinishIsSound DEF Kept, CallStates
<1>5. CASE TimesOut(c)
  <2>1. PICK r : r = Kill(q, c)
    OBVIOUS
  <2>2. Sound(r) /\ Balanced(r)
    BY <1>2, <2>1, KillIsSound
  <2>3. JobsOn(r, c) = JobsOn(q, c)
    BY <1>2, <2>1, KillMakes DEF JobsOn, SameCalls, Sound
  <2>4. p' = Finish(r, c, "timedOut")
    BY <1>1, <1>5, <2>1 DEF TimesOut
  <2> QED
    BY <1>2, <2>2, <2>3, <2>4, FinishIsSound DEF Kept, CallStates
<1> QED
  BY <1>3, <1>4, <1>5

\* Close settles every call that has a child or waits for one, and leaves the
\* slots empty.
LEMMA CloseKeeps ==
  ASSUME Kept(p), Close
  PROVE  Kept(p')
<1>1. PICK q : q = p
  OBVIOUS
<1>2. q \in PoolState /\ SlotInd(q) /\ ChildInd(q) /\ CallInd(q) /\ LineInd(q) /\ SizeInd(q)
  BY <1>1 DEF Kept, Sound
<1>3. PICK js : js = {j \in Calls : q.call[j] = "running" /\ q.on[j] \in Slots(q)}
  OBVIOUS
<1>4. PICK a : a = [q EXCEPT !.closed = TRUE]
  OBVIOUS
<1>5. /\ a \in PoolState /\ a.call = q.call /\ a.on = q.on /\ a.waiting = q.waiting
      /\ a.closed = TRUE /\ SameChildren(q, a) /\ a.busy = q.busy
  BY <1>2, <1>4 DEF PoolState, SameChildren
<1>6. PICK b : b = Settle(a, js, "closed")
  OBVIOUS
<1>6a. PICK how \in CallStates : how = "closed"
  BY DEF CallStates
<1>7. /\ b \in PoolState
      /\ b.call = [j \in Calls |-> IF j \in js THEN how ELSE q.call[j]]
      /\ b.closed = TRUE
      /\ SameChildren(q, b) /\ b.busy = q.busy
  <2>1. a \in PoolState /\ how \in CallStates /\ b = Settle(a, js, how)
    BY <1>5, <1>6, <1>6a
  <2>2. /\ b \in PoolState
        /\ b.call = [j \in Calls |-> IF j \in js THEN how ELSE a.call[j]]
        /\ b.closed = a.closed
        /\ SameChildren(a, b) /\ b.busy = a.busy
    BY <2>1 DEF Settle, PoolState, SameChildren
  <2> QED
    BY <1>5, <2>2 DEF SameChildren
<1>8. PICK f : f = [c \in Children |-> IF c \in Slots(q) THEN "gone" ELSE b.proc[c]]
  OBVIOUS
<1>9. PICK g : g = [j \in Calls |-> IF b.call[j] = "waiting" THEN "crashed" ELSE b.call[j]]
  OBVIOUS
<1>10. PICK r : r = [b EXCEPT !.slots = <<>>, !.proc = f, !.killed = @ \union Slots(q),
                             !.call = g, !.waiting = <<>>]
  OBVIOUS
<1>11. p' = r
  BY <1>1, <1>3, <1>4, <1>6, <1>8, <1>9, <1>10 DEF Close
<1>12. Slots(q) \subseteq Children
  BY <1>2, SlotsAreCounted
<1>13. /\ f \in [Children -> {"none", "starting", "up", "gone"}]
       /\ g \in [Calls -> CallStates]
  <2>1. /\ b.proc \in [Children -> {"none", "starting", "up", "gone"}]
        /\ b.call \in [Calls -> CallStates]
    BY <1>7 DEF PoolState
  <2>2. \A c \in Children :
          (IF c \in Slots(q) THEN "gone" ELSE b.proc[c]) \in {"none", "starting", "up", "gone"}
    BY <2>1
  <2>3. \A j \in Calls : (IF b.call[j] = "waiting" THEN "crashed" ELSE b.call[j]) \in CallStates
    BY <2>1 DEF CallStates
  <2> QED
    BY <1>8, <1>9, <2>2, <2>3
<1>14. /\ r \in PoolState
       /\ r.call = g /\ r.waiting = <<>> /\ r.closed = TRUE
       /\ r.slots = <<>> /\ r.busy = q.busy /\ r.spawning = q.spawning /\ r.proc = f
       /\ r.killed = q.killed \union Slots(q) /\ r.said = q.said /\ r.jobsRun = q.jobsRun
  <2>1. PICK k : k = b.killed \union Slots(q)
    OBVIOUS
  <2>2. k \subseteq Children /\ <<>> \in Seq(Children) /\ <<>> \in Seq(Calls)
    BY <1>7, <1>12, <2>1 DEF PoolState
  <2>3. r = [b EXCEPT !.slots = <<>>, !.proc = f, !.killed = k, !.call = g, !.waiting = <<>>]
    BY <1>10, <2>1
  <2>4. /\ r.call = g /\ r.waiting = <<>> /\ r.closed = b.closed
        /\ r.slots = <<>> /\ r.busy = b.busy /\ r.spawning = b.spawning /\ r.proc = f
        /\ r.killed = k /\ r.said = b.said /\ r.jobsRun = b.jobsRun
    BY <1>7, <2>3 DEF PoolState
  <2>5. r \in PoolState
    BY <1>7, <1>13, <2>2, <2>3 DEF PoolState
  <2> QED
    BY <1>7, <2>1, <2>4, <2>5 DEF SameChildren
<1>15. \A c \in Children : f[c] = IF c \in Slots(q) THEN "gone" ELSE q.proc[c]
  BY <1>7, <1>8 DEF SameChildren
<1>16. \A j \in Calls : g[j] # "waiting" /\ g[j] # "running"
  BY <1>2, <1>3, <1>7, <1>9, <1>6a DEF CallInd
<1>17. Slots(r) = {}
  BY <1>14 DEF Slots
<1>18. SlotInd(r)
  <2>1. q.said \subseteq Children
    BY <1>2 DEF PoolState
  <2> QED
    BY <1>2, <1>14, <1>15, <1>17, <2>1 DEF SlotInd
<1>19. ChildInd(r)
  BY <1>2, <1>14, <1>15, <1>17 DEF ChildInd
<1>20. CallInd(r) /\ LineInd(r)
  BY <1>14, <1>16 DEF CallInd, LineInd
<1>21. SizeInd(r)
  <2>1. Living(r) \subseteq Living(q)
    BY <1>14, <1>15 DEF Living
  <2>2. IsFiniteSet(Living(q))
    BY <1>2, LivingAreCounted
  <2>3. Cardinality(Living(r)) <= Cardinality(Living(q)) /\ IsFiniteSet(Living(r))
    BY <2>1, <2>2, FewerCountLess
  <2>4. Cardinality(Living(r)) \in Nat /\ Cardinality(Living(q)) \in Nat /\ Size \in Nat
    BY <2>2, <2>3, FS_CardinalityType, PoolAssumption
  <2> QED
    BY <1>2, <2>3, <2>4 DEF SizeInd
<1>22. Balanced(r)
  BY <1>14 DEF Balanced
<1> QED
  BY <1>11, <1>14, <1>18, <1>19, <1>20, <1>21, <1>22 DEF Kept, Sound

------------------------------------------------------------------------------
(* The theorem. *)

PoolInd == Kept(p)

\* The reasons hold in every state of the pool.
LEMMA PoolIsKept == Spec => []PoolInd
<1>1. Init => Kept(p)
  <2> SUFFICES ASSUME Init PROVE Kept(p)
    OBVIOUS
  <2>1. PICK q : q = p
    OBVIOUS
  <2>2. /\ q.call = [j \in Calls |-> "uncalled"] /\ q.waiting = <<>> /\ q.slots = <<>>
        /\ q.busy = {} /\ q.spawning = {} /\ q.proc = [c \in Children |-> "none"]
        /\ q.killed = {} /\ q.said = {} /\ q.jobsRun = [c \in Children |-> 0]
        /\ q.closed = FALSE
    BY <2>1 DEF Init
  <2>3. q \in PoolState
    BY <2>1, PoolAssumption DEF Init, PoolState, CallStates
  <2>4. Slots(q) = {} /\ Living(q) = {}
    BY <2>2 DEF Slots, Living
  <2>5. SlotInd(q)
    BY <2>2, <2>4 DEF SlotInd
  <2>6. ChildInd(q)
    BY <2>2, <2>4, FS_EmptySet, PoolAssumption DEF ChildInd
  <2>7. CallInd(q) /\ LineInd(q)
    BY <2>2 DEF CallInd, LineInd
  <2>8. SizeInd(q)
    BY <2>4, FS_EmptySet, PoolAssumption DEF SizeInd
  <2>9. Balanced(q)
    BY <2>2 DEF Balanced
  <2> QED
    BY <2>1, <2>3, <2>5, <2>6, <2>7, <2>8, <2>9 DEF Kept, Sound
<1>2. Kept(p) /\ [Next]_p => Kept(p')
  <2> SUFFICES ASSUME Kept(p), [Next]_p PROVE Kept(p')
    OBVIOUS
  <2>1. CASE UNCHANGED p
    BY <2>1
  <2>2. ASSUME NEW j \in Calls, Run(j) PROVE Kept(p')
    BY <2>2, RunKeeps
  <2>3. ASSUME NEW c \in Children, ChildEvent(c) PROVE Kept(p')
    BY <2>3, ReadyKeeps, LateReadyKeeps, StartupTimeoutKeeps, ForkFailsKeeps, DiesKeeps,
       ExitKeeps, JobEndsKeep DEF ChildEvent
  <2>4. CASE Close
    BY <2>4, CloseKeeps
  <2> QED
    BY <2>1, <2>2, <2>3, <2>4 DEF Next
<1>3. Init => PoolInd
  BY <1>1 DEF PoolInd
<1>4. PoolInd /\ [Next]_p => PoolInd'
  BY <1>2 DEF PoolInd
<1> QED
  BY <1>3, <1>4, PTL DEF Spec

\* However calls, answers, deaths, timeouts, failed forks and a close interleave:
\* no more than Size children are alive, none has two jobs, no call is forgotten,
\* and a call waits beside a free child only where a dead one was handed another.
THEOREM PoolIsInvariant == Spec => []PoolInvariant
<1>1. Kept(p) => PoolInvariant
  <2> SUFFICES ASSUME Kept(p) PROVE PoolInvariant
    OBVIOUS
  <2>1. p \in PoolState /\ SlotInd(p) /\ ChildInd(p) /\ CallInd(p) /\ LineInd(p) /\ SizeInd(p)
    BY DEF Kept, Sound
  <2>2. AliveWithinSize
    BY <2>1 DEF SizeInd, Living, AliveWithinSize, Alive
  <2>3. OneJobPerChild
    <3> SUFFICES ASSUME NEW c \in Children
                 PROVE  /\ Cardinality(JobsOn(p, c)) <= 1
                        /\ JobsOn(p, c) # {} => c \in p.busy
      BY DEF OneJobPerChild
    <3>1. JobsOn(p, c) # {} => c \in p.busy
      BY <2>1 DEF CallInd, JobsOn
    <3>2. CASE JobsOn(p, c) = {}
      BY <3>1, <3>2, FS_EmptySet
    <3>3. CASE JobsOn(p, c) # {}
      <4>1. PICK j : j \in JobsOn(p, c)
        BY <3>3
      <4>2. JobsOn(p, c) = {j}
        BY <2>1, <4>1 DEF CallInd, JobsOn
      <4> QED
        BY <3>1, <4>2, FS_Singleton
    <3> QED
      BY <3>2, <3>3
  <2>4. NoIdleChildWhileWaiting
    BY DEF Kept, Balanced, NoIdleChildWhileWaiting
  <2>5. NobodyIsForgotten
    BY <2>1 DEF LineInd, CallInd, NobodyIsForgotten
  <2> QED
    BY <2>1, <2>2, <2>3, <2>4, <2>5 DEF PoolInvariant, TypeOK
<1>2. PoolInd => PoolInvariant
  BY <1>1 DEF PoolInd
<1> QED
  BY <1>2, PoolIsKept, PTL

==============================================================================
