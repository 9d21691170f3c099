------------------------------- MODULE SimPool -------------------------------
(***************************************************************************)
(* The pool of killable children of apps/worker/src/pool.ts. Everything in *)
(* the parent runs on one event loop, so a step is one event with all that *)
(* follows from it before the next one: a call of run, a message, an       *)
(* 'exit' or 'error' event, a timer. The pool is one record, and its       *)
(* functions map a record to a record.                                     *)
(*                                                                         *)
(* A child that died, or was killed, stays "gone" until its 'exit' event,  *)
(* and a "ready" it sent before may still be delivered until then.         *)
(***************************************************************************)
EXTENDS Naturals, FiniteSets, Sequences

CONSTANTS
  Calls,          \* calls of run
  Children,       \* child process ids, a set of numbers; one is reused once it is free
  Size,           \* options.size
  MaxJobs,        \* maxJobsPerChild
  Concurrency     \* how many calls the queue consumer keeps in flight

VARIABLE p    \* the pool

ASSUME PoolAssumption ==
  /\ Children \subseteq Nat \ {0}
  /\ Size \in Nat \ {0} /\ MaxJobs \in Nat \ {0} /\ Concurrency \in Nat

NoChild == 0

CallStates == {"uncalled", "waiting", "running",
               "answered", "timedOut", "crashed", "closed"}
InFlight == {"waiting", "running"}

PoolState ==
  [call     : [Calls -> CallStates],
   on       : [Calls -> Children \union {NoChild}],    \* the child of a call
   waiting  : Seq(Calls),
   slots    : Seq(Children),      \* in the order they joined
   busy     : SUBSET Children,
   spawning : SUBSET Children,    \* forks a pump awaits, `pending` of them
   proc     : [Children -> {"none", "starting", "up", "gone"}],
   killed   : SUBSET Children,    \* child.killed
   said     : SUBSET Children,    \* those whose "ready" was delivered
   jobsRun  : [Children -> 0 .. MaxJobs],
   closed   : BOOLEAN]

Init ==
  p = [call |-> [j \in Calls |-> "uncalled"], on |-> [j \in Calls |-> NoChild],
       waiting |-> <<>>, slots |-> <<>>, busy |-> {}, spawning |-> {},
       proc |-> [c \in Children |-> "none"], killed |-> {}, said |-> {},
       jobsRun |-> [c \in Children |-> 0], closed |-> FALSE]

JobsOn(q, c) == {j \in Calls : q.call[j] = "running" /\ q.on[j] = c}

Settle(q, js, how) ==
  [q EXCEPT !.call = [j \in Calls |-> IF j \in js THEN how ELSE q.call[j]],
            !.on   = [j \in Calls |-> IF j \in js THEN NoChild ELSE q.on[j]]]

\* SIGKILL. Past its 'exit' event a child is not marked child.killed.
Kill(q, c) ==
  IF q.proc[c] # "none"
  THEN [q EXCEPT !.proc[c] = "gone", !.killed = @ \union {c}]
  ELSE q

\* The head of the line gets child c, or the news that there is none.
Give(q, c) ==
  IF q.waiting = <<>> THEN q
  ELSE [q EXCEPT !.waiting = Tail(@), !.busy = @ \union {c},
                 !.call[Head(q.waiting)] = "running", !.on[Head(q.waiting)] = c]

GiveNothing(q) ==
  IF q.waiting = <<>> THEN q
  ELSE [q EXCEPT !.waiting = Tail(@), !.call[Head(q.waiting)] = "crashed"]

Slots(q)  == {q.slots[i] : i \in DOMAIN q.slots}
Free(q)   == {i \in DOMAIN q.slots : q.slots[i] \notin q.busy}
Unused(q) == {c \in Children : q.proc[c] = "none"} \ (Slots(q) \union q.spawning)

First(is) == CHOOSE i \in is : \A k \in is : i <= k

\* slots.indexOf and slots.splice.
Without(s, c) ==
  LET at == {i \in DOMAIN s : s[i] = c} IN
  IF at = {} THEN s
  ELSE [k \in 1 .. Len(s) - 1 |-> s[IF k < First(at) THEN k ELSE k + 1]]

\* Children is a bound: with no id left there is no fork.
Fork(q) ==
  IF Unused(q) = {} THEN q
  ELSE LET c == CHOOSE c \in Unused(q) : TRUE IN
       [q EXCEPT !.spawning = @ \union {c}, !.proc[c] = "starting"]

\* Mutant: a fork that has not answered yet does not count.
PumpUncounted(q) ==
  IF q.closed \/ q.waiting = <<>> THEN q
  ELSE IF Free(q) # {} THEN Give(q, q.slots[First(Free(q))])
  ELSE IF Len(q.slots) >= Size THEN q
  ELSE Fork(q)

Pump(q) ==
  IF q.closed \/ q.waiting = <<>> THEN q
  ELSE IF Free(q) # {} THEN Give(q, q.slots[First(Free(q))])
  ELSE IF Len(q.slots) + Cardinality(q.spawning) >= Size THEN q
  ELSE Fork(q)

\* Mutant: nobody asks for a replacement.
RetireOnly(q, c) ==
  Kill([q EXCEPT !.slots = Without(@, c), !.busy = @ \ {c}], c)

Retire(q, c) ==
  Pump(Kill([q EXCEPT !.slots = Without(@, c), !.busy = @ \ {c}], c))

\* Mutant: a child that goes back is not offered to the line.
ReleaseQuietly(q, c) ==
  LET r == [q EXCEPT !.busy = @ \ {c}, !.jobsRun[c] = @ + 1]
  IN IF r.jobsRun[c] >= MaxJobs THEN Retire(r, c) ELSE r

Release(q, c) ==
  LET r == [q EXCEPT !.busy = @ \ {c}, !.jobsRun[c] = @ + 1]
  IN IF r.jobsRun[c] >= MaxJobs THEN Retire(r, c) ELSE Pump(r)

\* The job on c settles and run's finally follows.
Finish(q, c, how) ==
  LET r == Settle(q, JobsOn(q, c), how)
  IN IF c \in q.killed THEN r ELSE Release(r, c)

------------------------------------------------------------------------------

Run(j) ==
  /\ p.call[j] = "uncalled"
  /\ Cardinality({k \in Calls : p.call[k] \in InFlight}) < Concurrency
  /\ p' = IF p.closed
          THEN [p EXCEPT !.call[j] = "crashed"]
          ELSE Pump([p EXCEPT !.call[j] = "waiting",
                              !.waiting = Append(@, j)])

\* Mutant: a child that starts after close is kept.
ReadyRegardless(c) ==
  /\ c \in p.spawning \ p.said
  /\ p.proc[c] \in {"starting", "gone"}
  /\ LET q == [p EXCEPT !.said = @ \union {c}, !.slots = Append(@, c),
                        !.spawning = @ \ {c},
                        !.proc[c] = IF @ = "starting" THEN "up" ELSE @]
     IN p' = Give(q, c)

\* "ready" of a child some pump awaits: it joins the slots and takes the head.
Ready(c) ==
  /\ c \in p.spawning \ p.said
  /\ p.proc[c] \in {"starting", "gone"}
  /\ LET q == [p EXCEPT !.said = @ \union {c}, !.slots = Append(@, c),
                        !.spawning = @ \ {c},
                        !.proc[c] = IF @ = "starting" THEN "up" ELSE @]
     IN p' = IF q.closed THEN Kill(q, c) ELSE Give(q, c)

\* "ready" of a child that was written off at its startup timeout.
LateReady(c) ==
  /\ p.proc[c] = "gone"
  /\ c \notin p.said \union p.spawning
  /\ p' = [p EXCEPT !.said = @ \union {c}, !.slots = Append(@, c)]

\* The startup timer, with or without an 'exit' before it.
StartupTimeout(c) ==
  /\ c \in p.spawning
  /\ p' = GiveNothing(Kill([p EXCEPT !.spawning = @ \ {c}], c))

\* 'error': the child could not be started.
ForkFails(c) ==
  /\ c \in p.spawning
  /\ p.proc[c] = "starting"
  /\ p' = GiveNothing([p EXCEPT !.spawning = @ \ {c}, !.proc[c] = "none"])

\* A child dies of its own: out of memory, a segmentation fault.
Dies(c) ==
  /\ p.proc[c] \in {"starting", "up"}
  /\ p' = [p EXCEPT !.proc[c] = "gone"]

\* The 'exit' event: the job on it crashes and the slot is retired. Then
\* run's finally releases a slot that is in no list any more, which pumps.
Exit(c) ==
  /\ p.proc[c] = "gone"
  /\ LET q == [p EXCEPT !.proc[c] = "none", !.killed = @ \ {c},
                        !.said = @ \ {c}, !.jobsRun[c] = 0]
         r == Retire(Settle(q, JobsOn(q, c), "crashed"), c)
     IN p' = IF JobsOn(p, c) = {} \/ c \in p.killed THEN r ELSE Pump(r)

Answer(c) ==
  /\ p.proc[c] = "up"
  /\ JobsOn(p, c) # {}
  /\ p' = Finish(p, c, "answered")

\* The command could not be delivered: the child is gone, its exit unread.
SendFails(c) ==
  /\ p.proc[c] = "gone"
  /\ JobsOn(p, c) # {}
  /\ p' = Finish(p, c, "crashed")

\* The wall-clock bound: the child is killed and its slot left to 'exit'.
TimesOut(c) ==
  /\ JobsOn(p, c) # {}
  /\ LET q == Kill(p, c) IN p' = Finish(q, c, "timedOut")

Close ==
  /\ ~p.closed
  /\ LET js == {j \in Calls : p.call[j] = "running" /\ p.on[j] \in Slots(p)}
         q  == Settle([p EXCEPT !.closed = TRUE], js, "closed")
     IN p' = [q EXCEPT !.slots = <<>>,
                       !.proc = [c \in Children |-> IF c \in Slots(p) THEN "gone"
                                                    ELSE q.proc[c]],
                       !.killed = @ \union Slots(p),
                       !.call = [j \in Calls |-> IF q.call[j] = "waiting"
                                                 THEN "crashed" ELSE q.call[j]],
                       !.waiting = <<>>]

ChildEvent(c) ==
  \/ Ready(c) \/ LateReady(c) \/ StartupTimeout(c) \/ ForkFails(c) \/ Dies(c)
  \/ Exit(c) \/ Answer(c) \/ SendFails(c) \/ TimesOut(c)

\* A worker with nothing left to do rests.
Rest == \A j \in Calls : p.call[j] \notin InFlight \union {"uncalled"}

Next ==
  \/ \E j \in Calls : Run(j)
  \/ \E c \in Children : ChildEvent(c)
  \/ Close
  \/ Rest /\ UNCHANGED p

Spec == Init /\ [][Next]_p

\* The kernel reports exits and the timers fire; no child owes an answer. The
\* calls are finitely many, so no child can hold the events of another off for
\* ever, and one condition over all of them is enough.
Owed(c) == Exit(c) \/ StartupTimeout(c) \/ TimesOut(c)

FairSpec == Spec /\ WF_p(\E c \in Children : Owed(c))

------------------------------------------------------------------------------
(* Properties. *)

\* The pool is a pool.
TypeOK == p \in PoolState

Alive(c) == p.proc[c] \in {"starting", "up"}

\* The size limit "is a memory limit": however calls, forks, recycled and
\* killed children interleave, no more than Size children are alive.
AliveWithinSize ==
  Cardinality({c \in Children : Alive(c)}) <= Size

\* A child runs one job at a time, and the slot of a running job is marked.
OneJobPerChild ==
  \A c \in Children :
    /\ Cardinality(JobsOn(p, c)) <= 1
    /\ JobsOn(p, c) # {} => c \in p.busy

\* The line moves. A child that answers "ready" after its startup timeout joins
\* the slots dead, and may be handed a call instead of a live child beside it: so
\* while somebody waits, each live child that is free is matched by a dead one
\* that holds a call, whose 'exit' is still to come and pumps.
Idle(q) == {c \in Slots(q) \ q.busy : q.proc[c] = "up"}
Dead(q) == {c \in Slots(q) \intersect q.busy : q.proc[c] = "gone"}
NoIdleChildWhileWaiting ==
  p.waiting # <<>> => Cardinality(Idle(p)) <= Cardinality(Dead(p))

\* Nobody is forgotten: a call that waits stands in the line, once, and one that
\* runs has a child in the slots, whose answer, exit or timer settles it.
NobodyIsForgotten ==
  /\ \A j \in Calls : p.call[j] = "waiting" <=> \E i \in DOMAIN p.waiting : p.waiting[i] = j
  /\ \A i, k \in DOMAIN p.waiting : p.waiting[i] = p.waiting[k] => i = k
  /\ \A j \in Calls : p.call[j] = "running" => p.on[j] \in Slots(p)

\* Together: the state of the pool as its callbacks may find it.
PoolInvariant ==
  /\ TypeOK /\ AliveWithinSize /\ OneJobPerChild
  /\ NoIdleChildWhileWaiting /\ NobodyIsForgotten

\* No call of run stays pending: a child that could not start, died, or was
\* killed settles the call that was given to it, and nobody is forgotten in
\* the line.
EveryCallSettles ==
  \A j \in Calls : p.call[j] \in InFlight ~> p.call[j] \notin InFlight

\* After close no child is left alive: a fork that was under way is killed as
\* soon as it answers or times out.
CloseLeavesNoChild == p.closed ~> \A c \in Children : ~Alive(c)

==============================================================================
