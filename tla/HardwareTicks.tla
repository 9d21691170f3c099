---------------------------- MODULE HardwareTicks ----------------------------
(***************************************************************************)
(* The BullMQ queue "hardware": the poll ticks of one job, by their number *)
(* (hardwareTickId makes the number the queue's id). One attempt, a tick   *)
(* that completes is forgotten, one that failed is kept and its id stays   *)
(* taken until removeOnFail drops it. The delay of a tick is part of its   *)
(* waiting: what the code relies on in it is in HardwareSystem's clock.    *)
(***************************************************************************)
EXTENDS HardwareRow

CONSTANTS
  Executors,          \* concurrent ticks, over all worker processes
  NoLock,             \* the holder of a lock nobody renews
  MaxPollAttempts,    \* MAX_POLL_ATTEMPTS
  TickBound           \* bound: the highest tick number the model can book

VARIABLES
  list,       \* [Ticks -> where the tick is]
  lock,       \* [Ticks -> Executors \union {NoLock}]
  stalled     \* the ticks that were recovered once

tickVars == <<list, lock, stalled>>

Ticks == 0 .. TickBound

ASSUME TicksAssumption ==
  /\ NoLock \notin Executors
  /\ MaxPollAttempts \in Nat \ {0}
  /\ TickBound \in Nat /\ TickBound > MaxPollAttempts

TicksTypeOK ==
  /\ list \in [Ticks -> {"absent", "waiting", "active", "failed"}]
  /\ lock \in [Ticks -> Executors \union {NoLock}]
  /\ stalled \in SUBSET Ticks

TicksInit ==
  /\ list = [t \in Ticks |-> "absent"]
  /\ lock = [t \in Ticks |-> NoLock]
  /\ stalled = {}

Booked == {t \in Ticks : list[t] \in {"waiting", "active"}}

\* queue.add under the tick's id: a no-op on an id the queue knows.
AddTick(t) ==
  /\ list' = IF list[t] = "absent" THEN [list EXCEPT ![t] = "waiting"] ELSE list
  /\ UNCHANGED <<lock, stalled>>

MoveToActive(t, e) ==
  /\ list[t] = "waiting"
  /\ list' = [list EXCEPT ![t] = "active"]
  /\ lock' = [lock EXCEPT ![t] = e]
  /\ UNCHANGED stalled

\* The processor of e returned (gone is "absent") or threw ("failed").
Release(t, e, gone) ==
  IF lock[t] = e
  THEN /\ list' = [list EXCEPT ![t] = gone]
       /\ lock' = [lock EXCEPT ![t] = NoLock]
       /\ stalled' = stalled \ {t}
  ELSE UNCHANGED tickVars

\* The lock of an execution that died, or that lockDuration outlived.
LockExpires(t) ==
  /\ list[t] = "active"
  /\ lock[t] # NoLock
  /\ lock' = [lock EXCEPT ![t] = NoLock]
  /\ UNCHANGED <<list, stalled>>

\* The stalled check, with the library's default of one recovery.
RecoverStalled(t) ==
  /\ list[t] = "active"
  /\ lock[t] = NoLock
  /\ list' = [list EXCEPT ![t] = IF t \in stalled THEN "failed" ELSE "waiting"]
  /\ stalled' = IF t \in stalled THEN stalled \ {t} ELSE stalled \union {t}
  /\ UNCHANGED lock

\* removeOnFail: by age or by count, when some other tick of any job fails.
ForgetFailed(t) ==
  /\ list[t] = "failed"
  /\ list' = [list EXCEPT ![t] = "absent"]
  /\ UNCHANGED <<lock, stalled>>

==============================================================================
