----------------------------- MODULE RunContract -----------------------------
(***************************************************************************)
(* What the run life cycle promises to whoever holds a run id, with no     *)
(* queue, no lock and no retry in it: the transition table of              *)
(* packages/jobs/src/run.ts, a final status that is announced at most once *)
(* and truthfully, and a row that is never deleted once its work has been  *)
(* handed to the queue.                                                    *)
(***************************************************************************)
EXTENDS Sequences

CONSTANTS Runs

VARIABLES
  status,       \* [Runs -> the status of the row]
  handedOver,   \* the runs whose work the queue has accepted
  announced     \* [Runs -> Seq of final statuses published]

vars == <<status, handedOver, announced>>

Final == {"DONE", "FAILED"}
Open  == {"QUEUED", "RUNNING"}

Init ==
  /\ status = [r \in Runs |-> "ABSENT"]
  /\ handedOver = {}
  /\ announced = [r \in Runs |-> <<>>]

Queue(r) ==
  /\ status[r] = "ABSENT"
  /\ status' = [status EXCEPT ![r] = "QUEUED"]
  /\ UNCHANGED <<handedOver, announced>>

HandOver(r) ==
  /\ status[r] \in Open \union Final
  /\ handedOver' = handedOver \union {r}
  /\ UNCHANGED <<status, announced>>

Start(r) ==
  /\ status[r] = "QUEUED"
  /\ r \in handedOver
  /\ status' = [status EXCEPT ![r] = "RUNNING"]
  /\ UNCHANGED <<handedOver, announced>>

\* Several at once: the reaper ends a batch in one statement.
End(rs, final) ==
  /\ \A r \in rs : status[r] \in Open
  /\ status' = [r \in Runs |-> IF r \in rs THEN final ELSE status[r]]
  /\ UNCHANGED <<handedOver, announced>>

Discard(r) ==
  /\ status[r] = "QUEUED"
  /\ r \notin handedOver
  /\ status' = [status EXCEPT ![r] = "DISCARDED"]
  /\ UNCHANGED <<handedOver, announced>>

Announce(r) ==
  /\ status[r] \in Final
  /\ announced[r] = <<>>
  /\ announced' = [announced EXCEPT ![r] = <<status[r]>>]
  /\ UNCHANGED <<status, handedOver>>

Next ==
  \/ \E r \in Runs : Queue(r) \/ HandOver(r) \/ Start(r) \/ Discard(r) \/ Announce(r)
  \/ \E rs \in SUBSET Runs, final \in Final : End(rs, final)

Spec == Init /\ [][Next]_vars

==============================================================================
