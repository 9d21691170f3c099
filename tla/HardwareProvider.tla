-------------------------- MODULE HardwareProvider ---------------------------
(***************************************************************************)
(* The provider's job service, external, as packages/ibm/src/client.ts     *)
(* uses it: POST /jobs has no idempotency key, so every accepted one is a  *)
(* job of its own and an allowance spent; a job that is done may have its  *)
(* results readable only later; a cancel stops a job that has not ended.   *)
(***************************************************************************)
EXTENDS Sequences, Naturals

VARIABLE device    \* Seq(DeviceState): the jobs it was sent, by id

DeviceState == {"queued", "running", "done", "readable", "failed", "cancelled"}

Live(id) == id \in DOMAIN device /\ device[id] \in {"queued", "running"}

Sent == Len(device)

DeviceTypeOK == device \in Seq(DeviceState)

DeviceInit == device = <<>>

PostJob == device' = Append(device, "queued")

CancelAtProvider(id) ==
  device' = IF Live(id) THEN [device EXCEPT ![id] = "cancelled"] ELSE device

\* The job moves on, or somebody cancels it in the provider's own console.
DeviceMoves(id) ==
  /\ Live(id)
  /\ \E next \in IF device[id] = "queued" THEN {"running", "cancelled"}
                  ELSE {"done", "failed", "cancelled"} :
       device' = [device EXCEPT ![id] = next]

\* The samples of a finished job reach the store they are read from.
ResultsArrive(id) ==
  /\ id \in DOMAIN device
  /\ device[id] = "done"
  /\ device' = [device EXCEPT ![id] = "readable"]

\* What readJob may answer: the state in this system's words, or, while the
\* job is under way, a word this build does not know.
Answers(id) ==
  CASE device[id] = "queued"    -> {"QUEUED", "UNKNOWN"}
    [] device[id] = "running"   -> {"RUNNING", "UNKNOWN"}
    [] device[id] = "failed"    -> {"FAILED"}
    [] device[id] = "cancelled" -> {"CANCELLED"}
    [] OTHER                    -> {"DONE"}

==============================================================================
