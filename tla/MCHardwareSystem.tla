-------------------------- MODULE MCHardwareSystem ---------------------------
(***************************************************************************)
(* Small instances of the hardware job: the failures and the timing        *)
(* assumptions of a run, and the symmetry of the executions.               *)
(***************************************************************************)
EXTENDS HardwareSystem, TLC

\* One failure of any kind, and the reaper after two days.
Reaped == [kinds |-> FaultKinds, max |-> 1, timely |-> {"calls", "queue"}]

\* Two failures outside the worker, and everything in time.
Unaided ==
  [kinds |-> {"network", "refusal", "api", "owner"}, max |-> 2, timely |-> Timings]

OneFault == {Reaped}
BothEnds == {Reaped, Unaided}

Symmetry == Permutations(Executors)
==============================================================================
