------------------------------- MODULE Reaper --------------------------------
(***************************************************************************)
(* The sweep of apps/worker/src/reaper.ts over failStaleRuns of the run    *)
(* repository: a read of the stale rows and a conditional write, two       *)
(* statements with anything in between. A sweep that fails is swallowed.   *)
(***************************************************************************)
EXTENDS RunRows, FiniteSets

CONSTANT ReaperBatch    \* REAPER_BATCH

VARIABLES
  aged,      \* the runs created more than STALE_RUN_AGE_MS ago
  picked     \* the rows the sweep in progress has read, {} between sweeps

reaperVars == <<aged, picked>>

ASSUME ReaperAssumption == ReaperBatch \in Nat \ {0}

ReaperTypeOK ==
  /\ aged \in SUBSET Runs
  /\ picked \in SUBSET Runs

ReaperInit ==
  /\ aged = {}
  /\ picked = {}

\* Mutant: only a run some worker started can be stale.
StaleRunning == {r \in aged : status[r] = "RUNNING"}

Stale == {r \in aged : status[r] \in NonTerminal}

\* The clock passes createdAt + STALE_RUN_AGE_MS. Nobody asks the age of a
\* row that has ended.
Ages(r) ==
  /\ status[r] \in NonTerminal
  /\ r \notin aged
  /\ aged' = aged \union {r}
  /\ UNCHANGED <<picked, rowVars>>
  /\ NoFault

\* findMany with take: every stale row, or a batch of them.
SweepRead ==
  /\ picked = {}
  /\ Stale # {}
  /\ picked' \in {rs \in SUBSET Stale :
                    \/ Cardinality(rs) = ReaperBatch
                    \/ rs = Stale /\ Cardinality(rs) < ReaperBatch}
  /\ UNCHANGED <<aged, rowVars>>
  /\ NoFault

SweepWrite ==
  /\ picked # {}
  /\ picked' = {}
  /\ \/ FinishRows(picked, "FAILED", "WORKER_CRASHED") /\ NoFault
     \/ Fault("database") /\ UNCHANGED rowVars
  /\ UNCHANGED aged

Sweep == SweepRead \/ SweepWrite

==============================================================================
