---------------------------- MODULE SimulateRoute ----------------------------
(***************************************************************************)
(* POST /simulate (apps/api/src/routes/simulate.ts) over the queue port of *)
(* apps/api/src/plugins/queue.ts. A submission is a process: each await of *)
(* its handler is a step, and between two of them every other submission,  *)
(* the workers and the reaper may move. What precedes the row (validation, *)
(* limits) refuses without a trace and is left out.                        *)
(*                                                                         *)
(* A command that fails may have been applied or not: the caller sees the  *)
(* same exception.                                                         *)
(***************************************************************************)
EXTENDS RunRows, JobQueue

CONSTANTS
  WorkOf,          \* [Runs -> a work digest]: submissions of identical work
  Nobody,          \* the deduplication key does not exist
  MaxQueueDepth    \* MAX_QUEUE_DEPTH

VARIABLES
  pc,              \* [Runs -> RoutePc]: where the handler of a submission is
  winner,          \* [Runs -> Runs \union {Nobody}]: `owner`, once it is not us
  seen,            \* [Runs -> RowStatus]: the status of `existing`, as read
  dedupe,          \* [Works -> Runs \union {Nobody}]: the value under the key
  expired,         \* history: the works whose key reached its TTL
  missed           \* history: the works a claim found no key for at its GET

routeVars == <<pc, winner, seen, dedupe, expired, missed>>

Works == {WorkOf[s] : s \in Runs}

ASSUME RouteAssumption == Nobody \notin Runs /\ MaxQueueDepth \in Nat

InFlight == {"depth", "create", "claim", "get", "read", "release", "discard",
             "enqueue", "compensate", "watch"}

\* An answered request rests at its HTTP status; a killed one at "dead".
Answered == {"200", "201", "202", "404", "429", "500", "503"}
RoutePc  == InFlight \union Answered \union {"dead"}

RouteTypeOK ==
  /\ pc \in [Runs -> RoutePc]
  /\ winner \in [Runs -> Runs \union {Nobody}]
  /\ seen \in [Runs -> RowStatus]
  /\ dedupe \in [Works -> Runs \union {Nobody}]
  /\ expired \in SUBSET Works
  /\ missed \in SUBSET Works

RouteInit ==
  /\ pc = [s \in Runs |-> "depth"]
  /\ winner = [s \in Runs |-> Nobody]
  /\ seen = [s \in Runs |-> "ABSENT"]
  /\ dedupe = [w \in Works |-> Nobody]
  /\ expired = {}
  /\ missed = {}

Goto(s, there) == pc' = [pc EXCEPT ![s] = there]

SetKey(s)      == dedupe' = [dedupe EXCEPT ![WorkOf[s]] = s]
ClearKey(w)    == dedupe' = [dedupe EXCEPT ![w] = Nobody]

\* The repository calls and the queue calls a step does not make.
NoRows  == UNCHANGED rowVars
NoQueue == UNCHANGED queueVars
NoKey   == UNCHANGED <<dedupe, expired, missed>>

------------------------------------------------------------------------------

\* A depth that cannot be read is not a refusal.
AssertQueueHasRoom(s) ==
  /\ pc[s] = "depth"
  /\ \/ /\ Cardinality(WaitingJobs) < MaxQueueDepth
        /\ Goto(s, "create")
        /\ NoFault
     \/ /\ Cardinality(WaitingJobs) >= MaxQueueDepth
        /\ Goto(s, "429")
        /\ NoFault
     \/ /\ Fault("redis")
        /\ Goto(s, "create")
  /\ NoRows /\ NoQueue /\ NoKey /\ UNCHANGED <<winner, seen>>

CreateRun(s) ==
  /\ pc[s] = "create"
  /\ \/ CreateRow(s) /\ Goto(s, "claim") /\ NoFault
     \/ Fault("database") /\ Goto(s, "500") /\ (CreateRow(s) \/ NoRows)
  /\ NoQueue /\ NoKey /\ UNCHANGED <<winner, seen>>

\* The SET NX of claimWork, for the first claim and for the reclaim alike.
ClaimKey(s) ==
  /\ pc[s] = "claim"
  /\ \/ /\ dedupe[WorkOf[s]] = Nobody
        /\ SetKey(s)
        /\ Goto(s, "enqueue")
        /\ NoFault
     \/ /\ dedupe[WorkOf[s]] # Nobody
        /\ UNCHANGED dedupe
        /\ Goto(s, "get")
        /\ NoFault
     \/ /\ Fault("redis")
        /\ Goto(s, "compensate")
        /\ UNCHANGED dedupe \/ (dedupe[WorkOf[s]] = Nobody /\ SetKey(s))
  /\ NoRows /\ NoQueue /\ UNCHANGED <<winner, seen, expired, missed>>

\* The GET of claimWork. A key that is gone leaves the work to this caller,
\* who does not set it again. A reclaim that loses ends at discardRun.
GetWinner(s) ==
  LET owner == dedupe[WorkOf[s]] IN
  /\ pc[s] = "get"
  /\ \/ /\ owner \in {Nobody, s}
        /\ Goto(s, "enqueue")
        /\ missed' = IF owner = Nobody THEN missed \union {WorkOf[s]}
                                       ELSE missed
        /\ UNCHANGED winner
        /\ NoFault
     \/ /\ owner \notin {Nobody, s}
        /\ Goto(s, IF winner[s] = Nobody THEN "read" ELSE "discard")
        /\ winner' = IF winner[s] = Nobody THEN [winner EXCEPT ![s] = owner]
                                           ELSE winner
        /\ UNCHANGED missed
        /\ NoFault
     \/ /\ Fault("redis")
        /\ Goto(s, "compensate")
        /\ UNCHANGED <<winner, missed>>
  /\ NoRows /\ NoQueue /\ UNCHANGED <<seen, dedupe, expired>>

\* findReadableRun(owner): the answer is kept across everything that follows.
ReadWinner(s) ==
  /\ pc[s] = "read"
  /\ \/ /\ seen' = [seen EXCEPT ![s] = status[winner[s]]]
        /\ Goto(s, IF status[winner[s]] = "FAILED" THEN "release" ELSE "discard")
        /\ NoFault
     \/ Fault("database") /\ Goto(s, "500") /\ UNCHANGED seen
  /\ NoRows /\ NoQueue /\ NoKey /\ UNCHANGED winner

\* Mutant: a plain DEL, whoever holds the key.
ReleaseAnyKey(s) ==
  /\ pc[s] = "release"
  /\ ClearKey(WorkOf[s])
  /\ Goto(s, "claim")
  /\ NoFault /\ NoRows /\ NoQueue /\ UNCHANGED <<winner, seen, expired, missed>>

\* The compare-and-delete script. A script resent after a lost reply answers
\* 0 for the key it deleted itself; an exception escapes the handler.
ReleaseKey(s) ==
  LET w    == WorkOf[s]
      mine == dedupe[w] = winner[s]
  IN
  /\ pc[s] = "release"
  /\ \/ mine /\ ClearKey(w) /\ Goto(s, "claim") /\ NoFault
     \/ ~mine /\ UNCHANGED dedupe /\ Goto(s, "discard") /\ NoFault
     \/ /\ Fault("redis")
        /\ \/ mine /\ ClearKey(w) /\ Goto(s, "discard")
           \/ (UNCHANGED dedupe \/ (mine /\ ClearKey(w))) /\ Goto(s, "503")
  /\ NoRows /\ NoQueue /\ UNCHANGED <<winner, seen, expired, missed>>

DiscardRun(s) ==
  /\ pc[s] = "discard"
  /\ \/ /\ DiscardRow(s)
        /\ Goto(s, IF seen[s] \in RunStatuses THEN "200" ELSE "404")
        /\ NoFault
     \/ Fault("database") /\ Goto(s, "500") /\ (DiscardRow(s) \/ NoRows)
  /\ NoQueue /\ NoKey /\ UNCHANGED <<winner, seen>>

\* Mutant: a failed enqueue is treated as a failure to watch.
EnqueueQuietly(s) ==
  /\ pc[s] = "enqueue"
  /\ Goto(s, "watch")
  /\ \/ Add(s) /\ NoFault
     \/ Fault("redis") /\ (Add(s) \/ NoQueue)
  /\ NoRows /\ NoKey /\ UNCHANGED <<winner, seen>>

Enqueue(s) ==
  /\ pc[s] = "enqueue"
  /\ \/ Add(s) /\ Goto(s, "watch") /\ NoFault
     \/ Fault("redis") /\ Goto(s, "compensate") /\ (Add(s) \/ NoQueue)
  /\ NoRows /\ NoKey /\ UNCHANGED <<winner, seen>>

\* Mutant: the row is deleted rather than failed.
CompensateByDiscard(s) ==
  /\ pc[s] = "compensate"
  /\ DiscardRow(s)
  /\ Goto(s, "503")
  /\ NoFault /\ NoQueue /\ NoKey /\ UNCHANGED <<winner, seen>>

\* failRun with QUEUE_UNAVAILABLE, in claimOrFail and after a failed enqueue.
Compensate(s) ==
  /\ pc[s] = "compensate"
  /\ \/ /\ FinishRows({s}, "FAILED", "QUEUE_UNAVAILABLE")
        /\ Goto(s, "503")
        /\ NoFault
     \/ /\ Fault("database")
        /\ Goto(s, "500")
        /\ FinishRows({s}, "FAILED", "QUEUE_UNAVAILABLE") \/ NoRows
  /\ NoQueue /\ NoKey /\ UNCHANGED <<winner, seen>>

\* The synchronous window: a signal seen in time and the row read after it.
Watch(s) ==
  /\ pc[s] = "watch"
  /\ \/ s \in signalled /\ status[s] \in Terminal /\ Goto(s, "201") /\ NoFault
     \/ Goto(s, "202") /\ NoFault
     \/ s \in signalled /\ Fault("database") /\ Goto(s, "500")
  /\ NoRows /\ NoQueue /\ NoKey /\ UNCHANGED <<winner, seen>>

\* An API process dies, and every request S it was serving with it.
ApiDies(S) ==
  /\ Fault("api")
  /\ S # {} /\ \A s \in S : pc[s] \in InFlight \ {"depth"}
  /\ pc' = [s \in Runs |-> IF s \in S THEN "dead" ELSE pc[s]]
  /\ NoRows /\ NoQueue /\ NoKey /\ UNCHANGED <<winner, seen>>

\* DEDUPLICATION_TTL_MS passes.
KeyExpires(w) ==
  /\ dedupe[w] # Nobody
  /\ Fault("expiry")
  /\ ClearKey(w)
  /\ expired' = expired \union {w}
  /\ NoRows /\ NoQueue /\ UNCHANGED <<pc, winner, seen, missed>>

RouteStep(s) ==
  \/ AssertQueueHasRoom(s) \/ CreateRun(s) \/ ClaimKey(s) \/ GetWinner(s)
  \/ ReadWinner(s) \/ ReleaseKey(s) \/ DiscardRun(s) \/ Enqueue(s)
  \/ Compensate(s) \/ Watch(s)

RouteNext ==
  \/ \E s \in Runs : RouteStep(s)
  \/ \E S \in SUBSET Runs : ApiDies(S)
  \/ \E w \in Works : KeyExpires(w)

==============================================================================
