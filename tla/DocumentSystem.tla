--------------------------- MODULE DocumentSystem ---------------------------
(***************************************************************************)
(* Peers that join, edit and leave the session of one circuit, its owner   *)
(* who writes a version, and the processes that serve them.                *)
(***************************************************************************)
EXTENDS DocumentRegistry

CONSTANTS
    Deployments,    \* [serves, edits, incidents]: the peers each process that runs
                    \* serves, the edits they make, and a bound on faults, versions
                    \* and shutdowns
    MaxFaults,      \* bound: things that go wrong
    MaxVersions     \* bound: versions written; 1, a document takes an edit back once

VARIABLES
    deployed,    \* the deployment of this behaviour
    accepted,    \* edits the relay has accepted
    kept,        \* those it still answers for
    owed,        \* per document: edits published while it was subscribed
    late,        \* a version was settled into a document everybody had left
    spent        \* faults, versions and shutdowns so far

\* What a deployment is, and what the constants are.
ASSUME DeploymentsAssumption ==
    /\ IsFiniteSet(Replicas) /\ Replicas # {}
    /\ MaxBuilds \in Nat
    /\ NoRow \notin [has : SUBSET Edits, gone : SUBSET Edits]
    /\ \A d \in Deployments :
          /\ DOMAIN d.serves \subseteq Replicas
          /\ \A r \in DOMAIN d.serves : d.serves[r] \subseteq Peers
          /\ d.edits \subseteq Edits

running == DOMAIN deployed.serves

ghosts == <<deployed, accepted, kept, owed, late, spent>>
vars == <<storeVars, registryVars, ghosts>>

Init ==
    /\ StoreInit /\ RegistryInit
    /\ deployed \in Deployments
    /\ accepted = {} /\ kept = {} /\ late = FALSE
    /\ owed = [n \in LiveIds |-> {}]
    /\ spent = [faults |-> 0, versions |-> 0, incidents |-> 0]

Same == UNCHANGED ghosts
Spend(what) ==
    /\ spent.incidents < deployed.incidents
    /\ spent' = [what EXCEPT !.incidents = @ + 1]

\* What the next session is sure to have, now and in the next state.
Forgiven == kept' = kept \cap (IF row' = NoRow THEN version' ELSE Content(row'))

-----------------------------------------------------------------------------
Joins == (\E r \in running : \E p \in deployed.serves[r] : Join(p, r)) /\ Same
Leaves == (\E p \in Peers : Detach(p)) /\ Same
Timer == (\E n \in DOMAIN relay.lives : TimerFires(n)) /\ Same
Bus == (\E n \in DOMAIN relay.lives : Subscribe(n)) /\ Same
Builds == (\E r \in running : BuildEnds(r)) /\ Same
Executes == (\E r \in running : Execute(r)) /\ UNCHANGED registryVars /\ Same
Receives == (\E r \in running : Receive(r)) /\ Same

\* An edit is answered for from the moment it is accepted, unless the process
\* is shutting down, and owed to the documents that listen on other processes.
Edit ==
    \E p \in Peers, edit \in deployed.edits \ accepted :
        LET r == peers[p].replica
        IN  /\ Apply(p, edit)
            /\ accepted' = accepted \cup {edit}
            /\ kept' = IF relay.closed[r] THEN kept ELSE kept \cup {edit}
            /\ owed' = [n \in LiveIds |->
                  IF n \in UNION {Listening(q) : q \in running \ {r}} THEN owed[n] \cup {edit}
                  ELSE owed[n]]
            /\ UNCHANGED <<deployed, late, spent>>

\* A version takes back what it does not hold.
Replies ==
    \E r \in running :
        /\ Reply(r)
        /\ LET statement == Head(db[r])
               n == relay.documents[r]
           IN  IF statement.kind # "append" THEN UNCHANGED <<kept, late>>
               ELSE /\ kept' = kept \cap statement.circuit
                    /\ late' = (late \/ /\ n # None
                                        /\ relay.lives[n].peers = {}
                                        /\ \E i \in DOMAIN db[r] :
                                              db[r][i].kind = "save" /\ db[r][i].live = n)
        /\ UNCHANGED <<deployed, accepted, owed, spent>>

\* The owner saves the circuit as the session has it, or restores the first
\* version, which was empty.
WriteVersion ==
    /\ spent.versions < MaxVersions
    /\ Spend([spent EXCEPT !.versions = @ + 1])
    /\ \E r \in running :
          LET n == relay.documents[r]
              shown == IF n = None THEN Content(Seed) ELSE Content(relay.lives[n].doc)
          IN  RequestVersion(r, shown, FALSE) \/ RequestVersion(r, {}, TRUE)
    /\ UNCHANGED <<deployed, accepted, kept, owed, late>>

Shutdown ==
    /\ Spend(spent)
    /\ \E r \in running : Close(r)
    /\ UNCHANGED <<deployed, accepted, kept, owed, late>>

Ends == (\E r \in running : CloseEnds(r)) /\ Same

\* A document past the ceiling, or a row that does not project, costs the
\* session's tail; a save that fails or
\* a crash costs what is in no row.
Faults ==
    /\ spent.faults < MaxFaults
    /\ Spend([spent EXCEPT !.faults = @ + 1])
    /\ \/ \E p \in Peers : Overgrow(p) /\ kept' = kept \cap version /\ UNCHANGED owed
       \/ \E r \in running : (WriteFails(r) \/ Crash(r)) /\ Forgiven /\ UNCHANGED owed
       \/ \E r \in running : RowDoesNotProject(r) /\ kept' = kept \cap version /\ UNCHANGED owed
       \/ \E r \in running : LoadFails(r) /\ UNCHANGED <<kept, owed>>
       \/ \E n \in DOMAIN relay.lives : SubscribeFails(n) /\ UNCHANGED <<kept, owed>>
       \/ \E r \in running : MessageIsLost(r) /\ owed' = [n \in LiveIds |-> {}] /\ UNCHANGED kept
    /\ UNCHANGED <<deployed, accepted, late>>

Next ==
    \/ Joins \/ Leaves \/ Timer \/ Bus \/ Builds \/ Executes \/ Receives
    \/ Edit \/ Replies \/ WriteVersion \/ Shutdown \/ Ends \/ Faults

Spec == Init /\ [][Next]_vars

\* Statements run and are answered, a subscription is answered, and what
\* awaited one of them goes on.
FairSpec == Spec /\ WF_vars(Executes \/ Replies \/ Bus \/ Builds)

-----------------------------------------------------------------------------
TypeOK ==
    /\ \A r \in Replicas : relay.documents[r] \in {None} \cup DOMAIN relay.lives
    /\ \A r \in Replicas : relay.building[r] \in {None, Seeding} \cup DOMAIN relay.lives
    /\ \A n \in DOMAIN relay.lives :
          /\ relay.lives[n].bus \in {"opening", "open", "none"}
          /\ relay.lives[n].timer => relay.lives[n].pending
          /\ Content(relay.lives[n].doc) \subseteq accepted
    /\ kept \subseteq accepted
    /\ row # NoRow => Content(row) \subseteq accepted

\* Nobody is there, and nothing is on its way to the row.
Asleep ==
    /\ \A p \in Peers : peers[p].at = "nowhere"
    /\ \A r \in running : db[r] = <<>> /\ relay.documents[r] = None
    /\ \A n \in DOMAIN relay.lives : ~relay.lives[n].timer

\* With one process, an edit that was accepted outlives everybody leaving:
\* whatever saves, joins, versions, shutdowns and restarts overlapped, the next
\* session is seeded with every edit no version took back.
EditsOutliveTheSession ==
    Asleep /\ Cardinality(running) = 1 /\ ~late => kept \subseteq Content(Seed)

\* A socket in a session is attached to the document its process hands out, so
\* two sockets of a process are never in two documents of one circuit.  (Where
\* another process wrote a version, they can be: see the README.)
NobodyIsLeftBehind ==
    Cardinality(running) = 1 \/ spent.versions = 0 =>
    \A p \in Peers : peers[p].at = "in" /\ ~relay.closed[peers[p].replica] =>
        /\ relay.documents[peers[p].replica] = peers[p].live
        /\ p \in relay.lives[peers[p].live].peers

\* Together: where everybody is, whatever overlapped.
DocumentInvariant == TypeOK /\ NobodyIsLeftBehind

\* Two processes: what was published while a document was subscribed is in it
\* once its process has read its inbox.
SubscribersHaveEverything ==
    \A r \in running : relay.inbox[r] = <<>> =>
        \A n \in Listening(r) : owed[n] \subseteq relay.lives[n].doc.has

\* Every join is answered, by an attachment or by a refusal.
EveryJoinIsAnswered == \A p \in Peers : peers[p].at = "waiting" ~> peers[p].at # "waiting"

=============================================================================
