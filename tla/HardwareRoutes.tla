--------------------------- MODULE HardwareRoutes ----------------------------
(***************************************************************************)
(* The two requests of apps/api/src/routes/hardware.ts that write: POST,   *)
(* which creates the row and books tick 0 (everything before the row is a  *)
(* refusal that writes nothing and is left out), and DELETE, which reads   *)
(* the row, cancels it, and then tells the provider about the job it read. *)
(* A DELETE may be sent again once the last one was answered.              *)
(***************************************************************************)
EXTENDS HardwareTicks, HardwareProvider

VARIABLES
  post,      \* the step the POST is at
  del        \* [at: the step the DELETE is at, id: the providerJobId it read]

routeVars == <<post, del>>

NoDelete == [at |-> "none", id |-> NoId]

RoutesTypeOK ==
  /\ post \in {"new", "enqueue", "compensate", "202", "503", "dead"}
  /\ del \in [at: {"none", "cancel", "tell"}, id: 0 .. MaxIds]

RoutesInit ==
  /\ post = "new"
  /\ del = NoDelete

KeepPost == UNCHANGED <<post, quiet, tickVars>>

------------------------------------------------------------------------------

Create ==
  /\ post = "new"
  /\ CreateJob
  /\ post' = "enqueue"
  /\ NoFault /\ UNCHANGED <<del, tickVars, device>>

\* enqueueTick of tick 0. A failed command may have reached Redis.
Enqueue ==
  /\ post = "enqueue"
  /\ \/ AddTick(0) /\ post' = "202" /\ NoFault
     \/ /\ Fault("redis")
        /\ AddTick(0) \/ UNCHANGED tickVars
        /\ post' = "compensate"
  /\ UNCHANGED <<rowVars, del, device>>

Compensate ==
  /\ post = "compensate"
  /\ post' = "503"
  /\ \/ FailJob("QUEUE_UNAVAILABLE") /\ NoFault
     \/ Fault("database") /\ UNCHANGED rowVars
  /\ UNCHANGED <<del, tickVars, device>>

PostDies ==
  /\ post \in {"enqueue", "compensate"}
  /\ Fault("api")
  /\ post' = "dead"
  /\ UNCHANGED <<rowVars, del, tickVars, device>>

PostStep == Create \/ Enqueue \/ Compensate

\* findJob: the handler's one reading of the row.
DeleteRead ==
  /\ del = NoDelete
  /\ row.status # "ABSENT"
  /\ del' = [at |-> "cancel", id |-> row.providerJobId]
  /\ NoFault /\ KeepPost /\ UNCHANGED <<row, device>>

\* cancelJob. A row that had ended, or a job that was not sent when the row
\* was read, ends the request; so does a write whose reply is lost.
DeleteCancels ==
  /\ del.at = "cancel"
  /\ \/ /\ CancelJob
        /\ del' = IF IsOpen /\ del.id # NoId THEN [del EXCEPT !.at = "tell"]
                  ELSE NoDelete
        /\ NoFault
     \/ Fault("database") /\ (CancelJob \/ UNCHANGED row) /\ del' = NoDelete
  /\ KeepPost /\ UNCHANGED device

\* The provider is told, best effort.
DeleteTells ==
  /\ del.at = "tell"
  /\ del' = NoDelete
  /\ \/ row.credential /\ CancelAtProvider(del.id) /\ NoFault
     \/ ~row.credential /\ UNCHANGED device /\ NoFault
     \/ /\ Fault("network") \/ Fault("refusal") \/ Fault("database") \/ Fault("api")
        /\ UNCHANGED device
  /\ KeepPost /\ UNCHANGED row

DeleteDies ==
  /\ del # NoDelete
  /\ Fault("api")
  /\ del' = NoDelete
  /\ KeepPost /\ UNCHANGED <<row, device>>

DeleteStep == DeleteCancels \/ DeleteTells

RoutesNext == PostStep \/ PostDies \/ DeleteRead \/ DeleteStep \/ DeleteDies

==============================================================================
