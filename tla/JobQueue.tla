------------------------------ MODULE JobQueue ------------------------------
(***************************************************************************)
(* The SQS queue between the API and the workers, as config/sqs.js uses    *)
(* it: one message per created simulation.  The queue itself is not part   *)
(* of this repository (the local ElasticMQ configuration is), so all but   *)
(* Enqueue is the service's published behaviour: a received message stays  *)
(* hidden until it is deleted or its visibility timeout expires.           *)
(***************************************************************************)
EXTENDS SimulationStore

VARIABLE queue  \* [Sims -> QueueStates]: the job message of each simulation

QueueStates == {"absent", "visible", "hidden"}

QueueTypeOK == queue \in [Sims -> QueueStates]
QueueInit == queue = [s \in Sims |-> "absent"]

Enqueue(s) == queue' = [queue EXCEPT ![s] = "visible"]

TakeMessage(s) ==
    /\ queue[s] = "visible"
    /\ queue' = [queue EXCEPT ![s] = "hidden"]

DeleteMessage(s) == queue' = [queue EXCEPT ![s] = "absent"]

VisibilityExpires(s) ==
    /\ queue[s] = "hidden"
    /\ queue' = [queue EXCEPT ![s] = "visible"]
=============================================================================
