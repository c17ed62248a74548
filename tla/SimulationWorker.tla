-------------------------- MODULE SimulationWorker --------------------------
(***************************************************************************)
(* The EC2 workers.  Their control (DE-forEC2/spawner.js) is outside this  *)
(* repository and modelled from what docs/context.md and the comments of   *)
(* models/simulation.js say of it: poll the queue, look at the status,     *)
(* mark the simulation running, report progress, save the results, delete  *)
(* the message only then.  The writes they make are this repository's      *)
(* setStatus, updateProgress and saveResults.                              *)
(*                                                                         *)
(* What a worker does with a simulation it finds "failed" is not said      *)
(* anywhere: it may run it or skip it.                                     *)
(***************************************************************************)
EXTENDS SimulationApi

CONSTANTS
    Workers,
    VisibilityCoversRun  \* the visibility timeout exceeds the longest run

ASSUME WorkerAssumption == VisibilityCoversRun \in BOOLEAN

VARIABLE workers

WorkerPcs == {"check", "claim", "run", "save", "flip", "ack"}

Asleep == [pc |-> "asleep", sim |-> NoSim, todo |-> {}]
Job == [pc: WorkerPcs, sim: Sims, todo: SUBSET Rows]

WorkerTypeOK == workers \in [Workers -> Job \cup {Asleep}]
WorkerInit == workers = [w \in Workers |-> Asleep]

Turn(w, pc, todo) ==
    workers' = [workers EXCEPT ![w] = [pc |-> pc, sim |-> @.sim, todo |-> todo]]

Sleep(w) == workers' = [workers EXCEPT ![w] = Asleep]

Handling(s) == {w \in Workers : workers[w].pc # "asleep" /\ workers[w].sim = s}

-----------------------------------------------------------------------------
Receive(w, s) ==
    /\ workers[w].pc = "asleep"
    /\ TakeMessage(s)
    /\ workers' = [workers EXCEPT ![w] = [pc |-> "check", sim |-> s, todo |-> {}]]
    /\ UNCHANGED <<storeVars, reqs>>

\* The status read that decides whether the job is run at all.
Check(w) ==
    /\ workers[w].pc = "check"
    /\ \/ /\ sims[workers[w].sim].status \in InFlight \cup {"failed"}
          /\ Turn(w, "claim", {})
       \/ /\ sims[workers[w].sim].status \notin InFlight
          /\ Turn(w, "ack", {})
    /\ UNCHANGED <<storeVars, queue, reqs>>

Claim(w) ==
    /\ workers[w].pc = "claim"
    /\ SetStatus(workers[w].sim, "running")
    /\ Turn(w, "run", {})
    /\ UNCHANGED <<results, used, past, scars, faults, queue, reqs>>

Report(w) ==
    /\ workers[w].pc = "run"
    /\ \E n \in 0..TotalModels : UpdateProgress(workers[w].sim, n)
    /\ UNCHANGED <<results, used, past, scars, faults, queue, reqs, workers>>

\* The run ends: with results, with an error, or because the worker has
\* noticed that the simulation was cancelled.
RunDone(w) ==
    /\ workers[w].pc = "run"
    /\ Turn(w, "save", Rows)
    /\ UNCHANGED <<storeVars, queue, reqs>>

RunFails(w) ==
    /\ workers[w].pc = "run"
    /\ SetStatus(workers[w].sim, "failed")
    /\ Turn(w, "ack", {})
    /\ UNCHANGED <<results, used, past, scars, faults, queue, reqs>>

RunAbandoned(w) ==
    /\ workers[w].pc = "run"
    /\ sims[workers[w].sim].status = "cancelled"
    /\ Turn(w, "ack", {})
    /\ UNCHANGED <<storeVars, queue, reqs>>

-----------------------------------------------------------------------------
(* saveResults: every row, then the flip of the item.                      *)

\* Mutant: the item is flipped after the first round of rows.
SaveRows_FlipEarly(w) ==
    /\ workers[w].pc = "save"
    /\ \E round \in Rounds(workers[w].todo) :
         /\ PutRows(workers[w].sim, round)
         /\ Turn(w, "flip", After(workers[w].todo, round))
    /\ UNCHANGED <<sims, used, queue, reqs>>

SaveRows(w) ==
    /\ workers[w].pc = "save"
    /\ \E round \in Rounds(workers[w].todo) :
         LET left == After(workers[w].todo, round) IN
           /\ PutRows(workers[w].sim, round)
           /\ Turn(w, IF left = {} THEN "flip" ELSE "save", left)
    /\ UNCHANGED <<sims, used, queue, reqs>>

Flip(w) ==
    /\ workers[w].pc = "flip"
    /\ CompleteItem(workers[w].sim)
    /\ Turn(w, "ack", {})
    /\ UNCHANGED <<results, used, past, scars, faults, queue, reqs>>

Ack(w) ==
    /\ workers[w].pc = "ack"
    /\ DeleteMessage(workers[w].sim)
    /\ Sleep(w)
    /\ UNCHANGED <<storeVars, reqs>>

-----------------------------------------------------------------------------
\* The instance is lost, or a call it awaits rejects: the message stays hidden.
WorkerCrash(w) ==
    /\ workers[w].pc # "asleep"
    /\ Fault("workerCrash")
    /\ Sleep(w)
    /\ UNCHANGED <<sims, results, used, past, scars, queue, reqs>>

Reappear(s) ==
    /\ VisibilityCoversRun => Handling(s) = {}
    /\ VisibilityExpires(s)
    /\ UNCHANGED <<storeVars, reqs, workers>>

\* What a worker must get on with; progress reports are left to its whim.
WorkerStep(w) ==
    \/ Check(w)
    \/ Claim(w)
    \/ RunDone(w)
    \/ RunFails(w)
    \/ RunAbandoned(w)
    \/ SaveRows(w)
    \/ Flip(w)
    \/ Ack(w)

WorkerNext ==
    \/ \E w \in Workers :
         WorkerStep(w) \/ Report(w) \/ WorkerCrash(w) \/ \E s \in Sims : Receive(w, s)
    \/ \E s \in Sims : Reappear(s)
=============================================================================
