------------------------- MODULE SimulationLifecycle -------------------------
(***************************************************************************)
(* The life of a simulation: API requests, job queue, workers and the two  *)
(* tables together, and what must hold of them.                            *)
(***************************************************************************)
EXTENDS SimulationWorker

vars == <<sims, results, used, past, scars, faults, queue, reqs, workers>>

Init ==
    /\ StoreInit
    /\ QueueInit
    /\ ApiInit
    /\ WorkerInit

\* Nothing in progress and no message: the server waits for a request, and
\* with every identifier drawn it may wait for ever.  Any other state without
\* a successor is a deadlock.
AtRest ==
    /\ \A r \in Requests : reqs[r].pc = "idle"
    /\ \A w \in Workers : workers[w].pc = "asleep"
    /\ \A s \in Sims : queue[s] = "absent"
    /\ UNCHANGED vars

Next ==
    \/ ApiNext /\ UNCHANGED workers
    \/ WorkerNext
    \/ AtRest

Spec == Init /\ [][Next]_vars

(***************************************************************************)
(* Fairness.  The event loop gets to every awaited call, which answers or  *)
(* rejects; some worker polls; a polling worker gets on with its job; the  *)
(* visibility timeout of a hidden message expires.  Nothing makes users    *)
(* send requests, workers report progress, or calls fail.                  *)
(***************************************************************************)
Fairness ==
    /\ \A r \in Requests : WF_vars(RequestStep(r) /\ UNCHANGED workers)
    /\ \A w \in Workers : WF_vars(WorkerStep(w))
    /\ \A s \in Sims : /\ WF_vars(\E w \in Workers : Receive(w, s))
                       /\ WF_vars(Reappear(s))

FairSpec == Spec /\ Fairness

TypeOK ==
    /\ StoreTypeOK
    /\ QueueTypeOK
    /\ ApiTypeOK
    /\ WorkerTypeOK

-----------------------------------------------------------------------------
(* Safety                                                                  *)

(***************************************************************************)
(* The ownership check of cancel and delete is made on an item read before *)
(* several awaits, and perhaps out of date already then.  It is still good *)
(* when the write lands: a simulation that some request acts on for a user *)
(* belongs to that user, or to nobody because it has been removed.         *)
(***************************************************************************)
OwnershipHolds ==
    \A r \in Requests :
        reqs[r].pc # "idle" /\ reqs[r].user # NoUser =>
            sims[reqs[r].sim].owner \in {reqs[r].user, NoUser}

(***************************************************************************)
(* "Write all result items, then flip": a simulation its owner sees as     *)
(* completed has every result row, whoever wrote them and however often    *)
(* the job was redelivered, except while an import is still writing, or    *)
(* after batchWrite gave up rows, an import was torn, or a deletion began. *)
(***************************************************************************)
CompletedHasRows ==
    \A s \in Sims :
        /\ Owned(s)
        /\ sims[s].status = "completed"
        /\ \A r \in Requests : ~(reqs[r].pc = "rows" /\ reqs[r].sim = s)
        /\ scars[s] \cap {"gaveUp", "torn", "erasing"} = {}
        => results[s] = Rows

(***************************************************************************)
(* deleteResults, then DeleteItem: a simulation no user can reach any more *)
(* (removed, or never created) has no result rows left, unless rows were   *)
(* given up, or written after a deletion began to list what to erase, or   *)
(* a page of that listing missed them: the query is eventually consistent. *)
(***************************************************************************)
NoOrphanRows ==
    \A s \in Sims :
        ~Owned(s) /\ scars[s] \cap {"gaveUp", "overlap", "missed"} = {}
            => results[s] = {}

(***************************************************************************)
(* With a visibility timeout longer than any run, a completed simulation   *)
(* reports all its models done: no progress report of another delivery of  *)
(* the same job lands after saveResults.                                   *)
(***************************************************************************)
CompletedIsWhole ==
    \A s \in Sims :
        VisibilityCoversRun /\ sims[s].status = "completed" =>
            sims[s].completedModels = TotalModels

(***************************************************************************)
(* With that timeout, and unless SQS accepted its message and the answer   *)
(* was lost, a completed simulation can only be removed: no cancel,        *)
(* enqueue failure, redelivery or late progress report changes its status. *)
(***************************************************************************)
CompletedIsFinal ==
    [][\A s \in Sims :
          /\ VisibilityCoversRun
          /\ sims[s].status = "completed"
          /\ "sendLost" \notin scars[s]
          => sims'[s].status \in {"completed", "absent"}]_vars

(***************************************************************************)
(* docs/context.md:137: the worker deletes messages only after a save.     *)
(* With that timeout, the message of a job goes only when its simulation   *)
(* is settled or removed, whatever crashes, cancels and deletes meanwhile. *)
(***************************************************************************)
JobsLeaveSettled ==
    [][\A s \in Sims :
          VisibilityCoversRun /\ queue[s] # "absent" /\ queue'[s] = "absent" =>
              sims'[s].status \notin InFlight]_vars

(***************************************************************************)
(* With that timeout, and unless its own create handler was cut off before *)
(* it could send or mark, a pending or running simulation always has       *)
(* somebody to see to it: a message in the queue, or the request that is   *)
(* about to send or mark it.  No other failed call, exit or crash makes it *)
(* hang, so far as safety can say it.                                      *)
(***************************************************************************)
Backed(s) ==
    \/ queue[s] # "absent"
    \/ \E r \in Requests : reqs[r].pc \in {"send", "mark"} /\ reqs[r].sim = s

InFlightIsBacked ==
    VisibilityCoversRun =>
        \A s \in Sims :
            sims[s].status \in InFlight => Backed(s) \/ "cutOff" \in scars[s]

(***************************************************************************)
(* The owner's view of every simulation is one that OwnerView allows.      *)
(***************************************************************************)
Phase(status) == IF status \in InFlight THEN "inflight" ELSE status

ViewOf(s) ==
    IF s \notin used THEN [phase |-> "unborn", owner |-> NoUser]
    ELSE IF Owned(s) THEN [phase |-> Phase(sims[s].status), owner |-> sims[s].owner]
    ELSE [phase |-> "gone", owner |-> NoUser]

View == INSTANCE OwnerView WITH view <- [s \in Sims |-> ViewOf(s)]
OwnerViewSpec == View!Spec

-----------------------------------------------------------------------------
(* The inductive invariant behind OwnershipHolds, CompletedHasRows,        *)
(* NoOrphanRows and OwnerViewSpec, in parts.                               *)

\* Requests, workers, messages, items and rows exist for drawn identifiers only.
DrawnFirst ==
    /\ \A s \in Sims \ used :
         /\ sims[s] = NoItem /\ past[s].item = NoItem
         /\ results[s] = {}
         /\ queue[s] = "absent"
    /\ \A r \in Requests : reqs[r].pc # "idle" => reqs[r].sim \in used
    /\ \A w \in Workers : workers[w].pc # "asleep" => workers[w].sim \in used

\* An item has the owner it was put with, or none.
OwnerIsFirst == \A s \in Sims : sims[s].owner \in {past[s].item.owner, NoUser}

\* An owned item has a proper status; one that lost its owner was erased.
OwnedIsRegular ==
    \A s \in used : IF Owned(s) THEN sims[s].status \in Statuses
                                ELSE "erasing" \in scars[s]

\* What an import has sent is in the table.
ImportSent ==
    \A r \in Requests :
        /\ reqs[r].pc = "rows"
        /\ scars[reqs[r].sim] \cap {"gaveUp", "erasing"} = {}
        => Rows \ reqs[r].todo \subseteq results[reqs[r].sim]

\* What a save has sent is in the table; before the flip that is everything.
SaveSent ==
    \A w \in Workers :
        /\ workers[w].pc = "flip" => workers[w].todo = {}
        /\ /\ workers[w].pc \in {"save", "flip"}
           /\ scars[workers[w].sim] \cap {"gaveUp", "erasing"} = {}
           => Rows \ workers[w].todo \subseteq results[workers[w].sim]

\* What a deletion has passed without listing it, or has erased already, is
\* not in the table.
ListedRowsOnly ==
    \A r \in Requests :
        /\ reqs[r].pc = "query" =>
             reqs[r].ahead = Rows \/ "erasing" \in scars[reqs[r].sim]
        /\ reqs[r].pc \in {"erase", "drop"} =>
             reqs[r].ahead = {} /\ "erasing" \in scars[reqs[r].sim]
        /\ reqs[r].pc = "drop" => reqs[r].todo = {}
        /\ /\ reqs[r].pc \in {"query", "erase", "drop"}
           /\ scars[reqs[r].sim] \cap {"gaveUp", "overlap", "missed"} = {}
           => results[reqs[r].sim] \subseteq reqs[r].todo \cup reqs[r].ahead

IInv ==
    /\ DrawnFirst
    /\ OwnerIsFirst
    /\ OwnedIsRegular
    /\ OwnershipHolds
    /\ ImportSent
    /\ SaveSent
    /\ CompletedHasRows
    /\ ListedRowsOnly
    /\ NoOrphanRows

-----------------------------------------------------------------------------
(* The inductive invariant behind CompletedIsWhole and CompletedIsFinal,   *)
(* and, with AckedIsSettled, behind JobsLeaveSettled and InFlightIsBacked. *)

\* The job of a simulation that request r is creating is not in the queue.
Unsent(r) ==
    \/ reqs[r].pc = "send"
    \/ reqs[r].pc = "mark" /\ "sendLost" \notin scars[reqs[r].sim]

\* Before its job is sent a simulation is handled by no worker, completed by
\* nobody, and created by one request.
UnsentIsNew ==
    \A r \in Requests :
        Unsent(r) =>
            /\ queue[reqs[r].sim] = "absent"
            /\ sims[reqs[r].sim].status # "completed"
            /\ \A w \in Workers : workers[w].sim # reqs[r].sim
            /\ \A q \in Requests \ {r} : Unsent(q) => reqs[q].sim # reqs[r].sim

\* A job that a worker handles is hidden from the others, and no other does.
HandledOnce ==
    VisibilityCoversRun =>
        \A w \in Workers :
            workers[w].pc # "asleep" =>
                /\ queue[workers[w].sim] = "hidden"
                /\ \A v \in Workers \ {w} : workers[v].sim # workers[w].sim

\* A job is not run, and its results are not saved, once it is completed.
NotRunAgain ==
    VisibilityCoversRun =>
        \A w \in Workers :
            workers[w].pc \in {"claim", "run", "save", "flip"} =>
                sims[workers[w].sim].status # "completed"

OnceInv ==
    /\ UnsentIsNew
    /\ HandledOnce
    /\ NotRunAgain
    /\ CompletedIsWhole

\* A worker deletes the message of a settled job only.
AckedIsSettled ==
    VisibilityCoversRun =>
        \A w \in Workers :
            workers[w].pc = "ack" => sims[workers[w].sim].status \notin InFlight

-----------------------------------------------------------------------------
(* Liveness                                                                *)

(***************************************************************************)
(* A job that is in the queue is not lost, whatever crashes: its           *)
(* simulation leaves pending and running.                                  *)
(***************************************************************************)
QueuedJobsSettle ==
    \A s \in Sims :
        (queue[s] # "absent" /\ sims[s].status \in InFlight)
            ~> (sims[s].status \notin InFlight)

(***************************************************************************)
(* controllers/simulationController.js:18-20: an enqueue failure marks the *)
(* simulation failed "so it never hangs in pending".  It does not, unless  *)
(* the handler itself is cut off: its put is answered with an error, its   *)
(* mark fails like its send, or the process exits first.                   *)
(***************************************************************************)
NeverHangsInPending ==
    \A s \in Sims :
        (sims[s].status = "pending")
            ~> (sims[s].status # "pending" \/ "cutOff" \in scars[s])

-----------------------------------------------------------------------------
(* What a comment says and the code breaks.                                *)

(***************************************************************************)
(* models/simulation.js:402-403: completion writes all result items, then  *)
(* flips the parent item: the step that completes a simulation finds all   *)
(* its rows in the table.                                                  *)
(***************************************************************************)
FlipFindsAllRows ==
    [][\A s \in Sims :
          Owned(s) /\ sims[s].status # "completed" /\ sims'[s].status = "completed"
              => results[s] = Rows]_vars
=============================================================================
