---------------------------- MODULE SimulationApi ----------------------------
(***************************************************************************)
(* The API requests that change a simulation: the handlers of              *)
(* controllers/simulationController.js and of the admin delete, with the   *)
(* repository functions they call inlined.  A request is a record whose pc *)
(* names the DynamoDB or SQS call it awaits; the step from a pc is that    *)
(* call and everything the handler does up to its next await.  Requests    *)
(* interleave freely, with each other and with the workers.                *)
(*                                                                         *)
(*   create   Put -> send -> (mark, only when the send rejected) -> 201    *)
(*   import   Put -> rows ... -> 201                                       *)
(*   cancel   Get -> cancel -> 200 or 409                                  *)
(*   delete   Get -> query ... -> erase ... -> drop -> 200                 *)
(*                                                                         *)
(* An answer of any kind, error included, returns the record to Idle, as   *)
(* does a request that stops at a check (404, 403, 409): that one changes  *)
(* nothing and is not a step.                                              *)
(***************************************************************************)
EXTENDS JobQueue

CONSTANTS
    Requests,  \* slots for concurrent requests
    NoSim      \* the simulation of an idle slot

ASSUME ApiAssumption == NoSim \notin Sims

VARIABLE reqs

apiVars == <<storeVars, queue, reqs>>

RequestPcs == {"send", "mark", "rows", "cancel", "query", "erase", "drop"}

\* todo: the rows to write or erase; ahead: the keys a listing has to pass.
Idle == [pc |-> "idle", sim |-> NoSim, user |-> NoUser, todo |-> {}, ahead |-> {}]

Request == [pc: RequestPcs, sim: Sims, user: Users \cup {NoUser},
            todo: SUBSET Rows, ahead: SUBSET Rows]

ApiTypeOK == reqs \in [Requests -> Request \cup {Idle}]
ApiInit == reqs = [r \in Requests |-> Idle]

Await(r, pc, s, u, todo) ==
    reqs' = [reqs EXCEPT ![r] = [pc |-> pc, sim |-> s, user |-> u, todo |-> todo,
                                 ahead |-> IF pc = "query" THEN Rows ELSE {}]]

Goto(r, pc) == reqs' = [reqs EXCEPT ![r].pc = pc]
Answer(r) == reqs' = [reqs EXCEPT ![r] = Idle]

-----------------------------------------------------------------------------
(* POST /simulation/create                                                 *)

CreatePut(r, u, s) ==
    /\ reqs[r].pc = "idle"
    /\ PutItem(s, NewItem(u))
    /\ Await(r, "send", s, u, {})
    /\ UNCHANGED <<results, scars, faults, queue>>

\* The Put took effect but its answer was lost: the handler reports 500.
CreatePutLost(r, u, s) ==
    /\ reqs[r].pc = "idle"
    /\ PutItem(s, NewItem(u))
    /\ Scar(s, {"cutOff"})
    /\ Fault("reject")
    /\ UNCHANGED <<results, queue, reqs>>

CreateSend(r) ==
    /\ reqs[r].pc = "send"
    /\ Enqueue(reqs[r].sim)
    /\ Answer(r)
    /\ UNCHANGED storeVars

\* Mutant: the catch logs the failed send and answers, without marking.
CreateSendRejected_OnlyLog(r) ==
    /\ reqs[r].pc = "send"
    /\ Answer(r)
    /\ Fault("send")
    /\ UNCHANGED <<sims, results, used, past, scars, queue>>

\* SQS refused the message, or accepted it and the answer was lost.
CreateSendRejected(r) ==
    /\ reqs[r].pc = "send"
    /\ \/ Fault("send") /\ UNCHANGED <<queue, scars>>
       \/ /\ Fault("sendLost")
          /\ Enqueue(reqs[r].sim)
          /\ Scar(reqs[r].sim, {"sendLost"})
    /\ Goto(r, "mark")
    /\ UNCHANGED <<sims, results, used, past>>

CreateMark(r) ==
    /\ reqs[r].pc = "mark"
    /\ SetStatus(reqs[r].sim, "failed")
    /\ Answer(r)
    /\ UNCHANGED <<results, used, past, scars, faults, queue>>

-----------------------------------------------------------------------------
(* POST /simulation/import: the item is put as completed before its rows.  *)

\* Mutant: the handler answers without awaiting putResults.
ImportPut_NoRows(r, u, s) ==
    /\ reqs[r].pc = "idle"
    /\ PutItem(s, ImportedItem(u))
    /\ UNCHANGED <<results, scars, faults, queue, reqs>>

ImportPut(r, u, s) ==
    /\ reqs[r].pc = "idle"
    /\ PutItem(s, ImportedItem(u))
    /\ Await(r, "rows", s, u, Rows)
    /\ UNCHANGED <<results, scars, faults, queue>>

ImportPutLost(r, u, s) ==
    /\ reqs[r].pc = "idle"
    /\ PutItem(s, ImportedItem(u))
    /\ Scar(s, {"torn"})
    /\ Fault("reject")
    /\ UNCHANGED <<results, queue, reqs>>

\* One round of putResults; the handler answers 201 after the last one.
ImportRows(r) ==
    /\ reqs[r].pc = "rows"
    /\ \E round \in Rounds(reqs[r].todo) :
         LET left == After(reqs[r].todo, round) IN
           /\ PutRows(reqs[r].sim, round)
           /\ reqs' = [reqs EXCEPT
                         ![r] = IF left = {} THEN Idle ELSE [@ EXCEPT !.todo = left]]
    /\ UNCHANGED <<sims, used, queue>>

-----------------------------------------------------------------------------
(* POST /simulation/cancel/:simulationId                                   *)

\* getSimulationById and the three checks that follow it.  A lagging read
\* finds pending the item that a create put, whatever has happened since.
CancelRead(r, u, s) ==
    /\ reqs[r].pc = "idle"
    /\ past[s].item.owner = u
    /\ past[s].item.status \in InFlight
    /\ Await(r, "cancel", s, u, {})
    /\ UNCHANGED <<storeVars, queue>>

\* Mutant: the update relies on the status read before the await.
CancelWrite_Unconditional(r) ==
    /\ reqs[r].pc = "cancel"
    /\ SetStatus(reqs[r].sim, "cancelled")
    /\ Answer(r)
    /\ UNCHANGED <<results, used, past, scars, faults, queue>>

\* The conditional update; when the condition fails (409) nothing changes.
CancelWrite(r) ==
    /\ reqs[r].pc = "cancel"
    /\ IF sims[reqs[r].sim].status \in InFlight
         THEN SetStatus(reqs[r].sim, "cancelled")
         ELSE UNCHANGED sims
    /\ Answer(r)
    /\ UNCHANGED <<results, used, past, scars, faults, queue>>

-----------------------------------------------------------------------------
(* DELETE /simulation/delete/:simulationId and the admin's DELETE          *)
(* /admin/simulations/:id, which differ in the ownership check only.  The  *)
(* admin's request carries NoUser.  A lagging read finds an item that has  *)
(* been removed; one that an upsert has left there is no user's.           *)

\* Mutant: any logged-in user may delete.
DeleteRead_AnyUser(r, u, s) ==
    /\ reqs[r].pc = "idle"
    /\ s \in used
    /\ Await(r, "query", s, u, {})
    /\ UNCHANGED <<storeVars, queue>>

DeleteRead(r, u, s) ==
    /\ reqs[r].pc = "idle"
    /\ past[s].item.owner = u
    /\ Await(r, "query", s, u, {})
    /\ UNCHANGED <<storeVars, queue>>

AdminDeleteRead(r, s) ==
    /\ reqs[r].pc = "idle"
    /\ s \in used
    /\ Await(r, "query", s, NoUser, {})
    /\ UNCHANGED <<storeVars, queue>>

\* Mutant: the pages of the listing overwrite each other.
DeleteQuery_LastPage(r, page) ==
    LET s == reqs[r].sim IN
    /\ reqs[r].pc = "query"
    /\ \E keys \in SUBSET (page \cap past[s].rows) :
         /\ reqs' = [reqs EXCEPT
                       ![r].todo = keys,
                       ![r].ahead = @ \ page,
                       ![r].pc = IF page # reqs[r].ahead THEN "query"
                                 ELSE IF keys = {} THEN "drop" ELSE "erase"]
         /\ Scar(s, {"erasing"} \cup
                       {k \in {"missed"} : ~(page \cap results[s] \subseteq keys)})
    /\ UNCHANGED <<sims, results, used, past, faults, queue>>

\* One query of deleteResults passes over the keys of a page and returns some
\* that are there, or have been.  With the last key passed the listing ends,
\* and if it is empty there is nothing to erase.
DeleteQuery(r, page) ==
    LET s == reqs[r].sim IN
    /\ reqs[r].pc = "query"
    /\ \E keys \in SUBSET (page \cap past[s].rows) :
         LET listed == reqs[r].todo \cup keys IN
           /\ reqs' = [reqs EXCEPT
                         ![r].todo = listed,
                         ![r].ahead = @ \ page,
                         ![r].pc = IF page # reqs[r].ahead THEN "query"
                                   ELSE IF listed = {} THEN "drop" ELSE "erase"]
           /\ Scar(s, {"erasing"} \cup
                         {k \in {"missed"} : ~(page \cap results[s] \subseteq keys)})
    /\ UNCHANGED <<sims, results, used, past, faults, queue>>

DeleteErase(r) ==
    /\ reqs[r].pc = "erase"
    /\ \E round \in Rounds(reqs[r].todo) :
         LET left == After(reqs[r].todo, round) IN
           /\ EraseRows(reqs[r].sim, round)
           /\ Await(r, IF left = {} THEN "drop" ELSE "erase",
                    reqs[r].sim, reqs[r].user, left)
    /\ UNCHANGED <<sims, used, past, queue>>

DeleteDrop(r) ==
    /\ reqs[r].pc = "drop"
    /\ DeleteItem(reqs[r].sim)
    /\ Answer(r)
    /\ UNCHANGED <<results, used, past, scars, faults, queue>>

-----------------------------------------------------------------------------
(* Failures.                                                               *)

\* What the sudden end of some requests leaves half done.
CutShort(group) ==
    scars' = [s \in Sims |->
                scars[s]
                  \cup {k \in {"torn"} :
                         \E r \in group : reqs[r].pc = "rows" /\ reqs[r].sim = s}
                  \cup {k \in {"cutOff"} :
                         \E r \in group : /\ reqs[r].pc \in {"send", "mark"}
                                         /\ reqs[r].sim = s}]

\* The awaited call rejects and the request ends: in next(err) with an error
\* answer, or, for the mark, in the catch that logs and still answers 201.
CallRejected(r) ==
    /\ reqs[r].pc \in RequestPcs \ {"send"}
    /\ Fault("reject")
    /\ Answer(r)
    /\ CutShort({r})
    /\ UNCHANGED <<sims, results, used, past, queue>>

\* SIGTERM: process.exit(0) at once, with every request where it stands.
ServerExit ==
    /\ \E r \in Requests : reqs[r].pc # "idle"
    /\ Fault("exit")
    /\ reqs' = [r \in Requests |-> Idle]
    /\ CutShort(Requests)
    /\ UNCHANGED <<sims, results, used, past, queue>>

-----------------------------------------------------------------------------
\* The steps of a request that has been accepted.
RequestStep(r) ==
    \/ CreateSend(r)
    \/ CreateSendRejected(r)
    \/ CreateMark(r)
    \/ ImportRows(r)
    \/ CancelWrite(r)
    \/ \E page \in SUBSET reqs[r].ahead \ {{}} : DeleteQuery(r, page)
    \/ DeleteErase(r)
    \/ DeleteDrop(r)

RequestStart(r) ==
    \E s \in Sims :
        \/ \E u \in Users :
             \/ CreatePut(r, u, s)
             \/ CreatePutLost(r, u, s)
             \/ ImportPut(r, u, s)
             \/ ImportPutLost(r, u, s)
             \/ CancelRead(r, u, s)
             \/ DeleteRead(r, u, s)
        \/ AdminDeleteRead(r, s)

ApiNext ==
    \/ \E r \in Requests : RequestStart(r) \/ RequestStep(r) \/ CallRejected(r)
    \/ ServerExit
=============================================================================
