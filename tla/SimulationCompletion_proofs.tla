---------------------- MODULE SimulationCompletion_proofs ----------------------
(***************************************************************************)
(* Theorems of SimulationLifecycle about a visibility timeout longer than  *)
(* any run: what a completed simulation says, and that it stays completed. *)
(***************************************************************************)
EXTENDS SimulationLifecycle_proofs

LEMMA InitOnce == Init => OnceInv
BY DEF Init, StoreInit, QueueInit, ApiInit, WorkerInit, OnceInv, UnsentIsNew, Unsent,
       HandledOnce, NotRunAgain, CompletedIsWhole, Idle, Asleep, NoItem

\* What has happened to a simulation is never forgotten.
Remembered == \A s \in Sims : scars[s] \subseteq scars'[s]

LEMMA ScarsStay == TypeOK /\ [Next]_vars => Remembered
<1> SUFFICES ASSUME TypeOK, [Next]_vars PROVE Remembered
  OBVIOUS
<1> USE DEF TypeOK, StoreTypeOK, Scar, Remembered
<1>1. ASSUME NEW r \in Requests,
             RequestStart(r) \/ CallRejected(r) \/ CreateSendRejected(r)
      PROVE  Remembered
  BY <1>1 DEF RequestStart, CreatePut, CreatePutLost, ImportPut, ImportPutLost,
              CancelRead, DeleteRead, AdminDeleteRead, CallRejected, CutShort,
              CreateSendRejected, storeVars
<1>2. ASSUME NEW r \in Requests, NEW page \in SUBSET reqs[r].ahead, DeleteQuery(r, page)
      PROVE  Remembered
  BY <1>2, DeleteQueryMoves
<1>3. ASSUME NEW r \in Requests,
             CreateSend(r) \/ CreateMark(r) \/ CancelWrite(r) \/ DeleteDrop(r)
      PROVE  Remembered
  BY <1>3 DEF CreateSend, CreateMark, CancelWrite, DeleteDrop, storeVars
<1>4. ASSUME NEW r \in Requests, ImportRows(r)
      PROVE  Remembered
  <2>1. PICK round \in Rounds(reqs[r].todo) : PutRows(reqs[r].sim, round)
    BY <1>4 DEF ImportRows
  <2> QED
    BY <2>1 DEF PutRows
<1>5. ASSUME NEW r \in Requests, DeleteErase(r)
      PROVE  Remembered
  <2>1. PICK round \in Rounds(reqs[r].todo) : EraseRows(reqs[r].sim, round)
    BY <1>5 DEF DeleteErase
  <2> QED
    BY <2>1 DEF EraseRows
<1>6. CASE ServerExit \/ UNCHANGED vars
  BY <1>6 DEF ServerExit, CutShort, vars
<1>7. ASSUME NEW w \in Workers, SaveRows(w)
      PROVE  Remembered
  <2>1. PICK round \in Rounds(workers[w].todo) : PutRows(workers[w].sim, round)
    BY <1>7 DEF SaveRows
  <2> QED
    BY <2>1 DEF PutRows
<1>8. ASSUME WorkerNext, \A w \in Workers : ~SaveRows(w)
      PROVE  scars' = scars
  BY <1>8 DEF WorkerNext, WorkerStep, Check, Claim, RunDone, RunFails, RunAbandoned,
              Flip, Ack, Report, WorkerCrash, Receive, Reappear, storeVars
<1> QED
  BY <1>1, <1>2, <1>3, <1>4, <1>5, <1>6, <1>7, <1>8
  DEF Next, AtRest, ApiNext, RequestStep

\* A request that has not moved is unsent only if it was.
LEMMA UnsentStays ==
    ASSUME TypeOK, Remembered, NEW r \in Requests, reqs'[r] = reqs[r], Unsent(r)'
    PROVE  Unsent(r)
BY DEF TypeOK, ApiTypeOK, Remembered, Unsent, Request, Idle

(***************************************************************************)
(* Requests.                                                               *)
(***************************************************************************)
\* A new identifier is nobody's yet.
LEMMA PutsKeepOnce ==
    ASSUME TypeOK, DrawnFirst, OnceInv, Remembered, UNCHANGED workers,
           NEW r \in Requests, NEW u \in Users, NEW s \in Sims,
           \/ CreatePut(r, u, s) \/ CreatePutLost(r, u, s)
           \/ ImportPut(r, u, s) \/ ImportPutLost(r, u, s)
    PROVE  OnceInv'
<1> USE ApiAssumption
    DEF TypeOK, StoreTypeOK, ApiTypeOK, WorkerTypeOK, OnceInv, DrawnFirst
<1>1. /\ s \notin used
      /\ \E item \in {NewItem(u), ImportedItem(u)} : sims' = [sims EXCEPT ![s] = item]
      /\ UNCHANGED queue
  BY DEF CreatePut, CreatePutLost, ImportPut, ImportPutLost, PutItem
<1>2. /\ \A q \in Requests \ {r} : reqs'[q] = reqs[q]
      /\ ~Unsent(r)
      /\ Unsent(r)' => reqs'[r].sim = s /\ sims'[s].status = "pending"
  BY DEF CreatePut, CreatePutLost, ImportPut, ImportPutLost, PutItem, Await,
         Unsent, NewItem, ImportedItem
<1>3. /\ \A w \in Workers : workers[w].sim # s
      /\ \A q \in Requests : Unsent(q) => reqs[q].sim # s
      /\ queue[s] = "absent"
  BY <1>1 DEF Unsent, Job, WorkerPcs, Asleep
<1>3a. \A q \in Requests \ {r} : Unsent(q)' => Unsent(q)
  BY <1>2, UnsentStays
<1>3b. \A q \in Requests : Unsent(q) => reqs[q].sim \in Sims
  BY DEF Unsent, Request, Idle
<1>4. UnsentIsNew'
  BY <1>1, <1>2, <1>3, <1>3a, <1>3b DEF UnsentIsNew, NewItem
<1>5. HandledOnce'
  BY <1>1 DEF HandledOnce
<1>6. NotRunAgain'
  BY <1>1, <1>3 DEF NotRunAgain
<1>7. CompletedIsWhole'
  BY <1>1 DEF CompletedIsWhole, NewItem, ImportedItem
<1> QED
  BY <1>4, <1>5, <1>6, <1>7

\* Steps of requests that leave items and messages alone, and make no request
\* wait for its message to be sent that did not before.
LEMMA QuietKeepsOnce ==
    ASSUME TypeOK, OnceInv, UNCHANGED <<sims, queue, workers>>,
           \A r \in Requests :
               Unsent(r)' => Unsent(r) /\ reqs'[r].sim = reqs[r].sim
    PROVE  OnceInv'
BY DEF OnceInv, UnsentIsNew, HandledOnce, NotRunAgain, CompletedIsWhole

LEMMA AnswersAreQuiet ==
    ASSUME TypeOK, Remembered, UNCHANGED workers,
           \/ ServerExit
           \/ \E r \in Requests :
                \/ ImportRows(r) \/ DeleteErase(r) \/ CallRejected(r)
                \/ \E page \in SUBSET reqs[r].ahead : DeleteQuery(r, page)
                \/ \E s \in Sims :
                     \/ AdminDeleteRead(r, s)
                     \/ \E u \in Users : CancelRead(r, u, s) \/ DeleteRead(r, u, s)
    PROVE  /\ UNCHANGED <<sims, queue, workers>>
           /\ \A r \in Requests :
                  Unsent(r)' => Unsent(r) /\ reqs'[r].sim = reqs[r].sim
<1> USE DEF TypeOK, ApiTypeOK, Unsent, Idle, Answer, Await, storeVars
<1>1. CASE ServerExit
  BY <1>1 DEF ServerExit
<1>2. ASSUME NEW r \in Requests,
             \/ DeleteErase(r) \/ CallRejected(r)
             \/ \E s \in Sims :
                  \/ AdminDeleteRead(r, s)
                  \/ \E u \in Users : CancelRead(r, u, s) \/ DeleteRead(r, u, s)
      PROVE  /\ UNCHANGED <<sims, queue, workers>>
             /\ \A q \in Requests :
                    Unsent(q)' => Unsent(q) /\ reqs'[q].sim = reqs[q].sim
  <2>1. /\ UNCHANGED <<sims, queue>>
        /\ \A q \in Requests \ {r} : reqs'[q] = reqs[q]
        /\ reqs'[r].pc \notin {"send", "mark"}
    BY <1>2 DEF DeleteErase, CallRejected, AdminDeleteRead, CancelRead, DeleteRead
  <2> QED
    BY <2>1, UnsentStays
<1>2a. ASSUME NEW r \in Requests, NEW page \in SUBSET reqs[r].ahead, DeleteQuery(r, page)
       PROVE  /\ UNCHANGED <<sims, queue, workers>>
              /\ \A q \in Requests :
                     Unsent(q)' => Unsent(q) /\ reqs'[q].sim = reqs[q].sim
  <2>1. /\ UNCHANGED <<sims, queue>>
        /\ \A q \in Requests \ {r} : reqs'[q] = reqs[q]
        /\ reqs'[r].pc \notin {"send", "mark"}
    BY <1>2a, DeleteQueryMoves
  <2> QED
    BY <2>1, UnsentStays
<1>3. ASSUME NEW r \in Requests, ImportRows(r)
      PROVE  /\ UNCHANGED <<sims, queue, workers>>
             /\ \A q \in Requests :
                    Unsent(q)' => Unsent(q) /\ reqs'[q].sim = reqs[q].sim
  <2>1. reqs[r] \in Request /\ reqs[r].pc = "rows"
    BY <1>3 DEF ImportRows
  <2>2. /\ \A q \in Requests \ {r} : reqs'[q] = reqs[q]
        /\ reqs'[r].pc \in {"idle", "rows"}
    BY <1>3, <2>1 DEF ImportRows, Request
  <2> QED
    BY <1>3, <2>2, UnsentStays DEF ImportRows
<1> QED
  BY <1>1, <1>2, <1>2a, <1>3

\* Sending the message, or failing to.
LEMMA SendsKeepOnce ==
    ASSUME TypeOK, OnceInv, Remembered, UNCHANGED workers, NEW r \in Requests,
           CreateSend(r) \/ CreateSendRejected(r)
    PROVE  OnceInv'
<1> USE DEF TypeOK, QueueTypeOK, ApiTypeOK, WorkerTypeOK, OnceInv
<1> DEFINE s == reqs[r].sim
<1>1. /\ Unsent(r)
      /\ reqs[r] \in Request
      /\ s \in Sims
      /\ UNCHANGED sims
  BY DEF CreateSend, CreateSendRejected, Unsent, Request, Idle, storeVars
<1>2. \A w \in Workers : workers[w].sim # s
  BY <1>1 DEF UnsentIsNew
<1>3. \/ /\ UNCHANGED queue
         /\ Unsent(r)' => reqs'[r].sim = s
      \/ queue' = [queue EXCEPT ![s] = "visible"] /\ ~Unsent(r)'
  <2>1. CASE CreateSend(r)
    BY <1>1, <2>1 DEF CreateSend, Enqueue, Answer, Unsent, Idle
  <2>2. CASE CreateSendRejected(r)
    <3>1. reqs'[r].sim = s /\ reqs'[r].pc = "mark"
      BY <1>1, <2>2 DEF CreateSendRejected, Goto, Request
    <3>2. \/ UNCHANGED queue
          \/ /\ queue' = [queue EXCEPT ![s] = "visible"]
             /\ "sendLost" \in scars'[s]
      BY <1>1, <2>2 DEF CreateSendRejected, Enqueue, Scar, StoreTypeOK
    <3> QED
      BY <3>1, <3>2 DEF Unsent
  <2> QED
    BY <2>1, <2>2
<1>4. \A q \in Requests \ {r} : reqs'[q] = reqs[q]
  BY DEF CreateSend, CreateSendRejected, Answer, Goto
<1>5. \A q \in Requests \ {r} :
         Unsent(q)' => Unsent(q) /\ reqs[q].sim \in Sims \ {s}
  BY <1>1, <1>4, UnsentStays DEF UnsentIsNew, Unsent, Request, Idle
<1> HIDE DEF s
<1>6. UnsentIsNew'
  BY <1>1, <1>2, <1>3, <1>4, <1>5 DEF UnsentIsNew, s
<1>7. HandledOnce'
  BY <1>1, <1>2, <1>3 DEF HandledOnce, Job, Asleep
<1>8. NotRunAgain' /\ CompletedIsWhole'
  BY <1>1 DEF NotRunAgain, CompletedIsWhole
<1> QED
  BY <1>6, <1>7, <1>8

\* Writes that leave the item of one simulation not completed.
LEMMA UncompletedKeepsOnce ==
    ASSUME TypeOK, OnceInv, UNCHANGED <<queue, workers>>, NEW s \in Sims,
           \A t \in Sims \ {s} : sims'[t] = sims[t],
           sims'[s] = sims[s] \/ sims'[s].status # "completed",
           \A r \in Requests :
               Unsent(r)' => Unsent(r) /\ reqs'[r].sim = reqs[r].sim
    PROVE  OnceInv'
<1> USE DEF TypeOK, StoreTypeOK, ApiTypeOK, WorkerTypeOK, OnceInv
<1>1. UnsentIsNew'
  BY DEF UnsentIsNew, Unsent, Request, Idle
<1>2. HandledOnce'
  BY DEF HandledOnce
<1>3. NotRunAgain'
  BY DEF NotRunAgain, Job, Asleep
<1>4. CompletedIsWhole'
  BY DEF CompletedIsWhole
<1> QED
  BY <1>1, <1>2, <1>3, <1>4

LEMMA WritesKeepOnce ==
    ASSUME TypeOK, OnceInv, Remembered, UNCHANGED workers, NEW r \in Requests,
           CreateMark(r) \/ CancelWrite(r) \/ DeleteDrop(r)
    PROVE  OnceInv'
<1> USE DEF TypeOK, StoreTypeOK, ApiTypeOK
<1>1. reqs[r].sim \in Sims
  BY DEF CreateMark, CancelWrite, DeleteDrop, Request, Idle
<1>2. /\ UNCHANGED <<queue, workers>>
      /\ \A q \in Requests : Unsent(q)' => Unsent(q) /\ reqs'[q].sim = reqs[q].sim
  <2>1. /\ UNCHANGED queue
        /\ \A q \in Requests \ {r} : reqs'[q] = reqs[q]
        /\ reqs'[r].pc = "idle"
    BY DEF CreateMark, CancelWrite, DeleteDrop, Answer, Idle
  <2>2. ~Unsent(r)'
    BY <2>1 DEF Unsent
  <2> QED
    BY <2>1, <2>2, UnsentStays
<1>3. /\ \A t \in Sims \ {reqs[r].sim} : sims'[t] = sims[t]
      /\ \/ sims'[reqs[r].sim] = sims[reqs[r].sim]
         \/ sims'[reqs[r].sim].status # "completed"
  BY <1>1 DEF CreateMark, CancelWrite, DeleteDrop, SetStatus, DeleteItem, NoItem, Item
<1> QED
  BY <1>1, <1>2, <1>3, UncompletedKeepsOnce

LEMMA ApiKeepsOnce ==
    ASSUME TypeOK, DrawnFirst, OnceInv, Remembered, ApiNext, UNCHANGED workers
    PROVE  OnceInv'
BY PutsKeepOnce, QuietKeepsOnce, AnswersAreQuiet, SendsKeepOnce, WritesKeepOnce
DEF ApiNext, RequestStart, RequestStep

(***************************************************************************)
(* Workers.                                                                *)
(***************************************************************************)
\* A step of the worker that handles simulation s: it touches nothing else,
\* and completes s only as the last thing it does.
LEMMA TurnKeepsOnce ==
    ASSUME TypeOK, OnceInv, Remembered, UNCHANGED reqs,
           NEW w \in Workers, NEW s \in Sims,
           workers[w].pc # "asleep", workers[w].sim = s,
           \A v \in Workers \ {w} : workers'[v] = workers[v],
           \A t \in Sims \ {s} : sims'[t] = sims[t] /\ queue'[t] = queue[t],
           \/ workers'[w] = Asleep
           \/ workers'[w].sim = s /\ queue'[s] = queue[s],
           \/ sims'[s].status # "completed"
           \/ VisibilityCoversRun =>
                /\ sims'[s].completedModels = TotalModels
                /\ workers'[w].pc \notin {"claim", "run", "save", "flip"}
    PROVE  OnceInv'
<1> USE ApiAssumption
    DEF TypeOK, StoreTypeOK, QueueTypeOK, ApiTypeOK, WorkerTypeOK, OnceInv
<1>1. \A r \in Requests : Unsent(r) => reqs[r].sim \in Sims \ {s}
  BY DEF UnsentIsNew, Unsent, Request, Idle
<1>1a. \A r \in Requests : Unsent(r)' => Unsent(r)
  BY UnsentStays
<1>2. UnsentIsNew'
  BY <1>1, <1>1a DEF UnsentIsNew, Asleep
<1>3. ASSUME VisibilityCoversRun, NEW v \in Workers \ {w}, workers[v].pc # "asleep"
      PROVE  workers[v].sim \in Sims \ {s}
  BY <1>3 DEF HandledOnce, Job, Asleep
<1>4. HandledOnce'
  BY <1>3 DEF HandledOnce, Asleep
<1>5. NotRunAgain'
  BY <1>3 DEF NotRunAgain, Asleep
<1>6. CompletedIsWhole'
  BY DEF CompletedIsWhole
<1> QED
  BY <1>2, <1>4, <1>5, <1>6

LEMMA ReceiveKeepsOnce ==
    ASSUME TypeOK, OnceInv, Remembered, NEW w \in Workers, NEW s \in Sims,
           Receive(w, s)
    PROVE  OnceInv'
<1> USE DEF TypeOK, QueueTypeOK, ApiTypeOK, WorkerTypeOK, OnceInv
<1>1. /\ queue[s] = "visible"
      /\ queue' = [queue EXCEPT ![s] = "hidden"]
      /\ workers' = [workers EXCEPT ![w] = [pc |-> "check", sim |-> s, todo |-> {}]]
      /\ UNCHANGED <<sims, reqs>>
  BY DEF Receive, TakeMessage, storeVars
<1>2. \A r \in Requests : Unsent(r) => reqs[r].sim \in Sims \ {s}
  BY <1>1 DEF UnsentIsNew, Unsent, Request, Idle
<1>2a. \A r \in Requests : Unsent(r)' => Unsent(r)
  BY <1>1, UnsentStays
<1>3. UnsentIsNew'
  BY <1>1, <1>2, <1>2a DEF UnsentIsNew
<1>4. ASSUME VisibilityCoversRun, NEW v \in Workers, workers[v].pc # "asleep"
      PROVE  workers[v].sim \in Sims \ {s}
  BY <1>1, <1>4 DEF HandledOnce, Job, Asleep
<1>5. ASSUME NEW v \in Workers, workers[v].pc = "asleep"
      PROVE  workers[v].sim # s
  BY <1>5, ApiAssumption DEF Job, WorkerPcs, Asleep
<1>6. HandledOnce'
  BY <1>1, <1>4, <1>5 DEF HandledOnce
<1>7. NotRunAgain' /\ CompletedIsWhole'
  BY <1>1 DEF NotRunAgain, CompletedIsWhole
<1> QED
  BY <1>3, <1>6, <1>7

LEMMA ReappearKeepsOnce ==
    ASSUME TypeOK, OnceInv, Remembered, NEW s \in Sims, Reappear(s)
    PROVE  OnceInv'
<1> USE DEF TypeOK, QueueTypeOK, ApiTypeOK, WorkerTypeOK, OnceInv
<1>1. /\ queue[s] = "hidden"
      /\ queue' = [queue EXCEPT ![s] = "visible"]
      /\ UNCHANGED <<sims, reqs, workers>>
  BY DEF Reappear, VisibilityExpires, storeVars
<1>2. \A r \in Requests : Unsent(r) => reqs[r].sim \in Sims \ {s}
  BY <1>1 DEF UnsentIsNew, Unsent, Request, Idle
<1>2a. \A r \in Requests : Unsent(r)' => Unsent(r)
  BY <1>1, UnsentStays
<1>3. UnsentIsNew'
  BY <1>1, <1>2, <1>2a DEF UnsentIsNew
<1>4. ASSUME VisibilityCoversRun, NEW v \in Workers, workers[v].pc # "asleep"
      PROVE  workers[v].sim \in Sims \ {s}
  BY <1>4 DEF Reappear, Handling, Job, Asleep
<1>5. HandledOnce'
  BY <1>1, <1>4 DEF HandledOnce
<1>6. NotRunAgain' /\ CompletedIsWhole'
  BY <1>1 DEF NotRunAgain, CompletedIsWhole
<1> QED
  BY <1>3, <1>5, <1>6

LEMMA WorkerKeepsOnce ==
    ASSUME TypeOK, OnceInv, Remembered, WorkerNext
    PROVE  OnceInv'
<1> USE DEF TypeOK, StoreTypeOK, QueueTypeOK, WorkerTypeOK
<1>1. ASSUME NEW w \in Workers,
             WorkerStep(w) \/ Report(w) \/ WorkerCrash(w)
      PROVE  OnceInv'
  <2> DEFINE s == workers[w].sim
  <2>1. /\ workers[w].pc # "asleep"
        /\ workers[w] \in Job
        /\ s \in Sims
        /\ UNCHANGED reqs
        /\ \A v \in Workers \ {w} : workers'[v] = workers[v]
    BY <1>1 DEF WorkerStep, Check, Claim, RunDone, RunFails, RunAbandoned,
                SaveRows, Flip, Ack, Report, WorkerCrash, Turn, Sleep, Job, Asleep
  <2>2. \A t \in Sims \ {s} : sims'[t] = sims[t] /\ queue'[t] = queue[t]
    BY <1>1 DEF WorkerStep, Check, Claim, RunDone, RunFails, RunAbandoned,
                SaveRows, Flip, Ack, Report, WorkerCrash, SetStatus, UpdateProgress,
                CompleteItem, DeleteMessage, storeVars
  <2>3. \/ workers'[w] = Asleep
        \/ workers'[w].sim = s /\ queue'[s] = queue[s]
    <3>1. CASE Ack(w) \/ WorkerCrash(w)
      BY <3>1 DEF Ack, WorkerCrash, Sleep
    <3>2. CASE WorkerStep(w) /\ ~Ack(w)
      BY <3>2 DEF WorkerStep, Check, Claim, RunDone, RunFails, RunAbandoned,
                  SaveRows, Flip, Turn, storeVars
    <3>3. CASE Report(w)
      BY <3>3 DEF Report
    <3> QED
      BY <1>1, <3>1, <3>2, <3>3 DEF WorkerStep
  <2>4. \/ sims'[s].status # "completed"
        \/ VisibilityCoversRun =>
              /\ sims'[s].completedModels = TotalModels
              /\ workers'[w].pc \notin {"claim", "run", "save", "flip"}
    <3> USE DEF OnceInv
    <3>1. CASE Check(w)
      BY <2>1, <3>1 DEF Check, Turn, InFlight, CompletedIsWhole, storeVars
    <3>2. CASE Claim(w) \/ RunFails(w)
      BY <2>1, <3>2 DEF Claim, RunFails, SetStatus, Item
    <3>3. CASE RunDone(w) \/ SaveRows(w)
      BY <2>1, <3>3 DEF RunDone, SaveRows, NotRunAgain, storeVars
    <3>4. CASE RunAbandoned(w)
      BY <2>1, <3>4 DEF RunAbandoned, storeVars
    <3>5. CASE Flip(w)
      BY <2>1, <3>5 DEF Flip, CompleteItem, Turn
    <3>6. CASE Ack(w) \/ WorkerCrash(w)
      BY <2>1, <3>6 DEF Ack, WorkerCrash, Sleep, Asleep, CompletedIsWhole, storeVars
    <3>7. CASE Report(w)
      BY <2>1, <3>7 DEF Report, UpdateProgress, NotRunAgain
    <3> QED
      BY <1>1, <3>1, <3>2, <3>3, <3>4, <3>5, <3>6, <3>7 DEF WorkerStep
  <2> HIDE DEF s
  <2> QED
    BY <2>1, <2>2, <2>3, <2>4, TurnKeepsOnce DEF s
<1> QED
  BY <1>1, ReceiveKeepsOnce, ReappearKeepsOnce DEF WorkerNext

LEMMA NextOnce == TypeOK /\ DrawnFirst /\ OnceInv /\ [Next]_vars => OnceInv'
<1> SUFFICES ASSUME TypeOK, DrawnFirst, OnceInv, [Next]_vars PROVE OnceInv'
  OBVIOUS
<1>0. Remembered
  BY ScarsStay
<1>1. CASE UNCHANGED vars
  BY <1>1 DEF vars, OnceInv, UnsentIsNew, Unsent, HandledOnce, NotRunAgain,
              CompletedIsWhole
<1> QED
  BY <1>0, <1>1, ApiKeepsOnce, WorkerKeepsOnce DEF Next, AtRest

LEMMA OnceInvariance == Spec => []OnceInv
<1>1. TypeOK /\ IInv /\ OnceInv /\ [Next]_vars => OnceInv'
  BY NextOnce DEF IInv
<1> QED
  BY <1>1, InitOnce, TypeCorrect, Invariance, PTL DEF Spec

-----------------------------------------------------------------------------
(***************************************************************************)
(* With a visibility timeout longer than any run, a completed simulation   *)
(* reports all its models done, for every number of requests, workers and  *)
(* failures of any kind.                                                   *)
(***************************************************************************)
THEOREM WholeTheorem == Spec => []CompletedIsWhole
<1>1. OnceInv => CompletedIsWhole
  BY DEF OnceInv
<1> QED
  BY <1>1, OnceInvariance, PTL

\* A completed simulation is written by the requests that remove it only: the
\* one that creates it, and a worker that runs it, do so before.
LEMMA StaysCompleted ==
    ASSUME TypeOK, DrawnFirst, OnceInv, VisibilityCoversRun, [Next]_vars,
           NEW s \in Sims, sims[s].status = "completed", "sendLost" \notin scars[s]
    PROVE  sims'[s].status \in {"completed", "absent"}
<1> USE DEF TypeOK, StoreTypeOK, ApiTypeOK, WorkerTypeOK
<1>1. ASSUME NEW r \in Requests, RequestStart(r)
      PROVE  sims'[s] = sims[s]
  BY <1>1 DEF RequestStart, CreatePut, CreatePutLost, ImportPut, ImportPutLost,
              CancelRead, DeleteRead, AdminDeleteRead, PutItem, DrawnFirst, NoItem,
              storeVars
<1>2. ASSUME NEW r \in Requests, CreateMark(r)
      PROVE  sims'[s] = sims[s]
  BY <1>2 DEF CreateMark, SetStatus, OnceInv, UnsentIsNew, Unsent
<1>3. ASSUME NEW r \in Requests, CancelWrite(r)
      PROVE  sims'[s] = sims[s]
  BY <1>3 DEF CancelWrite, SetStatus, InFlight
<1>4. ASSUME NEW r \in Requests, DeleteDrop(r)
      PROVE  sims'[s] = sims[s] \/ sims'[s].status = "absent"
  BY <1>4 DEF DeleteDrop, DeleteItem, NoItem
<1>5. ASSUME NEW r \in Requests,
             \/ CreateSend(r) \/ CreateSendRejected(r) \/ ImportRows(r)
             \/ \E page \in SUBSET reqs[r].ahead : DeleteQuery(r, page)
             \/ DeleteErase(r) \/ CallRejected(r)
      PROVE  sims'[s] = sims[s]
  BY <1>5 DEF CreateSend, CreateSendRejected, ImportRows, DeleteQuery, DeleteErase,
              CallRejected, storeVars
<1>6. ASSUME NEW w \in Workers, Claim(w) \/ RunFails(w) \/ Report(w)
      PROVE  sims'[s] = sims[s]
  BY <1>6 DEF Claim, RunFails, Report, SetStatus, UpdateProgress, OnceInv, NotRunAgain
<1>7. ASSUME NEW w \in Workers, Flip(w)
      PROVE  sims'[s].status = "completed"
  BY <1>7 DEF Flip, CompleteItem
<1>8. ASSUME NEW w \in Workers,
             \/ Check(w) \/ RunDone(w) \/ RunAbandoned(w) \/ SaveRows(w)
             \/ Ack(w) \/ WorkerCrash(w) \/ \E t \in Sims : Receive(w, t)
      PROVE  sims'[s] = sims[s]
  BY <1>8 DEF Check, RunDone, RunAbandoned, SaveRows, Ack, WorkerCrash, Receive,
              storeVars
<1>9. CASE ServerExit \/ (\E t \in Sims : Reappear(t)) \/ UNCHANGED vars
  BY <1>9 DEF ServerExit, Reappear, storeVars, vars
<1>10. CASE ApiNext
  BY <1>1, <1>2, <1>3, <1>4, <1>5, <1>9, <1>10 DEF ApiNext, RequestStep
<1>11. CASE WorkerNext
  BY <1>6, <1>7, <1>8, <1>9, <1>11 DEF WorkerNext, WorkerStep
<1> QED
  BY <1>9, <1>10, <1>11 DEF Next, AtRest

(***************************************************************************)
(* With a visibility timeout longer than any run, and unless SQS accepted  *)
(* its message and the answer was lost, no cancel, failed send, redelivery *)
(* or late report changes the status of a completed simulation.            *)
(***************************************************************************)
THEOREM FinalTheorem == Spec => CompletedIsFinal
<1>1. TypeOK /\ IInv /\ OnceInv /\ [Next]_vars
        => [\A s \in Sims :
               /\ VisibilityCoversRun
               /\ sims[s].status = "completed"
               /\ "sendLost" \notin scars[s]
               => sims'[s].status \in {"completed", "absent"}]_vars
  BY StaysCompleted DEF IInv
<1> QED
  BY <1>1, TypeCorrect, Invariance, OnceInvariance, PTL DEF Spec, CompletedIsFinal

-----------------------------------------------------------------------------
(***************************************************************************)
(* Jobs and their messages.                                                *)
(***************************************************************************)
LEMMA InitSettled == Init => AckedIsSettled /\ InFlightIsBacked
BY DEF Init, StoreInit, WorkerInit, AckedIsSettled, InFlightIsBacked, Asleep,
       InFlight, NoItem

\* Requests bring no simulation back to pending or running: they put new ones,
\* and mark, cancel or drop those there are.
LEMMA ApiSettles ==
    ASSUME TypeOK, ApiNext, NEW s \in used
    PROVE  sims'[s] = sims[s] \/ sims'[s].status \notin InFlight
<1> USE DEF TypeOK, StoreTypeOK, ApiTypeOK, InFlight
<1>1. ASSUME NEW r \in Requests, RequestStart(r)
      PROVE  sims'[s] = sims[s]
  BY <1>1 DEF RequestStart, CreatePut, CreatePutLost, ImportPut, ImportPutLost,
              CancelRead, DeleteRead, AdminDeleteRead, PutItem, storeVars
<1>2. ASSUME NEW r \in Requests, CreateMark(r) \/ CancelWrite(r) \/ DeleteDrop(r)
      PROVE  sims'[s] = sims[s] \/ sims'[s].status \notin InFlight
  BY <1>2 DEF CreateMark, CancelWrite, DeleteDrop, SetStatus, DeleteItem, NoItem, Item
<1>3. ASSUME NEW r \in Requests,
             \/ CreateSend(r) \/ CreateSendRejected(r) \/ ImportRows(r)
             \/ \E page \in SUBSET reqs[r].ahead : DeleteQuery(r, page)
             \/ DeleteErase(r) \/ CallRejected(r)
      PROVE  sims'[s] = sims[s]
  BY <1>3 DEF CreateSend, CreateSendRejected, ImportRows, DeleteQuery, DeleteErase,
              CallRejected, storeVars
<1>4. CASE ServerExit
  BY <1>4 DEF ServerExit
<1> QED
  BY <1>1, <1>2, <1>3, <1>4 DEF ApiNext, RequestStep

\* A worker settles its simulation before it turns to the message, and writes
\* to no other simulation.
LEMMA WorkerSettles ==
    ASSUME TypeOK, NEW w \in Workers, WorkerStep(w) \/ Report(w) \/ WorkerCrash(w)
    PROVE  /\ workers[w].pc # "asleep"
           /\ \A t \in Sims \ {workers[w].sim} : sims'[t] = sims[t]
           /\ \A v \in Workers \ {w} : workers'[v] = workers[v]
           /\ workers'[w].pc = "ack" =>
                /\ workers'[w].sim = workers[w].sim
                /\ sims'[workers[w].sim].status \notin InFlight
<1> USE DEF TypeOK, StoreTypeOK, WorkerTypeOK, InFlight
<1>1. CASE Check(w)
  BY <1>1 DEF Check, Turn, storeVars
<1>2. CASE Claim(w) \/ RunFails(w)
  BY <1>2 DEF Claim, RunFails, SetStatus, Turn, Job, Asleep, Item
<1>3. CASE RunDone(w) \/ RunAbandoned(w)
  BY <1>3 DEF RunDone, RunAbandoned, Turn, storeVars
<1>4. CASE SaveRows(w)
  BY <1>4 DEF SaveRows, Turn
<1>5. CASE Flip(w)
  BY <1>5 DEF Flip, CompleteItem, Turn, Job, Asleep
<1>6. CASE Ack(w) \/ WorkerCrash(w)
  BY <1>6 DEF Ack, WorkerCrash, Sleep, Asleep, storeVars
<1>7. CASE Report(w)
  BY <1>7 DEF Report, UpdateProgress
<1> QED
  BY <1>1, <1>2, <1>3, <1>4, <1>5, <1>6, <1>7 DEF WorkerStep

LEMMA NextSettled ==
    TypeOK /\ DrawnFirst /\ OnceInv /\ AckedIsSettled /\ [Next]_vars => AckedIsSettled'
<1> SUFFICES ASSUME TypeOK, DrawnFirst, OnceInv, AckedIsSettled, [Next]_vars,
                    VisibilityCoversRun,
                    NEW v \in Workers, workers'[v].pc = "ack"
             PROVE  sims'[workers'[v].sim].status \notin InFlight
  BY DEF AckedIsSettled
<1> USE DEF TypeOK, WorkerTypeOK
<1>1. CASE ApiNext /\ UNCHANGED workers
  <2>1. workers[v].sim \in used /\ sims[workers[v].sim].status \notin InFlight
    BY <1>1 DEF DrawnFirst, AckedIsSettled
  <2> QED
    BY <1>1, <2>1, ApiSettles
<1>2. ASSUME NEW w \in Workers, WorkerStep(w) \/ Report(w) \/ WorkerCrash(w)
      PROVE  sims'[workers'[v].sim].status \notin InFlight
  <2>1. CASE v = w
    BY <1>2, <2>1, WorkerSettles
  <2>2. CASE v # w
    <3>1. /\ workers'[v] = workers[v]
          /\ workers[w].pc # "asleep"
          /\ sims[workers[v].sim].status \notin InFlight
      BY <1>2, <2>2, WorkerSettles DEF AckedIsSettled
    <3>2. workers[v].sim \in Sims \ {workers[w].sim}
      BY <2>2, <3>1 DEF OnceInv, HandledOnce, Job, Asleep
    <3> QED
      BY <1>2, <3>1, <3>2, WorkerSettles
  <2> QED
    BY <2>1, <2>2
<1>3. ASSUME NEW s \in Sims, Reappear(s) \/ \E w \in Workers : Receive(w, s)
      PROVE  sims'[workers'[v].sim].status \notin InFlight
  BY <1>3 DEF Reappear, Receive, AckedIsSettled, storeVars
<1>4. CASE UNCHANGED vars
  BY <1>4 DEF vars, AckedIsSettled
<1> QED
  BY <1>1, <1>2, <1>3, <1>4 DEF Next, AtRest, WorkerNext

LEMMA SettledInvariance == Spec => []AckedIsSettled
<1>1. TypeOK /\ IInv /\ OnceInv /\ AckedIsSettled /\ [Next]_vars => AckedIsSettled'
  BY NextSettled DEF IInv
<1> QED
  BY <1>1, InitSettled, TypeCorrect, Invariance, OnceInvariance, PTL DEF Spec

\* Only a worker that acknowledges takes a message away.
LEMMA MessagesStay ==
    ASSUME TypeOK, OnceInv, AckedIsSettled, [Next]_vars, VisibilityCoversRun,
           NEW s \in Sims, queue[s] # "absent", queue'[s] = "absent"
    PROVE  sims'[s].status \notin InFlight
<1> USE DEF TypeOK, QueueTypeOK, ApiTypeOK, WorkerTypeOK
<1>1. ~ApiNext /\ ~UNCHANGED vars
  <2>1. ASSUME NEW r \in Requests, RequestStart(r)
        PROVE  FALSE
    BY <2>1 DEF RequestStart, CreatePut, CreatePutLost, ImportPut, ImportPutLost,
                CancelRead, DeleteRead, AdminDeleteRead
  <2>2. ASSUME NEW r \in Requests, RequestStep(r) \/ CallRejected(r)
        PROVE  FALSE
    BY <2>2 DEF RequestStep, CreateSend, CreateSendRejected, CreateMark, ImportRows,
                CancelWrite, DeleteQuery, DeleteErase, DeleteDrop, CallRejected, Enqueue
  <2> QED
    BY <2>1, <2>2 DEF ApiNext, ServerExit, vars
<1>2. PICK w \in Workers : Ack(w)
  BY <1>1 DEF Next, AtRest, WorkerNext, WorkerStep, Check, Claim, RunDone, RunFails,
              RunAbandoned, SaveRows, Flip, Report, WorkerCrash, Receive, Reappear,
              TakeMessage, VisibilityExpires
<1>3. workers[w].sim = s /\ workers[w].pc = "ack" /\ sims' = sims
  BY <1>2 DEF Ack, DeleteMessage, storeVars
<1> QED
  BY <1>3 DEF AckedIsSettled

(***************************************************************************)
(* With a visibility timeout longer than any run, a job's message goes     *)
(* only when its simulation is settled or removed, whatever fails.         *)
(***************************************************************************)
THEOREM JobsTheorem == Spec => JobsLeaveSettled
<1>1. TypeOK /\ OnceInv /\ AckedIsSettled /\ [Next]_vars
        => [\A s \in Sims :
               VisibilityCoversRun /\ queue[s] # "absent" /\ queue'[s] = "absent" =>
                   sims'[s].status \notin InFlight]_vars
  BY MessagesStay
<1> QED
  BY <1>1, TypeCorrect, OnceInvariance, SettledInvariance, PTL
  DEF Spec, JobsLeaveSettled

\* A request that creates a simulation stands behind it until it has sent or
\* marked it; no other request brings one into flight.
LEMMA ApiKeepsBacked ==
    ASSUME TypeOK, ApiNext,
           NEW s \in Sims, sims'[s].status \in InFlight, "cutOff" \notin scars'[s],
           sims[s].status \in InFlight => Backed(s)
    PROVE  Backed(s)'
<1> USE DEF TypeOK, StoreTypeOK, QueueTypeOK, ApiTypeOK, InFlight, Idle, Fault
<1>1. ASSUME NEW r \in Requests, reqs[r].pc \notin {"send", "mark"},
             \A q \in Requests \ {r} : reqs'[q] = reqs[q],
             queue' = queue,
             \/ sims[s].status \in InFlight
             \/ reqs'[r].pc = "send" /\ reqs'[r].sim = s
      PROVE  Backed(s)'
  BY <1>1 DEF Backed
<1>2. ASSUME NEW r \in Requests, RequestStart(r)
      PROVE  Backed(s)'
  <2>1. /\ reqs[r].pc = "idle"
        /\ \A q \in Requests \ {r} : reqs'[q] = reqs[q]
        /\ queue' = queue
    BY <1>2 DEF RequestStart, CreatePut, CreatePutLost, ImportPut, ImportPutLost,
                CancelRead, DeleteRead, AdminDeleteRead, Await
  <2>2. \/ sims'[s] = sims[s]
        \/ reqs'[r].pc = "send" /\ reqs'[r].sim = s
    <3>1. ASSUME NEW u \in Users, NEW t \in Sims,
                 CreatePut(r, u, t) \/ CreatePutLost(r, u, t)
          PROVE  \/ sims'[s] = sims[s]
                 \/ reqs'[r].pc = "send" /\ reqs'[r].sim = s
      BY <3>1 DEF CreatePut, CreatePutLost, Await, PutItem, Scar
    <3>2. ASSUME NEW u \in Users, NEW t \in Sims,
                 ImportPut(r, u, t) \/ ImportPutLost(r, u, t)
          PROVE  sims'[s] = sims[s]
      BY <3>2 DEF ImportPut, ImportPutLost, PutItem, ImportedItem
    <3>3. ASSUME NEW t \in Sims,
                 \/ AdminDeleteRead(r, t)
                 \/ \E u \in Users : CancelRead(r, u, t) \/ DeleteRead(r, u, t)
          PROVE  sims'[s] = sims[s]
      BY <3>3 DEF CancelRead, DeleteRead, AdminDeleteRead, storeVars
    <3> QED
      BY <1>2, <3>1, <3>2, <3>3 DEF RequestStart
  <2> QED
    BY <1>1, <2>1, <2>2
<1>3. ASSUME NEW r \in Requests, CreateSend(r) \/ CreateSendRejected(r)
      PROVE  Backed(s)'
  <2>1. /\ sims' = sims
        /\ \A q \in Requests \ {r} : reqs'[q] = reqs[q]
        /\ queue[s] # "absent" => queue'[s] # "absent"
        /\ reqs[r].sim = s =>
             \/ queue'[s] # "absent"
             \/ reqs'[r].pc = "mark" /\ reqs'[r].sim = s
    BY <1>3 DEF CreateSend, CreateSendRejected, Enqueue, Answer, Goto, storeVars, Request
  <2> QED
    BY <2>1 DEF Backed
<1>4. ASSUME NEW r \in Requests, CreateMark(r)
      PROVE  Backed(s)'
  <2>1. reqs[r].sim # s /\ sims'[s] = sims[s]
    BY <1>4 DEF CreateMark, SetStatus, Item
  <2>2. /\ \A q \in Requests \ {r} : reqs'[q] = reqs[q]
        /\ queue' = queue
    BY <1>4 DEF CreateMark, Answer
  <2> QED
    BY <2>1, <2>2 DEF Backed
<1>5. ASSUME NEW r \in Requests,
             \/ ImportRows(r) \/ CancelWrite(r)
             \/ \E page \in SUBSET reqs[r].ahead : DeleteQuery(r, page)
             \/ DeleteErase(r) \/ DeleteDrop(r)
      PROVE  Backed(s)'
  <2>1. /\ reqs[r].pc \notin {"send", "mark"}
        /\ \A q \in Requests \ {r} : reqs'[q] = reqs[q]
        /\ queue' = queue
    BY <1>5 DEF ImportRows, CancelWrite, DeleteQuery, DeleteErase, DeleteDrop,
                Answer, Await
  <2>2. sims'[s] = sims[s]
    <3>1. CASE CancelWrite(r)
      <4>1. sims' = sims \/ SetStatus(reqs[r].sim, "cancelled")
        BY <3>1 DEF CancelWrite
      <4>2. ASSUME SetStatus(reqs[r].sim, "cancelled") PROVE sims'[s] = sims[s]
        <5>1. s # reqs[r].sim
          BY <4>2 DEF SetStatus, Item
        <5> QED
          BY <4>2, <5>1 DEF SetStatus
      <4> QED
        BY <4>1, <4>2
    <3>2. CASE DeleteDrop(r)
      BY <3>2 DEF DeleteDrop, DeleteItem, NoItem
    <3>3. CASE \/ ImportRows(r) \/ DeleteErase(r)
               \/ \E page \in SUBSET reqs[r].ahead : DeleteQuery(r, page)
      BY <3>3 DEF ImportRows, DeleteErase, DeleteQuery
    <3> QED
      BY <1>5, <3>1, <3>2, <3>3
  <2> QED
    BY <1>1, <2>1, <2>2
<1>6. ASSUME NEW r \in Requests, CallRejected(r)
      PROVE  Backed(s)'
  <2>1. reqs[r].pc = "mark" => reqs[r].sim # s
    BY <1>6 DEF CallRejected, CutShort
  <2>2. /\ \A q \in Requests \ {r} : reqs'[q] = reqs[q]
        /\ reqs[r].pc # "send"
        /\ UNCHANGED <<sims, queue>>
    BY <1>6 DEF CallRejected, Answer
  <2> QED
    BY <2>1, <2>2 DEF Backed
<1>7. CASE ServerExit
  <2>1. /\ \A r \in Requests : reqs[r].pc \in {"send", "mark"} => reqs[r].sim # s
        /\ UNCHANGED <<sims, queue>>
    BY <1>7 DEF ServerExit, CutShort
  <2> QED
    BY <2>1 DEF Backed
<1> QED
  BY <1>2, <1>3, <1>4, <1>5, <1>6, <1>7 DEF ApiNext, RequestStep

\* A worker claims the simulation of a message it has, and takes away the
\* message of a settled one only.
LEMMA WorkerKeepsBacked ==
    ASSUME TypeOK, OnceInv, AckedIsSettled, VisibilityCoversRun, WorkerNext,
           NEW s \in Sims, sims'[s].status \in InFlight,
           sims[s].status \in InFlight => Backed(s)
    PROVE  Backed(s)'
<1> USE DEF TypeOK, QueueTypeOK, WorkerTypeOK
<1>1. reqs' = reqs
  BY DEF WorkerNext, WorkerStep, Check, Claim, RunDone, RunFails, RunAbandoned,
         SaveRows, Flip, Ack, Report, WorkerCrash, Receive, Reappear
<1>2. queue'[s] # "absent" \/ queue'[s] = queue[s]
  <2>1. CASE queue[s] # "absent" /\ queue'[s] = "absent"
    BY <2>1, MessagesStay DEF Next
  <2> QED
    BY <2>1 DEF WorkerNext, WorkerStep, Check, Claim, RunDone, RunFails, RunAbandoned,
                SaveRows, Flip, Ack, Report, WorkerCrash, Receive, Reappear,
                TakeMessage, DeleteMessage, VisibilityExpires
<1>3. CASE sims'[s] = sims[s]
  BY <1>1, <1>2, <1>3 DEF Backed
<1>4. ASSUME sims'[s] # sims[s]
      PROVE  queue[s] # "absent"
  <2>1. PICK w \in Workers : WorkerStep(w) \/ Report(w) \/ WorkerCrash(w)
    BY <1>4 DEF WorkerNext, Receive, Reappear, storeVars
  <2>2. workers[w].pc # "asleep" /\ workers[w].sim = s
    BY <1>4, <2>1, WorkerSettles
  <2> QED
    BY <2>2 DEF OnceInv, HandledOnce
<1> QED
  BY <1>2, <1>3, <1>4 DEF Backed

LEMMA NextBacked ==
    TypeOK /\ OnceInv /\ AckedIsSettled /\ InFlightIsBacked /\ [Next]_vars
        => InFlightIsBacked'
<1> SUFFICES ASSUME TypeOK, OnceInv, AckedIsSettled, InFlightIsBacked, [Next]_vars,
                    VisibilityCoversRun, NEW s \in Sims,
                    sims'[s].status \in InFlight, "cutOff" \notin scars'[s]
             PROVE  Backed(s)'
  BY DEF InFlightIsBacked
<1>0. scars[s] \subseteq scars'[s]
  BY ScarsStay DEF Remembered
<1>1. sims[s].status \in InFlight => Backed(s)
  BY <1>0 DEF InFlightIsBacked
<1>2. CASE UNCHANGED vars
  BY <1>1, <1>2 DEF vars, Backed
<1> QED
  BY <1>1, <1>2, ApiKeepsBacked, WorkerKeepsBacked DEF Next, AtRest

(***************************************************************************)
(* With that timeout, every pending or running simulation whose create     *)
(* handler was not cut off has a message, or a request that is about to    *)
(* send or mark it: for every number of requests and workers, and whatever *)
(* other calls fail, processes exit, rows are given up or workers lost.    *)
(***************************************************************************)
THEOREM BackedTheorem == Spec => []InFlightIsBacked
BY InitSettled, NextBacked, TypeCorrect, OnceInvariance, SettledInvariance, PTL DEF Spec
================================================================================
