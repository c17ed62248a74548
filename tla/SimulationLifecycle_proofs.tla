---------------------- MODULE SimulationLifecycle_proofs ----------------------
(***************************************************************************)
(* Theorems of SimulationLifecycle, for every number of simulations,       *)
(* users, requests, workers, rows and failures of every kind.              *)
(***************************************************************************)
EXTENDS SimulationLifecycle, FiniteSetTheorems, TLAPS

LEMMA TotalModelsNat == TotalModels \in Nat
BY StoreAssumption, FS_CardinalityType DEF TotalModels

LEMMA ItemTypes ==
    /\ NoItem \in Item
    /\ \A u \in Users : NewItem(u) \in Item /\ ImportedItem(u) \in Item
BY TotalModelsNat DEF Item, NoItem, NewItem, ImportedItem, Statuses, InFlight, Terminal

LEMMA SetStatusType ==
    ASSUME sims \in [Sims -> Item], NEW s \in Sims, NEW status \in Statuses,
           SetStatus(s, status)
    PROVE  sims' \in [Sims -> Item]
BY DEF SetStatus, Item

LEMMA PutItemType ==
    ASSUME StoreTypeOK, NEW s \in Sims, NEW item \in Item, PutItem(s, item)
    PROVE  /\ sims' \in [Sims -> Item]
           /\ past' \in [Sims -> Past]
           /\ used' \in SUBSET Sims
BY DEF StoreTypeOK, PutItem, Past

\* A round of batchWrite keeps the result rows within the rows of a run,
\* and what is left to write within what was to be written.
LEMMA PutRowsType ==
    ASSUME StoreTypeOK, NEW s \in Sims, NEW todo \in SUBSET Rows,
           NEW round \in Rounds(todo), PutRows(s, round)
    PROVE  /\ results' \in [Sims -> SUBSET Rows]
           /\ past' \in [Sims -> Past]
           /\ scars' \in [Sims -> SUBSET Scars]
           /\ faults' \in 0..MaxFaults
           /\ After(todo, round) \in SUBSET Rows
BY StoreAssumption
DEF StoreTypeOK, Past, Rounds, PutRows, Scar, Scars, BatchFault, Fault, After

(***************************************************************************)
(* Type correctness, one action at a time.                                 *)
(***************************************************************************)
LEMMA InitType == Init => TypeOK
BY ItemTypes, StoreAssumption
DEF Past, Init, StoreInit, QueueInit, ApiInit, WorkerInit, TypeOK, StoreTypeOK,
    QueueTypeOK, ApiTypeOK, WorkerTypeOK, QueueStates

\* One page of the listing moves its own request on, and only adds scars.
LEMMA DeleteQueryMoves ==
    ASSUME TypeOK, NEW r \in Requests,
           NEW page \in SUBSET reqs[r].ahead, DeleteQuery(r, page)
    PROVE  /\ reqs[r] \in Request
           /\ reqs[r].pc = "query"
           /\ \A q \in Requests \ {r} : reqs'[q] = reqs[q]
           /\ UNCHANGED <<sims, results, used, past, faults, queue>>
           /\ \E keys \in SUBSET Rows :
                /\ reqs'[r] \in Request
                /\ reqs'[r].sim = reqs[r].sim
                /\ reqs'[r].user = reqs[r].user
                /\ reqs'[r].todo = reqs[r].todo \cup keys
                /\ reqs'[r].ahead = reqs[r].ahead \ page
                /\ reqs'[r].pc \in {"query", "erase", "drop"}
                /\ reqs'[r].pc # "query" => reqs'[r].ahead = {}
                /\ reqs'[r].pc = "drop" => reqs'[r].todo = {}
                /\ \A t \in Sims \ {reqs[r].sim} : scars'[t] = scars[t]
                /\ scars[reqs[r].sim] \cup {"erasing"} \subseteq scars'[reqs[r].sim]
                /\ scars'[reqs[r].sim]
                     \subseteq scars[reqs[r].sim] \cup {"erasing", "missed"}
                /\ \/ page \cap results[reqs[r].sim] \subseteq keys
                   \/ "missed" \in scars'[reqs[r].sim]
<1> DEFINE s == reqs[r].sim
<1> USE DEF TypeOK, StoreTypeOK, ApiTypeOK
<1>1. reqs[r].pc = "query" /\ reqs[r] \in Request
  BY DEF DeleteQuery, Idle
<1>2. s \in Sims /\ past[s].rows \in SUBSET Rows
  BY <1>1 DEF Request, Past
<1>3. PICK keys \in SUBSET (page \cap past[s].rows) :
         /\ reqs' = [reqs EXCEPT
                       ![r].todo = reqs[r].todo \cup keys,
                       ![r].ahead = @ \ page,
                       ![r].pc = IF page # reqs[r].ahead THEN "query"
                                 ELSE IF reqs[r].todo \cup keys = {} THEN "drop"
                                 ELSE "erase"]
         /\ Scar(s, {"erasing"} \cup
                       {k \in {"missed"} : ~(page \cap results[s] \subseteq keys)})
  BY DEF DeleteQuery
<1>4. /\ \A q \in Requests \ {r} : reqs'[q] = reqs[q]
      /\ reqs'[r] \in Request
      /\ reqs'[r].sim = s
      /\ reqs'[r].user = reqs[r].user
      /\ reqs'[r].todo = reqs[r].todo \cup keys
      /\ reqs'[r].ahead = reqs[r].ahead \ page
      /\ reqs'[r].pc \in {"query", "erase", "drop"}
      /\ reqs'[r].pc # "query" => reqs'[r].ahead = {}
      /\ reqs'[r].pc = "drop" => reqs'[r].todo = {}
  BY <1>1, <1>2, <1>3 DEF Request, RequestPcs
<1>5. /\ \A t \in Sims \ {s} : scars'[t] = scars[t]
      /\ scars[s] \cup {"erasing"} \subseteq scars'[s]
      /\ scars'[s] \subseteq scars[s] \cup {"erasing", "missed"}
      /\ page \cap results[s] \subseteq keys \/ "missed" \in scars'[s]
      /\ UNCHANGED <<sims, results, used, past, faults, queue>>
  BY <1>2, <1>3 DEF DeleteQuery, Scar
<1> QED
  BY <1>1, <1>2, <1>4, <1>5

LEMMA ApiType == TypeOK /\ ApiNext /\ UNCHANGED workers => TypeOK'
<1> SUFFICES ASSUME TypeOK, UNCHANGED workers, ApiNext PROVE TypeOK'
  OBVIOUS
<1> USE DEF TypeOK, StoreTypeOK, QueueTypeOK, ApiTypeOK, WorkerTypeOK
<1>1. ASSUME NEW r \in Requests, NEW s \in Sims, NEW u \in Users,
             CreatePut(r, u, s) \/ CreatePutLost(r, u, s)
               \/ ImportPut(r, u, s) \/ ImportPutLost(r, u, s)
      PROVE  TypeOK'
  <2>1. PutItem(s, NewItem(u)) \/ PutItem(s, ImportedItem(u))
    BY <1>1 DEF CreatePut, CreatePutLost, ImportPut, ImportPutLost
  <2>2. /\ sims' \in [Sims -> Item]
        /\ past' \in [Sims -> Past]
        /\ used' \in SUBSET Sims
    BY <2>1, ItemTypes, PutItemType
  <2>3. /\ UNCHANGED <<results, queue>>
        /\ scars' \in [Sims -> SUBSET Scars]
        /\ faults' \in 0..MaxFaults
        /\ reqs' \in [Requests -> Request \cup {Idle}]
    BY <1>1, StoreAssumption
    DEF CreatePut, CreatePutLost, ImportPut, ImportPutLost, Await, Scar, Scars,
        Fault, Request, RequestPcs
  <2>4. QED
    BY <2>2, <2>3
<1>2. ASSUME NEW r \in Requests, NEW s \in Sims, NEW u \in Users,
             CancelRead(r, u, s) \/ DeleteRead(r, u, s)
      PROVE  TypeOK'
  BY <1>2 DEF CancelRead, DeleteRead, Await, Request, RequestPcs, storeVars
<1>2a. ASSUME NEW r \in Requests, NEW s \in Sims, AdminDeleteRead(r, s)
      PROVE  TypeOK'
  BY <1>2a DEF AdminDeleteRead, Await, Request, RequestPcs, storeVars
<1>3. ASSUME NEW r \in Requests, CreateSend(r) \/ CreateSendRejected(r)
      PROVE  TypeOK'
  BY <1>3, StoreAssumption
  DEF CreateSend, CreateSendRejected, Enqueue, Answer, Goto, Fault, Scar, Scars,
      Request, RequestPcs, Idle, QueueStates, storeVars
<1>4. ASSUME NEW r \in Requests, CreateMark(r) \/ CancelWrite(r) \/ DeleteDrop(r)
      PROVE  TypeOK'
  <2>1. reqs[r].sim \in Sims
    BY <1>4 DEF CreateMark, CancelWrite, DeleteDrop, Request, Idle
  <2>2. sims' \in [Sims -> Item]
    <3>1. CASE CreateMark(r)
      BY <2>1, <3>1, SetStatusType DEF CreateMark, Statuses, Terminal
    <3>2. CASE CancelWrite(r)
      BY <2>1, <3>2, SetStatusType DEF CancelWrite, Statuses, Terminal
    <3>3. CASE DeleteDrop(r)
      BY <2>1, <3>3, ItemTypes DEF DeleteDrop, DeleteItem
    <3>4. QED
      BY <1>4, <3>1, <3>2, <3>3
  <2>3. QED
    BY <1>4, <2>2 DEF CreateMark, CancelWrite, DeleteDrop, Answer
<1>5. ASSUME NEW r \in Requests, ImportRows(r)
      PROVE  TypeOK'
  <2>1. reqs[r] \in Request
    BY <1>5 DEF ImportRows, Idle
  <2>2. PICK round \in Rounds(reqs[r].todo) :
           /\ PutRows(reqs[r].sim, round)
           /\ reqs' = [reqs EXCEPT
                         ![r] = IF After(reqs[r].todo, round) = {} THEN Idle
                                ELSE [@ EXCEPT !.todo = After(reqs[r].todo, round)]]
    BY <1>5 DEF ImportRows
  <2>3. reqs[r].sim \in Sims /\ reqs[r].todo \in SUBSET Rows
    BY <2>1 DEF Request
  <2>4. /\ results' \in [Sims -> SUBSET Rows]
        /\ past' \in [Sims -> Past]
        /\ scars' \in [Sims -> SUBSET Scars]
        /\ faults' \in 0..MaxFaults
        /\ After(reqs[r].todo, round) \in SUBSET Rows
    BY <2>2, <2>3, PutRowsType
  <2>5. reqs' \in [Requests -> Request \cup {Idle}]
    BY <2>1, <2>2, <2>4 DEF Request
  <2>6. QED
    BY <1>5, <2>4, <2>5 DEF ImportRows
<1>5a. ASSUME NEW r \in Requests, DeleteErase(r)
      PROVE  TypeOK'
  BY <1>5a, StoreAssumption
  DEF DeleteErase, Rounds, After, EraseRows, BatchFault, Scar, Scars, Fault,
      Await, Request, RequestPcs, Idle
<1>6. ASSUME NEW r \in Requests, NEW page \in SUBSET reqs[r].ahead, DeleteQuery(r, page)
      PROVE  TypeOK'
  <2>1. /\ reqs[r] \in Request
        /\ UNCHANGED <<sims, results, used, past, faults, queue>>
        /\ \A q \in Requests \ {r} : reqs'[q] = reqs[q]
        /\ reqs'[r] \in Request
        /\ \A t \in Sims \ {reqs[r].sim} : scars'[t] = scars[t]
        /\ scars'[reqs[r].sim]
             \subseteq scars[reqs[r].sim] \cup {"erasing", "missed"}
    BY <1>6, DeleteQueryMoves
  <2>2. /\ DOMAIN reqs' = Requests /\ reqs' = [q \in Requests |-> reqs'[q]]
        /\ DOMAIN scars' = Sims /\ scars' = [t \in Sims |-> scars'[t]]
    BY <1>6 DEF DeleteQuery, Scar
  <2>3. reqs' \in [Requests -> Request \cup {Idle}]
    BY <2>1, <2>2
  <2>4. scars' \in [Sims -> SUBSET Scars]
    BY <2>1, <2>2 DEF Scars
  <2>5. QED
    BY <2>1, <2>3, <2>4
<1>7. ASSUME NEW r \in Requests, CallRejected(r)
      PROVE  TypeOK'
  BY <1>7, StoreAssumption DEF CallRejected, CutShort, Fault, Answer, Scars, Idle
<1>8. CASE ServerExit
  BY <1>8, StoreAssumption DEF ServerExit, CutShort, Fault, Scars, Idle
<1>9. QED
  BY <1>1, <1>2, <1>2a, <1>3, <1>4, <1>5, <1>5a, <1>6, <1>7, <1>8
  DEF ApiNext, RequestStart, RequestStep

LEMMA WorkerType == TypeOK /\ WorkerNext => TypeOK'
<1> SUFFICES ASSUME TypeOK, WorkerNext PROVE TypeOK'
  OBVIOUS
<1> USE DEF TypeOK, StoreTypeOK, QueueTypeOK, ApiTypeOK, WorkerTypeOK
<1>1. ASSUME NEW w \in Workers, NEW s \in Sims, Receive(w, s)
      PROVE  TypeOK'
  BY <1>1 DEF Receive, TakeMessage, QueueStates, Job, WorkerPcs, storeVars
<1>2. ASSUME NEW w \in Workers, Check(w) \/ RunDone(w) \/ RunAbandoned(w)
      PROVE  TypeOK'
  BY <1>2 DEF Check, RunDone, RunAbandoned, Turn, Job, WorkerPcs, Asleep, storeVars
<1>3. ASSUME NEW w \in Workers, Claim(w) \/ RunFails(w)
      PROVE  TypeOK'
  <2>1. workers[w] \in Job
    BY <1>3 DEF Claim, RunFails, Asleep
  <2>2. sims' \in [Sims -> Item]
    BY <1>3, <2>1, SetStatusType
    DEF Claim, RunFails, Job, Statuses, InFlight, Terminal
  <2>3. workers' \in [Workers -> Job \cup {Asleep}]
    BY <1>3, <2>1 DEF Claim, RunFails, Turn, Job, WorkerPcs
  <2>4. QED
    BY <1>3, <2>2, <2>3 DEF Claim, RunFails
<1>4. ASSUME NEW w \in Workers, Report(w)
      PROVE  TypeOK'
  BY <1>4 DEF Report, UpdateProgress, Exists, Job, WorkerPcs, Asleep, Item
<1>5. ASSUME NEW w \in Workers, Flip(w)
      PROVE  TypeOK'
  BY <1>5, TotalModelsNat
  DEF Flip, CompleteItem, Turn, Job, WorkerPcs, Asleep, Item, Statuses, Terminal
<1>6. ASSUME NEW w \in Workers, SaveRows(w)
      PROVE  TypeOK'
  BY <1>6, StoreAssumption
  DEF SaveRows, Rounds, After, PutRows, Past, BatchFault, Scar, Scars, Fault,
      Turn, Job, WorkerPcs, Asleep
<1>7. ASSUME NEW w \in Workers, Ack(w) \/ WorkerCrash(w)
      PROVE  TypeOK'
  BY <1>7, StoreAssumption
  DEF Ack, WorkerCrash, DeleteMessage, Sleep, Fault, QueueStates, Job, Asleep, storeVars
<1>8. ASSUME NEW s \in Sims, Reappear(s)
      PROVE  TypeOK'
  BY <1>8 DEF Reappear, VisibilityExpires, QueueStates, storeVars
<1>9. QED
  BY <1>1, <1>2, <1>3, <1>4, <1>5, <1>6, <1>7, <1>8 DEF WorkerNext, WorkerStep

LEMMA NextType == TypeOK /\ [Next]_vars => TypeOK'
<1> SUFFICES ASSUME TypeOK, [Next]_vars PROVE TypeOK'
  OBVIOUS
<1>1. CASE ApiNext /\ UNCHANGED workers
  BY <1>1, ApiType
<1>2. CASE WorkerNext
  BY <1>2, WorkerType
<1>3. CASE UNCHANGED vars
  BY <1>3 DEF vars, TypeOK, StoreTypeOK, QueueTypeOK, ApiTypeOK, WorkerTypeOK
<1>4. QED
  BY <1>1, <1>2, <1>3 DEF Next, AtRest

(***************************************************************************)
(* Every variable keeps its type: in particular every request and worker   *)
(* record in flight names a simulation, and every item has the shape that  *)
(* the upserts of models/simulation.js can give it.                        *)
(***************************************************************************)
THEOREM TypeCorrect == Spec => []TypeOK
<1>1. Init => TypeOK
  BY InitType
<1>2. TypeOK /\ [Next]_vars => TypeOK'
  BY NextType
<1>3. QED
  BY <1>1, <1>2, PTL DEF Spec

-----------------------------------------------------------------------------
(***************************************************************************)
(* The inductive invariant.  Most steps touch neither the result rows nor  *)
(* the set of identifiers drawn: for them it is enough to know how the     *)
(* requests, the workers and the items may move, and RowsUntouchedKeeps is *)
(* the whole argument.  Drawing an identifier (ItemIsNew), writing rows    *)
(* and the three steps of a deletion are treated on their own.             *)
(***************************************************************************)
RequestsMove ==
    \A r \in Requests :
        \/ reqs'[r] = reqs[r]
        \/ /\ reqs'[r] = Idle
           /\ reqs[r].pc = "rows" => "torn" \in scars'[reqs[r].sim]
        \/ /\ reqs[r].pc # "rows"
           /\ reqs'[r].pc \in {"mark", "cancel", "query"}
           /\ reqs'[r].pc = "query" => reqs'[r].ahead = Rows
           /\ reqs'[r].sim \in used
           /\ \/ reqs'[r].user = NoUser
              \/ sims[reqs'[r].sim].owner \in {reqs'[r].user, NoUser}

WorkersMove ==
    \A w \in Workers :
        \/ workers'[w] = workers[w]
        \/ /\ workers'[w].pc # "flip"
           /\ workers'[w].pc = "save" => workers'[w].todo = Rows
           /\ workers'[w].pc # "asleep" => workers'[w].sim \in used

ItemsMove ==
    \A s \in Sims :
        \/ sims'[s] = sims[s]
        \/ /\ s \in used
           /\ sims'[s].owner = sims[s].owner
           /\ Owned(s) => sims'[s].status \in Statuses
           /\ \/ sims'[s].status # "completed"
              \/ sims[s].status = "completed"
              \/ results[s] = Rows
              \/ scars[s] \cap {"gaveUp", "erasing"} # {}

OnlyTorn ==
    \A s \in Sims : /\ scars[s] \subseteq scars'[s]
                    /\ scars'[s] \subseteq scars[s] \cup {"torn", "cutOff", "sendLost"}

RowsUntouched ==
    /\ RequestsMove
    /\ WorkersMove
    /\ ItemsMove
    /\ OnlyTorn
    /\ \A s \in Sims \ used : queue'[s] = queue[s]
    /\ UNCHANGED <<results, used, past>>

LEMMA RowsUntouchedKeeps ==
    ASSUME TypeOK, TypeOK', IInv, RowsUntouched
    PROVE  IInv'
<1> USE DEF RowsUntouched, OnlyTorn, TypeOK, StoreTypeOK, QueueTypeOK,
            ApiTypeOK, WorkerTypeOK, IInv
<1>1. DrawnFirst'
  BY DEF DrawnFirst, RequestsMove, WorkersMove, ItemsMove, Idle
<1>2. OwnedIsRegular' /\ OwnerIsFirst'
  BY DEF OwnedIsRegular, OwnerIsFirst, Owned, ItemsMove
<1>3. OwnershipHolds'
  BY DEF OwnershipHolds, DrawnFirst, RequestsMove, ItemsMove, Idle, Request
<1>4. ImportSent'
  BY DEF ImportSent, RequestsMove, Idle, Request
<1>5. SaveSent'
  BY DEF SaveSent, WorkersMove, Asleep, Job
<1>6. CompletedHasRows'
  <2> SUFFICES ASSUME NEW s \in Sims,
                      sims'[s].owner # NoUser,
                      sims'[s].status = "completed",
                      \A r \in Requests : ~(reqs'[r].pc = "rows" /\ reqs'[r].sim = s),
                      scars'[s] \cap {"gaveUp", "torn", "erasing"} = {}
               PROVE  results[s] = Rows
    BY DEF CompletedHasRows, Owned
  <2>1. scars[s] \cap {"gaveUp", "torn", "erasing"} = {}
    OBVIOUS
  <2>2. \A r \in Requests : ~(reqs[r].pc = "rows" /\ reqs[r].sim = s)
    BY DEF RequestsMove
  <2>3. CASE sims[s].owner = sims'[s].owner /\ sims[s].status = "completed"
    BY <2>1, <2>2, <2>3 DEF CompletedHasRows, Owned
  <2>4. QED
    BY <2>1, <2>3 DEF ItemsMove
<1>7. ListedRowsOnly'
  BY DEF ListedRowsOnly, RequestsMove, Idle, Request
<1>8. NoOrphanRows'
  BY DEF NoOrphanRows, ItemsMove, Owned
<1>9. QED
  BY <1>1, <1>2, <1>3, <1>4, <1>5, <1>6, <1>7, <1>8

\* A request that has passed its checks: it names a drawn identifier, and a
\* user who owns it.
LEMMA ReadsUntouch ==
    ASSUME TypeOK, IInv, UNCHANGED workers, NEW r \in Requests, NEW s \in Sims,
           \/ AdminDeleteRead(r, s)
           \/ \E u \in Users : CancelRead(r, u, s) \/ DeleteRead(r, u, s)
    PROVE  RowsUntouched
<1> USE ApiAssumption, StoreAssumption
    DEF RowsUntouched, OnlyTorn, RequestsMove, WorkersMove, ItemsMove, TypeOK,
        StoreTypeOK, ApiTypeOK, Request, Idle, NoItem, IInv, DrawnFirst,
        OwnerIsFirst, Await, storeVars
<1>1. CASE AdminDeleteRead(r, s)
  BY <1>1 DEF AdminDeleteRead
<1>2. ASSUME NEW u \in Users, CancelRead(r, u, s)
      PROVE  RowsUntouched
  BY <1>2 DEF CancelRead, InFlight
<1>3. ASSUME NEW u \in Users, DeleteRead(r, u, s)
      PROVE  RowsUntouched
  BY <1>3 DEF DeleteRead
<1>4. QED
  BY <1>1, <1>2, <1>3

\* The last steps of create and cancel, and the ends of failed requests.
LEMMA AnswersUntouch ==
    ASSUME TypeOK, IInv, UNCHANGED workers,
           \/ ServerExit
           \/ \E r \in Requests :
                \/ CreateSend(r) \/ CreateSendRejected(r) \/ CreateMark(r)
                \/ CancelWrite(r) \/ CallRejected(r)
    PROVE  RowsUntouched
<1> USE DEF RowsUntouched, OnlyTorn, RequestsMove, WorkersMove, ItemsMove,
            TypeOK, StoreTypeOK, QueueTypeOK, ApiTypeOK, Request, Idle, IInv,
            DrawnFirst, Answer, storeVars
<1>1. CASE ServerExit
  BY <1>1 DEF ServerExit, CutShort
<1>2. ASSUME NEW r \in Requests, CreateSend(r)
      PROVE  RowsUntouched
  BY <1>2 DEF CreateSend, Enqueue
<1>3. ASSUME NEW r \in Requests, CreateSendRejected(r)
      PROVE  RowsUntouched
  <2>1. reqs[r].pc = "send" /\ reqs[r].sim \in used /\ reqs[r] \in Request
    BY <1>3 DEF CreateSendRejected
  <2>2. reqs' = [reqs EXCEPT ![r].pc = "mark"]
    BY <1>3 DEF CreateSendRejected, Goto
  <2>3. RequestsMove
    BY <2>1, <2>2 DEF OwnershipHolds
  <2>4. \A s \in Sims \ used : queue'[s] = queue[s]
    BY <1>3, <2>1 DEF CreateSendRejected, Enqueue
  <2>5. OnlyTorn
    BY <1>3, <2>1 DEF CreateSendRejected, Scar
  <2>6. QED
    BY <1>3, <2>3, <2>4, <2>5 DEF CreateSendRejected
<1>4. ASSUME NEW r \in Requests, CreateMark(r)
      PROVE  RowsUntouched
  BY <1>4 DEF CreateMark, SetStatus, Item, Statuses, Terminal
<1>5. ASSUME NEW r \in Requests, CancelWrite(r)
      PROVE  RowsUntouched
  BY <1>5 DEF CancelWrite, SetStatus, Item, Statuses, Terminal
<1>6. ASSUME NEW r \in Requests, CallRejected(r)
      PROVE  RowsUntouched
  BY <1>6 DEF CallRejected, CutShort
<1>7. QED
  BY <1>1, <1>2, <1>3, <1>4, <1>5, <1>6

\* The workers' steps that write no rows.
LEMMA WorkersUntouch ==
    ASSUME TypeOK, IInv,
           \/ \E s \in Sims : Reappear(s)
           \/ \E w \in Workers :
                \/ \E s \in Sims : Receive(w, s)
                \/ Check(w) \/ Claim(w) \/ Report(w) \/ RunDone(w) \/ RunFails(w)
                \/ RunAbandoned(w) \/ Flip(w) \/ Ack(w) \/ WorkerCrash(w)
    PROVE  RowsUntouched
<1> USE DEF RowsUntouched, OnlyTorn, RequestsMove, WorkersMove, ItemsMove,
            TypeOK, StoreTypeOK, QueueTypeOK, WorkerTypeOK, Job, Asleep, IInv,
            DrawnFirst, Turn, storeVars
<1>1. ASSUME NEW s \in Sims, Reappear(s)
      PROVE  RowsUntouched
  BY <1>1 DEF Reappear, VisibilityExpires
<1>2. ASSUME NEW w \in Workers, NEW s \in Sims, Receive(w, s)
      PROVE  RowsUntouched
  BY <1>2 DEF Receive, TakeMessage
<1>3. ASSUME NEW w \in Workers, Check(w)
      PROVE  RowsUntouched
  BY <1>3 DEF Check
<1>4. ASSUME NEW w \in Workers, Claim(w)
      PROVE  RowsUntouched
  BY <1>4 DEF Claim, SetStatus, Item, Statuses, InFlight
<1>5. ASSUME NEW w \in Workers, Report(w)
      PROVE  RowsUntouched
  <2>1. PICK n \in 0..TotalModels : UpdateProgress(workers[w].sim, n)
    BY <1>5 DEF Report
  <2>2. workers[w].sim \in used
    BY <1>5 DEF Report
  <2>3. ItemsMove
    BY <2>1, <2>2 DEF UpdateProgress, Exists, OwnedIsRegular, Owned, Item, Statuses, InFlight, Terminal
  <2>4. QED
    BY <1>5, <2>3 DEF Report
<1>6. ASSUME NEW w \in Workers, RunDone(w)
      PROVE  RowsUntouched
  BY <1>6 DEF RunDone
<1>7. ASSUME NEW w \in Workers, RunFails(w)
      PROVE  RowsUntouched
  BY <1>7 DEF RunFails, SetStatus, Item, Statuses, Terminal
<1>8. ASSUME NEW w \in Workers, RunAbandoned(w)
      PROVE  RowsUntouched
  BY <1>8 DEF RunAbandoned
<1>9. ASSUME NEW w \in Workers, Flip(w)
      PROVE  RowsUntouched
  <2>1. workers[w].pc = "flip" /\ workers[w].sim \in used
    BY <1>9 DEF Flip
  <2>2. \/ results[workers[w].sim] = Rows
        \/ scars[workers[w].sim] \cap {"gaveUp", "erasing"} # {}
    <3> HIDE DEF RowsUntouched, OnlyTorn, RequestsMove, WorkersMove, ItemsMove,
                 StoreTypeOK, QueueTypeOK, WorkerTypeOK, Job, Asleep, DrawnFirst
    <3>1. workers[w].todo = {}
      BY <2>1 DEF SaveSent
    <3>2. scars[workers[w].sim] \cap {"gaveUp", "erasing"} = {}
             => Rows \ workers[w].todo \subseteq results[workers[w].sim]
      BY <2>1 DEF SaveSent
    <3>3. results[workers[w].sim] \subseteq Rows
      <4>1. workers[w].sim \in Sims /\ results \in [Sims -> SUBSET Rows]
        BY <2>1 DEF StoreTypeOK
      <4>2. QED
        BY <4>1
    <3>4. QED
      BY <3>1, <3>2, <3>3
  <2>3. ItemsMove
    BY <1>9, <2>1, <2>2 DEF Flip, CompleteItem, Statuses, Terminal
  <2>4. WorkersMove
    BY <1>9, <2>1 DEF Flip
  <2>5. QED
    BY <1>9, <2>3, <2>4 DEF Flip
<1>10. ASSUME NEW w \in Workers, Ack(w)
      PROVE  RowsUntouched
  BY <1>10 DEF Ack, DeleteMessage, Sleep
<1>11. ASSUME NEW w \in Workers, WorkerCrash(w)
      PROVE  RowsUntouched
  BY <1>11 DEF WorkerCrash, Sleep
<1>12. QED
  BY <1>1, <1>2, <1>3, <1>4, <1>5, <1>6, <1>7, <1>8, <1>9, <1>10, <1>11

(***************************************************************************)
(* Drawing an identifier: nothing else mentions it yet.                    *)
(***************************************************************************)
ItemIsNew(r, u, s) ==
    /\ s \notin used
    /\ used' = used \cup {s}
    /\ sims'[s].owner = u
    /\ sims'[s].status \in {"pending", "completed"}
    /\ past'[s].item.owner = u
    /\ \A t \in Sims \ {s} : sims'[t] = sims[t] /\ past'[t] = past[t]
    /\ \A q \in Requests \ {r} : reqs'[q] = reqs[q]
    /\ reqs[r] = Idle
    /\ \/ reqs'[r] = Idle /\ (sims'[s].status = "completed" => "torn" \in scars'[s])
       \/ /\ reqs'[r].sim = s
          /\ reqs'[r].user = u
          /\ IF sims'[s].status = "completed"
               THEN reqs'[r].pc = "rows" /\ reqs'[r].todo = Rows
               ELSE reqs'[r].pc = "send"
    /\ OnlyTorn
    /\ UNCHANGED <<results, queue, workers>>

LEMMA ItemIsNewKeeps ==
    ASSUME TypeOK, TypeOK', IInv, NEW r \in Requests, NEW u \in Users,
           NEW s \in Sims, ItemIsNew(r, u, s)
    PROVE  IInv'
<1> USE StoreAssumption
    DEF ItemIsNew, OnlyTorn, TypeOK, StoreTypeOK, QueueTypeOK, ApiTypeOK,
        WorkerTypeOK, IInv
<1>1. DrawnFirst'
  BY DEF DrawnFirst, Idle
<1>2. OwnedIsRegular' /\ OwnerIsFirst'
  BY DEF OwnedIsRegular, OwnerIsFirst, Owned, Statuses, InFlight, Terminal
<1>3. OwnershipHolds'
  BY DEF OwnershipHolds, DrawnFirst, Idle
<1>4. ImportSent'
  BY DEF ImportSent, DrawnFirst, Idle, Request
<1>5. SaveSent'
  BY DEF SaveSent, Asleep, Job
<1>6. CompletedHasRows'
  BY DEF CompletedHasRows, DrawnFirst, Owned, Idle, Request
<1>7. ListedRowsOnly'
  BY DEF ListedRowsOnly, Idle, Request
<1>8. NoOrphanRows'
  BY DEF NoOrphanRows, DrawnFirst, Owned
<1>9. QED
  BY <1>1, <1>2, <1>3, <1>4, <1>5, <1>6, <1>7, <1>8

LEMMA PutsAreNew ==
    ASSUME TypeOK, UNCHANGED workers, NEW r \in Requests, NEW u \in Users,
           NEW s \in Sims,
           \/ CreatePut(r, u, s) \/ CreatePutLost(r, u, s)
           \/ ImportPut(r, u, s) \/ ImportPutLost(r, u, s)
    PROVE  ItemIsNew(r, u, s)
<1>0. reqs[r] = Idle
  <2>1. reqs[r].pc = "idle"
    BY DEF CreatePut, CreatePutLost, ImportPut, ImportPutLost
  <2>2. reqs[r] \in Request \cup {Idle}
    BY DEF TypeOK, ApiTypeOK
  <2> QED
    BY <2>1, <2>2 DEF Request, RequestPcs
<1>a. ASSUME NEW item, item.owner = u, PutItem(s, item)
      PROVE  /\ s \notin used /\ used' = used \cup {s}
             /\ sims'[s] = item
             /\ past'[s].item.owner = u
             /\ \A t \in Sims \ {s} : sims'[t] = sims[t] /\ past'[t] = past[t]
  BY <1>a DEF PutItem, TypeOK, StoreTypeOK, Past
<1>b. ASSUME reqs \in [Requests -> Request \cup {Idle}]
      PROVE  \A pc, todo : Await(r, pc, s, u, todo) =>
               /\ reqs'[r].pc = pc /\ reqs'[r].sim = s
               /\ reqs'[r].user = u /\ reqs'[r].todo = todo
               /\ \A q \in Requests \ {r} : reqs'[q] = reqs[q]
  BY <1>b DEF Await
<1>c. /\ reqs \in [Requests -> Request \cup {Idle}]
      /\ scars \in [Sims -> SUBSET Scars]
  BY DEF TypeOK, ApiTypeOK, StoreTypeOK
<1>d. /\ NewItem(u).owner = u /\ NewItem(u).status = "pending"
      /\ ImportedItem(u).owner = u /\ ImportedItem(u).status = "completed"
  BY DEF NewItem, ImportedItem
<1>1. CASE CreatePut(r, u, s)
  BY <1>0, <1>1, <1>a, <1>b, <1>c, <1>d DEF CreatePut, ItemIsNew, OnlyTorn
<1>2. CASE CreatePutLost(r, u, s)
  BY <1>0, <1>2, <1>a, <1>c, <1>d DEF CreatePutLost, ItemIsNew, OnlyTorn, Scar
<1>3. CASE ImportPut(r, u, s)
  BY <1>0, <1>3, <1>a, <1>b, <1>c, <1>d DEF ImportPut, ItemIsNew, OnlyTorn
<1>4. CASE ImportPutLost(r, u, s)
  BY <1>0, <1>4, <1>a, <1>c, <1>d DEF ImportPutLost, ItemIsNew, OnlyTorn, Scar
<1>5. QED
  BY <1>1, <1>2, <1>3, <1>4

(***************************************************************************)
(* Writing rows of a simulation.                                           *)
(***************************************************************************)
RowsAdded(s, done) ==
    /\ s \in used
    /\ results' = [results EXCEPT ![s] = @ \cup done]
    /\ \A t \in Sims : past'[t].item = past[t].item
    /\ \A t \in Sims \ {s} : scars'[t] = scars[t]
    /\ scars[s] \subseteq scars'[s]
    /\ scars'[s] \subseteq scars[s] \cup {"gaveUp", "overlap"}
    /\ "erasing" \in scars[s] => "overlap" \in scars'[s]
    /\ UNCHANGED <<sims, used, queue>>

LEMMA PutRowsAdds ==
    ASSUME StoreTypeOK, NEW s \in used, NEW todo \in SUBSET Rows,
           NEW round \in Rounds(todo), PutRows(s, round),
           UNCHANGED <<sims, used, queue>>
    PROVE  /\ RowsAdded(s, round.done)
           /\ round.done \in SUBSET Rows
           /\ \/ "gaveUp" \in scars'[s]
              \/ todo \ After(todo, round) = round.done
<1>1. s \in Sims /\ round.done \in SUBSET Rows
  BY DEF StoreTypeOK, Rounds
<1>2. scars' = [scars EXCEPT ![s] = @ \cup ({k \in {"gaveUp"} : round.lost # {}}
                                      \cup {k \in {"overlap"} : "erasing" \in scars[s]})]
  BY DEF PutRows, Scar
<1>3. RowsAdded(s, round.done)
  BY <1>1, <1>2 DEF RowsAdded, PutRows, StoreTypeOK, Past
<1>4. CASE round.lost = {}
  BY <1>1, <1>3, <1>4 DEF After, Rounds
<1>5. CASE round.lost # {}
  BY <1>1, <1>2, <1>3, <1>5 DEF StoreTypeOK
<1>6. QED
  BY <1>1, <1>3, <1>4, <1>5

\* What writing rows cannot disturb, whoever writes them.
LEMMA RowsAddedKeeps ==
    ASSUME TypeOK, TypeOK', IInv, NEW s \in Sims, NEW done \in SUBSET Rows,
           RowsAdded(s, done),
           \A r \in Requests :
              \/ reqs'[r] = reqs[r]
              \/ /\ reqs[r].pc = "rows"
                 /\ \/ reqs'[r] = Idle
                    \/ /\ reqs'[r].pc = "rows"
                       /\ reqs'[r].sim = reqs[r].sim
                       /\ reqs'[r].user = reqs[r].user
    PROVE  /\ OwnedIsRegular' /\ OwnerIsFirst' /\ OwnershipHolds'
           /\ ListedRowsOnly' /\ NoOrphanRows'
<1> USE DEF RowsAdded, TypeOK, StoreTypeOK, ApiTypeOK, IInv
<1>1. OwnedIsRegular' /\ OwnerIsFirst'
  BY DEF OwnedIsRegular, OwnerIsFirst, Owned
<1>2. OwnershipHolds'
  BY DEF OwnershipHolds, DrawnFirst, Idle
<1>3. ListedRowsOnly'
  BY DEF ListedRowsOnly, Idle, Request
<1>4. NoOrphanRows'
  BY DEF NoOrphanRows, OwnedIsRegular, Owned
<1>5. QED
  BY <1>1, <1>2, <1>3, <1>4

LEMMA ImportRowsKeeps ==
    ASSUME TypeOK, TypeOK', IInv, NEW r \in Requests, ImportRows(r),
           UNCHANGED workers
    PROVE  IInv'
<1> DEFINE s == reqs[r].sim
           todo == reqs[r].todo
<1> USE DEF TypeOK, StoreTypeOK, ApiTypeOK, WorkerTypeOK, IInv
<1>1. reqs[r].pc = "rows" /\ reqs[r] \in Request
  BY DEF ImportRows, Idle
<1>2. s \in used /\ s \in Sims /\ todo \in SUBSET Rows
  BY <1>1 DEF Request, DrawnFirst
<1>3. PICK round \in Rounds(todo) :
         /\ PutRows(s, round)
         /\ reqs' = [reqs EXCEPT ![r] = IF After(todo, round) = {} THEN Idle
                                        ELSE [@ EXCEPT !.todo = After(todo, round)]]
  BY DEF ImportRows
<1>4. /\ RowsAdded(s, round.done)
      /\ round.done \in SUBSET Rows
      /\ "gaveUp" \in scars'[s] \/ todo \ After(todo, round) = round.done
  BY <1>2, <1>3, PutRowsAdds DEF ImportRows
<1>5. /\ \A q \in Requests \ {r} : reqs'[q] = reqs[q]
      /\ \/ reqs'[r] = Idle /\ After(todo, round) = {}
         \/ /\ reqs'[r].pc = "rows"
            /\ reqs'[r].sim = s
            /\ reqs'[r].user = reqs[r].user
            /\ reqs'[r].todo = After(todo, round)
  BY <1>1, <1>3 DEF Request
<1>6. /\ OwnedIsRegular' /\ OwnerIsFirst' /\ OwnershipHolds'
      /\ ListedRowsOnly' /\ NoOrphanRows'
  BY <1>1, <1>2, <1>4, <1>5, RowsAddedKeeps
<1>7. scars[s] \cap {"gaveUp", "erasing"} = {} => Rows \ todo \subseteq results[s]
  BY <1>1 DEF ImportSent
<1>8. scars'[s] \cap {"gaveUp", "erasing"} = {}
         => Rows \ After(todo, round) \subseteq results'[s]
  BY <1>2, <1>4, <1>7 DEF RowsAdded
<1> HIDE DEF s, todo
<1>9. DrawnFirst'
  <2>1. \A q \in Requests : reqs'[q].pc # "idle" => reqs'[q].sim \in used
    BY <1>2, <1>5 DEF DrawnFirst, Idle
  <2>2. QED
    BY <1>2, <1>4, <2>1 DEF DrawnFirst, RowsAdded
<1>10. ImportSent'
  BY <1>2, <1>4, <1>5, <1>8 DEF ImportSent, RowsAdded, Idle, Request
<1>11. SaveSent'
  BY <1>2, <1>4 DEF SaveSent, RowsAdded, Asleep, Job
<1>12. CompletedHasRows'
  <2>1. \/ reqs'[r].pc = "rows" /\ reqs'[r].sim = s
        \/ scars'[s] \cap {"gaveUp", "erasing"} # {}
        \/ results'[s] = Rows
    BY <1>2, <1>5, <1>8
  <2>2. \A t \in Sims \ {s} : results'[t] = results[t] /\ scars'[t] = scars[t]
    BY <1>2, <1>4 DEF RowsAdded
  <2>3. \A q \in Requests, t \in Sims \ {s} :
           (reqs[q].pc = "rows" /\ reqs[q].sim = t)
              => (reqs'[q].pc = "rows" /\ reqs'[q].sim = t)
    BY <1>5 DEF s
  <2>4. UNCHANGED sims
    BY <1>4 DEF RowsAdded
  <2>5. ASSUME NEW t \in Sims, Owned(t)', sims'[t].status = "completed",
               \A q \in Requests : ~(reqs'[q].pc = "rows" /\ reqs'[q].sim = t),
               scars'[t] \cap {"gaveUp", "torn", "erasing"} = {}
        PROVE  results'[t] = Rows
    <3>1. CASE t = s
      BY <2>1, <2>5, <3>1
    <3>2. CASE t # s
      BY <2>2, <2>3, <2>4, <2>5, <3>2 DEF CompletedHasRows, Owned
    <3>3. QED
      BY <3>1, <3>2
  <2>6. QED
    BY <2>5 DEF CompletedHasRows
<1>13. QED
  BY <1>6, <1>9, <1>10, <1>11, <1>12

LEMMA SaveRowsKeeps ==
    ASSUME TypeOK, TypeOK', IInv, NEW w \in Workers, SaveRows(w)
    PROVE  IInv'
<1> DEFINE s == workers[w].sim
           todo == workers[w].todo
<1> USE DEF TypeOK, StoreTypeOK, ApiTypeOK, WorkerTypeOK, IInv
<1>1. workers[w].pc = "save" /\ workers[w] \in Job
  BY DEF SaveRows, Asleep
<1>2. s \in used /\ s \in Sims /\ todo \in SUBSET Rows
  BY <1>1 DEF Job, DrawnFirst
<1>3. PICK round \in Rounds(todo) :
         /\ PutRows(s, round)
         /\ Turn(w, IF After(todo, round) = {} THEN "flip" ELSE "save", After(todo, round))
  BY DEF SaveRows
<1>4. /\ RowsAdded(s, round.done)
      /\ round.done \in SUBSET Rows
      /\ "gaveUp" \in scars'[s] \/ todo \ After(todo, round) = round.done
  BY <1>2, <1>3, PutRowsAdds DEF SaveRows
<1>5. /\ \A v \in Workers \ {w} : workers'[v] = workers[v]
      /\ workers'[w].sim = s
      /\ workers'[w].todo = After(todo, round)
      /\ workers'[w].pc = IF After(todo, round) = {} THEN "flip" ELSE "save"
  BY <1>3 DEF Turn
<1>6. UNCHANGED reqs
  BY DEF SaveRows
<1>7. /\ OwnedIsRegular' /\ OwnerIsFirst' /\ OwnershipHolds'
      /\ ListedRowsOnly' /\ NoOrphanRows'
  BY <1>2, <1>4, <1>6, RowsAddedKeeps
<1>8. scars'[s] \cap {"gaveUp", "erasing"} = {}
         => Rows \ After(todo, round) \subseteq results'[s]
  <2>1. scars[s] \cap {"gaveUp", "erasing"} = {} => Rows \ todo \subseteq results[s]
    BY <1>1 DEF SaveSent
  <2>2. QED
    BY <1>2, <1>4, <2>1 DEF RowsAdded
<1> HIDE DEF s, todo
<1>9. DrawnFirst'
  <2>1. /\ UNCHANGED <<sims, used, queue>>
        /\ \A t \in Sims \ used : results'[t] = results[t]
        /\ \A t \in Sims : past'[t].item = past[t].item
    BY <1>2, <1>4 DEF RowsAdded
  <2>2. \A v \in Workers :
           workers'[v].pc # "asleep" => workers'[v].sim \in used
    BY <1>2, <1>5 DEF DrawnFirst
  <2>3. QED
    BY <1>6, <2>1, <2>2 DEF DrawnFirst
<1>10. ImportSent'
  <2>1. ASSUME NEW t \in Sims
        PROVE  scars[t] \subseteq scars'[t] /\ results[t] \subseteq results'[t]
    BY <1>2, <1>4 DEF RowsAdded
  <2>2. \A r \in Requests : reqs[r].pc = "rows" => reqs[r].sim \in Sims
    BY DEF Request, Idle
  <2>3. QED
    BY <1>6, <2>1, <2>2 DEF ImportSent
<1>11. SaveSent'
  BY <1>2, <1>4, <1>5, <1>8 DEF SaveSent, RowsAdded, Asleep, Job
<1>12. CompletedHasRows'
  BY <1>2, <1>4, <1>6 DEF CompletedHasRows, RowsAdded, Owned
<1>13. QED
  BY <1>7, <1>9, <1>10, <1>11, <1>12

(***************************************************************************)
(* A deletion: list the rows page by page, erase them, drop the item.      *)
(***************************************************************************)
LEMMA DeleteQueryKeeps ==
    ASSUME TypeOK, TypeOK', IInv, NEW r \in Requests,
           NEW page \in SUBSET reqs[r].ahead, DeleteQuery(r, page),
           UNCHANGED workers
    PROVE  IInv'
<1> DEFINE s == reqs[r].sim
<1> USE DEF TypeOK, StoreTypeOK, ApiTypeOK, WorkerTypeOK, IInv
<1>1. reqs[r].pc = "query" /\ reqs[r] \in Request
  BY DeleteQueryMoves
<1>2. s \in used /\ s \in Sims
  BY <1>1 DEF Request, DrawnFirst
<1>3. PICK keys \in SUBSET Rows :
         /\ reqs'[r].sim = s
         /\ reqs'[r].user = reqs[r].user
         /\ reqs'[r].todo = reqs[r].todo \cup keys
         /\ reqs'[r].ahead = reqs[r].ahead \ page
         /\ reqs'[r].pc \in {"query", "erase", "drop"}
         /\ reqs'[r].pc # "query" => reqs'[r].ahead = {}
         /\ reqs'[r].pc = "drop" => reqs'[r].todo = {}
         /\ \A t \in Sims \ {s} : scars'[t] = scars[t]
         /\ scars[s] \cup {"erasing"} \subseteq scars'[s]
         /\ scars'[s] \subseteq scars[s] \cup {"erasing", "missed"}
         /\ page \cap results[s] \subseteq keys \/ "missed" \in scars'[s]
  BY DeleteQueryMoves
<1>4. /\ \A q \in Requests \ {r} : reqs'[q] = reqs[q]
      /\ reqs'[r].sim = s
      /\ reqs'[r].user = reqs[r].user
      /\ reqs'[r].todo = reqs[r].todo \cup keys
      /\ reqs'[r].ahead = reqs[r].ahead \ page
      /\ reqs'[r].pc \in {"query", "erase", "drop"}
      /\ reqs'[r].pc # "query" => reqs'[r].ahead = {}
      /\ reqs'[r].pc = "drop" => reqs'[r].todo = {}
  BY <1>3, DeleteQueryMoves
<1>5. /\ \A t \in Sims \ {s} : scars'[t] = scars[t]
      /\ scars[s] \cup {"erasing"} \subseteq scars'[s]
      /\ scars'[s] \subseteq scars[s] \cup {"erasing", "missed"}
      /\ page \cap results[s] \subseteq keys \/ "missed" \in scars'[s]
      /\ UNCHANGED <<sims, results, used, past, queue>>
  BY <1>3, DeleteQueryMoves
<1>6. scars'[s] \cap {"gaveUp", "overlap", "missed"} = {}
         => results[s] \subseteq reqs'[r].todo \cup reqs'[r].ahead
  <2>1. scars[s] \cap {"gaveUp", "overlap", "missed"} = {}
           => results[s] \subseteq reqs[r].todo \cup reqs[r].ahead
    BY <1>1 DEF ListedRowsOnly
  <2>2. QED
    BY <1>4, <1>5, <2>1
<1> HIDE DEF s
<1>7. DrawnFirst'
  BY <1>2, <1>4, <1>5 DEF DrawnFirst
<1>8. OwnedIsRegular' /\ OwnerIsFirst'
  BY <1>2, <1>5 DEF OwnedIsRegular, OwnerIsFirst, Owned
<1>9. OwnershipHolds'
  BY <1>1, <1>4, <1>5 DEF OwnershipHolds, s
<1>10. ImportSent'
  BY <1>2, <1>4, <1>5 DEF ImportSent, Request, Idle
<1>11. SaveSent'
  BY <1>2, <1>5 DEF SaveSent, Asleep, Job
<1>12. CompletedHasRows'
  BY <1>1, <1>2, <1>4, <1>5 DEF CompletedHasRows, Owned
<1>13. ListedRowsOnly'
  BY <1>2, <1>4, <1>5, <1>6 DEF ListedRowsOnly, Request, Idle
<1>14. NoOrphanRows'
  BY <1>2, <1>5 DEF NoOrphanRows, Owned
<1>15. QED
  BY <1>7, <1>8, <1>9, <1>10, <1>11, <1>12, <1>13, <1>14

LEMMA DeleteEraseKeeps ==
    ASSUME TypeOK, TypeOK', IInv, NEW r \in Requests, DeleteErase(r),
           UNCHANGED workers
    PROVE  IInv'
<1> DEFINE s == reqs[r].sim
           todo == reqs[r].todo
<1> USE DEF TypeOK, StoreTypeOK, ApiTypeOK, WorkerTypeOK, IInv
<1>1. reqs[r].pc = "erase" /\ reqs[r] \in Request
  BY DEF DeleteErase, Idle
<1>2. s \in used /\ s \in Sims /\ todo \in SUBSET Rows
  BY <1>1 DEF Request, DrawnFirst
<1>3. PICK round \in Rounds(todo) :
         /\ EraseRows(s, round)
         /\ Await(r, IF After(todo, round) = {} THEN "drop" ELSE "erase",
                  s, reqs[r].user, After(todo, round))
  BY DEF DeleteErase
<1>4. /\ \A q \in Requests \ {r} : reqs'[q] = reqs[q]
      /\ reqs'[r].pc = IF After(todo, round) = {} THEN "drop" ELSE "erase"
      /\ reqs'[r].sim = s
      /\ reqs'[r].user = reqs[r].user
      /\ reqs'[r].todo = After(todo, round)
      /\ reqs'[r].ahead = {}
  BY <1>3 DEF Await
<1>5. /\ results' = [results EXCEPT ![s] = @ \ round.done]
      /\ \A t \in Sims \ {s} : scars'[t] = scars[t]
      /\ scars[s] \subseteq scars'[s]
      /\ scars'[s] \subseteq scars[s] \cup {"gaveUp"}
      /\ "gaveUp" \in scars'[s] \/ After(todo, round) = todo \ round.done
      /\ UNCHANGED <<sims, used, past, queue>>
  <2>1. scars' = [scars EXCEPT ![s] = @ \cup {k \in {"gaveUp"} : round.lost # {}}]
    BY <1>3 DEF EraseRows, Scar
  <2>2. CASE round.lost = {}
    BY <1>2, <1>3, <2>1, <2>2 DEF EraseRows, After, DeleteErase
  <2>3. CASE round.lost # {}
    BY <1>2, <1>3, <2>1, <2>3 DEF EraseRows, DeleteErase
  <2>4. QED
    BY <2>2, <2>3
<1>6. "erasing" \in scars[s]
  BY <1>1 DEF ListedRowsOnly
<1>7. scars'[s] \cap {"gaveUp", "overlap", "missed"} = {}
         => results'[s] \subseteq After(todo, round)
  <2>1. scars[s] \cap {"gaveUp", "overlap", "missed"} = {} => results[s] \subseteq todo
    BY <1>1 DEF ListedRowsOnly
  <2>2. QED
    BY <1>2, <1>5, <2>1
<1> HIDE DEF s, todo
<1>8. DrawnFirst'
  BY <1>2, <1>4, <1>5 DEF DrawnFirst
<1>9. OwnedIsRegular' /\ OwnerIsFirst'
  BY <1>2, <1>5 DEF OwnedIsRegular, OwnerIsFirst, Owned
<1>10. OwnershipHolds'
  BY <1>1, <1>4, <1>5 DEF OwnershipHolds, s
<1>11. ImportSent'
  BY <1>2, <1>4, <1>5, <1>6 DEF ImportSent, Request, Idle
<1>12. SaveSent'
  BY <1>2, <1>5, <1>6 DEF SaveSent, Asleep, Job
<1>13. CompletedHasRows'
  BY <1>1, <1>2, <1>4, <1>5, <1>6 DEF CompletedHasRows, Owned
<1>14. ListedRowsOnly'
  BY <1>2, <1>4, <1>5, <1>6, <1>7 DEF ListedRowsOnly, Request, Idle
<1>15. NoOrphanRows'
  BY <1>2, <1>5 DEF NoOrphanRows, Owned
<1>16. QED
  BY <1>8, <1>9, <1>10, <1>11, <1>12, <1>13, <1>14, <1>15

LEMMA DeleteDropKeeps ==
    ASSUME TypeOK, TypeOK', IInv, NEW r \in Requests, DeleteDrop(r),
           UNCHANGED workers
    PROVE  IInv'
<1> USE DEF TypeOK, StoreTypeOK, ApiTypeOK, WorkerTypeOK, IInv
<1>1. reqs[r].pc = "drop" /\ reqs[r] \in Request
  BY DEF DeleteDrop, Idle
<1>2. reqs[r].sim \in used /\ reqs[r].sim \in Sims
  BY <1>1 DEF Request, DrawnFirst
<1>3. /\ sims' = [sims EXCEPT ![reqs[r].sim] = NoItem]
      /\ reqs' = [reqs EXCEPT ![r] = Idle]
      /\ UNCHANGED <<results, used, past, scars, queue>>
  BY DEF DeleteDrop, DeleteItem, Answer
<1>4. /\ "erasing" \in scars[reqs[r].sim]
      /\ scars[reqs[r].sim] \cap {"gaveUp", "overlap", "missed"} = {}
           => results[reqs[r].sim] = {}
  BY <1>1 DEF ListedRowsOnly
<1>5. DrawnFirst'
  BY <1>2, <1>3 DEF DrawnFirst, Idle
<1>6. OwnedIsRegular' /\ OwnerIsFirst'
  BY <1>2, <1>3, <1>4 DEF OwnedIsRegular, OwnerIsFirst, Owned, NoItem
<1>7. OwnershipHolds'
  BY <1>2, <1>3 DEF OwnershipHolds, NoItem, Idle
<1>8. ImportSent'
  BY <1>3 DEF ImportSent, Request, Idle
<1>9. SaveSent'
  BY <1>3 DEF SaveSent, Asleep, Job
<1>10. CompletedHasRows'
  BY <1>1, <1>2, <1>3 DEF CompletedHasRows, Owned, NoItem
<1>11. ListedRowsOnly'
  BY <1>3 DEF ListedRowsOnly, Request, Idle
<1>12. NoOrphanRows'
  BY <1>2, <1>3, <1>4 DEF NoOrphanRows, Owned
<1>13. QED
  BY <1>5, <1>6, <1>7, <1>8, <1>9, <1>10, <1>11, <1>12

(***************************************************************************)
(* The invariant holds initially and every step keeps it.                  *)
(***************************************************************************)
LEMMA InitInvariant == Init => IInv
BY DEF Init, StoreInit, QueueInit, ApiInit, WorkerInit, IInv, DrawnFirst,
       OwnedIsRegular, OwnershipHolds, ImportSent, SaveSent, CompletedHasRows,
       OwnerIsFirst, ListedRowsOnly, NoOrphanRows, Owned, Idle, Asleep, NoItem

LEMMA StutterUntouches == ASSUME UNCHANGED vars PROVE RowsUntouched
BY DEF vars, RowsUntouched, OnlyTorn, RequestsMove, WorkersMove, ItemsMove

LEMMA NextInvariant == TypeOK /\ TypeOK' /\ IInv /\ [Next]_vars => IInv'
<1> SUFFICES ASSUME TypeOK, TypeOK', IInv, [Next]_vars PROVE IInv'
  OBVIOUS
<1>1. CASE ApiNext /\ UNCHANGED workers
  <2>1. CASE ServerExit
    BY <1>1, <2>1, AnswersUntouch, RowsUntouchedKeeps
  <2>2. ASSUME NEW r \in Requests, RequestStart(r)
        PROVE  IInv'
    <3>1. PICK s \in Sims :
             \/ \E u \in Users :
                  \/ CreatePut(r, u, s) \/ CreatePutLost(r, u, s)
                  \/ ImportPut(r, u, s) \/ ImportPutLost(r, u, s)
             \/ \/ AdminDeleteRead(r, s)
                \/ \E u \in Users : CancelRead(r, u, s) \/ DeleteRead(r, u, s)
      BY <2>2 DEF RequestStart
    <3>2. ASSUME NEW u \in Users,
                 \/ CreatePut(r, u, s) \/ CreatePutLost(r, u, s)
                 \/ ImportPut(r, u, s) \/ ImportPutLost(r, u, s)
          PROVE  IInv'
      BY <1>1, <3>2, PutsAreNew, ItemIsNewKeeps
    <3>3. CASE \/ AdminDeleteRead(r, s)
               \/ \E u \in Users : CancelRead(r, u, s) \/ DeleteRead(r, u, s)
      BY <1>1, <3>3, ReadsUntouch, RowsUntouchedKeeps
    <3>4. QED
      BY <3>1, <3>2, <3>3
  <2>3. ASSUME NEW r \in Requests,
               \/ CreateSend(r) \/ CreateSendRejected(r) \/ CreateMark(r)
               \/ CancelWrite(r) \/ CallRejected(r)
        PROVE  IInv'
    BY <1>1, <2>3, AnswersUntouch, RowsUntouchedKeeps
  <2>4. ASSUME NEW r \in Requests,
               \/ ImportRows(r) \/ DeleteErase(r) \/ DeleteDrop(r)
               \/ \E page \in SUBSET reqs[r].ahead : DeleteQuery(r, page)
        PROVE  IInv'
    BY <1>1, <2>4, ImportRowsKeeps, DeleteQueryKeeps, DeleteEraseKeeps,
       DeleteDropKeeps
  <2>5. QED
    BY <1>1, <2>1, <2>2, <2>3, <2>4 DEF ApiNext, RequestStep
<1>2. CASE WorkerNext
  <2>1. ASSUME NEW w \in Workers, SaveRows(w)
        PROVE  IInv'
    BY <2>1, SaveRowsKeeps
  <2>2. CASE \/ \E s \in Sims : Reappear(s)
             \/ \E w \in Workers :
                  \/ \E s \in Sims : Receive(w, s)
                  \/ Check(w) \/ Claim(w) \/ Report(w) \/ RunDone(w)
                  \/ RunFails(w) \/ RunAbandoned(w) \/ Flip(w) \/ Ack(w)
                  \/ WorkerCrash(w)
    BY <2>2, WorkersUntouch, RowsUntouchedKeeps
  <2>3. QED
    BY <1>2, <2>1, <2>2 DEF WorkerNext, WorkerStep
<1>3. CASE UNCHANGED vars
  BY <1>3, StutterUntouches, RowsUntouchedKeeps
<1>4. QED
  BY <1>1, <1>2, <1>3 DEF Next, AtRest

THEOREM Invariance == Spec => []IInv
<1>1. Init => TypeOK /\ IInv
  BY InitType, InitInvariant
<1>2. TypeOK /\ IInv /\ [Next]_vars => (TypeOK /\ IInv)'
  BY NextType, NextInvariant
<1>3. QED
  BY <1>1, <1>2, PTL DEF Spec

(***************************************************************************)
(* The ownership check made before the awaits of cancel and delete is      *)
(* still good when their writes land.                                      *)
(***************************************************************************)
THEOREM OwnershipTheorem == Spec => []OwnershipHolds
BY Invariance, PTL DEF IInv

(***************************************************************************)
(* A simulation seen as completed has all its rows, unless an import is    *)
(* writing or was torn, rows were given up, or a deletion began.           *)
(***************************************************************************)
THEOREM CompletedHasRowsTheorem == Spec => []CompletedHasRows
BY Invariance, PTL DEF IInv

(***************************************************************************)
(* A simulation out of every user's reach has no rows left, unless rows    *)
(* were given up, written behind a deletion's back, or missed by a page of *)
(* its listing.                                                            *)
(***************************************************************************)
THEOREM NoOrphanRowsTheorem == Spec => []NoOrphanRows
BY Invariance, PTL DEF IInv

-----------------------------------------------------------------------------
(***************************************************************************)
(* SimulationLifecycle implements OwnerView.  A step changes at most one   *)
(* item, in one of three ways.                                             *)
(***************************************************************************)
NewSim(s, u) ==
    /\ s \notin used
    /\ used' = used \cup {s}
    /\ sims' = [sims EXCEPT ![s] = NewItem(u)] \/ sims' = [sims EXCEPT ![s] = ImportedItem(u)]

ChangedSim(s) ==
    /\ s \in used
    /\ used' = used
    /\ \A t \in Sims \ {s} : sims'[t] = sims[t]
    /\ sims'[s].owner = sims[s].owner
    /\ \/ sims'[s].status \in {"running", "completed", "failed", sims[s].status}
       \/ sims'[s].status = "cancelled" /\ sims[s].status \in InFlight
       \/ ~Owned(s)

DroppedSim(s) ==
    /\ s \in used
    /\ used' = used
    /\ sims' = [sims EXCEPT ![s] = NoItem]

LEMMA ItemSteps ==
    ASSUME TypeOK, IInv, [Next]_vars
    PROVE  \/ UNCHANGED <<sims, used>>
           \/ \E s \in Sims, u \in Users : NewSim(s, u)
           \/ \E s \in Sims : ChangedSim(s) \/ DroppedSim(s)
<1> USE DEF TypeOK, StoreTypeOK, ApiTypeOK, WorkerTypeOK, IInv, DrawnFirst
<1>1. ASSUME NEW r \in Requests, RequestStart(r)
      PROVE  UNCHANGED <<sims, used>> \/ \E s \in Sims, u \in Users : NewSim(s, u)
  BY <1>1 DEF RequestStart, CreatePut, CreatePutLost, ImportPut, ImportPutLost,
              CancelRead, DeleteRead, AdminDeleteRead, PutItem, NewSim, storeVars
<1>2. ASSUME NEW r \in Requests, CreateMark(r) \/ CancelWrite(r)
      PROVE  UNCHANGED <<sims, used>> \/ \E s \in Sims : ChangedSim(s)
  <2>1. reqs[r].sim \in used /\ reqs[r].sim \in Sims
    BY <1>2 DEF CreateMark, CancelWrite
  <2>2. UNCHANGED <<sims, used>> \/ ChangedSim(reqs[r].sim)
    BY <1>2, <2>1 DEF CreateMark, CancelWrite, SetStatus, ChangedSim, Item
  <2>3. QED
    BY <2>1, <2>2
<1>3. ASSUME NEW r \in Requests, DeleteDrop(r)
      PROVE  \E s \in Sims : DroppedSim(s)
  BY <1>3 DEF DeleteDrop, DeleteItem, DroppedSim
<1>4. ASSUME NEW r \in Requests,
             \/ CreateSend(r) \/ CreateSendRejected(r) \/ ImportRows(r)
             \/ \E page \in SUBSET reqs[r].ahead : DeleteQuery(r, page)
             \/ DeleteErase(r) \/ CallRejected(r)
      PROVE  UNCHANGED <<sims, used>>
  BY <1>4 DEF CreateSend, CreateSendRejected, ImportRows, DeleteQuery,
              DeleteErase, CallRejected, storeVars
<1>5. ASSUME NEW w \in Workers, Claim(w) \/ RunFails(w) \/ Flip(w)
      PROVE  \E s \in Sims : ChangedSim(s)
  <2>1. workers[w].sim \in used /\ workers[w].sim \in Sims
    BY <1>5 DEF Claim, RunFails, Flip
  <2>2. ChangedSim(workers[w].sim)
    BY <1>5, <2>1 DEF Claim, RunFails, Flip, SetStatus, CompleteItem, ChangedSim, Item
  <2>3. QED
    BY <2>1, <2>2
<1>6. ASSUME NEW w \in Workers, Report(w)
      PROVE  \E s \in Sims : ChangedSim(s)
  <2>1. workers[w].sim \in used /\ workers[w].sim \in Sims
    BY <1>6 DEF Report
  <2>2. PICK n \in 0..TotalModels : UpdateProgress(workers[w].sim, n)
    BY <1>6 DEF Report
  <2>3. Owned(workers[w].sim) => Exists(workers[w].sim)
    BY <2>1 DEF OwnedIsRegular, Exists, Statuses, InFlight, Terminal
  <2>4. ChangedSim(workers[w].sim)
    BY <1>6, <2>1, <2>2, <2>3 DEF Report, UpdateProgress, ChangedSim
  <2>5. QED
    BY <2>1, <2>4
<1>7. ASSUME NEW w \in Workers,
             \/ Check(w) \/ RunDone(w) \/ RunAbandoned(w) \/ SaveRows(w)
             \/ Ack(w) \/ WorkerCrash(w) \/ \E s \in Sims : Receive(w, s)
      PROVE  UNCHANGED <<sims, used>>
  BY <1>7 DEF Check, RunDone, RunAbandoned, SaveRows, Ack, WorkerCrash,
              Receive, storeVars
<1>8. ASSUME NEW s \in Sims, Reappear(s)
      PROVE  UNCHANGED <<sims, used>>
  BY <1>8 DEF Reappear, storeVars
<1>9. CASE ServerExit
  BY <1>9 DEF ServerExit
<1>10. CASE UNCHANGED vars
  BY <1>10 DEF vars
<1>11. CASE ApiNext
  BY <1>1, <1>2, <1>3, <1>4, <1>9, <1>11 DEF ApiNext, RequestStep
<1>12. CASE WorkerNext
  BY <1>5, <1>6, <1>7, <1>8, <1>12 DEF WorkerNext, WorkerStep
<1>13. QED
  BY <1>10, <1>11, <1>12 DEF Next, AtRest

LEMMA ViewInit == Init => View!Init
BY DEF Init, StoreInit, View!Init, View!Unborn, ViewOf

LEMMA ViewNext ==
    ASSUME TypeOK, TypeOK', IInv, IInv', [Next]_vars
    PROVE  [View!Next]_[s \in Sims |-> ViewOf(s)]
<1> DEFINE view == [s \in Sims |-> ViewOf(s)]
<1> USE DEF TypeOK, StoreTypeOK, IInv
<1>1. CASE UNCHANGED <<sims, used>>
  BY <1>1 DEF ViewOf, Owned
<1>2. ASSUME NEW s \in Sims, NEW u \in Users, NewSim(s, u)
      PROVE  View!Next
  <2>1. view[s] = View!Unborn
    BY <1>2 DEF NewSim, ViewOf, View!Unborn
  <2>2. PICK phase \in {"inflight", "completed"} :
           ViewOf(s)' = View!Of(u, phase)
    BY <1>2, StoreAssumption
    DEF NewSim, NewItem, ImportedItem, ViewOf, Owned, Phase, InFlight, View!Of
  <2>3. \A t \in Sims \ {s} : ViewOf(t)' = ViewOf(t)
    BY <1>2 DEF NewSim, ViewOf, Owned
  <2>4. view' = [view EXCEPT ![s] = View!Of(u, phase)]
    BY <2>2, <2>3
  <2>5. View!Submit(s, u, phase)
    BY <2>1, <2>4 DEF View!Submit
  <2>6. QED
    BY <2>5 DEF View!Next
<1>3. ASSUME NEW s \in Sims, ChangedSim(s)
      PROVE  View!Next \/ view' = view
  <2>1. \A t \in Sims \ {s} : ViewOf(t)' = ViewOf(t)
    BY <1>3 DEF ChangedSim, ViewOf, Owned
  <2>2. CASE ~Owned(s)
    <3>1. ViewOf(s)' = ViewOf(s)
      BY <1>3, <2>2 DEF ChangedSim, ViewOf, Owned
    <3>2. QED
      BY <2>1, <3>1
  <2>3. CASE Owned(s)
    <3>1. /\ ViewOf(s) = View!Of(sims[s].owner, Phase(sims[s].status))
          /\ ViewOf(s)' = View!Of(sims[s].owner, Phase(sims'[s].status))
      BY <1>3, <2>3 DEF ChangedSim, ViewOf, Owned, Phase, View!Of
    <3>2. /\ view' = [view EXCEPT ![s] = View!Of(@.owner, Phase(sims'[s].status))]
          /\ view[s].phase = Phase(sims[s].status)
      <4>1. /\ view[s].owner = sims[s].owner
            /\ view[s].phase = Phase(sims[s].status)
        BY <3>1 DEF View!Of
      <4>2. view' = [view EXCEPT ![s] = View!Of(sims[s].owner, Phase(sims'[s].status))]
        BY <2>1, <3>1
      <4>3. QED
        BY <4>1, <4>2
    <3>3. Phase(sims[s].status) \in View!Live
      BY <1>3, <2>3 DEF ChangedSim, OwnedIsRegular, Phase, View!Live, Statuses,
                        InFlight, Terminal
    <3>4. CASE sims'[s].status \in {"running", "completed", "failed"}
      <4>1. Phase(sims'[s].status) \in {"inflight", "completed", "failed"}
        BY <3>4 DEF Phase, InFlight
      <4>2. View!Work(s, Phase(sims'[s].status))
        BY <3>2, <3>3 DEF View!Work
      <4>3. QED
        BY <4>1, <4>2 DEF View!Next
    <3>5. CASE sims'[s].status = sims[s].status
      BY <2>1, <3>1, <3>5
    <3>6. CASE sims'[s].status = "cancelled" /\ sims[s].status \in InFlight
      <4>1. View!Cancel(s)
        BY <3>2, <3>6 DEF View!Cancel, Phase, InFlight
      <4>2. QED
        BY <4>1 DEF View!Next
    <3>7. QED
      BY <1>3, <2>3, <3>4, <3>5, <3>6 DEF ChangedSim
  <2>4. QED
    BY <2>2, <2>3
<1>4. ASSUME NEW s \in Sims, DroppedSim(s)
      PROVE  View!Next \/ view' = view
  <2>1. \A t \in Sims \ {s} : ViewOf(t)' = ViewOf(t)
    BY <1>4 DEF DroppedSim, ViewOf, Owned
  <2>2. ViewOf(s)' = View!Gone
    BY <1>4 DEF DroppedSim, ViewOf, Owned, NoItem, View!Gone
  <2>3. CASE ~Owned(s)
    <3>1. ViewOf(s) = View!Gone
      BY <1>4, <2>3 DEF DroppedSim, ViewOf, View!Gone
    <3>2. QED
      BY <2>1, <2>2, <3>1
  <2>4. CASE Owned(s)
    <3>1. view[s].phase \in View!Live
      BY <1>4, <2>4 DEF DroppedSim, OwnedIsRegular, ViewOf, Phase, View!Live,
                        Statuses, InFlight, Terminal
    <3>2. view' = [view EXCEPT ![s] = View!Gone]
      BY <2>1, <2>2
    <3>3. QED
      BY <3>1, <3>2 DEF View!Remove, View!Next
  <2>5. QED
    BY <2>3, <2>4
<1>5. QED
  BY <1>1, <1>2, <1>3, <1>4, ItemSteps

(***************************************************************************)
(* Whatever requests, workers and failures do, the owner of a simulation   *)
(* sees only what OwnerView allows: one owner for ever, cancelled only     *)
(* from pending or running, and never back once removed.                   *)
(***************************************************************************)
THEOREM Refinement == Spec => OwnerViewSpec
<1>1. Init => View!Init
  BY ViewInit
<1>2. TypeOK /\ TypeOK' /\ IInv /\ IInv' /\ [Next]_vars
        => [View!Next]_[s \in Sims |-> ViewOf(s)]
  BY ViewNext
<1>3. QED
  BY <1>1, <1>2, TypeCorrect, Invariance, PTL DEF Spec, OwnerViewSpec, View!Spec
=============================================================================
