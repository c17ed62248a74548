------------------------- MODULE ResultsReader_proofs --------------------------
(***************************************************************************)
(* Theorems of ResultsReader, from those of the life cycle it reads.       *)
(***************************************************************************)
EXTENDS ResultsReader, SimulationLifecycle_proofs

Windows == {"gaveUp", "torn", "erasing"}

\* Outside the windows no step of the life cycle takes a row away, an import
\* that is over has written them all, and no window ever closes.
LEMMA RowsStay ==
    ASSUME TypeOK, TypeOK', IInv, [Next]_vars, NEW s \in Sims,
           scars'[s] \cap Windows = {}
    PROVE  /\ scars[s] \cap Windows = {}
           /\ results[s] = Rows => results'[s] = Rows
           /\ Importing(s) => Importing(s)' \/ results'[s] = Rows
<1> DEFINE Goal == /\ scars[s] \cap Windows = {}
                   /\ results[s] = Rows => results'[s] = Rows
                   /\ Importing(s) => Importing(s)' \/ results'[s] = Rows
<1>1. ASSUME RowsUntouched PROVE Goal
  <2>1. Importing(s) => Importing(s)'
    BY <1>1 DEF RowsUntouched, RequestsMove, Importing, Windows
  <2>2. QED
    BY <1>1, <2>1 DEF RowsUntouched, OnlyTorn, TypeOK, StoreTypeOK
<1>2. ASSUME NEW t \in used, NEW done \in SUBSET Rows, RowsAdded(t, done)
      PROVE  /\ scars[s] \cap Windows = {}
             /\ results[s] = Rows => results'[s] = Rows
  BY <1>2 DEF RowsAdded, TypeOK, StoreTypeOK, Windows
<1>3. CASE ApiNext /\ UNCHANGED workers
  <2>1. CASE ServerExit
    BY <1>1, <1>3, <2>1, AnswersUntouch
  <2>2. ASSUME NEW r \in Requests, RequestStart(r)
        PROVE  Goal
    <3>1. PICK t \in Sims :
             \/ \E u \in Users :
                  \/ CreatePut(r, u, t) \/ CreatePutLost(r, u, t)
                  \/ ImportPut(r, u, t) \/ ImportPutLost(r, u, t)
             \/ \/ AdminDeleteRead(r, t)
                \/ \E u \in Users : CancelRead(r, u, t) \/ DeleteRead(r, u, t)
      BY <2>2 DEF RequestStart
    <3>2. ASSUME NEW u \in Users,
                 \/ CreatePut(r, u, t) \/ CreatePutLost(r, u, t)
                 \/ ImportPut(r, u, t) \/ ImportPutLost(r, u, t)
          PROVE  Goal
      <4>1. ItemIsNew(r, u, t)
        BY <1>3, <3>2, PutsAreNew
      <4>2. Importing(s) => Importing(s)'
        BY <4>1 DEF ItemIsNew, Importing, Idle
      <4>3. QED
        BY <4>1, <4>2 DEF ItemIsNew, OnlyTorn, TypeOK, StoreTypeOK
    <3>3. CASE \/ AdminDeleteRead(r, t)
               \/ \E u \in Users : CancelRead(r, u, t) \/ DeleteRead(r, u, t)
      BY <1>1, <1>3, <3>3, ReadsUntouch
    <3>4. QED
      BY <3>1, <3>2, <3>3
  <2>3. ASSUME NEW r \in Requests,
               \/ CreateSend(r) \/ CreateSendRejected(r) \/ CreateMark(r)
               \/ CancelWrite(r) \/ CallRejected(r)
        PROVE  Goal
    BY <1>1, <1>3, <2>3, AnswersUntouch
  <2>4. ASSUME NEW r \in Requests, ImportRows(r) PROVE Goal
    <3>1. reqs[r] \in Request /\ reqs[r].pc = "rows"
      BY <2>4 DEF ImportRows, TypeOK, ApiTypeOK, Idle
    <3>2. reqs[r].sim \in used /\ reqs[r].todo \in SUBSET Rows
      BY <3>1 DEF IInv, DrawnFirst, Request
    <3>3. PICK round \in Rounds(reqs[r].todo) :
             /\ PutRows(reqs[r].sim, round)
             /\ reqs' = [reqs EXCEPT
                           ![r] = IF After(reqs[r].todo, round) = {} THEN Idle
                                  ELSE [@ EXCEPT !.todo = After(reqs[r].todo, round)]]
      BY <2>4 DEF ImportRows
    <3>4. /\ RowsAdded(reqs[r].sim, round.done)
          /\ round.done \in SUBSET Rows
          /\ \/ "gaveUp" \in scars'[reqs[r].sim]
             \/ reqs[r].todo \ After(reqs[r].todo, round) = round.done
      BY <2>4, <3>2, <3>3, PutRowsAdds DEF ImportRows, TypeOK
    <3>5. /\ scars[s] \cap Windows = {}
          /\ results[s] = Rows => results'[s] = Rows
      BY <1>2, <3>2, <3>4
    <3>6. CASE reqs[r].sim = s /\ After(reqs[r].todo, round) = {}
      <4>1. Rows \ reqs[r].todo \subseteq results[s]
        BY <3>1, <3>5, <3>6 DEF IInv, ImportSent, Windows
      <4>2. results'[s] = Rows
        BY <3>2, <3>4, <3>6, <4>1 DEF RowsAdded, TypeOK, StoreTypeOK, Windows
      <4>3. QED
        BY <3>5, <4>2
    <3>7. CASE ~(reqs[r].sim = s /\ After(reqs[r].todo, round) = {})
      <4>1. Importing(s) => Importing(s)'
        BY <3>1, <3>3, <3>7 DEF Importing, Request, TypeOK, ApiTypeOK
      <4>2. QED
        BY <3>5, <4>1
    <3>8. QED
      BY <3>6, <3>7
  <2>5. ASSUME NEW r \in Requests, DeleteDrop(r) PROVE Goal
    <3>1. Importing(s) => Importing(s)'
      BY <2>5 DEF DeleteDrop, Answer, Importing
    <3>2. QED
      BY <2>5, <3>1 DEF DeleteDrop
  <2>5a. ASSUME NEW r \in Requests, NEW page \in SUBSET reqs[r].ahead,
                DeleteQuery(r, page)
         PROVE  Goal
    <3>1. /\ reqs[r].pc = "query"
          /\ \A q \in Requests \ {r} : reqs'[q] = reqs[q]
          /\ results' = results
          /\ scars[s] \subseteq scars'[s]
      BY <2>5a, DeleteQueryMoves
    <3>2. Importing(s) => Importing(s)'
      BY <3>1 DEF Importing
    <3>3. QED
      BY <3>1, <3>2
  <2>6. ASSUME NEW r \in Requests, DeleteErase(r) PROVE Goal
    <3>1. reqs[r] \in Request /\ reqs[r].pc = "erase"
      BY <2>6 DEF DeleteErase, TypeOK, ApiTypeOK, Idle
    <3>2. reqs[r].sim \in Sims /\ "erasing" \in scars[reqs[r].sim]
      BY <3>1 DEF IInv, ListedRowsOnly, Request
    <3>3. PICK round \in Rounds(reqs[r].todo) : EraseRows(reqs[r].sim, round)
      BY <2>6 DEF DeleteErase
    <3>4. Importing(s) => Importing(s)'
      BY <2>6, <3>1 DEF DeleteErase, Await, Importing
    <3>5. QED
      BY <3>2, <3>3, <3>4 DEF EraseRows, Scar, TypeOK, StoreTypeOK, Windows
  <2>7. QED
    BY <1>3, <2>1, <2>2, <2>3, <2>4, <2>5, <2>5a, <2>6 DEF ApiNext, RequestStep
<1>4. CASE WorkerNext
  <2>1. ASSUME NEW w \in Workers, SaveRows(w) PROVE Goal
    <3>1. workers[w] \in Job /\ workers[w].pc # "asleep"
      BY <2>1 DEF SaveRows, TypeOK, WorkerTypeOK, Asleep
    <3>2. workers[w].sim \in used /\ workers[w].todo \in SUBSET Rows
      BY <3>1 DEF IInv, DrawnFirst, Job
    <3>3. PICK round \in Rounds(workers[w].todo) : PutRows(workers[w].sim, round)
      BY <2>1 DEF SaveRows
    <3>4. /\ scars[s] \cap Windows = {}
          /\ results[s] = Rows => results'[s] = Rows
      BY <1>2, <2>1, <3>2, <3>3, PutRowsAdds DEF SaveRows, TypeOK
    <3>5. Importing(s)' = Importing(s)
      BY <2>1 DEF SaveRows, Importing
    <3>6. QED
      BY <3>4, <3>5
  <2>2. CASE \/ \E t \in Sims : Reappear(t)
             \/ \E w \in Workers :
                  \/ \E t \in Sims : Receive(w, t)
                  \/ Check(w) \/ Claim(w) \/ Report(w) \/ RunDone(w)
                  \/ RunFails(w) \/ RunAbandoned(w) \/ Flip(w) \/ Ack(w)
                  \/ WorkerCrash(w)
    BY <1>1, <2>2, WorkersUntouch
  <2>3. QED
    BY <1>4, <2>1, <2>2 DEF WorkerNext, WorkerStep
<1>5. CASE UNCHANGED vars
  BY <1>1, <1>5, StutterUntouches
<1>6. QED
  BY <1>3, <1>4, <1>5 DEF Next, AtRest

(***************************************************************************)
(* Reading changes nothing: with a reader beside it, the life cycle is     *)
(* still the one its theorems are about.                                   *)
(***************************************************************************)
LEMMA LifeGoesOn == ReaderSpec => Spec
<1>1. Init /\ ReaderInit => Init
  OBVIOUS
<1>2. [\/ Next /\ Show /\ UNCHANGED reader
       \/ ReaderNext /\ UNCHANGED vars]_allVars => [Next]_vars
  BY DEF allVars
<1>3. QED
  BY <1>1, <1>2, PTL DEF ReaderSpec, Spec

\* While the life cycle moves, what has been shown or read stays true.
LEMMA LifeKeepsReading ==
    ASSUME TypeOK, TypeOK', IInv, IInv', [Next]_vars, ReaderInv,
           Show \/ UNCHANGED <<vars, shown>>, UNCHANGED reader
    PROVE  ReaderInv'
<1>0. \A s \in Sims : \A k \in shown'[s] :
         k \in shown[s] \/ (Owned(s)' /\ k = sims'[s].status)
  BY DEF Show
<1>1. ReaderTypeOK' /\ AnsweredIsPast'
  <2>1. \A s \in Sims : Owned(s)' => sims'[s].status \in Statuses
    BY DEF IInv, OwnedIsRegular, DrawnFirst, Owned, NoItem
  <2>2. shown' \in [Sims -> SUBSET Statuses]
    BY <2>1 DEF ReaderInv, ReaderTypeOK, Show
  <2>3. QED
    BY <2>2 DEF ReaderInv, ReaderTypeOK, AnsweredIsPast
<1>1a. ShownHasRows'
  <2> SUFFICES ASSUME NEW s \in Sims, "completed" \in shown'[s], ~Importing(s)',
                      scars'[s] \cap Windows = {}
               PROVE  results'[s] = Rows
    BY DEF ShownHasRows, Windows
  <2>1. CASE Owned(s)' /\ sims'[s].status = "completed"
    BY <2>1 DEF IInv, CompletedHasRows, Importing, Windows
  <2>2. CASE "completed" \in shown[s]
    <3>1. /\ scars[s] \cap Windows = {}
          /\ results[s] = Rows => results'[s] = Rows
          /\ Importing(s) => results'[s] = Rows
      BY RowsStay
    <3>2. ~Importing(s) => results[s] = Rows
      BY <2>2, <3>1 DEF ReaderInv, ShownHasRows, Windows
    <3>3. QED
      BY <3>1, <3>2
  <2>3. QED
    BY <1>0, <2>1, <2>2
<1>2. ReadSoFar'
  <2> SUFFICES ASSUME reader.pc # "idle", reader.status = "completed", ~reader.early,
                      scars'[reader.sim] \cap Windows = {}
               PROVE  /\ results'[reader.sim] = Rows
                      /\ ~reader.missed =>
                           Rows \ reader.ahead \subseteq reader.simulationData
    BY DEF ReadSoFar, Windows
  <2>1. reader.sim \in Sims
    BY DEF ReaderInv, ReaderTypeOK, Reading, NoReading
  <2>2. /\ scars[reader.sim] \cap Windows = {}
        /\ results[reader.sim] = Rows => results'[reader.sim] = Rows
    BY <2>1, RowsStay
  <2>3. QED
    BY <2>2 DEF ReaderInv, ReadSoFar, Windows
<1>3. QED
  BY <1>1, <1>1a, <1>2 DEF ReaderInv

LEMMA ReadingKeeps ==
    ASSUME TypeOK, IInv, ReaderInv, ReaderNext, UNCHANGED vars
    PROVE  ReaderInv'
<1>0. ShownHasRows'
  <2>1. UNCHANGED shown
    BY DEF ReaderNext, ReadItem, ReadPage, ReadOver
  <2>2. \A s \in Sims : Importing(s)' = Importing(s)
    BY DEF Importing, vars
  <2>3. QED
    BY <2>1, <2>2 DEF ReaderInv, ShownHasRows, vars
<1>1. ASSUME NEW u \in Users, NEW s \in Sims, NEW status \in shown[s],
             ReadItem(u, s, status)
      PROVE  ReaderInv'
  <2>1. /\ reader' = [pc |-> "paging", sim |-> s, status |-> status,
                      ahead |-> Rows, simulationData |-> {},
                      early |-> Importing(s), missed |-> FALSE]
        /\ UNCHANGED shown
    BY <1>1 DEF ReadItem
  <2>2. ReaderTypeOK'
    BY <2>1 DEF ReaderInv, ReaderTypeOK, Reading, Importing
  <2>3. ReadSoFar'
    <3>1. CASE status = "completed" /\ ~Importing(s) /\ scars[s] \cap Windows = {}
      <4>1. results[s] = Rows
        BY <3>1 DEF ReaderInv, ShownHasRows, Windows
      <4>2. QED
        BY <2>1, <4>1 DEF ReadSoFar, vars
    <3>2. CASE ~(status = "completed" /\ ~Importing(s) /\ scars[s] \cap Windows = {})
      BY <2>1, <3>2 DEF ReadSoFar, Windows, vars
    <3>3. QED
      BY <3>1, <3>2
  <2>4. AnsweredIsPast'
    BY <2>1 DEF AnsweredIsPast
  <2>5. QED
    BY <1>0, <2>2, <2>3, <2>4 DEF ReaderInv
<1>2. ASSUME reader.pc = "paging", NEW page \in SUBSET reader.ahead \ {{}},
             ReadPage(page)
      PROVE  ReaderInv'
  <2>1. reader \in Reading
    BY <1>2 DEF ReaderInv, ReaderTypeOK, NoReading
  <2>2. PICK rows \in SUBSET (page \cap past[reader.sim].rows) :
           reader' = [reader EXCEPT
                        !.ahead = @ \ page,
                        !.simulationData = @ \cup rows,
                        !.missed = @ \/ ~(page \cap results[reader.sim] \subseteq rows),
                        !.pc = IF page = reader.ahead THEN "answered" ELSE "paging"]
    BY <1>2 DEF ReadPage
  <2>3. /\ reader'.sim = reader.sim
        /\ reader'.status = reader.status
        /\ reader'.early = reader.early
        /\ reader'.ahead = reader.ahead \ page
        /\ reader'.simulationData = reader.simulationData \cup rows
        /\ ~reader'.missed =>
             ~reader.missed /\ page \cap results[reader.sim] \subseteq rows
        /\ reader'.pc = IF page = reader.ahead THEN "answered" ELSE "paging"
    BY <2>1, <2>2 DEF Reading
  <2>4. ReaderTypeOK'
    <3>1. rows \in SUBSET Rows
      BY <2>1 DEF Reading
    <3>2. reader' \in Reading
      BY <1>2, <2>1, <2>2, <3>1 DEF Reading
    <3>3. QED
      BY <1>2, <3>2 DEF ReadPage, ReaderInv, ReaderTypeOK
  <2>5. ReadSoFar'
    BY <1>2, <2>1, <2>3 DEF ReaderInv, ReadSoFar, Reading, vars
  <2>6. AnsweredIsPast'
    BY <2>3 DEF AnsweredIsPast
  <2>7. QED
    BY <1>0, <2>4, <2>5, <2>6 DEF ReaderInv
<1>3. CASE ReadOver
  BY <1>0, <1>3
  DEF ReadOver, ReaderInv, ReaderTypeOK, ReadSoFar, AnsweredIsPast, NoReading
<1>4. QED
  BY <1>1, <1>2, <1>3 DEF ReaderNext

-----------------------------------------------------------------------------
(***************************************************************************)
(* In every reachable state a simulation that has ever said completed has  *)
(* its rows, and a request that is to answer completed has every row it    *)
(* has passed, outside the windows.                                        *)
(***************************************************************************)
THEOREM ReaderInvariance == ReaderSpec => []ReaderInv
<1>1. Init /\ ReaderInit => ReaderInv
  BY DEF ReaderInit, ReaderInv, ReaderTypeOK, ShownHasRows, ReadSoFar,
         AnsweredIsPast, NoReading
<1>2. ASSUME ReaderInv, TypeOK, TypeOK', IInv, IInv',
             [\/ Next /\ Show /\ UNCHANGED reader
              \/ ReaderNext /\ UNCHANGED vars]_allVars
      PROVE  ReaderInv'
  <2>1. CASE Next /\ Show /\ UNCHANGED reader
    BY <1>2, <2>1, LifeKeepsReading
  <2>2. CASE ReaderNext /\ UNCHANGED vars
    BY <1>2, <2>2, ReadingKeeps
  <2>3. CASE UNCHANGED allVars
    BY <1>2, <2>3, LifeKeepsReading DEF allVars
  <2>4. QED
    BY <1>2, <2>1, <2>2, <2>3
<1>3. QED
  BY <1>1, <1>2, LifeGoesOn, TypeCorrect, Invariance, PTL DEF ReaderSpec

(***************************************************************************)
(* An answer that says completed carries every row, outside the windows    *)
(* CompletedAnswersAreWhole names.                                         *)
(***************************************************************************)
THEOREM CompletedAnswersTheorem == ReaderSpec => []CompletedAnswersAreWhole
<1>1. ReaderInv => CompletedAnswersAreWhole
  <2> SUFFICES ASSUME ReaderInv, reader.pc = "answered", reader.status = "completed",
                      ~reader.early, ~reader.missed,
                      scars[reader.sim] \cap {"gaveUp", "torn", "erasing"} = {}
               PROVE  reader.simulationData = Rows
    BY DEF CompletedAnswersAreWhole
  <2>1. Rows \ reader.ahead \subseteq reader.simulationData /\ reader.ahead = {}
    BY DEF ReaderInv, ReadSoFar, AnsweredIsPast
  <2>2. reader.simulationData \subseteq Rows
    BY DEF ReaderInv, ReaderTypeOK, Reading, NoReading
  <2>3. QED
    BY <2>1, <2>2
<1>2. QED
  BY <1>1, ReaderInvariance, PTL
================================================================================
