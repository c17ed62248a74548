----------------------------- MODULE ResultsReader -----------------------------
(***************************************************************************)
(* GET /simulation/get/:simulationId/results beside everything that writes:*)
(* the handler reads the item, checks its owner, then reads the result     *)
(* rows page by page, and answers with the status of the item it read      *)
(* first.  Between those reads workers save, imports go on, and deletes    *)
(* erase.  The reader writes nothing, so the life cycle is unchanged.      *)
(***************************************************************************)
EXTENDS SimulationLifecycle

VARIABLES
    reader,  \* one such request
    shown    \* [Sims -> SUBSET Statuses]: what its item has said so far

allVars == <<vars, reader, shown>>

NoReading == [pc |-> "idle"]

\* ahead: the rows whose keys the query has still to pass.  Two of the fields
\* are history: early, an import of the simulation was still writing when its
\* item was read; missed, a page lagged and left out rows that were there.
Reading == [pc: {"paging", "answered"}, sim: Sims, status: Statuses,
            ahead: SUBSET Rows, simulationData: SUBSET Rows,
            early: BOOLEAN, missed: BOOLEAN]

ReaderTypeOK ==
    /\ reader \in Reading \cup {NoReading}
    /\ shown \in [Sims -> SUBSET Statuses]

ReaderInit ==
    /\ reader = NoReading
    /\ shown = [s \in Sims |-> {}]

\* Goes with every step of the life cycle: the statuses of an owned item.
Show == shown' = [s \in Sims |-> shown[s] \cup {k \in {sims'[s].status} : Owned(s)'}]

Importing(s) == \E r \in Requests : reqs[r].pc = "rows" /\ reqs[r].sim = s

\* getSimulationById and the two checks: 404 without an item, 403 unless the
\* item is the caller's own.  The read may lag: any version the item has had.
ReadItem(u, s, status) ==
    /\ reader.pc = "idle"
    /\ past[s].item.owner = u
    /\ reader' = [pc |-> "paging", sim |-> s, status |-> status,
                  ahead |-> Rows, simulationData |-> {},
                  early |-> Importing(s), missed |-> FALSE]
    /\ UNCHANGED shown

\* Mutant: the status is looked up again once the rows are there.
ReadPage_FreshStatus(page) ==
    /\ reader.pc = "paging"
    /\ \E rows \in SUBSET (page \cap past[reader.sim].rows) :
         reader' = [reader EXCEPT
                      !.ahead = @ \ page,
                      !.simulationData = @ \cup rows,
                      !.status = IF Owned(reader.sim) THEN sims[reader.sim].status ELSE @,
                      !.missed = @ \/ ~(page \cap results[reader.sim] \subseteq rows),
                      !.pc = IF page = reader.ahead THEN "answered" ELSE "paging"]
    /\ UNCHANGED shown

\* One query of getResults passes over some keys and returns some of the rows
\* that are there, or have been; with the last key passed there is no
\* LastEvaluatedKey, and the handler answers.
ReadPage(page) ==
    /\ reader.pc = "paging"
    /\ \E rows \in SUBSET (page \cap past[reader.sim].rows) :
         reader' = [reader EXCEPT
                      !.ahead = @ \ page,
                      !.simulationData = @ \cup rows,
                      !.missed = @ \/ ~(page \cap results[reader.sim] \subseteq rows),
                      !.pc = IF page = reader.ahead THEN "answered" ELSE "paging"]
    /\ UNCHANGED shown

\* The answer is out, or a read has rejected, or the process is gone.
ReadOver ==
    /\ reader.pc # "idle"
    /\ reader' = NoReading
    /\ UNCHANGED shown

ReaderNext ==
    \/ \E u \in Users, s \in Sims : \E status \in shown[s] : ReadItem(u, s, status)
    \/ reader.pc = "paging" /\ \E page \in SUBSET reader.ahead \ {{}} : ReadPage(page)
    \/ ReadOver

ReaderSpec ==
    /\ Init /\ ReaderInit
    /\ [][\/ Next /\ Show /\ UNCHANGED reader
          \/ ReaderNext /\ UNCHANGED vars]_allVars

-----------------------------------------------------------------------------
(***************************************************************************)
(* An answer that says completed has all the rows, however old the version *)
(* of the item it took its status from, and whatever runs, redeliveries    *)
(* and cancels there have been since: the item is read before the rows.    *)
(* Four things spoil it: a page of the query lags and misses rows that are *)
(* in the table; the item is read while its import is still writing, for   *)
(* an import stores its item as completed first; rows were given up or an  *)
(* import was torn; a delete has begun.                                    *)
(***************************************************************************)
CompletedAnswersAreWhole ==
    /\ reader.pc = "answered"
    /\ reader.status = "completed"
    /\ ~reader.early
    /\ ~reader.missed
    /\ scars[reader.sim] \cap {"gaveUp", "torn", "erasing"} = {}
    => reader.simulationData = Rows

-----------------------------------------------------------------------------
(* The inductive invariant, with IInv of the life cycle.                   *)

\* The rows of a simulation that has ever said completed are in the table.
ShownHasRows ==
    \A s \in Sims :
        /\ "completed" \in shown[s]
        /\ ~Importing(s)
        /\ scars[s] \cap {"gaveUp", "torn", "erasing"} = {}
        => results[s] = Rows

\* What a reading of a completed simulation has passed, it has.
ReadSoFar ==
    /\ reader.pc # "idle"
    /\ reader.status = "completed"
    /\ ~reader.early
    /\ scars[reader.sim] \cap {"gaveUp", "torn", "erasing"} = {}
    => /\ results[reader.sim] = Rows
       /\ ~reader.missed => Rows \ reader.ahead \subseteq reader.simulationData

AnsweredIsPast == reader.pc = "answered" => reader.ahead = {}

ReaderInv ==
    /\ ReaderTypeOK
    /\ ShownHasRows
    /\ ReadSoFar
    /\ AnsweredIsPast
================================================================================
