--------------------------- MODULE SimulationStore ---------------------------
(***************************************************************************)
(* The two DynamoDB tables behind models/simulation.js: one item per       *)
(* simulation and one result item per (simulation, model) pair, with the   *)
(* write operations the repository functions send to them.                 *)
(*                                                                         *)
(* Every operator below that primes a variable is ONE call to DynamoDB; a  *)
(* function that awaits several calls is several steps of its caller.      *)
(* UpdateItem is an upsert: on a key without an item it creates one that   *)
(* holds only the attributes the expression sets.  NoItem is therefore an  *)
(* item all of whose attributes are missing, and an item written by such   *)
(* an upsert has no owner (and, after updateProgress, no status).          *)
(*                                                                         *)
(* Writes take effect in one order.  Reads are eventually consistent (no   *)
(* Get or Query sets ConsistentRead): a read may miss any of the latest    *)
(* writes to what it reads, deletes included, and nothing says how many.   *)
(* It may therefore return any version of an item or a row that there has  *)
(* been; `past` keeps as much of them as the handlers look at.             *)
(***************************************************************************)
EXTENDS Integers, FiniteSets

CONSTANTS
    Sims,        \* the identifiers crypto.randomUUID may return
    Users,
    NoUser,      \* a missing userId attribute
    Rows,        \* the models of one run: one result row each
    FaultKinds,  \* which kinds of failure the environment may produce ...
    MaxFaults    \* ... and how many of them in one behaviour

ASSUME StoreAssumption ==
    /\ NoUser \notin Users
    /\ IsFiniteSet(Rows)
    /\ Rows # {}   \* the validators and the import parser demand one model
    /\ MaxFaults \in Nat

VARIABLES
    sims,     \* [Sims -> Item]: the simulations table
    results,  \* [Sims -> SUBSET Rows]: the results table, by partition key
    used,     \* the identifiers already drawn
    past,     \* [Sims -> Past]: what a read that lags may still return
    scars,    \* what has happened to each simulation (history variable)
    faults    \* failures so far

storeVars == <<sims, results, used, past, scars, faults>>

InFlight == {"pending", "running"}
Terminal == {"completed", "failed", "cancelled"}
Statuses == InFlight \cup Terminal
TotalModels == Cardinality(Rows)

Item == [owner: Users \cup {NoUser},
         status: Statuses \cup {"none", "absent"},
         completedModels: 0..TotalModels]

NoItem == [owner |-> NoUser, status |-> "absent", completedModels |-> 0]
NewItem(u) == [owner |-> u, status |-> "pending", completedModels |-> 0]
ImportedItem(u) ==
    [owner |-> u, status |-> "completed", completedModels |-> TotalModels]

\* The item as it was first put, and the rows ever written.
Past == [item: Item, rows: SUBSET Rows]

Exists(s) == sims[s].status # "absent"
Owned(s) == sims[s].owner # NoUser

(***************************************************************************)
(* Scars of a simulation: "gaveUp" batchWrite returned with rows it never  *)
(* wrote; "torn" an import ended between its item and its last row;        *)
(* "erasing" a deletion has begun to list the row keys it will erase;      *)
(* "overlap" rows were written after such a listing had begun; "missed" a  *)
(* page of the listing lagged and left out rows that were in the table;    *)
(* "cutOff" its create handler ended between the put and the send or the   *)
(* mark; "sendLost" its job was sent, but the answer did not arrive.       *)
(***************************************************************************)
Scars == {"gaveUp", "torn", "erasing", "overlap", "missed", "cutOff", "sendLost"}
Scar(s, what) == scars' = [scars EXCEPT ![s] = @ \cup what]

Fault(kind) ==
    /\ kind \in FaultKinds
    /\ faults < MaxFaults
    /\ faults' = faults + 1

StoreTypeOK ==
    /\ sims \in [Sims -> Item]
    /\ results \in [Sims -> SUBSET Rows]
    /\ used \in SUBSET Sims
    /\ past \in [Sims -> Past]
    /\ scars \in [Sims -> SUBSET Scars]
    /\ faults \in 0..MaxFaults

StoreInit ==
    /\ sims = [s \in Sims |-> NoItem]
    /\ results = [s \in Sims |-> {}]
    /\ used = {}
    /\ past = [s \in Sims |-> [item |-> NoItem, rows |-> {}]]
    /\ scars = [s \in Sims |-> {}]
    /\ faults = 0

-----------------------------------------------------------------------------
(* Item writes.  Each leaves the other variables to its caller.            *)

PutItem(s, item) ==
    /\ s \notin used
    /\ used' = used \cup {s}
    /\ sims' = [sims EXCEPT ![s] = item]
    /\ past' = [past EXCEPT ![s].item = item]

SetStatus(s, status) == sims' = [sims EXCEPT ![s].status = status]

UpdateProgress(s, n) ==
    sims' = [sims EXCEPT
               ![s] = [owner |-> @.owner,
                       status |-> IF Exists(s) THEN @.status ELSE "none",
                       completedModels |-> n]]

\* Mutant: the closing update leaves completedModels as the last report.
CompleteItem_KeepCount(s) == sims' = [sims EXCEPT ![s].status = "completed"]

\* Mutant: the closing update leaves out the status.
CompleteItem_KeepStatus(s) == sims' = [sims EXCEPT ![s].completedModels = TotalModels]

\* Mutant: a redelivered run adds its rows to the count instead of setting it.
CompleteItem_Adds(s) ==
    sims' = [sims EXCEPT ![s] = [owner |-> @.owner, status |-> "completed",
                                 completedModels |-> @.completedModels + TotalModels]]

CompleteItem(s) ==
    sims' = [sims EXCEPT ![s] = [owner |-> @.owner, status |-> "completed",
                                 completedModels |-> TotalModels]]

DeleteItem(s) == sims' = [sims EXCEPT ![s] = NoItem]

-----------------------------------------------------------------------------
(* Row writes.  batchWrite works through its requests in chunks, sends     *)
(* each chunk at most five times, and returns normally even when requests  *)
(* are still unprocessed.  One round: of the requests in todo, `done`      *)
(* reach the table and `lost` are the ones just given up.                  *)

Rounds(todo) ==
    {r \in [done: SUBSET todo, lost: SUBSET todo] :
        /\ r.done \cap r.lost = {}
        /\ r.done \cup r.lost # {}}

After(todo, round) == todo \ (round.done \cup round.lost)

BatchFault(round) ==
    IF round.lost = {} THEN UNCHANGED faults ELSE Fault("giveUp")

PutRows(s, round) ==
    /\ results' = [results EXCEPT ![s] = @ \cup round.done]
    /\ past' = [past EXCEPT ![s].rows = @ \cup round.done]
    /\ Scar(s, {k \in {"gaveUp"} : round.lost # {}}
                 \cup {k \in {"overlap"} : "erasing" \in scars[s]})
    /\ BatchFault(round)

EraseRows(s, round) ==
    /\ results' = [results EXCEPT ![s] = @ \ round.done]
    /\ Scar(s, {k \in {"gaveUp"} : round.lost # {}})
    /\ BatchFault(round)
=============================================================================
