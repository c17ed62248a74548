# DE-app: a verification project

DE-app is an Express API for differential-evolution experiments. Researchers
submit simulations, the API stores them in DynamoDB and sends one SQS job per
simulation, EC2 workers (a separate repository, `DE-forEC2`) run the jobs and
write results into the same tables, and the API serves them. The TLA+ modules
here model the parts of it that keep state, TLC checks them on small instances,
and TLAPS proves what matters most for every size. Paths below are relative to
the repository.

What makes this program hard is not any single function: every handler is a
short sequence of awaited calls, there are no transactions across them (but for
two in `models/user.js`), several requests and workers interleave at each
`await`, and every call may fail after the previous ones have taken effect.

## 1. Inventory

| Component | State | Operations | Interacts with |
|---|---|---|---|
| Simulation store (`models/simulation.js`) | simulations table, results table | `createSimulation`, `importSimulation`, `setStatus`, `updateProgress`, `saveResults`, `cancelSimulation`, `deleteSimulation(ById)`, `putResults`, `deleteResults`, `batchWrite`; reads | called by API and workers |
| Job queue (`config/sqs.js`, `docker/elasticmq`) | messages, visible or hidden | `sendSimulationJob`; receive, delete, visibility timeout (service) | filled by the API, emptied by workers |
| Simulation API (`controllers/simulationController.js`, `adminController.js`) | requests in progress | create, import, cancel, delete, admin delete; list, get, results (reads) | store, queue |
| Workers (external) | current job | poll, status check, `running`, progress, results, delete message | queue, store |
| E-mail registry (`models/user.js`) | users table, uniqueness table | `register`, `updateProfile` | registration and profile handlers |
| Account sessions (`authController`, `loginController`, `userController.changePassword`, `adminController.toggleSuspendUser`, `authMiddleware`, `models/user.js`) | `isActive`, `passwordHash`, `refreshTokenHash` | login, refresh, logout, changePassword, toggleSuspend | users table |
| Listing and results | the client's cursor; the query in progress | `getSimulation`, `listAll` (both models), `getResults`, `encodeCursor`, `decodeCursor` | tables, concurrently with all writers |
| Import parser (`utils/importParser.js`) | what it has read: parameters, rows, keys seen, errors | `parseImportFile`, `parseModel`, `validateMetadata` | import handler |
| Table set-up (`scripts/create-tables.js`) | tables absent, being created or active; runs in progress | `main`, `ensureTables`, `createTable`, `waitUntilActive` | DynamoDB, other runs of itself |
| Validation, pictures, health, logging, routing | none of their own | | |

What must hold, and what is hard about it:

- **A simulation is never lost.** It does not stay pending or running for ever,
  whatever crashes. Hard: put and send are two calls; workers die in mid-run.
- **Its status tells the truth.** Completed means all rows are there; a cancel
  never overwrites a result; a completed simulation is not restarted by a
  redelivered job. Hard: unconditional writes, at-least-once delivery, a batch
  write that may give up.
- **It belongs to its owner until removed, and then it is gone**, with its
  rows. Hard: DynamoDB updates create missing items; deletion is many calls.
- **An address belongs to one account.** Hard: uniqueness is a second table.
- **A session ends when it should.** Hard: every session handler reads the
  account and writes it a moment later without a condition.
- **A list is complete and repeats nothing.** Hard: it is read in pages, and
  some of those in internal pages, while items come, go and change.
- **Results go with their status.** Hard: the item and the rows are read one
  after the other, in pages, while workers write and deletes erase.
- **The set-up builds the tables in order, ends, and costs nothing.** Hard: it
  runs by hand, in deployments and before every suite, over tables that another
  run may be creating, under names that come from three places.
- **An import says what its file says.** Every wrong line is reported, every
  good one stored. Hard: one pass in which each line's meaning depends on the
  lines before it, and JavaScript's conversions and lookups.

`PROJECT.json` lists every hazard with its line, and the property that covers
it or the reason why none does yet.

## 2. The modules

| Module | Models | Depends on |
|---|---|---|
| `SimulationStore` | the two tables and each kind of write | |
| `JobQueue` | the SQS messages | `SimulationStore` |
| `SimulationApi` | the API's requests, step by step | `JobQueue` |
| `SimulationWorker` | the workers | `SimulationApi` |
| `SimulationLifecycle` | all of these composed; fairness; properties; inductive invariant | `SimulationWorker`, `OwnerView` |
| `OwnerView` | abstract specification: what its owner sees of a simulation | |
| `SimulationLifecycle_proofs` | theorems | `SimulationLifecycle` |
| `SimulationCompletion_proofs` | theorems about a timeout longer than any run | `SimulationLifecycle_proofs` |
| `EmailRegistry`, `EmailRegistry_proofs` | registration and address change; theorems | `Directory` |
| `Directory` | abstract specification: which account has which mailbox | |
| `AccountSessions`, `AccountSessions_proofs` | the session state of one account; theorems | `Session` |
| `Session` | abstract specification: what the session of an account is | |
| `ResultsReader`, `ResultsReader_proofs` | one results request beside the whole life cycle; theorems | `SimulationLifecycle` |
| `Listing`, `Listing_proofs` | one client paging through a list that changes; theorems | |
| `TableSetup`, `TableSetup_proofs` | runs of the table set-up; theorems | |
| `ImportParser`, `ImportParser_proofs` | the parser of imported files; theorems | |
| `MC_*` | small instances for TLC | |

`map` in `PROJECT.json` names, for every definition, the lines it stands for.
Definitions called `X_Something` under a comment that begins with "Mutant" are
faulty variants of `X`, used to see that a property notices the fault; nothing
else refers to them.

### Store, queue, API, workers

One step is one awaited call to DynamoDB or SQS together with everything the
handler does until it awaits again. A request is a record whose `pc` is the call
it awaits:

| Request | Steps |
|---|---|
| create | `CreatePut`, `CreateSend`, or `CreateSendRejected` then `CreateMark` |
| import | `ImportPut`, `ImportRows` until nothing is left |
| cancel | `CancelRead`, `CancelWrite` (the conditional update) |
| delete, admin delete | `DeleteRead` / `AdminDeleteRead`, `DeleteQuery`, `DeleteErase` until nothing is left, `DeleteDrop` |

A worker goes through `Receive`, `Check`, `Claim`, any number of `Report`, then
`RunDone`, `SaveRows` ..., `Flip` (or `RunFails`, or `RunAbandoned`), and `Ack`.

The data is reduced to what the properties tell apart. An item has an owner, a
status and `completedModels`; `NoItem` stands for an absent one, which is also
what `UpdateItem` starts from when it creates an item, so an upsert on a removed
simulation gives an item without owner. Status `none` is an item that has no
status attribute. `Rows` are the models of a run, one key each; `TotalModels` is
their number. Progress, best fitness, timestamps and parameters are left out:
progress and best fitness are written together with the fields that are kept.

`batchWrite` is a sequence of rounds. In each round some requests reach the
table, and some may be the ones it gives up after five attempts (a fault of kind
`giveUp`). Chunks of 25 are not told apart: a round may take any subset of what
is left, which allows everything that chunks do.

Failures, each kind switched on by `FaultKinds` and counted against `MaxFaults`:

| Kind | What happens |
|---|---|
| `reject` | an awaited DynamoDB call rejects, before or after it took effect (`CallRejected`, `CreatePutLost`, `ImportPutLost`; for the other writes "after" is the step followed by its end) |
| `send` | SQS refuses the message |
| `sendLost` | SQS accepts the message and the answer is lost |
| `giveUp` | `batchWrite` returns with requests unprocessed |
| `exit` | SIGTERM: `process.exit(0)`, all requests stop where they are |
| `workerCrash` | a worker is lost, its message stays hidden |

`scars` and `used` are history variables. `used` are the identifiers drawn;
`scars` records, per simulation, whether rows were given up, an import was torn,
a deletion has begun to list the rows it will erase, rows were written after
that, a page of the listing lagged, the create handler was cut off between put
and send or mark, and the answer to a send was lost. The properties name these
windows instead of hiding them; `flip_without_rows` shows the first, and section
4 says how the others come about.

Assumptions about what is not in this repository: the workers' control is taken
from `docs/context.md` and the comments of `models/simulation.js`. A worker
skips a simulation that is completed, cancelled, removed, or without status, and
what it does with a failed one is not documented, so it may run it or skip it.
`VisibilityCoversRun` states whether the visibility timeout exceeds the longest
run, as `docker/elasticmq/elasticmq.conf:28-30` demands of it.

Writes take effect one after the other; reads lag. No `GetCommand` or
`QueryCommand` of `models/simulation.js` sets `ConsistentRead`, so a read may
return any version there has been, older than one read before included. `past`
keeps as much of the versions as the handlers look at: the item as it was put,
and the rows ever written. From that a cancel or a delete may accept an item
that has been settled or removed since, and `DeleteQuery`, one step for each
page of the key listing of `deleteResults`, returns any of the rows the page's
keys have had. The scar `missed` says that such a page left out a row that was
there. Only the status read of the worker, `Check`, is current: it is not code
of this repository, and what it asks of DynamoDB is not documented.

### E-mail registry

`email` is the users table and `lock` the uniqueness table. `Register` is one
transaction. An edit is `EditRead`, then `EditTransact` or `EditConflict` if the
address changes, then `EditUpdate`, the closing update, which repeats an address
that was sent and had not changed. `EditFails` ends an edit between any two
calls. Addresses come in spellings; `Canonical` is what `normalizeEmail` does.

### Account sessions

All writes touch one account, so one account is modelled. Each handler is a read
(with its checks), then a write; `changePassword` reads twice. `minted`, `held`,
`retired` and `current` are history variables: the tokens signed, given to a
client, replaced or cleared, and going back to a login with the present
password. Tokens never expire here: expiry only takes possibilities away.

### Lagging reads and races

No read in this code asks for consistency, and `login` reads through an index,
so a read may return an item as it was before (`readable`: what a read may
return now). A write either is returned by every read from now on, or joins the
older versions until `CatchUp`; `MaxReadable` bounds how many versions there are
at a time. The uniqueness table is never read, only tested in transactions,
which are serialisable. A refresh is decided on one version of the item; a
password change may see two.

Overlapping requests and lagging reads are the rule, and most do no harm. Some
do, and the history variable `raced` of both modules records the first that can.
For sessions: a suspension or a password change lands between the checks and the
write of another request (`Overtake`), or a request passes its checks on an item
that is not the present one (`Trust`). Refreshes, logins, logouts and
reactivations may cross each other at will. For addresses: an address moves
while another edit of the same user still relies on the one it read (`Relies`,
`Overtake`), or an edit that sends an address computes the change from an
earlier one. Edits of different users, registrations, and edits of one user that
leave the address alone may overlap as they like. The properties name `raced`,
and the runs `emails_concurrent` and `sessions_reactivation` show what happens
then. That a retired token never returns holds without it.

Two abstract specifications say what the components promise as long as nothing
has raced. `Directory` has no lock table, no transactions and no calls in
progress: an account gets a mailbox that nobody has, in one step. Under the
mapping `MailboxOf`, `Register` and `EditTransact` are such steps, and every
other step, the closing update included, is a stutter. `Session` has neither
requests nor replicas: a session opens or goes on with a token never used
before, and only while the account is active; logout, suspension and a new
password end it in the step that takes effect. Each handler's reads are stutters
and its write is that step, so what was checked at the read must still hold at
the write. Both say nothing any more once something has raced, as the code
promises nothing then; what it does then is in section 4.

### Import parser

`parseImportFile` is a loop over lines, and `ImportParser` takes one line per
step, as the loop's body does: `Skip`, `Metadata` or `BadMetadata` for comments,
`ReadHeader` or `NoHeader` for the first text, `ReadRow` or `BadRow` after it,
and `EndOfFile`. A line is what the parser sees of it after splitting and
trimming (a blank, a comment's key and value, or columns); line ends, spaces and
the case of the header are not told apart, and error messages are reduced to
their line numbers. Numbers are in hundredths, the smallest unit a rule
mentions; `Number` maps words to numbers as JavaScript does, the empty word to
zero and different spellings to one number. `Inherited` are the names every
JavaScript object has a property for, which the lookups of `parseModel` find
too. `Grid`, `totalModels` and `computeTotalModels` are what the controller and
the model derive of the rows.

`ErrorsAreExact`, `AcceptsExactly` and `NothingLost` compare the one pass with
`WrongLines`, `Gives` and `Result`, which say of a whole file what is wrong with
it and what it holds by quantifying over its lines, without a memory.
`NothingLost` compares whole rows: identifiers, function and fitness, in both
directions.

### Listing

A position is a place in the order in which DynamoDB goes through a list, and
`entries` says what a read finds there now: nothing, an item that passes the
filter, or one that does not. `Change` stands for all writers and for the lag of
the index, so reads are eventually consistent here; the only thing a position
never does is move, as neither `createdAt` nor an identifier is ever updated.

`Request` is a handler up to its first query, `Evaluate` one item DynamoDB looks
at (items the filter holds back count against `Limit` too), and `PageAnswer`,
`NextRound` and `AllAnswer` what the code does with a query's answer: one page
with a limit, or, without one, the `do ... while` over internal pages.
`Returned` is DynamoDB's contract for `LastEvaluatedKey`: it may stop before
`Limit` (1 MB), and when it stops exactly at the end it may or may not return a
key. Cursors are the positions they encode; an item that has gone does not make
its cursor invalid. A failed request leaves the client its cursor. A
negative limit is no limit to `getSimulation` and is refused by DynamoDB in the
admin lists; that, and cursors that are not base64 of JSON (answered 400), are
left out.

The client is external: it sends the `nextCursor` it got until there is none.
`steady` is a history variable: the positions that have passed the filter ever
since the client began.

### Results

`ResultsReader` extends the composed life cycle with one request for results:
`ReadItem` (the item, its 404 and its 403), `ReadPage` per query of
`getResults`, whose page may end anywhere, and `ReadOver`. All these reads lag:
the status is any the item has had (`shown`), the rows of a page any its keys
have had. Two fields are history: `early`, an import of the simulation was still
writing its rows when the item was read, and `missed`, a page left out rows that
were in the table. What is left of the order of the reads is the property: a
simulation is completed after its rows are written, so a completed status of any
age stands beside all rows, unless it is the query of the rows that lags.

### Table set-up

A run is a record with the table it is at, what it awaits, and how often it has
polled; `Proceed` is the end of `waitUntilActive`, with a table that is active
or with the last look after all polls. `Step` is what a run does by itself,
`CreateLost` and `Throws` end it early (a rejected call, an answer lost, a kill).
`StartMain` begins one from the command line and `StartCall` by a call of
`ensureTables`, refusals included. A site is where the tables of a run are: a
place (DynamoDB Local or AWS) and a naming of the four. Names come from the
suffix, from the `*_TABLE` variables if there is no suffix (`resolveTables`), or
from the `tables` option, and are told apart by a tag: the default name, that
name with `-test`, any other. Where an endpoint leads (`Place`) and what
`isLocalEndpoint` takes it for (`Local`) are two constants: its pattern is not
anchored at the start, so that `https://gateway.example/dynamodb` passes for
DynamoDB Local. The `client` option leads anywhere. `strayed` is a
history variable: a run has got to AWS past the guard on the suffix, by names of
its own or by an endpoint taken for local. DynamoDB Local has a table at once,
AWS when `Activate` happens, which may be never. Credentials, several regions,
and namings that give two of the four tables one name are left out; so are
deletions of tables, which this repository never does. The wait of one second is
one poll.

## 3. The runs

| Run | Instance | Shows |
|---|---|---|
| `lifecycle_safety` | 1 simulation, 2 users, 1 row, 2 requests, 2 workers, 1 fault of any kind, timeout may expire during a run | types; ownership checks stay good; the inductive invariant; `OwnerView` is implemented |
| `lifecycle_rows` | 1 user, 2 rows, 1 request, 2 workers, 1 fault of any kind, timeout longer than a run; a results request beside it | completed simulations have their rows; no unreachable rows; a completed answer has all rows |
| `lifecycle_live` | 1 user, 1 row, 2 requests, 2 workers, 2 faults of any kind, timeout longer than a run; fairness | completed simulations stay completed and report all models; somebody stands behind each simulation in flight; no message goes before its job is settled; a queued job leaves pending and running; nothing hangs in pending unless its create handler was cut off |
| `flip_without_rows` | 2 rows, 1 request, 1 worker | completion without all rows |
| `listing` | 4 positions, internal pages of 2, cap of 3, limits 0 and 1, admin default 2, 1 failure; fairness | in order, nothing twice, nothing skipped, limits kept, no walking in circles, the walk ends |
| `table_setup` | 2 runs started, 4 endpoints, with and without suffix, 3 namings, 1 poll; fairness | one table after the other, free tier kept, calls run out, every run ends |
| `emails` | 3 accounts, 3 mailboxes in 4 spellings, 2 edits, 2 readable versions | unique addresses, matching locks, and `Directory` implemented, until an address moves that another edit relies on |
| `emails_concurrent` | the same without lagging reads | two accounts with one address after a race |
| `sessions` | 3 requests, 3 tokens, 2 passwords, 2 readable versions | tokens do not come back; until a suspension or a password change overtakes a check, they leave no session, and `Session` is implemented |
| `sessions_reactivation` | 3 requests, 2 tokens, no lagging reads | a session that survives a suspension |
| `import_parse` | files of up to 4 lines out of 19, no inherited name | exactly the wrong lines reported, exactly the valid files accepted, nothing of them lost or changed, no model counted twice |
| `import_inherited` | the same and a line with the name `constructor` | a row of no known model |

Why these bounds are enough to be of use. Simulations do not interact (every key
is a simulation identifier), so one is enough; two requests and two workers give
all pairwise races, and a request and two workers together give the redelivered
job racing a cancel or a delete. Two rows make a partly written batch possible,
and listings and answers of two pages; with them one request is as much as TLC
gets through, so the races of two requests for the rows of one simulation are
checked with one row, and proved for any number.
Two faults allow a failure during the handling of a failure. Three accounts and
three mailboxes are needed for an address released by one, taken by another, and
asked for by a third. Three session requests allow a login, a refresh and a
toggle to overlap; three tokens give two refreshes with a competing login. Two
readable versions give a check that passes on what is no longer so; a third
would be an older one of the same kind.
Four lines hold a header, a row, its repetition in another spelling and a wrong
line between them, or two parameters, a header and a comment after it; the
nineteen lines hold each way a line can be good or wrong.
Four positions, pages of two and a cap of three give a last internal page that
is cut, a page the filter empties, and a walk of several requests each of them
in several rounds; the three lists differ in filter and default limit. Two runs
of the set-up give every race for one table, and four tables are the real ones;
with one poll both ends of the wait happen, and more polls only repeat the
first. `MaxStarts` lets each of the two be started once, or one of them killed
and started again after itself; a run that is killed and restarted beside
another, and so on, is covered by the proofs, where the bound is arbitrary. The
three namings are those the suites' environment gives and a mixed one.
Symmetry is used in safety runs only.

Of the inductive invariants behind the proofs, `lifecycle_safety` checks its
`IInv`; the others hold on the instances of their runs too, but are proved and
not checked again with every run.

Deadlock is checked wherever workers exist: `AtRest` is the idle server, and any
other state without a successor would be an error. The registry and sessions
never deadlock (a finished registry keeps accepting edits). The parser returns,
and no run of the set-up is left to start after the last, so their runs switch it
off.

**Fairness** (`Fairness` in `SimulationLifecycle`) is weak fairness of each
request's next step (the event loop reaches every awaited call, and the AWS SDK
answers or times out), of each worker's next step, of some worker receiving a
visible message, and of the expiry of a visibility timeout. Nothing forces
users to send requests, workers to report progress, or anything to fail.
`QueuedJobsSettle` and `NeverHangsInPending` need it: without expiry a crashed
worker's job would stay hidden for ever.

`Listing` has weak fairness of the server's step (queries answer), of the client
taking an answer, and of its next request: a client that stops following its
cursors does not get to the end. `TableSetup` has weak fairness of each run's
own step (calls answer or reject, timers fire) and none of `Activate`: DynamoDB
owes nobody an active table, and `SetupEnds` holds all the same.

## 4. What the code does otherwise than it says

Each is a run that ends in a violation; `PROJECT.json` quotes the statements.

1. `flip_without_rows`: `batchWrite` swallows what it could not write.
2. `emails_concurrent`: overlapping edits of one user can give away an address
   twice. With lagging reads, edits one after the other are enough: the second
   reads the address the first has moved away from and, if it is sent once more,
   writes it without its lock.
   The victims need not be the user who raced: the transaction deletes the lock
   of the address it read, whoever holds it by then (`models/user.js:184-187`),
   so two edits of one user can unlock an address that a second has registered
   meanwhile, and a third registers it too. This is why `raced` is one flag for
   the whole registry and not one for each user.
3. `sessions_reactivation`: a login in flight across a suspension stores its
   token afterwards, and reactivation finds it. A login in flight across a
   password change does the same; `SessionHasPassword` without its condition on
   `raced` is violated that way.
4. `import_inherited`: the lookups of `parseModel` find what every object
   inherits, so `DE/best/1/binomial/constructor` is accepted as a model.

More effects are reachable in the model and have no run of their own.

- `setStatus` has no condition, so the mark of a failed send overwrites a cancel
  that was answered with 200 in between, although `models/simulation.js:323-324`
  says a terminal result must not be overwritten by a late cancel and
  `routes/simulationRoutes.js:364` calls all three such statuses terminal:
  `CompletedIsFinal` speaks of completed only.
  `OwnerView` is kept as permissive as that: a worker or a mark may follow a
  cancellation.
- A delete lists its rows once (`models/simulation.js:101-115`); rows that an
  import or a save in progress writes afterwards, and rows that a page of the
  listing misses because its query lags, stay without a simulation, although
  `docs/testing.md:238` says they are cascaded: the windows `overlap` and
  `missed` in `NoOrphanRows`.
- An import stores its item as completed before its rows, so an answer in
  between says completed and has few rows or none: the condition on `early` in
  `CompletedAnswersAreWhole`. A query that lags has the same effect (`missed`).
- When a table is still not active after all polls, `ensureTables` goes on, and
  `main` prints "All tables ready." (`scripts/create-tables.js:320`), whatever
  status the report has. No property covers that message; `OneAfterTheOther`
  names the site as a window (`gaveUp`).
- The guard that keeps test tables out of AWS is on the suffix. A run without
  one and with `USERS_TABLE=de-users-test` and the like in its environment, the
  `tables` or the `client` option of `ensureTables`, and an endpoint that
  `isLocalEndpoint` wrongly takes for local all bring a second set of tables
  there: the window `strayed` in `FreeTier`.
- A visibility timeout shorter than a run lets a report of a second delivery
  land after the completion and undo its count: the condition
  `VisibilityCoversRun` in `CompletedIsWhole` and others.

Two concern the create handler and are worth more words. The
create handler's promise that a simulation "never hangs in pending"
(`controllers/simulationController.js:18-20`) does not survive a second failing
call, and a SIGTERM between put and send has the same effect: both are the
window `cutOff` of `NeverHangsInPending` and `InFlightIsBacked`, which say that
nothing else does, these failures included when they meet any other request.
And the mark of
a refused send re-creates a simulation that was deleted meanwhile, with a status
and no owner, since `UpdateItem` creates what is missing and `setStatus` has no
condition; `OwnerView` shows such an item as removed.

## 5. What is proved

All theorems hold for every value of the constants that satisfies the named
assumptions (`StoreAssumption`, `ApiAssumption`, `WorkerAssumption`,
`EmailAssumption`, `SessionAssumption`, `ParserAssumption`, `ListingAssumption`,
`SetupAssumption`, `BoundAssumption`): finite non-empty `Rows`, distinct null
values, an idempotent `Canonical`. The visibility timeout, the kinds and the
number of faults are arbitrary, and so are the lines of a file and their number.

**Life cycle.** `TypeCorrect` first; then `Invariance`, that `IInv` is an
invariant. `OwnershipHolds`, `CompletedHasRows` and `NoOrphanRows` are not
inductive by themselves. `CompletedHasRows` needs to know what a save or an
import in progress has already written (`SaveSent`, `ImportSent`: rows not in
`todo` are in the table, unless given up or being erased) and that a worker that
is about to flip has nothing left. `NoOrphanRows` needs `ListedRowsOnly`: while
a delete is listing or erasing, what is in the table is what it has listed, or
has still to pass, unless a page lagged or rows were written after the listing
had begun. `OwnershipHolds` needs `OwnerIsFirst`: an item has the owner it was
put with or none, so that a check made on any version of it is good. All need
`DrawnFirst` (nothing exists for an identifier that was not drawn) and
`OwnedIsRegular` (an owned item has a proper status, one that lost its owner was
erased). Most actions write no rows and move at most one request, worker or
item; the lemma `RowsUntouchedKeeps` treats them as one class (`RowsUntouched`),
`ItemIsNewKeeps` the puts of a new item, and the five actions that write, list or
erase rows or remove the item have a lemma each.

`Refinement` shows that the composition implements `OwnerView` under the mapping
`ViewOf`: initial states map to initial states, and each step maps to a submit,
a work step, a cancel, a removal, or a stutter (`ItemSteps`, `ViewNext`). The
point is the conditional update in `CancelWrite`: it is what makes a cancel
happen only from pending or running, although it was decided on an earlier read.

`WholeTheorem` and `FinalTheorem` rest on `OnceInv`: before its job is sent a
simulation is handled by no worker and created by one request (`UnsentIsNew`);
with a covering timeout one worker at a time has a job, and its message is
hidden (`HandledOnce`), so that nothing runs a simulation once it is completed
(`NotRunAgain`). `CompletedIsFinal` excludes a simulation whose message SQS
accepted with the answer lost: there the late mark falls on one that is run.

`JobsTheorem` and `BackedTheorem` are what of the liveness properties can be
said without fairness. They need one more inductive part, `AckedIsSettled`: a
worker that is about to delete a message has a job that is settled. It holds
because of `OnceInv`: a job that is being acknowledged is handled by nobody
else, so nothing puts its simulation back to running. A message then goes only
when its job is settled (`JobsTheorem`), and each pending or running simulation
has its message in the queue or a request that is about to send or mark it
(`BackedTheorem`), unless its own create handler was cut off, as section 4 says.
What remains for fairness is that
the message is received and the job run.

**E-mail registry.** `LocksMatchTheorem` and `UniqueEmailsTheorem`, from
`IInv`: until something has raced, stored addresses are canonical, and an edit
that relies on the address it read still finds it there when it releases the old
lock or repeats it. `DirectoryTheorem`, that `Directory` is implemented, rests on the
same invariant: the lemma `WriteClaims` turns the test of the lock item in a
transaction into the abstract one, that no account has the mailbox, by
`LocksMatch`, and `NextDirectory` goes through the actions.

**Account sessions.** `RetiredTheorem` whatever races, from `Signed` and `SavedOnce` (a token waiting to be saved was
never stored and waits in one request only); `SuspendedTheorem` and
`PasswordTheorem` until something has raced, from `ReadIsCurrent`: a request
that is about to write has read an account that is still active, and a session
that is still so. The bound on readable versions is arbitrary. `SessionTheorem`,
that `Session` is implemented, takes from `SavedOnce` that the token a login or
refresh writes is fresh, from `ReadIsCurrent` that the account is active then,
and from `SuspendedHasNoSession` that reactivation finds no session.

**Import parser.** `ImportsFit` rests on `RowsKnown`: `seen` is exactly the keys
of the rows and no two rows share one, so the rows inject into the product of
the grid's four sets. `ReportsExactly` rests on `ReadInv`: the header has been
found once text has been read (`HeaderSeen`), a parameter is set if and only if
an earlier line sets it (`ParamsSeen`), a key is in `seen` if and only if an
earlier line gives that result (`ResultsSeen`), and the errors are exact.
`AcceptsTheorem` and `NothingLostTheorem` add `AnswerInv`: a parameter has the
value of a line that sets it (`ParamsRead`), of which a file without a wrong
line has one (`SetOnce`), and nothing is in `seen` that no line gives. That the
stored rows are the results of their lines, fitness included, is `RowsRead`,
and a result is given by one line only in an accepted file (`GivenOnce`). These
three assume that no name is inherited; the finding above is what happens
otherwise.

**Results.** `ReaderInvariance` rests on two parts. `ShownHasRows`: the rows of a
simulation that has ever said completed are all in the table, as a read that
lags may return that version at any time. `ReadSoFar`: a reading of a completed
simulation has every row it has passed, unless a page lagged. The lemma behind
both is `RowsStay`: outside the named windows no step takes a row away, and
windows never close.
`CompletedAnswersTheorem` follows, as the last page passes the last row.

**Listing.** `IInv` has three parts besides the types. `Between`: what is listed
lies up to the cursor, what a call holds lies between the cursor and the key it
has got to. `SoFar`: of what was there all along nothing is missing up to that
key, and a call that answers without a key has everything beyond the cursor.
`Room`: what a call holds and what its query may still evaluate fit the limit or
the cap. `InOrderTheorem`, `NothingSkippedTheorem` and `WithinCapTheorem` follow
for any number of positions, any page size, cap, limits and failures.
`WalkMovesOnTheorem` shows that the failures left, the distance of the cursor to
the end, and `StepsLeft` of the request decrease lexicographically in every step
but a change of the entries. The last part of `Between` is there for it: a query
that has evaluated something is beyond the cursor, and so is the key of an
answer.

**Table set-up.** `Behind`: the tables before the one a run is at are active
unless a run of its site has gone on without one. Together with
`OneAfterTheOther` it is inductive, because a table once active stays so.
`FreeTier` rests on `DefaultInAws`: unless a run has strayed, runs and tables in
AWS have the default names, and counting the capacity of that one set is enough.
`CallsTheorem` counts the calls a run may still make and shows that each of its
steps leaves fewer, for any number of polls.

**Model-checked only.** Liveness (`QueuedJobsSettle`, `NeverHangsInPending`,
`WalkEnds`, `SetupEnds`) is out of reach of the prover, which handles neither
fairness nor `ENABLED`. For each of the four the part that does not rest on
fairness is proved: `WalkMovesOn` and `CallsRunOut` are measures that every step
decreases, so that all that is left to fairness is that steps are taken;
`InFlightIsBacked` and `JobsLeaveSettled` say that there always is something for
fairness to act on. Everything else the passing runs check is proved.

## 6. What is left

- `batchWrite` in chunks and attempts, shown to implement the rounds that
  `SimulationStore` uses, with a grid that names a model twice.

### Not modelled

- Request validation (`validators/`, `middleware/validate.js`): range checks of
  one request at a time, without state. What the models need of it, at least one
  model per run, is an assumption on `Rows`.
- Profile pictures (`config/s3.js`): a presigned URL for another service; the
  attribute that is stored is part of `EditUpdate`.
- Health, logging, error rendering, routing and Swagger: wiring and wording,
  without state.
- Queue metrics (`getQueueStatus`): one read, shown to an admin.
