------------------------------- MODULE TableSetup -------------------------------
(***************************************************************************)
(* scripts/create-tables.js: runs of the set-up that create the four       *)
(* DynamoDB tables and wait for each, started by hand, by a deployment or  *)
(* by every test suite (ensureTables), possibly at the same time, killed   *)
(* at any point and started again.                                         *)
(*                                                                         *)
(* A site is where a run's tables are: a place (DynamoDB Local or AWS) and *)
(* a naming of the four tables.  A table's name is given by a tag: the     *)
(* default name, that name with the test suffix, or any other (bounds: no  *)
(* two of the four tables are given the same name, and AWS is one region). *)
(***************************************************************************)
EXTENDS Integers, Sequences, FiniteSets

CONSTANTS
    Setups,     \* runs of the set-up that may go on at the same time
    Endpoints,  \* values of DYNAMODB_ENDPOINT, "unset" among them
    Local,      \* the endpoints isLocalEndpoint takes for DynamoDB Local: its
                \* pattern is not anchored, others may match it as well
    Place,      \* [Endpoints -> Places]: where an endpoint leads in truth
    Namings,    \* names the *_TABLE variables or the tables option may give
    Attempts,   \* polls in waitUntilActive before it gives up
    MaxStarts   \* bound: runs that are started in all

BASE_CAPACITY == 5
GSI_CAPACITY == 1
FREE_TIER_LIMIT == 25
TEST_SUFFIX == "-test"

\* The tables in the order of buildTableDefinitions, with their indexes.
Definitions == <<[table |-> "users",       indexes |-> {"email-index"}],
                 [table |-> "simulations", indexes |-> {"user-createdAt-index",
                                                        "status-createdAt-index"}],
                 [table |-> "results",     indexes |-> {}],
                 [table |-> "uniqueness",  indexes |-> {}]>>

Tables == DOMAIN Definitions

Places == {"local", "aws"}
Tags == {"", TEST_SUFFIX, "other"}

\* The default names with a suffix, or without.
Suffixed(suffix) == [k \in Tables |-> suffix]

ASSUME SetupAssumption ==
    /\ Local \subseteq Endpoints
    /\ "unset" \in Endpoints \ Local
    /\ Place \in [Endpoints -> Places]
    /\ Namings \subseteq [Tables -> Tags]
    /\ {Suffixed(""), Suffixed(TEST_SUFFIX)} \subseteq Namings

ASSUME BoundAssumption == Attempts \in Nat /\ MaxStarts \in Nat

\* sumProvisionedCapacity of the definitions in ks; read and write units are
\* the same throughout.
SumCapacity(ks) ==
    BASE_CAPACITY * Cardinality(ks)
      + GSI_CAPACITY * Cardinality(UNION {{k} \X Definitions[k].indexes : k \in ks})

Sites == [place: Places, names: Namings]

\* The table that a run at the site has as its k-th.
TableAt(site, k) == <<site.place, k, site.names[k]>>

VARIABLES
    status,   \* of every table, "absent" if there is none
    setups,   \* the runs
    gaveUp,   \* sites where a run has gone on without its table (history)
    started,  \* how many runs were started (bound)
    strayed   \* a run went to AWS by names of its own, or by an endpoint
              \* that is taken for DynamoDB Local (history)

vars == <<status, setups, gaveUp, started, strayed>>

Run == [pc: {"create", "wait"}, site: Sites, at: Tables,
        polls: 0..Attempts]

\* Not started, or ended: at the last table, by an error or by a signal.
Off == [pc |-> "off"]

TypeOK ==
    /\ status \in [Places \X Tables \X Tags -> {"absent", "CREATING", "ACTIVE"}]
    /\ setups \in [Setups -> Run \cup {Off}]
    /\ gaveUp \in SUBSET Sites
    /\ started \in 0 .. MaxStarts
    /\ strayed \in BOOLEAN

Init ==
    /\ status = [table \in Places \X Tables \X Tags |-> "absent"]
    /\ setups = [p \in Setups |-> Off]
    /\ gaveUp = {}
    /\ started = 0
    /\ strayed = FALSE

Running(p) == setups[p].pc \in {"create", "wait"}
TableOf(p) == TableAt(setups[p].site, setups[p].at)
StatusOf(p) == status[TableOf(p)]

-----------------------------------------------------------------------------
\* Without a suffix the *_TABLE variables name the tables.
resolveTables(suffix, env) == IF suffix = "" THEN env ELSE Suffixed(suffix)

\* Mutant: only main refuses test tables, and only without an endpoint.
Refused_CliOnly(endpoint, suffix) == SumCapacity(Tables) > FREE_TIER_LIMIT

\* ensureTables refuses a suffix at an endpoint that is not local, and more
\* capacity in its own tables than is free.
Refused(endpoint, suffix) ==
    \/ suffix # "" /\ endpoint \notin Local
    \/ SumCapacity(Tables) > FREE_TIER_LIMIT

\* The guard on the suffix does not see to it.
Strays(endpoint, suffix, site) ==
    /\ site.place = "aws"
    /\ site.names # Suffixed(suffix) \/ endpoint \in Local

\* A run begins; one that is refused throws before it calls DynamoDB.
ensureTables(p, endpoint, suffix, site) ==
    /\ ~Running(p) /\ started < MaxStarts
    /\ ~Refused(endpoint, suffix)
    /\ setups' = [setups EXCEPT
                    ![p] = [pc |-> "create", site |-> site, at |-> 1, polls |-> 0]]
    /\ started' = started + 1
    /\ strayed' = (strayed \/ Strays(endpoint, suffix, site))
    /\ UNCHANGED <<status, gaveUp>>

\* main refuses --test without an endpoint.
StartMain(p, endpoint, suffix, env) ==
    /\ ~(suffix = TEST_SUFFIX /\ endpoint = "unset")
    /\ ensureTables(p, endpoint, suffix,
                    [place |-> Place[endpoint], names |-> resolveTables(suffix, env)])

\* ensureTables is called by a suite or a script, which may hand in the names
\* (the tables option) and a client of its own, which leads to any place.
StartCall(p, endpoint, suffix, env) ==
    \E names \in {resolveTables(suffix, env)} \cup Namings, place \in Places :
        ensureTables(p, endpoint, suffix, [place |-> place, names |-> names])

\* The table that CreateTable leaves: AWS builds it, DynamoDB Local has it.
Created(p) ==
    IF StatusOf(p) # "absent" THEN StatusOf(p)
    ELSE IF TableOf(p)[1] = "local" THEN "ACTIVE" ELSE "CREATING"

\* What a run goes on to when it has done with a table.
NextTable(run) ==
    IF run.at = Len(Definitions) THEN Off
    ELSE [run EXCEPT !.pc = "create", !.at = @ + 1, !.polls = 0]

\* Mutant: a table that exists already is not waited for.
CreateTable_NoWait(p) ==
    /\ setups[p].pc = "create"
    /\ status' = [status EXCEPT ![TableOf(p)] = Created(p)]
    /\ setups' = [setups EXCEPT
                    ![p] = IF StatusOf(p) = "absent"
                           THEN [@ EXCEPT !.pc = "wait"] ELSE NextTable(@)]
    /\ UNCHANGED <<gaveUp, started, strayed>>

\* CreateTable is "created", or ResourceInUseException makes it "exists".
CreateTable(p) ==
    /\ setups[p].pc = "create"
    /\ status' = [status EXCEPT ![TableOf(p)] = Created(p)]
    /\ setups' = [setups EXCEPT ![p].pc = "wait"]
    /\ UNCHANGED <<gaveUp, started, strayed>>

\* CreateTable takes effect and its answer is lost: the run throws.
CreateLost(p) ==
    /\ setups[p].pc = "create"
    /\ status' = [status EXCEPT ![TableOf(p)] = Created(p)]
    /\ setups' = [setups EXCEPT ![p] = Off]
    /\ UNCHANGED <<gaveUp, started, strayed>>

\* Mutant: the wait is a loop without an end.
PollAgain_Forever(p) ==
    /\ setups[p].pc = "wait"
    /\ StatusOf(p) # "ACTIVE"
    /\ setups' = [setups EXCEPT ![p].polls = IF @ < Attempts THEN @ + 1 ELSE 0]
    /\ UNCHANGED <<status, gaveUp, started, strayed>>

\* DescribeTable finds the table not ACTIVE; the loop sleeps and goes round.
PollAgain(p) ==
    /\ setups[p].pc = "wait"
    /\ setups[p].polls < Attempts
    /\ StatusOf(p) # "ACTIVE"
    /\ setups' = [setups EXCEPT ![p].polls = @ + 1]
    /\ UNCHANGED <<status, gaveUp, started, strayed>>

\* Mutant: one definition too many.
Proceed_PastEnd(p) ==
    /\ setups[p].pc = "wait"
    /\ StatusOf(p) = "ACTIVE" \/ setups[p].polls = Attempts
    /\ setups' = [setups EXCEPT ![p].pc = "create", ![p].at = @ + 1, ![p].polls = 0]
    /\ UNCHANGED <<status, gaveUp, started, strayed>>

\* The table is ACTIVE, or the last look after all the polls is taken as it
\* is: its status goes into the report, and the next table is created.
Proceed(p) ==
    /\ setups[p].pc = "wait"
    /\ StatusOf(p) = "ACTIVE" \/ setups[p].polls = Attempts
    /\ setups' = [setups EXCEPT ![p] = NextTable(@)]
    /\ gaveUp' = IF StatusOf(p) = "ACTIVE" THEN gaveUp ELSE gaveUp \cup {setups[p].site}
    /\ UNCHANGED <<status, started, strayed>>

\* A call rejects (DescribeTable may not find a table just created), or the
\* process is killed.
Throws(p) ==
    /\ Running(p)
    /\ setups' = [setups EXCEPT ![p] = Off]
    /\ UNCHANGED <<status, gaveUp, started, strayed>>

\* DynamoDB finishes building a table.
Activate(table) ==
    /\ status[table] = "CREATING"
    /\ status' = [status EXCEPT ![table] = "ACTIVE"]
    /\ UNCHANGED <<setups, gaveUp, started, strayed>>

-----------------------------------------------------------------------------
Step(p) == CreateTable(p) \/ PollAgain(p) \/ Proceed(p)

Next ==
    \/ \E p \in Setups :
         \/ \E endpoint \in Endpoints, suffix \in {"", TEST_SUFFIX}, env \in Namings :
              StartMain(p, endpoint, suffix, env) \/ StartCall(p, endpoint, suffix, env)
         \/ Step(p)
         \/ CreateLost(p)
         \/ Throws(p)
    \/ \E table \in DOMAIN status : Activate(table)

Spec == Init /\ [][Next]_vars

(***************************************************************************)
(* A run goes on: the SDK answers or rejects, the timer of a sleep fires.  *)
(* DynamoDB owes nobody an ACTIVE table.                                   *)
(***************************************************************************)
Fairness == \A p \in Setups : WF_vars(Step(p))

FairSpec == Spec /\ Fairness

-----------------------------------------------------------------------------
\* The tables before the k-th of a site are ready.
ReadyBefore(site, k) == \A j \in Tables : j < k => status[TableAt(site, j)] = "ACTIVE"

(***************************************************************************)
(* Tables come up in order, each begun only when those before it are       *)
(* ready, however many runs there are, wherever they were killed and with  *)
(* whatever tables they share: a table that is there has a site at which   *)
(* all tables before it are.  Only where a run has used up its polls and   *)
(* gone on may this be different.  (The await of waitUntilActive between   *)
(* two createTable of ensureTables.)                                       *)
(***************************************************************************)
OneAfterTheOther ==
    \A table \in DOMAIN status : status[table] # "absent" =>
        \E site \in Sites :
            /\ TableAt(site, table[2]) = table
            /\ site \in gaveUp \/ ReadyBefore(site, table[2])

(***************************************************************************)
(* What is provisioned in AWS stays within the free tier, the tables of    *)
(* all names taken together: no sequence of runs, from the command line or *)
(* from the suites, puts the test tables there next to the others.  The    *)
(* guard is on the suffix and on what isLocalEndpoint takes for local: it  *)
(* says nothing once a run has gone to AWS by names of its own, or by an   *)
(* endpoint taken for local.  (The two refusals of ensureTables.)          *)
(***************************************************************************)
FreeTier ==
    LET built(tag) == {k \in Tables : status[<<"aws", k, tag>>] # "absent"}
    IN  ~strayed =>
          SumCapacity(built("")) + SumCapacity(built(TEST_SUFFIX))
            + SumCapacity(built("other")) <= FREE_TIER_LIMIT

\* The calls a run may still make: a table costs its creation and at most
\* Attempts + 1 looks.
CallsLeft(p) ==
    LET each == Attempts + 2
    IN  CASE setups[p].pc = "create" -> (Len(Definitions) + 1 - setups[p].at) * each
          [] setups[p].pc = "wait" ->
               (Len(Definitions) - setups[p].at) * each + Attempts + 1 - setups[p].polls
          [] OTHER -> 0

(***************************************************************************)
(* A run runs out of calls: it begins with those for four tables, and each *)
(* of its steps leaves it fewer, whatever other runs and DynamoDB do to    *)
(* the tables meanwhile, in the four waits together and not in each alone. *)
(***************************************************************************)
CallsRunOut ==
    [][\A p \in Setups : setups'[p] # setups[p] =>
          IF Running(p) THEN CallsLeft(p)' < CallsLeft(p)
          ELSE CallsLeft(p)' = Len(Definitions) * (Attempts + 2)]_vars

(***************************************************************************)
(* A run ends, even if DynamoDB never finishes a table.                    *)
(***************************************************************************)
SetupEnds == \A p \in Setups : Running(p) ~> ~Running(p)

-----------------------------------------------------------------------------
(* The inductive invariant.                                                *)

\* The tables before the one a run is at are ready, unless a run of its site
\* has gone on without one.
Behind(p) ==
    setups[p].pc # "off" =>
        setups[p].site \in gaveUp \/ ReadyBefore(setups[p].site, setups[p].at)

BehindIsReady == \A p \in Setups : Behind(p)

\* Unless a run has strayed, those in AWS use the default names.
DefaultInAws ==
    ~strayed =>
        /\ \A p \in Setups : setups[p].pc # "off" /\ setups[p].site.place = "aws" =>
             setups[p].site.names = Suffixed("")
        /\ \A k \in Tables, tag \in Tags \ {""} : status[<<"aws", k, tag>>] = "absent"

IInv ==
    /\ TypeOK
    /\ BehindIsReady
    /\ OneAfterTheOther
    /\ DefaultInAws
================================================================================
