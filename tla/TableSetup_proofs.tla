--------------------------- MODULE TableSetup_proofs ---------------------------
(***************************************************************************)
(* Theorems of TableSetup, for every number of runs, polls and endpoints,  *)
(* whatever names the tables are given.                                    *)
(***************************************************************************)
EXTENDS TableSetup, FiniteSetTheorems, TLAPS

LEMMA FourTables == Tables = 1..4 /\ Len(Definitions) = 4
BY DEF Tables, Definitions

LEMMA FirstTable ==
    /\ 1 \in Tables
    /\ 0 \in 0..Attempts
    /\ \A k \in Tables : ~(k < 1)
BY FourTables, BoundAssumption

LEMMA OneMore ==
    ASSUME NEW m \in Nat, NEW n \in 0 .. m, n < m
    PROVE  n + 1 \in 0 .. m
OBVIOUS

LEMMA TableType ==
    ASSUME NEW site \in Sites, NEW k \in Tables
    PROVE  /\ TableAt(site, k) \in Places \X Tables \X Tags
           /\ TableAt(site, k)[1] = site.place
           /\ TableAt(site, k)[2] = k
           /\ TableAt(site, k)[3] = site.names[k]
<1>1. site.place \in Places /\ site.names \in [Tables -> Tags]
  BY SetupAssumption DEF Sites
<1>2. QED
  BY <1>1 DEF TableAt

LEMMA RunType ==
    ASSUME TypeOK, NEW p \in Setups, setups[p].pc # "off"
    PROVE  /\ setups[p] \in Run
           /\ setups[p].site \in Sites
           /\ setups[p].at \in Tables
           /\ TableOf(p) \in Places \X Tables \X Tags
<1>1. setups[p] \in Run
  BY DEF TypeOK, Off
<1>2. setups[p].site \in Sites /\ setups[p].at \in Tables
  BY <1>1 DEF Run
<1>3. QED
  BY <1>1, <1>2, TableType DEF TableOf

\* A table never goes back, and a site that has been given up stays so.
Grows ==
    /\ \A table \in Places \X Tables \X Tags :
         /\ status[table] = "ACTIVE" => status'[table] = "ACTIVE"
         /\ status[table] # "absent" => status'[table] # "absent"
    /\ gaveUp \subseteq gaveUp'

LEMMA OthersKeep ==
    ASSUME TypeOK, Grows, NEW q \in Setups, setups'[q] = setups[q], Behind(q)
    PROVE  Behind(q)'
<1> SUFFICES ASSUME setups[q].pc # "off" PROVE Behind(q)'
  BY DEF Behind
<1>1. setups[q].site \in Sites
  BY RunType
<1>2. CASE setups[q].site \in gaveUp
  BY <1>2 DEF Behind, Grows
<1>3. CASE ReadyBefore(setups[q].site, setups[q].at)
  <2>1. ReadyBefore(setups[q].site, setups[q].at)'
    <3>1. \A j \in Tables : j < setups[q].at =>
             status'[TableAt(setups[q].site, j)] = "ACTIVE"
      BY <1>1, <1>3, TableType DEF ReadyBefore, Grows
    <3>2. QED
      BY <3>1 DEF ReadyBefore
  <2>2. QED
    BY <2>1 DEF Behind
<1>4. QED
  BY <1>2, <1>3 DEF Behind

\* A table that has a site with those before it ready goes on to have one.
LEMMA OrderStays ==
    ASSUME IInv, Grows, NEW table \in Places \X Tables \X Tags, status[table] # "absent"
    PROVE  \E site \in Sites :
              /\ TableAt(site, table[2]) = table
              /\ site \in gaveUp' \/ ReadyBefore(site, table[2])'
<1>1. DOMAIN status = Places \X Tables \X Tags
  BY DEF IInv, TypeOK
<1>2. PICK site \in Sites :
        /\ TableAt(site, table[2]) = table
        /\ site \in gaveUp \/ ReadyBefore(site, table[2])
  BY <1>1 DEF IInv, OneAfterTheOther
<1>3. ReadyBefore(site, table[2]) => ReadyBefore(site, table[2])'
  BY TableType DEF ReadyBefore, Grows
<1>4. QED
  BY <1>2, <1>3 DEF Grows

(***************************************************************************)
(* The invariant, one step at a time.                                      *)
(***************************************************************************)
LEMMA InitInvariant == Init => IInv
<1> SUFFICES ASSUME Init PROVE IInv
  OBVIOUS
<1>1. TypeOK
  <2>1. 0 \in 0 .. MaxStarts
    BY BoundAssumption
  <2>2. QED
    BY <2>1 DEF Init, TypeOK
<1>2. BehindIsReady
  BY DEF Init, BehindIsReady, Behind, Off
<1>3. OneAfterTheOther
  BY DEF Init, OneAfterTheOther
<1>4. DefaultInAws
  BY DEF Init, DefaultInAws, Off, Places
<1>5. QED
  BY <1>1, <1>2, <1>3, <1>4 DEF IInv

\* Every way a run is started is a call of ensureTables for some site.
LEMMA StartsAtSite ==
    ASSUME NEW p \in Setups, NEW endpoint \in Endpoints,
           NEW suffix \in {"", TEST_SUFFIX}, NEW env \in Namings,
           StartMain(p, endpoint, suffix, env) \/ StartCall(p, endpoint, suffix, env)
    PROVE  \E site \in Sites : ensureTables(p, endpoint, suffix, site)
<1>1. resolveTables(suffix, env) \in Namings
  BY SetupAssumption DEF resolveTables
<1>2. Place[endpoint] \in Places
  BY SetupAssumption
<1>3. QED
  BY <1>1, <1>2 DEF StartMain, StartCall, Sites

LEMMA StartInvariant ==
    ASSUME IInv, NEW p \in Setups, NEW endpoint \in Endpoints,
           NEW suffix \in {"", TEST_SUFFIX}, NEW site \in Sites,
           ensureTables(p, endpoint, suffix, site)
    PROVE  IInv'
<1> DEFINE run == [pc |-> "create", site |-> site, at |-> 1, polls |-> 0]
<1>1. /\ setups' = [setups EXCEPT ![p] = run]
      /\ started' = started + 1 /\ started < MaxStarts
      /\ strayed' = (strayed \/ Strays(endpoint, suffix, site))
      /\ status' = status
      /\ gaveUp' = gaveUp
  BY DEF ensureTables
<1>2. run \in Run
  BY FirstTable DEF Run
<1>3. started' \in 0 .. MaxStarts
  <2>1. started \in 0 .. MaxStarts
    BY DEF IInv, TypeOK
  <2>2. started' = started + 1 /\ started < MaxStarts
    BY <1>1
  <2>3. QED
    BY <2>1, <2>2, BoundAssumption, OneMore
<1>4. strayed' \in BOOLEAN
  BY <1>1 DEF IInv, TypeOK, Strays
<1>5. TypeOK'
  BY <1>1, <1>2, <1>3, <1>4 DEF IInv, TypeOK
<1>6. setups'[p] = run /\ \A q \in Setups : q # p => setups'[q] = setups[q]
  BY <1>1 DEF IInv, TypeOK
<1>7. BehindIsReady'
  <2> SUFFICES ASSUME NEW q \in Setups PROVE Behind(q)'
    BY DEF BehindIsReady
  <2>1. CASE q = p
    <3>0. run.at = 1
      OBVIOUS
    <3>1. setups'[q].at = 1
      BY <1>6, <2>1, <3>0
    <3>2. QED
      BY <3>1, FirstTable DEF Behind, ReadyBefore
  <2>2. CASE q # p
    <3>1. Grows
      BY <1>1 DEF Grows
    <3>2. QED
      BY <1>6, <2>2, <3>1, OthersKeep DEF IInv, BehindIsReady
  <2>3. QED
    BY <2>1, <2>2
<1>8. OneAfterTheOther'
  BY <1>1 DEF IInv, OneAfterTheOther, ReadyBefore
<1>9. DefaultInAws'
  <2> SUFFICES ASSUME ~strayed' PROVE DefaultInAws'
    BY DEF DefaultInAws
  <2>1. ~strayed /\ ~Strays(endpoint, suffix, site)
    BY <1>1
  <2>2. site.place = "aws" => site.names = Suffixed("")
    <3> SUFFICES ASSUME site.place = "aws" PROVE site.names = Suffixed("")
      OBVIOUS
    <3>1. site.names = Suffixed(suffix) /\ endpoint \notin Local
      BY <2>1 DEF Strays
    <3>2. suffix = ""
      BY <3>1 DEF ensureTables, Refused
    <3>3. QED
      BY <3>1, <3>2
  <2>3. ASSUME NEW q \in Setups, setups'[q].pc # "off", setups'[q].site.place = "aws"
        PROVE  setups'[q].site.names = Suffixed("")
    <3>1. CASE q = p
      <4>1. run.site = site
        OBVIOUS
      <4> HIDE DEF run
      <4>2. QED
        BY <1>6, <2>2, <2>3, <3>1, <4>1
    <3>2. CASE q # p
      BY <1>6, <2>1, <2>3, <3>2 DEF IInv, DefaultInAws
    <3>3. QED
      BY <3>1, <3>2
  <2>4. QED
    BY <1>1, <2>1, <2>3 DEF IInv, DefaultInAws
<1>10. QED
  BY <1>5, <1>7, <1>8, <1>9 DEF IInv

\* What CreateTable does to the tables, whether or not its answer arrives:
\* the new table comes after tables that are ready, and under its own name.
LEMMA CreatedKeeps ==
    ASSUME IInv, NEW p \in Setups, setups[p].pc = "create",
           gaveUp' = gaveUp, strayed' = strayed,
           status' = [status EXCEPT ![TableOf(p)] = Created(p)]
    PROVE  /\ status' \in [Places \X Tables \X Tags -> {"absent", "CREATING", "ACTIVE"}]
           /\ Grows
           /\ OneAfterTheOther'
           /\ ~strayed => \A k \in Tables, tag \in Tags \ {""} :
                             status'[<<"aws", k, tag>>] = "absent"
<1> DEFINE site == setups[p].site
           at == setups[p].at
           new == TableOf(p)
<1>1. /\ status \in [Places \X Tables \X Tags -> {"absent", "CREATING", "ACTIVE"}]
      /\ site \in Sites /\ at \in Tables /\ new \in Places \X Tables \X Tags
      /\ new = TableAt(site, at)
  BY RunType DEF IInv, TypeOK, TableOf
<1>2. /\ Created(p) \in {"CREATING", "ACTIVE"}
      /\ status[new] # "absent" => Created(p) = status[new]
  BY <1>1 DEF Created, StatusOf
<1>3. \A table \in Places \X Tables \X Tags :
        status'[table] = IF table = new THEN Created(p) ELSE status[table]
  BY <1>1
<1>4. status' \in [Places \X Tables \X Tags -> {"absent", "CREATING", "ACTIVE"}]
  BY <1>1, <1>2
<1>5. Grows
  BY <1>2, <1>3 DEF Grows
<1>6. OneAfterTheOther'
  <2> SUFFICES ASSUME NEW table \in Places \X Tables \X Tags, status'[table] # "absent"
               PROVE  \E x \in Sites : /\ TableAt(x, table[2]) = table
                                       /\ x \in gaveUp' \/ ReadyBefore(x, table[2])'
    BY <1>4 DEF OneAfterTheOther
  <2>1. CASE status[table] # "absent"
    BY <1>5, <2>1, OrderStays
  <2>2. CASE status[table] = "absent"
    <3>1. table = TableAt(site, at) /\ table[2] = at
      BY <1>1, <1>3, <2>2, TableType
    <3>2. site \in gaveUp \/ ReadyBefore(site, at)
      BY DEF IInv, BehindIsReady, Behind
    <3>3. PICK x \in Sites : x = site
      BY <1>1
    <3>4. ReadyBefore(x, table[2]) => ReadyBefore(x, table[2])'
      BY <1>5, TableType DEF ReadyBefore, Grows
    <3>5. x \in gaveUp' \/ ReadyBefore(x, table[2])'
      BY <3>1, <3>2, <3>3, <3>4
    <3>6. QED
      BY <3>1, <3>3, <3>5
  <2>3. QED
    BY <2>1, <2>2
<1>7. ASSUME ~strayed, NEW k \in Tables, NEW tag \in Tags \ {""}
      PROVE  status'[<<"aws", k, tag>>] = "absent"
  <2>1. <<"aws", k, tag>> \in Places \X Tables \X Tags
    BY DEF Places
  <2>2. <<"aws", k, tag>> # new
    <3> SUFFICES ASSUME <<"aws", k, tag>> = new PROVE FALSE
      OBVIOUS
    <3>0. <<"aws", k, tag>> = <<site.place, at, site.names[at]>>
      BY DEF TableOf, TableAt
    <3>1. site.place = "aws" /\ at = k /\ site.names[at] = tag
      BY <3>0
    <3>2. site.names = Suffixed("")
      BY <1>7, <3>1 DEF IInv, DefaultInAws
    <3>3. site.names[at] = ""
      BY <1>1, <3>2 DEF Suffixed
    <3>4. QED
      BY <3>1, <3>3
  <2>3. status[<<"aws", k, tag>>] = "absent"
    BY <1>7 DEF IInv, DefaultInAws
  <2>4. QED
    BY <1>3, <2>1, <2>2, <2>3
<1>8. QED
  BY <1>4, <1>5, <1>6, <1>7

\* A step of one run that leaves its site: what is left to show is about
\* the tables and that run.
LEMMA OneRunMoves ==
    ASSUME IInv, NEW p \in Setups, NEW new \in Run \cup {Off},
           setups[p].pc # "off",
           setups' = [setups EXCEPT ![p] = new],
           started' = started, strayed' = strayed,
           status' \in [Places \X Tables \X Tags -> {"absent", "CREATING", "ACTIVE"}],
           Grows, gaveUp' \subseteq Sites,
           OneAfterTheOther',
           ~strayed => \A k \in Tables, tag \in Tags \ {""} :
                          status'[<<"aws", k, tag>>] = "absent",
           new.pc # "off" => new.site = setups[p].site,
           new.pc # "off" =>
              new.site \in gaveUp' \/ \A j \in Tables : j < new.at =>
                                        status'[TableAt(new.site, j)] = "ACTIVE"
    PROVE  IInv'
<1>1. setups'[p] = new /\ \A q \in Setups : q # p => setups'[q] = setups[q]
  BY DEF IInv, TypeOK
<1>2. TypeOK'
  BY DEF IInv, TypeOK
<1>3. BehindIsReady'
  <2> SUFFICES ASSUME NEW q \in Setups PROVE Behind(q)'
    BY DEF BehindIsReady
  <2>1. CASE q # p
    BY <1>1, <2>1, OthersKeep DEF IInv, BehindIsReady
  <2>2. CASE q = p
    BY <1>1, <2>2 DEF Behind, ReadyBefore
  <2>3. QED
    BY <2>1, <2>2
<1>4. DefaultInAws'
  <2> SUFFICES ASSUME ~strayed, NEW q \in Setups, setups'[q].pc # "off",
                      setups'[q].site.place = "aws"
               PROVE  setups'[q].site.names = Suffixed("")
    BY DEF DefaultInAws
  <2>1. setups[q].pc # "off" /\ setups'[q].site = setups[q].site
    BY <1>1
  <2>2. \A r \in Setups : setups[r].pc # "off" /\ setups[r].site.place = "aws" =>
           setups[r].site.names = Suffixed("")
    BY DEF IInv, DefaultInAws
  <2>3. QED
    BY <2>1, <2>2, Zenon
<1>5. QED
  BY <1>2, <1>3, <1>4 DEF IInv

\* Such a step that touches no table.
LEMMA TablesKeep ==
    ASSUME IInv, UNCHANGED <<status, strayed>>, gaveUp \subseteq gaveUp'
    PROVE  /\ status' \in [Places \X Tables \X Tags -> {"absent", "CREATING", "ACTIVE"}]
           /\ Grows
           /\ OneAfterTheOther'
           /\ ~strayed => \A k \in Tables, tag \in Tags \ {""} :
                             status'[<<"aws", k, tag>>] = "absent"
<1>1. Grows
  BY DEF Grows
<1>2. OneAfterTheOther'
  BY DEF IInv, OneAfterTheOther, ReadyBefore
<1>3. QED
  BY <1>1, <1>2 DEF IInv, TypeOK, DefaultInAws

LEMMA CreateInvariant ==
    ASSUME IInv, NEW p \in Setups, CreateTable(p) \/ CreateLost(p)
    PROVE  IInv'
<1>1. /\ setups[p].pc = "create"
      /\ status' = [status EXCEPT ![TableOf(p)] = Created(p)]
      /\ gaveUp' = gaveUp /\ started' = started /\ strayed' = strayed
  BY DEF CreateTable, CreateLost
<1>2. PICK new \in {[setups[p] EXCEPT !.pc = "wait"], Off} :
        setups' = [setups EXCEPT ![p] = new]
  BY DEF CreateTable, CreateLost
<1>3. setups[p] \in Run /\ setups[p].pc # "off" /\ setups[p].site \in Sites
  BY <1>1, RunType DEF IInv
<1>4. /\ new \in Run \cup {Off}
      /\ new.pc # "off" => new.site = setups[p].site /\ new.at = setups[p].at
  BY <1>3 DEF Run, Off
<1>5. /\ status' \in [Places \X Tables \X Tags -> {"absent", "CREATING", "ACTIVE"}]
      /\ Grows
      /\ OneAfterTheOther'
      /\ ~strayed => \A k \in Tables, tag \in Tags \ {""} :
                        status'[<<"aws", k, tag>>] = "absent"
  BY <1>1, CreatedKeeps
<1>6. setups[p].site \in gaveUp \/ \A j \in Tables : j < setups[p].at =>
         status'[TableAt(setups[p].site, j)] = "ACTIVE"
  BY <1>3, <1>5, TableType DEF IInv, BehindIsReady, Behind, ReadyBefore, Grows
<1>7. gaveUp' \subseteq Sites
  BY <1>1 DEF IInv, TypeOK
<1>8. QED
  BY <1>1, <1>2, <1>3, <1>4, <1>5, <1>6, <1>7, OneRunMoves

LEMMA PollAgainInvariant ==
    ASSUME IInv, NEW p \in Setups, PollAgain(p)
    PROVE  IInv'
<1> DEFINE new == [setups[p] EXCEPT !.polls = @ + 1]
<1>1. /\ setups[p].pc = "wait"
      /\ setups[p].polls < Attempts
      /\ setups' = [setups EXCEPT ![p] = new]
      /\ UNCHANGED <<status, gaveUp, started, strayed>>
  BY DEF PollAgain
<1>2. setups[p] \in Run /\ setups[p].pc # "off"
  BY <1>1, RunType DEF IInv
<1>3. new \in Run
  <2>1. setups[p].polls + 1 \in 0..Attempts
    BY <1>1, <1>2, BoundAssumption DEF Run
  <2>2. QED
    BY <1>2, <2>1 DEF Run
<1>4. new.pc = setups[p].pc /\ new.site = setups[p].site /\ new.at = setups[p].at
  BY <1>2 DEF Run
<1> HIDE DEF new
<1>5. new.site \in gaveUp' \/ \A j \in Tables : j < new.at =>
         status'[TableAt(new.site, j)] = "ACTIVE"
  BY <1>1, <1>2, <1>4 DEF IInv, BehindIsReady, Behind, ReadyBefore
<1>6. gaveUp \subseteq gaveUp' /\ gaveUp' \subseteq Sites
  BY <1>1 DEF IInv, TypeOK
<1>7. QED
  BY <1>1, <1>2, <1>3, <1>4, <1>5, <1>6, TablesKeep, OneRunMoves

LEMMA ProceedInvariant ==
    ASSUME IInv, NEW p \in Setups, Proceed(p)
    PROVE  IInv'
<1> DEFINE old == setups[p]
           new == NextTable(old)
<1>1. /\ old.pc = "wait"
      /\ setups' = [setups EXCEPT ![p] = new]
      /\ UNCHANGED <<status, started, strayed>>
      /\ gaveUp' = IF StatusOf(p) = "ACTIVE" THEN gaveUp ELSE gaveUp \cup {old.site}
  BY DEF Proceed
<1>2. old \in Run /\ old.pc # "off" /\ old.site \in Sites /\ old.at \in 1..4
  BY <1>1, RunType, FourTables DEF IInv
<1>3. /\ new \in Run \cup {Off}
      /\ new.pc # "off" => new.site = old.site /\ new.at = old.at + 1
  <2>1. CASE old.at = 4
    BY <2>1, FourTables DEF Off, NextTable
  <2>2. CASE old.at # 4
    <3>1. old.at + 1 \in Tables
      BY <1>2, <2>2, FourTables
    <3>2. new = [old EXCEPT !.pc = "create", !.at = @ + 1, !.polls = 0]
      BY <2>2, FourTables DEF NextTable
    <3>3. QED
      BY <1>2, <3>1, <3>2, FirstTable DEF Run
  <2>3. QED
    BY <2>1, <2>2
<1> HIDE DEF new
<1>4. old.site \in gaveUp' \/ \A j \in Tables : j < old.at + 1 =>
         status'[TableAt(old.site, j)] = "ACTIVE"
  <2> SUFFICES ASSUME old.site \notin gaveUp', NEW j \in Tables, j < old.at + 1
               PROVE  status[TableAt(old.site, j)] = "ACTIVE"
    BY <1>1
  <2>1. status[TableAt(old.site, old.at)] = "ACTIVE" /\ old.site \notin gaveUp
    BY <1>1 DEF StatusOf, TableOf
  <2>2. j < old.at => status[TableAt(old.site, j)] = "ACTIVE"
    BY <1>2, <2>1 DEF IInv, BehindIsReady, Behind, ReadyBefore
  <2>3. j < old.at \/ j = old.at
    BY <1>2, FourTables
  <2>4. QED
    BY <2>1, <2>2, <2>3
<1>5. gaveUp \subseteq gaveUp' /\ gaveUp' \subseteq Sites
  BY <1>1, <1>2 DEF IInv, TypeOK
<1>6. new.pc # "off" =>
         new.site \in gaveUp' \/ \A j \in Tables : j < new.at =>
                                   status'[TableAt(new.site, j)] = "ACTIVE"
  BY <1>3, <1>4
<1>7. QED
  BY <1>1, <1>2, <1>3, <1>5, <1>6, TablesKeep, OneRunMoves

LEMMA ThrowsInvariant ==
    ASSUME IInv, NEW p \in Setups, Throws(p)
    PROVE  IInv'
<1>1. /\ setups' = [setups EXCEPT ![p] = Off] /\ setups[p].pc # "off"
      /\ UNCHANGED <<status, gaveUp, started, strayed>>
  BY DEF Throws, Running
<1>2. gaveUp \subseteq gaveUp' /\ gaveUp' \subseteq Sites
  BY <1>1 DEF IInv, TypeOK
<1>3. Off.pc = "off"
  BY DEF Off
<1>4. QED
  BY <1>1, <1>2, <1>3, TablesKeep, OneRunMoves

LEMMA ActivateInvariant ==
    ASSUME IInv, NEW table \in DOMAIN status, Activate(table)
    PROVE  IInv'
<1>1. /\ status[table] = "CREATING"
      /\ status' = [status EXCEPT ![table] = "ACTIVE"]
      /\ UNCHANGED <<setups, gaveUp, started, strayed>>
  BY DEF Activate
<1>2. /\ status \in [Places \X Tables \X Tags -> {"absent", "CREATING", "ACTIVE"}]
      /\ table \in Places \X Tables \X Tags
  BY DEF IInv, TypeOK
<1>3. \A x \in Places \X Tables \X Tags :
        status'[x] = IF x = table THEN "ACTIVE" ELSE status[x]
  BY <1>1, <1>2
<1>4. TypeOK'
  BY <1>1 DEF IInv, TypeOK
<1>5. Grows
  BY <1>1, <1>3 DEF Grows
<1>6. BehindIsReady'
  BY <1>1, <1>5, OthersKeep DEF IInv, BehindIsReady
<1>7. OneAfterTheOther'
  <2> SUFFICES ASSUME NEW x \in Places \X Tables \X Tags, status'[x] # "absent"
               PROVE  \E site \in Sites : /\ TableAt(site, x[2]) = x
                                          /\ site \in gaveUp' \/ ReadyBefore(site, x[2])'
    BY <1>4 DEF OneAfterTheOther, TypeOK
  <2>1. status[x] # "absent"
    BY <1>1, <1>3
  <2>2. QED
    BY <1>5, <2>1, OrderStays
<1>8. DefaultInAws'
  <2>1. \A k \in Tables, tag \in Tags : <<"aws", k, tag>> \in Places \X Tables \X Tags
    BY DEF Places
  <2>2. ~strayed => \A k \in Tables, tag \in Tags \ {""} :
                       status'[<<"aws", k, tag>>] = "absent"
    BY <1>1, <1>3, <2>1 DEF IInv, DefaultInAws
  <2>3. QED
    BY <1>1, <2>2 DEF IInv, DefaultInAws
<1>9. QED
  BY <1>4, <1>6, <1>7, <1>8 DEF IInv

LEMMA NextInvariant == IInv /\ [Next]_vars => IInv'
<1> SUFFICES ASSUME IInv, [Next]_vars PROVE IInv'
  OBVIOUS
<1>1. CASE UNCHANGED vars
  <2>1. UNCHANGED <<status, setups, gaveUp, started, strayed>>
    BY <1>1 DEF vars
  <2>2. TypeOK'
    BY <2>1 DEF IInv, TypeOK
  <2>3. BehindIsReady'
    BY <2>1 DEF IInv, BehindIsReady, Behind, ReadyBefore
  <2>4. OneAfterTheOther'
    BY <2>1 DEF IInv, OneAfterTheOther, ReadyBefore
  <2>5. DefaultInAws'
    BY <2>1 DEF IInv, DefaultInAws
  <2>6. QED
    BY <2>2, <2>3, <2>4, <2>5 DEF IInv
<1>2. ASSUME NEW p \in Setups, NEW endpoint \in Endpoints,
             NEW suffix \in {"", TEST_SUFFIX}, NEW env \in Namings,
             StartMain(p, endpoint, suffix, env) \/ StartCall(p, endpoint, suffix, env)
      PROVE  IInv'
  BY <1>2, StartsAtSite, StartInvariant
<1>3. QED
  BY <1>1, <1>2, CreateInvariant, PollAgainInvariant, ProceedInvariant,
     ThrowsInvariant, ActivateInvariant
  DEF Next, Step

(***************************************************************************)
(* The invariant of the set-up holds in every reachable state.             *)
(***************************************************************************)
THEOREM Invariance == Spec => []IInv
BY InitInvariant, NextInvariant, PTL DEF Spec

(***************************************************************************)
(* Every reachable state has the declared types.                           *)
(***************************************************************************)
THEOREM TypeCorrect == Spec => []TypeOK
<1>1. IInv => TypeOK
  BY DEF IInv
<1>2. QED
  BY <1>1, Invariance, PTL

(***************************************************************************)
(* A table that is there has a site at which those before it are ready, or *)
(* a run of that site has used up its polls and gone on.                   *)
(***************************************************************************)
THEOREM OneAfterTheOtherTheorem == Spec => []OneAfterTheOther
<1>1. IInv => OneAfterTheOther
  BY DEF IInv
<1>2. QED
  BY <1>1, Invariance, PTL

-----------------------------------------------------------------------------
\* What is left to a run, by the table it is at.
LEMMA CallsOf ==
    ASSUME NEW p \in Setups, setups[p] \in Run
    PROVE  /\ setups[p].at \in 1..4
           /\ setups[p].polls \in 0..Attempts
           /\ setups[p].pc = "create" =>
                CallsLeft(p) = (5 - setups[p].at) * (Attempts + 2)
           /\ setups[p].pc = "wait" =>
                CallsLeft(p) = (4 - setups[p].at) * (Attempts + 2)
                                 + Attempts + 1 - setups[p].polls
BY FourTables DEF CallsLeft, Run

\* A run that goes on has at least one call left.
LEMMA CallsRemain ==
    ASSUME NEW p \in Setups, setups[p] \in Run, Running(p)
    PROVE  CallsLeft(p) \in Nat \ {0}
<1>1. CASE setups[p].at = 1
  BY <1>1, CallsOf, BoundAssumption DEF Running
<1>2. CASE setups[p].at = 2
  BY <1>2, CallsOf, BoundAssumption DEF Running
<1>3. CASE setups[p].at = 3
  BY <1>3, CallsOf, BoundAssumption DEF Running
<1>4. CASE setups[p].at = 4
  BY <1>4, CallsOf, BoundAssumption DEF Running
<1>5. QED
  BY <1>1, <1>2, <1>3, <1>4, CallsOf

\* A step of one run leaves the calls of the others alone.
LEMMA OneRunCalls ==
    ASSUME TypeOK, NEW p \in Setups, NEW new, setups' = [setups EXCEPT ![p] = new],
           NEW q \in Setups, setups'[q] # setups[q]
    PROVE  q = p /\ setups'[p] = new
BY DEF TypeOK

LEMMA FirstCalls == Len(Definitions) + 1 - 1 = Len(Definitions)
BY FourTables

LEMMA StartCalls ==
    ASSUME TypeOK, NEW p \in Setups, NEW endpoint, NEW suffix, NEW site,
           ensureTables(p, endpoint, suffix, site),
           NEW q \in Setups, setups'[q] # setups[q]
    PROVE  /\ ~Running(q)
           /\ CallsLeft(q)' = Len(Definitions) * (Attempts + 2)
<1> DEFINE run == [pc |-> "create", site |-> site, at |-> 1, polls |-> 0]
<1>1. setups' = [setups EXCEPT ![p] = run] /\ ~Running(p)
  BY DEF ensureTables
<1>2. q = p /\ setups'[p] = run
  BY <1>1, OneRunCalls
<1>3. run.pc = "create" /\ run.at = 1
  OBVIOUS
<1> HIDE DEF run
<1>4. setups'[p].pc = "create" /\ setups'[p].at = 1
  BY <1>2, <1>3
<1>5. CallsLeft(p)' = Len(Definitions) * (Attempts + 2)
  BY <1>4, FirstCalls DEF CallsLeft
<1>6. q = p /\ ~Running(p)
  BY <1>1, <1>2
<1>7. QED
  BY <1>5, <1>6

LEMMA StepCalls ==
    ASSUME TypeOK, TypeOK', NEW p \in Setups, Step(p),
           NEW q \in Setups, setups'[q] # setups[q]
    PROVE  Running(q) /\ CallsLeft(q)' < CallsLeft(q)
<1>1. PICK new : setups' = [setups EXCEPT ![p] = new]
  BY DEF Step, CreateTable, PollAgain, Proceed
<1>2. q = p /\ Running(p)
  BY <1>1, OneRunCalls DEF Step, CreateTable, PollAgain, Proceed, Running
<1>3. setups[p] \in Run
  BY <1>2 DEF TypeOK, Running, Off
<1> DEFINE at == setups[p].at
           left == (4 - at) * (Attempts + 2)
<1>4. /\ at \in 1..4
      /\ setups[p].polls \in 0..Attempts
      /\ left \in Nat
      /\ (5 - at) * (Attempts + 2) = left + Attempts + 2
      /\ setups[p].pc = "create" => CallsLeft(p) = left + Attempts + 2
      /\ setups[p].pc = "wait" => CallsLeft(p) = left + Attempts + 1 - setups[p].polls
  <2>1. at \in 1..4
    BY <1>3, CallsOf
  <2>2. left \in Nat /\ (5 - at) * (Attempts + 2) = left + Attempts + 2
    <3>1. at = 1 \/ at = 2 \/ at = 3 \/ at = 4
      BY <2>1
    <3>2. QED
      BY <3>1, BoundAssumption
  <2>3. QED
    BY <1>3, <2>1, <2>2, CallsOf
<1>5. CASE CreateTable(p)
  <2>1. setups'[p] = [setups[p] EXCEPT !.pc = "wait"] /\ setups[p].pc = "create"
    BY <1>5 DEF CreateTable, TypeOK
  <2>2. /\ setups'[p].pc = "wait"
        /\ setups'[p].at = at
        /\ setups'[p].polls = setups[p].polls
    BY <1>3, <2>1 DEF Run
  <2>3. CallsLeft(p)' = left + Attempts + 1 - setups[p].polls
    BY <2>2, FourTables DEF CallsLeft
  <2>4. QED
    BY <1>2, <1>4, <2>1, <2>3, BoundAssumption
<1>6. CASE PollAgain(p)
  <2>1. setups'[p] = [setups[p] EXCEPT !.polls = @ + 1] /\ setups[p].pc = "wait"
    BY <1>6 DEF PollAgain, TypeOK
  <2>2. /\ setups'[p].pc = "wait"
        /\ setups'[p].at = at
        /\ setups'[p].polls = setups[p].polls + 1
    BY <1>3, <2>1 DEF Run
  <2>3. CallsLeft(p)' = left + Attempts + 1 - (setups[p].polls + 1)
    BY <2>2, FourTables DEF CallsLeft
  <2>4. QED
    BY <1>2, <1>4, <2>1, <2>3, BoundAssumption
<1>7. CASE Proceed(p)
  <2>1. /\ setups[p].pc = "wait"
        /\ setups'[p] = NextTable(setups[p])
    BY <1>7 DEF Proceed, TypeOK
  <2>4. \/ setups'[p].pc = "off"
        \/ setups'[p].pc = "create" /\ setups'[p].at = at + 1
    BY <1>3, <2>1 DEF Run, Off, NextTable
  <2>5. CallsLeft(p)' \in {0, left}
    <3>1. setups'[p].pc = "off" => CallsLeft(p)' = 0
      BY DEF CallsLeft
    <3>2. CASE setups'[p].pc = "create" /\ setups'[p].at = at + 1
      <4>1. CallsLeft(p)' = (4 + 1 - (at + 1)) * (Attempts + 2)
        BY <3>2, FourTables DEF CallsLeft
      <4>2. 4 + 1 - (at + 1) = 4 - at
        BY <1>4
      <4>3. QED
        BY <4>1, <4>2
    <3>3. QED
      BY <2>4, <3>1, <3>2
  <2>6. QED
    BY <1>2, <1>4, <2>1, <2>5, BoundAssumption
<1>8. QED
  BY <1>5, <1>6, <1>7 DEF Step

LEMMA EndCalls ==
    ASSUME TypeOK, NEW p \in Setups, CreateLost(p) \/ Throws(p),
           NEW q \in Setups, setups'[q] # setups[q]
    PROVE  Running(q) /\ CallsLeft(q)' < CallsLeft(q)
<1>1. Running(p) /\ setups' = [setups EXCEPT ![p] = Off]
  BY DEF CreateLost, Throws, Running
<1>2. q = p /\ setups'[p] = Off
  BY <1>1, OneRunCalls
<1>3. CallsLeft(p)' = 0
  BY <1>2 DEF CallsLeft, Off
<1>4. setups[p] \in Run
  BY <1>1 DEF TypeOK, Running, Off
<1>5. QED
  BY <1>1, <1>2, <1>3, <1>4, CallsRemain

(***************************************************************************)
(* Every step of a run leaves it fewer calls, out of those for four tables *)
(* it began with: the part of "every run ends" that does not rest on       *)
(* fairness.                                                               *)
(***************************************************************************)
THEOREM CallsTheorem == Spec => CallsRunOut
<1> DEFINE Out(p) == setups'[p] # setups[p] =>
                       IF Running(p) THEN CallsLeft(p)' < CallsLeft(p)
                       ELSE CallsLeft(p)' = Len(Definitions) * (Attempts + 2)
<1>1. ASSUME IInv, [Next]_vars
      PROVE  [\A p \in Setups : Out(p)]_vars
  <2>1. CASE UNCHANGED vars
    BY <2>1
  <2>2. CASE Next
    <3> SUFFICES ASSUME NEW q \in Setups, setups'[q] # setups[q] PROVE Out(q)
      OBVIOUS
    <3>1. TypeOK /\ TypeOK'
      BY <1>1, NextInvariant DEF IInv
    <3>2. ASSUME NEW p \in Setups, NEW endpoint \in Endpoints,
                 NEW suffix \in {"", TEST_SUFFIX}, NEW env \in Namings,
                 StartMain(p, endpoint, suffix, env) \/ StartCall(p, endpoint, suffix, env)
          PROVE  Out(q)
      BY <3>1, <3>2, StartsAtSite, StartCalls
    <3>3. ASSUME NEW p \in Setups, Step(p) PROVE Out(q)
      BY <3>1, <3>3, StepCalls
    <3>4. ASSUME NEW p \in Setups, CreateLost(p) \/ Throws(p) PROVE Out(q)
      BY <3>1, <3>4, EndCalls
    <3>5. ASSUME NEW table \in DOMAIN status, Activate(table)
          PROVE  Out(q)
      BY <3>5 DEF Activate
    <3> HIDE DEF Out
    <3>6. QED
      BY <2>2, <3>2, <3>3, <3>4, <3>5 DEF Next
  <2>3. QED
    BY <1>1, <2>1, <2>2
<1>2. QED
  BY <1>1, Invariance, PTL DEF Spec, CallsRunOut

-----------------------------------------------------------------------------
LEMMA AddOne ==
    ASSUME NEW S, NEW x, NEW n \in Nat, IsFiniteSet(S), Cardinality(S) <= n
    PROVE  IsFiniteSet(S \cup {x}) /\ Cardinality(S \cup {x}) <= n + 1
<1>1. /\ IsFiniteSet(S \cup {x})
      /\ Cardinality(S \cup {x}) = IF x \in S THEN Cardinality(S) ELSE Cardinality(S) + 1
  BY FS_AddElement
<1>2. Cardinality(S) \in Nat
  BY FS_CardinalityType
<1>3. QED
  BY <1>1, <1>2

\* The capacity of any of the four tables, with their three indexes.
LEMMA CapacityFits ==
    ASSUME NEW ks \in SUBSET Tables
    PROVE  SumCapacity(ks) \in Nat /\ SumCapacity(ks) <= 23
<1> DEFINE all == {<<1, "email-index">>, <<2, "user-createdAt-index">>,
                   <<2, "status-createdAt-index">>}
           own == UNION {{k} \X Definitions[k].indexes : k \in ks}
<1>1. IsFiniteSet(all) /\ Cardinality(all) <= 3
  <2>1. all = ({<<1, "email-index">>} \cup {<<2, "user-createdAt-index">>})
                \cup {<<2, "status-createdAt-index">>}
    OBVIOUS
  <2>2. /\ IsFiniteSet({<<1, "email-index">>})
        /\ Cardinality({<<1, "email-index">>}) = 1
    BY FS_Singleton
  <2>3. /\ IsFiniteSet({<<1, "email-index">>} \cup {<<2, "user-createdAt-index">>})
        /\ Cardinality({<<1, "email-index">>} \cup {<<2, "user-createdAt-index">>}) <= 1 + 1
    <3>1. 1 \in Nat /\ Cardinality({<<1, "email-index">>}) <= 1
      BY <2>2
    <3>2. QED
      BY ONLY <2>2, <3>1, AddOne
  <2> HIDE DEF all
  <2>4. IsFiniteSet(all) /\ Cardinality(all) <= 1 + 1 + 1
    <3>1. 1 + 1 \in Nat
      OBVIOUS
    <3>2. QED
      BY ONLY <2>1, <2>3, <3>1, AddOne
  <2>5. QED
    BY <2>4
<1>2. own \subseteq all
  <2> SUFFICES ASSUME NEW k \in Tables, NEW x \in Definitions[k].indexes
               PROVE  <<k, x>> \in all
    OBVIOUS
  <2>1. k = 1 \/ k = 2 \/ k = 3 \/ k = 4
    BY FourTables
  <2>2. QED
    BY <2>1 DEF Definitions
<1> HIDE DEF own, all
<1>3. Cardinality(own) \in Nat /\ Cardinality(own) <= 3
  BY <1>1, <1>2, FS_Subset, FS_CardinalityType
<1>4. Cardinality(ks) \in Nat /\ Cardinality(ks) <= 4
  <2>1. IsFiniteSet(Tables) /\ Cardinality(Tables) = 4
    <3>1. /\ IsFiniteSet(1..4)
          /\ Cardinality(1..4) = IF 1 > 4 THEN 0 ELSE 4 - 1 + 1
      <4>1. 1 \in Int /\ 4 \in Int
        OBVIOUS
      <4>2. QED
        BY ONLY <4>1, FS_Interval
    <3>2. QED
      BY <3>1, FourTables
  <2>2. QED
    BY <2>1, FS_Subset, FS_CardinalityType
<1>5. SumCapacity(ks) = 5 * Cardinality(ks) + 1 * Cardinality(own)
  BY DEF SumCapacity, BASE_CAPACITY, GSI_CAPACITY, own
<1>6. QED
  BY <1>3, <1>4, <1>5

(***************************************************************************)
(* The tables in AWS, of all names together, stay within the free tier,    *)
(* whatever runs there were, as long as none has gone there by names of    *)
(* its own or by an endpoint taken for local.                              *)
(***************************************************************************)
THEOREM FreeTierTheorem == Spec => []FreeTier
<1>1. IInv => FreeTier
  <2> DEFINE built(tag) == {k \in Tables : status[<<"aws", k, tag>>] # "absent"}
  <2> SUFFICES ASSUME IInv, ~strayed
               PROVE  SumCapacity(built("")) + SumCapacity(built(TEST_SUFFIX))
                        + SumCapacity(built("other")) <= FREE_TIER_LIMIT
    BY DEF FreeTier
  <2>1. built(TEST_SUFFIX) = {} /\ built("other") = {}
    <3>1. TEST_SUFFIX \in Tags \ {""} /\ "other" \in Tags \ {""}
      BY DEF Tags, TEST_SUFFIX
    <3>2. QED
      BY <3>1 DEF IInv, DefaultInAws
  <2>2. SumCapacity({}) = 0
    <3>1. UNION {{k} \X Definitions[k].indexes : k \in {}} = {}
      OBVIOUS
    <3>2. QED
      BY <3>1, FS_EmptySet DEF SumCapacity, BASE_CAPACITY, GSI_CAPACITY
  <2>3. SumCapacity(built("")) \in Nat /\ SumCapacity(built("")) <= 23
    BY CapacityFits
  <2> HIDE DEF built
  <2>4. SumCapacity(built(TEST_SUFFIX)) = 0 /\ SumCapacity(built("other")) = 0
    BY <2>1, <2>2
  <2>5. ASSUME NEW m \in Nat, NEW n, NEW o, m <= 23, n = 0, o = 0 PROVE m + n + o <= 25
    BY <2>5
  <2>6. SumCapacity(built("")) + SumCapacity(built(TEST_SUFFIX))
          + SumCapacity(built("other")) <= 25
    BY ONLY <2>3, <2>4, <2>5
  <2>7. QED
    BY <2>6 DEF FREE_TIER_LIMIT
<1>2. QED
  BY <1>1, Invariance, PTL
================================================================================
