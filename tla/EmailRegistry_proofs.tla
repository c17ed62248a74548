------------------------- MODULE EmailRegistry_proofs -------------------------
(***************************************************************************)
(* Theorems of EmailRegistry, for every set of accounts, spellings and     *)
(* concurrent requests.                                                    *)
(***************************************************************************)
EXTENDS EmailRegistry, TLAPS

(***************************************************************************)
(* Type correctness.                                                       *)
(***************************************************************************)
LEMMA InitType == Init => TypeOK
BY EmailAssumption DEF Init, TypeOK

LEMMA WriteType ==
    ASSUME TypeOK, NEW i \in Ids, NEW x \in Spellings \cup {NoEmail}, WriteEmail(i, x)
    PROVE  /\ email' \in [Ids -> Spellings \cup {NoEmail}]
           /\ readable' \in [Ids -> SUBSET (Spellings \cup {NoEmail})]
<1>1. email' \in [Ids -> Spellings \cup {NoEmail}]
  BY DEF TypeOK, WriteEmail
<1>2. \/ readable' = [readable EXCEPT ![i] = {x}]
      \/ readable' = [readable EXCEPT ![i] = @ \cup {x}]
  BY DEF WriteEmail
<1>3. readable' \in [Ids -> SUBSET (Spellings \cup {NoEmail})]
  BY <1>2 DEF TypeOK
<1> QED
  BY <1>1, <1>3

LEMMA NextType == TypeOK /\ [Next]_vars => TypeOK'
<1> SUFFICES ASSUME TypeOK, [Next]_vars PROVE TypeOK'
  OBVIOUS
<1> USE EmailAssumption DEF TypeOK
<1>1. ASSUME NEW i \in Ids, NEW x \in Spellings, Register(i, x)
      PROVE  TypeOK'
  BY <1>1, WriteType DEF Register, Normalize
<1>2. ASSUME NEW r \in Requests, NEW i \in Ids,
             NEW seen \in Spellings \cup {NoEmail},
             NEW typed \in Spellings \cup {NoEmail}, EditRead(r, i, seen, typed)
      PROVE  TypeOK'
  BY <1>2 DEF EditRead, Normalize, Edit
<1>3. ASSUME NEW r \in Requests, EditTransact(r)
      PROVE  TypeOK'
  <2>1. reqs[r] \in Edit
    BY <1>3 DEF EditTransact, Idle
  <2>2. reqs[r].id \in Ids /\ reqs[r].next \in Spellings \cup {NoEmail}
    BY <2>1 DEF Edit
  <2>3. /\ email' \in [Ids -> Spellings \cup {NoEmail}]
        /\ readable' \in [Ids -> SUBSET (Spellings \cup {NoEmail})]
    BY <1>3, <2>2, WriteType DEF EditTransact
  <2>4. reqs' \in [Requests -> Edit \cup {Idle}]
    BY <1>3, <2>1 DEF EditTransact, Edit
  <2>5. lock' \in [Spellings -> Ids \cup {NoId}] /\ raced' \in BOOLEAN
    BY <1>3, <2>2 DEF EditTransact, Overtake
  <2> QED
    BY <2>3, <2>4, <2>5
<1>4. ASSUME NEW r \in Requests, EditConflict(r) \/ EditFails(r)
      PROVE  TypeOK'
  BY <1>4 DEF EditConflict, EditFails
<1>5. ASSUME NEW r \in Requests, EditUpdate(r)
      PROVE  TypeOK'
  <2>1. reqs[r].id \in Ids /\ reqs[r].next \in Spellings \cup {NoEmail}
    BY <1>5 DEF EditUpdate, Idle, Edit
  <2>2. /\ email' \in [Ids -> Spellings \cup {NoEmail}]
        /\ readable' \in [Ids -> SUBSET (Spellings \cup {NoEmail})]
    BY <1>5, <2>1, WriteType DEF EditUpdate
  <2> QED
    BY <1>5, <2>2 DEF EditUpdate
<1>6. ASSUME NEW i \in Ids, CatchUp(i)
      PROVE  TypeOK'
  BY <1>6 DEF CatchUp
<1>7. CASE UNCHANGED vars
  BY <1>7 DEF vars
<1> QED
  BY <1>1, <1>2, <1>3, <1>4, <1>5, <1>6, <1>7 DEF Next, EditStep

(***************************************************************************)
(* Every reachable state has the declared types.                           *)
(***************************************************************************)
THEOREM TypeCorrect == Spec => []TypeOK
BY InitType, NextType, PTL DEF Spec

(***************************************************************************)
(* The invariant: locks and addresses agree unless edits have raced.       *)
(***************************************************************************)
LEMMA InitInvariant == Init => IInv
BY EmailAssumption
DEF Init, IInv, AllCanonical, ReadIsCurrent, Relies, LocksMatch, Registered, Idle

LEMMA NextInvariant == TypeOK /\ IInv /\ [Next]_vars => IInv'
<1> SUFFICES ASSUME TypeOK, IInv, [Next]_vars, ~raced'
             PROVE  AllCanonical' /\ ReadIsCurrent' /\ LocksMatch'
  BY DEF IInv
<1>0. ~raced
  BY DEF TypeOK, Next, EditStep, Register, EditRead, EditTransact, Overtake,
         EditConflict, EditUpdate, EditFails, CatchUp, vars
<1> AllCanonical /\ ReadIsCurrent /\ LocksMatch
  BY <1>0 DEF IInv
<1> USE EmailAssumption DEF TypeOK, Registered
<1>1. ASSUME NEW i \in Ids, NEW x \in Spellings, Register(i, x)
      PROVE  AllCanonical' /\ ReadIsCurrent' /\ LocksMatch'
  <2>1. AllCanonical'
    BY <1>1 DEF Register, Normalize, WriteEmail, AllCanonical
  <2>2. ReadIsCurrent'
    BY <1>1 DEF Register, Normalize, WriteEmail, Relies, ReadIsCurrent, Edit, Idle
  <2>3. LocksMatch'
    BY <1>1 DEF Register, Normalize, WriteEmail, LocksMatch
  <2> QED
    BY <2>1, <2>2, <2>3
<1>2. ASSUME NEW r \in Requests, NEW i \in Ids,
             NEW seen \in Spellings \cup {NoEmail},
             NEW typed \in Spellings \cup {NoEmail}, EditRead(r, i, seen, typed)
      PROVE  AllCanonical' /\ ReadIsCurrent' /\ LocksMatch'
  <2>0. seen = email[i] \/ typed = NoEmail
    BY <1>2 DEF EditRead
  <2>1. AllCanonical'
    BY <1>2 DEF EditRead, Normalize, AllCanonical
  <2>2. ReadIsCurrent'
    BY <1>2, <2>0 DEF EditRead, Relies, ReadIsCurrent
  <2>3. LocksMatch'
    BY <1>2, <2>0 DEF EditRead, LocksMatch
  <2> QED
    BY <2>1, <2>2, <2>3
<1>3. ASSUME NEW r \in Requests, EditTransact(r)
      PROVE  AllCanonical' /\ ReadIsCurrent' /\ LocksMatch'
  <2>0. /\ reqs[r].id \in Ids
        /\ reqs[r].seen \in Spellings
        /\ reqs[r].next \in Spellings
        /\ reqs[r].next # reqs[r].seen
        /\ email[reqs[r].id] = reqs[r].seen
    BY <1>3 DEF EditTransact, Idle, Edit, Relies, ReadIsCurrent
  <2>1. AllCanonical'
    BY <1>3, <2>0 DEF EditTransact, WriteEmail, AllCanonical
  <2>2. ReadIsCurrent'
    <3>1. \A q \in Requests \ {r} : Relies(q) => reqs[q].id # reqs[r].id
      BY <1>3 DEF EditTransact, Overtake
    <3>2. /\ \A q \in Requests \ {r} : reqs'[q] = reqs[q]
          /\ reqs'[r].pc = "update"
          /\ reqs'[r].next # reqs'[r].seen
      BY <1>3, <2>0 DEF EditTransact, Idle, Edit
    <3>3. /\ ~Relies(r)'
          /\ \A q \in Requests \ {r} : Relies(q)' => Relies(q) /\ reqs[q].id \in Ids
      BY <3>2 DEF Relies, Idle, Edit
    <3>4. \A i \in Ids \ {reqs[r].id} : email'[i] = email[i]
      BY <1>3 DEF EditTransact, WriteEmail
    <3> QED
      BY <3>1, <3>2, <3>3, <3>4 DEF ReadIsCurrent
  <2>3. LocksMatch'
    BY <1>0, <1>3, <2>0 DEF EditTransact, WriteEmail, LocksMatch
  <2> QED
    BY <2>1, <2>2, <2>3
<1>4. ASSUME NEW r \in Requests, EditConflict(r) \/ EditFails(r)
      PROVE  AllCanonical' /\ ReadIsCurrent' /\ LocksMatch'
  <2>1. /\ UNCHANGED <<email, lock>>
        /\ reqs' = [reqs EXCEPT ![r] = Idle]
    BY <1>4 DEF EditConflict, EditFails
  <2>2. AllCanonical'
    BY <2>1 DEF AllCanonical, Idle
  <2>3. ReadIsCurrent'
    BY <2>1 DEF ReadIsCurrent, Relies, Idle
  <2>4. LocksMatch'
    BY <2>1, <1>0 DEF LocksMatch
  <2> QED
    BY <2>2, <2>3, <2>4
<1>5. ASSUME NEW r \in Requests, EditUpdate(r)
      PROVE  AllCanonical' /\ ReadIsCurrent' /\ LocksMatch'
  <2>1. UNCHANGED <<email, lock>> /\ reqs' = [reqs EXCEPT ![r] = Idle]
    BY <1>5 DEF EditUpdate, WriteEmail, Relies, ReadIsCurrent, Idle, Edit
  <2>2. AllCanonical'
    BY <2>1 DEF AllCanonical, Idle
  <2>3. ReadIsCurrent'
    BY <2>1 DEF ReadIsCurrent, Relies, Idle
  <2>4. LocksMatch'
    BY <2>1, <1>0 DEF LocksMatch
  <2> QED
    BY <2>2, <2>3, <2>4
<1>6. ASSUME NEW i \in Ids, CatchUp(i)
      PROVE  AllCanonical' /\ ReadIsCurrent' /\ LocksMatch'
  BY <1>6 DEF CatchUp, AllCanonical, ReadIsCurrent, Relies, LocksMatch
<1>7. CASE UNCHANGED vars
  BY <1>7 DEF vars, AllCanonical, ReadIsCurrent, Relies, LocksMatch
<1> QED
  BY <1>1, <1>2, <1>3, <1>4, <1>5, <1>6, <1>7 DEF Next, EditStep

LEMMA Invariance == Spec => []IInv
<1>1. TypeOK /\ IInv /\ [Next]_vars => IInv'
  BY NextInvariant
<1> QED
  BY <1>1, InitInvariant, TypeCorrect, PTL DEF Spec

(***************************************************************************)
(* The lock table mirrors the users table in every state, as long as no    *)
(* address moves while another edit of its user relies on it, and none     *)
(* relies on an earlier address.                                           *)
(***************************************************************************)
THEOREM LocksMatchTheorem == Spec => []LocksMatch
<1>1. IInv => LocksMatch
  BY DEF IInv, LocksMatch
<1> QED
  BY <1>1, Invariance, PTL

(***************************************************************************)
(* So long, no two accounts have the same mailbox: the locks decide who    *)
(* has it.                                                                 *)
(***************************************************************************)
THEOREM UniqueEmailsTheorem == Spec => []UniqueUnlessRaced
<1>1. TypeOK /\ IInv => UniqueUnlessRaced
  BY EmailAssumption
  DEF TypeOK, IInv, UniqueUnlessRaced, UniqueEmails, AllCanonical, LocksMatch, Registered
<1> QED
  BY <1>1, TypeCorrect, Invariance, PTL

-----------------------------------------------------------------------------
(***************************************************************************)
(* EmailRegistry implements Directory.                                     *)
(***************************************************************************)
LEMMA InitDirectory == Init => View!Init
BY DEF Init, View!Init, MailboxOf, Registered

\* Writing a canonical address that is not locked is one claim.
LEMMA WriteClaims ==
    ASSUME TypeOK, IInv, ~raced, UNCHANGED raced,
           NEW i \in Ids, NEW x \in Spellings,
           Canonical[x] = x, lock[x] = NoId, WriteEmail(i, x)
    PROVE  View!Claim(i, x)
<1> USE EmailAssumption DEF TypeOK, MailboxOf, Registered
<1>1. \A j \in Ids : MailboxOf(j) # x
  BY DEF IInv, AllCanonical, LocksMatch
<1>2. email' = [email EXCEPT ![i] = x]
  BY DEF WriteEmail
<1>3. \A j \in Ids : MailboxOf(j)' = IF j = i THEN x ELSE MailboxOf(j)
  BY <1>2
<1> HIDE DEF MailboxOf
<1>4. [j \in Ids |-> MailboxOf(j)'] = [[j \in Ids |-> MailboxOf(j)] EXCEPT ![i] = x]
  BY <1>3
<1> QED
  BY <1>1, <1>4 DEF View!Claim

LEMMA NextDirectory ==
    TypeOK /\ IInv /\ [Next]_vars => [View!Next]_(View!vars)
<1> SUFFICES ASSUME TypeOK, IInv, [Next]_vars
             PROVE  View!Next \/ UNCHANGED View!vars
  OBVIOUS
<1> USE EmailAssumption DEF TypeOK
<1>1. CASE raced'
  BY <1>1 DEF View!Next, View!Break
<1>2. CASE ~raced'
  <2>1. ~raced /\ UNCHANGED raced
    BY <1>2 DEF Next, EditStep, Register, EditRead, EditTransact, Overtake,
                EditConflict, EditUpdate, EditFails, CatchUp, vars
  <2>2. CASE UNCHANGED email
    BY <2>1, <2>2 DEF View!vars, MailboxOf, Registered
  <2>3. ASSUME NEW i \in Ids, NEW x \in Spellings, Register(i, x)
        PROVE  View!Next
    <3>1. View!Claim(i, Canonical[x])
      BY <2>1, <2>3, WriteClaims DEF Register, Normalize
    <3> QED
      BY <3>1 DEF View!Next
  <2>4. ASSUME NEW r \in Requests, EditTransact(r)
        PROVE  View!Next
    <3>1. /\ reqs[r].id \in Ids
          /\ reqs[r].next \in Spellings
          /\ Canonical[reqs[r].next] = reqs[r].next
      BY <2>1, <2>4 DEF EditTransact, Idle, Edit, IInv, Relies, ReadIsCurrent, AllCanonical
    <3>2. View!Claim(reqs[r].id, reqs[r].next)
      BY <2>1, <2>4, <3>1, WriteClaims DEF EditTransact
    <3> QED
      BY <3>1, <3>2 DEF View!Next
  <2>5. ASSUME NEW r \in Requests, EditUpdate(r)
        PROVE  UNCHANGED email
    BY <2>1, <2>5 DEF EditUpdate, WriteEmail, IInv, Relies, ReadIsCurrent, Idle, Edit
  <2> QED
    BY <2>2, <2>3, <2>4, <2>5 DEF Next, EditStep, EditRead, EditConflict, EditFails,
                                  CatchUp, vars
<1> QED
  BY <1>1, <1>2

(***************************************************************************)
(* Until an address moves that another edit of its user relies on,         *)
(* registrations and edits, in several calls on two tables, change the     *)
(* addresses like single steps on one directory, for every number of       *)
(* accounts, spellings and requests, whatever fails in between.            *)
(***************************************************************************)
THEOREM DirectoryTheorem == Spec => DirectorySpec
<1>1. TypeOK /\ IInv /\ [Next]_vars => [View!Next]_(View!vars)
  BY NextDirectory
<1> QED
  BY <1>1, InitDirectory, TypeCorrect, Invariance, PTL
  DEF Spec, DirectorySpec, View!Spec
=============================================================================
