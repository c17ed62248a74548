---------------------------- MODULE EmailRegistry ----------------------------
(***************************************************************************)
(* Unique email addresses without a unique index: models/user.js keeps one *)
(* item per user and, in a second table, one lock item per address.        *)
(* Registration writes both in a transaction; a profile update reads the   *)
(* user, moves the lock in a transaction when the address changes, and     *)
(* then writes the other attributes (the address again, if it was sent and *)
(* had not changed).  Reads are DynamoDB's default ones: for a while they  *)
(* may return an item as it was before.                                    *)
(*                                                                         *)
(* Addresses are typed in several spellings.  Canonical maps a spelling to *)
(* the lower-cased, trimmed one: two spellings name the same mailbox when  *)
(* their canonical forms are equal.                                        *)
(***************************************************************************)
EXTENDS Integers, FiniteSets

CONSTANTS
    Ids,             \* the identifiers crypto.randomUUID may return
    NoId,
    Spellings,
    Canonical,       \* [Spellings -> Spellings]
    NoEmail,         \* no such attribute, or no address sent
    Requests,        \* slots for concurrent profile updates
    MaxReadable      \* versions of an item that reads may return at a time

ASSUME EmailAssumption ==
    /\ NoId \notin Ids
    /\ NoEmail \notin Spellings
    /\ Canonical \in [Spellings -> Spellings]
    /\ \A x \in Spellings : Canonical[Canonical[x]] = Canonical[x]
    /\ MaxReadable \in Nat

VARIABLES
    email,     \* [Ids -> address]: the users table
    lock,      \* [address -> Ids]: the uniqueness table
    reqs,      \* profile updates in progress
    readable,  \* [Ids -> set of addresses]: what a read of the item may return
    raced      \* an address has moved while another edit of its user relied on
               \* it, or an edit has begun to rely on an address that was no
               \* longer the user's (history variable)

vars == <<email, lock, reqs, readable, raced>>

\* Mutant: addresses are stored and looked up as they were typed.
Normalize_AsTyped(x) == x

Normalize(x) == Canonical[x]

Idle == [pc |-> "idle", id |-> NoId, seen |-> NoEmail, next |-> NoEmail]
Edit == [pc: {"transact", "update"}, id: Ids, seen: Spellings,
         next: Spellings \cup {NoEmail}]

TypeOK ==
    /\ email \in [Ids -> Spellings \cup {NoEmail}]
    /\ lock \in [Spellings -> Ids \cup {NoId}]
    /\ reqs \in [Requests -> Edit \cup {Idle}]
    /\ readable \in [Ids -> SUBSET (Spellings \cup {NoEmail})]
    /\ raced \in BOOLEAN

Init ==
    /\ email = [i \in Ids |-> NoEmail]
    /\ lock = [x \in Spellings |-> NoId]
    /\ reqs = [r \in Requests |-> Idle]
    /\ readable = [i \in Ids |-> {NoEmail}]
    /\ raced = FALSE

Registered(i) == email[i] # NoEmail

\* Edit r will release, or write once more, the address that it has read.
Relies(r) ==
    \/ reqs[r].pc = "transact"
    \/ reqs[r].pc = "update" /\ reqs[r].next = reqs[r].seen

\* The address of the user of edit r moves under the other edits.
Overtake(r) ==
    raced' = (raced \/ \E q \in Requests \ {r} : Relies(q) /\ reqs[q].id = reqs[r].id)

\* The address of user i becomes x, which reads return from now on, or after
\* having returned for a while what they may return now.
WriteEmail(i, x) ==
    /\ email' = [email EXCEPT ![i] = x]
    /\ \/ readable' = [readable EXCEPT ![i] = {x}]
       \/ /\ Cardinality(readable[i] \cup {x}) <= MaxReadable
          /\ readable' = [readable EXCEPT ![i] = @ \cup {x}]

-----------------------------------------------------------------------------
\* POST /register: one transaction; a taken address cancels it (409).
Register(i, x) ==
    /\ ~Registered(i)
    /\ lock[Normalize(x)] = NoId
    /\ WriteEmail(i, Normalize(x))
    /\ lock' = [lock EXCEPT ![Normalize(x)] = i]
    /\ UNCHANGED <<reqs, raced>>

\* Mutant: the 404 of a missing user is dropped.
EditRead_NoCheck(r, i, seen, typed) ==
    /\ reqs[r].pc = "idle"
    /\ seen \in readable[i]
    /\ raced' = (raced \/ (seen # email[i] /\ typed # NoEmail))
    /\ LET next == IF typed = NoEmail THEN NoEmail ELSE Normalize(typed)
       IN  reqs' = [reqs EXCEPT
                      ![r] = [pc |-> IF next \notin {NoEmail, seen}
                                     THEN "transact" ELSE "update",
                              id |-> i, seen |-> seen, next |-> next]]
    /\ UNCHANGED <<email, lock, readable>>

\* PATCH /user/profile reads the item; `typed` is the address sent, if any.
EditRead(r, i, seen, typed) ==
    /\ reqs[r].pc = "idle"
    /\ seen \in readable[i]
    /\ seen # NoEmail
    /\ raced' = (raced \/ (seen # email[i] /\ typed # NoEmail))
    /\ LET next == IF typed = NoEmail THEN NoEmail ELSE Normalize(typed)
       IN  reqs' = [reqs EXCEPT
                      ![r] = [pc |-> IF next \notin {NoEmail, seen}
                                     THEN "transact" ELSE "update",
                              id |-> i, seen |-> seen, next |-> next]]
    /\ UNCHANGED <<email, lock, readable>>

\* Mutant: the transaction leaves the lock of the old address behind.
EditTransact_KeepOldLock(r) ==
    /\ reqs[r].pc = "transact"
    /\ lock[reqs[r].next] = NoId
    /\ WriteEmail(reqs[r].id, reqs[r].next)
    /\ lock' = [lock EXCEPT ![reqs[r].next] = reqs[r].id]
    /\ reqs' = [reqs EXCEPT ![r].pc = "update"]
    /\ Overtake(r)

\* Mutant: the transaction puts the new lock without a condition.
EditTransact_Unconditional(r) ==
    /\ reqs[r].pc = "transact"
    /\ WriteEmail(reqs[r].id, reqs[r].next)
    /\ lock' = [lock EXCEPT ![reqs[r].seen] = NoId, ![reqs[r].next] = reqs[r].id]
    /\ reqs' = [reqs EXCEPT ![r].pc = "update"]
    /\ Overtake(r)

\* The transaction: new address, lock of the address READ BEFORE released
\* without any condition on its holder, lock of the new one taken if free.
EditTransact(r) ==
    /\ reqs[r].pc = "transact"
    /\ lock[reqs[r].next] = NoId
    /\ WriteEmail(reqs[r].id, reqs[r].next)
    /\ lock' = [lock EXCEPT ![reqs[r].seen] = NoId, ![reqs[r].next] = reqs[r].id]
    /\ reqs' = [reqs EXCEPT ![r].pc = "update"]
    /\ Overtake(r)

\* A taken address cancels the transaction: 409.
EditConflict(r) ==
    /\ reqs[r].pc = "transact"
    /\ lock[reqs[r].next] # NoId
    /\ reqs' = [reqs EXCEPT ![r] = Idle]
    /\ UNCHANGED <<email, lock, readable, raced>>

\* The closing update: an address that was sent and equals the one read is
\* written once more, without looking at any lock.
EditUpdate(r) ==
    /\ reqs[r].pc = "update"
    /\ IF reqs[r].next = reqs[r].seen
         THEN WriteEmail(reqs[r].id, reqs[r].next)
         ELSE UNCHANGED <<email, readable>>
    /\ reqs' = [reqs EXCEPT ![r] = Idle]
    /\ UNCHANGED <<lock, raced>>

\* A call rejects, or the process exits: the edit stops where it stands.
EditFails(r) ==
    /\ reqs[r].pc # "idle"
    /\ reqs' = [reqs EXCEPT ![r] = Idle]
    /\ UNCHANGED <<email, lock, readable, raced>>

\* The replicas of a user's item have caught up.
CatchUp(i) ==
    /\ readable' = [readable EXCEPT ![i] = {email[i]}]
    /\ UNCHANGED <<email, lock, reqs, raced>>

EditStep(r) ==
    \/ EditTransact(r)
    \/ EditConflict(r)
    \/ EditUpdate(r)
    \/ EditFails(r)

Next ==
    \/ \E i \in Ids, x \in Spellings : Register(i, x)
    \/ \E r \in Requests :
         \/ \E i \in Ids, seen, typed \in Spellings \cup {NoEmail} :
              EditRead(r, i, seen, typed)
         \/ EditStep(r)
    \/ \E i \in Ids : CatchUp(i)

Spec == Init /\ [][Next]_vars

-----------------------------------------------------------------------------
(***************************************************************************)
(* docs/models.md:17 and :33: email is unique.  No two accounts have the   *)
(* same mailbox, in whatever spelling it was typed.                        *)
(***************************************************************************)
UniqueEmails ==
    \A i, j \in Ids :
        i # j /\ Registered(i) /\ Registered(j) =>
            Canonical[email[i]] # Canonical[email[j]]

(***************************************************************************)
(* UniqueEmails holds as long as no address moves while another edit of    *)
(* its user relies on it and none relies on an earlier address, whatever   *)
(* registrations, edits of other users, and edits of the same user that    *)
(* send no address or fail do meanwhile.                                   *)
(***************************************************************************)
UniqueUnlessRaced == ~raced => UniqueEmails

(***************************************************************************)
(* So long, the lock table mirrors the users table in every state, between *)
(* the two writes of an edit and after a failure too: an account's address *)
(* is locked for it, and no lock outlives the address it protects, which   *)
(* would bar everybody from that address for ever.                         *)
(***************************************************************************)
LocksMatch ==
    ~raced =>
        /\ \A i \in Ids : Registered(i) => lock[email[i]] = i
        /\ \A x \in Spellings : lock[x] # NoId => email[lock[x]] = x

(***************************************************************************)
(* So long, the two tables and the several calls of an edit act like one   *)
(* directory in which every registration and every move is a single step.  *)
(***************************************************************************)
MailboxOf(i) == IF Registered(i) THEN Canonical[email[i]] ELSE NoEmail

View == INSTANCE Directory WITH
    Mailboxes <- Spellings,
    Nowhere <- NoEmail,
    mailbox <- [i \in Ids |-> MailboxOf(i)],
    broken <- raced

DirectorySpec == View!Spec

-----------------------------------------------------------------------------
(* The inductive invariant behind UniqueEmails, LocksMatch and             *)
(* DirectorySpec.                                                          *)

\* Only canonical addresses are stored, and only those are asked for.
AllCanonical ==
    /\ \A i \in Ids : Registered(i) => Canonical[email[i]] = email[i]
    /\ \A r \in Requests :
         reqs[r].next # NoEmail => Canonical[reqs[r].next] = reqs[r].next

\* An edit that relies on the address it read still finds it in the users
\* table; one that is about to move a lock moves it to another address.
ReadIsCurrent ==
    \A r \in Requests :
        /\ Relies(r) => email[reqs[r].id] = reqs[r].seen
        /\ reqs[r].pc = "transact" => reqs[r].next \notin {NoEmail, reqs[r].seen}

IInv ==
    ~raced =>
        /\ AllCanonical
        /\ ReadIsCurrent
        /\ LocksMatch
=============================================================================
