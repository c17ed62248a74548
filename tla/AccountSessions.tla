--------------------------- MODULE AccountSessions ---------------------------
(***************************************************************************)
(* The session state of one account: the attributes isActive, passwordHash *)
(* and refreshTokenHash of its item, and the requests that read the item   *)
(* and write it a moment later.  Every request writes its own account      *)
(* only, so one account shows all there is.                                *)
(*                                                                         *)
(*   login           Query -> bcrypt -> save                               *)
(*   refresh         Get -> save                                           *)
(*   logout          Get -> clear                                          *)
(*   changePassword  Get (authMiddleware) -> Get -> bcrypt -> write        *)
(*   toggleSuspend   Get -> toggle                                         *)
(*                                                                         *)
(* A request that stops at a check answers 401 or 403, changes nothing,    *)
(* and is a step only when it had been waiting before.  At most one        *)
(* refresh token is stored; a client presents any token it was ever given  *)
(* (they are valid for seven days, longer than anything modelled here).    *)
(***************************************************************************)
EXTENDS Integers, FiniteSets

CONSTANTS
    Tokens,      \* refresh tokens: a random jti keeps them all distinct
    NoToken,
    Passwords,
    Requests,    \* slots for concurrent requests
    MaxReadable  \* versions of the item that reads may return at a time

ASSUME SessionAssumption ==
    /\ NoToken \notin Tokens
    /\ Passwords # {}
    /\ MaxReadable \in Nat

VARIABLES
    active,    \* isActive
    password,  \* the password passwordHash was made of
    stored,    \* the token refreshTokenHash was made of
    readable,  \* the versions of the item that a read may return
    reqs,      \* requests in progress
    minted,    \* tokens signed so far
    held,      \* tokens that reached a client
    retired,   \* tokens replaced or cleared (history variable)
    current,   \* tokens that go back to a login with the present password,
               \* directly or by refreshes (history variable)
    raced      \* a write has taken away what another request in progress had
               \* checked already, or checks have been made on the item as it
               \* was before (history variable)

account == <<active, password, stored, readable>>
tokens == <<minted, held, retired, current>>
vars == <<account, reqs, tokens, raced>>

Item == [active |-> active, password |-> password, stored |-> stored]
Versions == [active: BOOLEAN, password: Passwords, stored: Tokens \cup {NoToken}]

Idle == [pc |-> "idle"]
Request ==
    [pc: {"save"}, token: Tokens]
      \cup [pc: {"clear"}]
      \cup [pc: {"verify", "write"}, old: Passwords, new: Passwords]
      \cup [pc: {"toggle"}, value: BOOLEAN]

TypeOK ==
    /\ active \in BOOLEAN
    /\ password \in Passwords
    /\ stored \in Tokens \cup {NoToken}
    /\ readable \in SUBSET Versions
    /\ reqs \in [Requests -> Request \cup {Idle}]
    /\ minted \in SUBSET Tokens
    /\ held \in SUBSET minted
    /\ retired \in SUBSET minted
    /\ current \in SUBSET minted
    /\ raced \in BOOLEAN

Init ==
    /\ active = TRUE
    /\ password \in Passwords
    /\ stored = NoToken
    /\ readable = {Item}
    /\ reqs = [r \in Requests |-> Idle]
    /\ minted = {}
    /\ held = {}
    /\ retired = {}
    /\ current = {}
    /\ raced = FALSE

\* A request begins by reading version v.
Begin(r, v) ==
    /\ reqs[r] = Idle
    /\ v \in readable

\* The checks of a request are made on version v.
Trust(v) == raced' = (raced \/ v # Item)

\* A write of request r outdates what the requests at these pcs have checked.
Overtake(r, pcs) == raced' = (raced \/ \E q \in Requests \ {r} : reqs[q].pc \in pcs)

Wait(r, request) == reqs' = [reqs EXCEPT ![r] = request]
Answer(r) == Wait(r, Idle)

\* What refreshTokenHash becomes, and the token it was before retires.
Store(t) ==
    /\ stored' = t
    /\ retired' = retired \cup ({stored} \ {NoToken, t})

\* The item has been written: reads return it from now on, or after having
\* returned for a while what they may return now.
Written ==
    \/ readable' = {Item'}
    \/ /\ Cardinality(readable \cup {Item'}) <= MaxReadable
       /\ readable' = readable \cup {Item'}

\* The table's replicas and its e-mail index have caught up.
CatchUp ==
    /\ readable' = {Item}
    /\ UNCHANGED <<active, password, stored, reqs, tokens, raced>>

-----------------------------------------------------------------------------
\* Mutant: without a jti a login may be handed the token of an earlier one.
LoginRead_NoJti(r, v, pw, t) ==
    /\ Begin(r, v)
    /\ Trust(v)
    /\ v.active
    /\ pw = v.password
    /\ current' = current \cup {t}
    /\ Wait(r, [pc |-> "save", token |-> t])
    /\ UNCHANGED <<account, minted, held, retired>>

\* POST /login: the account is active and the password right, when read.
LoginRead(r, v, pw, t) ==
    /\ Begin(r, v)
    /\ Trust(v)
    /\ v.active
    /\ pw = v.password
    /\ t \notin minted
    /\ minted' = minted \cup {t}
    /\ current' = current \cup {t}
    /\ Wait(r, [pc |-> "save", token |-> t])
    /\ UNCHANGED <<account, held, retired>>

\* Mutant: without a jti a token signed in the same second is the same token.
RefreshRead_NoJti(r, v, presented, t) ==
    /\ Begin(r, v)
    /\ Trust(v)
    /\ presented \in held
    /\ v.active
    /\ presented = v.stored
    /\ Wait(r, [pc |-> "save", token |-> presented])
    /\ UNCHANGED <<account, tokens>>

\* POST /refresh: the account is active and the token is the stored one.
RefreshRead(r, v, presented, t) ==
    /\ Begin(r, v)
    /\ Trust(v)
    /\ presented \in held
    /\ v.active
    /\ presented = v.stored
    /\ t \notin minted
    /\ minted' = minted \cup {t}
    /\ current' = current \cup {x \in {t} : presented \in current}
    /\ Wait(r, [pc |-> "save", token |-> t])
    /\ UNCHANGED <<account, held, retired>>

\* saveRefreshToken, unconditional.  The answer, with the cookie, reaches the
\* client or is lost.
Save(r) ==
    /\ reqs[r].pc = "save"
    /\ Store(reqs[r].token)
    /\ \/ held' = held \cup {reqs[r].token}
       \/ UNCHANGED held
    /\ Answer(r)
    /\ UNCHANGED <<active, password, minted, current, raced>>
    /\ Written

\* POST /logout: any token the server once signed ends the stored session,
\* whichever version of the item is read.
LogoutRead(r) ==
    /\ Begin(r, Item)
    /\ held # {}
    /\ Wait(r, [pc |-> "clear"])
    /\ UNCHANGED <<account, tokens, raced>>

LogoutClear(r) ==
    /\ reqs[r].pc = "clear"
    /\ Store(NoToken)
    /\ Answer(r)
    /\ UNCHANGED <<active, password, minted, held, current, raced>>
    /\ Written

-----------------------------------------------------------------------------
\* Mutant: authMiddleware trusts the access token and reads no account.
ChangeAuth_NoCheck(r, v, old, new) ==
    /\ Begin(r, v)
    /\ Trust(v)
    /\ held # {}
    /\ Wait(r, [pc |-> "verify", old |-> old, new |-> new])
    /\ UNCHANGED <<account, tokens>>

\* PATCH /user/password, with an access token handed out with some session:
\* authMiddleware looks at isActive ...
ChangeAuth(r, v, old, new) ==
    /\ Begin(r, v)
    /\ Trust(v)
    /\ held # {}
    /\ v.active
    /\ Wait(r, [pc |-> "verify", old |-> old, new |-> new])
    /\ UNCHANGED <<account, tokens>>

\* ... the handler reads the item again to compare the password ...
ChangeVerify(r, v) ==
    /\ reqs[r].pc = "verify"
    /\ v \in readable
    /\ Trust(v)
    /\ IF reqs[r].old = v.password
         THEN Wait(r, [reqs[r] EXCEPT !.pc = "write"])
         ELSE Answer(r)
    /\ UNCHANGED <<account, tokens>>

\* Mutant: the stored hash outlives the password.
ChangeWrite_KeepSession(r) ==
    /\ reqs[r].pc = "write"
    /\ password' = reqs[r].new
    /\ current' = {}
    /\ Answer(r)
    /\ Overtake(r, {"save"})
    /\ UNCHANGED <<active, stored, minted, held, retired>>
    /\ Written

\* ... and one update sets the new hash and removes the refresh token.
ChangeWrite(r) ==
    /\ reqs[r].pc = "write"
    /\ password' = reqs[r].new
    /\ Store(NoToken)
    /\ current' = {}
    /\ Answer(r)
    /\ Overtake(r, {"save"})
    /\ UNCHANGED <<active, minted, held>>
    /\ Written

-----------------------------------------------------------------------------
\* PATCH /admin/users/:id/suspend: the value to write is computed from the
\* item read before.
ToggleRead(r, v) ==
    /\ Begin(r, v)
    /\ Wait(r, [pc |-> "toggle", value |-> ~v.active])
    /\ UNCHANGED <<account, tokens, raced>>

\* Mutant: suspending leaves the refresh token to expire by itself.
ToggleWrite_KeepSession(r) ==
    /\ reqs[r].pc = "toggle"
    /\ active' = reqs[r].value
    /\ IF reqs[r].value THEN UNCHANGED raced ELSE Overtake(r, {"save", "verify", "write"})
    /\ Answer(r)
    /\ UNCHANGED <<password, stored, tokens>>
    /\ Written

ToggleWrite(r) ==
    /\ reqs[r].pc = "toggle"
    /\ active' = reqs[r].value
    /\ IF reqs[r].value
         THEN UNCHANGED <<stored, retired, raced>>
         ELSE Store(NoToken) /\ Overtake(r, {"save", "verify", "write"})
    /\ Answer(r)
    /\ UNCHANGED <<password, minted, held, current>>
    /\ Written

\* A call rejects, or the process exits.
Fails(r) ==
    /\ reqs[r] # Idle
    /\ Answer(r)
    /\ UNCHANGED <<account, tokens, raced>>

-----------------------------------------------------------------------------
Start(r) ==
    \/ LogoutRead(r)
    \/ \E v \in readable :
         \/ \E pw \in Passwords, t \in Tokens : LoginRead(r, v, pw, t)
         \/ \E presented, t \in Tokens : RefreshRead(r, v, presented, t)
         \/ \E old, new \in Passwords : ChangeAuth(r, v, old, new)
         \/ ToggleRead(r, v)

Continue(r) ==
    \/ Save(r)
    \/ LogoutClear(r)
    \/ \E v \in readable : ChangeVerify(r, v)
    \/ ChangeWrite(r)
    \/ ToggleWrite(r)

Next ==
    \/ \E r \in Requests : Start(r) \/ Continue(r) \/ Fails(r)
    \/ CatchUp

Spec == Init /\ [][Next]_vars

-----------------------------------------------------------------------------
(* Whatever overlaps.                                                      *)

(***************************************************************************)
(* A token that was replaced by a refresh or a login, or cleared by a      *)
(* logout, a suspension or a password change, is never stored again: its   *)
(* client can not come back with it, whatever writes were in flight.       *)
(***************************************************************************)
RetiredStaysRetired == stored \notin retired

-----------------------------------------------------------------------------
(* However requests overlap, until a suspension or a password change lands *)
(* between the checks and the write of another one, or checks are made on  *)
(* the item as it was before.  That is all that can go wrong: refreshes,   *)
(* logins, logouts and the admins' toggles may cross each other at will.   *)

(***************************************************************************)
(* A suspended account has no stored token, so that reactivating it        *)
(* restores no session: two admins who toggle at once, and the refreshes   *)
(* and logouts around them, leave none behind, failed or half answered.    *)
(***************************************************************************)
SuspendedHasNoSession == ~raced /\ ~active => stored = NoToken

(***************************************************************************)
(* The stored token goes back to a login with the password the account     *)
(* has now: a password change ends every session begun before it, in       *)
(* whatever order logins, refreshes and other password changes write.      *)
(***************************************************************************)
SessionHasPassword == ~raced /\ stored # NoToken => stored \in current

(***************************************************************************)
(* The handlers, each a read, checks and a later write, act on the account *)
(* like single steps, overlapping or not: none acts on a suspended account *)
(* but the one that reactivates it, and that one finds no session.         *)
(***************************************************************************)
View == INSTANCE Session WITH
    None <- NoToken, session <- stored, spent <- retired, broken <- raced

SessionSpec == View!Spec

-----------------------------------------------------------------------------
(* What the documentation says whether or not they do.                     *)

(***************************************************************************)
(* docs/authentication.md, "Suspended User Handling": reactivating a user  *)
(* restores no session; the hash is null and the user must log in again.   *)
(***************************************************************************)
ReactivationRestoresNothing ==
    [][~active /\ active' => stored = NoToken]_vars

-----------------------------------------------------------------------------
(* The inductive invariant behind the properties that hold.                *)

\* Whatever is stored, or waits to be, has been signed.
Signed ==
    /\ stored # NoToken => stored \in minted
    /\ \A r \in Requests : reqs[r].pc = "save" => reqs[r].token \in minted

\* A token waiting to be saved was not stored before, and one request has it.
SavedOnce ==
    /\ \A r \in Requests :
         reqs[r].pc = "save" => reqs[r].token \notin retired \cup {stored}
    /\ \A q, r \in Requests :
         q # r /\ reqs[q].pc = "save" /\ reqs[r].pc = "save" =>
             reqs[q].token # reqs[r].token

\* Without a race, what a request has checked is still so when it writes.
ReadIsCurrent ==
    \A r \in Requests :
        /\ reqs[r].pc \in {"save", "verify", "write"} => active
        /\ reqs[r].pc = "save" => reqs[r].token \in current

IInv ==
    /\ Signed
    /\ SavedOnce
    /\ RetiredStaysRetired
    /\ ~raced => ReadIsCurrent
    /\ SuspendedHasNoSession
    /\ SessionHasPassword
=============================================================================
