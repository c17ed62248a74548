------------------------------- MODULE Session -------------------------------
(***************************************************************************)
(* What an account's session is, with no requests, tables or replicas: it  *)
(* begins, or goes on, with a token never used before, while the account   *)
(* is active; a logout, a suspension and a new password end it in the same *)
(* step; and only an active account gets a new password.  Nothing is       *)
(* promised any more once the account is broken.                           *)
(***************************************************************************)
CONSTANTS Tokens, None, Passwords

VARIABLES
    active,
    password,
    session,  \* the token that prolongs the session, or None
    spent,    \* the tokens that once did
    broken

vars == <<active, password, session, spent, broken>>

Init ==
    /\ active = TRUE
    /\ password \in Passwords
    /\ session = None
    /\ spent = {}
    /\ broken = FALSE

Spend(t) ==
    /\ session' = t
    /\ spent' = spent \cup ({session} \ {None})

Open(t) ==
    /\ active
    /\ t \notin spent \cup {session}
    /\ Spend(t)
    /\ UNCHANGED <<active, password, broken>>

Close ==
    /\ Spend(None)
    /\ UNCHANGED <<active, password, broken>>

NewPassword(pw) ==
    /\ active
    /\ password' = pw
    /\ Spend(None)
    /\ UNCHANGED <<active, broken>>

Suspend ==
    /\ active' = FALSE
    /\ Spend(None)
    /\ UNCHANGED <<password, broken>>

Reactivate ==
    /\ session = None
    /\ active' = TRUE
    /\ UNCHANGED <<password, session, spent, broken>>

Break == broken' = TRUE

Next ==
    \/ Break
    \/ \E t \in Tokens : Open(t)
    \/ Close
    \/ \E pw \in Passwords : NewPassword(pw)
    \/ Suspend
    \/ Reactivate

Spec == Init /\ [][Next]_vars
=============================================================================
