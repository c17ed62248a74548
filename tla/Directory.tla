------------------------------ MODULE Directory ------------------------------
(***************************************************************************)
(* What the address of an account is, with no lock table, requests or      *)
(* replicas: an account gets a mailbox nobody has, by registering or by    *)
(* moving, in one step; once it has one it is never without.  Nothing is   *)
(* promised any more once the directory is broken.                         *)
(***************************************************************************)
CONSTANTS Ids, Mailboxes, Nowhere

VARIABLES
    mailbox,  \* [Ids -> Mailboxes \cup {Nowhere}]
    broken

vars == <<mailbox, broken>>

Init ==
    /\ mailbox = [i \in Ids |-> Nowhere]
    /\ broken = FALSE

Claim(i, x) ==
    /\ \A j \in Ids : mailbox[j] # x
    /\ mailbox' = [mailbox EXCEPT ![i] = x]
    /\ UNCHANGED broken

Break == broken' = TRUE

Next ==
    \/ Break
    \/ \E i \in Ids, x \in Mailboxes : Claim(i, x)

Spec == Init /\ [][Next]_vars
=============================================================================
