------------------------------ MODULE OwnerView ------------------------------
(***************************************************************************)
(* What the API promises the owner of a simulation, with no requests,      *)
(* tables, queue or workers: a simulation is submitted once, by one user   *)
(* who remains its owner; it is worked on; it may be cancelled while it is *)
(* in flight and only then; and once removed it never comes back.          *)
(***************************************************************************)
CONSTANTS Sims, Users, NoUser

VARIABLE view  \* [Sims -> [phase, owner]]

Live == {"inflight", "completed", "failed", "cancelled"}

Unborn == [phase |-> "unborn", owner |-> NoUser]
Gone == [phase |-> "gone", owner |-> NoUser]
Of(u, phase) == [phase |-> phase, owner |-> u]

Init == view = [s \in Sims |-> Unborn]

Submit(s, u, phase) ==
    /\ view[s] = Unborn
    /\ view' = [view EXCEPT ![s] = Of(u, phase)]

\* The worker, or the enqueue failure, settles or restarts the simulation:
\* setStatus and saveResults do so from any phase.
Work(s, phase) ==
    /\ view[s].phase \in Live
    /\ view' = [view EXCEPT ![s] = Of(@.owner, phase)]

Cancel(s) ==
    /\ view[s].phase = "inflight"
    /\ view' = [view EXCEPT ![s] = Of(@.owner, "cancelled")]

Remove(s) ==
    /\ view[s].phase \in Live
    /\ view' = [view EXCEPT ![s] = Gone]

Next ==
    \E s \in Sims :
        \/ \E u \in Users, phase \in {"inflight", "completed"} : Submit(s, u, phase)
        \/ \E phase \in {"inflight", "completed", "failed"} : Work(s, phase)
        \/ Cancel(s)
        \/ Remove(s)

Spec == Init /\ [][Next]_view
=============================================================================
