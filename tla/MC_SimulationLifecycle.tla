------------------------ MODULE MC_SimulationLifecycle ------------------------
(***************************************************************************)
(* Small instances of SimulationLifecycle for TLC.                         *)
(***************************************************************************)
EXTENDS SimulationLifecycle, TLC

AllFaults == {"reject", "send", "sendLost", "giveUp", "exit", "workerCrash"}

OnlyGiveUp == {"giveUp"}

Symmetry ==
    Permutations(Requests) \cup Permutations(Workers)
        \cup Permutations(Users) \cup Permutations(Rows)
=============================================================================
