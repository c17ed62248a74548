--------------------------- MODULE MC_ResultsReader ----------------------------
(***************************************************************************)
(* Small instances of ResultsReader for TLC.                               *)
(***************************************************************************)
EXTENDS ResultsReader, TLC

AllFaults == {"reject", "send", "sendLost", "giveUp", "exit", "workerCrash"}

Symmetry ==
    Permutations(Requests) \cup Permutations(Workers)
        \cup Permutations(Users) \cup Permutations(Rows)
================================================================================
