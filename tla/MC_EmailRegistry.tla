--------------------------- MODULE MC_EmailRegistry ---------------------------
(***************************************************************************)
(* Three mailboxes, one of them typed in two spellings.                    *)
(***************************************************************************)
EXTENDS EmailRegistry, TLC

CONSTANTS a, A, b, c

MCSpellings == {a, A, b, c}
MCCanonical == [x \in MCSpellings |-> IF x = A THEN a ELSE x]

Symmetry == Permutations(Ids) \cup Permutations(Requests) \cup Permutations({b, c})
=============================================================================
