------------------------------ MODULE MC_Listing -------------------------------
(***************************************************************************)
(* A small instance of Listing: the cap is not a multiple of the page size,*)
(* so that the last internal page is cut.                                  *)
(***************************************************************************)
EXTENDS Listing

MCDefaultLimit == [r \in Routes |-> IF r = "simulations" THEN 0 ELSE 2]
================================================================================
