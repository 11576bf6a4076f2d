----------------------------- MODULE MCFilingSweep -----------------------------
(* Instances of FilingSweep: two share classes of one company over two      *)
(* sweeps, as a row left by one only matters to the next.                   *)
EXTENDS FilingSweep, TLC

CONSTANTS goog, googl, alphabet

OneCompany == goog :> alphabet @@ googl :> alphabet
================================================================================
