----------------------------- MODULE MCFthTables ----------------------------
EXTENDS FthTables, TLC
CONSTANTS k1, k2, k3
\* k1 and k2 are in one bucket of two.
MCId == k1 :> 0 @@ k2 :> 2 @@ k3 :> 1
=============================================================================
