----------------------------- MODULE MCTimeSync -----------------------------
(* A master m that starts synchronisations and two slaves; slave b checks.  *)
EXTENDS TimeSync, TLC
CONSTANTS m, a, b
MCOffset == m :> 0 @@ a :> 3 @@ b :> 1
MCOffset1 == m :> 0 @@ a :> 3
=============================================================================
