----------------------------- MODULE IdealBucket -----------------------------
(***************************************************************************)
(* What a token bucket promises: it fills by one unit a tick up to Burst,  *)
(* and a request is granted, at Cost units, exactly when they are there.   *)
(***************************************************************************)
EXTENDS Naturals

CONSTANTS Burst, Cost

VARIABLES level, granted, denied

vars == <<level, granted, denied>>

Init == level = Burst /\ granted = 0 /\ denied = 0

Fill ==
  /\ level < Burst
  /\ level' = level + 1
  /\ UNCHANGED <<granted, denied>>

Grant ==
  /\ level >= Cost
  /\ level' = level - Cost
  /\ granted' = granted + 1
  /\ UNCHANGED denied

Deny ==
  /\ level < Cost
  /\ denied' = denied + 1
  /\ UNCHANGED <<level, granted>>

Next == Fill \/ Grant \/ Deny

Spec == Init /\ [][Next]_vars
=============================================================================
