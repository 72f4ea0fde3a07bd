---------------------------- MODULE MCDemandLog ----------------------------
(* Four attempts, a channel and a batch that they overfill.                *)
EXTENDS DemandLog, TLC

CONSTANTS a1, a2, a3, a4

Alike == Permutations({a1, a2, a3, a4})
=============================================================================
