---------------------------- MODULE MCWebSession ----------------------------
(* Instances of WebSession: two tabs with faults for what must hold whatever *)
(* happens, one tab without faults for two calls that refresh at once.      *)
EXTENDS CalmSession, TLC

CONSTANTS u1, u2, t1, t2, c1, c2

Alike == Permutations({u1, u2}) \union Permutations({c1, c2})
AlikeTabs == Alike \union Permutations({t1, t2})
=============================================================================
