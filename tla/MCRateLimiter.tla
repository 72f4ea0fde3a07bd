---------------------------- MODULE MCRateLimiter ----------------------------
(* Instances of RateLimiter.  ideal: small buckets, "auth" the smaller.    *)
(* budget: buckets of one token, which takes so long to come back that the *)
(* disorder of three scripts does not make up for it.                      *)
EXTENDS RateLimiter, TLC

CONSTANTS r1, r2, r3, r4

Bursts == "ip" :> 3 @@ "auth" :> 2
Costs == "ip" :> 1 @@ "auth" :> 2
SlowToken == "ip" :> 5 @@ "auth" :> 5

Alike == Permutations({r1, r2, r3, r4})
=============================================================================
