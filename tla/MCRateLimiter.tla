----------------------------- MODULE MCRateLimiter -----------------------------
(* Two connections, each handled by a replica of its own; a limit of two, a    *)
(* window of two ticks.                                                       *)
EXTENDS RateLimiter, TLC

CONSTANTS q1, q2, p1, p2

MCReplicaOf == q1 :> p1 @@ q2 :> p2
=============================================================================
