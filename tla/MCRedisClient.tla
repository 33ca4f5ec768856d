--------------------------- MODULE MCRedisClient ---------------------------
(* Instances of RedisClient for TLC. *)
EXTENDS RedisClient, TLC

CONSTANTS t1, t2, t3

(* Guarded threads are interchangeable, and so are the others. *)
ThreadSymmetry == Permutations(Guarded) \cup Permutations(Threads \ Guarded)
=============================================================================
