-------------------------- MODULE MCConnectionPool --------------------------
(* Instances of ConnectionPool for TLC. *)
EXTENDS ConnectionPool, TLC

CONSTANTS c1, c2, c3, ann, bob

(* Neither connection ids nor users are told apart by any definition. *)
PoolSymmetry == Permutations(Ids) \cup Permutations(Users)
=============================================================================
