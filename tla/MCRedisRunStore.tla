--------------------------- MODULE MCRedisRunStore --------------------------
(***************************************************************************)
(* Instances of RedisRunStore for TLC: all runs are on one thread.           *)
(***************************************************************************)
EXTENDS RedisRunStore

OneThread == [r \in Runs |-> CHOOSE t \in Threads : TRUE]
Symmetry == Permutations(Clients) \cup Permutations(Runs)
=============================================================================
