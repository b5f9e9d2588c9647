-------------------------- MODULE MCRunStoreClients -------------------------
(***************************************************************************)
(* Instances of RunStoreClients for TLC: all runs are on one thread.         *)
(***************************************************************************)
EXTENDS RunStoreClients

OneThread == [r \in Runs |-> CHOOSE t \in Threads : TRUE]
ClientSymmetry == Permutations(Clients)
=============================================================================
