-------------------------- MODULE MCRedisInterrupts --------------------------
(***************************************************************************)
(* Instances of RedisInterrupts for TLC.                                    *)
(***************************************************************************)
EXTENDS RedisInterrupts

ClientSymmetry == Permutations(Clients)
=============================================================================
