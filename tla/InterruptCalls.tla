---------------------------- MODULE InterruptCalls ----------------------------
(***************************************************************************)
(* What the callers of an InterruptManager (governai/runtime/interrupts.py)    *)
(* may ask of it, whatever store it has.                                     *)
(***************************************************************************)
EXTENDS Interrupts

CONSTANTS MaxPending,  \* max_pending of create
          MaxRequests, \* bound on the requests of a run
          MaxEpoch     \* bound on the epoch of a run

ASSUME InterruptConstants ==
  /\ MaxPending \in Nat
  /\ MaxRequests \in Nat
  /\ MaxEpoch \in Nat
  /\ None \notin Nat

(* The epoch a call names, or None. *)
Quotes == {None} \cup 0 .. MaxEpoch
=============================================================================
