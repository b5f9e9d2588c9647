------------------------------ MODULE RunNames ------------------------------
(***************************************************************************)
(* The names the components share.                                          *)
(***************************************************************************)
CONSTANTS Runs,     \* run ids
          Threads,  \* thread ids
          Steps,    \* names of the steps of the workflow
          None      \* absence of a step, a thread, a run or an epoch

ASSUME NoneIsNoName == None \notin Runs \cup Threads \cup Steps
=============================================================================
