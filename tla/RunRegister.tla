----------------------------- MODULE RunRegister ----------------------------
(***************************************************************************)
(* What a run store promises (governai/runtime/run_store.py, RunStore): for   *)
(* each run a register of numbered versions.  A client may look at any        *)
(* version a run has had; it may replace the current one only if that is the  *)
(* version it has looked at.  Where runs may be forgotten the numbers start   *)
(* again, and all that is left is that a client does not replace a version    *)
(* whose number is higher than the one it has looked at.                     *)
(***************************************************************************)
EXTENDS RunNames, Naturals

CONSTANTS Clients, Values, MayForget

VARIABLES version, \* the number of the current version of each run (0: none)
          value,   \* what that version says
          view     \* the version each client looks at

registerVars == <<version, value, view>>

Init ==
  /\ version = [r \in Runs |-> 0]
  /\ value \in [Runs -> Values]
  /\ view = [k \in Clients |-> [run |-> None, version |-> 0]]

Read(k, r) ==
  LET v == view'[k].version IN
    /\ view' = [view EXCEPT ![k] = [run |-> r, version |-> v]]
    /\ v \in Nat
    /\ v <= version[r] \/ MayForget
    /\ UNCHANGED <<version, value>>

Sees(k, r) ==
  /\ view[k].run = r
  /\ \/ view[k].version = version[r]
     \/ MayForget /\ view[k].version > version[r]

Write(k, r) ==
  /\ Sees(k, r)
  /\ version' = [version EXCEPT ![r] = @ + 1]
  /\ \E v \in Values : value' = [value EXCEPT ![r] = v]
  /\ view' = [view EXCEPT ![k] = [run |-> r, version |-> version'[r]]]

Forget(r) ==
  /\ MayForget
  /\ version' = [version EXCEPT ![r] = 0]
  /\ \E v \in Values : value' = [value EXCEPT ![r] = v]
  /\ UNCHANGED view

Next ==
  \E r \in Runs :
    Forget(r) \/ \E k \in Clients : Read(k, r) \/ Write(k, r)

Spec == Init /\ [][Next]_registerVars
=============================================================================
