--------------------------- MODULE MCStepExecution ---------------------------
(***************************************************************************)
(* Instances of StepExecution for TLC: tools of every placement, agents that   *)
(* call them one by one, at once and through GovernedToolCallLoop.           *)
(***************************************************************************)
EXTENDS StepExecution

CONSTANTS e1, e2,
          here, there, either, asking, barred, \* tools
          one, pair, both, loop, asker, far    \* agents

AllTools == {here, there, either, asking, barred}
AllAgents == {one, pair, both, loop, asker, far}

PlacementOf == [x \in Executors |->
  CASE x \in {here, both} -> "local_only"
    [] x \in {there, far} -> "remote_only"
    [] OTHER -> "local_or_remote"]

Scripts == [x \in Agents |->
  CASE x = one -> <<either>>
    [] x = pair -> <<either, there>>
    [] x = both -> <<there, here>>
    [] x = loop -> <<barred, here>>
    [] x = asker -> <<asking>>
    [] x = far -> <<there, there>>]

AllowLists == [x \in Agents |->
  CASE x = both -> {here, there}
    [] x = loop -> {there}
    [] OTHER -> {either, there, asking}]

Limits == [x \in Agents |-> IF x \in {pair, far} THEN 2 ELSE 1]
HandlerStyles == [x \in Agents |->
  CASE x = both -> "gather" [] x = loop -> "loop" [] OTHER -> "serial"]

BothPolicies == <<"custom", "capability">>
BothModes == {"local_dev", "strict_remote"}

(* The second step shares the client with whatever the first step is. *)
AnyAndRemote == [e \in Steps |-> IF e = e1 THEN Executors ELSE {there}]
TwoCallAgents == [e \in Steps |-> {pair, far}]
=============================================================================
