---------------------------- MODULE MCRunServices ----------------------------
(***************************************************************************)
(* Instances of RunServices for TLC: two runs, each of a thread of its own,   *)
(* share a memory; channels of every built-in reducer.                       *)
(***************************************************************************)
EXTENDS RunServices

CONSTANTS r1, r2, t1, t2, k1, k2

TaskRuns == [k \in Tasks |-> IF k = k1 THEN r1 ELSE r2]
RunThreads == [r \in Runs |-> IF r = r1 THEN t1 ELSE t2]

Number(n) == [kind |-> "number", of |-> <<n>>]
Text(n) == [kind |-> "text", of |-> <<n>>]

Reducers == [merged |-> "merge", appended |-> "append", pruned |-> "prune", cut |-> "prune",
             replaced |-> "replace", cleared |-> "clear", unknown |-> "missing"]
ChannelDefaults ==
  [c \in ChannelNames |-> CASE c = "pruned" -> List(<<Number(7), Text(8), Number(9)>>)
                            [] c \in {"merged", "cut"} -> Dict(<<Number(7)>>)
                            [] OTHER -> Empty]
SomeValues == {Number(2), Text(1), List(<<Number(1), Number(3)>>),
               List(<<Text(1), Empty>>), Dict(<<Number(5), Text(6)>>)}

(* The memory over both connectors. What is left out adds nothing here: without   *)
(* redaction no run resolves a secret, of the one secret there is nothing can be  *)
(* said if JSON escapes it, and threads and channels do not depend on either.   *)
ServicesInit ==
  /\ Init
  /\ redacts /\ escaped = {}
  /\ uses # "memory" => connector = "dict"
ServicesSpec == ServicesInit /\ [][Next]_vars
=============================================================================
