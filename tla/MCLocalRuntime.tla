--------------------------- MODULE MCLocalRuntime ---------------------------
(***************************************************************************)
(* Instances of LocalRuntime for TLC: a workflow of two steps, the second    *)
(* of which requires the artifact of the first, or the first of which may     *)
(* be repeated.                                                             *)
(***************************************************************************)
EXTENDS LocalRuntimeInv

CONSTANTS c1, c2, c3, c4, p1, p2, s1, s2

(* Calls c1 and c3 are served by one process, c2 and c4 by another. *)
TwoProcs == [c \in Calls |-> IF c \in {c1, c3} THEN p1 ELSE p2]
OneProc == [c \in Calls |-> p1]

(* Calls of one process are interchangeable. *)
WorkerSymmetry == Permutations({c1, c3} \cap Calls)
                    \cup Permutations({c2, c4} \cap Calls)
CallSymmetry == Permutations(Calls)

Chain == [s \in Steps |-> IF s = s1 THEN {s2} ELSE {End}]
Branch == [s \in Steps |-> IF s = s1 THEN {s2, End} ELSE {End}]
LoopThenEnd == [s \in Steps |-> IF s = s1 THEN {s1, s2} ELSE {End}]

SecondNeedsFirst == [s \in Steps |-> IF s = s2 THEN {s1} ELSE {}]
FirstNeedsSecond == [s \in Steps |-> IF s = s1 THEN {s2} ELSE {}]
SecondIsBlocked == [s \in Steps |-> IF s = s2 THEN {s2} ELSE {}]
NeedsNothing == [s \in Steps |-> {}]

(* The first step may interrupt the run, the second may fail. *)
AskThenWork == [s \in Steps |-> IF s = s1 THEN {"next", "interrupt"}
                                          ELSE {"next", "fail"}]
SecondIsPlain == [s \in Steps |->
  IF s = s1 THEN Outcome \ {"badUpdate"} ELSE {"next", "fail"}]
AnyEnd == [s \in Steps |-> {"next", "interrupt", "needsApproval", "fail"}]
AnyOutcome == [s \in Steps |-> Outcome]

AnyQuote == {None} \cup 1 .. 7

(* Over Redis every await suspends, but those on an in-memory audit log. *)
SerialWorkers == {}
InMemory == {"executing"}
Everywhere == PC
RedisStores == PC \ {"granting", "rejecting"}
RedisAudit == {"granting", "rejecting", "executing"}
=============================================================================
