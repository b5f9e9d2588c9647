-------------------------- MODULE InterruptClients --------------------------
(***************************************************************************)
(* Callers of an InterruptManager over InMemoryInterruptStore                 *)
(* (governai/runtime/interrupts.py): the runtime, the pages that show what is  *)
(* pending and the jobs that clean up, in any order.  No operation of the      *)
(* in-memory store suspends, so each manager operation is one step.           *)
(***************************************************************************)
EXTENDS InterruptCalls

VARIABLE answers \* how many answers each request of a run has received

managerVars == <<interruptVars, answers>>

ManagerInit ==
  /\ InterruptsInit
  /\ answers = [r \in Runs |-> <<>>]

Bump(r) ==
  /\ epochs[r] < MaxEpoch
  /\ BumpEpoch(r)
  /\ UNCHANGED answers

(* create at the run's epoch unless the caller names one; only then does the   *)
(* limit count the requests of that epoch alone.                             *)
CreateRequest(r, s, e) ==
  /\ Len(requests[r]) < MaxRequests
  /\ \/ /\ HasRoom(r, e, MaxPending)
        /\ Create(r, s, IF e = None THEN epochs[r] ELSE e)
        /\ answers' = [answers EXCEPT ![r] = Append(@, 0)]
     \/ /\ ~HasRoom(r, e, MaxPending)
        /\ ListPending(r)
        /\ UNCHANGED answers

Show(r) ==
  /\ \/ ListPending(r)
     \/ \E i \in DOMAIN requests[r] : GetPending(r, i)
  /\ UNCHANGED answers

CleanUp ==
  /\ SweepExpired \/ \E r \in Runs : ClearExpired(r)
  /\ UNCHANGED answers

TimePasses(r, i) == Elapse(r, i) /\ UNCHANGED answers

Answer(r, i, e) ==
  /\ Resolve(r, i, e)
  /\ answers' = IF Verdict(requests[r][i], e) = "resolved"
                THEN [answers EXCEPT ![r][i] = @ + 1]
                ELSE answers

ManagerNext ==
  \/ \E r \in Runs, e \in Quotes :
       \E i \in DOMAIN requests[r] : Answer(r, i, e)
  \/ CleanUp
  \/ \E r \in Runs :
       \/ Bump(r)
       \/ \E s \in Steps, e \in Quotes : CreateRequest(r, s, e)
       \/ Show(r)
       \/ \E i \in DOMAIN requests[r] : TimePasses(r, i)

ManagerSpec == ManagerInit /\ [][ManagerNext]_managerVars

-----------------------------------------------------------------------------
(* Properties *)

(* However the operations that answer, show and clean up requests mix, nobody *)
(* is told twice that the same request was answered.                        *)
AnsweredOnce ==
  \A r \in Runs : \A i \in DOMAIN answers[r] : answers[r][i] <= 1

(* create keeps the live requests of one epoch of a run within max_pending,   *)
(* also when earlier ones were created without naming the epoch.             *)
PendingWithinLimit ==
  \A r \in Runs, e \in 0 .. MaxEpoch :
    Cardinality(PendingAt(r, e)) <= MaxPending

(* What was settled stays settled: an answered request never turns expired    *)
(* and an expired one is never answered.                                    *)
SettledStaysSettled ==
  [][\A r \in Runs : \A i \in DOMAIN requests[r] :
       requests[r][i].status # "pending" =>
         requests'[r][i].status \in {requests[r][i].status, "deleted"}]_managerVars
=============================================================================
