----------------------------- MODULE Interrupts -----------------------------
(***************************************************************************)
(* Interrupt requests and their manager (governai/runtime/interrupts.py):    *)
(* the requests raised by each run, their TTL and epoch guards, and the      *)
(* per-run epoch.  Each action is one InterruptManager operation, as atomic  *)
(* as it is over InMemoryInterruptStore.  Like RunStore, the module has no   *)
(* Init/Next: InterruptClients and LocalRuntime say who calls it.            *)
(*                                                                         *)
(* An interrupt id is the request's position among those of its run.  Time   *)
(* is abstracted to what the code asks of it: `late` says whether the        *)
(* request's expires_at has been reached.                                   *)
(***************************************************************************)
EXTENDS RunNames, Integers, Sequences, FiniteSets

VARIABLES requests, \* the requests of each run, in creation order
          epochs    \* the interrupt epoch of each run

interruptVars == <<requests, epochs>>

RequestStatus == {"pending", "expired", "resolved", "deleted"}

Request == [step   : Steps,
            epoch  : Nat,
            status : RequestStatus,
            late   : BOOLEAN]

InterruptsInit ==
  /\ requests = [r \in Runs |-> <<>>]
  /\ epochs = [r \in Runs |-> 0]

InterruptsTypeOK ==
  /\ requests \in [Runs -> Seq(Request)]
  /\ epochs \in [Runs -> Nat]

IsPending(req) == req.status = "pending" /\ ~req.late

(* Faulty variant of what follows: whatever its status. *)
NoticedAnyway(req) ==
  IF req.late THEN [req EXCEPT !.status = "expired"] ELSE req

(* The request once an operation that reads it has noticed its TTL. *)
Noticed(req) ==
  IF req.status = "pending" /\ req.late THEN [req EXCEPT !.status = "expired"]
                                        ELSE req

(* list_pending(run_id, epoch=e): what it returns ... *)
PendingAt(r, e) ==
  {i \in DOMAIN requests[r] : /\ IsPending(requests[r][i])
                              /\ e # None => requests[r][i].epoch = e}

(* ... and what it does to the requests it looks at. *)
AllNoticed(reqs) == [i \in DOMAIN reqs |-> Noticed(reqs[i])]

(* Faulty variant of what follows: the status is not looked at. *)
VerdictAnyStatus(req, e) ==
  CASE req.status = "deleted"                    -> "unknown"
    [] req.status # "deleted" /\ ~req.late
         /\ (e = None \/ req.epoch = e)          -> "resolved"
    [] OTHER                                     -> "expired"

(* What resolve makes of the request it read when asked for epoch e, in the  *)
(* order of the code's checks.                                              *)
Verdict(req, e) ==
  CASE req.status = "deleted"               -> "unknown"
    [] req.status \in {"expired", "resolved"} -> "notPending"
    [] IsPending(req) /\ e # None /\ req.epoch # e -> "wrongEpoch"
    [] IsPending(req) /\ (e = None \/ req.epoch = e) -> "resolved"
    [] OTHER                                -> "expired"

(* The request resolve saves, given that verdict. *)
Judged(req, e) ==
  IF Verdict(req, e) \in {"expired", "resolved"}
  THEN [req EXCEPT !.status = Verdict(req, e)]
  ELSE req

-----------------------------------------------------------------------------
BumpEpoch(r) ==
  /\ epochs' = [epochs EXCEPT ![r] = @ + 1]
  /\ UNCHANGED requests

(* create: refused at max_pending live requests of the same epoch. *)
HasRoom(r, e, max) == Cardinality(PendingAt(r, e)) < max

Create(r, s, e) ==
  /\ requests' = [requests EXCEPT ![r] =
       Append(AllNoticed(@), [step |-> s, epoch |-> e, status |-> "pending",
                              late |-> FALSE])]
  /\ UNCHANGED epochs

ListPending(r) ==
  /\ requests' = [requests EXCEPT ![r] = AllNoticed(@)]
  /\ UNCHANGED epochs

GetPending(r, i) ==
  /\ requests' = [requests EXCEPT ![r][i] = Noticed(@)]
  /\ UNCHANGED epochs

Resolve(r, i, e) ==
  /\ requests' = [requests EXCEPT ![r][i] = Judged(@, e)]
  /\ UNCHANGED epochs

(* clear_expired: resolved, expired and overdue requests of the run go. *)
ClearExpired(r) ==
  /\ requests' = [requests EXCEPT ![r] =
       [i \in DOMAIN @ |-> IF IsPending(@[i]) THEN @[i]
                           ELSE [@[i] EXCEPT !.status = "deleted"]]]
  /\ UNCHANGED epochs

(* sweep_expired: overdue requests of every run go, whatever their status. *)
SweepExpired ==
  /\ requests' = [r \in Runs |-> [i \in DOMAIN requests[r] |->
       IF requests[r][i].late THEN [requests[r][i] EXCEPT !.status = "deleted"]
                              ELSE requests[r][i]]]
  /\ UNCHANGED epochs

(* The clock reaches expires_at of one request. *)
Elapse(r, i) ==
  /\ ~requests[r][i].late
  /\ requests' = [requests EXCEPT ![r][i].late = TRUE]
  /\ UNCHANGED epochs
=============================================================================
