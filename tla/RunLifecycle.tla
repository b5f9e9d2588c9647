---------------------------- MODULE RunLifecycle ----------------------------
(***************************************************************************)
(* What the execution engine promises of the runs it stores, whichever of     *)
(* its calls and processes store them: each run is a sequential machine that  *)
(* goes through its workflow one version at a time, asks for an approval      *)
(* before a gated step and uses it up with it, and moves on only from a step  *)
(* it has just recorded.  No version is ever lost, and a run that is over      *)
(* has none after it.                                                       *)
(***************************************************************************)
EXTENDS RunNames, Naturals

CONSTANTS Entry,   \* the entry step of the workflow
          End,     \* END_STEP
          Targets, \* what the transition of a step may resolve to
          Illegal, \* steps whose transition may be rejected
          Gated    \* steps that require an approval

VARIABLES current,  \* the current version of each run, by epoch 0 none
          versions  \* every version there has been

lifecycleVars == <<current, versions>>

NoVersion == [run |-> None, thread |-> None, status |-> "ABSENT", step |-> None,
              approval |-> None, resume |-> None, approved |-> {},
              completed |-> {}, epoch |-> 0]

Init ==
  /\ current = [r \in Runs |-> NoVersion]
  /\ versions = {}

(* Run r goes on to version v. *)
Becomes(r, v) ==
  LET w == [v EXCEPT !.run = r, !.epoch = current[r].epoch + 1] IN
    /\ current' = [current EXCEPT ![r] = w]
    /\ versions' = versions \cup {w}

Is(r, status) == current[r].status = status

(* A run starts, or is restored from a version of any run. *)
Begin(r, t) ==
  /\ Is(r, "ABSENT")
  /\ Becomes(r, [NoVersion EXCEPT !.thread = t, !.status = "PENDING", !.step = Entry])

Restore(r) ==
  /\ Is(r, "ABSENT")
  /\ \E v \in versions :
       Becomes(r, [v EXCEPT !.status = "RUNNING", !.approval = None, !.resume = None])

Launch(r) ==
  /\ Is(r, "PENDING")
  /\ Becomes(r, [current[r] EXCEPT !.status = "RUNNING"])

-----------------------------------------------------------------------------
(* Steps *)

(* The run is at a step, and not about to leave it for an interrupt that was   *)
(* answered.                                                                *)
AtStep(v) == v.status = "RUNNING" /\ v.step # None /\ v.resume = None

MayExecute(v) == AtStep(v) /\ (v.step \in Gated => v.step \in v.approved)

Recorded(v) == [v EXCEPT !.completed = @ \cup {v.step}]

(* The step was executed and recorded by the version before this one. *)
JustRecorded(r) ==
  \E v \in versions :
    /\ v.run = r /\ v.epoch + 1 = current[r].epoch
    /\ MayExecute(v)
    /\ current[r] = [Recorded(v) EXCEPT !.epoch = @ + 1]

(* Its approval is used up. *)
Used(v) == [v EXCEPT !.approved = @ \ {v.step}]

(* A step asks for its approval, or for that of a tool it calls. *)
AskApproval(r) ==
  /\ AtStep(current[r])
  /\ Becomes(r, [current[r] EXCEPT !.status = "WAITING_APPROVAL",
                                   !.approval = current[r].step])

Record(r) ==
  /\ MayExecute(current[r])
  /\ Becomes(r, Recorded(current[r]))

Moved(v, next) ==
  IF next = End THEN [v EXCEPT !.status = "COMPLETED", !.step = None]
                ELSE [v EXCEPT !.step = next]

Transit(r) ==
  /\ JustRecorded(r)
  /\ \E next \in Targets[current[r].step] : Becomes(r, Moved(Used(current[r]), next))

Interrupt(r) ==
  /\ JustRecorded(r)
  /\ Becomes(r, [Used(current[r]) EXCEPT !.status = "WAITING_INTERRUPT",
                                         !.resume = current[r].step])

(* A run that was restored from its end ends again. *)
Complete(r) ==
  /\ Is(r, "RUNNING") /\ current[r].step = None
  /\ Becomes(r, [current[r] EXCEPT !.status = "COMPLETED"])

(* A step that is denied or raises, or a transition that is not declared. *)
Fail(r) ==
  /\ MayExecute(current[r])
  /\ Becomes(r, [current[r] EXCEPT !.status = "FAILED"])

Reject(r) ==
  /\ current[r].step \in Illegal /\ JustRecorded(r)
  /\ Becomes(r, [Used(current[r]) EXCEPT !.status = "FAILED"])

-----------------------------------------------------------------------------
(* Answers *)

Grant(r) ==
  /\ Is(r, "WAITING_APPROVAL")
  /\ Becomes(r, [current[r] EXCEPT !.status = "RUNNING", !.approval = None,
                                   !.approved = @ \cup {current[r].approval}])

Refuse(r) ==
  /\ Is(r, "WAITING_APPROVAL")
  /\ Becomes(r, [current[r] EXCEPT !.status = "FAILED", !.approval = None])

Answer(r) ==
  /\ Is(r, "WAITING_INTERRUPT")
  /\ Becomes(r, [current[r] EXCEPT !.status = "RUNNING"])

(* The transition of the step that interrupted the run. *)
Continue(r) ==
  /\ Is(r, "RUNNING") /\ current[r].resume # None
  /\ \E next \in Targets[current[r].resume] :
       Becomes(r, Moved([current[r] EXCEPT !.resume = None], next))

(* Every step is one version more of a run. *)
Next ==
  \E r \in Runs : current[r] # current'[r] /\
    \/ \E t \in Threads : Begin(r, t)
    \/ Restore(r) \/ Launch(r) \/ AskApproval(r) \/ Record(r) \/ Transit(r)
    \/ Interrupt(r) \/ Complete(r) \/ Fail(r) \/ Reject(r)
    \/ Grant(r) \/ Refuse(r) \/ Answer(r) \/ Continue(r)

Spec == Init /\ [][Next]_lifecycleVars
=============================================================================
