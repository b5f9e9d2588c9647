---------------------------- MODULE LocalRuntime ----------------------------
(***************************************************************************)
(* The execution engine (governai/runtime/local.py, LocalRuntime).  Several  *)
(* processes share one run store and one interrupt store.  In each process    *)
(* coroutines serve calls of run_workflow, resume_workflow and               *)
(* resume_from_checkpoint: every call is a member of Runs, and a call that    *)
(* creates a run gives the run its name (uuid4 ids are fresh).               *)
(*                                                                         *)
(* RunState objects are shared by reference inside a process: heap[c] is the  *)
(* object call c created or loaded, ref[c] the object c works on, cache[p]    *)
(* the object process p keeps for each run (LocalRuntime._runs).             *)
(*                                                                         *)
(* A coroutine is cut into actions at the awaits of its store operations: a   *)
(* crash can fall between any two.  Yields says at which of them the await    *)
(* really suspends, so that another coroutine of the same process may run:    *)
(* all of them over Redis, only "executing" over the in-memory stores.       *)
(*                                                                         *)
(* The run store is that of module RunStore, whose put compares and writes in *)
(* one step.  That is what InMemoryRunStore does, and what the RunStore        *)
(* docstrings ask of every store; module RedisRunStore shows where the Redis   *)
(* store falls short of it.                                                 *)
(***************************************************************************)
EXTENDS RunStore, Interrupts

CONSTANTS Procs,      \* processes
          ProcOf,     \* the process that serves each call
          Yields,     \* control points at which an await suspends
          Entry,      \* the entry step of the workflow
          End,        \* END_STEP
          Targets,    \* what the transition of a step may resolve to
          Illegal,    \* steps whose transition may be rejected
          Gated,      \* steps that require an approval
          Requires,   \* required_artifacts of each step
          Outcomes,   \* how executing a step may end
          Quotes,     \* epochs a ResumeInterrupt may carry (None: none)
          MaxPending, \* interrupt_max_pending
          PutMayFail, \* whether the connection to the run store may break
          CanRestore, \* whether resume_from_checkpoint is called
          CanExpire,  \* whether requests may outlive their TTL
          MaxCrashes, \* bound on process crashes
          MaxEpoch    \* bound on the store epoch of a run in a step loop

Calls == Runs

Outcome == {"next", "interrupt", "needsApproval", "fail", "badUpdate"}

PC == {"idle", "loading", "granting", "rejecting", "resolving", "deciding",
       "resumed", "continuing", "registering", "launching", "advancing",
       "executing", "stepping", "pausing", "syncing", "clearing",
       "putRegistering", "putAdvancing", "putContinuing", "putStepping",
       "putSyncing", "putClearing", "putDone", "done", "crashed"}

(* Inside a put that suspends, by where the call goes from there. *)
InPut == [registering |-> "putRegistering", advancing |-> "putAdvancing",
          continuing  |-> "putContinuing",  stepping  |-> "putStepping",
          syncing     |-> "putSyncing",     clearing  |-> "putClearing",
          done        |-> "putDone"]

ASSUME RuntimeConstants ==
  /\ ProcOf \in [Calls -> Procs]
  /\ Yields \subseteq PC
  /\ Entry \in Steps
  /\ End \notin Steps
  /\ Targets \in [Steps -> SUBSET (Steps \cup {End})]
  /\ Illegal \subseteq Steps
  /\ Gated \subseteq Steps
  /\ Requires \in [Steps -> SUBSET Steps]
  /\ Outcomes \in [Steps -> SUBSET Outcome]
  /\ Quotes \subseteq Nat \cup {None}
  /\ MaxPending \in Nat
  /\ PutMayFail \in BOOLEAN
  /\ CanRestore \in BOOLEAN
  /\ CanExpire \in BOOLEAN
  /\ MaxCrashes \in Nat
  /\ MaxEpoch \in Nat

ASSUME NoneIsNoNumber == None \notin Nat

VARIABLES heap,    \* the RunState object each call created or loaded
          ref,     \* the call whose object each call works on
          cache,   \* per process and run, the object in _runs (None: none)
          pc,      \* where each call is
          local,   \* the local variables of each call
          crashes, \* how many crashes there were
          credit,  \* history: the approvals of each run not used yet
          unused,  \* history: those of each checkpoint when it was written
          reused   \* history: the executions of each run without one

runtimeVars == <<heap, ref, cache, pc, local>>
history == <<credit, unused, reused>>
vars == <<storeVars, interruptVars, runtimeVars, crashes, history>>

Ask == {"approve", "reject", "respond"}

(* The payload of a resume (ask, id, quote), the copy of the request resolve   *)
(* read, the step the loop is executing (at) and whether its command           *)
(* interrupts the run (pauses).                                             *)
NoRequest == [step |-> None, epoch |-> 0, status |-> "deleted", late |-> FALSE]

Local == [ask     : Ask,
          id      : Nat,
          quote   : Nat \cup {None},
          at      : Steps \cup {None},
          pauses  : BOOLEAN,
          request : Request \cup {NoRequest}]

NoLocal == [ask |-> "approve", id |-> 0, quote |-> None, at |-> None,
            pauses |-> FALSE, request |-> NoRequest]

Init ==
  /\ StoreInit
  /\ InterruptsInit
  /\ heap = [c \in Calls |-> NoState]
  /\ ref = [c \in Calls |-> c]
  /\ cache = [p \in Procs |-> [r \in Runs |-> None]]
  /\ pc = [c \in Calls |-> "idle"]
  /\ local = [c \in Calls |-> NoLocal]
  /\ crashes = 0
  /\ credit = [r \in Runs |-> [s \in Steps |-> 0]]
  /\ unused = <<>>
  /\ reused = [r \in Runs |-> [s \in Steps |-> 0]]

-----------------------------------------------------------------------------
(* Coroutines *)

Live(c) == pc[c] \notin {"idle", "done", "crashed"}

(* The event loop of c's process is free for c: every other coroutine of the *)
(* process is suspended.                                                    *)
MayRun(c) ==
  \A d \in Calls \ {c} : ProcOf[d] = ProcOf[c] /\ Live(d) => pc[d] \in Yields

At(c, label) == pc[c] = label /\ MayRun(c)

Object(c) == heap[ref[c]]
RunOf(c) == Object(c).run

Goto(c, label) == pc' = [pc EXCEPT ![c] = label]

(* The call ends, by returning or by raising. *)
Finish(c) == Goto(c, "done")

(* History: an approval is granted by the put that takes the run that waits for *)
(* it back to running; a new run has those its checkpoint had left.           *)
Entitled(w) ==
  LET k == state[w.run]
      had(s) == w.parent \in DOMAIN unused /\ s \in unused[w.parent]
      granted(s) == /\ k.status = "WAITING_APPROVAL" /\ k.approval = s
                    /\ w.status = "RUNNING"
  IN
    [s \in Steps |->
       IF Stored(w.run) THEN credit[w.run][s] + (IF granted(s) THEN 1 ELSE 0)
       ELSE IF s \in w.approved /\ had(s) THEN 1 ELSE 0]

Remember(w) ==
  /\ credit' = [credit EXCEPT ![w.run] = Entitled(w)]
  /\ unused' = Append(unused, {s \in Steps : Entitled(w)[s] > 0})
  /\ UNCHANGED reused

(* A gated step of the run is executed. *)
Use(r, s) ==
  /\ IF credit[r][s] > 0
     THEN credit' = [credit EXCEPT ![r][s] = @ - 1] /\ UNCHANGED reused
     ELSE reused' = [reused EXCEPT ![r][s] = @ + 1] /\ UNCHANGED credit
  /\ UNCHANGED unused

(* Faulty variant of what follows: a parent is set only where there is none. *)
PreparedOnce(s) ==
  [s EXCEPT !.parent = IF @ = 0 THEN s.ckpt ELSE @, !.ckpt = 0]

(* _persist_state: s becomes the cached object of its run, is prepared, and is *)
(* put.  A put that is refused or cannot reach the store raises out of the     *)
(* call and leaves the object as it was prepared, without a checkpoint id.     *)
Prepared(s) == [s EXCEPT !.parent = s.ckpt, !.ckpt = 0]

(* Faulty variant: the caller's object does not learn its new epoch. *)
PersistUnseen(c, o, s, label) ==
  /\ cache' = [cache EXCEPT ![ProcOf[c]] = [@ EXCEPT ![s.run] = o]]
  /\ Accepts(Prepared(s))
  /\ Put(Prepared(s))
  /\ Remember(Prepared(s))
  /\ heap' = [heap EXCEPT ![o] = Prepared(s)]
  /\ Goto(c, label)

(* Over Redis put validates the object, and suspends before it compares and    *)
(* writes it.                                                               *)
Persist(c, o, s, label) ==
  LET w == Prepared(s) IN
    /\ cache' = [cache EXCEPT ![ProcOf[c]] = [@ EXCEPT ![s.run] = o]]
    /\ \/ /\ InPut[label] \notin Yields
          /\ Accepts(w)
          /\ Put(w)
          /\ Remember(w)
          /\ heap' = [heap EXCEPT ![o] = Stamped(w)]
          /\ Goto(c, label)
       \/ /\ InPut[label] \in Yields
          /\ Valid(w)
          /\ heap' = [heap EXCEPT ![o] = w]
          /\ Goto(c, InPut[label])
          /\ UNCHANGED <<storeVars, history>>
       \/ /\ ~Accepts(w) \/ PutMayFail
          /\ heap' = [heap EXCEPT ![o] = w]
          /\ Finish(c)
          /\ UNCHANGED <<storeVars, history>>

(* Faulty variant of what follows: under the id the object has by now. *)
WriteUnderItsId(c) ==
  /\ \E label \in DOMAIN InPut :
       /\ At(c, InPut[label])
       /\ ~Stale(Object(c))
       /\ Put(Object(c))
       /\ Remember(Object(c))
       /\ heap' = [heap EXCEPT ![ref[c]] = Stamped(Object(c))]
       /\ Goto(c, label)
  /\ UNCHANGED <<interruptVars, ref, cache, local, crashes>>

(* What it then writes is the object as it is by now, under the id it was given. *)
Write(c) ==
  LET w == [Object(c) EXCEPT !.ckpt = 0] IN
    /\ \E label \in DOMAIN InPut :
         /\ At(c, InPut[label])
         /\ \/ /\ ~Stale(w)
               /\ Put(w)
               /\ Remember(w)
               /\ heap' = [heap EXCEPT ![ref[c]] = Stamped(w)]
               /\ Goto(c, label)
            \/ /\ Stale(w) \/ PutMayFail
               /\ Finish(c)
               /\ UNCHANGED <<storeVars, history, heap>>
    /\ UNCHANGED <<interruptVars, ref, cache, local, crashes>>

-----------------------------------------------------------------------------
(* run_workflow *)

NewRun(c, t) ==
  [NoState EXCEPT !.run = c, !.thread = t, !.status = "PENDING",
                  !.step = Entry]

RunWorkflow(c, t) ==
  /\ At(c, "idle")
  /\ BumpEpoch(c)
  /\ Persist(c, c, NewRun(c, t), "registering")
  /\ UNCHANGED <<ref, local, crashes>>

RegisterActiveRun(c) ==
  /\ At(c, "registering")
  /\ SetActiveRunId(Object(c).thread, RunOf(c))
  /\ Goto(c, IF Object(c).status = "PENDING" THEN "launching" ELSE "advancing")
  /\ UNCHANGED <<interruptVars, heap, ref, cache, local, crashes, history>>

Launch(c) ==
  /\ At(c, "launching")
  /\ Persist(c, ref[c], [Object(c) EXCEPT !.status = "RUNNING"], "advancing")
  /\ UNCHANGED <<interruptVars, ref, local, crashes>>

-----------------------------------------------------------------------------
(* resume_from_checkpoint *)

Restored(c, k) ==
  [checkpoints[k] EXCEPT !.run = c, !.status = "RUNNING", !.approval = None,
                         !.interrupt = 0, !.resume = None]

ResumeFromCheckpoint(c, k) ==
  /\ CanRestore
  /\ At(c, "idle")
  /\ BumpEpoch(c)
  /\ Persist(c, c, Restored(c, k), "registering")
  /\ UNCHANGED <<ref, local, crashes>>

-----------------------------------------------------------------------------
(* resume_workflow *)

(* The status of the object decides which resume this is; a payload of the    *)
(* other kind, like a run that does not wait, is refused.  An approval is     *)
(* entered into the object at once, before its audit event is emitted; the    *)
(* epoch resolve is asked for defaults to the object's.                      *)
Dispatch(c, o, l) ==
  LET s == heap[o]
      answers(status, ask) == s.status = status /\ l.ask = ask
      grant == answers("WAITING_APPROVAL", "approve") /\ s.approval # None
      reject == answers("WAITING_APPROVAL", "reject") /\ s.approval # None
      respond == answers("WAITING_INTERRUPT", "respond") /\ s.interrupt # 0
  IN
    /\ ref' = [ref EXCEPT ![c] = o]
    /\ heap' = IF grant
               THEN [heap EXCEPT ![o].approved = @ \cup {s.approval}]
               ELSE heap
    /\ local' = [local EXCEPT ![c] =
         [l EXCEPT !.quote = IF respond /\ @ = None THEN s.epoch ELSE @]]
    /\ Goto(c, CASE grant   -> "granting"
                 [] reject  -> "rejecting"
                 [] respond -> "resolving"
                 [] OTHER   -> "done")

ResumeCached(c, r, l) ==
  LET o == cache[ProcOf[c]][r] IN
    /\ o # None
    /\ Dispatch(c, o, l)
    /\ UNCHANGED cache

(* A run the process does not know is read from the store ... *)
ResumeLoading(c, r, l) ==
  /\ cache[ProcOf[c]][r] = None
  /\ Stored(r)
  /\ heap' = [heap EXCEPT ![c] = state[r]]
  /\ local' = [local EXCEPT ![c] = l]
  /\ Goto(c, "loading")
  /\ UNCHANGED <<ref, cache>>

(* A ResumeInterrupt names a request of the run, and possibly its epoch. *)
Answers(i) == {[NoLocal EXCEPT !.ask = "respond", !.id = i, !.quote = q] :
                 q \in Quotes}

Payloads(r) ==
  {[NoLocal EXCEPT !.ask = a] : a \in {"approve", "reject"}}
    \cup UNION {Answers(i) : i \in DOMAIN requests[r]}

ResumeWorkflow(c, r) ==
  /\ At(c, "idle")
  /\ \E l \in Payloads(r) : ResumeCached(c, r, l) \/ ResumeLoading(c, r, l)
  /\ UNCHANGED <<storeVars, interruptVars, crashes, history>>

(* ... and cached when the answer arrives. *)
Loaded(c) ==
  /\ At(c, "loading")
  /\ cache' = [cache EXCEPT ![ProcOf[c]] = [@ EXCEPT ![heap[c].run] = c]]
  /\ Dispatch(c, c, local[c])
  /\ UNCHANGED <<storeVars, interruptVars, crashes, history>>

GrantApproval(c) ==
  LET s == Object(c) IN
    /\ At(c, "granting")
    /\ Persist(c, ref[c], [s EXCEPT !.approval = None, !.status = "RUNNING"],
               "advancing")
    /\ UNCHANGED <<interruptVars, ref, local, crashes>>

RejectApproval(c) ==
  /\ At(c, "rejecting")
  /\ Persist(c, ref[c],
             [Object(c) EXCEPT !.approval = None, !.status = "FAILED"],
             "clearing")
  /\ UNCHANGED <<interruptVars, ref, local, crashes>>

(* resolve: the request is read ... *)
ReadRequest(c) ==
  /\ At(c, "resolving")
  /\ local' = [local EXCEPT ![c].request = requests[RunOf(c)][local[c].id]]
  /\ Goto(c, "deciding")
  /\ UNCHANGED <<storeVars, interruptVars, heap, ref, cache, crashes, history>>

(* Faulty variants of what follows: the wait is cleared before the verdict is  *)
(* known; the resolved request is not saved.                                *)
ClearWaitFirst(c) ==
  LET r == RunOf(c)
      verdict == Verdict(local[c].request, local[c].quote)
  IN
    /\ At(c, "deciding")
    /\ heap' = [heap EXCEPT ![ref[c]].interrupt = 0,
                            ![ref[c]].status = "RUNNING"]
    /\ Goto(c, IF verdict = "resolved" THEN "resumed" ELSE "done")
    /\ requests' = [requests EXCEPT ![r][local[c].id] =
                      Judged(local[c].request, local[c].quote)]
    /\ UNCHANGED <<storeVars, epochs, ref, cache, local, crashes, history>>

ResolveUnsaved(c) ==
  /\ At(c, "deciding")
  /\ Verdict(local[c].request, local[c].quote) = "resolved"
  /\ heap' = [heap EXCEPT ![ref[c]].interrupt = 0,
                          ![ref[c]].status = "RUNNING"]
  /\ Goto(c, "resumed")
  /\ UNCHANGED <<storeVars, interruptVars, ref, cache, local, crashes, history>>

(* ... judged by the clock of now, and saved over whatever the store holds by *)
(* then.  A resolved request clears the wait in the object.                  *)
DecideRequest(c) ==
  LET r == RunOf(c)
      id == local[c].id
      mine == [local[c].request EXCEPT !.late = requests[r][id].late]
      verdict == Verdict(mine, local[c].quote)
  IN
    /\ At(c, "deciding")
    /\ \/ /\ verdict = "resolved"
          /\ heap' = [heap EXCEPT ![ref[c]].interrupt = 0,
                                  ![ref[c]].status = "RUNNING"]
          /\ Goto(c, "resumed")
       \/ /\ verdict # "resolved"
          /\ Finish(c)
          /\ UNCHANGED heap
    /\ requests' = IF verdict \in {"resolved", "expired"}
                   THEN [requests EXCEPT ![r][id] =
                           Judged(mine, local[c].quote)]
                   ELSE requests
    /\ UNCHANGED <<storeVars, epochs, ref, cache, local, crashes, history>>

PersistResumed(c) ==
  /\ At(c, "resumed")
  /\ BumpEpoch(RunOf(c))
  /\ Persist(c, ref[c], Object(c), "continuing")
  /\ UNCHANGED <<ref, local, crashes>>

-----------------------------------------------------------------------------
(* Transitions *)

(* Faulty variant of Move: END is taken for a step. *)
MoveOn(c, s, next) ==
  Persist(c, ref[c], [s EXCEPT !.step = next], "advancing")

(* Moving to a resolved transition: END completes the run. *)
Move(c, s, next) ==
  IF next = End
  THEN Persist(c, ref[c], [s EXCEPT !.step = None, !.status = "COMPLETED"],
               "clearing")
  ELSE Persist(c, ref[c], [s EXCEPT !.step = next], "advancing")

(* After an interrupt: the transition of the step that raised it, kept with   *)
(* the run.  An illegal transition raises out of the call.                   *)
Continue(c) ==
  LET s == [Object(c) EXCEPT !.resume = None] IN
    /\ At(c, "continuing")
    /\ \/ /\ Object(c).resume # None
          /\ \E next \in Targets[Object(c).resume] : Move(c, s, next)
       \/ /\ \/ Object(c).resume = None /\ Goto(c, "advancing")
             \/ Object(c).resume \in Illegal /\ Finish(c)
          /\ heap' = [heap EXCEPT ![ref[c]] = s]
          /\ UNCHANGED <<storeVars, history, cache>>
    /\ UNCHANGED <<interruptVars, ref, local, crashes>>

-----------------------------------------------------------------------------
(* _advance: one turn of the loop *)

(* Faulty variants of Fail: in memory only; without leaving the thread. *)
FailInMemory(c) ==
  /\ heap' = [heap EXCEPT ![ref[c]].status = "FAILED"]
  /\ Goto(c, "clearing")
  /\ UNCHANGED <<storeVars, history, cache>>

FailAsActive(c) ==
  Persist(c, ref[c], [Object(c) EXCEPT !.status = "FAILED"], "done")

Fail(c) ==
  Persist(c, ref[c], [Object(c) EXCEPT !.status = "FAILED"], "clearing")

(* The loop ends when another coroutine took the shared object out of         *)
(* RUNNING.                                                                 *)
LeaveLoop(c) ==
  /\ At(c, "advancing")
  /\ Object(c).status # "RUNNING"
  /\ Finish(c)
  /\ UNCHANGED <<storeVars, interruptVars, heap, ref, cache, local, crashes,
                 history>>

CompleteRun(c) ==
  /\ At(c, "advancing")
  /\ Object(c).status = "RUNNING"
  /\ Object(c).step = None
  /\ Persist(c, ref[c], [Object(c) EXCEPT !.status = "COMPLETED"], "clearing")
  /\ UNCHANGED <<interruptVars, ref, local, crashes>>

CanEnter(c) ==
  /\ At(c, "advancing")
  /\ Object(c).status = "RUNNING"
  /\ Object(c).step # None

(* A missing required artifact raises out of the call. *)
MissArtifact(c) ==
  /\ CanEnter(c)
  /\ ~(Requires[Object(c).step] \subseteq Object(c).completed)
  /\ Finish(c)
  /\ UNCHANGED <<storeVars, interruptVars, heap, ref, cache, local, crashes,
                 history>>

HasArtifacts(c) == Requires[Object(c).step] \subseteq Object(c).completed

Waiting(s, step) == [s EXCEPT !.approval = step, !.status = "WAITING_APPROVAL"]

RequestApproval(c) ==
  LET s == Object(c) IN
    /\ CanEnter(c)
    /\ HasArtifacts(c)
    /\ s.step \in Gated \ s.approved
    /\ Persist(c, ref[c], Waiting(s, s.step), "done")
    /\ UNCHANGED <<interruptVars, ref, local, crashes>>

Execute(c) ==
  LET s == Object(c) IN
    /\ CanEnter(c)
    /\ HasArtifacts(c)
    /\ s.step \notin Gated \ s.approved
    /\ s.epoch < MaxEpoch
    /\ local' = [local EXCEPT ![c].at = s.step]
    /\ IF s.step \in Gated THEN Use(s.run, s.step) ELSE UNCHANGED history
    /\ Goto(c, "executing")
    /\ UNCHANGED <<storeVars, interruptVars, heap, ref, cache, crashes>>

(* Policies and the executor are done: the step is recorded as completed ... *)
StepDone(c) ==
  LET s == Object(c)
      step == local[c].at
  IN
    /\ At(c, "executing")
    /\ \E pauses \in BOOLEAN :
         /\ (IF pauses THEN "interrupt" ELSE "next") \in Outcomes[step]
         /\ local' = [local EXCEPT ![c].pauses = pauses]
    /\ Persist(c, ref[c], [s EXCEPT !.completed = @ \cup {step}], "stepping")
    /\ UNCHANGED <<interruptVars, ref, crashes>>

(* ... or a nested tool asks for an approval ... *)
StepNeedsApproval(c) ==
  /\ At(c, "executing")
  /\ "needsApproval" \in Outcomes[local[c].at]
  /\ Persist(c, ref[c], Waiting(Object(c), local[c].at), "done")
  /\ UNCHANGED <<interruptVars, ref, local, crashes>>

(* ... or a policy denies it or the executor raises ... *)
StepFails(c) ==
  /\ At(c, "executing")
  /\ "fail" \in Outcomes[local[c].at]
  /\ Fail(c)
  /\ UNCHANGED <<interruptVars, ref, local, crashes>>

(* ... or applying the command's state update raises out of the call. *)
StepBadUpdate(c) ==
  /\ At(c, "executing")
  /\ "badUpdate" \in Outcomes[local[c].at]
  /\ Finish(c)
  /\ UNCHANGED <<storeVars, interruptVars, heap, ref, cache, local, crashes,
                 history>>

(* Faulty variant of Consumed: the approval stays for the next execution. *)
ConsumedNothing(c) == Object(c)

(* The approval of the step is used up, in memory. *)
Consumed(c) == [Object(c) EXCEPT !.approved = @ \ {local[c].at}]

Transit(c) ==
  /\ At(c, "stepping")
  /\ ~local[c].pauses
  /\ \/ \E next \in Targets[local[c].at] : Move(c, Consumed(c), next)
     \/ /\ local[c].at \in Illegal
        /\ Persist(c, ref[c], [Consumed(c) EXCEPT !.status = "FAILED"],
                   "clearing")
  /\ UNCHANGED <<interruptVars, ref, local, crashes>>

(* A command that interrupts: the request is created at the epoch of the      *)
(* object; max_pending refuses it by raising out of the call.               *)
CreateInterrupt(c) ==
  LET r == RunOf(c)
      e == Object(c).epoch
  IN
    /\ At(c, "stepping")
    /\ local[c].pauses
    /\ heap' = [heap EXCEPT ![ref[c]] = Consumed(c)]
    /\ \/ /\ HasRoom(r, e, MaxPending)
          /\ Create(r, local[c].at, e)
          /\ local' = [local EXCEPT ![c].id = Len(requests[r]) + 1]
          /\ Goto(c, "pausing")
       \/ /\ ~HasRoom(r, e, MaxPending)
          /\ ListPending(r)
          /\ Finish(c)
          /\ UNCHANGED local
    /\ UNCHANGED <<storeVars, ref, cache, crashes, history>>

PersistWait(c) ==
  /\ At(c, "pausing")
  /\ Persist(c, ref[c],
             [Object(c) EXCEPT !.interrupt = local[c].id,
                               !.status = "WAITING_INTERRUPT",
                               !.resume = local[c].at],
             "syncing")
  /\ UNCHANGED <<interruptVars, ref, local, crashes>>

(* Faulty variant of what follows: the request keeps its epoch. *)
SyncNothing(c) ==
  /\ At(c, "syncing")
  /\ Finish(c)
  /\ UNCHANGED <<storeVars, interruptVars, heap, ref, cache, local, crashes,
                 history>>

(* The request is saved again, as it was created, with the epoch the put gave *)
(* the run.                                                                 *)
SyncRequest(c) ==
  /\ At(c, "syncing")
  /\ requests' = [requests EXCEPT ![RunOf(c)][local[c].id] =
                    [@ EXCEPT !.epoch = Object(c).epoch, !.status = "pending"]]
  /\ Finish(c)
  /\ UNCHANGED <<storeVars, epochs, heap, ref, cache, local, crashes, history>>

(* A terminal run is taken off its thread. *)
ClearActiveRun(c) ==
  /\ At(c, "clearing")
  /\ ClearActiveRunId(Object(c).thread, RunOf(c))
  /\ Finish(c)
  /\ UNCHANGED <<interruptVars, heap, ref, cache, local, crashes, history>>

-----------------------------------------------------------------------------
(* The environment *)

(* A process dies with its coroutines and its cache, and comes back empty. *)
Crash(p) ==
  /\ crashes < MaxCrashes
  /\ crashes' = crashes + 1
  /\ pc' = [c \in Calls |-> IF ProcOf[c] = p /\ Live(c) THEN "crashed"
                                                       ELSE pc[c]]
  /\ cache' = [cache EXCEPT ![p] = [r \in Runs |-> None]]
  /\ UNCHANGED <<storeVars, interruptVars, heap, ref, local, history>>

ExpireRequest(r, i) ==
  /\ CanExpire
  /\ Elapse(r, i)
  /\ UNCHANGED <<storeVars, runtimeVars, crashes, history>>

(* list_pending_interrupts, called by a client of the runtime. *)
ListPendingInterrupts(r) ==
  /\ ListPending(r)
  /\ UNCHANGED <<storeVars, runtimeVars, crashes, history>>

Start(c) ==
  \/ \E t \in Threads : RunWorkflow(c, t)
  \/ \E k \in DOMAIN checkpoints : ResumeFromCheckpoint(c, k)
  \/ \E r \in Runs : ResumeWorkflow(c, r)

Resuming(c) ==
  \/ Loaded(c) \/ GrantApproval(c) \/ RejectApproval(c) \/ ReadRequest(c)
  \/ DecideRequest(c) \/ PersistResumed(c) \/ Continue(c)

Advancing(c) ==
  \/ LeaveLoop(c) \/ CompleteRun(c) \/ MissArtifact(c) \/ RequestApproval(c)
  \/ Execute(c) \/ StepDone(c) \/ StepNeedsApproval(c) \/ StepFails(c)
  \/ StepBadUpdate(c) \/ Transit(c) \/ CreateInterrupt(c) \/ PersistWait(c)
  \/ SyncRequest(c) \/ ClearActiveRun(c)

(* What call c does once it has started. *)
Proceed(c) ==
  RegisterActiveRun(c) \/ Launch(c) \/ Resuming(c) \/ Advancing(c) \/ Write(c)

Environment ==
  \/ \E p \in Procs : Crash(p)
  \/ \E r \in Runs : \E i \in DOMAIN requests[r] : ExpireRequest(r, i)
  \/ \E r \in Runs : ListPendingInterrupts(r)

Next == (\E c \in Calls : Start(c) \/ Proceed(c)) \/ Environment

Spec == Init /\ [][Next]_vars

(* The event loop runs every coroutine that is ready, the executors and the   *)
(* stores answer: a started call goes on until it ends.                      *)
FairSpec == Spec /\ \A c \in Calls : WF_vars(Proceed(c))

-----------------------------------------------------------------------------
(* Properties *)

HistoryTypeOK ==
  /\ credit \in [Runs -> [Steps -> Nat]]
  /\ unused \in Seq(SUBSET Steps)
  /\ reused \in [Runs -> [Steps -> Nat]]

TypeOK ==
  /\ StoreTypeOK
  /\ InterruptsTypeOK
  /\ heap \in [Calls -> RunState]
  /\ ref \in [Calls -> Calls]
  /\ cache \in [Procs -> [Runs -> Calls \cup {None}]]
  /\ pc \in [Calls -> PC]
  /\ local \in [Calls -> Local]
  /\ crashes \in Nat
  /\ HistoryTypeOK

(* A call drives a run between the put that claims it and the put that gives   *)
(* it up.                                                                   *)
Drives(c) ==
  pc[c] \in {"registering", "launching", "continuing", "advancing", "executing",
            "stepping", "pausing"}

(* A run is executed by one call at a time, in whichever process: two calls    *)
(* never are inside _advance for the same run, so no step's side effects run  *)
(* twice at once.                                                           *)
SingleDriver ==
  \A c, d \in Calls : c # d /\ Drives(c) /\ Drives(d) => RunOf(c) # RunOf(d)

(* The engine implements RunLifecycle, which knows neither calls, caches,      *)
(* objects nor processes: what calls race for and crash on the way to, the      *)
(* snapshots stored of a run are the versions of one sequential machine, one    *)
(* after the other, and each has its checkpoint.                             *)
Version(s) ==
  [run |-> s.run, thread |-> s.thread, status |-> s.status, step |-> s.step,
   approval |-> s.approval, resume |-> s.resume, approved |-> s.approved,
   completed |-> s.completed, epoch |-> s.epoch]

Lifecycle == INSTANCE RunLifecycle
  WITH current <- [r \in Runs |-> Version(state[r])],
       versions <- {Version(checkpoints[i]) : i \in DOMAIN checkpoints}

ImplementsLifecycle == Lifecycle!Spec

(* The run was restored from a checkpoint that lists, for this step, an        *)
(* approval that had been used when the checkpoint was written.                *)
Secondhand(r, s) ==
  \E i \in DOMAIN checkpoints :
    /\ checkpoints[i].run = r /\ checkpoints[i].epoch = 1
    /\ s \in checkpoints[i].approved \ unused[i]

(* Every execution of a gated step uses up an approval granted to its own run  *)
(* for that step, or to the run whose checkpoint it was restored with, before   *)
(* the approval was used.  One execution is without: that of a run restored     *)
(* from a checkpoint that still lists an approval already used, which is one     *)
(* put between the execution and the transition that drops the approval, or      *)
(* put for a step that failed.  It happens once for each such run.              *)
ApprovalsNotReused ==
  \A r \in Runs, s \in Gated :
    reused[r][s] <= (IF Secondhand(r, s) THEN 1 ELSE 0)

(* No version of a run is lost: each epoch it went through has its checkpoint, *)
(* written once, and the stored run is the newest of them.                   *)
EveryVersionKept ==
  \A r \in Runs : Stored(r) =>
    /\ checkpoints[state[r].ckpt] = state[r]
    /\ \A e \in 1 .. state[r].epoch :
         Cardinality({i \in DOMAIN checkpoints :
                        checkpoints[i].run = r /\ checkpoints[i].epoch = e}) = 1

(* The checkpoints of a run form one chain: each is the child of the one the   *)
(* run was at one epoch earlier.                                            *)
CheckpointChain ==
  \A i \in DOMAIN checkpoints :
    LET k == checkpoints[i] IN
      k.epoch > 1 => /\ k.parent \in 1 .. i - 1
                     /\ checkpoints[k.parent].run = k.run
                     /\ checkpoints[k.parent].epoch = k.epoch - 1

(* Whatever puts fail or are refused, and whoever changes an object while it is  *)
(* being put: the parent of a version of a stored run, where it names one, is an *)
(* earlier version of the same run.                                          *)
LinksGoBack ==
  \A i \in DOMAIN checkpoints :
    LET k == checkpoints[i] IN
      k.epoch > 1 /\ k.parent # 0 =>
        k.parent \in 1 .. i - 1 /\ checkpoints[k.parent].run = k.run

Idle(r) == \A c \in Calls : Live(c) => heap[c].run # r /\ RunOf(c) # r

(* A call for this run died with its process. *)
Abandoned(r) == \E c \in Calls : pc[c] = "crashed" /\ RunOf(c) = r

(* An answer for this run was taken by a process that knew an older version of *)
(* it, and resolved its request; the put of the resumed run was refused.       *)
Overtaken(r) ==
  \E c \in Calls :
    /\ pc[c] = "done"
    /\ RunOf(c) = r
    /\ Object(c).status = "RUNNING"
    /\ Object(c).epoch < state[r].epoch

(* A run left waiting for an interrupt has, in the interrupt store, the        *)
(* request it waits for, still unanswered and at the run's epoch: the answer   *)
(* that names it will be taken, unless its TTL passes.  The death of a process *)
(* does otherwise: between the put and the save of the request it leaves the   *)
(* request an epoch behind, and between the save of the answer and the put of  *)
(* the resumed run it leaves it answered.  So does an answer given to a        *)
(* process that is overtaken.                                               *)
WaitHasItsRequest ==
  \A r \in Runs :
    state[r].status = "WAITING_INTERRUPT" /\ Idle(r) =>
      LET q == requests[r][state[r].interrupt] IN
        \/ q.status = "pending" /\ q.epoch = state[r].epoch
        \/ q.status = "expired"
        \/ q.status = "resolved" /\ Overtaken(r)
        \/ /\ Abandoned(r)
           /\ \/ q.status = "pending" /\ q.epoch = state[r].epoch - 1
              \/ q.status = "resolved"

(* interrupt_max_pending bounds the requests of a run that can be answered. *)
PendingBounded ==
  \A r \in Runs : Cardinality(PendingAt(r, None)) <= MaxPending

(* A thread's active run is not over, but for the moment its last call takes   *)
(* to clear the mapping, or where the process of that call died before it did;  *)
(* and a mapping is never left on another thread.                            *)
ActiveRunIsLive ==
  \A t \in Threads :
    threadActive[t] # None =>
      LET r == threadActive[t] IN
        /\ state[r].thread = t
        /\ state[r].status \in Terminal =>
             Abandoned(r) \/ \E c \in Calls : pc[c] = "clearing" /\ RunOf(c) = r

(* A stored run that is pending or running is being driven, unless the process *)
(* that drove it died.                                                      *)
NoOrphanedRun ==
  \A r \in Runs :
    state[r].status \in {"PENDING", "RUNNING"} =>
      Abandoned(r) \/ \E c \in Calls : Drives(c) /\ RunOf(c) = r

(* A process with nothing to do for a stored run that waits sees it waiting    *)
(* for the same thing: a resume sent there is not refused.                   *)
WaitingRunIsResumable ==
  \A p \in Procs, r \in Runs :
    /\ state[r].status \in {"WAITING_APPROVAL", "WAITING_INTERRUPT"}
    /\ Idle(r)
    /\ cache[p][r] # None
    => LET s == heap[cache[p][r]] IN
         s.status = state[r].status /\ s.epoch = state[r].epoch

(* A driven run does not stay pending or running for ever: it comes to wait    *)
(* for an answer, completes or fails.                                        *)
EveryRunSettles ==
  \A r \in Runs :
    state[r].status \in {"PENDING", "RUNNING"} ~>
      state[r].status \notin {"PENDING", "RUNNING"}
=============================================================================
