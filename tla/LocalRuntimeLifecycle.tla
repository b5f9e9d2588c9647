----------------------- MODULE LocalRuntimeLifecycle ------------------------
(***************************************************************************)
(* Theorems about the stages a run of LocalRuntime goes through, under the     *)
(* assumptions of OneDriver.  Of its waits for an answer:                     *)
(*   WaitsAreAnswerable       a run that waits for an answer can be given it; *)
(* and, where one process serves every call:                                *)
(*   OpenRequestsAreFew       a run has no more open requests than the limit; *)
(*   WaitingRunsAreResumable  what is cached of a waiting run is what is      *)
(*                            stored.                                       *)
(* Of its lifecycle:                                                        *)
(*   LifecycleImplemented     its steps are those of RunLifecycle;           *)
(*   ApprovalsUsedOnce        an approval allows one execution.              *)
(***************************************************************************)
EXTENDS LocalRuntimeProofs

-----------------------------------------------------------------------------
(* WaitHasItsRequest: what is left for a run that waits.                       *)

(* Each control point is left by an action of its own.                         *)
LEMMA ActionOfLabel ==
  ASSUME NEW c \in Calls, Proceed(c)
  PROVE  /\ pc[c] = "resolving" => ReadRequest(c)
         /\ pc[c] = "deciding" => DecideRequest(c)
         /\ pc[c] = "resumed" => PersistResumed(c)
         /\ pc[c] = "pausing" => PersistWait(c)
         /\ pc[c] = "syncing" => SyncRequest(c)
         /\ pc[c] = "clearing" => ClearActiveRun(c)
         /\ pc[c] \notin {"idle", "done", "crashed"}
<1>1. Write(c) => pc[c] \in Writing
  BY PutLabels DEF Write, At
<1>2. QED
  BY <1>1
     DEF Proceed, Resuming, Advancing, RegisterActiveRun, Launch, Loaded,
         GrantApproval, RejectApproval, ReadRequest, DecideRequest, PersistResumed,
         Continue, LeaveLoop, CompleteRun, MissArtifact, RequestApproval, Execute,
         StepDone, StepNeedsApproval, StepFails, StepBadUpdate, Transit,
         CreateInterrupt, PersistWait, SyncRequest, ClearActiveRun, CanEnter, At,
         Writing

(* A call that starts was idle. *)
LEMMA StartsIdle ==
  ASSUME NEW c \in Calls, Start(c)
  PROVE  pc[c] = "idle"
BY DEF Start, RunWorkflow, ResumeFromCheckpoint, ResumeWorkflow, At

(* Only a call that holds its run on its own changes what is stored of it.     *)
LEMMA PutterHolds ==
  ASSUME Ownership, ReliableStore, NEW c \in Calls, Proceed(c), ~Loaded(c), state' # state
  PROVE  pc[c] \in {"granting", "rejecting", "resumed"} \/ Drives(c)
<1>1. Working(c) /\ pc[c] \in PC
  BY ProceedIsWorkStep DEF WorkStep, Ownership, Shape, TypeOK
<1>2. CASE pc[c] = "resolving"
  BY <1>2, ActionOfLabel DEF ReadRequest, storeVars
<1>3. CASE pc[c] = "deciding"
  BY <1>3, ActionOfLabel DEF DecideRequest, storeVars
<1>4. CASE pc[c] = "syncing"
  BY <1>4, ActionOfLabel DEF SyncRequest, storeVars
<1>5. CASE pc[c] = "clearing"
  BY <1>5, ActionOfLabel DEF ClearActiveRun, ClearActiveRunId
<1>6. pc[c] \notin Writing
  BY PutsAtOnce DEF Ownership, ReliableStore
<1>7. QED
  BY <1>1, <1>2, <1>3, <1>4, <1>5, <1>6 DEF Working, Live, Fresh, PC, Writing, Drives

(* What is stored of a run changes by its creation or by a put of its newest   *)
(* version, which nobody else drives.                                       *)
Created(c, r) ==
  /\ Start(c) /\ r = c /\ pc'[c] = "registering"
  /\ state'[r].status \in {"PENDING", "RUNNING"}

NewVersion(c, r) ==
  /\ Proceed(c) /\ Working(c) /\ r = RunOf(c) /\ RunOf(c)' = r
  /\ Object(c).epoch = state[r].epoch
  /\ pc[c] \in {"granting", "rejecting", "resumed"} \/ Drives(c)
  /\ state'[r].epoch = state[r].epoch + 1
  /\ Object(c)'.epoch = state'[r].epoch
  /\ Suits(state'[r], pc'[c])
  /\ pc'[c] = "syncing" =>
       pc[c] = "pausing" /\ state'[r].interrupt = local[c].id
  /\ \A d \in Calls : d # c /\ Drives(d) => RunOf(d) # r

(* No step changes what is stored of a run in any other way.                  *)
LEMMA StateMoves ==
  ASSUME Ownership, ReliableStore, [Next]_vars, NEW r \in Runs
  PROVE  \/ state'[r] = state[r]
         \/ \E c \in Calls : Created(c, r) \/ NewVersion(c, r)
<1>1. /\ Shape /\ pc \in [Calls -> PC] /\ state \in [Runs -> RunState]
  BY DEF Ownership, Shape, TypeOK, StoreTypeOK
<1>2. ASSUME NEW c \in Calls,
             \/ \E t \in Threads : RunWorkflow(c, t)
             \/ \E k \in DOMAIN checkpoints : ResumeFromCheckpoint(c, k)
      PROVE  state'[r] = state[r] \/ Created(c, r)
  <2>1. pc'[c] = "registering" /\ Start(c)
    BY <1>2, CreatingStores DEF Start
  <2>2. PICK w : /\ w.status \in {"PENDING", "RUNNING"}
                 /\ state' = [state EXCEPT ![c] = w]
    BY <1>2, CreatingStores
  <2>3. state'[r] = state[r] \/ (r = c /\ state'[r] = w)
    BY <1>1, <2>2
  <2>4. QED BY <2>1, <2>2, <2>3 DEF Created
<1>3. ASSUME NEW c \in Calls, Loaded(c) \/ \E q \in Runs : ResumeWorkflow(c, q)
      PROVE  state'[r] = state[r]
  BY <1>1, <1>3, ResumingStays DEF storeVars
<1>4. ASSUME NEW c \in Calls, Proceed(c), ~Loaded(c)
      PROVE  state'[r] = state[r] \/ NewVersion(c, r)
  <2>1. CASE state' = state
    BY <2>1
  <2>2. CASE state' # state
    <3>1. /\ pc[c] \in {"granting", "rejecting", "resumed"} \/ Drives(c)
          /\ WorkStep(c) /\ Working(c) /\ ref' = ref /\ RunOf(c)' = RunOf(c)
      BY <1>1, <1>4, <2>2, PutterHolds, ProceedIsWorkStep, WorkRuns DEF WorkStep
    <3>2. PutsWell(c)
      BY <1>4, <2>2, WorkPutsWell
         DEF Bides, RegisterActiveRun, SetActiveRunId, ClearActiveRun, ClearActiveRunId
    <3>3. PICK w : /\ state' = [state EXCEPT ![RunOf(c)] = w]
                   /\ heap'[ref[c]] = w
                   /\ Object(c).epoch = state[RunOf(c)].epoch
                   /\ w.epoch = state[RunOf(c)].epoch + 1
                   /\ Suits(w, pc'[c])
                   /\ pc'[c] = "syncing" =>
                        pc[c] = "pausing" /\ w.interrupt = local[c].id
      BY <2>2, <3>1, <3>2, WellPut
    <3>4. \A d \in Calls : d # c /\ Drives(d) => RunOf(d) # RunOf(c)
      BY <3>1, <3>3, NoOtherDriver
    <3>5. state'[r] = state[r] \/ (r = RunOf(c) /\ state'[r] = w)
      BY <1>1, <3>3
    <3>6. Object(c)' = w
      BY <3>1, <3>3 DEF Object
    <3>7. QED BY <1>4, <3>1, <3>3, <3>4, <3>5, <3>6 DEF NewVersion
  <2>3. QED BY <2>1, <2>2
<1>5. ASSUME Environment \/ UNCHANGED vars
      PROVE  state'[r] = state[r]
  BY <1>5 DEF Environment, Crash, ExpireRequest, ListPendingInterrupts, vars, storeVars
<1>6. ASSUME NEW c \in Calls, Start(c) \/ Proceed(c)
      PROVE  state'[r] = state[r] \/ Created(c, r) \/ NewVersion(c, r)
  BY <1>2, <1>3, <1>4, <1>6 DEF Start
<1>7. QED BY <1>5, <1>6 DEF Next

(* No request is ever lost.                                                   *)
LEMMA RequestsGrow ==
  ASSUME Ownership, [Next]_vars, NEW r \in Runs
  PROVE  DOMAIN requests[r] \subseteq DOMAIN requests'[r]
<1>1. Shape /\ InterruptsTypeOK
  BY DEF Ownership, Shape, TypeOK
<1>2. ASSUME NEW c \in Calls, Proceed(c), ~Loaded(c)
      PROVE  DOMAIN requests[r] \subseteq DOMAIN requests'[r]
  BY <1>1, <1>2, ProceedIsWorkStep DEF WorkStep, RequestsKept
<1>3. ASSUME NEW c \in Calls, Start(c) \/ Loaded(c)
      PROVE  requests' = requests
  <2>1. CASE Loaded(c)
    BY <2>1 DEF Loaded, interruptVars
  <2>2. CASE Start(c)
    BY <2>2 DEF Start, RunWorkflow, ResumeFromCheckpoint, ResumeWorkflow, BumpEpoch,
                interruptVars
  <2>3. QED BY <1>3, <2>1, <2>2
<1>4. CASE Environment
  <2>1. CASE \E p \in Procs : Crash(p)
    BY <2>1 DEF Crash, interruptVars
  <2>2. ASSUME NEW x \in Runs, NEW j \in DOMAIN requests[x], ExpireRequest(x, j)
        PROVE  DOMAIN requests[r] \subseteq DOMAIN requests'[r]
    BY <1>1, <2>2 DEF ExpireRequest, Elapse, InterruptsTypeOK
  <2>3. ASSUME NEW x \in Runs, ListPendingInterrupts(x)
        PROVE  DOMAIN requests[r] \subseteq DOMAIN requests'[r]
    BY <1>1, <2>3, ListPendingKeeps DEF ListPendingInterrupts, RequestsKept
  <2>4. QED BY <1>4, <2>1, <2>2, <2>3 DEF Environment
<1>5. CASE UNCHANGED vars
  BY <1>5 DEF vars, interruptVars
<1>6. QED BY <1>2, <1>3, <1>4, <1>5 DEF Next

(* A call that looks for its object leaves the others' as old as they were, and *)
(* in the status they had.                                                   *)
LEMMA LookingKeepsObjects ==
  ASSUME Ownership, ReliableStore, NEW c \in Calls, Start(c) \/ Loaded(c),
         NEW d \in Calls, ~Fresh(d)
  PROVE  /\ heap'[ref[d]].status = heap[ref[d]].status
         /\ heap'[ref[d]].epoch = heap[ref[d]].epoch
<1>1. /\ heap \in [Calls -> RunState] /\ ref[d] \in Calls
      /\ ProcOf[c] \in Procs
      /\ \A p \in Procs, r \in Runs : cache[p][r] \in Calls \cup {None}
  BY RuntimeConstants DEF Ownership, Shape, TypeOK
<1>2. Fresh(c)
  BY StartsIdle DEF Loaded, At, Fresh
<1>3. ref[d] # c
  BY <1>2 DEF Ownership, Shape, FreshIsPrivate
<1>4. ASSUME NEW o \in Calls, NEW l, Dispatch(c, o, l)
      PROVE  /\ heap'[ref[d]].status = heap[ref[d]].status
             /\ heap'[ref[d]].epoch = heap[ref[d]].epoch
  <2>1. CASE heap' = heap
    BY <2>1
  <2>2. CASE heap' = [heap EXCEPT ![o].approved = @ \cup {heap[o].approval}]
    BY <1>1, <2>2 DEF RunState
  <2>3. QED BY <1>4, <2>1, <2>2 DEF Dispatch
<1>5. CASE Loaded(c)
  BY <1>4, <1>5 DEF Loaded
<1>6. ASSUME NEW r \in Runs, NEW l, ResumeLoading(c, r, l)
      PROVE  /\ heap'[ref[d]].status = heap[ref[d]].status
             /\ heap'[ref[d]].epoch = heap[ref[d]].epoch
  BY <1>1, <1>3, <1>6 DEF ResumeLoading
<1>7. ASSUME NEW r \in Runs, NEW l, ResumeCached(c, r, l)
      PROVE  /\ heap'[ref[d]].status = heap[ref[d]].status
             /\ heap'[ref[d]].epoch = heap[ref[d]].epoch
  <2>1. cache[ProcOf[c]][r] \in Calls
    BY <1>1, <1>7 DEF ResumeCached
  <2>2. QED BY <1>4, <1>7, <2>1 DEF ResumeCached
<1>8. CASE \E r \in Runs : ResumeWorkflow(c, r)
  BY <1>6, <1>7, <1>8 DEF ResumeWorkflow
<1>9. CASE \/ \E t \in Threads : RunWorkflow(c, t)
           \/ \E k \in DOMAIN checkpoints : ResumeFromCheckpoint(c, k)
  <2>1. PICK w : heap' = [heap EXCEPT ![c] = w]
    BY <1>9, CreatingStores
  <2>2. QED BY <1>1, <1>3, <2>1
<1>10. QED BY <1>5, <1>8, <1>9 DEF Start

(* A put that is refused leaves its object as old as it was, and behind.       *)
LEMMA ResumedOutcome ==
  ASSUME Ownership, ReliableStore, NEW c \in Calls, PersistResumed(c)
  PROVE  /\ Object(c).status = "RUNNING" /\ RunOf(c)' = RunOf(c)
         /\ \/ /\ pc'[c] = "continuing" /\ state'[RunOf(c)].status = "RUNNING"
               /\ state'[RunOf(c)].epoch = state[RunOf(c)].epoch + 1
               /\ Object(c).epoch >= state[RunOf(c)].epoch
            \/ /\ pc'[c] = "done" /\ state' = state
               /\ Object(c).epoch < state[RunOf(c)].epoch
               /\ heap'[ref[c]].epoch = Object(c).epoch
               /\ heap'[ref[c]].status = "RUNNING"
<1>1. /\ Shape /\ TypeOK /\ Working(c) /\ pc[c] = "resumed"
      /\ Persist(c, ref[c], Object(c), "continuing") /\ "continuing" \in DOMAIN InPut
  BY AtWork, PutLabels DEF PersistResumed, At, Ownership, Shape
<1>2. /\ ref[c] \in Calls /\ Object(c) \in RunState /\ RunOf(c) \in Runs
      /\ RunOf(c) = Object(c).run /\ Object(c).status = "RUNNING"
  BY <1>1, ObjectType DEF Ownership, HoldersKnowTheirRun, Knows
<1>3. Valid(Object(c))
  BY <1>2 DEF Valid
<1>4. Proceed(c) /\ ~Loaded(c)
  BY <1>1 DEF Proceed, Resuming, Loaded, At
<1>5. RunOf(c)' = RunOf(c)
  BY <1>1, <1>4, ProceedIsWorkStep, WorkRuns
<1>6. Taken(c, ref[c], Object(c), "continuing") \/ Refused(c, ref[c], Object(c))
  BY <1>1, <1>2, <1>3, PersistOutcome
<1>7. QED BY <1>2, <1>5, <1>6 DEF Taken, Refused

(* A call that takes no step of its own stays, unless its process dies.        *)
LEMMA OthersRest ==
  ASSUME Ownership, ReliableStore, [Next]_vars,
         NEW d \in Calls, ~Start(d), ~Proceed(d)
  PROVE  /\ pc'[d] = pc[d] \/ (Live(d) /\ pc'[d] = "crashed")
         /\ local'[d] = local[d]
         /\ RunOf(d)' = RunOf(d)
<1>1. ASSUME NEW c \in Calls, Start(c) \/ Proceed(c)
      PROVE  pc'[d] = pc[d] /\ local'[d] = local[d] /\ RunOf(d)' = RunOf(d)
  BY <1>1, StepsAtHome
<1>2. CASE Environment \/ UNCHANGED vars
  <2>1. pc \in [Calls -> PC]
    BY DEF Ownership, Shape, TypeOK
  <2>2. QED
    BY <1>2, <2>1 DEF Environment, Crash, ExpireRequest, ListPendingInterrupts,
                      vars, runtimeVars, RunOf, Object
<1>3. QED BY <1>1, <1>2 DEF Next

(* A call that was overtaken stays so: nobody works on its object again but to *)
(* look at it.                                                              *)
LEMMA OvertakenStays ==
  ASSUME Ownership, Shape', ReliableStore, [Next]_vars, NEW r \in Runs, Overtaken(r)
  PROVE  Overtaken(r)'
<1>1. PICK d \in Calls : /\ pc[d] = "done" /\ RunOf(d) = r
                         /\ Object(d).status = "RUNNING"
                         /\ Object(d).epoch < state[r].epoch
  BY DEF Overtaken
<1>2. /\ ref[d] \in Calls /\ ~Fresh(d) /\ ~Live(d)
      /\ heap \in [Calls -> RunState] /\ state[r].epoch \in Nat
      /\ state'[r].epoch \in Nat
  BY <1>1 DEF Ownership, Shape, TypeOK, StoreTypeOK, RunState, Fresh, Live
<1>3. ~Start(d) /\ ~Proceed(d)
  BY <1>1, StartsIdle, ActionOfLabel
<1>4. pc'[d] = "done" /\ RunOf(d)' = r
  BY <1>1, <1>2, <1>3, OthersRest
<1>5. state'[r].epoch >= state[r].epoch
  BY <1>2, NextAges DEF Ages
<1> DEFINE Same == /\ Object(d)'.status = Object(d).status
                   /\ Object(d)'.epoch = Object(d).epoch
<1>6. ASSUME NEW c \in Calls, Start(c) \/ Loaded(c)
      PROVE  Same
  <2>1. ref'[d] = ref[d]
    BY <1>3, <1>6, StepsAtHome DEF Proceed, Resuming
  <2>2. QED BY <1>2, <1>6, <2>1, LookingKeepsObjects DEF Object
<1>7. ASSUME NEW c \in Calls, Proceed(c), ~Loaded(c)
      PROVE  Same
  <2>1. WorkStep(c) /\ Working(c) /\ ref'[d] = ref[d] /\ pc[c] \in PC \ Writing
    BY <1>7, ProceedIsWorkStep, PutsAtOnce
       DEF WorkStep, Ownership, Shape, TypeOK, ReliableStore
  <2>2. CASE ref[c] # ref[d]
    BY <1>2, <2>1, <2>2 DEF WorkStep, Object
  <2>3. CASE ref[c] = ref[d]
    <3>1. Object(c) = Object(d) /\ RunOf(c) = r /\ Knows(c)
      BY <1>1, <2>3 DEF Object, RunOf, Ownership, HoldersKnowTheirRun
    <3>2. ~Drives(c) /\ pc[c] \notin Taking
      BY <1>1, <1>2, <3>1 DEF Knows, RunOf, Taking, Object, RunState
    <3>3. pc[c] \in {"resumed", "syncing", "clearing"}
      BY <2>1, <3>2 DEF Working, Live, Fresh, PC, Writing, Drives, Taking
    <3>4. CASE pc[c] = "resumed"
      <4>1. PersistResumed(c)
        BY <1>7, <3>4, ActionOfLabel
      <4>2. ~(Object(c).epoch >= state[RunOf(c)].epoch)
        BY <1>1, <1>2, <3>1 DEF Object, RunState
      <4>3. QED BY <1>1, <2>1, <2>3, <3>1, <4>1, <4>2, ResumedOutcome DEF Object
    <3>5. CASE pc[c] \in {"syncing", "clearing"}
      <4>1. heap' = heap
        BY <1>7, <3>5, ActionOfLabel DEF SyncRequest, ClearActiveRun
      <4>2. QED BY <2>1, <4>1 DEF Object
    <3>6. QED BY <3>3, <3>4, <3>5
  <2>4. QED BY <2>2, <2>3
<1>8. ASSUME Environment \/ UNCHANGED vars
      PROVE  Same
  BY <1>8 DEF Environment, Crash, ExpireRequest, ListPendingInterrupts, vars,
              runtimeVars, Object
<1>9. Same
  <2> HIDE DEF Same
  <2>1. QED BY <1>6, <1>7, <1>8 DEF Next
<1>10. Object(d)'.epoch < state'[r].epoch
  <2>1. Object(d).epoch \in Nat
    BY <1>2 DEF Object, RunState
  <2>2. QED BY <1>1, <1>2, <1>5, <1>9, <2>1
<1>11. QED BY <1>1, <1>4, <1>9, <1>10 DEF Overtaken

(* The run goes on. *)
Resumes(r) == state'[r].status = "RUNNING" /\ state'[r] # state[r]

(* An answer that was taken stays taken, until its run is resumed by it.        *)
LEMMA TookAnswerStays ==
  ASSUME Ownership, Shape', ReliableStore, [Next]_vars, NEW r \in Runs, TookAnswer(r)
  PROVE  TookAnswer(r)' \/ Resumes(r)
<1>1. CASE Overtaken(r)
  BY <1>1, OvertakenStays DEF TookAnswer
<1>2. CASE Abandoned(r)
  BY <1>2, AbandonedStays DEF TookAnswer
<1>3. ASSUME NEW c \in Calls, pc[c] = "resumed", RunOf(c) = r
      PROVE  TookAnswer(r)' \/ Resumes(r)
  <2>1. ~Start(c)
    BY <1>3, StartsIdle
  <2>2. CASE ~Proceed(c)
    <3>1. RunOf(c)' = r /\ pc'[c] \in {"resumed", "crashed"}
      BY <1>3, <2>1, <2>2, OthersRest
    <3>2. QED BY <3>1 DEF TookAnswer, Abandoned
  <2>3. CASE Proceed(c)
    <3>1. PersistResumed(c)
      BY <1>3, <2>3, ActionOfLabel
    <3>2. CASE pc'[c] = "continuing"
      <4>1. /\ state'[r].status = "RUNNING"
            /\ state'[r].epoch = state[r].epoch + 1
        BY <1>3, <3>1, <3>2, ResumedOutcome
      <4>2. state[r].epoch \in Nat
        BY DEF Ownership, Shape, TypeOK, StoreTypeOK, RunState
      <4>3. state'[r].epoch # state[r].epoch
        BY <4>1, <4>2
      <4>4. QED BY <4>1, <4>3 DEF Resumes
    <3>3. CASE pc'[c] # "continuing"
      <4>1. /\ pc'[c] = "done" /\ RunOf(c)' = r /\ state' = state
            /\ heap'[ref[c]].epoch < state[r].epoch
            /\ heap'[ref[c]].status = "RUNNING"
        BY <1>3, <3>1, <3>3, ResumedOutcome
      <4>2. ref' = ref
        BY <3>1 DEF PersistResumed
      <4>3. Overtaken(r)'
        BY <4>1, <4>2 DEF Overtaken, Object
      <4>4. QED BY <4>3 DEF TookAnswer
    <3>4. QED BY <3>2, <3>3
  <2>4. QED BY <2>2, <2>3
<1>4. QED BY <1>1, <1>2, <1>3 DEF TookAnswer

(* A request that can be answered stays so, until its run is resumed or the     *)
(* call that made the run wait saves it again.                               *)
LEMMA AnswerableStays ==
  ASSUME Ownership, Shape', ReliableStore, [Next]_vars,
         NEW r \in Runs, NEW i, NEW e, Answerable(r, i, e)
  PROVE  \/ Answerable(r, i, e)'
         \/ Resumes(r)
         \/ \E c \in Calls : Saved(c, r, i)
<1>1. i \in DOMAIN requests[r] /\ i \in DOMAIN requests'[r]
  BY RequestsGrow DEF Answerable
<1>2. CASE Stands(r, i)
  <2>1. \/ /\ requests'[r][i].status = "pending" /\ requests'[r][i].epoch = e
        \/ requests'[r][i].status = "expired"
        \/ requests'[r][i].status = "resolved" /\ TookAnswer(r)
    BY <1>2 DEF Stands, Answerable
  <2>2. QED BY <1>1, <2>1, TookAnswerStays DEF Answerable
<1>3. ASSUME NEW c \in Calls, Answered(c, r, i)
      PROVE  Answerable(r, i, e)'
  <2>1. /\ DecideRequest(c) /\ RunOf(c) = r
        /\ \/ requests'[r][i].status = "expired"
           \/ requests'[r][i].status = "resolved" /\ pc'[c] = "resumed"
    BY <1>3 DEF Answered
  <2>2. RunOf(c)' = r
    <3>1. Proceed(c) /\ ~Loaded(c)
      BY <2>1 DEF Proceed, Resuming, DecideRequest, Loaded, At
    <3>2. QED BY <2>1, <3>1, ProceedIsWorkStep, WorkRuns DEF Ownership
  <2>3. requests'[r][i].status = "resolved" => TookAnswer(r)'
    BY <2>1, <2>2 DEF TookAnswer
  <2>4. QED BY <1>1, <2>1, <2>3 DEF Answerable
<1>4. ASSUME NEW c \in Calls, Asked(c, r, i)
      PROVE  FALSE
  <2>1. requests[r] \in Seq(Request)
    BY DEF Ownership, Shape, TypeOK, InterruptsTypeOK
  <2>2. i = Len(requests[r]) + 1
    BY <1>4 DEF Asked
  <2>3. DOMAIN requests[r] = 1 .. Len(requests[r]) /\ Len(requests[r]) \in Nat
    BY <2>1, LenProperties
  <2>4. QED BY <1>1, <2>2, <2>3
<1>5. QED BY <1>1, <1>2, <1>3, <1>4, RequestsMove

(* A call is about to save its request only after it has put the wait for it.   *)
LEMMA WaitFollows ==
  ASSUME Ownership, ReliableStore, NEW c \in Calls, Start(c) \/ Proceed(c),
         pc'[c] = "syncing"
  PROVE  /\ PersistWait(c) /\ pc[c] = "pausing" /\ RunOf(c)' = RunOf(c)
         /\ UNCHANGED <<requests, local>>
         /\ state'[RunOf(c)].status = "WAITING_INTERRUPT"
         /\ state'[RunOf(c)].interrupt = local[c].id
         /\ state'[RunOf(c)].epoch = state[RunOf(c)].epoch + 1
         /\ Object(c)'.epoch = state'[RunOf(c)].epoch
<1>1. /\ Shape /\ pc \in [Calls -> PC] /\ state \in [Runs -> RunState]
  BY DEF Ownership, Shape, TypeOK, StoreTypeOK
<1>2. CASE Loaded(c) \/ \E r \in Runs : ResumeWorkflow(c, r)
  BY <1>1, <1>2, ResumingStays
<1>3. CASE \/ \E t \in Threads : RunWorkflow(c, t)
           \/ \E k \in DOMAIN checkpoints : ResumeFromCheckpoint(c, k)
  BY <1>3, CreatingStores
<1>4. CASE Proceed(c) /\ ~Loaded(c)
  <2>1. WorkStep(c) /\ Working(c) /\ ref' = ref /\ RunOf(c) \in Runs
        /\ RunOf(c)' = RunOf(c)
    BY <1>1, <1>4, ProceedIsWorkStep, WorkRuns, ObjectType DEF WorkStep
  <2>2. CASE PutsWell(c)
    <3>1. PICK w : /\ state' = [state EXCEPT ![RunOf(c)] = w]
                   /\ heap'[ref[c]] = w
                   /\ w.epoch = state[RunOf(c)].epoch + 1
                   /\ Suits(w, pc'[c])
                   /\ pc'[c] = "syncing" =>
                        pc[c] = "pausing" /\ w.interrupt = local[c].id
      BY <2>1, <2>2, WellPut
    <3>2. state'[RunOf(c)] = w /\ Object(c)' = w
      BY <1>1, <2>1, <3>1 DEF Object
    <3>3. PersistWait(c)
      BY <1>4, <3>1, ActionOfLabel
    <3>4. UNCHANGED <<requests, local>>
      BY <3>3 DEF PersistWait, interruptVars
    <3>5. QED BY <2>1, <3>1, <3>2, <3>3, <3>4 DEF Suits
  <2>3. CASE RegisterActiveRun(c) \/ ClearActiveRun(c)
    BY <1>1, <2>3 DEF RegisterActiveRun, ClearActiveRun, Finish, Goto
  <2>4. QED BY <1>4, <2>2, <2>3, WorkPutsWell DEF Bides
<1>5. QED BY <1>2, <1>3, <1>4 DEF Start

(* A run that comes to wait is put by the call that asked, for its request.     *)
LEMMA WaitIsNew ==
  ASSUME Ownership, ReliableStore, [Next]_vars, NEW r \in Runs,
         state'[r].status = "WAITING_INTERRUPT", state'[r] # state[r]
  PROVE  \E c \in Calls : /\ Proceed(c) /\ pc[c] = "pausing" /\ pc'[c] = "syncing"
                          /\ RunOf(c) = r /\ state'[r].interrupt = local[c].id
<1>1. PICK c \in Calls : NewVersion(c, r)
  BY StateMoves DEF Created
<1>2. QED BY <1>1 DEF NewVersion, Suits

(* What SavesItsOwn says stays so until the call has saved its request.         *)
LEMMA SavesItsOwnStays ==
  ASSUME Ownership, Ownership', ReliableStore, AtomicSync, Awaited, [Next]_vars,
         NEW d \in Calls, pc'[d] = "syncing"
  PROVE  SavesItsOwn(d)'
<1>1. /\ \A c \in Calls : pc[c] = "pausing" =>
           /\ RunOf(c) \in Runs /\ Drives(c)
           /\ Answerable(RunOf(c), local[c].id, state[RunOf(c)].epoch)
  BY DriverState DEF Awaited, Drives
<1>2. CASE Start(d) \/ Proceed(d)
  <2>1. PICK r \in Runs : r = RunOf(d) /\ RunOf(d)' = r
    BY <1>1, <1>2, WaitFollows
  <2>2. /\ local' = local /\ requests' = requests /\ pc[d] = "pausing"
        /\ Object(d)'.epoch = state'[r].epoch
    BY <1>2, <2>1, WaitFollows
  <2>3. local[d].id \in DOMAIN requests[r]
    BY <1>1, <2>1, <2>2 DEF Answerable
  <2>4. ASSUME NEW c \in Calls, pc'[c] = "pausing", RunOf(c)' = r
        PROVE  FALSE
    <3>1. c # d /\ pc[c] = "pausing" /\ RunOf(c) = r
      BY <1>2, <2>4, StepsAtHome
    <3>2. QED BY <1>1, <2>1, <2>2, <3>1 DEF Ownership, SingleDriver
  <2>5. QED BY <2>1, <2>2, <2>3, <2>4 DEF SavesItsOwn
<1>3. CASE ~Start(d) /\ ~Proceed(d)
  <2>1. pc[d] = "syncing" /\ local'[d] = local[d] /\ RunOf(d)' = RunOf(d)
    BY <1>3, OthersRest
  <2>2. Object(d)' = Object(d)
    BY <2>1, SyncerAlone
  <2>3a. PICK r \in Runs : r = RunOf(d)
    BY <2>1, ObjectType DEF Awaited, SavesItsOwn, Ownership, Working, Live, Fresh
  <2>3. PICK i : /\ r = RunOf(d) /\ i = local[d].id
                 /\ i \in DOMAIN requests[r]
    BY <2>3a, <2>1, ObjectType DEF Awaited, SavesItsOwn, Ownership, Working, Live, Fresh
  <2>4. i \in DOMAIN requests'[r]
    BY <2>3, RequestsGrow
  <2>5. ASSUME NEW c \in Calls, pc[c] = "pausing", RunOf(c) = r
        PROVE  local[c].id # i
    BY <2>1, <2>3, <2>5 DEF Awaited, SavesItsOwn
  <2>6. ASSUME NEW c \in Calls, pc'[c] = "pausing", RunOf(c)' = r
        PROVE  local'[c].id # i
    <3>1. CASE ~Start(c) /\ ~Proceed(c)
      BY <2>5, <2>6, <3>1, OthersRest
    <3>2. CASE Start(c) \/ Proceed(c)
      <4>1. CreateInterrupt(c)
        BY <2>6, <3>2, AskingFollows
      <4>2. Proceed(c) /\ ~Loaded(c) /\ pc[c] = "stepping"
        BY <4>1 DEF Proceed, Advancing, CreateInterrupt, Loaded, At
      <4>3. RunOf(c) = r
        BY <2>6, <4>2, ProceedIsWorkStep, WorkRuns DEF Ownership
      <4>4. PICK n : n = Len(requests[r]) + 1
        OBVIOUS
      <4>5. local' = [local EXCEPT ![c].id = n] \/ pc'[c] = "done"
        <5>1. pc \in [Calls -> PC]
          BY DEF Ownership, Shape, TypeOK
        <5>2. QED BY <4>1, <4>3, <4>4, <5>1 DEF CreateInterrupt, Finish, Goto
      <4>6. local'[c].id = n
        <5>1. local \in [Calls -> Local]
          BY DEF Ownership, Shape, TypeOK
        <5>2. QED BY <2>6, <4>5, <5>1 DEF Local
      <4>7. DOMAIN requests[r] = 1 .. Len(requests[r]) /\ Len(requests[r]) \in Nat
        BY LenProperties DEF Ownership, Shape, TypeOK, InterruptsTypeOK
      <4>8. QED BY <2>3, <4>4, <4>6, <4>7
    <3>3. QED BY <3>1, <3>2
  <2>7. ASSUME state'[r].status = "WAITING_INTERRUPT", state'[r].interrupt = i
        PROVE  Object(d).epoch = state'[r].epoch
    <3>1. CASE state'[r] = state[r]
      BY <2>1, <2>3, <2>7, <3>1 DEF Awaited, SavesItsOwn
    <3>2. CASE state'[r] # state[r]
      BY <2>5, <2>7, <3>2, WaitIsNew
    <3>3. QED BY <3>1, <3>2
  <2>8. QED BY <2>1, <2>2, <2>3, <2>4, <2>6, <2>7 DEF SavesItsOwn
<1>4. QED BY <1>2, <1>3

(* The request a call asks with can be answered at the run's epoch.            *)
LEMMA AskingAnswerable ==
  ASSUME Ownership, NEW c \in Calls, CreateInterrupt(c), pc'[c] = "pausing"
  PROVE  Answerable(RunOf(c), local[c].id, state[RunOf(c)].epoch)'
<1>1. /\ Shape /\ TypeOK /\ Working(c) /\ pc[c] = "stepping" /\ Drives(c)
      /\ pc \in [Calls -> PC] /\ local \in [Calls -> Local]
  BY AtWork DEF CreateInterrupt, At, Drives, Ownership, Shape, TypeOK
<1>2. PICK r \in Runs, s \in Steps, e \in Nat :
        r = RunOf(c) /\ s = local[c].at /\ e = Object(c).epoch /\ e = state[r].epoch
  BY <1>1, DriverState, ObjectType DEF Shape, LocalsAreSet, RunState
<1>3. PICK n : n = Len(requests[r]) + 1
  OBVIOUS
<1>4. /\ Create(r, s, e) /\ local' = [local EXCEPT ![c].id = n]
      /\ state' = state
  BY <1>1, <1>2, <1>3 DEF CreateInterrupt, Finish, Goto, storeVars
<1>5. local'[c].id = n
  BY <1>1, <1>4 DEF Local
<1>6. RunOf(c)' = r
  <2>1. Proceed(c) /\ ~Loaded(c)
    BY <1>1 DEF Proceed, Advancing, Loaded, At
  <2>2. QED BY <1>1, <1>2, <2>1, ProceedIsWorkStep, WorkRuns
<1>7. n \in DOMAIN requests'[r]
  <2>1. /\ requests[r] \in Seq(Request) /\ AllNoticed(requests[r]) \in Seq(Request)
        /\ Len(AllNoticed(requests[r])) = Len(requests[r])
    BY <1>1, AllNoticedType, LenProperties DEF TypeOK, InterruptsTypeOK
  <2>2. PICK q, new : /\ q = AllNoticed(requests[r])
                      /\ new = [step |-> s, epoch |-> e, status |-> "pending",
                                late |-> FALSE]
    OBVIOUS
  <2>3. requests'[r] = Append(q, new) /\ new \in Request
    BY <1>1, <1>4, <2>2 DEF Create, TypeOK, InterruptsTypeOK, Request, RequestStatus
  <2>4. Append(q, new) \in Seq(Request) /\ Len(Append(q, new)) = Len(q) + 1
    BY <2>1, <2>2, <2>3
  <2>5. DOMAIN Append(q, new) = 1 .. Len(q) + 1 /\ Len(q) \in Nat
    BY <2>1, <2>2, <2>4, LenProperties
  <2>6. QED BY <1>3, <2>1, <2>2, <2>3, <2>5
<1>8. requests'[r][n].epoch = e /\ requests'[r][n].status = "pending"
  <2>1. n \notin DOMAIN requests[r]
    <3>1. DOMAIN requests[r] = 1 .. Len(requests[r]) /\ Len(requests[r]) \in Nat
      BY <1>1, LenProperties DEF TypeOK, InterruptsTypeOK
    <3>2. QED BY <1>3, <3>1
  <2>2. QED BY <1>1, <1>4, <1>7, <2>1, CreatingStands DEF Stands, TypeOK
<1>9. QED BY <1>2, <1>4, <1>5, <1>6, <1>7, <1>8 DEF Answerable

(* A call that has asked finds its request until it puts the wait for it.       *)
LEMMA PausingStays ==
  ASSUME Ownership, Shape', ReliableStore, Awaited, [Next]_vars,
         NEW c \in Calls, pc'[c] = "pausing"
  PROVE  Answerable(RunOf(c), local[c].id, state[RunOf(c)].epoch)'
<1>1. CASE Start(c) \/ Proceed(c)
  BY <1>1, AskingFollows, AskingAnswerable
<1>2. CASE ~Start(c) /\ ~Proceed(c)
  <2>1. pc[c] = "pausing" /\ local'[c] = local[c] /\ RunOf(c)' = RunOf(c) /\ Drives(c)
    BY <1>2, OthersRest DEF Drives
  <2>2a. PICK r \in Runs : r = RunOf(c)
    BY <2>1, DriverState
  <2>2. PICK i, e : /\ r = RunOf(c) /\ i = local[c].id
                    /\ e = state[r].epoch
                    /\ state[r].status \in {"PENDING", "RUNNING"}
    BY <2>2a, <2>1, DriverState
  <2>3. Answerable(r, i, e)
    BY <2>1, <2>2 DEF Awaited
  <2>4. state'[r] = state[r]
    <3>1. ASSUME NEW b \in Calls, Created(b, r)
          PROVE  FALSE
      <4>1. ~Stored(r)
        BY <3>1, StartsIdle DEF Created, Ownership, NamedByItsCall
      <4>2. QED BY <2>2, <4>1 DEF Stored, NoState
    <3>2. ASSUME NEW b \in Calls, NewVersion(b, r)
          PROVE  FALSE
      BY <1>2, <2>1, <2>2, <3>2 DEF NewVersion
    <3>3. QED BY <3>1, <3>2, StateMoves
  <2>5. ASSUME NEW b \in Calls, Saved(b, r, i)
        PROVE  FALSE
    <3>1. pc[b] = "syncing" /\ RunOf(b) = r /\ local[b].id = i
      BY <2>5 DEF Saved, SyncRequest, At
    <3>2. QED BY <2>1, <2>2, <3>1 DEF Awaited, SavesItsOwn
  <2>6. Answerable(r, i, e)'
    BY <2>3, <2>4, <2>5, AnswerableStays DEF Resumes
  <2>7. QED BY <2>1, <2>2, <2>4, <2>6
<1>3. QED BY <1>1, <1>2

(* Saving a request again makes it pending, at the epoch of the object.         *)
LEMMA SavingSaves ==
  ASSUME Ownership, NEW c \in Calls, SyncRequest(c),
         local[c].id \in DOMAIN requests[RunOf(c)]
  PROVE  /\ Answerable(RunOf(c), local[c].id, Object(c).epoch)'
         /\ Object(c)' = Object(c) /\ RunOf(c)' = RunOf(c) /\ local' = local
<1>1. TypeOK /\ Working(c) /\ RunOf(c) \in Runs
  BY AtWork, ObjectType DEF SyncRequest, At, Ownership, Shape
<1>2a. PICK r \in Runs : r = RunOf(c)
  BY <1>1
<1>2. PICK i, e : /\ r = RunOf(c) /\ i = local[c].id
                  /\ e = Object(c).epoch /\ i \in DOMAIN requests[r]
  BY <1>2a, <1>1
<1>3. /\ Object(c)' = Object(c) /\ RunOf(c)' = RunOf(c) /\ local' = local
  BY DEF SyncRequest, RunOf, Object
<1>4. requests' = [requests EXCEPT ![r][i] =
                     [requests[r][i] EXCEPT !.epoch = e, !.status = "pending"]]
  BY <1>2 DEF SyncRequest
<1>5. requests[r] \in Seq(Request) /\ requests[r][i] \in Request
  BY <1>1, <1>2, ElementOfSeq, LenProperties DEF TypeOK, InterruptsTypeOK
<1>6. /\ i \in DOMAIN requests'[r]
      /\ requests'[r][i] = [requests[r][i] EXCEPT !.epoch = e, !.status = "pending"]
  BY <1>1, <1>2, <1>4, <1>5 DEF TypeOK, InterruptsTypeOK
<1>7. requests'[r][i].epoch = e /\ requests'[r][i].status = "pending"
  BY <1>5, <1>6 DEF Request
<1>8. Answerable(r, i, e)'
  BY <1>6, <1>7 DEF Answerable
<1>9. QED BY <1>2, <1>3, <1>8

(* A run that waits as it did can still be answered.                           *)
LEMMA WaitStays ==
  ASSUME Ownership, Shape', ReliableStore, AtomicSync, Awaited, [Next]_vars,
         NEW r \in Runs, state[r].status = "WAITING_INTERRUPT", state'[r] = state[r]
  PROVE  Awaits(r)'
<1>1. PICK i, e : i = state[r].interrupt /\ e = state[r].epoch
  OBVIOUS
<1>2. ASSUME NEW c \in Calls, SyncRequest(c), RunOf(c) = r, local[c].id = i
      PROVE  Answerable(r, i, e)'
  <2>1. /\ pc[c] = "syncing"
    BY <1>2 DEF SyncRequest, At
  <2>2. SavesItsOwn(c)
    BY <2>1 DEF Awaited
  <2>3. Object(c).epoch = e /\ i \in DOMAIN requests[r]
    BY <1>1, <1>2, <2>2 DEF SavesItsOwn
  <2>4. Answerable(RunOf(c), local[c].id, Object(c).epoch)'
        /\ Object(c)' = Object(c) /\ RunOf(c)' = RunOf(c) /\ local' = local
    BY <1>2, <2>3, SavingSaves
  <2>5. QED BY <1>2, <2>3, <2>4
<1>3. ASSUME NEW x, Answerable(r, i, x)
      PROVE  Answerable(r, i, x)' \/ Answerable(r, i, e)'
  BY <1>2, <1>3, AnswerableStays DEF Resumes, Saved
<1>4. CASE Answerable(r, i, e)
  BY <1>1, <1>3, <1>4 DEF Awaits
<1>5. ASSUME Answerable(r, i, e - 1), Abandoned(r) \/ Saving(r, i, e)
      PROVE  Awaits(r)'
  <2>1. Answerable(r, i, e - 1)' \/ Answerable(r, i, e)'
    BY <1>3, <1>5
  <2>2. Abandoned(r) => Abandoned(r)'
    BY AbandonedStays
  <2>3. ASSUME NEW c \in Calls, pc[c] = "syncing", RunOf(c) = r, local[c].id = i,
               Object(c).epoch = e
        PROVE  Answerable(r, i, e)' \/ Abandoned(r)' \/ Saving(r, i, e)'
    <3>1. CASE Start(c) \/ Proceed(c)
      BY <1>2, <2>3, <3>1, StartsIdle, ActionOfLabel
    <3>2. CASE ~Start(c) /\ ~Proceed(c)
      <4>1. /\ pc'[c] \in {"syncing", "crashed"} /\ RunOf(c)' = r
            /\ local'[c].id = i
        BY <2>3, <3>2, OthersRest
      <4>2. CASE pc'[c] = "crashed"
        BY <4>1, <4>2 DEF Abandoned
      <4>3. CASE pc'[c] = "syncing"
        BY <2>3, <4>1, <4>3, SyncerAlone DEF Awaited, Saving
      <4>4. QED BY <4>1, <4>2, <4>3
    <3>3. QED BY <3>1, <3>2
  <2>4. Answerable(r, i, e)' \/ Abandoned(r)' \/ Saving(r, i, e)'
    BY <1>5, <2>2, <2>3 DEF Saving
  <2>5. QED BY <1>1, <2>1, <2>4 DEF Awaits
<1>6. Awaits(r)
  BY DEF Awaited
<1>7. QED BY <1>1, <1>4, <1>5, <1>6 DEF Awaits

(* A run that comes to wait is an epoch ahead of its request, which the call    *)
(* that put the wait is about to save.                                       *)
LEMMA WaitBegins ==
  ASSUME Ownership, Shape', ReliableStore, Awaited, [Next]_vars, NEW r \in Runs,
         state'[r].status = "WAITING_INTERRUPT", state'[r] # state[r]
  PROVE  Awaits(r)'
<1>1. PICK c \in Calls : /\ Proceed(c) /\ pc[c] = "pausing" /\ pc'[c] = "syncing"
                         /\ RunOf(c) = r /\ state'[r].interrupt = local[c].id
  BY WaitIsNew
<1>2. PICK i, e : i = local[c].id /\ e = state[r].epoch
  OBVIOUS
<1>3. /\ RunOf(c)' = r /\ local' = local
      /\ state'[r].epoch = e + 1 /\ Object(c)'.epoch = state'[r].epoch
  BY <1>1, <1>2, WaitFollows
<1>4. Answerable(r, i, e)
  BY <1>1, <1>2 DEF Awaited
<1>5. ASSUME NEW b \in Calls, Saved(b, r, i)
      PROVE  FALSE
  <2>1. SyncRequest(b) /\ pc[b] = "syncing"
    BY <1>5 DEF Saved, SyncRequest, At
  <2>2. Proceed(b)
    BY <2>1 DEF Proceed, Advancing
  <2>3. QED BY <1>1, <2>1, <2>2, StepsAtHome
<1>6. Answerable(r, i, e)'
  BY <1>4, <1>5, AnswerableStays DEF Resumes
<1>7. Saving(r, i, state[r].epoch)'
  BY <1>1, <1>2, <1>3 DEF Saving
<1>8. state'[r].epoch - 1 = e
  <2>1. e \in Nat
    BY <1>2 DEF Ownership, Shape, TypeOK, StoreTypeOK, RunState
  <2>2. QED BY <1>3, <2>1
<1>9. QED BY <1>1, <1>2, <1>6, <1>7, <1>8 DEF Awaits

(* Any step.                                                                  *)
LEMMA NextKeepsAwaited ==
  ASSUME Ownership', ReliableStore, AtomicSync, Awaited, [Next]_vars
  PROVE  Awaited'
<1>1. Ownership /\ Shape'
  BY DEF Awaited, Ownership
<1>2. \A d \in Calls : pc'[d] = "syncing" => SavesItsOwn(d)'
  BY <1>1, SavesItsOwnStays
<1>3. \A c \in Calls : pc'[c] = "pausing" =>
        Answerable(RunOf(c), local[c].id, state[RunOf(c)].epoch)'
  BY <1>1, PausingStays
<1>4. ASSUME NEW r \in Runs, state'[r].status = "WAITING_INTERRUPT"
      PROVE  Awaits(r)'
  BY <1>1, <1>4, WaitStays, WaitBegins
<1>5. QED BY <1>2, <1>3, <1>4 DEF Awaited

(* It holds before the first step.                                            *)
LEMMA InitAwaited == Init => Awaited
<1> SUFFICES ASSUME Init PROVE Awaited
  OBVIOUS
<1>1. Ownership
  BY InitOwnership
<1>2. QED BY <1>1 DEF Init, StoreInit, NoState, Awaited

(* What a run at rest waits for can be answered.                               *)
LEMMA AwaitedAtRest ==
  ASSUME Awaited
  PROVE  WaitHasItsRequest
<1> SUFFICES ASSUME NEW r \in Runs, state[r].status = "WAITING_INTERRUPT", Idle(r),
                    NEW i, NEW e, i = state[r].interrupt, e = state[r].epoch
             PROVE  LET q == requests[r][i] IN
                      \/ q.status = "pending" /\ q.epoch = e
                      \/ q.status = "expired"
                      \/ q.status = "resolved" /\ Overtaken(r)
                      \/ /\ Abandoned(r)
                         /\ \/ q.status = "pending" /\ q.epoch = e - 1
                            \/ q.status = "resolved"
  BY DEF WaitHasItsRequest
<1>1. \A c \in Calls : pc[c] \in {"resumed", "syncing"} => RunOf(c) # r
  BY DEF Idle, Live
<1>2. TookAnswer(r) => Overtaken(r) \/ Abandoned(r)
  BY <1>1 DEF TookAnswer
<1>3. ~Saving(r, i, e)
  BY <1>1 DEF Saving
<1>4. Awaits(r)
  BY DEF Awaited
<1>5. QED BY <1>2, <1>3, <1>4 DEF Awaits, Answerable

(* A run at rest that waits for an interrupt has its request: the answer that   *)
(* names it will be taken, unless its TTL passed, a process died on the way or  *)
(* an answer was given to a process that worked on an older version.           *)
THEOREM WaitsAreAnswerable ==
  ASSUME AtomicResume, ReliableStore, AtomicSync
  PROVE  Spec => []WaitHasItsRequest
<1>1. Awaited /\ [Next]_vars => Awaited'
  BY NextKeepsOwnership, NextKeepsAwaited DEF Awaited
<1>2. Awaited => WaitHasItsRequest
  BY AwaitedAtRest
<1>3. QED
  BY <1>1, <1>2, InitAwaited, PTL DEF Spec

-----------------------------------------------------------------------------
(* PendingBounded: a run asks again only when nothing it asked is open.        *)

SavesAgain(c, r, i) == SyncRequest(c) /\ r = RunOf(c) /\ i = local[c].id

Asks(c, r, i) ==
  /\ CreateInterrupt(c) /\ pc'[c] = "pausing"
  /\ r = RunOf(c) /\ i = local'[c].id

(* A request is open after a step if it was before, if the call that asked     *)
(* saves it again, or if it is new.                                          *)
LEMMA OpenMoves ==
  ASSUME Ownership, [Next]_vars, NEW r \in Runs, NEW i, Open(r, i)'
  PROVE  \/ Open(r, i)
         \/ \E c \in Calls : SavesAgain(c, r, i) \/ Asks(c, r, i)
<1>1. i \in DOMAIN requests'[r] /\ requests'[r][i].status = "pending"
  BY DEF Open
<1>2. CASE Stands(r, i)
  BY <1>1, <1>2 DEF Stands, Open
<1>3. ASSUME NEW c \in Calls, Saved(c, r, i) \/ Answered(c, r, i) \/ Asked(c, r, i)
      PROVE  SavesAgain(c, r, i) \/ Asks(c, r, i)
  BY <1>1, <1>3 DEF Saved, Answered, Asked, SavesAgain, Asks
<1>4. QED BY <1>1, <1>2, <1>3, RequestsMove

(* A run has requests only where the limit leaves room for one.                *)
LEMMA RoomForSome ==
  ASSUME Ownership, [Next]_vars, NEW r \in Runs, NEW i \in DOMAIN requests'[r]
  PROVE  i \in DOMAIN requests[r] \/ MaxPending > 0
<1>1. TypeOK /\ InterruptsTypeOK /\ Shape
  BY DEF Ownership, Shape, TypeOK
<1>2. CASE Stands(r, i)
  BY <1>2 DEF Stands
<1>3. ASSUME NEW c \in Calls, Saved(c, r, i) \/ Answered(c, r, i)
      PROVE  i \in DOMAIN requests[r]
  <2>1. /\ Working(c)
        /\ SyncRequest(c) \/ DecideRequest(c)
    BY <1>3, AtWork DEF Saved, Answered, SyncRequest, DecideRequest, At
  <2>2. PICK x, j : x = RunOf(c) /\ j = local[c].id
    OBVIOUS
  <2>3. PICK q : requests' = requests \/ requests' = [requests EXCEPT ![x][j] = q]
    BY <2>1, <2>2 DEF SyncRequest, DecideRequest
  <2>4. DOMAIN requests'[r] = DOMAIN requests[r]
    BY <1>1, <2>3 DEF InterruptsTypeOK
  <2>5. QED BY <2>4
<1>4. ASSUME NEW c \in Calls, Asked(c, r, i)
      PROVE  MaxPending > 0
  <2>1. /\ CreateInterrupt(c) /\ pc'[c] = "pausing" /\ pc \in [Calls -> PC]
        /\ r = RunOf(c)
    BY <1>1, <1>4 DEF Asked, TypeOK
  <2>2. PICK e : HasRoom(r, e, MaxPending)
    BY <2>1 DEF CreateInterrupt, Finish, Goto
  <2>3. /\ DOMAIN requests[r] = 1 .. Len(requests[r]) /\ Len(requests[r]) \in Nat
    BY <1>1, LenProperties DEF InterruptsTypeOK
  <2>4. IsFiniteSet(DOMAIN requests[r])
    BY <2>3, FS_Interval
  <2>5. IsFiniteSet(PendingAt(r, e))
    BY <2>4, FS_Subset DEF PendingAt
  <2>6. Cardinality(PendingAt(r, e)) \in Nat
    BY <2>5, FS_CardinalityType
  <2>7. QED BY <2>2, <2>6, RuntimeConstants DEF HasRoom
<1>5. QED BY <1>2, <1>3, <1>4, RequestsMove

(* Nobody else's step falls between an answer and its verdict, nor between a   *)
(* wait and the save of its request.                                         *)
LEMMA NobodyBetween ==
  ASSUME Ownership, ReliableStore, OneProcess, AtomicResume, AtomicSync,
         NEW c \in Calls, NEW d \in Calls, Start(c) \/ Proceed(c),
         pc[d] \in {"deciding", "syncing"}
  PROVE  c = d
<1> SUFFICES ASSUME c # d PROVE FALSE
  OBVIOUS
<1>1. Live(d) /\ ProcOf[d] = ProcOf[c]
  BY DEF Live, OneProcess
<1>2. pc[d] \in Yields
  BY <1>1, StepsAtHome DEF MayRun
<1>3. QED BY <1>2 DEF AtomicResume, AtomicSync, Taking

(* What a step leaves of a run's open requests.                                *)
LEMMA NothingOpens ==
  ASSUME Ownership, [Next]_vars, NEW r \in Runs,
         \A c \in Calls : /\ SyncRequest(c) => RunOf(c) # r
                          /\ CreateInterrupt(c) /\ pc'[c] = "pausing" => RunOf(c) # r
  PROVE  /\ \A i : Open(r, i)' => Open(r, i)
         /\ NoneOpen(r) => NoneOpen(r)'
         /\ \A i : OnlyOpen(r, i) => OnlyOpen(r, i)'
<1>1. \A i : Open(r, i)' => Open(r, i)
  BY OpenMoves DEF SavesAgain, Asks
<1>2. \A j \in DOMAIN requests'[r] : Open(r, j)' => j \in DOMAIN requests[r]
  BY <1>1 DEF Open
<1>3. QED BY <1>1, <1>2 DEF NoneOpen, OnlyOpen

(* The call that saves a request again, or makes one, is the only one to open   *)
(* any.                                                                      *)
LEMMA OneOpener ==
  ASSUME Ownership, ReliableStore, [Next]_vars,
         NEW c \in Calls, NEW d \in Calls,
         SyncRequest(c) \/ CreateInterrupt(c), SyncRequest(d) \/ CreateInterrupt(d)
  PROVE  c = d
<1>1. Proceed(c) /\ Proceed(d)
  BY DEF Proceed, Advancing
<1>2. /\ pc[c] \in {"syncing", "stepping"} /\ pc \in [Calls -> PC]
      /\ pc'[c] \in {"done", "pausing"}
  BY DEF SyncRequest, CreateInterrupt, At, Finish, Goto, Ownership, Shape, TypeOK
<1>3. QED BY <1>1, <1>2, StepsAtHome

(* An answer that is taken leaves no request of its run open.                  *)
LEMMA AnswerCloses ==
  ASSUME Ownership, Shape', NEW c \in Calls, DecideRequest(c), pc'[c] = "resumed",
         local[c].request.status = "pending" => OnlyOpen(RunOf(c), local[c].id)
  PROVE  NoneOpen(RunOf(c))'
<1>1. /\ Shape /\ InterruptsTypeOK /\ pc \in [Calls -> PC] /\ Working(c)
      /\ local \in [Calls -> Local] /\ pc[c] = "deciding"
  BY AtWork DEF Ownership, Shape, TypeOK, DecideRequest, At
<1>2. PICK r \in Runs : r = RunOf(c)
  BY <1>1, ObjectType
<1>3. PICK id : id = local[c].id /\ id \in DOMAIN requests[r]
  BY <1>1, <1>2 DEF Shape, LocalsAreSet
<1>4. PICK mine : mine = [local[c].request EXCEPT !.late = requests[r][id].late]
  OBVIOUS
<1>5. PICK q : q = Judged(mine, local[c].quote)
  OBVIOUS
<1>6. /\ Verdict(mine, local[c].quote) = "resolved"
      /\ requests' = [requests EXCEPT ![r][id] = q]
  BY <1>1, <1>2, <1>3, <1>4, <1>5 DEF DecideRequest, Finish, Goto
<1>7. /\ local[c].request.status \in RequestStatus
      /\ mine.status = local[c].request.status
      /\ \A v : [mine EXCEPT !.status = v].status = v
  <2>1. local[c].request \in Request \cup {NoRequest}
    BY <1>1 DEF Local
  <2>2. QED BY <1>4, <2>1 DEF Request, NoRequest, RequestStatus
<1>8. local[c].request.status = "pending"
  <2>1. mine.status = "pending"
    BY <1>6, <1>7 DEF Verdict, IsPending, RequestStatus
  <2>2. QED BY <1>7, <2>1
<1>9. q.status = "resolved"
  BY <1>5, <1>6, <1>7 DEF Judged
<1>10. requests'[r] = [requests[r] EXCEPT ![id] = q]
  BY <1>1, <1>6 DEF InterruptsTypeOK
<1>11. RunOf(c)' = r
  <2>1. Proceed(c) /\ ~Loaded(c)
    BY <1>1 DEF Proceed, Resuming, Loaded, At
  <2>2. QED BY <1>1, <1>2, <2>1, ProceedIsWorkStep, WorkRuns
<1>12. ASSUME NEW j \in DOMAIN requests'[r], requests'[r][j].status = "pending"
       PROVE  FALSE
  BY <1>2, <1>3, <1>8, <1>9, <1>10, <1>12 DEF OnlyOpen, Open
<1>13. QED BY <1>11, <1>12 DEF NoneOpen, Open

(* Nothing is open of a run when it is put, but what the put is to wait for.    *)
LEMMA PutsClosed ==
  ASSUME ReliableStore, AskedOneByOne, [Next]_vars,
         NEW c \in Calls, NEW r \in Runs, NewVersion(c, r)
  PROVE  /\ requests' = requests
         /\ pc[c] # "pausing" => NoneOpen(r)
         /\ pc[c] = "pausing" => pc'[c] = "syncing"
<1>1. /\ Ownership /\ Shape /\ Working(c) /\ Proceed(c) /\ r = RunOf(c)
      /\ pc \in [Calls -> PC] /\ state \in [Runs -> RunState]
      /\ Object(c).epoch = state[r].epoch
  BY DEF AskedOneByOne, Ownership, Shape, TypeOK, StoreTypeOK, NewVersion
<1>2. state' # state
  <2>1. state[r].epoch \in Nat
    BY <1>1 DEF RunState
  <2>2. QED BY <2>1 DEF NewVersion
<1>3. requests' = requests
  BY <1>1, <1>2, RequestsRest DEF SyncRequest, DecideRequest, CreateInterrupt, storeVars
<1>4. CASE pc[c] = "pausing"
  <2>1. PersistWait(c)
    BY <1>1, <1>4, ActionOfLabel
  <2>2. QED BY <1>1, <1>2, <1>3, <1>4, <2>1 DEF PersistWait, Persist, Goto, storeVars
<1>5. CASE Drives(c) /\ pc[c] # "pausing"
  BY <1>1, <1>3, <1>5 DEF AskedOneByOne, KnowsOpen
<1>6. CASE pc[c] = "resumed"
  BY <1>1, <1>3, <1>6 DEF AskedOneByOne, KnowsOpen
<1>7. CASE pc[c] \in {"granting", "rejecting"}
  <2>1. Object(c).status = "WAITING_APPROVAL" /\ Coherent(ref[c])
    BY <1>1, <1>7, HolderFacts DEF Ownership, HoldersKnowTheirRun, Knows
  <2>2. state[r].status = "WAITING_APPROVAL"
    BY <1>1, <2>1 DEF Coherent, Object, RunOf
  <2>3. NoneOpen(r)
    BY <2>2 DEF AskedOneByOne
  <2>4. QED BY <1>3, <1>7, <2>3
<1>8. QED BY <1>4, <1>5, <1>6, <1>7 DEF NewVersion

(* Nobody changes the version or the status of an object whose wait was just    *)
(* resolved.                                                                 *)
LEMMA ResumedObjectStays ==
  ASSUME Ownership, ReliableStore, [Next]_vars,
         NEW d \in Calls, pc[d] = "resumed", ~Proceed(d)
  PROVE  Object(d)'.epoch = Object(d).epoch /\ ref'[d] = ref[d]
<1>1. /\ Shape /\ ref[d] \in Calls /\ ~Fresh(d) /\ pc \in [Calls -> PC] /\ ~Start(d)
      /\ Holds(d)
  BY StartsIdle DEF Ownership, Shape, TypeOK, Fresh, Holds
<1>2. ASSUME NEW c \in Calls, Start(c) \/ Loaded(c)
      PROVE  Object(d)'.epoch = Object(d).epoch /\ ref'[d] = ref[d]
  <2>1. ref'[d] = ref[d]
    BY <1>1, <1>2, StepsAtHome DEF Proceed, Resuming
  <2>2. QED BY <1>1, <1>2, <2>1, LookingKeepsObjects DEF Object
<1>3. ASSUME NEW c \in Calls, Proceed(c), ~Loaded(c)
      PROVE  Object(d)'.epoch = Object(d).epoch /\ ref'[d] = ref[d]
  <2>1. WorkStep(c) /\ Working(c) /\ ref' = ref /\ pc[c] \in PC \ Writing /\ c # d
    BY <1>1, <1>3, ProceedIsWorkStep, PutsAtOnce DEF WorkStep, ReliableStore
  <2>2. CASE ref[c] # ref[d]
    BY <1>1, <2>1, <2>2 DEF WorkStep, Object
  <2>3. CASE ref[c] = ref[d]
    <3>1. ~Holds(c)
      BY <1>1, <2>1, <2>3 DEF Ownership, OneHolderPerObject
    <3>2. pc[c] \in {"syncing", "clearing"}
      BY <2>1, <3>1 DEF Working, Live, Fresh, PC, Writing, Holds, Drives, Taking
    <3>3. heap' = heap
      BY <1>3, <3>2, ActionOfLabel DEF SyncRequest, ClearActiveRun
    <3>4. QED BY <2>1, <3>3 DEF Object
  <2>4. QED BY <2>2, <2>3
<1>4. CASE Environment \/ UNCHANGED vars
  BY <1>4 DEF Environment, Crash, ExpireRequest, ListPendingInterrupts, vars,
              runtimeVars, Object
<1>5. QED BY <1>2, <1>3, <1>4 DEF Next

(* A wait that was resolved is older than the version a call puts.              *)
LEMMA ResumedIsOlder ==
  ASSUME Ownership, ReliableStore, [Next]_vars, NEW c \in Calls, NEW r \in Runs,
         NewVersion(c, r), NEW d \in Calls, d # c, pc[d] = "resumed", RunOf(d) = r
  PROVE  Object(d)'.epoch # state'[r].epoch
<1>1. /\ state[r].epoch \in Nat /\ Object(d).epoch \in Nat
      /\ Object(d).epoch <= state[r].epoch
  BY HolderFacts DEF Working, Live, Fresh, Coherent, Object, RunState
<1>2. ~Proceed(d)
  <2>1. SUFFICES ASSUME Proceed(d) PROVE FALSE
    OBVIOUS
  <2>2. PersistResumed(d)
    BY <2>1, ActionOfLabel
  <2>3. pc'[d] = "resumed" /\ pc \in [Calls -> PC]
    BY StepsAtHome DEF NewVersion, Ownership, Shape, TypeOK
  <2>4. pc'[d] \in {"continuing", "done"}
    BY <2>2, <2>3, PersistGoes, PutLabels DEF PersistResumed, ReliableStore
  <2>5. QED BY <2>3, <2>4
<1>3. Object(d)'.epoch = Object(d).epoch
  BY <1>2, ResumedObjectStays
<1>4. QED BY <1>1, <1>3 DEF NewVersion

(* Nobody else asks, or saves a request, of a run that a call drives.           *)
LEMMA DriverAsksAlone ==
  ASSUME AskedOneByOne, NEW d \in Calls, Drives(d),
         NEW c \in Calls, c # d, RunOf(c) = RunOf(d)
  PROVE  ~SyncRequest(c) /\ ~CreateInterrupt(c)
<1>1. Ownership /\ KnowsOpen(c)
  BY DEF AskedOneByOne
<1>2. state[RunOf(d)].status # "WAITING_INTERRUPT"
  BY <1>1, DriverState
<1>3. ~SyncRequest(c)
  BY <1>1, <1>2 DEF SyncRequest, At, KnowsOpen
<1>4. ~CreateInterrupt(c)
  BY <1>1 DEF CreateInterrupt, At, Ownership, SingleDriver, Drives
<1>5. QED BY <1>3, <1>4

(* A call that resumes the version that is stored finds nothing open.           *)
LEMMA ResumedFindsNone ==
  ASSUME ReliableStore, AskedOneByOne, Shape', [Next]_vars,
         NEW d \in Calls, pc[d] = "resumed", ~Proceed(d),
         Object(d)'.epoch = state'[RunOf(d)].epoch
  PROVE  NoneOpen(RunOf(d))'
<1>1. /\ Ownership /\ Shape /\ Working(d) /\ KnowsOpen(d) /\ Knows(d)
      /\ pc \in [Calls -> PC]
  BY DEF AskedOneByOne, Working, Live, Fresh, Ownership, Shape, TypeOK,
         HoldersKnowTheirRun
<1>2. PICK r \in Runs : r = RunOf(d)
  BY <1>1, ObjectType
<1>3. Object(d)'.epoch = Object(d).epoch /\ RunOf(d)' = r
  BY <1>1, <1>2, ResumedObjectStays, OthersRest, StartsIdle
<1>4. NoneOpen(r)'
  <2>1. ASSUME NEW c \in Calls, Created(c, r)
        PROVE  FALSE
    <3>1. pc[r] = "idle"
      BY <2>1, StartsIdle DEF Created
    <3>2. QED BY <1>1, <1>2, <3>1, HolderFacts
  <2>2. ASSUME NEW c \in Calls, NewVersion(c, r)
        PROVE  NoneOpen(r)'
    <3>1. Proceed(c) /\ c # d
      BY <2>2 DEF NewVersion
    <3>2. Object(d)'.epoch # state'[r].epoch
      BY <1>1, <1>2, <2>2, <3>1, ResumedIsOlder
    <3>3. QED BY <1>2, <3>2
  <2>3. CASE state'[r] = state[r]
    <3>1. Object(d).epoch = state[r].epoch
      BY <1>2, <1>3, <2>3
    <3>2. /\ NoneOpen(r)
          /\ state[r].status = "WAITING_INTERRUPT"
      BY <1>1, <1>2, <3>1, HolderFacts DEF KnowsOpen, Knows, RunOf
    <3>3. ASSUME NEW c \in Calls, RunOf(c) = r
          PROVE  ~SyncRequest(c) /\ ~CreateInterrupt(c)
      <4>1. ~SyncRequest(c)
        BY <1>2, <3>1, <3>3 DEF SyncRequest, At, AskedOneByOne, KnowsOpen
      <4>2. ~CreateInterrupt(c)
        BY <1>1, <3>2, <3>3, DriverState DEF CreateInterrupt, At, Drives
      <4>3. QED BY <4>1, <4>2
    <3>4. QED BY <1>1, <3>2, <3>3, NothingOpens
  <2>4. QED BY <1>1, <2>1, <2>2, <2>3, StateMoves
<1>5. QED BY <1>2, <1>3, <1>4 DEF NoneOpen, Open

(* What a call knows stays so while others take their steps.                   *)
LEMMA KnowsOpenStays ==
  ASSUME ReliableStore, OneProcess, AtomicResume, AtomicSync,
         AskedOneByOne, Ownership', [Next]_vars,
         NEW d \in Calls, ~Start(d), ~Proceed(d)
  PROVE  KnowsOpen(d)'
<1>1. /\ Ownership /\ Shape /\ Shape' /\ KnowsOpen(d) /\ pc \in [Calls -> PC]
  BY DEF AskedOneByOne, Ownership, Shape, TypeOK
<1>2. /\ pc'[d] = pc[d] \/ pc'[d] = "crashed"
      /\ local'[d] = local[d] /\ RunOf(d)' = RunOf(d)
  BY <1>1, OthersRest
<1>3. CASE pc'[d] = "crashed"
  BY <1>3 DEF KnowsOpen, Drives
<1>4. CASE pc[d] \notin {"syncing", "deciding", "resumed"} /\ ~Drives(d)
           /\ pc'[d] = pc[d]
  BY <1>4 DEF KnowsOpen, Drives
<1>5. CASE Drives(d) /\ pc'[d] = pc[d]
  <2>1. PICK r \in Runs : r = RunOf(d)
    BY <1>1, <1>5, DriverState
  <2>1a. PICK i : i = local[d].id
    OBVIOUS
  <2>2. ASSUME NEW c \in Calls, SyncRequest(c) \/ CreateInterrupt(c)
        PROVE  RunOf(c) # r
    <3>1. c # d
      BY <2>2 DEF Proceed, Advancing
    <3>2. QED BY <1>5, <2>1, <2>2, <3>1, DriverAsksAlone
  <2>3. (NoneOpen(r) => NoneOpen(r)') /\ (OnlyOpen(r, i) => OnlyOpen(r, i)')
    BY <1>1, <2>2, NothingOpens
  <2>4. CASE pc[d] = "pausing"
    <3>1. OnlyOpen(r, i)'
      BY <1>1, <2>1, <2>1a, <2>3, <2>4 DEF KnowsOpen
    <3>2. OnlyOpen(RunOf(d), local[d].id)'
      BY <1>2, <2>1, <2>1a, <3>1 DEF OnlyOpen, Open
    <3>3. QED BY <1>5, <2>4, <3>2 DEF KnowsOpen
  <2>5. CASE pc[d] # "pausing"
    <3>1. NoneOpen(r)'
      BY <1>1, <1>5, <2>1, <2>3, <2>5 DEF KnowsOpen
    <3>2. NoneOpen(RunOf(d))'
      BY <1>2, <2>1, <3>1 DEF NoneOpen, Open
    <3>3. QED BY <1>5, <2>5, <3>2 DEF KnowsOpen, Drives
  <2>6. QED BY <2>4, <2>5
<1>6. CASE pc[d] = "resumed" /\ pc'[d] = pc[d]
  BY <1>1, <1>2, <1>6, ResumedFindsNone DEF KnowsOpen, Drives
<1>7. CASE pc[d] \in {"syncing", "deciding"} /\ pc'[d] = pc[d]
  <2>1. \A c \in Calls : ~Start(c) /\ ~Proceed(c)
    BY <1>1, <1>7, NobodyBetween
  <2>2. Environment \/ UNCHANGED vars
    BY <2>1 DEF Next
  <2>3. /\ state' = state /\ \A c \in Calls : Object(c)' = Object(c)
        /\ \A c \in Calls : RunOf(c)' = RunOf(c) /\ pc'[c] \in {pc[c], "crashed"}
    BY <1>1, <2>2 DEF Environment, Crash, ExpireRequest, ListPendingInterrupts, vars,
              runtimeVars, storeVars, Object, RunOf
  <2>4. PICK r \in Runs : r = RunOf(d)
    BY <1>1, <1>7, ObjectType DEF Working, Live, Fresh
  <2>4a. PICK i : i = local[d].id
    OBVIOUS
  <2>5. OnlyOpen(r, i) => OnlyOpen(r, i)'
    <3>1. \A c \in Calls : ~SyncRequest(c) /\ ~CreateInterrupt(c)
      BY <2>1 DEF Proceed, Advancing
    <3>2. QED BY <1>1, <3>1, NothingOpens
  <2>6. OnlyOpen(RunOf(d), local[d].id) => OnlyOpen(RunOf(d), local[d].id)'
    BY <1>2, <2>4, <2>4a, <2>5 DEF OnlyOpen, Open
  <2>7. QED BY <1>1, <1>2, <1>7, <2>3, <2>6 DEF KnowsOpen, Drives
<1>8. QED BY <1>2, <1>3, <1>4, <1>5, <1>6, <1>7 DEF Drives

(* A call that comes to drive a run knows that nothing of it is open.          *)
LEMMA DrivingFindsNone ==
  ASSUME ReliableStore, AskedOneByOne, [Next]_vars,
         NEW c \in Calls, Start(c) \/ Proceed(c), Drives(c)', pc'[c] # "pausing"
  PROVE  NoneOpen(RunOf(c))'
<1>1. Ownership /\ Shape /\ pc \in [Calls -> PC] /\ state \in [Runs -> RunState]
      /\ KnowsOpen(c)
  BY DEF AskedOneByOne, Ownership, Shape, TypeOK, StoreTypeOK
<1>2. ~Loaded(c) /\ \A r \in Runs : ~ResumeWorkflow(c, r)
  BY <1>1, ResumingStays DEF Drives
<1>3. CASE \/ \E t \in Threads : RunWorkflow(c, t)
           \/ \E k \in DOMAIN checkpoints : ResumeFromCheckpoint(c, k)
  <2>1. state[c] = NoState /\ c \in Runs /\ RunOf(c)' = c
    BY <1>1, <1>3, CreatingStores
  <2>2. NoneOpen(c)
    BY <2>1 DEF AskedOneByOne, NoState
  <2>3. requests' = requests
    BY <1>3 DEF RunWorkflow, ResumeFromCheckpoint, BumpEpoch
  <2>4. QED BY <2>1, <2>2, <2>3 DEF NoneOpen, Open
<1>4. CASE Proceed(c)
  <2>1. /\ WorkStep(c) /\ Working(c)
    BY <1>1, <1>2, <1>4, ProceedIsWorkStep DEF WorkStep
  <2>2. PICK r \in Runs : r = RunOf(c)
    BY <1>1, <2>1, ObjectType
  <2>3. RunOf(c)' = r
    BY <1>1, <2>1, <2>2, WorkRuns
  <2>4. ~SyncRequest(c) /\ ~DecideRequest(c) /\ ~CreateInterrupt(c)
    BY <1>1 DEF SyncRequest, DecideRequest, CreateInterrupt, Finish, Goto, Drives
  <2>5. requests' = requests
    BY <1>4, <2>4, RequestsRest
  <2>6. NoneOpen(r)
    <3>1. CASE Drives(c) /\ pc[c] # "pausing"
      BY <1>1, <2>2, <3>1 DEF KnowsOpen
    <3>2. CASE state'[r] # state[r]
      <4>1. PICK d \in Calls : Created(d, r) \/ NewVersion(d, r)
        BY <1>1, <3>2, StateMoves
      <4>2. d = c
        <5>1. CASE Created(d, r)
          <6>1. pc[r] = "idle"
            BY <5>1, StartsIdle DEF Created
          <6>2. QED BY <1>1, <2>1, <2>2, <6>1, HolderFacts
        <5>2. ASSUME NewVersion(d, r), d # c
              PROVE  FALSE
          <6>1. pc'[c] = pc[c] /\ Drives(c)
            BY <1>1, <5>2, StepsAtHome DEF NewVersion, Drives
          <6>2. QED BY <2>2, <5>2, <6>1 DEF NewVersion
        <5>3. QED BY <4>1, <5>1, <5>2
      <4>3. NewVersion(c, r)
        BY <1>4, <4>1, <4>2, StartsIdle, ActionOfLabel DEF Created
      <4>4. QED BY <4>3, PutsClosed DEF Drives
    <3>3. CASE state'[r] = state[r] /\ ~(Drives(c) /\ pc[c] # "pausing")
      <4>1. ~PutsWell(c)
        <5>1. SUFFICES ASSUME PutsWell(c) PROVE FALSE
          OBVIOUS
        <5>2. PICK w : state' = [state EXCEPT ![r] = w] /\ w.epoch = state[r].epoch + 1
          BY <1>1, <2>1, <2>2, <5>1, WellPut DEF Drives
        <5>3. state[r].epoch \in Nat /\ state'[r] = w
          BY <1>1, <5>2 DEF RunState
        <5>4. QED BY <3>3, <5>2, <5>3
      <4>2. ~RegisterActiveRun(c) /\ ~ClearActiveRun(c)
        BY <1>1, <3>3 DEF RegisterActiveRun, ClearActiveRun, At, Finish, Goto, Drives
      <4>3. Bides(c)
        BY <1>1, <1>2, <1>4, <4>1, <4>2, WorkPutsWell
      <4>4. QED BY <3>3, <4>3 DEF Bides
    <3>4. QED BY <3>1, <3>2, <3>3
  <2>7. QED BY <2>3, <2>5, <2>6 DEF NoneOpen, Open
<1>5. QED BY <1>2, <1>3, <1>4 DEF Start

(* A call comes to have its wait resolved by a verdict.                        *)
LEMMA ResumedIsJudged ==
  ASSUME Ownership, ReliableStore, NEW c \in Calls, Start(c) \/ Proceed(c),
         pc'[c] = "resumed"
  PROVE  DecideRequest(c)
<1>1. /\ Shape /\ pc \in [Calls -> PC]
  BY DEF Ownership, Shape, TypeOK
<1>2. CASE Loaded(c) \/ \E r \in Runs : ResumeWorkflow(c, r)
  BY <1>1, <1>2, ResumingStays
<1>3. CASE \/ \E t \in Threads : RunWorkflow(c, t)
           \/ \E k \in DOMAIN checkpoints : ResumeFromCheckpoint(c, k)
  BY <1>3, CreatingStores
<1>4. CASE Proceed(c) /\ ~Loaded(c)
  <2>1. WorkStep(c) /\ Working(c)
    BY <1>1, <1>4, ProceedIsWorkStep DEF WorkStep
  <2>2. CASE PutsWell(c)
    BY <2>1, <2>2, WellPut DEF Suits, DrivingLabels
  <2>3. CASE RegisterActiveRun(c) \/ ClearActiveRun(c)
    BY <1>1, <2>3 DEF RegisterActiveRun, ClearActiveRun, Finish, Goto
  <2>4. QED BY <1>4, <2>2, <2>3, WorkPutsWell DEF Bides
<1>5. QED BY <1>2, <1>3, <1>4 DEF Start

(* What a call knows once it has taken a step of its own.                      *)
LEMMA KnowsOpenOwn ==
  ASSUME ReliableStore, AskedOneByOne, Ownership', [Next]_vars,
         NEW c \in Calls, Start(c) \/ Proceed(c)
  PROVE  KnowsOpen(c)'
<1>1. /\ Ownership /\ Shape /\ Shape' /\ KnowsOpen(c) /\ pc \in [Calls -> PC]
      /\ local \in [Calls -> Local]
  BY DEF AskedOneByOne, Ownership, Shape, TypeOK
<1>2. ASSUME pc'[c] = "pausing"
      PROVE  OnlyOpen(RunOf(c), local[c].id)'
  <2>1. CreateInterrupt(c) /\ pc[c] = "stepping"
    BY <1>1, <1>2, AskingFollows DEF CreateInterrupt, At
  <2>2. /\ Proceed(c) /\ ~Loaded(c) /\ Working(c) /\ Drives(c)
    BY <2>1 DEF Proceed, Advancing, Loaded, At, Working, Live, Fresh, Drives
  <2>3. PICK r \in Runs : r = RunOf(c) /\ RunOf(c)' = r
    BY <1>1, <2>2, ProceedIsWorkStep, WorkRuns, ObjectType
  <2>4. PICK i : i = local'[c].id
    OBVIOUS
  <2>5. NoneOpen(r)
    BY <1>1, <2>1, <2>2, <2>3 DEF KnowsOpen
  <2>6. ASSUME NEW j, Open(r, j)'
        PROVE  j = i
    <3>1. ~Open(r, j)
      BY <2>5 DEF NoneOpen, Open
    <3>2. PICK d \in Calls : SavesAgain(d, r, j) \/ Asks(d, r, j)
      BY <1>1, <2>6, <3>1, OpenMoves
    <3>3. d = c /\ ~SyncRequest(c)
      BY <1>1, <2>1, <3>2, OneOpener DEF SavesAgain, Asks, SyncRequest, At
    <3>4. QED BY <2>4, <3>2, <3>3 DEF SavesAgain, Asks
  <2>7. QED BY <2>3, <2>4, <2>6 DEF OnlyOpen
<1>3. ASSUME pc'[c] = "syncing"
      PROVE  /\ OnlyOpen(RunOf(c), local[c].id)'
             /\ state'[RunOf(c)'].status = "WAITING_INTERRUPT"
             /\ \A d \in Calls : pc'[d] = "resumed" /\ RunOf(d)' = RunOf(c)' =>
                  Object(d)'.epoch # state'[RunOf(c)'].epoch
  <2>1. /\ PersistWait(c) /\ pc[c] = "pausing" /\ RunOf(c)' = RunOf(c)
        /\ requests' = requests /\ local' = local
        /\ state'[RunOf(c)].status = "WAITING_INTERRUPT"
        /\ state'[RunOf(c)].epoch = state[RunOf(c)].epoch + 1
    BY <1>1, <1>3, WaitFollows
  <2>2. PICK r \in Runs : r = RunOf(c)
    BY <1>1, <2>1, ObjectType DEF Working, Live, Fresh
  <2>3. PICK i : i = local[c].id
    OBVIOUS
  <2>4. OnlyOpen(r, i)
    BY <1>1, <2>1, <2>2, <2>3 DEF KnowsOpen
  <2>5. OnlyOpen(RunOf(c), local[c].id)'
    BY <2>1, <2>2, <2>3, <2>4 DEF OnlyOpen, Open
  <2>6. ASSUME NEW d \in Calls, pc'[d] = "resumed", RunOf(d)' = r
        PROVE  Object(d)'.epoch # state'[r].epoch
    <3>1. d # c /\ pc[d] = "resumed" /\ RunOf(d) = r
      BY <1>1, <1>3, <2>6, StepsAtHome
    <3>2. state'[r] # state[r]
      <4>1. state[r].epoch \in Nat
        BY DEF AskedOneByOne, Ownership, Shape, TypeOK, StoreTypeOK, RunState
      <4>2. QED BY <2>1, <2>2, <4>1
    <3>3. PICK b \in Calls : NewVersion(b, r)
      <4>1. ASSUME NEW b \in Calls, Created(b, r)
            PROVE  FALSE
        BY <2>1, <2>2, <4>1 DEF Created
      <4>2. QED BY <1>1, <3>2, <4>1, StateMoves
    <3>4. b # d
      <4>1. SUFFICES ASSUME Proceed(d) PROVE FALSE
        BY <3>3 DEF NewVersion
      <4>2. PersistResumed(d)
        BY <3>1, <4>1, ActionOfLabel
      <4>3. pc'[d] \in {"continuing", "done"}
        BY <1>1, <4>2, PersistGoes, PutLabels DEF PersistResumed, ReliableStore
      <4>4. QED
        BY <2>6, <4>3
    <3>5. QED BY <1>1, <3>1, <3>3, <3>4, ResumedIsOlder
  <2>7. QED BY <2>1, <2>2, <2>5, <2>6
<1>4. ASSUME pc'[c] = "deciding", local'[c].request.status = "pending"
      PROVE  OnlyOpen(RunOf(c), local[c].id)'
  <2>1. ReadRequest(c) /\ pc[c] = "resolving" /\ Working(c)
    BY <1>1, <1>4, DecidingReads, AtWork DEF ReadRequest, At
  <2>2. PICK r \in Runs : r = RunOf(c)
    BY <1>1, <2>1, ObjectType
  <2>3. PICK i : i = local[c].id /\ i \in DOMAIN requests[r]
    BY <1>1, <2>1, <2>2 DEF Shape, LocalsAreSet
  <2>4. /\ local' = [local EXCEPT ![c].request = requests[r][i]]
        /\ requests' = requests /\ RunOf(c)' = r
    BY <2>1, <2>2, <2>3 DEF ReadRequest, interruptVars, RunOf, Object
  <2>5. local'[c].request = requests[r][i] /\ local'[c].id = i
    BY <1>1, <2>3, <2>4 DEF Local
  <2>6. OnlyOpen(r, i)
    BY <1>4, <2>3, <2>5 DEF AskedOneByOne, Open
  <2>7. QED BY <2>4, <2>5, <2>6 DEF OnlyOpen, Open
<1>5. ASSUME pc'[c] = "resumed"
      PROVE  NoneOpen(RunOf(c))'
  <2>1. DecideRequest(c)
    BY <1>1, <1>5, ResumedIsJudged
  <2>2. QED BY <1>1, <1>5, <2>1, AnswerCloses DEF DecideRequest, At, KnowsOpen
<1>6. ASSUME Drives(c)', pc'[c] # "pausing"
      PROVE  NoneOpen(RunOf(c))'
  BY <1>6, DrivingFindsNone
<1>7. QED BY <1>2, <1>3, <1>4, <1>5, <1>6 DEF KnowsOpen

(* A run that does not wait for an interrupt, and is not to go on, has no open  *)
(* request.                                                                  *)
LEMMA ClosedStays ==
  ASSUME ReliableStore, AskedOneByOne, [Next]_vars, NEW r \in Runs,
         state'[r].status \notin {"PENDING", "RUNNING", "WAITING_INTERRUPT"}
  PROVE  NoneOpen(r)'
<1>1. Ownership
  BY DEF AskedOneByOne
<1>2. CASE state'[r] = state[r]
  <2>1. NoneOpen(r)
    BY <1>2 DEF AskedOneByOne
  <2>2. ASSUME NEW c \in Calls, RunOf(c) = r
        PROVE  ~SyncRequest(c) /\ ~CreateInterrupt(c)
    <3>1. ~SyncRequest(c)
      BY <1>2, <2>2 DEF SyncRequest, At, AskedOneByOne, KnowsOpen
    <3>2. ~CreateInterrupt(c)
      BY <1>1, <1>2, <2>2, DriverState DEF CreateInterrupt, At, Drives
    <3>3. QED BY <3>1, <3>2
  <2>3. QED BY <1>1, <2>1, <2>2, NothingOpens
<1>3. ASSUME NEW c \in Calls, NewVersion(c, r)
      PROVE  NoneOpen(r)'
  <2>1. pc[c] # "pausing"
    BY <1>3, PutsClosed DEF NewVersion, Suits
  <2>2. NoneOpen(r) /\ requests' = requests
    BY <1>3, <2>1, PutsClosed
  <2>3. QED BY <2>2 DEF NoneOpen, Open
<1>4. QED BY <1>1, <1>2, <1>3, StateMoves DEF Created

(* A run has one open request at most.                                         *)
LEMMA OneOpenStays ==
  ASSUME ReliableStore, AskedOneByOne, Ownership', [Next]_vars,
         \A c \in Calls : KnowsOpen(c)',
         NEW r \in Runs, NEW i \in DOMAIN requests'[r]
  PROVE  MaxPending > 0 /\ (Open(r, i)' => OnlyOpen(r, i)')
<1>1. Ownership /\ pc \in [Calls -> PC]
  BY DEF AskedOneByOne, Ownership, Shape, TypeOK
<1>2. MaxPending > 0
  BY <1>1, RoomForSome DEF AskedOneByOne
<1>3. ASSUME Open(r, i)', NEW j \in DOMAIN requests'[r], Open(r, j)'
      PROVE  j = i
  <2>1. ASSUME NEW c \in Calls, SyncRequest(c), RunOf(c) = r,
               NEW k, Open(r, k)'
        PROVE  k = local[c].id
    <3>1. OnlyOpen(r, local[c].id)
      BY <2>1 DEF SyncRequest, At, AskedOneByOne, KnowsOpen
    <3>2. CASE Open(r, k)
      BY <3>1, <3>2 DEF OnlyOpen, Open
    <3>3. ASSUME NEW d \in Calls, SavesAgain(d, r, k) \/ Asks(d, r, k)
          PROVE  k = local[c].id
      <4>1. d = c /\ ~CreateInterrupt(c)
        BY <1>1, <2>1, <3>3, OneOpener DEF SavesAgain, Asks, SyncRequest, CreateInterrupt, At
      <4>2. QED BY <3>3, <4>1 DEF SavesAgain, Asks
    <3>4. QED BY <1>1, <2>1, <3>2, <3>3, OpenMoves
  <2>2. ASSUME NEW c \in Calls, CreateInterrupt(c), pc'[c] = "pausing", RunOf(c) = r,
               NEW k \in DOMAIN requests'[r], Open(r, k)'
        PROVE  k = local'[c].id
    <3>1. Proceed(c) /\ ~Loaded(c)
      BY <2>2 DEF Proceed, Advancing, CreateInterrupt, Loaded, At
    <3>2. RunOf(c)' = r
      BY <1>1, <2>2, <3>1, ProceedIsWorkStep, WorkRuns DEF Ownership
    <3>3. OnlyOpen(RunOf(c), local[c].id)'
      BY <2>2 DEF KnowsOpen
    <3>4. QED BY <2>2, <3>2, <3>3 DEF OnlyOpen
  <2>3. CASE \E c \in Calls : SyncRequest(c) /\ RunOf(c) = r
    BY <1>3, <2>1, <2>3
  <2>4. CASE \E c \in Calls : CreateInterrupt(c) /\ pc'[c] = "pausing" /\ RunOf(c) = r
    BY <1>3, <2>2, <2>4
  <2>5. CASE /\ ~\E c \in Calls : SyncRequest(c) /\ RunOf(c) = r
             /\ ~\E c \in Calls : CreateInterrupt(c) /\ pc'[c] = "pausing" /\ RunOf(c) = r
    <3>1. Open(r, i) /\ Open(r, j)
      BY <1>1, <1>3, <2>5, NothingOpens
    <3>2. QED BY <3>1 DEF AskedOneByOne, OnlyOpen, Open
  <2>6. QED BY <2>3, <2>4, <2>5
<1>4. QED BY <1>2, <1>3 DEF OnlyOpen

(* Any step.                                                                  *)
LEMMA NextKeepsAsked ==
  ASSUME Ownership', ReliableStore, OneProcess, AtomicResume, AtomicSync,
         AskedOneByOne, [Next]_vars
  PROVE  AskedOneByOne'
<1>1. \A c \in Calls : KnowsOpen(c)'
  BY KnowsOpenOwn, KnowsOpenStays
<1>2. \A r \in Runs : \A i \in DOMAIN requests'[r] :
        MaxPending > 0 /\ (Open(r, i)' => OnlyOpen(r, i)')
  BY <1>1, OneOpenStays
<1>3. \A r \in Runs :
        state'[r].status \notin {"PENDING", "RUNNING", "WAITING_INTERRUPT"} =>
          NoneOpen(r)'
  BY ClosedStays
<1>4. QED BY <1>1, <1>2, <1>3 DEF AskedOneByOne

(* It holds before the first step.                                            *)
LEMMA InitAsked == Init => AskedOneByOne
<1> SUFFICES ASSUME Init PROVE AskedOneByOne
  OBVIOUS
<1>1. Ownership
  BY InitOwnership
<1>2. ASSUME NEW r \in Runs
      PROVE  DOMAIN requests[r] = {}
  <2>1. requests[r] = <<>> /\ requests[r] \in Seq(Request)
    BY <1>1 DEF Init, InterruptsInit, Ownership, Shape, TypeOK, InterruptsTypeOK
  <2>2. Len(requests[r]) = 0
    BY <2>1
  <2>3. QED BY <2>1, <2>2, LenProperties
<1>3. \A c \in Calls : pc[c] = "idle"
  BY DEF Init
<1>4. QED BY <1>1, <1>2, <1>3 DEF AskedOneByOne, KnowsOpen, NoneOpen, Open, Drives

(* One open request at most is within any limit that lets one be asked.        *)
LEMMA OneIsFew ==
  ASSUME AskedOneByOne
  PROVE  PendingBounded
<1> SUFFICES ASSUME NEW r \in Runs
             PROVE  Cardinality(PendingAt(r, None)) <= MaxPending
  BY DEF PendingBounded
<1>1. \A i \in PendingAt(r, None) : Open(r, i) /\ i \in DOMAIN requests[r]
  BY DEF PendingAt, IsPending, Open
<1>2. CASE PendingAt(r, None) = {}
  BY <1>2, FS_EmptySet, RuntimeConstants
<1>3. ASSUME NEW i \in PendingAt(r, None)
      PROVE  Cardinality(PendingAt(r, None)) <= MaxPending
  <2>1. MaxPending > 0 /\ OnlyOpen(r, i)
    BY <1>1, <1>3 DEF AskedOneByOne
  <2>2. PendingAt(r, None) = {i}
    BY <1>1, <1>3, <2>1 DEF OnlyOpen
  <2>3. Cardinality(PendingAt(r, None)) = 1
    BY <2>2, FS_Singleton
  <2>4. QED BY <2>1, <2>3, RuntimeConstants
<1>4. QED BY <1>2, <1>3

(* interrupt_max_pending bounds the open requests of a run, though the check    *)
(* counts those of the run's present version only: in one process a run asks    *)
(* again only when the request it asked before was answered or has expired.    *)
THEOREM OpenRequestsAreFew ==
  ASSUME OneProcess, AtomicResume, ReliableStore, AtomicSync
  PROVE  Spec => []PendingBounded
<1>1. AskedOneByOne /\ [Next]_vars => AskedOneByOne'
  BY NextKeepsOwnership, NextKeepsAsked DEF AskedOneByOne
<1>2. AskedOneByOne => PendingBounded
  BY OneIsFew
<1>3. QED
  BY <1>1, <1>2, InitAsked, PTL DEF Spec

-----------------------------------------------------------------------------
(* WaitingRunIsResumable: a single process is never behind its store.          *)

(* Whether or not the store takes it, an object as new as the store stays so.   *)
LEMMA PersistDates ==
  ASSUME TypeOK, NEW c \in Calls, NEW o \in Calls, NEW s \in RunState, s.run \in Runs,
         s.epoch = state[s.run].epoch, NEW label, Persist(c, o, s, label)
  PROVE  heap'[o].epoch = state'[s.run].epoch
<1> DEFINE w == Prepared(s)
<1>1. /\ w \in RunState /\ w.run = s.run /\ w.epoch = s.epoch /\ w.ckpt = 0
      /\ heap \in [Calls -> RunState] /\ state \in [Runs -> RunState]
  BY DEF Prepared, RunState, TypeOK, StoreTypeOK
<1>2. CASE Put(w) /\ heap' = [heap EXCEPT ![o] = Stamped(w)]
  <2>1. state'[s.run] = Stamped(w) /\ heap'[o] = Stamped(w)
    BY <1>1, <1>2 DEF Put
  <2>2. QED BY <2>1
<1>3. CASE UNCHANGED storeVars /\ heap' = [heap EXCEPT ![o] = w]
  BY <1>1, <1>3 DEF storeVars
<1>4. QED BY <1>2, <1>3 DEF Persist

(* The work of a call changes what is stored of its run only, and leaves its    *)
(* object as new as that.                                                    *)
LEMMA WorkDates ==
  ASSUME Shape, ReliableStore, NEW c \in Calls, Proceed(c), ~Loaded(c)
  PROVE  /\ \A r \in Runs : r # RunOf(c) => state'[r] = state[r]
         /\ UpToDate(ref[c]) => heap'[ref[c]].epoch = state'[RunOf(c)].epoch
<1>1. /\ TypeOK /\ Working(c) /\ ref[c] \in Calls /\ RunOf(c) \in Runs
      /\ RunOf(c) = heap[ref[c]].run /\ Object(c) = heap[ref[c]]
      /\ state \in [Runs -> RunState]
  BY ProceedIsWorkStep, ObjectType DEF WorkStep, Shape, TypeOK, StoreTypeOK, Object
<1>2. CASE Puts(c)
  <2>1. PICK s \in RunState, label \in DOMAIN InPut : MadeFrom(c, s) /\ Persist(c, ref[c], s, label)
    BY <1>2 DEF Puts
  <2>2. Prepared(s).run = RunOf(c)
    BY <2>1 DEF Prepared, MadeFrom, RunState
  <2>3. \A r \in Runs : r # RunOf(c) => state'[r] = state[r]
    BY <1>1, <2>1, <2>2 DEF Persist, Put, storeVars
  <2>4. UpToDate(ref[c]) => heap'[ref[c]].epoch = state'[RunOf(c)].epoch
    BY <1>1, <2>1, PersistDates DEF MadeFrom, UpToDate
  <2>5. QED BY <2>3, <2>4
<1>3. CASE Spares(c)
  BY <1>1, <1>3 DEF Spares, SameObject, UpToDate
<1>4. QED BY <1>2, <1>3, WorkPuts, PutsAtOnce DEF ReliableStore

(* While a call loads its run, no other call of its process does anything.     *)
LEMMA NobodyLoads ==
  ASSUME Ownership, ReliableStore, OneProcess, AtomicLoad,
         NEW c \in Calls, Start(c) \/ Proceed(c), NEW d \in Calls, d # c
  PROVE  pc[d] # "loading" /\ pc'[d] # "loading"
<1>1. pc'[d] = pc[d] /\ MayRun(c)
  BY StepsAtHome
<1>2. pc[d] # "loading"
  BY <1>1 DEF MayRun, OneProcess, Live, AtomicLoad
<1>3. QED BY <1>1, <1>2

(* A cached object is of its run, and of a call of the process.               *)
LEMMA CachedFacts ==
  ASSUME Ownership, OneProcess, NEW p \in Procs, NEW r \in Runs, cache[p][r] # None
  PROVE  /\ cache[p][r] \in Calls
         /\ heap[cache[p][r]].run = r
         /\ \A c \in Calls : ProcOf[c] = p
BY DEF Ownership, Shape, TypeOK, ObjectsHaveRuns, OwnProcess, OneProcess

(* What a call does once it works leaves the cache current.                    *)
LEMMA WorkKeepsCurrent ==
  ASSUME ReliableStore, OneProcess, AtomicLoad, CachesAreCurrent, Ownership',
         NEW c \in Calls, Proceed(c), ~Loaded(c)
  PROVE  CachesAreCurrent'
<1>1. Ownership /\ Shape
  BY DEF CachesAreCurrent, Ownership
<1>2. WorkStep(c) /\ Working(c) /\ ref' = ref
  BY <1>1, ProceedIsWorkStep DEF WorkStep
<1>3. /\ ref[c] \in Calls /\ RunOf(c) \in Runs /\ RunOf(c) = heap[ref[c]].run
      /\ ref \in [Calls -> Calls]
  BY <1>1, <1>2, ObjectType DEF Object, Shape, TypeOK
<1>4. ProcOf[c] \in Procs /\ ref[c] # None /\ cache[ProcOf[c]][RunOf(c)] = ref[c]
  BY <1>2, <1>3, RuntimeConstants, NoneIsNoName DEF CachesAreCurrent, Calls
<1>5. \A d \in Calls : RunOf(d)' = RunOf(d)
  BY <1>1, <1>2, WorkRuns
<1>6. \A p \in Procs, r \in Runs : cache'[p][r] = cache[p][r]
  <2>1. SUFFICES ASSUME NEW p \in Procs, NEW r \in Runs, cache'[p][r] # cache[p][r]
                 PROVE  FALSE
    OBVIOUS
  <2>2. r = RunOf(c) /\ cache'[p][r] = ref[c]
    BY <1>2, <2>1 DEF WorkStep
  <2>3. ProcOf[ref[c]] = p
    BY <1>1, <1>3, <1>4, <2>1, <2>2 DEF Ownership, OwnProcess
  <2>4. p = ProcOf[c]
    BY <1>3, <2>3 DEF OneProcess
  <2>5. QED BY <1>4, <2>1, <2>2, <2>4
<1>7. ASSUME NEW p \in Procs, NEW r \in Runs, cache[p][r] # None
      PROVE  UpToDate(cache[p][r])'
  <2>1. PICK o \in Calls : o = cache[p][r]
    BY <1>1, <1>7, CachedFacts
  <2>2. heap[o].run = r /\ p = ProcOf[c] /\ UpToDate(o)
    BY <1>1, <1>7, <2>1, CachedFacts DEF CachesAreCurrent
  <2>3. CASE o = ref[c]
    <3>1. heap'[o].run = RunOf(c) /\ heap'[o].epoch = state'[RunOf(c)].epoch
      BY <1>1, <1>2, <1>3, <1>4, <2>2, <2>3, WorkDates DEF WorkStep
    <3>2. UpToDate(o)'
      BY <3>1 DEF UpToDate
    <3>3. QED BY <1>6, <2>1, <3>2 DEF UpToDate
  <2>4. CASE o # ref[c]
    <3>1. r # RunOf(c)
      BY <1>4, <2>1, <2>2, <2>4
    <3>2. heap'[o] = heap[o] /\ state'[r] = state[r]
      BY <1>1, <1>2, <1>3, <1>4, <2>4, <3>1, WorkDates DEF WorkStep
    <3>3. UpToDate(o)'
      BY <2>2, <3>2 DEF UpToDate
    <3>4. QED BY <1>6, <2>1, <3>3 DEF UpToDate
  <2>5. QED BY <2>3, <2>4
<1>8. ASSUME NEW d \in Calls, Working(d)'
      PROVE  cache[ProcOf[d]][RunOf(d)] = ref[d] /\ RunOf(d) \in Runs /\ ProcOf[d] \in Procs
  <2>1. d = c \/ pc'[d] = pc[d]
    BY <1>2 DEF WorkStep
  <2>2. Working(d)
    BY <1>2, <1>8, <2>1 DEF Working, Live, Fresh
  <2>3. QED
    BY <1>1, <2>2, ObjectType, RuntimeConstants DEF CachesAreCurrent
<1>9. \A d \in Calls : pc'[d] # "loading"
  BY <1>1, <1>2, NobodyLoads DEF WorkStep
<1>10. \A p \in Procs, r \in Runs : cache'[p][r] # None => UpToDate(cache[p][r])'
  BY <1>6, <1>7
<1>11. \A d \in Calls : Working(d)' => cache'[ProcOf[d]][RunOf(d)'] = ref'[d]
  BY <1>2, <1>5, <1>6, <1>8
<1>12. QED BY <1>9, <1>10, <1>11 DEF CachesAreCurrent

(* A call that creates its run caches the object it put.                       *)
LEMMA CreatingKeepsCurrent ==
  ASSUME ReliableStore, OneProcess, AtomicLoad, CachesAreCurrent, Ownership',
         NEW c \in Calls,
         \/ \E t \in Threads : RunWorkflow(c, t)
         \/ \E k \in DOMAIN checkpoints : ResumeFromCheckpoint(c, k)
  PROVE  CachesAreCurrent'
<1>1. /\ Ownership /\ Shape /\ heap \in [Calls -> RunState] /\ ref \in [Calls -> Calls]
      /\ pc \in [Calls -> PC] /\ state \in [Runs -> RunState]
      /\ cache \in [Procs -> [Runs -> Calls \cup {None}]]
  BY DEF CachesAreCurrent, Ownership, Shape, TypeOK, StoreTypeOK
<1>2. /\ pc[c] = "idle" /\ c \in Runs /\ OthersStay(c)
      /\ pc'[c] = "registering" /\ RunOf(c)' = c
  BY <1>1, CreatingStores
<1>3. PICK w \in RunState : /\ state' = [state EXCEPT ![c] = w]
                            /\ heap' = [heap EXCEPT ![c] = w]
  BY <1>1, CreatingStores
<1>4. ref' = ref /\ cache' = [cache EXCEPT ![ProcOf[c]] = [@ EXCEPT ![c] = c]]
  <2>1. ASSUME NEW s \in RunState, s.run = c, Persist(c, c, s, "registering")
        PROVE  cache' = [cache EXCEPT ![ProcOf[c]] = [@ EXCEPT ![c] = c]]
    BY <2>1 DEF Persist
  <2>2. \A t \in Threads : NewRun(c, t) \in RunState /\ NewRun(c, t).run = c
    BY RuntimeConstants DEF NewRun, NoState, RunState, Status, Calls
  <2>3. ASSUME NEW k \in DOMAIN checkpoints
        PROVE  Restored(c, k) \in RunState /\ Restored(c, k).run = c
    <3>1. checkpoints[k] \in RunState
      BY <1>1, ElementOfSeq, LenProperties DEF Shape, TypeOK, StoreTypeOK
    <3>2. QED BY <3>1 DEF Restored, RunState, Status, Calls
  <2>4. QED BY <2>1, <2>2, <2>3 DEF RunWorkflow, ResumeFromCheckpoint
<1>5. Start(c) /\ ref[c] = c /\ ProcOf[c] \in Procs
  BY <1>1, <1>2, RuntimeConstants DEF Start, Shape, FreshIsPrivate, Fresh
<1>6. heap'[c].run = c /\ UpToDate(c)'
  <2>1. heap'[c] = w /\ state'[c] = w
    BY <1>1, <1>2, <1>3
  <2>2. heap'[c].run = c
    BY <1>2, <1>4, <1>5 DEF RunOf, Object
  <2>3. QED BY <2>1, <2>2 DEF UpToDate
<1>7. ASSUME NEW p \in Procs, NEW r \in Runs, cache'[p][r] # None
      PROVE  UpToDate(cache[p][r])'
  <2>1. CASE p = ProcOf[c] /\ r = c
    <3>1. cache'[p][r] = c
      BY <1>1, <1>2, <1>4, <2>1
    <3>2. QED BY <1>6, <3>1 DEF UpToDate
  <2>2. CASE ~(p = ProcOf[c] /\ r = c)
    <3>1. cache'[p][r] = cache[p][r]
      BY <1>1, <1>4, <2>2
    <3>2. PICK o \in Calls : o = cache[p][r]
      BY <1>1, <1>7, <3>1, CachedFacts
    <3>3. heap[o].run = r /\ UpToDate(o) /\ p = ProcOf[c]
      BY <1>1, <1>7, <3>1, <3>2, CachedFacts DEF CachesAreCurrent
    <3>4. o # c /\ r # c
      BY <1>2, <1>7, <2>2, <3>1, <3>2, <3>3
         DEF CachesAreCurrent, Ownership, Shape, FreshIsPrivate, Fresh
    <3>5. heap'[o] = heap[o] /\ state'[r] = state[r]
      BY <1>1, <1>3, <3>4
    <3>6. UpToDate(o)'
      BY <3>3, <3>5 DEF UpToDate
    <3>7. QED BY <3>1, <3>2, <3>6 DEF UpToDate
  <2>3. QED BY <2>1, <2>2
<1>8. ASSUME NEW d \in Calls, Working(d)'
      PROVE  cache'[ProcOf[d]][RunOf(d)'] = ref'[d]
  <2>1. CASE d = c
    BY <1>1, <1>2, <1>4, <1>5, <2>1
  <2>2. CASE d # c
    <3>1. Working(d) /\ RunOf(d)' = RunOf(d)
      BY <1>2, <1>8, <2>2 DEF OthersStay, Working, Live, Fresh
    <3>2. RunOf(d) \in Runs /\ ProcOf[d] \in Procs /\ pc[RunOf(d)] # "idle"
      BY <1>1, <3>1, HolderFacts, RuntimeConstants
    <3>3. cache'[ProcOf[d]][RunOf(d)] = cache[ProcOf[d]][RunOf(d)]
      BY <1>1, <1>2, <1>4, <3>2
    <3>4. QED BY <1>4, <3>1, <3>3 DEF CachesAreCurrent
  <2>3. QED BY <2>1, <2>2
<1>9. \A d \in Calls : pc'[d] # "loading"
  BY <1>1, <1>2, <1>5, NobodyLoads
<1>10. QED BY <1>7, <1>8, <1>9 DEF CachesAreCurrent

(* A call that starts to resume works on what is cached, or loads what is not.  *)
LEMMA ResumingKeepsCurrent ==
  ASSUME ReliableStore, OneProcess, AtomicLoad, CachesAreCurrent, Ownership',
         NEW c \in Calls, NEW r \in Runs, ResumeWorkflow(c, r)
  PROVE  CachesAreCurrent'
<1>1. /\ Ownership /\ Shape /\ heap \in [Calls -> RunState] /\ ref \in [Calls -> Calls]
      /\ pc \in [Calls -> PC] /\ state \in [Runs -> RunState]
      /\ cache \in [Procs -> [Runs -> Calls \cup {None}]]
      /\ ProcOf[c] \in Procs
  BY RuntimeConstants DEF CachesAreCurrent, Ownership, Shape, TypeOK, StoreTypeOK
<1>2. /\ pc[c] = "idle" /\ OthersStay(c) /\ state' = state /\ Fresh(c) /\ Start(c)
      /\ \A d \in Calls \ {c} : ref'[d] = ref[d] /\ ref[d] # c
  BY <1>1, ResumingStays, ResumingObjects
     DEF ResumeWorkflow, At, storeVars, Start, Shape, FreshIsPrivate
<1>3. ASSUME NEW d \in Calls, d # c, Working(d)'
      PROVE  Working(d) /\ RunOf(d)' = RunOf(d) /\ ref'[d] = ref[d]
             /\ cache[ProcOf[d]][RunOf(d)] = ref[d]
  BY <1>2, <1>3 DEF OthersStay, Working, Live, Fresh, CachesAreCurrent
<1>4. \A d \in Calls : d # c => pc'[d] # "loading"
  BY <1>1, <1>2, NobodyLoads
<1>5. PICK l : ResumeCached(c, r, l) \/ ResumeLoading(c, r, l)
  BY DEF ResumeWorkflow
<1>6. CASE ResumeCached(c, r, l)
  <2>1. PICK o \in Calls : /\ o = cache[ProcOf[c]][r] /\ Dispatch(c, o, l)
                           /\ cache[ProcOf[c]][r] # None
    BY <1>1, <1>6, CachedFacts DEF ResumeCached
  <2>2. /\ \A x \in Calls : SameObject(x)
        /\ pc'[c] # "loading" /\ ref'[c] = o /\ heap[o].run = r
    <3>1. /\ \A x \in Calls : SameObject(x)
          /\ \E label \in {"granting", "rejecting", "resolving", "done"} : Goto(c, label)
      BY <1>1, <2>1, DispatchSpares
    <3>2. pc'[c] # "loading"
      BY <1>1, <3>1 DEF Goto
    <3>3. ref'[c] = o
      BY <1>1, <2>1 DEF Dispatch
    <3>4. heap[o].run = r
      BY <1>1, <2>1, CachedFacts
    <3>5. QED BY <3>1, <3>2, <3>3, <3>4
  <2>3. \A x \in Calls : UpToDate(x) => UpToDate(x)'
    BY <1>2, <2>2 DEF SameObject, UpToDate
  <2>4. cache' = cache
    BY <1>6 DEF ResumeCached
  <2>5. ASSUME NEW p \in Procs, NEW x \in Runs, cache[p][x] # None
        PROVE  UpToDate(cache[p][x])'
    <3>1. PICK y \in Calls : y = cache[p][x] /\ UpToDate(y)
      BY <1>1, <2>5, CachedFacts DEF CachesAreCurrent
    <3>2. UpToDate(y)'
      BY <2>3, <3>1
    <3>3. QED BY <2>4, <3>1, <3>2 DEF UpToDate
  <2>6. RunOf(c)' = r
    BY <2>2 DEF RunOf, Object, SameObject
  <2>7. \A d \in Calls : Working(d)' => cache'[ProcOf[d]][RunOf(d)'] = ref'[d]
    BY <1>3, <2>1, <2>2, <2>4, <2>6
  <2>8. QED BY <1>4, <2>2, <2>4, <2>5, <2>7 DEF CachesAreCurrent
<1>7. CASE ResumeLoading(c, r, l)
  <2>1. /\ cache' = cache /\ cache[ProcOf[c]][r] = None /\ Stored(r)
        /\ heap' = [heap EXCEPT ![c] = state[r]] /\ pc'[c] = "loading"
    BY <1>1, <1>7 DEF ResumeLoading, Goto
  <2>2. heap'[c] = state[r] /\ state[r].run = r
    BY <1>1, <2>1 DEF Shape, ObjectsHaveRuns
  <2>3. UpToDate(c)' /\ heap'[c].run = r
    BY <1>2, <2>2 DEF UpToDate
  <2>4. ASSUME NEW p \in Procs, NEW x \in Runs, cache[p][x] # None
        PROVE  UpToDate(cache[p][x])'
    <3>1. PICK y \in Calls : y = cache[p][x] /\ UpToDate(y)
      BY <1>1, <2>4, CachedFacts DEF CachesAreCurrent
    <3>2. y # c
      BY <1>2, <2>4, <3>1 DEF CachesAreCurrent, Ownership, Shape, FreshIsPrivate
    <3>3. heap'[y] = heap[y]
      BY <1>1, <2>1, <3>2
    <3>4. UpToDate(y)'
      BY <1>2, <3>1, <3>3 DEF UpToDate
    <3>5. QED BY <2>1, <3>1, <3>4 DEF UpToDate
  <2>5. \A d \in Calls : Working(d)' => cache'[ProcOf[d]][RunOf(d)'] = ref'[d]
    BY <1>3, <2>1 DEF Working, Live, Fresh
  <2>6. \A d \in Calls : pc'[d] = "loading" =>
          UpToDate(d)' /\ cache'[ProcOf[d]][heap'[d].run] = None
    BY <1>4, <2>1, <2>3
  <2>7. QED BY <2>1, <2>4, <2>5, <2>6 DEF CachesAreCurrent
<1>8. QED BY <1>5, <1>6, <1>7

(* A call that has loaded its run caches it: nobody else has.                  *)
LEMMA LoadedKeepsCurrent ==
  ASSUME ReliableStore, OneProcess, AtomicLoad, CachesAreCurrent, Ownership',
         NEW c \in Calls, Loaded(c)
  PROVE  CachesAreCurrent'
<1>1. /\ Ownership /\ Shape /\ heap \in [Calls -> RunState] /\ ref \in [Calls -> Calls]
      /\ pc \in [Calls -> PC] /\ state \in [Runs -> RunState]
      /\ cache \in [Procs -> [Runs -> Calls \cup {None}]]
      /\ ProcOf[c] \in Procs
  BY RuntimeConstants DEF CachesAreCurrent, Ownership, Shape, TypeOK, StoreTypeOK
<1>2. /\ pc[c] = "loading" /\ OthersStay(c) /\ state' = state /\ Proceed(c)
      /\ \A d \in Calls \ {c} : ref'[d] = ref[d]
  BY <1>1, ResumingStays, ResumingObjects DEF Loaded, At, storeVars, Proceed, Resuming
<1>3. PICK r \in Runs : r = heap[c].run
  BY <1>1, <1>2 DEF Shape, ObjectsHaveRuns
<1>4. UpToDate(c) /\ cache[ProcOf[c]][r] = None
  BY <1>2, <1>3 DEF CachesAreCurrent
<1>5. /\ cache' = [cache EXCEPT ![ProcOf[c]] = [@ EXCEPT ![r] = c]]
      /\ Dispatch(c, c, local[c])
  BY <1>3 DEF Loaded
<1>6. /\ \A x \in Calls : SameObject(x)
      /\ \E label \in {"granting", "rejecting", "resolving", "done"} : Goto(c, label)
  BY <1>1, <1>5, DispatchSpares
<1>7. pc'[c] # "loading" /\ ref'[c] = c
  BY <1>1, <1>5, <1>6 DEF Goto, Dispatch
<1>8. \A d \in Calls : pc'[d] # "loading"
  BY <1>1, <1>2, <1>7, NobodyLoads
<1>9. \A x \in Calls : UpToDate(x) => UpToDate(x)'
  BY <1>2, <1>6 DEF SameObject, UpToDate
<1>10. ASSUME NEW p \in Procs, NEW x \in Runs
       PROVE  cache'[p][x] = IF p = ProcOf[c] /\ x = r THEN c ELSE cache[p][x]
  BY <1>1, <1>5
<1>11. ASSUME NEW p \in Procs, NEW x \in Runs, cache'[p][x] # None
       PROVE  UpToDate(cache[p][x])'
  <2>1. PICK y \in Calls : y = cache'[p][x] /\ UpToDate(y)
    BY <1>1, <1>4, <1>10, <1>11, CachedFacts DEF CachesAreCurrent
  <2>2. UpToDate(y)'
    BY <1>9, <2>1
  <2>3. QED BY <2>1, <2>2 DEF UpToDate
<1>12. ASSUME NEW d \in Calls, Working(d)'
       PROVE  cache'[ProcOf[d]][RunOf(d)'] = ref'[d]
  <2>1. CASE d = c
    <3>1. RunOf(c)' = r
      BY <1>3, <1>6, <1>7 DEF RunOf, Object, SameObject
    <3>2. QED BY <1>1, <1>3, <1>7, <1>10, <2>1, <3>1
  <2>2. CASE d # c
    <3>1. Working(d) /\ RunOf(d)' = RunOf(d) /\ ref'[d] = ref[d]
      BY <1>2, <1>12, <2>2 DEF OthersStay, Working, Live, Fresh
    <3>2. /\ cache[ProcOf[d]][RunOf(d)] = ref[d] /\ RunOf(d) \in Runs
          /\ ProcOf[d] \in Procs /\ ProcOf[d] = ProcOf[c] /\ ref[d] # None
      BY <1>1, <3>1, ObjectType, RuntimeConstants, NoneIsNoName
         DEF CachesAreCurrent, OneProcess, Calls
    <3>3. RunOf(d) # r
      BY <1>4, <3>2
    <3>4. QED BY <1>10, <3>1, <3>2, <3>3
  <2>3. QED BY <2>1, <2>2
<1>13. QED BY <1>8, <1>11, <1>12 DEF CachesAreCurrent

(* A crash empties the cache and ends the calls; nothing else touches either.   *)
LEMMA EnvironmentKeepsCurrent ==
  ASSUME OneProcess, CachesAreCurrent, Ownership', Environment \/ UNCHANGED vars
  PROVE  CachesAreCurrent'
<1>1. /\ Ownership /\ Shape /\ pc \in [Calls -> PC]
      /\ cache \in [Procs -> [Runs -> Calls \cup {None}]]
      /\ \A c \in Calls : ProcOf[c] \in Procs
  BY RuntimeConstants DEF CachesAreCurrent, Ownership, Shape, TypeOK
<1>2. /\ state' = state /\ heap' = heap /\ ref' = ref
      /\ \A o : UpToDate(o)' = UpToDate(o)
      /\ \A c \in Calls : RunOf(c)' = RunOf(c)
  BY DEF Environment, Crash, ExpireRequest, ListPendingInterrupts, vars,
         runtimeVars, storeVars, UpToDate, RunOf, Object
<1>3. CASE UNCHANGED <<pc, cache>>
  BY <1>2, <1>3 DEF CachesAreCurrent, Working, Live, Fresh, UpToDate
<1>4. ASSUME NEW q \in Procs, Crash(q)
      PROVE  CachesAreCurrent'
  <2>1. /\ \A p \in Procs, r \in Runs : cache'[p][r] = IF p = q THEN None ELSE cache[p][r]
        /\ \A c \in Calls : pc'[c] = IF ProcOf[c] = q /\ Live(c) THEN "crashed" ELSE pc[c]
    BY <1>1, <1>4 DEF Crash
  <2>2. ASSUME NEW c \in Calls, Working(c)'
        PROVE  /\ cache'[ProcOf[c]][RunOf(c)'] = ref'[c]
    <3>1. Working(c) /\ ProcOf[c] # q
      BY <2>1, <2>2 DEF Working, Live, Fresh
    <3>2. RunOf(c) \in Runs
      BY <1>1, <3>1, ObjectType
    <3>3. QED BY <1>1, <1>2, <2>1, <3>1, <3>2 DEF CachesAreCurrent
  <2>3. ASSUME NEW c \in Calls, pc'[c] = "loading"
        PROVE  UpToDate(c)' /\ cache'[ProcOf[c]][heap'[c].run] = None
    <3>1. pc[c] = "loading" /\ heap[c].run \in Runs
      BY <1>1, <2>1, <2>3 DEF Shape, ObjectsHaveRuns
    <3>2. QED BY <1>1, <1>2, <2>1, <3>1 DEF CachesAreCurrent
  <2>4. ASSUME NEW p \in Procs, NEW r \in Runs, cache'[p][r] # None
        PROVE  UpToDate(cache[p][r])'
    <3>1. cache'[p][r] = cache[p][r] /\ UpToDate(cache[p][r])
      BY <2>1, <2>4 DEF CachesAreCurrent
    <3>2. QED BY <1>2, <3>1 DEF UpToDate
  <2>5. QED BY <2>2, <2>3, <2>4 DEF CachesAreCurrent
<1>5. QED
  BY <1>3, <1>4 DEF Environment, ExpireRequest, ListPendingInterrupts, vars, runtimeVars

(* Any step.                                                                  *)
LEMMA NextKeepsCurrent ==
  ASSUME ReliableStore, OneProcess, AtomicLoad, CachesAreCurrent, Ownership',
         [Next]_vars
  PROVE  CachesAreCurrent'
<1>1. ASSUME NEW c \in Calls, Start(c)
      PROVE  CachesAreCurrent'
  BY <1>1, CreatingKeepsCurrent, ResumingKeepsCurrent DEF Start
<1>2. ASSUME NEW c \in Calls, Proceed(c)
      PROVE  CachesAreCurrent'
  BY <1>2, WorkKeepsCurrent, LoadedKeepsCurrent
<1>3. QED BY <1>1, <1>2, EnvironmentKeepsCurrent DEF Next

(* It holds before the first step.                                            *)
LEMMA InitCurrent == Init => CachesAreCurrent
<1> SUFFICES ASSUME Init PROVE CachesAreCurrent
  OBVIOUS
<1>1. Ownership
  BY InitOwnership
<1>2. /\ \A c \in Calls : pc[c] = "idle"
      /\ \A p \in Procs, r \in Runs : cache[p][r] = None
  BY DEF Init
<1>3. QED BY <1>1, <1>2 DEF CachesAreCurrent, Working, Live

(* What is cached of a run at rest is what is stored of it.                    *)
LEMMA CurrentAtRest ==
  ASSUME OneProcess, CachesAreCurrent
  PROVE  WaitingRunIsResumable
<1> SUFFICES ASSUME NEW p \in Procs, NEW r \in Runs, Idle(r), cache[p][r] # None,
                    state[r].status \in {"WAITING_APPROVAL", "WAITING_INTERRUPT"},
                    NEW o, o = cache[p][r]
             PROVE  heap[o].status = state[r].status /\ heap[o].epoch = state[r].epoch
  BY DEF WaitingRunIsResumable
<1>1. Ownership
  BY DEF CachesAreCurrent
<1>2. o \in Calls /\ heap[o].run = r /\ ProcOf[o] = p
  BY <1>1, CachedFacts
<1>3. heap[o].epoch = state[r].epoch
  BY <1>2 DEF CachesAreCurrent, UpToDate
<1>4. Coherent(o)
  BY <1>1, <1>2 DEF Ownership, ObjectsAreCoherent, InUse
<1>5. ASSUME NEW c \in Calls, pc[c] = "resumed", ref[c] = o
      PROVE  FALSE
  BY <1>2, <1>5 DEF Idle, Live, RunOf, Object
<1>6. QED BY <1>2, <1>3, <1>4, <1>5 DEF Coherent

(* A single process can always be asked to resume a run that waits: what it has *)
(* cached of the run, if anything, is what is stored, in version and in status. *)
THEOREM WaitingRunsAreResumable ==
  ASSUME OneProcess, AtomicResume, AtomicLoad, ReliableStore
  PROVE  Spec => []WaitingRunIsResumable
<1>1. CachesAreCurrent /\ [Next]_vars => CachesAreCurrent'
  BY NextKeepsOwnership, NextKeepsCurrent DEF CachesAreCurrent
<1>2. CachesAreCurrent => WaitingRunIsResumable
  BY CurrentAtRest
<1>3. QED
  BY <1>1, <1>2, InitCurrent, PTL DEF Spec

-----------------------------------------------------------------------------
(* Versions *)

AVersion == [run       : Runs \cup {None},
             thread    : Threads \cup {None},
             status    : Status \cup {"ABSENT"},
             step      : Steps \cup {None},
             approval  : Steps \cup {None},
             resume    : Steps \cup {None},
             approved  : SUBSET Steps,
             completed : SUBSET Steps,
             epoch     : Nat]

(* Version v says what snapshot s says, but for the run and epoch it is of.   *)
Says(v, s) ==
  /\ v.thread = s.thread
  /\ v.status = s.status
  /\ v.step = s.step
  /\ v.approval = s.approval
  /\ v.resume = s.resume
  /\ v.approved = s.approved
  /\ v.completed = s.completed

(* The version of a snapshot has its fields. *)
LEMMA VersionOf ==
  ASSUME NEW s \in RunState
  PROVE  /\ Version(s) \in AVersion
         /\ Version(s).run = s.run
         /\ Version(s).epoch = s.epoch
         /\ Says(Version(s), s)
BY DEF Version, RunState, AVersion, Says

(* Versions are equal when they say the same of the same epoch of one run.    *)
LEMMA SameVersion ==
  ASSUME NEW v \in AVersion, NEW w \in AVersion,
         v.run = w.run, v.epoch = w.epoch, Says(v, w)
  PROVE  v = w
BY DEF AVersion, Says

(* Two snapshots of one version say the same. *)
LEMMA VersionsAgree ==
  ASSUME NEW s \in RunState, NEW t \in RunState, Version(s) = Version(t)
  PROVE  s.run = t.run /\ s.epoch = t.epoch /\ Says(s, t)
BY VersionOf DEF Says

(* A put makes its snapshot the next version of the run. *)
LEMMA PutBecomes ==
  ASSUME StoreTypeOK, NEW s \in RunState, s.run \in Runs, s.ckpt = 0, Put(s),
         NEW v \in AVersion, Says(v, s)
  PROVE  Lifecycle!Becomes(s.run, v)
<1> DEFINE r == s.run
           n == Len(checkpoints)
           k == state'[r]
           w == [v EXCEPT !.run = r, !.epoch = state[r].epoch + 1]
<1>1. /\ n \in Nat
      /\ DOMAIN checkpoints = 1 .. n
      /\ DOMAIN checkpoints' = 1 .. n + 1
      /\ \A i \in 1 .. n : checkpoints'[i] = checkpoints[i]
      /\ checkpoints'[n + 1] = k
      /\ state[r] \in RunState
      /\ PutAs(s)
  BY PutAppends
<1>2. /\ k \in RunState
      /\ k.run = r
      /\ k.epoch = state[r].epoch + 1
      /\ Says(k, s)
      /\ state' = [state EXCEPT ![r] = k]
  BY <1>1 DEF PutAs, CopyOf, Says
<1>3. w \in AVersion /\ w.run = r /\ w.epoch = state[r].epoch + 1 /\ Says(w, s)
  <2>1. state[r].epoch + 1 \in Nat
    BY <1>1 DEF RunState
  <2>2. w \in AVersion /\ w.run = r /\ w.epoch = state[r].epoch + 1
    BY <2>1 DEF AVersion
  <2>3. Says(w, v)
    BY DEF AVersion, Says
  <2>4. QED BY <2>2, <2>3 DEF Says
<1>4. Version(k) = w
  <2>1. /\ Version(k) \in AVersion
        /\ Version(k).run = r
        /\ Version(k).epoch = state[r].epoch + 1
        /\ Says(Version(k), k)
    BY <1>2, VersionOf
  <2>2. Says(Version(k), w)
    BY <1>2, <1>3, <2>1 DEF Says
  <2>3. QED BY <1>3, <2>1, <2>2, SameVersion
<1> HIDE DEF w, k, n
<1>5. [q \in Runs |-> Version(state[q])][r].epoch = state[r].epoch
  BY <1>1, VersionOf DEF r
<1>6. [q \in Runs |-> Version(state'[q])]
        = [[q \in Runs |-> Version(state[q])] EXCEPT ![r] = w]
  <2>1. \A q \in Runs : q # r => state'[q] = state[q]
    BY <1>2 DEF StoreTypeOK
  <2>2. QED BY <1>4, <2>1 DEF k
<1>7. {Version(checkpoints'[i]) : i \in DOMAIN checkpoints'}
        = {Version(checkpoints[i]) : i \in DOMAIN checkpoints} \cup {w}
  <2>1. \A i \in 1 .. n + 1 : i \in 1 .. n \/ i = n + 1
    BY <1>1
  <2>2. 1 .. n \subseteq 1 .. n + 1 /\ n + 1 \in 1 .. n + 1
    BY <1>1
  <2>3. ASSUME NEW x \in {Version(checkpoints'[i]) : i \in DOMAIN checkpoints'}
        PROVE  x \in {Version(checkpoints[i]) : i \in DOMAIN checkpoints} \cup {w}
    BY <1>1, <1>4, <2>1
  <2>4. ASSUME NEW x \in {Version(checkpoints[i]) : i \in DOMAIN checkpoints}
        PROVE  x \in {Version(checkpoints'[i]) : i \in DOMAIN checkpoints'}
    BY <1>1, <2>2
  <2>5. w \in {Version(checkpoints'[i]) : i \in DOMAIN checkpoints'}
    BY <1>1, <1>4, <2>2
  <2>6. QED BY <2>3, <2>4, <2>5
<1>8. QED
  BY <1>5, <1>6, <1>7 DEF Lifecycle!Becomes, w, r

-----------------------------------------------------------------------------
(* Tracks: what a step leaves of it. *)

Versions == {Version(checkpoints[i]) : i \in DOMAIN checkpoints}
VersionsGrow == Versions \subseteq Versions'

(* The calls Tracks says anything about. *)
Tracking(c) == Drives(c) \/ pc[c] \in {"granting", "resumed"}

(* Of a call that drives nothing and has no answer to persist Tracks says     *)
(* nothing, ...                                                               *)
LEMMA NotTracking ==
  ASSUME NEW c, ~Tracking(c)
  PROVE  Tracks(c)
BY DEF Tracks, Tracking, Drives

(* ... nor when a step has ended it. *)
LEMMA NotTrackingNext ==
  ASSUME NEW c, ~Tracking(c)'
  PROVE  Tracks(c)'
BY DEF Tracks, Tracking, Drives

(* No version is forgotten. *)
LEMMA StoreGrows ==
  ASSUME StoreTypeOK, StoreStep
  PROVE  VersionsGrow
<1>1. CASE UNCHANGED <<state, checkpoints>>
  BY <1>1 DEF VersionsGrow, Versions
<1>2. ASSUME NEW s \in RunState, s.run \in Runs, s.ckpt = 0, Put(s)
      PROVE  VersionsGrow
  <2>1. /\ Len(checkpoints) \in Nat
        /\ DOMAIN checkpoints = 1 .. Len(checkpoints)
        /\ DOMAIN checkpoints' = 1 .. Len(checkpoints) + 1
        /\ \A i \in DOMAIN checkpoints : checkpoints'[i] = checkpoints[i]
    BY <1>2, PutAppends
  <2>2. \A i \in DOMAIN checkpoints : i \in DOMAIN checkpoints'
    BY <2>1
  <2>3. QED BY <2>1, <2>2 DEF VersionsGrow, Versions
<1>3. QED BY <1>1, <1>2 DEF StoreStep

(* A run whose step was just recorded. *)
LEMMA JustRecordedIs ==
  ASSUME NEW r \in Runs
  PROVE  Lifecycle!JustRecorded(r) <=>
           \E v \in Versions :
             /\ v.run = r /\ v.epoch + 1 = Now(r).epoch
             /\ Lifecycle!MayExecute(v)
             /\ Now(r) = [Lifecycle!Recorded(v) EXCEPT !.epoch = @ + 1]
BY DEF Lifecycle!JustRecorded, Versions, Now

(* The same of the state after a step. *)
LEMMA JustRecordedIsNext ==
  ASSUME NEW r \in Runs
  PROVE  Lifecycle!JustRecorded(r)' <=>
           \E v \in Versions' :
             /\ v.run = r /\ v.epoch + 1 = Now(r)'.epoch
             /\ Lifecycle!MayExecute(v)
             /\ Now(r)' = [Lifecycle!Recorded(v) EXCEPT !.epoch = @ + 1]
BY DEF Lifecycle!JustRecorded, Versions, Now

(* It stays so while the run does and no version is forgotten. *)
LEMMA JustRecordedStays ==
  ASSUME NEW r \in Runs, Lifecycle!JustRecorded(r), VersionsGrow,
         Now(r)' = Now(r)
  PROVE  Lifecycle!JustRecorded(r)'
BY JustRecordedIs, JustRecordedIsNext DEF VersionsGrow

(* A call that does not move, while the run it drives, if any, stays as it is. *)
LEMMA KeepsTracking ==
  ASSUME NEW d \in Calls, Tracks(d), NEW r \in Runs, r = RunOf(d), VersionsGrow,
         pc'[d] = pc[d], local'[d] = local[d], Object(d)' = Object(d),
         \/ Now(r)' = Now(r)
         \/ ~Drives(d) /\ Held(d).epoch # Now(r)'.epoch
  PROVE  Tracks(d)'
<1>1. RunOf(d)' = r /\ Held(d)' = Held(d) /\ Drives(d)' = Drives(d)
  BY DEF RunOf, Held, Drives
<1>2. CASE Now(r)' = Now(r)
  <2>1. Lifecycle!JustRecorded(r) => Lifecycle!JustRecorded(r)'
    BY <1>2, JustRecordedStays
  <2>2. QED
    BY <1>1, <1>2, <2>1
       DEF Tracks, Lifecycle!Used, Lifecycle!MayExecute, Lifecycle!AtStep
<1>3. CASE ~Drives(d) /\ Held(d).epoch # Now(r)'.epoch
  BY <1>1, <1>3 DEF Tracks, Drives
<1>4. QED BY <1>2, <1>3

-----------------------------------------------------------------------------
(* Steps that put nothing *)

WaitingStatus == {"WAITING_APPROVAL", "WAITING_INTERRUPT"}

(* What a call that tracks a run has. *)
LEMMA TrackerFacts ==
  ASSUME Ownership, NEW d \in Calls, Tracking(d)
  PROVE  /\ Working(d)
         /\ Holds(d)
         /\ ref[d] \in Calls
         /\ RunOf(d) \in Runs
         /\ RunOf(d) = heap[ref[d]].run
         /\ Object(d) = heap[ref[d]]
         /\ heap[ref[d]] \in RunState
         /\ heap[ref[d]].epoch <= state[RunOf(d)].epoch
<1>1. Working(d) /\ Holds(d)
  BY DEF Tracking, Working, Live, Fresh, Drives, Holds, Taking
<1>2. QED
  BY <1>1, HolderFacts DEF Coherent, Object

(* Objects that are not waiting, or that did not change, keep Waits. *)
LEMMA WaitsStays ==
  ASSUME NEW x \in Calls, Waits(x), heap[x] \in RunState, heap'[x] = heap[x],
         state'[heap[x].run] = state[heap[x].run],
         \A d \in Calls : pc[d] = "granting" /\ ref[d] = x =>
           pc'[d] = "granting" /\ ref'[d] = x
  PROVE  Waits(x)'
BY VersionOf DEF Waits, Now

(* Of an object that does not wait, Waits says nothing. *)
LEMMA SettledWaits ==
  ASSUME NEW x \in Calls, heap'[x].status \notin WaitingStatus
  PROVE  Waits(x)'
BY DEF Waits, Version, WaitingStatus

(* A step of one call that leaves the store alone, and of the objects         *)
(* touches at most its own, keeps Tracked if it keeps that call on track.     *)
LEMMA QuietKeepsTracked ==
  ASSUME Tracked, Ownership', NEW c \in Calls, Working(c),
         UNCHANGED <<state, checkpoints, ref, cache>>,
         \A x \in Calls : x # ref[c] => heap'[x] = heap[x],
         \/ heap' = heap
         \/ Holds(c) /\ heap'[ref[c]].status \notin WaitingStatus,
         \A d \in Calls : d # c => pc'[d] = pc[d] /\ local'[d] = local[d],
         pc[c] # "granting",
         Tracks(c)'
  PROVE  Tracked'
<1>1. Ownership /\ ref[c] \in Calls
  BY HolderFacts DEF Tracked
<1>2. Kept'
  BY DEF Tracked, Kept, IsVersion, Stored
<1>3. VersionsGrow
  BY DEF VersionsGrow, Versions
<1>4. ASSUME NEW d \in Calls, d # c
      PROVE  Tracks(d)'
  <2>1. SUFFICES ASSUME Tracking(d) PROVE Tracks(d)'
    BY <1>4, NotTrackingNext DEF Tracking, Drives
  <2>2. PICK r \in Runs : r = RunOf(d)
    BY <1>1, <2>1, TrackerFacts
  <2>3. ref[d] \in Calls /\ (ref[d] # ref[c] \/ heap' = heap)
    BY <1>1, <1>4, <2>1, TrackerFacts DEF Ownership, OneHolderPerObject
  <2>4. Object(d)' = Object(d)
    BY <2>3 DEF Object
  <2>5. Now(r)' = Now(r)
    BY DEF Now
  <2>6. QED
    BY <1>3, <1>4, <2>2, <2>4, <2>5, KeepsTracking DEF Tracked
<1>5. ASSUME NEW x \in Calls, InUse(x)'
      PROVE  Waits(x)'
  <2>1. InUse(x)
    BY <1>5 DEF InUse, Working, Live
  <2>2. CASE heap'[x] = heap[x]
    BY <1>1, <2>1, <2>2, InUseHasRun, WaitsStays DEF Tracked
  <2>3. CASE heap'[x] # heap[x]
    BY <2>3, SettledWaits
  <2>4. QED BY <2>2, <2>3
<1>6. \A r \in Runs : WaitsToMoveOn(r)'
  BY DEF Tracked, WaitsToMoveOn
<1>7. QED
  BY <1>2, <1>4, <1>5, <1>6 DEF Tracked

-----------------------------------------------------------------------------
(* Steps that persist an object *)

(* So does a step that persists an object nobody else tracks, if it leaves a  *)
(* run that waits with what it is to move on from.                            *)
LEMMA StoringKeepsTracked ==
  ASSUME Tracked, Ownership', NEW c \in Calls, NEW o \in Calls, o = ref[c],
         NEW s \in RunState, NEW r \in Runs, s.run = r, Stores(o, s),
         ref' = ref,
         \A d \in Calls : d # c => pc'[d] = pc[d] /\ local'[d] = local[d],
         \A d \in Calls : d # c /\ Tracking(d) => ref[d] # o,
         s.epoch >= state[r].epoch =>
           \A d \in Calls : d # c /\ Drives(d) => RunOf(d) # r,
         \A x \in Calls : InUse(x)' /\ x # o => InUse(x),
         Tracks(c)',
         s.status = "WAITING_INTERRUPT" => s.resume # None,
         s.status = "WAITING_APPROVAL" => s.resume = None
  PROVE  Tracked'
<1> DEFINE w == Prepared(s)
<1>1. /\ Ownership /\ StoreTypeOK
      /\ heap \in [Calls -> RunState]
      /\ state \in [Runs -> RunState]
      /\ state[r].epoch \in Nat /\ s.epoch \in Nat
  BY DEF Tracked, Ownership, Shape, TypeOK, StoreTypeOK, RunState
<1>2. /\ w \in RunState /\ w.run = r /\ w.ckpt = 0 /\ w.epoch = s.epoch
      /\ w.status = s.status /\ w.resume = s.resume
  BY DEF Prepared, RunState
<1>3. StoreStep
  BY <1>2 DEF Stores, StoreStep
<1>4. Kept' /\ VersionsGrow
  BY <1>1, <1>3, StoreStepKeepsKept, StoreGrows DEF Tracked
<1>5. \A x \in Calls : x # o => heap'[x] = heap[x]
  BY <1>1 DEF Stores
<1>6. \/ UNCHANGED state /\ heap'[o] = w /\ s.epoch < state[r].epoch
      \/ /\ s.epoch >= state[r].epoch
         /\ \A q \in Runs : q # r => state'[q] = state[q]
         /\ state'[r] \in RunState
         /\ state'[r].epoch = state[r].epoch + 1
         /\ state'[r].status = s.status
         /\ state'[r].resume = s.resume
         /\ state'[r].run = r
         /\ heap'[o] = state'[r]
  <2>1. CASE Put(w) /\ heap' = [heap EXCEPT ![o] = state'[s.run]]
             /\ s.epoch >= state[s.run].epoch
    <3>1. PutAs(w)
      BY <1>1, <1>2, <2>1, PutAppends
    <3>2. QED BY <1>1, <1>2, <2>1, <3>1 DEF PutAs, CopyOf
  <2>2. CASE s.epoch < state[s.run].epoch /\ heap' = [heap EXCEPT ![o] = w]
             /\ UNCHANGED state
    BY <1>1, <2>2
  <2>3. QED BY <2>1, <2>2 DEF Stores
<1> HIDE DEF w
<1>7. ASSUME NEW d \in Calls, d # c
      PROVE  Tracks(d)'
  <2>1. SUFFICES ASSUME Tracking(d) PROVE Tracks(d)'
    BY <1>7, NotTrackingNext DEF Tracking, Drives
  <2>2. /\ RunOf(d) \in Runs /\ ref[d] \in Calls /\ ref[d] # o
        /\ Object(d) \in RunState
        /\ Object(d).epoch <= state[RunOf(d)].epoch
    BY <1>1, <1>7, <2>1, TrackerFacts
  <2>3. Object(d)' = Object(d)
    BY <1>5, <2>2 DEF Object
  <2>4. PICK q \in Runs : q = RunOf(d)
    BY <2>2
  <2>5. CASE state'[q] = state[q]
    <3>1. Now(q)' = Now(q)
      BY <2>5 DEF Now
    <3>2. QED BY <1>4, <1>7, <2>3, <2>4, <3>1, KeepsTracking DEF Tracked
  <2>6. CASE q = r /\ s.epoch >= state[r].epoch /\ state'[r].epoch = state[r].epoch + 1
             /\ state'[r] \in RunState
    <3>1. ~Drives(d)
      BY <1>7, <2>4, <2>6
    <3>2. Held(d).epoch = Object(d).epoch /\ Now(r)'.epoch = state'[r].epoch
      BY <2>2, <2>6, VersionOf DEF Held, Now
    <3>3. Held(d).epoch # Now(r)'.epoch
      BY <1>1, <2>2, <2>4, <2>6, <3>2 DEF RunState
    <3>4. QED
      BY <1>4, <1>7, <2>3, <2>4, <2>6, <3>1, <3>3, KeepsTracking DEF Tracked
  <2>7. QED BY <1>6, <2>5, <2>6
<1>8. ASSUME NEW x \in Calls, InUse(x)'
      PROVE  Waits(x)'
  <2>1. CASE x # o
    <3>1. InUse(x) /\ heap'[x] = heap[x]
      BY <1>5, <1>8, <2>1
    <3>2. /\ heap[x].run \in Runs /\ heap[x] \in RunState
          /\ heap[x].epoch <= state[heap[x].run].epoch
      BY <1>1, <3>1, InUseHasRun DEF Ownership, ObjectsAreCoherent, Coherent
    <3>3. CASE state'[heap[x].run] = state[heap[x].run]
      <4>1. \A d \in Calls : pc[d] = "granting" /\ ref[d] = x =>
              pc'[d] = "granting" /\ ref'[d] = x
        BY <2>1
      <4>2. QED BY <3>1, <3>2, <3>3, <4>1, WaitsStays DEF Tracked
    <3>4. CASE heap[x].run = r /\ state'[r].epoch = state[r].epoch + 1
               /\ state'[r] \in RunState
      <4>1. heap[x].epoch # state'[r].epoch
        BY <1>1, <3>2, <3>4 DEF RunState
      <4>2. Version(heap[x]).epoch # Now(heap[x].run)'.epoch
        BY <3>1, <3>2, <3>4, <4>1, VersionOf DEF Now
      <4>3. Version(heap[x]).run = heap[x].run
        BY <3>2, VersionOf
      <4>4. QED BY <3>1, <4>2, <4>3 DEF Waits, Now
    <3>5. QED BY <1>6, <3>2, <3>3, <3>4
  <2>2. CASE x = o /\ heap'[o] = state'[r] /\ state'[r].run = r
        /\ state'[r] \in RunState
    <3>1. Version(heap'[o]).run = r
      BY <2>2, VersionOf
    <3>2. QED BY <2>2, <3>1 DEF Waits, Now
  <2>3. CASE x = o /\ heap'[o] = w /\ s.epoch < state[r].epoch /\ UNCHANGED state
    <3>1. /\ Version(w).run = r /\ Version(w).epoch = s.epoch
          /\ Version(state[r]).epoch = state[r].epoch
      BY <1>1, <1>2, VersionOf
    <3>2. QED BY <1>1, <2>3, <3>1 DEF Waits, Now
  <2>4. QED BY <1>6, <2>1, <2>2, <2>3
<1>9. \A q \in Runs : WaitsToMoveOn(q)'
  <2>1. ASSUME NEW q \in Runs, state'[q] = state[q]
        PROVE  WaitsToMoveOn(q)'
    BY <2>1 DEF Tracked, WaitsToMoveOn
  <2>2. ASSUME state'[r].status = s.status, state'[r].resume = s.resume
        PROVE  WaitsToMoveOn(r)'
    BY <2>2 DEF WaitsToMoveOn
  <2>3. QED BY <1>6, <2>1, <2>2
<1>10. QED
  BY <1>4, <1>7, <1>8, <1>9 DEF Tracked

(* The version a call makes of its run, when it is the next one; its put is      *)
(* refused otherwise.                                                       *)
Makes(c, r, v) ==
  \/ UNCHANGED <<state, checkpoints>>
  \/ Object(c).epoch = state[r].epoch /\ Lifecycle!Becomes(r, v)

(* Where a call goes with the version it made. *)
GoesOn(c, r, v, s, label) ==
  /\ label = "advancing" => s.resume = None
  /\ label = "continuing" => s.resume # None
  /\ label = "stepping" =>
       /\ v = Lifecycle!Recorded(Now(r))
       /\ Lifecycle!MayExecute(Now(r))
       /\ local'[c].at = Now(r).step

(* After its put was taken, a call tracks its run. *)
LEMMA TakenTracks ==
  ASSUME Tracked, NEW c \in Calls, NEW r \in Runs,
         NEW s \in RunState, s.run = r,
         NEW w \in RunState, w.ckpt = 0, w.run = r, Put(w), Says(w, s),
         ref[c] \in Calls, ref' = ref, heap'[ref[c]] = state'[r],
         NEW label \in {"advancing", "continuing", "stepping", "done", "clearing",
                        "syncing"},
         pc'[c] = label,
         NEW v \in AVersion, Says(v, s), Lifecycle!Becomes(r, v),
         v.run = r, v.epoch = Now(r).epoch,
         GoesOn(c, r, v, s, label)
  PROVE  Tracks(c)'
<1>1. StoreTypeOK /\ state[r] \in RunState
  BY DEF Tracked, Ownership, Shape, TypeOK, StoreTypeOK
<1>2. PutAs(w)
  BY <1>1, PutAppends
<1>3. /\ state'[r] \in RunState
      /\ state'[r].run = r
      /\ state'[r].resume = s.resume
      /\ state'[r].step = s.step
  BY <1>2 DEF PutAs, CopyOf, Says
<1>4. /\ Object(c)' = state'[r]
      /\ RunOf(c)' = r
      /\ Held(c)' = Now(r)'
  BY <1>3 DEF Object, RunOf, Held, Now
<1>5. Now(r)'.resume = s.resume /\ Now(r)'.step = s.step
  BY <1>3, VersionOf DEF Now, Says
<1>6. CASE label # "stepping"
  BY <1>4, <1>5, <1>6 DEF Tracks, Drives, GoesOn
<1>7. CASE label = "stepping"
  <2>1. /\ v = Lifecycle!Recorded(Now(r))
        /\ Lifecycle!MayExecute(Now(r))
        /\ local'[c].at = Now(r).step
    BY <1>7 DEF GoesOn
  <2>2. Now(r) \in AVersion /\ Now(r).status = state[r].status
        /\ Now(r).run = state[r].run
    BY <1>1, VersionOf DEF Now, Says
  <2>3. Stored(r)
    <3>1. Now(r).status = "RUNNING"
      BY <2>1 DEF Lifecycle!MayExecute, Lifecycle!AtStep
    <3>2. NoState.status = "ABSENT"
      BY DEF NoState
    <3>3. QED BY <2>2, <3>1, <3>2 DEF Stored
  <2>4. Now(r) \in Versions'
    <3>1. StoreStep
      BY DEF StoreStep
    <3>2. state[r].ckpt \in DOMAIN checkpoints /\ checkpoints[state[r].ckpt] = state[r]
      BY <2>3 DEF Tracked, Kept
    <3>3. Now(r) \in Versions
      BY <3>2 DEF Versions, Now
    <3>4. QED BY <1>1, <3>1, <3>3, StoreGrows DEF VersionsGrow
  <2>5. Now(r)' = [v EXCEPT !.run = r, !.epoch = Now(r).epoch + 1]
    BY DEF Lifecycle!Becomes, Now
  <2>6. Now(r)' = [Lifecycle!Recorded(Now(r)) EXCEPT !.epoch = @ + 1]
    BY <2>1, <2>5 DEF AVersion
  <2>7. Now(r).run = r
    BY <2>2, <2>3 DEF Tracked, Ownership, Shape, ObjectsHaveRuns
  <2>8. Now(r).epoch + 1 = Now(r)'.epoch
    BY <2>5 DEF AVersion
  <2>9. Lifecycle!JustRecorded(r)'
    BY <2>1, <2>4, <2>6, <2>7, <2>8, JustRecordedIsNext
  <2>10. Now(r)'.step = Now(r).step
    BY <2>1, <2>2, <2>5 DEF Lifecycle!Recorded, AVersion
  <2>11. QED
    BY <1>4, <1>7, <2>1, <2>9, <2>10 DEF Tracks, Drives
<1>8. QED BY <1>6, <1>7

(* The holder of a run persists its object. *)
LEMMA HolderPersistsTracked ==
  ASSUME Tracked, Ownership', ReliableStore, NEW c \in Calls,
         Tracking(c) \/ pc[c] = "rejecting",
         NEW r \in Runs, r = RunOf(c),
         NEW s \in RunState, s.run = r, s.epoch = Object(c).epoch, Valid(s),
         NEW label \in {"advancing", "continuing", "stepping", "done", "clearing",
                        "syncing"},
         Persist(c, ref[c], s, label),
         ref' = ref, \A d \in Calls : d # c => local'[d] = local[d],
         NEW v, v \in AVersion,
         Object(c).epoch = state[r].epoch =>
           /\ Says(v, s)
           /\ v.run = r /\ v.epoch = Now(r).epoch
           /\ GoesOn(c, r, v, s, label),
         s.status = "WAITING_INTERRUPT" => s.resume # None,
         s.status = "WAITING_APPROVAL" => s.resume = None
  PROVE  Tracked' /\ Makes(c, r, v)
<1> DEFINE o == ref[c]
           w == Prepared(s)
<1>1. /\ Working(c) /\ Holds(c) /\ Ownership /\ TypeOK /\ StoreTypeOK
      /\ label \in DOMAIN InPut /\ AtomicPut
  BY PutLabels DEF Tracking, Working, Live, Fresh, Drives, Holds, Taking, Tracked,
                   Ownership, Shape, TypeOK, ReliableStore
<1>2. /\ o \in Calls /\ InUse(o) /\ heap[o].run = r /\ heap[o] = Object(c)
      /\ heap[o] \in RunState /\ state[r] \in RunState
      /\ s.epoch <= state[r].epoch /\ s.epoch \in Nat /\ state[r].epoch \in Nat
  BY <1>1, HolderFacts DEF Coherent, Object, RunState
<1>3. /\ heap \in [Calls -> RunState]
      /\ w \in RunState /\ w.run = r /\ w.ckpt = 0 /\ Says(w, s)
  BY <1>1 DEF TypeOK, Prepared, RunState, Says
<1>4. Stores(o, s)
  BY <1>1, <1>2, PersistIsStores
<1>5. /\ pc'[c] \in {label, "done"}
      /\ \A d \in Calls : d # c => pc'[d] = pc[d]
      /\ \A p \in Procs, q \in Runs :
           cache'[p][q] = IF p = ProcOf[c] /\ q = r THEN o ELSE cache[p][q]
  BY <1>1, <1>2, PersistFacts, PersistGoes DEF TypeOK
<1>6. Taken(c, o, s, label) \/ Refused(c, o, s)
  BY <1>1, <1>2, PersistOutcome
<1>7. \A d \in Calls : d # c /\ Tracking(d) => ref[d] # o
  BY <1>1, TrackerFacts DEF Ownership, OneHolderPerObject
<1>8. \A x \in Calls : InUse(x)' /\ x # o => InUse(x)
  <2>1. SUFFICES ASSUME NEW x \in Calls, x # o, InUse(x)'
                 PROVE  InUse(x)
    OBVIOUS
  <2>2. ASSUME NEW q \in Runs, cache'[ProcOf[x]][q] = x
        PROVE  InUse(x)
    <3>1. ProcOf[x] \in Procs
      BY RuntimeConstants
    <3>2. QED
      BY <1>5, <2>1, <2>2, <3>1 DEF InUse
  <2>3. ASSUME NEW d \in Calls, Live(d)', ref[d] = x
        PROVE  InUse(x)
    BY <1>5, <2>1, <2>3 DEF InUse, Live
  <2>4. QED
    BY <2>1, <2>2, <2>3 DEF InUse
<1>9. s.epoch >= state[r].epoch =>
        \A d \in Calls : d # c /\ Drives(d) => RunOf(d) # r
  <2>1. SUFFICES ASSUME s.epoch >= state[r].epoch,
                        NEW d \in Calls, d # c, Drives(d)
                 PROVE  RunOf(d) # r
    OBVIOUS
  <2>2. Object(c).epoch = state[RunOf(c)].epoch
    BY <1>2, <2>1
  <2>3. QED BY <1>1, <2>1, <2>2, NoOtherDriver DEF Tracking
<1> HIDE DEF o, w
<1>10. CASE Taken(c, o, s, label)
  <2>1. s.epoch = state[r].epoch /\ pc'[c] = label
    BY <1>2, <1>10 DEF Taken
  <2>2. Put(w) /\ heap'[o] = state'[r]
    BY <1>2, <1>3, <1>4, <2>1 DEF Stores, w
  <2>3. /\ Says(v, s) /\ v.run = r /\ v.epoch = Now(r).epoch
        /\ GoesOn(c, r, v, s, label)
    BY <2>1
  <2>4. Lifecycle!Becomes(r, v)
    <3>1. Says(v, w)
      BY <1>3, <2>3 DEF Says
    <3>2. QED BY <1>1, <1>3, <2>2, <3>1, PutBecomes
  <2>5. Tracks(c)'
    BY <1>2, <1>3, <2>1, <2>2, <2>3, <2>4, TakenTracks DEF o
  <2>6. Tracked'
    BY <1>2, <1>4, <1>5, <1>7, <1>8, <1>9, <2>5, StoringKeepsTracked DEF o
  <2>7. QED BY <2>1, <2>4, <2>6 DEF Makes
<1>11. CASE Refused(c, o, s)
  <2>1. s.epoch < state[r].epoch /\ pc'[c] = "done"
    BY <1>11 DEF Refused
  <2>2. UNCHANGED <<state, checkpoints>>
    BY <1>2, <1>4, <2>1 DEF Stores
  <2>3. Tracks(c)'
    BY <2>1, NotTrackingNext DEF Tracking, Drives
  <2>4. Tracked'
    BY <1>2, <1>4, <1>5, <1>7, <1>8, <1>9, <2>3, StoringKeepsTracked DEF o
  <2>5. QED BY <2>2, <2>4 DEF Makes
<1>12. QED
  BY <1>6, <1>10, <1>11

-----------------------------------------------------------------------------
(* Each action of the engine is a step of the machine, or none. *)

MachineStep(r) ==
  \/ \E t \in Threads : Lifecycle!Begin(r, t)
  \/ Lifecycle!Restore(r) \/ Lifecycle!Launch(r) \/ Lifecycle!AskApproval(r)
  \/ Lifecycle!Record(r) \/ Lifecycle!Transit(r) \/ Lifecycle!Interrupt(r)
  \/ Lifecycle!Complete(r) \/ Lifecycle!Fail(r) \/ Lifecycle!Reject(r)
  \/ Lifecycle!Grant(r) \/ Lifecycle!Refuse(r) \/ Lifecycle!Answer(r)
  \/ Lifecycle!Continue(r)

LifecycleStep == UNCHANGED <<state, checkpoints>> \/ Lifecycle!Next

(* The new version of a run is not the old one. *)
LEMMA BecomesIsNext ==
  ASSUME NEW r \in Runs, state[r] \in RunState, NEW v \in AVersion,
         Lifecycle!Becomes(r, v), MachineStep(r)
  PROVE  Lifecycle!Next
<1> DEFINE now == [q \in Runs |-> Version(state[q])]
           then == [q \in Runs |-> Version(state'[q])]
<1>1. then = [now EXCEPT ![r] = [v EXCEPT !.run = r, !.epoch = now[r].epoch + 1]]
  BY DEF Lifecycle!Becomes
<1>2. now[r].epoch \in Nat
  BY VersionOf DEF RunState
<1>3. then[r] = [v EXCEPT !.run = r, !.epoch = now[r].epoch + 1]
  BY <1>1
<1>4. then[r].epoch = now[r].epoch + 1
  BY <1>3 DEF AVersion
<1>5. now[r] # then[r]
  BY <1>2, <1>4
<1>6. QED
  BY <1>5 DEF Lifecycle!Next, MachineStep

(* Persisting is a step of RunLifecycle, or leaves the store as it was. *)
LEMMA MakesIsLifecycleStep ==
  ASSUME Tracked, NEW c, NEW r \in Runs, NEW v \in AVersion, Makes(c, r, v),
         Object(c).epoch = state[r].epoch /\ Lifecycle!Becomes(r, v) =>
           MachineStep(r)
  PROVE  LifecycleStep
<1>1. state[r] \in RunState
  BY DEF Tracked, Ownership, Shape, TypeOK, StoreTypeOK
<1>2. QED
  BY <1>1, BecomesIsNext DEF Makes, LifecycleStep

(* A call that persists its object says what its run is to become. *)
LEMMA TrackerState ==
  ASSUME Tracked, NEW c \in Calls, Tracking(c) \/ pc[c] = "rejecting"
  PROVE  /\ Ownership
         /\ Object(c) \in RunState
         /\ RunOf(c) \in Runs
         /\ RunOf(c) = Object(c).run
         /\ state[RunOf(c)] \in RunState
         /\ Now(RunOf(c)) \in AVersion
         /\ Now(RunOf(c)).epoch = state[RunOf(c)].epoch
         /\ Now(RunOf(c)).status = state[RunOf(c)].status
         /\ Held(c).epoch = Object(c).epoch
         /\ Held(c).run = RunOf(c)
         /\ Says(Held(c), Object(c))
         /\ Knows(c)
         /\ Tracks(c)
         /\ local[c] \in Local
<1>1. Working(c) /\ Shape /\ Ownership
  BY DEF Tracking, Working, Live, Fresh, Drives, Tracked, Ownership
<1>2. /\ Object(c) \in RunState /\ RunOf(c) \in Runs /\ RunOf(c) = Object(c).run
      /\ local[c] \in Local
  BY <1>1, ObjectType
<1>3. state[RunOf(c)] \in RunState
  BY <1>1, <1>2 DEF Shape, TypeOK, StoreTypeOK
<1>4. QED
  BY <1>1, <1>2, <1>3, VersionOf
     DEF Tracked, Ownership, HoldersKnowTheirRun, Held, Now, Says

(* A call that persists what its run is to become takes a step of the machine. *)
LEMMA HolderSteps ==
  ASSUME Tracked, Ownership', ReliableStore, NEW c \in Calls,
         Tracking(c) \/ pc[c] = "rejecting",
         NEW r \in Runs, r = RunOf(c), NEW e \in Nat, e = Object(c).epoch,
         NEW x \in AVersion, x = Now(r),
         NEW s \in RunState, s.run = r, s.epoch = e, Valid(s),
         NEW label \in {"advancing", "continuing", "stepping", "done", "clearing",
                        "syncing"},
         Persist(c, ref[c], s, label),
         ref' = ref, \A d \in Calls : d # c => local'[d] = local[d],
         NEW v \in AVersion,
         e = x.epoch =>
           /\ Says(v, s)
           /\ v.run = r /\ v.epoch = x.epoch
           /\ GoesOn(c, r, v, s, label)
           /\ Lifecycle!Becomes(r, v) => MachineStep(r),
         s.status = "WAITING_INTERRUPT" => s.resume # None,
         s.status = "WAITING_APPROVAL" => s.resume = None
  PROVE  Tracked' /\ LifecycleStep
<1>1. x.epoch = state[r].epoch
  BY TrackerState
<1>2. Tracked' /\ Makes(c, r, v)
  BY <1>1, HolderPersistsTracked
<1>3. QED
  BY <1>1, <1>2, MakesIsLifecycleStep

(* What a call that drives a run has of it. *)
LEMMA DriverHas ==
  ASSUME Tracked, NEW c \in Calls, Drives(c)
  PROVE  \E r \in Runs, o \in RunState, x \in AVersion :
           /\ r = RunOf(c) /\ o = Object(c) /\ x = Now(r)
           /\ o.run = r /\ x.run = r /\ o.epoch \in Nat /\ o.epoch = x.epoch
           /\ pc[c] # "pausing" => Says(x, o)
           /\ Tracks(c) /\ Knows(c)
<1>1. PICK r \in Runs : r = RunOf(c)
  BY TrackerState DEF Tracking
<1>2. PICK o \in RunState : o = Object(c)
  BY TrackerState DEF Tracking
<1>3. PICK x \in AVersion : x = Now(r)
  BY <1>1, TrackerState DEF Tracking
<1>4. /\ o.run = r /\ Held(c).run = r /\ Held(c).epoch = o.epoch
      /\ Says(Held(c), o) /\ Tracks(c) /\ Knows(c)
  BY <1>1, <1>2, TrackerState DEF Tracking
<1>5. o.epoch \in Nat
  BY DEF RunState
<1>6. Held(c) = IF pc[c] = "pausing" THEN Lifecycle!Used(x) ELSE x
  BY <1>1, <1>3, <1>4 DEF Tracks
<1>7. Lifecycle!Used(x).run = x.run /\ Lifecycle!Used(x).epoch = x.epoch
  BY DEF Lifecycle!Used, AVersion
<1>8. x.run = r /\ x.epoch = o.epoch /\ (pc[c] # "pausing" => Says(x, o))
  BY <1>4, <1>6, <1>7
<1>9. QED
  BY <1>1, <1>2, <1>3, <1>4, <1>5, <1>8

(* A call that drives a run sets the status of its object and persists it. *)
LEMMA StatusTracked ==
  ASSUME Tracked, Ownership', ReliableStore, NEW c \in Calls, Drives(c),
         NEW r \in Runs, r = RunOf(c), NEW e \in Nat, e = Object(c).epoch,
         NEW x \in AVersion, x = Now(r), x.run = r,
         NEW y \in AVersion, y.run = r, y.epoch = x.epoch,
         NEW u \in RunState, u.run = r, u.epoch = e, Says(y, u),
         NEW st \in {"RUNNING", "COMPLETED", "FAILED"},
         NEW label \in {"advancing", "clearing"},
         label = "advancing" => y.resume = None,
         Persist(c, ref[c], [u EXCEPT !.status = st], label),
         ref' = ref, local' = local,
         Lifecycle!Becomes(r, [y EXCEPT !.status = st]) => MachineStep(r)
  PROVE  Tracked' /\ LifecycleStep
<1> DEFINE s == [u EXCEPT !.status = st]
           v == [y EXCEPT !.status = st]
<1>1. st \in Status
  BY DEF Status
<1>2. v \in AVersion /\ v.run = r /\ v.epoch = x.epoch
  BY <1>1 DEF AVersion
<1>3. /\ s \in RunState /\ s.run = r /\ s.epoch = e
      /\ s.status = st /\ s.resume = u.resume
  BY <1>1 DEF RunState
<1>4. Says(v, s)
  BY DEF AVersion, RunState, Says
<1>5. s.resume = y.resume
  BY <1>3 DEF Says
<1>6. Persist(c, ref[c], s, label) /\ (Lifecycle!Becomes(r, v) => MachineStep(r))
  OBVIOUS
<1> HIDE DEF s, v
<1>7. Valid(s) /\ GoesOn(c, r, v, s, label)
  BY <1>3, <1>5 DEF Valid, GoesOn
<1>8. Tracking(c)
  BY DEF Tracking
<1>9. QED
  BY <1>2, <1>3, <1>4, <1>6, <1>7, <1>8, HolderSteps

(* Persisting the object with another status: the run starts, completes or    *)
(* fails.                                                                     *)
LEMMA LaunchTracked ==
  ASSUME Tracked, Ownership', ReliableStore, NEW c \in Calls,
         Launch(c) \/ CompleteRun(c) \/ StepFails(c)
  PROVE  Tracked' /\ LifecycleStep
<1>1. /\ Drives(c) /\ pc[c] # "pausing"
      /\ ref' = ref /\ local' = local
  BY DEF Launch, CompleteRun, StepFails, At, Drives
<1>2. PICK r \in Runs, o \in RunState, x \in AVersion :
           /\ r = RunOf(c) /\ o = Object(c) /\ x = Now(r)
           /\ o.run = r /\ x.run = r /\ o.epoch \in Nat /\ o.epoch = x.epoch
           /\ pc[c] # "pausing" => Says(x, o)
           /\ Tracks(c) /\ Knows(c)
  BY <1>1, DriverHas
<1>3. Says(x, o)
  BY <1>1, <1>2
<1>4. CASE Launch(c)
  <2>1. pc[c] = "launching" /\ Persist(c, ref[c], [o EXCEPT !.status = "RUNNING"], "advancing")
    BY <1>2, <1>4 DEF Launch, At
  <2>2. x.resume = None /\ x.status = "PENDING"
    BY <1>2, <1>3, <2>1 DEF Tracks, Knows, Says
  <2>3. Lifecycle!Becomes(r, [x EXCEPT !.status = "RUNNING"]) => MachineStep(r)
    BY <1>2, <2>2 DEF Lifecycle!Launch, Lifecycle!Is, Now, MachineStep
  <2>4. QED BY <1>1, <1>2, <1>3, <2>1, <2>2, <2>3, StatusTracked
<1>5. CASE CompleteRun(c)
  <2>1. Persist(c, ref[c], [o EXCEPT !.status = "COMPLETED"], "clearing")
        /\ o.status = "RUNNING" /\ o.step = None
    BY <1>2, <1>5 DEF CompleteRun
  <2>2. x.status = "RUNNING" /\ x.step = None
    BY <1>3, <2>1 DEF Says
  <2>3. Lifecycle!Becomes(r, [x EXCEPT !.status = "COMPLETED"]) => MachineStep(r)
    BY <1>2, <2>2 DEF Lifecycle!Complete, Lifecycle!Is, Now, MachineStep
  <2>4. QED BY <1>1, <1>2, <1>3, <2>1, <2>3, StatusTracked
<1>6. CASE StepFails(c)
  <2>1. Persist(c, ref[c], [o EXCEPT !.status = "FAILED"], "clearing")
        /\ pc[c] = "executing"
    BY <1>2, <1>6 DEF StepFails, Fail, At
  <2>2. Lifecycle!MayExecute(x)
    BY <1>2, <2>1 DEF Tracks
  <2>3. Lifecycle!Becomes(r, [x EXCEPT !.status = "FAILED"]) => MachineStep(r)
    BY <1>2, <2>2 DEF Lifecycle!Fail, Now, MachineStep
  <2>4. QED BY <1>1, <1>2, <1>3, <2>1, <2>3, StatusTracked
<1>7. QED BY <1>4, <1>5, <1>6

(* A call that drives a run moves to a resolved transition. *)
LEMMA MoveTracked ==
  ASSUME Tracked, Ownership', ReliableStore, NEW c \in Calls, Drives(c),
         NEW r \in Runs, r = RunOf(c), NEW e \in Nat, e = Object(c).epoch,
         NEW x \in AVersion, x = Now(r), x.run = r,
         NEW y \in AVersion, y.run = r, y.epoch = x.epoch, y.resume = None,
         NEW u \in RunState, u.run = r, u.epoch = e, u.status = "RUNNING",
         Says(y, u),
         NEW next \in Steps \cup {End}, Move(c, u, next),
         ref' = ref, local' = local,
         Lifecycle!Becomes(r, Lifecycle!Moved(y, next)) => MachineStep(r)
  PROVE  Tracked' /\ LifecycleStep
<1>1. CASE next = End
  <2> DEFINE w == [u EXCEPT !.step = None]
             z == [y EXCEPT !.step = None]
  <2>1. z \in AVersion /\ z.run = r /\ z.epoch = x.epoch /\ z.resume = None
    BY DEF AVersion
  <2>2. w \in RunState /\ w.run = r /\ w.epoch = e
    BY DEF RunState
  <2>3. Says(z, w)
    BY DEF AVersion, RunState, Says
  <2>4. Persist(c, ref[c], [w EXCEPT !.status = "COMPLETED"], "clearing")
    BY <1>1 DEF Move
  <2>5. Lifecycle!Moved(y, next) = [z EXCEPT !.status = "COMPLETED"]
    BY <1>1 DEF Lifecycle!Moved, AVersion
  <2>6. Lifecycle!Becomes(r, [z EXCEPT !.status = "COMPLETED"]) => MachineStep(r)
    BY <2>5
  <2> HIDE DEF w, z
  <2>7. QED
    BY <2>1, <2>2, <2>3, <2>4, <2>6, StatusTracked
<1>2. CASE next # End
  <2> DEFINE w == [u EXCEPT !.step = next]
             z == [y EXCEPT !.step = next]
  <2>1. z \in AVersion /\ z.run = r /\ z.epoch = x.epoch /\ z.resume = None
    BY <1>2 DEF AVersion
  <2>2. w \in RunState /\ w.run = r /\ w.epoch = e /\ w.status = "RUNNING"
        /\ w.resume = u.resume
    BY <1>2 DEF RunState
  <2>3. Says(z, w)
    BY DEF AVersion, RunState, Says
  <2>4. Persist(c, ref[c], w, "advancing")
    BY <1>2 DEF Move
  <2>5. Lifecycle!Becomes(r, z) => MachineStep(r)
    BY <1>2 DEF Lifecycle!Moved
  <2> HIDE DEF w, z
  <2>6. Valid(w) /\ GoesOn(c, r, z, w, "advancing") /\ Tracking(c)
    BY <2>2 DEF Valid, GoesOn, Tracking, Says
  <2>7. QED
    BY <2>1, <2>2, <2>3, <2>4, <2>5, <2>6, HolderSteps
<1>3. QED BY <1>1, <1>2

(* The run comes to wait for an approval, of its step or of a nested tool. *)
LEMMA AskTracked ==
  ASSUME Tracked, Ownership', ReliableStore, NEW c \in Calls,
         RequestApproval(c) \/ StepNeedsApproval(c)
  PROVE  Tracked' /\ LifecycleStep
<1>1. /\ pc[c] \in {"advancing", "executing"} /\ Drives(c) /\ Tracking(c)
      /\ ref' = ref /\ local' = local
  BY DEF RequestApproval, StepNeedsApproval, CanEnter, At, Drives, Tracking
<1>2. PICK r \in Runs, o \in RunState, x \in AVersion :
           /\ r = RunOf(c) /\ o = Object(c) /\ x = Now(r)
           /\ o.run = r /\ x.run = r /\ o.epoch \in Nat /\ o.epoch = x.epoch
           /\ pc[c] # "pausing" => Says(x, o)
           /\ Tracks(c) /\ Knows(c)
  BY <1>1, DriverHas
<1> DEFINE s == Waiting(o, x.step)
           v == [x EXCEPT !.status = "WAITING_APPROVAL", !.approval = x.step]
<1>3. Says(x, o) /\ x.step \in Steps \cup {None}
  BY <1>1, <1>2 DEF AVersion
<1>4. Persist(c, ref[c], s, "done") /\ Lifecycle!AtStep(x)
  <2>1. CASE RequestApproval(c)
    <3>1. /\ pc[c] = "advancing" /\ o.step # None /\ o.status = "RUNNING"
          /\ Persist(c, ref[c], Waiting(o, o.step), "done")
      BY <1>2, <2>1 DEF RequestApproval, CanEnter, At
    <3>2. x.step = o.step /\ x.status = o.status
      BY <1>3 DEF Says
    <3>3. x.resume = None
      BY <1>2, <3>1 DEF Tracks
    <3>4. QED BY <3>1, <3>2, <3>3 DEF Lifecycle!AtStep
  <2>2. CASE StepNeedsApproval(c)
    <3>1. /\ pc[c] = "executing"
          /\ Persist(c, ref[c], Waiting(o, local[c].at), "done")
      BY <1>2, <2>2 DEF StepNeedsApproval, At
    <3>2. local[c].at = x.step /\ Lifecycle!MayExecute(x)
      BY <1>2, <3>1 DEF Tracks
    <3>3. QED BY <3>1, <3>2 DEF Lifecycle!MayExecute
  <2>3. QED BY <2>1, <2>2
<1>5. "WAITING_APPROVAL" \in Status
  BY DEF Status
<1>6. v \in AVersion /\ v.run = r /\ v.epoch = x.epoch
  BY <1>2, <1>3, <1>5 DEF AVersion
<1>7. /\ s \in RunState /\ s.run = r /\ s.epoch = o.epoch
      /\ s.status = "WAITING_APPROVAL" /\ s.resume = o.resume
      /\ s.approval = x.step
  BY <1>2, <1>3, <1>5 DEF RunState, Waiting
<1>8. Says(v, s)
  BY <1>3 DEF AVersion, RunState, Says, Waiting
<1>9. Lifecycle!Becomes(r, v) => MachineStep(r)
  BY <1>2, <1>4 DEF Lifecycle!AskApproval, Now, MachineStep
<1>10. x.resume = None /\ x.step # None /\ o.resume = x.resume
  BY <1>3, <1>4 DEF Lifecycle!AtStep, Says
<1> HIDE DEF s, v
<1>11. Valid(s) /\ GoesOn(c, r, v, s, "done")
  BY <1>7, <1>10 DEF Valid, GoesOn
<1>12. QED
  BY <1>1, <1>2, <1>4, <1>6, <1>7, <1>8, <1>9, <1>10, <1>11, HolderSteps

(* The step is recorded as completed; the call is at a run just recorded. *)
LEMMA RecordTracked ==
  ASSUME Tracked, Ownership', ReliableStore, NEW c \in Calls, StepDone(c)
  PROVE  Tracked' /\ LifecycleStep
<1>1. /\ pc[c] = "executing" /\ Drives(c) /\ Tracking(c)
      /\ ref' = ref
  BY DEF StepDone, At, Drives, Tracking
<1>2. PICK r \in Runs, o \in RunState, x \in AVersion :
           /\ r = RunOf(c) /\ o = Object(c) /\ x = Now(r)
           /\ o.run = r /\ x.run = r /\ o.epoch \in Nat /\ o.epoch = x.epoch
           /\ pc[c] # "pausing" => Says(x, o)
           /\ Tracks(c) /\ Knows(c)
  BY <1>1, DriverHas
<1> DEFINE s == [o EXCEPT !.completed = @ \cup {x.step}]
           v == Lifecycle!Recorded(x)
<1>3. Says(x, o) /\ Lifecycle!MayExecute(x) /\ local[c].at = x.step
  BY <1>1, <1>2 DEF Tracks
<1>4. x.step \in Steps /\ x.status = "RUNNING" /\ x.resume = None
  BY <1>3 DEF Lifecycle!MayExecute, Lifecycle!AtStep, AVersion
<1>5. Persist(c, ref[c], s, "stepping")
  BY <1>2, <1>3 DEF StepDone
<1>6. /\ \A d \in Calls : d # c => local'[d] = local[d]
      /\ local'[c].at = x.step
  <2>1. local \in [Calls -> Local]
    BY DEF Tracked, Ownership, Shape, TypeOK
  <2>2. PICK pauses \in BOOLEAN : local' = [local EXCEPT ![c].pauses = pauses]
    BY DEF StepDone
  <2>3. local[c] \in Local /\ local'[c] = [local[c] EXCEPT !.pauses = pauses]
    BY <2>1, <2>2
  <2>4. local'[c].at = local[c].at
    BY <2>3 DEF Local
  <2>5. QED BY <1>3, <2>1, <2>2, <2>4
<1>7. v \in AVersion /\ v.run = r /\ v.epoch = x.epoch
  BY <1>2, <1>4 DEF AVersion, Lifecycle!Recorded
<1>8. /\ s \in RunState /\ s.run = r /\ s.epoch = o.epoch
      /\ s.status = o.status /\ s.resume = o.resume
  BY <1>2, <1>4 DEF RunState
<1>9. Says(v, s)
  BY <1>3 DEF AVersion, RunState, Says, Lifecycle!Recorded
<1>10. Lifecycle!Becomes(r, v) => MachineStep(r)
  BY <1>2, <1>3 DEF Lifecycle!Record, Now, MachineStep
<1>11. GoesOn(c, r, v, s, "stepping")
  BY <1>2, <1>3, <1>6 DEF GoesOn
<1>12. o.status = "RUNNING"
  BY <1>3, <1>4 DEF Says
<1> HIDE DEF s, v
<1>13. Valid(s)
  BY <1>8, <1>12 DEF Valid
<1>14. QED
  BY <1>1, <1>2, <1>5, <1>6, <1>7, <1>8, <1>9, <1>10, <1>11, <1>12, <1>13,
     HolderSteps

(* The approval of a recorded step is used up, in the object as in the machine. *)
LEMMA UsedIs ==
  ASSUME NEW x \in AVersion
  PROVE  \E y \in AVersion :
           /\ y = Lifecycle!Used(x)
           /\ y.run = x.run /\ y.epoch = x.epoch
           /\ y.status = x.status /\ y.resume = x.resume /\ y.step = x.step
<1>1. /\ Lifecycle!Used(x) \in AVersion
      /\ Lifecycle!Used(x).run = x.run
      /\ Lifecycle!Used(x).epoch = x.epoch
      /\ Lifecycle!Used(x).status = x.status
      /\ Lifecycle!Used(x).resume = x.resume
      /\ Lifecycle!Used(x).step = x.step
  BY DEF AVersion, Lifecycle!Used
<1>2. QED BY <1>1

(* A snapshot whose approval was used up says what the used version says. *)
LEMMA UsedSays ==
  ASSUME NEW x \in AVersion, NEW o \in RunState, Says(x, o)
  PROVE  \E u \in RunState :
           /\ u = [o EXCEPT !.approved = @ \ {x.step}]
           /\ u.run = o.run /\ u.epoch = o.epoch
           /\ u.status = o.status /\ u.resume = o.resume
           /\ Says(Lifecycle!Used(x), u)
<1> DEFINE u == [o EXCEPT !.approved = @ \ {x.step}]
<1>1. /\ u \in RunState /\ u.run = o.run /\ u.epoch = o.epoch
      /\ u.status = o.status /\ u.resume = o.resume
  BY DEF RunState
<1>2. Says(Lifecycle!Used(x), u)
  BY DEF AVersion, RunState, Says, Lifecycle!Used
<1>3. QED BY <1>1, <1>2

(* A version whose step was just recorded is at that step. *)
LEMMA RecordedIsAtStep ==
  ASSUME NEW r \in Runs, Lifecycle!JustRecorded(r), StoreTypeOK,
         NEW x, x = Now(r)
  PROVE  x.status = "RUNNING" /\ x.resume = None /\ x.step \in Steps
<1>1. PICK v \in Versions :
             /\ Lifecycle!MayExecute(v)
             /\ Now(r) = [Lifecycle!Recorded(v) EXCEPT !.epoch = @ + 1]
  BY JustRecordedIs
<1>2. PICK i \in DOMAIN checkpoints : v = Version(checkpoints[i])
  BY DEF Versions
<1>3. v \in AVersion
  BY <1>2, VersionOf DEF StoreTypeOK
<1>4. v.status = "RUNNING" /\ v.resume = None /\ v.step \in Steps
  BY <1>1, <1>3 DEF Lifecycle!MayExecute, Lifecycle!AtStep, AVersion
<1>5. QED
  BY <1>1, <1>3, <1>4 DEF AVersion, Lifecycle!Recorded

(* The run moves on from a step just recorded, without its approval. *)
LEMMA TransitTracked ==
  ASSUME Tracked, Ownership', ReliableStore, NEW c \in Calls, Transit(c)
  PROVE  Tracked' /\ LifecycleStep
<1>1. /\ pc[c] = "stepping" /\ Drives(c)
      /\ ref' = ref /\ local' = local
  BY DEF Transit, At, Drives
<1>2. PICK r \in Runs, o \in RunState, x \in AVersion :
           /\ r = RunOf(c) /\ o = Object(c) /\ x = Now(r)
           /\ o.run = r /\ x.run = r /\ o.epoch \in Nat /\ o.epoch = x.epoch
           /\ pc[c] # "pausing" => Says(x, o)
           /\ Tracks(c) /\ Knows(c)
  BY <1>1, DriverHas
<1>3. /\ Says(x, o) /\ Lifecycle!JustRecorded(r) /\ local[c].at = x.step
  BY <1>1, <1>2 DEF Tracks
<1>4. x.status = "RUNNING" /\ x.resume = None /\ x.step \in Steps
  BY <1>2, <1>3, RecordedIsAtStep DEF Tracked, Ownership, Shape, TypeOK
<1>y. PICK y \in AVersion :
              /\ y = Lifecycle!Used(x)
              /\ y.run = x.run /\ y.epoch = x.epoch
              /\ y.status = x.status /\ y.resume = x.resume /\ y.step = x.step
  BY UsedIs
<1>u. PICK u \in RunState :
              /\ u = [o EXCEPT !.approved = @ \ {x.step}]
              /\ u.run = o.run /\ u.epoch = o.epoch
              /\ u.status = o.status /\ u.resume = o.resume
              /\ Says(Lifecycle!Used(x), u)
  BY <1>3, UsedSays
<1>5. /\ y.run = r /\ y.epoch = x.epoch /\ y.resume = None
      /\ u.run = r /\ u.epoch = o.epoch /\ u.status = "RUNNING"
      /\ Says(y, u)
  BY <1>2, <1>3, <1>4, <1>y, <1>u DEF Says
<1>6. Consumed(c) = u
  BY <1>2, <1>3, <1>u DEF Consumed
<1>7. ASSUME NEW next \in Targets[x.step], Move(c, u, next)
      PROVE  Tracked' /\ LifecycleStep
  <2>1. next \in Steps \cup {End}
    BY <1>4, RuntimeConstants
  <2>2. Lifecycle!Becomes(r, Lifecycle!Moved(y, next)) => MachineStep(r)
    BY <1>2, <1>3, <1>y DEF Lifecycle!Transit, Now, MachineStep
  <2>3. QED
    BY <1>1, <1>2, <1>5, <1>7, <2>1, <2>2, MoveTracked
<1>8. ASSUME x.step \in Illegal,
             Persist(c, ref[c], [u EXCEPT !.status = "FAILED"], "clearing")
      PROVE  Tracked' /\ LifecycleStep
  <2>1. Lifecycle!Becomes(r, [y EXCEPT !.status = "FAILED"]) => MachineStep(r)
    BY <1>2, <1>3, <1>y, <1>8 DEF Lifecycle!Reject, Now, MachineStep
  <2>2. QED
    BY <1>1, <1>2, <1>5, <1>8, <2>1, StatusTracked
<1>9. QED
  BY <1>3, <1>6, <1>7, <1>8 DEF Transit

(* The run comes to wait for an answer; its object had used the approval up. *)
LEMMA InterruptTracked ==
  ASSUME Tracked, Ownership', ReliableStore, NEW c \in Calls, PersistWait(c)
  PROVE  Tracked' /\ LifecycleStep
<1>1. /\ pc[c] = "pausing" /\ Drives(c) /\ Tracking(c)
      /\ ref' = ref /\ local' = local
  BY DEF PersistWait, At, Drives, Tracking
<1>2. PICK r \in Runs, o \in RunState, x \in AVersion :
           /\ r = RunOf(c) /\ o = Object(c) /\ x = Now(r)
           /\ o.run = r /\ x.run = r /\ o.epoch \in Nat /\ o.epoch = x.epoch
           /\ pc[c] # "pausing" => Says(x, o)
           /\ Tracks(c) /\ Knows(c)
  BY <1>1, DriverHas
<1> DEFINE id == local[c].id
           s == [o EXCEPT !.interrupt = id, !.status = "WAITING_INTERRUPT",
                          !.resume = x.step]
           v == [Lifecycle!Used(x) EXCEPT !.status = "WAITING_INTERRUPT",
                                          !.resume = x.step]
<1>3. /\ Says(Lifecycle!Used(x), o) /\ Lifecycle!JustRecorded(r)
      /\ local[c].at = x.step /\ id # 0 /\ id \in Nat
  BY <1>1, <1>2, TrackerState DEF Tracks, Knows, Local, Held
<1>4. x.status = "RUNNING" /\ x.resume = None /\ x.step \in Steps
  BY <1>2, <1>3, RecordedIsAtStep DEF Tracked, Ownership, Shape, TypeOK
<1>5. "WAITING_INTERRUPT" \in Status
  BY DEF Status
<1>6. Persist(c, ref[c], s, "syncing")
  BY <1>2, <1>3 DEF PersistWait
<1> HIDE DEF id
<1>7. PICK y \in AVersion : /\ y = Lifecycle!Used(x)
                            /\ y.run = r /\ y.epoch = x.epoch /\ y.step = x.step
  BY <1>2, UsedIs
<1>8. v = [y EXCEPT !.status = "WAITING_INTERRUPT", !.resume = x.step]
  BY <1>7
<1>9. v \in AVersion /\ v.run = r /\ v.epoch = x.epoch
  <2> DEFINE w == [y EXCEPT !.status = "WAITING_INTERRUPT", !.resume = x.step]
  <2>1. x.step \in Steps \cup {None}
    BY <1>4
  <2>2. w \in AVersion
    BY <1>5, <2>1 DEF AVersion
  <2>3. w.run = y.run /\ w.epoch = y.epoch
    BY DEF AVersion
  <2>4. QED BY <1>7, <1>8, <2>2, <2>3
<1>10. /\ s \in RunState /\ s.run = r /\ s.epoch = o.epoch
       /\ s.status = "WAITING_INTERRUPT" /\ s.resume # None
       /\ s.interrupt # 0
  <2>1. x.step \in Steps /\ x.step # None /\ id \in Nat /\ id # 0
    BY <1>3, <1>4, NoneIsNoName
  <2>2. s \in RunState
    BY <1>5, <2>1 DEF RunState
  <2>3. s.run = r /\ s.epoch = o.epoch
    BY <1>2 DEF RunState
  <2>4. s.status = "WAITING_INTERRUPT" /\ s.resume = x.step /\ s.interrupt = id
    BY DEF RunState
  <2>5. QED BY <2>1, <2>2, <2>3, <2>4
<1>11. Says(v, s)
  BY <1>3, <1>7 DEF AVersion, RunState, Says
<1>12. Lifecycle!Becomes(r, v) => MachineStep(r)
  BY <1>2, <1>3 DEF Lifecycle!Interrupt, Now, MachineStep
<1> HIDE DEF s, v
<1>13. Valid(s) /\ GoesOn(c, r, v, s, "syncing")
  BY <1>10 DEF Valid, GoesOn
<1>14. QED
  BY <1>1, <1>2, <1>6, <1>9, <1>10, <1>11, <1>12, <1>13, HolderSteps

(* The run moves on from the step that interrupted it. *)
LEMMA ContinueTracked ==
  ASSUME Tracked, Ownership', ReliableStore, NEW c \in Calls, Continue(c)
  PROVE  Tracked' /\ LifecycleStep
<1>1. /\ pc[c] = "continuing" /\ Drives(c) /\ Working(c)
      /\ ref' = ref /\ local' = local
  BY DEF Continue, At, Drives, Working, Live, Fresh
<1>2. PICK r \in Runs, o \in RunState, x \in AVersion :
           /\ r = RunOf(c) /\ o = Object(c) /\ x = Now(r)
           /\ o.run = r /\ x.run = r /\ o.epoch \in Nat /\ o.epoch = x.epoch
           /\ pc[c] # "pausing" => Says(x, o)
           /\ Tracks(c) /\ Knows(c)
  BY <1>1, DriverHas
<1> DEFINE y == [x EXCEPT !.resume = None]
           u == [o EXCEPT !.resume = None]
<1>3. /\ Says(x, o) /\ x.resume # None /\ o.status = "RUNNING"
      /\ x.status = "RUNNING" /\ x.resume = o.resume /\ x.resume \in Steps
  BY <1>1, <1>2 DEF Tracks, Knows, Says, AVersion
<1>4. y \in AVersion /\ y.run = r /\ y.epoch = x.epoch /\ y.resume = None
  BY <1>2 DEF AVersion
<1>5. u \in RunState /\ u.run = r /\ u.epoch = o.epoch /\ u.status = "RUNNING"
  BY <1>2, <1>3 DEF RunState
<1>6. Says(y, u)
  BY <1>3 DEF AVersion, RunState, Says
<1>7. ASSUME NEW next \in Targets[x.resume], Move(c, u, next)
      PROVE  Tracked' /\ LifecycleStep
  <2>1. next \in Steps \cup {End}
    BY <1>3, RuntimeConstants
  <2>2. Lifecycle!Becomes(r, Lifecycle!Moved(y, next)) => MachineStep(r)
    BY <1>2, <1>3 DEF Lifecycle!Continue, Lifecycle!Is, Now, MachineStep
  <2> HIDE DEF y, u
  <2>3. QED
    BY <1>1, <1>2, <1>4, <1>5, <1>6, <1>7, <2>1, <2>2, MoveTracked
<1>8. ASSUME Finish(c), heap' = [heap EXCEPT ![ref[c]] = u],
             UNCHANGED <<storeVars, cache>>
      PROVE  Tracked' /\ LifecycleStep
  <2>1. Ownership /\ heap \in [Calls -> RunState] /\ pc \in [Calls -> PC]
        /\ ref[c] \in Calls /\ Holds(c)
    BY <1>1, TrackerFacts DEF Tracked, Ownership, Shape, TypeOK, Tracking
  <2>2. /\ UNCHANGED <<state, checkpoints, ref, cache>>
        /\ \A z \in Calls : z # ref[c] => heap'[z] = heap[z]
        /\ heap'[ref[c]] = u
        /\ pc'[c] = "done"
        /\ \A d \in Calls : d # c => pc'[d] = pc[d] /\ local'[d] = local[d]
    BY <1>1, <1>8, <2>1 DEF storeVars, Finish, Goto
  <2>3. Tracks(c)' /\ heap'[ref[c]].status \notin WaitingStatus
    BY <1>5, <2>2, NotTrackingNext DEF Tracking, Drives, WaitingStatus
  <2>4. Tracked'
    BY <1>1, <2>1, <2>2, <2>3, QuietKeepsTracked
  <2>5. QED BY <2>2, <2>4 DEF LifecycleStep
<1>9. QED
  BY <1>2, <1>3, <1>7, <1>8 DEF Continue

(* What a call that answers a wait has of its run. *)
LEMMA AnswererHas ==
  ASSUME Tracked, NEW c \in Calls, pc[c] \in Taking \cup {"resumed"}
  PROVE  \E r \in Runs, o \in RunState, x \in AVersion, h \in AVersion :
           /\ r = RunOf(c) /\ o = Object(c) /\ x = Now(r) /\ h = Held(c)
           /\ o.run = r /\ o.epoch \in Nat /\ h.run = r /\ h.epoch = o.epoch
           /\ x.status = state[r].status /\ x.resume = state[r].resume
           /\ x.epoch = state[r].epoch
           /\ h.epoch = x.epoch => x.run = r
           /\ Says(h, o)
           /\ Tracks(c) /\ Knows(c)
           /\ pc[c] \in {"rejecting", "resolving", "deciding"} /\ h.epoch = x.epoch =>
                h = x
<1>1. Working(c) /\ Holds(c) /\ Ownership
  BY DEF Taking, Working, Live, Fresh, Holds, Tracked
<1>2. PICK r \in Runs : r = RunOf(c) /\ r = Object(c).run
  BY <1>1, HolderFacts DEF Object
<1>3. PICK o \in RunState : o = Object(c)
  BY <1>1, HolderFacts DEF Object
<1>4. state[r] \in RunState /\ ref[c] \in Calls /\ InUse(ref[c])
      /\ heap[ref[c]] = o
  BY <1>1, <1>2, <1>3, HolderFacts DEF Object
<1>5. PICK x \in AVersion : x = Now(r) /\ x.run = state[r].run
                            /\ x.epoch = state[r].epoch /\ Says(x, state[r])
  BY <1>4, VersionOf DEF Now
<1>6. PICK h \in AVersion : h = Held(c) /\ h.run = r /\ h.epoch = o.epoch
                            /\ Says(h, o)
  BY <1>2, <1>3, VersionOf DEF Held
<1>7. Tracks(c) /\ Knows(c) /\ Waits(ref[c])
  BY <1>1, <1>4 DEF Tracked, Ownership, HoldersKnowTheirRun
<1>8. o.epoch \in Nat
  BY DEF RunState
<1>9. ASSUME h.epoch = x.epoch PROVE x.run = r
  <2>1. Coherent(ref[c]) /\ (pc[c] = "resumed" => state[r].status = "WAITING_INTERRUPT")
        /\ (pc[c] # "resumed" => o.status \in WaitingStatus)
    BY <1>1, <1>2, <1>3, <1>5, <1>6, <1>7, <1>9, HolderFacts
       DEF Knows, Taking, WaitingStatus
  <2>2. state[r].status = "WAITING_INTERRUPT" \/ state[r].status \in WaitingStatus
    BY <1>2, <1>3, <1>4, <1>5, <1>6, <1>9, <2>1 DEF Coherent, WaitingStatus
  <2>3. NoState.status = "ABSENT"
    BY DEF NoState
  <2>4. Stored(r)
    BY <2>2, <2>3 DEF Stored, WaitingStatus
  <2>5. QED BY <1>1, <1>5, <2>4 DEF Ownership, Shape, ObjectsHaveRuns
<1>10. ASSUME pc[c] \in {"rejecting", "resolving", "deciding"}, h.epoch = x.epoch
       PROVE  h = x
  <2>1. o.status \in WaitingStatus
    BY <1>3, <1>7, <1>10 DEF Knows, WaitingStatus
  <2>2. h = Version(heap[ref[c]]) /\ h.status = o.status
    BY <1>3, <1>4, <1>6 DEF Held, Says
  <2>3. h = x \/ \E d \in Calls : pc[d] = "granting" /\ ref[d] = ref[c]
    BY <1>5, <1>6, <1>7, <1>10, <2>1, <2>2 DEF Waits, WaitingStatus
  <2>4. \A d \in Calls : pc[d] = "granting" /\ ref[d] = ref[c] => d = c
    BY <1>1 DEF Ownership, OneHolderPerObject, Holds, Taking
  <2>5. QED BY <1>10, <2>3, <2>4
<1>11. x.status = state[r].status /\ x.resume = state[r].resume
  BY <1>5 DEF Says
<1>12. QED
  BY <1>2, <1>3, <1>5, <1>6, <1>7, <1>8, <1>9, <1>10, <1>11

(* A granted run goes on with one approval more. *)
LEMMA GrantTracked ==
  ASSUME Tracked, Ownership', ReliableStore, NEW c \in Calls, GrantApproval(c)
  PROVE  Tracked' /\ LifecycleStep
<1>1. /\ pc[c] = "granting" /\ Tracking(c) /\ pc[c] \in Taking \cup {"resumed"}
      /\ ref' = ref /\ local' = local
  BY DEF GrantApproval, At, Taking, Tracking
<1>2. PICK r \in Runs, o \in RunState, x \in AVersion, h \in AVersion :
           /\ r = RunOf(c) /\ o = Object(c) /\ x = Now(r) /\ h = Held(c)
           /\ o.run = r /\ o.epoch \in Nat /\ h.run = r /\ h.epoch = o.epoch
           /\ x.status = state[r].status /\ x.resume = state[r].resume
           /\ x.epoch = state[r].epoch
           /\ h.epoch = x.epoch => x.run = r
           /\ Says(h, o)
           /\ Tracks(c) /\ Knows(c)
  BY <1>1, AnswererHas
<1> DEFINE s == [o EXCEPT !.approval = None, !.status = "RUNNING"]
           v == [h EXCEPT !.status = "RUNNING", !.approval = None]
<1>3. "RUNNING" \in Status
  BY DEF Status
<1>4. v \in AVersion /\ v.run = r /\ v.epoch = h.epoch
  BY <1>2, <1>3 DEF AVersion
<1>5. /\ s \in RunState /\ s.run = r /\ s.epoch = o.epoch
      /\ s.status = "RUNNING" /\ s.resume = o.resume
  BY <1>2, <1>3 DEF RunState
<1>6. Says(v, s)
  BY <1>2 DEF AVersion, RunState, Says
<1>7. Persist(c, ref[c], s, "advancing")
  BY <1>2 DEF GrantApproval
<1>8. ASSUME o.epoch = x.epoch
      PROVE  /\ o.resume = None
             /\ Lifecycle!Becomes(r, v) => MachineStep(r)
  <2>1. h = [x EXCEPT !.approved = @ \cup {x.approval}] /\ o.status = "WAITING_APPROVAL"
    BY <1>1, <1>2, <1>8 DEF Tracks, Knows
  <2>2. x.status = "WAITING_APPROVAL" /\ x.resume = o.resume
    BY <1>2, <2>1 DEF Says, AVersion
  <2>3. x.resume = None
    BY <1>2, <2>2 DEF Tracked, WaitsToMoveOn
  <2>4. v = [x EXCEPT !.status = "RUNNING", !.approval = None,
                      !.approved = @ \cup {x.approval}]
    BY <2>1 DEF AVersion
  <2>5. Lifecycle!Becomes(r, v) => Lifecycle!Grant(r)
    BY <1>2, <2>2, <2>4 DEF Lifecycle!Grant, Lifecycle!Is, Now
  <2>6. QED BY <2>2, <2>3, <2>5 DEF MachineStep
<1> HIDE DEF s, v
<1>9. Valid(s) /\ (o.epoch = x.epoch => GoesOn(c, r, v, s, "advancing"))
  BY <1>5, <1>8 DEF Valid, GoesOn
<1>10. QED
  BY <1>1, <1>2, <1>4, <1>5, <1>6, <1>7, <1>8, <1>9, HolderSteps

(* A rejected run fails. *)
LEMMA RefuseTracked ==
  ASSUME Tracked, Ownership', ReliableStore, NEW c \in Calls, RejectApproval(c)
  PROVE  Tracked' /\ LifecycleStep
<1>1. /\ pc[c] = "rejecting" /\ pc[c] \in Taking \cup {"resumed"}
      /\ ref' = ref /\ local' = local
  BY DEF RejectApproval, At, Taking
<1>2. PICK r \in Runs, o \in RunState, x \in AVersion, h \in AVersion :
           /\ r = RunOf(c) /\ o = Object(c) /\ x = Now(r) /\ h = Held(c)
           /\ o.run = r /\ o.epoch \in Nat /\ h.run = r /\ h.epoch = o.epoch
           /\ x.status = state[r].status /\ x.resume = state[r].resume
           /\ x.epoch = state[r].epoch
           /\ h.epoch = x.epoch => x.run = r
           /\ Says(h, o)
           /\ Tracks(c) /\ Knows(c)
           /\ pc[c] \in {"rejecting", "resolving", "deciding"} /\ h.epoch = x.epoch =>
                h = x
  BY <1>1, AnswererHas
<1> DEFINE s == [o EXCEPT !.approval = None, !.status = "FAILED"]
           v == [h EXCEPT !.status = "FAILED", !.approval = None]
<1>3. "FAILED" \in Status
  BY DEF Status
<1>4. v \in AVersion /\ v.run = r /\ v.epoch = h.epoch
  BY <1>2, <1>3 DEF AVersion
<1>5. /\ s \in RunState /\ s.run = r /\ s.epoch = o.epoch
      /\ s.status = "FAILED" /\ s.resume = o.resume
  BY <1>2, <1>3 DEF RunState
<1>6. Says(v, s)
  BY <1>2 DEF AVersion, RunState, Says
<1>7. Persist(c, ref[c], s, "clearing")
  BY <1>2 DEF RejectApproval
<1>8. ASSUME o.epoch = x.epoch
      PROVE  Lifecycle!Becomes(r, v) => MachineStep(r)
  <2>1. h = x /\ o.status = "WAITING_APPROVAL"
    BY <1>1, <1>2, <1>8 DEF Knows
  <2>2. x.status = "WAITING_APPROVAL"
    BY <1>2, <2>1 DEF Says
  <2>3. Lifecycle!Becomes(r, v) => Lifecycle!Refuse(r)
    BY <1>2, <2>1, <2>2 DEF Lifecycle!Refuse, Lifecycle!Is, Now
  <2>4. QED BY <2>3 DEF MachineStep
<1> HIDE DEF s, v
<1>9. Valid(s) /\ GoesOn(c, r, v, s, "clearing")
  BY <1>5 DEF Valid, GoesOn
<1>10. QED
  BY <1>1, <1>2, <1>4, <1>5, <1>6, <1>7, <1>8, <1>9, HolderSteps

(* An answered run goes on, and is to move on from the step that asked. *)
LEMMA AnswerTracked ==
  ASSUME Tracked, Ownership', ReliableStore, NEW c \in Calls, PersistResumed(c)
  PROVE  Tracked' /\ LifecycleStep
<1>1. /\ pc[c] = "resumed" /\ Tracking(c) /\ pc[c] \in Taking \cup {"resumed"}
      /\ ref' = ref /\ local' = local
  BY DEF PersistResumed, At, Tracking
<1>2. PICK r \in Runs, o \in RunState, x \in AVersion, h \in AVersion :
           /\ r = RunOf(c) /\ o = Object(c) /\ x = Now(r) /\ h = Held(c)
           /\ o.run = r /\ o.epoch \in Nat /\ h.run = r /\ h.epoch = o.epoch
           /\ x.status = state[r].status /\ x.resume = state[r].resume
           /\ x.epoch = state[r].epoch
           /\ h.epoch = x.epoch => x.run = r
           /\ Says(h, o)
           /\ Tracks(c) /\ Knows(c)
  BY <1>1, AnswererHas
<1>3. Persist(c, ref[c], o, "continuing") /\ o.status = "RUNNING"
  BY <1>1, <1>2 DEF PersistResumed, Knows
<1>4. ASSUME o.epoch = x.epoch
      PROVE  /\ o.resume # None
             /\ Lifecycle!Becomes(r, h) => MachineStep(r)
  <2>1. x.status = "WAITING_INTERRUPT"
    BY <1>1, <1>2, <1>4 DEF Knows
  <2>2. x.resume # None
    BY <1>2, <2>1 DEF Tracked, WaitsToMoveOn
  <2>3. h = [x EXCEPT !.status = "RUNNING"]
    BY <1>1, <1>2, <1>4 DEF Tracks
  <2>4. o.resume = x.resume
    BY <1>2, <2>3 DEF Says, AVersion
  <2>5. Lifecycle!Becomes(r, h) => Lifecycle!Answer(r)
    BY <1>2, <2>1, <2>3 DEF Lifecycle!Answer, Lifecycle!Is, Now
  <2>6. QED BY <2>2, <2>4, <2>5 DEF MachineStep
<1>5. Valid(o) /\ (o.epoch = x.epoch => GoesOn(c, r, h, o, "continuing"))
  BY <1>3, <1>4 DEF Valid, GoesOn
<1>6. QED
  BY <1>1, <1>2, <1>3, <1>4, <1>5, HolderSteps

-----------------------------------------------------------------------------
(* Actions that put nothing *)

(* A call that touches nothing but its place is where it was, or ends. *)
LEMMA QuietTracked ==
  ASSUME Tracked, Ownership', NEW c \in Calls, Working(c), pc[c] # "granting",
         UNCHANGED <<state, checkpoints, heap, ref, cache>>,
         \A d \in Calls : d # c => pc'[d] = pc[d] /\ local'[d] = local[d],
         ~Tracking(c)' \/ Tracks(c)'
  PROVE  Tracked' /\ LifecycleStep
<1>1. Tracks(c)'
  BY NotTrackingNext
<1>2. /\ UNCHANGED <<state, checkpoints, ref, cache>> /\ heap' = heap
      /\ \A x \in Calls : x # ref[c] => heap'[x] = heap[x]
  OBVIOUS
<1>3. Tracked'
  BY <1>1, <1>2, QuietKeepsTracked
<1>4. QED
  BY <1>3 DEF LifecycleStep

(* The steps that end a call, and the reading of a request. *)
LEMMA EndingTracked ==
  ASSUME Tracked, Ownership', NEW c \in Calls,
         \/ LeaveLoop(c) \/ MissArtifact(c) \/ StepBadUpdate(c)
         \/ SyncRequest(c) \/ ClearActiveRun(c) \/ ReadRequest(c)
  PROVE  Tracked' /\ LifecycleStep
<1>1. pc \in [Calls -> PC] /\ local \in [Calls -> Local]
  BY DEF Tracked, Ownership, Shape, TypeOK
<1>2. Working(c) /\ pc[c] # "granting"
  BY DEF LeaveLoop, MissArtifact, StepBadUpdate, SyncRequest, ClearActiveRun,
         ReadRequest, CanEnter, At, Working, Live, Fresh
<1>3. /\ UNCHANGED <<state, checkpoints, heap, ref, cache>>
      /\ \A d \in Calls : d # c => local'[d] = local[d]
  BY <1>1 DEF LeaveLoop, MissArtifact, StepBadUpdate, SyncRequest, ClearActiveRun,
              ReadRequest, storeVars, ClearActiveRunId
<1>4. Goto(c, "done") \/ Goto(c, "deciding")
  BY DEF LeaveLoop, MissArtifact, StepBadUpdate, SyncRequest, ClearActiveRun,
         ReadRequest, Finish
<1>5. /\ pc'[c] \in {"done", "deciding"}
      /\ \A d \in Calls : d # c => pc'[d] = pc[d]
  BY <1>1, <1>4 DEF Goto
<1>6. ~Tracking(c)'
  BY <1>5 DEF Tracking, Drives
<1>7. QED
  BY <1>2, <1>3, <1>5, <1>6, QuietTracked

(* Registering the run on its thread leaves the run as it is. *)
LEMMA RegisterTracked ==
  ASSUME Tracked, Ownership', NEW c \in Calls, RegisterActiveRun(c)
  PROVE  Tracked' /\ LifecycleStep
<1>1. /\ pc[c] = "registering" /\ Drives(c) /\ Working(c)
      /\ UNCHANGED <<state, checkpoints, heap, ref, cache, local>>
  BY DEF RegisterActiveRun, At, Drives, Working, Live, Fresh, SetActiveRunId
<1>2. /\ pc'[c] \in {"launching", "advancing"}
      /\ \A d \in Calls : d # c => pc'[d] = pc[d] /\ local'[d] = local[d]
  BY DEF RegisterActiveRun, Goto, Tracked, Ownership, Shape, TypeOK
<1>3. Tracks(c) /\ Now(RunOf(c)).resume = None /\ Held(c) = Now(RunOf(c))
  BY <1>1 DEF Tracked, Tracks
<1>4. RunOf(c)' = RunOf(c) /\ Held(c)' = Held(c) /\ Now(RunOf(c))' = Now(RunOf(c))
  BY <1>1 DEF RunOf, Object, Held, Now
<1>5. Tracks(c)'
  BY <1>2, <1>3, <1>4 DEF Tracks, Drives
<1>6. pc[c] # "granting" /\ UNCHANGED <<state, checkpoints, heap, ref, cache>>
  BY <1>1
<1>7. QED
  BY <1>1, <1>2, <1>5, <1>6, QuietTracked

(* A step begins that the machine may execute: it needs no approval or has    *)
(* it.                                                                        *)
LEMMA ExecuteTracked ==
  ASSUME Tracked, Ownership', NEW c \in Calls, Execute(c)
  PROVE  Tracked' /\ LifecycleStep
<1>1. /\ pc[c] = "advancing" /\ Drives(c) /\ Working(c)
      /\ UNCHANGED <<state, checkpoints, heap, ref, cache>>
  BY DEF Execute, CanEnter, At, Drives, Working, Live, Fresh, storeVars
<1>2. PICK r \in Runs, o \in RunState, x \in AVersion :
           /\ r = RunOf(c) /\ o = Object(c) /\ x = Now(r)
           /\ o.run = r /\ x.run = r /\ o.epoch \in Nat /\ o.epoch = x.epoch
           /\ pc[c] # "pausing" => Says(x, o)
           /\ Tracks(c) /\ Knows(c)
  BY <1>1, DriverHas
<1>3. /\ pc'[c] = "executing" /\ local'[c].at = o.step
      /\ \A d \in Calls : d # c => pc'[d] = pc[d] /\ local'[d] = local[d]
  BY <1>2 DEF Execute, Goto, Tracked, Ownership, Shape, TypeOK, Local
<1>4. /\ o.status = "RUNNING" /\ o.step # None
      /\ o.step \notin Gated \ o.approved
  BY <1>2 DEF Execute, CanEnter
<1>5. Says(x, o) /\ x.resume = None /\ Held(c) = x
  BY <1>1, <1>2 DEF Tracks
<1>6. Lifecycle!MayExecute(x) /\ o.step = x.step
  BY <1>4, <1>5 DEF Says, Lifecycle!MayExecute, Lifecycle!AtStep
<1>7. RunOf(c)' = r /\ Held(c)' = x /\ Now(r)' = x
  BY <1>1, <1>2, <1>5 DEF RunOf, Object, Held, Now
<1>8. Tracks(c)'
  BY <1>3, <1>6, <1>7 DEF Tracks, Drives
<1>9. QED
  BY <1>1, <1>3, <1>8, QuietTracked

(* The request is created; the approval is used up in the object only. *)
LEMMA CreateTracked ==
  ASSUME Tracked, Ownership', NEW c \in Calls, CreateInterrupt(c)
  PROVE  Tracked' /\ LifecycleStep
<1>1. /\ pc[c] = "stepping" /\ Drives(c) /\ Working(c) /\ Tracking(c)
      /\ UNCHANGED <<state, checkpoints, ref, cache>>
  BY DEF CreateInterrupt, At, Drives, Working, Live, Fresh, storeVars, Tracking
<1>2. PICK r \in Runs, o \in RunState, x \in AVersion :
           /\ r = RunOf(c) /\ o = Object(c) /\ x = Now(r)
           /\ o.run = r /\ x.run = r /\ o.epoch \in Nat /\ o.epoch = x.epoch
           /\ pc[c] # "pausing" => Says(x, o)
           /\ Tracks(c) /\ Knows(c)
  BY <1>1, DriverHas
<1>3. /\ Says(x, o) /\ Lifecycle!JustRecorded(r) /\ local[c].at = x.step
      /\ o.status = "RUNNING"
  BY <1>1, <1>2 DEF Tracks, Knows
<1>4. PICK u \in RunState :
              /\ u = [o EXCEPT !.approved = @ \ {x.step}]
              /\ u.run = o.run /\ u.epoch = o.epoch
              /\ u.status = o.status /\ u.resume = o.resume
              /\ Says(Lifecycle!Used(x), u)
  BY <1>3, UsedSays
<1>5. /\ ref[c] \in Calls /\ Holds(c)
      /\ heap \in [Calls -> RunState] /\ pc \in [Calls -> PC]
      /\ local \in [Calls -> Local]
  BY <1>1, TrackerFacts DEF Tracked, Ownership, Shape, TypeOK
<1>6. Consumed(c) = u
  BY <1>2, <1>3, <1>4 DEF Consumed
<1>7. heap'[ref[c]] = u /\ \A d \in Calls : d # ref[c] => heap'[d] = heap[d]
  BY <1>5, <1>6 DEF CreateInterrupt
<1>8. /\ pc'[c] \in {"pausing", "done"}
      /\ \A d \in Calls : d # c => pc'[d] = pc[d] /\ local'[d] = local[d]
      /\ local'[c].at = x.step
  <2>1. \/ Goto(c, "pausing") /\ local' = [local EXCEPT ![c].id = Len(requests[RunOf(c)]) + 1]
        \/ Goto(c, "done") /\ local' = local
    BY DEF CreateInterrupt, Finish
  <2>2. local'[c].at = local[c].at
    BY <1>5, <2>1 DEF Local
  <2>3. QED BY <1>3, <1>5, <2>1, <2>2 DEF Goto
<1>9. Tracks(c)'
  <2>1. PICK y \in AVersion :
              /\ y = Lifecycle!Used(x)
              /\ y.run = x.run /\ y.epoch = x.epoch
              /\ y.status = x.status /\ y.resume = x.resume /\ y.step = x.step
    BY UsedIs
  <2>2. Version(u) = y
    <3>1. /\ Version(u) \in AVersion /\ Says(Version(u), u)
          /\ Version(u).run = u.run /\ Version(u).epoch = u.epoch
      BY VersionOf
    <3>2. Says(Version(u), y)
      BY <1>4, <2>1, <3>1 DEF Says
    <3>3. QED BY <1>2, <1>4, <2>1, <3>1, <3>2, SameVersion
  <2>3. RunOf(c)' = r /\ Held(c)' = y /\ Now(r)' = x
    BY <1>1, <1>2, <1>4, <1>7, <2>2 DEF RunOf, Object, Held, Now
  <2>4. VersionsGrow
    BY <1>1 DEF VersionsGrow, Versions
  <2>5. Lifecycle!JustRecorded(r)'
    BY <1>2, <1>3, <2>3, <2>4, JustRecordedStays
  <2>6. QED
    BY <1>8, <2>1, <2>3, <2>5 DEF Tracks, Drives
<1>10. heap'[ref[c]].status \notin WaitingStatus
  BY <1>3, <1>4, <1>7 DEF WaitingStatus
<1>11. QED
  BY <1>1, <1>5, <1>7, <1>8, <1>9, <1>10, QuietKeepsTracked DEF LifecycleStep

(* An answer is taken: the object goes on, the stored run still waits. *)
LEMMA DecideTracked ==
  ASSUME Tracked, Ownership', NEW c \in Calls, DecideRequest(c)
  PROVE  Tracked' /\ LifecycleStep
<1>1. /\ pc[c] = "deciding" /\ Working(c) /\ Holds(c)
      /\ pc[c] \in Taking \cup {"resumed"}
      /\ UNCHANGED <<state, checkpoints, ref, cache, local>>
  BY DEF DecideRequest, At, Holds, Taking, Working, Live, Fresh, storeVars
<1>2. PICK r \in Runs, o \in RunState, x \in AVersion, h \in AVersion :
           /\ r = RunOf(c) /\ o = Object(c) /\ x = Now(r) /\ h = Held(c)
           /\ o.run = r /\ o.epoch \in Nat /\ h.run = r /\ h.epoch = o.epoch
           /\ x.status = state[r].status /\ x.resume = state[r].resume
           /\ x.epoch = state[r].epoch
           /\ h.epoch = x.epoch => x.run = r
           /\ Says(h, o)
           /\ Tracks(c) /\ Knows(c)
           /\ pc[c] \in {"rejecting", "resolving", "deciding"} /\ h.epoch = x.epoch =>
                h = x
  BY <1>1, AnswererHas
<1>3. /\ pc \in [Calls -> PC] /\ heap \in [Calls -> RunState] /\ ref[c] \in Calls
  BY <1>1, HolderFacts DEF Tracked, Ownership, Shape, TypeOK
<1>4. CASE Finish(c) /\ UNCHANGED heap
  <2>1. pc'[c] = "done" /\ \A d \in Calls : d # c => pc'[d] = pc[d]
    BY <1>3, <1>4 DEF Finish, Goto
  <2>2. ~Tracking(c)'
    BY <2>1 DEF Tracking, Drives
  <2>3. QED BY <1>1, <1>4, <2>1, <2>2, QuietTracked
<1>5. CASE /\ heap' = [heap EXCEPT ![ref[c]].interrupt = 0,
                                   ![ref[c]].status = "RUNNING"]
           /\ Goto(c, "resumed")
  <2> DEFINE u == [o EXCEPT !.interrupt = 0, !.status = "RUNNING"]
  <2>1. /\ heap'[ref[c]] = u
        /\ \A d \in Calls : d # ref[c] => heap'[d] = heap[d]
        /\ pc'[c] = "resumed" /\ \A d \in Calls : d # c => pc'[d] = pc[d]
    BY <1>2, <1>3, <1>5 DEF Goto, Object
  <2>2. u \in RunState /\ u.run = r /\ u.epoch = o.epoch /\ u.status = "RUNNING"
    BY <1>2 DEF RunState, Status
  <2>3. Version(u) = [h EXCEPT !.status = "RUNNING"]
    <3>1. [h EXCEPT !.status = "RUNNING"] \in AVersion
          /\ [h EXCEPT !.status = "RUNNING"].run = h.run
          /\ [h EXCEPT !.status = "RUNNING"].epoch = h.epoch
      BY DEF AVersion, Status
    <3>2. Says([h EXCEPT !.status = "RUNNING"], u)
      BY <1>2 DEF Says, AVersion, RunState
    <3>3. Says(Version(u), u) /\ Version(u) \in AVersion
          /\ Version(u).run = u.run /\ Version(u).epoch = u.epoch
      BY <2>2, VersionOf
    <3>4. Says(Version(u), [h EXCEPT !.status = "RUNNING"])
      BY <3>2, <3>3 DEF Says
    <3>5. QED BY <1>2, <2>2, <3>1, <3>3, <3>4, SameVersion
  <2> HIDE DEF u
  <2>4. RunOf(c)' = r /\ Held(c)' = Version(u) /\ Now(r)' = x
        /\ Held(c)'.epoch = h.epoch
    BY <1>1, <1>2, <2>1, <2>2, VersionOf DEF RunOf, Object, Held, Now
  <2>5. h.epoch = x.epoch => Held(c)' = [x EXCEPT !.status = "RUNNING"]
    BY <1>1, <1>2, <2>3, <2>4
  <2>6. Tracks(c)'
    BY <2>1, <2>4, <2>5 DEF Tracks, Drives
  <2>7. heap'[ref[c]].status \notin WaitingStatus
    BY <2>1, <2>2 DEF WaitingStatus
  <2>8. Tracked'
    BY <1>1, <2>1, <2>6, <2>7, QuietKeepsTracked
  <2>9. QED BY <1>1, <2>8 DEF LifecycleStep
<1>6. QED
  BY <1>4, <1>5 DEF DecideRequest

-----------------------------------------------------------------------------
(* Calls that create a run *)

(* A call that creates its run is the first to know of it. *)
LEMMA CreatedTracked ==
  ASSUME Tracked, Ownership', ReliableStore, NEW c \in Calls, pc[c] = "idle",
         NEW s \in RunState, s.run = c, Valid(s), s.resume = None,
         s.status \in {"PENDING", "RUNNING"},
         Persist(c, c, s, "registering"), ref' = ref, local' = local,
         NEW v \in AVersion, Says(v, s),
         Lifecycle!Becomes(c, v) => MachineStep(c)
  PROVE  Tracked' /\ LifecycleStep
<1> DEFINE w == Prepared(s)
<1>1. /\ TypeOK /\ StoreTypeOK /\ c \in Runs /\ "registering" \in DOMAIN InPut /\ Fresh(c)
      /\ Ownership
  BY PutLabels DEF Tracked, Ownership, Shape, TypeOK, Calls, Fresh
<1>2. /\ ref[c] = c
      /\ \A d \in Calls : ref[d] = c => d = c
  BY <1>1 DEF Ownership, Shape, FreshIsPrivate
<1>3. /\ heap \in [Calls -> RunState] /\ state[c] \in RunState
      /\ w \in RunState /\ w.run = c /\ w.ckpt = 0 /\ Says(w, s)
  <2>1. heap \in [Calls -> RunState] /\ state[c] \in RunState
    BY <1>1 DEF TypeOK, StoreTypeOK
  <2>2. w \in RunState /\ w.run = c /\ w.ckpt = 0
    BY DEF Prepared, RunState
  <2>3. Says(w, s)
    BY DEF Prepared, RunState, Says
  <2>4. QED BY <2>1, <2>2, <2>3
<1>4. Stores(c, s)
  BY <1>1, PersistIsStores
<1>5. /\ pc'[c] \in {"registering", "done"}
      /\ \A d \in Calls : d # c => pc'[d] = pc[d]
      /\ \A p \in Procs, q \in Runs :
           cache'[p][q] = IF p = ProcOf[c] /\ q = c THEN c ELSE cache[p][q]
  BY <1>1, PersistFacts, PersistGoes DEF TypeOK, ReliableStore
<1>6. state[c].epoch = 0 /\ state[c] = NoState /\ s.epoch \in Nat
  <2>1. state[c] = NoState
    BY <1>1 DEF Ownership, NamedByItsCall, Stored
  <2>2. NoState.epoch = 0
    BY DEF NoState
  <2>3. s.epoch \in Nat
    BY DEF RunState
  <2>4. QED BY <2>1, <2>2, <2>3
<1>7. Taken(c, c, s, "registering")
  <2>1. Taken(c, c, s, "registering") \/ Refused(c, c, s)
    BY <1>1, PersistOutcome
  <2>2. ~Refused(c, c, s)
    BY <1>6 DEF Refused
  <2>3. QED BY <2>1, <2>2
<1>8. \A x \in Calls : x # c /\ InUse(x)' => InUse(x)
  <2>1. SUFFICES ASSUME NEW x \in Calls, x # c, InUse(x)'
                 PROVE  InUse(x)
    OBVIOUS
  <2>2. ProcOf[x] \in Procs
    BY RuntimeConstants
  <2>3. QED
    BY <1>2, <1>5, <2>1, <2>2 DEF InUse, Live
<1>9. \A d \in Calls : d # c /\ Tracking(d) => ref[d] # c /\ RunOf(d) # c
  <2>1. SUFFICES ASSUME NEW d \in Calls, d # c, Tracking(d)
                 PROVE  RunOf(d) # c
    BY <1>2
  <2>2. Working(d)
    BY <1>1, <2>1, TrackerFacts
  <2>3. pc[RunOf(d)] # "idle"
    BY <1>1, <2>2, HolderFacts
  <2>4. QED BY <2>3
<1>10. Put(w) /\ heap'[c] = state'[c]
  <2>1. s.epoch >= state[c].epoch
    BY <1>6
  <2>2. QED BY <1>3, <1>4, <1>6, <2>1 DEF Stores
<1> HIDE DEF w
<1>11. Lifecycle!Becomes(c, v)
  <2>1. Says(v, w)
    BY <1>3 DEF Says
  <2>2. QED BY <1>1, <1>3, <1>10, <2>1, PutBecomes
<1>12. Tracks(c)'
  <2>1. PutAs(w)
    BY <1>1, <1>3, <1>10, PutAppends
  <2>2. state'[c] \in RunState /\ state'[c].run = c /\ state'[c].resume = None
    BY <1>3, <2>1 DEF PutAs, CopyOf, Says
  <2>3. RunOf(c)' = c /\ Held(c)' = Now(c)'
    BY <1>2, <1>10, <2>2 DEF RunOf, Object, Held, Now
  <2>4. Now(c)'.resume = None
    BY <2>2, VersionOf DEF Now, Says
  <2>5. pc'[c] = "registering"
    BY <1>7 DEF Taken
  <2>6. QED
    BY <2>3, <2>4, <2>5 DEF Tracks, Drives
<1>13. \A d \in Calls : d # c => pc'[d] = pc[d] /\ local'[d] = local[d]
  BY <1>5
<1>14. \A d \in Calls : d # c /\ Tracking(d) => ref[d] # c
  BY <1>9
<1>15. \A d \in Calls : d # c /\ Drives(d) => RunOf(d) # c
  BY <1>9 DEF Tracking
<1>16. \A x \in Calls : InUse(x)' /\ x # c => InUse(x)
  BY <1>8
<1>17. Tracked'
  BY <1>1, <1>2, <1>4, <1>12, <1>13, <1>14, <1>15, <1>16, StoringKeepsTracked
<1>18. QED
  BY <1>1, <1>3, <1>11, <1>17, BecomesIsNext DEF LifecycleStep

(* Creating a run is the beginning, or the restoring, of the machine. *)
LEMMA StartedTracked ==
  ASSUME Tracked, Ownership', ReliableStore, NEW c \in Calls,
         \/ \E t \in Threads : RunWorkflow(c, t)
         \/ \E k \in DOMAIN checkpoints : ResumeFromCheckpoint(c, k)
  PROVE  Tracked' /\ LifecycleStep
<1>1. /\ pc[c] = "idle" /\ c \in Runs /\ ref' = ref /\ local' = local
  BY DEF RunWorkflow, ResumeFromCheckpoint, At, Calls
<1>2. Lifecycle!Is(c, "ABSENT")
  <2>1. state[c] = NoState
    BY <1>1 DEF Tracked, Ownership, NamedByItsCall, Stored
  <2>2. Version(NoState).status = "ABSENT"
    BY DEF Version, NoState
  <2>3. QED BY <1>1, <2>1, <2>2 DEF Lifecycle!Is
<1>3. ASSUME NEW t \in Threads, RunWorkflow(c, t)
      PROVE  Tracked' /\ LifecycleStep
  <2> DEFINE s == NewRun(c, t)
             v == [Lifecycle!NoVersion EXCEPT !.thread = t, !.status = "PENDING",
                                              !.step = Entry]
  <2>1. /\ s \in RunState /\ s.run = c /\ s.status = "PENDING" /\ Valid(s)
        /\ s.resume = None
    BY <1>1, RuntimeConstants DEF NewRun, NoState, RunState, Status, Valid
  <2>2. Persist(c, c, s, "registering")
    BY <1>3 DEF RunWorkflow
  <2>3. v \in AVersion
    BY RuntimeConstants DEF AVersion, Lifecycle!NoVersion, Status
  <2>4. Says(v, s)
    BY DEF Says, Lifecycle!NoVersion, NewRun, NoState
  <2>5. Lifecycle!Becomes(c, v) => MachineStep(c)
    BY <1>2 DEF Lifecycle!Begin, MachineStep
  <2> HIDE DEF s, v
  <2>6. QED
    BY <1>1, <2>1, <2>2, <2>3, <2>4, <2>5, CreatedTracked
<1>4. ASSUME NEW k \in DOMAIN checkpoints, ResumeFromCheckpoint(c, k)
      PROVE  Tracked' /\ LifecycleStep
  <2>1. PICK q \in RunState : q = checkpoints[k]
    BY ElementOfSeq, LenProperties DEF Tracked, Ownership, Shape, TypeOK, StoreTypeOK
  <2>2. PICK x \in AVersion : x = Version(q) /\ Says(x, q) /\ x \in Versions
    BY <2>1, VersionOf DEF Versions
  <2> DEFINE s == [q EXCEPT !.run = c, !.status = "RUNNING", !.approval = None,
                            !.interrupt = 0, !.resume = None]
             v == [x EXCEPT !.status = "RUNNING", !.approval = None, !.resume = None]
  <2>3. "RUNNING" \in Status
    BY DEF Status
  <2>4. /\ s \in RunState /\ s.run = c /\ s.status = "RUNNING" /\ s.resume = None
    BY <1>1, <2>3 DEF RunState
  <2>5. Persist(c, c, s, "registering")
    BY <1>4, <2>1 DEF ResumeFromCheckpoint, Restored
  <2>6. v \in AVersion
    BY <2>3 DEF AVersion
  <2>7. Says(v, s)
    BY <2>2 DEF Says, AVersion, RunState
  <2>8. Lifecycle!Becomes(c, v) => MachineStep(c)
    BY <1>2, <2>2 DEF Lifecycle!Restore, MachineStep, Versions
  <2> HIDE DEF s, v
  <2>9. Valid(s)
    BY <2>4 DEF Valid
  <2>10. QED
    BY <1>1, <2>4, <2>5, <2>6, <2>7, <2>8, <2>9, CreatedTracked
<1>5. QED
  BY <1>3, <1>4

-----------------------------------------------------------------------------
(* Resumes, until the run is taken *)

(* A call that is not touched, in a step that leaves the store alone. *)
LEMMA UntouchedTracks ==
  ASSUME Tracked, NEW d \in Calls,
         UNCHANGED <<state, checkpoints>>,
         pc'[d] = pc[d], local'[d] = local[d], ref'[d] = ref[d],
         Tracking(d) => heap'[ref[d]] = heap[ref[d]]
  PROVE  Tracks(d)'
<1>1. SUFFICES ASSUME Tracking(d) PROVE Tracks(d)'
  BY NotTrackingNext DEF Tracking, Drives
<1>2. PICK r \in Runs : r = RunOf(d)
  BY <1>1, TrackerFacts DEF Tracked
<1>3. Object(d)' = Object(d)
  BY <1>1 DEF Object
<1>4. Now(r)' = Now(r) /\ VersionsGrow
  BY DEF Now, VersionsGrow, Versions
<1>5. QED
  BY <1>2, <1>3, <1>4, KeepsTracking DEF Tracked

(* A resume takes an object over: if it is as new as the store, it holds      *)
(* what is stored, and an approval is entered into it alone.                  *)
LEMMA DispatchTracked ==
  ASSUME Tracked, Ownership', NEW c \in Calls, Fresh(c),
         NEW o \in Calls, InUse(o), ProcOf[o] = ProcOf[c],
         NEW l, Dispatch(c, o, l), UNCHANGED <<state, checkpoints>>,
         \A p \in Procs, r \in Runs :
           cache'[p][r] = cache[p][r] \/ (p = ProcOf[c] /\ cache'[p][r] = o)
  PROVE  Tracked'
<1>1. /\ ref \in [Calls -> Calls] /\ heap \in [Calls -> RunState] /\ Ownership
      /\ pc \in [Calls -> PC] /\ local \in [Calls -> Local]
  BY DEF Tracked, Ownership, Shape, TypeOK
<1>2. /\ ref'[c] = o
      /\ \A d \in Calls : d # c => /\ ref'[d] = ref[d]
                                   /\ pc'[d] = pc[d] /\ local'[d] = local[d]
  BY <1>1 DEF Dispatch, Goto
<1>3. PICK s \in RunState : s = heap[o] /\ s.run \in Runs
  BY <1>1, InUseHasRun
<1>4. \A x \in Calls : InUse(x)' => InUse(x)
  <2>1. SUFFICES ASSUME NEW x \in Calls, x # o, InUse(x)'
                 PROVE  InUse(x)
    OBVIOUS
  <2>2. ProcOf[x] \in Procs
    BY RuntimeConstants
  <2>3. QED
    BY <1>2, <2>1, <2>2 DEF InUse, Live
<1>5. Kept' /\ \A r \in Runs : WaitsToMoveOn(r)'
  BY DEF Tracked, Kept, IsVersion, Stored, WaitsToMoveOn
<1>6. \A d \in Calls : pc[d] = "granting" => pc'[d] = "granting" /\ ref'[d] = ref[d]
  BY <1>2 DEF Fresh
<1>7. ASSUME NEW x \in Calls, InUse(x)', heap'[x] = heap[x]
      PROVE  Waits(x)'
  <2>1. Waits(x) /\ heap[x] \in RunState
    BY <1>1, <1>4, <1>7 DEF Tracked
  <2>2. QED BY <1>6, <1>7, <2>1, WaitsStays
<1>8. CASE pc'[c] \in {"rejecting", "resolving", "done"} /\ heap' = heap
  <2>1. Tracks(c)'
    BY <1>8, NotTrackingNext DEF Tracking, Drives
  <2>2. \A d \in Calls : Tracks(d)'
    BY <1>2, <1>8, <2>1, UntouchedTracks
  <2>3. \A x \in Calls : InUse(x)' => Waits(x)'
    BY <1>7, <1>8
  <2>4. QED BY <1>5, <2>2, <2>3 DEF Tracked
<1>9. ASSUME pc'[c] = "granting", s.status = "WAITING_APPROVAL", s.approval # None,
             heap' = [heap EXCEPT ![o].approved = @ \cup {s.approval}]
      PROVE  Tracked'
  <2> DEFINE t == [s EXCEPT !.approved = @ \cup {s.approval}]
  <2>1. t \in RunState /\ t.run = s.run /\ t.epoch = s.epoch /\ t.status = s.status
    BY <1>9 DEF RunState
  <2>2. heap'[o] = t /\ \A x \in Calls : x # o => heap'[x] = heap[x]
    BY <1>1, <1>3, <1>9
  <2>3. PICK h \in AVersion : h = Version(s) /\ h.run = s.run /\ h.epoch = s.epoch
                              /\ Says(h, s)
    BY VersionOf
  <2>4. Version(t) = [h EXCEPT !.approved = @ \cup {h.approval}]
    <3> DEFINE g == [h EXCEPT !.approved = @ \cup {h.approval}]
    <3>1. g \in AVersion /\ g.run = h.run /\ g.epoch = h.epoch
      BY <1>9, <2>3 DEF AVersion, RunState, Says
    <3>2. Says(g, t)
      BY <2>3 DEF Says, AVersion, RunState
    <3>3. Says(Version(t), t) /\ Version(t) \in AVersion
          /\ Version(t).run = t.run /\ Version(t).epoch = t.epoch
      BY <2>1, VersionOf
    <3> HIDE DEF g, t
    <3>4. Says(Version(t), g)
      BY <3>2, <3>3 DEF Says
    <3>5. Version(t) = g
      BY <2>1, <2>3, <3>1, <3>3, <3>4, SameVersion
    <3>6. QED BY <3>5 DEF g
  <2> HIDE DEF t
  <2>5. ASSUME NEW d \in Calls, d # c, Tracking(d)
        PROVE  ref[d] \in Calls /\ ref[d] # o
    <3>1. /\ Holds(d) /\ ref[d] \in Calls /\ Object(d) = heap[ref[d]] /\ Knows(d)
      BY <1>1, <2>5, TrackerFacts DEF Ownership, HoldersKnowTheirRun
    <3>2. CASE pc[d] = "granting"
      <4>1. Holds(c)' /\ Holds(d)' /\ ref'[d] = ref[d] /\ ref'[c] = o
        BY <1>2, <1>9, <2>5, <3>2 DEF Holds, Taking
      <4>2. QED BY <2>5, <3>1, <4>1 DEF Ownership, OneHolderPerObject
    <3>3. CASE pc[d] # "granting"
      <4>1. heap[ref[d]].status \in {"PENDING", "RUNNING"}
        BY <2>5, <3>1, <3>3 DEF Knows, Tracking, Drives
      <4>2. QED BY <1>3, <1>9, <3>1, <4>1
    <3>4. QED BY <3>2, <3>3
  <2>6. Tracks(c)'
    <3>1. Held(c)' = Version(t)
      BY <1>2, <2>2 DEF Held, Object
    <3>2. RunOf(c)' = s.run /\ Now(s.run)' = Now(s.run)
      BY <1>2, <2>1, <2>2 DEF RunOf, Object, Now
    <3>3. ASSUME h.epoch = Now(s.run).epoch PROVE h = Now(s.run)
      <4>1. Waits(o)
        BY DEF Tracked
      <4>2. h.run = s.run /\ h.status = "WAITING_APPROVAL"
        BY <1>9, <2>3 DEF Says
      <4>3. h = Now(s.run) \/ \E d \in Calls : pc[d] = "granting" /\ ref[d] = o
        BY <1>3, <2>3, <3>3, <4>1, <4>2 DEF Waits
      <4>4. ~ \E d \in Calls : pc[d] = "granting" /\ ref[d] = o
        BY <2>5 DEF Tracking, Fresh
      <4>5. QED BY <4>3, <4>4
    <3>4. Held(c)'.epoch = h.epoch
      BY <2>1, <2>3, <3>1, VersionOf
    <3>5. Held(c)'.epoch = Now(s.run).epoch =>
            Held(c)' = [Now(s.run) EXCEPT !.approved = @ \cup {Now(s.run).approval}]
      BY <2>4, <3>1, <3>3, <3>4
    <3>6. QED
      BY <1>9, <3>2, <3>5 DEF Tracks, Drives
  <2>7. ASSUME NEW d \in Calls, d # c PROVE Tracks(d)'
    BY <1>2, <2>2, <2>5, <2>7, UntouchedTracks
  <2>8. \A x \in Calls : InUse(x)' /\ x # o => Waits(x)'
    BY <1>7, <2>2
  <2>9. Waits(o)'
    BY <1>2, <1>9 DEF Waits
  <2>10. QED BY <1>5, <2>6, <2>7, <2>8, <2>9 DEF Tracked
<1>10. QED
  BY <1>1, <1>3, <1>8, <1>9 DEF Dispatch, Goto

(* A resume reads what is stored. *)
LEMMA LoadingTracked ==
  ASSUME Tracked, Ownership', NEW c \in Calls, pc[c] = "idle",
         NEW r \in Runs, Stored(r),
         heap' = [heap EXCEPT ![c] = state[r]],
         pc' = [pc EXCEPT ![c] = "loading"],
         \A d \in Calls : d # c => local'[d] = local[d],
         UNCHANGED <<state, checkpoints, ref, cache>>
  PROVE  Tracked'
<1>1. /\ Fresh(c) /\ Ownership
      /\ heap'[c] = state[r]
      /\ \A x \in Calls : x # c => heap'[x] = heap[x]
      /\ pc'[c] = "loading"
      /\ \A d \in Calls : d # c => pc'[d] = pc[d]
  BY DEF Fresh, Tracked, Ownership, Shape, TypeOK
<1>2. /\ ref[c] = c /\ \A d \in Calls : ref[d] = c => d = c
      /\ heap \in [Calls -> RunState] /\ ref \in [Calls -> Calls]
  BY <1>1 DEF Ownership, Shape, FreshIsPrivate, TypeOK
<1>3. Kept' /\ \A q \in Runs : WaitsToMoveOn(q)'
  BY DEF Tracked, Kept, IsVersion, Stored, WaitsToMoveOn
<1>4. Tracks(c)'
  BY <1>1, NotTrackingNext DEF Tracking, Drives
<1>5. ASSUME NEW d \in Calls, d # c PROVE Tracks(d)'
  BY <1>1, <1>2, <1>5, UntouchedTracks
<1>6. ASSUME NEW x \in Calls, x # c, InUse(x)' PROVE Waits(x)'
  <2>1. InUse(x)
    BY <1>1, <1>2, <1>6 DEF InUse, Live
  <2>2. Waits(x) /\ heap[x] \in RunState /\ heap'[x] = heap[x]
    BY <1>1, <1>2, <1>6, <2>1 DEF Tracked
  <2>3. \A d \in Calls : pc[d] = "granting" => pc'[d] = "granting" /\ ref'[d] = ref[d]
    BY <1>1
  <2>4. QED BY <2>2, <2>3, WaitsStays
<1>7. Waits(c)'
  <2>1. state[r] \in RunState /\ state[r].run = r
    BY <1>1 DEF Ownership, Shape, TypeOK, StoreTypeOK, ObjectsHaveRuns
  <2>2. Version(state[r]).run = r
    BY <2>1, VersionOf
  <2>3. QED BY <1>1, <2>2 DEF Waits, Now
<1>8. QED
  BY <1>3, <1>4, <1>5, <1>6, <1>7 DEF Tracked

(* No version is made before a resume has persisted the object. *)
LEMMA ResumeTracked ==
  ASSUME Tracked, Ownership', NEW c \in Calls,
         (\E r \in Runs : ResumeWorkflow(c, r)) \/ Loaded(c)
  PROVE  Tracked' /\ LifecycleStep
<1>1. /\ Fresh(c) /\ Ownership /\ ProcOf[c] \in Procs
      /\ UNCHANGED <<state, checkpoints>>
  BY RuntimeConstants DEF ResumeWorkflow, Loaded, At, Fresh, storeVars, Tracked
<1>2. ASSUME NEW r \in Runs, NEW l, ResumeCached(c, r, l)
      PROVE  Tracked'
  <2>1. PICK o \in Calls : /\ o = cache[ProcOf[c]][r]
                           /\ Dispatch(c, o, l)
                           /\ UNCHANGED cache
    BY <1>1, <1>2 DEF ResumeCached, Ownership, Shape, TypeOK
  <2>2. ProcOf[o] = ProcOf[c] /\ o # None
    BY <1>1, <1>2, <2>1 DEF Ownership, OwnProcess, ResumeCached
  <2>3. InUse(o)
    BY <2>1, <2>2 DEF InUse
  <2>4. QED
    BY <1>1, <2>1, <2>2, <2>3, DispatchTracked
<1>3. ASSUME NEW r \in Runs, NEW l, ResumeLoading(c, r, l), pc[c] = "idle"
      PROVE  Tracked'
  <2>1. /\ Stored(r)
        /\ heap' = [heap EXCEPT ![c] = state[r]]
        /\ pc' = [pc EXCEPT ![c] = "loading"]
        /\ \A d \in Calls : d # c => local'[d] = local[d]
        /\ UNCHANGED <<ref, cache>>
    BY <1>1, <1>3 DEF ResumeLoading, Goto, Ownership, Shape, TypeOK
  <2>2. QED BY <1>1, <1>3, <2>1, LoadingTracked
<1>4. ASSUME Loaded(c)
      PROVE  Tracked'
  <2>1. pc[c] = "loading" /\ Live(c) /\ Dispatch(c, c, local[c])
    BY <1>4 DEF Loaded, At, Live
  <2>2. InUse(c)
    BY <1>1, <2>1 DEF InUse, Ownership, Shape, FreshIsPrivate
  <2>3. \A p \in Procs, r \in Runs :
          cache'[p][r] = cache[p][r] \/ (p = ProcOf[c] /\ cache'[p][r] = c)
    BY <1>1, <1>4 DEF Loaded, Ownership, Shape, TypeOK
  <2>4. QED BY <1>1, <2>1, <2>2, <2>3, DispatchTracked
<1>5. Tracked'
  BY <1>2, <1>3, <1>4 DEF ResumeWorkflow, At
<1>6. QED
  BY <1>1, <1>5 DEF LifecycleStep

-----------------------------------------------------------------------------
(* Crashes, the clock, other clients, and nothing at all. *)
LEMMA StoppingTracked ==
  ASSUME Tracked, Ownership',
         UNCHANGED <<state, checkpoints, heap, ref, local>>,
         \A d \in Calls : pc'[d] = pc[d] \/ pc'[d] = "crashed",
         \A d, x \in Calls : pc'[d] # pc[d] /\ Live(x) /\ ProcOf[x] = ProcOf[d]
                               => pc'[x] = "crashed",
         \A p \in Procs, r \in Runs :
           \/ cache'[p][r] = cache[p][r]
           \/ cache'[p][r] = None,
         \A d \in Calls : pc'[d] # pc[d] =>
           \A r \in Runs : cache'[ProcOf[d]][r] = None
  PROVE  Tracked'
<1>1. Ownership /\ heap \in [Calls -> RunState]
  BY DEF Tracked, Ownership, Shape, TypeOK
<1>2. Kept' /\ \A q \in Runs : WaitsToMoveOn(q)'
  BY DEF Tracked, Kept, IsVersion, Stored, WaitsToMoveOn
<1>3. ASSUME NEW d \in Calls PROVE Tracks(d)'
  <2>1. CASE pc'[d] = pc[d]
    BY <2>1, UntouchedTracks
  <2>2. CASE pc'[d] = "crashed"
    BY <2>2, NotTrackingNext DEF Tracking, Drives
  <2>3. QED BY <2>1, <2>2
<1>4. ASSUME NEW x \in Calls, InUse(x)' PROVE Waits(x)'
  <2>1. x # None /\ ProcOf[x] \in Procs
    BY NoneIsNoName, RuntimeConstants DEF Calls
  <2>2. InUse(x)
    BY <1>4, <2>1 DEF InUse, Live
  <2>3. ASSUME NEW d \in Calls, pc[d] = "granting", ref[d] = x, pc'[d] # pc[d]
        PROVE  FALSE
    <3>1. ProcOf[x] = ProcOf[d]
      BY <1>1, <2>3 DEF Ownership, OwnProcess
    <3>2. \A r \in Runs : cache'[ProcOf[x]][r] # x
      BY <2>1, <2>3, <3>1
    <3>3. PICK y \in Calls : Live(y)' /\ ref[y] = x
      BY <1>4, <3>2 DEF InUse
    <3>4. Live(y) /\ ProcOf[y] = ProcOf[d]
      BY <1>1, <3>1, <3>3 DEF Ownership, OwnProcess, Live
    <3>5. QED BY <2>3, <3>3, <3>4 DEF Live
  <2>4. Waits(x) /\ heap[x] \in RunState
    BY <1>1, <2>2 DEF Tracked
  <2>5. \A d \in Calls : pc[d] = "granting" /\ ref[d] = x =>
          pc'[d] = "granting" /\ ref'[d] = x
    BY <2>3
  <2>6. QED BY <2>4, <2>5, WaitsStays
<1>5. QED
  BY <1>2, <1>3, <1>4 DEF Tracked

(* A process dies with its calls and its cache; nothing else it does is       *)
(* seen.                                                                      *)
LEMMA EnvironmentTracked ==
  ASSUME Tracked, Ownership', Environment \/ UNCHANGED vars
  PROVE  Tracked' /\ LifecycleStep
<1>1. ASSUME UNCHANGED <<state, checkpoints, heap, ref, cache, pc, local>>
      PROVE  Tracked'
  BY <1>1, StoppingTracked
<1>2. ASSUME NEW p \in Procs, Crash(p)
      PROVE  Tracked'
  <2>1. UNCHANGED <<state, checkpoints, heap, ref, local>>
    BY <1>2 DEF Crash, storeVars
  <2>2. \A d \in Calls :
          pc'[d] = IF ProcOf[d] = p /\ Live(d) THEN "crashed" ELSE pc[d]
    BY <1>2 DEF Crash
  <2>3. \A q \in Procs, r \in Runs :
          cache'[q][r] = IF q = p THEN None ELSE cache[q][r]
    BY <1>2 DEF Crash, Tracked, Ownership, Shape, TypeOK
  <2>4. QED
    BY <2>1, <2>2, <2>3, StoppingTracked
<1>3. ASSUME UNCHANGED <<storeVars, heap, ref, cache, pc, local>>
      PROVE  Tracked' /\ LifecycleStep
  <2>1. UNCHANGED <<state, checkpoints, heap, ref, cache, pc, local>>
    BY <1>3 DEF storeVars
  <2>2. QED BY <1>1, <2>1 DEF LifecycleStep
<1>4. CASE UNCHANGED vars
  BY <1>3, <1>4 DEF vars, runtimeVars
<1>5. ASSUME NEW p \in Procs, Crash(p)
      PROVE  Tracked' /\ LifecycleStep
  <2>1. UNCHANGED <<state, checkpoints>>
    BY <1>5 DEF Crash, storeVars
  <2>2. QED BY <1>2, <1>5, <2>1 DEF LifecycleStep
<1>6. CASE Environment
  BY <1>3, <1>5, <1>6
     DEF Environment, ExpireRequest, ListPendingInterrupts, runtimeVars
<1>7. QED
  BY <1>4, <1>6

-----------------------------------------------------------------------------
(* The theorems *)

(* Nothing is stored, no call works. *)
LEMMA InitTracked == Init => Tracked
<1> SUFFICES ASSUME Init PROVE Tracked
  OBVIOUS
<1>1. Ownership /\ Kept
  BY InitOwnership, InitKept
<1>2. \A c \in Calls : Tracks(c)
  <2>1. \A c \in Calls : pc[c] = "idle"
    BY DEF Init
  <2>2. QED BY <2>1, NotTracking DEF Tracking, Drives
<1>3. \A r \in Runs : WaitsToMoveOn(r)
  BY DEF Init, StoreInit, NoState, WaitsToMoveOn
<1>4. ASSUME NEW o \in Calls, InUse(o) PROVE FALSE
  <2>1. o # None /\ ProcOf[o] \in Procs
    BY NoneIsNoName, RuntimeConstants DEF Calls
  <2>2. QED BY <1>4, <2>1 DEF Init, InUse, Live
<1>5. QED
  BY <1>1, <1>2, <1>3, <1>4 DEF Tracked

(* Every step keeps Tracked and is a step of the machine or none. *)
LEMMA NextTracked ==
  ASSUME AtomicResume, ReliableStore, Tracked, [Next]_vars
  PROVE  Tracked' /\ LifecycleStep
<1>1. Ownership'
  BY NextKeepsOwnership DEF Tracked
<1>2. ASSUME NEW c \in Calls, Start(c)
      PROVE  Tracked' /\ LifecycleStep
  BY <1>1, <1>2, StartedTracked, ResumeTracked DEF Start
<1>3. ASSUME NEW c \in Calls, Proceed(c)
      PROVE  Tracked' /\ LifecycleStep
  <2>1. CASE RegisterActiveRun(c) \/ Launch(c)
    BY <1>1, <2>1, RegisterTracked, LaunchTracked
  <2>2. CASE Resuming(c)
    BY <1>1, <2>2, ResumeTracked, GrantTracked, RefuseTracked, EndingTracked,
       DecideTracked, AnswerTracked, ContinueTracked DEF Resuming
  <2>3. CASE Advancing(c)
    BY <1>1, <2>3, EndingTracked, LaunchTracked, AskTracked, ExecuteTracked,
       RecordTracked, TransitTracked, CreateTracked, InterruptTracked DEF Advancing
  <2>4. ~Write(c)
    BY PutsAtOnce DEF Tracked, Ownership, ReliableStore
  <2>5. QED BY <1>3, <2>1, <2>2, <2>3, <2>4 DEF Proceed
<1>4. QED
  BY <1>1, <1>2, <1>3, EnvironmentTracked DEF Next

(* Every call knows where its run is: what it works on is what the store has,   *)
(* with what it has itself done to it since, or is refused by the next put.    *)
THEOREM TrackedAlways ==
  ASSUME AtomicResume, ReliableStore
  PROVE  Spec => []Tracked
<1>1. Tracked /\ [Next]_vars => Tracked'
  BY NextTracked
<1>2. QED
  BY <1>1, InitTracked, PTL DEF Spec

(* Nothing is stored, and the machine of each run is at its beginning. *)
LEMMA InitLifecycle == Init => Lifecycle!Init
<1> SUFFICES ASSUME Init PROVE Lifecycle!Init
  OBVIOUS
<1>1. Version(NoState) = Lifecycle!NoVersion
  BY DEF Version, NoState, Lifecycle!NoVersion
<1>2. \A r \in Runs : state[r] = NoState
  BY DEF Init, StoreInit
<1>3. checkpoints = << >>
  BY DEF Init, StoreInit
<1>4. [r \in Runs |-> Version(state[r])] = [r \in Runs |-> Lifecycle!NoVersion]
  BY <1>1, <1>2
<1>5. {Version(checkpoints[i]) : i \in DOMAIN checkpoints} = {}
  BY <1>3
<1>6. QED
  BY <1>4, <1>5 DEF Lifecycle!Init

(* The engine implements RunLifecycle: with any number of calls and processes   *)
(* that race, crash at any point and restart, over a store that compares and    *)
(* writes in one step, the versions stored of each run are those of one         *)
(* sequential machine, each made from the one before it.                     *)
THEOREM LifecycleImplemented ==
  ASSUME AtomicResume, ReliableStore
  PROVE  Spec => ImplementsLifecycle
<1>1. LifecycleStep => [Lifecycle!Next]_Lifecycle!lifecycleVars
  BY DEF LifecycleStep, Lifecycle!lifecycleVars
<1>2. Tracked /\ [Next]_vars => [Lifecycle!Next]_Lifecycle!lifecycleVars
  BY <1>1, NextTracked
<1>3. QED
  BY <1>2, InitLifecycle, TrackedAlways, PTL
     DEF Spec, ImplementsLifecycle, Lifecycle!Spec

-----------------------------------------------------------------------------
(* Approvals: an execution of a gated step uses one up. *)

(* The steps a call is at are those Usable leaves out. *)
AtOne(c) == pc[c] \in {"executing", "stepping", "pausing"}

(* A step that neither grants nor uses an approval, and after which nobody    *)
(* drives a run who did not drive it before.                                  *)
LEMMA CalmKeepsGranted ==
  ASSUME Granted, UNCHANGED <<state, checkpoints, history>>,
         \A d \in Calls : Drives(d)' =>
           /\ Drives(d)
           /\ RunOf(d)' = RunOf(d)
           /\ AtOne(d) => AtOne(d)' /\ local'[d].at = local[d].at
  PROVE  Granted'
<1>1. ASSUME NEW r \in Runs, NEW s \in Gated, Usable(r, s)'
      PROVE  Usable(r, s)
  <2>1. CASE \E d \in Calls : Drives(d)' /\ RunOf(d)' = r
                              /\ (AtOne(d)' => local'[d].at # s)
    <3>1. PICK d \in Calls : Drives(d)' /\ RunOf(d)' = r
                              /\ (AtOne(d)' => local'[d].at # s)
      BY <2>1
    <3>2. Drives(d) /\ RunOf(d) = r /\ (AtOne(d) => local[d].at # s)
      BY <3>1
    <3>3. QED BY <3>2 DEF Usable, AtOne
  <2>2. CASE \/ state[r].status = "WAITING_INTERRUPT"
             \/ state[r].status = "WAITING_APPROVAL" /\ state[r].approval # s
    BY <2>2 DEF Usable
  <2>3. QED BY <1>1, <2>1, <2>2 DEF Usable, AtOne
<1>2. \A r \in Runs, s \in Gated : /\ HasApproval(r, s)' <=> HasApproval(r, s)
                                   /\ Secondhand(r, s)' <=> Secondhand(r, s)
  BY DEF HasApproval, Secondhand, history
<1>3. QED
  BY <1>1, <1>2 DEF Granted, ApprovalsNotReused, history

(* What a put that is accepted remembers of the approvals.                    *)
LEMMA PersistRemembers ==
  ASSUME TypeOK, ReliableStore, NEW c \in Calls, NEW o \in Calls,
         NEW s \in RunState, s.run \in Runs, Valid(s), NEW label \in DOMAIN InPut,
         Persist(c, o, s, label)
  PROVE  /\ s.epoch >= state[s.run].epoch =>
              Put(Prepared(s)) /\ Remember(Prepared(s))
         /\ s.epoch < state[s.run].epoch => UNCHANGED <<state, checkpoints, history>>
<1> DEFINE w == Prepared(s)
<1>1. /\ w \in RunState /\ w.run = s.run /\ w.epoch = s.epoch /\ Valid(w)
  BY DEF Prepared, RunState, Valid
<1>2. state[s.run].epoch \in Nat /\ s.epoch \in Nat
  BY DEF TypeOK, StoreTypeOK, RunState
<1>3. InPut[label] \notin Yields /\ ~PutMayFail
  BY PutsAtOnce DEF ReliableStore
<1>4. Accepts(w) <=> s.epoch >= state[s.run].epoch
  BY <1>1, <1>2 DEF Accepts, Stale
<1> HIDE DEF w
<1>5. \/ Accepts(w) /\ Put(w) /\ Remember(w)
      \/ ~Accepts(w) /\ UNCHANGED <<storeVars, history>>
  BY <1>3 DEF Persist, w
<1>6. QED BY <1>2, <1>4, <1>5 DEF storeVars, w

LEMMA RememberKeeps ==
  ASSUME TypeOK, Granted, NEW w \in RunState, w.run \in Runs, w.ckpt = 0,
         Put(w), Remember(w)
  PROVE  /\ Len(unused') = Len(checkpoints')
         /\ unused'[Len(checkpoints) + 1] = {s \in Steps : Entitled(w)[s] > 0}
         /\ ApprovalsNotReused'
         /\ reused' = reused
         /\ \A q \in Runs, a \in Gated : Secondhand(q, a) => Secondhand(q, a)'
         /\ \A q \in Runs, a \in Steps :
              credit'[q][a] = IF q = w.run THEN Entitled(w)[a] ELSE credit[q][a]
<1> DEFINE n == Len(checkpoints)
           left == {s \in Steps : Entitled(w)[s] > 0}
<1>1. /\ n \in Nat /\ DOMAIN checkpoints = 1 .. n
      /\ DOMAIN checkpoints' = 1 .. n + 1
      /\ \A i \in DOMAIN checkpoints : checkpoints'[i] = checkpoints[i]
      /\ checkpoints' \in Seq(RunState)
  <2>1. StoreTypeOK /\ StoreTypeOK'
    BY PutType DEF TypeOK
  <2>2. QED BY <2>1, PutAppends DEF StoreTypeOK
<1>2. /\ unused \in Seq(SUBSET Steps) /\ Len(unused) = n
      /\ unused' = Append(unused, left) /\ left \in SUBSET Steps
      /\ reused' = reused /\ credit' = [credit EXCEPT ![w.run] = Entitled(w)]
      /\ credit \in [Runs -> [Steps -> Nat]]
  BY DEF Remember, Granted, TypeOK, HistoryTypeOK
<1> HIDE DEF left
<1>3. /\ Len(unused') = n + 1 /\ unused'[n + 1] = left
      /\ \A i \in 1 .. n : unused'[i] = unused[i]
  BY <1>1, <1>2
<1>4. Len(checkpoints') = n + 1
  BY <1>1, LenProperties
<1>5. ASSUME NEW q \in Runs, NEW a \in Gated, Secondhand(q, a)
      PROVE  Secondhand(q, a)'
  <2>1. PICK i \in 1 .. n : /\ checkpoints[i].run = q /\ checkpoints[i].epoch = 1
                            /\ a \in checkpoints[i].approved \ unused[i]
    BY <1>1, <1>5 DEF Secondhand
  <2>2. /\ i \in DOMAIN checkpoints' /\ checkpoints'[i] = checkpoints[i]
        /\ unused'[i] = unused[i]
    BY <1>1, <1>3
  <2>3. QED BY <2>1, <2>2 DEF Secondhand
<1>6. ASSUME NEW q \in Runs, NEW a \in Gated
      PROVE  reused'[q][a] <= (IF Secondhand(q, a)' THEN 1 ELSE 0)
  <2>1. reused[q][a] \in Nat /\ reused[q][a] <= (IF Secondhand(q, a) THEN 1 ELSE 0)
    BY RuntimeConstants DEF Granted, ApprovalsNotReused, TypeOK, HistoryTypeOK
  <2>2. QED BY <1>2, <1>5, <2>1
<1>7. \A q \in Runs, a \in Steps :
        credit'[q][a] = IF q = w.run THEN Entitled(w)[a] ELSE credit[q][a]
  BY <1>2
<1>8. QED BY <1>2, <1>3, <1>4, <1>5, <1>6, <1>7 DEF ApprovalsNotReused, left

(* A put of a stored run takes no approval away, and adds the one it grants.   *)
LEMMA PutGrants ==
  ASSUME TypeOK, Granted, NEW w \in RunState, w.run \in Runs, w.ckpt = 0,
         Stored(w.run), Put(w), Remember(w)
  PROVE  /\ Len(unused') = Len(checkpoints') /\ ApprovalsNotReused'
         /\ \A q \in Runs, a \in Gated : HasApproval(q, a) => HasApproval(q, a)'
         /\ \A a \in Gated :
              /\ state[w.run].status = "WAITING_APPROVAL"
              /\ state[w.run].approval = a
              /\ w.status = "RUNNING"
              => HasApproval(w.run, a)'
<1>1. /\ Gated \subseteq Steps
      /\ \A q \in Runs, a \in Steps : credit[q][a] \in Nat
  BY RuntimeConstants DEF TypeOK, HistoryTypeOK
<1>2. \A q \in Runs, a \in Gated :
        /\ Secondhand(q, a) => Secondhand(q, a)'
        /\ reused'[q][a] = reused[q][a]
        /\ credit'[q][a] = IF q = w.run THEN Entitled(w)[a] ELSE credit[q][a]
  BY <1>1, RememberKeeps
<1>3. \A a \in Steps :
        Entitled(w)[a] = credit[w.run][a]
                           + (IF /\ state[w.run].status = "WAITING_APPROVAL"
                                 /\ state[w.run].approval = a
                                 /\ w.status = "RUNNING"
                              THEN 1 ELSE 0)
  BY DEF Entitled
<1>4. \A q \in Runs, a \in Gated :
        credit[q][a] >= 1 => credit'[q][a] >= 1
  <2>1. SUFFICES ASSUME NEW q \in Runs, NEW a \in Gated, credit[q][a] >= 1
                 PROVE  credit'[q][a] >= 1
    OBVIOUS
  <2>2. CASE q = w.run
    BY <1>1, <1>2, <1>3, <2>1, <2>2
  <2>3. CASE q # w.run
    BY <1>2, <2>1, <2>3
  <2>4. QED BY <2>2, <2>3
<1>5. ASSUME NEW a \in Gated, state[w.run].status = "WAITING_APPROVAL",
             state[w.run].approval = a, w.status = "RUNNING"
      PROVE  credit'[w.run][a] >= 1
  <2>1. credit'[w.run][a] = credit[w.run][a] + 1 /\ credit[w.run][a] \in Nat
    BY <1>1, <1>2, <1>3, <1>5
  <2>2. QED BY <2>1
<1>6. QED BY <1>2, <1>4, <1>5, RememberKeeps DEF HasApproval

(* What is to be used of the approvals in a snapshot that a call persists.     *)
Spends(c, s, label, step) ==
  \/ label \in {"advancing", "continuing"}
  \/ label = "stepping" /\ local'[c].at # step
  \/ s.status = "WAITING_INTERRUPT"
  \/ s.status = "WAITING_APPROVAL" /\ s.approval # step

(* Persisting the newest object of a run: of its approvals only those that    *)
(* the snapshot, or what the call does next, still has a use for need an      *)
(* approval granted and not used.                                             *)
LEMMA PutKeepsGranted ==
  ASSUME Tracked, Granted, ReliableStore, NEW c \in Calls, WorkStep(c),
         Tracking(c) \/ pc[c] = "rejecting",
         NEW r \in Runs, r = RunOf(c), NEW s \in RunState, s.run = r,
         s.epoch = Object(c).epoch, Valid(s),
         NEW label \in {"advancing", "continuing", "stepping", "done", "clearing",
                        "syncing"},
         Persist(c, ref[c], s, label),
         Object(c).epoch = state[r].epoch =>
           \A a \in Gated : a \in s.approved /\ Spends(c, s, label, a) =>
             \/ HasApproval(r, a)
             \/ /\ state[r].status = "WAITING_APPROVAL" /\ state[r].approval = a
                /\ s.status = "RUNNING"
  PROVE  Granted'
<1> DEFINE o == ref[c]
           w == Prepared(s)
<1>1. /\ Working(c) /\ Ownership /\ TypeOK /\ StoreTypeOK /\ Shape
      /\ label \in DOMAIN InPut
  BY PutLabels
     DEF Tracking, Working, Live, Fresh, Drives, Tracked, Ownership, Shape, TypeOK
<1>2. /\ o \in Calls /\ heap[o].run = r /\ heap[o] = Object(c)
      /\ heap[o] \in RunState /\ state[r] \in RunState
      /\ s.epoch <= state[r].epoch /\ s.epoch \in Nat /\ state[r].epoch \in Nat
  BY <1>1, HolderFacts DEF Coherent, Object, RunState
<1>3. /\ w \in RunState /\ w.run = r /\ w.ckpt = 0 /\ Says(w, s)
  BY DEF Prepared, RunState, Says
<1>4. Stores(o, s) /\ (Taken(c, o, s, label) \/ Refused(c, o, s))
  BY <1>1, <1>2, PersistIsStores, PersistOutcome
<1>5. \A d \in Calls : /\ RunOf(d)' = RunOf(d)
                       /\ d # c => (pc'[d] = pc[d] /\ local'[d] = local[d])
  BY <1>1, WorkRuns DEF WorkStep
<1> HIDE DEF o, w
<1>6. \A d \in Calls : d # c => /\ Drives(d)' <=> Drives(d)
                                /\ AtOne(d)' <=> AtOne(d)
  BY <1>5 DEF Drives, AtOne
<1>7. ASSUME NEW q \in Runs, NEW a \in Gated, state'[q] = state[q],
             \A d \in Calls : Drives(d)' /\ RunOf(d)' = q => d # c,
             a \in state'[q].approved, Usable(q, a)'
      PROVE  HasApproval(q, a)
  <2>1. Usable(q, a)
    <3>1. CASE \E d \in Calls : Drives(d)' /\ RunOf(d)' = q
                                /\ (AtOne(d)' => local'[d].at # a)
      <4>1. PICK d \in Calls : Drives(d)' /\ RunOf(d)' = q
                               /\ (AtOne(d)' => local'[d].at # a)
        BY <3>1
      <4>2. Drives(d) /\ RunOf(d) = q /\ (AtOne(d) => local[d].at # a)
        BY <1>5, <1>6, <1>7, <4>1
      <4>3. QED BY <4>2 DEF Usable, AtOne
    <3>2. CASE \/ state[q].status = "WAITING_INTERRUPT"
               \/ state[q].status = "WAITING_APPROVAL" /\ state[q].approval # a
      BY <3>2 DEF Usable
    <3>3. QED BY <1>7, <3>1, <3>2 DEF Usable, AtOne
  <2>2. QED
    BY <1>7, <2>1 DEF Granted
<1>8. /\ s.epoch >= state[r].epoch => Put(w) /\ Remember(w)
      /\ s.epoch < state[r].epoch => UNCHANGED <<state, checkpoints, history>>
  BY <1>1, <1>2, PersistRemembers DEF o, w
<1>9. CASE Refused(c, o, s)
  <2>1. /\ ~Drives(c)' /\ UNCHANGED <<state, checkpoints, history>>
    BY <1>8, <1>9 DEF Refused, Drives
  <2>2. \A q \in Runs, a \in Gated : /\ HasApproval(q, a)' <=> HasApproval(q, a)
                                     /\ Secondhand(q, a)' <=> Secondhand(q, a)
    BY <2>1 DEF HasApproval, Secondhand, history
  <2>3. ApprovalsNotReused' /\ Len(unused') = Len(checkpoints')
    BY <2>1, <2>2 DEF Granted, ApprovalsNotReused, history
  <2>4. \A q \in Runs, a \in Gated :
          a \in state'[q].approved /\ Usable(q, a)' => HasApproval(q, a)'
    BY <1>7, <2>1, <2>2
  <2>5. QED BY <2>3, <2>4 DEF Granted
<1>10. CASE Taken(c, o, s, label)
  <2>1. /\ s.epoch = state[r].epoch /\ pc'[c] = label
        /\ Put(w) /\ Remember(w) /\ state[r].status # "ABSENT"
    <3>1. s.epoch = state[r].epoch /\ pc'[c] = label
      BY <1>2, <1>10 DEF Taken
    <3>2. Object(c).status # "ABSENT"
      <4>1. Knows(c)
        BY <1>1 DEF Ownership, HoldersKnowTheirRun
      <4>2. QED BY <4>1 DEF Knows, Tracking, Drives
    <3>3. Coherent(o)
      BY <1>1, HolderFacts DEF o
    <3>4. state[r].status # "ABSENT"
      BY <1>2, <3>1, <3>2, <3>3 DEF Coherent, Object
    <3>5. QED BY <1>2, <1>8, <3>1, <3>4
  <2>2. PutAs(w)
    BY <1>1, <1>2, <1>3, <1>4, <2>1, PutAppends DEF Stores, w
  <2>3. /\ state'[r].approved = s.approved /\ state'[r].status = s.status
        /\ state'[r].approval = s.approval
        /\ \A q \in Runs : q # r => state'[q] = state[q]
    BY <1>1, <1>3, <2>2 DEF PutAs, CopyOf, Says, StoreTypeOK
  <2>4. \A d \in Calls : d # c /\ Drives(d) => RunOf(d) # r
    <3>1. SUFFICES ASSUME NEW d \in Calls, d # c, Drives(d) PROVE RunOf(d) # r
      OBVIOUS
    <3>2. Object(c).epoch = state[RunOf(c)].epoch
      BY <2>1
    <3>3. QED BY <1>1, <3>1, <3>2, NoOtherDriver DEF Tracking
  <2>5. /\ Len(unused') = Len(checkpoints') /\ ApprovalsNotReused'
        /\ \A q \in Runs, a \in Gated : HasApproval(q, a) => HasApproval(q, a)'
        /\ \A a \in Gated :
             /\ state[r].status = "WAITING_APPROVAL" /\ state[r].approval = a
             /\ w.status = "RUNNING"
             => HasApproval(r, a)'
    <3>1. Stored(r)
      BY <2>1 DEF Stored, NoState
    <3>2. QED BY <1>1, <1>3, <2>1, <3>1, PutGrants
  <2>6. ASSUME NEW a \in Gated, a \in state'[r].approved, Usable(r, a)'
        PROVE  HasApproval(r, a)'
    <3>1. Spends(c, s, label, a)
      <4>1. CASE \E d \in Calls : Drives(d)' /\ RunOf(d)' = r
                                  /\ (AtOne(d)' => local'[d].at # a)
        <5>1. Drives(c)' /\ (AtOne(c)' => local'[c].at # a)
          BY <1>5, <1>6, <2>4, <4>1
        <5>2. QED BY <2>1, <5>1 DEF Drives, AtOne, Spends
      <4>2. CASE \/ s.status = "WAITING_INTERRUPT"
                 \/ s.status = "WAITING_APPROVAL" /\ s.approval # a
        BY <4>2 DEF Spends
      <4>3. QED BY <2>3, <2>6, <4>1, <4>2 DEF Usable, AtOne
    <3>2. \/ HasApproval(r, a)
          \/ /\ state[r].status = "WAITING_APPROVAL" /\ state[r].approval = a
             /\ s.status = "RUNNING"
      BY <2>1, <2>3, <2>6, <3>1
    <3>3. QED BY <1>3, <2>5, <3>2 DEF Says
  <2>7. ASSUME NEW q \in Runs, q # r, NEW a \in Gated,
               a \in state'[q].approved, Usable(q, a)'
        PROVE  HasApproval(q, a)'
    <3>1. state'[q] = state[q]
      BY <2>3, <2>7
    <3>2. \A d \in Calls : Drives(d)' /\ RunOf(d)' = q => d # c
      BY <1>5, <2>7
    <3>3. QED BY <1>7, <2>7, <2>5, <3>1, <3>2
  <2>8. QED BY <2>6, <2>7, <2>5 DEF Granted
<1>11. QED
  BY <1>4, <1>9, <1>10

(* The driver of a run persists it with no other approvals than it had. *)
LEMMA DriverKeepsGranted ==
  ASSUME Tracked, Granted, ReliableStore, NEW c \in Calls, WorkStep(c), Drives(c),
         NEW r \in Runs, r = RunOf(c), NEW x \in AVersion, x = Now(r),
         NEW e, e = Object(c).epoch,
         NEW s \in RunState, s.run = r, s.epoch = e, Valid(s),
         NEW label \in {"advancing", "continuing", "stepping", "done", "clearing",
                        "syncing"},
         Persist(c, ref[c], s, label),
         s.approved \subseteq x.approved,
         \A a \in s.approved : AtOne(c) /\ Spends(c, s, label, a) => local[c].at # a
  PROVE  Granted'
<1>1. Tracking(c) /\ Shape /\ TypeOK
  BY DEF Tracking, Tracked, Ownership, Shape
<1>2. x.approved = state[r].approved
  BY <1>1, TrackerState, VersionOf DEF Now, Says
<1>3. ASSUME NEW a \in Gated, a \in s.approved, Spends(c, s, label, a)
      PROVE  HasApproval(r, a)
  <2>1. Usable(r, a)
    BY <1>3 DEF Usable, AtOne
  <2>2. QED BY <1>2, <1>3, <2>1 DEF Granted
<1>4. QED
  BY <1>1, <1>3, PutKeepsGranted

(* Before, and at the end of, an execution the approvals are what they were. *)
LEMMA AdvancingKeepsGranted ==
  ASSUME Tracked, Granted, ReliableStore, NEW c \in Calls, WorkStep(c),
         \/ Launch(c) \/ CompleteRun(c) \/ RequestApproval(c) \/ StepFails(c)
         \/ StepNeedsApproval(c) \/ StepDone(c)
  PROVE  Granted'
<1>1. Drives(c) /\ pc[c] \in {"launching", "advancing", "executing"}
  BY DEF Launch, CompleteRun, RequestApproval, StepFails, StepNeedsApproval,
         StepDone, CanEnter, At, Drives
<1>2. PICK r \in Runs, o \in RunState, x \in AVersion :
           /\ r = RunOf(c) /\ o = Object(c) /\ x = Now(r)
           /\ o.run = r /\ x.run = r /\ o.epoch \in Nat /\ o.epoch = x.epoch
           /\ pc[c] # "pausing" => Says(x, o)
           /\ Tracks(c) /\ Knows(c)
  BY <1>1, DriverHas
<1>3. o.approved = x.approved /\ o.status \in {"PENDING", "RUNNING"}
  BY <1>1, <1>2 DEF Says, Knows, Drives
<1>4. ASSUME NEW st \in {"RUNNING", "COMPLETED", "FAILED"},
             NEW label \in {"advancing", "clearing"},
             label = "advancing" => pc[c] = "launching",
             Persist(c, ref[c], [o EXCEPT !.status = st], label)
      PROVE  Granted'
  <2> DEFINE s == [o EXCEPT !.status = st]
  <2>1. s \in RunState /\ s.run = r /\ s.epoch = o.epoch /\ s.status = st
        /\ s.approved = o.approved
    BY <1>2 DEF RunState, Status
  <2>2. Persist(c, ref[c], s, label)
    BY <1>4
  <2> HIDE DEF s
  <2>3. Valid(s) /\ \A a \in s.approved : ~(AtOne(c) /\ Spends(c, s, label, a))
    BY <1>4, <2>1 DEF Valid, Spends, AtOne
  <2>4. QED BY <1>1, <1>2, <1>3, <2>1, <2>2, <2>3, DriverKeepsGranted
<1>5. ASSUME NEW a \in Steps, AtOne(c) => a = local[c].at,
             Persist(c, ref[c], Waiting(o, a), "done")
      PROVE  Granted'
  <2> DEFINE s == Waiting(o, a)
  <2>1. s \in RunState /\ s.run = r /\ s.epoch = o.epoch
        /\ s.status = "WAITING_APPROVAL" /\ s.approval = a
        /\ s.approved = o.approved
    BY <1>2 DEF RunState, Status, Waiting
  <2>2. Persist(c, ref[c], s, "done")
    BY <1>5
  <2> HIDE DEF s
  <2>3. Valid(s)
    BY <2>1, NoneIsNoName DEF Valid
  <2>4. \A b \in s.approved : AtOne(c) /\ Spends(c, s, "done", b) => local[c].at # b
    BY <1>5, <2>1 DEF Spends
  <2>5. QED BY <1>1, <1>2, <1>3, <2>1, <2>2, <2>3, <2>4, DriverKeepsGranted
<1>6. CASE Launch(c) \/ CompleteRun(c) \/ StepFails(c)
  BY <1>2, <1>4, <1>6 DEF Launch, CompleteRun, StepFails, Fail, At
<1>7. CASE RequestApproval(c)
  <2>1. pc[c] = "advancing" /\ o.step \in Steps
        /\ Persist(c, ref[c], Waiting(o, o.step), "done")
    BY <1>2, <1>7, RuntimeConstants DEF RequestApproval, CanEnter, At
  <2>2. ~AtOne(c)
    BY <2>1 DEF AtOne
  <2>3. QED BY <1>5, <2>1, <2>2
<1>8. CASE StepNeedsApproval(c)
  <2>1. pc[c] = "executing" /\ Persist(c, ref[c], Waiting(o, local[c].at), "done")
    BY <1>2, <1>8 DEF StepNeedsApproval, At
  <2>2. local[c].at \in Steps
    BY <2>1 DEF Tracked, Ownership, Shape, LocalsAreSet
  <2>3. QED BY <1>5, <2>1, <2>2
<1>9. CASE StepDone(c)
  <2>1. pc[c] = "executing" /\ o.status = "RUNNING" /\ local[c].at \in Steps
    BY <1>2, <1>9 DEF StepDone, At, Knows, Drives, Tracked, Ownership, Shape,
                      LocalsAreSet
  <2>2. PICK at \in Steps : at = local[c].at
    BY <2>1
  <2> DEFINE s == [o EXCEPT !.completed = @ \cup {at}]
  <2>3. s \in RunState /\ s.run = r /\ s.epoch = o.epoch /\ s.status = "RUNNING"
        /\ s.approved = o.approved
    BY <1>2, <2>1 DEF RunState
  <2>4. Persist(c, ref[c], s, "stepping")
    BY <1>2, <1>9, <2>2 DEF StepDone
  <2>5. local'[c].at = local[c].at
    <3>1. local \in [Calls -> Local]
      BY DEF Tracked, Ownership, Shape, TypeOK
    <3>2. PICK pauses \in BOOLEAN : local' = [local EXCEPT ![c].pauses = pauses]
      BY <1>9 DEF StepDone
    <3>3. local[c] \in Local /\ local'[c] = [local[c] EXCEPT !.pauses = pauses]
      BY <3>1, <3>2
    <3>4. QED BY <3>3 DEF Local
  <2> HIDE DEF s
  <2>6. Valid(s)
    BY <2>3 DEF Valid
  <2>7. \A b \in s.approved : AtOne(c) /\ Spends(c, s, "stepping", b) =>
                                local[c].at # b
    BY <2>3, <2>5 DEF Spends
  <2>8. QED BY <1>1, <1>2, <1>3, <2>3, <2>4, <2>6, <2>7, DriverKeepsGranted
<1>10. QED
  BY <1>6, <1>7, <1>8, <1>9

(* The driver of a run moves it on from a step whose approval it used up. *)
LEMMA MovingKeepsGranted ==
  ASSUME Tracked, Granted, ReliableStore, NEW c \in Calls, WorkStep(c), Drives(c),
         NEW r \in Runs, r = RunOf(c), NEW x \in AVersion, x = Now(r),
         NEW e, e = Object(c).epoch,
         NEW u \in RunState, u.run = r, u.epoch = e, u.status = "RUNNING",
         u.approved \subseteq x.approved,
         \A a \in u.approved : AtOne(c) => local[c].at # a,
         NEW next \in Steps \cup {End}, Move(c, u, next)
  PROVE  Granted'
<1>1. CASE next = End
  <2> DEFINE s == [u EXCEPT !.step = None, !.status = "COMPLETED"]
  <2>1. /\ s \in RunState /\ s.run = r /\ s.epoch = e /\ s.status = "COMPLETED"
        /\ s.approved = u.approved
    BY DEF RunState, Status
  <2>2. Persist(c, ref[c], s, "clearing")
    BY <1>1 DEF Move
  <2> HIDE DEF s
  <2>3. Valid(s)
    BY <2>1 DEF Valid
  <2>4. QED BY <2>1, <2>2, <2>3, DriverKeepsGranted
<1>2. CASE next # End
  <2> DEFINE s == [u EXCEPT !.step = next]
  <2>1. /\ s \in RunState /\ s.run = r /\ s.epoch = e /\ s.status = "RUNNING"
        /\ s.approved = u.approved
    BY <1>2 DEF RunState
  <2>2. Persist(c, ref[c], s, "advancing")
    BY <1>2 DEF Move
  <2> HIDE DEF s
  <2>3. Valid(s)
    BY <2>1 DEF Valid
  <2>4. QED BY <2>1, <2>2, <2>3, DriverKeepsGranted
<1>3. QED BY <1>1, <1>2

(* After an execution the approval of its step is gone from the snapshot. *)
LEMMA SteppingKeepsGranted ==
  ASSUME Tracked, Granted, ReliableStore, NEW c \in Calls, WorkStep(c),
         Transit(c) \/ PersistWait(c)
  PROVE  Granted'
<1>1. /\ Drives(c) /\ pc[c] \in {"stepping", "pausing"} /\ AtOne(c)
      /\ local[c].at \in Steps
  BY DEF Transit, PersistWait, At, Drives, AtOne, Tracked, Ownership, Shape,
         LocalsAreSet
<1>2. PICK r \in Runs, o \in RunState, x \in AVersion :
           /\ r = RunOf(c) /\ o = Object(c) /\ x = Now(r)
           /\ o.run = r /\ x.run = r /\ o.epoch \in Nat /\ o.epoch = x.epoch
           /\ pc[c] # "pausing" => Says(x, o)
           /\ Tracks(c) /\ Knows(c)
  BY <1>1, DriverHas
<1>3. PICK at \in Steps : at = local[c].at /\ at = x.step
  BY <1>1, <1>2 DEF Tracks
<1>4. CASE Transit(c)
  <2>1. pc[c] = "stepping"
    BY <1>4 DEF Transit, At
  <2>2. o.approved = x.approved /\ o.status = "RUNNING"
    BY <1>1, <1>2, <2>1 DEF Says, Knows
  <2>3. PICK u \in RunState :
               /\ u = [o EXCEPT !.approved = @ \ {at}]
               /\ u.run = r /\ u.epoch = o.epoch /\ u.status = "RUNNING"
               /\ u.approved = x.approved \ {at}
    <3>1. /\ [o EXCEPT !.approved = @ \ {at}] \in RunState
          /\ [o EXCEPT !.approved = @ \ {at}].run = o.run
          /\ [o EXCEPT !.approved = @ \ {at}].epoch = o.epoch
          /\ [o EXCEPT !.approved = @ \ {at}].status = o.status
          /\ [o EXCEPT !.approved = @ \ {at}].approved = o.approved \ {at}
      BY DEF RunState
    <3>2. QED BY <1>2, <2>2, <3>1
  <2>4. Consumed(c) = u
    BY <1>2, <1>3, <2>3 DEF Consumed
  <2>5. u.approved \subseteq x.approved /\ \A a \in u.approved : local[c].at # a
    BY <1>3, <2>3
  <2>6. ASSUME NEW next \in Targets[at], Move(c, u, next)
        PROVE  Granted'
    <3>1. next \in Steps \cup {End}
      BY RuntimeConstants
    <3>2. QED BY <1>1, <1>2, <2>3, <2>5, <2>6, <3>1, MovingKeepsGranted
  <2>7. ASSUME Persist(c, ref[c], [u EXCEPT !.status = "FAILED"], "clearing")
        PROVE  Granted'
    <3> DEFINE s == [u EXCEPT !.status = "FAILED"]
    <3>1. s \in RunState /\ s.run = r /\ s.epoch = o.epoch /\ s.status = "FAILED"
          /\ s.approved = u.approved
      BY <2>3 DEF RunState, Status
    <3>2. Persist(c, ref[c], s, "clearing")
      BY <2>7
    <3> HIDE DEF s
    <3>3. Valid(s)
      BY <3>1 DEF Valid
    <3>4. QED BY <1>1, <1>2, <2>5, <3>1, <3>2, <3>3, DriverKeepsGranted
  <2>8. QED BY <1>3, <1>4, <2>4, <2>6, <2>7 DEF Transit
<1>5. CASE PersistWait(c)
  <2>1. pc[c] = "pausing"
    BY <1>5 DEF PersistWait, At
  <2>2. Says(Lifecycle!Used(x), o) /\ local[c].id # 0 /\ local[c].id \in Nat
    BY <1>2, <2>1, TrackerState DEF Tracks, Knows, Tracking, Drives, Local
  <2>3. PICK id \in Nat : id = local[c].id /\ id # 0
    BY <2>2
  <2>4. o.approved = x.approved \ {at}
    BY <1>3, <2>2 DEF Says, Lifecycle!Used, AVersion
  <2> DEFINE s == [o EXCEPT !.interrupt = id, !.status = "WAITING_INTERRUPT",
                            !.resume = at]
  <2>5. /\ s \in RunState /\ s.run = r /\ s.epoch = o.epoch
        /\ s.interrupt = id /\ s.status = "WAITING_INTERRUPT"
        /\ s.approved = o.approved
    BY <1>2 DEF RunState, Status
  <2>6. Persist(c, ref[c], s, "syncing")
    BY <1>2, <1>3, <1>5, <2>3 DEF PersistWait
  <2> HIDE DEF s
  <2>7. Valid(s)
    BY <2>3, <2>5 DEF Valid
  <2>8. s.approved \subseteq x.approved /\ \A a \in s.approved : local[c].at # a
    BY <1>3, <2>4, <2>5
  <2>9. QED BY <1>1, <1>2, <2>5, <2>6, <2>7, <2>8, DriverKeepsGranted
<1>6. QED BY <1>4, <1>5

(* The approvals of a run that was answered are those it waited with. *)
LEMMA ContinuingKeepsGranted ==
  ASSUME Tracked, Granted, ReliableStore, NEW c \in Calls, WorkStep(c), Continue(c)
  PROVE  Granted'
<1>1. Drives(c) /\ pc[c] = "continuing" /\ ~AtOne(c)
  BY DEF Continue, At, Drives, AtOne
<1>2. PICK r \in Runs, o \in RunState, x \in AVersion :
           /\ r = RunOf(c) /\ o = Object(c) /\ x = Now(r)
           /\ o.run = r /\ x.run = r /\ o.epoch \in Nat /\ o.epoch = x.epoch
           /\ pc[c] # "pausing" => Says(x, o)
           /\ Tracks(c) /\ Knows(c)
  BY <1>1, DriverHas
<1>3. /\ o.approved = x.approved /\ o.status = "RUNNING" /\ o.resume # None
      /\ o.resume \in Steps
  BY <1>1, <1>2 DEF Says, Knows, Tracks, RunState
<1> DEFINE u == [o EXCEPT !.resume = None]
<1>4. /\ u \in RunState /\ u.run = r /\ u.epoch = o.epoch /\ u.status = "RUNNING"
      /\ u.approved = x.approved
  BY <1>2, <1>3 DEF RunState
<1>5. ASSUME NEW next \in Targets[o.resume], Move(c, u, next)
      PROVE  Granted'
  <2>1. next \in Steps \cup {End}
    BY <1>3, RuntimeConstants
  <2> HIDE DEF u
  <2>2. QED BY <1>1, <1>2, <1>4, <1>5, <2>1, MovingKeepsGranted
<1>6. ASSUME Finish(c), UNCHANGED <<storeVars, history>>
      PROVE  Granted'
  <2>1. UNCHANGED <<state, checkpoints, history>> /\ ~Drives(c)'
    BY <1>1, <1>6 DEF storeVars, Finish, Goto, Drives, Tracked, Ownership, Shape, TypeOK
  <2>2. \A d \in Calls : /\ RunOf(d)' = RunOf(d)
                         /\ d # c => pc'[d] = pc[d] /\ local'[d] = local[d]
    BY WorkRuns DEF WorkStep, Tracked, Ownership
  <2>3. QED BY <2>1, <2>2, CalmKeepsGranted DEF Drives, AtOne
<1>7. QED
  BY <1>2, <1>3, <1>5, <1>6 DEF Continue

(* An answer: what was approved is there to be used, and one approval more is. *)
LEMMA AnsweringKeepsGranted ==
  ASSUME Tracked, Granted, ReliableStore, NEW c \in Calls, WorkStep(c),
         GrantApproval(c) \/ RejectApproval(c) \/ PersistResumed(c)
  PROVE  Granted'
<1>1. /\ pc[c] \in Taking \cup {"resumed"}
      /\ Tracking(c) \/ pc[c] = "rejecting"
  BY DEF GrantApproval, RejectApproval, PersistResumed, At, Taking, Tracking
<1>2. PICK r \in Runs, o \in RunState, x \in AVersion, h \in AVersion :
           /\ r = RunOf(c) /\ o = Object(c) /\ x = Now(r) /\ h = Held(c)
           /\ o.run = r /\ o.epoch \in Nat /\ h.run = r /\ h.epoch = o.epoch
           /\ x.status = state[r].status /\ x.resume = state[r].resume
           /\ x.epoch = state[r].epoch
           /\ h.epoch = x.epoch => x.run = r
           /\ Says(h, o)
           /\ Tracks(c) /\ Knows(c)
           /\ pc[c] \in {"rejecting", "resolving", "deciding"} /\ h.epoch = x.epoch =>
                h = x
  BY <1>1, AnswererHas
<1>3. state[r] \in RunState /\ x.approved = state[r].approved
      /\ x.approval = state[r].approval
  <2>1. state[r] \in RunState
    BY DEF Tracked, Ownership, Shape, TypeOK, StoreTypeOK
  <2>2. QED BY <1>2, <2>1, VersionOf DEF Now, Says
<1>4. CASE GrantApproval(c)
  <2> DEFINE s == [o EXCEPT !.approval = None, !.status = "RUNNING"]
  <2>1. /\ s \in RunState /\ s.run = r /\ s.epoch = o.epoch /\ s.status = "RUNNING"
        /\ s.approved = o.approved
    BY <1>2 DEF RunState, Status
  <2>2. pc[c] = "granting" /\ Persist(c, ref[c], s, "advancing")
    BY <1>2, <1>4 DEF GrantApproval, At
  <2> HIDE DEF s
  <2>3. Valid(s)
    BY <2>1 DEF Valid
  <2>4. ASSUME o.epoch = state[r].epoch, NEW a \in Gated, a \in s.approved
        PROVE  \/ HasApproval(r, a)
               \/ state[r].status = "WAITING_APPROVAL" /\ state[r].approval = a
    <3>1. /\ h = [x EXCEPT !.approved = @ \cup {x.approval}]
          /\ o.status = "WAITING_APPROVAL"
      BY <1>2, <2>2, <2>4 DEF Tracks, Knows
    <3>2. /\ state[r].status = "WAITING_APPROVAL"
          /\ s.approved = state[r].approved \cup {state[r].approval}
      BY <1>2, <1>3, <2>1, <3>1 DEF Says, AVersion
    <3>3. ASSUME a # state[r].approval
          PROVE  HasApproval(r, a)
      <4>1. a \in state[r].approved /\ Usable(r, a)
        BY <2>4, <3>2, <3>3 DEF Usable
      <4>2. QED BY <4>1 DEF Granted
    <3>4. QED BY <3>2, <3>3
  <2>5. QED
    BY <1>1, <1>2, <2>1, <2>2, <2>3, <2>4, PutKeepsGranted
<1>5. CASE RejectApproval(c)
  <2> DEFINE s == [o EXCEPT !.approval = None, !.status = "FAILED"]
  <2>1. /\ s \in RunState /\ s.run = r /\ s.epoch = o.epoch /\ s.status = "FAILED"
    BY <1>2 DEF RunState, Status
  <2>2. Persist(c, ref[c], s, "clearing")
    BY <1>2, <1>5 DEF RejectApproval
  <2> HIDE DEF s
  <2>3. Valid(s) /\ \A a \in Gated : ~Spends(c, s, "clearing", a)
    BY <2>1 DEF Valid, Spends
  <2>4. QED
    BY <1>1, <1>2, <2>1, <2>2, <2>3, PutKeepsGranted
<1>6. CASE PersistResumed(c)
  <2>1. pc[c] = "resumed" /\ Persist(c, ref[c], o, "continuing")
    BY <1>2, <1>6 DEF PersistResumed, At
  <2>2. o.status = "RUNNING" /\ Valid(o)
    BY <1>2, <2>1 DEF Knows, Valid
  <2>3. ASSUME o.epoch = state[r].epoch, NEW a \in Gated, a \in o.approved
        PROVE  HasApproval(r, a)
    <3>1. state[r].status = "WAITING_INTERRUPT" /\ h = [x EXCEPT !.status = "RUNNING"]
      BY <1>2, <2>1, <2>3 DEF Knows, Tracks
    <3>2. a \in state[r].approved /\ Usable(r, a)
      BY <1>2, <1>3, <2>3, <3>1 DEF Says, AVersion, Usable
    <3>3. QED BY <3>2 DEF Granted
  <2>4. QED
    BY <1>1, <1>2, <2>1, <2>2, <2>3, PutKeepsGranted
<1>7. QED BY <1>4, <1>5, <1>6

(* The steps of a call that neither persist anything nor begin an execution.   *)
LEMMA QuietKeepsGranted ==
  ASSUME Tracked, Granted, NEW c \in Calls, WorkStep(c),
         \/ RegisterActiveRun(c) \/ LeaveLoop(c) \/ MissArtifact(c)
         \/ StepBadUpdate(c) \/ SyncRequest(c) \/ ClearActiveRun(c)
         \/ ReadRequest(c) \/ DecideRequest(c) \/ CreateInterrupt(c)
  PROVE  Granted'
<1>1. /\ pc \in [Calls -> PC] /\ local \in [Calls -> Local]
      /\ UNCHANGED <<state, checkpoints, history>>
  BY DEF RegisterActiveRun, SetActiveRunId, LeaveLoop, MissArtifact, StepBadUpdate,
         SyncRequest, ClearActiveRun, ClearActiveRunId, ReadRequest, DecideRequest,
         CreateInterrupt, storeVars, Tracked, Ownership, Shape, TypeOK
<1>2. \A d \in Calls : /\ RunOf(d)' = RunOf(d)
                       /\ d # c => pc'[d] = pc[d] /\ local'[d] = local[d]
  BY WorkRuns DEF WorkStep, Tracked, Ownership
<1>3. Drives(c)' => /\ Drives(c)
                    /\ AtOne(c) => AtOne(c)' /\ local'[c].at = local[c].at
  <2>1. CASE RegisterActiveRun(c)
    BY <1>1, <2>1 DEF RegisterActiveRun, At, Goto, Drives, AtOne
  <2>2. CASE CreateInterrupt(c)
    <3>1. local[c] \in Local /\ local'[c].at = local[c].at
      BY <1>1, <2>2 DEF CreateInterrupt, Local
    <3>2. pc[c] = "stepping" /\ pc'[c] \in {"pausing", "done"}
      BY <1>1, <2>2 DEF CreateInterrupt, At, Goto, Finish
    <3>3. QED BY <3>1, <3>2 DEF Drives, AtOne
  <2>3. CASE ~(RegisterActiveRun(c) \/ CreateInterrupt(c))
    <3>1. Goto(c, "done") \/ Goto(c, "deciding") \/ Goto(c, "resumed")
      BY <2>3 DEF LeaveLoop, MissArtifact, StepBadUpdate, SyncRequest,
                  ClearActiveRun, ReadRequest, DecideRequest, Finish
    <3>2. QED BY <1>1, <3>1 DEF Goto, Drives
  <2>4. QED BY <2>1, <2>2, <2>3
<1>4. \A d \in Calls : Drives(d)' =>
        /\ Drives(d)
        /\ RunOf(d)' = RunOf(d)
        /\ AtOne(d) => AtOne(d)' /\ local'[d].at = local[d].at
  BY <1>2, <1>3 DEF Drives, AtOne
<1>5. QED
  BY <1>1, <1>4, CalmKeepsGranted

(* An execution uses up the approval of its step. *)
LEMMA ExecuteKeepsGranted ==
  ASSUME Tracked, Granted, NEW c \in Calls, WorkStep(c), Execute(c)
  PROVE  Granted'
<1>1. /\ pc[c] = "advancing" /\ Drives(c) /\ ~AtOne(c)
      /\ UNCHANGED <<state, checkpoints>>
  BY DEF Execute, CanEnter, At, Drives, AtOne, storeVars
<1>2. PICK r \in Runs, o \in RunState, x \in AVersion :
           /\ r = RunOf(c) /\ o = Object(c) /\ x = Now(r)
           /\ o.run = r /\ x.run = r /\ o.epoch \in Nat /\ o.epoch = x.epoch
           /\ pc[c] # "pausing" => Says(x, o)
           /\ Tracks(c) /\ Knows(c)
  BY <1>1, DriverHas
<1>3. /\ pc'[c] = "executing" /\ local'[c].at = o.step /\ AtOne(c)'
      /\ \A d \in Calls : d # c => pc'[d] = pc[d] /\ local'[d] = local[d]
  BY <1>2 DEF Execute, Goto, AtOne, Tracked, Ownership, Shape, TypeOK, Local
<1>4. \A d \in Calls : RunOf(d)' = RunOf(d)
  BY WorkRuns DEF Tracked, Ownership
<1>5. /\ Gated \subseteq Steps
      /\ credit \in [Runs -> [Steps -> Nat]] /\ reused \in [Runs -> [Steps -> Nat]]
  BY RuntimeConstants DEF Tracked, Ownership, Shape, TypeOK, HistoryTypeOK
<1>6. /\ IF o.step \in Gated THEN Use(r, o.step) ELSE UNCHANGED history
      /\ o.step \notin Gated \ o.approved
  BY <1>2 DEF Execute
<1>7. /\ state[r].approved = o.approved /\ state[r].status = "RUNNING"
  <2>1. state[r] \in RunState /\ Says(x, o) /\ o.status = "RUNNING"
    BY <1>1, <1>2 DEF Knows, Drives, Tracked, Ownership, Shape, TypeOK, StoreTypeOK
  <2>2. Says(x, state[r])
    BY <1>2, <2>1, VersionOf DEF Now
  <2>3. QED BY <2>1, <2>2 DEF Says
<1>8. \A d \in Calls : d # c /\ Drives(d) => RunOf(d) # r
  BY <1>1, <1>2 DEF Tracked, Ownership, SingleDriver
<1>9. ASSUME NEW q \in Runs, NEW a \in Gated, a \in state[q].approved, Usable(q, a)'
      PROVE  Usable(q, a) /\ ~(q = r /\ a = o.step)
  <2>1. CASE \E d \in Calls : Drives(d)' /\ RunOf(d)' = q
                              /\ (AtOne(d)' => local'[d].at # a)
    <3>1. PICK d \in Calls : Drives(d)' /\ RunOf(d)' = q
                             /\ (AtOne(d)' => local'[d].at # a)
      BY <2>1
    <3>2. CASE d = c
      <4>1. q = r /\ a # o.step
        BY <1>2, <1>3, <1>4, <3>1, <3>2
      <4>2. Usable(q, a)
        BY <1>1, <1>2, <4>1 DEF Usable, AtOne
      <4>3. QED BY <4>1, <4>2
    <3>3. CASE d # c
      <4>1. Drives(d) /\ RunOf(d) = q /\ (AtOne(d) => local[d].at # a)
        BY <1>3, <1>4, <3>1, <3>3 DEF Drives, AtOne
      <4>2. q # r
        BY <1>8, <3>3, <4>1
      <4>3. QED BY <4>1, <4>2 DEF Usable, AtOne
    <3>4. QED BY <3>2, <3>3
  <2>2. CASE \/ state[q].status = "WAITING_INTERRUPT"
             \/ state[q].status = "WAITING_APPROVAL" /\ state[q].approval # a
    BY <1>7, <2>2 DEF Usable
  <2>3. QED BY <1>1, <1>9, <2>1, <2>2 DEF Usable, AtOne
<1>10. ASSUME o.step \in Gated
       PROVE  HasApproval(r, o.step)
  <2>1. o.step \in state[r].approved /\ Usable(r, o.step)
    BY <1>1, <1>2, <1>6, <1>7, <1>10 DEF Usable, AtOne
  <2>2. QED BY <1>10, <2>1 DEF Granted
<1>11. /\ unused' = unused
       /\ \A q \in Runs, a \in Gated :
            /\ Secondhand(q, a)' <=> Secondhand(q, a)
            /\ ~(q = r /\ a = o.step) => /\ credit'[q][a] = credit[q][a]
                                         /\ reused'[q][a] = reused[q][a]
  <2>1. unused' = unused
    BY <1>6 DEF Use, history
  <2>2. \A q \in Runs, a \in Gated : Secondhand(q, a)' <=> Secondhand(q, a)
    BY <1>1, <2>1 DEF Secondhand
  <2>3. \A q \in Runs, a \in Gated :
          ~(q = r /\ a = o.step) => /\ credit'[q][a] = credit[q][a]
                                    /\ reused'[q][a] = reused[q][a]
    BY <1>5, <1>6 DEF Use, history
  <2>4. QED BY <2>1, <2>2, <2>3
<1>12. ASSUME o.step \in Gated
       PROVE  reused'[r][o.step] <= (IF Secondhand(r, o.step) THEN 1 ELSE 0)
  <2>1. /\ Use(r, o.step) /\ o.step \in Steps
        /\ credit[r][o.step] \in Nat /\ reused[r][o.step] \in Nat
        /\ reused[r][o.step] <= (IF Secondhand(r, o.step) THEN 1 ELSE 0)
    BY <1>5, <1>6, <1>12 DEF Granted, ApprovalsNotReused
  <2>2. CASE credit[r][o.step] > 0
    BY <2>1, <2>2 DEF Use
  <2>3. CASE ~(credit[r][o.step] > 0)
    <3>1. Secondhand(r, o.step) /\ reused[r][o.step] = 0
      BY <1>10, <1>12, <2>1, <2>3 DEF HasApproval
    <3>2. reused'[r][o.step] = 1
      BY <1>5, <2>1, <2>3, <3>1 DEF Use
    <3>3. QED BY <3>1, <3>2
  <2>4. QED BY <2>2, <2>3
<1>13. ApprovalsNotReused'
  <2>1. SUFFICES ASSUME NEW q \in Runs, NEW a \in Gated
                 PROVE  reused'[q][a] <= (IF Secondhand(q, a)' THEN 1 ELSE 0)
    BY DEF ApprovalsNotReused
  <2>2. CASE q = r /\ a = o.step
    BY <1>11, <1>12, <2>2
  <2>3. CASE ~(q = r /\ a = o.step)
    BY <1>11, <2>3 DEF Granted, ApprovalsNotReused
  <2>4. QED BY <2>2, <2>3
<1>14. ASSUME NEW q \in Runs, NEW a \in Gated, a \in state'[q].approved, Usable(q, a)'
       PROVE  HasApproval(q, a)'
  <2>1. Usable(q, a) /\ ~(q = r /\ a = o.step)
    BY <1>1, <1>9, <1>14
  <2>2. HasApproval(q, a)
    BY <1>1, <1>14, <2>1 DEF Granted
  <2>3. QED BY <1>11, <2>1, <2>2 DEF HasApproval
<1>15. QED
  BY <1>1, <1>11, <1>13, <1>14 DEF Granted

(* A new run has the approvals of the checkpoint it was restored with: those   *)
(* that were not used yet, or secondhand.                                    *)
LEMMA CreatedKeepsGranted ==
  ASSUME Tracked, Granted, ReliableStore, NEW c \in Calls, pc[c] = "idle",
         NEW s \in RunState, s.run = c, Valid(s),
         s.status \in {"PENDING", "RUNNING"},
         Persist(c, c, s, "registering"), ref' = ref, local' = local
  PROVE  Granted'
<1> DEFINE w == Prepared(s)
<1>1. /\ TypeOK /\ StoreTypeOK /\ c \in Runs /\ "registering" \in DOMAIN InPut /\ Fresh(c)
      /\ Ownership /\ heap \in [Calls -> RunState]
  BY PutLabels DEF Tracked, Ownership, Shape, TypeOK, Calls, Fresh
<1>2. /\ ref[c] = c
      /\ \A d \in Calls : ref[d] = c => d = c
  BY <1>1 DEF Ownership, Shape, FreshIsPrivate
<1>3. w \in RunState /\ w.run = c /\ w.ckpt = 0 /\ Says(w, s)
  BY <1>1 DEF Prepared, RunState, Says
<1>4. Stores(c, s)
  BY <1>1, PersistIsStores
<1>5. \A d \in Calls : d # c => pc'[d] = pc[d]
  BY <1>1, PersistFacts
<1>6. state[c].epoch = 0 /\ s.epoch \in Nat
  <2>1. state[c] = NoState
    BY <1>1 DEF Ownership, NamedByItsCall, Stored
  <2>2. NoState.epoch = 0
    BY DEF NoState
  <2>3. s.epoch \in Nat
    BY DEF RunState
  <2>4. QED BY <2>1, <2>2, <2>3
<1>7. Put(w) /\ heap' = [heap EXCEPT ![c] = state'[c]]
  <2>1. s.epoch >= state[c].epoch
    BY <1>6
  <2>2. QED BY <1>4, <1>6, <2>1 DEF Stores
<1> HIDE DEF w
<1>8. PutAs(w)
  BY <1>1, <1>3, <1>7, PutAppends
<1>9. /\ state'[c].run = c /\ state'[c].approved = s.approved
      /\ state'[c].status = s.status
      /\ state'[c].epoch = 1
      /\ \A q \in Runs : q # c => state'[q] = state[q]
  BY <1>1, <1>3, <1>6, <1>8 DEF PutAs, CopyOf, Says, StoreTypeOK
<1>10. /\ Put(w) /\ Remember(w) /\ ~Stored(c)
       /\ Len(unused') = Len(checkpoints') /\ ApprovalsNotReused'
       /\ reused' = reused
       /\ unused'[Len(checkpoints) + 1] = {a \in Steps : Entitled(w)[a] > 0}
       /\ \A q \in Runs, a \in Gated : Secondhand(q, a) => Secondhand(q, a)'
       /\ \A q \in Runs, a \in Steps :
            credit'[q][a] = IF q = c THEN Entitled(w)[a] ELSE credit[q][a]
  <2>1. Remember(w)
    BY <1>1, <1>6, PersistRemembers DEF w
  <2>2. ~Stored(c)
    BY <1>1 DEF Ownership, NamedByItsCall
  <2>3. QED BY <1>1, <1>3, <1>7, <2>1, <2>2, RememberKeeps
<1>11. \A d \in Calls : d # c /\ Drives(d) => RunOf(d) # c
  <2>1. SUFFICES ASSUME NEW d \in Calls, d # c, Drives(d)
                 PROVE  RunOf(d) # c
    OBVIOUS
  <2>2. Working(d)
    BY <1>1, <2>1, TrackerFacts DEF Tracking
  <2>3. pc[RunOf(d)] # "idle"
    BY <1>1, <2>2, HolderFacts
  <2>4. QED BY <2>3
<1>12. \A d \in Calls : d # c => RunOf(d)' = RunOf(d)
  <2>1. SUFFICES ASSUME NEW d \in Calls, d # c
                 PROVE  RunOf(d)' = RunOf(d)
    OBVIOUS
  <2>2. ref[d] \in Calls /\ ref[d] # c
    BY <1>1, <1>2, <2>1 DEF TypeOK
  <2>3. QED BY <1>1, <1>7, <2>2 DEF RunOf, Object
<1>13. RunOf(c)' = c
  BY <1>1, <1>2, <1>7, <1>9 DEF RunOf, Object
<1>14. ASSUME NEW q \in Runs, NEW a \in Gated, q # c,
              a \in state'[q].approved, Usable(q, a)'
       PROVE  HasApproval(q, a)'
  <2>1. Usable(q, a)
    <3>1. CASE \E d \in Calls : Drives(d)' /\ RunOf(d)' = q
                                /\ (AtOne(d)' => local'[d].at # a)
      <4>1. PICK d \in Calls : Drives(d)' /\ RunOf(d)' = q
                               /\ (AtOne(d)' => local'[d].at # a)
        BY <3>1
      <4>2. d # c
        BY <1>13, <1>14, <4>1
      <4>3. Drives(d) /\ RunOf(d) = q /\ (AtOne(d) => local[d].at # a)
        BY <1>5, <1>12, <4>1, <4>2 DEF Drives, AtOne
      <4>4. QED BY <4>3 DEF Usable, AtOne
    <3>2. CASE \/ state[q].status = "WAITING_INTERRUPT"
               \/ state[q].status = "WAITING_APPROVAL" /\ state[q].approval # a
      BY <3>2 DEF Usable
    <3>3. QED BY <1>9, <1>14, <3>1, <3>2 DEF Usable, AtOne
  <2>2. HasApproval(q, a) /\ a \in Steps
    BY <1>9, <1>14, <2>1, RuntimeConstants DEF Granted
  <2>3. QED BY <1>10, <1>14, <2>2 DEF HasApproval
<1>15. ASSUME NEW a \in Gated
       PROVE  reused[c][a] = 0
  <2>1. ~Secondhand(c, a)
    <3>1. SUFFICES ASSUME NEW i \in DOMAIN checkpoints, checkpoints[i].run = c
                   PROVE  FALSE
      BY DEF Secondhand
    <3>2. checkpoints[i].epoch \in 1 .. state[c].epoch
      BY <3>1 DEF Tracked, Kept
    <3>3. QED BY <1>6, <3>2
  <2>2. reused[c][a] \in Nat /\ reused[c][a] <= 0
    BY <1>1, <2>1, RuntimeConstants
       DEF Granted, ApprovalsNotReused, TypeOK, HistoryTypeOK
  <2>3. QED BY <2>2
<1>16. ASSUME NEW a \in Gated, a \in state'[c].approved
       PROVE  HasApproval(c, a)'
  <2>1. a \in Steps /\ credit'[c][a] = Entitled(w)[a]
    BY <1>1, <1>10, RuntimeConstants
  <2>2. a \in s.approved /\ w.approved = s.approved
    BY <1>3, <1>9, <1>16 DEF Says
  <2>3. Entitled(w)[a] \in {0, 1}
    BY <1>3, <1>10, <2>1 DEF Entitled
  <2>4. CASE Entitled(w)[a] = 1
    BY <2>1, <2>4 DEF HasApproval
  <2>5. CASE Entitled(w)[a] = 0
    <3>1. /\ Len(checkpoints) \in Nat
          /\ Len(checkpoints) + 1 \in DOMAIN checkpoints'
          /\ checkpoints'[Len(checkpoints) + 1] = state'[c]
      BY <1>1, <1>3, <1>7, PutAppends
    <3>2. a \notin unused'[Len(checkpoints) + 1]
      BY <1>10, <2>5
    <3>3. Secondhand(c, a)'
      BY <1>9, <1>16, <3>1, <3>2 DEF Secondhand
    <3>4. QED BY <1>10, <1>15, <3>3 DEF HasApproval
  <2>6. QED BY <2>3, <2>4, <2>5
<1>17. QED
  BY <1>10, <1>14, <1>16 DEF Granted

(* A run begins with no approvals, or with those of its checkpoint. *)
LEMMA StartedKeepsGranted ==
  ASSUME Tracked, Granted, ReliableStore, NEW c \in Calls,
         \/ \E t \in Threads : RunWorkflow(c, t)
         \/ \E k \in DOMAIN checkpoints : ResumeFromCheckpoint(c, k)
  PROVE  Granted'
<1>1. /\ pc[c] = "idle" /\ c \in Runs /\ ref' = ref /\ local' = local
      /\ Gated \subseteq Steps
  BY RuntimeConstants DEF RunWorkflow, ResumeFromCheckpoint, At, Calls, Tracked,
                          Ownership, Shape, TypeOK
<1>2. ASSUME NEW t \in Threads, RunWorkflow(c, t)
      PROVE  Granted'
  <2> DEFINE s == NewRun(c, t)
  <2>1. s \in RunState /\ s.run = c /\ s.status = "PENDING" /\ Valid(s)
    BY <1>1, RuntimeConstants DEF NewRun, NoState, RunState, Status, Valid
  <2>2. Persist(c, c, s, "registering")
    BY <1>2 DEF RunWorkflow
  <2> HIDE DEF s
  <2>3. QED
    BY <1>1, <2>1, <2>2, CreatedKeepsGranted
<1>3. ASSUME NEW k \in DOMAIN checkpoints, ResumeFromCheckpoint(c, k)
      PROVE  Granted'
  <2>1. PICK q \in RunState : q = checkpoints[k]
    BY ElementOfSeq, LenProperties DEF Tracked, Ownership, Shape, TypeOK, StoreTypeOK
  <2> DEFINE s == [q EXCEPT !.run = c, !.status = "RUNNING", !.approval = None,
                            !.interrupt = 0, !.resume = None]
  <2>2. "RUNNING" \in Status
    BY DEF Status
  <2>3. s \in RunState /\ s.run = c /\ s.status = "RUNNING"
    BY <1>1, <2>2 DEF RunState
  <2>4. Persist(c, c, s, "registering")
    BY <1>3, <2>1 DEF ResumeFromCheckpoint, Restored
  <2> HIDE DEF s
  <2>5. Valid(s)
    BY <2>3 DEF Valid
  <2>6. QED
    BY <1>1, <2>3, <2>4, <2>5, CreatedKeepsGranted
<1>4. QED
  BY <1>2, <1>3

(* A resume drives nothing before it persists. *)
LEMMA ResumeKeepsGranted ==
  ASSUME Tracked, Granted, NEW c \in Calls,
         (\E r \in Runs : ResumeWorkflow(c, r)) \/ Loaded(c)
  PROVE  Granted'
<1>1. /\ Fresh(c) /\ UNCHANGED <<state, checkpoints, history>>
      /\ heap \in [Calls -> RunState] /\ ref \in [Calls -> Calls]
      /\ pc \in [Calls -> PC] /\ local \in [Calls -> Local]
      /\ cache \in [Procs -> [Runs -> Calls \cup {None}]] /\ ProcOf[c] \in Procs
  BY RuntimeConstants
     DEF ResumeWorkflow, Loaded, At, Fresh, storeVars, Tracked, Ownership, Shape, TypeOK
<1>2. ref[c] = c /\ \A d \in Calls : ref[d] = c => d = c
  BY <1>1 DEF Tracked, Ownership, Shape, FreshIsPrivate
<1>3. ASSUME NEW o \in Calls, NEW l, Dispatch(c, o, l)
      PROVE  /\ ~Drives(c)'
             /\ \A d \in Calls : d # c =>
                  RunOf(d)' = RunOf(d) /\ pc'[d] = pc[d] /\ local'[d] = local[d]
  <2>1. pc'[c] \in {"granting", "rejecting", "resolving", "done"}
    BY <1>1, <1>3 DEF Dispatch, Goto
  <2>2. \A d \in Calls : d # c => /\ ref'[d] = ref[d]
                                  /\ pc'[d] = pc[d] /\ local'[d] = local[d]
    BY <1>1, <1>3 DEF Dispatch, Goto
  <2>3. \A x \in Calls : heap'[x].run = heap[x].run
    <3>1. CASE heap' = heap
      BY <3>1
    <3>2. CASE heap' = [heap EXCEPT ![o].approved = @ \cup {heap[o].approval}]
      <4>1. heap[o] \in RunState
        BY <1>1
      <4>2. /\ heap'[o].run = heap[o].run
            /\ \A x \in Calls : x # o => heap'[x] = heap[x]
        BY <1>1, <3>2, <4>1 DEF RunState
      <4>3. QED BY <4>2
    <3>3. QED BY <1>3, <3>1, <3>2 DEF Dispatch
  <2>4. QED BY <1>1, <2>1, <2>2, <2>3 DEF Drives, RunOf, Object
<1>4. ASSUME NEW r \in Runs, NEW l, ResumeLoading(c, r, l)
      PROVE  /\ ~Drives(c)'
             /\ \A d \in Calls : d # c =>
                  RunOf(d)' = RunOf(d) /\ pc'[d] = pc[d] /\ local'[d] = local[d]
  <2>1. /\ pc'[c] = "loading" /\ ref' = ref
        /\ \A d \in Calls : d # c => /\ heap'[d] = heap[d] /\ pc'[d] = pc[d]
                                     /\ local'[d] = local[d]
    BY <1>1, <1>4 DEF ResumeLoading, Goto
  <2>2. \A d \in Calls : d # c => ref[d] \in Calls /\ ref[d] # c
    BY <1>1, <1>2
  <2>3. QED BY <2>1, <2>2 DEF Drives, RunOf, Object
<1>5. /\ ~Drives(c)'
      /\ \A d \in Calls : d # c =>
           RunOf(d)' = RunOf(d) /\ pc'[d] = pc[d] /\ local'[d] = local[d]
  <2>1. CASE Loaded(c)
    BY <1>3, <2>1 DEF Loaded
  <2>2. CASE \E r \in Runs : ResumeWorkflow(c, r)
    <3>1. PICK r \in Runs : ResumeWorkflow(c, r)
      BY <2>2
    <3>2. PICK l \in Payloads(r) : ResumeCached(c, r, l) \/ ResumeLoading(c, r, l)
      BY <3>1 DEF ResumeWorkflow
    <3>3. CASE ResumeCached(c, r, l)
      <4>1. PICK o \in Calls : Dispatch(c, o, l)
        BY <1>1, <3>3 DEF ResumeCached
      <4>2. QED BY <1>3, <4>1
    <3>4. CASE ResumeLoading(c, r, l)
      BY <1>4, <3>4
    <3>5. QED BY <3>2, <3>3, <3>4
  <2>3. QED BY <2>1, <2>2
<1>6. \A d \in Calls : Drives(d)' =>
        /\ Drives(d)
        /\ RunOf(d)' = RunOf(d)
        /\ AtOne(d) => AtOne(d)' /\ local'[d].at = local[d].at
  BY <1>5 DEF Drives, AtOne
<1>7. QED
  BY <1>1, <1>6, CalmKeepsGranted

(* Nor does the environment. *)
LEMMA EnvironmentKeepsGranted ==
  ASSUME Granted, Environment \/ UNCHANGED vars
  PROVE  Granted'
<1>1. UNCHANGED <<state, checkpoints, heap, ref, local, history>>
  BY DEF Environment, Crash, ExpireRequest, ListPendingInterrupts, vars, runtimeVars,
         storeVars
<1>2. \A d \in Calls : pc'[d] = pc[d] \/ pc'[d] = "crashed"
  BY DEF Environment, Crash, ExpireRequest, ListPendingInterrupts, vars, runtimeVars
<1>3. \A d \in Calls : Drives(d)' =>
        /\ Drives(d)
        /\ RunOf(d)' = RunOf(d)
        /\ AtOne(d) => AtOne(d)' /\ local'[d].at = local[d].at
  BY <1>1, <1>2 DEF Drives, AtOne, RunOf, Object
<1>4. QED
  BY <1>1, <1>3, CalmKeepsGranted

(* No run has an approval. *)
LEMMA InitGranted == Init => Granted
<1> SUFFICES ASSUME Init PROVE Granted
  OBVIOUS
<1>1. Gated \subseteq Steps /\ \A r \in Runs, s \in Steps : reused[r][s] = 0
  BY RuntimeConstants DEF Init
<1>2. /\ \A r \in Runs : state[r].approved = {}
      /\ checkpoints = <<>> /\ unused = <<>>
  BY DEF Init, StoreInit, NoState
<1>3. ApprovalsNotReused
  BY <1>1 DEF ApprovalsNotReused
<1>4. QED
  BY <1>2, <1>3 DEF Granted

(* Every step keeps Granted. *)
LEMMA NextKeepsGranted ==
  ASSUME ReliableStore, Tracked, Granted, [Next]_vars
  PROVE  Granted'
<1>1. ASSUME NEW c \in Calls, Start(c)
      PROVE  Granted'
  BY <1>1, StartedKeepsGranted, ResumeKeepsGranted DEF Start
<1>2. ASSUME NEW c \in Calls, Proceed(c), ~Loaded(c)
      PROVE  Granted'
  <2>1. WorkStep(c)
    BY <1>2, ProceedIsWorkStep DEF Tracked, Ownership
  <2>2. CASE RegisterActiveRun(c) \/ Launch(c)
    BY <2>1, <2>2, QuietKeepsGranted, AdvancingKeepsGranted
  <2>3. CASE Resuming(c)
    BY <1>2, <2>1, <2>3, AnsweringKeepsGranted, QuietKeepsGranted,
       ContinuingKeepsGranted DEF Resuming
  <2>4. CASE Advancing(c)
    BY <2>1, <2>4, QuietKeepsGranted, AdvancingKeepsGranted, ExecuteKeepsGranted,
       SteppingKeepsGranted DEF Advancing
  <2>5. ~Write(c)
    BY PutsAtOnce DEF Tracked, Ownership, ReliableStore
  <2>6. QED BY <1>2, <2>2, <2>3, <2>4, <2>5 DEF Proceed
<1>3. QED
  BY <1>1, <1>2, ResumeKeepsGranted, EnvironmentKeepsGranted DEF Next

(* Where no other coroutine runs between a resume's look at the status and its *)
(* change nor inside a put, and the store answers, an execution of a gated     *)
(* step uses up an approval of its own; but for one, in a run restored from a   *)
(* checkpoint that lists an approval already used.                           *)
THEOREM ApprovalsUsedOnce ==
  ASSUME AtomicResume, ReliableStore
  PROVE  Spec => []ApprovalsNotReused
<1>1. Init => Granted
  BY InitGranted
<1>2. Tracked /\ Granted /\ [Next]_vars => Granted'
  BY NextKeepsGranted
<1>3. Granted => ApprovalsNotReused
  BY DEF Granted
<1>4. QED
  BY <1>1, <1>2, <1>3, TrackedAlways, PTL DEF Spec
=============================================================================
