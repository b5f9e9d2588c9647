------------------------------ MODULE RunStore ------------------------------
(***************************************************************************)
(* The run store (governai/runtime/run_store.py): the latest snapshot of    *)
(* every run behind an epoch compare-and-set, the checkpoints written with  *)
(* each snapshot, the history of runs per thread and the active run of a    *)
(* thread.  This module has the store's state and one action per operation, *)
(* each as atomic as InMemoryRunStore makes it; it has no Init/Next of its   *)
(* own: RunStoreClients and LocalRuntime say who calls the operations.      *)
(*                                                                         *)
(* A checkpoint id is the position of the snapshot in `checkpoints`: uuid4   *)
(* only promises that a fresh id was never used.  0 is "no checkpoint".     *)
(***************************************************************************)
EXTENDS RunNames, Lists, Integers, Sequences, SequencesExt

VARIABLES state,        \* the current snapshot of each run (_state)
          checkpoints,  \* every snapshot, oldest first (_checkpoints)
          threadRuns,   \* run ids of a thread, oldest first (_thread_runs)
          threadActive  \* the active run of a thread (_thread_active)

storeVars == <<state, checkpoints, threadRuns, threadActive>>

Status == {"PENDING", "RUNNING", "WAITING_APPROVAL", "WAITING_INTERRUPT",
           "COMPLETED", "FAILED"}

Terminal == {"COMPLETED", "FAILED"}

(* What the store and the runtime look at in a RunState: `approval` is the  *)
(* step pending_approval asks for, `interrupt` the pending interrupt id (0:  *)
(* none), `resume` the step of metadata["pending_interrupt_resume"],         *)
(* `approved` metadata["approved_steps"]; `completed` stands for both the    *)
(* completed steps and the artifacts they emitted.                          *)
RunState == [run       : Runs \cup {None},
             thread    : Threads \cup {None},
             status    : Status \cup {"ABSENT"},
             step      : Steps \cup {None},
             approval  : Steps \cup {None},
             interrupt : Nat,
             resume    : Steps \cup {None},
             approved  : SUBSET Steps,
             completed : SUBSET Steps,
             epoch     : Nat,
             ckpt      : Nat,
             parent    : Nat]

NoState == [run |-> None, thread |-> None, status |-> "ABSENT", step |-> None,
            approval |-> None, interrupt |-> 0, resume |-> None,
            approved |-> {}, completed |-> {}, epoch |-> 0, ckpt |-> 0,
            parent |-> 0]

Stored(r) == state[r] # NoState

StoreInit ==
  /\ state = [r \in Runs |-> NoState]
  /\ checkpoints = <<>>
  /\ threadRuns = [t \in Threads |-> <<>>]
  /\ threadActive = [t \in Threads |-> None]

StoreTypeOK ==
  /\ state \in [Runs -> RunState]
  /\ checkpoints \in Seq(RunState)
  /\ threadRuns \in [Threads -> Seq(Runs)]
  /\ threadActive \in [Threads -> Runs \cup {None}]

-----------------------------------------------------------------------------
(* Put *)

Valid(s) ==
  /\ s.status = "WAITING_INTERRUPT" => s.interrupt # 0
  /\ s.status = "WAITING_APPROVAL" => s.approval # None

(* Faulty variants of the comparison: none, and one epoch too lenient. *)
StaleNever(s) == FALSE
StaleByTwo(s) == state[s.run].epoch > s.epoch + 1

Stale(s) == state[s.run].epoch > s.epoch

Accepts(s) == Valid(s) /\ ~Stale(s)

(* The snapshot as put writes it: the next epoch of the stored run and, when *)
(* the caller left checkpoint_id empty, a fresh checkpoint id.              *)
Stamped(s) ==
  [s EXCEPT !.epoch = state[s.run].epoch + 1,
            !.ckpt  = IF s.ckpt = 0 THEN Len(checkpoints) + 1 ELSE s.ckpt]

(* Faulty variant of what follows: no look at what is recorded. *)
RecordedAgain(history, r) == Append(history, r)

(* The history with r in it "exactly once". *)
Recorded(history, r) ==
  IF \E i \in DOMAIN history : history[i] = r THEN history
                                              ELSE Append(history, r)

(* Where the entries of some runs are. *)
PositionsOf(history, runs) == {i \in DOMAIN history : history[i] \in runs}

(* put, of a snapshot it accepts. *)
Put(s) ==
  LET w == Stamped(s) IN
    /\ state' = [state EXCEPT ![s.run] = w]
    /\ checkpoints' = IF s.ckpt = 0 THEN Append(checkpoints, w)
                                    ELSE [checkpoints EXCEPT ![s.ckpt] = w]
    /\ threadRuns' = [threadRuns EXCEPT ![s.thread] = Recorded(@, s.run)]
    /\ UNCHANGED threadActive

-----------------------------------------------------------------------------
(* The other operations *)

SetActiveRunId(t, r) ==
  /\ threadRuns' = [threadRuns EXCEPT ![t] = Recorded(@, r)]
  /\ threadActive' = [threadActive EXCEPT ![t] = r]
  /\ UNCHANGED <<state, checkpoints>>

ClearActiveRunId(t, r) ==
  /\ threadActive' = [threadActive EXCEPT ![t] = IF @ = r THEN None ELSE @]
  /\ UNCHANGED <<state, checkpoints, threadRuns>>

(* Deleting a run keeps its checkpoints. *)
Delete(r) ==
  LET t == state[r].thread IN
    /\ Stored(r)
    /\ state' = [state EXCEPT ![r] = NoState]
    /\ threadRuns' = [threadRuns EXCEPT ![t] = Selected(@, PositionsOf(@, Runs \ {r}))]
    /\ threadActive' = [threadActive EXCEPT ![t] = IF @ = r THEN None ELSE @]
    /\ UNCHANGED checkpoints

(* get_active_run_id forgets a mapping to a run that no longer exists. *)
GetActiveRunId(t) ==
  /\ threadActive' = [threadActive EXCEPT
                        ![t] = IF @ # None /\ Stored(@) THEN @ ELSE None]
  /\ UNCHANGED <<state, checkpoints, threadRuns>>

(* list_run_ids (and get_latest_run_id, which calls it) drops them from the  *)
(* history.                                                                 *)
ListRunIds(t) ==
  /\ threadRuns' =
       [threadRuns EXCEPT ![t] = Selected(@, PositionsOf(@, {r \in Runs : Stored(r)}))]
  /\ UNCHANGED <<state, checkpoints, threadActive>>

(* What get_latest_checkpoint returns: the newest snapshot of the thread. *)
IsLatestCheckpoint(t, i) ==
  /\ checkpoints[i].thread = t
  /\ \A j \in DOMAIN checkpoints : checkpoints[j].thread = t => j <= i
=============================================================================
