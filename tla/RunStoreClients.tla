--------------------------- MODULE RunStoreClients --------------------------
(***************************************************************************)
(* Clients of one InMemoryRunStore (governai/runtime/run_store.py).  Each     *)
(* works on a RunState of its own, for get and get_checkpoint return copies   *)
(* and put stores one, and saves it the way _persist_state does: as a child   *)
(* of the checkpoint it was read from.                                      *)
(***************************************************************************)
EXTENDS RunStore

CONSTANTS Clients,   \* tasks that use the store
          ThreadOf,  \* the thread of each run
          Statuses,  \* what a client may change the status of a run to
          CanDelete, \* whether runs are deleted
          MaxWrites  \* bound on the number of checkpoints

ASSUME ClientConstants ==
  /\ ThreadOf \in [Runs -> Threads]
  /\ Statuses \subseteq Status
  /\ CanDelete \in BOOLEAN
  /\ MaxWrites \in Nat

VARIABLE mine \* the RunState each client works on

clientVars == <<storeVars, mine>>

Init ==
  /\ StoreInit
  /\ mine = [k \in Clients |-> NoState]

Hold(k, s) == mine' = [mine EXCEPT ![k] = s]

(* A new RunState, not stored yet. *)
Construct(k, r) ==
  /\ Hold(k, [NoState EXCEPT !.run = r, !.thread = ThreadOf[r],
                             !.status = "RUNNING"])
  /\ UNCHANGED storeVars

Get(k, r) ==
  /\ Stored(r)
  /\ Hold(k, state[r])
  /\ UNCHANGED storeVars

GetCheckpoint(k, i) ==
  /\ Hold(k, checkpoints[i])
  /\ UNCHANGED storeVars

GetLatestCheckpoint(k, t) ==
  \E i \in DOMAIN checkpoints :
    IsLatestCheckpoint(t, i) /\ GetCheckpoint(k, i)

Successor(s, status) ==
  [s EXCEPT !.status = status, !.parent = s.ckpt, !.ckpt = 0]

Save(k, status) ==
  LET s == Successor(mine[k], status) IN
    /\ mine[k] # NoState
    /\ Len(checkpoints) < MaxWrites
    /\ \/ /\ Accepts(s)
          /\ Put(s)
          /\ Hold(k, Stamped(s))
       \/ /\ ~Accepts(s)
          /\ Hold(k, s)
          /\ UNCHANGED storeVars

(* write_checkpoint without put: a snapshot under its own id or a new one. *)
WriteCheckpoint(k) ==
  LET s == mine[k]
      n == Len(checkpoints) + 1
  IN
    /\ s # NoState
    /\ n <= MaxWrites
    /\ checkpoints' = IF s.ckpt = 0
                      THEN Append(checkpoints, [s EXCEPT !.ckpt = n])
                      ELSE [checkpoints EXCEPT ![s.ckpt] = s]
    /\ UNCHANGED <<state, threadRuns, threadActive, mine>>

(* Operations on the runs of a thread. *)
Index(r) ==
  LET t == ThreadOf[r] IN
    \/ SetActiveRunId(t, r)
    \/ ClearActiveRunId(t, r)
    \/ GetActiveRunId(t)
    \/ ListRunIds(t)
    \/ CanDelete /\ Delete(r)

Next ==
  \/ \E k \in Clients :
       \/ \E r \in Runs : Construct(k, r) \/ Get(k, r)
       \/ \E i \in DOMAIN checkpoints : GetCheckpoint(k, i)
       \/ \E t \in Threads : GetLatestCheckpoint(k, t)
       \/ \E status \in Statuses : Save(k, status)
       \/ WriteCheckpoint(k)
  \/ \E r \in Runs : Index(r) /\ UNCHANGED mine

Spec == Init /\ [][Next]_clientVars

-----------------------------------------------------------------------------
(* Properties *)

TypeOK ==
  /\ StoreTypeOK
  /\ mine \in [Clients -> RunState]

(* The epoch comparison of put makes each run a register of versions: no write *)
(* replaces a version its writer has not read, whatever older copies and      *)
(* checkpoints the clients hold.  Once runs are deleted and stored anew, their *)
(* epochs start again, and a write may replace a version of a lower epoch.    *)
Register ==
  INSTANCE RunRegister
    WITH Values  <- Status \cup {"ABSENT"},
         MayForget <- CanDelete,
         version <- [r \in Runs |-> state[r].epoch],
         value   <- [r \in Runs |-> state[r].status],
         view    <- [k \in Clients |-> [run     |-> mine[k].run,
                                        version |-> mine[k].epoch]]

ImplementsRegister == Register!Spec

(* Every stored run is in the history of its thread exactly once, although     *)
(* runs are recorded by two operations and dropped by two others.            *)
HistoryComplete ==
  \A r \in Runs : Stored(r) =>
    Cardinality({i \in DOMAIN threadRuns[ThreadOf[r]] :
                   threadRuns[ThreadOf[r]][i] = r}) = 1
=============================================================================
