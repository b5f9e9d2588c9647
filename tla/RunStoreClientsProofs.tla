----------------------- MODULE RunStoreClientsProofs ------------------------
(***************************************************************************)
(* The in-memory run store implements the register of versions, for any       *)
(* number of clients, runs and threads, whether runs are deleted or not.      *)
(***************************************************************************)
EXTENDS RunStoreClients, SequenceTheorems, FiniteSetTheorems, WellFoundedInduction, TLAPS

-----------------------------------------------------------------------------
(* The invariant: unless runs are deleted, nobody holds, and no checkpoint is, *)
(* a version that the store has yet to reach.  Without it an object could pass *)
(* the comparison of put with an epoch ahead of the stored one.              *)

Known(s, stored) ==
  s # NoState =>
    s.run \in Runs /\ (CanDelete \/ s.epoch <= stored[s.run].epoch)

RegisterInv ==
  /\ state \in [Runs -> RunState]
  /\ checkpoints \in Seq(RunState)
  /\ mine \in [Clients -> RunState]
  /\ \A r \in Runs : Stored(r) => state[r].run = r
  /\ \A k \in Clients : Known(mine[k], state)
  /\ \A i \in DOMAIN checkpoints :
       Known(checkpoints[i], state) /\ checkpoints[i] # NoState

(* A store in which no epoch went back knows what was known before. *)
LEMMA KnownKept ==
  ASSUME NEW old \in [Runs -> RunState], NEW new \in [Runs -> RunState],
         CanDelete \/ \A r \in Runs : old[r].epoch <= new[r].epoch,
         NEW s \in RunState, Known(s, old)
  PROVE  Known(s, new)
<1>1. CASE s = NoState \/ CanDelete
  BY <1>1 DEF Known
<1>2. CASE s # NoState /\ ~CanDelete
  <2>1. s.run \in Runs /\ s.epoch <= old[s.run].epoch
    BY <1>2 DEF Known
  <2>2. old[s.run].epoch <= new[s.run].epoch
    BY <1>2, <2>1
  <2>3. /\ s.epoch \in Nat
        /\ old[s.run].epoch \in Nat
        /\ new[s.run].epoch \in Nat
    BY <2>1 DEF RunState
  <2>4. s.epoch <= new[s.run].epoch
    BY <2>1, <2>2, <2>3
  <2>5. QED BY <2>1, <2>4 DEF Known
<1>3. QED BY <1>1, <1>2

(* A checkpoint is a RunState. *)
LEMMA CheckpointType ==
  ASSUME RegisterInv, NEW i \in DOMAIN checkpoints
  PROVE  /\ checkpoints[i] \in RunState
         /\ Known(checkpoints[i], state)
         /\ checkpoints[i] # NoState
BY LenProperties, ElementOfSeq DEF RegisterInv

(* Replacing an element of a sequence. *)
LEMMA ReplaceInSeq ==
  ASSUME NEW S, NEW q \in Seq(S), NEW i, NEW e \in S
  PROVE  /\ [q EXCEPT ![i] = e] \in Seq(S)
         /\ \A j \in DOMAIN [q EXCEPT ![i] = e] :
              \/ [q EXCEPT ![i] = e][j] = e
              \/ j \in DOMAIN q /\ [q EXCEPT ![i] = e][j] = q[j]
<1>1. CASE i \in 1 .. Len(q)
  BY <1>1, ExceptSeq, LenProperties
<1>2. CASE i \notin 1 .. Len(q)
  <2>1. [q EXCEPT ![i] = e] = q
    BY <1>2, LenProperties
  <2>2. QED BY <2>1
<1>3. QED BY <1>1, <1>2

(* A client comes to hold a known version; the store stays as it is. *)
LEMMA HoldKeepsInv ==
  ASSUME RegisterInv, NEW k \in Clients, NEW s \in RunState, Known(s, state),
         Hold(k, s), UNCHANGED <<state, checkpoints>>
  PROVE  RegisterInv'
BY DEF Hold, RegisterInv, Stored

(* Which the register sees as a Read. *)
LEMMA HoldIsRead ==
  ASSUME RegisterInv, NEW k \in Clients, NEW s \in RunState, Known(s, state),
         s # NoState, Hold(k, s), UNCHANGED state
  PROVE  s.run \in Runs /\ Register!Read(k, s.run)
<1> DEFINE version == [r \in Runs |-> state[r].epoch]
           seen == [j \in Clients |-> [run     |-> mine[j].run,
                                       version |-> mine[j].epoch]]
<1>1. /\ s.run \in Runs
      /\ s.epoch \in Nat
      /\ s.epoch <= version[s.run] \/ CanDelete
  BY DEF Known, RunState
<1>2. mine' = [mine EXCEPT ![k] = s] /\ mine \in [Clients -> RunState]
  BY DEF Hold, RegisterInv
<1>3. /\ seen' = [seen EXCEPT ![k] = [run |-> s.run, version |-> s.epoch]]
      /\ seen'[k].version = s.epoch
  BY <1>2
<1>4. QED BY <1>1, <1>3 DEF Register!Read

-----------------------------------------------------------------------------
(* Save *)

(* The next version of an object is one of its run at its epoch. *)
LEMMA SuccessorFacts ==
  ASSUME NEW s \in RunState, NEW status \in Statuses
  PROVE  /\ Successor(s, status) \in RunState
         /\ Successor(s, status).run = s.run
         /\ Successor(s, status).epoch = s.epoch
         /\ Successor(s, status).status = status
         /\ Successor(s, status).ckpt = 0
<1>1. status \in Status
  BY ClientConstants
<1>2. QED BY <1>1 DEF Successor, RunState

(* What put writes follows the stored version. *)
LEMMA StampedFacts ==
  ASSUME RegisterInv, NEW s \in RunState, s.run \in Runs
  PROVE  /\ Stamped(s) \in RunState
         /\ Stamped(s).run = s.run
         /\ Stamped(s).epoch = state[s.run].epoch + 1
         /\ Stamped(s).status = s.status
<1>1. Len(checkpoints) \in Nat
  BY LenProperties DEF RegisterInv
<1>2. PICK n \in Nat : n = IF s.ckpt = 0 THEN Len(checkpoints) + 1 ELSE s.ckpt
  BY <1>1 DEF RunState
<1>3. PICK e \in Nat : e = state[s.run].epoch + 1
  BY DEF RegisterInv, RunState
<1>4. Stamped(s) = [s EXCEPT !.epoch = e, !.ckpt = n]
  BY <1>2, <1>3 DEF Stamped
<1>5. QED BY <1>3, <1>4 DEF RunState

(* A put raises the epoch of its run by one and adds a checkpoint. *)
LEMMA PutKeepsInv ==
  ASSUME RegisterInv, NEW k \in Clients, NEW s \in RunState, s.run \in Runs,
         s.ckpt = 0, Put(s), Hold(k, Stamped(s))
  PROVE  RegisterInv'
<1>1. PICK w \in RunState : w = Stamped(s)
  BY StampedFacts
<1>2. w.run = s.run /\ w.epoch = state[s.run].epoch + 1
  BY <1>1, StampedFacts
<1>3. /\ state' = [state EXCEPT ![s.run] = w]
      /\ checkpoints' = Append(checkpoints, w)
      /\ mine' = [mine EXCEPT ![k] = w]
  BY <1>1 DEF Put, Hold
<1>4. /\ state \in [Runs -> RunState]
      /\ state' \in [Runs -> RunState]
      /\ state'[s.run] = w
  BY <1>3 DEF RegisterInv
<1>5. \A r \in Runs : state[r].epoch <= state'[r].epoch
  <2>1. \A r \in Runs : state[r].epoch \in Nat
    BY <1>4 DEF RunState
  <2>2. \A r \in Runs : r # s.run => state'[r] = state[r]
    BY <1>3, <1>4
  <2>3. QED BY <1>2, <1>4, <2>1, <2>2
<1>6. Known(w, state') /\ w # NoState
  <2>1. w.epoch \in Nat
    BY DEF RunState
  <2>2. w.run # None
    BY <1>2, NoneIsNoName
  <2>3. QED BY <1>2, <1>4, <2>1, <2>2 DEF Known, NoState
<1>7. /\ checkpoints' \in Seq(RunState)
      /\ \A i \in DOMAIN checkpoints' :
           \/ checkpoints'[i] = w
           \/ i \in DOMAIN checkpoints /\ checkpoints'[i] = checkpoints[i]
  <2>1. checkpoints \in Seq(RunState)
    BY DEF RegisterInv
  <2>2. /\ checkpoints' \in Seq(RunState)
        /\ Len(checkpoints') = Len(checkpoints) + 1
        /\ \A i \in 1 .. Len(checkpoints) : checkpoints'[i] = checkpoints[i]
        /\ checkpoints'[Len(checkpoints) + 1] = w
    BY <1>3, <2>1, AppendProperties
  <2>3. /\ DOMAIN checkpoints = 1 .. Len(checkpoints)
        /\ Len(checkpoints) \in Nat
        /\ DOMAIN checkpoints' = 1 .. Len(checkpoints')
    BY <2>1, <2>2, LenProperties
  <2>4. QED BY <2>2, <2>3
<1>8. \A i \in DOMAIN checkpoints' :
        Known(checkpoints'[i], state') /\ checkpoints'[i] # NoState
  <2>1. TAKE i \in DOMAIN checkpoints'
  <2>2. CASE checkpoints'[i] = w
    BY <1>6, <2>2
  <2>3. CASE i \in DOMAIN checkpoints /\ checkpoints'[i] = checkpoints[i]
    BY <1>4, <1>5, <2>3, CheckpointType, KnownKept
  <2>4. QED BY <1>7, <2>2, <2>3
<1>9. \A j \in Clients : Known(mine'[j], state')
  <2>1. TAKE j \in Clients
  <2>2. CASE mine'[j] = w
    BY <1>6, <2>2
  <2>3. CASE mine'[j] = mine[j]
    BY <1>4, <1>5, <2>3, KnownKept DEF RegisterInv
  <2>4. QED BY <1>3, <2>2, <2>3 DEF RegisterInv
<1>10. mine' \in [Clients -> RunState]
  BY <1>3 DEF RegisterInv
<1>11. \A r \in Runs : Stored(r)' => state'[r].run = r
  BY <1>2, <1>3, <1>4 DEF RegisterInv, Stored
<1>12. QED
  BY <1>4, <1>7, <1>8, <1>9, <1>10, <1>11 DEF RegisterInv

(* What the invariant says of an object about to be put: it is one of a run, and *)
(* if its put is not stale, it is at the stored epoch, or at a later one of a   *)
(* run that was deleted.                                                    *)
LEMMA AcceptedIsCurrent ==
  ASSUME RegisterInv, NEW s \in RunState, s # NoState, Known(s, state),
         ~Stale(s)
  PROVE  /\ s.run \in Runs
         /\ \/ s.epoch = state[s.run].epoch
            \/ CanDelete /\ s.epoch > state[s.run].epoch
<1>1. s.run \in Runs /\ (CanDelete \/ s.epoch <= state[s.run].epoch)
  BY DEF Known
<1>2. s.epoch \in Nat /\ state[s.run].epoch \in Nat
  BY <1>1 DEF RegisterInv, RunState
<1>3. ~(state[s.run].epoch > s.epoch)
  BY DEF Stale
<1>4. QED BY <1>1, <1>2, <1>3

(* The register sees an accepted put as a Write. *)
LEMMA PutIsWrite ==
  ASSUME RegisterInv, NEW k \in Clients, NEW s \in RunState, s.run \in Runs,
         mine[k].run = s.run,
         \/ mine[k].epoch = state[s.run].epoch
         \/ CanDelete /\ mine[k].epoch > state[s.run].epoch,
         Put(s), Hold(k, Stamped(s))
  PROVE  Register!Write(k, s.run)
<1> DEFINE version == [r \in Runs |-> state[r].epoch]
           value == [r \in Runs |-> state[r].status]
           seen == [j \in Clients |-> [run     |-> mine[j].run,
                                       version |-> mine[j].epoch]]
<1>1. PICK w \in RunState : w = Stamped(s)
  BY StampedFacts
<1>2. w.run = s.run /\ w.epoch = state[s.run].epoch + 1
  BY <1>1, StampedFacts
<1>3. /\ state' = [state EXCEPT ![s.run] = w]
      /\ mine' = [mine EXCEPT ![k] = w]
  BY <1>1 DEF Put, Hold
<1>4. state \in [Runs -> RunState] /\ mine \in [Clients -> RunState]
  BY DEF RegisterInv
<1>5. /\ seen[k].run = s.run
      /\ \/ seen[k].version = version[s.run]
         \/ CanDelete /\ seen[k].version > version[s.run]
  OBVIOUS
<1>6. version' = [version EXCEPT ![s.run] = version[s.run] + 1]
  BY <1>2, <1>3, <1>4
<1>7. value' = [value EXCEPT ![s.run] = w.status]
  BY <1>3, <1>4
<1>8. w.status \in Status \cup {"ABSENT"}
  BY DEF RunState
<1>9. seen' = [seen EXCEPT ![k] = [run |-> s.run, version |-> version'[s.run]]]
  <2>1. version'[s.run] = w.epoch
    BY <1>2, <1>6
  <2>2. QED BY <1>2, <1>3, <1>4, <2>1
<1>10. QED
  BY <1>5, <1>6, <1>7, <1>8, <1>9 DEF Register!Write, Register!Sees

(* A refused save changes nothing the register sees. *)
LEMMA RefusedIsStutter ==
  ASSUME RegisterInv, NEW k \in Clients, NEW s \in RunState,
         mine[k].run = s.run, mine[k].epoch = s.epoch, Hold(k, s),
         UNCHANGED state
  PROVE  UNCHANGED Register!registerVars
<1>1. mine' = [mine EXCEPT ![k] = s] /\ mine \in [Clients -> RunState]
  BY DEF Hold, RegisterInv
<1>2. \A j \in Clients : mine'[j].run = mine[j].run
                         /\ mine'[j].epoch = mine[j].epoch
  BY <1>1
<1>3. QED BY <1>2 DEF Register!registerVars

-----------------------------------------------------------------------------
(* Every step keeps the invariant and is a step of the register. *)

RegisterStep == RegisterInv' /\ [Register!Next]_(Register!registerVars)

(* Objects that are constructed or read. *)
LEMMA HoldStep ==
  ASSUME RegisterInv, NEW k \in Clients, NEW s \in RunState, Known(s, state),
         s # NoState, Hold(k, s), UNCHANGED storeVars
  PROVE  RegisterStep
<1>1. UNCHANGED <<state, checkpoints>>
  BY DEF storeVars
<1>2. QED
  BY <1>1, HoldKeepsInv, HoldIsRead DEF RegisterStep, Register!Next

(* A new object is version 0 of its run. *)
LEMMA ConstructStep ==
  ASSUME RegisterInv, NEW k \in Clients, NEW r \in Runs, Construct(k, r)
  PROVE  RegisterStep
<1>1. PICK s : s = [NoState EXCEPT !.run = r, !.thread = ThreadOf[r],
                                   !.status = "RUNNING"]
  OBVIOUS
<1>2. /\ s \in RunState
      /\ s.run = r
      /\ s.epoch = 0
      /\ s # NoState
  <2>1. ThreadOf[r] \in Threads
    BY ClientConstants
  <2>2. r # None
    BY NoneIsNoName
  <2>3. QED BY <1>1, <2>1, <2>2 DEF NoState, RunState, Status
<1>3. Known(s, state)
  BY <1>2 DEF Known, RegisterInv, RunState
<1>4. QED
  BY <1>1, <1>2, <1>3, HoldStep DEF Construct

(* get returns the current version. *)
LEMMA GetStep ==
  ASSUME RegisterInv, NEW k \in Clients, NEW r \in Runs, Get(k, r)
  PROVE  RegisterStep
<1>1. state[r] \in RunState /\ state[r].run = r /\ state[r] # NoState
  BY DEF RegisterInv, Get, Stored
<1>2. state[r].epoch \in Nat
  BY <1>1 DEF RunState
<1>3. Known(state[r], state)
  BY <1>1, <1>2 DEF Known
<1>4. QED BY <1>1, <1>3, HoldStep DEF Get

(* get_checkpoint returns an earlier version, or the current one. *)
LEMMA GetCheckpointStep ==
  ASSUME RegisterInv, NEW k \in Clients, NEW i \in DOMAIN checkpoints,
         GetCheckpoint(k, i)
  PROVE  RegisterStep
BY CheckpointType, HoldStep DEF GetCheckpoint

(* get_latest_checkpoint returns a checkpoint. *)
LEMMA GetLatestCheckpointStep ==
  ASSUME RegisterInv, NEW k \in Clients, NEW t, GetLatestCheckpoint(k, t)
  PROVE  RegisterStep
BY GetCheckpointStep DEF GetLatestCheckpoint

(* A save is a put of the next version, or refused. *)
LEMMA SaveStep ==
  ASSUME RegisterInv, NEW k \in Clients, NEW status \in Statuses,
         Save(k, status)
  PROVE  RegisterStep
<1>1. PICK s \in RunState : s = Successor(mine[k], status)
  BY SuccessorFacts DEF RegisterInv
<1>2. /\ mine[k] # NoState
      /\ mine[k] \in RunState
      /\ Known(mine[k], state)
  BY DEF Save, RegisterInv
<1>3. s.run = mine[k].run /\ s.epoch = mine[k].epoch /\ s.ckpt = 0
  BY <1>1, <1>2, SuccessorFacts
<1>4. s.run \in Runs
  BY <1>2, <1>3 DEF Known
<1>5. s # NoState /\ Known(s, state)
  <2>1. s.run # None
    BY <1>4, NoneIsNoName
  <2>2. QED BY <1>2, <1>3, <2>1 DEF Known, NoState
<1>6. CASE Accepts(s) /\ Put(s) /\ Hold(k, Stamped(s))
  <2>1. RegisterInv'
    BY <1>3, <1>4, <1>6, PutKeepsInv
  <2>2. \/ s.epoch = state[s.run].epoch
        \/ CanDelete /\ s.epoch > state[s.run].epoch
    BY <1>5, <1>6, AcceptedIsCurrent DEF Accepts
  <2>3. Register!Write(k, s.run)
    BY <1>3, <1>4, <1>6, <2>2, PutIsWrite
  <2>4. QED BY <1>4, <2>1, <2>3 DEF RegisterStep, Register!Next
<1>7. CASE Hold(k, s) /\ UNCHANGED storeVars
  <2>1. UNCHANGED <<state, checkpoints>>
    BY <1>7 DEF storeVars
  <2>2. QED
    BY <1>3, <1>5, <1>7, <2>1, HoldKeepsInv, RefusedIsStutter DEF RegisterStep
<1>8. QED BY <1>1, <1>6, <1>7 DEF Save

(* A checkpoint written on its own is a version its writer knows. *)
LEMMA WriteCheckpointStep ==
  ASSUME RegisterInv, NEW k \in Clients, WriteCheckpoint(k)
  PROVE  RegisterStep
<1>1. UNCHANGED <<state, mine>> /\ mine[k] # NoState
  BY DEF WriteCheckpoint
<1>2. mine[k] \in RunState /\ Known(mine[k], state)
  BY DEF RegisterInv
<1>3. mine[k].run \in Runs /\ mine[k].run # None
  BY <1>1, <1>2, NoneIsNoName DEF Known
<1>4. PICK w \in RunState :
        /\ w # NoState /\ Known(w, state)
        /\ \/ checkpoints' = Append(checkpoints, w)
           \/ checkpoints' = [checkpoints EXCEPT ![mine[k].ckpt] = w]
  <2>1. CASE mine[k].ckpt = 0
    <3>1. Len(checkpoints) + 1 \in Nat
      BY LenProperties DEF RegisterInv
    <3>2. \A n \in Nat : LET w == [mine[k] EXCEPT !.ckpt = n] IN
            w \in RunState /\ w.run = mine[k].run /\ w.epoch = mine[k].epoch
      BY <1>2 DEF RunState
    <3>3. PICK w \in RunState :
            /\ w = [mine[k] EXCEPT !.ckpt = Len(checkpoints) + 1]
            /\ w.run = mine[k].run /\ w.epoch = mine[k].epoch
      BY <3>1, <3>2
    <3>4. w # NoState /\ Known(w, state)
      BY <1>1, <1>2, <1>3, <3>3 DEF Known, NoState
    <3>5. checkpoints' = Append(checkpoints, w)
      BY <2>1, <3>3 DEF WriteCheckpoint
    <3>6. QED BY <3>4, <3>5
  <2>2. CASE mine[k].ckpt # 0
    BY <1>1, <1>2, <2>2 DEF WriteCheckpoint
  <2>3. QED BY <2>1, <2>2
<1>5. /\ checkpoints' \in Seq(RunState)
      /\ \A i \in DOMAIN checkpoints' :
           \/ checkpoints'[i] = w
           \/ i \in DOMAIN checkpoints /\ checkpoints'[i] = checkpoints[i]
  <2>1. checkpoints \in Seq(RunState)
    BY DEF RegisterInv
  <2>2. CASE checkpoints' = Append(checkpoints, w)
    <3>1. /\ checkpoints' \in Seq(RunState)
          /\ Len(checkpoints') = Len(checkpoints) + 1
          /\ \A i \in 1 .. Len(checkpoints) :
               checkpoints'[i] = checkpoints[i]
          /\ checkpoints'[Len(checkpoints) + 1] = w
      BY <2>1, <2>2, AppendProperties
    <3>2. /\ DOMAIN checkpoints = 1 .. Len(checkpoints)
          /\ Len(checkpoints) \in Nat
          /\ DOMAIN checkpoints' = 1 .. Len(checkpoints')
      BY <2>1, <3>1, LenProperties
    <3>3. QED BY <3>1, <3>2
  <2>3. CASE checkpoints' = [checkpoints EXCEPT ![mine[k].ckpt] = w]
    BY <2>1, <2>3, ReplaceInSeq
  <2>4. QED BY <1>4, <2>2, <2>3
<1>6. \A i \in DOMAIN checkpoints' :
        Known(checkpoints'[i], state) /\ checkpoints'[i] # NoState
  BY <1>4, <1>5, CheckpointType
<1>7. RegisterInv'
  BY <1>1, <1>5, <1>6 DEF RegisterInv, Stored
<1>8. UNCHANGED Register!registerVars
  BY <1>1 DEF Register!registerVars
<1>9. QED BY <1>7, <1>8 DEF RegisterStep

(* The register sees a deletion as a Forget. *)
LEMMA DeleteStep ==
  ASSUME CanDelete, RegisterInv, NEW r \in Runs, Delete(r), UNCHANGED mine
  PROVE  RegisterStep
<1>1. /\ state' = [state EXCEPT ![r] = NoState]
      /\ UNCHANGED <<checkpoints, mine>>
  BY DEF Delete
<1>2. state' \in [Runs -> RunState]
  BY <1>1 DEF RegisterInv, NoState, RunState
<1>3. \A s \in RunState : Known(s, state) => Known(s, state')
  BY <1>2, KnownKept DEF RegisterInv
<1>4. \A q \in Runs : Stored(q)' => state'[q].run = q
  BY <1>1 DEF RegisterInv, Stored
<1>5. RegisterInv'
  BY <1>1, <1>2, <1>3, <1>4, CheckpointType DEF RegisterInv
<1>6. Register!Forget(r)
  BY <1>1 DEF Register!Forget, RegisterInv, NoState
<1>7. QED BY <1>5, <1>6 DEF RegisterStep, Register!Next

(* The other operations on the runs of a thread leave the versions alone. *)
LEMMA IndexStep ==
  ASSUME RegisterInv, NEW r \in Runs, Index(r), UNCHANGED mine
  PROVE  RegisterStep
<1>1. CASE CanDelete /\ Delete(r)
  BY <1>1, DeleteStep
<1>2. CASE UNCHANGED <<state, checkpoints>>
  <2>1. RegisterInv'
    BY <1>2 DEF RegisterInv, Stored
  <2>2. UNCHANGED Register!registerVars
    BY <1>2 DEF Register!registerVars
  <2>3. QED BY <2>1, <2>2 DEF RegisterStep
<1>3. QED
  BY <1>1, <1>2
     DEF Index, SetActiveRunId, ClearActiveRunId, GetActiveRunId, ListRunIds

-----------------------------------------------------------------------------

(* The empty store. *)
LEMMA InitRegister == Init => RegisterInv /\ Register!Init
<1> SUFFICES ASSUME Init PROVE RegisterInv /\ Register!Init
  OBVIOUS
<1>1. /\ state = [r \in Runs |-> NoState]
      /\ checkpoints = <<>>
      /\ mine = [k \in Clients |-> NoState]
  BY DEF Init, StoreInit
<1>2. RegisterInv
  <2>1. NoState \in RunState
    BY DEF NoState, RunState
  <2>2. QED BY <1>1, <2>1 DEF RegisterInv, Known, Stored
<1>3. Register!Init
  BY <1>1 DEF Register!Init, NoState
<1>4. QED BY <1>2, <1>3

(* Every step of the clients. *)
LEMMA NextRegister ==
  ASSUME RegisterInv, [Next]_clientVars
  PROVE  RegisterStep
<1>1. ASSUME NEW k \in Clients, NEW r \in Runs, Construct(k, r)
      PROVE  RegisterStep
  BY <1>1, ConstructStep
<1>2. ASSUME NEW k \in Clients, NEW r \in Runs, Get(k, r)
      PROVE  RegisterStep
  BY <1>2, GetStep
<1>3. ASSUME NEW k \in Clients, NEW i \in DOMAIN checkpoints,
             GetCheckpoint(k, i)
      PROVE  RegisterStep
  BY <1>3, GetCheckpointStep
<1>4. ASSUME NEW k \in Clients, NEW t \in Threads, GetLatestCheckpoint(k, t)
      PROVE  RegisterStep
  BY <1>4, GetLatestCheckpointStep
<1>5. ASSUME NEW k \in Clients, NEW status \in Statuses, Save(k, status)
      PROVE  RegisterStep
  BY <1>5, SaveStep
<1>6. ASSUME NEW k \in Clients, WriteCheckpoint(k)
      PROVE  RegisterStep
  BY <1>6, WriteCheckpointStep
<1>7. ASSUME NEW r \in Runs, Index(r), UNCHANGED mine
      PROVE  RegisterStep
  BY <1>7, IndexStep
<1>8. CASE UNCHANGED clientVars
  <2>1. UNCHANGED <<state, checkpoints, mine>>
    BY <1>8 DEF clientVars, storeVars
  <2>2. RegisterInv'
    BY <2>1 DEF RegisterInv, Stored
  <2>3. UNCHANGED Register!registerVars
    BY <2>1 DEF Register!registerVars
  <2>4. QED BY <2>2, <2>3 DEF RegisterStep
<1>9. QED
  BY <1>1, <1>2, <1>3, <1>4, <1>5, <1>6, <1>7, <1>8 DEF Next

(* put's comparison of epochs, with its callers holding copies and             *)
(* checkpoints of any age, implements the register: no write replaces a        *)
(* version its writer has not read or, once runs are deleted, one of a higher  *)
(* epoch than the one it has read.                                           *)
THEOREM RegisterImplemented == Spec => ImplementsRegister
<1>1. RegisterInv /\ [Next]_clientVars => RegisterInv'
  BY NextRegister DEF RegisterStep
<1>2. RegisterInv /\ [Next]_clientVars
        => [Register!Next]_(Register!registerVars)
  BY NextRegister DEF RegisterStep
<1>3. QED
  BY <1>1, <1>2, InitRegister, PTL
     DEF Spec, ImplementsRegister, Register!Spec
-----------------------------------------------------------------------------
(* Sequences.  What is defined by recursion is shown to exist, and to be what it *)
(* should, by the smallest number for which it would not.                     *)

(* Of any natural numbers one is the smallest. *)
LEMMA Smallest ==
  ASSUME NEW T \in SUBSET Nat, T # {}
  PROVE  \E n \in T : \A m \in T : n <= m
<1> DEFINE R == {ss \in Nat \X Nat : ss[1] < ss[2]}
<1>1. IsWellFoundedOn(R, Nat)
  BY NatLessThanWellFounded DEF OpToRel
<1> HIDE DEF R
<1>2. PICK n \in T : \A m \in T : ~ (<<m, n>> \in R)
  BY <1>1, WFMin
<1>3. ASSUME NEW m \in T PROVE n <= m
  <2>1. ~ (<<m, n>> \in R) /\ m \in Nat /\ n \in Nat
    BY <1>2
  <2>2. ~ (m < n)
    BY <2>1 DEF R
  <2>3. QED BY <2>1, <2>2
<1>4. QED BY <1>3

(* One step of Selected, and the steps up to m. *)
SelectStep(s, I, p, n) ==
  IF n = 0 THEN << >> ELSE IF n \in I THEN Append(p, s[n]) ELSE p

Selects(f, s, I, m) == f = [n \in 0 .. m |-> SelectStep(s, I, f[n - 1], n)]

(* The function that Selected chooses exists. *)
LEMMA SelectionExists ==
  ASSUME NEW s, NEW I, NEW l \in Nat
  PROVE  \E f : Selects(f, s, I, l)
<1> DEFINE T == {n \in Nat : ~ \E f : Selects(f, s, I, n)}
<1>1. SUFFICES ASSUME T # {} PROVE FALSE
  OBVIOUS
<1>2. PICK n \in T : \A m \in T : n <= m
  BY <1>1, Smallest
<1>3. CASE n = 0
  <2>1. Selects([i \in 0 .. 0 |-> << >>], s, I, 0)
    BY DEF Selects, SelectStep
  <2>2. QED BY <1>2, <1>3, <2>1
<1>4. CASE n # 0
  <2>1. n \in Nat /\ n - 1 \in Nat /\ n - 1 < n
    BY <1>2, <1>4
  <2>2. PICK f : Selects(f, s, I, n - 1)
    BY <1>2, <2>1
  <2> DEFINE g == [i \in 0 .. n |-> IF i = n THEN SelectStep(s, I, f[n - 1], n) ELSE f[i]]
  <2>3. ASSUME NEW i \in 0 .. n PROVE g[i] = SelectStep(s, I, g[i - 1], i)
    <3>1. CASE i = n
      BY <1>4, <2>1, <3>1
    <3>2. CASE i # n /\ i # 0
      <4>1. i \in 0 .. n - 1 /\ i - 1 \in 0 .. n /\ i - 1 # n
        BY <2>1, <3>2
      <4>2. f[i] = SelectStep(s, I, f[i - 1], i)
        BY <2>2, <4>1 DEF Selects
      <4>3. QED BY <3>2, <4>1, <4>2
    <3>3. CASE i # n /\ i = 0
      <4>1. f[0] = SelectStep(s, I, f[0 - 1], 0)
        BY <2>1, <2>2 DEF Selects
      <4>2. QED BY <3>3, <4>1 DEF SelectStep
    <3>4. QED BY <3>1, <3>2, <3>3
  <2>4. Selects(g, s, I, n)
    BY <2>3 DEF Selects
  <2>5. QED BY <1>2, <2>4
<1>5. QED BY <1>3, <1>4

(* A sequence with one more entry. *)
LEMMA AppendFacts ==
  ASSUME NEW S, NEW s \in Seq(S), NEW x \in S
  PROVE  /\ Append(s, x) \in Seq(S)
         /\ ToSet(Append(s, x)) = ToSet(s) \cup {x}
         /\ IsInjective(s) /\ x \notin ToSet(s) => IsInjective(Append(s, x))
<1> DEFINE n == Len(s)
           t == Append(s, x)
<1>1. n \in Nat /\ DOMAIN s = 1 .. n
  BY LenProperties
<1>2. /\ t \in Seq(S) /\ DOMAIN t = 1 .. n + 1
      /\ \A i \in 1 .. n : t[i] = s[i]
      /\ t[n + 1] = x
  BY AppendProperties, LenProperties
<1> HIDE DEF n, t
<1>3. ToSet(t) = ToSet(s) \cup {x}
  <2>1. 1 .. n + 1 = (1 .. n) \cup {n + 1}
    BY <1>1
  <2>2. QED BY <1>1, <1>2, <2>1 DEF ToSet
<1>4. ASSUME IsInjective(s), x \notin ToSet(s), NEW i \in DOMAIN t, NEW j \in DOMAIN t,
             t[i] = t[j]
      PROVE  i = j
  <2>1. \A m \in 1 .. n : s[m] # x
    BY <1>1, <1>4 DEF ToSet
  <2>2. \A m \in 1 .. n + 1 : m \in 1 .. n \/ m = n + 1
    BY <1>1
  <2>3. \A m \in 1 .. n, k \in 1 .. n : s[m] = s[k] => m = k
    BY <1>1, <1>4 DEF IsInjective
  <2>4. QED BY <1>1, <1>2, <1>4, <2>1, <2>2, <2>3
<1>5. QED BY <1>2, <1>3, <1>4 DEF t, IsInjective

(* The entries of a sequence with one more. *)
LEMMA AppendEntries ==
  ASSUME NEW S, NEW s \in Seq(S), NEW x \in S
  PROVE  \A i \in DOMAIN Append(s, x) :
           \/ Append(s, x)[i] = x
           \/ i \in DOMAIN s /\ Append(s, x)[i] = s[i]
<1> DEFINE n == Len(s)
           t == Append(s, x)
<1>1. n \in Nat /\ DOMAIN s = 1 .. n
  BY LenProperties
<1>2. /\ DOMAIN t = 1 .. n + 1
      /\ \A i \in 1 .. n : t[i] = s[i]
      /\ t[n + 1] = x
  BY AppendProperties, LenProperties
<1> HIDE DEF n, t
<1>3. \A i \in 1 .. n + 1 : i \in 1 .. n \/ i = n + 1
  BY <1>1
<1>4. \A i \in DOMAIN t : t[i] = x \/ (i \in DOMAIN s /\ t[i] = s[i])
  BY <1>1, <1>2, <1>3
<1>5. QED BY <1>4 DEF t

(* What is selected is a sequence of the entries at those positions, and has none *)
(* twice if the sequence has none twice.                                     *)
LEMMA SelectedFacts ==
  ASSUME NEW S, NEW s \in Seq(S), NEW I
  PROVE  /\ Selected(s, I) \in Seq(S)
         /\ ToSet(Selected(s, I)) = {s[i] : i \in I \cap DOMAIN s}
         /\ IsInjective(s) => IsInjective(Selected(s, I))
<1> DEFINE l == Len(s)
           f == CHOOSE f : f = [n \in 0 .. l |->
                  IF n = 0 THEN << >>
                  ELSE IF n \in I THEN Append(f[n - 1], s[n]) ELSE f[n - 1]]
           Upto(i) == {s[j] : j \in I \cap (1 .. i)}
           Good(i) == /\ f[i] \in Seq(S)
                      /\ ToSet(f[i]) = Upto(i)
                      /\ IsInjective(s) => IsInjective(f[i])
<1>1. Selected(s, I) = f[l]
  BY DEF Selected
<1>2. l \in Nat /\ DOMAIN s = 1 .. l
  BY LenProperties
<1>3. Selects(f, s, I, l)
  <2>1. PICK g : Selects(g, s, I, l)
    BY <1>2, SelectionExists
  <2>2. g = [n \in 0 .. l |->
               IF n = 0 THEN << >>
               ELSE IF n \in I THEN Append(g[n - 1], s[n]) ELSE g[n - 1]]
    BY <2>1 DEF Selects, SelectStep
  <2>3. f = [n \in 0 .. l |->
               IF n = 0 THEN << >>
               ELSE IF n \in I THEN Append(f[n - 1], s[n]) ELSE f[n - 1]]
    BY <2>2
  <2>4. QED BY <2>3 DEF Selects, SelectStep
<1> HIDE DEF l, f
<1>4. Good(0)
  <2>1. f[0] = << >>
    BY <1>2, <1>3 DEF Selects, SelectStep
  <2>2. << >> \in Seq(S) /\ ToSet(<< >>) = {} /\ IsInjective(<< >>)
    BY EmptySeq DEF ToSet, IsInjective
  <2>3. QED BY <2>1, <2>2
<1>5. ASSUME NEW i \in 1 .. l, Good(i - 1) PROVE Good(i)
  <2>1. i \in 0 .. l /\ i # 0 /\ s[i] \in S
    BY <1>2, <1>5, ElementOfSeq DEF l
  <2>2. f[i] = SelectStep(s, I, f[i - 1], i)
    BY <1>3, <2>1 DEF Selects
  <2>3. 1 .. i = (1 .. i - 1) \cup {i}
    BY <1>2, <1>5
  <2>4. IsInjective(s) => s[i] \notin Upto(i - 1)
    <3>1. \A j \in 1 .. i - 1 : j \in DOMAIN s /\ j # i
      BY <1>2, <1>5
    <3>2. QED BY <1>2, <1>5, <3>1 DEF IsInjective
  <2> DEFINE p == f[i - 1]
  <2>5. p \in Seq(S) /\ ToSet(p) = Upto(i - 1) /\ (IsInjective(s) => IsInjective(p))
    BY <1>5
  <2>6. CASE i \in I
    <3>1. Upto(i) = Upto(i - 1) \cup {s[i]}
      BY <2>3, <2>6
    <3> HIDE DEF Upto, p
    <3>2. f[i] = Append(p, s[i])
      BY <2>1, <2>2, <2>6 DEF SelectStep, p
    <3>3. QED BY <2>1, <2>4, <2>5, <3>1, <3>2, AppendFacts
  <2>7. CASE i \notin I
    <3>1. Upto(i) = Upto(i - 1)
      BY <2>3, <2>7
    <3> HIDE DEF Upto, p
    <3>2. f[i] = p
      BY <2>1, <2>2, <2>7 DEF SelectStep, p
    <3>3. QED BY <2>5, <3>1, <3>2
  <2>8. QED BY <2>6, <2>7
<1> HIDE DEF Good
<1>6. Good(l)
  <2> DEFINE T == {i \in 0 .. l : ~Good(i)}
  <2>1. SUFFICES ASSUME T # {} PROVE FALSE
    BY <1>2
  <2>2. T \in SUBSET Nat
    BY <1>2
  <2>3. PICK n \in T : \A m \in T : n <= m
    BY <2>1, <2>2, Smallest
  <2>4. n # 0
    BY <1>4, <2>3
  <2>5. n \in 1 .. l /\ n - 1 \in 0 .. l /\ ~(n <= n - 1)
    BY <1>2, <2>3, <2>4
  <2>6. Good(n - 1)
    BY <2>3, <2>5
  <2>7. QED BY <1>5, <2>3, <2>5, <2>6
<1>7. QED BY <1>1, <1>2, <1>6 DEF Good

-----------------------------------------------------------------------------
(* The history of a thread. *)

(* All snapshots, wherever they are, which are on the threads of their runs. *)
Snapshots ==
  {state[r] : r \in Runs} \cup {mine[k] : k \in Clients}
    \cup {checkpoints[i] : i \in DOMAIN checkpoints}

OnItsThread(s) == s # NoState => s.run \in Runs /\ s.thread = ThreadOf[s.run]

(* A history has no run twice, and all that are stored. *)
Histories ==
  /\ threadRuns \in [Threads -> Seq(Runs)]
  /\ \A t \in Threads : IsInjective(threadRuns[t])
  /\ \A r \in Runs : Stored(r) => r \in ToSet(threadRuns[ThreadOf[r]])

HistoryInv ==
  /\ RegisterInv
  /\ \A s \in Snapshots : OnItsThread(s)
  /\ Histories

(* Recording a run again changes nothing. *)
LEMMA RecordedFacts ==
  ASSUME NEW S, NEW s \in Seq(S), NEW r \in S
  PROVE  /\ Recorded(s, r) \in Seq(S)
         /\ ToSet(Recorded(s, r)) = ToSet(s) \cup {r}
         /\ IsInjective(s) => IsInjective(Recorded(s, r))
<1>1. CASE \E i \in DOMAIN s : s[i] = r
  <2>1. r \in ToSet(s)
    BY <1>1 DEF ToSet
  <2>2. QED BY <1>1, <2>1 DEF Recorded
<1>2. CASE ~ \E i \in DOMAIN s : s[i] = r
  <2>1. r \notin ToSet(s) /\ Recorded(s, r) = Append(s, r)
    BY <1>2 DEF ToSet, Recorded
  <2>2. QED BY <2>1, AppendFacts
<1>3. QED BY <1>1, <1>2

(* A step that changes one history, and leaves all in it that are stored. *)
LEMMA HistoryChanges ==
  ASSUME Histories, NEW t \in Threads, NEW h \in Seq(Runs), IsInjective(h),
         threadRuns' = [threadRuns EXCEPT ![t] = h],
         \A r \in Runs : Stored(r)' =>
           IF ThreadOf[r] = t THEN r \in ToSet(h) ELSE Stored(r)
  PROVE  Histories'
<1>1. /\ threadRuns' \in [Threads -> Seq(Runs)]
      /\ \A u \in Threads : threadRuns'[u] = IF u = t THEN h ELSE threadRuns[u]
  BY DEF Histories
<1>2. \A r \in Runs : ThreadOf[r] \in Threads
  BY ClientConstants
<1>3. \A r \in Runs : Stored(r)' => r \in ToSet(threadRuns'[ThreadOf[r]])
  BY <1>1, <1>2 DEF Histories
<1>4. \A u \in Threads : IsInjective(threadRuns'[u])
  BY <1>1 DEF Histories
<1>5. QED BY <1>1, <1>3, <1>4 DEF Histories

(* A run is put, or becomes active. *)
LEMMA HistoryRecords ==
  ASSUME Histories, NEW r \in Runs,
         threadRuns' = [threadRuns EXCEPT ![ThreadOf[r]] = Recorded(@, r)],
         \A q \in Runs : Stored(q)' => Stored(q) \/ q = r
  PROVE  Histories'
<1> DEFINE t == ThreadOf[r]
           h == Recorded(threadRuns[t], r)
<1>1. t \in Threads /\ threadRuns[t] \in Seq(Runs) /\ IsInjective(threadRuns[t])
  BY ClientConstants DEF Histories
<1>2. h \in Seq(Runs) /\ IsInjective(h) /\ ToSet(h) = ToSet(threadRuns[t]) \cup {r}
  BY <1>1, RecordedFacts
<1>3. threadRuns' = [threadRuns EXCEPT ![t] = h]
  OBVIOUS
<1> HIDE DEF h
<1>4. \A q \in Runs : Stored(q)' =>
        IF ThreadOf[q] = t THEN q \in ToSet(h) ELSE Stored(q)
  BY <1>2 DEF Histories
<1>5. QED BY <1>1, <1>2, <1>3, <1>4, HistoryChanges

(* Runs that are not stored, any more, leave a history. *)
LEMMA HistorySheds ==
  ASSUME Histories, NEW t \in Threads, NEW A,
         threadRuns' = [threadRuns EXCEPT ![t] = Selected(@, PositionsOf(@, A))],
         \A q \in Runs : Stored(q)' => Stored(q) /\ q \in A
  PROVE  Histories'
<1> DEFINE s == threadRuns[t]
           h == Selected(s, PositionsOf(s, A))
<1>1. s \in Seq(Runs) /\ IsInjective(s)
  BY DEF Histories
<1>2. /\ h \in Seq(Runs) /\ IsInjective(h)
      /\ ToSet(h) = {s[i] : i \in PositionsOf(s, A) \cap DOMAIN s}
  BY <1>1, SelectedFacts
<1>3. threadRuns' = [threadRuns EXCEPT ![t] = h]
  OBVIOUS
<1>4. \A q \in ToSet(s) : q \in A => q \in ToSet(h)
  BY <1>2 DEF ToSet, PositionsOf
<1>5. \A q \in Runs : Stored(q)' =>
        IF ThreadOf[q] = t THEN q \in ToSet(h) ELSE Stored(q)
  BY <1>4 DEF Histories
<1> HIDE DEF h
<1>6. QED BY <1>2, <1>3, <1>5, HistoryChanges

(* The operations on the runs of a thread. *)
LEMMA IndexKeepsHistories ==
  ASSUME HistoryInv, NEW r \in Runs, Index(r)
  PROVE  Histories'
<1> DEFINE t == ThreadOf[r]
<1>1. t \in Threads /\ Histories
  BY ClientConstants DEF HistoryInv
<1>2. CASE SetActiveRunId(t, r)
  BY <1>1, <1>2, HistoryRecords DEF SetActiveRunId, Stored
<1>3. CASE ClearActiveRunId(t, r) \/ GetActiveRunId(t)
  BY <1>1, <1>3 DEF ClearActiveRunId, GetActiveRunId, Histories, Stored
<1>4. CASE ListRunIds(t)
  BY <1>1, <1>4, HistorySheds DEF ListRunIds, Stored
<1>5. CASE Delete(r)
  <2>1. state[r].thread = t
    BY <1>5 DEF Delete, Stored, HistoryInv, Snapshots, OnItsThread, RegisterInv
  <2>2. \A q \in Runs : Stored(q)' => Stored(q) /\ q \in Runs \ {r}
    BY <1>5 DEF Delete, Stored, HistoryInv, RegisterInv
  <2>3. threadRuns' = [threadRuns EXCEPT ![t] = Selected(@, PositionsOf(@, Runs \ {r}))]
    BY <1>5, <2>1 DEF Delete
  <2>4. QED BY <1>1, <2>2, <2>3, HistorySheds
<1>6. QED BY <1>2, <1>3, <1>4, <1>5 DEF Index

(* Snapshots that are old ones, or new ones on the threads of their runs. *)
LEMMA SnapshotsFrom ==
  ASSUME HistoryInv, NEW W, \A w \in W : OnItsThread(w),
         \A r \in Runs : state'[r] \in Snapshots \cup W \cup {NoState},
         \A k \in Clients : mine'[k] \in Snapshots \cup W \cup {NoState},
         \A i \in DOMAIN checkpoints' : checkpoints'[i] \in Snapshots \cup W
  PROVE  \A s \in Snapshots' : OnItsThread(s)
<1>1. Snapshots' \subseteq Snapshots \cup W \cup {NoState}
  BY DEF Snapshots
<1>2. QED BY <1>1 DEF HistoryInv, OnItsThread

(* Taking a snapshot, or a new one. *)
LEMMA HoldKeepsHistory ==
  ASSUME HistoryInv, NEW k \in Clients, NEW s, s \in Snapshots \/ OnItsThread(s),
         Hold(k, s), UNCHANGED storeVars
  PROVE  (\A q \in Snapshots' : OnItsThread(q)) /\ Histories'
<1>1. UNCHANGED <<state, checkpoints, threadRuns>>
  BY DEF storeVars
<1>2. OnItsThread(s)
  BY DEF HistoryInv
<1>3. \A j \in Clients : mine'[j] \in Snapshots \cup {s}
  BY DEF Hold, HistoryInv, RegisterInv, Snapshots
<1>4. \A q \in Snapshots' : OnItsThread(q)
  BY <1>1, <1>2, <1>3, SnapshotsFrom DEF Snapshots
<1>5. QED BY <1>1, <1>4 DEF HistoryInv, Histories, Stored

(* Saving an object puts its run in its thread's history. *)
LEMMA SaveKeepsHistory ==
  ASSUME HistoryInv, NEW k \in Clients, NEW status \in Statuses, Save(k, status)
  PROVE  (\A q \in Snapshots' : OnItsThread(q)) /\ Histories'
<1>1. RegisterInv /\ mine[k] \in RunState /\ mine[k] # NoState
  BY DEF HistoryInv, RegisterInv, Save
<1>2. PICK s \in RunState :
        /\ s = Successor(mine[k], status)
        /\ s.run = mine[k].run /\ s.ckpt = 0 /\ s.thread = mine[k].thread
  <2>1. Successor(mine[k], status).thread = mine[k].thread
    BY <1>1 DEF Successor, RunState
  <2>2. QED BY <1>1, <2>1, SuccessorFacts
<1>3. s.run \in Runs /\ s.thread = ThreadOf[s.run]
  BY <1>1, <1>2 DEF HistoryInv, Snapshots, OnItsThread
<1>4. CASE Accepts(s) /\ Put(s) /\ Hold(k, Stamped(s))
  <2>1. PICK w \in RunState : w = Stamped(s) /\ w.run = s.run /\ w.thread = s.thread
    <3>1. Stamped(s).thread = s.thread
      BY DEF Stamped, RunState
    <3>2. QED BY <1>1, <1>3, <3>1, StampedFacts
  <2>2. /\ state' = [state EXCEPT ![s.run] = w]
        /\ checkpoints' = Append(checkpoints, w)
        /\ threadRuns' = [threadRuns EXCEPT ![ThreadOf[s.run]] = Recorded(@, s.run)]
        /\ mine' = [mine EXCEPT ![k] = w]
    BY <1>2, <1>3, <1>4, <2>1 DEF Put, Hold
  <2>3. OnItsThread(w)
    BY <1>3, <2>1 DEF OnItsThread
  <2>4. \A r \in Runs : state'[r] \in Snapshots \cup {w}
    BY <1>1, <2>2 DEF RegisterInv, Snapshots
  <2>5. \A j \in Clients : mine'[j] \in Snapshots \cup {w}
    BY <1>1, <2>2 DEF RegisterInv, Snapshots
  <2>6. \A i \in DOMAIN checkpoints' : checkpoints'[i] \in Snapshots \cup {w}
    <3>1. checkpoints \in Seq(RunState)
      BY <1>1 DEF RegisterInv
    <3>2. \A i \in DOMAIN checkpoints' :
            \/ checkpoints'[i] = w
            \/ i \in DOMAIN checkpoints /\ checkpoints'[i] = checkpoints[i]
      BY <2>2, <3>1, AppendEntries
    <3>3. QED BY <3>2 DEF Snapshots
  <2>7. \A q \in Snapshots' : OnItsThread(q)
    BY <2>3, <2>4, <2>5, <2>6, SnapshotsFrom
  <2>8. \A q \in Runs : Stored(q)' => Stored(q) \/ q = s.run
    BY <1>1, <2>2 DEF RegisterInv, Stored
  <2>9. Histories'
    BY <1>3, <2>2, <2>8, HistoryRecords DEF HistoryInv
  <2>10. QED BY <2>7, <2>9
<1>5. CASE Hold(k, s) /\ UNCHANGED storeVars
  <2>1. OnItsThread(s)
    BY <1>3 DEF OnItsThread
  <2>2. QED BY <1>5, <2>1, HoldKeepsHistory
<1>6. QED BY <1>2, <1>4, <1>5 DEF Save

(* A checkpoint written on its own leaves the histories alone. *)
LEMMA WriteCheckpointKeepsHistory ==
  ASSUME HistoryInv, NEW k \in Clients, WriteCheckpoint(k)
  PROVE  (\A q \in Snapshots' : OnItsThread(q)) /\ Histories'
<1>1. /\ RegisterInv /\ mine[k] \in RunState /\ mine[k] # NoState
      /\ UNCHANGED <<state, threadRuns, mine>>
  BY DEF HistoryInv, RegisterInv, WriteCheckpoint
<1>2. mine[k].run \in Runs /\ mine[k].thread = ThreadOf[mine[k].run]
  BY <1>1 DEF HistoryInv, Snapshots, OnItsThread
<1> DEFINE n == Len(checkpoints) + 1
<1>3. PICK w \in RunState :
        /\ w.run = mine[k].run /\ w.thread = mine[k].thread
        /\ \/ checkpoints' = Append(checkpoints, w)
           \/ checkpoints' = [checkpoints EXCEPT ![mine[k].ckpt] = w]
  <2>1. n \in Nat
    BY <1>1, LenProperties DEF RegisterInv
  <2> HIDE DEF n
  <2> DEFINE w == [mine[k] EXCEPT !.ckpt = n]
  <2>2. w \in RunState /\ w.run = mine[k].run /\ w.thread = mine[k].thread
    BY <1>1, <2>1 DEF RunState
  <2>3. \/ checkpoints' = Append(checkpoints, w)
        \/ checkpoints' = [checkpoints EXCEPT ![mine[k].ckpt] = mine[k]]
    BY DEF WriteCheckpoint, n
  <2> HIDE DEF w
  <2>4. QED BY <1>1, <2>2, <2>3
<1>4. OnItsThread(w)
  BY <1>2, <1>3 DEF OnItsThread
<1>5. checkpoints \in Seq(RunState)
  BY <1>1 DEF RegisterInv
<1>6. \A i \in DOMAIN checkpoints' :
        \/ checkpoints'[i] = w
        \/ i \in DOMAIN checkpoints /\ checkpoints'[i] = checkpoints[i]
  BY <1>3, <1>5, AppendEntries, ReplaceInSeq
<1>7. \A i \in DOMAIN checkpoints' : checkpoints'[i] \in Snapshots \cup {w}
  BY <1>6 DEF Snapshots
<1>8. \A q \in Snapshots' : OnItsThread(q)
  <2> DEFINE W == {w}
  <2>1. /\ \A r \in Runs : state'[r] \in Snapshots \cup W
        /\ \A j \in Clients : mine'[j] \in Snapshots \cup W
        /\ \A i \in DOMAIN checkpoints' : checkpoints'[i] \in Snapshots \cup W
        /\ \A q \in W : OnItsThread(q)
    BY <1>1, <1>4, <1>7 DEF Snapshots
  <2> HIDE DEF W
  <2>2. QED BY <2>1, SnapshotsFrom
<1>9. QED BY <1>1, <1>8 DEF HistoryInv, Histories, Stored

(* Every step keeps the invariant of the histories. *)
LEMMA HistoryStep ==
  ASSUME HistoryInv, [Next]_clientVars
  PROVE  HistoryInv'
<1>1. RegisterInv'
  BY NextRegister DEF HistoryInv, RegisterStep
<1>2. ASSUME NEW k \in Clients, NEW r \in Runs, Construct(k, r)
      PROVE  (\A q \in Snapshots' : OnItsThread(q)) /\ Histories'
  <2> DEFINE s == [NoState EXCEPT !.run = r, !.thread = ThreadOf[r], !.status = "RUNNING"]
  <2>1. s.run = r /\ s.thread = ThreadOf[r]
    BY DEF NoState
  <2>2. OnItsThread(s)
    BY <2>1 DEF OnItsThread
  <2>3. QED BY <1>2, <2>2, HoldKeepsHistory DEF Construct
<1>3. ASSUME NEW k \in Clients, NEW r \in Runs, Get(k, r)
      PROVE  (\A q \in Snapshots' : OnItsThread(q)) /\ Histories'
  BY <1>3, HoldKeepsHistory DEF Get, Snapshots
<1>4. ASSUME NEW k \in Clients, NEW i \in DOMAIN checkpoints, GetCheckpoint(k, i)
      PROVE  (\A q \in Snapshots' : OnItsThread(q)) /\ Histories'
  BY <1>4, HoldKeepsHistory DEF GetCheckpoint, Snapshots
<1>5. ASSUME NEW k \in Clients, NEW t \in Threads, GetLatestCheckpoint(k, t)
      PROVE  (\A q \in Snapshots' : OnItsThread(q)) /\ Histories'
  BY <1>4, <1>5 DEF GetLatestCheckpoint
<1>6. ASSUME NEW r \in Runs, Index(r), UNCHANGED mine
      PROVE  (\A q \in Snapshots' : OnItsThread(q)) /\ Histories'
  <2>1. \A q \in Runs : state'[q] \in Snapshots \cup {NoState}
    BY <1>6 DEF Index, SetActiveRunId, ClearActiveRunId, GetActiveRunId, ListRunIds, Delete,
                HistoryInv, RegisterInv, Snapshots
  <2>2. UNCHANGED checkpoints
    BY <1>6 DEF Index, SetActiveRunId, ClearActiveRunId, GetActiveRunId, ListRunIds, Delete
  <2> DEFINE W == {NoState}
  <2>3. /\ \A q \in Runs : state'[q] \in Snapshots \cup W
        /\ \A j \in Clients : mine'[j] \in Snapshots \cup W
        /\ \A i \in DOMAIN checkpoints' : checkpoints'[i] \in Snapshots \cup W
        /\ \A q \in W : OnItsThread(q)
    BY <1>6, <2>1, <2>2 DEF Snapshots, OnItsThread
  <2> HIDE DEF W
  <2>4. \A q \in Snapshots' : OnItsThread(q)
    BY <2>3, SnapshotsFrom
  <2>5. QED BY <1>6, <2>4, IndexKeepsHistories
<1>7. CASE UNCHANGED clientVars
  <2>1. UNCHANGED <<state, checkpoints, threadRuns, mine>>
    BY <1>7 DEF clientVars, storeVars
  <2>2. QED BY <1>1, <2>1 DEF HistoryInv, Histories, Snapshots, Stored
<1>8. CASE Next
  <2>1. (\A q \in Snapshots' : OnItsThread(q)) /\ Histories'
    BY <1>2, <1>3, <1>4, <1>5, <1>6, <1>8, SaveKeepsHistory, WriteCheckpointKeepsHistory
       DEF Next
  <2>2. QED BY <1>1, <2>1 DEF HistoryInv
<1>9. QED BY <1>7, <1>8

(* It holds of the empty store. *)
LEMMA HistoryInit == Init => HistoryInv
<1> SUFFICES ASSUME Init PROVE HistoryInv
  OBVIOUS
<1>1. RegisterInv
  BY InitRegister
<1>2. \A s \in Snapshots : OnItsThread(s)
  <2>1. Snapshots \subseteq {NoState}
    BY DEF Init, StoreInit, Snapshots
  <2>2. QED BY <2>1 DEF OnItsThread
<1>3. Histories
  <2>1. << >> \in Seq(Runs) /\ IsInjective(<< >>)
    BY EmptySeq DEF IsInjective
  <2>2. QED BY <2>1 DEF Init, StoreInit, Histories, Stored
<1>4. QED BY <1>1, <1>2, <1>3 DEF HistoryInv

(* put and set_active_run_id record a run "exactly once" in the history of its   *)
(* thread, and listing and deleting drop only runs that are gone: a stored run  *)
(* is in the history once, for any clients, runs and threads                  *)
(* (InMemoryRunStore._record_thread_run, list_run_ids, delete).               *)
THEOREM HistoriesAreComplete == Spec => []HistoryComplete
<1>1. HistoryInv => HistoryComplete
  <2> SUFFICES ASSUME HistoryInv, NEW r \in Runs, Stored(r)
               PROVE  Cardinality({i \in DOMAIN threadRuns[ThreadOf[r]] :
                                     threadRuns[ThreadOf[r]][i] = r}) = 1
    BY DEF HistoryComplete
  <2> DEFINE h == threadRuns[ThreadOf[r]]
  <2>1. ThreadOf[r] \in Threads
    BY ClientConstants
  <2>2. IsInjective(h) /\ r \in ToSet(h)
    BY <2>1 DEF HistoryInv, Histories
  <2>3. PICK i \in DOMAIN h : h[i] = r
    BY <2>2 DEF ToSet
  <2>4. {j \in DOMAIN h : h[j] = r} = {i}
    BY <2>2, <2>3 DEF IsInjective
  <2>5. QED BY <2>4, FS_Singleton
<1>2. HistoryInv /\ [Next]_clientVars => HistoryInv'
  BY HistoryStep
<1>3. QED BY <1>1, <1>2, HistoryInit, PTL DEF Spec
=============================================================================
