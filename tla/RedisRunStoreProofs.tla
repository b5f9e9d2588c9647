------------------------- MODULE RedisRunStoreProofs -------------------------
(***************************************************************************)
(* Proofs about RedisRunStore: the transaction of put is a compare-and-set,    *)
(* whatever commands of other clients fall between its own.                  *)
(***************************************************************************)
EXTENDS RedisRunStore, SequenceTheorems, WellFoundedInduction, TLAPS

(* The commands of a put up to its EXEC. *)
Putting == {"watch", "get", "exec"}

PutTypeOK ==
  /\ state \in [Runs -> RunState]
  /\ mine \in [Clients -> RunState]
  /\ pc \in [Clients -> Commands]
  /\ op \in [Clients -> [kind : Kinds, run : Runs \cup {None}]]
  /\ dirty \in [Clients -> BOOLEAN]
  /\ checkpoints \in Seq(RunState)

(* A client that puts works on an object of its run; once it has read the       *)
(* snapshot, its object is one epoch ahead of it, unless the key was written    *)
(* since, and then it is marked.                                            *)
PutOk(k) ==
  /\ mine[k] = NoState \/ mine[k].run \in Runs
  /\ pc[k] \in Putting => mine[k].run = Run(k) /\ Run(k) \in Runs
  /\ At(k, "exec") /\ ~dirty[k] => mine[k].epoch = state[Run(k)].epoch + 1

PutInv ==
  /\ PutTypeOK
  /\ \A r \in Runs : Stored(r) => state[r].run = r
  /\ \A k \in Clients : PutOk(k)

-----------------------------------------------------------------------------
(* A client that sends another command than those of a put. *)
LEMMA OtherCommand ==
  ASSUME PutInv, NEW k \in Clients, NEW command \in Commands,
         NEW o \in [kind : Kinds, run : Runs \cup {None}],
         pc' = [pc EXCEPT ![k] = command], op' = [op EXCEPT ![k] = o],
         \/ command \notin Putting
         \/ pc[k] = "exec" /\ command = "watch" /\ o = op[k],
         \/ UNCHANGED mine
         \/ command \notin Putting /\ mine' = [mine EXCEPT ![k] = NoState],
         UNCHANGED <<state, checkpoints, dirty>>
  PROVE  PutInv'
<1>1. NoState \in RunState
  BY DEF NoState, RunState
<1>2. PutTypeOK'
  BY <1>1 DEF PutInv, PutTypeOK
<1>3. ASSUME NEW j \in Clients PROVE PutOk(j)'
  <2>1. PutOk(j)
    BY DEF PutInv
  <2>2. CASE j = k
    <3>1. pc'[j] = command /\ op'[j] = o
      BY <2>2 DEF PutInv, PutTypeOK
    <3>2. mine'[j] = mine[j] \/ (command \notin Putting /\ mine'[j] = NoState)
      BY <2>2 DEF PutInv, PutTypeOK
    <3>3. QED BY <2>1, <2>2, <3>1, <3>2 DEF PutOk, At, Putting, Run
  <2>3. CASE j # k
    <3>1. pc'[j] = pc[j] /\ op'[j] = op[j] /\ mine'[j] = mine[j]
      BY <2>3 DEF PutInv, PutTypeOK
    <3>2. QED BY <2>1, <3>1 DEF PutOk, At, Run
  <2>4. QED BY <2>2, <2>3
<1>4. QED BY <1>2, <1>3 DEF PutInv, Stored

(* The key of a run is written, and all who put to the run are marked. *)
LEMMA KeyWritten ==
  ASSUME PutInv, NEW r, NEW s \in RunState, s = NoState \/ s.run = r,
         state' = [state EXCEPT ![r] = s],
         checkpoints' \in Seq(RunState),
         Touch(r),
         mine' \in [Clients -> RunState], pc' \in [Clients -> Commands],
         op' \in [Clients -> [kind : Kinds, run : Runs \cup {None}]],
         NEW writers \in SUBSET Clients,
         \A k \in Clients \ writers : mine'[k] = mine[k] /\ pc'[k] = pc[k] /\ op'[k] = op[k],
         \A k \in writers : /\ mine'[k] = NoState \/ mine'[k].run \in Runs
                            /\ pc'[k] \notin Putting
  PROVE  PutInv'
<1>1. \A k \in Clients : dirty'[k] = (dirty[k] \/ Run(k) = r)
  BY DEF Touch
<1>2. dirty' \in [Clients -> BOOLEAN]
  BY DEF Touch, PutInv, PutTypeOK
<1>3. /\ state' \in [Runs -> RunState]
      /\ \A q \in Runs : state'[q] = IF q = r THEN s ELSE state[q]
  BY DEF PutInv, PutTypeOK
<1>4. PutTypeOK'
  BY <1>2, <1>3 DEF PutInv, PutTypeOK
<1>5. \A q \in Runs : Stored(q)' => state'[q].run = q
  BY <1>3 DEF PutInv, Stored
<1>6. ASSUME NEW k \in Clients PROVE PutOk(k)'
  <2>1. PutOk(k)
    BY DEF PutInv
  <2>2. CASE k \in writers
    BY <2>2 DEF PutOk, At, Putting
  <2>3. CASE k \notin writers
    <3>1. mine'[k] = mine[k] /\ pc'[k] = pc[k] /\ Run(k)' = Run(k)
      BY <2>3 DEF Run
    <3>2. At(k, "exec")' /\ ~dirty'[k] =>
            /\ At(k, "exec") /\ ~dirty[k] /\ Run(k) \in Runs
            /\ state'[Run(k)] = state[Run(k)]
      BY <1>1, <1>3, <2>1, <3>1 DEF PutOk, At, Putting
    <3>3. QED BY <2>1, <3>1, <3>2 DEF PutOk
  <2>4. QED BY <2>2, <2>3
<1>7. QED BY <1>4, <1>5, <1>6 DEF PutInv

-----------------------------------------------------------------------------
(* Constructing or getting an object, between operations. *)
LEMMA TakeKeeps ==
  ASSUME PutInv, NEW k \in Clients, Take(k)
  PROVE  PutInv'
<1>1. PICK s \in RunState :
        /\ s = NoState \/ s.run \in Runs
        /\ Hold(k, s)
  <2>1. CASE \E r \in Runs : Get(k, r)
    BY <2>1 DEF Get, PutInv, PutTypeOK
  <2>2. CASE \E r \in Runs : Construct(k, r)
    <3>1. PICK r \in Runs : Construct(k, r)
      BY <2>2
    <3> DEFINE s == [NoState EXCEPT !.run = r, !.thread = ThreadOf[r], !.status = "RUNNING"]
    <3>2. s \in RunState /\ s.run = r
      BY RedisConstants DEF NoState, RunState, Status
    <3>3. QED BY <3>1, <3>2 DEF Construct
  <2>3. QED BY <2>1, <2>2 DEF Take
<1>2. /\ pc[k] = "idle" /\ mine' = [mine EXCEPT ![k] = s]
      /\ UNCHANGED <<state, checkpoints, pc, op, dirty>>
  BY <1>1 DEF Hold, At, storeVars
<1>3. PutTypeOK'
  BY <1>2 DEF PutInv, PutTypeOK
<1>4. ASSUME NEW j \in Clients PROVE PutOk(j)'
  <2>1. PutOk(j)
    BY DEF PutInv
  <2>2. CASE j = k
    BY <1>1, <1>2, <2>2 DEF PutOk, At, Putting, PutInv, PutTypeOK
  <2>3. CASE j # k
    <3>1. mine'[j] = mine[j]
      BY <1>2, <2>3 DEF PutInv, PutTypeOK
    <3>2. QED BY <1>2, <2>1, <3>1 DEF PutOk, At, Run
  <2>4. QED BY <2>2, <2>3
<1>5. QED BY <1>2, <1>3, <1>4 DEF PutInv, Stored

(* A put begins with an object of its run. *)
LEMMA StartPutKeeps ==
  ASSUME PutInv, NEW k \in Clients, StartPut(k)
  PROVE  PutInv'
<1> DEFINE s == [mine[k] EXCEPT !.parent = mine[k].ckpt, !.ckpt = 0]
           o == [kind |-> "put", run |-> mine[k].run]
<1>1. /\ mine[k] \in RunState /\ mine[k].run \in Runs
      /\ UNCHANGED <<state, checkpoints, dirty>>
  BY DEF StartPut, PutInv, PutTypeOK, PutOk, storeVars
<1>2. s \in RunState /\ s.run = mine[k].run
  BY <1>1 DEF RunState
<1>3. o \in [kind : Kinds, run : Runs \cup {None}]
  BY <1>1 DEF Kinds
<1>4. /\ mine' = [mine EXCEPT ![k] = s] /\ op' = [op EXCEPT ![k] = o]
      /\ pc' = [pc EXCEPT ![k] = "watch"]
  BY DEF StartPut, Begin, Goto, PutInv, PutTypeOK
<1> HIDE DEF s
<1>5. PutTypeOK'
  BY <1>1, <1>2, <1>3, <1>4 DEF PutInv, PutTypeOK, Commands
<1>6. ASSUME NEW j \in Clients PROVE PutOk(j)'
  <2>1. PutOk(j)
    BY DEF PutInv
  <2>2. CASE j = k
    <3>1. mine'[j] = s /\ op'[j].run = mine[k].run /\ pc'[j] = "watch"
      BY <1>4, <2>2 DEF PutInv, PutTypeOK
    <3>2. QED BY <1>1, <1>2, <3>1 DEF PutOk, At, Run
  <2>3. CASE j # k
    <3>1. mine'[j] = mine[j] /\ op'[j] = op[j] /\ pc'[j] = pc[j]
      BY <1>4, <2>3 DEF PutInv, PutTypeOK
    <3>2. QED BY <1>1, <2>1, <3>1 DEF PutOk, At, Run
  <2>4. QED BY <2>2, <2>3
<1>7. QED BY <1>1, <1>5, <1>6 DEF PutInv, Stored

(* Watching the key makes it clean: the put has read nothing yet. *)
LEMMA WatchKeeps ==
  ASSUME PutInv, NEW k \in Clients, Watch(k)
  PROVE  PutInv'
<1>1. /\ pc[k] = "watch" /\ pc' = [pc EXCEPT ![k] = "get"]
      /\ dirty' = [dirty EXCEPT ![k] = FALSE]
      /\ UNCHANGED <<state, checkpoints, mine, op>>
  BY DEF Watch, At, Goto, storeVars
<1>2. PutTypeOK'
  BY <1>1 DEF PutInv, PutTypeOK, Commands
<1>3. ASSUME NEW j \in Clients PROVE PutOk(j)'
  <2>1. PutOk(j)
    BY DEF PutInv
  <2>2. CASE j = k
    <3>1. pc'[j] = "get"
      BY <1>1, <2>2 DEF PutInv, PutTypeOK
    <3>2. QED BY <1>1, <2>1, <2>2, <3>1 DEF PutOk, At, Run, Putting
  <2>3. CASE j # k
    <3>1. pc'[j] = pc[j] /\ dirty'[j] = dirty[j]
      BY <1>1, <2>3 DEF PutInv, PutTypeOK
    <3>2. QED BY <1>1, <2>1, <3>1 DEF PutOk, At, Run
  <2>4. QED BY <2>2, <2>3
<1>4. QED BY <1>1, <1>2, <1>3 DEF PutInv, Stored

(* Having read the snapshot, the object gets the epoch after it. *)
LEMMA GetForPutKeeps ==
  ASSUME PutInv, NEW k \in Clients, GetForPut(k)
  PROVE  PutInv'
<1>1. CASE Return(k) /\ UNCHANGED mine
  <2>1. UNCHANGED <<state, checkpoints, mine, dirty>>
    BY <1>1 DEF GetForPut, storeVars
  <2>2. /\ pc' = [pc EXCEPT ![k] = "idle"] /\ op' = [op EXCEPT ![k] = NoOp]
    BY <1>1 DEF Return, Goto
  <2>3. "idle" \in Commands \ Putting /\ NoOp \in [kind : Kinds, run : Runs \cup {None}]
    BY DEF Commands, Putting, NoOp, Kinds
  <2>4. QED BY <2>1, <2>2, <2>3, OtherCommand
<1>2. CASE /\ mine' = [mine EXCEPT ![k].epoch = state[Run(k)].epoch + 1]
           /\ Goto(k, "exec")
           /\ UNCHANGED op
  <2> DEFINE n == state[Run(k)].epoch + 1
             s == [mine[k] EXCEPT !.epoch = n]
  <2>1. /\ pc[k] = "get" /\ pc' = [pc EXCEPT ![k] = "exec"]
        /\ UNCHANGED <<state, checkpoints, op, dirty>>
    BY <1>2 DEF GetForPut, At, Goto, storeVars
  <2>2. mine[k].run = Run(k) /\ Run(k) \in Runs /\ mine[k] \in RunState
    BY <2>1 DEF PutInv, PutOk, Putting, PutTypeOK
  <2>3. n \in Nat
    BY <2>2 DEF PutInv, PutTypeOK, RunState
  <2>4. mine' = [mine EXCEPT ![k] = s]
    BY <1>2 DEF PutInv, PutTypeOK
  <2> HIDE DEF n
  <2>5. s \in RunState /\ s.run = mine[k].run /\ s.epoch = n
    BY <2>2, <2>3 DEF RunState
  <2> HIDE DEF s
  <2>6. PutTypeOK'
    BY <2>1, <2>4, <2>5 DEF PutInv, PutTypeOK, Commands
  <2>7. ASSUME NEW j \in Clients PROVE PutOk(j)'
    <3>1. PutOk(j)
      BY DEF PutInv
    <3>2. CASE j = k
      <4>1. mine'[j] = s /\ Run(j)' = Run(k) /\ state' = state
        BY <2>1, <2>4, <3>2 DEF Run, PutInv, PutTypeOK
      <4>2. QED BY <2>2, <2>5, <4>1 DEF PutOk, n
    <3>3. CASE j # k
      <4>1. mine'[j] = mine[j] /\ pc'[j] = pc[j]
        BY <2>1, <2>4, <3>3 DEF PutInv, PutTypeOK
      <4>2. QED BY <2>1, <3>1, <4>1 DEF PutOk, At, Run
    <3>4. QED BY <3>2, <3>3
  <2>8. QED BY <2>1, <2>6, <2>7 DEF PutInv, Stored
<1>3. QED BY <1>1, <1>2 DEF GetForPut

(* What a client does when its operation returns. *)
LEMMA ReturnFacts ==
  ASSUME NEW k, Return(k)
  PROVE  /\ pc' = [pc EXCEPT ![k] = "idle"] /\ op' = [op EXCEPT ![k] = NoOp]
         /\ "idle" \in Commands /\ "idle" \notin Putting
         /\ NoOp \in [kind : Kinds, run : Runs \cup {None}]
  BY DEF Return, Goto, Commands, Putting, NoOp, Kinds

(* The transaction writes the snapshot, or is tried again, or fails. *)
LEMMA ExecKeeps ==
  ASSUME PutInv, NEW k \in Clients, Exec(k)
  PROVE  PutInv'
<1>1. pc[k] = "exec" /\ mine[k] \in RunState /\ mine[k].run = Run(k) /\ op[k] \in [kind : Kinds, run : Runs \cup {None}]
  BY DEF Exec, At, PutInv, PutTypeOK, PutOk, Putting
<1>2. CASE Return(k) /\ UNCHANGED <<state, checkpoints, mine, dirty>>
  BY <1>2, ReturnFacts, OtherCommand
<1>3. CASE /\ Goto(k, "watch") /\ UNCHANGED <<state, checkpoints, mine, dirty, op>>
  <2>1. op' = [op EXCEPT ![k] = op[k]]
    BY <1>3 DEF PutInv, PutTypeOK
  <2>2. "watch" \in Commands /\ pc' = [pc EXCEPT ![k] = "watch"]
    BY <1>3 DEF Commands, Goto
  <2>3. QED BY <1>1, <1>3, <2>1, <2>2, OtherCommand
<1>4. CASE /\ state' = [state EXCEPT ![Run(k)] = ExecWritten(k)]
           /\ checkpoints' = Append(checkpoints, ExecWritten(k))
           /\ mine' = [mine EXCEPT ![k] = ExecWritten(k)]
           /\ Touch(Run(k)) /\ Goto(k, "history") /\ UNCHANGED op
  <2> DEFINE n == Len(checkpoints) + 1
             s == [mine[k] EXCEPT !.ckpt = n]
  <2>1. n \in Nat
    BY LenProperties DEF PutInv, PutTypeOK
  <2>2. s = ExecWritten(k)
    BY DEF ExecWritten
  <2> HIDE DEF n
  <2>3. s \in RunState /\ s.run = Run(k)
    BY <1>1, <2>1 DEF RunState
  <2> HIDE DEF s
  <2>4. checkpoints' \in Seq(RunState)
    BY <1>4, <2>2, <2>3, AppendProperties DEF PutInv, PutTypeOK
  <2>5. /\ mine' \in [Clients -> RunState] /\ mine'[k] = s
        /\ pc' \in [Clients -> Commands] /\ pc'[k] = "history"
        /\ \A j \in Clients \ {k} : mine'[j] = mine[j] /\ pc'[j] = pc[j] /\ op'[j] = op[j]
        /\ op' \in [Clients -> [kind : Kinds, run : Runs \cup {None}]]
    BY <1>4, <2>2, <2>3 DEF Goto, PutInv, PutTypeOK, Commands
  <2>6. Run(k) \in Runs
    BY <1>1 DEF PutInv, PutOk, Putting
  <2>7. {k} \in SUBSET Clients /\ \A j \in {k} : /\ mine'[j] = NoState \/ mine'[j].run \in Runs
                                                 /\ pc'[j] \notin Putting
    BY <2>3, <2>5, <2>6 DEF Putting
  <2>8. QED BY <1>4, <2>2, <2>3, <2>4, <2>5, <2>7, KeyWritten
<1>5. QED BY <1>2, <1>3, <1>4 DEF Exec

(* What a DEL leaves of the client that sends it. *)
LEMMA DelRunFacts ==
  ASSUME PutInv, NEW k \in Clients, DelRun(k)
  PROVE  /\ pc[k] \in {"delRun", "delAbsent"}
         /\ state' = [state EXCEPT ![Run(k)] = NoState]
         /\ UNCHANGED <<checkpoints, mine>>
         /\ \E command \in {"range", "idle"} :
              \E o \in [kind : Kinds, run : Runs \cup {None}] :
                /\ pc' = [pc EXCEPT ![k] = command] /\ op' = [op EXCEPT ![k] = o]
<1>1. CASE Goto(k, "range") /\ UNCHANGED op
  <2>1. op[k] \in [kind : Kinds, run : Runs \cup {None}] /\ op' = [op EXCEPT ![k] = op[k]]
    BY <1>1 DEF PutInv, PutTypeOK
  <2>2. QED BY <1>1, <2>1 DEF DelRun, Goto
<1>2. CASE Return(k)
  BY <1>2, ReturnFacts DEF DelRun
<1>3. QED BY <1>1, <1>2 DEF DelRun

(* Deleting a run, and the end of its TTL, write its key. *)
LEMMA DelRunKeeps ==
  ASSUME PutInv, NEW k \in Clients, DelRun(k)
  PROVE  PutInv'
<1>1. PICK command \in {"range", "idle"}, o \in [kind : Kinds, run : Runs \cup {None}] :
        pc' = [pc EXCEPT ![k] = command] /\ op' = [op EXCEPT ![k] = o]
  BY DelRunFacts
<1>2. /\ state' = [state EXCEPT ![Run(k)] = NoState]
      /\ UNCHANGED <<checkpoints, mine>>
  BY DelRunFacts
<1>3. NoState \in RunState
  BY DEF NoState, RunState
<1>4. command \in Commands /\ command \notin Putting
  BY DEF Commands, Putting
<1>5. CASE Stored(Run(k))
  <2>1. Touch(Run(k)) /\ checkpoints' \in Seq(RunState) /\ mine' \in [Clients -> RunState]
    BY <1>2, <1>5 DEF DelRun, PutInv, PutTypeOK
  <2>2. /\ pc' \in [Clients -> Commands] /\ pc'[k] = command
        /\ \A j \in Clients \ {k} : mine'[j] = mine[j] /\ pc'[j] = pc[j] /\ op'[j] = op[j]
        /\ op' \in [Clients -> [kind : Kinds, run : Runs \cup {None}]]
    BY <1>1, <1>2, <1>4 DEF PutInv, PutTypeOK
  <2>3. {k} \in SUBSET Clients /\ \A j \in {k} : /\ mine'[j] = NoState \/ mine'[j].run \in Runs
                                                 /\ pc'[j] \notin Putting
    BY <1>2, <1>4, <2>2 DEF PutInv, PutOk
  <2>4. QED BY <1>2, <1>3, <2>1, <2>2, <2>3, KeyWritten
<1>6. CASE ~Stored(Run(k))
  <2>1. UNCHANGED <<state, dirty>>
    BY <1>2, <1>6 DEF DelRun, Stored, PutInv, PutTypeOK
  <2>2. QED BY <1>1, <1>2, <1>4, <2>1, OtherCommand
<1>7. QED BY <1>5, <1>6

(* The end of the TTL touches the key it removes. *)
LEMMA ExpireKeeps ==
  ASSUME PutInv, NEW r \in Runs, Expire(r)
  PROVE  PutInv'
<1>1. /\ state' = [state EXCEPT ![r] = NoState] /\ Touch(r)
      /\ UNCHANGED <<checkpoints, mine, pc, op>>
  BY DEF Expire
<1>2. NoState \in RunState /\ {} \in SUBSET Clients
  BY DEF NoState, RunState
<1>3. /\ checkpoints' \in Seq(RunState) /\ mine' \in [Clients -> RunState]
      /\ pc' \in [Clients -> Commands]
      /\ \A k \in Clients \ {} : mine'[k] = mine[k] /\ pc'[k] = pc[k] /\ op'[k] = op[k]
      /\ op' \in [Clients -> [kind : Kinds, run : Runs \cup {None}]]
  BY <1>1 DEF PutInv, PutTypeOK
<1>4. QED BY <1>1, <1>2, <1>3, KeyWritten

(* A client that dies leaves its put and what it read. *)
LEMMA CrashKeeps ==
  ASSUME PutInv, NEW k \in Clients, Crash(k)
  PROVE  PutInv'
<1>1. /\ mine' = [mine EXCEPT ![k] = NoState] /\ Return(k)
      /\ UNCHANGED <<state, checkpoints, dirty>>
  BY DEF Crash, storeVars
<1>2. QED BY <1>1, ReturnFacts, OtherCommand

-----------------------------------------------------------------------------
(* The commands that are about the indexes. *)
Indexing(k) ==
  \/ \E r \in Runs : StartSetActive(k, r) \/ StartList(k, r) \/ StartDelete(k, r)
  \/ \E r \in Runs, kind \in Kinds : StartActive(k, kind, r)
  \/ Recording(k) \/ Push(k) \/ Activate(k)
  \/ GetActive(k) \/ GetActiveRun(k) \/ DelActive(k)
  \/ SetTTL(k) \/ ReadHistory(k) \/ Look(k) \/ Compare(k) \/ Drop(k) \/ Refill(k)

(* The call of a client moves to a command that is not of a put. *)
Moves(k) ==
  \E command \in Commands \ Putting, o \in [kind : Kinds, run : Runs \cup {None}] :
    pc' = [pc EXCEPT ![k] = command] /\ op' = [op EXCEPT ![k] = o]

(* A call that goes to a command that is not of a put moves there. *)
LEMMA MovesBy ==
  ASSUME NEW k, NEW command \in Commands \ Putting,
         NEW o \in [kind : Kinds, run : Runs \cup {None}],
         pc' = [pc EXCEPT ![k] = command], op' = [op EXCEPT ![k] = o]
  PROVE  Moves(k)
BY DEF Moves

(* They leave the snapshots alone, and no put begins or goes on with them. *)
LEMMA IndexingMoves ==
  ASSUME PutInv, NEW k \in Clients, Indexing(k)
  PROVE  /\ UNCHANGED <<state, checkpoints, mine, dirty>> /\ pc[k] \notin Putting
         /\ Moves(k)
<1>1. UNCHANGED <<state, checkpoints, mine, dirty>>
  BY DEF Indexing, StartSetActive, StartList, StartDelete, StartActive, Recording, Push,
         Activate, GetActive, GetActiveRun, DelActive, SetTTL, ReadHistory, Look, Compare, Drop,
         Refill, storeVars, clientVars
<1>2. pc[k] \notin Putting
  BY DEF Indexing, StartSetActive, StartList, StartDelete, StartActive, Recording, Push,
         Activate, GetActive, GetActiveRun, DelActive, SetTTL, ReadHistory, Look, Compare, Drop,
         Refill, Begin, At, Putting
<1>3. ASSUME Return(k) PROVE Moves(k)
  BY <1>3, ReturnFacts, MovesBy
<1>4. ASSUME NEW kind \in Kinds, NEW r \in Runs, NEW command \in Commands \ Putting,
             Begin(k, kind, r, command)
      PROVE  Moves(k)
  <2>1. [kind |-> kind, run |-> r] \in [kind : Kinds, run : Runs \cup {None}]
    OBVIOUS
  <2>2. /\ pc' = [pc EXCEPT ![k] = command]
        /\ op' = [op EXCEPT ![k] = [kind |-> kind, run |-> r]]
    BY <1>4 DEF Begin, Goto
  <2>3. QED BY <2>1, <2>2, MovesBy
<1>5. ASSUME UNCHANGED op, NEW command \in Commands \ Putting, Goto(k, command)
      PROVE  Moves(k)
  <2>1. op[k] \in [kind : Kinds, run : Runs \cup {None}] /\ op' = [op EXCEPT ![k] = op[k]]
    BY <1>5 DEF PutInv, PutTypeOK
  <2>2. pc' = [pc EXCEPT ![k] = command]
    BY <1>5 DEF Goto
  <2>3. QED BY <2>1, <2>2, MovesBy
<1>6. ASSUME UNCHANGED <<pc, op>> PROVE Moves(k)
  <2>1. pc[k] \in Commands \ Putting /\ Goto(k, pc[k])
    BY <1>2, <1>6 DEF Goto, PutInv, PutTypeOK
  <2>2. QED BY <1>5, <1>6, <2>1
<1>7. {"history", "push", "expire", "activate", "getActive", "getRun", "delActive", "range",
       "look", "delRun", "delAbsent", "drop", "refill"} \subseteq Commands \ Putting
  BY DEF Commands, Putting
<1>8. {"set", "list", "delete", "clear", "active"} \subseteq Kinds
  BY DEF Kinds
<1>9. ASSUME \E r \in Runs : StartSetActive(k, r) \/ StartList(k, r) \/ StartDelete(k, r)
      PROVE  Moves(k)
  BY <1>4, <1>7, <1>8, <1>9 DEF StartSetActive, StartList, StartDelete
<1>10. ASSUME \E r \in Runs, kind \in Kinds : StartActive(k, kind, r) PROVE Moves(k)
  BY <1>4, <1>7, <1>10 DEF StartActive
<1>11. ASSUME Recording(k) \/ Push(k) \/ Activate(k) \/ Drop(k) \/ SetTTL(k) PROVE Moves(k)
  BY <1>3, <1>5, <1>7, <1>11 DEF Recording, Push, Activate, Drop, SetTTL
<1>12. ASSUME GetActive(k) \/ GetActiveRun(k) \/ DelActive(k) PROVE Moves(k)
  BY <1>3, <1>5, <1>7, <1>12 DEF GetActive, GetActiveRun, DelActive
<1>13. ASSUME ReadHistory(k) \/ Compare(k) PROVE Moves(k)
  BY <1>3, <1>5, <1>7, <1>13 DEF ReadHistory, Compare
<1>14. ASSUME Refill(k) \/ Look(k) PROVE Moves(k)
  BY <1>5, <1>6, <1>7, <1>14 DEF Refill, Look, clientVars
<1>15. QED BY <1>1, <1>2, <1>9, <1>10, <1>11, <1>12, <1>13, <1>14 DEF Indexing

(* So the commands of the indexes keep the invariant of the puts. *)
LEMMA IndexingKeeps ==
  ASSUME PutInv, NEW k \in Clients, Indexing(k)
  PROVE  PutInv'
BY IndexingMoves, OtherCommand DEF Moves

-----------------------------------------------------------------------------
(* The invariant holds initially, and every step keeps it. *)
LEMMA PutInvInit == Init => PutInv
<1> SUFFICES ASSUME Init PROVE PutInv
  OBVIOUS
<1>1. NoState \in RunState /\ NoOp \in [kind : Kinds, run : Runs \cup {None}]
  BY DEF NoState, RunState, NoOp, Kinds
<1>2. checkpoints \in Seq(RunState)
  BY EmptySeq DEF Init, StoreInit
<1>3. PutTypeOK
  BY <1>1, <1>2 DEF Init, StoreInit, PutTypeOK, Commands
<1>4. \A k \in Clients : PutOk(k)
  BY DEF Init, PutOk, At, Putting
<1>5. QED BY <1>3, <1>4 DEF PutInv, Init, StoreInit, Stored

(* Every step keeps the invariant of the puts. *)
LEMMA PutInvStep == PutInv /\ [Next]_vars => PutInv'
<1> SUFFICES ASSUME PutInv, [Next]_vars PROVE PutInv'
  OBVIOUS
<1>1. CASE UNCHANGED vars
  BY <1>1 DEF vars, storeVars, clientVars, PutInv, PutTypeOK, PutOk, At, Run, Stored
<1>2. CASE \E k \in Clients : Take(k) \/ Exec(k) \/ Crash(k)
  BY <1>2, TakeKeeps, ExecKeeps, CrashKeeps
<1>3. CASE \E k \in Clients : StartPut(k) \/ Watch(k) \/ GetForPut(k) \/ DelRun(k)
  BY <1>3, StartPutKeeps, WatchKeeps, GetForPutKeeps, DelRunKeeps
<1>4. CASE \E k \in Clients : Indexing(k)
  BY <1>4, IndexingKeeps
<1>5. CASE \E r \in Runs : Expire(r)
  BY <1>5, ExpireKeeps
<1>6. CASE \E t \in Threads : ExpireActive(t) \/ ExpireHistory(t)
  BY <1>6 DEF ExpireActive, ExpireHistory, clientVars, PutInv, PutTypeOK, PutOk, At, Run,
              Stored
<1>7. QED BY <1>1, <1>2, <1>3, <1>4, <1>5, <1>6 DEF Next, Start, Send, Indexing

(* The only step that leaves another snapshot stored is the EXEC of a put whose *)
(* key was not written since its GET.                                       *)
LEMMA OnlyExecStores ==
  ASSUME PutInv, [Next]_vars, NEW r \in Runs, Stored(r)', state'[r] # state[r]
  PROVE  \E k \in Clients : /\ At(k, "exec") /\ ~dirty[k] /\ Run(k) = r
                            /\ state'[r] = ExecWritten(k)
                            /\ pc' = [pc EXCEPT ![k] = "history"] /\ op' = op
<1>1. state' # state
  OBVIOUS
<1>2. CASE \E k \in Clients : Exec(k)
  <2>1. PICK k \in Clients : Exec(k)
    BY <1>2
  <2>2. QED BY <1>1, <2>1 DEF Exec, Overtaken, Goto, PutInv, PutTypeOK
<1>3. CASE \E k \in Clients : DelRun(k)
  BY <1>3 DEF DelRun, Stored, PutInv, PutTypeOK
<1>4. CASE \E q \in Runs : Expire(q)
  BY <1>4 DEF Expire, Stored, PutInv, PutTypeOK
<1>5. CASE UNCHANGED state
  BY <1>1, <1>5
<1>6. QED
  <2>1. CASE \E k \in Clients : Take(k) \/ Drop(k) \/ Crash(k)
    BY <1>5, <2>1 DEF Take, Construct, Get, Hold, Drop, Crash, storeVars
  <2>6. CASE \/ \E k \in Clients : SetTTL(k) \/ Look(k) \/ Compare(k)
             \/ \E t \in Threads : ExpireActive(t) \/ ExpireHistory(t)
    BY <1>5, <2>6 DEF SetTTL, Look, Compare, ExpireActive, ExpireHistory, storeVars
  <2>2. CASE \E k \in Clients : Start(k)
    BY <1>5, <2>2 DEF Start, StartPut, StartSetActive, StartList, StartDelete, StartActive,
                      storeVars
  <2>3. CASE \E k \in Clients : Send(k) /\ ~DelRun(k)
    BY <1>5, <2>3 DEF Send, Watch, GetForPut, Recording, Push, Activate, GetActive,
                      GetActiveRun, DelActive, ReadHistory, Refill, storeVars
  <2>4. CASE UNCHANGED vars
    BY <1>5, <2>4 DEF vars, storeVars
  <2>5. QED BY <1>2, <1>3, <1>4, <2>1, <2>2, <2>3, <2>4, <2>6 DEF Next

(* What WATCH is for: a put writes the epoch after that of the snapshot it        *)
(* replaces, whatever other clients did between its GET and its EXEC           *)
(* (RedisRunStore.put).                                                     *)
THEOREM EpochsOfPutsAdvance == Spec => EpochsAdvance
<1>1. PutInv /\ [Next]_vars =>
        [\A r \in Runs : Stored(r)' /\ state'[r] # state[r] =>
           state'[r].epoch = state[r].epoch + 1]_vars
  <2> SUFFICES ASSUME PutInv, [Next]_vars, NEW r \in Runs,
                      Stored(r)', state'[r] # state[r]
               PROVE  state'[r].epoch = state[r].epoch + 1
    OBVIOUS
  <2>1. PICK k \in Clients : /\ At(k, "exec") /\ ~dirty[k] /\ Run(k) = r
                             /\ state'[r] = ExecWritten(k)
    BY OnlyExecStores
  <2>2. mine[k].epoch = state[r].epoch + 1 /\ mine[k] \in RunState
    BY <2>1 DEF PutInv, PutOk, PutTypeOK
  <2>3. ExecWritten(k).epoch = mine[k].epoch
    BY <2>2 DEF ExecWritten, RunState
  <2>4. QED BY <2>1, <2>2, <2>3
<1>2. QED BY <1>1, PutInvInit, PutInvStep, PTL DEF Spec, EpochsAdvance
-----------------------------------------------------------------------------
(* Sequences.  What is defined by recursion is shown to exist, and to be what it *)
(* should, by the smallest number for which it would not.                     *)

(* Of any natural numbers one is the smallest. *)
LEMMA Smallest ==
  ASSUME NEW T \in SUBSET Nat, T # {}
  PROVE  \E n \in T : \A m \in T : n <= m
<1> DEFINE R == {ss \in Nat \X Nat : ss[1] < ss[2]}
<1>1. IsWellFoundedOn(R, Nat)
  BY NatLessThanWellFounded DEF OpToRel
<1> HIDE DEF R
<1>2. PICK n \in T : \A m \in T : ~ (<<m, n>> \in R)
  BY <1>1, WFMin
<1>3. ASSUME NEW m \in T PROVE n <= m
  <2>1. ~ (<<m, n>> \in R) /\ m \in Nat /\ n \in Nat
    BY <1>2
  <2>2. ~ (m < n)
    BY <2>1 DEF R
  <2>3. QED BY <2>1, <2>2
<1>4. QED BY <1>3

(* One step of Selected, and the steps up to m. *)
SelectStep(s, I, p, n) ==
  IF n = 0 THEN << >> ELSE IF n \in I THEN Append(p, s[n]) ELSE p

Selects(f, s, I, m) == f = [n \in 0 .. m |-> SelectStep(s, I, f[n - 1], n)]

(* The function that Selected chooses exists. *)
LEMMA SelectionExists ==
  ASSUME NEW s, NEW I, NEW l \in Nat
  PROVE  \E f : Selects(f, s, I, l)
<1> DEFINE T == {n \in Nat : ~ \E f : Selects(f, s, I, n)}
<1>1. SUFFICES ASSUME T # {} PROVE FALSE
  OBVIOUS
<1>2. PICK n \in T : \A m \in T : n <= m
  BY <1>1, Smallest
<1>3. CASE n = 0
  <2>1. Selects([i \in 0 .. 0 |-> << >>], s, I, 0)
    BY DEF Selects, SelectStep
  <2>2. QED BY <1>2, <1>3, <2>1
<1>4. CASE n # 0
  <2>1. n \in Nat /\ n - 1 \in Nat /\ n - 1 < n
    BY <1>2, <1>4
  <2>2. PICK f : Selects(f, s, I, n - 1)
    BY <1>2, <2>1
  <2> DEFINE g == [i \in 0 .. n |-> IF i = n THEN SelectStep(s, I, f[n - 1], n) ELSE f[i]]
  <2>3. ASSUME NEW i \in 0 .. n PROVE g[i] = SelectStep(s, I, g[i - 1], i)
    <3>1. CASE i = n
      BY <1>4, <2>1, <3>1
    <3>2. CASE i # n /\ i # 0
      <4>1. i \in 0 .. n - 1 /\ i - 1 \in 0 .. n /\ i - 1 # n
        BY <2>1, <3>2
      <4>2. f[i] = SelectStep(s, I, f[i - 1], i)
        BY <2>2, <4>1 DEF Selects
      <4>3. QED BY <3>2, <4>1, <4>2
    <3>3. CASE i # n /\ i = 0
      <4>1. f[0] = SelectStep(s, I, f[0 - 1], 0)
        BY <2>1, <2>2 DEF Selects
      <4>2. QED BY <3>3, <4>1 DEF SelectStep
    <3>4. QED BY <3>1, <3>2, <3>3
  <2>4. Selects(g, s, I, n)
    BY <2>3 DEF Selects
  <2>5. QED BY <1>2, <2>4
<1>5. QED BY <1>3, <1>4

(* A sequence with one more entry. *)
LEMMA AppendFacts ==
  ASSUME NEW S, NEW s \in Seq(S), NEW x \in S
  PROVE  /\ Append(s, x) \in Seq(S)
         /\ ToSet(Append(s, x)) = ToSet(s) \cup {x}
         /\ IsInjective(s) /\ x \notin ToSet(s) => IsInjective(Append(s, x))
<1> DEFINE n == Len(s)
           t == Append(s, x)
<1>1. n \in Nat /\ DOMAIN s = 1 .. n
  BY LenProperties
<1>2. /\ t \in Seq(S) /\ DOMAIN t = 1 .. n + 1
      /\ \A i \in 1 .. n : t[i] = s[i]
      /\ t[n + 1] = x
  BY AppendProperties, LenProperties
<1> HIDE DEF n, t
<1>3. ToSet(t) = ToSet(s) \cup {x}
  <2>1. 1 .. n + 1 = (1 .. n) \cup {n + 1}
    BY <1>1
  <2>2. QED BY <1>1, <1>2, <2>1 DEF ToSet
<1>4. ASSUME IsInjective(s), x \notin ToSet(s), NEW i \in DOMAIN t, NEW j \in DOMAIN t,
             t[i] = t[j]
      PROVE  i = j
  <2>1. \A m \in 1 .. n : s[m] # x
    BY <1>1, <1>4 DEF ToSet
  <2>2. \A m \in 1 .. n + 1 : m \in 1 .. n \/ m = n + 1
    BY <1>1
  <2>3. \A m \in 1 .. n, k \in 1 .. n : s[m] = s[k] => m = k
    BY <1>1, <1>4 DEF IsInjective
  <2>4. QED BY <1>1, <1>2, <1>4, <2>1, <2>2, <2>3
<1>5. QED BY <1>2, <1>3, <1>4 DEF t, IsInjective

(* The first entry of a sequence, and the others. *)
LEMMA HeadTailFacts ==
  ASSUME NEW S, NEW s \in Seq(S), s # << >>
  PROVE  /\ Head(s) \in S /\ Tail(s) \in Seq(S)
         /\ ToSet(s) = ToSet(Tail(s)) \cup {Head(s)}
<1> DEFINE n == Len(s)
           t == Tail(s)
<1>1. n \in Nat /\ n # 0 /\ DOMAIN s = 1 .. n /\ Head(s) = s[1]
  BY LenProperties, EmptySeq
<1>2. t \in Seq(S) /\ DOMAIN t = 1 .. n - 1 /\ \A i \in 1 .. n - 1 : t[i] = s[i + 1]
  BY HeadTailProperties, LenProperties
<1>3. Head(s) \in S
  BY <1>1, ElementOfSeq
<1> HIDE DEF n, t
<1>4. \A i \in 1 .. n : i = 1 \/ (i - 1 \in 1 .. n - 1 /\ (i - 1) + 1 = i)
  BY <1>1
<1>5. \A i \in 1 .. n - 1 : i + 1 \in 1 .. n
  BY <1>1
<1>6. ToSet(s) \subseteq ToSet(t) \cup {s[1]}
  <2>1. ASSUME NEW i \in 1 .. n PROVE s[i] = s[1] \/ \E j \in 1 .. n - 1 : t[j] = s[i]
    BY <1>2, <1>4
  <2>2. ToSet(t) = {t[j] : j \in 1 .. n - 1}
    BY <1>2 DEF ToSet
  <2>3. ToSet(s) = {s[j] : j \in 1 .. n}
    BY <1>1 DEF ToSet
  <2>4. QED BY <2>1, <2>2, <2>3
<1>7. ToSet(t) \cup {s[1]} \subseteq ToSet(s)
  <2>1. 1 \in 1 .. n
    BY <1>1
  <2>2. QED BY <1>1, <1>2, <1>5, <2>1 DEF ToSet
<1>8. QED BY <1>1, <1>2, <1>3, <1>6, <1>7 DEF t

(* What is selected is a sequence of the entries at those positions, and has none *)
(* twice if the sequence has none twice.                                     *)
LEMMA SelectedFacts ==
  ASSUME NEW S, NEW s \in Seq(S), NEW I
  PROVE  /\ Selected(s, I) \in Seq(S)
         /\ ToSet(Selected(s, I)) = {s[i] : i \in I \cap DOMAIN s}
         /\ IsInjective(s) => IsInjective(Selected(s, I))
<1> DEFINE l == Len(s)
           f == CHOOSE f : f = [n \in 0 .. l |->
                  IF n = 0 THEN << >>
                  ELSE IF n \in I THEN Append(f[n - 1], s[n]) ELSE f[n - 1]]
           Upto(i) == {s[j] : j \in I \cap (1 .. i)}
           Good(i) == /\ f[i] \in Seq(S)
                      /\ ToSet(f[i]) = Upto(i)
                      /\ IsInjective(s) => IsInjective(f[i])
<1>1. Selected(s, I) = f[l]
  BY DEF Selected
<1>2. l \in Nat /\ DOMAIN s = 1 .. l
  BY LenProperties
<1>3. Selects(f, s, I, l)
  <2>1. PICK g : Selects(g, s, I, l)
    BY <1>2, SelectionExists
  <2>2. g = [n \in 0 .. l |->
               IF n = 0 THEN << >>
               ELSE IF n \in I THEN Append(g[n - 1], s[n]) ELSE g[n - 1]]
    BY <2>1 DEF Selects, SelectStep
  <2>3. f = [n \in 0 .. l |->
               IF n = 0 THEN << >>
               ELSE IF n \in I THEN Append(f[n - 1], s[n]) ELSE f[n - 1]]
    BY <2>2
  <2>4. QED BY <2>3 DEF Selects, SelectStep
<1> HIDE DEF l, f
<1>4. Good(0)
  <2>1. f[0] = << >>
    BY <1>2, <1>3 DEF Selects, SelectStep
  <2>2. << >> \in Seq(S) /\ ToSet(<< >>) = {} /\ IsInjective(<< >>)
    BY EmptySeq DEF ToSet, IsInjective
  <2>3. QED BY <2>1, <2>2
<1>5. ASSUME NEW i \in 1 .. l, Good(i - 1) PROVE Good(i)
  <2>1. i \in 0 .. l /\ i # 0 /\ s[i] \in S
    BY <1>2, <1>5, ElementOfSeq DEF l
  <2>2. f[i] = SelectStep(s, I, f[i - 1], i)
    BY <1>3, <2>1 DEF Selects
  <2>3. 1 .. i = (1 .. i - 1) \cup {i}
    BY <1>2, <1>5
  <2>4. IsInjective(s) => s[i] \notin Upto(i - 1)
    <3>1. \A j \in 1 .. i - 1 : j \in DOMAIN s /\ j # i
      BY <1>2, <1>5
    <3>2. QED BY <1>2, <1>5, <3>1 DEF IsInjective
  <2> DEFINE p == f[i - 1]
  <2>5. p \in Seq(S) /\ ToSet(p) = Upto(i - 1) /\ (IsInjective(s) => IsInjective(p))
    BY <1>5
  <2>6. CASE i \in I
    <3>1. Upto(i) = Upto(i - 1) \cup {s[i]}
      BY <2>3, <2>6
    <3> HIDE DEF Upto, p
    <3>2. f[i] = Append(p, s[i])
      BY <2>1, <2>2, <2>6 DEF SelectStep, p
    <3>3. QED BY <2>1, <2>4, <2>5, <3>1, <3>2, AppendFacts
  <2>7. CASE i \notin I
    <3>1. Upto(i) = Upto(i - 1)
      BY <2>3, <2>7
    <3> HIDE DEF Upto, p
    <3>2. f[i] = p
      BY <2>1, <2>2, <2>7 DEF SelectStep, p
    <3>3. QED BY <2>5, <3>1, <3>2
  <2>8. QED BY <2>6, <2>7
<1> HIDE DEF Good
<1>6. Good(l)
  <2> DEFINE T == {i \in 0 .. l : ~Good(i)}
  <2>1. SUFFICES ASSUME T # {} PROVE FALSE
    BY <1>2
  <2>2. T \in SUBSET Nat
    BY <1>2
  <2>3. PICK n \in T : \A m \in T : n <= m
    BY <2>1, <2>2, Smallest
  <2>4. n # 0
    BY <1>4, <2>3
  <2>5. n \in 1 .. l /\ n - 1 \in 0 .. l /\ ~(n <= n - 1)
    BY <1>2, <2>3, <2>4
  <2>6. Good(n - 1)
    BY <2>3, <2>5
  <2>7. QED BY <1>5, <2>3, <2>5, <2>6
<1>7. QED BY <1>1, <1>2, <1>6 DEF Good

-----------------------------------------------------------------------------
(* The history of a thread. *)

(* The lists, which have runs of one thread. *)
ListsOk ==
  /\ threadRuns \in [Threads -> Seq(Runs)]
  /\ read \in [Clients -> Seq(Runs)]
  /\ threadActive \in [Threads -> Runs \cup {None}]
  /\ \A t \in Threads : \A r \in ToSet(threadRuns[t]) : ThreadOf[r] = t
  /\ \A k \in Clients : pc[k] \in {"look", "drop", "refill"} =>
       \A r \in ToSet(read[k]) : ThreadOf[r] = Thread(k)
  /\ \A k \in Clients : pc[k] # "idle" => Run(k) \in Runs

(* What a client is sure to record, unless it dies. *)
Carries(k) ==
  {r \in Runs :
     \/ pc[k] = "history" /\ r = Run(k)
     \/ pc[k] = "push" /\ r = Run(k)
     \/ pc[k] = "refill" /\ r \in ToSet(read[k])}

(* The runs that are in a history, or on the way there, or lost. *)
Accounted ==
  {r \in Runs : \/ r \in ToSet(threadRuns[ThreadOf[r]])
                \/ r \in gone
                \/ \E k \in Clients : r \in Carries(k)}

(* A client whose put has written its snapshot, and not yet renewed the TTL of    *)
(* the history.                                                             *)
Renews(k) == pc[k] \in {"history", "push", "expire"} /\ op[k].kind = "put"

(* A snapshot that outlives the history of its thread is one of a put that is      *)
(* about to renew it, or whose task died.                                    *)
TtlOk ==
  /\ timed \subseteq Threads /\ outlives \subseteq Runs
  /\ timed # {} => CanExpire
  /\ \A t \in timed : threadRuns[t] # << >>
  /\ \A r \in outlives : ThreadOf[r] \in timed
  /\ \A r \in outlives : Stored(r) =>
       r \in gone \/ \E k \in Clients : Renews(k) /\ Run(k) = r
  /\ \A k \in Clients : pc[k] \in Putting => op[k].kind = "put"

HistoryInv ==
  /\ PutInv
  /\ ListsOk
  /\ TtlOk
  /\ \A r \in Runs : Stored(r) => r \in Accounted

(* What is asked of a step: the lists stay as they should be, and every run that  *)
(* was accounted for still is, if it is stored.                              *)
HistoryKept == ListsOk' /\ \A r \in Accounted : Stored(r) => r \in Accounted'

(* A client goes on to another command, with another list. *)
Turns(k, command, o, s) ==
  /\ pc' = [pc EXCEPT ![k] = command]
  /\ op' = [op EXCEPT ![k] = o]
  /\ read' = [read EXCEPT ![k] = s]

(* A client that goes to another command changes its own entry only. *)
LEMMA TurnFacts ==
  ASSUME PutInv, ListsOk, NEW k \in Clients, NEW command, NEW o, NEW s,
         Turns(k, command, o, s)
  PROVE  /\ pc'[k] = command /\ op'[k] = o /\ Run(k)' = o.run /\ read'[k] = s
         /\ \A j \in Clients \ {k} :
              /\ pc'[j] = pc[j] /\ op'[j] = op[j] /\ Run(j)' = Run(j) /\ read'[j] = read[j]
              /\ Carries(j)' = Carries(j)
<1>1. pc'[k] = command /\ op'[k] = o /\ read'[k] = s
  BY DEF Turns, PutInv, PutTypeOK, ListsOk
<1>2. ASSUME NEW j \in Clients \ {k}
      PROVE  pc'[j] = pc[j] /\ op'[j] = op[j] /\ read'[j] = read[j]
  BY DEF Turns, PutInv, PutTypeOK, ListsOk
<1>3. QED BY <1>1, <1>2 DEF Run, Carries

(* The steps of one client. *)
LEMMA TurnKeepsLists ==
  ASSUME PutInv, ListsOk, NEW k \in Clients, NEW command, NEW o, NEW s \in Seq(Runs),
         Turns(k, command, o, s),
         command # "idle" => o.run \in Runs,
         command \in {"look", "drop", "refill"} => \A r \in ToSet(s) : ThreadOf[r] = ThreadOf[o.run],
         threadActive' \in [Threads -> Runs \cup {None}],
         threadRuns' \in [Threads -> Seq(Runs)],
         \A t \in Threads : \A r \in ToSet(threadRuns'[t]) : ThreadOf[r] = t
  PROVE  ListsOk'
<1>1. read' \in [Clients -> Seq(Runs)]
  BY DEF Turns, ListsOk
<1>2. ASSUME NEW j \in Clients
      PROVE  /\ pc'[j] \in {"look", "drop", "refill"} =>
                  \A r \in ToSet(read'[j]) : ThreadOf[r] = ThreadOf[Run(j)']
             /\ pc'[j] # "idle" => Run(j)' \in Runs
  <2>1. CASE j = k
    BY <2>1, TurnFacts
  <2>2. CASE j # k
    <3>1. pc'[j] = pc[j] /\ Run(j)' = Run(j) /\ read'[j] = read[j]
      BY <2>2, TurnFacts
    <3>2. QED BY <3>1 DEF ListsOk, Thread
  <2>3. QED BY <2>1, <2>2
<1>3. QED BY <1>1, <1>2 DEF ListsOk, Thread

(* Such a step accounts for every run that was accounted for. *)
LEMMA TurnAccounts ==
  ASSUME PutInv, ListsOk, NEW k \in Clients, NEW command, NEW o, NEW s,
         Turns(k, command, o, s), gone \subseteq gone',
         \A r \in Runs :
           r \in ToSet(threadRuns[ThreadOf[r]]) \/ r \in Carries(k) =>
             \/ r \in ToSet(threadRuns'[ThreadOf[r]])
             \/ r \in gone'
             \/ r \in Carries(k)'
  PROVE  Accounted \subseteq Accounted'
<1>1. \A j \in Clients \ {k} : Carries(j)' = Carries(j)
  BY TurnFacts
<1>2. SUFFICES ASSUME NEW r \in Runs, r \in Accounted
               PROVE  \/ r \in ToSet(threadRuns'[ThreadOf[r]])
                      \/ r \in gone'
                      \/ \E j \in Clients : r \in Carries(j)'
  BY DEF Accounted
<1>3. QED BY <1>1, <1>2 DEF Accounted

(* A command that is not about a history, of a client that records nothing. *)
LEMMA PlainTurn ==
  ASSUME HistoryInv, NEW k \in Clients, NEW command, NEW o, NEW s \in Seq(Runs),
         pc[k] \notin {"history", "push", "refill"},
         Turns(k, command, o, s), UNCHANGED <<threadRuns, gone>>,
         threadActive' \in [Threads -> Runs \cup {None}],
         command # "idle" => o.run \in Runs,
         command \in {"look", "drop", "refill"} => \A r \in ToSet(s) : ThreadOf[r] = ThreadOf[o.run]
  PROVE  HistoryKept
<1>1. PutInv /\ ListsOk
  BY DEF HistoryInv
<1>2. ListsOk'
  <2>1. /\ threadRuns' \in [Threads -> Seq(Runs)]
        /\ \A t \in Threads : \A r \in ToSet(threadRuns'[t]) : ThreadOf[r] = t
    BY <1>1 DEF ListsOk
  <2>2. QED BY <1>1, <2>1, TurnKeepsLists
<1>3. Carries(k) = {}
  BY DEF Carries
<1>4. Accounted \subseteq Accounted'
  <2>1. \A r \in Runs : threadRuns'[ThreadOf[r]] = threadRuns[ThreadOf[r]]
    OBVIOUS
  <2>2. QED BY <1>1, <1>3, <2>1, TurnAccounts
<1>5. QED BY <1>2, <1>4 DEF HistoryKept

(* An operation that returns. *)
LEMMA ReturnTurns ==
  ASSUME NEW k, Return(k)
  PROVE  Turns(k, "idle", NoOp, << >>) /\ << >> \in Seq(Runs)
BY EmptySeq DEF Return, Goto, Turns

(* One that goes on with its run and what it has read. *)
LEMMA GotoTurns ==
  ASSUME PutInv, ListsOk, NEW k \in Clients, NEW command, Goto(k, command), UNCHANGED op,
         NEW s, read' = [read EXCEPT ![k] = s]
  PROVE  Turns(k, command, op[k], s)
<1>1. op = [op EXCEPT ![k] = op[k]]
  BY DEF PutInv, PutTypeOK
<1>2. QED BY <1>1 DEF Goto, Turns

(* What a client has read is a list of runs. *)
LEMMA ReadStays ==
  ASSUME ListsOk, NEW k \in Clients
  PROVE  read[k] \in Seq(Runs) /\ read = [read EXCEPT ![k] = read[k]]
BY DEF ListsOk

(* An operation that begins carries nothing away. *)
LEMMA StartKeepsHistory ==
  ASSUME HistoryInv, NEW k \in Clients, Start(k), UNCHANGED lossVars
  PROVE  HistoryKept
<1>1. PutInv /\ ListsOk
  BY DEF HistoryInv
<1>2. PICK kind, r, command :
        /\ Begin(k, kind, r, command) /\ r \in Runs
        /\ command \notin {"idle", "look", "drop", "refill"}
        /\ UNCHANGED <<threadRuns, threadActive, read>>
  <2>1. CASE StartPut(k)
    <3>1. mine[k].run \in Runs
      BY <1>1, <2>1 DEF StartPut, PutInv, PutOk
    <3>2. QED BY <2>1, <3>1 DEF StartPut, storeVars
  <2>2. CASE \E r \in Runs : StartSetActive(k, r) \/ StartList(k, r) \/ StartDelete(k, r)
    BY <2>2 DEF StartSetActive, StartList, StartDelete, storeVars
  <2>3. CASE \E r \in Runs, kind \in Kinds : StartActive(k, kind, r)
    BY <2>3 DEF StartActive, storeVars
  <2>4. QED BY <2>1, <2>2, <2>3 DEF Start
<1> DEFINE o == [kind |-> kind, run |-> r]
<1>3. Turns(k, command, o, read[k])
  BY <1>1, <1>2, ReadStays DEF Begin, Goto, Turns
<1>4. pc[k] = "idle" /\ o.run \in Runs
  BY <1>2 DEF Begin, At
<1> HIDE DEF o
<1>5. /\ UNCHANGED <<threadRuns, gone>> /\ read[k] \in Seq(Runs)
      /\ threadActive' \in [Threads -> Runs \cup {None}]
  BY <1>1, <1>2 DEF lossVars, ListsOk
<1>6. QED BY <1>2, <1>3, <1>4, <1>5, PlainTurn

(* The commands of an operation that touch no history. *)
LEMMA OthersKeepHistory ==
  ASSUME HistoryInv, NEW k \in Clients, UNCHANGED lossVars,
         \/ Watch(k) \/ GetForPut(k) \/ Exec(k)
         \/ Activate(k) \/ GetActive(k) \/ GetActiveRun(k) \/ DelActive(k) \/ DelRun(k)
         \/ SetTTL(k)
  PROVE  HistoryKept
<1>1. /\ PutInv /\ ListsOk
      /\ UNCHANGED <<threadRuns, gone>>
  BY DEF HistoryInv, Watch, GetForPut, Exec, Activate, GetActive, GetActiveRun, DelActive,
         DelRun, SetTTL, lossVars, storeVars
<1>2. pc[k] \notin {"idle", "history", "push", "refill"}
  BY DEF Watch, GetForPut, Exec, Activate, GetActive, GetActiveRun, DelActive, DelRun, SetTTL,
         At
<1>3. Run(k) \in Runs /\ Thread(k) \in Threads
  BY <1>1, <1>2, RedisConstants DEF ListsOk, Thread
<1>4. threadActive' \in [Threads -> Runs \cup {None}]
  BY <1>1, <1>3 DEF Watch, GetForPut, Exec, Activate, GetActive, GetActiveRun, DelActive,
         DelRun, SetTTL, storeVars, SetActive, ListsOk
<1>5. CASE Return(k)
  BY <1>1, <1>2, <1>4, <1>5, ReturnTurns, PlainTurn
<1>6. ASSUME NEW command, command \notin {"idle", "look", "drop", "refill"}, NEW s \in Seq(Runs),
             Goto(k, command), UNCHANGED op, read' = [read EXCEPT ![k] = s]
      PROVE  HistoryKept
  <2>1. Turns(k, command, op[k], s)
    BY <1>1, <1>6, GotoTurns
  <2>2. op[k].run \in Runs
    BY <1>3 DEF Run
  <2>3. QED BY <1>1, <1>2, <1>4, <1>6, <2>1, <2>2, PlainTurn
<1>7. CASE UNCHANGED <<op, read>> /\ \E command : /\ command \notin {"idle", "look", "drop", "refill"}
                                                  /\ Goto(k, command)
  BY <1>1, <1>6, <1>7, ReadStays
<1>8. CASE Watch(k) \/ GetForPut(k) \/ GetActiveRun(k) \/ DelRun(k)
  BY <1>5, <1>7, <1>8 DEF Watch, GetForPut, GetActiveRun, DelRun
<1>9. CASE Exec(k) \/ Activate(k) \/ DelActive(k) \/ SetTTL(k)
  BY <1>5, <1>7, <1>9 DEF Exec, Activate, DelActive, SetTTL
<1>10. CASE GetActive(k)
  <2> DEFINE r == threadActive[Thread(k)]
  <2>1. CASE r # None /\ read' = [read EXCEPT ![k] = <<r>>] /\ Goto(k, "getRun")
             /\ UNCHANGED op
    <3>1. r \in Runs
      BY <1>1, <1>3, <2>1 DEF ListsOk
    <3>2. <<r>> \in Seq(Runs)
      BY <3>1
    <3> HIDE DEF r
    <3>3. QED BY <1>6, <2>1, <3>2
  <2>2. QED BY <1>5, <1>7, <1>10, <2>1 DEF GetActive
<1>11. QED BY <1>8, <1>9, <1>10

(* What is kept of a list was in it. *)
LEMMA KeptFacts ==
  ASSUME NEW k, NEW list \in Seq(Runs)
  PROVE  /\ Found(k, list) \in Seq(Runs) /\ ToSet(Found(k, list)) \subseteq ToSet(list)
         /\ NotDeleted(k, list) \in Seq(Runs)
         /\ ToSet(NotDeleted(k, list)) \subseteq ToSet(list)
<1>1. ASSUME NEW I
      PROVE  Selected(list, I) \in Seq(Runs) /\ ToSet(Selected(list, I)) \subseteq ToSet(list)
  <2>1. Selected(list, I) \in Seq(Runs)
    BY SelectedFacts
  <2>2. ToSet(Selected(list, I)) = {list[i] : i \in I \cap DOMAIN list}
    BY SelectedFacts
  <2>3. {list[i] : i \in I \cap DOMAIN list} \subseteq ToSet(list)
    BY DEF ToSet
  <2>4. QED BY <2>1, <2>2, <2>3
<1>2. QED BY <1>1 DEF Found, NotDeleted

(* What a listing or deletion reads of a history is of its thread. *)
LEMMA ReadHistoryKeeps ==
  ASSUME HistoryInv, NEW k \in Clients, ReadHistory(k), UNCHANGED lossVars
  PROVE  HistoryKept
<1>1. /\ PutInv /\ ListsOk /\ pc[k] = "range"
      /\ UNCHANGED <<threadRuns, threadActive, gone, op>>
  BY DEF HistoryInv, ReadHistory, At, lossVars, storeVars
<1>2. Run(k) \in Runs /\ Thread(k) \in Threads
  BY <1>1, RedisConstants DEF ListsOk, Thread
<1> DEFINE history == threadRuns[Thread(k)]
<1>3. history \in Seq(Runs) /\ \A r \in ToSet(history) : ThreadOf[r] = Thread(k)
  BY <1>1, <1>2 DEF ListsOk
<1>4. threadActive' \in [Threads -> Runs \cup {None}]
  BY <1>1 DEF ListsOk
<1>5. PICK command \in {"look", "drop"}, s \in {history, NotDeleted(k, history)} :
        Goto(k, command) /\ read' = [read EXCEPT ![k] = s]
  BY DEF ReadHistory
<1>6. s \in Seq(Runs) /\ ToSet(s) \subseteq ToSet(history)
  BY <1>3, KeptFacts
<1>7. Turns(k, command, op[k], s)
  BY <1>1, <1>5, GotoTurns
<1>8. op[k].run \in Runs /\ \A r \in ToSet(s) : ThreadOf[r] = ThreadOf[op[k].run]
  BY <1>2, <1>3, <1>6 DEF Run, Thread
<1>9. QED BY <1>1, <1>4, <1>6, <1>7, <1>8, PlainTurn

(* So is what a listing keeps of it. *)
LEMMA CompareKeeps ==
  ASSUME HistoryInv, NEW k \in Clients, Compare(k)
  PROVE  HistoryKept
<1>1. /\ PutInv /\ ListsOk /\ pc[k] = "look"
      /\ UNCHANGED <<threadRuns, threadActive, gone>>
  BY DEF HistoryInv, Compare, At, lossVars, storeVars
<1>2. Run(k) \in Runs /\ read[k] \in Seq(Runs)
      /\ \A r \in ToSet(read[k]) : ThreadOf[r] = Thread(k)
  BY <1>1 DEF ListsOk
<1>3. threadActive' \in [Threads -> Runs \cup {None}]
  BY <1>1 DEF ListsOk
<1>4. CASE Return(k)
  BY <1>1, <1>3, <1>4, ReturnTurns, PlainTurn
<1>5. CASE read' = [read EXCEPT ![k] = Found(k, read[k])] /\ Goto(k, "drop") /\ UNCHANGED op
  <2> DEFINE s == Found(k, read[k])
  <2>1. s \in Seq(Runs) /\ ToSet(s) \subseteq ToSet(read[k])
    BY <1>2, KeptFacts
  <2> HIDE DEF s
  <2>2. Turns(k, "drop", op[k], s)
    BY <1>1, <1>5, GotoTurns DEF s
  <2>3. op[k].run \in Runs /\ \A r \in ToSet(s) : ThreadOf[r] = ThreadOf[op[k].run]
    BY <1>2, <2>1 DEF Run, Thread
  <2>4. QED BY <1>1, <1>3, <2>1, <2>2, <2>3, PlainTurn
<1>6. QED BY <1>4, <1>5 DEF Compare

(* A client that looked for its run in the history either saw it or pushes it. *)
LEMMA RecordingKeeps ==
  ASSUME HistoryInv, NEW k \in Clients, Recording(k), UNCHANGED lossVars
  PROVE  HistoryKept
<1>1. /\ PutInv /\ ListsOk /\ pc[k] = "history"
      /\ UNCHANGED <<threadRuns, threadActive, gone, op>>
  BY DEF HistoryInv, Recording, At, lossVars, storeVars
<1>2. Run(k) \in Runs
  BY <1>1 DEF ListsOk
<1> DEFINE command == IF ToRecord(k) THEN "push" ELSE "expire"
<1>3. read[k] \in Seq(Runs) /\ Turns(k, command, op[k], read[k])
  BY <1>1, ReadStays, GotoTurns DEF Recording
<1>4. pc'[k] = command /\ Run(k)' = Run(k)
  BY <1>1, <1>3, TurnFacts DEF Run
<1>5. ListsOk'
  <2>1. /\ threadRuns' \in [Threads -> Seq(Runs)]
        /\ threadActive' \in [Threads -> Runs \cup {None}]
        /\ \A t \in Threads : \A r \in ToSet(threadRuns'[t]) : ThreadOf[r] = t
        /\ op[k].run \in Runs
    BY <1>1, <1>2 DEF ListsOk, Run
  <2>2. command \notin {"look", "drop", "refill"}
    OBVIOUS
  <2>3. QED BY <1>1, <1>3, <2>1, <2>2, TurnKeepsLists
<1>6. /\ Carries(k) = {Run(k)}
      /\ Run(k) \in ToSet(threadRuns[ThreadOf[Run(k)]]) \/ Run(k) \in Carries(k)'
  BY <1>1, <1>2, <1>4 DEF Carries, ToRecord, Thread
<1>7. \A r \in Runs :
        r \in ToSet(threadRuns[ThreadOf[r]]) \/ r \in Carries(k) =>
          \/ r \in ToSet(threadRuns'[ThreadOf[r]])
          \/ r \in gone'
          \/ r \in Carries(k)'
  BY <1>1, <1>6
<1>8. Accounted \subseteq Accounted'
  BY <1>1, <1>3, <1>7, TurnAccounts
<1>9. QED BY <1>5, <1>8 DEF HistoryKept

(* A history with a run of its thread at its end. *)
LEMMA PushFacts ==
  ASSUME ListsOk, NEW k \in Clients, pc[k] # "idle", NEW r \in Runs, ThreadOf[r] = Thread(k),
         SetHistory(Thread(k), Append(threadRuns[Thread(k)], r))
  PROVE  /\ threadRuns' \in [Threads -> Seq(Runs)]
         /\ \A t \in Threads : \A q \in ToSet(threadRuns'[t]) : ThreadOf[q] = t
         /\ r \in ToSet(threadRuns'[ThreadOf[r]])
         /\ \A q \in Runs : q \in ToSet(threadRuns[ThreadOf[q]]) =>
                              q \in ToSet(threadRuns'[ThreadOf[q]])
<1> DEFINE t == Thread(k)
           h == Append(threadRuns[t], r)
<1>1. t \in Threads /\ threadRuns[t] \in Seq(Runs)
  BY RedisConstants DEF ListsOk, Thread
<1>2. h \in Seq(Runs) /\ ToSet(h) = ToSet(threadRuns[t]) \cup {r}
  BY <1>1, AppendFacts
<1>3. threadRuns' = [threadRuns EXCEPT ![t] = h]
  BY DEF SetHistory
<1> HIDE DEF h
<1>4. /\ threadRuns' \in [Threads -> Seq(Runs)]
      /\ \A u \in Threads : threadRuns'[u] = IF u = t THEN h ELSE threadRuns[u]
  BY <1>2, <1>3 DEF ListsOk
<1>5. \A u \in Threads : \A q \in ToSet(threadRuns'[u]) : ThreadOf[q] = u
  BY <1>1, <1>2, <1>4 DEF ListsOk
<1>6. \A q \in Runs : ThreadOf[q] \in Threads
  BY RedisConstants
<1>7. QED BY <1>1, <1>2, <1>4, <1>5, <1>6

(* RPUSH puts the run the client carries in the history of its thread. *)
LEMMA PushKeeps ==
  ASSUME HistoryInv, NEW k \in Clients, Push(k), UNCHANGED lossVars
  PROVE  HistoryKept
<1>1. /\ PutInv /\ ListsOk /\ pc[k] = "push"
      /\ UNCHANGED <<threadActive, gone, op, read>>
  BY DEF HistoryInv, Push, At, lossVars
<1>2. Run(k) \in Runs /\ Thread(k) \in Threads /\ ThreadOf[Run(k)] = Thread(k)
  BY <1>1, RedisConstants DEF ListsOk, Thread
<1>3. /\ threadRuns' \in [Threads -> Seq(Runs)]
      /\ \A t \in Threads : \A q \in ToSet(threadRuns'[t]) : ThreadOf[q] = t
      /\ Run(k) \in ToSet(threadRuns'[ThreadOf[Run(k)]])
      /\ \A q \in Runs : q \in ToSet(threadRuns[ThreadOf[q]]) =>
                           q \in ToSet(threadRuns'[ThreadOf[q]])
  BY <1>1, <1>2, PushFacts DEF Push
<1>4. read[k] \in Seq(Runs) /\ Turns(k, "expire", op[k], read[k])
  BY <1>1, ReadStays, GotoTurns DEF Push
<1>5. threadActive' \in [Threads -> Runs \cup {None}] /\ op[k].run \in Runs
  BY <1>1, <1>2 DEF ListsOk, Run
<1>6. ListsOk'
  BY <1>1, <1>3, <1>4, <1>5, TurnKeepsLists
<1>7. \A r \in Carries(k) : r = Run(k)
  BY <1>1 DEF Carries
<1>8. \A r \in Runs :
        r \in ToSet(threadRuns[ThreadOf[r]]) \/ r \in Carries(k) =>
          \/ r \in ToSet(threadRuns'[ThreadOf[r]])
          \/ r \in gone'
          \/ r \in Carries(k)'
  BY <1>3, <1>7
<1>9. Accounted \subseteq Accounted'
  BY <1>1, <1>4, <1>8, TurnAccounts
<1>10. QED BY <1>6, <1>9 DEF HistoryKept

(* What is dropped with a history was read, and will be pushed again, or is lost. *)
LEMMA DropKeeps ==
  ASSUME HistoryInv, NEW k \in Clients, Drop(k)
  PROVE  HistoryKept
<1>1. /\ PutInv /\ ListsOk /\ pc[k] = "drop"
      /\ UNCHANGED threadActive
      /\ gone' = gone \cup (ToSet(threadRuns[Thread(k)]) \ ToSet(read[k]))
  BY DEF HistoryInv, Drop, At
<1>2. Run(k) \in Runs /\ Thread(k) \in Threads
  BY <1>1, RedisConstants DEF ListsOk, Thread
<1>3. /\ threadRuns' \in [Threads -> Seq(Runs)]
      /\ \A t \in Threads :
           \/ t = Thread(k) /\ threadRuns'[t] = << >>
           \/ t # Thread(k) /\ threadRuns'[t] = threadRuns[t]
  <2>1. threadRuns' = [threadRuns EXCEPT ![Thread(k)] = << >>]
    BY DEF Drop, SetHistory
  <2>2. << >> \in Seq(Runs)
    BY EmptySeq
  <2>3. QED BY <1>1, <2>1, <2>2 DEF ListsOk
<1>4. ToSet(<< >>) = {}
  BY DEF ToSet
<1>5. \A t \in Threads : \A r \in ToSet(threadRuns'[t]) : ThreadOf[r] = t
  BY <1>1, <1>3, <1>4 DEF ListsOk
<1>6. PICK command \in {"refill", "idle", "getActive"} : \E o, s :
        /\ s \in Seq(Runs) /\ Turns(k, command, o, s)
        /\ command = "refill" => o = op[k] /\ s = read[k]
        /\ command # "refill" => read[k] = << >>
        /\ command # "idle" => o.run \in Runs
  <2>1. CASE read[k] # << >> /\ Goto(k, "refill") /\ UNCHANGED <<op, read>>
    <3>1. read[k] \in Seq(Runs) /\ Turns(k, "refill", op[k], read[k])
      BY <1>1, <2>1, ReadStays, GotoTurns
    <3>2. QED BY <1>2, <2>1, <3>1 DEF Run
  <2>2. CASE read[k] = << >> /\ Return(k)
    BY <2>2, ReturnTurns
  <2>3. CASE read[k] = << >> /\ Goto(k, "getActive") /\ UNCHANGED <<op, read>>
    <3>1. read[k] \in Seq(Runs) /\ Turns(k, "getActive", op[k], read[k])
      BY <1>1, <2>3, ReadStays, GotoTurns
    <3>2. QED BY <1>2, <2>3, <3>1 DEF Run
  <2>4. QED BY <2>1, <2>2, <2>3 DEF Drop
<1>7. PICK o, s :
        /\ s \in Seq(Runs) /\ Turns(k, command, o, s)
        /\ command = "refill" => o = op[k] /\ s = read[k]
        /\ command # "refill" => read[k] = << >>
        /\ command # "idle" => o.run \in Runs
  BY <1>6
<1>8. ListsOk'
  <2>1. threadActive' \in [Threads -> Runs \cup {None}]
    BY <1>1 DEF ListsOk
  <2>2. command \in {"look", "drop", "refill"} => \A r \in ToSet(s) : ThreadOf[r] = ThreadOf[o.run]
    BY <1>1, <1>2, <1>7 DEF ListsOk, Run, Thread
  <2>3. QED BY <1>1, <1>3, <1>5, <1>7, <2>1, <2>2, TurnKeepsLists
<1>9. pc'[k] = command /\ read'[k] = s
  BY <1>1, <1>7, TurnFacts
<1>10. Carries(k) = {} /\ \A r \in Runs : r \in ToSet(read[k]) => r \in Carries(k)'
  BY <1>1, <1>4, <1>7, <1>9 DEF Carries
<1>11. \A r \in Runs :
        r \in ToSet(threadRuns[ThreadOf[r]]) \/ r \in Carries(k) =>
          \/ r \in ToSet(threadRuns'[ThreadOf[r]])
          \/ r \in gone'
          \/ r \in Carries(k)'
  <2>1. \A r \in Runs : ThreadOf[r] \in Threads
    BY RedisConstants
  <2>2. QED BY <1>1, <1>3, <1>10, <2>1
<1>12. Accounted \subseteq Accounted'
  BY <1>1, <1>7, <1>11, TurnAccounts
<1>13. QED BY <1>8, <1>12 DEF HistoryKept

(* RPUSH of what was kept: what is left out is counted as lost. *)
LEMMA RefillKeeps ==
  ASSUME HistoryInv, NEW k \in Clients, Refill(k), UNCHANGED lossVars
  PROVE  HistoryKept
<1>1. /\ PutInv /\ ListsOk /\ pc[k] = "refill" /\ read[k] # << >>
      /\ UNCHANGED <<threadActive, gone, op>>
  BY DEF HistoryInv, Refill, At, lossVars
<1>2. /\ Run(k) \in Runs /\ Thread(k) \in Threads
      /\ read[k] \in Seq(Runs)
      /\ \A r \in ToSet(read[k]) : ThreadOf[r] = Thread(k)
  BY <1>1, RedisConstants DEF ListsOk, Thread
<1>3. threadActive' \in [Threads -> Runs \cup {None}]
  BY <1>1 DEF ListsOk
<1> DEFINE r == Head(read[k])
           s == Tail(read[k])
<1>4. /\ SetHistory(Thread(k), Append(threadRuns[Thread(k)], r))
      /\ read' = [read EXCEPT ![k] = s]
      /\ IF s = << >> THEN Goto(k, "expire") ELSE UNCHANGED pc
  BY <1>1 DEF Refill, ListsOk
<1>5. r \in Runs /\ s \in Seq(Runs) /\ ToSet(read[k]) = ToSet(s) \cup {r}
  BY <1>1, <1>2, HeadTailFacts
<1>6. ThreadOf[r] = Thread(k)
  BY <1>2, <1>5
<1> HIDE DEF r, s
<1>7. /\ threadRuns' \in [Threads -> Seq(Runs)]
      /\ \A t \in Threads : \A q \in ToSet(threadRuns'[t]) : ThreadOf[q] = t
      /\ r \in ToSet(threadRuns'[ThreadOf[r]])
      /\ \A q \in Runs : q \in ToSet(threadRuns[ThreadOf[q]]) =>
                           q \in ToSet(threadRuns'[ThreadOf[q]])
  BY <1>1, <1>4, <1>5, <1>6, PushFacts
<1>8. PICK command \in {"refill", "expire"} :
        /\ Turns(k, command, op[k], s)
        /\ command = "expire" => s = << >>
  BY <1>1, <1>4 DEF Turns, Goto, PutInv, PutTypeOK
<1>9. op[k].run \in Runs /\ \A q \in ToSet(s) : ThreadOf[q] = ThreadOf[op[k].run]
  BY <1>2, <1>5 DEF Run, Thread
<1>10. ListsOk'
  BY <1>1, <1>3, <1>5, <1>7, <1>8, <1>9, TurnKeepsLists
<1>11. pc'[k] = command /\ read'[k] = s
  BY <1>1, <1>8, TurnFacts
<1>12. ToSet(<< >>) = {}
  BY DEF ToSet
<1>13. /\ \A q \in Carries(k) : q = r \/ q \in ToSet(s)
      /\ \A q \in Runs : q \in ToSet(s) => q \in Carries(k)'
  BY <1>1, <1>5, <1>8, <1>11, <1>12 DEF Carries
<1>14. \A q \in Runs :
         q \in ToSet(threadRuns[ThreadOf[q]]) \/ q \in Carries(k) =>
           \/ q \in ToSet(threadRuns'[ThreadOf[q]])
           \/ q \in gone'
           \/ q \in Carries(k)'
  BY <1>7, <1>13
<1>15. Accounted \subseteq Accounted'
  BY <1>1, <1>8, <1>14, TurnAccounts
<1>16. QED BY <1>10, <1>15 DEF HistoryKept

(* What a task was to record dies with it. *)
LEMMA CrashKeepsHistory ==
  ASSUME HistoryInv, NEW k \in Clients, Crash(k)
  PROVE  HistoryKept
<1>1. /\ PutInv /\ ListsOk /\ Return(k)
      /\ UNCHANGED <<threadRuns, threadActive>>
      /\ gone' = gone \cup ToRecordBy(k) \cup ToLastBy(k)
  BY DEF HistoryInv, Crash, storeVars
<1>2. Turns(k, "idle", NoOp, << >>) /\ << >> \in Seq(Runs)
  BY <1>1, ReturnTurns
<1>3. ListsOk'
  <2>1. /\ threadRuns' \in [Threads -> Seq(Runs)]
        /\ threadActive' \in [Threads -> Runs \cup {None}]
        /\ \A t \in Threads : \A r \in ToSet(threadRuns'[t]) : ThreadOf[r] = t
    BY <1>1 DEF ListsOk
  <2>2. QED BY <1>1, <1>2, <2>1, TurnKeepsLists
<1>4. Carries(k) \subseteq ToRecordBy(k)
  BY DEF Carries, ToRecordBy
<1>5. \A q \in Runs :
        q \in ToSet(threadRuns[ThreadOf[q]]) \/ q \in Carries(k) =>
          \/ q \in ToSet(threadRuns'[ThreadOf[q]])
          \/ q \in gone'
          \/ q \in Carries(k)'
  BY <1>1, <1>4
<1>6. QED BY <1>1, <1>2, <1>3, <1>5, TurnAccounts DEF HistoryKept

(* Steps that touch neither the histories nor what is read of them. *)
LEMMA QuietKeepsHistory ==
  ASSUME HistoryInv, UNCHANGED <<threadRuns, pc, op, read, gone>>,
         threadActive' \in [Threads -> Runs \cup {None}] \/ threadActive' = threadActive
  PROVE  HistoryKept
<1>1. ListsOk'
  BY DEF HistoryInv, ListsOk, Run, Thread
<1>2. \A k \in Clients : Carries(k)' = Carries(k)
  BY DEF Carries, Run
<1>3. Accounted \subseteq Accounted'
  BY <1>2 DEF Accounted
<1>4. QED BY <1>1, <1>3 DEF HistoryKept

(* When a history reaches its TTL, its stored runs are those of puts that go on,   *)
(* and of those that saw it before.                                         *)
LEMMA ExpireHistoryKeeps ==
  ASSUME HistoryInv, NEW t \in Threads, ExpireHistory(t)
  PROVE  HistoryKept
<1>1. /\ PutInv /\ ListsOk /\ TtlOk
      /\ UNCHANGED <<threadActive, pc, op, read>>
      /\ threadRuns' = [threadRuns EXCEPT ![t] = << >>]
      /\ gone' = gone \cup UNION {ToLastBy(k) : k \in Clients}
  BY DEF HistoryInv, ExpireHistory, SetHistory, clientVars
<1>2. << >> \in Seq(Runs) /\ ToSet(<< >>) = {}
  BY EmptySeq DEF ToSet
<1>3. /\ threadRuns' \in [Threads -> Seq(Runs)]
      /\ \A u \in Threads : threadRuns'[u] = IF u = t THEN << >> ELSE threadRuns[u]
  BY <1>1, <1>2 DEF ListsOk
<1>4. ListsOk'
  <2>1. \A u \in Threads : \A r \in ToSet(threadRuns'[u]) : ThreadOf[r] = u
    BY <1>1, <1>2, <1>3 DEF ListsOk
  <2>2. QED BY <1>1, <1>3, <2>1 DEF ListsOk, Run, Thread
<1>5. \A k \in Clients : Carries(k)' = Carries(k)
  BY <1>1 DEF Carries, Run
<1>6. ASSUME NEW r \in Accounted, Stored(r) PROVE r \in Accounted'
  <2>1. r \in Runs /\ ThreadOf[r] \in Threads
    BY RedisConstants DEF Accounted
  <2>2. CASE r \in gone \/ \E k \in Clients : r \in Carries(k)
    BY <1>1, <1>5, <2>1, <2>2 DEF Accounted
  <2>3. CASE r \in ToSet(threadRuns[ThreadOf[r]]) /\ ThreadOf[r] # t
    BY <1>3, <2>1, <2>3 DEF Accounted
  <2>4. CASE ThreadOf[r] = t
    <3>1. r \in outlives
      BY <1>6, <2>1, <2>4 DEF ExpireHistory, RunsOf
    <3>2. CASE r \in gone
      BY <2>2, <3>2
    <3>3. CASE \E k \in Clients : Renews(k) /\ Run(k) = r
      <4>1. PICK k \in Clients : Renews(k) /\ Run(k) = r
        BY <3>3
      <4>2. CASE pc[k] \in {"history", "push"}
        <5>1. r \in Carries(k)
          BY <2>1, <4>1, <4>2 DEF Carries
        <5>2. QED BY <2>2, <5>1
      <4>3. CASE pc[k] = "expire"
        <5>1. r \in ToLastBy(k)
          BY <4>1, <4>3 DEF Renews, ToLastBy, At
        <5>2. QED BY <1>1, <2>1, <5>1 DEF Accounted
      <4>4. QED BY <4>1, <4>2, <4>3 DEF Renews
    <3>4. QED BY <1>1, <1>6, <3>1, <3>2, <3>3 DEF TtlOk
  <2>5. QED BY <2>1, <2>2, <2>3, <2>4 DEF Accounted
<1>7. QED BY <1>4, <1>6 DEF HistoryKept

(* The snapshots that outlive a history, at a step of one client that leaves the   *)
(* TTLs as they are.                                                        *)
LEMMA TtlKept ==
  ASSUME HistoryInv, NEW k \in Clients, UNCHANGED ttlVars, gone \subseteq gone',
         \A j \in Clients \ {k} : pc'[j] = pc[j] /\ op'[j] = op[j],
         \A t \in Threads : threadRuns[t] # << >> => threadRuns'[t] # << >>,
         \A r \in Runs : Stored(r)' => Stored(r),
         pc'[k] \in Putting => op'[k].kind = "put",
         Renews(k) => Run(k) \in gone' \/ (Renews(k)' /\ Run(k)' = Run(k))
  PROVE  TtlOk'
<1>1. TtlOk /\ timed' = timed /\ outlives' = outlives
  BY DEF HistoryInv, ttlVars
<1>2. \A j \in Clients \ {k} : Renews(j)' = Renews(j) /\ Run(j)' = Run(j)
  BY DEF Renews, Run
<1>3. ASSUME NEW r \in outlives, Stored(r)'
      PROVE  r \in gone' \/ \E j \in Clients : Renews(j)' /\ Run(j)' = r
  <2>1. Stored(r)
    BY <1>1, <1>3 DEF TtlOk
  <2>2. CASE r \in gone
    BY <2>2
  <2>3. CASE \E j \in Clients : Renews(j) /\ Run(j) = r
    <3>1. PICK j \in Clients : Renews(j) /\ Run(j) = r
      BY <2>3
    <3>2. QED BY <1>2, <3>1
  <2>4. QED BY <1>1, <2>1, <2>2, <2>3 DEF TtlOk
<1>4. QED BY <1>1, <1>3 DEF TtlOk

(* A client that is in no put, or in one that has recorded nothing yet. *)
LEMMA PlainKeepsTtl ==
  ASSUME HistoryInv, NEW k \in Clients, UNCHANGED ttlVars, gone \subseteq gone',
         \/ StartPut(k) \/ Watch(k) \/ GetForPut(k)
         \/ \E r \in Runs : StartSetActive(k, r) \/ StartList(k, r) \/ StartDelete(k, r)
         \/ \E r \in Runs, kind \in Kinds : StartActive(k, kind, r)
         \/ Recording(k) \/ Push(k) \/ Activate(k)
         \/ GetActive(k) \/ GetActiveRun(k) \/ DelActive(k)
         \/ ReadHistory(k) \/ Look(k) \/ Compare(k) \/ Refill(k)
  PROVE  TtlOk'
<1>1. PutInv /\ ListsOk /\ TtlOk /\ UNCHANGED state
  BY DEF HistoryInv, StartPut, Watch, GetForPut, StartSetActive, StartList, StartDelete,
         StartActive, Recording, Push, Activate, GetActive, GetActiveRun, DelActive,
         ReadHistory, Look, Compare, Refill, storeVars
<1>2. \A r \in Runs : Stored(r)' => Stored(r)
  BY <1>1 DEF Stored
<1>3. /\ \A j \in Clients \ {k} : pc'[j] = pc[j] /\ op'[j] = op[j]
      /\ pc'[k] \in Putting => op'[k].kind = "put"
  <2>1. CASE Indexing(k)
    <3>1. Moves(k)
      BY <1>1, <2>1, IndexingMoves
    <3>2. QED BY <1>1, <3>1 DEF Moves, PutInv, PutTypeOK
  <2>2. CASE StartPut(k)
    BY <1>1, <2>2 DEF StartPut, Begin, Goto, PutInv, PutTypeOK
  <2>3. CASE Watch(k)
    BY <1>1, <2>3 DEF Watch, Goto, At, PutInv, PutTypeOK, TtlOk, Putting
  <2>4. CASE GetForPut(k)
    BY <1>1, <2>4, ReturnFacts DEF GetForPut, Goto, At, PutInv, PutTypeOK, TtlOk, Putting
  <2>5. QED BY <2>1, <2>2, <2>3, <2>4 DEF Indexing
<1>4. \A t \in Threads : threadRuns[t] # << >> => threadRuns'[t] # << >>
  <2>1. CASE UNCHANGED threadRuns
    BY <2>1
  <2>2. ASSUME NEW r, r \in Runs, Thread(k) \in Threads,
               SetHistory(Thread(k), Append(threadRuns[Thread(k)], r))
        PROVE  \A t \in Threads : threadRuns[t] # << >> => threadRuns'[t] # << >>
    <3>1. threadRuns[Thread(k)] \in Seq(Runs)
      BY <1>1, <2>2 DEF ListsOk
    <3> DEFINE h == Append(threadRuns[Thread(k)], r)
    <3>2. h # << >>
      <4>1. Len(h) = Len(threadRuns[Thread(k)]) + 1 /\ Len(threadRuns[Thread(k)]) \in Nat
        BY <2>2, <3>1, AppendProperties, LenProperties
      <4>2. Len(<< >>) = 0
        BY EmptySeq
      <4>3. QED BY <4>1, <4>2
    <3> HIDE DEF h
    <3>3. threadRuns' = [threadRuns EXCEPT ![Thread(k)] = h]
      BY <2>2 DEF SetHistory, h
    <3>4. QED BY <1>1, <2>2, <3>2, <3>3 DEF ListsOk
  <2>3. CASE Push(k) \/ Refill(k)
    <3>1. Run(k) \in Runs /\ Thread(k) \in Threads /\ read[k] \in Seq(Runs)
      BY <1>1, <2>3, RedisConstants DEF Push, Refill, At, ListsOk, Thread
    <3>2. CASE Push(k)
      BY <2>2, <3>1, <3>2 DEF Push
    <3>3. CASE Refill(k)
      <4>1. Head(read[k]) \in Runs
        BY <3>1, <3>3, HeadTailFacts DEF Refill
      <4>2. QED BY <2>2, <3>1, <3>3, <4>1 DEF Refill
    <3>4. QED BY <2>3, <3>2, <3>3
  <2>4. QED BY <2>1, <2>3
          DEF StartPut, Watch, GetForPut, StartSetActive, StartList, StartDelete, StartActive,
              Recording, Activate, GetActive, GetActiveRun, DelActive, ReadHistory, Look,
              Compare, storeVars
<1>5. Renews(k) => Renews(k)' /\ Run(k)' = Run(k)
  <2>1. SUFFICES ASSUME Renews(k) PROVE Renews(k)' /\ Run(k)' = Run(k)
    OBVIOUS
  <2>2. Recording(k) \/ Push(k)
    BY <2>1 DEF Renews, StartPut, Watch, GetForPut, StartSetActive, StartList, StartDelete,
         StartActive, Activate, GetActive, GetActiveRun, DelActive, Begin,
         ReadHistory, Look, Compare, Refill, At
  <2>3. op' = op /\ pc'[k] \in {"push", "expire"}
    BY <1>1, <2>2 DEF Recording, Push, Goto, PutInv, PutTypeOK
  <2>4. QED BY <2>1, <2>3 DEF Renews, Run
<1>6. QED BY <1>2, <1>3, <1>4, <1>5, TtlKept

(* The transaction of a put makes a snapshot that may outlive the history. *)
LEMMA ExecKeepsTtl ==
  ASSUME HistoryInv, NEW k \in Clients, Exec(k)
  PROVE  TtlOk'
<1>1. PutInv /\ ListsOk /\ TtlOk /\ pc[k] = "exec" /\ op[k].kind = "put"
      /\ UNCHANGED <<threadRuns, timed, gone>>
  BY DEF HistoryInv, Exec, At, TtlOk, Putting, lossVars
<1>2. CASE UNCHANGED <<state, outlives>>
  <2>1. /\ \A j \in Clients \ {k} : pc'[j] = pc[j] /\ op'[j] = op[j]
        /\ pc'[k] \in Putting => op'[k].kind = "put"
        /\ ~Renews(k)
    BY <1>1, ReturnFacts DEF Exec, Goto, PutInv, PutTypeOK, Renews
  <2>2. \A r \in Runs : Stored(r)' => Stored(r)
    BY <1>2 DEF Stored
  <2>3. QED BY <1>1, <1>2, <2>1, <2>2, TtlKept DEF ttlVars
<1>3. CASE /\ Goto(k, "history") /\ UNCHANGED op
           /\ state' = [state EXCEPT ![Run(k)] = ExecWritten(k)]
           /\ outlives' = outlives \cup (IF Thread(k) \in timed THEN {Run(k)} ELSE {})
  <2>1. /\ \A j \in Clients : /\ Run(j)' = Run(j) /\ op'[j] = op[j]
                              /\ pc'[j] = IF j = k THEN "history" ELSE pc[j]
        /\ Run(k) \in Runs
    BY <1>1, <1>3 DEF Goto, Run, PutInv, PutTypeOK, ListsOk
  <2>2. Renews(k)' /\ \A j \in Clients \ {k} : Renews(j)' = Renews(j)
    BY <1>1, <2>1 DEF Renews
  <2>3. \A j \in Clients : pc'[j] \in Putting => op'[j].kind = "put"
    BY <1>1, <2>1 DEF TtlOk, Putting
  <2>4. \A r \in outlives' : r = Run(k) \/ r \in outlives
    BY <1>3
  <2>5. /\ outlives' \subseteq Runs
        /\ \A r \in outlives' : ThreadOf[r] \in timed'
    BY <1>1, <1>3, <2>1 DEF TtlOk, Thread
  <2>6. ASSUME NEW r \in outlives', Stored(r)'
        PROVE  r \in gone' \/ \E j \in Clients : Renews(j)' /\ Run(j)' = r
    <3>1. CASE r = Run(k)
      BY <2>1, <2>2, <3>1
    <3>2. CASE r # Run(k)
      <4>1. r \in outlives /\ Stored(r)
        BY <1>1, <1>3, <2>4, <2>5, <2>6, <3>2 DEF Stored, PutInv, PutTypeOK
      <4>2. r \in gone \/ \E j \in Clients : Renews(j) /\ Run(j) = r
        BY <1>1, <4>1 DEF TtlOk
      <4>3. QED BY <1>1, <2>1, <2>2, <3>2, <4>2
    <3>3. QED BY <3>1, <3>2
  <2>7. QED BY <1>1, <2>3, <2>5, <2>6 DEF TtlOk
<1>4. QED BY <1>2, <1>3 DEF Exec

(* Renewing the TTL of a history: no snapshot of its thread outlives it now. *)
LEMMA SetTTLKeepsTtl ==
  ASSUME HistoryInv, NEW k \in Clients, SetTTL(k)
  PROVE  TtlOk'
<1>1. PutInv /\ ListsOk /\ TtlOk /\ pc[k] = "expire"
      /\ UNCHANGED <<state, threadRuns, gone>>
  BY DEF HistoryInv, SetTTL, At, storeVars, lossVars
<1>2. Run(k) \in Runs /\ Thread(k) \in Threads /\ Thread(k) = ThreadOf[Run(k)]
  BY <1>1, RedisConstants DEF ListsOk, Thread
<1>3. /\ \A j \in Clients \ {k} : pc'[j] = pc[j] /\ op'[j] = op[j]
      /\ pc'[k] \notin Putting
  <2>1. Indexing(k)
    BY DEF Indexing
  <2>2. Moves(k)
    BY <1>1, <2>1, IndexingMoves
  <2>3. QED BY <1>1, <2>2 DEF Moves, PutInv, PutTypeOK
<1>4. /\ \A j \in Clients \ {k} : Renews(j)' = Renews(j) /\ Run(j)' = Run(j)
      /\ \A j \in Clients : pc'[j] \in Putting => op'[j].kind = "put"
  BY <1>1, <1>3 DEF Renews, Run, TtlOk
<1>5. /\ timed' \subseteq Threads /\ outlives' \subseteq outlives
      /\ timed' # {} => CanExpire
      /\ \A t \in timed' : threadRuns'[t] # << >>
      /\ timed \subseteq timed'
      /\ Run(k) \notin outlives'
  <2>1. CASE CanExpire /\ threadRuns[Thread(k)] # << >>
    BY <1>1, <1>2, <2>1 DEF SetTTL, TtlOk, RunsOf
  <2>2. CASE ~(CanExpire /\ threadRuns[Thread(k)] # << >>)
    <3>1. UNCHANGED <<timed, outlives>>
      BY <2>2 DEF SetTTL, ttlVars
    <3>2. Thread(k) \notin timed
      BY <1>1, <2>2 DEF TtlOk
    <3>3. QED BY <1>1, <1>2, <3>1, <3>2 DEF TtlOk
  <2>3. QED BY <2>1, <2>2
<1>6. ASSUME NEW r \in outlives', Stored(r)'
      PROVE  r \in gone' \/ \E j \in Clients : Renews(j)' /\ Run(j)' = r
  <2>1. r \in outlives /\ Stored(r) /\ r # Run(k)
    BY <1>1, <1>5, <1>6 DEF Stored
  <2>2. r \in gone \/ \E j \in Clients : Renews(j) /\ Run(j) = r
    BY <1>1, <2>1 DEF TtlOk
  <2>3. QED BY <1>1, <1>4, <2>1, <2>2
<1>7. outlives' \subseteq Runs /\ \A r \in outlives' : ThreadOf[r] \in timed'
  BY <1>1, <1>5 DEF TtlOk
<1>8. QED BY <1>4, <1>5, <1>6, <1>7 DEF TtlOk

(* A history that goes takes its TTL along. *)
LEMMA GoneHistoryKeepsTtl ==
  ASSUME HistoryInv, NEW t \in Threads, SetHistory(t, << >>), timed' = timed \ {t},
         outlives' = outlives \ RunsOf(t), gone \subseteq gone', UNCHANGED state,
         \A j \in Clients :
           \/ pc'[j] = pc[j] /\ op'[j] = op[j]
           \/ {pc[j], pc'[j]} \cap (Putting \cup {"history", "push", "expire"}) = {}
  PROVE  TtlOk'
<1>1. TtlOk /\ \A u \in Threads \ {t} : threadRuns'[u] = threadRuns[u]
  BY DEF HistoryInv, ListsOk, SetHistory
<1>2. \A j \in Clients : /\ Renews(j) => Renews(j)' /\ Run(j)' = Run(j)
                         /\ pc'[j] \in Putting => op'[j].kind = "put"
  BY <1>1 DEF Renews, Run, TtlOk
<1>3. /\ timed' \subseteq Threads /\ outlives' \subseteq Runs
      /\ timed' # {} => CanExpire
      /\ \A u \in timed' : threadRuns'[u] # << >>
      /\ \A r \in outlives' : ThreadOf[r] \in timed'
  BY <1>1 DEF TtlOk, RunsOf
<1>4. ASSUME NEW r \in outlives', Stored(r)'
      PROVE  r \in gone' \/ \E j \in Clients : Renews(j)' /\ Run(j)' = r
  <2>1. r \in gone \/ \E j \in Clients : Renews(j) /\ Run(j) = r
    BY <1>1, <1>4 DEF TtlOk, Stored
  <2>2. QED BY <1>2, <2>1
<1>5. QED BY <1>2, <1>3, <1>4 DEF TtlOk

(* A deletion drops the history between two commands of its own. *)
LEMMA DropKeepsTtl ==
  ASSUME HistoryInv, NEW k \in Clients, Drop(k)
  PROVE  TtlOk'
<1>1. PutInv /\ ListsOk /\ pc[k] = "drop" /\ UNCHANGED state
      /\ SetHistory(Thread(k), << >>) /\ timed' = timed \ {Thread(k)}
      /\ outlives' = outlives \ RunsOf(Thread(k)) /\ gone \subseteq gone'
  BY DEF HistoryInv, Drop, At
<1>2. Thread(k) \in Threads
  BY <1>1, RedisConstants DEF ListsOk, Thread
<1>3. /\ pc'[k] \in {"refill", "idle", "getActive"}
      /\ \A j \in Clients \ {k} : pc'[j] = pc[j] /\ op'[j] = op[j]
  BY <1>1, ReturnFacts DEF Drop, Goto, PutInv, PutTypeOK
<1>4. \A j \in Clients :
        \/ pc'[j] = pc[j] /\ op'[j] = op[j]
        \/ {pc[j], pc'[j]} \cap (Putting \cup {"history", "push", "expire"}) = {}
  BY <1>1, <1>3 DEF Putting
<1>5. QED BY <1>1, <1>2, <1>4, GoneHistoryKeepsTtl

(* A put that dies before it renewed the history is one of those that lose it. *)
LEMMA CrashKeepsTtl ==
  ASSUME HistoryInv, NEW k \in Clients, Crash(k)
  PROVE  TtlOk'
<1>1. PutInv /\ Return(k) /\ UNCHANGED <<state, threadRuns, ttlVars>>
      /\ gone' = gone \cup ToRecordBy(k) \cup ToLastBy(k)
  BY DEF HistoryInv, Crash, storeVars
<1>2. /\ pc'[k] = "idle" /\ \A j \in Clients \ {k} : pc'[j] = pc[j] /\ op'[j] = op[j]
  BY <1>1, ReturnFacts DEF PutInv, PutTypeOK
<1>3. Renews(k) => Run(k) \in gone'
  BY <1>1 DEF Renews, ToRecordBy, ToLastBy, At
<1>4. \A r \in Runs : Stored(r)' => Stored(r)
  BY <1>1 DEF Stored
<1>5. pc'[k] \notin Putting
  BY <1>2 DEF Putting
<1>6. QED BY <1>1, <1>2, <1>3, <1>4, <1>5, TtlKept

(* A snapshot that is deleted or reaches its TTL outlives nothing. *)
LEMMA DelRunKeepsTtl ==
  ASSUME HistoryInv, NEW k \in Clients, DelRun(k), UNCHANGED <<ttlVars, gone>>
  PROVE  TtlOk'
<1>1. PutInv /\ UNCHANGED threadRuns
  BY DEF HistoryInv, DelRun
<1>2. PICK command \in {"range", "idle"}, o \in [kind : Kinds, run : Runs \cup {None}] :
        pc' = [pc EXCEPT ![k] = command] /\ op' = [op EXCEPT ![k] = o]
  BY <1>1, DelRunFacts
<1>3. /\ \A j \in Clients \ {k} : pc'[j] = pc[j] /\ op'[j] = op[j]
      /\ pc'[k] \notin Putting /\ ~Renews(k)
  BY <1>1, <1>2, DelRunFacts DEF PutInv, PutTypeOK, Putting, Renews
<1>4. \A r \in Runs : Stored(r)' => Stored(r)
  BY <1>1, DelRunFacts DEF Stored, PutInv, PutTypeOK
<1>5. QED BY <1>1, <1>3, <1>4, TtlKept

(* A run that is stored from now on is about to be recorded. *)
LEMMA StoredIsAccounted ==
  ASSUME HistoryInv, [Next]_vars, HistoryKept, NEW r \in Runs, Stored(r)'
  PROVE  r \in Accounted'
<1>1. CASE state'[r] = state[r]
  BY <1>1 DEF HistoryInv, HistoryKept, Stored
<1>2. CASE state'[r] # state[r]
  <2>1. PICK k \in Clients : /\ At(k, "exec") /\ ~dirty[k] /\ Run(k) = r
                             /\ pc' = [pc EXCEPT ![k] = "history"] /\ op' = op
    BY <1>2, OnlyExecStores DEF HistoryInv
  <2>2. pc'[k] = "history" /\ Run(k)' = r
    BY <2>1 DEF HistoryInv, PutInv, PutTypeOK, Run
  <2>3. r \in Carries(k)'
    BY <2>2 DEF Carries
  <2>4. QED BY <2>3 DEF Accounted
<1>3. QED BY <1>1, <1>2

(* Every step keeps what the TTLs promise. *)
LEMMA TtlStep ==
  ASSUME HistoryInv, [Next]_vars
  PROVE  TtlOk'
<1>1. PutInv /\ TtlOk
  BY DEF HistoryInv
<1>2. CASE /\ UNCHANGED <<threadRuns, pc, op, ttlVars, gone>>
           /\ \A r \in Runs : Stored(r)' => Stored(r)
  <2>1. \A k \in Clients : Renews(k)' = Renews(k) /\ Run(k)' = Run(k)
    BY <1>2 DEF Renews, Run
  <2>2. QED BY <1>1, <1>2, <2>1 DEF TtlOk, ttlVars
<1>3. CASE UNCHANGED vars \/ \E k \in Clients : Take(k) /\ UNCHANGED <<looked, ttlVars, lossVars>>
  BY <1>2, <1>3 DEF vars, storeVars, clientVars, lossVars, Take, Construct, Get, Hold, Stored
<1>4. CASE \E r \in Runs : Expire(r)
  BY <1>1, <1>2, <1>4 DEF Expire, lossVars, Stored, PutInv, PutTypeOK
<1>5. CASE \E t \in Threads : ExpireActive(t)
  BY <1>2, <1>5 DEF ExpireActive, clientVars, lossVars, Stored
<1>6. CASE \E t \in Threads : ExpireHistory(t)
  BY <1>6, GoneHistoryKeepsTtl DEF ExpireHistory, clientVars
<1>7. CASE \E k \in Clients : Exec(k) \/ SetTTL(k) \/ Drop(k) \/ Crash(k)
  BY <1>7, ExecKeepsTtl, SetTTLKeepsTtl, DropKeepsTtl, CrashKeepsTtl
<1>8. CASE \E k \in Clients : Look(k) \/ Compare(k)
  BY <1>8, PlainKeepsTtl DEF Look, Compare, lossVars
<1>9. CASE \E k \in Clients : (Start(k) \/ Send(k)) /\ UNCHANGED <<ttlVars, lossVars>>
  BY <1>9, PlainKeepsTtl, DelRunKeepsTtl DEF Start, Send, lossVars
<1>10. QED BY <1>3, <1>4, <1>5, <1>6, <1>7, <1>8, <1>9 DEF Next

(* Every step keeps the invariant of the histories. *)
LEMMA HistoryStep == HistoryInv /\ [Next]_vars => HistoryInv'
<1> SUFFICES ASSUME HistoryInv, [Next]_vars PROVE HistoryInv'
  OBVIOUS
<1>1. PutInv' /\ TtlOk'
  BY PutInvStep, TtlStep DEF HistoryInv
<1>2. HistoryKept
  <2>1. CASE UNCHANGED vars \/ \E r \in Runs : Expire(r)
    BY <2>1, QuietKeepsHistory DEF vars, storeVars, clientVars, lossVars, Expire
  <2>2. CASE \E k \in Clients : Take(k) /\ UNCHANGED lossVars
    BY <2>2, QuietKeepsHistory DEF Take, Construct, Get, Hold, storeVars, lossVars
  <2>3. CASE \E k \in Clients : Exec(k) \/ SetTTL(k)
    BY <2>3, OthersKeepHistory DEF Exec, SetTTL
  <2>4. CASE \E k \in Clients : Start(k) /\ UNCHANGED lossVars
    BY <2>4, StartKeepsHistory
  <2>5. CASE \E k \in Clients : Send(k) /\ UNCHANGED lossVars
    BY <2>5, OthersKeepHistory, ReadHistoryKeeps, RecordingKeeps, PushKeeps, RefillKeeps
       DEF Send
  <2>6. CASE \E k \in Clients : Drop(k) \/ Crash(k) \/ Compare(k)
    BY <2>6, DropKeeps, CrashKeepsHistory, CompareKeeps
  <2>7. CASE \E k \in Clients : Look(k)
    BY <2>7, QuietKeepsHistory DEF Look, storeVars, clientVars, lossVars
  <2>8. CASE \E t \in Threads : ExpireHistory(t)
    BY <2>8, ExpireHistoryKeeps
  <2>9. CASE \E t \in Threads : ExpireActive(t)
    <3>1. /\ UNCHANGED <<threadRuns, pc, op, read, gone>>
          /\ \E t \in Threads : threadActive' = [threadActive EXCEPT ![t] = None]
      BY <2>9 DEF ExpireActive, SetActive, clientVars, lossVars
    <3>2. threadActive' \in [Threads -> Runs \cup {None}]
      BY <3>1 DEF HistoryInv, ListsOk
    <3>3. QED BY <3>1, <3>2, QuietKeepsHistory
  <2>10. QED BY <2>1, <2>2, <2>3, <2>4, <2>5, <2>6, <2>7, <2>8, <2>9 DEF Next
<1>3. \A r \in Runs : Stored(r)' => r \in Accounted'
  BY <1>2, StoredIsAccounted
<1>4. QED BY <1>1, <1>2, <1>3 DEF HistoryInv, HistoryKept

(* It holds of the empty store. *)
LEMMA HistoryInit == Init => HistoryInv
<1> SUFFICES ASSUME Init PROVE HistoryInv
  OBVIOUS
<1>1. PutInv
  BY PutInvInit
<1>2. ListsOk
  <2>1. << >> \in Seq(Runs) /\ ToSet(<< >>) = {}
    BY EmptySeq DEF ToSet
  <2>2. QED BY <2>1 DEF Init, StoreInit, ListsOk
<1>3. \A r \in Runs : ~Stored(r)
  BY DEF Init, StoreInit, Stored
<1>4. TtlOk
  BY DEF Init, TtlOk, Putting
<1>5. QED BY <1>1, <1>2, <1>3, <1>4 DEF HistoryInv

(* A stored run is in the history of its thread or on its way there, unless a     *)
(* listing or deletion rewrote the history without having seen it, the history     *)
(* reached its TTL before the EXPIRE of a put of the run, or the task that was to  *)
(* record it died: no other interleaving of single commands loses one, whatever    *)
(* snapshots, mappings and histories expire (RedisRunStore._record_thread_run,     *)
(* _rewrite_list).                                                          *)
THEOREM HistoriesAreRecorded == Spec => []HistoryLostOnlyByRewriteTtlOrCrash
<1>1. HistoryInv => HistoryLostOnlyByRewriteTtlOrCrash
  <2>1. \A k \in Clients : Carries(k) \subseteq ToRecordBy(k)
    BY DEF Carries, ToRecordBy
  <2>2. QED BY <2>1 DEF HistoryInv, Accounted, HistoryLostOnlyByRewriteTtlOrCrash
<1>2. QED BY <1>1, HistoryInit, HistoryStep, PTL DEF Spec

-----------------------------------------------------------------------------
(* Which version a put replaces. *)

(* Every checkpoint is at the place its id says, and what is stored is the last   *)
(* one of its run.                                                          *)
VersionsOk ==
  /\ \A i \in DOMAIN checkpoints : checkpoints[i].ckpt = i /\ checkpoints[i].epoch > 0
  /\ \A r \in Runs : Stored(r) =>
       /\ state[r].ckpt \in DOMAIN checkpoints
       /\ checkpoints[state[r].ckpt] = state[r]
       /\ \A i \in DOMAIN checkpoints : checkpoints[i].run = r => i <= state[r].ckpt

(* The checkpoint that a client's object was read from. *)
Origin(k) == IF pc[k] \in Putting THEN mine[k].parent ELSE mine[k].ckpt

IsVersion(i, r, epoch) ==
  i \in DOMAIN checkpoints /\ checkpoints[i].run = r /\ checkpoints[i].epoch = epoch

Behind(r, epoch) ==
  \E i \in DOMAIN checkpoints : checkpoints[i].run = r /\ checkpoints[i].epoch > epoch

(* An object is new, or at the epoch of the version it was read from, or was       *)
(* refused; after its GET it names the version it is to replace.                *)
KnowsOrigin(k) ==
  \/ pc[k] = "exec"
  \/ mine[k].epoch = 0
  \/ IsVersion(Origin(k), mine[k].run, mine[k].epoch)
  \/ Behind(mine[k].run, mine[k].epoch)

Replaces(k) ==
  At(k, "exec") /\ ~dirty[k] /\ Stored(Run(k)) =>
    mine[k].parent = state[Run(k)].ckpt \/ StoredAnew(Run(k))

ParentsInv ==
  /\ PutInv
  /\ VersionsOk
  /\ \A k \in Clients \ raised : KnowsOrigin(k) /\ Replaces(k)

(* A step of one client that writes no snapshot. *)
LEMMA OneClientMoves ==
  ASSUME ParentsInv, PutInv', NEW k \in Clients, UNCHANGED <<state, checkpoints>>,
         \A j \in Clients \ {k} : /\ pc'[j] = pc[j] /\ op'[j] = op[j] /\ mine'[j] = mine[j]
                                  /\ dirty'[j] = dirty[j]
                                  /\ j \in raised' <=> j \in raised,
         k \in raised' \/ (KnowsOrigin(k)' /\ Replaces(k)')
  PROVE  ParentsInv'
<1>1. VersionsOk'
  BY DEF ParentsInv, VersionsOk, Stored
<1>2. ASSUME NEW j \in Clients \ raised', j # k PROVE KnowsOrigin(j)' /\ Replaces(j)'
  <2>1. KnowsOrigin(j) /\ Replaces(j)
    BY <1>2 DEF ParentsInv
  <2>2. Run(j)' = Run(j) /\ StoredAnew(Run(j))' = StoredAnew(Run(j))
    BY <1>2 DEF Run, StoredAnew
  <2>3. KnowsOrigin(j)'
    BY <1>2, <2>1 DEF KnowsOrigin, Origin, IsVersion, Behind
  <2>4. Replaces(j)'
    BY <1>2, <2>1, <2>2 DEF Replaces, At, Stored
  <2>5. QED BY <2>3, <2>4
<1>3. QED BY <1>1, <1>2 DEF ParentsInv

(* A command of a client that does not put. *)
LEMMA CommandKeepsParents ==
  ASSUME ParentsInv, PutInv', NEW k \in Clients, pc[k] \notin Putting,
         NEW command \in Commands \ Putting, NEW o,
         pc' = [pc EXCEPT ![k] = command], op' = [op EXCEPT ![k] = o],
         UNCHANGED <<state, checkpoints, mine, dirty, raised>>
  PROVE  ParentsInv'
<1>1. \A j \in Clients \ {k} : /\ pc'[j] = pc[j] /\ op'[j] = op[j] /\ mine'[j] = mine[j]
                               /\ dirty'[j] = dirty[j]
                               /\ j \in raised' <=> j \in raised
  BY DEF ParentsInv, PutInv, PutTypeOK
<1>2. pc'[k] = command
  BY DEF ParentsInv, PutInv, PutTypeOK
<1>3. ASSUME k \notin raised' PROVE KnowsOrigin(k)' /\ Replaces(k)'
  <2>1. KnowsOrigin(k) /\ pc[k] # "exec" /\ pc'[k] # "exec"
    BY <1>2, <1>3 DEF ParentsInv, Putting
  <2>2. QED BY <1>2, <2>1 DEF KnowsOrigin, Origin, IsVersion, Behind, Replaces, At
<1>4. QED BY <1>1, <1>3, OneClientMoves

(* A client that comes to hold another object, outside a put. *)
LEMMA ObjectKeepsParents ==
  ASSUME ParentsInv, PutInv', NEW k \in Clients, NEW s,
         mine' = [mine EXCEPT ![k] = s], pc'[k] = "idle",
         \A j \in Clients \ {k} : pc'[j] = pc[j] /\ op'[j] = op[j],
         UNCHANGED <<state, checkpoints, dirty>>, raised' = raised \ {k},
         s.epoch = 0 \/ IsVersion(s.ckpt, s.run, s.epoch)
  PROVE  ParentsInv'
<1>1. /\ \A j \in Clients \ {k} : mine'[j] = mine[j]
      /\ mine'[k] = s
  BY DEF ParentsInv, PutInv, PutTypeOK
<1>2. KnowsOrigin(k)' /\ Replaces(k)'
  BY <1>1 DEF KnowsOrigin, Origin, IsVersion, Replaces, At, Putting
<1>3. QED BY <1>1, <1>2, OneClientMoves

(* The object a client takes is a version of its run. *)
LEMMA TakeKeepsParents ==
  ASSUME ParentsInv, PutInv', NEW k \in Clients, Take(k)
  PROVE  ParentsInv'
<1>1. PICK s :
        /\ Hold(k, s)
        /\ s.epoch = 0 \/ IsVersion(s.ckpt, s.run, s.epoch)
  <2>1. ASSUME NEW r \in Runs, Get(k, r)
        PROVE  Hold(k, state[r]) /\ IsVersion(state[r].ckpt, state[r].run, state[r].epoch)
    BY <2>1 DEF Get, ParentsInv, VersionsOk, IsVersion
  <2>2. ASSUME NEW r \in Runs, Construct(k, r)
        PROVE  \E s : Hold(k, s) /\ s.epoch = 0
    <3> DEFINE s == [NoState EXCEPT !.run = r, !.thread = ThreadOf[r], !.status = "RUNNING"]
    <3>1. s.epoch = 0 /\ Hold(k, s)
      BY <2>2 DEF NoState, Construct
    <3>2. QED BY <3>1
  <2>3. QED BY <2>1, <2>2 DEF Take
<1>2. /\ mine' = [mine EXCEPT ![k] = s] /\ pc[k] = "idle" /\ raised' = raised \ {k}
      /\ UNCHANGED <<state, checkpoints, dirty, pc, op>>
  BY <1>1 DEF Hold, At, storeVars
<1>3. QED BY <1>1, <1>2, ObjectKeepsParents

(* A client that dies has nothing that could replace a version. *)
LEMMA CrashKeepsParents ==
  ASSUME ParentsInv, PutInv', NEW k \in Clients, Crash(k)
  PROVE  ParentsInv'
<1>1. /\ mine' = [mine EXCEPT ![k] = NoState] /\ Return(k) /\ raised' = raised \ {k}
      /\ UNCHANGED <<state, checkpoints, dirty>>
  BY DEF Crash, storeVars
<1>2. /\ pc'[k] = "idle"
      /\ \A j \in Clients \ {k} : pc'[j] = pc[j] /\ op'[j] = op[j]
  BY <1>1, ReturnFacts DEF ParentsInv, PutInv, PutTypeOK
<1>3. NoState.epoch = 0
  BY DEF NoState
<1>4. QED BY <1>1, <1>2, <1>3, ObjectKeepsParents

(* The object of a put names as its parent what it was read from. *)
LEMMA StartPutKeepsParents ==
  ASSUME ParentsInv, PutInv', NEW k \in Clients, StartPut(k), UNCHANGED raised
  PROVE  ParentsInv'
<1> DEFINE s == [mine[k] EXCEPT !.parent = mine[k].ckpt, !.ckpt = 0]
<1>1. /\ UNCHANGED <<state, checkpoints, dirty>> /\ pc[k] = "idle"
      /\ pc'[k] = "watch" /\ mine'[k] = s /\ mine[k] \in RunState
      /\ \A j \in Clients \ {k} : /\ pc'[j] = pc[j] /\ op'[j] = op[j] /\ mine'[j] = mine[j]
                                  /\ dirty'[j] = dirty[j]
                                  /\ j \in raised' <=> j \in raised
  BY DEF StartPut, Begin, Goto, At, storeVars, ParentsInv, PutInv, PutTypeOK
<1>2. s.parent = mine[k].ckpt /\ s.run = mine[k].run /\ s.epoch = mine[k].epoch
  BY <1>1 DEF RunState
<1> HIDE DEF s
<1>3. ASSUME k \notin raised' PROVE KnowsOrigin(k)' /\ Replaces(k)'
  <2>1. KnowsOrigin(k) /\ Origin(k) = mine[k].ckpt /\ Origin(k)' = s.parent
    BY <1>1, <1>3 DEF ParentsInv, Origin, Putting
  <2>2. QED BY <1>1, <1>2, <2>1 DEF KnowsOrigin, IsVersion, Behind, Replaces, At
<1>4. QED BY <1>1, <1>3, OneClientMoves

(* Watching the key claims nothing of what the put will replace. *)
LEMMA WatchKeepsParents ==
  ASSUME ParentsInv, PutInv', NEW k \in Clients, Watch(k), UNCHANGED raised
  PROVE  ParentsInv'
<1>1. /\ UNCHANGED <<state, checkpoints, mine>> /\ pc[k] = "watch" /\ pc'[k] = "get"
      /\ \A j \in Clients \ {k} : /\ pc'[j] = pc[j] /\ op'[j] = op[j] /\ mine'[j] = mine[j]
                                  /\ dirty'[j] = dirty[j]
                                  /\ j \in raised' <=> j \in raised
  BY DEF Watch, Goto, At, storeVars, ParentsInv, PutInv, PutTypeOK
<1>2. ASSUME k \notin raised' PROVE KnowsOrigin(k)' /\ Replaces(k)'
  <2>1. KnowsOrigin(k) /\ Origin(k)' = Origin(k)
    BY <1>1, <1>2 DEF ParentsInv, Origin, Putting
  <2>2. QED BY <1>1, <2>1 DEF KnowsOrigin, IsVersion, Behind, Replaces, At
<1>3. QED BY <1>1, <1>2, OneClientMoves

(* What put compares: an object that is not stale is of the stored version, unless *)
(* the run was stored anew.                                                 *)
LEMMA NotStaleIsCurrent ==
  ASSUME ParentsInv, NEW k \in Clients, k \notin raised, pc[k] = "get",
         ~Stale(mine[k]), Stored(Run(k))
  PROVE  mine[k].parent = state[Run(k)].ckpt \/ StoredAnew(Run(k))
<1> DEFINE r == Run(k)
           c == state[r].ckpt
           e == mine[k].epoch
<1>1. r \in Runs /\ mine[k].run = r /\ mine[k] \in RunState /\ state[r] \in RunState
  BY DEF ParentsInv, PutInv, PutOk, PutTypeOK, Putting
<1>2. e \in Nat /\ state[r].epoch \in Nat /\ state[r].epoch <= e
  BY <1>1 DEF Stale, RunState
<1>3. /\ c \in DOMAIN checkpoints /\ checkpoints[c] = state[r] /\ state[r].run = r
      /\ \A i \in DOMAIN checkpoints : checkpoints[i].run = r => i <= c
      /\ state[r].epoch > 0
  BY <1>1 DEF ParentsInv, VersionsOk, PutInv
<1>4. DOMAIN checkpoints = 1 .. Len(checkpoints) /\ Len(checkpoints) \in Nat
  BY LenProperties DEF ParentsInv, PutInv, PutTypeOK
<1>5. ASSUME NEW i \in DOMAIN checkpoints, checkpoints[i].run = r, i # c,
             state[r].epoch <= checkpoints[i].epoch
      PROVE  StoredAnew(r)
  <2>1. i < c
    BY <1>3, <1>4, <1>5
  <2>2. QED BY <1>3, <1>5, <2>1 DEF StoredAnew
<1>6. KnowsOrigin(k) /\ Origin(k) = mine[k].parent
  BY DEF ParentsInv, Origin, Putting
<1>7. e # 0
  BY <1>2, <1>3
<1>8. CASE IsVersion(mine[k].parent, r, e)
  BY <1>2, <1>5, <1>8 DEF IsVersion
<1>9. CASE Behind(r, e)
  <2>1. PICK i \in DOMAIN checkpoints : checkpoints[i].run = r /\ checkpoints[i].epoch > e
    BY <1>9 DEF Behind
  <2>2. checkpoints[i] \in RunState
    BY <1>4, ElementOfSeq DEF ParentsInv, PutInv, PutTypeOK
  <2>3. checkpoints[i].epoch \in Nat
    BY <2>2 DEF RunState
  <2>4. i # c /\ state[r].epoch <= checkpoints[i].epoch
    BY <1>2, <1>3, <2>1, <2>3
  <2>5. QED BY <1>5, <2>1, <2>4
<1>10. QED BY <1>1, <1>6, <1>7, <1>8, <1>9 DEF KnowsOrigin

(* The check of the epoch and the read of the latest version. *)
LEMMA GetForPutKeepsParents ==
  ASSUME ParentsInv, PutInv', NEW k \in Clients, GetForPut(k), UNCHANGED raised
  PROVE  ParentsInv'
<1> DEFINE r == Run(k)
<1>1. /\ PutInv /\ UNCHANGED <<state, checkpoints, dirty>> /\ pc[k] = "get"
  BY DEF GetForPut, At, storeVars, ParentsInv
<1>2. r \in Runs /\ mine[k].run = r /\ mine[k] \in RunState /\ state[r] \in RunState
  BY <1>1 DEF PutInv, PutOk, PutTypeOK, Putting
<1>3. CASE Stale(mine[k]) /\ Return(k) /\ UNCHANGED mine
  <2>1. /\ pc'[k] = "idle"
        /\ \A j \in Clients \ {k} : /\ pc'[j] = pc[j] /\ op'[j] = op[j] /\ mine'[j] = mine[j]
                                    /\ dirty'[j] = dirty[j]
                                    /\ j \in raised' <=> j \in raised
    BY <1>1, <1>3, ReturnFacts DEF PutInv, PutTypeOK
  <2>2. Stored(r)
    <3>1. state[r].epoch > mine[k].epoch /\ mine[k].epoch \in Nat
      BY <1>2, <1>3 DEF Stale, RunState
    <3>2. NoState.epoch = 0
      BY DEF NoState
    <3>3. QED BY <3>1, <3>2 DEF Stored
  <2>3. Behind(r, mine[k].epoch)
    BY <1>1, <1>2, <1>3, <2>2 DEF Stale, Behind, ParentsInv, VersionsOk, PutInv
  <2>4. KnowsOrigin(k)' /\ Replaces(k)'
    BY <1>1, <1>2, <1>3, <2>1, <2>3 DEF KnowsOrigin, Behind, Replaces, At
  <2>5. QED BY <1>1, <2>1, <2>4, OneClientMoves
<1>4. CASE /\ ~Stale(mine[k])
           /\ mine' = [mine EXCEPT ![k].epoch = state[Run(k)].epoch + 1]
           /\ Goto(k, "exec") /\ UNCHANGED op
  <2>1. /\ pc'[k] = "exec" /\ Run(k)' = Run(k)
        /\ mine'[k].parent = mine[k].parent
        /\ \A j \in Clients \ {k} : /\ pc'[j] = pc[j] /\ op'[j] = op[j] /\ mine'[j] = mine[j]
                                    /\ dirty'[j] = dirty[j]
                                    /\ j \in raised' <=> j \in raised
    BY <1>1, <1>2, <1>4 DEF Goto, Run, PutInv, PutTypeOK, RunState
  <2>2. ASSUME k \notin raised' PROVE KnowsOrigin(k)' /\ Replaces(k)'
    <3>1. Stored(r) => mine[k].parent = state[r].ckpt \/ StoredAnew(r)
      BY <1>1, <1>4, <2>2, NotStaleIsCurrent
    <3>2. StoredAnew(r)' <=> StoredAnew(r)
      BY <1>1, <2>1 DEF StoredAnew
    <3>3. QED BY <1>1, <2>1, <3>1, <3>2 DEF KnowsOrigin, Replaces, Stored
  <2>3. QED BY <1>1, <2>1, <2>2, OneClientMoves
<1>5. QED BY <1>3, <1>4 DEF GetForPut

(* An EXEC that fails leaves the object with the epoch of the attempt. *)
LEMMA FailedExecKeepsParents ==
  ASSUME ParentsInv, PutInv', NEW k \in Clients, Exec(k), Overtaken(k)
  PROVE  ParentsInv'
<1>1. UNCHANGED <<state, checkpoints, mine, dirty>> /\ raised' = raised \cup {k}
  BY DEF Exec
<1>2. \A j \in Clients \ {k} : pc'[j] = pc[j] /\ op'[j] = op[j]
  BY ReturnFacts DEF Exec, Goto, ParentsInv, PutInv, PutTypeOK
<1>3. QED BY <1>1, <1>2, OneClientMoves

(* Snapshots are only added. *)
LEMMA VersionsStay ==
  ASSUME NEW k \in Clients, NEW w \in RunState, PutInv,
         checkpoints' = Append(checkpoints, w)
  PROVE  /\ DOMAIN checkpoints' = DOMAIN checkpoints \cup {Len(checkpoints) + 1}
         /\ \A i \in DOMAIN checkpoints : /\ checkpoints'[i] = checkpoints[i]
                                          /\ i < Len(checkpoints) + 1
         /\ checkpoints'[Len(checkpoints) + 1] = w
         /\ Len(checkpoints) \in Nat
<1> DEFINE n == Len(checkpoints)
<1>1. n \in Nat /\ DOMAIN checkpoints = 1 .. n /\ checkpoints \in Seq(RunState)
  BY LenProperties DEF PutInv, PutTypeOK
<1>2. /\ DOMAIN checkpoints' = 1 .. n + 1
      /\ \A i \in 1 .. n : checkpoints'[i] = checkpoints[i]
      /\ checkpoints'[n + 1] = w
  BY <1>1, AppendProperties, LenProperties
<1> HIDE DEF n
<1>3. 1 .. n + 1 = (1 .. n) \cup {n + 1} /\ \A i \in 1 .. n : i < n + 1
  BY <1>1
<1>4. QED BY <1>1, <1>2, <1>3 DEF n

(* A transaction that goes through makes its version the latest one. *)
LEMMA ExecKeepsParents ==
  ASSUME ParentsInv, PutInv', NEW k \in Clients, Exec(k), ~Overtaken(k)
  PROVE  ParentsInv'
<1> DEFINE r == Run(k)
           n == Len(checkpoints) + 1
           w == ExecWritten(k)
<1>1. /\ PutInv /\ pc[k] = "exec" /\ ~dirty[k]
      /\ state' = [state EXCEPT ![r] = w] /\ checkpoints' = Append(checkpoints, w)
      /\ mine' = [mine EXCEPT ![k] = w] /\ Touch(r) /\ Goto(k, "history")
      /\ op' = op /\ raised' = raised \ {k}
  BY DEF Exec, At, Overtaken, ParentsInv
<1>2. /\ r \in Runs /\ mine[k].run = r /\ mine[k].epoch = state[r].epoch + 1
      /\ mine[k] \in RunState /\ state[r].epoch \in Nat
  BY <1>1 DEF PutInv, PutOk, PutTypeOK, Putting, At, RunState
<1>3. n \in Nat
  BY <1>1, LenProperties DEF PutInv, PutTypeOK
<1>4. /\ w \in RunState /\ w.run = r /\ w.ckpt = n /\ w.epoch > 0
      /\ w.epoch = mine[k].epoch
  <2> HIDE DEF n
  <2>1. w = [mine[k] EXCEPT !.ckpt = n]
    BY DEF ExecWritten, n
  <2> HIDE DEF w
  <2>2. w \in RunState /\ w.run = r /\ w.ckpt = n /\ w.epoch = mine[k].epoch
    BY <1>2, <1>3, <2>1 DEF RunState
  <2>3. QED BY <1>2, <2>2
<1> HIDE DEF w
<1>5. /\ DOMAIN checkpoints' = DOMAIN checkpoints \cup {n}
      /\ \A i \in DOMAIN checkpoints : checkpoints'[i] = checkpoints[i] /\ i < n
      /\ checkpoints'[n] = w
  BY <1>1, <1>4, VersionsStay
<1> HIDE DEF n
<1>6. /\ \A q \in Runs : state'[q] = IF q = r THEN w ELSE state[q]
      /\ \A j \in Clients : /\ mine'[j] = IF j = k THEN w ELSE mine[j]
                            /\ pc'[j] = IF j = k THEN "history" ELSE pc[j]
                            /\ Run(j)' = Run(j)
                            /\ dirty'[j] = (dirty[j] \/ Run(j) = r)
  BY <1>1 DEF PutInv, PutTypeOK, Goto, Run, Touch
<1>7. VersionsOk'
  <2>1. \A i \in DOMAIN checkpoints' : checkpoints'[i].ckpt = i /\ checkpoints'[i].epoch > 0
    BY <1>4, <1>5 DEF ParentsInv, VersionsOk
  <2>2. ASSUME NEW q \in Runs, Stored(q)'
        PROVE  /\ state'[q].ckpt \in DOMAIN checkpoints'
               /\ checkpoints'[state'[q].ckpt] = state'[q]
               /\ \A i \in DOMAIN checkpoints' :
                    checkpoints'[i].run = q => i <= state'[q].ckpt
    <3>1. CASE q = r
      <4>1. state'[q].ckpt = n /\ state'[q] = w
        BY <1>4, <1>6, <3>1
      <4>2. \A i \in DOMAIN checkpoints' : i <= n
        <5>1. DOMAIN checkpoints = 1 .. Len(checkpoints) /\ Len(checkpoints) \in Nat
          BY <1>1, LenProperties DEF PutInv, PutTypeOK
        <5>2. QED BY <1>3, <1>5, <5>1
      <4>3. QED BY <1>5, <4>1, <4>2
    <3>2. CASE q # r
      <4>1. state'[q] = state[q] /\ Stored(q)
        BY <1>6, <2>2, <3>2 DEF Stored
      <4>2. /\ state[q].ckpt \in DOMAIN checkpoints
            /\ checkpoints[state[q].ckpt] = state[q]
            /\ \A i \in DOMAIN checkpoints : checkpoints[i].run = q => i <= state[q].ckpt
        BY <4>1 DEF ParentsInv, VersionsOk
      <4>3. QED BY <1>4, <1>5, <3>2, <4>1, <4>2
    <3>3. QED BY <3>1, <3>2
  <2>3. QED BY <2>1, <2>2 DEF VersionsOk
<1>8. ASSUME NEW q, StoredAnew(q) PROVE StoredAnew(q)'
  BY <1>5, <1>8 DEF StoredAnew
<1>9. ASSUME NEW j \in Clients \ raised' PROVE KnowsOrigin(j)' /\ Replaces(j)'
  <2>1. CASE j = k
    <3>1. mine'[j] = w /\ pc'[j] = "history"
      BY <1>6, <2>1
    <3>2. Origin(j)' = n
      BY <1>4, <3>1 DEF Origin, Putting
    <3>3. /\ Origin(j)' \in DOMAIN checkpoints'
          /\ checkpoints'[Origin(j)'].run = mine'[j].run
          /\ checkpoints'[Origin(j)'].epoch = mine'[j].epoch
      BY <1>5, <3>1, <3>2
    <3>4. KnowsOrigin(j)'
      BY <3>3 DEF KnowsOrigin, IsVersion
    <3>5. QED BY <3>1, <3>4 DEF Replaces, At
  <2>2. CASE j # k
    <3>1. /\ KnowsOrigin(j) /\ Replaces(j)
          /\ mine'[j] = mine[j] /\ pc'[j] = pc[j] /\ Run(j)' = Run(j)
          /\ Origin(j)' = Origin(j)
      BY <1>1, <1>6, <1>9, <2>2 DEF ParentsInv, Origin
    <3>2. KnowsOrigin(j)'
      <4>1. ASSUME NEW i, NEW q, NEW e, IsVersion(i, q, e) PROVE IsVersion(i, q, e)'
        BY <1>5, <4>1 DEF IsVersion
      <4>2. ASSUME NEW q, NEW e, Behind(q, e) PROVE Behind(q, e)'
        BY <1>5, <4>2 DEF Behind
      <4>3. CASE IsVersion(Origin(j), mine[j].run, mine[j].epoch)
        BY <3>1, <4>1, <4>3 DEF KnowsOrigin, IsVersion
      <4>4. CASE Behind(mine[j].run, mine[j].epoch)
        BY <3>1, <4>2, <4>4 DEF KnowsOrigin, Behind
      <4>5. QED BY <3>1, <4>3, <4>4 DEF KnowsOrigin
    <3>3. Replaces(j)'
      <4>1. SUFFICES ASSUME pc[j] = "exec", ~dirty'[j], Stored(Run(j))'
                     PROVE  mine[j].parent = state'[Run(j)].ckpt \/ StoredAnew(Run(j))'
        BY <3>1 DEF Replaces, At, Stored
      <4>2. ~dirty[j] /\ Run(j) # r /\ Run(j) \in Runs
        BY <1>1, <1>6, <4>1 DEF PutInv, PutOk, Putting, PutTypeOK
      <4>3. state'[Run(j)] = state[Run(j)] /\ Stored(Run(j))
        BY <1>6, <3>1, <4>1, <4>2 DEF Stored
      <4>4. QED BY <1>8, <3>1, <4>1, <4>2, <4>3 DEF Replaces, At
    <3>4. QED BY <3>2, <3>3
  <2>3. QED BY <2>1, <2>2
<1>10. QED BY <1>7, <1>9 DEF ParentsInv

(* A run that is deleted, or whose TTL ends. *)
LEMMA GoneKeepsParents ==
  ASSUME ParentsInv, PutInv', NEW r, state' = [state EXCEPT ![r] = NoState], Touch(r),
         UNCHANGED <<checkpoints, mine, raised>>,
         \A j \in Clients : \/ pc'[j] = pc[j] /\ op'[j] = op[j]
                           \/ {pc[j], pc'[j]} \cap Putting = {}
  PROVE  ParentsInv'
<1>1. \A q \in Runs : Stored(q)' => Stored(q) /\ state'[q] = state[q]
  BY DEF Stored, ParentsInv, PutInv, PutTypeOK
<1>2. VersionsOk'
  BY <1>1 DEF ParentsInv, VersionsOk
<1>3. ASSUME NEW j \in Clients \ raised' PROVE KnowsOrigin(j)' /\ Replaces(j)'
  <2>1. KnowsOrigin(j) /\ Replaces(j) /\ Origin(j)' = Origin(j)
        /\ (pc'[j] = "exec" <=> pc[j] = "exec")
    BY <1>3 DEF ParentsInv, Origin, Putting
  <2>2. KnowsOrigin(j)'
    BY <2>1 DEF KnowsOrigin, IsVersion, Behind
  <2>3. ~dirty'[j] => ~dirty[j]
    BY DEF Touch
  <2>4. pc[j] = "exec" => Run(j) \in Runs /\ Run(j)' = Run(j)
    BY DEF ParentsInv, PutInv, PutOk, Putting, Run
  <2>5. Replaces(j)'
    BY <1>1, <2>1, <2>3, <2>4 DEF Replaces, At, Run, StoredAnew
  <2>6. QED BY <2>2, <2>5
<1>4. QED BY <1>2, <1>3 DEF ParentsInv

(* A run that is deleted has no version left to replace. *)
LEMMA DelRunKeepsParents ==
  ASSUME ParentsInv, PutInv', NEW k \in Clients, DelRun(k), UNCHANGED raised
  PROVE  ParentsInv'
<1>1. /\ PutInv /\ pc[k] \in {"delRun", "delAbsent"}
      /\ state' = [state EXCEPT ![Run(k)] = NoState]
      /\ UNCHANGED <<checkpoints, mine>>
  BY DelRunFacts DEF ParentsInv
<1>2. PICK command \in {"range", "idle"}, o \in [kind : Kinds, run : Runs \cup {None}] :
        pc' = [pc EXCEPT ![k] = command] /\ op' = [op EXCEPT ![k] = o]
  BY <1>1, DelRunFacts
<1>3. CASE Stored(Run(k))
  <2>1. \A j \in Clients : \/ pc'[j] = pc[j] /\ op'[j] = op[j]
                           \/ {pc[j], pc'[j]} \cap Putting = {}
    BY <1>1, <1>2 DEF PutInv, PutTypeOK, Putting
  <2>2. Touch(Run(k))
    BY <1>3 DEF DelRun
  <2>3. QED BY <1>1, <2>1, <2>2, GoneKeepsParents
<1>4. CASE ~Stored(Run(k))
  <2>1. UNCHANGED <<state, dirty>>
    BY <1>1, <1>4 DEF DelRun, Stored, PutInv, PutTypeOK
  <2>2. command \in Commands \ Putting /\ pc[k] \notin Putting
    BY <1>1 DEF Commands, Putting
  <2>3. QED BY <1>1, <1>2, <2>1, <2>2, CommandKeepsParents
<1>5. QED BY <1>3, <1>4

(* Every step keeps the invariant of the versions. *)
LEMMA ParentsStep == ParentsInv /\ [Next]_vars => ParentsInv'
<1> SUFFICES ASSUME ParentsInv, [Next]_vars PROVE ParentsInv'
  OBVIOUS
<1>1. PutInv'
  BY PutInvStep DEF ParentsInv
<1>2. CASE UNCHANGED vars \/ \E t \in Threads : ExpireActive(t) \/ ExpireHistory(t)
  <2>1. UNCHANGED <<state, checkpoints, mine, pc, op, dirty, raised>>
    BY <1>2 DEF vars, storeVars, clientVars, ExpireActive, ExpireHistory
  <2>2. VersionsOk'
    BY <2>1 DEF ParentsInv, VersionsOk, Stored
  <2>3. \A k \in Clients : /\ KnowsOrigin(k)' <=> KnowsOrigin(k)
                           /\ Replaces(k)' <=> Replaces(k)
    BY <2>1 DEF KnowsOrigin, Origin, IsVersion, Behind, Replaces, At, Run, Stored, StoredAnew
  <2>4. QED BY <1>1, <2>1, <2>2, <2>3 DEF ParentsInv
<1>3. ASSUME NEW k \in Clients, Take(k) \/ Exec(k) \/ Crash(k) PROVE ParentsInv'
  BY <1>1, <1>3, TakeKeepsParents, ExecKeepsParents, FailedExecKeepsParents, CrashKeepsParents
<1>4. ASSUME NEW k \in Clients, UNCHANGED raised,
             StartPut(k) \/ Watch(k) \/ GetForPut(k) \/ DelRun(k)
      PROVE  ParentsInv'
  BY <1>1, <1>4, StartPutKeepsParents, WatchKeepsParents, GetForPutKeepsParents,
     DelRunKeepsParents
<1>5. ASSUME NEW k \in Clients, UNCHANGED raised, Indexing(k) PROVE ParentsInv'
  <2>1. PutInv
    BY DEF ParentsInv
  <2>2. /\ UNCHANGED <<state, checkpoints, mine, dirty>> /\ pc[k] \notin Putting
        /\ \E command \in Commands \ Putting, o \in [kind : Kinds, run : Runs \cup {None}] :
             pc' = [pc EXCEPT ![k] = command] /\ op' = [op EXCEPT ![k] = o]
    BY <1>5, <2>1, IndexingMoves DEF Moves
  <2>3. QED BY <1>1, <1>5, <2>2, CommandKeepsParents
<1>6. ASSUME NEW r \in Runs, Expire(r) PROVE ParentsInv'
  <2>1. \A j \in Clients : pc'[j] = pc[j] /\ op'[j] = op[j]
    BY <1>6 DEF Expire
  <2>2. QED BY <1>1, <1>6, <2>1, GoneKeepsParents DEF Expire
<1>7. \A k \in Clients : Drop(k) \/ SetTTL(k) \/ Look(k) \/ Compare(k) => UNCHANGED raised
  BY DEF Drop, SetTTL, Look, Compare
<1>8. QED BY <1>2, <1>3, <1>4, <1>5, <1>6, <1>7 DEF Next, Start, Send, Indexing

(* It holds of the empty store. *)
LEMMA ParentsInit == Init => ParentsInv
<1> SUFFICES ASSUME Init PROVE ParentsInv
  OBVIOUS
<1>1. PutInv
  BY PutInvInit
<1>2. VersionsOk
  BY DEF Init, StoreInit, VersionsOk, Stored
<1>3. \A k \in Clients : KnowsOrigin(k) /\ Replaces(k)
  <2>1. \A k \in Clients : mine[k] = NoState /\ pc[k] = "idle"
    BY DEF Init
  <2>2. NoState.epoch = 0
    BY DEF NoState
  <2>3. QED BY <2>1, <2>2 DEF KnowsOrigin, Replaces, At
<1>4. QED BY <1>1, <1>2, <1>3 DEF ParentsInv

(* Optimistic locking over Redis: a put replaces the version its object was read   *)
(* from, but for the retry of a put that was overtaken and for runs stored anew, *)
(* whatever expires, dies or is deleted in between (RedisRunStore.put).         *)
THEOREM UpdatesAreNotLost == Spec => UpdatesLostOnlyByRetry
<1>1. ParentsInv /\ [Next]_vars =>
        [\A r \in Runs :
           /\ Stored(r) /\ Stored(r)' /\ state'[r] # state[r]
           /\ ~Retried(r) /\ ~StoredAnew(r)
           => state'[r].parent = state[r].ckpt]_vars
  <2> SUFFICES ASSUME ParentsInv, [Next]_vars, NEW r \in Runs,
                      Stored(r), Stored(r)', state'[r] # state[r],
                      ~Retried(r), ~StoredAnew(r)
               PROVE  state'[r].parent = state[r].ckpt
    OBVIOUS
  <2>1. PICK k \in Clients : /\ At(k, "exec") /\ ~dirty[k] /\ Run(k) = r
                             /\ state'[r] = ExecWritten(k)
    BY OnlyExecStores DEF ParentsInv
  <2>2. k \notin raised
    BY <2>1 DEF Retried
  <2>3. mine[k].parent = state[r].ckpt
    BY <2>1, <2>2 DEF ParentsInv, Replaces
  <2>4. ExecWritten(k).parent = mine[k].parent
    <3>1. mine[k] \in RunState
      BY DEF ParentsInv, PutInv, PutTypeOK
    <3>2. QED BY <3>1 DEF ExecWritten, RunState
  <2>5. QED BY <2>1, <2>3, <2>4
<1>2. QED BY <1>1, ParentsInit, ParentsStep, PTL DEF Spec, UpdatesLostOnlyByRetry
=============================================================================
