------------------------- MODULE LocalRuntimeProofs -------------------------
(***************************************************************************)
(* Proofs about LocalRuntime, for every number of processes, calls, threads  *)
(* and steps.  First, of what is stored:                                     *)
(*   VersionsKept             every version of a run is a checkpoint;        *)
(*   CheckpointsChain         its checkpoints are one chain of parents.      *)
(* Then of who works on a run, wherever a resume is not interleaved with      *)
(* other calls of its process before it changes the status it looked at, and  *)
(* puts reach the store:                                                    *)
(*   OneDriver                one call at a time drives a run;               *)
(*   ActiveRunsAreLive        the active run of a thread is not over;         *)
(*   NoRunIsOrphaned          a run that is pending or running is driven.     *)
(***************************************************************************)
EXTENDS LocalRuntimeInv, FiniteSetTheorems, SequenceTheorems, TLAPS

-----------------------------------------------------------------------------
(* Sequences *)

(* Replacing an element of a sequence by one of the same set. *)
LEMMA SeqUpdate ==
  ASSUME NEW S, NEW q \in Seq(S), NEW i, NEW e \in S
  PROVE  /\ [q EXCEPT ![i] = e] \in Seq(S)
         /\ DOMAIN [q EXCEPT ![i] = e] = DOMAIN q
         /\ Len([q EXCEPT ![i] = e]) = Len(q)
<1>1. CASE i \in 1 .. Len(q)
  BY <1>1, ExceptSeq, LenProperties
<1>2. CASE i \notin 1 .. Len(q)
  <2>1. [q EXCEPT ![i] = e] = q
    BY <1>2, LenProperties
  <2>2. QED BY <2>1
<1>3. QED BY <1>1, <1>2

(* Marking requests as expired keeps them requests. *)
LEMMA NoticedType ==
  ASSUME NEW q \in Request
  PROVE  Noticed(q) \in Request
BY DEF Noticed, Request, RequestStatus

(* Marking the overdue requests of a run keeps their number. *)
LEMMA AllNoticedType ==
  ASSUME NEW reqs \in Seq(Request)
  PROVE  /\ AllNoticed(reqs) \in Seq(Request)
         /\ DOMAIN AllNoticed(reqs) = DOMAIN reqs
         /\ Len(AllNoticed(reqs)) = Len(reqs)
<1>1. DOMAIN reqs = 1 .. Len(reqs) /\ Len(reqs) \in Nat
  BY LenProperties
<1>2. \A i \in 1 .. Len(reqs) : Noticed(reqs[i]) \in Request
  BY NoticedType, ElementOfSeq
<1>3. AllNoticed(reqs) \in [1 .. Len(reqs) -> Request]
  BY <1>1, <1>2 DEF AllNoticed
<1>4. AllNoticed(reqs) \in Seq(Request)
  BY <1>1, <1>3, SeqDef
<1>5. Len(AllNoticed(reqs)) = Len(reqs)
  BY <1>1, <1>3, <1>4, LenProperties
<1>6. QED
  BY <1>1, <1>3, <1>4, <1>5

(* Recording a run keeps a history of runs. *)
LEMMA RecordedType ==
  ASSUME NEW h \in Seq(Runs), NEW r \in Runs
  PROVE  Recorded(h, r) \in Seq(Runs)
BY DEF Recorded

-----------------------------------------------------------------------------
(* The interrupt operations keep the requests well typed and lose none. *)

RequestsKept ==
  /\ InterruptsTypeOK'
  /\ \A r \in Runs : DOMAIN requests[r] \subseteq DOMAIN requests'[r]

(* Operations that do not touch the interrupt store. *)
LEMMA SameRequests ==
  ASSUME InterruptsTypeOK, UNCHANGED interruptVars
  PROVE  RequestsKept
BY DEF InterruptsTypeOK, interruptVars, RequestsKept

(* bump_epoch leaves the requests alone. *)
LEMMA BumpEpochKeeps ==
  ASSUME InterruptsTypeOK, NEW r \in Runs, BumpEpoch(r)
  PROVE  RequestsKept
BY DEF InterruptsTypeOK, BumpEpoch, RequestsKept

(* list_pending only marks requests. *)
LEMMA ListPendingKeeps ==
  ASSUME InterruptsTypeOK, NEW r \in Runs, ListPending(r)
  PROVE  RequestsKept
<1>1. /\ AllNoticed(requests[r]) \in Seq(Request)
      /\ DOMAIN AllNoticed(requests[r]) = DOMAIN requests[r]
  BY AllNoticedType DEF InterruptsTypeOK
<1>2. QED
  BY <1>1 DEF InterruptsTypeOK, ListPending, RequestsKept

(* create adds a request to those of the run. *)
LEMMA CreateKeeps ==
  ASSUME InterruptsTypeOK, NEW r \in Runs, NEW s \in Steps, NEW e \in Nat,
         Create(r, s, e)
  PROVE  RequestsKept
<1> DEFINE q == AllNoticed(requests[r])
           new == [step |-> s, epoch |-> e, status |-> "pending",
                   late |-> FALSE]
<1>1. /\ q \in Seq(Request)
      /\ DOMAIN q = DOMAIN requests[r]
  BY AllNoticedType DEF InterruptsTypeOK
<1>2. new \in Request
  BY DEF Request, RequestStatus
<1>3. /\ Append(q, new) \in Seq(Request)
      /\ DOMAIN q \subseteq DOMAIN Append(q, new)
  <2>1. Append(q, new) \in Seq(Request) /\ Len(Append(q, new)) = Len(q) + 1
    BY <1>1, <1>2
  <2>2. DOMAIN q = 1 .. Len(q) /\ Len(q) \in Nat
    BY <1>1, LenProperties
  <2>3. DOMAIN Append(q, new) = 1 .. Len(q) + 1
    BY <2>1, LenProperties
  <2>4. QED BY <2>1, <2>2, <2>3
<1>4. requests' = [requests EXCEPT ![r] = Append(q, new)] /\ epochs' = epochs
  BY DEF Create
<1>5. QED
  BY <1>1, <1>3, <1>4 DEF InterruptsTypeOK, RequestsKept

(* Replacing a request of a run by another one. *)
LEMMA SaveKeeps ==
  ASSUME InterruptsTypeOK, NEW r, NEW i, NEW q \in Request,
         requests' = [requests EXCEPT ![r] = [requests[r] EXCEPT ![i] = q]],
         epochs' = epochs
  PROVE  RequestsKept
<1>1. CASE r \in Runs
  <2>1. /\ [requests[r] EXCEPT ![i] = q] \in Seq(Request)
        /\ DOMAIN [requests[r] EXCEPT ![i] = q] = DOMAIN requests[r]
    BY <1>1, SeqUpdate DEF InterruptsTypeOK
  <2>2. QED
    BY <1>1, <2>1 DEF InterruptsTypeOK, RequestsKept
<1>2. CASE r \notin Runs
  BY <1>2 DEF InterruptsTypeOK, RequestsKept
<1>3. QED BY <1>1, <1>2

-----------------------------------------------------------------------------
(* Persist: its effect on everything but the epochs it compares. *)

(* put writes a well-typed snapshot under the name of its run. *)
LEMMA PutType ==
  ASSUME StoreTypeOK, NEW s \in RunState, s.run \in Runs, Put(s)
  PROVE  /\ StoreTypeOK'
         /\ Stamped(s) \in RunState
         /\ Stamped(s).run = s.run
         /\ state' = [state EXCEPT ![s.run] = Stamped(s)]
<1>1. Stamped(s) \in RunState /\ Stamped(s).run = s.run
  <2>1. Len(checkpoints) \in Nat
    BY LenProperties DEF StoreTypeOK
  <2>2. state[s.run].epoch \in Nat
    BY DEF StoreTypeOK, RunState
  <2>3. \A e, k \in Nat : LET w == [s EXCEPT !.epoch = e, !.ckpt = k] IN
          w \in RunState /\ w.run = s.run
    BY DEF RunState
  <2>4. state[s.run].epoch + 1 \in Nat
    BY <2>2
  <2>5. (IF s.ckpt = 0 THEN Len(checkpoints) + 1 ELSE s.ckpt) \in Nat
    BY <2>1 DEF RunState
  <2>6. QED
    BY <2>3, <2>4, <2>5 DEF Stamped
<1>2. state' \in [Runs -> RunState]
  BY <1>1 DEF Put, StoreTypeOK
<1>3. checkpoints' \in Seq(RunState)
  <2>1. CASE s.ckpt = 0
    BY <1>1, <2>1 DEF Put, StoreTypeOK
  <2>2. CASE s.ckpt # 0
    BY <1>1, <2>2, SeqUpdate DEF Put, StoreTypeOK
  <2>3. QED BY <2>1, <2>2
<1>4. threadRuns' \in [Threads -> Seq(Runs)]
  BY RecordedType DEF Put, StoreTypeOK
<1>5. QED
  BY <1>1, <1>2, <1>3, <1>4 DEF Put, StoreTypeOK

(* The control points inside a put, by where the call goes from there. *)
LEMMA PutLabels ==
  /\ DOMAIN InPut = {"registering", "advancing", "continuing", "stepping",
                     "syncing", "clearing", "done"}
  /\ \A label \in DOMAIN InPut :
       label \in PC /\ InPut[label] \in Writing /\ InPut[label] \in PC
  /\ \A k \in DOMAIN InPut, l \in DOMAIN InPut : InPut[k] = InPut[l] => k = l
  /\ InPut["stepping"] = "putStepping" /\ InPut["syncing"] = "putSyncing"
BY DEF InPut, PC, Writing

(* What was granted and used stays well typed. *)
LEMMA SameHistory ==
  ASSUME TypeOK, UNCHANGED history
  PROVE  HistoryTypeOK'
BY DEF TypeOK, HistoryTypeOK, history

LEMMA RememberType ==
  ASSUME TypeOK, NEW w \in RunState, w.run \in Runs, Remember(w)
  PROVE  HistoryTypeOK'
<1>1. Entitled(w) \in [Steps -> Nat]
  <2>1. credit[w.run] \in [Steps -> Nat]
    BY DEF TypeOK, HistoryTypeOK
  <2>2. ASSUME NEW s \in Steps
        PROVE  /\ credit[w.run][s] + 1 \in Nat /\ credit[w.run][s] + 0 \in Nat
               /\ 1 \in Nat /\ 0 \in Nat
    BY <2>1
  <2>3. QED BY <2>2 DEF Entitled
<1>2. credit' \in [Runs -> [Steps -> Nat]]
  BY <1>1 DEF Remember, TypeOK, HistoryTypeOK
<1>3. unused' \in Seq(SUBSET Steps)
  <2>1. {s \in Steps : Entitled(w)[s] > 0} \in SUBSET Steps
    OBVIOUS
  <2>2. QED BY <2>1 DEF Remember, TypeOK, HistoryTypeOK
<1>4. QED
  BY <1>2, <1>3 DEF Remember, TypeOK, HistoryTypeOK

LEMMA UseType ==
  ASSUME TypeOK, NEW r \in Runs, NEW s \in Steps, Use(r, s)
  PROVE  HistoryTypeOK'
<1>1. /\ credit[r] \in [Steps -> Nat] /\ reused[r] \in [Steps -> Nat]
      /\ credit[r][s] \in Nat /\ reused[r][s] \in Nat
  BY DEF TypeOK, HistoryTypeOK
<1>2. CASE credit[r][s] > 0
  <2>1. [credit[r] EXCEPT ![s] = @ - 1] \in [Steps -> Nat]
    BY <1>1, <1>2
  <2>2. credit' = [credit EXCEPT ![r] = [credit[r] EXCEPT ![s] = @ - 1]]
    BY <1>2 DEF Use
  <2>3. QED BY <1>2, <2>1, <2>2 DEF Use, TypeOK, HistoryTypeOK
<1>3. CASE ~(credit[r][s] > 0)
  <2>1. [reused[r] EXCEPT ![s] = @ + 1] \in [Steps -> Nat]
    BY <1>1
  <2>2. reused' = [reused EXCEPT ![r] = [reused[r] EXCEPT ![s] = @ + 1]]
    BY <1>3 DEF Use
  <2>3. QED BY <1>3, <2>1, <2>2 DEF Use, TypeOK, HistoryTypeOK
<1>4. QED BY <1>2, <1>3

(* Who is changed by _persist_state, whether put takes the snapshot or not, and *)
(* whether it suspends before it does.                                      *)
LEMMA PersistFacts ==
  ASSUME TypeOK, NEW c \in Calls, NEW o \in Calls, NEW s \in RunState,
         s.run \in Runs, NEW label \in DOMAIN InPut, Persist(c, o, s, label)
  PROVE  /\ StoreTypeOK' /\ HistoryTypeOK'
         /\ heap' \in [Calls -> RunState]
         /\ heap'[o].run = s.run
         /\ \A d \in Calls : d # o => heap'[d] = heap[d]
         /\ cache' \in [Procs -> [Runs -> Calls \cup {None}]]
         /\ \A p \in Procs, r \in Runs :
              cache'[p][r] = IF p = ProcOf[c] /\ r = s.run
                             THEN o ELSE cache[p][r]
         /\ pc' \in [Calls -> PC]
         /\ pc'[c] \in {label, InPut[label], "done"}
         /\ pc'[c] = InPut[label] => InPut[label] \in Yields
         /\ \A d \in Calls : d # c => pc'[d] = pc[d]
         /\ \A r \in Runs : r # s.run => state'[r] = state[r]
         /\ state' = state \/ state'[s.run].run = s.run
<1> DEFINE w == Prepared(s)
<1>1. w \in RunState /\ w.run = s.run
  BY DEF Prepared, RunState
<1>2. /\ ProcOf[c] \in Procs /\ label \in PC
      /\ InPut[label] \in PC /\ InPut[label] \in Writing
      /\ label \notin Writing /\ "done" \notin Writing
  <2>1. label \notin Writing /\ "done" \notin Writing
    BY PutLabels DEF Writing
  <2>2. QED BY <2>1, RuntimeConstants, PutLabels
<1>3. /\ cache' \in [Procs -> [Runs -> Calls \cup {None}]]
      /\ \A p \in Procs, r \in Runs :
           cache'[p][r] = IF p = ProcOf[c] /\ r = s.run
                          THEN o ELSE cache[p][r]
  BY <1>1, <1>2 DEF Persist, TypeOK
<1>4. CASE /\ Accepts(w)
           /\ Put(w)
           /\ Remember(w)
           /\ heap' = [heap EXCEPT ![o] = Stamped(w)]
           /\ Goto(c, label)
  <2>1. /\ StoreTypeOK'
        /\ Stamped(w) \in RunState
        /\ Stamped(w).run = s.run
        /\ state' = [state EXCEPT ![s.run] = Stamped(w)]
    BY <1>1, <1>4, PutType DEF TypeOK
  <2>2. /\ heap' \in [Calls -> RunState]
        /\ heap'[o].run = s.run
        /\ \A d \in Calls : d # o => heap'[d] = heap[d]
    BY <1>4, <2>1 DEF TypeOK
  <2>3. /\ pc' \in [Calls -> PC]
        /\ pc'[c] = label
        /\ \A d \in Calls : d # c => pc'[d] = pc[d]
    BY <1>2, <1>4 DEF TypeOK, Goto
  <2>4. /\ \A r \in Runs : r # s.run => state'[r] = state[r]
        /\ state' = state \/ state'[s.run].run = s.run
    BY <2>1 DEF TypeOK, StoreTypeOK
  <2>5. HistoryTypeOK'
    BY <1>1, <1>4, RememberType
  <2>6. QED BY <1>2, <1>3, <2>1, <2>2, <2>3, <2>4, <2>5
<1>5. ASSUME NEW next \in {"done", InPut[label]}, Goto(c, next),
             heap' = [heap EXCEPT ![o] = w],
             UNCHANGED <<storeVars, history>>
      PROVE  /\ StoreTypeOK' /\ HistoryTypeOK'
             /\ heap' \in [Calls -> RunState]
             /\ heap'[o].run = s.run
             /\ \A d \in Calls : d # o => heap'[d] = heap[d]
             /\ pc' \in [Calls -> PC]
             /\ pc'[c] = next
             /\ \A d \in Calls : d # c => pc'[d] = pc[d]
             /\ state' = state
  <2>1. StoreTypeOK' /\ state' = state
    BY <1>5 DEF TypeOK, StoreTypeOK, storeVars
  <2>2. /\ heap' \in [Calls -> RunState]
        /\ heap'[o].run = s.run
        /\ \A d \in Calls : d # o => heap'[d] = heap[d]
    BY <1>1, <1>5 DEF TypeOK
  <2>3. "done" \in PC
    BY DEF PC
  <2>4. /\ pc' \in [Calls -> PC]
        /\ pc'[c] = next
        /\ \A d \in Calls : d # c => pc'[d] = pc[d]
    BY <1>2, <1>5, <2>3 DEF TypeOK, Goto
  <2>5. HistoryTypeOK'
    BY <1>5, SameHistory
  <2>6. QED BY <2>1, <2>2, <2>4, <2>5
<1>6. CASE /\ heap' = [heap EXCEPT ![o] = w]
           /\ Finish(c)
           /\ UNCHANGED <<storeVars, history>>
  <2>1. Goto(c, "done")
    BY <1>6 DEF Finish
  <2>2. QED BY <1>2, <1>3, <1>5, <1>6, <2>1
<1>7. CASE /\ heap' = [heap EXCEPT ![o] = w]
           /\ InPut[label] \in Yields
           /\ Goto(c, InPut[label])
           /\ UNCHANGED <<storeVars, history>>
  BY <1>2, <1>3, <1>5, <1>7
<1>8. QED
  BY <1>4, <1>6, <1>7 DEF Persist

-----------------------------------------------------------------------------
(* Shape: the steps of a call that works on an object *)

(* A step of call c that leaves every other call and its object alone, and    *)
(* every object with the run it had.                                        *)
WorkStep(c) ==
  /\ TypeOK'
  /\ RequestsKept
  /\ Working(c)
  /\ ref' = ref
  /\ heap'[ref[c]].run = RunOf(c)
  /\ \A d \in Calls : d # ref[c] => heap'[d] = heap[d]
  /\ \A p \in Procs, r \in Runs :
       cache'[p][r] = cache[p][r] \/ (r = RunOf(c) /\ cache'[p][r] = ref[c])
  /\ pc'[c] \notin {"idle", "loading"}
  /\ \A d \in Calls : d # c => pc'[d] = pc[d] /\ local'[d] = local[d]
  /\ \A r \in Runs : state'[r] = state[r] \/ state'[r].run = r
  /\ pc'[c] \in {"executing", "stepping", "pausing", "syncing", "putStepping",
                 "putSyncing"} =>
       local'[c].at \in Steps
  /\ pc'[c] \in {"resolving", "deciding"} =>
       local'[c].id \in DOMAIN requests'[RunOf(c)]
  /\ pc'[c] \in Writing => pc'[c] \in Yields

(* Such a step keeps Shape. *)
LEMMA WorkStepKeepsShape ==
  ASSUME Shape, NEW c \in Calls, WorkStep(c)
  PROVE  Shape'
<1>1. /\ ref[c] \in Calls
      /\ ref \in [Calls -> Calls]
      /\ RunOf(c) \in Runs
  BY DEF Shape, TypeOK, ObjectsHaveRuns, WorkStep
<1>2. \A d \in Calls : heap'[d].run = heap[d].run
  BY DEF WorkStep, RunOf, Object
<1>3. \A d \in Calls : RunOf(d)' = RunOf(d)
  BY <1>1, <1>2 DEF RunOf, Object, WorkStep
<1>4. ~Fresh(c) /\ ~Fresh(ref[c])
  <2>1. ~Fresh(c)
    BY DEF WorkStep, Working
  <2>2. QED
    BY <1>1, <2>1 DEF Shape, FreshIsPrivate
<1>5. \A d \in Calls : Fresh(d)' => Fresh(d) /\ d # c
  BY DEF Fresh, WorkStep
<1>6. ObjectsHaveRuns'
  <2>1. \A d \in Calls : Working(d)' => RunOf(d)' \in Runs
    <3>1. \A d \in Calls : d # c => Working(d)' = Working(d)
      BY DEF Working, Live, Fresh, WorkStep
    <3>2. QED
      BY <1>1, <1>3, <3>1 DEF Shape, ObjectsHaveRuns
  <2>2. \A d \in Calls : pc'[d] = "loading" => heap'[d].run \in Runs
    BY <1>2 DEF Shape, ObjectsHaveRuns, WorkStep
  <2>3. \A p \in Procs, r \in Runs :
          cache'[p][r] # None => heap'[cache'[p][r]].run = r
    <3>1. SUFFICES ASSUME NEW p \in Procs, NEW r \in Runs,
                          cache'[p][r] # None
                   PROVE  heap'[cache'[p][r]].run = r
      OBVIOUS
    <3>2. CASE cache'[p][r] = cache[p][r]
      <4>1. cache[p][r] \in Calls
        BY <3>1, <3>2 DEF Shape, TypeOK
      <4>2. QED
        BY <1>2, <3>1, <3>2, <4>1 DEF Shape, ObjectsHaveRuns
    <3>3. CASE r = RunOf(c) /\ cache'[p][r] = ref[c]
      BY <3>3 DEF WorkStep
    <3>4. QED BY <3>2, <3>3 DEF WorkStep
  <2>4. \A r \in Runs : Stored(r)' => state'[r].run = r
    BY DEF Stored, Shape, ObjectsHaveRuns, WorkStep
  <2>5. QED BY <2>1, <2>2, <2>3, <2>4 DEF ObjectsHaveRuns
<1>7. FreshIsPrivate'
  <2>1. \A p \in Procs, r \in Runs : cache'[p][r] # None =>
          pc'[cache'[p][r]] \notin {"idle", "loading"}
    <3>1. SUFFICES ASSUME NEW p \in Procs, NEW r \in Runs,
                          cache'[p][r] # None
                   PROVE  pc'[cache'[p][r]] \notin {"idle", "loading"}
      OBVIOUS
    <3>2. cache'[p][r] \in Calls
      BY <3>1 DEF WorkStep, TypeOK
    <3>3. CASE cache'[p][r] = cache[p][r]
      <4>1. ~Fresh(cache[p][r])
        BY <3>1, <3>3 DEF Shape, FreshIsPrivate
      <4>2. QED BY <1>5, <3>2, <3>3, <4>1 DEF Fresh
    <3>4. CASE cache'[p][r] = ref[c]
      BY <1>1, <1>4, <1>5, <3>4 DEF Fresh
    <3>5. QED BY <3>3, <3>4 DEF WorkStep
  <2>2. QED
    BY <1>5, <2>1 DEF Shape, FreshIsPrivate, WorkStep, Fresh
<1>8. LocalsAreSet'
  <2>1. \A d \in Calls :
          pc'[d] \in {"executing", "stepping", "pausing", "syncing",
                    "putStepping", "putSyncing"} =>
            local'[d].at \in Steps
    BY DEF Shape, LocalsAreSet, WorkStep
  <2>2. \A d \in Calls :
          pc'[d] \in {"resolving", "deciding"} =>
            local'[d].id \in DOMAIN requests'[RunOf(d)']
    <3>1. SUFFICES ASSUME NEW d \in Calls, d # c,
                          pc'[d] \in {"resolving", "deciding"}
                   PROVE  local'[d].id \in DOMAIN requests'[RunOf(d)]
      BY <1>3 DEF WorkStep
    <3>2. pc[d] \in {"resolving", "deciding"} /\ local'[d] = local[d]
      BY <3>1 DEF WorkStep
    <3>3. Working(d)
      BY <3>2 DEF Working, Live, Fresh
    <3>4. RunOf(d) \in Runs /\ local[d].id \in DOMAIN requests[RunOf(d)]
      BY <3>2, <3>3 DEF Shape, ObjectsHaveRuns, LocalsAreSet
    <3>5. QED BY <3>2, <3>4 DEF WorkStep, RequestsKept
  <2>3. \A d \in Calls :
          pc'[d] = "loading" /\ local'[d].ask = "respond" =>
            local'[d].id \in DOMAIN requests'[heap'[d].run]
    <3>1. SUFFICES ASSUME NEW d \in Calls, d # c, pc'[d] = "loading",
                          local'[d].ask = "respond"
                   PROVE  local'[d].id \in DOMAIN requests'[heap[d].run]
      BY <1>2 DEF WorkStep
    <3>2. pc[d] = "loading" /\ local'[d] = local[d]
      BY <3>1 DEF WorkStep
    <3>3. /\ heap[d].run \in Runs
          /\ local[d].id \in DOMAIN requests[heap[d].run]
      BY <3>1, <3>2 DEF Shape, ObjectsHaveRuns, LocalsAreSet
    <3>4. QED BY <3>2, <3>3 DEF WorkStep, RequestsKept
  <2>4. QED BY <2>1, <2>2, <2>3 DEF LocalsAreSet
<1>9. PutsSuspend'
  BY DEF Shape, PutsSuspend, WorkStep
<1>10. QED
  BY <1>6, <1>7, <1>8, <1>9 DEF Shape, WorkStep

(* A call that persists the object it works on, and goes where its locals     *)
(* are set, does such a step.                                               *)
LEMMA PersistStep ==
  ASSUME Shape, NEW c \in Calls, Working(c),
         NEW s \in RunState, s.run = RunOf(c),
         NEW label \in DOMAIN InPut,
         Persist(c, ref[c], s, label),
         RequestsKept,
         UNCHANGED <<ref, crashes>>,
         local' \in [Calls -> Local],
         \A d \in Calls : d # c => local'[d] = local[d],
         label \in {"stepping", "syncing"} => local'[c].at \in Steps
  PROVE  WorkStep(c)
<1>1. ref[c] \in Calls /\ s.run \in Runs /\ TypeOK
  BY DEF Shape, TypeOK, ObjectsHaveRuns
<1>2. /\ StoreTypeOK' /\ HistoryTypeOK'
      /\ heap' \in [Calls -> RunState]
      /\ heap'[ref[c]].run = s.run
      /\ \A d \in Calls : d # ref[c] => heap'[d] = heap[d]
      /\ cache' \in [Procs -> [Runs -> Calls \cup {None}]]
      /\ \A p \in Procs, r \in Runs :
           cache'[p][r] = IF p = ProcOf[c] /\ r = s.run
                          THEN ref[c] ELSE cache[p][r]
      /\ pc' \in [Calls -> PC]
      /\ pc'[c] \in {label, InPut[label], "done"}
      /\ pc'[c] = InPut[label] => InPut[label] \in Yields
      /\ \A d \in Calls : d # c => pc'[d] = pc[d]
      /\ \A r \in Runs : r # s.run => state'[r] = state[r]
      /\ state' = state \/ state'[s.run].run = s.run
  BY <1>1, PersistFacts
<1>3. TypeOK'
  BY <1>1, <1>2 DEF TypeOK, RequestsKept
<1>4. /\ pc'[c] \notin {"idle", "loading", "resolving", "deciding"}
      /\ pc'[c] \in {"executing", "stepping", "pausing", "syncing",
                     "putStepping", "putSyncing"} => label \in {"stepping", "syncing"}
      /\ pc'[c] \in Writing => pc'[c] \in Yields
  BY <1>2 DEF InPut, Writing
<1>5. QED
  BY <1>2, <1>3, <1>4 DEF WorkStep

(* A put that suspended goes on: it writes the object as it is by then, or is   *)
(* refused.                                                                 *)
LEMMA WriteStep ==
  ASSUME Shape, NEW c \in Calls, Write(c)
  PROVE  WorkStep(c)
<1> DEFINE w == [Object(c) EXCEPT !.ckpt = 0]
<1>1. PICK label \in DOMAIN InPut :
        /\ At(c, InPut[label])
        /\ \/ /\ Put(w)
              /\ Remember(w)
              /\ heap' = [heap EXCEPT ![ref[c]] = Stamped(w)]
              /\ Goto(c, label)
           \/ /\ Finish(c)
              /\ UNCHANGED <<storeVars, history, heap>>
  BY DEF Write
<1>2. /\ pc[c] = InPut[label]
      /\ Working(c)
      /\ label \notin {"executing", "pausing", "putStepping", "putSyncing", "idle",
                       "loading", "resolving", "deciding"}
      /\ label \in {"stepping", "syncing"} =>
           pc[c] \in {"putStepping", "putSyncing"}
      /\ label \notin Writing /\ label \in PC /\ "done" \in PC
  BY <1>1 DEF At, InPut, Working, Live, Fresh, Writing, PC
<1>3. /\ ref[c] \in Calls /\ w \in RunState /\ w.run = RunOf(c)
      /\ RunOf(c) \in Runs /\ TypeOK
  <2>1. Object(c) \in RunState /\ Object(c).run = RunOf(c) /\ RunOf(c) \in Runs
        /\ ref[c] \in Calls
    BY <1>2 DEF Shape, TypeOK, ObjectsHaveRuns, Object, RunOf
  <2>2. QED BY <2>1 DEF RunState, Shape
<1>4. UNCHANGED <<interruptVars, ref, cache, local, crashes>>
  BY DEF Write
<1>5. RequestsKept
  BY <1>3, <1>4, SameRequests DEF TypeOK
<1>6. CASE /\ Put(w)
           /\ Remember(w)
           /\ heap' = [heap EXCEPT ![ref[c]] = Stamped(w)]
           /\ Goto(c, label)
  <2>1. /\ StoreTypeOK'
        /\ Stamped(w) \in RunState
        /\ Stamped(w).run = RunOf(c)
        /\ state' = [state EXCEPT ![RunOf(c)] = Stamped(w)]
    BY <1>3, <1>6, PutType DEF TypeOK
  <2>2. /\ heap' \in [Calls -> RunState]
        /\ heap'[ref[c]].run = RunOf(c)
        /\ \A d \in Calls : d # ref[c] => heap'[d] = heap[d]
    BY <1>3, <1>6, <2>1 DEF TypeOK
  <2>3. /\ pc' \in [Calls -> PC]
        /\ pc'[c] = label
        /\ \A d \in Calls : d # c => pc'[d] = pc[d]
    BY <1>2, <1>3, <1>6 DEF TypeOK, Goto
  <2>4. HistoryTypeOK'
    BY <1>3, <1>6, RememberType
  <2>5. TypeOK'
    BY <1>3, <1>4, <1>5, <2>1, <2>2, <2>3, <2>4 DEF TypeOK, RequestsKept
  <2>6. \A r \in Runs : state'[r] = state[r] \/ state'[r].run = r
    BY <1>3, <2>1 DEF TypeOK, StoreTypeOK
  <2>7. label \in {"stepping", "syncing"} => local'[c].at \in Steps
    BY <1>2, <1>4 DEF Shape, LocalsAreSet
  <2>8. QED
    BY <1>2, <1>4, <1>5, <2>2, <2>3, <2>5, <2>6, <2>7 DEF WorkStep
<1>7. CASE Finish(c) /\ UNCHANGED <<storeVars, history, heap>>
  <2>1. /\ pc' \in [Calls -> PC]
        /\ pc'[c] = "done" /\ "done" \notin Writing
        /\ \A d \in Calls : d # c => pc'[d] = pc[d]
    BY <1>2, <1>3, <1>7 DEF TypeOK, Finish, Goto, Writing
  <2>2. StoreTypeOK' /\ state' = state /\ HistoryTypeOK'
    BY <1>3, <1>7, SameHistory DEF TypeOK, StoreTypeOK, storeVars
  <2>3. TypeOK'
    BY <1>3, <1>4, <1>5, <1>7, <2>1, <2>2 DEF TypeOK, RequestsKept
  <2>4. heap'[ref[c]].run = RunOf(c)
    BY <1>7 DEF RunOf, Object
  <2>5. QED
    BY <1>2, <1>4, <1>5, <1>7, <2>1, <2>2, <2>3, <2>4 DEF WorkStep
<1>8. QED
  BY <1>1, <1>6, <1>7

(* What a call that works on an object knows about it. *)
LEMMA ObjectType ==
  ASSUME Shape, NEW c \in Calls, Working(c)
  PROVE  /\ ref[c] \in Calls
         /\ Object(c) \in RunState
         /\ RunOf(c) \in Runs
         /\ RunOf(c) = Object(c).run
         /\ local[c] \in Local
BY DEF Shape, TypeOK, ObjectsHaveRuns, Object, RunOf

(* A call at a control point past loading works on an object. *)
LEMMA AtWork ==
  ASSUME NEW c \in Calls, NEW label, At(c, label),
         label \notin {"idle", "loading", "done", "crashed"}
  PROVE  Working(c)
BY DEF At, Working, Live, Fresh

-----------------------------------------------------------------------------
(* One lemma for each group of actions: they are steps of that kind. *)

(* Actions that persist the object and change nothing else than the history.  *)
LEMMA PlainPersistStep ==
  ASSUME Shape, NEW c \in Calls, Working(c),
         NEW s \in RunState, s.run = RunOf(c),
         NEW label \in {"advancing", "clearing", "done", "continuing",
                        "stepping", "syncing"},
         Persist(c, ref[c], s, label),
         label \in {"stepping", "syncing"} => local[c].at \in Steps,
         UNCHANGED <<interruptVars, ref, local, crashes>>
  PROVE  WorkStep(c)
<1>1. RequestsKept
  BY SameRequests DEF Shape, TypeOK
<1>2. local' \in [Calls -> Local] /\ \A d \in Calls : local'[d] = local[d]
  BY DEF Shape, TypeOK
<1>3. label \in DOMAIN InPut
  BY PutLabels
<1>4. QED
  BY <1>1, <1>2, <1>3, PersistStep

(* run_workflow sets a pending run running. *)
LEMMA LaunchStep ==
  ASSUME Shape, NEW c \in Calls, Launch(c)
  PROVE  WorkStep(c)
<1>1. Working(c)
  BY AtWork DEF Launch
<1>2. [Object(c) EXCEPT !.status = "RUNNING"] \in RunState
  BY <1>1, ObjectType DEF RunState, Status
<1>3. [Object(c) EXCEPT !.status = "RUNNING"].run = RunOf(c)
  BY <1>1, ObjectType DEF RunState
<1>4. QED
  BY <1>1, <1>2, <1>3, PlainPersistStep DEF Launch, Shape, TypeOK

(* A granted approval clears the wait. *)
LEMMA GrantApprovalStep ==
  ASSUME Shape, NEW c \in Calls, GrantApproval(c)
  PROVE  WorkStep(c)
<1> DEFINE s == [Object(c) EXCEPT !.approval = None, !.status = "RUNNING"]
<1>1. Working(c)
  BY AtWork DEF GrantApproval
<1>2. s \in RunState /\ s.run = RunOf(c)
  BY <1>1, ObjectType DEF RunState, Status
<1>3. Persist(c, ref[c], s, "advancing")
      /\ UNCHANGED <<interruptVars, ref, local, crashes>>
  BY DEF GrantApproval
<1>4. QED
  BY <1>1, <1>2, <1>3, PlainPersistStep

(* A rejected approval fails the run. *)
LEMMA RejectApprovalStep ==
  ASSUME Shape, NEW c \in Calls, RejectApproval(c)
  PROVE  WorkStep(c)
<1> DEFINE s == [Object(c) EXCEPT !.approval = None, !.status = "FAILED"]
<1>1. Working(c)
  BY AtWork DEF RejectApproval
<1>2. s \in RunState /\ s.run = RunOf(c)
  BY <1>1, ObjectType DEF RunState, Status
<1>3. Persist(c, ref[c], s, "clearing")
      /\ UNCHANGED <<interruptVars, ref, local, crashes>>
  BY SMTT(30) DEF RejectApproval
<1>4. QED
  BY <1>1, <1>2, <1>3, PlainPersistStep DEF Shape, TypeOK

(* An answered run is persisted before it continues. *)
LEMMA PersistResumedStep ==
  ASSUME Shape, NEW c \in Calls, PersistResumed(c)
  PROVE  WorkStep(c)
<1>1. Working(c)
  BY AtWork DEF PersistResumed
<1>2. Object(c) \in RunState /\ Object(c).run = RunOf(c) /\ RunOf(c) \in Runs
  BY <1>1, ObjectType
<1>3. RequestsKept
  BY <1>2, BumpEpochKeeps DEF PersistResumed, Shape, TypeOK
<1>4. Persist(c, ref[c], Object(c), "continuing")
      /\ UNCHANGED <<ref, local, crashes>>
  BY DEF PersistResumed
<1>5. QED
  BY <1>1, <1>2, <1>3, <1>4, PersistStep, PutLabels DEF Shape, TypeOK

(* Moving to a resolved transition. *)
LEMMA MoveStep ==
  ASSUME Shape, NEW c \in Calls, Working(c),
         NEW s \in RunState, s.run = RunOf(c),
         NEW next \in Steps \cup {End}, Move(c, s, next),
         UNCHANGED <<interruptVars, ref, local, crashes>>
  PROVE  WorkStep(c)
<1>1. CASE next = End
  <2> DEFINE w == [s EXCEPT !.step = None, !.status = "COMPLETED"]
  <2>1. w \in RunState /\ w.run = RunOf(c)
    BY DEF RunState, Status
  <2>2. Persist(c, ref[c], w, "clearing")
    BY <1>1 DEF Move
  <2>3. QED BY <2>1, <2>2, PlainPersistStep
<1>2. CASE next # End
  <2> DEFINE w == [s EXCEPT !.step = next]
  <2>1. w \in RunState /\ w.run = RunOf(c)
    BY <1>2 DEF RunState
  <2>2. Persist(c, ref[c], w, "advancing")
    BY <1>2 DEF Move
  <2>3. QED BY <2>1, <2>2, PlainPersistStep
<1>3. QED BY <1>1, <1>2

(* A step that leaves the store, the requests and the caches alone and only   *)
(* changes fields of the object, the call's locals and where it is.          *)
LEMMA LocalStep ==
  ASSUME Shape, NEW c \in Calls, Working(c),
         UNCHANGED <<storeVars, ref, cache, crashes>>,
         RequestsKept,
         heap' \in [Calls -> RunState],
         heap'[ref[c]].run = RunOf(c),
         \A d \in Calls : d # ref[c] => heap'[d] = heap[d],
         HistoryTypeOK',
         local' \in [Calls -> Local],
         \A d \in Calls : d # c => local'[d] = local[d],
         NEW label \in PC \ ({"idle", "loading"} \cup Writing), Goto(c, label),
         label \in {"executing", "stepping", "pausing", "syncing"} =>
           local'[c].at \in Steps,
         label \in {"resolving", "deciding"} =>
           local'[c].id \in DOMAIN requests'[RunOf(c)]
  PROVE  WorkStep(c)
<1>1. /\ pc' \in [Calls -> PC]
      /\ pc'[c] = label
      /\ \A d \in Calls : d # c => pc'[d] = pc[d]
  BY DEF Shape, TypeOK, Goto
<1>2. StoreTypeOK' /\ state' = state
  BY DEF Shape, TypeOK, StoreTypeOK, storeVars
<1>3. TypeOK'
  BY <1>1, <1>2 DEF Shape, TypeOK, RequestsKept
<1>4. QED
  BY <1>1, <1>2, <1>3 DEF WorkStep, Writing

(* The call stops, or goes on, with everything else unchanged. *)
LEMMA QuietStep ==
  ASSUME Shape, NEW c \in Calls, Working(c),
         UNCHANGED <<storeVars, interruptVars, heap, ref, cache, local, crashes,
                     history>>,
         NEW label \in {"done", "advancing"}, Goto(c, label)
  PROVE  WorkStep(c)
<1>1. RequestsKept
  BY SameRequests DEF Shape, TypeOK
<1>2. heap'[ref[c]].run = RunOf(c)
  BY DEF RunOf, Object
<1>3. label \in PC \ ({"idle", "loading"} \cup Writing)
  BY DEF PC, Writing
<1>4. /\ heap' \in [Calls -> RunState] /\ HistoryTypeOK'
      /\ local' \in [Calls -> Local]
  BY SameHistory DEF Shape, TypeOK
<1>5. QED
  BY <1>1, <1>2, <1>3, <1>4, LocalStep

(* The run becomes the active one of its thread. *)
LEMMA RegisterActiveRunStep ==
  ASSUME Shape, NEW c \in Calls, RegisterActiveRun(c)
  PROVE  WorkStep(c)
<1> DEFINE t == Object(c).thread
           r == RunOf(c)
<1>1. Working(c)
  BY AtWork DEF RegisterActiveRun
<1>2. r \in Runs
  BY <1>1, ObjectType
<1>3. StoreTypeOK' /\ state' = state
  <2>1. threadRuns' \in [Threads -> Seq(Runs)]
    BY <1>2, RecordedType
       DEF RegisterActiveRun, SetActiveRunId, Shape, TypeOK, StoreTypeOK
  <2>2. QED
    BY <1>2, <2>1
       DEF RegisterActiveRun, SetActiveRunId, Shape, TypeOK, StoreTypeOK
<1>4. RequestsKept
  BY SameRequests DEF RegisterActiveRun, Shape, TypeOK
<1>5. /\ pc' \in [Calls -> PC]
      /\ pc'[c] \in {"launching", "advancing"}
      /\ \A d \in Calls : d # c => pc'[d] = pc[d]
  BY DEF RegisterActiveRun, Goto, Shape, TypeOK, PC
<1>6. UNCHANGED <<heap, ref, cache, local, crashes, history>>
  BY DEF RegisterActiveRun
<1>7. TypeOK'
  BY <1>3, <1>4, <1>5, <1>6, SameHistory DEF Shape, TypeOK, RequestsKept
<1>8. QED
  BY <1>1, <1>3, <1>4, <1>5, <1>6, <1>7 DEF WorkStep, RunOf, Object, Writing

(* A terminal run is taken off its thread. *)
LEMMA ClearActiveRunStep ==
  ASSUME Shape, NEW c \in Calls, ClearActiveRun(c)
  PROVE  WorkStep(c)
<1>1. Working(c)
  BY AtWork DEF ClearActiveRun
<1>2. StoreTypeOK' /\ state' = state
  BY DEF ClearActiveRun, ClearActiveRunId, Shape, TypeOK, StoreTypeOK
<1>3. RequestsKept
  BY SameRequests DEF ClearActiveRun, Shape, TypeOK
<1>4. /\ pc' \in [Calls -> PC]
      /\ pc'[c] = "done"
      /\ \A d \in Calls : d # c => pc'[d] = pc[d]
  BY DEF ClearActiveRun, Finish, Goto, Shape, TypeOK, PC
<1>5. UNCHANGED <<heap, ref, cache, local, crashes, history>>
  BY DEF ClearActiveRun
<1>6. TypeOK'
  BY <1>2, <1>3, <1>4, <1>5, SameHistory DEF Shape, TypeOK, RequestsKept
<1>7. QED
  BY <1>1, <1>2, <1>3, <1>4, <1>5, <1>6 DEF WorkStep, RunOf, Object, Writing

(* resolve reads a request that exists. *)
LEMMA ReadRequestStep ==
  ASSUME Shape, NEW c \in Calls, ReadRequest(c)
  PROVE  WorkStep(c)
<1> DEFINE r == RunOf(c)
<1>1. Working(c)
  BY AtWork DEF ReadRequest
<1>2. r \in Runs /\ local[c] \in Local
  BY <1>1, ObjectType
<1>3. local[c].id \in DOMAIN requests[r]
  BY DEF ReadRequest, At, Shape, LocalsAreSet
<1>4. requests[r][local[c].id] \in Request
  <2>1. requests[r] \in Seq(Request)
    BY <1>2 DEF Shape, TypeOK, InterruptsTypeOK
  <2>2. QED BY <1>3, <2>1, ElementOfSeq, LenProperties
<1>5. /\ local' \in [Calls -> Local]
      /\ local'[c].id = local[c].id
      /\ \A d \in Calls : d # c => local'[d] = local[d]
  BY <1>2, <1>4 DEF ReadRequest, Shape, TypeOK, Local
<1>6. RequestsKept
  BY SameRequests DEF ReadRequest, Shape, TypeOK
<1>7. UNCHANGED <<storeVars, heap, ref, cache, crashes, history>>
      /\ Goto(c, "deciding") /\ "deciding" \in PC \ ({"idle", "loading"} \cup Writing)
  BY DEF ReadRequest, PC, Writing
<1>8. local'[c].id \in DOMAIN requests'[r]
  BY <1>2, <1>3, <1>5, <1>6 DEF RequestsKept
<1>9. heap'[ref[c]].run = r
  BY <1>7 DEF RunOf, Object
<1>10. QED
  BY <1>1, <1>5, <1>6, <1>7, <1>8, <1>9, LocalStep, SameHistory DEF Shape, TypeOK

(* resolve saves the request it judged. *)
LEMMA DecideRequestStep ==
  ASSUME Shape, NEW c \in Calls, DecideRequest(c)
  PROVE  WorkStep(c)
<1> DEFINE r == RunOf(c)
           id == local[c].id
           mine == [local[c].request EXCEPT !.late = requests[r][id].late]
           verdict == Verdict(mine, local[c].quote)
<1>1. Working(c)
  BY AtWork DEF DecideRequest
<1>2. r \in Runs /\ local[c] \in Local /\ ref[c] \in Calls
      /\ Object(c) \in RunState
  BY <1>1, ObjectType
<1>3. id \in DOMAIN requests[r]
  BY DEF DecideRequest, At, Shape, LocalsAreSet
<1>4. requests[r][id] \in Request
  <2>1. requests[r] \in Seq(Request)
    BY <1>2 DEF Shape, TypeOK, InterruptsTypeOK
  <2>2. QED BY <1>3, <2>1, ElementOfSeq, LenProperties
<1>5. verdict \in {"resolved", "expired"} => Judged(mine, local[c].quote) \in Request
  <2>1. SUFFICES ASSUME verdict \in {"resolved", "expired"}
                 PROVE  Judged(mine, local[c].quote) \in Request
    OBVIOUS
  <2>2. local[c].request \in Request \cup {NoRequest}
    BY <1>2 DEF Local
  <2>3. CASE local[c].request = NoRequest
    <3>1. mine.status = "deleted"
      BY <2>3 DEF NoRequest
    <3>2. verdict = "unknown"
      BY <3>1 DEF Verdict, IsPending
    <3>3. QED BY <2>1, <3>2
  <2>4. CASE local[c].request \in Request
    <3>1. mine \in Request
      BY <1>4, <2>4 DEF Request
    <3>2. Judged(mine, local[c].quote) = [mine EXCEPT !.status = verdict]
      BY <2>1 DEF Judged
    <3>3. QED BY <2>1, <3>1, <3>2 DEF Request, RequestStatus
  <2>5. QED BY <2>2, <2>3, <2>4
<1>6. RequestsKept
  <2>1. CASE verdict \in {"resolved", "expired"}
    <3>1. /\ requests' = [requests EXCEPT ![r] =
                [requests[r] EXCEPT ![id] = Judged(mine, local[c].quote)]]
          /\ epochs' = epochs
      BY <2>1 DEF DecideRequest
    <3>2. QED BY <1>5, <2>1, <3>1, SaveKeeps DEF Shape, TypeOK
  <2>2. CASE verdict \notin {"resolved", "expired"}
    <3>1. UNCHANGED interruptVars
      BY <2>2 DEF DecideRequest, interruptVars
    <3>2. QED BY <3>1, SameRequests DEF Shape, TypeOK
  <2>3. QED BY <2>1, <2>2
<1>7. UNCHANGED <<storeVars, ref, cache, local, crashes, history>>
  BY DEF DecideRequest
<1>8. CASE /\ heap' = [heap EXCEPT ![ref[c]].interrupt = 0,
                                   ![ref[c]].status = "RUNNING"]
           /\ Goto(c, "resumed")
  <2>1. heap' = [heap EXCEPT ![ref[c]] =
                   [Object(c) EXCEPT !.interrupt = 0, !.status = "RUNNING"]]
    BY <1>2, <1>8 DEF Object, Shape, TypeOK
  <2>2. LET s == [Object(c) EXCEPT !.interrupt = 0, !.status = "RUNNING"] IN
          s \in RunState /\ s.run = r
    BY <1>2 DEF RunState, Status, RunOf
  <2>3. /\ heap' \in [Calls -> RunState]
        /\ heap'[ref[c]].run = r
        /\ \A d \in Calls : d # ref[c] => heap'[d] = heap[d]
    BY <1>2, <2>1, <2>2 DEF Shape, TypeOK
  <2>4. "resumed" \in PC \ ({"idle", "loading"} \cup Writing)
    BY DEF PC, Writing
  <2>5. QED
    BY <1>1, <1>6, <1>7, <1>8, <2>3, <2>4, LocalStep, SameHistory DEF Shape, TypeOK
<1>9. CASE Finish(c) /\ UNCHANGED heap
  <2>1. heap'[ref[c]].run = r
    BY <1>9 DEF RunOf, Object
  <2>2. "done" \in PC \ ({"idle", "loading"} \cup Writing)
    BY DEF PC, Writing
  <2>3. QED
    BY <1>1, <1>6, <1>7, <1>9, <2>1, <2>2, LocalStep, SameHistory DEF Shape, TypeOK, Finish
<1>10. QED
  BY <1>8, <1>9 DEF DecideRequest

(* The transition kept with the run is taken. *)
LEMMA ContinueStep ==
  ASSUME Shape, NEW c \in Calls, Continue(c)
  PROVE  WorkStep(c)
<1> DEFINE s == [Object(c) EXCEPT !.resume = None]
<1>1. Working(c)
  BY AtWork DEF Continue
<1>2. /\ ref[c] \in Calls
      /\ s \in RunState
      /\ s.run = RunOf(c)
      /\ Object(c).resume \in Steps \cup {None}
  BY <1>1, ObjectType DEF RunState
<1>3. UNCHANGED <<interruptVars, ref, local, crashes>>
  BY DEF Continue
<1>4. ASSUME Object(c).resume # None, NEW next \in Targets[Object(c).resume],
             Move(c, s, next)
      PROVE  WorkStep(c)
  <2>1. next \in Steps \cup {End}
    BY <1>2, <1>4, RuntimeConstants
  <2>2. QED BY <1>1, <1>2, <1>3, <1>4, <2>1, MoveStep
<1>5. ASSUME Goto(c, "advancing") \/ Finish(c),
             heap' = [heap EXCEPT ![ref[c]] = s],
             UNCHANGED <<storeVars, history, cache>>
      PROVE  WorkStep(c)
  <2>1. PICK label \in {"advancing", "done"} : Goto(c, label)
    BY <1>5 DEF Finish
  <2>2. label \in PC \ ({"idle", "loading"} \cup Writing)
    BY DEF PC, Writing
  <2>3. RequestsKept
    BY <1>3, SameRequests DEF Shape, TypeOK
  <2>4. /\ heap' \in [Calls -> RunState]
        /\ heap'[ref[c]].run = RunOf(c)
        /\ \A d \in Calls : d # ref[c] => heap'[d] = heap[d]
    BY <1>2, <1>5 DEF Shape, TypeOK
  <2>5. QED
    BY <1>1, <1>3, <1>5, <2>1, <2>2, <2>3, <2>4, LocalStep, SameHistory DEF Shape, TypeOK
<1>6. QED
  BY <1>4, <1>5 DEF Continue

(* The steps at the head of the loop. *)
LEMMA LoopHeadStep ==
  ASSUME Shape, NEW c \in Calls,
         \/ LeaveLoop(c) \/ CompleteRun(c) \/ MissArtifact(c)
         \/ RequestApproval(c) \/ Execute(c)
  PROVE  WorkStep(c)
<1>1. Working(c)
  BY AtWork
     DEF LeaveLoop, CompleteRun, MissArtifact, RequestApproval, Execute, CanEnter
<1>2. /\ Object(c) \in RunState
      /\ Object(c).run = RunOf(c)
      /\ RunOf(c) \in Runs
  BY <1>1, ObjectType
<1>3. CASE LeaveLoop(c)
  BY <1>1, <1>3, QuietStep DEF LeaveLoop, Finish
<1>4. CASE MissArtifact(c)
  BY <1>1, <1>4, QuietStep DEF MissArtifact, Finish
<1>5. CASE CompleteRun(c)
  <2> DEFINE s == [Object(c) EXCEPT !.status = "COMPLETED"]
  <2>1. s \in RunState /\ s.run = RunOf(c)
    BY <1>2 DEF RunState, Status
  <2>2. Persist(c, ref[c], s, "clearing")
        /\ UNCHANGED <<interruptVars, ref, local, crashes>>
    BY <1>5 DEF CompleteRun
  <2>3. QED BY <1>1, <2>1, <2>2, PlainPersistStep DEF Shape, TypeOK
<1>6. CASE RequestApproval(c)
  <2> DEFINE s == Waiting(Object(c), Object(c).step)
  <2>1. s \in RunState /\ s.run = RunOf(c)
    BY <1>2 DEF RunState, Status, Waiting
  <2>2. Persist(c, ref[c], s, "done")
        /\ UNCHANGED <<interruptVars, ref, local, crashes>>
    BY <1>6 DEF RequestApproval
  <2>3. QED BY <1>1, <2>1, <2>2, PlainPersistStep DEF Shape, TypeOK
<1>7. CASE Execute(c)
  <2>1. Object(c).step \in Steps
    BY <1>2, <1>7 DEF Execute, CanEnter, RunState
  <2>2. /\ local' \in [Calls -> Local]
        /\ local'[c].at \in Steps
        /\ \A d \in Calls : d # c => local'[d] = local[d]
    <3>1. [local[c] EXCEPT !.at = Object(c).step] \in Local
      <4>1. local[c] \in Local
        BY DEF Shape, TypeOK
      <4>2. QED BY <2>1, <4>1 DEF Local
    <3>2. local' = [local EXCEPT ![c] = [local[c] EXCEPT !.at = Object(c).step]]
      BY <1>7 DEF Execute
    <3>3. QED BY <2>1, <3>1, <3>2 DEF Shape, TypeOK, Local
  <2>3. HistoryTypeOK'
    <3>1. CASE UNCHANGED history
      BY <3>1, SameHistory DEF Shape
    <3>2. CASE Use(Object(c).run, Object(c).step)
      <4>1. Object(c).run \in Runs /\ Object(c).step \in Steps
        BY <1>2, <2>1
      <4>2. QED BY <3>2, <4>1, UseType DEF Shape
    <3>3. QED BY <1>7, <3>1, <3>2 DEF Execute
  <2>4. RequestsKept
    BY <1>7, SameRequests DEF Execute, Shape, TypeOK
  <2>5. UNCHANGED <<storeVars, heap, ref, cache, crashes>>
        /\ Goto(c, "executing") /\ "executing" \in PC \ ({"idle", "loading"} \cup Writing)
    BY <1>7 DEF Execute, PC, Writing
  <2>6. heap'[ref[c]].run = RunOf(c)
    BY <2>5 DEF RunOf, Object
  <2>7. QED
    BY <1>1, <2>2, <2>3, <2>4, <2>5, <2>6, LocalStep, SameHistory DEF Shape, TypeOK
<1>8. QED
  BY <1>3, <1>4, <1>5, <1>6, <1>7

(* The steps that end the execution of a step. *)
LEMMA ExecutedStep ==
  ASSUME Shape, NEW c \in Calls,
         \/ StepDone(c) \/ StepNeedsApproval(c) \/ StepFails(c)
         \/ StepBadUpdate(c)
  PROVE  WorkStep(c)
<1>1. Working(c) /\ pc[c] = "executing"
  BY AtWork DEF StepDone, StepNeedsApproval, StepFails, StepBadUpdate, At
<1>2. /\ Object(c) \in RunState
      /\ Object(c).run = RunOf(c)
      /\ local[c] \in Local
      /\ local[c].at \in Steps
  BY <1>1, ObjectType DEF Shape, LocalsAreSet
<1>3. CASE StepDone(c)
  <2> DEFINE s == [Object(c) EXCEPT !.completed = @ \cup {local[c].at}]
  <2>1. s \in RunState /\ s.run = RunOf(c)
    BY <1>2 DEF RunState
  <2>2. /\ local' \in [Calls -> Local]
        /\ local'[c].at = local[c].at
        /\ \A d \in Calls : d # c => local'[d] = local[d]
    <3>1. PICK pauses \in BOOLEAN :
            local' = [local EXCEPT ![c] = [local[c] EXCEPT !.pauses = pauses]]
      BY <1>3 DEF StepDone
    <3>2. LET l == [local[c] EXCEPT !.pauses = pauses] IN
            l \in Local /\ l.at = local[c].at
      BY <1>2 DEF Local
    <3>3. QED BY <3>1, <3>2 DEF Shape, TypeOK
  <2>3. RequestsKept
    BY <1>3, SameRequests DEF StepDone, Shape, TypeOK
  <2>4. Persist(c, ref[c], s, "stepping") /\ UNCHANGED <<ref, crashes>>
    BY <1>3 DEF StepDone
  <2>5. QED
    BY <1>1, <1>2, <2>1, <2>2, <2>3, <2>4, PersistStep, PutLabels DEF Shape, TypeOK
<1>4. CASE StepNeedsApproval(c)
  <2> DEFINE s == Waiting(Object(c), local[c].at)
  <2>1. s \in RunState /\ s.run = RunOf(c)
    BY <1>2 DEF RunState, Status, Waiting
  <2>2. Persist(c, ref[c], s, "done")
        /\ UNCHANGED <<interruptVars, ref, local, crashes>>
    BY <1>4 DEF StepNeedsApproval
  <2>3. QED BY <1>1, <2>1, <2>2, PlainPersistStep DEF Shape, TypeOK
<1>5. CASE StepFails(c)
  <2> DEFINE s == [Object(c) EXCEPT !.status = "FAILED"]
  <2>1. s \in RunState /\ s.run = RunOf(c)
    BY <1>2 DEF RunState, Status
  <2>2. Persist(c, ref[c], s, "clearing")
        /\ UNCHANGED <<interruptVars, ref, local, crashes>>
    BY <1>5 DEF StepFails, Fail
  <2>3. QED BY <1>1, <2>1, <2>2, PlainPersistStep DEF Shape, TypeOK
<1>6. CASE StepBadUpdate(c)
  BY <1>1, <1>6, QuietStep DEF StepBadUpdate, Finish
<1>7. QED
  BY <1>3, <1>4, <1>5, <1>6

(* The transition of an executed step is taken. *)
LEMMA TransitStep ==
  ASSUME Shape, NEW c \in Calls, Transit(c)
  PROVE  WorkStep(c)
<1>1. Working(c) /\ pc[c] = "stepping"
  BY AtWork DEF Transit, At
<1>2. Consumed(c) \in RunState /\ Consumed(c).run = RunOf(c)
  BY <1>1, ObjectType DEF RunState, Consumed
<1>3. local[c].at \in Steps
  BY <1>1 DEF Shape, LocalsAreSet
<1>4. UNCHANGED <<interruptVars, ref, local, crashes>>
  BY DEF Transit
<1>5. ASSUME NEW next \in Targets[local[c].at], Move(c, Consumed(c), next)
      PROVE  WorkStep(c)
  <2>1. next \in Steps \cup {End}
    BY <1>3, <1>5, RuntimeConstants
  <2>2. QED BY <1>1, <1>2, <1>4, <1>5, <2>1, MoveStep
<1>6. CASE Persist(c, ref[c], [Consumed(c) EXCEPT !.status = "FAILED"],
                   "clearing")
  <2> DEFINE s == [Consumed(c) EXCEPT !.status = "FAILED"]
  <2>1. s \in RunState /\ s.run = RunOf(c)
    BY <1>2 DEF RunState, Status
  <2>2. QED BY <1>1, <1>4, <1>6, <2>1, PlainPersistStep DEF Shape, TypeOK
<1>7. QED
  BY <1>5, <1>6 DEF Transit

(* A request is created for a run that is about to wait. *)
LEMMA CreateInterruptStep ==
  ASSUME Shape, NEW c \in Calls, CreateInterrupt(c)
  PROVE  WorkStep(c)
<1> DEFINE r == RunOf(c)
           e == Object(c).epoch
<1>1. Working(c) /\ pc[c] = "stepping"
  BY AtWork DEF CreateInterrupt, At
<1>2. /\ ref[c] \in Calls /\ r \in Runs /\ e \in Nat
      /\ Consumed(c) \in RunState /\ Consumed(c).run = r
      /\ local[c] \in Local /\ local[c].at \in Steps
  BY <1>1, ObjectType DEF RunState, Consumed, Shape, LocalsAreSet
<1>3. /\ heap' \in [Calls -> RunState]
      /\ heap'[ref[c]].run = r
      /\ \A d \in Calls : d # ref[c] => heap'[d] = heap[d]
  BY <1>2 DEF CreateInterrupt, Shape, TypeOK
<1>4. UNCHANGED <<storeVars, ref, cache, crashes, history>>
  BY DEF CreateInterrupt
<1>5. CASE /\ Create(r, local[c].at, e)
           /\ local' = [local EXCEPT ![c].id = Len(requests[r]) + 1]
           /\ Goto(c, "pausing")
  <2>1. RequestsKept
    BY <1>2, <1>5, CreateKeeps DEF Shape, TypeOK
  <2>2. Len(requests[r]) + 1 \in Nat
    BY <1>2, LenProperties DEF Shape, TypeOK, InterruptsTypeOK
  <2>3. [local[c] EXCEPT !.id = Len(requests[r]) + 1] \in Local
    BY <1>2, <2>2 DEF Local
  <2>4. /\ local' \in [Calls -> Local]
        /\ local'[c].at \in Steps
        /\ \A d \in Calls : d # c => local'[d] = local[d]
    BY <1>2, <1>5, <2>3 DEF Shape, TypeOK, Local
  <2>5. "pausing" \in PC \ ({"idle", "loading"} \cup Writing)
    BY DEF PC, Writing
  <2>6. QED
    BY <1>1, <1>3, <1>4, <1>5, <2>1, <2>4, <2>5, LocalStep, SameHistory DEF Shape, TypeOK
<1>6. CASE ListPending(r) /\ Finish(c) /\ UNCHANGED local
  <2>1. RequestsKept
    BY <1>2, <1>6, ListPendingKeeps DEF Shape, TypeOK
  <2>2. "done" \in PC \ ({"idle", "loading"} \cup Writing)
    BY DEF PC, Writing
  <2>3. QED
    BY <1>1, <1>3, <1>4, <1>6, <2>1, <2>2, LocalStep, SameHistory DEF Shape, TypeOK, Finish
<1>7. QED
  BY <1>5, <1>6 DEF CreateInterrupt

(* The run is persisted as waiting. *)
LEMMA PersistWaitStep ==
  ASSUME Shape, NEW c \in Calls, PersistWait(c)
  PROVE  WorkStep(c)
<1> DEFINE s == [Object(c) EXCEPT !.interrupt = local[c].id,
                                  !.status = "WAITING_INTERRUPT",
                                  !.resume = local[c].at]
<1>1. Working(c) /\ pc[c] = "pausing"
  BY AtWork DEF PersistWait, At
<1>2. local[c] \in Local /\ local[c].at \in Steps
  BY <1>1, ObjectType DEF Shape, LocalsAreSet
<1>3. s \in RunState /\ s.run = RunOf(c)
  <2>1. Object(c) \in RunState /\ Object(c).run = RunOf(c)
    BY <1>1, ObjectType
  <2>2. local[c].id \in Nat /\ local[c].at \in Steps \cup {None}
    BY <1>2 DEF Local
  <2>3. QED BY <2>1, <2>2 DEF RunState, Status
<1>4. Persist(c, ref[c], s, "syncing")
      /\ UNCHANGED <<interruptVars, ref, local, crashes>>
  BY SMTT(30) DEF PersistWait
<1>5. QED
  BY <1>1, <1>2, <1>3, <1>4, PlainPersistStep DEF Shape, TypeOK

(* The request is given the run's new epoch. *)
LEMMA SyncRequestStep ==
  ASSUME Shape, NEW c \in Calls, SyncRequest(c)
  PROVE  WorkStep(c)
<1> DEFINE r == RunOf(c)
           id == local[c].id
           q == [requests[r][id] EXCEPT !.epoch = Object(c).epoch,
                                        !.status = "pending"]
<1>1. Working(c)
  BY AtWork DEF SyncRequest
<1>2. r \in Runs /\ Object(c).epoch \in Nat
  BY <1>1, ObjectType DEF RunState
<1>3. RequestsKept
  <2>1. CASE id \in DOMAIN requests[r]
    <3>1. requests[r][id] \in Request
      <4>1. requests[r] \in Seq(Request)
        BY <1>2 DEF Shape, TypeOK, InterruptsTypeOK
      <4>2. QED BY <2>1, <4>1, ElementOfSeq, LenProperties
    <3>2. q \in Request
      BY <1>2, <3>1 DEF Request, RequestStatus
    <3>3. requests' = [requests EXCEPT ![r] = [requests[r] EXCEPT ![id] = q]]
          /\ epochs' = epochs
      BY DEF SyncRequest
    <3>4. QED BY <3>2, <3>3, SaveKeeps DEF Shape, TypeOK
  <2>2. CASE id \notin DOMAIN requests[r]
    <3>1. UNCHANGED interruptVars
      BY <1>2, <2>2 DEF SyncRequest, interruptVars, Shape, TypeOK, InterruptsTypeOK
    <3>2. QED BY <3>1, SameRequests DEF Shape, TypeOK
  <2>3. QED BY <2>1, <2>2
<1>4. /\ UNCHANGED <<storeVars, heap, ref, cache, local, crashes, history>>
      /\ Goto(c, "done")
      /\ "done" \in PC \ ({"idle", "loading"} \cup Writing)
  BY DEF SyncRequest, Finish, PC, Writing
<1>5. heap'[ref[c]].run = r
  BY <1>4 DEF RunOf, Object
<1>6. QED
  BY <1>1, <1>3, <1>4, <1>5, LocalStep, SameHistory DEF Shape, TypeOK

-----------------------------------------------------------------------------
(* Shape: the steps by which a call gets its object, and the environment *)

(* A call that creates a run: it puts its own object, under its own name. *)
LEMMA CreationKeepsShape ==
  ASSUME Shape, NEW c \in Calls, pc[c] = "idle",
         NEW s \in RunState, s.run = c,
         BumpEpoch(c), Persist(c, c, s, "registering"),
         UNCHANGED <<ref, local, crashes>>
  PROVE  Shape'
<1>1. TypeOK /\ "registering" \in DOMAIN InPut /\ c \in Runs
      /\ InPut["registering"] = "putRegistering"
  BY DEF Shape, InPut, Calls
<1>2. /\ StoreTypeOK' /\ HistoryTypeOK'
      /\ heap' \in [Calls -> RunState]
      /\ heap'[c].run = s.run
      /\ \A d \in Calls : d # c => heap'[d] = heap[d]
      /\ cache' \in [Procs -> [Runs -> Calls \cup {None}]]
      /\ \A p \in Procs, r \in Runs :
           cache'[p][r] = IF p = ProcOf[c] /\ r = s.run THEN c ELSE cache[p][r]
      /\ pc' \in [Calls -> PC]
      /\ pc'[c] \in {"registering", "putRegistering", "done"}
      /\ pc'[c] = "putRegistering" => "putRegistering" \in Yields
      /\ \A d \in Calls : d # c => pc'[d] = pc[d]
      /\ \A r \in Runs : r # s.run => state'[r] = state[r]
      /\ state' = state \/ state'[s.run].run = s.run
  BY <1>1, PersistFacts
<1>3. RequestsKept
  BY <1>1, BumpEpochKeeps DEF TypeOK
<1>4. TypeOK'
  BY <1>1, <1>2, <1>3 DEF TypeOK, RequestsKept
<1>5. /\ Fresh(c) /\ ref[c] = c
      /\ \A d \in Calls : d # c => ref[d] # c /\ ref[d] \in Calls
      /\ \A p \in Procs, r \in Runs : cache[p][r] # None =>
           cache[p][r] # c /\ cache[p][r] \in Calls
  BY DEF Fresh, Shape, FreshIsPrivate, TypeOK
<1>6. \A d \in Calls : Fresh(d)' => Fresh(d) /\ d # c
  BY <1>2 DEF Fresh
<1>7. \A d \in Calls : d # c => Working(d)' = Working(d)
                              /\ RunOf(d)' = RunOf(d)
  BY <1>2, <1>5 DEF Working, Live, Fresh, RunOf, Object
<1>8. ObjectsHaveRuns'
  <2>1. \A d \in Calls : Working(d)' => RunOf(d)' \in Runs
    <3>1. RunOf(c)' = c
      BY <1>2, <1>5 DEF RunOf, Object
    <3>2. QED BY <1>1, <1>7, <3>1 DEF Shape, ObjectsHaveRuns
  <2>2. \A d \in Calls : pc'[d] = "loading" => heap'[d].run \in Runs
    BY <1>2 DEF Shape, ObjectsHaveRuns
  <2>3. \A p \in Procs, r \in Runs :
          cache'[p][r] # None => heap'[cache'[p][r]].run = r
    BY <1>2, <1>5 DEF Shape, ObjectsHaveRuns
  <2>4. \A r \in Runs : Stored(r)' => state'[r].run = r
    BY <1>2 DEF Stored, Shape, ObjectsHaveRuns
  <2>5. QED BY <2>1, <2>2, <2>3, <2>4 DEF ObjectsHaveRuns
<1>9. FreshIsPrivate'
  BY <1>2, <1>5, <1>6 DEF Fresh, Shape, FreshIsPrivate
<1>10. LocalsAreSet'
  <2>1. \A d \in Calls : d # c =>
          (pc'[d] \in {"executing", "stepping", "pausing", "syncing",
                    "putStepping", "putSyncing"} =>
             local'[d].at \in Steps)
    BY <1>2 DEF Shape, LocalsAreSet
  <2>2. \A d \in Calls : d # c =>
          (pc'[d] \in {"resolving", "deciding"} =>
             local'[d].id \in DOMAIN requests'[RunOf(d)'])
    <3>1. SUFFICES ASSUME NEW d \in Calls, d # c,
                          pc[d] \in {"resolving", "deciding"}
                   PROVE  local[d].id \in DOMAIN requests'[RunOf(d)]
      BY <1>2, <1>7
    <3>2. RunOf(d) \in Runs /\ local[d].id \in DOMAIN requests[RunOf(d)]
      BY <3>1 DEF Working, Live, Fresh, Shape, ObjectsHaveRuns, LocalsAreSet
    <3>3. QED BY <1>3, <3>2 DEF RequestsKept
  <2>3. \A d \in Calls : d # c =>
          (pc'[d] = "loading" /\ local'[d].ask = "respond" =>
             local'[d].id \in DOMAIN requests'[heap'[d].run])
    BY <1>2, <1>3 DEF Shape, ObjectsHaveRuns, LocalsAreSet, RequestsKept
  <2>4. QED BY <1>2, <2>1, <2>2, <2>3 DEF LocalsAreSet
<1>11. PutsSuspend'
  BY <1>2 DEF Shape, PutsSuspend, Writing
<1>12. QED
  BY <1>4, <1>8, <1>9, <1>10, <1>11 DEF Shape

(* run_workflow creates a run. *)
LEMMA RunWorkflowKeepsShape ==
  ASSUME Shape, NEW c \in Calls, NEW t \in Threads, RunWorkflow(c, t)
  PROVE  Shape'
<1>1. NewRun(c, t) \in RunState /\ NewRun(c, t).run = c
  BY RuntimeConstants DEF NewRun, NoState, RunState, Status, Calls
<1>2. QED
  BY <1>1, CreationKeepsShape DEF RunWorkflow, At

(* resume_from_checkpoint creates a run from a snapshot. *)
LEMMA ResumeFromCheckpointKeepsShape ==
  ASSUME Shape, NEW c \in Calls, NEW k \in DOMAIN checkpoints,
         ResumeFromCheckpoint(c, k)
  PROVE  Shape'
<1>1. checkpoints[k] \in RunState
  BY ElementOfSeq, LenProperties DEF Shape, TypeOK, StoreTypeOK
<1>2. Restored(c, k) \in RunState /\ Restored(c, k).run = c
  BY <1>1 DEF Restored, RunState, Status, Calls
<1>3. QED
  BY <1>2, CreationKeepsShape DEF ResumeFromCheckpoint, At

(* A call that finds its object, in the cache or in the store. *)
LEMMA DispatchKeepsShape ==
  ASSUME Shape, NEW c \in Calls, Fresh(c),
         NEW o \in Calls, o = c \/ ~Fresh(o), heap[o].run \in Runs,
         NEW l \in Local,
         l.ask = "respond" => l.id \in DOMAIN requests[heap[o].run],
         Dispatch(c, o, l),
         cache' \in [Procs -> [Runs -> Calls \cup {None}]],
         \A p \in Procs, r \in Runs :
           cache'[p][r] = cache[p][r] \/ (r = heap[o].run /\ cache'[p][r] = o),
         UNCHANGED <<storeVars, interruptVars, crashes, history>>
  PROVE  Shape'
<1>1. heap[o] \in RunState
  BY DEF Shape, TypeOK
<1>2. /\ heap' \in [Calls -> RunState]
      /\ \A d \in Calls : heap'[d].run = heap[d].run
  <2>1. CASE heap' = heap
    BY <2>1 DEF Shape, TypeOK
  <2>2. CASE /\ heap[o].approval # None
             /\ heap' = [heap EXCEPT ![o].approved =
                           @ \cup {heap[o].approval}]
    <3> DEFINE s == [heap[o] EXCEPT !.approved = @ \cup {heap[o].approval}]
    <3>1. s \in RunState /\ s.run = heap[o].run
      BY <1>1, <2>2 DEF RunState
    <3>2. heap' = [heap EXCEPT ![o] = s]
      BY <2>2
    <3>3. QED BY <3>1, <3>2 DEF Shape, TypeOK
  <2>3. QED BY <2>1, <2>2 DEF Dispatch
<1>3. /\ local' \in [Calls -> Local]
      /\ local'[c].id = l.id /\ local'[c].ask = l.ask
      /\ \A d \in Calls : d # c => local'[d] = local[d]
  <2>1. heap[o].epoch \in Nat
    BY <1>1 DEF RunState
  <2>2. PICK q \in Nat \cup {None} :
          local' = [local EXCEPT ![c] = [l EXCEPT !.quote = q]]
    BY <2>1 DEF Dispatch, Local
  <2>3. LET m == [l EXCEPT !.quote = q] IN
          m \in Local /\ m.id = l.id /\ m.ask = l.ask
    BY DEF Local
  <2>4. QED BY <2>2, <2>3 DEF Shape, TypeOK
<1>4. ref' = [ref EXCEPT ![c] = o]
  BY DEF Dispatch
<1>5. /\ pc' \in [Calls -> PC]
      /\ pc'[c] \in {"granting", "rejecting", "resolving", "done"}
      /\ pc'[c] = "resolving" => l.ask = "respond"
      /\ \A d \in Calls : d # c => pc'[d] = pc[d]
  <2>1. PICK label \in {"granting", "rejecting", "resolving", "done"} :
          Goto(c, label) /\ (label = "resolving" => l.ask = "respond")
    BY DEF Dispatch
  <2>2. QED BY <2>1 DEF Goto, Shape, TypeOK, PC
<1>6. RequestsKept /\ StoreTypeOK' /\ state' = state /\ requests' = requests
  BY SameRequests DEF Shape, TypeOK, StoreTypeOK, storeVars, interruptVars
<1>7. TypeOK'
  BY <1>2, <1>3, <1>4, <1>5, <1>6, SameHistory DEF Shape, TypeOK, RequestsKept
<1>8. \A d \in Calls : Fresh(d)' => Fresh(d) /\ d # c /\ d # o
  BY <1>5 DEF Fresh
<1>9. \A d \in Calls : d # c =>
        Working(d)' = Working(d) /\ RunOf(d)' = RunOf(d)
  BY <1>2, <1>4, <1>5
     DEF Working, Live, Fresh, RunOf, Object, Shape, TypeOK
<1>10. RunOf(c)' = heap[o].run
  BY <1>2, <1>4 DEF RunOf, Object, Shape, TypeOK
<1>11. ObjectsHaveRuns'
  <2>1. \A d \in Calls : Working(d)' => RunOf(d)' \in Runs
    BY <1>9, <1>10 DEF Shape, ObjectsHaveRuns
  <2>2. \A d \in Calls : pc'[d] = "loading" => heap'[d].run \in Runs
    BY <1>2, <1>5 DEF Shape, ObjectsHaveRuns
  <2>3. \A p \in Procs, r \in Runs :
          cache'[p][r] # None => heap'[cache'[p][r]].run = r
    <3>1. SUFFICES ASSUME NEW p \in Procs, NEW r \in Runs,
                          cache'[p][r] # None
                   PROVE  heap'[cache'[p][r]].run = r
      OBVIOUS
    <3>2. cache'[p][r] \in Calls
      BY <3>1
    <3>3. QED BY <1>2, <3>1, <3>2 DEF Shape, ObjectsHaveRuns
  <2>4. \A r \in Runs : Stored(r)' => state'[r].run = r
    BY <1>6 DEF Stored, Shape, ObjectsHaveRuns
  <2>5. QED BY <2>1, <2>2, <2>3, <2>4 DEF ObjectsHaveRuns
<1>12. FreshIsPrivate'
  <2>1. \A d, e \in Calls : Fresh(d)' /\ ref'[e] = d => e = d
    BY <1>4, <1>8 DEF Shape, FreshIsPrivate, TypeOK
  <2>2. \A d \in Calls : Fresh(d)' => ref'[d] = d
    BY <1>4, <1>8 DEF Shape, FreshIsPrivate, TypeOK
  <2>3. \A p \in Procs, r \in Runs : cache'[p][r] # None =>
          pc'[cache'[p][r]] \notin {"idle", "loading"}
    <3>1. SUFFICES ASSUME NEW p \in Procs, NEW r \in Runs,
                          cache'[p][r] # None
                   PROVE  pc'[cache'[p][r]] \notin {"idle", "loading"}
      OBVIOUS
    <3>2. cache'[p][r] \in Calls
      BY <3>1
    <3>3. CASE cache'[p][r] = cache[p][r]
      <4>1. ~Fresh(cache[p][r])
        BY <3>1, <3>3 DEF Shape, FreshIsPrivate
      <4>2. QED BY <1>8, <3>2, <3>3, <4>1 DEF Fresh
    <3>4. CASE cache'[p][r] = o
      BY <1>8, <3>4 DEF Fresh
    <3>5. QED BY <3>3, <3>4
  <2>4. QED BY <2>1, <2>2, <2>3 DEF FreshIsPrivate, Fresh
<1>13. LocalsAreSet'
  <2>1. \A d \in Calls :
          pc'[d] \in {"executing", "stepping", "pausing", "syncing",
                    "putStepping", "putSyncing"} =>
            local'[d].at \in Steps
    BY <1>3, <1>5 DEF Shape, LocalsAreSet
  <2>2. \A d \in Calls :
          pc'[d] \in {"resolving", "deciding"} =>
            local'[d].id \in DOMAIN requests'[RunOf(d)']
    <3>1. CASE pc'[c] \in {"resolving", "deciding"}
      BY <1>3, <1>5, <1>6, <1>9, <1>10 DEF Shape, LocalsAreSet
    <3>2. CASE pc'[c] \notin {"resolving", "deciding"}
      BY <1>3, <1>5, <1>6, <1>9, <3>2 DEF Shape, LocalsAreSet
    <3>3. QED BY <3>1, <3>2
  <2>3. \A d \in Calls :
          pc'[d] = "loading" /\ local'[d].ask = "respond" =>
            local'[d].id \in DOMAIN requests'[heap'[d].run]
    BY <1>2, <1>3, <1>5, <1>6 DEF Shape, LocalsAreSet
  <2>4. QED BY <2>1, <2>2, <2>3 DEF LocalsAreSet
<1>14. PutsSuspend'
  BY <1>5 DEF Shape, PutsSuspend, Writing
<1>15. QED
  BY <1>7, <1>11, <1>12, <1>13, <1>14 DEF Shape

(* resume_workflow takes a cached object or starts to load one. *)
LEMMA ResumeWorkflowKeepsShape ==
  ASSUME Shape, NEW c \in Calls, NEW r \in Runs, ResumeWorkflow(c, r)
  PROVE  Shape'
<1>1. pc[c] = "idle" /\ Fresh(c) /\ ProcOf[c] \in Procs
  BY RuntimeConstants DEF ResumeWorkflow, At, Fresh
<1>2. UNCHANGED <<storeVars, interruptVars, crashes, history>>
  BY DEF ResumeWorkflow
<1>3. PICK l \in Payloads(r) : ResumeCached(c, r, l) \/ ResumeLoading(c, r, l)
  BY DEF ResumeWorkflow
<1>4. /\ l \in Local
      /\ l.ask = "respond" => l.id \in DOMAIN requests[r]
  <2>1. DOMAIN requests[r] \subseteq Nat
    BY LenProperties DEF Shape, TypeOK, InterruptsTypeOK
  <2>2. NoLocal \in Local
    BY DEF NoLocal, Local, Ask
  <2>3. ASSUME l \in {[NoLocal EXCEPT !.ask = a] : a \in {"approve", "reject"}}
        PROVE  l \in Local /\ l.ask \in {"approve", "reject"}
    BY <2>2, <2>3 DEF Local, Ask
  <2>4. ASSUME NEW i \in DOMAIN requests[r], l \in Answers(i)
        PROVE  l \in Local /\ l.id = i
    <3>1. PICK q \in Quotes :
            l = [NoLocal EXCEPT !.ask = "respond", !.id = i, !.quote = q]
      BY <2>4 DEF Answers
    <3>2. i \in Nat /\ q \in Nat \cup {None}
      BY <2>1, RuntimeConstants
    <3>3. QED BY <2>2, <3>1, <3>2 DEF Local, Ask, NoLocal
  <2>5. CASE l \in UNION {Answers(i) : i \in DOMAIN requests[r]}
    <3>1. PICK i \in DOMAIN requests[r] : l \in Answers(i)
      BY <2>5
    <3>2. QED BY <2>4, <3>1
  <2>6. QED BY <2>3, <2>5 DEF Payloads
<1>5. CASE ResumeCached(c, r, l)
  <2> DEFINE o == cache[ProcOf[c]][r]
  <2>1. o # None /\ Dispatch(c, o, l) /\ cache' = cache
    BY <1>5 DEF ResumeCached
  <2>2. o \in Calls /\ ~Fresh(o) /\ heap[o].run = r
    BY <1>1, <2>1 DEF Shape, TypeOK, ObjectsHaveRuns, FreshIsPrivate
  <2>3. cache' \in [Procs -> [Runs -> Calls \cup {None}]]
    BY <2>1 DEF Shape, TypeOK
  <2>4. QED
    BY <1>1, <1>2, <1>4, <2>1, <2>2, <2>3, DispatchKeepsShape
<1>6. CASE ResumeLoading(c, r, l)
  <2>1. /\ Stored(r)
        /\ heap' = [heap EXCEPT ![c] = state[r]]
        /\ local' = [local EXCEPT ![c] = l]
        /\ Goto(c, "loading")
        /\ UNCHANGED <<ref, cache>>
    BY <1>6 DEF ResumeLoading
  <2>2. state[r] \in RunState /\ state[r].run = r
    BY <2>1 DEF Shape, TypeOK, StoreTypeOK, ObjectsHaveRuns
  <2>3. /\ heap' \in [Calls -> RunState]
        /\ heap'[c].run = r
        /\ \A d \in Calls : d # c => heap'[d] = heap[d]
    BY <2>1, <2>2 DEF Shape, TypeOK
  <2>4. /\ pc' \in [Calls -> PC]
        /\ pc'[c] = "loading"
        /\ \A d \in Calls : d # c => pc'[d] = pc[d]
    BY <2>1 DEF Goto, Shape, TypeOK, PC
  <2>5. /\ local' \in [Calls -> Local]
        /\ local'[c] = l
        /\ \A d \in Calls : d # c => local'[d] = local[d]
    BY <1>4, <2>1 DEF Shape, TypeOK
  <2>6. StoreTypeOK' /\ InterruptsTypeOK' /\ state' = state /\ requests' = requests
    BY <1>2 DEF Shape, TypeOK, StoreTypeOK, InterruptsTypeOK, storeVars,
                interruptVars
  <2>7. TypeOK'
    BY <1>2, <2>1, <2>3, <2>4, <2>5, <2>6, SameHistory DEF Shape, TypeOK
  <2>8. /\ \A d \in Calls : d # c => ref[d] # c /\ ref[d] \in Calls
        /\ \A p \in Procs, q \in Runs : cache[p][q] # None =>
             cache[p][q] # c /\ cache[p][q] \in Calls
    BY <1>1 DEF Shape, FreshIsPrivate, TypeOK
  <2>9. \A d \in Calls : d # c =>
          Working(d)' = Working(d) /\ RunOf(d)' = RunOf(d)
    BY <2>1, <2>3, <2>4, <2>8 DEF Working, Live, Fresh, RunOf, Object
  <2>10. \A d \in Calls : Fresh(d)' = Fresh(d)
    BY <1>1, <2>4 DEF Fresh
  <2>11. ObjectsHaveRuns'
    <3>1. \A d \in Calls : Working(d)' => RunOf(d)' \in Runs
      BY <2>4, <2>9 DEF Working, Fresh, Shape, ObjectsHaveRuns
    <3>2. \A d \in Calls : pc'[d] = "loading" => heap'[d].run \in Runs
      BY <2>3, <2>4 DEF Shape, ObjectsHaveRuns
    <3>3. \A p \in Procs, q \in Runs :
            cache'[p][q] # None => heap'[cache'[p][q]].run = q
      BY <2>1, <2>3, <2>8 DEF Shape, ObjectsHaveRuns
    <3>4. \A q \in Runs : Stored(q)' => state'[q].run = q
      BY <2>6 DEF Stored, Shape, ObjectsHaveRuns
    <3>5. QED BY <3>1, <3>2, <3>3, <3>4 DEF ObjectsHaveRuns
  <2>12. FreshIsPrivate'
    BY <1>1, <2>1, <2>4, <2>8 DEF Fresh, Shape, FreshIsPrivate
  <2>13. LocalsAreSet'
    BY <1>4, <2>3, <2>4, <2>5, <2>6, <2>9 DEF Shape, LocalsAreSet
  <2>14. PutsSuspend'
    BY <2>4 DEF Shape, PutsSuspend, Writing
  <2>15. QED BY <2>7, <2>11, <2>12, <2>13, <2>14 DEF Shape
<1>7. QED
  BY <1>3, <1>5, <1>6

(* The loaded object is cached and the resume goes on. *)
LEMMA LoadedKeepsShape ==
  ASSUME Shape, NEW c \in Calls, Loaded(c)
  PROVE  Shape'
<1>1. pc[c] = "loading" /\ Fresh(c) /\ heap[c].run \in Runs /\ local[c] \in Local
      /\ (local[c].ask = "respond" =>
            local[c].id \in DOMAIN requests[heap[c].run])
  BY DEF Loaded, At, Fresh, Shape, TypeOK, ObjectsHaveRuns, LocalsAreSet
<1>2. /\ cache' \in [Procs -> [Runs -> Calls \cup {None}]]
      /\ \A p \in Procs, r \in Runs :
           cache'[p][r] = cache[p][r] \/ (r = heap[c].run /\ cache'[p][r] = c)
  BY <1>1, RuntimeConstants DEF Loaded, Shape, TypeOK
<1>3. QED
  BY <1>1, <1>2, DispatchKeepsShape DEF Loaded

(* Crashes, the clock and other clients of the interrupt manager. *)
LEMMA EnvironmentKeepsShape ==
  ASSUME Shape, Environment
  PROVE  Shape'
<1>1. ASSUME NEW p \in Procs, Crash(p)
      PROVE  Shape'
  <2>1. /\ UNCHANGED <<state, requests, heap, ref, local>>
        /\ StoreTypeOK' /\ InterruptsTypeOK'
    BY <1>1 DEF Crash, Shape, TypeOK, StoreTypeOK, InterruptsTypeOK, storeVars,
                interruptVars
  <2>2. /\ pc' \in [Calls -> PC]
        /\ \A c \in Calls : pc'[c] = pc[c] \/ pc'[c] = "crashed"
    BY <1>1 DEF Crash, Shape, TypeOK, PC
  <2>3. /\ cache' \in [Procs -> [Runs -> Calls \cup {None}]]
        /\ \A q \in Procs, r \in Runs :
             cache'[q][r] # None => cache'[q][r] = cache[q][r]
    BY <1>1 DEF Crash, Shape, TypeOK
  <2>4. TypeOK'
    BY <1>1, <2>1, <2>2, <2>3, SameHistory DEF Crash, Shape, TypeOK
  <2>5. \A c \in Calls : /\ Working(c)' => Working(c)
                         /\ RunOf(c)' = RunOf(c)
                         /\ Fresh(c)' => Fresh(c)
    BY <2>1, <2>2 DEF Working, Live, Fresh, RunOf, Object
  <2>6. ObjectsHaveRuns'
    BY <2>1, <2>2, <2>3, <2>5 DEF Shape, ObjectsHaveRuns, Stored
  <2>7. FreshIsPrivate'
    BY <2>1, <2>2, <2>3, <2>4, <2>5 DEF Shape, FreshIsPrivate, Fresh, TypeOK
  <2>8. LocalsAreSet'
    BY <2>1, <2>2, <2>5 DEF Shape, LocalsAreSet
  <2>9. PutsSuspend'
    BY <2>2 DEF Shape, PutsSuspend, Writing
  <2>10. QED BY <2>4, <2>6, <2>7, <2>8, <2>9 DEF Shape
<1>2. ASSUME RequestsKept, UNCHANGED <<storeVars, runtimeVars, crashes, history>>
      PROVE  Shape'
  <2>1. UNCHANGED <<state, heap, ref, cache, pc, local>> /\ StoreTypeOK'
    BY <1>2 DEF runtimeVars, storeVars, Shape, TypeOK, StoreTypeOK
  <2>2. TypeOK'
    BY <1>2, <2>1, SameHistory DEF RequestsKept, Shape, TypeOK
  <2>3. ObjectsHaveRuns' /\ FreshIsPrivate'
    BY <2>1 DEF Shape, ObjectsHaveRuns, FreshIsPrivate, Working, Live, Fresh,
                RunOf, Object, Stored
  <2>4. LocalsAreSet'
    <3>1. \A c \in Calls : RunOf(c)' = RunOf(c)
      BY <2>1 DEF RunOf, Object
    <3>2. \A c \in Calls : pc[c] \in {"resolving", "deciding"} =>
            RunOf(c) \in Runs
      BY DEF Shape, ObjectsHaveRuns, Working, Live, Fresh
    <3>3. QED
      BY <1>2, <2>1, <3>1, <3>2
         DEF Shape, LocalsAreSet, ObjectsHaveRuns, RequestsKept
  <2>5. PutsSuspend'
    BY <2>1 DEF Shape, PutsSuspend
  <2>6. QED BY <2>2, <2>3, <2>4, <2>5 DEF Shape
<1>3. ASSUME NEW r \in Runs, NEW i \in DOMAIN requests[r], ExpireRequest(r, i)
      PROVE  Shape'
  <2> DEFINE q == [requests[r][i] EXCEPT !.late = TRUE]
  <2>1. q \in Request
    <3>1. requests[r] \in Seq(Request)
      BY DEF Shape, TypeOK, InterruptsTypeOK
    <3>2. requests[r][i] \in Request
      BY <3>1, ElementOfSeq, LenProperties
    <3>3. QED BY <3>2 DEF Request
  <2>2. requests' = [requests EXCEPT ![r] = [requests[r] EXCEPT ![i] = q]]
        /\ epochs' = epochs
    BY <1>3 DEF ExpireRequest, Elapse
  <2>3. RequestsKept
    BY <2>1, <2>2, SaveKeeps DEF Shape, TypeOK
  <2>4. QED BY <1>2, <1>3, <2>3 DEF ExpireRequest
<1>4. ASSUME NEW r \in Runs, ListPendingInterrupts(r)
      PROVE  Shape'
  BY <1>2, <1>4, ListPendingKeeps DEF ListPendingInterrupts, Shape, TypeOK
<1>5. QED
  BY <1>1, <1>3, <1>4 DEF Environment

-----------------------------------------------------------------------------
(* Every step of a call that works on an object is a WorkStep. *)
LEMMA ProceedIsWorkStep ==
  ASSUME Shape, NEW c \in Calls, Proceed(c), ~Loaded(c)
  PROVE  WorkStep(c)
<1>1. CASE RegisterActiveRun(c) \/ Launch(c)
  BY <1>1, RegisterActiveRunStep, LaunchStep
<1>2. CASE Resuming(c)
  BY <1>2, GrantApprovalStep, RejectApprovalStep, ReadRequestStep,
     DecideRequestStep, PersistResumedStep, ContinueStep DEF Resuming
<1>3. CASE Advancing(c)
  BY <1>3, LoopHeadStep, ExecutedStep, TransitStep, CreateInterruptStep,
     PersistWaitStep, SyncRequestStep, ClearActiveRunStep DEF Advancing
<1>4. CASE Write(c)
  BY <1>4, WriteStep
<1>5. QED
  BY <1>1, <1>2, <1>3, <1>4 DEF Proceed

(* Nothing is stored, cached or running at first. *)
LEMMA InitShape == Init => Shape
<1> SUFFICES ASSUME Init PROVE Shape
  OBVIOUS
<1>1. NoState \in RunState /\ NoLocal \in Local
  BY DEF NoState, RunState, NoLocal, NoRequest, Local, Ask
<1>2. StoreTypeOK
  BY <1>1 DEF Init, StoreInit, StoreTypeOK
<1>3. InterruptsTypeOK
  BY DEF Init, InterruptsInit, InterruptsTypeOK
<1>4. HistoryTypeOK
  BY DEF Init, HistoryTypeOK
<1>5. TypeOK
  BY <1>1, <1>2, <1>3, <1>4 DEF Init, TypeOK, Calls, PC
<1>6. ObjectsHaveRuns /\ FreshIsPrivate /\ LocalsAreSet /\ PutsSuspend
  BY DEF Init, StoreInit, ObjectsHaveRuns, FreshIsPrivate, LocalsAreSet, Working,
         Live, Fresh, Stored, Calls, PutsSuspend, Writing
<1>7. QED
  BY <1>5, <1>6 DEF Shape

(* Shape is inductive. *)
LEMMA NextKeepsShape == Shape /\ [Next]_vars => Shape'
<1> SUFFICES ASSUME Shape, [Next]_vars PROVE Shape'
  OBVIOUS
<1>1. ASSUME NEW c \in Calls, Start(c)
      PROVE  Shape'
  BY <1>1, RunWorkflowKeepsShape, ResumeFromCheckpointKeepsShape,
     ResumeWorkflowKeepsShape DEF Start
<1>2. ASSUME NEW c \in Calls, Proceed(c)
      PROVE  Shape'
  BY <1>2, LoadedKeepsShape, ProceedIsWorkStep, WorkStepKeepsShape
<1>3. CASE Environment
  BY <1>3, EnvironmentKeepsShape
<1>4. CASE UNCHANGED vars
  BY <1>4, SameHistory DEF vars, storeVars, interruptVars, runtimeVars, Shape,
     TypeOK, StoreTypeOK, InterruptsTypeOK, PutsSuspend, ObjectsHaveRuns, FreshIsPrivate,
     LocalsAreSet, Working, Live, Fresh, RunOf, Object, Stored
<1>5. QED
  BY <1>1, <1>2, <1>3, <1>4 DEF Next

(* Type correctness: in every deployment of the runtime the stores, objects,  *)
(* caches and coroutines keep the shape the code gives them.                 *)
THEOREM ShapeAlways == Spec => []Shape
<1>1. QED
  BY InitShape, NextKeepsShape, PTL DEF Spec

(* Every field of a stored, cached or loaded run, every request and every   *)
(* local keeps its type: no step of a call, crash or refused put leaves a   *)
(* value the code does not expect. *)
THEOREM TypeCorrect == Spec => []TypeOK
<1>1. Shape => TypeOK
  BY DEF Shape
<1>2. QED
  BY <1>1, ShapeAlways, PTL

-----------------------------------------------------------------------------
(* Where the puts of the store do not suspend, no call is inside one. *)
LEMMA PutsAtOnce ==
  ASSUME AtomicPut
  PROVE  /\ \A label \in DOMAIN InPut : InPut[label] \notin Yields
         /\ Shape => \A c \in Calls : pc[c] \notin Writing /\ ~Write(c)
<1>1. \A label \in DOMAIN InPut : InPut[label] \in Writing
  BY PutLabels
<1>2. ASSUME Shape, NEW c \in Calls
      PROVE  pc[c] \notin Writing /\ ~Write(c)
  <2>1. pc[c] \notin Writing
    BY <1>2 DEF AtomicPut, Shape, PutsSuspend
  <2>2. QED BY <1>1, <2>1 DEF Write, At
<1>3. QED BY <1>1, <1>2 DEF AtomicPut

-----------------------------------------------------------------------------
(* Versions: what a step puts into the store.                                *)

(* A snapshot that call c makes of the object it works on. *)
MadeFrom(c, s) ==
  /\ s \in RunState
  /\ s.run = RunOf(c)
  /\ s.thread = Object(c).thread
  /\ s.epoch = Object(c).epoch
  /\ s.ckpt = Object(c).ckpt

Sound(c) == Valid(Object(c)) /\ (pc[c] = "pausing" => local[c].id # 0)

Puts(c) ==
  \E s \in RunState, label \in DOMAIN InPut :
    /\ MadeFrom(c, s)
    /\ Sound(c) => Valid(s)
    /\ Persist(c, ref[c], s, label)

(* A step that puts nothing, and leaves every object as good as it was. *)
SameObject(o) ==
  /\ heap'[o].run = heap[o].run
  /\ heap'[o].thread = heap[o].thread
  /\ heap'[o].epoch = heap[o].epoch
  /\ heap'[o].ckpt = heap[o].ckpt
  /\ Valid(heap[o]) => Valid(heap'[o])

Spares(c) ==
  /\ UNCHANGED <<state, checkpoints>>
  /\ \A o \in Calls : SameObject(o)
  /\ pc'[c] = "pausing" => local'[c].id # 0

(* Snapshots that differ from the object in its status and where it stands. *)
LEMMA MadeFromObject ==
  ASSUME Shape, NEW c \in Calls, Working(c), NEW s \in RunState,
         s = Object(c) \/ s = Consumed(c) \/ s = [Object(c) EXCEPT !.resume = None],
         NEW status \in Status, NEW step \in Steps \cup {None}
  PROVE  /\ MadeFrom(c, s)
         /\ Sound(c) => Valid(s)
         /\ MadeFrom(c, [s EXCEPT !.step = step])
         /\ Sound(c) => Valid([s EXCEPT !.step = step])
         /\ MadeFrom(c, [s EXCEPT !.status = status])
         /\ MadeFrom(c, [s EXCEPT !.step = step, !.status = status])
         /\ MadeFrom(c, [s EXCEPT !.approval = None, !.status = status])
<1>1. Object(c) \in RunState /\ RunOf(c) = Object(c).run
  BY ObjectType
<1>2. MadeFrom(c, s) /\ (Sound(c) => Valid(s))
  BY <1>1 DEF MadeFrom, Sound, Valid, Consumed, RunState
<1>3. MadeFrom(c, [s EXCEPT !.step = step])
  BY <1>2 DEF MadeFrom, RunState
<1>4. Valid(s) => Valid([s EXCEPT !.step = step])
  BY DEF Valid, RunState
<1> DEFINE w == [s EXCEPT !.status = status]
<1>5. /\ w \in RunState /\ w.run = s.run /\ w.thread = s.thread
      /\ w.epoch = s.epoch /\ w.ckpt = s.ckpt
  BY DEF RunState
<1>6. MadeFrom(c, w)
  BY <1>2, <1>5 DEF MadeFrom
<1>7. /\ MadeFrom(c, [s EXCEPT !.step = step, !.status = status])
      /\ MadeFrom(c, [s EXCEPT !.approval = None, !.status = status])
  <2>1. MadeFrom(c, [s EXCEPT !.step = step, !.status = status])
    <3>1. [s EXCEPT !.step = step, !.status = status] \in RunState
      BY DEF RunState
    <3>2. QED BY <1>2, <3>1 DEF MadeFrom, RunState
  <2>2. MadeFrom(c, [s EXCEPT !.approval = None, !.status = status])
    <3>1. [s EXCEPT !.approval = None, !.status = status] \in RunState
      BY DEF RunState
    <3>2. QED BY <1>2, <3>1 DEF MadeFrom, RunState
  <2>3. QED BY <2>1, <2>2
<1>8. QED
  BY <1>2, <1>3, <1>4, <1>5, <1>6, <1>7

(* A snapshot that waits for nothing is valid. *)
LEMMA PutsSettled ==
  ASSUME NEW c \in Calls, NEW s, MadeFrom(c, s),
         s.status \notin {"WAITING_APPROVAL", "WAITING_INTERRUPT"},
         NEW label \in {"advancing", "clearing"}, Persist(c, ref[c], s, label)
  PROVE  Puts(c)
<1>1. s \in RunState /\ Valid(s) /\ label \in DOMAIN InPut
  BY PutLabels DEF MadeFrom, Valid
<1>2. QED BY <1>1 DEF Puts

(* A snapshot that is valid wherever its object was.                          *)
LEMMA PutsSound ==
  ASSUME NEW c \in Calls, NEW s, MadeFrom(c, s), Sound(c) => Valid(s),
         NEW label \in {"advancing", "continuing", "stepping", "done", "syncing"},
         Persist(c, ref[c], s, label)
  PROVE  Puts(c)
<1>1. s \in RunState /\ label \in DOMAIN InPut
  BY PutLabels DEF MadeFrom
<1>2. QED BY <1>1 DEF Puts

(* A move to what a transition resolved to.                                   *)
LEMMA PutsMoved ==
  ASSUME Shape, NEW c \in Calls, Working(c), NEW s \in RunState,
         s = Consumed(c) \/ s = [Object(c) EXCEPT !.resume = None],
         NEW next \in Steps \cup {End}, Move(c, s, next)
  PROVE  Puts(c)
<1>1. CASE next = End
  <2> DEFINE w == [s EXCEPT !.step = None, !.status = "COMPLETED"]
  <2>1. MadeFrom(c, w)
    BY MadeFromObject DEF Status
  <2>2. w.status = "COMPLETED" /\ Persist(c, ref[c], w, "clearing")
    BY <1>1 DEF Move, RunState
  <2>3. QED BY <2>1, <2>2, PutsSettled
<1>2. CASE next # End
  <2> DEFINE w == [s EXCEPT !.step = next]
  <2>1. next \in Steps
    BY <1>2
  <2>2. MadeFrom(c, w) /\ (Sound(c) => Valid(w))
    BY <2>1, MadeFromObject DEF Status
  <2>3. Persist(c, ref[c], w, "advancing")
    BY <1>2 DEF Move
  <2>4. QED BY <2>2, <2>3, PutsSound
<1>3. QED BY <1>1, <1>2

(* A call that waits for the approval of a step. *)
LEMMA PutsWaiting ==
  ASSUME Shape, NEW c \in Calls, Working(c), NEW step \in Steps,
         Persist(c, ref[c], Waiting(Object(c), step), "done")
  PROVE  Puts(c)
<1> DEFINE s == Waiting(Object(c), step)
<1>1. Object(c) \in RunState /\ RunOf(c) = Object(c).run
  BY ObjectType
<1>2. MadeFrom(c, s)
  BY <1>1 DEF MadeFrom, Waiting, RunState, Status
<1>3. Valid(s)
  BY <1>1, NoneIsNoName DEF Valid, Waiting, RunState
<1>4. QED BY <1>2, <1>3, PutsSound

(* Every action of a call that works on an object is of one of these kinds. *)
LEMMA ClaimingPuts ==
  ASSUME Shape, NEW c \in Calls, RegisterActiveRun(c) \/ Launch(c)
  PROVE  Puts(c) \/ Spares(c)
<1>1. Working(c) /\ pc \in [Calls -> PC]
  BY AtWork DEF RegisterActiveRun, Launch, Shape, TypeOK
<1>2. CASE RegisterActiveRun(c)
  BY <1>1, <1>2 DEF RegisterActiveRun, SetActiveRunId, Goto, Spares, SameObject
<1>3. CASE Launch(c)
  <2> DEFINE s == [Object(c) EXCEPT !.status = "RUNNING"]
  <2>1. MadeFrom(c, s) /\ s.status = "RUNNING"
    BY <1>1, ObjectType, MadeFromObject DEF Status, RunState
  <2>2. Persist(c, ref[c], s, "advancing")
    BY <1>3 DEF Launch
  <2>3. QED BY <2>1, <2>2, PutsSettled
<1>4. QED BY <1>2, <1>3

(* An approval is granted or rejected.                                        *)
LEMMA ApprovalPuts ==
  ASSUME Shape, NEW c \in Calls, GrantApproval(c) \/ RejectApproval(c)
  PROVE  Puts(c)
<1>1. Working(c)
  BY AtWork DEF GrantApproval, RejectApproval
<1>2. Object(c) \in RunState
  BY <1>1, ObjectType
<1>3. ASSUME NEW status \in {"RUNNING", "FAILED"},
             NEW label \in {"advancing", "clearing"},
             Persist(c, ref[c],
                     [Object(c) EXCEPT !.approval = None, !.status = status], label)
      PROVE  Puts(c)
  <2> DEFINE s == [Object(c) EXCEPT !.approval = None, !.status = status]
  <2>1. MadeFrom(c, s) /\ s.status = status
    BY <1>1, <1>2, MadeFromObject DEF Status, RunState
  <2>2. QED BY <1>3, <2>1, PutsSettled
<1>4. CASE GrantApproval(c)
  BY <1>3, <1>4 DEF GrantApproval
<1>5. CASE RejectApproval(c)
  BY <1>3, <1>5 DEF RejectApproval
<1>6. QED BY <1>4, <1>5

(* A request is answered.                                                     *)
LEMMA AnswerPuts ==
  ASSUME Shape, NEW c \in Calls,
         ReadRequest(c) \/ DecideRequest(c) \/ PersistResumed(c)
  PROVE  Puts(c) \/ Spares(c)
<1>1. Working(c) /\ pc \in [Calls -> PC]
  BY AtWork DEF ReadRequest, DecideRequest, PersistResumed, Shape, TypeOK
<1>2. Object(c) \in RunState /\ ref[c] \in Calls /\ heap \in [Calls -> RunState]
  BY <1>1, ObjectType DEF Shape, TypeOK
<1>3. CASE ReadRequest(c)
  BY <1>1, <1>3 DEF ReadRequest, Goto, Spares, SameObject, storeVars
<1>4. CASE DecideRequest(c)
  <2>1. UNCHANGED <<state, checkpoints>> /\ pc'[c] # "pausing"
    BY <1>1, <1>4 DEF DecideRequest, Goto, Finish, storeVars
  <2>2. ASSUME NEW o \in Calls PROVE SameObject(o)
    <3>1. CASE heap' = heap
      BY <3>1 DEF SameObject
    <3>2. CASE heap' = [heap EXCEPT ![ref[c]].interrupt = 0,
                                    ![ref[c]].status = "RUNNING"]
      BY <1>2, <3>2 DEF SameObject, Valid, RunState
    <3>3. QED BY <1>4, <3>1, <3>2 DEF DecideRequest
  <2>3. QED BY <2>1, <2>2 DEF Spares
<1>5. CASE PersistResumed(c)
  <2>1. MadeFrom(c, Object(c)) /\ (Sound(c) => Valid(Object(c)))
    BY <1>1, <1>2, ObjectType DEF MadeFrom, Sound
  <2>2. Persist(c, ref[c], Object(c), "continuing")
    BY <1>5 DEF PersistResumed
  <2>3. QED BY <2>1, <2>2, PutsSound
<1>6. QED BY <1>3, <1>4, <1>5

(* The run goes on from the step that asked.                                  *)
LEMMA ContinuePuts ==
  ASSUME Shape, NEW c \in Calls, Continue(c)
  PROVE  Puts(c) \/ Spares(c)
<1> DEFINE s == [Object(c) EXCEPT !.resume = None]
<1>1. Working(c) /\ pc \in [Calls -> PC]
  BY AtWork DEF Continue, Shape, TypeOK
<1>2. /\ Object(c) \in RunState /\ ref[c] \in Calls /\ heap \in [Calls -> RunState]
      /\ s \in RunState
  <2>1. Object(c) \in RunState /\ ref[c] \in Calls /\ heap \in [Calls -> RunState]
    BY <1>1, ObjectType DEF Shape, TypeOK
  <2>2. QED BY <2>1 DEF RunState
<1>3. ASSUME Object(c).resume # None, NEW next \in Targets[Object(c).resume],
             Move(c, s, next)
      PROVE  Puts(c)
  <2>1. next \in Steps \cup {End}
    BY <1>2, <1>3, RuntimeConstants DEF RunState
  <2>2. QED BY <1>1, <1>2, <1>3, <2>1, PutsMoved
<1>4. CASE /\ Goto(c, "advancing") \/ Finish(c)
           /\ heap' = [heap EXCEPT ![ref[c]] = s]
           /\ UNCHANGED <<storeVars, cache>>
  <2>1. UNCHANGED <<state, checkpoints>> /\ pc'[c] # "pausing"
    BY <1>1, <1>4 DEF Goto, Finish, storeVars
  <2>2. \A o \in Calls : SameObject(o)
    BY <1>2, <1>4 DEF SameObject, Valid, RunState, Object
  <2>3. QED BY <2>1, <2>2 DEF Spares
<1>5. QED BY <1>3, <1>4 DEF Continue

(* The head of the loop.                                                      *)
LEMMA LoopPuts ==
  ASSUME Shape, NEW c \in Calls,
         \/ LeaveLoop(c) \/ CompleteRun(c) \/ MissArtifact(c) \/ RequestApproval(c)
         \/ Execute(c) \/ StepBadUpdate(c) \/ SyncRequest(c) \/ ClearActiveRun(c)
  PROVE  Puts(c) \/ Spares(c)
<1>1. Working(c) /\ pc \in [Calls -> PC]
  BY AtWork
     DEF LeaveLoop, CompleteRun, MissArtifact, RequestApproval, Execute,
         StepBadUpdate, SyncRequest, ClearActiveRun, CanEnter, Shape, TypeOK
<1>2. Object(c) \in RunState
  BY <1>1, ObjectType
<1>3. CASE \/ LeaveLoop(c) \/ MissArtifact(c) \/ Execute(c) \/ StepBadUpdate(c)
           \/ SyncRequest(c) \/ ClearActiveRun(c)
  <2>1. UNCHANGED <<state, checkpoints, heap>>
    BY <1>3 DEF LeaveLoop, MissArtifact, Execute, StepBadUpdate, SyncRequest,
                ClearActiveRun, ClearActiveRunId, storeVars
  <2>2. pc'[c] \in {"done", "executing"}
    BY <1>1, <1>3 DEF LeaveLoop, MissArtifact, Execute, StepBadUpdate, SyncRequest,
                      ClearActiveRun, Finish, Goto
  <2>3. QED BY <2>1, <2>2 DEF Spares, SameObject
<1>4. CASE CompleteRun(c)
  <2> DEFINE s == [Object(c) EXCEPT !.status = "COMPLETED"]
  <2>1. MadeFrom(c, s) /\ s.status = "COMPLETED"
    BY <1>1, <1>2, MadeFromObject DEF Status, RunState
  <2>2. Persist(c, ref[c], s, "clearing")
    BY <1>4 DEF CompleteRun
  <2>3. QED BY <2>1, <2>2, PutsSettled
<1>5. CASE RequestApproval(c)
  <2>1. Object(c).step \in Steps
    BY <1>5, RuntimeConstants DEF RequestApproval
  <2>2. QED BY <1>1, <1>5, <2>1, PutsWaiting DEF RequestApproval
<1>6. QED BY <1>3, <1>4, <1>5

(* A step that was executed.                                                  *)
LEMMA ExecutedPuts ==
  ASSUME Shape, NEW c \in Calls, StepDone(c) \/ StepNeedsApproval(c) \/ StepFails(c)
  PROVE  Puts(c)
<1>1. Working(c) /\ pc[c] = "executing"
  BY AtWork DEF StepDone, StepNeedsApproval, StepFails, At
<1>2. Object(c) \in RunState /\ RunOf(c) = Object(c).run /\ local[c].at \in Steps
  BY <1>1, ObjectType DEF Shape, LocalsAreSet
<1>3. CASE StepDone(c)
  <2> DEFINE s == [Object(c) EXCEPT !.completed = @ \cup {local[c].at}]
  <2>1. MadeFrom(c, s)
    BY <1>2 DEF MadeFrom, RunState
  <2>2. Sound(c) => Valid(s)
    BY <1>2 DEF Sound, Valid, RunState
  <2>3. Persist(c, ref[c], s, "stepping")
    BY <1>3 DEF StepDone
  <2>4. QED BY <2>1, <2>2, <2>3, PutsSound
<1>4. CASE StepNeedsApproval(c)
  BY <1>1, <1>2, <1>4, PutsWaiting DEF StepNeedsApproval
<1>5. CASE StepFails(c)
  <2> DEFINE s == [Object(c) EXCEPT !.status = "FAILED"]
  <2>1. MadeFrom(c, s) /\ s.status = "FAILED"
    BY <1>1, <1>2, MadeFromObject DEF Status, RunState
  <2>2. Persist(c, ref[c], s, "clearing")
    BY <1>5 DEF StepFails, Fail
  <2>3. QED BY <2>1, <2>2, PutsSettled
<1>6. QED BY <1>3, <1>4, <1>5

(* After the step: a transition, or an interrupt.                             *)
LEMMA SteppingPuts ==
  ASSUME Shape, NEW c \in Calls, Transit(c) \/ CreateInterrupt(c) \/ PersistWait(c)
  PROVE  Puts(c) \/ Spares(c)
<1>1. Working(c) /\ pc \in [Calls -> PC] /\ pc[c] \in {"stepping", "pausing"}
  BY AtWork DEF Transit, CreateInterrupt, PersistWait, At, Shape, TypeOK
<1>2. /\ Object(c) \in RunState /\ RunOf(c) = Object(c).run /\ RunOf(c) \in Runs
      /\ ref[c] \in Calls /\ heap \in [Calls -> RunState]
      /\ Consumed(c) \in RunState
      /\ local[c] \in Local /\ local[c].at \in Steps /\ local \in [Calls -> Local]
  <2>1. /\ Object(c) \in RunState /\ RunOf(c) = Object(c).run /\ RunOf(c) \in Runs
        /\ ref[c] \in Calls /\ local[c] \in Local
    BY <1>1, ObjectType
  <2>2. Consumed(c) \in RunState
    BY <2>1 DEF RunState, Consumed
  <2>3. heap \in [Calls -> RunState] /\ local[c].at \in Steps
        /\ local \in [Calls -> Local]
    BY <1>1 DEF Shape, TypeOK, LocalsAreSet
  <2>4. QED BY <2>1, <2>2, <2>3
<1>3. CASE Transit(c)
  <2>1. ASSUME NEW next \in Targets[local[c].at], Move(c, Consumed(c), next)
        PROVE  Puts(c)
    <3>1. next \in Steps \cup {End}
      BY <1>2, <2>1, RuntimeConstants
    <3>2. QED BY <1>1, <1>2, <2>1, <3>1, PutsMoved
  <2>2. ASSUME Persist(c, ref[c], [Consumed(c) EXCEPT !.status = "FAILED"],
                       "clearing")
        PROVE  Puts(c)
    <3> DEFINE s == [Consumed(c) EXCEPT !.status = "FAILED"]
    <3>1. MadeFrom(c, s) /\ s.status = "FAILED"
      BY <1>1, <1>2, MadeFromObject DEF Status, RunState
    <3>2. QED BY <2>2, <3>1, PutsSettled
  <2>3. QED BY <1>3, <2>1, <2>2 DEF Transit
<1>4. CASE CreateInterrupt(c)
  <2>1. UNCHANGED <<state, checkpoints>>
        /\ heap' = [heap EXCEPT ![ref[c]] = Consumed(c)]
    BY <1>4 DEF CreateInterrupt, storeVars
  <2>2. \A o \in Calls : SameObject(o)
    BY <1>2, <2>1 DEF SameObject, Valid, Consumed, Object, RunState
  <2>3. pc'[c] = "pausing" => local'[c].id # 0
    <3>1. Len(requests[RunOf(c)]) \in Nat
      BY <1>2, LenProperties DEF Shape, TypeOK, InterruptsTypeOK
    <3>2. CASE /\ local' = [local EXCEPT ![c].id = Len(requests[RunOf(c)]) + 1]
               /\ Goto(c, "pausing")
      BY <1>2, <3>1, <3>2 DEF Local
    <3>3. CASE Finish(c)
      BY <1>1, <3>3 DEF Finish, Goto
    <3>4. QED BY <1>4, <3>2, <3>3 DEF CreateInterrupt
  <2>4. QED BY <2>1, <2>2, <2>3 DEF Spares
<1>5. CASE PersistWait(c)
  <2> DEFINE s == [Object(c) EXCEPT !.interrupt = local[c].id,
                                    !.status = "WAITING_INTERRUPT",
                                    !.resume = local[c].at]
  <2>1. local[c].id \in Nat /\ pc[c] = "pausing"
    BY <1>2, <1>5 DEF Local, PersistWait, At
  <2>2. MadeFrom(c, s)
    BY <1>2, <2>1 DEF MadeFrom, RunState, Status
  <2>3. Sound(c) => Valid(s)
    BY <1>2, <2>1 DEF Sound, Valid, RunState
  <2>4. Persist(c, ref[c], s, "syncing")
    BY <1>5 DEF PersistWait
  <2>5. QED BY <2>2, <2>3, <2>4, PutsSound
<1>6. QED BY <1>3, <1>4, <1>5

(* All a call does once it works.                                             *)
LEMMA WorkPuts ==
  ASSUME Shape, NEW c \in Calls, Proceed(c), ~Loaded(c)
  PROVE  Puts(c) \/ Spares(c) \/ Write(c)
<1>1. CASE RegisterActiveRun(c) \/ Launch(c)
  BY <1>1, ClaimingPuts
<1>2. CASE Resuming(c)
  BY <1>2, ApprovalPuts, AnswerPuts, ContinuePuts DEF Resuming
<1>3. CASE Advancing(c)
  BY <1>3, LoopPuts, ExecutedPuts, SteppingPuts DEF Advancing
<1>4. QED
  BY <1>1, <1>2, <1>3 DEF Proceed

-----------------------------------------------------------------------------
(* Kept: every put makes one checkpoint, of the version after the last one.   *)

StoreStep ==
  \/ UNCHANGED <<state, checkpoints>>
  \/ \E s \in RunState : s.run \in Runs /\ s.ckpt = 0 /\ Put(s)

(* Snapshot w is s, but for its version and checkpoint. *)
CopyOf(w, s) ==
  /\ w.run = s.run
  /\ w.thread = s.thread
  /\ w.status = s.status
  /\ w.step = s.step
  /\ w.approval = s.approval
  /\ w.interrupt = s.interrupt
  /\ w.resume = s.resume
  /\ w.approved = s.approved
  /\ w.completed = s.completed
  /\ w.parent = s.parent

PutAs(s) ==
  LET w == state'[s.run] IN
    /\ w \in RunState
    /\ CopyOf(w, s)
    /\ w.epoch = state[s.run].epoch + 1
    /\ w.ckpt = Len(checkpoints) + 1
    /\ state' = [state EXCEPT ![s.run] = w]

(* What a put of a snapshot without a checkpoint id does. *)
LEMMA PutAppends ==
  ASSUME StoreTypeOK, NEW s \in RunState, s.run \in Runs, s.ckpt = 0, Put(s)
  PROVE  /\ Len(checkpoints) \in Nat
         /\ DOMAIN checkpoints = 1 .. Len(checkpoints)
         /\ DOMAIN checkpoints' = 1 .. Len(checkpoints) + 1
         /\ \A i \in DOMAIN checkpoints : checkpoints'[i] = checkpoints[i]
         /\ checkpoints'[Len(checkpoints) + 1] = state'[s.run]
         /\ state[s.run] \in RunState
         /\ PutAs(s)
<1> DEFINE n == Len(checkpoints)
           w == Stamped(s)
<1>1. /\ n \in Nat
      /\ DOMAIN checkpoints = 1 .. n
      /\ state \in [Runs -> RunState]
      /\ checkpoints \in Seq(RunState)
  BY LenProperties DEF StoreTypeOK
<1>2. state' = [state EXCEPT ![s.run] = w] /\ w \in RunState
  BY PutType
<1>3. state'[s.run] = w
  BY <1>1, <1>2
<1>4. CopyOf(w, s) /\ w.epoch = state[s.run].epoch + 1 /\ w.ckpt = n + 1
  BY DEF Stamped, RunState, CopyOf
<1>5. checkpoints' = Append(checkpoints, w)
  BY DEF Put
<1>6. /\ checkpoints' \in Seq(RunState)
      /\ Len(checkpoints') = n + 1
      /\ checkpoints'[n + 1] = w
      /\ \A i \in 1 .. n : checkpoints'[i] = checkpoints[i]
  BY <1>1, <1>2, <1>5, AppendProperties
<1>7. DOMAIN checkpoints' = 1 .. n + 1
  BY <1>6, LenProperties
<1>8. PutAs(s)
  BY <1>2, <1>3, <1>4 DEF PutAs
<1>9. QED
  BY <1>1, <1>3, <1>6, <1>7, <1>8

(* Such a put keeps every version. *)
LEMMA PutKeepsKept ==
  ASSUME StoreTypeOK, Kept, NEW s \in RunState, s.run \in Runs, s.ckpt = 0, Put(s)
  PROVE  Kept'
<1> DEFINE n == Len(checkpoints)
           r == s.run
           w == state'[s.run]
<1>1. /\ n \in Nat
      /\ DOMAIN checkpoints = 1 .. n
      /\ DOMAIN checkpoints' = 1 .. n + 1
      /\ \A i \in 1 .. n : checkpoints'[i] = checkpoints[i]
      /\ checkpoints'[n + 1] = w
      /\ state[r].epoch \in Nat
      /\ w.run = r
      /\ w.epoch = state[r].epoch + 1
      /\ w.ckpt = n + 1
      /\ \A q \in Runs : q # r => state'[q] = state[q]
  <2>1. /\ Len(checkpoints) \in Nat
        /\ DOMAIN checkpoints = 1 .. Len(checkpoints)
        /\ DOMAIN checkpoints' = 1 .. Len(checkpoints) + 1
        /\ \A i \in DOMAIN checkpoints : checkpoints'[i] = checkpoints[i]
        /\ checkpoints'[Len(checkpoints) + 1] = state'[s.run]
        /\ state[s.run] \in RunState
        /\ PutAs(s)
    BY PutAppends
  <2>2. /\ w.run = r
        /\ w.epoch = state[r].epoch + 1
        /\ w.ckpt = n + 1
    BY <2>1 DEF PutAs, CopyOf
  <2>3. \A q \in Runs : q # r => state'[q] = state[q]
    BY <2>1 DEF PutAs, StoreTypeOK
  <2>4. state[r].epoch \in Nat
    BY <2>1 DEF RunState
  <2>5. QED BY <2>1, <2>2, <2>3, <2>4
<1> HIDE DEF n, r, w
<1>2. \A q \in Runs : state[q].epoch \in Nat
  BY DEF StoreTypeOK, RunState
<1>3. \A i \in 1 .. n :
        /\ checkpoints[i].run \in Runs
        /\ checkpoints[i].epoch \in 1 .. state[checkpoints[i].run].epoch
  BY <1>1 DEF Kept
<1>4. r \in Runs /\ w = state'[r]
  BY DEF r, w
<1>5. \A i \in DOMAIN checkpoints' :
        /\ checkpoints'[i].run \in Runs
        /\ checkpoints'[i].epoch \in 1 .. state'[checkpoints'[i].run].epoch
  <2>1. ASSUME NEW i \in 1 .. n
        PROVE  /\ checkpoints'[i].run \in Runs
               /\ checkpoints'[i].epoch \in 1 .. state'[checkpoints'[i].run].epoch
    <3>1. CASE checkpoints[i].run = r
      BY <1>1, <1>3, <1>4, <3>1
    <3>2. CASE checkpoints[i].run # r
      BY <1>1, <1>3, <3>2
    <3>3. QED BY <3>1, <3>2
  <2>2. w.run \in Runs /\ w.epoch \in 1 .. state'[w.run].epoch
    BY <1>1, <1>4
  <2>3. QED BY <1>1, <2>1, <2>2
<1>6. \A q \in Runs : \A e \in 1 .. state'[q].epoch :
        \E i \in DOMAIN checkpoints' :
          checkpoints'[i].run = q /\ checkpoints'[i].epoch = e
  <2>1. SUFFICES ASSUME NEW q \in Runs, NEW e \in 1 .. state'[q].epoch
                 PROVE  \E i \in DOMAIN checkpoints' :
                          checkpoints'[i].run = q /\ checkpoints'[i].epoch = e
    OBVIOUS
  <2>2. CASE e \in 1 .. state[q].epoch
    <3>1. PICK i \in 1 .. n : checkpoints[i].run = q /\ checkpoints[i].epoch = e
      BY <1>1, <2>2 DEF Kept, IsVersion
    <3>2. QED BY <1>1, <3>1
  <2>3. CASE e \notin 1 .. state[q].epoch
    <3>1. q = r /\ e = state[r].epoch + 1
      BY <1>1, <1>2, <1>4, <2>3
    <3>2. QED BY <1>1, <3>1
  <2>4. QED BY <2>2, <2>3
<1>7. \A i, j \in DOMAIN checkpoints' :
        /\ checkpoints'[i].run = checkpoints'[j].run
        /\ checkpoints'[i].epoch = checkpoints'[j].epoch
        => i = j
  <2>1. ASSUME NEW i \in 1 .. n, NEW j \in 1 .. n,
               checkpoints'[i].run = checkpoints'[j].run,
               checkpoints'[i].epoch = checkpoints'[j].epoch
        PROVE  i = j
    BY <1>1, <2>1 DEF Kept, IsVersion
  <2>2. ASSUME NEW i \in 1 .. n, checkpoints'[i].run = r
        PROVE  checkpoints'[i].epoch # w.epoch
    BY <1>1, <1>3, <2>2
  <2>3. QED BY <1>1, <2>1, <2>2
<1>8. \A q \in Runs : state'[q] # NoState =>
        /\ state'[q].ckpt \in DOMAIN checkpoints'
        /\ checkpoints'[state'[q].ckpt] = state'[q]
  <2>1. ASSUME NEW q \in Runs, q # r, state[q] # NoState
        PROVE  /\ state[q].ckpt \in DOMAIN checkpoints'
               /\ checkpoints'[state[q].ckpt] = state[q]
    <3>1. state[q].ckpt \in 1 .. n /\ checkpoints[state[q].ckpt] = state[q]
      BY <1>1, <2>1 DEF Kept, Stored
    <3>2. QED BY <1>1, <3>1
  <2>2. QED BY <1>1, <1>4, <2>1
<1>9. QED
  BY <1>5, <1>6, <1>7, <1>8 DEF Kept, IsVersion, Stored

(* A step that puts a version or leaves the store alone loses none.           *)
LEMMA StoreStepKeepsKept ==
  ASSUME StoreTypeOK, Kept, StoreStep
  PROVE  Kept'
<1>1. CASE UNCHANGED <<state, checkpoints>>
  BY <1>1 DEF Kept, IsVersion, Stored
<1>2. CASE \E s \in RunState : s.run \in Runs /\ s.ckpt = 0 /\ Put(s)
  BY <1>2, PutKeepsKept
<1>3. QED BY <1>1, <1>2 DEF StoreStep

(* Persisting is one of the two.                                              *)
LEMMA PersistStores ==
  ASSUME NEW c, NEW o, NEW s \in RunState, s.run \in Runs, NEW label,
         Persist(c, o, s, label)
  PROVE  StoreStep
<1>1. Prepared(s) \in RunState /\ Prepared(s).run = s.run /\ Prepared(s).ckpt = 0
  BY DEF Prepared, RunState
<1>2. QED BY <1>1 DEF Persist, StoreStep, storeVars

(* So is what a put that suspended does.                                      *)
LEMMA WriteStores ==
  ASSUME Shape, NEW c \in Calls, Write(c)
  PROVE  StoreStep
<1> DEFINE w == [Object(c) EXCEPT !.ckpt = 0]
<1>1. Object(c) \in RunState /\ Object(c).run \in Runs
  <2>1. WorkStep(c)
    BY WriteStep
  <2>2. QED BY <2>1, ObjectType DEF WorkStep
<1>2. w \in RunState /\ w.run \in Runs /\ w.ckpt = 0
  BY <1>1 DEF RunState
<1>3. Put(w) \/ UNCHANGED storeVars
  BY DEF Write
<1>4. QED BY <1>2, <1>3 DEF StoreStep, storeVars

(* Every step of the engine changes the store by such a put, or not at all. *)
LEMMA NextStores ==
  ASSUME Shape, [Next]_vars
  PROVE  StoreStep
<1>1. ASSUME NEW c \in Calls, NEW t \in Threads, RunWorkflow(c, t)
      PROVE  StoreStep
  <2>1. NewRun(c, t) \in RunState /\ NewRun(c, t).run = c
    BY RuntimeConstants DEF NewRun, NoState, RunState, Status, Calls
  <2>2. QED BY <1>1, <2>1, PersistStores DEF RunWorkflow, Calls
<1>2. ASSUME NEW c \in Calls, NEW k \in DOMAIN checkpoints, ResumeFromCheckpoint(c, k)
      PROVE  StoreStep
  <2>1. checkpoints[k] \in RunState
    BY ElementOfSeq, LenProperties DEF Shape, TypeOK, StoreTypeOK
  <2>2. Restored(c, k) \in RunState /\ Restored(c, k).run = c
    BY <2>1 DEF Restored, RunState, Status, Calls
  <2>3. Persist(c, c, Restored(c, k), "registering")
    BY <1>2 DEF ResumeFromCheckpoint
  <2>4. QED BY <2>2, <2>3, PersistStores DEF Calls
<1>3. ASSUME NEW c \in Calls, NEW r \in Runs, ResumeWorkflow(c, r)
      PROVE  StoreStep
  BY <1>3 DEF ResumeWorkflow, StoreStep, storeVars
<1>4. ASSUME NEW c \in Calls, Proceed(c)
      PROVE  StoreStep
  <2>1. CASE Loaded(c)
    BY <2>1 DEF Loaded, StoreStep, storeVars
  <2>2. CASE Puts(c)
    <3>1. PICK s \in RunState, label \in DOMAIN InPut :
            MadeFrom(c, s) /\ Persist(c, ref[c], s, label)
      BY <2>2 DEF Puts
    <3>2. RunOf(c) \in Runs
      <4>1. CASE Loaded(c)
        BY <4>1 DEF Loaded, At, Shape, ObjectsHaveRuns, FreshIsPrivate, Fresh, RunOf,
                    Object
      <4>2. CASE ~Loaded(c)
        BY <1>4, <4>2, ProceedIsWorkStep, ObjectType DEF WorkStep
      <4>3. QED BY <4>1, <4>2
    <3>3. QED BY <3>1, <3>2, PersistStores DEF MadeFrom
  <2>3. CASE Spares(c)
    BY <2>3 DEF Spares, StoreStep
  <2>4. CASE Write(c)
    BY <2>4, WriteStores
  <2>5. QED BY <1>4, <2>1, <2>2, <2>3, <2>4, WorkPuts
<1>5. CASE Environment
  BY <1>5 DEF Environment, Crash, ExpireRequest, ListPendingInterrupts, StoreStep,
              storeVars
<1>6. CASE UNCHANGED vars
  BY <1>6 DEF vars, storeVars, StoreStep
<1>7. QED
  BY <1>1, <1>2, <1>3, <1>4, <1>5, <1>6 DEF Next, Start

(* No run is stored at first.                                                 *)
LEMMA InitKept == Init => Kept
<1>1. SUFFICES ASSUME Init PROVE Kept
  OBVIOUS
<1>2. DOMAIN checkpoints = {} /\ \A r \in Runs : state[r] = NoState
  BY <1>1 DEF Init, StoreInit
<1>3. NoState.epoch = 0
  BY DEF NoState
<1>4. QED
  BY <1>2, <1>3 DEF Kept, IsVersion, Stored

(* Every version of every run has its checkpoint, in every deployment: the    *)
(* invariant behind VersionsKept.                                             *)
THEOREM KeptAlways == Spec => []Kept
<1>1. Shape /\ Kept /\ [Next]_vars => Kept'
  BY NextStores, StoreStepKeepsKept DEF Shape, TypeOK
<1>2. QED
  BY <1>1, InitKept, ShapeAlways, PTL DEF Spec

(* In every deployment -- processes that crash, stale caches, resumes that     *)
(* interleave, puts that do not reach the store -- a run is stored as the       *)
(* newest of its checkpoints, and every epoch it went through has exactly one. *)
THEOREM VersionsKept == Spec => []EveryVersionKept
<1>1. TypeOK /\ Kept => EveryVersionKept
  <2>1. SUFFICES ASSUME TypeOK, Kept, NEW r \in Runs, Stored(r),
                        NEW e \in 1 .. state[r].epoch
                 PROVE  /\ checkpoints[state[r].ckpt] = state[r]
                        /\ Cardinality({i \in DOMAIN checkpoints :
                             checkpoints[i].run = r /\ checkpoints[i].epoch = e}) = 1
    BY DEF EveryVersionKept, Kept
  <2>2. PICK i \in DOMAIN checkpoints : IsVersion(i, r, e)
    BY <2>1 DEF Kept
  <2>3. {j \in DOMAIN checkpoints :
           checkpoints[j].run = r /\ checkpoints[j].epoch = e} = {i}
    BY <2>1, <2>2 DEF Kept, IsVersion
  <2>4. QED
    BY <2>1, <2>3, FS_Singleton DEF Kept
<1>2. QED
  BY <1>1, TypeCorrect, KeptAlways, PTL

-----------------------------------------------------------------------------
(* Chained: a put that is not refused is of the newest version.              *)

NobodyReturns == \A d \in Calls : pc'[d] = "idle" => pc[d] = "idle"

(* Steps that put nothing. *)
LEMMA SparingKeepsChained ==
  ASSUME Chained, Shape', Kept', UNCHANGED <<state, checkpoints>>, NobodyReturns,
         \A o \in Calls : SameObject(o),
         \A d \in Calls : pc'[d] = "pausing" => local'[d].id # 0
  PROVE  Chained'
<1>1. CheckpointChain'
  BY DEF Chained, CheckpointChain
<1>2. \A r \in Runs : Valid(state'[r]) /\ (Stored(r)' => pc'[r] # "idle")
  BY DEF Chained, Stored, NobodyReturns, Calls
<1>3. \A o \in Calls : Linked(o)'
  <2>1. SUFFICES ASSUME NEW o \in Calls, heap'[o].run \in Runs
                 PROVE  Linked(o)'
    BY DEF Linked
  <2>2. Linked(o) /\ SameObject(o)
    BY DEF Chained
  <2>3. pc'[heap[o].run] # "idle"
    BY <2>1, <2>2 DEF Linked, SameObject, NobodyReturns, Calls
  <2>4. QED
    BY <2>1, <2>2, <2>3 DEF Linked, SameObject
<1>4. QED
  BY <1>1, <1>2, <1>3 DEF Chained, Valid

(* A put of a snapshot that knows the newest version, or of the first one. *)
LEMMA PutKeepsChain ==
  ASSUME Chained, NEW s \in RunState, s.run \in Runs, s.ckpt = 0,
         Stored(s.run) => s.parent = state[s.run].ckpt,
         Put(s)
  PROVE  CheckpointChain'
<1> DEFINE n == Len(checkpoints)
           r == s.run
           w == state'[s.run]
<1>1. StoreTypeOK /\ ObjectsHaveRuns
  BY DEF Chained, Shape, TypeOK
<1>2. /\ n \in Nat
      /\ DOMAIN checkpoints = 1 .. n
      /\ DOMAIN checkpoints' = 1 .. n + 1
      /\ \A i \in 1 .. n : checkpoints'[i] = checkpoints[i]
      /\ checkpoints'[n + 1] = w
      /\ state[r] \in RunState
      /\ w.run = r
      /\ w.epoch = state[r].epoch + 1
      /\ w.parent = s.parent
  <2>1. /\ Len(checkpoints) \in Nat
        /\ DOMAIN checkpoints = 1 .. Len(checkpoints)
        /\ DOMAIN checkpoints' = 1 .. Len(checkpoints) + 1
        /\ \A i \in DOMAIN checkpoints : checkpoints'[i] = checkpoints[i]
        /\ checkpoints'[Len(checkpoints) + 1] = state'[s.run]
        /\ state[s.run] \in RunState
        /\ PutAs(s)
    BY <1>1, PutAppends
  <2>2. w.run = r /\ w.epoch = state[r].epoch + 1 /\ w.parent = s.parent
    BY <2>1 DEF PutAs, CopyOf
  <2>3. QED BY <2>1, <2>2
<1> HIDE DEF n, r, w
<1>3. ASSUME NEW i \in 1 .. n, checkpoints'[i].epoch > 1
      PROVE  /\ checkpoints'[i].parent \in 1 .. i - 1
             /\ checkpoints'[checkpoints'[i].parent].run = checkpoints'[i].run
             /\ checkpoints'[checkpoints'[i].parent].epoch = checkpoints'[i].epoch - 1
  <2> DEFINE k == checkpoints[i]
  <2>1. /\ k.parent \in 1 .. i - 1
        /\ checkpoints[k.parent].run = k.run
        /\ checkpoints[k.parent].epoch = k.epoch - 1
    BY <1>2, <1>3 DEF Chained, CheckpointChain
  <2>2. k.parent \in 1 .. n
    BY <1>2, <2>1
  <2>3. QED BY <1>2, <2>1, <2>2
<1>4. ASSUME w.epoch > 1
      PROVE  /\ w.parent \in 1 .. n
             /\ checkpoints'[w.parent].run = w.run
             /\ checkpoints'[w.parent].epoch = w.epoch - 1
  <2>1. state[r].epoch \in Nat /\ r \in Runs
    BY <1>2 DEF RunState, r
  <2>2. state[r].epoch # 0
    BY <1>2, <1>4, <2>1
  <2>3. Stored(r)
    BY <2>2 DEF Stored, NoState
  <2>4. w.parent = state[r].ckpt
    BY <1>2, <2>3 DEF r
  <2>5. /\ state[r].ckpt \in 1 .. n
        /\ checkpoints[state[r].ckpt] = state[r]
        /\ state[r].run = r
    BY <1>1, <1>2, <2>1, <2>3 DEF Chained, Kept, ObjectsHaveRuns
  <2>6. QED BY <1>2, <2>1, <2>4, <2>5
<1>5. SUFFICES ASSUME NEW i \in DOMAIN checkpoints', checkpoints'[i].epoch > 1
               PROVE  /\ checkpoints'[i].parent \in 1 .. i - 1
                      /\ checkpoints'[checkpoints'[i].parent].run = checkpoints'[i].run
                      /\ checkpoints'[checkpoints'[i].parent].epoch
                           = checkpoints'[i].epoch - 1
  BY DEF CheckpointChain
<1>6. CASE i \in 1 .. n
  BY <1>3, <1>5, <1>6
<1>7. CASE i = n + 1
  BY <1>2, <1>4, <1>5, <1>7
<1>8. QED BY <1>2, <1>6, <1>7

(* What _persist_state does with a valid snapshot, where the store answers.  *)
Stores(o, s) ==
  LET k == state[s.run]
      w == Prepared(s)
  IN
    \/ /\ s.epoch >= k.epoch
       /\ Put(w)
       /\ heap' = [heap EXCEPT ![o] = state'[s.run]]
    \/ /\ s.epoch < k.epoch
       /\ heap' = [heap EXCEPT ![o] = w]
       /\ UNCHANGED <<state, checkpoints>>

(* Persisting an object, in terms of Stores.                                  *)
LEMMA PersistIsStores ==
  ASSUME TypeOK, ReliableStore, NEW c, NEW o, NEW s \in RunState, s.run \in Runs,
         Valid(s), NEW label \in DOMAIN InPut, Persist(c, o, s, label)
  PROVE  Stores(o, s)
<1> DEFINE w == Prepared(s)
<1>1. /\ w \in RunState /\ w.run = s.run /\ w.epoch = s.epoch
      /\ Valid(w)
  BY DEF Prepared, RunState, Valid
<1>2. state[s.run].epoch \in Nat /\ s.epoch \in Nat
  BY DEF TypeOK, StoreTypeOK, RunState
<1>3. CASE Accepts(w) /\ Put(w) /\ heap' = [heap EXCEPT ![o] = Stamped(w)]
  <2>1. s.epoch >= state[s.run].epoch
    BY <1>1, <1>2, <1>3 DEF Accepts, Stale
  <2>2. state'[s.run] = Stamped(w)
    BY <1>1, <1>3 DEF Put, TypeOK, StoreTypeOK
  <2>3. QED BY <1>3, <2>1, <2>2 DEF Stores
<1>4. CASE ~Accepts(w) /\ heap' = [heap EXCEPT ![o] = w] /\ UNCHANGED storeVars
  <2>1. s.epoch < state[s.run].epoch
    BY <1>1, <1>2, <1>4 DEF Accepts, Stale
  <2>2. QED BY <1>4, <2>1 DEF Stores, storeVars
<1>5. InPut[label] \notin Yields
  BY PutsAtOnce DEF ReliableStore
<1>6. QED BY <1>3, <1>4, <1>5 DEF Persist, ReliableStore

(* A snapshot of an object, or the first of a run that is not stored yet. *)
LEMMA StoringKeepsChained ==
  ASSUME Chained, Shape', Kept', NobodyReturns, NEW o \in Calls,
         NEW s \in RunState, s.run \in Runs, pc'[s.run] # "idle", Valid(s),
         \/ /\ state[s.run] = NoState
            /\ \A x \in Calls : heap[x].run = s.run => x = o
         \/ /\ s.thread = state[s.run].thread
            /\ s.epoch <= state[s.run].epoch
            /\ s.epoch = state[s.run].epoch => s.ckpt = state[s.run].ckpt,
         Stores(o, s),
         \A d \in Calls : pc'[d] = "pausing" => local'[d].id # 0
  PROVE  Chained'
<1> DEFINE r == s.run
           w == Prepared(s)
<1>1. /\ StoreTypeOK
      /\ heap \in [Calls -> RunState]
      /\ state[r] \in RunState
      /\ state[r].epoch \in Nat
      /\ s.epoch \in Nat
  BY DEF Chained, Shape, TypeOK, StoreTypeOK, RunState
<1>2. /\ w \in RunState /\ w.run = r /\ w.ckpt = 0 /\ w.parent = s.ckpt
      /\ w.epoch = s.epoch /\ w.thread = s.thread
      /\ Valid(w)
  BY DEF Prepared, RunState, Valid
<1> HIDE DEF w
<1>3. \A x \in Calls : x # o => heap'[x] = heap[x]
  BY <1>1 DEF Stores
<1>4. CASE /\ s.epoch >= state[r].epoch
           /\ Put(w)
           /\ heap' = [heap EXCEPT ![o] = state'[r]]
  <2>1. PutAs(w)
    BY <1>1, <1>2, <1>4, PutAppends
  <2>2. /\ state'[r] \in RunState
        /\ state'[r].run = r
        /\ state'[r].epoch = state[r].epoch + 1
        /\ state'[r].thread = s.thread
        /\ Valid(state'[r])
        /\ state'[r].epoch \in Nat
    BY <1>1, <1>2, <2>1 DEF PutAs, CopyOf, Valid
  <2>3. \A q \in Runs : q # r => state'[q] = state[q]
    BY <1>1, <1>2, <2>1 DEF PutAs, StoreTypeOK
  <2>4. CheckpointChain'
    <3>1. Stored(r) => w.parent = state[r].ckpt
      BY <1>1, <1>2, <1>4 DEF Stored
    <3>2. QED BY <1>2, <1>4, <3>1, PutKeepsChain
  <2>5. \A q \in Runs : Valid(state'[q]) /\ (state'[q] # NoState => pc'[q] # "idle")
    BY <2>2, <2>3 DEF Chained, Stored, NobodyReturns, Calls
  <2>6. Linked(o)'
    <3>1. heap'[o] = state'[r]
      BY <1>1, <1>4
    <3>2. QED BY <1>2, <2>2, <3>1 DEF Linked
  <2>7. ASSUME NEW x \in Calls, x # o
        PROVE  Linked(x)'
    <3>1. SUFFICES ASSUME heap[x].run \in Runs
                   PROVE  Linked(x)'
      BY <1>3, <2>7 DEF Linked
    <3>2. Linked(x) /\ heap'[x] = heap[x] /\ heap[x] \in RunState
      BY <1>1, <1>3, <2>7 DEF Chained
    <3>3. pc'[heap[x].run] # "idle"
      BY <3>1, <3>2 DEF Linked, NobodyReturns, Calls
    <3>4. CASE heap[x].run = r
      <4>1. heap[x].thread = state'[r].thread /\ heap[x].epoch < state'[r].epoch
        <5>1. heap[x].epoch \in Nat
          BY <3>2 DEF RunState
        <5>2. heap[x].thread = state[r].thread /\ heap[x].epoch <= state[r].epoch
          BY <3>1, <3>2, <3>4 DEF Linked
        <5>3. s.thread = state[r].thread
          BY <2>7, <3>4
        <5>4. QED BY <1>1, <2>2, <5>1, <5>2, <5>3
      <4>2. heap[x].epoch \in Nat /\ state'[r].epoch \in Nat
        BY <2>2, <3>2 DEF RunState
      <4>3. QED BY <3>1, <3>2, <3>3, <3>4, <4>1, <4>2 DEF Linked
    <3>5. CASE heap[x].run # r
      BY <2>3, <3>1, <3>2, <3>3, <3>5 DEF Linked
    <3>6. QED BY <3>4, <3>5
  <2>8. QED
    BY <2>4, <2>5, <2>6, <2>7 DEF Chained, Stored
<1>5. CASE /\ s.epoch < state[r].epoch
           /\ heap' = [heap EXCEPT ![o] = w]
           /\ UNCHANGED <<state, checkpoints>>
  <2>1. state[r] # NoState
    BY <1>1, <1>5 DEF NoState
  <2>2. Linked(o)'
    BY <1>1, <1>2, <1>5, <2>1 DEF Linked
  <2>3. ASSUME NEW x \in Calls, x # o
        PROVE  Linked(x)'
    <3>1. Linked(x) /\ heap'[x] = heap[x]
      BY <1>3, <2>3 DEF Chained
    <3>2. heap[x].run \in Runs => pc'[heap[x].run] # "idle"
      BY <3>1 DEF Linked, NobodyReturns, Calls
    <3>3. QED BY <1>5, <3>1, <3>2 DEF Linked
  <2>4. CheckpointChain'
    BY <1>5 DEF Chained, CheckpointChain
  <2>5. \A q \in Runs : Valid(state'[q]) /\ (Stored(q)' => pc'[q] # "idle")
    BY <1>5 DEF Chained, Stored, NobodyReturns, Calls
  <2>6. QED
    BY <2>2, <2>3, <2>4, <2>5 DEF Chained, Valid
<1>6. QED
  BY <1>4, <1>5 DEF Stores, w

(* A call that creates a run: nothing is stored, and no object is, of its name. *)
LEMMA CreatingKeepsChained ==
  ASSUME Chained, Shape', Kept', ReliableStore, NEW c \in Calls, pc[c] = "idle",
         NEW s \in RunState, s.run = c, Valid(s), Persist(c, c, s, "registering"),
         local' = local
  PROVE  Chained'
<1>1. TypeOK /\ "registering" \in DOMAIN InPut /\ c \in Runs
  BY PutLabels DEF Chained, Shape, Calls
<1>2. Stores(c, s)
  BY <1>1, PersistIsStores
<1>3. pc'[c] \in {"registering", "done"} /\ \A d \in Calls : d # c => pc'[d] = pc[d]
  BY <1>1, PersistFacts, PutsAtOnce DEF ReliableStore
<1>4. state[c] = NoState
  BY <1>1 DEF Chained, Stored
<1>5. \A x \in Calls : heap[x].run # c
  BY <1>1 DEF Chained, Linked
<1>6. NobodyReturns /\ \A d \in Calls : pc'[d] = "pausing" => local'[d].id # 0
  BY <1>3 DEF NobodyReturns, Chained
<1>7. QED
  BY <1>1, <1>2, <1>3, <1>4, <1>5, <1>6, StoringKeepsChained

(* A call that puts the object it works on. *)
LEMMA PuttingKeepsChained ==
  ASSUME Chained, Shape', Kept', ReliableStore, NEW c \in Calls, WorkStep(c),
         Puts(c)
  PROVE  Chained'
<1>1. /\ TypeOK /\ Shape /\ Working(c)
      /\ NobodyReturns
      /\ \A d \in Calls : d # c => pc'[d] = pc[d] /\ local'[d] = local[d]
  BY DEF Chained, Shape, WorkStep, NobodyReturns
<1>2. ref[c] \in Calls /\ RunOf(c) \in Runs /\ RunOf(c) = heap[ref[c]].run
  BY <1>1, ObjectType DEF Object
<1>3. Linked(ref[c])
  BY <1>2 DEF Chained
<1>4. Sound(c)
  BY <1>2, <1>3 DEF Sound, Linked, Chained, Object
<1>5. PICK s \in RunState, label \in DOMAIN InPut :
        MadeFrom(c, s) /\ Valid(s) /\ Persist(c, ref[c], s, label)
  BY <1>4 DEF Puts
<1>6. s.run = RunOf(c) /\ s.run \in Runs
  BY <1>2, <1>5 DEF MadeFrom
<1>7. Stores(ref[c], s)
  BY <1>1, <1>5, <1>6, PersistIsStores
<1>8. pc'[c] \in {label, "done"} /\ label # "pausing"
  BY <1>1, <1>2, <1>5, <1>6, PersistFacts, PutsAtOnce, PutLabels DEF ReliableStore
<1>9. \A d \in Calls : pc'[d] = "pausing" => local'[d].id # 0
  BY <1>1, <1>8 DEF Chained
<1>10. pc'[s.run] # "idle"
  BY <1>1, <1>2, <1>3, <1>6 DEF Linked, NobodyReturns, Calls
<1>11. /\ s.thread = state[s.run].thread
       /\ s.epoch <= state[s.run].epoch
       /\ s.epoch = state[s.run].epoch => s.ckpt = state[s.run].ckpt
  BY <1>2, <1>3, <1>5 DEF Linked, MadeFrom, Object
<1>12. QED
  BY <1>1, <1>2, <1>5, <1>6, <1>7, <1>9, <1>10, <1>11, StoringKeepsChained

(* Entering an approval in an object keeps what the invariant says of it. *)
LEMMA DispatchSpares ==
  ASSUME heap \in [Calls -> RunState], NEW c, NEW o \in Calls, NEW l,
         Dispatch(c, o, l)
  PROVE  /\ \A x \in Calls : SameObject(x)
         /\ \E label \in {"granting", "rejecting", "resolving", "done"} : Goto(c, label)
<1>1. CASE heap' = heap
  BY <1>1 DEF Dispatch, SameObject
<1>2. CASE heap' = [heap EXCEPT ![o].approved = @ \cup {heap[o].approval}]
  BY <1>2 DEF Dispatch, SameObject, Valid, RunState
<1>3. QED BY <1>1, <1>2 DEF Dispatch

(* resume_workflow works on the object of its process, or copies what is stored. *)
LEMMA ResumingKeepsChained ==
  ASSUME Chained, Shape', Kept', NEW c \in Calls, NEW r \in Runs, ResumeWorkflow(c, r)
  PROVE  Chained'
<1>1. /\ pc[c] = "idle" /\ UNCHANGED <<state, checkpoints>>
      /\ pc \in [Calls -> PC] /\ heap \in [Calls -> RunState]
      /\ state[r] \in RunState
      /\ ref \in [Calls -> Calls]
  BY DEF ResumeWorkflow, At, storeVars, Chained, Shape, TypeOK, StoreTypeOK
<1>2. PICK l \in Payloads(r) : ResumeCached(c, r, l) \/ ResumeLoading(c, r, l)
  BY DEF ResumeWorkflow
<1>3. CASE ResumeCached(c, r, l)
  <2> DEFINE o == cache[ProcOf[c]][r]
  <2>1. o \in Calls /\ Dispatch(c, o, l)
    <3>1. cache[ProcOf[c]][r] \in Calls \cup {None}
      BY RuntimeConstants DEF Chained, Shape, TypeOK
    <3>2. QED BY <1>3, <3>1 DEF ResumeCached
  <2>2. /\ \A x \in Calls : SameObject(x)
        /\ \E label \in {"granting", "rejecting", "resolving", "done"} : Goto(c, label)
    BY <1>1, <2>1, DispatchSpares
  <2>3. NobodyReturns /\ pc'[c] # "pausing"
        /\ \A d \in Calls : d # c => pc'[d] = pc[d]
    BY <1>1, <2>2 DEF Goto, NobodyReturns
  <2>4. \A d \in Calls : d # c => local'[d] = local[d]
    BY <2>1 DEF Dispatch, Chained, Shape, TypeOK
  <2>5. \A d \in Calls : pc'[d] = "pausing" => local'[d].id # 0
    BY <2>3, <2>4 DEF Chained
  <2>6. QED BY <1>1, <2>2, <2>3, <2>5, SparingKeepsChained
<1>4. CASE ResumeLoading(c, r, l)
  <2>1. /\ Stored(r)
        /\ heap' = [heap EXCEPT ![c] = state[r]]
        /\ local' = [local EXCEPT ![c] = l]
        /\ Goto(c, "loading")
    BY <1>4 DEF ResumeLoading
  <2>2. /\ pc'[c] = "loading"
        /\ \A d \in Calls : d # c => pc'[d] = pc[d]
        /\ NobodyReturns
    BY <1>1, <2>1 DEF Goto, NobodyReturns
  <2>3. CheckpointChain'
    BY <1>1 DEF Chained, CheckpointChain
  <2>4. \A q \in Runs : Valid(state'[q]) /\ (Stored(q)' => pc'[q] # "idle")
    BY <1>1, <2>2 DEF Chained, Stored, NobodyReturns, Calls
  <2>5. Linked(c)'
    <3>1. heap'[c] = state[r] /\ state[r].run = r /\ state[r].epoch \in Nat
      BY <1>1, <2>1 DEF Chained, Shape, ObjectsHaveRuns, RunState
    <3>2. QED BY <1>1, <2>1, <2>4, <3>1 DEF Linked, Stored
  <2>6. ASSUME NEW x \in Calls, x # c
        PROVE  Linked(x)'
    <3>1. Linked(x) /\ heap'[x] = heap[x]
      BY <1>1, <2>1, <2>6 DEF Chained
    <3>2. heap[x].run \in Runs => pc'[heap[x].run] # "idle"
      BY <2>2, <3>1 DEF Linked, NobodyReturns, Calls
    <3>3. QED BY <1>1, <3>1, <3>2 DEF Linked
  <2>7. \A d \in Calls : pc'[d] = "pausing" => local'[d].id # 0
    BY <2>1, <2>2 DEF Chained, Shape, TypeOK
  <2>8. QED
    BY <2>3, <2>4, <2>5, <2>6, <2>7 DEF Chained, Valid
<1>5. QED BY <1>2, <1>3, <1>4

(* The answer of the store arrives.                                           *)
LEMMA LoadedKeepsChained ==
  ASSUME Chained, Shape', Kept', NEW c \in Calls, Loaded(c)
  PROVE  Chained'
<1>1. /\ pc[c] = "loading" /\ UNCHANGED <<state, checkpoints>>
      /\ pc \in [Calls -> PC] /\ heap \in [Calls -> RunState]
      /\ local \in [Calls -> Local]
      /\ Dispatch(c, c, local[c])
  BY DEF Loaded, At, storeVars, Chained, Shape, TypeOK
<1>2. /\ \A x \in Calls : SameObject(x)
      /\ \E label \in {"granting", "rejecting", "resolving", "done"} : Goto(c, label)
  BY <1>1, DispatchSpares
<1>3. NobodyReturns /\ pc'[c] # "pausing" /\ \A d \in Calls : d # c => pc'[d] = pc[d]
  BY <1>1, <1>2 DEF Goto, NobodyReturns
<1>4. \A d \in Calls : d # c => local'[d] = local[d]
  BY <1>1 DEF Dispatch
<1>5. \A d \in Calls : pc'[d] = "pausing" => local'[d].id # 0
  BY <1>3, <1>4 DEF Chained
<1>6. QED BY <1>1, <1>2, <1>3, <1>5, SparingKeepsChained

(* Crashes, the clock and the clients of the interrupt manager put nothing.   *)
LEMMA EnvironmentKeepsChained ==
  ASSUME Chained, Shape', Kept', Environment \/ UNCHANGED vars
  PROVE  Chained'
<1>1. /\ UNCHANGED <<state, checkpoints, heap, local>>
      /\ \A d \in Calls : pc'[d] = pc[d] \/ pc'[d] = "crashed"
  <2>1. ASSUME NEW p \in Procs, Crash(p)
        PROVE  /\ UNCHANGED <<state, checkpoints, heap, local>>
               /\ \A d \in Calls : pc'[d] = pc[d] \/ pc'[d] = "crashed"
    BY <2>1 DEF Crash, storeVars
  <2>2. CASE UNCHANGED <<storeVars, runtimeVars, crashes, history>>
    BY <2>2 DEF storeVars, runtimeVars
  <2>3. QED
    BY <2>1, <2>2 DEF Environment, ExpireRequest, ListPendingInterrupts, vars
<1>2. NobodyReturns /\ \A o \in Calls : SameObject(o)
  BY <1>1 DEF NobodyReturns, SameObject
<1>3. \A d \in Calls : pc'[d] = "pausing" => local'[d].id # 0
  BY <1>1 DEF Chained
<1>4. QED BY <1>1, <1>2, <1>3, SparingKeepsChained

(* Any step.                                                                  *)
LEMMA NextKeepsChained ==
  ASSUME ReliableStore, Chained, [Next]_vars
  PROVE  Chained'
<1>1. Shape' /\ Kept'
  BY NextKeepsShape, NextStores, StoreStepKeepsKept DEF Chained, Shape, TypeOK
<1>2. ASSUME NEW c \in Calls, NEW t \in Threads, RunWorkflow(c, t)
      PROVE  Chained'
  <2>1. NewRun(c, t) \in RunState /\ NewRun(c, t).run = c /\ Valid(NewRun(c, t))
    BY RuntimeConstants DEF NewRun, NoState, RunState, Status, Calls, Valid
  <2>2. QED BY <1>1, <1>2, <2>1, CreatingKeepsChained DEF RunWorkflow, At
<1>3. ASSUME NEW c \in Calls, NEW k \in DOMAIN checkpoints, ResumeFromCheckpoint(c, k)
      PROVE  Chained'
  <2>1. checkpoints[k] \in RunState
    BY ElementOfSeq, LenProperties DEF Chained, Shape, TypeOK, StoreTypeOK
  <2>2. Restored(c, k) \in RunState /\ Restored(c, k).run = c
        /\ Restored(c, k).status = "RUNNING"
    BY <2>1 DEF Restored, RunState, Status, Calls
  <2>3. Valid(Restored(c, k))
    BY <2>2 DEF Valid
  <2>4. Persist(c, c, Restored(c, k), "registering") /\ local' = local /\ pc[c] = "idle"
    BY <1>3 DEF ResumeFromCheckpoint, At
  <2>5. QED BY <1>1, <2>2, <2>3, <2>4, CreatingKeepsChained
<1>4. ASSUME NEW c \in Calls, Proceed(c), ~Loaded(c)
      PROVE  Chained'
  <2>1. WorkStep(c) /\ (Puts(c) \/ Spares(c))
    BY <1>4, ProceedIsWorkStep, WorkPuts, PutsAtOnce DEF Chained, ReliableStore
  <2>2. CASE Puts(c)
    BY <1>1, <2>1, <2>2, PuttingKeepsChained
  <2>3. CASE Spares(c)
    <3>1. NobodyReturns /\ \A d \in Calls : pc'[d] = "pausing" => local'[d].id # 0
      BY <2>1, <2>3 DEF WorkStep, NobodyReturns, Spares, Chained
    <3>2. QED BY <1>1, <2>3, <3>1, SparingKeepsChained DEF Spares
  <2>4. QED BY <2>1, <2>2, <2>3
<1>5. QED
  BY <1>1, <1>2, <1>3, <1>4, ResumingKeepsChained, LoadedKeepsChained,
     EnvironmentKeepsChained DEF Next, Start

(* It holds before the first step.                                            *)
LEMMA InitChained == Init => Chained
<1> SUFFICES ASSUME Init PROVE Chained
  OBVIOUS
<1>1. Shape /\ Kept
  BY InitShape, InitKept
<1>2. /\ \A r \in Runs : state[r] = NoState
      /\ \A o \in Calls : heap[o] = NoState
      /\ DOMAIN checkpoints = {}
      /\ \A c \in Calls : pc[c] = "idle"
  BY DEF Init, StoreInit
<1>3. Valid(NoState) /\ NoState.run \notin Runs
  BY NoneIsNoName DEF NoState, Valid
<1>4. QED
  BY <1>1, <1>2, <1>3 DEF Chained, CheckpointChain, Linked, Stored

(* Where puts reach the store, whatever else is stale, crashes or interleaves: *)
(* the checkpoints of a run are one chain of parents, without a gap and without *)
(* a fork, down to its first version.                                       *)
THEOREM CheckpointsChain ==
  ASSUME ReliableStore
  PROVE  Spec => []CheckpointChain
<1>1. Chained /\ [Next]_vars => Chained'
  BY NextKeepsChained
<1>2. Chained => CheckpointChain
  BY DEF Chained
<1>3. QED
  BY <1>1, <1>2, InitChained, PTL DEF Spec

-----------------------------------------------------------------------------
(* Persist, for a snapshot that is valid: the store takes it and gives it the *)
(* next epoch, or holds a newer one.                                        *)
Taken(c, o, s, label) ==
  LET e == state[s.run].epoch IN
    /\ s.epoch >= e
    /\ state'[s.run].epoch = e + 1
    /\ state'[s.run].status = s.status
    /\ heap'[o].epoch = e + 1
    /\ heap'[o].status = s.status
    /\ pc'[c] = label

Refused(c, o, s) ==
  /\ s.epoch < state[s.run].epoch
  /\ state' = state
  /\ heap'[o].epoch = s.epoch
  /\ heap'[o].status = s.status
  /\ pc'[c] = "done"

(* The two outcomes of persisting a valid snapshot while the store answers. *)
LEMMA PersistOutcome ==
  ASSUME TypeOK, ReliableStore, NEW c \in Calls, NEW o \in Calls,
         NEW s \in RunState, s.run \in Runs, Valid(s), NEW label \in DOMAIN InPut,
         Persist(c, o, s, label)
  PROVE  Taken(c, o, s, label) \/ Refused(c, o, s)
<1> DEFINE w == Prepared(s)
<1>1. /\ w \in RunState
      /\ w.run = s.run
      /\ w.epoch = s.epoch
      /\ w.status = s.status
      /\ w.interrupt = s.interrupt
      /\ w.approval = s.approval
  BY DEF Prepared, RunState
<1>2. Valid(w)
  BY <1>1 DEF Valid
<1>3. state[s.run].epoch \in Nat /\ s.epoch \in Nat
  BY DEF TypeOK, StoreTypeOK, RunState
<1>4. CASE /\ Accepts(w)
           /\ Put(w)
           /\ heap' = [heap EXCEPT ![o] = Stamped(w)]
           /\ Goto(c, label)
  <2>1. s.epoch >= state[s.run].epoch
    BY <1>1, <1>3, <1>4 DEF Accepts, Stale
  <2>2. /\ Stamped(w).epoch = state[s.run].epoch + 1
        /\ Stamped(w).status = s.status
    BY <1>1 DEF Stamped, RunState
  <2>3. state' = [state EXCEPT ![s.run] = Stamped(w)]
    BY <1>1, <1>4 DEF Put
  <2>4. pc'[c] = label
    BY <1>4 DEF Goto, TypeOK
  <2>5. QED
    BY <1>4, <2>1, <2>2, <2>3, <2>4 DEF Taken, TypeOK, StoreTypeOK
<1>5. CASE /\ ~Accepts(w) \/ PutMayFail
           /\ heap' = [heap EXCEPT ![o] = w]
           /\ Finish(c)
           /\ UNCHANGED storeVars
  <2>1. Stale(w)
    BY <1>2, <1>5 DEF ReliableStore, Accepts
  <2>2. s.epoch < state[s.run].epoch
    BY <1>1, <1>3, <2>1 DEF Stale
  <2>3. pc'[c] = "done" /\ state' = state
    BY <1>5 DEF Finish, Goto, TypeOK, storeVars
  <2>4. QED
    BY <1>1, <1>5, <2>2, <2>3 DEF Refused, TypeOK
<1>6. InPut[label] \notin Yields
  BY PutsAtOnce DEF ReliableStore
<1>7. QED
  BY <1>4, <1>5, <1>6 DEF Persist

(* A holder's object: in use, not newer than the store, of a run in Runs. *)
LEMMA HolderFacts ==
  ASSUME Ownership, NEW c \in Calls, Working(c)
  PROVE  /\ ref[c] \in Calls
         /\ InUse(ref[c])
         /\ Coherent(ref[c])
         /\ RunOf(c) \in Runs
         /\ RunOf(c) = heap[ref[c]].run
         /\ heap[ref[c]] \in RunState
         /\ state[RunOf(c)] \in RunState
         /\ pc[RunOf(c)] # "idle"
<1>1. ref[c] \in Calls /\ RunOf(c) \in Runs /\ heap[ref[c]] \in RunState
  BY ObjectType DEF Ownership, Object
<1>2. InUse(ref[c])
  BY DEF Working, InUse
<1>3. state[RunOf(c)] \in RunState
  BY <1>1 DEF Ownership, Shape, TypeOK, StoreTypeOK
<1>4. QED
  BY <1>1, <1>2, <1>3
     DEF Ownership, ObjectsAreCoherent, NamedByItsCall, RunOf, Object

(* An object in use belongs to a run of Runs. *)
LEMMA InUseHasRun ==
  ASSUME Ownership, NEW o \in Calls, InUse(o)
  PROVE  heap[o].run \in Runs /\ heap[o] \in RunState
<1>1. heap[o] \in RunState
  BY DEF Ownership, Shape, TypeOK
<1>2. CASE \E r \in Runs : cache[ProcOf[o]][r] = o
  <2>1. PICK r \in Runs : cache[ProcOf[o]][r] = o
    BY <1>2
  <2>2. ProcOf[o] \in Procs /\ o # None
    BY NoneIsNoName, RuntimeConstants DEF Calls
  <2>3. QED
    BY <1>1, <2>1, <2>2 DEF Ownership, Shape, ObjectsHaveRuns
<1>3. CASE \E c \in Calls : Live(c) /\ ref[c] = o
  <2>1. PICK c \in Calls : Live(c) /\ ref[c] = o
    BY <1>3
  <2>2. CASE Working(c)
    BY <1>1, <2>1, <2>2
       DEF Ownership, Shape, ObjectsHaveRuns, RunOf, Object
  <2>3. CASE pc[c] = "loading"
    BY <1>1, <2>1, <2>3
       DEF Ownership, Shape, ObjectsHaveRuns, FreshIsPrivate, Fresh
  <2>4. QED BY <2>1, <2>2, <2>3 DEF Live, Working, Fresh
<1>4. QED
  BY <1>2, <1>3 DEF InUse

(* The call that persists a run holds it alone. *)
LEMMA NoOtherDriver ==
  ASSUME Ownership, NEW c \in Calls,
         pc[c] \in {"granting", "rejecting", "resumed"} \/ Drives(c),
         Object(c).epoch = state[RunOf(c)].epoch,
         NEW d \in Calls, d # c, Drives(d)
  PROVE  RunOf(d) # RunOf(c)
<1>1. SUFFICES ASSUME ~Drives(c), RunOf(d) = RunOf(c)
               PROVE  FALSE
  BY DEF Ownership, SingleDriver
<1>2. Working(c) /\ Working(d)
  BY DEF Working, Live, Fresh, Drives
<1>3. Knows(c) /\ Knows(d)
  BY DEF Ownership, HoldersKnowTheirRun
<1>4. state[RunOf(c)].status \in {"WAITING_APPROVAL", "WAITING_INTERRUPT"}
  <2>1. CASE pc[c] \in {"granting", "rejecting"}
    <3>1. Object(c).status = "WAITING_APPROVAL"
      BY <1>3, <2>1 DEF Knows
    <3>2. QED
      BY <1>2, <3>1, HolderFacts DEF Coherent, Object, RunOf
  <2>2. CASE pc[c] = "resumed"
    BY <1>3, <2>2 DEF Knows, RunOf
  <2>3. QED BY <1>1, <2>1, <2>2
<1>5. /\ Object(d).epoch = state[RunOf(d)].epoch
      /\ Object(d).status \in {"PENDING", "RUNNING"}
  BY <1>3 DEF Knows, RunOf, Drives
<1>6. PICK e \in Calls : pc[e] = "resumed" /\ ref[e] = ref[d]
  BY <1>1, <1>2, <1>4, <1>5, HolderFacts DEF Coherent, Object, RunOf
<1>7. e = d
  BY <1>6 DEF Ownership, OneHolderPerObject, Holds
<1>8. QED
  BY <1>6, <1>7 DEF Drives

-----------------------------------------------------------------------------
(* Steps that hold on to a run or let it go without touching the store: the   *)
(* object keeps its epoch and status.                                       *)
LEMMA QuietKeepsOwnership ==
  ASSUME Ownership, Shape', NEW c \in Calls, Working(c),
         UNCHANGED <<state, ref, cache>>,
         \A o \in Calls : /\ heap'[o].run = heap[o].run
                          /\ heap'[o].epoch = heap[o].epoch
                          /\ heap'[o].status = heap[o].status,
         \A d \in Calls : d # c => pc'[d] = pc[d] /\ local'[d] = local[d],
         pc[c] # "resumed",
         pc'[c] \notin {"idle", "loading", "resumed", "granting", "rejecting",
                        "registering"},
         pc'[c] \in {"resolving", "deciding"} =>
           pc[c] \in {"resolving", "deciding"},
         Drives(c)' => Drives(c),
         pc'[c] = "launching" => Object(c).status = "PENDING",
         Drives(c)' /\ pc'[c] # "launching" => Object(c).status = "RUNNING",
         pc'[c] = "pausing" => local'[c].id # 0
  PROVE  Ownership'
<1>1. /\ ref[c] \in Calls
      /\ ref \in [Calls -> Calls]
  BY DEF Ownership, Shape, TypeOK
<1>2. \A d \in Calls : /\ RunOf(d)' = RunOf(d)
                       /\ Object(d)'.run = Object(d).run
                       /\ Object(d)'.epoch = Object(d).epoch
                       /\ Object(d)'.status = Object(d).status
  BY <1>1 DEF RunOf, Object
<1>3. \A d \in Calls : Live(d)' => Live(d)
  BY DEF Live, Working
<1>4. \A o \in Calls : InUse(o)' => InUse(o)
  BY <1>3 DEF InUse
<1>5. \A d \in Calls : /\ Drives(d)' => Drives(d)
                       /\ Holds(d)' => Holds(d)
  BY DEF Drives, Holds, Taking
<1>6. OwnProcess'
  BY DEF Ownership, OwnProcess
<1>7. NamedByItsCall'
  <2>1. \A d \in Calls : pc'[d] = "idle" => pc[d] = "idle"
    OBVIOUS
  <2>2. \A o \in Calls : InUse(o) => heap[o].run \in Calls
    BY InUseHasRun DEF Calls
  <2>3. QED
    BY <1>4, <2>1, <2>2 DEF Ownership, NamedByItsCall, Stored
<1>8. ObjectsAreCoherent'
  <2>1. SUFFICES ASSUME NEW o \in Calls, InUse(o)
                 PROVE  Coherent(o)'
    BY <1>4 DEF ObjectsAreCoherent
  <2>2. Coherent(o)
    BY <2>1 DEF Ownership, ObjectsAreCoherent
  <2>3. \A d \in Calls : pc[d] = "resumed" => pc'[d] = "resumed"
    OBVIOUS
  <2>4. QED
    BY <2>2, <2>3 DEF Coherent
<1>9. HoldersKnowTheirRun'
  <2>1. ASSUME NEW d \in Calls, d # c
        PROVE  Knows(d)'
    <3>1. Knows(d)
      BY DEF Ownership, HoldersKnowTheirRun
    <3>2. Drives(d)' = Drives(d) /\ pc'[d] = pc[d] /\ local'[d] = local[d]
      BY <2>1 DEF Drives
    <3>3. QED
      BY <1>2, <3>1, <3>2 DEF Knows
  <2>2. Knows(c)'
    <3>1. Knows(c)
      BY DEF Ownership, HoldersKnowTheirRun
    <3>2. QED
      BY <1>2, <3>1 DEF Knows
  <2>3. QED BY <2>1, <2>2 DEF HoldersKnowTheirRun
<1>10. OneHolderPerObject'
  BY <1>5 DEF Ownership, OneHolderPerObject
<1>11. SingleDriver'
  BY <1>2, <1>5 DEF Ownership, SingleDriver
<1>12. QED
  BY <1>6, <1>7, <1>8, <1>9, <1>10, <1>11 DEF Ownership

-----------------------------------------------------------------------------
(* Steps by which the holder of a run persists it.                           *)
LEMMA HolderPersistsKeepsOwnership ==
  ASSUME Ownership, Shape', ReliableStore, NEW c \in Calls,
         pc[c] \in {"granting", "rejecting", "resumed"} \/ Drives(c),
         NEW s \in RunState, s.run = RunOf(c), s.epoch = Object(c).epoch,
         Valid(s),
         NEW label \in {"advancing", "continuing", "stepping", "done",
                        "clearing", "syncing"},
         label \in {"advancing", "continuing", "stepping"} =>
           s.status = "RUNNING",
         Persist(c, ref[c], s, label),
         ref' = ref,
         \A d \in Calls : d # c => local'[d] = local[d]
  PROVE  Ownership'
<1>1. /\ Working(c)
      /\ Holds(c)
      /\ TypeOK
      /\ label \in DOMAIN InPut /\ InPut[label] \notin Yields
  BY PutLabels, PutsAtOnce
     DEF Working, Live, Fresh, Drives, Holds, Taking, Ownership, Shape, ReliableStore
<1>a. PICK o \in Calls, r \in Runs : o = ref[c] /\ r = RunOf(c)
  BY <1>1, HolderFacts
<1>2. /\ InUse(o)
      /\ Coherent(o)
      /\ r = heap[o].run
      /\ s.epoch = heap[o].epoch
      /\ heap[o] \in RunState
      /\ state[r] \in RunState
      /\ pc[r] # "idle"
  BY <1>1, <1>a, HolderFacts DEF Object
<1>3. /\ heap'[o].run = r
      /\ \A x \in Calls : x # o => heap'[x] = heap[x]
      /\ \A p \in Procs, q \in Runs :
           cache'[p][q] = IF p = ProcOf[c] /\ q = r THEN o ELSE cache[p][q]
      /\ pc'[c] \in {label, "done"}
      /\ \A d \in Calls : d # c => pc'[d] = pc[d]
      /\ \A q \in Runs : q # r => state'[q] = state[q]
  BY <1>1, <1>2, <1>a, PersistFacts
<1>4. Taken(c, o, s, label) \/ Refused(c, o, s)
  BY <1>1, <1>2, <1>a, PersistOutcome
<1>5. /\ \A d \in Calls : heap'[d].run = heap[d].run
      /\ \A d \in Calls : RunOf(d)' = RunOf(d)
      /\ ref \in [Calls -> Calls]
  BY <1>2, <1>3 DEF RunOf, Object, Ownership, Shape, TypeOK
<1>6. \A x \in Calls : InUse(x)' => InUse(x)
  <2>1. SUFFICES ASSUME NEW x \in Calls, x # o, InUse(x)'
                 PROVE  InUse(x)
    BY <1>2
  <2>2. ASSUME NEW q \in Runs, cache'[ProcOf[x]][q] = x
        PROVE  InUse(x)
    <3>1. ProcOf[x] \in Procs
      BY RuntimeConstants
    <3>2. QED
      BY <1>3, <2>1, <2>2, <3>1 DEF InUse
  <2>3. ASSUME NEW d \in Calls, Live(d)', ref[d] = x
        PROVE  InUse(x)
    <3>1. d # c
      BY <1>a, <2>1, <2>3
    <3>2. QED
      BY <1>3, <2>3, <3>1 DEF InUse, Live
  <2>4. QED
    BY <2>1, <2>2, <2>3 DEF InUse
<1>7. \A d \in Calls : d # c /\ Holds(d) => ref[d] # o
  BY <1>a, <1>1 DEF Ownership, OneHolderPerObject
<1>8. \A d \in Calls : Holds(d)' => Holds(d)
  <2>1. \A d \in Calls : d # c => (Holds(d)' <=> Holds(d))
    BY <1>3 DEF Holds, Drives
  <2>2. QED
    BY <1>1, <2>1
<1>9. \A d \in Calls : d # c => (Drives(d)' <=> Drives(d))
  BY <1>3 DEF Drives
<1>10. OwnProcess'
  <2>1. \A p \in Procs, q \in Runs :
          cache'[p][q] # None => ProcOf[cache'[p][q]] = p
    BY <1>a, <1>3 DEF Ownership, OwnProcess
  <2>2. QED
    BY <2>1 DEF Ownership, OwnProcess
<1>11. NamedByItsCall'
  <2>1. \A d \in Calls : pc'[d] = "idle" => pc[d] = "idle" /\ d # r
    BY <1>1, <1>2, <1>3 DEF Working, Fresh
  <2>2. \A d \in Calls : pc'[d] = "idle" => ~Stored(d)'
    BY <1>3, <2>1 DEF Ownership, NamedByItsCall, Stored, Calls
  <2>3. \A x \in Calls : InUse(x) => heap[x].run \in Calls
    BY InUseHasRun DEF Calls
  <2>4. \A x \in Calls : InUse(x)' => pc'[heap'[x].run] # "idle"
    BY <1>5, <1>6, <2>1, <2>3 DEF Ownership, NamedByItsCall
  <2>5. QED
    BY <2>2, <2>4 DEF NamedByItsCall
<1>12. ASSUME NEW x \in Calls, InUse(x), x # o, heap[x].run # r
       PROVE  Coherent(x)'
  <2>1. /\ heap'[x] = heap[x]
        /\ heap[x].run \in Runs
        /\ state'[heap[x].run] = state[heap[x].run]
    BY <1>3, <1>12, InUseHasRun
  <2>2. \A d \in Calls : pc[d] = "resumed" /\ ref[d] = x => pc'[d] = "resumed"
    BY <1>a, <1>3, <1>12
  <2>3. Coherent(x)
    BY <1>12 DEF Ownership, ObjectsAreCoherent
  <2>4. QED
    BY <2>1, <2>2, <2>3 DEF Coherent
<1>13. CASE Taken(c, o, s, label)
  <2>1. /\ s.epoch = state[r].epoch
        /\ state'[r].epoch = state[r].epoch + 1
        /\ state'[r].status = s.status
        /\ heap'[o].epoch = state[r].epoch + 1
        /\ heap'[o].status = s.status
        /\ pc'[c] = label
        /\ state[r].epoch \in Nat
    <3>1. s.run = r /\ state[r].epoch \in Nat /\ s.epoch \in Nat
      BY <1>a, <1>2 DEF RunState
    <3>2. s.epoch <= state[r].epoch
      BY <1>2 DEF Coherent
    <3>3. QED
      BY <1>13, <3>1, <3>2 DEF Taken
  <2>2. ObjectsAreCoherent'
    <3>1. Coherent(o)'
      BY <1>2, <1>3, <2>1 DEF Coherent
    <3>2. ASSUME NEW x \in Calls, InUse(x), x # o, heap[x].run = r
          PROVE  Coherent(x)'
      <4>1. heap'[x] = heap[x] /\ heap[x].epoch \in Nat
        BY <1>3, <3>2, InUseHasRun DEF RunState
      <4>2. heap[x].epoch <= state[r].epoch
        BY <3>2 DEF Ownership, ObjectsAreCoherent, Coherent
      <4>3. QED
        BY <2>1, <3>2, <4>1, <4>2 DEF Coherent
    <3>3. QED
      BY <1>6, <1>12, <3>1, <3>2 DEF ObjectsAreCoherent
  <2>3. \A d \in Calls : d # c /\ Drives(d) => RunOf(d) # r
    <3>1. Object(c).epoch = state[RunOf(c)].epoch
      BY <1>a, <2>1
    <3>2. QED
      BY <1>a, <3>1, NoOtherDriver
  <2>4. HoldersKnowTheirRun'
    <3>1. Knows(c)'
      <4>1. Object(c)' = heap'[o] /\ RunOf(c)' = r /\ heap'[o].run = r
        BY <1>a, <1>3 DEF Object, RunOf
      <4>2. QED
        BY <2>1, <4>1 DEF Knows, Drives
    <3>2. ASSUME NEW d \in Calls, d # c, Holds(d)
          PROVE  Knows(d)'
      <4>1. /\ ref[d] # o
            /\ ref[d] \in Calls
            /\ Working(d)
        BY <1>5, <1>7, <3>2 DEF Holds, Taking, Drives, Working, Live, Fresh
      <4>2. /\ Object(d)' = Object(d)
            /\ pc'[d] = pc[d]
            /\ local'[d] = local[d]
            /\ Object(d).run = RunOf(d)
        BY <1>3, <3>2, <4>1 DEF Object, RunOf
      <4>3. Knows(d)
        BY DEF Ownership, HoldersKnowTheirRun
      <4>4. CASE RunOf(d) # r
        <5>1. state'[RunOf(d)] = state[RunOf(d)]
          BY <1>3, <4>1, <4>4, HolderFacts
        <5>2. QED
          BY <1>9, <3>2, <4>2, <4>3, <5>1 DEF Knows
      <4>5. CASE RunOf(d) = r
        <5>1. ~Drives(d) /\ ~Drives(d)'
          BY <1>9, <2>3, <3>2, <4>5
        <5>2. Object(d).epoch <= state[r].epoch /\ Object(d).epoch \in Nat
          BY <4>1, <4>5, HolderFacts DEF Coherent, Object, RunState
        <5>3. QED
          BY <2>1, <4>2, <4>3, <4>5, <5>1, <5>2 DEF Knows, Drives
      <4>6. QED BY <4>4, <4>5
    <3>3. ASSUME NEW d \in Calls, d # c, ~Holds(d)
          PROVE  Knows(d)'
      <4>1. pc'[d] = pc[d]
        BY <1>3, <3>3
      <4>2. QED
        BY <3>3, <4>1 DEF Knows, Holds, Taking, Drives
    <3>4. QED BY <3>1, <3>2, <3>3 DEF HoldersKnowTheirRun
  <2>5. SingleDriver'
    BY <1>a, <1>5, <1>9, <2>3 DEF Ownership, SingleDriver
  <2>6. QED
    BY <1>8, <1>10, <1>11, <2>2, <2>4, <2>5
       DEF Ownership, OneHolderPerObject
<1>14. CASE Refused(c, o, s)
  <2>1. /\ s.epoch < state[r].epoch
        /\ state' = state
        /\ heap'[o].epoch = heap[o].epoch
        /\ pc'[c] = "done"
    BY <1>a, <1>2, <1>14 DEF Refused
  <2>2. ObjectsAreCoherent'
    <3>1. Coherent(o)'
      BY <1>2, <1>3, <2>1 DEF Coherent, RunState
    <3>2. ASSUME NEW x \in Calls, InUse(x), x # o
          PROVE  Coherent(x)'
      <4>1. heap'[x] = heap[x]
        BY <1>3, <3>2
      <4>2. \A d \in Calls : pc[d] = "resumed" /\ ref[d] = x =>
              pc'[d] = "resumed"
        BY <1>a, <1>3, <3>2
      <4>3. Coherent(x)
        BY <3>2 DEF Ownership, ObjectsAreCoherent
      <4>4. QED
        BY <2>1, <4>1, <4>2, <4>3 DEF Coherent
    <3>3. QED
      BY <1>6, <3>1, <3>2 DEF ObjectsAreCoherent
  <2>3. HoldersKnowTheirRun'
    <3>1. ASSUME NEW d \in Calls, Holds(d)'
          PROVE  Knows(d)'
      <4>1. d # c /\ Holds(d)
        BY <1>8, <2>1, <3>1 DEF Holds, Taking, Drives
      <4>2. /\ Object(d)' = Object(d)
            /\ pc'[d] = pc[d]
            /\ local'[d] = local[d]
        BY <1>3, <1>5, <1>7, <4>1 DEF Object
      <4>3. Knows(d)
        BY DEF Ownership, HoldersKnowTheirRun
      <4>4. QED
        BY <1>9, <2>1, <4>1, <4>2, <4>3 DEF Knows
    <3>2. ASSUME NEW d \in Calls, ~Holds(d)'
          PROVE  Knows(d)'
      BY <3>2 DEF Knows, Holds, Taking, Drives
    <3>3. QED BY <3>1, <3>2 DEF HoldersKnowTheirRun
  <2>4. ~Drives(c)'
    BY <2>1 DEF Drives
  <2>5. SingleDriver'
    BY <1>5, <1>9, <2>4 DEF Ownership, SingleDriver
  <2>6. QED
    BY <1>8, <1>10, <1>11, <2>2, <2>3, <2>5
       DEF Ownership, OneHolderPerObject
<1>15. QED
  BY <1>4, <1>13, <1>14

(* The answer that was found good clears the wait in the object, before the   *)
(* store hears of it.                                                       *)
LEMMA ClearedWaitKeepsOwnership ==
  ASSUME Ownership, Shape', NEW c \in Calls, pc[c] = "deciding",
         UNCHANGED <<state, ref, cache, local>>,
         \A d \in Calls : d # ref[c] => heap'[d] = heap[d],
         heap'[ref[c]].run = RunOf(c),
         heap'[ref[c]].epoch = Object(c).epoch,
         heap'[ref[c]].status = "RUNNING",
         pc'[c] = "resumed",
         \A d \in Calls : d # c => pc'[d] = pc[d]
  PROVE  Ownership'
<1>1. Working(c) /\ Holds(c)
  BY DEF Working, Live, Fresh, Holds, Taking
<1>2. PICK o \in Calls : o = ref[c]
  BY <1>1, HolderFacts
<1>3. /\ InUse(o)
      /\ Coherent(o)
      /\ heap[o].run \in Runs
      /\ heap[o] \in RunState
      /\ heap'[o].run = heap[o].run
      /\ heap'[o].epoch = heap[o].epoch
  BY <1>1, <1>2, HolderFacts DEF Object, RunOf
<1>4. heap[o].status = "WAITING_INTERRUPT"
  BY <1>2 DEF Ownership, HoldersKnowTheirRun, Knows, Object
<1>5. heap[o].epoch = state[heap[o].run].epoch =>
        state[heap[o].run].status = "WAITING_INTERRUPT"
  BY <1>3, <1>4 DEF Coherent
<1>6. /\ \A d \in Calls : heap'[d].run = heap[d].run
      /\ \A d \in Calls : RunOf(d)' = RunOf(d)
      /\ ref \in [Calls -> Calls]
  BY <1>2, <1>3 DEF RunOf, Object, Ownership, Shape, TypeOK
<1>7. \A x \in Calls : InUse(x)' => InUse(x)
  BY <1>1, <1>2 DEF InUse, Live, Working
<1>8. \A d \in Calls : /\ Holds(d)' => Holds(d)
                       /\ d # c => (Drives(d)' <=> Drives(d))
  BY <1>1 DEF Holds, Drives
<1>9. ~Drives(c)'
  BY DEF Drives
<1>10. \A d \in Calls : d # c /\ Holds(d) => ref[d] # o
  BY <1>1, <1>2 DEF Ownership, OneHolderPerObject
<1>11. OwnProcess'
  BY DEF Ownership, OwnProcess
<1>12. NamedByItsCall'
  <2>1. \A d \in Calls : pc'[d] = "idle" => pc[d] = "idle"
    OBVIOUS
  <2>2. \A x \in Calls : InUse(x) => heap[x].run \in Calls
    BY InUseHasRun DEF Calls
  <2>3. QED
    BY <1>6, <1>7, <2>1, <2>2 DEF Ownership, NamedByItsCall, Stored
<1>13. ObjectsAreCoherent'
  <2>1. Coherent(o)'
    BY <1>2, <1>3, <1>5 DEF Coherent
  <2>2. ASSUME NEW x \in Calls, InUse(x), x # o
        PROVE  Coherent(x)'
    <3>1. heap'[x] = heap[x]
      BY <1>2, <2>2
    <3>2. \A d \in Calls : pc[d] = "resumed" => pc'[d] = "resumed"
      OBVIOUS
    <3>3. Coherent(x)
      BY <2>2 DEF Ownership, ObjectsAreCoherent
    <3>4. QED
      BY <3>1, <3>2, <3>3 DEF Coherent
  <2>3. QED
    BY <1>7, <2>1, <2>2 DEF ObjectsAreCoherent
<1>14. HoldersKnowTheirRun'
  <2>1. Knows(c)'
    BY <1>2, <1>3, <1>5, <1>9 DEF Knows, Object
  <2>2. ASSUME NEW d \in Calls, d # c, Holds(d)
        PROVE  Knows(d)'
    <3>1. Object(d)' = Object(d)
      BY <1>2, <1>6, <1>10, <2>2 DEF Object
    <3>2. Knows(d)
      BY DEF Ownership, HoldersKnowTheirRun
    <3>3. QED
      BY <1>8, <2>2, <3>1, <3>2 DEF Knows
  <2>3. ASSUME NEW d \in Calls, d # c, ~Holds(d)
        PROVE  Knows(d)'
    BY <2>3 DEF Knows, Holds, Taking, Drives
  <2>4. QED BY <2>1, <2>2, <2>3 DEF HoldersKnowTheirRun
<1>15. OneHolderPerObject'
  BY <1>8 DEF Ownership, OneHolderPerObject
<1>16. SingleDriver'
  BY <1>6, <1>8, <1>9 DEF Ownership, SingleDriver
<1>17. QED
  BY <1>11, <1>12, <1>13, <1>14, <1>15, <1>16 DEF Ownership

-----------------------------------------------------------------------------
(* The steps by which a call gets its object.                                *)

(* A call that creates a run puts it under its own name.                     *)
LEMMA CreationKeepsOwnership ==
  ASSUME Ownership, Shape', ReliableStore, NEW c \in Calls, pc[c] = "idle",
         NEW s \in RunState, s.run = c, Valid(s),
         s.status \in {"PENDING", "RUNNING"},
         Persist(c, c, s, "registering"),
         UNCHANGED <<ref, local>>
  PROVE  Ownership'
<1>1. TypeOK /\ c \in Runs /\ "registering" \in DOMAIN InPut /\ Fresh(c)
  BY PutLabels DEF Ownership, Shape, Calls, Fresh
<1>2. /\ ref[c] = c
      /\ \A d \in Calls : ref[d] = c => d = c
      /\ ref \in [Calls -> Calls]
  BY <1>1 DEF Ownership, Shape, FreshIsPrivate, TypeOK
<1>3. /\ heap'[c].run = c
      /\ \A x \in Calls : x # c => heap'[x] = heap[x]
      /\ \A p \in Procs, q \in Runs :
           cache'[p][q] = IF p = ProcOf[c] /\ q = c THEN c ELSE cache[p][q]
      /\ \A d \in Calls : d # c => pc'[d] = pc[d]
      /\ \A q \in Runs : q # c => state'[q] = state[q]
  BY <1>1, PersistFacts
<1>4. state[c].epoch = 0
  BY DEF Ownership, NamedByItsCall, Stored, NoState
<1>5. /\ pc'[c] = "registering"
      /\ heap'[c].epoch = state'[c].epoch
      /\ heap'[c].status = s.status
      /\ state'[c].status = s.status
  <2>1. Taken(c, c, s, "registering") \/ Refused(c, c, s)
    BY <1>1, PersistOutcome
  <2>2. s.epoch \in Nat
    BY DEF RunState
  <2>3. ~Refused(c, c, s)
    BY <1>4, <2>2 DEF Refused
  <2>4. QED
    BY <2>1, <2>3 DEF Taken
<1>6. \A x \in Calls : x # c /\ InUse(x)' => InUse(x)
  <2>1. SUFFICES ASSUME NEW x \in Calls, x # c, InUse(x)'
                 PROVE  InUse(x)
    OBVIOUS
  <2>2. ProcOf[x] \in Procs
    BY RuntimeConstants
  <2>3. QED
    BY <1>2, <1>3, <2>1, <2>2 DEF InUse, Live
<1>7. \A x \in Calls : x # c /\ InUse(x) => heap[x].run \in Calls \ {c}
  BY InUseHasRun DEF Ownership, NamedByItsCall, Calls
<1>8. \A d \in Calls : Holds(d) =>
        /\ d # c
        /\ ref[d] # c
        /\ Object(d)' = Object(d)
        /\ RunOf(d) = Object(d).run
        /\ RunOf(d) \in Runs \ {c}
  <2>1. SUFFICES ASSUME NEW d \in Calls, Holds(d)
                 PROVE  /\ d # c
                        /\ ref[d] # c
                        /\ Object(d)' = Object(d)
                        /\ RunOf(d) = Object(d).run
                        /\ RunOf(d) \in Runs \ {c}
    OBVIOUS
  <2>2. Working(d) /\ d # c
    BY <2>1 DEF Holds, Taking, Drives, Working, Live, Fresh
  <2>3. ref[d] # c /\ Object(d)' = Object(d)
    BY <1>2, <1>3, <2>2 DEF Object
  <2>4. QED
    BY <2>2, <2>3, HolderFacts DEF RunOf
<1>9. \A d \in Calls : d # c => /\ Holds(d)' <=> Holds(d)
                                /\ Drives(d)' <=> Drives(d)
  BY <1>3 DEF Holds, Drives
<1>10. Object(c)' = heap'[c] /\ RunOf(c)' = c
  BY <1>2, <1>3 DEF Object, RunOf
<1>11. OwnProcess'
  <2>1. \A p \in Procs, q \in Runs :
          cache'[p][q] # None => ProcOf[cache'[p][q]] = p
    BY <1>3 DEF Ownership, OwnProcess
  <2>2. QED
    BY <2>1 DEF Ownership, OwnProcess
<1>12. NamedByItsCall'
  <2>1. \A d \in Calls : pc'[d] = "idle" => pc[d] = "idle" /\ d # c
    BY <1>3, <1>5
  <2>2. \A d \in Calls : pc'[d] = "idle" => ~Stored(d)'
    BY <1>3, <2>1 DEF Ownership, NamedByItsCall, Stored, Calls
  <2>3. \A x \in Calls : InUse(x)' => pc'[heap'[x].run] # "idle"
    BY <1>3, <1>5, <1>6, <1>7 DEF Ownership, NamedByItsCall
  <2>4. QED
    BY <2>2, <2>3 DEF NamedByItsCall
<1>13. ObjectsAreCoherent'
  <2>1. Coherent(c)'
    <3>1. heap'[c].epoch \in Nat
      BY DEF Shape, TypeOK, RunState
    <3>2. QED
      BY <1>3, <1>5, <3>1 DEF Coherent
  <2>2. ASSUME NEW x \in Calls, InUse(x), x # c
        PROVE  Coherent(x)'
    <3>1. /\ heap'[x] = heap[x]
          /\ state'[heap[x].run] = state[heap[x].run]
      BY <1>3, <1>7, <2>2 DEF Calls
    <3>2. \A d \in Calls : pc[d] = "resumed" => pc'[d] = "resumed"
      BY <1>3
    <3>3. Coherent(x)
      BY <2>2 DEF Ownership, ObjectsAreCoherent
    <3>4. QED
      BY <3>1, <3>2, <3>3 DEF Coherent
  <2>3. QED
    BY <1>6, <2>1, <2>2 DEF ObjectsAreCoherent
<1>14. HoldersKnowTheirRun'
  <2>1. Knows(c)'
    BY <1>3, <1>5, <1>10 DEF Knows
  <2>2. ASSUME NEW d \in Calls, d # c, Holds(d)
        PROVE  Knows(d)'
    <3>1. Knows(d)
      BY DEF Ownership, HoldersKnowTheirRun
    <3>2. /\ Object(d)' = Object(d)
          /\ state'[Object(d).run] = state[Object(d).run]
          /\ pc'[d] = pc[d]
      BY <1>3, <1>8, <2>2
    <3>3. QED
      BY <1>9, <2>2, <3>1, <3>2 DEF Knows
  <2>3. ASSUME NEW d \in Calls, d # c, ~Holds(d)
        PROVE  Knows(d)'
    <3>1. pc'[d] = pc[d]
      BY <1>3, <2>3
    <3>2. QED
      BY <2>3, <3>1 DEF Knows, Holds, Taking, Drives
  <2>4. QED BY <2>1, <2>2, <2>3 DEF HoldersKnowTheirRun
<1>15. OneHolderPerObject'
  BY <1>2, <1>8, <1>9 DEF Ownership, OneHolderPerObject
<1>16. SingleDriver'
  <2>1. \A d \in Calls : d # c /\ Drives(d)' =>
          Drives(d) /\ RunOf(d)' = RunOf(d) /\ RunOf(d) # c
    BY <1>8, <1>9 DEF Holds, RunOf
  <2>2. QED
    BY <1>10, <2>1 DEF Ownership, SingleDriver
<1>17. QED
  BY <1>11, <1>12, <1>13, <1>14, <1>15, <1>16 DEF Ownership

(* A resume takes hold of an object: nobody holds it, since no other call of   *)
(* the process is between its own look at the status and its change of it.   *)
LEMMA TakingKeepsOwnership ==
  ASSUME Ownership, Shape', AtomicResume, NEW c \in Calls, Fresh(c), MayRun(c),
         NEW o \in Calls, ProcOf[o] = ProcOf[c], InUse(o),
         UNCHANGED state,
         \A p \in Procs, r \in Runs :
           cache'[p][r] = cache[p][r] \/ (p = ProcOf[c] /\ cache'[p][r] = o),
         ref' = [ref EXCEPT ![c] = o],
         \A x \in Calls : /\ heap'[x].run = heap[x].run
                          /\ heap'[x].epoch = heap[x].epoch
                          /\ heap'[x].status = heap[x].status,
         pc'[c] \in {"granting", "rejecting", "resolving", "done"},
         pc'[c] \in {"granting", "rejecting"} =>
           heap[o].status = "WAITING_APPROVAL",
         pc'[c] = "resolving" => heap[o].status = "WAITING_INTERRUPT",
         \A d \in Calls : d # c => pc'[d] = pc[d] /\ local'[d] = local[d]
  PROVE  Ownership'
<1>1. /\ ref \in [Calls -> Calls]
      /\ ref'[c] = o
      /\ \A d \in Calls : d # c => ref'[d] = ref[d]
  BY DEF Ownership, Shape, TypeOK
<1>2. \A d \in Calls : d # c =>
        /\ RunOf(d)' = RunOf(d)
        /\ Object(d)'.run = Object(d).run
        /\ Object(d)'.epoch = Object(d).epoch
        /\ Object(d)'.status = Object(d).status
  BY <1>1 DEF RunOf, Object
<1>3. \A x \in Calls : InUse(x)' => InUse(x)
  <2>1. SUFFICES ASSUME NEW x \in Calls, x # o, InUse(x)'
                 PROVE  InUse(x)
    OBVIOUS
  <2>2. ProcOf[x] \in Procs
    BY RuntimeConstants
  <2>3. QED
    BY <1>1, <2>1, <2>2 DEF InUse, Live
<1>4. /\ ~Holds(c)
      /\ ~Drives(c)'
      /\ \A d \in Calls : d # c => /\ Holds(d)' <=> Holds(d)
                                   /\ Drives(d)' <=> Drives(d)
  BY DEF Fresh, Holds, Taking, Drives
<1>5. ASSUME Holds(c)', NEW d \in Calls, d # c, Holds(d), ref[d] = o
      PROVE  FALSE
  <2>1. ProcOf[d] = ProcOf[c] /\ Live(d)
    BY <1>5 DEF Ownership, OwnProcess, Holds, Taking, Drives, Live
  <2>2. pc[d] \in Yields
    BY <1>5, <2>1 DEF MayRun
  <2>3. pc[d] = "resumed" \/ Drives(d)
    BY <1>5, <2>2 DEF AtomicResume, Holds
  <2>4. heap[o].status \in {"PENDING", "RUNNING"}
    BY <1>5, <2>3
       DEF Ownership, HoldersKnowTheirRun, Knows, Object, Drives
  <2>5. heap[o].status \in {"WAITING_APPROVAL", "WAITING_INTERRUPT"}
    BY <1>4, <1>5 DEF Holds, Taking
  <2>6. QED
    BY <2>4, <2>5
<1>6. OwnProcess'
  <2>1. \A p \in Procs, r \in Runs :
          cache'[p][r] # None => ProcOf[cache'[p][r]] = p
    BY DEF Ownership, OwnProcess
  <2>2. QED
    BY <1>1, <2>1 DEF Ownership, OwnProcess
<1>7. NamedByItsCall'
  <2>1. \A d \in Calls : pc'[d] = "idle" => pc[d] = "idle"
    OBVIOUS
  <2>2. \A x \in Calls : InUse(x) => heap[x].run \in Calls
    BY InUseHasRun DEF Calls
  <2>3. QED
    BY <1>3, <2>1, <2>2 DEF Ownership, NamedByItsCall, Stored
<1>8. ObjectsAreCoherent'
  <2>1. SUFFICES ASSUME NEW x \in Calls, InUse(x)
                 PROVE  Coherent(x)'
    BY <1>3 DEF ObjectsAreCoherent
  <2>2. Coherent(x)
    BY <2>1 DEF Ownership, ObjectsAreCoherent
  <2>3. \A d \in Calls : pc[d] = "resumed" =>
          pc'[d] = "resumed" /\ ref'[d] = ref[d]
    BY <1>1 DEF Fresh
  <2>4. QED
    BY <2>2, <2>3 DEF Coherent
<1>9. HoldersKnowTheirRun'
  <2>1. Knows(c)'
    <3>1. Object(c)'.status = heap[o].status
      BY <1>1 DEF Object
    <3>2. QED
      BY <1>4, <3>1 DEF Knows
  <2>2. ASSUME NEW d \in Calls, d # c
        PROVE  Knows(d)'
    <3>1. Knows(d)
      BY DEF Ownership, HoldersKnowTheirRun
    <3>2. QED
      BY <1>2, <1>4, <2>2, <3>1 DEF Knows
  <2>3. QED BY <2>1, <2>2 DEF HoldersKnowTheirRun
<1>10. OneHolderPerObject'
  BY <1>1, <1>4, <1>5 DEF Ownership, OneHolderPerObject
<1>11. SingleDriver'
  BY <1>2, <1>4 DEF Ownership, SingleDriver
<1>12. QED
  BY <1>6, <1>7, <1>8, <1>9, <1>10, <1>11 DEF Ownership

(* A run read from the store is as new as the store, and nobody else's yet.    *)
LEMMA LoadingKeepsOwnership ==
  ASSUME Ownership, Shape', NEW c \in Calls, pc[c] = "idle",
         NEW r \in Runs, Stored(r),
         heap' = [heap EXCEPT ![c] = state[r]],
         pc' = [pc EXCEPT ![c] = "loading"],
         \A d \in Calls : d # c => local'[d] = local[d],
         UNCHANGED <<state, ref, cache>>
  PROVE  Ownership'
<1>1. /\ Fresh(c)
      /\ heap'[c] = state[r]
      /\ \A x \in Calls : x # c => heap'[x] = heap[x]
      /\ pc'[c] = "loading"
      /\ \A d \in Calls : d # c => pc'[d] = pc[d]
  BY DEF Fresh, Ownership, Shape, TypeOK
<1>2. /\ ref[c] = c
      /\ \A d \in Calls : ref[d] = c => d = c
      /\ ref \in [Calls -> Calls]
  BY <1>1 DEF Ownership, Shape, FreshIsPrivate, TypeOK
<1>3. state[r].run = r /\ pc[r] # "idle" /\ r \in Calls
  BY DEF Ownership, Shape, ObjectsHaveRuns, NamedByItsCall, Calls
<1>4. \A x \in Calls : x # c /\ InUse(x)' => InUse(x)
  BY <1>1, <1>2 DEF InUse, Live
<1>5. \A d \in Calls : /\ Holds(d)' <=> Holds(d)
                       /\ Drives(d)' <=> Drives(d)
                       /\ Holds(d) => d # c
  BY <1>1 DEF Holds, Drives, Taking
<1>6. \A d \in Calls : d # c => RunOf(d)' = RunOf(d) /\ Object(d)' = Object(d)
  BY <1>1, <1>2 DEF RunOf, Object
<1>7. OwnProcess'
  BY DEF Ownership, OwnProcess
<1>8. NamedByItsCall'
  <2>1. \A d \in Calls : pc'[d] = "idle" => pc[d] = "idle" /\ d # c
    BY <1>1
  <2>2. \A x \in Calls : x # c /\ InUse(x) => heap[x].run \in Calls
    BY InUseHasRun DEF Calls
  <2>3. QED
    BY <1>1, <1>3, <1>4, <2>1, <2>2 DEF Ownership, NamedByItsCall, Stored
<1>9. ObjectsAreCoherent'
  <2>1. Coherent(c)'
    <3>1. state[r].epoch \in Nat
      BY DEF Ownership, Shape, TypeOK, StoreTypeOK, RunState
    <3>2. QED
      BY <1>1, <1>3, <3>1 DEF Coherent
  <2>2. ASSUME NEW x \in Calls, InUse(x), x # c
        PROVE  Coherent(x)'
    <3>1. heap'[x] = heap[x]
      BY <1>1, <2>2
    <3>2. \A d \in Calls : pc[d] = "resumed" => pc'[d] = "resumed"
      BY <1>1
    <3>3. Coherent(x)
      BY <2>2 DEF Ownership, ObjectsAreCoherent
    <3>4. QED
      BY <3>1, <3>2, <3>3 DEF Coherent
  <2>3. QED
    BY <1>4, <2>1, <2>2 DEF ObjectsAreCoherent
<1>10. HoldersKnowTheirRun'
  <2>1. Knows(c)'
    BY <1>1 DEF Knows, Drives
  <2>2. ASSUME NEW d \in Calls, d # c
        PROVE  Knows(d)'
    <3>1. Knows(d)
      BY DEF Ownership, HoldersKnowTheirRun
    <3>2. pc'[d] = pc[d] /\ local'[d] = local[d] /\ Object(d)' = Object(d)
      BY <1>1, <1>6, <2>2
    <3>3. QED
      BY <1>5, <2>2, <3>1, <3>2 DEF Knows
  <2>3. QED BY <2>1, <2>2 DEF HoldersKnowTheirRun
<1>11. OneHolderPerObject'
  BY <1>5 DEF Ownership, OneHolderPerObject
<1>12. SingleDriver'
  BY <1>5, <1>6 DEF Ownership, SingleDriver, Holds
<1>13. QED
  BY <1>7, <1>8, <1>9, <1>10, <1>11, <1>12 DEF Ownership

-----------------------------------------------------------------------------
(* Steps of nobody: calls stop, caches are lost.                             *)
LEMMA StoppingKeepsOwnership ==
  ASSUME Ownership, Shape',
         UNCHANGED <<state, heap, ref, local>>,
         \A d \in Calls : pc'[d] = pc[d] \/ pc'[d] = "crashed",
         \A d, x \in Calls : pc'[d] # pc[d] /\ Live(x) /\ ProcOf[x] = ProcOf[d]
                               => pc'[x] = "crashed",
         \A p \in Procs, r \in Runs :
           \/ cache'[p][r] = cache[p][r]
           \/ cache'[p][r] = None,
         \A d \in Calls : pc'[d] # pc[d] =>
           \A r \in Runs : cache'[ProcOf[d]][r] = None
  PROVE  Ownership'
<1>1. \A d \in Calls : /\ RunOf(d)' = RunOf(d)
                       /\ Object(d)' = Object(d)
  BY DEF RunOf, Object
<1>2. \A d \in Calls : Live(d)' => Live(d) /\ pc'[d] = pc[d]
  BY DEF Live
<1>3. \A x \in Calls : InUse(x)' => InUse(x)
  <2>1. SUFFICES ASSUME NEW x \in Calls, InUse(x)'
                 PROVE  InUse(x)
    OBVIOUS
  <2>2. ProcOf[x] \in Procs /\ x # None
    BY RuntimeConstants, NoneIsNoName DEF Calls
  <2>3. QED
    BY <1>2, <2>1, <2>2 DEF InUse
<1>4. \A d \in Calls : /\ Holds(d)' => Holds(d)
                       /\ Drives(d)' => Drives(d)
  BY DEF Holds, Drives, Taking
<1>5. OwnProcess'
  BY DEF Ownership, OwnProcess
<1>6. NamedByItsCall'
  <2>1. \A d \in Calls : pc'[d] = "idle" => pc[d] = "idle"
    OBVIOUS
  <2>2. \A x \in Calls : InUse(x) => heap[x].run \in Calls
    BY InUseHasRun DEF Calls
  <2>3. QED
    BY <1>3, <2>1, <2>2 DEF Ownership, NamedByItsCall, Stored
<1>7. ObjectsAreCoherent'
  <2>1. SUFFICES ASSUME NEW x \in Calls, InUse(x)'
                 PROVE  Coherent(x)'
    BY DEF ObjectsAreCoherent
  <2>2. Coherent(x)
    BY <1>3, <2>1 DEF Ownership, ObjectsAreCoherent
  <2>3. ASSUME NEW d \in Calls, pc[d] = "resumed", ref[d] = x
        PROVE  pc'[d] = "resumed"
    <3>1. SUFFICES ASSUME pc'[d] # pc[d]
                   PROVE  FALSE
      BY <2>3
    <3>2. ProcOf[x] = ProcOf[d] /\ ProcOf[x] \in Procs /\ x # None
      BY <2>3, RuntimeConstants, NoneIsNoName
         DEF Ownership, OwnProcess, Calls
    <3>3. \A r \in Runs : cache'[ProcOf[x]][r] # x
      BY <3>1, <3>2
    <3>4. PICK e \in Calls : Live(e)' /\ ref[e] = x
      BY <2>1, <3>3 DEF InUse
    <3>5. Live(e) /\ ProcOf[e] = ProcOf[d]
      BY <1>2, <3>2, <3>4 DEF Ownership, OwnProcess
    <3>6. pc'[e] = "crashed"
      BY <3>1, <3>5
    <3>7. QED
      BY <3>4, <3>6 DEF Live
  <2>4. QED
    BY <2>2, <2>3 DEF Coherent
<1>8. HoldersKnowTheirRun'
  <2>1. SUFFICES ASSUME NEW d \in Calls
                 PROVE  Knows(d)'
    BY DEF HoldersKnowTheirRun
  <2>2. CASE pc'[d] = pc[d]
    <3>1. Knows(d)
      BY DEF Ownership, HoldersKnowTheirRun
    <3>2. Drives(d)' <=> Drives(d)
      BY <2>2 DEF Drives
    <3>3. QED
      BY <1>1, <2>2, <3>1, <3>2 DEF Knows
  <2>3. CASE pc'[d] = "crashed"
    BY <2>3 DEF Knows, Drives
  <2>4. QED BY <2>2, <2>3
<1>9. OneHolderPerObject'
  BY <1>4 DEF Ownership, OneHolderPerObject
<1>10. SingleDriver'
  BY <1>1, <1>4 DEF Ownership, SingleDriver
<1>11. QED
  BY <1>5, <1>6, <1>7, <1>8, <1>9, <1>10 DEF Ownership

-----------------------------------------------------------------------------
(* Every action is a step of one of these kinds.                             *)

(* What the invariant tells a driver about its object.                       *)
LEMMA DriverKnows ==
  ASSUME Ownership, NEW c \in Calls, Drives(c)
  PROVE  /\ Working(c)
         /\ Object(c) \in RunState
         /\ RunOf(c) = Object(c).run
         /\ ref[c] \in Calls
         /\ Knows(c)
BY ObjectType
   DEF Drives, Working, Live, Fresh, Ownership, HoldersKnowTheirRun

(* A driver moves to a resolved transition.                                  *)
LEMMA MoveKeepsOwnership ==
  ASSUME Ownership, Shape', ReliableStore, NEW c \in Calls, Drives(c),
         NEW s \in RunState, s.run = RunOf(c), s.epoch = Object(c).epoch,
         s.status = "RUNNING",
         NEW next \in Steps \cup {End}, Move(c, s, next),
         UNCHANGED <<ref, local>>
  PROVE  Ownership'
<1>1. CASE next = End
  <2> DEFINE w == [s EXCEPT !.step = None, !.status = "COMPLETED"]
  <2>1. /\ w \in RunState
        /\ w.run = RunOf(c)
        /\ w.epoch = Object(c).epoch
        /\ Valid(w)
    BY DEF RunState, Status, Valid
  <2>2. Persist(c, ref[c], w, "clearing")
    BY <1>1 DEF Move
  <2>3. QED
    BY <2>1, <2>2, HolderPersistsKeepsOwnership
<1>2. CASE next # End
  <2> DEFINE w == [s EXCEPT !.step = next]
  <2>1. /\ w \in RunState
        /\ w.run = RunOf(c)
        /\ w.epoch = Object(c).epoch
        /\ w.status = "RUNNING"
        /\ Valid(w)
    BY <1>2 DEF RunState, Valid
  <2>2. Persist(c, ref[c], w, "advancing")
    BY <1>2 DEF Move
  <2>3. QED
    BY <2>1, <2>2, HolderPersistsKeepsOwnership
<1>3. QED
  BY <1>1, <1>2

(* A driver persists its object under another status.                        *)
LEMMA StatusKeepsOwnership ==
  ASSUME Ownership, Shape', ReliableStore, NEW c \in Calls,
         pc[c] \in {"granting", "rejecting"} \/ Drives(c),
         NEW s \in RunState, s.run = RunOf(c), s.epoch = Object(c).epoch,
         NEW status \in {"RUNNING", "COMPLETED", "FAILED"},
         NEW label \in {"advancing", "clearing"},
         label = "advancing" => status = "RUNNING",
         Persist(c, ref[c], [s EXCEPT !.status = status], label),
         UNCHANGED <<ref, local>>
  PROVE  Ownership'
<1> DEFINE w == [s EXCEPT !.status = status]
<1>1. /\ w \in RunState
      /\ w.run = RunOf(c)
      /\ w.epoch = Object(c).epoch
      /\ w.status = status
      /\ Valid(w)
  BY DEF RunState, Status, Valid
<1>2. QED
  BY <1>1, HolderPersistsKeepsOwnership

(* A new run is registered with its thread and set running. *)
LEMMA ClaimingKeepsOwnership ==
  ASSUME Ownership, Shape', ReliableStore, NEW c \in Calls,
         RegisterActiveRun(c) \/ Launch(c)
  PROVE  Ownership'
<1>1. pc \in [Calls -> PC] /\ Drives(c)
  BY DEF Ownership, Shape, TypeOK, RegisterActiveRun, Launch, At, Drives
<1>2. Knows(c) /\ Working(c) /\ Object(c) \in RunState
      /\ RunOf(c) = Object(c).run
  BY <1>1, DriverKnows
<1>3. CASE RegisterActiveRun(c)
  <2>1. /\ pc[c] = "registering"
        /\ pc'[c] = IF Object(c).status = "PENDING" THEN "launching"
                                                    ELSE "advancing"
        /\ \A d \in Calls : d # c => pc'[d] = pc[d]
        /\ UNCHANGED <<state, heap, ref, cache, local>>
    BY <1>1, <1>3 DEF RegisterActiveRun, SetActiveRunId, At, Goto
  <2>2. Object(c).status \in {"PENDING", "RUNNING"}
    BY <1>2, <2>1 DEF Knows
  <2>3. QED
    BY <1>1, <1>2, <2>1, <2>2, QuietKeepsOwnership
<1>4. CASE Launch(c)
  BY <1>1, <1>2, <1>4, StatusKeepsOwnership DEF Launch
<1>5. QED
  BY <1>3, <1>4

(* Granting or rejecting an approval. *)
LEMMA ApprovalKeepsOwnership ==
  ASSUME Ownership, Shape', ReliableStore, NEW c \in Calls,
         GrantApproval(c) \/ RejectApproval(c)
  PROVE  Ownership'
<1> DEFINE s == [Object(c) EXCEPT !.approval = None]
<1>1. Working(c) /\ pc[c] \in {"granting", "rejecting"}
  BY AtWork DEF GrantApproval, RejectApproval, At
<1>2. Object(c) \in RunState /\ RunOf(c) = Object(c).run
  BY <1>1, ObjectType DEF Ownership
<1>3. /\ s \in RunState
      /\ s.run = RunOf(c)
      /\ s.epoch = Object(c).epoch
  BY <1>2 DEF RunState
<1>4. CASE GrantApproval(c)
  <2>1. /\ Persist(c, ref[c], [s EXCEPT !.status = "RUNNING"], "advancing")
        /\ UNCHANGED <<ref, local>>
    BY <1>4 DEF GrantApproval
  <2>2. QED
    BY <1>1, <1>3, <2>1, StatusKeepsOwnership
<1>5. CASE RejectApproval(c)
  <2>1. /\ Persist(c, ref[c], [s EXCEPT !.status = "FAILED"], "clearing")
        /\ UNCHANGED <<ref, local>>
    BY <1>5 DEF RejectApproval
  <2>2. QED
    BY <1>1, <1>3, <2>1, StatusKeepsOwnership
<1>6. QED
  BY <1>4, <1>5

(* Answering an interrupt request. *)
LEMMA AnswerKeepsOwnership ==
  ASSUME Ownership, Shape', ReliableStore, NEW c \in Calls,
         ReadRequest(c) \/ DecideRequest(c) \/ PersistResumed(c)
  PROVE  Ownership'
<1>1. pc \in [Calls -> PC] /\ heap \in [Calls -> RunState]
  BY DEF Ownership, Shape, TypeOK
<1>2. Working(c)
  BY AtWork DEF ReadRequest, DecideRequest, PersistResumed
<1>3. /\ ref[c] \in Calls
      /\ Object(c) \in RunState
      /\ RunOf(c) = Object(c).run
      /\ Knows(c)
  BY <1>2, ObjectType DEF Ownership, HoldersKnowTheirRun
<1>4. CASE ReadRequest(c)
  <2>1. /\ pc[c] = "resolving"
        /\ pc'[c] = "deciding"
        /\ \A d \in Calls : d # c => pc'[d] = pc[d] /\ local'[d] = local[d]
        /\ UNCHANGED <<state, heap, ref, cache>>
    BY <1>1, <1>4 DEF ReadRequest, At, Goto, storeVars, Ownership, Shape, TypeOK
  <2>2. ~Drives(c)'
    BY <2>1 DEF Drives
  <2>3. QED
    BY <1>2, <2>1, <2>2, QuietKeepsOwnership
<1>5. CASE DecideRequest(c)
  <2>1. /\ pc[c] = "deciding"
        /\ UNCHANGED <<state, ref, cache, local>>
    BY <1>5 DEF DecideRequest, At, storeVars
  <2>2. CASE /\ heap' = [heap EXCEPT ![ref[c]].interrupt = 0,
                                     ![ref[c]].status = "RUNNING"]
             /\ Goto(c, "resumed")
    <3>1. /\ pc'[c] = "resumed"
          /\ \A d \in Calls : d # c => pc'[d] = pc[d]
      BY <1>1, <2>2 DEF Goto
    <3>2. /\ \A d \in Calls : d # ref[c] => heap'[d] = heap[d]
          /\ heap'[ref[c]].run = RunOf(c)
          /\ heap'[ref[c]].epoch = Object(c).epoch
          /\ heap'[ref[c]].status = "RUNNING"
      BY <1>1, <1>3, <2>2 DEF RunState, RunOf, Object
    <3>3. QED
      BY <2>1, <3>1, <3>2, ClearedWaitKeepsOwnership
  <2>3. CASE Finish(c) /\ UNCHANGED heap
    <3>1. /\ pc'[c] = "done"
          /\ \A d \in Calls : d # c => pc'[d] = pc[d]
      BY <1>1, <2>3 DEF Finish, Goto
    <3>2. ~Drives(c)'
      BY <3>1 DEF Drives
    <3>3. QED
      BY <1>2, <2>1, <2>3, <3>1, <3>2, QuietKeepsOwnership
  <2>4. QED
    BY <1>5, <2>2, <2>3 DEF DecideRequest
<1>6. CASE PersistResumed(c)
  <2>1. /\ pc[c] = "resumed"
        /\ Persist(c, ref[c], Object(c), "continuing")
        /\ UNCHANGED <<ref, local>>
    BY <1>6 DEF PersistResumed, At
  <2>2. Object(c).status = "RUNNING"
    BY <1>3, <2>1 DEF Knows
  <2>3. Valid(Object(c))
    BY <2>2 DEF Valid
  <2>4. QED
    BY <1>3, <2>1, <2>2, <2>3, HolderPersistsKeepsOwnership
<1>7. QED
  BY <1>4, <1>5, <1>6

(* Going on after an answer. *)
LEMMA ContinueKeepsOwnership ==
  ASSUME Ownership, Shape', ReliableStore, NEW c \in Calls, Continue(c)
  PROVE  Ownership'
<1> DEFINE s == [Object(c) EXCEPT !.resume = None]
<1>1. pc[c] = "continuing" /\ Drives(c) /\ UNCHANGED <<ref, local>>
  BY DEF Continue, At, Drives
<1>2. /\ Working(c)
      /\ Object(c) \in RunState
      /\ RunOf(c) = Object(c).run
      /\ ref[c] \in Calls
      /\ Object(c).status = "RUNNING"
  BY <1>1, DriverKnows DEF Knows
<1>3. /\ s \in RunState
      /\ s.run = RunOf(c)
      /\ s.epoch = Object(c).epoch
      /\ s.status = "RUNNING"
  BY <1>2 DEF RunState
<1>4. ASSUME Object(c).resume # None,
             NEW next \in Targets[Object(c).resume], Move(c, s, next)
      PROVE  Ownership'
  <2>1. Object(c).resume \in Steps
    BY <1>2, <1>4 DEF RunState
  <2>2. next \in Steps \cup {End}
    BY <1>4, <2>1, RuntimeConstants
  <2>3. QED
    BY <1>1, <1>3, <1>4, <2>2, MoveKeepsOwnership
<1>5. CASE /\ Goto(c, "advancing") \/ Finish(c)
           /\ heap' = [heap EXCEPT ![ref[c]] = s]
           /\ UNCHANGED <<storeVars, cache>>
  <2>1. /\ pc'[c] \in {"advancing", "done"}
        /\ \A d \in Calls : d # c => pc'[d] = pc[d]
        /\ UNCHANGED <<state, ref, cache, local>>
    BY <1>1, <1>5
       DEF Goto, Finish, storeVars, Ownership, Shape, TypeOK
  <2>2. \A o \in Calls : /\ heap'[o].run = heap[o].run
                         /\ heap'[o].epoch = heap[o].epoch
                         /\ heap'[o].status = heap[o].status
    BY <1>2, <1>3, <1>5 DEF Ownership, Shape, TypeOK, Object
  <2>3. QED
    BY <1>1, <1>2, <2>1, <2>2, QuietKeepsOwnership
<1>6. QED
  BY <1>4, <1>5 DEF Continue

(* Steps of the loop that leave the run's object as it is.                    *)
LEMMA LoopKeepsOwnership ==
  ASSUME Ownership, Shape', NEW c \in Calls,
         \/ LeaveLoop(c) \/ MissArtifact(c) \/ Execute(c) \/ StepBadUpdate(c)
         \/ SyncRequest(c) \/ ClearActiveRun(c)
  PROVE  Ownership'
<1>1. pc \in [Calls -> PC] /\ local \in [Calls -> Local]
  BY DEF Ownership, Shape, TypeOK
<1>2. Working(c)
  BY AtWork
     DEF LeaveLoop, MissArtifact, Execute, StepBadUpdate, SyncRequest,
         ClearActiveRun, CanEnter
<1>3. CASE \/ LeaveLoop(c) \/ MissArtifact(c) \/ StepBadUpdate(c)
           \/ SyncRequest(c) \/ ClearActiveRun(c)
  <2>1. /\ pc[c] # "resumed"
        /\ pc'[c] = "done"
        /\ \A d \in Calls : d # c => pc'[d] = pc[d]
        /\ UNCHANGED <<state, heap, ref, cache, local>>
    BY <1>1, <1>3
       DEF LeaveLoop, MissArtifact, StepBadUpdate, SyncRequest, ClearActiveRun,
           ClearActiveRunId, CanEnter, At, Finish, Goto, storeVars
  <2>2. ~Drives(c)'
    BY <2>1 DEF Drives
  <2>3. QED
    BY <1>2, <2>1, <2>2, QuietKeepsOwnership
<1>4. CASE Execute(c)
  <2>1. /\ pc[c] = "advancing"
        /\ pc'[c] = "executing"
        /\ \A d \in Calls : d # c => pc'[d] = pc[d] /\ local'[d] = local[d]
        /\ Object(c).status = "RUNNING"
        /\ UNCHANGED <<state, heap, ref, cache>>
    BY <1>1, <1>4 DEF Execute, CanEnter, At, Goto, storeVars
  <2>2. Drives(c)
    BY <2>1 DEF Drives
  <2>3. QED
    BY <1>2, <2>1, <2>2, QuietKeepsOwnership
<1>5. QED
  BY <1>3, <1>4

(* Steps of the loop that persist the run.                                   *)
LEMMA LoopPersistKeepsOwnership ==
  ASSUME Ownership, Shape', ReliableStore, NEW c \in Calls,
         \/ CompleteRun(c) \/ RequestApproval(c) \/ StepDone(c)
         \/ StepNeedsApproval(c) \/ StepFails(c) \/ Transit(c) \/ PersistWait(c)
  PROVE  Ownership'
<1>1. /\ pc[c] \in {"advancing", "executing", "stepping", "pausing"}
      /\ Drives(c)
      /\ UNCHANGED ref
      /\ \A d \in Calls : d # c => local'[d] = local[d]
  BY DEF CompleteRun, RequestApproval, StepDone, StepNeedsApproval, StepFails,
         Transit, PersistWait, CanEnter, At, Drives, Ownership, Shape, TypeOK
<1>2. /\ Working(c)
      /\ Object(c) \in RunState
      /\ RunOf(c) = Object(c).run
      /\ Object(c).status = "RUNNING"
      /\ Knows(c)
  BY <1>1, DriverKnows DEF Knows
<1>3. pc[c] \in {"executing", "stepping", "pausing"} => local[c].at \in Steps
  BY DEF Ownership, Shape, LocalsAreSet
<1>4. ASSUME NEW step \in Steps,
             Persist(c, ref[c], Waiting(Object(c), step), "done")
      PROVE  Ownership'
  <2> DEFINE w == Waiting(Object(c), step)
  <2>1. /\ w \in RunState
        /\ w.run = RunOf(c)
        /\ w.epoch = Object(c).epoch
    BY <1>2 DEF Waiting, RunState, Status
  <2>2. Valid(w)
    BY <1>2, NoneIsNoName DEF Valid, Waiting, RunState
  <2>3. QED
    BY <1>1, <1>4, <2>1, <2>2, HolderPersistsKeepsOwnership
<1>5. CASE CompleteRun(c) \/ StepFails(c)
  BY <1>1, <1>2, <1>5, StatusKeepsOwnership DEF CompleteRun, StepFails, Fail
<1>6. CASE RequestApproval(c) \/ StepNeedsApproval(c)
  <2>1. CASE RequestApproval(c)
    <3>1. Object(c).step \in Steps
      BY <2>1, RuntimeConstants DEF RequestApproval
    <3>2. QED
      BY <1>4, <2>1, <3>1 DEF RequestApproval
  <2>2. CASE StepNeedsApproval(c)
    BY <1>3, <1>4, <2>2 DEF StepNeedsApproval, At
  <2>3. QED BY <1>6, <2>1, <2>2
<1>7. CASE StepDone(c)
  <2> DEFINE w == [Object(c) EXCEPT !.completed = @ \cup {local[c].at}]
  <2>1. local[c].at \in Steps
    BY <1>3, <1>7 DEF StepDone, At
  <2>2. /\ w \in RunState
        /\ w.run = RunOf(c)
        /\ w.epoch = Object(c).epoch
        /\ w.status = "RUNNING"
    BY <1>2, <2>1 DEF RunState
  <2>3. Valid(w)
    BY <2>2 DEF Valid
  <2>4. Persist(c, ref[c], w, "stepping")
    BY <1>7 DEF StepDone
  <2>5. QED
    BY <1>1, <2>2, <2>3, <2>4, HolderPersistsKeepsOwnership
<1>8. CASE Transit(c)
  <2>1. /\ local[c].at \in Steps
        /\ UNCHANGED local
    BY <1>3, <1>8 DEF Transit, At
  <2>2. /\ Consumed(c) \in RunState
        /\ Consumed(c).run = RunOf(c)
        /\ Consumed(c).epoch = Object(c).epoch
        /\ Consumed(c).status = "RUNNING"
    BY <1>2 DEF Consumed, RunState
  <2>3. ASSUME NEW next \in Targets[local[c].at], Move(c, Consumed(c), next)
        PROVE  Ownership'
    <3>1. next \in Steps \cup {End}
      BY <2>1, RuntimeConstants
    <3>2. QED
      BY <1>1, <2>1, <2>2, <2>3, <3>1, MoveKeepsOwnership
  <2>4. CASE Persist(c, ref[c], [Consumed(c) EXCEPT !.status = "FAILED"],
                     "clearing")
    BY <1>1, <2>1, <2>2, <2>4, StatusKeepsOwnership
  <2>5. QED
    BY <1>8, <2>3, <2>4 DEF Transit
<1>9. CASE PersistWait(c)
  <2> DEFINE w == [Object(c) EXCEPT !.interrupt = local[c].id,
                                    !.status = "WAITING_INTERRUPT",
                                    !.resume = local[c].at]
  <2>1. /\ local[c].at \in Steps
        /\ local[c].id # 0
        /\ local[c].id \in Nat
    BY <1>2, <1>3, <1>9
       DEF PersistWait, At, Knows, Ownership, Shape, TypeOK, Local
  <2>2. /\ w \in RunState
        /\ w.run = RunOf(c)
        /\ w.epoch = Object(c).epoch
        /\ Valid(w)
    BY <1>2, <2>1 DEF RunState, Status, Valid
  <2>3. Persist(c, ref[c], w, "syncing")
    BY <1>9 DEF PersistWait
  <2>4. QED
    BY <1>1, <2>2, <2>3, HolderPersistsKeepsOwnership
<1>10. QED
  BY <1>5, <1>6, <1>7, <1>8, <1>9

(* Creating an interrupt request. *)
LEMMA CreateInterruptKeepsOwnership ==
  ASSUME Ownership, Shape', NEW c \in Calls, CreateInterrupt(c)
  PROVE  Ownership'
<1>1. /\ pc[c] = "stepping"
      /\ Drives(c)
      /\ UNCHANGED <<state, ref, cache>>
      /\ heap' = [heap EXCEPT ![ref[c]] = Consumed(c)]
  BY DEF CreateInterrupt, At, Drives, storeVars
<1>2. /\ Working(c)
      /\ Object(c) \in RunState
      /\ RunOf(c) = Object(c).run
      /\ RunOf(c) \in Runs
      /\ ref[c] \in Calls
      /\ Object(c).status = "RUNNING"
  BY <1>1, DriverKnows, ObjectType DEF Knows, Ownership
<1>3. \A o \in Calls : /\ heap'[o].run = heap[o].run
                       /\ heap'[o].epoch = heap[o].epoch
                       /\ heap'[o].status = heap[o].status
  BY <1>1, <1>2 DEF Ownership, Shape, TypeOK, Object, Consumed, RunState
<1>4. /\ pc'[c] \in {"pausing", "done"}
      /\ \A d \in Calls : d # c => pc'[d] = pc[d]
  BY DEF CreateInterrupt, Finish, Goto, Ownership, Shape, TypeOK
<1>5. /\ \A d \in Calls : d # c => local'[d] = local[d]
      /\ pc'[c] = "pausing" => local'[c].id # 0
  <2>1. Len(requests[RunOf(c)]) + 1 # 0
    <3>1. requests[RunOf(c)] \in Seq(Request)
      BY <1>2 DEF Ownership, Shape, TypeOK, InterruptsTypeOK
    <3>2. Len(requests[RunOf(c)]) \in Nat
      BY <3>1, LenProperties
    <3>3. QED
      BY <3>2
  <2>2. local[c] \in Local /\ local \in [Calls -> Local]
    BY DEF Ownership, Shape, TypeOK
  <2>3. CASE local' = [local EXCEPT ![c].id = Len(requests[RunOf(c)]) + 1]
    BY <2>1, <2>2, <2>3 DEF Local
  <2>4. CASE Finish(c) /\ UNCHANGED local
    BY <2>4 DEF Finish, Goto, Ownership, Shape, TypeOK
  <2>5. QED
    BY <2>3, <2>4 DEF CreateInterrupt
<1>6. QED
  BY <1>1, <1>2, <1>3, <1>4, <1>5, QuietKeepsOwnership

(* run_workflow and resume_from_checkpoint. *)
LEMMA StartedRunKeepsOwnership ==
  ASSUME Ownership, Shape', ReliableStore, NEW c \in Calls,
         \/ \E t \in Threads : RunWorkflow(c, t)
         \/ \E k \in DOMAIN checkpoints : ResumeFromCheckpoint(c, k)
  PROVE  Ownership'
<1>1. c \in Runs
  BY DEF Calls
<1>2. ASSUME NEW t \in Threads, RunWorkflow(c, t)
      PROVE  Ownership'
  <2> DEFINE s == NewRun(c, t)
  <2>1. /\ s \in RunState
        /\ s.run = c
        /\ s.status = "PENDING"
        /\ Valid(s)
    BY <1>1, RuntimeConstants DEF NewRun, NoState, RunState, Status, Valid
  <2>2. /\ pc[c] = "idle"
        /\ Persist(c, c, s, "registering")
        /\ UNCHANGED <<ref, local>>
    BY <1>2 DEF RunWorkflow, At
  <2>3. QED
    BY <2>1, <2>2, CreationKeepsOwnership
<1>3. ASSUME NEW k \in DOMAIN checkpoints, ResumeFromCheckpoint(c, k)
      PROVE  Ownership'
  <2> DEFINE s == Restored(c, k)
  <2>1. checkpoints[k] \in RunState
    <3>1. checkpoints \in Seq(RunState)
      BY DEF Ownership, Shape, TypeOK, StoreTypeOK
    <3>2. QED
      BY <3>1, ElementOfSeq, LenProperties
  <2>2. /\ s \in RunState
        /\ s.run = c
        /\ s.status = "RUNNING"
        /\ Valid(s)
    BY <1>1, <2>1 DEF Restored, RunState, Status, Valid
  <2>3. /\ pc[c] = "idle"
        /\ Persist(c, c, s, "registering")
        /\ UNCHANGED <<ref, local>>
    BY <1>3 DEF ResumeFromCheckpoint, At
  <2>4. QED
    BY <2>2, <2>3, CreationKeepsOwnership
<1>4. QED
  BY <1>2, <1>3

(* A resume of an object that the call's process has.                        *)
LEMMA DispatchKeepsOwnership ==
  ASSUME Ownership, Shape', AtomicResume, NEW c \in Calls, Fresh(c), MayRun(c),
         NEW o \in Calls, ProcOf[o] = ProcOf[c], InUse(o),
         NEW l, Dispatch(c, o, l), UNCHANGED state,
         \A p \in Procs, r \in Runs :
           cache'[p][r] = cache[p][r] \/ (p = ProcOf[c] /\ cache'[p][r] = o)
  PROVE  Ownership'
<1>1. /\ ref' = [ref EXCEPT ![c] = o]
      /\ \A d \in Calls : d # c => pc'[d] = pc[d] /\ local'[d] = local[d]
  BY DEF Dispatch, Goto, Ownership, Shape, TypeOK
<1>2. /\ pc'[c] \in {"granting", "rejecting", "resolving", "done"}
      /\ pc'[c] \in {"granting", "rejecting"} =>
           heap[o].status = "WAITING_APPROVAL"
      /\ pc'[c] = "resolving" => heap[o].status = "WAITING_INTERRUPT"
  BY DEF Dispatch, Goto, Ownership, Shape, TypeOK
<1>3. \A x \in Calls : /\ heap'[x].run = heap[x].run
                       /\ heap'[x].epoch = heap[x].epoch
                       /\ heap'[x].status = heap[x].status
  <2>1. heap \in [Calls -> RunState]
    BY DEF Ownership, Shape, TypeOK
  <2>2. heap' = heap \/ heap' = [heap EXCEPT
                                   ![o].approved = @ \cup {heap[o].approval}]
    BY DEF Dispatch
  <2>3. QED
    BY <2>1, <2>2 DEF RunState
<1>4. QED
  BY <1>1, <1>2, <1>3, TakingKeepsOwnership

(* resume_workflow. *)
LEMMA ResumeKeepsOwnership ==
  ASSUME Ownership, Shape', AtomicResume, NEW c \in Calls, NEW r \in Runs,
         ResumeWorkflow(c, r)
  PROVE  Ownership'
<1>1. /\ pc[c] = "idle"
      /\ MayRun(c)
      /\ Fresh(c)
      /\ UNCHANGED state
  BY DEF ResumeWorkflow, At, Fresh, storeVars
<1>2. ProcOf[c] \in Procs
  BY RuntimeConstants
<1>3. ASSUME NEW l, ResumeCached(c, r, l)
      PROVE  Ownership'
  <2> DEFINE o == cache[ProcOf[c]][r]
  <2>1. /\ o # None
        /\ o \in Calls
        /\ Dispatch(c, o, l)
        /\ UNCHANGED cache
    BY <1>2, <1>3 DEF ResumeCached, Ownership, Shape, TypeOK
  <2>2. ProcOf[o] = ProcOf[c]
    BY <1>2, <2>1 DEF Ownership, OwnProcess
  <2>3. InUse(o)
    BY <2>2 DEF InUse
  <2> HIDE DEF o
  <2>4. QED
    BY <1>1, <2>1, <2>2, <2>3, DispatchKeepsOwnership
<1>4. ASSUME NEW l, ResumeLoading(c, r, l)
      PROVE  Ownership'
  <2>1. /\ Stored(r)
        /\ heap' = [heap EXCEPT ![c] = state[r]]
        /\ pc' = [pc EXCEPT ![c] = "loading"]
        /\ \A d \in Calls : d # c => local'[d] = local[d]
        /\ UNCHANGED <<ref, cache>>
    BY <1>4 DEF ResumeLoading, Goto, Ownership, Shape, TypeOK
  <2>2. QED
    BY <1>1, <2>1, LoadingKeepsOwnership
<1>5. QED
  BY <1>3, <1>4 DEF ResumeWorkflow

(* A resume whose run was read from the store. *)
LEMMA LoadedKeepsOwnership ==
  ASSUME Ownership, Shape', AtomicResume, NEW c \in Calls, Loaded(c)
  PROVE  Ownership'
<1>1. /\ pc[c] = "loading"
      /\ MayRun(c)
      /\ Fresh(c)
      /\ Live(c)
      /\ UNCHANGED state
      /\ Dispatch(c, c, local[c])
  BY DEF Loaded, At, Fresh, Live, storeVars
<1>2. InUse(c)
  BY <1>1 DEF InUse, Ownership, Shape, FreshIsPrivate
<1>3. \A p \in Procs, r \in Runs :
        cache'[p][r] = cache[p][r] \/ (p = ProcOf[c] /\ cache'[p][r] = c)
  BY DEF Loaded, Ownership, Shape, TypeOK
<1>4. QED
  BY <1>1, <1>2, <1>3, DispatchKeepsOwnership

(* Crashes, the clock, other clients, and nothing at all. *)
LEMMA EnvironmentKeepsOwnership ==
  ASSUME Ownership, Shape', Environment \/ UNCHANGED vars
  PROVE  Ownership'
<1>1. ASSUME UNCHANGED <<state, heap, ref, cache, pc, local>>
      PROVE  Ownership'
  BY <1>1, StoppingKeepsOwnership
<1>2. ASSUME NEW p \in Procs, Crash(p)
      PROVE  Ownership'
  <2>1. UNCHANGED <<state, heap, ref, local>>
    BY <1>2 DEF Crash, storeVars
  <2>2. \A d \in Calls :
          pc'[d] = IF ProcOf[d] = p /\ Live(d) THEN "crashed" ELSE pc[d]
    BY <1>2 DEF Crash
  <2>3. \A q \in Procs, r \in Runs :
          cache'[q][r] = IF q = p THEN None ELSE cache[q][r]
    BY <1>2 DEF Crash, Ownership, Shape, TypeOK
  <2>4. QED
    BY <2>1, <2>2, <2>3, StoppingKeepsOwnership
<1>3. CASE UNCHANGED vars
  BY <1>1, <1>3 DEF vars, storeVars, runtimeVars
<1>4. CASE Environment
  BY <1>1, <1>2, <1>4
     DEF Environment, ExpireRequest, ListPendingInterrupts, storeVars,
         runtimeVars
<1>5. QED
  BY <1>3, <1>4

-----------------------------------------------------------------------------
(* Nobody holds anything at first. *)
LEMMA InitOwnership == Init => Ownership
<1> SUFFICES ASSUME Init PROVE Ownership
  OBVIOUS
<1>1. Shape
  BY InitShape
<1>2. \A c \in Calls : /\ pc[c] = "idle"
                       /\ ref[c] = c
                       /\ ~Stored(c)
  BY DEF Init, StoreInit, Stored, Calls
<1>3. \A p \in Procs, r \in Runs : cache[p][r] = None
  BY DEF Init
<1>4. \A o \in Calls : ~InUse(o)
  <2>1. SUFFICES ASSUME NEW o \in Calls, InUse(o)
                 PROVE  FALSE
    OBVIOUS
  <2>2. ProcOf[o] \in Procs /\ o # None
    BY RuntimeConstants, NoneIsNoName DEF Calls
  <2>3. QED
    BY <1>2, <1>3, <2>1, <2>2 DEF InUse, Live
<1>5. \A c \in Calls : ~Holds(c) /\ ~Drives(c)
  BY <1>2 DEF Holds, Taking, Drives
<1>6. OwnProcess /\ NamedByItsCall /\ ObjectsAreCoherent
  BY <1>2, <1>3, <1>4 DEF OwnProcess, NamedByItsCall, ObjectsAreCoherent
<1>7. HoldersKnowTheirRun
  BY <1>2 DEF HoldersKnowTheirRun, Knows, Drives
<1>8. OneHolderPerObject /\ SingleDriver
  BY <1>5 DEF OneHolderPerObject, SingleDriver
<1>9. QED
  BY <1>1, <1>6, <1>7, <1>8 DEF Ownership

(* Ownership is inductive in these deployments. *)
LEMMA NextKeepsOwnership ==
  ASSUME AtomicResume, ReliableStore, Ownership, [Next]_vars
  PROVE  Ownership'
<1>1. Shape'
  BY NextKeepsShape DEF Ownership
<1>2. ASSUME NEW c \in Calls, Start(c)
      PROVE  Ownership'
  BY <1>1, <1>2, StartedRunKeepsOwnership, ResumeKeepsOwnership DEF Start
<1>3. ASSUME NEW c \in Calls, Proceed(c)
      PROVE  Ownership'
  <2>1. CASE RegisterActiveRun(c) \/ Launch(c)
    BY <1>1, <2>1, ClaimingKeepsOwnership
  <2>2. CASE Resuming(c)
    BY <1>1, <2>2, LoadedKeepsOwnership, ApprovalKeepsOwnership,
       AnswerKeepsOwnership, ContinueKeepsOwnership DEF Resuming
  <2>3. CASE Advancing(c)
    BY <1>1, <2>3, LoopKeepsOwnership, LoopPersistKeepsOwnership,
       CreateInterruptKeepsOwnership DEF Advancing
  <2>4. ~Write(c)
    BY PutsAtOnce DEF Ownership, ReliableStore
  <2>5. QED
    BY <1>3, <2>1, <2>2, <2>3, <2>4 DEF Proceed
<1>4. CASE Environment \/ UNCHANGED vars
  BY <1>1, <1>4, EnvironmentKeepsOwnership
<1>5. QED
  BY <1>2, <1>3, <1>4 DEF Next

(* The inductive invariant: where a resume changes the status it looked at      *)
(* before another call of its process runs, and puts reach the store.        *)
THEOREM OwnershipAlways ==
  ASSUME AtomicResume, ReliableStore
  PROVE  Spec => []Ownership
<1>1. QED
  BY InitOwnership, NextKeepsOwnership, PTL DEF Spec

(* Mutual exclusion over runs: with any number of processes that crash and     *)
(* restart at any point, whatever they cache, no two calls are ever inside    *)
(* _advance for one run.  The epoch compare-and-set of put decides between     *)
(* processes; inside one, a resume must not be suspended between its check of *)
(* the status and its change.  The store is one whose put is atomic (RunStore), *)
(* which RedisRunStore's is not.                                            *)
THEOREM OneDriver ==
  ASSUME AtomicResume, ReliableStore
  PROVE  Spec => []SingleDriver
<1>1. Ownership => SingleDriver
  BY DEF Ownership
<1>2. QED
  BY <1>1, OwnershipAlways, PTL

-----------------------------------------------------------------------------
(* What a put leaves behind: a run that is over is about to be taken off its   *)
(* thread, and one that runs has the call that put it for its driver.          *)

DrivingLabels == {"registering", "launching", "continuing", "advancing",
                  "executing", "stepping", "pausing"}

Suits(s, label) ==
  /\ s.status \in Terminal => label = "clearing"
  /\ s.status \in {"PENDING", "RUNNING"} => label \in DrivingLabels
  /\ s.status = "WAITING_INTERRUPT" <=> label = "syncing"
  /\ label \in DrivingLabels \cup {"clearing", "syncing", "done"}

(* The step a snapshot is to move on from is what the object says, or the step  *)
(* that has just asked for an interrupt.                                     *)
MovesFrom(c, x) ==
  \/ x \in {Object(c).resume, None}
  \/ pc[c] = "pausing" /\ x = local[c].at

PutsWell(c) ==
  \E s \in RunState, label \in DOMAIN InPut :
    /\ MadeFrom(c, s)
    /\ Valid(s)
    /\ Suits(s, label)
    /\ MovesFrom(c, s.resume)
    /\ label = "syncing" => pc[c] = "pausing" /\ s.interrupt = local[c].id
    /\ Persist(c, ref[c], s, label)

(* A driver moves on: the run goes on or is completed.                        *)
LEMMA MovePutsWell ==
  ASSUME Ownership, NEW c \in Calls, Drives(c), Object(c).status = "RUNNING",
         NEW s \in RunState,
         s = Consumed(c) \/ s = [Object(c) EXCEPT !.resume = None],
         NEW next \in Steps \cup {End}, Move(c, s, next)
  PROVE  PutsWell(c)
<1>1. Shape /\ Working(c) /\ Object(c) \in RunState
  BY DriverKnows DEF Ownership
<1>2. s.status = "RUNNING" /\ s.resume \in {Object(c).resume, None}
  BY <1>1 DEF Consumed, RunState
<1>3. CASE next = End
  <2> DEFINE w == [s EXCEPT !.step = None, !.status = "COMPLETED"]
  <2>1. MadeFrom(c, w)
    BY <1>1, MadeFromObject DEF Status
  <2>2. w \in RunState /\ w.status = "COMPLETED" /\ w.resume = s.resume
    BY <2>1 DEF MadeFrom, RunState
  <2>3. Persist(c, ref[c], w, "clearing")
    BY <1>3 DEF Move
  <2>4. /\ Valid(w) /\ Suits(w, "clearing") /\ "clearing" \in DOMAIN InPut
        /\ MovesFrom(c, w.resume)
    BY <1>2, <2>2, PutLabels DEF Valid, Suits, Terminal, DrivingLabels, MovesFrom
  <2>5. QED BY <2>1, <2>2, <2>3, <2>4 DEF PutsWell
<1>4. CASE next # End
  <2> DEFINE w == [s EXCEPT !.step = next]
  <2>1. next \in Steps
    BY <1>4
  <2>2. MadeFrom(c, w)
    BY <1>1, <2>1, MadeFromObject DEF Status
  <2>3. w \in RunState /\ w.status = "RUNNING" /\ w.resume = s.resume
    BY <1>2, <2>2 DEF MadeFrom, RunState
  <2>4. Persist(c, ref[c], w, "advancing")
    BY <1>4 DEF Move
  <2>5. /\ Valid(w) /\ Suits(w, "advancing") /\ "advancing" \in DOMAIN InPut
        /\ MovesFrom(c, w.resume)
    BY <1>2, <2>3, PutLabels DEF Valid, Suits, Terminal, DrivingLabels, MovesFrom
  <2>6. QED BY <2>2, <2>3, <2>4, <2>5 DEF PutsWell
<1>5. QED BY <1>3, <1>4

(* A call that fails or completes its run, or lets it wait for an approval.    *)
LEMMA StatusPutsWell ==
  ASSUME Shape, NEW c \in Calls, Working(c), NEW s \in RunState,
         s = Object(c) \/ s = Consumed(c),
         NEW status \in {"RUNNING", "COMPLETED", "FAILED"},
         NEW label \in DOMAIN InPut,
         status = "RUNNING" <=> label = "advancing",
         status # "RUNNING" <=> label = "clearing",
         \/ Persist(c, ref[c], [s EXCEPT !.status = status], label)
         \/ Persist(c, ref[c], [s EXCEPT !.approval = None, !.status = status], label)
  PROVE  PutsWell(c)
<1>1. ASSUME NEW w \in RunState, MadeFrom(c, w), w.status = status,
             w.resume = Object(c).resume, Persist(c, ref[c], w, label)
      PROVE  PutsWell(c)
  BY <1>1 DEF PutsWell, Valid, Suits, Terminal, DrivingLabels, MovesFrom
<1> s.resume = Object(c).resume
  BY ObjectType DEF Consumed, RunState
<1>2. CASE Persist(c, ref[c], [s EXCEPT !.status = status], label)
  <2> DEFINE w == [s EXCEPT !.status = status]
  <2>1. MadeFrom(c, w)
    BY MadeFromObject DEF Status
  <2>2. w \in RunState /\ w.status = status /\ w.resume = Object(c).resume
    BY <2>1 DEF MadeFrom, RunState
  <2>3. QED BY <1>1, <1>2, <2>1, <2>2
<1>3. CASE Persist(c, ref[c], [s EXCEPT !.approval = None, !.status = status], label)
  <2> DEFINE w == [s EXCEPT !.approval = None, !.status = status]
  <2>1. MadeFrom(c, w)
    BY MadeFromObject DEF Status
  <2>2. w \in RunState /\ w.status = status /\ w.resume = Object(c).resume
    BY <2>1 DEF MadeFrom, RunState
  <2>3. QED BY <1>1, <1>3, <2>1, <2>2
<1>4. QED BY <1>2, <1>3

(* The loop lets the run wait for an approval.                                *)
LEMMA WaitingPutsWell ==
  ASSUME Shape, NEW c \in Calls, Working(c), NEW step \in Steps,
         Persist(c, ref[c], Waiting(Object(c), step), "done")
  PROVE  PutsWell(c)
<1> DEFINE s == Waiting(Object(c), step)
<1>1. Object(c) \in RunState /\ RunOf(c) = Object(c).run
  BY ObjectType
<1>2. MadeFrom(c, s) /\ s \in RunState
  BY <1>1 DEF MadeFrom, Waiting, RunState, Status
<1>3. Valid(s) /\ Suits(s, "done") /\ "done" \in DOMAIN InPut /\ MovesFrom(c, s.resume)
  BY <1>1, NoneIsNoName, PutLabels DEF Valid, Waiting, RunState, Suits, Terminal, DrivingLabels, MovesFrom
<1>4. QED BY <1>2, <1>3 DEF PutsWell

(* Where an exception leaves _advance with the run still running.             *)
Raises(c) ==
  \/ MissArtifact(c)
  \/ StepBadUpdate(c)
  \/ CreateInterrupt(c) /\ ~HasRoom(RunOf(c), Object(c).epoch, MaxPending)
  \/ Continue(c) /\ Object(c).resume \in Illegal

(* A step that stores nothing leaves a driver driving, unless it raises.       *)
Bides(c) ==
  /\ UNCHANGED <<state, threadActive>>
  /\ pc[c] # "clearing"
  /\ Drives(c) => Drives(c)' \/ Raises(c)
  /\ Drives(c)' /\ pc'[c] # "pausing" => Drives(c) /\ pc[c] # "pausing"
  /\ pc'[c] # "syncing"
  /\ pc'[c] = "deciding" => ReadRequest(c)
  /\ pc'[c] = "resumed" => DecideRequest(c)
  /\ \A o \in Calls : heap'[o].resume \in {heap[o].resume, None}

(* A resume puts the run as its answer leaves it.                             *)
LEMMA ResumingPutsWell ==
  ASSUME Ownership, NEW c \in Calls, Resuming(c), ~Loaded(c)
  PROVE  PutsWell(c) \/ Bides(c)
<1>1. Shape /\ pc \in [Calls -> PC]
  BY DEF Ownership, Shape, TypeOK
<1>2. CASE GrantApproval(c) \/ RejectApproval(c)
  <2>1. Working(c) /\ Object(c) \in RunState
    BY <1>1, <1>2, AtWork, ObjectType DEF GrantApproval, RejectApproval
  <2>2. CASE GrantApproval(c)
    BY <1>1, <2>1, <2>2, StatusPutsWell, PutLabels DEF GrantApproval
  <2>3. CASE RejectApproval(c)
    BY <1>1, <2>1, <2>3, StatusPutsWell, PutLabels DEF RejectApproval
  <2>4. QED BY <1>2, <2>2, <2>3
<1>3. CASE ReadRequest(c) \/ DecideRequest(c)
  <2>1. heap \in [Calls -> RunState]
    BY <1>1 DEF Shape, TypeOK
  <2>2. \A o \in Calls : heap'[o].resume \in {heap[o].resume, None}
    BY <1>3, <2>1 DEF ReadRequest, DecideRequest, RunState
  <2>3. /\ ~Drives(c) /\ ~Drives(c)'
        /\ pc'[c] \in {"deciding", "resumed", "done"}
        /\ pc'[c] = "deciding" => ReadRequest(c)
        /\ pc'[c] = "resumed" => DecideRequest(c)
    BY <1>1, <1>3 DEF ReadRequest, DecideRequest, At, Goto, Finish, Drives
  <2>4. QED
    BY <1>3, <2>2, <2>3 DEF ReadRequest, DecideRequest, At, Bides, storeVars
<1>4. CASE PersistResumed(c)
  <2>1. Working(c) /\ Object(c) \in RunState /\ RunOf(c) = Object(c).run
    BY <1>1, <1>4, AtWork, ObjectType DEF PersistResumed
  <2>2. Object(c).status = "RUNNING"
    BY <1>4, <2>1 DEF Ownership, HoldersKnowTheirRun, Knows, PersistResumed, At
  <2>3. /\ Valid(Object(c)) /\ Suits(Object(c), "continuing") /\ "continuing" \in DOMAIN InPut
        /\ MovesFrom(c, Object(c).resume)
    BY <2>2, PutLabels DEF Valid, Suits, Terminal, DrivingLabels, MovesFrom
  <2>4. MadeFrom(c, Object(c)) /\ Persist(c, ref[c], Object(c), "continuing")
    BY <1>4, <2>1 DEF MadeFrom, PersistResumed
  <2>5. QED BY <2>1, <2>3, <2>4 DEF PutsWell
<1>5. CASE Continue(c)
  <2>1. Drives(c) /\ pc[c] = "continuing"
    BY <1>5 DEF Continue, At, Drives
  <2>2. /\ Working(c) /\ Object(c) \in RunState /\ Knows(c)
        /\ Object(c).status = "RUNNING"
    BY <2>1, DriverKnows DEF Knows
  <2> DEFINE s == [Object(c) EXCEPT !.resume = None]
  <2>3. ASSUME Object(c).resume # None, NEW next \in Targets[Object(c).resume],
               Move(c, s, next)
        PROVE  PutsWell(c)
    <3>1. next \in Steps \cup {End} /\ s \in RunState
      BY <2>2, <2>3, RuntimeConstants DEF RunState
    <3>2. QED BY <2>1, <2>2, <2>3, <3>1, MovePutsWell
  <2>4. ASSUME \/ Object(c).resume = None /\ Goto(c, "advancing")
               \/ Object(c).resume \in Illegal /\ Finish(c),
               heap' = [heap EXCEPT ![ref[c]] = s],
               UNCHANGED storeVars
        PROVE  Bides(c)
    <3>1. Object(c).resume \in Illegal => Raises(c)
      BY <1>5 DEF Raises
    <3>2. Goto(c, "advancing") => Drives(c)'
      BY <1>1 DEF Goto, Drives
    <3>3. \A o \in Calls : heap'[o].resume \in {heap[o].resume, None}
      BY <1>1, <2>2, <2>4 DEF Shape, TypeOK, Object, RunState
    <3>4. pc'[c] \in {"advancing", "done"}
      BY <1>1, <2>4 DEF Goto, Finish
    <3>5. QED BY <2>1, <2>4, <3>1, <3>2, <3>3, <3>4 DEF Bides, Drives, storeVars
  <2>5. QED BY <1>5, <2>3, <2>4 DEF Continue
<1>6. QED BY <1>2, <1>3, <1>4, <1>5 DEF Resuming

(* The head of the loop.                                                      *)
LEMMA LoopPutsWell ==
  ASSUME Ownership, NEW c \in Calls,
         \/ LeaveLoop(c) \/ CompleteRun(c) \/ MissArtifact(c) \/ RequestApproval(c)
         \/ Execute(c) \/ StepBadUpdate(c) \/ SyncRequest(c)
  PROVE  PutsWell(c) \/ Bides(c)
<1>1. Shape /\ pc \in [Calls -> PC]
  BY DEF Ownership, Shape, TypeOK
<1>2. CASE LeaveLoop(c)
  <2>1. Drives(c) /\ pc[c] = "advancing"
    BY <1>2 DEF LeaveLoop, At, Drives
  <2>2. QED BY <1>2, <2>1, DriverKnows DEF LeaveLoop, Knows
<1>3. CASE CompleteRun(c)
  <2>1. Working(c) /\ Object(c) \in RunState
    BY <1>1, <1>3, AtWork, ObjectType DEF CompleteRun
  <2>2. QED BY <1>1, <1>3, <2>1, StatusPutsWell, PutLabels DEF CompleteRun
<1>4. CASE MissArtifact(c) \/ StepBadUpdate(c)
  BY <1>1, <1>4 DEF MissArtifact, StepBadUpdate, CanEnter, At, Finish, Goto, Bides,
                    Raises, Drives, storeVars
<1>5. CASE RequestApproval(c)
  <2>1. Working(c) /\ Object(c).step \in Steps
    BY <1>5, AtWork, RuntimeConstants DEF RequestApproval, CanEnter
  <2>2. QED BY <1>1, <1>5, <2>1, WaitingPutsWell DEF RequestApproval
<1>6. CASE Execute(c)
  <2>1. Drives(c)' /\ pc'[c] = "executing"
    BY <1>1, <1>6 DEF Execute, Goto, Drives
  <2>2. QED BY <1>6, <2>1 DEF Execute, CanEnter, At, Bides, Drives, storeVars
<1>7. CASE SyncRequest(c)
  BY <1>1, <1>7 DEF SyncRequest, At, Finish, Goto, Bides, Drives, storeVars
<1>8. QED BY <1>2, <1>3, <1>4, <1>5, <1>6, <1>7

(* A step that was executed.                                                  *)
LEMMA ExecutedPutsWell ==
  ASSUME Ownership, NEW c \in Calls,
         StepDone(c) \/ StepNeedsApproval(c) \/ StepFails(c)
  PROVE  PutsWell(c)
<1>1. Drives(c) /\ pc[c] = "executing"
  BY DEF StepDone, StepNeedsApproval, StepFails, At, Drives
<1>2. /\ Shape /\ Working(c) /\ Object(c) \in RunState /\ Knows(c)
      /\ Object(c).status = "RUNNING"
  BY <1>1, DriverKnows DEF Knows, Ownership
<1>3. local[c].at \in Steps /\ RunOf(c) = Object(c).run
  BY <1>1, <1>2, ObjectType DEF Shape, LocalsAreSet
<1>4. CASE StepDone(c)
  <2> DEFINE s == [Object(c) EXCEPT !.completed = @ \cup {local[c].at}]
  <2>1. /\ MadeFrom(c, s) /\ s \in RunState /\ s.status = "RUNNING"
        /\ s.resume = Object(c).resume
    BY <1>2, <1>3 DEF MadeFrom, RunState
  <2>2. Persist(c, ref[c], s, "stepping")
    BY <1>4 DEF StepDone
  <2>3. /\ Valid(s) /\ Suits(s, "stepping") /\ "stepping" \in DOMAIN InPut
        /\ MovesFrom(c, s.resume)
    BY <2>1, PutLabels DEF Valid, Suits, Terminal, DrivingLabels, MovesFrom
  <2>4. QED BY <2>1, <2>2, <2>3 DEF PutsWell
<1>5. CASE StepNeedsApproval(c)
  BY <1>2, <1>3, <1>5, WaitingPutsWell DEF StepNeedsApproval
<1>6. CASE StepFails(c)
  BY <1>2, <1>6, StatusPutsWell, PutLabels DEF StepFails, Fail
<1>7. QED BY <1>4, <1>5, <1>6

(* After the step: a transition, or an interrupt.                             *)
LEMMA SteppingPutsWell ==
  ASSUME Ownership, NEW c \in Calls,
         Transit(c) \/ CreateInterrupt(c) \/ PersistWait(c)
  PROVE  PutsWell(c) \/ Bides(c)
<1>1. Drives(c) /\ pc[c] \in {"stepping", "pausing"}
  BY DEF Transit, CreateInterrupt, PersistWait, At, Drives
<1>2. /\ Shape /\ Working(c) /\ Object(c) \in RunState /\ Knows(c)
      /\ Object(c).status = "RUNNING"
  BY <1>1, DriverKnows DEF Knows, Ownership
<1>3. /\ local[c].at \in Steps /\ local[c] \in Local /\ RunOf(c) = Object(c).run
      /\ pc \in [Calls -> PC] /\ Consumed(c) \in RunState
  <2>1. local[c].at \in Steps /\ local[c] \in Local /\ pc \in [Calls -> PC]
    BY <1>1, <1>2, ObjectType DEF Shape, LocalsAreSet, TypeOK
  <2>2. Consumed(c) \in RunState /\ RunOf(c) = Object(c).run
    BY <1>2 DEF RunState, Consumed, RunOf
  <2>3. QED BY <2>1, <2>2
<1>4. CASE Transit(c)
  <2>1. ASSUME NEW next \in Targets[local[c].at], Move(c, Consumed(c), next)
        PROVE  PutsWell(c)
    <3>1. next \in Steps \cup {End}
      BY <1>3, <2>1, RuntimeConstants
    <3>2. QED BY <1>1, <1>2, <1>3, <2>1, <3>1, MovePutsWell
  <2>2. ASSUME Persist(c, ref[c], [Consumed(c) EXCEPT !.status = "FAILED"],
                       "clearing")
        PROVE  PutsWell(c)
    BY <1>2, <1>3, <2>2, StatusPutsWell, PutLabels
  <2>3. QED BY <1>4, <2>1, <2>2 DEF Transit
<1>5. CASE CreateInterrupt(c)
  <2>1. UNCHANGED <<state, threadActive>>
    BY <1>5 DEF CreateInterrupt, storeVars
  <2>2. Goto(c, "pausing") => Drives(c)'
    BY <1>3 DEF Goto, Drives
  <2>3. ~HasRoom(RunOf(c), Object(c).epoch, MaxPending) => Raises(c)
    BY <1>5 DEF Raises
  <2>4. \A o \in Calls : heap'[o].resume \in {heap[o].resume, None}
    <3>1. heap' = [heap EXCEPT ![ref[c]] = Consumed(c)] /\ heap \in [Calls -> RunState]
      BY <1>2, <1>5 DEF CreateInterrupt, Shape, TypeOK
    <3>2. Consumed(c).resume = Object(c).resume
      BY <1>2 DEF Consumed, RunState
    <3>3. QED BY <3>1, <3>2 DEF Object
  <2>5. Goto(c, "pausing") \/ Finish(c) =>
          /\ ~(Drives(c)' /\ pc'[c] # "pausing")
          /\ pc'[c] \in {"pausing", "done"}
    BY <1>3 DEF Goto, Finish, Drives
  <2>6. QED BY <1>1, <1>5, <2>1, <2>2, <2>3, <2>4, <2>5 DEF CreateInterrupt, Bides
<1>6. CASE PersistWait(c)
  <2> DEFINE s == [Object(c) EXCEPT !.interrupt = local[c].id,
                                    !.status = "WAITING_INTERRUPT",
                                    !.resume = local[c].at]
  <2>1. local[c].id \in Nat \ {0}
    BY <1>2, <1>3, <1>6 DEF Local, PersistWait, At, Knows
  <2>2. MadeFrom(c, s) /\ s \in RunState /\ s.status = "WAITING_INTERRUPT"
        /\ s.interrupt # 0 /\ s.resume = local[c].at
    BY <1>2, <1>3, <2>1 DEF MadeFrom, RunState, Status
  <2>3. Persist(c, ref[c], s, "syncing") /\ pc[c] = "pausing"
    BY <1>6 DEF PersistWait, At
  <2>4. /\ Valid(s) /\ Suits(s, "syncing") /\ "syncing" \in DOMAIN InPut
        /\ MovesFrom(c, s.resume)
    BY <2>2, <2>3, PutLabels DEF Valid, Suits, Terminal, DrivingLabels, MovesFrom
  <2>5. s.interrupt = local[c].id
    BY <1>2, <1>3, <2>1 DEF RunState, Local
  <2>6. QED BY <2>2, <2>3, <2>4, <2>5 DEF PutsWell
<1>7. QED BY <1>4, <1>5, <1>6

(* All a call does once it works.                                            *)
LEMMA WorkPutsWell ==
  ASSUME Ownership, ReliableStore, NEW c \in Calls, Proceed(c), ~Loaded(c)
  PROVE  \/ PutsWell(c) \/ Bides(c)
         \/ RegisterActiveRun(c) \/ ClearActiveRun(c)
<1>1. CASE Launch(c)
  <2>1. Shape /\ Working(c) /\ Object(c) \in RunState
    BY <1>1, AtWork, ObjectType DEF Launch, Ownership
  <2>2. QED BY <1>1, <2>1, StatusPutsWell, PutLabels DEF Launch
<1>2. CASE Resuming(c)
  BY <1>2, ResumingPutsWell
<1>3. CASE Advancing(c)
  BY <1>3, LoopPutsWell, ExecutedPutsWell, SteppingPutsWell DEF Advancing
<1>4. ~Write(c)
  BY PutsAtOnce DEF Ownership, ReliableStore
<1>5. QED BY <1>1, <1>2, <1>3, <1>4 DEF Proceed

(* The other calls are where they were, each with its run.                    *)
OthersStay(c) ==
  \A d \in Calls \ {c} : pc'[d] = pc[d] /\ RunOf(d)' = RunOf(d)

(* A call works on one object of one run.                                     *)
LEMMA WorkRuns ==
  ASSUME Shape, NEW c \in Calls, WorkStep(c), NEW d \in Calls
  PROVE  RunOf(d)' = RunOf(d)
<1>1. ref[d] \in Calls /\ ref[c] \in Calls /\ RunOf(c) = heap[ref[c]].run
  BY DEF Shape, TypeOK, RunOf, Object
<1>2. heap'[ref[d]].run = heap[ref[d]].run
  BY <1>1 DEF WorkStep
<1>3. QED BY <1>2 DEF WorkStep, RunOf, Object

(* A call that looks for its object, and finds one or is refused.              *)
LEMMA ResumingStays ==
  ASSUME Shape, NEW c \in Calls,
         Loaded(c) \/ \E r \in Runs : ResumeWorkflow(c, r)
  PROVE  /\ UNCHANGED <<storeVars, interruptVars>>
         /\ Fresh(c)
         /\ OthersStay(c)
         /\ pc'[c] \in {"loading", "granting", "rejecting", "resolving", "done"}
<1>1. /\ heap \in [Calls -> RunState] /\ pc \in [Calls -> PC]
      /\ ref \in [Calls -> Calls]
      /\ \A p \in Procs, r \in Runs : cache[p][r] \in Calls \cup {None}
      /\ ProcOf[c] \in Procs
  BY RuntimeConstants DEF Shape, TypeOK
<1>2. UNCHANGED <<storeVars, interruptVars>> /\ Fresh(c)
  BY DEF Loaded, ResumeWorkflow, At, Fresh
<1>3. ASSUME NEW o \in Calls, NEW l, Dispatch(c, o, l)
      PROVE  /\ OthersStay(c)
             /\ pc'[c] \in {"granting", "rejecting", "resolving", "done"}
  <2>1. /\ \A x \in Calls : SameObject(x)
        /\ \E label \in {"granting", "rejecting", "resolving", "done"} : Goto(c, label)
    BY <1>1, <1>3, DispatchSpares
  <2>2. ref' = [ref EXCEPT ![c] = o]
    BY <1>3 DEF Dispatch
  <2>3. QED
    BY <1>1, <2>1, <2>2 DEF OthersStay, Goto, RunOf, Object, SameObject
<1>4. CASE Loaded(c)
  BY <1>2, <1>3, <1>4 DEF Loaded
<1>5. ASSUME NEW r \in Runs, NEW l, ResumeLoading(c, r, l), pc[c] = "idle"
      PROVE  OthersStay(c) /\ pc'[c] = "loading"
  <2>1. \A d \in Calls \ {c} : ref[d] # c
    BY <1>5 DEF Shape, FreshIsPrivate, Fresh
  <2>2. QED
    BY <1>1, <1>5, <2>1 DEF ResumeLoading, OthersStay, Goto, RunOf, Object
<1>6. ASSUME NEW r \in Runs, NEW l, ResumeCached(c, r, l)
      PROVE  /\ OthersStay(c)
             /\ pc'[c] \in {"granting", "rejecting", "resolving", "done"}
  <2>1. cache[ProcOf[c]][r] \in Calls
    BY <1>1, <1>6 DEF ResumeCached
  <2>2. QED
    BY <1>3, <1>6, <2>1 DEF ResumeCached
<1>7. CASE \E r \in Runs : ResumeWorkflow(c, r)
  BY <1>2, <1>5, <1>6, <1>7 DEF ResumeWorkflow, At
<1>8. QED BY <1>4, <1>7

(* What a put writes is the snapshot, with its new version.                    *)
LEMMA StampedType ==
  ASSUME TypeOK, NEW w \in RunState, w.run \in Runs, w.ckpt = 0
  PROVE  /\ Stamped(w) \in RunState
         /\ Stamped(w).run = w.run
         /\ Stamped(w).thread = w.thread
         /\ Stamped(w).status = w.status
         /\ Stamped(w).resume = w.resume
         /\ Stamped(w).interrupt = w.interrupt
         /\ Stamped(w).epoch = state[w.run].epoch + 1
<1> DEFINE e == state[w.run].epoch + 1
           n == Len(checkpoints) + 1
<1>1. e \in Nat /\ n \in Nat
  BY LenProperties DEF TypeOK, StoreTypeOK, RunState
<1>2. Stamped(w) = [w EXCEPT !.epoch = e, !.ckpt = n]
  BY DEF Stamped
<1>3. ASSUME NEW f, f = e
      PROVE  [w EXCEPT !.epoch = f, !.ckpt = n].epoch = f
  BY DEF RunState
<1>4. Stamped(w).epoch = e
  BY <1>2, <1>3
<1> HIDE DEF n
<1>5. e = state[w.run].epoch + 1
  OBVIOUS
<1> HIDE DEF e
<1>6. QED BY <1>1, <1>2, <1>4, <1>5 DEF RunState

(* A call that creates its run.                                              *)
LEMMA CreatingStores ==
  ASSUME Ownership, ReliableStore, NEW c \in Calls,
         \/ \E t \in Threads : RunWorkflow(c, t)
         \/ \E k \in DOMAIN checkpoints : ResumeFromCheckpoint(c, k)
  PROVE  /\ pc[c] = "idle" /\ state[c] = NoState /\ c \in Runs
         /\ OthersStay(c)
         /\ threadActive' = threadActive
         /\ pc'[c] = "registering" /\ RunOf(c)' = c
         /\ \E w \in RunState :
              /\ w.status \in {"PENDING", "RUNNING"}
              /\ w.resume = None
              /\ w.epoch = 1
              /\ state' = [state EXCEPT ![c] = w]
              /\ heap' = [heap EXCEPT ![c] = w]
<1>1. Shape /\ TypeOK
  BY DEF Ownership, Shape
<1>2. PICK s \in RunState : /\ s.run = c
                            /\ s.status \in {"PENDING", "RUNNING"}
                            /\ s.resume = None
                            /\ Persist(c, c, s, "registering")
                            /\ ref' = ref /\ pc[c] = "idle"
  <2>1. ASSUME NEW t \in Threads, RunWorkflow(c, t)
        PROVE  /\ NewRun(c, t) \in RunState /\ NewRun(c, t).run = c
               /\ NewRun(c, t).status = "PENDING" /\ NewRun(c, t).resume = None
               /\ Persist(c, c, NewRun(c, t), "registering")
               /\ ref' = ref /\ pc[c] = "idle"
    BY <2>1, RuntimeConstants
       DEF RunWorkflow, At, NewRun, NoState, RunState, Status, Calls
  <2>2. ASSUME NEW k \in DOMAIN checkpoints, ResumeFromCheckpoint(c, k)
        PROVE  /\ Restored(c, k) \in RunState /\ Restored(c, k).run = c
               /\ Restored(c, k).status = "RUNNING" /\ Restored(c, k).resume = None
               /\ Persist(c, c, Restored(c, k), "registering")
               /\ ref' = ref /\ pc[c] = "idle"
    <3>1. checkpoints[k] \in RunState
      BY <1>1, <2>2, ElementOfSeq, LenProperties DEF TypeOK, StoreTypeOK
    <3>2. /\ Restored(c, k) \in RunState /\ Restored(c, k).run = c
          /\ Restored(c, k).status = "RUNNING" /\ Restored(c, k).resume = None
      BY <3>1 DEF Restored, RunState, Status, Calls
    <3>3. QED BY <2>2, <3>2 DEF ResumeFromCheckpoint, At
  <2>3. QED BY <2>1, <2>2
<1>3. /\ c \in Runs /\ state[c] = NoState
      /\ \A d \in Calls \ {c} : ref[d] # c
      /\ ref[c] = c
      /\ heap \in [Calls -> RunState] /\ pc \in [Calls -> PC]
      /\ ref \in [Calls -> Calls] /\ state \in [Runs -> RunState]
  BY <1>1, <1>2
     DEF Ownership, NamedByItsCall, Stored, Shape, FreshIsPrivate, Fresh, Calls,
         TypeOK, StoreTypeOK
<1>4. /\ threadActive' = threadActive
      /\ \A d \in Calls \ {c} : pc'[d] = pc[d]
      /\ \A o \in Calls \ {c} : heap'[o] = heap[o]
  BY <1>2, <1>3 DEF Persist, Put, Goto, Finish, storeVars
<1>5. OthersStay(c)
  BY <1>2, <1>3, <1>4 DEF OthersStay, RunOf, Object
<1> DEFINE w == Prepared(s)
<1>6. /\ w \in RunState /\ w.run = c /\ w.status = s.status /\ w.ckpt = 0
      /\ w.epoch \in Nat /\ Valid(w) /\ w.resume = None
  BY <1>2 DEF Prepared, RunState, Valid
<1>7. Accepts(w)
  BY <1>3, <1>6 DEF Accepts, Stale, NoState
<1>8. Put(w) /\ heap' = [heap EXCEPT ![c] = Stamped(w)] /\ Goto(c, "registering")
  <2>1. InPut["registering"] \notin Yields
    BY PutsAtOnce, PutLabels DEF ReliableStore
  <2>2. QED BY <1>2, <1>7, <2>1 DEF Persist, ReliableStore
<1>9. /\ Stamped(w) \in RunState /\ Stamped(w).run = c
      /\ Stamped(w).status = s.status /\ Stamped(w).resume = None
      /\ Stamped(w).epoch = 1
  BY <1>1, <1>3, <1>6, StampedType DEF NoState
<1>10. state' = [state EXCEPT ![c] = Stamped(w)]
  BY <1>6, <1>8 DEF Put
<1>11. pc'[c] = "registering" /\ RunOf(c)' = c
  BY <1>2, <1>3, <1>8, <1>9 DEF Goto, RunOf, Object
<1>12. QED
  BY <1>2, <1>3, <1>4, <1>5, <1>8, <1>9, <1>10, <1>11

(* The two outcomes of a put of the object a call works on.                    *)
LEMMA WellPut ==
  ASSUME Ownership, ReliableStore, NEW c \in Calls, Working(c), PutsWell(c)
  PROVE  /\ threadActive' = threadActive
         /\ MovesFrom(c, heap'[ref[c]].resume)
         /\ \/ state' = state /\ ~Drives(c) /\ pc'[c] = "done"
            \/ \E w \in RunState :
                 /\ state' = [state EXCEPT ![RunOf(c)] = w]
                 /\ heap'[ref[c]] = w
                 /\ w.thread = Object(c).thread
                 /\ Object(c).epoch = state[RunOf(c)].epoch
                 /\ w.epoch = state[RunOf(c)].epoch + 1
                 /\ MovesFrom(c, w.resume)
                 /\ Suits(w, pc'[c])
                 /\ pc'[c] = "syncing" =>
                      pc[c] = "pausing" /\ w.interrupt = local[c].id
<1>1. PICK s \in RunState, label \in DOMAIN InPut :
        /\ MadeFrom(c, s) /\ Valid(s) /\ Suits(s, label) /\ MovesFrom(c, s.resume)
        /\ label = "syncing" => pc[c] = "pausing" /\ s.interrupt = local[c].id
        /\ Persist(c, ref[c], s, label)
  BY DEF PutsWell
<1> DEFINE w == Prepared(s)
<1>2. /\ w \in RunState /\ w.run = RunOf(c) /\ w.status = s.status /\ w.ckpt = 0
      /\ w.thread = Object(c).thread /\ w.epoch = Object(c).epoch /\ Valid(w)
      /\ w.resume = s.resume /\ w.interrupt = s.interrupt
  BY <1>1 DEF MadeFrom, Prepared, RunState, Valid
<1>3. /\ RunOf(c) \in Runs /\ pc \in [Calls -> PC] /\ state \in [Runs -> RunState]
      /\ checkpoints \in Seq(RunState)
      /\ heap \in [Calls -> RunState] /\ ref[c] \in Calls
  BY ObjectType DEF Ownership, Shape, TypeOK, StoreTypeOK
<1>4. CASE /\ Accepts(w) /\ Put(w) /\ Goto(c, label)
           /\ heap' = [heap EXCEPT ![ref[c]] = Stamped(w)]
  <2>2. /\ Stamped(w) \in RunState /\ Stamped(w).status = s.status
        /\ Stamped(w).thread = Object(c).thread
        /\ Stamped(w).resume = s.resume
        /\ Stamped(w).interrupt = s.interrupt
        /\ Stamped(w).epoch = state[RunOf(c)].epoch + 1
    BY <1>2, <1>3, StampedType DEF Ownership, Shape
  <2>3. Suits(Stamped(w), pc'[c])
    BY <1>1, <1>3, <1>4, <2>2 DEF Suits, Goto
  <2>4. heap'[ref[c]] = Stamped(w)
    BY <1>3, <1>4
  <2>5. state' = [state EXCEPT ![RunOf(c)] = Stamped(w)] /\ threadActive' = threadActive
    BY <1>2, <1>4 DEF Put
  <2>6. MovesFrom(c, Stamped(w).resume) /\ MovesFrom(c, heap'[ref[c]].resume)
    BY <1>1, <2>2, <2>4
  <2>7. pc'[c] = label
    BY <1>3, <1>4 DEF Goto
  <2>8. Object(c).epoch = state[RunOf(c)].epoch
    <3>1. w.epoch \in Nat /\ state[RunOf(c)].epoch \in Nat
      BY <1>2, <1>3 DEF RunState
    <3>2. ~(state[RunOf(c)].epoch > w.epoch)
      BY <1>2, <1>4 DEF Accepts, Stale
    <3>3. Object(c).epoch <= state[RunOf(c)].epoch
      BY HolderFacts DEF Coherent, Object
    <3> HIDE DEF w
    <3>4. QED BY <1>2, <3>1, <3>2, <3>3
  <2>9. QED BY <1>1, <2>2, <2>3, <2>4, <2>5, <2>6, <2>7, <2>8
<1>5. CASE /\ ~Accepts(w) /\ UNCHANGED storeVars /\ Finish(c)
           /\ heap' = [heap EXCEPT ![ref[c]] = w]
  <2>1. Object(c).epoch < state[RunOf(c)].epoch
    BY <1>2, <1>3, <1>5 DEF Accepts, Stale, RunState
  <2>2. Drives(c) => Object(c).epoch = state[RunOf(c)].epoch
    BY DEF Ownership, HoldersKnowTheirRun, Knows, RunOf
  <2>3. heap'[ref[c]].resume = s.resume /\ pc'[c] = "done"
    BY <1>2, <1>3, <1>5 DEF Finish, Goto
  <2>4. ~Drives(c)
    BY <1>2, <1>3, <2>1, <2>2 DEF RunState
  <2>5. QED BY <1>1, <1>5, <2>3, <2>4 DEF storeVars
<1>6. InPut[label] \notin Yields
  BY PutsAtOnce DEF ReliableStore
<1>7. QED BY <1>1, <1>4, <1>5, <1>6 DEF Persist, ReliableStore

-----------------------------------------------------------------------------
(* ActiveRunIsLive: who clears a run stays until it has, or dies.             *)

Clears(d, r) == pc[d] \in {"clearing", "crashed"} /\ RunOf(d) = r

(* Nothing is registered, and a run that ends has a call that clears it.       *)
LEMMA ActiveStays ==
  ASSUME ActiveRunIsLive, threadActive' = threadActive,
         threadActive \in [Threads -> Runs \cup {None}],
         \A r \in Runs : state[r].thread \in Threads =>
           /\ state'[r].thread = state[r].thread
           /\ state'[r].status \in Terminal =>
                \/ state[r].status \in Terminal
                \/ \E d \in Calls : Clears(d, r)',
         \A d \in Calls, r \in Runs : Clears(d, r) => Clears(d, r)'
  PROVE  ActiveRunIsLive'
<1> SUFFICES ASSUME NEW t \in Threads, threadActive[t] # None
             PROVE  LET r == threadActive[t] IN
                      /\ state'[r].thread = t
                      /\ state'[r].status \in Terminal =>
                           \E d \in Calls : Clears(d, r)'
  BY DEF ActiveRunIsLive, Clears, Abandoned
<1>1. PICK r \in Runs : r = threadActive[t]
  OBVIOUS
<1>2. /\ state[r].thread = t
      /\ state[r].status \in Terminal => \E d \in Calls : Clears(d, r)
  BY <1>1 DEF ActiveRunIsLive, Clears, Abandoned
<1>3. QED BY <1>1, <1>2

(* What is clearing does nothing else.                                        *)
LEMMA ClearingClears ==
  ASSUME NEW c \in Calls, Proceed(c), pc[c] \in {"clearing", "crashed"}
  PROVE  ClearActiveRun(c)
BY PutLabels DEF Writing, Write, Proceed, Resuming, Advancing, RegisterActiveRun, Launch, Loaded,
       GrantApproval, RejectApproval, ReadRequest, DecideRequest, PersistResumed,
       Continue, LeaveLoop, CompleteRun, MissArtifact, RequestApproval, Execute,
       StepDone, StepNeedsApproval, StepFails, StepBadUpdate, Transit,
       CreateInterrupt, PersistWait, SyncRequest, CanEnter, At

(* A call knows the thread of its run.                                        *)
LEMMA KnowsItsThread ==
  ASSUME Ownership, Chained, NEW c \in Calls, Working(c)
  PROVE  /\ RunOf(c) \in Runs
         /\ Object(c).thread = state[RunOf(c)].thread
<1>1. RunOf(c) \in Runs /\ ref[c] \in Calls /\ RunOf(c) = heap[ref[c]].run
  BY HolderFacts
<1>2. QED BY <1>1 DEF Chained, Linked, Object

(* A call makes its run the active one of the thread it names.                *)
LEMMA RegisteringKeepsActive ==
  ASSUME Ownership, Chained, ActiveRunIsLive, NEW c \in Calls, RegisterActiveRun(c)
  PROVE  ActiveRunIsLive'
<1>1. Drives(c) /\ pc[c] = "registering"
  BY DEF RegisterActiveRun, At, Drives
<1>2. /\ Working(c) /\ Knows(c)
      /\ RunOf(c) \in Runs /\ Object(c).thread = state[RunOf(c)].thread
      /\ ref[c] \in Calls /\ Coherent(ref[c]) /\ heap[ref[c]] = Object(c)
      /\ RunOf(c) = heap[ref[c]].run
  BY <1>1, DriverKnows, KnowsItsThread, HolderFacts DEF Object
<1>3. state[RunOf(c)].status \notin Terminal
  <2>1. Object(c).status \in {"PENDING", "RUNNING"}
        /\ Object(c).epoch = state[RunOf(c)].epoch
    BY <1>1, <1>2 DEF Knows, RunOf
  <2>2. QED BY <1>2, <2>1 DEF Coherent, Terminal
<1>4. /\ threadActive' = [threadActive EXCEPT ![Object(c).thread] = RunOf(c)]
      /\ UNCHANGED <<state, heap, ref>>
      /\ \A d \in Calls \ {c} : pc'[d] = pc[d]
      /\ threadActive \in [Threads -> Runs \cup {None}]
  BY <1>1 DEF RegisterActiveRun, SetActiveRunId, Goto, Ownership, Shape, TypeOK,
              StoreTypeOK
<1>5. ASSUME NEW t \in Threads, NEW q \in Runs, threadActive'[t] = q
      PROVE  /\ state'[q].thread = t
             /\ state'[q].status \in Terminal => \E d \in Calls : Clears(d, q)'
  <2>1. CASE t = Object(c).thread
    BY <1>2, <1>3, <1>4, <1>5, <2>1
  <2>2. CASE t # Object(c).thread
    <3>1. threadActive[t] = q /\ q # None
      BY <1>4, <1>5, <2>2, NoneIsNoName
    <3>2. /\ state[q].thread = t
          /\ state[q].status \in Terminal => \E d \in Calls : Clears(d, q)
      BY <3>1 DEF ActiveRunIsLive, Clears, Abandoned
    <3>3. ASSUME NEW d \in Calls, Clears(d, q)
          PROVE  Clears(d, q)'
      <4>1. d # c
        BY <1>1, <3>3 DEF Clears
      <4>2. QED BY <1>4, <3>3, <4>1 DEF Clears, RunOf, Object
    <3>4. QED BY <1>4, <3>2, <3>3
  <2>3. QED BY <2>1, <2>2
<1>6. threadActive' \in [Threads -> Runs \cup {None}]
  BY <1>2, <1>4
<1>7. QED BY <1>5, <1>6 DEF ActiveRunIsLive, Clears, Abandoned

(* A call that clears takes its run off the thread, and no other.             *)
LEMMA ClearingKeepsActive ==
  ASSUME Ownership, Chained, ActiveRunIsLive, NEW c \in Calls, ClearActiveRun(c)
  PROVE  ActiveRunIsLive'
<1>1. Working(c) /\ pc[c] = "clearing"
  BY AtWork DEF ClearActiveRun, At
<1>2. RunOf(c) \in Runs /\ Object(c).thread = state[RunOf(c)].thread
  BY <1>1, KnowsItsThread
<1>3. /\ threadActive' = [threadActive EXCEPT
                            ![Object(c).thread] = IF @ = RunOf(c) THEN None ELSE @]
      /\ UNCHANGED <<state, heap, ref>>
      /\ \A d \in Calls \ {c} : pc'[d] = pc[d]
      /\ threadActive \in [Threads -> Runs \cup {None}]
  BY DEF ClearActiveRun, ClearActiveRunId, Finish, Goto, Ownership, Shape, TypeOK,
         StoreTypeOK
<1>4. ASSUME NEW t \in Threads, NEW q \in Runs, threadActive'[t] = q
      PROVE  /\ state'[q].thread = t
             /\ state'[q].status \in Terminal => \E d \in Calls : Clears(d, q)'
  <2>1. threadActive[t] = q /\ q # None
    BY <1>3, <1>4, NoneIsNoName
  <2>2. /\ state[q].thread = t
        /\ state[q].status \in Terminal => \E d \in Calls : Clears(d, q)
    BY <2>1 DEF ActiveRunIsLive, Clears, Abandoned
  <2>3. q # RunOf(c)
    <3>1. CASE t = Object(c).thread
      BY <1>3, <1>4, <2>1, <3>1
    <3>2. CASE t # Object(c).thread
      BY <1>2, <2>2, <3>2
    <3>3. QED BY <3>1, <3>2
  <2>4. ASSUME NEW d \in Calls, Clears(d, q)
        PROVE  Clears(d, q)'
    <3>1. d # c
      BY <2>3, <2>4 DEF Clears
    <3>2. QED BY <1>3, <2>4, <3>1 DEF Clears, RunOf, Object
  <2>5. QED BY <1>3, <2>2, <2>4
<1>5. threadActive' \in [Threads -> Runs \cup {None}]
  BY <1>3
<1>6. QED BY <1>4, <1>5 DEF ActiveRunIsLive, Clears, Abandoned

(* What a call at work does.                                                  *)
LEMMA WorkKeepsActive ==
  ASSUME Ownership, Chained, ReliableStore, ActiveRunIsLive, NEW c \in Calls,
         Proceed(c), ~Loaded(c)
  PROVE  ActiveRunIsLive'
<1>1. Shape /\ WorkStep(c) /\ Working(c) /\ \A d \in Calls : RunOf(d)' = RunOf(d)
  BY ProceedIsWorkStep, WorkRuns DEF Ownership, WorkStep
<1>2. CASE RegisterActiveRun(c)
  BY <1>2, RegisteringKeepsActive
<1>3. CASE pc[c] \in {"clearing", "crashed"} \/ ClearActiveRun(c)
  BY <1>3, ClearingClears, ClearingKeepsActive
<1>4. CASE pc[c] \notin {"clearing", "crashed"} /\ (PutsWell(c) \/ Bides(c))
  <2>1. \A d \in Calls, r \in Runs : Clears(d, r) => Clears(d, r)'
    BY <1>1, <1>4 DEF Clears, WorkStep
  <2>2. threadActive \in [Threads -> Runs \cup {None}]
        /\ state \in [Runs -> RunState]
    BY <1>1 DEF Shape, TypeOK, StoreTypeOK
  <2>3. CASE UNCHANGED <<state, threadActive>>
    BY <2>1, <2>2, <2>3, ActiveStays
  <2>4. ASSUME NEW w \in RunState, threadActive' = threadActive,
               state' = [state EXCEPT ![RunOf(c)] = w],
               w.thread = Object(c).thread, Suits(w, pc'[c])
        PROVE  ActiveRunIsLive'
    <3>1. RunOf(c) \in Runs /\ w.thread = state[RunOf(c)].thread
      BY <1>1, <2>4, KnowsItsThread
    <3>2. w.status \in Terminal => pc'[c] = "clearing"
      BY <2>4 DEF Suits
    <3>3. ASSUME NEW r \in Runs
          PROVE  /\ state'[r].thread = state[r].thread
                 /\ state'[r].status \in Terminal =>
                      \/ state[r].status \in Terminal
                      \/ \E d \in Calls : Clears(d, r)'
      <4>1. CASE r = RunOf(c)
        <5>1. state'[r] = w
          BY <2>2, <2>4, <3>1, <4>1
        <5>2. pc'[c] = "clearing" => Clears(c, r)'
          BY <1>1, <4>1 DEF Clears
        <5>3. QED BY <3>1, <3>2, <4>1, <5>1, <5>2
      <4>2. CASE r # RunOf(c)
        <5>1. state'[r] = state[r]
          BY <2>2, <2>4, <4>2
        <5>2. QED BY <5>1
      <4>3. QED BY <4>1, <4>2
    <3>4. QED BY <2>1, <2>2, <2>4, <3>3, ActiveStays
  <2>5. QED BY <1>1, <1>4, <2>3, <2>4, WellPut DEF Bides
<1>5. QED BY <1>2, <1>3, <1>4, WorkPutsWell

(* Any step.                                                                  *)
LEMMA NextKeepsActive ==
  ASSUME ReliableStore, Ownership, Chained, ActiveRunIsLive,
         [Next]_vars
  PROVE  ActiveRunIsLive'
<1>1. /\ Shape /\ crashes \in Nat
      /\ threadActive \in [Threads -> Runs \cup {None}]
      /\ state \in [Runs -> RunState]
      /\ \A c \in Calls : c \in Runs
  BY DEF Ownership, Shape, TypeOK, StoreTypeOK, Calls
<1>2. ASSUME NEW c \in Calls,
             \/ \E t \in Threads : RunWorkflow(c, t)
             \/ \E k \in DOMAIN checkpoints : ResumeFromCheckpoint(c, k)
      PROVE  ActiveRunIsLive'
  <2>1. /\ pc[c] = "idle" /\ state[c] = NoState /\ OthersStay(c)
        /\ threadActive' = threadActive
    BY <1>2, CreatingStores
  <2>2. PICK w \in RunState : state' = [state EXCEPT ![c] = w]
    BY <1>2, CreatingStores
  <2>3. \A r \in Runs \ {c} : state'[r] = state[r]
    BY <1>1, <2>2
  <2>4. state[c].thread \notin Threads
    BY <2>1, NoneIsNoName DEF NoState
  <2>5. \A d \in Calls, r \in Runs : Clears(d, r) => Clears(d, r)'
    BY <2>1 DEF Clears, OthersStay
  <2>6. QED BY <1>1, <2>1, <2>3, <2>4, <2>5, ActiveStays
<1>3. ASSUME NEW c \in Calls, Loaded(c) \/ \E r \in Runs : ResumeWorkflow(c, r)
      PROVE  ActiveRunIsLive'
  <2>1. UNCHANGED <<state, threadActive>> /\ Fresh(c) /\ OthersStay(c)
    BY <1>1, <1>3, ResumingStays DEF storeVars
  <2>2. \A d \in Calls, r \in Runs : Clears(d, r) => Clears(d, r)'
    BY <2>1 DEF Clears, OthersStay, Fresh
  <2>3. QED BY <1>1, <2>1, <2>2, ActiveStays
<1>4. CASE Environment \/ UNCHANGED vars
  <2>1. /\ UNCHANGED <<state, threadActive, heap, ref>>
        /\ \A d \in Calls : pc'[d] \in {pc[d], "crashed"}
    BY <1>1, <1>4
       DEF Environment, Crash, ExpireRequest, ListPendingInterrupts, vars,
           storeVars, runtimeVars
  <2>2. \A d \in Calls, r \in Runs : Clears(d, r) => Clears(d, r)'
    BY <2>1 DEF Clears, RunOf, Object
  <2>3. QED BY <1>1, <2>1, <2>2, ActiveStays
<1>5. QED
  BY <1>2, <1>3, <1>4, WorkKeepsActive DEF Next, Start

(* A thread never has a run that is over for its active one, but while the last *)
(* call of that run takes it off, or where the process of a call for that run   *)
(* died; and a run is never the active one of another thread: whatever runs are *)
(* started, restored and resumed on the thread meanwhile, and whatever crashes. *)
THEOREM ActiveRunsAreLive ==
  ASSUME AtomicResume, ReliableStore
  PROVE  Spec => []ActiveRunIsLive
<1>1. Init => ActiveRunIsLive
  BY DEF Init, StoreInit, ActiveRunIsLive
<1>2. Ownership /\ Chained /\ ActiveRunIsLive /\ [Next]_vars => ActiveRunIsLive'
  BY NextKeepsActive
<1>3. Chained /\ [Next]_vars => Chained'
  BY NextKeepsChained
<1>4. QED
  BY <1>1, <1>2, <1>3, InitChained, OwnershipAlways, PTL DEF Spec

-----------------------------------------------------------------------------
(* NoOrphanedRun: a version of a run is older than what is asked of the next.  *)

(* A run is given to a driver only with a new version. *)
Ages(r) ==
  \/ state'[r].epoch > state[r].epoch
  \/ state'[r].epoch = state[r].epoch /\ (Busy(r)' => Busy(r))

(* A step of one call leaves a run to its driver.                             *)
LEMMA BusyStays ==
  ASSUME NEW c \in Calls, NEW r \in Runs, OthersStay(c),
         Drives(c)' /\ pc'[c] # "pausing" /\ RunOf(c)' = r => Busy(r)
  PROVE  Busy(r)' => Busy(r)
<1> SUFFICES ASSUME NEW d \in Calls, d # c, Drives(d)', pc'[d] # "pausing",
                    RunOf(d)' = r
             PROVE  Busy(r)
  BY DEF Busy
<1>1. pc'[d] = pc[d] /\ RunOf(d)' = RunOf(d)
  BY DEF OthersStay
<1>2. QED BY <1>1 DEF Busy, Drives

(* What a call at work does.                                                  *)
LEMMA WorkAges ==
  ASSUME Ownership, ReliableStore, NEW c \in Calls, Proceed(c), ~Loaded(c),
         NEW r \in Runs
  PROVE  Ages(r)
<1>1. /\ Shape /\ WorkStep(c) /\ Working(c) /\ pc \in [Calls -> PC]
      /\ \A d \in Calls : RunOf(d)' = RunOf(d)
      /\ state \in [Runs -> RunState] /\ RunOf(c) \in Runs
  BY ProceedIsWorkStep, WorkRuns, ObjectType
     DEF Ownership, WorkStep, Shape, TypeOK, StoreTypeOK
<1>2. OthersStay(c)
  BY <1>1 DEF OthersStay, WorkStep
<1>3. ASSUME state' = state,
             Drives(c)' /\ pc'[c] # "pausing" => Drives(c) /\ pc[c] # "pausing"
      PROVE  Ages(r)
  <2>1. Drives(c)' /\ pc'[c] # "pausing" /\ RunOf(c)' = r => Busy(r)
    BY <1>1, <1>3 DEF Busy
  <2>2. QED BY <1>2, <1>3, <2>1, BusyStays DEF Ages
<1>4. CASE Bides(c)
  BY <1>3, <1>4 DEF Bides
<1>5. CASE RegisterActiveRun(c)
  BY <1>3, <1>5 DEF RegisterActiveRun, SetActiveRunId, At, Drives
<1>6. CASE ClearActiveRun(c)
  BY <1>1, <1>3, <1>6 DEF ClearActiveRun, ClearActiveRunId, Finish, Goto, Drives
<1>7. CASE PutsWell(c)
  <2>1. CASE state' = state /\ pc'[c] = "done"
    BY <1>3, <2>1 DEF Drives
  <2>2. ASSUME NEW w \in RunState, w.epoch = state[RunOf(c)].epoch + 1,
               state' = [state EXCEPT ![RunOf(c)] = w]
        PROVE  Ages(r)
    <3>1. CASE r = RunOf(c)
      <4>1. state'[r] = w /\ state[r].epoch \in Nat
        BY <1>1, <2>2, <3>1 DEF RunState
      <4>2. QED BY <2>2, <3>1, <4>1 DEF Ages
    <3>2. CASE r # RunOf(c)
      <4>1. state'[r] = state[r]
        BY <1>1, <2>2, <3>2
      <4>2. QED BY <1>1, <1>2, <3>2, <4>1, BusyStays DEF Ages
    <3>3. QED BY <3>1, <3>2
  <2>3. QED BY <1>1, <1>7, <2>1, <2>2, WellPut
<1>8. QED BY <1>4, <1>5, <1>6, <1>7, WorkPutsWell

(* Any step.                                                                  *)
LEMMA NextAges ==
  ASSUME Ownership, ReliableStore, [Next]_vars, NEW r \in Runs
  PROVE  Ages(r)
<1>1. /\ Shape /\ state \in [Runs -> RunState] /\ pc \in [Calls -> PC]
  BY DEF Ownership, Shape, TypeOK, StoreTypeOK
<1>2. ASSUME NEW c \in Calls,
             \/ \E t \in Threads : RunWorkflow(c, t)
             \/ \E k \in DOMAIN checkpoints : ResumeFromCheckpoint(c, k)
      PROVE  Ages(r)
  <2>1. /\ state[c] = NoState /\ OthersStay(c) /\ c \in Runs /\ RunOf(c)' = c
    BY <1>2, CreatingStores
  <2>2. PICK w \in RunState : w.epoch = 1 /\ state' = [state EXCEPT ![c] = w]
    BY <1>2, CreatingStores
  <2>3. CASE r = c
    BY <1>1, <2>1, <2>2, <2>3 DEF Ages, NoState
  <2>4. CASE r # c
    <3>1. state'[r] = state[r]
      BY <1>1, <2>2, <2>4
    <3>2. QED BY <2>1, <2>4, <3>1, BusyStays DEF Ages
  <2>5. QED BY <2>3, <2>4
<1>3. ASSUME NEW c \in Calls, Loaded(c) \/ \E q \in Runs : ResumeWorkflow(c, q)
      PROVE  Ages(r)
  <2>1. /\ state' = state /\ OthersStay(c)
        /\ pc'[c] \in {"loading", "granting", "rejecting", "resolving", "done"}
    BY <1>1, <1>3, ResumingStays DEF storeVars
  <2>2. ~Drives(c)'
    BY <2>1 DEF Drives
  <2>3. QED BY <2>1, <2>2, BusyStays DEF Ages
<1>4. CASE Environment \/ UNCHANGED vars
  <2>1. /\ UNCHANGED <<state, heap, ref>>
        /\ \A d \in Calls : pc'[d] = pc[d] \/ pc'[d] = "crashed"
    BY <1>4
       DEF Environment, Crash, ExpireRequest, ListPendingInterrupts, vars,
           storeVars, runtimeVars
  <2>2. Busy(r)' => Busy(r)
    BY <2>1 DEF Busy, Drives, RunOf, Object
  <2>3. QED BY <2>1, <2>2 DEF Ages
<1>5. QED
  BY <1>2, <1>3, <1>4, WorkAges DEF Next, Start

(* What is dated stays dated: versions only grow.                             *)
LEMMA DatedStays ==
  ASSUME Ownership, Shape', ReliableStore, [Next]_vars, NEW r \in Runs, NEW e \in Nat,
         Dated(r, e)
  PROVE  Dated(r, e)'
<1>1. state[r].epoch \in Nat /\ state'[r].epoch \in Nat
  BY DEF Ownership, Shape, TypeOK, StoreTypeOK, RunState
<1>2. Ages(r)
  BY NextAges
<1>3. CASE state'[r].epoch > state[r].epoch
  BY <1>1, <1>3 DEF Dated
<1>4. CASE state'[r].epoch = state[r].epoch /\ (Busy(r)' => Busy(r))
  BY <1>4 DEF Dated
<1>5. QED BY <1>2, <1>3, <1>4 DEF Ages

(* A call that looks for its object touches the objects of its own process.    *)
LEMMA ResumingObjects ==
  ASSUME Ownership, NEW c \in Calls,
         Loaded(c) \/ \E r \in Runs : ResumeWorkflow(c, r)
  PROVE  /\ MayRun(c)
         /\ \A d \in Calls \ {c} : local'[d] = local[d] /\ ref'[d] = ref[d]
         /\ \A o \in Calls : ProcOf[o] # ProcOf[c] => heap'[o] = heap[o]
         /\ \A o \in Calls :
              heap'[o].resume \in {heap[o].resume} \cup {state[r].resume : r \in Runs}
<1>1. /\ heap \in [Calls -> RunState] /\ ref \in [Calls -> Calls]
      /\ local \in [Calls -> Local]
      /\ \A p \in Procs, r \in Runs : cache[p][r] \in Calls \cup {None}
      /\ ProcOf[c] \in Procs
  BY RuntimeConstants DEF Ownership, Shape, TypeOK
<1>2. MayRun(c)
  BY DEF Loaded, ResumeWorkflow, At
<1>3. ASSUME NEW o \in Calls, ProcOf[o] = ProcOf[c], NEW l, Dispatch(c, o, l)
      PROVE  /\ \A d \in Calls \ {c} : local'[d] = local[d] /\ ref'[d] = ref[d]
             /\ \A x \in Calls : ProcOf[x] # ProcOf[c] => heap'[x] = heap[x]
             /\ \A x \in Calls : heap'[x].resume = heap[x].resume
  <2>1. /\ \A d \in Calls \ {c} : local'[d] = local[d] /\ ref'[d] = ref[d]
        /\ \/ heap' = heap
           \/ heap' = [heap EXCEPT ![o].approved = @ \cup {heap[o].approval}]
    BY <1>1, <1>3 DEF Dispatch
  <2>2. \A x \in Calls : x # o => heap'[x] = heap[x]
    BY <1>1, <2>1
  <2>3. \A x \in Calls : heap'[x].resume = heap[x].resume
    BY <1>1, <2>1 DEF RunState
  <2>4. QED BY <1>3, <2>1, <2>2, <2>3
<1>4. CASE Loaded(c)
  BY <1>2, <1>3, <1>4 DEF Loaded
<1>5. ASSUME NEW r \in Runs, NEW l, ResumeLoading(c, r, l)
      PROVE  /\ \A d \in Calls \ {c} : local'[d] = local[d] /\ ref'[d] = ref[d]
             /\ \A x \in Calls : x # c => heap'[x] = heap[x]
             /\ heap'[c].resume = state[r].resume
  BY <1>1, <1>5 DEF ResumeLoading
<1>6. ASSUME NEW r \in Runs, NEW l, ResumeCached(c, r, l)
      PROVE  /\ cache[ProcOf[c]][r] \in Calls
             /\ ProcOf[cache[ProcOf[c]][r]] = ProcOf[c]
             /\ Dispatch(c, cache[ProcOf[c]][r], l)
  BY <1>1, <1>6 DEF ResumeCached, Ownership, OwnProcess
<1>7. CASE \E r \in Runs : ResumeWorkflow(c, r)
  <2>1. PICK r \in Runs : \E l \in Payloads(r) : ResumeCached(c, r, l) \/ ResumeLoading(c, r, l)
    BY <1>7 DEF ResumeWorkflow
  <2>2. PICK l \in Payloads(r) : ResumeCached(c, r, l) \/ ResumeLoading(c, r, l)
    BY <2>1
  <2>3. CASE ResumeCached(c, r, l)
    BY <1>2, <1>3, <1>6, <2>3
  <2>4. CASE ResumeLoading(c, r, l)
    BY <1>2, <1>5, <2>4
  <2>5. QED BY <2>2, <2>3, <2>4
<1>8. QED BY <1>4, <1>7

(* What any call does, it does to the objects of its process, when it is free. *)
LEMMA StepsAtHome ==
  ASSUME Ownership, ReliableStore, NEW c \in Calls, Start(c) \/ Proceed(c)
  PROVE  /\ MayRun(c)
         /\ \A d \in Calls \ {c} : /\ pc'[d] = pc[d]
                                   /\ local'[d] = local[d]
                                   /\ ref'[d] = ref[d]
                                   /\ RunOf(d)' = RunOf(d)
         /\ \A o \in Calls : ProcOf[o] # ProcOf[c] => heap'[o] = heap[o]
<1>1. Shape /\ TypeOK
  BY DEF Ownership, Shape
<1>2. CASE Loaded(c) \/ \E r \in Runs : ResumeWorkflow(c, r)
  BY <1>1, <1>2, ResumingStays, ResumingObjects DEF OthersStay
<1>3. CASE \/ \E t \in Threads : RunWorkflow(c, t)
           \/ \E k \in DOMAIN checkpoints : ResumeFromCheckpoint(c, k)
  <2>1. OthersStay(c)
    BY <1>3, CreatingStores
  <2>2. PICK w : heap' = [heap EXCEPT ![c] = w]
    BY <1>3, CreatingStores
  <2>3. heap \in [Calls -> RunState]
    BY <1>1 DEF TypeOK
  <2>4. \A o \in Calls : o # c => heap'[o] = heap[o]
    BY <2>2, <2>3
  <2>5. MayRun(c) /\ UNCHANGED <<ref, local>>
    BY <1>3 DEF RunWorkflow, ResumeFromCheckpoint, At
  <2>6. QED BY <2>1, <2>4, <2>5 DEF OthersStay
<1>4. CASE Proceed(c) /\ ~Loaded(c)
  <2>1. WorkStep(c)
    BY <1>1, <1>4, ProceedIsWorkStep
  <2>2. \A d \in Calls : RunOf(d)' = RunOf(d)
    BY <1>1, <2>1, WorkRuns
  <2>3. ProcOf[ref[c]] = ProcOf[c]
    BY DEF Ownership, OwnProcess
  <2>4. MayRun(c)
    BY <1>4 DEF Proceed, Write, Resuming, Advancing, RegisterActiveRun, Launch,
                GrantApproval, RejectApproval, ReadRequest, DecideRequest,
                PersistResumed, Continue, LeaveLoop, CompleteRun, MissArtifact,
                RequestApproval, Execute, StepDone, StepNeedsApproval, StepFails,
                StepBadUpdate, Transit, CreateInterrupt, PersistWait, SyncRequest,
                ClearActiveRun, CanEnter, At
  <2>5. QED BY <2>1, <2>2, <2>3, <2>4 DEF WorkStep
<1>5. QED BY <1>2, <1>3, <1>4 DEF Start

(* Nobody touches the object of a call that is about to save its request.      *)
LEMMA SyncerAlone ==
  ASSUME Ownership, ReliableStore, AtomicSync, [Next]_vars,
         NEW d \in Calls, pc[d] = "syncing", pc'[d] = "syncing"
  PROVE  Object(d)' = Object(d)
<1>1. pc \in [Calls -> PC] /\ ref[d] \in Calls /\ Live(d)
  BY DEF Ownership, Shape, TypeOK, Live
<1>2. ASSUME NEW c \in Calls, Start(c) \/ Proceed(c), c # d
      PROVE  Object(d)' = Object(d)
  <2>1. ProcOf[c] # ProcOf[d]
    BY <1>1, <1>2, StepsAtHome DEF MayRun, AtomicSync
  <2>2. ProcOf[ref[d]] # ProcOf[c]
    BY <2>1 DEF Ownership, OwnProcess
  <2>3. heap'[ref[d]] = heap[ref[d]] /\ ref'[d] = ref[d]
    BY <1>1, <1>2, <2>2, StepsAtHome
  <2>4. QED BY <2>3 DEF Object
<1>3. CASE Start(d)
  BY <1>3 DEF Start, RunWorkflow, ResumeFromCheckpoint, ResumeWorkflow, At
<1>4. CASE Proceed(d)
  <2>1. SyncRequest(d)
    BY <1>4, PutLabels DEF Writing, Write, Proceed, Resuming, Advancing, RegisterActiveRun, Launch, Loaded,
                GrantApproval, RejectApproval, ReadRequest, DecideRequest,
                PersistResumed, Continue, LeaveLoop, CompleteRun, MissArtifact,
                RequestApproval, Execute, StepDone, StepNeedsApproval, StepFails,
                StepBadUpdate, Transit, CreateInterrupt, PersistWait, SyncRequest,
                ClearActiveRun, CanEnter, At
  <2>2. QED BY <1>1, <2>1 DEF SyncRequest, Finish, Goto
<1>5. CASE Environment \/ UNCHANGED vars
  BY <1>5 DEF Environment, Crash, ExpireRequest, ListPendingInterrupts, vars,
              runtimeVars, Object
<1>6. QED BY <1>2, <1>3, <1>4, <1>5 DEF Next

(* A run that a call executes is stored as pending or running.                 *)
LEMMA DriverState ==
  ASSUME Ownership, NEW d \in Calls, Drives(d)
  PROVE  /\ RunOf(d) \in Runs
         /\ Object(d).epoch = state[RunOf(d)].epoch
         /\ state[RunOf(d)].status \in {"PENDING", "RUNNING"}
<1>1. /\ Working(d) /\ Knows(d) /\ Coherent(ref[d]) /\ Object(d) = heap[ref[d]]
      /\ RunOf(d) = heap[ref[d]].run /\ RunOf(d) \in Runs
  BY DriverKnows, HolderFacts DEF Object
<1>2. /\ Object(d).epoch = state[RunOf(d)].epoch
      /\ Object(d).status \in {"PENDING", "RUNNING"}
  BY <1>1 DEF Knows, RunOf, Drives
<1>3. ASSUME NEW e \in Calls, pc[e] = "resumed", ref[e] = ref[d]
      PROVE  FALSE
  <2>1. e = d
    BY <1>3 DEF Ownership, OneHolderPerObject, Holds
  <2>2. QED BY <1>3, <2>1 DEF Drives
<1>4. QED BY <1>1, <1>2, <1>3 DEF Coherent

-----------------------------------------------------------------------------
(* What a step does to a request: it stays, at its epoch; it is saved by the   *)
(* call that let its run wait, or by the one that answers it; or it is new.    *)

Stands(r, i) ==
  /\ i \in DOMAIN requests[r]
  /\ requests'[r][i].epoch = requests[r][i].epoch
  /\ requests'[r][i].status \in {requests[r][i].status, "expired"}

Saved(c, r, i) ==
  /\ SyncRequest(c)
  /\ r = RunOf(c) /\ i = local[c].id
  /\ requests'[r][i].epoch = Object(c).epoch
  /\ requests'[r][i].status = "pending"

Answered(c, r, i) ==
  /\ DecideRequest(c)
  /\ r = RunOf(c) /\ i = local[c].id
  /\ requests'[r][i].epoch = local[c].request.epoch
  /\ requests'[r][i].status \in {"resolved", "expired"}
  /\ requests'[r][i].status = "resolved" => pc'[c] = "resumed"

Asked(c, r, i) ==
  /\ CreateInterrupt(c)
  /\ pc'[c] = "pausing"
  /\ r = RunOf(c) /\ i = Len(requests[r]) + 1 /\ local'[c].id = i
  /\ requests'[r][i].epoch = Object(c).epoch
  /\ requests'[r][i].status = "pending"

(* The requests that list_pending marks keep their epochs.                     *)
LEMMA NoticedStands ==
  ASSUME NEW q \in Request
  PROVE  Noticed(q).epoch = q.epoch /\ Noticed(q).status \in {q.status, "expired"}
BY DEF Noticed, Request

Saves(r, i, q) == requests' = [requests EXCEPT ![r][i] = q]

(* A request saved leaves the others where they are.                           *)
LEMMA SavedStands ==
  ASSUME InterruptsTypeOK, NEW r \in Runs, NEW i \in DOMAIN requests[r],
         NEW q, Saves(r, i, q),
         NEW x \in Runs, NEW j \in DOMAIN requests'[x]
  PROVE  \/ x = r /\ j = i /\ requests'[x][j] = q
         \/ Stands(x, j) /\ requests'[x][j] = requests[x][j]
<1>1. CASE x = r
  <2>1. requests'[r] = [requests[r] EXCEPT ![i] = q]
    BY DEF InterruptsTypeOK, Saves
  <2>2. QED BY <1>1, <2>1 DEF Stands
<1>2. CASE x # r
  BY <1>2 DEF InterruptsTypeOK, Saves, Stands
<1>3. QED BY <1>1, <1>2

(* Listing the pending requests of a run leaves them where they are.           *)
LEMMA ListingStands ==
  ASSUME InterruptsTypeOK, NEW r \in Runs, ListPending(r),
         NEW x \in Runs, NEW j \in DOMAIN requests'[x]
  PROVE  Stands(x, j)
<1>1. CASE x = r
  <2>1. requests'[r] = AllNoticed(requests[r]) /\ requests[r] \in Seq(Request)
    BY DEF InterruptsTypeOK, ListPending
  <2>2. j \in DOMAIN requests[r] /\ requests'[r][j] = Noticed(requests[r][j])
    BY <1>1, <2>1, AllNoticedType DEF AllNoticed
  <2>3. requests[r][j] \in Request
    BY <2>1, <2>2, ElementOfSeq, LenProperties
  <2>4. QED BY <1>1, <2>2, <2>3, NoticedStands DEF Stands
<1>2. CASE x # r
  BY <1>2 DEF InterruptsTypeOK, ListPending, Stands
<1>3. QED BY <1>1, <1>2

(* A request that is created is the newest, and at the epoch it is asked with. *)
LEMMA CreatingStands ==
  ASSUME InterruptsTypeOK, NEW r \in Runs, NEW s \in Steps, NEW e \in Nat,
         Create(r, s, e), NEW x \in Runs, NEW j \in DOMAIN requests'[x]
  PROVE  \/ Stands(x, j)
         \/ /\ x = r /\ j = Len(requests[r]) + 1
            /\ requests'[x][j].epoch = e /\ requests'[x][j].status = "pending"
<1> DEFINE q == AllNoticed(requests[r])
           new == [step |-> s, epoch |-> e, status |-> "pending", late |-> FALSE]
<1>1. CASE x = r
  <2>1. /\ requests[r] \in Seq(Request) /\ q \in Seq(Request)
        /\ Len(q) = Len(requests[r]) /\ DOMAIN q = DOMAIN requests[r]
        /\ DOMAIN q = 1 .. Len(q) /\ Len(q) \in Nat
    BY AllNoticedType, LenProperties DEF InterruptsTypeOK
  <2>2. requests'[r] = Append(q, new) /\ new \in Request
    BY DEF InterruptsTypeOK, Create, Request, RequestStatus
  <2>3. /\ Append(q, new) \in Seq(Request)
        /\ DOMAIN Append(q, new) = 1 .. Len(q) + 1
        /\ Append(q, new)[Len(q) + 1] = new
        /\ \A i \in 1 .. Len(q) : Append(q, new)[i] = q[i]
    <3>1. Append(q, new) \in Seq(Request) /\ Len(Append(q, new)) = Len(q) + 1
      BY <2>1, <2>2
    <3>2. DOMAIN Append(q, new) = 1 .. Len(q) + 1
      BY <3>1, LenProperties
    <3>3. /\ Append(q, new)[Len(q) + 1] = new
          /\ \A i \in 1 .. Len(q) : Append(q, new)[i] = q[i]
      BY <2>1, <2>2, AppendProperties
    <3>4. QED BY <3>1, <3>2, <3>3
  <2>4. CASE j = Len(q) + 1
    <3>1. requests'[x][j] = new
      BY <1>1, <2>2, <2>3, <2>4
    <3>2. QED BY <1>1, <2>1, <2>4, <3>1
  <2>5. CASE j # Len(q) + 1
    <3>1. j \in 1 .. Len(q)
      BY <1>1, <2>1, <2>2, <2>3, <2>5
    <3>2. j \in DOMAIN requests[r] /\ requests'[r][j] = Noticed(requests[r][j])
      BY <2>1, <2>2, <2>3, <3>1 DEF AllNoticed
    <3>3. requests[r][j] \in Request
      BY <2>1, <3>2, ElementOfSeq, LenProperties
    <3>4. QED BY <1>1, <3>2, <3>3, NoticedStands DEF Stands
  <2>6. QED BY <2>4, <2>5
<1>2. CASE x # r
  BY <1>2 DEF InterruptsTypeOK, Create, Stands
<1>3. QED BY <1>1, <1>2

(* Every other call leaves the requests alone.                                *)
LEMMA RequestsRest ==
  ASSUME NEW c \in Calls, Start(c) \/ Proceed(c),
         ~SyncRequest(c), ~DecideRequest(c), ~CreateInterrupt(c)
  PROVE  requests' = requests
<1>1. CASE Start(c)
  BY <1>1 DEF Start, RunWorkflow, ResumeFromCheckpoint, ResumeWorkflow, BumpEpoch,
              interruptVars
<1>2. CASE Resuming(c)
  BY <1>2 DEF Resuming, Loaded, GrantApproval, RejectApproval, ReadRequest,
              PersistResumed, Continue, BumpEpoch, interruptVars
<1>3. CASE Advancing(c)
  BY <1>3 DEF Advancing, LeaveLoop, CompleteRun, MissArtifact, RequestApproval,
              Execute, StepDone, StepNeedsApproval, StepFails, StepBadUpdate,
              Transit, PersistWait, ClearActiveRun, interruptVars
<1>4. CASE RegisterActiveRun(c) \/ Launch(c)
  BY <1>4 DEF RegisterActiveRun, Launch, interruptVars
<1>5. CASE Write(c)
  BY <1>5 DEF Write, interruptVars
<1>6. QED BY <1>1, <1>2, <1>3, <1>4, <1>5 DEF Proceed

(* The requests after a step are those of before, or the work of one call.    *)
LEMMA RequestsMove ==
  ASSUME Ownership, [Next]_vars, NEW r \in Runs, NEW i \in DOMAIN requests'[r]
  PROVE  \/ Stands(r, i)
         \/ \E c \in Calls : Saved(c, r, i) \/ Answered(c, r, i) \/ Asked(c, r, i)
<1>1. /\ Shape /\ InterruptsTypeOK /\ pc \in [Calls -> PC]
      /\ local \in [Calls -> Local]
  BY DEF Ownership, Shape, TypeOK
<1>2. CASE requests' = requests
  BY <1>2 DEF Stands
<1>3. ASSUME NEW c \in Calls, SyncRequest(c)
      PROVE  Stands(r, i) \/ Saved(c, r, i)
  <2>1. Working(c) /\ pc[c] = "syncing"
    BY <1>3, AtWork DEF SyncRequest, At
  <2>2a. PICK x \in Runs : x = RunOf(c)
    BY <1>1, <2>1, ObjectType
  <2>2. PICK j : x = RunOf(c) /\ j = local[c].id
    BY <2>2a, <1>1, <2>1, ObjectType
  <2>3. PICK q : /\ Saves(x, j, q)
                 /\ q = [requests[x][j] EXCEPT !.epoch = Object(c).epoch,
                                               !.status = "pending"]
    BY <1>3, <2>2 DEF SyncRequest, Saves
  <2>4. CASE j \in DOMAIN requests[x]
    <3>1. requests[x][j] \in Request
      BY <1>1, <2>4, ElementOfSeq, LenProperties DEF InterruptsTypeOK
    <3>2. q.epoch = Object(c).epoch /\ q.status = "pending"
      BY <2>3, <3>1 DEF Request
    <3>3. Stands(r, i) \/ (r = x /\ i = j /\ requests'[r][i] = q)
      BY <1>1, <2>3, <2>4, SavedStands
    <3>4. QED BY <1>3, <2>2, <3>2, <3>3 DEF Saved
  <2>5. CASE j \notin DOMAIN requests[x]
    <3>1. requests'[r] = requests[r]
      BY <1>1, <2>3, <2>5 DEF InterruptsTypeOK, Saves
    <3>2. QED BY <3>1 DEF Stands
  <2>6. QED BY <2>4, <2>5
<1>4. ASSUME NEW c \in Calls, DecideRequest(c)
      PROVE  Stands(r, i) \/ Answered(c, r, i)
  <2>1. Working(c) /\ pc[c] = "deciding"
    BY <1>4, AtWork DEF DecideRequest, At
  <2>2a. PICK x \in Runs : x = RunOf(c)
    BY <1>1, <2>1, ObjectType DEF Shape, LocalsAreSet
  <2>2. PICK j : x = RunOf(c) /\ j = local[c].id /\ j \in DOMAIN requests[x]
    BY <2>2a, <1>1, <2>1, ObjectType DEF Shape, LocalsAreSet
  <2>3. PICK mine : mine = [local[c].request EXCEPT !.late = requests[x][j].late]
    OBVIOUS
  <2>4. PICK q : q = Judged(mine, local[c].quote)
    OBVIOUS
  <2> DEFINE verdict == Verdict(mine, local[c].quote)
  <2>5. \/ requests' = requests
        \/ /\ Saves(x, j, q) /\ verdict \in {"resolved", "expired"}
           /\ verdict = "resolved" => pc'[c] = "resumed"
    BY <1>1, <1>4, <2>2, <2>3, <2>4 DEF DecideRequest, Saves, Goto
  <2>6. q.epoch = local[c].request.epoch
    <3>1. local[c].request \in Request \cup {NoRequest}
      BY <1>1 DEF Local
    <3>2. mine.epoch = local[c].request.epoch
      BY <2>3, <3>1 DEF Request, NoRequest
    <3>3. \A v : [mine EXCEPT !.status = v].epoch = mine.epoch
      BY <2>3, <3>1 DEF Request, NoRequest
    <3>4. QED BY <2>4, <3>2, <3>3 DEF Judged
  <2>a. verdict \in {"resolved", "expired"} => q.status = verdict
    <3>1. local[c].request \in Request \cup {NoRequest}
      BY <1>1 DEF Local
    <3>2. \A v : [mine EXCEPT !.status = v].status = v
      BY <2>3, <3>1 DEF Request, NoRequest
    <3>3. QED BY <2>4, <3>2 DEF Judged
  <2> HIDE DEF verdict
  <2>7. ASSUME Saves(x, j, q)
        PROVE  Stands(r, i) \/ (r = x /\ i = j /\ requests'[r][i] = q)
    BY <1>1, <2>2, <2>7, SavedStands
  <2>8. CASE requests' = requests
    BY <2>8 DEF Stands
  <2>9. QED BY <1>4, <2>2, <2>5, <2>6, <2>a, <2>7, <2>8 DEF Answered
<1>5. ASSUME NEW c \in Calls, CreateInterrupt(c)
      PROVE  Stands(r, i) \/ Asked(c, r, i)
  <2>1. /\ Working(c) /\ RunOf(c) \in Runs /\ pc[c] = "stepping"
        /\ local[c].at \in Steps /\ Object(c).epoch \in Nat
    BY <1>1, <1>5, AtWork, ObjectType DEF CreateInterrupt, At, Shape, LocalsAreSet, RunState
  <2>2. CASE /\ Create(RunOf(c), local[c].at, Object(c).epoch)
             /\ local' = [local EXCEPT ![c].id = Len(requests[RunOf(c)]) + 1]
             /\ Goto(c, "pausing")
    <3>1. PICK n : n = Len(requests[RunOf(c)]) + 1
      OBVIOUS
    <3>2. pc'[c] = "pausing" /\ local'[c].id = n
      BY <1>1, <2>2, <3>1 DEF Goto, Local
    <3>3. QED BY <1>5, <1>1, <2>1, <2>2, <3>1, <3>2, CreatingStands DEF Asked
  <2>3. CASE ListPending(RunOf(c))
    BY <1>1, <2>1, <2>3, ListingStands
  <2>4. QED BY <1>5, <2>2, <2>3 DEF CreateInterrupt
<1>6. CASE Environment
  <2>1. CASE \E p \in Procs : Crash(p)
    BY <1>2, <2>1 DEF Crash, interruptVars
  <2>2. ASSUME NEW x \in Runs, NEW j \in DOMAIN requests[x], ExpireRequest(x, j)
        PROVE  Stands(r, i)
    <3>1. PICK q : q = [requests[x][j] EXCEPT !.late = TRUE] /\ Saves(x, j, q)
      BY <2>2 DEF ExpireRequest, Elapse, Saves
    <3>2. requests[x][j] \in Request
      BY <1>1, ElementOfSeq, LenProperties DEF InterruptsTypeOK
    <3>3. q.epoch = requests[x][j].epoch /\ q.status = requests[x][j].status
      BY <3>1, <3>2 DEF Request
    <3>4. Stands(r, i) \/ (r = x /\ i = j /\ requests'[r][i] = q)
      BY <1>1, <3>1, SavedStands
    <3>5. QED BY <3>3, <3>4 DEF Stands
  <2>3. ASSUME NEW x \in Runs, ListPendingInterrupts(x)
        PROVE  Stands(r, i)
    BY <1>1, <2>3, ListingStands DEF ListPendingInterrupts
  <2>4. QED BY <1>6, <2>1, <2>2, <2>3 DEF Environment
<1>7. CASE UNCHANGED vars
  BY <1>2, <1>7 DEF vars, interruptVars
<1>8. QED
  BY <1>2, <1>3, <1>4, <1>5, <1>6, <1>7, RequestsRest DEF Next

-----------------------------------------------------------------------------
(* What is asked of a run is older than the version its driver works on.       *)

(* A call is about to decide only what it has just read.                       *)
LEMMA DecidingReads ==
  ASSUME Ownership, ReliableStore, NEW c \in Calls, Start(c) \/ Proceed(c),
         pc'[c] = "deciding"
  PROVE  ReadRequest(c)
<1>1. /\ Shape /\ pc \in [Calls -> PC]
  BY DEF Ownership, Shape, TypeOK
<1>2. CASE Loaded(c) \/ \E r \in Runs : ResumeWorkflow(c, r)
  BY <1>1, <1>2, ResumingStays
<1>3. CASE \/ \E t \in Threads : RunWorkflow(c, t)
           \/ \E k \in DOMAIN checkpoints : ResumeFromCheckpoint(c, k)
  BY <1>3, CreatingStores
<1>4. CASE Proceed(c) /\ ~Loaded(c)
  <2>1. WorkStep(c) /\ Working(c)
    BY <1>1, <1>4, ProceedIsWorkStep DEF WorkStep
  <2>2. CASE PutsWell(c)
    BY <2>1, <2>2, WellPut DEF Suits, DrivingLabels
  <2>3. CASE RegisterActiveRun(c) \/ ClearActiveRun(c)
    BY <1>1, <2>3 DEF RegisterActiveRun, ClearActiveRun, Finish, Goto
  <2>4. QED BY <1>4, <2>2, <2>3, WorkPutsWell DEF Bides
<1>5. QED BY <1>2, <1>3, <1>4 DEF Start

(* A call is about to save its request only after the put of the wait.         *)
LEMMA SyncingWaits ==
  ASSUME Ownership, ReliableStore, NEW c \in Calls, Start(c) \/ Proceed(c),
         pc'[c] = "syncing"
  PROVE  Object(c)'.status = "WAITING_INTERRUPT"
<1>1. /\ Shape /\ pc \in [Calls -> PC]
  BY DEF Ownership, Shape, TypeOK
<1>2. CASE Loaded(c) \/ \E r \in Runs : ResumeWorkflow(c, r)
  BY <1>1, <1>2, ResumingStays
<1>3. CASE \/ \E t \in Threads : RunWorkflow(c, t)
           \/ \E k \in DOMAIN checkpoints : ResumeFromCheckpoint(c, k)
  BY <1>3, CreatingStores
<1>4. CASE Proceed(c) /\ ~Loaded(c)
  <2>1. WorkStep(c) /\ Working(c) /\ ref' = ref
    BY <1>1, <1>4, ProceedIsWorkStep DEF WorkStep
  <2>2. CASE PutsWell(c)
    BY <2>1, <2>2, WellPut DEF Suits, Object
  <2>3. CASE RegisterActiveRun(c) \/ ClearActiveRun(c)
    BY <1>1, <2>3 DEF RegisterActiveRun, ClearActiveRun, Finish, Goto
  <2>4. QED BY <1>4, <2>2, <2>3, WorkPutsWell DEF Bides
<1>5. QED BY <1>2, <1>3, <1>4 DEF Start

(* A request that is saved once more belongs to a run that waits, or to an     *)
(* earlier version of one that goes on.                                     *)
LEMMA SavedIsDated ==
  ASSUME Ownership, NEW c \in Calls, pc[c] = "syncing",
         Object(c).status = "WAITING_INTERRUPT"
  PROVE  Dated(RunOf(c), Object(c).epoch)
<1>1. /\ Coherent(ref[c]) /\ RunOf(c) = heap[ref[c]].run /\ Object(c) = heap[ref[c]]
      /\ Object(c).epoch \in Nat /\ state[RunOf(c)].epoch \in Nat
  BY HolderFacts DEF Working, Live, Fresh, Object, RunState
<1>2. Object(c).epoch <= state[RunOf(c)].epoch
  BY <1>1 DEF Coherent
<1>3. ASSUME NEW d \in Calls, Drives(d), RunOf(d) = RunOf(c),
             Object(c).epoch = state[RunOf(c)].epoch
      PROVE  FALSE
  <2>1. state[RunOf(c)].status \in {"PENDING", "RUNNING"}
    BY <1>3, DriverState
  <2>2. QED BY <1>1, <1>3, <2>1 DEF Coherent
<1>4. QED BY <1>1, <1>2, <1>3 DEF Dated, Busy

(* The requests of every run.                                                 *)
LEMMA RequestsStayDated ==
  ASSUME Ownership, Shape', ReliableStore, RequestsAreDated, [Next]_vars,
         NEW r \in Runs, NEW i \in DOMAIN requests'[r]
  PROVE  \E e \in Nat : e = requests'[r][i].epoch /\ Dated(r, e)'
<1>1. /\ Shape /\ TypeOK /\ InterruptsTypeOK /\ pc \in [Calls -> PC]
      /\ local \in [Calls -> Local]
  BY DEF Ownership, Shape, TypeOK
<1>2. ASSUME NEW e \in Nat, Dated(r, e)
      PROVE  Dated(r, e)'
  BY <1>2, DatedStays
<1>3. CASE Stands(r, i)
  <2>1. requests[r][i] \in Request /\ i \in DOMAIN requests[r]
    BY <1>1, <1>3, ElementOfSeq, LenProperties DEF InterruptsTypeOK, Stands
  <2>2. PICK e \in Nat : e = requests[r][i].epoch
    BY <2>1 DEF Request
  <2>3. Dated(r, e)
    BY <2>1, <2>2 DEF RequestsAreDated
  <2>4. QED BY <1>2, <1>3, <2>2, <2>3 DEF Stands
<1>4. ASSUME NEW c \in Calls, Saved(c, r, i)
      PROVE  \E e \in Nat : e = requests'[r][i].epoch /\ Dated(r, e)'
  <2>1. pc[c] = "syncing" /\ r = RunOf(c)
    BY <1>4 DEF Saved, SyncRequest, At
  <2>2. Object(c) \in RunState
    BY <1>1, <2>1, ObjectType DEF Working, Live, Fresh
  <2>3. PICK e \in Nat : e = Object(c).epoch
    BY <2>2 DEF RunState
  <2>4. Dated(r, e)
    BY <2>1, <2>3, SavedIsDated DEF RequestsAreDated
  <2>5. QED BY <1>2, <1>4, <2>3, <2>4 DEF Saved
<1>5. ASSUME NEW c \in Calls, Answered(c, r, i)
      PROVE  \E e \in Nat : e = requests'[r][i].epoch /\ Dated(r, e)'
  <2>1. local[c].request \in Request \cup {NoRequest}
    BY <1>1 DEF Local
  <2>2. PICK e \in Nat : e = local[c].request.epoch
    BY <2>1 DEF Request, NoRequest
  <2>3. Dated(r, e)
    BY <1>5, <2>2 DEF Answered, DecideRequest, At, RequestsAreDated
  <2>4. QED BY <1>2, <1>5, <2>2, <2>3 DEF Answered
<1>6. ASSUME NEW c \in Calls, Asked(c, r, i)
      PROVE  \E e \in Nat : e = requests'[r][i].epoch /\ Dated(r, e)'
  <2>1. /\ CreateInterrupt(c) /\ Drives(c) /\ r = RunOf(c)
        /\ pc'[c] = "pausing" /\ state' = state
    BY <1>6 DEF Asked, CreateInterrupt, At, Drives, storeVars
  <2>2. Object(c).epoch = state[r].epoch /\ state[r].epoch \in Nat
    BY <1>1, <2>1, DriverState DEF TypeOK, StoreTypeOK, RunState
  <2>3. PICK e \in Nat : e = Object(c).epoch
    BY <2>2
  <2>4. Proceed(c)
    BY <2>1 DEF Proceed, Advancing
  <2>5. ~Busy(r)'
    <3>1. SUFFICES ASSUME NEW d \in Calls, Drives(d)', pc'[d] # "pausing",
                          RunOf(d)' = r
                   PROVE  FALSE
      BY DEF Busy
    <3>2. d # c
      BY <2>1, <3>1
    <3>3. pc'[d] = pc[d] /\ RunOf(d)' = RunOf(d)
      BY <2>4, <3>2, StepsAtHome
    <3>4. Drives(d) /\ RunOf(d) = RunOf(c)
      BY <2>1, <3>1, <3>3 DEF Drives
    <3>5. QED BY <2>1, <3>2, <3>4 DEF Ownership, SingleDriver
  <2>6. Dated(r, e)'
    BY <2>1, <2>2, <2>3, <2>5 DEF Dated
  <2>7. QED BY <1>6, <2>3, <2>6 DEF Asked
<1>7. QED BY <1>3, <1>4, <1>5, <1>6, RequestsMove

(* Any step.                                                                  *)
LEMMA NextKeepsDated ==
  ASSUME Ownership, Shape', ReliableStore, AtomicSync, RequestsAreDated, [Next]_vars
  PROVE  RequestsAreDated'
<1>1. /\ Shape /\ TypeOK /\ InterruptsTypeOK /\ pc \in [Calls -> PC]
      /\ local \in [Calls -> Local]
  BY DEF Ownership, Shape, TypeOK
<1>2. \A r \in Runs : \A i \in DOMAIN requests'[r] : Dated(r, requests[r][i].epoch)'
  BY RequestsStayDated
<1>3. ASSUME NEW d \in Calls,
             \A c \in Calls : Start(c) \/ Proceed(c) => c # d
      PROVE  /\ pc'[d] = "deciding" => /\ pc[d] = "deciding"
                                       /\ local'[d] = local[d]
                                       /\ RunOf(d)' = RunOf(d)
             /\ pc'[d] = "syncing" => pc[d] = "syncing"
  <2>1. CASE \E c \in Calls : Start(c) \/ Proceed(c)
    BY <1>3, <2>1, StepsAtHome
  <2>2. CASE Environment \/ UNCHANGED vars
    BY <1>1, <2>2 DEF Environment, Crash, ExpireRequest, ListPendingInterrupts, vars,
                      runtimeVars, RunOf, Object
  <2>3. QED BY <2>1, <2>2 DEF Next
<1>4. ASSUME NEW d \in Calls, pc'[d] = "deciding"
      PROVE  Dated(RunOf(d), local[d].request.epoch)'
  <2>1. CASE Start(d) \/ Proceed(d)
    <3>1. ReadRequest(d)
      BY <1>4, <2>1, DecidingReads
    <3>2. /\ Working(d) /\ pc[d] = "resolving"
      BY <3>1, AtWork DEF ReadRequest, At
    <3>3a. PICK r \in Runs : r = RunOf(d)
      BY <1>1, <3>2, ObjectType DEF Shape, LocalsAreSet
    <3>3. PICK i : r = RunOf(d) /\ i = local[d].id /\ i \in DOMAIN requests[r]
      BY <3>3a, <1>1, <3>2, ObjectType DEF Shape, LocalsAreSet
    <3>4. /\ local'[d].request = requests[r][i] /\ requests' = requests
          /\ RunOf(d)' = r
      BY <1>1, <3>1, <3>3 DEF ReadRequest, RunOf, Object, interruptVars, Local
    <3>5. Dated(r, requests[r][i].epoch)'
      BY <1>2, <3>3, <3>4
    <3>6. QED BY <3>4, <3>5 DEF Dated, Busy
  <2>2. CASE ~(Start(d) \/ Proceed(d))
    <3>1. /\ pc[d] = "deciding" /\ local'[d] = local[d] /\ RunOf(d)' = RunOf(d)
      BY <1>3, <1>4, <2>2
    <3>2. PICK r \in Runs : r = RunOf(d)
      BY <1>1, <3>1, ObjectType DEF Working, Live, Fresh
    <3>3. PICK e \in Nat : e = local[d].request.epoch
      BY <1>1 DEF Local, Request, NoRequest
    <3>4. Dated(r, e)'
      BY <3>1, <3>2, <3>3, DatedStays DEF RequestsAreDated
    <3>5. QED BY <3>1, <3>2, <3>3, <3>4 DEF Dated, Busy
  <2>3. QED BY <2>1, <2>2
<1>5. ASSUME NEW d \in Calls, pc'[d] = "syncing"
      PROVE  Object(d)'.status = "WAITING_INTERRUPT"
  <2>1. CASE Start(d) \/ Proceed(d)
    BY <1>5, <2>1, SyncingWaits
  <2>2. CASE ~(Start(d) \/ Proceed(d))
    BY <1>3, <1>5, <2>2, SyncerAlone DEF RequestsAreDated
  <2>3. QED BY <2>1, <2>2
<1>6. QED BY <1>2, <1>4, <1>5 DEF RequestsAreDated

-----------------------------------------------------------------------------
(* A run is only to move on from a step that may interrupt it.                 *)

(* Where persisting a snapshot takes a call.                                  *)
LEMMA PersistGoes ==
  ASSUME pc \in [Calls -> PC], AtomicPut, NEW c \in Calls, NEW o, NEW s,
         NEW label \in DOMAIN InPut, Persist(c, o, s, label)
  PROVE  pc'[c] \in {label, "done"}
BY PutsAtOnce DEF Persist, Goto, Finish

(* A call comes to a step it has recorded by recording it, and to a request by *)
(* creating it.                                                             *)
LEMMA AskingFollows ==
  ASSUME Ownership, ReliableStore, NEW c \in Calls, Start(c) \/ Proceed(c),
         pc'[c] \in {"stepping", "pausing"}
  PROVE  \/ StepDone(c) /\ pc'[c] = "stepping"
         \/ CreateInterrupt(c) /\ local[c].pauses
<1>1. /\ Shape /\ pc \in [Calls -> PC] /\ AtomicPut
      /\ \A label \in {"registering", "advancing", "continuing", "clearing",
                       "syncing", "done", "stepping"} : label \in DOMAIN InPut
  BY PutLabels DEF Ownership, Shape, TypeOK, ReliableStore
<1>2. CASE Loaded(c) \/ \E r \in Runs : ResumeWorkflow(c, r)
  BY <1>1, <1>2, ResumingStays
<1>3. CASE \/ \E t \in Threads : RunWorkflow(c, t)
           \/ \E k \in DOMAIN checkpoints : ResumeFromCheckpoint(c, k)
  BY <1>3, CreatingStores
<1>4. ASSUME NEW s, NEW next, Move(c, s, next)
      PROVE  pc'[c] \in {"clearing", "advancing", "done"}
  BY <1>1, <1>4, PersistGoes DEF Move
<1>5. CASE RegisterActiveRun(c) \/ Launch(c)
  <2>1. pc'[c] \in {"launching", "advancing", "done"}
    BY <1>1, <1>5, PersistGoes DEF RegisterActiveRun, Launch, Goto
  <2>2. QED BY <2>1
<1>6. CASE Resuming(c) /\ ~Loaded(c)
  <2>1. pc'[c] \in {"advancing", "clearing", "continuing", "deciding", "resumed", "done"}
    BY <1>1, <1>4, <1>6, PersistGoes
       DEF Resuming, GrantApproval, RejectApproval, ReadRequest, DecideRequest,
           PersistResumed, Continue, Goto, Finish
  <2>2. QED BY <2>1
<1>7. CASE LeaveLoop(c) \/ CompleteRun(c) \/ MissArtifact(c) \/ RequestApproval(c)
           \/ Execute(c)
  <2>1. pc'[c] \in {"clearing", "executing", "done"}
    BY <1>1, <1>7, PersistGoes
       DEF LeaveLoop, CompleteRun, MissArtifact, RequestApproval, Execute, Goto, Finish
  <2>2. QED BY <2>1
<1>8. CASE StepNeedsApproval(c) \/ StepFails(c) \/ StepBadUpdate(c) \/ Transit(c)
  <2>1. pc'[c] \in {"clearing", "advancing", "done"}
    BY <1>1, <1>4, <1>8, PersistGoes
       DEF StepNeedsApproval, StepFails, Fail, StepBadUpdate, Transit, Finish, Goto
  <2>2. QED BY <2>1
<1>9. CASE PersistWait(c) \/ SyncRequest(c) \/ ClearActiveRun(c)
  <2>1. pc'[c] \in {"syncing", "done"}
    BY <1>1, <1>9, PersistGoes DEF PersistWait, SyncRequest, ClearActiveRun, Finish, Goto
  <2>2. QED BY <2>1
<1>10. CASE StepDone(c)
  <2>1. pc'[c] \in {"stepping", "done"}
    BY <1>1, <1>10, PersistGoes DEF StepDone
  <2>2. QED BY <1>10, <2>1
<1>11. CASE CreateInterrupt(c)
  BY <1>11 DEF CreateInterrupt
<1>12. ~Write(c)
  BY <1>1, PutsAtOnce
<1>13. QED
  BY <1>2, <1>3, <1>5, <1>6, <1>7, <1>8, <1>9, <1>10, <1>11, <1>12
     DEF Start, Proceed, Advancing

(* A step that is not to interrupt its run never comes to ask.                 *)
LEMMA OnlyAskersAsk ==
  ASSUME Ownership, Shape', ReliableStore, MovesAreLegal, [Next]_vars, NEW d \in Calls,
         pc'[d] = "pausing" \/ (pc'[d] = "stepping" /\ local'[d].pauses)
  PROVE  "interrupt" \in Outcomes[local'[d].at]
<1>1. /\ pc \in [Calls -> PC] /\ local \in [Calls -> Local]
  BY DEF Ownership, Shape, TypeOK
<1>2. CASE StepDone(d) /\ pc'[d] = "stepping"
  <2>1. PICK pauses \in BOOLEAN :
          /\ (IF pauses THEN "interrupt" ELSE "next") \in Outcomes[local[d].at]
          /\ local' = [local EXCEPT ![d].pauses = pauses]
    BY <1>2 DEF StepDone
  <2>2. local'[d].pauses = pauses /\ local'[d].at = local[d].at
    BY <1>1, <2>1 DEF Local
  <2>3. QED BY <1>2, <2>1, <2>2
<1>3. CASE CreateInterrupt(d) /\ local[d].pauses
  <2>1. pc[d] = "stepping" /\ local'[d].at = local[d].at
    BY <1>1, <1>3 DEF CreateInterrupt, At, Local
  <2>2. QED BY <1>3, <2>1 DEF MovesAreLegal
<1>4. CASE pc'[d] = pc[d] /\ local'[d] = local[d]
  BY <1>4 DEF MovesAreLegal
<1>5. CASE Start(d) \/ Proceed(d)
  BY <1>2, <1>3, <1>5, AskingFollows
<1>6. ASSUME NEW c \in Calls, c # d, Start(c) \/ Proceed(c)
      PROVE  pc'[d] = pc[d] /\ local'[d] = local[d]
  BY <1>6, StepsAtHome
<1>7. CASE Environment \/ UNCHANGED vars
  <2>1. pc'[d] = pc[d] /\ local'[d] = local[d]
    BY <1>1, <1>7 DEF Environment, Crash, ExpireRequest, ListPendingInterrupts, vars,
                      runtimeVars
  <2>2. QED BY <1>4, <2>1
<1>8. QED BY <1>4, <1>5, <1>6, <1>7 DEF Next

(* An object moves on from where it was to, from the step that has just asked,  *)
(* from nowhere, or from where what it was copied from was to.                *)
LEMMA NextKeepsMoves ==
  ASSUME Ownership, Shape', ReliableStore, NothingRaises, MovesAreLegal, [Next]_vars
  PROVE  MovesAreLegal'
<1>1. /\ Shape /\ TypeOK /\ heap \in [Calls -> RunState]
      /\ state \in [Runs -> RunState]
      /\ None \notin Illegal
  BY RuntimeConstants, NoneIsNoName DEF Ownership, Shape, TypeOK, StoreTypeOK
<1> DEFINE Legal == /\ \A o \in Calls : heap'[o].resume \notin Illegal
                    /\ \A r \in Runs : state'[r].resume \notin Illegal
<1>2. ASSUME NEW c \in Calls,
             \/ \E t \in Threads : RunWorkflow(c, t)
             \/ \E k \in DOMAIN checkpoints : ResumeFromCheckpoint(c, k)
      PROVE  Legal
  <2>1. c \in Runs
    BY <1>2, CreatingStores
  <2>2. PICK w : /\ w.resume = None /\ state' = [state EXCEPT ![c] = w]
                 /\ heap' = [heap EXCEPT ![c] = w]
    BY <1>2, CreatingStores
  <2>3. /\ \A o \in Calls : heap'[o] = w \/ heap'[o] = heap[o]
        /\ \A r \in Runs : state'[r] = w \/ state'[r] = state[r]
    BY <1>1, <2>1, <2>2
  <2>4. QED BY <1>1, <2>2, <2>3 DEF MovesAreLegal
<1>3. ASSUME NEW c \in Calls, Loaded(c) \/ \E r \in Runs : ResumeWorkflow(c, r)
      PROVE  Legal
  <2>1. state' = state
    BY <1>1, <1>3, ResumingStays DEF storeVars
  <2>2. \A o \in Calls :
          heap'[o].resume \in {heap[o].resume} \cup {state[r].resume : r \in Runs}
    BY <1>3, ResumingObjects
  <2>3. QED BY <2>1, <2>2 DEF MovesAreLegal
<1>4. ASSUME NEW c \in Calls, Proceed(c), ~Loaded(c)
      PROVE  Legal
  <2>1. WorkStep(c) /\ Working(c) /\ RunOf(c) \in Runs
        /\ \A o \in Calls : o # ref[c] => heap'[o] = heap[o]
    BY <1>1, <1>4, ProceedIsWorkStep, ObjectType DEF WorkStep
  <2>2. \A x : MovesFrom(c, x) => x \notin Illegal
    <3>1. Object(c).resume \notin Illegal
      BY <2>1, HolderFacts DEF MovesAreLegal, Object
    <3>2. pc[c] = "pausing" => local[c].at \notin Illegal
      <4>1. pc[c] = "pausing" => local[c].at \in Steps
        BY <1>1 DEF Shape, LocalsAreSet
      <4>2. QED BY <4>1 DEF MovesAreLegal, NothingRaises
    <3>3. QED BY <1>1, <3>1, <3>2 DEF MovesFrom
  <2>3. CASE PutsWell(c)
    <3>1. heap'[ref[c]].resume \notin Illegal
      BY <2>1, <2>2, <2>3, WellPut
    <3>2. \A o \in Calls : heap'[o].resume \notin Illegal
      BY <2>1, <3>1 DEF MovesAreLegal
    <3>3. \A r \in Runs : state'[r].resume \notin Illegal
      <4>1. CASE state' = state
        BY <4>1 DEF MovesAreLegal
      <4>2. ASSUME NEW w, MovesFrom(c, w.resume), state' = [state EXCEPT ![RunOf(c)] = w]
            PROVE  \A r \in Runs : state'[r].resume \notin Illegal
        <5>1. w.resume \notin Illegal
          BY <2>2, <4>2
        <5>2. \A r \in Runs : state'[r] = w \/ state'[r] = state[r]
          BY <1>1, <4>2
        <5>3. QED BY <5>1, <5>2 DEF MovesAreLegal
      <4>3. QED BY <2>1, <2>3, <4>1, <4>2, WellPut
    <3>4. QED BY <3>2, <3>3
  <2>4. CASE Bides(c)
    BY <1>1, <2>4 DEF Bides, MovesAreLegal
  <2>5. CASE RegisterActiveRun(c) \/ ClearActiveRun(c)
    BY <2>5 DEF RegisterActiveRun, ClearActiveRun, SetActiveRunId, ClearActiveRunId,
                MovesAreLegal
  <2>6. QED BY <1>4, <2>3, <2>4, <2>5, WorkPutsWell
<1>5. ASSUME Environment \/ UNCHANGED vars
      PROVE  Legal
  BY <1>5 DEF Environment, Crash, ExpireRequest, ListPendingInterrupts, vars,
              runtimeVars, storeVars, MovesAreLegal
<1>6. Legal
  <2> HIDE DEF Legal
  <2>1. ASSUME NEW c \in Calls, Start(c) \/ Proceed(c)
        PROVE  Legal
    BY <1>2, <1>3, <1>4, <2>1 DEF Start
  <2>2. QED BY <1>5, <2>1 DEF Next
<1>7. \A d \in Calls :
        pc'[d] = "pausing" \/ (pc'[d] = "stepping" /\ local'[d].pauses) =>
          "interrupt" \in Outcomes[local'[d].at]
  BY OnlyAskersAsk
<1>8. QED BY <1>6, <1>7 DEF MovesAreLegal

-----------------------------------------------------------------------------
(* Whoever drives a run goes on until it is over or waits.                     *)

Driver(r) == \E c \in Calls : Drives(c) /\ RunOf(c) = r

(* Nothing raises out of a call that drives a run.                            *)
LEMMA NobodyRaises ==
  ASSUME Ownership, NothingRaises, RequestsAreDated, MovesAreLegal,
         NEW c \in Calls, Raises(c)
  PROVE  FALSE
<1>1. /\ Shape /\ TypeOK /\ MaxPending \in Nat
  BY RuntimeConstants DEF Ownership, Shape
<1>2. CASE MissArtifact(c)
  <2>1. Working(c) /\ Object(c) \in RunState
    BY <1>1, <1>2, AtWork, ObjectType DEF MissArtifact, CanEnter
  <2>2. Object(c).step \in Steps
    BY <1>2, <2>1 DEF MissArtifact, CanEnter, RunState
  <2>3. QED BY <1>2, <2>2 DEF MissArtifact, NothingRaises
<1>3. CASE StepBadUpdate(c)
  <2>1. local[c].at \in Steps
    BY <1>1, <1>3 DEF StepBadUpdate, At, Shape, LocalsAreSet
  <2>2. QED BY <1>3, <2>1 DEF StepBadUpdate, NothingRaises
<1>4. CASE CreateInterrupt(c) /\ ~HasRoom(RunOf(c), Object(c).epoch, MaxPending)
  <2>1. /\ Drives(c) /\ pc[c] = "stepping" /\ local[c].pauses
    BY <1>4 DEF CreateInterrupt, At, Drives
  <2>2. local[c].at \in Steps /\ "interrupt" \in Outcomes[local[c].at]
    BY <1>1, <2>1 DEF Shape, LocalsAreSet, MovesAreLegal
  <2>3. MaxPending > 0
    BY <2>2 DEF NothingRaises
  <2>4a. PICK r \in Runs : r = RunOf(c)
    BY <2>1, DriverState DEF Busy
  <2>4. PICK e : /\ r = RunOf(c) /\ e = Object(c).epoch
                 /\ e = state[r].epoch /\ Busy(r)
    BY <2>4a, <2>1, DriverState DEF Busy
  <2>5. e \in Nat /\ e # None
    BY <1>1, <2>4, NoneIsNoNumber DEF TypeOK, StoreTypeOK, RunState
  <2>6. ASSUME NEW i \in DOMAIN requests[r], requests[r][i].epoch = e
        PROVE  FALSE
    <3>1. Dated(r, requests[r][i].epoch)
      BY DEF RequestsAreDated
    <3>2. QED BY <2>4, <2>5, <2>6, <3>1 DEF Dated
  <2>7. PendingAt(r, e) = {}
    BY <2>5, <2>6 DEF PendingAt
  <2>8. Cardinality(PendingAt(r, e)) = 0
    BY <2>7, FS_EmptySet
  <2>9. QED BY <1>1, <1>4, <2>3, <2>4, <2>8 DEF HasRoom
<1>5. CASE Continue(c) /\ Object(c).resume \in Illegal
  <2>1. ref[c] \in Calls
    BY <1>1 DEF TypeOK
  <2>2. QED BY <1>5, <2>1 DEF MovesAreLegal, Object
<1>6. QED BY <1>2, <1>3, <1>4, <1>5 DEF Raises

(* A call at work drives its run on, gives it up to nobody else, or stores it   *)
(* as one that waits or is over.                                            *)
LEMMA WorkIsDriven ==
  ASSUME Ownership, ReliableStore, NothingRaises, RequestsAreDated, MovesAreLegal,
         NEW c \in Calls, Proceed(c), ~Loaded(c), NEW r \in Runs,
         state'[r].status \in {"PENDING", "RUNNING"}
  PROVE  /\ state[r].status \in {"PENDING", "RUNNING"} \/ Driver(r)'
         /\ Driver(r) => Driver(r)'
<1>1. /\ Shape /\ WorkStep(c) /\ Working(c) /\ pc \in [Calls -> PC]
      /\ \A d \in Calls : RunOf(d)' = RunOf(d)
      /\ state \in [Runs -> RunState] /\ RunOf(c) \in Runs
  BY ProceedIsWorkStep, WorkRuns, ObjectType
     DEF Ownership, WorkStep, Shape, TypeOK, StoreTypeOK
<1>2. ASSUME NEW d \in Calls, d # c, Drives(d), RunOf(d) = r
      PROVE  Driver(r)'
  <2>1. pc'[d] = pc[d] /\ RunOf(d)' = r
    BY <1>1, <1>2 DEF WorkStep
  <2>2. QED BY <1>2, <2>1 DEF Driver, Drives
<1>3. ASSUME Drives(c)', RunOf(c) = r
      PROVE  Driver(r)'
  BY <1>1, <1>3 DEF Driver
<1>4. ASSUME state' = state, Drives(c) => Drives(c)'
      PROVE  /\ state[r].status \in {"PENDING", "RUNNING"}
             /\ Driver(r) => Driver(r)'
  BY <1>2, <1>3, <1>4 DEF Driver
<1>5. CASE Bides(c)
  BY <1>4, <1>5, NobodyRaises DEF Bides
<1>6. CASE RegisterActiveRun(c)
  <2>1. Drives(c)' /\ state' = state
    BY <1>1, <1>6 DEF RegisterActiveRun, SetActiveRunId, Goto, Drives
  <2>2. QED BY <1>4, <2>1
<1>7. CASE ClearActiveRun(c)
  <2>1. ~Drives(c) /\ state' = state
    BY <1>7 DEF ClearActiveRun, ClearActiveRunId, At, Drives
  <2>2. QED BY <1>4, <2>1
<1>8. CASE PutsWell(c)
  <2>1. CASE state' = state /\ ~Drives(c)
    BY <1>4, <2>1
  <2>2. ASSUME NEW w, state' = [state EXCEPT ![RunOf(c)] = w], Suits(w, pc'[c])
        PROVE  /\ state[r].status \in {"PENDING", "RUNNING"} \/ Driver(r)'
               /\ Driver(r) => Driver(r)'
    <3>1. CASE r = RunOf(c)
      <4>1. state'[r] = w
        BY <1>1, <2>2, <3>1
      <4>2. Drives(c)'
        BY <2>2, <4>1 DEF Suits, DrivingLabels, Drives
      <4>3. QED BY <1>3, <3>1, <4>2
    <3>2. CASE r # RunOf(c)
      <4>1. state'[r] = state[r]
        BY <1>1, <2>2, <3>2
      <4>2. QED BY <1>2, <3>2, <4>1 DEF Driver
    <3>3. QED BY <3>1, <3>2
  <2>3. QED BY <1>1, <1>8, <2>1, <2>2, WellPut
<1>9. QED BY <1>5, <1>6, <1>7, <1>8, WorkPutsWell

(* A call that died still names its run.                                       *)
LEMMA AbandonedStays ==
  ASSUME Ownership, ReliableStore, [Next]_vars, NEW r \in Runs, Abandoned(r)
  PROVE  Abandoned(r)'
<1>1. PICK d \in Calls : pc[d] = "crashed" /\ RunOf(d) = r
  BY DEF Abandoned
<1>2. ASSUME NEW c \in Calls, Start(c) \/ Proceed(c)
      PROVE  pc'[d] = "crashed" /\ RunOf(d)' = r
  <2>1. c # d
    BY <1>1, <1>2, PutLabels
       DEF Writing, Write, Start, RunWorkflow, ResumeFromCheckpoint, ResumeWorkflow, Proceed,
           Resuming, Advancing, RegisterActiveRun, Launch, Loaded, GrantApproval,
           RejectApproval, ReadRequest, DecideRequest, PersistResumed, Continue,
           LeaveLoop, CompleteRun, MissArtifact, RequestApproval, Execute, StepDone,
           StepNeedsApproval, StepFails, StepBadUpdate, Transit, CreateInterrupt,
           PersistWait, SyncRequest, ClearActiveRun, CanEnter, At
  <2>2. QED BY <1>1, <1>2, <2>1, StepsAtHome
<1>3. CASE Environment \/ UNCHANGED vars
  <2>1. pc'[d] = "crashed" /\ RunOf(d)' = r
    BY <1>1, <1>3 DEF Environment, Crash, ExpireRequest, ListPendingInterrupts, vars,
                      runtimeVars, RunOf, Object, Live
  <2>2. QED BY <2>1 DEF Abandoned
<1>4. QED BY <1>2, <1>3 DEF Next, Abandoned

(* Any step: a run that goes on keeps its driver.                             *)
LEMMA NextKeepsDrivers ==
  ASSUME Ownership, ReliableStore, NothingRaises, RequestsAreDated, MovesAreLegal,
         NoOrphanedRun, [Next]_vars
  PROVE  NoOrphanedRun'
<1>1. /\ Shape /\ pc \in [Calls -> PC] /\ state \in [Runs -> RunState]
  BY DEF Ownership, Shape, TypeOK, StoreTypeOK
<1> SUFFICES ASSUME NEW r \in Runs, state'[r].status \in {"PENDING", "RUNNING"},
                    ~Abandoned(r)
             PROVE  Abandoned(r)' \/ Driver(r)'
  BY AbandonedStays DEF NoOrphanedRun, Driver
<1>2. state[r].status \in {"PENDING", "RUNNING"} => Driver(r)
  BY DEF NoOrphanedRun, Driver
<1>3. ASSUME NEW c \in Calls,
             \/ \E t \in Threads : RunWorkflow(c, t)
             \/ \E k \in DOMAIN checkpoints : ResumeFromCheckpoint(c, k)
      PROVE  Driver(r)'
  <2>1. /\ pc[c] = "idle" /\ OthersStay(c) /\ pc'[c] = "registering" /\ RunOf(c)' = c
    BY <1>3, CreatingStores
  <2>2. PICK w : state' = [state EXCEPT ![c] = w]
    BY <1>3, CreatingStores
  <2>3. CASE r = c
    BY <2>1, <2>3 DEF Driver, Drives
  <2>4. CASE r # c
    <3>1. state'[r] = state[r]
      BY <1>1, <2>2, <2>4
    <3>2. PICK d \in Calls : Drives(d) /\ RunOf(d) = r
      BY <1>2, <3>1 DEF Driver
    <3>3. d # c
      BY <2>1, <3>2 DEF Drives
    <3>4. QED BY <2>1, <3>2, <3>3 DEF OthersStay, Driver, Drives
  <2>5. QED BY <2>3, <2>4
<1>4. ASSUME NEW c \in Calls, Loaded(c) \/ \E q \in Runs : ResumeWorkflow(c, q)
      PROVE  Driver(r)'
  <2>1. state' = state /\ Fresh(c) /\ OthersStay(c)
    BY <1>1, <1>4, ResumingStays DEF storeVars
  <2>2. PICK d \in Calls : Drives(d) /\ RunOf(d) = r
    BY <1>2, <2>1 DEF Driver
  <2>3. d # c
    BY <2>1, <2>2 DEF Drives, Fresh
  <2>4. QED BY <2>1, <2>2, <2>3 DEF OthersStay, Driver, Drives
<1>5. ASSUME NEW c \in Calls, Proceed(c), ~Loaded(c)
      PROVE  Driver(r)'
  BY <1>2, <1>5, WorkIsDriven
<1>6. CASE Environment \/ UNCHANGED vars
  <2>1. /\ state' = state
        /\ \A d \in Calls : /\ pc'[d] \in {pc[d], "crashed"}
                            /\ RunOf(d)' = RunOf(d)
    BY <1>1, <1>6
       DEF Environment, Crash, ExpireRequest, ListPendingInterrupts, vars, storeVars,
           runtimeVars, RunOf, Object
  <2>2. PICK d \in Calls : Drives(d) /\ RunOf(d) = r
    BY <1>2, <2>1 DEF Driver
  <2>3. QED BY <2>1, <2>2 DEF Abandoned, Driver, Drives
<1>7. QED
  <2>1. ASSUME NEW c \in Calls, Start(c) \/ Proceed(c)
        PROVE  Driver(r)'
    BY <1>3, <1>4, <1>5, <2>1 DEF Start
  <2>2. QED BY <1>6, <2>1 DEF Next

(* It holds before the first step.                                            *)
LEMMA InitDriven == Init => Driven
<1> SUFFICES ASSUME Init PROVE Driven
  OBVIOUS
<1>1. Ownership
  BY InitOwnership
<1>2. RequestsAreDated
  BY DEF Init, InterruptsInit, RequestsAreDated
<1>3. MovesAreLegal
  BY RuntimeConstants, NoneIsNoName
     DEF Init, StoreInit, NoState, MovesAreLegal
<1>4. NoOrphanedRun
  BY DEF Init, StoreInit, NoState, NoOrphanedRun
<1>5. QED BY <1>1, <1>2, <1>3, <1>4 DEF Driven

(* Liveness' safe half: a run that is stored as pending or running has, at any *)
(* moment and in whichever process, the call that drives it, unless that call  *)
(* died with its process.  No put is refused to a driver, no request is       *)
(* refused it for the requests of earlier versions, and no path out of        *)
(* _advance leaves the run behind: where nothing raises out of it, and the     *)
(* save of a request that a run waits for is not suspended.                  *)
THEOREM NoRunIsOrphaned ==
  ASSUME AtomicResume, ReliableStore, AtomicSync, NothingRaises
  PROVE  Spec => []NoOrphanedRun
<1>1. Driven /\ [Next]_vars => Driven'
  <2> SUFFICES ASSUME Driven, [Next]_vars PROVE Driven'
    OBVIOUS
  <2>1. Ownership /\ RequestsAreDated /\ MovesAreLegal /\ NoOrphanedRun
    BY DEF Driven
  <2>2. Ownership'
    BY <2>1, NextKeepsOwnership
  <2>3. Shape'
    BY <2>2 DEF Ownership
  <2>4. RequestsAreDated'
    BY <2>1, <2>3, NextKeepsDated
  <2>5. MovesAreLegal'
    BY <2>1, <2>3, NextKeepsMoves
  <2>6. NoOrphanedRun'
    BY <2>1, NextKeepsDrivers
  <2>7. QED BY <2>2, <2>4, <2>5, <2>6 DEF Driven
<1>2. Driven => NoOrphanedRun
  BY DEF Driven
<1>3. QED
  BY <1>1, <1>2, InitDriven, PTL DEF Spec
=============================================================================
