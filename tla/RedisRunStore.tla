---------------------------- MODULE RedisRunStore ---------------------------
(***************************************************************************)
(* RedisRunStore (governai/runtime/run_store.py): the same store over Redis,  *)
(* one action per Redis command, since any other client's command may fall    *)
(* between two of them, and a task may die there.  Only the MULTI block of put *)
(* is one step.                                                             *)
(*                                                                         *)
(* put writes a snapshot and its checkpoint in one block, so the checkpoint   *)
(* id of a write is its position in `checkpoints`; 0 is an id that was never  *)
(* written.                                                                 *)
(***************************************************************************)
EXTENDS RunStore

CONSTANTS Clients,   \* tasks that use the store
          ThreadOf,  \* the thread of each run
          Retries,   \* how often put tries again (3)
          CanIndex,  \* whether active runs are set and cleared
          CanList,   \* whether the runs of a thread are listed
          CanDelete, \* whether runs are deleted
          CanExpire, \* whether ttl_seconds is set, and reached
          MaxWrites, \* bound on the number of writes
          MaxOps,    \* bound on the number of operations
          MaxCrashes \* bound on the number of tasks that die

ASSUME RedisConstants ==
  /\ ThreadOf \in [Runs -> Threads]
  /\ Retries \in Nat
  /\ {CanIndex, CanList, CanDelete, CanExpire} \subseteq BOOLEAN
  /\ MaxWrites \in Nat
  /\ MaxOps \in Nat
  /\ MaxCrashes \in Nat

VARIABLES mine,  \* the RunState each client works on
          pc,    \* the command each client sends next
          op,    \* the operation of each client: its run and its kind
          tries, \* the attempt put is at
          dirty, \* whether the watched key was written
          read,  \* the list an operation read, or has still to push
          looked, \* the runs of that list asked for, and those of them found
          ops,   \* how many operations were started
          raised, \* clients whose object has the epoch of a failed attempt
          timed, \* the threads whose history has a TTL
          outlives, \* the runs whose snapshot has more time left than that
          gone,  \* the runs that lost their place in the history
          crashes \* how many tasks died

ttlVars == <<timed, outlives>>
lossVars == <<gone, crashes>>
clientVars == <<mine, pc, op, tries, dirty, read, ops>>
vars == <<storeVars, clientVars, looked, raised, ttlVars, lossVars>>

Kinds == {"none", "put", "set", "clear", "active", "list", "delete"}

Commands == {"idle", "watch", "get", "exec", "history", "push", "expire",
             "activate", "getActive", "getRun", "delActive", "range", "look",
             "delRun", "delAbsent", "drop", "refill"}

NoOp == [kind |-> "none", run |-> None]
NotLooked == [asked |-> {}, found |-> {}]

Init ==
  /\ StoreInit
  /\ mine = [k \in Clients |-> NoState]
  /\ pc = [k \in Clients |-> "idle"]
  /\ op = [k \in Clients |-> NoOp]
  /\ tries = [k \in Clients |-> 0]
  /\ dirty = [k \in Clients |-> FALSE]
  /\ read = [k \in Clients |-> <<>>]
  /\ looked = [k \in Clients |-> NotLooked]
  /\ ops = 0
  /\ raised = {}
  /\ timed = {}
  /\ outlives = {}
  /\ gone = {}
  /\ crashes = 0

-----------------------------------------------------------------------------
Run(k) == op[k].run
Thread(k) == ThreadOf[Run(k)]
At(k, command) == pc[k] = command
Goto(k, command) == pc' = [pc EXCEPT ![k] = command]

(* The operation returns or raises. *)
Return(k) ==
  /\ Goto(k, "idle")
  /\ op' = [op EXCEPT ![k] = NoOp]
  /\ read' = [read EXCEPT ![k] = <<>>]
  /\ tries' = [tries EXCEPT ![k] = 0]

Begin(k, kind, r, command) ==
  /\ At(k, "idle")
  /\ ops < MaxOps
  /\ ops' = ops + 1
  /\ op' = [op EXCEPT ![k] = [kind |-> kind, run |-> r]]
  /\ Goto(k, command)

(* The key of run r is written: a transaction that watches it will fail. *)
Touch(r) == dirty' = [k \in Clients |-> dirty[k] \/ Run(k) = r]

RunsOf(t) == {r \in Runs : ThreadOf[r] = t}

SetHistory(t, history) == threadRuns' = [threadRuns EXCEPT ![t] = history]
SetActive(t, r) == threadActive' = [threadActive EXCEPT ![t] = r]

-----------------------------------------------------------------------------
(* Objects: constructed, or decoded from the snapshot. *)

Hold(k, s) ==
  /\ At(k, "idle")
  /\ ops < MaxOps
  /\ ops' = ops + 1
  /\ mine' = [mine EXCEPT ![k] = s]
  /\ raised' = raised \ {k}
  /\ UNCHANGED <<storeVars, pc, op, tries, dirty, read>>

Construct(k, r) ==
  Hold(k, [NoState EXCEPT !.run = r, !.thread = ThreadOf[r],
                          !.status = "RUNNING"])

Get(k, r) == Stored(r) /\ Hold(k, state[r])

-----------------------------------------------------------------------------
(* put, of the next version as _persist_state prepares it *)

StartPut(k) ==
  /\ mine[k] # NoState
  /\ Begin(k, "put", mine[k].run, "watch")
  /\ mine' = [mine EXCEPT ![k].parent = mine[k].ckpt, ![k].ckpt = 0]
  /\ UNCHANGED <<storeVars, tries, dirty, read>>

Watch(k) ==
  /\ At(k, "watch")
  /\ dirty' = [dirty EXCEPT ![k] = FALSE]
  /\ Goto(k, "get")
  /\ UNCHANGED <<storeVars, mine, op, tries, read, ops>>

(* A stale object is refused; otherwise the object itself gets the next epoch, *)
(* before the transaction is known to succeed.                              *)
GetForPut(k) ==
  /\ At(k, "get")
  /\ \/ /\ Stale(mine[k])
        /\ Return(k)
        /\ UNCHANGED mine
     \/ /\ ~Stale(mine[k])
        /\ mine' = [mine EXCEPT ![k].epoch = state[Run(k)].epoch + 1]
        /\ Goto(k, "exec")
        /\ UNCHANGED <<op, tries, read>>
  /\ UNCHANGED <<storeVars, dirty, ops>>

ExecWritten(k) == [mine[k] EXCEPT !.ckpt = Len(checkpoints) + 1]

(* Faulty variant of what follows: the transaction does not watch the key. *)
NeverOvertaken(k) == FALSE

Overtaken(k) == dirty[k]
HasAttempts(k) == tries[k] < Retries

Exec(k) ==
  /\ At(k, "exec")
  /\ Len(checkpoints) < MaxWrites
  /\ \/ /\ ~Overtaken(k)
        /\ state' = [state EXCEPT ![Run(k)] = ExecWritten(k)]
        /\ checkpoints' = Append(checkpoints, ExecWritten(k))
        /\ mine' = [mine EXCEPT ![k] = ExecWritten(k)]
        /\ Touch(Run(k))
        /\ Goto(k, "history")
        /\ raised' = raised \ {k}
        /\ outlives' = outlives \cup
                         (IF Thread(k) \in timed THEN {Run(k)} ELSE {})
        /\ UNCHANGED <<op, tries, read>>
     \/ /\ Overtaken(k) /\ HasAttempts(k)
        /\ tries' = [tries EXCEPT ![k] = @ + 1]
        /\ Goto(k, "watch")
        /\ raised' = raised \cup {k}
        /\ UNCHANGED <<state, checkpoints, mine, dirty, op, read, outlives>>
     \/ /\ Overtaken(k) /\ ~HasAttempts(k)
        /\ Return(k)
        /\ raised' = raised \cup {k}
        /\ UNCHANGED <<state, checkpoints, mine, dirty, outlives>>
  /\ UNCHANGED <<threadRuns, threadActive, ops, looked, timed, lossVars>>

-----------------------------------------------------------------------------
(* _record_thread_run, at the end of put and at the start of set_active_run_id: *)
(* LRANGE, RPUSH of a run that is not there, EXPIRE.                          *)

StartSetActive(k, r) ==
  /\ CanIndex
  /\ Begin(k, "set", r, "history")
  /\ UNCHANGED <<storeVars, mine, tries, dirty, read>>

(* Faulty variant of what follows: the run is taken to be there. *)
RecordsNothing(k) == FALSE
ToRecord(k) == Run(k) \notin ToSet(threadRuns[Thread(k)])

Recording(k) ==
  /\ At(k, "history")
  /\ Goto(k, IF ToRecord(k) THEN "push" ELSE "expire")
  /\ UNCHANGED <<storeVars, mine, op, tries, dirty, read, ops>>

Push(k) ==
  /\ At(k, "push")
  /\ SetHistory(Thread(k), Append(threadRuns[Thread(k)], Run(k)))
  /\ Goto(k, "expire")
  /\ UNCHANGED <<state, checkpoints, threadActive, mine, op, tries, dirty, read,
                 ops>>

(* EXPIRE, also after a history is rewritten: every snapshot of the thread was  *)
(* written before, so none has more time left than the history has now.  There *)
(* is nothing to expire if the key is gone.                                  *)
SetTTL(k) ==
  /\ At(k, "expire")
  /\ IF CanExpire /\ threadRuns[Thread(k)] # <<>>
     THEN /\ timed' = timed \cup {Thread(k)}
          /\ outlives' = outlives \ RunsOf(Thread(k))
     ELSE UNCHANGED ttlVars
  /\ \/ op[k].kind \in {"put", "list"} /\ Return(k)
     \/ /\ op[k].kind = "set" /\ Goto(k, "activate")
        /\ UNCHANGED <<op, tries, read>>
     \/ /\ op[k].kind = "delete" /\ Goto(k, "getActive")
        /\ UNCHANGED <<op, tries, read>>
  /\ UNCHANGED <<storeVars, mine, dirty, ops, looked, raised, lossVars>>

Activate(k) ==
  /\ At(k, "activate")
  /\ SetActive(Thread(k), Run(k))
  /\ Return(k)
  /\ UNCHANGED <<state, checkpoints, threadRuns, mine, dirty, ops>>

-----------------------------------------------------------------------------
(* clear_active_run_id, get_active_run_id, and the end of delete: the mapping  *)
(* is read, and deleted if it was the run's or that of a run that is gone.    *)

StartActive(k, kind, r) ==
  /\ CanIndex
  /\ kind \in {"clear", "active"}
  /\ Begin(k, kind, r, "getActive")
  /\ UNCHANGED <<storeVars, mine, tries, dirty, read>>

GetActive(k) ==
  LET r == threadActive[Thread(k)] IN
    /\ At(k, "getActive")
    /\ \/ /\ op[k].kind = "active" /\ r # None
          /\ read' = [read EXCEPT ![k] = <<r>>]
          /\ Goto(k, "getRun")
          /\ UNCHANGED <<op, tries>>
       \/ /\ op[k].kind # "active" /\ r = Run(k)
          /\ Goto(k, "delActive")
          /\ UNCHANGED <<op, tries, read>>
       \/ /\ IF op[k].kind = "active" THEN r = None ELSE r # Run(k)
          /\ Return(k)
    /\ UNCHANGED <<storeVars, mine, dirty, ops>>

GetActiveRun(k) ==
  /\ At(k, "getRun")
  /\ IF Stored(read[k][1])
     THEN Return(k)
     ELSE Goto(k, "delActive") /\ UNCHANGED <<op, tries, read>>
  /\ UNCHANGED <<storeVars, mine, dirty, ops>>

DelActive(k) ==
  /\ At(k, "delActive")
  /\ SetActive(Thread(k), None)
  /\ Return(k)
  /\ UNCHANGED <<state, checkpoints, threadRuns, mine, dirty, ops>>

-----------------------------------------------------------------------------
(* list_run_ids and delete rewrite the history from what they read: DEL, one    *)
(* RPUSH for each run, EXPIRE if there was one.                               *)

StartList(k, r) ==
  /\ CanList
  /\ Begin(k, "list", r, "range")
  /\ UNCHANGED <<storeVars, mine, tries, dirty, read>>

(* The GET of a deletion; what follows it depends on what it found. *)
StartDelete(k, r) ==
  /\ CanDelete
  /\ Begin(k, "delete", r, IF Stored(r) THEN "delRun" ELSE "delAbsent")
  /\ UNCHANGED <<storeVars, mine, tries, dirty, read>>

(* DEL is sent even for a run that was absent, and may be there by now. *)
DelRun(k) ==
  /\ pc[k] \in {"delRun", "delAbsent"}
  /\ state' = [state EXCEPT ![Run(k)] = NoState]
  /\ IF Stored(Run(k)) THEN Touch(Run(k)) ELSE UNCHANGED dirty
  /\ \/ /\ At(k, "delRun") /\ Goto(k, "range")
        /\ UNCHANGED <<op, tries, read>>
     \/ At(k, "delAbsent") /\ Return(k)
  /\ UNCHANGED <<checkpoints, threadRuns, threadActive, mine, ops>>

(* The entries of a list that are of some runs, and those kept: of the runs    *)
(* that were found, each once; of all but the deleted one.                    *)
Firsts(list) == {i \in DOMAIN list : \A j \in 1 .. i - 1 : list[j] # list[i]}

Found(k, list) ==
  Selected(list, PositionsOf(list, looked[k].found) \cap Firsts(list))
NotDeleted(k, list) == Selected(list, PositionsOf(list, Runs \ {Run(k)}))

(* LRANGE; a deletion drops its run from the list, a listing looks at each. *)
ReadHistory(k) ==
  LET history == threadRuns[Thread(k)] IN
    /\ At(k, "range")
    /\ IF op[k].kind = "list"
       THEN read' = [read EXCEPT ![k] = history] /\ Goto(k, "look")
       ELSE read' = [read EXCEPT ![k] = NotDeleted(k, history)] /\ Goto(k, "drop")
    /\ UNCHANGED <<storeVars, mine, op, tries, dirty, ops>>

(* A GET of the next run of the list. *)
Look(k) ==
  \E i \in DOMAIN read[k] :
    LET r == read[k][i] IN
      /\ At(k, "look")
      /\ r \notin looked[k].asked
      /\ \A j \in 1 .. i - 1 : read[k][j] \in looked[k].asked
      /\ looked' = [looked EXCEPT
                      ![k] = [asked |-> @.asked \cup {r},
                              found |-> @.found \cup (IF Stored(r) THEN {r} ELSE {})]]
      /\ UNCHANGED <<storeVars, clientVars, raised, ttlVars, lossVars>>

(* All were looked at: the history is rewritten if a run was not found, or was  *)
(* there twice.                                                             *)
Compare(k) ==
  /\ At(k, "look")
  /\ ToSet(read[k]) \subseteq looked[k].asked
  /\ looked' = [looked EXCEPT ![k] = NotLooked]
  /\ IF Found(k, read[k]) = read[k]
     THEN Return(k)
     ELSE /\ read' = [read EXCEPT ![k] = Found(k, read[k])]
          /\ Goto(k, "drop")
          /\ UNCHANGED <<op, tries>>
  /\ UNCHANGED <<storeVars, mine, dirty, ops, raised, ttlVars, lossVars>>

(* The key goes, and its TTL with it. *)
Drop(k) ==
  /\ At(k, "drop")
  /\ SetHistory(Thread(k), <<>>)
  /\ timed' = timed \ {Thread(k)}
  /\ outlives' = outlives \ RunsOf(Thread(k))
  /\ gone' = gone \cup (ToSet(threadRuns[Thread(k)]) \ ToSet(read[k]))
  /\ IF read[k] # <<>>
     THEN Goto(k, "refill") /\ UNCHANGED <<op, tries, read>>
     ELSE IF op[k].kind = "list" THEN Return(k)
     ELSE Goto(k, "getActive") /\ UNCHANGED <<op, tries, read>>
  /\ UNCHANGED <<state, checkpoints, threadActive, mine, dirty, ops, looked,
                 raised, crashes>>

Refill(k) ==
  /\ At(k, "refill")
  /\ read[k] # <<>>
  /\ SetHistory(Thread(k), Append(threadRuns[Thread(k)], Head(read[k])))
  /\ read' = [read EXCEPT ![k] = Tail(@)]
  /\ IF Tail(read[k]) = <<>> THEN Goto(k, "expire") ELSE UNCHANGED pc
  /\ UNCHANGED <<state, checkpoints, threadActive, mine, op, tries, dirty, ops>>

-----------------------------------------------------------------------------
(* Redis drops a key that reached its TTL: a snapshot, *)
Expire(r) ==
  /\ CanExpire
  /\ Stored(r)
  /\ state' = [state EXCEPT ![r] = NoState]
  /\ Touch(r)
  /\ UNCHANGED <<checkpoints, threadRuns, threadActive, mine, pc, op, tries,
                 read, ops, looked, raised, ttlVars, lossVars>>

(* the active run of a thread, which no put makes last longer, *)
ExpireActive(t) ==
  /\ CanExpire
  /\ threadActive[t] # None
  /\ SetActive(t, None)
  /\ UNCHANGED <<state, checkpoints, threadRuns, clientVars, looked, raised,
                 ttlVars, lossVars>>

(* What a task has still to record, and the put whose EXPIRE is still to come. *)
ToRecordBy(k) ==
  CASE pc[k] \in {"history", "push"} -> {Run(k)}
    [] pc[k] = "refill" -> ToSet(read[k])
    [] OTHER -> {}

ToLastBy(k) ==
  IF At(k, "expire") /\ op[k].kind = "put" THEN {Run(k)} ELSE {}

(* or a history: all snapshots that have less time left are gone by then. *)
ExpireHistory(t) ==
  /\ t \in timed
  /\ \A r \in RunsOf(t) : Stored(r) => r \in outlives
  /\ SetHistory(t, <<>>)
  /\ timed' = timed \ {t}
  /\ outlives' = outlives \ RunsOf(t)
  /\ gone' = gone \cup UNION {ToLastBy(k) : k \in Clients}
  /\ UNCHANGED <<state, checkpoints, threadActive, clientVars, looked, raised,
                 crashes>>

(* A task dies between two commands, and with it what it was to record. *)
Crash(k) ==
  /\ ~At(k, "idle")
  /\ crashes < MaxCrashes
  /\ crashes' = crashes + 1
  /\ gone' = gone \cup ToRecordBy(k) \cup ToLastBy(k)
  /\ mine' = [mine EXCEPT ![k] = NoState]
  /\ raised' = raised \ {k}
  /\ looked' = [looked EXCEPT ![k] = NotLooked]
  /\ Return(k)
  /\ UNCHANGED <<storeVars, dirty, ops, ttlVars>>

Take(k) == \E r \in Runs : Construct(k, r) \/ Get(k, r)

Start(k) ==
  \/ StartPut(k)
  \/ \E r \in Runs :
       \/ StartSetActive(k, r) \/ StartList(k, r) \/ StartDelete(k, r)
       \/ \E kind \in Kinds : StartActive(k, kind, r)

Send(k) ==
  \/ Watch(k) \/ GetForPut(k)
  \/ Recording(k) \/ Push(k) \/ Activate(k)
  \/ GetActive(k) \/ GetActiveRun(k) \/ DelActive(k)
  \/ ReadHistory(k) \/ DelRun(k) \/ Refill(k)

Next ==
  \/ \E k \in Clients : Take(k) /\ UNCHANGED <<looked, ttlVars, lossVars>>
  \/ \E k \in Clients :
       (Start(k) \/ Send(k)) /\ UNCHANGED <<looked, raised, ttlVars, lossVars>>
  \/ \E k \in Clients :
       Exec(k) \/ SetTTL(k) \/ Look(k) \/ Compare(k) \/ Drop(k) \/ Crash(k)
  \/ \E r \in Runs : Expire(r)
  \/ \E t \in Threads : ExpireActive(t) \/ ExpireHistory(t)

Spec == Init /\ [][Next]_vars

-----------------------------------------------------------------------------
(* Properties *)

(* What WATCH is for: whichever commands of other clients fall between the GET *)
(* and the EXEC of a put, it writes the epoch after that of the snapshot it    *)
(* replaces, the first one if there is none.                                *)
EpochsAdvance ==
  [][\A r \in Runs :
       Stored(r)' /\ state'[r] # state[r] =>
         state'[r].epoch = state[r].epoch + 1]_vars

(* Optimistic locking: a write replaces the version its writer read, but for   *)
(* one of an object a put was overtaken with (it has the epoch of the attempt  *)
(* that failed), and for a run that was gone and stored anew.                *)
StoredAnew(r) ==
  \E i, j \in DOMAIN checkpoints :
    /\ i < j /\ checkpoints[i].run = r /\ checkpoints[j].run = r
    /\ checkpoints[j].epoch <= checkpoints[i].epoch

Retried(r) == \E k \in raised : At(k, "exec") /\ Run(k) = r

UpdatesLostOnlyByRetry ==
  [][\A r \in Runs :
       /\ Stored(r) /\ Stored(r)' /\ state'[r] # state[r]
       /\ ~Retried(r) /\ ~StoredAnew(r)
       => state'[r].parent = state[r].ckpt]_vars

(* A stored run is in the history of its thread, or on its way there, unless   *)
(* a listing or deletion rewrote the history without having seen it, the       *)
(* history reached its TTL before the EXPIRE of a put that found the run in it  *)
(* or pushed it, or the task that was to record it died.                       *)
HistoryLostOnlyByRewriteTtlOrCrash ==
  \A r \in Runs :
    Stored(r) => r \in ToSet(threadRuns[ThreadOf[r]]) \cup gone
                        \cup UNION {ToRecordBy(k) : k \in Clients}
=============================================================================
