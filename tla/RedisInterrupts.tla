--------------------------- MODULE RedisInterrupts ---------------------------
(***************************************************************************)
(* InterruptManager over RedisInterruptStore (governai/runtime/               *)
(* interrupts.py): its operations as tasks of several processes run them, one  *)
(* action per Redis command, with tasks that die between two commands.        *)
(*                                                                         *)
(* requests[r][i] is the key of request i of run r, "deleted" once it is gone; *)
(* its `late` is the clock's, not the key's.                                 *)
(***************************************************************************)
EXTENDS InterruptCalls, Lists, SequencesExt

CONSTANTS Clients,     \* tasks
          Kinds,       \* the operations they start
          MaxOps,      \* bounds on the operations of a task
          MaxCrashes   \* and on the tasks that die

ASSUME RedisInterruptConstants ==
  /\ Kinds \subseteq {"create", "list", "clear", "get", "resolve", "sweep", "bump"}
  /\ {MaxOps, MaxCrashes} \subseteq Nat

VARIABLES index,    \* the list of request ids of each run
          task,     \* what each task does
          ops,      \* how many operations each task started
          crashes,  \* how many tasks died
          answered, \* the requests a resolve has returned for
          lost      \* those a rewrite dropped unseen, or that were never listed

vars == <<interruptVars, index, task, ops, crashes, answered, lost>>

(* left is what a listing has still to read, found what it read, push what a   *)
(* rewrite has still to push, overdue what was late when the operation began.  *)
NoTask == [pc |-> "idle", kind |-> "none", run |-> None, id |-> 0, epoch |-> None,
           left |-> <<>>, gap |-> FALSE, found |-> <<>>, push |-> <<>>,
           overdue |-> {}, status |-> "none", alone |-> TRUE]

Init ==
  /\ InterruptsInit
  /\ index = [r \in Runs |-> <<>>]
  /\ task = [k \in Clients |-> NoTask]
  /\ ops = [k \in Clients |-> 0]
  /\ crashes = 0
  /\ answered = {}
  /\ lost = {}

At(k, pc) == task[k].pc = pc
Run(k) == task[k].run
Goto(k, pc) == task' = [task EXCEPT ![k].pc = pc]
Return(k) == task' = [task EXCEPT ![k] = NoTask]
Late(r) == {i \in DOMAIN requests[r] : requests[r][i].late}
Exists(r, i) == i \in DOMAIN requests[r] /\ requests[r][i].status # "deleted"

(* The task continues as t, at a command. *)
Continue(k, t, pc) == task' = [task EXCEPT ![k] = [t EXCEPT !.pc = pc]]

-----------------------------------------------------------------------------
FirstCommand(kind) ==
  CASE kind \in {"create", "list", "clear"} -> "range"
    [] kind \in {"get", "resolve"} -> "get"
    [] kind = "sweep" -> "scan"
    [] kind = "bump" -> "getEpoch"

(* Whether an operation had the store to itself is kept for the properties. *)
Begin(k, kind, r, i, e) ==
  /\ At(k, "idle")
  /\ ops[k] < MaxOps
  /\ ops' = [ops EXCEPT ![k] = @ + 1]
  /\ LET busy == {j \in Clients : ~At(j, "idle")} IN
       task' = [j \in Clients |->
         IF j = k THEN [NoTask EXCEPT !.pc = FirstCommand(kind), !.kind = kind, !.run = r,
                                      !.id = i, !.epoch = e, !.overdue = Late(r),
                                      !.alone = busy = {}]
         ELSE IF j \in busy THEN [task[j] EXCEPT !.alone = FALSE] ELSE task[j]]
  /\ UNCHANGED <<interruptVars, index, crashes, answered, lost>>

-----------------------------------------------------------------------------
(* list_requests: the ids, the request of each, and the index again if one was *)
(* gone.                                                                    *)

AfterReading(t) ==
  IF t.left # <<>> THEN "read" ELSE IF t.gap THEN "drop" ELSE "review"

ListIds(k) ==
  LET t == [task[k] EXCEPT !.left = index[Run(k)]] IN
    /\ At(k, "range")
    /\ Continue(k, t, AfterReading(t))
    /\ UNCHANGED <<interruptVars, index, ops, crashes, answered, lost>>

Read(k) ==
  LET i == Head(task[k].left)
      there == Exists(Run(k), i)
      found == IF there
               THEN Append(task[k].found, [id |-> i, status |-> requests[Run(k)][i].status,
                                           epoch |-> requests[Run(k)][i].epoch])
               ELSE task[k].found
      t == [task[k] EXCEPT !.left = Tail(@), !.gap = @ \/ ~there, !.found = found,
                           !.push = [n \in DOMAIN found |-> found[n].id]]
  IN
    /\ At(k, "read")
    /\ Continue(k, t, AfterReading(t))
    /\ UNCHANGED <<interruptVars, index, ops, crashes, answered, lost>>

(* _rewrite_list: DEL, and an RPUSH for each id. What is in the index and not   *)
(* pushed again is lost if it is stored: not what the rewrite found gone, nor  *)
(* what clear_expired has just deleted.                                      *)
Keys(r, ids) == {<<r, i>> : i \in ids}
Stored(r, ids) == {i \in ids : Exists(r, i)}
Unlisted(k) == Stored(Run(k), Range(index[Run(k)]) \ Range(task[k].push))

Drop(k) ==
  /\ At(k, "drop")
  /\ index' = [index EXCEPT ![Run(k)] = <<>>]
  /\ lost' = lost \cup Keys(Run(k), Unlisted(k))
  /\ Goto(k, IF task[k].push = <<>> THEN "review" ELSE "refill")
  /\ UNCHANGED <<interruptVars, ops, crashes, answered>>

Refill(k) ==
  LET t == [task[k] EXCEPT !.push = Tail(@)] IN
    /\ At(k, "refill")
    /\ index' = [index EXCEPT ![Run(k)] = Append(@, Head(task[k].push))]
    /\ Continue(k, t, IF t.push = <<>> THEN "review" ELSE "refill")
    /\ UNCHANGED <<interruptVars, ops, crashes, answered, lost>>

-----------------------------------------------------------------------------
(* What list_pending, create and clear_expired do with what they read *)

Overdue(k, n) == task[k].found[n].id \in task[k].overdue
IsFoundPending(k, n) == task[k].found[n].status = "pending"
Found(k) == DOMAIN task[k].found
ToExpire(k) == {n \in Found(k) : IsFoundPending(k, n) /\ Overdue(k, n)}
ToClear(k) == {n \in Found(k) : ~IsFoundPending(k, n) \/ Overdue(k, n)}
Pending(k) ==
  {n \in Found(k) : /\ IsFoundPending(k, n)
                    /\ task[k].epoch # None => task[k].found[n].epoch = task[k].epoch}

First(ns) == CHOOSE n \in ns : \A other \in ns : n <= other

(* A request that was late when the listing began is saved as expired ... *)
ReviewExpired(k) ==
  LET n == First(ToExpire(k)) IN
    /\ At(k, "review") /\ task[k].kind \in {"create", "list"} /\ ToExpire(k) # {}
    /\ Continue(k, [task[k] EXCEPT !.found[n].status = "expired", !.status = "expired",
                                   !.id = task[k].found[n].id], "set")
    /\ UNCHANGED <<interruptVars, index, ops, crashes, answered, lost>>

(* ... and at the end a listing returns, while create goes on if there is room. *)
(* Faulty variant: > for >=.                                                *)
RoomForOneMore(k) == Cardinality(Pending(k)) <= MaxPending
Room(k) == Cardinality(Pending(k)) < MaxPending

ReviewPending(k) ==
  /\ At(k, "review") /\ task[k].kind \in {"create", "list"} /\ ToExpire(k) = {}
  /\ IF task[k].kind = "create" /\ Room(k)
     THEN Continue(k, [task[k] EXCEPT !.kind = "new", !.status = "pending"],
                   IF task[k].epoch = None THEN "getEpoch" ELSE "set")
     ELSE Return(k)
  /\ UNCHANGED <<interruptVars, index, ops, crashes, answered, lost>>

(* clear_expired deletes the requests that are settled or late, one by one. *)
ReviewCleared(k) ==
  /\ At(k, "review") /\ task[k].kind = "clear"
  /\ IF ToClear(k) = {} THEN Return(k)
     ELSE LET n == First(ToClear(k)) IN
            Continue(k, [task[k] EXCEPT !.id = task[k].found[n].id,
                                        !.found = RemoveAt(@, n)], "delete")
  /\ UNCHANGED <<interruptVars, index, ops, crashes, answered, lost>>

SetStatus(r, i, status) == requests' = [requests EXCEPT ![r][i].status = status]

Delete(k) ==
  /\ At(k, "delete")
  /\ SetStatus(Run(k), task[k].id, "deleted")
  /\ Goto(k, "relist")
  /\ UNCHANGED <<epochs, index, ops, crashes, answered, lost>>

Remaining(ids, gone) == Selected(ids, {n \in DOMAIN ids : ids[n] # gone})

Relist(k) ==
  /\ At(k, "relist")
  /\ Continue(k, [task[k] EXCEPT !.push = Remaining(index[Run(k)], task[k].id)], "drop")
  /\ UNCHANGED <<interruptVars, index, ops, crashes, answered, lost>>

-----------------------------------------------------------------------------
(* get_pending and resolve read one request, and may save it *)

ReadRequest(k) == requests[Run(k)][task[k].id]

Outcome(k) ==
  IF task[k].kind = "get" THEN Noticed(ReadRequest(k)) ELSE Judged(ReadRequest(k), task[k].epoch)

Get(k) ==
  /\ At(k, "get")
  /\ IF Outcome(k) = ReadRequest(k) THEN Return(k)
     ELSE Continue(k, [task[k] EXCEPT !.status = Outcome(k).status], "set")
  /\ UNCHANGED <<interruptVars, index, ops, crashes, answered, lost>>

(* save_request: SET, and RPUSH if the index does not have the id. *)
Set(k) ==
  /\ At(k, "set")
  /\ IF task[k].kind = "new"
     THEN /\ Len(requests[Run(k)]) < MaxRequests
          /\ requests' = [requests EXCEPT ![Run(k)] =
               Append(@, [step |-> CHOOSE s \in Steps : TRUE, epoch |-> task[k].epoch,
                          status |-> "pending", late |-> FALSE])]
          /\ Continue(k, [task[k] EXCEPT !.id = Len(requests[Run(k)]) + 1], "look")
     ELSE /\ SetStatus(Run(k), task[k].id, task[k].status)
          /\ Goto(k, "look")
  /\ UNCHANGED <<epochs, index, ops, crashes, answered, lost>>

(* The operation goes on, or returns. *)
Saved(k) ==
  /\ IF task[k].kind \in {"create", "list"} THEN Goto(k, "review") ELSE Return(k)
  /\ answered' = IF task[k].status = "resolved"
                 THEN answered \cup Keys(Run(k), {task[k].id}) ELSE answered

(* Faulty variant of what follows: the id is never pushed. *)
IndexedAnyway(k) == TRUE
Indexed(k) == task[k].id \in Range(index[Run(k)])

Look(k) ==
  /\ At(k, "look")
  /\ IF Indexed(k) THEN Saved(k) ELSE Goto(k, "push") /\ UNCHANGED answered
  /\ UNCHANGED <<interruptVars, index, ops, crashes, lost>>

Push(k) ==
  /\ At(k, "push")
  /\ index' = [index EXCEPT ![Run(k)] = Append(@, task[k].id)]
  /\ Saved(k)
  /\ UNCHANGED <<interruptVars, ops, crashes, lost>>

-----------------------------------------------------------------------------
(* sweep_expired: SCAN, then GET and DEL of each key; the indexes stay. *)

Scan(k) ==
  /\ At(k, "scan")
  /\ LET keys == {i \in DOMAIN requests[Run(k)] : Exists(Run(k), i)} IN
       IF keys = {} THEN Return(k)
       ELSE \E order \in SetToAllKPermutations(keys) :
              /\ Len(order) = Cardinality(keys)
              /\ Continue(k, [task[k] EXCEPT !.left = order], "sweep")
  /\ UNCHANGED <<interruptVars, index, ops, crashes, answered, lost>>

NextKey(k) == [task[k] EXCEPT !.left = Tail(@), !.id = Head(task[k].left)]
AfterKey(t) == IF t.left = <<>> THEN NoTask ELSE [t EXCEPT !.pc = "sweep"]

Sweep(k) ==
  LET t == NextKey(k) IN
    /\ At(k, "sweep")
    /\ IF Exists(Run(k), t.id) /\ t.id \in t.overdue
       THEN Continue(k, t, "sweepDelete")
       ELSE task' = [task EXCEPT ![k] = AfterKey(t)]
    /\ UNCHANGED <<interruptVars, index, ops, crashes, answered, lost>>

SweepDelete(k) ==
  /\ At(k, "sweepDelete")
  /\ SetStatus(Run(k), task[k].id, "deleted")
  /\ task' = [task EXCEPT ![k] = AfterKey(@)]
  /\ UNCHANGED <<epochs, index, ops, crashes, answered, lost>>

-----------------------------------------------------------------------------
(* The epoch is read to create a request at it, or to bump it. *)

GetEpoch(k) ==
  /\ At(k, "getEpoch")
  /\ Continue(k, [task[k] EXCEPT !.epoch = epochs[Run(k)]],
              IF task[k].kind = "new" THEN "set" ELSE "setEpoch")
  /\ UNCHANGED <<interruptVars, index, ops, crashes, answered, lost>>

SetEpoch(k) ==
  /\ At(k, "setEpoch")
  /\ task[k].epoch < MaxEpoch
  /\ epochs' = [epochs EXCEPT ![Run(k)] = task[k].epoch + 1]
  /\ Return(k)
  /\ UNCHANGED <<requests, index, ops, crashes, answered, lost>>

-----------------------------------------------------------------------------
(* A process dies: its task does not go on. *)
Crash(k) ==
  /\ ~At(k, "idle")
  /\ crashes < MaxCrashes
  /\ crashes' = crashes + 1
  /\ LET unlisted ==
           CASE task[k].pc \in {"look", "push"} -> {task[k].id}
             [] task[k].pc = "refill" -> Range(task[k].push)
             [] OTHER -> {}
     IN lost' = lost \cup Keys(Run(k), Stored(Run(k), unlisted))
  /\ Return(k)
  /\ UNCHANGED <<interruptVars, index, ops, answered>>

PassTime(r, i) ==
  Elapse(r, i) /\ UNCHANGED <<index, task, ops, crashes, answered, lost>>

Start(k) ==
  \E r \in Runs, kind \in Kinds :
    \/ /\ kind \in {"create", "list"}
       /\ \E e \in Quotes : Begin(k, kind, r, 0, e)
    \/ /\ kind \in {"clear", "sweep", "bump"}
       /\ Begin(k, kind, r, 0, None)
    \/ /\ kind \in {"get", "resolve"}
       /\ \E i \in DOMAIN requests[r], e \in Quotes :
            (kind = "get" => e = None) /\ Begin(k, kind, r, i, e)

Send(k) ==
  \/ ListIds(k) \/ Read(k) \/ Drop(k) \/ Refill(k)
  \/ ReviewExpired(k) \/ ReviewPending(k) \/ ReviewCleared(k) \/ Delete(k) \/ Relist(k)
  \/ Get(k) \/ Set(k) \/ Look(k) \/ Push(k)
  \/ Scan(k) \/ Sweep(k) \/ SweepDelete(k) \/ GetEpoch(k) \/ SetEpoch(k)

Next ==
  \/ \E k \in Clients : Start(k) \/ Send(k) \/ Crash(k)
  \/ \E r \in Runs : \E i \in DOMAIN requests[r] : PassTime(r, i)

Spec == Init /\ [][Next]_vars

-----------------------------------------------------------------------------
(* Properties *)

(* Of two answers to one request at most one is accepted unless they overlap:  *)
(* once resolve has returned, whatever the listings, sweeps and clean-ups that *)
(* were under way save over it, no later answer is accepted.                *)
AnsweredAgainOnlyByOverlap ==
  [][\A k \in Clients :
       At(k, "get") /\ task[k].kind = "resolve" /\ <<Run(k), task[k].id>> \in answered
         => task'[k].pc \in {"get", "idle"}]_vars

(* A stored request that is not in the index is on its way there, or was       *)
(* dropped from it by a rewrite that had not seen it, or its task died.       *)
OnItsWay(r) ==
  UNION {IF Run(k) # r THEN {}
         ELSE IF task[k].pc \in {"look", "push"} THEN {task[k].id}
         ELSE IF At(k, "refill") THEN Range(task[k].push) ELSE {} : k \in Clients}

LostOnlyByRewriteOrCrash ==
  \A r \in Runs : \A i \in DOMAIN requests[r] :
    Exists(r, i) => \/ i \in Range(index[r]) \cup OnItsWay(r)
                    \/ <<r, i>> \in lost

(* A create with nobody beside it keeps the live requests within max_pending   *)
(* but for those lost before, whatever overlapped or died before it.         *)
NotLost(r, e) == {i \in PendingAt(r, e) : <<r, i>> \notin lost}

QuietCreatesKeepLimit ==
  [][\A k \in Clients :
       /\ At(k, "set") /\ task[k].kind = "new" /\ task[k].alone
       /\ task'[k].pc = "look"
       => Cardinality(NotLost(Run(k), task[k].epoch)') <= MaxPending]_vars
=============================================================================
