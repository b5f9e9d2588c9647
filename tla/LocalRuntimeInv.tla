-------------------------- MODULE LocalRuntimeInv ---------------------------
(***************************************************************************)
(* The inductive invariants behind the theorems about LocalRuntime, in        *)
(* LocalRuntimeProofs and LocalRuntimeLifecycle.                              *)
(***************************************************************************)
EXTENDS LocalRuntime

-----------------------------------------------------------------------------
(* Shape: what ties calls, objects and caches together in every deployment.  *)

Fresh(c) == pc[c] \in {"idle", "loading"}

(* The calls that have an object to work on. *)
Working(c) == Live(c) /\ ~Fresh(c)

ObjectsHaveRuns ==
  /\ \A c \in Calls : Working(c) => RunOf(c) \in Runs
  /\ \A c \in Calls : pc[c] = "loading" => heap[c].run \in Runs
  /\ \A p \in Procs, r \in Runs :
       cache[p][r] # None => heap[cache[p][r]].run = r
  /\ \A r \in Runs : Stored(r) => state[r].run = r

(* The object of a call that has not got one yet is nobody else's. *)
FreshIsPrivate ==
  /\ \A c, d \in Calls : Fresh(c) /\ ref[d] = c => d = c
  /\ \A c \in Calls : Fresh(c) => ref[c] = c
  /\ \A p \in Procs, r \in Runs : cache[p][r] # None => ~Fresh(cache[p][r])

LocalsAreSet ==
  /\ \A c \in Calls :
       pc[c] \in {"executing", "stepping", "pausing", "syncing", "putStepping",
                  "putSyncing"} =>
         local[c].at \in Steps
  /\ \A c \in Calls :
       pc[c] \in {"resolving", "deciding"} =>
         local[c].id \in DOMAIN requests[RunOf(c)]
  /\ \A c \in Calls :
       pc[c] = "loading" /\ local[c].ask = "respond" =>
         local[c].id \in DOMAIN requests[heap[c].run]

(* A call is inside a put only where a put suspends. *)
Writing == {"putRegistering", "putAdvancing", "putContinuing", "putStepping",
            "putSyncing", "putClearing", "putDone"}

PutsSuspend == \A c \in Calls : pc[c] \in Writing => pc[c] \in Yields

Shape ==
  TypeOK /\ ObjectsHaveRuns /\ FreshIsPrivate /\ LocalsAreSet /\ PutsSuspend

-----------------------------------------------------------------------------
(* Ownership: why one call at a time drives a run.                           *)

Taking == {"granting", "rejecting", "resolving", "deciding"}

(* The deployments the theorem is about: no other coroutine of the process    *)
(* runs between a resume's look at the status and the moment it changes it,   *)
(* nor while an object is being put, and the store answers.                   *)
AtomicResume == Yields \cap Taking = {}
AtomicPut == Yields \cap Writing = {}
ReliableStore == ~PutMayFail /\ AtomicPut

Holds(c) == pc[c] \in Taking \cup {"resumed"} \/ Drives(c)

(* An object some coroutine works on, or that a cache would hand to one. *)
InUse(o) ==
  \/ \E r \in Runs : cache[ProcOf[o]][r] = o
  \/ \E c \in Calls : Live(c) /\ ref[c] = o

OwnProcess ==
  /\ \A c \in Calls : ProcOf[ref[c]] = ProcOf[c]
  /\ \A p \in Procs, r \in Runs :
       cache[p][r] # None => ProcOf[cache[p][r]] = p

(* A run has nothing stored, and no object, before the call that names it. *)
NamedByItsCall ==
  /\ \A c \in Calls : pc[c] = "idle" => ~Stored(c)
  /\ \A o \in Calls : InUse(o) => pc[heap[o].run] # "idle"

(* An object in use is no newer than the store, and one as new as the store    *)
(* has its status, but for a wait just resolved.                             *)
Coherent(o) ==
  LET s == heap[o]
      k == state[heap[o].run]
  IN
    /\ s.epoch <= k.epoch
    /\ s.epoch = k.epoch =>
         \/ s.status = k.status
         \/ /\ \E c \in Calls : pc[c] = "resumed" /\ ref[c] = o
            /\ s.status = "RUNNING"
            /\ k.status = "WAITING_INTERRUPT"

ObjectsAreCoherent == \A o \in Calls : InUse(o) => Coherent(o)

(* What a holder may rely on until it persists its object. *)
Knows(c) ==
  LET s == Object(c) IN
    /\ pc[c] \in {"granting", "rejecting"} => s.status = "WAITING_APPROVAL"
    /\ pc[c] \in {"resolving", "deciding"} => s.status = "WAITING_INTERRUPT"
    /\ pc[c] = "resumed" =>
         /\ s.status = "RUNNING"
         /\ s.epoch = state[s.run].epoch =>
              state[s.run].status = "WAITING_INTERRUPT"
    /\ Drives(c) => s.epoch = state[s.run].epoch
    /\ pc[c] = "registering" => s.status \in {"PENDING", "RUNNING"}
    /\ pc[c] = "launching" => s.status = "PENDING"
    /\ Drives(c) /\ pc[c] \notin {"registering", "launching"} =>
         s.status = "RUNNING"
    /\ pc[c] = "pausing" => local[c].id # 0

HoldersKnowTheirRun == \A c \in Calls : Knows(c)

OneHolderPerObject ==
  \A c, d \in Calls : Holds(c) /\ Holds(d) /\ ref[c] = ref[d] => c = d

Ownership ==
  /\ Shape
  /\ OwnProcess
  /\ NamedByItsCall
  /\ ObjectsAreCoherent
  /\ HoldersKnowTheirRun
  /\ OneHolderPerObject
  /\ SingleDriver

-----------------------------------------------------------------------------
(* Versions: why no version of a run is lost, in every deployment.            *)

IsVersion(i, r, e) == checkpoints[i].run = r /\ checkpoints[i].epoch = e

Kept ==
  /\ \A i \in DOMAIN checkpoints :
       /\ checkpoints[i].run \in Runs
       /\ checkpoints[i].epoch \in 1 .. state[checkpoints[i].run].epoch
  /\ \A r \in Runs : \A e \in 1 .. state[r].epoch :
       \E i \in DOMAIN checkpoints : IsVersion(i, r, e)
  /\ \A i, j \in DOMAIN checkpoints :
       IsVersion(i, checkpoints[j].run, checkpoints[j].epoch) => i = j
  /\ \A r \in Runs : Stored(r) =>
       /\ state[r].ckpt \in DOMAIN checkpoints
       /\ checkpoints[state[r].ckpt] = state[r]

(* Where the store answers, an object is of a stored run, no newer than it,    *)
(* and knows the checkpoint of the version it holds.                         *)
Linked(o) ==
  LET s == heap[o]
      k == state[heap[o].run]
  IN
    s.run \in Runs =>
      /\ pc[s.run] # "idle"
      /\ Valid(s)
      /\ s.thread = k.thread
      /\ s.epoch <= k.epoch
      /\ s.epoch = k.epoch => s.ckpt = k.ckpt

Chained ==
  /\ Shape
  /\ Kept
  /\ CheckpointChain
  /\ \A r \in Runs : Valid(state[r]) /\ (Stored(r) => pc[r] # "idle")
  /\ \A o \in Calls : Linked(o)
  /\ \A c \in Calls : pc[c] = "pausing" => local[c].id # 0

-----------------------------------------------------------------------------
(* Links: why a version never leads to another run, in every deployment.      *)

Leads(i, r) == i = 0 \/ (i \in DOMAIN checkpoints /\ checkpoints[i].run = r)

(* An object knows a version of its own run, or none; and that of a run not    *)
(* stored yet is its creator's, which is not over.                           *)
KnowsItsVersion(o) ==
  LET s == heap[o] IN
    s.run \in Runs =>
      /\ pc[s.run] # "idle"
      /\ Leads(s.ckpt, s.run)
      /\ ~Stored(s.run) => o = s.run /\ s.status \in {"PENDING", "RUNNING"}

(* The parent a put is to write leads back, whoever works on the object while  *)
(* the put is suspended; before its first put nobody else does.               *)
LedBack ==
  /\ Shape
  /\ Kept
  /\ LinksGoBack
  /\ \A r \in Runs : Stored(r) => pc[r] # "idle"
  /\ \A o \in Calls : KnowsItsVersion(o)
  /\ \A c \in Calls :
       Working(c) /\ ~Stored(RunOf(c)) => c = RunOf(c) /\ pc[c] = "putRegistering"
  /\ \A c \in Calls :
       pc[c] \in Writing /\ Stored(RunOf(c)) => Leads(Object(c).parent, RunOf(c))

-----------------------------------------------------------------------------
(* Lifecycle: where a call is, and where the machine of RunLifecycle is.       *)

Now(r) == Version(state[r])
Held(c) == Version(Object(c))

Tracks(c) ==
  LET v == Now(RunOf(c)) IN
    /\ Drives(c) /\ pc[c] # "pausing" => Held(c) = v
    /\ pc[c] = "pausing" => Held(c) = Lifecycle!Used(v)
    /\ pc[c] \in {"registering", "launching", "advancing"} => v.resume = None
    /\ pc[c] = "continuing" => v.resume # None
    /\ pc[c] = "executing" => Lifecycle!MayExecute(v)
    /\ pc[c] \in {"stepping", "pausing"} => Lifecycle!JustRecorded(RunOf(c))
    /\ pc[c] \in {"executing", "stepping", "pausing"} => local[c].at = v.step
    /\ pc[c] = "granting" /\ Held(c).epoch = v.epoch =>
         Held(c) = [v EXCEPT !.approved = @ \cup {v.approval}]
    /\ pc[c] = "resumed" /\ Held(c).epoch = v.epoch =>
         Held(c) = [v EXCEPT !.status = "RUNNING"]

(* An object that waits, and is as new as the store, holds what is stored, but *)
(* for an approval that was just entered into it.                            *)
Waits(o) ==
  LET v == Version(heap[o]) IN
    /\ v.epoch = Now(v.run).epoch
    /\ v.status \in {"WAITING_APPROVAL", "WAITING_INTERRUPT"}
    => v = Now(v.run) \/ \E c \in Calls : pc[c] = "granting" /\ ref[c] = o

(* A run that waits for an answer, and only such a run, is to move on from the *)
(* step that asked.                                                         *)
WaitsToMoveOn(r) ==
  /\ state[r].status = "WAITING_INTERRUPT" => state[r].resume # None
  /\ state[r].status = "WAITING_APPROVAL" => state[r].resume = None

Tracked ==
  /\ Ownership
  /\ Kept
  /\ \A c \in Calls : Tracks(c)
  /\ \A o \in Calls : InUse(o) => Waits(o)
  /\ \A r \in Runs : WaitsToMoveOn(r)

-----------------------------------------------------------------------------
(* Approvals: which of those entered in a run are still to be used.           *)

Usable(r, s) ==
  \/ \E c \in Calls :
       /\ Drives(c) /\ RunOf(c) = r
       /\ pc[c] \in {"executing", "stepping", "pausing"} => local[c].at # s
  \/ state[r].status = "WAITING_INTERRUPT"
  \/ state[r].status = "WAITING_APPROVAL" /\ state[r].approval # s

HasApproval(r, s) ==
  credit[r][s] >= 1 \/ (Secondhand(r, s) /\ reused[r][s] = 0)

Granted ==
  /\ Len(unused) = Len(checkpoints)
  /\ ApprovalsNotReused
  /\ \A r \in Runs, s \in Gated :
       s \in state[r].approved /\ Usable(r, s) => HasApproval(r, s)

-----------------------------------------------------------------------------
(* Drivers: why a run that is not over and does not wait has one.             *)

(* The deployments the theorem is about: nothing raises out of _advance, and   *)
(* a call that saves its request again is not suspended.                      *)
NothingRaises ==
  \A s \in Steps :
    /\ Requires[s] = {}
    /\ "badUpdate" \notin Outcomes[s]
    /\ "interrupt" \in Outcomes[s] => s \notin Illegal /\ MaxPending > 0

AtomicSync == "syncing" \notin Yields

(* A run that a call executes, but for the moment the call has just created a  *)
(* request for it, has no request of its present version, nor has a call that  *)
(* is about to save one: it may always ask.                                  *)
Busy(r) == \E c \in Calls : Drives(c) /\ pc[c] # "pausing" /\ RunOf(c) = r

Dated(r, e) ==
  /\ e <= state[r].epoch
  /\ Busy(r) => e < state[r].epoch

RequestsAreDated ==
  /\ \A r \in Runs : \A i \in DOMAIN requests[r] : Dated(r, requests[r][i].epoch)
  /\ \A c \in Calls : pc[c] = "deciding" => Dated(RunOf(c), local[c].request.epoch)
  /\ \A c \in Calls : pc[c] = "syncing" => Object(c).status = "WAITING_INTERRUPT"

(* Only a step that may interrupt its run asks, and no run is to move on from   *)
(* a step whose transition may be rejected.                                  *)
MovesAreLegal ==
  /\ \A o \in Calls : heap[o].resume \notin Illegal
  /\ \A r \in Runs : state[r].resume \notin Illegal
  /\ \A c \in Calls :
       pc[c] = "pausing" \/ (pc[c] = "stepping" /\ local[c].pauses) =>
         "interrupt" \in Outcomes[local[c].at]

Driven ==
  /\ Ownership
  /\ RequestsAreDated
  /\ MovesAreLegal
  /\ NoOrphanedRun

-----------------------------------------------------------------------------
(* Waits: why a run that waits for an answer can be given it.                  *)

(* Somebody took an answer for the run: a call that is about to persist it, one *)
(* whose put was refused, or one that died.                                  *)
TookAnswer(r) ==
  \/ \E c \in Calls : pc[c] = "resumed" /\ RunOf(c) = r
  \/ Overtaken(r)
  \/ Abandoned(r)

Answerable(r, i, e) ==
  /\ i \in DOMAIN requests[r]
  /\ LET q == requests[r][i] IN
       \/ q.status = "pending" /\ q.epoch = e
       \/ q.status = "expired"
       \/ q.status = "resolved" /\ TookAnswer(r)

Saving(r, i, e) ==
  \E c \in Calls : /\ pc[c] = "syncing"
                   /\ RunOf(c) = r
                   /\ local[c].id = i
                   /\ Object(c).epoch = e

(* A call saves the request of its own wait, and of no other.                  *)
SavesItsOwn(d) ==
  LET k == state[RunOf(d)] IN
    /\ local[d].id \in DOMAIN requests[RunOf(d)]
    /\ \A c \in Calls : pc[c] = "pausing" /\ RunOf(c) = RunOf(d) =>
         local[c].id # local[d].id
    /\ k.status = "WAITING_INTERRUPT" /\ k.interrupt = local[d].id =>
         Object(d).epoch = k.epoch

Awaits(r) ==
  LET k == state[r] IN
    \/ Answerable(r, k.interrupt, k.epoch)
    \/ /\ Answerable(r, k.interrupt, k.epoch - 1)
       /\ Abandoned(r) \/ Saving(r, k.interrupt, k.epoch)

Awaited ==
  /\ Ownership
  /\ \A d \in Calls : pc[d] = "syncing" => SavesItsOwn(d)
  /\ \A c \in Calls : pc[c] = "pausing" =>
       Answerable(RunOf(c), local[c].id, state[RunOf(c)].epoch)
  /\ \A r \in Runs : state[r].status = "WAITING_INTERRUPT" => Awaits(r)
-----------------------------------------------------------------------------
(* Requests: why a run has one open request at most.                           *)

(* The deployments the theorem is about have one process.                      *)
OneProcess == \A c, d \in Calls : ProcOf[c] = ProcOf[d]

Open(r, i) == i \in DOMAIN requests[r] /\ requests[r][i].status = "pending"
OnlyOpen(r, i) == \A j \in DOMAIN requests[r] : Open(r, j) => j = i
NoneOpen(r) == \A j \in DOMAIN requests[r] : ~Open(r, j)

(* What a call knows of the open requests of its run: it has created the one,   *)
(* or is about to save it again, or read it; or the answer it took, or the run  *)
(* it drives, has left none.                                                 *)
KnowsOpen(c) ==
  LET r == RunOf(c) IN
    /\ pc[c] \in {"pausing", "syncing"} => OnlyOpen(r, local[c].id)
    /\ pc[c] = "syncing" =>
         /\ state[r].status = "WAITING_INTERRUPT"
         /\ \A d \in Calls : pc[d] = "resumed" /\ RunOf(d) = r =>
              Object(d).epoch # state[r].epoch
    /\ pc[c] = "deciding" /\ local[c].request.status = "pending" =>
         OnlyOpen(r, local[c].id)
    /\ pc[c] = "resumed" /\ Object(c).epoch = state[r].epoch => NoneOpen(r)
    /\ Drives(c) /\ pc[c] # "pausing" => NoneOpen(r)

AskedOneByOne ==
  /\ Ownership
  /\ \A r \in Runs : \A i \in DOMAIN requests[r] :
       MaxPending > 0 /\ (Open(r, i) => OnlyOpen(r, i))
  /\ \A r \in Runs :
       state[r].status \notin {"PENDING", "RUNNING", "WAITING_INTERRUPT"} =>
         NoneOpen(r)
  /\ \A c \in Calls : KnowsOpen(c)
-----------------------------------------------------------------------------
(* Caches: why the only process of a deployment is never behind its store.     *)

AtomicLoad == "loading" \notin Yields

UpToDate(o) == heap[o].epoch = state[heap[o].run].epoch

(* What is cached is as new as the store, every call works on what is cached,   *)
(* and loads only what is not.                                               *)
CachesAreCurrent ==
  /\ Ownership
  /\ \A p \in Procs, r \in Runs : cache[p][r] # None => UpToDate(cache[p][r])
  /\ \A c \in Calls : Working(c) => cache[ProcOf[c]][RunOf(c)] = ref[c]
  /\ \A c \in Calls : pc[c] = "loading" =>
       UpToDate(c) /\ cache[ProcOf[c]][heap[c].run] = None
=============================================================================
