----------------------------- MODULE ThreadStore -----------------------------
(***************************************************************************)
(* Thread records (governai/runtime/thread_store.py) as an application keeps   *)
(* them, and archive_thread of the runtime (local.py), which archives through  *)
(* the store and then emits an audit event; the runtime calls nothing else of  *)
(* the store.                                                               *)
(***************************************************************************)
EXTENDS RunNames, Naturals, Sequences, FiniteSets

VARIABLES threads,  \* the record of each thread
          archiving, \* records archive_thread has still to emit an event for
          archived  \* the THREAD_ARCHIVED events emitted

threadVars == <<threads, archiving, archived>>

ThreadStatus == {"created", "active", "interrupted", "idle", "archived"}
NoThread == [status |-> "none", runs |-> <<>>]

ThreadsInit ==
  /\ threads = [t \in Threads |-> NoThread]
  /\ archiving = {}
  /\ archived = <<>>

(* Faulty variant of what follows: archiving twice is allowed. *)
AllowedAgain(status) ==
  IF status = "idle" \/ status = "archived" THEN {"active", "archived"}
  ELSE {"active", "idle", "interrupted"}

(* ALLOWED_THREAD_TRANSITIONS *)
Allowed(status) ==
  CASE status = "created" -> {"active"}
    [] status = "active" -> {"idle", "interrupted"}
    [] status = "interrupted" -> {"active"}
    [] status = "idle" -> {"active", "archived"}
    [] OTHER -> {}

(* A thread that exists is not created again (KeyError). *)
CreateThread(t) ==
  /\ threads[t] = NoThread
  /\ threads' = [threads EXCEPT ![t].status = "created"]
  /\ UNCHANGED <<archiving, archived>>

Transition(t, status) ==
  /\ threads[t] # NoThread
  /\ status \in Allowed(threads[t].status)
  /\ threads' = [threads EXCEPT ![t].status = status]

TransitionThread(t, status) == Transition(t, status) /\ UNCHANGED <<archiving, archived>>

(* add_run_id looks neither at the status nor at the runs there are. *)
AddRunId(t, r) ==
  /\ threads[t] # NoThread
  /\ threads' = [threads EXCEPT ![t].runs = Append(@, r)]
  /\ UNCHANGED <<archiving, archived>>

ArchiveThread(t) ==
  /\ Transition(t, "archived")
  /\ archiving' = archiving \cup {[thread |-> t, runs |-> threads[t].runs]}
  /\ UNCHANGED archived

EmitArchived(record) ==
  /\ record \in archiving
  /\ archiving' = archiving \ {record}
  /\ archived' = Append(archived, record)
  /\ UNCHANGED threads

(* Whatever calls race for a thread, one at most archives it, for good, and    *)
(* its event names runs the record has, in the order they were added.        *)
Announced(t) ==
  {record \in archiving \cup {archived[n] : n \in DOMAIN archived} : record.thread = t}

ArchivedOnce ==
  \A t \in Threads :
    /\ Cardinality({n \in DOMAIN archived : archived[n].thread = t})
         + Cardinality({record \in archiving : record.thread = t}) <= 1
    /\ \A record \in Announced(t) :
         /\ threads[t].status = "archived"
         /\ SubSeq(threads[t].runs, 1, Len(record.runs)) = record.runs
=============================================================================
