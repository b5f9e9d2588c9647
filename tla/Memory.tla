-------------------------------- MODULE Memory --------------------------------
(***************************************************************************)
(* What the steps of all runs of a runtime share while they execute: the      *)
(* memory (governai/memory/: scoped, auditing and dictionary connectors), the  *)
(* secret registry (runtime/secrets.py) and the audit log (audit/).           *)
(*                                                                         *)
(* DictMemoryConnector never suspends; another connector, and the emission of  *)
(* an event, may.                                                           *)
(***************************************************************************)
EXTENDS RunNames, Integers, FiniteSets, Bags

CONSTANTS Tasks,     \* the steps that execute, and calls they gather
          RunOf,     \* the run of each task
          ThreadOf,  \* the thread of each run
          Keys, Secrets,
          ExplicitTargets, \* the targets steps name
          MaxEvents  \* bound on the operations

ASSUME MemoryConstants ==
  /\ RunOf \in [Tasks -> Runs]
  /\ ThreadOf \in [Runs -> Threads]
  /\ ExplicitTargets \subseteq Runs \cup Threads \cup {"__shared__"}
  /\ MaxEvents \in Nat

VARIABLES connector, \* "dict", or one that may "suspend"
          redacts,   \* whether the runtime has a secrets_provider
          escaped,   \* the secrets whose text JSON writes in another way
          memory,    \* the entries, by scope, target and key
          known,     \* the secrets each run has come to know
          registry,  \* those registered for redaction
          task,      \* what each task is doing
          log        \* the events of memory operations, in whatever order

memoryVars == <<connector, redacts, escaped, memory, known, registry, task, log>>

Scopes == {"run", "thread", "shared"}
Shared == "__shared__"
Targets == Runs \cup Threads \cup {Shared}
Places == Scopes \X Targets \X Keys

(* An entry is who wrote it, whether to a target of its own choice, and the    *)
(* secrets in its value.                                                    *)
NoEntry == [writer |-> None, explicit |-> FALSE, secrets |-> {}]
NoTask == [pc |-> "idle", place |-> <<>>, explicit |-> FALSE, secrets |-> {},
           event |-> "none", there |-> FALSE, says |-> {}]

MemoryInit ==
  /\ connector \in {"dict", "suspends"}
  /\ redacts \in BOOLEAN
  /\ escaped \in SUBSET Secrets
  /\ memory = [p \in Places |-> NoEntry]
  /\ known = [r \in Runs |-> {}]
  /\ registry = {}
  /\ task = [k \in Tasks |-> NoTask]
  /\ log = EmptyBag

Idle(k) == task[k].pc = "idle"
Started == Cardinality({k \in Tasks : ~Idle(k)}) + BagCardinality(log)

(* ScopedMemoryConnector._resolve_target; every run has a thread. *)
ResolveTarget(scope, target, r) ==
  CASE target # None -> target
    [] target = None /\ scope = "run" -> r
    [] target = None /\ scope = "thread" -> ThreadOf[r]
    [] OTHER -> Shared

(* An operation of the memory of the context: its query may say what the run    *)
(* knows.                                                                   *)
Begin(k, kind, scope, target, key, says, secrets) ==
  LET r == RunOf[k]
      place == <<scope, ResolveTarget(scope, target, r), key>>
      t == [NoTask EXCEPT !.place = place, !.explicit = target # None,
                          !.event = kind, !.says = says, !.secrets = secrets]
  IN
    /\ Idle(k) /\ Started < MaxEvents
    /\ says \cup secrets \subseteq known[r]
    /\ task' = [task EXCEPT ![k] = [t EXCEPT !.pc = "call"]]
    /\ UNCHANGED <<connector, redacts, escaped, memory, known, registry, log>>

Entry(k) == memory[task[k].place]
Present(k) == Entry(k) # NoEntry
Emits(k, there) == task' = [task EXCEPT ![k].pc = "emit", ![k].there = there]

(* read, and search, which reads the entries of a bucket that match. *)
Read(k) ==
  /\ task[k].pc = "call" /\ task[k].event = "read"
  /\ known' = [known EXCEPT ![RunOf[k]] = @ \cup Entry(k).secrets]
  /\ Emits(k, Present(k))
  /\ UNCHANGED <<connector, redacts, escaped, memory, registry, log>>

(* write reads first, to know whether it creates the entry. *)
Stored(k) ==
  [memory EXCEPT ![task[k].place] =
     [writer |-> RunOf[k], explicit |-> task[k].explicit, secrets |-> task[k].secrets]]

Write(k) ==
  /\ task[k].pc = "call" /\ task[k].event = "write"
  /\ IF connector = "dict"
     THEN memory' = Stored(k) /\ Emits(k, Present(k))
     ELSE /\ task' = [task EXCEPT ![k].pc = "write", ![k].there = Present(k)]
          /\ UNCHANGED memory
  /\ UNCHANGED <<connector, redacts, escaped, known, registry, log>>

WriteLater(k) ==
  /\ task[k].pc = "write"
  /\ memory' = Stored(k)
  /\ Emits(k, task[k].there)
  /\ UNCHANGED <<connector, redacts, escaped, known, registry, log>>

(* delete raises KeyError for what is not there, and emits an event anyway.    *)
(* Faulty variant of the event: found, whatever happened.                   *)
ReportsFoundAlways(k) == TRUE
ReportsFound(k) == Present(k)

Delete(k) ==
  /\ task[k].pc = "call" /\ task[k].event = "delete"
  /\ memory' = [memory EXCEPT ![task[k].place] = NoEntry]
  /\ Emits(k, ReportsFound(k))
  /\ UNCHANGED <<connector, redacts, escaped, known, registry, log>>

(* RedactingAuditEmitter replaces, in the JSON of the event, what is registered *)
(* by now; a value that JSON escapes is not found there.                     *)
Found(values) == IF redacts THEN values \ escaped ELSE {}

Redacted(k) == task[k].says \ Found(registry)

(* The registry is the runtime's, and outlives the step.  Faulty variant: it is *)
(* emptied when the step is done with the memory.                           *)
EmptyRegistry == {}
KeptRegistry == registry

EventOf(k) ==
  [event |-> task[k].event, place |-> task[k].place, there |-> task[k].there]

Emit(k) ==
  /\ task[k].pc = "emit"
  /\ log' = log (+) SetToBag({[event |-> EventOf(k), shows |-> Redacted(k)]})
  /\ task' = [task EXCEPT ![k] = NoTask]
  /\ registry' = KeptRegistry
  /\ UNCHANGED <<connector, redacts, escaped, memory, known>>

(* resolve_secret registers the value before the step has it. *)
ResolveSecret(k, s) ==
  /\ Idle(k) /\ redacts
  /\ registry' = registry \cup {s}
  /\ known' = [known EXCEPT ![RunOf[k]] = @ \cup {s}]
  /\ UNCHANGED <<connector, redacts, escaped, memory, task, log>>

-----------------------------------------------------------------------------
(* Properties *)

(* A run finds under its own scope only what it wrote itself, and under its    *)
(* thread's what runs of the thread wrote, unless the writer named the target. *)
MemoryIsolated ==
  \A p \in Places :
    memory[p] # NoEntry /\ ~memory[p].explicit =>
      LET writer == memory[p].writer IN
        /\ p[1] = "run" => p[2] = writer
        /\ p[1] = "thread" => p[2] = ThreadOf[writer]
        /\ p[1] = "shared" => p[2] = Shared

(* The created and found flags of the events of an entry add up to whether it  *)
(* is there, in whatever order they reach the log, if the connector does not   *)
(* suspend (otherwise two writers may both be told they created it).         *)
Logged(e) == \* its occurrences in the log
  UNION {{l} \X (1 .. log[l]) : l \in {m \in DOMAIN log : m.event = e}}
Emitting(e) == {k \in Tasks : task[k].pc = "emit" /\ EventOf(k) = e}
Count(e) == Cardinality(Logged(e)) + Cardinality(Emitting(e))

FlagsAddUp ==
  connector = "dict" =>
    \A p \in Places :
      Count([event |-> "write", place |-> p, there |-> FALSE])
        - Count([event |-> "delete", place |-> p, there |-> TRUE])
        = (IF memory[p] = NoEntry THEN 0 ELSE 1)

(* No event shows a secret, whoever resolved it and however it came to the run *)
(* that emits the event: SecretRegistry is one for all runs of the runtime.    *)
(* What JSON escapes is excepted.                                           *)
SecretsRedacted == \A logged \in DOMAIN log : logged.shows \subseteq escaped
=============================================================================
