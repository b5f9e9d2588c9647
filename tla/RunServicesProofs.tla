-------------------------- MODULE RunServicesProofs --------------------------
(***************************************************************************)
(* Proofs about RunServices: the memory keeps the entries of runs and threads  *)
(* apart, the log shows no secret and its flags tell what is in the memory, a   *)
(* thread is archived once, and updates of channels are applied as a whole.    *)
(***************************************************************************)
EXTENDS RunServices, SequenceTheorems, FiniteSetTheorems, WellFoundedInduction, TLAPS

Entries == [writer : Runs \cup {None}, explicit : BOOLEAN, secrets : SUBSET Secrets]
TaskRecords ==
  [pc : {"idle", "call", "write", "emit"}, place : Places \cup {<<>>},
   explicit : BOOLEAN, secrets : SUBSET Secrets,
   event : {"none", "read", "write", "delete"}, there : BOOLEAN, says : SUBSET Secrets]

MemoryTypeOK ==
  /\ memory \in [Places -> Entries]
  /\ known \in [Runs -> SUBSET Secrets]
  /\ registry \subseteq Secrets
  /\ task \in [Tasks -> TaskRecords]
  /\ \A k \in Tasks : ~Idle(k) => task[k].place \in Places

(* Whatever a run knows, an entry holds or a query says was resolved through    *)
(* the registry, so it is registered before it reaches any event.            *)
SecretsKnown ==
  /\ \A r \in Runs : known[r] \subseteq registry
  /\ \A p \in Places : memory[p].secrets \subseteq registry
  /\ \A k \in Tasks : task[k].secrets \subseteq registry /\ task[k].says \subseteq registry
  /\ ~redacts => registry = {}

(* Where an operation without a target of its own goes. *)
OwnPlace(p, r) ==
  /\ p[1] = "run" => p[2] = r
  /\ p[1] = "thread" => p[2] = ThreadOf[r]
  /\ p[1] = "shared" => p[2] = Shared

PlacesOwn ==
  \A k \in Tasks : ~Idle(k) /\ ~task[k].explicit => OwnPlace(task[k].place, RunOf[k])

MemoryInv ==
  /\ MemoryTypeOK /\ SecretsKnown /\ PlacesOwn
  /\ MemoryIsolated /\ SecretsRedacted

-----------------------------------------------------------------------------
(* The place of an operation. *)
LEMMA ResolvedPlace ==
  ASSUME NEW scope \in Scopes, NEW target \in ExplicitTargets \cup {None},
         NEW r \in Runs, NEW key \in Keys
  PROVE  /\ <<scope, ResolveTarget(scope, target, r), key>> \in Places
         /\ target = None => OwnPlace(<<scope, ResolveTarget(scope, target, r), key>>, r)
<1>1. ThreadOf[r] \in Threads
  BY MemoryConstants
<1>2. CASE target # None
  <2>1. ResolveTarget(scope, target, r) = target
    BY <1>2 DEF ResolveTarget
  <2>2. target \in Targets
    BY <1>2, MemoryConstants DEF Targets, Shared
  <2>3. QED BY <1>2, <2>1, <2>2 DEF Places
<1>3. CASE target = None
  <2>1. /\ scope = "run" => ResolveTarget(scope, target, r) = r
        /\ scope = "thread" => ResolveTarget(scope, target, r) = ThreadOf[r]
        /\ scope = "shared" => ResolveTarget(scope, target, r) = Shared
    BY <1>3 DEF ResolveTarget
  <2>2. ResolveTarget(scope, target, r) \in Targets
    BY <1>1, <2>1 DEF Scopes, Targets
  <2>3. QED BY <2>1, <2>2 DEF Places, OwnPlace
<1>4. QED BY <1>2, <1>3

(* What every operation has at hand. *)
LEMMA TaskFields ==
  ASSUME MemoryInv, NEW k \in Tasks
  PROVE  /\ task[k] \in TaskRecords
         /\ RunOf[k] \in Runs /\ known[RunOf[k]] \subseteq registry
         /\ registry \subseteq Secrets
         /\ ~Idle(k) => /\ task[k].place \in Places
                        /\ Entry(k) \in Entries
                        /\ Entry(k).secrets \subseteq registry
  BY MemoryConstants DEF MemoryInv, MemoryTypeOK, SecretsKnown, Entry

(* An operation that turns to another phase keeps what it was about. *)
LEMMA TaskMoves ==
  ASSUME MemoryInv, NEW k \in Tasks, NEW t \in TaskRecords,
         task' = [task EXCEPT ![k] = t],
         UNCHANGED <<redacts, escaped, log>>,
         t.pc # "idle" => t.place \in Places,
         t.pc # "idle" /\ ~t.explicit => OwnPlace(t.place, RunOf[k]),
         t.secrets \subseteq registry', t.says \subseteq registry',
         registry \subseteq registry', registry' \subseteq Secrets,
         ~redacts => registry' = {},
         known' \in [Runs -> SUBSET Secrets],
         \A r \in Runs : known'[r] \subseteq registry',
         memory' \in [Places -> Entries],
         \A p \in Places : memory'[p].secrets \subseteq registry',
         MemoryIsolated'
  PROVE  MemoryInv'
<1>1. /\ task' \in [Tasks -> TaskRecords] /\ task'[k] = t
      /\ \A j \in Tasks \ {k} : task'[j] = task[j]
  BY DEF MemoryInv, MemoryTypeOK
<1>2. MemoryTypeOK'
  BY <1>1 DEF MemoryInv, MemoryTypeOK, Idle
<1>3. SecretsKnown'
  BY <1>1 DEF MemoryInv, SecretsKnown
<1>4. PlacesOwn'
  BY <1>1 DEF MemoryInv, PlacesOwn, Idle
<1>5. SecretsRedacted'
  BY DEF MemoryInv, SecretsRedacted
<1>6. QED BY <1>2, <1>3, <1>4, <1>5 DEF MemoryInv

(* An operation begins with what its run knows. *)
LEMMA BeginKeeps ==
  ASSUME MemoryInv, NEW k \in Tasks, NEW kind \in {"read", "write", "delete"},
         NEW scope \in Scopes, NEW target \in ExplicitTargets \cup {None},
         NEW key \in Keys, NEW says \in SUBSET Secrets, NEW secrets \in SUBSET Secrets,
         Begin(k, kind, scope, target, key, says, secrets)
  PROVE  MemoryInv'
<1> DEFINE r == RunOf[k]
           place == <<scope, ResolveTarget(scope, target, r), key>>
           t == [NoTask EXCEPT !.place = place, !.explicit = target # None, !.event = kind,
                               !.says = says, !.secrets = secrets, !.pc = "call"]
<1>1. r \in Runs /\ known[r] \subseteq registry /\ registry \subseteq Secrets
  BY TaskFields
<1>2. place \in Places /\ (target = None => OwnPlace(place, r))
  BY <1>1, ResolvedPlace
<1> HIDE DEF r, place
<1>3. t \in TaskRecords
  BY <1>2 DEF NoTask, TaskRecords
<1>4. /\ t.pc = "call" /\ t.place = place /\ t.secrets = secrets /\ t.says = says
      /\ ~t.explicit => target = None
  BY DEF NoTask
<1>5. task' = [task EXCEPT ![k] = t]
  BY DEF Begin, NoTask, r, place
<1>6. says \subseteq registry /\ secrets \subseteq registry
  BY <1>1 DEF Begin, r
<1> HIDE DEF t
<1>7. UNCHANGED <<redacts, escaped, log, registry, known, memory>>
  BY DEF Begin
<1>8. MemoryIsolated'
  BY <1>7 DEF MemoryInv, MemoryIsolated
<1>9. QED
  BY <1>1, <1>2, <1>3, <1>4, <1>5, <1>6, <1>7, <1>8, TaskMoves
     DEF MemoryInv, MemoryTypeOK, SecretsKnown, r

(* An operation that goes on in another phase, with the flag for its event. *)
LEMMA PhaseRecord ==
  ASSUME MemoryInv, NEW k \in Tasks, ~Idle(k),
         NEW q \in {"write", "emit"}, NEW there \in BOOLEAN
  PROVE  LET t == [task[k] EXCEPT !.pc = q, !.there = there] IN
           /\ t \in TaskRecords
           /\ t.place \in Places
           /\ ~t.explicit => OwnPlace(t.place, RunOf[k])
           /\ t.secrets \subseteq registry /\ t.says \subseteq registry
           /\ t.place = task[k].place /\ t.explicit = task[k].explicit
<1> DEFINE t == [task[k] EXCEPT !.pc = q, !.there = there]
<1>1. task[k] \in TaskRecords
  BY TaskFields
<1>2. t \in TaskRecords
  BY <1>1 DEF TaskRecords
<1>3. /\ t.place = task[k].place /\ t.explicit = task[k].explicit
      /\ t.secrets = task[k].secrets /\ t.says = task[k].says
  BY <1>1 DEF TaskRecords
<1>4. QED BY <1>2, <1>3 DEF MemoryInv, MemoryTypeOK, PlacesOwn, SecretsKnown

(* Such a step, whatever it makes of the memory and of what the run knows. *)
LEMMA OperationKeeps ==
  ASSUME MemoryInv, NEW k \in Tasks, ~Idle(k),
         NEW q \in {"write", "emit"}, NEW there \in BOOLEAN,
         task' = [task EXCEPT ![k] = [task[k] EXCEPT !.pc = q, !.there = there]],
         UNCHANGED <<redacts, escaped, log, registry>>,
         known' \in [Runs -> SUBSET Secrets],
         \A r \in Runs : known'[r] \subseteq registry,
         memory' \in [Places -> Entries],
         \A p \in Places : memory'[p].secrets \subseteq registry,
         MemoryIsolated'
  PROVE  MemoryInv'
<1> DEFINE t == [task[k] EXCEPT !.pc = q, !.there = there]
<1>1. /\ t \in TaskRecords /\ t.place \in Places
      /\ ~t.explicit => OwnPlace(t.place, RunOf[k])
      /\ t.secrets \subseteq registry /\ t.says \subseteq registry
  BY PhaseRecord
<1>2. task' = [task EXCEPT ![k] = t]
  OBVIOUS
<1> HIDE DEF t
<1>3. registry \subseteq Secrets /\ (~redacts => registry = {})
  BY DEF MemoryInv, MemoryTypeOK, SecretsKnown
<1>4. QED BY <1>1, <1>2, <1>3, TaskMoves

(* What was written is what the task was about, at its place. *)
LEMMA StoredEntry ==
  ASSUME MemoryInv, NEW k \in Tasks, ~Idle(k), memory' = Stored(k)
  PROVE  /\ memory' \in [Places -> Entries]
         /\ \A p \in Places : memory'[p].secrets \subseteq registry
         /\ MemoryIsolated'
<1> DEFINE p == task[k].place
           x == [writer |-> RunOf[k], explicit |-> task[k].explicit,
                 secrets |-> task[k].secrets]
<1>1. /\ task[k] \in TaskRecords /\ RunOf[k] \in Runs /\ p \in Places
      /\ task[k].secrets \subseteq registry
      /\ ~task[k].explicit => OwnPlace(p, RunOf[k])
  BY TaskFields DEF MemoryInv, SecretsKnown, PlacesOwn
<1>2. x \in Entries
  BY <1>1 DEF Entries, TaskRecords
<1>3. /\ memory' \in [Places -> Entries] /\ memory'[p] = x
      /\ \A o \in Places \ {p} : memory'[o] = memory[o]
  BY <1>1, <1>2 DEF Stored, MemoryInv, MemoryTypeOK
<1>4. \A o \in Places : memory'[o].secrets \subseteq registry
  BY <1>1, <1>3 DEF MemoryInv, SecretsKnown
<1>5. MemoryIsolated'
  BY <1>1, <1>3 DEF MemoryInv, MemoryIsolated, OwnPlace
<1>6. QED BY <1>3, <1>4, <1>5

LEMMA ReadKeeps ==
  ASSUME MemoryInv, NEW k \in Tasks, Read(k)
  PROVE  MemoryInv'
<1> DEFINE r == RunOf[k]
<1>1. ~Idle(k) /\ UNCHANGED <<redacts, escaped, log, registry, memory>>
  BY DEF Read, Idle
<1>2. /\ r \in Runs /\ Entry(k).secrets \subseteq registry /\ registry \subseteq Secrets
  BY <1>1, TaskFields
<1>3. known' = [known EXCEPT ![r] = @ \cup Entry(k).secrets]
  BY DEF Read
<1> HIDE DEF r
<1>4. /\ known' \in [Runs -> SUBSET Secrets]
      /\ \A o \in Runs : known'[o] \subseteq registry
  BY <1>2, <1>3 DEF MemoryInv, MemoryTypeOK, SecretsKnown
<1>5. MemoryIsolated'
  BY <1>1 DEF MemoryInv, MemoryIsolated
<1>6. task' = [task EXCEPT ![k] = [task[k] EXCEPT !.pc = "emit", !.there = Present(k)]]
  BY TaskFields DEF Read, Emits, TaskRecords, MemoryInv, MemoryTypeOK
<1>7. Present(k) \in BOOLEAN
  BY DEF Present
<1>8. QED
  BY <1>1, <1>4, <1>5, <1>6, <1>7, OperationKeeps DEF MemoryInv, MemoryTypeOK, SecretsKnown

LEMMA WriteKeeps ==
  ASSUME MemoryInv, NEW k \in Tasks, Write(k) \/ WriteLater(k)
  PROVE  MemoryInv'
<1>1. ~Idle(k) /\ UNCHANGED <<redacts, escaped, log, registry, known>>
  BY DEF Write, WriteLater, Idle
<1>2. task[k].there \in BOOLEAN /\ Present(k) \in BOOLEAN
  BY TaskFields DEF TaskRecords, Present
<1>3. PICK q \in {"write", "emit"}, there \in BOOLEAN :
        task' = [task EXCEPT ![k] = [task[k] EXCEPT !.pc = q, !.there = there]]
  <2>1. task \in [Tasks -> TaskRecords] /\ task[k] \in TaskRecords
    BY TaskFields DEF MemoryInv, MemoryTypeOK
  <2>2. \/ task' = [task EXCEPT ![k].pc = "emit", ![k].there = Present(k)]
        \/ task' = [task EXCEPT ![k].pc = "write", ![k].there = Present(k)]
        \/ task' = [task EXCEPT ![k].pc = "emit", ![k].there = task[k].there]
    BY DEF Write, WriteLater, Emits
  <2>3. ASSUME NEW q \in {"write", "emit"}, NEW there \in BOOLEAN,
               task' = [task EXCEPT ![k].pc = q, ![k].there = there]
        PROVE  task' = [task EXCEPT ![k] = [task[k] EXCEPT !.pc = q, !.there = there]]
    BY <2>1, <2>3 DEF TaskRecords
  <2>4. QED BY <1>2, <2>2, <2>3
<1>4. memory' = Stored(k) \/ UNCHANGED memory
  BY DEF Write, WriteLater
<1>5. /\ memory' \in [Places -> Entries]
      /\ \A p \in Places : memory'[p].secrets \subseteq registry
      /\ MemoryIsolated'
  <2>1. CASE memory' = Stored(k)
    BY <1>1, <2>1, StoredEntry
  <2>2. CASE UNCHANGED memory
    BY <2>2 DEF MemoryInv, MemoryTypeOK, SecretsKnown, MemoryIsolated
  <2>3. QED BY <1>4, <2>1, <2>2
<1>6. QED
  BY <1>1, <1>3, <1>5, OperationKeeps DEF MemoryInv, MemoryTypeOK, SecretsKnown

LEMMA DeleteKeeps ==
  ASSUME MemoryInv, NEW k \in Tasks, Delete(k)
  PROVE  MemoryInv'
<1>1. ~Idle(k) /\ UNCHANGED <<redacts, escaped, log, registry, known>>
  BY DEF Delete, Idle
<1>2. ReportsFound(k) \in BOOLEAN
  BY DEF ReportsFound, Present
<1>3. task' = [task EXCEPT ![k] = [task[k] EXCEPT !.pc = "emit", !.there = ReportsFound(k)]]
  BY TaskFields DEF Delete, Emits, TaskRecords, MemoryInv, MemoryTypeOK
<1>4. NoEntry \in Entries /\ NoEntry.secrets = {}
  BY DEF NoEntry, Entries
<1>5. /\ memory' \in [Places -> Entries]
      /\ \A p \in Places : memory'[p] = NoEntry \/ memory'[p] = memory[p]
  BY <1>4 DEF Delete, MemoryInv, MemoryTypeOK
<1>6. \A p \in Places : memory'[p].secrets \subseteq registry
  BY <1>4, <1>5 DEF MemoryInv, SecretsKnown
<1>7. MemoryIsolated'
  BY <1>5 DEF MemoryInv, MemoryIsolated
<1>8. QED
  BY <1>1, <1>2, <1>3, <1>5, <1>6, <1>7, OperationKeeps
     DEF MemoryInv, MemoryTypeOK, SecretsKnown

(* A bag with one more element. *)
LEMMA LogGrows ==
  ASSUME NEW B, NEW x
  PROVE  DOMAIN (B (+) SetToBag({x})) = DOMAIN B \cup {x}
  BY DEF (+), SetToBag

(* What an event shows was looked for in the registry when it was emitted. *)
LEMMA EmitKeeps ==
  ASSUME MemoryInv, NEW k \in Tasks, Emit(k)
  PROVE  MemoryInv'
<1>1. /\ UNCHANGED <<redacts, escaped, registry, known, memory>>
      /\ task' = [task EXCEPT ![k] = NoTask]
  BY DEF Emit, KeptRegistry
<1>2. NoTask \in TaskRecords
  BY DEF NoTask, TaskRecords
<1>3. /\ task' \in [Tasks -> TaskRecords] /\ task'[k] = NoTask
      /\ \A j \in Tasks \ {k} : task'[j] = task[j]
  BY <1>1, <1>2 DEF MemoryInv, MemoryTypeOK
<1>4. MemoryTypeOK'
  BY <1>1, <1>3 DEF MemoryInv, MemoryTypeOK, Idle, NoTask
<1>5. SecretsKnown'
  BY <1>1, <1>3 DEF MemoryInv, SecretsKnown, NoTask
<1>6. PlacesOwn'
  BY <1>3 DEF MemoryInv, PlacesOwn, Idle, NoTask
<1>7. MemoryIsolated'
  BY <1>1 DEF MemoryInv, MemoryIsolated
<1>8. Redacted(k) \subseteq escaped
  BY DEF MemoryInv, SecretsKnown, Redacted, Found
<1>9. DOMAIN log' = DOMAIN log \cup {[event |-> EventOf(k), shows |-> Redacted(k)]}
  BY LogGrows DEF Emit
<1>10. SecretsRedacted'
  BY <1>1, <1>8, <1>9 DEF MemoryInv, SecretsRedacted
<1>11. QED BY <1>4, <1>5, <1>6, <1>7, <1>10 DEF MemoryInv

(* A secret is registered before the run knows it. *)
LEMMA ResolveKeeps ==
  ASSUME MemoryInv, NEW k \in Tasks, NEW secret \in Secrets, ResolveSecret(k, secret)
  PROVE  MemoryInv'
<1> DEFINE r == RunOf[k]
<1>1. /\ UNCHANGED <<redacts, escaped, log, memory, task>> /\ redacts
      /\ registry' = registry \cup {secret}
      /\ known' = [known EXCEPT ![r] = @ \cup {secret}]
  BY DEF ResolveSecret
<1>2. r \in Runs
  BY TaskFields
<1> HIDE DEF r
<1>3. MemoryTypeOK'
  BY <1>1, <1>2 DEF MemoryInv, MemoryTypeOK, Idle
<1>4. SecretsKnown'
  BY <1>1, <1>2 DEF MemoryInv, MemoryTypeOK, SecretsKnown
<1>5. PlacesOwn' /\ MemoryIsolated' /\ SecretsRedacted'
  BY <1>1 DEF MemoryInv, PlacesOwn, Idle, MemoryIsolated, SecretsRedacted
<1>6. QED BY <1>3, <1>4, <1>5 DEF MemoryInv

-----------------------------------------------------------------------------
(* The invariant holds initially, and every step keeps it. *)
LEMMA MemoryInvInit == Init => MemoryInv
<1> SUFFICES ASSUME Init PROVE MemoryInv
  OBVIOUS
<1>1. NoEntry \in Entries /\ NoTask \in TaskRecords /\ NoEntry.secrets = {}
  BY DEF NoEntry, NoTask, Entries, TaskRecords
<1>2. MemoryTypeOK
  BY <1>1 DEF Init, MemoryInit, MemoryTypeOK, Idle, NoTask
<1>3. SecretsKnown
  BY <1>1 DEF Init, MemoryInit, SecretsKnown, NoTask
<1>4. PlacesOwn /\ MemoryIsolated
  BY DEF Init, MemoryInit, PlacesOwn, MemoryIsolated, Idle, NoTask
<1>5. DOMAIN log = {}
  BY DEF Init, MemoryInit, EmptyBag, SetToBag
<1>6. QED BY <1>2, <1>3, <1>4, <1>5 DEF MemoryInv, SecretsRedacted

LEMMA MemoryInvStep == MemoryInv /\ [Next]_vars => MemoryInv'
<1> SUFFICES ASSUME MemoryInv, [Next]_vars PROVE MemoryInv'
  OBVIOUS
<1>1. CASE UNCHANGED memoryVars
  BY <1>1 DEF memoryVars, MemoryInv, MemoryTypeOK, SecretsKnown, PlacesOwn, Idle,
              MemoryIsolated, SecretsRedacted
<1>2. CASE UseMemory
  BY <1>2, BeginKeeps, ReadKeeps, WriteKeeps, DeleteKeeps, EmitKeeps, ResolveKeeps
     DEF UseMemory
<1>3. QED BY <1>1, <1>2 DEF Next, UseThreads, UseChannels, vars

LEMMA MemoryInvAlways == Spec => []MemoryInv
  BY MemoryInvInit, MemoryInvStep, PTL DEF Spec

(* No event shows a secret that JSON leaves as it is (RedactingAuditEmitter).    *)
THEOREM LogShowsNoSecret == Spec => []SecretsRedacted
<1>1. MemoryInv => SecretsRedacted
  BY DEF MemoryInv
<1>2. QED BY <1>1, MemoryInvAlways, PTL

(* The entries of a run or thread are its own, however operations interleave    *)
(* (ScopedMemoryConnector).                                                 *)
THEOREM MemoryIsIsolated == Spec => []MemoryIsolated
<1>1. MemoryInv => MemoryIsolated
  BY DEF MemoryInv
<1>2. QED BY <1>1, MemoryInvAlways, PTL

-----------------------------------------------------------------------------
(* The created and found flags add up: a connector that does not suspend       *)
(* changes the memory and decides the flag in one step, and an event is        *)
(* counted until it is emitted among the tasks and then in the log.           *)
Events == [event : {"read", "write", "delete"}, place : Places, there : BOOLEAN]

FlagsInv ==
  /\ MemoryInv
  /\ log \in [DOMAIN log -> Nat]
  /\ \A e \in Events : IsFiniteSet(Logged(e)) /\ IsFiniteSet(Emitting(e))
  /\ connector = "dict" => \A k \in Tasks : task[k].pc # "write"
  /\ FlagsAddUp

(* The event of an entry that appears, and of one that goes. *)
Creation(p) == [event |-> "write", place |-> p, there |-> FALSE]
Removal(p) == [event |-> "delete", place |-> p, there |-> TRUE]

(* The events that the flags of an entry are about are different events. *)
LEMMA FlagEvents ==
  ASSUME NEW p \in Places
  PROVE  Creation(p) \in Events /\ Removal(p) \in Events /\ Creation(p) # Removal(p)
<1>1. Creation(p) \in Events
  BY DEF Creation, Events
<1>2. Removal(p) \in Events
  BY DEF Removal, Events
<1>3. Creation(p).event = "write" /\ Removal(p).event = "delete"
  BY DEF Creation, Removal
<1>4. QED BY <1>1, <1>2, <1>3

(* The occurrences of an event in a bag, and one more of them. *)
Occurrences(f, e) == UNION {{l} \X (1 .. f[l]) : l \in {m \in DOMAIN f : m.event = e}}

LEMMA OccurrenceAdded ==
  ASSUME log \in [DOMAIN log -> Nat], NEW x, log' = log (+) SetToBag({x})
  PROVE  /\ log' \in [DOMAIN log' -> Nat]
         /\ DOMAIN log' = DOMAIN log \cup {x}
         /\ \A l \in DOMAIN log \ {x} : log'[l] = log[l]
         /\ x \in DOMAIN log => log'[x] = log[x] + 1
         /\ x \notin DOMAIN log => log'[x] = 1
  BY DEF (+), SetToBag

LEMMA OccurrenceCounts ==
  ASSUME NEW f, f \in [DOMAIN f -> Nat], NEW x, NEW e, NEW g, g \in [DOMAIN g -> Nat],
         DOMAIN g = DOMAIN f \cup {x},
         \A l \in DOMAIN f \ {x} : g[l] = f[l],
         x \in DOMAIN f => g[x] = f[x] + 1,
         x \notin DOMAIN f => g[x] = 1
  PROVE  /\ x.event # e => Occurrences(g, e) = Occurrences(f, e)
         /\ x.event = e =>
              \E o : /\ o \notin Occurrences(f, e)
                    /\ Occurrences(g, e) = Occurrences(f, e) \cup {o}
<1>1. x \in DOMAIN g
  OBVIOUS
<1>2. \A h, o : o \in Occurrences(h, e) <=>
                  \E l \in DOMAIN h : \E i \in 1 .. h[l] : l.event = e /\ o = <<l, i>>
  BY DEF Occurrences
<1>3. \A l \in DOMAIN g : l # x => l \in DOMAIN f /\ g[l] = f[l]
  OBVIOUS
<1>4. \A l \in DOMAIN f : l \in DOMAIN g /\ (l # x => g[l] = f[l])
  OBVIOUS
<1>5. g[x] \in Nat /\ g[x] >= 1
  OBVIOUS
<1>6. \A i : i \in 1 .. g[x] <=> (x \in DOMAIN f /\ i \in 1 .. f[x]) \/ i = g[x]
  BY <1>5
<1>7. ASSUME NEW o, o \in Occurrences(g, e)
      PROVE  o \in Occurrences(f, e) \/ (x.event = e /\ o = <<x, g[x]>>)
  <2>1. PICK l \in DOMAIN g : \E i \in 1 .. g[l] : l.event = e /\ o = <<l, i>>
    BY <1>2, <1>7
  <2>2. PICK i \in 1 .. g[l] : l.event = e /\ o = <<l, i>>
    BY <2>1
  <2>3. CASE l = x
    BY <1>2, <1>6, <2>2, <2>3
  <2>4. CASE l # x
    BY <1>2, <1>3, <2>2, <2>4
  <2>5. QED BY <2>3, <2>4
<1>8. ASSUME NEW o, o \in Occurrences(f, e) PROVE o \in Occurrences(g, e)
  <2>1. PICK l \in DOMAIN f : \E i \in 1 .. f[l] : l.event = e /\ o = <<l, i>>
    BY <1>2, <1>8
  <2>2. PICK i \in 1 .. f[l] : l.event = e /\ o = <<l, i>>
    BY <2>1
  <2>3. l \in DOMAIN g /\ i \in 1 .. g[l]
    BY <1>4, <1>6, <2>2
  <2>4. QED BY <1>2, <2>2, <2>3
<1>9. ASSUME x.event = e PROVE <<x, g[x]>> \in Occurrences(g, e)
  BY <1>1, <1>2, <1>5, <1>9
<1>10. <<x, g[x]>> \notin Occurrences(f, e)
  <2>1. ASSUME NEW l \in DOMAIN f, NEW i \in 1 .. f[l], <<x, g[x]>> = <<l, i>> PROVE FALSE
    BY <2>1
  <2>2. QED BY <1>2, <2>1
<1>11. ASSUME x.event # e PROVE Occurrences(g, e) = Occurrences(f, e)
  BY <1>7, <1>8, <1>11
<1>12. ASSUME x.event = e
       PROVE  Occurrences(g, e) = Occurrences(f, e) \cup {<<x, g[x]>>}
  BY <1>7, <1>8, <1>9, <1>12
<1>13. QED BY <1>10, <1>11, <1>12

(* An event that is emitted is logged for itself, and for no other. *)
LEMMA LoggedOnce ==
  ASSUME log \in [DOMAIN log -> Nat], NEW x, log' = log (+) SetToBag({x}), NEW e
  PROVE  /\ log' \in [DOMAIN log' -> Nat]
         /\ x.event # e => Logged(e)' = Logged(e)
         /\ x.event = e =>
              \E o : o \notin Logged(e) /\ Logged(e)' = Logged(e) \cup {o}
<1>1. Logged(e) = Occurrences(log, e) /\ Logged(e)' = Occurrences(log', e)
  BY DEF Logged, Occurrences
<1>2. /\ log' \in [DOMAIN log' -> Nat]
      /\ DOMAIN log' = DOMAIN log \cup {x}
      /\ \A l \in DOMAIN log \ {x} : log'[l] = log[l]
      /\ x \in DOMAIN log => log'[x] = log[x] + 1
      /\ x \notin DOMAIN log => log'[x] = 1
  BY OccurrenceAdded
<1>3. PICK f, g : f = log /\ g = log'
  OBVIOUS
<1>4. /\ f \in [DOMAIN f -> Nat]
      /\ g \in [DOMAIN g -> Nat]
      /\ DOMAIN g = DOMAIN f \cup {x}
      /\ \A l \in DOMAIN f \ {x} : g[l] = f[l]
      /\ x \in DOMAIN f => g[x] = f[x] + 1
      /\ x \notin DOMAIN f => g[x] = 1
  BY <1>2, <1>3
<1>5. /\ x.event # e => Occurrences(g, e) = Occurrences(f, e)
      /\ x.event = e => \E o : /\ o \notin Occurrences(f, e)
                               /\ Occurrences(g, e) = Occurrences(f, e) \cup {o}
  BY <1>4, OccurrenceCounts
<1>6. QED BY <1>1, <1>2, <1>3, <1>5

(* A task that turns to the emission of an event, or from it, or to nothing    *)
(* else that counts.                                                       *)
LEMMA EmittingMoves ==
  ASSUME MemoryInv, NEW k \in Tasks, NEW t, task' = [task EXCEPT ![k] = t], NEW e
  PROVE  /\ t.pc = "emit" /\ EventOf(k)' = e => Emitting(e)' = Emitting(e) \cup {k}
         /\ ~(t.pc = "emit" /\ EventOf(k)' = e) => Emitting(e)' = Emitting(e) \ {k}
<1>1. task'[k] = t /\ \A j \in Tasks \ {k} : task'[j] = task[j]
  BY DEF MemoryInv, MemoryTypeOK
<1>2. \A j \in Tasks \ {k} : EventOf(j)' = EventOf(j)
  BY <1>1 DEF EventOf
<1>3. \A j \in Tasks \ {k} : j \in Emitting(e)' <=> j \in Emitting(e)
  BY <1>1, <1>2 DEF Emitting
<1>4. k \in Emitting(e)' <=> t.pc = "emit" /\ EventOf(k)' = e
  BY <1>1 DEF Emitting
<1>5. \A j : j \in Emitting(e)' \/ j \in Emitting(e) => j \in Tasks
  BY DEF Emitting
<1>6. QED BY <1>3, <1>4, <1>5

(* The counts are natural numbers. *)
LEMMA Counts ==
  ASSUME FlagsInv, NEW e \in Events
  PROVE  /\ Cardinality(Logged(e)) \in Nat /\ Cardinality(Emitting(e)) \in Nat
         /\ Count(e) \in Nat
<1>1. IsFiniteSet(Logged(e)) /\ IsFiniteSet(Emitting(e))
  BY DEF FlagsInv
<1>2. Cardinality(Logged(e)) \in Nat
  BY <1>1, FS_CardinalityType
<1>3. Cardinality(Emitting(e)) \in Nat
  BY <1>1, FS_CardinalityType
<1>4. QED BY <1>2, <1>3 DEF Count

(* Nothing logged, and a task that has not decided its flag begins to emit. *)
LEMMA CountRises ==
  ASSUME FlagsInv, UNCHANGED log, NEW k \in Tasks, task[k].pc # "emit",
         NEW t, task' = [task EXCEPT ![k] = t], NEW e \in Events
  PROVE  /\ IsFiniteSet(Logged(e)') /\ IsFiniteSet(Emitting(e)')
         /\ t.pc = "emit" /\ EventOf(k)' = e => Count(e)' = Count(e) + 1
         /\ ~(t.pc = "emit" /\ EventOf(k)' = e) => Count(e)' = Count(e)
<1>1. MemoryInv /\ IsFiniteSet(Logged(e)) /\ IsFiniteSet(Emitting(e))
  BY DEF FlagsInv
<1>2. Logged(e)' = Logged(e)
  BY DEF Logged
<1>3. k \notin Emitting(e)
  BY DEF Emitting
<1>4. /\ t.pc = "emit" /\ EventOf(k)' = e => Emitting(e)' = Emitting(e) \cup {k}
      /\ ~(t.pc = "emit" /\ EventOf(k)' = e) => Emitting(e)' = Emitting(e) \ {k}
  BY <1>1, EmittingMoves
<1>5. /\ IsFiniteSet(Emitting(e) \cup {k})
      /\ Cardinality(Emitting(e) \cup {k}) = Cardinality(Emitting(e)) + 1
  BY <1>1, <1>3, FS_AddElement
<1>6. Emitting(e) \ {k} = Emitting(e)
  BY <1>3
<1>7. Cardinality(Logged(e)) \in Nat /\ Cardinality(Emitting(e)) \in Nat
  BY Counts
<1>8. IsFiniteSet(Logged(e)') /\ IsFiniteSet(Emitting(e)')
  BY <1>1, <1>2, <1>4, <1>5, <1>6
<1>9. Count(e)' = Cardinality(Logged(e)) + Cardinality(Emitting(e)')
  BY <1>2 DEF Count
<1>10. ASSUME t.pc = "emit", EventOf(k)' = e PROVE Count(e)' = Count(e) + 1
  <2>1. Emitting(e)' = Emitting(e) \cup {k}
    BY <1>4, <1>10
  <2>2. Cardinality(Emitting(e)') = Cardinality(Emitting(e)) + 1
    BY <1>5, <2>1
  <2>3. QED BY <1>7, <1>9, <2>2 DEF Count
<1>11. ASSUME ~(t.pc = "emit" /\ EventOf(k)' = e) PROVE Count(e)' = Count(e)
  BY <1>4, <1>6, <1>9, <1>11 DEF Count
<1>12. QED BY <1>8, <1>10, <1>11

(* An event that is emitted is counted in the log instead. *)
LEMMA EmitCounts ==
  ASSUME FlagsInv, NEW k \in Tasks, Emit(k), NEW e \in Events
  PROVE  /\ IsFiniteSet(Logged(e)') /\ IsFiniteSet(Emitting(e)')
         /\ Count(e)' = Count(e)
<1> DEFINE x == [event |-> EventOf(k), shows |-> Redacted(k)]
<1>1. /\ MemoryInv /\ IsFiniteSet(Logged(e)) /\ IsFiniteSet(Emitting(e))
      /\ log \in [DOMAIN log -> Nat]
  BY DEF FlagsInv
<1>2. log' = log (+) SetToBag({x}) /\ x.event = EventOf(k)
  BY DEF Emit
<1> HIDE DEF x
<1>3. /\ x.event # e => Logged(e)' = Logged(e)
      /\ x.event = e => \E o : o \notin Logged(e) /\ Logged(e)' = Logged(e) \cup {o}
  BY <1>1, <1>2, LoggedOnce
<1>4. task' = [task EXCEPT ![k] = NoTask] /\ task[k].pc = "emit" /\ NoTask.pc # "emit"
  BY DEF Emit, NoTask
<1>5. Emitting(e)' = Emitting(e) \ {k}
  BY <1>1, <1>4, EmittingMoves
<1>6. k \in Emitting(e) <=> EventOf(k) = e
  BY <1>4 DEF Emitting
<1>7. Cardinality(Logged(e)) \in Nat /\ Cardinality(Emitting(e)) \in Nat
  BY Counts
<1>8. /\ IsFiniteSet(Emitting(e)')
      /\ Cardinality(Emitting(e)') =
           IF k \in Emitting(e) THEN Cardinality(Emitting(e)) - 1
           ELSE Cardinality(Emitting(e))
  BY <1>1, <1>5, FS_RemoveElement
<1>9. CASE EventOf(k) # e
  BY <1>1, <1>2, <1>3, <1>6, <1>8, <1>9 DEF Count
<1>10. CASE EventOf(k) = e
  <2>1. PICK o : o \notin Logged(e) /\ Logged(e)' = Logged(e) \cup {o}
    BY <1>2, <1>3, <1>10
  <2>2. /\ IsFiniteSet(Logged(e)')
        /\ Cardinality(Logged(e)') = Cardinality(Logged(e)) + 1
    BY <1>1, <2>1, FS_AddElement
  <2>3. QED BY <1>6, <1>7, <1>8, <1>10, <2>2 DEF Count
<1>11. QED BY <1>9, <1>10

(* What a step that changes no entry and decides no flag of one leaves. *)
LEMMA FlagsKept ==
  ASSUME FlagsInv, MemoryInv', UNCHANGED <<connector, memory>>,
         log' \in [DOMAIN log' -> Nat],
         \A e \in Events : IsFiniteSet(Logged(e)') /\ IsFiniteSet(Emitting(e)'),
         connector = "dict" => \A k \in Tasks : task'[k].pc # "write",
         connector = "dict" => \A p \in Places :
           Count(Creation(p))' = Count(Creation(p)) /\ Count(Removal(p))' = Count(Removal(p))
  PROVE  FlagsInv'
<1>1. FlagsAddUp'
  BY DEF FlagsInv, FlagsAddUp, Creation, Removal
<1>2. QED BY <1>1 DEF FlagsInv

LEMMA BeginFlags ==
  ASSUME FlagsInv, MemoryInv', NEW k \in Tasks, NEW kind \in {"read", "write", "delete"},
         NEW scope \in Scopes, NEW target \in ExplicitTargets \cup {None},
         NEW key \in Keys, NEW says \in SUBSET Secrets, NEW secrets \in SUBSET Secrets,
         Begin(k, kind, scope, target, key, says, secrets)
  PROVE  FlagsInv'
<1>1. PICK t : task' = [task EXCEPT ![k] = t] /\ t.pc = "call"
  <2> DEFINE place == <<scope, ResolveTarget(scope, target, RunOf[k]), key>>
             u == [NoTask EXCEPT !.place = place, !.explicit = target # None,
                                 !.event = kind, !.says = says, !.secrets = secrets]
             t == [u EXCEPT !.pc = "call"]
  <2>1. task' = [task EXCEPT ![k] = t]
    BY DEF Begin
  <2>2. t.pc = "call"
    BY DEF NoTask
  <2>3. QED BY <2>1, <2>2
<1>2. UNCHANGED <<connector, memory, log>> /\ task[k].pc # "emit"
  BY DEF Begin, Idle
<1>3. \A e \in Events : /\ IsFiniteSet(Logged(e)') /\ IsFiniteSet(Emitting(e)')
                        /\ Count(e)' = Count(e)
  BY <1>1, <1>2, CountRises
<1>4. \A p \in Places : Creation(p) \in Events /\ Removal(p) \in Events
  BY FlagEvents
<1>5. connector = "dict" => \A j \in Tasks : task'[j].pc # "write"
  BY <1>1 DEF FlagsInv, MemoryInv, MemoryTypeOK
<1>6. log' \in [DOMAIN log' -> Nat]
  BY <1>2 DEF FlagsInv
<1>7. QED BY <1>2, <1>3, <1>4, <1>5, <1>6, FlagsKept

LEMMA EmitFlags ==
  ASSUME FlagsInv, MemoryInv', NEW k \in Tasks, Emit(k)
  PROVE  FlagsInv'
<1>1. UNCHANGED <<connector, memory>> /\ task' = [task EXCEPT ![k] = NoTask]
  BY DEF Emit
<1>2. \A e \in Events : /\ IsFiniteSet(Logged(e)') /\ IsFiniteSet(Emitting(e)')
                        /\ Count(e)' = Count(e)
  BY EmitCounts
<1>3. \A p \in Places : Creation(p) \in Events /\ Removal(p) \in Events
  BY FlagEvents
<1>4. connector = "dict" => \A j \in Tasks : task'[j].pc # "write"
  BY <1>1 DEF FlagsInv, MemoryInv, MemoryTypeOK, NoTask
<1>5. log' \in [DOMAIN log' -> Nat]
  BY LoggedOnce DEF FlagsInv, Emit
<1>6. QED BY <1>1, <1>2, <1>3, <1>4, <1>5, FlagsKept

(* The phase after a call: what it is about stays, the flag is decided. *)
LEMMA PhaseEvent ==
  ASSUME MemoryInv, NEW k \in Tasks, NEW q, NEW there,
         task' = [task EXCEPT ![k].pc = q, ![k].there = there]
  PROVE  \E t : /\ task' = [task EXCEPT ![k] = t] /\ t.pc = q
                /\ EventOf(k)' = [event |-> task[k].event, place |-> task[k].place,
                                  there |-> there]
<1> DEFINE t == [task[k] EXCEPT !.pc = q, !.there = there]
<1>1. task[k] \in TaskRecords /\ task \in [Tasks -> TaskRecords]
  BY DEF MemoryInv, MemoryTypeOK
<1>2. task' = [task EXCEPT ![k] = t]
  BY <1>1
<1>3. /\ t.pc = q /\ t.there = there
      /\ t.event = task[k].event /\ t.place = task[k].place
  BY <1>1 DEF TaskRecords
<1> HIDE DEF t
<1>4. task'[k] = t
  BY <1>1, <1>2
<1>5. EventOf(k)' = [event |-> task[k].event, place |-> task[k].place, there |-> there]
  BY <1>3, <1>4 DEF EventOf
<1>6. QED BY <1>2, <1>3, <1>5
(* A step that decides the flag of an event and changes the entry it is about. *)
LEMMA DecisionKeeps ==
  ASSUME FlagsInv, MemoryInv', UNCHANGED <<connector, log>>,
         NEW k \in Tasks, task[k].pc # "emit", task[k].place \in Places,
         NEW t, task' = [task EXCEPT ![k] = t], t.pc \in {"emit", "write"},
         t.pc = "write" => connector # "dict",
         t.pc = "emit" /\ connector = "dict" => \A p \in Places :
           /\ memory[p] = NoEntry /\ memory'[p] # NoEntry => EventOf(k)' = Creation(p)
           /\ memory[p] # NoEntry /\ memory'[p] = NoEntry => EventOf(k)' = Removal(p)
           /\ (memory[p] = NoEntry <=> memory'[p] = NoEntry) =>
                EventOf(k)' # Creation(p) /\ EventOf(k)' # Removal(p)
  PROVE  FlagsInv'
<1>1. \A e \in Events :
        /\ IsFiniteSet(Logged(e)') /\ IsFiniteSet(Emitting(e)')
        /\ t.pc = "emit" /\ EventOf(k)' = e => Count(e)' = Count(e) + 1
        /\ ~(t.pc = "emit" /\ EventOf(k)' = e) => Count(e)' = Count(e)
  BY CountRises
<1>2. connector = "dict" => \A j \in Tasks : task'[j].pc # "write"
  BY DEF FlagsInv, MemoryInv, MemoryTypeOK
<1>3. ASSUME connector = "dict", NEW p \in Places
      PROVE  Count(Creation(p))' - Count(Removal(p))'
               = (IF memory'[p] = NoEntry THEN 0 ELSE 1)
  <2>1. /\ Creation(p) \in Events /\ Removal(p) \in Events
        /\ Creation(p) # Removal(p)
    BY FlagEvents
  <2>2. Count(Creation(p)) \in Nat /\ Count(Removal(p)) \in Nat
    BY <2>1, Counts
  <2>3. Count(Creation(p)) - Count(Removal(p)) = (IF memory[p] = NoEntry THEN 0 ELSE 1)
    BY <1>3 DEF FlagsInv, FlagsAddUp, Creation, Removal
  <2>4. t.pc = "emit"
    BY <1>3
  <2>5. CASE memory[p] = NoEntry /\ memory'[p] # NoEntry
    <3>1. EventOf(k)' = Creation(p)
      BY <1>3, <2>4, <2>5
    <3>2. /\ Count(Creation(p))' = Count(Creation(p)) + 1
          /\ Count(Removal(p))' = Count(Removal(p))
      BY <1>1, <2>1, <2>4, <3>1
    <3>3. QED BY <2>2, <2>3, <2>5, <3>2
  <2>6. CASE memory[p] # NoEntry /\ memory'[p] = NoEntry
    <3>1. EventOf(k)' = Removal(p)
      BY <1>3, <2>4, <2>6
    <3>2. /\ Count(Creation(p))' = Count(Creation(p))
          /\ Count(Removal(p))' = Count(Removal(p)) + 1
      BY <1>1, <2>1, <2>4, <3>1
    <3>3. QED BY <2>2, <2>3, <2>6, <3>2
  <2>7. CASE memory[p] = NoEntry <=> memory'[p] = NoEntry
    <3>1. EventOf(k)' # Creation(p) /\ EventOf(k)' # Removal(p)
      BY <1>3, <2>4, <2>7
    <3>2. /\ Count(Creation(p))' = Count(Creation(p))
          /\ Count(Removal(p))' = Count(Removal(p))
      BY <1>1, <2>1, <3>1
    <3>3. QED BY <2>3, <2>7, <3>2
  <2>8. QED BY <2>5, <2>6, <2>7
<1>4. FlagsAddUp'
  BY <1>3 DEF FlagsAddUp, Creation, Removal
<1>5. log' \in [DOMAIN log' -> Nat]
  BY DEF FlagsInv
<1>6. QED BY <1>1, <1>2, <1>4, <1>5 DEF FlagsInv

(* Whether an event is one that a flag of an entry is about. *)
LEMMA EventParts ==
  ASSUME NEW e, e = [event |-> e.event, place |-> e.place, there |-> e.there], NEW p
  PROVE  /\ e = Creation(p) <=> (e.event = "write" /\ e.place = p /\ e.there = FALSE)
         /\ e = Removal(p) <=> (e.event = "delete" /\ e.place = p /\ e.there = TRUE)
<1>1. /\ Creation(p).event = "write" /\ Creation(p).place = p /\ Creation(p).there = FALSE
      /\ Removal(p).event = "delete" /\ Removal(p).place = p /\ Removal(p).there = TRUE
  BY DEF Creation, Removal
<1>2. ASSUME e.event = "write", e.place = p, e.there = FALSE PROVE e = Creation(p)
  BY <1>2 DEF Creation
<1>3. ASSUME e.event = "delete", e.place = p, e.there = TRUE PROVE e = Removal(p)
  BY <1>3 DEF Removal
<1>4. QED BY <1>1, <1>2, <1>3

(* Reading changes no entry. *)
LEMMA ReadFlags ==
  ASSUME FlagsInv, MemoryInv', NEW k \in Tasks, Read(k)
  PROVE  FlagsInv'
<1>1. /\ UNCHANGED <<connector, log, memory>>
      /\ task[k].pc = "call" /\ task[k].event = "read"
      /\ task' = [task EXCEPT ![k].pc = "emit", ![k].there = Present(k)]
  BY DEF Read, Emits
<1>2. MemoryInv /\ task[k].place \in Places
  BY <1>1, TaskFields DEF FlagsInv, Idle
<1>3. PICK t : /\ task' = [task EXCEPT ![k] = t] /\ t.pc = "emit"
               /\ EventOf(k)' = [event |-> task[k].event, place |-> task[k].place,
                                 there |-> Present(k)]
  BY <1>1, <1>2, PhaseEvent
<1>4. \A p : EventOf(k)' # Creation(p) /\ EventOf(k)' # Removal(p)
  <2>1. PICK e, place, there :
          e = EventOf(k)' /\ place = task[k].place /\ there = Present(k)
    OBVIOUS
  <2>2. /\ e = [event |-> e.event, place |-> e.place, there |-> e.there]
        /\ e.event = "read" /\ e.place = place /\ e.there = there
    BY <1>1, <1>3, <2>1
  <2>3. \A p : e # Creation(p) /\ e # Removal(p)
    BY <2>2, EventParts
  <2>4. QED BY <2>1, <2>3
<1>5. QED BY <1>1, <1>2, <1>3, <1>4, DecisionKeeps

(* What is written is an entry: its writer is a run. *)
LEMMA StoredIsEntry ==
  ASSUME MemoryInv, NEW k \in Tasks, task[k].place \in Places, memory' = Stored(k)
  PROVE  /\ memory'[task[k].place] # NoEntry
         /\ \A p \in Places \ {task[k].place} : memory'[p] = memory[p]
<1>1. RunOf[k] \in Runs /\ RunOf[k] # None
  BY MemoryConstants, NoneIsNoName
<1>2. memory'[task[k].place].writer = RunOf[k]
  BY DEF Stored, MemoryInv, MemoryTypeOK
<1>3. NoEntry.writer = None
  BY DEF NoEntry
<1>4. \A p \in Places \ {task[k].place} : memory'[p] = memory[p]
  BY DEF Stored, MemoryInv, MemoryTypeOK
<1>5. QED BY <1>1, <1>2, <1>3, <1>4

(* Writing creates the entry when it was not there. *)
LEMMA WriteFlags ==
  ASSUME FlagsInv, MemoryInv', NEW k \in Tasks, Write(k) \/ WriteLater(k)
  PROVE  FlagsInv'
<1>1. UNCHANGED <<connector, log>> /\ task[k].pc \in {"call", "write"} /\ MemoryInv
  BY DEF Write, WriteLater, FlagsInv
<1>2. task[k].place \in Places /\ task \in [Tasks -> TaskRecords]
  BY <1>1, TaskFields DEF Idle, MemoryInv, MemoryTypeOK
<1>3. task[k].pc = "write" => connector # "dict"
  BY DEF FlagsInv
<1>4. CASE task[k].pc = "call" /\ connector = "dict"
  <2>1. /\ memory' = Stored(k) /\ task[k].event = "write"
        /\ task' = [task EXCEPT ![k].pc = "emit", ![k].there = Present(k)]
    BY <1>4 DEF Write, WriteLater, Emits
  <2>2. PICK t : /\ task' = [task EXCEPT ![k] = t] /\ t.pc = "emit"
                 /\ EventOf(k)' = [event |-> task[k].event, place |-> task[k].place,
                                   there |-> Present(k)]
    BY <1>1, <2>1, PhaseEvent
  <2>3. \A p : /\ EventOf(k)' # Removal(p)
               /\ EventOf(k)' = Creation(p) <=> (task[k].place = p /\ Present(k) = FALSE)
    <3>1. PICK e, place, there :
            e = EventOf(k)' /\ place = task[k].place /\ there = Present(k)
      OBVIOUS
    <3>2. /\ e = [event |-> e.event, place |-> e.place, there |-> e.there]
          /\ e.event = "write" /\ e.place = place /\ e.there = there
      BY <2>1, <2>2, <3>1
    <3>3. \A p : /\ e # Removal(p)
                 /\ e = Creation(p) <=> (place = p /\ there = FALSE)
      BY <3>2, EventParts
    <3>4. QED BY <3>1, <3>3
  <2>4. Present(k) = FALSE <=> memory[task[k].place] = NoEntry
    BY DEF Present, Entry
  <2>5. /\ memory'[task[k].place] # NoEntry
        /\ \A p \in Places \ {task[k].place} : memory'[p] = memory[p]
    BY <1>1, <1>2, <2>1, StoredIsEntry
  <2>6. \A p \in Places :
          /\ memory[p] = NoEntry /\ memory'[p] # NoEntry => EventOf(k)' = Creation(p)
          /\ memory[p] # NoEntry /\ memory'[p] = NoEntry => EventOf(k)' = Removal(p)
          /\ (memory[p] = NoEntry <=> memory'[p] = NoEntry) =>
               EventOf(k)' # Creation(p) /\ EventOf(k)' # Removal(p)
    BY <2>3, <2>4, <2>5
  <2>7. QED BY <1>1, <1>2, <1>4, <2>2, <2>6, DecisionKeeps
<1>5. CASE connector # "dict"
  <2>1. PICK q \in {"emit", "write"}, there \in {Present(k), task[k].there} :
          task' = [task EXCEPT ![k].pc = q, ![k].there = there]
    BY <1>5 DEF Write, WriteLater, Emits
  <2>2. PICK t : /\ task' = [task EXCEPT ![k] = t] /\ t.pc = q
                 /\ EventOf(k)' = [event |-> task[k].event, place |-> task[k].place,
                                   there |-> there]
    BY <1>1, <2>1, PhaseEvent
  <2>3. QED BY <1>1, <1>2, <1>5, <2>2, DecisionKeeps
<1>6. QED BY <1>1, <1>3, <1>4, <1>5

(* Deleting removes the entry when it was there. *)
LEMMA DeleteFlags ==
  ASSUME FlagsInv, MemoryInv', NEW k \in Tasks, Delete(k)
  PROVE  FlagsInv'
<1>1. /\ UNCHANGED <<connector, log>> /\ MemoryInv
      /\ task[k].pc = "call" /\ task[k].event = "delete"
      /\ memory' = [memory EXCEPT ![task[k].place] = NoEntry]
      /\ task' = [task EXCEPT ![k].pc = "emit", ![k].there = Present(k)]
  BY DEF Delete, Emits, ReportsFound, FlagsInv
<1>2. task[k].place \in Places
  BY <1>1, TaskFields DEF Idle
<1>3. PICK t : /\ task' = [task EXCEPT ![k] = t] /\ t.pc = "emit"
               /\ EventOf(k)' = [event |-> task[k].event, place |-> task[k].place,
                                 there |-> Present(k)]
  BY <1>1, PhaseEvent
<1>4. \A p : /\ EventOf(k)' # Creation(p)
             /\ EventOf(k)' = Removal(p) <=> (task[k].place = p /\ Present(k) = TRUE)
  <2>1. PICK e, place, there :
          e = EventOf(k)' /\ place = task[k].place /\ there = Present(k)
    OBVIOUS
  <2>2. /\ e = [event |-> e.event, place |-> e.place, there |-> e.there]
        /\ e.event = "delete" /\ e.place = place /\ e.there = there
    BY <1>1, <1>3, <2>1
  <2>3. \A p : /\ e # Creation(p)
               /\ e = Removal(p) <=> (place = p /\ there = TRUE)
    BY <2>2, EventParts
  <2>4. QED BY <2>1, <2>3
<1>5. Present(k) = TRUE <=> memory[task[k].place] # NoEntry
  BY DEF Present, Entry
<1>6. /\ memory'[task[k].place] = NoEntry
      /\ \A p \in Places \ {task[k].place} : memory'[p] = memory[p]
  BY <1>1, <1>2 DEF MemoryInv, MemoryTypeOK
<1>7. \A p \in Places :
        /\ memory[p] = NoEntry /\ memory'[p] # NoEntry => EventOf(k)' = Creation(p)
        /\ memory[p] # NoEntry /\ memory'[p] = NoEntry => EventOf(k)' = Removal(p)
        /\ (memory[p] = NoEntry <=> memory'[p] = NoEntry) =>
             EventOf(k)' # Creation(p) /\ EventOf(k)' # Removal(p)
  BY <1>4, <1>5, <1>6
<1>8. QED BY <1>1, <1>2, <1>3, <1>7, DecisionKeeps

LEMMA FlagsInvInit == Init => FlagsInv
<1> SUFFICES ASSUME Init PROVE FlagsInv
  OBVIOUS
<1>1. MemoryInv
  BY MemoryInvInit
<1>2. DOMAIN log = {} /\ log \in [DOMAIN log -> Nat]
  BY DEF Init, MemoryInit, EmptyBag, SetToBag
<1>3. \A k \in Tasks : task[k].pc = "idle"
  BY DEF Init, MemoryInit, NoTask
<1>4. \A e : Logged(e) = {} /\ Emitting(e) = {}
  BY <1>2, <1>3 DEF Logged, Emitting
<1>5. \A e : IsFiniteSet(Logged(e)) /\ IsFiniteSet(Emitting(e)) /\ Count(e) = 0
  BY <1>4, FS_EmptySet DEF Count
<1>6. FlagsAddUp
  BY <1>5 DEF FlagsAddUp, Init, MemoryInit
<1>7. QED BY <1>1, <1>2, <1>3, <1>5, <1>6 DEF FlagsInv

LEMMA FlagsInvStep == FlagsInv /\ [Next]_vars => FlagsInv'
<1> SUFFICES ASSUME FlagsInv, [Next]_vars PROVE FlagsInv'
  OBVIOUS
<1>1. MemoryInv'
  BY MemoryInvStep DEF FlagsInv
<1>2. CASE UNCHANGED <<connector, memory, task, log>>
  <2>1. \A e : /\ Logged(e)' = Logged(e) /\ Emitting(e)' = Emitting(e)
               /\ Count(e)' = Count(e)
    BY <1>2 DEF Logged, Emitting, EventOf, Count
  <2>2. QED BY <1>1, <1>2, <2>1, FlagsKept DEF FlagsInv
<1>3. CASE UseMemory
  <2>1. PICK k \in Tasks :
          \/ \E kind \in {"read", "write", "delete"}, scope \in Scopes,
               target \in ExplicitTargets \cup {None}, key \in Keys,
               says \in SUBSET Secrets, secrets \in SUBSET Secrets :
               Begin(k, kind, scope, target, key, says, secrets)
          \/ Read(k) \/ Write(k) \/ WriteLater(k) \/ Delete(k) \/ Emit(k)
          \/ \E s \in Secrets : ResolveSecret(k, s)
    BY <1>3 DEF UseMemory
  <2>2. ASSUME NEW s \in Secrets, ResolveSecret(k, s) PROVE FlagsInv'
    BY <1>2, <2>2 DEF ResolveSecret
  <2>3. QED
    BY <1>1, <2>1, <2>2, BeginFlags, ReadFlags, WriteFlags, DeleteFlags, EmitFlags
<1>4. QED BY <1>2, <1>3 DEF Next, UseThreads, UseChannels, vars, memoryVars

(* The created and found flags of the events of an entry add up to whether it   *)
(* is there, in whatever order they reach the log, if the connector does not    *)
(* suspend.                                                                *)
THEOREM FlagsTellTheMemory == Spec => []FlagsAddUp
<1>1. FlagsInv => FlagsAddUp
  BY DEF FlagsInv
<1>2. QED BY <1>1, FlagsInvInit, FlagsInvStep, PTL DEF Spec

-----------------------------------------------------------------------------
(* Threads: what is announced of a thread is announced once, of an archived     *)
(* thread, and names the first of its runs.                                  *)
ThreadRecords == [status : ThreadStatus \cup {"none"}, runs : Seq(Runs)]
Records == [thread : Threads, runs : Seq(Runs)]

IsStart(s, of) == Len(s) <= Len(of) /\ \A i \in 1 .. Len(s) : of[i] = s[i]
Announces(record) ==
  /\ threads[record.thread].status = "archived"
  /\ IsStart(record.runs, threads[record.thread].runs)

ThreadsInv ==
  /\ threads \in [Threads -> ThreadRecords]
  /\ archiving \subseteq Records
  /\ archived \in Seq(Records)
  /\ \A record \in archiving : Announces(record)
  /\ \A n \in 1 .. Len(archived) : Announces(archived[n])
  /\ \A one, other \in archiving : one.thread = other.thread => one = other
  /\ \A n \in 1 .. Len(archived) : \A record \in archiving :
       archived[n].thread # record.thread
  /\ \A m, n \in 1 .. Len(archived) : archived[m].thread = archived[n].thread => m = n

(* A transition of a thread that is not archived, or one more run. *)
LEMMA ThreadMoves ==
  ASSUME ThreadsInv, NEW t \in Threads, NEW x \in ThreadRecords,
         threads' = [threads EXCEPT ![t] = x], UNCHANGED <<archiving, archived>>,
         threads[t].status = "archived" =>
           x.status = "archived" /\ IsStart(threads[t].runs, x.runs)
  PROVE  ThreadsInv'
<1>1. /\ threads' \in [Threads -> ThreadRecords] /\ threads'[t] = x
      /\ \A u \in Threads \ {t} : threads'[u] = threads[u]
  BY DEF ThreadsInv
<1>2. ASSUME NEW record \in Records, Announces(record)
      PROVE  /\ threads'[record.thread].status = "archived"
             /\ IsStart(record.runs, threads'[record.thread].runs)
  <2>1. record.thread \in Threads /\ Len(record.runs) \in Nat
    BY LenProperties DEF Records
  <2>2. Len(threads[t].runs) \in Nat /\ Len(x.runs) \in Nat
    BY LenProperties DEF ThreadsInv, ThreadRecords
  <2>3. CASE record.thread = t
    BY <1>1, <1>2, <2>1, <2>2, <2>3 DEF Announces, IsStart
  <2>4. CASE record.thread # t
    BY <1>1, <1>2, <2>1, <2>4 DEF Announces
  <2>5. QED BY <2>3, <2>4
<1>3. \A record \in archiving : Announces(record)'
  BY <1>2 DEF ThreadsInv, Announces
<1>4. \A n \in 1 .. Len(archived) : archived[n] \in Records
  BY ElementOfSeq DEF ThreadsInv
<1>5. \A n \in 1 .. Len(archived) : Announces(archived[n])'
  BY <1>2, <1>4 DEF ThreadsInv, Announces
<1>6. QED BY <1>1, <1>3, <1>5 DEF ThreadsInv

LEMMA CreateThreadKeeps ==
  ASSUME ThreadsInv, NEW t \in Threads, CreateThread(t)
  PROVE  ThreadsInv'
<1> DEFINE x == [threads[t] EXCEPT !.status = "created"]
<1>1. x \in ThreadRecords
  BY DEF ThreadsInv, ThreadRecords, ThreadStatus
<1>2. threads' = [threads EXCEPT ![t] = x] /\ UNCHANGED <<archiving, archived>>
  BY DEF CreateThread
<1>3. threads[t].status # "archived"
  BY DEF CreateThread, NoThread
<1>4. QED BY <1>1, <1>2, <1>3, ThreadMoves

LEMMA TransitionKeeps ==
  ASSUME ThreadsInv, NEW t \in Threads, NEW status \in ThreadStatus,
         TransitionThread(t, status)
  PROVE  ThreadsInv'
<1> DEFINE x == [threads[t] EXCEPT !.status = status]
<1>1. x \in ThreadRecords
  BY DEF ThreadsInv, ThreadRecords
<1>2. threads' = [threads EXCEPT ![t] = x] /\ UNCHANGED <<archiving, archived>>
  BY DEF TransitionThread, Transition
<1>3. threads[t].status # "archived"
  BY DEF TransitionThread, Transition, Allowed
<1>4. QED BY <1>1, <1>2, <1>3, ThreadMoves

LEMMA AddRunIdKeeps ==
  ASSUME ThreadsInv, NEW t \in Threads, NEW r \in Runs, AddRunId(t, r)
  PROVE  ThreadsInv'
<1> DEFINE runs == Append(threads[t].runs, r)
           x == [threads[t] EXCEPT !.runs = runs]
<1>1. threads[t] \in ThreadRecords /\ threads[t].runs \in Seq(Runs)
  BY DEF ThreadsInv, ThreadRecords
<1>2. runs \in Seq(Runs) /\ IsStart(threads[t].runs, runs)
  BY <1>1, AppendProperties, LenProperties DEF IsStart
<1>3. threads' = [threads EXCEPT ![t] = x] /\ UNCHANGED <<archiving, archived>>
  BY DEF AddRunId
<1> HIDE DEF runs
<1>4. x \in ThreadRecords /\ x.status = threads[t].status /\ x.runs = runs
  BY <1>1, <1>2 DEF ThreadRecords
<1>5. QED BY <1>2, <1>3, <1>4, ThreadMoves

(* archive_thread: whoever archives the thread finds it idle, so no one did. *)
LEMMA ArchiveKeeps ==
  ASSUME ThreadsInv, NEW t \in Threads, ArchiveThread(t)
  PROVE  ThreadsInv'
<1> DEFINE x == [threads[t] EXCEPT !.status = "archived"]
<1>1. /\ threads[t] \in ThreadRecords /\ threads[t].runs \in Seq(Runs)
      /\ Len(threads[t].runs) \in Nat
  BY LenProperties DEF ThreadsInv, ThreadRecords
<1>2. PICK made \in Records : made = [thread |-> t, runs |-> threads[t].runs]
  BY <1>1 DEF Records
<1>3. /\ threads' = [threads EXCEPT ![t] = x] /\ archived' = archived
      /\ archiving' = archiving \cup {made}
  BY <1>2 DEF ArchiveThread, Transition
<1>4. threads[t].status # "archived"
  BY DEF ArchiveThread, Transition, Allowed
<1>5. x \in ThreadRecords /\ x.status = "archived" /\ x.runs = threads[t].runs
  BY <1>1 DEF ThreadRecords, ThreadStatus
<1>6. /\ threads' \in [Threads -> ThreadRecords] /\ threads'[t] = x
      /\ \A u \in Threads \ {t} : threads'[u] = threads[u]
  BY <1>3, <1>5 DEF ThreadsInv
<1>7. made.thread = t /\ Announces(made)'
  <2>1. made.thread = t /\ made.runs = threads[t].runs
    BY <1>2
  <2>2. threads'[t].status = "archived" /\ threads'[t].runs = threads[t].runs
    BY <1>5, <1>6
  <2>3. IsStart(threads[t].runs, threads[t].runs)
    BY <1>1 DEF IsStart
  <2> HIDE DEF x
  <2>4. QED BY <2>1, <2>2, <2>3 DEF Announces
<1>8. ASSUME NEW record \in Records, Announces(record)
      PROVE  record.thread # t /\ Announces(record)'
  <2>1. record.thread \in Threads
    BY DEF Records
  <2>2. QED BY <1>4, <1>6, <1>8, <2>1 DEF Announces
<1>9. \A n \in 1 .. Len(archived) : archived[n] \in Records
  BY ElementOfSeq DEF ThreadsInv
<1>10. \A record \in archiving : record.thread # t /\ Announces(record)'
  BY <1>8 DEF ThreadsInv
<1>11. \A n \in 1 .. Len(archived') : archived'[n].thread # t /\ Announces(archived[n])'
  <2> SUFFICES ASSUME NEW n \in 1 .. Len(archived)
               PROVE  archived[n].thread # t /\ Announces(archived[n])'
    BY <1>3
  <2>1. PICK record \in Records : record = archived[n] /\ Announces(record)
    BY <1>9 DEF ThreadsInv
  <2>2. record.thread # t /\ Announces(record)'
    BY <1>8, <2>1
  <2>3. QED BY <1>3, <2>1, <2>2 DEF Announces
<1> HIDE DEF x
<1>12. \A one, other \in archiving' : one.thread = other.thread => one = other
  BY <1>3, <1>7, <1>10 DEF ThreadsInv
<1>13. \A n \in 1 .. Len(archived') : \A record \in archiving' :
         archived'[n].thread # record.thread
  BY <1>3, <1>7, <1>11 DEF ThreadsInv
<1>14. \A record \in archiving' : Announces(record)'
  BY <1>3, <1>7, <1>10
<1>15. QED
  BY <1>3, <1>6, <1>11, <1>12, <1>13, <1>14 DEF ThreadsInv

LEMMA EmitArchivedKeeps ==
  ASSUME ThreadsInv, NEW record \in archiving, EmitArchived(record)
  PROVE  ThreadsInv'
<1>1. /\ UNCHANGED threads /\ archiving' = archiving \ {record}
      /\ archived' = Append(archived, record)
      /\ record \in Records /\ Len(archived) \in Nat
  BY LenProperties DEF EmitArchived, ThreadsInv
<1>2. /\ archived' \in Seq(Records) /\ Len(archived') = Len(archived) + 1
      /\ archived'[Len(archived) + 1] = record
      /\ \A n \in 1 .. Len(archived) : archived'[n] = archived[n]
  BY <1>1, AppendProperties DEF ThreadsInv
<1>3. \A n \in 1 .. Len(archived') :
        \/ n \in 1 .. Len(archived) /\ archived'[n] = archived[n]
        \/ n = Len(archived) + 1 /\ archived'[n] = record
  BY <1>1, <1>2
<1>4. \A n \in 1 .. Len(archived') : Announces(archived'[n])
  BY <1>3 DEF ThreadsInv
<1>5. \A n \in 1 .. Len(archived') : Announces(archived[n])'
  BY <1>1, <1>4 DEF Announces
<1>6. \A other \in archiving : Announces(other)'
  BY <1>1 DEF ThreadsInv, Announces
<1>7. \A n \in 1 .. Len(archived') : \A other \in archiving' :
        archived'[n].thread # other.thread
  BY <1>1, <1>3 DEF ThreadsInv
<1>8. \A m, n \in 1 .. Len(archived') :
        archived'[m].thread = archived'[n].thread => m = n
  BY <1>3 DEF ThreadsInv
<1>9. QED BY <1>1, <1>2, <1>5, <1>6, <1>7, <1>8 DEF ThreadsInv

LEMMA ThreadsInvInit == Init => ThreadsInv
<1> SUFFICES ASSUME Init PROVE ThreadsInv
  OBVIOUS
<1>1. <<>> \in Seq(Runs) /\ <<>> \in Seq(Records) /\ Len(archived) = 0 /\ archiving = {}
  BY EmptySeq DEF Init, ThreadsInit
<1>2. NoThread \in ThreadRecords
  BY <1>1 DEF NoThread, ThreadRecords
<1>3. QED BY <1>1, <1>2 DEF Init, ThreadsInit, ThreadsInv

LEMMA ThreadsInvStep == ThreadsInv /\ [Next]_vars => ThreadsInv'
<1> SUFFICES ASSUME ThreadsInv, [Next]_vars PROVE ThreadsInv'
  OBVIOUS
<1>1. CASE UNCHANGED threadVars
  BY <1>1 DEF threadVars, ThreadsInv, Announces
<1>2. CASE UseThreads
  BY <1>2, CreateThreadKeeps, TransitionKeeps, AddRunIdKeeps, ArchiveKeeps,
     EmitArchivedKeeps DEF UseThreads
<1>3. QED BY <1>1, <1>2 DEF Next, UseMemory, UseChannels, vars

(* At most one element is at most one. *)
LEMMA AtMostOne ==
  ASSUME NEW S, \A x, y \in S : x = y
  PROVE  Cardinality(S) = IF S = {} THEN 0 ELSE 1
<1>1. CASE S = {}
  BY <1>1, FS_EmptySet
<1>2. CASE S # {}
  <2>1. PICK x : S = {x}
    BY <1>2
  <2>2. QED BY <1>2, <2>1, FS_Singleton
<1>3. QED BY <1>1, <1>2

(* Whatever calls race for a thread, one archives it, and its event names runs   *)
(* the record has (archive_thread).                                         *)
THEOREM ThreadArchivedOnce == Spec => []ArchivedOnce
<1>1. ThreadsInv => ArchivedOnce
  <2> SUFFICES ASSUME ThreadsInv, NEW t \in Threads
               PROVE  /\ Cardinality({n \in DOMAIN archived : archived[n].thread = t})
                           + Cardinality({record \in archiving : record.thread = t}) <= 1
                      /\ \A record \in Announced(t) :
                           /\ threads[t].status = "archived"
                           /\ SubSeq(threads[t].runs, 1, Len(record.runs)) = record.runs
    BY DEF ArchivedOnce
  <2>1. DOMAIN archived = 1 .. Len(archived)
    BY LenProperties DEF ThreadsInv
  <2> DEFINE emitted == {n \in DOMAIN archived : archived[n].thread = t}
             pending == {record \in archiving : record.thread = t}
  <2>2. /\ \A m, n \in emitted : m = n
        /\ \A one, other \in pending : one = other
        /\ emitted = {} \/ pending = {}
    BY <2>1 DEF ThreadsInv
  <2>3. Cardinality(emitted) + Cardinality(pending) <= 1
    <3> HIDE DEF emitted, pending
    <3>1. /\ Cardinality(emitted) = IF emitted = {} THEN 0 ELSE 1
          /\ Cardinality(pending) = IF pending = {} THEN 0 ELSE 1
      BY <2>2, AtMostOne
    <3>2. QED BY <2>2, <3>1
  <2>4. ASSUME NEW record \in Announced(t)
        PROVE  /\ threads[t].status = "archived"
               /\ SubSeq(threads[t].runs, 1, Len(record.runs)) = record.runs
    <3>1. record.thread = t /\ Announces(record) /\ record \in Records
      BY <2>1, ElementOfSeq DEF Announced, ThreadsInv
    <3> DEFINE runs == threads[t].runs
               n == Len(record.runs)
    <3>2. runs \in Seq(Runs) /\ record.runs \in Seq(Runs) /\ n \in Nat /\ Len(runs) \in Nat
      BY <3>1, LenProperties DEF ThreadsInv, ThreadRecords, Records
    <3>3. \A i \in 1 .. n : runs[i] \in Runs
      BY <3>1, <3>2, ElementOfSeq DEF Announces, IsStart
    <3> HIDE DEF runs
    <3>4. /\ SubSeq(runs, 1, n) \in Seq(Runs)
          /\ Len(SubSeq(runs, 1, n)) = n
          /\ \A i \in 1 .. n : SubSeq(runs, 1, n)[i] = runs[i]
      <4>1. /\ SubSeq(runs, 1, n) \in Seq(Runs)
            /\ Len(SubSeq(runs, 1, n)) = IF 1 <= n THEN n - 1 + 1 ELSE 0
            /\ \A i \in 1 .. n - 1 + 1 : SubSeq(runs, 1, n)[i] = runs[1 + i - 1]
        BY <3>2, <3>3, SubSeqProperties
      <4>2. QED BY <3>2, <4>1
    <3>5. \A i \in 1 .. n : SubSeq(runs, 1, n)[i] = record.runs[i]
      BY <3>1, <3>4 DEF Announces, IsStart, runs
    <3>6. SubSeq(runs, 1, n) = record.runs
      BY <3>2, <3>4, <3>5, SeqEqual
    <3>7. QED BY <3>1, <3>6 DEF Announces, runs
  <2>5. QED BY <2>3, <2>4
<1>2. QED BY <1>1, ThreadsInvInit, ThreadsInvStep, PTL DEF Spec

-----------------------------------------------------------------------------
(* Sequences.  What is defined by recursion is shown to exist, and to be what it *)
(* should, by the smallest number for which it would not.                     *)

(* Of any natural numbers one is the smallest. *)
LEMMA Smallest ==
  ASSUME NEW T \in SUBSET Nat, T # {}
  PROVE  \E n \in T : \A m \in T : n <= m
<1> DEFINE R == {ss \in Nat \X Nat : ss[1] < ss[2]}
<1>1. IsWellFoundedOn(R, Nat)
  BY NatLessThanWellFounded DEF OpToRel
<1> HIDE DEF R
<1>2. PICK n \in T : \A m \in T : ~ (<<m, n>> \in R)
  BY <1>1, WFMin
<1>3. ASSUME NEW m \in T PROVE n <= m
  <2>1. ~ (<<m, n>> \in R) /\ m \in Nat /\ n \in Nat
    BY <1>2
  <2>2. ~ (m < n)
    BY <2>1 DEF R
  <2>3. QED BY <2>1, <2>2
<1>4. QED BY <1>3

(* One step of Selected, and the steps up to m. *)
SelectStep(s, I, p, n) ==
  IF n = 0 THEN << >> ELSE IF n \in I THEN Append(p, s[n]) ELSE p

Selects(f, s, I, m) == f = [n \in 0 .. m |-> SelectStep(s, I, f[n - 1], n)]

(* The function that Selected chooses exists. *)
LEMMA SelectionExists ==
  ASSUME NEW s, NEW I, NEW l \in Nat
  PROVE  \E f : Selects(f, s, I, l)
<1> DEFINE T == {n \in Nat : ~ \E f : Selects(f, s, I, n)}
<1>1. SUFFICES ASSUME T # {} PROVE FALSE
  OBVIOUS
<1>2. PICK n \in T : \A m \in T : n <= m
  BY <1>1, Smallest
<1>3. CASE n = 0
  <2>1. Selects([i \in 0 .. 0 |-> << >>], s, I, 0)
    BY DEF Selects, SelectStep
  <2>2. QED BY <1>2, <1>3, <2>1
<1>4. CASE n # 0
  <2>1. n \in Nat /\ n - 1 \in Nat /\ n - 1 < n
    BY <1>2, <1>4
  <2>2. PICK f : Selects(f, s, I, n - 1)
    BY <1>2, <2>1
  <2> DEFINE g == [i \in 0 .. n |-> IF i = n THEN SelectStep(s, I, f[n - 1], n) ELSE f[i]]
  <2>3. ASSUME NEW i \in 0 .. n PROVE g[i] = SelectStep(s, I, g[i - 1], i)
    <3>1. CASE i = n
      BY <1>4, <2>1, <3>1
    <3>2. CASE i # n /\ i # 0
      <4>1. i \in 0 .. n - 1 /\ i - 1 \in 0 .. n /\ i - 1 # n
        BY <2>1, <3>2
      <4>2. f[i] = SelectStep(s, I, f[i - 1], i)
        BY <2>2, <4>1 DEF Selects
      <4>3. QED BY <3>2, <4>1, <4>2
    <3>3. CASE i # n /\ i = 0
      <4>1. f[0] = SelectStep(s, I, f[0 - 1], 0)
        BY <2>1, <2>2 DEF Selects
      <4>2. QED BY <3>3, <4>1 DEF SelectStep
    <3>4. QED BY <3>1, <3>2, <3>3
  <2>4. Selects(g, s, I, n)
    BY <2>3 DEF Selects
  <2>5. QED BY <1>2, <2>4
<1>5. QED BY <1>3, <1>4

(* What is selected of a sequence is a sequence. *)
LEMMA SelectedIsSeq ==
  ASSUME NEW S, NEW s \in Seq(S), NEW I
  PROVE  Selected(s, I) \in Seq(S)
<1> DEFINE l == Len(s)
           f == CHOOSE f : f = [n \in 0 .. l |->
                  IF n = 0 THEN << >>
                  ELSE IF n \in I THEN Append(f[n - 1], s[n]) ELSE f[n - 1]]
<1>1. Selected(s, I) = f[l]
  BY DEF Selected
<1>2. l \in Nat /\ DOMAIN s = 1 .. l
  BY LenProperties
<1>3. Selects(f, s, I, l)
  <2>1. PICK g : Selects(g, s, I, l)
    BY <1>2, SelectionExists
  <2>2. g = [n \in 0 .. l |->
               IF n = 0 THEN << >>
               ELSE IF n \in I THEN Append(g[n - 1], s[n]) ELSE g[n - 1]]
    BY <2>1 DEF Selects, SelectStep
  <2>3. f = [n \in 0 .. l |->
               IF n = 0 THEN << >>
               ELSE IF n \in I THEN Append(f[n - 1], s[n]) ELSE f[n - 1]]
    BY <2>2
  <2>4. QED BY <2>3 DEF Selects, SelectStep
<1> HIDE DEF l, f
<1>4. \A i \in 0 .. l : f[i] = SelectStep(s, I, f[i - 1], i)
  BY <1>3 DEF Selects
<1>5. f[0] \in Seq(S)
  <2>1. f[0] = << >>
    BY <1>2, <1>4 DEF SelectStep
  <2>2. QED BY <2>1, EmptySeq
<1>6. ASSUME NEW i \in 1 .. l, f[i - 1] \in Seq(S) PROVE f[i] \in Seq(S)
  <2>1. s[i] \in S /\ i \in 0 .. l /\ i # 0
    BY <1>2, ElementOfSeq DEF l
  <2>2. Append(f[i - 1], s[i]) \in Seq(S)
    BY <1>6, <2>1, AppendProperties
  <2>3. QED BY <1>4, <1>6, <2>1, <2>2 DEF SelectStep
<1>7. f[l] \in Seq(S)
  <2> DEFINE T == {i \in 0 .. l : f[i] \notin Seq(S)}
  <2>1. SUFFICES ASSUME T # {} PROVE FALSE
    BY <1>2
  <2>2. T \in SUBSET Nat
    BY <1>2
  <2>3. PICK n \in T : \A m \in T : n <= m
    BY <2>1, <2>2, Smallest
  <2>4. n \in 1 .. l /\ n - 1 \in 0 .. l /\ ~(n <= n - 1)
    BY <1>2, <1>5, <2>3
  <2>5. QED BY <1>6, <2>3, <2>4
<1>8. QED BY <1>1, <1>7

-----------------------------------------------------------------------------
(* The channels: each reducer keeps its promise, and an update is one *)

PartsStep(base, values, p, n) == IF n = 0 THEN base ELSE p \o Parts(values[n])

Joins(f, base, values, m) == f = [n \in 0 .. m |-> PartsStep(base, values, f[n - 1], n)]

(* The function that AllParts chooses exists. *)
LEMMA JoinExists ==
  ASSUME NEW b, NEW w, NEW l \in Nat
  PROVE  \E f : Joins(f, b, w, l)
<1> DEFINE T == {n \in Nat : ~ \E f : Joins(f, b, w, n)}
<1>1. SUFFICES ASSUME T # {} PROVE FALSE
  OBVIOUS
<1>2. PICK n \in T : \A m \in T : n <= m
  BY <1>1, Smallest
<1>3. CASE n = 0
  <2>1. Joins([i \in 0 .. 0 |-> b], b, w, 0)
    BY DEF Joins, PartsStep
  <2>2. QED BY <1>2, <1>3, <2>1
<1>4. CASE n # 0
  <2>1. n \in Nat /\ n - 1 \in Nat /\ n - 1 < n
    BY <1>2, <1>4
  <2>2. PICK f : Joins(f, b, w, n - 1)
    BY <1>2, <2>1
  <2> DEFINE g == [i \in 0 .. n |-> IF i = n THEN PartsStep(b, w, f[n - 1], n) ELSE f[i]]
  <2>3. ASSUME NEW i \in 0 .. n PROVE g[i] = PartsStep(b, w, g[i - 1], i)
    <3>1. CASE i = n
      BY <1>4, <2>1, <3>1
    <3>2. CASE i # n /\ i # 0
      <4>1. i \in 0 .. n - 1 /\ i - 1 \in 0 .. n /\ i - 1 # n
        BY <2>1, <3>2
      <4>2. f[i] = PartsStep(b, w, f[i - 1], i)
        BY <2>2, <4>1 DEF Joins
      <4>3. QED BY <3>2, <4>1, <4>2
    <3>3. CASE i # n /\ i = 0
      <4>1. f[0] = PartsStep(b, w, f[0 - 1], 0)
        BY <2>1, <2>2 DEF Joins
      <4>2. QED BY <3>3, <4>1 DEF PartsStep
    <3>4. QED BY <3>1, <3>2, <3>3
  <2>4. Joins(g, b, w, n)
    BY <2>3 DEF Joins
  <2>5. QED BY <1>2, <2>4
<1>5. QED BY <1>3, <1>4

(* It is the function that AllParts takes its result from. *)
LEMMA AllPartsJoin ==
  ASSUME NEW b, NEW S, NEW w \in Seq(S)
  PROVE  \E f : Joins(f, b, w, Len(w)) /\ AllParts(b, w) = f[Len(w)]
<1> DEFINE l == Len(w)
           f == CHOOSE f : f = [n \in 0 .. l |->
                  IF n = 0 THEN b ELSE f[n - 1] \o Parts(w[n])]
<1>1. AllParts(b, w) = f[l]
  BY DEF AllParts
<1>2. l \in Nat
  BY LenProperties
<1>3. PICK g : Joins(g, b, w, l)
  BY <1>2, JoinExists
<1>4. g = [n \in 0 .. l |-> IF n = 0 THEN b ELSE g[n - 1] \o Parts(w[n])]
  BY <1>3 DEF Joins, PartsStep
<1>5. f = [n \in 0 .. l |-> IF n = 0 THEN b ELSE f[n - 1] \o Parts(w[n])]
  BY <1>4
<1> HIDE DEF f, l
<1>6. Joins(f, b, w, l)
  BY <1>5 DEF Joins, PartsStep
<1>7. QED BY <1>1, <1>6 DEF l

(* One more value adds its parts at the end. *)
LEMMA AllPartsAppend ==
  ASSUME NEW b, NEW S, NEW w \in Seq(S), NEW v \in S
  PROVE  AllParts(b, Append(w, v)) = AllParts(b, w) \o Parts(v)
<1> DEFINE l == Len(w)
           x == Append(w, v)
<1>1. l \in Nat
  BY LenProperties
<1>2. /\ x \in Seq(S) /\ Len(x) = l + 1
      /\ x[l + 1] = v
      /\ \A i \in 1 .. l : x[i] = w[i]
  BY AppendProperties, LenProperties
<1>3. PICK f : Joins(f, b, w, l) /\ AllParts(b, w) = f[l]
  BY AllPartsJoin
<1>4. PICK g : Joins(g, b, x, l + 1) /\ AllParts(b, x) = g[l + 1]
  BY <1>2, AllPartsJoin
<1> HIDE DEF l, x
<1>5. \A i \in 0 .. l : f[i] = PartsStep(b, w, f[i - 1], i)
  BY <1>3 DEF Joins
<1>6. \A i \in 0 .. l + 1 : g[i] = PartsStep(b, x, g[i - 1], i)
  BY <1>4 DEF Joins
<1>7. f[0] = g[0]
  <2>1. 0 \in 0 .. l /\ 0 \in 0 .. l + 1
    BY <1>1
  <2>2. QED BY <1>5, <1>6, <2>1 DEF PartsStep
<1>8. ASSUME NEW i \in 1 .. l, f[i - 1] = g[i - 1] PROVE f[i] = g[i]
  <2>1. i \in 0 .. l /\ i \in 0 .. l + 1 /\ i # 0
    BY <1>1
  <2>2. QED BY <1>2, <1>5, <1>6, <1>8, <2>1 DEF PartsStep
<1>9. f[l] = g[l]
  <2> DEFINE T == {i \in 0 .. l : f[i] # g[i]}
  <2>1. SUFFICES ASSUME T # {} PROVE FALSE
    BY <1>1
  <2>2. T \in SUBSET Nat
    BY <1>1
  <2>3. PICK n \in T : \A m \in T : n <= m
    BY <2>1, <2>2, Smallest
  <2>4. n \in 1 .. l /\ n - 1 \in 0 .. l /\ ~(n <= n - 1)
    BY <1>1, <1>7, <2>3
  <2>5. QED BY <1>8, <2>3, <2>4
<1>10. g[l + 1] = g[l] \o Parts(v)
  <2>1. l + 1 \in 0 .. l + 1 /\ l + 1 # 0 /\ (l + 1) - 1 = l
    BY <1>1
  <2>2. QED BY <1>2, <1>6, <2>1 DEF PartsStep
<1>11. QED BY <1>3, <1>4, <1>9, <1>10 DEF x

(* None adds nothing. *)
LEMMA AllPartsOfNone ==
  ASSUME NEW b
  PROVE  AllParts(b, <<>>) = b
<1>1. <<>> \in Seq({}) /\ Len(<<>>) = 0
  BY EmptySeq
<1>2. PICK f : Joins(f, b, <<>>, Len(<<>>)) /\ AllParts(b, <<>>) = f[Len(<<>>)]
  BY <1>1, AllPartsJoin
<1>3. Joins(f, b, <<>>, 0) /\ AllParts(b, <<>>) = f[0]
  BY <1>1, <1>2
<1>4. f[0] = PartsStep(b, <<>>, f[0 - 1], 0)
  BY <1>3 DEF Joins
<1>5. QED BY <1>3, <1>4 DEF PartsStep

(* What holds of a channel, whatever was written to it. *)
ChannelOk(c) ==
  /\ KeepsPromise(c)
  /\ written[c] = <<>> => stored[c] = Defaults[c]
  /\ ReducerOf[c] = "prune" =>
       /\ Is("list", Defaults[c]) =>
            Is("list", stored[c]) /\ stored[c].of \in Seq(ToSet(Defaults[c].of))
       /\ Is("dict", Defaults[c]) => Is("dict", stored[c])

(* The object of a run that goes on has the channels of the stored run: what a  *)
(* reducer that raised has left in it is out of the way.                      *)
ChannelsInv ==
  /\ written \in [ChannelNames -> Seq(Updates)]
  /\ ~ended => cached = stored
  /\ \A c \in ChannelNames : ChannelOk(c)

(* A channel that is not written to. *)
LEMMA ChannelStays ==
  ASSUME NEW c, ChannelOk(c), stored'[c] = stored[c], written'[c] = written[c]
  PROVE  ChannelOk(c)'
BY DEF ChannelOk, KeepsPromise, Merged

(* One more value written to a channel is the last. *)
LEMMA ValueAdded ==
  ASSUME NEW w \in Seq(Updates), NEW v \in Updates
  PROVE  LET x == Append(w, v) IN
           /\ x \in Seq(Updates) /\ x # <<>>
           /\ Len(w) \in Nat /\ Len(x) = Len(w) + 1 /\ x[Len(w) + 1] = v
           /\ DOMAIN w = 1 .. Len(w) /\ DOMAIN x = DOMAIN w \cup {Len(w) + 1}
           /\ Len(w) + 1 \notin DOMAIN w
           /\ \A n \in DOMAIN w : x[n] = w[n]
<1> DEFINE l == Len(w)
           x == Append(w, v)
<1>1. l \in Nat /\ DOMAIN w = 1 .. l
  BY LenProperties
<1>2. /\ x \in Seq(Updates) /\ Len(x) = l + 1 /\ DOMAIN x = 1 .. l + 1
      /\ x[l + 1] = v /\ \A n \in 1 .. l : x[n] = w[n]
  BY AppendProperties, LenProperties
<1>3. x # <<>>
  BY <1>1, <1>2, EmptySeq
<1> HIDE DEF l, x
<1>4. 1 .. l + 1 = (1 .. l) \cup {l + 1} /\ l + 1 \notin 1 .. l
  BY <1>1
<1>5. QED BY <1>1, <1>2, <1>3, <1>4 DEF l, x

(* append adds what a value brings. *)
LEMMA AppendKeepsPromise ==
  ASSUME NEW c \in ChannelNames, NEW v \in Updates,
         written[c] \in Seq(Updates), ChannelOk(c), ReducerOf[c] = "append",
         stored'[c] = AppendTo(stored[c], v), ~Is("failure", stored'[c]),
         written'[c] = Append(written[c], v)
  PROVE  ChannelOk(c)'
<1>1. stored'[c] = List(stored[c].of \o Parts(v))
  BY DEF AppendTo, Failure, Is
<1>2. stored'[c].of = stored[c].of \o Parts(v)
  BY <1>1 DEF List
<1>3. stored[c].of = AllParts(Defaults[c].of, written[c])
  BY DEF ChannelOk, KeepsPromise
<1>4. stored'[c].of = AllParts(Defaults[c].of, written'[c])
  <2>1. AllParts(Defaults[c].of, Append(written[c], v))
          = AllParts(Defaults[c].of, written[c]) \o Parts(v)
    BY AllPartsAppend
  <2>2. QED BY <1>2, <1>3, <2>1
<1>5. written'[c] # <<>>
  BY ValueAdded
<1>6. QED BY <1>4, <1>5 DEF ChannelOk, KeepsPromise

(* merge gives a key the value of the last update that has it. *)
LEMMA MergeKeepsPromise ==
  ASSUME NEW c \in ChannelNames, NEW v \in Updates,
         written[c] \in Seq(Updates), ChannelOk(c), ReducerOf[c] = "merge",
         stored'[c] = Merge(stored[c], v), ~Is("failure", stored'[c]),
         written'[c] = Append(written[c], v)
  PROVE  ChannelOk(c)'
<1> DEFINE w == written[c]
           x == written'[c]
           l == Len(w)
           had == IF Is("dict", Defaults[c]) THEN DOMAIN Defaults[c].of ELSE {}
           base == IF Is("dict", stored[c]) THEN stored[c].of ELSE <<>>
           new == stored'[c].of
           Has(s, key) == {n \in DOMAIN s : key \in DOMAIN s[n].of}
           All(s) == had \cup UNION {DOMAIN s[n].of : n \in DOMAIN s}
<1>1. /\ Is("dict", stored'[c]) /\ DOMAIN new = DOMAIN base \cup DOMAIN v.of
      /\ \A key \in DOMAIN new :
           new[key] = IF key \in DOMAIN v.of THEN v.of[key] ELSE base[key]
  BY DEF Merge, Failure, Dict, Is
<1>2. /\ x # <<>> /\ l \in Nat /\ x[l + 1] = v
      /\ DOMAIN w = 1 .. l /\ DOMAIN x = DOMAIN w \cup {l + 1} /\ l + 1 \notin DOMAIN w
      /\ \A n \in DOMAIN w : x[n] = w[n]
  BY ValueAdded
<1>3. w # <<>> =>
        /\ Is("dict", stored[c]) /\ DOMAIN stored[c].of = All(w)
        /\ \A key \in All(w) :
             IF Has(w, key) = {} THEN stored[c].of[key] = Defaults[c].of[key]
             ELSE \E last \in Has(w, key) :
                    /\ \A n \in Has(w, key) : n <= last
                    /\ stored[c].of[key] = w[last].of[key]
  BY DEF ChannelOk, KeepsPromise, Merged
<1>4. w = <<>> => stored[c] = Defaults[c]
  BY DEF ChannelOk
<1>5. DOMAIN <<>> = {}
  BY EmptySeq
<1>6. DOMAIN base = All(w)
  <2>1. CASE w = <<>>
    <3>1. All(w) = had
      BY <1>5, <2>1
    <3>2. QED BY <1>4, <1>5, <2>1, <3>1
  <2>2. CASE w # <<>>
    BY <1>3, <2>2
  <2>3. QED BY <2>1, <2>2
<1>7. \A key \in All(w) :
        IF Has(w, key) = {} THEN base[key] = Defaults[c].of[key]
        ELSE \E last \in Has(w, key) :
               /\ \A n \in Has(w, key) : n <= last
               /\ base[key] = w[last].of[key]
  <2>1. CASE w = <<>>
    <3>1. All(w) = had /\ \A key : Has(w, key) = {}
      BY <1>5, <2>1
    <3>2. QED BY <1>4, <2>1, <3>1
  <2>2. CASE w # <<>>
    BY <1>3, <2>2
  <2>3. QED BY <2>1, <2>2
<1> HIDE DEF had, base, new, w, x, l
<1>8. All(x) = All(w) \cup DOMAIN v.of
  BY <1>2
<1>9. DOMAIN new = All(x)
  BY <1>1, <1>6, <1>8
<1>10. ASSUME NEW key \in All(x)
       PROVE  IF Has(x, key) = {} THEN new[key] = Defaults[c].of[key]
              ELSE \E last \in Has(x, key) :
                     /\ \A n \in Has(x, key) : n <= last
                     /\ new[key] = x[last].of[key]
  <2>1. CASE key \in DOMAIN v.of
    <3>1. l + 1 \in Has(x, key)
      BY <1>2, <2>1
    <3>2. \A n \in Has(x, key) : n <= l + 1
      BY <1>2
    <3>3. new[key] = x[l + 1].of[key]
      BY <1>1, <1>2, <1>9, <1>10, <2>1
    <3>4. QED BY <3>1, <3>2, <3>3
  <2>2. CASE key \notin DOMAIN v.of
    <3>1. key \in All(w) /\ new[key] = base[key]
      BY <1>1, <1>8, <1>9, <1>10, <2>2
    <3>2. Has(x, key) = Has(w, key)
      BY <1>2, <2>2
    <3>3. \A n \in Has(w, key) : x[n] = w[n]
      BY <1>2
    <3>4. QED BY <1>7, <3>1, <3>2, <3>3
  <2>3. QED BY <2>1, <2>2
<1>11. Merged(c, stored[c])'
  BY <1>1, <1>9, <1>10 DEF Merged, had, new, x
<1>12. QED BY <1>2, <1>11 DEF ChannelOk, KeepsPromise, x

(* prune keeps of a list only what it had, and of a dictionary all but what is   *)
(* named.                                                                   *)
LEMMA PruneKeepsPromise ==
  ASSUME NEW c \in ChannelNames, NEW v \in Updates,
         written[c] \in Seq(Updates), ChannelOk(c), ReducerOf[c] = "prune",
         stored'[c] = Prune(stored[c], v), ~Is("failure", stored'[c]),
         written'[c] = Append(written[c], v)
  PROVE  ChannelOk(c)'
<1> DEFINE w == written[c]
           x == written'[c]
           of == Defaults[c].of
           Names(s) == UNION {Named(s[n]) : n \in DOMAIN s}
<1>1. /\ x # <<>> /\ DOMAIN x = DOMAIN w \cup {Len(w) + 1} /\ x[Len(w) + 1] = v
      /\ \A n \in DOMAIN w : x[n] = w[n]
  BY ValueAdded
<1>2. CASE Is("list", Defaults[c])
  <2> DEFINE S == ToSet(of)
             old == stored[c].of
             named == DOMAIN old \ Named(v)
  <2>1. Is("list", stored[c]) /\ old \in Seq(S)
    BY <1>2 DEF ChannelOk
  <2>2. stored'[c] = List(Selected(old, named))
    <3>1. ~Is("dict", stored[c])
      BY <2>1 DEF Is
    <3>2. stored'[c] \in {List(WithoutPositions(old, Named(v))), Failure}
      BY <2>1, <3>1 DEF Prune, Is
    <3>3. QED BY <3>2 DEF WithoutPositions, Failure, Is
  <2> HIDE DEF S, old, named
  <2>3. Selected(old, named) \in Seq(S)
    BY <2>1, SelectedIsSeq
  <2>4. Is("list", stored'[c]) /\ stored'[c].of \in Seq(S)
    BY <2>2, <2>3 DEF List, Is
  <2>5. ToSet(stored'[c].of) \subseteq S
    BY <2>4, ElementOfSeq, LenProperties DEF ToSet
  <2>6. ~Is("dict", Defaults[c])
    BY <1>2 DEF Is
  <2>7. KeepsPromise(c)'
    BY <1>2, <2>5, <2>6 DEF KeepsPromise, S
  <2>8. QED BY <1>1, <2>4, <2>6, <2>7 DEF ChannelOk, S
<1>3. CASE Is("dict", Defaults[c])
  <2>1. Is("dict", stored[c]) /\ stored[c].of = WithoutKeys(of, Names(w))
    BY <1>3 DEF ChannelOk, KeepsPromise, Is
  <2>2. stored'[c] = Dict(WithoutKeys(stored[c].of, Named(v)))
    <3>1. stored'[c] \in {Dict(WithoutKeys(stored[c].of, Named(v))), Failure}
      BY <2>1 DEF Prune, Is
    <3>2. QED BY <3>1 DEF Failure, Is
  <2>3. Names(x) = Names(w) \cup Named(v)
    BY <1>1
  <2> HIDE DEF Names, x, w
  <2>4. WithoutKeys(WithoutKeys(of, Names(w)), Named(v))
          = WithoutKeys(of, Names(w) \cup Named(v))
    BY DEF WithoutKeys
  <2>5. Is("dict", stored'[c]) /\ stored'[c].of = WithoutKeys(of, Names(x))
    BY <2>1, <2>2, <2>3, <2>4 DEF Dict, Is
  <2>6. ~Is("list", Defaults[c])
    BY <1>3 DEF Is
  <2>7. KeepsPromise(c)'
    BY <2>5, <2>6 DEF KeepsPromise, Names, x
  <2>8. QED BY <1>1, <2>5, <2>6, <2>7 DEF ChannelOk, x
<1>4. CASE ~Is("list", Defaults[c]) /\ ~Is("dict", Defaults[c])
  BY <1>1, <1>4 DEF ChannelOk, KeepsPromise
<1>5. QED BY <1>2, <1>3, <1>4

(* Every reducer keeps its promise for one more value. *)
LEMMA ReducersKeepPromises ==
  ASSUME NEW c \in ChannelNames, NEW v \in Updates,
         written[c] \in Seq(Updates), ChannelOk(c),
         stored'[c] = Reduce(ReducerOf[c], stored[c], v), ~Is("failure", stored'[c]),
         written'[c] = Append(written[c], v)
  PROVE  ChannelOk(c)'
<1> DEFINE name == ReducerOf[c]
<1>1. CASE name \in {"append", "merge", "prune"}
  BY <1>1, AppendKeepsPromise, MergeKeepsPromise, PruneKeepsPromise DEF Reduce
<1>2. CASE name \in {"replace", "clear"}
  <2>1. written'[c] # <<>> /\ written'[c][Len(written'[c])] = v
    BY ValueAdded
  <2>2. stored'[c] = IF name = "replace" THEN v ELSE Empty
    BY <1>2 DEF Reduce
  <2>3. QED BY <1>2, <2>1, <2>2 DEF ChannelOk, KeepsPromise
<1>3. CASE name \notin {"append", "merge", "prune", "replace", "clear"}
  <2>1. stored'[c] = Failure
    BY <1>3 DEF Reduce
  <2>2. QED BY <2>1 DEF Failure, Is
<1>4. QED BY <1>1, <1>2, <1>3

(* What an update comes to for one channel. *)
LEMMA UpdateOfChannel ==
  ASSUME ChannelsInv, NEW N \in Nat, NEW update \in [1 .. N -> ChannelNames \X Updates],
         ApplyStateUpdate(update), NEW c \in ChannelNames
  PROVE  \/ stored'[c] = stored[c] /\ written'[c] = written[c]
         \/ \E v \in Updates :
              /\ stored'[c] = Reduce(ReducerOf[c], stored[c], v)
              /\ ~Is("failure", stored'[c])
              /\ written'[c] = Append(written[c], v)
<1> DEFINE outcome == Apply(cached, update)
           value(n) == Reduce(ReducerOf[update[n][1]], cached[update[n][1]], update[n][2])
           raising == {n \in DOMAIN update : Is("failure", value(n))}
           m == WriteTo(update, c)
<1>1. /\ outcome.failed = (raising # {})
      /\ outcome.channels =
           [d \in ChannelNames |->
              IF \E n \in Writes(update, d) : \A j \in raising : n < j
              THEN value(WriteTo(update, d)) ELSE cached[d]]
  BY DEF Apply
<1>2. cached = stored
  BY DEF ApplyStateUpdate, ChannelsInv
<1>3. CASE outcome.failed
  BY <1>3 DEF ApplyStateUpdate, Persists
<1>4. CASE ~outcome.failed /\ Writes(update, c) = {}
  <2>1. stored'[c] = stored[c]
    BY <1>1, <1>2, <1>4 DEF ApplyStateUpdate, Persists
  <2>2. QED BY <1>4, <2>1 DEF ApplyStateUpdate
<1>5. CASE ~outcome.failed /\ Writes(update, c) # {}
  <2>1. raising = {}
    BY <1>1, <1>5
  <2>2. m \in DOMAIN update /\ update[m][1] = c
    BY <1>5 DEF Writes, WriteTo
  <2>3. stored'[c] = value(m)
    BY <1>1, <1>5, <2>1 DEF ApplyStateUpdate, Persists
  <2>4. ~Is("failure", value(m))
    BY <2>1, <2>2
  <2>5. update[m][2] \in Updates
    BY <2>2
  <2>6. written'[c] = Append(written[c], update[m][2])
    BY <1>5 DEF ApplyStateUpdate
  <2>7. QED BY <1>2, <2>2, <2>3, <2>4, <2>5, <2>6
<1>6. QED BY <1>3, <1>4, <1>5

LEMMA UpdateKeeps ==
  ASSUME ChannelsInv, NEW N \in Nat, NEW update \in [1 .. N -> ChannelNames \X Updates],
         ApplyStateUpdate(update)
  PROVE  ChannelsInv'
<1>1. ASSUME NEW c \in ChannelNames PROVE ChannelOk(c)' /\ written'[c] \in Seq(Updates)
  <2>1. written[c] \in Seq(Updates) /\ ChannelOk(c)
    BY DEF ChannelsInv
  <2>2. CASE stored'[c] = stored[c] /\ written'[c] = written[c]
    BY <2>1, <2>2, ChannelStays
  <2>3. CASE \E v \in Updates :
               /\ stored'[c] = Reduce(ReducerOf[c], stored[c], v)
               /\ ~Is("failure", stored'[c])
               /\ written'[c] = Append(written[c], v)
    BY <2>1, <2>3, ReducersKeepPromises, AppendProperties
  <2>4. QED BY <2>2, <2>3, UpdateOfChannel
<1>2. written' = [c \in ChannelNames |-> written'[c]]
  BY DEF ApplyStateUpdate, ChannelsInv
<1>3. ~ended' => cached' = stored'
  BY DEF ApplyStateUpdate, Persists
<1>4. QED BY <1>1, <1>2, <1>3 DEF ChannelsInv

LEMMA ChannelsInvInit == Init => ChannelsInv
<1> SUFFICES ASSUME Init PROVE ChannelsInv
  OBVIOUS
<1>1. /\ stored = Defaults /\ cached = stored /\ written = [c \in ChannelNames |-> <<>>]
  BY DEF Init, ChannelsInit
<1>2. <<>> \in Seq(Updates) /\ DOMAIN <<>> = {}
  BY EmptySeq
<1>3. ASSUME NEW c \in ChannelNames PROVE ChannelOk(c)
  <2> DEFINE of == Defaults[c].of
  <2>1. stored[c] = Defaults[c] /\ written[c] = <<>>
    BY <1>1
  <2>2. Is("list", Defaults[c]) => of \in Seq(ToSet(of))
    <3>1. SUFFICES ASSUME Is("list", Defaults[c]) PROVE of \in Seq(ToSet(of))
      OBVIOUS
    <3>2. /\ Len(of) \in Nat /\ DOMAIN of = 1 .. Len(of)
          /\ of = [key \in DOMAIN of |-> of[key]]
      BY <3>1, ChannelConstants DEF Is
    <3> HIDE DEF of
    <3>3. of \in [1 .. Len(of) -> ToSet(of)]
      BY <3>2 DEF ToSet
    <3>4. QED BY <3>2, <3>3, SeqDef
  <2>3. Is("dict", Defaults[c]) => of = WithoutKeys(of, {})
    BY ChannelConstants DEF WithoutKeys, Is
  <2>4. UNION {Named(written[c][n]) : n \in DOMAIN written[c]} = {}
    BY <1>2, <2>1
  <2>5. KeepsPromise(c)
    BY <2>1, <2>2, <2>3, <2>4, AllPartsOfNone DEF KeepsPromise, Merged
  <2>6. QED BY <2>1, <2>2, <2>5 DEF ChannelOk
<1>4. QED BY <1>1, <1>2, <1>3 DEF ChannelsInv

LEMMA ChannelsInvStep == ChannelsInv /\ [Next]_vars => ChannelsInv'
<1> SUFFICES ASSUME ChannelsInv, [Next]_vars PROVE ChannelsInv'
  OBVIOUS
<1>1. CASE UNCHANGED channelVars
  BY <1>1, ChannelStays DEF channelVars, ChannelsInv
<1>2. CASE RestoreChannels
  BY <1>2, ChannelStays DEF RestoreChannels, Restored, ChannelsInv
<1>3. CASE UseChannels
  <2>1. CASE \E n \in 0 .. MaxWidth : \E update \in [1 .. n -> ChannelNames \X Updates] :
               ApplyStateUpdate(update)
    <3>1. PICK n \in 0 .. MaxWidth : \E update \in [1 .. n -> ChannelNames \X Updates] :
            ApplyStateUpdate(update)
      BY <2>1
    <3>2. n \in Nat
      OBVIOUS
    <3>3. QED BY <3>1, <3>2, UpdateKeeps
  <2>2. QED BY <1>2, <1>3, <2>1 DEF UseChannels
<1>4. QED BY <1>1, <1>3 DEF Next, UseThreads, UseMemory, vars

(* An update whose reducer raises leaves nothing in the store, and what is       *)
(* stored of every channel is what its reducer promises of all that was written. *)
THEOREM UpdatesApplyWhole == Spec => []UpdatesAreWhole
<1>1. ChannelsInv => UpdatesAreWhole
  BY DEF ChannelsInv, ChannelOk, UpdatesAreWhole
<1>2. QED BY <1>1, ChannelsInvInit, ChannelsInvStep, PTL DEF Spec
=============================================================================
