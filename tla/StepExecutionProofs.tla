------------------------- MODULE StepExecutionProofs -------------------------
(***************************************************************************)
(* Proofs about StepExecution: nothing executes that the policies did not     *)
(* clear, nor on the host what must not, nor twice without a retry; a          *)
(* workflow that was accepted is not refused later; agents stay within their  *)
(* limits, and those that do finish; a step ends with its calls; and the       *)
(* client spares a sandbox behind an open circuit.                           *)
(***************************************************************************)
EXTENDS StepExecution, SequenceTheorems, FiniteSetTheorems, TLAPS

Phases == Ended \cup {"idle", "rejected", "policies", "started",
                      "calling", "remote", "awaiting"}
Early == {"idle", "policies", "started"}
Executing == {"started", "calling", "remote", "awaiting"}

ActivityRecords ==
  [pc : Phases, tool : Tools \cup {"none"},
   verdicts : Seq({"allow", "deny", "raise", "timeout"}),
   onHost : Nat, remotely : Nat, resends : Nat]
AgentRecords ==
  [next : Nat \ {0}, used : Nat, resume : Tools \cup {"none"}, trouble : BOOLEAN]

StepsTypeOK ==
  /\ executor \in [Steps -> Executors]
  /\ act \in [Activities -> ActivityRecords]
  /\ agent \in [Steps -> AgentRecords]

(* What is known of an activity of executor x, from where it is: the policies  *)
(* asked so far allow it; what executes or has executed is cleared; and what   *)
(* is called or has run on the host may run there.                          *)
PassedBy(r, x) ==
  \A i \in 1 .. Len(r.verdicts) :
    r.verdicts[i] = "allow" /\ (Policies[i] = "capability" => x \notin Ungranted)
ClearedBy(r, x, top) ==
  /\ Len(r.verdicts) = Len(Policies)
  /\ PassedBy(r, x)
  /\ ~top => x \notin Asking
MayRunOnHost(x) == ~StrictRemote /\ Placement[x] # "remote_only"

Governed(r, x, top) ==
  /\ IF r.pc = "idle" THEN r.verdicts = <<>> ELSE x \in Executors
  /\ r.pc \in {"idle", "policies", "rejected"} => r.onHost = 0 /\ r.remotely = 0
  /\ r.pc = "policies" => Len(r.verdicts) < Len(Policies) /\ PassedBy(r, x)
  /\ r.pc \in Executing \/ r.onHost + r.remotely > 0 => ClearedBy(r, x, top)
  /\ r.pc = "calling" \/ r.onHost > 0 => MayRunOnHost(x)

(* The calls of a step that its agent has not made yet are idle, so that a     *)
(* call never takes the record of another.                                  *)
IdleFrom(e, k) == \A i \in Nat : i >= k /\ i <= MaxCalls => act[<<e, i>>].pc = "idle"
CallsAhead(e) ==
  /\ Top(e).pc \in Early =>
       agent[e].next = 1 /\ agent[e].used = 0 /\ IdleFrom(e, 1)
  /\ Top(e).pc = "calling" => IdleFrom(e, agent[e].next)
  /\ Top(e).pc = "remote" => IdleFrom(e, agent[e].used + 1)
  /\ Top(e).pc = "awaiting" =>
       /\ UsesAgent(e)
       /\ agent[e].used + 1 <= MaxCalls
       /\ IdleFrom(e, agent[e].used + 2)

(* The calls that got as far as the policies are counted, the one a remote      *)
(* agent waits for not yet.                                                 *)
Asked(r) == r.pc = "policies" \/ r.verdicts # <<>>
AskedCalls(e) == {k \in 1 .. MaxCalls : Asked(act[<<e, k>>])}
CallsCounted(e) ==
  UsesAgent(e) /\ Style[executor[e]] # "loop" =>
    /\ \A k \in AskedCalls(e) : act[<<e, k>>].tool \in AllowedTools[executor[e]]
    /\ Cardinality(AskedCalls(e)) <= MaxToolCalls[executor[e]]
    /\ Top(e).pc \in {"calling", "remote"} =>
         Cardinality(AskedCalls(e)) <= agent[e].used
    /\ Top(e).pc = "awaiting" => Cardinality(AskedCalls(e)) <= agent[e].used + 1

StepInv ==
  /\ StepsTypeOK
  /\ \A a \in Activities : Governed(act[a], ExecutorOf(a), IsTop(a))
  /\ \A e \in Steps : CallsAhead(e) /\ CallsCounted(e)

-----------------------------------------------------------------------------
(* Activities are steps and calls. *)
LEMMA ActivityParts ==
  ASSUME NEW a \in Activities
  PROVE  /\ a[1] \in Steps /\ a[2] \in Nat /\ a[2] <= MaxCalls
         /\ a = <<a[1], a[2]>>
         /\ IsTop(a) <=> a = TopOf(a[1])
  BY StepConstants DEF Activities, IsTop, TopOf

(* The record of a call is none of the others'. *)
LEMMA CallIsActivity ==
  ASSUME NEW e \in Steps, NEW k \in Nat, k <= MaxCalls
  PROVE  /\ <<e, k>> \in Activities
         /\ IsTop(<<e, k>>) <=> k = 0
   BY StepConstants DEF Activities, IsTop

(* The top of a step is an activity, executed by the step's executor. *)
LEMMA TopIsActivity ==
  ASSUME NEW e \in Steps
  PROVE  TopOf(e) \in Activities /\ IsTop(TopOf(e)) /\ ExecutorOf(TopOf(e)) = executor[e]
  BY StepConstants DEF Activities, IsTop, TopOf, ExecutorOf

(* The calls that are counted are finitely many. *)
LEMMA AskedFinite ==
  ASSUME NEW e \in Steps
  PROVE  IsFiniteSet(AskedCalls(e)) /\ Cardinality(AskedCalls(e)) \in Nat
<1>1. IsFiniteSet(1 .. MaxCalls)
  BY FS_Interval, StepConstants
<1>2. IsFiniteSet(AskedCalls(e))
  BY <1>1, FS_Subset DEF AskedCalls
<1>3. QED BY <1>2, FS_CardinalityType

(* No call is counted of a step whose calls are all idle. *)
LEMMA NoneAsked ==
  ASSUME StepInv, NEW e \in Steps, IdleFrom(e, 1)
  PROVE  Cardinality(AskedCalls(e)) = 0
<1>1. ASSUME NEW k \in 1 .. MaxCalls PROVE ~Asked(act[<<e, k>>])
  <2>1. <<e, k>> \in Activities /\ k \in Nat /\ k >= 1 /\ k <= MaxCalls
    BY StepConstants, CallIsActivity
  <2>2. act[<<e, k>>].pc = "idle"
    BY <2>1 DEF IdleFrom
  <2>3. Governed(act[<<e, k>>], ExecutorOf(<<e, k>>), IsTop(<<e, k>>))
    BY <2>1 DEF StepInv
  <2>4. QED BY <2>2, <2>3 DEF Asked, Governed
<1>2. AskedCalls(e) = {}
  BY <1>1 DEF AskedCalls
<1>3. QED BY <1>2, FS_EmptySet

(* An activity that was going on, or is at the top, moves on by itself. *)
Onward(p, q) ==
  \/ q = p
  \/ q \in Ended \cup {"rejected"}
  \/ p \in Early /\ q \in {"policies", "started", "calling", "remote"}

(* A step that changes one record only keeps what is known of the others. *)
LEMMA OneMoves ==
  ASSUME StepInv, NEW a \in Activities, NEW r \in ActivityRecords,
         act' = [act EXCEPT ![a] = r], UNCHANGED <<runtime, executor>>,
         agent' \in [Steps -> AgentRecords],
         \A e \in Steps : agent'[e].next = agent[e].next /\ agent'[e].used = agent[e].used,
         act[a].pc = "idle" /\ ~IsTop(a) => r.pc = "idle",
         r.tool = act[a].tool,
         Onward(act[a].pc, r.pc),
         ~IsTop(a) /\ Asked(r) => Asked(act[a]),
         Governed(r, ExecutorOf(a), IsTop(a))
  PROVE  StepInv'
<1>1. /\ act'[a] = r
      /\ \A b \in Activities \ {a} : act'[b] = act[b]
  BY DEF StepInv, StepsTypeOK
<1>2. StepsTypeOK'
  BY DEF StepInv, StepsTypeOK
<1>3. ASSUME NEW b \in Activities
      PROVE  Governed(act[b], ExecutorOf(b), IsTop(b))'
  <2>1. ExecutorOf(b)' = ExecutorOf(b)
    BY <1>1 DEF ExecutorOf, IsTop
  <2>2. MayRunOnHost(ExecutorOf(b))' <=> MayRunOnHost(ExecutorOf(b))
    BY <2>1 DEF MayRunOnHost, StrictRemote
  <2>3. Governed(act'[b], ExecutorOf(b), IsTop(b))
    BY <1>1 DEF StepInv
  <2>4. QED BY <2>1, <2>2, <2>3 DEF Governed, PassedBy, ClearedBy, IsTop
<1>4. ASSUME NEW e \in Steps
      PROVE  CallsAhead(e)'
  <2>1. TopOf(e) \in Activities /\ IsTop(TopOf(e))
    BY TopIsActivity
  <2>2. ASSUME NEW k \in Nat, k > 0, IdleFrom(e, k)
        PROVE  IdleFrom(e, k)'
    <3> SUFFICES ASSUME NEW i \in Nat, i >= k, i <= MaxCalls
                 PROVE  act'[<<e, i>>].pc = "idle"
      BY DEF IdleFrom
    <3>1. <<e, i>> \in Activities /\ ~IsTop(<<e, i>>) /\ act[<<e, i>>].pc = "idle"
      BY <2>2, CallIsActivity DEF IdleFrom
    <3>2. QED BY <1>1, <3>1
  <2>3. CallsAhead(e)
    BY DEF StepInv
  <2>4. /\ agent'[e].next = agent[e].next /\ agent'[e].used = agent[e].used
        /\ agent[e].next \in Nat \ {0} /\ agent[e].used \in Nat
    BY DEF StepInv, StepsTypeOK, AgentRecords
  <2>5. Onward(Top(e).pc, Top(e)'.pc)
    BY <1>1, <2>1 DEF Top, TopOf, Onward
  <2>6. UsesAgent(e)' <=> UsesAgent(e)
    BY DEF UsesAgent
  <2>7. \A k \in Nat : k > 0 /\ IdleFrom(e, k) =>
           \A i \in Nat : i >= k /\ i <= MaxCalls => act'[<<e, i>>].pc = "idle"
    BY <2>2 DEF IdleFrom
  <2>8. /\ IdleFrom(e, 1) => IdleFrom(e, 1)'
        /\ IdleFrom(e, agent[e].next) => IdleFrom(e, agent[e].next)'
        /\ IdleFrom(e, agent[e].used + 1) => IdleFrom(e, agent[e].used + 1)'
        /\ IdleFrom(e, agent[e].used + 2) => IdleFrom(e, agent[e].used + 2)'
    <3>1. IdleFrom(e, 1) => IdleFrom(e, 1)'
      BY <2>7 DEF IdleFrom
    <3>2. IdleFrom(e, agent[e].next) => IdleFrom(e, agent[e].next)'
      BY <2>4, <2>7 DEF IdleFrom
    <3>3. IdleFrom(e, agent[e].used + 1) => IdleFrom(e, agent[e].used + 1)'
      BY <2>4, <2>7 DEF IdleFrom
    <3>4. IdleFrom(e, agent[e].used + 2) => IdleFrom(e, agent[e].used + 2)'
      BY <2>4, <2>7 DEF IdleFrom
    <3>5. QED BY <3>1, <3>2, <3>3, <3>4
  <2>9. QED
    BY <2>3, <2>4, <2>5, <2>6, <2>8, SMTT(30)
       DEF CallsAhead, Onward, Early, Ended, Top, TopOf, IdleFrom
<1>5. ASSUME NEW e \in Steps, UsesAgent(e), Style[executor[e]] # "loop"
      PROVE  CallsCounted(e)'
  <2>1. TopOf(e) \in Activities /\ IsTop(TopOf(e))
    BY TopIsActivity
  <2>2. ASSUME NEW k \in 1 .. MaxCalls
        PROVE  /\ Asked(act'[<<e, k>>]) => Asked(act[<<e, k>>])
               /\ act'[<<e, k>>].tool = act[<<e, k>>].tool
    <3>1. <<e, k>> \in Activities /\ ~IsTop(<<e, k>>)
      BY StepConstants, CallIsActivity
    <3>2. QED BY <1>1, <3>1
  <2>3. AskedCalls(e)' \subseteq AskedCalls(e)
    BY <2>2 DEF AskedCalls
  <2>4. /\ Cardinality(AskedCalls(e)') <= Cardinality(AskedCalls(e))
        /\ Cardinality(AskedCalls(e)) \in Nat /\ Cardinality(AskedCalls(e)') \in Nat
    BY <2>3, AskedFinite, FS_Subset, FS_CardinalityType
  <2>5. /\ agent'[e].used = agent[e].used /\ agent[e].used \in Nat
        /\ MaxToolCalls[executor[e]] \in Nat
    BY <1>5, StepConstants DEF StepInv, StepsTypeOK, AgentRecords, UsesAgent
  <2>6. CallsCounted(e) /\ CallsAhead(e)
    BY DEF StepInv
  <2>7. Onward(Top(e).pc, Top(e)'.pc)
    BY <1>1, <2>1 DEF Top, TopOf, Onward
  <2>8. Top(e).pc \in Early => Cardinality(AskedCalls(e)) = 0
    BY <2>6, NoneAsked DEF CallsAhead
  <2>9. \A k \in AskedCalls(e)' : act'[<<e, k>>].tool \in AllowedTools[executor[e]]
    BY <1>5, <2>2, <2>3, <2>6 DEF CallsCounted, AskedCalls
  <2>10. /\ Cardinality(AskedCalls(e)') <= MaxToolCalls[executor[e]]
         /\ Top(e)'.pc \in {"calling", "remote"} =>
              Cardinality(AskedCalls(e)') <= agent'[e].used
         /\ Top(e)'.pc = "awaiting" => Cardinality(AskedCalls(e)') <= agent'[e].used + 1
    BY <1>5, <2>4, <2>5, <2>6, <2>7, <2>8 DEF CallsCounted, Onward, Early, Ended
  <2>11. QED BY <2>9, <2>10 DEF CallsCounted
<1>6. \A e \in Steps : CallsCounted(e)'
  BY <1>5 DEF CallsCounted, UsesAgent
<1>7. QED BY <1>2, <1>3, <1>4, <1>6 DEF StepInv

-----------------------------------------------------------------------------
(* A record that only gets another phase, and what it needs for it. *)
LEMMA RecordFields ==
  ASSUME NEW a \in Activities, StepInv
  PROVE  /\ act[a] \in ActivityRecords
         /\ act[a].verdicts \in Seq({"allow", "deny", "raise", "timeout"})
         /\ act[a].onHost \in Nat /\ act[a].remotely \in Nat /\ act[a].resends \in Nat
         /\ Governed(act[a], ExecutorOf(a), IsTop(a))
  BY DEF StepInv, StepsTypeOK, ActivityRecords

(* What agents remember, when at most the trouble is noted. *)
Noted == \/ UNCHANGED agent
         \/ \E e \in Steps : \E b \in BOOLEAN : agent' = [agent EXCEPT ![e].trouble = b]

(* Noting trouble leaves the counters of the agents alone. *)
LEMMA NotedKeeps ==
  ASSUME StepInv, Noted
  PROVE  /\ agent' \in [Steps -> AgentRecords]
         /\ \A e \in Steps : agent'[e].next = agent[e].next /\ agent'[e].used = agent[e].used
<1>1. agent \in [Steps -> AgentRecords]
  BY DEF StepInv, StepsTypeOK
<1>2. CASE UNCHANGED agent
  BY <1>1, <1>2
<1>3. CASE \E e \in Steps : \E b \in BOOLEAN : agent' = [agent EXCEPT ![e].trouble = b]
  BY <1>1, <1>3 DEF AgentRecords
<1>4. QED BY <1>2, <1>3 DEF Noted

(* An activity that executes, or could, ends or goes on where it may. *)
LEMMA RunMoves ==
  ASSUME StepInv, NEW a \in Activities, NEW r \in ActivityRecords,
         act' = [act EXCEPT ![a] = r], UNCHANGED <<runtime, executor>>, Noted,
         act[a].pc \in Executing,
         r.tool = act[a].tool, r.verdicts = act[a].verdicts,
         \/ r.pc \in Ended
         \/ r.pc = act[a].pc
         \/ act[a].pc = "started" /\ r.pc \in {"calling", "remote"},
         r.pc = "calling" \/ r.onHost # act[a].onHost => MayRunOnHost(ExecutorOf(a))
  PROVE  StepInv'
<1>1. Governed(act[a], ExecutorOf(a), IsTop(a))
  BY RecordFields
<1>2. ClearedBy(act[a], ExecutorOf(a), IsTop(a))
  BY <1>1 DEF Governed
<1>3. ClearedBy(r, ExecutorOf(a), IsTop(a))
  BY <1>2 DEF ClearedBy, PassedBy
<1>4. r.onHost > 0 => MayRunOnHost(ExecutorOf(a))
  BY <1>1 DEF Governed
<1>5. r.pc \notin {"idle", "policies", "rejected"}
  BY DEF Ended, Executing
<1>6. Governed(r, ExecutorOf(a), IsTop(a))
  BY <1>1, <1>3, <1>4, <1>5 DEF Governed, Executing
<1>7. Onward(act[a].pc, r.pc) /\ act[a].pc # "idle"
  BY DEF Onward, Early, Executing
<1>8. Asked(act[a])
  <2>1. Len(act[a].verdicts) # 0
    BY <1>2, StepConstants, EmptySeq, LenProperties DEF ClearedBy
  <2>2. QED BY <2>1, EmptySeq DEF Asked
<1>9. QED BY <1>6, <1>7, <1>8, NotedKeeps, OneMoves

(* The same for one that only gets another phase. *)
LEMMA PhaseMoves ==
  ASSUME StepInv, NEW a \in Activities, NEW q \in Phases,
         Move(a, q), UNCHANGED <<runtime, executor>>, Noted,
         act[a].pc \in Executing,
         \/ q \in Ended
         \/ act[a].pc = "started" /\ q = "remote"
  PROVE  StepInv'
<1> DEFINE r == [act[a] EXCEPT !.pc = q]
<1>1. r \in ActivityRecords /\ act' = [act EXCEPT ![a] = r]
  BY RecordFields DEF Move, ActivityRecords, StepInv, StepsTypeOK
<1>2. /\ r.pc = q /\ r.tool = act[a].tool /\ r.verdicts = act[a].verdicts
      /\ r.onHost = act[a].onHost
  BY RecordFields DEF ActivityRecords
<1>3. q # "calling"
  BY DEF Ended
<1>4. QED BY <1>1, <1>2, <1>3, RunMoves

(* validate_workflow lets a step begin, or refuses the workflow. *)
LEMMA ValidateKeeps ==
  ASSUME StepInv, NEW e \in Steps, ValidateWorkflow(e)
  PROVE  StepInv'
<1> DEFINE a == TopOf(e)
<1>1. a \in Activities /\ IsTop(a) /\ act[a].pc = "idle"
  BY TopIsActivity DEF ValidateWorkflow
<1>2. PICK q \in {"rejected", "policies"} : Move(a, q)
  BY DEF ValidateWorkflow
<1> DEFINE r == [act[a] EXCEPT !.pc = q]
<1>3. r \in ActivityRecords /\ act' = [act EXCEPT ![a] = r]
  BY <1>1, <1>2, RecordFields DEF Move, ActivityRecords, StepInv, StepsTypeOK, Phases
<1>4. /\ r.pc = q /\ r.tool = act[a].tool /\ r.verdicts = act[a].verdicts
      /\ r.onHost = act[a].onHost /\ r.remotely = act[a].remotely
  BY <1>1, RecordFields DEF ActivityRecords
<1>5. Len(Policies) \in Nat \ {0}
  BY StepConstants, EmptySeq, LenProperties
<1>6. r.verdicts = <<>> /\ r.onHost = 0 /\ r.remotely = 0
  BY <1>1, <1>4, RecordFields DEF Governed
<1>7. Governed(r, ExecutorOf(a), IsTop(a))
  <2>1. ExecutorOf(a) \in Executors
    BY TopIsActivity DEF StepInv, StepsTypeOK
  <2>2. QED BY <1>4, <1>5, <1>6, <2>1 DEF Governed, PassedBy, Executing
<1>8. Onward(act[a].pc, r.pc)
  BY <1>1, <1>4 DEF Onward, Early
<1>9. UNCHANGED <<runtime, executor>> /\ Noted
  BY DEF ValidateWorkflow, Noted
<1>10. QED BY <1>1, <1>3, <1>4, <1>7, <1>8, <1>9, NotedKeeps, OneMoves

(* A verdict is added: the activity goes on only if it allows. *)
LEMMA PolicyKeeps ==
  ASSUME StepInv, NEW a \in Activities, EvaluatePolicy(a)
  PROVE  StepInv'
<1> DEFINE x == ExecutorOf(a)
           asked == Len(act[a].verdicts) + 1
<1>1. PICK v \in Verdicts(Policies[asked], x) :
        act' = [act EXCEPT ![a].verdicts = Append(@, v),
                           ![a].pc =
           IF ~Allows(v) THEN "failed"
           ELSE IF asked < Len(Policies) THEN "policies"
           ELSE IF ~IsTop(a) /\ x \in Asking THEN "approval" ELSE "started"]
  BY DEF EvaluatePolicy
<1> DEFINE q == IF ~Allows(v) THEN "failed"
                ELSE IF asked < Len(Policies) THEN "policies"
                ELSE IF ~IsTop(a) /\ x \in Asking THEN "approval" ELSE "started"
           vs == Append(act[a].verdicts, v)
           r == [act[a] EXCEPT !.verdicts = vs, !.pc = q]
<1>2. /\ act[a].pc = "policies" /\ Len(act[a].verdicts) \in Nat
      /\ Len(act[a].verdicts) < Len(Policies) /\ PassedBy(act[a], x)
      /\ act[a].onHost = 0 /\ act[a].remotely = 0
      /\ x \in Executors
  BY RecordFields, LenProperties DEF EvaluatePolicy, Governed
<1>3. v \in {"allow", "deny", "raise", "timeout"}
  BY DEF Verdicts
<1>4. /\ vs \in Seq({"allow", "deny", "raise", "timeout"})
      /\ Len(vs) = asked /\ vs[asked] = v
      /\ \A i \in 1 .. Len(act[a].verdicts) : vs[i] = act[a].verdicts[i]
  BY <1>3, RecordFields, AppendProperties
<1>5. /\ ~Allows(v) => q = "failed"
      /\ Allows(v) /\ asked < Len(Policies) => q = "policies"
      /\ Allows(v) /\ ~(asked < Len(Policies)) =>
           \/ q = "approval"
           \/ q = "started" /\ (~IsTop(a) => x \notin Asking)
  OBVIOUS
<1>6. Allows(v) => v = "allow" /\ (Policies[asked] = "capability" => x \notin Ungranted)
  BY DEF Allows, Verdicts
<1> HIDE DEF q, vs
<1>7. q \in {"failed", "policies", "approval", "started"}
  BY <1>5
<1>8. r \in ActivityRecords /\ act' = [act EXCEPT ![a] = r]
  <2>1. r \in ActivityRecords
    <3>1. act[a] \in ActivityRecords
      BY RecordFields
    <3>2. q \in Phases
      BY <1>7 DEF Phases, Ended
    <3>3. vs \in Seq({"allow", "deny", "raise", "timeout"})
      BY <1>4
    <3>4. QED BY <3>1, <3>2, <3>3 DEF ActivityRecords
  <2>2. act \in [Activities -> ActivityRecords]
    BY DEF StepInv, StepsTypeOK
  <2>3. act' = [act EXCEPT ![a].verdicts = vs, ![a].pc = q]
    BY <1>1 DEF q, vs
  <2>4. act' = [act EXCEPT ![a] = r]
    BY <2>2, <2>3 DEF ActivityRecords
  <2>5. QED BY <2>1, <2>4
<1>9. /\ r.pc = q /\ r.tool = act[a].tool /\ r.verdicts = vs
      /\ r.onHost = 0 /\ r.remotely = 0
  BY <1>2, RecordFields DEF ActivityRecords
<1>10. Allows(v) => PassedBy(r, x)
  BY <1>2, <1>4, <1>6, <1>9 DEF PassedBy
<1>11. Len(Policies) \in Nat
  BY StepConstants, LenProperties
<1>12. Governed(r, x, IsTop(a))
  BY <1>2, <1>4, <1>5, <1>7, <1>9, <1>10, <1>11 DEF Governed, ClearedBy, Executing
<1>13. Onward(act[a].pc, r.pc)
  BY <1>2, <1>7, <1>9 DEF Onward, Early, Ended
<1>14. UNCHANGED <<runtime, executor>> /\ Noted /\ act[a].pc # "idle"
  BY DEF EvaluatePolicy, Noted
<1>15. Asked(act[a])
  BY <1>2 DEF Asked
<1>16. QED BY <1>8, <1>9, <1>12, <1>13, <1>14, <1>15, NotedKeeps, OneMoves

(* Start: what may not run where it is placed ends; the rest runs on the host or  *)
(* posts to the sandbox.                                                    *)
LEMMA StartKeeps ==
  ASSUME StepInv, NEW a \in Activities, Start(a)
  PROVE  StepInv'
<1> DEFINE x == ExecutorOf(a)
<1>1. /\ act[a].pc = "started" /\ act[a].pc \in Executing
      /\ UNCHANGED <<runtime, executor>>
  BY DEF Start, Executing
<1>2. Noted
  BY ActivityParts DEF Start, Noted
<1>3. CASE \E q \in {"contained", "failed", "remote"} : Move(a, q)
  <2>1. PICK q \in {"contained", "failed", "remote"} : Move(a, q)
    BY <1>3
  <2>2. q \in Phases /\ (q \in Ended \/ q = "remote")
    BY <1>1 DEF Phases, Ended
  <2> HIDE DEF x
  <2>3. QED BY <1>1, <1>2, <2>1, <2>2, PhaseMoves
<1>4. CASE /\ ~LateRefusal(x) /\ ~ExecutesRemotely(x)
           /\ act' = [act EXCEPT ![a].pc = "calling",
                                 ![a].onHost = IF x \in Agents THEN 1 ELSE @]
  <2> DEFINE n == IF x \in Agents THEN 1 ELSE act[a].onHost
             r == [act[a] EXCEPT !.pc = "calling", !.onHost = n]
  <2>1. n \in Nat
    BY RecordFields
  <2> HIDE DEF n
  <2>2. r \in ActivityRecords
    BY <2>1, RecordFields DEF ActivityRecords, Phases
  <2>3. act' = [act EXCEPT ![a] = r]
    BY <1>4 DEF n, StepInv, StepsTypeOK, ActivityRecords
  <2>4. r.pc = "calling" /\ r.tool = act[a].tool /\ r.verdicts = act[a].verdicts
    BY RecordFields DEF ActivityRecords
  <2>5. x \in Executors
    BY <1>1, RecordFields DEF Governed
  <2>6. Placement[x] \in {"local_only", "local_or_remote", "remote_only"}
    BY <2>5, StepConstants
  <2>7. MayRunOnHost(x)
    BY <1>4, <2>6 DEF MayRunOnHost, LateRefusal, ExecutesRemotely
  <2>8. QED BY <1>1, <1>2, <2>2, <2>3, <2>4, <2>7, RunMoves
<1>5. QED BY <1>3, <1>4 DEF Start, Post, Move

(* A tool that runs on the host was called there, and returns or raises. *)
LEMMA RunOnHostKeeps ==
  ASSUME StepInv, NEW a \in Activities, RunOnHost(a)
  PROVE  StepInv'
<1>1. PICK outcome \in {"invalid", "raises", "command", "output"} :
        act' = [act EXCEPT
         ![a].onHost = IF outcome = "invalid" THEN @ ELSE @ + 1,
         ![a].pc = IF outcome = "output" \/ (outcome = "command" /\ IsTop(a))
                   THEN "ok" ELSE "failed"]
  BY DEF RunOnHost
<1> DEFINE n == IF outcome = "invalid" THEN act[a].onHost ELSE act[a].onHost + 1
           q == IF outcome = "output" \/ (outcome = "command" /\ IsTop(a))
                THEN "ok" ELSE "failed"
           r == [act[a] EXCEPT !.onHost = n, !.pc = q]
<1>2. n \in Nat /\ q \in {"ok", "failed"}
  BY RecordFields
<1>3. act' = [act EXCEPT ![a] = r]
  BY <1>1 DEF StepInv, StepsTypeOK, ActivityRecords
<1> HIDE DEF n, q
<1>4. r \in ActivityRecords
  BY <1>2, RecordFields DEF ActivityRecords, Phases, Ended
<1>5. r.pc \in Ended /\ r.tool = act[a].tool /\ r.verdicts = act[a].verdicts
  BY <1>2, RecordFields DEF ActivityRecords, Ended
<1>6. act[a].pc = "calling" /\ UNCHANGED <<runtime, executor>> /\ Noted
  BY DEF RunOnHost, Noted
<1>7. MayRunOnHost(ExecutorOf(a))
  BY <1>6, RecordFields DEF Governed
<1>8. QED BY <1>3, <1>4, <1>5, <1>6, <1>7, RunMoves DEF Executing

(* An activity in the sandbox executes there n times more, and goes on or ends. *)
LEMMA RemoteMoves ==
  ASSUME StepInv, NEW a \in Activities, NEW n \in Nat, NEW q \in Ended \cup {"remote"},
         act[a].pc = "remote", UNCHANGED <<runtime, executor>>, Noted,
         act' = [act EXCEPT ![a] = [act[a] EXCEPT !.remotely = act[a].remotely + n, !.pc = q]]
  PROVE  StepInv'
<1> DEFINE m == act[a].remotely + n
           r == [act[a] EXCEPT !.remotely = m, !.pc = q]
<1>1. m \in Nat
  BY RecordFields
<1>2. act' = [act EXCEPT ![a] = r]
  OBVIOUS
<1> HIDE DEF m
<1>3. r \in ActivityRecords
  BY <1>1, RecordFields DEF ActivityRecords, Phases
<1>4. /\ r.pc = q /\ r.tool = act[a].tool /\ r.verdicts = act[a].verdicts
      /\ r.onHost = act[a].onHost
  BY RecordFields DEF ActivityRecords
<1>5. q # "calling" /\ act[a].pc \in Executing
  BY DEF Ended, Executing
<1>6. QED BY <1>2, <1>3, <1>4, <1>5, RunMoves

(* An exchange that yields no body to go on with. *)
LEMMA ExchangeKeeps ==
  ASSUME StepInv, NEW a \in Activities, NEW answer, Exchange(a, answer, FALSE)
  PROVE  StepInv'
<1>1. PICK ran \in MayHaveRun(answer) :
        \/ /\ act' = [act EXCEPT ![a].remotely = @ + ran]
           /\ UNCHANGED agent
        \/ /\ act' = [act EXCEPT ![a].remotely = @ + ran, ![a].pc = "failed"]
           /\ agent' = [agent EXCEPT ![a[1]].trouble = TRUE]
  BY DEF Exchange
<1>2. ran \in Nat
  BY DEF MayHaveRun
<1>3. act[a].pc = "remote" /\ UNCHANGED <<runtime, executor>>
  BY DEF Exchange
<1>4. Noted
  BY <1>1, ActivityParts DEF Noted
<1>5. CASE act' = [act EXCEPT ![a].remotely = @ + ran]
  <2>1. act' = [act EXCEPT ![a] = [act[a] EXCEPT !.remotely = act[a].remotely + ran,
                                                 !.pc = "remote"]]
    BY <1>3, <1>5 DEF StepInv, StepsTypeOK, ActivityRecords
  <2>2. QED BY <1>2, <1>3, <1>4, <2>1, RemoteMoves
<1>6. CASE act' = [act EXCEPT ![a].remotely = @ + ran, ![a].pc = "failed"]
  <2>1. act' = [act EXCEPT ![a] = [act[a] EXCEPT !.remotely = act[a].remotely + ran,
                                                 !.pc = "failed"]]
    BY <1>6 DEF StepInv, StepsTypeOK, ActivityRecords
  <2>2. "failed" \in Ended
    BY DEF Ended
  <2>3. QED BY <1>2, <1>3, <1>4, <2>1, <2>2, RemoteMoves
<1>7. QED BY <1>1, <1>5, <1>6

(* A remote tool: its exchange, or what the sandbox makes of it. *)
LEMMA RemoteToolKeeps ==
  ASSUME StepInv, NEW a \in Activities, RemoteTool(a)
  PROVE  StepInv'
<1>1. PICK answer \in Answers : Exchange(a, answer, ToolAnswered(a))
  BY DEF RemoteTool
<1>2. CASE Exchange(a, answer, FALSE)
  BY <1>2, ExchangeKeeps
<1>3. CASE ToolAnswered(a)
  <2>1. PICK body \in {"output", "error", "not_found", "malformed"} :
          act' = [act EXCEPT
            ![a].remotely = IF body = "not_found" THEN @ ELSE @ + 1,
            ![a].pc = IF body = "output" THEN "ok" ELSE "failed"]
    BY <1>3 DEF ToolAnswered
  <2> DEFINE n == IF body = "not_found" THEN 0 ELSE 1
             q == IF body = "output" THEN "ok" ELSE "failed"
  <2>2. n \in Nat /\ q \in Ended
    BY DEF Ended
  <2>3. act' = [act EXCEPT ![a] = [act[a] EXCEPT !.remotely = act[a].remotely + n, !.pc = q]]
    <3>1. act[a].remotely + n = IF body = "not_found" THEN act[a].remotely
                                ELSE act[a].remotely + 1
      BY RecordFields
    <3> HIDE DEF n
    <3>2. QED BY <2>1, <3>1 DEF StepInv, StepsTypeOK, ActivityRecords
  <2>4. act[a].pc = "remote" /\ UNCHANGED <<runtime, executor>> /\ Noted
    BY <1>1, <1>3 DEF Exchange, ToolAnswered, Noted
  <2> HIDE DEF n, q
  <2>5. QED BY <2>2, <2>3, <2>4, RemoteMoves
<1>4. QED BY <1>1, <1>2, <1>3 DEF Exchange

(* A request that is sent again leaves its activity where it is. *)
LEMMA BackoffKeeps ==
  ASSUME StepInv, NEW a \in Activities, Backoff(a)
  PROVE  StepInv'
<1> DEFINE n == act[a].resends + 1
           r == [act[a] EXCEPT !.resends = n]
<1>1. n \in Nat
  BY RecordFields
<1>2. act' = [act EXCEPT ![a] = r] /\ UNCHANGED <<runtime, executor>> /\ Noted
  BY DEF Backoff, Noted, StepInv, StepsTypeOK, ActivityRecords
<1> HIDE DEF n
<1>3. r \in ActivityRecords
  BY <1>1, RecordFields DEF ActivityRecords
<1>4. /\ r.pc = act[a].pc /\ r.tool = act[a].tool /\ r.verdicts = act[a].verdicts
      /\ r.onHost = act[a].onHost /\ r.remotely = act[a].remotely
  BY RecordFields DEF ActivityRecords
<1>5. Governed(r, ExecutorOf(a), IsTop(a))
  BY <1>4, RecordFields DEF Governed, PassedBy, ClearedBy
<1>6. Onward(act[a].pc, r.pc)
  BY <1>4 DEF Onward
<1>7. Asked(r) => Asked(act[a])
  BY <1>4 DEF Asked
<1>8. QED BY <1>2, <1>3, <1>4, <1>5, <1>6, <1>7, NotedKeeps, OneMoves

(* A step in which only one step's activities and agent change. *)
LEMMA OneStepMoves ==
  ASSUME StepInv, NEW e \in Steps, StepsTypeOK', UNCHANGED <<runtime, executor>>,
         \A b \in Activities : b[1] # e => act'[b] = act[b],
         \A f \in Steps \ {e} : agent'[f] = agent[f],
         \A k \in Nat : k <= MaxCalls =>
           Governed(act[<<e, k>>], ExecutorOf(<<e, k>>), IsTop(<<e, k>>))',
         CallsAhead(e)', CallsCounted(e)'
  PROVE  StepInv'
<1>1. ASSUME NEW b \in Activities
      PROVE  Governed(act[b], ExecutorOf(b), IsTop(b))'
  <2>1. CASE b[1] = e
    BY <2>1, ActivityParts
  <2>2. CASE b[1] # e
    <3>1. act'[b] = act[b]
      BY <2>2
    <3>2. ExecutorOf(b)' = ExecutorOf(b)
      BY <3>1 DEF ExecutorOf, IsTop
    <3>3. MayRunOnHost(ExecutorOf(b))' <=> MayRunOnHost(ExecutorOf(b))
      BY <3>2 DEF MayRunOnHost, StrictRemote
    <3>4. Governed(act[b], ExecutorOf(b), IsTop(b))
      BY DEF StepInv
    <3>5. QED BY <3>1, <3>2, <3>3, <3>4 DEF Governed, PassedBy, ClearedBy, IsTop
  <2>3. QED BY <2>1, <2>2
<1>2. ASSUME NEW f \in Steps, f # e
      PROVE  CallsAhead(f)' /\ CallsCounted(f)'
  <2>1. \A k \in Nat : k <= MaxCalls => act'[<<f, k>>] = act[<<f, k>>]
    BY <1>2, CallIsActivity
  <2>2. Top(f)' = Top(f) /\ agent'[f] = agent[f]
    BY <1>2, <2>1, StepConstants DEF Top, TopOf
  <2>3. UsesAgent(f)' <=> UsesAgent(f)
    BY DEF UsesAgent
  <2>4. ASSUME NEW k \in Nat, IdleFrom(f, k)
        PROVE  \A i \in Nat : i >= k /\ i <= MaxCalls => act'[<<f, i>>].pc = "idle"
    BY <2>1, <2>4 DEF IdleFrom
  <2>5. agent[f].next \in Nat /\ agent[f].used \in Nat
    BY DEF StepInv, StepsTypeOK, AgentRecords
  <2>6. /\ IdleFrom(f, 1) => IdleFrom(f, 1)'
        /\ IdleFrom(f, agent[f].next) => IdleFrom(f, agent[f].next)'
        /\ IdleFrom(f, agent[f].used + 1) => IdleFrom(f, agent[f].used + 1)'
        /\ IdleFrom(f, agent[f].used + 2) => IdleFrom(f, agent[f].used + 2)'
    BY <2>1, <2>2, <2>5 DEF IdleFrom
  <2>7. CallsAhead(f)
    BY DEF StepInv
  <2>8. CallsAhead(f)'
    BY <2>2, <2>3, <2>6, <2>7 DEF CallsAhead
  <2>9. ASSUME NEW k \in 1 .. MaxCalls PROVE act'[<<f, k>>] = act[<<f, k>>]
    BY <2>1, StepConstants
  <2>10. AskedCalls(f)' = AskedCalls(f)
    BY <2>9 DEF AskedCalls
  <2>11. CallsCounted(f)
    BY DEF StepInv
  <2>12. CallsCounted(f)'
    BY <2>2, <2>3, <2>9, <2>10, <2>11 DEF CallsCounted, AskedCalls
  <2>13. QED BY <2>8, <2>12
<1>3. QED BY <1>1, <1>2 DEF StepInv

(* A finite set grows by at most one when an element is put into it. *)
LEMMA OneMore ==
  ASSUME NEW S, IsFiniteSet(S), NEW x, NEW T, T \subseteq S \cup {x}
  PROVE  Cardinality(T) <= Cardinality(S) + 1 /\ Cardinality(T) \in Nat
<1>1. /\ IsFiniteSet(S \cup {x})
      /\ \/ Cardinality(S \cup {x}) = Cardinality(S)
         \/ Cardinality(S \cup {x}) = Cardinality(S) + 1
  BY FS_AddElement
<1>2. Cardinality(S) \in Nat /\ Cardinality(S \cup {x}) \in Nat
  BY <1>1, FS_CardinalityType
<1>3. IsFiniteSet(T) /\ Cardinality(T) <= Cardinality(S \cup {x})
  BY <1>1, FS_Subset
<1>4. QED BY <1>1, <1>2, <1>3, FS_CardinalityType

(* What a new call makes of the count: it is one more if it is asked about. *)
LEMMA CountMoves ==
  ASSUME StepInv, NEW e \in Steps, NEW k \in 1 .. MaxCalls,
         \A i \in 1 .. MaxCalls : i # k => act'[<<e, i>>] = act[<<e, i>>]
  PROVE  /\ AskedCalls(e)' \subseteq AskedCalls(e) \cup {k}
         /\ Cardinality(AskedCalls(e)') <= Cardinality(AskedCalls(e)) + 1
         /\ ~Asked(act'[<<e, k>>]) => Cardinality(AskedCalls(e)') <= Cardinality(AskedCalls(e))
         /\ Cardinality(AskedCalls(e)) \in Nat /\ Cardinality(AskedCalls(e)') \in Nat
<1>1. AskedCalls(e)' \subseteq AskedCalls(e) \cup {k}
  BY DEF AskedCalls
<1>2. ~Asked(act'[<<e, k>>]) => AskedCalls(e)' \subseteq AskedCalls(e)
  BY DEF AskedCalls
<1>3. IsFiniteSet(AskedCalls(e)) /\ Cardinality(AskedCalls(e)) \in Nat
  BY AskedFinite
<1>4. QED BY <1>1, <1>2, <1>3, OneMore, FS_Subset

(* A call that its agent makes finds an idle record, and nothing else moves. *)
LEMMA CallBegins ==
  ASSUME StepInv, NEW e \in Steps, NEW k \in Nat, k > 0, k <= MaxCalls,
         act[<<e, k>>].pc = "idle",
         act' \in [Activities -> ActivityRecords],
         \A b \in Activities \ {<<e, k>>, TopOf(e)} : act'[b] = act[b],
         /\ act'[<<e, k>>].tool \in Tools
         /\ act'[<<e, k>>].pc \in {"policies", "failed"}
         /\ act'[<<e, k>>].verdicts = <<>>
         /\ act'[<<e, k>>].onHost = act[<<e, k>>].onHost
         /\ act'[<<e, k>>].remotely = act[<<e, k>>].remotely,
         \/ act'[TopOf(e)] = act[TopOf(e)]
         \/ /\ act[TopOf(e)].pc = "remote" /\ act'[TopOf(e)].pc = "awaiting"
            /\ act'[TopOf(e)].tool = act[TopOf(e)].tool
            /\ act'[TopOf(e)].verdicts = act[TopOf(e)].verdicts
            /\ act'[TopOf(e)].onHost = act[TopOf(e)].onHost,
         UNCHANGED <<runtime, executor>>, agent' \in [Steps -> AgentRecords],
         \A f \in Steps \ {e} : agent'[f] = agent[f],
         CallsAhead(e)', CallsCounted(e)'
  PROVE  StepInv'
<1> DEFINE r == act'[<<e, k>>]
           t == act'[TopOf(e)]
           tool == act'[<<e, k>>].tool
<1>1. StepsTypeOK'
  BY DEF StepInv, StepsTypeOK
<1>2. \A b \in Activities : b[1] # e => act'[b] = act[b]
  BY DEF TopOf
<1>3. ASSUME NEW i \in Nat, i <= MaxCalls
      PROVE  Governed(act[<<e, i>>], ExecutorOf(<<e, i>>), IsTop(<<e, i>>))'
  <2> DEFINE b == <<e, i>>
  <2>1. b \in Activities /\ <<e, k>> \in Activities /\ (IsTop(b) <=> b = TopOf(e))
    BY <1>3, CallIsActivity DEF IsTop, TopOf
  <2>2. /\ Governed(act[b], ExecutorOf(b), IsTop(b))
        /\ Governed(act[<<e, k>>], ExecutorOf(<<e, k>>), IsTop(<<e, k>>))
    BY <2>1 DEF StepInv
  <2>3. CASE b = <<e, k>>
    <3>1. act'[b] = r /\ ~IsTop(b) /\ ExecutorOf(b)' = tool
      BY <2>1, <2>3 DEF ExecutorOf, IsTop
    <3>2. act[b].onHost = 0 /\ act[b].remotely = 0
      BY <2>2, <2>3 DEF Governed
    <3>3. Len(r.verdicts) = 0
      BY EmptySeq
    <3>4. Len(Policies) \in Nat \ {0} /\ tool \in Executors
      BY StepConstants, EmptySeq, LenProperties DEF Executors
    <3>5. QED BY <2>3, <3>1, <3>2, <3>3, <3>4 DEF Governed, PassedBy, Executing
  <2>4. CASE b # <<e, k>>
    <3>1. /\ b # TopOf(e) => act'[b] = act[b]
          /\ ExecutorOf(b)' = ExecutorOf(b)
      BY <2>1, <2>4 DEF ExecutorOf, IsTop
    <3>2. MayRunOnHost(ExecutorOf(b))' <=> MayRunOnHost(ExecutorOf(b))
      BY <3>1 DEF MayRunOnHost, StrictRemote
    <3>3. CASE act'[b] = act[b]
      BY <2>2, <3>1, <3>2, <3>3 DEF Governed, PassedBy, ClearedBy, IsTop
    <3>4. CASE act'[b] # act[b]
      <4>1. /\ b = TopOf(e) /\ act'[b] = t /\ act[b].pc = "remote" /\ t.pc = "awaiting"
            /\ t.verdicts = act[b].verdicts /\ t.onHost = act[b].onHost
        BY <3>1, <3>4
      <4>2. ClearedBy(act[b], ExecutorOf(b), IsTop(b)) /\ ExecutorOf(b) \in Executors
        BY <2>2, <4>1 DEF Governed, Executing
      <4>3. ClearedBy(act[b], ExecutorOf(b), IsTop(b))'
        BY <3>1, <4>1, <4>2 DEF ClearedBy, PassedBy, IsTop
      <4>4. act[b].onHost > 0 => MayRunOnHost(ExecutorOf(b))
        BY <2>2 DEF Governed
      <4>5. QED BY <3>1, <3>2, <4>1, <4>2, <4>3, <4>4 DEF Governed
    <3>5. QED BY <3>3, <3>4
  <2>5. QED BY <2>3, <2>4
<1>4. QED BY <1>1, <1>2, <1>3, OneStepMoves

(* use_tool on the host takes the next record of the step. *)
LEMMA UseToolKeeps ==
  ASSUME StepInv, NEW e \in Steps, UseTool(e)
  PROVE  StepInv'
<1> DEFINE k == agent[e].next
           c == <<e, k>>
           tool == Script[executor[e]][k]
           q == IF MayUse(e, tool) THEN "policies" ELSE "failed"
           n == k + 1
           u == IF MayUse(e, tool) THEN agent[e].used + 1 ELSE agent[e].used
           r == [act[c] EXCEPT !.tool = tool, !.pc = q]
           g == [agent[e] EXCEPT !.next = n, !.used = u]
<1>1. /\ UsesAgent(e) /\ act[TopOf(e)].pc = "calling" /\ ~AllIssued(e)
      /\ UNCHANGED <<runtime, executor>>
  BY DEF UseTool, HandlerRuns
<1>2. agent \in [Steps -> AgentRecords] /\ act \in [Activities -> ActivityRecords]
  BY DEF StepInv, StepsTypeOK
<1>3. /\ k \in Nat \ {0} /\ agent[e].used \in Nat
  BY <1>2 DEF AgentRecords
<1>4. /\ Script[executor[e]] \in Seq(Tools) /\ Len(Script[executor[e]]) <= MaxCalls
      /\ Len(Script[executor[e]]) \in Nat
  BY <1>1, StepConstants, LenProperties DEF UsesAgent
<1>5. k <= Len(Script[executor[e]]) /\ k <= MaxCalls
  BY <1>1, <1>3, <1>4, StepConstants DEF AllIssued
<1>6. tool \in Tools
  BY <1>3, <1>4, <1>5, ElementOfSeq
<1>7. c \in Activities /\ c # TopOf(e) /\ TopOf(e) \in Activities
  BY <1>3, <1>5, CallIsActivity, TopIsActivity DEF TopOf
<1>8. IdleFrom(e, k)
  BY <1>1 DEF StepInv, CallsAhead, Top
<1>9. act[c].pc = "idle"
  BY <1>3, <1>5, <1>8, StepConstants DEF IdleFrom
<1>10. act[c].verdicts = <<>>
  BY <1>7, <1>9, RecordFields DEF Governed
<1>11. q \in {"policies", "failed"} /\ n \in Nat \ {0} /\ u \in Nat
  BY <1>3
<1>12. act' = [act EXCEPT ![c] = r] /\ agent' = [agent EXCEPT ![e] = g]
  BY <1>2 DEF UseTool, AgentRecords, ActivityRecords
<1> HIDE DEF q, n, u, tool
<1>13. r \in ActivityRecords /\ g \in AgentRecords
  <2>1. <<>> \in Seq({"allow", "deny", "raise", "timeout"})
    BY EmptySeq
  <2>2. r \in ActivityRecords
    BY <1>2, <1>6, <1>7, <1>11, <2>1 DEF ActivityRecords, Phases, Ended
  <2>3. g \in AgentRecords
    BY <1>2, <1>11 DEF AgentRecords
  <2>4. QED BY <2>2, <2>3
<1>14. /\ r.tool = tool /\ r.pc = q /\ r.verdicts = <<>>
       /\ r.onHost = act[c].onHost /\ r.remotely = act[c].remotely
       /\ g.next = n
  BY <1>2, <1>7, <1>10 DEF ActivityRecords, AgentRecords
<1>15. act' \in [Activities -> ActivityRecords] /\ agent' \in [Steps -> AgentRecords]
  BY <1>2, <1>12, <1>13
<1>16. \A b \in Activities : act'[b] = IF b = c THEN r ELSE act[b]
  BY <1>2, <1>12
<1>17. CallsAhead(e)'
  <2>1. Top(e)'.pc = "calling" /\ agent'[e].next = k + 1
    BY <1>1, <1>2, <1>7, <1>12, <1>14, <1>16 DEF Top, TopOf, n
  <2>2. \A i \in Nat : i >= k + 1 /\ i <= MaxCalls => act'[<<e, i>>].pc = "idle"
    <3> SUFFICES ASSUME NEW i \in Nat, i >= k + 1, i <= MaxCalls
                 PROVE  act'[<<e, i>>].pc = "idle"
      OBVIOUS
    <3>1. <<e, i>> \in Activities /\ <<e, i>> # c /\ i >= k
      BY <1>3, CallIsActivity
    <3>2. QED BY <1>8, <1>16, <3>1 DEF IdleFrom
  <2>3. IdleFrom(e, agent[e].next)'
    BY <2>1, <2>2 DEF IdleFrom
  <2>4. QED BY <2>1, <2>3 DEF CallsAhead, Early
<1>18. \A f \in Steps \ {e} : agent'[f] = agent[f]
  BY <1>2, <1>12
<1>19. /\ act'[TopOf(e)] = act[TopOf(e)]
       /\ \A b \in Activities \ {<<e, k>>, TopOf(e)} : act'[b] = act[b]
  BY <1>7, <1>16
<1>20. /\ act'[c].tool \in Tools /\ act'[c].pc \in {"policies", "failed"}
       /\ act'[c].verdicts = <<>>
       /\ act'[c].onHost = act[c].onHost /\ act'[c].remotely = act[c].remotely
  BY <1>6, <1>7, <1>11, <1>14, <1>16
<1>21. CallsCounted(e)'
  <2> SUFFICES ASSUME Style[executor[e]] # "loop" PROVE CallsCounted(e)'
    BY <1>1 DEF CallsCounted
  <2> DEFINE max == MaxToolCalls[executor[e]]
             old == Cardinality(AskedCalls(e))
             new == Cardinality(AskedCalls(e)')
  <2>1. CallsCounted(e) /\ Top(e).pc = "calling" /\ max \in Nat
    BY <1>1, StepConstants DEF StepInv, Top, UsesAgent
  <2>2. /\ old <= max /\ old <= agent[e].used
        /\ \A i \in AskedCalls(e) : act[<<e, i>>].tool \in AllowedTools[executor[e]]
    BY <1>1, <2>1 DEF CallsCounted
  <2>3. k \in 1 .. MaxCalls
    BY <1>3, <1>5, StepConstants
  <2>4. \A i \in 1 .. MaxCalls : i # k => act'[<<e, i>>] = act[<<e, i>>]
    BY <1>16, CallIsActivity, StepConstants
  <2>5. /\ AskedCalls(e)' \subseteq AskedCalls(e) \cup {k}
        /\ new <= old + 1 /\ (~Asked(act'[c]) => new <= old)
        /\ old \in Nat /\ new \in Nat
    BY <2>3, <2>4, CountMoves
  <2>6. act'[c] = r /\ agent'[e].used = u
    BY <1>2, <1>7, <1>12, <1>13, <1>16 DEF AgentRecords
  <2>7. CASE MayUse(e, tool)
    <3>1. tool \in AllowedTools[executor[e]] /\ agent[e].used < max
      BY <2>7 DEF MayUse
    <3>2. u = agent[e].used + 1
      BY <2>7 DEF u
    <3>3. \A i \in AskedCalls(e)' : act'[<<e, i>>].tool \in AllowedTools[executor[e]]
      BY <1>14, <2>2, <2>4, <2>5, <2>6, <3>1 DEF AskedCalls
    <3> HIDE DEF max, old, new, r
    <3>4. new <= max /\ new <= u /\ new <= u + 1
      BY <1>3, <2>1, <2>2, <2>5, <3>1, <3>2
    <3>5. QED BY <1>1, <2>6, <3>3, <3>4 DEF CallsCounted, max, new
  <2>8. CASE ~MayUse(e, tool)
    <3>1. u = agent[e].used /\ ~Asked(act'[c])
      BY <1>14, <2>6, <2>8 DEF u, q, Asked
    <3>2. AskedCalls(e)' \subseteq AskedCalls(e)
      BY <2>4, <3>1 DEF AskedCalls
    <3>3. \A i \in AskedCalls(e)' : act'[<<e, i>>].tool \in AllowedTools[executor[e]]
      BY <2>2, <2>4, <3>1, <3>2 DEF AskedCalls
    <3> HIDE DEF max, old, new, r
    <3>4. new <= max /\ new <= u /\ new <= u + 1
      BY <1>3, <2>1, <2>2, <2>5, <3>1
    <3>5. QED BY <1>1, <2>6, <3>3, <3>4 DEF CallsCounted, max, new
  <2>9. QED BY <2>7, <2>8
<1> HIDE DEF r, g
<1>22. QED BY <1>1, <1>3, <1>5, <1>9, <1>15, <1>17, <1>18, <1>19, <1>20, <1>21, CallBegins

(* A handler raises or returns: its step ends. *)
LEMMA HandlerKeeps ==
  ASSUME StepInv, NEW e \in Steps, HandlerRaises(e) \/ HandlerReturns(e)
  PROVE  StepInv'
<1>1. PICK q \in Ended : Move(TopOf(e), q)
  BY DEF HandlerRaises, HandlerReturns, AgentOutcomes, Ended
<1>2. /\ act[TopOf(e)].pc \in Executing /\ TopOf(e) \in Activities
      /\ UNCHANGED <<runtime, executor>> /\ Noted
  BY TopIsActivity DEF HandlerRaises, HandlerReturns, HandlerRuns, Noted, Executing
<1>3. q \in Phases
  BY DEF Phases
<1>4. QED BY <1>1, <1>2, <1>3, PhaseMoves

(* The limit of an agent is within the bound on the calls of a step. *)
LEMMA LimitsBounded ==
  ASSUME NEW e \in Steps, UsesAgent(e)
  PROVE  /\ MaxToolCalls[executor[e]] \in Nat /\ MaxToolCalls[executor[e]] <= MaxCalls
         /\ MaxCalls \in Nat
<1>1. MaxToolCalls[executor[e]] \in 0 .. MaxCalls /\ MaxCalls \in Nat
  BY StepConstants DEF UsesAgent
<1>2. QED BY <1>1

(* A turn in the sandbox that asks for a call waits for it in the next record. *)
LEMMA TurnAsks ==
  ASSUME StepInv, NEW e \in Steps, UsesAgent(e), act[TopOf(e)].pc = "remote",
         UNCHANGED <<runtime, executor>>,
         NEW requested \in Tools, requested \in AllowedTools[executor[e]],
         agent[e].used < MaxToolCalls[executor[e]],
         act' = [act EXCEPT ![TopOf(e)].pc = "awaiting", ![TopOf(e)].remotely = @ + 1,
                             ![<<e, agent[e].used + 1>>] =
                               [@ EXCEPT !.tool = requested, !.pc = "policies",
                                         !.verdicts = <<>>]],
         agent' = [agent EXCEPT ![e].resume = "none"]
  PROVE  StepInv'
<1> DEFINE top == TopOf(e)
           k == agent[e].used + 1
           c == <<e, k>>
           m == act[top].remotely + 1
           t == [act[top] EXCEPT !.pc = "awaiting", !.remotely = m]
           r == [act[c] EXCEPT !.tool = requested, !.pc = "policies", !.verdicts = <<>>]
           g == [agent[e] EXCEPT !.resume = "none"]
<1>1. agent \in [Steps -> AgentRecords] /\ act \in [Activities -> ActivityRecords]
  BY DEF StepInv, StepsTypeOK
<1>2. agent[e].used \in Nat /\ agent[e].next \in Nat /\ k \in Nat /\ k > 0
  BY <1>1 DEF AgentRecords
<1>3. k <= MaxCalls
  <2>1. /\ MaxToolCalls[executor[e]] \in Nat /\ MaxToolCalls[executor[e]] <= MaxCalls
        /\ MaxCalls \in Nat
    BY LimitsBounded
  <2>2. QED BY <1>2, <2>1
<1>4. c \in Activities /\ c # top /\ top \in Activities
  BY <1>2, <1>3, CallIsActivity, TopIsActivity DEF TopOf
<1>5. m \in Nat
  BY <1>4, RecordFields
<1>6. IdleFrom(e, k)
  BY DEF StepInv, CallsAhead, Top
<1>7. act[c].pc = "idle"
  BY <1>2, <1>3, <1>6, StepConstants DEF IdleFrom
<1>8. act' = [act EXCEPT ![top] = t, ![c] = r] /\ agent' = [agent EXCEPT ![e] = g]
  BY <1>1, <1>4 DEF ActivityRecords, AgentRecords
<1> HIDE DEF m, k, c, top
<1>9. t \in ActivityRecords /\ r \in ActivityRecords /\ g \in AgentRecords
  <2>0. act[top] \in ActivityRecords /\ act[c] \in ActivityRecords
    BY <1>1, <1>4
  <2>1. t \in ActivityRecords
    BY <1>5, <2>0 DEF ActivityRecords, Phases
  <2>2. <<>> \in Seq({"allow", "deny", "raise", "timeout"})
    BY EmptySeq
  <2>3. r \in ActivityRecords
    BY <2>0, <2>2 DEF ActivityRecords, Phases
  <2>4. g \in AgentRecords
    BY <1>1 DEF AgentRecords
  <2>5. QED BY <2>1, <2>3, <2>4
<1>10. /\ t.pc = "awaiting" /\ t.tool = act[top].tool /\ t.verdicts = act[top].verdicts
       /\ t.onHost = act[top].onHost
       /\ r.tool = requested /\ r.pc = "policies" /\ r.verdicts = <<>>
       /\ r.onHost = act[c].onHost /\ r.remotely = act[c].remotely
       /\ g.used = agent[e].used
  BY <1>1, <1>4 DEF ActivityRecords, AgentRecords
<1> HIDE DEF t, r, g
<1>11. /\ act'[top] = t /\ act'[c] = r
       /\ \A b \in Activities \ {c, top} : act'[b] = act[b]
       /\ act' \in [Activities -> ActivityRecords]
  BY <1>1, <1>4, <1>8, <1>9
<1>12. /\ agent'[e] = g /\ \A f \in Steps \ {e} : agent'[f] = agent[f]
       /\ agent' \in [Steps -> AgentRecords]
  BY <1>1, <1>8, <1>9
<1>13. CallsAhead(e)'
  <2>1. Top(e)'.pc = "awaiting" /\ agent'[e].used = agent[e].used /\ UsesAgent(e)'
    BY <1>10, <1>11, <1>12 DEF Top, TopOf, top, UsesAgent
  <2>2. \A i \in Nat : i >= agent[e].used + 2 /\ i <= MaxCalls => act'[<<e, i>>].pc = "idle"
    <3> SUFFICES ASSUME NEW i \in Nat, i >= agent[e].used + 2, i <= MaxCalls
                 PROVE  act'[<<e, i>>].pc = "idle"
      OBVIOUS
    <3>1. <<e, i>> \in Activities /\ <<e, i>> # c /\ <<e, i>> # top /\ i >= k
      BY <1>2, CallIsActivity DEF c, k, top, TopOf
    <3>2. QED BY <1>6, <1>11, <3>1 DEF IdleFrom
  <2>3. IdleFrom(e, agent[e].used + 2)'
    BY <2>1, <2>2 DEF IdleFrom
  <2>4. agent'[e].used + 1 <= MaxCalls
    BY <1>3, <2>1 DEF k
  <2>5. QED BY <2>1, <2>3, <2>4 DEF CallsAhead, Early
<1>14. CallsCounted(e)'
  <2> SUFFICES ASSUME Style[executor[e]] # "loop" PROVE CallsCounted(e)'
    BY DEF CallsCounted
  <2> DEFINE max == MaxToolCalls[executor[e]]
             old == Cardinality(AskedCalls(e))
             new == Cardinality(AskedCalls(e)')
  <2>1. CallsCounted(e) /\ Top(e).pc = "remote" /\ max \in Nat
    BY StepConstants DEF StepInv, Top, UsesAgent
  <2>2. /\ old <= agent[e].used
        /\ \A i \in AskedCalls(e) : act[<<e, i>>].tool \in AllowedTools[executor[e]]
    BY <2>1 DEF CallsCounted
  <2>3. k \in 1 .. MaxCalls
    BY <1>2, <1>3, StepConstants
  <2>4. \A i \in 1 .. MaxCalls : i # k => act'[<<e, i>>] = act[<<e, i>>]
    BY <1>11, CallIsActivity, StepConstants DEF c, top, TopOf
  <2>5. /\ AskedCalls(e)' \subseteq AskedCalls(e) \cup {k}
        /\ new <= old + 1 /\ old \in Nat /\ new \in Nat
    BY <2>3, <2>4, CountMoves
  <2>6. \A i \in AskedCalls(e)' : act'[<<e, i>>].tool \in AllowedTools[executor[e]]
    BY <1>10, <1>11, <2>2, <2>4, <2>5 DEF AskedCalls, c
  <2>7. agent'[e].used = agent[e].used /\ Top(e)'.pc = "awaiting"
    BY <1>10, <1>11, <1>12 DEF Top, TopOf, top
  <2> HIDE DEF max, old, new
  <2>8. new <= max /\ new <= agent[e].used + 1
    BY <1>2, <2>1, <2>2, <2>5 DEF max
  <2>9. QED BY <2>6, <2>7, <2>8 DEF CallsCounted, max, new
<1>15. QED
  <2>1. /\ act'[<<e, k>>].tool \in Tools /\ act'[<<e, k>>].pc \in {"policies", "failed"}
        /\ act'[<<e, k>>].verdicts = <<>>
        /\ act'[<<e, k>>].onHost = act[<<e, k>>].onHost
        /\ act'[<<e, k>>].remotely = act[<<e, k>>].remotely
        /\ act[<<e, k>>].pc = "idle"
        /\ \A b \in Activities \ {<<e, k>>, TopOf(e)} : act'[b] = act[b]
    BY <1>7, <1>10, <1>11 DEF c, top
  <2>2. /\ act[TopOf(e)].pc = "remote" /\ act'[TopOf(e)].pc = "awaiting"
        /\ act'[TopOf(e)].tool = act[TopOf(e)].tool
        /\ act'[TopOf(e)].verdicts = act[TopOf(e)].verdicts
        /\ act'[TopOf(e)].onHost = act[TopOf(e)].onHost
    BY <1>10, <1>11 DEF top
  <2>3. QED BY <1>2, <1>3, <1>11, <1>12, <1>13, <1>14, <2>1, <2>2, CallBegins

(* A remote turn: its exchange, or what the sandbox makes of it. *)
LEMMA RemoteTurnKeeps ==
  ASSUME StepInv, NEW e \in Steps, RemoteTurn(e)
  PROVE  StepInv'
<1> DEFINE top == TopOf(e)
<1>1. PICK answer \in Answers : Exchange(top, answer, TurnAnswered(e))
  BY DEF RemoteTurn
<1>2. /\ act[top].pc = "remote" /\ UNCHANGED <<runtime, executor>>
      /\ UsesAgent(e) /\ top \in Activities
  BY <1>1, TopIsActivity DEF Exchange, RemoteTurn
<1>3. CASE Exchange(top, answer, FALSE)
  BY <1>2, <1>3, ExchangeKeeps
<1>4. CASE TurnAnswered(e)
  <2>1. CASE \E q \in Ended :
               /\ act' = [act EXCEPT ![top].pc = q, ![top].remotely = @ + 1]
               /\ UNCHANGED agent \/ agent' = [agent EXCEPT ![e].trouble = TRUE]
    <3>1. PICK q \in Ended :
            /\ act' = [act EXCEPT ![top].pc = q, ![top].remotely = @ + 1]
            /\ UNCHANGED agent \/ agent' = [agent EXCEPT ![e].trouble = TRUE]
      BY <2>1
    <3>2. act' = [act EXCEPT ![top] = [act[top] EXCEPT !.remotely = act[top].remotely + 1,
                                                       !.pc = q]]
      BY <1>2, <3>1 DEF StepInv, StepsTypeOK, ActivityRecords
    <3>3. Noted
      BY <3>1 DEF Noted
    <3>4. QED BY <1>2, <3>2, <3>3, RemoteMoves
  <2>2. CASE /\ Replay(e) \in Tools
             /\ agent[e].used < MaxToolCalls[executor[e]]
             /\ act' = [act EXCEPT ![top].pc = "awaiting", ![top].remotely = @ + 1,
                             ![<<e, agent[e].used + 1>>] =
                               [@ EXCEPT !.tool = Replay(e), !.pc = "policies",
                                         !.verdicts = <<>>]]
             /\ agent' = [agent EXCEPT ![e].resume = "none"]
    <3>1. Replay(e) \in AllowedTools[executor[e]]
      BY <2>2, StepConstants DEF Replay, Asks, Refusal, Finished
    <3>2. QED BY <1>2, <2>2, <3>1, TurnAsks
  <2>3. QED BY <1>4, <2>1, <2>2 DEF TurnAnswered, Ended
<1>5. QED BY <1>1, <1>3, <1>4 DEF Exchange

(* The loop goes on with the result of the call, or ends as the call did. *)
LEMMA NextTurnKeeps ==
  ASSUME StepInv, NEW e \in Steps, NextTurn(e)
  PROVE  StepInv'
<1> DEFINE top == TopOf(e)
           k == agent[e].used + 1
           call == act[<<e, k>>]
<1>1. /\ act[top].pc = "awaiting" /\ act[top].pc \in Executing /\ top \in Activities
      /\ call.pc \in Ended /\ UNCHANGED <<runtime, executor>>
  BY TopIsActivity DEF NextTurn, Executing
<1>2. agent \in [Steps -> AgentRecords] /\ act \in [Activities -> ActivityRecords]
  BY DEF StepInv, StepsTypeOK
<1>3. /\ agent[e].used \in Nat /\ agent[e].next \in Nat
      /\ k \in Nat /\ k <= MaxCalls /\ IdleFrom(e, agent[e].used + 2)
  BY <1>1, <1>2 DEF StepInv, CallsAhead, Top, AgentRecords
<1>4. <<e, k>> \in Activities
  BY <1>3, CallIsActivity
<1>5. CASE call.pc # "ok"
  <2>1. Move(top, call.pc) /\ Noted
    BY <1>5 DEF NextTurn, Noted
  <2>2. call.pc \in Phases
    BY <1>1 DEF Phases
  <2>3. QED BY <1>1, <2>1, <2>2, PhaseMoves
<1>6. CASE call.pc = "ok"
  <2>1. PICK q \in {"remote", "failed"} : act' = [act EXCEPT ![top].pc = q]
    BY <1>6 DEF NextTurn, Post, Move
  <2> DEFINE trouble == act'[top].pc = "failed"
             u == agent[e].used + 1
             g == [agent[e] EXCEPT !.used = u, !.resume = call.tool, !.trouble = trouble]
             t == [act[top] EXCEPT !.pc = q]
  <2>2. agent' = [agent EXCEPT ![e] = g]
    BY <1>2, <1>6 DEF NextTurn, AfterCall, AgentRecords
  <2>3. /\ u \in Nat /\ trouble \in BOOLEAN /\ call.tool \in Tools \cup {"none"}
    BY <1>2, <1>3, <1>4 DEF ActivityRecords
  <2> HIDE DEF u, trouble, call
  <2>4. g \in AgentRecords /\ g.used = u
    BY <1>2, <2>3 DEF AgentRecords
  <2>5. /\ t \in ActivityRecords /\ act' = [act EXCEPT ![top] = t]
        /\ t.pc = q /\ t.tool = act[top].tool /\ t.verdicts = act[top].verdicts
        /\ t.onHost = act[top].onHost /\ t.remotely = act[top].remotely
    BY <1>1, <1>2, <2>1 DEF ActivityRecords, Phases, Ended
  <2> HIDE DEF g, t
  <2>6. /\ act'[top] = t /\ \A b \in Activities \ {top} : act'[b] = act[b]
        /\ act' \in [Activities -> ActivityRecords]
    BY <1>1, <1>2, <2>5
  <2>7. /\ agent'[e] = g /\ \A f \in Steps \ {e} : agent'[f] = agent[f]
        /\ agent' \in [Steps -> AgentRecords]
    BY <1>2, <2>2, <2>4
  <2>8. StepsTypeOK'
    BY <1>1, <2>6, <2>7 DEF StepsTypeOK, StepInv
  <2>9. \A b \in Activities : b[1] # e => act'[b] = act[b]
    BY <2>6 DEF TopOf
  <2>10. ASSUME NEW i \in Nat, i <= MaxCalls
         PROVE  Governed(act[<<e, i>>], ExecutorOf(<<e, i>>), IsTop(<<e, i>>))'
    <3> DEFINE b == <<e, i>>
    <3>1. b \in Activities
      BY <2>10, CallIsActivity
    <3>2. Governed(act[b], ExecutorOf(b), IsTop(b))
      BY <3>1 DEF StepInv
    <3>3. /\ act'[b].tool = act[b].tool /\ act'[b].verdicts = act[b].verdicts
          /\ act'[b].onHost = act[b].onHost /\ act'[b].remotely = act[b].remotely
          /\ act'[b].pc = act[b].pc
             \/ (act[b].pc = "awaiting" /\ act'[b].pc \in {"remote", "failed"})
      BY <1>1, <2>5, <2>6, <3>1
    <3>4. ExecutorOf(b)' = ExecutorOf(b)
      BY <1>1, <3>3 DEF ExecutorOf, IsTop
    <3>5. MayRunOnHost(ExecutorOf(b))' <=> MayRunOnHost(ExecutorOf(b))
      BY <1>1, <3>4 DEF MayRunOnHost, StrictRemote
    <3>6. ClearedBy(act[b], ExecutorOf(b), IsTop(b))' <=> ClearedBy(act[b], ExecutorOf(b), IsTop(b))
      BY <3>3, <3>4 DEF ClearedBy, PassedBy, IsTop
    <3>7. PassedBy(act[b], ExecutorOf(b))' <=> PassedBy(act[b], ExecutorOf(b))
      BY <3>3, <3>4 DEF PassedBy
    <3>8. QED BY <3>2, <3>3, <3>4, <3>5, <3>6, <3>7 DEF Governed, Executing
  <2>11. CallsAhead(e)'
    <3>1. Top(e)'.pc \in {"remote", "failed"} /\ agent'[e].used = agent[e].used + 1
      BY <2>1, <2>4, <2>5, <2>6, <2>7 DEF Top, TopOf, u
    <3>2. \A i \in Nat : i >= agent[e].used + 2 /\ i <= MaxCalls => act'[<<e, i>>].pc = "idle"
      <4> SUFFICES ASSUME NEW i \in Nat, i >= agent[e].used + 2, i <= MaxCalls
                   PROVE  act'[<<e, i>>].pc = "idle"
        OBVIOUS
      <4>1. <<e, i>> \in Activities /\ <<e, i>> # top
        BY <1>3, CallIsActivity DEF TopOf
      <4>2. QED BY <1>3, <2>6, <4>1 DEF IdleFrom
    <3>3. agent[e].used + 1 + 1 = agent[e].used + 2
      BY <1>3
    <3>4. IdleFrom(e, agent[e].used + 1)'
      BY <3>1, <3>2, <3>3 DEF IdleFrom
    <3>5. QED BY <3>1, <3>4 DEF CallsAhead, Early
  <2>12. CallsCounted(e)'
    <3> SUFFICES ASSUME UsesAgent(e), Style[executor[e]] # "loop" PROVE CallsCounted(e)'
      BY <1>1 DEF CallsCounted, UsesAgent
    <3>1. \A i \in 1 .. MaxCalls : act'[<<e, i>>] = act[<<e, i>>]
      BY <2>6, CallIsActivity, StepConstants DEF TopOf
    <3>2. AskedCalls(e)' = AskedCalls(e)
      BY <3>1 DEF AskedCalls
    <3>3. CallsCounted(e) /\ Top(e).pc = "awaiting"
      BY <1>1 DEF StepInv, Top
    <3>4. Top(e)'.pc \in {"remote", "failed"} /\ agent'[e].used = agent[e].used + 1
      BY <2>1, <2>4, <2>5, <2>6, <2>7 DEF Top, TopOf, u
    <3>5. QED BY <1>1, <3>1, <3>2, <3>3, <3>4 DEF CallsCounted, AskedCalls
  <2>13. QED BY <1>1, <2>7, <2>8, <2>9, <2>10, <2>11, <2>12, OneStepMoves
<1>7. QED BY <1>5, <1>6

-----------------------------------------------------------------------------
(* The invariant holds initially, and every step keeps it. *)
LEMMA StepInvInit == Init => StepInv
<1> SUFFICES ASSUME Init PROVE StepInv
  OBVIOUS
<1>1. <<>> \in Seq({"allow", "deny", "raise", "timeout"})
  BY EmptySeq
<1>2. NoActivity \in ActivityRecords /\ NoAgent \in AgentRecords
  BY <1>1 DEF NoActivity, NoAgent, ActivityRecords, AgentRecords, Phases
<1>3. StepsTypeOK
  BY <1>2 DEF Init, StepsTypeOK
<1>4. \A a \in Activities : Governed(act[a], ExecutorOf(a), IsTop(a))
  BY DEF Init, NoActivity, Governed, Executing
<1>5. ASSUME NEW e \in Steps PROVE CallsAhead(e) /\ CallsCounted(e)
  <2>1. act[TopOf(e)] = NoActivity /\ agent[e] = NoAgent
    BY TopIsActivity DEF Init
  <2>2. IdleFrom(e, 1)
    BY CallIsActivity DEF Init, IdleFrom, NoActivity
  <2>3. CallsAhead(e)
    BY <2>1, <2>2 DEF CallsAhead, Top, NoActivity, NoAgent
  <2>4. \A k \in 1 .. MaxCalls : ~Asked(act[<<e, k>>])
    BY CallIsActivity, StepConstants DEF Init, Asked, NoActivity
  <2>5. AskedCalls(e) = {}
    BY <2>4 DEF AskedCalls
  <2>6. Cardinality(AskedCalls(e)) = 0
    BY <2>5, FS_EmptySet
  <2>7. UsesAgent(e) => MaxToolCalls[executor[e]] \in Nat
    BY StepConstants DEF UsesAgent
  <2>8. CallsCounted(e)
    BY <2>1, <2>5, <2>6, <2>7 DEF CallsCounted, Top, NoActivity
  <2>9. QED BY <2>3, <2>8
<1>6. QED BY <1>3, <1>4, <1>5 DEF StepInv

(* No step of the system breaks the invariant. *)
LEMMA StepInvStep == StepInv /\ [Next]_vars => StepInv'
<1> SUFFICES ASSUME StepInv, [Next]_vars PROVE StepInv'
  OBVIOUS
<1>1. CASE UNCHANGED <<runtime, executor, act, agent>>
  <2>1. StepsTypeOK'
    BY <1>1 DEF StepInv, StepsTypeOK
  <2>2. ASSUME NEW a \in Activities
        PROVE  Governed(act[a], ExecutorOf(a), IsTop(a))'
    <3>1. Governed(act[a], ExecutorOf(a), IsTop(a))
      BY DEF StepInv
    <3>2. ExecutorOf(a)' = ExecutorOf(a)
      BY <1>1 DEF ExecutorOf, IsTop
    <3>3. MayRunOnHost(ExecutorOf(a))' <=> MayRunOnHost(ExecutorOf(a))
      BY <1>1, <3>2 DEF MayRunOnHost, StrictRemote
    <3>4. QED BY <1>1, <3>1, <3>2, <3>3 DEF Governed, PassedBy, ClearedBy, IsTop
  <2>3. ASSUME NEW e \in Steps
        PROVE  CallsAhead(e)' /\ CallsCounted(e)'
    <3>1. CallsAhead(e) /\ CallsCounted(e)
      BY DEF StepInv
    <3>2. AskedCalls(e)' = AskedCalls(e) /\ (UsesAgent(e)' <=> UsesAgent(e))
      BY <1>1 DEF AskedCalls, UsesAgent
    <3>3. CallsAhead(e)'
      BY <1>1, <3>1, <3>2 DEF CallsAhead, IdleFrom, Top, TopOf
    <3>4. CallsCounted(e)'
      BY <1>1, <3>1, <3>2 DEF CallsCounted, Top, TopOf
    <3>5. QED BY <3>3, <3>4
  <2>4. QED BY <2>1, <2>2, <2>3 DEF StepInv
<1>2. CASE \E a \in Activities : Work(a)
  BY <1>2, PolicyKeeps, StartKeeps, RunOnHostKeeps, RemoteToolKeeps, BackoffKeeps DEF Work
<1>3. CASE \E e \in Steps : Handle(e)
  BY <1>3, ValidateKeeps, UseToolKeeps, HandlerKeeps, RemoteTurnKeeps, NextTurnKeeps DEF Handle
<1>4. QED BY <1>1, <1>2, <1>3 DEF Next, ClockTicks, vars

(* So it always holds. *)
LEMMA StepInvAlways == Spec => []StepInv
  BY StepInvInit, StepInvStep, PTL DEF Spec

(* Whatever executes, at the top or nested, on the host or in the sandbox, was    *)
(* allowed by every policy, holds its capabilities and needed no approval of     *)
(* its own if nested (_run_policy_isolated, execute_named_tool).              *)
THEOREM EffectsAreGoverned == Spec => []GovernedEffects
<1>1. StepInv => GovernedEffects
  <2> SUFFICES ASSUME StepInv, NEW a \in Activities, Ran(a)
               PROVE  /\ Len(act[a].verdicts) = Len(Policies)
                      /\ \A i \in DOMAIN Policies : act[a].verdicts[i] = "allow"
                      /\ "capability" \in {Policies[i] : i \in DOMAIN Policies}
                           => ExecutorOf(a) \notin Ungranted
                      /\ ~IsTop(a) => ExecutorOf(a) \notin Asking
    BY DEF GovernedEffects
  <2>1. ClearedBy(act[a], ExecutorOf(a), IsTop(a))
    BY DEF StepInv, Governed, Ran
  <2>2. DOMAIN Policies = 1 .. Len(Policies)
    BY StepConstants, LenProperties
  <2>3. QED BY <2>1, <2>2 DEF ClearedBy, PassedBy
<1>2. QED BY <1>1, StepInvAlways, PTL

(* Under strict_remote nothing executes on the host, and what is remote_only      *)
(* never does, nested calls included (extensions/remote.py, _execute_step).     *)
THEOREM HostIsContained == Spec => []Contained
<1>1. StepInv => Contained
  BY RecordFields DEF StepInv, Contained, Governed, MayRunOnHost
<1>2. QED BY <1>1, StepInvAlways, PTL

(* However its calls overlap, and wherever it executes, an agent gets at most   *)
(* max_tool_calls calls, of tools it is allowed (ToolRunner.use_tool and         *)
(* _execute_agent_remote).                                                  *)
THEOREM CallsAreLimited == Spec => []CallsWithinLimit
<1>1. StepInv => CallsWithinLimit
  <2> SUFFICES ASSUME StepInv, NEW e \in Steps,
                      UsesAgent(e), Style[executor[e]] # "loop"
               PROVE  LET served == {k \in Called(e) : act[<<e, k>>].verdicts # <<>>} IN
                        /\ Cardinality(served) <= MaxToolCalls[executor[e]]
                        /\ \A k \in served : act[<<e, k>>].tool \in AllowedTools[executor[e]]
    BY DEF CallsWithinLimit
  <2> DEFINE served == {k \in Called(e) : act[<<e, k>>].verdicts # <<>>}
  <2>1. served \subseteq AskedCalls(e)
    BY DEF Called, AskedCalls, Asked
  <2>2. CallsCounted(e) /\ MaxToolCalls[executor[e]] \in Nat
    BY StepConstants DEF StepInv, UsesAgent
  <2>3. Cardinality(served) <= Cardinality(AskedCalls(e)) /\ Cardinality(served) \in Nat
        /\ Cardinality(AskedCalls(e)) \in Nat
    BY <2>1, AskedFinite, FS_Subset, FS_CardinalityType
  <2>4. QED BY <2>1, <2>2, <2>3 DEF CallsCounted
<1>2. QED BY <1>1, StepInvAlways, PTL

-----------------------------------------------------------------------------
(* The retries that may still be sent: the later attempts of the requests that *)
(* are under way.                                                           *)
CircuitRecords == [failures : Nat, open : BOOLEAN, age : Nat]
RequestRecords == [pc : {"idle", "sent", "backoff"}, attempt : Nat]
ToCome(q) == {i \in 1 .. Attempts : i > request[q].attempt}
Retrying == {p \in UnderWay \X (1 .. Attempts) : p[2] \in ToCome(p[1])}

(* An open circuit has been spared all but what is neither sent nor to come.    *)
Spared ==
  /\ circuit \in CircuitRecords
  /\ request \in [Activities -> RequestRecords]
  /\ late \in [under : Nat, sent : Nat]
  /\ IsFiniteSet(UnderWay)
  /\ \A q \in Activities :
       /\ request[q].pc = "sent" => request[q].attempt > 0
       /\ request[q].pc = "backoff" => request[q].attempt \in 1 .. Attempts - 1
  /\ IF circuit.open
     THEN late.sent + Cardinality(Retrying) <= (Attempts - 1) * late.under
     ELSE late = NoneLate

(* Attempts and pauses are finitely many. *)
LEMMA AttemptsType == Attempts \in Nat /\ Attempts >= 1
  BY StepConstants DEF Attempts

(* The retries to come are finitely many. *)
LEMMA RetryingFinite ==
  ASSUME IsFiniteSet(UnderWay)
  PROVE  IsFiniteSet(Retrying) /\ Cardinality(Retrying) \in Nat
<1>1. IsFiniteSet(1 .. Attempts)
  BY FS_Interval, AttemptsType
<1>2. IsFiniteSet(UnderWay \X (1 .. Attempts))
  BY <1>1, FS_Product
<1>3. IsFiniteSet(Retrying)
  BY <1>2, FS_Subset DEF Retrying
<1>4. QED BY <1>3, FS_CardinalityType

(* The retries to come of the requests that are under way are at most all their *)
(* attempts but the first.                                                  *)
LEMMA RetriesBounded ==
  ASSUME NEW S, IsFiniteSet(S), NEW T, T \subseteq S \X (2 .. Attempts)
  PROVE  /\ IsFiniteSet(T) /\ Cardinality(T) \in Nat
         /\ Cardinality(T) <= (Attempts - 1) * Cardinality(S)
<1>1. IsFiniteSet(2 .. Attempts) /\ Cardinality(2 .. Attempts) = Attempts - 1
  BY FS_Interval, AttemptsType
<1>2. /\ IsFiniteSet(S \X (2 .. Attempts))
      /\ Cardinality(S \X (2 .. Attempts)) = Cardinality(S) * (Attempts - 1)
  BY <1>1, FS_Product
<1>3. /\ IsFiniteSet(T) /\ Cardinality(T) <= Cardinality(S \X (2 .. Attempts))
      /\ Cardinality(T) \in Nat
  BY <1>2, FS_Subset, FS_CardinalityType
<1>4. Cardinality(S) \in Nat
  BY FS_CardinalityType
<1>5. Cardinality(S) * (Attempts - 1) = (Attempts - 1) * Cardinality(S)
  BY <1>4, AttemptsType
<1>6. QED BY <1>2, <1>3, <1>5

(* What a step of the system is to the client they share.                      *)
ClientStep ==
  \/ UNCHANGED httpVars
  \/ \E q \in Activities : \/ Admit(q) \/ Resend(q)
                           \/ \E answer \in Answers : Answer(q, answer)
  \/ PassTime

(* A step of the system is one of the client's, or leaves the client alone. *)
LEMMA ClientMoves == StepInv /\ [Next]_vars => ClientStep
<1> SUFFICES ASSUME StepInv, [Next]_vars PROVE ClientStep
  OBVIOUS
<1>1. ASSUME NEW a \in Activities, Work(a) PROVE ClientStep
  <2>1. CASE EvaluatePolicy(a)
    BY <2>1 DEF EvaluatePolicy, ClientStep, httpVars
  <2>2. CASE Start(a)
    BY <2>2 DEF Start, Post, Refuse, ClientStep, httpVars
  <2>3. CASE RunOnHost(a)
    BY <2>3 DEF RunOnHost, ClientStep, httpVars
  <2>4. CASE RemoteTool(a)
    BY <2>4 DEF RemoteTool, Exchange, ClientStep
  <2>5. CASE Backoff(a)
    BY <2>5 DEF Backoff, ClientStep
  <2>6. QED BY <1>1, <2>1, <2>2, <2>3, <2>4, <2>5 DEF Work
<1>2. ASSUME NEW e \in Steps, Handle(e) PROVE ClientStep
  <2>1. TopOf(e) \in Activities
    BY TopIsActivity
  <2>2. CASE ValidateWorkflow(e) \/ UseTool(e) \/ HandlerRaises(e) \/ HandlerReturns(e)
    BY <2>2 DEF ValidateWorkflow, UseTool, HandlerRaises, HandlerReturns, ClientStep, httpVars
  <2>3. CASE RemoteTurn(e)
    BY <2>1, <2>3 DEF RemoteTurn, Exchange, ClientStep
  <2>4. CASE NextTurn(e)
    BY <2>1, <2>4 DEF NextTurn, Post, Refuse, ClientStep, httpVars
  <2>5. QED BY <1>2, <2>2, <2>3, <2>4 DEF Handle
<1>3. CASE UNCHANGED vars
  BY <1>3 DEF vars, ClientStep, httpVars
<1>4. QED BY <1>1, <1>2, <1>3 DEF Next, ClockTicks, ClientStep

(* The circuit closed, after a failure, and aged.                               *)
LEMMA ClosedRecord == Closed \in CircuitRecords /\ ~Closed.open
<1>1. Closed.open = FALSE
  BY DEF Closed
<1>2. Closed \in CircuitRecords
  BY DEF Closed, CircuitRecords
<1>3. QED BY <1>1, <1>2

(* A failure is counted in a record of the circuit. *)
LEMMA FailedRecord ==
  ASSUME NEW c \in CircuitRecords, NEW opens \in BOOLEAN, NEW d,
         d = [failures |-> c.failures + 1, open |-> c.open \/ opens,
              age |-> IF opens THEN 0 ELSE c.age]
  PROVE  d \in CircuitRecords /\ (d.open <=> c.open \/ opens)
<1>1. c.failures + 1 \in Nat /\ c.open \in BOOLEAN /\ c.age \in Nat
  BY DEF CircuitRecords
<1>2. (c.open \/ opens) \in BOOLEAN
  OBVIOUS
<1>3. d.open = (c.open \/ opens)
  BY Zenon
<1>4. (IF opens THEN 0 ELSE c.age) \in Nat
  BY <1>1
<1>5. d \in CircuitRecords
  BY <1>1, <1>2, <1>4, Zenon DEF CircuitRecords
<1>6. QED BY <1>3, <1>5, Zenon

(* And so is the time that passes. *)
LEMMA AgedRecord ==
  ASSUME NEW c \in CircuitRecords, NEW d, d = [c EXCEPT !.age = @ + 1]
  PROVE  d \in CircuitRecords /\ d.open = c.open
<1>1. c.age + 1 \in Nat
  BY DEF CircuitRecords
<1>2. d \in CircuitRecords
  BY <1>1, Zenon DEF CircuitRecords
<1>3. d.open = c.open
  BY Zenon DEF CircuitRecords
<1>4. QED BY <1>2, <1>3

(* A request is admitted only while the circuit is closed, or closes it.         *)
LEMMA AdmitSpares ==
  ASSUME Spared, NEW q \in Activities, Admit(q)
  PROVE  Spared'
<1>1. request' = [request EXCEPT ![q] = [pc |-> "sent", attempt |-> 1]]
  BY DEF Admit
<1>2. UnderWay' \subseteq UnderWay \cup {q}
  BY <1>1 DEF UnderWay, Spared
<1>3. IsFiniteSet(UnderWay')
  BY <1>2, FS_AddElement, FS_Subset DEF Spared
<1>4. /\ ~circuit'.open /\ late' = NoneLate
      /\ circuit' \in CircuitRecords
  <2>1. CASE circuit.open
    BY <2>1, ClosedRecord DEF Admit, RecordSuccess
  <2>2. CASE ~circuit.open
    BY <2>2 DEF Admit, Spared
  <2>3. QED BY <2>1, <2>2
<1>5. late' \in [under : Nat, sent : Nat]
  BY <1>4 DEF NoneLate
<1>6. request' \in [Activities -> RequestRecords]
  BY <1>1 DEF Spared, RequestRecords
<1>7. \A p \in Activities :
        /\ request'[p].pc = "sent" => request'[p].attempt > 0
        /\ request'[p].pc = "backoff" => request'[p].attempt \in 1 .. Attempts - 1
  BY <1>1 DEF Spared
<1>8. QED BY <1>3, <1>4, <1>5, <1>6, <1>7 DEF Spared

(* A retry takes one of those to come.                                       *)
LEMMA ResendSpares ==
  ASSUME Spared, NEW q \in Activities, Resend(q)
  PROVE  Spared'
<1> DEFINE n == request[q].attempt + 1
           gone == <<q, n>>
<1>1. /\ request' = [request EXCEPT ![q] = [pc |-> "sent", attempt |-> n]]
      /\ request[q].pc = "backoff" /\ circuit' = circuit
      /\ late' = IF circuit.open THEN [late EXCEPT !.sent = @ + 1] ELSE late
  BY DEF Resend, Spared
<1>2. n \in 1 .. Attempts /\ n > request[q].attempt /\ request[q].attempt \in Nat
  BY <1>1, AttemptsType DEF Spared, RequestRecords
<1>3. UnderWay' = UnderWay /\ q \in UnderWay
  BY <1>1 DEF UnderWay, Spared
<1>4. gone \in Retrying
  BY <1>2, <1>3 DEF Retrying, ToCome
<1>5. Retrying' \subseteq Retrying \ {gone}
  <2> SUFFICES ASSUME NEW p \in UnderWay, NEW i \in 1 .. Attempts, <<p, i>> \in Retrying'
               PROVE  <<p, i>> \in Retrying /\ <<p, i>> # gone
    BY <1>3 DEF Retrying
  <2>1. i > request'[p].attempt
    BY DEF Retrying, ToCome
  <2>2. p \in Activities
    BY DEF UnderWay
  <2>3. CASE p = q
    <3>1. i > n
      BY <1>1, <2>1, <2>2, <2>3 DEF Spared
    <3>2. i > request[p].attempt
      BY <1>2, <2>3, <3>1
    <3>3. QED BY <3>1, <3>2, <1>2 DEF Retrying, ToCome
  <2>4. CASE p # q
    <3>1. i > request[p].attempt
      BY <1>1, <2>1, <2>2, <2>4 DEF Spared
    <3>2. QED BY <2>4, <3>1 DEF Retrying, ToCome
  <2>5. QED BY <2>3, <2>4
<1>6. IsFiniteSet(Retrying) /\ Cardinality(Retrying) \in Nat
  BY RetryingFinite DEF Spared
<1>7. IsFiniteSet(Retrying \ {gone}) /\ Cardinality(Retrying \ {gone}) = Cardinality(Retrying) - 1
  BY <1>4, <1>6, FS_RemoveElement
<1>8. Cardinality(Retrying') <= Cardinality(Retrying) - 1 /\ Cardinality(Retrying') \in Nat
  BY <1>5, <1>7, FS_Subset, FS_CardinalityType
<1>9. late' \in [under : Nat, sent : Nat]
  BY <1>1 DEF Spared
<1>10. /\ request' \in [Activities -> RequestRecords]
       /\ \A p \in Activities :
            /\ request'[p].pc = "sent" => request'[p].attempt > 0
            /\ request'[p].pc = "backoff" => request'[p].attempt \in 1 .. Attempts - 1
  BY <1>1, <1>2 DEF Spared, RequestRecords
<1>11. IF circuit'.open
       THEN late'.sent + Cardinality(Retrying') <= (Attempts - 1) * late'.under
       ELSE late' = NoneLate
  <2>1. CASE circuit.open
    <3>1. late'.sent = late.sent + 1 /\ late'.under = late.under
      BY <1>1, <2>1 DEF Spared
    <3>2. late.sent + Cardinality(Retrying) <= (Attempts - 1) * late.under
      BY <2>1 DEF Spared
    <3>3. late.sent \in Nat /\ late.under \in Nat
      BY DEF Spared
    <3>4. late.sent + 1 + Cardinality(Retrying') <= (Attempts - 1) * late.under
      <4> DEFINE bound == (Attempts - 1) * late.under
      <4>1. bound \in Int
        BY <3>3, AttemptsType
      <4> HIDE DEF bound
      <4>2. late.sent + Cardinality(Retrying) <= bound
        BY <3>2 DEF bound
      <4>3. late.sent + 1 + Cardinality(Retrying') <= bound
        BY <4>1, <4>2, <1>6, <1>8, <3>3
      <4>4. QED BY <4>3 DEF bound
    <3>5. QED BY <1>1, <2>1, <3>1, <3>4
  <2>2. CASE ~circuit.open
    BY <1>1, <2>2 DEF Spared
  <2>3. QED BY <2>1, <2>2
<1>12. IsFiniteSet(UnderWay')
  BY <1>3 DEF Spared
<1>13. QED BY <1>1, <1>9, <1>10, <1>11, <1>12 DEF Spared

(* An answer brings no retries, and the failure that opens the circuit counts   *)
(* the requests whose retries there may still be.                             *)
LEMMA AnswerSpares ==
  ASSUME Spared, NEW q \in Activities, NEW answer \in Answers, Answer(q, answer)
  PROVE  Spared'
<1>1. /\ request[q].pc = "sent" /\ request[q].attempt \in Nat \ {0}
      /\ request' = [request EXCEPT ![q] = IF Retries(q, answer)
                                           THEN [request[q] EXCEPT !.pc = "backoff"]
                                           ELSE NoRequest]
  BY DEF Answer, Spared, RequestRecords
<1>2. /\ request' \in [Activities -> RequestRecords]
      /\ \A p \in Activities :
           /\ request'[p].pc = "sent" => request'[p].attempt > 0
           /\ request'[p].pc = "backoff" => request'[p].attempt \in 1 .. Attempts - 1
  BY <1>1, AttemptsType DEF Spared, RequestRecords, Retries, NoRequest
<1>3. \A p \in Activities :
        request'[p].pc # "idle" =>
          request[p].pc # "idle" /\ request'[p].attempt = request[p].attempt
  BY <1>1 DEF Spared, RequestRecords, NoRequest
<1>4. UnderWay' \subseteq UnderWay
  BY <1>3 DEF UnderWay
<1>5. IsFiniteSet(UnderWay) /\ IsFiniteSet(UnderWay')
  BY <1>4, FS_Subset DEF Spared
<1>6. Retrying' \subseteq Retrying
  BY <1>3, <1>4 DEF Retrying, ToCome, UnderWay
<1>7. /\ Cardinality(Retrying') <= Cardinality(Retrying)
      /\ Cardinality(Retrying) \in Nat /\ Cardinality(Retrying') \in Nat
  BY <1>5, <1>6, RetryingFinite, FS_Subset, FS_CardinalityType
<1>8. /\ circuit' \in CircuitRecords
      /\ late' \in [under : Nat, sent : Nat]
      /\ IF circuit'.open
         THEN late'.sent + Cardinality(Retrying') <= (Attempts - 1) * late'.under
         ELSE late' = NoneLate
  <2>1. CASE RecordSuccess
    BY <2>1, ClosedRecord DEF RecordSuccess, NoneLate
  <2>2. ASSUME late' = late, circuit'.open => circuit.open, ~circuit'.open => ~circuit.open,
               circuit' \in CircuitRecords
        PROVE  /\ circuit' \in CircuitRecords
               /\ late' \in [under : Nat, sent : Nat]
               /\ IF circuit'.open
                  THEN late'.sent + Cardinality(Retrying') <= (Attempts - 1) * late'.under
                  ELSE late' = NoneLate
    <3> DEFINE bound == (Attempts - 1) * late.under
    <3>1. bound \in Int /\ late.sent \in Nat
      BY AttemptsType DEF Spared
    <3>2. circuit.open => late.sent + Cardinality(Retrying) <= bound
      BY DEF Spared
    <3> HIDE DEF bound
    <3>3. circuit.open => late.sent + Cardinality(Retrying') <= bound
      BY <1>7, <3>1, <3>2
    <3>4. circuit.open => late'.sent + Cardinality(Retrying') <= (Attempts - 1) * late'.under
      BY <2>2, <3>3 DEF bound
    <3>5. QED BY <2>2, <3>4 DEF Spared
  <2>3. CASE UNCHANGED <<circuit, late>>
    BY <2>2, <2>3 DEF Spared
  <2>4. CASE RecordFailure
    <3> DEFINE opens == circuit.failures + 1 >= FailMax
    <3>1. /\ circuit' = [failures |-> circuit.failures + 1,
                         open |-> circuit.open \/ opens,
                         age |-> IF opens THEN 0 ELSE circuit.age]
          /\ late' = IF opens /\ ~circuit.open
                     THEN [under |-> Cardinality(UnderWay), sent |-> 0] ELSE late
      BY <2>4 DEF RecordFailure
    <3>2. /\ circuit' \in CircuitRecords
          /\ circuit'.open <=> circuit.open \/ opens
      BY <3>1, FailedRecord DEF Spared
    <3> HIDE DEF opens
    <3>3. CASE opens /\ ~circuit.open
      <4>1. late' = [under |-> Cardinality(UnderWay), sent |-> 0]
        BY <3>1, <3>3
      <4>2. Retrying' \subseteq UnderWay \X (2 .. Attempts)
        <5>1. ASSUME NEW p \in UnderWay' PROVE request'[p].attempt >= 1
          BY <1>2 DEF UnderWay, RequestRecords
        <5>2. ASSUME NEW p \in UnderWay', NEW i \in 1 .. Attempts, i > request'[p].attempt
              PROVE  i \in 2 .. Attempts
          BY <1>2, <5>1, <5>2, AttemptsType DEF UnderWay, RequestRecords
        <5>3. QED BY <1>4, <5>2 DEF Retrying, ToCome
      <4>3. Cardinality(Retrying') <= (Attempts - 1) * Cardinality(UnderWay)
        BY <1>5, <4>2, RetriesBounded
      <4>4. Cardinality(UnderWay) \in Nat
        BY <1>5, FS_CardinalityType
      <4>5. late'.sent = 0 /\ late'.under = Cardinality(UnderWay)
        BY <4>1
      <4>6. late'.sent + Cardinality(Retrying') <= (Attempts - 1) * late'.under
        BY <1>7, <4>3, <4>5
      <4>7. late' \in [under : Nat, sent : Nat]
        BY <4>1, <4>4
      <4>8. QED BY <3>2, <3>3, <4>6, <4>7
    <3>4. CASE ~(opens /\ ~circuit.open)
      BY <2>2, <3>1, <3>2, <3>4
    <3>5. QED BY <3>3, <3>4
  <2>5. QED BY <2>1, <2>3, <2>4 DEF Answer
<1>9. QED BY <1>2, <1>5, <1>8 DEF Spared

(* It holds before the first request. *)
LEMMA SparedInit == Init => Spared
<1> SUFFICES ASSUME Init PROVE Spared
  OBVIOUS
<1>1. UnderWay = {}
  BY DEF Init, HTTPInit, UnderWay, NoRequest
<1>2. IsFiniteSet(UnderWay)
  BY <1>1, FS_EmptySet
<1>3. QED
  BY <1>2, ClosedRecord DEF Init, HTTPInit, Spared, NoRequest, NoneLate, RequestRecords

(* No step of the client breaks it. *)
LEMMA SparedStep == Spared /\ ClientStep => Spared'
<1> SUFFICES ASSUME Spared, ClientStep PROVE Spared'
  OBVIOUS
<1>1. CASE UNCHANGED httpVars
  BY <1>1 DEF httpVars, Spared, Retrying, ToCome, UnderWay
<1>2. CASE PassTime
  <2>1. /\ request' = request /\ late' = late /\ circuit'.open = circuit.open
        /\ circuit' \in CircuitRecords
    BY <1>2, AgedRecord DEF PassTime, Spared
  <2>2. Retrying' = Retrying /\ UnderWay' = UnderWay
    BY <2>1 DEF Retrying, ToCome, UnderWay
  <2>3. QED BY <2>1, <2>2 DEF Spared
<1>3. QED BY <1>1, <1>2, AdmitSpares, ResendSpares, AnswerSpares DEF ClientStep

(* So it always holds. *)
LEMMA SparedAlways == Spec => []Spared
<1>1. StepInv /\ Spared /\ [Next]_vars => Spared'
  BY ClientMoves, SparedStep
<1>2. QED BY <1>1, SparedInit, StepInvAlways, PTL DEF Spec

(* While the circuit is open, all that is still sent to the sandbox are the      *)
(* retries of the requests that were under way when it opened, and each of      *)
(* those at most retry_attempts - 1 times (GovernedHTTPClient._perform_request). *)
THEOREM OpenCircuitIsSpared == Spec => []OpenCircuitSpares
<1>1. Spared => OpenCircuitSpares
  <2> SUFFICES ASSUME Spared PROVE OpenCircuitSpares
    OBVIOUS
  <2>1. CASE circuit.open
    <3> DEFINE bound == (Attempts - 1) * late.under
    <3>1. bound \in Int /\ late.sent \in Nat
      BY AttemptsType DEF Spared
    <3>2. late.sent + Cardinality(Retrying) <= bound /\ Cardinality(Retrying) \in Nat
      BY <2>1, RetryingFinite DEF Spared
    <3> HIDE DEF bound
    <3>3. late.sent <= bound
      BY <3>1, <3>2
    <3>4. QED BY <3>3 DEF OpenCircuitSpares, bound
  <2>2. CASE ~circuit.open
    <3>1. late = NoneLate
      BY <2>2 DEF Spared
    <3>2. QED BY <3>1, AttemptsType DEF OpenCircuitSpares, NoneLate
  <2>3. QED BY <2>1, <2>2
<1>2. QED BY <1>1, SparedAlways, PTL

-----------------------------------------------------------------------------
(* What an activity does by itself: the phases it goes through, and what it     *)
(* counts of its executions and retries on the way.                          *)
Counts(r) == <<r.onHost, r.remotely, r.resends>>
Decides(r, s) ==
  /\ r.pc = "policies" /\ s.pc \in {"policies", "failed", "approval", "started"}
  /\ Counts(s) = Counts(r)
Begins(r, s, x) ==
  /\ r.pc = "started"
  /\ s.remotely = r.remotely /\ s.resends = r.resends
  /\ \/ s.pc = "contained" /\ LateRefusal(x) /\ s.onHost = r.onHost
     \/ s.pc \in {"failed", "remote"} /\ s.onHost = r.onHost
     \/ s.pc = "calling" /\ (x \notin Agents => s.onHost = r.onHost)
Returns(r, s, x) ==
  /\ r.pc = "calling" /\ x \in Tools /\ s.pc \in {"ok", "failed"}
  /\ s.remotely = r.remotely /\ s.resends = r.resends
  /\ s.onHost \in {r.onHost, r.onHost + 1}
Exchanges(r, s, a) ==
  /\ r.pc = "remote" /\ request[a].pc = "sent"
  /\ s.onHost = r.onHost /\ s.resends = r.resends
  /\ s.remotely \in {r.remotely, r.remotely + 1}
  /\ \/ s.pc = "remote" /\ request'[a].pc = "backoff"
     \/ s.pc \in Ended \ {"contained"}
SendsAgain(r, s, a) ==
  /\ request[a].pc = "backoff"
  /\ s.pc = r.pc /\ s.resends = r.resends + 1
  /\ s.onHost = r.onHost /\ s.remotely = r.remotely

Advances(a) ==
  \/ Decides(act[a], act'[a])
  \/ Begins(act[a], act'[a], ExecutorOf(a))
  \/ Returns(act[a], act'[a], ExecutorOf(a))
  \/ Exchanges(act[a], act'[a], a) /\ ExecutorOf(a) \in Tools
  \/ SendsAgain(act[a], act'[a], a)

(* Every request is in a phase of its own. *)
RequestsTypeOK == request \in [Activities -> RequestRecords]

(* An exchange, whatever a body is made of.                                    *)
LEMMA TurnsOut ==
  ASSUME StepInv, NEW a \in Activities, NEW answer, Exchange(a, answer, ToolAnswered(a))
  PROVE  \E n \in {act[a].remotely, act[a].remotely + 1}, q \in (Ended \ {"contained"}) \cup {"remote"} :
           /\ act' = [act EXCEPT ![a] = [act[a] EXCEPT !.remotely = n, !.pc = q]]
           /\ q = "remote" => request'[a].pc = "backoff"
           /\ UNCHANGED agent \/ agent' = [agent EXCEPT ![a[1]].trouble = TRUE]
<1> DEFINE Out(n, q) ==
             /\ act' = [act EXCEPT ![a] = [act[a] EXCEPT !.remotely = n, !.pc = q]]
             /\ q = "remote" => request'[a].pc = "backoff"
             /\ UNCHANGED agent \/ agent' = [agent EXCEPT ![a[1]].trouble = TRUE]
           Sets(n, q) == act' = [act EXCEPT ![a].remotely = n, ![a].pc = q]
<1>1. /\ act[a].pc = "remote" /\ act[a] \in ActivityRecords /\ act[a].remotely \in Nat
      /\ act \in [Activities -> ActivityRecords]
  BY RecordFields DEF Exchange, StepInv, StepsTypeOK
<1>2. ASSUME NEW n, NEW q, Sets(n, q)
      PROVE  act' = [act EXCEPT ![a] = [act[a] EXCEPT !.remotely = n, !.pc = q]]
  BY <1>1, <1>2 DEF ActivityRecords
<1>3. CASE ToolAnswered(a)
  <2>1. PICK body \in {"output", "error", "not_found", "malformed"} :
          act' = [act EXCEPT
            ![a].remotely = IF body = "not_found" THEN @ ELSE @ + 1,
            ![a].pc = IF body = "output" THEN "ok" ELSE "failed"]
    BY <1>3 DEF ToolAnswered
  <2> DEFINE m == IF body = "not_found" THEN act[a].remotely ELSE act[a].remotely + 1
             p == IF body = "output" THEN "ok" ELSE "failed"
  <2>2. Sets(m, p)
    BY <2>1
  <2>3. m \in {act[a].remotely, act[a].remotely + 1} /\ p \in Ended \ {"contained"} /\ p # "remote"
    BY DEF Ended
  <2> HIDE DEF m, p
  <2>4. Out(m, p)
    BY <1>2, <1>3, <2>2, <2>3 DEF ToolAnswered
  <2>5. QED BY <2>3, <2>4
<1>4. CASE Exchange(a, answer, FALSE)
  <2>1. PICK ran \in MayHaveRun(answer) :
          \/ /\ request'[a].pc = "backoff"
             /\ act' = [act EXCEPT ![a].remotely = @ + ran]
             /\ UNCHANGED agent
          \/ /\ act' = [act EXCEPT ![a].remotely = @ + ran, ![a].pc = "failed"]
             /\ agent' = [agent EXCEPT ![a[1]].trouble = TRUE]
    BY <1>4 DEF Exchange
  <2> DEFINE m == act[a].remotely + ran
  <2>2. ran \in {0, 1}
    BY DEF MayHaveRun
  <2>3. m \in {act[a].remotely, act[a].remotely + 1}
    BY <1>1, <2>2
  <2>4. CASE request'[a].pc = "backoff" /\ act' = [act EXCEPT ![a].remotely = @ + ran] /\ UNCHANGED agent
    <3>1. act' = [act EXCEPT ![a] = [act[a] EXCEPT !.remotely = m, !.pc = "remote"]]
      BY <1>1, <2>4 DEF ActivityRecords
    <3> HIDE DEF m
    <3>2. Out(m, "remote")
      BY <2>4, <3>1
    <3>3. QED BY <2>3, <3>2
  <2>5. CASE act' = [act EXCEPT ![a].remotely = @ + ran, ![a].pc = "failed"] /\ agent' = [agent EXCEPT ![a[1]].trouble = TRUE]
    <3>1. Sets(m, "failed")
      BY <2>5
    <3> HIDE DEF m
    <3>2. Out(m, "failed") /\ "failed" \in Ended \ {"contained"}
      BY <1>2, <2>5, <3>1 DEF Ended
    <3>3. QED BY <2>3, <3>2
  <2>6. QED BY <2>1, <2>4, <2>5
<1>5. QED BY <1>3, <1>4 DEF Exchange

(* An activity that works leaves the others alone and advances.                 *)
LEMMA WorkMoves ==
  ASSUME StepInv, RequestsTypeOK, NEW a \in Activities, Work(a)
  PROVE  /\ UNCHANGED <<runtime, executor>>
         /\ \A b \in Activities \ {a} : act'[b] = act[b] /\ request'[b] = request[b]
         /\ act'[a].tool = act[a].tool
         /\ Advances(a)
         /\ \/ UNCHANGED agent
            \/ agent' = [agent EXCEPT ![a[1]].trouble = TRUE]
<1>1. /\ act \in [Activities -> ActivityRecords]
      /\ act[a] \in ActivityRecords
      /\ request \in [Activities -> RequestRecords]
      /\ request[a] \in RequestRecords
  BY DEF StepInv, StepsTypeOK, RequestsTypeOK
<1>2. act[a].onHost \in Nat /\ act[a].remotely \in Nat /\ act[a].resends \in Nat
  BY RecordFields
<1>3. CASE EvaluatePolicy(a)
  <2>1. PICK v \in {"allow", "deny", "raise", "timeout"},
             q \in {"policies", "failed", "approval", "started"} :
          act' = [act EXCEPT ![a].verdicts = Append(@, v), ![a].pc = q]
    BY <1>3 DEF EvaluatePolicy, Verdicts
  <2> DEFINE w == Append(act[a].verdicts, v)
  <2>2. act' = [act EXCEPT ![a] = [act[a] EXCEPT !.verdicts = w, !.pc = q]]
    BY <1>1, <2>1 DEF ActivityRecords
  <2> HIDE DEF w
  <2>3. /\ \A b \in Activities \ {a} : act'[b] = act[b]
        /\ act'[a] = [act[a] EXCEPT !.verdicts = w, !.pc = q]
    BY <1>1, <2>2
  <2>4. /\ act'[a].tool = act[a].tool /\ act'[a].pc = q
        /\ Counts(act'[a]) = Counts(act[a])
    BY <1>1, <2>3 DEF ActivityRecords, Counts
  <2>5. Decides(act[a], act'[a])
    BY <1>3, <2>4 DEF Decides, EvaluatePolicy
  <2>6. QED BY <1>3, <2>3, <2>4, <2>5 DEF EvaluatePolicy, Advances
<1>4. CASE Start(a)
  <2> DEFINE x == ExecutorOf(a)
  <2>1. \A b \in Activities \ {a} : request'[b] = request[b]
    BY <1>1, <1>4 DEF Start, Post, Admit, Refuse, httpVars
  <2>2. CASE \E q \in {"contained", "failed", "remote"} :
               Move(a, q) /\ (q = "contained" => LateRefusal(x))
    <3>1. PICK q \in {"contained", "failed", "remote"} :
            Move(a, q) /\ (q = "contained" => LateRefusal(x))
      BY <2>2
    <3>2. act'[a] = [act[a] EXCEPT !.pc = q] /\ \A b \in Activities \ {a} : act'[b] = act[b]
      BY <1>1, <3>1 DEF Move
    <3>3. /\ act'[a].pc = q /\ act'[a].tool = act[a].tool /\ act'[a].onHost = act[a].onHost
          /\ act'[a].remotely = act[a].remotely /\ act'[a].resends = act[a].resends
      BY <1>1, <3>2 DEF ActivityRecords
    <3>4. Begins(act[a], act'[a], x)
      BY <1>4, <3>1, <3>3 DEF Begins, Start
    <3>5. QED BY <1>4, <2>1, <3>2, <3>3, <3>4 DEF Start, Advances
  <2>3. CASE act' = [act EXCEPT ![a].pc = "calling",
                                ![a].onHost = IF x \in Agents THEN 1 ELSE @]
    <3> DEFINE n == IF x \in Agents THEN 1 ELSE act[a].onHost
    <3>1. act' = [act EXCEPT ![a] = [act[a] EXCEPT !.pc = "calling", !.onHost = n]]
      BY <1>1, <2>3 DEF ActivityRecords
    <3>2. x \notin Agents => n = act[a].onHost
      OBVIOUS
    <3> HIDE DEF n, x
    <3>3. /\ act'[a] = [act[a] EXCEPT !.pc = "calling", !.onHost = n]
          /\ \A b \in Activities \ {a} : act'[b] = act[b]
      BY <1>1, <3>1
    <3>4. /\ act'[a].pc = "calling" /\ act'[a].tool = act[a].tool /\ act'[a].onHost = n
          /\ act'[a].remotely = act[a].remotely /\ act'[a].resends = act[a].resends
      BY <1>1, <3>3 DEF ActivityRecords
    <3>5. Begins(act[a], act'[a], x)
      BY <1>4, <3>2, <3>4 DEF Begins, Start
    <3>6. QED BY <1>4, <2>1, <3>3, <3>4, <3>5 DEF Start, Advances, x
  <2>4. QED BY <1>4, <2>2, <2>3 DEF Start, Post, Move
<1>5. CASE RunOnHost(a)
  <2>1. PICK n \in {act[a].onHost, act[a].onHost + 1}, q \in {"ok", "failed"} :
          act' = [act EXCEPT ![a].onHost = n, ![a].pc = q]
    BY <1>1, <1>5 DEF RunOnHost, ActivityRecords
  <2>2. act' = [act EXCEPT ![a] = [act[a] EXCEPT !.onHost = n, !.pc = q]]
    BY <1>1, <2>1 DEF ActivityRecords
  <2>3. /\ act'[a] = [act[a] EXCEPT !.onHost = n, !.pc = q]
        /\ \A b \in Activities \ {a} : act'[b] = act[b]
    BY <1>1, <2>2
  <2>4. /\ act'[a].pc = q /\ act'[a].tool = act[a].tool /\ act'[a].onHost = n
        /\ act'[a].remotely = act[a].remotely /\ act'[a].resends = act[a].resends
    BY <1>1, <2>3 DEF ActivityRecords
  <2>5. Returns(act[a], act'[a], ExecutorOf(a))
    BY <1>5, <2>4 DEF Returns, RunOnHost
  <2>6. QED BY <1>5, <2>3, <2>4, <2>5 DEF RunOnHost, Advances
<1>6. CASE RemoteTool(a)
  <2>1. PICK answer \in Answers : Exchange(a, answer, ToolAnswered(a))
    BY <1>6 DEF RemoteTool
  <2>2. /\ act[a].pc = "remote" /\ request[a].pc = "sent" /\ UNCHANGED <<runtime, executor>>
        /\ \A b \in Activities \ {a} : request'[b] = request[b]
    BY <1>1, <2>1 DEF Exchange, Answer
  <2>3. PICK n \in {act[a].remotely, act[a].remotely + 1}, q \in (Ended \ {"contained"}) \cup {"remote"} :
          /\ act' = [act EXCEPT ![a] = [act[a] EXCEPT !.remotely = n, !.pc = q]]
          /\ q = "remote" => request'[a].pc = "backoff"
          /\ UNCHANGED agent \/ agent' = [agent EXCEPT ![a[1]].trouble = TRUE]
    BY <2>1, TurnsOut
  <2>4. /\ act'[a] = [act[a] EXCEPT !.remotely = n, !.pc = q]
        /\ \A b \in Activities \ {a} : act'[b] = act[b]
    BY <1>1, <2>3
  <2>5. /\ act'[a].pc = q /\ act'[a].tool = act[a].tool /\ act'[a].remotely = n
        /\ act'[a].onHost = act[a].onHost /\ act'[a].resends = act[a].resends
    BY <1>1, <2>4 DEF ActivityRecords
  <2>6. Exchanges(act[a], act'[a], a) /\ ExecutorOf(a) \in Tools
    BY <1>6, <2>2, <2>3, <2>5 DEF Exchanges, RemoteTool
  <2>7. QED BY <2>2, <2>3, <2>4, <2>5, <2>6 DEF Advances
<1>7. CASE Backoff(a)
  <2> DEFINE n == act[a].resends + 1
  <2>1. act' = [act EXCEPT ![a] = [act[a] EXCEPT !.resends = n]]
    BY <1>1, <1>7 DEF Backoff, ActivityRecords
  <2> HIDE DEF n
  <2>2. /\ act'[a] = [act[a] EXCEPT !.resends = n]
        /\ \A b \in Activities \ {a} : act'[b] = act[b]
    BY <1>1, <2>1
  <2>3. /\ act'[a].pc = act[a].pc /\ act'[a].tool = act[a].tool /\ act'[a].resends = n
        /\ act'[a].onHost = act[a].onHost /\ act'[a].remotely = act[a].remotely
    BY <1>1, <2>2 DEF ActivityRecords
  <2>4. /\ request[a].pc = "backoff" /\ \A b \in Activities \ {a} : request'[b] = request[b]
    BY <1>1, <1>7 DEF Backoff, Resend
  <2>5. QED BY <1>7, <2>2, <2>3, <2>4 DEF Backoff, Advances, SendsAgain, n
<1>8. QED BY <1>3, <1>4, <1>5, <1>6, <1>7 DEF Work

(* What a step does with the k-th call of its agent: it begins it.                *)
OpensCall(e, k) ==
  /\ UsesAgent(e)
  /\ act[<<e, k>>].pc = "idle"
  /\ act'[<<e, k>>].pc \in {"policies", "failed"}
  /\ act'[<<e, k>>].tool \in Tools
  /\ Counts(act'[<<e, k>>]) = Counts(act[<<e, k>>])
  /\ \/ Top(e).pc = "calling" /\ act'[TopOf(e)] = act[TopOf(e)] /\ NextCallDue(e)
     \/ Top(e).pc = "remote" /\ act'[TopOf(e)].pc = "awaiting" /\ k = agent[e].used + 1

(* A step moves its top, and may begin a call, and leaves the rest alone.         *)
OthersStay(e) ==
  /\ UNCHANGED <<runtime, executor>>
  /\ \A b \in Activities : b[1] # e => act'[b] = act[b]
  /\ \A b \in Activities : b # TopOf(e) => request'[b] = request[b]
  /\ \A f \in Steps \ {e} : agent'[f] = agent[f]
  /\ \A k \in 1 .. MaxCalls : act'[<<e, k>>] = act[<<e, k>>] \/ OpensCall(e, k)

(* A step that gives its top another record touches nothing else. *)
LEMMA TopAlone ==
  ASSUME StepInv, NEW e \in Steps, UNCHANGED <<runtime, executor>>,
         NEW r, act' = [act EXCEPT ![TopOf(e)] = r],
         \A b \in Activities : b # TopOf(e) => request'[b] = request[b],
         \A f \in Steps \ {e} : agent'[f] = agent[f]
  PROVE  OthersStay(e) /\ act'[TopOf(e)] = r
<1>1. act'[TopOf(e)] = r /\ \A b \in Activities \ {TopOf(e)} : act'[b] = act[b]
  BY TopIsActivity DEF StepInv, StepsTypeOK
<1>2. ASSUME NEW b \in Activities, b[1] # e PROVE act'[b] = act[b]
  BY <1>1, <1>2 DEF TopOf
<1>3. ASSUME NEW k \in 1 .. MaxCalls PROVE act'[<<e, k>>] = act[<<e, k>>]
  BY <1>1, CallIsActivity, StepConstants DEF TopOf
<1>4. QED BY <1>1, <1>2, <1>3 DEF OthersStay

(* The same, when only the phase of the top changes. *)
LEMMA TopMoves ==
  ASSUME StepInv, NEW e \in Steps, UNCHANGED <<runtime, executor>>,
         NEW q, Move(TopOf(e), q),
         \A b \in Activities : b # TopOf(e) => request'[b] = request[b],
         \A f \in Steps \ {e} : agent'[f] = agent[f]
  PROVE  /\ OthersStay(e)
         /\ act'[TopOf(e)] = [act[TopOf(e)] EXCEPT !.pc = q]
         /\ act'[TopOf(e)].pc = q /\ act'[TopOf(e)].tool = act[TopOf(e)].tool
         /\ Counts(act'[TopOf(e)]) = Counts(act[TopOf(e)])
<1>1. act' = [act EXCEPT ![TopOf(e)] = [act[TopOf(e)] EXCEPT !.pc = q]]
  BY DEF Move
<1>2. act'[TopOf(e)] = [act[TopOf(e)] EXCEPT !.pc = q] /\ OthersStay(e)
  BY <1>1, TopAlone
<1>3. act[TopOf(e)] \in ActivityRecords
  BY TopIsActivity, RecordFields
<1>4. QED BY <1>2, <1>3 DEF ActivityRecords, Counts

(* A use_tool on the host begins the agent's next call. *)
LEMMA UseToolOpens ==
  ASSUME StepInv, NEW e \in Steps, UseTool(e)
  PROVE  /\ OthersStay(e) /\ act'[TopOf(e)] = act[TopOf(e)]
         /\ agent'[e].resume = agent[e].resume
         /\ \A k \in 1 .. MaxCalls : act'[<<e, k>>] = act[<<e, k>>] \/ k = agent[e].next
<1> DEFINE k == agent[e].next
           c == <<e, k>>
           tool == Script[executor[e]][k]
           q == IF MayUse(e, tool) THEN "policies" ELSE "failed"
           u == IF MayUse(e, tool) THEN agent[e].used + 1 ELSE agent[e].used
           r == [act[c] EXCEPT !.tool = tool, !.pc = q]
<1>1. /\ UsesAgent(e) /\ act[TopOf(e)].pc = "calling" /\ ~AllIssued(e) /\ NextCallDue(e)
      /\ UNCHANGED <<runtime, executor, request>>
  BY DEF UseTool, HandlerRuns
<1>2. agent \in [Steps -> AgentRecords] /\ act \in [Activities -> ActivityRecords]
  BY DEF StepInv, StepsTypeOK
<1>3. k \in Nat \ {0}
  BY <1>2 DEF AgentRecords
<1>4. /\ Script[executor[e]] \in Seq(Tools) /\ Len(Script[executor[e]]) <= MaxCalls
      /\ Len(Script[executor[e]]) \in Nat
  BY <1>1, StepConstants, LenProperties DEF UsesAgent
<1>5. k <= Len(Script[executor[e]]) /\ k \in 1 .. MaxCalls
  BY <1>1, <1>3, <1>4, StepConstants DEF AllIssued
<1>6. tool \in Tools
  BY <1>3, <1>4, <1>5, ElementOfSeq
<1>7. c \in Activities /\ c # TopOf(e) /\ TopOf(e) \in Activities
  BY <1>3, <1>5, CallIsActivity, TopIsActivity DEF TopOf
<1>8. act[c].pc = "idle" /\ act[c] \in ActivityRecords
  BY <1>1, <1>2, <1>3, <1>5, <1>7, StepConstants DEF StepInv, CallsAhead, Top, IdleFrom
<1>9. q \in {"policies", "failed"}
  OBVIOUS
<1>10. act' = [act EXCEPT ![c] = r] /\ agent' = [agent EXCEPT ![e].next = k + 1, ![e].used = u]
  BY <1>2 DEF UseTool, AgentRecords, ActivityRecords
<1> HIDE DEF q, tool, u
<1>11. \A f \in Steps \ {e} : agent'[f] = agent[f]
  BY <1>2, <1>10
<1>12. agent'[e].resume = agent[e].resume
  BY <1>2, <1>10 DEF AgentRecords
<1>13. act'[c] = r /\ \A b \in Activities \ {c} : act'[b] = act[b]
  BY <1>2, <1>7, <1>10
<1>14. r.pc = q /\ r.tool = tool /\ Counts(r) = Counts(act[c])
  BY <1>8 DEF ActivityRecords, Counts
<1> HIDE DEF r
<1>15. act'[TopOf(e)] = act[TopOf(e)]
  BY <1>7, <1>13
<1>16. OpensCall(e, k)
  BY <1>1, <1>6, <1>8, <1>9, <1>13, <1>14, <1>15 DEF OpensCall, Top
<1>17. ASSUME NEW i \in 1 .. MaxCalls PROVE act'[<<e, i>>] = act[<<e, i>>] \/ i = k
  BY <1>13, CallIsActivity, StepConstants
<1>18. ASSUME NEW b \in Activities, b[1] # e PROVE act'[b] = act[b]
  BY <1>13, <1>18
<1>19. OthersStay(e)
  BY <1>1, <1>11, <1>16, <1>17, <1>18 DEF OthersStay
<1>20. QED BY <1>12, <1>15, <1>17, <1>19

(* A turn that asks for a call begins it, in the next record.                    *)
AsksFor(e, call) ==
  /\ call \in Tools
  /\ agent[e].used < MaxToolCalls[executor[e]]
  /\ act' = [act EXCEPT ![TopOf(e)].pc = "awaiting", ![TopOf(e)].remotely = @ + 1,
                        ![<<e, agent[e].used + 1>>] =
                          [@ EXCEPT !.tool = call, !.pc = "policies", !.verdicts = <<>>]]
  /\ agent' = [agent EXCEPT ![e].resume = "none"]

(* Its record is the one after the calls counted so far. *)
LEMMA TurnOpens ==
  ASSUME StepInv, NEW e \in Steps, UsesAgent(e), act[TopOf(e)].pc = "remote",
         UNCHANGED <<runtime, executor>>, NEW call, AsksFor(e, call),
         \A b \in Activities : b # TopOf(e) => request'[b] = request[b]
  PROVE  /\ OthersStay(e)
         /\ act'[TopOf(e)].pc = "awaiting"
         /\ act'[<<e, agent[e].used + 1>>].tool = call
         /\ agent'[e].used = agent[e].used
         /\ agent[e].used + 1 \in 1 .. MaxCalls
<1> DEFINE top == TopOf(e)
           k == agent[e].used + 1
           c == <<e, k>>
           m == act[top].remotely + 1
           t == [act[top] EXCEPT !.pc = "awaiting", !.remotely = m]
           r == [act[c] EXCEPT !.tool = call, !.pc = "policies", !.verdicts = <<>>]
<1>1. agent \in [Steps -> AgentRecords] /\ act \in [Activities -> ActivityRecords]
  BY DEF StepInv, StepsTypeOK
<1>2. agent[e].used \in Nat /\ k \in Nat /\ k > 0
  BY <1>1 DEF AgentRecords
<1>3. k <= MaxCalls /\ k \in 1 .. MaxCalls
  BY <1>2, StepConstants DEF UsesAgent, AsksFor
<1>4. c \in Activities /\ c # top /\ top \in Activities
  BY <1>2, <1>3, CallIsActivity, TopIsActivity DEF TopOf
<1>5. act[c].pc = "idle" /\ act[c] \in ActivityRecords /\ act[top] \in ActivityRecords
  BY <1>1, <1>2, <1>3, <1>4, StepConstants DEF StepInv, CallsAhead, Top, IdleFrom
<1>6. act' = [act EXCEPT ![top] = t, ![c] = r]
  BY <1>1, <1>4 DEF ActivityRecords, AsksFor
<1> HIDE DEF m, k, c, top
<1>7. t.pc = "awaiting" /\ r.tool = call /\ r.pc = "policies" /\ Counts(r) = Counts(act[c])
  BY <1>5 DEF ActivityRecords, Counts
<1> HIDE DEF t, r
<1>8. act'[top] = t /\ act'[c] = r /\ \A b \in Activities \ {c, top} : act'[b] = act[b]
  BY <1>1, <1>4, <1>6
<1>9. /\ \A f \in Steps \ {e} : agent'[f] = agent[f]
      /\ agent'[e].used = agent[e].used
  BY <1>1 DEF AsksFor, AgentRecords
<1>10. OpensCall(e, k)
  BY <1>5, <1>7, <1>8 DEF OpensCall, Top, top, c, k, AsksFor
<1>11. ASSUME NEW i \in 1 .. MaxCalls PROVE act'[<<e, i>>] = act[<<e, i>>] \/ i = k
  <2>1. <<e, i>> \in Activities /\ <<e, i>> # top
    BY CallIsActivity, StepConstants DEF top, TopOf
  <2>2. QED BY <1>8, <2>1 DEF c
<1>12. ASSUME NEW b \in Activities, b[1] # e PROVE act'[b] = act[b]
  BY <1>8, <1>12 DEF c, top, TopOf
<1>13. OthersStay(e)
  BY <1>9, <1>10, <1>11, <1>12 DEF OthersStay
<1>14. QED BY <1>3, <1>7, <1>8, <1>9, <1>13 DEF k, c, top

(* A remote turn asks for a call, or leaves the step where it is, or ends it;     *)
(* without trouble it fails only if the replay came to nothing.                *)
TurnEnds(e, n, q) ==
  /\ act' = [act EXCEPT ![TopOf(e)] = [act[TopOf(e)] EXCEPT !.remotely = n, !.pc = q]]
  /\ n \in {act[TopOf(e)].remotely, act[TopOf(e)].remotely + 1}
  /\ q \in (Ended \ {"contained"}) \cup {"remote"}
  /\ \/ agent' = [agent EXCEPT ![e].trouble = TRUE]
     \/ /\ UNCHANGED agent
        /\ q = "failed" =>
             \/ Replay(e) = Refusal
             \/ Replay(e) \in Tools /\ agent[e].used >= MaxToolCalls[executor[e]]

(* These are the outcomes of a turn. *)
LEMMA TurnMoves ==
  ASSUME StepInv, NEW e \in Steps, RemoteTurn(e)
  PROVE  AsksFor(e, Replay(e)) \/ \E n, q : TurnEnds(e, n, q)
<1> DEFINE top == TopOf(e)
<1>1. PICK answer \in Answers : Exchange(top, answer, TurnAnswered(e))
  BY DEF RemoteTurn
<1>2. /\ act[top].pc = "remote" /\ act[top] \in ActivityRecords /\ act[top].remotely \in Nat
      /\ act \in [Activities -> ActivityRecords] /\ top \in Activities
  BY <1>1, RecordFields, TopIsActivity DEF Exchange, StepInv, StepsTypeOK
<1>3. top[1] = e
  BY DEF TopOf
<1>4. ASSUME NEW n, NEW q, act' = [act EXCEPT ![top].pc = q, ![top].remotely = n]
      PROVE  act' = [act EXCEPT ![top] = [act[top] EXCEPT !.remotely = n, !.pc = q]]
  BY <1>2, <1>4 DEF ActivityRecords
<1>5. CASE Exchange(top, answer, FALSE)
  <2>1. PICK ran \in MayHaveRun(answer) :
          \/ /\ act' = [act EXCEPT ![top].remotely = @ + ran]
             /\ UNCHANGED agent
          \/ /\ act' = [act EXCEPT ![top].remotely = @ + ran, ![top].pc = "failed"]
             /\ agent' = [agent EXCEPT ![top[1]].trouble = TRUE]
    BY <1>5 DEF Exchange
  <2> DEFINE m == act[top].remotely + ran
  <2>2. ran \in {0, 1}
    BY DEF MayHaveRun
  <2>3. m \in {act[top].remotely, act[top].remotely + 1}
    BY <1>2, <2>2
  <2>4. CASE act' = [act EXCEPT ![top].remotely = @ + ran] /\ UNCHANGED agent
    <3>1. act' = [act EXCEPT ![top] = [act[top] EXCEPT !.remotely = m, !.pc = "remote"]]
      BY <1>2, <2>4 DEF ActivityRecords
    <3> HIDE DEF m
    <3>2. TurnEnds(e, m, "remote")
      BY <2>3, <2>4, <3>1 DEF TurnEnds
    <3>3. QED BY <3>2
  <2>5. CASE /\ act' = [act EXCEPT ![top].remotely = @ + ran, ![top].pc = "failed"]
             /\ agent' = [agent EXCEPT ![top[1]].trouble = TRUE]
    <3>1. act' = [act EXCEPT ![top] = [act[top] EXCEPT !.remotely = m, !.pc = "failed"]]
      BY <1>2, <2>5 DEF ActivityRecords
    <3> HIDE DEF m
    <3>2. TurnEnds(e, m, "failed")
      BY <1>3, <2>3, <2>5, <3>1 DEF TurnEnds, Ended
    <3>3. QED BY <3>2
  <2>6. QED BY <2>1, <2>4, <2>5
<1>6. CASE TurnAnswered(e)
  <2> DEFINE m == act[top].remotely + 1
  <2>1. m \in {act[top].remotely, act[top].remotely + 1}
    OBVIOUS
  <2>2. CASE /\ \/ Replay(e) = Refusal
                \/ Replay(e) \in Tools /\ agent[e].used >= MaxToolCalls[executor[e]]
             /\ act' = [act EXCEPT ![top].pc = "failed", ![top].remotely = @ + 1]
             /\ UNCHANGED agent
    <3>1. act' = [act EXCEPT ![top] = [act[top] EXCEPT !.remotely = m, !.pc = "failed"]]
      BY <1>4, <2>2
    <3>2. TurnEnds(e, m, "failed")
      BY <2>1, <2>2, <3>1 DEF TurnEnds, Ended
    <3>3. QED BY <3>2
  <2>3. CASE /\ act' = [act EXCEPT ![top].pc = "ok", ![top].remotely = @ + 1]
             /\ UNCHANGED agent
    <3>1. act' = [act EXCEPT ![top] = [act[top] EXCEPT !.remotely = m, !.pc = "ok"]]
      BY <1>4, <2>3
    <3>2. TurnEnds(e, m, "ok")
      BY <2>1, <2>3, <3>1 DEF TurnEnds, Ended
    <3>3. QED BY <3>2
  <2>4. CASE \E p \in {"approval", "failed"} :
               /\ act' = [act EXCEPT ![top].pc = p, ![top].remotely = @ + 1]
               /\ agent' = [agent EXCEPT ![e].trouble = TRUE]
    <3>1. PICK p \in {"approval", "failed"} :
            /\ act' = [act EXCEPT ![top].pc = p, ![top].remotely = @ + 1]
            /\ agent' = [agent EXCEPT ![e].trouble = TRUE]
      BY <2>4
    <3>2. act' = [act EXCEPT ![top] = [act[top] EXCEPT !.remotely = m, !.pc = p]]
      BY <1>4, <3>1
    <3>3. TurnEnds(e, m, p)
      BY <2>1, <3>1, <3>2 DEF TurnEnds, Ended
    <3>4. QED BY <3>3
  <2>5. CASE AsksFor(e, Replay(e))
    BY <2>5
  <2>6. QED
    <3> HIDE DEF m, top
    <3>1. \/ AsksFor(e, Replay(e))
          \/ /\ \/ Replay(e) = Refusal
                \/ Replay(e) \in Tools /\ agent[e].used >= MaxToolCalls[executor[e]]
             /\ act' = [act EXCEPT ![TopOf(e)].pc = "failed", ![TopOf(e)].remotely = @ + 1]
             /\ UNCHANGED agent
          \/ /\ act' = [act EXCEPT ![TopOf(e)].pc = "ok", ![TopOf(e)].remotely = @ + 1]
             /\ UNCHANGED agent
          \/ \E p \in {"approval", "failed"} :
               /\ act' = [act EXCEPT ![TopOf(e)].pc = p, ![TopOf(e)].remotely = @ + 1]
               /\ agent' = [agent EXCEPT ![e].trouble = TRUE]
      BY <1>6, Zenon DEF TurnAnswered, AsksFor
    <3>2. QED BY <2>2, <2>3, <2>4, <2>5, <3>1, Zenon DEF top
<1>7. QED BY <1>1, <1>5, <1>6 DEF Exchange

(* And none touches another step, or another request. *)
LEMMA TurnStays ==
  ASSUME StepInv, RequestsTypeOK, NEW e \in Steps, RemoteTurn(e)
  PROVE  /\ UsesAgent(e) /\ act[TopOf(e)].pc = "remote" /\ UNCHANGED <<runtime, executor>>
         /\ \A b \in Activities : b # TopOf(e) => request'[b] = request[b]
         /\ OthersStay(e)
<1>1. PICK answer \in Answers : Exchange(TopOf(e), answer, TurnAnswered(e))
  BY DEF RemoteTurn
<1>2. /\ UsesAgent(e) /\ act[TopOf(e)].pc = "remote" /\ UNCHANGED <<runtime, executor>>
      /\ \A b \in Activities : b # TopOf(e) => request'[b] = request[b]
  BY <1>1 DEF Exchange, Answer, RequestsTypeOK, RemoteTurn
<1>3. CASE AsksFor(e, Replay(e))
  BY <1>2, <1>3, TurnOpens
<1>4. ASSUME NEW n, NEW q, TurnEnds(e, n, q) PROVE OthersStay(e)
  <2> DEFINE r == [act[TopOf(e)] EXCEPT !.remotely = n, !.pc = q]
  <2>1. act' = [act EXCEPT ![TopOf(e)] = r]
    BY <1>4 DEF TurnEnds
  <2>2. \A f \in Steps \ {e} : agent'[f] = agent[f]
    BY <1>4 DEF TurnEnds, StepInv, StepsTypeOK
  <2> HIDE DEF r
  <2>3. QED BY <1>2, <2>1, <2>2, TopAlone
<1>5. QED BY <1>2, <1>3, <1>4, TurnMoves

(* The loop goes on, or ends; with trouble, if its request is refused.           *)
LEMMA NextTurnMoves ==
  ASSUME StepInv, RequestsTypeOK, NEW e \in Steps, NextTurn(e)
  PROVE  /\ OthersStay(e) /\ UsesAgent(e) /\ act[TopOf(e)].pc = "awaiting"
         /\ agent[e].used + 1 \in 1 .. MaxCalls
         /\ act[<<e, agent[e].used + 1>>].pc \in Ended
         /\ \/ /\ act[<<e, agent[e].used + 1>>].pc # "ok"
               /\ Move(TopOf(e), act[<<e, agent[e].used + 1>>].pc)
               /\ agent'[e].trouble
            \/ /\ act[<<e, agent[e].used + 1>>].pc = "ok"
               /\ \/ Move(TopOf(e), "remote")
                  \/ Move(TopOf(e), "failed") /\ agent'[e].trouble
               /\ agent'[e].used = agent[e].used + 1
               /\ agent'[e].resume = act[<<e, agent[e].used + 1>>].tool
<1> DEFINE call == act[<<e, agent[e].used + 1>>]
<1>1. /\ act[TopOf(e)].pc = "awaiting" /\ call.pc \in Ended /\ UNCHANGED <<runtime, executor>>
  BY DEF NextTurn
<1>2. agent \in [Steps -> AgentRecords] /\ act \in [Activities -> ActivityRecords]
      /\ TopOf(e) \in Activities /\ agent[e] \in AgentRecords
  BY TopIsActivity DEF StepInv, StepsTypeOK
<1>3. UsesAgent(e) /\ agent[e].used + 1 \in 1 .. MaxCalls
  BY <1>1, <1>2, StepConstants DEF StepInv, CallsAhead, Top, AgentRecords
<1>4. \A b \in Activities : b # TopOf(e) => request'[b] = request[b]
  BY DEF NextTurn, Post, Admit, Refuse, httpVars, RequestsTypeOK
<1>5. CASE call.pc # "ok"
  <2>1. Move(TopOf(e), call.pc) /\ agent' = [agent EXCEPT ![e].trouble = TRUE]
    BY <1>5 DEF NextTurn
  <2>2. agent'[e].trouble /\ \A f \in Steps \ {e} : agent'[f] = agent[f]
    <3>1. agent'[e] = [agent[e] EXCEPT !.trouble = TRUE] /\ \A f \in Steps \ {e} : agent'[f] = agent[f]
      BY <1>2, <2>1
    <3>2. agent'[e].trouble = TRUE
      BY <1>2, <3>1 DEF AgentRecords
    <3>3. QED BY <3>1, <3>2
  <2>3. OthersStay(e)
    BY <1>1, <1>4, <2>1, <2>2, TopMoves
  <2>4. QED BY <1>1, <1>3, <1>5, <2>1, <2>2, <2>3
<1>6. CASE call.pc = "ok"
  <2> DEFINE u == agent[e].used + 1
             t == act'[TopOf(e)].pc = "failed"
  <2>0. Move(TopOf(e), "remote") \/ Move(TopOf(e), "failed")
    BY <1>6 DEF NextTurn, Post, Move
  <2>1. agent' = [agent EXCEPT ![e] = [agent[e] EXCEPT !.used = u, !.resume = call.tool,
                                                       !.trouble = t]]
    BY <1>2, <1>6 DEF NextTurn, AfterCall, AgentRecords
  <2> HIDE DEF u, t
  <2>2. /\ agent'[e] = [agent[e] EXCEPT !.used = u, !.resume = call.tool, !.trouble = t]
        /\ \A f \in Steps \ {e} : agent'[f] = agent[f]
    BY <1>2, <2>1
  <2>3. agent'[e].used = u /\ agent'[e].resume = call.tool /\ agent'[e].trouble = t
    BY <1>2, <2>2 DEF AgentRecords
  <2>4. OthersStay(e)
    BY <1>1, <1>4, <2>0, <2>2, TopMoves
  <2>5. Move(TopOf(e), "failed") => agent'[e].trouble
    <3> SUFFICES ASSUME Move(TopOf(e), "failed") PROVE agent'[e].trouble
      OBVIOUS
    <3>1. act'[TopOf(e)].pc = "failed"
      BY <1>1, <1>4, <2>2, TopMoves
    <3>2. QED BY <2>3, <3>1 DEF t
  <2>6. QED BY <1>1, <1>3, <1>6, <2>0, <2>3, <2>4, <2>5 DEF u
<1>7. QED BY <1>5, <1>6

(* Whatever a step does.                                                      *)
LEMMA HandleStays ==
  ASSUME StepInv, RequestsTypeOK, NEW e \in Steps, Handle(e)
  PROVE  OthersStay(e)
<1>1. CASE ValidateWorkflow(e)
  <2>1. /\ UNCHANGED <<runtime, executor, agent, request>>
        /\ Move(TopOf(e), "rejected") \/ Move(TopOf(e), "policies")
    BY <1>1 DEF ValidateWorkflow
  <2>2. QED BY <2>1, TopMoves
<1>2. CASE HandlerRaises(e) \/ HandlerReturns(e)
  <2>1. UNCHANGED <<runtime, executor, agent, request>> /\ \E q : Move(TopOf(e), q)
    BY <1>2 DEF HandlerRaises, HandlerReturns
  <2>2. QED BY <2>1, TopMoves
<1>3. QED BY <1>1, <1>2, UseToolOpens, TurnStays, NextTurnMoves DEF Handle

-----------------------------------------------------------------------------
(* How often a tool call has executed, from where it is: not at all before it    *)
(* is sent or run, and in the sandbox once per request, the last one apart       *)
(* while it is under way.                                                    *)
RunsCounted(a) ==
  ExecutorOf(a) \in Tools =>
    LET r == act[a] IN
      /\ r.pc \in Early \cup {"rejected", "calling"} => r.onHost = 0 /\ r.remotely = 0
      /\ r.pc = "remote" =>
           /\ r.onHost = 0
           /\ r.remotely <= r.resends + IF request[a].pc = "backoff" THEN 1 ELSE 0
      /\ r.onHost + r.remotely <= 1 + r.resends

AllCounted == \A a \in Activities : RunsCounted(a)

(* What is counted depends on the record, the request and the executor only. *)
LEMMA CountsKept ==
  ASSUME NEW a \in Activities, RunsCounted(a), UNCHANGED executor,
         act'[a] = act[a], request'[a] = request[a]
  PROVE  RunsCounted(a)'
  BY DEF RunsCounted, ExecutorOf, IsTop

(* An activity that works keeps its counts. *)
LEMMA WorkCounts ==
  ASSUME StepInv, RequestsTypeOK, AllCounted, NEW a \in Activities, Work(a)
  PROVE  AllCounted'
<1>1. /\ UNCHANGED <<runtime, executor>>
      /\ \A b \in Activities \ {a} : act'[b] = act[b] /\ request'[b] = request[b]
      /\ act'[a].tool = act[a].tool
      /\ Advances(a)
  BY WorkMoves
<1>2. ASSUME NEW b \in Activities \ {a} PROVE RunsCounted(b)'
  BY <1>1, CountsKept DEF AllCounted
<1>3. RunsCounted(a)'
  <2> DEFINE x == ExecutorOf(a)
             r == act[a]
             s == act'[a]
  <2>1. ExecutorOf(a)' = x
    BY <1>1 DEF ExecutorOf, IsTop
  <2> SUFFICES ASSUME x \in Tools PROVE RunsCounted(a)'
    BY <2>1 DEF RunsCounted
  <2>2. /\ r.pc \in Early \cup {"rejected", "calling"} => r.onHost = 0 /\ r.remotely = 0
        /\ r.pc = "remote" =>
             /\ r.onHost = 0
             /\ r.remotely <= r.resends + IF request[a].pc = "backoff" THEN 1 ELSE 0
        /\ r.onHost + r.remotely <= 1 + r.resends
    BY DEF AllCounted, RunsCounted
  <2>3. /\ r.onHost \in Nat /\ r.remotely \in Nat /\ r.resends \in Nat
        /\ x \notin Agents
    BY RecordFields, StepConstants
  <2>4. /\ s.pc \in Early \cup {"rejected", "calling"} => s.onHost = 0 /\ s.remotely = 0
        /\ s.pc = "remote" =>
             /\ s.onHost = 0
             /\ s.remotely <= s.resends + IF request'[a].pc = "backoff" THEN 1 ELSE 0
        /\ s.onHost + s.remotely <= 1 + s.resends
    <3> HIDE DEF r, s, x
    <3>1. CASE Decides(r, s)
      BY <2>2, <2>3, <3>1 DEF Decides, Counts, Early
    <3>2. CASE Begins(r, s, x)
      BY <2>2, <2>3, <3>2 DEF Begins, Early
    <3>3. CASE Returns(r, s, x)
      BY <2>2, <2>3, <3>3 DEF Returns, Early
    <3>4. CASE Exchanges(r, s, a)
      BY <2>2, <2>3, <3>4 DEF Exchanges, Early, Ended
    <3>5. CASE SendsAgain(r, s, a)
      BY <2>2, <2>3, <3>5 DEF SendsAgain, Early
    <3>6. QED BY <1>1, <3>1, <3>2, <3>3, <3>4, <3>5 DEF Advances, r, s, x
  <2>5. QED BY <2>1, <2>4 DEF RunsCounted
<1>4. QED BY <1>2, <1>3 DEF AllCounted

(* A step that begins a call, or ends, keeps them too. *)
LEMMA HandleCounts ==
  ASSUME StepInv, RequestsTypeOK, AllCounted, NEW e \in Steps, Handle(e)
  PROVE  AllCounted'
<1>1. OthersStay(e)
  BY HandleStays
<1>2. ASSUME NEW b \in Activities, b[1] # e PROVE RunsCounted(b)'
  <2>1. act'[b] = act[b] /\ request'[b] = request[b] /\ UNCHANGED executor
    BY <1>1, <1>2 DEF OthersStay, TopOf
  <2>2. QED BY <2>1, CountsKept DEF AllCounted
<1>3. ASSUME NEW k \in 1 .. MaxCalls PROVE RunsCounted(<<e, k>>)'
  <2> DEFINE c == <<e, k>>
  <2>1. c \in Activities /\ c # TopOf(e) /\ ~IsTop(c)
    BY CallIsActivity, StepConstants DEF TopOf
  <2>2. request'[c] = request[c] /\ UNCHANGED executor /\ (act'[c] = act[c] \/ OpensCall(e, k))
    BY <1>1, <2>1 DEF OthersStay
  <2>3. CASE act'[c] = act[c]
    BY <2>1, <2>2, <2>3, CountsKept DEF AllCounted
  <2>4. CASE OpensCall(e, k)
    <3>1. act[c].onHost = 0 /\ act[c].remotely = 0 /\ act[c].resends \in Nat
      BY <2>1, <2>4, RecordFields DEF OpensCall, Governed
    <3>2. /\ act'[c].onHost = 0 /\ act'[c].remotely = 0 /\ act'[c].resends \in Nat
          /\ act'[c].pc # "remote"
      BY <2>4, <3>1 DEF OpensCall, Counts
    <3>3. QED BY <3>2 DEF RunsCounted
  <2>5. QED BY <2>2, <2>3, <2>4
<1>4. RunsCounted(TopOf(e))'
  <2> DEFINE top == TopOf(e)
  <2>1. /\ top \in Activities /\ ExecutorOf(top) = executor[e] /\ IsTop(top)
        /\ UNCHANGED executor
    BY <1>1, TopIsActivity DEF OthersStay
  <2>2. ExecutorOf(top)' = executor[e]
    BY <2>1 DEF ExecutorOf, TopOf, IsTop
  <2> SUFFICES ASSUME executor[e] \in Tools PROVE RunsCounted(top)'
    BY <2>2 DEF RunsCounted
  <2>3. ~UsesAgent(e)
    BY StepConstants DEF UsesAgent
  <2>4. ValidateWorkflow(e)
    BY <2>3, NextTurnMoves DEF Handle, UseTool, HandlerRaises, HandlerReturns, HandlerRuns, RemoteTurn
  <2>5. PICK q \in {"rejected", "policies"} : Move(top, q) /\ UNCHANGED <<runtime, executor, agent, request>>
    BY <2>4 DEF ValidateWorkflow
  <2>6. act'[top].pc = q /\ Counts(act'[top]) = Counts(act[top])
    BY <2>5, TopMoves
  <2>7. act[top].pc = "idle"
    BY <2>4 DEF ValidateWorkflow
  <2>8. act[top].onHost = 0 /\ act[top].remotely = 0 /\ act[top].resends \in Nat
    BY <2>1, <2>7, RecordFields DEF Governed
  <2>9. act'[top].onHost = 0 /\ act'[top].remotely = 0 /\ act'[top].resends \in Nat
    BY <2>6, <2>8 DEF Counts
  <2>10. QED BY <2>6, <2>9 DEF RunsCounted
<1>5. ASSUME NEW b \in Activities, b[1] = e PROVE b = TopOf(e) \/ \E k \in 1 .. MaxCalls : b = <<e, k>>
  BY <1>5, ActivityParts, StepConstants DEF TopOf
<1>6. QED BY <1>2, <1>3, <1>4, <1>5 DEF AllCounted

(* Nothing has executed in the beginning. *)
LEMMA CountsInit == Init => AllCounted
  BY DEF Init, AllCounted, RunsCounted, NoActivity, Early

(* A tool call executes more than once only if its request was sent again, and  *)
(* then at most once per request (GovernedHTTPClient's retries of what          *)
(* SandboxClient posts).                                                     *)
THEOREM TwiceByRetryOnly == Spec => []TwiceOnlyByRetry
<1>1. Spared => RequestsTypeOK
  BY DEF Spared, RequestsTypeOK
<1>2. StepInv /\ Spared /\ AllCounted /\ [Next]_vars => AllCounted'
  <2> SUFFICES ASSUME StepInv, RequestsTypeOK, AllCounted, [Next]_vars PROVE AllCounted'
    BY <1>1
  <2>1. CASE UNCHANGED <<executor, act, request>>
    BY <2>1, CountsKept DEF AllCounted
  <2>2. QED BY <2>1, WorkCounts, HandleCounts DEF Next, ClockTicks, PassTime, vars
<1>3. AllCounted => TwiceOnlyByRetry
  BY DEF AllCounted, RunsCounted, TwiceOnlyByRetry
<1>4. QED BY <1>2, <1>3, CountsInit, SparedAlways, StepInvAlways, PTL DEF Spec

-----------------------------------------------------------------------------
(* Once validate_workflow has let a step begin, nothing of its tool or agent,    *)
(* nor of the tools the agent may call, is refused for its placement; only an    *)
(* agent's step makes calls, and only one that reaches past the allow list      *)
(* makes one that is refused.                                                *)
Placed(e) == \A x \in Involved(e) : ~LateRefusal(x)
Admitted(e) ==
  /\ Top(e).pc \notin {"idle", "rejected"} => Placed(e)
  /\ \A k \in 1 .. MaxCalls : act[<<e, k>>].pc # "idle" => UsesAgent(e) /\ Placed(e)
  /\ \A k \in 0 .. MaxCalls :
       act[<<e, k>>].pc = "contained" => UsesAgent(e) /\ Style[executor[e]] = "loop"

(* Where things may execute is settled with the workflow. *)
LEMMA PlacementKept ==
  ASSUME UNCHANGED <<runtime, executor>>, NEW e
  PROVE  (Placed(e)' <=> Placed(e)) /\ (UsesAgent(e)' <=> UsesAgent(e))
  BY DEF Placed, Involved, LateRefusal, StrictRemote, ExecutesRemotely, UsesAgent

(* validate_workflow lets no step pass that would be refused later. *)
LEMMA ValidatedIsPlaced ==
  ASSUME StepInv, NEW e \in Steps, ValidateWorkflow(e), ~Move(TopOf(e), "rejected")
  PROVE  Placed(e) /\ Move(TopOf(e), "policies")
<1> DEFINE local == {x \in Involved(e) : Placement[x] = "local_only"}
<1>1. /\ ~(StrictRemote /\ local # {})
      /\ ~(Involved(e) \ local # {} /\ ~runtime.adapter)
      /\ Move(TopOf(e), "policies")
  BY DEF ValidateWorkflow
<1>2. ASSUME NEW x \in Involved(e) PROVE ~LateRefusal(x)
  BY <1>1 DEF LateRefusal, ExecutesRemotely
<1>3. QED BY <1>1, <1>2 DEF Placed

(* A call that has been asked about, or may start, is of a tool of its agent.     *)
LEMMA StartedIsInvolved ==
  ASSUME StepInv, NEW a \in Activities, act[a].pc = "started",
         IsTop(a) \/ (UsesAgent(a[1]) /\ Style[executor[a[1]]] # "loop")
  PROVE  ExecutorOf(a) \in Involved(a[1])
<1>1. CASE IsTop(a)
  BY <1>1 DEF ExecutorOf, Involved
<1>2. CASE ~IsTop(a)
  <2>1. /\ a[1] \in Steps /\ a[2] \in 1 .. MaxCalls /\ a = <<a[1], a[2]>>
    BY <1>2, ActivityParts, StepConstants DEF IsTop
  <2>2. Len(act[a].verdicts) = Len(Policies)
    BY RecordFields DEF Governed, ClearedBy, Executing
  <2>3. Asked(act[a])
    <3>1. Len(act[a].verdicts) # 0
      BY <2>2, StepConstants, EmptySeq, LenProperties
    <3>2. QED BY <3>1, EmptySeq DEF Asked
  <2>4. a[2] \in AskedCalls(a[1])
    BY <2>1, <2>3 DEF AskedCalls
  <2>5. CallsCounted(a[1])
    BY <2>1 DEF StepInv
  <2>6. act[a].tool \in AllowedTools[executor[a[1]]]
    BY <1>2, <2>1, <2>4, <2>5 DEF CallsCounted
  <2>7. QED BY <1>2, <2>6 DEF ExecutorOf, Involved
<1>3. QED BY <1>1, <1>2

(* An activity that works is refused late only past the allow list. *)
LEMMA WorkAdmits ==
  ASSUME StepInv, RequestsTypeOK, \A e \in Steps : Admitted(e), NEW a \in Activities, Work(a)
  PROVE  \A e \in Steps : Admitted(e)'
<1>1. /\ UNCHANGED <<runtime, executor>>
      /\ \A b \in Activities \ {a} : act'[b] = act[b]
      /\ Advances(a)
  BY WorkMoves
<1>2. \/ act'[a].pc = act[a].pc
      \/ /\ act[a].pc \notin {"idle", "rejected"}
         /\ act'[a].pc = "contained" =>
              act[a].pc = "started" /\ LateRefusal(ExecutorOf(a))
  BY <1>1 DEF Advances, Decides, Begins, Returns, Exchanges, SendsAgain, Ended
<1>3. ASSUME NEW e \in Steps
      PROVE  Admitted(e)'
  <2>1. /\ Placed(e)' <=> Placed(e)
        /\ UsesAgent(e)' <=> UsesAgent(e)
        /\ executor'[e] = executor[e]
    BY <1>1, PlacementKept
  <2>2. Admitted(e)
    BY DEF Admitted
  <2>3. /\ \A k \in 0 .. MaxCalls : <<e, k>> \in Activities
        /\ TopOf(e) = <<e, 0>> /\ 0 \in 0 .. MaxCalls
    BY CallIsActivity, StepConstants DEF TopOf
  <2>4. Top(e)'.pc \notin {"idle", "rejected"} => Placed(e)
    BY <1>1, <1>2, <2>2, <2>3 DEF Admitted, Top
  <2>5. ASSUME NEW k \in 1 .. MaxCalls, act'[<<e, k>>].pc # "idle"
        PROVE  UsesAgent(e) /\ Placed(e)
    <3>1. act[<<e, k>>].pc # "idle"
      BY <1>1, <1>2, <2>3, <2>5, StepConstants
    <3>2. QED BY <2>2, <3>1 DEF Admitted
  <2>6. ASSUME NEW k \in 0 .. MaxCalls, act'[<<e, k>>].pc = "contained"
        PROVE  UsesAgent(e) /\ Style[executor[e]] = "loop"
    <3>1. CASE act[<<e, k>>].pc = "contained"
      BY <2>2, <3>1 DEF Admitted
    <3>2. CASE act[<<e, k>>].pc # "contained"
      <4>1. /\ a = <<e, k>> /\ act[a].pc = "started" /\ LateRefusal(ExecutorOf(a))
        BY <1>1, <1>2, <2>3, <2>6, <3>2
      <4>2. a[1] = e /\ (IsTop(a) <=> k = 0)
        BY <4>1 DEF IsTop
      <4>3. Placed(e)
        BY <2>2, <2>3, <4>1, StepConstants DEF Admitted, Top
      <4>4. k # 0 => UsesAgent(e)
        BY <2>2, <4>1, StepConstants DEF Admitted
      <4>5. ~(ExecutorOf(a) \in Involved(e))
        BY <4>1, <4>3 DEF Placed
      <4>6. QED BY <4>1, <4>2, <4>4, <4>5, StartedIsInvolved
    <3>3. QED BY <3>1, <3>2
  <2>7. QED BY <2>1, <2>4, <2>5, <2>6 DEF Admitted
<1>4. QED BY <1>3

(* The top of a step that goes on or ends, as Handle moves it.                   *)
LEMMA HandleTop ==
  ASSUME StepInv, RequestsTypeOK, NEW e \in Steps, Handle(e)
  PROVE  \/ act'[TopOf(e)].pc = act[TopOf(e)].pc
         \/ act[TopOf(e)].pc = "idle" /\ act'[TopOf(e)].pc = "rejected"
         \/ act[TopOf(e)].pc = "idle" /\ act'[TopOf(e)].pc = "policies" /\ Placed(e)
         \/ /\ act[TopOf(e)].pc \in {"calling", "remote", "awaiting"} /\ UsesAgent(e)
            /\ act'[TopOf(e)].pc = "contained" =>
                 \E k \in 1 .. MaxCalls : act[<<e, k>>].pc = "contained"
<1> DEFINE top == TopOf(e)
<1>1. CASE ValidateWorkflow(e)
  <2>1. /\ UNCHANGED <<runtime, executor, agent, request>> /\ act[top].pc = "idle"
        /\ Move(top, "rejected") \/ Move(top, "policies")
    BY <1>1 DEF ValidateWorkflow
  <2>2. CASE Move(top, "rejected")
    BY <2>1, <2>2, TopMoves
  <2>3. CASE ~Move(top, "rejected")
    BY <1>1, <2>1, <2>3, TopMoves, ValidatedIsPlaced
  <2>4. QED BY <2>2, <2>3
<1>2. CASE UseTool(e)
  BY <1>2, UseToolOpens
<1>3. CASE HandlerRaises(e)
  <2>1. /\ UNCHANGED <<runtime, executor, agent, request>>
        /\ act[top].pc = "calling" /\ UsesAgent(e)
        /\ \E k \in Called(e) : Move(top, act[<<e, k>>].pc)
    BY <1>3 DEF HandlerRaises, HandlerRuns
  <2>2. PICK k \in Called(e) : Move(top, act[<<e, k>>].pc)
    BY <2>1
  <2>3. act'[top].pc = act[<<e, k>>].pc /\ k \in 1 .. MaxCalls
    BY <2>1, <2>2, TopMoves DEF Called
  <2>4. QED BY <2>1, <2>3
<1>4. CASE HandlerReturns(e)
  <2>1. /\ UNCHANGED <<runtime, executor, agent, request>>
        /\ act[top].pc = "calling" /\ UsesAgent(e)
        /\ \E q \in AgentOutcomes : Move(top, q)
    BY <1>4 DEF HandlerReturns, HandlerRuns
  <2>2. PICK q \in AgentOutcomes : Move(top, q)
    BY <2>1
  <2>3. act'[top].pc = q /\ q # "contained"
    BY <2>1, <2>2, TopMoves DEF AgentOutcomes
  <2>4. QED BY <2>1, <2>3
<1>5. CASE RemoteTurn(e)
  <2>1. act[top].pc = "remote" /\ UsesAgent(e) /\ UNCHANGED <<runtime, executor>>
        /\ \A b \in Activities : b # TopOf(e) => request'[b] = request[b]
    BY <1>5, TurnStays
  <2>2. CASE AsksFor(e, Replay(e))
    BY <2>1, <2>2, TurnOpens
  <2>3. ASSUME NEW n, NEW q, TurnEnds(e, n, q) PROVE act'[top].pc = q /\ q # "contained"
    <3> DEFINE r == [act[top] EXCEPT !.remotely = n, !.pc = q]
    <3>1. act' = [act EXCEPT ![top] = r] /\ q # "contained" /\ act[top] \in ActivityRecords
      BY <2>3, RecordFields, TopIsActivity DEF TurnEnds, Ended
    <3>2. act'[top] = r
      BY <3>1, TopIsActivity DEF StepInv, StepsTypeOK
    <3>3. QED BY <3>1, <3>2 DEF ActivityRecords
  <2>4. QED BY <1>5, <2>1, <2>2, <2>3, TurnMoves
<1>6. CASE NextTurn(e)
  <2> DEFINE k == agent[e].used + 1
  <2>1. /\ act[top].pc = "awaiting" /\ UsesAgent(e) /\ k \in 1 .. MaxCalls
        /\ UNCHANGED <<runtime, executor>>
        /\ \A b \in Activities : b # TopOf(e) => request'[b] = request[b]
        /\ \A f \in Steps \ {e} : agent'[f] = agent[f]
        /\ \/ Move(top, act[<<e, k>>].pc) \/ Move(top, "remote") \/ Move(top, "failed")
    BY <1>6, NextTurnMoves DEF OthersStay
  <2>2. act'[top].pc \in {act[<<e, k>>].pc, "remote", "failed"}
    BY <2>1, TopMoves
  <2> HIDE DEF k
  <2>3. QED BY <2>1, <2>2
<1>7. QED BY <1>1, <1>2, <1>3, <1>4, <1>5, <1>6 DEF Handle

(* A step's handler, or its loop, does not change that. *)
LEMMA HandleAdmits ==
  ASSUME StepInv, RequestsTypeOK, \A e \in Steps : Admitted(e), NEW e \in Steps, Handle(e)
  PROVE  \A f \in Steps : Admitted(f)'
<1>1. OthersStay(e)
  BY HandleStays
<1>2. ASSUME NEW f \in Steps
      PROVE  /\ (Placed(f)' <=> Placed(f)) /\ (UsesAgent(f)' <=> UsesAgent(f))
             /\ executor'[f] = executor[f] /\ Admitted(f)
             /\ \A k \in 0 .. MaxCalls : <<f, k>> \in Activities
             /\ TopOf(f) = <<f, 0>> /\ 0 \in 0 .. MaxCalls
  BY <1>1, PlacementKept, CallIsActivity, StepConstants DEF OthersStay, TopOf
<1>3. ASSUME NEW f \in Steps, f # e PROVE Admitted(f)'
  <2>1. \A k \in 0 .. MaxCalls : act'[<<f, k>>] = act[<<f, k>>]
    BY <1>1, <1>2, <1>3 DEF OthersStay
  <2>2. \A k \in 1 .. MaxCalls : act'[<<f, k>>] = act[<<f, k>>]
    BY <2>1, StepConstants
  <2>3. QED BY <1>2, <2>1, <2>2 DEF Admitted, Top
<1>4. Admitted(e)'
  <2>1. Admitted(e) /\ (Placed(e)' <=> Placed(e)) /\ (UsesAgent(e)' <=> UsesAgent(e))
        /\ executor'[e] = executor[e]
    BY <1>2
  <2>2. Top(e)'.pc \notin {"idle", "rejected"} => Placed(e)
    BY <1>2, <2>1, HandleTop DEF Admitted, Top
  <2>3. ASSUME NEW k \in 1 .. MaxCalls, act'[<<e, k>>].pc # "idle"
        PROVE  UsesAgent(e) /\ Placed(e)
    <3>1. CASE act'[<<e, k>>] = act[<<e, k>>]
      BY <2>1, <2>3, <3>1 DEF Admitted
    <3>2. CASE OpensCall(e, k)
      BY <2>1, <3>2 DEF OpensCall, Admitted
    <3>3. QED BY <1>1, <3>1, <3>2 DEF OthersStay
  <2>4. ASSUME NEW k \in 0 .. MaxCalls, act'[<<e, k>>].pc = "contained"
        PROVE  UsesAgent(e) /\ Style[executor[e]] = "loop"
    <3>1. CASE k = 0
      <4>1. act'[TopOf(e)].pc = "contained"
        BY <2>4, <3>1 DEF TopOf
      <4>2. \E i \in 0 .. MaxCalls : act[<<e, i>>].pc = "contained"
        <5>1. CASE act[TopOf(e)].pc = "contained"
          BY <1>2, <5>1
        <5>2. CASE act[TopOf(e)].pc # "contained"
          <6>1. PICK i \in 1 .. MaxCalls : act[<<e, i>>].pc = "contained"
            BY <4>1, <5>2, HandleTop
          <6>2. i \in 0 .. MaxCalls
            BY StepConstants
          <6>3. QED BY <6>1, <6>2
        <5>3. QED BY <5>1, <5>2
      <4>3. QED BY <2>1, <4>2 DEF Admitted
    <3>2. CASE k # 0
      <4>1. k \in 1 .. MaxCalls
        BY <3>2, StepConstants
      <4>2. ~OpensCall(e, k)
        BY <2>4 DEF OpensCall
      <4>3. act'[<<e, k>>] = act[<<e, k>>]
        BY <1>1, <4>1, <4>2 DEF OthersStay
      <4>4. QED BY <2>1, <2>4, <4>3 DEF Admitted
    <3>3. QED BY <3>1, <3>2
  <2>5. QED BY <2>1, <2>2, <2>3, <2>4 DEF Admitted
<1>5. QED BY <1>3, <1>4

AllAdmitted == \A e \in Steps : Admitted(e)

(* No step has been validated in the beginning. *)
LEMMA AdmittedInit == Init => AllAdmitted
<1> SUFFICES ASSUME Init, NEW e \in Steps PROVE Admitted(e)
  BY DEF AllAdmitted
<1>1. \A k \in 0 .. MaxCalls : act[<<e, k>>].pc = "idle"
  BY CallIsActivity, StepConstants DEF Init, NoActivity
<1>2. Top(e).pc = "idle"
  BY TopIsActivity DEF Init, NoActivity, Top
<1>3. QED BY <1>1, <1>2, StepConstants DEF Admitted

(* So it always holds. *)
LEMMA AdmittedAlways == Spec => []AllAdmitted
<1>1. Spared => RequestsTypeOK
  BY DEF Spared, RequestsTypeOK
<1>2. StepInv /\ Spared /\ AllAdmitted /\ [Next]_vars => AllAdmitted'
  <2> SUFFICES ASSUME StepInv, RequestsTypeOK, \A e \in Steps : Admitted(e), [Next]_vars
               PROVE  \A e \in Steps : Admitted(e)'
    BY <1>1 DEF AllAdmitted
  <2>1. CASE UNCHANGED <<runtime, executor, act>>
    BY <2>1, PlacementKept DEF Admitted, Top, TopOf
  <2>2. QED BY <2>1, WorkAdmits, HandleAdmits DEF Next, ClockTicks, vars
<1>3. QED BY <1>2, AdmittedInit, SparedAlways, StepInvAlways, PTL DEF Spec

(* A workflow whose placements validate_workflow accepted is not refused for its *)
(* placements when it executes, unless its agent calls a tool that is not in its *)
(* allow list, as GovernedToolCallLoop lets it (validate_workflow and            *)
(* _execute_tool in extensions/remote.py and local.py).                        *)
THEOREM RefusalIsEarly == Spec => []NoLateRefusal
<1>1. AllAdmitted => NoLateRefusal
  BY DEF AllAdmitted, Admitted, NoLateRefusal
<1>2. QED BY <1>1, AdmittedAlways, PTL

-----------------------------------------------------------------------------
(* The calls that may still be going on, for a handler that does not gather      *)
(* them: the one a remote turn waits for, one at a time of a handler that        *)
(* awaits each, and none once the step has ended.                            *)
Running(e, k) == k \in Called(e) /\ act[<<e, k>>].pc \notin Ended
OneByOne(e) ==
  \A j, k \in Called(e) : j # k => act[<<e, j>>].pc = "ok" \/ act[<<e, k>>].pc = "ok"
Joined(e) ==
  UsesAgent(e) /\ Style[executor[e]] # "gather" =>
    /\ Top(e).pc \in Ended \cup {"remote"} => CallsEnded(e)
    /\ Top(e).pc = "awaiting" => \A k \in Called(e) : Running(e, k) => k = agent[e].used + 1
    /\ Top(e).pc = "calling" /\ Style[executor[e]] = "serial" => OneByOne(e)

(* What is said of the calls of a step depends on their records only. *)
LEMMA CallsSame ==
  ASSUME NEW e, \A k \in 1 .. MaxCalls : act'[<<e, k>>] = act[<<e, k>>]
  PROVE  /\ Called(e)' = Called(e)
         /\ CallsEnded(e)' <=> CallsEnded(e)
         /\ OneByOne(e)' <=> OneByOne(e)
         /\ \A k \in Called(e) : Running(e, k)' <=> Running(e, k)
<1>1. Called(e)' = Called(e)
  BY DEF Called
<1>2. Called(e) \subseteq 1 .. MaxCalls
  BY DEF Called
<1>3. QED BY <1>1, <1>2 DEF CallsEnded, OneByOne, Running

(* A step whose calls are all idle has called nothing. *)
LEMMA NoneCalled ==
  ASSUME NEW e, IdleFrom(e, 1)
  PROVE  Called(e) = {}
  BY StepConstants DEF IdleFrom, Called

(* A step whose records stay joins its calls as before. *)
LEMMA JoinedKept ==
  ASSUME NEW e \in Steps, Joined(e), UNCHANGED <<runtime, executor>>,
         \A k \in 0 .. MaxCalls : act'[<<e, k>>] = act[<<e, k>>],
         agent'[e].used = agent[e].used
  PROVE  Joined(e)'
<1>1. act'[TopOf(e)] = act[TopOf(e)]
  BY StepConstants DEF TopOf
<1>2. \A k \in 1 .. MaxCalls : act'[<<e, k>>] = act[<<e, k>>]
  BY StepConstants
<1>3. Top(e)' = Top(e) /\ (UsesAgent(e)' <=> UsesAgent(e))
  BY <1>1 DEF Top, TopOf, UsesAgent
<1>4. QED BY <1>2, <1>3, CallsSame DEF Joined

(* What a call that works does to the calls of its step.                        *)
LEMMA CallWorks ==
  ASSUME StepInv, NEW e \in Steps, NEW k \in 1 .. MaxCalls, Joined(e),
         UNCHANGED <<runtime, executor>>, agent'[e].used = agent[e].used,
         \A b \in Activities \ {<<e, k>>} : act'[b] = act[b],
         act[<<e, k>>].pc \notin Ended \cup {"idle"},
         act'[<<e, k>>].pc # "idle"
  PROVE  Joined(e)'
<1>1. <<e, k>> \in Activities /\ TopOf(e) \in Activities /\ TopOf(e) # <<e, k>>
  BY CallIsActivity, TopIsActivity, StepConstants DEF TopOf
<1>2. Top(e)' = Top(e) /\ (UsesAgent(e)' <=> UsesAgent(e))
  BY <1>1 DEF Top, TopOf, UsesAgent
<1>3. \A i \in 1 .. MaxCalls : i # k => act'[<<e, i>>] = act[<<e, i>>]
  BY CallIsActivity, StepConstants
<1>4. Called(e)' = Called(e) /\ k \in Called(e) /\ Called(e) \subseteq 1 .. MaxCalls
  BY <1>3 DEF Called
<1>5. ~CallsEnded(e) /\ Running(e, k)
  BY <1>4 DEF CallsEnded, Running
<1>6. ASSUME NEW i \in Called(e), Running(e, i)' PROVE i = k \/ Running(e, i)
  BY <1>3, <1>4, <1>6 DEF Running
<1>7. OneByOne(e) => OneByOne(e)'
  <2> SUFFICES ASSUME OneByOne(e), NEW i \in Called(e), NEW j \in Called(e), i # j
               PROVE  act'[<<e, i>>].pc = "ok" \/ act'[<<e, j>>].pc = "ok"
    BY <1>4 DEF OneByOne
  <2>1. act[<<e, k>>].pc # "ok"
    BY DEF Ended
  <2>2. i # k => act[<<e, i>>].pc = "ok"
    BY <1>4, <2>1 DEF OneByOne
  <2>3. j # k => act[<<e, j>>].pc = "ok"
    BY <1>4, <2>1 DEF OneByOne
  <2>4. QED BY <1>3, <1>4, <2>2, <2>3
<1>8. QED BY <1>2, <1>4, <1>5, <1>6, <1>7 DEF Joined

(* An activity that works keeps every step joined to its calls. *)
LEMMA WorkJoins ==
  ASSUME StepInv, RequestsTypeOK, \A e \in Steps : Joined(e), NEW a \in Activities, Work(a)
  PROVE  \A e \in Steps : Joined(e)'
<1>1. /\ UNCHANGED <<runtime, executor>>
      /\ \A b \in Activities \ {a} : act'[b] = act[b]
      /\ Advances(a)
      /\ \/ UNCHANGED agent
         \/ agent' = [agent EXCEPT ![a[1]].trouble = TRUE]
  BY WorkMoves
<1>2. \A e \in Steps : agent'[e].used = agent[e].used
  BY <1>1 DEF StepInv, StepsTypeOK, AgentRecords
<1>3. \/ act'[a].pc = act[a].pc
      \/ /\ act[a].pc \notin Ended \cup {"idle", "awaiting"}
         /\ act'[a].pc \notin {"idle", "awaiting"}
         /\ act[a].pc \in {"calling", "remote"} => ExecutorOf(a) \in Tools
         /\ act[a].pc \in {"calling", "remote"} \cup Early
  BY <1>1 DEF Advances, Decides, Begins, Returns, Exchanges, SendsAgain, Ended, Early
<1>4. ASSUME NEW e \in Steps, a[1] # e PROVE Joined(e)'
  <2>1. \A k \in 0 .. MaxCalls : act'[<<e, k>>] = act[<<e, k>>]
    BY <1>1, <1>4, CallIsActivity, StepConstants
  <2>2. QED BY <1>1, <1>2, <2>1, JoinedKept
<1>5. ASSUME NEW e \in Steps, a = TopOf(e) PROVE Joined(e)'
  <2>1. \A k \in 1 .. MaxCalls : act'[<<e, k>>] = act[<<e, k>>]
    BY <1>1, <1>5, CallIsActivity, StepConstants DEF TopOf
  <2>2. /\ Called(e)' = Called(e) /\ (CallsEnded(e)' <=> CallsEnded(e))
        /\ (OneByOne(e)' <=> OneByOne(e))
        /\ \A k \in Called(e) : Running(e, k)' <=> Running(e, k)
    BY <2>1, CallsSame
  <2>3. UsesAgent(e)' <=> UsesAgent(e)
    BY <1>1 DEF UsesAgent
  <2>4. CASE act'[a].pc = act[a].pc
    <3>1. Top(e)'.pc = Top(e).pc
      BY <1>5, <2>4 DEF Top, TopOf
    <3>2. QED BY <1>1, <1>2, <2>2, <2>3, <3>1 DEF Joined
  <2>5. CASE act[a].pc \in Early
    <3>1. IdleFrom(e, 1)
      BY <1>5, <2>5 DEF StepInv, CallsAhead, Top
    <3>2. Called(e) = {}
      BY <3>1, NoneCalled
    <3>3. QED BY <2>2, <3>2 DEF Joined, CallsEnded, OneByOne
  <2>6. CASE ~UsesAgent(e)
    BY <2>3, <2>6 DEF Joined
  <2>7. ExecutorOf(a) \in Tools => ~UsesAgent(e)
    BY <1>5, TopIsActivity, StepConstants DEF UsesAgent
  <2>8. QED BY <1>3, <2>4, <2>5, <2>6, <2>7
<1>6. ASSUME NEW e \in Steps, a[1] = e, a # TopOf(e) PROVE Joined(e)'
  <2>1. a[2] \in 1 .. MaxCalls /\ a = <<e, a[2]>>
    BY <1>6, ActivityParts, StepConstants DEF IsTop, TopOf
  <2>2. PICK k \in 1 .. MaxCalls : a = <<e, k>>
    BY <2>1
  <2>3. CASE act'[a].pc = act[a].pc
    <3>1. \A i \in 0 .. MaxCalls : act'[<<e, i>>].pc = act[<<e, i>>].pc
      BY <1>1, <2>3, CallIsActivity, StepConstants
    <3>2. \A i \in 1 .. MaxCalls : act'[<<e, i>>].pc = act[<<e, i>>].pc
      BY <3>1, StepConstants
    <3>3. Top(e)'.pc = Top(e).pc
      BY <3>1, StepConstants DEF Top, TopOf
    <3>4. Called(e)' = Called(e) /\ Called(e) \subseteq 1 .. MaxCalls
      BY <3>2 DEF Called
    <3>5. /\ (CallsEnded(e)' <=> CallsEnded(e)) /\ (OneByOne(e)' <=> OneByOne(e))
          /\ \A i \in Called(e) : Running(e, i)' <=> Running(e, i)
      BY <3>2, <3>4 DEF CallsEnded, OneByOne, Running
    <3>6. UsesAgent(e)' <=> UsesAgent(e)
      BY <1>1 DEF UsesAgent
    <3>7. QED BY <1>1, <1>2, <3>3, <3>4, <3>5, <3>6 DEF Joined
  <2>4. CASE act'[a].pc # act[a].pc
    BY <1>1, <1>2, <1>3, <2>2, <2>4, CallWorks
  <2>5. QED BY <2>3, <2>4
<1>7. QED BY <1>4, <1>5, <1>6

(* A step whose calls stay as they are, and whose top ends, or goes on remotely,  *)
(* once they have all ended.                                                 *)
LEMMA EndJoins ==
  ASSUME NEW e \in Steps, CallsEnded(e), UNCHANGED <<runtime, executor>>,
         \A k \in 1 .. MaxCalls : act'[<<e, k>>] = act[<<e, k>>],
         act'[TopOf(e)].pc \in Ended \cup {"remote"}
  PROVE  Joined(e)'
<1>1. CallsEnded(e)'
  BY CallsSame
<1>2. Top(e)'.pc \notin {"awaiting", "calling"}
  BY DEF Top, TopOf, Ended
<1>3. QED BY <1>1, <1>2 DEF Joined

(* A handler, or a loop of turns, that goes on waits for what it began. *)
LEMMA HandleJoins ==
  ASSUME StepInv, RequestsTypeOK, \A f \in Steps : Joined(f), NEW e \in Steps, Handle(e)
  PROVE  \A f \in Steps : Joined(f)'
<1>1. OthersStay(e)
  BY HandleStays
<1>2. UNCHANGED <<runtime, executor>> /\ (UsesAgent(e)' <=> UsesAgent(e))
  BY <1>1 DEF OthersStay, UsesAgent
<1>3. ASSUME NEW f \in Steps, f # e PROVE Joined(f)'
  <2>1. \A k \in 0 .. MaxCalls : act'[<<f, k>>] = act[<<f, k>>]
    BY <1>1, <1>3, CallIsActivity, StepConstants DEF OthersStay
  <2>2. agent'[f].used = agent[f].used
    BY <1>1, <1>3 DEF OthersStay
  <2>3. QED BY <1>2, <2>1, <2>2, JoinedKept
<1>4. ASSUME \A k \in 1 .. MaxCalls : ~OpensCall(e, k)
      PROVE  \A k \in 1 .. MaxCalls : act'[<<e, k>>] = act[<<e, k>>]
  BY <1>1, <1>4 DEF OthersStay
<1>5. ASSUME ValidateWorkflow(e) PROVE Joined(e)'
  <2>1. act'[TopOf(e)].pc \in {"rejected", "policies"}
    <3>1. /\ UNCHANGED <<runtime, executor, agent, request>>
          /\ Move(TopOf(e), "rejected") \/ Move(TopOf(e), "policies")
      BY <1>5 DEF ValidateWorkflow
    <3>2. QED BY <3>1, TopMoves
  <2>2. QED BY <2>1 DEF Joined, Top, TopOf, Ended
<1>6. ASSUME UseTool(e) PROVE Joined(e)'
  <2>1. /\ act'[TopOf(e)] = act[TopOf(e)] /\ act[TopOf(e)].pc = "calling" /\ NextCallDue(e)
        /\ \A k \in 1 .. MaxCalls : act'[<<e, k>>] = act[<<e, k>>] \/ k = agent[e].next
    BY <1>6, UseToolOpens DEF UseTool, HandlerRuns
  <2>2. ASSUME Style[executor[e]] = "serial" PROVE OneByOne(e)'
    <3>1. CallsOk(e)
      BY <2>1, <2>2 DEF NextCallDue
    <3>2. ASSUME NEW j \in Called(e)', j # agent[e].next PROVE act'[<<e, j>>].pc = "ok"
      <4>1. j \in 1 .. MaxCalls /\ act'[<<e, j>>] = act[<<e, j>>] /\ act'[<<e, j>>].pc # "idle"
        BY <2>1, <3>2 DEF Called
      <4>2. j \in Called(e)
        BY <4>1 DEF Called
      <4>3. QED BY <3>1, <4>1, <4>2 DEF CallsOk
    <3>3. QED BY <3>2 DEF OneByOne
  <2>3. Top(e)'.pc = "calling"
    BY <2>1 DEF Top, TopOf
  <2>4. QED BY <1>2, <2>2, <2>3 DEF Joined, Ended
<1>7. ASSUME HandlerRaises(e) \/ HandlerReturns(e) PROVE Joined(e)'
  <2> SUFFICES ASSUME UsesAgent(e), Style[executor[e]] # "gather" PROVE Joined(e)'
    BY <1>2 DEF Joined
  <2>1. /\ UNCHANGED <<runtime, executor, agent, request>> /\ act[TopOf(e)].pc = "calling"
        /\ \E q \in Ended : Move(TopOf(e), q)
    BY <1>7 DEF HandlerRaises, HandlerReturns, HandlerRuns, AgentOutcomes, Ended
  <2>2. act'[TopOf(e)].pc \in Ended
    BY <2>1, TopMoves
  <2>3. \A k \in 1 .. MaxCalls : ~OpensCall(e, k)
    BY <2>1, <2>2 DEF OpensCall, Top, Ended
  <2>4. Style[executor[e]] \in {"serial", "loop"}
    BY StepConstants DEF UsesAgent, Styles
  <2>5. CallsEnded(e)
    <3>1. CASE HandlerReturns(e)
      BY <3>1 DEF HandlerReturns, CallsOk, CallsEnded, Ended
    <3>2. CASE HandlerRaises(e)
      <4>1. PICK k \in Called(e) : act[<<e, k>>].pc \in Ended \ {"ok"}
        BY <3>2 DEF HandlerRaises
      <4>2. OneByOne(e)
        BY <2>1, <2>4, <3>2 DEF Joined, Top, HandlerRaises, RaisesNow
      <4>3. QED BY <4>1, <4>2 DEF OneByOne, CallsEnded, Ended
    <3>3. QED BY <1>7, <3>1, <3>2
  <2>6. QED BY <1>2, <1>4, <2>2, <2>3, <2>5, EndJoins
<1>8. ASSUME RemoteTurn(e) PROVE Joined(e)'
  <2> SUFFICES ASSUME UsesAgent(e), Style[executor[e]] # "gather" PROVE Joined(e)'
    BY <1>2 DEF Joined
  <2>1. /\ act[TopOf(e)].pc = "remote"
        /\ \A b \in Activities : b # TopOf(e) => request'[b] = request[b]
    BY <1>8, TurnStays
  <2>2. CallsEnded(e)
    BY <2>1 DEF Joined, Top
  <2>3. CASE AsksFor(e, Replay(e))
    <3>1. act'[TopOf(e)].pc = "awaiting" /\ agent'[e].used = agent[e].used
      BY <1>2, <2>1, <2>3, TurnOpens
    <3>2. ASSUME NEW k \in Called(e)', Running(e, k)' PROVE k = agent[e].used + 1
      <4>1. k \in 1 .. MaxCalls /\ act'[<<e, k>>].pc \notin Ended \cup {"idle"}
        BY <3>2 DEF Called, Running
      <4>2. CASE act'[<<e, k>>] = act[<<e, k>>]
        BY <2>2, <4>1, <4>2 DEF CallsEnded, Called
      <4>3. CASE OpensCall(e, k)
        BY <2>1, <4>3 DEF OpensCall, Top
      <4>4. QED BY <1>1, <4>1, <4>2, <4>3 DEF OthersStay
    <3>3. Top(e)'.pc = "awaiting"
      BY <3>1 DEF Top, TopOf
    <3>4. QED BY <3>1, <3>2, <3>3 DEF Joined, Ended
  <2>4. ASSUME NEW n, NEW q, TurnEnds(e, n, q) PROVE Joined(e)'
    <3> DEFINE r == [act[TopOf(e)] EXCEPT !.remotely = n, !.pc = q]
    <3>1. act' = [act EXCEPT ![TopOf(e)] = r] /\ q \in Ended \cup {"remote"}
      BY <2>4 DEF TurnEnds
    <3>2. r.pc = q
      BY TopIsActivity, RecordFields DEF ActivityRecords
    <3>3. act'[TopOf(e)] = r
      BY <3>1, TopIsActivity DEF StepInv, StepsTypeOK
    <3>4. \A k \in 1 .. MaxCalls : ~OpensCall(e, k)
      BY <2>1, <3>1, <3>2, <3>3 DEF OpensCall, Top, Ended
    <3>5. QED BY <1>2, <1>4, <2>2, <3>1, <3>2, <3>3, <3>4, EndJoins
  <2>5. QED BY <1>8, <2>3, <2>4, TurnMoves
<1>9. ASSUME NextTurn(e) PROVE Joined(e)'
  <2> SUFFICES ASSUME UsesAgent(e), Style[executor[e]] # "gather" PROVE Joined(e)'
    BY <1>2 DEF Joined
  <2> DEFINE k == agent[e].used + 1
  <2>1. /\ act[TopOf(e)].pc = "awaiting" /\ act[<<e, k>>].pc \in Ended
        /\ \E q \in Ended \cup {"remote"} : Move(TopOf(e), q)
        /\ \A b \in Activities : b # TopOf(e) => request'[b] = request[b]
        /\ \A f \in Steps \ {e} : agent'[f] = agent[f]
    <3> HIDE DEF k
    <3>1. /\ OthersStay(e) /\ act[TopOf(e)].pc = "awaiting" /\ act[<<e, k>>].pc \in Ended
          /\ \/ Move(TopOf(e), act[<<e, k>>].pc)
             \/ Move(TopOf(e), "remote") \/ Move(TopOf(e), "failed")
      BY <1>9, NextTurnMoves DEF k
    <3>2. "failed" \in Ended \cup {"remote"} /\ act[<<e, k>>].pc \in Ended \cup {"remote"}
      BY <3>1 DEF Ended
    <3>3. \E q \in Ended \cup {"remote"} : Move(TopOf(e), q)
      BY <3>1, <3>2
    <3>4. QED BY <3>1, <3>3 DEF OthersStay
  <2>2. act'[TopOf(e)].pc \in Ended \cup {"remote"}
    <3>1. PICK q \in Ended \cup {"remote"} : Move(TopOf(e), q)
      BY <2>1
    <3>2. act'[TopOf(e)].pc = q
      BY <1>2, <2>1, <3>1, TopMoves
    <3>3. QED BY <3>2
  <2>3. \A i \in 1 .. MaxCalls : ~OpensCall(e, i)
    BY <2>1 DEF OpensCall, Top
  <2>4. CallsEnded(e)
    BY <2>1 DEF Joined, Top, CallsEnded, Running
  <2>5. QED BY <1>2, <1>4, <2>2, <2>3, <2>4, EndJoins
<1>10. QED BY <1>3, <1>5, <1>6, <1>7, <1>8, <1>9 DEF Handle

AllJoined == \A e \in Steps : Joined(e)

(* No step has called anything in the beginning. *)
LEMMA JoinedInit == Init => AllJoined
<1> SUFFICES ASSUME Init, NEW e \in Steps PROVE Joined(e)
  BY DEF AllJoined
<1>1. Top(e).pc = "idle"
  BY TopIsActivity DEF Init, NoActivity, Top
<1>2. QED BY <1>1 DEF Joined, Ended

(* So it always holds. *)
LEMMA JoinedAlways == Spec => []AllJoined
<1>1. Spared => RequestsTypeOK
  BY DEF Spared, RequestsTypeOK
<1>2. StepInv /\ Spared /\ AllJoined /\ [Next]_vars => AllJoined'
  <2> SUFFICES ASSUME StepInv, RequestsTypeOK, \A e \in Steps : Joined(e), [Next]_vars
               PROVE  \A e \in Steps : Joined(e)'
    BY <1>1 DEF AllJoined
  <2>1. CASE UNCHANGED <<runtime, executor, act, agent>>
    BY <2>1, JoinedKept
  <2>2. QED BY <2>1, WorkJoins, HandleJoins DEF Next, ClockTicks, vars
<1>3. QED BY <1>2, JoinedInit, SparedAlways, StepInvAlways, PTL DEF Spec

(* Nothing of a step goes on once the step has ended, unless its handler gathers  *)
(* its calls: asyncio.gather does not stop the others when one raises.          *)
THEOREM StepsEndWhole == Spec => []NothingOutlivesItsStep
<1>1. AllAdmitted /\ AllJoined => NothingOutlivesItsStep
  <2> SUFFICES ASSUME AllAdmitted, AllJoined, NEW e \in Steps,
                      Top(e).pc \in Ended, ~CallsEnded(e)
               PROVE  UsesAgent(e) /\ Style[executor[e]] = "gather"
    BY DEF NothingOutlivesItsStep
  <2>1. UsesAgent(e)
    BY DEF AllAdmitted, Admitted, CallsEnded, Called
  <2>2. QED BY <2>1 DEF AllJoined, Joined
<1>2. QED BY <1>1, AdmittedAlways, JoinedAlways, PTL

-----------------------------------------------------------------------------
(* A remote agent with one call at most, within its limits, asks for it in its    *)
(* first turn and is done in its second.                                     *)
OneCall(x) == WithinLimits(x) /\ Len(Script[x]) <= 1
Prompted(e) ==
  \/ agent[e].used = 0 /\ agent[e].resume = "none"
  \/ /\ agent[e].used = 1 /\ Len(Script[executor[e]]) = 1
     /\ agent[e].resume = Script[executor[e]][1]
Finishes(e) ==
  UsesAgent(e) /\ OneCall(executor[e]) =>
    /\ Top(e).pc \in Early => agent[e].resume = "none"
    /\ Top(e).pc \in Early \cup {"calling"} => Top(e).remotely = 0
    /\ Top(e).pc = "remote" => Prompted(e)
    /\ Top(e).pc = "awaiting" =>
         /\ agent[e].used = 0 /\ Len(Script[executor[e]]) = 1
         /\ act[<<e, 1>>].tool = Script[executor[e]][1]
    /\ Top(e).pc = "failed" /\ Top(e).remotely > 0 => agent[e].trouble

(* Noting trouble changes nothing else an agent remembers.                       *)
LEMMA TroubleNoted ==
  ASSUME StepInv, NEW f \in Steps,
         UNCHANGED agent \/ agent' = [agent EXCEPT ![f].trouble = TRUE],
         NEW e \in Steps
  PROVE  /\ agent'[e].used = agent[e].used /\ agent'[e].resume = agent[e].resume
         /\ agent[e].trouble => agent'[e].trouble
<1>1. agent \in [Steps -> AgentRecords] /\ agent[e] \in AgentRecords
  BY DEF StepInv, StepsTypeOK
<1>2. CASE UNCHANGED agent
  BY <1>2
<1>3. CASE agent' = [agent EXCEPT ![f].trouble = TRUE]
  <2>1. agent' = [agent EXCEPT ![f] = [agent[f] EXCEPT !.trouble = TRUE]]
    BY <1>3
  <2>2. agent'[e] = agent[e] \/ agent'[e] = [agent[e] EXCEPT !.trouble = TRUE]
    BY <1>1, <2>1
  <2>3. agent'[e] = agent[e] \/ agent'[e].trouble = TRUE
    BY <1>1, <2>2 DEF AgentRecords
  <2>4. agent'[e].used = agent[e].used /\ agent'[e].resume = agent[e].resume
    BY <1>1, <2>2 DEF AgentRecords
  <2>5. agent[e].trouble => agent'[e].trouble
    BY <2>3, Zenon
  <2>6. QED BY <2>4, <2>5
<1>4. QED BY <1>2, <1>3

(* Trouble that is noted is there. *)
LEMMA TroubleSet ==
  ASSUME StepInv, NEW e \in Steps, agent' = [agent EXCEPT ![e].trouble = TRUE]
  PROVE  agent'[e].trouble
<1>1. agent \in [Steps -> AgentRecords] /\ agent[e] \in AgentRecords
  BY DEF StepInv, StepsTypeOK
<1>2. agent'[e] = [agent[e] EXCEPT !.trouble = TRUE]
  BY <1>1
<1>3. agent'[e].trouble = TRUE
  BY <1>1, <1>2 DEF AgentRecords
<1>4. QED BY <1>3, Zenon

(* The replay of such an agent asks for its call, or comes to its end.            *)
LEMMA ReplayOfOneCall ==
  ASSUME StepInv, NEW e \in Steps, UsesAgent(e), OneCall(executor[e]), Prompted(e)
  PROVE  \/ Replay(e) = Finished
         \/ /\ Len(Script[executor[e]]) = 1 /\ agent[e].used = 0
            /\ Replay(e) = Script[executor[e]][1] /\ Replay(e) \in Tools
            /\ agent[e].used < MaxToolCalls[executor[e]]
<1> DEFINE s == Script[executor[e]]
<1>1. /\ s \in Seq(Tools) /\ Len(s) \in Nat /\ Len(s) <= 1
      /\ Len(s) <= MaxToolCalls[executor[e]] /\ MaxToolCalls[executor[e]] \in Nat
      /\ \A i \in DOMAIN s : s[i] \in AllowedTools[executor[e]]
      /\ "none" \notin Tools
  BY StepConstants DEF UsesAgent, OneCall, WithinLimits
<1>2. CASE Len(s) = 0
  <2>1. s = <<>>
    BY <1>1, <1>2
  <2>2. Replay(e) = Finished
    BY <1>2, <2>1 DEF Replay, Asks
  <2>3. QED BY <2>2
<1>3. CASE Len(s) = 1
  <2>1. s # <<>> /\ s[1] \in Tools /\ s[1] \in AllowedTools[executor[e]]
    BY <1>1, <1>3
  <2>2. CASE agent[e].used = 0 /\ agent[e].resume = "none"
    <3>1. Replay(e) = s[1]
      BY <1>1, <1>3, <2>1, <2>2 DEF Replay, Asks
    <3>2. QED BY <1>1, <1>3, <2>1, <2>2, <3>1
  <2>3. CASE agent[e].resume = s[1]
    <3>1. agent[e].resume # "none"
      BY <1>1, <2>1, <2>3
    <3>2. Replay(e) = Finished
      BY <1>3, <2>1, <2>3, <3>1 DEF Replay, Asks
    <3>3. QED BY <3>2
  <2>4. QED BY <2>2, <2>3 DEF Prompted
<1>4. Len(s) = 0 \/ Len(s) = 1
  <2> DEFINE n == Len(s)
  <2>1. n \in Nat /\ n <= 1
    BY <1>1
  <2> HIDE DEF n
  <2>2. n = 0 \/ n = 1
    BY <2>1
  <2>3. QED BY <2>2 DEF n
<1>5. QED BY <1>2, <1>3, <1>4, Zenon

(* A step whose top stays where it is, but for trouble that may be noted.         *)
LEMMA FinishesKept ==
  ASSUME StepInv, NEW e \in Steps, Finishes(e), UNCHANGED executor,
         Top(e)'.pc = Top(e).pc, Top(e)'.remotely = Top(e).remotely,
         1 <= MaxCalls => act'[<<e, 1>>].tool = act[<<e, 1>>].tool,
         agent'[e].used = agent[e].used, agent'[e].resume = agent[e].resume,
         agent[e].trouble => agent'[e].trouble
  PROVE  Finishes(e)'
<1>1. Top(e).pc = "awaiting" => 1 <= MaxCalls
  BY StepConstants DEF StepInv, CallsAhead, StepsTypeOK, AgentRecords
<1>2. UsesAgent(e)' <=> UsesAgent(e)
  BY DEF UsesAgent
<1>3. Prompted(e) => Prompted(e)'
  BY DEF Prompted
<1>4. QED BY <1>1, <1>2, <1>3 DEF Finishes

(* An activity that works keeps its step on the way to its end. *)
LEMMA WorkFinishes ==
  ASSUME StepInv, RequestsTypeOK, \A e \in Steps : Finishes(e), NEW a \in Activities, Work(a)
  PROVE  \A e \in Steps : Finishes(e)'
<1> SUFFICES ASSUME NEW e \in Steps PROVE Finishes(e)'
  OBVIOUS
<1>1. /\ UNCHANGED <<runtime, executor>>
      /\ \A b \in Activities \ {a} : act'[b] = act[b]
      /\ act'[a].tool = act[a].tool
      /\ Advances(a)
      /\ UNCHANGED agent \/ agent' = [agent EXCEPT ![a[1]].trouble = TRUE]
  BY WorkMoves
<1>2. /\ agent'[e].used = agent[e].used /\ agent'[e].resume = agent[e].resume
      /\ agent[e].trouble => agent'[e].trouble
  BY <1>1, ActivityParts, TroubleNoted
<1>3. 1 <= MaxCalls => act'[<<e, 1>>].tool = act[<<e, 1>>].tool
  <2>1. 1 <= MaxCalls => <<e, 1>> \in Activities
    BY CallIsActivity
  <2>2. QED BY <1>1, <2>1
<1>4. TopOf(e) \in Activities
  BY TopIsActivity
<1>5. CASE a # TopOf(e)
  <2>1. Top(e)' = Top(e)
    BY <1>1, <1>4, <1>5 DEF Top, TopOf
  <2>2. QED BY <1>1, <1>2, <1>3, <2>1, FinishesKept
<1>6. CASE a = TopOf(e)
  <2> SUFFICES ASSUME UsesAgent(e), OneCall(executor[e]) PROVE Finishes(e)'
    BY <1>1 DEF Finishes, UsesAgent
  <2>1. ExecutorOf(a) = executor[e] /\ ExecutorOf(a) \in Agents /\ ExecutorOf(a) \notin Tools
    BY <1>6, TopIsActivity, StepConstants DEF UsesAgent
  <2>2. act[a] = Top(e) /\ act'[a] = Top(e)'
    BY <1>6 DEF Top, TopOf
  <2>3. CASE Top(e)'.pc = Top(e).pc /\ Top(e)'.remotely = Top(e).remotely
    BY <1>1, <1>2, <1>3, <2>3, FinishesKept
  <2>4. CASE Decides(act[a], act'[a])
    <3>1. Top(e)'.remotely = 0 /\ Top(e)'.pc \in {"policies", "failed", "approval", "started"}
      BY <2>2, <2>4 DEF Decides, Counts, Finishes, Early
    <3>2. agent'[e].resume = "none"
      BY <1>2, <2>2, <2>4 DEF Decides, Finishes, Early
    <3>3. QED BY <3>1, <3>2 DEF Finishes, Early
  <2>5. CASE Begins(act[a], act'[a], ExecutorOf(a))
    <3>1. Top(e).pc = "started" /\ Top(e)'.remotely = 0 /\ Top(e)'.pc \in {"contained", "failed", "remote", "calling"}
      BY <2>2, <2>5 DEF Begins, Finishes, Early
    <3>2. agent'[e].resume = "none" /\ agent'[e].used = 0
      BY <1>2, <3>1 DEF Finishes, Early, StepInv, CallsAhead
    <3>3. Prompted(e)'
      BY <3>2 DEF Prompted
    <3>4. QED BY <3>1, <3>3 DEF Finishes, Early
  <2>6. CASE SendsAgain(act[a], act'[a], a)
    <3>1. Top(e)'.pc = Top(e).pc /\ Top(e)'.remotely = Top(e).remotely
      BY <2>2, <2>6 DEF SendsAgain
    <3>2. QED BY <2>3, <3>1
  <2>7. QED BY <1>1, <2>1, <2>4, <2>5, <2>6 DEF Advances, Returns
<1>7. QED BY <1>5, <1>6

(* And so does the loop of turns. *)
LEMMA HandleFinishes ==
  ASSUME StepInv, RequestsTypeOK, \A f \in Steps : Finishes(f), NEW e \in Steps, Handle(e)
  PROVE  \A f \in Steps : Finishes(f)'
<1>1. OthersStay(e)
  BY HandleStays
<1>2. UNCHANGED <<runtime, executor>> /\ (UsesAgent(e)' <=> UsesAgent(e))
  BY <1>1 DEF OthersStay, UsesAgent
<1>3. ASSUME NEW f \in Steps, f # e PROVE Finishes(f)'
  <2>1. \A k \in 0 .. MaxCalls : act'[<<f, k>>] = act[<<f, k>>]
    BY <1>1, <1>3, CallIsActivity, StepConstants DEF OthersStay
  <2>2. agent'[f] = agent[f]
    BY <1>1, <1>3 DEF OthersStay
  <2>3. Top(f)' = Top(f) /\ (1 <= MaxCalls => act'[<<f, 1>>] = act[<<f, 1>>])
    BY <2>1, StepConstants DEF Top, TopOf
  <2>4. QED BY <1>2, <2>2, <2>3, FinishesKept
<1>4. ASSUME UsesAgent(e), OneCall(executor[e]) PROVE Finishes(e)'
  <2>1. ASSUME ValidateWorkflow(e) PROVE Finishes(e)'
    <3>1. PICK q \in {"rejected", "policies"} : Move(TopOf(e), q) /\ UNCHANGED <<runtime, executor, agent, request>>
      BY <2>1 DEF ValidateWorkflow
    <3>2. act'[TopOf(e)].pc = q /\ Counts(act'[TopOf(e)]) = Counts(act[TopOf(e)])
      BY <3>1, TopMoves
    <3>3. Top(e).pc = "idle"
      BY <2>1 DEF ValidateWorkflow, Top
    <3>4. Top(e)'.pc = q /\ Top(e)'.remotely = 0 /\ agent'[e].resume = "none"
      BY <1>4, <3>1, <3>2, <3>3 DEF Counts, Top, TopOf, Finishes, Early
    <3>5. QED BY <3>4 DEF Finishes, Early
  <2>2. ASSUME UseTool(e) PROVE Finishes(e)'
    <3>1. Top(e)' = Top(e) /\ Top(e).pc = "calling"
      BY <2>2, UseToolOpens DEF UseTool, HandlerRuns, Top, TopOf
    <3>2. Top(e)'.pc = "calling" /\ Top(e)'.remotely = 0
      BY <1>4, <3>1 DEF Finishes
    <3>3. QED BY <3>2 DEF Finishes, Early
  <2>3. ASSUME HandlerRaises(e) \/ HandlerReturns(e) PROVE Finishes(e)'
    <3>1. /\ UNCHANGED <<runtime, executor, agent, request>> /\ Top(e).pc = "calling"
          /\ \E q \in Ended : Move(TopOf(e), q)
      BY <2>3 DEF HandlerRaises, HandlerReturns, HandlerRuns, AgentOutcomes, Ended, Top
    <3>2. act'[TopOf(e)].pc \in Ended /\ Counts(act'[TopOf(e)]) = Counts(act[TopOf(e)])
      BY <3>1, TopMoves
    <3>3. Top(e)'.pc \in Ended /\ Top(e)'.remotely = 0
      BY <1>4, <3>1, <3>2 DEF Counts, Top, TopOf, Finishes
    <3>4. QED BY <3>3 DEF Finishes, Early, Ended
  <2>4. ASSUME RemoteTurn(e) PROVE Finishes(e)'
    <3>1. /\ act[TopOf(e)].pc = "remote"
          /\ \A b \in Activities : b # TopOf(e) => request'[b] = request[b]
      BY <2>4, TurnStays
    <3>2. Prompted(e)
      BY <1>4, <3>1 DEF Finishes, Top
    <3>3. \/ Replay(e) = Finished
          \/ /\ Len(Script[executor[e]]) = 1 /\ agent[e].used = 0
             /\ Replay(e) = Script[executor[e]][1] /\ Replay(e) \in Tools
             /\ agent[e].used < MaxToolCalls[executor[e]]
      BY <1>4, <3>2, ReplayOfOneCall
    <3>4. ASSUME AsksFor(e, Replay(e)) PROVE Finishes(e)'
      <4>1. /\ act'[TopOf(e)].pc = "awaiting" /\ agent'[e].used = agent[e].used
            /\ act'[<<e, agent[e].used + 1>>].tool = Replay(e)
        BY <1>2, <1>4, <3>1, <3>4, TurnOpens
      <4>2. /\ Len(Script[executor[e]]) = 1 /\ agent[e].used = 0
            /\ Replay(e) = Script[executor[e]][1]
        BY <3>3, <3>4, StepConstants DEF AsksFor, Finished
      <4>3. act'[<<e, 1>>].tool = Script[executor[e]][1]
        BY <4>1, <4>2
      <4>4. Top(e)'.pc = "awaiting"
        BY <4>1 DEF Top, TopOf
      <4>5. QED BY <1>2, <4>1, <4>2, <4>3, <4>4 DEF Finishes, Early
    <3>5. ASSUME NEW n, NEW q, TurnEnds(e, n, q) PROVE Finishes(e)'
      <4> DEFINE r == [act[TopOf(e)] EXCEPT !.remotely = n, !.pc = q]
      <4>1. act' = [act EXCEPT ![TopOf(e)] = r] /\ q \in Ended \cup {"remote"}
        BY <3>5 DEF TurnEnds
      <4>2. r.pc = q
        BY TopIsActivity, RecordFields DEF ActivityRecords
      <4>3. act'[TopOf(e)] = r
        BY <4>1, TopIsActivity DEF StepInv, StepsTypeOK
      <4>4. Top(e)'.pc = q
        BY <4>2, <4>3 DEF Top, TopOf
      <4>5. agent'[e].used = agent[e].used /\ agent'[e].resume = agent[e].resume
        BY <3>5, TroubleNoted DEF TurnEnds
      <4>6. Prompted(e)'
        BY <1>2, <3>2, <4>5 DEF Prompted
      <4>7. q = "failed" => agent'[e].trouble
        <5>1. Replay(e) # Refusal
          BY <3>3, StepConstants DEF Refusal, Finished
        <5>2. Replay(e) \in Tools => ~(agent[e].used >= MaxToolCalls[executor[e]])
          BY <1>4, <3>3, StepConstants DEF Finished, UsesAgent
        <5>3. QED BY <3>5, <5>1, <5>2, TroubleSet DEF TurnEnds
      <4>8. QED BY <4>1, <4>4, <4>6, <4>7 DEF Finishes, Early, Ended
    <3>6. QED BY <2>4, <3>4, <3>5, TurnMoves
  <2>5. ASSUME NextTurn(e) PROVE Finishes(e)'
    <3> DEFINE call == act[<<e, agent[e].used + 1>>]
    <3>1. /\ act[TopOf(e)].pc = "awaiting" /\ call.pc \in Ended
          /\ \/ /\ call.pc # "ok" /\ Move(TopOf(e), call.pc) /\ agent'[e].trouble
             \/ /\ \/ Move(TopOf(e), "remote")
                   \/ Move(TopOf(e), "failed") /\ agent'[e].trouble
                /\ agent'[e].used = agent[e].used + 1
                /\ agent'[e].resume = call.tool
          /\ \A b \in Activities : b # TopOf(e) => request'[b] = request[b]
          /\ \A f \in Steps \ {e} : agent'[f] = agent[f]
      BY <2>5, NextTurnMoves DEF OthersStay
    <3>2. /\ agent[e].used = 0 /\ Len(Script[executor[e]]) = 1
          /\ act[<<e, 1>>].tool = Script[executor[e]][1]
      BY <1>4, <3>1 DEF Finishes, Top
    <3>3. ASSUME NEW q, Move(TopOf(e), q) PROVE Top(e)'.pc = q
      <4>1. act'[TopOf(e)].pc = q
        BY <1>2, <3>1, <3>3, TopMoves
      <4>2. QED BY <4>1 DEF Top, TopOf
    <3>4. CASE agent'[e].trouble /\ (Move(TopOf(e), call.pc) \/ Move(TopOf(e), "failed"))
      <4>1. Top(e)'.pc \in Ended
        BY <3>1, <3>3, <3>4 DEF Ended
      <4>2. QED BY <3>4, <4>1 DEF Finishes, Early, Ended
    <3>5. CASE /\ Move(TopOf(e), "remote") /\ agent'[e].used = agent[e].used + 1
               /\ agent'[e].resume = call.tool
      <4>1. agent'[e].used = 1 /\ agent'[e].resume = Script[executor[e]][1]
        BY <3>2, <3>5
      <4>2. Prompted(e)'
        BY <1>2, <3>2, <4>1 DEF Prompted
      <4>3. Top(e)'.pc = "remote"
        BY <3>3, <3>5
      <4>4. QED BY <4>2, <4>3 DEF Finishes, Early
    <3>6. QED BY <3>1, <3>4, <3>5
  <2>6. QED BY <2>1, <2>2, <2>3, <2>4, <2>5 DEF Handle
<1>5. Finishes(e)'
  BY <1>2, <1>4 DEF Finishes
<1>6. QED BY <1>3, <1>5

AllFinish == \A e \in Steps : Finishes(e)

(* Every step begins without a result to hand over. *)
LEMMA FinishesInit == Init => AllFinish
<1> SUFFICES ASSUME Init, NEW e \in Steps PROVE Finishes(e)
  BY DEF AllFinish
<1>1. /\ Top(e).pc = "idle" /\ Top(e).remotely = 0 /\ agent[e].resume = "none"
  BY TopIsActivity DEF Init, NoActivity, NoAgent, Top
<1>2. QED BY <1>1 DEF Finishes, Early

(* A remote agent whose one call is within its limits does not fail once it has   *)
(* executed, unless something went wrong: the loop hands it the result of its    *)
(* call, and its second turn returns (_execute_agent_remote).                *)
THEOREM OneCallAgentsSucceed == Spec => []OneCallAgentsFinish
<1>1. Spared => RequestsTypeOK
  BY DEF Spared, RequestsTypeOK
<1>2. StepInv /\ Spared /\ AllFinish /\ [Next]_vars => AllFinish'
  <2> SUFFICES ASSUME StepInv, RequestsTypeOK, \A e \in Steps : Finishes(e), [Next]_vars
               PROVE  \A e \in Steps : Finishes(e)'
    BY <1>1 DEF AllFinish
  <2>1. CASE UNCHANGED <<runtime, executor, act, agent>>
    <3>1. ASSUME NEW e \in Steps PROVE Finishes(e)'
      <4>1. Top(e)' = Top(e)
        BY <2>1 DEF Top, TopOf
      <4>2. QED BY <2>1, <4>1, FinishesKept
    <3>2. QED BY <3>1
  <2>2. QED BY <2>1, WorkFinishes, HandleFinishes DEF Next, ClockTicks, vars
<1>3. AllFinish => OneCallAgentsFinish
  BY DEF AllFinish, Finishes, OneCall, OneCallAgentsFinish
<1>4. QED BY <1>2, <1>3, FinishesInit, SparedAlways, StepInvAlways, PTL DEF Spec
=============================================================================
