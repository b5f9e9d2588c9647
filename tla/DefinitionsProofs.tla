-------------------------- MODULE DefinitionsProofs ---------------------------
(***************************************************************************)
(* Proofs about Definitions, for any definitions, registries and outputs:      *)
(*   AcceptedFlowsRun   what was accepted meets no missing step or tool;      *)
(*   MovesStayDeclared  a run goes where the transitions of its steps say;    *)
(*   ValidConfigsAreAccepted  what validate_flow_config accepts compiles;     *)
(*   FrontendsAlwaysAgree     the DSL and the config mean the same.           *)
(***************************************************************************)
EXTENDS Definitions, Integers, FiniteSetTheorems, WellFoundedInduction, TLAPS

-----------------------------------------------------------------------------
(* Steps that are chosen by their position *)

(* Of any natural numbers one is the smallest. *)
LEMMA Smallest ==
  ASSUME NEW T \in SUBSET Nat, T # {}
  PROVE  \E n \in T : \A m \in T : n <= m
<1> DEFINE R == {ss \in Nat \X Nat : ss[1] < ss[2]}
<1>1. IsWellFoundedOn(R, Nat)
  BY NatLessThanWellFounded DEF OpToRel
<1> HIDE DEF R
<1>2. PICK n \in T : \A m \in T : ~ (<<m, n>> \in R)
  BY <1>1, WFMin
<1>3. ASSUME NEW m \in T PROVE n <= m
  <2>1. ~ (<<m, n>> \in R) /\ m \in Nat /\ n \in Nat
    BY <1>2
  <2>2. ~ (m < n)
    BY <2>1 DEF R
  <2>3. QED BY <2>1, <2>2
<1>4. QED BY <1>3

(* Of the naturals up to a bound one is the largest. *)
LEMMA Largest ==
  ASSUME NEW l \in Nat, NEW T \in SUBSET (1 .. l), T # {}
  PROVE  \E n \in T : \A m \in T : m <= n
<1> DEFINE U == {u \in Nat : \A m \in T : m <= u}
<1>1. l \in U
  OBVIOUS
<1>2. PICK u \in U : \A v \in U : u <= v
  BY <1>1, Smallest
<1>3. u \in T
  <2>1. SUFFICES ASSUME u \notin T PROVE FALSE
    OBVIOUS
  <2>2. PICK t : t \in T
    OBVIOUS
  <2>3. /\ t \in 1 .. l /\ t <= u /\ u \in Nat
        /\ \A m \in T : m \in 1 .. l /\ m <= u /\ m # u
    BY <1>2, <2>1, <2>2
  <2>4. u - 1 \in Nat /\ \A m \in T : m <= u - 1
    BY <2>3
  <2>5. u - 1 \in U
    BY <2>4
  <2>6. u <= u - 1
    BY <1>2, <2>5
  <2>7. QED BY <2>3, <2>6
<1>4. QED BY <1>2, <1>3

(* A list of steps, each with one executor, as the shapes ask. *)
StepsOk(steps) ==
  /\ \E l \in Nat : DOMAIN steps = 1 .. l
  /\ \A i \in DOMAIN steps :
       /\ steps[i].name \in StepNames /\ steps[i].kind \in Kinds
       /\ \E x \in Tools \cup Agents : steps[i].executor = {x}

(* The attribute of a name is one of the steps that have it. *)
LEMMA NamedStep ==
  ASSUME NEW steps, StepsOk(steps), NEW n \in NamesOf(steps)
  PROVE  \E i \in DOMAIN steps : steps[i].name = n /\ StepNamed(steps, n) = steps[i]
<1> DEFINE T == {i \in DOMAIN steps : steps[i].name = n}
           Latest(i) == steps[i].name = n /\ \A j \in DOMAIN steps : steps[j].name = n => j <= i
<1>1. PICK l \in Nat : T \in SUBSET (1 .. l) /\ T # {}
  BY DEF StepsOk, NamesOf
<1>2. PICK i \in T : \A m \in T : m <= i
  BY <1>1, Largest
<1>3. i \in DOMAIN steps /\ Latest(i)
  BY <1>2
<1>4. StepNamed(steps, n) = steps[CHOOSE m \in DOMAIN steps : Latest(m)]
  BY DEF StepNamed
<1> HIDE DEF Latest
<1>5. PICK m \in DOMAIN steps : m = (CHOOSE j \in DOMAIN steps : Latest(j)) /\ Latest(m)
  BY <1>3
<1>6. QED BY <1>4, <1>5 DEF Latest

(* The first step with one of some names has one of them. *)
LEMMA FirstName ==
  ASSUME NEW steps, StepsOk(steps), NEW names, names \cap NamesOf(steps) # {}
  PROVE  First(steps, names) \in names
<1> DEFINE T == {i \in DOMAIN steps : steps[i].name \in names}
           Earliest(i) == /\ steps[i].name \in names
                          /\ \A j \in DOMAIN steps : steps[j].name \in names => i <= j
<1>1. T \in SUBSET Nat /\ T # {}
  BY DEF StepsOk, NamesOf
<1>2. PICK i \in T : \A m \in T : i <= m
  BY <1>1, Smallest
<1>3. i \in DOMAIN steps /\ Earliest(i)
  BY <1>2
<1>4. First(steps, names) = steps[CHOOSE m \in DOMAIN steps : Earliest(m)].name
  BY DEF First
<1> HIDE DEF Earliest
<1>5. PICK m \in DOMAIN steps : m = (CHOOSE j \in DOMAIN steps : Earliest(j)) /\ Earliest(m)
  BY <1>3
<1>6. QED BY <1>4, <1>5 DEF Earliest

-----------------------------------------------------------------------------
(* The inductive invariant *)

(* The steps as their frontend reads them, and the config it makes of them. *)
SourceSteps ==
  IF source.form = "dsl" THEN [i \in DOMAIN source.steps |-> DslStep(source.steps[i])]
                         ELSE source.steps
SourceConfig ==
  IF source.form = "dsl" THEN [ConfigOf(source, SourceSteps) EXCEPT !.channel = DslChannel(@)]
                         ELSE ConfigOf(source, SourceSteps)

Validated ==
  /\ ~Repeats(flow.steps)
  /\ EntryKnown(flow.entry, NamesOf(flow.steps))
  /\ TargetsKnown(flow.steps)

(* What was read is the config of the source, and why it was rejected. *)
ReadOk ==
  /\ source \in Definitions
  /\ stage \in {"config", "valid", "resolved", "invalid"} =>
       /\ flow = SourceConfig /\ Shaped(SourceSteps)
       /\ source.form = "dsl" => ~Repeats(SourceSteps)
  /\ stage = "malformed" /\ source.form = "dsl" =>
       ~Shaped(SourceSteps) \/ Repeats(SourceSteps)
  /\ stage = "invalid" => ~Validated
  /\ stage = "valid" \/ (stage = "resolved" /\ source.form # "spec") => Validated

(* What was compiled has the steps its transitions name, and one executor each; *)
(* what was constructed has the tools its agents may call.                   *)
CompiledOk ==
  /\ stage \in {"compiled", "ready"} =>
       /\ DOMAIN flow.steps \subseteq StepNames
       /\ \A n \in DOMAIN flow.steps :
            /\ TargetsOf(flow.steps[n]) \subseteq DOMAIN flow.steps \cup {End}
            /\ flow.steps[n].kind \in Kinds
            /\ \E x \in Tools \cup Agents : flow.steps[n].executor = {x}
       /\ flow.entry \in DOMAIN flow.steps \/ DOMAIN flow.steps = {}
  /\ stage = "ready" => AllowListsResolve(registry \ Versioned)

RunOk ==
  /\ stage # "ready" => at = Nowhere
  /\ AcceptedFlowsWork

DefinitionsInv == ReadOk /\ CompiledOk /\ RunOk

(* A step as far as its name, its executor and the kind of its transition go. *)
StepRecord(s) ==
  /\ s = [name |-> s.name, executor |-> s.executor, needs |-> s.needs,
          kind |-> s.kind, to |-> s.to]
  /\ s.name \in StepNames /\ s.kind \in Kinds
  /\ s.executor \in SUBSET (Tools \cup Agents) /\ IsFiniteSet(s.executor)

(* A step keeps its name and its executor in a config, and one executor is one. *)
LEMMA ConfigStepFacts ==
  ASSUME NEW s, StepRecord(s), ShapeOfStep(s)
  PROVE  /\ ConfigStep(s).name = s.name /\ ConfigStep(s).executor = s.executor
         /\ ConfigStep(s).kind \in Kinds
         /\ \E x \in Tools \cup Agents : s.executor = {x}
<1>1. /\ ConfigStep(s).name = s.name /\ ConfigStep(s).executor = s.executor
      /\ ConfigStep(s).kind \in Kinds
  BY DEF StepRecord, ConfigStep
<1>2. IsFiniteSet(s.executor) /\ Cardinality(s.executor) = 1
  BY DEF StepRecord, ShapeOfStep
<1>3. \E x : s.executor = {x}
  <2>1. s.executor # {}
    BY <1>2, FS_EmptySet
  <2>2. PICK x : x \in s.executor
    BY <2>1
  <2>3. Cardinality(s.executor \ {x}) = 0 /\ IsFiniteSet(s.executor \ {x})
    BY <1>2, <2>2, FS_RemoveElement
  <2>4. s.executor \ {x} = {}
    BY <2>3, FS_EmptySet
  <2>5. QED BY <2>2, <2>4
<1>4. QED BY <1>1, <1>3 DEF StepRecord

(* The DSL keeps the name and the executor of a step, too. *)
LEMMA DslStepFacts ==
  ASSUME NEW s, StepRecord(s)
  PROVE  /\ StepRecord(DslStep(s))
         /\ DslStep(s).name = s.name /\ DslStep(s).executor = s.executor
<1> DEFINE needs == IF s.needs = Unwritten THEN {} ELSE DslList(s.needs)
           kind == IF s.kind = "then" /\ Range(s.to) \subseteq EndSpellings THEN "end" ELSE s.kind
           to == IF s.kind = "route_to" THEN DslRoute(s.to) ELSE s.to
<1>1. DslStep(s) = [s EXCEPT !.needs = needs, !.kind = kind, !.to = to]
  BY DEF DslStep
<1>4. s.kind \in Kinds => kind \in Kinds
  BY DEF Kinds
<1> HIDE DEF needs, kind, to
<1>2. DslStep(s) = [name |-> s.name, executor |-> s.executor, needs |-> needs,
                    kind |-> kind, to |-> to]
  BY <1>1 DEF StepRecord
<1>3. QED BY <1>2, <1>4 DEF StepRecord

(* The steps of a source, as its frontend reads them. *)
LEMMA SourceStepFacts ==
  ASSUME source \in Definitions
  PROVE  /\ \E l \in Nat : DOMAIN source.steps = 1 .. l
         /\ DOMAIN SourceSteps = DOMAIN source.steps
         /\ \A i \in DOMAIN source.steps :
              /\ IsStep(source.steps[i]) /\ StepRecord(source.steps[i])
              /\ StepRecord(SourceSteps[i])
              /\ SourceSteps[i].name = source.steps[i].name
<1>1. /\ Len(source.steps) \in Nat /\ DOMAIN source.steps = 1 .. Len(source.steps)
      /\ \A i \in DOMAIN source.steps : IsStep(source.steps[i])
  BY DefinitionConstants
<1>2. ASSUME NEW i \in DOMAIN source.steps
      PROVE  /\ StepRecord(source.steps[i]) /\ StepRecord(DslStep(source.steps[i]))
             /\ DslStep(source.steps[i]).name = source.steps[i].name
  <2>1. StepRecord(source.steps[i])
    BY <1>1 DEF IsStep, StepRecord
  <2>2. QED BY <2>1, DslStepFacts
<1>3. QED BY <1>1, <1>2 DEF SourceSteps

(* What is read is a list of steps with one executor each. *)
LEMMA ReadSteps ==
  ASSUME source \in Definitions, Shaped(SourceSteps)
  PROVE  /\ StepsOk(SourceConfig.steps)
         /\ DOMAIN SourceConfig.steps = DOMAIN source.steps
         /\ \A i \in DOMAIN source.steps :
              /\ SourceConfig.steps[i] = ConfigStep(SourceSteps[i])
              /\ SourceConfig.steps[i].name = source.steps[i].name
<1>1. SourceConfig.steps = [i \in DOMAIN SourceSteps |-> ConfigStep(SourceSteps[i])]
  BY DEF SourceConfig, ConfigOf
<1>2. DOMAIN SourceSteps = DOMAIN source.steps
  BY SourceStepFacts
<1>3. ASSUME NEW i \in DOMAIN source.steps
      PROVE  /\ SourceConfig.steps[i] = ConfigStep(SourceSteps[i])
             /\ SourceConfig.steps[i].name = source.steps[i].name
             /\ SourceConfig.steps[i].name \in StepNames
             /\ SourceConfig.steps[i].kind \in Kinds
             /\ \E x \in Tools \cup Agents : SourceConfig.steps[i].executor = {x}
  <2>1. StepRecord(SourceSteps[i]) /\ SourceSteps[i].name = source.steps[i].name
    BY SourceStepFacts
  <2>2. ShapeOfStep(SourceSteps[i])
    BY <1>2 DEF Shaped
  <2>3. SourceConfig.steps[i] = ConfigStep(SourceSteps[i])
    BY <1>1, <1>2
  <2>4. SourceSteps[i].name \in StepNames
    BY <2>1 DEF StepRecord
  <2>5. QED BY <2>1, <2>2, <2>3, <2>4, ConfigStepFacts
<1>4. QED BY <1>1, <1>2, <1>3, SourceStepFacts DEF StepsOk

-----------------------------------------------------------------------------
(* Every step keeps the invariant. *)

(* What a frontend accepts or rejects. *)
LEMMA ReadingKeeps ==
  ASSUME DefinitionsInv, LoadFlowConfig \/ ParseDsl \/ TakeSpec
  PROVE  DefinitionsInv'
<1>1. /\ source' = source /\ source \in Definitions /\ UNCHANGED <<registry, at>>
      /\ stage = "source" /\ at = Nowhere
  BY DEF DefinitionsInv, ReadOk, RunOk, LoadFlowConfig, ParseDsl, TakeSpec, Reject
<1>2. source.form \in {"config", "dsl", "spec"}
  BY <1>1, DefinitionConstants
<1>3. ReadOk'
  <2>1. SourceSteps' = SourceSteps /\ SourceConfig' = SourceConfig
    BY <1>1 DEF SourceSteps, SourceConfig
  <2>2. CASE LoadFlowConfig
    BY <1>1, <2>1, <2>2 DEF LoadFlowConfig, Reject, ReadOk, SourceSteps, SourceConfig
  <2>3. CASE ParseDsl
    BY <1>1, <2>1, <2>3 DEF ParseDsl, Reject, ReadOk, SourceSteps, SourceConfig
  <2>4. CASE TakeSpec
    BY <1>1, <2>1, <2>4 DEF TakeSpec, Reject, ReadOk, SourceSteps, SourceConfig
  <2>5. QED BY <2>2, <2>3, <2>4
<1>4. stage' \notin {"compiled", "ready"}
  BY DEF LoadFlowConfig, ParseDsl, TakeSpec, Reject
<1>5. QED
  BY <1>1, <1>3, <1>4, MarksAreNoNames
     DEF DefinitionsInv, CompiledOk, RunOk, AcceptedFlowsWork, Nowhere

(* Validation and resolution change nothing but the stage. *)
LEMMA CheckingKeeps ==
  ASSUME DefinitionsInv, ValidateFlowConfig \/ Resolve
  PROVE  DefinitionsInv'
<1>1. /\ UNCHANGED <<source, flow, registry, at>> /\ at = Nowhere
      /\ stage' \in {"valid", "invalid", "resolved", "unresolved"}
  BY DEF DefinitionsInv, RunOk, ValidateFlowConfig, Resolve, Reject
<1>2. SourceSteps' = SourceSteps /\ SourceConfig' = SourceConfig
  BY <1>1 DEF SourceSteps, SourceConfig
<1>3. Validated' <=> Validated
  BY <1>1 DEF Validated
<1>4. /\ stage' = "valid" => stage = "config" /\ Validated
      /\ stage' = "invalid" => stage = "config" /\ ~Validated
      /\ stage' = "resolved" => stage = "valid"
  BY DEF ValidateFlowConfig, Resolve, Reject, Validated
<1>5. ReadOk'
  BY <1>1, <1>2, <1>3, <1>4 DEF DefinitionsInv, ReadOk
<1>6. QED
  BY <1>1, <1>5 DEF DefinitionsInv, CompiledOk, RunOk, AcceptedFlowsWork, Nowhere

(* What the metaclass makes of the steps it was given. *)
LEMMA CompileKeeps ==
  ASSUME DefinitionsInv, Compile
  PROVE  DefinitionsInv'
<1> DEFINE names == Attributes(flow.steps, flow.entry)
<1>1. /\ UNCHANGED <<source, registry, at>> /\ at = Nowhere /\ stage = "resolved"
      /\ stage' \in {"compiled", "uncompiled"}
  BY DEF DefinitionsInv, RunOk, Compile, Reject
<1>2. StepsOk(flow.steps)
  BY <1>1, ReadSteps DEF DefinitionsInv, ReadOk
<1>3. ReadOk'
  BY <1>1 DEF DefinitionsInv, ReadOk
<1>4. flow = SourceConfig
  BY <1>1 DEF DefinitionsInv, ReadOk
<1>5. names \subseteq NamesOf(flow.steps) /\ NamesOf(flow.steps) \subseteq StepNames
  BY <1>2 DEF Attributes, NamesOf, StepsOk
<1>6. CompiledOk'
  <2>1. SUFFICES ASSUME stage' = "compiled"
                 PROVE  /\ DOMAIN flow'.steps \subseteq StepNames
                        /\ \A n \in DOMAIN flow'.steps :
                             /\ TargetsOf(flow'.steps[n]) \subseteq DOMAIN flow'.steps \cup {End}
                             /\ flow'.steps[n].kind \in Kinds
                             /\ \E x \in Tools \cup Agents : flow'.steps[n].executor = {x}
                        /\ flow'.entry \in DOMAIN flow'.steps \/ DOMAIN flow'.steps = {}
    BY <1>1 DEF CompiledOk
  <2>2. flow \in [steps : {flow.steps}, entry : {flow.entry}, channel : {flow.channel}]
    BY <1>4 DEF SourceConfig, ConfigOf
  <2>3. CASE names = {}
    <3>1. flow' = [flow EXCEPT !.steps = <<>>, !.entry = Nowhere]
      BY <2>1, <2>3 DEF Compile, Reject
    <3>2. DOMAIN flow'.steps = {}
      BY <2>2, <3>1
    <3>3. QED BY <3>2
  <2>4. CASE names # {}
    <3>1. PICK e : /\ flow' = [flow EXCEPT !.steps = [n \in names |-> StepNamed(flow.steps, n)],
                                           !.entry = e]
                   /\ e \in names
                   /\ \A n \in names : TransitionChecked(StepNamed(flow.steps, n), names)
      BY <1>1, <2>1, <2>4 DEF Compile, Reject
    <3>2. /\ flow'.steps = [n \in names |-> StepNamed(flow.steps, n)] /\ flow'.entry = e
      BY <2>2, <3>1
    <3>3. \A n \in names : \E i \in DOMAIN flow.steps : StepNamed(flow.steps, n) = flow.steps[i]
      BY <1>2, <1>5, NamedStep
    <3>4. \A n \in names :
            /\ StepNamed(flow.steps, n).kind \in Kinds
            /\ \E x \in Tools \cup Agents : StepNamed(flow.steps, n).executor = {x}
      BY <1>2, <3>3 DEF StepsOk
    <3>5. QED BY <1>5, <3>1, <3>2, <3>4 DEF TransitionChecked
  <2>5. QED BY <2>3, <2>4
<1>7. QED BY <1>1, <1>3, <1>6 DEF DefinitionsInv, RunOk, AcceptedFlowsWork, Nowhere

(* The constructor looks up the tools of every agent that a step has. *)
LEMMA ConstructKeeps ==
  ASSUME DefinitionsInv, Construct
  PROVE  DefinitionsInv'
<1>1. /\ UNCHANGED <<source, flow, at>> /\ at = Nowhere /\ stage = "compiled"
      /\ stage' \in {"unconstructed", "ready"}
  BY DEF DefinitionsInv, RunOk, Construct
<1>2. ReadOk'
  BY <1>1 DEF DefinitionsInv, ReadOk
<1>3. stage' = "ready" => AllowListsResolve(registry' \ Versioned)
  BY DEF Construct, Findable
<1>4. AllowListsResolve(registry \ Versioned)' <=> AllowListsResolve(registry' \ Versioned)
  BY <1>1 DEF AllowListsResolve, StepAgents, CompiledSteps
<1>5. CompiledOk'
  BY <1>1, <1>3, <1>4 DEF DefinitionsInv, CompiledOk
<1>6. QED BY <1>1, <1>2, <1>5 DEF DefinitionsInv, RunOk, AcceptedFlowsWork, Nowhere

(* A run starts at a step, unless there is none. *)
LEMMA StartKeeps ==
  ASSUME DefinitionsInv, Start
  PROVE  DefinitionsInv'
<1>1. UNCHANGED <<source, stage, flow, registry>> /\ stage = "ready"
  BY DEF Start
<1>2. ReadOk' /\ CompiledOk'
  BY <1>1 DEF DefinitionsInv, ReadOk, Validated, SourceSteps, SourceConfig, CompiledOk,
              AllowListsResolve, StepAgents, CompiledSteps
<1>3. AcceptedFlowsWork'
  <2>1. SUFFICES ASSUME at' = "broken", DOMAIN flow.steps # {}
                 PROVE  DOMAIN flow.steps \cap Shadowing # {}
    BY <1>1 DEF AcceptedFlowsWork
  <2>2. flow.entry \in StepNames
    BY <1>1, <2>1 DEF DefinitionsInv, CompiledOk
  <2>3. flow.entry # Nowhere /\ flow.entry # "broken"
    BY <2>2, MarksAreNoNames DEF Marks
  <2>4. QED BY <2>1, <2>3 DEF Start
<1>4. QED BY <1>1, <1>2, <1>3 DEF DefinitionsInv, RunOk

(* Wherever an output, or a command, may take a run is a target of its step. *)
LEMMA ChosenTargets ==
  ASSUME NEW s, s.kind \in Kinds, NEW says, NEW goto
  PROVE  Chosen(s, says) \subseteq TargetsOf(s) /\ Goto(s, goto) \subseteq TargetsOf(s)
  BY DEF Chosen, Goto, TargetsOf, Range, Kinds

(* A step that ends takes the run to a target of its transition, or fails it. *)
LEMMA NextStepGoes ==
  ASSUME DefinitionsInv, Running, NEW says, NEW goto, NEW agent, NextStep(says, goto, agent)
  PROVE  \/ /\ at' \in TargetsOf(flow.steps[at]) /\ at' \in DOMAIN flow.steps \cup {End}
            /\ handoff' = agent /\ Accepts(at', agent)
         \/ at' = "failed"
<1> DEFINE s == flow.steps[at]
           chosen == IF goto = Omitted THEN Chosen(s, says) ELSE Goto(s, goto)
<1>1. /\ TargetsOf(s) \subseteq DOMAIN flow.steps \cup {End} /\ s.kind \in Kinds
  BY DEF Running, DefinitionsInv, CompiledOk
<1>2. chosen \subseteq TargetsOf(s)
  BY <1>1, ChosenTargets
<1>3. \/ \E next \in chosen :
           /\ at' = IF next \notin DOMAIN flow.steps \cup {End} THEN "broken"
                    ELSE IF Accepts(next, agent) THEN next ELSE "failed"
           /\ handoff' = agent
      \/ at' = "failed"
  BY DEF NextStep
<1> HIDE DEF chosen, s
<1>4. QED BY <1>1, <1>2, <1>3 DEF s

(* Neither that nor a nested call meets what is missing. *)
LEMMA RunningKeeps ==
  ASSUME DefinitionsInv, Running,
         \/ \E says, goto, agent : NextStep(says, goto, agent)
         \/ \E t \in Tools : CallTool(t)
  PROVE  DefinitionsInv'
<1>1. UNCHANGED <<source, stage, flow, registry>> /\ stage = "ready"
  BY DEF NextStep, CallTool, Running
<1>2. ReadOk' /\ CompiledOk'
  BY <1>1 DEF DefinitionsInv, ReadOk, Validated, SourceSteps, SourceConfig, CompiledOk,
              AllowListsResolve, StepAgents, CompiledSteps
<1>3. at \in DOMAIN flow.steps /\ DOMAIN flow.steps \subseteq StepNames
  BY <1>1 DEF Running, DefinitionsInv, CompiledOk
<1>4. at' # "broken"
  <2>1. CASE \E says, goto, agent : NextStep(says, goto, agent)
    <3>1. at' \in DOMAIN flow.steps \cup {End} \/ at' = "failed"
      BY <2>1, NextStepGoes
    <3>2. QED BY <1>3, <3>1, MarksAreNoNames DEF Marks, End
  <2>2. ASSUME NEW t \in Tools, CallTool(t) PROVE at' # "broken"
    <3>1. PICK a \in flow.steps[at].executor \cap Agents : t \in AllowedTools[a]
      BY <2>2 DEF CallTool
    <3>2. \E x \in Tools \cup Agents : flow.steps[at].executor = {x}
      BY <1>1, <1>3 DEF DefinitionsInv, CompiledOk
    <3>3. a \in StepAgents
      BY <1>3, <3>1, <3>2 DEF StepAgents, CompiledSteps
    <3>4. t \in registry \ Versioned
      BY <1>1, <3>1, <3>3 DEF DefinitionsInv, CompiledOk, AllowListsResolve
    <3>5. at' = at
      BY <2>2, <3>4 DEF CallTool
    <3>6. QED BY <1>3, <3>5, MarksAreNoNames DEF Marks
  <2>3. QED BY <2>1, <2>2
<1>5. QED BY <1>1, <1>2, <1>4 DEF DefinitionsInv, RunOk, AcceptedFlowsWork

LEMMA DefinitionsInit == Init => DefinitionsInv
  BY DEF Init, DefinitionsInv, ReadOk, CompiledOk, RunOk, AcceptedFlowsWork, Nowhere

LEMMA DefinitionsStep == DefinitionsInv /\ [Next]_vars => DefinitionsInv'
<1> SUFFICES ASSUME DefinitionsInv, [Next]_vars PROVE DefinitionsInv'
  OBVIOUS
<1>1. CASE UNCHANGED vars
  BY <1>1 DEF vars, DefinitionsInv, ReadOk, Validated, SourceSteps, SourceConfig, CompiledOk,
              AllowListsResolve, StepAgents, CompiledSteps, RunOk, AcceptedFlowsWork
<1>2. CASE Next
  BY <1>2, ReadingKeeps, CheckingKeeps, CompileKeeps, ConstructKeeps, StartKeeps,
     RunningKeeps DEF Next, CallTool
<1>3. QED BY <1>1, <1>2

-----------------------------------------------------------------------------
(* The theorems *)

(* A workflow that was accepted never meets a step or a tool it does not have   *)
(* (workflows/base.py, runner.py).                                           *)
THEOREM AcceptedFlowsRun == Spec => []AcceptedFlowsWork
<1>1. DefinitionsInv => AcceptedFlowsWork
  BY DEF DefinitionsInv, RunOk
<1>2. QED BY <1>1, DefinitionsInit, DefinitionsStep, PTL DEF Spec

(* Neither an output nor a command takes a run anywhere the transition of its   *)
(* step does not name, and a handoff arrives at its agent (_validate_goto).    *)
THEOREM MovesStayDeclared == Spec => MovesAreDeclared
<1>1. DefinitionsInv /\ [Next]_vars =>
        [(Running /\ at' \in DOMAIN flow.steps \cup {End}) =>
           /\ at' \in TargetsOf(flow.steps[at])
           /\ (handoff' # Omitted => at' # End /\ handoff' \in flow.steps[at'].executor)]_vars
  <2> SUFFICES ASSUME DefinitionsInv, Next, vars' # vars, Running,
                      at' \in DOMAIN flow.steps \cup {End}
               PROVE  /\ at' \in TargetsOf(flow.steps[at])
                      /\ (handoff' # Omitted =>
                            at' # End /\ handoff' \in flow.steps[at'].executor)
    OBVIOUS
  <2>1. stage = "ready" /\ at \in DOMAIN flow.steps /\ DOMAIN flow.steps \subseteq StepNames
    BY DEF Running, DefinitionsInv, CompiledOk
  <2>2. at' \notin {"failed", "broken"} /\ at # Nowhere
    BY <2>1, MarksAreNoNames DEF Marks, End
  <2>3. PICK says, goto, agent : NextStep(says, goto, agent)
    <3>1. ASSUME NEW t \in Tools, CallTool(t) PROVE FALSE
      BY <2>2, <3>1 DEF CallTool, vars
    <3>2. QED
      BY <2>1, <2>2, <3>1
         DEF Next, LoadFlowConfig, ParseDsl, TakeSpec, ValidateFlowConfig, Resolve, Compile,
             Construct, Start
  <2>4. /\ at' \in TargetsOf(flow.steps[at]) /\ handoff' = agent /\ Accepts(at', agent)
    BY <2>2, <2>3, NextStepGoes
  <2>5. QED BY <2>4 DEF Accepts
<1>2. QED BY <1>1, DefinitionsInit, DefinitionsStep, PTL DEF Spec, MovesAreDeclared

(* What was validated passes the checks of the metaclass, which gathers the     *)
(* steps by their names and looks for the first of them.                     *)
LEMMA ValidatedCompiles ==
  ASSUME DefinitionsInv, Compile, source.form # "spec", EntryStep \notin NamesOf(flow.steps)
  PROVE  stage' = "compiled"
<1> DEFINE names == NamesOf(flow.steps)
<1>1. stage = "resolved" /\ Validated /\ StepsOk(flow.steps)
  BY ReadSteps DEF Compile, DefinitionsInv, ReadOk
<1>2. Attributes(flow.steps, flow.entry) = names
  BY DEF Attributes
<1>3. CASE names = {}
  BY <1>2, <1>3 DEF Compile
<1>4. CASE names # {}
  <2>1. ASSUME NEW n \in names PROVE TransitionChecked(StepNamed(flow.steps, n), names)
    <3>1. PICK i \in DOMAIN flow.steps : StepNamed(flow.steps, n) = flow.steps[i]
      BY <1>1, NamedStep
    <3>2. QED BY <1>1, <3>1 DEF Validated, TargetsKnown, TransitionChecked
  <2>2. flow.entry # Omitted => flow.entry \in names
    BY <1>1 DEF Validated, EntryKnown
  <2>3. First(flow.steps, names) \in names
    BY <1>1, <1>4, FirstName
  <2> HIDE DEF names
  <2>4. QED BY <1>2, <1>4, <2>1, <2>2, <2>3 DEF Compile, names
<1>5. QED BY <1>3, <1>4

(* Whatever validate_flow_config accepts compiles to a class (workflows/base.py, *)
(* app/config.py), unless a step is named entry_step.                       *)
THEOREM ValidConfigsAreAccepted == Spec => ValidConfigsCompile
<1>1. DefinitionsInv /\ [Next]_vars =>
        [(stage = "resolved" /\ source.form # "spec")
           => stage' = "compiled" \/ EntryStep \in NamesOf(flow.steps)]_vars
  <2> SUFFICES ASSUME DefinitionsInv, Next, stage = "resolved", source.form # "spec",
                      EntryStep \notin NamesOf(flow.steps)
               PROVE  stage' = "compiled"
    OBVIOUS
  <2>1. Compile
    BY DEF Next, LoadFlowConfig, ParseDsl, TakeSpec, ValidateFlowConfig, Resolve,
           Construct, Start, Running, CallTool
  <2>2. QED BY <2>1, ValidatedCompiles
<1>2. QED BY <1>1, DefinitionsInit, DefinitionsStep, PTL DEF Spec, ValidConfigsCompile

(* A step of the DSL without an empty bracket says what it says in a config. *)
LEMMA SameStep ==
  ASSUME NEW s, StepRecord(s), ShapeOfStep(s), s.needs # {}
  PROVE  /\ ShapeOfStep(DslStep(s))
         /\ TargetsOf(ConfigStep(DslStep(s))) = TargetsOf(ConfigStep(s))
         /\ ConfigStep(DslStep(s)).needs = ConfigStep(s).needs
<1> DEFINE d == DslStep(s)
           Turned == s.kind = "then" /\ Range(s.to) \subseteq EndSpellings
<1>1. s = [name |-> s.name, executor |-> s.executor, needs |-> s.needs,
           kind |-> s.kind, to |-> s.to]
  BY DEF StepRecord
<1>2. s.kind # "end" => DOMAIN s.to # {}
  BY DEF ShapeOfStep
<1>3. d = [name |-> s.name, executor |-> s.executor,
           needs |-> IF s.needs = Unwritten THEN {} ELSE s.needs,
           kind |-> IF Turned THEN "end" ELSE s.kind, to |-> s.to]
  <2>1. DslList(s.needs) = s.needs /\ (s.kind = "route_to" => DslRoute(s.to) = s.to)
    BY <1>2 DEF DslList, DslRoute
  <2> DEFINE needs == IF s.needs = Unwritten THEN {} ELSE DslList(s.needs)
             kind == IF Turned THEN "end" ELSE s.kind
             to == IF s.kind = "route_to" THEN DslRoute(s.to) ELSE s.to
  <2>2. d = [s EXCEPT !.needs = needs, !.kind = kind, !.to = to]
    BY DEF DslStep
  <2>3. needs = (IF s.needs = Unwritten THEN {} ELSE s.needs) /\ to = s.to
    BY <2>1
  <2> HIDE DEF d, needs, kind, to
  <2>4. d = [name |-> s.name, executor |-> s.executor, needs |-> needs,
             kind |-> kind, to |-> to]
    BY <1>1, <2>2
  <2>5. QED BY <2>3, <2>4 DEF kind
<1> HIDE DEF d, Turned
<1>4. ShapeOfStep(d)
  BY <1>2, <1>3 DEF ShapeOfStep
<1>5. ASSUME NEW w, NEW ne, NEW k,
             w = [name |-> s.name, executor |-> s.executor, needs |-> ne, kind |-> k,
                  to |-> s.to]
      PROVE  /\ ConfigStep(w).needs = IF ne = Unwritten THEN {} ELSE ne
             /\ ConfigStep(w).to = IF k = "end" THEN <<End>> ELSE Normalized(s.to)
  BY <1>5 DEF ConfigStep
<1>6. ConfigStep(d).needs = ConfigStep(s).needs
  <2>1. Unwritten # {}
    BY DEF Unwritten
  <2>2. QED BY <1>1, <1>3, <1>5, <2>1
<1>7. Range(ConfigStep(d).to) = Range(ConfigStep(s).to)
  <2>1. CASE ~Turned
    BY <1>1, <1>3, <1>5, <2>1
  <2>2. CASE Turned
    <3>1. ConfigStep(d).to = <<End>>
      BY <1>3, <1>5, <2>2
    <3>2. ConfigStep(s).to = Normalized(s.to)
      BY <1>1, <1>5, <2>2 DEF Turned
    <3>3. Range(<<End>>) = {End}
      BY DEF Range
    <3>4. Range(Normalized(s.to)) = {End}
      BY <1>2, <2>2 DEF Turned, Range, Normalized, Normalize
    <3>5. QED BY <3>1, <3>2, <3>3, <3>4
  <2>3. QED BY <2>1, <2>2
<1>8. QED BY <1>4, <1>6, <1>7 DEF TargetsOf, d

(* Whether names repeat is said by the names. *)
LEMMA SameNames ==
  ASSUME NEW s, NEW t, DOMAIN s = DOMAIN t, \A i \in DOMAIN t : s[i].name = t[i].name
  PROVE  Repeats(s) <=> Repeats(t)
<1>1. ASSUME Repeats(s) PROVE Repeats(t)
  <2>1. PICK i, j \in DOMAIN s : i # j /\ s[i].name = s[j].name
    BY <1>1 DEF Repeats
  <2>2. t[i].name = t[j].name
    BY <2>1
  <2>3. QED BY <2>1, <2>2 DEF Repeats
<1>2. ASSUME Repeats(t) PROVE Repeats(s)
  <2>1. PICK i, j \in DOMAIN t : i # j /\ t[i].name = t[j].name
    BY <1>2 DEF Repeats
  <2>2. s[i].name = s[j].name
    BY <2>1
  <2>3. QED BY <2>1, <2>2 DEF Repeats
<1>3. QED BY <1>1, <1>2

(* So what was read from the DSL and from a config is as valid. *)
LEMMA SameConfig ==
  ASSUME source \in Definitions, source.form = "dsl", Plain
  PROVE  /\ Shaped(SourceSteps)
         /\ Repeats(SourceSteps) <=> Repeats(AsConfig.steps)
         /\ DOMAIN SourceConfig.steps = DOMAIN AsConfig.steps
         /\ \A i \in DOMAIN AsConfig.steps :
              /\ SourceConfig.steps[i].name = AsConfig.steps[i].name
              /\ TargetsOf(SourceConfig.steps[i]) = TargetsOf(AsConfig.steps[i])
              /\ SourceConfig.steps[i].needs = AsConfig.steps[i].needs
         /\ SourceConfig.entry = AsConfig.entry
         /\ SourceConfig.channel = AsConfig.channel
<1>1. /\ DOMAIN SourceSteps = DOMAIN source.steps
      /\ SourceSteps = [i \in DOMAIN source.steps |-> DslStep(source.steps[i])]
  BY DEF SourceSteps
<1>2. ASSUME NEW i \in DOMAIN source.steps
      PROVE  /\ ShapeOfStep(SourceSteps[i])
             /\ SourceSteps[i].name = source.steps[i].name
             /\ ConfigStep(source.steps[i]).name = source.steps[i].name
             /\ TargetsOf(ConfigStep(SourceSteps[i])) = TargetsOf(ConfigStep(source.steps[i]))
             /\ ConfigStep(SourceSteps[i]).needs = ConfigStep(source.steps[i]).needs
  <2>1. StepRecord(source.steps[i]) /\ SourceSteps[i].name = source.steps[i].name
    BY SourceStepFacts
  <2>2. ShapeOfStep(source.steps[i]) /\ source.steps[i].needs # {}
    BY DEF Plain, Shaped
  <2>3. QED BY <1>1, <2>1, <2>2, SameStep, ConfigStepFacts
<1>3. Shaped(SourceSteps)
  BY <1>1, <1>2 DEF Shaped
<1>4. AsConfig = [steps |-> [i \in DOMAIN source.steps |-> ConfigStep(source.steps[i])],
                  entry |-> source.entry, channel |-> source.channel]
  BY DEF AsConfig, ConfigOf
<1>5. SourceConfig = [steps |-> [i \in DOMAIN source.steps |-> ConfigStep(SourceSteps[i])],
                      entry |-> source.entry, channel |-> DslChannel(source.channel)]
  BY <1>1 DEF SourceConfig, ConfigOf
<1>6. DslChannel(source.channel) = source.channel
  <2>1. /\ source.channel \in [reducer : Values, initial : Values]
        /\ source.channel # [reducer |-> Omitted, initial |-> "value"]
    BY DefinitionConstants DEF Plain
  <2>2. PICK c : c = source.channel
    OBVIOUS
  <2>3. DslChannel(c) = c
    BY <2>1, <2>2 DEF DslChannel, Values, Omitted
  <2>4. QED BY <2>2, <2>3
<1>7. Repeats(SourceSteps) <=> Repeats(AsConfig.steps)
  <2>1. /\ DOMAIN AsConfig.steps = DOMAIN source.steps
        /\ \A i \in DOMAIN source.steps : AsConfig.steps[i].name = SourceSteps[i].name
    BY <1>2, <1>4
  <2>2. QED BY <1>1, <2>1, SameNames
<1>8. ASSUME NEW i \in DOMAIN source.steps PROVE SourceConfig.steps[i].name = AsConfig.steps[i].name
  BY <1>2, <1>3, <1>4, <1>8, ReadSteps
<1>9. QED BY <1>2, <1>3, <1>4, <1>5, <1>6, <1>7, <1>8

(* The same text in the DSL and as a config is accepted or rejected alike and    *)
(* gives the same steps, if no bracket is empty and no channel has an initial  *)
(* value without a reducer (app/dsl.py, app/config.py).                      *)
THEOREM FrontendsAlwaysAgree == Spec => []FrontendsAgree
<1>1. DefinitionsInv => FrontendsAgree
  <2> SUFFICES ASSUME DefinitionsInv, Plain, source.form = "dsl" PROVE SameAsConfig
    BY DEF FrontendsAgree, SameAsConfig
  <2>1. /\ Shaped(SourceSteps)
        /\ Repeats(SourceSteps) <=> Repeats(AsConfig.steps)
        /\ DOMAIN SourceConfig.steps = DOMAIN AsConfig.steps
        /\ \A i \in DOMAIN AsConfig.steps :
             /\ SourceConfig.steps[i].name = AsConfig.steps[i].name
             /\ TargetsOf(SourceConfig.steps[i]) = TargetsOf(AsConfig.steps[i])
             /\ SourceConfig.steps[i].needs = AsConfig.steps[i].needs
        /\ SourceConfig.entry = AsConfig.entry
        /\ SourceConfig.channel = AsConfig.channel
    BY SameConfig DEF DefinitionsInv, ReadOk
  <2>2. NamesOf(SourceConfig.steps) = NamesOf(AsConfig.steps)
    BY <2>1 DEF NamesOf
  <2>3. NamesOf(AsConfig.steps) = NamesOf(source.steps) /\ AsConfig.entry = source.entry
    <3>1. \A i \in DOMAIN source.steps :
            SourceConfig.steps[i].name = source.steps[i].name
      BY <2>1, ReadSteps DEF DefinitionsInv, ReadOk
    <3>2. /\ DOMAIN AsConfig.steps = DOMAIN source.steps /\ AsConfig.entry = source.entry
      BY DEF AsConfig, ConfigOf
    <3>3. QED BY <2>1, <3>1, <3>2 DEF NamesOf
  <2>4. ConfigAccepts <=> /\ ~Repeats(SourceConfig.steps)
                          /\ EntryKnown(SourceConfig.entry, NamesOf(SourceConfig.steps))
                          /\ TargetsKnown(SourceConfig.steps)
    <3>1. Repeats(SourceConfig.steps) <=> Repeats(AsConfig.steps)
      BY <2>1, SameNames
    <3>2. TargetsKnown(SourceConfig.steps) <=> TargetsKnown(AsConfig.steps)
      BY <2>1, <2>2 DEF TargetsKnown
    <3>3. Shaped(source.steps)
      BY DEF Plain
    <3>4. QED BY <2>1, <2>2, <2>3, <3>1, <3>2, <3>3 DEF ConfigAccepts
  <2>5. stage = "malformed" => ~ConfigAccepts
    BY <2>1 DEF DefinitionsInv, ReadOk, ConfigAccepts
  <2>6. stage \in {"invalid", "valid"} => flow = SourceConfig
    BY DEF DefinitionsInv, ReadOk
  <2>7. stage = "invalid" => ~ConfigAccepts
    BY <2>4, <2>6 DEF DefinitionsInv, ReadOk, Validated
  <2>8. stage = "valid" => ConfigAccepts
    BY <2>4, <2>6 DEF DefinitionsInv, ReadOk, Validated
  <2>9. QED BY <2>1, <2>5, <2>6, <2>7, <2>8 DEF SameAsConfig
<1>2. QED BY <1>1, DefinitionsInit, DefinitionsStep, PTL DEF Spec
=============================================================================
