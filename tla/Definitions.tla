----------------------------- MODULE Definitions -----------------------------
(***************************************************************************)
(* From the text of a workflow to the steps a run takes: the DSL and config    *)
(* frontends (governai/app/dsl.py, config.py), governed_flow (app/flow.py),    *)
(* the metaclass and constructor of Workflow (workflows/base.py) with their    *)
(* registries, and the choice of the next step (workflows/runner.py, and       *)
(* _validate_goto of runtime/local.py).                                     *)
(***************************************************************************)
EXTENDS Naturals, Sequences, FiniteSets, Functions

CONSTANTS Definitions,  \* the definitions to compile, of Definition
          StepNames,    \* names written in definitions, of steps or targets
          EndSpellings, \* those normalize_step_ref takes for the end
          EntryStep,    \* the name "entry_step"
          NoneText,     \* the text "None"
          Shadowing,    \* names of members of Workflow a run goes through
          Tools, Agents,
          KnownTools, KnownAgents, \* in the registries of the caller
          RouterValues, \* what an output may say to a branch
          KnownNames,   \* the policies and skills the resolvers know
          AllowedTools, \* allowed_tools of each agent
          SkillTools,   \* the tools of each skill
          Versioned,    \* the tools whose version is not the default "0.0.0"
          RemoteName    \* remote_name of each tool

End == "__END__"
Omitted == "omitted"
Unwritten == {Omitted} \* the artifacts of a step that does not name any
Values == {Omitted, "value"}
Kinds == {"then", "end", "branch", "route_to"}

(* Steps, as an author writes them or as they are compiled; a transition maps  *)
(* what the output may say to targets, and then and end have one target.     *)
IsStep(s) ==
  /\ s = [name |-> s.name, executor |-> s.executor, needs |-> s.needs,
          kind |-> s.kind, to |-> s.to]
  /\ s.name \in StepNames
  /\ s.executor \in SUBSET (Tools \cup Agents) /\ IsFiniteSet(s.executor)
  /\ s.needs = Unwritten \/ s.needs \in SUBSET StepNames
  /\ s.kind \in Kinds

ASSUME DefinitionConstants ==
  \A d \in Definitions :
    /\ d = [form |-> d.form, steps |-> d.steps, entry |-> d.entry, policies |-> d.policies,
            skills |-> d.skills, channel |-> d.channel]
    /\ d.form \in {"config", "dsl", "spec"}
    /\ Len(d.steps) \in Nat /\ DOMAIN d.steps = 1 .. Len(d.steps)
    /\ \A i \in DOMAIN d.steps : IsStep(d.steps[i])
    /\ d.entry \in {Omitted} \cup StepNames
    /\ d.channel \in [reducer : Values, initial : Values]

VARIABLES source,   \* the definition as written
          stage,    \* how far it was compiled, or by whom it was rejected
          flow,     \* what it was compiled to
          registry, \* the tool registry of the workflow
          at,       \* the current step of a run
          handoff   \* the agent the last transition handed over to

vars == <<source, stage, flow, registry, at, handoff>>

(* Where a run is that has not started, has failed, or met what is missing;     *)
(* no step is named so.                                                      *)
Nowhere == "nowhere"
Marks == {Nowhere, "failed", "broken"}

ASSUME MarksAreNoNames == Marks \cap StepNames = {}

NoFlow == [steps |-> <<>>, entry |-> Omitted]

Init ==
  /\ source \in Definitions
  /\ stage = "source"
  /\ flow = NoFlow
  /\ registry = {}
  /\ at = Nowhere
  /\ handoff = Omitted

Normalize(ref) == IF ref \in EndSpellings THEN End ELSE ref
Normalized(to) == [key \in DOMAIN to |-> Normalize(to[key])]

(* Rejected, and where. *)
Reject(where) == stage' = where /\ UNCHANGED <<source, flow, registry, at, handoff>>

-----------------------------------------------------------------------------
(* The shapes pydantic accepts: one executor, a target, a mapping, a list. *)

ShapeOfStep(s) ==
  /\ Cardinality(s.executor) = 1
  /\ s.kind # "end" => DOMAIN s.to # {}

Shaped(steps) == \A i \in DOMAIN steps : ShapeOfStep(steps[i])

(* StepConfigV1 and TransitionConfigV1, once accepted. *)
ConfigStep(s) ==
  [s EXCEPT !.to = IF s.kind = "end" THEN <<End>> ELSE Normalized(@),
            !.needs = IF @ = Unwritten THEN {} ELSE @]

ConfigOf(d, steps) ==
  [steps |-> [i \in DOMAIN steps |-> ConfigStep(steps[i])],
   entry |-> d.entry, channel |-> d.channel]

LoadFlowConfig ==
  /\ stage = "source" /\ source.form = "config"
  /\ IF Shaped(source.steps)
     THEN /\ flow' = ConfigOf(source, source.steps)
          /\ stage' = "config"
          /\ UNCHANGED <<source, registry, at, handoff>>
     ELSE Reject("malformed")

(* The parser leaves a None for the part of a [...] that is not written: an    *)
(* empty list becomes the name "None", and the initial value of a channel      *)
(* without a reducer is taken for the reducer that is missing.               *)
DslList(names) == IF names = {} THEN {NoneText} ELSE names
(* Faulty variant of DslRoute: a target "end" is skipped. *)
DslRouteNames(to) ==
  [key \in {k \in DOMAIN to : to[k] \notin EndSpellings} |-> to[key]]
DslRoute(to) == IF DOMAIN to = {} THEN <<NoneText>> ELSE to

DslStep(s) ==
  [s EXCEPT !.needs = IF @ = Unwritten THEN {} ELSE DslList(@),
            !.kind = IF @ = "then" /\ Range(s.to) \subseteq EndSpellings THEN "end" ELSE @,
            !.to = IF s.kind = "route_to" THEN DslRoute(@) ELSE @]

DslChannel(c) == IF c.reducer = Omitted THEN [c EXCEPT !.initial = Omitted] ELSE c

Repeats(steps) == \E i, j \in DOMAIN steps : i # j /\ steps[i].name = steps[j].name

(* What is no TransitionConfigV1, a branch without a mapping, raises before     *)
(* the steps after it are read, with pydantic's error.                       *)
ParseDsl ==
  LET steps == [i \in DOMAIN source.steps |-> DslStep(source.steps[i])] IN
    /\ stage = "source" /\ source.form = "dsl"
    /\ IF Shaped(steps) /\ ~Repeats(steps)
       THEN /\ flow' = [ConfigOf(source, steps) EXCEPT !.channel = DslChannel(@)]
            /\ stage' = "config"
            /\ UNCHANGED <<source, registry, at, handoff>>
       ELSE Reject("malformed")

(* A GovernedFlowSpec, or a class, is compiled as it is; _apply_transition     *)
(* wants its parts there and the transition normalises them.                *)
TakeSpec ==
  /\ stage = "source" /\ source.form = "spec"
  /\ IF Shaped(source.steps)
     THEN /\ flow' = ConfigOf(source, source.steps)
          /\ stage' = "resolved"
          /\ UNCHANGED <<source, registry, at, handoff>>
     ELSE Reject("uncompiled")

-----------------------------------------------------------------------------
(* validate_flow_config and the resolvers *)

NamesOf(steps) == {steps[i].name : i \in DOMAIN steps}
TargetsOf(s) == Range(s.to)
TargetsKnown(steps) ==
  \A i \in DOMAIN steps : TargetsOf(steps[i]) \subseteq NamesOf(steps) \cup {End}

(* Faulty variant of what follows: the entry is not looked up. *)
EntryAnything(entry, names) == TRUE
EntryKnown(entry, names) == entry = Omitted \/ entry \in names

ValidateFlowConfig ==
  /\ stage = "config"
  /\ IF /\ ~Repeats(flow.steps)
        /\ EntryKnown(flow.entry, NamesOf(flow.steps))
        /\ TargetsKnown(flow.steps)
     THEN stage' = "valid" /\ UNCHANGED <<source, flow, registry, at, handoff>>
     ELSE Reject("invalid")

ExecutorsOf(steps) == UNION {steps[i].executor : i \in DOMAIN steps}

(* RegistryToolResolver asks for the default version. *)
Resolvable == (KnownTools \ Versioned) \cup KnownAgents

Resolve ==
  /\ stage = "valid"
  /\ IF /\ ExecutorsOf(flow.steps) \subseteq Resolvable
        /\ source.policies \cup source.skills \subseteq KnownNames
     THEN stage' = "resolved" /\ UNCHANGED <<source, flow, registry, at, handoff>>
     ELSE Reject("unresolved")

-----------------------------------------------------------------------------
(* governed_flow, and the metaclass *)

(* The steps become attributes of a class, under their names, together with    *)
(* entry_step: of two with a name the later one stays.                      *)
Attributes(steps, entry) == NamesOf(steps) \ (IF entry = Omitted THEN {} ELSE {EntryStep})

StepNamed(steps, n) ==
  steps[CHOOSE i \in DOMAIN steps :
          steps[i].name = n /\ \A j \in DOMAIN steps : steps[j].name = n => j <= i]

First(steps, names) ==
  steps[CHOOSE i \in DOMAIN steps :
          /\ steps[i].name \in names
          /\ \A j \in DOMAIN steps : steps[j].name \in names => i <= j].name

(* Faulty variant of what follows: the mapping of a branch is not checked. *)
BranchesUnchecked(step, names) ==
  step.kind # "branch" => TargetsOf(step) \subseteq names \cup {End}
TransitionChecked(step, names) == TargetsOf(step) \subseteq names \cup {End}

(* A class without steps is not looked at further. *)
Compile ==
  LET names == Attributes(flow.steps, flow.entry)
      entry == IF flow.entry # Omitted THEN flow.entry
               ELSE IF EntryStep \in names THEN Nowhere \* a step, not a name
               ELSE First(flow.steps, names) IN
    /\ stage = "resolved"
    /\ CASE names = {} ->
              /\ flow' = [flow EXCEPT !.steps = <<>>, !.entry = Nowhere]
              /\ stage' = "compiled"
              /\ UNCHANGED <<source, registry, at, handoff>>
         [] /\ names # {}
            /\ \A n \in names : TransitionChecked(StepNamed(flow.steps, n), names)
            /\ entry \in names ->
              /\ flow' = [flow EXCEPT
                   !.steps = [n \in names |-> StepNamed(flow.steps, n)],
                   !.entry = entry]
              /\ stage' = "compiled"
              /\ UNCHANGED <<source, registry, at, handoff>>
         [] OTHER -> Reject("uncompiled")

-----------------------------------------------------------------------------
(* The constructor of the workflow *)

CompiledSteps == {flow.steps[n] : n \in DOMAIN flow.steps}
StepTools == {t \in Tools : \E s \in CompiledSteps : s.executor = {t}}
StepAgents == {a \in Agents : \E s \in CompiledSteps : s.executor = {a}}
ToolsOfSkills == UNION {SkillTools[k] : k \in source.skills \cap DOMAIN SkillTools}

(* register refuses a tool it has, and a second remote name; has looks for the *)
(* default version, so that a tool with another is registered at every step.   *)
RegisteredTwice ==
  \E t \in StepTools \cap Versioned :
    Cardinality({n \in DOMAIN flow.steps : flow.steps[n].executor = {t}}) > 1
RemoteNamesClash(tools) ==
  \E t, u \in tools : t # u /\ RemoteName[t] = RemoteName[u]

Findable == registry' \ Versioned
AllowListsResolve(found) == \A a \in StepAgents : AllowedTools[a] \subseteq found

(* validate_workflow looks up every tool on an allow list; the registry the    *)
(* frontends are given is not the one of the workflow.                      *)
Construct ==
  /\ stage = "compiled"
  /\ registry' = StepTools \cup ToolsOfSkills
  /\ stage' = IF \/ RegisteredTwice
                 \/ RemoteNamesClash(registry')
                 \/ ~AllowListsResolve(Findable)
              THEN "unconstructed" ELSE "ready"
  /\ UNCHANGED <<source, flow, at, handoff>>

-----------------------------------------------------------------------------
(* Running it *)

(* A member of the class that a step's name hides is missing to the run. *)
Start ==
  /\ stage = "ready" /\ at = Nowhere
  /\ at' = IF flow.entry = Nowhere \/ DOMAIN flow.steps \cap Shadowing # {}
           THEN "broken" ELSE flow.entry
  /\ UNCHANGED <<source, stage, flow, registry, handoff>>

Running == stage = "ready" /\ at \in DOMAIN flow.steps

(* What the output of the step proposes: a value for the router, a next step,  *)
(* a command's goto, and a handoff.                                         *)
Chosen(s, says) ==
  CASE s.kind \in {"then", "end"} -> TargetsOf(s)
    [] s.kind = "branch" -> {s.to[key] : key \in DOMAIN s.to \cap {says}}
    [] s.kind = "route_to" -> TargetsOf(s) \cap {Normalize(says)}

(* Faulty variant of what follows: goto names any step there is. *)
GotoAnywhere(s, goto) == {Normalize(goto)} \cap (DOMAIN flow.steps \cup {End})
Goto(s, goto) == TargetsOf(s) \cap {Normalize(goto)}

Accepts(next, agent) ==
  agent # Omitted => next # End /\ flow.steps[next].executor = {agent}

Says(s) == IF s.kind = "branch" THEN RouterValues ELSE StepNames

NextStep(says, goto, agent) ==
  LET s == flow.steps[at]
      chosen == IF goto = Omitted THEN Chosen(s, says) ELSE Goto(s, goto) IN
    /\ agent # Omitted => s.executor \in SUBSET Agents
    /\ \/ \E next \in chosen :
            /\ at' = IF next \notin DOMAIN flow.steps \cup {End} THEN "broken"
                     ELSE IF Accepts(next, agent) THEN next
                     ELSE "failed"
            /\ handoff' = agent
       \/ chosen = {} /\ at' = "failed" /\ handoff' = Omitted
    /\ UNCHANGED <<source, stage, flow, registry>>

(* A nested call looks the tool up by its name, at the default version. *)
CallTool(t) ==
  /\ Running
  /\ \E a \in flow.steps[at].executor \cap Agents : t \in AllowedTools[a]
  /\ at' = IF t \in registry \ Versioned THEN at ELSE "broken"
  /\ UNCHANGED <<source, stage, flow, registry, handoff>>

Next ==
  \/ LoadFlowConfig \/ ParseDsl \/ TakeSpec
  \/ ValidateFlowConfig \/ Resolve \/ Compile \/ Construct \/ Start
  \/ /\ Running
     /\ \E says \in Says(flow.steps[at]), goto \in StepNames \cup {Omitted},
           agent \in Agents \cup {Omitted} : NextStep(says, goto, agent)
  \/ \E t \in Tools : CallTool(t)

Spec == Init /\ [][Next]_vars

-----------------------------------------------------------------------------
(* Properties *)

(* A workflow that was accepted, whichever way it was written, never meets a   *)
(* step or a tool it does not have: what broke would have been rejected, but   *)
(* for a workflow without steps and one whose step hides a member of Workflow. *)
AcceptedFlowsWork ==
  at = "broken" => \/ DOMAIN flow.steps = {}
                   \/ DOMAIN flow.steps \cap Shadowing # {}

(* Whatever validate_flow_config accepts compiles to a class: the metaclass    *)
(* finds nothing more, unless a step is named entry_step.                   *)
ValidConfigsCompile ==
  [][(stage = "resolved" /\ source.form # "spec")
       => stage' = "compiled" \/ EntryStep \in NamesOf(flow.steps)]_vars

(* The same text in the DSL and as a config is accepted or rejected alike and  *)
(* gives the same steps, if no bracket is empty, no channel has an initial     *)
(* value without a reducer, and no step is named like the end (README.md:276 *)
(* makes no exceptions).                                                    *)
AsConfig == ConfigOf(source, source.steps)
ConfigAccepts ==
  /\ Shaped(source.steps)
  /\ ~Repeats(AsConfig.steps)
  /\ EntryKnown(source.entry, NamesOf(source.steps))
  /\ TargetsKnown(AsConfig.steps)

Plain ==
  /\ Shaped(source.steps)
  /\ \A i \in DOMAIN source.steps : source.steps[i].needs # {}
  /\ source.channel # [reducer |-> Omitted, initial |-> "value"]

SameAsConfig ==
  source.form = "dsl" =>
    /\ stage \in {"malformed", "invalid"} => ~ConfigAccepts
    /\ stage = "valid" =>
         /\ ConfigAccepts
         /\ flow.channel = AsConfig.channel
         /\ \A i \in DOMAIN flow.steps :
              /\ TargetsOf(flow.steps[i]) = TargetsOf(AsConfig.steps[i])
              /\ flow.steps[i].needs = AsConfig.steps[i].needs

FrontendsAgree == Plain => SameAsConfig

(* Neither an output nor a command takes a run anywhere the transition of its  *)
(* step does not name, and a handoff arrives at the agent it names.          *)
MovesAreDeclared ==
  [][(Running /\ at' \in DOMAIN flow.steps \cup {End}) =>
       /\ at' \in TargetsOf(flow.steps[at])
       /\ (handoff' # Omitted => at' # End /\ handoff' \in flow.steps[at'].executor)
    ]_vars
=============================================================================
