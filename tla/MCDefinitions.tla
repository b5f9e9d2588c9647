---------------------------- MODULE MCDefinitions ----------------------------
(***************************************************************************)
(* Definitions for TLC: every transition of a first step with a few second     *)
(* steps and entries, and every choice of executors, artifacts, policies,      *)
(* skills and channels for one transition.                                  *)
(***************************************************************************)
EXTENDS Definitions, TLC

CONSTANTS a, b, missing, lower, run, entryName, noneName, \* written names
          tool, newer, twin, unknown,                     \* tools
          agent, needy,                                   \* agents
          known, other                                    \* policies and skills

Names == {a, b, missing, lower, run, entryName, noneName}

Step(name, executor, needs, kind, to) ==
  [name |-> name, executor |-> executor, needs |-> needs, kind |-> kind, to |-> to]
Flow(form, steps, entry, policies, skills, channel) ==
  [form |-> form, steps |-> steps, entry |-> entry, policies |-> policies,
   skills |-> skills, channel |-> channel]

Forms == {"config", "dsl", "spec"}
NoChannel == [reducer |-> Omitted, initial |-> Omitted]
Refs == {a, b, missing, lower}

ToNothing == <<>>
Transitions ==
  {<<"end", ToNothing>>}
    \cup {<<kind, to>> : kind \in {"then", "branch", "route_to"}, to \in [{1} -> Refs]}
    \cup {<<kind, to>> : kind \in {"branch", "route_to"}, to \in [{1, 2} -> Refs]}
    \cup {<<kind, ToNothing>> : kind \in {"branch", "route_to"}}

(* The DSL has no way to write a step without exactly one executor. *)
Shapes ==
  {Flow(form, <<Step(a, {agent}, Unwritten, t[1], t[2]),
                Step(second, {x}, Unwritten, "then", <<back>>)>>,
        entry, {}, {}, NoChannel) :
     form \in Forms, t \in Transitions, second \in {a, b, lower, run, entryName},
     x \in {tool, agent}, back \in {a, lower}, entry \in {Omitted, b, missing}}

Contents ==
  {d \in {Flow(form, <<Step(a, x, needs, "then", <<b>>),
                       Step(b, y, Unwritten, "end", ToNothing)>>,
               Omitted, policies, skills, channel) :
            form \in Forms,
            x \in {{tool}, {newer}, {unknown}, {needy}, {tool, agent}, {}},
            y \in {{tool}, {newer}, {twin}, {agent}},
            needs \in {Unwritten, {}, {a}},
            policies \in {{}, {known}, {other}}, skills \in {{}, {known}, {other}},
            channel \in [reducer : Values, initial : Values]} :
     d.form = "dsl" => Cardinality(d.steps[1].executor) = 1}

AllDefinitions ==
  Shapes \cup Contents
    \cup {Flow(form, <<>>, entry, {}, {}, NoChannel) :
            form \in Forms, entry \in {Omitted, a}}

Allow == [x \in Agents |-> IF x = needy THEN {tool, twin} ELSE {}]
Skills == known :> {twin}
Remote == [t \in Tools |-> IF t = newer THEN twin ELSE t]
=============================================================================
