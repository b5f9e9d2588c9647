SPECIFICATION Spec
CONSTANTS
  a = a
  b = b
  missing = missing
  lower = lower
  run = run
  entryName = entryName
  noneName = noneName
  tool = tool
  newer = newer
  twin = twin
  unknown = unknown
  agent = agent
  needy = needy
  known = known
  other = other
  Definitions <- AllDefinitions
  StepNames <- Names
  EndSpellings = {lower}
  RouterValues = {1, 2}
  EntryStep = entryName
  NoneText = noneName
  Shadowing = {run}
  Tools = {tool, newer, twin, unknown}
  Agents = {agent, needy}
  KnownTools = {tool, newer, twin}
  KnownAgents = {agent, needy}
  KnownNames = {known}
  AllowedTools <- Allow
  SkillTools <- Skills
  Versioned = {newer}
  RemoteName <- Remote
INVARIANTS
  AcceptedFlowsWork
  FrontendsAgree
PROPERTIES
  ValidConfigsCompile
  MovesAreDeclared
CHECK_DEADLOCK FALSE
