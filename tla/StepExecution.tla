---------------------------- MODULE StepExecution ----------------------------
(***************************************************************************)
(* What the runtime does between the approval gate of a step and the commit    *)
(* of its output: policies, the tool or agent, an agent's nested tool calls,   *)
(* and execution in the remote sandbox (governai/runtime/local.py, agents/,    *)
(* tools/, policies/, extensions/remote.py, sandbox/service.py).  Steps of     *)
(* several runs execute concurrently and share one HTTP client.              *)
(*                                                                         *)
(* An activity <<e, 0>> is the executor of step e, <<e, k>> the k-th tool call *)
(* of its agent.                                                            *)
(***************************************************************************)
EXTENDS Naturals, Sequences, FiniteSets

CONSTANTS Steps, Tools, Agents,
          Placement,    \* execution_placement of each tool and agent
          Asking,       \* the tools with requires_approval
          Ungranted,    \* those with a capability nobody granted
          Policies,     \* the policies of the workflow in order, of PolicyKinds
          Script,       \* the tools an agent's handler calls, in order
          AllowedTools, \* allowed_tools of each agent
          MaxToolCalls, \* max_tool_calls of each agent
          Style,        \* how its handler calls them, of Styles
          Candidates,   \* the executors a step may have
          Containments, \* the containment modes
          RetryAttempts, FailMax, ResetAfter, \* of the HTTP client
          MaxCalls      \* bound on the tool calls of a step

PolicyKinds == {"custom", "capability"}
Styles == {"serial", "gather", "loop"}
Executors == Tools \cup Agents
Activities == Steps \X (0 .. MaxCalls)

ASSUME StepConstants ==
  /\ RetryAttempts \in Nat /\ FailMax \in Nat /\ ResetAfter \in Nat
  /\ Policies \in Seq(PolicyKinds) \ {<<>>}
  /\ Placement \in [Executors -> {"local_only", "local_or_remote", "remote_only"}]
  /\ MaxCalls \in Nat /\ {"refused", "finished", "none"} \cap Tools = {}
  /\ Tools \cap Agents = {}
  /\ \A x \in Agents : /\ Style[x] \in Styles
                      /\ Script[x] \in Seq(Tools) /\ Len(Script[x]) <= MaxCalls
                      /\ MaxToolCalls[x] \in 0 .. MaxCalls

VARIABLES runtime,  \* containment_mode, and whether there is a remote adapter
          executor, \* the executor of each step
          act,      \* each activity
          agent,    \* what the handler, or the loop of remote turns, remembers
          circuit, request, late

vars == <<runtime, executor, act, agent, circuit, request, late>>

INSTANCE HTTPClient WITH Requests <- Activities

(* onHost and remotely count the executions of the handler or command; resends *)
(* the requests sent again.                                                 *)
NoActivity == [pc |-> "idle", tool |-> "none", verdicts |-> <<>>,
               onHost |-> 0, remotely |-> 0, resends |-> 0]

NoAgent == [next |-> 1, used |-> 0, resume |-> "none", trouble |-> FALSE]

Init ==
  /\ runtime \in [containment : Containments, adapter : BOOLEAN]
  /\ executor \in {f \in [Steps -> Executors] : \A e \in Steps : f[e] \in Candidates[e]}
  /\ act = [a \in Activities |-> NoActivity]
  /\ agent = [e \in Steps |-> NoAgent]
  /\ HTTPInit

TopOf(e) == <<e, 0>>
IsTop(a) == a[2] = 0
UsesAgent(e) == executor[e] \in Agents
ExecutorOf(a) == IF IsTop(a) THEN executor[a[1]] ELSE act[a].tool

Ended == {"ok", "failed", "approval", "contained"}

(* An activity moves on, by itself or as its HTTP request does. *)
Move(a, pc) == act' = [act EXCEPT ![a].pc = pc]

-----------------------------------------------------------------------------
(* Containment *)

StrictRemote == runtime.containment = "strict_remote"

(* Faulty variant of what follows: the tools of an agent are left out. *)
InvolvedTop(e) == {executor[e]}
Involved(e) ==
  {executor[e]} \cup IF UsesAgent(e) THEN AllowedTools[executor[e]] ELSE {}

(* validate_workflow, when the workflow is constructed. *)
ValidateWorkflow(e) ==
  /\ act[TopOf(e)].pc = "idle"
  /\ LET local == {x \in Involved(e) : Placement[x] = "local_only"} IN
       IF \/ StrictRemote /\ local # {}
          \/ Involved(e) \ local # {} /\ ~runtime.adapter
       THEN Move(TopOf(e), "rejected")
       ELSE Move(TopOf(e), "policies")
  /\ UNCHANGED <<runtime, executor, agent, circuit, request, late>>

ExecutesRemotely(x) ==
  \/ Placement[x] = "remote_only"
  \/ Placement[x] = "local_or_remote" /\ StrictRemote

LateRefusal(x) ==
  \/ StrictRemote /\ Placement[x] = "local_only"
  \/ ExecutesRemotely(x) /\ ~runtime.adapter

-----------------------------------------------------------------------------
(* Policies *)

(* A policy that raises, or is stopped by its timeout, denies.  Faulty variant: *)
(* one that raises is passed over.                                          *)
AllowsOnError(verdict) == verdict \in {"allow", "raise"}
Allows(verdict) == verdict = "allow"

Verdicts(policy, x) ==
  IF policy = "custom" THEN {"allow", "deny", "raise", "timeout"}
  ELSE {IF x \in Ungranted THEN "deny" ELSE "allow"}

(* The policies are asked one after the other and the first that does not      *)
(* allow the activity ends it.  A nested call of a tool that requires an       *)
(* approval then asks for it, whatever was approved before.                  *)
EvaluatePolicy(a) ==
  LET asked == Len(act[a].verdicts) + 1
      x == ExecutorOf(a) IN
    /\ act[a].pc = "policies"
    /\ \E v \in Verdicts(Policies[asked], x) :
         act' = [act EXCEPT ![a].verdicts = Append(@, v),
                            ![a].pc =
           IF ~Allows(v) THEN "failed"
           ELSE IF asked < Len(Policies) THEN "policies"
           ELSE IF ~IsTop(a) /\ x \in Asking THEN "approval" ELSE "started"]
    /\ UNCHANGED <<runtime, executor, agent, circuit, request, late>>

-----------------------------------------------------------------------------
(* Where an activity executes *)

(* A remote activity posts to the sandbox, and fails at once while the circuit *)
(* is open.                                                                 *)
Post(a) ==
  \/ Admit(a) /\ Move(a, "remote")
  \/ Refuse(a) /\ act' = [act EXCEPT ![a].pc = "failed"]

(* An agent, and what is remote, has its input checked before anything runs. *)
Start(a) ==
  LET x == ExecutorOf(a) IN
    /\ act[a].pc = "started"
    /\ \/ /\ LateRefusal(x)
          /\ Move(a, "contained")
          /\ UNCHANGED <<circuit, request, late>>
       \/ /\ ~LateRefusal(x)
          /\ ExecutesRemotely(x) \/ x \in Agents
          /\ Move(a, "failed")
          /\ UNCHANGED <<circuit, request, late>>
       \/ /\ ~LateRefusal(x)
          /\ ExecutesRemotely(x)
          /\ Post(a)
       \/ /\ ~LateRefusal(x)
          /\ ~ExecutesRemotely(x)
          /\ act' = [act EXCEPT ![a].pc = "calling",
                                ![a].onHost = IF x \in Agents THEN 1 ELSE @]
          /\ UNCHANGED <<circuit, request, late>>
    /\ agent' = IF act'[a].pc = "failed"
                THEN [agent EXCEPT ![a[1]].trouble = TRUE] ELSE agent
    /\ UNCHANGED <<runtime, executor>>

(* A tool on the host: its input is refused, it raises (or its output is       *)
(* refused), or it returns; a nested call may not return a command.          *)
RunOnHost(a) ==
  /\ act[a].pc = "calling"
  /\ ExecutorOf(a) \in Tools
  /\ \E outcome \in {"invalid", "raises", "command", "output"} :
       act' = [act EXCEPT
         ![a].onHost = IF outcome = "invalid" THEN @ ELSE @ + 1,
         ![a].pc = IF outcome = "output" \/ (outcome = "command" /\ IsTop(a))
                   THEN "ok" ELSE "failed"]
  /\ UNCHANGED <<runtime, executor, agent, circuit, request, late>>

(* Whether an answer may, or must, come from a sandbox that executed the       *)
(* handler: a proxy in between may answer for it, and a timeout says nothing.  *)
MayHaveRun(answer) ==
  CASE answer \in {"unreachable", "refused"} -> {0}
    [] answer = "ok" -> {1}
    [] OTHER -> {0, 1}

(* The request of an activity is answered: it is tried again after a pause,    *)
(* or raises, or returns a body.                                            *)
Exchange(a, answer, onBody) ==
  /\ act[a].pc = "remote"
  /\ Answer(a, answer)
  /\ \E ran \in MayHaveRun(answer) :
       CASE request'[a].pc = "backoff" ->
              /\ act' = [act EXCEPT ![a].remotely = @ + ran]
              /\ UNCHANGED agent
         [] request'[a].pc = "idle" /\ answer # "ok" ->
              /\ act' = [act EXCEPT ![a].remotely = @ + ran, ![a].pc = "failed"]
              /\ agent' = [agent EXCEPT ![a[1]].trouble = TRUE]
         [] OTHER -> onBody
  /\ UNCHANGED <<runtime, executor>>

Backoff(a) ==
  /\ Resend(a)
  /\ act' = [act EXCEPT ![a].resends = @ + 1]
  /\ UNCHANGED <<runtime, executor, agent>>

(* The sandbox executed the tool, or reports why not (not_found, a validation  *)
(* error or whatever the tool raised); the body may not be what it should.   *)
ToolAnswered(a) ==
  \E body \in {"output", "error", "not_found", "malformed"} :
    /\ act' = [act EXCEPT
         ![a].remotely = IF body = "not_found" THEN @ ELSE @ + 1,
         ![a].pc = IF body = "output" THEN "ok" ELSE "failed"]
    /\ UNCHANGED agent

RemoteTool(a) ==
  /\ ExecutorOf(a) \in Tools
  /\ \E answer \in Answers : Exchange(a, answer, ToolAnswered(a))

-----------------------------------------------------------------------------
(* Agents on the host *)

Called(e) == {k \in 1 .. MaxCalls : act[<<e, k>>].pc # "idle"}
CallsEnded(e) == \A k \in Called(e) : act[<<e, k>>].pc \in Ended
CallsOk(e) == \A k \in Called(e) : act[<<e, k>>].pc = "ok"
AllIssued(e) == agent[e].next > Len(Script[executor[e]])

HandlerRuns(e) == UsesAgent(e) /\ act[TopOf(e)].pc = "calling"

(* An agent that awaits its calls one by one stops at the first that fails;    *)
(* asyncio.gather starts them all; GovernedToolCallLoop turns a failure into   *)
(* a message and goes on.  Faulty variant: nobody waits for a call.           *)
NextCallDueAtOnce(e) == TRUE
NextCallDue(e) ==
  CASE Style[executor[e]] = "serial" -> CallsOk(e)
    [] Style[executor[e]] = "gather" -> TRUE
    [] Style[executor[e]] = "loop" -> CallsEnded(e)

(* use_tool checks and counts before it awaits; the loop calls the runtime's   *)
(* execute_named_tool itself, without allow list and limit.  Faulty variant:    *)
(* > for >=.                                                                *)
MayUseOneMore(e, tool) ==
  \/ Style[executor[e]] = "loop"
  \/ /\ tool \in AllowedTools[executor[e]]
     /\ agent[e].used <= MaxToolCalls[executor[e]]
MayUse(e, tool) ==
  \/ Style[executor[e]] = "loop"
  \/ /\ tool \in AllowedTools[executor[e]]
     /\ agent[e].used < MaxToolCalls[executor[e]]

UseTool(e) ==
  LET k == agent[e].next
      tool == Script[executor[e]][k] IN
    /\ HandlerRuns(e)
    /\ ~AllIssued(e)
    /\ NextCallDue(e)
    /\ act' = [act EXCEPT ![<<e, k>>].tool = tool,
                          ![<<e, k>>].pc = IF MayUse(e, tool) THEN "policies" ELSE "failed"]
    /\ agent' = [agent EXCEPT ![e].next = k + 1,
                              ![e].used = IF MayUse(e, tool) THEN @ + 1 ELSE @]
    /\ UNCHANGED <<runtime, executor, circuit, request, late>>

(* The handler raises what a call raised, without stopping the others.  Faulty  *)
(* variant: only once it has issued every call.                              *)
RaisesAtItsEnd(e) == AllIssued(e)
RaisesNow(e) ==
  /\ Style[executor[e]] # "loop"
  /\ Style[executor[e]] = "gather" => AllIssued(e)

HandlerRaises(e) ==
  /\ HandlerRuns(e)
  /\ RaisesNow(e)
  /\ \E k \in Called(e) :
       /\ act[<<e, k>>].pc \in Ended \ {"ok"}
       /\ Move(TopOf(e), act[<<e, k>>].pc)
  /\ UNCHANGED <<runtime, executor, agent, circuit, request, late>>

(* What the runtime makes of the status of an AgentResult, or of one it cannot  *)
(* accept.                                                                  *)
AgentOutcomes == {"ok", "failed", "approval"}

HandlerReturns(e) ==
  /\ HandlerRuns(e)
  /\ AllIssued(e)
  /\ IF Style[executor[e]] = "loop" THEN CallsEnded(e) ELSE CallsOk(e)
  /\ \E pc \in AgentOutcomes : Move(TopOf(e), pc)
  /\ UNCHANGED <<runtime, executor, agent, circuit, request, late>>

-----------------------------------------------------------------------------
(* Agents in the sandbox *)

(* Each turn executes the handler from its beginning.  Its use_tool returns    *)
(* the result that came with the request, once, to the call of that name, and  *)
(* otherwise ends the turn with a request for the call.                      *)
Refusal == "refused"
Finished == "finished"

Asks(e, call) ==
  IF call > Len(Script[executor[e]]) THEN Finished
  ELSE IF \/ Script[executor[e]][call] \notin AllowedTools[executor[e]]
          \/ agent[e].used >= MaxToolCalls[executor[e]] THEN Refusal
  ELSE Script[executor[e]][call]

(* Faulty variant of what follows: the result is not handed over. *)
ReplayForgetful(e) == Asks(e, 1)
Replay(e) ==
  IF agent[e].resume = "none" \/ Script[executor[e]] = <<>> THEN Asks(e, 1)
  ELSE IF Script[executor[e]][1] = agent[e].resume THEN Asks(e, 2)
  ELSE Refusal

(* A requested call becomes the next activity of the step. *)
TurnAnswered(e) ==
  LET top == TopOf(e)
      requested == Replay(e) IN
    \/ /\ requested \in Tools
       /\ agent[e].used < MaxToolCalls[executor[e]]
       /\ act' = [act EXCEPT ![top].pc = "awaiting", ![top].remotely = @ + 1,
                             ![<<e, agent[e].used + 1>>] =
                               [@ EXCEPT !.tool = requested, !.pc = "policies",
                                         !.verdicts = <<>>]]
       /\ agent' = [agent EXCEPT ![e].resume = "none"]
    \/ /\ \/ requested = Refusal
          \/ requested \in Tools /\ agent[e].used >= MaxToolCalls[executor[e]]
       /\ act' = [act EXCEPT ![top].pc = "failed", ![top].remotely = @ + 1]
       /\ UNCHANGED agent
    \/ /\ requested = Finished
       /\ act' = [act EXCEPT ![top].pc = "ok", ![top].remotely = @ + 1]
       /\ UNCHANGED agent
    \/ \E pc \in {"approval", "failed"} : \* the handler or the body is in the way
         /\ act' = [act EXCEPT ![top].pc = pc, ![top].remotely = @ + 1]
         /\ agent' = [agent EXCEPT ![e].trouble = TRUE]

RemoteTurn(e) ==
  /\ UsesAgent(e)
  /\ \E answer \in Answers : Exchange(TopOf(e), answer, TurnAnswered(e))

(* Faulty variant of what follows: the call is not counted. *)
AfterUncounted(e, call) == [agent[e] EXCEPT !.resume = call.tool]
AfterCall(e, call) == [agent[e] EXCEPT !.used = @ + 1, !.resume = call.tool]

(* The loop of _execute_agent_remote goes on with the result of the call, or   *)
(* raises what it raised.                                                   *)
NextTurn(e) ==
  LET call == act[<<e, agent[e].used + 1>>] IN
    /\ act[TopOf(e)].pc = "awaiting"
    /\ call.pc \in Ended
    /\ IF call.pc = "ok"
       THEN /\ Post(TopOf(e))
            /\ agent' = [agent EXCEPT ![e] =
                 [AfterCall(e, call) EXCEPT !.trouble = act'[TopOf(e)].pc = "failed"]]
       ELSE /\ Move(TopOf(e), call.pc)
            /\ agent' = [agent EXCEPT ![e].trouble = TRUE]
            /\ UNCHANGED <<circuit, request, late>>
    /\ UNCHANGED <<runtime, executor>>

-----------------------------------------------------------------------------
Work(a) ==
  EvaluatePolicy(a) \/ Start(a) \/ RunOnHost(a) \/ RemoteTool(a) \/ Backoff(a)

Handle(e) ==
  \/ ValidateWorkflow(e)
  \/ UseTool(e) \/ HandlerRaises(e) \/ HandlerReturns(e)
  \/ RemoteTurn(e) \/ NextTurn(e)

ClockTicks == PassTime /\ UNCHANGED <<runtime, executor, act, agent>>

Next == \/ \E a \in Activities : Work(a)
        \/ \E e \in Steps : Handle(e)
        \/ ClockTicks

(* The event loop serves every task that can go on; policies have timeouts,    *)
(* tools and handlers return, and an attempt ends with the client's timeout.   *)
Fairness == /\ \A a \in Activities : WF_vars(Work(a))
            /\ \A e \in Steps : WF_vars(Handle(e))

Spec == Init /\ [][Next]_vars /\ Fairness

-----------------------------------------------------------------------------
(* Properties *)

Ran(a) == act[a].onHost + act[a].remotely > 0
Top(e) == act[TopOf(e)]

(* Nothing executes, in the sandbox or on the host, at the top or nested, for  *)
(* the first time or again, unless every policy was asked about it and said    *)
(* allow (_run_policy_isolated denies for a policy that raises or hangs), its  *)
(* capabilities are granted and, if nested, it needs no approval.            *)
GovernedEffects ==
  \A a \in Activities :
    Ran(a) => /\ Len(act[a].verdicts) = Len(Policies)
              /\ \A i \in DOMAIN Policies : act[a].verdicts[i] = "allow"
              /\ "capability" \in {Policies[i] : i \in DOMAIN Policies}
                   => ExecutorOf(a) \notin Ungranted
              /\ ~IsTop(a) => ExecutorOf(a) \notin Asking

(* Under strict_remote nothing executes on the host, and what is remote_only   *)
(* never does, however deep it is called.                                   *)
Contained ==
  \A a \in Activities :
    act[a].onHost > 0 => ~StrictRemote /\ Placement[ExecutorOf(a)] # "remote_only"

(* A workflow whose placements validate_workflow accepted is not refused for   *)
(* its placements when it executes (docs/sandbox.md:76), unless the agent      *)
(* reaches past its allow list with GovernedToolCallLoop.                    *)
NoLateRefusal ==
  \A e \in Steps, k \in 0 .. MaxCalls :
    act[<<e, k>>].pc = "contained"
      => UsesAgent(e) /\ Style[executor[e]] = "loop"

(* However its calls overlap, and wherever it executes, an agent gets at most  *)
(* max_tool_calls calls, all of tools it is allowed.                        *)
CallsWithinLimit ==
  \A e \in Steps :
    UsesAgent(e) /\ Style[executor[e]] # "loop" =>
      LET served == {k \in Called(e) : act[<<e, k>>].verdicts # <<>>} IN
        /\ Cardinality(served) <= MaxToolCalls[executor[e]]
        /\ \A k \in served : act[<<e, k>>].tool \in AllowedTools[executor[e]]

(* A tool call executes more than once only if its request was sent again.     *)
TwiceOnlyByRetry ==
  \A a \in Activities :
    ExecutorOf(a) \in Tools =>
      act[a].onHost + act[a].remotely <= 1 + act[a].resends

(* A remote agent with one call completes unless something really failed: a    *)
(* policy, the call, the network, the handler.                              *)
WithinLimits(x) ==
  /\ Len(Script[x]) <= MaxToolCalls[x]
  /\ \A i \in DOMAIN Script[x] : Script[x][i] \in AllowedTools[x]

OneCallAgentsFinish ==
  \A e \in Steps :
    /\ UsesAgent(e) /\ Top(e).remotely > 0 /\ Top(e).pc = "failed"
    /\ WithinLimits(executor[e]) /\ Len(Script[executor[e]]) <= 1
    => agent[e].trouble

(* The same for an agent with several calls within its max_tool_calls. *)
AgentsWithinLimitsFinish ==
  \A e \in Steps :
    /\ UsesAgent(e) /\ Top(e).remotely > 0 /\ Top(e).pc = "failed"
    /\ WithinLimits(executor[e])
    => agent[e].trouble

(* Nothing of a step goes on once the step has ended, unless its handler       *)
(* gathers calls: when one raises, the others are not stopped and execute      *)
(* after the run has failed.                                                *)
NothingOutlivesItsStep ==
  \A e \in Steps :
    Top(e).pc \in Ended /\ ~CallsEnded(e)
      => UsesAgent(e) /\ Style[executor[e]] = "gather"

(* An open circuit spares the sandbox: all that is still sent to it are the    *)
(* retries of the requests that were under way.                             *)
OpenCircuitSpares ==
  late.sent <= (Attempts - 1) * late.under

(* Every step is rejected, or executes to an end. *)
EveryStepEnds == \A e \in Steps : <>(Top(e).pc \in Ended \cup {"rejected"})
=============================================================================
