----------------------------- MODULE RunServices -----------------------------
(***************************************************************************)
(* What LocalRuntime keeps beside the states of its runs: thread records, the  *)
(* memory with its audit events and secrets, and channels.  They share        *)
(* nothing but the names of runs and threads, so the application is followed   *)
(* while it uses one of them.                                               *)
(***************************************************************************)
EXTENDS ThreadStore, Memory, Channels

CONSTANTS MaxThreadRuns, \* bound on the runs added to a thread
          MaxWidth       \* bound on the channels a command writes

VARIABLE uses \* the service the application uses

vars == <<uses, threadVars, memoryVars, channelVars>>

Init ==
  /\ uses \in {"threads", "memory", "channels"}
  /\ ThreadsInit /\ MemoryInit /\ ChannelsInit

UseThreads ==
  /\ \E t \in Threads :
       \/ CreateThread(t) \/ ArchiveThread(t)
       \/ \E status \in ThreadStatus : TransitionThread(t, status)
       \/ \E r \in Runs : Len(threads[t].runs) < MaxThreadRuns /\ AddRunId(t, r)
       \/ \E record \in archiving : EmitArchived(record)
  /\ UNCHANGED <<memoryVars, channelVars>>

UseMemory ==
  /\ \E k \in Tasks :
       \/ \E kind \in {"read", "write", "delete"}, scope \in Scopes,
            target \in ExplicitTargets \cup {None}, key \in Keys,
            says \in SUBSET Secrets, secrets \in SUBSET Secrets :
            /\ kind # "write" => secrets = {}
            /\ kind # "read" => says = {} \* a query is in its event
            /\ Begin(k, kind, scope, target, key, says, secrets)
       \/ Read(k) \/ Write(k) \/ WriteLater(k) \/ Delete(k) \/ Emit(k)
       \/ \E s \in Secrets : ResolveSecret(k, s)
  /\ UNCHANGED <<threadVars, channelVars>>

UseChannels ==
  /\ \/ \E n \in 0 .. MaxWidth :
          \E update \in [1 .. n -> ChannelNames \X Updates] :
            /\ commands < MaxUpdates
            /\ \A i, j \in 1 .. n : i # j => update[i][1] # update[j][1]
            /\ ApplyStateUpdate(update)
     \/ RestoreChannels
  /\ UNCHANGED <<threadVars, memoryVars>>

Next ==
  /\ \/ uses = "threads" /\ UseThreads
     \/ uses = "memory" /\ UseMemory
     \/ uses = "channels" /\ UseChannels
  /\ UNCHANGED uses

Spec == Init /\ [][Next]_vars

=============================================================================
