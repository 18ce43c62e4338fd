----------------------------- MODULE PluginHost -----------------------------
(***************************************************************************)
(* Plugin processes, their JSON-RPC transport and their generations        *)
(* (pluginhost/rpc.go, manager.go), with the tool calls of agent runs that *)
(* use them.                                                               *)
(*                                                                         *)
(* For each process there is a reader goroutine, one that waits for the    *)
(* process and one that watches its health; each tool call runs in a       *)
(* goroutine of its run; a reload or the close of the manager retires a    *)
(* generation.  A generation is modelled with one plugin.                  *)
(***************************************************************************)
EXTENDS Integers, Sequences, FiniteSets

CONSTANTS Plugins,      \* bound: plugin processes started
          Calls,        \* tool calls, each of a run of its own
          None,
          MaxProgress   \* bound: progress notifications of one call

VARIABLES generation,   \* the published plugin, or None
          closed,       \* of the manager
          lifecycle,    \* who holds lifecycleMu: a reload or a close, what it has staged
                        \* and the plugin it retires
          plugin,       \* loadedPlugin and rpcClient of each
          pending,      \* plugin -> calls that are registered with its transport
          wire,         \* plugin -> messages from it that the reader has not read
          reader,       \* plugin -> call whose progress callback the reader is about to run
          call,         \* of each tool call
          panicked      \* a callback sent on a closed channel

pluginVars == <<generation, closed, lifecycle, plugin, pending, wire, reader, call, panicked>>

NoLifecycle == [at |-> "idle", op |-> None, staged |-> None, old |-> None, expired |-> FALSE]

Init ==
  /\ generation = None
  /\ closed = FALSE
  /\ lifecycle = [NoLifecycle EXCEPT !.at = "staging", !.op = "reload"]
  /\ plugin = [p \in Plugins |->
       [status |-> "unused", alive |-> FALSE, terminated |-> FALSE, retiring |-> FALSE,
        closing |-> FALSE, exited |-> FALSE, received |-> {}]]
  /\ pending = [p \in Plugins |-> {}]
  /\ wire = [p \in Plugins |-> <<>>]
  /\ reader = [p \in Plugins |-> None]
  /\ call = [c \in Calls |-> [at |-> "idle", plugin |-> None, cancelled |-> FALSE,
                              answer |-> FALSE, progress |-> 0, result |-> None, run |-> "open"]]
  /\ panicked = FALSE

\* activeCalls of a plugin: between acquire and release.
ActiveCalls(p) == {c \in Calls : call[c].plugin = p /\ call[c].at \in {"acquired", "registered", "waits"}}

-----------------------------------------------------------------------------
(* A tool call. *)

acquireWhileRunning(c, p) ==
  /\ call[c].at = "idle" /\ plugin[p].status \notin {"unused", "staged"}
  /\ p # lifecycle.staged
  /\ call' = [call EXCEPT ![c].plugin = p,
       ![c].at = IF plugin[p].status \in {"failed", "stopped"} THEN "returned" ELSE "acquired",
       ![c].result = "error"]
  /\ UNCHANGED <<generation, closed, lifecycle, plugin, pending, wire, reader, panicked>>

\* A run keeps the tools of the generation it took: a plugin that was published.
acquire(c, p) ==
  /\ call[c].at = "idle" /\ plugin[p].status \notin {"unused", "staged"}
  /\ p # lifecycle.staged
  /\ call' = [call EXCEPT ![c].plugin = p,
       ![c].at = IF plugin[p].retiring \/ plugin[p].status \in {"failed", "stopped"}
                 THEN "returned" ELSE "acquired",
       ![c].result = "error"]
  /\ UNCHANGED <<generation, closed, lifecycle, plugin, pending, wire, reader, panicked>>

\* Registered under a fresh id, unless the transport has ended.
Register(c) ==
  LET p == call[c].plugin
  IN /\ call[c].at = "acquired"
     /\ call' = [call EXCEPT ![c].at = IF plugin[p].terminated THEN "returned" ELSE "registered"]
     /\ pending' = IF plugin[p].terminated THEN pending ELSE [pending EXCEPT ![p] = @ \cup {c}]
     /\ UNCHANGED <<generation, closed, lifecycle, plugin, wire, reader, panicked>>

\* terminate: the transport ends and every pending call is let go.
Terminated(p) ==
  /\ plugin' = [plugin EXCEPT ![p].terminated = TRUE]
  /\ pending' = [pending EXCEPT ![p] = IF plugin[p].terminated THEN @ ELSE {}]

\* The request is written, or the pipe is broken.
Write(c) ==
  LET p == call[c].plugin
  IN /\ call[c].at = "registered"
     /\ \/ /\ plugin[p].alive
           /\ plugin' = [plugin EXCEPT ![p].received = @ \cup {c}]
           /\ call' = [call EXCEPT ![c].at = "waits"]
           /\ UNCHANGED pending
        \/ /\ ~plugin[p].alive \/ plugin[p].closing
           /\ plugin' = [plugin EXCEPT ![p].terminated = TRUE]
           /\ pending' = [pending EXCEPT ![p] = IF plugin[p].terminated THEN @ \ {c} ELSE {}]
           /\ call' = [call EXCEPT ![c].at = "returned"]
     /\ UNCHANGED <<generation, closed, lifecycle, wire, reader, panicked>>

Cancel(c) ==
  /\ call[c].at \in {"acquired", "registered", "waits"} /\ ~call[c].cancelled
  /\ call' = [call EXCEPT ![c].cancelled = TRUE]
  /\ UNCHANGED <<generation, closed, lifecycle, plugin, pending, wire, reader, panicked>>

\* The select of callWithProgress; release follows.  A call that finds the
\* transport ended looks for its answer once more.
Return(c) ==
  LET p == call[c].plugin
  IN /\ call[c].at = "waits"
     /\ \/ call[c].answer /\ call' = [call EXCEPT ![c].at = "returned", ![c].result = "ok"]
        \/ call[c].cancelled /\ call' = [call EXCEPT ![c].at = "returned", ![c].result = "cancelled"]
        \/ /\ plugin[p].terminated
           /\ call' = [call EXCEPT ![c].at = "returned",
                                   ![c].result = IF call[c].answer THEN "ok" ELSE "error"]
     /\ pending' = [pending EXCEPT ![p] = @ \ {c}]
     /\ UNCHANGED <<generation, closed, lifecycle, plugin, wire, reader, panicked>>

\* Run returns: the channel of its events is closed.
RunEnds(c) ==
  /\ call[c].at = "returned" /\ call[c].run = "open"
  /\ call' = [call EXCEPT ![c].run = "ended"]
  /\ UNCHANGED <<generation, closed, lifecycle, plugin, pending, wire, reader, panicked>>

-----------------------------------------------------------------------------
(* The process and the goroutines of its transport. *)

PluginAnswers(p) ==
  \E c \in plugin[p].received :
    /\ plugin[p].alive
    /\ wire' = [wire EXCEPT ![p] = Append(@, [type |-> "response", call |-> c])]
    /\ plugin' = [plugin EXCEPT ![p].received = @ \ {c}]
    /\ UNCHANGED <<generation, closed, lifecycle, pending, reader, call, panicked>>

PluginReports(p) ==
  \E c \in plugin[p].received :
    /\ plugin[p].alive /\ call[c].progress < MaxProgress
    /\ wire' = [wire EXCEPT ![p] = Append(@, [type |-> "progress", call |-> c])]
    /\ call' = [call EXCEPT ![c].progress = @ + 1]
    /\ UNCHANGED <<generation, closed, lifecycle, plugin, pending, reader, panicked>>

\* The process ends, by itself, by a kill or because its stdin was closed.
\* What it had written last is lost when cmd.Wait closes the pipe first.
PluginDies(p) ==
  \E kept \in 0..Len(wire[p]) :
    /\ plugin[p].alive
    /\ plugin' = [plugin EXCEPT ![p].alive = FALSE, ![p].received = {}]
    /\ wire' = [wire EXCEPT ![p] = SubSeq(@, 1, kept)]
    /\ UNCHANGED <<generation, closed, lifecycle, pending, reader, call, panicked>>

\* handleMessage: the reader takes one message.  The pending call of a progress
\* notification is looked up under the lock and called without it.
ReadMessage(p) ==
  LET message == Head(wire[p])
      known == message.call \in pending[p]
  IN /\ wire[p] # <<>> /\ reader[p] = None
     /\ wire' = [wire EXCEPT ![p] = Tail(@)]
     /\ \/ /\ message.type = "response"
           /\ pending' = [pending EXCEPT ![p] = @ \ {message.call}]
           /\ call' = IF known THEN [call EXCEPT ![message.call].answer = TRUE] ELSE call
           /\ UNCHANGED reader
        \/ /\ message.type = "progress"
           /\ reader' = IF known THEN [reader EXCEPT ![p] = message.call] ELSE reader
           /\ UNCHANGED <<pending, call>>
     /\ UNCHANGED <<generation, closed, lifecycle, plugin, panicked>>

\* progress -> Progress.Report -> runner.emit: a send on the run's channel.
ReportProgress(p) ==
  /\ reader[p] # None
  /\ panicked' = (panicked \/ call[reader[p]].run = "ended")
  /\ reader' = [reader EXCEPT ![p] = None]
  /\ UNCHANGED <<generation, closed, lifecycle, plugin, pending, wire, call>>

\* wait or the reader notices the end (a reader that is closing leaves it to
\* wait), or the plugin sends something that is no JSON-RPC message.
Terminate(p) ==
  /\ ~plugin[p].terminated
  /\ \/ ~plugin[p].alive /\ plugin[p].status # "unused"
     \/ plugin[p].alive /\ reader[p] = None
  /\ Terminated(p)
  /\ UNCHANGED <<generation, closed, lifecycle, wire, reader, call, panicked>>

\* noteExitLocked, once.
WatchExit(p) ==
  /\ plugin[p].terminated /\ ~plugin[p].exited
  /\ \E status \in {"failed", "stopped"} :
       plugin' = [plugin EXCEPT ![p].exited = TRUE,
                                ![p].status = IF plugin[p].retiring THEN @ ELSE status]
  /\ UNCHANGED <<generation, closed, lifecycle, pending, wire, reader, call, panicked>>

\* checkHealth, with the answer that came or the error of the call.
checkHealth(p) ==
  \E ok \in BOOLEAN :
    /\ plugin[p].status \notin {"unused", "staged"}
    /\ ok => plugin[p].alive \/ ~plugin[p].exited
    /\ plugin' = [plugin EXCEPT ![p].status =
         IF ok /\ @ = "degraded" THEN "running" ELSE IF ~ok /\ @ = "running" THEN "degraded" ELSE @]
    /\ UNCHANGED <<generation, closed, lifecycle, pending, wire, reader, call, panicked>>

-----------------------------------------------------------------------------
(* Generations. *)

Reload ==
  /\ lifecycle.at = "idle" /\ ~closed
  /\ \E p \in Plugins : plugin[p].status = "unused"
  /\ lifecycle' = [NoLifecycle EXCEPT !.at = "staging", !.op = "reload"]
  /\ UNCHANGED <<generation, closed, plugin, pending, wire, reader, call, panicked>>

\* stagePlugin: the process is started and initialized, or is closed again and
\* the reload fails.
Stage ==
  LET p == CHOOSE p \in Plugins : plugin[p].status = "unused"   \* a new process has no name yet
  IN /\ lifecycle.at = "staging"
     /\ \/ /\ plugin' = [plugin EXCEPT ![p].status = "staged", ![p].alive = TRUE]
           /\ lifecycle' = [lifecycle EXCEPT !.at = "publishing", !.staged = p]
        \/ /\ plugin' = [plugin EXCEPT ![p].status = "stopped", ![p].terminated = TRUE,
                                       ![p].exited = TRUE, ![p].retiring = TRUE]
           /\ lifecycle' = NoLifecycle
     /\ UNCHANGED <<generation, closed, pending, wire, reader, call, panicked>>

\* The end of stage: plugins that do not go together, or that have exited, are
\* retired again and the reload fails.
StagingFails ==
  /\ lifecycle.at = "publishing"
  /\ plugin' = [plugin EXCEPT ![lifecycle.staged].status = "stopped",
                              ![lifecycle.staged].terminated = TRUE,
                              ![lifecycle.staged].exited = TRUE,
                              ![lifecycle.staged].retiring = TRUE,
                              ![lifecycle.staged].alive = FALSE]
  /\ lifecycle' = NoLifecycle
  /\ UNCHANGED <<generation, closed, pending, wire, reader, call, panicked>>

\* A generation that was staged is published, also when its process has ended
\* since, and the one before it is to be retired.
Publish ==
  LET p == lifecycle.staged
  IN /\ lifecycle.at = "publishing"
     /\ generation' = p
     /\ plugin' = [plugin EXCEPT ![p].status = IF @ = "staged" THEN "running" ELSE @]
     /\ lifecycle' = IF generation = None THEN NoLifecycle
                     ELSE [NoLifecycle EXCEPT !.at = "retiring", !.op = "reload", !.old = generation]
     /\ UNCHANGED <<closed, pending, wire, reader, call, panicked>>

CloseManager ==
  /\ lifecycle.at = "idle" /\ ~closed
  /\ closed' = TRUE
  /\ lifecycle' = IF generation = None THEN NoLifecycle
                  ELSE [NoLifecycle EXCEPT !.at = "retiring", !.op = "close", !.old = generation]
  /\ UNCHANGED <<generation, plugin, pending, wire, reader, call, panicked>>

\* loadedPlugin.retire: no new calls, then wait for the active ones.
RetireBegins ==
  /\ lifecycle.at = "retiring"
  /\ plugin' = [plugin EXCEPT ![lifecycle.old].retiring = TRUE]
  /\ lifecycle' = [lifecycle EXCEPT !.at = "draining"]
  /\ UNCHANGED <<generation, closed, pending, wire, reader, call, panicked>>

DeadlinePasses ==
  /\ lifecycle.at \in {"draining", "closing"} /\ ~lifecycle.expired
  /\ lifecycle' = [lifecycle EXCEPT !.expired = TRUE]
  /\ UNCHANGED <<generation, closed, plugin, pending, wire, reader, call, panicked>>

\* rpcClient.Close: shutdown is requested and stdin closed.
RetireCloses ==
  /\ lifecycle.at = "draining"
  /\ ActiveCalls(lifecycle.old) = {} \/ lifecycle.expired
  /\ plugin' = [plugin EXCEPT ![lifecycle.old].closing = TRUE]
  /\ lifecycle' = [lifecycle EXCEPT !.at = "closing"]
  /\ UNCHANGED <<generation, closed, pending, wire, reader, call, panicked>>

\* The transport has ended; a process that outlived the deadline is killed first.
RetireEnds ==
  LET p == lifecycle.old
  IN /\ lifecycle.at = "closing"
     /\ plugin[p].terminated \/ lifecycle.expired
     /\ plugin' = [plugin EXCEPT ![p].status = "stopped", ![p].exited = TRUE,
                                 ![p].alive = FALSE, ![p].terminated = TRUE]
     /\ pending' = [pending EXCEPT ![p] = IF plugin[p].terminated THEN @ ELSE {}]
     /\ lifecycle' = NoLifecycle
     /\ UNCHANGED <<generation, closed, wire, reader, call, panicked>>

Next ==
  \/ \E c \in Calls :
       \/ \E p \in Plugins : acquire(c, p)
       \/ Register(c) \/ Write(c) \/ Cancel(c) \/ Return(c) \/ RunEnds(c)
  \/ \E p \in Plugins :
       \/ PluginAnswers(p) \/ PluginReports(p) \/ PluginDies(p)
       \/ ReadMessage(p) \/ ReportProgress(p) \/ Terminate(p) \/ WatchExit(p) \/ checkHealth(p)
  \/ Reload \/ Stage \/ StagingFails \/ Publish \/ CloseManager
  \/ RetireBegins \/ DeadlinePasses \/ RetireCloses \/ RetireEnds

Spec == Init /\ [][Next]_pluginVars

-----------------------------------------------------------------------------
(* Properties. *)

\* A plugin that leaves service leaves it for good.  Its status does not come back
\* with a health answer that was on its way, no call of a run that still holds its
\* tools starts on it, and unless the deadline of its retirement has passed it is
\* shut down with no call in progress.  The published plugin is not on its way
\* out as long as the manager is open.
RetiresForGood ==
  /\ \A p \in Plugins :
       /\ plugin[p].status \in {"failed", "stopped"} =>
            plugin'[p].status \in {"failed", "stopped"}
       /\ plugin[p].retiring => ActiveCalls(p)' \subseteq ActiveCalls(p)
       /\ lifecycle'.old = p /\ plugin'[p].closing /\ ~lifecycle'.expired => ActiveCalls(p)' = {}
  /\ generation' # None /\ ~closed' => ~plugin'[generation'].retiring

RetiredForGood == [][RetiresForGood]_pluginVars

\* "emit forwards an event to the sink via the drain goroutine. Safe to call
\* from any goroutine": no progress callback finds its run's channel closed.
ProgressFindsRunOpen == ~panicked
=============================================================================
