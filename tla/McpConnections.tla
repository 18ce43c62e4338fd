--------------------------- MODULE McpConnections ----------------------------
(***************************************************************************)
(* The connections to the configured MCP servers (mcp/manager.go) and the  *)
(* calls of their tools by agent runs (mcp/tool.go).                       *)
(*                                                                         *)
(* Connect, Disconnect and CloseContext hold lifecycleMu from their        *)
(* beginning to their end; the maps are guarded by mu and each generation  *)
(* of a connection by a lock of its own, so that calls go on while a       *)
(* server is connected anew or retired.                                    *)
(***************************************************************************)
EXTENDS Integers, FiniteSets

CONSTANTS Servers, Enabled,   \* configured servers, and those that are enabled
          Generations,        \* bound: connections opened
          Calls,              \* bound: tool calls
          Cursors,            \* of a server's list of tools
          MaxPages,           \* of a list: 1000 in the code
          None

VARIABLES servers,     \* serverState of each server
          generation,  \* connectionGeneration of each connection
          closed,      \* of the manager
          lifecycle,   \* who holds lifecycleMu
          call         \* of each tool call

mcpVars == <<servers, generation, closed, lifecycle, call>>

\* op is what holds the lock; opened the connection Connect has made, retired
\* those it still has to close.
Free == [op |-> "none", server |-> None, opened |-> None, seen |-> {},
         retired |-> {}, expired |-> FALSE]

Unopened == [state |-> "unopened", accepting |-> FALSE, late |-> FALSE]

Init ==
  /\ servers = [s \in Servers |-> [status |-> "disabled", generation |-> None]]
  /\ generation = [g \in Generations |-> Unopened]
  /\ closed = FALSE
  /\ lifecycle = Free
  /\ call = [c \in Calls |-> [at |-> "idle", generation |-> None]]

\* g.calls: the calls that retire waits for.
Running(g) == {c \in Calls : call[c].at = "running" /\ call[c].generation = g}

\* retireLocked
Retired(gs) == [g \in Generations |->
  IF g \in gs THEN [generation[g] EXCEPT !.accepting = FALSE] ELSE generation[g]]

-----------------------------------------------------------------------------
(* Connecting. *)

\* A server that is not enabled is disconnected instead.
Connect(s) ==
  /\ lifecycle = Free /\ ~closed
  /\ s \in Enabled
  /\ \E g \in Generations : generation[g].state = "unopened"
  /\ lifecycle' = [Free EXCEPT !.op = "connect", !.server = s]
  /\ UNCHANGED <<servers, generation, closed, call>>

\* connectServer: the session is opened, over the second transport if need be.
Open ==
  /\ lifecycle.op = "connect" /\ lifecycle.opened = None
  /\ \E g \in Generations :
       /\ generation[g].state = "unopened"
       /\ generation' = [generation EXCEPT ![g].state = "open"]
       /\ lifecycle' = [lifecycle EXCEPT !.opened = g]
  /\ UNCHANGED <<servers, closed, call>>

\* listTools: one page more.
ListPage ==
  \E next \in Cursors \ lifecycle.seen :
    /\ lifecycle.op = "connect" /\ lifecycle.opened # None
    /\ Cardinality(lifecycle.seen) < MaxPages
    /\ lifecycle' = [lifecycle EXCEPT !.seen = @ \cup {next}]
    /\ UNCHANGED <<servers, generation, closed, call>>

\* The server cannot be reached, a page fails, a cursor comes again or there are
\* too many of them: what was opened is closed, and an earlier connection
\* stays in service.
ConnectFails ==
  LET s == lifecycle.server
  IN /\ lifecycle.op = "connect"
     /\ generation' = [g \in Generations |->
                         IF g = lifecycle.opened THEN [generation[g] EXCEPT !.state = "refused"]
                         ELSE generation[g]]
     /\ servers' = [servers EXCEPT ![s].status =
                      IF servers[s].generation = None THEN "failed" ELSE "connected"]
     /\ lifecycle' = Free
     /\ UNCHANGED <<closed, call>>

\* All tools are known: the new generation is published, and the old one is to
\* be retired.
Connected ==
  LET s == lifecycle.server
      old == {servers[s].generation} \ {None}
      new == lifecycle.opened
  IN /\ lifecycle.op = "connect" /\ new # None
     /\ Cardinality(lifecycle.seen) < MaxPages
     /\ generation' = [Retired(old) EXCEPT ![new].accepting = TRUE]
     /\ servers' = [servers EXCEPT ![s] = [status |-> "connected", generation |-> new]]
     /\ lifecycle' = IF old = {} THEN Free ELSE [Free EXCEPT !.op = "retire", !.retired = old]
     /\ UNCHANGED <<closed, call>>

Disconnect(s) ==
  LET old == {servers[s].generation} \ {None}
  IN /\ lifecycle = Free
     /\ generation' = Retired(old)
     /\ servers' = [servers EXCEPT ![s] = [status |-> "disabled", generation |-> None]]
     /\ lifecycle' = IF old = {} THEN Free ELSE [Free EXCEPT !.op = "retire", !.retired = old]
     /\ UNCHANGED <<closed, call>>

CloseContext ==
  LET old == {servers[s].generation : s \in Servers} \ {None}
  IN /\ lifecycle = Free /\ ~closed
     /\ closed' = TRUE
     /\ generation' = Retired(old)
     /\ servers' = [s \in Servers |-> [status |-> "disabled", generation |-> None]]
     /\ lifecycle' = IF old = {} THEN Free ELSE [Free EXCEPT !.op = "retire", !.retired = old]
     /\ UNCHANGED call

-----------------------------------------------------------------------------
(* Retirement. *)

DeadlinePasses ==
  /\ lifecycle.op = "retire" /\ ~lifecycle.expired
  /\ lifecycle' = [lifecycle EXCEPT !.expired = TRUE]
  /\ UNCHANGED <<servers, generation, closed, call>>

\* After g.calls.Wait or the end of the deadline, retire closes the connection
\* whether the calls have ended or not.
retire(g) ==
  LET left == lifecycle.retired \ {g}
  IN /\ lifecycle.op = "retire" /\ g \in lifecycle.retired
     /\ Running(g) = {} \/ lifecycle.expired
     /\ generation' = [generation EXCEPT ![g].state = "closed", ![g].late = lifecycle.expired]
     /\ lifecycle' = IF left = {} THEN Free ELSE [lifecycle EXCEPT !.retired = left]
     /\ UNCHANGED <<servers, closed, call>>

-----------------------------------------------------------------------------
(* Calls. *)

\* A run keeps the tools it was given: of any generation that was published.
callTool(c, g) ==
  /\ call[c].at = "idle"
  /\ generation[g].state \in {"open", "closed"} /\ lifecycle.opened # g
  /\ call' = [call EXCEPT ![c].at = IF generation[g].accepting THEN "running" ELSE "returned",
                         ![c].generation = g]
  /\ UNCHANGED <<servers, generation, closed, lifecycle>>

\* With a result, an error, at its timeout, or because its context ended.
CallReturns(c) ==
  /\ call[c].at = "running"
  /\ call' = [call EXCEPT ![c].at = "returned"]
  /\ UNCHANGED <<servers, generation, closed, lifecycle>>

Next ==
  \/ \E s \in Servers : Connect(s) \/ Disconnect(s)
  \/ Open \/ ListPage \/ ConnectFails \/ Connected
  \/ CloseContext \/ DeadlinePasses
  \/ \E g \in Generations : retire(g)
  \/ \E c \in Calls : CallReturns(c) \/ \E g \in Generations : callTool(c, g)

Spec == Init /\ [][Next]_mcpVars

-----------------------------------------------------------------------------
(* Properties. *)

\* No connection is lost: one that is open is the connection of a server, or the
\* holder of the lifecycle lock is about to publish or to close it; so a manager
\* that was closed has none left when the lock is free.
OpenIsOwned ==
  \A g \in Generations : generation[g].state = "open" =>
    \/ \E s \in Servers : servers[s].generation = g
    \/ lifecycle.opened = g \/ g \in lifecycle.retired

\* The connection of a server is open and takes calls, whatever reconnections
\* have failed meanwhile; no two servers share one.
ServedIsOpen ==
  \A s \in Servers : servers[s].generation # None =>
    LET g == servers[s].generation
    IN /\ servers[s].status = "connected" /\ ~closed
       /\ generation[g].state = "open" /\ generation[g].accepting
       /\ \A t \in Servers : servers[t].generation = g => t = s

\* A call that was taken keeps its connection until it returns, unless the
\* deadline of the retirement had passed.
CallKeepsConnection ==
  \A c \in Calls : call[c].at = "running" =>
    \/ generation[call[c].generation].state = "open"
    \/ generation[call[c].generation].late

ConnectionsAreOwned == OpenIsOwned /\ ServedIsOpen /\ CallKeepsConnection
=============================================================================
