----------------------------- MODULE Lifetimes ------------------------------
(***************************************************************************)
(* The components whose objects are shared: scopes of directories,         *)
(* connections to MCP servers, the generations of plugins of a session,    *)
(* and the stream of a run.  Each is the module that its INSTANCE names.   *)
(***************************************************************************)
EXTENDS Machine, Integers, FiniteSets, Sequences

CONSTANTS
  \* bounds of ExecutionScopes
  ScopeCallers, ScopeDirectories, ScopeDaemon, ScopeObjects, ScopeMaxEvictions,
  \* bounds of McpConnections
  McpServers, McpEnabled, McpGenerations, McpCalls, McpCursors, McpMaxPages,
  \* bounds of AgentSession
  SessionCallers, SessionGenerations,
  \* bounds of RunStreams
  RunEventKinds, RunEventCapacity, RunMaxEvents

(* A name that stands for nothing is the name of no object, caller or      *)
(* generation.                                                             *)
ASSUME ScopesAssumption ==
  /\ None \notin ScopeObjects \cup {"open", "closing", "closed", ScopeDaemon}
  /\ ScopeObjects # {} /\ IsFiniteSet(ScopeCallers)

ASSUME McpAssumption == None \notin McpGenerations

ASSUME SessionAssumption == None \notin SessionCallers \cup SessionGenerations

(* An error ends the stream, and None is neither an event nor how a reader  *)
(* ended.                                                                  *)
ASSUME RunStreamAssumption ==
  /\ "ErrorEvent" \notin RunEventKinds
  /\ None \notin [kind : RunEventKinds \cup {"ErrorEvent"}, n : Nat] \cup {"none"}

VARIABLES
  scpScopes, scpOwned, scpClosed, scpCaller,
  mcpServers, mcpGeneration, mcpClosed, mcpLifecycle, mcpCall,
  agsSession, agsRunMu, agsCaller, agsReleased, agsObserving,
  rstLoop, rstEventCh, rstDraining, rstEvents, rstDropped, rstCancelled, rstHandler,
  rstWire, rstConn, rstReader

Scopes == INSTANCE ExecutionScopes WITH
  Callers <- ScopeCallers, Directories <- ScopeDirectories,
  Daemon <- ScopeDaemon, Objects <- ScopeObjects,
  MaxEvictions <- ScopeMaxEvictions,
  scopes <- scpScopes, owned <- scpOwned, closed <- scpClosed,
  caller <- scpCaller

Mcp == INSTANCE McpConnections WITH
  Servers <- McpServers, Enabled <- McpEnabled,
  Generations <- McpGenerations, Calls <- McpCalls, Cursors <- McpCursors,
  MaxPages <- McpMaxPages,
  servers <- mcpServers, generation <- mcpGeneration, closed <- mcpClosed,
  lifecycle <- mcpLifecycle, call <- mcpCall

Session == INSTANCE AgentSession WITH
  Callers <- SessionCallers, Generations <- SessionGenerations,
  session <- agsSession, runMu <- agsRunMu, caller <- agsCaller,
  released <- agsReleased, observing <- agsObserving

Stream == INSTANCE RunStreams WITH
  Kinds <- RunEventKinds, Capacity <- RunEventCapacity,
  MaxEvents <- RunMaxEvents,
  loop <- rstLoop, eventCh <- rstEventCh, draining <- rstDraining,
  events <- rstEvents, dropped <- rstDropped, cancelled <- rstCancelled,
  handler <- rstHandler, wire <- rstWire, conn <- rstConn,
  reader <- rstReader

-----------------------------------------------------------------------------
scpVars == <<scpScopes, scpOwned, scpClosed, scpCaller>>
ScopesOff ==
  /\ scpScopes = 0 /\ scpOwned = 0 /\ scpClosed = 0 /\ scpCaller = 0

mcpVars == <<mcpServers, mcpGeneration, mcpClosed, mcpLifecycle, mcpCall>>
McpOff ==
  /\ mcpServers = 0 /\ mcpGeneration = 0 /\ mcpClosed = 0 /\ mcpLifecycle = 0
  /\ mcpCall = 0

agsVars == <<agsSession, agsRunMu, agsCaller, agsReleased, agsObserving>>
SessionOff ==
  /\ agsSession = 0 /\ agsRunMu = 0 /\ agsCaller = 0 /\ agsReleased = 0
  /\ agsObserving = 0

rstVars == <<rstLoop, rstEventCh, rstDraining, rstEvents, rstDropped, rstCancelled,
             rstHandler, rstWire, rstConn, rstReader>>
StreamOff ==
  /\ rstLoop = 0 /\ rstEventCh = 0 /\ rstDraining = 0 /\ rstEvents = 0 /\ rstDropped = 0
  /\ rstCancelled = 0 /\ rstHandler = 0 /\ rstWire = 0 /\ rstConn = 0 /\ rstReader = 0

LifetimesOff == ScopesOff /\ McpOff /\ SessionOff /\ StreamOff

LifetimesInit ==
  \/ /\ machine = "scopes" /\ Scopes!Init
     /\ McpOff /\ SessionOff /\ StreamOff
  \/ /\ machine = "mcp" /\ Mcp!Init
     /\ ScopesOff /\ SessionOff /\ StreamOff
  \/ /\ machine = "session" /\ Session!Init
     /\ ScopesOff /\ McpOff /\ StreamOff
  \/ /\ machine = "stream" /\ Stream!Init
     /\ ScopesOff /\ McpOff /\ SessionOff

(* a step of the one component that moves                                  *)
LifetimesNext ==
  \/ /\ machine = "scopes" /\ Scopes!Next
     /\ UNCHANGED <<machine, mcpVars, agsVars, rstVars>>
  \/ /\ machine = "mcp" /\ Mcp!Next
     /\ UNCHANGED <<machine, scpVars, agsVars, rstVars>>
  \/ /\ machine = "session" /\ Session!Next
     /\ UNCHANGED <<machine, scpVars, mcpVars, rstVars>>
  \/ /\ machine = "stream" /\ Stream!Next
     /\ UNCHANGED <<machine, scpVars, mcpVars, agsVars>>

lifetimeVars == <<scpVars, mcpVars, agsVars, rstVars>>

LifetimesSpec == LifetimesInit /\ [][LifetimesNext]_<<machine, lifetimeVars>>

-----------------------------------------------------------------------------
(* ExecutionScopes, McpConnections, AgentSession, RunStreams.  A leased    *)
(* scope stays open, and one that is idle is evicted or, when it was       *)
(* stored after its last waiter gave up, has its context cancelled         *)
(* (nothing closes that one).  A connection is published, in the hands of  *)
(* one operation, or closed, and a call that runs keeps it until the       *)
(* deadline of its retirement.  A run keeps its generation of plugins,     *)
(* which has one owner until it is cleaned up; only a sink callback that   *)
(* timed out can still be running then.  The stream of a run has one end,  *)
(* which comes after all of its events (constructOwned, retire,            *)
(* SetPlugins, dispatch; RunStream, handleRun).                            *)
UsersKeepTheirs ==
  /\ machine = "scopes" => Scopes!ScopesAreKept
  /\ machine = "mcp" => Mcp!ConnectionsAreOwned
  /\ machine = "session" => Session!PluginsAreReleased
  /\ machine = "stream" => Stream!RunEndsOnce
=============================================================================
