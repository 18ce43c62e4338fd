---------------------------- MODULE AgentSession -----------------------------
(***************************************************************************)
(* The life of an agent session as an embedder sees it                     *)
(* (agent/session/session.go, agent/plugin/plugin.go): runs, replacements  *)
(* of its plugins and its close, called from any number of goroutines.     *)
(*                                                                         *)
(* runMu is held by a run for all of its time, by a replacement while it   *)
(* swaps generations and by the close; mu guards the fields.  Staging a    *)
(* generation happens outside of both.                                     *)
(***************************************************************************)
EXTENDS FiniteSets

CONSTANTS Callers,
          Generations,   \* bound: plugin generations activated
          None

VARIABLES session,   \* closed, replacingPlugins, plugins, generation, cleanups, closeDone
          runMu,     \* the caller that holds it, or None
          caller,    \* of each caller: where it is, and the generation in its hands
          released,  \* generation -> how often its cleanups have run
          observing  \* the sink callbacks in flight: of a generation, and timed out or not

sessionVars == <<session, runMu, caller, released, observing>>

Idle == [at |-> "idle", generation |-> None]

\* A session is made with plugins (WithPlugin) or without.
Init ==
  /\ \E plugins \in BOOLEAN :
       session = [closed |-> FALSE, replacing |-> FALSE, plugins |-> plugins, generation |-> None,
                  cleanups |-> "installed", closeDone |-> FALSE]
  /\ runMu = None
  /\ caller = [c \in Callers |-> Idle]
  /\ released = [g \in {} |-> 0]
  /\ observing = {}

Go(c, at, g) == caller' = [caller EXCEPT ![c] = [at |-> at, generation |-> g]]

\* ActivateAll: a generation, or an error after what was activated of it has
\* been cleaned up again.
Activated == DOMAIN released
ActivateAll(g) ==
  /\ g \notin Activated
  /\ released' = [h \in Activated \cup {g} |-> IF h = g THEN 0 ELSE released[h]]

\* Generation.Close, under its sync.Once; the nil generation has no cleanups.
CloseGeneration(g) ==
  released' = [h \in Activated |-> IF h = g /\ released[h] = 0 THEN 1 ELSE released[h]]

-----------------------------------------------------------------------------
(* A run. *)

RunWaits(c) ==
  /\ caller[c].at = "idle"
  /\ Go(c, "run waits", None)
  /\ UNCHANGED <<session, runMu, released, observing>>

\* The plugins of a session are activated by its first run.
StartRun(c) ==
  LET lazy == session.generation = None /\ session.plugins
  IN /\ caller[c].at = "run waits" /\ runMu = None
     /\ \/ /\ session.closed \/ (lazy /\ session.replacing)
           /\ caller' = [caller EXCEPT ![c] = Idle]
           /\ UNCHANGED <<session, runMu>>
        \/ /\ ~session.closed /\ lazy /\ ~session.replacing
           /\ session' = [session EXCEPT !.replacing = TRUE]
           /\ runMu' = c
           /\ Go(c, "activates", None)
        \/ /\ ~session.closed /\ ~lazy
           /\ runMu' = c
           /\ Go(c, "runs", session.generation)
           /\ UNCHANGED session
     /\ UNCHANGED <<released, observing>>

\* The session cannot have been closed meanwhile: Close refuses to.
RunActivates(c) ==
  /\ caller[c].at = "activates"
  /\ \/ \E g \in Generations :
          /\ ActivateAll(g)
          /\ session' = [session EXCEPT !.replacing = FALSE, !.generation = g]
          /\ Go(c, "runs", g)
          /\ UNCHANGED runMu
     \/ /\ session' = [session EXCEPT !.replacing = FALSE]
        /\ caller' = [caller EXCEPT ![c] = Idle]
        /\ runMu' = None
        /\ UNCHANGED released
  /\ UNCHANGED observing

\* dispatch: an event of the run is given to a sink of its plugins, which has
\* one callback in flight at most, and is dropped for one that has.
Callback(g, late) == [generation |-> g, late |-> late]

Dispatch(c) ==
  LET g == caller[c].generation
  IN /\ caller[c].at = "runs" /\ g # None
     /\ \A f \in observing : f.generation # g
     /\ observing' = observing \cup {Callback(g, FALSE)}
     /\ UNCHANGED <<session, runMu, caller, released>>

\* The run goes on without a callback that takes too long.
CallbackTimesOut(g) ==
  /\ Callback(g, FALSE) \in observing
  /\ observing' = (observing \ {Callback(g, FALSE)}) \cup {Callback(g, TRUE)}
  /\ UNCHANGED <<session, runMu, caller, released>>

CallbackReturns(g) ==
  /\ \E late \in BOOLEAN : Callback(g, late) \in observing
  /\ observing' = {f \in observing : f.generation # g}
  /\ UNCHANGED <<session, runMu, caller, released>>

\* With a result, or with an error after the plugins were activated: their
\* tools do not go together, the store fails.
EndRun(c) ==
  /\ caller[c].at = "runs" /\ Callback(caller[c].generation, FALSE) \notin observing
  /\ caller' = [caller EXCEPT ![c] = Idle]
  /\ runMu' = None
  /\ UNCHANGED <<session, released, observing>>

-----------------------------------------------------------------------------
(* SetPlugins. *)

SetPlugins(c) ==
  /\ caller[c].at = "idle"
  /\ ~session.closed /\ ~session.replacing
  /\ session' = [session EXCEPT !.replacing = TRUE]
  /\ Go(c, "stages", None)
  /\ UNCHANGED <<runMu, released, observing>>

\* No plugins are no generation.
Stage(c) ==
  /\ caller[c].at = "stages"
  /\ \/ \E g \in Generations : ActivateAll(g) /\ Go(c, "staged", g) /\ UNCHANGED session
     \/ Go(c, "staged", None) /\ UNCHANGED <<session, released>>
     \/ /\ session' = [session EXCEPT !.replacing = FALSE]
        /\ caller' = [caller EXCEPT ![c] = Idle]
        /\ UNCHANGED released
  /\ UNCHANGED <<runMu, observing>>

\* The new generation takes the place of the old one when no run is in its way.
Swap(c) ==
  LET next == caller[c].generation
  IN /\ caller[c].at = "staged"
     /\ runMu = None /\ runMu' = c
     /\ session' = [session EXCEPT !.replacing = FALSE, !.plugins = next # None, !.generation = next]
     /\ Go(c, "releases", session.generation)
     /\ UNCHANGED <<released, observing>>

\* The old generation is cleaned up with runMu held.
ReleasePrevious(c) ==
  /\ caller[c].at = "releases"
  /\ CloseGeneration(caller[c].generation)
  /\ caller' = [caller EXCEPT ![c] = Idle]
  /\ runMu' = None
  /\ UNCHANGED <<session, observing>>

-----------------------------------------------------------------------------
(* Close. *)

\* A second Close waits for the first, or for the end of its context.
Close(c) ==
  /\ caller[c].at = "idle" /\ ~session.replacing
  /\ session' = [session EXCEPT !.closed = TRUE]
  /\ Go(c, IF session.closed THEN "waits for close" ELSE "close waits", None)
  /\ UNCHANGED <<runMu, released, observing>>

TakeGeneration(c) ==
  /\ caller[c].at = "close waits" /\ runMu = None
  /\ runMu' = c
  /\ session' = [session EXCEPT !.generation = None, !.cleanups = "taken"]
  /\ Go(c, "closes", session.generation)
  /\ UNCHANGED <<released, observing>>

\* The generation first, then the cleanups of the session, in reverse order;
\* closeDone is closed at the end.
FinishClose(c) ==
  /\ caller[c].at = "closes"
  /\ CloseGeneration(caller[c].generation)
  /\ session' = [session EXCEPT !.cleanups = "done", !.closeDone = TRUE]
  /\ caller' = [caller EXCEPT ![c] = Idle]
  /\ runMu' = None
  /\ UNCHANGED observing

CloseReturns(c) ==
  /\ caller[c].at = "waits for close"
  /\ caller' = [caller EXCEPT ![c] = Idle]
  /\ UNCHANGED <<session, runMu, released, observing>>

Next ==
  \/ \E c \in Callers :
       \/ RunWaits(c) \/ StartRun(c) \/ RunActivates(c) \/ Dispatch(c) \/ EndRun(c)
       \/ SetPlugins(c) \/ Stage(c) \/ Swap(c) \/ ReleasePrevious(c)
       \/ Close(c) \/ TakeGeneration(c) \/ FinishClose(c) \/ CloseReturns(c)
  \/ \E g \in Generations : CallbackTimesOut(g) \/ CallbackReturns(g)

Spec == Init /\ [][Next]_sessionVars

-----------------------------------------------------------------------------
(* Properties. *)

\* A run has the plugins it began with: their generation stays the session's and
\* is not cleaned up before the run is over.
RunKeepsPlugins ==
  \A c \in Callers : caller[c].at = "runs" =>
    /\ caller[c].generation = session.generation
    /\ caller[c].generation # None => released[caller[c].generation] = 0
    /\ ~session.closeDone

\* Every generation that was activated is in service, in the hands of one caller
\* that is going to install or to clean it up, or cleaned up; two of these at a
\* time never.
GenerationsAreOwned ==
  \A g \in Activated :
    LET holders == {c \in Callers : caller[c].generation = g /\ caller[c].at # "runs"}
    IN IF released[g] = 1 THEN session.generation # g /\ holders = {}
       ELSE Cardinality(holders) = IF session.generation = g THEN 0 ELSE 1

\* After Close nothing is left to clean up, and nothing begins any more.
ClosedIsEmpty ==
  session.closeDone =>
    /\ \A g \in Activated : released[g] = 1
    /\ ~session.replacing /\ session.generation = None /\ runMu = None

\* A generation is cleaned up beside a callback of its sinks only if that had
\* timed out: any other is waited for by the run that made it.
CallbacksAreWaitedFor ==
  \A f \in observing : ~f.late =>
    /\ released[f.generation] = 0
    /\ \E c \in Callers : caller[c].at = "runs" /\ caller[c].generation = f.generation

PluginsAreReleased ==
  RunKeepsPlugins /\ GenerationsAreOwned /\ ClosedIsEmpty /\ CallbacksAreWaitedFor
=============================================================================
