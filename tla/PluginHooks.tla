----------------------------- MODULE PluginHooks -----------------------------
(***************************************************************************)
(* A seam of the agent loop and the hooks on it: what the plugins register *)
(* (agent/plugin/plugin.go Registry), how a session puts its own hook      *)
(* after theirs (agent/session/session.go), and what the agent loop       *)
(* does with what comes back (agent/run/run.go).                           *)
(*                                                                         *)
(* A value (messages, tool definitions, parameters, arguments, a result)   *)
(* is a sequence of names: of what was there first and of the hooks that   *)
(* wrote.  None is Go's nil.  A behaviour is one pass through one seam.    *)
(***************************************************************************)
EXTENDS Naturals, Sequences, FiniteSets, FiniteSetsExt, SequencesExt

CONSTANTS MaxHooks,   \* bound: hooks that plugins register
          Types,      \* bound: part types that plugins register
          BuiltIn,    \* the part types of models
          None

VARIABLES registry,   \* the Registry and the hook of the user
          pass,       \* the call of the loop: [seam, value, next, errors, outcome]
          log         \* what each hook was given and returned

hookVars == <<registry, pass, log>>

KeepsOnNil == {"before_run", "transform_history", "transform_context", "before_tool_call"}
Replaces == {"transform_tool_defs", "transform_params"}
Seams == KeepsOnNil \cup Replaces \cup {"after_tool_call", "after_run"}

\* Seams on which the user of the session has a hook besides the plugins.
UserSeams == {"transform_history", "transform_context", "after_run"} \cup Replaces

\* The names in a value: the hooks of the plugins have the numbers 1..MaxHooks.
Original == 0
User == MaxHooks + 1
Session == MaxHooks + 2
Failure == MaxHooks + 3

-----------------------------------------------------------------------------
(* What a hook does: it returns nil, its input with one entry more, a      *)
(* rewrite as long as its input, or an error, which may be ErrSkipTool.    *)
Returns(seam) ==
  CASE seam = "after_run" -> {"nil", "fail"}
    [] seam = "before_tool_call" -> {"nil", "longer", "fail", "skip", "skip longer"}
    [] seam = "after_tool_call" -> {"longer", "same", "fail"}
    [] OTHER -> {"nil", "longer", "same", "fail"}

IsError(how) == how \in {"fail", "skip", "skip longer"}
Longer(value, by) == IF value = None THEN <<by>> ELSE Append(value, by)

Output(how, by, value) ==
  CASE how \in {"nil", "fail", "skip"} -> None
    [] how \in {"longer", "skip longer"} -> Longer(value, by)
    [] how = "same" -> IF value = None THEN None ELSE [i \in DOMAIN value |-> by]

-----------------------------------------------------------------------------
\* A session gives BeforeRun no messages to start from.
Start(seam) == IF seam = "before_run" THEN <<>> ELSE <<Original>>

Init ==
  /\ \E seam \in Seams : \E user \in (IF seam \in UserSeams THEN Returns(seam) \cup {None} ELSE {None}) :
       /\ pass = [seam |-> seam, value |-> Start(seam), next |-> 1, errors |-> {}, outcome |-> None]
       /\ registry = [hooks |-> <<>>, types |-> <<>>, built |-> FALSE, refused |-> FALSE, user |-> user]
  /\ log = <<>>

Mutable == ~registry.built

RegisterHook(how) ==
  /\ Mutable /\ Len(registry.hooks) < MaxHooks
  /\ registry' = [registry EXCEPT !.hooks = Append(@, how)]
  /\ UNCHANGED <<pass, log>>

RegisterPart(type) ==
  /\ Mutable /\ Len(registry.types) < 2
  /\ registry' = [registry EXCEPT !.types = Append(@, type)]
  /\ UNCHANGED <<pass, log>>

\* PartRegistry.Register refuses a reserved type and one that is taken.
PartsRefused ==
  \/ ToSet(registry.types) \cap BuiltIn # {}
  \/ Cardinality(ToSet(registry.types)) < Len(registry.types)

build ==
  /\ Mutable
  /\ registry' = [registry EXCEPT !.built = TRUE, !.refused = PartsRefused]
  /\ UNCHANGED <<pass, log>>

-----------------------------------------------------------------------------
(* The pass.  A lone hook is the seam itself: its nil is not made up for.  *)

Hooks == registry.hooks
Running == registry.built /\ ~registry.refused /\ pass.outcome = None
Composed == Len(Hooks) > 1
AtPlugins == Running /\ pass.next <= Len(Hooks)
How == Hooks[pass.next]

Called(how, by) ==
  log' = Append(log, [by |-> by, how |-> how, given |-> pass.value,
                      returned |-> Output(how, by, pass.value)])

\* A hook that fails ends the chain; what it returned goes with ErrSkipTool.
Fails(how, by) ==
  /\ IsError(how)
  /\ pass' = [pass EXCEPT !.outcome = IF how = "fail" THEN "failed" ELSE "skipped",
                          !.errors = @ \cup {by}, !.value = Output(how, by, @)]

Chain ==
  /\ AtPlugins /\ pass.seam \in KeepsOnNil /\ Called(How, pass.next)
  /\ \/ Fails(How, pass.next)
     \/ /\ ~IsError(How)
        /\ LET out == Output(How, pass.next, pass.value)
           IN pass' = [pass EXCEPT !.next = @ + 1,
                                   !.value = IF out = None /\ Composed THEN @ ELSE out]
  /\ UNCHANGED registry

\* Tool definitions and parameters: what comes back counts, an empty one too.
ChainReplaces ==
  /\ AtPlugins /\ pass.seam \in Replaces /\ Called(How, pass.next)
  /\ \/ Fails(How, pass.next)
     \/ /\ ~IsError(How)
        /\ pass' = [pass EXCEPT !.next = @ + 1, !.value = Output(How, pass.next, @)]
  /\ UNCHANGED registry

\* A hook that fails ends the chain.
ChainAfterToolCall ==
  /\ AtPlugins /\ pass.seam = "after_tool_call" /\ Called(How, pass.next)
  /\ pass' = IF IsError(How)
             THEN [pass EXCEPT !.next = Len(Hooks) + 1, !.errors = @ \cup {pass.next}]
             ELSE [pass EXCEPT !.next = @ + 1, !.value = Output(How, pass.next, @)]
  /\ UNCHANGED registry

\* Every AfterRun hook sees the same result; their errors are joined.
ChainAfterRun ==
  /\ AtPlugins /\ pass.seam = "after_run" /\ Called(How, pass.next)
  /\ pass' = [pass EXCEPT !.next = @ + 1,
                          !.errors = IF IsError(How) THEN @ \cup {pass.next} ELSE @]
  /\ UNCHANGED registry

AtUser == Running /\ pass.next = Len(Hooks) + 1 /\ registry.user # None

\* The hook of the user is given what the hook of the plugins returned.
UserTransforms ==
  /\ AtUser /\ pass.seam # "after_run" /\ Called(registry.user, User)
  /\ \/ Fails(registry.user, User)
     \/ /\ ~IsError(registry.user)
        /\ pass' = [pass EXCEPT !.next = @ + 1, !.value = Output(registry.user, User, @)]
  /\ UNCHANGED registry

UserAfterRun ==
  /\ AtUser /\ pass.seam = "after_run" /\ Called(registry.user, User)
  /\ pass' = [pass EXCEPT !.next = @ + 1,
                          !.errors = IF IsError(registry.user) THEN @ \cup {User} ELSE @]
  /\ UNCHANGED registry

-----------------------------------------------------------------------------
(* What the loop does with what comes back.                                *)

Returned ==
  /\ Running
  /\ pass.next = Len(Hooks) + (IF registry.user = None THEN 1 ELSE 2)

Adopt(value) ==
  /\ pass' = [pass EXCEPT !.outcome = "used", !.value = value]
  /\ UNCHANGED <<registry, log>>

\* The snapshot of the session's own history follows what the plugins made.
AdoptHistoryOfSession ==
  /\ Returned /\ pass.seam = "before_run"
  /\ Adopt(Longer(pass.value, Session))

\* A rewrite of the history counts only if it changes the length.
AdoptHistory ==
  /\ Returned /\ pass.seam = "transform_history"
  /\ Adopt(IF pass.value # None /\ Len(pass.value) # Len(Start(pass.seam)) THEN pass.value ELSE Start(pass.seam))

AdoptContext ==
  /\ Returned /\ pass.seam \in {"transform_context", "before_tool_call"}
  /\ Adopt(IF pass.value # None THEN pass.value ELSE Start(pass.seam))

\* ErrSkipTool: the declined call keeps the arguments that came with it, or
\* those of the model, not those of the hooks before.
Decline ==
  /\ pass.outcome = "skipped"
  /\ pass' = [pass EXCEPT !.outcome = "declined",
                          !.value = IF @ = None THEN Start(pass.seam) ELSE @]
  /\ UNCHANGED <<registry, log>>

AdoptOutput ==
  /\ Returned /\ pass.seam \in Replaces
  /\ Adopt(pass.value)

\* The error of a hook is written into the tool's own result: the run goes on
\* and what the hooks before it wrote is dropped.
AdoptResult ==
  /\ Returned /\ pass.seam = "after_tool_call"
  /\ Adopt(IF pass.errors = {} THEN pass.value ELSE Append(Start(pass.seam), Failure))

AdoptErrors ==
  /\ Returned /\ pass.seam = "after_run"
  /\ pass' = [pass EXCEPT !.outcome = IF pass.errors = {} THEN "used" ELSE "failed"]
  /\ UNCHANGED <<registry, log>>

Next ==
  \/ \E how \in Returns(pass.seam) : RegisterHook(how)
  \/ \E type \in Types : RegisterPart(type)
  \/ build
  \/ Chain \/ ChainReplaces \/ ChainAfterToolCall \/ ChainAfterRun
  \/ UserTransforms \/ UserAfterRun
  \/ AdoptHistoryOfSession \/ AdoptHistory \/ AdoptContext \/ AdoptOutput \/ AdoptResult \/ AdoptErrors
  \/ Decline

Spec == Init /\ [][Next]_hookVars

-----------------------------------------------------------------------------
\* The one case in which a hook is not given the rewrites before it: the lone
\* hook of the plugins returned nil and the user has a hook too.
NilPassedOn(i) == log[i].by = User /\ ~Composed /\ Hooks # <<>> /\ Hooks[1] = "nil"

\* The hooks before the i-th whose output the i-th should be given.
Outputs(i) ==
  CASE pass.seam = "after_run" -> {}
    [] pass.seam \in KeepsOnNil -> {j \in 1..(i - 1) : log[j].returned # None}
    [] OTHER -> 1..(i - 1)

\* Each hook is given the last rewrite before it, and an observer the result itself.
EachSeesTheLast ==
  \A i \in DOMAIN log :
    \/ log[i].given = IF Outputs(i) = {} THEN Start(pass.seam)
                      ELSE log[Max(Outputs(i))].returned
    \/ NilPassedOn(i) /\ log[i].given = None

\* The i-th hook leaves what the hooks before it wrote as it is: a hook of a
\* plugin that returns nil does, the hook of the user that does so does not.
Leaves(i) ==
  \/ log[i].how = "longer"
  \/ log[i].how = "nil" /\ pass.seam \in KeepsOnNil /\ log[i].by # User

\* The loop takes a history that is as long as its own for an unchanged one.
TakenForUnchanged ==
  pass.seam = "transform_history" /\ log # <<>> /\ Last(log).returned # None
    /\ Len(Last(log).returned) = Len(Start(pass.seam))

\* What a hook wrote is in what the loop uses, unless a later one wrote over it.
NothingIsLost ==
  pass.outcome = "used" /\ pass.seam # "after_run" /\ pass.errors = {} /\ ~TakenForUnchanged =>
    \A i \in DOMAIN log :
      log[i].how = "longer" /\ (\A j \in (i + 1)..Len(log) : Leaves(j))
        => log[i].by \in ToSet(pass.value)

\* An error ends a pass, except that every observer of the end runs; a part
\* type that two plugins claim makes no pass at all.
ErrorsStop ==
  /\ registry.refused => log = <<>>
  /\ pass.seam # "after_run" =>
       \A i \in DOMAIN log : IsError(log[i].how) =>
         i = Len(log) /\ (pass.outcome = "used" => pass.seam = "after_tool_call")
  /\ pass.seam = "after_run" /\ pass.outcome # None =>
       /\ Len(log) = Len(Hooks) + Cardinality({registry.user} \ {None})
       /\ pass.errors = {log[i].by : i \in {j \in DOMAIN log : log[j].how = "fail"}}

(* The hooks of a seam work as one: a rewrite reaches the hooks after it   *)
(* and the loop, and a failure ends the pass (build, compose*, runTurn).   *)
(* Three cases are left out of it: the nil of the user's hook, which undoes *)
(* the rewrites before it; the nil that a lone hook of a plugin returns,   *)
(* which the seam takes as its value; and a rewritten history as long as   *)
(* the one of the loop, which the loop takes for an unchanged one.         *)
HooksCompose == NothingIsLost /\ EachSeesTheLast /\ ErrorsStop

=============================================================================
