------------------------------ MODULE ToolTurn ------------------------------
(***************************************************************************)
(* The tool calls of one assistant turn, from their proposal to the final  *)
(* checkpoint of the assistant message, and what a restart makes of an     *)
(* interrupted turn.                                                       *)
(*                                                                         *)
(* Three durable records tell the same story and are written at different  *)
(* times: the row of each tool use, the assistant message with its tool    *)
(* parts, and the run.  A tool has effects outside of them all.  A crash   *)
(* may separate any two writes, any write may fail, and a write under the  *)
(* run's context may commit although its caller is told it did not.        *)
(*                                                                         *)
(* Inputs are abstracted to "proposed" (the model's) and "rewritten" (by a *)
(* BeforeToolCall hook), parts to pending or settled.  The answer of the   *)
(* permission prompter, whose own races are those of PermissionRequests,   *)
(* is any answer it can give.                                              *)
(***************************************************************************)
EXTENDS Naturals

CONSTANTS N,          \* tool calls of the turn, in source order
          MaxFaults,  \* bound: store errors of a behaviour
          MaxStops    \* bound: crashes of a behaviour

ASSUME TurnAssumption == N \in Nat \ {0} /\ MaxFaults \in Nat /\ MaxStops \in Nat

Calls == 1..N

VARIABLES
  phase,    \* of the process: "up", "down", "recovering", "recovered"
  faults, stops,
  mode,     \* ToolExecution of the batch
  run,      \* session_runs.status: "running" or "settled"
  use,      \* tool_uses.status; "none": no row
  input,    \* tool_uses.input_json
  message,  \* messages.state
  part,     \* state of each tool part of the stored message
  ctxDone,  \* the run's context was cancelled
  turn,     \* place of runTurn
  next,     \* the call that the loop of runTurn is at
  failing,  \* runErr # nil
  place,    \* place of executeOne
  args,     \* call.Args
  verdict,  \* status that settleToolUse was called with
  reported, \* calls that have a result
  executed, \* history: calls whose tool was executed, a pair with its input
  found     \* history: recovery found the run running

storeVars == <<run, use, input, message, part>>
callVars == <<place, args, verdict>>
loopVars == <<turn, next>>
processVars == <<phase, stops, found>>
vars == <<processVars, faults, mode, storeVars, ctxDone, loopVars, failing,
          callVars, reported, executed>>

Active == {"proposed", "authorized", "started"}
Terminal == {"completed", "failed", "declined", "interrupted"}
Inputs == {"proposed", "rewritten"}
Turns == {"proposing", "interrupting", "executing", "finalizing", "returned",
          "lost"}
Places == {"waiting", "checking", "authorized", "started", "running",
           "settling", "done"}

TypeOK ==
  /\ phase \in {"up", "down", "recovering", "recovered"}
  /\ faults \in 0..MaxFaults
  /\ stops \in 0..MaxStops
  /\ mode \in {"sequential", "parallel"}
  /\ run \in {"running", "settled"}
  /\ use \in [Calls -> {"none"} \cup Active \cup Terminal]
  /\ input \in [Calls -> Inputs]
  /\ message \in {"in_progress", "completed", "failed"}
  /\ part \in [Calls -> {"pending", "settled"}]
  /\ ctxDone \in BOOLEAN
  /\ turn \in Turns
  /\ next \in 1..(N + 1)
  /\ failing \in BOOLEAN
  /\ place \in [Calls -> Places]
  /\ args \in [Calls -> Inputs]
  /\ verdict \in [Calls -> {"none"} \cup Terminal]
  /\ reported \subseteq Calls
  /\ executed \subseteq Calls \X Inputs
  /\ found \in BOOLEAN

(* The model answered with N tool calls: the message is stored with pending *)
(* parts and appended to the history.                                       *)
Init ==
  /\ phase = "up" /\ faults = 0 /\ stops = 0
  /\ mode \in {"sequential", "parallel"}
  /\ run = "running"
  /\ use = [c \in Calls |-> "none"]
  /\ input = [c \in Calls |-> "proposed"]
  /\ message = "in_progress"
  /\ part = [c \in Calls |-> "pending"]
  /\ ctxDone = FALSE
  /\ turn = "proposing" /\ next = 1 /\ failing = FALSE
  /\ place = [c \in Calls |-> "waiting"]
  /\ args = [c \in Calls |-> "proposed"]
  /\ verdict = [c \in Calls |-> "none"]
  /\ reported = {} /\ executed = {} /\ found = FALSE

-----------------------------------------------------------------------------
(* SaveToolUse on an existing row *)

legalToolUseTransition(from, to) ==
  \/ from = "proposed" /\ to \in {"authorized", "declined", "failed", "interrupted"}
  \/ from = "authorized" /\ to \in {"started", "failed", "interrupted"}
  \/ from = "started" /\ to \in {"completed", "failed", "interrupted"}

(* Only an authorization may change the stored input. *)
Accepts(c, to) ==
  /\ legalToolUseTransition(use[c], to)
  /\ to = "authorized" \/ args[c] = input[c]

SaveToolUse(c, to) ==
  /\ Accepts(c, to)
  /\ use' = [use EXCEPT ![c] = to]
  /\ input' = [input EXCEPT ![c] = args[c]]

(* The store fails: nothing is written. *)
StoreFails == faults < MaxFaults /\ faults' = faults + 1

(* A write under the run's context: done and acknowledged; committed but     *)
(* reported as cancelled; or not done, for the context ended or the store    *)
(* failed.                                                                   *)
Acknowledged == ~ctxDone /\ UNCHANGED faults
ReplyLost == ctxDone /\ UNCHANGED faults
Refused == ReplyLost \/ StoreFails

-----------------------------------------------------------------------------
(* runTurn: proposals *)

ToInterrupting ==
  /\ turn' = "interrupting"
  /\ next' = 1
  /\ failing' = TRUE

(* Faulty variant: the loop runs once too often. *)
Propose ==
  /\ turn = "proposing" /\ next <= N
  /\ Acknowledged
  /\ use' = [use EXCEPT ![next] = "proposed"]
  /\ next' = next + 1
  /\ UNCHANGED <<processVars, mode, run, input, message, part, ctxDone, turn,
                 failing, callVars, reported, executed>>

(* A proposal fails; the calls proposed before it will be interrupted.  The *)
(* row of a proposal whose reply was lost is not among them.                *)
ProposeFails ==
  /\ turn = "proposing" /\ next <= N
  /\ \/ Refused /\ UNCHANGED use
     \/ ReplyLost /\ use' = [use EXCEPT ![next] = "proposed"]
  /\ ToInterrupting
  /\ reported' = 1..(next - 1)
  /\ UNCHANGED <<processVars, mode, run, input, message, part, ctxDone,
                 callVars, executed>>

(* The tool use ids are checkpointed before any tool runs. *)
CheckpointIDs ==
  /\ turn = "proposing" /\ next = N + 1
  /\ Acknowledged
  /\ turn' = "executing"
  /\ UNCHANGED <<processVars, mode, storeVars, ctxDone, next, failing,
                 callVars, reported, executed>>

CheckpointIDsFails ==
  /\ turn = "proposing" /\ next = N + 1
  /\ Refused
  /\ ToInterrupting
  /\ reported' = Calls
  /\ UNCHANGED <<processVars, mode, storeVars, ctxDone, callVars, executed>>

(* interruptToolUses, call by call, whatever became of the context. *)
interruptToolUses ==
  /\ turn = "interrupting" /\ next \in reported
  /\ next' = next + 1
  /\ \/ SaveToolUse(next, "interrupted") /\ UNCHANGED faults
     \/ StoreFails /\ UNCHANGED <<use, input>>
  /\ UNCHANGED <<processVars, mode, run, message, part, ctxDone, turn, failing,
                 callVars, reported, executed>>

Interrupted ==
  /\ turn = "interrupting" /\ next \notin reported
  /\ turn' = "finalizing"
  /\ UNCHANGED <<processVars, faults, mode, storeVars, ctxDone, next, failing,
                 callVars, reported, executed>>

-----------------------------------------------------------------------------
(* executeOne *)

(* In parallel all calls run at once; in sequence each waits for the one *)
(* before it, and an error ends the loop.                                *)
MayBegin(c) ==
  /\ turn = "executing" /\ place[c] = "waiting"
  /\ mode = "sequential" =>
       ~failing /\ \A d \in Calls : d < c => place[d] = "done"

settle(c, status) ==
  /\ place' = [place EXCEPT ![c] = "settling"]
  /\ verdict' = [verdict EXCEPT ![c] = status]

goTo(c, p) ==
  /\ place' = [place EXCEPT ![c] = p]
  /\ UNCHANGED verdict

(* The hook lets the call through, with its own arguments or the model's. *)
BeforeToolCall(c) ==
  /\ MayBegin(c)
  /\ goTo(c, "checking")
  /\ \E a \in Inputs : args' = [args EXCEPT ![c] = a]
  /\ UNCHANGED <<processVars, faults, mode, storeVars, ctxDone, loopVars,
                 failing, reported, executed>>

(* ErrSkipTool: the arguments of the call stay as they were.  Any other *)
(* error of the hook also fails the run.                                *)
BeforeToolCallRefuses(c) ==
  /\ MayBegin(c)
  /\ \/ settle(c, "declined") /\ UNCHANGED failing
     \/ settle(c, "failed") /\ failing' = TRUE
  /\ UNCHANGED <<processVars, faults, mode, storeVars, ctxDone, loopVars, args,
                 reported, executed>>

(* Unknown tool, invalid input, permission denied, rejected or not to be *)
(* had.                                                                  *)
Decline(c) ==
  /\ place[c] = "checking"
  /\ settle(c, "declined")
  /\ UNCHANGED <<processVars, faults, mode, storeVars, ctxDone, loopVars,
                 failing, args, reported, executed>>

(* The prompt timed out or was interrupted, or its store operations failed. *)
PromptFails(c) ==
  /\ place[c] = "checking"
  /\ \E status \in {"interrupted", "failed"} : settle(c, status)
  /\ failing' = TRUE
  /\ UNCHANGED <<processVars, faults, mode, storeVars, ctxDone, loopVars, args,
                 reported, executed>>

(* Faulty variant: the row is not advanced before the tool runs. *)
AdvanceUnrecorded(c, from, to) ==
  /\ place[c] = from
  /\ Acknowledged
  /\ goTo(c, to)
  /\ UNCHANGED <<use, input, processVars, mode, run, message, part, ctxDone,
                 loopVars, failing, args, reported, executed>>

(* Authorize, then Start: the row first, then the next step. *)
Advance(c, from, to) ==
  /\ place[c] = from
  /\ Acknowledged
  /\ SaveToolUse(c, to)
  /\ goTo(c, to)
  /\ UNCHANGED <<processVars, mode, run, message, part, ctxDone, loopVars,
                 failing, args, reported, executed>>

AdvanceFails(c, from, to) ==
  /\ place[c] = from
  /\ \/ Refused /\ UNCHANGED <<use, input>>
     \/ ReplyLost /\ SaveToolUse(c, to)
  /\ settle(c, "failed")
  /\ failing' = TRUE
  /\ UNCHANGED <<processVars, mode, run, message, part, ctxDone, loopVars,
                 args, reported, executed>>

Authorize(c) == Advance(c, "checking", "authorized")
AuthorizeFails(c) == AdvanceFails(c, "checking", "authorized")
Start(c) == Advance(c, "authorized", "started")
StartFails(c) == AdvanceFails(c, "authorized", "started")

Execute(c) ==
  /\ place[c] = "started"
  /\ goTo(c, "running")
  /\ executed' = executed \cup {<<c, args[c]>>}
  /\ UNCHANGED <<processVars, faults, mode, storeVars, ctxDone, loopVars,
                 failing, args, reported>>

(* An error of the tool, or an invalid result, is a result like another. *)
ExecuteReturns(c) ==
  /\ place[c] = "running"
  /\ \E status \in {"completed", "failed", "interrupted"} : settle(c, status)
  /\ UNCHANGED <<processVars, faults, mode, storeVars, ctxDone, loopVars,
                 failing, args, reported, executed>>

(* settleToolUse: the AfterToolCall hook, an error of which makes the call  *)
(* a failed one, then the terminal status of the row, written in spite of a *)
(* cancelled context.  An error of either fails the run.                    *)
settleToolUse(c) ==
  /\ place[c] = "settling"
  /\ place' = [place EXCEPT ![c] = "done"]
  /\ reported' = reported \cup {c}
  /\ \E afterErr \in BOOLEAN :
       LET status == IF afterErr THEN "failed" ELSE verdict[c] IN
       /\ verdict' = [verdict EXCEPT ![c] = status]
       /\ \/ /\ SaveToolUse(c, status)
             /\ failing' = (failing \/ afterErr)
             /\ UNCHANGED faults
          \/ /\ \/ ~Accepts(c, status) /\ UNCHANGED faults
                \/ StoreFails
             /\ failing' = TRUE
             /\ UNCHANGED <<use, input>>
  /\ UNCHANGED <<processVars, mode, run, message, part, ctxDone, loopVars,
                 args, executed>>

-----------------------------------------------------------------------------
(* runTurn: the end of the turn *)

(* Faulty variant: the first error ends the turn at once. *)
LeaveAtFirstError ==
  /\ turn = "executing"
  /\ failing \/ \A c \in Calls : place[c] = "done"
  /\ turn' = "finalizing"
  /\ UNCHANGED <<processVars, faults, mode, storeVars, ctxDone, next, failing,
                 callVars, reported, executed>>

(* Faulty variant: also in sequence, the turn waits for every call. *)
WaitForAllCalls ==
  /\ turn = "executing"
  /\ \A c \in Calls : place[c] = "done"
  /\ turn' = "finalizing"
  /\ UNCHANGED <<processVars, faults, mode, storeVars, ctxDone, next, failing,
                 callVars, reported, executed>>

(* All calls returned; in sequence, an error leaves the later ones unbegun. *)
CallsReturned ==
  /\ turn = "executing"
  /\ \A c \in Calls :
       \/ place[c] = "done"
       \/ mode = "sequential" /\ failing /\ place[c] = "waiting"
  /\ turn' = "finalizing"
  /\ UNCHANGED <<processVars, faults, mode, storeVars, ctxDone, next, failing,
                 callVars, reported, executed>>

(* Faulty variant: the message is completed whatever happened. *)
finalizeCompleted ==
  /\ turn = "finalizing"
  /\ turn' = "returned"
  /\ message' = "completed"
  /\ part' = [c \in Calls |-> IF c \in reported THEN "settled" ELSE "pending"]
  /\ UNCHANGED <<processVars, faults, mode, run, use, input, ctxDone, next,
                 failing, callVars, reported, executed>>

(* finalizeToolTurn: the parts that have a result are settled, the message *)
(* with them, in spite of a cancelled context.                             *)
finalizeToolTurn ==
  /\ turn = "finalizing"
  /\ turn' = "returned"
  /\ \/ /\ message' = IF failing THEN "failed" ELSE "completed"
        /\ part' = [c \in Calls |-> IF c \in reported THEN "settled" ELSE "pending"]
        /\ UNCHANGED <<faults, failing>>
     \/ /\ StoreFails
        /\ failing' = TRUE
        /\ UNCHANGED <<message, part>>
  /\ UNCHANGED <<processVars, mode, run, use, input, ctxDone, next, callVars,
                 reported, executed>>

(* The run is settled: SettleSessionRun of RunStore. *)
SettleRun ==
  /\ turn = "returned" /\ run = "running"
  /\ run' = "settled"
  /\ UNCHANGED <<processVars, faults, mode, use, input, message, part, ctxDone,
                 loopVars, failing, callVars, reported, executed>>

(* An abort, a deletion or a shutdown cancels the run's context. *)
Cancel ==
  /\ phase = "up" /\ ~ctxDone
  /\ ctxDone' = TRUE
  /\ UNCHANGED <<processVars, faults, mode, storeVars, loopVars, failing,
                 callVars, reported, executed>>

-----------------------------------------------------------------------------
(* The process dies and starts again. *)

Crash ==
  /\ phase # "down"
  /\ stops < MaxStops
  /\ stops' = stops + 1
  /\ phase' = "down"
  /\ turn' = "lost"
  /\ place' = [c \in Calls |-> "waiting"]
  /\ verdict' = [c \in Calls |-> "none"]
  /\ reported' = {}
  /\ UNCHANGED <<found, faults, mode, storeVars, ctxDone, next, failing, args,
                 executed>>

(* Faulty variant: only uses that were started count as active. *)
InterruptStartedToolUses ==
  /\ phase = "down"
  /\ phase' = "recovering"
  /\ use' = [c \in Calls |-> IF use[c] = "started" THEN "interrupted" ELSE use[c]]
  /\ found' = (run = "running")
  /\ UNCHANGED <<stops, faults, mode, run, input, message, part, ctxDone,
                 loopVars, failing, callVars, reported, executed>>

(* One transaction over all sessions; then the runs left running are read. *)
InterruptActiveToolUses ==
  /\ phase = "down"
  /\ phase' = "recovering"
  /\ use' = [c \in Calls |-> IF use[c] \in Active THEN "interrupted" ELSE use[c]]
  /\ found' = (run = "running")
  /\ UNCHANGED <<stops, faults, mode, run, input, message, part, ctxDone,
                 loopVars, failing, callVars, reported, executed>>

(* The message of an interrupted run: an unfinished one failed, every part *)
(* settled by its row or as interrupted.                                   *)
RecoverRunMessages ==
  /\ phase = "recovering" /\ run = "running"
  /\ message = "in_progress" \/ \E c \in Calls : part[c] = "pending"
  /\ message' = IF message = "in_progress" THEN "failed" ELSE message
  /\ part' = [c \in Calls |-> "settled"]
  /\ UNCHANGED <<processVars, faults, mode, run, use, input, ctxDone, loopVars,
                 failing, callVars, reported, executed>>

RecoverRun ==
  /\ phase = "recovering" /\ run = "running"
  /\ message # "in_progress" /\ \A c \in Calls : part[c] = "settled"
  /\ run' = "settled"
  /\ UNCHANGED <<processVars, faults, mode, use, input, message, part, ctxDone,
                 loopVars, failing, callVars, reported, executed>>

Recovered ==
  /\ phase = "recovering" /\ run = "settled"
  /\ phase' = "recovered"
  /\ UNCHANGED <<stops, found, faults, mode, storeVars, ctxDone, loopVars,
                 failing, callVars, reported, executed>>

-----------------------------------------------------------------------------

CallStep(c) ==
  \/ BeforeToolCall(c) \/ BeforeToolCallRefuses(c)
  \/ Decline(c) \/ PromptFails(c)
  \/ Authorize(c) \/ AuthorizeFails(c) \/ Start(c) \/ StartFails(c)
  \/ Execute(c) \/ ExecuteReturns(c) \/ settleToolUse(c)

TurnStep ==
  \/ Propose \/ ProposeFails \/ CheckpointIDs \/ CheckpointIDsFails
  \/ interruptToolUses \/ Interrupted
  \/ \E c \in Calls : CallStep(c)
  \/ CallsReturned \/ finalizeToolTurn \/ SettleRun

RecoveryStep ==
  InterruptActiveToolUses \/ RecoverRunMessages \/ RecoverRun \/ Recovered

Next == TurnStep \/ Cancel \/ Crash \/ RecoveryStep

Spec == Init /\ [][Next]_vars

(* The goroutines of the turn run, tools return (they have timeouts or heed *)
(* the context), and the daemon is started again.                           *)
FairSpec == Spec /\ WF_vars(TurnStep) /\ WF_vars(RecoveryStep)

-----------------------------------------------------------------------------
(* Properties *)

(* Whatever crashes and fails, a tool that had effects has a row that says *)
(* so, with the input it ran on: started committed before Execute, and no  *)
(* later write takes the row back to a status that means not executed.     *)
EffectIsRecorded ==
  \A e \in executed :
    /\ use[e[1]] \in {"started", "completed", "failed", "interrupted"}
    /\ input[e[1]] = e[2]

(* A message is completed only when its whole turn is: every tool use has  *)
(* reached a terminal status and every part shows it.                      *)
CompletedIsSettled ==
  message = "completed" =>
    \A c \in Calls : use[c] \in Terminal /\ part[c] = "settled"

(* No tool outlives its turn: when the message is finalized and the run    *)
(* settled, nothing of the batch is still executing, not even beside a     *)
(* call that failed.                                                       *)
NothingOutlivesTurn ==
  turn \in {"finalizing", "returned"} =>
    \A c \in Calls : place[c] \in {"waiting", "done"}

(* After a restart nothing is unfinished: no tool use is active, and the   *)
(* message of a run that was interrupted is not in progress and has no     *)
(* pending part.                                                           *)
RecoveredIsSettled ==
  phase = "recovered" =>
    /\ \A c \in Calls : use[c] \notin Active
    /\ found => message # "in_progress" /\ \A c \in Calls : part[c] = "settled"

(* The turn returns, and its run is settled by it or by the next process:  *)
(* no call of the batch waits for another that never begins.               *)
RunSettles == <>(run = "settled")

(* What the documentation says of the calls that are not executed: they    *)
(* settle as declined.  With a store that does not fail, a call that was   *)
(* declined has a row that says so.                                        *)
DeclinedSettles ==
  \A c \in Calls :
    place[c] = "done" /\ verdict[c] = "declined" => use[c] = "declined"
=============================================================================
