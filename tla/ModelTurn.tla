------------------------------ MODULE ModelTurn -----------------------------
(***************************************************************************)
(* One run of an agent session: the loop over turns (agent/run/run.go), the *)
(* attempts to call the model in each turn, the checkpoints of the          *)
(* assistant message while its stream arrives, and what Session.runWith     *)
(* (agent/session) makes of the result.                                     *)
(*                                                                          *)
(* The store is one row for the message of each turn and one for each model *)
(* call.  A store call made with the run's context fails once the run is    *)
(* cancelled, and may then have committed all the same; any store call may  *)
(* fail by itself, at most Faults times.  The execution of the tool calls   *)
(* of a turn is one step here; ToolTurn has its detail.                     *)
(*                                                                          *)
(* A session sets no limit on the turns of a run (runWith leaves            *)
(* Config.MaxSteps at 0), so a model that never stops proposing tools runs  *)
(* on until it is cancelled.  The module has runs with a limit and runs     *)
(* without; one without a limit that has had MaxTurns turns stays at the    *)
(* top of its loop here.                                                    *)
(***************************************************************************)
EXTENDS Naturals, Sequences, FiniteSets

CONSTANTS MaxTurns,     \* bound: turns of a run
          StepLimits,   \* values of Config.MaxSteps; 0 is no limit
          MaxAttempts,  \* RetryPolicy.MaxAttempts
          MaxParts,     \* bound: stream parts of one model call
          Faults        \* bound: store calls that fail by themselves

ASSUME BoundsAreNatural ==
  /\ MaxTurns \in Nat /\ StepLimits \subseteq 0..MaxTurns
  /\ MaxAttempts \in Nat \ {0} /\ MaxParts \in Nat /\ Faults \in Nat

Steps == 1..MaxTurns
Attempts == 1..MaxAttempts

VARIABLES limit,       \* Config.MaxSteps of the run
          pc,          \* where the goroutine of the run is
          then,        \* where it goes once the failed message is retained
          ctx,         \* "live" or "cancelled"
          step, attempt, parts,
          msg,         \* the assistant message of the turn, in memory
          failure,     \* error on its way out of the turn: "none", "failed", "cancelled"
          turnFailure, \* turn.Failure, which later names the status of the call
          turns,       \* r.turns
          messages,    \* r.messages: what the history holds for each step
          rows,        \* stored message of each step
          calls,       \* stored model call of each attempt
          events,      \* MessageEvents on their way to the sink
          outcome,     \* the error that Run returns
          persistErr,  \* the first error of the sink or of persistModelCall
          faults,      \* store calls that failed by themselves
          lost         \* a store call committed and reported an error

vars == <<limit, pc, then, ctx, step, attempt, parts, msg, failure, turnFailure, turns, messages,
          rows, calls, events, outcome, persistErr, faults, lost>>

turnVars == <<step, attempt, parts>>
endVars == <<turns, events, outcome, persistErr>>

None == "none"
CallTerminal == {"completed", "failed", "aborted"}
NoMessage == [state |-> None, revision |-> 0]
callId == <<step, attempt>>

Init ==
  /\ limit \in StepLimits
  /\ pc = "top" /\ then = None /\ ctx = "live"
  /\ step = 0 /\ attempt = 0 /\ parts = 0
  /\ msg = [state |-> None, revision |-> 0, named |-> FALSE]
  /\ failure = None /\ turnFailure = None
  /\ turns = <<>> /\ messages = [s \in Steps |-> NoMessage]
  /\ rows = [s \in Steps |-> NoMessage]
  /\ calls = [c \in Steps \X Attempts |-> None]
  /\ events = <<>> /\ outcome = None /\ persistErr = FALSE
  /\ faults = 0 /\ lost = FALSE

-----------------------------------------------------------------------------
(* Store calls.  A reply is "ok", or the error that the caller sees.        *)

Commits == UNCHANGED <<faults, lost>>

\* The ways in which a store call can go: it commits and says so; it fails by
\* itself; the run was cancelled, and the call failed or committed unseen.
StoreCall(useCtx, reply, committed) ==
  \/ /\ useCtx => ctx = "live"
     /\ reply = None /\ committed
     /\ Commits
  \/ /\ faults < Faults
     /\ reply = "failed" /\ ~committed
     /\ faults' = faults + 1 /\ UNCHANGED lost
  \/ /\ useCtx /\ ctx = "cancelled"
     /\ reply = "cancelled"
     /\ lost' = (lost \/ committed) /\ UNCHANGED faults

Replies == {None, "failed", "cancelled"}

\* persistMessage: an unnamed message gets an id with the first save, which
\* reaches the caller only with the reply.  The index of the step is taken for
\* good, so that a second id cannot be stored for it.
persistMessage(useCtx, state, revision, reply) ==
  \E committed \in BOOLEAN :
    /\ IF ~msg.named /\ rows[step] # NoMessage
       THEN /\ reply = "failed" /\ ~committed /\ Commits
       ELSE StoreCall(useCtx, reply, committed)
    /\ rows' = IF committed
               THEN [rows EXCEPT ![step] = [state |-> state, revision |-> revision]]
               ELSE rows

\* r.checkpoint of the current message.
checkpoint(useCtx, state, reply) ==
  /\ persistMessage(useCtx, state, msg.revision + 1, reply)
  /\ msg' = [state |-> state, revision |-> msg.revision + 1,
             named |-> msg.named \/ reply = None]

upsertInsertsOnly(useCtx, id, status, reply) ==
  \E committed \in BOOLEAN :
    /\ StoreCall(useCtx, reply, committed)
    /\ calls' = IF committed /\ calls[id] = None THEN [calls EXCEPT ![id] = status] ELSE calls

\* UpsertModelCall writes whatever status it is given.
upsert(useCtx, id, status, reply) ==
  \E committed \in BOOLEAN :
    /\ StoreCall(useCtx, reply, committed)
    /\ calls' = IF committed THEN [calls EXCEPT ![id] = status] ELSE calls

\* modelCallRecord: the status that an error gives to the call.
statusOf(error) ==
  IF error = None THEN "completed" ELSE IF error = "cancelled" THEN "aborted" ELSE "failed"

JoinForgetsSecond(a, b) == a

\* errors.Join: a cancellation anywhere in the error is found by errors.Is.
Join(a, b) ==
  IF "cancelled" \in {a, b} THEN "cancelled" ELSE IF a = None THEN b ELSE a

-----------------------------------------------------------------------------
(* The loop. *)

\* The failed message is retained, and what comes after it.
RetainThen(next) == pc' = "retain" /\ then' = next
GoTo(place) == pc' = place /\ UNCHANGED then

Return(error) == /\ pc' = "closing" /\ outcome' = error
                 /\ UNCHANGED <<turns, events, persistErr>>

TopCancelled ==
  /\ pc = "top" /\ ctx = "cancelled"
  /\ Return("cancelled")
  /\ UNCHANGED <<then, ctx, turnVars, msg, failure, turnFailure, messages, rows, calls, faults, lost>>

TopMaxSteps ==
  /\ pc = "top" /\ ctx = "live" /\ limit > 0 /\ step >= limit
  /\ Return(None)
  /\ UNCHANGED <<then, ctx, turnVars, msg, failure, turnFailure, messages, rows, calls, faults, lost>>

\* The hooks that build the request may fail the run.
Build(error) ==
  /\ pc = "top" /\ ctx = "live" /\ (limit > 0 => step < limit)
  /\ step < MaxTurns
  /\ step' = step + 1 /\ attempt' = 1 /\ parts' = 0
  /\ msg' = [state |-> "in_progress", revision |-> 0, named |-> FALSE]
  /\ failure' = None /\ turnFailure' = None
  /\ IF error = None THEN pc' = "first" /\ UNCHANGED endVars ELSE Return(error)
  /\ UNCHANGED <<then, ctx, messages, rows, calls, faults, lost>>

\* The first checkpoint, before the model is called.
FirstCheckpoint(reply) ==
  /\ pc = "first"
  /\ checkpoint(TRUE, "in_progress", reply)
  /\ failure' = reply
  /\ IF reply = None THEN GoTo("start") ELSE RetainThen("noTurn")
  /\ UNCHANGED <<ctx, turnVars, turnFailure, messages, calls, endVars>>

StartCall(reply) ==
  /\ pc = "start"
  /\ upsert(TRUE, callId, "started", reply)
  /\ failure' = reply
  /\ IF reply = None THEN GoTo("open") ELSE RetainThen("noTurn")
  /\ UNCHANGED <<ctx, turnVars, msg, turnFailure, messages, rows, endVars>>

\* The provider answers, or fails with an error that may be worth a retry.
Open(error, retryable) ==
  /\ pc = "open"
  /\ error = "cancelled" => ctx = "cancelled"
  /\ failure' = error /\ turnFailure' = error
  /\ CASE error = None -> GoTo("stream")
       [] error # None /\ retryable /\ attempt < MaxAttempts -> GoTo("resettle")
       [] OTHER -> RetainThen("finishFailed")
  /\ UNCHANGED <<ctx, turnVars, msg, messages, rows, calls, endVars, faults, lost>>

SettleAttemptAsCompleted(reply) ==
  /\ pc = "resettle"
  /\ upsert(FALSE, callId, "completed", reply)
  /\ failure' = Join(failure, reply)
  /\ IF reply = None THEN GoTo("wait") ELSE RetainThen("turnFailed")
  /\ UNCHANGED <<ctx, turnVars, msg, turnFailure, messages, rows, endVars>>

\* The failed attempt is recorded before the next one.
SettleAttempt(reply) ==
  /\ pc = "resettle"
  /\ upsert(FALSE, callId, statusOf(turnFailure), reply)
  /\ failure' = Join(failure, reply)
  /\ IF reply = None THEN GoTo("wait") ELSE RetainThen("turnFailed")
  /\ UNCHANGED <<ctx, turnVars, msg, turnFailure, messages, rows, endVars>>

WaitRetry ==
  /\ pc = "wait"
  /\ \/ /\ GoTo("start") /\ attempt' = attempt + 1
        /\ failure' = None /\ turnFailure' = None
     \/ /\ ctx = "cancelled"
        /\ RetainThen("turnFailed")
        /\ failure' = "cancelled" /\ turnFailure' = "cancelled"
        /\ UNCHANGED attempt
  /\ UNCHANGED <<ctx, step, parts, msg, messages, rows, calls, endVars, faults, lost>>

\* A part of the stream that changes the message is checkpointed at once.
StreamPart(reply) ==
  /\ pc = "stream" /\ parts < MaxParts
  /\ parts' = parts + 1
  /\ checkpoint(TRUE, "in_progress", reply)
  /\ failure' = reply
  /\ turnFailure' = reply
  /\ IF reply = None THEN GoTo("stream") ELSE RetainThen("finishFailed")
  /\ UNCHANGED <<ctx, step, attempt, messages, calls, endVars>>

StreamFails(error) ==
  /\ pc = "stream"
  /\ error = "cancelled" => ctx = "cancelled"
  /\ failure' = error /\ turnFailure' = error
  /\ RetainThen("finishFailed")
  /\ UNCHANGED <<ctx, turnVars, msg, messages, rows, calls, endVars, faults, lost>>

\* The assembled message replaces the streamed one.
StreamEnds(reply) ==
  /\ pc = "stream"
  /\ checkpoint(TRUE, "in_progress", reply)
  /\ failure' = reply /\ turnFailure' = reply
  /\ IF reply = None THEN GoTo("finish") ELSE RetainThen("finishFinal")
  /\ UNCHANGED <<ctx, turnVars, messages, calls, endVars>>

RetainInStoreOnly(reply) ==
  /\ pc = "retain"
  /\ checkpoint(FALSE, "failed", reply)
  /\ UNCHANGED messages
  /\ failure' = Join(failure, reply)
  /\ pc' = then
  /\ UNCHANGED <<then, ctx, turnVars, turnFailure, calls, endVars>>

\* retainFailedAssistant: best effort, whatever became of the context.
Retain(reply) ==
  /\ pc = "retain"
  /\ checkpoint(FALSE, "failed", reply)
  /\ messages' = [messages EXCEPT ![step] = [state |-> "failed", revision |-> msg.revision + 1]]
  /\ failure' = Join(failure, reply)
  /\ pc' = then
  /\ UNCHANGED <<then, ctx, turnVars, turnFailure, calls, endVars>>

\* finishModelCall with the error of the call; with none when only the last
\* checkpoint of a finished stream failed.
FinishFailed(reply) ==
  /\ pc \in {"finishFailed", "finishFinal"}
  /\ upsert(FALSE, callId,
            IF pc = "finishFinal" THEN "completed" ELSE statusOf(failure), reply)
  /\ failure' = Join(failure, reply)
  /\ pc' = "turnFailed"
  /\ UNCHANGED <<then, ctx, turnVars, msg, turnFailure, messages, rows, endVars>>

\* The one exit that does not retain the message.
Finish(reply) ==
  /\ pc = "finish"
  /\ upsert(FALSE, callId, "completed", reply)
  /\ failure' = reply
  /\ pc' = IF reply = None THEN "assembled" ELSE "turnFailed"
  /\ UNCHANGED <<then, ctx, turnVars, msg, turnFailure, messages, rows, endVars>>

\* A MessageEvent of the message as it was checkpointed.
Announce(revision) == events' = Append(events, [step |-> step, revision |-> revision])

\* No tool calls: the message is complete.
AnswerOnly(reply) ==
  /\ pc = "assembled"
  /\ checkpoint(TRUE, "completed", reply)
  /\ failure' = reply /\ turnFailure' = reply
  /\ IF reply = None
     THEN /\ messages' = [messages EXCEPT ![step] =
                            [state |-> "completed", revision |-> msg.revision + 1]]
          /\ Announce(msg.revision + 1)
          /\ GoTo("answered")
     ELSE /\ RetainThen("turnFailed") /\ UNCHANGED <<messages, events>>
  /\ UNCHANGED <<ctx, turnVars, calls, turns, outcome, persistErr>>

\* Tool calls: the message is kept before they run.
ProposeTools(reply) ==
  /\ pc = "assembled"
  /\ checkpoint(TRUE, "in_progress", reply)
  /\ failure' = reply /\ turnFailure' = reply
  /\ messages' = IF reply = None
                 THEN [messages EXCEPT ![step] =
                         [state |-> "in_progress", revision |-> msg.revision + 1]]
                 ELSE messages
  /\ IF reply = None THEN GoTo("tools") ELSE RetainThen("turnFailed")
  /\ UNCHANGED <<ctx, turnVars, calls, endVars>>

\* The calls return and the message is finalized, with their results or failed.
RunTools(error, reply) ==
  /\ pc = "tools"
  /\ LET state == IF error = None THEN "completed" ELSE "failed"
     IN /\ checkpoint(FALSE, state, reply)
        /\ messages' = [messages EXCEPT ![step] =
                          [state |-> state, revision |-> msg.revision + 1]]
  /\ failure' = Join(error, reply)
  /\ IF error = None /\ reply = None THEN Announce(msg.revision + 1) ELSE UNCHANGED events
  /\ pc' = IF failure' = None THEN "worked" ELSE "turnFailed"
  /\ UNCHANGED <<then, ctx, turnVars, turnFailure, calls, turns, outcome, persistErr>>

Turn == [step |-> step, attempt |-> attempt, failure |-> turnFailure]

\* A turn whose call was never recorded is the empty one and is left out.
TurnFailed ==
  /\ pc \in {"noTurn", "turnFailed"}
  /\ turns' = IF pc = "noTurn" THEN turns ELSE Append(turns, Turn)
  /\ pc' = "closing" /\ outcome' = failure
  /\ UNCHANGED <<then, ctx, turnVars, msg, failure, turnFailure, messages, rows, calls, events,
                 persistErr, faults, lost>>

TurnWorked ==
  /\ pc = "worked"
  /\ turns' = Append(turns, Turn) /\ pc' = "top"
  /\ UNCHANGED <<then, ctx, turnVars, msg, failure, turnFailure, messages, rows, calls, events,
                 outcome, persistErr, faults, lost>>

\* The end of the run, if the answer passes the output schema.
TurnAnswered(error) ==
  /\ pc = "answered"
  /\ turns' = Append(turns, Turn) /\ pc' = "closing" /\ outcome' = error
  /\ UNCHANGED <<then, ctx, turnVars, msg, failure, turnFailure, messages, rows, calls, events,
                 persistErr, faults, lost>>

-----------------------------------------------------------------------------
(* Beside the loop and after it. *)

SinkSavesUntilOK(reply) ==
  /\ events # <<>>
  /\ LET e == Head(events)
     IN IF rows[e.step].revision > e.revision
        THEN /\ reply = "failed" /\ Commits
        ELSE \E committed \in BOOLEAN : StoreCall(TRUE, reply, committed)
  /\ events' = IF reply = None THEN Tail(events) ELSE events
  /\ persistErr' = (persistErr \/ reply # None)
  /\ UNCHANGED <<pc, then, ctx, turnVars, msg, failure, turnFailure, turns, messages, rows, calls,
                 outcome>>

\* The sink saves the message of an event once more: the same revision.
SinkSaves(reply) ==
  /\ events # <<>>
  /\ LET e == Head(events)
     IN IF rows[e.step].revision > e.revision
        THEN /\ reply = "failed" /\ Commits
        ELSE \E committed \in BOOLEAN : StoreCall(TRUE, reply, committed)
  /\ events' = Tail(events)
  /\ persistErr' = (persistErr \/ reply # None)
  /\ UNCHANGED <<pc, then, ctx, turnVars, msg, failure, turnFailure, turns, messages, rows, calls,
                 outcome>>

\* Run waits for the sink before it returns.
Drained ==
  /\ pc = "closing" /\ events = <<>>
  /\ pc' = "persist"
  /\ UNCHANGED <<then, ctx, turnVars, msg, failure, turnFailure, turns, messages, rows, calls,
                 events, outcome, persistErr, faults, lost>>

\* runWith writes the call of every turn once more, with turn.Failure.
PersistModelCall(reply) ==
  /\ pc = "persist" /\ turns # <<>>
  /\ LET t == Head(turns)
     IN upsert(FALSE, <<t.step, t.attempt>>, statusOf(t.failure), reply)
  /\ turns' = Tail(turns)
  /\ persistErr' = (persistErr \/ reply # None)
  /\ UNCHANGED <<pc, then, ctx, turnVars, msg, failure, turnFailure, messages, rows, events, outcome>>

Returned ==
  /\ pc = "persist" /\ turns = <<>>
  /\ pc' = "returned"
  /\ UNCHANGED <<then, ctx, turnVars, msg, failure, turnFailure, turns, messages, rows, calls,
                 events, outcome, persistErr, faults, lost>>

\* An abort, a deletion or the end of the daemon.
Cancel ==
  /\ ctx = "live" /\ pc # "returned"
  /\ ctx' = "cancelled"
  /\ UNCHANGED <<pc, then, turnVars, msg, failure, turnFailure, turns, messages, rows, calls,
                 events, outcome, persistErr, faults, lost>>

Errors == {"failed", "cancelled"}

LoopSteps ==
  \/ TopCancelled \/ TopMaxSteps \/ WaitRetry \/ TurnFailed \/ TurnWorked
  \/ \E e \in {None, "failed"} : Build(e) \/ TurnAnswered(e)
  \/ \E r \in Replies : \/ FirstCheckpoint(r) \/ StartCall(r) \/ SettleAttempt(r)
                        \/ StreamPart(r) \/ StreamEnds(r) \/ Retain(r) \/ FinishFailed(r)
                        \/ Finish(r) \/ AnswerOnly(r) \/ ProposeTools(r)
  \/ Open(None, FALSE)
  \/ \E e \in Errors : Open(e, FALSE) \/ StreamFails(e)
  \/ Open("failed", TRUE)
  \/ \E e \in {None, "failed", "cancelled"}, r \in Replies :
       (e = "cancelled" => ctx = "cancelled") /\ RunTools(e, r)
  \/ Drained \/ Returned \/ \E r \in Replies : PersistModelCall(r)

Loop == LoopSteps /\ UNCHANGED limit

Sink == (\E r \in Replies : SinkSaves(r)) /\ UNCHANGED limit

Done == pc = "returned" /\ UNCHANGED vars

Next == Loop \/ Sink \/ (Cancel /\ UNCHANGED limit) \/ Done

\* The loop and the sink are goroutines that the scheduler runs; a provider's
\* stream ends and a tool returns (both are given the run's context).  No
\* abort need come.
Spec == Init /\ [][Next]_vars /\ WF_vars(Loop) /\ WF_vars(Sink)

-----------------------------------------------------------------------------
(* Properties. *)

\* A retry is on the record: an attempt starts only after the one before it was
\* stored as failed, whatever the store and the abort did in between.
RetriesAreRecorded ==
  \A c \in Steps \X Attempts :
    c[2] > 1 /\ calls[c] # None => calls[<<c[1], c[2] - 1>>] \in {"failed", "aborted"}

\* A returned run leaves no model call that says it is still under way and no
\* message in progress, however it was aborted, unless the store failed or
\* committed unseen.
NothingUnderWay ==
  pc = "returned" /\ faults = 0 /\ ~lost =>
    /\ \A c \in Steps \X Attempts : calls[c] # "started"
    /\ \A s \in Steps : rows[s].state # "in_progress"

\* The history that the session keeps in memory is the stored one.
HistoryIsStored ==
  pc = "returned" /\ faults = 0 /\ ~lost => messages = rows

\* A run whose loop ends without an error has stored every message as completed
\* and every last attempt as completed, whatever was cancelled or failed on the
\* way, and whatever the saves of the sink and of runWith come to.
SuccessIsWhole ==
  pc = "returned" /\ outcome = None =>
    \A s \in 1..step :
      /\ rows[s].state = "completed"
      /\ \E a \in Attempts : /\ calls[<<s, a>>] = "completed"
                             /\ \A b \in Attempts : b > a => calls[<<s, b>>] = None

\* Every turn ends, whatever the provider, the store and the sink do: the run
\* comes back to the top of its loop or returns.  A run that has a limit on its
\* turns, that is cancelled, or that has its answer, returns.  (A run without a
\* limit may go on for as long as the model proposes tools.)
RunReturns ==
  /\ (pc # "top") ~> (pc \in {"top", "returned"})
  /\ (limit > 0 \/ ctx = "cancelled" \/ pc \in {"answered", "closing"}) ~>
       (pc = "returned")
=============================================================================
