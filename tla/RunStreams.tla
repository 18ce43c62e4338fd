----------------------------- MODULE RunStreams ------------------------------
(***************************************************************************)
(* POST /run, from the loop to the client: the channels between the loop,  *)
(* its drain goroutine and the handler (run.Run, Session.RunStream), the   *)
(* handler and what it defers (handleRun), the frames it writes, and the   *)
(* client that reads them (client.RunStream).                              *)
(*                                                                         *)
(* An event is its kind, the Go type the loop emits, and its number; a     *)
(* frame on the wire is the type of the envelope, the type of its data and *)
(* the number.                                                             *)
(***************************************************************************)
EXTENDS Naturals, Sequences

CONSTANTS Kinds,       \* the events the loop emits in this instance, its error apart
          Capacity,    \* bound: of each channel, 64 and 256 in the code
          MaxEvents,   \* bound: events of one run, its error not counted
          None

VARIABLES loop,        \* the goroutine of RunStream: [at, failed, emitted]
          eventCh,     \* run.Run's channel to its drain goroutine
          draining,    \* the event the sink holds, or None
          events,      \* the channel of the SessionStream
          dropped,     \* the sink has dropped an event
          cancelled,   \* the context of the run
          handler,     \* [at, tracked]: its place in handleRun, the in-flight count
          wire,        \* the frames of the response, in order
          conn,        \* of the response: "open", "ended" by the handler, "cut"
          reader       \* the client: [read, terminal, err], err is None while it reads

streamVars == <<loop, eventCh, draining, events, dropped, cancelled, handler, wire, conn, reader>>

Init ==
  /\ loop = [at |-> "running", failed |-> FALSE, emitted |-> <<>>]
  /\ eventCh = <<>> /\ draining = None /\ events = <<>>
  /\ dropped = FALSE /\ cancelled = FALSE
  /\ handler = [at |-> "reading", tracked |-> TRUE]
  /\ wire = <<>> /\ conn = "open"
  /\ reader = [read |-> 0, terminal |-> FALSE, err |-> None]

-----------------------------------------------------------------------------
(* The envelopes. *)

\* The type of the envelope: the head of a transformed context may be a marker.
classify(kind) ==
  CASE kind = "IterationStartEvent" -> "iteration_start"
    [] kind = "IterationEndEvent" -> "iteration_end"
    [] kind = "MessageEvent" -> "message"
    [] kind = "ToolUseProposedEvent" -> "tool_proposed"
    [] kind = "ToolUseAuthorizedEvent" -> "tool_authorized"
    [] kind = "ToolExecutionStartEvent" -> "tool_start"
    [] kind = "ToolExecutionProgressEvent" -> "tool_progress"
    [] kind = "ToolExecutionEndEvent" -> "tool_end"
    [] kind = "StreamPartEvent" -> "stream_part"
    [] kind = "ContextTransformedEvent with a marker" -> "compaction"
    [] kind = "ContextTransformedEvent" -> "context_transformed"
    [] kind = "ErrorEvent" -> "error"
    [] kind = "StructuredOutputEvent" -> "structured_output"
    [] OTHER -> "unknown"

\* The data of the frame: of an event the daemon does not know it is kept as it is.
canonicalRunStreamEvent(e) ==
  [type |-> classify(e.kind), n |-> e.n,
   data |-> CASE e.kind \in {"ContextTransformedEvent", "ContextTransformedEvent with a marker"}
                -> "ContextTransformed"
              [] classify(e.kind) = "unknown" -> "Unknown"
              [] OTHER -> classify(e.kind)]

\* What the client decodes the data as, by the type of the envelope.
decodeRunStreamEvent(type) ==
  CASE type \in {"compaction", "context_transformed"} -> "ContextTransformed"
    [] type = "unknown" -> "Unknown"
    [] OTHER -> type

IsTerminal(frame) == frame.type \in {"done", "error"}

-----------------------------------------------------------------------------
(* The loop and its drain goroutine. *)

HasRoom(channel) == Len(channel) < Capacity

\* emit blocks while the channel is full.
Emit(kind) ==
  LET e == [kind |-> kind, n |-> Len(loop.emitted) + 1]
  IN /\ loop.at = "running" /\ Len(loop.emitted) < MaxEvents /\ HasRoom(eventCh)
     /\ loop' = [loop EXCEPT !.emitted = Append(@, e)]
     /\ eventCh' = Append(eventCh, e)
     /\ UNCHANGED <<draining, events, dropped, cancelled, handler, wire, conn, reader>>

\* A hook, a turn or the structured output fails: an error event, then the result.
EmitError ==
  LET e == [kind |-> "ErrorEvent", n |-> Len(loop.emitted) + 1]
  IN /\ loop.at = "running" /\ HasRoom(eventCh)
     /\ loop' = [at |-> "finalized", failed |-> TRUE, emitted |-> Append(loop.emitted, e)]
     /\ eventCh' = Append(eventCh, e)
     /\ UNCHANGED <<draining, events, dropped, cancelled, handler, wire, conn, reader>>

\* The run ends without an error event: the model is done or at MaxSteps, or the
\* context is cancelled at the top of an iteration, or the run never began.
Finalize(failed) ==
  /\ loop.at = "running"
  /\ failed => cancelled \/ loop.emitted = <<>>
  /\ loop' = [loop EXCEPT !.at = "finalized", !.failed = failed]
  /\ UNCHANGED <<eventCh, draining, events, dropped, cancelled, handler, wire, conn, reader>>

Drain ==
  /\ draining = None /\ eventCh # <<>>
  /\ draining' = Head(eventCh) /\ eventCh' = Tail(eventCh)
  /\ UNCHANGED <<loop, events, dropped, cancelled, handler, wire, conn, reader>>

\* The sink waits for room, or drops the event when the context is cancelled; with
\* both the select may do either.
Forward ==
  /\ draining # None /\ HasRoom(events)
  /\ events' = Append(events, draining) /\ draining' = None
  /\ UNCHANGED <<loop, eventCh, dropped, cancelled, handler, wire, conn, reader>>

Drop ==
  /\ draining # None /\ cancelled
  /\ draining' = None /\ dropped' = TRUE
  /\ UNCHANGED <<loop, eventCh, events, cancelled, handler, wire, conn, reader>>

\* Run waits for its drain goroutine; an AfterRun hook or a write of the history may
\* still fail; the result is sent, and then the stream is closed.
Return(failed) ==
  /\ loop.at = "finalized" /\ eventCh = <<>> /\ draining = None
  /\ loop' = [loop EXCEPT !.at = "returned", !.failed = @ \/ failed]
  /\ UNCHANGED <<eventCh, draining, events, dropped, cancelled, handler, wire, conn, reader>>

-----------------------------------------------------------------------------
(* The handler. *)

\* A write to a client that has gone away is lost.
Write(frame) == wire' = IF conn = "open" THEN Append(wire, frame) ELSE wire

\* An error event ends the response: the rest of the stream is not read.
WriteEvent ==
  /\ handler.at = "reading" /\ events # <<>>
  /\ LET frame == canonicalRunStreamEvent(Head(events))
     IN /\ Write(frame)
        /\ handler' = [handler EXCEPT !.at = IF frame.type = "error" THEN "leaving" ELSE @]
  /\ events' = Tail(events)
  /\ UNCHANGED <<loop, eventCh, draining, dropped, cancelled, conn, reader>>

\* The stream is closed: the result says how the run ended.
WriteEnd ==
  /\ handler.at = "reading" /\ events = <<>> /\ loop.at = "returned"
  /\ LET type == IF loop.failed THEN "error" ELSE "done"
     IN Write([type |-> type, n |-> 0, data |-> type])
  /\ handler' = [handler EXCEPT !.at = "leaving"]
  /\ UNCHANGED <<loop, eventCh, draining, events, dropped, cancelled, conn, reader>>

\* The deferred calls, the last one first: the in-flight count, the context, the session.
Untrack ==
  /\ handler.at = "leaving" /\ handler.tracked
  /\ handler' = [handler EXCEPT !.tracked = FALSE]
  /\ UNCHANGED <<loop, eventCh, draining, events, dropped, cancelled, wire, conn, reader>>

CancelRun ==
  /\ handler.at = "leaving" /\ ~handler.tracked
  /\ cancelled' = TRUE
  /\ handler' = [handler EXCEPT !.at = "closing"]
  /\ UNCHANGED <<loop, eventCh, draining, events, dropped, wire, conn, reader>>

\* Session.Close takes runMu, whatever its own deadline; the server then ends the
\* response.
CloseSession ==
  /\ handler.at = "closing" /\ loop.at = "returned"
  /\ handler' = [handler EXCEPT !.at = "returned"]
  /\ conn' = IF conn = "open" THEN "ended" ELSE conn
  /\ UNCHANGED <<loop, eventCh, draining, events, dropped, cancelled, wire, reader>>

\* The daemon shuts down, or the client goes away and the request is cancelled.
Shutdown ==
  /\ handler.at = "reading" /\ ~cancelled
  /\ cancelled' = TRUE
  /\ UNCHANGED <<loop, eventCh, draining, events, dropped, handler, wire, conn, reader>>

Disconnect ==
  /\ handler.at # "returned" /\ conn = "open"
  /\ conn' = "cut" /\ cancelled' = TRUE
  /\ UNCHANGED <<loop, eventCh, draining, events, dropped, handler, wire, reader>>

-----------------------------------------------------------------------------
(* The client. *)

\* RunStream.Next with a whole frame; one past the client's limit is an error.
ReadFrame ==
  /\ reader.err = None /\ reader.read < Len(wire)
  /\ \/ reader' = [reader EXCEPT !.read = @ + 1, !.terminal = IsTerminal(wire[reader.read + 1])]
     \/ reader' = [reader EXCEPT !.err = "event exceeds the limit"]
  /\ UNCHANGED <<loop, eventCh, draining, events, dropped, cancelled, handler, wire, conn>>

\* ... and at the end of the body: a cut one is a read error, or half a frame that
\* does not decode, or looks like the end.
ReadEnd ==
  /\ reader.err = None
  /\ \/ reader.read = Len(wire) /\ conn \in {"ended", "cut"}
        /\ reader' = [reader EXCEPT !.err = IF reader.terminal THEN "none" ELSE "ended before a terminal event"]
     \/ conn = "cut" /\ \E err \in {"read", "decode"} : reader' = [reader EXCEPT !.err = err]
  /\ UNCHANGED <<loop, eventCh, draining, events, dropped, cancelled, handler, wire, conn>>

Next ==
  \/ \E kind \in Kinds : Emit(kind)
  \/ EmitError
  \/ \E failed \in BOOLEAN : Finalize(failed) \/ Return(failed)
  \/ Drain \/ Forward \/ Drop
  \/ WriteEvent \/ WriteEnd \/ Untrack \/ CancelRun \/ CloseSession
  \/ Shutdown \/ Disconnect
  \/ ReadFrame \/ ReadEnd

-----------------------------------------------------------------------------
(* One terminal event ends the frames of a run, whichever of the loop and  *)
(* the handler wrote it, and only a run that succeeded is done; a frame is *)
(* decoded as what it holds.                                               *)
OneTerminalEvent ==
  \A i \in DOMAIN wire :
    /\ IsTerminal(wire[i]) => i = Len(wire) /\ handler.at # "reading"
    /\ wire[i].type = "done" => loop.at = "returned" /\ ~loop.failed
    /\ decodeRunStreamEvent(wire[i].type) = wire[i].data

(* Unless it was cancelled, a client that has read a terminal event has    *)
(* every event of the run, each once and in order: the frames of the       *)
(* events are those of the first that were emitted (RunStream, handleRun). *)
NothingIsMissing ==
  ~dropped =>
    /\ \A i \in DOMAIN wire :
         wire[i].n # 0 =>
           i \in DOMAIN loop.emitted /\ wire[i] = canonicalRunStreamEvent(loop.emitted[i])
    /\ reader.terminal =>
         \A i \in DOMAIN loop.emitted :
           i \in DOMAIN wire /\ wire[i] = canonicalRunStreamEvent(loop.emitted[i])

(* A client that ends without an error has read the terminal event.        *)
EndIsKnown == reader.err = "none" => reader.read > 0 /\ IsTerminal(wire[reader.read])

(* The server does not count the request as done, nor close its session,   *)
(* while the loop still works: done() runs before the run's goroutine has  *)
(* ended, but not before the loop has (handleRun's defers).                *)
LoopHasEnded ==
  /\ ~handler.tracked => loop.at # "running"
  /\ handler.at = "returned" => loop.at = "returned"

RunEndsOnce == OneTerminalEvent /\ NothingIsMissing /\ EndIsKnown /\ LoopHasEnded
=============================================================================
