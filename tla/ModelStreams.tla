---------------------------- MODULE ModelStreams ----------------------------
(***************************************************************************)
(* One streamed model answer, from the events of the provider to the       *)
(* assistant message of the run.                                           *)
(*                                                                         *)
(* A goroutine reads server-sent events, parses them with the rules of the *)
(* provider's protocol (httpmodel/model.go, sse.go) and pushes stream      *)
(* parts into an EventStream; the run loop takes the parts out, keeps a    *)
(* live message that it checkpoints and shows to clients, and merges the   *)
(* final message into it when the stream has ended (run.go).               *)
(*                                                                         *)
(* A text or an argument string is a sequence of the fragments it came in. *)
(***************************************************************************)
EXTENDS Integers, Sequences, FiniteSets, TLC
LOCAL INSTANCE SequencesExt

CONSTANTS Protocols,  \* of "responses", "chat", "anthropic", "gemini"
          None,
          MaxEvents,  \* bound: events of one answer
          MaxCalls,   \* bound: tool calls of one answer
          Capacity    \* of the stream: the producer waits while it is reached

VARIABLES protocol,
          said,       \* what the provider has said so far
          s,          \* parseState
          channel,    \* parts pushed and not taken yet
          outcome,    \* of the stream: "open", "ok", "failed"
          cancelled,  \* the context of the call
          message,    \* parts of the live message
          indexes,    \* provider's block id -> position in the live message
          state       \* of the message

streamVars == <<protocol, said, s, channel, outcome, cancelled, message, indexes, state>>

Part(type, id, data) == [type |-> type, id |-> id, data |-> data]
Push(t, part) == [t EXCEPT !.out = Append(@, part)]
Refuse(t) == [t EXCEPT !.error = TRUE]

NoParse ==
  [text |-> <<>>, textID |-> None, reason |-> <<>>, reasonID |-> None, sig |-> None,
   tools |-> <<>>, toolBuf |-> <<>>, finish |-> "stop", out |-> <<>>, error |-> FALSE]

Init ==
  /\ protocol \in Protocols
  /\ said = [events |-> 0, index |-> 0, block |-> None, calls |-> 0]
  /\ s = NoParse
  /\ channel = <<>>
  /\ outcome = "open"
  /\ cancelled = FALSE
  /\ message = <<>>
  /\ indexes = <<>>
  /\ state = "in_progress"

-----------------------------------------------------------------------------
(* The parser. *)

pushText(t, id, delta) ==
  LET started == IF t.text = <<>> THEN Push([t EXCEPT !.textID = id], Part("text_start", id, <<>>))
                 ELSE t
  IN Push([started EXCEPT !.text = @ \o delta], Part("text_delta", id, delta))

pushReasoning(t, id, delta) ==
  LET started == IF t.reason = <<>>
                 THEN Push([t EXCEPT !.reasonID = id], Part("reasoning_start", id, <<>>))
                 ELSE t
  IN Push([started EXCEPT !.reason = @ \o delta], Part("reasoning_delta", id, delta))

completeTool(t, call) ==
  Push(Push([t EXCEPT !.tools = Append(@, call)], Part("tool_input_end", call.id, <<>>)),
       Part("tool_call", call.id, call.args))

pushToolRaw(t, call) ==
  completeTool(Push(Push(t, Part("tool_input_start", call.id, <<>>)),
                    Part("tool_input_delta", call.id, call.args)), call)

\* Reasoning is announced as ended under the last id it had.
closeOpenParts(t) ==
  LET reasoned == IF t.reason # <<>> /\ t.reasonID # None
                  THEN Push(t, Part("reasoning_end", t.reasonID, <<>>)) ELSE t
  IN IF t.text # <<>> /\ t.textID # None
     THEN Push(reasoned, Part("text_end", t.textID, <<>>)) ELSE reasoned

\* decodeArgs: the fragments together are a JSON object, or nothing at all.
decodes(args) == args \in {<<>>, <<"{}">>, <<"{", "}">>}

\* Each call finished or not, the accumulator leaves the buffer.
Unbuffer(t, i) == [t EXCEPT !.toolBuf = [j \in DOMAIN @ \ {i} |-> @[j]]]

finishReason(t, raw) ==
  [t EXCEPT !.finish = IF t.tools # <<>> \/ raw = "tool_use" THEN "tool_calls"
                       ELSE IF raw = "length" THEN "max_tokens" ELSE "stop"]

\* The message that the stream ends with: text first, then reasoning, then
\* the calls, in whatever order they came.
FinalMessage(t) ==
  LET part(kind, body, call) == [kind |-> kind, id |-> None, body |-> body, call |-> call]
  IN (IF t.text # <<>> THEN <<part("text", t.text, None)>> ELSE <<>>)
     \o (IF t.reason # <<>> \/ t.sig # None THEN <<part("reasoning", t.reason, None)>> ELSE <<>>)
     \o [i \in DOMAIN t.tools |-> part("call", t.tools[i].args, t.tools[i].id)]

-----------------------------------------------------------------------------
(* The provider: what it may say next, and what the parser does with it.    *)
(* A fragment of text is the number of the event that brought it.           *)

CallId(n) == <<"call", n>>
Fragment == <<said.events>>
JSONFragments == {"{", "}", "{}"}

\* handleSSEData: one event is parsed and its parts are pushed; an error of the
\* parser ends the stream.
Event(p, t, after) ==
  /\ protocol = p
  /\ outcome = "open" /\ ~cancelled
  /\ said.events < MaxEvents
  /\ Len(channel) < Capacity
  /\ said' = [after EXCEPT !.events = @ + 1]
  /\ s' = [t EXCEPT !.out = <<>>]
  /\ channel' = channel \o t.out \o (IF t.error THEN <<Part("error", None, <<>>)>> ELSE <<>>)
  /\ outcome' = IF t.error THEN "failed" ELSE "open"
  /\ UNCHANGED <<protocol, cancelled, message, indexes, state>>

\* An event that does not decode.
Garbled == \E p \in Protocols : Event(p, Refuse(s), said)

\* Anthropic: blocks come one after the other, each with an index.
BlockStart ==
  \E block \in {"text", "thinking", "tool_use"} :
    LET id == CallId(said.calls + 1)
        opened == [said EXCEPT !.block = block, !.index = @ + 1,
                               !.calls = IF block = "tool_use" THEN @ + 1 ELSE @]
    IN /\ said.block = None
       /\ block = "tool_use" => said.calls < MaxCalls
       /\ Event("anthropic",
            IF block = "tool_use"
            THEN Push([s EXCEPT !.toolBuf = (opened.index :> [id |-> id, args |-> <<>>]) @@ @],
                      Part("tool_input_start", id, <<>>))
            ELSE s,
            opened)

BlockDelta ==
  \/ said.block = "text" /\ Event("anthropic", pushText(s, <<"text", said.index>>, Fragment), said)
  \/ said.block = "thinking"
     /\ Event("anthropic", pushReasoning(s, <<"reasoning", said.index>>, Fragment), said)
  \/ \E f \in JSONFragments :
       /\ said.block = "tool_use"
       /\ Event("anthropic",
            Push([s EXCEPT !.toolBuf[said.index].args = Append(@, f)],
                 Part("tool_input_delta", s.toolBuf[said.index].id, <<f>>)), said)

BlockStop ==
  /\ said.block # None
  /\ Event("anthropic",
       IF said.block # "tool_use" THEN s
       ELSE LET call == s.toolBuf[said.index]
                done == completeTool(s, call)
            IN IF decodes(call.args) THEN Unbuffer(done, said.index)
               ELSE Refuse(Push(s, Part("tool_input_end", call.id, <<>>))),
       [said EXCEPT !.block = None])

MessageDelta ==
  \E raw \in {"tool_use", "length", "stop"} :
    said.block = None /\ Event("anthropic", finishReason(s, raw), said)

\* OpenAI Responses: output items, each with an id of its own; the arguments
\* of a call come in fragments, at its end, or both.
ResponseDelta ==
  \/ Event("responses", pushText(s, <<"text", 0>>, Fragment), said)
  \/ Event("responses", pushReasoning(s, <<"reasoning", said.index>>, Fragment), said)
  \/ \E f \in JSONFragments :
       /\ said.calls < MaxCalls
       /\ LET item == <<"item", said.calls>>
              old == IF item \in DOMAIN s.toolBuf THEN s.toolBuf[item].args ELSE <<>>
          IN Event("responses",
               [s EXCEPT !.toolBuf = (item :> [args |-> Append(old, f)]) @@ @], said)

ReasoningItemDone ==
  \E sig \in {None, "sig"} :
    Event("responses",
      [s EXCEPT !.reasonID = <<"reasoning", said.index>>, !.sig = IF sig = None THEN @ ELSE sig],
      [said EXCEPT !.index = @ + 1])

FunctionCallDone ==
  \E given \in {<<>>, <<"{}">>, <<"{">>} :
    LET item == <<"item", said.calls>>
        args == IF given = <<>> /\ item \in DOMAIN s.toolBuf THEN s.toolBuf[item].args ELSE given
    IN /\ said.calls < MaxCalls
       /\ Event("responses",
            IF decodes(args)
            THEN Unbuffer(pushToolRaw(s, [id |-> CallId(said.calls + 1), args |-> args]), item)
            ELSE Refuse(s),
            [said EXCEPT !.calls = @ + 1])

ResponseCompleted ==
  \E raw \in {"length", "stop"} : Event("responses", finishReason(s, raw), said)

\* OpenAI Chat: the fragments of several calls mix; the first fragment of a
\* call brings its id, and the end of the choice completes them all.
ChatDelta ==
  \/ Event("chat", pushText(s, <<"text", 0>>, Fragment), said)
  \/ Event("chat", pushReasoning(s, <<"reasoning", 0>>, Fragment), said)
  \/ \E i \in 1..MaxCalls, f \in JSONFragments \cup {None} :
       LET acc == IF i \in DOMAIN s.toolBuf THEN s.toolBuf[i]
                  ELSE [id |-> CallId(i), args |-> <<>>, started |-> FALSE]
           more == IF f = None THEN acc
                   ELSE [acc EXCEPT !.args = Append(@, f), !.started = TRUE]
           kept == [s EXCEPT !.toolBuf = (i :> more) @@ @]
           open == IF f # None /\ ~acc.started
                   THEN Push(kept, Part("tool_input_start", acc.id, <<>>)) ELSE kept
       IN /\ said.block = None
          /\ Event("chat",
               IF f = None THEN open ELSE Push(open, Part("tool_input_delta", acc.id, <<f>>)),
               said)


ChatCallRestarted(t, i) ==
  LET acc == t.toolBuf[i]
      call == [id |-> acc.id, args |-> acc.args]
  IN IF t.error \/ t.toolBuf = <<>> THEN t
     ELSE IF i \notin DOMAIN t.toolBuf \/ ~decodes(acc.args) THEN Refuse(t)
     ELSE Unbuffer(pushToolRaw(t, call), i)

\* Completed in the order of their index, which must have no gap.
ChatCallDone(t, i) ==
  LET acc == t.toolBuf[i]
      call == [id |-> acc.id, args |-> acc.args]
  IN IF t.error \/ t.toolBuf = <<>> THEN t
     ELSE IF i \notin DOMAIN t.toolBuf THEN Refuse(t)
     ELSE IF ~decodes(acc.args) THEN Refuse(t)
     ELSE Unbuffer(IF acc.started THEN completeTool(t, call) ELSE pushToolRaw(t, call), i)

ChatChoiceDone ==
  \E raw \in {"tool_use", "length", "stop"} :
    /\ said.block = None
    /\ Event("chat",
         finishReason(FoldLeft(ChatCallDone, s, [i \in 1..MaxCalls |-> i]), raw),
         [said EXCEPT !.block = "finished"])

\* Gemini: whole parts; the parser names the calls itself.
GeminiPart ==
  \/ Event("gemini", pushText(s, <<"text", 0>>, Fragment), said)
  \/ \E sig \in {None, "sig"} :
       Event("gemini",
         pushReasoning([s EXCEPT !.sig = IF sig = None THEN @ ELSE sig], <<"reasoning", 0>>, Fragment),
         said)
  \/ \E args \in {None, <<"{}">>} :
       /\ Len(s.tools) < MaxCalls
       /\ Event("gemini",
            IF args = None THEN Refuse(s)
            ELSE pushToolRaw(s, [id |-> CallId(Len(s.tools) + 1), args |-> args]),
            said)

GeminiFinish == \E raw \in {"length", "stop"} : Event("gemini", finishReason(s, raw), said)

\* readSSE ends: the body is over, with a call incomplete or not, or it breaks
\* (or a line comes after the context was cancelled).
End(t, failed) ==
  LET last == Append(t.out, Part(IF failed THEN "error" ELSE "finish", None, <<>>))
  IN /\ outcome = "open"
     /\ s' = [t EXCEPT !.out = <<>>]
     /\ outcome' = IF failed THEN "failed" ELSE "ok"
     /\ \/ channel' = channel \o last
        \/ cancelled /\ channel' = channel
     /\ UNCHANGED <<protocol, said, cancelled, message, indexes, state>>

BodyEnds == IF s.toolBuf # <<>> THEN End(s, TRUE) ELSE End(closeOpenParts(s), FALSE)
BodyBreaks == End(s, TRUE)

\* The context is cancelled: from here on a push may be lost, and the reader
\* stops at its next line, if there is one.
Cancel ==
  /\ outcome = "open" /\ ~cancelled
  /\ cancelled' = TRUE
  /\ UNCHANGED <<protocol, said, s, channel, outcome, message, indexes, state>>

-----------------------------------------------------------------------------
(* The run loop. *)

PartOf(type) ==
  CASE type \in {"text_start"} -> "text"
    [] type \in {"reasoning_start"} -> "reasoning"
    [] OTHER -> "call"

\* The checkpoint gives a part its id; here its position, for the live message
\* only grows.
NewPart(kind, call, body) == [kind |-> kind, id |-> Len(message) + 1, body |-> body, call |-> call]

\* applyStreamPart: deltas of a block that was not started are not kept.
applyStreamPart(part) ==
  LET known == part.id \in DOMAIN indexes
      append(new) == /\ message' = Append(message, new)
                     /\ indexes' = (part.id :> Len(message) + 1) @@ indexes
  IN \/ /\ part.type \in {"text_start", "reasoning_start", "tool_input_start"}
        /\ append(NewPart(PartOf(part.type), None, <<>>))
     \/ /\ part.type \in {"text_delta", "reasoning_delta", "tool_input_delta"} /\ known
        /\ message' = [message EXCEPT ![indexes[part.id]].body = @ \o part.data]
        /\ UNCHANGED indexes
     \/ /\ part.type = "tool_call" /\ known
        /\ message' = [message EXCEPT ![indexes[part.id]].call = part.id]
        /\ UNCHANGED indexes
     \/ /\ part.type = "tool_call" /\ ~known
        /\ append(NewPart("call", part.id, <<>>))
     \/ /\ \/ part.type \in {"text_end", "reasoning_end", "tool_input_end", "finish", "error"}
           \/ part.type \in {"text_delta", "reasoning_delta", "tool_input_delta"} /\ ~known
        /\ UNCHANGED <<message, indexes>>

TakePart ==
  /\ channel # <<>>
  /\ applyStreamPart(Head(channel))
  /\ channel' = Tail(channel)
  /\ UNCHANGED <<protocol, said, s, outcome, cancelled, state>>

\* The parts of a kind in the live message, in their order.
Live(kind) == SelectSeq(message, LAMBDA p : p.kind = kind)

\* The n-th text (or reasoning) of the final message is the n-th live one; a
\* call is the live part with its call id, and keeps the argument text that was
\* streamed.  What was not live gets an id of its own.
mergeFinalAssistant(final) ==
  LET nth(i) == Cardinality({j \in 1..i : final[j].kind = final[i].kind})
      called(i) == {j \in DOMAIN message : message[j].kind = "call" /\ message[j].call = final[i].call}
      merged(i) ==
        IF final[i].kind = "call"
        THEN IF called(i) = {} THEN final[i]
             ELSE message[CHOOSE j \in called(i) : \A k \in called(i) : k <= j]
        ELSE IF nth(i) > Len(Live(final[i].kind)) THEN final[i]
             ELSE [final[i] EXCEPT !.id = Live(final[i].kind)[nth(i)].id]
  IN [i \in DOMAIN final |->
        IF merged(i).id = None THEN [merged(i) EXCEPT !.id = Len(message) + i] ELSE merged(i)]

Merge ==
  /\ outcome = "ok" /\ channel = <<>> /\ state = "in_progress"
  /\ message' = mergeFinalAssistant(FinalMessage(s))
  /\ state' = "completed"
  /\ UNCHANGED <<protocol, said, s, channel, outcome, cancelled, indexes>>

\* retainFailedAssistant: the live message is what remains.
RetainFailed ==
  /\ outcome = "failed" /\ channel = <<>> /\ state = "in_progress"
  /\ state' = "failed"
  /\ UNCHANGED <<protocol, said, s, channel, outcome, cancelled, message, indexes>>

Next ==
  \/ Garbled
  \/ BlockStart \/ BlockDelta \/ BlockStop \/ MessageDelta
  \/ ResponseDelta \/ ReasoningItemDone \/ FunctionCallDone \/ ResponseCompleted
  \/ ChatDelta \/ ChatChoiceDone
  \/ GeminiPart \/ GeminiFinish
  \/ BodyEnds \/ BodyBreaks \/ Cancel
  \/ TakePart \/ Merge \/ RetainFailed

Spec == Init /\ [][Next]_streamVars

-----------------------------------------------------------------------------
(* Properties. *)

\* A client that follows the answer is never contradicted by its end: when the
\* final message replaces the live one, every part that was shown is still
\* there under its id and of its kind, with what was shown of it as a prefix;
\* no two parts share an id; and the arguments a tool will run with are the
\* fragments that were streamed for it.
KeepsIdentity ==
  (state = "in_progress" /\ state' = "completed" /\ ~cancelled) =>
       /\ \A i \in DOMAIN message : \E j \in DOMAIN message' :
            /\ message'[j].id = message[i].id
            /\ message'[j].kind = message[i].kind
            /\ IsPrefix(message[i].body, message'[j].body)
       /\ \A i, j \in DOMAIN message' : i # j => message'[i].id # message'[j].id
       /\ \A k \in DOMAIN s.tools : \E j \in DOMAIN message' :
            message'[j].call = s.tools[k].id /\ message'[j].body = s.tools[k].args

PartsKeepIdentity == [][KeepsIdentity]_streamVars
=============================================================================
