---------------------------- MODULE ModelRequests ----------------------------
(***************************************************************************)
(* The history of a session as the providers are sent it                   *)
(* (models/models.go, httpmodel/model.go): results of tools are owned by   *)
(* the assistant messages that asked for them, and each request is lowered *)
(* to calls and results in the form of the provider's protocol.            *)
(*                                                                         *)
(* A request is the sequence of its items; which message or block of the   *)
(* body an item is in is told by its "in" field.                           *)
(***************************************************************************)
EXTENDS Integers, Sequences, FiniteSets, Functions

CONSTANTS Protocols,    \* of "responses", "chat", "anthropic", "gemini"
          CallIds,      \* a provider may use the id of a call again in a later answer
          MaxMessages   \* bound: messages of the history

VARIABLE history

requestVars == <<history>>

Text == [kind |-> "text"]
Image(data) == [kind |-> "image", data |-> data]              \* bytes, or only an address
Reasoning(sealedBy) == [kind |-> "reasoning", sealedBy |-> sealedBy]
Tool(call, state) == [kind |-> "tool", call |-> call, state |-> state]
ToolCall(call) == [kind |-> "call", call |-> call]
ToolResult(call, isError) == [kind |-> "result", call |-> call, isError |-> isError]
Message(role, content) == [role |-> role, content |-> content]

\* The elements of s at positions of I, and the elements of all of seqs.
Picked(s, I) ==
  LET len == Len(s)
      picked[n \in 0..len] ==
        IF n = 0 THEN <<>> ELSE IF n \in I THEN Append(picked[n - 1], s[n]) ELSE picked[n - 1]
  IN picked[len]
Joined(seqs) ==
  LET len == Len(seqs)
      joined[n \in 0..len] == IF n = 0 THEN <<>> ELSE joined[n - 1] \o seqs[n]
  IN joined[len]
OfKind(content, kinds) == Picked(content, {i \in DOMAIN content : content[i].kind \in kinds})
MapSeq(s, Op(_)) == [i \in DOMAIN s |-> Op(s[i])]

-----------------------------------------------------------------------------
(* Histories. *)

Init == history = <<>>

\* What a provider may answer with, before the calls it asks for.
Leads == {<<>>, <<Reasoning("responses"), Text>>, <<Reasoning("anthropic")>>}
Asked == {asked \in UNION {[1..n -> CallIds] : n \in 0..2} : IsInjective(asked)}

LastOf(msgs) == msgs[Len(msgs)]
LastIsAnswer == history # <<>> /\ LastOf(history).role = "assistant"

\* A run begins: what an earlier run left unsettled is settled as an error
\* (finalizeUnsettledTools), and the message of the user is appended.
StartRun ==
  \E content \in {<<Text>>, <<Image(TRUE), Image(FALSE)>>} :
    LET settled(p) == IF p.kind = "tool" /\ p.state = "unsettled"
                      THEN [p EXCEPT !.state = "error"] ELSE p
        finalize(m) == IF m.role = "assistant"
                       THEN [m EXCEPT !.content = MapSeq(@, settled)] ELSE m
    IN /\ Len(history) < MaxMessages
       /\ history' = Append(MapSeq(history, finalize), Message("user", content))

Answer ==
  /\ history # <<>> /\ Len(history) < MaxMessages
  /\ \E lead \in Leads, asked \in Asked :
       history' = Append(history,
         Message("assistant", lead \o [i \in DOMAIN asked |-> Tool(asked[i], "unsettled")]))

\* A call of the last answer, pending or running, settles.
ToolSettles ==
  /\ LastIsAnswer
  /\ \E i \in DOMAIN LastOf(history).content, state \in {"completed", "error"} :
       LET p == LastOf(history).content[i]
       IN /\ p.kind = "tool" /\ p.state = "unsettled"
          /\ history' = [history EXCEPT ![Len(history)].content[i].state = state]

\* Messages of an older form, with which a session may begin: calls in the
\* answer and their results in messages of a role of their own.
AddLegacyTurn ==
  /\ Len(history) + 2 <= MaxMessages
  /\ \A i \in DOMAIN history : OfKind(history[i].content, {"tool"}) = <<>>
  /\ \E asked \in Asked \ {<<>>}, answered \in Asked, isError \in BOOLEAN :
       history' = history \o
         <<Message("assistant", [i \in DOMAIN asked |-> ToolCall(asked[i])]),
           Message("tool", [i \in DOMAIN answered |-> ToolResult(answered[i], isError)])>>

-----------------------------------------------------------------------------
(* The canonical form: calls and results in the assistant message. *)

normalizeToolCalls(content) ==
  MapSeq(content, LAMBDA p : IF p.kind = "call" THEN Tool(p.call, "unsettled") ELSE p)

\* Where the result of a call belongs: its last use, or nowhere.
UseOf(msgs, call) ==
  LET uses == {u \in (DOMAIN msgs) \X (1..10) :
                 /\ msgs[u[1]].role = "assistant" /\ u[2] \in DOMAIN msgs[u[1]].content
                 /\ msgs[u[1]].content[u[2]].kind = "tool" /\ msgs[u[1]].content[u[2]].call = call}
  IN {u \in uses : \A v \in uses : v[1] < u[1] \/ (v[1] = u[1] /\ v[2] >= u[2])}

\* replaceToolPart, or a message for a result that has no call.
placeResult(msgs, result) ==
  LET tool == Tool(result.call, IF result.isError THEN "error" ELSE "completed")
      use == UseOf(msgs, result.call)
  IN IF use = {} THEN Append(msgs, Message("assistant", <<tool>>))
     ELSE LET u == CHOOSE u \in use : TRUE
          IN [msgs EXCEPT ![u[1]].content[u[2]] = tool]

placeResults(msgs, results) ==
  LET placed[n \in 0..Len(results)] ==
        IF n = 0 THEN msgs ELSE placeResult(placed[n - 1], results[n])
  IN placed[Len(results)]

normalizeOne(msgs, m) ==
  IF m.role = "tool" THEN placeResults(msgs, OfKind(m.content, {"result"}))
  ELSE Append(msgs, [m EXCEPT !.content = normalizeToolCalls(@)])

NormalizeMessages(msgs) ==
  LET normalized[n \in 0..Len(msgs)] ==
        IF n = 0 THEN <<>> ELSE normalizeOne(normalized[n - 1], msgs[n])
  IN normalized[Len(msgs)]

\* A session that is loaded has the canonical form from then on.
Hydrate ==
  /\ history # NormalizeMessages(history)
  /\ history' = NormalizeMessages(history)

-----------------------------------------------------------------------------
(* The request. *)

expandEveryTool(m) ==
  LET tools == OfKind(m.content, {"tool"})
      results == [i \in DOMAIN tools |-> ToolResult(tools[i].call, tools[i].state = "error")]
      lower(p) == IF p.kind = "tool" THEN ToolCall(p.call) ELSE p
  IN IF m.role # "assistant" THEN <<m>>
     ELSE <<[m EXCEPT !.content = MapSeq(@, lower)]>>
          \o (IF results = <<>> THEN <<>>
              ELSE <<Message("tool", Picked(results, {i \in DOMAIN results : ~results[i].isError}))>>)

\* An unresolved call is left out, and a message that is nothing else with it.
expandMessage(m) ==
  LET resolved == {i \in DOMAIN m.content :
                     m.content[i].kind = "tool" => m.content[i].state \in {"completed", "error"}}
      kept == Picked(m.content, resolved)
      lower(p) == IF p.kind = "tool" THEN ToolCall(p.call) ELSE p
      tools == OfKind(kept, {"tool"})
      results == [i \in DOMAIN tools |-> ToolResult(tools[i].call, tools[i].state = "error")]
  IN IF m.role # "assistant" THEN <<m>>
     ELSE IF kept = <<>> /\ m.content # <<>> THEN <<>>
     ELSE <<[m EXCEPT !.content = MapSeq(kept, lower)]>>
          \o (IF results = <<>> THEN <<>> ELSE <<Message("tool", results)>>)

ExpandToolMessages(msgs) == Joined(MapSeq(msgs, expandMessage))

\* Every protocol sends the texts of an assistant message before its calls.
Calls(m) == OfKind(m.content, {"call"})
Results(m) == OfKind(m.content, {"result"})
In(where, items) == MapSeq(items, LAMBDA p : [in |-> where, item |-> p])

SealedBy(m, provider) ==
  Picked(m.content,
         {i \in DOMAIN m.content : m.content[i].kind = "reasoning" /\ m.content[i].sealedBy = provider})
WithData(m) ==
  Picked(m.content, {i \in DOMAIN m.content :
                       \/ m.content[i].kind = "text"
                       \/ m.content[i].kind = "image" /\ m.content[i].data})

\* Reasoning goes back only to the provider that sealed it; an answer
\* without a text makes no message.
responsesItems(m) ==
  CASE m.role = "user" -> In("user", OfKind(m.content, {"text", "image"}))
    [] m.role = "assistant" ->
         In("reasoning", SealedBy(m, "responses"))
         \o In("assistant", OfKind(m.content, {"text"}))
         \o In("function_call", Calls(m))
    [] m.role = "tool" -> In("function_call_output", Results(m))

\* Reasoning is not sent.
chatItems(m) ==
  CASE m.role = "user" -> In("user", OfKind(m.content, {"text", "image"}))
    [] m.role = "assistant" -> In("assistant", OfKind(m.content, {"text"})) \o In("assistant", Calls(m))
    [] m.role = "tool" -> In("tool", Results(m))

\* Images that are only an address are not sent; reasoning is, whoever sealed it.
blockItems(m) ==
  CASE m.role = "user" -> In("user", WithData(m))
    [] m.role = "assistant" ->
         In("assistant", OfKind(m.content, {"text", "reasoning"})) \o In("assistant", Calls(m))
    [] m.role = "tool" -> In("user", Results(m))

Body(protocol, msgs) ==
  LET items(m) ==
        CASE protocol = "responses" -> responsesItems(m)
          [] protocol = "chat" -> chatItems(m)
          [] protocol \in {"anthropic", "gemini"} -> blockItems(m)
  IN Joined(MapSeq(ExpandToolMessages(NormalizeMessages(msgs)), items))

Next == StartRun \/ Answer \/ ToolSettles \/ AddLegacyTurn \/ Hydrate

Spec == Init /\ [][Next]_requestVars

-----------------------------------------------------------------------------
(* Properties. *)

\* Positions of the calls, and of the results, of an id.
At(items, kind, call) == {i \in DOMAIN items : items[i].item.kind = kind /\ items[i].item.call = call}

\* Uses of an id that the history has the outcome of.
Settled(msgs, call) ==
  {u \in (DOMAIN msgs) \X (1..10) :
     LET content == msgs[u[1]].content
     IN /\ u[2] \in DOMAIN content /\ content[u[2]].kind = "tool"
        /\ content[u[2]].call = call /\ content[u[2]].state \in {"completed", "error"}}

\* Whatever the history went through, no provider is sent a call without its
\* result or a result without its call: each call is followed by one result of
\* its own, with nothing but calls and results between the two, and there are as
\* many of them as uses that were settled.  The canonical form is its own, so that
\* what an older session kept in its old form makes the same requests before and
\* after it is loaded.
CallsAreAnswered ==
  LET normal == NormalizeMessages(history)
      settled == [c \in CallIds |-> Cardinality(Settled(normal, c))]
  IN /\ NormalizeMessages(normal) = normal
     /\ \A p \in Protocols :
          LET items == Body(p, history)
          IN \A c \in CallIds :
               LET calls == At(items, "call", c)
                   results == At(items, "result", c)
               IN /\ Cardinality(calls) = settled[c]
                  /\ Cardinality(calls) = Cardinality(results)
                  /\ \A i \in calls : \E j \in results :
                       /\ i < j
                       /\ \A k \in i..j : items[k].item.kind \in {"call", "result"}
                       /\ \A k \in (i + 1)..(j - 1) : k \notin results
=============================================================================
