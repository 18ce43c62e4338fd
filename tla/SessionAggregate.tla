-------------------------- MODULE SessionAggregate --------------------------
(***************************************************************************)
(* The event stream of one session and its projection (store/aggregate.go).*)
(*                                                                         *)
(* Every durable change of a session is one event of its stream.  The      *)
(* tables are a second copy of the same facts: opening the database        *)
(* projects every stream and refuses to start on one that does not         *)
(* project, and a rebuild replaces the tables by the projection.           *)
(*                                                                         *)
(* An event carries a whole row (its snapshot).  A row is abstracted to    *)
(* the fields that the projection compares; a version is the position of   *)
(* the event in the stream.                                                *)
(***************************************************************************)
EXTENDS Naturals, Sequences, FiniteSets

CONSTANTS Titles, Workspaces, Runs, Messages, Parts, Calls, Uses, Requests,
          Resources,
          None          \* no row, no reference

Tables == {"runs", "messages", "calls", "uses", "requests"}

NewRow(keys) == [k \in keys |-> None]

\* A database of one session: its stream, its session row and its tables.
EmptyTables ==
  [session |-> None, runs |-> NewRow(Runs), messages |-> NewRow(Messages),
   calls |-> NewRow(Calls), uses |-> NewRow(Uses),
   requests |-> NewRow(Requests), grants |-> {}]

RunTerminal == {"completed", "failed", "aborted"}
UseTerminal == {"completed", "failed", "interrupted", "declined"}

\* The resources that a request asks for, in the order of its list.
ResourcesOf(request) == {request.resources[i] : i \in 1..Len(request.resources)}

-----------------------------------------------------------------------------
(* The events, one constructor for each change. *)

Event(type, id, snapshot) == [type |-> type, id |-> id, snapshot |-> snapshot]

NewSessionCreatedEvent(title, workspace) ==
  Event("session.created", None, [title |-> title, workspace |-> workspace])

NewSessionRenamedEvent(title) == Event("session.renamed", None, [title |-> title])

NewSessionMovedEvent(workspace) ==
  Event("session.moved", None, [workspace |-> workspace])

NewSessionRunAdmittedEvent(r, run) == Event("session.run.admitted", r, run)

NewSessionRunTransitionEvent(r, run) == Event("session.run.transition", r, run)

NewSessionMessageSavedEvent(m, message) == Event("session.message.saved", m, message)

NewSessionModelCallSavedEvent(c, call) == Event("session.model_call.saved", c, call)

NewSessionToolUseSavedEvent(u, use) == Event("session.tool_use.saved", u, use)

NewSessionPermissionRequestEvent(q, request) ==
  Event("session.permission.requested", q, request)

NewSessionPermissionResolutionEvent(q, request) ==
  Event("session.permission.resolved", q, request)

NewSessionPermissionGrantCreatedEvent(resource) ==
  Event("session.permission_grant.created", resource, None)

-----------------------------------------------------------------------------
(* The projection of the session row. *)

projectSessionEvent(session, event) ==
  LET next == [session EXCEPT !.version = @ + 1]
  IN CASE event.type = "session.created" ->
            [title |-> event.snapshot.title,
             workspace |-> event.snapshot.workspace, version |-> 1]
       [] event.type = "session.renamed" ->
            [next EXCEPT !.title = event.snapshot.title]
       [] event.type = "session.moved" ->
            [next EXCEPT !.workspace = event.snapshot.workspace]
       [] OTHER -> next

\* Creation comes first and once.
Created(events) ==
  \A i \in 1..Len(events) : (events[i].type = "session.created") <=> (i = 1)

ProjectSession(events) ==
  LET after[n \in 0..Len(events)] ==
        IF n = 0 THEN None ELSE projectSessionEvent(after[n - 1], events[n])
  IN after[Len(events)]

-----------------------------------------------------------------------------
(* What each table demands of the next event of a row, given the rows that *)
(* the events before it left.                                              *)

legalProjectedRunTransition(from, to) ==
  \/ from = "queued" /\ to \in {"running", "aborted"}
  \/ from = "running" /\ to \in RunTerminal

legalToolUseTransition(from, to) ==
  \/ from = "proposed" /\ to \in {"authorized", "declined", "failed", "interrupted"}
  \/ from = "authorized" /\ to \in {"started", "failed", "interrupted"}
  \/ from = "started" /\ to \in {"completed", "failed", "interrupted"}

legalPermissionResolution(status, response) ==
  \/ response \in {"once", "always"} /\ status = "approved"
  \/ response = "reject" /\ status = "rejected"
  \/ response = "" /\ status \in {"timed_out", "interrupted"}

ProjectSessionRuns(runs, event, version) ==
  LET run == event.snapshot
      previous == runs[event.id]
  IN IF event.type = "session.run.admitted"
     THEN /\ previous = None
          /\ run.status = "queued"
          /\ run.admitted = version
     ELSE /\ previous # None
          /\ legalProjectedRunTransition(previous.status, run.status)
          /\ run.sequence = previous.sequence
          /\ run.admitted = previous.admitted

\* Of a message, all but the revision and the parts stays as it was; a place of
\* the session has one message.
ProjectSessionMessages(messages, event) ==
  LET message == event.snapshot
      previous == messages[event.id]
  IN IF previous # None
     THEN /\ message.revision > previous.revision
          /\ message.run = previous.run
          /\ message.idx = previous.idx /\ message.role = previous.role
     ELSE ~\E m \in Messages : messages[m] # None /\ messages[m].idx = message.idx

\* An attempt names its step and its number in the step.
ProjectSessionModelCalls(calls, event) ==
  LET call == event.snapshot
      previous == calls[event.id]
  IN IF previous # None
     THEN call.run = previous.run /\ call.attempt = previous.attempt
     ELSE ~\E c \in Calls : /\ calls[c] # None
                            /\ calls[c].run = call.run
                            /\ calls[c].attempt = call.attempt

\* The place of a tool use is its step and its number among the step's calls.
ProjectSessionToolUses(uses, event) ==
  LET use == event.snapshot
      previous == uses[event.id]
  IN IF previous # None
     THEN /\ use.part = previous.part /\ use.run = previous.run
          /\ use.place = previous.place
          /\ legalToolUseTransition(previous.status, use.status)
     ELSE /\ use.status = "proposed"
          /\ ~\E u \in Uses : /\ uses[u] # None
                             /\ uses[u].run = use.run
                             /\ uses[u].place = use.place

ProjectSessionPermissionRequests(requests, event) ==
  LET request == event.snapshot
      previous == requests[event.id]
  IN IF event.type = "session.permission.requested"
     THEN previous = None /\ request.status = "pending"
     ELSE /\ previous # None
          /\ previous.status = "pending"
          /\ request.resources = previous.resources
          /\ legalPermissionResolution(request.status, request.response)

TableOf(type) ==
  CASE type \in {"session.run.admitted", "session.run.transition"} -> "runs"
    [] type = "session.message.saved" -> "messages"
    [] type = "session.model_call.saved" -> "calls"
    [] type = "session.tool_use.saved" -> "uses"
    [] type \in {"session.permission.requested", "session.permission.resolved"} ->
         "requests"
    [] type = "session.permission_grant.created" -> "grants"
    [] OTHER -> "session"

Accepts(tables, event, version) ==
  LET table == TableOf(event.type)
  IN CASE table = "runs" -> ProjectSessionRuns(tables.runs, event, version)
       [] table = "messages" -> ProjectSessionMessages(tables.messages, event)
       [] table = "calls" -> ProjectSessionModelCalls(tables.calls, event)
       [] table = "uses" -> ProjectSessionToolUses(tables.uses, event)
       [] table = "requests" ->
            ProjectSessionPermissionRequests(tables.requests, event)
       [] table = "grants" -> event.id \notin tables.grants
       [] OTHER -> TRUE

\* The tables with one more event in them.
Apply(tables, event) ==
  LET table == TableOf(event.type)
      row == [tables EXCEPT !.session = projectSessionEvent(@, event)]
  IN CASE table \in Tables -> [row EXCEPT ![table][event.id] = event.snapshot]
       [] table = "grants" -> [row EXCEPT !.grants = @ \cup {event.id}]
       [] OTHER -> row

\* The tables after each prefix of the stream.
Replay(events) ==
  LET after[n \in 0..Len(events)] ==
        IF n = 0 THEN EmptyTables ELSE Apply(after[n - 1], events[n])
  IN after

\* Grants rest on an "always" answer, which may come later in the stream.
ProjectSessionPermissionGrants(tables) ==
  \A resource \in tables.grants :
    \E q \in Requests : /\ tables.requests[q] # None
                        /\ tables.requests[q].response = "always"
                        /\ resource \in ResourcesOf(tables.requests[q])

\* The stream projects without an error, and what it projects to.
Projects(events) ==
  LET after == Replay(events)
  IN /\ events # <<>>
     /\ Created(events)
     /\ \A n \in 1..Len(events) : Accepts(after[n - 1], events[n], n)
     /\ ProjectSessionPermissionGrants(after[Len(events)])

ProjectSessionAggregate(events) == Replay(events)[Len(events)]
=============================================================================
