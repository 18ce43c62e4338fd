--------------------------- MODULE SQLiteSessions ---------------------------
(***************************************************************************)
(* The write transactions of store/sqlite.go on one session, each as a     *)
(* function from the database before to the database after; a call that is *)
(* refused, or that finds its work done, leaves the database as it was.    *)
(*                                                                         *)
(* Transactions are immediate, so they are serialised.  Foreign keys are   *)
(* on: a deleted part or workspace is cleared from the rows that name it,  *)
(* and no event says so.                                                   *)
(***************************************************************************)
EXTENDS SessionAggregate

NewDatabase == [stream |-> <<>>, tables |-> EmptyTables]

HasSession(d) == d.tables.session # None
HasRun(d, r) == d.tables.runs[r] # None
StoredParts(tables) ==
  UNION {tables.messages[m].parts : m \in {x \in Messages : tables.messages[x] # None}}

\* The version that the caller read must be the stream's.
appendAggregateEventTx(d, event) ==
  IF HasSession(d) /\ d.tables.session.version # Len(d.stream)
  THEN d
  ELSE [stream |-> Append(d.stream, event), tables |-> Apply(d.tables, event)]

Granted(d, event) ==
  event.type = "session.permission_grant.created" /\ event.id \in d.tables.grants

\* The events of one transaction; a grant that is there is not inserted again.
insertEvents(d, events) ==
  LET after[n \in 0..Len(events)] ==
        IF n = 0 THEN d
        ELSE IF Granted(after[n - 1], events[n]) THEN after[n - 1]
        ELSE appendAggregateEventTx(after[n - 1], events[n])
  IN after[Len(events)]

CreateSession(d, title, workspace, workspaces) ==
  IF workspace \in workspaces \cup {None} /\ d.stream = <<>>
  THEN appendAggregateEventTx(d, NewSessionCreatedEvent(title, workspace))
  ELSE d

applySessionMetadataEvent(d, event, expected, changes) ==
  IF HasSession(d) /\ d.tables.session.version = expected /\ changes
  THEN appendAggregateEventTx(d, event)
  ELSE d

RenameIgnoringVersion(d, title, expected) ==
  IF HasSession(d) /\ d.tables.session.title # title
  THEN appendAggregateEventTx(d, NewSessionRenamedEvent(title))
  ELSE d

RenameSession(d, title, expected) ==
  applySessionMetadataEvent(d, NewSessionRenamedEvent(title), expected,
    d.tables.session.title # title)

MoveRowOnly(d, workspace, expected, workspaces) ==
  IF HasSession(d) /\ d.tables.session.version = expected
  THEN [d EXCEPT !.tables.session.workspace = workspace]
  ELSE d

MoveSession(d, workspace, expected, workspaces) ==
  applySessionMetadataEvent(d, NewSessionMovedEvent(workspace), expected,
    /\ workspace \in workspaces \cup {None}
    /\ d.tables.session.workspace # workspace)

PurgeSession(d, expected) ==
  IF HasSession(d) /\ d.tables.session.version = expected THEN NewDatabase ELSE d

\* ON DELETE SET NULL
DeleteWorkspace(d, workspace) ==
  IF HasSession(d) /\ d.tables.session.workspace = workspace
  THEN [d EXCEPT !.tables.session.workspace = None]
  ELSE d

AdmitSessionRun(d, r) ==
  IF HasSession(d) /\ ~HasRun(d, r)
  THEN appendAggregateEventTx(d, NewSessionRunAdmittedEvent(r,
         [status |-> "queued",
          sequence |-> 1 + Cardinality({x \in Runs : HasRun(d, x)}),
          admitted |-> d.tables.session.version + 1]))
  ELSE d

WithStatus(d, status) == {r \in Runs : HasRun(d, r) /\ d.tables.runs[r].status = status}

RunMoves(d, r, status) ==
  appendAggregateEventTx(d, NewSessionRunTransitionEvent(r,
    [d.tables.runs[r] EXCEPT !.status = status]))

ClaimNextSessionRun(d) ==
  LET queued == WithStatus(d, "queued")
      first == CHOOSE r \in queued :
                 \A x \in queued : d.tables.runs[r].sequence <= d.tables.runs[x].sequence
  IN IF queued # {} /\ WithStatus(d, "running") = {}
     THEN RunMoves(d, first, "running")
     ELSE d

SettleSessionRun(d, r, expected, status) ==
  IF /\ HasRun(d, r)
     /\ d.tables.runs[r].status = expected
     /\ \/ expected = "running"
        \/ expected = "queued" /\ status = "aborted"
  THEN RunMoves(d, r, status)
  ELSE d

\* A part that the new revision drops is deleted, and cleared from the tool
\* uses that name it.
replaceMessageRevisionTx(d, m, message) ==
  LET dropped == d.tables.messages[m].parts \ message.parts
  IN [d EXCEPT !.tables.uses =
        [u \in Uses |-> IF @[u] # None /\ @[u].part \in dropped
                        THEN [@[u] EXCEPT !.part = None] ELSE @[u]]]

StoredOthers(d, m) == {x \in Messages \ {m} : d.tables.messages[x] # None}

\* A part of another message is refused, in a new message by the primary key.
PartsAreFree(d, m, message) ==
  \A x \in StoredOthers(d, m) : d.tables.messages[x].parts \cap message.parts = {}

IndexIsFree(d, m, message) ==
  \A x \in StoredOthers(d, m) : d.tables.messages[x].idx # message.idx

sameMessageIdentity(a, b) == a.run = b.run /\ a.idx = b.idx /\ a.role = b.role

SaveMessageAtAnyIndex(d, m, message) ==
  IF /\ HasRun(d, message.run) /\ PartsAreFree(d, m, message)
     /\ d.tables.messages[m] # None =>
          /\ sameMessageIdentity(d.tables.messages[m], message)
          /\ message.revision > d.tables.messages[m].revision
  THEN appendAggregateEventTx(d, NewSessionMessageSavedEvent(m, message))
  ELSE d

SaveMessage(d, m, message) ==
  LET existing == d.tables.messages[m]
      saved(x) == appendAggregateEventTx(x, NewSessionMessageSavedEvent(m, message))
  IN IF ~HasSession(d) \/ ~PartsAreFree(d, m, message) THEN d
     ELSE IF existing = None
     THEN IF IndexIsFree(d, m, message) /\ HasRun(d, message.run) THEN saved(d) ELSE d
     ELSE IF sameMessageIdentity(existing, message) /\ message.revision > existing.revision
     THEN saved(replaceMessageRevisionTx(d, m, message))
     ELSE d

\* The identity of a stored call wins over that of the caller; its status is
\* whatever the caller says.
UpsertModelCall(d, c, call) ==
  LET existing == d.tables.calls[c]
      taken == \E x \in Calls \ {c} : /\ d.tables.calls[x] # None
                                      /\ d.tables.calls[x].run = call.run
                                      /\ d.tables.calls[x].attempt = call.attempt
  IN IF existing # None
     THEN appendAggregateEventTx(d, NewSessionModelCallSavedEvent(c,
            [existing EXCEPT !.status = call.status]))
     ELSE IF HasRun(d, call.run) /\ ~taken
     THEN appendAggregateEventTx(d, NewSessionModelCallSavedEvent(c, call))
     ELSE d

ActiveCalls(d, run) ==
  {c \in Calls : /\ d.tables.calls[c] # None
                 /\ d.tables.calls[c].run = run
                 /\ d.tables.calls[c].status = "started"}

\* The rows are read first: `calls` lists the active ones as the query returns them.
InterruptActiveModelCalls(d, calls) ==
  insertEvents(d, [i \in 1..Len(calls) |->
    NewSessionModelCallSavedEvent(calls[i],
      [d.tables.calls[calls[i]] EXCEPT !.status = "aborted"])])

sameToolUseIdentity(a, b) == a.run = b.run /\ a.part = b.part /\ a.place = b.place

PlaceIsTaken(d, use) ==
  \E x \in Uses : /\ d.tables.uses[x] # None
                  /\ d.tables.uses[x].run = use.run
                  /\ d.tables.uses[x].place = use.place

SaveToolUse(d, u, use) ==
  LET existing == d.tables.uses[u]
      save == appendAggregateEventTx(d, NewSessionToolUseSavedEvent(u, use))
  IN IF existing = None
     THEN IF /\ HasRun(d, use.run)
             /\ use.status = "proposed"
             /\ ~PlaceIsTaken(d, use)
             /\ use.part \in StoredParts(d.tables)
          THEN save ELSE d
     ELSE IF /\ sameToolUseIdentity(existing, use)
             /\ legalToolUseTransition(existing.status, use.status)
     THEN save
     ELSE d

ActiveUses(d) ==
  {u \in Uses : d.tables.uses[u] # None /\ d.tables.uses[u].status \notin UseTerminal}

\* `uses` lists the active ones as the query returns them.
InterruptActiveToolUses(d, uses) ==
  insertEvents(d, [i \in 1..Len(uses) |->
    NewSessionToolUseSavedEvent(uses[i],
      [d.tables.uses[uses[i]] EXCEPT !.status = "interrupted"])])

CreatePermissionRequest(d, q, run, resources) ==
  IF HasRun(d, run) /\ d.tables.requests[q] = None
  THEN appendAggregateEventTx(d, NewSessionPermissionRequestEvent(q,
         [status |-> "pending", response |-> "", resources |-> resources]))
  ELSE d

Resolution(d, q, status, response) ==
  NewSessionPermissionResolutionEvent(q,
    [d.tables.requests[q] EXCEPT !.status = status, !.response = response])

IsPending(d, q) == d.tables.requests[q] # None /\ d.tables.requests[q].status = "pending"

\* An "always" remembers each resource of the request.
GrantsOf(request) ==
  [i \in 1..Len(request.resources) |->
     NewSessionPermissionGrantCreatedEvent(request.resources[i])]

ResolvePermissionRequest(d, q, status, response) ==
  LET answered == appendAggregateEventTx(d, Resolution(d, q, status, response))
  IN IF ~IsPending(d, q) \/ ~legalPermissionResolution(status, response) THEN d
     ELSE IF response = "always"
     THEN insertEvents(answered, GrantsOf(d.tables.requests[q]))
     ELSE answered

\* `pending` lists the pending requests, the oldest first.
InterruptPendingPermissionRequests(d, pending) ==
  insertEvents(d, [i \in 1..Len(pending) |-> Resolution(d, pending[i], "interrupted", "")])

\* The foreign keys that a projection must meet to be installed.
Installable(tables, workspaces) ==
  /\ tables.session.workspace \in workspaces \cup {None}
  /\ \A u \in Uses : tables.uses[u] # None =>
       tables.uses[u].part \in StoredParts(tables) \cup {None}

RebuildSessionProjections(d, workspaces) ==
  IF Projects(d.stream) /\ Installable(ProjectSessionAggregate(d.stream), workspaces)
  THEN [d EXCEPT !.tables = ProjectSessionAggregate(d.stream)]
  ELSE d
=============================================================================
