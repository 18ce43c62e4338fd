--------------------------- MODULE MemorySessions ---------------------------
(***************************************************************************)
(* The same operations as SQLiteSessions in the in-memory store            *)
(* (store/memory/memory.go), which is to behave as the SQLite one does.    *)
(*                                                                         *)
(* Its session row is never edited: each write projects the whole stream   *)
(* with the new event and keeps the result.  There are no foreign keys.    *)
(***************************************************************************)
EXTENDS SQLiteSessions

\* s.sessions[id] = ProjectSession(events ++ event)
memAppend(d, event) ==
  LET events == Append(d.stream, event)
  IN IF Created(events)
     THEN [stream |-> events,
           tables |-> [Apply(d.tables, event) EXCEPT !.session = ProjectSession(events)]]
     ELSE d

\* The events of one call; a grant that was there before the call is not made again.
memAppendEvents(d, events) ==
  LET after[n \in 0..Len(events)] ==
        IF n = 0 THEN d
        ELSE IF Granted(d, events[n]) THEN after[n - 1]
        ELSE memAppend(after[n - 1], events[n])
  IN after[Len(events)]

memCreateSession(d, title, workspace, workspaces) ==
  IF workspace \in workspaces \cup {None} /\ d.stream = <<>>
  THEN memAppend(d, NewSessionCreatedEvent(title, workspace))
  ELSE d

\* A command that leaves its field of the row as it is appends nothing.
memApplySessionMetadataEvent(d, event, expected, field) ==
  LET projected == memAppend(d, event)
  IN IF /\ HasSession(d)
        /\ d.tables.session.version = expected
        /\ projected.tables.session[field] # d.tables.session[field]
     THEN projected
     ELSE d

memRenameSession(d, title, expected) ==
  memApplySessionMetadataEvent(d, NewSessionRenamedEvent(title), expected, "title")

memMoveSession(d, workspace, expected, workspaces) ==
  IF workspace \in workspaces \cup {None}
  THEN memApplySessionMetadataEvent(d, NewSessionMovedEvent(workspace), expected, "workspace")
  ELSE d

memPurgeSession(d, expected) ==
  IF HasSession(d) /\ d.tables.session.version = expected THEN NewDatabase ELSE d

memDeleteWorkspace(d, workspace) ==
  IF HasSession(d) /\ d.tables.session.workspace = workspace
  THEN [d EXCEPT !.tables.session.workspace = None]
  ELSE d

\* The session row is copied with the new version here, not projected.
memAdmitSessionRun(d, r) ==
  LET event == NewSessionRunAdmittedEvent(r,
        [status |-> "queued",
         sequence |-> 1 + Cardinality({x \in Runs : HasRun(d, x)}),
         admitted |-> d.tables.session.version + 1])
  IN IF HasSession(d) /\ ~HasRun(d, r)
     THEN [stream |-> Append(d.stream, event), tables |-> Apply(d.tables, event)]
     ELSE d

memRunMoves(d, r, status) ==
  memAppend(d, NewSessionRunTransitionEvent(r, [d.tables.runs[r] EXCEPT !.status = status]))

memClaimNextSessionRun(d) ==
  LET queued == WithStatus(d, "queued")
      next == CHOOSE r \in queued :
                \A x \in queued : d.tables.runs[r].sequence <= d.tables.runs[x].sequence
  IN IF WithStatus(d, "running") # {} \/ queued = {} THEN d
     ELSE memRunMoves(d, next, "running")

memSettleSessionRun(d, r, expected, status) ==
  IF /\ HasRun(d, r)
     /\ d.tables.runs[r].status = expected
     /\ \/ expected = "running"
        \/ expected = "queued" /\ status = "aborted"
  THEN memRunMoves(d, r, status)
  ELSE d

memSaveMessageAnyRevision(d, m, message) ==
  IF HasSession(d) /\ HasRun(d, message.run)
     /\ (d.tables.messages[m] # None => sameMessageIdentity(d.tables.messages[m], message))
  THEN memAppend(d, NewSessionMessageSavedEvent(m, message))
  ELSE d

\* Only of a new message it is asked whose parts it names.
memSaveMessage(d, m, message) ==
  LET existing == d.tables.messages[m]
  IN IF \/ ~HasSession(d)
        \/ existing = None /\ ~( /\ IndexIsFree(d, m, message)
                                 /\ HasRun(d, message.run)
                                 /\ PartsAreFree(d, m, message) )
        \/ existing # None /\ ( \/ ~sameMessageIdentity(existing, message)
                                \/ message.revision <= existing.revision )
     THEN d
     ELSE memAppend(d, NewSessionMessageSavedEvent(m, message))

memUpsertModelCall(d, c, call) ==
  LET existing == d.tables.calls[c]
      kept == IF existing = None THEN call ELSE [existing EXCEPT !.status = call.status]
  IN IF existing = None /\ ( \/ ~HasRun(d, call.run)
                             \/ \E x \in Calls : /\ d.tables.calls[x] # None
                                                 /\ d.tables.calls[x].run = call.run
                                                 /\ d.tables.calls[x].attempt = call.attempt )
     THEN d
     ELSE memAppend(d, NewSessionModelCallSavedEvent(c, kept))

memInterruptActiveModelCalls(d, calls) ==
  memAppendEvents(d, [i \in 1..Len(calls) |->
    NewSessionModelCallSavedEvent(calls[i],
      [d.tables.calls[calls[i]] EXCEPT !.status = "aborted"])])

memSaveToolUse(d, u, use) ==
  LET existing == d.tables.uses[u]
  IN IF \/ existing = None /\ ~( /\ HasRun(d, use.run)
                                 /\ use.status = "proposed"
                                 /\ ~PlaceIsTaken(d, use) )
        \/ existing # None /\ ~( /\ sameToolUseIdentity(existing, use)
                                 /\ legalToolUseTransition(existing.status, use.status) )
     THEN d
     ELSE memAppend(d, NewSessionToolUseSavedEvent(u, use))

memInterruptActiveToolUses(d, uses) ==
  memAppendEvents(d, [i \in 1..Len(uses) |->
    NewSessionToolUseSavedEvent(uses[i],
      [d.tables.uses[uses[i]] EXCEPT !.status = "interrupted"])])

memCreatePermissionRequest(d, q, run, resources) ==
  IF HasRun(d, run) /\ d.tables.requests[q] = None
  THEN memAppend(d, NewSessionPermissionRequestEvent(q,
         [status |-> "pending", response |-> "", resources |-> resources]))
  ELSE d

memResolvePermissionRequest(d, q, status, response) ==
  LET answered == memAppend(d, Resolution(d, q, status, response))
  IN IF ~IsPending(d, q) \/ ~legalPermissionResolution(status, response) THEN d
     ELSE IF response = "always"
     THEN memAppendEvents(answered, GrantsOf(d.tables.requests[q]))
     ELSE answered

memInterruptPendingPermissionRequests(d, pending) ==
  memAppendEvents(d, [i \in 1..Len(pending) |-> Resolution(d, pending[i], "interrupted", "")])

memRebuildSessionProjections(d) ==
  IF Projects(d.stream) THEN [d EXCEPT !.tables = ProjectSessionAggregate(d.stream)] ELSE d
=============================================================================
