---------------------------- MODULE SessionStores ---------------------------
(***************************************************************************)
(* One session under every operation of the store, in the SQLite store and *)
(* in the in-memory store at once: each step hands the same call to both.  *)
(*                                                                         *)
(* The callers are the HTTP handlers (which send the version that their    *)
(* client read), the run manager, the agent session that checkpoints its   *)
(* messages, model calls and tool uses, the permission prompter and the    *)
(* recovery at start-up.  They are separate goroutines: any order of their *)
(* calls is possible.                                                      *)
(***************************************************************************)
EXTENDS MemorySessions, SequencesExt

CONSTANTS Clients, ResourceLists,
          Places,       \* of a message: its index and its role
          Attempts,     \* of a model call: its step and its number in the step
          UsePlaces,    \* of a tool use: its step and its number in the step
          MaxRevision,  \* bound: revisions of a message
          MaxEvents     \* bound: events of the stream before the last call

Stores == {"sqlite", "memory"}

SessionRow == [title : Titles, workspace : Workspaces \cup {None}, version : Nat]
RunRow == [status : RunTerminal \cup {"queued", "running"}, sequence : Nat, admitted : Nat]
MessageRow == [run : Runs, idx : Nat, role : {"user", "assistant"}, revision : Nat,
               parts : SUBSET Parts]
CallRow ==
  [run : Runs, attempt : Attempts, status : {"started", "completed", "failed", "aborted"}]
UseRow == [run : Runs, place : UsePlaces, part : Parts,
           status : UseTerminal \cup {"proposed", "authorized", "started"}]
RequestRow ==
  [status : {"pending", "approved", "rejected", "timed_out", "interrupted"},
   response : {"once", "always", "reject", ""}, resources : Seq(Resources)]

(* There are finitely many ids of one length, and the name of no row or    *)
(* reference is none of a row.                                             *)
ASSUME StoresAssumption ==
  /\ IsFiniteSet(Runs) /\ IsFiniteSet(Calls) /\ IsFiniteSet(Uses) /\ IsFiniteSet(Requests)
  /\ None \notin Workspaces
  /\ None \notin SessionRow \cup RunRow \cup MessageRow \cup CallRow \cup UseRow \cup RequestRow
  /\ ResourceLists \subseteq Seq(Resources)
  /\ MaxRevision \in Nat
  /\ Places \subseteq [idx : Nat, role : {"user", "assistant"}]

VARIABLES db,          \* of each store
          workspaces,  \* rows of the workspaces table
          seen         \* the session row that each client last read

vars == <<db, workspaces, seen>>

sql == db["sqlite"]
mem == db["memory"]

\* The session is created; the id of a purged one is never used again.
Init ==
  /\ \E t \in Titles, w \in Workspaces \cup {None} :
       db = [s \in Stores |->
               IF s = "sqlite" THEN CreateSession(NewDatabase, t, w, Workspaces)
               ELSE memCreateSession(NewDatabase, t, w, Workspaces)]
  /\ workspaces = Workspaces
  /\ seen = [c \in Clients |-> None]

\* One call, to each store.
Call(onSQLite(_), onMemory(_)) ==
  /\ Len(sql.stream) < MaxEvents
  /\ db' = [s \in Stores |-> IF s = "sqlite" THEN onSQLite(db[s]) ELSE onMemory(db[s])]
  /\ db' # db

Write(onSQLite(_), onMemory(_)) ==
  Call(onSQLite, onMemory) /\ UNCHANGED <<workspaces, seen>>

\* A client reads the session, and its version with it.
Read(c) ==
  /\ HasSession(sql)
  /\ seen' = [seen EXCEPT ![c] = sql.tables.session]
  /\ UNCHANGED <<db, workspaces>>

Rename(c) ==
  \E t \in Titles :
    /\ seen[c] # None
    /\ Write(LAMBDA d : RenameSession(d, t, seen[c].version),
             LAMBDA d : memRenameSession(d, t, seen[c].version))

Move(c) ==
  \E w \in Workspaces \cup {None} :
    /\ seen[c] # None
    /\ Write(LAMBDA d : MoveSession(d, w, seen[c].version, workspaces),
             LAMBDA d : memMoveSession(d, w, seen[c].version, workspaces))

Purge(c) ==
  /\ seen[c] # None
  /\ Write(LAMBDA d : PurgeSession(d, seen[c].version),
           LAMBDA d : memPurgeSession(d, seen[c].version))

RemoveWorkspace ==
  \E w \in workspaces :
    /\ workspaces' = workspaces \ {w}
    /\ db' = [s \in Stores |-> IF s = "sqlite" THEN DeleteWorkspace(db[s], w)
                               ELSE memDeleteWorkspace(db[s], w)]
    /\ UNCHANGED seen

Admit ==
  \E r \in Runs : Write(LAMBDA d : AdmitSessionRun(d, r),
                        LAMBDA d : memAdmitSessionRun(d, r))

Claim == Write(ClaimNextSessionRun, memClaimNextSessionRun)

Settle ==
  \E r \in Runs, from \in {"queued", "running"}, to \in RunTerminal :
    Write(LAMBDA d : SettleSessionRun(d, r, from, to),
          LAMBDA d : memSettleSessionRun(d, r, from, to))

\* A revision of a message keeps the parts that tool uses stand for: the
\* checkpoints after the tool calls were proposed settle parts, they drop none.
KeepsToolParts(d, m, message) ==
  d.tables.messages[m] # None =>
    \A u \in Uses : d.tables.uses[u] # None =>
      d.tables.uses[u].part \notin d.tables.messages[m].parts \ message.parts

MessageSnapshot(r, place, n, ps) ==
  [run |-> r, idx |-> place.idx, role |-> place.role, revision |-> n, parts |-> ps]

\* The id of a part is made for its message: no caller names that of another one.
Checkpoint ==
  \E m \in Messages, r \in Runs, place \in Places, n \in 1..MaxRevision, ps \in SUBSET Parts :
    LET message == MessageSnapshot(r, place, n, ps)
    IN /\ KeepsToolParts(sql, m, message) /\ PartsAreFree(sql, m, message)
       /\ Write(LAMBDA d : SaveMessage(d, m, message),
                LAMBDA d : memSaveMessage(d, m, message))

RecordCall ==
  \E c \in Calls, r \in Runs, n \in Attempts, s \in {"started", "completed", "failed"} :
    LET call == [run |-> r, attempt |-> n, status |-> s]
    IN Write(LAMBDA d : UpsertModelCall(d, c, call),
             LAMBDA d : memUpsertModelCall(d, c, call))

\* A tool use names a part of the checkpointed message.
RecordUse ==
  \E u \in Uses, r \in Runs, place \in UsePlaces, p \in StoredParts(sql.tables),
     s \in UseTerminal \cup {"proposed", "authorized", "started"} :
    LET use == [run |-> r, place |-> place, part |-> p, status |-> s]
    IN Write(LAMBDA d : SaveToolUse(d, u, use), LAMBDA d : memSaveToolUse(d, u, use))

Ask ==
  \E q \in Requests, r \in Runs, list \in ResourceLists :
    Write(LAMBDA d : CreatePermissionRequest(d, q, r, list),
          LAMBDA d : memCreatePermissionRequest(d, q, r, list))

Answer ==
  \E q \in Requests, s \in {"approved", "rejected", "timed_out"},
     response \in {"once", "always", "reject", ""} :
    Write(LAMBDA d : ResolvePermissionRequest(d, q, s, response),
          LAMBDA d : memResolvePermissionRequest(d, q, s, response))

\* The tool uses come by time of proposal from SQLite and in the order of a map
\* from memory; the calls in no order from either.
RecoverUses ==
  \E uses \in SetToSeqs(ActiveUses(sql)), memUses \in SetToSeqs(ActiveUses(mem)) :
    Write(LAMBDA d : InterruptActiveToolUses(d, uses),
          LAMBDA d : memInterruptActiveToolUses(d, memUses))

RecoverCalls ==
  \E r \in Runs :
    \E calls \in SetToSeqs(ActiveCalls(sql, r)), memCalls \in SetToSeqs(ActiveCalls(mem, r)) :
      Write(LAMBDA d : InterruptActiveModelCalls(d, calls),
            LAMBDA d : memInterruptActiveModelCalls(d, memCalls))

\* The pending requests of a store, the oldest first.
Oldest(d, pending) ==
  \A i, j \in 1..Len(pending) : i < j =>
    \E a, b \in 1..Len(d.stream) :
      /\ a < b
      /\ d.stream[a].type = "session.permission.requested" /\ d.stream[a].id = pending[i]
      /\ d.stream[b].type = "session.permission.requested" /\ d.stream[b].id = pending[j]

PendingLists(d) ==
  {pending \in SetToSeqs({q \in Requests : IsPending(d, q)}) : Oldest(d, pending)}

RecoverRequests ==
  \E pending \in PendingLists(sql), memPending \in PendingLists(mem) :
    Write(LAMBDA d : InterruptPendingPermissionRequests(d, pending),
          LAMBDA d : memInterruptPendingPermissionRequests(d, memPending))

\* What start-up does with the work of a process that stopped.
Recover == RecoverUses \/ RecoverCalls \/ RecoverRequests

Rebuild ==
  Write(LAMBDA d : RebuildSessionProjections(d, workspaces), memRebuildSessionProjections)

Next ==
  \/ \E c \in Clients : Read(c) \/ Rename(c) \/ Move(c) \/ Purge(c)
  \/ RemoveWorkspace
  \/ Admit \/ Claim \/ Settle
  \/ Checkpoint \/ RecordCall \/ RecordUse
  \/ Ask \/ Answer
  \/ Recover \/ Rebuild

Spec == Init /\ [][Next]_vars

-----------------------------------------------------------------------------
(* Properties. *)

\* The database opens again: whatever the callers did and in whatever order,
\* the stream that NewSQLiteStore validates at start-up projects without an
\* error.  A single event that the projection refuses would keep the daemon
\* from starting.
StreamReplays == HasSession(sql) => Projects(sql.stream)

\* The tables say what the stream says: a rebuild changes no row, and after a
\* purge there is neither, whatever a worker that was still at work on the
\* session writes.  The one exception is the workspace of a session whose
\* workspace was deleted, which the foreign key clears and no event records.
TablesMatchStream ==
  IF ~HasSession(sql) THEN sql = NewDatabase
  ELSE
    LET projected == ProjectSessionAggregate(sql.stream)
    IN \/ sql.tables = projected
       \/ /\ projected.session.workspace \notin workspaces
          /\ sql.tables = [projected EXCEPT !.session.workspace = None]

\* A rename by a client that has not seen the present title is refused: two
\* clients cannot overwrite each other's title unseen, for every change of the
\* session moves the version that a command must name.
NoLostRename ==
  [][(sql.tables.session # None /\ sql'.tables.session # None
        /\ sql'.tables.session.title # sql.tables.session.title) =>
       \E c \in Clients : seen[c] # None
                          /\ seen[c].title = sql.tables.session.title
                          /\ seen[c].version = sql.tables.session.version]_vars

RepeatsResource(d) ==
  \E q \in Requests : /\ d.tables.requests[q] # None
                      /\ ~IsInjective(d.tables.requests[q].resources)

EventsOf(d) == {d.stream[i] : i \in 1..Len(d.stream)}

\* The same rows and versions, from the same events: their order is the same up
\* to that in which work is interrupted.
SameRecords ==
  /\ sql.tables = mem.tables
  /\ Len(sql.stream) = Len(mem.stream)
  /\ EventsOf(sql) = EventsOf(mem)

\* "It conforms to the same behavioral contract as store/sqlite.go": the two
\* stores hold the same records after the same calls.  They part where a
\* workspace is deleted or a request names a resource twice.
StoresAgree ==
  workspaces = Workspaces /\ ~RepeatsResource(sql) /\ ~RepeatsResource(mem) => SameRecords
=============================================================================
