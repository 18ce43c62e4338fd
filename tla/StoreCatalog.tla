---------------------------- MODULE StoreCatalog ----------------------------
(***************************************************************************)
(* The records that organise sessions: clients, workspaces and agents      *)
(* (store/sqlite.go, store/memory/memory.go, store/default_agents.go and   *)
(* the client, workspace and agent handlers of the server).                *)
(*                                                                         *)
(* The handlers of an update read a record, change some fields and write   *)
(* all of it back; the requests of several clients interleave between the  *)
(* two.  The memory store does each of its operations under its mutex.     *)
(* The SQLite store has one connection: a statement, or a transaction, is  *)
(* a step, and unique indexes and foreign keys back the checks made        *)
(* before it.                                                              *)
(***************************************************************************)
EXTENDS Naturals, FiniteSets

CONSTANTS Requests,          \* HTTP requests in flight
          Clients, Default,  \* client ids; Default is cli_wingclient
          ClientNames,       \* names that are equal up to case are one
          Workspaces,        \* ids of workspaces, each minted once
          Names,             \* of workspaces
          Agents,            \* ids of agents, each minted once
          Models,            \* what an agent's fields can hold
          None

VARIABLES backend,     \* "sqlite" or "memory"
          clients,     \* names of the clients there are
          workspaces,  \* rows [name, client]
          agents,      \* rows [model, tools]
          sessionOf,   \* the workspace a session was created in, or None
          request,     \* [op, id, row, at]
          gone         \* history: deleted workspaces and agents

vars == <<backend, clients, workspaces, agents, sessionOf, request, gone>>

Absent == [name |-> None, client |-> None]
NoAgent == [model |-> None, tools |-> None]
NoRequest == [op |-> "none", id |-> None, row |-> None]

(* migration 0001 inserts the default client, the memory store adds it     *)
(* when the server is built; only a new SQLite database gets the default   *)
(* agents                                                                  *)
Init ==
  /\ backend \in {"sqlite", "memory"}
  /\ clients = [c \in Clients |-> IF c = Default THEN Default ELSE None]
  /\ workspaces = [w \in Workspaces |-> Absent]
  /\ agents = [a \in Agents |-> NoAgent]
  /\ sessionOf = None
  /\ request = [r \in Requests |-> NoRequest]
  /\ gone = {}

Known == {c \in Clients : clients[c] # None}
Minted == {w \in Workspaces : workspaces[w] # Absent}
Hired == {a \in Agents : agents[a] # NoAgent}

begin(r, op, id, row) ==
  /\ request[r] = NoRequest
  /\ request' = [request EXCEPT ![r] = [op |-> op, id |-> id, row |-> row]]

end(r) == request' = [request EXCEPT ![r] = NoRequest]

others(changed) == UNCHANGED changed /\ UNCHANGED backend

-----------------------------------------------------------------------------
(* Clients *)

nameTaken(name) == \E c \in Known : clients[c] = name

(* CreateClientWithID, up to the list of the clients it compares with *)
CreateClient(r, c, name) ==
  /\ name # Default /\ ~nameTaken(name)
  /\ begin(r, "client", c, name)
  /\ others(<<clients, workspaces, agents, sessionOf, gone>>)

(* the insert: the id is a primary key and names have a unique index; in   *)
(* the memory store all of it is one step                                  *)
InsertClient(r) ==
  LET c == request[r].id
      name == request[r].row
  IN /\ request[r].op = "client" /\ end(r)
     /\ clients' = IF c \in Known \/ nameTaken(name) THEN clients
                   ELSE [clients EXCEPT ![c] = name]
     /\ others(<<workspaces, agents, sessionOf, gone>>)

-----------------------------------------------------------------------------
(* Workspaces *)

(* verifyWorkspaceNameAvailable, workspaceNameExists and the unique index *)
available(name, client, except) == \A w \in Minted \ {except} :
  workspaces[w] # [name |-> name, client |-> client]

(* one transaction, or one hold of the mutex *)
CreateWorkspace(w, c, name) ==
  /\ w \notin Minted \cup gone
  /\ c \in Known /\ available(name, c, None)
  /\ workspaces' = [workspaces EXCEPT ![w] = [name |-> name, client |-> c]]
  /\ others(<<clients, agents, sessionOf, request, gone>>)

(* authorizeWorkspaceForRequest: a workspace is read and must be the       *)
(* caller's                                                                *)
ReadWorkspace(r, c, w, op, name) ==
  /\ w \in Minted /\ workspaces[w].client = c
  /\ begin(r, op, w, [workspaces[w] EXCEPT !.name = name])
  /\ others(<<clients, workspaces, agents, sessionOf, gone>>)

(* the SQLite store looks for the name in a statement of its own *)
VerifyWorkspace(r) ==
  LET row == request[r].row
  IN /\ backend = "sqlite" /\ request[r].op = "update workspace"
     /\ IF available(row.name, row.client, request[r].id)
        THEN request' = [request EXCEPT ![r].op = "verified"]
        ELSE end(r)
     /\ others(<<clients, workspaces, agents, sessionOf, gone>>)

(* the write finds the row or not; the index refuses a name taken since    *)
(* the check                                                               *)
WriteWorkspace(r) ==
  LET row == request[r].row
      w == request[r].id
  IN /\ request[r].op = IF backend = "sqlite" THEN "verified" ELSE "update workspace"
     /\ end(r)
     /\ workspaces' = IF w \in Minted /\ row.client \in Known
                         /\ available(row.name, row.client, w)
                      THEN [workspaces EXCEPT ![w] = row] ELSE workspaces
     /\ others(<<clients, agents, sessionOf, gone>>)

(* sessions lose their link: ON DELETE SET NULL, or the loop of the memory *)
(* store                                                                   *)
DeleteWorkspace(r) ==
  LET w == request[r].id
  IN /\ request[r].op = "delete workspace" /\ end(r)
     /\ workspaces' = [workspaces EXCEPT ![w] = Absent]
     /\ sessionOf' = IF sessionOf = w THEN None ELSE sessionOf
     /\ gone' = gone \cup {w}
     /\ others(<<clients, agents>>)

(* CreateSession verifies the workspace in its transaction *)
CreateSession(w) ==
  /\ w \in Minted /\ sessionOf' = w
  /\ others(<<clients, workspaces, agents, request, gone>>)

-----------------------------------------------------------------------------
(* Agents *)

CreateAgent(a, m) ==
  /\ a \notin Hired \cup gone
  /\ agents' = [agents EXCEPT ![a] = [model |-> m, tools |-> m]]
  /\ others(<<clients, workspaces, sessionOf, request, gone>>)

(* handleUpdateAgent reads before it decodes and validates the request *)
ReadAgent(r, a, field, m) ==
  /\ a \in Hired
  /\ begin(r, "update agent", a, [agents[a] EXCEPT ![field] = m])
  /\ others(<<clients, workspaces, agents, sessionOf, gone>>)

WriteAgent(r) ==
  LET a == request[r].id
  IN /\ request[r].op = "update agent" /\ end(r)
     /\ agents' = IF a \in Hired THEN [agents EXCEPT ![a] = request[r].row] ELSE agents
     /\ others(<<clients, workspaces, sessionOf, gone>>)

DeleteAgent(a) ==
  /\ a \in Hired
  /\ agents' = [agents EXCEPT ![a] = NoAgent]
  /\ gone' = gone \cup {a}
  /\ others(<<clients, workspaces, sessionOf, request>>)

-----------------------------------------------------------------------------
Next ==
  \/ \E r \in Requests :
       \/ \E c \in Clients, name \in ClientNames : CreateClient(r, c, name)
       \/ InsertClient(r)
       \/ \E c \in Clients, w \in Workspaces, name \in Names :
            \/ ReadWorkspace(r, c, w, "update workspace", name)
            \/ ReadWorkspace(r, c, w, "delete workspace", workspaces[w].name)
       \/ VerifyWorkspace(r) \/ WriteWorkspace(r) \/ DeleteWorkspace(r)
       \/ \E a \in Agents, field \in {"model", "tools"}, m \in Models :
            ReadAgent(r, a, field, m)
       \/ WriteAgent(r)
  \/ \E w \in Workspaces :
       \/ CreateSession(w)
       \/ \E c \in Clients, name \in Names : CreateWorkspace(w, c, name)
  \/ \E a \in Agents : DeleteAgent(a) \/ \E m \in Models : CreateAgent(a, m)

Spec == Init /\ [][Next]_vars

-----------------------------------------------------------------------------
(* Client names are unique, and workspace names are unique for a client    *)
(* (idx_clients_name_nocase, idx_workspaces_client_name_nocase).           *)
NamesAreUnique ==
  /\ \A c, d \in Known : clients[c] = clients[d] => c = d
  /\ \A v, w \in Minted : workspaces[v] = workspaces[w] => v = w

(* A workspace's client and a session's workspace exist. *)
ReferencesHold ==
  /\ \A w \in Minted : workspaces[w].client \in Known
  /\ sessionOf # None => sessionOf \in Minted

(* What was deleted stays deleted, whatever update had read it before. *)
DeletedIsGone == (Minted \cup Hired) \cap gone = {}

CatalogIsSound == NamesAreUnique /\ ReferencesHold /\ DeletedIsGone
=============================================================================
