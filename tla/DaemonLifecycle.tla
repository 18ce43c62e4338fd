-------------------------- MODULE DaemonLifecycle ---------------------------
(***************************************************************************)
(* The daemon as a process: the lock and the registration by which clients *)
(* find it (internal/daemonstate), its construction, serving and shutdown  *)
(* (cmd/wingman runServe, app/app.go, Start and Close of server/server.go) *)
(* and the discovery that service commands wait on (internal/daemonclient, *)
(* cmd/wingman/service.go).                                                *)
(*                                                                         *)
(* A process is started at most once; a restarted daemon is another        *)
(* process.  The operating system frees the lock and the port of a process *)
(* that dies; the registration stays behind.                               *)
(***************************************************************************)
EXTENDS Naturals

CONSTANTS Processes,
          Busy,       \* bound: those that get work to do
          Managed,    \* those started with --register
          Port,       \* [Processes -> ports]
          Version,    \* [Processes -> versions]
          Clients,
          Wanted,     \* the version the clients expect
          None

VARIABLES process,        \* [at, requests, streams, runs, expired]
          lock,           \* holder of daemon.lock
          registration,   \* whose registration.json is
          client,         \* [at, seen, status]
          left            \* history: processes that could not clean up

vars == <<process, lock, registration, client, left>>

Idle == [at |-> "off", requests |-> 0, streams |-> 0, runs |-> 0, expired |-> FALSE]

Init ==
  /\ process = [p \in Processes |-> Idle]
  /\ lock = None
  /\ registration = None
  /\ client = [c \in Clients |-> [at |-> "idle", seen |-> None, status |-> "none"]]
  /\ left = {}

At(p, places) == process[p].at \in places

(* between WriteRegistration and its deferred removal *)
Published(p) == p \in Managed /\
  At(p, {"building", "serving", "draining", "stopping", "waiting", "closing",
         "unregistering"})

Listening(p) == At(p, {"listening", "building", "serving"})
Over(p) == At(p, {"off", "exited", "killed"})

move(p, place) == process' = [process EXCEPT ![p].at = place]

-----------------------------------------------------------------------------
(* runServe, up to Serve *)

(* AcquireLock that goes on without the lock *)
AcquireLockShared(p) ==
  /\ At(p, {"off"}) /\ move(p, "unbound")
  /\ lock' = IF p \in Managed /\ lock = None THEN p ELSE lock
  /\ UNCHANGED <<registration, client, left>>

(* AcquireLock does not wait *)
AcquireLock(p) ==
  /\ At(p, {"off"})
  /\ IF p \notin Managed THEN move(p, "unbound") /\ UNCHANGED lock
     ELSE IF lock = None THEN move(p, "unbound") /\ lock' = p
     ELSE move(p, "exited") /\ UNCHANGED lock
  /\ UNCHANGED <<registration, client, left>>

(* net.Listen fails on a port in use *)
Listen(p) ==
  /\ At(p, {"unbound"})
  /\ IF \E q \in Processes : Listening(q) /\ Port[q] = Port[p]
     THEN move(p, "unlocking") ELSE move(p, "listening")
  /\ UNCHANGED <<lock, registration, client, left>>

(* WriteRegistration replaces whatever registration there is *)
WriteRegistration(p) ==
  /\ At(p, {"listening"})
  /\ \/ /\ move(p, "building")
        /\ registration' = IF p \in Managed THEN p ELSE registration
     \/ /\ p \in Managed /\ move(p, "unlocking")
        /\ UNCHANGED registration
  /\ UNCHANGED <<lock, client, left>>

(* New and Start: recovery may put queued runs to work; a failure rolls    *)
(* back what was built                                                     *)
Build(p) ==
  /\ At(p, {"building"})
  /\ \/ \E n \in 0..1 : /\ n = 1 => p \in Busy
                      /\ process' = [process EXCEPT ![p].at = "serving", ![p].runs = n]
     \/ move(p, "unregistering")
  /\ UNCHANGED <<lock, registration, client, left>>

-----------------------------------------------------------------------------
(* Serving.  A handler that has begun goes on while the server drains, and *)
(* after http.Server.Close too.                                            *)

Request(p) ==
  /\ p \in Busy
  /\ At(p, {"serving"}) /\ process[p].requests = 0
  /\ process' = [process EXCEPT ![p].requests = 1]
  /\ UNCHANGED <<lock, registration, client, left>>

RequestEnds(p) ==
  /\ process[p].requests = 1
  /\ process' = [process EXCEPT ![p].requests = 0]
  /\ UNCHANGED <<lock, registration, client, left>>

BeforeStop == {"serving", "draining", "stopping"}

(* trackInflight counts a stream until the server closes; later ones are   *)
(* requests like any other                                                 *)
trackInflight(p) ==
  /\ process[p].requests = 1 /\ process[p].streams = 0 /\ At(p, BeforeStop)
  /\ process' = [process EXCEPT ![p].requests = 0, ![p].streams = 1]
  /\ UNCHANGED <<lock, registration, client, left>>

StreamEnds(p) ==
  /\ process[p].streams = 1
  /\ process' = [process EXCEPT ![p].streams = 0]
  /\ UNCHANGED <<lock, registration, client, left>>

(* a request has a run enqueued; the stopped manager starts no worker *)
RunStarts(p) ==
  /\ process[p].requests = 1 /\ process[p].runs = 0 /\ At(p, BeforeStop)
  /\ process' = [process EXCEPT ![p].runs = 1]
  /\ UNCHANGED <<lock, registration, client, left>>

RunEnds(p) ==
  /\ process[p].runs = 1
  /\ process' = [process EXCEPT ![p].runs = 0]
  /\ UNCHANGED <<lock, registration, client, left>>

-----------------------------------------------------------------------------
(* Shutting down *)

(* a signal, or the listener fails: Shutdown closes the listener first *)
Shutdown(p) ==
  /\ At(p, {"serving"}) /\ move(p, "draining")
  /\ UNCHANGED <<lock, registration, client, left>>

(* the handlers are done, or the deadline passes and they are left *)
Drained(p) ==
  /\ At(p, {"draining"})
  /\ \/ process[p].requests + process[p].streams = 0 /\ move(p, "stopping")
     \/ process' = [process EXCEPT ![p].at = "stopping", ![p].expired = TRUE]
  /\ UNCHANGED <<lock, registration, client, left>>

(* closeOnce of the server: not ready, no more workers, no more streams *)
StopServer(p) ==
  /\ At(p, {"stopping"}) /\ move(p, "waiting")
  /\ UNCHANGED <<lock, registration, client, left>>

(* Serve's one deadline covers every wait; work that outlasts it keeps the *)
(* dependencies open and runServe returns the error.  A deadline that has  *)
(* passed may still lose to work that is done.                             *)
WaitServer(p) ==
  /\ At(p, {"waiting"})
  /\ \/ process[p].runs + process[p].streams = 0 /\ move(p, "closing")
     \/ move(p, "unregistering")
  /\ UNCHANGED <<lock, registration, client, left>>

(* the execution scopes and then the store are closed *)
CloseDependencies(p) ==
  /\ At(p, {"closing"}) /\ move(p, "unregistering")
  /\ UNCHANGED <<lock, registration, client, left>>

(* the deferred calls of runServe, last first; the first one's error is    *)
(* dropped                                                                 *)
RemoveRegistration(p) ==
  /\ At(p, {"unregistering"}) /\ move(p, "unlocking")
  /\ \/ /\ registration' = IF registration = p THEN None ELSE registration
        /\ UNCHANGED left
     \/ left' = left \cup {p} /\ UNCHANGED registration
  /\ UNCHANGED <<lock, client>>

Ended(p, how) == [Idle EXCEPT !.at = how]

Release(p) ==
  /\ At(p, {"unlocking"})
  /\ process' = [process EXCEPT ![p] = Ended(p, "exited")]
  /\ lock' = IF lock = p THEN None ELSE lock
  /\ UNCHANGED <<registration, client, left>>

Kill(p) ==
  /\ ~Over(p)
  /\ process' = [process EXCEPT ![p] = Ended(p, "killed")]
  /\ lock' = IF lock = p THEN None ELSE lock
  /\ left' = left \cup {p}
  /\ UNCHANGED <<registration, client>>

-----------------------------------------------------------------------------
(* Discovery.  A registration read is a process that may be gone when its  *)
(* address is asked, and another may listen there.                         *)

settle(c, status) == client' = [client EXCEPT
  ![c].at = IF status \in {"ready", "incompatible"} THEN "done" ELSE "idle",
  ![c].status = status]

ReadRegistration(c) ==
  /\ client[c].at = "idle"
  /\ IF registration = None THEN settle(c, "missing")
     ELSE client' = [client EXCEPT ![c] = [at |-> "asking", seen |-> registration,
                                           status |-> "none"]]
  /\ UNCHANGED <<process, lock, registration, left>>

(* nobody listens: stale, or starting while the registration is young *)
Unanswered(c) ==
  /\ client[c].at = "asking"
  /\ ~ \E q \in Processes : Listening(q) /\ Port[q] = Port[client[c].seen]
  /\ \E status \in {"stale", "starting"} : settle(c, status)
  /\ UNCHANGED <<process, lock, registration, left>>

(* a process that listens answers once it serves *)
Inspect(c) ==
  LET seen == client[c].seen
  IN /\ client[c].at = "asking"
     /\ \E q \in Processes :
          /\ At(q, {"serving"}) /\ Port[q] = Port[seen]
          /\ settle(c, IF q # seen THEN "stale"
                       ELSE IF Version[q] # Wanted THEN "incompatible" ELSE "ready")
     /\ UNCHANGED <<process, lock, registration, left>>

(* a later command discovers anew *)
Again(c) ==
  /\ client[c].at = "done"
  /\ client' = [client EXCEPT ![c] = [at |-> "idle", seen |-> None, status |-> "none"]]
  /\ UNCHANGED <<process, lock, registration, left>>

-----------------------------------------------------------------------------
Next ==
  \/ \E p \in Processes :
       \/ AcquireLock(p) \/ Listen(p) \/ WriteRegistration(p) \/ Build(p)
       \/ Request(p) \/ RequestEnds(p) \/ trackInflight(p) \/ StreamEnds(p)
       \/ RunStarts(p) \/ RunEnds(p) \/ Shutdown(p) \/ Drained(p)
       \/ StopServer(p) \/ WaitServer(p) \/ CloseDependencies(p)
       \/ RemoveRegistration(p) \/ Release(p) \/ Kill(p)
  \/ \E c \in Clients : ReadRegistration(c) \/ Unanswered(c) \/ Inspect(c) \/ Again(c)

Spec == Init /\ [][Next]_vars

-----------------------------------------------------------------------------
(* The registration is that of the process that published one and has not  *)
(* taken it back: no other process, earlier or later, replaces or removes  *)
(* it.                                                                     *)
RegistrationIsOwn == \A p \in Processes : Published(p) =>
  registration = p \/ (At(p, {"unregistering"}) /\ registration = None)

(* A registration without its process is left only by one that was killed  *)
(* or could not remove the file.                                           *)
StaleOnlyAfterCrash ==
  registration # None => Published(registration) \/ registration \in left

(* A daemon found ready is the wanted one, and has been found under its    *)
(* own registration, whatever listens at its port by now.                  *)
ReadyWasWanted == \A c \in Clients : client[c].status = "ready" =>
  client[c].seen \in Managed /\ Version[client[c].seen] = Wanted

(* No run and no stream is at work when the store is closed; a handler is  *)
(* only if the deadline of the shutdown passed with it.                    *)
DependenciesOutliveWork == \A p \in Processes : At(p, {"closing"}) =>
  /\ process[p].runs = 0 /\ process[p].streams = 0
  /\ process[p].requests = 1 => process[p].expired

DaemonIsOwner == /\ RegistrationIsOwn /\ StaleOnlyAfterCrash
                 /\ ReadyWasWanted /\ DependenciesOutliveWork
=============================================================================
