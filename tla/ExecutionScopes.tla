-------------------------- MODULE ExecutionScopes ---------------------------
(***************************************************************************)
(* The manager of execution scopes (execution/scope.go): one graph of      *)
(* plugins, MCP servers and tools for each working directory, built when a *)
(* first caller asks, shared by leases and closed when it has been idle.   *)
(*                                                                         *)
(* A scope outlives its place in the map: it may be under construction     *)
(* when its last waiter gives up, and it is closed after it was taken out. *)
(* So the map names an object (ownedScope) and the objects have a life of  *)
(* their own; each is one of Objects.                                      *)
(***************************************************************************)
EXTENDS Integers, FiniteSets

CONSTANTS Callers, Directories,
          Daemon,   \* the directoryless scope, pinned by the manager
          None,
          Objects,       \* bound: scopes built in one life of the manager
          MaxEvictions   \* bound: evictions of one scope that are on their way

VARIABLES scopes,    \* directory -> object, or None
          owned,     \* of each object: ownedScope
          closed,    \* the manager is closed, and its context cancelled
          caller     \* of each caller: where it is in Acquire, and its lease

scopeVars == <<scopes, owned, closed, caller>>

Unused == [id |-> None, build |-> "unused", scope |-> None, err |-> FALSE,
           waiters |-> 0, refs |-> 0, timer |-> "nil", evictions |-> 0, cancelled |-> FALSE]

Idle == [at |-> "idle", object |-> None, id |-> None, waited |-> FALSE, cancelled |-> FALSE]

\* ready is open until constructOwned has stored its outcome.
IsReady(o) == owned[o].build \in {"stored"}
Fresh == {o \in Objects : owned[o].build = "unused"}

\* newManager builds the daemon's scope and holds it.
Init ==
  LET daemon == CHOOSE o \in Objects : TRUE
  IN /\ scopes = [d \in Directories \cup {Daemon} |-> IF d = Daemon THEN daemon ELSE None]
     /\ owned = [o \in Objects |->
                   IF o = daemon
                   THEN [Unused EXCEPT !.id = Daemon, !.build = "stored", !.scope = "open", !.refs = 1]
                   ELSE Unused]
     /\ closed = FALSE
     /\ caller = [c \in Callers |-> Idle]

-----------------------------------------------------------------------------
(* Acquire. *)

\* The first section under the lock: find the scope, or start to build it.
Acquire(c, d) ==
  /\ caller[c].at = "idle" /\ ~closed
  /\ \/ \E o \in Fresh :
          /\ scopes[d] = None
          /\ scopes' = [scopes EXCEPT ![d] = o]
          /\ owned' = [owned EXCEPT ![o] = [Unused EXCEPT !.id = d, !.build = "running", !.waiters = 1]]
          /\ caller' = [caller EXCEPT ![c] =
                          [Idle EXCEPT !.at = "waits", !.object = o, !.id = d, !.waited = TRUE]]
     \/ LET o == scopes[d]
        IN /\ o # None
           /\ owned' = IF IsReady(o) THEN owned ELSE [owned EXCEPT ![o].waiters = @ + 1]
           /\ caller' = [caller EXCEPT ![c] =
                           [Idle EXCEPT !.at = IF IsReady(o) THEN "leases" ELSE "waits",
                                        !.object = o, !.id = d, !.waited = ~IsReady(o)]]
           /\ UNCHANGED scopes
  /\ UNCHANGED closed

\* The caller's context is cancelled while it is in Acquire.
CancelCaller(c) ==
  /\ caller[c].at \in {"waits", "leases"} /\ ~caller[c].cancelled
  /\ caller' = [caller EXCEPT ![c].cancelled = TRUE]
  /\ UNCHANGED <<scopes, owned, closed>>

Wake(c) ==
  /\ caller[c].at = "waits" /\ IsReady(caller[c].object)
  /\ caller' = [caller EXCEPT ![c].at = "leases"]
  /\ UNCHANGED <<scopes, owned, closed>>

\* A caller that did not wait takes a waiter off all the same.
abandon(o, d) ==
  LET left == IF owned[o].waiters > 0 THEN owned[o].waiters - 1 ELSE owned[o].waiters
      last == left = 0 /\ ~IsReady(o)
      idle == /\ left = 0 /\ IsReady(o) /\ owned[o].scope # None
              /\ owned[o].refs = 0 /\ owned[o].id # Daemon /\ owned[o].timer = "nil"
  IN /\ scopes' = IF last /\ scopes[d] = o THEN [scopes EXCEPT ![d] = None] ELSE scopes
     /\ owned' = [owned EXCEPT ![o].waiters = left,
                               ![o].cancelled = @ \/ last,
                               ![o].timer = IF idle THEN "armed" ELSE @]

GiveUp(c) ==
  /\ \/ caller[c].at = "waits" /\ (caller[c].cancelled \/ closed)
     \/ caller[c].at = "leases" /\ caller[c].cancelled
  /\ abandon(caller[c].object, caller[c].id)
  /\ caller' = [caller EXCEPT ![c] = Idle]
  /\ UNCHANGED closed

\* The second section under the lock.  A context cancelled after it was last
\* looked at does not matter any more.
LeaseOf(c, refused) ==
  LET o == caller[c].object
      left == IF caller[c].waited THEN owned[o].waiters - 1 ELSE owned[o].waiters
  IN /\ caller[c].at = "leases"
     /\ owned' = [owned EXCEPT ![o].waiters = left,
                               ![o].refs = IF refused THEN @ ELSE @ + 1,
                               ![o].timer = IF refused THEN @ ELSE "nil"]
     /\ caller' = [caller EXCEPT ![c] =
                     IF refused THEN Idle ELSE [Idle EXCEPT !.at = "holds", !.object = o]]
     /\ UNCHANGED <<scopes, closed>>

LeaseUnlooked(c) == LeaseOf(c, owned[caller[c].object].err \/ closed)

Lease(c) ==
  LET o == caller[c].object
  IN LeaseOf(c, owned[o].err \/ closed \/ scopes[caller[c].id] # o \/ owned[o].scope = None)

-----------------------------------------------------------------------------
(* constructOwned, in a goroutine of its own. *)

\* construct looks at its context last, without the lock: a cancellation that
\* comes later is not seen.
Construct(o) ==
  \E ok \in BOOLEAN :
    /\ owned[o].build = "running"
    /\ ok => ~owned[o].cancelled /\ ~closed
    /\ owned' = [owned EXCEPT ![o].build = IF ok THEN "built" ELSE "failed"]
    /\ UNCHANGED <<scopes, closed, caller>>

\* Built for a manager that was closed meanwhile: closed without the lock.
DiscardBuilt(o) ==
  /\ owned[o].build = "built" /\ closed
  /\ owned' = [owned EXCEPT ![o].build = "failed"]
  /\ UNCHANGED <<scopes, closed, caller>>

StoreFailure(o) ==
  /\ owned[o].build = "failed"
  /\ owned' = [owned EXCEPT ![o].build = "stored", ![o].err = TRUE]
  /\ scopes' = [d \in DOMAIN scopes |-> IF scopes[d] = o THEN None ELSE scopes[d]]
  /\ UNCHANGED <<closed, caller>>

StoreScope(o) ==
  /\ owned[o].build = "built" /\ ~closed
  /\ owned' = [owned EXCEPT ![o].build = "stored", ![o].scope = "open",
                            ![o].timer = IF owned[o].waiters = 0 THEN "armed" ELSE @]
  /\ UNCHANGED <<scopes, closed, caller>>

-----------------------------------------------------------------------------
(* Leases, idleness and the end. *)

InMap(o) == \E d \in DOMAIN scopes : scopes[d] = o

\* Lease.Close, once.
Release(c) ==
  LET o == caller[c].object
      left == owned[o].refs - 1
  IN /\ caller[c].at = "holds"
     /\ owned' = IF closed \/ ~InMap(o) THEN owned
                 ELSE [owned EXCEPT ![o].refs = left,
                                    ![o].timer = IF left > 0 \/ owned[o].id = Daemon THEN @ ELSE "armed"]
     /\ caller' = [caller EXCEPT ![c] = Idle]
     /\ UNCHANGED <<scopes, closed>>

\* The timer runs evict in a goroutine; to stop the timer then is too late.
TimerFires(o) ==
  /\ owned[o].timer = "armed" /\ owned[o].evictions < MaxEvictions
  /\ owned' = [owned EXCEPT ![o].timer = "fired", ![o].evictions = @ + 1]
  /\ UNCHANGED <<scopes, closed, caller>>

evict(o) ==
  LET leave == closed \/ ~InMap(o) \/ owned[o].refs # 0
  IN /\ owned[o].evictions > 0
     /\ scopes' = IF leave THEN scopes ELSE [scopes EXCEPT ![owned[o].id] = None]
     /\ owned' = [owned EXCEPT ![o].evictions = @ - 1, ![o].scope = IF leave THEN @ ELSE "closing"]
     /\ UNCHANGED <<closed, caller>>

\* closeScope, after the lock is released.
CloseScope(o) ==
  /\ owned[o].scope = "closing"
  /\ owned' = [owned EXCEPT ![o].scope = "closed"]
  /\ UNCHANGED <<scopes, closed, caller>>

\* Every scope of the map is closed, leased or not; those under construction
\* are waited for and close themselves.
CloseManager ==
  /\ ~closed /\ closed' = TRUE
  /\ scopes' = [d \in DOMAIN scopes |-> None]
  /\ owned' = [o \in Objects |->
                 IF ~InMap(o) THEN owned[o]
                 ELSE [owned[o] EXCEPT !.timer = IF @ = "armed" THEN "nil" ELSE @,
                                       !.scope = IF @ = "open" THEN "closing" ELSE @]]
  /\ UNCHANGED caller

Next ==
  \/ \E c \in Callers :
       \/ \E d \in Directories \cup {Daemon} : Acquire(c, d)
       \/ CancelCaller(c) \/ Wake(c) \/ GiveUp(c) \/ Lease(c) \/ Release(c)
  \/ \E o \in Objects :
       \/ Construct(o) \/ DiscardBuilt(o) \/ StoreFailure(o) \/ StoreScope(o)
       \/ TimerFires(o) \/ evict(o) \/ CloseScope(o)
  \/ CloseManager

Spec == Init /\ [][Next]_scopeVars

-----------------------------------------------------------------------------
(* Properties. *)

\* While the manager is open, a lease holds an open scope, and all leases of a
\* directory hold the same one: an idle timer that fired before the lease, a
\* waiter that gave up or a second construction never takes it away.
LeasedIsOpen ==
  \A c \in Callers : (caller[c].at = "holds" /\ ~closed) =>
    /\ owned[caller[c].object].scope = "open"
    /\ scopes[owned[caller[c].object].id] = caller[c].object

\* An open scope that nobody holds or is about to hold comes to an end.  One of
\* the map will be evicted: its timer runs, or evict is on its way.  One that was
\* stored after its last waiter had given up is in no map: its context is
\* cancelled, and that is all, as evict leaves alone what is not in the map.
IdleWillExpire ==
  \A o \in Objects :
    (/\ ~closed /\ owned[o].scope = "open" /\ owned[o].id # Daemon
     /\ \A c \in Callers : caller[c].object # o) =>
    IF InMap(o) THEN owned[o].timer = "armed" \/ owned[o].evictions > 0 ELSE owned[o].cancelled

ScopesAreKept == LeasedIsOpen /\ IdleWillExpire
=============================================================================
