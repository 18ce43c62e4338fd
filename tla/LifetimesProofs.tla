-------------------------- MODULE LifetimesProofs ---------------------------
(***************************************************************************)
(* What lives for a while: the proof of UsersKeepTheirs, that what is      *)
(* shared lives as long as it is used, for any values of the constants of  *)
(* Lifetimes; and the safety of the prompts of PermissionRequests, for any *)
(* number of calls, resources, runs, shutdowns and crashes.                *)
(***************************************************************************)
EXTENDS Lifetimes, PermissionRequests, FiniteSetTheorems, TLAPS

-----------------------------------------------------------------------------
(* ExecutionScopes.  An object is counted by its waiters until it is       *)
(* stored and by its leases after it, and its timer runs when nobody has   *)
(* it.                                                                     *)

(* The directories that have a scope, and the daemon itself.               *)
ScopeIds == ScopeDirectories \cup {ScopeDaemon}

ScopeRecord ==
  [id : ScopeIds \cup {None}, build : {"unused", "running", "built", "failed", "stored"},
   scope : {None, "open", "closing", "closed"}, err : BOOLEAN, waiters : Int, refs : Int,
   timer : {"nil", "armed", "fired"}, evictions : Int, cancelled : BOOLEAN]

ScopeCaller ==
  [at : {"idle", "waits", "leases", "holds"}, object : ScopeObjects \cup {None}, id : ScopeIds
    \cup {None},
   waited : BOOLEAN, cancelled : BOOLEAN]

ScopesTyped ==
  /\ scpScopes \in [ScopeIds -> ScopeObjects \cup {None}]
  /\ scpOwned \in [ScopeObjects -> ScopeRecord]
  /\ scpCaller \in [ScopeCallers -> ScopeCaller]

(* The callers that have an object in Acquire or in their lease, and those *)
(* that have a lease of it. *)
ScopeUsers(cs, o) == {c \in ScopeCallers : cs[c].object = o}
ScopeHolders(cs, o) == {c \in ScopeCallers : cs[c].at = "holds" /\ cs[c].object = o}

(* An object is in the map under its own id only.                          *)
ScopesInPlace ==
  \A o \in ScopeObjects : \A d \in ScopeIds : scpScopes[d] = o => scpOwned[o].id = d

(* A caller has an object from Acquire to Release, under the id it asked   *)
(* for, and leases it when it is stored.                                   *)
CallersInPlace ==
  \A c \in ScopeCallers :
    /\ scpCaller[c].at = "idle" <=> scpCaller[c].object = None
    /\ scpCaller[c].at \in {"waits", "leases"}
         => scpCaller[c].id = scpOwned[scpCaller[c].object].id
    /\ scpCaller[c].at \in {"leases", "holds"} => scpOwned[scpCaller[c].object].build = "stored"
    /\ scpCaller[c].at # "idle" =>
         scpOwned[scpCaller[c].object].build # "unused"
           /\ scpOwned[scpCaller[c].object].id \in ScopeIds

(* Before storeScope an object counts its waiters exactly and has nothing  *)
(* else.                                                                   *)
UnstoredIsEmpty ==
  \A o \in ScopeObjects : scpOwned[o].build # "stored" =>
    /\ scpOwned[o].scope = None /\ scpOwned[o].refs = 0 /\ scpOwned[o].timer = "nil"
    /\ scpOwned[o].evictions = 0 /\ scpOwned[o].id # ScopeDaemon /\ ~scpOwned[o].err
    /\ scpOwned[o].waiters = Cardinality(ScopeUsers(scpCaller, o))

(* The refs of a scope are its leases, and one of the daemon itself.       *)
RefsAreHolders ==
  \A o \in ScopeObjects :
    scpOwned[o].refs = Cardinality(ScopeHolders(scpCaller,
      o)) + IF scpOwned[o].id = ScopeDaemon THEN 1 ELSE 0

(* The scope of the daemon stays in the map.                               *)
DaemonIsHeld == scpScopes[ScopeDaemon] # None

(* An open scope of the map without a lease will be evicted, or someone in *)
(* Acquire is about to lease it or to give it up.                          *)
IdleExpires ==
  \A o \in ScopeObjects :
    /\ scpOwned[o].evictions >= 0
    /\ (/\ \E d \in ScopeIds : scpScopes[d] = o
        /\ scpOwned[o].scope = "open" /\ scpOwned[o].id # ScopeDaemon /\ scpOwned[o].refs = 0)
             =>
        \/ scpOwned[o].timer = "armed" \/ scpOwned[o].evictions > 0
        \/ /\ scpOwned[o].timer = "nil"
           /\ 0 < scpOwned[o].waiters
                /\ scpOwned[o].waiters <= Cardinality(ScopeUsers(scpCaller, o))

(* What is in the map is not closed, and is the object of somebody.        *)
MappedIsOpen ==
  \A d \in ScopeIds : scpScopes[d] # None =>
    scpOwned[scpScopes[d]].build # "unused" /\ scpOwned[scpScopes[d]].scope \in {None, "open"}

(* A scope that failed to build has nothing to close and no timer.         *)
FailedIsEmpty ==
  \A o \in ScopeObjects : scpOwned[o].err =>
    scpOwned[o].scope = None /\ scpOwned[o].timer = "nil" /\ scpOwned[o].evictions = 0

ScopesCore ==
  /\ ScopesInPlace /\ CallersInPlace /\ UnstoredIsEmpty /\ RefsAreHolders /\ DaemonIsHeld
  /\ IdleExpires /\ MappedIsOpen /\ FailedIsEmpty /\ Scopes!LeasedIsOpen

(* A scope that is built, or is open, out of the map is one whose last     *)
(* waiter gave up: its context is cancelled.                               *)
Mapped(o) == \E d \in ScopeIds : scpScopes[d] = o
ForgottenIsCancelled ==
  \A o \in ScopeObjects :
    scpOwned[o].build \in {"running", "built"} \/ scpOwned[o].scope = "open" =>
      Mapped(o) \/ scpOwned[o].cancelled

(* The inductive invariant of an open manager; a manager that is closed    *)
(* stays closed.                                                           *)
ScopesIInv == ~scpClosed => ScopesTyped /\ ScopesCore /\ ForgottenIsCancelled

(* The types, without the records around them.                             *)
ScopesKnown ==
  /\ \A p \in ScopeObjects : scpOwned[p].waiters \in Int /\ scpOwned[p].refs \in Int
       /\ scpOwned[p].evictions \in Int
  /\ \A e \in ScopeIds : scpScopes[e] \in ScopeObjects \cup {None}
  /\ \A b \in ScopeCallers : /\ scpCaller[b].object \in ScopeObjects \cup {None}
                        /\ scpCaller[b].at \in {"idle", "waits", "leases", "holds"}
  /\ ScopeDaemon \in ScopeIds /\ ScopeDaemon # None /\ DOMAIN scpScopes = ScopeIds
  /\ None \notin ScopeObjects \cup {"open", "closing", "closed"}

(* What is typed is known.                                                 *)
LEMMA ScopesAreKnown == ASSUME ScopesTyped PROVE ScopesKnown
BY ScopesAssumption DEF ScopesTyped, ScopeRecord, ScopeCaller, ScopeIds, ScopesKnown

(* Two sets that differ in one element at most: what their cardinalities   *)
(* are.                                                                    *)
LEMMA MoveOfOne ==
  ASSUME NEW S, NEW T, NEW c, IsFiniteSet(S), S \ {c} = T \ {c}
  PROVE  /\ IsFiniteSet(T) /\ Cardinality(S) \in Nat /\ Cardinality(T) \in Nat
         /\ (c \in S <=> c \in T) => Cardinality(T) = Cardinality(S)
         /\ c \in S /\ c \notin T => Cardinality(T) = Cardinality(S) - 1
         /\ c \notin S /\ c \in T => Cardinality(T) = Cardinality(S) + 1
<1>1. CASE c \in S <=> c \in T
  <2>1. S = T
    BY <1>1
  <2> QED
    BY <2>1, FS_CardinalityType
<1>2. CASE c \in S /\ c \notin T
  <2>1. T = S \ {c}
    BY <1>2
  <2> QED
    BY <1>2, <2>1, FS_RemoveElement, FS_CardinalityType
<1>3. CASE c \notin S /\ c \in T
  <2>1. T = S \cup {c}
    BY <1>3
  <2> QED
    BY <1>3, <2>1, FS_AddElement, FS_CardinalityType
<1> QED
  BY <1>1, <1>2, <1>3

(* The users and the holders of an object are finite, and none when nobody *)
(* has it.                                                                 *)
LEMMA CountsKept ==
  ASSUME NEW cs, NEW o \in ScopeObjects
  PROVE /\ IsFiniteSet(ScopeUsers(cs, o)) /\ IsFiniteSet(ScopeHolders(cs, o))
        /\ Cardinality(ScopeUsers(cs, o)) \in Nat /\ Cardinality(ScopeHolders(cs, o)) \in Nat
        /\ Cardinality(ScopeUsers(cs, o)) = 0 <=> \A c \in ScopeCallers : cs[c].object # o
        /\ Cardinality(ScopeHolders(cs, o)) = 0 <=>
             \A c \in ScopeCallers : ~(cs[c].at = "holds" /\ cs[c].object = o)
<1>1. ScopeUsers(cs, o) \subseteq ScopeCallers /\ ScopeHolders(cs, o) \subseteq ScopeCallers
  BY DEF ScopeUsers, ScopeHolders
<1>2. IsFiniteSet(ScopeUsers(cs, o)) /\ IsFiniteSet(ScopeHolders(cs, o))
  BY <1>1, FS_Subset, ScopesAssumption
<1>3. /\ Cardinality(ScopeUsers(cs, o)) = 0 <=> ScopeUsers(cs, o) = {}
      /\ Cardinality(ScopeHolders(cs, o)) = 0 <=> ScopeHolders(cs, o) = {}
  BY <1>2, FS_EmptySet
<1> QED
  BY <1>2, <1>3, FS_CardinalityType DEF ScopeUsers, ScopeHolders

OneCaller(cs, ds, c) == \A b \in ScopeCallers : b # c => ds[b] = cs[b]
Counted(cs, ds, c) ==
  \A o \in ScopeObjects :
    /\ Cardinality(ScopeUsers(ds, o)) = Cardinality(ScopeUsers(cs, o))
         + (IF ds[c].object = o THEN 1 ELSE 0) - (IF cs[c].object = o THEN 1 ELSE 0)
    /\ Cardinality(ScopeHolders(ds, o)) = Cardinality(ScopeHolders(cs, o))
         + (IF ds[c].object = o /\ ds[c].at = "holds" THEN 1 ELSE 0)
         - (IF cs[c].object = o /\ cs[c].at = "holds" THEN 1 ELSE 0)

(* One caller moves *)
LEMMA ScopeCallerMoves ==
  ASSUME NEW cs, NEW ds, NEW c \in ScopeCallers, OneCaller(cs, ds, c)
  PROVE  Counted(cs, ds, c)
<1> SUFFICES ASSUME NEW o \in ScopeObjects
    PROVE  /\ Cardinality(ScopeUsers(ds, o)) = Cardinality(ScopeUsers(cs, o))
              + (IF ds[c].object = o THEN 1 ELSE 0) - (IF cs[c].object = o THEN 1 ELSE 0)
         /\ Cardinality(ScopeHolders(ds, o)) = Cardinality(ScopeHolders(cs, o))
              + (IF ds[c].object = o /\ ds[c].at = "holds" THEN 1 ELSE 0)
              - (IF cs[c].object = o /\ cs[c].at = "holds" THEN 1 ELSE 0)
  BY DEF Counted
<1>1. /\ ScopeUsers(cs, o) \ {c} = ScopeUsers(ds, o) \ {c}
      /\ ScopeHolders(cs, o) \ {c} = ScopeHolders(ds, o) \ {c}
  BY DEF ScopeUsers, ScopeHolders, OneCaller
<1>2. /\ c \in ScopeUsers(cs, o) <=> cs[c].object = o
      /\ c \in ScopeUsers(ds, o) <=> ds[c].object = o
      /\ c \in ScopeHolders(cs, o) <=> cs[c].object = o /\ cs[c].at = "holds"
      /\ c \in ScopeHolders(ds, o) <=> ds[c].object = o /\ ds[c].at = "holds"
  BY DEF ScopeUsers, ScopeHolders
<1>3. IsFiniteSet(ScopeUsers(cs, o)) /\ IsFiniteSet(ScopeHolders(cs, o))
  BY CountsKept
<1>4. Cardinality(ScopeUsers(ds, o)) = Cardinality(ScopeUsers(cs, o))
              + (IF ds[c].object = o THEN 1 ELSE 0) - (IF cs[c].object = o THEN 1 ELSE 0)
  BY <1>1, <1>2, <1>3, MoveOfOne
<1>5. Cardinality(ScopeHolders(ds, o)) = Cardinality(ScopeHolders(cs, o))
              + (IF ds[c].object = o /\ ds[c].at = "holds" THEN 1 ELSE 0)
              - (IF cs[c].object = o /\ cs[c].at = "holds" THEN 1 ELSE 0)
  BY <1>1, <1>2, <1>3, MoveOfOne
<1> QED
  BY <1>4, <1>5

(* The two ways of Acquire *)
Starts(c, d, o) ==
  /\ o \in Scopes!Fresh /\ scpScopes[d] = None /\ scpCaller[c].at = "idle"
  /\ scpScopes' = [scpScopes EXCEPT ![d] = o]
  /\ scpOwned' = [scpOwned EXCEPT ![o] = [Scopes!Unused EXCEPT !.id = d, !.build = "running",
       !.waiters = 1]]
  /\ scpCaller' = [scpCaller EXCEPT ![c] =
                  [Scopes!Idle EXCEPT !.at = "waits", !.object = o, !.id = d, !.waited = TRUE]]
  /\ UNCHANGED scpClosed

Joins(c, d, o) ==
  /\ o # None /\ o = scpScopes[d] /\ scpCaller[c].at = "idle"
  /\ scpOwned' = IF Scopes!IsReady(o) THEN scpOwned ELSE [scpOwned EXCEPT ![o].waiters = @ + 1]
  /\ scpCaller' = [scpCaller EXCEPT ![c] =
                  [Scopes!Idle EXCEPT !.at = IF Scopes!IsReady(o) THEN "leases" ELSE "waits",
                               !.object = o, !.id = d, !.waited = ~Scopes!IsReady(o)]]
  /\ UNCHANGED <<scpScopes, scpClosed>>

(* An object without one of its waiters, whose timer may have been armed.  *)
AbandonedBy(f, g, o, left, timer) ==
  /\ \A p \in ScopeObjects : p # o => g[p] = f[p]
  /\ g[o].id = f[o].id /\ g[o].build = f[o].build /\ g[o].scope = f[o].scope
  /\ g[o].err = f[o].err /\ g[o].refs = f[o].refs /\ g[o].evictions = f[o].evictions
  /\ g[o].waiters = left /\ g[o].timer = timer

LessOne(w) == IF w > 0 THEN w - 1 ELSE w

(* What abandon does, field by field.                                      *)
Abandoned(o, d) ==
  /\ \A p \in ScopeObjects : p # o => scpOwned'[p] = scpOwned[p]
  /\ scpOwned'[o].id = scpOwned[o].id /\ scpOwned'[o].build = scpOwned[o].build
  /\ scpOwned'[o].scope = scpOwned[o].scope /\ scpOwned'[o].refs = scpOwned[o].refs
  /\ scpOwned'[o].evictions = scpOwned[o].evictions /\ scpOwned'[o].err = scpOwned[o].err
  /\ scpOwned'[o].waiters = LessOne(scpOwned[o].waiters)
  /\ scpOwned'[o].timer =
       IF /\ scpOwned'[o].waiters = 0 /\ scpOwned[o].build = "stored"
         /\ scpOwned[o].scope # None
          /\ scpOwned[o].refs = 0 /\ scpOwned[o].id # ScopeDaemon /\ scpOwned[o].timer = "nil"
       THEN "armed" ELSE scpOwned[o].timer
  /\ \A e \in ScopeIds :
       scpScopes'[e] = IF scpOwned'[o].waiters = 0 /\ scpOwned[o].build # "stored" /\ e = d
         /\ scpScopes[e] = o
                    THEN None ELSE scpScopes[e]

(* abandon takes one waiter, and removes a construction that nobody waits  *)
(* for or arms the timer of a scope that nobody has.                       *)
LEMMA AbandonStep ==
  ASSUME ScopesTyped, NEW o \in ScopeObjects, NEW d \in ScopeIds, Scopes!abandon(o, d)
  PROVE  Abandoned(o, d)
<1> DEFINE left == LessOne(scpOwned[o].waiters)
           last == left = 0 /\ ~Scopes!IsReady(o)
           idle == /\ left = 0 /\ Scopes!IsReady(o) /\ scpOwned[o].scope # None
                   /\ scpOwned[o].refs = 0 /\ scpOwned[o].id # ScopeDaemon
                        /\ scpOwned[o].timer = "nil"
<1>1. scpOwned' = [scpOwned EXCEPT ![o].waiters = left, ![o].cancelled = @ \/ last,
                             ![o].timer = IF idle THEN "armed" ELSE @]
  BY DEF Scopes!abandon, LessOne
<1>2. scpOwned \in [ScopeObjects -> ScopeRecord] /\ scpScopes \in [ScopeIds -> ScopeObjects
        \cup {None}]
  BY DEF ScopesTyped
<1>3. scpScopes' = IF last
        /\ scpScopes[d] = o THEN [scpScopes EXCEPT ![d] = None] ELSE scpScopes
  BY DEF Scopes!abandon, LessOne
<1>4. /\ last <=> left = 0 /\ scpOwned[o].build # "stored"
      /\ idle <=> left = 0 /\ scpOwned[o].build = "stored" /\ scpOwned[o].scope # None
           /\ scpOwned[o].refs = 0
                   /\ scpOwned[o].id # ScopeDaemon /\ scpOwned[o].timer = "nil"
  BY DEF Scopes!IsReady
<1>5. \A e \in ScopeIds : scpScopes'[e] = IF left = 0 /\ scpOwned[o].build # "stored" /\ e = d
        /\ scpScopes[e] = o
                                  THEN None ELSE scpScopes[e]
  <2> HIDE DEF left, last, idle
  <2> QED
    BY <1>2, <1>3, <1>4
<1>6. AbandonedBy(scpOwned, scpOwned', o, left, IF idle THEN "armed" ELSE scpOwned[o].timer)
  <2> HIDE DEF left, last, idle
  <2> QED
    BY <1>1, <1>2 DEF AbandonedBy, ScopeRecord
<1> HIDE DEF left, last, idle
<1>7. left = LessOne(scpOwned[o].waiters)
  BY DEF left
<1> QED
  BY <1>4, <1>5, <1>6, <1>7 DEF AbandonedBy, Abandoned

(* An object that nobody has had is one.                                   *)
LEMMA UnusedTyped == Scopes!Unused \in ScopeRecord
BY DEF Scopes!Unused, ScopeRecord

(* Acquire starts a construction of a well-formed object.                  *)
LEMMA StartsTyped ==
  ASSUME ScopesTyped, NEW c \in ScopeCallers, NEW d \in ScopeIds, NEW o \in ScopeObjects,
         Starts(c, d, o)
  PROVE  scpOwned' \in [ScopeObjects -> ScopeRecord]
<1> DEFINE n == 1
           w == [Scopes!Unused EXCEPT !.id = d, !.build = "running", !.waiters = n]
<1>0. n \in Int
  OBVIOUS
<1>2. scpOwned' = [scpOwned EXCEPT ![o] = w]
  BY DEF Starts
<1> HIDE DEF n
<1>1. w \in ScopeRecord
  BY <1>0, UnusedTyped DEF ScopeRecord
<1> HIDE DEF w
<1> QED
  BY <1>1, <1>2 DEF ScopesTyped

(* storeScope and the failure of a construction keep objects well-formed.  *)
LEMMA StoreTyped ==
  ASSUME ScopesTyped, NEW o \in ScopeObjects, Scopes!StoreFailure(o) \/ Scopes!StoreScope(o)
  PROVE  scpOwned' \in [ScopeObjects -> ScopeRecord]
<1>0. scpOwned[o] \in ScopeRecord
  BY DEF ScopesTyped
<1>1. CASE Scopes!StoreFailure(o)
  <2> DEFINE w == [scpOwned[o] EXCEPT !.build = "stored", !.err = TRUE]
  <2>1. w \in ScopeRecord
    BY <1>0 DEF ScopeRecord
  <2>2. scpOwned' = [scpOwned EXCEPT ![o] = w]
    BY <1>1 DEF Scopes!StoreFailure, ScopesTyped
  <2> HIDE DEF w
  <2> QED
    BY <2>1, <2>2 DEF ScopesTyped
<1>2. CASE Scopes!StoreScope(o)
  <2> DEFINE t == IF scpOwned[o].waiters = 0 THEN "armed" ELSE scpOwned[o].timer
             w == [scpOwned[o] EXCEPT !.build = "stored", !.scope = "open", !.timer = t]
  <2>1. t \in {"nil", "armed", "fired"}
    BY <1>0 DEF ScopeRecord
  <2>2. scpOwned' = [scpOwned EXCEPT ![o] = w]
    BY <1>2 DEF Scopes!StoreScope, ScopesTyped
  <2> HIDE DEF t
  <2>3. w \in ScopeRecord
    BY <1>0, <2>1 DEF ScopeRecord
  <2> HIDE DEF w
  <2> QED
    BY <2>2, <2>3 DEF ScopesTyped
<1> QED
  BY <1>1, <1>2

(* evict keeps objects well-formed.                                        *)
LEMMA evictTyped ==
  ASSUME ScopesTyped, NEW o \in ScopeObjects, Scopes!evict(o)
  PROVE  scpOwned' \in [ScopeObjects -> ScopeRecord]
<1> DEFINE leave == scpClosed \/ ~Scopes!InMap(o) \/ scpOwned[o].refs # 0
           s == IF leave THEN scpOwned[o].scope ELSE "closing"
           n == scpOwned[o].evictions - 1
           w == [scpOwned[o] EXCEPT !.evictions = n, !.scope = s]
<1>0. scpOwned[o] \in ScopeRecord
  BY DEF ScopesTyped
<1>1. n \in Int /\ s \in {None, "open", "closing", "closed"}
  BY <1>0 DEF ScopeRecord
<1>2. scpOwned' = [scpOwned EXCEPT ![o] = w]
  BY DEF Scopes!evict, ScopesTyped
<1> HIDE DEF n, s
<1>3. w \in ScopeRecord
  BY <1>0, <1>1 DEF ScopeRecord
<1> HIDE DEF w
<1> QED
  BY <1>2, <1>3 DEF ScopesTyped

(* abandon keeps objects well-formed.                                      *)
LEMMA AbandonTyped ==
  ASSUME ScopesTyped, NEW o \in ScopeObjects, NEW d \in ScopeIds, Scopes!abandon(o, d)
  PROVE  scpOwned' \in [ScopeObjects -> ScopeRecord]
<1>0. scpOwned[o] \in ScopeRecord
  BY DEF ScopesTyped
<1>1. PICK t \in {"nil", "armed", "fired"}, n \in Int, x \in BOOLEAN :
        scpOwned' = [scpOwned EXCEPT ![o] = [scpOwned[o] EXCEPT !.waiters = n, !.cancelled = x,
          !.timer = t]]
  <2> DEFINE left == IF scpOwned[o].waiters > 0 THEN scpOwned[o].waiters - 1
                     ELSE scpOwned[o].waiters
             last == left = 0 /\ ~Scopes!IsReady(o)
             idle == /\ left = 0 /\ Scopes!IsReady(o) /\ scpOwned[o].scope # None
                     /\ scpOwned[o].refs = 0 /\ scpOwned[o].id # ScopeDaemon
                          /\ scpOwned[o].timer = "nil"
             x == scpOwned[o].cancelled \/ last
             t == IF idle THEN "armed" ELSE scpOwned[o].timer
  <2>1. scpOwned' = [scpOwned EXCEPT ![o] = [scpOwned[o] EXCEPT !.waiters = left,
          !.cancelled = x, !.timer = t]]
    BY DEF Scopes!abandon, ScopesTyped
  <2>2. left \in Int /\ t \in {"nil", "armed", "fired"}
    BY <1>0 DEF ScopeRecord
  <2>3. x \in BOOLEAN
    OBVIOUS
  <2> HIDE DEF left, x, t
  <2> QED
    BY <2>1, <2>2, <2>3
<1>2. [scpOwned[o] EXCEPT !.waiters = n, !.cancelled = x, !.timer = t] \in ScopeRecord
  BY <1>0 DEF ScopeRecord
<1> QED
  BY <1>1, <1>2 DEF ScopesTyped

(* A scope that nobody has had is in no place and has no user. *)
LEMMA StartsKeeps ==
  ASSUME ScopesTyped, ScopesCore, ~scpClosed, NEW c \in ScopeCallers, NEW d \in ScopeIds,
         NEW o \in ScopeObjects,
         Starts(c, d, o)
  PROVE  ScopesTyped' /\ ScopesCore'
<1>1. ScopesKnown
  BY ScopesAreKnown
<1>2. /\ scpScopes[d] = None
      /\ scpOwned[o].build = "unused"
      /\ scpScopes'[d] = o
      /\ \A e \in ScopeIds : e # d => scpScopes'[e] = scpScopes[e]
      /\ \A p \in ScopeObjects : p # o => scpOwned'[p] = scpOwned[p]
      /\ ~scpOwned'[o].err
      /\ scpOwned'[o].id = d
      /\ scpOwned'[o].build = "running"
      /\ scpOwned'[o].scope = None
      /\ scpOwned'[o].waiters = 1
      /\ scpOwned'[o].refs = 0
      /\ scpOwned'[o].timer = "nil"
      /\ scpOwned'[o].evictions = 0
      /\ \A b \in ScopeCallers : b # c => scpCaller'[b] = scpCaller[b]
      /\ scpCaller'[c].at = "waits"
      /\ scpCaller'[c].object = o
      /\ scpCaller'[c].id = d
      /\ scpCaller[c].at = "idle"
  BY <1>1 DEF ScopesKnown, ScopesCore, MappedIsOpen, CallersInPlace, Scopes!LeasedIsOpen,
     ScopesTyped, ScopeRecord, ScopeCaller, Starts, Scopes!Idle, Scopes!Unused, Scopes!Fresh
<1>4. Counted(scpCaller, scpCaller', c)
  BY <1>2, ScopeCallerMoves DEF OneCaller
<1>5. /\ \A p \in ScopeObjects : p # o =>
           /\ Cardinality(ScopeUsers(scpCaller', p)) = Cardinality(ScopeUsers(scpCaller, p))
           /\ Cardinality(ScopeHolders(scpCaller', p)) = Cardinality(ScopeHolders(scpCaller, p))
      /\ Cardinality(ScopeUsers(scpCaller', o)) = Cardinality(ScopeUsers(scpCaller, o)) + 1
      /\ Cardinality(ScopeHolders(scpCaller', o)) = Cardinality(ScopeHolders(scpCaller, o))
  BY <1>1, <1>2, <1>4, CountsKept DEF ScopesKnown, ScopesCore, CallersInPlace, Counted
<1>6. ScopesTyped'
  <2>1. scpScopes' \in [ScopeIds -> ScopeObjects \cup {None}]
    BY DEF ScopesTyped, Starts, Scopes!Idle, Scopes!Unused, Scopes!Fresh
  <2>2. scpOwned' \in [ScopeObjects -> ScopeRecord]
    BY StartsTyped
  <2>3. scpCaller' \in [ScopeCallers -> ScopeCaller]
    BY DEF ScopesTyped, ScopeCaller, Starts, Scopes!Idle, Scopes!Unused, Scopes!Fresh
  <2> QED
    BY <2>1, <2>2, <2>3 DEF ScopesTyped
<1>7. ScopesInPlace'
  BY <1>1, <1>2, <1>5, CountsKept DEF ScopesKnown, ScopesCore, ScopesInPlace, MappedIsOpen
<1>8. CallersInPlace'
  BY <1>1, <1>2, <1>5, CountsKept DEF ScopesKnown, ScopesCore, CallersInPlace, MappedIsOpen,
     ScopesInPlace
<1>9. UnstoredIsEmpty'
  BY <1>1, <1>2, <1>5, CountsKept DEF ScopesKnown, ScopesCore, UnstoredIsEmpty, CallersInPlace,
     DaemonIsHeld
<1>10. RefsAreHolders'
  BY <1>1, <1>2, <1>5, CountsKept DEF ScopesKnown, ScopesCore, RefsAreHolders, DaemonIsHeld,
     UnstoredIsEmpty, Scopes!LeasedIsOpen, CallersInPlace
<1>11. DaemonIsHeld'
  BY <1>1, <1>2, <1>5, CountsKept DEF ScopesKnown, ScopesCore, DaemonIsHeld, ScopesInPlace,
     UnstoredIsEmpty, RefsAreHolders
<1>12. IdleExpires'
  BY <1>1, <1>2, <1>5, CountsKept DEF ScopesKnown, ScopesCore, IdleExpires, MappedIsOpen,
     FailedIsEmpty, DaemonIsHeld, RefsAreHolders, CallersInPlace, UnstoredIsEmpty,
     ScopesInPlace, Scopes!LeasedIsOpen
<1>13. MappedIsOpen'
  BY <1>1, <1>2, <1>5, CountsKept DEF ScopesKnown, ScopesCore, MappedIsOpen, UnstoredIsEmpty,
     ScopesInPlace
<1>14. FailedIsEmpty'
  BY <1>1, <1>2, <1>5, CountsKept DEF ScopesKnown, ScopesCore, FailedIsEmpty, UnstoredIsEmpty,
     Scopes!LeasedIsOpen
<1>15. Scopes!LeasedIsOpen'
  BY <1>1, <1>2, <1>5, CountsKept DEF ScopesKnown, ScopesCore, Scopes!LeasedIsOpen,
     MappedIsOpen, ScopesInPlace, CallersInPlace, RefsAreHolders, UnstoredIsEmpty
<1> QED
  BY <1>6, <1>7, <1>8, <1>9, <1>10, <1>11, <1>12, <1>13, <1>14, <1>15 DEF ScopesCore

(* Another user of the scope, counted if it has to wait. *)
LEMMA JoinsKeeps ==
  ASSUME ScopesTyped, ScopesCore, ~scpClosed, NEW c \in ScopeCallers, NEW d \in ScopeIds,
         NEW o \in ScopeObjects,
         Joins(c, d, o)
  PROVE  ScopesTyped' /\ ScopesCore'
<1>1. ScopesKnown
  BY ScopesAreKnown
<1>2. /\ scpScopes[d] = o
      /\ \A p \in ScopeObjects : p # o => scpOwned'[p] = scpOwned[p]
      /\ scpScopes' = scpScopes
      /\ scpOwned'[o].id = scpOwned[o].id
      /\ scpOwned'[o].build = scpOwned[o].build
      /\ scpOwned'[o].scope = scpOwned[o].scope
      /\ scpOwned'[o].waiters = IF scpOwned[o].build = "stored" THEN scpOwned[o].waiters
                                ELSE scpOwned[o].waiters + 1
      /\ scpOwned'[o].refs = scpOwned[o].refs
      /\ scpOwned'[o].timer = scpOwned[o].timer
      /\ scpOwned'[o].evictions = scpOwned[o].evictions
      /\ scpOwned'[o].err => scpOwned[o].err
      /\ \A b \in ScopeCallers : b # c => scpCaller'[b] = scpCaller[b]
      /\ scpCaller'[c].at = IF scpOwned[o].build = "stored" THEN "leases" ELSE "waits"
      /\ scpCaller'[c].object = o
      /\ scpCaller'[c].id = d
      /\ scpCaller[c].at = "idle"
  BY <1>1 DEF ScopesKnown, ScopesCore, MappedIsOpen, CallersInPlace, Scopes!LeasedIsOpen,
     ScopesTyped, ScopeRecord, ScopeCaller, Joins, Scopes!Idle, Scopes!IsReady
<1>4. Counted(scpCaller, scpCaller', c)
  BY <1>2, ScopeCallerMoves DEF OneCaller
<1>5. /\ \A p \in ScopeObjects : p # o =>
           /\ Cardinality(ScopeUsers(scpCaller', p)) = Cardinality(ScopeUsers(scpCaller, p))
           /\ Cardinality(ScopeHolders(scpCaller', p)) = Cardinality(ScopeHolders(scpCaller, p))
      /\ Cardinality(ScopeUsers(scpCaller', o)) = Cardinality(ScopeUsers(scpCaller, o)) + 1
      /\ Cardinality(ScopeHolders(scpCaller', o)) = Cardinality(ScopeHolders(scpCaller, o))
  BY <1>1, <1>2, <1>4, CountsKept DEF ScopesKnown, ScopesCore, CallersInPlace, Counted
<1>6. ScopesTyped'
  <2>1. scpScopes' \in [ScopeIds -> ScopeObjects \cup {None}]
    BY DEF ScopesTyped, Joins, Scopes!Idle, Scopes!IsReady
  <2>2. scpOwned' \in [ScopeObjects -> ScopeRecord]
    BY DEF ScopesTyped, ScopeRecord, Joins, Scopes!Idle, Scopes!IsReady
  <2>3. scpCaller' \in [ScopeCallers -> ScopeCaller]
    BY DEF ScopesTyped, ScopeCaller, Joins, Scopes!Idle, Scopes!IsReady
  <2> QED
    BY <2>1, <2>2, <2>3 DEF ScopesTyped
<1>7. ScopesInPlace'
  BY <1>1, <1>2, <1>5, CountsKept DEF ScopesKnown, ScopesCore, ScopesInPlace, MappedIsOpen
<1>8. CallersInPlace'
  BY <1>1, <1>2, <1>5, CountsKept DEF ScopesKnown, ScopesCore, CallersInPlace, MappedIsOpen,
     ScopesInPlace
<1>9. UnstoredIsEmpty'
  BY <1>1, <1>2, <1>5, CountsKept DEF ScopesKnown, ScopesCore, UnstoredIsEmpty, CallersInPlace,
     DaemonIsHeld
<1>10. RefsAreHolders'
  BY <1>1, <1>2, <1>5, CountsKept DEF ScopesKnown, ScopesCore, RefsAreHolders, DaemonIsHeld,
     UnstoredIsEmpty, Scopes!LeasedIsOpen, CallersInPlace
<1>11. DaemonIsHeld'
  BY <1>1, <1>2, <1>5, CountsKept DEF ScopesKnown, ScopesCore, DaemonIsHeld, ScopesInPlace,
     UnstoredIsEmpty, RefsAreHolders
<1>12. IdleExpires'
  BY <1>1, <1>2, <1>5, CountsKept DEF ScopesKnown, ScopesCore, IdleExpires, MappedIsOpen,
     FailedIsEmpty, DaemonIsHeld, RefsAreHolders, CallersInPlace, UnstoredIsEmpty,
     ScopesInPlace, Scopes!LeasedIsOpen
<1>13. MappedIsOpen'
  BY <1>1, <1>2, <1>5, CountsKept DEF ScopesKnown, ScopesCore, MappedIsOpen, UnstoredIsEmpty,
     ScopesInPlace
<1>14. FailedIsEmpty'
  BY <1>1, <1>2, <1>5, CountsKept DEF ScopesKnown, ScopesCore, FailedIsEmpty, UnstoredIsEmpty,
     Scopes!LeasedIsOpen
<1>15. Scopes!LeasedIsOpen'
  BY <1>1, <1>2, <1>5, CountsKept DEF ScopesKnown, ScopesCore, Scopes!LeasedIsOpen,
     MappedIsOpen, ScopesInPlace, CallersInPlace, RefsAreHolders, UnstoredIsEmpty
<1> QED
  BY <1>6, <1>7, <1>8, <1>9, <1>10, <1>11, <1>12, <1>13, <1>14, <1>15 DEF ScopesCore

(* Cancelled callers are users until they give up. *)
LEMMA CancelKeeps ==
  ASSUME ScopesTyped, ScopesCore, ~scpClosed, NEW c \in ScopeCallers,
         Scopes!CancelCaller(c)
  PROVE  ScopesTyped' /\ ScopesCore'
<1>1. ScopesKnown
  BY ScopesAreKnown
<1>2. /\ scpScopes' = scpScopes
      /\ scpOwned' = scpOwned
      /\ \A b \in ScopeCallers : b # c => scpCaller'[b] = scpCaller[b]
      /\ scpCaller'[c].at = scpCaller[c].at
      /\ scpCaller'[c].object = scpCaller[c].object
      /\ scpCaller'[c].id = scpCaller[c].id
  BY <1>1 DEF ScopesKnown, ScopesCore, MappedIsOpen, CallersInPlace, Scopes!LeasedIsOpen,
     ScopesTyped, ScopeRecord, ScopeCaller, Scopes!CancelCaller
<1>4. Counted(scpCaller, scpCaller', c)
  BY <1>2, ScopeCallerMoves DEF OneCaller
<1>5. \A p \in ScopeObjects :
           /\ Cardinality(ScopeUsers(scpCaller', p)) = Cardinality(ScopeUsers(scpCaller, p))
           /\ Cardinality(ScopeHolders(scpCaller', p)) = Cardinality(ScopeHolders(scpCaller, p))
  BY <1>1, <1>2, <1>4, CountsKept DEF ScopesKnown, ScopesCore, CallersInPlace, Counted
<1>6. ScopesTyped'
  <2>1. scpScopes' \in [ScopeIds -> ScopeObjects \cup {None}]
    BY DEF ScopesTyped, Scopes!CancelCaller
  <2>2. scpOwned' \in [ScopeObjects -> ScopeRecord]
    BY DEF ScopesTyped, ScopeRecord, Scopes!CancelCaller
  <2>3. scpCaller' \in [ScopeCallers -> ScopeCaller]
    BY DEF ScopesTyped, ScopeCaller, Scopes!CancelCaller
  <2> QED
    BY <2>1, <2>2, <2>3 DEF ScopesTyped
<1>7. ScopesInPlace'
  BY <1>1, <1>2, <1>5, CountsKept DEF ScopesKnown, ScopesCore, ScopesInPlace, MappedIsOpen
<1>8. CallersInPlace'
  BY <1>1, <1>2, <1>5, CountsKept DEF ScopesKnown, ScopesCore, CallersInPlace, MappedIsOpen,
     ScopesInPlace
<1>9. UnstoredIsEmpty'
  BY <1>1, <1>2, <1>5, CountsKept DEF ScopesKnown, ScopesCore, UnstoredIsEmpty, CallersInPlace,
     DaemonIsHeld
<1>10. RefsAreHolders'
  BY <1>1, <1>2, <1>5, CountsKept DEF ScopesKnown, ScopesCore, RefsAreHolders, DaemonIsHeld,
     UnstoredIsEmpty, Scopes!LeasedIsOpen, CallersInPlace
<1>11. DaemonIsHeld'
  BY <1>1, <1>2, <1>5, CountsKept DEF ScopesKnown, ScopesCore, DaemonIsHeld, ScopesInPlace,
     UnstoredIsEmpty, RefsAreHolders
<1>12. IdleExpires'
  BY <1>1, <1>2, <1>5, CountsKept DEF ScopesKnown, ScopesCore, IdleExpires, MappedIsOpen,
     FailedIsEmpty, DaemonIsHeld, RefsAreHolders, CallersInPlace, UnstoredIsEmpty,
     ScopesInPlace, Scopes!LeasedIsOpen
<1>13. MappedIsOpen'
  BY <1>1, <1>2, <1>5, CountsKept DEF ScopesKnown, ScopesCore, MappedIsOpen, UnstoredIsEmpty,
     ScopesInPlace
<1>14. FailedIsEmpty'
  BY <1>1, <1>2, <1>5, CountsKept DEF ScopesKnown, ScopesCore, FailedIsEmpty, UnstoredIsEmpty,
     Scopes!LeasedIsOpen
<1>15. Scopes!LeasedIsOpen'
  BY <1>1, <1>2, <1>5, CountsKept DEF ScopesKnown, ScopesCore, Scopes!LeasedIsOpen,
     MappedIsOpen, ScopesInPlace, CallersInPlace, RefsAreHolders, UnstoredIsEmpty
<1> QED
  BY <1>6, <1>7, <1>8, <1>9, <1>10, <1>11, <1>12, <1>13, <1>14, <1>15 DEF ScopesCore

(* A caller wakes for a scope that is stored. *)
LEMMA WakeKeeps ==
  ASSUME ScopesTyped, ScopesCore, ~scpClosed, NEW c \in ScopeCallers,
         Scopes!Wake(c)
  PROVE  ScopesTyped' /\ ScopesCore'
<1>1. ScopesKnown
  BY ScopesAreKnown
<1>2. /\ scpScopes' = scpScopes
      /\ scpOwned' = scpOwned
      /\ \A b \in ScopeCallers : b # c => scpCaller'[b] = scpCaller[b]
      /\ scpCaller'[c].at = "leases"
      /\ scpCaller'[c].object = scpCaller[c].object
      /\ scpCaller'[c].id = scpCaller[c].id
      /\ scpCaller[c].at = "waits"
      /\ scpOwned[scpCaller[c].object].build = "stored"
  BY <1>1 DEF ScopesKnown, ScopesCore, MappedIsOpen, CallersInPlace, Scopes!LeasedIsOpen,
     ScopesTyped, ScopeRecord, ScopeCaller, Scopes!Wake, Scopes!IsReady
<1>4. Counted(scpCaller, scpCaller', c)
  BY <1>2, ScopeCallerMoves DEF OneCaller
<1>5. \A p \in ScopeObjects :
           /\ Cardinality(ScopeUsers(scpCaller', p)) = Cardinality(ScopeUsers(scpCaller, p))
           /\ Cardinality(ScopeHolders(scpCaller', p)) = Cardinality(ScopeHolders(scpCaller, p))
  BY <1>1, <1>2, <1>4, CountsKept DEF ScopesKnown, ScopesCore, CallersInPlace, Counted
<1>6. ScopesTyped'
  <2>1. scpScopes' \in [ScopeIds -> ScopeObjects \cup {None}]
    BY DEF ScopesTyped, Scopes!Wake, Scopes!IsReady
  <2>2. scpOwned' \in [ScopeObjects -> ScopeRecord]
    BY DEF ScopesTyped, ScopeRecord, Scopes!Wake, Scopes!IsReady
  <2>3. scpCaller' \in [ScopeCallers -> ScopeCaller]
    BY DEF ScopesTyped, ScopeCaller, Scopes!Wake, Scopes!IsReady
  <2> QED
    BY <2>1, <2>2, <2>3 DEF ScopesTyped
<1>7. ScopesInPlace'
  BY <1>1, <1>2, <1>5, CountsKept DEF ScopesKnown, ScopesCore, ScopesInPlace, MappedIsOpen
<1>8. CallersInPlace'
  BY <1>1, <1>2, <1>5, CountsKept DEF ScopesKnown, ScopesCore, CallersInPlace, MappedIsOpen,
     ScopesInPlace
<1>9. UnstoredIsEmpty'
  BY <1>1, <1>2, <1>5, CountsKept DEF ScopesKnown, ScopesCore, UnstoredIsEmpty, CallersInPlace,
     DaemonIsHeld
<1>10. RefsAreHolders'
  BY <1>1, <1>2, <1>5, CountsKept DEF ScopesKnown, ScopesCore, RefsAreHolders, DaemonIsHeld,
     UnstoredIsEmpty, Scopes!LeasedIsOpen, CallersInPlace
<1>11. DaemonIsHeld'
  BY <1>1, <1>2, <1>5, CountsKept DEF ScopesKnown, ScopesCore, DaemonIsHeld, ScopesInPlace,
     UnstoredIsEmpty, RefsAreHolders
<1>12. IdleExpires'
  BY <1>1, <1>2, <1>5, CountsKept DEF ScopesKnown, ScopesCore, IdleExpires, MappedIsOpen,
     FailedIsEmpty, DaemonIsHeld, RefsAreHolders, CallersInPlace, UnstoredIsEmpty,
     ScopesInPlace, Scopes!LeasedIsOpen
<1>13. MappedIsOpen'
  BY <1>1, <1>2, <1>5, CountsKept DEF ScopesKnown, ScopesCore, MappedIsOpen, UnstoredIsEmpty,
     ScopesInPlace
<1>14. FailedIsEmpty'
  BY <1>1, <1>2, <1>5, CountsKept DEF ScopesKnown, ScopesCore, FailedIsEmpty, UnstoredIsEmpty,
     Scopes!LeasedIsOpen
<1>15. Scopes!LeasedIsOpen'
  BY <1>1, <1>2, <1>5, CountsKept DEF ScopesKnown, ScopesCore, Scopes!LeasedIsOpen,
     MappedIsOpen, ScopesInPlace, CallersInPlace, RefsAreHolders, UnstoredIsEmpty
<1> QED
  BY <1>6, <1>7, <1>8, <1>9, <1>10, <1>11, <1>12, <1>13, <1>14, <1>15 DEF ScopesCore

(* The last that waits for a scope takes it out of its place, or has its
   timer armed. *)
LEMMA GiveUpKeeps ==
  ASSUME ScopesTyped, ScopesCore, ~scpClosed, NEW c \in ScopeCallers, NEW o \in ScopeObjects,
         o = scpCaller[c].object,
         Scopes!GiveUp(c)
  PROVE  ScopesTyped' /\ ScopesCore'
<1>1. ScopesKnown
  BY ScopesAreKnown
<1>2. /\ scpCaller[c].at \in {"waits", "leases"}
      /\ scpCaller[c].id = scpOwned[o].id
      /\ scpOwned[o].id \in ScopeIds
      /\ Scopes!abandon(o, scpOwned[o].id)
      /\ \A b \in ScopeCallers : b # c => scpCaller'[b] = scpCaller[b]
      /\ scpCaller'[c].at = "idle"
      /\ scpCaller'[c].object = None
      /\ scpCaller'[c].id = None
  BY <1>1 DEF ScopesKnown, ScopesCore, MappedIsOpen, CallersInPlace, Scopes!LeasedIsOpen,
     ScopesTyped, ScopeRecord, ScopeCaller, Scopes!GiveUp, Scopes!Idle
<1>3. /\ Abandoned(o, scpOwned[o].id)
  BY <1>2, AbandonStep
<1>4. Counted(scpCaller, scpCaller', c)
  BY <1>2, ScopeCallerMoves DEF OneCaller
<1>5. /\ \A p \in ScopeObjects : p # o =>
           /\ Cardinality(ScopeUsers(scpCaller', p)) = Cardinality(ScopeUsers(scpCaller, p))
           /\ Cardinality(ScopeHolders(scpCaller', p)) = Cardinality(ScopeHolders(scpCaller, p))
      /\ Cardinality(ScopeUsers(scpCaller', o)) = Cardinality(ScopeUsers(scpCaller, o)) - 1
      /\ Cardinality(ScopeHolders(scpCaller', o)) = Cardinality(ScopeHolders(scpCaller, o))
  BY <1>1, <1>2, <1>4, CountsKept DEF ScopesKnown, ScopesCore, CallersInPlace, Counted
<1>6. ScopesTyped'
  <2>1. scpScopes' \in [ScopeIds -> ScopeObjects \cup {None}]
    BY DEF ScopesTyped, Scopes!abandon, Scopes!GiveUp, Scopes!Idle
  <2>2. scpOwned' \in [ScopeObjects -> ScopeRecord]
    BY <1>2, AbandonTyped
  <2>3. scpCaller' \in [ScopeCallers -> ScopeCaller]
    BY DEF ScopesTyped, ScopeCaller, Scopes!GiveUp, Scopes!Idle
  <2> QED
    BY <2>1, <2>2, <2>3 DEF ScopesTyped
<1>7. ScopesInPlace'
  BY <1>1, <1>2, <1>3, <1>5, CountsKept DEF ScopesKnown, ScopesCore, Abandoned, LessOne,
     ScopesInPlace, MappedIsOpen
<1>8. CallersInPlace'
  BY <1>1, <1>2, <1>3, <1>5, CountsKept DEF ScopesKnown, ScopesCore, Abandoned, LessOne,
     CallersInPlace, MappedIsOpen, ScopesInPlace
<1>9. UnstoredIsEmpty'
  BY <1>1, <1>2, <1>3, <1>5, CountsKept DEF ScopesKnown, ScopesCore, Abandoned, LessOne,
     UnstoredIsEmpty, CallersInPlace, DaemonIsHeld
<1>10. RefsAreHolders'
  BY <1>1, <1>2, <1>3, <1>5, CountsKept DEF ScopesKnown, ScopesCore, Abandoned, LessOne,
     RefsAreHolders, DaemonIsHeld, UnstoredIsEmpty, Scopes!LeasedIsOpen, CallersInPlace
<1>11. DaemonIsHeld'
  BY <1>1, <1>2, <1>3, <1>5, CountsKept DEF ScopesKnown, ScopesCore, Abandoned, LessOne,
     DaemonIsHeld, ScopesInPlace, UnstoredIsEmpty, RefsAreHolders
<1>12. IdleExpires'
  <2>1. ASSUME NEW p \in ScopeObjects, p # o
        PROVE  /\ scpOwned'[p].evictions >= 0
               /\ (/\ \E e \in ScopeIds : scpScopes'[e] = p
                   /\ scpOwned'[p].scope = "open" /\ scpOwned'[p].id # ScopeDaemon
                        /\ scpOwned'[p].refs = 0) =>
                   \/ scpOwned'[p].timer = "armed" \/ scpOwned'[p].evictions > 0
                   \/ /\ scpOwned'[p].timer = "nil"
                      /\ 0 < scpOwned'[p].waiters
                           /\ scpOwned'[p].waiters <= Cardinality(ScopeUsers(scpCaller', p))
    BY <2>1, <1>1, <1>3, <1>5 DEF ScopesKnown, ScopesCore, IdleExpires, Abandoned
  <2>2. scpOwned[o].evictions >= 0
    BY DEF ScopesKnown, ScopesCore, IdleExpires
  <2>3. ASSUME NEW e \in ScopeIds, scpScopes'[e] = o, scpOwned[o].scope = "open",
               scpOwned[o].id # ScopeDaemon, scpOwned[o].refs = 0,
               scpOwned'[o].timer # "armed", ~(scpOwned[o].evictions > 0)
        PROVE  /\ scpOwned'[o].timer = "nil"
               /\ 0 < scpOwned'[o].waiters
                    /\ scpOwned'[o].waiters <= Cardinality(ScopeUsers(scpCaller', o))
    <3>1. scpScopes[e] = o
      BY <2>3, <1>1, <1>3 DEF ScopesKnown, Abandoned
    <3>2. scpOwned[o].build = "stored"
      BY <1>1, <2>3 DEF ScopesKnown, ScopesCore, UnstoredIsEmpty
    <3>3. scpOwned[o].timer # "armed" /\ scpOwned'[o].timer = scpOwned[o].timer
      BY <1>3, <2>3 DEF ScopesKnown, Abandoned
    <3>4. scpOwned[o].timer = "nil" /\ 0 < scpOwned[o].waiters
            /\ scpOwned[o].waiters <= Cardinality(ScopeUsers(scpCaller, o))
      BY <2>3, <3>1, <3>3 DEF ScopesKnown, ScopesCore, IdleExpires
    <3>5. scpOwned'[o].waiters # 0
      BY <1>1, <1>3, <2>3, <3>2, <3>4, <3>3 DEF ScopesKnown, Abandoned
    <3> QED
      BY <1>1, CountsKept, <1>5, <1>3, <3>3, <3>4, <3>5 DEF ScopesKnown, Abandoned, LessOne
  <2>4. /\ scpOwned'[o].evictions = scpOwned[o].evictions
        /\ scpOwned'[o].scope = scpOwned[o].scope /\ scpOwned'[o].id = scpOwned[o].id
        /\ scpOwned'[o].refs = scpOwned[o].refs
    BY <1>3 DEF Abandoned
  <2>5. ASSUME NEW e \in ScopeIds, scpScopes'[e] = o, scpOwned'[o].scope = "open",
               scpOwned'[o].id # ScopeDaemon, scpOwned'[o].refs = 0
        PROVE  \/ scpOwned'[o].timer = "armed" \/ scpOwned'[o].evictions > 0
               \/ /\ scpOwned'[o].timer = "nil" /\ 0 < scpOwned'[o].waiters
                  /\ scpOwned'[o].waiters <= Cardinality(ScopeUsers(scpCaller', o))
    BY <2>3, <2>4, <2>5
  <2> QED
    BY <2>1, <2>2, <2>4, <2>5 DEF IdleExpires
<1>13. MappedIsOpen'
  BY <1>1, <1>2, <1>3, <1>5, CountsKept DEF ScopesKnown, ScopesCore, Abandoned, LessOne,
     MappedIsOpen, UnstoredIsEmpty, ScopesInPlace
<1>14. FailedIsEmpty'
  BY <1>1, <1>2, <1>3, <1>5, CountsKept DEF ScopesKnown, ScopesCore, Abandoned, LessOne,
     FailedIsEmpty, UnstoredIsEmpty, Scopes!LeasedIsOpen
<1>15. Scopes!LeasedIsOpen'
  BY <1>1, <1>2, <1>3, <1>5, CountsKept DEF ScopesKnown, ScopesCore, Abandoned, LessOne,
     Scopes!LeasedIsOpen, MappedIsOpen, ScopesInPlace, CallersInPlace, RefsAreHolders,
     UnstoredIsEmpty
<1> QED
  BY <1>6, <1>7, <1>8, <1>9, <1>10, <1>11, <1>12, <1>13, <1>14, <1>15 DEF ScopesCore

(* Refused is only what is out of its place or has no scope. *)
LEMMA RefusedKeeps ==
  ASSUME ScopesTyped, ScopesCore, ~scpClosed, NEW c \in ScopeCallers, NEW o \in ScopeObjects,
         o = scpCaller[c].object,
         Scopes!LeaseOf(c, TRUE),
         scpOwned[o].err \/ scpScopes[scpCaller[c].id] # o \/ scpOwned[o].scope = None
  PROVE  ScopesTyped' /\ ScopesCore'
<1>1. ScopesKnown
  BY ScopesAreKnown
<1>2. /\ scpCaller[c].at = "leases"
      /\ \A b \in ScopeCallers : b # c => scpCaller'[b] = scpCaller[b]
      /\ scpCaller'[c].at = "idle"
      /\ scpCaller'[c].object = None
      /\ scpCaller'[c].id = None
      /\ \A p \in ScopeObjects : p # o => scpOwned'[p] = scpOwned[p]
      /\ scpOwned'[o].id = scpOwned[o].id
      /\ scpOwned'[o].build = scpOwned[o].build
      /\ scpOwned'[o].scope = scpOwned[o].scope
      /\ scpOwned'[o].refs = scpOwned[o].refs
      /\ scpOwned'[o].timer = scpOwned[o].timer
      /\ scpOwned'[o].evictions = scpOwned[o].evictions
      /\ scpOwned'[o].err => scpOwned[o].err
      /\ scpScopes' = scpScopes
  BY <1>1 DEF ScopesKnown, ScopesCore, MappedIsOpen, CallersInPlace, Scopes!LeasedIsOpen,
     ScopesTyped, ScopeRecord, ScopeCaller, Scopes!LeaseOf, Scopes!Idle
<1>4. Counted(scpCaller, scpCaller', c)
  BY <1>2, ScopeCallerMoves DEF OneCaller
<1>5. /\ \A p \in ScopeObjects : p # o =>
           /\ Cardinality(ScopeUsers(scpCaller', p)) = Cardinality(ScopeUsers(scpCaller, p))
           /\ Cardinality(ScopeHolders(scpCaller', p)) = Cardinality(ScopeHolders(scpCaller, p))
      /\ Cardinality(ScopeUsers(scpCaller', o)) = Cardinality(ScopeUsers(scpCaller, o)) - 1
      /\ Cardinality(ScopeHolders(scpCaller', o)) = Cardinality(ScopeHolders(scpCaller, o))
  BY <1>1, <1>2, <1>4, CountsKept DEF ScopesKnown, ScopesCore, CallersInPlace, Counted
<1>6. ScopesTyped'
  <2>1. scpScopes' \in [ScopeIds -> ScopeObjects \cup {None}]
    BY DEF ScopesTyped, Scopes!LeaseOf, Scopes!Idle
  <2>2. scpOwned' \in [ScopeObjects -> ScopeRecord]
    <3> DEFINE left == IF scpCaller[c].waited THEN scpOwned[o].waiters - 1
                       ELSE scpOwned[o].waiters
               w == [scpOwned[o] EXCEPT !.waiters = left]
    <3>1. scpOwned[o] \in ScopeRecord
      BY DEF ScopesTyped
    <3>2. left \in Int
      BY <3>1 DEF ScopeRecord
    <3>3. scpOwned' = [scpOwned EXCEPT ![o] = w]
      BY <3>1 DEF ScopesTyped, ScopeRecord, Scopes!LeaseOf
    <3> HIDE DEF left
    <3>4. w \in ScopeRecord
      BY <3>1, <3>2 DEF ScopeRecord
    <3> HIDE DEF w
    <3> QED
      BY <3>3, <3>4 DEF ScopesTyped
  <2>3. scpCaller' \in [ScopeCallers -> ScopeCaller]
    BY DEF ScopesTyped, ScopeCaller, Scopes!LeaseOf, Scopes!Idle
  <2> QED
    BY <2>1, <2>2, <2>3 DEF ScopesTyped
<1>7. ScopesInPlace'
  BY <1>1, <1>2, <1>5, CountsKept DEF ScopesKnown, ScopesCore, ScopesInPlace, MappedIsOpen
<1>8. CallersInPlace'
  BY <1>1, <1>2, <1>5, CountsKept DEF ScopesKnown, ScopesCore, CallersInPlace, MappedIsOpen,
     ScopesInPlace
<1>9. UnstoredIsEmpty'
  BY <1>1, <1>2, <1>5, CountsKept DEF ScopesKnown, ScopesCore, UnstoredIsEmpty, CallersInPlace,
     DaemonIsHeld
<1>10. RefsAreHolders'
  BY <1>1, <1>2, <1>5, CountsKept DEF ScopesKnown, ScopesCore, RefsAreHolders, DaemonIsHeld,
     UnstoredIsEmpty, Scopes!LeasedIsOpen, CallersInPlace
<1>11. DaemonIsHeld'
  BY <1>1, <1>2, <1>5, CountsKept DEF ScopesKnown, ScopesCore, DaemonIsHeld, ScopesInPlace,
     UnstoredIsEmpty, RefsAreHolders
<1>12. IdleExpires'
  BY <1>1, <1>2, <1>5, CountsKept DEF ScopesKnown, ScopesCore, IdleExpires, MappedIsOpen,
     FailedIsEmpty, DaemonIsHeld, RefsAreHolders, CallersInPlace, UnstoredIsEmpty,
     ScopesInPlace, Scopes!LeasedIsOpen
<1>13. MappedIsOpen'
  BY <1>1, <1>2, <1>5, CountsKept DEF ScopesKnown, ScopesCore, MappedIsOpen, UnstoredIsEmpty,
     ScopesInPlace
<1>14. FailedIsEmpty'
  BY <1>1, <1>2, <1>5, CountsKept DEF ScopesKnown, ScopesCore, FailedIsEmpty, UnstoredIsEmpty,
     Scopes!LeasedIsOpen
<1>15. Scopes!LeasedIsOpen'
  BY <1>1, <1>2, <1>5, CountsKept DEF ScopesKnown, ScopesCore, Scopes!LeasedIsOpen,
     MappedIsOpen, ScopesInPlace, CallersInPlace, RefsAreHolders, UnstoredIsEmpty
<1> QED
  BY <1>6, <1>7, <1>8, <1>9, <1>10, <1>11, <1>12, <1>13, <1>14, <1>15 DEF ScopesCore

(* The scope in the place of a caller is open. *)
LEMMA GrantedKeeps ==
  ASSUME ScopesTyped, ScopesCore, ~scpClosed, NEW c \in ScopeCallers, NEW o \in ScopeObjects,
         o = scpCaller[c].object, scpScopes[scpCaller[c].id] = o, scpOwned[o].scope # None,
         Scopes!LeaseOf(c, FALSE)
  PROVE  ScopesTyped' /\ ScopesCore'
<1>1. ScopesKnown
  BY ScopesAreKnown
<1>2. /\ scpCaller[c].at = "leases"
      /\ \A b \in ScopeCallers : b # c => scpCaller'[b] = scpCaller[b]
      /\ scpCaller'[c].at = "holds"
      /\ scpCaller'[c].object = o
      /\ scpCaller'[c].id = None
      /\ \A p \in ScopeObjects : p # o => scpOwned'[p] = scpOwned[p]
      /\ scpOwned'[o].id = scpOwned[o].id
      /\ scpOwned'[o].build = scpOwned[o].build
      /\ scpOwned'[o].scope = scpOwned[o].scope
      /\ scpOwned'[o].refs = scpOwned[o].refs + 1
      /\ scpOwned'[o].timer = "nil"
      /\ scpOwned'[o].evictions = scpOwned[o].evictions
      /\ scpOwned'[o].err => scpOwned[o].err
      /\ scpScopes' = scpScopes
  BY <1>1 DEF ScopesKnown, ScopesCore, MappedIsOpen, CallersInPlace, Scopes!LeasedIsOpen,
     ScopesTyped, ScopeRecord, ScopeCaller, Scopes!LeaseOf, Scopes!Idle
<1>4. Counted(scpCaller, scpCaller', c)
  BY <1>2, ScopeCallerMoves DEF OneCaller
<1>5. /\ \A p \in ScopeObjects : p # o =>
           /\ Cardinality(ScopeUsers(scpCaller', p)) = Cardinality(ScopeUsers(scpCaller, p))
           /\ Cardinality(ScopeHolders(scpCaller', p)) = Cardinality(ScopeHolders(scpCaller, p))
      /\ Cardinality(ScopeUsers(scpCaller', o)) = Cardinality(ScopeUsers(scpCaller, o))
      /\ Cardinality(ScopeHolders(scpCaller', o)) = Cardinality(ScopeHolders(scpCaller, o)) + 1
  BY <1>1, <1>2, <1>4, CountsKept DEF ScopesKnown, ScopesCore, CallersInPlace, Counted
<1>6. ScopesTyped'
  <2>1. scpScopes' \in [ScopeIds -> ScopeObjects \cup {None}]
    BY DEF ScopesTyped, Scopes!LeaseOf, Scopes!Idle
  <2>2. scpOwned' \in [ScopeObjects -> ScopeRecord]
    <3> DEFINE left == IF scpCaller[c].waited THEN scpOwned[o].waiters - 1
                       ELSE scpOwned[o].waiters
               n == scpOwned[o].refs + 1
               w == [scpOwned[o] EXCEPT !.waiters = left, !.refs = n, !.timer = "nil"]
    <3>1. scpOwned[o] \in ScopeRecord
      BY DEF ScopesTyped
    <3>2. left \in Int /\ n \in Int
      BY <3>1 DEF ScopeRecord
    <3>3. scpOwned' = [scpOwned EXCEPT ![o] = w]
      BY <3>1 DEF ScopesTyped, ScopeRecord, Scopes!LeaseOf
    <3> HIDE DEF left, n
    <3>4. w \in ScopeRecord
      BY <3>1, <3>2 DEF ScopeRecord
    <3> HIDE DEF w
    <3> QED
      BY <3>3, <3>4 DEF ScopesTyped
  <2>3. scpCaller' \in [ScopeCallers -> ScopeCaller]
    BY DEF ScopesTyped, ScopeCaller, Scopes!LeaseOf, Scopes!Idle
  <2> QED
    BY <2>1, <2>2, <2>3 DEF ScopesTyped
<1>7. ScopesInPlace'
  BY <1>1, <1>2, <1>5, CountsKept DEF ScopesKnown, ScopesCore, ScopesInPlace, MappedIsOpen
<1>8. CallersInPlace'
  BY <1>1, <1>2, <1>5, CountsKept DEF ScopesKnown, ScopesCore, CallersInPlace, MappedIsOpen,
     ScopesInPlace
<1>9. UnstoredIsEmpty'
  BY <1>1, <1>2, <1>5, CountsKept DEF ScopesKnown, ScopesCore, UnstoredIsEmpty, CallersInPlace,
     DaemonIsHeld
<1>10. RefsAreHolders'
  BY <1>1, <1>2, <1>5, CountsKept DEF ScopesKnown, ScopesCore, RefsAreHolders, DaemonIsHeld,
     UnstoredIsEmpty, Scopes!LeasedIsOpen, CallersInPlace
<1>11. DaemonIsHeld'
  BY <1>1, <1>2, <1>5, CountsKept DEF ScopesKnown, ScopesCore, DaemonIsHeld, ScopesInPlace,
     UnstoredIsEmpty, RefsAreHolders
<1>12. IdleExpires'
  BY <1>1, <1>2, <1>5, CountsKept DEF ScopesKnown, ScopesCore, IdleExpires, MappedIsOpen,
     FailedIsEmpty, DaemonIsHeld, RefsAreHolders, CallersInPlace, UnstoredIsEmpty,
     ScopesInPlace, Scopes!LeasedIsOpen
<1>13. MappedIsOpen'
  BY <1>1, <1>2, <1>5, CountsKept DEF ScopesKnown, ScopesCore, MappedIsOpen, UnstoredIsEmpty,
     ScopesInPlace
<1>14. FailedIsEmpty'
  BY <1>1, <1>2, <1>5, CountsKept DEF ScopesKnown, ScopesCore, FailedIsEmpty, UnstoredIsEmpty,
     Scopes!LeasedIsOpen
<1>15. Scopes!LeasedIsOpen'
  BY <1>1, <1>2, <1>5, CountsKept DEF ScopesKnown, ScopesCore, Scopes!LeasedIsOpen,
     MappedIsOpen, ScopesInPlace, CallersInPlace, RefsAreHolders, UnstoredIsEmpty
<1> QED
  BY <1>6, <1>7, <1>8, <1>9, <1>10, <1>11, <1>12, <1>13, <1>14, <1>15 DEF ScopesCore

(* The last holder but the manager arms the timer. *)
LEMMA ReleaseKeeps ==
  ASSUME ScopesTyped, ScopesCore, ~scpClosed, NEW c \in ScopeCallers, NEW o \in ScopeObjects,
         o = scpCaller[c].object,
         Scopes!Release(c)
  PROVE  ScopesTyped' /\ ScopesCore'
<1>1. ScopesKnown
  BY ScopesAreKnown
<1>2. /\ scpCaller[c].at = "holds"
      /\ \A b \in ScopeCallers : b # c => scpCaller'[b] = scpCaller[b]
      /\ scpCaller'[c].at = "idle"
      /\ scpCaller'[c].object = None
      /\ scpCaller'[c].id = None
      /\ \A p \in ScopeObjects : p # o => scpOwned'[p] = scpOwned[p]
      /\ scpOwned'[o].id = scpOwned[o].id
      /\ scpOwned'[o].build = scpOwned[o].build
      /\ scpOwned'[o].scope = scpOwned[o].scope
      /\ scpOwned'[o].waiters = scpOwned[o].waiters
      /\ scpOwned'[o].refs = scpOwned[o].refs - 1
      /\ scpOwned'[o].timer = IF scpOwned[o].refs - 1 > 0
           \/ scpOwned[o].id = ScopeDaemon THEN scpOwned[o].timer ELSE "armed"
      /\ scpOwned'[o].evictions = scpOwned[o].evictions
      /\ scpOwned'[o].err => scpOwned[o].err
      /\ scpScopes' = scpScopes
  BY <1>1 DEF ScopesKnown, ScopesCore, MappedIsOpen, CallersInPlace, Scopes!LeasedIsOpen,
     ScopesTyped, ScopeRecord, ScopeCaller, Scopes!Release, Scopes!InMap, Scopes!Idle
<1>4. Counted(scpCaller, scpCaller', c)
  BY <1>2, ScopeCallerMoves DEF OneCaller
<1>5. /\ \A p \in ScopeObjects : p # o =>
           /\ Cardinality(ScopeUsers(scpCaller', p)) = Cardinality(ScopeUsers(scpCaller, p))
           /\ Cardinality(ScopeHolders(scpCaller', p)) = Cardinality(ScopeHolders(scpCaller, p))
      /\ Cardinality(ScopeUsers(scpCaller', o)) = Cardinality(ScopeUsers(scpCaller, o)) - 1
      /\ Cardinality(ScopeHolders(scpCaller', o)) = Cardinality(ScopeHolders(scpCaller, o)) - 1
  BY <1>1, <1>2, <1>4, CountsKept DEF ScopesKnown, ScopesCore, CallersInPlace, Counted
<1>6. ScopesTyped'
  <2>1. scpScopes' \in [ScopeIds -> ScopeObjects \cup {None}]
    BY DEF ScopesTyped, Scopes!Release, Scopes!InMap, Scopes!Idle
  <2>2. scpOwned' \in [ScopeObjects -> ScopeRecord]
    BY DEF ScopesTyped, ScopeRecord, Scopes!Release, Scopes!InMap, Scopes!Idle
  <2>3. scpCaller' \in [ScopeCallers -> ScopeCaller]
    BY DEF ScopesTyped, ScopeCaller, Scopes!Release, Scopes!InMap, Scopes!Idle
  <2> QED
    BY <2>1, <2>2, <2>3 DEF ScopesTyped
<1>7. ScopesInPlace'
  BY <1>1, <1>2, <1>5, CountsKept DEF ScopesKnown, ScopesCore, ScopesInPlace, MappedIsOpen
<1>8. CallersInPlace'
  BY <1>1, <1>2, <1>5, CountsKept DEF ScopesKnown, ScopesCore, CallersInPlace, MappedIsOpen,
     ScopesInPlace
<1>9. UnstoredIsEmpty'
  BY <1>1, <1>2, <1>5, CountsKept DEF ScopesKnown, ScopesCore, UnstoredIsEmpty, CallersInPlace,
     DaemonIsHeld
<1>10. RefsAreHolders'
  BY <1>1, <1>2, <1>5, CountsKept DEF ScopesKnown, ScopesCore, RefsAreHolders, DaemonIsHeld,
     UnstoredIsEmpty, Scopes!LeasedIsOpen, CallersInPlace
<1>11. DaemonIsHeld'
  BY <1>1, <1>2, <1>5, CountsKept DEF ScopesKnown, ScopesCore, DaemonIsHeld, ScopesInPlace,
     UnstoredIsEmpty, RefsAreHolders
<1>12. IdleExpires'
  BY <1>1, <1>2, <1>5, CountsKept DEF ScopesKnown, ScopesCore, IdleExpires
<1>13. MappedIsOpen'
  BY <1>1, <1>2, <1>5, CountsKept DEF ScopesKnown, ScopesCore, MappedIsOpen, UnstoredIsEmpty,
     ScopesInPlace
<1>14. FailedIsEmpty'
  BY <1>1, <1>2, <1>5, CountsKept DEF ScopesKnown, ScopesCore, FailedIsEmpty, UnstoredIsEmpty,
     Scopes!LeasedIsOpen
<1>15. Scopes!LeasedIsOpen'
  BY <1>1, <1>2, <1>5, CountsKept DEF ScopesKnown, ScopesCore, Scopes!LeasedIsOpen,
     MappedIsOpen, ScopesInPlace, CallersInPlace, RefsAreHolders, UnstoredIsEmpty
<1> QED
  BY <1>6, <1>7, <1>8, <1>9, <1>10, <1>11, <1>12, <1>13, <1>14, <1>15 DEF ScopesCore

(* The scope under construction has its users yet. *)
LEMMA ConstructKeeps ==
  ASSUME ScopesTyped, ScopesCore, ~scpClosed, NEW o \in ScopeObjects,
         Scopes!Construct(o)
  PROVE  ScopesTyped' /\ ScopesCore'
<1>1. ScopesKnown
  BY ScopesAreKnown
<1>2. /\ scpOwned[o].build = "running"
      /\ scpOwned'[o].build \in {"built", "failed"}
      /\ \A p \in ScopeObjects : p # o => scpOwned'[p] = scpOwned[p]
      /\ scpOwned'[o].id = scpOwned[o].id
      /\ scpOwned'[o].scope = scpOwned[o].scope
      /\ scpOwned'[o].waiters = scpOwned[o].waiters
      /\ scpOwned'[o].refs = scpOwned[o].refs
      /\ scpOwned'[o].timer = scpOwned[o].timer
      /\ scpOwned'[o].evictions = scpOwned[o].evictions
      /\ scpOwned'[o].err => scpOwned[o].err
      /\ scpScopes' = scpScopes
      /\ scpCaller' = scpCaller
  BY <1>1 DEF ScopesKnown, ScopesCore, MappedIsOpen, CallersInPlace, Scopes!LeasedIsOpen,
     ScopesTyped, ScopeRecord, ScopeCaller, Scopes!Construct
<1>6. ScopesTyped'
  <2>1. scpScopes' \in [ScopeIds -> ScopeObjects \cup {None}]
    BY DEF ScopesTyped, Scopes!Construct
  <2>2. scpOwned' \in [ScopeObjects -> ScopeRecord]
    BY DEF ScopesTyped, ScopeRecord, Scopes!Construct
  <2>3. scpCaller' \in [ScopeCallers -> ScopeCaller]
    BY DEF ScopesTyped, ScopeCaller, Scopes!Construct
  <2> QED
    BY <2>1, <2>2, <2>3 DEF ScopesTyped
<1>7. ScopesInPlace'
  BY <1>1, <1>2 DEF ScopesKnown, ScopesCore, ScopesInPlace, MappedIsOpen
<1>8. CallersInPlace'
  BY <1>1, <1>2 DEF ScopesKnown, ScopesCore, CallersInPlace, MappedIsOpen, ScopesInPlace
<1>9. UnstoredIsEmpty'
  BY <1>1, <1>2 DEF ScopesKnown, ScopesCore, UnstoredIsEmpty, CallersInPlace, DaemonIsHeld
<1>10. RefsAreHolders'
  BY <1>1, <1>2 DEF ScopesKnown, ScopesCore, RefsAreHolders, DaemonIsHeld, UnstoredIsEmpty,
     Scopes!LeasedIsOpen, CallersInPlace
<1>11. DaemonIsHeld'
  BY <1>1, <1>2 DEF ScopesKnown, ScopesCore, DaemonIsHeld, ScopesInPlace, UnstoredIsEmpty,
     RefsAreHolders
<1>12. IdleExpires'
  BY <1>1, <1>2 DEF ScopesKnown, ScopesCore, IdleExpires, MappedIsOpen, FailedIsEmpty,
     DaemonIsHeld, RefsAreHolders, CallersInPlace, UnstoredIsEmpty, ScopesInPlace,
     Scopes!LeasedIsOpen
<1>13. MappedIsOpen'
  BY <1>1, <1>2 DEF ScopesKnown, ScopesCore, MappedIsOpen, UnstoredIsEmpty, ScopesInPlace
<1>14. FailedIsEmpty'
  BY <1>1, <1>2 DEF ScopesKnown, ScopesCore, FailedIsEmpty, UnstoredIsEmpty, Scopes!LeasedIsOpen
<1>15. Scopes!LeasedIsOpen'
  BY <1>1, <1>2 DEF ScopesKnown, ScopesCore, Scopes!LeasedIsOpen, MappedIsOpen, ScopesInPlace,
     CallersInPlace, RefsAreHolders, UnstoredIsEmpty
<1> QED
  BY <1>6, <1>7, <1>8, <1>9, <1>10, <1>11, <1>12, <1>13, <1>14, <1>15 DEF ScopesCore

(* A failed scope leaves its place, and had no holder. *)
LEMMA StoreFailureKeeps ==
  ASSUME ScopesTyped, ScopesCore, ~scpClosed, NEW o \in ScopeObjects,
         Scopes!StoreFailure(o)
  PROVE  ScopesTyped' /\ ScopesCore'
<1>1. ScopesKnown
  BY ScopesAreKnown
<1>2. /\ scpOwned[o].build = "failed"
      /\ \A p \in ScopeObjects : p # o => scpOwned'[p] = scpOwned[p]
      /\ scpOwned'[o].id = scpOwned[o].id
      /\ scpOwned'[o].build = "stored"
      /\ scpOwned'[o].scope = scpOwned[o].scope
      /\ scpOwned'[o].waiters = scpOwned[o].waiters
      /\ scpOwned'[o].refs = scpOwned[o].refs
      /\ scpOwned'[o].timer = scpOwned[o].timer
      /\ scpOwned'[o].evictions = scpOwned[o].evictions
      /\ \A e \in ScopeIds : scpScopes'[e] = IF scpScopes[e] = o THEN None ELSE scpScopes[e]
      /\ scpCaller' = scpCaller
  BY <1>1 DEF ScopesKnown, ScopesCore, MappedIsOpen, CallersInPlace, Scopes!LeasedIsOpen,
     ScopesTyped, ScopeRecord, ScopeCaller, Scopes!StoreFailure
<1>6. ScopesTyped'
  <2>1. scpScopes' \in [ScopeIds -> ScopeObjects \cup {None}]
    BY DEF ScopesTyped, Scopes!StoreFailure
  <2>2. scpOwned' \in [ScopeObjects -> ScopeRecord]
    BY StoreTyped
  <2>3. scpCaller' \in [ScopeCallers -> ScopeCaller]
    BY DEF ScopesTyped, ScopeCaller, Scopes!StoreFailure
  <2> QED
    BY <2>1, <2>2, <2>3 DEF ScopesTyped
<1>7. ScopesInPlace'
  BY <1>1, <1>2 DEF ScopesKnown, ScopesCore, ScopesInPlace, MappedIsOpen
<1>8. CallersInPlace'
  BY <1>1, <1>2 DEF ScopesKnown, ScopesCore, CallersInPlace, MappedIsOpen, ScopesInPlace
<1>9. UnstoredIsEmpty'
  BY <1>1, <1>2 DEF ScopesKnown, ScopesCore, UnstoredIsEmpty, CallersInPlace, DaemonIsHeld
<1>10. RefsAreHolders'
  BY <1>1, <1>2 DEF ScopesKnown, ScopesCore, RefsAreHolders, DaemonIsHeld, UnstoredIsEmpty,
     Scopes!LeasedIsOpen, CallersInPlace
<1>11. DaemonIsHeld'
  BY <1>1, <1>2 DEF ScopesKnown, ScopesCore, DaemonIsHeld, ScopesInPlace, UnstoredIsEmpty,
     RefsAreHolders
<1>12. IdleExpires'
  BY <1>1, <1>2 DEF ScopesKnown, ScopesCore, IdleExpires, MappedIsOpen, FailedIsEmpty,
     DaemonIsHeld, RefsAreHolders, CallersInPlace, UnstoredIsEmpty, ScopesInPlace,
     Scopes!LeasedIsOpen
<1>13. MappedIsOpen'
  BY <1>1, <1>2 DEF ScopesKnown, ScopesCore, MappedIsOpen, UnstoredIsEmpty, ScopesInPlace
<1>14. FailedIsEmpty'
  BY <1>1, <1>2 DEF ScopesKnown, ScopesCore, FailedIsEmpty, UnstoredIsEmpty, Scopes!LeasedIsOpen
<1>15. Scopes!LeasedIsOpen'
  BY <1>1, <1>2 DEF ScopesKnown, ScopesCore, Scopes!LeasedIsOpen, MappedIsOpen, ScopesInPlace,
     CallersInPlace, RefsAreHolders, UnstoredIsEmpty
<1> QED
  BY <1>6, <1>7, <1>8, <1>9, <1>10, <1>11, <1>12, <1>13, <1>14, <1>15 DEF ScopesCore

(* Without users it begins idle. *)
LEMMA StoreScopeKeeps ==
  ASSUME ScopesTyped, ScopesCore, ~scpClosed, NEW o \in ScopeObjects,
         Scopes!StoreScope(o)
  PROVE  ScopesTyped' /\ ScopesCore'
<1>1. ScopesKnown
  BY ScopesAreKnown
<1>2. /\ scpOwned[o].build = "built"
      /\ \A p \in ScopeObjects : p # o => scpOwned'[p] = scpOwned[p]
      /\ scpOwned'[o].id = scpOwned[o].id
      /\ scpOwned'[o].build = "stored"
      /\ scpOwned'[o].scope = "open"
      /\ scpOwned'[o].waiters = scpOwned[o].waiters
      /\ scpOwned'[o].refs = scpOwned[o].refs
      /\ scpOwned'[o].timer = IF scpOwned[o].waiters = 0 THEN "armed" ELSE scpOwned[o].timer
      /\ scpOwned'[o].evictions = scpOwned[o].evictions
      /\ scpOwned'[o].err => scpOwned[o].err
      /\ scpScopes' = scpScopes
      /\ scpCaller' = scpCaller
  BY <1>1 DEF ScopesKnown, ScopesCore, MappedIsOpen, CallersInPlace, Scopes!LeasedIsOpen,
     ScopesTyped, ScopeRecord, ScopeCaller, Scopes!StoreScope
<1>6. ScopesTyped'
  <2>1. scpScopes' \in [ScopeIds -> ScopeObjects \cup {None}]
    BY DEF ScopesTyped, Scopes!StoreScope
  <2>2. scpOwned' \in [ScopeObjects -> ScopeRecord]
    BY StoreTyped
  <2>3. scpCaller' \in [ScopeCallers -> ScopeCaller]
    BY DEF ScopesTyped, ScopeCaller, Scopes!StoreScope
  <2> QED
    BY <2>1, <2>2, <2>3 DEF ScopesTyped
<1>7. ScopesInPlace'
  BY <1>1, <1>2 DEF ScopesKnown, ScopesCore, ScopesInPlace, MappedIsOpen
<1>8. CallersInPlace'
  BY <1>1, <1>2 DEF ScopesKnown, ScopesCore, CallersInPlace, MappedIsOpen, ScopesInPlace
<1>9. UnstoredIsEmpty'
  BY <1>1, <1>2 DEF ScopesKnown, ScopesCore, UnstoredIsEmpty, CallersInPlace, DaemonIsHeld
<1>10. RefsAreHolders'
  BY <1>1, <1>2 DEF ScopesKnown, ScopesCore, RefsAreHolders, DaemonIsHeld, UnstoredIsEmpty,
     Scopes!LeasedIsOpen, CallersInPlace
<1>11. DaemonIsHeld'
  BY <1>1, <1>2 DEF ScopesKnown, ScopesCore, DaemonIsHeld, ScopesInPlace, UnstoredIsEmpty,
     RefsAreHolders
<1>12. IdleExpires'
  BY <1>1, <1>2, CountsKept DEF ScopesKnown, ScopesCore, IdleExpires, UnstoredIsEmpty
<1>13. MappedIsOpen'
  BY <1>1, <1>2 DEF ScopesKnown, ScopesCore, MappedIsOpen, UnstoredIsEmpty, ScopesInPlace
<1>14. FailedIsEmpty'
  BY <1>1, <1>2 DEF ScopesKnown, ScopesCore, FailedIsEmpty, UnstoredIsEmpty, Scopes!LeasedIsOpen
<1>15. Scopes!LeasedIsOpen'
  BY <1>1, <1>2 DEF ScopesKnown, ScopesCore, Scopes!LeasedIsOpen, MappedIsOpen, ScopesInPlace,
     CallersInPlace, RefsAreHolders, UnstoredIsEmpty
<1> QED
  BY <1>6, <1>7, <1>8, <1>9, <1>10, <1>11, <1>12, <1>13, <1>14, <1>15 DEF ScopesCore

(* evict is on its way from then on. *)
LEMMA TimerKeeps ==
  ASSUME ScopesTyped, ScopesCore, ~scpClosed, NEW o \in ScopeObjects,
         Scopes!TimerFires(o)
  PROVE  ScopesTyped' /\ ScopesCore'
<1>1. ScopesKnown
  BY ScopesAreKnown
<1>2. /\ scpOwned[o].timer = "armed"
      /\ \A p \in ScopeObjects : p # o => scpOwned'[p] = scpOwned[p]
      /\ scpOwned'[o].id = scpOwned[o].id
      /\ scpOwned'[o].build = scpOwned[o].build
      /\ scpOwned'[o].scope = scpOwned[o].scope
      /\ scpOwned'[o].waiters = scpOwned[o].waiters
      /\ scpOwned'[o].refs = scpOwned[o].refs
      /\ scpOwned'[o].timer = "fired"
      /\ scpOwned'[o].evictions = scpOwned[o].evictions + 1
      /\ scpOwned'[o].err => scpOwned[o].err
      /\ scpScopes' = scpScopes
      /\ scpCaller' = scpCaller
  BY <1>1 DEF ScopesKnown, ScopesCore, MappedIsOpen, CallersInPlace, Scopes!LeasedIsOpen,
     ScopesTyped, ScopeRecord, ScopeCaller, Scopes!TimerFires
<1>6. ScopesTyped'
  <2>1. scpScopes' \in [ScopeIds -> ScopeObjects \cup {None}]
    BY DEF ScopesTyped, Scopes!TimerFires
  <2>2. scpOwned' \in [ScopeObjects -> ScopeRecord]
    BY DEF ScopesTyped, ScopeRecord, Scopes!TimerFires
  <2>3. scpCaller' \in [ScopeCallers -> ScopeCaller]
    BY DEF ScopesTyped, ScopeCaller, Scopes!TimerFires
  <2> QED
    BY <2>1, <2>2, <2>3 DEF ScopesTyped
<1>7. ScopesInPlace'
  BY <1>1, <1>2 DEF ScopesKnown, ScopesCore, ScopesInPlace, MappedIsOpen
<1>8. CallersInPlace'
  BY <1>1, <1>2 DEF ScopesKnown, ScopesCore, CallersInPlace, MappedIsOpen, ScopesInPlace
<1>9. UnstoredIsEmpty'
  BY <1>1, <1>2 DEF ScopesKnown, ScopesCore, UnstoredIsEmpty, CallersInPlace, DaemonIsHeld
<1>10. RefsAreHolders'
  BY <1>1, <1>2 DEF ScopesKnown, ScopesCore, RefsAreHolders, DaemonIsHeld, UnstoredIsEmpty,
     Scopes!LeasedIsOpen, CallersInPlace
<1>11. DaemonIsHeld'
  BY <1>1, <1>2 DEF ScopesKnown, ScopesCore, DaemonIsHeld, ScopesInPlace, UnstoredIsEmpty,
     RefsAreHolders
<1>12. IdleExpires'
  BY <1>1, <1>2 DEF ScopesKnown, ScopesCore, IdleExpires, MappedIsOpen, FailedIsEmpty,
     DaemonIsHeld, RefsAreHolders, CallersInPlace, UnstoredIsEmpty, ScopesInPlace,
     Scopes!LeasedIsOpen
<1>13. MappedIsOpen'
  BY <1>1, <1>2 DEF ScopesKnown, ScopesCore, MappedIsOpen, UnstoredIsEmpty, ScopesInPlace
<1>14. FailedIsEmpty'
  BY <1>1, <1>2 DEF ScopesKnown, ScopesCore, FailedIsEmpty, UnstoredIsEmpty, Scopes!LeasedIsOpen
<1>15. Scopes!LeasedIsOpen'
  BY <1>1, <1>2 DEF ScopesKnown, ScopesCore, Scopes!LeasedIsOpen, MappedIsOpen, ScopesInPlace,
     CallersInPlace, RefsAreHolders, UnstoredIsEmpty
<1> QED
  BY <1>6, <1>7, <1>8, <1>9, <1>10, <1>11, <1>12, <1>13, <1>14, <1>15 DEF ScopesCore

(* A scope with a holder has references, so that evict leaves it alone. *)
LEMMA evictKeeps ==
  ASSUME ScopesTyped, ScopesCore, ~scpClosed, NEW o \in ScopeObjects,
         Scopes!evict(o)
  PROVE  ScopesTyped' /\ ScopesCore'
<1>1. ScopesKnown
  BY ScopesAreKnown
<1>2. /\ scpOwned[o].evictions > 0
      /\ \A p \in ScopeObjects : p # o => scpOwned'[p] = scpOwned[p]
      /\ scpOwned'[o].id = scpOwned[o].id
      /\ scpOwned'[o].build = scpOwned[o].build
      /\ scpOwned'[o].scope = IF (scpOwned[o].refs # 0
           \/ \A x \in ScopeIds : scpScopes[x] # o) THEN scpOwned[o].scope ELSE "closing"
      /\ scpOwned'[o].waiters = scpOwned[o].waiters
      /\ scpOwned'[o].refs = scpOwned[o].refs
      /\ scpOwned'[o].timer = scpOwned[o].timer
      /\ scpOwned'[o].evictions = scpOwned[o].evictions - 1
      /\ scpOwned'[o].err => scpOwned[o].err
      /\ \A e \in ScopeIds : scpScopes'[e] = IF ~(scpOwned[o].refs # 0
           \/ \A x \in ScopeIds : scpScopes[x] # o)
           /\ e = scpOwned[o].id THEN None ELSE scpScopes[e]
      /\ scpCaller' = scpCaller
  BY <1>1 DEF ScopesKnown, ScopesCore, MappedIsOpen, CallersInPlace, Scopes!LeasedIsOpen,
     ScopesTyped, ScopeRecord, ScopeCaller, Scopes!evict, Scopes!InMap
<1>6. ScopesTyped'
  <2>1. scpScopes' \in [ScopeIds -> ScopeObjects \cup {None}]
    BY DEF ScopesTyped, Scopes!evict, Scopes!InMap
  <2>2. scpOwned' \in [ScopeObjects -> ScopeRecord]
    BY evictTyped
  <2>3. scpCaller' \in [ScopeCallers -> ScopeCaller]
    BY DEF ScopesTyped, ScopeCaller, Scopes!evict, Scopes!InMap
  <2> QED
    BY <2>1, <2>2, <2>3 DEF ScopesTyped
<1>7. ScopesInPlace'
  BY <1>1, <1>2 DEF ScopesKnown, ScopesCore, ScopesInPlace, MappedIsOpen
<1>8. CallersInPlace'
  BY <1>1, <1>2 DEF ScopesKnown, ScopesCore, CallersInPlace, MappedIsOpen, ScopesInPlace
<1>9. UnstoredIsEmpty'
  BY <1>1, <1>2 DEF ScopesKnown, ScopesCore, UnstoredIsEmpty, CallersInPlace, DaemonIsHeld
<1>10. RefsAreHolders'
  BY <1>1, <1>2 DEF ScopesKnown, ScopesCore, RefsAreHolders, DaemonIsHeld, UnstoredIsEmpty,
     Scopes!LeasedIsOpen, CallersInPlace
<1>11. DaemonIsHeld'
  BY <1>1, <1>2, CountsKept DEF ScopesKnown, ScopesCore, DaemonIsHeld, ScopesInPlace,
     RefsAreHolders
<1>12. IdleExpires'
  BY <1>1, <1>2 DEF ScopesKnown, ScopesCore, IdleExpires, MappedIsOpen, FailedIsEmpty,
     DaemonIsHeld, RefsAreHolders, CallersInPlace, UnstoredIsEmpty, ScopesInPlace,
     Scopes!LeasedIsOpen
<1>13. MappedIsOpen'
  BY <1>1, <1>2 DEF ScopesKnown, ScopesCore, MappedIsOpen, UnstoredIsEmpty, ScopesInPlace
<1>14. FailedIsEmpty'
  BY <1>1, <1>2 DEF ScopesKnown, ScopesCore, FailedIsEmpty, UnstoredIsEmpty, Scopes!LeasedIsOpen
<1>15. Scopes!LeasedIsOpen'
  <2> SUFFICES ASSUME NEW b \in ScopeCallers, scpCaller[b].at = "holds"
               PROVE  /\ scpOwned'[scpCaller[b].object].scope = "open"
                      /\ scpScopes'[scpOwned'[scpCaller[b].object].id] = scpCaller[b].object
    BY <1>2 DEF Scopes!LeasedIsOpen
  <2>1. /\ scpCaller[b].object \in ScopeObjects /\ scpOwned[scpCaller[b].object].id \in ScopeIds
        /\ scpOwned[scpCaller[b].object].scope = "open"
        /\ scpScopes[scpOwned[scpCaller[b].object].id] = scpCaller[b].object
    BY <1>1 DEF ScopesKnown, ScopesCore, CallersInPlace, Scopes!LeasedIsOpen
  <2>2. CASE scpCaller[b].object # o
    <3>1. scpOwned[o].id # scpOwned[scpCaller[b].object].id
            \/ \A x \in ScopeIds : scpScopes[x] # o
      BY <2>1, <2>2 DEF ScopesCore, ScopesInPlace
    <3> QED
      BY <1>2, <2>1, <2>2, <3>1
  <2>3. CASE scpCaller[b].object = o
    <3>1. Cardinality(ScopeHolders(scpCaller, o)) # 0
      BY <2>3, CountsKept
    <3>2. scpOwned[o].refs # 0
      BY <3>1, CountsKept DEF ScopesCore, RefsAreHolders
    <3> QED
      BY <1>2, <2>1, <2>3, <3>2
  <2> QED
    BY <2>2, <2>3
<1> QED
  BY <1>6, <1>7, <1>8, <1>9, <1>10, <1>11, <1>12, <1>13, <1>14, <1>15 DEF ScopesCore

(* What is closed was out of its place. *)
LEMMA CloseScopeKeeps ==
  ASSUME ScopesTyped, ScopesCore, ~scpClosed, NEW o \in ScopeObjects,
         Scopes!CloseScope(o)
  PROVE  ScopesTyped' /\ ScopesCore'
<1>1. ScopesKnown
  BY ScopesAreKnown
<1>2. /\ scpOwned[o].scope = "closing"
      /\ \A p \in ScopeObjects : p # o => scpOwned'[p] = scpOwned[p]
      /\ scpOwned'[o].id = scpOwned[o].id
      /\ scpOwned'[o].build = scpOwned[o].build
      /\ scpOwned'[o].scope = "closed"
      /\ scpOwned'[o].waiters = scpOwned[o].waiters
      /\ scpOwned'[o].refs = scpOwned[o].refs
      /\ scpOwned'[o].timer = scpOwned[o].timer
      /\ scpOwned'[o].evictions = scpOwned[o].evictions
      /\ scpOwned'[o].err => scpOwned[o].err
      /\ scpScopes' = scpScopes
      /\ scpCaller' = scpCaller
  BY <1>1 DEF ScopesKnown, ScopesCore, MappedIsOpen, CallersInPlace, Scopes!LeasedIsOpen,
     ScopesTyped, ScopeRecord, ScopeCaller, Scopes!CloseScope
<1>6. ScopesTyped'
  <2>1. scpScopes' \in [ScopeIds -> ScopeObjects \cup {None}]
    BY DEF ScopesTyped, Scopes!CloseScope
  <2>2. scpOwned' \in [ScopeObjects -> ScopeRecord]
    BY DEF ScopesTyped, ScopeRecord, Scopes!CloseScope
  <2>3. scpCaller' \in [ScopeCallers -> ScopeCaller]
    BY DEF ScopesTyped, ScopeCaller, Scopes!CloseScope
  <2> QED
    BY <2>1, <2>2, <2>3 DEF ScopesTyped
<1>7. ScopesInPlace'
  BY <1>1, <1>2 DEF ScopesKnown, ScopesCore, ScopesInPlace, MappedIsOpen
<1>8. CallersInPlace'
  BY <1>1, <1>2 DEF ScopesKnown, ScopesCore, CallersInPlace, MappedIsOpen, ScopesInPlace
<1>9. UnstoredIsEmpty'
  BY <1>1, <1>2 DEF ScopesKnown, ScopesCore, UnstoredIsEmpty, CallersInPlace, DaemonIsHeld
<1>10. RefsAreHolders'
  BY <1>1, <1>2 DEF ScopesKnown, ScopesCore, RefsAreHolders, DaemonIsHeld, UnstoredIsEmpty,
     Scopes!LeasedIsOpen, CallersInPlace
<1>11. DaemonIsHeld'
  BY <1>1, <1>2 DEF ScopesKnown, ScopesCore, DaemonIsHeld, ScopesInPlace, UnstoredIsEmpty,
     RefsAreHolders
<1>12. IdleExpires'
  BY <1>1, <1>2 DEF ScopesKnown, ScopesCore, IdleExpires, MappedIsOpen, FailedIsEmpty,
     DaemonIsHeld, RefsAreHolders, CallersInPlace, UnstoredIsEmpty, ScopesInPlace,
     Scopes!LeasedIsOpen
<1>13. MappedIsOpen'
  BY <1>1, <1>2 DEF ScopesKnown, ScopesCore, MappedIsOpen, UnstoredIsEmpty, ScopesInPlace
<1>14. FailedIsEmpty'
  BY <1>1, <1>2 DEF ScopesKnown, ScopesCore, FailedIsEmpty, UnstoredIsEmpty, Scopes!LeasedIsOpen
<1>15. Scopes!LeasedIsOpen'
  BY <1>1, <1>2 DEF ScopesKnown, ScopesCore, Scopes!LeasedIsOpen, MappedIsOpen, ScopesInPlace,
     CallersInPlace, RefsAreHolders, UnstoredIsEmpty
<1> QED
  BY <1>6, <1>7, <1>8, <1>9, <1>10, <1>11, <1>12, <1>13, <1>14, <1>15 DEF ScopesCore

(* The manager starts with the scope of the daemon, held by it:            *)
(* NewManager.                                                             *)
LEMMA ScopesInit == Scopes!Init => ScopesIInv
<1> SUFFICES ASSUME Scopes!Init PROVE ScopesTyped /\ ScopesCore /\ ForgottenIsCancelled
  BY DEF ScopesIInv
<1> DEFINE daemon == CHOOSE o \in ScopeObjects : TRUE
           first == [Scopes!Unused EXCEPT !.id = ScopeDaemon, !.build = "stored",
             !.scope = "open", !.refs = 1]
<1>1. daemon \in ScopeObjects
  BY ScopesAssumption
<1>2. /\ scpScopes = [d \in ScopeIds |-> IF d = ScopeDaemon THEN daemon ELSE None]
      /\ scpOwned = [o \in ScopeObjects |-> IF o = daemon THEN first ELSE Scopes!Unused]
      /\ scpCaller = [c \in ScopeCallers |-> Scopes!Idle]
  BY DEF Scopes!Init, ScopeIds
<1>3. /\ first.id = ScopeDaemon /\ first.build = "stored" /\ first.scope = "open"
           /\ first.refs = 1
      /\ first.timer = "nil" /\ first.evictions = 0 /\ first.err = FALSE
  BY DEF Scopes!Unused
<1>4. first \in ScopeRecord
  <2> DEFINE n == 1
  <2>1. n \in Int /\ ScopeDaemon \in ScopeIds
    BY DEF ScopeIds
  <2> HIDE DEF n
  <2>2. [Scopes!Unused EXCEPT !.id = ScopeDaemon, !.build = "stored", !.scope = "open",
          !.refs = n] \in ScopeRecord
    BY <2>1, UnusedTyped DEF ScopeRecord
  <2> QED
    BY <2>2 DEF n
<1> HIDE DEF daemon, first
<1>5. ScopesTyped
  BY <1>1, <1>2, <1>4, UnusedTyped DEF ScopesTyped, Scopes!Idle, ScopeCaller
<1>6. ScopesKnown
  BY <1>5, ScopesAreKnown
<1>7. \A o \in ScopeObjects : Cardinality(ScopeUsers(scpCaller, o)) = 0
        /\ Cardinality(ScopeHolders(scpCaller, o)) = 0
  BY <1>2, <1>6, CountsKept DEF Scopes!Idle, ScopesKnown
<1>8. \A o \in ScopeObjects : o # daemon =>
        /\ scpOwned[o].id = None /\ scpOwned[o].build = "unused" /\ scpOwned[o].scope = None
             /\ scpOwned[o].err = FALSE
        /\ scpOwned[o].waiters = 0 /\ scpOwned[o].refs = 0 /\ scpOwned[o].timer = "nil"
             /\ scpOwned[o].evictions = 0
  BY <1>2 DEF Scopes!Unused
<1>9. ScopesCore
  <2>1. ScopesInPlace /\ CallersInPlace /\ Scopes!LeasedIsOpen
    BY <1>1, <1>2, <1>3, <1>6, <1>8 DEF ScopesKnown, ScopesInPlace, CallersInPlace,
       Scopes!LeasedIsOpen, Scopes!Idle
  <2>2. UnstoredIsEmpty /\ RefsAreHolders
    BY <1>1, <1>2, <1>3, <1>7, <1>8, <1>6 DEF UnstoredIsEmpty, RefsAreHolders, ScopesKnown
  <2>3. DaemonIsHeld /\ IdleExpires
    BY <1>1, <1>2, <1>3, <1>6, <1>8 DEF DaemonIsHeld, IdleExpires, ScopesKnown
  <2>4. MappedIsOpen /\ FailedIsEmpty
    BY <1>1, <1>2, <1>3, <1>6, <1>8 DEF MappedIsOpen, FailedIsEmpty, ScopesKnown
  <2> QED
    BY <2>1, <2>2, <2>3, <2>4 DEF ScopesCore
<1>10. ForgottenIsCancelled
  BY <1>1, <1>2, <1>3, <1>8, ScopesAssumption DEF ForgottenIsCancelled, Mapped, ScopeIds
<1> QED
  BY <1>5, <1>9, <1>10

(* Only evict and the last waiter take a scope out of the map.             *)
LEMMA ForgottenStep ==
  ASSUME ScopesTyped, ScopesCore, ForgottenIsCancelled, [Scopes!Next]_scpVars,
         ~scpClosed, ~scpClosed'
  PROVE  ForgottenIsCancelled'
<1>0. ScopesKnown
  BY ScopesAreKnown
<1>1. CASE UNCHANGED scpVars
  BY <1>1 DEF scpVars, ForgottenIsCancelled, Mapped
<1>2. ASSUME NEW c \in ScopeCallers, NEW d \in ScopeIds, Scopes!Acquire(c, d)
      PROVE  ForgottenIsCancelled'
  <2>1. CASE \E o \in Scopes!Fresh : Starts(c, d, o)
    <3>1. PICK o \in ScopeObjects : Starts(c, d, o)
      BY <2>1 DEF Scopes!Fresh
    <3>2. \A p \in ScopeObjects : p # o => scpOwned'[p] = scpOwned[p] /\ (Mapped(p) => Mapped(p)')
      BY <1>0, <3>1 DEF Starts, Mapped, ScopesTyped, ScopesKnown
    <3>3. Mapped(o)'
      BY <3>1 DEF Starts, Mapped, ScopesTyped
    <3> QED
      BY <3>2, <3>3 DEF ForgottenIsCancelled
  <2>2. CASE Joins(c, d, scpScopes[d])
    BY <2>2 DEF Joins, ForgottenIsCancelled, Mapped, ScopesTyped, ScopeRecord
  <2> QED
    BY <1>2, <2>1, <2>2 DEF Scopes!Acquire, Starts, Joins
<1>3. ASSUME NEW c \in ScopeCallers,
             Scopes!Lease(c) \/ Scopes!CancelCaller(c) \/ Scopes!Wake(c) \/ Scopes!Release(c)
      PROVE  ForgottenIsCancelled'
  <2>1. scpScopes' = scpScopes
    BY <1>3 DEF Scopes!Lease, Scopes!LeaseOf, Scopes!CancelCaller, Scopes!Wake, Scopes!Release
  <2>2. \A p \in ScopeObjects :
          /\ scpOwned'[p].build = scpOwned[p].build /\ scpOwned'[p].scope = scpOwned[p].scope
          /\ scpOwned'[p].cancelled = scpOwned[p].cancelled
    BY <1>3 DEF Scopes!Lease, Scopes!LeaseOf, Scopes!CancelCaller, Scopes!Wake, Scopes!Release,
       ScopesTyped, ScopeRecord
  <2> QED
    BY <2>1, <2>2 DEF ForgottenIsCancelled, Mapped
<1>4. ASSUME NEW c \in ScopeCallers, Scopes!GiveUp(c)
      PROVE  ForgottenIsCancelled'
  <2> DEFINE o == scpCaller[c].object
  <2>1. Scopes!abandon(o, scpCaller[c].id)
    BY <1>4 DEF Scopes!GiveUp
  <2>2. \A p \in ScopeObjects :
          /\ scpOwned'[p].build = scpOwned[p].build /\ scpOwned'[p].scope = scpOwned[p].scope
          /\ scpOwned[p].cancelled => scpOwned'[p].cancelled
          /\ Mapped(p) => Mapped(p)' \/ scpOwned'[p].cancelled
    BY <2>1 DEF Scopes!abandon, Mapped, ScopesTyped, ScopeRecord
  <2> QED
    BY <2>2 DEF ForgottenIsCancelled
<1>5. ASSUME NEW o \in ScopeObjects,
             Scopes!Construct(o) \/ Scopes!StoreScope(o) \/ Scopes!TimerFires(o)
               \/ Scopes!CloseScope(o)
      PROVE  ForgottenIsCancelled'
  <2>1. scpScopes' = scpScopes
    BY <1>5 DEF Scopes!Construct, Scopes!StoreScope, Scopes!TimerFires, Scopes!CloseScope
  <2>2. \A p \in ScopeObjects :
          /\ scpOwned'[p].cancelled = scpOwned[p].cancelled
          /\ scpOwned'[p].build \in {"running", "built"} \/ scpOwned'[p].scope = "open" =>
               scpOwned[p].build \in {"running", "built"} \/ scpOwned[p].scope = "open"
    BY <1>5 DEF Scopes!Construct, Scopes!StoreScope, Scopes!TimerFires, Scopes!CloseScope,
       ScopesTyped, ScopeRecord
  <2> QED
    BY <2>1, <2>2 DEF ForgottenIsCancelled, Mapped
<1>6. ASSUME NEW o \in ScopeObjects, Scopes!StoreFailure(o)
      PROVE  ForgottenIsCancelled'
  <2>1. scpOwned'[o].build = "stored" /\ scpOwned'[o].scope # "open"
    BY <1>6, ScopesAssumption DEF Scopes!StoreFailure, ScopesTyped, ScopeRecord, ScopesCore,
       UnstoredIsEmpty
  <2>2. \A p \in ScopeObjects : p # o => scpOwned'[p] = scpOwned[p] /\ (Mapped(p) => Mapped(p)')
    BY <1>6 DEF Scopes!StoreFailure, Mapped, ScopesTyped
  <2> QED
    BY <2>1, <2>2 DEF ForgottenIsCancelled
<1>7. ASSUME NEW o \in ScopeObjects, Scopes!evict(o)
      PROVE  ForgottenIsCancelled'
  <2>1. CASE scpScopes' = scpScopes
    BY <1>7, <2>1 DEF Scopes!evict, ForgottenIsCancelled, Mapped, ScopesTyped, ScopeRecord
  <2>2. CASE scpScopes' # scpScopes
    <3>1. scpOwned'[o].scope = "closing" /\ scpOwned'[o].build = scpOwned[o].build
            /\ Scopes!InMap(o) /\ scpOwned[o].evictions > 0
      BY <1>7, <2>2 DEF Scopes!evict, ScopesTyped, ScopeRecord
    <3>2. scpScopes[scpOwned[o].id] = o
      BY <1>0, <3>1 DEF Scopes!InMap, ScopesCore, ScopesInPlace, ScopesKnown
    <3>3. scpOwned[o].build = "stored"
      BY <3>1 DEF ScopesCore, UnstoredIsEmpty
    <3>4. \A p \in ScopeObjects : p # o => scpOwned'[p] = scpOwned[p] /\ (Mapped(p) => Mapped(p)')
      BY <1>7, <2>2, <3>2 DEF Scopes!evict, Mapped, ScopesTyped
    <3> QED
      BY <3>1, <3>3, <3>4 DEF ForgottenIsCancelled
  <2> QED
    BY <2>1, <2>2
<1>8. \A o \in ScopeObjects : ~Scopes!DiscardBuilt(o)
  BY DEF Scopes!DiscardBuilt
<1>9. ~Scopes!CloseManager
  BY DEF Scopes!CloseManager
<1> QED
  BY <1>1, <1>2, <1>3, <1>4, <1>5, <1>6, <1>7, <1>8, <1>9 DEF Scopes!Next, ScopeIds

(* Every step of the manager keeps the invariant.                          *)
LEMMA ScopesStep == ASSUME ScopesIInv, [Scopes!Next]_scpVars PROVE ScopesIInv'
<1>8. scpClosed' = scpClosed \/ scpClosed' = TRUE
  <2>1. ASSUME NEW c \in ScopeCallers, NEW d \in ScopeIds,
               Scopes!Acquire(c, d) \/ Scopes!CancelCaller(c) \/ Scopes!Wake(c)
                 \/ Scopes!GiveUp(c) \/ Scopes!Lease(c) \/ Scopes!Release(c)
        PROVE  scpClosed' = scpClosed
    BY <2>1 DEF Scopes!Acquire, Scopes!CancelCaller, Scopes!Wake, Scopes!GiveUp, Scopes!Lease,
       Scopes!LeaseOf, Scopes!Release
  <2>2. ASSUME NEW o \in ScopeObjects,
               Scopes!Construct(o) \/ Scopes!DiscardBuilt(o) \/ Scopes!StoreFailure(o)
                 \/ Scopes!StoreScope(o) \/ Scopes!TimerFires(o)
                 \/ Scopes!evict(o) \/ Scopes!CloseScope(o)
        PROVE  scpClosed' = scpClosed
    BY <2>2 DEF Scopes!Construct, Scopes!DiscardBuilt, Scopes!StoreFailure, Scopes!StoreScope,
       Scopes!TimerFires, Scopes!evict, Scopes!CloseScope
  <2> QED
    BY <2>1, <2>2 DEF Scopes!Next, Scopes!CloseManager, scpVars, ScopeIds
<1> SUFFICES ASSUME ~scpClosed, ~scpClosed' PROVE ScopesTyped' /\ ScopesCore'
  BY <1>8, ForgottenStep DEF ScopesIInv
<1>0. ScopesTyped /\ ScopesCore /\ ScopesKnown
  BY ScopesAreKnown DEF ScopesIInv
<1>1. CASE UNCHANGED scpVars
  BY <1>0, <1>1 DEF scpVars, ScopesTyped, ScopesCore, ScopesInPlace, CallersInPlace,
     UnstoredIsEmpty,
     RefsAreHolders, DaemonIsHeld, IdleExpires, MappedIsOpen, FailedIsEmpty, Scopes!LeasedIsOpen
<1>2. ASSUME NEW c \in ScopeCallers, NEW d \in ScopeIds, Scopes!Acquire(c, d)
      PROVE  ScopesTyped' /\ ScopesCore'
  <2>1. CASE \E o \in Scopes!Fresh : Starts(c, d, o)
    <3>1. PICK o \in ScopeObjects : Starts(c, d, o)
      BY <2>1 DEF Scopes!Fresh
    <3> QED
      BY <1>0, <3>1, StartsKeeps
  <2>2. CASE Joins(c, d, scpScopes[d])
    <3>1. scpScopes[d] \in ScopeObjects
      BY <1>0, <2>2 DEF ScopesKnown, Joins
    <3> QED
      BY <1>0, <2>2, <3>1, JoinsKeeps
  <2> QED
    BY <1>2, <2>1, <2>2 DEF Scopes!Acquire, Starts, Joins
<1>3. ASSUME NEW c \in ScopeCallers, Scopes!Lease(c)
      PROVE  ScopesTyped' /\ ScopesCore'
  <2> DEFINE o == scpCaller[c].object
  <2>1. o \in ScopeObjects
    BY <1>0, <1>3 DEF Scopes!Lease, Scopes!LeaseOf, ScopesCore, CallersInPlace, ScopesKnown
  <2>2. CASE scpOwned[o].err \/ scpClosed \/ scpScopes[scpCaller[c].id] # o
               \/ scpOwned[o].scope = None
    <3>1. Scopes!LeaseOf(c, TRUE)
      BY <1>3, <2>2 DEF Scopes!Lease, Scopes!LeaseOf
    <3> QED
      BY <1>0, <2>1, <2>2, <3>1, RefusedKeeps
  <2>3. CASE ~(scpOwned[o].err \/ scpClosed \/ scpScopes[scpCaller[c].id] # o
               \/ scpOwned[o].scope = None)
    <3>1. Scopes!LeaseOf(c, FALSE)
      BY <1>3, <2>3 DEF Scopes!Lease, Scopes!LeaseOf
    <3> QED
      BY <1>0, <2>1, <2>3, <3>1, GrantedKeeps
  <2> QED
    BY <2>2, <2>3
<1>4. ASSUME NEW c \in ScopeCallers, Scopes!CancelCaller(c) \/ Scopes!Wake(c)
             \/ Scopes!GiveUp(c) \/ Scopes!Release(c)
      PROVE  ScopesTyped' /\ ScopesCore'
  <2>1. Scopes!GiveUp(c) \/ Scopes!Release(c) => scpCaller[c].object \in ScopeObjects
    BY <1>0 DEF Scopes!GiveUp, Scopes!Release, ScopesCore, CallersInPlace, ScopesKnown
  <2> QED
    BY <1>0, <1>4, <2>1, CancelKeeps, WakeKeeps, GiveUpKeeps, ReleaseKeeps
<1>5. ASSUME NEW o \in ScopeObjects,
             Scopes!Construct(o) \/ Scopes!StoreFailure(o) \/ Scopes!StoreScope(o)
               \/ Scopes!TimerFires(o) \/ Scopes!evict(o) \/ Scopes!CloseScope(o)
      PROVE  ScopesTyped' /\ ScopesCore'
  BY <1>0, <1>5, ConstructKeeps, StoreFailureKeeps, StoreScopeKeeps, TimerKeeps, evictKeeps,
     CloseScopeKeeps
<1>6. \A o \in ScopeObjects : ~Scopes!DiscardBuilt(o)
  BY DEF Scopes!DiscardBuilt
<1>7. ~Scopes!CloseManager
  BY DEF Scopes!CloseManager
<1> QED
  BY <1>1, <1>2, <1>3, <1>4, <1>5, <1>6, <1>7 DEF Scopes!Next, ScopeIds

(* Leases hold open scopes, and idle ones expire.                          *)
LEMMA ScopesSafe == ASSUME ScopesIInv PROVE Scopes!ScopesAreKept
<1> SUFFICES ASSUME ~scpClosed PROVE Scopes!LeasedIsOpen /\ Scopes!IdleWillExpire
  BY DEF Scopes!ScopesAreKept, Scopes!LeasedIsOpen, Scopes!IdleWillExpire
<1>1. ScopesTyped /\ ScopesCore /\ ScopesKnown
  BY ScopesAreKnown DEF ScopesIInv
<1>2. Scopes!IdleWillExpire
  <2> SUFFICES ASSUME NEW o \in ScopeObjects, scpOwned[o].scope = "open",
                      scpOwned[o].id # ScopeDaemon,
                      \A c \in ScopeCallers : scpCaller[c].object # o
               PROVE  IF Scopes!InMap(o) THEN scpOwned[o].timer = "armed" \/ scpOwned[o].evictions > 0
                      ELSE scpOwned[o].cancelled
    BY DEF Scopes!IdleWillExpire
  <2>1. Cardinality(ScopeUsers(scpCaller, o)) = 0 /\ Cardinality(ScopeHolders(scpCaller, o)) = 0
    BY CountsKept
  <2>2. scpOwned[o].refs = 0
    BY <2>1 DEF RefsAreHolders, ScopesCore, ScopesIInv
  <2>3. Scopes!InMap(o) <=> Mapped(o)
    BY <1>1 DEF Scopes!InMap, Mapped, ScopesKnown
  <2>4. CASE Mapped(o)
    BY <1>1, <2>1, <2>2, <2>3, <2>4 DEF ScopesCore, IdleExpires, ScopesKnown, Mapped
  <2>5. CASE ~Mapped(o)
    BY <2>3, <2>5 DEF ScopesIInv, ForgottenIsCancelled
  <2> QED
    BY <2>4, <2>5
<1> QED
  BY <1>1, <1>2 DEF ScopesCore

-----------------------------------------------------------------------------
(* McpConnections.  A connection is in the hands of the one that holds the *)
(* lifecycle lock, or of its server.                                       *)

McpGeneration ==
  [state : {"unopened", "open", "refused", "closed"}, accepting : BOOLEAN, late : BOOLEAN]

McpServer ==
  [status : {"disabled", "connected", "failed"}, generation : McpGenerations \cup {None}]

McpLifecycle ==
  [op : {"none", "connect", "retire"}, server : McpServers \cup {None},
   opened : McpGenerations \cup {None}, seen : SUBSET McpCursors,
   retired : SUBSET McpGenerations, expired : BOOLEAN]

McpCall == [at : {"idle", "running", "returned"}, generation : McpGenerations \cup {None}]

(* The values of the state.                                                *)
McpTyped ==
  /\ mcpServers \in [McpServers -> McpServer]
  /\ mcpGeneration \in [McpGenerations -> McpGeneration]
  /\ mcpClosed \in BOOLEAN
  /\ mcpLifecycle \in McpLifecycle
  /\ mcpCall \in [McpCalls -> McpCall]

(* What the holder of the lifecycle lock has in hand is open, takes no     *)
(* calls and serves nobody.                                                *)
InHand ==
  /\ mcpLifecycle.op = "connect" => mcpLifecycle.server \in McpServers
       /\ mcpLifecycle.retired = {} /\ ~mcpClosed
  /\ mcpLifecycle.op # "connect" => mcpLifecycle.opened = None
  /\ mcpLifecycle.op # "retire" => mcpLifecycle.retired = {}
  /\ \A g \in McpGenerations : g = mcpLifecycle.opened \/ g \in mcpLifecycle.retired =>
       /\ mcpGeneration[g].state = "open" /\ ~mcpGeneration[g].accepting
       /\ \A s \in McpServers : mcpServers[s].generation # g

(* Only an open connection takes calls, and only a closed one was closed late. *)
AcceptingIsOpen ==
  \A g \in McpGenerations :
    /\ mcpGeneration[g].accepting => mcpGeneration[g].state = "open"
    /\ mcpGeneration[g].late => mcpGeneration[g].state = "closed"

(* A call runs over a connection, and not over one that is not published. *)
RunningIsPublished ==
  \A c \in McpCalls : mcpCall[c].at = "running" =>
    mcpCall[c].generation \in McpGenerations /\ mcpCall[c].generation # mcpLifecycle.opened

(* The inductive invariant of the connections.                             *)
McpIInv ==
  /\ McpTyped /\ InHand /\ AcceptingIsOpen /\ RunningIsPublished
  /\ Mcp!OpenIsOwned /\ Mcp!ServedIsOpen /\ Mcp!CallKeepsConnection

(* Retired keeps generations well-formed, and takes no more calls for      *)
(* those it names.                                                         *)
LEMMA RetiredTyped ==
  ASSUME McpTyped, NEW gs \in SUBSET McpGenerations
  PROVE  /\ Mcp!Retired(gs) \in [McpGenerations -> McpGeneration]
         /\ \A g \in McpGenerations :
              /\ Mcp!Retired(gs)[g].state = mcpGeneration[g].state
              /\ Mcp!Retired(gs)[g].late <=> mcpGeneration[g].late
              /\ Mcp!Retired(gs)[g].accepting <=> mcpGeneration[g].accepting /\ g \notin gs
<1>1. ASSUME NEW g \in McpGenerations
      PROVE  /\ Mcp!Retired(gs)[g] \in McpGeneration
             /\ Mcp!Retired(gs)[g].state = mcpGeneration[g].state
             /\ Mcp!Retired(gs)[g].late <=> mcpGeneration[g].late
             /\ Mcp!Retired(gs)[g].accepting <=> mcpGeneration[g].accepting /\ g \notin gs
  <2>1. mcpGeneration[g] \in McpGeneration
    BY DEF McpTyped
  <2>2. CASE g \in gs
    <3>1. Mcp!Retired(gs)[g] = [mcpGeneration[g] EXCEPT !.accepting = FALSE]
      BY <2>2 DEF Mcp!Retired
    <3> QED
      BY <2>1, <2>2, <3>1 DEF McpGeneration
  <2>3. CASE g \notin gs
    <3>1. Mcp!Retired(gs)[g] = mcpGeneration[g]
      BY <2>3 DEF Mcp!Retired
    <3> QED
      BY <2>1, <2>3, <3>1
  <2> QED
    BY <2>2, <2>3
<1>2. Mcp!Retired(gs) = [g \in McpGenerations |-> Mcp!Retired(gs)[g]]
  BY DEF Mcp!Retired
<1> QED
  BY <1>1, <1>2

(* The holder of the lock goes on to retire what it replaced, or lets the  *)
(* lock go.                                                                *)
Retires(old) ==
  /\ mcpLifecycle' \in McpLifecycle
  /\ mcpLifecycle'.op = IF old = {} THEN "none" ELSE "retire"
  /\ mcpLifecycle'.retired = old /\ mcpLifecycle'.opened = None

(* How lifecycle is left by those that replace connections.                *)
LEMMA RetiringTyped ==
  ASSUME NEW old \in SUBSET McpGenerations,
         mcpLifecycle' = IF old = {} THEN Mcp!Free ELSE [Mcp!Free EXCEPT !.op = "retire",
           !.retired = old]
  PROVE  Retires(old)
<1>1. Mcp!Free \in McpLifecycle /\ Mcp!Free.op = "none" /\ Mcp!Free.opened = None
        /\ Mcp!Free.retired = {}
  BY DEF Mcp!Free, McpLifecycle
<1>2. CASE old = {}
  BY <1>1, <1>2 DEF Retires
<1>3. CASE old # {}
  <2>1. mcpLifecycle' = [Mcp!Free EXCEPT !.op = "retire", !.retired = old]
    BY <1>3
  <2> QED
    BY <1>1, <1>3, <2>1 DEF McpLifecycle, Retires
<1> QED
  BY <1>2, <1>3

(* A server without a connection in hand has the lock. *)
LEMMA ConnectMcp ==
  ASSUME McpIInv, NEW s \in McpServers, Mcp!Connect(s)
  PROVE  McpIInv'
<1>1. mcpServers' \in [McpServers -> McpServer]
  BY DEF McpIInv, McpTyped, Mcp!Connect
<1>2. mcpGeneration' \in [McpGenerations -> McpGeneration]
  BY DEF McpIInv, McpTyped, Mcp!Connect
<1>3. mcpClosed' \in BOOLEAN
  BY McpAssumption DEF McpIInv, McpTyped, Mcp!Connect, Mcp!Free
<1>4. mcpLifecycle' \in McpLifecycle
  BY DEF McpIInv, McpTyped, McpLifecycle, Mcp!Connect
<1>5. mcpCall' \in [McpCalls -> McpCall]
  BY DEF McpIInv, McpTyped, Mcp!Connect
<1>6. InHand'
  BY DEF McpIInv, InHand, Mcp!Connect, Mcp!Free
<1>7. AcceptingIsOpen'
  BY DEF McpIInv, AcceptingIsOpen, Mcp!Connect
<1>8. RunningIsPublished'
  BY DEF McpIInv, RunningIsPublished, Mcp!Connect
<1>9. Mcp!OpenIsOwned'
  BY DEF McpIInv, Mcp!OpenIsOwned, Mcp!Connect
<1>10. Mcp!ServedIsOpen'
  BY DEF McpIInv, Mcp!ServedIsOpen, Mcp!Connect
<1>11. Mcp!CallKeepsConnection'
  BY DEF McpIInv, Mcp!CallKeepsConnection, Mcp!Connect
<1> QED
  BY <1>1, <1>2, <1>3, <1>4, <1>5, <1>6, <1>7, <1>8, <1>9, <1>10, <1>11 DEF McpIInv,
     McpTyped

(* What is opened has run no call. *)
LEMMA OpenMcp ==
  ASSUME McpIInv, Mcp!Open
  PROVE  McpIInv'
<1>1. mcpServers' \in [McpServers -> McpServer]
  BY DEF McpIInv, McpTyped, Mcp!Open
<1>2. mcpGeneration' \in [McpGenerations -> McpGeneration]
  BY McpAssumption DEF McpIInv, McpTyped, McpGeneration, Mcp!Open
<1>3. mcpClosed' \in BOOLEAN
  BY McpAssumption DEF McpIInv, McpTyped, Mcp!Open
<1>4. mcpLifecycle' \in McpLifecycle
  BY McpAssumption DEF McpIInv, McpTyped, McpLifecycle, Mcp!Open
<1>5. mcpCall' \in [McpCalls -> McpCall]
  BY McpAssumption DEF McpIInv, McpTyped, McpCall, Mcp!Open
<1>6. InHand'
  BY DEF McpIInv, McpTyped, InHand, AcceptingIsOpen, Mcp!ServedIsOpen, Mcp!Open
<1>7. AcceptingIsOpen'
  BY DEF McpIInv, AcceptingIsOpen, Mcp!Open
<1>8. RunningIsPublished'
  BY DEF McpIInv, AcceptingIsOpen, RunningIsPublished, Mcp!CallKeepsConnection, Mcp!Open
<1>9. Mcp!OpenIsOwned'
  BY McpAssumption DEF McpIInv, Mcp!OpenIsOwned, Mcp!Open
<1>10. Mcp!ServedIsOpen'
  BY DEF McpIInv, Mcp!ServedIsOpen, Mcp!Open
<1>11. Mcp!CallKeepsConnection'
  BY DEF McpIInv, Mcp!CallKeepsConnection, Mcp!Open
<1> QED
  BY <1>1, <1>2, <1>3, <1>4, <1>5, <1>6, <1>7, <1>8, <1>9, <1>10, <1>11 DEF McpIInv,
     McpTyped

(* One page more changes no connection. *)
LEMMA ListPageMcp ==
  ASSUME McpIInv, Mcp!ListPage
  PROVE  McpIInv'
<1>1. mcpServers' \in [McpServers -> McpServer]
  BY DEF McpIInv, McpTyped, Mcp!ListPage
<1>2. mcpGeneration' \in [McpGenerations -> McpGeneration]
  BY McpAssumption DEF McpIInv, McpTyped, McpGeneration, Mcp!ListPage
<1>3. mcpClosed' \in BOOLEAN
  BY McpAssumption DEF McpIInv, McpTyped, Mcp!ListPage
<1>4. mcpLifecycle' \in McpLifecycle
  BY McpAssumption DEF McpIInv, McpTyped, McpLifecycle, Mcp!ListPage
<1>5. mcpCall' \in [McpCalls -> McpCall]
  BY McpAssumption DEF McpIInv, McpTyped, McpCall, Mcp!ListPage
<1>6. InHand'
  BY DEF McpIInv, InHand, Mcp!ListPage
<1>7. AcceptingIsOpen'
  BY DEF McpIInv, AcceptingIsOpen, Mcp!ListPage
<1>8. RunningIsPublished'
  BY DEF McpIInv, RunningIsPublished, Mcp!ListPage
<1>9. Mcp!OpenIsOwned'
  BY DEF McpIInv, Mcp!OpenIsOwned, Mcp!ListPage
<1>10. Mcp!ServedIsOpen'
  BY DEF McpIInv, Mcp!ServedIsOpen, Mcp!ListPage
<1>11. Mcp!CallKeepsConnection'
  BY DEF McpIInv, Mcp!CallKeepsConnection, Mcp!ListPage
<1> QED
  BY <1>1, <1>2, <1>3, <1>4, <1>5, <1>6, <1>7, <1>8, <1>9, <1>10, <1>11 DEF McpIInv,
     McpTyped

(* What was opened is refused, and the server keeps what it had. *)
LEMMA ConnectFailsMcp ==
  ASSUME McpIInv, Mcp!ConnectFails
  PROVE  McpIInv'
<1>1. mcpServers' \in [McpServers -> McpServer]
  <2> DEFINE st == IF mcpServers[mcpLifecycle.server].generation = None THEN "failed"
                   ELSE "connected"
  <2>1. mcpServers' = [mcpServers EXCEPT ![mcpLifecycle.server].status = st]
          /\ st \in {"failed", "connected"}
    BY DEF Mcp!ConnectFails
  <2> HIDE DEF st
  <2> QED
    BY <2>1 DEF McpIInv, McpTyped, McpServer
<1>2. mcpGeneration' \in [McpGenerations -> McpGeneration]
  BY DEF McpIInv, McpTyped, McpGeneration, Mcp!ConnectFails
<1>3. mcpClosed' \in BOOLEAN
  BY McpAssumption DEF McpIInv, McpTyped, Mcp!ConnectFails, Mcp!Free
<1>4. mcpLifecycle' \in McpLifecycle
  BY DEF McpLifecycle, Mcp!ConnectFails, Mcp!Free
<1>5. mcpCall' \in [McpCalls -> McpCall]
  BY DEF McpIInv, McpTyped, Mcp!ConnectFails
<1>6. InHand'
  BY McpAssumption DEF InHand, Mcp!ConnectFails, Mcp!Free
<1>7. AcceptingIsOpen'
  BY DEF McpIInv, InHand, AcceptingIsOpen, Mcp!ConnectFails
<1>8. RunningIsPublished'
  BY McpAssumption DEF McpIInv, RunningIsPublished, Mcp!ConnectFails, Mcp!Free
<1>9. Mcp!OpenIsOwned'
  BY DEF McpIInv, InHand, Mcp!OpenIsOwned, Mcp!ConnectFails
<1>10. Mcp!ServedIsOpen'
  BY DEF McpIInv, McpTyped, McpServer, InHand, Mcp!ServedIsOpen, Mcp!ConnectFails
<1>11. Mcp!CallKeepsConnection'
  BY DEF McpIInv, RunningIsPublished, Mcp!CallKeepsConnection, Mcp!ConnectFails
<1> QED
  BY <1>1, <1>2, <1>3, <1>4, <1>5, <1>6, <1>7, <1>8, <1>9, <1>10, <1>11 DEF McpIInv,
     McpTyped

(* The new generation takes the place of the old one, which is in hand. *)
LEMMA ConnectedMcp ==
  ASSUME McpIInv, Mcp!Connected
  PROVE  McpIInv'
<1> DEFINE old == {mcpServers[mcpLifecycle.server].generation} \ {None}
           new == mcpLifecycle.opened
<1>0. old \in SUBSET McpGenerations /\ new \in McpGenerations
        /\ mcpLifecycle.server \in McpServers /\ mcpLifecycle.op = "connect"
  BY DEF McpIInv, McpTyped, McpServer, McpLifecycle, InHand, Mcp!Connected
<1>1. mcpServers' \in [McpServers -> McpServer]
  BY <1>0 DEF McpIInv, McpTyped, McpServer, Mcp!Connected
<1>2. /\ mcpGeneration' \in [McpGenerations -> McpGeneration]
      /\ mcpGeneration'[new].accepting
      /\ \A g \in McpGenerations :
           /\ mcpGeneration'[g].state = mcpGeneration[g].state
           /\ mcpGeneration'[g].late <=> mcpGeneration[g].late
           /\ g # new => (mcpGeneration'[g].accepting <=> mcpGeneration[g].accepting
                /\ g \notin old)
  <2>1. mcpGeneration' = [Mcp!Retired(old) EXCEPT ![new].accepting = TRUE]
    BY DEF Mcp!Connected
  <2>2. /\ Mcp!Retired(old) \in [McpGenerations -> McpGeneration]
        /\ \A g \in McpGenerations :
             /\ Mcp!Retired(old)[g].state = mcpGeneration[g].state
             /\ Mcp!Retired(old)[g].late <=> mcpGeneration[g].late
             /\ Mcp!Retired(old)[g].accepting <=> mcpGeneration[g].accepting /\ g \notin old
    BY <1>0, RetiredTyped DEF McpIInv
  <2> HIDE DEF old, new
  <2> QED
    BY <1>0, <2>1, <2>2 DEF McpGeneration
<1>3. mcpClosed' \in BOOLEAN
  BY <1>0, McpAssumption DEF McpIInv, McpTyped, Mcp!Connected
<1>4. Retires(old)
  BY <1>0, RetiringTyped DEF Mcp!Connected
<1>5. mcpCall' \in [McpCalls -> McpCall]
  BY DEF McpIInv, McpTyped, Mcp!Connected
<1>6. /\ mcpServers'[mcpLifecycle.server].generation = new
           /\ mcpServers'[mcpLifecycle.server].status = "connected"
      /\ \A s \in McpServers : s # mcpLifecycle.server => mcpServers'[s] = mcpServers[s]
      /\ \A g \in McpGenerations : g \in old <=> g = mcpServers[mcpLifecycle.server].generation
      /\ new \notin old /\ None \notin old
  BY McpAssumption DEF Mcp!Connected, McpIInv, McpTyped, McpServer, InHand
<1>7. mcpClosed' = mcpClosed /\ mcpCall' = mcpCall /\ ~mcpClosed
  BY <1>0 DEF Mcp!Connected, McpIInv, InHand
<1> HIDE DEF old, new
<1>8. \A g \in McpGenerations : g # None
  BY McpAssumption
<1>9. mcpGeneration[new].state = "open" /\ \A s \in McpServers : mcpServers[s].generation # new
  BY <1>0 DEF McpIInv, InHand, new
<1>10. InHand'
  BY <1>0, <1>2, <1>4, <1>6, <1>8 DEF McpIInv, InHand, Mcp!ServedIsOpen, Retires
<1>11. AcceptingIsOpen'
  BY <1>2, <1>9 DEF McpIInv, AcceptingIsOpen
<1>12. RunningIsPublished'
  BY <1>4, <1>7, <1>8 DEF McpIInv, RunningIsPublished, Retires
<1>13. Mcp!OpenIsOwned'
  <2> SUFFICES ASSUME NEW g \in McpGenerations, mcpGeneration'[g].state = "open"
               PROVE  \/ \E s \in McpServers : mcpServers'[s].generation = g
                      \/ mcpLifecycle'.opened = g \/ g \in mcpLifecycle'.retired
    BY DEF Mcp!OpenIsOwned
  <2>1. CASE g = new
    BY <1>0, <1>6, <2>1
  <2>2. CASE g \in old
    BY <1>4, <2>2 DEF Retires
  <2>3. CASE g # new /\ g \notin old
    <3>1. mcpLifecycle.retired = {} /\ g # mcpLifecycle.opened
      BY <1>0, <2>3 DEF McpIInv, InHand, new
    <3>2. \E s \in McpServers : mcpServers[s].generation = g
      BY <1>2, <3>1 DEF McpIInv, Mcp!OpenIsOwned
    <3> QED
      BY <1>6, <2>3, <3>2
  <2> QED
    BY <2>1, <2>2, <2>3
<1>14. Mcp!ServedIsOpen'
  <2> SUFFICES ASSUME NEW s \in McpServers, mcpServers'[s].generation # None
               PROVE  /\ mcpServers'[s].status = "connected" /\ ~mcpClosed'
                      /\ mcpGeneration'[mcpServers'[s].generation].state = "open"
                      /\ mcpGeneration'[mcpServers'[s].generation].accepting
                      /\ \A t \in McpServers :
                           mcpServers'[t].generation = mcpServers'[s].generation => t = s
    BY DEF Mcp!ServedIsOpen
  <2>1. CASE s = mcpLifecycle.server
    BY <1>0, <1>2, <1>6, <1>7, <1>9, <2>1
  <2>2. CASE s # mcpLifecycle.server
    <3> DEFINE g == mcpServers[s].generation
    <3>1. mcpServers'[s] = mcpServers[s] /\ g # None /\ g # new
      BY <1>6, <1>9, <2>2
    <3>2. g \in McpGenerations
      BY <3>1 DEF McpIInv, McpTyped, McpServer
    <3>3. /\ mcpServers[s].status = "connected" /\ mcpGeneration[g].state = "open"
               /\ mcpGeneration[g].accepting
          /\ \A t \in McpServers : mcpServers[t].generation = g => t = s
      BY <3>1 DEF McpIInv, Mcp!ServedIsOpen
    <3>4. g \notin old
      BY <1>0, <1>6, <2>2, <3>2, <3>3
    <3> HIDE DEF g
    <3>5. mcpServers'[s].generation = g
      BY <3>1 DEF g
    <3> QED
      BY <1>2, <1>6, <1>7, <3>1, <3>2, <3>3, <3>4, <3>5
  <2> QED
    BY <2>1, <2>2
<1>15. Mcp!CallKeepsConnection'
  BY <1>2, <1>7 DEF McpIInv, RunningIsPublished, Mcp!CallKeepsConnection
<1> QED
  BY <1>1, <1>2, <1>3, <1>4, <1>5, <1>10, <1>11, <1>12, <1>13, <1>14, <1>15 DEF McpIInv,
     McpTyped, Retires

(* A connection that serves nobody is in hand. *)
LEMMA DisconnectMcp ==
  ASSUME McpIInv, NEW s \in McpServers, Mcp!Disconnect(s)
  PROVE  McpIInv'
<1> DEFINE old == {mcpServers[s].generation} \ {None}
<1>0. old \in SUBSET McpGenerations
  BY McpAssumption DEF McpIInv, McpTyped, McpServer
<1>1. mcpServers' \in [McpServers -> McpServer]
  BY DEF McpIInv, McpTyped, McpServer, Mcp!Disconnect
<1>2. /\ mcpGeneration' \in [McpGenerations -> McpGeneration]
      /\ \A g \in McpGenerations :
           /\ mcpGeneration'[g].state = mcpGeneration[g].state
           /\ mcpGeneration'[g].late <=> mcpGeneration[g].late
           /\ mcpGeneration'[g].accepting <=> mcpGeneration[g].accepting /\ g \notin old
  BY <1>0, RetiredTyped DEF Mcp!Disconnect, McpIInv
<1>3. mcpClosed' \in BOOLEAN
  BY <1>0, McpAssumption DEF McpIInv, McpTyped, Mcp!Disconnect
<1>4. Retires(old)
  BY <1>0, RetiringTyped DEF Mcp!Disconnect
<1>5. mcpCall' \in [McpCalls -> McpCall]
  BY DEF McpIInv, McpTyped, Mcp!Disconnect
<1>6. /\ mcpServers'[s].generation = None
      /\ \A t \in McpServers : t # s => mcpServers'[t] = mcpServers[t]
      /\ \A g \in McpGenerations : g \in old <=> g = mcpServers[s].generation
      /\ None \notin old
  BY McpAssumption DEF Mcp!Disconnect, McpIInv, McpTyped
<1>7. mcpClosed' = mcpClosed /\ mcpCall' = mcpCall /\ mcpLifecycle.op = "none"
        /\ mcpLifecycle.opened = None /\ mcpLifecycle.retired = {}
  BY DEF Mcp!Disconnect, Mcp!Free
<1> HIDE DEF old
<1>8. \A g \in McpGenerations : g # None
  BY McpAssumption
<1>10. InHand'
  BY <1>2, <1>4, <1>6, <1>8 DEF McpIInv, InHand, Mcp!ServedIsOpen, Retires
<1>11. AcceptingIsOpen'
  BY <1>2 DEF McpIInv, AcceptingIsOpen
<1>12. RunningIsPublished'
  BY <1>4, <1>7 DEF McpIInv, RunningIsPublished, Retires
<1>13. Mcp!OpenIsOwned'
  BY <1>2, <1>4, <1>6, <1>7 DEF McpIInv, Mcp!OpenIsOwned, Retires
<1>14. Mcp!ServedIsOpen'
  <2> SUFFICES ASSUME NEW t \in McpServers, mcpServers'[t].generation # None
               PROVE  /\ mcpServers'[t].status = "connected" /\ ~mcpClosed'
                      /\ mcpGeneration'[mcpServers'[t].generation].state = "open"
                      /\ mcpGeneration'[mcpServers'[t].generation].accepting
                      /\ \A u \in McpServers :
                           mcpServers'[u].generation = mcpServers'[t].generation => u = t
    BY DEF Mcp!ServedIsOpen
  <2> DEFINE g == mcpServers[t].generation
  <2>1. t # s /\ mcpServers'[t] = mcpServers[t] /\ g # None
    BY <1>6
  <2>2. g \in McpGenerations
    BY <2>1 DEF McpIInv, McpTyped, McpServer
  <2>3. /\ mcpServers[t].status = "connected" /\ ~mcpClosed
        /\ mcpGeneration[g].state = "open" /\ mcpGeneration[g].accepting
        /\ \A u \in McpServers : mcpServers[u].generation = g => u = t
    BY <2>1 DEF McpIInv, Mcp!ServedIsOpen
  <2>4. g \notin old
    BY <1>0, <1>6, <2>1, <2>2, <2>3
  <2>5. mcpServers'[t].generation = g
    BY <2>1
  <2> HIDE DEF g
  <2> QED
    BY <1>2, <1>6, <1>7, <2>2, <2>3, <2>5
<1>15. Mcp!CallKeepsConnection'
  BY <1>2, <1>7 DEF McpIInv, RunningIsPublished, Mcp!CallKeepsConnection
<1> QED
  BY <1>1, <1>2, <1>3, <1>4, <1>5, <1>10, <1>11, <1>12, <1>13, <1>14, <1>15 DEF McpIInv,
     McpTyped, Retires

(* All connections are in hand. *)
LEMMA CloseContextMcp ==
  ASSUME McpIInv, Mcp!CloseContext
  PROVE  McpIInv'
<1> DEFINE old == {mcpServers[s].generation : s \in McpServers} \ {None}
<1>0. old \in SUBSET McpGenerations
  BY McpAssumption DEF McpIInv, McpTyped, McpServer
<1>1. mcpServers' \in [McpServers -> McpServer]
  BY DEF McpServer, Mcp!CloseContext
<1>2. /\ mcpGeneration' \in [McpGenerations -> McpGeneration]
      /\ \A g \in McpGenerations :
           /\ mcpGeneration'[g].state = mcpGeneration[g].state
           /\ mcpGeneration'[g].late <=> mcpGeneration[g].late
           /\ mcpGeneration'[g].accepting <=> mcpGeneration[g].accepting /\ g \notin old
  BY <1>0, RetiredTyped DEF Mcp!CloseContext, McpIInv
<1>3. mcpClosed' \in BOOLEAN
  BY <1>0, McpAssumption DEF McpIInv, McpTyped, Mcp!CloseContext
<1>4. Retires(old)
  BY <1>0, RetiringTyped DEF Mcp!CloseContext
<1>5. mcpCall' \in [McpCalls -> McpCall]
  BY DEF McpIInv, McpTyped, Mcp!CloseContext
<1>6. /\ \A t \in McpServers : mcpServers'[t].generation = None
      /\ \A g \in McpGenerations : g \in old
           <=> \E s \in McpServers : g = mcpServers[s].generation
      /\ None \notin old
  BY McpAssumption DEF Mcp!CloseContext
<1>7. mcpClosed' = TRUE /\ mcpCall' = mcpCall /\ mcpLifecycle.op = "none"
        /\ mcpLifecycle.opened = None /\ mcpLifecycle.retired = {}
  BY DEF Mcp!CloseContext, Mcp!Free
<1> HIDE DEF old
<1>8. \A g \in McpGenerations : g # None
  BY McpAssumption
<1>10. InHand'
  BY <1>2, <1>4, <1>6, <1>8 DEF McpIInv, InHand, Mcp!ServedIsOpen, Retires
<1>11. AcceptingIsOpen'
  BY <1>2 DEF McpIInv, AcceptingIsOpen
<1>12. RunningIsPublished'
  BY <1>4, <1>7 DEF McpIInv, RunningIsPublished, Retires
<1>13. Mcp!OpenIsOwned'
  BY <1>2, <1>4, <1>6, <1>7 DEF McpIInv, Mcp!OpenIsOwned, Retires
<1>14. Mcp!ServedIsOpen'
  BY <1>6 DEF Mcp!ServedIsOpen
<1>15. Mcp!CallKeepsConnection'
  BY <1>2, <1>7 DEF McpIInv, RunningIsPublished, Mcp!CallKeepsConnection
<1> QED
  BY <1>1, <1>2, <1>3, <1>4, <1>5, <1>10, <1>11, <1>12, <1>13, <1>14, <1>15 DEF McpIInv,
     McpTyped, Retires

(* The deadline closes no connection. *)
LEMMA DeadlinePassesMcp ==
  ASSUME McpIInv, Mcp!DeadlinePasses
  PROVE  McpIInv'
<1>1. mcpServers' \in [McpServers -> McpServer]
  BY DEF McpIInv, McpTyped, Mcp!DeadlinePasses
<1>2. mcpGeneration' \in [McpGenerations -> McpGeneration]
  BY McpAssumption DEF McpIInv, McpTyped, McpGeneration, Mcp!DeadlinePasses
<1>3. mcpClosed' \in BOOLEAN
  BY McpAssumption DEF McpIInv, McpTyped, Mcp!DeadlinePasses
<1>4. mcpLifecycle' \in McpLifecycle
  BY McpAssumption DEF McpIInv, McpTyped, McpLifecycle, Mcp!DeadlinePasses
<1>5. mcpCall' \in [McpCalls -> McpCall]
  BY McpAssumption DEF McpIInv, McpTyped, McpCall, Mcp!DeadlinePasses
<1>6. InHand'
  BY DEF McpIInv, InHand, Mcp!DeadlinePasses
<1>7. AcceptingIsOpen'
  BY DEF McpIInv, AcceptingIsOpen, Mcp!DeadlinePasses
<1>8. RunningIsPublished'
  BY DEF McpIInv, RunningIsPublished, Mcp!DeadlinePasses
<1>9. Mcp!OpenIsOwned'
  BY DEF McpIInv, Mcp!OpenIsOwned, Mcp!DeadlinePasses
<1>10. Mcp!ServedIsOpen'
  BY DEF McpIInv, Mcp!ServedIsOpen, Mcp!DeadlinePasses
<1>11. Mcp!CallKeepsConnection'
  BY DEF McpIInv, Mcp!CallKeepsConnection, Mcp!DeadlinePasses
<1> QED
  BY <1>1, <1>2, <1>3, <1>4, <1>5, <1>6, <1>7, <1>8, <1>9, <1>10, <1>11 DEF McpIInv,
     McpTyped

(* A connection with a call is closed only after the deadline. *)
LEMMA RetireMcp ==
  ASSUME McpIInv, NEW g \in McpGenerations, Mcp!retire(g)
  PROVE  McpIInv'
<1>1. mcpServers' \in [McpServers -> McpServer]
  BY DEF McpIInv, McpTyped, Mcp!retire
<1>2. mcpGeneration' \in [McpGenerations -> McpGeneration]
  <2> DEFINE b == mcpLifecycle.expired
  <2>1. mcpGeneration' = [mcpGeneration EXCEPT ![g].state = "closed", ![g].late = b]
          /\ b \in BOOLEAN
    BY DEF Mcp!retire, McpIInv, McpTyped, McpLifecycle
  <2> HIDE DEF b
  <2> QED
    BY <2>1 DEF McpIInv, McpTyped, McpGeneration
<1>3. mcpClosed' \in BOOLEAN
  BY DEF McpIInv, McpTyped, Mcp!retire
<1>4. mcpLifecycle' \in McpLifecycle
  BY DEF McpIInv, McpTyped, McpLifecycle, Mcp!retire, Mcp!Free
<1>5. mcpCall' \in [McpCalls -> McpCall]
  BY DEF McpIInv, McpTyped, Mcp!retire
<1>6. InHand'
  BY McpAssumption DEF McpIInv, McpTyped, InHand, Mcp!retire, Mcp!Free
<1>7. AcceptingIsOpen'
  BY DEF McpIInv, McpTyped, InHand, AcceptingIsOpen, Mcp!retire
<1>8. RunningIsPublished'
  BY DEF McpIInv, InHand, RunningIsPublished, Mcp!retire, Mcp!Free
<1>9. Mcp!OpenIsOwned'
  BY DEF McpIInv, McpTyped, InHand, Mcp!OpenIsOwned, Mcp!retire, Mcp!Free
<1>10. Mcp!ServedIsOpen'
  BY DEF McpIInv, McpTyped, McpServer, InHand, Mcp!ServedIsOpen, Mcp!retire
<1>11. Mcp!CallKeepsConnection'
  BY DEF McpIInv, McpTyped, RunningIsPublished, Mcp!CallKeepsConnection, Mcp!retire, Mcp!Running
<1> QED
  BY <1>1, <1>2, <1>3, <1>4, <1>5, <1>6, <1>7, <1>8, <1>9, <1>10, <1>11 DEF McpIInv,
     McpTyped

(* A call begins only where calls are accepted. *)
LEMMA CallToolMcp ==
  ASSUME McpIInv, NEW c \in McpCalls, NEW g \in McpGenerations, Mcp!callTool(c, g)
  PROVE  McpIInv'
<1>1. mcpServers' \in [McpServers -> McpServer]
  BY DEF McpIInv, McpTyped, Mcp!callTool
<1>2. mcpGeneration' \in [McpGenerations -> McpGeneration]
  BY McpAssumption DEF McpIInv, McpTyped, McpGeneration, Mcp!callTool
<1>3. mcpClosed' \in BOOLEAN
  BY McpAssumption DEF McpIInv, McpTyped, Mcp!callTool
<1>4. mcpLifecycle' \in McpLifecycle
  BY McpAssumption DEF McpIInv, McpTyped, McpLifecycle, Mcp!callTool
<1>5. mcpCall' \in [McpCalls -> McpCall]
  <2> DEFINE a == IF mcpGeneration[g].accepting THEN "running" ELSE "returned"
  <2>1. mcpCall' = [mcpCall EXCEPT ![c].at = a, ![c].generation = g]
          /\ a \in {"running", "returned"}
    BY DEF Mcp!callTool
  <2> HIDE DEF a
  <2> QED
    BY <2>1 DEF McpIInv, McpTyped, McpCall
<1>6. InHand'
  BY DEF McpIInv, InHand, Mcp!callTool
<1>7. AcceptingIsOpen'
  BY DEF McpIInv, AcceptingIsOpen, Mcp!callTool
<1>8. RunningIsPublished'
  BY DEF McpIInv, McpTyped, RunningIsPublished, Mcp!callTool
<1>9. Mcp!OpenIsOwned'
  BY DEF McpIInv, Mcp!OpenIsOwned, Mcp!callTool
<1>10. Mcp!ServedIsOpen'
  BY DEF McpIInv, Mcp!ServedIsOpen, Mcp!callTool
<1>11. Mcp!CallKeepsConnection'
  BY DEF McpIInv, McpTyped, AcceptingIsOpen, Mcp!CallKeepsConnection, Mcp!callTool
<1> QED
  BY <1>1, <1>2, <1>3, <1>4, <1>5, <1>6, <1>7, <1>8, <1>9, <1>10, <1>11 DEF McpIInv,
     McpTyped

(* A call that has returned needs no connection. *)
LEMMA CallReturnsMcp ==
  ASSUME McpIInv, NEW c \in McpCalls, Mcp!CallReturns(c)
  PROVE  McpIInv'
<1>1. mcpServers' \in [McpServers -> McpServer]
  BY DEF McpIInv, McpTyped, Mcp!CallReturns
<1>2. mcpGeneration' \in [McpGenerations -> McpGeneration]
  BY McpAssumption DEF McpIInv, McpTyped, McpGeneration, Mcp!CallReturns
<1>3. mcpClosed' \in BOOLEAN
  BY McpAssumption DEF McpIInv, McpTyped, Mcp!CallReturns
<1>4. mcpLifecycle' \in McpLifecycle
  BY McpAssumption DEF McpIInv, McpTyped, McpLifecycle, Mcp!CallReturns
<1>5. mcpCall' \in [McpCalls -> McpCall]
  BY McpAssumption DEF McpIInv, McpTyped, McpCall, Mcp!CallReturns
<1>6. InHand'
  BY DEF McpIInv, InHand, Mcp!CallReturns
<1>7. AcceptingIsOpen'
  BY DEF McpIInv, AcceptingIsOpen, Mcp!CallReturns
<1>8. RunningIsPublished'
  BY DEF McpIInv, RunningIsPublished, Mcp!CallReturns
<1>9. Mcp!OpenIsOwned'
  BY DEF McpIInv, Mcp!OpenIsOwned, Mcp!CallReturns
<1>10. Mcp!ServedIsOpen'
  BY DEF McpIInv, Mcp!ServedIsOpen, Mcp!CallReturns
<1>11. Mcp!CallKeepsConnection'
  BY DEF McpIInv, Mcp!CallKeepsConnection, Mcp!CallReturns
<1> QED
  BY <1>1, <1>2, <1>3, <1>4, <1>5, <1>6, <1>7, <1>8, <1>9, <1>10, <1>11 DEF McpIInv,
     McpTyped

(* A manager starts without connections.                                   *)
LEMMA McpInit ==
  ASSUME Mcp!Init
  PROVE  McpIInv
<1>1. McpTyped
  BY DEF Mcp!Init, McpTyped, McpServer, McpGeneration, McpLifecycle, McpCall, Mcp!Free,
     Mcp!Unopened
<1>2. /\ \A g \in McpGenerations : mcpGeneration[g].state = "unopened"
           /\ ~mcpGeneration[g].accepting /\ ~mcpGeneration[g].late
      /\ \A s \in McpServers : mcpServers[s].generation = None
      /\ \A c \in McpCalls : mcpCall[c].at = "idle"
      /\ mcpLifecycle.op = "none" /\ mcpLifecycle.opened = None /\ mcpLifecycle.retired = {}
  BY DEF Mcp!Init, Mcp!Unopened, Mcp!Free
<1>3. \A g \in McpGenerations : g # None
  BY McpAssumption
<1> QED
  BY <1>1, <1>2, <1>3 DEF McpIInv, InHand, AcceptingIsOpen, RunningIsPublished, Mcp!OpenIsOwned,
     Mcp!ServedIsOpen, Mcp!CallKeepsConnection

(* Every step of the connections keeps the invariant.                      *)
LEMMA McpStep ==
  ASSUME McpIInv, [Mcp!Next]_mcpVars
  PROVE  McpIInv'
<1>1. CASE Mcp!Next
  BY <1>1, ConnectMcp, DisconnectMcp, OpenMcp, ListPageMcp, ConnectFailsMcp, ConnectedMcp,
     CloseContextMcp, DeadlinePassesMcp, RetireMcp, CallToolMcp, CallReturnsMcp DEF Mcp!Next
<1>2. CASE UNCHANGED mcpVars
  BY <1>2 DEF mcpVars, McpIInv, McpTyped, InHand, AcceptingIsOpen, RunningIsPublished,
     Mcp!OpenIsOwned, Mcp!ServedIsOpen, Mcp!CallKeepsConnection
<1> QED
  BY <1>1, <1>2

(* The invariant has the parts of ConnectionsAreOwned.                     *)
LEMMA McpSafe ==
  ASSUME McpIInv
  PROVE  Mcp!ConnectionsAreOwned
BY DEF McpIInv, Mcp!ConnectionsAreOwned

-----------------------------------------------------------------------------
(* AgentSession.  A generation that is not released is the session's, or   *)
(* in the hands of one caller.                                             *)

SessionRecord ==
  [closed : BOOLEAN, replacing : BOOLEAN, plugins : BOOLEAN,
   generation : SessionGenerations \cup {None}, cleanups : {"installed", "taken", "done"},
   closeDone : BOOLEAN]

SessionCaller ==
  [at : {"idle", "run waits", "activates", "runs", "stages", "staged", "releases",
         "close waits", "waits for close", "closes"},
   generation : SessionGenerations \cup {None}]

(* The values of the state.                                                *)
SessionTyped ==
  /\ agsSession \in SessionRecord
  /\ agsRunMu \in SessionCallers \cup {None}
  /\ agsCaller \in [SessionCallers -> SessionCaller]
  /\ Session!Activated \subseteq SessionGenerations
  /\ agsReleased \in [Session!Activated -> {0, 1}]
  /\ agsSession.generation \in Session!Activated \cup {None}
  /\ \A c \in SessionCallers : agsCaller[c].generation \in Session!Activated \cup {None}

(* runMu is held by the caller that runs, swaps or closes, and by no other. *)
RunMuIsHeld ==
  \A c \in SessionCallers :
    agsRunMu = c <=> agsCaller[c].at \in {"activates", "runs", "releases", "closes"}

(* One caller at a time is replacing the plugins, of a session not closed. *)
Replacing(c) == agsCaller[c].at \in {"activates", "stages", "staged"}
OneReplaces ==
  /\ \A c \in SessionCallers : Replacing(c) => agsSession.replacing
       /\ \A d \in SessionCallers : Replacing(d) => d = c
  /\ agsSession.closed => ~agsSession.replacing

(* One caller closes the session, which is closed by it. *)
Closing(c) == agsCaller[c].at \in {"close waits", "closes"}
OneCloses ==
  /\ \A c \in SessionCallers : Closing(c) => agsSession.closed /\ ~agsSession.closeDone
       /\ \A d \in SessionCallers : Closing(d) => d = c
  /\ agsSession.closeDone => agsSession.closed /\ agsSession.generation = None
       /\ agsRunMu = None

(* A run has the generation of the session, a replacement or a close its own. *)
InHands(c, g) == agsCaller[c].generation = g /\ agsCaller[c].at # "runs"
HandsAreRight ==
  \A c \in SessionCallers :
    /\ agsCaller[c].at = "runs" => agsCaller[c].generation = agsSession.generation
    /\ agsCaller[c].at \in {"activates", "closes"} => agsSession.generation = None
    /\ agsCaller[c].at \notin {"runs", "staged", "releases", "closes"}
         => agsCaller[c].generation = None

(* A generation that is not cleaned up has one owner, one that is has none. *)
OneOwns ==
  \A g \in Session!Activated :
    /\ agsReleased[g] = 0 => agsSession.generation = g \/ \E c \in SessionCallers : InHands(c,
         g)
    /\ agsSession.generation = g => agsReleased[g] = 0
    /\ \A c \in SessionCallers : InHands(c, g) =>
         agsReleased[g] = 0 /\ agsSession.generation # g
           /\ \A d \in SessionCallers : InHands(d, g) => d = c

(* The inductive invariant of a session and its generations.               *)
SessionIInv ==
  /\ SessionTyped /\ RunMuIsHeld /\ OneReplaces /\ OneCloses /\ HandsAreRight /\ OneOwns

(* A callback that has not timed out is that of a run, which waits for it.  *)
CallbacksInTime ==
  /\ agsObserving \subseteq [generation : SessionGenerations, late : BOOLEAN]
  /\ \A f \in agsObserving : ~f.late =>
       \E c \in SessionCallers : agsCaller[c].at = "runs" /\ agsCaller[c].generation = f.generation

(* One caller goes to a place with a generation, the others stay.          *)
SessionMoved(c, at, g) ==
  /\ agsCaller' \in [SessionCallers -> SessionCaller]
  /\ agsCaller'[c].at = at /\ agsCaller'[c].generation = g
  /\ \A d \in SessionCallers : d # c => agsCaller'[d] = agsCaller[d]

(* What a caller that becomes w has done.                                  *)
LEMMA SessionMoves ==
  ASSUME SessionTyped, NEW c \in SessionCallers, NEW w \in SessionCaller,
         agsCaller' = [agsCaller EXCEPT ![c] = w]
  PROVE  SessionMoved(c, w.at, w.generation)
BY DEF SessionTyped, SessionMoved

(* Go moves one caller.                                                    *)
LEMMA SessionGoes ==
  ASSUME SessionTyped, NEW c \in SessionCallers, NEW g \in SessionGenerations \cup {None},
         NEW at \in {"idle", "run waits", "activates", "runs", "stages", "staged", "releases",
                     "close waits", "waits for close", "closes"},
         Session!Go(c, at, g)
  PROVE  SessionMoved(c, at, g)
<1> DEFINE w == [at |-> at, generation |-> g]
<1>1. w \in SessionCaller /\ w.at = at /\ w.generation = g
  BY DEF SessionCaller
<1>2. agsCaller' = [agsCaller EXCEPT ![c] = w]
  BY DEF Session!Go
<1> HIDE DEF w
<1> QED
  BY <1>1, <1>2, SessionMoves

(* A caller that is done has nothing in hand.                              *)
LEMMA SessionIdles ==
  ASSUME SessionTyped, NEW c \in SessionCallers,
         agsCaller' = [agsCaller EXCEPT ![c] = Session!Idle]
  PROVE  SessionMoved(c, "idle", None)
<1>1. Session!Idle \in SessionCaller /\ Session!Idle.at = "idle"
        /\ Session!Idle.generation = None
  BY DEF Session!Idle, SessionCaller
<1> QED
  BY <1>1, SessionMoves

(* A step that changes no hand and no cleanup keeps every owner.           *)
LEMMA OwnersKept ==
  ASSUME SessionIInv, Session!Activated' = Session!Activated,
         agsSession'.generation = agsSession.generation,
         \A h \in Session!Activated : agsReleased'[h] = agsReleased[h],
         \A d \in SessionCallers, h \in Session!Activated : InHands(d, h)' <=> InHands(d, h)
  PROVE  OneOwns'
<1> SUFFICES ASSUME NEW g \in Session!Activated
             PROVE  /\ agsReleased'[g] = 0 => agsSession'.generation = g
                         \/ \E c \in SessionCallers : InHands(c, g)'
                    /\ agsSession'.generation = g => agsReleased'[g] = 0
                    /\ \A c \in SessionCallers : InHands(c, g)' =>
                         agsReleased'[g] = 0 /\ agsSession'.generation # g
                           /\ \A d \in SessionCallers : InHands(d, g)' => d = c
  BY DEF OneOwns
<1> QED
  BY DEF SessionIInv, OneOwns

(* A run waits for runMu: Run.                                             *)
LEMMA RunWaitsSession ==
  ASSUME SessionIInv, NEW c \in SessionCallers, Session!RunWaits(c)
  PROVE  SessionIInv'
<1>2. agsCaller[c].at = "idle" /\ agsCaller[c].generation = None
        /\ None \notin Session!Activated
  BY SessionAssumption DEF SessionIInv, SessionTyped, HandsAreRight, Session!RunWaits
<1>3. SessionMoved(c, "run waits", None)
  BY SessionGoes DEF SessionIInv, SessionTyped, SessionRecord, SessionCaller, Session!RunWaits
<1>4. /\ agsSession' \in SessionRecord
      /\ agsSession'.closed <=> agsSession.closed
      /\ agsSession'.replacing <=> agsSession.replacing
      /\ agsSession'.closeDone <=> agsSession.closeDone
  BY DEF SessionIInv, SessionTyped, SessionRecord, SessionCaller, Session!RunWaits
<1>5. agsSession'.generation = agsSession.generation /\ agsRunMu' = agsRunMu
  BY DEF SessionIInv, SessionTyped, SessionRecord, SessionCaller, Session!RunWaits
<1>6. /\ agsReleased' \in [Session!Activated' -> {0, 1}]
      /\ Session!Activated' = Session!Activated
      /\ \A h \in Session!Activated : agsReleased'[h] = agsReleased[h]
  BY DEF SessionIInv, SessionTyped, Session!Activated, Session!RunWaits
<1>7. SessionTyped'
  BY <1>3, <1>4, <1>5, <1>6 DEF SessionIInv, SessionTyped, SessionMoved
<1>8. RunMuIsHeld'
  BY <1>2, <1>3, <1>5, SessionAssumption DEF SessionIInv, SessionTyped, SessionCaller,
     RunMuIsHeld, SessionMoved
<1>9. OneReplaces'
  BY <1>2, <1>3, <1>4, SessionAssumption DEF SessionIInv, OneReplaces, Replacing, SessionMoved
<1>10. OneCloses'
  BY <1>2, <1>3, <1>4, <1>5, SessionAssumption DEF SessionIInv, OneCloses, Closing, SessionMoved
<1>11. HandsAreRight'
  BY <1>2, <1>3, <1>5, SessionAssumption DEF SessionIInv, HandsAreRight, SessionMoved
<1>12. OneOwns'
  <2>1. \A d \in SessionCallers, h \in Session!Activated : InHands(d, h)' <=> InHands(d, h)
    BY <1>2, <1>3, <1>5 DEF InHands, SessionMoved
  <2> QED
    BY <2>1, <1>5, <1>6, OwnersKept
<1> QED
  BY <1>7, <1>8, <1>9, <1>10, <1>11, <1>12 DEF SessionIInv

(* A run that has runMu takes the generation of the session, or what is to *)
(* be activated: Run.                                                      *)
LEMMA StartRunSession ==
  ASSUME SessionIInv, NEW c \in SessionCallers, Session!StartRun(c)
  PROVE  SessionIInv'
<1>1. CASE agsCaller' = [agsCaller EXCEPT ![c] = Session!Idle] /\ UNCHANGED <<agsSession,
             agsRunMu>>
  <2>2. agsCaller[c].at = "run waits" /\ agsCaller[c].generation = None
          /\ None \notin Session!Activated
    BY SessionAssumption DEF SessionIInv, SessionTyped, HandsAreRight, Session!StartRun
  <2>3. SessionMoved(c, "idle", None)
    BY <1>1, SessionIdles DEF SessionIInv, SessionTyped, SessionRecord
  <2>4. /\ agsSession' \in SessionRecord
        /\ agsSession'.closed <=> agsSession.closed
        /\ agsSession'.replacing <=> agsSession.replacing
        /\ agsSession'.closeDone <=> agsSession.closeDone
    BY <1>1 DEF SessionIInv, SessionTyped, SessionRecord, SessionCaller
  <2>5. agsSession'.generation = agsSession.generation /\ agsRunMu' = agsRunMu
    BY <1>1 DEF SessionIInv, SessionTyped, SessionRecord, SessionCaller, Session!StartRun
  <2>6. /\ agsReleased' \in [Session!Activated' -> {0, 1}]
        /\ Session!Activated' = Session!Activated
        /\ \A h \in Session!Activated : agsReleased'[h] = agsReleased[h]
    BY DEF SessionIInv, SessionTyped, Session!Activated, Session!StartRun
  <2>7. SessionTyped'
    BY <2>3, <2>4, <2>5, <2>6 DEF SessionIInv, SessionTyped, SessionMoved
  <2>8. RunMuIsHeld'
    BY <2>2, <2>3, <2>5, SessionAssumption DEF SessionIInv, SessionTyped, SessionCaller,
       RunMuIsHeld, SessionMoved
  <2>9. OneReplaces'
    BY <2>2, <2>3, <2>4, SessionAssumption DEF SessionIInv, OneReplaces, Replacing, SessionMoved
  <2>10. OneCloses'
    BY <2>2, <2>3, <2>4, <2>5, SessionAssumption DEF SessionIInv, OneCloses, Closing,
       SessionMoved
  <2>11. HandsAreRight'
    BY <2>2, <2>3, <2>5, SessionAssumption DEF SessionIInv, HandsAreRight, SessionMoved
  <2>12. OneOwns'
    <3>1. \A d \in SessionCallers, h \in Session!Activated : InHands(d, h)' <=> InHands(d, h)
      BY <2>2, <2>3, <2>5 DEF InHands, SessionMoved
    <3> QED
      BY <3>1, <2>5, <2>6, OwnersKept
  <2> QED
    BY <2>7, <2>8, <2>9, <2>10, <2>11, <2>12 DEF SessionIInv
<1>2. CASE /\ ~agsSession.closed
           /\ agsSession.generation = None /\ agsSession.plugins
           /\ ~agsSession.replacing
           /\ agsSession' = [agsSession EXCEPT !.replacing = TRUE]
           /\ agsRunMu' = c
           /\ Session!Go(c, "activates", None)
  <2>2. agsCaller[c].at = "run waits" /\ agsCaller[c].generation = None
          /\ None \notin Session!Activated /\ agsRunMu = None
    BY SessionAssumption DEF SessionIInv, SessionTyped, HandsAreRight, Session!StartRun
  <2>3. SessionMoved(c, "activates", None)
    BY <1>2, SessionGoes DEF SessionIInv, SessionTyped, SessionRecord
  <2>4. /\ agsSession' \in SessionRecord
        /\ ~agsSession.closed
        /\ ~agsSession.replacing
        /\ agsSession'.closed <=> agsSession.closed
        /\ agsSession'.replacing
        /\ agsSession'.closeDone <=> agsSession.closeDone
    BY <1>2 DEF SessionIInv, SessionTyped, SessionRecord, SessionCaller
  <2>5. agsSession.generation = None /\ agsSession'.generation = agsSession.generation
          /\ agsRunMu' = c
    BY <1>2 DEF SessionIInv, SessionTyped, SessionRecord, SessionCaller
  <2>6. /\ agsReleased' \in [Session!Activated' -> {0, 1}]
        /\ Session!Activated' = Session!Activated
        /\ \A h \in Session!Activated : agsReleased'[h] = agsReleased[h]
    BY DEF SessionIInv, SessionTyped, Session!Activated, Session!StartRun
  <2>7. SessionTyped'
    BY <2>3, <2>4, <2>5, <2>6 DEF SessionIInv, SessionTyped, SessionMoved
  <2>8. RunMuIsHeld'
    BY <2>2, <2>3, <2>5, SessionAssumption DEF SessionIInv, SessionTyped, SessionCaller,
       RunMuIsHeld, SessionMoved
  <2>9. OneReplaces'
    BY <2>2, <2>3, <2>4, SessionAssumption DEF SessionIInv, OneReplaces, Replacing, SessionMoved
  <2>10. OneCloses'
    BY <2>2, <2>3, <2>4, <2>5, SessionAssumption DEF SessionIInv, OneCloses, Closing,
       SessionMoved
  <2>11. HandsAreRight'
    BY <2>2, <2>3, <2>5, SessionAssumption DEF SessionIInv, HandsAreRight, SessionMoved
  <2>12. OneOwns'
    <3>1. \A d \in SessionCallers, h \in Session!Activated : InHands(d, h)' <=> InHands(d, h)
      BY <2>2, <2>3, <2>5 DEF InHands, SessionMoved
    <3> QED
      BY <3>1, <2>5, <2>6, OwnersKept
  <2> QED
    BY <2>7, <2>8, <2>9, <2>10, <2>11, <2>12 DEF SessionIInv
<1>3. CASE /\ ~agsSession.closed
           /\ agsRunMu' = c
           /\ Session!Go(c, "runs", agsSession.generation)
           /\ UNCHANGED agsSession
  <2>2. agsCaller[c].at = "run waits" /\ agsCaller[c].generation = None
          /\ None \notin Session!Activated /\ agsRunMu = None
    BY SessionAssumption DEF SessionIInv, SessionTyped, HandsAreRight, Session!StartRun
  <2>3. SessionMoved(c, "runs", agsSession.generation)
    BY <1>3, SessionGoes DEF SessionIInv, SessionTyped, SessionRecord
  <2>4. /\ agsSession' \in SessionRecord
        /\ ~agsSession.closed
        /\ agsSession'.closed <=> agsSession.closed
        /\ agsSession'.replacing <=> agsSession.replacing
        /\ agsSession'.closeDone <=> agsSession.closeDone
    BY <1>3 DEF SessionIInv, SessionTyped, SessionRecord, SessionCaller
  <2>5. agsSession'.generation = agsSession.generation /\ agsRunMu' = c
    BY <1>3 DEF SessionIInv, SessionTyped, SessionRecord, SessionCaller
  <2>6. /\ agsReleased' \in [Session!Activated' -> {0, 1}]
        /\ Session!Activated' = Session!Activated
        /\ \A h \in Session!Activated : agsReleased'[h] = agsReleased[h]
    BY DEF SessionIInv, SessionTyped, Session!Activated, Session!StartRun
  <2>7. SessionTyped'
    BY <2>3, <2>4, <2>5, <2>6 DEF SessionIInv, SessionTyped, SessionMoved
  <2>8. RunMuIsHeld'
    BY <2>2, <2>3, <2>5, SessionAssumption DEF SessionIInv, SessionTyped, SessionCaller,
       RunMuIsHeld, SessionMoved
  <2>9. OneReplaces'
    BY <2>2, <2>3, <2>4, SessionAssumption DEF SessionIInv, OneReplaces, Replacing, SessionMoved
  <2>10. OneCloses'
    BY <2>2, <2>3, <2>4, <2>5, SessionAssumption DEF SessionIInv, OneCloses, Closing,
       SessionMoved
  <2>11. HandsAreRight'
    BY <2>2, <2>3, <2>5, SessionAssumption DEF SessionIInv, HandsAreRight, SessionMoved
  <2>12. OneOwns'
    <3>1. \A d \in SessionCallers, h \in Session!Activated : InHands(d, h)' <=> InHands(d, h)
      BY <2>2, <2>3, <2>5 DEF InHands, SessionMoved, SessionIInv, HandsAreRight
    <3> QED
      BY <3>1, <2>5, <2>6, OwnersKept
  <2> QED
    BY <2>7, <2>8, <2>9, <2>10, <2>11, <2>12 DEF SessionIInv
<1> QED
  BY <1>1, <1>2, <1>3 DEF Session!StartRun

(* The run that activated the first generation installs it:                *)
(* activatePlugins.                                                        *)
LEMMA RunActivatesSession ==
  ASSUME SessionIInv, NEW c \in SessionCallers, Session!RunActivates(c)
  PROVE  SessionIInv'
<1>1. CASE /\ agsSession' = [agsSession EXCEPT !.replacing = FALSE]
           /\ agsCaller' = [agsCaller EXCEPT ![c] = Session!Idle]
           /\ agsRunMu' = None
           /\ UNCHANGED agsReleased
  <2>2. agsCaller[c].at = "activates" /\ agsCaller[c].generation = None
          /\ None \notin Session!Activated
    BY SessionAssumption DEF SessionIInv, SessionTyped, HandsAreRight, Session!RunActivates
  <2>3. SessionMoved(c, "idle", None)
    BY <1>1, SessionIdles DEF SessionIInv, SessionTyped, SessionRecord
  <2>4. /\ agsSession' \in SessionRecord
        /\ agsSession'.closed <=> agsSession.closed
        /\ ~agsSession'.replacing
        /\ agsSession'.closeDone <=> agsSession.closeDone
    BY <1>1 DEF SessionIInv, SessionTyped, SessionRecord, SessionCaller
  <2>5. agsSession'.generation = agsSession.generation /\ agsRunMu' = None
    BY <1>1 DEF SessionIInv, SessionTyped, SessionRecord, SessionCaller
  <2>6. /\ agsReleased' \in [Session!Activated' -> {0, 1}]
        /\ Session!Activated' = Session!Activated
        /\ \A h \in Session!Activated : agsReleased'[h] = agsReleased[h]
    BY <1>1 DEF SessionIInv, SessionTyped, Session!Activated, Session!RunActivates
  <2>7. SessionTyped'
    BY <2>3, <2>4, <2>5, <2>6 DEF SessionIInv, SessionTyped, SessionMoved
  <2>8. RunMuIsHeld'
    BY <2>2, <2>3, <2>5, SessionAssumption DEF SessionIInv, SessionTyped, SessionCaller,
       RunMuIsHeld, SessionMoved
  <2>9. OneReplaces'
    BY <2>2, <2>3, <2>4, SessionAssumption DEF SessionIInv, OneReplaces, Replacing, SessionMoved
  <2>10. OneCloses'
    BY <2>2, <2>3, <2>4, <2>5, SessionAssumption DEF SessionIInv, OneCloses, Closing,
       SessionMoved, OneReplaces, Replacing
  <2>11. HandsAreRight'
    BY <2>2, <2>3, <2>5, SessionAssumption DEF SessionIInv, HandsAreRight, SessionMoved,
       RunMuIsHeld
  <2>12. OneOwns'
    <3>1. \A d \in SessionCallers, h \in Session!Activated : InHands(d, h)' <=> InHands(d, h)
      BY <2>2, <2>3, <2>5 DEF InHands, SessionMoved
    <3> QED
      BY <3>1, <2>5, <2>6, OwnersKept
  <2> QED
    BY <2>7, <2>8, <2>9, <2>10, <2>11, <2>12 DEF SessionIInv
<1>2. CASE \E g \in SessionGenerations :
              /\ Session!ActivateAll(g)
              /\ agsSession' = [agsSession EXCEPT !.replacing = FALSE, !.generation = g]
              /\ Session!Go(c, "runs", g)
              /\ UNCHANGED agsRunMu
  <2>1. PICK g \in SessionGenerations :
             /\ Session!ActivateAll(g)
             /\ agsSession' = [agsSession EXCEPT !.replacing = FALSE, !.generation = g]
             /\ Session!Go(c, "runs", g)
             /\ UNCHANGED agsRunMu
    BY <1>2
  <2>2. agsCaller[c].at = "activates" /\ agsCaller[c].generation = None
          /\ None \notin Session!Activated
    BY SessionAssumption DEF SessionIInv, SessionTyped, HandsAreRight, Session!RunActivates
  <2>3. SessionMoved(c, "runs", g)
    BY <2>1, SessionGoes DEF SessionIInv, SessionTyped, SessionRecord
  <2>4. /\ agsSession' \in SessionRecord
        /\ agsSession'.closed <=> agsSession.closed
        /\ ~agsSession'.replacing
        /\ agsSession'.closeDone <=> agsSession.closeDone
    BY <2>1 DEF SessionIInv, SessionTyped, SessionRecord, SessionCaller
  <2>5. agsSession'.generation = g /\ agsRunMu' = agsRunMu
    BY <2>1 DEF SessionIInv, SessionTyped, SessionRecord, SessionCaller
  <2>6. /\ agsReleased' \in [Session!Activated' -> {0, 1}]
        /\ g \notin Session!Activated
        /\ Session!Activated' = Session!Activated \cup {g}
        /\ agsReleased'[g] = 0
        /\ \A h \in Session!Activated : h # g /\ agsReleased'[h] = agsReleased[h]
    BY <2>1 DEF SessionIInv, SessionTyped, Session!ActivateAll, Session!Activated
  <2>7. SessionTyped'
    BY <2>3, <2>4, <2>5, <2>6 DEF SessionIInv, SessionTyped, SessionMoved
  <2>8. RunMuIsHeld'
    BY <2>2, <2>3, <2>5, SessionAssumption DEF SessionIInv, SessionTyped, SessionCaller,
       RunMuIsHeld, SessionMoved
  <2>9. OneReplaces'
    BY <2>2, <2>3, <2>4, SessionAssumption DEF SessionIInv, OneReplaces, Replacing, SessionMoved
  <2>10. OneCloses'
    BY <2>2, <2>3, <2>4, <2>5, SessionAssumption DEF SessionIInv, OneCloses, Closing,
       SessionMoved, OneReplaces, Replacing
  <2>11. HandsAreRight'
    BY <2>2, <2>3, <2>5, SessionAssumption DEF SessionIInv, HandsAreRight, SessionMoved,
       RunMuIsHeld
  <2>12. OneOwns'
    <3>1. \A d \in SessionCallers, h \in Session!Activated : InHands(d, h)' <=> InHands(d, h)
      BY <2>2, <2>3 DEF InHands, SessionMoved
    <3>2. agsSession.generation = None /\ agsSession.generation \notin Session!Activated
      BY <2>2 DEF SessionIInv, HandsAreRight
    <3>3. \A d \in SessionCallers : ~InHands(d, g)'
      BY <2>2, <2>3, <2>6, SessionAssumption DEF SessionIInv, SessionTyped, InHands,
         SessionMoved
    <3> SUFFICES ASSUME NEW h \in Session!Activated'
                 PROVE  /\ agsReleased'[h] = 0 => agsSession'.generation = h
                             \/ \E d \in SessionCallers : InHands(d, h)'
                        /\ agsSession'.generation = h => agsReleased'[h] = 0
                        /\ \A d \in SessionCallers : InHands(d, h)' =>
                             agsReleased'[h] = 0 /\ agsSession'.generation # h
                               /\ \A e \in SessionCallers : InHands(e, h)' => e = d
      BY DEF OneOwns
    <3>4. CASE h = g
      BY <2>5, <2>6, <3>3, <3>4
    <3>5. CASE h # g
      BY <2>5, <2>6, <3>1, <3>2, <3>5 DEF SessionIInv, OneOwns
    <3> QED
      BY <3>4, <3>5
  <2> QED
    BY <2>7, <2>8, <2>9, <2>10, <2>11, <2>12 DEF SessionIInv
<1> QED
  BY <1>1, <1>2 DEF Session!RunActivates

(* A run ends with the generation that the session still has: Run.         *)
LEMMA EndRunSession ==
  ASSUME SessionIInv, NEW c \in SessionCallers, Session!EndRun(c)
  PROVE  SessionIInv'
<1>2. agsCaller[c].at = "runs" /\ None \notin Session!Activated
  BY SessionAssumption DEF SessionIInv, SessionTyped, HandsAreRight, Session!EndRun
<1>3. SessionMoved(c, "idle", None)
  BY SessionIdles DEF SessionIInv, SessionTyped, SessionRecord, SessionCaller, Session!EndRun
<1>4. /\ agsSession' \in SessionRecord
      /\ agsSession'.closed <=> agsSession.closed
      /\ agsSession'.replacing <=> agsSession.replacing
      /\ agsSession'.closeDone <=> agsSession.closeDone
  BY DEF SessionIInv, SessionTyped, SessionRecord, SessionCaller, Session!EndRun
<1>5. agsSession'.generation = agsSession.generation /\ agsRunMu' = None
  BY DEF SessionIInv, SessionTyped, SessionRecord, SessionCaller, Session!EndRun
<1>6. /\ agsReleased' \in [Session!Activated' -> {0, 1}]
      /\ Session!Activated' = Session!Activated
      /\ \A h \in Session!Activated : agsReleased'[h] = agsReleased[h]
  BY DEF SessionIInv, SessionTyped, Session!Activated, Session!EndRun
<1>7. SessionTyped'
  BY <1>3, <1>4, <1>5, <1>6 DEF SessionIInv, SessionTyped, SessionMoved
<1>8. RunMuIsHeld'
  BY <1>2, <1>3, <1>5, SessionAssumption DEF SessionIInv, SessionTyped, SessionCaller,
     RunMuIsHeld, SessionMoved
<1>9. OneReplaces'
  BY <1>2, <1>3, <1>4, SessionAssumption DEF SessionIInv, OneReplaces, Replacing, SessionMoved
<1>10. OneCloses'
  BY <1>2, <1>3, <1>4, <1>5, SessionAssumption DEF SessionIInv, OneCloses, Closing,
     SessionMoved, RunMuIsHeld
<1>11. HandsAreRight'
  BY <1>2, <1>3, <1>5, SessionAssumption DEF SessionIInv, HandsAreRight, SessionMoved
<1>12. OneOwns'
  <2>1. \A d \in SessionCallers, h \in Session!Activated : InHands(d, h)' <=> InHands(d, h)
    BY <1>2, <1>3, <1>5 DEF InHands, SessionMoved, SessionIInv, HandsAreRight
  <2> QED
    BY <2>1, <1>5, <1>6, OwnersKept
<1> QED
  BY <1>7, <1>8, <1>9, <1>10, <1>11, <1>12 DEF SessionIInv

(* One caller at a time begins to replace the plugins: SetPlugins.         *)
LEMMA SetPluginsSession ==
  ASSUME SessionIInv, NEW c \in SessionCallers, Session!SetPlugins(c)
  PROVE  SessionIInv'
<1>2. agsCaller[c].at = "idle" /\ agsCaller[c].generation = None
        /\ None \notin Session!Activated
  BY SessionAssumption DEF SessionIInv, SessionTyped, HandsAreRight, Session!SetPlugins
<1>3. SessionMoved(c, "stages", None)
  BY SessionGoes DEF SessionIInv, SessionTyped, SessionRecord, SessionCaller, Session!SetPlugins
<1>4. /\ agsSession' \in SessionRecord
      /\ ~agsSession.closed
      /\ ~agsSession.replacing
      /\ agsSession'.closed <=> agsSession.closed
      /\ agsSession'.replacing
      /\ agsSession'.closeDone <=> agsSession.closeDone
  BY DEF SessionIInv, SessionTyped, SessionRecord, SessionCaller, Session!SetPlugins
<1>5. agsSession'.generation = agsSession.generation /\ agsRunMu' = agsRunMu
  BY DEF SessionIInv, SessionTyped, SessionRecord, SessionCaller, Session!SetPlugins
<1>6. /\ agsReleased' \in [Session!Activated' -> {0, 1}]
      /\ Session!Activated' = Session!Activated
      /\ \A h \in Session!Activated : agsReleased'[h] = agsReleased[h]
  BY DEF SessionIInv, SessionTyped, Session!Activated, Session!SetPlugins
<1>7. SessionTyped'
  BY <1>3, <1>4, <1>5, <1>6 DEF SessionIInv, SessionTyped, SessionMoved
<1>8. RunMuIsHeld'
  BY <1>2, <1>3, <1>5, SessionAssumption DEF SessionIInv, SessionTyped, SessionCaller,
     RunMuIsHeld, SessionMoved
<1>9. OneReplaces'
  BY <1>2, <1>3, <1>4, SessionAssumption DEF SessionIInv, OneReplaces, Replacing, SessionMoved
<1>10. OneCloses'
  BY <1>2, <1>3, <1>4, <1>5, SessionAssumption DEF SessionIInv, OneCloses, Closing, SessionMoved
<1>11. HandsAreRight'
  BY <1>2, <1>3, <1>5, SessionAssumption DEF SessionIInv, HandsAreRight, SessionMoved
<1>12. OneOwns'
  <2>1. \A d \in SessionCallers, h \in Session!Activated : InHands(d, h)' <=> InHands(d, h)
    BY <1>2, <1>3, <1>5 DEF InHands, SessionMoved
  <2> QED
    BY <2>1, <1>5, <1>6, OwnersKept
<1> QED
  BY <1>7, <1>8, <1>9, <1>10, <1>11, <1>12 DEF SessionIInv

(* A staged generation is in the hands of its caller, or released by it:   *)
(* SetPlugins.                                                             *)
LEMMA StageSession ==
  ASSUME SessionIInv, NEW c \in SessionCallers, Session!Stage(c)
  PROVE  SessionIInv'
<1>1. CASE /\ agsSession' = [agsSession EXCEPT !.replacing = FALSE]
           /\ agsCaller' = [agsCaller EXCEPT ![c] = Session!Idle]
           /\ UNCHANGED agsReleased
  <2>2. agsCaller[c].at = "stages" /\ agsCaller[c].generation = None
          /\ None \notin Session!Activated
    BY SessionAssumption DEF SessionIInv, SessionTyped, HandsAreRight, Session!Stage
  <2>3. SessionMoved(c, "idle", None)
    BY <1>1, SessionIdles DEF SessionIInv, SessionTyped, SessionRecord
  <2>4. /\ agsSession' \in SessionRecord
        /\ agsSession'.closed <=> agsSession.closed
        /\ ~agsSession'.replacing
        /\ agsSession'.closeDone <=> agsSession.closeDone
    BY <1>1 DEF SessionIInv, SessionTyped, SessionRecord, SessionCaller
  <2>5. agsSession'.generation = agsSession.generation /\ agsRunMu' = agsRunMu
    BY <1>1 DEF SessionIInv, SessionTyped, SessionRecord, SessionCaller, Session!Stage
  <2>6. /\ agsReleased' \in [Session!Activated' -> {0, 1}]
        /\ Session!Activated' = Session!Activated
        /\ \A h \in Session!Activated : agsReleased'[h] = agsReleased[h]
    BY <1>1 DEF SessionIInv, SessionTyped, Session!Activated, Session!Stage
  <2>7. SessionTyped'
    BY <2>3, <2>4, <2>5, <2>6 DEF SessionIInv, SessionTyped, SessionMoved
  <2>8. RunMuIsHeld'
    BY <2>2, <2>3, <2>5, SessionAssumption DEF SessionIInv, SessionTyped, SessionCaller,
       RunMuIsHeld, SessionMoved
  <2>9. OneReplaces'
    BY <2>2, <2>3, <2>4, SessionAssumption DEF SessionIInv, OneReplaces, Replacing, SessionMoved
  <2>10. OneCloses'
    BY <2>2, <2>3, <2>4, <2>5, SessionAssumption DEF SessionIInv, OneCloses, Closing,
       SessionMoved
  <2>11. HandsAreRight'
    BY <2>2, <2>3, <2>5, SessionAssumption DEF SessionIInv, HandsAreRight, SessionMoved
  <2>12. OneOwns'
    <3>1. \A d \in SessionCallers, h \in Session!Activated : InHands(d, h)' <=> InHands(d, h)
      BY <2>2, <2>3, <2>5 DEF InHands, SessionMoved
    <3> QED
      BY <3>1, <2>5, <2>6, OwnersKept
  <2> QED
    BY <2>7, <2>8, <2>9, <2>10, <2>11, <2>12 DEF SessionIInv
<1>2. CASE /\ Session!Go(c, "staged", None)
           /\ UNCHANGED <<agsSession, agsReleased>>
  <2>2. agsCaller[c].at = "stages" /\ agsCaller[c].generation = None
          /\ None \notin Session!Activated
    BY SessionAssumption DEF SessionIInv, SessionTyped, HandsAreRight, Session!Stage
  <2>3. SessionMoved(c, "staged", None)
    BY <1>2, SessionGoes DEF SessionIInv, SessionTyped, SessionRecord
  <2>4. /\ agsSession' \in SessionRecord
        /\ agsSession'.closed <=> agsSession.closed
        /\ agsSession'.replacing <=> agsSession.replacing
        /\ agsSession'.closeDone <=> agsSession.closeDone
    BY <1>2 DEF SessionIInv, SessionTyped, SessionRecord, SessionCaller
  <2>5. agsSession'.generation = agsSession.generation /\ agsRunMu' = agsRunMu
    BY <1>2 DEF SessionIInv, SessionTyped, SessionRecord, SessionCaller, Session!Stage
  <2>6. /\ agsReleased' \in [Session!Activated' -> {0, 1}]
        /\ Session!Activated' = Session!Activated
        /\ \A h \in Session!Activated : agsReleased'[h] = agsReleased[h]
    BY <1>2 DEF SessionIInv, SessionTyped, Session!Activated, Session!Stage
  <2>7. SessionTyped'
    BY <2>3, <2>4, <2>5, <2>6 DEF SessionIInv, SessionTyped, SessionMoved
  <2>8. RunMuIsHeld'
    BY <2>2, <2>3, <2>5, SessionAssumption DEF SessionIInv, SessionTyped, SessionCaller,
       RunMuIsHeld, SessionMoved
  <2>9. OneReplaces'
    BY <2>2, <2>3, <2>4, SessionAssumption DEF SessionIInv, OneReplaces, Replacing, SessionMoved
  <2>10. OneCloses'
    BY <2>2, <2>3, <2>4, <2>5, SessionAssumption DEF SessionIInv, OneCloses, Closing,
       SessionMoved
  <2>11. HandsAreRight'
    BY <2>2, <2>3, <2>5, SessionAssumption DEF SessionIInv, HandsAreRight, SessionMoved
  <2>12. OneOwns'
    <3>1. \A d \in SessionCallers, h \in Session!Activated : InHands(d, h)' <=> InHands(d, h)
      BY <2>2, <2>3, <2>5 DEF InHands, SessionMoved
    <3> QED
      BY <3>1, <2>5, <2>6, OwnersKept
  <2> QED
    BY <2>7, <2>8, <2>9, <2>10, <2>11, <2>12 DEF SessionIInv
<1>3. CASE \E g \in SessionGenerations :
              /\ Session!ActivateAll(g)
              /\ Session!Go(c, "staged", g)
              /\ UNCHANGED agsSession
  <2>1. PICK g \in SessionGenerations :
             /\ Session!ActivateAll(g)
             /\ Session!Go(c, "staged", g)
             /\ UNCHANGED agsSession
    BY <1>3
  <2>2. agsCaller[c].at = "stages" /\ agsCaller[c].generation = None
          /\ None \notin Session!Activated
    BY SessionAssumption DEF SessionIInv, SessionTyped, HandsAreRight, Session!Stage
  <2>3. SessionMoved(c, "staged", g)
    BY <2>1, SessionGoes DEF SessionIInv, SessionTyped, SessionRecord
  <2>4. /\ agsSession' \in SessionRecord
        /\ agsSession'.closed <=> agsSession.closed
        /\ agsSession'.replacing <=> agsSession.replacing
        /\ agsSession'.closeDone <=> agsSession.closeDone
    BY <2>1 DEF SessionIInv, SessionTyped, SessionRecord, SessionCaller
  <2>5. agsSession'.generation = agsSession.generation /\ agsRunMu' = agsRunMu
    BY <2>1 DEF SessionIInv, SessionTyped, SessionRecord, SessionCaller, Session!Stage
  <2>6. /\ agsReleased' \in [Session!Activated' -> {0, 1}]
        /\ g \notin Session!Activated
        /\ Session!Activated' = Session!Activated \cup {g}
        /\ agsReleased'[g] = 0
        /\ \A h \in Session!Activated : h # g /\ agsReleased'[h] = agsReleased[h]
    BY <2>1 DEF SessionIInv, SessionTyped, Session!ActivateAll, Session!Activated
  <2>7. SessionTyped'
    BY <2>3, <2>4, <2>5, <2>6 DEF SessionIInv, SessionTyped, SessionMoved
  <2>8. RunMuIsHeld'
    BY <2>2, <2>3, <2>5, SessionAssumption DEF SessionIInv, SessionTyped, SessionCaller,
       RunMuIsHeld, SessionMoved
  <2>9. OneReplaces'
    BY <2>2, <2>3, <2>4, SessionAssumption DEF SessionIInv, OneReplaces, Replacing, SessionMoved
  <2>10. OneCloses'
    BY <2>2, <2>3, <2>4, <2>5, SessionAssumption DEF SessionIInv, OneCloses, Closing,
       SessionMoved
  <2>11. HandsAreRight'
    BY <2>2, <2>3, <2>5, SessionAssumption DEF SessionIInv, HandsAreRight, SessionMoved
  <2>12. OneOwns'
    <3>1. \A d \in SessionCallers, h \in Session!Activated : InHands(d, h)' <=> InHands(d, h)
      BY <2>2, <2>3, <2>6 DEF InHands, SessionMoved
    <3>2. agsSession.generation # g
      BY <2>6, SessionAssumption DEF SessionIInv, SessionTyped
    <3>3. \A d \in SessionCallers : InHands(d, g)' <=> d = c
      BY <2>2, <2>3, <2>6, SessionAssumption DEF SessionIInv, SessionTyped, InHands,
         SessionMoved
    <3> SUFFICES ASSUME NEW h \in Session!Activated'
                 PROVE  /\ agsReleased'[h] = 0 => agsSession'.generation = h
                             \/ \E d \in SessionCallers : InHands(d, h)'
                        /\ agsSession'.generation = h => agsReleased'[h] = 0
                        /\ \A d \in SessionCallers : InHands(d, h)' =>
                             agsReleased'[h] = 0 /\ agsSession'.generation # h
                               /\ \A e \in SessionCallers : InHands(e, h)' => e = d
      BY DEF OneOwns
    <3>4. CASE h = g
      BY <2>5, <2>6, <3>2, <3>3, <3>4
    <3>5. CASE h # g
      BY <2>5, <2>6, <3>1, <3>5 DEF SessionIInv, OneOwns
    <3> QED
      BY <3>4, <3>5
  <2> QED
    BY <2>7, <2>8, <2>9, <2>10, <2>11, <2>12 DEF SessionIInv
<1> QED
  BY <1>1, <1>2, <1>3 DEF Session!Stage

(* The swap exchanges two owners under runMu: SetPlugins.                  *)
LEMMA SwapSession ==
  ASSUME SessionIInv, NEW c \in SessionCallers, Session!Swap(c)
  PROVE  SessionIInv'
<1>2. agsCaller[c].at = "staged" /\ None \notin Session!Activated /\ agsRunMu = None
  BY SessionAssumption DEF SessionIInv, SessionTyped, HandsAreRight, Session!Swap
<1>3. SessionMoved(c, "releases", agsSession.generation)
  BY SessionGoes DEF SessionIInv, SessionTyped, SessionRecord, SessionCaller, Session!Swap
<1>4. /\ agsSession' \in SessionRecord
      /\ agsSession'.closed <=> agsSession.closed
      /\ ~agsSession'.replacing
      /\ agsSession'.closeDone <=> agsSession.closeDone
  BY DEF SessionIInv, SessionTyped, SessionRecord, SessionCaller, Session!Swap
<1>5. agsSession'.generation = agsCaller[c].generation /\ agsRunMu' = c
  BY DEF SessionIInv, SessionTyped, SessionRecord, SessionCaller, Session!Swap
<1>6. /\ agsReleased' \in [Session!Activated' -> {0, 1}]
      /\ Session!Activated' = Session!Activated
      /\ \A h \in Session!Activated : agsReleased'[h] = agsReleased[h]
  BY DEF SessionIInv, SessionTyped, Session!Activated, Session!Swap
<1>7. SessionTyped'
  BY <1>3, <1>4, <1>5, <1>6 DEF SessionIInv, SessionTyped, SessionMoved
<1>8. RunMuIsHeld'
  BY <1>2, <1>3, <1>5, SessionAssumption DEF SessionIInv, SessionTyped, SessionCaller,
     RunMuIsHeld, SessionMoved
<1>9. OneReplaces'
  BY <1>2, <1>3, <1>4, SessionAssumption DEF SessionIInv, OneReplaces, Replacing, SessionMoved
<1>10. OneCloses'
  BY <1>2, <1>3, <1>4, <1>5, SessionAssumption DEF SessionIInv, OneCloses, Closing,
     SessionMoved, OneReplaces, Replacing
<1>11. HandsAreRight'
  BY <1>2, <1>3, <1>5, SessionAssumption DEF SessionIInv, HandsAreRight, SessionMoved,
     SessionTyped, RunMuIsHeld, OneReplaces, Replacing
<1>12. OneOwns'
  BY <1>2, <1>3, <1>5, <1>6, SessionAssumption DEF SessionIInv, OneOwns, InHands, SessionMoved,
     SessionTyped
<1> QED
  BY <1>7, <1>8, <1>9, <1>10, <1>11, <1>12 DEF SessionIInv

(* The previous generation is released once: SetPlugins.                   *)
LEMMA ReleasePreviousSession ==
  ASSUME SessionIInv, NEW c \in SessionCallers, Session!ReleasePrevious(c)
  PROVE  SessionIInv'
<1>2. agsCaller[c].at = "releases" /\ None \notin Session!Activated
  BY SessionAssumption DEF SessionIInv, SessionTyped, HandsAreRight, Session!ReleasePrevious
<1>3. SessionMoved(c, "idle", None)
  BY SessionIdles DEF SessionIInv, SessionTyped, SessionRecord, SessionCaller,
     Session!ReleasePrevious
<1>4. /\ agsSession' \in SessionRecord
      /\ agsSession'.closed <=> agsSession.closed
      /\ agsSession'.replacing <=> agsSession.replacing
      /\ agsSession'.closeDone <=> agsSession.closeDone
  BY DEF SessionIInv, SessionTyped, SessionRecord, SessionCaller, Session!ReleasePrevious
<1>5. agsSession'.generation = agsSession.generation /\ agsRunMu' = None
  BY DEF SessionIInv, SessionTyped, SessionRecord, SessionCaller, Session!ReleasePrevious
<1>6. /\ agsReleased' \in [Session!Activated' -> {0, 1}]
      /\ Session!Activated' = Session!Activated
      /\ \A h \in Session!Activated : agsReleased'[h] = IF h = agsCaller[c].generation THEN 1
                                                        ELSE agsReleased[h]
  BY DEF SessionIInv, SessionTyped, Session!CloseGeneration, Session!Activated,
     Session!ReleasePrevious
<1>7. SessionTyped'
  BY <1>3, <1>4, <1>5, <1>6 DEF SessionIInv, SessionTyped, SessionMoved
<1>8. RunMuIsHeld'
  BY <1>2, <1>3, <1>5, SessionAssumption DEF SessionIInv, SessionTyped, SessionCaller,
     RunMuIsHeld, SessionMoved
<1>9. OneReplaces'
  BY <1>2, <1>3, <1>4, SessionAssumption DEF SessionIInv, OneReplaces, Replacing, SessionMoved
<1>10. OneCloses'
  BY <1>2, <1>3, <1>4, <1>5, SessionAssumption DEF SessionIInv, OneCloses, Closing,
     SessionMoved, RunMuIsHeld
<1>11. HandsAreRight'
  BY <1>2, <1>3, <1>5, SessionAssumption DEF SessionIInv, HandsAreRight, SessionMoved
<1>12. OneOwns'
  BY <1>2, <1>3, <1>5, <1>6, SessionAssumption DEF SessionIInv, OneOwns, InHands, SessionMoved,
     SessionTyped
<1> QED
  BY <1>7, <1>8, <1>9, <1>10, <1>11, <1>12 DEF SessionIInv

(* A session is closed by one caller, that waits for runMu: Close.         *)
LEMMA CloseSession ==
  ASSUME SessionIInv, NEW c \in SessionCallers, Session!Close(c)
  PROVE  SessionIInv'
<1>1. CASE agsSession.closed
  <2>2. agsCaller[c].at = "idle" /\ agsCaller[c].generation = None
          /\ None \notin Session!Activated
    BY SessionAssumption DEF SessionIInv, SessionTyped, HandsAreRight, Session!Close
  <2>3. SessionMoved(c, "waits for close", None)
    BY <1>1, SessionGoes DEF SessionIInv, SessionTyped, SessionRecord, SessionCaller,
       Session!Close
  <2>4. /\ agsSession' \in SessionRecord
        /\ ~agsSession.replacing
        /\ agsSession'.closed
        /\ agsSession'.replacing <=> agsSession.replacing
        /\ agsSession'.closeDone <=> agsSession.closeDone
    BY <1>1 DEF SessionIInv, SessionTyped, SessionRecord, SessionCaller, Session!Close
  <2>5. agsSession'.generation = agsSession.generation /\ agsRunMu' = agsRunMu
    BY <1>1 DEF SessionIInv, SessionTyped, SessionRecord, SessionCaller, Session!Close
  <2>6. /\ agsReleased' \in [Session!Activated' -> {0, 1}]
        /\ Session!Activated' = Session!Activated
        /\ \A h \in Session!Activated : agsReleased'[h] = agsReleased[h]
    BY DEF SessionIInv, SessionTyped, Session!Activated, Session!Close
  <2>7. SessionTyped'
    BY <2>3, <2>4, <2>5, <2>6 DEF SessionIInv, SessionTyped, SessionMoved
  <2>8. RunMuIsHeld'
    BY <2>2, <2>3, <2>5, SessionAssumption DEF SessionIInv, SessionTyped, SessionCaller,
       RunMuIsHeld, SessionMoved
  <2>9. OneReplaces'
    BY <2>2, <2>3, <2>4, SessionAssumption DEF SessionIInv, OneReplaces, Replacing, SessionMoved
  <2>10. OneCloses'
    BY <2>2, <2>3, <2>4, <2>5, SessionAssumption, <1>1 DEF SessionIInv, OneCloses, Closing,
       SessionMoved, SessionTyped, RunMuIsHeld
  <2>11. HandsAreRight'
    BY <2>2, <2>3, <2>5, SessionAssumption DEF SessionIInv, HandsAreRight, SessionMoved
  <2>12. OneOwns'
    <3>1. \A d \in SessionCallers, h \in Session!Activated : InHands(d, h)' <=> InHands(d, h)
      BY <2>2, <2>3, <2>5 DEF InHands, SessionMoved
    <3> QED
      BY <3>1, <2>5, <2>6, OwnersKept
  <2> QED
    BY <2>7, <2>8, <2>9, <2>10, <2>11, <2>12 DEF SessionIInv
<1>2. CASE ~agsSession.closed
  <2>2. agsCaller[c].at = "idle" /\ agsCaller[c].generation = None
          /\ None \notin Session!Activated
    BY SessionAssumption DEF SessionIInv, SessionTyped, HandsAreRight, Session!Close
  <2>3. SessionMoved(c, "close waits", None)
    BY <1>2, SessionGoes DEF SessionIInv, SessionTyped, SessionRecord, SessionCaller,
       Session!Close
  <2>4. /\ agsSession' \in SessionRecord
        /\ ~agsSession.replacing
        /\ agsSession'.closed
        /\ agsSession'.replacing <=> agsSession.replacing
        /\ agsSession'.closeDone <=> agsSession.closeDone
    BY <1>2 DEF SessionIInv, SessionTyped, SessionRecord, SessionCaller, Session!Close
  <2>5. agsSession'.generation = agsSession.generation /\ agsRunMu' = agsRunMu
    BY <1>2 DEF SessionIInv, SessionTyped, SessionRecord, SessionCaller, Session!Close
  <2>6. /\ agsReleased' \in [Session!Activated' -> {0, 1}]
        /\ Session!Activated' = Session!Activated
        /\ \A h \in Session!Activated : agsReleased'[h] = agsReleased[h]
    BY DEF SessionIInv, SessionTyped, Session!Activated, Session!Close
  <2>7. SessionTyped'
    BY <2>3, <2>4, <2>5, <2>6 DEF SessionIInv, SessionTyped, SessionMoved
  <2>8. RunMuIsHeld'
    BY <2>2, <2>3, <2>5, SessionAssumption DEF SessionIInv, SessionTyped, SessionCaller,
       RunMuIsHeld, SessionMoved
  <2>9. OneReplaces'
    BY <2>2, <2>3, <2>4, SessionAssumption DEF SessionIInv, OneReplaces, Replacing, SessionMoved
  <2>10. OneCloses'
    BY <2>2, <2>3, <2>4, <2>5, SessionAssumption, <1>2 DEF SessionIInv, OneCloses, Closing,
       SessionMoved, SessionTyped, RunMuIsHeld
  <2>11. HandsAreRight'
    BY <2>2, <2>3, <2>5, SessionAssumption DEF SessionIInv, HandsAreRight, SessionMoved
  <2>12. OneOwns'
    <3>1. \A d \in SessionCallers, h \in Session!Activated : InHands(d, h)' <=> InHands(d, h)
      BY <2>2, <2>3, <2>5 DEF InHands, SessionMoved
    <3> QED
      BY <3>1, <2>5, <2>6, OwnersKept
  <2> QED
    BY <2>7, <2>8, <2>9, <2>10, <2>11, <2>12 DEF SessionIInv
<1> QED
  BY <1>1, <1>2

(* The close takes the generation into its hands: Close.                   *)
LEMMA TakeGenerationSession ==
  ASSUME SessionIInv, NEW c \in SessionCallers, Session!TakeGeneration(c)
  PROVE  SessionIInv'
<1>2. agsCaller[c].at = "close waits" /\ agsCaller[c].generation = None
        /\ None \notin Session!Activated /\ agsRunMu = None
  BY SessionAssumption DEF SessionIInv, SessionTyped, HandsAreRight, Session!TakeGeneration
<1>3. SessionMoved(c, "closes", agsSession.generation)
  BY SessionGoes DEF SessionIInv, SessionTyped, SessionRecord, SessionCaller,
     Session!TakeGeneration
<1>4. /\ agsSession' \in SessionRecord
      /\ agsSession'.closed <=> agsSession.closed
      /\ agsSession'.replacing <=> agsSession.replacing
      /\ agsSession'.closeDone <=> agsSession.closeDone
  BY DEF SessionIInv, SessionTyped, SessionRecord, SessionCaller, Session!TakeGeneration
<1>5. agsSession'.generation = None /\ agsRunMu' = c
  BY DEF SessionIInv, SessionTyped, SessionRecord, SessionCaller, Session!TakeGeneration
<1>6. /\ agsReleased' \in [Session!Activated' -> {0, 1}]
      /\ Session!Activated' = Session!Activated
      /\ \A h \in Session!Activated : agsReleased'[h] = agsReleased[h]
  BY DEF SessionIInv, SessionTyped, Session!Activated, Session!TakeGeneration
<1>7. SessionTyped'
  BY <1>3, <1>4, <1>5, <1>6 DEF SessionIInv, SessionTyped, SessionMoved
<1>8. RunMuIsHeld'
  BY <1>2, <1>3, <1>5, SessionAssumption DEF SessionIInv, SessionTyped, SessionCaller,
     RunMuIsHeld, SessionMoved
<1>9. OneReplaces'
  BY <1>2, <1>3, <1>4, SessionAssumption DEF SessionIInv, OneReplaces, Replacing, SessionMoved
<1>10. OneCloses'
  BY <1>2, <1>3, <1>4, <1>5, SessionAssumption DEF SessionIInv, OneCloses, Closing, SessionMoved
<1>11. HandsAreRight'
  BY <1>2, <1>3, <1>5, SessionAssumption DEF SessionIInv, HandsAreRight, SessionMoved,
     RunMuIsHeld
<1>12. OneOwns'
  <2>1. \A d \in SessionCallers, h \in Session!Activated : d # c => (InHands(d, h)'
          <=> InHands(d, h))
    BY <1>3 DEF InHands, SessionMoved
  <2>2. \A h \in Session!Activated : ~InHands(c, h) /\ (InHands(c, h)'
          <=> agsSession.generation = h)
    BY <1>2, <1>3 DEF InHands, SessionMoved
  <2> SUFFICES ASSUME NEW h \in Session!Activated'
               PROVE  /\ agsReleased'[h] = 0 => agsSession'.generation = h
                           \/ \E d \in SessionCallers : InHands(d, h)'
                      /\ agsSession'.generation = h => agsReleased'[h] = 0
                      /\ \A d \in SessionCallers : InHands(d, h)' =>
                           agsReleased'[h] = 0 /\ agsSession'.generation # h
                             /\ \A e \in SessionCallers : InHands(e, h)' => e = d
    BY DEF OneOwns
  <2>3. h \in Session!Activated /\ agsReleased'[h] = agsReleased[h]
          /\ agsSession'.generation # h
    BY <1>2, <1>5, <1>6
  <2>4. CASE agsSession.generation = h
    BY <2>1, <2>2, <2>3, <2>4 DEF SessionIInv, OneOwns
  <2>5. CASE agsSession.generation # h
    BY <2>1, <2>2, <2>3, <2>5 DEF SessionIInv, OneOwns
  <2> QED
    BY <2>4, <2>5
<1> QED
  BY <1>7, <1>8, <1>9, <1>10, <1>11, <1>12 DEF SessionIInv

(* The close releases what it took: Close.                                 *)
LEMMA FinishCloseSession ==
  ASSUME SessionIInv, NEW c \in SessionCallers, Session!FinishClose(c)
  PROVE  SessionIInv'
<1>2. agsCaller[c].at = "closes" /\ None \notin Session!Activated
  BY SessionAssumption DEF SessionIInv, SessionTyped, HandsAreRight, Session!FinishClose
<1>3. SessionMoved(c, "idle", None)
  BY SessionIdles DEF SessionIInv, SessionTyped, SessionRecord, SessionCaller,
     Session!FinishClose
<1>4. /\ agsSession' \in SessionRecord
      /\ agsSession'.closed <=> agsSession.closed
      /\ agsSession'.replacing <=> agsSession.replacing
      /\ agsSession'.closeDone
  BY DEF SessionIInv, SessionTyped, SessionRecord, SessionCaller, Session!FinishClose
<1>5. agsSession'.generation = agsSession.generation /\ agsRunMu' = None
  BY DEF SessionIInv, SessionTyped, SessionRecord, SessionCaller, Session!FinishClose
<1>6. /\ agsReleased' \in [Session!Activated' -> {0, 1}]
      /\ Session!Activated' = Session!Activated
      /\ \A h \in Session!Activated : agsReleased'[h] = IF h = agsCaller[c].generation THEN 1
                                                        ELSE agsReleased[h]
  BY DEF SessionIInv, SessionTyped, Session!CloseGeneration, Session!Activated,
     Session!FinishClose
<1>7. SessionTyped'
  BY <1>3, <1>4, <1>5, <1>6 DEF SessionIInv, SessionTyped, SessionMoved
<1>8. RunMuIsHeld'
  BY <1>2, <1>3, <1>5, SessionAssumption DEF SessionIInv, SessionTyped, SessionCaller,
     RunMuIsHeld, SessionMoved
<1>9. OneReplaces'
  BY <1>2, <1>3, <1>4, SessionAssumption DEF SessionIInv, OneReplaces, Replacing, SessionMoved
<1>10. OneCloses'
  BY <1>2, <1>3, <1>4, <1>5, SessionAssumption DEF SessionIInv, OneCloses, Closing,
     SessionMoved, HandsAreRight, SessionTyped, RunMuIsHeld
<1>11. HandsAreRight'
  BY <1>2, <1>3, <1>5, SessionAssumption DEF SessionIInv, HandsAreRight, SessionMoved
<1>12. OneOwns'
  BY <1>2, <1>3, <1>5, <1>6, SessionAssumption DEF SessionIInv, OneOwns, InHands, SessionMoved,
     SessionTyped
<1> QED
  BY <1>7, <1>8, <1>9, <1>10, <1>11, <1>12 DEF SessionIInv

(* Another close waits for the first one: Close.                           *)
LEMMA CloseReturnsSession ==
  ASSUME SessionIInv, NEW c \in SessionCallers, Session!CloseReturns(c)
  PROVE  SessionIInv'
<1>2. agsCaller[c].at = "waits for close" /\ agsCaller[c].generation = None
        /\ None \notin Session!Activated
  BY SessionAssumption DEF SessionIInv, SessionTyped, HandsAreRight, Session!CloseReturns
<1>3. SessionMoved(c, "idle", None)
  BY SessionIdles DEF SessionIInv, SessionTyped, SessionRecord, SessionCaller,
     Session!CloseReturns
<1>4. /\ agsSession' \in SessionRecord
      /\ agsSession'.closed <=> agsSession.closed
      /\ agsSession'.replacing <=> agsSession.replacing
      /\ agsSession'.closeDone <=> agsSession.closeDone
  BY DEF SessionIInv, SessionTyped, SessionRecord, SessionCaller, Session!CloseReturns
<1>5. agsSession'.generation = agsSession.generation /\ agsRunMu' = agsRunMu
  BY DEF SessionIInv, SessionTyped, SessionRecord, SessionCaller, Session!CloseReturns
<1>6. /\ agsReleased' \in [Session!Activated' -> {0, 1}]
      /\ Session!Activated' = Session!Activated
      /\ \A h \in Session!Activated : agsReleased'[h] = agsReleased[h]
  BY DEF SessionIInv, SessionTyped, Session!Activated, Session!CloseReturns
<1>7. SessionTyped'
  BY <1>3, <1>4, <1>5, <1>6 DEF SessionIInv, SessionTyped, SessionMoved
<1>8. RunMuIsHeld'
  BY <1>2, <1>3, <1>5, SessionAssumption DEF SessionIInv, SessionTyped, SessionCaller,
     RunMuIsHeld, SessionMoved
<1>9. OneReplaces'
  BY <1>2, <1>3, <1>4, SessionAssumption DEF SessionIInv, OneReplaces, Replacing, SessionMoved
<1>10. OneCloses'
  BY <1>2, <1>3, <1>4, <1>5, SessionAssumption DEF SessionIInv, OneCloses, Closing, SessionMoved
<1>11. HandsAreRight'
  BY <1>2, <1>3, <1>5, SessionAssumption DEF SessionIInv, HandsAreRight, SessionMoved
<1>12. OneOwns'
  <2>1. \A d \in SessionCallers, h \in Session!Activated : InHands(d, h)' <=> InHands(d, h)
    BY <1>2, <1>3, <1>5 DEF InHands, SessionMoved
  <2> QED
    BY <2>1, <1>5, <1>6, OwnersKept
<1> QED
  BY <1>7, <1>8, <1>9, <1>10, <1>11, <1>12 DEF SessionIInv

(* A session starts with a generation that is not activated.               *)
LEMMA SessionInit ==
  ASSUME Session!Init
  PROVE  SessionIInv /\ CallbacksInTime
<1>1. /\ agsSession \in SessionRecord /\ ~agsSession.closed /\ ~agsSession.closeDone
           /\ ~agsSession.replacing
      /\ agsSession.generation = None
  BY DEF Session!Init, SessionRecord
<1>2. /\ agsCaller \in [SessionCallers -> SessionCaller]
      /\ \A c \in SessionCallers : agsCaller[c].at = "idle" /\ agsCaller[c].generation = None
  BY DEF Session!Init, Session!Idle, SessionCaller
<1>3. agsRunMu = None /\ Session!Activated = {} /\ agsReleased \in [Session!Activated -> {0, 1}]
  BY DEF Session!Init, Session!Activated
<1>4. CallbacksInTime
  BY DEF Session!Init, CallbacksInTime
<1> QED
  BY <1>1, <1>2, <1>3, <1>4, SessionAssumption
  DEF SessionIInv, SessionTyped, RunMuIsHeld, OneReplaces, Replacing, OneCloses, Closing,
      HandsAreRight, OneOwns, InHands

(* A dispatch and its callbacks change nothing that the session owns:      *)
(* Dispatch.                                                               *)
LEMMA ObserversKeepSession ==
  ASSUME SessionIInv, UNCHANGED <<agsSession, agsRunMu, agsCaller, agsReleased>>
  PROVE  SessionIInv'
<1>1. SessionTyped' /\ RunMuIsHeld'
  BY DEF SessionIInv, SessionTyped, Session!Activated, RunMuIsHeld
<1>2. OneReplaces' /\ OneCloses' /\ HandsAreRight'
  BY DEF SessionIInv, OneReplaces, Replacing, OneCloses, Closing, HandsAreRight
<1>3. OneOwns'
  BY OwnersKept DEF InHands, Session!Activated
<1> QED
  BY <1>1, <1>2, <1>3 DEF SessionIInv

(* Every step of the session keeps the invariant.                          *)
LEMMA SessionStep ==
  ASSUME SessionIInv, [Session!Next]_agsVars
  PROVE  SessionIInv'
<1>1. ASSUME NEW c \in SessionCallers, Session!Dispatch(c)
      PROVE  SessionIInv'
  BY <1>1, ObserversKeepSession DEF Session!Dispatch
<1>2. ASSUME NEW g \in SessionGenerations, Session!CallbackReturns(g)
      PROVE  SessionIInv'
  BY <1>2, ObserversKeepSession DEF Session!CallbackReturns
<1>3. ASSUME NEW g \in SessionGenerations, Session!CallbackTimesOut(g)
      PROVE  SessionIInv'
  BY <1>3, ObserversKeepSession DEF Session!CallbackTimesOut
<1>4. CASE UNCHANGED agsVars
  BY <1>4, ObserversKeepSession DEF agsVars
<1> QED
  BY <1>1, <1>2, <1>3, <1>4, RunWaitsSession, StartRunSession, RunActivatesSession, EndRunSession,
     SetPluginsSession, StageSession, SwapSession, ReleasePreviousSession, CloseSession,
     TakeGenerationSession, FinishCloseSession, CloseReturnsSession DEF Session!Next

(* A caller that moves leaves no callback behind that its run waits for.   *)
LEMMA CallbacksStay ==
  ASSUME CallbacksInTime, agsObserving' = agsObserving, NEW c \in SessionCallers,
         \A d \in SessionCallers : d # c => agsCaller'[d] = agsCaller[d],
         \/ agsCaller[c].at # "runs"
         \/ Session!Callback(agsCaller[c].generation, FALSE) \notin agsObserving
  PROVE  CallbacksInTime'
<1> SUFFICES ASSUME NEW f \in agsObserving, ~f.late
             PROVE  \E b \in SessionCallers : agsCaller'[b].at = "runs"
                      /\ agsCaller'[b].generation = f.generation
  BY DEF CallbacksInTime
<1>1. PICK b \in SessionCallers : agsCaller[b].at = "runs"
                                   /\ agsCaller[b].generation = f.generation
  BY DEF CallbacksInTime
<1>2. f = Session!Callback(f.generation, FALSE)
  BY DEF CallbacksInTime, Session!Callback
<1>3. b # c
  BY <1>1, <1>2
<1> QED
  BY <1>1, <1>3

(* Every step of the session waits for its callbacks.                      *)
LEMMA CallbacksStep ==
  ASSUME SessionIInv, CallbacksInTime, [Session!Next]_agsVars
  PROVE  CallbacksInTime'
<1> USE DEF Session!Go, Session!Idle
<1>0. agsCaller \in [SessionCallers -> SessionCaller]
  BY DEF SessionIInv, SessionTyped
<1>1. ASSUME NEW c \in SessionCallers,
             Session!RunWaits(c) \/ Session!SetPlugins(c) \/ Session!Swap(c)
               \/ Session!ReleasePrevious(c) \/ Session!Close(c) \/ Session!TakeGeneration(c)
               \/ Session!FinishClose(c) \/ Session!CloseReturns(c)
      PROVE  CallbacksInTime'
  BY <1>0, <1>1, CallbacksStay DEF Session!RunWaits, Session!SetPlugins, Session!Swap,
     Session!ReleasePrevious, Session!Close, Session!TakeGeneration, Session!FinishClose,
     Session!CloseReturns
<1>2. ASSUME NEW c \in SessionCallers,
             Session!StartRun(c) \/ Session!RunActivates(c) \/ Session!Stage(c)
      PROVE  CallbacksInTime'
  <2>1. agsObserving' = agsObserving /\ agsCaller[c].at # "runs"
    BY <1>2 DEF Session!StartRun, Session!RunActivates, Session!Stage
  <2>2. \A d \in SessionCallers : d # c => agsCaller'[d] = agsCaller[d]
    BY <1>0, <1>2 DEF Session!StartRun, Session!RunActivates, Session!Stage
  <2> QED
    BY <2>1, <2>2, CallbacksStay
<1>3. ASSUME NEW c \in SessionCallers, Session!EndRun(c)
      PROVE  CallbacksInTime'
  BY <1>0, <1>3, CallbacksStay DEF Session!EndRun
<1>4. ASSUME NEW c \in SessionCallers, Session!Dispatch(c)
      PROVE  CallbacksInTime'
  <2>1. agsCaller[c].generation \in SessionGenerations
    BY <1>0, <1>4 DEF Session!Dispatch, SessionCaller
  <2> DEFINE new == [generation |-> agsCaller[c].generation, late |-> FALSE]
  <2>2. /\ agsObserving' = agsObserving \cup {new} /\ agsCaller' = agsCaller
        /\ agsCaller[c].at = "runs"
    BY <1>4 DEF Session!Dispatch, Session!Callback
  <2>3. /\ new \in [generation : SessionGenerations, late : BOOLEAN]
        /\ new.generation = agsCaller[c].generation
    BY <2>1
  <2> HIDE DEF new
  <2> QED
    BY <2>2, <2>3 DEF CallbacksInTime
<1>5. ASSUME NEW g \in SessionGenerations,
             Session!CallbackTimesOut(g) \/ Session!CallbackReturns(g)
      PROVE  CallbacksInTime'
  <2> DEFINE late == [generation |-> g, late |-> TRUE]
  <2>1. /\ late \in [generation : SessionGenerations, late : BOOLEAN] /\ late.late = TRUE
        /\ agsCaller' = agsCaller
        /\ \A f \in agsObserving' : f \in agsObserving \/ f = late
    BY <1>5 DEF Session!CallbackTimesOut, Session!CallbackReturns, Session!Callback
  <2> HIDE DEF late
  <2> QED
    BY <2>1 DEF CallbacksInTime
<1>6. CASE UNCHANGED agsVars
  BY <1>6 DEF agsVars, CallbacksInTime
<1> QED
  BY <1>1, <1>2, <1>3, <1>4, <1>5, <1>6 DEF Session!Next

(* The instance has its own name for the operator of FiniteSets.           *)
LEMMA SessionCardinality == \A S : Session!Cardinality(S) = Cardinality(S)
BY DEF Session!Cardinality, Cardinality

(* Every generation that is activated has one owner, or was released once. *)
LEMMA SessionSafe ==
  ASSUME SessionIInv, CallbacksInTime
  PROVE  Session!PluginsAreReleased
<1>1. Session!RunKeepsPlugins
  BY SessionAssumption DEF SessionIInv, SessionTyped, HandsAreRight, OneOwns, OneCloses,
     RunMuIsHeld, Session!RunKeepsPlugins
<1>2. Session!GenerationsAreOwned
  <2> SUFFICES ASSUME NEW g \in Session!Activated
               PROVE  LET holders == {c \in SessionCallers : agsCaller[c].generation = g
                      /\ agsCaller[c].at # "runs"}
                      IN IF agsReleased[g] = 1 THEN agsSession.generation # g /\ holders = {}
                         ELSE Session!Cardinality(holders)
                                = IF agsSession.generation = g THEN 0 ELSE 1
    BY DEF Session!GenerationsAreOwned
  <2> DEFINE holders == {c \in SessionCallers : agsCaller[c].generation = g
               /\ agsCaller[c].at # "runs"}
  <2>1. CASE agsReleased[g] = 1
    BY <2>1 DEF SessionIInv, OneOwns, InHands
  <2>2. CASE agsReleased[g] # 1 /\ agsSession.generation = g
    <3>1. holders = {}
      BY <2>2 DEF SessionIInv, OneOwns, InHands
    <3> QED
      BY <2>2, <3>1, FS_EmptySet, SessionCardinality
  <2>3. CASE agsReleased[g] # 1 /\ agsSession.generation # g
    <3>1. agsReleased[g] = 0
      BY <2>3 DEF SessionIInv, SessionTyped
    <3>2. PICK c \in SessionCallers : holders = {c}
      BY <2>3, <3>1 DEF SessionIInv, OneOwns, InHands
    <3> QED
      BY <2>3, <3>2, FS_Singleton, SessionCardinality
  <2> QED
    BY <2>1, <2>2, <2>3
<1>3. Session!ClosedIsEmpty
  <2> SUFFICES ASSUME agsSession.closeDone
               PROVE  /\ \A g \in Session!Activated : agsReleased[g] = 1
                      /\ ~agsSession.replacing /\ agsSession.generation = None
                           /\ agsRunMu = None
    BY DEF Session!ClosedIsEmpty
  <2>1. agsSession.closed /\ agsSession.generation = None /\ agsRunMu = None
          /\ ~agsSession.replacing
    BY DEF SessionIInv, OneCloses, OneReplaces
  <2>2. None \notin Session!Activated
    BY SessionAssumption DEF SessionIInv, SessionTyped
  <2>3. \A c \in SessionCallers : agsCaller[c].at \notin {"runs", "staged", "releases", "closes"}
    BY <2>1, SessionAssumption DEF SessionIInv, RunMuIsHeld, OneReplaces, Replacing
  <2>4. \A c \in SessionCallers, g \in Session!Activated : ~InHands(c, g)
    BY <2>2, <2>3 DEF SessionIInv, HandsAreRight, InHands
  <2>5. \A g \in Session!Activated : agsReleased[g] = 1
    BY <2>1, <2>2, <2>4 DEF SessionIInv, SessionTyped, OneOwns
  <2> QED
    BY <2>1, <2>5
<1>4. Session!CallbacksAreWaitedFor
  BY <1>1, SessionAssumption DEF CallbacksInTime, Session!RunKeepsPlugins,
     Session!CallbacksAreWaitedFor
<1> QED
  BY <1>1, <1>2, <1>3, <1>4 DEF Session!PluginsAreReleased

-----------------------------------------------------------------------------
(* RunStreams.  What the loop has emitted passes its channel, the sink and *)
(* the channel of the session in order, until the handler writes it or the *)
(* sink drops it.                                                          *)

StreamEvent == [kind : RunEventKinds \cup {"ErrorEvent"}, n : Nat]
StreamTypes ==
  {"iteration_start", "iteration_end", "message", "tool_proposed", "tool_authorized",
   "tool_start", "tool_progress", "tool_end", "stream_part", "compaction",
   "context_transformed", "error", "structured_output", "unknown", "done"}
StreamFrame ==
  [type : StreamTypes, n : Nat, data : StreamTypes \cup {"ContextTransformed", "Unknown"}]

ReaderErrors ==
  {None, "none", "ended before a terminal event", "event exceeds the limit", "read", "decode"}

StreamTyped ==
  /\ rstLoop \in [at : {"running", "finalized", "returned"}, failed : BOOLEAN,
                  emitted : Seq(StreamEvent)]
  /\ rstEventCh \in Seq(StreamEvent) /\ rstEvents \in Seq(StreamEvent)
  /\ rstDraining \in StreamEvent \cup {None}
  /\ rstDropped \in BOOLEAN
  /\ rstHandler \in [at : {"reading", "leaving", "closing", "returned"}, tracked : BOOLEAN]
  /\ rstWire \in Seq(StreamFrame)
  /\ rstReader \in [read : Nat, terminal : BOOLEAN, err : ReaderErrors]

(* The events of the run, numbered; an error is the last one.              *)
EmittedInOrder ==
  \A i \in 1..Len(rstLoop.emitted) :
    /\ rstLoop.emitted[i].n = i
    /\ rstLoop.emitted[i].kind = "ErrorEvent" =>
         i = Len(rstLoop.emitted) /\ rstLoop.at # "running"

(* An event on its way is one of those.                                    *)
IsEmitted(e) == e.n \in 1..Len(rstLoop.emitted) /\ e = rstLoop.emitted[e.n]
OnTheirWay ==
  /\ \A i \in 1..Len(rstEventCh) : IsEmitted(rstEventCh[i])
  /\ rstDraining # None => IsEmitted(rstDraining)
  /\ \A i \in 1..Len(rstEvents) : IsEmitted(rstEvents[i])

(* What the handler has taken of a stream without a drop, and where the    *)
(* others are.                                                             *)
Held == IF rstDraining = None THEN 0 ELSE 1
TakenEvents == Len(rstLoop.emitted) - Len(rstEventCh) - Held - Len(rstEvents)
PassedInOrder ==
  ~rstDropped =>
    /\ TakenEvents >= 0
    /\ \A i \in 1..Len(rstEventCh) :
         rstEventCh[i].n = Len(rstLoop.emitted) - Len(rstEventCh) + i
    /\ rstDraining # None => rstDraining.n = Len(rstLoop.emitted) - Len(rstEventCh)
    /\ \A i \in 1..Len(rstEvents) : rstEvents[i].n = TakenEvents + i
    /\ rstConn = "open" /\ rstHandler.at = "reading" => Len(rstWire) = TakenEvents

(* A frame is the event of its number, or the end of a run that has        *)
(* returned.                                                               *)
FramesAreEvents ==
  \A i \in 1..Len(rstWire) :
    /\ Stream!decodeRunStreamEvent(rstWire[i].type) = rstWire[i].data
    /\ Stream!IsTerminal(rstWire[i]) => i = Len(rstWire) /\ rstHandler.at # "reading"
    /\ rstWire[i].type = "done" => rstLoop.at = "returned" /\ ~rstLoop.failed
    /\ rstWire[i].n = 0 =>
         /\ Stream!IsTerminal(rstWire[i]) /\ rstLoop.at = "returned"
         /\ ~rstDropped => i = Len(rstLoop.emitted) + 1
    /\ rstWire[i].n # 0 =>
         /\ rstWire[i].n \in 1..Len(rstLoop.emitted)
         /\ rstWire[i] = Stream!canonicalRunStreamEvent(rstLoop.emitted[rstWire[i].n])
         /\ ~rstDropped => rstWire[i].n = i

(* A loop that has returned has been drained, and the handler does not end *)
(* before it.                                                              *)
LoopIsAhead ==
  /\ rstLoop.at = "returned" => rstEventCh = <<>> /\ rstDraining = None
  /\ rstHandler.at # "reading" => rstLoop.at # "running"
  /\ ~rstHandler.tracked => rstHandler.at # "reading"
  /\ rstHandler.at = "returned" => rstLoop.at = "returned"

(* What the client knows of the end it has read.                           *)
ReaderIsBehind ==
  /\ rstReader.read <= Len(rstWire)
  /\ rstReader.terminal => rstReader.read > 0 /\ Stream!IsTerminal(rstWire[rstReader.read])
  /\ rstReader.err = "none" => rstReader.terminal

StreamIInv ==
  /\ StreamTyped /\ EmittedInOrder /\ OnTheirWay /\ PassedInOrder /\ FramesAreEvents
  /\ LoopIsAhead /\ ReaderIsBehind

(* A frame of an event has its number and ends the stream when it is the   *)
(* error; the client decodes it as what it holds.                          *)
LEMMA FrameOfEvent ==
  ASSUME NEW e \in StreamEvent
  PROVE  LET frame == Stream!canonicalRunStreamEvent(e)
         IN /\ frame \in StreamFrame /\ frame.n = e.n /\ frame.type # "done"
            /\ frame.type = "error" <=> e.kind = "ErrorEvent"
            /\ Stream!IsTerminal(frame) <=> e.kind = "ErrorEvent"
            /\ Stream!decodeRunStreamEvent(frame.type) = frame.data
<1> DEFINE frame == Stream!canonicalRunStreamEvent(e)
           type == Stream!classify(e.kind)
<1>0. e.n \in Nat
  BY DEF StreamEvent
<1>1. /\ type \in StreamTypes /\ type # "done"
      /\ type = "error" <=> e.kind = "ErrorEvent"
      /\ type \in {"compaction", "context_transformed"} <=>
           e.kind \in {"ContextTransformedEvent", "ContextTransformedEvent with a marker"}
  <2>1. type \in StreamTypes
    BY DEF Stream!classify, StreamTypes
  <2>2. type # "done"
    BY DEF Stream!classify
  <2>3. type = "error" <=> e.kind = "ErrorEvent"
    BY DEF Stream!classify
  <2>4. type \in {"compaction", "context_transformed"} <=>
          e.kind \in {"ContextTransformedEvent", "ContextTransformedEvent with a marker"}
    BY DEF Stream!classify
  <2> QED
    BY <2>1, <2>2, <2>3, <2>4
<1>2. frame = [type |-> type, n |-> e.n, data |-> Stream!decodeRunStreamEvent(type)]
  BY <1>1 DEF Stream!canonicalRunStreamEvent, Stream!decodeRunStreamEvent
<1> HIDE DEF type, frame
<1>3. Stream!decodeRunStreamEvent(type) \in StreamTypes \cup {"ContextTransformed", "Unknown"}
  BY <1>1 DEF Stream!decodeRunStreamEvent
<1>4. frame \in StreamFrame /\ frame.n = e.n /\ frame.type = type
        /\ frame.data = Stream!decodeRunStreamEvent(type)
  BY <1>0, <1>1, <1>2, <1>3 DEF StreamFrame
<1>5. Stream!IsTerminal(frame) <=> frame.type \in {"done", "error"}
  BY DEF Stream!IsTerminal
<1>6. /\ frame \in StreamFrame /\ frame.n = e.n /\ frame.type # "done"
      /\ frame.type = "error" <=> e.kind = "ErrorEvent"
      /\ Stream!IsTerminal(frame) <=> e.kind = "ErrorEvent"
      /\ Stream!decodeRunStreamEvent(frame.type) = frame.data
  BY <1>1, <1>4, <1>5
<1> QED
  BY <1>6 DEF frame

(* None is no event, and an error is of no other kind.                     *)
LEMMA NoneIsNoEvent ==
  /\ None \notin StreamEvent /\ None # "none"
  /\ \A kind \in RunEventKinds : kind # "ErrorEvent"
BY RunStreamAssumption DEF StreamEvent

(* A run begins with empty channels and a reader of nothing.               *)
LEMMA StreamInit == Stream!Init => StreamIInv
<1> SUFFICES ASSUME Stream!Init PROVE StreamIInv
  OBVIOUS
<1>1. StreamTyped
  <2>1. /\ rstLoop \in [at : {"running", "finalized", "returned"}, failed : BOOLEAN,
                       emitted : Seq(StreamEvent)]
        /\ rstEventCh \in Seq(StreamEvent) /\ rstEvents \in Seq(StreamEvent)
        /\ rstWire \in Seq(StreamFrame)
    BY DEF Stream!Init
  <2>2. /\ rstDraining \in StreamEvent \cup {None}
        /\ rstReader \in [read : Nat, terminal : BOOLEAN, err : ReaderErrors]
        /\ rstDropped \in BOOLEAN
    BY DEF Stream!Init, ReaderErrors
  <2>3. rstHandler \in [at : {"reading", "leaving", "closing", "returned"}, tracked : BOOLEAN]
    BY DEF Stream!Init
  <2> QED
    BY <2>1, <2>2, <2>3 DEF StreamTyped
<1>2. Len(rstLoop.emitted) = 0 /\ Len(rstEventCh) = 0 /\ Len(rstEvents) = 0 /\ Len(rstWire) = 0
        /\ rstDraining = None
  BY DEF Stream!Init
<1>3. EmittedInOrder /\ OnTheirWay /\ FramesAreEvents
  BY <1>2 DEF EmittedInOrder, OnTheirWay, FramesAreEvents
<1>4. PassedInOrder
  BY <1>2 DEF PassedInOrder, TakenEvents, Held
<1>5. LoopIsAhead /\ ReaderIsBehind
  BY <1>2, NoneIsNoEvent DEF LoopIsAhead, ReaderIsBehind, Stream!Init
<1> QED
  BY <1>1, <1>3, <1>4, <1>5 DEF StreamIInv

(* The invariant says what the run promises of its stream.                 *)
LEMMA StreamSafe == StreamIInv => Stream!RunEndsOnce
<1> SUFFICES ASSUME StreamIInv PROVE Stream!RunEndsOnce
  OBVIOUS
<1>0. /\ Len(rstWire) \in Nat /\ DOMAIN rstWire = 1..Len(rstWire)
      /\ DOMAIN rstLoop.emitted = 1..Len(rstLoop.emitted) /\ Len(rstLoop.emitted) \in Nat
      /\ rstReader.read \in Nat
      /\ \A i \in 1..Len(rstWire) : rstWire[i].n \in Nat
      /\ \A i \in 1..Len(rstLoop.emitted) : rstLoop.emitted[i] \in StreamEvent
  <2>1. /\ rstWire \in Seq(StreamFrame) /\ rstLoop.emitted \in Seq(StreamEvent)
        /\ rstReader.read \in Nat
    BY DEF StreamIInv, StreamTyped
  <2>2. \A i \in 1..Len(rstWire) : rstWire[i] \in StreamFrame
    BY <2>1
  <2>3. \A i \in 1..Len(rstLoop.emitted) : rstLoop.emitted[i] \in StreamEvent
    BY <2>1
  <2> QED
    BY <2>1, <2>2, <2>3 DEF StreamFrame
<1>1. Stream!OneTerminalEvent
  BY <1>0 DEF StreamIInv, FramesAreEvents, Stream!OneTerminalEvent
<1>2. Stream!NothingIsMissing
  <2> SUFFICES ASSUME ~rstDropped
               PROVE  /\ \A i \in DOMAIN rstWire : rstWire[i].n # 0 =>
                           /\ i \in DOMAIN rstLoop.emitted
                           /\ rstWire[i] = Stream!canonicalRunStreamEvent(rstLoop.emitted[i])
                      /\ rstReader.terminal => \A i \in DOMAIN rstLoop.emitted :
                           /\ i \in DOMAIN rstWire
                           /\ rstWire[i] = Stream!canonicalRunStreamEvent(rstLoop.emitted[i])
    BY DEF Stream!NothingIsMissing
  <2>1. \A i \in DOMAIN rstWire : rstWire[i].n # 0 =>
          /\ i \in DOMAIN rstLoop.emitted
          /\ rstWire[i] = Stream!canonicalRunStreamEvent(rstLoop.emitted[i])
    BY <1>0 DEF StreamIInv, FramesAreEvents
  <2>2. ASSUME rstReader.terminal, NEW i \in DOMAIN rstLoop.emitted
        PROVE  /\ i \in DOMAIN rstWire
               /\ rstWire[i] = Stream!canonicalRunStreamEvent(rstLoop.emitted[i])
    <3> DEFINE last == rstReader.read
    <3>1. last = Len(rstWire) /\ last \in 1..Len(rstWire) /\ Stream!IsTerminal(rstWire[last])
      <4>1. last <= Len(rstWire) /\ last > 0 /\ Stream!IsTerminal(rstWire[last])
        BY <2>2 DEF StreamIInv, ReaderIsBehind
      <4>2. last \in 1..Len(rstWire)
        BY <4>1, <1>0
      <4> QED
        BY <4>1, <4>2 DEF StreamIInv, FramesAreEvents
    <3>2. \A j \in 1..Len(rstWire) : rstWire[j].n = 0 => j = last
      BY <3>1 DEF StreamIInv, FramesAreEvents
    <3>3. CASE rstWire[last].n = 0
      <4>1. last = Len(rstLoop.emitted) + 1
        BY <3>1, <3>3 DEF StreamIInv, FramesAreEvents
      <4> QED
        BY <4>1, <3>1, <3>2, <2>1, <2>2, <1>0
    <3>4. CASE rstWire[last].n # 0
      <4>1. /\ last \in 1..Len(rstLoop.emitted)
            /\ rstWire[last] = Stream!canonicalRunStreamEvent(rstLoop.emitted[last])
        BY <2>1, <3>1, <3>4, <1>0
      <4>2. rstLoop.emitted[last].kind = "ErrorEvent"
        BY <4>1, <3>1, <1>0, FrameOfEvent
      <4>3. last = Len(rstLoop.emitted)
        BY <4>1, <4>2 DEF StreamIInv, EmittedInOrder
      <4> QED
        BY <4>3, <3>1, <3>2, <3>4, <2>1, <2>2, <1>0
    <3> QED
      BY <3>3, <3>4
  <2> QED
    BY <2>1, <2>2
<1>3. Stream!EndIsKnown
  BY DEF StreamIInv, ReaderIsBehind, Stream!EndIsKnown
<1>4. Stream!LoopHasEnded
  BY DEF StreamIInv, LoopIsAhead, Stream!LoopHasEnded
<1> QED
  BY <1>1, <1>2, <1>3, <1>4 DEF Stream!RunEndsOnce

(* The types, without the records and the sequences around them.           *)
LEMMA StreamIsKnown ==
  ASSUME StreamTyped
  PROVE  /\ rstLoop.emitted \in Seq(StreamEvent) /\ rstEventCh \in Seq(StreamEvent)
         /\ rstEvents \in Seq(StreamEvent) /\ rstWire \in Seq(StreamFrame)
         /\ Len(rstLoop.emitted) \in Nat /\ Len(rstEventCh) \in Nat /\ Len(rstEvents) \in Nat
         /\ Len(rstWire) \in Nat /\ Held \in {0, 1} /\ TakenEvents \in Int
         /\ \A i \in 1..Len(rstLoop.emitted) : rstLoop.emitted[i] \in StreamEvent
         /\ \A i \in 1..Len(rstEventCh) : rstEventCh[i] \in StreamEvent
         /\ \A i \in 1..Len(rstEvents) : rstEvents[i] \in StreamEvent
         /\ rstDraining # None => rstDraining \in StreamEvent
         /\ rstLoop.at \in {"running", "finalized", "returned"} /\ rstReader.read \in Nat
         /\ rstHandler.at \in {"reading", "leaving", "closing", "returned"}
<1>1. /\ rstLoop.emitted \in Seq(StreamEvent) /\ rstEventCh \in Seq(StreamEvent)
      /\ rstEvents \in Seq(StreamEvent) /\ rstWire \in Seq(StreamFrame)
      /\ rstDraining # None => rstDraining \in StreamEvent
      /\ rstLoop.at \in {"running", "finalized", "returned"} /\ rstReader.read \in Nat
      /\ rstHandler.at \in {"reading", "leaving", "closing", "returned"}
  BY DEF StreamTyped
<1>2. /\ Len(rstLoop.emitted) \in Nat /\ Len(rstEventCh) \in Nat /\ Len(rstEvents) \in Nat
      /\ Len(rstWire) \in Nat
      /\ \A i \in 1..Len(rstLoop.emitted) : rstLoop.emitted[i] \in StreamEvent
      /\ \A i \in 1..Len(rstEventCh) : rstEventCh[i] \in StreamEvent
      /\ \A i \in 1..Len(rstEvents) : rstEvents[i] \in StreamEvent
  BY <1>1
<1>3. Held \in {0, 1} /\ TakenEvents \in Int
  BY <1>2 DEF Held, TakenEvents
<1> QED
  BY <1>1, <1>2, <1>3

(* The loop emits an event: it is the next one and the last in its channel. *)
LEMMA StreamEmits ==
  ASSUME StreamIInv, NEW kind \in RunEventKinds \cup {"ErrorEvent"},
         NEW at \in {"running", "finalized"}, NEW failed \in BOOLEAN,
         kind = "ErrorEvent" => at = "finalized", rstLoop.at = "running",
         rstLoop' = [at |-> at, failed |-> failed,
                     emitted |-> Append(rstLoop.emitted,
                       [kind |-> kind, n |-> Len(rstLoop.emitted) + 1])],
         rstEventCh' = Append(rstEventCh, [kind |-> kind, n |-> Len(rstLoop.emitted) + 1]),
         UNCHANGED <<rstDraining, rstEvents, rstDropped, rstHandler, rstWire, rstConn, rstReader>>
  PROVE  StreamIInv'
<1> DEFINE n == Len(rstLoop.emitted) + 1
           e == [kind |-> kind, n |-> n]
<1>1. StreamTyped /\ EmittedInOrder /\ OnTheirWay /\ PassedInOrder /\ FramesAreEvents
        /\ LoopIsAhead /\ ReaderIsBehind
  BY DEF StreamIInv
<1>2. n \in Nat \ {0} /\ e \in StreamEvent /\ e.kind = kind /\ e.n = n
  BY <1>1, StreamIsKnown DEF StreamEvent
<1> HIDE DEF e
<1>3. /\ rstLoop'.emitted = Append(rstLoop.emitted, e) /\ rstLoop'.at = at
      /\ rstEventCh' = Append(rstEventCh, e)
  BY DEF e
<1>4. /\ Len(rstLoop'.emitted) = n /\ rstLoop'.emitted[n] = e
      /\ \A i \in 1..Len(rstLoop.emitted) : rstLoop'.emitted[i] = rstLoop.emitted[i]
      /\ rstLoop'.emitted \in Seq(StreamEvent)
  BY <1>1, <1>2, <1>3, StreamIsKnown
<1>5. /\ Len(rstEventCh') = Len(rstEventCh) + 1 /\ rstEventCh'[Len(rstEventCh) + 1] = e
      /\ \A i \in 1..Len(rstEventCh) : rstEventCh'[i] = rstEventCh[i]
      /\ rstEventCh' \in Seq(StreamEvent)
  BY <1>1, <1>2, <1>3, StreamIsKnown
<1>6. StreamTyped'
  BY <1>1, <1>4, <1>5 DEF StreamTyped
<1>7. EmittedInOrder'
  <2>1. \A i \in 1..Len(rstLoop.emitted) :
          rstLoop.emitted[i].n = i /\ rstLoop.emitted[i].kind # "ErrorEvent"
    BY <1>1 DEF EmittedInOrder
  <2> QED
    BY <2>1, <1>2, <1>3, <1>4 DEF EmittedInOrder
<1>8. \A f : IsEmitted(f) => f.n \in 1..Len(rstLoop'.emitted) /\ f = rstLoop'.emitted[f.n]
  BY <1>1, <1>4, StreamIsKnown DEF IsEmitted
<1>9. OnTheirWay'
  <2>1. e.n \in 1..Len(rstLoop'.emitted) /\ e = rstLoop'.emitted[e.n]
    BY <1>2, <1>4
  <2>2. \A i \in 1..Len(rstEventCh') : \/ rstEventCh'[i] = e
                                       \/ i \in 1..Len(rstEventCh) /\ IsEmitted(rstEventCh'[i])
    BY <1>1, <1>5, StreamIsKnown DEF OnTheirWay
  <2>3. /\ rstDraining # None => IsEmitted(rstDraining)
        /\ \A i \in 1..Len(rstEvents) : IsEmitted(rstEvents[i])
    BY <1>1 DEF OnTheirWay
  <2> HIDE DEF n
  <2> QED
    BY <2>1, <2>2, <2>3, <1>8 DEF OnTheirWay, IsEmitted
<1>10. PassedInOrder'
  <2>1. TakenEvents' = TakenEvents
    <3>1. Len(rstLoop'.emitted) - Len(rstEventCh') = Len(rstLoop.emitted) - Len(rstEventCh)
      <4> DEFINE emitted == Len(rstLoop'.emitted)
                 waiting == Len(rstEventCh')
      <4>1. Len(rstLoop.emitted) \in Nat /\ Len(rstEventCh) \in Nat
        BY <1>1, StreamIsKnown
      <4>2. emitted = Len(rstLoop.emitted) + 1 /\ waiting = Len(rstEventCh) + 1
        BY <1>4, <1>5
      <4> HIDE DEF emitted, waiting
      <4>3. emitted - waiting = Len(rstLoop.emitted) - Len(rstEventCh)
        BY <4>1, <4>2
      <4> QED
        BY <4>3 DEF emitted, waiting
    <3>2. Held' = Held /\ rstEvents' = rstEvents
      BY DEF Held
    <3> QED
      BY <3>1, <3>2 DEF TakenEvents
  <2> QED
    BY <2>1, <1>1, <1>2, <1>4, <1>5, StreamIsKnown DEF PassedInOrder
<1>11. FramesAreEvents'
  BY <1>1, <1>3, <1>4, StreamIsKnown DEF FramesAreEvents
<1>12. LoopIsAhead' /\ ReaderIsBehind'
  BY <1>1, <1>3 DEF LoopIsAhead, ReaderIsBehind
<1> QED
  BY <1>6, <1>7, <1>9, <1>10, <1>11, <1>12 DEF StreamIInv

(* The loop stops emitting, or its channel is empty and it has returned.   *)
LEMMA StreamLoopEnds ==
  ASSUME StreamIInv, NEW failed \in BOOLEAN, Stream!Finalize(failed) \/ Stream!Return(failed)
  PROVE  StreamIInv'
<1>1. StreamTyped /\ EmittedInOrder /\ OnTheirWay /\ PassedInOrder /\ FramesAreEvents
        /\ LoopIsAhead /\ ReaderIsBehind
  BY DEF StreamIInv
<1>2. UNCHANGED <<rstEventCh, rstDraining, rstEvents, rstDropped, rstHandler, rstWire, rstConn,
                  rstReader>>
  BY DEF Stream!Finalize, Stream!Return
<1>3. /\ rstLoop'.emitted = rstLoop.emitted /\ rstLoop.at # "returned" /\ rstLoop'.at # "running"
      /\ rstLoop'.at = "returned" => rstEventCh = <<>> /\ rstDraining = None
      /\ rstLoop' \in [at : {"running", "finalized", "returned"}, failed : BOOLEAN,
                       emitted : Seq(StreamEvent)]
  BY <1>1 DEF StreamTyped, Stream!Finalize, Stream!Return
<1>4. StreamTyped'
  BY <1>1, <1>2, <1>3 DEF StreamTyped
<1>5. EmittedInOrder' /\ OnTheirWay' /\ PassedInOrder'
  <2>1. EmittedInOrder'
    BY <1>1, <1>2, <1>3 DEF EmittedInOrder
  <2>2. OnTheirWay'
    BY <1>1, <1>2, <1>3 DEF OnTheirWay, IsEmitted
  <2>3. TakenEvents' = TakenEvents
    BY <1>2, <1>3 DEF TakenEvents, Held
  <2>4. PassedInOrder'
    BY <2>3, <1>1, <1>2, <1>3 DEF PassedInOrder
  <2> QED
    BY <2>1, <2>2, <2>4
<1>6. FramesAreEvents'
  BY <1>1, <1>2, <1>3 DEF FramesAreEvents
<1>7. LoopIsAhead' /\ ReaderIsBehind'
  BY <1>1, <1>2, <1>3 DEF LoopIsAhead, ReaderIsBehind
<1> QED
  BY <1>4, <1>5, <1>6, <1>7 DEF StreamIInv

(* The head of a sequence and what follows it.                             *)
LEMMA HeadAndTail ==
  ASSUME NEW S, NEW q \in Seq(S), q # <<>>
  PROVE  /\ Head(q) \in S /\ Head(q) = q[1] /\ 1 \in 1..Len(q) /\ Len(q) \in Nat
         /\ Tail(q) \in Seq(S) /\ Len(Tail(q)) = Len(q) - 1
         /\ \A i \in 1..Len(Tail(q)) : i + 1 \in 1..Len(q) /\ Tail(q)[i] = q[i + 1]
OBVIOUS

(* The drain goroutine takes the next event of the channel, the sink       *)
(* passes it on or drops it.                                               *)
LEMMA StreamDrains ==
  ASSUME StreamIInv, Stream!Drain \/ Stream!Forward \/ Stream!Drop
  PROVE  StreamIInv'
<1>1. StreamTyped /\ EmittedInOrder /\ OnTheirWay /\ PassedInOrder /\ FramesAreEvents
        /\ LoopIsAhead /\ ReaderIsBehind
  BY DEF StreamIInv
<1>2. UNCHANGED <<rstLoop, rstHandler, rstWire, rstConn, rstReader>>
        /\ (rstDropped => rstDropped')
  BY DEF Stream!Drain, Stream!Forward, Stream!Drop
<1>3. EmittedInOrder' /\ ReaderIsBehind' /\ FramesAreEvents'
  BY <1>1, <1>2 DEF EmittedInOrder, ReaderIsBehind, FramesAreEvents
<1>4. \A f : IsEmitted(f)' <=> IsEmitted(f)
  BY <1>2 DEF IsEmitted
<1>5. CASE Stream!Drain
  <2>1. /\ rstDraining = None /\ rstEventCh # <<>>
        /\ rstDraining' = Head(rstEventCh) /\ rstEventCh' = Tail(rstEventCh)
        /\ rstEvents' = rstEvents /\ rstDropped' = rstDropped
    BY <1>5 DEF Stream!Drain
  <2>2. /\ rstDraining' \in StreamEvent /\ rstDraining' = rstEventCh[1] /\ 1 \in 1..Len(rstEventCh)
        /\ rstEventCh' \in Seq(StreamEvent) /\ Len(rstEventCh') = Len(rstEventCh) - 1
        /\ \A i \in 1..Len(rstEventCh') :
             i + 1 \in 1..Len(rstEventCh) /\ rstEventCh'[i] = rstEventCh[i + 1]
    BY <2>1, <1>1, StreamIsKnown, HeadAndTail
  <2>3. rstDraining' # None
    BY <2>2, NoneIsNoEvent
  <2>4. StreamTyped'
    BY <2>1, <2>2, <1>1, <1>2 DEF StreamTyped
  <2>5. OnTheirWay'
    BY <2>1, <2>2, <1>1, <1>4 DEF OnTheirWay
  <2>6. PassedInOrder'
    <3>1. TakenEvents' = TakenEvents
      BY <2>1, <2>2, <2>3, <1>1, <1>2, StreamIsKnown DEF TakenEvents, Held
    <3>2. Len(rstLoop.emitted) \in Nat /\ Len(rstEventCh) \in Nat
      BY <1>1, StreamIsKnown
    <3>3. ~rstDropped => /\ rstDraining'.n = Len(rstLoop.emitted) - Len(rstEventCh')
                         /\ \A i \in 1..Len(rstEventCh') :
                              rstEventCh'[i].n = Len(rstLoop.emitted) - Len(rstEventCh') + i
      <4>1. ~rstDropped => \A i \in 1..Len(rstEventCh) :
              rstEventCh[i].n = Len(rstLoop.emitted) - Len(rstEventCh) + i
        BY <1>1 DEF PassedInOrder
      <4>2. ~rstDropped => rstDraining'.n = Len(rstLoop.emitted) - Len(rstEventCh')
        BY <4>1, <3>2, <2>2
      <4>3. ASSUME ~rstDropped, NEW i \in 1..Len(rstEventCh')
            PROVE  rstEventCh'[i].n = Len(rstLoop.emitted) - Len(rstEventCh') + i
        <5>1. rstEventCh'[i].n = Len(rstLoop.emitted) - Len(rstEventCh) + (i + 1)
          BY <4>1, <4>3, <2>2
        <5> DEFINE all == Len(rstLoop.emitted)
                   waited == Len(rstEventCh)
                   waiting == Len(rstEventCh')
        <5>2. waiting = waited - 1 /\ i \in Nat /\ all \in Nat /\ waited \in Nat
          BY <3>2, <2>2
        <5> HIDE DEF all, waited, waiting
        <5>3. all - waited + (i + 1) = all - waiting + i
          BY <5>2
        <5> QED
          BY <5>1, <5>3 DEF all, waited, waiting
      <4> QED
        BY <4>2, <4>3
    <3> QED
      BY <3>1, <3>3, <2>1, <1>1, <1>2 DEF PassedInOrder
  <2>7. LoopIsAhead'
    BY <2>1, <1>1, <1>2 DEF LoopIsAhead
  <2> QED
    BY <1>3, <2>4, <2>5, <2>6, <2>7 DEF StreamIInv
<1>6. CASE Stream!Forward
  <2>1. /\ rstDraining # None /\ rstDraining' = None
        /\ rstEvents' = Append(rstEvents, rstDraining)
        /\ rstEventCh' = rstEventCh /\ rstDropped' = rstDropped
    BY <1>6 DEF Stream!Forward
  <2>2. /\ rstEvents' \in Seq(StreamEvent) /\ Len(rstEvents') = Len(rstEvents) + 1
        /\ rstEvents'[Len(rstEvents) + 1] = rstDraining
        /\ \A i \in 1..Len(rstEvents) : rstEvents'[i] = rstEvents[i]
    BY <2>1, <1>1, StreamIsKnown
  <2>3. StreamTyped'
    BY <2>1, <2>2, <1>1, <1>2 DEF StreamTyped
  <2>4. OnTheirWay'
    BY <2>1, <2>2, <1>1, <1>4, StreamIsKnown DEF OnTheirWay
  <2>5. PassedInOrder'
    <3>1. TakenEvents' = TakenEvents
      BY <2>1, <2>2, <1>1, <1>2, StreamIsKnown DEF TakenEvents, Held
    <3>2. Len(rstLoop.emitted) - Len(rstEventCh) = TakenEvents + Len(rstEvents) + 1
      BY <2>1, <1>1, StreamIsKnown DEF TakenEvents, Held
    <3>3. ASSUME ~rstDropped, NEW i \in 1..Len(rstEvents')
          PROVE  rstEvents'[i].n = TakenEvents + i
      <4>1. CASE i \in 1..Len(rstEvents)
        BY <4>1, <3>3, <2>2, <1>1 DEF PassedInOrder
      <4>2. CASE i = Len(rstEvents) + 1
        <5>1. rstDraining.n = Len(rstLoop.emitted) - Len(rstEventCh)
          BY <3>3, <2>1, <1>1 DEF PassedInOrder
        <5> QED
          BY <5>1, <4>2, <3>2, <2>2, <1>1, StreamIsKnown
      <4> QED
        BY <4>1, <4>2, <2>2, <1>1, StreamIsKnown
    <3> QED
      BY <3>1, <3>3, <2>1, <1>1, <1>2 DEF PassedInOrder
  <2>6. LoopIsAhead'
    BY <2>1, <1>1, <1>2 DEF LoopIsAhead
  <2> QED
    BY <1>3, <2>3, <2>4, <2>5, <2>6 DEF StreamIInv
<1>7. CASE Stream!Drop
  <2>1. /\ rstDraining' = None /\ rstDropped' = TRUE
        /\ rstEventCh' = rstEventCh /\ rstEvents' = rstEvents
    BY <1>7 DEF Stream!Drop
  <2>2. StreamTyped' /\ OnTheirWay' /\ PassedInOrder' /\ LoopIsAhead'
    BY <2>1, <1>1, <1>2, <1>4 DEF StreamTyped, OnTheirWay, PassedInOrder, LoopIsAhead
  <2> QED
    BY <1>3, <2>2 DEF StreamIInv
<1> QED
  BY <1>5, <1>6, <1>7

(* A frame goes to the end of the wire, unless the client is gone.         *)
LEMMA WireGrows ==
  ASSUME StreamTyped, NEW frame \in StreamFrame, Stream!Write(frame)
  PROVE  /\ rstWire' \in Seq(StreamFrame)
         /\ \A i \in 1..Len(rstWire) : rstWire'[i] = rstWire[i] /\ i \in 1..Len(rstWire')
         /\ rstConn = "open" =>
              Len(rstWire') = Len(rstWire) + 1 /\ rstWire'[Len(rstWire) + 1] = frame
         /\ rstConn # "open" => rstWire' = rstWire
         /\ Len(rstWire) <= Len(rstWire')
<1>1. rstWire \in Seq(StreamFrame) /\ Len(rstWire) \in Nat
  BY StreamIsKnown
<1>2. CASE rstConn = "open"
  <2>1. rstWire' = Append(rstWire, frame)
    BY <1>2 DEF Stream!Write
  <2> QED
    BY <1>1, <1>2, <2>1
<1>3. CASE rstConn # "open"
  <2>1. rstWire' = rstWire
    BY <1>3 DEF Stream!Write
  <2> QED
    BY <1>1, <1>3, <2>1
<1> QED
  BY <1>2, <1>3

(* What a reader has read stays where it is.                               *)
LEMMA ReaderStays ==
  ASSUME StreamTyped, ReaderIsBehind, rstReader' = rstReader, Len(rstWire) <= Len(rstWire'),
         \A i \in 1..Len(rstWire) : rstWire'[i] = rstWire[i], Len(rstWire') \in Nat
  PROVE  ReaderIsBehind'
<1>1. rstReader.read \in Nat /\ Len(rstWire) \in Nat /\ rstReader.read <= Len(rstWire)
  BY StreamIsKnown DEF ReaderIsBehind
<1>2. rstReader.read <= Len(rstWire')
  BY <1>1
<1>3. ASSUME rstReader.terminal
      PROVE  rstReader.read > 0 /\ Stream!IsTerminal(rstWire'[rstReader.read])
  <2>1. rstReader.read > 0 /\ Stream!IsTerminal(rstWire[rstReader.read])
    BY <1>3 DEF ReaderIsBehind
  <2>2. rstReader.read \in 1..Len(rstWire)
    BY <1>1, <2>1
  <2>3. rstWire'[rstReader.read] = rstWire[rstReader.read]
    BY <2>2
  <2> QED
    BY <2>1, <2>3
<1>4. rstReader.err = "none" => rstReader.terminal
  BY DEF ReaderIsBehind
<1> QED
  BY <1>2, <1>3, <1>4 DEF ReaderIsBehind

(* The handler writes the event at the head of the stream, and leaves      *)
(* after an error.                                                         *)
LEMMA StreamWritesEvent ==
  ASSUME StreamIInv, Stream!WriteEvent PROVE StreamIInv'
<1>1. StreamTyped /\ EmittedInOrder /\ OnTheirWay /\ PassedInOrder /\ FramesAreEvents
        /\ LoopIsAhead /\ ReaderIsBehind
  BY DEF StreamIInv
<1> DEFINE e == Head(rstEvents)
           frame == Stream!canonicalRunStreamEvent(e)
<1>2. /\ rstHandler.at = "reading" /\ rstEvents # <<>> /\ Stream!Write(frame)
      /\ rstHandler' = [rstHandler EXCEPT !.at = IF frame.type = "error" THEN "leaving" ELSE @]
      /\ rstEvents' = Tail(rstEvents)
      /\ UNCHANGED <<rstLoop, rstEventCh, rstDraining, rstDropped, rstConn, rstReader>>
  BY DEF Stream!WriteEvent
<1> HIDE DEF frame
<1>3. /\ e \in StreamEvent /\ e = rstEvents[1] /\ 1 \in 1..Len(rstEvents)
      /\ rstEvents' \in Seq(StreamEvent) /\ Len(rstEvents') = Len(rstEvents) - 1
      /\ \A i \in 1..Len(rstEvents') :
           i + 1 \in 1..Len(rstEvents) /\ rstEvents'[i] = rstEvents[i + 1]
  BY <1>1, <1>2, StreamIsKnown, HeadAndTail
<1> HIDE DEF e
<1>4. /\ IsEmitted(e) /\ e.n \in 1..Len(rstLoop.emitted) /\ e = rstLoop.emitted[e.n]
  BY <1>1, <1>3 DEF OnTheirWay, IsEmitted
<1>5. /\ frame \in StreamFrame /\ frame.n = e.n /\ frame.type # "done"
      /\ frame.type = "error" <=> e.kind = "ErrorEvent"
      /\ Stream!IsTerminal(frame) <=> e.kind = "ErrorEvent"
      /\ Stream!decodeRunStreamEvent(frame.type) = frame.data
      /\ frame = Stream!canonicalRunStreamEvent(rstLoop.emitted[e.n])
  BY <1>3, <1>4, FrameOfEvent DEF frame
<1>6. e.kind = "ErrorEvent" => rstLoop.at # "running" /\ e.n = Len(rstLoop.emitted)
  BY <1>1, <1>4 DEF EmittedInOrder
<1>7. /\ rstHandler' \in [at : {"reading", "leaving", "closing", "returned"}, tracked : BOOLEAN]
      /\ rstHandler'.at = IF e.kind = "ErrorEvent" THEN "leaving" ELSE "reading"
      /\ rstHandler'.tracked = rstHandler.tracked
  BY <1>1, <1>2, <1>5 DEF StreamTyped
<1>8. /\ rstWire' \in Seq(StreamFrame)
      /\ \A i \in 1..Len(rstWire) : rstWire'[i] = rstWire[i] /\ i \in 1..Len(rstWire')
      /\ rstConn = "open" =>
           Len(rstWire') = Len(rstWire) + 1 /\ rstWire'[Len(rstWire) + 1] = frame
      /\ rstConn # "open" => rstWire' = rstWire
      /\ Len(rstWire) <= Len(rstWire') /\ Len(rstWire') \in Nat
  BY <1>1, <1>2, <1>5, WireGrows
<1>9. StreamTyped'
  BY <1>1, <1>2, <1>3, <1>7, <1>8 DEF StreamTyped
<1>10. EmittedInOrder' /\ LoopIsAhead'
  BY <1>1, <1>2, <1>6, <1>7 DEF EmittedInOrder, LoopIsAhead
<1>11. OnTheirWay'
  BY <1>1, <1>2, <1>3 DEF OnTheirWay, IsEmitted
<1>12. TakenEvents' = TakenEvents + 1 /\ TakenEvents \in Int
  BY <1>1, <1>2, <1>3, StreamIsKnown DEF TakenEvents, Held
<1>13. PassedInOrder'
  <2> SUFFICES ASSUME ~rstDropped PROVE PassedInOrder'
    BY <1>2 DEF PassedInOrder
  <2>1. TakenEvents >= 0 /\ TakenEvents' >= 0
    BY <1>1, <1>12 DEF PassedInOrder
  <2>2. \A i \in 1..Len(rstEvents') : rstEvents'[i].n = TakenEvents' + i
    <3> TAKE i \in 1..Len(rstEvents')
    <3>1. rstEvents'[i].n = TakenEvents + (i + 1)
      BY <1>1, <1>3 DEF PassedInOrder
    <3> QED
      BY <3>1, <1>12
  <2>3. rstConn = "open" => Len(rstWire') = TakenEvents'
    BY <1>1, <1>2, <1>8, <1>12 DEF PassedInOrder
  <2> QED
    BY <2>1, <2>2, <2>3, <1>1, <1>2 DEF PassedInOrder
<1>14. FramesAreEvents'
  <2>1. CASE rstConn # "open"
    <3>1. rstWire' = rstWire
      BY <2>1, <1>8
    <3>2. \A i \in 1..Len(rstWire) : ~Stream!IsTerminal(rstWire[i])
      BY <1>1, <1>2 DEF FramesAreEvents
    <3> QED
      BY <3>1, <3>2, <1>1, <1>2 DEF FramesAreEvents
  <2>2. CASE rstConn = "open"
    <3> SUFFICES ASSUME NEW i \in 1..Len(rstWire')
                 PROVE  /\ Stream!decodeRunStreamEvent(rstWire'[i].type) = rstWire'[i].data
                        /\ Stream!IsTerminal(rstWire'[i]) =>
                             i = Len(rstWire') /\ rstHandler'.at # "reading"
                        /\ rstWire'[i].type = "done" =>
                             rstLoop.at = "returned" /\ ~rstLoop.failed
                        /\ rstWire'[i].n = 0 =>
                             /\ Stream!IsTerminal(rstWire'[i]) /\ rstLoop.at = "returned"
                             /\ ~rstDropped => i = Len(rstLoop.emitted) + 1
                        /\ rstWire'[i].n # 0 =>
                             /\ rstWire'[i].n \in 1..Len(rstLoop.emitted)
                             /\ rstWire'[i]
                                  = Stream!canonicalRunStreamEvent(rstLoop.emitted[rstWire'[i].n])
                             /\ ~rstDropped => rstWire'[i].n = i
      BY <1>2 DEF FramesAreEvents
    <3>1. CASE i \in 1..Len(rstWire)
      <4>1. rstWire'[i] = rstWire[i] /\ ~Stream!IsTerminal(rstWire[i])
        BY <3>1, <1>1, <1>2, <1>8 DEF FramesAreEvents
      <4> QED
        BY <3>1, <4>1, <1>1 DEF FramesAreEvents
    <3>2. CASE i = Len(rstWire) + 1
      <4>1. rstWire'[i] = frame /\ i = Len(rstWire')
        BY <2>2, <3>2, <1>8
      <4>2. ~rstDropped => e.n = i
        <5>1. ~rstDropped => e.n = TakenEvents + 1 /\ Len(rstWire) = TakenEvents
          BY <2>2, <1>1, <1>2, <1>3 DEF PassedInOrder
        <5> QED
          BY <5>1, <3>2
      <4>3. frame.n # 0 /\ frame.n = e.n
        BY <1>1, <1>4, <1>5, StreamIsKnown
      <4> QED
        BY <4>1, <4>2, <4>3, <1>4, <1>5, <1>7
    <3> QED
      BY <3>1, <3>2, <2>2, <1>1, <1>8, StreamIsKnown
  <2> QED
    BY <2>1, <2>2
<1>15. ReaderIsBehind'
  BY <1>1, <1>2, <1>8, ReaderStays
<1> QED
  BY <1>9, <1>10, <1>11, <1>13, <1>14, <1>15 DEF StreamIInv

(* The stream is closed: the handler writes how the run ended, after all   *)
(* that it has emitted.                                                    *)
LEMMA StreamWritesEnd ==
  ASSUME StreamIInv, Stream!WriteEnd PROVE StreamIInv'
<1>1. StreamTyped /\ EmittedInOrder /\ OnTheirWay /\ PassedInOrder /\ FramesAreEvents
        /\ LoopIsAhead /\ ReaderIsBehind
  BY DEF StreamIInv
<1> DEFINE type == IF rstLoop.failed THEN "error" ELSE "done"
           frame == [type |-> type, n |-> 0, data |-> type]
<1>2. /\ rstHandler.at = "reading" /\ rstEvents = <<>> /\ rstLoop.at = "returned"
      /\ Stream!Write(frame) /\ rstHandler' = [rstHandler EXCEPT !.at = "leaving"]
      /\ UNCHANGED <<rstLoop, rstEventCh, rstDraining, rstEvents, rstDropped, rstConn, rstReader>>
  BY DEF Stream!WriteEnd
<1>3. /\ frame \in StreamFrame /\ frame.n = 0 /\ frame.type \in {"done", "error"}
      /\ frame.type = "done" => ~rstLoop.failed
      /\ frame.data = frame.type
  BY DEF StreamFrame, StreamTypes
<1> HIDE DEF frame
<1>4. Stream!IsTerminal(frame) /\ Stream!decodeRunStreamEvent(frame.type) = frame.data
  BY <1>3 DEF Stream!IsTerminal, Stream!decodeRunStreamEvent
<1>5. /\ rstHandler' \in [at : {"reading", "leaving", "closing", "returned"}, tracked : BOOLEAN]
      /\ rstHandler'.at = "leaving" /\ rstHandler'.tracked = rstHandler.tracked
  BY <1>1, <1>2 DEF StreamTyped
<1>6. /\ rstWire' \in Seq(StreamFrame)
      /\ \A i \in 1..Len(rstWire) : rstWire'[i] = rstWire[i] /\ i \in 1..Len(rstWire')
      /\ rstConn = "open" =>
           Len(rstWire') = Len(rstWire) + 1 /\ rstWire'[Len(rstWire) + 1] = frame
      /\ rstConn # "open" => rstWire' = rstWire
      /\ Len(rstWire) <= Len(rstWire') /\ Len(rstWire') \in Nat
  BY <1>1, <1>2, <1>3, WireGrows
<1>7. StreamTyped'
  BY <1>1, <1>2, <1>5, <1>6 DEF StreamTyped
<1>8. EmittedInOrder' /\ OnTheirWay' /\ LoopIsAhead'
  BY <1>1, <1>2, <1>5 DEF EmittedInOrder, OnTheirWay, IsEmitted, LoopIsAhead
<1>9. PassedInOrder'
  BY <1>1, <1>2, <1>5 DEF PassedInOrder, TakenEvents, Held
<1>10. ~rstDropped /\ rstConn = "open" => Len(rstWire) = Len(rstLoop.emitted)
  <2>1. Len(rstEvents) = 0 /\ Len(rstEventCh) = 0 /\ rstDraining = None
    BY <1>1, <1>2 DEF LoopIsAhead
  <2>2. TakenEvents = Len(rstLoop.emitted)
    BY <2>1, <1>1, StreamIsKnown DEF TakenEvents, Held
  <2> QED
    BY <2>2, <1>1, <1>2 DEF PassedInOrder
<1>11. FramesAreEvents'
  <2>1. CASE rstConn # "open"
    <3>1. rstWire' = rstWire
      BY <2>1, <1>6
    <3>2. \A i \in 1..Len(rstWire) : ~Stream!IsTerminal(rstWire[i])
      BY <1>1, <1>2 DEF FramesAreEvents
    <3> QED
      BY <3>1, <3>2, <1>1, <1>2 DEF FramesAreEvents
  <2>2. CASE rstConn = "open"
    <3> SUFFICES ASSUME NEW i \in 1..Len(rstWire')
                 PROVE  /\ Stream!decodeRunStreamEvent(rstWire'[i].type) = rstWire'[i].data
                        /\ Stream!IsTerminal(rstWire'[i]) =>
                             i = Len(rstWire') /\ rstHandler'.at # "reading"
                        /\ rstWire'[i].type = "done" =>
                             rstLoop.at = "returned" /\ ~rstLoop.failed
                        /\ rstWire'[i].n = 0 =>
                             /\ Stream!IsTerminal(rstWire'[i]) /\ rstLoop.at = "returned"
                             /\ ~rstDropped => i = Len(rstLoop.emitted) + 1
                        /\ rstWire'[i].n # 0 =>
                             /\ rstWire'[i].n \in 1..Len(rstLoop.emitted)
                             /\ rstWire'[i]
                                  = Stream!canonicalRunStreamEvent(rstLoop.emitted[rstWire'[i].n])
                             /\ ~rstDropped => rstWire'[i].n = i
      BY <1>2 DEF FramesAreEvents
    <3>1. CASE i \in 1..Len(rstWire)
      <4>1. rstWire'[i] = rstWire[i] /\ ~Stream!IsTerminal(rstWire[i])
        BY <3>1, <1>1, <1>2, <1>6 DEF FramesAreEvents
      <4> QED
        BY <3>1, <4>1, <1>1 DEF FramesAreEvents
    <3>2. CASE i = Len(rstWire) + 1
      <4>1. rstWire'[i] = frame /\ i = Len(rstWire')
        BY <2>2, <3>2, <1>6
      <4>2. ~rstDropped => i = Len(rstLoop.emitted) + 1
        BY <2>2, <3>2, <1>10
      <4> QED
        BY <4>1, <4>2, <1>2, <1>3, <1>4, <1>5
    <3> QED
      BY <3>1, <3>2, <2>2, <1>1, <1>6, StreamIsKnown
  <2> QED
    BY <2>1, <2>2
<1>12. ReaderIsBehind'
  BY <1>1, <1>2, <1>6, ReaderStays
<1> QED
  BY <1>7, <1>8, <1>9, <1>11, <1>12 DEF StreamIInv

(* The deferred calls, a shutdown and a client that goes away move the     *)
(* handler and the connection only.                                        *)
LEMMA StreamLeaves ==
  ASSUME StreamIInv,
         Stream!Untrack \/ Stream!CancelRun \/ Stream!CloseSession \/ Stream!Shutdown
           \/ Stream!Disconnect
  PROVE  StreamIInv'
<1>1. StreamTyped /\ EmittedInOrder /\ OnTheirWay /\ PassedInOrder /\ FramesAreEvents
        /\ LoopIsAhead /\ ReaderIsBehind
  BY DEF StreamIInv
<1>2. UNCHANGED <<rstLoop, rstEventCh, rstDraining, rstEvents, rstDropped, rstWire, rstReader>>
  BY DEF Stream!Untrack, Stream!CancelRun, Stream!CloseSession, Stream!Shutdown,
         Stream!Disconnect
<1>3. /\ rstHandler' \in [at : {"reading", "leaving", "closing", "returned"}, tracked : BOOLEAN]
      /\ rstHandler'.at = "reading" <=> rstHandler.at = "reading"
      /\ rstHandler'.tracked = rstHandler.tracked \/ rstHandler.at # "reading"
      /\ rstHandler'.at = "returned" => rstHandler.at = "returned" \/ rstLoop.at = "returned"
  BY <1>1 DEF StreamTyped, Stream!Untrack, Stream!CancelRun, Stream!CloseSession,
              Stream!Shutdown, Stream!Disconnect
<1>4. rstConn' = "open" => rstConn = "open"
  BY DEF Stream!Untrack, Stream!CancelRun, Stream!CloseSession, Stream!Shutdown,
         Stream!Disconnect
<1>5. StreamTyped' /\ EmittedInOrder' /\ OnTheirWay' /\ ReaderIsBehind'
  BY <1>1, <1>2, <1>3 DEF StreamTyped, EmittedInOrder, OnTheirWay, IsEmitted, ReaderIsBehind
<1>6. PassedInOrder'
  BY <1>1, <1>2, <1>3, <1>4 DEF PassedInOrder, TakenEvents, Held
<1>7. FramesAreEvents'
  BY <1>1, <1>2, <1>3 DEF FramesAreEvents
<1>8. LoopIsAhead'
  BY <1>1, <1>2, <1>3 DEF LoopIsAhead
<1> QED
  BY <1>5, <1>6, <1>7, <1>8 DEF StreamIInv

(* The client reads a frame, or the end of the response.                   *)
LEMMA StreamReads ==
  ASSUME StreamIInv, Stream!ReadFrame \/ Stream!ReadEnd PROVE StreamIInv'
<1>1. StreamTyped /\ EmittedInOrder /\ OnTheirWay /\ PassedInOrder /\ FramesAreEvents
        /\ LoopIsAhead /\ ReaderIsBehind
  BY DEF StreamIInv
<1>2. UNCHANGED <<rstLoop, rstEventCh, rstDraining, rstEvents, rstDropped, rstHandler, rstWire,
                  rstConn>>
  BY DEF Stream!ReadFrame, Stream!ReadEnd
<1>3. EmittedInOrder' /\ OnTheirWay' /\ PassedInOrder' /\ FramesAreEvents' /\ LoopIsAhead'
  BY <1>1, <1>2 DEF EmittedInOrder, OnTheirWay, IsEmitted, PassedInOrder, TakenEvents, Held,
                    FramesAreEvents, LoopIsAhead
<1>4. rstReader \in [read : Nat, terminal : BOOLEAN, err : ReaderErrors]
        /\ Len(rstWire) \in Nat /\ rstReader.err = None
  BY <1>1, StreamIsKnown DEF StreamTyped, Stream!ReadFrame, Stream!ReadEnd
<1>5. rstReader' \in [read : Nat, terminal : BOOLEAN, err : ReaderErrors] /\ ReaderIsBehind'
  <2>1. CASE Stream!ReadFrame
             /\ rstReader' = [rstReader EXCEPT !.read = @ + 1,
                  !.terminal = Stream!IsTerminal(rstWire[rstReader.read + 1])]
    <3>1. rstReader.read < Len(rstWire)
      BY <2>1 DEF Stream!ReadFrame
    <3>2. Stream!IsTerminal(rstWire[rstReader.read + 1]) \in BOOLEAN
      BY DEF Stream!IsTerminal
    <3>3. /\ rstReader'.read = rstReader.read + 1 /\ rstReader'.err = None
          /\ rstReader'.terminal = Stream!IsTerminal(rstWire[rstReader.read + 1])
          /\ rstReader' \in [read : Nat, terminal : BOOLEAN, err : ReaderErrors]
      <4> DEFINE read == rstReader.read + 1
                 terminal == Stream!IsTerminal(rstWire[read])
      <4>1. read \in Nat /\ terminal \in BOOLEAN
        BY <3>2, <1>4
      <4>2. rstReader' = [rstReader EXCEPT !.read = read, !.terminal = terminal]
        BY <2>1
      <4> HIDE DEF read, terminal
      <4>3. /\ rstReader'.read = read /\ rstReader'.err = None /\ rstReader'.terminal = terminal
            /\ rstReader' \in [read : Nat, terminal : BOOLEAN, err : ReaderErrors]
        BY <4>1, <4>2, <1>4
      <4> QED
        BY <4>3 DEF read, terminal
    <3> QED
      BY <3>1, <3>3, <1>2, <1>4, NoneIsNoEvent DEF ReaderIsBehind
  <2>2. CASE \E err \in ReaderErrors :
               /\ rstReader' = [rstReader EXCEPT !.err = err]
               /\ err = "none" => rstReader.terminal
    <3>1. PICK err \in ReaderErrors : /\ rstReader' = [rstReader EXCEPT !.err = err]
                                      /\ err = "none" => rstReader.terminal
      BY <2>2
    <3>2. /\ rstReader'.read = rstReader.read /\ rstReader'.err = err
          /\ rstReader'.terminal = rstReader.terminal
          /\ rstReader' \in [read : Nat, terminal : BOOLEAN, err : ReaderErrors]
      BY <3>1, <1>4
    <3> QED
      BY <3>1, <3>2, <1>1, <1>2 DEF ReaderIsBehind
  <2>3. \/ Stream!ReadFrame
           /\ rstReader' = [rstReader EXCEPT !.read = @ + 1,
                !.terminal = Stream!IsTerminal(rstWire[rstReader.read + 1])]
        \/ \E err \in ReaderErrors : /\ rstReader' = [rstReader EXCEPT !.err = err]
                                     /\ err = "none" => rstReader.terminal
    BY DEF Stream!ReadFrame, Stream!ReadEnd, ReaderErrors
  <2> QED
    BY <2>1, <2>2, <2>3
<1>6. StreamTyped'
  BY <1>1, <1>2, <1>5 DEF StreamTyped
<1> QED
  BY <1>3, <1>5, <1>6 DEF StreamIInv

(* No step of the loop, the handler or the client breaks the invariant.    *)
LEMMA StreamStep ==
  ASSUME StreamIInv, [Stream!Next]_rstVars PROVE StreamIInv'
<1>1. CASE UNCHANGED rstVars
  BY <1>1 DEF rstVars, StreamIInv, StreamTyped, EmittedInOrder, OnTheirWay, IsEmitted,
              PassedInOrder, TakenEvents, Held, FramesAreEvents, LoopIsAhead, ReaderIsBehind
<1>2. rstLoop = [at |-> rstLoop.at, failed |-> rstLoop.failed, emitted |-> rstLoop.emitted]
        /\ rstLoop.failed \in BOOLEAN
  BY DEF StreamIInv, StreamTyped
<1>3. ASSUME NEW kind \in RunEventKinds, Stream!Emit(kind) PROVE StreamIInv'
  <2>1. /\ rstLoop.at = "running"
        /\ rstLoop' = [at |-> "running", failed |-> rstLoop.failed,
                       emitted |-> Append(rstLoop.emitted,
                         [kind |-> kind, n |-> Len(rstLoop.emitted) + 1])]
        /\ rstEventCh' = Append(rstEventCh, [kind |-> kind, n |-> Len(rstLoop.emitted) + 1])
        /\ UNCHANGED <<rstDraining, rstEvents, rstDropped, rstHandler, rstWire, rstConn,
                       rstReader>>
    BY <1>2, <1>3 DEF Stream!Emit
  <2>2. kind # "ErrorEvent"
    BY NoneIsNoEvent
  <2> QED
    BY <1>2, <2>1, <2>2, StreamEmits
<1>4. CASE Stream!EmitError
  <2>1. /\ rstLoop.at = "running"
        /\ rstLoop' = [at |-> "finalized", failed |-> TRUE,
                       emitted |-> Append(rstLoop.emitted,
                         [kind |-> "ErrorEvent", n |-> Len(rstLoop.emitted) + 1])]
        /\ rstEventCh'
             = Append(rstEventCh, [kind |-> "ErrorEvent", n |-> Len(rstLoop.emitted) + 1])
        /\ UNCHANGED <<rstDraining, rstEvents, rstDropped, rstHandler, rstWire, rstConn,
                       rstReader>>
    BY <1>4 DEF Stream!EmitError
  <2> QED
    BY <2>1, StreamEmits
<1>5. ASSUME NEW failed \in BOOLEAN, Stream!Finalize(failed) \/ Stream!Return(failed)
      PROVE  StreamIInv'
  BY <1>5, StreamLoopEnds
<1> QED
  BY <1>1, <1>3, <1>4, <1>5, StreamDrains, StreamWritesEvent, StreamWritesEnd, StreamLeaves,
     StreamReads DEF Stream!Next

-----------------------------------------------------------------------------
(* The component that moves keeps its invariant; the others do not move.   *)
LifetimesIInv ==
  /\ machine = "scopes" => ScopesIInv
  /\ machine = "mcp" => McpIInv
  /\ machine = "session" => SessionIInv /\ CallbacksInTime
  /\ machine = "stream" => StreamIInv

(* One component moves at a time: a step of the group is a step of it.     *)
LEMMA LifetimesInitially == LifetimesInit => LifetimesIInv
BY ScopesInit, McpInit, SessionInit, StreamInit DEF LifetimesInit, LifetimesIInv

(* No step of any component breaks it, and machine stays what it is.       *)
LEMMA LifetimesStep ==
  ASSUME LifetimesIInv, [LifetimesNext]_<<machine, lifetimeVars>>
  PROVE  LifetimesIInv'
<1>1. machine' = machine
  BY DEF LifetimesNext
<1>2. CASE machine = "scopes"
  <2>1. [Scopes!Next]_scpVars
    BY <1>2 DEF LifetimesNext, lifetimeVars
  <2> QED
    BY <1>1, <1>2, <2>1, ScopesStep DEF LifetimesIInv
<1>3. CASE machine = "mcp"
  <2>1. [Mcp!Next]_mcpVars
    BY <1>3 DEF LifetimesNext, lifetimeVars
  <2> QED
    BY <1>1, <1>3, <2>1, McpStep DEF LifetimesIInv
<1>4. CASE machine = "session"
  <2>1. [Session!Next]_agsVars
    BY <1>4 DEF LifetimesNext, lifetimeVars
  <2> QED
    BY <1>1, <1>4, <2>1, SessionStep, CallbacksStep DEF LifetimesIInv
<1>5. CASE machine = "stream"
  <2>1. [Stream!Next]_rstVars
    BY <1>5 DEF LifetimesNext, lifetimeVars
  <2> QED
    BY <1>1, <1>5, <2>1, StreamStep DEF LifetimesIInv
<1> QED
  BY <1>1, <1>2, <1>3, <1>4, <1>5 DEF LifetimesIInv

(* A leased scope stays open, an idle one is evicted or, stored after its  *)
(* last waiter gave up, has its context cancelled; a connection is         *)
(* published, in the hands of one operation, or closed, and a running call *)
(* keeps it until the deadline of its retirement; a run keeps its          *)
(* generation of plugins, which has one owner until it is cleaned up, when *)
(* only callbacks that timed out can still be running; the stream of a run *)
(* has one end, after all of its events (constructOwned, retire,           *)
(* SetPlugins, dispatch; RunStream, handleRun): for any number of callers, *)
(* directories, servers, calls, generations and events, and channels of    *)
(* any capacity.                                                           *)
THEOREM UsersAlwaysKeepTheirs == LifetimesSpec => []UsersKeepTheirs
<1>1. LifetimesIInv => UsersKeepTheirs
  BY ScopesSafe, McpSafe, SessionSafe, StreamSafe DEF LifetimesIInv, UsersKeepTheirs
<1> QED
  BY <1>1, LifetimesInitially, LifetimesStep, PTL DEF LifetimesSpec

-----------------------------------------------------------------------------
(* PermissionRequests.  What a tool call returns is compared with a row    *)
(* that others write.  The inductive invariant says where each resolution  *)
(* that is on its way comes from: one that a reply has yet to announce, or *)
(* that lies in a waiter's channel, is that of the row, which is final; a  *)
(* prompter that resolves on its own asks for no approval; and a row is    *)
(* pending only while its prompter is at it, or has given it up, or the    *)
(* process is down.                                                        *)

TypeOK ==
  /\ request \in [Requests -> {"none", "pending"} \cup Resolutions]
  /\ grants \subseteq Resources
  /\ session \in BOOLEAN
  /\ place \in [Requests -> Places]
  /\ waiter \in [Requests -> {"none", "empty"} \cup Resolutions]
  /\ want \in [Requests -> {"none", "timed_out", "interrupted"}]
  /\ outcome \in [Requests -> Outcomes]
  /\ notifying \subseteq Requests \X Replies
  /\ cancelled \subseteq Runs
  /\ phase \in {"serving", "stopping", "down"}
  /\ orphans \subseteq Requests

(* A request does not exist before its prompter has created it, and nothing *)
(* is returned before the call has ended.                                   *)
NotYet ==
  \A r \in Requests :
    /\ place[r] \in {"idle", "registered"} => request[r] = "none"
    /\ place[r] # "done" => outcome[r] = "none"

(* Every resolution on its way is that of the row. *)
TrueNews ==
  /\ \A r \in Requests : waiter[r] \in Resolutions => waiter[r] = request[r]
  /\ \A r \in Requests, res \in Replies :
       <<r, res>> \in notifying => request[r] = res

(* A prompter that resolves on its own wants no approval, and reads the row *)
(* of another only once there is one.                                       *)
OwnResolution ==
  \A r \in Requests :
    /\ place[r] = "resolving" => want[r] \in {"timed_out", "interrupted"}
    /\ place[r] = "fetching" => request[r] # "pending"

(* PendingIsAwaited, also while the daemon shuts down. *)
PendingIsHeld ==
  Up /\ session =>
    \A r \in Requests : request[r] = "pending" =>
      place[r] \in {"waiting", "resolving"} \/ r \in orphans

IInv ==
  /\ TypeOK /\ NotYet /\ TrueNews /\ OwnResolution /\ PendingIsHeld
  /\ OutcomeIsStored /\ ConsentBeforeUse /\ GrantsWereGiven

-----------------------------------------------------------------------------
(* Lemmas about the operators *)

(* An approval is returned only for an approval, and the row of a request  *)
(* that is not resolved gives an error.                                    *)
LEMMA OutcomeOf ==
  ASSUME NEW res \in {"none", "pending"} \cup Resolutions
  PROVE  /\ permissionOutcome(res) \in Outcomes \ {"none"}
         /\ res \in Replies => permissionOutcome(res) = res
         /\ permissionOutcome(res) \in Replies => permissionOutcome(res) = res
         /\ res \in {"none", "pending"} => permissionOutcome(res) = "error"
BY DEF permissionOutcome, Outcomes, Resolutions, Replies

(* What ResolvePermissionRequest does to the rows, the only way a row that *)
(* exists changes while the daemon runs.                                   *)
LEMMA ResolveStep ==
  ASSUME IInv, NEW r \in Requests, NEW res \in Resolutions,
         ResolvePermissionRequest(r, res)
  PROVE  /\ request' \in [Requests -> {"none", "pending"} \cup Resolutions]
         /\ request'[r] = res
         /\ \A q \in Requests : q # r => request'[q] = request[q]
         /\ \A q \in Requests : request[q] # "pending" => request'[q] = request[q]
         /\ grants \subseteq grants' /\ grants' \subseteq Resources
         /\ GrantsWereGiven'
<1>1. /\ request' \in [Requests -> {"none", "pending"} \cup Resolutions]
      /\ request'[r] = res
      /\ \A q \in Requests : q # r => request'[q] = request[q]
      /\ \A q \in Requests : request[q] # "pending" => request'[q] = request[q]
  BY DEF IInv, TypeOK, ResolvePermissionRequest, Resolvable
<1>2. grants \subseteq grants' /\ grants' \subseteq Resources
  BY CallsAssumption DEF IInv, TypeOK, ResolvePermissionRequest
<1>3. GrantsWereGiven'
  <2> SUFFICES ASSUME NEW x \in grants'
               PROVE  \E q \in Requests : x \in ResourcesOf[q] /\ request'[q] = "always"
    BY DEF GrantsWereGiven
  <2>1. CASE x \in grants
    BY <1>1, <2>1 DEF IInv, GrantsWereGiven
  <2>2. CASE x \notin grants
    BY <1>1, <2>2 DEF ResolvePermissionRequest
  <2> QED
    BY <2>1, <2>2
<1> QED
  BY <1>1, <1>2, <1>3

-----------------------------------------------------------------------------
(* The steps of a prompter *)

LEMMA InitInv == Init => IInv
BY DEF Init, IInv, TypeOK, NotYet, TrueNews, OwnResolution, PendingIsHeld,
       OutcomeIsStored, ConsentBeforeUse, GrantsWereGiven, Places, Outcomes,
       Resolutions, Replies

(* A call that returns what the row says, or an error, keeps the invariant, *)
(* if it does not leave the row pending.                                    *)
LEMMA ReturnInv ==
  ASSUME IInv, NEW r \in Requests, NEW out \in Outcomes \ {"none"},
         Return(r, out), UNCHANGED <<storeVars, notifying, cancelled, phase>>,
         orphans' \in SUBSET Requests, orphans \subseteq orphans',
         Up /\ session /\ request[r] = "pending" => r \in orphans',
         request[r] # "none" /\ out # "error" => out = permissionOutcome(request[r]),
         out \in {"once", "always"} =>
           \/ request[r] = out
           \/ out = "always" /\ ResourcesOf[r] \subseteq grants
  PROVE  IInv'
<1>1. /\ place' = [place EXCEPT ![r] = "done"]
      /\ outcome' = [outcome EXCEPT ![r] = out]
      /\ waiter' = [waiter EXCEPT ![r] = "none"]
      /\ want' = [want EXCEPT ![r] = "none"]
      /\ request' = request /\ grants' = grants /\ session' = session
      /\ notifying' = notifying /\ cancelled' = cancelled /\ phase' = phase
  BY DEF Return, storeVars
<1>2. TypeOK'
  BY <1>1 DEF IInv, TypeOK, Places
<1>3. NotYet'
  BY <1>1 DEF IInv, TypeOK, NotYet
<1>4. TrueNews'
  BY <1>1 DEF IInv, TypeOK, TrueNews, Resolutions, Replies
<1>5. OwnResolution'
  BY <1>1 DEF IInv, TypeOK, OwnResolution
<1>6. PendingIsHeld'
  BY <1>1 DEF IInv, TypeOK, PendingIsHeld, Up
<1>7. OutcomeIsStored'
  BY <1>1 DEF IInv, TypeOK, OutcomeIsStored
<1>8. ConsentBeforeUse'
  BY <1>1 DEF IInv, TypeOK, ConsentBeforeUse
<1>9. GrantsWereGiven'
  BY <1>1 DEF IInv, GrantsWereGiven
<1> QED
  BY <1>2, <1>3, <1>4, <1>5, <1>6, <1>7, <1>8, <1>9 DEF IInv

(* A call that moves on without returning keeps the invariant, if it is at *)
(* its new place with the resolution it wants and the row it expects.      *)
LEMMA MoveInv ==
  ASSUME IInv, NEW r \in Requests, NEW to \in Places \ {"idle", "done"},
         place' = [place EXCEPT ![r] = to], place[r] # "done",
         want' \in [Requests -> {"none", "timed_out", "interrupted"}],
         \A q \in Requests : q # r => want'[q] = want[q],
         waiter' \in [Requests -> {"none", "empty"} \cup Resolutions],
         \A q \in Requests : waiter'[q] \in {waiter[q], "empty"},
         UNCHANGED <<storeVars, outcome, notifying, cancelled, phase, orphans>>,
         to = "registered" => request[r] = "none",
         to = "resolving" => want'[r] \in {"timed_out", "interrupted"},
         to = "fetching" => request[r] # "pending",
         request[r] = "pending" => to \in {"waiting", "resolving", "fetching"}
  PROVE  IInv'
<1>1. /\ request' = request /\ grants' = grants /\ session' = session
      /\ outcome' = outcome /\ notifying' = notifying /\ cancelled' = cancelled
      /\ phase' = phase /\ orphans' = orphans
  BY DEF storeVars
<1>2. TypeOK'
  BY <1>1 DEF IInv, TypeOK
<1>3. NotYet'
  BY <1>1 DEF IInv, TypeOK, NotYet
<1>4. TrueNews'
  BY <1>1 DEF IInv, TypeOK, TrueNews, Resolutions, Replies
<1>5. OwnResolution'
  BY <1>1 DEF IInv, TypeOK, OwnResolution
<1>6. PendingIsHeld'
  BY <1>1 DEF IInv, TypeOK, PendingIsHeld, Up
<1>7. OutcomeIsStored' /\ ConsentBeforeUse' /\ GrantsWereGiven'
  BY <1>1 DEF IInv, OutcomeIsStored, ConsentBeforeUse, GrantsWereGiven
<1> QED
  BY <1>2, <1>3, <1>4, <1>5, <1>6, <1>7 DEF IInv

(* The row is created: the call waits, or has been cancelled meanwhile and *)
(* leaves it.                                                              *)
LEMMA CreateInv ==
  ASSUME IInv, NEW r \in Requests, Create(r) \/ CreateReplyLost(r)
  PROVE  IInv'
<1>1. /\ request' = [request EXCEPT ![r] = "pending"]
      /\ grants' = grants /\ session' = session
      /\ notifying' = notifying /\ cancelled' = cancelled /\ phase' = phase
      /\ \A q \in Requests : waiter'[q] \in {waiter[q], "none"}
      /\ place[r] = "registered" /\ request[r] = "none" /\ outcome[r] = "none"
  BY DEF Create, CreateReplyLost, CreatePermissionRequest, Return, IInv, TypeOK,
         NotYet, processVars, Places
<1>2. \/ /\ place' = [place EXCEPT ![r] = "waiting"]
         /\ UNCHANGED <<outcome, waiter, want, orphans>>
      \/ /\ Return(r, "error")
         /\ orphans' = orphans \cup {r}
  BY DEF Create, CreateReplyLost
<1>3. TypeOK'
  BY <1>1, <1>2 DEF IInv, TypeOK, Return, Places, Outcomes
<1>4. NotYet'
  BY <1>1, <1>2 DEF IInv, TypeOK, NotYet, Return
<1>5. TrueNews'
  BY <1>1 DEF IInv, TypeOK, TrueNews, Resolutions, Replies
<1>6. OwnResolution'
  BY <1>1, <1>2 DEF IInv, TypeOK, OwnResolution, Return
<1>7. PendingIsHeld'
  BY <1>1, <1>2 DEF IInv, TypeOK, PendingIsHeld, Up, Return
<1>8. OutcomeIsStored' /\ ConsentBeforeUse' /\ GrantsWereGiven'
  BY <1>1, <1>2 DEF IInv, TypeOK, OutcomeIsStored, ConsentBeforeUse,
                    GrantsWereGiven, Return
<1> QED
  BY <1>3, <1>4, <1>5, <1>6, <1>7, <1>8 DEF IInv

(* Any transaction that resolves a pending row keeps what is known of the  *)
(* resolutions on their way and of the calls that have returned.           *)
LEMMA ResolveInv ==
  ASSUME IInv, NEW r \in Requests, NEW res \in Resolutions,
         ResolvePermissionRequest(r, res)
  PROVE  /\ \A q \in Requests : waiter[q] \in Resolutions => waiter[q] = request'[q]
         /\ \A q \in Requests, reply \in Replies :
              <<q, reply>> \in notifying => request'[q] = reply
         /\ \A q \in Requests : request[q] = "none" => request'[q] = "none"
         /\ \A q \in Requests :
              request'[q] # "none" /\ outcome[q] \notin {"none", "error"} =>
                outcome[q] = permissionOutcome(request'[q])
         /\ \A q \in Requests : outcome[q] \in {"once", "always"} =>
              \/ request'[q] = outcome[q]
              \/ outcome[q] = "always" /\ ResourcesOf[q] \subseteq grants'
<1>1. /\ request'[r] = res
      /\ \A q \in Requests : request[q] # "pending" => request'[q] = request[q]
      /\ \A q \in Requests : q # r => request'[q] = request[q]
      /\ grants \subseteq grants'
      /\ request[r] = "pending"
  BY ResolveStep DEF ResolvePermissionRequest, Resolvable
<1>2. outcome[r] \in {"none", "error"}
  BY <1>1, OutcomeOf DEF IInv, OutcomeIsStored
<1>3. "pending" \notin Resolutions /\ "pending" \notin Replies
  BY DEF Resolutions, Replies
<1>4. /\ \A q \in Requests : waiter[q] \in Resolutions => request[q] # "pending"
      /\ \A q \in Requests, reply \in Replies :
           <<q, reply>> \in notifying => request[q] # "pending"
  BY <1>3 DEF IInv, TrueNews
<1>5. \A q \in Requests : waiter[q] \in Resolutions => waiter[q] = request'[q]
  BY <1>1, <1>4 DEF IInv, TrueNews
<1>6. \A q \in Requests, reply \in Replies :
        <<q, reply>> \in notifying => request'[q] = reply
  BY <1>1, <1>4 DEF IInv, TrueNews
<1>7. \A q \in Requests :
        request'[q] # "none" /\ outcome[q] \notin {"none", "error"} =>
          outcome[q] = permissionOutcome(request'[q])
  BY <1>1, <1>2 DEF IInv, OutcomeIsStored
<1>8. \A q \in Requests : outcome[q] \in {"once", "always"} =>
        \/ request'[q] = outcome[q]
        \/ outcome[q] = "always" /\ ResourcesOf[q] \subseteq grants'
  BY <1>1, <1>2 DEF IInv, ConsentBeforeUse
<1> QED
  BY <1>1, <1>5, <1>6, <1>7, <1>8

(* The prompter resolves its own request, and does or does not learn it. *)
LEMMA OwnResolveInv ==
  ASSUME IInv, NEW r \in Requests, ResolveWins(r) \/ ResolveReplyLost(r)
  PROVE  IInv'
<1> DEFINE res == want[r]
<1>1. /\ ResolvePermissionRequest(r, res)
      /\ res \in {"timed_out", "interrupted"} /\ res \in Resolutions
      /\ place[r] = "resolving"
      /\ notifying' = notifying /\ cancelled' = cancelled
      /\ phase' = phase /\ orphans' = orphans /\ session' = session
  BY DEF ResolveWins, ResolveReplyLost, ResolvePermissionRequest, IInv,
         OwnResolution, Resolutions, processVars
<1>2. PICK out \in {permissionOutcome(res), "error"} : Return(r, out)
  BY DEF ResolveWins, ResolveReplyLost
<1>3. /\ place' = [place EXCEPT ![r] = "done"]
      /\ outcome' = [outcome EXCEPT ![r] = out]
      /\ waiter' = [waiter EXCEPT ![r] = "none"]
      /\ want' = [want EXCEPT ![r] = "none"]
  BY <1>2 DEF Return
<1>4. out \in Outcomes \ {"none", "once", "always"}
  BY <1>1, <1>2 DEF permissionOutcome, Outcomes, Replies
<1> HIDE DEF res
<1>5. /\ request' \in [Requests -> {"none", "pending"} \cup Resolutions]
      /\ request'[r] = res
      /\ \A q \in Requests : q # r => request'[q] = request[q]
      /\ grants' \subseteq Resources
      /\ GrantsWereGiven'
  BY <1>1, ResolveStep
<1>6. TypeOK'
  BY <1>1, <1>3, <1>4, <1>5 DEF IInv, TypeOK, Places
<1>7. NotYet'
  BY <1>3, <1>5 DEF IInv, TypeOK, NotYet
<1>8. TrueNews'
  BY <1>1, <1>3, ResolveInv DEF IInv, TypeOK, TrueNews, Resolutions, Replies
<1>9. OwnResolution'
  BY <1>3, <1>5 DEF IInv, TypeOK, OwnResolution
<1>10. PendingIsHeld'
  BY <1>1, <1>3, <1>5 DEF IInv, TypeOK, PendingIsHeld, Up
<1>11. OutcomeIsStored'
  <2>1. \A q \in Requests : q # r => outcome'[q] = outcome[q]
    BY <1>3 DEF IInv, TypeOK
  <2>2. outcome'[r] = out
    BY <1>3 DEF IInv, TypeOK
  <2> QED
    BY <1>1, <1>2, <1>5, <2>1, <2>2, ResolveInv DEF OutcomeIsStored
<1>12. ConsentBeforeUse'
  BY <1>1, <1>3, <1>4, ResolveInv DEF IInv, TypeOK, ConsentBeforeUse
<1> QED
  BY <1>5, <1>6, <1>7, <1>8, <1>9, <1>10, <1>11, <1>12 DEF IInv

LEMMA PromptInv ==
  ASSUME IInv, NEW r \in Requests, PromptStep(r)
  PROVE  IInv'
<1> USE DEF storeVars, processVars
<1>0. /\ orphans \subseteq Requests /\ orphans \cup {r} \subseteq Requests
      /\ place[r] \in Places /\ want \in [Requests -> {"none", "timed_out", "interrupted"}]
      /\ waiter \in [Requests -> {"none", "empty"} \cup Resolutions]
      /\ request[r] \in {"none", "pending"} \cup Resolutions
      /\ {"error", "always"} \subseteq Outcomes \ {"none"}
      /\ "error" \notin {"once", "always"}
  BY DEF IInv, TypeOK, Outcomes, Replies
<1>1. CASE AlreadyGranted(r)
  BY <1>0, <1>1, ReturnInv DEF AlreadyGranted, IInv, NotYet
<1>2. CASE RegisterWaiter(r)
  <2>1. waiter' = [waiter EXCEPT ![r] = "empty"] /\ request[r] = "none"
    BY <1>2 DEF RegisterWaiter, IInv, NotYet
  <2> QED
    BY <1>0, <1>2, <2>1, MoveInv DEF RegisterWaiter, Places
<1>3. CASE CreateFails(r)
  BY <1>0, <1>3, ReturnInv DEF CreateFails, IInv, NotYet
<1>4. CASE Create(r) \/ CreateReplyLost(r)
  BY <1>4, CreateInv
<1>5. CASE SelectReply(r)
  <2>1. waiter[r] = request[r] /\ request[r] \in Resolutions
    BY <1>5 DEF SelectReply, IInv, TrueNews
  <2>2. request[r] # "pending"
    BY <2>1 DEF Resolutions, Replies
  <2>3. permissionOutcome(request[r]) \in Outcomes \ {"none"}
    BY <1>0, OutcomeOf
  <2>4. permissionOutcome(request[r]) \in {"once", "always"} =>
          request[r] = permissionOutcome(request[r])
    BY <1>0, OutcomeOf DEF Replies
  <2> QED
    BY <1>0, <1>5, <2>1, <2>2, <2>3, <2>4, ReturnInv DEF SelectReply
<1>6. CASE SelectTimeout(r) \/ SelectDone(r)
  <2>1. PICK res \in {"timed_out", "interrupted"} : GiveUp(r, res)
    BY <1>6 DEF SelectTimeout, SelectDone
  <2>2. want' = [want EXCEPT ![r] = res]
    BY <2>1 DEF GiveUp
  <2> QED
    BY <1>0, <2>1, <2>2, MoveInv DEF GiveUp, Places
<1>7. CASE ResolveWins(r) \/ ResolveReplyLost(r)
  BY <1>7, OwnResolveInv
<1>8. CASE ResolveConflicts(r)
  BY <1>0, <1>8, MoveInv DEF ResolveConflicts, Places
<1>9. CASE FetchWinner(r)
  <2>1. request[r] # "pending"
    BY <1>9 DEF FetchWinner, IInv, OwnResolution
  <2>2. permissionOutcome(request[r]) \in Outcomes \ {"none"}
    BY <1>0, OutcomeOf
  <2>3. permissionOutcome(request[r]) \in {"once", "always"} =>
          request[r] = permissionOutcome(request[r])
    BY <1>0, OutcomeOf DEF Replies
  <2> QED
    BY <1>0, <1>9, <2>1, <2>2, <2>3, ReturnInv DEF FetchWinner
<1>10. CASE ResolveFails(r)
  BY <1>0, <1>10, ReturnInv DEF ResolveFails
<1> QED
  BY <1>1, <1>2, <1>3, <1>4, <1>5, <1>6, <1>7, <1>8, <1>9, <1>10 DEF PromptStep

-----------------------------------------------------------------------------
(* The steps of everybody else *)

LEMMA ReplyInv ==
  ASSUME IInv, NEW r \in Requests, NEW res \in Replies, ReplyStep(r, res)
  PROVE  IInv'
<1>0. res \in Resolutions /\ "pending" \notin Resolutions
  BY DEF Resolutions, Replies
<1>1. CASE Reply(r, res) \/ ReplyLost(r, res)
  <2>1. /\ ResolvePermissionRequest(r, res) /\ session' = session
        /\ notifying' \subseteq notifying \cup {<<r, res>>}
        /\ UNCHANGED <<place, waiter, want, outcome, cancelled, phase, orphans>>
    BY <1>1 DEF Reply, ReplyLost, ResolvePermissionRequest, promptVars, processVars
  <2>2. /\ request' \in [Requests -> {"none", "pending"} \cup Resolutions]
        /\ request'[r] = res
        /\ \A q \in Requests : q # r => request'[q] = request[q]
        /\ grants' \subseteq Resources
        /\ GrantsWereGiven'
    BY <1>0, <2>1, ResolveStep
  <2>3. TypeOK'
    BY <2>1, <2>2 DEF IInv, TypeOK
  <2>4. NotYet'
    BY <1>0, <2>1, ResolveInv DEF IInv, NotYet
  <2>5. TrueNews'
    BY <1>0, <2>1, <2>2, ResolveInv DEF TrueNews
  <2>6. OwnResolution'
    BY <1>0, <2>1, <2>2 DEF IInv, OwnResolution
  <2>7. PendingIsHeld'
    BY <1>0, <2>1, <2>2 DEF IInv, PendingIsHeld, Up
  <2>8. OutcomeIsStored' /\ ConsentBeforeUse'
    BY <1>0, <2>1, ResolveInv DEF OutcomeIsStored, ConsentBeforeUse
  <2> QED
    BY <2>2, <2>3, <2>4, <2>5, <2>6, <2>7, <2>8 DEF IInv
<1>2. CASE ReplyAgain(r, res)
  <2>1. /\ notifying' = notifying \cup {<<r, res>>} /\ request[r] = res
        /\ UNCHANGED <<storeVars, promptVars, cancelled, phase, orphans>>
    BY <1>2 DEF ReplyAgain, processVars
  <2>2. TypeOK' /\ TrueNews'
    BY <2>1 DEF IInv, TypeOK, TrueNews, storeVars, promptVars
  <2> QED
    BY <2>1, <2>2 DEF IInv, NotYet, OwnResolution, PendingIsHeld, Up, OutcomeIsStored,
                      ConsentBeforeUse, GrantsWereGiven, storeVars, promptVars
<1>3. CASE Notify(r, res)
  <2>1. /\ waiter' \in {waiter, [waiter EXCEPT ![r] = res]} /\ request[r] = res
        /\ notifying' \subseteq notifying
        /\ UNCHANGED <<storeVars, place, want, outcome, cancelled, phase, orphans>>
    BY <1>3 DEF Notify, notify, processVars, IInv, TrueNews
  <2>2. TypeOK' /\ TrueNews'
    BY <1>0, <2>1 DEF IInv, TypeOK, TrueNews, storeVars
  <2> QED
    BY <2>1, <2>2 DEF IInv, NotYet, OwnResolution, PendingIsHeld, Up, OutcomeIsStored,
                      ConsentBeforeUse, GrantsWereGiven, storeVars
<1> QED
  BY <1>1, <1>2, <1>3 DEF ReplyStep

(* The process goes, and with it the waiters and the news. *)
LEMMA ProcessInv ==
  ASSUME IInv, ProcessLost \/ Recover \/ Shutdown \/ PurgeSession
               \/ \E u \in Runs : CancelRun(u)
  PROVE  IInv'
<1>1. CASE ProcessLost
  <2>1. TypeOK' /\ NotYet'
    BY <1>1 DEF ProcessLost, IInv, TypeOK, NotYet, storeVars, Places
  <2>2. TrueNews' /\ OwnResolution' /\ PendingIsHeld'
    BY <1>1 DEF ProcessLost, IInv, TypeOK, TrueNews, OwnResolution, PendingIsHeld,
                Up, storeVars, Resolutions, Replies
  <2>3. OutcomeIsStored' /\ ConsentBeforeUse' /\ GrantsWereGiven'
    BY <1>1 DEF ProcessLost, IInv, OutcomeIsStored, ConsentBeforeUse,
                GrantsWereGiven, storeVars
  <2> QED
    BY <2>1, <2>2, <2>3 DEF IInv
<1>2. CASE Recover
  <2>1. /\ request' = [q \in Requests |->
                         IF Resolvable(q) THEN "interrupted" ELSE request[q]]
        /\ phase' = "serving"
        /\ UNCHANGED <<grants, session, promptVars, notifying, cancelled, orphans>>
    BY <1>2 DEF Recover
  <2>2. TypeOK'
    BY <2>1 DEF IInv, TypeOK, Resolutions, promptVars
  <2>3. NotYet'
    BY <2>1 DEF IInv, NotYet, Resolvable, promptVars
  <2>4. TrueNews'
    BY <2>1 DEF IInv, TrueNews, Resolvable, promptVars, Resolutions, Replies
  <2>5. OwnResolution' /\ PendingIsHeld'
    BY <2>1 DEF IInv, OwnResolution, PendingIsHeld, Resolvable, promptVars
  <2>6. OutcomeIsStored'
    <3>1. \A q \in Requests : request[q] = "pending" => outcome[q] \in {"none", "error"}
      BY OutcomeOf DEF IInv, OutcomeIsStored
    <3> QED
      BY <2>1, <3>1 DEF IInv, OutcomeIsStored, Resolvable, promptVars
  <2>7. ConsentBeforeUse'
    BY <2>1 DEF IInv, ConsentBeforeUse, Resolvable, promptVars
  <2>8. GrantsWereGiven'
    BY <2>1 DEF IInv, GrantsWereGiven, Resolvable
  <2> QED
    BY <2>2, <2>3, <2>4, <2>5, <2>6, <2>7, <2>8 DEF IInv
<1>3. CASE Shutdown \/ PurgeSession \/ \E u \in Runs : CancelRun(u)
  <2>1. /\ UNCHANGED <<request, grants, promptVars, notifying, orphans>>
        /\ session' \in BOOLEAN /\ (session' => session)
        /\ cancelled' \subseteq Runs
        /\ phase' \in {"serving", "stopping", "down"} /\ (phase = "down" => phase' = "down")
    <3>1. CASE Shutdown
      BY <3>1 DEF Shutdown, IInv, TypeOK, storeVars
    <3>2. CASE PurgeSession
      BY <3>2 DEF PurgeSession, IInv, TypeOK, processVars
    <3>3. CASE \E u \in Runs : CancelRun(u)
      BY <3>3 DEF CancelRun, IInv, TypeOK, storeVars, processVars
    <3> QED
      BY <1>3, <3>1, <3>2, <3>3
  <2> QED
    BY <2>1 DEF IInv, TypeOK, NotYet, TrueNews, OwnResolution, PendingIsHeld, Up,
                OutcomeIsStored, ConsentBeforeUse, GrantsWereGiven, promptVars
<1> QED
  BY <1>1, <1>2, <1>3

LEMMA StepInv == IInv /\ [Next]_vars => IInv'
<1> SUFFICES ASSUME IInv, [Next]_vars PROVE IInv'
  OBVIOUS
<1>1. CASE UNCHANGED vars
  BY <1>1 DEF IInv, TypeOK, NotYet, TrueNews, OwnResolution, PendingIsHeld, Up,
              OutcomeIsStored, ConsentBeforeUse, GrantsWereGiven, vars,
              storeVars, promptVars, processVars
<1>2. CASE \E r \in Requests : PromptStep(r)
  BY <1>2, PromptInv
<1>3. CASE \E r \in Requests, res \in Replies : ReplyStep(r, res)
  BY <1>3, ReplyInv
<1>4. CASE \/ \E u \in Runs : CancelRun(u)
           \/ PurgeSession \/ Shutdown \/ Exit \/ Crash \/ Recover
  BY <1>4, ProcessInv DEF Exit, Crash
<1> QED
  BY <1>1, <1>2, <1>3, <1>4 DEF Next

-----------------------------------------------------------------------------
(* Theorems *)

(* The inductive invariant holds in every behaviour. *)
THEOREM Invariance == Spec => []IInv
BY InitInv, StepInv, PTL DEF Spec

(* Whoever wins the race for a request, the tool call acts on what the     *)
(* durable row says (permissionPrompter.Request, resolve).                 *)
THEOREM StoredOutcome == Spec => []OutcomeIsStored
<1>1. IInv => OutcomeIsStored
  BY DEF IInv
<1> QED
  BY <1>1, Invariance, PTL

(* No tool runs without a reply of the user, to this request or, for ever, *)
(* to an earlier one (Request, ResolvePermissionRequest).                  *)
THEOREM Consent == Spec => []ConsentBeforeUse
<1>1. IInv => ConsentBeforeUse
  BY DEF IInv
<1> QED
  BY <1>1, Invariance, PTL

(* A grant exists only by a reply for always (ResolvePermissionRequest). *)
THEOREM GivenGrants == Spec => []GrantsWereGiven
<1>1. IInv => GrantsWereGiven
  BY DEF IInv
<1> QED
  BY <1>1, Invariance, PTL

(* A pending request has somebody behind it, or its prompter gave it up    *)
(* (Request, InterruptPendingPermissionRequests).                          *)
THEOREM AwaitedRequests == Spec => []PendingIsAwaited
<1>1. IInv => PendingIsAwaited
  BY DEF IInv, PendingIsHeld, PendingIsAwaited, Up
<1> QED
  BY <1>1, Invariance, PTL

(* A resolution is final: no reply, deadline, shutdown or recovery changes *)
(* it (the status check of every UPDATE of permission_requests).           *)
THEOREM ResolutionIsFinal ==
  Spec => [][\A r \in Requests :
               request[r] \in Resolutions => request'[r] = request[r]]_vars
<1>1. ASSUME IInv, [Next]_vars, NEW r \in Requests, request[r] \in Resolutions
      PROVE  request'[r] = request[r]
  <2>1. request[r] # "pending" /\ request[r] # "none"
    BY <1>1 DEF Resolutions, Replies
  <2>2. CASE \E q \in Requests : Create(q) \/ CreateReplyLost(q)
    BY <1>1, <2>1, <2>2 DEF Create, CreateReplyLost, CreatePermissionRequest,
                            IInv, TypeOK, NotYet
  <2>3. ASSUME NEW q \in Requests, NEW res, ResolvePermissionRequest(q, res)
        PROVE  request'[r] = request[r]
    <3>1. request' = [request EXCEPT ![q] = res] /\ request[q] = "pending"
      BY <2>3 DEF ResolvePermissionRequest, Resolvable
    <3> QED
      BY <1>1, <2>1, <3>1 DEF IInv, TypeOK
  <2>4. CASE Recover
    BY <1>1, <2>1, <2>4 DEF Recover, Resolvable
  <2>5. CASE UNCHANGED request
    BY <2>5
  <2>6. ASSUME NEW q \in Requests, PromptStep(q)
        PROVE  \/ Create(q) \/ CreateReplyLost(q) \/ UNCHANGED request
               \/ ResolvePermissionRequest(q, want[q])
    BY <2>6 DEF PromptStep, AlreadyGranted, RegisterWaiter, CreateFails, SelectReply,
                SelectTimeout, SelectDone, GiveUp, ResolveWins, ResolveConflicts,
                FetchWinner, ResolveFails, ResolveReplyLost, storeVars
  <2>7. ASSUME NEW q \in Requests, NEW res \in Replies, ReplyStep(q, res)
        PROVE  ResolvePermissionRequest(q, res) \/ UNCHANGED request
    BY <2>7 DEF ReplyStep, Reply, ReplyLost, ReplyAgain, Notify, storeVars
  <2>8. CASE \/ \E u \in Runs : CancelRun(u)
             \/ PurgeSession \/ Shutdown \/ Exit \/ Crash
    BY <2>8, <2>5 DEF CancelRun, PurgeSession, Shutdown, Exit, Crash, ProcessLost,
                      storeVars
  <2>9. CASE UNCHANGED vars
    BY <2>9, <2>5 DEF vars, storeVars
  <2> QED
    BY <1>1, <2>2, <2>3, <2>4, <2>5, <2>6, <2>7, <2>8, <2>9 DEF Next
<1>2. IInv /\ [Next]_vars =>
        \A r \in Requests : request[r] \in Resolutions => request'[r] = request[r]
  BY <1>1
<1> QED
  BY <1>2, Invariance, PTL DEF Spec
=============================================================================
