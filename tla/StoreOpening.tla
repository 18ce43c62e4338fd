---------------------------- MODULE StoreOpening ----------------------------
(***************************************************************************)
(* Opening the SQLite store: NewSQLiteStore of store/sqlite.go and the     *)
(* migrations of store/migrate.go.                                         *)
(*                                                                         *)
(* A migration is known by its version, which is its place in the history, *)
(* and its checksum.  Processes of different releases open one file, one   *)
(* after the other or at the same time, and may die between two            *)
(* statements.                                                             *)
(***************************************************************************)
EXTENDS Naturals, Sequences, FiniteSets

CONSTANTS Processes,
          Embedded,    \* [Processes -> sequences of checksums]
          Histories,   \* schema_migrations of the databases there may be
          Defaults     \* bound: default agents a database may end up with

VARIABLES exists,      \* of the database file
          history,     \* checksums of schema_migrations, by version
          ran,         \* how often each migration was committed
          agents,      \* default agents in the database
          opener       \* [at, existed, read, applied, seeds]

vars == <<exists, history, ran, agents, opener>>

NoChecksum == ""
Closed == [at |-> "closed", existed |-> FALSE, read |-> <<>>, applied |-> 0, seeds |-> 0]

(* of the migrations that a build embeds or a database has *)
Versions == UNION {DOMAIN known : known \in {Embedded[p] : p \in Processes} \cup Histories}

(* a database from before checksums, from another build, or none *)
Init ==
  /\ exists \in BOOLEAN
  /\ history \in IF exists THEN Histories ELSE {<<>>}
  /\ ran = [v \in Versions |-> IF v <= Len(history) THEN 1 ELSE 0]
  /\ agents = 0
  /\ opener = [p \in Processes |-> Closed]

to(p, place) == opener' = [opener EXCEPT ![p].at = place]
fail(p) == opener' = [opener EXCEPT ![p] = Closed]

(* os.Stat of the path, before anything else *)
Stat(p) ==
  /\ opener[p].at = "closed"
  /\ opener' = [opener EXCEPT ![p].at = "stat", ![p].existed = exists]
  /\ UNCHANGED <<exists, history, ran, agents>>

(* the file is created, schema_migrations with it *)
CreateFile(p) ==
  /\ opener[p].at = "stat" /\ to(p, "created")
  /\ exists' = TRUE
  /\ UNCHANGED <<history, ran, agents>>

(* the rows are read at once, and then compared one after the other *)
validateAppliedMigrations(p) ==
  /\ opener[p].at = "created"
  /\ opener' = [opener EXCEPT ![p].at = "migrating", ![p].read = history]
  /\ UNCHANGED <<exists, history, ran, agents>>

(* the history must be a beginning of the migrations this build embeds; a  *)
(* row without a checksum is trusted once, and gets the one of this build  *)
CompareRow(p) ==
  LET v == opener[p].applied + 1
      read == opener[p].read
      fits == v \in DOMAIN Embedded[p] /\ read[v] \in {NoChecksum, Embedded[p][v]}
  IN /\ opener[p].at = "migrating" /\ v \in DOMAIN read
     /\ IF fits THEN opener' = [opener EXCEPT ![p].applied = v] ELSE fail(p)
     /\ history' = IF fits /\ read[v] = NoChecksum
                   THEN [history EXCEPT ![v] = Embedded[p][v]] ELSE history
     /\ UNCHANGED <<exists, ran, agents>>

Compared(p) == opener[p].at = "migrating" /\ opener[p].applied >= Len(opener[p].read)

(* one transaction: the statements of the migration and its row, whose     *)
(* version is the primary key                                              *)
applyMigration(p) ==
  LET v == opener[p].applied + 1
  IN /\ Compared(p) /\ opener[p].applied < Len(Embedded[p])
     /\ IF v \in DOMAIN history
        THEN fail(p) /\ UNCHANGED <<history, ran>>
        ELSE /\ history' = Append(history, Embedded[p][v])
             /\ ran' = [ran EXCEPT ![v] = @ + 1]
             /\ opener' = [opener EXCEPT ![p].applied = v]
     /\ UNCHANGED <<exists, agents>>

(* only a file that was not there gets the default agents *)
Migrated(p) ==
  /\ Compared(p) /\ opener[p].applied = Len(Embedded[p])
  /\ to(p, IF opener[p].existed THEN "open" ELSE "seeding")
  /\ UNCHANGED <<exists, history, ran, agents>>

(* seedDefaultAgents: an insert for each, under an id of its own *)
SeedAgent(p) ==
  /\ opener[p].at = "seeding"
  /\ IF opener[p].seeds = 2
     THEN to(p, "open") /\ UNCHANGED agents
     ELSE /\ agents < Defaults /\ agents' = agents + 1
          /\ opener' = [opener EXCEPT ![p].seeds = @ + 1]
  /\ UNCHANGED <<exists, history, ran>>

(* an error closes the database; the process may also be killed or stopped *)
Close(p) ==
  /\ opener[p].at # "closed" /\ fail(p)
  /\ UNCHANGED <<exists, history, ran, agents>>

Next == \E p \in Processes :
  \/ Stat(p) \/ CreateFile(p) \/ validateAppliedMigrations(p) \/ CompareRow(p)
  \/ applyMigration(p) \/ Migrated(p) \/ SeedAgent(p) \/ Close(p)

Spec == Init /\ [][Next]_vars

-----------------------------------------------------------------------------
(* A migration in the history was committed exactly once, one that is not  *)
(* was never: a crash, a restart or a second opener repeats or skips none. *)
RunOnce == \A v \in Versions : ran[v] = IF v \in DOMAIN history THEN 1 ELSE 0

(* A store that opened has all the migrations its build embeds; another    *)
(* process may have added later ones since.                                *)
OpenFitsBuild == \A p \in Processes : opener[p].at \in {"seeding", "open"} =>
  /\ Len(history) >= Len(Embedded[p])
  /\ \A v \in DOMAIN Embedded[p] : history[v] = Embedded[p][v]

(* One that found no file has put both default agents into it before it is *)
(* open.  A process that dies before leaves a file that never gets them,   *)
(* and two that found none give it both sets.                              *)
OpenIsSeeded == \A p \in Processes :
  opener[p].at = "open" /\ ~opener[p].existed => agents >= 2

SchemaIsTrusted == RunOnce /\ OpenFitsBuild /\ OpenIsSeeded
=============================================================================
