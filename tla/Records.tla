------------------------------ MODULE Records -------------------------------
(***************************************************************************)
(* The components that keep rows of the database: the credentials of the   *)
(* providers, the records that organise sessions, and the history of the   *)
(* migrations.  Each is the module that its INSTANCE names.                *)
(***************************************************************************)
EXTENDS Machine, Integers, Sequences

CONSTANTS
  \* bounds of ProviderCredentials
  LoginAttempts, TokenRefreshers, TokenWriters, MaxTokens,
  \* bounds of StoreCatalog
  CatalogRequests, CatalogClients, CatalogDefault, CatalogClientNames, CatalogWorkspaces,
  CatalogNames, CatalogAgents, CatalogModels,
  \* bounds of StoreOpening
  OpeningProcesses, OpeningEmbedded, OpeningHistories, OpeningDefaults

(* An id of one kind is not one of another, and is not the name of none.   *)
ASSUME CredentialsAssumption ==
  /\ {"free", "nobody"} \cap (LoginAttempts \cup TokenRefreshers) = {}
  /\ LoginAttempts \cap TokenRefreshers = {}

ASSUME CatalogAssumption ==
  /\ None \notin CatalogClients \cup CatalogWorkspaces
  /\ CatalogWorkspaces \cap CatalogAgents = {}

(* A database may have migration v without a checksum (store/migrate.go:192). *)
Unchecked(v) == \E applied \in OpeningHistories : v \in DOMAIN applied /\ applied[v] = ""

(* A build computes a checksum for each migration, and no two builds differ *)
(* in a migration that some database has without one: such a row is trusted *)
(* before it gets the checksum that would tell them apart.                  *)
ASSUME OpeningAssumption ==
  /\ OpeningEmbedded \in [OpeningProcesses -> Seq(STRING \ {""})]
  /\ OpeningHistories \subseteq Seq(STRING)
  /\ \A p, q \in OpeningProcesses :
       \A v \in DOMAIN OpeningEmbedded[p] \cap DOMAIN OpeningEmbedded[q] :
         Unchecked(v) => OpeningEmbedded[p][v] = OpeningEmbedded[q][v]

VARIABLES
  crdStored, crdAttempt, crdRefresher, crdWriter, crdMu, crdClosing, crdIssued, crdSpent,
  crdDisturbed, crdReused,
  ctlBackend, ctlClients, ctlWorkspaces, ctlAgents, ctlSessionOf, ctlRequest, ctlGone,
  opnExists, opnHistory, opnRan, opnAgents, opnOpener

Credentials == INSTANCE ProviderCredentials WITH
  Attempts <- LoginAttempts, Refreshers <- TokenRefreshers,
  Writers <- TokenWriters, MaxTokens <- MaxTokens,
  stored <- crdStored, attempt <- crdAttempt, refresher <- crdRefresher,
  writer <- crdWriter, mu <- crdMu, closing <- crdClosing,
  issued <- crdIssued, spent <- crdSpent, disturbed <- crdDisturbed,
  reused <- crdReused

Catalog == INSTANCE StoreCatalog WITH
  Requests <- CatalogRequests, Clients <- CatalogClients,
  Default <- CatalogDefault, ClientNames <- CatalogClientNames,
  Workspaces <- CatalogWorkspaces, Names <- CatalogNames,
  Agents <- CatalogAgents, Models <- CatalogModels,
  backend <- ctlBackend, clients <- ctlClients, workspaces <- ctlWorkspaces,
  agents <- ctlAgents, sessionOf <- ctlSessionOf, request <- ctlRequest,
  gone <- ctlGone

Opening == INSTANCE StoreOpening WITH
  Processes <- OpeningProcesses, Embedded <- OpeningEmbedded,
  Histories <- OpeningHistories, Defaults <- OpeningDefaults,
  exists <- opnExists, history <- opnHistory, ran <- opnRan,
  agents <- opnAgents, opener <- opnOpener

-----------------------------------------------------------------------------
crdVars == <<crdStored, crdAttempt, crdRefresher, crdWriter, crdMu, crdClosing, crdIssued,
             crdSpent, crdDisturbed, crdReused>>
CredentialsOff ==
  /\ crdStored = 0 /\ crdAttempt = 0 /\ crdRefresher = 0 /\ crdWriter = 0 /\ crdMu = 0
  /\ crdClosing = 0 /\ crdIssued = 0 /\ crdSpent = 0 /\ crdDisturbed = 0
  /\ crdReused = 0

ctlVars == <<ctlBackend, ctlClients, ctlWorkspaces, ctlAgents, ctlSessionOf, ctlRequest,
             ctlGone>>
CatalogOff ==
  /\ ctlBackend = 0 /\ ctlClients = 0 /\ ctlWorkspaces = 0 /\ ctlAgents = 0
  /\ ctlSessionOf = 0 /\ ctlRequest = 0 /\ ctlGone = 0

opnVars == <<opnExists, opnHistory, opnRan, opnAgents, opnOpener>>
OpeningOff ==
  /\ opnExists = 0 /\ opnHistory = 0 /\ opnRan = 0 /\ opnAgents = 0 /\ opnOpener = 0

RecordsOff == CredentialsOff /\ CatalogOff /\ OpeningOff

RecordsInit ==
  \/ /\ machine = "credentials" /\ Credentials!Init
     /\ CatalogOff /\ OpeningOff
  \/ /\ machine = "catalog" /\ Catalog!Init
     /\ CredentialsOff /\ OpeningOff
  \/ /\ machine = "opening" /\ Opening!Init
     /\ CredentialsOff /\ CatalogOff

(* a step of the one component that moves                                  *)
RecordsNext ==
  \/ /\ machine = "credentials" /\ Credentials!Next
     /\ UNCHANGED <<machine, ctlVars, opnVars>>
  \/ /\ machine = "catalog" /\ Catalog!Next
     /\ UNCHANGED <<machine, crdVars, opnVars>>
  \/ /\ machine = "opening" /\ Opening!Next
     /\ UNCHANGED <<machine, crdVars, ctlVars>>

recordVars == <<crdVars, ctlVars, opnVars>>

RecordsSpec == RecordsInit /\ [][RecordsNext]_<<machine, recordVars>>

-----------------------------------------------------------------------------
(* ProviderCredentials: one login at a time waits for its user, what is    *)
(* stored came from one that completed and, unless a settings request      *)
(* wrote over a row that had changed since it read it or a rotated token   *)
(* was lost on its way, no refresh token is used twice and the row keeps   *)
(* one that the issuer takes (refresh, complete).                          *)
(* StoreCatalog: names stay unique, references hold and what was deleted   *)
(* stays deleted, whatever requests meet (UpdateWorkspace,                 *)
(* DeleteWorkspace); of two updates that meet the later may write back a   *)
(* field that the earlier has changed.                                     *)
(* StoreOpening: a migration of the history was committed once, a store    *)
(* that is open has those of its build, and the default agents if its      *)
(* opener found no file (applyMigration, seedDefaultAgents).               *)
RecordsAreSound ==
  /\ machine = "credentials" => Credentials!CredentialsAreCurrent
  /\ machine = "catalog" => Catalog!CatalogIsSound
  /\ machine = "opening" => Opening!SchemaIsTrusted
=============================================================================
