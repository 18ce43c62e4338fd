----------------------------- MODULE Ownership ------------------------------
(***************************************************************************)
(* The components that have one owner at a time: the state directory of    *)
(* the daemon, the installation of its service, and the generation of      *)
(* plugins that is published.  Each is the module that its INSTANCE names. *)
(***************************************************************************)
EXTENDS Machine, Integers, Sequences

CONSTANTS
  \* bounds of DaemonLifecycle
  DaemonProcesses, DaemonManaged, DaemonBusy, DaemonPort, DaemonVersion, DaemonClients,
  DaemonWanted,
  \* bounds of ManagedService
  ServiceCommands, ServiceKinds, ServiceReleases, ServiceMaxReboots,
  \* bounds of PluginHost
  HostPlugins, HostCalls, HostMaxProgress

(* A name that stands for nothing is the name of no plugin, process or     *)
(* command.                                                                *)
ASSUME HostAssumption == HostPlugins # {} /\ None \notin HostPlugins

ASSUME DaemonAssumption == DaemonManaged \subseteq DaemonProcesses /\ None \notin DaemonProcesses

ASSUME ServiceAssumption ==
  /\ None \notin ServiceCommands
  /\ ServiceKinds \subseteq {"start", "stop", "restart", "update"}

VARIABLES
  dmnProcess, dmnLock, dmnRegistration, dmnClient, dmnLeft,
  svcBinary, svcConfig, svcConfigLock, svcUnit, svcLoaded, svcEnabled, svcService,
  svcCommand, svcReboots,
  plgGeneration, plgClosed, plgLifecycle, plgPlugin, plgPending, plgWire, plgReader,
  plgCall, plgPanicked

Daemon == INSTANCE DaemonLifecycle WITH
  Processes <- DaemonProcesses, Managed <- DaemonManaged, Busy <- DaemonBusy,
  Port <- DaemonPort, Version <- DaemonVersion, Clients <- DaemonClients,
  Wanted <- DaemonWanted,
  process <- dmnProcess, lock <- dmnLock, registration <- dmnRegistration,
  client <- dmnClient, left <- dmnLeft

Service == INSTANCE ManagedService WITH
  Commands <- ServiceCommands, Kinds <- ServiceKinds,
  Releases <- ServiceReleases, MaxReboots <- ServiceMaxReboots,
  binary <- svcBinary, config <- svcConfig, configLock <- svcConfigLock,
  unit <- svcUnit, loaded <- svcLoaded, enabled <- svcEnabled,
  service <- svcService, command <- svcCommand, reboots <- svcReboots

Host == INSTANCE PluginHost WITH
  Plugins <- HostPlugins, Calls <- HostCalls, MaxProgress <- HostMaxProgress,
  generation <- plgGeneration, closed <- plgClosed,
  lifecycle <- plgLifecycle, plugin <- plgPlugin, pending <- plgPending,
  wire <- plgWire, reader <- plgReader, call <- plgCall,
  panicked <- plgPanicked

-----------------------------------------------------------------------------
dmnVars == <<dmnProcess, dmnLock, dmnRegistration, dmnClient, dmnLeft>>
DaemonOff ==
  /\ dmnProcess = 0 /\ dmnLock = 0 /\ dmnRegistration = 0 /\ dmnClient = 0
  /\ dmnLeft = 0

svcVars == <<svcBinary, svcConfig, svcConfigLock, svcUnit, svcLoaded, svcEnabled,
             svcService, svcCommand, svcReboots>>
ServiceOff ==
  /\ svcBinary = 0 /\ svcConfig = 0 /\ svcConfigLock = 0 /\ svcUnit = 0 /\ svcLoaded = 0
  /\ svcEnabled = 0 /\ svcService = 0 /\ svcCommand = 0 /\ svcReboots = 0

plgVars == <<plgGeneration, plgClosed, plgLifecycle, plgPlugin, plgPending, plgWire,
             plgReader, plgCall, plgPanicked>>
HostOff ==
  /\ plgGeneration = 0 /\ plgClosed = 0 /\ plgLifecycle = 0 /\ plgPlugin = 0
  /\ plgPending = 0 /\ plgWire = 0 /\ plgReader = 0 /\ plgCall = 0 /\ plgPanicked = 0

OwnershipOff == DaemonOff /\ ServiceOff /\ HostOff

OwnershipInit ==
  \/ /\ machine = "daemon" /\ Daemon!Init
     /\ ServiceOff /\ HostOff
  \/ /\ machine = "service" /\ Service!Init
     /\ DaemonOff /\ HostOff
  \/ /\ machine = "plugins" /\ Host!Init
     /\ DaemonOff /\ ServiceOff

(* a step of the one component that moves                                  *)
OwnershipNext ==
  \/ /\ machine = "daemon" /\ Daemon!Next
     /\ UNCHANGED <<machine, svcVars, plgVars>>
  \/ /\ machine = "service" /\ Service!Next
     /\ UNCHANGED <<machine, dmnVars, plgVars>>
  \/ /\ machine = "plugins" /\ Host!Next
     /\ UNCHANGED <<machine, dmnVars, svcVars>>

ownershipVars == <<dmnVars, svcVars, plgVars>>

OwnershipSpec == OwnershipInit /\ [][OwnershipNext]_<<machine, ownershipVars>>

-----------------------------------------------------------------------------
(* DaemonLifecycle, ManagedService: the daemon that clients find is the    *)
(* one that owns the state directory, and its store closes after its work; *)
(* as a service it is the one that the commands have installed (runServe,  *)
(* Close, runLinuxStart, installRelease).                                  *)
DaemonIsOwner ==
  /\ machine = "daemon" => Daemon!DaemonIsOwner
  /\ machine = "service" => Service!ServiceIsCurrent

(* PluginHost: a plugin that has been retired is never used again, and is  *)
(* not stopped under a call (acquire, retire, checkHealth).                *)
RetiredForGood == [][machine = "plugins" => Host!RetiresForGood]_<<machine, ownershipVars>>
=============================================================================
