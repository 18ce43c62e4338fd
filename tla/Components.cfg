CONSTANTS
  None = None
  \* ModelStreams
  StreamProtocols = {"responses", "chat", "anthropic", "gemini"}
  StreamEvents = 4
  StreamCalls = 2
  StreamCapacity = 1
  \* AgentHistory
  HistoryMinMessages = 2
  HistoryTriggerTokens = 3
  HistoryKeepRecent = 1
  HistoryMaxMessages = 7
  HistoryMaxFailures = 1
  \* ModelRequests
  RequestProtocols = {"responses", "chat", "anthropic", "gemini"}
  RequestCalls = {call1, call2}
  RequestMaxMessages = 3
  \* PluginHost
  HostPlugins = {"p1", "p2"}
  HostCalls = {"c1"}
  HostMaxProgress = 1
  \* ExecutionScopes
  ScopeCallers = {"a", "b"}
  ScopeDirectories = {"d"}
  ScopeDaemon = "daemon"
  ScopeObjects = {"o1", "o2"}
  ScopeMaxEvictions = 2
  \* McpConnections
  McpServers = {"s1", "s2"}
  McpEnabled = {"s1"}
  McpGenerations = {"g1", "g2", "g3"}
  McpCalls = {"c1", "c2"}
  McpCursors = {"p", "q"}
  McpMaxPages = 3
  \* AgentSession
  SessionCallers = {"a", "b", "c"}
  SessionGenerations = {"g1", "g2", "g3"}
  \* ProviderCredentials
  LoginAttempts = {"a1", "a2"}
  TokenRefreshers = {"r1", "r2"}
  TokenWriters = {"w1"}
  MaxTokens = 2
  \* DaemonLifecycle
  DaemonProcesses = {"p1", "p2", "p3"}
  DaemonManaged = {"p1", "p2"}
  DaemonBusy = {"p1"}
  DaemonPort <- Ports
  DaemonVersion <- Versions
  DaemonClients = {"c1"}
  DaemonWanted = "old"
  \* StoreCatalog
  CatalogRequests = {"r1", "r2"}
  CatalogClients = {"c0", "c1"}
  CatalogDefault = "c0"
  CatalogClientNames = {"n1"}
  CatalogWorkspaces = {"w1", "w2"}
  CatalogNames = {"a", "b"}
  CatalogAgents = {"g1"}
  CatalogModels = {"m1"}
  \* StoreOpening
  OpeningProcesses = {"p1", "p2", "p3"}
  OpeningEmbedded <- Embedded
  OpeningHistories <- Histories
  OpeningDefaults = 4
  \* RunStreams
  RunEventKinds = {"MessageEvent", "ContextTransformedEvent", "ContextTransformedEvent with a marker", "new"}
  RunEventCapacity = 1
  RunMaxEvents = 2
  \* PermissionRules
  RuleLetters = {"a", "b"}
  RuleMaxPattern = 3
  RuleMaxValue = 3
  RuleForms <- Forms
  RuleCalls <- CheckedCalls
  \* FileTools
  FilePaths = {"f", "g", "h", "out"}
  FileBatches <- Batches
  FileTrees <- Trees
  FilesOutside = {"out"}
  FileMaxFaults = 1
  \* PluginHooks
  HookMaxHooks = 3
  HookTypes = {"text", "x"}
  HookBuiltIn = {"text"}
  \* ManagedService
  ServiceCommands = {"c1", "c2"}
  ServiceKinds = {"start", "stop", "restart", "update"}
  ServiceReleases = {1, 2}
  ServiceMaxReboots = 1
SPECIFICATION Spec
INVARIANTS AnswersAreRight UsersKeepTheirs RecordsAreSound DaemonIsOwner
PROPERTIES PartsKeepIdentity HistoryIsKept RetiredForGood
\* the components stop at their bounds, or closed
SYMMETRY CallSymmetry
CHECK_DEADLOCK FALSE
