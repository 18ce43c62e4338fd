----------------------------- MODULE LoopParts ------------------------------
(***************************************************************************)
(* The components that the agent loop consults in a turn: the history of   *)
(* its session, the rules of its permissions, the hooks of its plugins,    *)
(* the tools that write files, and the requests to its providers.  Each is *)
(* the module that its INSTANCE names.                                     *)
(***************************************************************************)
EXTENDS Machine, Integers, FiniteSets, Sequences

CONSTANTS
  \* bounds of AgentHistory
  HistoryMinMessages, HistoryTriggerTokens, HistoryKeepRecent, HistoryMaxMessages,
  HistoryMaxFailures,
  \* bounds of PermissionRules
  RuleLetters, RuleMaxPattern, RuleMaxValue, RuleForms, RuleCalls,
  \* bounds of PluginHooks
  HookMaxHooks, HookTypes, HookBuiltIn,
  \* bounds of FileTools
  FilePaths, FileBatches, FileTrees, FilesOutside, FileMaxFaults,
  \* bounds of ModelRequests
  RequestProtocols, RequestCalls, RequestMaxMessages

(* The budgets of the compaction are numbers of tokens, and None is no     *)
(* message that waits for its save.                                        *)
ASSUME HistoryAssumption ==
  /\ HistoryTriggerTokens \in Nat /\ HistoryKeepRecent \in Nat
  /\ None \notin [message : [id : Nat, role : {"user", "assistant", "marker"}, tools : BOOLEAN,
                             covers : SUBSET Nat],
                  idx : Nat]

(* Configurations have the forms that are decoded, and None is neither a   *)
(* call nor a resource.                                                    *)
RuleForm ==
  [kind : {"effect"}, effect : STRING]
  \cup [kind : {"array"},
        rules : Seq([action : Seq(STRING), resource : Seq(STRING), effect : STRING])]
  \cup [kind : {"object"},
        actions : Seq([action : Seq(STRING),
                       resources : Seq([resource : Seq(STRING), effect : STRING])])]
ASSUME RuleAssumption ==
  /\ RuleMaxPattern \in Nat /\ RuleMaxValue \in Nat
  /\ RuleForms \subseteq RuleForm
  /\ RuleCalls \subseteq [action : Seq(STRING), resources : Seq(Seq(STRING))]
  /\ None \notin RuleCalls
  /\ \A call \in RuleCalls : \A i \in DOMAIN call.resources : call.resources[i] # None
  /\ None # <<"*">>

(* None is neither a value of a seam, nor what a hook does, nor the end of  *)
(* a pass.                                                                 *)
ASSUME HookAssumption ==
  /\ HookMaxHooks \in Nat
  /\ None \notin Seq(Nat)
  /\ None \notin {"nil", "longer", "same", "fail", "skip", "skip longer"}
  /\ None \notin {"used", "failed", "skipped", "declined"}

(* Calls name paths of the trees, in a patch at its headers, and None is    *)
(* neither a path, nor a content, nor a patch, nor an answer.               *)
FileText == Seq(STRING)
FileContent == Seq([text : FileText, nl : BOOLEAN])
FileTree == [FilePaths -> FileContent \cup {None}]
FileWork ==
  [tool : {"write"}, path : FilePaths, text : FileContent]
  \cup [tool : {"edit"}, path : FilePaths, old : FileText, new : FileText, all : BOOLEAN]
  \cup [tool : {"apply_patch"},
        lines : Seq([op : STRING, path : FilePaths \cup {None}, text : FileText])]
FileSection ==
  [type : {"add", "delete", "update"}, path : FilePaths, move : FilePaths \cup {None},
   lines : Seq([op : STRING, text : FileText])]
ASSUME FilesAssumption ==
  /\ FileMaxFaults \in Nat
  /\ FileTrees \subseteq FileTree
  /\ FileBatches \subseteq Seq(FileWork)
  /\ \A batch \in FileBatches : \A c \in DOMAIN batch :
       batch[c].tool = "apply_patch" =>
         \A i \in DOMAIN batch[c].lines :
           batch[c].lines[i].op \in {"add", "delete", "update", "move"} =>
             batch[c].lines[i].path \in FilePaths
  /\ None \notin FilePaths /\ None \notin FileContent
  /\ None \notin Seq(FileSection) /\ None \notin {"ok", "error"}

(* Requests are made in the forms of these protocols.                       *)
ASSUME RequestAssumption ==
  RequestProtocols \subseteq {"responses", "chat", "anthropic", "gemini"}

VARIABLES
  hstHistory, hstMessages, hstLoop, hstEvents, hstSaving, hstStored, hstNextIdx,
  hstCancelled, hstReported, hstMade, hstFailures,
  prmScan, prmCheck,
  hksRegistry, hksPass, hksLog,
  flsMode, flsBatch, flsBefore, flsFiles, flsCall, flsFaults, flsCancelled,
  reqHistory

History == INSTANCE AgentHistory WITH
  MinMessages <- HistoryMinMessages, TriggerTokens <- HistoryTriggerTokens,
  KeepRecent <- HistoryKeepRecent, MaxMessages <- HistoryMaxMessages,
  MaxFailures <- HistoryMaxFailures,
  history <- hstHistory, messages <- hstMessages, loop <- hstLoop,
  events <- hstEvents, saving <- hstSaving, stored <- hstStored,
  nextIdx <- hstNextIdx, cancelled <- hstCancelled, reported <- hstReported,
  made <- hstMade, failures <- hstFailures

Rules == INSTANCE PermissionRules WITH
  Letters <- RuleLetters, MaxPattern <- RuleMaxPattern,
  MaxValue <- RuleMaxValue, Forms <- RuleForms, Calls <- RuleCalls,
  scan <- prmScan, check <- prmCheck

Hooked == INSTANCE PluginHooks WITH
  MaxHooks <- HookMaxHooks, Types <- HookTypes, BuiltIn <- HookBuiltIn,
  registry <- hksRegistry, pass <- hksPass, log <- hksLog

Files == INSTANCE FileTools WITH
  Batches <- FileBatches, Trees <- FileTrees, Outside <- FilesOutside,
  MaxFaults <- FileMaxFaults,
  mode <- flsMode, batch <- flsBatch, before <- flsBefore, files <- flsFiles,
  call <- flsCall, faults <- flsFaults, cancelled <- flsCancelled

Bodies == INSTANCE ModelRequests WITH
  Protocols <- RequestProtocols, CallIds <- RequestCalls,
  MaxMessages <- RequestMaxMessages,
  history <- reqHistory

-----------------------------------------------------------------------------
hstVars == <<hstHistory, hstMessages, hstLoop, hstEvents, hstSaving, hstStored, hstNextIdx,
             hstCancelled, hstReported, hstMade, hstFailures>>
HistoryOff ==
  /\ hstHistory = 0 /\ hstMessages = 0 /\ hstLoop = 0 /\ hstEvents = 0 /\ hstSaving = 0
  /\ hstStored = 0 /\ hstNextIdx = 0 /\ hstCancelled = 0 /\ hstReported = 0
  /\ hstMade = 0 /\ hstFailures = 0

prmVars == <<prmScan, prmCheck>>
RulesOff ==
  /\ prmScan = 0 /\ prmCheck = 0

hksVars == <<hksRegistry, hksPass, hksLog>>
HookedOff ==
  /\ hksRegistry = 0 /\ hksPass = 0 /\ hksLog = 0

flsVars == <<flsMode, flsBatch, flsBefore, flsFiles, flsCall, flsFaults, flsCancelled>>
FilesOff ==
  /\ flsMode = 0 /\ flsBatch = 0 /\ flsBefore = 0 /\ flsFiles = 0 /\ flsCall = 0
  /\ flsFaults = 0 /\ flsCancelled = 0

reqVars == <<reqHistory>>
BodiesOff ==
  /\ reqHistory = 0

LoopPartsOff == HistoryOff /\ RulesOff /\ HookedOff /\ FilesOff /\ BodiesOff

LoopPartsInit ==
  \/ /\ machine = "history" /\ History!Init
     /\ RulesOff /\ HookedOff /\ FilesOff /\ BodiesOff
  \/ /\ machine = "rules" /\ Rules!Init
     /\ HistoryOff /\ HookedOff /\ FilesOff /\ BodiesOff
  \/ /\ machine = "hooks" /\ Hooked!Init
     /\ HistoryOff /\ RulesOff /\ FilesOff /\ BodiesOff
  \/ /\ machine = "files" /\ Files!Init
     /\ HistoryOff /\ RulesOff /\ HookedOff /\ BodiesOff
  \/ /\ machine = "requests" /\ Bodies!Init
     /\ HistoryOff /\ RulesOff /\ HookedOff /\ FilesOff

(* a step of the one component that moves                                  *)
LoopPartsNext ==
  \/ /\ machine = "history" /\ History!Next
     /\ UNCHANGED <<machine, prmVars, hksVars, flsVars, reqVars>>
  \/ /\ machine = "rules" /\ Rules!Next
     /\ UNCHANGED <<machine, hstVars, hksVars, flsVars, reqVars>>
  \/ /\ machine = "hooks" /\ Hooked!Next
     /\ UNCHANGED <<machine, hstVars, prmVars, flsVars, reqVars>>
  \/ /\ machine = "files" /\ Files!Next
     /\ UNCHANGED <<machine, hstVars, prmVars, hksVars, reqVars>>
  \/ /\ machine = "requests" /\ Bodies!Next
     /\ UNCHANGED <<machine, hstVars, prmVars, hksVars, flsVars>>

loopPartVars == <<hstVars, prmVars, hksVars, flsVars, reqVars>>

LoopPartsSpec == LoopPartsInit /\ [][LoopPartsNext]_<<machine, loopPartVars>>

-----------------------------------------------------------------------------
(* AgentHistory: as long as a run lasts, what the model has been told stays *)
(* in its context or in a summary of it; and while the runs of a session   *)
(* all end well, its rows, which a later process hydrates, are all its     *)
(* messages, at indexes without a gap and in the order they have in memory *)
(* (transformHistory, sessionMessagePersistence, hydrate).  A marker of a  *)
(* compaction is left out of the last part: it may be saved at another     *)
(* place, and then hides messages from the later process that it kept here.*)
HistoryIsKept == [][machine = "history" => History!KeepsHistory]_<<machine, loopPartVars>>

(* PermissionRules, PluginHooks, FileTools, ModelRequests, each with the    *)
(* cases in which the code does not do it:                                  *)
(*   - a check gives the answer of the last rule that covers a resource,    *)
(*     where a rule covers what its patterns mean, of an action or resource *)
(*     with a "*" what the matcher takes (Evaluate, wildcardMatch);         *)
(*   - a pass through the hooks gives what all of them wrote, but for the   *)
(*     nil of the user's hook, the nil of a lone hook of a plugin, and a    *)
(*     rewritten history of the same length (build, runTurn);               *)
(*   - edits and patches that succeed do what they say, in sequence or on   *)
(*     files of their own, but for a patch that moves a file onto itself,   *)
(*     and change only files they were checked for (applyPatchSection);     *)
(*   - each tool call has its one result in every request                   *)
(*     (ExpandToolMessages, body).                                          *)
AnswersAreRight ==
  /\ machine = "rules" => Rules!RulesDecide
  /\ machine = "hooks" => Hooked!HooksCompose
  /\ machine = "files" => Files!FilesAreWhole
  /\ machine = "requests" => Bodies!CallsAreAnswered
=============================================================================
