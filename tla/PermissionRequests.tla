------------------------- MODULE PermissionRequests -------------------------
(***************************************************************************)
(* Interactive permissions of one session.  A tool call whose resources    *)
(* need consent blocks in permissionPrompter.Request; the consent is a     *)
(* durable row that an HTTP reply, the wait's deadline, the cancellation   *)
(* of the run, shutdown or startup recovery resolves.  All of them race,   *)
(* and the row decides.                                                    *)
(*                                                                         *)
(* Event publication is left to SessionEvents.  A request asks for one     *)
(* action; a grant is the pair of action and resource, here a resource.    *)
(***************************************************************************)
EXTENDS Naturals

CONSTANTS Requests,    \* calls of Request, each with an id of its own
          Resources,
          ResourcesOf, \* info.Resources of each call
          Runs,
          RunOf,       \* the run whose tool call asks
          MaxStops     \* bound: shutdowns and crashes of a behaviour

ASSUME CallsAssumption ==
  /\ ResourcesOf \in [Requests -> SUBSET Resources]
  /\ RunOf \in [Requests -> Runs]
  /\ MaxStops \in Nat

VARIABLES
  request,   \* permission_requests row: "none", "pending" or its resolution
  grants,    \* permission_grants of the session
  session,   \* the session row exists
  place,     \* where the call of Request is
  waiter,    \* m.waiters[id]: "none", "empty", or the resolution in the channel
  want,      \* the resolution that the prompter itself asks for
  outcome,   \* what the call returned; "error": an error of the store
  notifying, \* replies that committed and have not yet called notify
  cancelled, \* runs whose context was cancelled
  phase, stops,
  orphans    \* history: requests whose own prompter gave them up unresolved

storeVars == <<request, grants, session>>
promptVars == <<place, waiter, want, outcome>>
processVars == <<phase, stops>>
vars == <<storeVars, promptVars, notifying, cancelled, processVars, orphans>>

(* legalPermissionResolution ties each response to one status (once and     *)
(* always to approved, reject to rejected, none to timed_out or             *)
(* interrupted), so one value stands for both.                              *)
Replies == {"once", "always", "reject"}
Resolutions == Replies \cup {"timed_out", "interrupted"}

(* What the tool call is told of a resolution. *)
permissionOutcome(res) ==
  IF res \in Replies THEN res
  ELSE IF res = "timed_out" THEN "deadline exceeded"
  ELSE IF res = "interrupted" THEN "canceled" ELSE "error"

Outcomes == Replies \cup {"none", "deadline exceeded", "canceled", "error"}
Places == {"idle", "registered", "waiting", "resolving", "fetching", "done"}

Init ==
  /\ request = [r \in Requests |-> "none"]
  /\ grants = {}
  /\ session = TRUE
  /\ place = [r \in Requests |-> "idle"]
  /\ waiter = [r \in Requests |-> "none"]
  /\ want = [r \in Requests |-> "none"]
  /\ outcome = [r \in Requests |-> "none"]
  /\ notifying = {}
  /\ cancelled = {}
  /\ phase = "serving" /\ stops = 0
  /\ orphans = {}

Up == phase # "down"
(* A run's context is a child of the root context. *)
CtxDone(r) == RunOf[r] \in cancelled \/ phase = "stopping"

-----------------------------------------------------------------------------
(* ResolvePermissionRequest, one transaction *)

Resolvable(r) == session /\ request[r] = "pending"

(* Faulty variant: every approval grants. *)
ResolveAlwaysGrants(r, res) ==
  /\ Resolvable(r)
  /\ request' = [request EXCEPT ![r] = res]
  /\ grants' = IF res \in {"once", "always"} THEN grants \cup ResourcesOf[r]
               ELSE grants
  /\ UNCHANGED session

(* An approval for always also inserts the missing grants. *)
ResolvePermissionRequest(r, res) ==
  /\ Resolvable(r)
  /\ request' = [request EXCEPT ![r] = res]
  /\ grants' = IF res = "always" THEN grants \cup ResourcesOf[r] ELSE grants
  /\ UNCHANGED session

(* notify: never blocks; the channel holds one resolution. *)
notify(r, res) ==
  waiter' = IF waiter[r] = "empty" THEN [waiter EXCEPT ![r] = res] ELSE waiter

-----------------------------------------------------------------------------
(* permissionPrompter.Request *)

(* The call returns, and its deferred removeWaiter runs. *)
Return(r, out) ==
  /\ place' = [place EXCEPT ![r] = "done"]
  /\ outcome' = [outcome EXCEPT ![r] = out]
  /\ waiter' = [waiter EXCEPT ![r] = "none"]
  /\ want' = [want EXCEPT ![r] = "none"]

(* Faulty variant: one granted resource is enough. *)
PartlyGranted(r) ==
  /\ Up
  /\ place[r] = "idle"
  /\ session /\ ResourcesOf[r] \cap grants # {}
  /\ Return(r, "always")
  /\ UNCHANGED <<storeVars, notifying, cancelled, processVars, orphans>>

(* Earlier grants cover every resource: nobody is asked. *)
AlreadyGranted(r) ==
  /\ Up
  /\ place[r] = "idle"
  /\ session /\ ResourcesOf[r] \subseteq grants
  /\ Return(r, "always")
  /\ UNCHANGED <<storeVars, notifying, cancelled, processVars, orphans>>

(* The waiter is registered before the request exists. *)
RegisterWaiter(r) ==
  /\ Up
  /\ place[r] = "idle"
  /\ session /\ ~(ResourcesOf[r] \subseteq grants)
  /\ place' = [place EXCEPT ![r] = "registered"]
  /\ waiter' = [waiter EXCEPT ![r] = "empty"]
  /\ UNCHANGED <<storeVars, want, outcome, notifying, cancelled, processVars,
                 orphans>>

(* Reading the grants, or creating the request, fails. *)
CreateFails(r) ==
  /\ Up
  /\ place[r] \in {"idle", "registered"}
  /\ Return(r, "error")
  /\ UNCHANGED <<storeVars, notifying, cancelled, processVars, orphans>>

CreatePermissionRequest(r) ==
  /\ session
  /\ request' = [request EXCEPT ![r] = "pending"]
  /\ UNCHANGED <<grants, session>>

Create(r) ==
  /\ Up
  /\ place[r] = "registered"
  /\ ~CtxDone(r)
  /\ CreatePermissionRequest(r)
  /\ place' = [place EXCEPT ![r] = "waiting"]
  /\ UNCHANGED <<waiter, want, outcome, notifying, cancelled, processVars,
                 orphans>>

(* The run's context ends while the request commits: the call reports the *)
(* cancellation, and the request stays pending with nobody behind it.     *)
CreateReplyLost(r) ==
  /\ Up
  /\ place[r] = "registered"
  /\ CtxDone(r)
  /\ CreatePermissionRequest(r)
  /\ Return(r, "error")
  /\ orphans' = orphans \cup {r}
  /\ UNCHANGED <<notifying, cancelled, processVars>>

(* The select: any case that is ready may be taken. *)
SelectReply(r) ==
  /\ Up
  /\ place[r] = "waiting"
  /\ waiter[r] \in Resolutions
  /\ Return(r, permissionOutcome(waiter[r]))
  /\ UNCHANGED <<storeVars, notifying, cancelled, processVars, orphans>>

GiveUp(r, res) ==
  /\ Up
  /\ place[r] = "waiting"
  /\ place' = [place EXCEPT ![r] = "resolving"]
  /\ want' = [want EXCEPT ![r] = res]
  /\ UNCHANGED <<storeVars, waiter, outcome, notifying, cancelled, processVars,
                 orphans>>

(* Faulty variant: the wait has no deadline of its own. *)
SelectNoTimeout(r) == CtxDone(r) /\ GiveUp(r, "timed_out")

SelectTimeout(r) == GiveUp(r, "timed_out")
SelectDone(r) == CtxDone(r) /\ GiveUp(r, "interrupted")

(* resolve, when the prompter is first *)
ResolveWins(r) ==
  /\ Up
  /\ place[r] = "resolving"
  /\ ResolvePermissionRequest(r, want[r])
  /\ Return(r, permissionOutcome(want[r]))
  /\ UNCHANGED <<notifying, cancelled, processVars, orphans>>

(* Somebody resolved it otherwise: a conflict, and the winner is read. *)
ResolveConflicts(r) ==
  /\ Up
  /\ place[r] = "resolving"
  /\ session /\ request[r] # "pending"
  /\ place' = [place EXCEPT ![r] = "fetching"]
  /\ UNCHANGED <<storeVars, waiter, want, outcome, notifying, cancelled,
                 processVars, orphans>>

(* Faulty variant: the loser of the race keeps its own resolution. *)
FetchNothing(r) ==
  /\ Up
  /\ place[r] = "fetching"
  /\ Return(r, permissionOutcome(want[r]))
  /\ UNCHANGED <<storeVars, notifying, cancelled, processVars, orphans>>

FetchWinner(r) ==
  /\ Up
  /\ place[r] = "fetching"
  /\ session
  /\ Return(r, permissionOutcome(request[r]))
  /\ UNCHANGED <<storeVars, notifying, cancelled, processVars, orphans>>

(* The store does not answer within resolutionTimeout, or the session is *)
(* gone: the error is returned.                                          *)
ResolveFails(r) ==
  /\ Up
  /\ place[r] \in {"resolving", "fetching"}
  /\ Return(r, "error")
  /\ orphans' = orphans \cup {r}
  /\ UNCHANGED <<storeVars, notifying, cancelled, processVars>>

(* The deadline of the resolution expires while it commits. *)
ResolveReplyLost(r) ==
  /\ Up
  /\ place[r] = "resolving"
  /\ ResolvePermissionRequest(r, want[r])
  /\ Return(r, "error")
  /\ UNCHANGED <<notifying, cancelled, processVars, orphans>>

-----------------------------------------------------------------------------
(* handleReplyPermissionRequest *)

Reply(r, res) ==
  /\ Up
  /\ ResolvePermissionRequest(r, res)
  /\ notifying' = notifying \cup {<<r, res>>}
  /\ UNCHANGED <<promptVars, cancelled, processVars, orphans>>

(* The client goes away while its reply commits: nobody is notified. *)
ReplyLost(r, res) ==
  /\ Up
  /\ ResolvePermissionRequest(r, res)
  /\ UNCHANGED <<promptVars, notifying, cancelled, processVars, orphans>>

(* The same reply again changes nothing and notifies; any other conflicts. *)
ReplyAgain(r, res) ==
  /\ Up
  /\ session /\ request[r] = res
  /\ notifying' = notifying \cup {<<r, res>>}
  /\ UNCHANGED <<storeVars, promptVars, cancelled, processVars, orphans>>

Notify(r, res) ==
  /\ Up
  /\ <<r, res>> \in notifying
  /\ notifying' = notifying \ {<<r, res>>}
  /\ notify(r, res)
  /\ UNCHANGED <<storeVars, place, want, outcome, cancelled, processVars,
                 orphans>>

-----------------------------------------------------------------------------
(* The run's context is cancelled: an abort, or the purge of the session. *)
CancelRun(u) ==
  /\ Up
  /\ u \notin cancelled
  /\ cancelled' = cancelled \cup {u}
  /\ UNCHANGED <<storeVars, promptVars, notifying, processVars, orphans>>

(* Rows of a purged session are out of reach of every operation. *)
PurgeSession ==
  /\ Up
  /\ session
  /\ session' = FALSE
  /\ UNCHANGED <<request, grants, promptVars, notifying, cancelled,
                 processVars, orphans>>

Shutdown ==
  /\ phase = "serving"
  /\ stops < MaxStops
  /\ stops' = stops + 1
  /\ phase' = "stopping"
  /\ UNCHANGED <<storeVars, promptVars, notifying, cancelled, orphans>>

ProcessLost ==
  /\ phase' = "down"
  /\ place' = [r \in Requests |-> IF place[r] = "idle" THEN "idle" ELSE "done"]
  /\ waiter' = [r \in Requests |-> "none"]
  /\ want' = [r \in Requests |-> "none"]
  /\ notifying' = {}
  /\ orphans' = {}
  /\ UNCHANGED <<storeVars, outcome, cancelled>>

Exit == phase = "stopping" /\ ProcessLost /\ UNCHANGED stops

Crash ==
  /\ Up
  /\ stops < MaxStops
  /\ stops' = stops + 1
  /\ ProcessLost

(* Faulty variant: requests left pending are kept. *)
RecoverNothing ==
  /\ phase = "down"
  /\ phase' = "serving"
  /\ UNCHANGED <<storeVars, promptVars, notifying, cancelled, stops, orphans>>

(* Startup: InterruptPendingPermissionRequests, one transaction, before *)
(* anything is served.                                                  *)
Recover ==
  /\ phase = "down"
  /\ phase' = "serving"
  /\ request' = [r \in Requests |->
                   IF Resolvable(r) THEN "interrupted" ELSE request[r]]
  /\ UNCHANGED <<grants, session, promptVars, notifying, cancelled, stops,
                 orphans>>

-----------------------------------------------------------------------------

PromptStep(r) ==
  \/ AlreadyGranted(r) \/ RegisterWaiter(r) \/ CreateFails(r)
  \/ Create(r) \/ CreateReplyLost(r)
  \/ SelectReply(r) \/ SelectTimeout(r) \/ SelectDone(r)
  \/ ResolveWins(r) \/ ResolveConflicts(r) \/ FetchWinner(r)
  \/ ResolveFails(r) \/ ResolveReplyLost(r)

ReplyStep(r, res) ==
  Reply(r, res) \/ ReplyLost(r, res) \/ ReplyAgain(r, res) \/ Notify(r, res)

Next ==
  \/ \E r \in Requests : PromptStep(r)
  \/ \E r \in Requests, res \in Replies : ReplyStep(r, res)
  \/ \E u \in Runs : CancelRun(u)
  \/ PurgeSession \/ Shutdown \/ Exit \/ Crash \/ Recover

Spec == Init /\ [][Next]_vars

(* The goroutine of a tool call runs, and its wait has a deadline. *)
FairSpec == Spec /\ \A r \in Requests : WF_vars(PromptStep(r))

-----------------------------------------------------------------------------
(* Properties *)

(* Whoever wins the race between a reply, the deadline, a cancellation and *)
(* a shutdown, the tool call acts on what the durable row says: a call     *)
(* that asked and did not fail returned the row's resolution.              *)
OutcomeIsStored ==
  \A r \in Requests :
    request[r] # "none" /\ outcome[r] \notin {"none", "error"} =>
      outcome[r] = permissionOutcome(request[r])

(* No tool runs without consent: a call that returned once or always has   *)
(* an approved row, or every resource was granted before.                  *)
ConsentBeforeUse ==
  \A r \in Requests : outcome[r] \in {"once", "always"} =>
    \/ request[r] = outcome[r]
    \/ outcome[r] = "always" /\ ResourcesOf[r] \subseteq grants

(* A grant that spares the user a question was given by the user: some     *)
(* request for that resource was answered always.                          *)
GrantsWereGiven ==
  \A x \in grants : \E r \in Requests :
    x \in ResourcesOf[r] /\ request[r] = "always"

(* A request is not left pending with nobody waiting for its answer, not   *)
(* even by a process that died: the exceptions are those whose own         *)
(* resolution failed, or whose creation was cancelled while it committed,  *)
(* and those last until the next startup.                                  *)
PendingIsAwaited ==
  phase = "serving" /\ session =>
    \A r \in Requests : request[r] = "pending" =>
      place[r] \in {"waiting", "resolving"} \/ r \in orphans

(* A tool call that asked gets an answer: a lost reply, a full channel or  *)
(* a conflict never leaves it blocked.                                     *)
PromptReturns ==
  \A r \in Requests : place[r] = "waiting" ~> place[r] = "done"
=============================================================================
