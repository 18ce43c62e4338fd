----------------------------- MODULE SessionRuns -----------------------------
(***************************************************************************)
(* The run queue of the daemon: the durable queue of RunStore drained by   *)
(* the daemon-local workers of sessionRunManager, with the HTTP handlers   *)
(* that admit, abort and purge, the reconciler, graceful shutdown, crash   *)
(* and startup recovery.                                                   *)
(*                                                                         *)
(* One action is one critical section of the manager's mutex, one store    *)
(* transaction, or one read of a context, in the order of the code.        *)
(***************************************************************************)
EXTENDS RunStore

CONSTANTS NoRun,        \* no run
          ClaimRetryLimit, \* attempts of claim() before the worker gives up
          Abortable,    \* bound: the runs some client aborts by id
          MaxStops      \* bound: shutdowns and crashes of a behaviour

ASSUME NoRunAssumption == NoRun \notin Runs
ASSUME BoundsAssumption == ClaimRetryLimit \in Nat \ {0} /\ MaxStops \in Nat

VARIABLES
  phase,      \* of the daemon process
  stops,      \* shutdowns and crashes so far
  worker,     \* the place of drain(s); "idle": s is not in m.active
  attempt,    \* failed claims of the current claim()
  current,    \* the run that execute() holds
  target,     \* the status that settle() was called with
  cancelled,  \* the worker's own context was cancelled by stopAndWait
  runCancel,  \* m.runCancel[s]: the run whose cancel function is registered
  runAborted, \* that cancel function was called
  pending,    \* m.pending
  wakes,      \* runs whose message handler has admitted and not yet woken
  resuming,   \* sessions that resumeQueued listed and has not yet woken
  aborting,   \* the status handleAbortSessionRun read, or "idle"
  deleting,   \* sessions purged whose handler has not yet called stopAndWait
  missed      \* history: sessions whose wake-up the daemon itself dropped

workerVars == <<worker, attempt, current, target, cancelled>>
runVars == <<runCancel, runAborted>>
handlerVars == <<wakes, aborting, deleting>>
vars == <<storeVars, phase, stops, workerVars, runVars, pending, handlerVars,
          resuming, missed>>

Phases == {"down", "recovering", "resuming", "serving", "draining", "stopped"}
Places == {"idle", "claiming", "empty", "claimed", "executing", "settling",
           "leaving"}

Optional(S) == S \cup {NoRun}

TypeOK ==
  /\ sessions \subseteq Sessions
  /\ status \in [Runs -> Status]
  /\ sequence \in [Runs -> Nat]
  /\ phase \in Phases
  /\ stops \in 0..MaxStops
  /\ worker \in [Sessions -> Places]
  /\ attempt \in [Sessions -> 0..ClaimRetryLimit]
  /\ current \in [Sessions -> Optional(Runs)]
  /\ target \in [Sessions -> Terminal \cup {"none"}]
  /\ cancelled \in [Sessions -> BOOLEAN]
  /\ runCancel \in [Sessions -> Optional(Runs)]
  /\ runAborted \in [Sessions -> BOOLEAN]
  /\ pending \subseteq Sessions
  /\ wakes \subseteq Runs
  /\ resuming \subseteq Sessions
  /\ aborting \in [Runs -> {"idle", "queued", "running"}]
  /\ deleting \subseteq Sessions
  /\ missed \subseteq Sessions

(* Handlers in flight outlive the root context and even runs.stop(): HTTP is *)
(* drained with a timeout.                                                   *)
Up == phase \in {"serving", "draining", "stopped"}
Shutdown == phase \in {"draining", "stopped"}

(* ctx.Err() # nil for the context that wake() gave the worker. *)
CtxDone(s) == Shutdown \/ cancelled[s]
(* runCtx is a child of the worker's context. *)
RunCtxDone(s) == CtxDone(s) \/ runAborted[s]

-----------------------------------------------------------------------------
(* Everything the process holds in memory. *)

DaemonInit ==
  /\ worker = [s \in Sessions |-> "idle"]
  /\ attempt = [s \in Sessions |-> 0]
  /\ current = [s \in Sessions |-> NoRun]
  /\ target = [s \in Sessions |-> "none"]
  /\ cancelled = [s \in Sessions |-> FALSE]
  /\ runCancel = [s \in Sessions |-> NoRun]
  /\ runAborted = [s \in Sessions |-> FALSE]
  /\ pending = {}
  /\ wakes = {}
  /\ resuming = {}
  /\ aborting = [r \in Runs |-> "idle"]
  /\ deleting = {}
  /\ missed = {}

Init == StoreInit /\ DaemonInit /\ phase = "serving" /\ stops = 0

DaemonLost ==
  /\ worker' = [s \in Sessions |-> "idle"]
  /\ attempt' = [s \in Sessions |-> 0]
  /\ current' = [s \in Sessions |-> NoRun]
  /\ target' = [s \in Sessions |-> "none"]
  /\ cancelled' = [s \in Sessions |-> FALSE]
  /\ runCancel' = [s \in Sessions |-> NoRun]
  /\ runAborted' = [s \in Sessions |-> FALSE]
  /\ pending' = {}
  /\ wakes' = {}
  /\ resuming' = {}
  /\ aborting' = [r \in Runs |-> "idle"]
  /\ deleting' = {}
  /\ missed' = {}

-----------------------------------------------------------------------------
(* wake, one critical section of m.mu *)

wake(s) ==
  /\ missed' = missed \ {s}
  /\ \/ /\ phase = "stopped"
        /\ UNCHANGED <<workerVars, pending>>
     \/ /\ phase # "stopped"
        /\ worker[s] # "idle"
        /\ pending' = pending \cup {s}
        /\ UNCHANGED workerVars
     \/ /\ phase # "stopped"
        /\ worker[s] = "idle"
        /\ worker' = [worker EXCEPT ![s] = "claiming"]
        /\ attempt' = [attempt EXCEPT ![s] = 0]
        /\ cancelled' = [cancelled EXCEPT ![s] = FALSE]
        /\ UNCHANGED <<current, target, pending>>

(* finishLocked: the worker leaves m.active, and a pending wake-up is *)
(* dropped with it.                                                   *)
finishLocked(s) ==
  /\ worker' = [worker EXCEPT ![s] = "idle"]
  /\ attempt' = [attempt EXCEPT ![s] = 0]
  /\ current' = [current EXCEPT ![s] = NoRun]
  /\ target' = [target EXCEPT ![s] = "none"]
  /\ cancelled' = [cancelled EXCEPT ![s] = FALSE]
  /\ runCancel' = [runCancel EXCEPT ![s] = NoRun]
  /\ runAborted' = [runAborted EXCEPT ![s] = FALSE]
  /\ pending' = pending \ {s}

(* The next iteration of drain's loop. *)
nextClaim(s) ==
  /\ worker' = [worker EXCEPT ![s] = "claiming"]
  /\ attempt' = [attempt EXCEPT ![s] = 0]
  /\ current' = [current EXCEPT ![s] = NoRun]
  /\ target' = [target EXCEPT ![s] = "none"]
  /\ UNCHANGED cancelled

-----------------------------------------------------------------------------
(* drain and claim *)

(* The claim commits and the worker learns of it. *)
Claim(s) ==
  /\ worker[s] = "claiming"
  /\ ~CtxDone(s)
  /\ \E r \in Runs :
       /\ ClaimNextSessionRun(s, r)
       /\ current' = [current EXCEPT ![s] = r]
  /\ worker' = [worker EXCEPT ![s] = "claimed"]
  /\ UNCHANGED <<phase, stops, attempt, target, cancelled, runVars, pending,
                 handlerVars, resuming, missed>>

(* A context that ends while COMMIT executes makes the driver report the *)
(* cancellation of a transaction that took effect: the run is running    *)
(* and nobody executes it.                                               *)
ClaimReplyLost(s) ==
  /\ worker[s] = "claiming"
  /\ CtxDone(s)
  /\ \E r \in Runs : ClaimNextSessionRun(s, r)
  /\ finishLocked(s)
  /\ UNCHANGED <<phase, stops, handlerVars, resuming, missed>>

ClaimEmpty(s) ==
  /\ worker[s] = "claiming"
  /\ ~CtxDone(s)
  /\ ClaimReturnsNothing(s)
  /\ worker' = [worker EXCEPT ![s] = "empty"]
  /\ UNCHANGED <<storeVars, phase, stops, attempt, current, target, cancelled,
                 runVars, pending, handlerVars, resuming, missed>>

(* Faulty variant: no limit on the attempts. *)
ClaimErrorUnbounded(s) ==
  /\ worker[s] = "claiming"
  /\ ~CtxDone(s)
  /\ s \in sessions
  /\ attempt' = [attempt EXCEPT ![s] = @ + 1]
  /\ UNCHANGED <<storeVars, phase, stops, worker, current, target, cancelled,
                 runVars, pending, handlerVars, resuming, missed>>

(* A store error: tried again while attempts remain. *)
ClaimError(s) ==
  /\ worker[s] = "claiming"
  /\ ~CtxDone(s)
  /\ s \in sessions
  /\ attempt[s] + 1 < ClaimRetryLimit
  /\ attempt' = [attempt EXCEPT ![s] = @ + 1]
  /\ UNCHANGED <<storeVars, phase, stops, worker, current, target, cancelled,
                 runVars, pending, handlerVars, resuming, missed>>

(* The last attempt failed: drain returns, and with it goes m.pending. *)
ClaimGivesUp(s) ==
  /\ worker[s] = "claiming"
  /\ ~CtxDone(s)
  /\ s \in sessions
  /\ attempt[s] + 1 = ClaimRetryLimit
  /\ finishLocked(s)
  /\ missed' = missed \cup {s}
  /\ UNCHANGED <<storeVars, phase, stops, handlerVars, resuming>>

(* ErrSessionNotFound, or the context ended: drain returns at once. *)
ClaimStops(s) ==
  /\ worker[s] = "claiming"
  /\ CtxDone(s) \/ s \notin sessions
  /\ finishLocked(s)
  /\ UNCHANGED <<storeVars, phase, stops, handlerVars, resuming, missed>>

(* Faulty variant: the worker leaves without a look at m.pending. *)
CheckPendingNot(s) ==
  /\ worker[s] = "empty"
  /\ finishLocked(s)
  /\ UNCHANGED <<storeVars, phase, stops, handlerVars, resuming, missed>>

(* Nothing was claimed: under the mutex, look again if a wake-up arrived, *)
(* else leave.                                                            *)
CheckPending(s) ==
  /\ worker[s] = "empty"
  /\ \/ /\ s \in pending
        /\ pending' = pending \ {s}
        /\ nextClaim(s)
        /\ UNCHANGED runVars
     \/ /\ s \notin pending
        /\ finishLocked(s)
  /\ UNCHANGED <<storeVars, phase, stops, handlerVars, resuming, missed>>

-----------------------------------------------------------------------------
(* execute and settle *)

Register(s) ==
  /\ worker[s] = "claimed"
  /\ worker' = [worker EXCEPT ![s] = "executing"]
  /\ runCancel' = [runCancel EXCEPT ![s] = current[s]]
  /\ runAborted' = [runAborted EXCEPT ![s] = FALSE]
  /\ UNCHANGED <<storeVars, phase, stops, attempt, current, target, cancelled,
                 pending, handlerVars, resuming, missed>>

(* The run's stream ends.  A cancelled context decides the outcome whatever *)
(* the stream returned; otherwise the stream's error does.                  *)
Outcomes(s) == IF RunCtxDone(s) THEN {"aborted"} ELSE {"completed", "failed"}

Execute(s) ==
  /\ worker[s] = "executing"
  /\ \E t \in Outcomes(s) : target' = [target EXCEPT ![s] = t]
  /\ worker' = [worker EXCEPT ![s] = "settling"]
  /\ UNCHANGED <<storeVars, phase, stops, attempt, current, cancelled, runVars,
                 pending, handlerVars, resuming, missed>>

leave(s) ==
  /\ worker' = [worker EXCEPT ![s] = "leaving"]
  /\ UNCHANGED <<attempt, current, target, cancelled>>

(* A settlement that commits.  Store errors, conflicts and a deleted row   *)
(* leave the worker where it is: settle() retries without limit.  With the *)
(* context ended a commit may still take effect, its reply lost.           *)
Settle(s) ==
  /\ worker[s] = "settling"
  /\ SettleSessionRun(current[s], "running", target[s])
  /\ leave(s)
  /\ UNCHANGED <<phase, stops, runVars, pending, handlerVars, resuming, missed>>

(* The context ended: "deferred to startup recovery". *)
SettleDeferred(s) ==
  /\ worker[s] = "settling"
  /\ CtxDone(s)
  /\ leave(s)
  /\ UNCHANGED <<storeVars, phase, stops, runVars, pending, handlerVars,
                 resuming, missed>>

(* execute returns: its deferred function unregisters the run, and drain *)
(* goes on unless its context ended.                                     *)
Leave(s) ==
  /\ worker[s] = "leaving"
  /\ \/ CtxDone(s) /\ finishLocked(s)
     \/ /\ ~CtxDone(s)
        /\ nextClaim(s)
        /\ runCancel' = [runCancel EXCEPT ![s] = NoRun]
        /\ runAborted' = [runAborted EXCEPT ![s] = FALSE]
        /\ UNCHANGED pending
  /\ UNCHANGED <<storeVars, phase, stops, handlerVars, resuming, missed>>

-----------------------------------------------------------------------------
(* HTTP handlers *)

(* handleMessageSession up to its commit. *)
Admit(r) ==
  /\ Up
  /\ AdmitSessionRun(r)
  /\ wakes' = wakes \cup {r}
  /\ UNCHANGED <<phase, stops, workerVars, runVars, pending, aborting,
                 deleting, resuming, missed>>

(* The client goes away while the admission commits: the handler reports an *)
(* error and wakes nobody.                                                  *)
AdmitReplyLost(r) ==
  /\ Up
  /\ AdmitSessionRun(r)
  /\ missed' = missed \cup {SessionOf[r]}
  /\ UNCHANGED <<phase, stops, workerVars, runVars, pending, handlerVars,
                 resuming>>

(* The same request id and hash again: the existing run is returned. *)
Readmit(r) ==
  /\ Up
  /\ status[r] = "queued"
  /\ wakes' = wakes \cup {r}
  /\ UNCHANGED <<storeVars, phase, stops, workerVars, runVars, pending,
                 aborting, deleting, resuming, missed>>

WakeAdmitted(r) ==
  /\ Up
  /\ r \in wakes
  /\ wakes' = wakes \ {r}
  /\ wake(SessionOf[r])
  /\ UNCHANGED <<storeVars, phase, stops, runVars, aborting, deleting,
                 resuming>>

(* m.abort(s), the session's registered run whatever it is *)
abort(s) ==
  IF runCancel[s] = NoRun THEN UNCHANGED runAborted
  ELSE runAborted' = [runAborted EXCEPT ![s] = TRUE]

(* handleAbortSession *)
AbortSession(s) ==
  /\ Up
  /\ s \in sessions
  /\ abort(s)
  /\ UNCHANGED <<storeVars, phase, stops, workerVars, runCancel, pending,
                 handlerVars, resuming, missed>>

(* handleAbortSessionRun reads the run, then acts on what it read. *)
AbortRunRead(r) ==
  /\ Up
  /\ r \in Abortable
  /\ aborting[r] = "idle"
  /\ status[r] \in {"queued", "running"}
  /\ aborting' = [aborting EXCEPT ![r] = status[r]]
  /\ UNCHANGED <<storeVars, phase, stops, workerVars, runVars, pending, wakes,
                 deleting, resuming, missed>>

(* Faulty variant: the settlement does not expect the status that was read. *)
AbortRunAnyStatus(r) ==
  /\ Up
  /\ aborting[r] = "queued"
  /\ SettleSessionRun(r, status[r], "aborted")
  /\ aborting' = [aborting EXCEPT ![r] = "idle"]
  /\ UNCHANGED <<phase, stops, workerVars, runVars, pending, wakes, deleting,
                 resuming, missed>>

AbortRunQueued(r) ==
  /\ Up
  /\ aborting[r] = "queued"
  /\ \/ SettleSessionRun(r, "queued", "aborted")
     \/ ~SettleChanges(r, "queued", "aborted") /\ UNCHANGED storeVars
  /\ aborting' = [aborting EXCEPT ![r] = "idle"]
  /\ UNCHANGED <<phase, stops, workerVars, runVars, pending, wakes, deleting,
                 resuming, missed>>

AbortRunRunning(r) ==
  /\ Up
  /\ aborting[r] = "running"
  /\ abort(SessionOf[r])
  /\ aborting' = [aborting EXCEPT ![r] = "idle"]
  /\ UNCHANGED <<storeVars, phase, stops, workerVars, runCancel, pending,
                 wakes, deleting, resuming, missed>>

(* handleDeleteSession: the purge commits, then the worker is stopped. *)
Delete(s) ==
  /\ Up
  /\ PurgeSession(s)
  /\ deleting' = deleting \cup {s}
  /\ UNCHANGED <<phase, stops, workerVars, runVars, pending, wakes, aborting,
                 resuming, missed>>

(* The client goes away while the purge commits: the handler returns before *)
(* it stops the worker.                                                     *)
DeleteReplyLost(s) ==
  /\ Up
  /\ PurgeSession(s)
  /\ UNCHANGED <<phase, stops, workerVars, runVars, pending, handlerVars,
                 resuming, missed>>

(* Faulty variant: waits without cancelling. *)
waitOnly(s) ==
  /\ Up
  /\ s \in deleting
  /\ deleting' = deleting \ {s}
  /\ pending' = pending \ {s}
  /\ UNCHANGED <<storeVars, phase, stops, workerVars, runVars, wakes, aborting,
                 resuming, missed>>

stopAndWait(s) ==
  /\ Up
  /\ s \in deleting
  /\ deleting' = deleting \ {s}
  /\ pending' = pending \ {s}
  /\ cancelled' = [cancelled EXCEPT ![s] = worker[s] # "idle"]
  /\ UNCHANGED <<storeVars, phase, stops, worker, attempt, current, target,
                 runVars, wakes, aborting, resuming, missed>>

-----------------------------------------------------------------------------
(* resumeQueued, at startup and on every tick of the reconciler *)

(* Faulty variant: queued sessions are not looked for. *)
resumeNothing == resuming' = {}

resumeQueued == resuming' = ListQueuedSessionRunSessions

ReconcileTick ==
  /\ phase = "serving"
  /\ resuming = {}
  /\ resumeQueued
  /\ UNCHANGED <<storeVars, phase, stops, workerVars, runVars, pending,
                 handlerVars, missed>>

WakeResumed(s) ==
  /\ phase # "down"
  /\ s \in resuming
  /\ resuming' = resuming \ {s}
  /\ wake(s)
  /\ UNCHANGED <<storeVars, phase, stops, runVars, handlerVars>>

-----------------------------------------------------------------------------
(* The process: shutdown, crash, and Server.Start *)

(* The root context is cancelled; HTTP is drained. *)
Cancel ==
  /\ phase = "serving"
  /\ stops < MaxStops
  /\ stops' = stops + 1
  /\ phase' = "draining"
  /\ UNCHANGED <<storeVars, workerVars, runVars, pending, handlerVars,
                 resuming, missed>>

(* Server.Close: m.stop() *)
Stop ==
  /\ phase = "draining"
  /\ phase' = "stopped"
  /\ UNCHANGED <<storeVars, stops, workerVars, runVars, pending, handlerVars,
                 resuming, missed>>

(* Close waits for the workers, but not beyond its timeout. *)
Exit ==
  /\ phase = "stopped"
  /\ phase' = "down"
  /\ DaemonLost
  /\ UNCHANGED <<storeVars, stops>>

(* Anywhere, recovery included: a recovery write that fails ends Start. *)
Crash ==
  /\ phase # "down"
  /\ stops < MaxStops
  /\ stops' = stops + 1
  /\ phase' = "down"
  /\ DaemonLost
  /\ UNCHANGED storeVars

Start ==
  /\ phase = "down"
  /\ phase' = "recovering"
  /\ UNCHANGED <<storeVars, stops, workerVars, runVars, pending, handlerVars,
                 resuming, missed>>

(* Faulty variant: an interrupted run goes back to the queue. *)
RecoverRunRequeues(r) ==
  /\ phase = "recovering"
  /\ r \in ListRunningSessionRuns
  /\ status' = [status EXCEPT ![r] = "queued"]
  /\ UNCHANGED <<sessions, sequence, phase, stops, workerVars, runVars, pending,
                 handlerVars, resuming, missed>>

(* recoverStartup: a run left running was interrupted by the last process. *)
RecoverRun(r) ==
  /\ phase = "recovering"
  /\ r \in ListRunningSessionRuns
  /\ SettleSessionRun(r, "running", "aborted")
  /\ UNCHANGED <<phase, stops, workerVars, runVars, pending, handlerVars,
                 resuming, missed>>

(* Faulty variant: queued runs are resumed before running ones are settled. *)
RecoveredTooSoon ==
  /\ phase = "recovering"
  /\ resumeQueued
  /\ phase' = "resuming"
  /\ UNCHANGED <<storeVars, stops, workerVars, runVars, pending, handlerVars,
                 missed>>

Recovered ==
  /\ phase = "recovering"
  /\ ListRunningSessionRuns = {}
  /\ resumeQueued
  /\ phase' = "resuming"
  /\ UNCHANGED <<storeVars, stops, workerVars, runVars, pending, handlerVars,
                 missed>>

(* Start returned: the application serves HTTP and the reconciler ticks. *)
Serve ==
  /\ phase = "resuming"
  /\ resuming = {}
  /\ phase' = "serving"
  /\ UNCHANGED <<storeVars, stops, workerVars, runVars, pending, handlerVars,
                 resuming, missed>>

-----------------------------------------------------------------------------

WorkerStep(s) ==
  \/ Claim(s) \/ ClaimReplyLost(s) \/ ClaimEmpty(s) \/ ClaimError(s)
  \/ ClaimGivesUp(s) \/ ClaimStops(s) \/ CheckPending(s)
  \/ Register(s) \/ Execute(s) \/ Settle(s) \/ SettleDeferred(s) \/ Leave(s)

HandlerStep ==
  \/ \E r \in Runs : \/ Admit(r) \/ AdmitReplyLost(r) \/ Readmit(r)
                     \/ WakeAdmitted(r)
                     \/ AbortRunRead(r) \/ AbortRunQueued(r)
                     \/ AbortRunRunning(r)
  \/ \E s \in Sessions : \/ AbortSession(s)
                         \/ Delete(s) \/ DeleteReplyLost(s) \/ stopAndWait(s)

ProcessStep ==
  \/ Cancel \/ Stop \/ Exit \/ Crash \/ Start
  \/ \E r \in Runs : RecoverRun(r)
  \/ Recovered \/ Serve

Next ==
  \/ \E s \in Sessions : WorkerStep(s)
  \/ HandlerStep
  \/ ReconcileTick
  \/ \E s \in Sessions : WakeResumed(s)
  \/ ProcessStep

Spec == Init /\ [][Next]_vars

(***************************************************************************)
(* Fairness.  Goroutines that can run do run; a run's stream ends (model   *)
(* calls and tools have their own timeouts or are cancelled); a supervisor *)
(* restarts the daemon; the reconciler's ticker fires; the store answers a *)
(* settlement some time and a claim some time among infinitely many tries. *)
(* Nothing obliges a client to send, abort or delete anything.             *)
(***************************************************************************)
Fairness ==
  /\ \A s \in Sessions :
       /\ SF_vars(Claim(s))
       /\ WF_vars(ClaimEmpty(s)) /\ WF_vars(ClaimStops(s))
       /\ WF_vars(CheckPending(s)) /\ WF_vars(Register(s))
       /\ WF_vars(Execute(s)) /\ WF_vars(Settle(s))
       /\ WF_vars(SettleDeferred(s)) /\ WF_vars(Leave(s))
       /\ WF_vars(stopAndWait(s)) /\ WF_vars(WakeResumed(s))
  /\ \A r \in Runs : WF_vars(WakeAdmitted(r)) /\ WF_vars(RecoverRun(r))
  /\ WF_vars(ReconcileTick)
  /\ WF_vars(Stop) /\ WF_vars(Exit) /\ WF_vars(Start)
  /\ WF_vars(Recovered) /\ WF_vars(Serve)

FairSpec == Spec /\ Fairness

-----------------------------------------------------------------------------
(* Properties *)

(* While the daemon serves, a running run is the one its session's worker  *)
(* holds, so somebody will settle it: a run is left running only by a      *)
(* process that is going down, and recovery deals with those before the    *)
(* next one serves.                                                        *)
RunningIsOwned ==
  phase = "serving" =>
    \A r \in Runs : status[r] = "running" =>
      /\ current[SessionOf[r]] = r
      /\ worker[SessionOf[r]] \in {"claimed", "executing", "settling"}

(* settle() treats every error alike and retries forever, so a conflict    *)
(* would pin the worker to its run: the run it settles is still running    *)
(* unless the session was purged.                                          *)
SettleCanCommit ==
  \A s \in Sessions :
    worker[s] = "settling" /\ s \in sessions => status[current[s]] = "running"

(* No wake-up is lost between a claim that found nothing and finishLocked: *)
(* while the daemon serves, a session with queued runs has a worker that   *)
(* will claim again or a wake-up on its way, unless the daemon dropped one *)
(* itself (a claim that gave up, an admission whose client went away),     *)
(* which the reconciler makes good.                                        *)
NoLostWakeup ==
  phase = "serving" =>
    \A s \in sessions : InStatus(s, "queued") # {} =>
      \/ worker[s] \in Places \ {"idle", "empty"}
      \/ worker[s] = "empty" /\ s \in pending
      \/ s \in resuming \cup missed
      \/ \E r \in wakes : SessionOf[r] = s

(* A run that was accepted ends, or goes with its session: no order of     *)
(* wake-ups, lost replies, store errors, shutdowns and crashes strands it. *)
EveryRunSettles ==
  \A r \in Runs : status[r] = "queued" ~> status[r] \in Terminal \cup {"gone"}

(* The wait in stopAndWait ends: the worker of a deleted session, even one *)
(* retrying the settlement of a row that is gone, leaves.                  *)
DeleteReturns ==
  \A s \in Sessions : s \in deleting ~> worker[s] = "idle"

(* What the reference says of POST /sessions/{id}/runs/{runID}/abort: it   *)
(* aborts one run, the one named.  The step that acts on a run read as     *)
(* running cancels no other run.                                           *)
AbortNamesItsRun ==
  [][\A r \in Runs :
       /\ aborting[r] = "running" /\ aborting'[r] = "idle"
       /\ runAborted' # runAborted /\ phase' = phase
       => runCancel[SessionOf[r]] = r]_vars
=============================================================================
