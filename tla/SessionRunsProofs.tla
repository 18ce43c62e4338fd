-------------------------- MODULE SessionRunsProofs --------------------------
(***************************************************************************)
(* Safety of the run queue for any sessions, any finite set of runs, any   *)
(* retry limit and any number of shutdowns and crashes.                    *)
(*                                                                         *)
(* RunningIsOwned, SettleCanCommit and NoLostWakeup are not inductive: a   *)
(* worker may leave its run running when its context ended, and why that   *)
(* never happens to a daemon that serves rests on what a cancelled worker  *)
(* implies (its session is purged) and on what recovery establishes before *)
(* the first worker starts.                                                *)
(***************************************************************************)
EXTENDS SessionRuns, FiniteSetTheorems, TLAPS

-----------------------------------------------------------------------------
(* What every transaction of the run queue preserves.                      *)

(* Everything that can happen to the tables of the queue. *)
StoreStep ==
  \/ \E r \in Runs : AdmitSessionRun(r)
  \/ \E s \in Sessions, r \in Runs : ClaimNextSessionRun(s, r)
  \/ \E r \in Runs, from \in {"queued", "running"}, to \in Terminal :
       SettleSessionRun(r, from, to)
  \/ \E s \in Sessions : PurgeSession(s)

StoreTypeOK ==
  /\ sessions \subseteq Sessions
  /\ status \in [Runs -> Status]
  /\ sequence \in [Runs -> Nat]

(* Runs that were admitted to one session have different sequence numbers. *)
(* StartedInOrder needs this: the claim compares with <=.                  *)
Admitted(r) == status[r] \notin {"none", "gone"}
DistinctSequences ==
  \A r, q \in Runs :
    SessionOf[r] = SessionOf[q] /\ Admitted(r) /\ Admitted(q) /\ r # q
      => sequence[r] # sequence[q]

(* Foreign keys: no row of a purged session is left. *)
PurgedIsGone ==
  \A r \in Runs : SessionOf[r] \notin sessions => status[r] = "gone"

StoreInv ==
  /\ StoreTypeOK /\ PurgedIsGone
  /\ OneRunning /\ DistinctSequences /\ StartedInOrder

LEMMA StoreInitially == StoreInit => StoreInv
BY SessionOfAssumption DEF StoreInit, StoreInv, StoreTypeOK, Status, Terminal, PurgedIsGone,
       OneRunning, DistinctSequences, Admitted, StartedInOrder

(* A new run's sequence is above every other of its session. *)
LEMMA AdmitPreserves ==
  ASSUME StoreInv, NEW r \in Runs, AdmitSessionRun(r)
  PROVE  StoreInv'
<1>1. Cardinality(Runs) \in Nat
  BY RunsAssumption, FS_CardinalityType
<1>2. PICK n \in 1..Cardinality(Runs) :
        /\ IsNextSequence(SessionOf[r], n)
        /\ sequence' = [sequence EXCEPT ![r] = n]
  BY DEF AdmitSessionRun
<1>3. \A q \in Runs : SessionOf[q] = SessionOf[r] => sequence[q] < n
  BY <1>2 DEF IsNextSequence, RunsOf
<1>4. StoreTypeOK'
  BY <1>1, <1>2 DEF AdmitSessionRun, StoreInv, StoreTypeOK, Status
<1>5. /\ status' = [status EXCEPT ![r] = "queued"]
      /\ status[r] = "none"
  BY DEF AdmitSessionRun
<1>6. OneRunning'
  BY <1>5 DEF StoreInv, StoreTypeOK, OneRunning
<1>7. DistinctSequences'
  BY <1>1, <1>2, <1>3, <1>5 DEF StoreInv, StoreTypeOK, DistinctSequences, Admitted
<1>8. StartedInOrder'
  BY <1>1, <1>2, <1>3, <1>5 DEF StoreInv, StoreTypeOK, StartedInOrder
<1>9. PurgedIsGone'
  BY <1>5 DEF AdmitSessionRun, StoreInv, StoreTypeOK, PurgedIsGone
<1> QED
  BY <1>4, <1>6, <1>7, <1>8, <1>9 DEF StoreInv

(* The claimed run has the lowest sequence of those queued, and nothing of *)
(* its session was running.                                                *)
LEMMA ClaimPreserves ==
  ASSUME StoreInv, NEW s \in Sessions, NEW r \in Runs, ClaimNextSessionRun(s, r)
  PROVE  StoreInv'
<1>1. /\ status' = [status EXCEPT ![r] = "running"]
      /\ sequence' = sequence /\ sessions' = sessions
      /\ SessionOf[r] = s /\ status[r] = "queued"
  BY DEF ClaimNextSessionRun, Claimable, InStatus, RunsOf
<1>2. \A q \in Runs : SessionOf[q] = s => status[q] # "running"
  BY DEF ClaimNextSessionRun, Claimable, InStatus, RunsOf
<1>3. \A q \in Runs : SessionOf[q] = s /\ status[q] = "queued"
                        => sequence[r] <= sequence[q]
  BY DEF ClaimNextSessionRun, Claimable, InStatus, RunsOf
<1>4. StoreTypeOK'
  BY <1>1 DEF StoreInv, StoreTypeOK, Status
<1>5. OneRunning'
  BY <1>1, <1>2 DEF StoreInv, StoreTypeOK, OneRunning
<1>6. DistinctSequences'
  BY <1>1 DEF StoreInv, StoreTypeOK, DistinctSequences, Admitted
<1>7. StartedInOrder'
  BY <1>1, <1>3 DEF StoreInv, StoreTypeOK, StartedInOrder, DistinctSequences,
                    Admitted
<1>8. PurgedIsGone'
  BY <1>1 DEF StoreInv, StoreTypeOK, PurgedIsGone
<1> QED
  BY <1>4, <1>5, <1>6, <1>7, <1>8 DEF StoreInv

LEMMA SettlePreserves ==
  ASSUME StoreInv, NEW r \in Runs, NEW from, NEW to \in Terminal,
         SettleSessionRun(r, from, to)
  PROVE  StoreInv'
<1>1. /\ status' = [status EXCEPT ![r] = to]
      /\ sequence' = sequence /\ sessions' = sessions
      /\ \/ status[r] = "running"
         \/ status[r] = "queued" /\ to = "aborted"
  BY DEF SettleSessionRun, legalSessionRunSettlement
<1>2. StoreTypeOK'
  BY <1>1 DEF StoreInv, StoreTypeOK, Status
<1>3. OneRunning'
  BY <1>1 DEF StoreInv, StoreTypeOK, OneRunning, Terminal
<1>4. DistinctSequences'
  BY <1>1 DEF StoreInv, StoreTypeOK, DistinctSequences, Admitted
<1>5. StartedInOrder'
  BY <1>1 DEF StoreInv, StoreTypeOK, StartedInOrder, Terminal
<1>6. PurgedIsGone'
  BY <1>1 DEF StoreInv, StoreTypeOK, PurgedIsGone
<1> QED
  BY <1>2, <1>3, <1>4, <1>5, <1>6 DEF StoreInv

LEMMA PurgePreserves ==
  ASSUME StoreInv, NEW s \in Sessions, PurgeSession(s)
  PROVE  StoreInv'
BY DEF PurgeSession, StoreInv, StoreTypeOK, Status, PurgedIsGone, OneRunning,
       DistinctSequences, Admitted, StartedInOrder

(* Every transaction of the queue keeps its runs ordered and its sessions   *)
(* at one running run each.                                                 *)
THEOREM StoreStepPreserves == StoreInv /\ [StoreStep]_storeVars => StoreInv'
<1> SUFFICES ASSUME StoreInv, [StoreStep]_storeVars PROVE StoreInv'
  OBVIOUS
<1>1. CASE \E r \in Runs : AdmitSessionRun(r)
  BY <1>1, AdmitPreserves
<1>2. CASE \E s \in Sessions, r \in Runs : ClaimNextSessionRun(s, r)
  BY <1>2, ClaimPreserves
<1>3. CASE \E r \in Runs, from \in {"queued", "running"}, to \in Terminal :
             SettleSessionRun(r, from, to)
  BY <1>3, SettlePreserves
<1>4. CASE \E s \in Sessions : PurgeSession(s)
  BY <1>4, PurgePreserves
<1>5. CASE UNCHANGED storeVars
  BY <1>5 DEF storeVars, StoreInv, StoreTypeOK, PurgedIsGone, OneRunning,
              DistinctSequences, Admitted, StartedInOrder
<1> QED
  BY <1>1, <1>2, <1>3, <1>4, <1>5 DEF StoreStep

-----------------------------------------------------------------------------
(* Each transaction is one step of RunQueue. *)

LEMMA InitIsQueueInit == StoreInit => Queue!Init
BY DEF StoreInit, Queue!Init, Waiting, Serving, Ended, InStatus, RunsOf, Terminal

LEMMA AdmitIsJoin ==
  ASSUME StoreInv, NEW r \in Runs, AdmitSessionRun(r)
  PROVE  Queue!Join(SessionOf[r], r)
<1> DEFINE s == SessionOf[r]
<1>1. s \in Sessions
  BY SessionOfAssumption
<1>2. PICK n \in 1..Cardinality(Runs) :
        /\ IsNextSequence(s, n)
        /\ sequence' = [sequence EXCEPT ![r] = n]
  BY DEF AdmitSessionRun
<1>3. /\ status' = [status EXCEPT ![r] = "queued"]
      /\ status[r] = "none"
  BY DEF AdmitSessionRun
<1>4. status \in [Runs -> Status] /\ sequence \in [Runs -> Nat]
  BY DEF StoreInv, StoreTypeOK
<1>5. Waiting' = [Waiting EXCEPT ![s] = @ \cup {<<n, r>>}]
  <2>1. ASSUME NEW u \in Sessions
        PROVE  Waiting'[u] = IF u = s THEN Waiting[s] \cup {<<n, r>>}
                             ELSE Waiting[u]
    <3>1. InStatus(u, "queued")' = IF u = s THEN InStatus(s, "queued") \cup {r}
                                   ELSE InStatus(u, "queued")
      BY <1>3, <1>4 DEF InStatus, RunsOf
    <3>2. sequence'[r] = n /\ \A q \in Runs \ {r} : sequence'[q] = sequence[q]
      BY <1>2, <1>4
    <3>3. r \notin InStatus(u, "queued")
      BY <1>3 DEF InStatus
    <3>4. InStatus(u, "queued") \subseteq Runs
      BY DEF InStatus, RunsOf
    <3> QED
      BY <3>1, <3>2, <3>3, <3>4, <1>1 DEF Waiting
  <2> QED
    BY <2>1, <1>1 DEF Waiting
<1>6. Serving' = Serving
  BY <1>3, <1>4 DEF Serving, InStatus, RunsOf
<1>7. Ended' = Ended
  BY <1>3, <1>4 DEF Ended, Terminal
<1>8. /\ Ended[r] = "open"
      /\ r \notin Serving[s]
  BY <1>1, <1>3 DEF Ended, Serving, InStatus, Terminal
<1>9. \A t \in Waiting[s] : t[2] # r /\ t[1] < n
  BY <1>1, <1>2, <1>3 DEF Waiting, InStatus, IsNextSequence, RunsOf
<1> QED
  BY <1>2, <1>5, <1>6, <1>7, <1>8, <1>9 DEF Queue!Join

LEMMA ClaimIsServe ==
  ASSUME StoreInv, NEW s \in Sessions, NEW r \in Runs, ClaimNextSessionRun(s, r)
  PROVE  Queue!Serve(s)
<1>1. /\ status' = [status EXCEPT ![r] = "running"]
      /\ sequence' = sequence
      /\ SessionOf[r] = s /\ status[r] = "queued"
      /\ InStatus(s, "running") = {}
      /\ \A q \in InStatus(s, "queued") : sequence[r] <= sequence[q]
  BY DEF ClaimNextSessionRun, Claimable, InStatus, RunsOf
<1>2. status \in [Runs -> Status] /\ sequence \in [Runs -> Nat]
  BY DEF StoreInv, StoreTypeOK
<1> DEFINE t == <<sequence[r], r>>
<1>3. t \in Waiting[s] /\ \A u \in Waiting[s] : t[1] <= u[1]
  BY <1>1 DEF Waiting, InStatus, RunsOf
<1>4. Waiting' = [Waiting EXCEPT ![s] = @ \ {t}]
  <2>1. ASSUME NEW u \in Sessions
        PROVE  Waiting'[u] = IF u = s THEN Waiting[s] \ {t} ELSE Waiting[u]
    <3>1. InStatus(u, "queued")' = IF u = s THEN InStatus(s, "queued") \ {r}
                                   ELSE InStatus(u, "queued")
      BY <1>1, <1>2 DEF InStatus, RunsOf
    <3> QED
      BY <3>1, <1>1 DEF Waiting
  <2> QED
    BY <2>1 DEF Waiting
<1>5. Serving' = [Serving EXCEPT ![s] = {r}]
  <2>1. ASSUME NEW u \in Sessions
        PROVE  InStatus(u, "running")' = IF u = s THEN {r}
                                         ELSE InStatus(u, "running")
    BY <1>1, <1>2 DEF InStatus, RunsOf
  <2> QED
    BY <2>1 DEF Serving
<1>6. Ended' = Ended
  BY <1>1, <1>2 DEF Ended, Terminal
<1>7. Serving[s] = {}
  BY <1>1 DEF Serving
<1> QED
  BY <1>3, <1>4, <1>5, <1>6, <1>7 DEF Queue!Serve

(* Only OneRunning makes this Finish: it empties the session's service. *)
LEMMA SettleIsFinishOrWithdraw ==
  ASSUME StoreInv, NEW r \in Runs, NEW from \in {"queued", "running"},
         NEW to \in Terminal, SettleSessionRun(r, from, to)
  PROVE  Queue!Finish(SessionOf[r]) \/ Queue!Withdraw(SessionOf[r])
<1> DEFINE s == SessionOf[r]
<1>1. s \in Sessions
  BY SessionOfAssumption
<1>2. /\ status' = [status EXCEPT ![r] = to]
      /\ sequence' = sequence
      /\ status[r] = from
      /\ from = "queued" => to = "aborted"
  BY DEF SettleSessionRun, legalSessionRunSettlement
<1>3. status \in [Runs -> Status] /\ sequence \in [Runs -> Nat] /\ OneRunning
  BY DEF StoreInv, StoreTypeOK
<1>4. to \in Queue!Outcomes /\ to \notin {"queued", "running"}
  BY DEF Queue!Outcomes, Terminal
<1>5. Ended' = [Ended EXCEPT ![r] = to]
  BY <1>2, <1>3 DEF Ended, Terminal
<1>6. CASE from = "running"
  <2>1. \A u \in Sessions : InStatus(u, "queued")' = InStatus(u, "queued")
    BY <1>2, <1>3, <1>4, <1>6 DEF InStatus, RunsOf
  <2>2. Waiting' = Waiting
    BY <2>1, <1>2 DEF Waiting
  <2>3. \A u \in Sessions : InStatus(u, "running")' =
                                IF u = s THEN {} ELSE InStatus(u, "running")
    BY <1>2, <1>3, <1>4, <1>6 DEF InStatus, RunsOf, OneRunning
  <2>4. Serving' = [Serving EXCEPT ![s] = {}]
    BY <2>3 DEF Serving
  <2>5. r \in Serving[s]
    BY <1>1, <1>2, <1>6 DEF Serving, InStatus, RunsOf
  <2> QED
    BY <1>4, <1>5, <2>2, <2>4, <2>5 DEF Queue!Finish
<1>7. CASE from = "queued"
  <2> DEFINE t == <<sequence[r], r>>
  <2>1. ASSUME NEW u \in Sessions
        PROVE  InStatus(u, "queued")' = IF u = s THEN InStatus(s, "queued") \ {r}
                                        ELSE InStatus(u, "queued")
    BY <1>2, <1>3, <1>4, <1>7 DEF InStatus, RunsOf
  <2>2. Waiting' = [Waiting EXCEPT ![s] = @ \ {t}]
    <3>1. ASSUME NEW u \in Sessions
          PROVE  Waiting'[u] = IF u = s THEN Waiting[s] \ {t} ELSE Waiting[u]
      BY <2>1, <1>2 DEF Waiting
    <3> QED
      BY <3>1 DEF Waiting
  <2>3. \A u \in Sessions : InStatus(u, "running")' = InStatus(u, "running")
    BY <1>2, <1>3, <1>4, <1>7 DEF InStatus, RunsOf
  <2>4. Serving' = Serving
    BY <2>3 DEF Serving
  <2>5. t \in Waiting[s]
    BY <1>1, <1>2, <1>7 DEF Waiting, InStatus, RunsOf
  <2> QED
    BY <1>2, <1>5, <1>7, <2>2, <2>4, <2>5 DEF Queue!Withdraw
<1> QED
  BY <1>6, <1>7

LEMMA PurgeIsPurge ==
  ASSUME StoreInv, NEW s \in Sessions, PurgeSession(s)
  PROVE  Queue!Purge(s)
<1>1. /\ status' = [r \in Runs |-> IF SessionOf[r] = s THEN "gone" ELSE status[r]]
      /\ sequence' = sequence
  BY DEF PurgeSession
<1>2. \A u \in Sessions, st \in {"queued", "running"} :
        InStatus(u, st)' = IF u = s THEN {} ELSE InStatus(u, st)
  BY <1>1 DEF InStatus, RunsOf
<1>3. Waiting' = [Waiting EXCEPT ![s] = {}]
  BY <1>1, <1>2 DEF Waiting
<1>4. Serving' = [Serving EXCEPT ![s] = {}]
  BY <1>2 DEF Serving
<1>5. Ended' = [r \in Runs |-> IF SessionOf[r] = s THEN "gone" ELSE Ended[r]]
  BY <1>1 DEF Ended
<1> QED
  BY <1>3, <1>4, <1>5 DEF Queue!Purge

(* Every transaction of the queue is a step of RunQueue, or changes nothing *)
(* that RunQueue sees.                                                      *)
THEOREM StoreStepIsQueueStep ==
  StoreInv /\ [StoreStep]_storeVars => [Queue!Next]_Queue!vars
<1> SUFFICES ASSUME StoreInv, [StoreStep]_storeVars
             PROVE  [Queue!Next]_Queue!vars
  OBVIOUS
<1>1. ASSUME NEW r \in Runs, AdmitSessionRun(r) PROVE Queue!Next
  BY <1>1, AdmitIsJoin, SessionOfAssumption DEF Queue!Next
<1>2. ASSUME NEW s \in Sessions, NEW r \in Runs, ClaimNextSessionRun(s, r)
      PROVE  Queue!Next
  BY <1>2, ClaimIsServe DEF Queue!Next
<1>3. ASSUME NEW r \in Runs, NEW from \in {"queued", "running"},
             NEW to \in Terminal, SettleSessionRun(r, from, to)
      PROVE  Queue!Next
  BY <1>3, SettleIsFinishOrWithdraw, SessionOfAssumption DEF Queue!Next
<1>4. ASSUME NEW s \in Sessions, PurgeSession(s) PROVE Queue!Next
  BY <1>4, PurgeIsPurge DEF Queue!Next
<1>5. CASE UNCHANGED storeVars
  BY <1>5 DEF storeVars, Queue!vars, Waiting, Serving, Ended, InStatus, RunsOf
<1> QED
  BY <1>1, <1>2, <1>3, <1>4, <1>5 DEF StoreStep

-----------------------------------------------------------------------------
(* The workers. *)

(* The worker of s is between the claim of a run and its settlement. *)
Holds(s) == worker[s] \in {"claimed", "executing", "settling"}

(* A held run is a run of the worker's session, and nobody else settles it. *)
HeldIsRunning ==
  \A s \in Sessions : Holds(s) =>
    /\ current[s] \in RunsOf(s)
    /\ s \in sessions => status[current[s]] = "running"

(* Only the purge of its session ends a worker's own context. *)
CancelledIsPurged ==
  \A s \in sessions : ~cancelled[s] /\ s \notin deleting

(* Recovery runs alone. *)
NobodyBeforeRecovery ==
  phase \in {"down", "recovering"} =>
    resuming = {} /\ \A s \in Sessions : worker[s] = "idle"

Started == phase \in {"resuming", "serving"}

(* RunningIsOwned from the moment recovery is done. *)
Owned ==
  Started => \A r \in Runs : status[r] = "running" =>
               current[SessionOf[r]] = r /\ Holds(SessionOf[r])

WillLook(s) ==
  \/ worker[s] \in Places \ {"idle", "empty"}
  \/ worker[s] = "empty" /\ s \in pending
  \/ s \in resuming \cup missed
  \/ \E r \in wakes : SessionOf[r] = s

(* NoLostWakeup from the moment recovery is done. *)
Noticed ==
  Started => \A s \in sessions : InStatus(s, "queued") # {} => WillLook(s)

WorkerInv == HeldIsRunning /\ CancelledIsPurged /\ NobodyBeforeRecovery /\ Owned

IInv == TypeOK /\ StoreInv /\ WorkerInv /\ Noticed

-----------------------------------------------------------------------------
(* Type correctness *)

WorkerTypeOK ==
  /\ worker \in [Sessions -> Places]
  /\ attempt \in [Sessions -> 0..ClaimRetryLimit]
  /\ current \in [Sessions -> Optional(Runs)]
  /\ target \in [Sessions -> Terminal \cup {"none"}]
  /\ cancelled \in [Sessions -> BOOLEAN]
  /\ pending \subseteq Sessions

LEMMA WakeType ==
  ASSUME TypeOK, NEW s \in Sessions, wake(s)
  PROVE  WorkerTypeOK' /\ missed' \subseteq Sessions
<1> USE BoundsAssumption DEF TypeOK, WorkerTypeOK, workerVars
<1>1. CASE phase = "stopped"
  BY <1>1 DEF wake
<1>2. CASE phase # "stopped" /\ worker[s] # "idle"
  BY <1>2 DEF wake
<1>3. CASE phase # "stopped" /\ worker[s] = "idle"
  <2>1. /\ worker' = [worker EXCEPT ![s] = "claiming"]
        /\ attempt' = [attempt EXCEPT ![s] = 0]
        /\ cancelled' = [cancelled EXCEPT ![s] = FALSE]
        /\ UNCHANGED <<current, target, pending>>
        /\ missed' = missed \ {s}
    BY <1>3 DEF wake
  <2> QED
    BY <2>1 DEF Places
<1> QED
  BY <1>1, <1>2, <1>3

LEMMA FinishType ==
  ASSUME TypeOK, NEW s \in Sessions, finishLocked(s)
  PROVE  /\ WorkerTypeOK'
         /\ runCancel' \in [Sessions -> Optional(Runs)]
         /\ runAborted' \in [Sessions -> BOOLEAN]
BY BoundsAssumption DEF TypeOK, WorkerTypeOK, finishLocked, Places, Optional

LEMMA NextClaimType ==
  ASSUME TypeOK, NEW s \in Sessions, nextClaim(s), pending' \subseteq Sessions
  PROVE  WorkerTypeOK'
BY BoundsAssumption DEF TypeOK, WorkerTypeOK, nextClaim, Places, Optional

LEMMA TypeStep ==
  ASSUME TypeOK, StoreTypeOK', [Next]_vars
  PROVE  TypeOK'
<1> USE NoRunAssumption, BoundsAssumption, SessionOfAssumption
        DEF TypeOK, StoreTypeOK, Phases, Places, Optional, vars, storeVars,
            workerVars, runVars, handlerVars
<1>1. ASSUME NEW s \in Sessions, WorkerStep(s) PROVE TypeOK'
  <2>1. CASE Claim(s)
    BY <2>1 DEF Claim
  <2>2. CASE ClaimReplyLost(s)
    BY <2>2 DEF ClaimReplyLost, finishLocked
  <2>3. CASE ClaimEmpty(s)
    BY <2>3 DEF ClaimEmpty
  <2>4. CASE ClaimError(s)
    BY <2>4 DEF ClaimError
  <2>5. CASE ClaimGivesUp(s)
    BY <2>5 DEF ClaimGivesUp, finishLocked
  <2>6. CASE ClaimStops(s)
    BY <2>6 DEF ClaimStops, finishLocked
  <2>7. CASE CheckPending(s)
    <3>1. CASE s \in pending
      <4>1. nextClaim(s) /\ pending' = pending \ {s} /\ UNCHANGED runVars
        BY <2>7, <3>1 DEF CheckPending, finishLocked
      <4>2. WorkerTypeOK'
        BY <4>1, NextClaimType
      <4> QED
        BY <2>7, <4>1, <4>2 DEF CheckPending, WorkerTypeOK
    <3>2. CASE s \notin pending
      BY <2>7, <3>2, FinishType DEF CheckPending, WorkerTypeOK
    <3> QED
      BY <3>1, <3>2
  <2>8. CASE Register(s)
    BY <2>8 DEF Register
  <2>9. CASE Execute(s)
    BY <2>9 DEF Execute, Outcomes, Terminal
  <2>10. CASE Settle(s)
    BY <2>10 DEF Settle, leave
  <2>11. CASE SettleDeferred(s)
    BY <2>11 DEF SettleDeferred, leave
  <2>12. CASE Leave(s)
    <3>1. CASE CtxDone(s)
      BY <2>12, <3>1, FinishType DEF Leave, WorkerTypeOK
    <3>2. CASE ~CtxDone(s)
      <4>1. /\ nextClaim(s) /\ UNCHANGED pending
            /\ runCancel' = [runCancel EXCEPT ![s] = NoRun]
            /\ runAborted' = [runAborted EXCEPT ![s] = FALSE]
        BY <2>12, <3>2 DEF Leave
      <4>2. WorkerTypeOK'
        BY <4>1, NextClaimType
      <4> QED
        BY <2>12, <4>1, <4>2 DEF Leave, WorkerTypeOK
    <3> QED
      BY <3>1, <3>2
  <2> QED
    BY <1>1, <2>1, <2>2, <2>3, <2>4, <2>5, <2>6, <2>7, <2>8, <2>9, <2>10,
       <2>11, <2>12 DEF WorkerStep
<1>2. ASSUME HandlerStep PROVE TypeOK'
  <2>1. ASSUME NEW r \in Runs, Admit(r) \/ AdmitReplyLost(r) \/ Readmit(r)
        PROVE  TypeOK'
    BY <2>1 DEF Admit, AdmitReplyLost, Readmit
  <2>2. ASSUME NEW r \in Runs, WakeAdmitted(r) PROVE TypeOK'
    BY <2>2, WakeType DEF WakeAdmitted, WorkerTypeOK
  <2>3. ASSUME NEW r \in Runs, AbortRunRead(r) PROVE TypeOK'
    BY <2>3 DEF AbortRunRead
  <2>4. ASSUME NEW r \in Runs, AbortRunQueued(r) PROVE TypeOK'
    BY <2>4 DEF AbortRunQueued
  <2>5. ASSUME NEW r \in Runs, AbortRunRunning(r) PROVE TypeOK'
    BY <2>5 DEF AbortRunRunning, abort
  <2>6. ASSUME NEW s \in Sessions, AbortSession(s) PROVE TypeOK'
    BY <2>6 DEF AbortSession, abort
  <2>7. ASSUME NEW s \in Sessions, Delete(s) PROVE TypeOK'
    BY <2>7 DEF Delete
  <2>8. ASSUME NEW s \in Sessions, DeleteReplyLost(s) PROVE TypeOK'
    BY <2>8 DEF DeleteReplyLost
  <2>9. ASSUME NEW s \in Sessions, stopAndWait(s) PROVE TypeOK'
    BY <2>9 DEF stopAndWait
  <2> QED
    BY <1>2, <2>1, <2>2, <2>3, <2>4, <2>5, <2>6, <2>7, <2>8, <2>9 DEF
       HandlerStep
<1>3. ASSUME ReconcileTick PROVE TypeOK'
  BY <1>3 DEF ReconcileTick, resumeQueued, ListQueuedSessionRunSessions
<1>4. ASSUME NEW s \in Sessions, WakeResumed(s) PROVE TypeOK'
  BY <1>4, WakeType DEF WakeResumed, WorkerTypeOK
<1>5. ASSUME ProcessStep PROVE TypeOK'
  <2>1. CASE Cancel
    BY <2>1 DEF Cancel
  <2>2. CASE Stop
    BY <2>2 DEF Stop
  <2>3. CASE Exit
    BY <2>3 DEF Exit, DaemonLost
  <2>4. CASE Crash
    BY <2>4 DEF Crash, DaemonLost
  <2>5. CASE Start
    BY <2>5 DEF Start
  <2>6. ASSUME NEW r \in Runs, RecoverRun(r) PROVE TypeOK'
    BY <2>6 DEF RecoverRun
  <2>7. CASE Recovered
    BY <2>7 DEF Recovered, resumeQueued, ListQueuedSessionRunSessions
  <2>8. CASE Serve
    BY <2>8 DEF Serve
  <2> QED
    BY <1>5, <2>1, <2>2, <2>3, <2>4, <2>5, <2>6, <2>7, <2>8 DEF ProcessStep
<1>6. CASE UNCHANGED vars
  BY <1>6
<1> QED
  BY <1>1, <1>2, <1>3, <1>4, <1>5, <1>6 DEF Next

-----------------------------------------------------------------------------
(* The tables change only by the transactions of RunStore *)

LEMMA NextIsStoreStep ==
  ASSUME TypeOK, HeldIsRunning, [Next]_vars
  PROVE  [StoreStep]_storeVars
<1>1. ASSUME NEW s \in Sessions, Claim(s) \/ ClaimReplyLost(s) PROVE StoreStep
  BY <1>1 DEF Claim, ClaimReplyLost, StoreStep
<1>2. ASSUME NEW s \in Sessions, Settle(s) PROVE StoreStep
  <2>1. current[s] \in Runs
    BY <1>2 DEF Settle, HeldIsRunning, Holds, RunsOf
  <2>2. target[s] \in Terminal
    BY <1>2 DEF Settle, SettleSessionRun, legalSessionRunSettlement
  <2> QED
    BY <1>2, <2>1, <2>2 DEF Settle, StoreStep
<1>3. ASSUME NEW r \in Runs, Admit(r) \/ AdmitReplyLost(r) PROVE StoreStep
  BY <1>3 DEF Admit, AdmitReplyLost, StoreStep
<1>4. ASSUME NEW r \in Runs, AbortRunQueued(r) \/ RecoverRun(r)
      PROVE  [StoreStep]_storeVars
  BY <1>4 DEF AbortRunQueued, RecoverRun, StoreStep, Terminal, storeVars
<1>5. ASSUME NEW s \in Sessions, Delete(s) \/ DeleteReplyLost(s) PROVE StoreStep
  BY <1>5 DEF Delete, DeleteReplyLost, StoreStep
<1>6. ASSUME NEW s \in Sessions, WorkerStep(s) PROVE [StoreStep]_storeVars
  BY <1>1, <1>2, <1>6 DEF WorkerStep, ClaimEmpty, ClaimError, ClaimGivesUp,
     ClaimStops, CheckPending, Register, Execute, SettleDeferred, Leave
<1>7. ASSUME HandlerStep PROVE [StoreStep]_storeVars
  BY <1>3, <1>4, <1>5, <1>7 DEF HandlerStep, Readmit, WakeAdmitted,
     AbortRunRead, AbortRunRunning, AbortSession, stopAndWait
<1>8. ASSUME ProcessStep PROVE [StoreStep]_storeVars
  BY <1>4, <1>8 DEF ProcessStep, Cancel, Stop, Exit, Crash, Start, Recovered,
     Serve
<1>9. ASSUME ReconcileTick \/ \E s \in Sessions : WakeResumed(s)
      PROVE  UNCHANGED storeVars
  BY <1>9 DEF ReconcileTick, WakeResumed
<1> QED
  BY <1>6, <1>7, <1>8, <1>9 DEF Next, vars

-----------------------------------------------------------------------------
(* Workers and the runs they hold *)

LEMMA WorkerInvStep ==
  ASSUME TypeOK, StoreInv, WorkerInv, [Next]_vars
  PROVE  WorkerInv'
<1> USE NoRunAssumption, SessionOfAssumption
        DEF TypeOK, WorkerInv, HeldIsRunning, CancelledIsPurged,
            NobodyBeforeRecovery, Owned, Holds, Started, RunsOf, vars,
            storeVars, workerVars, runVars, handlerVars
<1>1. ASSUME NEW s \in Sessions, WorkerStep(s) PROVE WorkerInv'
  <2>1. CASE Claim(s)
    BY <2>1 DEF Claim, ClaimNextSessionRun, Claimable, InStatus
  <2>2. CASE ClaimReplyLost(s)
    BY <2>2 DEF ClaimReplyLost, ClaimNextSessionRun, finishLocked, Claimable,
       InStatus, CtxDone, Shutdown
  <2>3. CASE ClaimEmpty(s)
    BY <2>3 DEF ClaimEmpty
  <2>4. CASE ClaimError(s)
    BY <2>4 DEF ClaimError
  <2>5. CASE ClaimGivesUp(s)
    BY <2>5 DEF ClaimGivesUp, finishLocked
  <2>6. CASE ClaimStops(s)
    BY <2>6 DEF ClaimStops, finishLocked
  <2>7. CASE CheckPending(s)
    BY <2>7 DEF CheckPending, finishLocked, nextClaim
  <2>8. CASE Register(s)
    BY <2>8 DEF Register
  <2>9. CASE Execute(s)
    BY <2>9 DEF Execute
  <2>10. CASE Settle(s)
    BY <2>10 DEF Settle, SettleSessionRun, legalSessionRunSettlement,
       Terminal, leave
  <2>11. CASE SettleDeferred(s)
    <3>1. Started => \A r \in Runs : SessionOf[r] = s => status[r] # "running"
      BY <2>11 DEF SettleDeferred, CtxDone, Shutdown, StoreInv, PurgedIsGone
    <3> QED
      BY <2>11, <3>1 DEF SettleDeferred, leave
  <2>12. CASE Leave(s)
    BY <2>12 DEF Leave, finishLocked, nextClaim
  <2> QED
    BY <1>1, <2>1, <2>2, <2>3, <2>4, <2>5, <2>6, <2>7, <2>8, <2>9, <2>10,
       <2>11, <2>12 DEF WorkerStep
<1>2. ASSUME HandlerStep PROVE WorkerInv'
  <2>1. ASSUME NEW r \in Runs, Admit(r) PROVE WorkerInv'
    BY <2>1 DEF Admit, AdmitSessionRun
  <2>2. ASSUME NEW r \in Runs, AdmitReplyLost(r) PROVE WorkerInv'
    BY <2>2 DEF AdmitReplyLost, AdmitSessionRun
  <2>3. ASSUME NEW r \in Runs, Readmit(r) PROVE WorkerInv'
    BY <2>3 DEF Readmit
  <2>4. ASSUME NEW r \in Runs, WakeAdmitted(r) PROVE WorkerInv'
    BY <2>4 DEF WakeAdmitted, wake, Up
  <2>5. ASSUME NEW r \in Runs, AbortRunRead(r) PROVE WorkerInv'
    BY <2>5 DEF AbortRunRead
  <2>6. ASSUME NEW r \in Runs, AbortRunQueued(r) PROVE WorkerInv'
    BY <2>6 DEF AbortRunQueued, SettleSessionRun
  <2>7. ASSUME NEW r \in Runs, AbortRunRunning(r) PROVE WorkerInv'
    BY <2>7 DEF AbortRunRunning, abort
  <2>8. ASSUME NEW s \in Sessions, AbortSession(s) PROVE WorkerInv'
    BY <2>8 DEF AbortSession, abort
  <2>9. ASSUME NEW s \in Sessions, Delete(s) PROVE WorkerInv'
    BY <2>9 DEF Delete, PurgeSession
  <2>10. ASSUME NEW s \in Sessions, DeleteReplyLost(s) PROVE WorkerInv'
    BY <2>10 DEF DeleteReplyLost, PurgeSession
  <2>11. ASSUME NEW s \in Sessions, stopAndWait(s) PROVE WorkerInv'
    BY <2>11 DEF stopAndWait
  <2> QED
    BY <1>2, <2>1, <2>2, <2>3, <2>4, <2>5, <2>6, <2>7, <2>8, <2>9, <2>10,
       <2>11 DEF HandlerStep
<1>3. CASE ReconcileTick
  BY <1>3 DEF ReconcileTick, resumeQueued, ListQueuedSessionRunSessions
<1>4. ASSUME NEW s \in Sessions, WakeResumed(s) PROVE WorkerInv'
  BY <1>4 DEF WakeResumed, wake
<1>5. ASSUME ProcessStep PROVE WorkerInv'
  <2>1. CASE Cancel
    BY <2>1 DEF Cancel
  <2>2. CASE Stop
    BY <2>2 DEF Stop
  <2>3. CASE Exit
    BY <2>3 DEF Exit, DaemonLost
  <2>4. CASE Crash
    BY <2>4 DEF Crash, DaemonLost
  <2>5. CASE Start
    BY <2>5 DEF Start
  <2>6. ASSUME NEW r \in Runs, RecoverRun(r) PROVE WorkerInv'
    BY <2>6 DEF RecoverRun, SettleSessionRun, legalSessionRunSettlement,
       Terminal
  <2>7. CASE Recovered
    BY <2>7 DEF Recovered, resumeQueued, ListQueuedSessionRunSessions,
       ListRunningSessionRuns
  <2>8. CASE Serve
    BY <2>8 DEF Serve
  <2> QED
    BY <1>5, <2>1, <2>2, <2>3, <2>4, <2>5, <2>6, <2>7, <2>8 DEF ProcessStep
<1>6. CASE UNCHANGED vars
  BY <1>6
<1> QED
  BY <1>1, <1>2, <1>3, <1>4, <1>5, <1>6 DEF Next

-----------------------------------------------------------------------------
(* Wake-ups *)

LEMMA NoticedStep ==
  ASSUME TypeOK, StoreInv, WorkerInv, Noticed, [Next]_vars
  PROVE  Noticed'
<1> USE SessionOfAssumption
        DEF TypeOK, Noticed, WillLook, Started, Places, InStatus, RunsOf, vars,
            storeVars, workerVars, runVars, handlerVars
<1>1. ASSUME NEW s \in Sessions, WorkerStep(s) PROVE Noticed'
  <2>1. CASE Claim(s)
    BY <2>1 DEF Claim, ClaimNextSessionRun, Claimable
  <2>2. CASE ClaimReplyLost(s)
    BY <2>2 DEF ClaimReplyLost, ClaimNextSessionRun, finishLocked, Claimable,
       CtxDone, Shutdown, WorkerInv, CancelledIsPurged
  <2>3. CASE ClaimEmpty(s)
    BY <2>3 DEF ClaimEmpty, ClaimReturnsNothing, WorkerInv, Owned, Holds
  <2>4. CASE ClaimError(s)
    BY <2>4 DEF ClaimError
  <2>5. CASE ClaimGivesUp(s)
    BY <2>5 DEF ClaimGivesUp, finishLocked
  <2>6. CASE ClaimStops(s)
    BY <2>6 DEF ClaimStops, finishLocked, CtxDone, Shutdown, WorkerInv,
       CancelledIsPurged
  <2>7. CASE CheckPending(s)
    BY <2>7 DEF CheckPending, finishLocked, nextClaim
  <2>8. CASE Register(s)
    BY <2>8 DEF Register
  <2>9. CASE Execute(s)
    BY <2>9 DEF Execute
  <2>10. CASE Settle(s)
    BY <2>10 DEF Settle, SettleSessionRun, legalSessionRunSettlement,
       Terminal, leave, legalSessionRunSettlement, Terminal
  <2>11. CASE SettleDeferred(s)
    BY <2>11 DEF SettleDeferred, leave
  <2>12. CASE Leave(s)
    BY <2>12 DEF Leave, finishLocked, nextClaim, CtxDone, Shutdown, WorkerInv,
       CancelledIsPurged
  <2> QED
    BY <1>1, <2>1, <2>2, <2>3, <2>4, <2>5, <2>6, <2>7, <2>8, <2>9, <2>10,
       <2>11, <2>12 DEF WorkerStep
<1>2. ASSUME HandlerStep PROVE Noticed'
  <2>1. ASSUME NEW r \in Runs, Admit(r) PROVE Noticed'
    BY <2>1 DEF Admit, AdmitSessionRun
  <2>2. ASSUME NEW r \in Runs, AdmitReplyLost(r) PROVE Noticed'
    BY <2>2 DEF AdmitReplyLost, AdmitSessionRun
  <2>3. ASSUME NEW r \in Runs, Readmit(r) PROVE Noticed'
    BY <2>3 DEF Readmit
  <2>4. ASSUME NEW r \in Runs, WakeAdmitted(r) PROVE Noticed'
    BY <2>4 DEF WakeAdmitted, wake
  <2>5. ASSUME NEW r \in Runs, AbortRunRead(r) PROVE Noticed'
    BY <2>5 DEF AbortRunRead
  <2>6. ASSUME NEW r \in Runs, AbortRunQueued(r) PROVE Noticed'
    BY <2>6 DEF AbortRunQueued, SettleSessionRun, legalSessionRunSettlement,
       Terminal
  <2>7. ASSUME NEW r \in Runs, AbortRunRunning(r) PROVE Noticed'
    BY <2>7 DEF AbortRunRunning, abort
  <2>8. ASSUME NEW s \in Sessions, AbortSession(s) PROVE Noticed'
    BY <2>8 DEF AbortSession, abort
  <2>9. ASSUME NEW s \in Sessions, Delete(s) PROVE Noticed'
    BY <2>9 DEF Delete, PurgeSession
  <2>10. ASSUME NEW s \in Sessions, DeleteReplyLost(s) PROVE Noticed'
    BY <2>10 DEF DeleteReplyLost, PurgeSession
  <2>11. ASSUME NEW s \in Sessions, stopAndWait(s) PROVE Noticed'
    BY <2>11 DEF stopAndWait, WorkerInv, CancelledIsPurged
  <2> QED
    BY <1>2, <2>1, <2>2, <2>3, <2>4, <2>5, <2>6, <2>7, <2>8, <2>9, <2>10,
       <2>11 DEF HandlerStep
<1>3. CASE ReconcileTick
  BY <1>3 DEF ReconcileTick, resumeQueued, ListQueuedSessionRunSessions
<1>4. ASSUME NEW s \in Sessions, WakeResumed(s) PROVE Noticed'
  BY <1>4 DEF WakeResumed, wake
<1>5. ASSUME ProcessStep PROVE Noticed'
  <2>1. CASE Cancel
    BY <2>1 DEF Cancel
  <2>2. CASE Stop
    BY <2>2 DEF Stop
  <2>3. CASE Exit
    BY <2>3 DEF Exit, DaemonLost
  <2>4. CASE Crash
    BY <2>4 DEF Crash, DaemonLost
  <2>5. CASE Start
    BY <2>5 DEF Start
  <2>6. ASSUME NEW r \in Runs, RecoverRun(r) PROVE Noticed'
    BY <2>6 DEF RecoverRun, SettleSessionRun, legalSessionRunSettlement,
       Terminal
  <2>7. CASE Recovered
    BY <2>7 DEF Recovered, resumeQueued, ListQueuedSessionRunSessions
  <2>8. CASE Serve
    BY <2>8 DEF Serve
  <2> QED
    BY <1>5, <2>1, <2>2, <2>3, <2>4, <2>5, <2>6, <2>7, <2>8 DEF ProcessStep
<1>6. CASE UNCHANGED vars
  BY <1>6
<1> QED
  BY <1>1, <1>2, <1>3, <1>4, <1>5, <1>6 DEF Next

-----------------------------------------------------------------------------
(* Theorems *)

LEMMA Initially == Init => IInv
<1> SUFFICES ASSUME Init PROVE IInv
  OBVIOUS
<1>1. StoreInv
  BY StoreInitially DEF Init
<1>2. TypeOK
  BY <1>1, BoundsAssumption DEF Init, StoreInv, StoreTypeOK, DaemonInit, TypeOK,
     Phases, Places, Optional
<1>3. WorkerInv
  BY DEF Init, StoreInit, DaemonInit, WorkerInv, HeldIsRunning,
     CancelledIsPurged, NobodyBeforeRecovery, Owned, Holds
<1>4. Noticed
  BY DEF Init, StoreInit, Noticed, InStatus, RunsOf
<1> QED
  BY <1>1, <1>2, <1>3, <1>4 DEF IInv

LEMMA Inductive == IInv /\ [Next]_vars => IInv'
<1> SUFFICES ASSUME IInv, [Next]_vars PROVE IInv'
  OBVIOUS
<1>1. [StoreStep]_storeVars
  BY NextIsStoreStep DEF IInv, WorkerInv
<1>2. StoreInv'
  BY <1>1, StoreStepPreserves DEF IInv
<1>3. TypeOK'
  BY <1>2, TypeStep DEF IInv, StoreInv
<1>4. WorkerInv' /\ Noticed'
  BY WorkerInvStep, NoticedStep DEF IInv
<1> QED
  BY <1>2, <1>3, <1>4 DEF IInv

LEMMA Invariant == Spec => []IInv
  BY Initially, Inductive, PTL DEF Spec

(* Every variable of the daemon and of its tables keeps its type. *)
THEOREM TypeCorrect == Spec => []TypeOK
<1>1. IInv => TypeOK
  BY DEF IInv
<1> QED
  BY <1>1, Invariant, PTL

(* Runs of one session never overlap. *)
THEOREM RunsAreSerial == Spec => []OneRunning
<1>1. IInv => OneRunning
  BY DEF IInv, StoreInv
<1> QED
  BY <1>1, Invariant, PTL

(* Runs of one session start in the order of their admission. *)
THEOREM RunsAreOrdered == Spec => []StartedInOrder
<1>1. IInv => StartedInOrder
  BY DEF IInv, StoreInv
<1> QED
  BY <1>1, Invariant, PTL

(* A daemon that serves has a worker behind every running run. *)
THEOREM RunsAreOwned == Spec => []RunningIsOwned
<1>1. IInv => RunningIsOwned
  BY DEF IInv, WorkerInv, Owned, Started, Holds, RunningIsOwned
<1> QED
  BY <1>1, Invariant, PTL

(* The unbounded retry of settle() never faces a conflict. *)
THEOREM SettlementsCommit == Spec => []SettleCanCommit
<1>1. IInv => SettleCanCommit
  BY DEF IInv, WorkerInv, HeldIsRunning, Holds, SettleCanCommit
<1> QED
  BY <1>1, Invariant, PTL

(* No interleaving of claims, wake-ups and exits loses a wake-up. *)
THEOREM WakeupsAreKept == Spec => []NoLostWakeup
<1>1. IInv => NoLostWakeup
  BY DEF IInv, Noticed, WillLook, Started, NoLostWakeup
<1> QED
  BY <1>1, Invariant, PTL

(* The daemon, with its workers, retries, crashes and restarts, implements *)
(* the line of RunQueue.                                                   *)
THEOREM DaemonImplementsQueue == Spec => ImplementsRunQueue
<1>1. Init => Queue!Init
  BY InitIsQueueInit DEF Init
<1>2. IInv /\ [Next]_vars => [Queue!Next]_Queue!vars
  <2> SUFFICES ASSUME IInv, [Next]_vars PROVE [Queue!Next]_Queue!vars
    OBVIOUS
  <2>1. [StoreStep]_storeVars
    BY NextIsStoreStep DEF IInv, WorkerInv
  <2> QED
    BY <2>1, StoreStepIsQueueStep DEF IInv
<1> QED
  BY <1>1, <1>2, Invariant, PTL DEF Spec, ImplementsRunQueue, Queue!Spec
=============================================================================
