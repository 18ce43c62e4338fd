------------------------------ MODULE RunStore ------------------------------
(***************************************************************************)
(* The durable run queue of store.Store, as SQLiteStore implements it.     *)
(*                                                                         *)
(* Every operation runs in one BEGIN IMMEDIATE transaction on the only     *)
(* connection, so each is one atomic step on the tables `sessions' and     *)
(* `session_runs'.  A run row is abstracted to its status and its          *)
(* per-session sequence number; the snapshot of agent, message and output  *)
(* schema it carries never changes after admission.  The aggregate stream  *)
(* that the same transactions append to is the subject of SessionAggregate *)
(* and the public events of SessionEvents.                                 *)
(***************************************************************************)
EXTENDS Integers, FiniteSets

CONSTANTS Sessions,   \* session ids
          Runs,       \* run ids (NewID: never reused)
          SessionOf   \* the session a run is admitted to

ASSUME SessionOfAssumption == SessionOf \in [Runs -> Sessions]
(* A behaviour admits finitely many runs; no theorem depends on how many. *)
ASSUME RunsAssumption == IsFiniteSet(Runs)

VARIABLES sessions,   \* rows of `sessions': created and not purged
          status,     \* session_runs.status; "none" before admission,
                      \* "gone" once the purge of the session deleted the row
          sequence    \* session_runs.sequence, 0 before admission

storeVars == <<sessions, status, sequence>>

Terminal == {"completed", "failed", "aborted"}
Status == {"none", "queued", "running", "gone"} \cup Terminal

RunsOf(s) == {r \in Runs : SessionOf[r] = s}
InStatus(s, st) == {r \in RunsOf(s) : status[r] = st}

StoreInit ==
  /\ sessions = Sessions
  /\ status = [r \in Runs |-> "none"]
  /\ sequence = [r \in Runs |-> 0]

-----------------------------------------------------------------------------

(* COALESCE(MAX(sequence), 0) + 1 over the rows of the session. *)
IsNextSequence(s, n) ==
  /\ \A q \in RunsOf(s) : sequence[q] < n
  /\ n = 1 \/ \E q \in RunsOf(s) : sequence[q] = n - 1

(* A new request id, or none: the run joins the end of its session's queue. *)
AdmitSessionRun(r) ==
  /\ SessionOf[r] \in sessions
  /\ status[r] = "none"
  /\ \E n \in 1..Cardinality(Runs) :
       /\ IsNextSequence(SessionOf[r], n)
       /\ sequence' = [sequence EXCEPT ![r] = n]
  /\ status' = [status EXCEPT ![r] = "queued"]
  /\ UNCHANGED sessions

(* Faulty variants: a claim that ignores the running run, and one that takes *)
(* any queued run.                                                           *)
ClaimableWhileRunning(s, r) ==
  /\ s \in sessions
  /\ r \in InStatus(s, "queued")
  /\ \A q \in InStatus(s, "queued") : sequence[r] <= sequence[q]

ClaimableAnyQueued(s, r) ==
  /\ s \in sessions
  /\ InStatus(s, "running") = {}
  /\ r \in InStatus(s, "queued")

(* The row ClaimNextSessionRun selects: nothing of the session is running, *)
(* and no queued run has a lower sequence.                                 *)
Claimable(s, r) ==
  /\ s \in sessions
  /\ InStatus(s, "running") = {}
  /\ r \in InStatus(s, "queued")
  /\ \A q \in InStatus(s, "queued") : sequence[r] <= sequence[q]

ClaimNextSessionRun(s, r) ==
  /\ Claimable(s, r)
  /\ status' = [status EXCEPT ![r] = "running"]
  /\ UNCHANGED <<sessions, sequence>>

(* The empty transition: something is running, or nothing is queued. *)
ClaimReturnsNothing(s) ==
  /\ s \in sessions
  /\ InStatus(s, "running") # {} \/ InStatus(s, "queued") = {}

legalSessionRunSettlement(from, to) ==
  \/ from = "running" /\ to \in Terminal
  \/ from = "queued" /\ to = "aborted"

(* The effective settlement.  A settlement of a terminal run (idempotent or *)
(* conflicting) and one of a deleted row change nothing.                    *)
SettleSessionRun(r, expected, to) ==
  /\ status[r] = expected
  /\ legalSessionRunSettlement(expected, to)
  /\ status' = [status EXCEPT ![r] = to]
  /\ UNCHANGED <<sessions, sequence>>

SettleChanges(r, expected, to) ==
  status[r] = expected /\ legalSessionRunSettlement(expected, to)

(* Deletes the session; its runs go with it (ON DELETE CASCADE). *)
PurgeSession(s) ==
  /\ s \in sessions
  /\ sessions' = sessions \ {s}
  /\ status' = [r \in Runs |-> IF SessionOf[r] = s THEN "gone" ELSE status[r]]
  /\ UNCHANGED sequence

ListRunningSessionRuns == {r \in Runs : status[r] = "running"}
ListQueuedSessionRunSessions == {s \in Sessions : InStatus(s, "queued") # {}}

-----------------------------------------------------------------------------
(* Properties *)

(* At most one run of a session is running in the store, whatever workers, *)
(* lost replies and restarts do: runs of one session execute one by one.   *)
OneRunning ==
  \A r, q \in Runs :
    SessionOf[r] = SessionOf[q] /\ status[r] = "running" /\ status[q] = "running"
      => r = q

(* Runs of one session execute in order: no run that was started has a     *)
(* higher sequence than one still waiting.  (An aborted run may never have *)
(* started.)                                                               *)
StartedInOrder ==
  \A r, q \in Runs :
    /\ SessionOf[r] = SessionOf[q]
    /\ status[r] = "queued"
    /\ status[q] \in {"running", "completed", "failed"}
    => sequence[q] < sequence[r]

(* The queue as RunQueue sees it. *)
Waiting == [s \in Sessions |->
              {<<sequence[r], r>> : r \in InStatus(s, "queued")}]
Serving == [s \in Sessions |-> InStatus(s, "running")]
Ended == [r \in Runs |->
            IF status[r] \in Terminal \cup {"gone"} THEN status[r] ELSE "open"]

Queue ==
  INSTANCE RunQueue WITH Tickets <- 1..Cardinality(Runs), line <- Waiting,
                         active <- Serving, outcome <- Ended

(* The queue implements the line of RunQueue: whatever the daemon does, a  *)
(* session's runs are served one at a time in the order of their           *)
(* admission, and none is served or ended twice.                           *)
ImplementsRunQueue == Queue!Spec
=============================================================================
