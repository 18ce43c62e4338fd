------------------------------ MODULE RunQueue ------------------------------
(***************************************************************************)
(* What the daemon promises about the runs of its sessions: one line per   *)
(* session, served one run at a time in the order of arrival.  A run that  *)
(* was served is never served again, a waiting run may be withdrawn, and   *)
(* a purged session takes its line with it.  Nothing is said of workers,   *)
(* wake-ups, retries, crashes or restarts: SessionRuns implements this     *)
(* specification in spite of them.                                         *)
(***************************************************************************)
EXTENDS Naturals

CONSTANTS Sessions, Runs, SessionOf,
          Tickets   \* the numbers a line hands out

VARIABLES line,     \* waiting runs of each session, each with its ticket
          active,   \* the run being served, if any
          outcome   \* "open" until the run ends

vars == <<line, active, outcome>>

Outcomes == {"completed", "failed", "aborted"}

Init ==
  /\ line = [s \in Sessions |-> {}]
  /\ active = [s \in Sessions |-> {}]
  /\ outcome = [r \in Runs |-> "open"]

(* r takes a ticket behind everyone in the line of its session. *)
Join(s, r) ==
  /\ SessionOf[r] = s
  /\ outcome[r] = "open"
  /\ r \notin active[s]
  /\ \A t \in line[s] : t[2] # r
  /\ \E n \in Tickets :
       /\ \A t \in line[s] : t[1] < n
       /\ line' = [line EXCEPT ![s] = @ \cup {<<n, r>>}]
  /\ UNCHANGED <<active, outcome>>

(* The lowest ticket is served when nobody is. *)
Serve(s) ==
  /\ active[s] = {}
  /\ \E t \in line[s] :
       /\ \A u \in line[s] : t[1] <= u[1]
       /\ line' = [line EXCEPT ![s] = @ \ {t}]
       /\ active' = [active EXCEPT ![s] = {t[2]}]
  /\ UNCHANGED outcome

Finish(s) ==
  /\ \E r \in active[s], o \in Outcomes : outcome' = [outcome EXCEPT ![r] = o]
  /\ active' = [active EXCEPT ![s] = {}]
  /\ UNCHANGED line

Withdraw(s) ==
  /\ \E t \in line[s] :
       /\ line' = [line EXCEPT ![s] = @ \ {t}]
       /\ outcome' = [outcome EXCEPT ![t[2]] = "aborted"]
  /\ UNCHANGED active

Purge(s) ==
  /\ line' = [line EXCEPT ![s] = {}]
  /\ active' = [active EXCEPT ![s] = {}]
  /\ outcome' = [r \in Runs |-> IF SessionOf[r] = s THEN "gone" ELSE outcome[r]]

Next ==
  \E s \in Sessions :
    \/ \E r \in Runs : Join(s, r)
    \/ Serve(s) \/ Finish(s) \/ Withdraw(s) \/ Purge(s)

Spec == Init /\ [][Next]_vars
=============================================================================
